---------------------------- MODULE MCDebouncer ----------------------------
\* Model values for Debouncer.
EXTENDS Debouncer
CONSTANTS p1, p2
=============================================================================
