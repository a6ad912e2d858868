----------------------------- MODULE MCPolling -----------------------------
\* Model values for FilePolling.
EXTENDS FilePolling
CONSTANTS p1, p2
=============================================================================
