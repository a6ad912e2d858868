--------------------------- MODULE MCBackendEvents ---------------------------
\* Two events of one time and a later one; two writers; three cached queries.
EXTENDS BackendEvents, TLC

CONSTANTS w1, w2, r1, r2, a, b

MCOccurredAt == <<1, 2, 1>>
MCSymmetry == Permutations(Writers)
===============================================================================
