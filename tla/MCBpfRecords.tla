---------------------------- MODULE MCBpfRecords ----------------------------
\* Model values for BpfRecords; processes of students, CPUs, threads and
\* elements are alike.
EXTENDS BpfRecords, TLC
CONSTANTS c1, c2, p1, p2, p3, t1, t2, e1, e2, e3
Symmetry == Permutations(Students) \cup Permutations(Cpus) \cup Permutations(Threads) \cup Permutations(Cells)
=============================================================================
