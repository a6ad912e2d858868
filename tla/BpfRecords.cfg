CONSTANTS
    c1 = c1
    c2 = c2
    p1 = p1
    p2 = p2
    p3 = p3
    t1 = t1
    t2 = t2
    e1 = e1
    e2 = e2
    e3 = e3
    Cpus = {c1, c2}
    Procs = {p1, p2, p3}
    Threads = {t1, t2}
    Students = {p1, p2}
    Cells = {e1, e2}
    MaxEntries = 1
    MaxExecs = 2
    MaxFaults = 1
SPECIFICATION Spec
SYMMETRY Symmetry
INVARIANTS RecordsInv ReportsAreWhole OneReportPerProgram EndsAreAccountedFor
