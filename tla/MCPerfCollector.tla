--------------------------- MODULE MCPerfCollector ---------------------------
\* PerfCollector's constants are numbers: the configurations give them.
EXTENDS PerfCollector
=============================================================================
