---------------------------- MODULE MCFilePipeline ----------------------------
\* FilePipeline's constants are numbers: the configuration gives them.
EXTENDS FilePipeline
===============================================================================
