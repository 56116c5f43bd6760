----------------------------- MODULE MCFileSink -----------------------------
EXTENDS FileSink, TLC
=============================================================================
