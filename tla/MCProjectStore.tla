---------------------------- MODULE MCProjectStore ----------------------------
\* A small instance of ProjectStore for TLC.
EXTENDS ProjectStore
=============================================================================
