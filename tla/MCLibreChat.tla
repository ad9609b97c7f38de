---------------------------- MODULE MCLibreChat ----------------------------
EXTENDS LibreChat, TLC

CONSTANTS f1, f2

Symmetric == Permutations(File)

=============================================================================
