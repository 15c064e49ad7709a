--------------------------- MODULE MCControlStack ---------------------------
EXTENDS ControlStack, TLC

Symmetries == Permutations(Names)

==============================================================================
