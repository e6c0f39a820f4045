------------------------------ MODULE MCSysbus ------------------------------
EXTENDS Sysbus, TLC

CallSymmetry == Permutations(Calls)

=============================================================================
