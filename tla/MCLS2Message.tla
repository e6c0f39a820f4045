---------------------------- MODULE MCLS2Message ----------------------------
EXTENDS LS2Message, TLC

WrapperSymmetry == Permutations(Wrappers) \cup Permutations(Messages)

=============================================================================
