------------------------------ MODULE MCPairing ------------------------------
EXTENDS Pairing, TLC

MCEmptyFile == {<<>>}

MCRequestRoles == {"none", "Admin"}

MCCodes == {"k1", "k2"}

CallerSymmetry == Permutations(Callers)

=============================================================================
