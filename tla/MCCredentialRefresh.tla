-------------------------- MODULE MCCredentialRefresh --------------------------
EXTENDS CredentialRefresh, TLC

CONSTANTS p1, p2, c1, c2, c3, a1, a2

MCProcesses == Permutations(Processes)
MCSymmetry == MCProcesses \cup Permutations(Callers)
=============================================================================
