---------------------------- MODULE MCNativeGate ----------------------------
EXTENDS NativeGate

CONSTANTS p1, p2, other, r1
=============================================================================
