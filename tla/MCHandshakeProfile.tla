-------------------------- MODULE MCHandshakeProfile --------------------------
EXTENDS HandshakeProfile, TLC

Symmetry == Permutations(Slots)
=============================================================================
