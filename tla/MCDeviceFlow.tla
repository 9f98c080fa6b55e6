---------------------------- MODULE MCDeviceFlow ----------------------------
EXTENDS DeviceFlow, TLC

Symmetry == Permutations(Web) \cup Permutations(Poll) \cup Permutations(User)
=============================================================================
