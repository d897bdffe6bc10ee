-------------------------- MODULE MCMobilePairing --------------------------
(* MobilePairing on small instances; secrets, tokens and devices are       *)
(* interchangeable.                                                        *)
EXTENDS MobilePairing, TLC

Symmetry ==
  Permutations(Secrets) \cup Permutations(Tokens) \cup Permutations(Devices)
=============================================================================
