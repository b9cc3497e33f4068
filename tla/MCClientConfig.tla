--------------------------- MODULE MCClientConfig ---------------------------
(***************************************************************************)
(* A small instance of ClientConfig: two goroutines that pass one list of  *)
(* options to New, every list of up to MaxOptions options.                 *)
(***************************************************************************)
EXTENDS ClientConfig, TLC

CONSTANTS b1, b2, own

TwoTimeouts == {-1, 1}
TwoBudgets == {-1, 2}

Symmetry == Permutations(Builder)

OneList ==
  {[b \in Builder |-> list] : list \in UNION {[1..n -> Option] : n \in 0..MaxOptions}}
=============================================================================
