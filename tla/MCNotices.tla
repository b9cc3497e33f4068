----------------------------- MODULE MCNotices ------------------------------
(***************************************************************************)
(* A small instance of Notices: two long headers that agree in their first *)
(* 512 bytes, two short ones and an absent one.                            *)
(***************************************************************************)
EXTENDS Notices, TLC

CONSTANTS g1, g2, long1, long2, short, other, absent, cut, s, o

CleanHeader == (long1 :> cut) @@ (long2 :> cut) @@ (short :> s)
               @@ (other :> o) @@ (absent :> Blank)
=============================================================================
