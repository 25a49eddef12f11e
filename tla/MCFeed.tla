------------------------------- MODULE MCFeed -------------------------------
(***************************************************************************)
(* A small instance of TapeFeed: one document of one source.               *)
(***************************************************************************)
EXTENDS TapeFeed, TLC

CONSTANTS a, w1, e1, s1, r1, c1

OneOfOne == 1 :> a
OneDate == 1 :> 1
OneWindow == {{1}}
=============================================================================
