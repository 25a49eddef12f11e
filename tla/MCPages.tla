------------------------------ MODULE MCPages ------------------------------
(***************************************************************************)
(* Small instances of TapePages.                                           *)
(***************************************************************************)
EXTENDS TapePages, TLC

CONSTANTS a, w1, e1, s1, r1, g1

TwoOfOne == 1 :> a @@ 2 :> a
TwoDates == 1 :> 1 @@ 2 :> 2
TwoWindows == {{1, 2}}

\* The listener threads are slow to connect: what takes scored documents off
\* the tape is GET /tape, this client's requests and those of others.
DeafSpec == ReadersInit /\ [][ReadersNext /\ UNCHANGED thread]_readersVars
=============================================================================
