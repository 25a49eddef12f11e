------------------------------- MODULE MCTape -------------------------------
(***************************************************************************)
(* Small instances of TapeSpaced.  The catalogues: two documents of two    *)
(* sources or of one, the first one older, and a single document.          *)
(***************************************************************************)
EXTENDS TapeSpaced, TLC

CONSTANTS a, b, w1, w2, e1, s1, r1

TwoOfTwo == 1 :> a @@ 2 :> b
TwoOfOne == 1 :> a @@ 2 :> a
TwoDates == 1 :> 1 @@ 2 :> 2
TwoWindows == {{1, 2}}
LateWindows == {{1, 2}, {2}}

OneOfOne == 1 :> a
OneDate == 1 :> 1
OneWindow == {{1}}

\* Bound on the positions of a tape.  With two workers they grow for ever: a
\* wipe without the lock may empty the tape in the middle of another's run,
\* which goes on counting.
MaxPosition == 2
BoundedSpec == Init /\ [][Next /\ \A w \in Workers : run'[w].pos <= MaxPosition]_vars

WorkerSymmetry == Permutations(Workers)

=============================================================================
