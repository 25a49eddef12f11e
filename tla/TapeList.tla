------------------------------ MODULE TapeList ------------------------------
(***************************************************************************)
(* What a tape is to its user: a list that documents join at the end and   *)
(* leave when they have been scored, and that is thrown away only to be    *)
(* filled again after the user has asked for something else.  The request  *)
(* to fill it again is withdrawn only by a filling that was completed.     *)
(*                                                                         *)
(* The promise holds as long as the store keeps its data and no lock       *)
(* expires under its run; afterwards anything may happen to the list.      *)
(***************************************************************************)

CONSTANT Items

VARIABLES
  listed,   \* the items on the list
  before,   \* their order, as pairs
  scored,   \* the items the user has scored
  due,      \* the list is to be filled again
  filling,  \* it has been thrown away and is being filled
  sound     \* the store and the locks have kept what they hold

listVars == <<listed, before, scored, due, filling, sound>>

Init ==
  /\ listed = {} /\ before = {} /\ scored = {}
  /\ due = FALSE /\ filling = FALSE /\ sound = TRUE

Arrive(i) ==
  /\ i \notin listed
  /\ listed' = listed \cup {i}
  /\ before' = before \cup (listed \X {i})
  /\ UNCHANGED <<scored, due, filling, sound>>

Retire(i) ==
  /\ i \in listed \cap scored
  /\ listed' = listed \ {i}
  /\ before' = before \cap (listed' \X listed')
  /\ UNCHANGED <<scored, due, filling, sound>>

Score(i) ==
  /\ scored' = scored \cup {i}
  /\ UNCHANGED <<listed, before, due, filling, sound>>

Request ==
  /\ due' = TRUE
  /\ UNCHANGED <<listed, before, scored, filling, sound>>

ThrowAway ==
  /\ due /\ ~filling
  /\ listed' = {} /\ before' = {} /\ filling' = TRUE
  /\ UNCHANGED <<scored, due, sound>>

Complete ==
  /\ filling
  /\ due' = FALSE /\ filling' = FALSE
  /\ UNCHANGED <<listed, before, scored, sound>>

GiveUp ==
  /\ filling
  /\ filling' = FALSE
  /\ UNCHANGED <<listed, before, scored, due, sound>>

Next ==
  \/ \E i \in Items : Arrive(i) \/ Retire(i) \/ Score(i)
  \/ Request \/ ThrowAway \/ Complete \/ GiveUp
  \/ ~sound'

Spec == Init /\ [][Next]_listVars
=============================================================================
