---------------------------- MODULE TapeSpaced ----------------------------
(***************************************************************************)
(* Behaviours of the service without the races that two of the findings    *)
(* are about, in which what its documentation promises does hold.          *)
(***************************************************************************)
EXTENDS TapeService

\* Every score is inserted while every listener thread listens.
ScoresHeard == scores' # scores => \A w \in Workers : thread[w] = "listening"

\* No score is inserted between a run's query and its last ZADD.
ScoresSpaced == (\E w \in Workers : pc[w] = "append") => UNCHANGED scores

\* No step of PUT /config falls between a rebuild's get_config and its
\* clear_dirty.
EditsSpaced ==
  (\E w \in Workers :
     run[w].full /\ pc[w] \notin {"listed", "finish", "failed", "release", "released"})
    => UNCHANGED put

EditedSpec == Init /\ [][Next /\ EditsSpaced]_vars
HeardSpec == Init /\ [][Next /\ ScoresHeard]_vars
SpacedSpec == Init /\ [][Next /\ ScoresHeard /\ ScoresSpaced /\ EditsSpaced]_vars

=============================================================================
