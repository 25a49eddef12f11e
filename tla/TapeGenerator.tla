--------------------------- MODULE TapeGenerator ---------------------------
(***************************************************************************)
(* The worker processes' scheduler job: tick and generate_for_user for one *)
(* user, under the per-user lock.  One action per call to Redis or to the  *)
(* platform database, so that every other client of the two may act        *)
(* between any two of them.  A publish stores nothing; the steps whose     *)
(* only effect is to publish are kept for their place in the order.        *)
(*                                                                         *)
(* The other users a tick serves only delay this one's turn: the time      *)
(* between reading the dirty flags and serving this user is the time a     *)
(* worker spends in "listed".                                              *)
(***************************************************************************)
EXTENDS TapeState

CONSTANT ExistingLimit   \* how many entries an incremental run reads back (10_000)

ASSUME LimitAssumption == ExistingLimit \in Nat

VARIABLES
  pc,   \* pc[w]: where worker w is in tick
  run   \* run[w]: the local variables of its generate_for_user

generatorVars == <<pc, run>>

Unlocked == {"down", "idle", "listed", "read", "wipe", "unmark", "sourced",
             "released"}
Locked == {"locked", "measured", "query", "append", "clear", "finish",
           "failed", "release"}

Runs == [full : BOOLEAN, cfg : Configs \cup {NoConfig},
         sources : SUBSET Sources, existing : SUBSET Docs,
         pos : Nat, todo : Seq(Docs)]

BlankRun == [full |-> FALSE, cfg |-> NoConfig, sources |-> {},
             existing |-> {}, pos |-> 0, todo |-> <<>>]

Goto(w, label) == pc' = [pc EXCEPT ![w] = label]
EndTurn(w, label) == Goto(w, label) /\ run' = [run EXCEPT ![w] = BlankRun]

GeneratorInit ==
  /\ pc = [w \in Workers |-> "idle"]
  /\ run = [w \in Workers |-> BlankRun]

-----------------------------------------------------------------------------
\* Mutant of ListUsers: every turn is a full one.
ListUsersFull(w) ==
  /\ pc[w] = "idle"
  /\ cfg # NoConfig
  /\ run' = [run EXCEPT ![w].full = TRUE]
  /\ Goto(w, "listed")
  /\ UNCHANGED stateVars

\* list_users_with_config: the user is served if it has a configuration,
\* with the dirty flag as it is now.
ListUsers(w) ==
  /\ pc[w] = "idle"
  /\ cfg # NoConfig
  /\ run' = [run EXCEPT ![w].full = dirty]
  /\ Goto(w, "listed")
  /\ UNCHANGED stateVars

ReadConfig(w) ==
  /\ pc[w] = "listed"
  /\ IF cfg = NoConfig
     THEN EndTurn(w, "idle")
     ELSE run' = [run EXCEPT ![w].cfg = cfg] /\ Goto(w, "read")
  /\ UNCHANGED stateVars

ReadSources(w) ==
  /\ pc[w] = "read"
  /\ \/ sources # {} /\ run' = [run EXCEPT ![w].sources = sources]
                     /\ Goto(w, "sourced")
     \/ sources = {} /\ run[w].full /\ Goto(w, "wipe") /\ UNCHANGED run
     \/ sources = {} /\ ~run[w].full /\ EndTurn(w, "idle")
  /\ UNCHANGED stateVars

\* No source is selected: the tape is emptied and the flag cleared, with no lock.
WipeUnlocked(w) ==
  /\ pc[w] = "wipe"
  /\ DeleteAllEntries
  /\ Goto(w, "unmark")
  /\ UNCHANGED <<run, configVars, lock, platformVars>>

ClearUnlocked(w) ==
  /\ pc[w] = "unmark"
  /\ SetDirty(FALSE)
  /\ EndTurn(w, "idle")
  /\ UNCHANGED <<sources, entries, lock, platformVars>>

\* Mutant of AcquireLock: SET without NX.
AcquireLockAlways(w) ==
  /\ pc[w] = "sourced"
  /\ lock' = w
  /\ Goto(w, "locked")
  /\ UNCHANGED <<run, configVars, entries, platformVars>>

\* SET NX EX; a worker that finds the key taken skips the user.
AcquireLock(w) ==
  /\ pc[w] = "sourced"
  /\ \/ lock = Free /\ lock' = w /\ Goto(w, "locked") /\ UNCHANGED run
     \/ lock # Free /\ UNCHANGED lock /\ EndTurn(w, "idle")
  /\ UNCHANGED <<configVars, entries, platformVars>>

-----------------------------------------------------------------------------
\* Mutants of WipeTape: the old entries stay; the flag is cleared at once.
WipeTapeNot(w) ==
  /\ pc[w] = "locked"
  /\ run[w].full
  /\ run' = [run EXCEPT ![w].pos = 0, ![w].existing = {}]
  /\ Goto(w, "query")
  /\ UNCHANGED stateVars

WipeTapeAndFlag(w) ==
  /\ pc[w] = "locked"
  /\ run[w].full
  /\ DeleteAllEntries
  /\ SetDirty(FALSE)
  /\ run' = [run EXCEPT ![w].pos = 0, ![w].existing = {}]
  /\ Goto(w, "query")
  /\ UNCHANGED <<sources, lock, platformVars>>

\* A full run starts from an empty tape at position 0.
WipeTape(w) ==
  /\ pc[w] = "locked"
  /\ run[w].full
  /\ DeleteAllEntries
  /\ run' = [run EXCEPT ![w].pos = 0, ![w].existing = {}]
  /\ Goto(w, "query")
  /\ UNCHANGED <<configVars, lock, platformVars>>

\* Mutants of MeasureTape: the highest position itself, or -1; the number of
\* entries.
MeasureTapeLast(w) ==
  /\ pc[w] = "locked"
  /\ ~run[w].full
  /\ \/ OnTape = {} /\ run' = [run EXCEPT ![w].pos = -1]
     \/ \E d \in LastEntries : run' = [run EXCEPT ![w].pos = entries[d]]
  /\ Goto(w, "measured")
  /\ UNCHANGED stateVars

MeasureTapeCount(w) ==
  /\ pc[w] = "locked"
  /\ ~run[w].full
  /\ run' = [run EXCEPT ![w].pos = Cardinality(OnTape)]
  /\ Goto(w, "measured")
  /\ UNCHANGED stateVars

\* An incremental run continues after the highest position ...
MeasureTape(w) ==
  /\ pc[w] = "locked"
  /\ ~run[w].full
  /\ \/ OnTape = {} /\ run' = [run EXCEPT ![w].pos = 0]
     \/ \E d \in LastEntries : run' = [run EXCEPT ![w].pos = entries[d] + 1]
  /\ Goto(w, "measured")
  /\ UNCHANGED stateVars

\* ... and leaves out the documents it reads back, at most ExistingLimit.
ListExisting(w) ==
  /\ pc[w] = "measured"
  /\ run' = [run EXCEPT ![w].existing = FirstOf(OnTape, ExistingLimit)]
  /\ Goto(w, "query")
  /\ UNCHANGED stateVars

\* Mutants of Candidates: without NOT EXISTS; nothing for an incremental run.
CandidatesScored(w) ==
  Selected(run[w].cfg, run[w].sources) \ run[w].existing
CandidatesOnce(w) ==
  IF run[w].full THEN Selected(run[w].cfg, run[w].sources) \ Scored ELSE {}

\* candidates_for_user, with the configuration the run has read.
Candidates(w) ==
  Selected(run[w].cfg, run[w].sources) \ (Scored \cup run[w].existing)

\* Mutant of QueryCandidates: always the latest first.
QueryCandidatesDesc(w) ==
  /\ pc[w] = "query"
  /\ \E listing \in Listings(Candidates(w), "desc") :
       run' = [run EXCEPT ![w].todo = listing]
  /\ Goto(w, "append")
  /\ UNCHANGED stateVars

QueryCandidates(w) ==
  /\ pc[w] = "query"
  /\ \E listing \in Listings(Candidates(w), run[w].cfg.ordering) :
       run' = [run EXCEPT ![w].todo = listing]
  /\ Goto(w, "append")
  /\ UNCHANGED stateVars

\* One ZADD NX of the pipeline, which is not a transaction.
AppendEntry(w) ==
  /\ pc[w] = "append"
  /\ run[w].todo # <<>>
  /\ AddEntry(Head(run[w].todo), run[w].pos)
  /\ run' = [run EXCEPT ![w].pos = @ + 1, ![w].todo = Tail(@)]
  /\ UNCHANGED <<pc, configVars, lock, platformVars>>

\* The pipeline is done: tape.entry_added is published for what it added.
AnnounceEntries(w) ==
  /\ pc[w] = "append"
  /\ run[w].todo = <<>>
  /\ Goto(w, IF run[w].full THEN "clear" ELSE "finish")
  /\ UNCHANGED <<run, stateVars>>

\* Mutant of ClearDirty: the flag stays.
ClearDirtyNot(w) ==
  /\ pc[w] = "clear"
  /\ Goto(w, "finish")
  /\ UNCHANGED <<run, stateVars>>

ClearDirty(w) ==
  /\ pc[w] = "clear"
  /\ SetDirty(FALSE)
  /\ Goto(w, "finish")
  /\ UNCHANGED <<run, sources, entries, lock, platformVars>>

\* finish_run with status "ok" or "error" and the frames that go with it.
FinishRun(w) ==
  /\ pc[w] \in {"finish", "failed"}
  /\ Goto(w, "release")
  /\ UNCHANGED <<run, stateVars>>

\* Mutant of ReleaseLock: DEL, whoever holds the key.
ReleaseLockAny(w) ==
  /\ pc[w] = "release"
  /\ lock' = Free
  /\ Goto(w, "released")
  /\ UNCHANGED <<run, configVars, entries, platformVars>>

\* The script deletes the key only if it still holds this run's token.
ReleaseLock(w) ==
  /\ pc[w] = "release"
  /\ lock' = IF lock = w THEN Free ELSE lock
  /\ Goto(w, "released")
  /\ UNCHANGED <<run, configVars, entries, platformVars>>

\* lock.released is published only now, after the key is gone.
AnnounceRelease(w) ==
  /\ pc[w] = "released"
  /\ EndTurn(w, "idle")
  /\ UNCHANGED stateVars

GeneratorStep(w) ==
  \/ ListUsers(w) \/ ReadConfig(w) \/ ReadSources(w)
  \/ WipeUnlocked(w) \/ ClearUnlocked(w) \/ AcquireLock(w)
  \/ WipeTape(w) \/ MeasureTape(w) \/ ListExisting(w)
  \/ QueryCandidates(w) \/ AppendEntry(w) \/ AnnounceEntries(w)
  \/ ClearDirty(w) \/ FinishRun(w) \/ ReleaseLock(w) \/ AnnounceRelease(w)

-----------------------------------------------------------------------------
(***************************************************************************)
(* What can go wrong.  A failed call may or may not have had its effect:   *)
(* the action before it is the case in which it had.                       *)
(***************************************************************************)

\* A call before the lock is taken, or the last publish, raises: tick logs it
\* and moves on.
TurnFails(w) ==
  /\ pc[w] \in {"listed", "read", "wipe", "unmark", "sourced", "released"}
  /\ EndTurn(w, "idle")
  /\ UNCHANGED stateVars

\* The lock is set but the reply is lost: nobody knows the token.
AcquireFails(w) ==
  /\ pc[w] = "sourced"
  /\ lock = Free
  /\ lock' = Orphan
  /\ EndTurn(w, "idle")
  /\ UNCHANGED <<configVars, entries, platformVars>>

\* create_run, or a publish beside it, raises, or the except block of a run
\* does: the run ends at once.
StartFails(w) ==
  /\ pc[w] \in {"locked", "failed"}
  /\ Goto(w, "release")
  /\ UNCHANGED <<run, stateVars>>

\* A call to Redis or to the platform database raises inside the run.
RunFails(w) ==
  /\ pc[w] \in {"locked", "measured", "query", "append", "clear", "finish"}
  /\ Goto(w, "failed")
  /\ UNCHANGED <<run, stateVars>>

\* The release script cannot be run: the key stays until its TTL.
ReleaseFails(w) ==
  /\ pc[w] = "release"
  /\ lock' = IF lock = w THEN Orphan ELSE lock
  /\ Goto(w, "released")
  /\ UNCHANGED <<run, configVars, entries, platformVars>>

\* The process dies: its locals and its token are gone, Redis stays as it is.
GeneratorCrash(w) ==
  /\ pc[w] # "down"
  /\ lock' = IF lock = w THEN Orphan ELSE lock
  /\ EndTurn(w, "down")
  /\ UNCHANGED <<configVars, entries, platformVars>>

\* A worker that was told to stop has closed its connections to the platform
\* database under a turn that goes on: get_pool raises.
PoolClosed(w) ==
  /\ pc[w] = "query"
  /\ Goto(w, "failed")
  /\ UNCHANGED <<run, stateVars>>

\* No turn is under way any more: the process ends.
GeneratorExit(w) ==
  /\ pc[w] = "idle"
  /\ Goto(w, "down")
  /\ UNCHANGED <<run, stateVars>>

GeneratorRestart(w) ==
  /\ pc[w] = "down"
  /\ Goto(w, "idle")
  /\ UNCHANGED <<run, stateVars>>

\* Mutant of LockExpires: a key without EX.
LockExpiresNot ==
  /\ lock = Orphan /\ lock = Free
  /\ UNCHANGED <<generatorVars, stateVars>>

\* The TTL of a lock key elapses that no run will give back ...
LockExpires ==
  /\ lock = Orphan
  /\ lock' = Free
  /\ UNCHANGED <<generatorVars, configVars, entries, platformVars>>

\* ... or the TTL of a lock whose run goes on: nothing renews the key, and
\* nothing stops the run.
LeaseExpires ==
  /\ lock \in Workers
  /\ lock' = Free
  /\ UNCHANGED <<generatorVars, configVars, entries, platformVars>>

=============================================================================
