---------------------------- MODULE TapeService ----------------------------
(***************************************************************************)
(* The whole service for one user: worker processes, each a generator and  *)
(* a listener, the writing requests of the api, Redis and the platform     *)
(* database.                                                               *)
(***************************************************************************)
EXTENDS TapeGenerator, TapeApi

CONSTANTS
  Faults,     \* the kinds of fault that may happen
  MaxFaults   \* bound: how many may happen in one behaviour

FaultKinds == {"crash", "stop", "turn", "run", "lock", "overrun", "listener",
               "api", "redis"}
ASSUME FaultsAssumption == Faults \subseteq FaultKinds /\ MaxFaults \in Nat

VARIABLES
  faults,    \* how many faults have happened
  stopping,  \* the workers that were told to stop and still run
  intact     \* no lock has expired under its run, and Redis has kept its data

\* intact is a history variable, which no action reads.
faultVars == <<faults, stopping, intact>>
vars == <<stateVars, generatorVars, listenerVars, apiVars, faultVars>>

Init ==
  /\ cfg = NoConfig /\ dirty = FALSE /\ sources = {}
  /\ entries = NoEntries /\ lock = Free
  /\ docs = {} /\ scores = {}
  /\ GeneratorInit /\ ListenerInit /\ ApiInit
  /\ faults = 0 /\ stopping = {} /\ intact = TRUE

Fault(kind) ==
  kind \in Faults /\ faults < MaxFaults /\ faults' = faults + 1

-----------------------------------------------------------------------------
\* The scheduler starts no turn once the worker was told to stop.
WorkerStep(w) ==
  /\ pc[w] = "idle" => w \notin stopping
  /\ GeneratorStep(w)
  /\ UNCHANGED <<listenerVars, apiVars, faultVars>>

\* What is left of a worker that was told to stop.
StopStep(w) ==
  /\ w \in stopping
  /\ \/ PoolClosed(w) /\ UNCHANGED stopping
     \/ GeneratorExit(w) /\ stopping' = stopping \ {w}
  /\ UNCHANGED <<listenerVars, apiVars, faults, intact>>

ThreadStep(w) ==
  ListenerStep(w) /\ UNCHANGED <<generatorVars, apiVars, faultVars>>

TtlElapses ==
  LockExpires /\ UNCHANGED <<listenerVars, apiVars, faultVars>>

FinishPut(e) == PutSources(e) /\ UNCHANGED <<generatorVars, faultVars>>
FinishPost(s) == RemoveScored(s) /\ UNCHANGED <<generatorVars, faultVars>>

\* A process that died is started again, its listener thread with it.
Restart(w) ==
  /\ GeneratorRestart(w)
  /\ thread' = [thread EXCEPT ![w] = "starting"]
  /\ UNCHANGED <<inbox, apiVars, faultVars>>

Environment ==
  /\ UNCHANGED <<generatorVars, faultVars>>
  /\ \/ \E e \in Editors, c \in Configs, S \in SUBSET Sources : PutConfig(e, c, S)
     \/ \E s \in Scorers, d \in Docs, r \in Roles : InsertScore(s, d, r)
     \/ \E d \in Docs : PublishDocument(d) \/ FilterScored(d)
     \/ \E d \in Docs, r \in Roles : ScoreElsewhere(d, r)

Crash(w) ==
  /\ Fault("crash")
  /\ GeneratorCrash(w)
  /\ EndThread(w)
  /\ stopping' = stopping \ {w}
  /\ UNCHANGED <<apiVars, intact>>

\* SIGTERM: the scheduler is shut down without waiting for the turn under
\* way, and the listener is stopped.
Shutdown(w) ==
  /\ Fault("stop")
  /\ pc[w] # "down" /\ w \notin stopping
  /\ stopping' = stopping \cup {w}
  /\ EndThread(w)
  /\ UNCHANGED <<stateVars, generatorVars, apiVars, intact>>

\* close_redis of a worker that was told to stop cuts the connections that its
\* turn is using: the call under way raises.
Cut(w) == w \in stopping /\ UNCHANGED faults

CallFails(w) ==
  /\ \/ /\ \/ (Fault("turn") \/ Cut(w)) /\ TurnFails(w)
           \/ (Fault("run") \/ Cut(w)) /\ (StartFails(w) \/ RunFails(w))
           \/ (Fault("lock") \/ Cut(w)) /\ (AcquireFails(w) \/ ReleaseFails(w))
        /\ UNCHANGED listenerVars
     \/ /\ Fault("listener")
        /\ HandleFails(w) \/ (pc[w] # "down" /\ ConnectionLost(w))
        /\ UNCHANGED generatorVars
  /\ UNCHANGED <<apiVars, stopping, intact>>

RequestFails ==
  /\ Fault("api")
  /\ UNCHANGED <<generatorVars, stopping, intact>>
  /\ (\E e \in Editors : PutAborted(e)) \/ (\E s \in Scorers : PostAborted(s))

\* A run outlives the TTL of its lock.
Overrun ==
  /\ Fault("overrun")
  /\ LeaseExpires
  /\ intact' = FALSE
  /\ UNCHANGED <<listenerVars, apiVars, stopping>>

\* Redis comes back without its data.
RedisLoss ==
  /\ Fault("redis")
  /\ cfg' = NoConfig /\ dirty' = FALSE /\ sources' = {}
  /\ entries' = NoEntries /\ lock' = Free
  /\ intact' = FALSE
  /\ UNCHANGED <<platformVars, generatorVars, listenerVars, apiVars, stopping>>

Next ==
  \/ \E w \in Workers :
       \/ WorkerStep(w) \/ StopStep(w) \/ ThreadStep(w)
       \/ Restart(w) \/ Crash(w) \/ Shutdown(w) \/ CallFails(w)
  \/ \E e \in Editors : FinishPut(e)
  \/ \E s \in Scorers : FinishPost(s)
  \/ TtlElapses \/ Environment \/ RequestFails \/ Overrun \/ RedisLoss

(***************************************************************************)
(* The scheduler fires again and again and a started turn goes on; a       *)
(* listener thread handles what it receives; Docker restarts a dead        *)
(* worker; Redis expires the lock key; a request that was accepted         *)
(* returns.  Nobody has to send a request or publish a document.           *)
(***************************************************************************)
Fairness ==
  /\ \A w \in Workers :
       /\ WF_vars(WorkerStep(w)) /\ WF_vars(StopStep(w))
       /\ WF_vars(ThreadStep(w)) /\ WF_vars(Restart(w))
  /\ \A e \in Editors : WF_vars(FinishPut(e))
  /\ \A s \in Scorers : WF_vars(FinishPost(s))
  /\ WF_vars(TtlElapses)

Spec == Init /\ [][Next]_vars
FairSpec == Spec /\ Fairness

-----------------------------------------------------------------------------
(***************************************************************************)
(* What must hold.                                                         *)
(***************************************************************************)

\* Every variable has its type.
TypeOK ==
  /\ cfg \in Configs \cup {NoConfig} /\ dirty \in BOOLEAN
  /\ sources \in SUBSET Sources
  /\ entries \in [Docs -> Nat \cup {Absent}]
  /\ lock \in Workers \cup {Free, Orphan}
  /\ docs \in SUBSET Docs /\ scores \in SUBSET (Docs \X Roles)
  /\ pc \in [Workers -> Unlocked \cup Locked] /\ run \in [Workers -> Runs]
  /\ thread \in [Workers -> {"starting", "listening", "ended"}]
  /\ inbox \in [Workers -> SUBSET (Docs \X Roles)]
  /\ put \in [Editors -> (SUBSET Sources) \cup {NoRequest}]
  /\ post \in [Scorers -> Docs \cup {NoRequest}]
  /\ faults \in Nat /\ stopping \in SUBSET Workers /\ intact \in BOOLEAN

\* As long as no lock expires under its run and Redis keeps its data, the runs
\* exclude one another: two workers are never both between the SET NX that
\* gave them the lock and the script that gives it back.
MutualExclusion ==
  intact => \A v, w \in Workers : pc[v] \in Locked /\ pc[w] \in Locked => v = w

\* A position, which the api hands out as the key of a list item and as the
\* cursor to the next page, belongs to one document, as long as leases hold.
PositionsUnique == intact => \A d, e \in OnTape : entries[d] = entries[e] => d = e

\* From the moment a rebuild has emptied the tape until it ends, the tape
\* holds only documents the configuration it read asks for, as long as leases
\* hold: append_entries adds nothing to what an earlier configuration left.
Rebuilding(w) == run[w].full /\ pc[w] \in {"query", "append", "clear", "finish"}
RebuildIsClean ==
  intact => \A w \in Workers :
    Rebuilding(w) => OnTape \subseteq Selected(run[w].cfg, run[w].sources)

\* While it is rebuilt, and leases hold, the tape is in the order the
\* configuration asks for.
InOrder(d, e, ordering) ==
  IF ordering = "asc" THEN Published[d] <= Published[e]
                      ELSE Published[d] >= Published[e]
RebuildIsOrdered ==
  intact => \A w \in Workers : Rebuilding(w) =>
    \A d, e \in OnTape :
      entries[d] < entries[e] => InOrder(d, e, run[w].cfg.ordering)

\* With one worker, and as long as Redis keeps its data: a rebuild that has
\* emptied the tape leaves the dirty flag set until everything is appended, so
\* that a crash or an error on the way is repaired by another rebuild.
RebuildStaysMarked ==
  intact => \A w \in Workers :
    run[w].full /\ pc[w] \in {"query", "append", "clear"} => dirty

\* A document enters the tape behind all that are on it: append_entries counts
\* on from the highest position, and what changes the tape between the two
\* only takes documents off it.
AppendsAtEnd ==
  [][intact' => \A d, e \in Docs :
       entries[d] = Absent /\ entries'[d] # Absent /\ e \in OnTape
         => entries[e] < entries'[d]]_vars

\* A document keeps its position as long as it is on the tape, also when a
\* run that did not read it back tries to add it again.
PositionsStable ==
  [][\A d \in OnTape : entries'[d] \in {entries[d], Absent}]_vars

\* Nobody but its holder gives a lock back: when a worker loses the lock it
\* has, then by its own step or by the TTL, not by a step of another worker
\* whose own lock expired long ago.
ReleasesOnlyOwn ==
  [][\A v \in Workers : lock = v /\ lock' # v =>
       \A w \in Workers \ {v} : pc'[w] = pc[w]]_vars

-----------------------------------------------------------------------------
(***************************************************************************)
(* With one worker the service implements the list of TapeList: positions  *)
(* give the order, the dirty flag is the request, and a run fills the list *)
(* from its wipe to the moment it clears the flag.                         *)
(***************************************************************************)
Filling(w) ==
  \/ run[w].full /\ pc[w] \in {"query", "append", "clear"}
  \/ pc[w] = "unmark"

Order == {p \in OnTape \X OnTape : entries[p[1]] < entries[p[2]]}
BeingFilled == \E w \in Workers : Filling(w)

List == INSTANCE TapeList WITH
  Items <- Docs,
  listed <- OnTape,
  before <- Order,
  scored <- Scored,
  due <- dirty,
  filling <- BeingFilled,
  sound <- intact

\* The tape is the list its user is promised: documents join it at the end
\* and leave it only when they have been scored; it is emptied only while it
\* is marked, and the mark is cleared only by a rebuild that was completed.
ListKept == List!Spec

-----------------------------------------------------------------------------
\* The documents the stored configuration asks for and the user has not scored.
Eligible == IF cfg = NoConfig THEN {} ELSE Selected(cfg, sources) \ Scored

\* A dirty flag is served: some run rebuilds the tape and clears it.
DirtyServed == []<>~dirty

\* A document that is published, selected and not scored gets on the tape,
\* whatever crashes and failed runs (finitely many) come between.
FreshDocumentsListed ==
  \A d \in Docs : []<>(entries[d] # Absent \/ d \notin Eligible)

\* The tape is never locked for good, so GET /tape is not refused for good.
UnlockedAgain == []<>(lock = Free)

-----------------------------------------------------------------------------
Quiet == \A w \in Workers : pc[w] \in {"down", "idle"}
NothingInFlight ==
  /\ \A e \in Editors : put[e] = NoRequest
  /\ \A s \in Scorers : post[s] = NoRequest
  /\ \A w \in Workers : inbox[w] = {}

\* What api/config.py promises of the dirty flag: the next tick picks the
\* change up.  When no run and no request is under way and the flag is clear,
\* the tape holds only documents the stored configuration asks for.
TapeMatchesConfig ==
  Quiet /\ NothingInFlight /\ ~dirty /\ cfg # NoConfig =>
    OnTape \subseteq Selected(cfg, sources)

\* What the listener's docstring promises: all expert scores clear the tape.
\* When no run, request or notification is under way and every thread has
\* been listening, no scored document is on the tape.
ScoresClearTape ==
  Quiet /\ NothingInFlight /\ (\A w \in Workers : thread[w] = "listening") =>
    OnTape \cap Scored = {}

\* What DEPLOY.md promises for a loss of Redis: the worker refills the tape.
\* A document that was once on the tape is again and again on it, unless it
\* has been scored or a stored configuration no longer asks for it.
RefilledAfterLoss ==
  \A d \in Docs :
    <>(entries[d] # Absent) =>
      []<>(\/ entries[d] # Absent \/ d \in Scored \/ dirty
           \/ cfg # NoConfig /\ d \notin Eligible)

=============================================================================
