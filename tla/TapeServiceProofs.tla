------------------------- MODULE TapeServiceProofs -------------------------
(***************************************************************************)
(* Theorems about TapeService, for every set of documents, sources,        *)
(* workers and requests, and any number of faults.                         *)
(***************************************************************************)
EXTENDS TapeService, TLAPS, FiniteSetTheorems, SequenceTheorems

\* DefaultConfig is a configuration.
LEMMA DefaultTyped == DefaultConfig \in Configs
BY CatalogueAssumption, ConfigAssumption DEF DefaultConfig, Configs

\* What the database answers is a sequence of the documents asked for.
LEMMA ListingTyped ==
  ASSUME NEW C \in SUBSET Docs, NEW ordering, NEW s \in Listings(C, ordering)
  PROVE  s \in Seq(C)
<1>1. IsFiniteSet(C)
  BY DocsAssumption, FS_Subset
<1>2. Cardinality(C) \in Nat
  BY <1>1, FS_CardinalityType
<1>3. s \in [1..Cardinality(C) -> C]
  BY DEF Listings
<1> QED
  BY <1>2, <1>3, SeqDef

Tapes == [Docs -> Nat \cup {Absent}]

\* What ZADD does to the tape keeps its type.
LEMMA AddTyped ==
  ASSUME entries \in Tapes, NEW d \in Docs, NEW n \in Nat,
         AddEntry(d, n)
  PROVE  entries' \in Tapes
BY DEF AddEntry, Tapes

\* An assignment to one local variable of a run keeps the run's type.
LEMMA RunFields ==
  ASSUME NEW r \in Runs
  PROVE  /\ \A x \in BOOLEAN : [r EXCEPT !.full = x] \in Runs
         /\ \A x \in Configs \cup {NoConfig} : [r EXCEPT !.cfg = x] \in Runs
         /\ \A x \in SUBSET Sources : [r EXCEPT !.sources = x] \in Runs
         /\ \A x \in SUBSET Docs : [r EXCEPT !.existing = x] \in Runs
         /\ \A x \in Nat : [r EXCEPT !.pos = x] \in Runs
         /\ \A x \in Seq(Docs) : [r EXCEPT !.todo = x] \in Runs
BY DEF Runs

\* A worker that changes its label and the fields of its run stays well typed.
LEMMA GeneratorTyped ==
  ASSUME TypeOK, NEW w \in Workers, GeneratorStep(w)
  PROVE  pc' \in [Workers -> Unlocked \cup Locked] /\ run' \in [Workers -> Runs]
<1> USE DEF Goto, EndTurn, Unlocked, Locked
<1>a. /\ pc \in [Workers -> Unlocked \cup Locked] /\ run \in [Workers -> Runs]
      /\ cfg \in Configs \cup {NoConfig} /\ dirty \in BOOLEAN
      /\ sources \in SUBSET Sources
      /\ \A d \in Docs : entries[d] \in Nat \cup {Absent}
  BY DEF TypeOK
<1>0. BlankRun \in Runs
  BY DEF BlankRun, Runs
<1>1. CASE ListUsers(w)
  BY <1>a, <1>1, RunFields DEF ListUsers
<1>2. CASE ReadConfig(w)
  BY <1>a, <1>0, <1>2, RunFields DEF ReadConfig
<1>3. CASE ReadSources(w)
  BY <1>a, <1>0, <1>3, RunFields DEF ReadSources
<1>4. CASE WipeUnlocked(w)
  BY <1>a, <1>4 DEF WipeUnlocked
<1>5. CASE ClearUnlocked(w)
  BY <1>a, <1>0, <1>5 DEF ClearUnlocked
<1>6. CASE AcquireLock(w)
  BY <1>a, <1>0, <1>6 DEF AcquireLock
<1>7. CASE WipeTape(w)
  <2>1. run' = [run EXCEPT ![w] = [[run[w] EXCEPT !.pos = 0] EXCEPT !.existing = {}]]
    BY <1>a, <1>7 DEF WipeTape, Runs
  <2>2. [run[w] EXCEPT !.pos = 0] \in Runs
    BY <1>a, RunFields
  <2>3. [[run[w] EXCEPT !.pos = 0] EXCEPT !.existing = {}] \in Runs
    BY <2>2, RunFields
  <2> QED
    BY <1>a, <1>7, <2>1, <2>3 DEF WipeTape
<1>8. CASE MeasureTape(w)
  <2>1. \A d \in LastEntries : entries[d] + 1 \in Nat
    BY <1>a DEF LastEntries, OnTape
  <2>2. PICK n \in Nat : run' = [run EXCEPT ![w].pos = n]
    BY <1>8, <2>1 DEF MeasureTape
  <2> QED
    BY <1>a, <1>8, <2>2, RunFields DEF MeasureTape
<1>9. CASE ListExisting(w)
  <2>1. FirstOf(OnTape, ExistingLimit) \in SUBSET Docs
    BY DEF FirstOf, OnTape
  <2> QED
    BY <1>a, <1>9, <2>1, RunFields DEF ListExisting
<1>10. CASE QueryCandidates(w)
  <2>1. Candidates(w) \in SUBSET Docs
    BY DEF Candidates, Selected, TypeOK
  <2>2. PICK listing \in Listings(Candidates(w), run[w].cfg.ordering) :
          run' = [run EXCEPT ![w].todo = listing]
    BY <1>a, <1>10 DEF QueryCandidates
  <2>3. listing \in Seq(Docs)
    BY <2>1, ListingTyped, SeqDef
  <2> QED
    BY <1>a, <1>10, <2>2, <2>3, RunFields DEF QueryCandidates
<1>11. CASE AppendEntry(w)
  <2>1. run[w].todo \in Seq(Docs) /\ run[w].todo # <<>>
    BY <1>a, <1>11 DEF AppendEntry, Runs
  <2>2. Tail(run[w].todo) \in Seq(Docs)
    BY <2>1
  <2> QED
    BY <1>a, <1>11, <2>2 DEF AppendEntry, Runs
<1>12. CASE AnnounceEntries(w)
  BY <1>a, <1>12 DEF AnnounceEntries
<1>13. CASE ClearDirty(w)
  BY <1>a, <1>13 DEF ClearDirty
<1>14. CASE FinishRun(w)
  BY <1>a, <1>14 DEF FinishRun
<1>15. CASE ReleaseLock(w)
  BY <1>a, <1>15 DEF ReleaseLock
<1>16. CASE AnnounceRelease(w)
  BY <1>a, <1>0, <1>16 DEF AnnounceRelease
<1> QED
  BY <1>1, <1>2, <1>3, <1>4, <1>5, <1>6, <1>7, <1>8, <1>9, <1>10, <1>11,
     <1>12, <1>13, <1>14, <1>15, <1>16 DEF GeneratorStep

-----------------------------------------------------------------------------
\* The ways in which a worker fails, ends and begins.
Failure(w) == StopStep(w) \/ Restart(w) \/ Crash(w) \/ Shutdown(w) \/ CallFails(w)

(***************************************************************************)
(* What a step can do to the tape and to the lock.  The lemmas leave the   *)
(* other invariants a handful of cases where Next has thirty.              *)
(***************************************************************************)

\* The tape changes by a wipe, by the removal of one document or by the
\* ZADD of a run, and in no other way.
LEMMA StepOnTape ==
  ASSUME TypeOK, [Next]_vars
  PROVE  \/ UNCHANGED entries
         \/ DeleteAllEntries
         \/ \E d \in Docs : RemoveEntry(d)
         \/ \E w \in Workers : AppendEntry(w)
<1> USE DEF stateVars, tapeVars
<1>1. ASSUME NEW w \in Workers, WorkerStep(w) PROVE
        UNCHANGED entries \/ DeleteAllEntries \/ AppendEntry(w)
  BY <1>1 DEF WorkerStep, GeneratorStep, ListUsers, ReadConfig, ReadSources,
     WipeUnlocked, ClearUnlocked, AcquireLock, WipeTape, MeasureTape,
     ListExisting, QueryCandidates, AnnounceEntries, ClearDirty, FinishRun,
     ReleaseLock, AnnounceRelease
<1>2. ASSUME NEW w \in Workers, ThreadStep(w) PROVE
        UNCHANGED entries \/ \E d \in Docs : RemoveEntry(d)
  <2>1. \A row \in inbox[w] : row[1] \in Docs
    BY DEF TypeOK
  <2> QED
    BY <1>2, <2>1 DEF ThreadStep, ListenerStep, StartListening, HandleNotify
<1>3. ASSUME NEW w \in Workers, Failure(w)
      PROVE  UNCHANGED entries
  BY <1>3 DEF Failure, Restart, Crash, CallFails, StopStep,
     PoolClosed, GeneratorExit, Shutdown, EndThread, StartFails, GeneratorRestart, GeneratorCrash,
     TurnFails, RunFails, AcquireFails, ReleaseFails, HandleFails, ConnectionLost
<1>4. ASSUME NEW e \in Editors, FinishPut(e) PROVE UNCHANGED entries
  BY <1>4 DEF FinishPut, PutSources
<1>5. ASSUME NEW s \in Scorers, FinishPost(s) PROVE \E d \in Docs : RemoveEntry(d)
  BY <1>5 DEF FinishPost, RemoveScored, TypeOK
<1>6. CASE TtlElapses \/ RequestFails \/ Overrun
  BY <1>6 DEF TtlElapses, LockExpires, Overrun, LeaseExpires, RequestFails, PutAborted, PostAborted
<1>7. CASE Environment
  BY <1>7 DEF Environment, PutConfig, InsertScore, PublishDocument,
     FilterScored, ScoreElsewhere
<1>8. CASE RedisLoss
  BY <1>8 DEF RedisLoss, DeleteAllEntries
<1>9. CASE UNCHANGED vars
  BY <1>9 DEF vars
<1> QED
  BY <1>1, <1>2, <1>3, <1>4, <1>5, <1>6, <1>7, <1>8, <1>9 DEF Next, Failure

-----------------------------------------------------------------------------
(***************************************************************************)
(* Type correctness.                                                       *)
(***************************************************************************)
GeneratorTypes ==
  pc' \in [Workers -> Unlocked \cup Locked] /\ run' \in [Workers -> Runs]
ConfigTypes ==
  cfg' \in Configs \cup {NoConfig} /\ dirty' \in BOOLEAN /\ sources' \in SUBSET Sources
ListenerTypes ==
  /\ thread' \in [Workers -> {"starting", "listening", "ended"}]
  /\ inbox' \in [Workers -> SUBSET (Docs \X Roles)]
RequestTypes ==
  /\ put' \in [Editors -> (SUBSET Sources) \cup {NoRequest}]
  /\ post' \in [Scorers -> Docs \cup {NoRequest}]
OtherTypes ==
  /\ lock' \in Workers \cup {Free, Orphan}
  /\ docs' \in SUBSET Docs /\ scores' \in SUBSET (Docs \X Roles)
  /\ faults' \in Nat /\ stopping' \in SUBSET Workers /\ intact' \in BOOLEAN

LEMMA WorkerTyped ==
  ASSUME TypeOK, NEW w \in Workers, WorkerStep(w)
  PROVE  GeneratorTypes /\ ConfigTypes /\ ListenerTypes /\ RequestTypes /\ OtherTypes
<1>1. GeneratorTypes
  BY GeneratorTyped DEF WorkerStep, GeneratorTypes
<1>2. ConfigTypes
  BY DefaultTyped DEF ConfigTypes, WorkerStep, GeneratorStep, ListUsers, ReadConfig,
     ReadSources, WipeUnlocked, ClearUnlocked, AcquireLock, WipeTape, MeasureTape,
     ListExisting, QueryCandidates, AppendEntry, AnnounceEntries, ClearDirty,
     FinishRun, ReleaseLock, AnnounceRelease, stateVars, tapeVars, configVars,
     SetDirty, TypeOK
<1>3. ListenerTypes /\ RequestTypes
  BY DEF WorkerStep, listenerVars, apiVars, TypeOK, ListenerTypes, RequestTypes
<1>4. OtherTypes
  BY DEF OtherTypes, WorkerStep, GeneratorStep, ListUsers, ReadConfig, ReadSources,
     WipeUnlocked, ClearUnlocked, AcquireLock, WipeTape, MeasureTape, ListExisting,
     QueryCandidates, AppendEntry, AnnounceEntries, ClearDirty, FinishRun,
     ReleaseLock, AnnounceRelease, stateVars, tapeVars, platformVars, faultVars, TypeOK
<1> QED
  BY <1>1, <1>2, <1>3, <1>4

LEMMA ThreadTyped ==
  ASSUME TypeOK, NEW w \in Workers, ThreadStep(w)
  PROVE  GeneratorTypes /\ ConfigTypes /\ ListenerTypes /\ RequestTypes /\ OtherTypes
BY DEF TypeOK, ThreadStep, ListenerStep, StartListening, HandleNotify, stateVars,
   tapeVars, configVars, platformVars, generatorVars, apiVars, faultVars, GeneratorTypes,
   ConfigTypes, ListenerTypes, RequestTypes, OtherTypes

\* The failures of a worker: of its process, its calls and its thread.
LEMMA FailureTyped ==
  ASSUME TypeOK, NEW w \in Workers, Failure(w)
  PROVE  GeneratorTypes /\ ConfigTypes /\ ListenerTypes /\ RequestTypes /\ OtherTypes
<1> USE DEF TypeOK, stateVars, tapeVars, configVars, platformVars, apiVars, listenerVars,
        generatorVars, faultVars
<1>1. BlankRun \in Runs
  BY DEF BlankRun, Runs
<1>2. GeneratorTypes
  BY <1>1 DEF GeneratorTypes, Failure, Restart, Crash, CallFails, StopStep,
     PoolClosed, GeneratorExit, Shutdown, EndThread, StartFails, GeneratorRestart, GeneratorCrash,
     TurnFails, RunFails, AcquireFails, ReleaseFails, HandleFails, ConnectionLost,
     Goto, EndTurn, Unlocked, Locked
<1>3. ConfigTypes /\ RequestTypes
  BY DEF ConfigTypes, RequestTypes, Failure, Restart, Crash, CallFails, StopStep,
     PoolClosed, GeneratorExit, Shutdown, EndThread, StartFails, GeneratorRestart,
     GeneratorCrash, TurnFails, RunFails, AcquireFails, ReleaseFails, HandleFails,
     ConnectionLost
<1>4. ListenerTypes
  BY DEF ListenerTypes, Failure, Restart, Crash, CallFails, StopStep,
     PoolClosed, GeneratorExit, Shutdown, EndThread, StartFails, HandleFails, ConnectionLost
<1>5. OtherTypes
  BY DEF OtherTypes, Failure, Restart, Crash, CallFails, Cut, StopStep,
     PoolClosed, GeneratorExit, Shutdown, EndThread, StartFails, GeneratorRestart, GeneratorCrash,
     TurnFails, RunFails, AcquireFails, ReleaseFails, HandleFails, ConnectionLost, Fault
<1> QED
  BY <1>2, <1>3, <1>4, <1>5

\* The requests, the platform, the TTL and the loss of Redis.
LEMMA OthersTyped ==
  ASSUME TypeOK,
         \/ \E e \in Editors : FinishPut(e)
         \/ \E s \in Scorers : FinishPost(s)
         \/ TtlElapses \/ Environment \/ RequestFails \/ Overrun \/ RedisLoss
  PROVE  GeneratorTypes /\ ConfigTypes /\ ListenerTypes /\ RequestTypes /\ OtherTypes
<1> USE DEF TypeOK, stateVars, tapeVars, configVars, platformVars, apiVars, listenerVars,
        generatorVars, faultVars, GeneratorTypes, ConfigTypes, ListenerTypes, RequestTypes, OtherTypes
<1>1. ASSUME NEW e \in Editors, FinishPut(e) PROVE
        GeneratorTypes /\ ConfigTypes /\ ListenerTypes /\ RequestTypes /\ OtherTypes
  BY <1>1, DefaultTyped DEF FinishPut, PutSources, SetConfigSources, SetDirty
<1>2. ASSUME NEW s \in Scorers, FinishPost(s) PROVE
        GeneratorTypes /\ ConfigTypes /\ ListenerTypes /\ RequestTypes /\ OtherTypes
  BY <1>2 DEF FinishPost, RemoveScored
<1>3. CASE TtlElapses \/ Overrun
  <2>1. OtherTypes
    <3>1. intact' \in BOOLEAN
      BY <1>3 DEF TtlElapses, Overrun
    <3> QED
      BY <1>3, <3>1 DEF TtlElapses, LockExpires, Overrun, LeaseExpires, Fault
  <2> QED
    BY <1>3, <2>1 DEF TtlElapses, LockExpires, Overrun, LeaseExpires
<1>4. CASE RequestFails
  BY <1>4 DEF RequestFails, PutAborted, PostAborted, Fault
<1>5. CASE RedisLoss
  <2>1. ConfigTypes
    BY <1>5 DEF RedisLoss
  <2>2. GeneratorTypes /\ ListenerTypes /\ RequestTypes
    BY <1>5 DEF RedisLoss
  <2>3. OtherTypes
    <3>1. intact' \in BOOLEAN
      BY <1>5 DEF RedisLoss
    <3> QED
      BY <1>5, <3>1 DEF RedisLoss, Fault
  <2> QED
    BY <2>1, <2>2, <2>3
<1>6. CASE Environment
  <2>1. CASE \E e \in Editors, c \in Configs, S \in SUBSET Sources : PutConfig(e, c, S)
    BY <1>6, <2>1 DEF Environment, PutConfig, UpsertConfig
  <2>2. CASE \E s \in Scorers, d \in Docs, r \in Roles : InsertScore(s, d, r)
    BY <1>6, <2>2 DEF Environment, InsertScore, SaveScore, Notify
  <2>3. CASE \E d \in Docs : PublishDocument(d) \/ FilterScored(d)
    BY <1>6, <2>3 DEF Environment, PublishDocument, FilterScored
  <2>4. CASE \E d \in Docs, r \in Roles : ScoreElsewhere(d, r)
    BY <1>6, <2>4 DEF Environment, ScoreElsewhere, SaveScore, Notify
  <2> QED
    BY <1>6, <2>1, <2>2, <2>3, <2>4 DEF Environment
<1> QED
  BY <1>1, <1>2, <1>3, <1>4, <1>5, <1>6

\* Every step keeps the types.
LEMMA StepTyped == TypeOK /\ [Next]_vars => TypeOK'
<1> SUFFICES ASSUME TypeOK, [Next]_vars PROVE TypeOK'
  OBVIOUS
<1>1. entries' \in Tapes
  <2>1. entries \in Tapes
    BY DEF TypeOK, Tapes
  <2>2. ASSUME NEW w \in Workers, AppendEntry(w) PROVE entries' \in Tapes
    <3>1. /\ run[w].todo \in Seq(Docs) /\ run[w].todo # <<>>
          /\ run[w].pos \in Nat
          /\ AddEntry(Head(run[w].todo), run[w].pos)
      BY <2>2 DEF TypeOK, Runs, AppendEntry
    <3>2. Head(run[w].todo) \in Docs
      BY <3>1
    <3> QED
      BY <2>1, <3>1, <3>2, AddTyped
  <2>3. ASSUME NEW d \in Docs, RemoveEntry(d) PROVE entries' \in Tapes
    BY <2>1, <2>3 DEF RemoveEntry, Tapes
  <2>4. DeleteAllEntries => entries' \in Tapes
    BY DEF DeleteAllEntries, NoEntries, Tapes
  <2> QED
    BY <2>1, <2>2, <2>3, <2>4, StepOnTape
<1>2. CASE UNCHANGED vars
  BY <1>2 DEF vars, stateVars, tapeVars, configVars, platformVars, generatorVars,
     listenerVars, apiVars, faultVars, TypeOK
<1>3. CASE Next
  <2>1. GeneratorTypes /\ ConfigTypes /\ ListenerTypes /\ RequestTypes /\ OtherTypes
    BY <1>3, WorkerTyped, ThreadTyped, FailureTyped, OthersTyped DEF Next, Failure
  <2> QED
    BY <1>1, <2>1 DEF TypeOK, Tapes, GeneratorTypes, ConfigTypes, ListenerTypes,
       RequestTypes, OtherTypes
<1> QED
  BY <1>2, <1>3

LEMMA InitTyped == Init => TypeOK
<1>1. BlankRun \in Runs
  BY DEF BlankRun, Runs
<1>2. NoEntries \in [Docs -> Nat \cup {Absent}]
  BY DEF NoEntries
<1> SUFFICES ASSUME Init PROVE TypeOK
  OBVIOUS
<1>3. pc \in [Workers -> Unlocked \cup Locked] /\ run \in [Workers -> Runs]
  BY <1>1 DEF Init, GeneratorInit, Unlocked
<1>4. /\ thread \in [Workers -> {"starting", "listening", "ended"}]
      /\ inbox \in [Workers -> SUBSET (Docs \X Roles)]
  BY DEF Init, ListenerInit
<1>5. /\ put \in [Editors -> (SUBSET Sources) \cup {NoRequest}]
      /\ post \in [Scorers -> Docs \cup {NoRequest}]
  BY DEF Init, ApiInit
<1>6. /\ cfg = NoConfig /\ dirty = FALSE /\ sources = {} /\ lock = Free
      /\ entries = NoEntries /\ docs = {} /\ scores = {}
      /\ faults = 0 /\ stopping = {} /\ intact = TRUE
  BY DEF Init
<1> QED
  BY <1>2, <1>3, <1>4, <1>5, <1>6 DEF TypeOK

\* Every variable has its type in every state the service reaches.
THEOREM TypeCorrect == Spec => []TypeOK
BY InitTyped, StepTyped, PTL DEF Spec

-----------------------------------------------------------------------------
(***************************************************************************)
(* What the lock gives.  A run keeps the lock until it releases it only if *)
(* it ends before the TTL and Redis keeps its data: while intact is TRUE.  *)
(***************************************************************************)

\* Only an overrun or the loss of Redis breaks a lease.
LEMMA StepOnLease ==
  ASSUME [Next]_vars
  PROVE  UNCHANGED intact \/ Overrun \/ RedisLoss
<1> USE DEF faultVars
<1>1. ASSUME NEW w \in Workers, WorkerStep(w) \/ ThreadStep(w) \/ Failure(w)
      PROVE  UNCHANGED intact
  BY <1>1 DEF WorkerStep, ThreadStep, Failure, StopStep, Restart, Crash, Shutdown,
     CallFails
<1>2. (\E e \in Editors : FinishPut(e)) \/ (\E s \in Scorers : FinishPost(s))
        => UNCHANGED intact
  BY DEF FinishPut, FinishPost
<1>3. TtlElapses \/ Environment \/ RequestFails => UNCHANGED intact
  BY DEF TtlElapses, Environment, RequestFails
<1>4. UNCHANGED vars => UNCHANGED intact
  BY DEF vars
<1> QED
  BY <1>1, <1>2, <1>3, <1>4 DEF Next, Failure

\* Once broken, a lease stays broken.
LEMMA Lease ==
  ASSUME [Next]_vars, intact'
  PROVE  intact /\ ~Overrun /\ ~RedisLoss
<1>1. ~Overrun /\ ~RedisLoss
  BY DEF Overrun, RedisLoss
<1> QED
  BY <1>1, StepOnLease

\* A worker between SET NX and the release holds the key: MutualExclusion is
\* not inductive, since it does not say that others find the key taken.
LockHeld == \A w \in Workers : pc[w] \in Locked => lock = w

\* The step of a worker, whether its calls succeed or fail, leaves the other
\* workers where they are.
LEMMA StepOnRun ==
  ASSUME TypeOK, [Next]_vars, NEW v \in Workers
  PROVE  \/ pc'[v] = pc[v] /\ run'[v] = run[v]
         \/ GeneratorStep(v)
         \/ pc'[v] \in {"idle", "down", "failed", "release", "released"}
<1> USE DEF generatorVars, TypeOK
<1>1. ASSUME NEW w \in Workers, WorkerStep(w), v # w
      PROVE  pc'[v] = pc[v] /\ run'[v] = run[v]
  BY <1>1 DEF WorkerStep, GeneratorStep, Goto, EndTurn, ListUsers, ReadConfig,
     ReadSources, WipeUnlocked, ClearUnlocked, AcquireLock, WipeTape, MeasureTape,
     ListExisting, QueryCandidates, AppendEntry, AnnounceEntries, ClearDirty,
     FinishRun, ReleaseLock, AnnounceRelease
<1>2. ASSUME NEW w \in Workers, ThreadStep(w)
      PROVE  pc'[v] = pc[v] /\ run'[v] = run[v]
  BY <1>2 DEF ThreadStep
<1>3. ASSUME NEW w \in Workers, Failure(w)
      PROVE  \/ pc'[v] = pc[v] /\ run'[v] = run[v]
             \/ pc'[v] \in {"idle", "down", "failed", "release", "released"}
  BY <1>3 DEF Failure, Restart, Crash, CallFails, StopStep,
     PoolClosed, GeneratorExit, Shutdown, EndThread, StartFails, GeneratorRestart, GeneratorCrash,
     TurnFails, RunFails, AcquireFails, ReleaseFails, Goto, EndTurn
<1>4. CASE (\E e \in Editors : FinishPut(e)) \/ (\E s \in Scorers : FinishPost(s))
  BY <1>4 DEF FinishPut, FinishPost
<1>5. CASE TtlElapses \/ Environment \/ RequestFails \/ Overrun \/ RedisLoss
  BY <1>5 DEF TtlElapses, LockExpires, Overrun, LeaseExpires, Environment, RequestFails, RedisLoss
<1>6. CASE UNCHANGED vars
  BY <1>6 DEF vars
<1> QED
  BY <1>1, <1>2, <1>3, <1>4, <1>5, <1>6 DEF Next, Failure, WorkerStep

LEMMA LockHeldInvariant ==
  ASSUME intact', TypeOK, LockHeld, [Next]_vars
  PROVE  LockHeld'
<1> USE DEF LockHeld, TypeOK
<1>0. ASSUME NEW v \in Workers, NEW w \in Workers, pc[v] \in Locked, lock = Free \/ lock = Orphan \/ lock = w
      PROVE  v = w
  BY <1>0, WorkersAssumption
<1>1. ASSUME NEW w \in Workers, WorkerStep(w) PROVE LockHeld'
  <2> USE DEF Goto, EndTurn, stateVars, tapeVars
  <2>1. CASE AcquireLock(w)
    BY <1>0, <2>1 DEF AcquireLock, Locked
  <2>2. CASE ReleaseLock(w)
    BY <1>0, <2>2 DEF ReleaseLock, Locked
  <2>3. CASE \/ ListUsers(w) \/ ReadConfig(w) \/ ReadSources(w)
             \/ WipeUnlocked(w) \/ ClearUnlocked(w) \/ AnnounceRelease(w)
    BY <2>3 DEF ListUsers, ReadConfig, ReadSources, WipeUnlocked, ClearUnlocked,
       AnnounceRelease, Locked
  <2>4. CASE \/ WipeTape(w) \/ MeasureTape(w) \/ ListExisting(w)
             \/ QueryCandidates(w) \/ AppendEntry(w) \/ AnnounceEntries(w)
             \/ ClearDirty(w) \/ FinishRun(w)
    <3>1. /\ pc[w] \in Locked /\ lock' = lock
          /\ \A v \in Workers \ {w} : pc'[v] = pc[v]
      BY <2>4 DEF WipeTape, MeasureTape, ListExisting, QueryCandidates, AppendEntry,
         AnnounceEntries, ClearDirty, FinishRun, Locked
    <3> QED
      BY <3>1
  <2> QED
    BY <1>1, <2>1, <2>2, <2>3, <2>4 DEF WorkerStep, GeneratorStep
<1>2. ASSUME NEW w \in Workers, ThreadStep(w) PROVE LockHeld'
  BY <1>2 DEF ThreadStep, ListenerStep, StartListening, HandleNotify, generatorVars,
     stateVars, tapeVars
<1>3. ASSUME NEW w \in Workers, Failure(w) PROVE LockHeld'
  <2>1. \A v \in Workers \ {w} : pc'[v] = pc[v]
    BY <1>3 DEF Failure, Restart, Crash, CallFails, StopStep, PoolClosed, GeneratorExit,
       Shutdown, StartFails, GeneratorRestart, GeneratorCrash, TurnFails, RunFails,
       AcquireFails, ReleaseFails, HandleFails, ConnectionLost, Goto, EndTurn,
       generatorVars
  <2>2. \/ pc'[w] \notin Locked /\ lock' \in {lock, Orphan}
           /\ (lock' # lock => lock \in {w, Free})
        \/ lock' = lock /\ (pc'[w] \in Locked => pc[w] \in Locked)
    BY <1>3 DEF Failure, Restart, Crash, CallFails, StopStep, PoolClosed, GeneratorExit,
       Shutdown, StartFails, GeneratorRestart, GeneratorCrash, TurnFails, RunFails,
       AcquireFails, ReleaseFails, HandleFails, ConnectionLost, Goto, EndTurn,
       generatorVars, stateVars, tapeVars, Locked
  <2> QED
    BY <1>0, <2>1, <2>2, WorkersAssumption
<1>4. CASE (\E e \in Editors : FinishPut(e)) \/ (\E s \in Scorers : FinishPost(s))
  BY <1>4 DEF FinishPut, FinishPost, PutSources, RemoveScored, generatorVars
<1>5. CASE TtlElapses
  BY <1>0, <1>5, WorkersAssumption DEF TtlElapses, LockExpires, generatorVars
<1>6. CASE RequestFails
  BY <1>6 DEF RequestFails, PutAborted, PostAborted, generatorVars, stateVars, tapeVars
<1>7. CASE Environment
  BY <1>7 DEF Environment, PutConfig, InsertScore, PublishDocument, FilterScored,
     ScoreElsewhere, generatorVars, tapeVars
<1>8. ~Overrun /\ ~RedisLoss
  BY Lease
<1>9. CASE UNCHANGED vars
  BY <1>9 DEF vars, stateVars, tapeVars, generatorVars
<1> QED
  BY <1>1, <1>2, <1>3, <1>4, <1>5, <1>6, <1>7, <1>8, <1>9 DEF Next, Failure

\* From the moment a run has measured the tape, or emptied it, the whole tape
\* lies before the position it will give next.
Ahead ==
  \A w \in Workers : pc[w] \in {"measured", "query", "append"} =>
    \A d \in Docs : entries[d] < run[w].pos

\* A ZADD puts one document behind the whole tape or changes nothing.
LEMMA AppendsBehind ==
  ASSUME TypeOK, Ahead, NEW w \in Workers, AppendEntry(w)
  PROVE  /\ run[w].pos \in Nat
         /\ run'[w].pos = run[w].pos + 1
         /\ \A d \in Docs : entries[d] < run[w].pos
         /\ \E d \in Docs : entries' = [entries EXCEPT ![d] = run[w].pos] \/ entries' = entries
<1>1. /\ run \in [Workers -> Runs] /\ run[w].pos \in Nat
      /\ run[w].todo \in Seq(Docs) /\ run[w].todo # <<>>
  BY DEF TypeOK, Runs, AppendEntry
<1>2. Head(run[w].todo) \in Docs
  BY <1>1
<1>3. run'[w].pos = run[w].pos + 1
  BY <1>1 DEF AppendEntry, Runs
<1>4. \A d \in Docs : entries[d] < run[w].pos
  BY DEF AppendEntry, Ahead
<1> QED
  BY <1>1, <1>2, <1>3, <1>4 DEF AppendEntry, AddEntry

\* A step that is not a ZADD moves no document: it can only take some off.
LEMMA Shrinks ==
  ASSUME TypeOK, UNCHANGED entries \/ DeleteAllEntries \/ \E d \in Docs : RemoveEntry(d)
  PROVE  \A d \in Docs : entries'[d] \in {entries[d], Absent}
BY DEF TypeOK, DeleteAllEntries, RemoveEntry, NoEntries

LEMMA AheadInvariant ==
  ASSUME TypeOK, LockHeld, Ahead, [Next]_vars
  PROVE  Ahead'
<1> SUFFICES ASSUME NEW v \in Workers, pc'[v] \in {"measured", "query", "append"},
                    NEW e \in Docs
             PROVE  entries'[e] < run'[v].pos
  BY DEF Ahead
<1>1. /\ entries[e] \in Nat \cup {Absent}
      /\ pc \in [Workers -> Unlocked \cup Locked] /\ run \in [Workers -> Runs]
  BY DEF TypeOK
<1>2. run[v].pos \in Nat
  BY <1>1 DEF Runs
<1>3. CASE \E w \in Workers : AppendEntry(w)
  <2> PICK w \in Workers : AppendEntry(w)
    BY <1>3
  <2>1. /\ run[w].pos \in Nat /\ run'[w].pos = run[w].pos + 1
        /\ entries[e] < run[w].pos
        /\ \E d \in Docs : entries' = [entries EXCEPT ![d] = run[w].pos] \/ entries' = entries
    BY AppendsBehind
  <2>2. entries'[e] \in {entries[e], run[w].pos}
    BY <2>1 DEF TypeOK
  <2>3. pc'[v] = pc[v] /\ pc[w] \in Locked
    BY DEF AppendEntry, Locked
  <2>4. v = w
    BY <2>3 DEF LockHeld, Locked
  <2> QED
    BY <1>1, <2>1, <2>2, <2>4 DEF Absent
<1>4. CASE UNCHANGED entries \/ DeleteAllEntries \/ \E d \in Docs : RemoveEntry(d)
  <2>1. entries'[e] \in {entries[e], Absent}
    BY <1>4, Shrinks
  <2>2. CASE pc'[v] = pc[v] /\ run'[v] = run[v]
    BY <1>1, <1>2, <2>1, <2>2 DEF Ahead, Absent
  <2>3. CASE GeneratorStep(v)
    <3> USE <1>1, <1>2, <2>1 DEF Goto
    <3>1. CASE MeasureTape(v)
      <4>1. entries' = entries
        BY <3>1 DEF MeasureTape, stateVars, tapeVars
      <4>2. CASE OnTape = {} /\ run' = [run EXCEPT ![v].pos = 0]
        BY <4>1, <4>2 DEF OnTape, Absent, Runs
      <4>3. ASSUME NEW d \in LastEntries, run' = [run EXCEPT ![v].pos = entries[d] + 1]
            PROVE  entries'[e] < run'[v].pos
        <5>1. entries[d] \in Nat /\ entries[e] <= entries[d]
          BY DEF LastEntries, OnTape, TypeOK, Absent
        <5> QED
          BY <4>1, <4>3, <5>1 DEF Runs, Absent
      <4> QED
        BY <3>1, <4>2, <4>3 DEF MeasureTape
    <3>2. CASE WipeTape(v)
      BY <3>2 DEF WipeTape, DeleteAllEntries, NoEntries, Absent, Runs
    <3>3. CASE ListExisting(v)
      BY <3>3 DEF ListExisting, Ahead, Runs, Absent
    <3>4. CASE QueryCandidates(v)
      BY <3>4 DEF QueryCandidates, Ahead, Runs, Absent
    <3>5. CASE AppendEntry(v)
      BY <3>5, AppendsBehind DEF Absent
    <3>6. CASE \/ ListUsers(v) \/ ReadConfig(v) \/ ReadSources(v) \/ WipeUnlocked(v)
               \/ ClearUnlocked(v) \/ AcquireLock(v) \/ AnnounceEntries(v)
               \/ ClearDirty(v) \/ FinishRun(v) \/ ReleaseLock(v) \/ AnnounceRelease(v)
      BY <3>6 DEF ListUsers, ReadConfig, ReadSources, WipeUnlocked, ClearUnlocked,
         AcquireLock, AnnounceEntries, ClearDirty, FinishRun, ReleaseLock,
         AnnounceRelease, EndTurn
    <3> QED
      BY <2>3, <3>1, <3>2, <3>3, <3>4, <3>5, <3>6 DEF GeneratorStep
  <2> QED
    BY <2>2, <2>3, StepOnRun
<1> QED
  BY <1>3, <1>4, StepOnTape

LEMMA UniqueInvariant ==
  ASSUME TypeOK, intact, Ahead, PositionsUnique, [Next]_vars
  PROVE  PositionsUnique'
<1> USE DEF PositionsUnique, OnTape, TypeOK
<1>1. CASE \E w \in Workers : AppendEntry(w)
  <2> PICK w \in Workers : AppendEntry(w)
    BY <1>1
  <2>1. entries \in [Docs -> Nat \cup {Absent}]
    OBVIOUS
  <2> QED
    BY <2>1, AppendsBehind DEF Absent
<1>2. CASE UNCHANGED entries \/ DeleteAllEntries \/ \E d \in Docs : RemoveEntry(d)
  BY <1>2, Shrinks
<1> QED
  BY <1>1, <1>2, StepOnTape

-----------------------------------------------------------------------------
\* The inductive invariant: MutualExclusion follows from LockHeld, and
\* PositionsUnique is preserved because of Ahead, which LockHeld preserves.
Positions == TypeOK /\ PositionsUnique /\ (intact => LockHeld /\ Ahead)

LEMMA PositionsStep == Positions /\ [Next]_vars => Positions'
<1> SUFFICES ASSUME Positions, [Next]_vars PROVE Positions'
  OBVIOUS
<1>1. TypeOK'
  BY StepTyped DEF Positions
<1>2. CASE ~intact'
  BY <1>1, <1>2 DEF Positions, PositionsUnique
<1>3. CASE intact'
  <2>1. TypeOK /\ intact /\ LockHeld /\ Ahead /\ PositionsUnique
    BY <1>3, Lease DEF Positions
  <2> QED
    BY <1>1, <1>3, <2>1, LockHeldInvariant, AheadInvariant, UniqueInvariant DEF Positions
<1> QED
  BY <1>2, <1>3

LEMMA PositionsInvariant == Spec => []Positions
<1>1. Init => Positions
  <2> SUFFICES ASSUME Init PROVE LockHeld /\ Ahead /\ PositionsUnique
    BY InitTyped DEF Positions
  <2> QED
    BY DEF Init, GeneratorInit, LockHeld, Ahead, PositionsUnique, OnTape, NoEntries, Locked
<1> QED
  BY <1>1, PositionsStep, PTL DEF Spec

\* Two workers are never both inside a run, however many workers there are
\* and whatever fails, as long as leases hold.
THEOREM Exclusion == Spec => []MutualExclusion
<1>1. Positions => MutualExclusion
  BY DEF Positions, LockHeld, MutualExclusion
<1> QED
  BY <1>1, PositionsInvariant, PTL

\* A position belongs to one document, as long as leases hold.
THEOREM UniquePositions == Spec => []PositionsUnique
<1>1. Positions => PositionsUnique
  BY DEF Positions
<1> QED
  BY <1>1, PositionsInvariant, PTL

\* A document enters the tape behind all that are on it, as long as leases hold.
THEOREM ArrivalsAtEnd == Spec => AppendsAtEnd
<1>1. Positions /\ [Next]_vars =>
        [intact' => \A d, e \in Docs :
           entries[d] = Absent /\ entries'[d] # Absent /\ e \in OnTape
             => entries[e] < entries'[d]]_vars
  <2> SUFFICES ASSUME Positions, [Next]_vars, intact', NEW d \in Docs, NEW e \in Docs,
                      entries[d] = Absent, entries'[d] # Absent
               PROVE  entries[e] < entries'[d]
    OBVIOUS
  <2>1. TypeOK /\ Ahead
    BY Lease DEF Positions
  <2>2. PICK w \in Workers : AppendEntry(w)
    BY <2>1, StepOnTape, Shrinks
  <2> QED
    BY <2>1, <2>2, AppendsBehind DEF TypeOK
<1> QED
  BY <1>1, PositionsInvariant, PTL DEF Spec, AppendsAtEnd

-----------------------------------------------------------------------------
(***************************************************************************)
(* A rebuild leaves nothing of an earlier configuration on the tape.       *)
(***************************************************************************)

\* What run w may put on the tape, and what it has still to put there.  A
\* rebuild never measures: it starts from the empty tape.
Wanted(w) == Selected(run[w].cfg, run[w].sources)
Clean ==
  \A w \in Workers : run[w].full =>
    /\ pc[w] # "measured"
    /\ pc[w] \in {"query", "append", "clear", "finish"} => OnTape \subseteq Wanted(w)
    /\ pc[w] = "append" => run[w].todo \in Seq(Wanted(w))

\* Documents are published, never withdrawn.
LEMMA DocsGrow ==
  ASSUME [Next]_vars
  PROVE  docs \subseteq docs'
<1> USE DEF stateVars, platformVars
<1>1. ASSUME NEW w \in Workers, WorkerStep(w) \/ ThreadStep(w) PROVE docs' = docs
  BY <1>1 DEF WorkerStep, GeneratorStep, ListUsers, ReadConfig, ReadSources,
     WipeUnlocked, ClearUnlocked, AcquireLock, WipeTape, MeasureTape, ListExisting,
     QueryCandidates, AppendEntry, AnnounceEntries, ClearDirty, FinishRun,
     ReleaseLock, AnnounceRelease, ThreadStep, ListenerStep, StartListening,
     HandleNotify
<1>2. ASSUME NEW w \in Workers, Failure(w) PROVE docs' = docs
  BY <1>2 DEF Failure, Restart, Crash, CallFails, StopStep,
     PoolClosed, GeneratorExit, Shutdown, EndThread, StartFails, GeneratorRestart, GeneratorCrash, TurnFails,
     RunFails, AcquireFails, ReleaseFails, HandleFails, ConnectionLost
<1>3. CASE (\E e \in Editors : FinishPut(e)) \/ (\E s \in Scorers : FinishPost(s))
  BY <1>3 DEF FinishPut, FinishPost, PutSources, RemoveScored
<1>4. CASE TtlElapses \/ RequestFails \/ Overrun \/ RedisLoss
  BY <1>4 DEF TtlElapses, LockExpires, Overrun, LeaseExpires, RequestFails, PutAborted, PostAborted, RedisLoss
<1>5. CASE Environment
  BY <1>5 DEF Environment, PutConfig, InsertScore, PublishDocument, FilterScored,
     ScoreElsewhere
<1>6. CASE UNCHANGED vars
  BY <1>6 DEF vars
<1> QED
  BY <1>1, <1>2, <1>3, <1>4, <1>5, <1>6 DEF Next, Failure

\* Scores are never withdrawn.
LEMMA ScoresGrow ==
  ASSUME [Next]_vars
  PROVE  scores \subseteq scores'
<1> USE DEF stateVars, platformVars
<1>1. ASSUME NEW w \in Workers, WorkerStep(w) \/ ThreadStep(w) PROVE scores' = scores
  BY <1>1 DEF WorkerStep, GeneratorStep, ListUsers, ReadConfig, ReadSources,
     WipeUnlocked, ClearUnlocked, AcquireLock, WipeTape, MeasureTape, ListExisting,
     QueryCandidates, AppendEntry, AnnounceEntries, ClearDirty, FinishRun,
     ReleaseLock, AnnounceRelease, ThreadStep, ListenerStep, StartListening,
     HandleNotify
<1>2. ASSUME NEW w \in Workers, Failure(w) PROVE scores' = scores
  BY <1>2 DEF Failure, StopStep, PoolClosed, GeneratorExit, Shutdown, StartFails,
     Restart, Crash, CallFails, GeneratorRestart, GeneratorCrash, TurnFails, RunFails,
     AcquireFails, ReleaseFails, HandleFails, ConnectionLost
<1>3. CASE (\E e \in Editors : FinishPut(e)) \/ (\E s \in Scorers : FinishPost(s))
  BY <1>3 DEF FinishPut, FinishPost, PutSources, RemoveScored
<1>4. CASE TtlElapses \/ RequestFails \/ Overrun \/ RedisLoss
  BY <1>4 DEF TtlElapses, LockExpires, Overrun, LeaseExpires, RequestFails,
     PutAborted, PostAborted, RedisLoss
<1>5. CASE Environment
  BY <1>5 DEF Environment, PutConfig, InsertScore, PublishDocument, FilterScored,
     ScoreElsewhere, SaveScore
<1>6. CASE UNCHANGED vars
  BY <1>6 DEF vars
<1> QED
  BY <1>1, <1>2, <1>3, <1>4, <1>5, <1>6 DEF Next, Failure

\* A ZADD adds only what its run wants, and leaves a shorter list to add.
LEMMA AppendsWanted ==
  ASSUME TypeOK, Clean, NEW w \in Workers, run[w].full, AppendEntry(w)
  PROVE  /\ OnTape' \subseteq Wanted(w)
         /\ run'[w].todo \in Seq(Wanted(w))
         /\ run'[w].full /\ run'[w].cfg = run[w].cfg /\ run'[w].sources = run[w].sources
<1>1. /\ run[w].todo \in Seq(Wanted(w)) /\ run[w].todo # <<>>
      /\ OnTape \subseteq Wanted(w)
  BY DEF Clean, AppendEntry
<1>2. Head(run[w].todo) \in Wanted(w) /\ Tail(run[w].todo) \in Seq(Wanted(w))
  BY <1>1
<1>3. /\ run'[w].todo = Tail(run[w].todo)
      /\ run'[w].full /\ run'[w].cfg = run[w].cfg /\ run'[w].sources = run[w].sources
  BY DEF AppendEntry, TypeOK, Runs
<1>4. OnTape' \subseteq OnTape \cup {Head(run[w].todo)}
  BY DEF AppendEntry, AddEntry, OnTape, TypeOK
<1> QED
  BY <1>1, <1>2, <1>3, <1>4

LEMMA CleanInvariant ==
  ASSUME TypeOK, LockHeld, Clean, [Next]_vars
  PROVE  Clean'
<1> DEFINE Good(v) ==
      /\ pc[v] # "measured"
      /\ pc[v] \in {"query", "append", "clear", "finish"} => OnTape \subseteq Wanted(v)
      /\ pc[v] = "append" => run[v].todo \in Seq(Wanted(v))
<1> SUFFICES ASSUME NEW v \in Workers, run'[v].full PROVE Good(v)'
  BY DEF Clean
<1>0. /\ pc \in [Workers -> Unlocked \cup Locked] /\ run \in [Workers -> Runs]
      /\ docs \subseteq docs'
  BY DocsGrow DEF TypeOK
<1>1. ASSUME run'[v].cfg = run[v].cfg, run'[v].sources = run[v].sources
      PROVE  Wanted(v) \subseteq Wanted(v)'
  BY <1>0, <1>1 DEF Wanted, Selected
<1>2. \A S, T : S \subseteq T => Seq(S) \subseteq Seq(T)
  BY SeqDef
<1>3. CASE \E w \in Workers : AppendEntry(w)
  <2> PICK w \in Workers : AppendEntry(w)
    BY <1>3
  <2>1. pc[w] = "append" /\ pc' = pc /\ run' = [run EXCEPT ![w] = run'[w]] /\ pc[w] \in Locked
    BY <1>0 DEF AppendEntry, Locked
  <2>2. CASE v = w
    <3>1. run[w].full
      BY <1>0, <2>2 DEF AppendEntry, Runs
    <3> QED
      BY <1>1, <1>2, <2>1, <2>2, <3>1, AppendsWanted
  <2>3. CASE v # w
    <3>1. pc'[v] \notin {"measured", "query", "append", "clear", "finish"}
      BY <2>1, <2>3 DEF LockHeld, Locked
    <3> QED
      BY <3>1
  <2> QED
    BY <2>2, <2>3
<1>4. CASE UNCHANGED entries \/ DeleteAllEntries \/ \E d \in Docs : RemoveEntry(d)
  <2>1. OnTape' \subseteq OnTape
    BY <1>4, Shrinks DEF OnTape
  <2>2. CASE pc'[v] = pc[v] /\ run'[v] = run[v]
    BY <1>1, <1>2, <2>1, <2>2 DEF Clean
  <2>3. CASE GeneratorStep(v)
    <3> USE <1>0 DEF Goto
    <3>1. CASE WipeTape(v)
      BY <3>1 DEF WipeTape, DeleteAllEntries, NoEntries, OnTape
    <3>2. CASE QueryCandidates(v)
      <4>1. PICK listing \in Listings(Candidates(v), run[v].cfg.ordering) :
              run' = [run EXCEPT ![v].todo = listing]
        BY <3>2 DEF QueryCandidates
      <4>2. Candidates(v) \in SUBSET Docs /\ Candidates(v) \subseteq Wanted(v)
        BY DEF Candidates, Wanted, Selected, TypeOK
      <4>3. listing \in Seq(Wanted(v))
        BY <1>2, <4>2, ListingTyped
      <4>4. /\ run'[v].todo = listing /\ run[v].full
            /\ run'[v].cfg = run[v].cfg /\ run'[v].sources = run[v].sources
        BY <4>1 DEF Runs
      <4>5. pc[v] = "query" /\ pc'[v] = "append"
        BY <3>2 DEF QueryCandidates
      <4> QED
        BY <1>1, <1>2, <2>1, <4>3, <4>4, <4>5 DEF Clean
    <3>3. CASE AnnounceEntries(v) \/ ClearDirty(v)
      <4>1. /\ pc[v] \in {"append", "clear"} /\ pc'[v] \in {"clear", "finish"}
            /\ run' = run
        BY <3>3 DEF AnnounceEntries, ClearDirty
      <4> QED
        BY <1>1, <2>1, <4>1 DEF Clean
    <3>4. CASE MeasureTape(v) \/ ListExisting(v)
      <4>1. ~run'[v].full
        BY <3>4 DEF MeasureTape, ListExisting, Clean, Runs
      <4> QED
        BY <4>1
    <3>5. CASE \/ ListUsers(v) \/ ReadConfig(v) \/ ReadSources(v) \/ WipeUnlocked(v)
               \/ ClearUnlocked(v) \/ AcquireLock(v) \/ FinishRun(v)
               \/ ReleaseLock(v) \/ AnnounceRelease(v)
      BY <3>5 DEF ListUsers, ReadConfig, ReadSources, WipeUnlocked, ClearUnlocked,
         AcquireLock, FinishRun, ReleaseLock, AnnounceRelease, EndTurn
    <3>6. CASE AppendEntry(v)
      BY <1>3, <3>6
    <3> QED
      BY <2>3, <3>1, <3>2, <3>3, <3>4, <3>5, <3>6 DEF GeneratorStep
  <2> QED
    BY <2>2, <2>3, StepOnRun
<1> QED
  BY <1>3, <1>4, StepOnTape

\* While a rebuild is under way the tape holds only what its configuration
\* asks for, as long as leases hold.
THEOREM CleanRebuilds == Spec => []RebuildIsClean
<1>1. Init => Clean
  BY DEF Init, GeneratorInit, Clean, BlankRun
<1>2. Positions /\ (intact => Clean) /\ [Next]_vars => (intact => Clean)'
  BY CleanInvariant, Lease DEF Positions
<1>3. (intact => Clean) => RebuildIsClean
  BY DEF Clean, RebuildIsClean, Rebuilding, Wanted
<1> QED
  BY <1>1, <1>2, <1>3, PositionsInvariant, PTL DEF Spec

-----------------------------------------------------------------------------
(***************************************************************************)
(* What holds even when leases do not: with runs that outlive their lock,  *)
(* and with Redis losing its data.                                         *)
(***************************************************************************)

\* A step takes a document off the tape or leaves it where it is.
LEMMA PositionsKept ==
  ASSUME TypeOK, [Next]_vars
  PROVE  \A d \in OnTape : entries'[d] \in {entries[d], Absent}
<1> SUFFICES ASSUME NEW d \in OnTape PROVE entries'[d] \in {entries[d], Absent}
  OBVIOUS
<1>1. d \in Docs /\ entries[d] # Absent
  BY DEF OnTape
<1>2. ASSUME NEW w \in Workers, AppendEntry(w) PROVE entries'[d] = entries[d]
  <2>1. AddEntry(Head(run[w].todo), run[w].pos)
    BY <1>2 DEF AppendEntry
  <2> QED
    BY <1>1, <2>1 DEF AddEntry, TypeOK
<1> QED
  BY <1>1, <1>2, StepOnTape, Shrinks

\* A document keeps its position as long as it is on the tape.
THEOREM StablePositions == Spec => PositionsStable
<1>1. TypeOK /\ [Next]_vars =>
        [\A d \in OnTape : entries'[d] \in {entries[d], Absent}]_vars
  BY PositionsKept
<1> QED
  BY <1>1, TypeCorrect, PTL DEF Spec, PositionsStable

\* Only the holder of the lock or the TTL, never another worker, frees it.
THEOREM OwnReleases == Spec => ReleasesOnlyOwn
<1>1. TypeOK /\ [Next]_vars =>
        [\A v \in Workers : lock = v /\ lock' # v =>
           \A w \in Workers \ {v} : pc'[w] = pc[w]]_vars
  <2> SUFFICES ASSUME TypeOK, [Next]_vars, NEW v \in Workers, lock = v, lock' # v,
                      NEW u \in Workers \ {v}
               PROVE  pc'[u] = pc[u]
    OBVIOUS
  <2> USE DEF TypeOK, stateVars, tapeVars, generatorVars
  <2>1. ASSUME NEW w \in Workers, WorkerStep(w) PROVE w = v
    BY <2>1, WorkersAssumption DEF WorkerStep, GeneratorStep, ListUsers, ReadConfig,
       ReadSources, WipeUnlocked, ClearUnlocked, AcquireLock, WipeTape, MeasureTape,
       ListExisting, QueryCandidates, AppendEntry, AnnounceEntries, ClearDirty,
       FinishRun, ReleaseLock, AnnounceRelease
  <2>2. ASSUME NEW w \in Workers, WorkerStep(w), u # w PROVE pc'[u] = pc[u]
    BY <2>2 DEF WorkerStep, GeneratorStep, Goto, EndTurn, ListUsers, ReadConfig,
       ReadSources, WipeUnlocked, ClearUnlocked, AcquireLock, WipeTape, MeasureTape,
       ListExisting, QueryCandidates, AppendEntry, AnnounceEntries, ClearDirty,
       FinishRun, ReleaseLock, AnnounceRelease
  <2>3. ASSUME NEW w \in Workers, ThreadStep(w) PROVE pc'[u] = pc[u]
    BY <2>3 DEF ThreadStep
  <2>4. ASSUME NEW w \in Workers, Failure(w)
        PROVE  pc'[u] = pc[u]
    BY <2>4, WorkersAssumption DEF Failure, Restart, Crash, CallFails, StopStep,
     PoolClosed, GeneratorExit, Shutdown, EndThread, StartFails, GeneratorRestart,
       GeneratorCrash, TurnFails, RunFails, AcquireFails, ReleaseFails, HandleFails,
       ConnectionLost, Goto, EndTurn
  <2>5. CASE (\E e \in Editors : FinishPut(e)) \/ (\E s \in Scorers : FinishPost(s))
    BY <2>5 DEF FinishPut, FinishPost
  <2>6. CASE TtlElapses \/ Environment \/ RequestFails \/ Overrun \/ RedisLoss
    BY <2>6 DEF TtlElapses, LockExpires, Overrun, LeaseExpires, Environment,
       RequestFails, RedisLoss
  <2>7. CASE UNCHANGED vars
    BY <2>7 DEF vars
  <2> QED
    BY <2>1, <2>2, <2>3, <2>4, <2>5, <2>6, <2>7 DEF Next, Failure
<1> QED
  BY <1>1, TypeCorrect, PTL DEF Spec, ReleasesOnlyOwn

-----------------------------------------------------------------------------
(***************************************************************************)
(* The configuration.  As long as Redis keeps its data nobody deletes it,  *)
(* so that a tape without a configuration is empty and unattended.         *)
(***************************************************************************)

\* A step leaves the configuration or stores one.
LEMMA StepOnConfig ==
  ASSUME [Next]_vars, intact'
  PROVE  UNCHANGED cfg \/ cfg' \in Configs
<1> USE DEF stateVars, tapeVars, configVars
<1>1. ASSUME NEW w \in Workers, WorkerStep(w)
      PROVE  UNCHANGED cfg \/ cfg' \in Configs
  BY <1>1, DefaultTyped DEF WorkerStep, GeneratorStep, ListUsers, ReadConfig, ReadSources,
     WipeUnlocked, ClearUnlocked, AcquireLock, WipeTape, MeasureTape, ListExisting,
     QueryCandidates, AppendEntry, AnnounceEntries, ClearDirty, FinishRun, ReleaseLock,
     AnnounceRelease, SetDirty
<1>2. ASSUME NEW w \in Workers, ThreadStep(w) PROVE UNCHANGED cfg
  BY <1>2 DEF ThreadStep, ListenerStep, StartListening, HandleNotify
<1>3. ASSUME NEW w \in Workers, Failure(w) PROVE UNCHANGED cfg
  BY <1>3 DEF Failure, Restart, Crash, CallFails, StopStep, PoolClosed, GeneratorExit,
     Shutdown, StartFails, GeneratorRestart, GeneratorCrash, TurnFails, RunFails,
     AcquireFails, ReleaseFails, HandleFails, ConnectionLost
<1>4. ASSUME NEW e \in Editors, FinishPut(e) PROVE UNCHANGED cfg \/ cfg' \in Configs
  BY <1>4, DefaultTyped DEF FinishPut, PutSources, SetConfigSources, SetDirty
<1>5. ASSUME NEW s \in Scorers, FinishPost(s) PROVE UNCHANGED cfg
  BY <1>5 DEF FinishPost, RemoveScored
<1>6. TtlElapses \/ RequestFails => UNCHANGED cfg
  BY DEF TtlElapses, LockExpires, RequestFails, PutAborted, PostAborted
<1>7. Environment => UNCHANGED cfg \/ cfg' \in Configs
  BY DEF Environment, PutConfig, UpsertConfig, InsertScore, PublishDocument,
     FilterScored, ScoreElsewhere
<1>8. UNCHANGED vars => UNCHANGED cfg
  BY DEF vars
<1>9. ~Overrun /\ ~RedisLoss
  BY Lease
<1> QED
  BY <1>1, <1>2, <1>3, <1>4, <1>5, <1>6, <1>7, <1>8, <1>9 DEF Next, Failure

Configured ==
  cfg = NoConfig => OnTape = {} /\ \A w \in Workers : pc[w] \in {"idle", "down"}

LEMMA ConfiguredInvariant ==
  ASSUME TypeOK, Configured, [Next]_vars, intact'
  PROVE  Configured'
<1> SUFFICES ASSUME cfg' = NoConfig
             PROVE  OnTape' = {} /\ \A w \in Workers : pc'[w] \in {"idle", "down"}
  BY DEF Configured
<1>1. cfg = NoConfig
  BY StepOnConfig, NoConfigAssumption
<1>2. OnTape = {} /\ \A w \in Workers : pc[w] \in {"idle", "down"}
  BY <1>1 DEF Configured
<1>3. \A w \in Workers : ~GeneratorStep(w)
  BY <1>1, <1>2 DEF GeneratorStep, ListUsers, ReadConfig, ReadSources, WipeUnlocked,
     ClearUnlocked, AcquireLock, WipeTape, MeasureTape, ListExisting, QueryCandidates,
     AppendEntry, AnnounceEntries, ClearDirty, FinishRun, ReleaseLock, AnnounceRelease
<1>4. OnTape' = {}
  <2>1. \A w \in Workers : ~AppendEntry(w)
    BY <1>3 DEF GeneratorStep
  <2> QED
    BY <1>2, <2>1, StepOnTape, Shrinks DEF OnTape
<1>5. ASSUME NEW v \in Workers PROVE pc'[v] \in {"idle", "down"}
  <2> USE DEF generatorVars
  <2>1. ASSUME NEW w \in Workers, Failure(w) PROVE pc'[v] \in {"idle", "down"}
    BY <1>2, <2>1 DEF Failure, Restart, Crash, CallFails, StopStep, PoolClosed,
       GeneratorExit, Shutdown, StartFails, GeneratorRestart, GeneratorCrash, TurnFails,
       RunFails, AcquireFails, ReleaseFails, HandleFails, ConnectionLost, Goto, EndTurn,
       TypeOK
  <2>2. ASSUME NEW w \in Workers, WorkerStep(w) \/ ThreadStep(w)
        PROVE  pc'[v] \in {"idle", "down"}
    BY <1>2, <1>3, <2>2 DEF WorkerStep, ThreadStep
  <2>3. CASE (\E e \in Editors : FinishPut(e)) \/ (\E s \in Scorers : FinishPost(s))
    BY <1>2, <2>3 DEF FinishPut, FinishPost
  <2>4. CASE TtlElapses \/ Environment \/ RequestFails
    BY <1>2, <2>4 DEF TtlElapses, LockExpires, Environment, RequestFails
  <2>5. CASE UNCHANGED vars
    BY <1>2, <2>5 DEF vars
  <2>6. ~Overrun /\ ~RedisLoss
    BY Lease
  <2> QED
    BY <2>1, <2>2, <2>3, <2>4, <2>5, <2>6 DEF Next, Failure
<1> QED
  BY <1>4, <1>5

=============================================================================
