------------------------- MODULE TapeSpacedProofs -------------------------
(***************************************************************************)
(* What the documentation promises of the dirty flag and of the listener   *)
(* holds in every behaviour without the races of TapeSpaced.               *)
(***************************************************************************)
EXTENDS TapeSpaced, TapeListProofs

-----------------------------------------------------------------------------
(***************************************************************************)
(* All expert scores clear the tape.  A scored document that is still on   *)
(* it has a notification waiting at every worker, and no run is about to   *)
(* put one back.                                                           *)
(***************************************************************************)
Announced ==
  \A d \in OnTape \cap Scored, w \in Workers : \E r \in Roles : <<d, r>> \in inbox[w]
Unscored ==
  \A w \in Workers : pc[w] = "append" =>
    \A i \in DOMAIN run[w].todo : run[w].todo[i] \notin Scored

\* Only an insert adds a score, and it notifies whoever listens.
LEMMA StepOnScores ==
  ASSUME TypeOK, [Next]_vars
  PROVE  \/ UNCHANGED scores
         \/ \E d \in Docs, r \in Roles :
              /\ scores' = scores \cup {<<d, r>>} /\ Notify(<<d, r>>)
              /\ UNCHANGED <<entries, pc, run>>
<1> USE DEF stateVars, tapeVars, platformVars, generatorVars
<1>1. ASSUME NEW w \in Workers, WorkerStep(w) \/ ThreadStep(w) PROVE scores' = scores
  BY <1>1 DEF WorkerStep, GeneratorStep, ListUsers, ReadConfig, ReadSources,
     WipeUnlocked, ClearUnlocked, AcquireLock, WipeTape, MeasureTape, ListExisting,
     QueryCandidates, AppendEntry, AnnounceEntries, ClearDirty, FinishRun,
     ReleaseLock, AnnounceRelease, ThreadStep, ListenerStep, StartListening,
     HandleNotify
<1>2. ASSUME NEW w \in Workers, Failure(w) PROVE scores' = scores
  BY <1>2 DEF Failure, StopStep, PoolClosed, GeneratorExit, Shutdown, StartFails,
     Restart, Crash, CallFails, GeneratorRestart, GeneratorCrash, TurnFails, RunFails,
     AcquireFails, ReleaseFails, HandleFails, ConnectionLost
<1>3. CASE (\E e \in Editors : FinishPut(e)) \/ (\E s \in Scorers : FinishPost(s))
  BY <1>3 DEF FinishPut, FinishPost, PutSources, RemoveScored
<1>4. CASE TtlElapses \/ RequestFails \/ Overrun \/ RedisLoss
  BY <1>4 DEF TtlElapses, LockExpires, Overrun, LeaseExpires, RequestFails,
     PutAborted, PostAborted, RedisLoss
<1>5. CASE Environment
  <2>1. ASSUME NEW d \in Docs, NEW r \in Roles,
               ScoreElsewhere(d, r) \/ \E s \in Scorers : InsertScore(s, d, r)
        PROVE  /\ scores' = scores \cup {<<d, r>>} /\ Notify(<<d, r>>)
               /\ UNCHANGED <<entries, pc, run>>
    BY <1>5, <2>1 DEF Environment, ScoreElsewhere, InsertScore, SaveScore
  <2>2. CASE \/ \E e \in Editors, c \in Configs, S \in SUBSET Sources : PutConfig(e, c, S)
             \/ \E d \in Docs : PublishDocument(d) \/ FilterScored(d)
    BY <2>2 DEF PutConfig, PublishDocument, FilterScored
  <2> QED
    BY <1>5, <2>1, <2>2 DEF Environment
<1>6. CASE UNCHANGED vars
  BY <1>6 DEF vars
<1> QED
  BY <1>1, <1>2, <1>3, <1>4, <1>5, <1>6 DEF Next, Failure

\* Where no thread ends and no handler fails, a notification waits until its
\* document has been taken off the tape.
LEMMA StepOnInbox ==
  ASSUME TypeOK, [Next]_vars, Faults \cap {"crash", "stop", "listener"} = {},
         UNCHANGED scores, NEW v \in Workers, NEW row \in inbox[v]
  PROVE  row \in inbox'[v] \/ RemoveEntry(row[1])
<1> USE DEF listenerVars, TypeOK
<1>1. ASSUME NEW w \in Workers, ThreadStep(w) PROVE row \in inbox'[v] \/ RemoveEntry(row[1])
  BY <1>1 DEF ThreadStep, ListenerStep, StartListening, HandleNotify
<1>2. ASSUME NEW w \in Workers, WorkerStep(w) PROVE row \in inbox'[v]
  BY <1>2 DEF WorkerStep
<1>3. ASSUME NEW w \in Workers, Failure(w) PROVE row \in inbox'[v]
  BY <1>3 DEF Failure, StopStep, Restart, Crash, Shutdown, CallFails, Fault
<1>4. CASE (\E e \in Editors : FinishPut(e)) \/ (\E s \in Scorers : FinishPost(s))
  BY <1>4 DEF FinishPut, FinishPost, PutSources, RemoveScored
<1>5. CASE TtlElapses \/ RequestFails \/ Overrun \/ RedisLoss
  BY <1>5 DEF TtlElapses, RequestFails, Overrun, RedisLoss, PutAborted, PostAborted
<1>6. CASE Environment
  <2>1. ASSUME NEW d \in Docs, NEW r \in Roles, SaveScore(d, r) PROVE FALSE
    BY <2>1 DEF SaveScore
  <2> QED
    BY <1>6, <2>1 DEF Environment, PutConfig, InsertScore, PublishDocument,
       FilterScored, ScoreElsewhere
<1>7. CASE UNCHANGED vars
  BY <1>7 DEF vars
<1> QED
  BY <1>1, <1>2, <1>3, <1>4, <1>5, <1>6, <1>7 DEF Next, Failure

\* A run asks for documents without a score, and no score comes before it has
\* put them on the tape.
LEMMA UnscoredInvariant ==
  ASSUME TypeOK, Unscored, [Next]_vars, ScoresSpaced \/ UNCHANGED vars
  PROVE  Unscored'
<1> SUFFICES ASSUME NEW w \in Workers, pc'[w] = "append", NEW i \in DOMAIN run'[w].todo
             PROVE  run'[w].todo[i] \notin Scored'
  BY DEF Unscored
<1>0. pc \in [Workers -> Unlocked \cup Locked] /\ run \in [Workers -> Runs]
  BY DEF TypeOK
<1>1. CASE pc'[w] = pc[w] /\ run'[w] = run[w]
  <2>1. UNCHANGED scores
    BY <1>1 DEF ScoresSpaced, vars, stateVars, platformVars
  <2> QED
    BY <1>1, <2>1 DEF Unscored, Scored
<1>2. CASE GeneratorStep(w)
  <2>1. UNCHANGED scores
    <3>1. ~UNCHANGED scores => UNCHANGED <<pc, run>>
      BY StepOnScores
    <3>2. UNCHANGED <<pc, run>> => UNCHANGED scores
      BY <1>1 DEF ScoresSpaced, vars, stateVars, platformVars
    <3> QED
      BY <3>1, <3>2
  <2>2. CASE AppendEntry(w)
    <3>1. run[w].todo \in Seq(Docs) /\ run[w].todo # <<>> /\ pc[w] = "append"
      BY <1>0, <2>2 DEF AppendEntry, Runs
    <3>2. run'[w].todo = Tail(run[w].todo)
      BY <1>0, <2>2 DEF AppendEntry, Runs
    <3>3. i + 1 \in DOMAIN run[w].todo /\ run'[w].todo[i] = run[w].todo[i + 1]
      BY <3>1, <3>2
    <3> QED
      BY <2>1, <3>1, <3>3 DEF Unscored, Scored
  <2>3. CASE QueryCandidates(w)
    <3>1. PICK listing \in Listings(Candidates(w), run[w].cfg.ordering) :
            run' = [run EXCEPT ![w].todo = listing]
      BY <2>3 DEF QueryCandidates
    <3>2. Candidates(w) \in SUBSET Docs
      BY DEF Candidates, Selected, TypeOK
    <3>3. listing \in Seq(Candidates(w)) /\ run'[w].todo = listing
      BY <1>0, <3>1, <3>2, ListingTyped DEF Runs
    <3>4. run'[w].todo[i] \in Candidates(w)
      BY <3>3
    <3> QED
      BY <2>1, <3>4 DEF Candidates, Scored
  <2>4. CASE \/ ListUsers(w) \/ ReadConfig(w) \/ ReadSources(w) \/ WipeUnlocked(w)
             \/ ClearUnlocked(w) \/ AcquireLock(w) \/ WipeTape(w) \/ MeasureTape(w)
             \/ ListExisting(w) \/ AnnounceEntries(w) \/ ClearDirty(w) \/ FinishRun(w)
             \/ ReleaseLock(w) \/ AnnounceRelease(w)
    BY <1>0, <2>4 DEF Goto, EndTurn, ListUsers, ReadConfig, ReadSources, WipeUnlocked,
       ClearUnlocked, AcquireLock, WipeTape, MeasureTape, ListExisting, AnnounceEntries,
       ClearDirty, FinishRun, ReleaseLock, AnnounceRelease
  <2> QED
    BY <1>2, <2>2, <2>3, <2>4 DEF GeneratorStep
<1> QED
  BY <1>1, <1>2, StepOnRun

LEMMA AnnouncedInvariant ==
  ASSUME TypeOK, Announced, Unscored, [Next]_vars, ScoresHeard \/ UNCHANGED vars,
         Faults \cap {"crash", "stop", "listener"} = {}
  PROVE  Announced'
<1> SUFFICES ASSUME NEW d \in OnTape' \cap Scored', NEW w \in Workers
             PROVE  \E r \in Roles : <<d, r>> \in inbox'[w]
  BY DEF Announced
<1>0. d \in Docs
  BY DEF OnTape
<1>1. CASE UNCHANGED scores
  <2>1. d \in Scored
    BY <1>1 DEF Scored
  <2>2. d \in OnTape
    <3>1. ASSUME NEW v \in Workers, AppendEntry(v), d \notin OnTape PROVE FALSE
      <4>1. run[v].todo \in Seq(Docs) /\ run[v].todo # <<>> /\ pc[v] = "append"
        BY <3>1 DEF AppendEntry, TypeOK, Runs
      <4>2. 1 \in DOMAIN run[v].todo /\ Head(run[v].todo) = run[v].todo[1]
        BY <4>1
      <4>3. d = Head(run[v].todo)
        BY <3>1 DEF AppendEntry, AddEntry, OnTape, TypeOK
      <4> QED
        BY <2>1, <4>1, <4>2, <4>3 DEF Unscored
    <3>2. CASE UNCHANGED entries \/ DeleteAllEntries \/ \E e \in Docs : RemoveEntry(e)
      BY <3>2, Shrinks DEF OnTape
    <3> QED
      BY <3>1, <3>2, StepOnTape
  <2>3. PICK r \in Roles : <<d, r>> \in inbox[w]
    BY <2>1, <2>2 DEF Announced
  <2>4. ~RemoveEntry(<<d, r>>[1])
    BY DEF RemoveEntry, OnTape, TypeOK
  <2> QED
    BY <1>1, <2>3, <2>4, StepOnInbox
<1>2. ASSUME ~UNCHANGED scores PROVE \E r \in Roles : <<d, r>> \in inbox'[w]
  <2>1. PICK e \in Docs, r \in Roles :
          /\ scores' = scores \cup {<<e, r>>} /\ Notify(<<e, r>>)
          /\ UNCHANGED entries
    BY <1>2, StepOnScores
  <2>2. \A v \in Workers : thread[v] = "listening"
    BY <1>2 DEF ScoresHeard, vars, stateVars, platformVars
  <2>3. inbox'[w] = inbox[w] \cup {<<e, r>>}
    BY <2>1, <2>2 DEF Notify
  <2>4. CASE d = e
    BY <2>3, <2>4
  <2>5. CASE d # e
    <3>1. d \in OnTape /\ d \in Scored
      BY <2>1, <2>5 DEF OnTape, Scored
    <3> QED
      BY <2>3, <3>1 DEF Announced
  <2> QED
    BY <2>4, <2>5
<1> QED
  BY <1>1, <1>2

\* If scores are inserted while every thread listens, and not between a run's
\* query and its last ZADD, and no thread ends and no handler fails, then all
\* expert scores clear the tape, however many workers there are and whatever
\* else fails, the loss of Redis included.
THEOREM ScoresCleared ==
  ASSUME Workers # {}, Faults \cap {"crash", "stop", "listener"} = {}
  PROVE  SpacedSpec => []ScoresClearTape
<1> DEFINE Step == Next /\ ScoresHeard /\ ScoresSpaced /\ EditsSpaced
<1>1. Init => Announced /\ Unscored
  BY DEF Init, GeneratorInit, Announced, Unscored, OnTape, NoEntries
<1>2. TypeOK /\ Announced /\ Unscored /\ [Step]_vars => (Announced /\ Unscored)'
  BY AnnouncedInvariant, UnscoredInvariant
<1>3. Announced => ScoresClearTape
  BY DEF Announced, ScoresClearTape, NothingInFlight
<1>4. SpacedSpec => Spec
  BY PTL DEF SpacedSpec, Spec
<1> QED
  BY <1>1, <1>2, <1>3, <1>4, TypeCorrect, PTL DEF SpacedSpec

-----------------------------------------------------------------------------
(***************************************************************************)
(* The tape matches the configuration.  While the dirty flag is clear, and *)
(* during every rebuild, a run works with the configuration that is        *)
(* stored; so what it puts on the tape, and what the tape holds when it    *)
(* clears the flag, is what that configuration asks for.                   *)
(***************************************************************************)
Asked == Selected(cfg, sources)
Configuring == {"read", "sourced", "locked", "measured", "query", "append", "clear"}
Fresh(w) ==
  /\ (run[w].full \/ ~dirty) /\ pc[w] \in Configuring => run[w].cfg = cfg
  /\ (run[w].full \/ ~dirty) /\ pc[w] \in Configuring \ {"read"} => run[w].sources = sources
  /\ ~dirty /\ pc[w] = "append" => run[w].todo \in Seq(Asked)
  /\ pc[w] = "unmark" => OnTape = {}
Matching == ~dirty /\ cfg # NoConfig => OnTape \subseteq Asked

\* The configuration and the sources change only by PUT /config, which sets
\* the flag.
LEMMA StepOnSettings ==
  ASSUME TypeOK, Configured, [Next]_vars, intact'
  PROVE  \/ UNCHANGED <<cfg, sources>>
         \/ dirty' = TRUE /\ put' # put /\ UNCHANGED <<entries, pc, run>>
<1> USE DEF stateVars, tapeVars, configVars, generatorVars
<1>1. ASSUME NEW w \in Workers, WorkerStep(w) PROVE UNCHANGED <<cfg, sources>>
  <2>1. CASE ClearDirty(w) \/ ClearUnlocked(w)
    <3>1. cfg # NoConfig
      BY <2>1 DEF Configured, ClearDirty, ClearUnlocked
    <3> QED
      BY <2>1, <3>1 DEF ClearDirty, ClearUnlocked, SetDirty
  <2>2. CASE ~ClearDirty(w) /\ ~ClearUnlocked(w)
    BY <1>1, <2>2 DEF WorkerStep, GeneratorStep, ListUsers, ReadConfig, ReadSources,
       WipeUnlocked, AcquireLock, WipeTape, MeasureTape, ListExisting, QueryCandidates,
       AppendEntry, AnnounceEntries, FinishRun, ReleaseLock, AnnounceRelease
  <2> QED
    BY <2>1, <2>2
<1>2. ASSUME NEW w \in Workers, ThreadStep(w) \/ Failure(w)
      PROVE  UNCHANGED <<cfg, sources>>
  BY <1>2 DEF ThreadStep, ListenerStep, StartListening, HandleNotify, Failure, Restart,
     Crash, CallFails, StopStep, PoolClosed, GeneratorExit, Shutdown, StartFails,
     GeneratorRestart, GeneratorCrash, TurnFails, RunFails, AcquireFails, ReleaseFails,
     HandleFails, ConnectionLost
<1>3. ASSUME NEW e \in Editors, FinishPut(e)
      PROVE  dirty' = TRUE /\ put' # put /\ UNCHANGED <<entries, pc, run>>
  <2>1. put[e] # NoRequest /\ put' = [put EXCEPT ![e] = NoRequest] /\ put'[e] = NoRequest
    BY <1>3 DEF FinishPut, PutSources, TypeOK
  <2> QED
    BY <1>3, <2>1 DEF FinishPut, PutSources, SetConfigSources, SetDirty
<1>4. ASSUME NEW s \in Scorers, FinishPost(s) PROVE UNCHANGED <<cfg, sources>>
  BY <1>4 DEF FinishPost, RemoveScored
<1>5. TtlElapses \/ RequestFails => UNCHANGED <<cfg, sources>>
  BY DEF TtlElapses, LockExpires, RequestFails, PutAborted, PostAborted
<1>6. CASE Environment
  <2>1. ASSUME NEW e \in Editors, NEW c \in Configs, NEW S \in SUBSET Sources,
               PutConfig(e, c, S)
        PROVE  dirty' = TRUE /\ put' # put /\ UNCHANGED <<entries, pc, run>>
    <3>1. put[e] = NoRequest /\ put'[e] = S /\ S # NoRequest
      BY <2>1, RequestAssumption DEF PutConfig, TypeOK
    <3> QED
      BY <1>6, <2>1, <3>1 DEF Environment, PutConfig, UpsertConfig
  <2> QED
    BY <1>6, <2>1 DEF Environment, InsertScore, PublishDocument, FilterScored,
       ScoreElsewhere
<1>7. UNCHANGED vars => UNCHANGED <<cfg, sources>>
  BY DEF vars
<1>8. ~Overrun /\ ~RedisLoss
  BY Lease
<1> QED
  BY <1>1, <1>2, <1>3, <1>4, <1>5, <1>6, <1>7, <1>8 DEF Next, Failure

\* What a run puts on the tape while the flag is clear is asked for.
LEMMA AppendsAsked ==
  ASSUME TypeOK, Marked, NEW w \in Workers, Fresh(w), AppendEntry(w), ~dirty
  PROVE  OnTape' \subseteq OnTape \cup Asked /\ run'[w].todo \in Seq(Asked)
<1>1. run[w].todo \in Seq(Asked) /\ run[w].todo # <<>>
  BY DEF Fresh, AppendEntry
<1>2. Head(run[w].todo) \in Asked /\ Tail(run[w].todo) \in Seq(Asked)
  BY <1>1
<1>3. run'[w].todo = Tail(run[w].todo)
  BY DEF AppendEntry, TypeOK, Runs
<1>4. OnTape' \subseteq OnTape \cup {Head(run[w].todo)}
  BY DEF AppendEntry, AddEntry, OnTape, TypeOK
<1> QED
  BY <1>2, <1>3, <1>4

\* The step of the run itself, with the settings as they are.
LEMMA FreshStep ==
  ASSUME TypeOK, Marked, NEW w \in Workers, Fresh(w), GeneratorStep(w),
         UNCHANGED <<cfg, sources>>, Asked \subseteq Asked'
  PROVE  Fresh(w)'
<1> USE DEF Goto, EndTurn, Configuring
<1>0. /\ pc \in [Workers -> Unlocked \cup Locked] /\ run \in [Workers -> Runs]
      /\ run[w] \in Runs
      /\ Seq(Asked) \subseteq Seq(Asked')
  BY SeqDef DEF TypeOK
<1>1. CASE ListUsers(w)
  BY <1>0, <1>1 DEF ListUsers, Fresh
<1>2. CASE ReadConfig(w)
  <2>1. CASE cfg = NoConfig
    BY <1>0, <1>2, <2>1 DEF ReadConfig, Fresh
  <2>2. CASE cfg # NoConfig
    <3>1. pc'[w] = "read" /\ run'[w].cfg = cfg
      BY <1>0, <1>2, <2>2 DEF ReadConfig, Runs
    <3> QED
      BY <3>1 DEF Fresh
  <2> QED
    BY <2>1, <2>2
<1>3. CASE ReadSources(w)
  <2>1. \/ pc'[w] \in {"wipe", "idle"}
        \/ /\ pc'[w] = "sourced" /\ run'[w].sources = sources
           /\ run'[w].cfg = run[w].cfg /\ run'[w].full = run[w].full
    BY <1>0, <1>3 DEF ReadSources, Runs
  <2>2. pc[w] = "read" /\ UNCHANGED dirty
    BY <1>3 DEF ReadSources, stateVars, tapeVars, configVars
  <2> QED
    BY <2>1, <2>2 DEF Fresh
<1>4. CASE WipeUnlocked(w)
  BY <1>0, <1>4 DEF WipeUnlocked, Fresh, DeleteAllEntries, NoEntries, OnTape
<1>5. CASE \/ ClearUnlocked(w) \/ ClearDirty(w) \/ FinishRun(w) \/ ReleaseLock(w)
           \/ AnnounceRelease(w)
  BY <1>0, <1>5 DEF ClearUnlocked, ClearDirty, FinishRun, ReleaseLock, AnnounceRelease,
     Fresh
<1>6. CASE AcquireLock(w)
  <2>1. /\ pc[w] = "sourced" /\ UNCHANGED dirty
        /\ pc'[w] = "idle" \/ (pc'[w] = "locked" /\ run' = run)
    BY <1>0, <1>6 DEF AcquireLock, configVars
  <2> QED
    BY <2>1 DEF Fresh
<1>7. CASE WipeTape(w) \/ MeasureTape(w) \/ ListExisting(w)
  <2>1. /\ pc[w] \in {"locked", "measured"} /\ pc'[w] \in {"measured", "query"}
        /\ UNCHANGED dirty
    BY <1>0, <1>7 DEF WipeTape, MeasureTape, ListExisting, stateVars, tapeVars, configVars
  <2>2. /\ run'[w].cfg = run[w].cfg /\ run'[w].full = run[w].full
        /\ run'[w].sources = run[w].sources
    BY <1>0, <1>7 DEF WipeTape, MeasureTape, ListExisting, Runs
  <2> QED
    BY <2>1, <2>2 DEF Fresh
<1>8. CASE QueryCandidates(w)
  <2>1. PICK listing \in Listings(Candidates(w), run[w].cfg.ordering) :
          run' = [run EXCEPT ![w].todo = listing]
    BY <1>8 DEF QueryCandidates
  <2>2. Candidates(w) \in SUBSET Docs /\ Candidates(w) \subseteq Wanted(w)
    BY DEF Candidates, Wanted, Selected, TypeOK
  <2>3. listing \in Seq(Wanted(w))
    <3>1. listing \in Seq(Candidates(w))
      BY <2>1, <2>2, ListingTyped
    <3> QED
      BY <2>2, <3>1, SeqDef
  <2>4. /\ run'[w].cfg = run[w].cfg /\ run'[w].full = run[w].full
        /\ run'[w].sources = run[w].sources /\ run'[w].todo = listing
    BY <1>0, <2>1 DEF Runs
  <2>5. pc[w] = "query" /\ pc'[w] = "append" /\ UNCHANGED dirty
    BY <1>0, <1>8 DEF QueryCandidates, stateVars, tapeVars, configVars
  <2>6. ~dirty => Wanted(w) = Asked
    BY <2>5 DEF Fresh, Wanted, Asked
  <2>7. ~dirty => listing \in Seq(Asked')
    BY <1>0, <2>3, <2>6
  <2> HIDE DEF Asked
  <2> QED
    BY <2>4, <2>5, <2>7 DEF Fresh
<1>9. CASE AppendEntry(w)
  <2>1. pc[w] = "append" /\ pc'[w] = "append" /\ UNCHANGED dirty
    BY <1>9 DEF AppendEntry, configVars
  <2>2. /\ run'[w].cfg = run[w].cfg /\ run'[w].full = run[w].full
        /\ run'[w].sources = run[w].sources
    BY <1>0, <1>9 DEF AppendEntry, Runs
  <2>3. ~dirty => run'[w].todo \in Seq(Asked')
    BY <1>0, <1>9, AppendsAsked
  <2> QED
    BY <2>1, <2>2, <2>3 DEF Fresh
<1>10. CASE AnnounceEntries(w)
  BY <1>0, <1>10 DEF AnnounceEntries, Fresh, stateVars, tapeVars, configVars
<1> QED
  BY <1>1, <1>2, <1>3, <1>4, <1>5, <1>6, <1>7, <1>8, <1>9, <1>10 DEF GeneratorStep

LEMMA FreshInvariant ==
  ASSUME NEW u, Workers = {u}, TypeOK, Configured, Marked, Fresh(u), [Next]_vars,
         EditsSpaced \/ UNCHANGED vars, intact'
  PROVE  Fresh(u)'
<1>0. u \in Workers /\ dirty \in BOOLEAN /\ dirty' \in BOOLEAN
  BY StepTyped DEF TypeOK
<1>1. CASE dirty' = TRUE /\ put' # put /\ UNCHANGED <<entries, pc, run>>
  <2>1. ~(run[u].full /\ pc[u] \in Configuring)
    BY <1>0, <1>1 DEF EditsSpaced, vars, apiVars, Configuring
  <2> QED
    BY <1>1, <2>1 DEF Fresh, OnTape
<1>2. CASE UNCHANGED <<cfg, sources>>
  <2>1. Asked \subseteq Asked'
    BY <1>2, DocsGrow DEF Asked, Selected
  <2>2. CASE GeneratorStep(u)
    BY <1>0, <1>2, <2>1, <2>2, FreshStep
  <2>3. CASE pc'[u] \in {"idle", "down", "failed", "release", "released"}
    BY <2>3 DEF Fresh, Configuring
  <2>4. CASE pc'[u] = pc[u] /\ run'[u] = run[u] /\ ~GeneratorStep(u)
    <3>1. UNCHANGED dirty \/ dirty' = TRUE
      BY <2>4, StepOnFlag DEF GeneratorStep
    <3>2. Seq(Asked) \subseteq Seq(Asked')
      BY <2>1, SeqDef
    <3>3. OnTape' \subseteq OnTape
      BY <2>4, StepOnTape, Shrinks DEF OnTape, GeneratorStep
    <3> HIDE DEF Asked
    <3> QED
      BY <1>0, <1>2, <2>4, <3>1, <3>2, <3>3 DEF Fresh
  <2> QED
    BY <1>0, <2>2, <2>3, <2>4, StepOnRun
<1> QED
  BY <1>1, <1>2, StepOnSettings

LEMMA MatchingInvariant ==
  ASSUME NEW u, Workers = {u}, TypeOK, Configured, Marked, Clean, Fresh(u), Matching,
         [Next]_vars, intact'
  PROVE  Matching'
<1> SUFFICES ASSUME ~dirty', cfg' # NoConfig PROVE OnTape' \subseteq Asked'
  BY DEF Matching
<1>0. u \in Workers
  OBVIOUS
<1>1. UNCHANGED <<cfg, sources>>
  BY StepOnSettings
<1>2. Asked \subseteq Asked'
  BY <1>1, DocsGrow DEF Asked, Selected
<1>3. CASE UNCHANGED dirty
  <2>1. OnTape \subseteq Asked
    BY <1>1, <1>3 DEF Matching
  <2>2. CASE AppendEntry(u)
    BY <1>0, <1>2, <1>3, <2>1, <2>2, AppendsAsked
  <2>3. CASE UNCHANGED entries \/ DeleteAllEntries \/ \E d \in Docs : RemoveEntry(d)
    BY <1>2, <2>1, <2>3, Shrinks DEF OnTape
  <2> QED
    BY <2>2, <2>3, StepOnTape
<1>4. CASE ClearDirty(u)
  <2>1. run[u].full /\ pc[u] = "clear" /\ OnTape' = OnTape
    BY <1>0, <1>4 DEF ClearDirty, Marked, OnTape
  <2>2. OnTape \subseteq Wanted(u)
    BY <1>0, <2>1 DEF Clean
  <2>3. Wanted(u) = Asked
    BY <2>1 DEF Fresh, Configuring, Wanted, Asked
  <2> QED
    BY <1>2, <2>1, <2>2, <2>3
<1>5. CASE ClearUnlocked(u)
  BY <1>5 DEF ClearUnlocked, Fresh, OnTape
<1> QED
  BY <1>3, <1>4, <1>5, StepOnFlag

\* What the inductions below carry along, beside ListInvariant.
ConfigInvariant == intact => Configured /\ Matching /\ \A w \in Workers : Fresh(w)

LEMMA ConfigInductive ==
  ASSUME NEW u, Workers = {u}
  PROVE  EditedSpec => []ConfigInvariant
<1>1. Init => ConfigInvariant
  BY DEF Init, GeneratorInit, ConfigInvariant, Configured, Fresh, Matching, Configuring,
     OnTape, NoEntries
<1>2. ListInvariant /\ ConfigInvariant /\ [Next /\ EditsSpaced]_vars => ConfigInvariant'
  <2> SUFFICES ASSUME ListInvariant, ConfigInvariant, [Next /\ EditsSpaced]_vars, intact'
               PROVE  Configured' /\ Fresh(u)' /\ Matching'
    BY DEF ConfigInvariant
  <2>1. [Next]_vars /\ (EditsSpaced \/ UNCHANGED vars) /\ intact
    BY Lease
  <2>2. TypeOK /\ Clean /\ Marked /\ Configured /\ Fresh(u) /\ Matching
    BY <2>1 DEF ListInvariant, ConfigInvariant
  <2> QED
    BY <2>1, <2>2, ConfiguredInvariant, FreshInvariant, MatchingInvariant
<1>3. EditedSpec => Spec
  BY PTL DEF EditedSpec, Spec
<1> QED
  BY <1>1, <1>2, <1>3, ListInductive, PTL DEF EditedSpec

\* With one worker, and with no step of PUT /config between a rebuild's
\* get_config and its clear_dirty, the next tick picks every change of the
\* configuration up, as long as Redis keeps its data and leases hold: whatever
\* calls fail and whenever the worker dies, nothing of an earlier
\* configuration is on the tape when the flag is clear.
THEOREM ConfigMatched ==
  ASSUME NEW u, Workers = {u}
  PROVE  EditedSpec => [](intact => TapeMatchesConfig)
<1>1. ConfigInvariant => (intact => TapeMatchesConfig)
  BY DEF ConfigInvariant, Matching, TapeMatchesConfig, Asked
<1> QED
  BY <1>1, ConfigInductive, PTL

\* Where runs end before the TTL of their lock and Redis keeps its data, the
\* promise holds without a condition.
THEOREM ConfigAlwaysMatched ==
  ASSUME NEW u, Workers = {u}, Faults \cap {"overrun", "redis"} = {}
  PROVE  EditedSpec => []TapeMatchesConfig
<1>1. Init => intact
  BY DEF Init
<1>2. intact /\ [Next]_vars => intact'
  BY StepOnLease DEF Overrun, RedisLoss, Fault
<1>3. EditedSpec => Spec
  BY PTL DEF EditedSpec, Spec
<1>4. Spec => []intact
  BY <1>1, <1>2, PTL DEF Spec
<1> QED
  BY <1>3, <1>4, ConfigMatched, PTL

=============================================================================
