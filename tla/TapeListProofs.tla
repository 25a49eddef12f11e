--------------------------- MODULE TapeListProofs ---------------------------
(***************************************************************************)
(* With one worker, as it is deployed, the service implements the list its *)
(* user is promised (TapeList).                                            *)
(***************************************************************************)
EXTENDS TapeServiceProofs

\* A turn that began as a full one, and has not yet cleared the flag, still
\* finds the flag set; and only such a turn wipes or clears.
Owing == {"listed", "read", "wipe", "unmark", "sourced", "locked", "measured",
        "query", "append", "clear"}
Marked ==
  \A w \in Workers :
    /\ pc[w] \in {"wipe", "unmark", "clear"} => run[w].full
    /\ run[w].full /\ pc[w] \in Owing => dirty

\* Whatever is about to be taken off the tape has been scored.
Known ==
  /\ \A w \in Workers : inbox[w] \subseteq scores
  /\ \A s \in Scorers : post[s] # NoRequest => post[s] \in Scored

\* A step sets the flag, leaves it, clears it as a worker's, or loses Redis.
LEMMA StepOnFlag ==
  ASSUME TypeOK, [Next]_vars, intact'
  PROVE  \/ UNCHANGED dirty
         \/ dirty' = TRUE
         \/ \E w \in Workers : ClearDirty(w) \/ ClearUnlocked(w)
<1> USE DEF stateVars, tapeVars, configVars
<1>1. ASSUME NEW w \in Workers, WorkerStep(w)
      PROVE  UNCHANGED dirty \/ ClearDirty(w) \/ ClearUnlocked(w)
  BY <1>1 DEF WorkerStep, GeneratorStep, ListUsers, ReadConfig, ReadSources,
     WipeUnlocked, AcquireLock, WipeTape, MeasureTape, ListExisting, QueryCandidates,
     AppendEntry, AnnounceEntries, FinishRun, ReleaseLock, AnnounceRelease
<1>2. ASSUME NEW w \in Workers, ThreadStep(w) PROVE UNCHANGED dirty
  BY <1>2 DEF ThreadStep, ListenerStep, StartListening, HandleNotify
<1>3. ASSUME NEW w \in Workers, Failure(w) PROVE UNCHANGED dirty
  BY <1>3 DEF Failure, Restart, Crash, CallFails, StopStep, PoolClosed, GeneratorExit,
     Shutdown, StartFails, GeneratorRestart, GeneratorCrash, TurnFails, RunFails,
     AcquireFails, ReleaseFails, HandleFails, ConnectionLost
<1>4. ASSUME NEW e \in Editors, FinishPut(e) PROVE dirty' = TRUE
  BY <1>4 DEF FinishPut, PutSources, SetConfigSources, SetDirty
<1>5. ASSUME NEW s \in Scorers, FinishPost(s) PROVE UNCHANGED dirty
  BY <1>5 DEF FinishPost, RemoveScored
<1>6. TtlElapses \/ RequestFails => UNCHANGED dirty
  BY DEF TtlElapses, LockExpires, RequestFails, PutAborted, PostAborted
<1>7. Environment => UNCHANGED dirty \/ dirty' = TRUE
  BY DEF Environment, PutConfig, UpsertConfig, InsertScore, PublishDocument,
     FilterScored, ScoreElsewhere
<1>8. UNCHANGED vars => UNCHANGED dirty
  BY DEF vars
<1>9. ~Overrun /\ ~RedisLoss
  BY Lease
<1> QED
  BY <1>1, <1>2, <1>3, <1>4, <1>5, <1>6, <1>7, <1>8, <1>9 DEF Next, Failure

\* A worker's own step keeps what Marked says of it, as long as nobody else
\* clears the flag.
LEMMA MarkedStep ==
  ASSUME TypeOK, [Next]_vars, NEW w \in Workers,
         pc[w] \in {"wipe", "unmark", "clear"} => run[w].full,
         run[w].full /\ pc[w] \in Owing => dirty,
         (UNCHANGED dirty) \/ dirty' = TRUE \/ ClearDirty(w) \/ ClearUnlocked(w)
  PROVE  /\ pc'[w] \in {"wipe", "unmark", "clear"} => run'[w].full
         /\ run'[w].full /\ pc'[w] \in Owing => dirty'
<1> DEFINE Good(p, r, f) ==
      /\ p \in {"wipe", "unmark", "clear"} => r.full
      /\ r.full /\ p \in Owing => f
<1> SUFFICES Good(pc'[w], run'[w], dirty')
  OBVIOUS
<1>0. /\ pc \in [Workers -> Unlocked \cup Locked] /\ run \in [Workers -> Runs]
      /\ dirty \in BOOLEAN /\ run[w] \in Runs
  BY DEF TypeOK
<1>1. CASE ClearDirty(w) \/ ClearUnlocked(w)
  BY <1>0, <1>1 DEF ClearDirty, ClearUnlocked, Goto, EndTurn, Owing
<1>2. CASE (UNCHANGED dirty) \/ dirty' = TRUE
  <2>0. dirty => dirty'
    BY <1>2
  <2>1. CASE pc'[w] = pc[w] /\ run'[w] = run[w]
    BY <2>0, <2>1
  <2>2. CASE pc'[w] \in {"idle", "down", "failed", "release", "released"}
    BY <2>2 DEF Owing
  <2>3. CASE GeneratorStep(w)
    <3> USE <1>0, <2>0 DEF Goto, EndTurn, Owing, Runs
    <3>1. CASE ListUsers(w)
      <4>1. run'[w].full = dirty
        BY <3>1 DEF ListUsers
      <4>2. pc'[w] = "listed" /\ UNCHANGED dirty
        BY <3>1 DEF ListUsers, stateVars, tapeVars, configVars
      <4>3. pc'[w] \notin {"wipe", "unmark", "clear"}
        BY <4>2
      <4> QED
        BY <2>0, <4>1, <4>3, Zenon
    <3>2. CASE ReadConfig(w)
      BY <3>2 DEF ReadConfig
    <3>3. CASE ReadSources(w)
      BY <3>3 DEF ReadSources
    <3>4. CASE WipeUnlocked(w) \/ AcquireLock(w)
      BY <3>4 DEF WipeUnlocked, AcquireLock
    <3>5. CASE WipeTape(w)
      BY <3>5 DEF WipeTape
    <3>6. CASE MeasureTape(w) \/ ListExisting(w)
      <4>1. run'[w].full = run[w].full /\ pc'[w] \in {"measured", "query"}
        BY <3>6 DEF MeasureTape, ListExisting
      <4>2. pc[w] \in Owing
        BY <3>6 DEF MeasureTape, ListExisting
      <4> HIDE DEF Owing
      <4> QED
        BY <2>0, <4>1, <4>2
    <3>7. CASE QueryCandidates(w)
      BY <3>7 DEF QueryCandidates
    <3>8. CASE AppendEntry(w) \/ AnnounceEntries(w)
      BY <3>8 DEF AppendEntry, AnnounceEntries
    <3>9. CASE FinishRun(w) \/ ReleaseLock(w) \/ AnnounceRelease(w)
      BY <3>9 DEF FinishRun, ReleaseLock, AnnounceRelease
    <3> QED
      BY <1>1, <2>3, <3>1, <3>2, <3>3, <3>4, <3>5, <3>6, <3>7, <3>8, <3>9
         DEF GeneratorStep
  <2> QED
    BY <2>1, <2>2, <2>3, StepOnRun
<1> QED
  BY <1>1, <1>2

\* With one worker nobody else clears the flag.
LEMMA MarkedInvariant ==
  ASSUME NEW u, Workers = {u}, TypeOK, Marked, [Next]_vars, intact'
  PROVE  Marked'
<1> SUFFICES ASSUME NEW w \in Workers
             PROVE  /\ pc'[w] \in {"wipe", "unmark", "clear"} => run'[w].full
                    /\ run'[w].full /\ pc'[w] \in Owing => dirty'
  BY DEF Marked
<1>1. (UNCHANGED dirty) \/ dirty' = TRUE \/ ClearDirty(w) \/ ClearUnlocked(w)
  BY StepOnFlag
<1> QED
  BY <1>1, MarkedStep DEF Marked

LEMMA KnownInvariant ==
  ASSUME TypeOK, Known, [Next]_vars
  PROVE  Known'
<1>0. scores \subseteq scores' /\ Scored \subseteq Scored'
  BY ScoresGrow DEF Scored
<1>1. CASE UNCHANGED <<inbox, post>>
  BY <1>0, <1>1 DEF Known
<1>2. ASSUME NEW w \in Workers, HandleNotify(w) \/ HandleFails(w) \/ EndThread(w),
             UNCHANGED post
      PROVE  Known'
  <2>1. \A v \in Workers : inbox'[v] \subseteq inbox[v]
    BY <1>2 DEF HandleNotify, HandleFails, EndThread, TypeOK
  <2> QED
    BY <1>0, <1>2, <2>1 DEF Known
<1>3. ASSUME NEW d \in Docs, NEW r \in Roles, SaveScore(d, r), Notify(<<d, r>>),
             (UNCHANGED post) \/ \E s \in Scorers : post' = [post EXCEPT ![s] = d]
      PROVE  Known'
  <2>1. <<d, r>> \in scores' /\ d \in Scored'
    BY <1>3 DEF SaveScore, Scored
  <2>2. \A v \in Workers : inbox'[v] \subseteq inbox[v] \cup {<<d, r>>}
    BY <1>3 DEF Notify
  <2>3. \A s \in Scorers : post'[s] \in {post[s], d}
    BY <1>3 DEF TypeOK
  <2> QED
    BY <1>0, <2>1, <2>2, <2>3 DEF Known
<1>4. ASSUME NEW s \in Scorers, post' = [post EXCEPT ![s] = NoRequest], UNCHANGED inbox
      PROVE  Known'
  BY <1>0, <1>4 DEF Known, TypeOK
<1> USE DEF apiVars, listenerVars
<1>5. ASSUME NEW w \in Workers, WorkerStep(w) \/ ThreadStep(w) PROVE Known'
  BY <1>1, <1>2, <1>5 DEF WorkerStep, ThreadStep, ListenerStep, StartListening
<1>6. ASSUME NEW w \in Workers, Failure(w) PROVE Known'
  BY <1>1, <1>2, <1>6 DEF Failure, StopStep, Shutdown, Restart, Crash, CallFails,
     ConnectionLost
<1>7. CASE \E e \in Editors : FinishPut(e)
  BY <1>1, <1>7 DEF FinishPut, PutSources
<1>8. CASE \E s \in Scorers : FinishPost(s)
  BY <1>4, <1>8 DEF FinishPost, RemoveScored
<1>9. CASE TtlElapses \/ Overrun \/ RedisLoss
  BY <1>1, <1>9 DEF TtlElapses, Overrun, RedisLoss
<1>10. CASE RequestFails
  BY <1>1, <1>4, <1>10 DEF RequestFails, PutAborted, PostAborted
<1>11. CASE Environment
  <2>1. ASSUME NEW e \in Editors, NEW c \in Configs, NEW S \in SUBSET Sources,
               PutConfig(e, c, S)
        PROVE  Known'
    BY <1>1, <2>1 DEF PutConfig
  <2>2. ASSUME NEW s \in Scorers, NEW d \in Docs, NEW r \in Roles, InsertScore(s, d, r)
        PROVE  Known'
    BY <1>3, <2>2 DEF InsertScore
  <2>3. ASSUME NEW d \in Docs, PublishDocument(d) \/ FilterScored(d) PROVE Known'
    BY <1>1, <2>3 DEF PublishDocument, FilterScored
  <2>4. ASSUME NEW d \in Docs, NEW r \in Roles, ScoreElsewhere(d, r) PROVE Known'
    BY <1>3, <2>4 DEF ScoreElsewhere
  <2> QED
    BY <1>11, <2>1, <2>2, <2>3, <2>4 DEF Environment
<1>12. CASE UNCHANGED vars
  BY <1>1, <1>12 DEF vars
<1> QED
  BY <1>5, <1>6, <1>7, <1>8, <1>9, <1>10, <1>11, <1>12 DEF Next, Failure

-----------------------------------------------------------------------------
(***************************************************************************)
(* Every step of the service is a step of the list, or none of its.        *)
(***************************************************************************)
ListNext == [List!Next]_List!listVars

\* Taking a scored document off the tape.
LEMMA Retires ==
  ASSUME TypeOK, NEW d \in Scored, RemoveEntry(d),
         UNCHANGED <<dirty, scores, pc, run, intact>>
  PROVE  ListNext
<1>1. d \in Docs /\ entries \in [Docs -> Nat \cup {Absent}]
  BY DEF Scored, TypeOK
<1>2. OnTape' = OnTape \ {d}
  BY <1>1 DEF OnTape, RemoveEntry
<1>3. Order' = Order \cap (OnTape' \X OnTape')
  BY <1>1, <1>2 DEF Order, OnTape, RemoveEntry
<1>4. UNCHANGED Scored /\ UNCHANGED BeingFilled
  BY DEF Scored, BeingFilled, Filling
<1>5. CASE d \in OnTape
  <2>1. List!Retire(d)
    BY <1>2, <1>3, <1>4, <1>5 DEF List!Retire
  <2> QED
    BY <1>1, <2>1 DEF ListNext, List!Next
<1>6. CASE d \notin OnTape
  <2>1. entries' = entries
    BY <1>1, <1>6 DEF OnTape, RemoveEntry
  <2> QED
    BY <1>4, <2>1 DEF ListNext, List!listVars, OnTape, Order
<1> QED
  BY <1>5, <1>6

\* Scoring a document.
LEMMA Scores ==
  ASSUME TypeOK, NEW d \in Docs, NEW r \in Roles, SaveScore(d, r),
         UNCHANGED <<dirty, entries, pc, run, intact>>
  PROVE  ListNext
<1>1. Scored' = Scored \cup {d}
  BY DEF SaveScore, Scored
<1>2. UNCHANGED <<OnTape, Order, BeingFilled>>
  BY DEF OnTape, Order, BeingFilled, Filling
<1> QED
  BY <1>1, <1>2 DEF ListNext, List!Next, List!Score

\* A step that leaves tape, flag and scores alone and fills nothing new.
LEMMA Stutters ==
  ASSUME UNCHANGED <<dirty, entries, scores, intact>>, BeingFilled' => BeingFilled
  PROVE  ListNext
<1>1. UNCHANGED <<OnTape, Order, Scored>>
  BY DEF OnTape, Order, Scored
<1>2. CASE BeingFilled /\ ~BeingFilled'
  BY <1>1, <1>2 DEF ListNext, List!Next, List!GiveUp
<1>3. CASE BeingFilled' = BeingFilled
  BY <1>1, <1>3 DEF ListNext, List!listVars
<1> QED
  BY <1>2, <1>3 DEF BeingFilled

\* A ZADD.
LEMMA Arrives ==
  ASSUME TypeOK, Ahead, NEW w \in Workers, AppendEntry(w),
         UNCHANGED <<dirty, scores, intact>>
  PROVE  ListNext
<1>1. /\ run[w].pos \in Nat
      /\ \A d \in Docs : entries[d] < run[w].pos
      /\ entries \in [Docs -> Nat \cup {Absent}]
  BY AppendsBehind DEF TypeOK
<1>2. UNCHANGED Scored /\ UNCHANGED BeingFilled
  <2>1. \A v \in Workers : run'[v].full = run[v].full
    BY DEF AppendEntry, TypeOK, Runs
  <2>2. pc' = pc
    BY DEF AppendEntry
  <2>3. \A v \in Workers : Filling(v)' <=> Filling(v)
    BY <2>1, <2>2 DEF Filling
  <2> QED
    BY <2>3 DEF Scored, BeingFilled
<1>3. CASE entries' = entries
  BY <1>2, <1>3 DEF ListNext, List!listVars, OnTape, Order
<1>4. ASSUME NEW d \in Docs, entries[d] = Absent, entries' = [entries EXCEPT ![d] = run[w].pos]
      PROVE  ListNext
  <2>1. OnTape' = OnTape \cup {d} /\ d \notin OnTape
    BY <1>1, <1>4 DEF OnTape, Absent
  <2>2. \A e \in OnTape : entries'[e] = entries[e] /\ entries'[e] < entries'[d]
    BY <1>1, <1>4 DEF OnTape
  <2>3. Order' = Order \cup (OnTape \X {d})
    BY <1>1, <1>4, <2>1, <2>2 DEF Order, OnTape
  <2> QED
    BY <1>2, <2>1, <2>3 DEF ListNext, List!Next, List!Arrive
<1>5. \E d \in Docs :
        \/ entries' = entries
        \/ /\ entries[d] = Absent
           /\ entries' = [entries EXCEPT ![d] = run[w].pos]
  <2>1. run[w].todo \in Seq(Docs) /\ run[w].todo # <<>>
    BY DEF TypeOK, Runs, AppendEntry
  <2>2. Head(run[w].todo) \in Docs
    BY <2>1
  <2> QED
    BY <2>2 DEF AppendEntry, AddEntry
<1> QED
  BY <1>3, <1>4, <1>5

\* The step of the only worker.
LEMMA WorkerRefines ==
  ASSUME NEW w, Workers = {w}, TypeOK, Ahead, Clean, Marked, GeneratorStep(w),
         UNCHANGED intact
  PROVE  ListNext
<1> USE DEF Goto, EndTurn
<1>0. /\ pc \in [Workers -> Unlocked \cup Locked] /\ run \in [Workers -> Runs]
      /\ w \in Workers /\ run[w] \in Runs
      /\ BeingFilled <=> Filling(w)
      /\ BeingFilled' <=> Filling(w)'
  BY DEF TypeOK, BeingFilled
<1>1. CASE \/ ListUsers(w) \/ ReadConfig(w) \/ ReadSources(w) \/ AcquireLock(w)
           \/ FinishRun(w) \/ ReleaseLock(w) \/ AnnounceRelease(w)
  <2>1. UNCHANGED <<dirty, entries, scores>>
    BY <1>1 DEF ListUsers, ReadConfig, ReadSources, AcquireLock, FinishRun,
       ReleaseLock, AnnounceRelease, stateVars, tapeVars, configVars, platformVars
  <2>2. pc'[w] \notin {"query", "append", "clear", "unmark"}
    BY <1>0, <1>1 DEF ListUsers, ReadConfig, ReadSources, AcquireLock, FinishRun,
       ReleaseLock, AnnounceRelease
  <2> QED
    BY <1>0, <2>1, <2>2, Stutters DEF Filling
<1>2. CASE MeasureTape(w) \/ ListExisting(w) \/ QueryCandidates(w) \/ AnnounceEntries(w)
  <2>1. UNCHANGED <<dirty, entries, scores>>
    BY <1>2 DEF MeasureTape, ListExisting, QueryCandidates, AnnounceEntries,
       stateVars, tapeVars, configVars, platformVars
  <2>2. run'[w].full = run[w].full /\ pc'[w] # "unmark"
    BY <1>0, <1>2 DEF MeasureTape, ListExisting, QueryCandidates, AnnounceEntries, Runs
  <2>3. \/ ~run[w].full
        \/ pc[w] \in {"query", "append"}
        \/ pc[w] = "measured"
    BY <1>2 DEF MeasureTape, ListExisting, QueryCandidates, AnnounceEntries
  <2>4. ~run[w].full \/ pc[w] \in {"query", "append"}
    BY <1>0, <2>3 DEF Clean
  <2> QED
    BY <1>0, <2>1, <2>2, <2>4, Stutters DEF Filling
<1>3. CASE AppendEntry(w)
  <2>1. UNCHANGED <<dirty, scores>>
    BY <1>3 DEF AppendEntry, configVars, platformVars
  <2> QED
    BY <1>0, <1>3, <2>1, Arrives
<1>4. CASE WipeTape(w) \/ WipeUnlocked(w)
  <2>1. /\ entries' = NoEntries
        /\ UNCHANGED <<dirty, scores>>
    BY <1>4 DEF WipeTape, WipeUnlocked, DeleteAllEntries, configVars, platformVars
  <2>2. OnTape' = {} /\ Order' = {} /\ UNCHANGED Scored
    BY <2>1 DEF OnTape, Order, NoEntries, Scored
  <2>3. pc[w] \in {"locked", "wipe"} /\ run[w].full
    BY <1>0, <1>4 DEF WipeTape, WipeUnlocked, Marked
  <2>4. dirty = TRUE
    BY <1>0, <2>3 DEF Marked, Owing, TypeOK
  <2>5. Filling(w)'
    <3>1. CASE WipeTape(w)
      BY <1>0, <2>3, <3>1 DEF WipeTape, Filling, Runs
    <3>2. CASE WipeUnlocked(w)
      BY <1>0, <3>2 DEF WipeUnlocked, Filling
    <3> QED
      BY <1>4, <3>1, <3>2
  <2>6. BeingFilled' = TRUE
    BY <2>5 DEF BeingFilled
  <2>7. ~BeingFilled
    BY <1>0, <2>3 DEF Filling
  <2>8. List!ThrowAway
    BY <2>1, <2>2, <2>4, <2>6, <2>7 DEF List!ThrowAway
  <2> QED
    BY <2>8 DEF ListNext, List!Next
<1>5. CASE ClearDirty(w) \/ ClearUnlocked(w)
  <2>1. UNCHANGED <<entries, scores>> /\ dirty' = FALSE
    BY <1>5 DEF ClearDirty, ClearUnlocked, SetDirty, platformVars
  <2>2. UNCHANGED <<OnTape, Order, Scored>>
    BY <2>1 DEF OnTape, Order, Scored
  <2>3. pc[w] \in {"clear", "unmark"} /\ pc'[w] \in {"finish", "idle"}
    BY <1>0, <1>5 DEF ClearDirty, ClearUnlocked
  <2>4. BeingFilled
    BY <1>0, <2>3 DEF Filling, Marked
  <2>5. BeingFilled' = FALSE
    BY <1>0, <2>3 DEF BeingFilled, Filling
  <2>6. List!Complete
    BY <2>1, <2>2, <2>4, <2>5 DEF List!Complete
  <2> QED
    BY <2>6 DEF ListNext, List!Next
<1> QED
  BY <1>1, <1>2, <1>3, <1>4, <1>5 DEF GeneratorStep

\* PUT /config.
LEMMA Requests ==
  ASSUME dirty' = TRUE, UNCHANGED <<entries, scores, pc, run, intact>>
  PROVE  ListNext
<1>1. UNCHANGED <<OnTape, Order, Scored, BeingFilled>>
  BY DEF OnTape, Order, Scored, BeingFilled, Filling
<1> QED
  BY <1>1 DEF ListNext, List!Next, List!Request

\* What the induction below carries along.
ListInvariant == TypeOK /\ Known /\ (intact => LockHeld /\ Ahead /\ Clean /\ Marked)

\* A step under which leases hold.
LEMMA StepRefines ==
  ASSUME NEW u, Workers = {u}, TypeOK, Known, Ahead, Clean, Marked, [Next]_vars, intact'
  PROVE  ListNext
<1> USE DEF generatorVars, faultVars, stateVars, tapeVars, configVars, platformVars
<1>0. UNCHANGED intact
  BY Lease DEF TypeOK
<1>1. ASSUME NEW w \in Workers, WorkerStep(w) PROVE ListNext
  BY <1>0, <1>1, WorkerRefines DEF WorkerStep
<1>2. ASSUME NEW w \in Workers, ThreadStep(w) PROVE ListNext
  <2>1. CASE StartListening(w)
    <3>1. UNCHANGED <<dirty, entries, scores, intact, BeingFilled>>
      BY <1>2, <2>1 DEF ThreadStep, StartListening, BeingFilled, Filling
    <3> QED
      BY <3>1, Stutters
  <2>2. CASE HandleNotify(w)
    <3>1. PICK row \in inbox[w] : RemoveEntry(row[1])
      BY <2>2 DEF HandleNotify
    <3>2. row \in scores /\ row \in Docs \X Roles
      BY DEF Known, TypeOK
    <3>3. row[1] \in Scored
      BY <3>2 DEF Scored
    <3>4. UNCHANGED <<dirty, scores, pc, run, intact>>
      BY <1>2, <2>2 DEF ThreadStep, HandleNotify
    <3> QED
      BY <3>1, <3>3, <3>4, Retires
  <2> QED
    BY <1>2, <2>1, <2>2 DEF ThreadStep, ListenerStep
<1>3. ASSUME NEW w \in Workers, Failure(w) PROVE ListNext
  <2>1. UNCHANGED <<dirty, entries, scores>>
    BY <1>3 DEF Failure, Restart, Crash, CallFails, StopStep, PoolClosed, GeneratorExit,
       Shutdown, StartFails, GeneratorRestart, GeneratorCrash, TurnFails, RunFails,
       AcquireFails, ReleaseFails, HandleFails, ConnectionLost
  <2>2. \/ UNCHANGED <<pc, run>>
        \/ pc'[w] \in {"idle", "down", "failed", "release", "released"}
    BY <1>3 DEF Failure, Restart, Crash, CallFails, StopStep, PoolClosed, GeneratorExit,
       Shutdown, StartFails, GeneratorRestart, GeneratorCrash, TurnFails, RunFails,
       AcquireFails, ReleaseFails, HandleFails, ConnectionLost, Goto, EndTurn, TypeOK
  <2>3. BeingFilled' => BeingFilled
    BY <2>2 DEF BeingFilled, Filling
  <2> QED
    BY <1>0, <2>1, <2>3, Stutters
<1>4. ASSUME NEW e \in Editors, FinishPut(e) PROVE ListNext
  BY <1>0, <1>4, Requests DEF FinishPut, PutSources, SetConfigSources, SetDirty
<1>5. ASSUME NEW s \in Scorers, FinishPost(s) PROVE ListNext
  <2>1. post[s] \in Scored /\ RemoveEntry(post[s])
    BY <1>5 DEF FinishPost, RemoveScored, Known
  <2>2. UNCHANGED <<dirty, scores, pc, run, intact>>
    BY <1>5 DEF FinishPost, RemoveScored
  <2> QED
    BY <2>1, <2>2, Retires
<1>6. CASE TtlElapses \/ RequestFails \/ UNCHANGED vars
  <2>1. UNCHANGED <<dirty, entries, scores, pc, run>>
    BY <1>6 DEF TtlElapses, LockExpires, RequestFails, PutAborted, PostAborted, vars
  <2>2. UNCHANGED BeingFilled
    BY <2>1 DEF BeingFilled, Filling
  <2> QED
    BY <1>0, <2>1, <2>2, Stutters
<1>7. CASE Environment
  <2>0. UNCHANGED <<pc, run>>
    BY <1>7 DEF Environment
  <2>1. ASSUME NEW e \in Editors, NEW c \in Configs, NEW S \in SUBSET Sources,
               PutConfig(e, c, S)
        PROVE  ListNext
    BY <1>0, <2>0, <2>1, Requests DEF PutConfig, UpsertConfig
  <2>2. ASSUME NEW d \in Docs, NEW r \in Roles,
               ScoreElsewhere(d, r) \/ \E s \in Scorers : InsertScore(s, d, r)
        PROVE  ListNext
    <3>1. SaveScore(d, r) /\ UNCHANGED <<dirty, entries>>
      BY <2>2 DEF ScoreElsewhere, InsertScore
    <3> QED
      BY <1>0, <2>0, <3>1, Scores
  <2>3. ASSUME NEW d \in Docs, PublishDocument(d) PROVE ListNext
    <3>1. UNCHANGED <<dirty, entries, scores, BeingFilled>>
      BY <2>0, <2>3 DEF PublishDocument, BeingFilled, Filling
    <3> QED
      BY <1>0, <3>1, Stutters
  <2>4. ASSUME NEW d \in Docs, FilterScored(d) PROVE ListNext
    <3>1. d \in Scored /\ RemoveEntry(d) /\ UNCHANGED <<dirty, scores>>
      BY <2>4 DEF FilterScored
    <3> QED
      BY <1>0, <2>0, <3>1, Retires
  <2> QED
    BY <1>7, <2>1, <2>2, <2>3, <2>4 DEF Environment
<1>8. ~Overrun /\ ~RedisLoss
  BY Lease
<1> QED
  BY <1>1, <1>2, <1>3, <1>4, <1>5, <1>6, <1>7, <1>8 DEF Next, Failure

LEMMA ListInductive ==
  ASSUME NEW u, Workers = {u}
  PROVE  Spec => []ListInvariant
<1>1. Init => Known /\ Clean /\ Marked
  BY DEF Init, GeneratorInit, ListenerInit, ApiInit, Known, Clean, Marked, BlankRun, Owing
<1>2. Positions /\ ListInvariant /\ [Next]_vars => ListInvariant'
  <2> SUFFICES ASSUME Positions, ListInvariant, [Next]_vars PROVE ListInvariant'
    OBVIOUS
  <2>1. Positions' /\ Known'
    BY PositionsStep, KnownInvariant DEF ListInvariant
  <2>2. ASSUME intact' PROVE Clean' /\ Marked'
    BY <2>2, Lease, CleanInvariant, MarkedInvariant DEF ListInvariant
  <2> QED
    BY <2>1, <2>2 DEF ListInvariant, Positions
<1>3. Positions /\ Known /\ Clean /\ Marked => ListInvariant
  BY DEF Positions, ListInvariant
<1> QED
  BY <1>1, <1>2, <1>3, PositionsInvariant, PTL DEF Spec

\* With one worker, as DEPLOY.md has it, the tape is the list its user is
\* promised: every step of the service is a step of that list or changes
\* nothing of it.
THEOREM ListImplemented ==
  ASSUME NEW u, Workers = {u}
  PROVE  Spec => ListKept
<1>1. Init => List!Init
  BY DEF Init, GeneratorInit, List!Init, OnTape, NoEntries, Order, Scored, BeingFilled,
     Filling
<1>2. ListInvariant /\ [Next]_vars => [List!Next]_List!listVars
  <2> SUFFICES ASSUME ListInvariant, [Next]_vars PROVE ListNext
    BY DEF ListNext
  <2>1. CASE intact'
    BY <2>1, Lease, StepRefines DEF ListInvariant
  <2>2. CASE ~intact'
    BY <2>2 DEF ListNext, List!Next
  <2> QED
    BY <2>1, <2>2
<1> QED
  BY <1>1, <1>2, ListInductive, PTL DEF Spec, ListKept, List!Spec

\* With one worker a rebuild that has emptied the tape leaves the dirty flag
\* set until everything is appended.
THEOREM RebuildMarked ==
  ASSUME NEW u, Workers = {u}
  PROVE  Spec => []RebuildStaysMarked
<1>1. ListInvariant => RebuildStaysMarked
  BY DEF ListInvariant, Marked, Owing, RebuildStaysMarked
<1> QED
  BY <1>1, ListInductive, PTL
=============================================================================
