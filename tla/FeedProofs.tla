----------------------------- MODULE FeedProofs -----------------------------
(***************************************************************************)
(* The service with its event feed implements the service without it, so   *)
(* that every theorem of TapeServiceProofs holds with the feed beside it;  *)
(* and what is announced has been added.                                   *)
(***************************************************************************)
EXTENDS TapeFeed, TapeListProofs

\* Each kind of step of the feed, seen from the service.
LEMMA SocketSteps ==
  ASSUME NEW c \in Sockets,
         Accept(c) \/ Subscribe(c) \/ Leave(c) \/ HandlerRaises(c) \/ Close(c)
  PROVE  UNCHANGED vars
<1>1. CASE Accept(c) BY <1>1 DEF Accept
<1>2. CASE Subscribe(c) BY <1>2 DEF Subscribe
<1>3. CASE Leave(c) BY <1>3 DEF Leave
<1>4. CASE HandlerRaises(c) BY <1>4 DEF HandlerRaises
<1>5. CASE Close(c) BY <1>5 DEF Close
<1> QED BY <1>1, <1>2, <1>3, <1>4, <1>5

LEMMA PublishKeeps ==
  ASSUME NEW frame, Publish(frame)
  PROVE  UNCHANGED vars
BY DEF Publish

LEMMA FeedSteps ==
  ASSUME [FeedNext]_<<vars, feedVars>>
  PROVE  [Next]_vars
<1>1. CASE UNCHANGED <<vars, feedVars>> BY <1>1
<1>2. ASSUME NEW w \in Workers, Generate(w) PROVE Next
  <2>1. WorkerStep(w) \/ StopStep(w) BY <1>2 DEF Generate
  <2> QED BY <2>1 DEF Next
<1>3. ASSUME NEW w \in Workers, PublishOwed(w) PROVE UNCHANGED vars
  BY <1>3, PublishKeeps DEF PublishOwed
<1>4. ASSUME NEW w \in Workers, GenerateFails(w) \/ ListenFails(w) PROVE Next
  <2>1. CallFails(w) BY <1>4 DEF GenerateFails, ListenFails
  <2> QED BY <2>1 DEF Next
<1>5. ASSUME NEW w \in Workers, Listen(w) PROVE Next
  <2>1. ThreadStep(w) BY <1>5 DEF Listen
  <2> QED BY <2>1 DEF Next
<1>6. ASSUME NEW w \in Workers, Die(w) PROVE Next
  <2>1. Crash(w) BY <1>6 DEF Die
  <2> QED BY <2>1 DEF Next
<1>7. ASSUME NEW e \in Editors, QueueRun(e) PROVE Next
  <2>1. FinishPut(e) BY <1>7 DEF QueueRun
  <2> QED BY <2>1 DEF Next
<1>8. ASSUME NEW s \in Scorers, ScoreDone(s) PROVE Next
  <2>1. FinishPost(s) BY <1>8 DEF ScoreDone
  <2> QED BY <2>1 DEF Next
<1>9. ASSUME NEW d \in Docs, Filter(d) PROVE Next
  <2>1. FilterScored(d) /\ UNCHANGED <<generatorVars, faultVars>> BY <1>9 DEF Filter
  <2>2. Environment BY <2>1 DEF Environment
  <2> QED BY <2>2 DEF Next
<1>10. ASSUME NEW p \in Publishers, PublishReply(p) PROVE UNCHANGED vars
  BY <1>10, PublishKeeps DEF PublishReply
<1>11. ASSUME NEW p \in Publishers, ReplyLost(p) PROVE UNCHANGED vars
  BY <1>11 DEF ReplyLost
<1>12. CASE Quietly(Environment /\ UNCHANGED <<entries, reply>> /\ SlotsFree)
  <2>1. Environment BY <1>12 DEF Quietly
  <2> QED BY <2>1 DEF Next
<1>13. ASSUME NEW w \in Workers, Quietly(Restart(w)) \/ Quietly(Shutdown(w)) PROVE Next
  <2>1. Restart(w) \/ Shutdown(w) BY <1>13 DEF Quietly
  <2> QED BY <2>1 DEF Next
<1>14. CASE Quietly(TtlElapses) \/ Quietly(RequestFails)
  <2>1. TtlElapses \/ RequestFails BY <1>14 DEF Quietly
  <2> QED BY <2>1 DEF Next
<1> QED
  BY <1>1, <1>2, <1>3, <1>4, <1>5, <1>6, <1>7, <1>8, <1>9, <1>10, <1>11, <1>12,
     <1>13, <1>14, SocketSteps DEF FeedNext

\* With the event feed the service is still the service: a publish changes
\* nothing of it, and a publish that raises, in generate_for_user or in tick,
\* is one of the failures it has without the feed.
THEOREM FeedRefines == FeedSpec => ServiceKept
<1>1. Init /\ FeedInit => Init OBVIOUS
<1>2. [FeedNext]_<<vars, feedVars>> => [Next]_vars BY FeedSteps
<1> QED BY <1>1, <1>2, PTL DEF FeedSpec, ServiceKept, Spec

-----------------------------------------------------------------------------
(***************************************************************************)
(* Type correctness.                                                       *)
(***************************************************************************)
SocketTypes ==
  /\ socket \in [Sockets -> {"closed", "accepted", "subscribed", "ending"}]
  /\ gone \in SUBSET Sockets /\ locked \in SUBSET Sockets
  /\ missed \in [Sockets -> SUBSET Docs]
OwedTypes == owed \in [Workers -> Seq(Frames)]
ReplyTypes == reply \in [Publishers -> SUBSET Frames]

LEMMA FrameTyped ==
  /\ \A type \in FrameTypes : Frame(type) \in Frames
  /\ \A d \in Docs : Added(d) \in Frames /\ Removed(d) \in Frames
BY DEF Frame, Added, Removed, Frames, FrameTypes

LEMMA DueTyped == \A place : Due(place) \in Seq(Frames)
BY FrameTyped DEF Due, FrameTypes

LEMMA NewsTyped ==
  ASSUME TypeOK, NEW w \in Workers
  PROVE  News(w) \in Seq(Frames)
<1>1. run[w].todo \in Seq(Docs)
  BY DEF TypeOK, Runs
<1>2. CASE run[w].todo # <<>>
  <2>1. Head(run[w].todo) \in Docs BY <1>1, <1>2
  <2> QED BY <2>1, FrameTyped DEF News
<1>3. CASE run[w].todo = <<>> BY <1>3 DEF News
<1> QED BY <1>2, <1>3

LEMMA OverlookTyped ==
  ASSUME SocketTypes, Overlook
  PROVE  SocketTypes'
BY DEF SocketTypes, Overlook, OnTape

LEMMA PublishTyped ==
  ASSUME SocketTypes, NEW frame, Publish(frame)
  PROVE  SocketTypes'
BY DEF SocketTypes, Publish, Forward

LEMMA SocketTyped ==
  ASSUME FeedTypeOK, NEW c \in Sockets,
         Accept(c) \/ Subscribe(c) \/ Leave(c) \/ HandlerRaises(c) \/ Close(c)
  PROVE  FeedTypeOK'
BY DEF FeedTypeOK, Accept, Subscribe, Leave, HandlerRaises, Close, Forget

\* A step of a generator, whether it succeeds or not.
LEMMA GeneratorFeeds ==
  ASSUME TypeOK, FeedTypeOK, NEW w \in Workers,
         Generate(w) \/ PublishOwed(w) \/ GenerateFails(w) \/ Die(w)
  PROVE  FeedTypeOK'
<1> USE DEF FeedTypeOK, OwedTypes, ReplyTypes
<1>0. OwedTypes /\ ReplyTypes /\ SocketTypes /\ w \in Publishers
  BY DEF SocketTypes, Publishers
<1>1. CASE Generate(w)
  <2>1. owed[w] \o News(w) \o Due(pc'[w]) \in Seq(Frames)
    BY <1>0, NewsTyped, DueTyped
  <2>2. OwedTypes' /\ ReplyTypes'
    BY <1>0, <1>1, <2>1 DEF Generate
  <2> QED
    BY <1>0, <1>1, <2>2, OverlookTyped DEF Generate, SocketTypes
<1>2. CASE PublishOwed(w)
  <2>1. Tail(owed[w]) \in Seq(Frames)
    BY <1>0, <1>2 DEF PublishOwed
  <2>2. OwedTypes' /\ ReplyTypes'
    BY <1>0, <1>2, <2>1 DEF PublishOwed
  <2> QED
    BY <1>0, <1>2, <2>2, PublishTyped DEF PublishOwed, SocketTypes
<1>3. CASE GenerateFails(w)
  <2>1. OwedTypes' /\ ReplyTypes'
    BY <1>0, <1>3, DueTyped DEF GenerateFails
  <2> QED
    BY <1>0, <1>3, <2>1, OverlookTyped DEF GenerateFails, SocketTypes
<1>4. CASE Die(w)
  <2>1. OwedTypes' /\ ReplyTypes'
    BY <1>0, <1>4 DEF Die, Replied
  <2> QED
    BY <1>0, <1>4, <2>1, OverlookTyped DEF Die, SocketTypes
<1> QED
  BY <1>1, <1>2, <1>3, <1>4

\* A step of a listener thread or of a request.
LEMMA ReplyFeeds ==
  ASSUME TypeOK, FeedTypeOK, NEW p \in Publishers, NEW frames,
         frames \subseteq Frames, Reply(p, frames), Overlook, UNCHANGED owed
  PROVE  FeedTypeOK'
<1>1. SocketTypes'
  BY OverlookTyped DEF FeedTypeOK, SocketTypes
<1>2. reply' \in [Publishers -> SUBSET Frames]
  BY DEF FeedTypeOK, Reply
<1> QED
  BY <1>1, <1>2 DEF FeedTypeOK, SocketTypes

LEMMA OthersFeed ==
  ASSUME TypeOK, FeedTypeOK,
         \/ \E w \in Workers : Listen(w) \/ ListenFails(w)
         \/ \E e \in Editors : QueueRun(e)
         \/ \E s \in Scorers : ScoreDone(s)
         \/ \E d \in Docs : Filter(d)
         \/ \E p \in Publishers : PublishReply(p) \/ ReplyLost(p)
  PROVE  FeedTypeOK'
<1>1. ASSUME NEW w \in Workers, Listen(w) PROVE FeedTypeOK'
  <2>1. {Removed(d) : d \in OnTape \ OnTape'} \subseteq Frames
    BY FrameTyped DEF OnTape
  <2> QED
    BY <1>1, <2>1, ReplyFeeds DEF Listen, Publishers
<1>2. ASSUME NEW w \in Workers, ListenFails(w) PROVE FeedTypeOK'
  BY <1>2, OverlookTyped DEF ListenFails, FeedTypeOK, SocketTypes
<1>3. ASSUME NEW e \in Editors, QueueRun(e) PROVE FeedTypeOK'
  <2>1. {Frame("schedule.queued")} \subseteq Frames
    BY FrameTyped DEF FrameTypes
  <2> QED
    BY <1>3, <2>1, ReplyFeeds DEF QueueRun, Publishers
<1>4. ASSUME NEW s \in Scorers, ScoreDone(s) PROVE FeedTypeOK'
  <2>1. post[s] \in Docs
    BY <1>4 DEF ScoreDone, FinishPost, RemoveScored, TypeOK
  <2>2. {Removed(post[s])} \subseteq Frames
    BY <2>1, FrameTyped
  <2> QED
    BY <1>4, <2>2, ReplyFeeds DEF ScoreDone, Publishers
<1>5. ASSUME NEW d \in Docs, Filter(d) PROVE FeedTypeOK'
  <2>1. {Removed(d)} \subseteq Frames
    BY FrameTyped
  <2> QED
    BY <1>5, <2>1, ReplyFeeds DEF Filter, Publishers
<1>6. ASSUME NEW p \in Publishers, PublishReply(p) PROVE FeedTypeOK'
  <2>1. SocketTypes'
    BY <1>6, PublishTyped DEF PublishReply, FeedTypeOK, SocketTypes
  <2> QED
    BY <1>6, <2>1 DEF PublishReply, Replied, FeedTypeOK, SocketTypes
<1>7. ASSUME NEW p \in Publishers, ReplyLost(p) PROVE FeedTypeOK'
  BY <1>7 DEF ReplyLost, Replied, FeedTypeOK
<1> QED
  BY <1>1, <1>2, <1>3, <1>4, <1>5, <1>6, <1>7

LEMMA FeedTyped == TypeOK /\ FeedTypeOK /\ [FeedNext]_<<vars, feedVars>> => FeedTypeOK'
<1> SUFFICES ASSUME TypeOK, FeedTypeOK, [FeedNext]_<<vars, feedVars>> PROVE FeedTypeOK'
  OBVIOUS
<1>1. CASE UNCHANGED <<vars, feedVars>>
  BY <1>1 DEF feedVars, FeedTypeOK
<1>2. CASE \E w \in Workers : Generate(w) \/ PublishOwed(w) \/ GenerateFails(w) \/ Die(w)
  BY <1>2, GeneratorFeeds
<1>3. CASE \/ Quietly(Environment /\ UNCHANGED <<entries, reply>> /\ SlotsFree)
           \/ \E w \in Workers : Quietly(Restart(w)) \/ Quietly(Shutdown(w))
           \/ Quietly(TtlElapses) \/ Quietly(RequestFails)
  BY <1>3, OverlookTyped DEF Quietly, FeedTypeOK, SocketTypes
<1> QED
  BY <1>1, <1>2, <1>3, OthersFeed, SocketTyped DEF FeedNext

\* Every variable of the feed has its type, for any number of workers,
\* sockets, requests and faults.
THEOREM FeedTypeCorrect == FeedSpec => []FeedTypeOK
<1>1. FeedInit => FeedTypeOK
  BY DEF FeedInit, FeedTypeOK
<1>2. FeedSpec => []TypeOK
  BY FeedRefines, TypeCorrect, PTL DEF ServiceKept
<1> QED
  BY <1>1, <1>2, FeedTyped, PTL DEF FeedSpec

-----------------------------------------------------------------------------
(***************************************************************************)
(* What is announced has been added.  A document leaves the tape for a     *)
(* wipe, and a run that is about to wipe has nothing left to announce, or  *)
(* because it has been scored.                                             *)
(***************************************************************************)
Says(frames) == {frames[i] : i \in DOMAIN frames}
Announced == \A w \in Workers, d \in Docs : Added(d) \in Says(owed[w]) => d \in OnTape \cup Scored

LEMMA SaysBoth ==
  ASSUME NEW S, NEW s \in Seq(S), NEW t \in Seq(S)
  PROVE  Says(s \o t) \subseteq Says(s) \cup Says(t)
BY DEF Says

LEMMA SaysRest ==
  ASSUME NEW S, NEW s \in Seq(S), s # <<>>
  PROVE  Says(Tail(s)) \subseteq Says(s)
BY DEF Says

LEMMA DueSays == \A place, d : Added(d) \notin Says(Due(place))
BY DEF Due, Says, Added, Frame

\* A step that is not a generator's takes only scored documents off the tape.
LEMMA OnlyScoredLeave ==
  ASSUME TypeOK, Known, [Next]_vars,
         \/ UNCHANGED entries
         \/ \E d \in Scored : RemoveEntry(d)
         \/ \E w \in Workers : AppendEntry(w)
  PROVE  OnTape \cup Scored \subseteq OnTape' \cup Scored'
<1>1. Scored \subseteq Scored'
  BY ScoresGrow DEF Scored
<1>2. entries \in [Docs -> Nat \cup {Absent}]
  BY DEF TypeOK
<1>3. CASE UNCHANGED entries
  BY <1>1, <1>3 DEF OnTape
<1>4. ASSUME NEW d \in Scored, RemoveEntry(d)
      PROVE  OnTape \cup Scored \subseteq OnTape' \cup Scored'
  BY <1>1, <1>2, <1>4 DEF OnTape, RemoveEntry
<1>5. ASSUME NEW w \in Workers, AppendEntry(w)
      PROVE  OnTape \cup Scored \subseteq OnTape' \cup Scored'
  <2>1. run[w].pos \in Nat
    BY DEF TypeOK, Runs
  <2> QED
    BY <1>1, <1>2, <1>5, <2>1 DEF OnTape, AppendEntry, AddEntry, Absent
<1> QED
  BY <1>3, <1>4, <1>5

LEMMA GenerateAnnounces ==
  ASSUME NEW w, Workers = {w}, TypeOK, Known, FeedTypeOK, Announced, [Next]_vars,
         Generate(w)
  PROVE  Announced'
<1> SUFFICES ASSUME NEW d \in Docs, Added(d) \in Says(owed'[w])
             PROVE  d \in OnTape' \cup Scored'
  BY DEF Announced
<1>0. /\ owed[w] \in Seq(Frames) /\ owed \in [Workers -> Seq(Frames)]
      /\ News(w) \in Seq(Frames) /\ Due(pc'[w]) \in Seq(Frames)
  BY NewsTyped, DueTyped DEF FeedTypeOK
<1>1. owed'[w] = (owed[w] \o News(w)) \o Due(pc'[w])
  BY <1>0 DEF Generate
<1>2. Added(d) \in Says(owed[w]) \cup Says(News(w))
  <2>1. owed[w] \o News(w) \in Seq(Frames)
    BY <1>0
  <2>2. Added(d) \in Says(owed[w] \o News(w))
    BY <1>0, <1>1, <2>1, SaysBoth, DueSays
  <2> QED
    BY <1>0, <2>2, SaysBoth
<1>3. CASE pc[w] # "append"
  BY <1>2, <1>3 DEF Generate, News, Says
<1>4. CASE pc[w] = "append"
  <2>1. AppendEntry(w) \/ UNCHANGED entries
    BY <1>4 DEF Generate, WorkerStep, GeneratorStep, ListUsers, ReadConfig, ReadSources,
       WipeUnlocked, ClearUnlocked, AcquireLock, WipeTape, MeasureTape, ListExisting,
       QueryCandidates, AnnounceEntries, ClearDirty, FinishRun, ReleaseLock,
       AnnounceRelease, StopStep, PoolClosed, GeneratorExit, stateVars, tapeVars
  <2>2. CASE Added(d) \in Says(owed[w])
    BY <2>1, <2>2, OnlyScoredLeave DEF Announced
  <2>3. CASE Added(d) \in Says(News(w))
    <3>1. run[w].todo # <<>> /\ d = Head(run[w].todo)
      BY <2>3 DEF News, Says, Added
    <3>2. AppendEntry(w)
      BY <1>4, <3>1 DEF Generate, WorkerStep, GeneratorStep, ListUsers, ReadConfig,
         ReadSources, WipeUnlocked, ClearUnlocked, AcquireLock, WipeTape, MeasureTape,
         ListExisting, QueryCandidates, AnnounceEntries, ClearDirty, FinishRun,
         ReleaseLock, AnnounceRelease, StopStep, PoolClosed, GeneratorExit
    <3>3. run[w].pos \in Nat /\ entries \in [Docs -> Nat \cup {Absent}]
      BY DEF TypeOK, Runs
    <3>4. d \in OnTape'
      BY <3>1, <3>2, <3>3 DEF AppendEntry, AddEntry, OnTape, Absent
    <3> QED
      BY <3>4
  <2> QED
    BY <1>2, <2>2, <2>3
<1> QED
  BY <1>3, <1>4

\* Whoever else takes a step leaves a generator no more to announce.
LEMMA OthersAnnounce ==
  ASSUME NEW w, Workers = {w}, TypeOK, Known, FeedTypeOK, Announced, [Next]_vars,
         owed'[w] = owed[w],
         UNCHANGED entries \/ \E d \in Scored : RemoveEntry(d)
  PROVE  Announced'
<1>1. OnTape \cup Scored \subseteq OnTape' \cup Scored'
  BY OnlyScoredLeave
<1> QED
  BY <1>1 DEF Announced

LEMMA AnnouncedStep ==
  ASSUME NEW u, Workers = {u}, TypeOK, Known, FeedTypeOK, Announced,
         [FeedNext]_<<vars, feedVars>>
  PROVE  Announced'
<1> USE DEF stateVars, tapeVars, generatorVars
<1>0. [Next]_vars
  BY FeedSteps
<1>1. CASE UNCHANGED <<vars, feedVars>>
  BY <1>0, <1>1, OthersAnnounce DEF vars, feedVars
<1>2. ASSUME NEW w \in Workers, Generate(w) PROVE Announced'
  BY <1>0, <1>2, GenerateAnnounces
<1>3. ASSUME NEW w \in Workers, PublishOwed(w) PROVE Announced'
  <2>1. owed[w] \in Seq(Frames) /\ owed[w] # <<>> /\ owed'[w] = Tail(owed[w])
    BY <1>3 DEF PublishOwed, FeedTypeOK
  <2>2. Says(owed'[w]) \subseteq Says(owed[w])
    BY <2>1, SaysRest
  <2>3. UNCHANGED <<OnTape, Scored>>
    BY <1>3, PublishKeeps DEF PublishOwed, vars, platformVars, OnTape, Scored
  <2> QED
    BY <2>2, <2>3 DEF Announced
<1>4. ASSUME NEW w \in Workers, GenerateFails(w) \/ Die(w) PROVE Announced'
  <2>1. \A d : Added(d) \notin Says(owed'[w])
    BY <1>4, DueSays DEF GenerateFails, Die, FeedTypeOK, Says
  <2> QED
    BY <2>1 DEF Announced
<1>5. ASSUME NEW w \in Workers, Listen(w) PROVE Announced'
  <2>1. \A row \in inbox[w] : row[1] \in Scored
    BY DEF Known, TypeOK, Scored
  <2>2. UNCHANGED entries \/ \E d \in Scored : RemoveEntry(d)
    BY <1>5, <2>1 DEF Listen, ThreadStep, ListenerStep, StartListening, HandleNotify
  <2> QED
    BY <1>0, <1>5, <2>2, OthersAnnounce DEF Listen
<1>6. ASSUME NEW w \in Workers, ListenFails(w) PROVE Announced'
  <2>1. UNCHANGED entries
    BY <1>6 DEF ListenFails, CallFails, HandleFails, ConnectionLost, TurnFails, StartFails,
       RunFails, AcquireFails, ReleaseFails
  <2> QED
    BY <1>0, <1>6, <2>1, OthersAnnounce DEF ListenFails
<1>7. ASSUME NEW e \in Editors, QueueRun(e) PROVE Announced'
  BY <1>0, <1>7, OthersAnnounce DEF QueueRun, FinishPut, PutSources
<1>8. ASSUME NEW s \in Scorers, ScoreDone(s) PROVE Announced'
  BY <1>0, <1>8, OthersAnnounce DEF ScoreDone, FinishPost, RemoveScored, Known
<1>9. ASSUME NEW d \in Docs, Filter(d) PROVE Announced'
  BY <1>0, <1>9, OthersAnnounce DEF Filter, FilterScored
<1>10. ASSUME NEW p \in Publishers, PublishReply(p) \/ ReplyLost(p) PROVE Announced'
  BY <1>0, <1>10, PublishKeeps, OthersAnnounce DEF PublishReply, ReplyLost, vars
<1>11. CASE \/ Quietly(Environment /\ UNCHANGED <<entries, reply>> /\ SlotsFree)
            \/ \E w \in Workers : Quietly(Restart(w)) \/ Quietly(Shutdown(w))
            \/ Quietly(TtlElapses) \/ Quietly(RequestFails)
  <2>1. UNCHANGED entries
    BY <1>11 DEF Quietly, Restart, GeneratorRestart, Shutdown, TtlElapses, LockExpires,
       RequestFails, PutAborted, PostAborted
  <2>2. UNCHANGED owed
    BY <1>11 DEF Quietly
  <2> QED
    BY <1>0, <2>1, <2>2, OthersAnnounce
<1>12. ASSUME NEW c \in Sockets,
              Accept(c) \/ Subscribe(c) \/ Leave(c) \/ HandlerRaises(c) \/ Close(c)
       PROVE  Announced'
  BY <1>0, <1>12, SocketSteps, OthersAnnounce
     DEF Accept, Subscribe, Leave, HandlerRaises, Close, vars
<1> QED
  BY <1>1, <1>2, <1>3, <1>4, <1>5, <1>6, <1>7, <1>8, <1>9, <1>10, <1>11, <1>12
     DEF FeedNext

\* With one worker, tape.entry_added is published for what the run has really
\* added: the document is on the tape, or the user has scored it since.
THEOREM AnnouncementsTrue ==
  ASSUME NEW u, Workers = {u}
  PROVE  FeedSpec => []AnnouncedIsThere
<1>1. Init /\ FeedInit => Announced
  BY DEF FeedInit, Announced, Says
<1>2. FeedSpec => [](TypeOK /\ Known)
  <2>1. ListInvariant => TypeOK /\ Known
    BY DEF ListInvariant
  <2> QED
    BY <2>1, ListInductive, FeedRefines, PTL DEF ServiceKept
<1>3. TypeOK /\ Known /\ FeedTypeOK /\ Announced /\ [FeedNext]_<<vars, feedVars>>
        => Announced'
  BY AnnouncedStep
<1>4. Announced => AnnouncedIsThere
  BY DEF Announced, AnnouncedIsThere, Says
<1> QED
  BY <1>1, <1>2, <1>3, <1>4, FeedTypeCorrect, PTL DEF FeedSpec

=============================================================================
