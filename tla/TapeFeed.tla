------------------------------ MODULE TapeFeed ------------------------------
(***************************************************************************)
(* The event feed of one user beside the rest of the service: the frames   *)
(* that generators, listener threads and requests publish after what they  *)
(* do, and the sockets of GET /ws that forward them.  Redis keeps no       *)
(* frame: who is not subscribed when a frame is published never gets it.   *)
(* A subscriber gets its frames in the order of the calls to PUBLISH; the  *)
(* delay on the way is left out.                                           *)
(*                                                                         *)
(* In the code a publish is a call of its own, with room for every other   *)
(* client before it: a step here leaves what its process publishes next in *)
(* owed or reply, and the process goes on when it has published it.  What  *)
(* finish_run records besides is not read by the service.                  *)
(***************************************************************************)
EXTENDS TapeService

CONSTANTS
  Sockets,   \* the WebSocket connections the user may have open at once
  Reader,    \* stands for a GET /tape that takes a scored document off the tape
  MaxBusy    \* bound: how many requests and threads may be under way at once

VARIABLES
  owed,     \* owed[w]: what w's generator has still to publish
  reply,    \* reply[p]: what w's listener thread or a request has still to publish
  socket,   \* socket[c]: where ws_endpoint is for connection c
  gone,     \* the connections whose client is not there any more
  missed,   \* missed[c]: the documents on the tape whose arrival c was not told
  locked    \* the connections that heard lock.acquired last of the lock

\* The last two are history variables, which no action reads.
feedVars == <<owed, reply, socket, gone, missed, locked>>

Frame(type) == [type |-> type, doc |-> Absent]
Added(d) == [type |-> "tape.entry_added", doc |-> d]
Removed(d) == [type |-> "tape.entry_removed", doc |-> d]
FrameTypes == {"lock.acquired", "lock.released", "schedule.queued", "schedule.started",
               "schedule.completed", "tape.entry_added", "tape.entry_removed",
               "tape.regenerated"}
Frames == [type : FrameTypes, doc : Docs \cup {Absent}]

Publishers == Workers \cup Editors \cup Scorers \cup {Reader}
ASSUME PublishersAssumption == Reader \notin Workers \cup Editors \cup Scorers

FeedInit ==
  /\ owed = [w \in Workers |-> <<>>]
  /\ reply = [p \in Publishers |-> {}]
  /\ socket = [c \in Sockets |-> "closed"]
  /\ gone = {}
  /\ missed = [c \in Sockets |-> {}]
  /\ locked = {}

-----------------------------------------------------------------------------
(***************************************************************************)
(* The sockets.                                                            *)
(***************************************************************************)

\* The upgrade, after validate_async: the socket is accepted first ...
Accept(c) ==
  /\ socket[c] = "closed"
  /\ socket' = [socket EXCEPT ![c] = "accepted"]
  /\ UNCHANGED <<vars, owed, reply, gone, missed, locked>>

\* ... and subscribed later, with a connection of the pool for as long as it
\* lasts.
Subscribe(c) ==
  /\ socket[c] = "accepted"
  /\ socket' = [socket EXCEPT ![c] = "subscribed"]
  /\ UNCHANGED <<vars, owed, reply, gone, missed, locked>>

\* Who has no client any more is told nothing.
Forget(S) ==
  /\ missed' = [c \in Sockets |-> IF c \in S THEN {} ELSE missed[c]]
  /\ locked' = locked \ S

\* The client is gone.  The handler never reads and does not see it.
Leave(c) ==
  /\ socket[c] \in {"accepted", "subscribed"} /\ c \notin gone
  /\ gone' = gone \cup {c}
  /\ Forget({c})
  /\ UNCHANGED <<vars, owed, reply, socket>>

\* The handler raises: the pool has no connection left to subscribe with, or
\* Redis has closed the one that listens.
HandlerRaises(c) ==
  /\ socket[c] \in {"accepted", "subscribed"}
  /\ socket' = [socket EXCEPT ![c] = "ending"]
  /\ Forget({c})
  /\ UNCHANGED <<vars, owed, reply, gone>>

\* The connection goes back to the pool, and the socket is closed.
Close(c) ==
  /\ socket[c] = "ending"
  /\ socket' = [socket EXCEPT ![c] = "closed"]
  /\ gone' = gone \ {c}
  /\ Forget({c})
  /\ UNCHANGED <<vars, owed, reply>>

\* Mutant of Forward: an error of send_text is ignored.
ForwardIgnoring(frame) == UNCHANGED socket

\* send_text: only now does the handler learn that its client is gone.
Forward(frame) ==
  socket' = [c \in Sockets |->
               IF socket[c] = "subscribed" /\ c \in gone THEN "ending" ELSE socket[c]]

\* PUBLISH.
Publish(frame) ==
  LET heard == {c \in Sockets \ gone : socket[c] = "subscribed"} IN
    /\ Forward(frame)
    /\ missed' = [c \in Sockets |->
                    missed[c] \ {d \in Docs :
                      c \in heard /\ (frame.type = "tape.regenerated" \/ frame = Added(d))}]
    /\ locked' = CASE frame.type = "lock.acquired" -> locked \cup heard
                   [] frame.type = "lock.released" -> locked \ heard
                   [] OTHER -> locked
    /\ UNCHANGED <<vars, gone>>

\* Every other step: what is new on the tape is news for every open socket.
Told == {c \in Sockets \ gone : socket[c] \in {"accepted", "subscribed"}}
Overlook ==
  /\ missed' = [c \in Sockets |->
                  IF c \in Told THEN (missed[c] \cap OnTape') \cup (OnTape' \ OnTape)
                                ELSE {}]
  /\ UNCHANGED <<socket, gone, locked>>

-----------------------------------------------------------------------------
(***************************************************************************)
(* The generator.                                                          *)
(***************************************************************************)

\* Mutants of Due: without tape.regenerated; without lock.released.
DueUntold(place) ==
  CASE place = "locked" -> <<Frame("lock.acquired"), Frame("schedule.started")>>
    [] place \in {"finish", "failed"} -> <<Frame("schedule.completed")>>
    [] place = "released" -> <<Frame("lock.released")>>
    [] OTHER -> <<>>

DueUnreleased(place) ==
  CASE place = "locked" -> <<Frame("lock.acquired"), Frame("schedule.started")>>
    [] place \in {"finish", "failed"} ->
         <<Frame("tape.regenerated"), Frame("schedule.completed")>>
    [] OTHER -> <<>>

\* What a run publishes when it gets to a place.
Due(place) ==
  CASE place = "locked" -> <<Frame("lock.acquired"), Frame("schedule.started")>>
    [] place \in {"finish", "failed"} ->
         <<Frame("tape.regenerated"), Frame("schedule.completed")>>
    [] place = "released" -> <<Frame("lock.released")>>
    [] OTHER -> <<>>

\* Mutant of News: the documents are announced before the pipeline is run.
NewsEarly(w) ==
  IF pc[w] = "query" /\ pc'[w] = "append"
  THEN [i \in DOMAIN run'[w].todo |-> Added(run'[w].todo[i])] ELSE <<>>

\* append_entries returns the documents that ZADD NX has really added.
News(w) ==
  IF pc[w] = "append" /\ run[w].todo # <<>> /\ Head(run[w].todo) \notin OnTape
  THEN <<Added(Head(run[w].todo))>> ELSE <<>>

\* The generator's next step, with nothing left to publish; the documents are
\* announced when the whole pipeline is done.
Generate(w) ==
  /\ owed[w] = <<>> \/ pc[w] = "append"
  /\ WorkerStep(w) \/ StopStep(w)
  /\ owed' = [owed EXCEPT ![w] = @ \o News(w) \o Due(pc'[w])]
  /\ Overlook
  /\ UNCHANGED reply

PublishOwed(w) ==
  /\ owed[w] # <<>> /\ pc[w] # "append"
  /\ Publish(Head(owed[w]))
  /\ owed' = [owed EXCEPT ![w] = Tail(@)]
  /\ UNCHANGED reply

\* Mutant of GenerateFails: the first publishes are not inside the try block.
GenerateFailsKeeping(w) ==
  /\ Fault("run") /\ pc[w] \in Locked
  /\ EndTurn(w, "idle")
  /\ owed' = [owed EXCEPT ![w] = <<>>]
  /\ Overlook
  /\ UNCHANGED <<reply, stateVars, listenerVars, apiVars, stopping, intact>>

\* A call or a publish raises: what was still to be published is not.
GenerateFails(w) ==
  /\ CallFails(w) /\ UNCHANGED listenerVars
  /\ pc[w] = "locked" /\ owed[w] # <<>> => StartFails(w)
  /\ owed' = [owed EXCEPT ![w] = Due(pc'[w])]
  /\ Overlook
  /\ UNCHANGED reply

-----------------------------------------------------------------------------
(***************************************************************************)
(* The listener threads and the requests.                                  *)
(***************************************************************************)
Replying == {p \in Publishers : reply[p] # {}}

\* Who is between two steps: a request, or a thread with a frame to publish.
Busy == Replying \cup {e \in Editors : put[e] # NoRequest}
                 \cup {s \in Scorers : post[s] # NoRequest}

\* What p has done is to be followed by frames, of which there is one or none.
Reply(p, frames) ==
  /\ p \notin Replying
  /\ frames # {} => Cardinality(Busy \cup {p}) <= MaxBusy
  /\ reply' = [reply EXCEPT ![p] = frames]
Replied(p) == reply' = [reply EXCEPT ![p] = {}]

\* The thread publishes what was there to remove.
Listen(w) ==
  /\ ThreadStep(w)
  /\ Reply(w, {Removed(d) : d \in OnTape \ OnTape'})
  /\ Overlook
  /\ UNCHANGED owed

ListenFails(w) ==
  /\ w \notin Replying
  /\ CallFails(w) /\ UNCHANGED generatorVars
  /\ Overlook
  /\ UNCHANGED <<owed, reply>>

\* PUT /config: schedule.queued comes last.
QueueRun(e) ==
  /\ FinishPut(e)
  /\ Reply(e, {Frame("schedule.queued")})
  /\ Overlook
  /\ UNCHANGED owed

\* Mutant of ScoreDone: what is published is looked up when the request is done.
ScoreDoneAfter(s) ==
  /\ FinishPost(s)
  /\ Reply(s, {Removed(post'[s])})
  /\ Overlook
  /\ UNCHANGED owed

\* POST /score: published whether or not the document was on the tape.
ScoreDone(s) ==
  /\ FinishPost(s)
  /\ Reply(s, {Removed(post[s])})
  /\ Overlook
  /\ UNCHANGED owed

\* GET /tape: published if the document was still there.
Filter(d) ==
  /\ FilterScored(d) /\ UNCHANGED <<generatorVars, faultVars>>
  /\ Reply(Reader, {Removed(d)})
  /\ Overlook
  /\ UNCHANGED owed

PublishReply(p) ==
  /\ \E frame \in reply[p] : Publish(frame)
  /\ Replied(p)
  /\ UNCHANGED owed

\* The publish raises, or the request or its process is gone before it.
ReplyLost(p) ==
  /\ p \in Replying
  /\ Replied(p)
  /\ UNCHANGED <<vars, owed, socket, gone, missed, locked>>

-----------------------------------------------------------------------------
\* A step after which nothing is published.
Quietly(step) == step /\ Overlook /\ UNCHANGED <<owed, reply>>

\* A request slot is free again when its last frame is published.
SlotsFree ==
  /\ Cardinality(Busy') <= MaxBusy
  /\ \A e \in Editors \cap Replying : put'[e] = put[e]
  /\ \A s \in Scorers \cap Replying : post'[s] = post[s]

Die(w) ==
  /\ Crash(w)
  /\ owed' = [owed EXCEPT ![w] = <<>>]
  /\ Replied(w)
  /\ Overlook

\* Without Overrun and RedisLoss: a run within its lease, and a Redis that
\* keeps its data, which without a configuration has no runs to tell of.
FeedNext ==
  \/ \E w \in Workers :
       \/ Generate(w) \/ PublishOwed(w) \/ GenerateFails(w)
       \/ Listen(w) \/ ListenFails(w) \/ Die(w)
  \/ \E e \in Editors : QueueRun(e)
  \/ \E s \in Scorers : ScoreDone(s)
  \/ \E d \in Docs : Filter(d)
  \/ \E p \in Publishers : PublishReply(p) \/ ReplyLost(p)
  \/ Quietly(Environment /\ UNCHANGED <<entries, reply>> /\ SlotsFree)
  \/ \E w \in Workers : Quietly(Restart(w)) \/ Quietly(Shutdown(w))
  \/ Quietly(TtlElapses) \/ Quietly(RequestFails)
  \/ \E c \in Sockets :
       Accept(c) \/ Subscribe(c) \/ Leave(c) \/ HandlerRaises(c) \/ Close(c)

\* Of the fairness of TapeService what the feed needs: the generators go on,
\* and publish; Docker restarts a dead worker; Redis expires the lock key.  The
\* handler of a socket goes on as well.  Whether a listener thread or a request
\* ever publishes makes no difference.
FeedFairness ==
  /\ \A w \in Workers :
       /\ WF_<<vars, feedVars>>(Generate(w) \/ PublishOwed(w))
       /\ WF_<<vars, feedVars>>(Quietly(Restart(w)))
  /\ WF_<<vars, feedVars>>(Quietly(TtlElapses))
  /\ \A c \in Sockets : WF_<<vars, feedVars>>(Subscribe(c) \/ Close(c))

FeedSpec == Init /\ FeedInit /\ [][FeedNext]_<<vars, feedVars>>
FairFeedSpec == FeedSpec /\ FeedFairness

-----------------------------------------------------------------------------
\* Every variable has its type.
FeedTypeOK ==
  /\ owed \in [Workers -> Seq(Frames)]
  /\ reply \in [Publishers -> SUBSET Frames]
  /\ socket \in [Sockets -> {"closed", "accepted", "subscribed", "ending"}]
  /\ gone \in SUBSET Sockets /\ locked \in SUBSET Sockets
  /\ missed \in [Sockets -> SUBSET Docs]

\* Publishing changes nothing of what the service does: with the feed it is
\* still the service of TapeService, also when a publish raises.
ServiceKept == Spec

\* A document is announced when it is on the tape; if a removal's frame has
\* overtaken the announcement, then because the user has scored it.  One
\* worker.
AnnouncedIsThere ==
  \A w \in Workers, d \in Docs :
    (\E i \in DOMAIN owed[w] : owed[w][i] = Added(d)) => d \in OnTape \cup Scored

\* There is a next run as long as the user has some source selected.
NoMoreRuns == sources = {}

\* Who has a socket open learns of every document that came on the tape since
\* it was accepted: by its own frame, or by a later tape.regenerated, also
\* when the run failed or its process died, and when the frame was published
\* before the socket was subscribed.
ArrivalsTold ==
  \A c \in Sockets, d \in Docs :
    []<>(d \notin missed[c] \/ NoMoreRuns)

\* A client that has heard lock.acquired hears lock.released, although a
\* process that dies publishes nothing: the next run says it.
NobodyToldLocked ==
  \A c \in Sockets : []<>(c \notin locked \/ NoMoreRuns)

\* The handler of a client that is gone gives its connection back: it learns
\* of it from a frame, and runs go on publishing some.
SocketsFreed == \A c \in Sockets : []<>(c \notin gone \/ NoMoreRuns)

=============================================================================
