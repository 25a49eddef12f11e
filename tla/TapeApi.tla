------------------------------ MODULE TapeApi ------------------------------
(***************************************************************************)
(* The requests that write.  PUT /config and POST /score are each two      *)
(* calls to different keys or stores, with room between them for every     *)
(* other client.  POST /score inserts into score.score, whose trigger      *)
(* notifies the listeners.                                                 *)
(***************************************************************************)
EXTENDS ScoreListener

CONSTANTS
  Editors,    \* the requests to PUT /config that may be served at once
  Scorers,    \* the requests to POST /score that may be served at once
  Allowed,    \* users.sources: the sources this user may select
  NoRequest   \* a request slot that serves nothing

ASSUME AllowedAssumption == Allowed \subseteq Sources
ASSUME RequestAssumption ==
  (\A S \in SUBSET Sources : NoRequest # S) /\ NoRequest \notin Docs

VARIABLES
  put,   \* put[e]: the sources PUT /config has still to store, or NoRequest
  post   \* post[s]: the document POST /score has still to remove, or NoRequest

apiVars == <<put, post>>

ApiInit ==
  /\ put = [e \in Editors |-> NoRequest]
  /\ post = [s \in Scorers |-> NoRequest]

\* write_config: the sources are checked and the configuration is stored ...
PutConfig(e, c, S) ==
  /\ put[e] = NoRequest
  /\ S \subseteq Allowed
  /\ UpsertConfig(c)
  /\ put' = [put EXCEPT ![e] = S]
  /\ UNCHANGED <<sources, entries, lock, platformVars, post, listenerVars>>

\* Mutant of PutSources: the flag is left to upsert_config.
PutSourcesUnmarked(e) ==
  /\ put[e] # NoRequest
  /\ sources' = put[e]
  /\ put' = [put EXCEPT ![e] = NoRequest]
  /\ UNCHANGED <<cfg, dirty, entries, lock, platformVars, post, listenerVars>>

\* ... and then the sources.
PutSources(e) ==
  /\ put[e] # NoRequest
  /\ SetConfigSources(put[e])
  /\ put' = [put EXCEPT ![e] = NoRequest]
  /\ UNCHANGED <<entries, lock, platformVars, post, listenerVars>>

\* submit_score: the insert commits, and with it the notification.  When it
\* is refused (ALREADY_SCORED) nothing is removed.
InsertScore(s, d, r) ==
  /\ post[s] = NoRequest
  /\ d \in docs
  /\ SaveScore(d, r)
  /\ Notify(<<d, r>>)
  /\ post' = [post EXCEPT ![s] = d]
  /\ UNCHANGED <<tapeVars, docs, put, thread>>

RemoveScored(s) ==
  /\ post[s] # NoRequest
  /\ RemoveEntry(post[s])
  /\ post' = [post EXCEPT ![s] = NoRequest]
  /\ UNCHANGED <<configVars, lock, platformVars, put, listenerVars>>

\* read_tape as the others see it: when it meets a document the user has
\* scored, it takes it off the tape.  TapePages has the whole handler.
FilterScored(d) ==
  /\ d \in OnTape \cap Scored
  /\ RemoveEntry(d)
  /\ UNCHANGED <<configVars, lock, platformVars, apiVars, listenerVars>>

\* The request dies between its two calls.
PutAborted(e) ==
  /\ put[e] # NoRequest
  /\ put' = [put EXCEPT ![e] = NoRequest]
  /\ UNCHANGED <<stateVars, post, listenerVars>>

PostAborted(s) ==
  /\ post[s] # NoRequest
  /\ post' = [post EXCEPT ![s] = NoRequest]
  /\ UNCHANGED <<stateVars, put, listenerVars>>

-----------------------------------------------------------------------------
(***************************************************************************)
(* The platform around the service: the crawler publishes documents, and   *)
(* experts also score by other ways than this service.                     *)
(***************************************************************************)
PublishDocument(d) ==
  /\ d \notin docs
  /\ docs' = docs \cup {d}
  /\ UNCHANGED <<tapeVars, scores, apiVars, listenerVars>>

ScoreElsewhere(d, r) ==
  /\ d \in docs
  /\ SaveScore(d, r)
  /\ Notify(<<d, r>>)
  /\ UNCHANGED <<tapeVars, docs, apiVars, thread>>

=============================================================================
