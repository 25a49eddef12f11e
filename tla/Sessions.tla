------------------------------ MODULE Sessions ------------------------------
(***************************************************************************)
(* The session store: one Redis key for each session, which holds the time *)
(* of its hard expiry and has a TTL of its own.  validate is a GET and a   *)
(* SET with the clock read between them, and every handler behind the      *)
(* session cookie runs it first, the WebSocket upgrade too.                *)
(*                                                                         *)
(* The time last_seen, which nothing reads, is left out, and so is what is *)
(* done with a value that cannot be parsed: only issue and validate write  *)
(* the keys.                                                               *)
(***************************************************************************)
EXTENDS AuthState

CONSTANTS
  IdleTtl,       \* session_idle_ttl_days
  AbsoluteTtl    \* session_absolute_ttl_days

ASSUME TtlAssumption == IdleTtl \in Nat \ {0} /\ AbsoluteTtl \in Nat \ {0}

VARIABLES
  sess,      \* sess[s]: the key of session s, or NoSession
  minted,    \* the ids that were handed out
  cookies,   \* the sessions whose id has reached the client
  born,      \* born[s]: when session s was issued
  unused,    \* unused[s]: the time since s was last issued or validated
  ended      \* ended[s]: how s ended: by a logout, while a call held it or not,
             \* or with the data of Redis

\* The last three are history variables, which no action reads.
sessionVars == <<sess, minted, cookies, born, unused, ended>>

StoredSessions == [expires : Nat, ttl : 1..IdleTtl]
NoSession == [expires |-> 0, ttl |-> 0]
Stored(expires) == [expires |-> expires, ttl |-> IdleTtl]

SessionsInit ==
  /\ sess = [s \in Sids |-> NoSession]
  /\ minted = {} /\ cookies = {}
  /\ born = [s \in Sids |-> 0]
  /\ unused = [s \in Sids |-> 0]
  /\ ended = [s \in Sids |-> "no"]

-----------------------------------------------------------------------------
\* issue: a new id, and the clock for the hard expiry ...
Mint(q, s) ==
  /\ call[q].at = "token"
  /\ s \notin minted
  /\ now + AbsoluteTtl <= Horizon
  /\ minted' = minted \cup {s}
  /\ born' = [born EXCEPT ![s] = now]
  /\ call' = [call EXCEPT ![q].sid = s, ![q].expires = now + AbsoluteTtl,
                          ![q].at = "issue"]
  /\ UNCHANGED <<now, sess, cookies, unused, ended>>

\* ... and SET EX; the answer sets the cookie, if it gets there.
Issue(q) ==
  /\ call[q].at = "issue"
  /\ sess' = [sess EXCEPT ![call[q].sid] = Stored(call[q].expires)]
  /\ cookies' \in {cookies, cookies \cup {call[q].sid}}
  /\ unused' = [unused EXCEPT ![call[q].sid] = 0]
  /\ Answer(q)
  /\ UNCHANGED <<now, minted, born, ended>>

-----------------------------------------------------------------------------
\* validate: GET; there is no session without the key ...
Get(q) ==
  LET s == call[q].sid IN
    /\ call[q].at = "get"
    /\ IF sess[s] = NoSession
       THEN Answer(q)
       ELSE call' = [call EXCEPT ![q].expires = sess[s].expires, ![q].at = "stamp"]
    /\ UNCHANGED <<now, sessionVars>>

\* Mutant of Stamp: the TTL alone is trusted.
StampNever(q) ==
  /\ call[q].at = "stamp"
  /\ call' = [call EXCEPT ![q].stamp = now, ![q].at = "refresh"]
  /\ UNCHANGED <<now, sessionVars>>

\* ... then the clock, compared with the hard expiry ...
Stamp(q) ==
  /\ call[q].at = "stamp"
  /\ call' = [call EXCEPT ![q].stamp = now,
                          ![q].at = IF call[q].expires <= now THEN "discard"
                                                              ELSE "refresh"]
  /\ UNCHANGED <<now, sessionVars>>

\* ... and the key of an expired session is deleted ...
Discard(q) ==
  /\ call[q].at = "discard"
  /\ sess' = [sess EXCEPT ![call[q].sid] = NoSession]
  /\ Answer(q)
  /\ UNCHANGED <<now, minted, cookies, born, unused, ended>>

\* What Redis has lost, and a call that held it writes back, is there again.
Restored(s) == IF ended[s] = "lost" THEN "no" ELSE ended[s]

\* Mutants of Refresh: the hard expiry moves as well; the TTL is left alone.
RefreshSliding(q) ==
  LET s == call[q].sid IN
    /\ call[q].at = "refresh"
    /\ sess' = [sess EXCEPT ![s] = Stored(call[q].stamp + AbsoluteTtl)]
    /\ unused' = [unused EXCEPT ![s] = 0]
    /\ ended' = [ended EXCEPT ![s] = Restored(s)]
    /\ IF call[q].logout THEN Goto(q, "revoke") ELSE Answer(q)
    /\ UNCHANGED <<now, minted, cookies, born>>

RefreshKeeping(q) ==
  LET s == call[q].sid IN
    /\ call[q].at = "refresh"
    /\ sess' = [sess EXCEPT ![s].expires = call[q].expires]
    /\ unused' = [unused EXCEPT ![s] = 0]
    /\ ended' = [ended EXCEPT ![s] = Restored(s)]
    /\ IF call[q].logout THEN Goto(q, "revoke") ELSE Answer(q)
    /\ UNCHANGED <<now, minted, cookies, born>>

\* ... or that of a live one written back, for another IdleTtl.  The request
\* is accepted; what logout does comes after.
Refresh(q) ==
  LET s == call[q].sid IN
    /\ call[q].at = "refresh"
    /\ sess' = [sess EXCEPT ![s] = Stored(call[q].expires)]
    /\ unused' = [unused EXCEPT ![s] = 0]
    /\ ended' = [ended EXCEPT ![s] = Restored(s)]
    /\ IF call[q].logout THEN Goto(q, "revoke") ELSE Answer(q)
    /\ UNCHANGED <<now, minted, cookies, born>>

\* A call that has read the key of s and not yet written it back.
Holds(q, s) == call[q].sid = s /\ call[q].at \in {"stamp", "refresh"}
Ending(s) == IF \E q \in Requests : Holds(q, s) THEN "raced" ELSE "alone"

\* Mutant of Revoke: only the cookie is cleared.
RevokeCookie(q) ==
  /\ call[q].at = "revoke"
  /\ ended' = [ended EXCEPT ![call[q].sid] = Ending(call[q].sid)]
  /\ Answer(q)
  /\ UNCHANGED <<now, sess, minted, cookies, born, unused>>

\* revoke: DEL.
Revoke(q) ==
  LET s == call[q].sid IN
    /\ call[q].at = "revoke"
    /\ sess' = [sess EXCEPT ![s] = NoSession]
    /\ ended' = [ended EXCEPT ![s] = Ending(s)]
    /\ Answer(q)
    /\ UNCHANGED <<now, minted, cookies, born, unused>>

ValidateStep(q) ==
  Issue(q) \/ Get(q) \/ Stamp(q) \/ Discard(q) \/ Refresh(q) \/ Revoke(q)

-----------------------------------------------------------------------------
\* Time passes, and with it the TTL of every key.
Tick ==
  /\ now' = IF now < Horizon THEN now + 1 ELSE now
  /\ sess' = [s \in Sids |->
                IF sess[s].ttl <= 1 THEN NoSession
                                    ELSE [sess[s] EXCEPT !.ttl = @ - 1]]
  /\ unused' = [s \in Sids |->
                  IF unused[s] < IdleTtl THEN unused[s] + 1 ELSE unused[s]]
  /\ UNCHANGED <<call, minted, cookies, born, ended>>

\* Redis comes back without its data.  What a logout has ended stays ended by
\* it.
SessionsLost ==
  /\ sess' = [s \in Sids |-> NoSession]
  /\ ended' = [s \in Sids |->
                 IF s \in cookies /\ sess[s] # NoSession /\ ended[s] = "no"
                 THEN "lost" ELSE ended[s]]
  /\ UNCHANGED <<now, call, minted, cookies, born, unused>>

=============================================================================
