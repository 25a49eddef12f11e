-------------------------------- MODULE Auth --------------------------------
(***************************************************************************)
(* Authentication: POST /auth/login with its limiter, POST /auth/logout    *)
(* and whatever else is behind the session cookie, in one api process.     *)
(***************************************************************************)
EXTENDS LoginLimiter, Sessions

vars == <<now, call, limiterVars, sessionVars>>

Init == AuthStateInit /\ LimiterInit /\ SessionsInit

-----------------------------------------------------------------------------
\* login: the limiter comes first ...
Login(q) ==
  /\ call[q].at = "idle"
  /\ Goto(q, "lookup")
  /\ UNCHANGED <<now, limiterVars, sessionVars>>

\* ... and then the platform, which knows no expert by this token (is_expert,
\* auth_by_token) ...
NotAnExpert(q) ==
  /\ call[q].at = "token"
  /\ Answer(q)
  /\ UNCHANGED <<now, limiterVars, sessionVars>>

\* ... or does: a session is issued.
Expert(q) == \E s \in Sids : Mint(q, s) /\ UNCHANGED limiterVars

\* A request with the session cookie: current_user, or the WebSocket upgrade.
\* A client may keep a cookie, or have requests under way, when it logs out.
Authenticate(q, s, logout) ==
  /\ call[q].at = "idle"
  /\ s \in cookies
  /\ call' = [call EXCEPT ![q].sid = s, ![q].logout = logout, ![q].at = "get"]
  /\ UNCHANGED <<now, limiterVars, sessionVars>>

\* A handler raises, or its client and its thread are gone.
RequestDies(q) ==
  /\ call[q].at # "idle"
  /\ Answer(q)
  /\ UNCHANGED <<now, limiterVars, sessionVars>>

\* The api process is started again, with a new limiter.
ApiRestart ==
  /\ call' = [q \in Requests |-> BlankCall]
  /\ limiter' = 0 /\ buckets' = <<>>
  /\ UNCHANGED <<now, sessionVars>>

HandlerStep(q) ==
  \/ LimiterStep(q) /\ UNCHANGED sessionVars
  \/ ValidateStep(q) /\ UNCHANGED limiterVars

Next ==
  \/ \E q \in Requests :
       \/ Login(q) \/ NotAnExpert(q) \/ Expert(q)
       \/ HandlerStep(q) \/ RequestDies(q)
       \/ \E s \in Sids, logout \in BOOLEAN : Authenticate(q, s, logout)
  \/ ApiRestart
  \/ (Tick \/ SessionsLost) /\ UNCHANGED limiterVars

\* Time passes.  No handler has to go on.
Fairness == WF_vars(Tick /\ UNCHANGED limiterVars)

Spec == Init /\ [][Next]_vars
FairSpec == Spec /\ Fairness

-----------------------------------------------------------------------------
\* Every variable has its type.
TypeOK ==
  /\ now \in 0..Horizon /\ call \in [Requests -> Calls]
  /\ buckets \in Seq(Buckets) /\ limiter \in 0..Len(buckets)
  /\ sess \in [Sids -> StoredSessions \cup {NoSession}]
  /\ minted \in SUBSET Sids /\ cookies \in SUBSET minted
  /\ born \in [Sids -> Nat] /\ unused \in [Sids -> 0..IdleTtl]
  /\ ended \in [Sids -> {"no", "lost", "alone", "raced"}]

\* The hard expiry is hard: a request that is accepted has read its clock
\* less than AbsoluteTtl after the login, however often and by how many calls
\* at once the session was written back, and also after a logout that one of
\* them has undone.
HardExpiry ==
  \A q \in Requests : call[q].at \in {"refresh", "revoke"} =>
    call[q].stamp < born[call[q].sid] + AbsoluteTtl

\* A session is kept as long as it is used: until its hard expiry, a session
\* that was issued or validated less than IdleTtl ago is there, unless it was
\* deleted by a logout or lost by Redis.
KeptWhileUsed ==
  \A s \in cookies :
    ended[s] = "no" /\ now < born[s] + AbsoluteTtl /\ unused[s] < IdleTtl
      => sess[s] # NoSession

\* A session that a logout deleted while no call held it stays deleted.
DeletedForGood == \A s \in Sids : ended[s] = "alone" => sess[s] = NoSession

\* README.md says that logout revokes the session.
LogoutRevokes ==
  \A s \in Sids : ended[s] \in {"alone", "raced"} => sess[s] = NoSession

\* No session, used or not, lasts for ever.
SessionsEnd == \A s \in Sids : <>[](sess[s] = NoSession)

\* The ceiling: at no time have more than Capacity logins that a bucket let
\* through read their clock within the last Window, and at most as many
\* buckets are made as there are threads.
Recent(b) == {i \in DOMAIN b.log : b.log[i] >= now - Window}
CeilingKept ==
  /\ \A i \in DOMAIN buckets : Cardinality(Recent(buckets[i])) <= Capacity
  /\ Len(buckets) <= Cardinality(Requests)

\* A login is refused only when another was let through that had read its
\* clock at most Window before, or later: who waits longer is let through.
RefusedOnlyRecently ==
  [][\A q \in Requests : Refuse(q) =>
       \E i \in DOMAIN buckets[call[q].bucket].log :
         buckets[call[q].bucket].log[i] >= call[q].stamp - Window]_vars

=============================================================================
