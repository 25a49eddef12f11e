----------------------------- MODULE AuthProofs -----------------------------
(***************************************************************************)
(* Theorems about Auth, for any number of requests and sessions, every     *)
(* capacity, window and lifetime, and every horizon.                       *)
(***************************************************************************)
EXTENDS Auth, TLAPS, FiniteSetTheorems, SequenceTheorems

\* A call has a bucket, or a session, where its handler says it does.
PlacedAt(q) ==
  /\ call[q].at = "fetch" => limiter # 0
  /\ call[q].at \in {"clock", "count"} => call[q].bucket \in 1..Len(buckets)
  /\ call[q].at = "issue" => call[q].sid \in minted \ cookies
  /\ call[q].at \in {"get", "stamp", "refresh", "discard", "revoke"}
       => call[q].sid \in cookies
Placed ==
  /\ \A q \in Requests : PlacedAt(q)
  /\ \A p, q \in Requests :
       call[p].at = "issue" /\ call[q].at = "issue" /\ p # q => call[p].sid # call[q].sid

\* A call that goes on to another place, or sets one of its locals.
LEMMA CallAt ==
  ASSUME NEW c \in Calls, NEW x \in Steps, NEW d, d = [c EXCEPT !.at = x]
  PROVE  /\ d \in Calls /\ d.at = x /\ d.sid = c.sid /\ d.bucket = c.bucket
         /\ d.stamp = c.stamp /\ d.expires = c.expires /\ d.logout = c.logout
BY DEF Calls

LEMMA CallFields ==
  ASSUME NEW c \in Calls
  PROVE  /\ \A x \in Nat : /\ [c EXCEPT !.bucket = x] \in Calls
                           /\ [c EXCEPT !.bucket = x].bucket = x
                           /\ [c EXCEPT !.stamp = x] \in Calls
                           /\ [c EXCEPT !.stamp = x].bucket = c.bucket
BY DEF Calls

LEMMA BlankTyped == BlankCall \in Calls /\ BlankCall.at = "idle"
<1>1. (CHOOSE s \in Sids : TRUE) \in Sids
  BY RequestsAssumption
<1> QED
  BY <1>1 DEF BlankCall, Calls, Steps

LEMMA InitTyped == Init => TypeOK /\ Placed
BY BlankTyped, HorizonAssumption, TtlAssumption
   DEF Init, AuthStateInit, LimiterInit, SessionsInit, TypeOK, Placed, PlacedAt, Buckets, NoSession

\* A call that changes, and the others.
LEMMA CallStep ==
  ASSUME call \in [Requests -> Calls], NEW q \in Requests, NEW c \in Calls,
         call' = [call EXCEPT ![q] = c]
  PROVE  /\ call' \in [Requests -> Calls] /\ call'[q] = c
         /\ \A p \in Requests \ {q} : call'[p] = call[p]
OBVIOUS

\* When one call changes, the others stay placed: nobody takes a bucket away,
\* and a new session id is new.
LEMMA PlacedStep ==
  ASSUME TypeOK, Placed, NEW q \in Requests,
         \A p \in Requests \ {q} : call'[p] = call[p],
         limiter # 0 => limiter' # 0, buckets' \in Seq(Buckets),
         Len(buckets) <= Len(buckets'),
         minted \subseteq minted', cookies \subseteq cookies',
         \A p \in Requests \ {q} : call[p].at = "issue" => call[p].sid \notin cookies',
         call'[q].at = "issue" => call'[q].sid \notin minted,
         PlacedAt(q)'
  PROVE  Placed'
<1>1. ASSUME NEW p \in Requests \ {q} PROVE PlacedAt(p)'
  <2>1. call'[p] = call[p] /\ PlacedAt(p) /\ 1..Len(buckets) \subseteq 1..Len(buckets')
    BY DEF Placed, TypeOK
  <2> QED
    BY <2>1 DEF PlacedAt
<1>2. ASSUME NEW p \in Requests, NEW r \in Requests,
             call'[p].at = "issue", call'[r].at = "issue", p # r
      PROVE  call'[p].sid # call'[r].sid
  <2>1. \A o \in Requests \ {q} : call[o].at = "issue" => call[o].sid \in minted
    BY DEF Placed, PlacedAt
  <2> QED
    BY <1>2, <2>1 DEF Placed
<1> QED
  BY <1>1, <1>2 DEF Placed

\* What a step of the limiter does to the buckets: nothing, one more, or one
\* bucket that has dropped its oldest and perhaps taken the call's time.
LEMMA LimiterTyped ==
  ASSUME TypeOK, Placed, NEW q \in Requests, LimiterStep(q), UNCHANGED sessionVars
  PROVE  TypeOK' /\ Placed'
<1>0. /\ call \in [Requests -> Calls] /\ call[q] \in Calls /\ now \in Nat
      /\ buckets \in Seq(Buckets) /\ Len(buckets) \in Nat /\ limiter \in 0..Len(buckets)
      /\ PlacedAt(q)
  BY HorizonAssumption DEF TypeOK, Placed
<1>a. UNCHANGED <<now, sess, minted, cookies, born, unused, ended>>
  BY DEF sessionVars, LimiterStep, LookUp, Make, Fetch, ReadClock, Admit, Refuse
<1> DEFINE Settled(c) ==
      /\ call' = [call EXCEPT ![q] = c]
      /\ limiter' \in 0..Len(buckets') /\ (limiter # 0 => limiter' # 0)
      /\ buckets' \in Seq(Buckets) /\ Len(buckets) <= Len(buckets')
      /\ c.at = "fetch" => limiter' # 0
      /\ c.at \in {"clock", "count"} => c.bucket \in 1..Len(buckets')
      /\ c.at \in {"idle", "make", "fetch", "clock", "count", "token"}
<1>q. SUFFICES \E c \in Calls : Settled(c)
  <2>1. PICK c \in Calls : Settled(c)
    BY <1>q
  <2>2. /\ call' \in [Requests -> Calls] /\ call'[q] = c
        /\ \A p \in Requests \ {q} : call'[p] = call[p]
    BY <1>0, <2>1, CallStep
  <2>3. TypeOK'
    BY <1>a, <2>1, <2>2 DEF TypeOK
  <2>4. PlacedAt(q)'
    BY <2>1, <2>2 DEF PlacedAt
  <2>5. \A p \in Requests \ {q} : call[p].at = "issue" => call[p].sid \notin cookies'
    BY <1>a DEF Placed, PlacedAt
  <2>6. call'[q].at # "issue"
    BY <2>1, <2>2
  <2> QED
    BY <1>a, <2>1, <2>2, <2>4, <2>3, <2>5, <2>6, PlacedStep
<1>1. CASE LookUp(q)
  <2> DEFINE x == IF limiter = 0 THEN "make" ELSE "fetch"
             c == [call[q] EXCEPT !.at = x]
  <2>1. x \in Steps
    BY DEF Steps
  <2>3. c \in Calls /\ c.at = x
    BY <1>0, <2>1, CallAt
  <2>2. call' = [call EXCEPT ![q] = c] /\ UNCHANGED <<limiter, buckets>>
    BY <1>1 DEF LookUp, Goto, limiterVars
  <2> HIDE DEF c
  <2>9. Settled(c)
    BY <1>0, <2>2, <2>3
  <2> HIDE DEF Settled
  <2> QED
    BY <2>3, <2>9
<1>2. CASE Make(q)
  <2> DEFINE c == [call[q] EXCEPT !.at = "fetch"]
  <2>0. "fetch" \in Steps
    BY DEF Steps
  <2>1. c \in Calls /\ c.at = "fetch"
    BY <1>0, <2>0, CallAt
  <2>2. NewBucket \in Buckets
    BY DEF NewBucket, Buckets
  <2>3. /\ buckets' \in Seq(Buckets) /\ Len(buckets') = Len(buckets) + 1
        /\ limiter' = Len(buckets')
    BY <1>0, <1>2, <2>2 DEF Make
  <2>4. call' = [call EXCEPT ![q] = c]
    BY <1>2 DEF Make, Goto
  <2> HIDE DEF c
  <2>9. Settled(c)
    BY <1>0, <2>1, <2>3, <2>4
  <2> HIDE DEF Settled
  <2> QED
    BY <2>1, <2>9
<1>3. CASE Fetch(q)
  <2> DEFINE d == [call[q] EXCEPT !.bucket = limiter]
             c == [d EXCEPT !.at = "clock"]
  <2>1. limiter \in 1..Len(buckets) /\ limiter \in Nat
    BY <1>0, <1>3 DEF Fetch, PlacedAt
  <2>0. "clock" \in Steps
    BY DEF Steps
  <2>4. d \in Calls /\ d.bucket = limiter
    BY <1>0, <2>1, CallFields
  <2>2. c \in Calls /\ c.at = "clock" /\ c.bucket = limiter
    <3> HIDE DEF d
    <3> QED
      BY <2>0, <2>4, CallAt
  <2>3. call' = [call EXCEPT ![q] = c] /\ UNCHANGED <<limiter, buckets>>
    BY <1>0, <1>3 DEF Fetch, limiterVars
  <2> HIDE DEF c
  <2>9. Settled(c)
    BY <1>0, <2>1, <2>2, <2>3
  <2> HIDE DEF Settled
  <2> QED
    BY <2>2, <2>9
<1>4. CASE ReadClock(q)
  <2> DEFINE d == [call[q] EXCEPT !.stamp = now]
             c == [d EXCEPT !.at = "count"]
  <2>1. call[q].bucket \in 1..Len(buckets)
    BY <1>0, <1>4 DEF ReadClock, PlacedAt
  <2>0. "count" \in Steps
    BY DEF Steps
  <2>4. d \in Calls /\ d.bucket = call[q].bucket
    BY <1>0, CallFields
  <2>2. c \in Calls /\ c.at = "count" /\ c.bucket = call[q].bucket
    <3> HIDE DEF d
    <3> QED
      BY <2>0, <2>4, CallAt
  <2>3. call' = [call EXCEPT ![q] = c] /\ UNCHANGED <<limiter, buckets>>
    BY <1>0, <1>4 DEF ReadClock, limiterVars
  <2> HIDE DEF c
  <2>9. Settled(c)
    BY <1>0, <2>1, <2>2, <2>3
  <2> HIDE DEF Settled
  <2> QED
    BY <2>2, <2>9
<1>5. CASE Admit(q) \/ Refuse(q)
  <2>1. PICK c \in Calls : /\ call' = [call EXCEPT ![q] = c]
                          /\ c.at \in {"token", "idle"}
    <3>1. [call[q] EXCEPT !.at = "token"] \in Calls
      BY <1>0, CallAt DEF Steps
    <3>2. [call[q] EXCEPT !.at = "token"].at = "token"
      BY <1>0 DEF Calls
    <3>3. CASE Admit(q)
      BY <3>1, <3>2, <3>3 DEF Admit, Goto
    <3>4. CASE Refuse(q)
      BY <3>4, BlankTyped DEF Refuse, Answer
    <3> QED
      BY <1>5, <3>3, <3>4
  <2>2. call[q].bucket \in 1..Len(buckets) /\ call[q].stamp \in Nat
    BY <1>0, <1>5 DEF Admit, Refuse, PlacedAt, Calls
  <2>3. ASSUME NEW b \in Popped(buckets[call[q].bucket], call[q].stamp - Window)
        PROVE  b \in Buckets /\ [b EXCEPT !.log = Append(@, call[q].stamp)] \in Buckets
    <3>1. buckets[call[q].bucket] \in Buckets
      BY <1>0, <2>2
    <3>2. \A h \in buckets[call[q].bucket].head .. Len(buckets[call[q].bucket].log) + 1 :
            h \in Nat \ {0}
      BY <3>1 DEF Buckets
    <3>3. b \in Buckets
      BY <3>1, <3>2 DEF Popped, Buckets
    <3>4. Append(b.log, call[q].stamp) \in Seq(Nat)
      BY <2>2, <3>3 DEF Buckets
    <3> QED
      BY <3>3, <3>4 DEF Buckets
  <2>4. PICK b \in Buckets : buckets' = [buckets EXCEPT ![call[q].bucket] = b]
    BY <1>5, <2>3 DEF Admit, Refuse
  <2>5. /\ buckets' \in Seq(Buckets) /\ Len(buckets') = Len(buckets)
        /\ UNCHANGED limiter
    BY <1>0, <1>5, <2>2, <2>4 DEF Admit, Refuse
  <2> QED
    <3>1. limiter' \in 0..Len(buckets') /\ (limiter # 0 => limiter' # 0)
      BY <1>0, <2>5
    <3>2. Len(buckets) <= Len(buckets')
      BY <1>0, <2>5
    <3> QED
      BY <2>1, <2>5, <3>1, <3>2
<1> QED
  BY <1>1, <1>2, <1>3, <1>4, <1>5 DEF LimiterStep

\* A step that changes one call and no bucket.
LEMMA SessionStep ==
  ASSUME TypeOK, Placed, NEW q \in Requests, NEW c \in Calls,
         call' = [call EXCEPT ![q] = c], UNCHANGED <<now, limiter, buckets>>,
         minted \subseteq minted', cookies \subseteq cookies',
         \A p \in Requests \ {q} : call[p].at = "issue" => call[p].sid \notin cookies',
         c.at = "issue" => c.sid \in minted' \ minted /\ cookies' = cookies,
         c.at \in {"get", "stamp", "refresh", "discard", "revoke"} => c.sid \in cookies',
         c.at = "fetch" => limiter # 0, c.at \notin {"clock", "count"},
         sess' \in [Sids -> StoredSessions \cup {NoSession}],
         minted' \in SUBSET Sids, cookies' \in SUBSET minted',
         born' \in [Sids -> Nat], unused' \in [Sids -> 0..IdleTtl],
         ended' \in [Sids -> {"no", "lost", "alone", "raced"}]
  PROVE  TypeOK' /\ Placed'
<1>1. /\ call' \in [Requests -> Calls] /\ call'[q] = c
      /\ \A p \in Requests \ {q} : call'[p] = call[p]
  BY CallStep DEF TypeOK
<1>2. TypeOK'
  BY <1>1 DEF TypeOK
<1>3. c.at = "issue" => c.sid \notin cookies'
  BY DEF TypeOK
<1>4. PlacedAt(q)'
  BY <1>1, <1>3 DEF PlacedAt
<1>5. buckets' \in Seq(Buckets) /\ Len(buckets) <= Len(buckets') /\ limiter' = limiter
  BY DEF TypeOK
<1>6. call'[q].at = "issue" => call'[q].sid \notin minted
  BY <1>1
<1> QED
  BY <1>1, <1>4, <1>2, <1>5, <1>6, PlacedStep

LEMMA SessionTyped ==
  ASSUME TypeOK, Placed, NEW q \in Requests, ValidateStep(q), UNCHANGED limiterVars
  PROVE  TypeOK' /\ Placed'
<1>0. /\ call \in [Requests -> Calls] /\ call[q] \in Calls /\ now \in Nat
      /\ sess \in [Sids -> StoredSessions \cup {NoSession}] /\ cookies \subseteq minted
      /\ ended \in [Sids -> {"no", "lost", "alone", "raced"}] /\ unused \in [Sids -> 0..IdleTtl]
      /\ minted \in SUBSET Sids /\ born \in [Sids -> Nat]
      /\ PlacedAt(q)
  BY HorizonAssumption DEF TypeOK, Placed
<1>1. call[q].sid \in Sids /\ call[q].expires \in Nat
  BY <1>0 DEF Calls
<1>2. Stored(call[q].expires) \in StoredSessions
  BY <1>1, TtlAssumption DEF Stored, StoredSessions
<1>3. \A s \in Sids : Ending(s) \in {"no", "lost", "alone", "raced"}
  BY DEF Ending
<1>4. 0 \in 0..IdleTtl
  BY TtlAssumption
<1>5. UNCHANGED <<now, limiter, buckets, minted, born>>
  BY DEF limiterVars, sessionVars, ValidateStep, Issue, Get, Stamp, Discard, Refresh, Revoke
<1>6. \A p \in Requests \ {q} : call[p].at = "issue" => call[p].sid \notin cookies
  BY DEF Placed, PlacedAt
<1>7. CASE Issue(q)
  <2>1. call' = [call EXCEPT ![q] = BlankCall] /\ UNCHANGED ended
    BY <1>7 DEF Issue, Answer
  <2>2. /\ call[q].at = "issue" /\ call[q].sid \in minted
        /\ cookies' \in {cookies, cookies \cup {call[q].sid}}
    BY <1>0, <1>7 DEF Issue, PlacedAt
  <2>3. \A p \in Requests \ {q} : call[p].at = "issue" => call[p].sid \notin cookies'
    BY <1>6, <2>2 DEF Placed
  <2>4. sess' \in [Sids -> StoredSessions \cup {NoSession}] /\ unused' \in [Sids -> 0..IdleTtl]
    BY <1>0, <1>1, <1>2, <1>4, <1>7 DEF Issue
  <2>5. cookies' \subseteq minted'
    BY <1>0, <1>5, <2>2
  <2> QED
    BY <1>0, <1>5, <2>1, <2>2, <2>3, <2>4, <2>5, BlankTyped, SessionStep
<1>8. ASSUME NEW c \in Calls, call' = [call EXCEPT ![q] = c], UNCHANGED cookies,
             c.at \in {"idle", "stamp", "refresh", "discard", "revoke"},
             c.at # "idle" => c.sid \in cookies,
             sess' \in [Sids -> StoredSessions \cup {NoSession}],
             unused' \in [Sids -> 0..IdleTtl],
             ended' \in [Sids -> {"no", "lost", "alone", "raced"}]
      PROVE  TypeOK' /\ Placed'
  BY <1>0, <1>5, <1>6, <1>8, SessionStep
<1>9. CASE Get(q)
  <2>1. UNCHANGED <<cookies, sess, unused, ended>>
    BY <1>9 DEF Get, sessionVars
  <2>2. CASE call' = [call EXCEPT ![q] = BlankCall]
    BY <1>0, <1>8, <2>1, <2>2, BlankTyped
  <2>3. CASE /\ sess[call[q].sid] # NoSession
             /\ call' = [call EXCEPT ![q].expires = sess[call[q].sid].expires, ![q].at = "stamp"]
    <3> DEFINE d == [call[q] EXCEPT !.expires = sess[call[q].sid].expires]
               c == [d EXCEPT !.at = "stamp"]
    <3>1. sess[call[q].sid].expires \in Nat
      BY <1>0, <1>1, <2>3 DEF StoredSessions
    <3>2. d \in Calls /\ d.sid = call[q].sid
      BY <1>0, <3>1 DEF Calls
    <3>3. "stamp" \in Steps
      BY DEF Steps
    <3>4. c \in Calls /\ c.at = "stamp" /\ c.sid = call[q].sid
      <4> HIDE DEF d
      <4> QED
        BY <3>2, <3>3, CallAt
    <3>5. call' = [call EXCEPT ![q] = c]
      BY <1>0, <2>3
    <3>6. call[q].sid \in cookies
      BY <1>0, <1>9 DEF Get, PlacedAt
    <3> HIDE DEF c
    <3> QED
      BY <1>0, <1>8, <2>1, <3>4, <3>5, <3>6
  <2> QED
    BY <1>9, <2>2, <2>3 DEF Get, Answer
<1>10. CASE Stamp(q)
  <2> DEFINE x == IF call[q].expires <= now THEN "discard" ELSE "refresh"
             d == [call[q] EXCEPT !.stamp = now]
             c == [d EXCEPT !.at = x]
  <2>1. UNCHANGED <<cookies, sess, unused, ended>> /\ call[q].sid \in cookies
    BY <1>0, <1>10 DEF Stamp, sessionVars, PlacedAt
  <2>2. d \in Calls /\ d.sid = call[q].sid
    BY <1>0 DEF Calls
  <2>3. x \in Steps /\ x \in {"discard", "refresh"}
    BY DEF Steps
  <2>4. c \in Calls /\ c.at = x /\ c.sid = call[q].sid
    <3> HIDE DEF d, x
    <3> QED
      BY <2>2, <2>3, CallAt
  <2>5. call' = [call EXCEPT ![q] = c]
    BY <1>0, <1>10 DEF Stamp
  <2> HIDE DEF c, x
  <2> QED
    BY <1>0, <1>8, <2>1, <2>3, <2>4, <2>5
<1>11. CASE Discard(q) \/ Revoke(q)
  <2>1. call' = [call EXCEPT ![q] = BlankCall] /\ UNCHANGED <<cookies, unused>>
    BY <1>11 DEF Discard, Revoke, Answer
  <2>2. sess' \in [Sids -> StoredSessions \cup {NoSession}]
    BY <1>0, <1>11 DEF Discard, Revoke
  <2>3. ended' \in [Sids -> {"no", "lost", "alone", "raced"}]
    BY <1>0, <1>1, <1>3, <1>11 DEF Discard, Revoke
  <2> QED
    BY <1>0, <1>8, <2>1, <2>2, <2>3, BlankTyped
<1>12. CASE Refresh(q)
  <2>1. /\ UNCHANGED cookies /\ call[q].sid \in cookies
        /\ ended' \in [Sids -> {"no", "lost", "alone", "raced"}]
    BY <1>0, <1>1, <1>12 DEF Refresh, PlacedAt, Restored
  <2>2. sess' \in [Sids -> StoredSessions \cup {NoSession}] /\ unused' \in [Sids -> 0..IdleTtl]
    BY <1>0, <1>1, <1>2, <1>4, <1>12 DEF Refresh
  <2>3. CASE call' = [call EXCEPT ![q] = BlankCall]
    BY <1>0, <1>8, <2>1, <2>2, <2>3, BlankTyped
  <2>4. CASE call' = [call EXCEPT ![q].at = "revoke"]
    <3> DEFINE c == [call[q] EXCEPT !.at = "revoke"]
    <3>1. c \in Calls /\ c.at = "revoke" /\ c.sid = call[q].sid
      BY <1>0, CallAt DEF Steps
    <3>2. call' = [call EXCEPT ![q] = c]
      BY <2>4
    <3> HIDE DEF c
    <3> QED
      BY <1>0, <1>8, <2>1, <2>2, <3>1, <3>2
  <2> QED
    BY <1>12, <2>3, <2>4 DEF Refresh, Goto, Answer
<1> QED
  BY <1>7, <1>9, <1>10, <1>11, <1>12 DEF ValidateStep

\* The other steps of a request.
LEMMA RequestTyped ==
  ASSUME TypeOK, Placed, NEW q \in Requests,
         \/ Login(q) \/ NotAnExpert(q) \/ Expert(q) \/ RequestDies(q)
         \/ \E s \in Sids, logout \in BOOLEAN : Authenticate(q, s, logout)
  PROVE  TypeOK' /\ Placed'
<1>0. /\ call \in [Requests -> Calls] /\ call[q] \in Calls /\ now \in Nat
      /\ sess \in [Sids -> StoredSessions \cup {NoSession}] /\ cookies \subseteq minted
      /\ ended \in [Sids -> {"no", "lost", "alone", "raced"}] /\ unused \in [Sids -> 0..IdleTtl]
      /\ minted \in SUBSET Sids /\ born \in [Sids -> Nat]
      /\ {"lookup", "get", "issue"} \subseteq Steps
  BY HorizonAssumption DEF TypeOK, Steps
<1>1. \A p \in Requests \ {q} : call[p].at = "issue" => call[p].sid \notin cookies
  BY DEF Placed, PlacedAt
<1>2. ASSUME NEW c \in Calls, call' = [call EXCEPT ![q] = c],
             UNCHANGED <<now, limiterVars, sessionVars>>,
             c.at \in {"idle", "lookup", "get"}, c.at = "get" => c.sid \in cookies
      PROVE  TypeOK' /\ Placed'
  BY <1>0, <1>1, <1>2, SessionStep DEF limiterVars, sessionVars
<1>3. CASE Login(q)
  <2> DEFINE c == [call[q] EXCEPT !.at = "lookup"]
  <2>1. c \in Calls /\ c.at = "lookup"
    BY <1>0, CallAt
  <2>2. call' = [call EXCEPT ![q] = c]
    BY <1>3 DEF Login, Goto
  <2> HIDE DEF c
  <2> QED
    BY <1>2, <1>3, <2>1, <2>2 DEF Login
<1>4. CASE NotAnExpert(q) \/ RequestDies(q)
  BY <1>2, <1>4, BlankTyped DEF NotAnExpert, RequestDies, Answer
<1>5. ASSUME NEW s \in Sids, NEW logout \in BOOLEAN, Authenticate(q, s, logout)
      PROVE  TypeOK' /\ Placed'
  <2> DEFINE d == [call[q] EXCEPT !.sid = s, !.logout = logout]
             c == [d EXCEPT !.at = "get"]
  <2>1. d \in Calls /\ d.sid = s
    BY <1>0 DEF Calls
  <2>2. c \in Calls /\ c.at = "get" /\ c.sid = s
    <3> HIDE DEF d
    <3> QED
      BY <1>0, <2>1, CallAt
  <2>3. call' = [call EXCEPT ![q] = c] /\ s \in cookies
    BY <1>0, <1>5 DEF Authenticate
  <2> HIDE DEF c
  <2> QED
    BY <1>2, <1>5, <2>2, <2>3 DEF Authenticate
<1>6. ASSUME NEW s \in Sids, Mint(q, s), UNCHANGED limiterVars
      PROVE  TypeOK' /\ Placed'
  <2> DEFINE d == [call[q] EXCEPT !.sid = s, !.expires = now + AbsoluteTtl]
             c == [d EXCEPT !.at = "issue"]
  <2>0. now + AbsoluteTtl \in Nat
    BY <1>0, TtlAssumption
  <2>1. d \in Calls /\ d.sid = s
    BY <1>0, <2>0 DEF Calls
  <2>2. c \in Calls /\ c.at = "issue" /\ c.sid = s
    <3> HIDE DEF d
    <3> QED
      BY <1>0, <2>1, CallAt
  <2>3. call' = [call EXCEPT ![q] = c]
    BY <1>0, <1>6 DEF Mint
  <2>4. /\ minted' = minted \cup {s} /\ s \notin minted /\ born' \in [Sids -> Nat]
        /\ UNCHANGED <<now, sess, cookies, unused, ended, limiter, buckets>>
    BY <1>0, <1>6 DEF Mint, limiterVars
  <2> HIDE DEF c
  <2> QED
    BY <1>0, <1>1, <2>2, <2>3, <2>4, SessionStep
<1> QED
  BY <1>3, <1>4, <1>5, <1>6 DEF Expert

LEMMA StepTyped == TypeOK /\ Placed /\ [Next]_vars => TypeOK' /\ Placed'
<1> SUFFICES ASSUME TypeOK, Placed, [Next]_vars PROVE TypeOK' /\ Placed'
  OBVIOUS
<1>1. ASSUME NEW q \in Requests, HandlerStep(q) PROVE TypeOK' /\ Placed'
  BY <1>1, LimiterTyped, SessionTyped DEF HandlerStep
<1>2. CASE ApiRestart
  <2>1. call' = [q \in Requests |-> BlankCall] /\ limiter' = 0 /\ buckets' = <<>>
        /\ UNCHANGED <<now, sessionVars>>
    BY <1>2 DEF ApiRestart
  <2> QED
    BY <2>1, BlankTyped DEF TypeOK, Placed, PlacedAt, sessionVars
<1>3. CASE Tick /\ UNCHANGED limiterVars
  <2>1. UNCHANGED <<call, minted, cookies, born, ended, limiter, buckets>>
    BY <1>3 DEF Tick, limiterVars
  <2>2. now' \in 0..Horizon /\ unused' \in [Sids -> 0..IdleTtl]
    BY <1>3, HorizonAssumption, TtlAssumption DEF Tick, TypeOK
  <2>3. sess' \in [Sids -> StoredSessions \cup {NoSession}]
    <3>1. ASSUME NEW s \in Sids, ~(sess[s].ttl <= 1)
          PROVE  [sess[s] EXCEPT !.ttl = @ - 1] \in StoredSessions
      <4>1. sess[s] \in StoredSessions
        BY <3>1 DEF TypeOK, NoSession
      <4> QED
        BY <3>1, <4>1, TtlAssumption DEF StoredSessions
    <3> QED
      BY <1>3, <3>1 DEF Tick
  <2>4. Placed'
    BY <2>1 DEF Placed, PlacedAt
  <2> QED
    BY <2>1, <2>2, <2>3, <2>4 DEF TypeOK
<1>4. CASE SessionsLost /\ UNCHANGED limiterVars
  <2>1. UNCHANGED <<now, call, minted, cookies, born, unused, limiter, buckets>>
    BY <1>4 DEF SessionsLost, limiterVars
  <2>2. /\ sess' \in [Sids -> StoredSessions \cup {NoSession}]
        /\ ended' \in [Sids -> {"no", "lost", "alone", "raced"}]
    BY <1>4 DEF SessionsLost, TypeOK
  <2>3. Placed'
    BY <2>1 DEF Placed, PlacedAt
  <2> QED
    BY <2>1, <2>2, <2>3 DEF TypeOK
<1>5. CASE UNCHANGED vars
  BY <1>5 DEF vars, limiterVars, sessionVars, TypeOK, Placed, PlacedAt
<1> QED
  BY <1>1, <1>2, <1>3, <1>4, <1>5, RequestTyped DEF Next

LEMMA PlacedInvariant == Spec => [](TypeOK /\ Placed)
BY InitTyped, StepTyped, PTL DEF Spec

\* The variables keep their types.
THEOREM AuthTypeCorrect == Spec => []TypeOK
BY PlacedInvariant, PTL

-----------------------------------------------------------------------------
(***************************************************************************)
(* The sessions.  Every copy of a session, the stored one and those that   *)
(* calls hold, has the hard expiry the login gave it; the TTL of a key     *)
(* counts down what is left of IdleTtl; and once a logout has deleted a    *)
(* session that no call holds, nothing writes it again.                    *)
(***************************************************************************)
Expiry(s) == born[s] + AbsoluteTtl

Dated ==
  /\ \A s \in Sids : sess[s] # NoSession => s \in minted /\ sess[s].expires = Expiry(s)
  /\ \A q \in Requests :
       /\ call[q].at \in {"issue", "stamp", "refresh", "discard"}
            => call[q].expires = Expiry(call[q].sid)
       /\ call[q].at \in {"refresh", "revoke"} => call[q].stamp < Expiry(call[q].sid)
       /\ call[q].at = "discard" => Expiry(call[q].sid) <= now

Counted ==
  \A s \in cookies : ended[s] = "no" /\ now < Expiry(s) /\ unused[s] < IdleTtl
    => sess[s] # NoSession /\ sess[s].ttl = IdleTtl - unused[s]

Deleted ==
  \A s \in Sids :
    /\ ended[s] # "no" => s \in cookies
    /\ ended[s] = "alone" => sess[s] = NoSession /\ \A q \in Requests : ~Holds(q, s)

Working == {"issue", "stamp", "refresh", "discard", "revoke"}

\* A step that is not about a session leaves the calls alone that are.
LEMMA OneCall ==
  ASSUME TypeOK, NEW q \in Requests, NEW c, call' = [call EXCEPT ![q] = c]
  PROVE  call'[q] = c /\ \A p \in Requests \ {q} : call'[p] = call[p]
BY DEF TypeOK

LEMMA Elsewhere ==
  ASSUME TypeOK, [Next]_vars,
         ~(\E q \in Requests : ValidateStep(q) \/ Expert(q)), ~Tick, ~SessionsLost
  PROVE  /\ UNCHANGED <<now, sessionVars>>
         /\ \A p \in Requests : call'[p] = call[p] \/ call'[p].at \notin Working
<1>1. ASSUME NEW q \in Requests, NEW x \in Steps \ Working, Goto(q, x)
      PROVE  \A p \in Requests : call'[p] = call[p] \/ call'[p].at \notin Working
  BY <1>1 DEF Goto, TypeOK, Calls
<1>2. ASSUME NEW q \in Requests, Answer(q)
      PROVE  \A p \in Requests : call'[p] = call[p] \/ call'[p].at \notin Working
  BY <1>2, BlankTyped DEF Answer, TypeOK, Working
<1>3. ASSUME NEW q \in Requests, LimiterStep(q), UNCHANGED sessionVars
      PROVE  /\ UNCHANGED <<now, sessionVars>>
             /\ \A p \in Requests : call'[p] = call[p] \/ call'[p].at \notin Working
  <2>1. CASE LookUp(q) \/ Make(q) \/ Admit(q) \/ Refuse(q)
    BY <1>1, <1>2, <1>3, <2>1 DEF LookUp, Make, Admit, Refuse, Steps, Working
  <2>2. CASE Fetch(q) \/ ReadClock(q)
    BY <1>3, <2>2 DEF Fetch, ReadClock, TypeOK, Calls, Working
  <2> QED
    BY <1>3, <2>1, <2>2 DEF LimiterStep
<1>4. ASSUME NEW q \in Requests, Login(q) \/ NotAnExpert(q) \/ RequestDies(q)
      PROVE  /\ UNCHANGED <<now, sessionVars>>
             /\ \A p \in Requests : call'[p] = call[p] \/ call'[p].at \notin Working
  BY <1>1, <1>2, <1>4 DEF Login, NotAnExpert, RequestDies, Steps, Working
<1>5. ASSUME NEW q \in Requests, NEW s \in Sids, NEW logout \in BOOLEAN,
             Authenticate(q, s, logout)
      PROVE  /\ UNCHANGED <<now, sessionVars>>
             /\ \A p \in Requests : call'[p] = call[p] \/ call'[p].at \notin Working
  BY <1>5 DEF Authenticate, TypeOK, Calls, Working
<1>6. ApiRestart => /\ UNCHANGED <<now, sessionVars>>
                    /\ \A p \in Requests : call'[p].at \notin Working
  BY BlankTyped DEF ApiRestart, Working
<1>7. UNCHANGED vars => UNCHANGED <<now, sessionVars, call>>
  BY DEF vars
<1> QED
  BY <1>3, <1>4, <1>5, <1>6, <1>7 DEF Next, HandlerStep

SessionInvariant == Dated /\ Counted /\ Deleted

LEMMA SessionsElsewhere ==
  ASSUME SessionInvariant, UNCHANGED <<now, sessionVars>>,
         \A p \in Requests : call'[p] = call[p] \/ call'[p].at \notin Working
  PROVE  SessionInvariant'
BY DEF SessionInvariant, Dated, Counted, Deleted, sessionVars, Working, Expiry, Holds

\* A call at work on a session.
LEMMA SessionsKept ==
  ASSUME TypeOK, Placed, SessionInvariant, NEW q \in Requests,
         ValidateStep(q) \/ Expert(q)
  PROVE  SessionInvariant'
<1> DEFINE s == call[q].sid
<1>0. /\ call \in [Requests -> Calls] /\ call[q] \in Calls /\ now \in Nat /\ s \in Sids
      /\ sess \in [Sids -> StoredSessions \cup {NoSession}] /\ born \in [Sids -> Nat]
      /\ unused \in [Sids -> 0..IdleTtl] /\ cookies \subseteq minted
      /\ ended \in [Sids -> {"no", "lost", "alone", "raced"}]
      /\ call[q].expires \in Nat
  BY HorizonAssumption DEF TypeOK, Calls
<1>1. Dated /\ Counted /\ Deleted /\ PlacedAt(q)
  BY DEF SessionInvariant, Placed
<1>2. Stored(call[q].expires) # NoSession /\ Stored(call[q].expires).expires = call[q].expires
      /\ Stored(call[q].expires).ttl = IdleTtl
  BY TtlAssumption DEF Stored, NoSession
<1>3. CASE Expert(q)
  <2>1. PICK t \in Sids : Mint(q, t)
    BY <1>3 DEF Expert
  <2>2. /\ t \notin minted /\ UNCHANGED <<now, sess, cookies, unused, ended>>
        /\ minted' = minted \cup {t} /\ born'[t] = now
        /\ \A u \in Sids \ {t} : born'[u] = born[u]
    BY <1>0, <2>1 DEF Mint
  <2>3. /\ call'[q].at = "issue" /\ call'[q].sid = t
        /\ call'[q].expires = now + AbsoluteTtl
        /\ \A p \in Requests \ {q} : call'[p] = call[p]
    BY <1>0, <2>1 DEF Mint, Calls
  <2>4. \A p \in Requests \ {q} : call[p].at \in Working => call[p].sid \in minted
    <3> SUFFICES ASSUME NEW p \in Requests \ {q}, call[p].at \in Working
                 PROVE  call[p].sid \in minted
      OBVIOUS
    <3>1. PlacedAt(p)
      BY DEF Placed
    <3> QED
      BY <1>0, <3>1 DEF PlacedAt, Working
  <2>5. Dated'
    <3>1. \A u \in minted : Expiry(u)' = Expiry(u)
      BY <1>0, <2>2 DEF Expiry, TypeOK
    <3>2. Expiry(t)' = now + AbsoluteTtl
      BY <2>2 DEF Expiry
    <3>3. ASSUME NEW u \in Sids, sess'[u] # NoSession
          PROVE  u \in minted' /\ sess'[u].expires = Expiry(u)'
      BY <1>1, <2>2, <3>1, <3>3 DEF Dated
    <3>4. ASSUME NEW p \in Requests
          PROVE  LET end == born'[call'[p].sid] + AbsoluteTtl IN
                   /\ call'[p].at \in {"issue", "stamp", "refresh", "discard"}
                        => call'[p].expires = end
                   /\ call'[p].at \in {"refresh", "revoke"} => call'[p].stamp < end
                   /\ call'[p].at = "discard" => end <= now'
      <4>1. CASE p = q
        BY <2>2, <2>3, <4>1
      <4>2. CASE p # q
        <5>1. call'[p] = call[p]
          BY <2>3, <4>2
        <5>2. call[p].at \in Working => born'[call[p].sid] = born[call[p].sid]
          BY <1>0, <2>2, <2>4, <4>2 DEF Calls, TypeOK
        <5> QED
          BY <1>1, <2>2, <5>1, <5>2 DEF Dated, Working, Expiry
      <4> QED
        BY <4>1, <4>2
    <3> QED
      BY <3>3, <3>4 DEF Dated, Expiry
  <2>6. Counted'
    <3>1. \A u \in cookies : u # t /\ u \in Sids
      BY <1>0, <2>2 DEF TypeOK
    <3> QED
      BY <1>1, <2>2, <3>1 DEF Counted, Expiry
  <2>7. Deleted'
    BY <1>0, <1>1, <2>2, <2>3 DEF Deleted, Holds
  <2> QED
    BY <2>5, <2>6, <2>7 DEF SessionInvariant
<1>4. CASE Issue(q)
  <2>1. /\ call[q].at = "issue" /\ s \in minted \ cookies
        /\ cookies' \in {cookies, cookies \cup {s}}
        /\ sess' = [sess EXCEPT ![s] = Stored(call[q].expires)]
        /\ unused' = [unused EXCEPT ![s] = 0] /\ UNCHANGED <<now, minted, born, ended>>
    BY <1>1, <1>4 DEF Issue, PlacedAt
  <2>2. call'[q].at = "idle" /\ \A p \in Requests \ {q} : call'[p] = call[p]
    BY <1>4, BlankTyped, OneCall DEF Issue, Answer
  <2>3. call[q].expires = Expiry(s)
    BY <1>1, <2>1 DEF Dated
  <2>4. Dated'
    BY <1>0, <1>1, <1>2, <2>1, <2>2, <2>3 DEF Dated, Expiry
  <2>5. Counted'
    <3> SUFFICES ASSUME NEW u \in cookies', ended[u] = "no", now < Expiry(u), unused'[u] < IdleTtl
                 PROVE  sess'[u] # NoSession /\ sess'[u].ttl = IdleTtl - unused'[u]
      BY <2>1 DEF Counted, Expiry
    <3>1. CASE u = s
      BY <1>0, <1>2, <2>1, <3>1, TtlAssumption
    <3>2. CASE u # s
      BY <1>0, <1>1, <2>1, <3>2 DEF Counted, TypeOK
    <3> QED
      BY <3>1, <3>2
  <2>6. Deleted'
    BY <1>0, <1>1, <2>1, <2>2 DEF Deleted, Holds
  <2> QED
    BY <2>4, <2>5, <2>6 DEF SessionInvariant
<1>5. CASE Get(q)
  <2>1. UNCHANGED <<now, sess, minted, cookies, born, unused, ended>>
    BY <1>5 DEF Get, sessionVars
  <2>2. /\ \A p \in Requests \ {q} : call'[p] = call[p]
        /\ \/ call'[q].at = "idle"
           \/ /\ sess[s] # NoSession /\ call'[q].at = "stamp" /\ call'[q].sid = s
              /\ call'[q].expires = sess[s].expires
    BY <1>0, <1>5, BlankTyped DEF Get, Answer, Calls
  <2>3. Dated'
    BY <1>0, <1>1, <2>1, <2>2 DEF Dated, Expiry
  <2>4. Counted'
    BY <1>1, <2>1 DEF Counted, Expiry
  <2>5. Deleted'
    BY <1>0, <1>1, <2>1, <2>2 DEF Deleted, Holds
  <2> QED
    BY <2>3, <2>4, <2>5 DEF SessionInvariant
<1>6. CASE Stamp(q)
  <2>1. UNCHANGED <<now, sess, minted, cookies, born, unused, ended>>
    BY <1>6 DEF Stamp, sessionVars
  <2>2. /\ \A p \in Requests \ {q} : call'[p] = call[p]
        /\ call[q].at = "stamp" /\ call'[q].sid = s /\ call'[q].stamp = now
        /\ call'[q].expires = call[q].expires
        /\ \/ call'[q].at = "discard" /\ call[q].expires <= now
           \/ call'[q].at = "refresh" /\ ~(call[q].expires <= now)
    BY <1>0, <1>6 DEF Stamp, Calls
  <2>3. call[q].expires = Expiry(s)
    BY <1>1, <2>2 DEF Dated
  <2>4. Dated'
    BY <1>0, <1>1, <2>1, <2>2, <2>3 DEF Dated, Expiry
  <2>5. Counted'
    BY <1>1, <2>1 DEF Counted, Expiry
  <2>6. Deleted'
    BY <1>0, <1>1, <2>1, <2>2 DEF Deleted, Holds
  <2> QED
    BY <2>4, <2>5, <2>6 DEF SessionInvariant
<1>7. CASE Discard(q)
  <2>1. /\ UNCHANGED <<now, minted, cookies, born, unused, ended>>
        /\ sess' = [sess EXCEPT ![s] = NoSession] /\ call[q].at = "discard"
    BY <1>7 DEF Discard
  <2>2. call'[q].at = "idle" /\ \A p \in Requests \ {q} : call'[p] = call[p]
    BY <1>7, BlankTyped, OneCall DEF Discard, Answer
  <2>3. Expiry(s) <= now
    BY <1>1, <2>1 DEF Dated
  <2>4. Dated'
    BY <1>0, <1>1, <2>1, <2>2 DEF Dated, Expiry
  <2>5. Counted'
    BY <1>0, <1>1, <2>1, <2>3, TtlAssumption DEF Counted, Expiry, TypeOK
  <2>6. Deleted'
    BY <1>0, <1>1, <2>1, <2>2 DEF Deleted, Holds
  <2> QED
    BY <2>4, <2>5, <2>6 DEF SessionInvariant
<1>8. CASE Refresh(q)
  <2>1. /\ UNCHANGED <<now, minted, cookies, born>> /\ call[q].at = "refresh"
        /\ sess' = [sess EXCEPT ![s] = Stored(call[q].expires)]
        /\ unused' = [unused EXCEPT ![s] = 0]
        /\ ended' = [ended EXCEPT ![s] = Restored(s)]
        /\ Restored(s) \in {"no", ended[s]}
    BY <1>8 DEF Refresh, Restored
  <2>2. /\ \A p \in Requests \ {q} : call'[p] = call[p]
        /\ \/ call'[q].at = "idle"
           \/ call'[q].at = "revoke" /\ call'[q].sid = s /\ call'[q].stamp = call[q].stamp
    BY <1>0, <1>8, BlankTyped DEF Refresh, Goto, Answer, Calls
  <2>3. call[q].expires = Expiry(s) /\ call[q].stamp < Expiry(s) /\ s \in minted
    BY <1>0, <1>1, <2>1 DEF Dated, PlacedAt
  <2>4. ended[s] # "alone"
    BY <1>0, <1>1, <2>1 DEF Deleted, Holds
  <2>5. Dated'
    BY <1>0, <1>1, <1>2, <2>1, <2>2, <2>3 DEF Dated, Expiry
  <2>6. Counted'
    BY <1>0, <1>1, <1>2, <2>1, TtlAssumption DEF Counted, Expiry
  <2>7. Deleted'
    BY <1>0, <1>1, <2>1, <2>2, <2>4 DEF Deleted, Holds
  <2> QED
    BY <2>5, <2>6, <2>7 DEF SessionInvariant
<1>9. CASE Revoke(q)
  <2>1. /\ UNCHANGED <<now, minted, cookies, born, unused>> /\ s \in cookies
        /\ sess' = [sess EXCEPT ![s] = NoSession]
        /\ ended' = [ended EXCEPT ![s] = Ending(s)]
    BY <1>1, <1>9 DEF Revoke, PlacedAt
  <2>2. call'[q].at = "idle" /\ \A p \in Requests \ {q} : call'[p] = call[p]
    BY <1>9, BlankTyped, OneCall DEF Revoke, Answer
  <2>3. Ending(s) # "no" /\ (Ending(s) = "alone" => \A p \in Requests : ~Holds(p, s))
    BY DEF Ending
  <2>4. Dated'
    BY <1>0, <1>1, <2>1, <2>2 DEF Dated, Expiry
  <2>5. Counted'
    BY <1>0, <1>1, <2>1, <2>3 DEF Counted, Expiry
  <2>6. Deleted'
    BY <1>0, <1>1, <2>1, <2>2, <2>3 DEF Deleted, Holds
  <2> QED
    BY <2>4, <2>5, <2>6 DEF SessionInvariant
<1> QED
  BY <1>3, <1>4, <1>5, <1>6, <1>7, <1>8, <1>9 DEF ValidateStep

LEMMA SessionsInductive ==
  TypeOK /\ Placed /\ SessionInvariant /\ [Next]_vars => SessionInvariant'
<1> SUFFICES ASSUME TypeOK, Placed, SessionInvariant, [Next]_vars PROVE SessionInvariant'
  OBVIOUS
<1>1. Dated /\ Counted /\ Deleted
  BY DEF SessionInvariant
<1>2. CASE \E q \in Requests : ValidateStep(q) \/ Expert(q)
  BY <1>2, SessionsKept
<1>3. CASE Tick
  <2>1. UNCHANGED <<call, minted, cookies, born, ended>> /\ now <= now' /\ now \in Nat /\ now' \in Nat
    BY <1>3, HorizonAssumption DEF Tick, TypeOK
  <2>2. ASSUME NEW s \in Sids, sess'[s] # NoSession
        PROVE  sess[s] # NoSession /\ sess'[s].expires = sess[s].expires
    <3>1. sess[s] # NoSession /\ sess'[s] = [sess[s] EXCEPT !.ttl = @ - 1]
      BY <1>3, <2>2 DEF Tick, NoSession
    <3>2. sess[s] \in StoredSessions
      BY <3>1 DEF TypeOK
    <3> QED
      BY <3>1, <3>2 DEF StoredSessions
  <2>3. Dated'
    <3>1. \A q \in Requests : call[q].at = "discard" => Expiry(call[q].sid) <= now'
      BY <1>1, <2>1, TtlAssumption DEF Dated, Expiry, TypeOK, Calls
    <3> QED
      BY <1>1, <2>1, <2>2, <3>1 DEF Dated, Expiry
  <2>4. ASSUME NEW s \in cookies, ended[s] = "no", now' < Expiry(s), unused'[s] < IdleTtl
        PROVE  sess'[s] # NoSession /\ sess'[s].ttl = IdleTtl - unused'[s]
    <3>1. s \in Sids /\ unused[s] \in 0..IdleTtl /\ born[s] \in Nat
      BY DEF TypeOK
    <3>2. unused[s] < IdleTtl /\ unused'[s] = unused[s] + 1
      BY <1>3, <2>4, <3>1, TtlAssumption DEF Tick
    <3>3. now < Expiry(s)
      BY <2>1, <2>4, <3>1, TtlAssumption DEF Expiry
    <3>4. sess[s] # NoSession /\ sess[s].ttl = IdleTtl - unused[s]
      BY <1>1, <2>4, <3>2, <3>3 DEF Counted
    <3>5. ~(sess[s].ttl <= 1) /\ sess[s] \in StoredSessions
      BY <2>4, <3>1, <3>2, <3>4, TtlAssumption DEF TypeOK
    <3>6. sess'[s] = [sess[s] EXCEPT !.ttl = @ - 1]
      BY <1>3, <3>1, <3>5 DEF Tick
    <3>7. sess'[s].ttl = sess[s].ttl - 1
      BY <3>5, <3>6 DEF StoredSessions
    <3>8. sess'[s].ttl = IdleTtl - unused'[s]
      BY <3>1, <3>2, <3>4, <3>7, TtlAssumption
    <3>9. sess'[s].ttl # 0
      BY <2>4, <3>1, <3>2, <3>8, TtlAssumption
    <3> QED
      BY <3>8, <3>9 DEF NoSession
  <2>5. Counted'
    BY <2>1, <2>4 DEF Counted, Expiry
  <2>6. Deleted'
    BY <1>1, <2>1, <2>2 DEF Deleted, Holds
  <2> QED
    BY <2>3, <2>5, <2>6 DEF SessionInvariant
<1>4. CASE SessionsLost
  <2>1. /\ UNCHANGED <<now, call, minted, cookies, born, unused>>
        /\ \A s \in Sids : sess'[s] = NoSession
        /\ \A s \in Sids : \/ ended'[s] = ended[s]
                           \/ ended'[s] = "lost" /\ s \in cookies
        /\ \A s \in cookies : ended'[s] = "no" => sess[s] = NoSession /\ ended[s] = "no"
    BY <1>4 DEF SessionsLost, TypeOK
  <2>2. \A s \in cookies : ended'[s] = "no" => ~(now < Expiry(s) /\ unused[s] < IdleTtl)
    BY <1>1, <2>1 DEF Counted
  <2>3. cookies \subseteq Sids
    BY DEF TypeOK
  <2>4. Dated' /\ Counted'
    BY <1>1, <2>1, <2>2, <2>3 DEF Dated, Counted, Expiry
  <2>5. Deleted'
    BY <1>1, <2>1, <2>2 DEF Deleted, Holds
  <2> QED
    BY <2>4, <2>5 DEF SessionInvariant
<1> QED
  BY <1>2, <1>3, <1>4, Elsewhere, SessionsElsewhere

LEMMA SessionsInvariant == Spec => []SessionInvariant
<1>1. Init => SessionInvariant
  BY DEF Init, AuthStateInit, SessionsInit, SessionInvariant, Dated, Counted, Deleted,
     BlankCall, Holds
<1> QED
  BY <1>1, SessionsInductive, PlacedInvariant, PTL DEF Spec

\* A request is accepted less than AbsoluteTtl after the login.
THEOREM ExpiryIsHard == Spec => []HardExpiry
<1>1. SessionInvariant => HardExpiry
  BY DEF SessionInvariant, Dated, HardExpiry, Expiry
<1> QED
  BY <1>1, SessionsInvariant, PTL

\* A session that is used lasts until its hard expiry.
THEOREM UsedIsKept == Spec => []KeptWhileUsed
<1>1. SessionInvariant => KeptWhileUsed
  BY DEF SessionInvariant, Counted, KeptWhileUsed, Expiry
<1> QED
  BY <1>1, SessionsInvariant, PTL

\* A session that a logout deletes while no call holds it stays deleted.
THEOREM DeletionLasts == Spec => []DeletedForGood
<1>1. SessionInvariant => DeletedForGood
  BY DEF SessionInvariant, Deleted, DeletedForGood
<1> QED
  BY <1>1, SessionsInvariant, PTL
=============================================================================
