--------------------------- MODULE LimiterProofs ---------------------------
(***************************************************************************)
(* Theorems about the login limiter, for any number of requests and every  *)
(* capacity and window.                                                    *)
(***************************************************************************)
EXTENDS AuthProofs

(***************************************************************************)
(* A bucket never holds more than Capacity times, and what it has dropped  *)
(* is older than Window by now: the time a call gives it is not ahead of   *)
(* the clock.                                                              *)
(***************************************************************************)
Held(b) ==
  /\ b.head <= Len(b.log) + 1
  /\ Len(b.log) - b.head + 1 <= Capacity
  /\ \A i \in 1 .. b.head - 1 : b.log[i] < now - Window

Filled ==
  /\ \A i \in 1..Len(buckets) : Held(buckets[i])
  /\ \A q \in Requests : call[q].at = "count" => call[q].stamp <= now

\* Who is about to make a bucket saw none: at most one each.
Makers == {q \in Requests : call[q].at = "make"}
FewMade ==
  /\ limiter = 0 => Len(buckets) = 0
  /\ Len(buckets) + Cardinality(Makers) <= Cardinality(Requests)

\* What popleft leaves: the same log, whose first time is recent if any is.
LEMMA PoppedHeld ==
  ASSUME NEW b \in Buckets, Held(b), NEW stamp \in Nat, now \in Nat, stamp <= now,
         NEW c \in Popped(b, stamp - Window)
  PROVE  /\ c \in Buckets /\ Held(c) /\ c.log = b.log
         /\ c.head <= Len(c.log) => c.log[c.head] >= stamp - Window
<1>0. b.log \in Seq(Nat) /\ Len(b.log) \in Nat /\ b.head \in Nat \ {0} /\ Window \in Nat
  BY LimiterAssumption DEF Buckets
<1>1. PICK h \in b.head .. Len(b.log) + 1 :
        /\ c = [b EXCEPT !.head = h]
        /\ \A i \in b.head .. h - 1 : b.log[i] < stamp - Window
        /\ h <= Len(b.log) => b.log[h] >= stamp - Window
  BY DEF Popped
<1>2. c \in Buckets /\ c.log = b.log /\ c.head = h
  BY <1>0, <1>1 DEF Buckets
<1>3. ASSUME NEW i \in 1 .. h - 1 PROVE b.log[i] < now - Window
  <2>1. h \in Nat /\ h <= Len(b.log) + 1 /\ i \in Nat /\ 1 <= i /\ i <= h - 1
    BY <1>0, <1>1
  <2>2. b.log[i] \in Nat
    <3>1. i \in 1..Len(b.log)
      BY <1>0, <2>1
    <3> QED
      BY <1>0, <3>1
  <2>3. CASE i < b.head
    BY <1>0, <2>1, <2>3 DEF Held
  <2>4. CASE i >= b.head
    <3>1. b.log[i] < stamp - Window
      BY <1>0, <1>1, <2>1, <2>4
    <3>2. \A x, y, z, w \in Int : x < y - w /\ y <= z => x < z - w
      OBVIOUS
    <3>3. b.log[i] \in Int /\ stamp \in Int /\ now \in Int /\ Window \in Int
      BY <1>0, <2>2
    <3> QED
      BY <3>1, <3>2, <3>3
  <2> QED
    BY <1>0, <2>1, <2>3, <2>4
<1>4. h <= Len(b.log) + 1 /\ Len(b.log) - h + 1 <= Capacity
  <2>1. h \in Nat /\ b.head <= h /\ h <= Len(b.log) + 1
    BY <1>0, <1>1
  <2> QED
    BY <1>0, <2>1, LimiterAssumption DEF Held
<1> QED
  BY <1>1, <1>2, <1>3, <1>4 DEF Held

\* A bucket with room takes one time more.
LEMMA AppendHeld ==
  ASSUME NEW b \in Buckets, Held(b), HasRoom(b), NEW stamp \in Nat
  PROVE  Held([b EXCEPT !.log = Append(@, stamp)])
<1> DEFINE c == [b EXCEPT !.log = Append(@, stamp)]
<1>1. /\ b.log \in Seq(Nat) /\ Len(b.log) \in Nat /\ b.head \in Nat \ {0}
      /\ c.log = Append(b.log, stamp) /\ c.head = b.head
  BY DEF Buckets
<1>2. /\ Len(c.log) = Len(b.log) + 1
      /\ \A i \in 1..Len(b.log) : c.log[i] = b.log[i]
  BY <1>1
<1> HIDE DEF c
<1>3. c.head <= Len(c.log) + 1 /\ Len(c.log) - c.head + 1 <= Capacity
  BY <1>1, <1>2, LimiterAssumption DEF Held, HasRoom
<1>4. \A i \in 1 .. c.head - 1 : c.log[i] < now - Window
  BY <1>1, <1>2 DEF Held
<1>5. Held(c)
  BY <1>3, <1>4 DEF Held
<1> QED
  BY <1>5 DEF c

\* A time that is older than the window stays so.
LEMMA HeldLater ==
  ASSUME NEW b \in Buckets, Held(b), now \in Nat, now' \in Nat, now <= now'
  PROVE  /\ b.head <= Len(b.log) + 1
         /\ Len(b.log) - b.head + 1 <= Capacity
         /\ \A i \in 1 .. b.head - 1 : b.log[i] < now' - Window
<1>1. ASSUME NEW i \in 1 .. b.head - 1 PROVE b.log[i] < now' - Window
  <2>1. b.log[i] \in Nat /\ b.log[i] < now - Window
    BY DEF Held, Buckets
  <2> QED
    BY <2>1, LimiterAssumption
<1> QED
  BY <1>1 DEF Held

\* The steps that are not the limiter's.
LEMMA LimiterElsewhere ==
  ASSUME TypeOK, Placed, [Next]_vars,
         ~ApiRestart, ~\E q \in Requests : LimiterStep(q)
  PROVE  /\ UNCHANGED limiterVars /\ now <= now'
         /\ \A p \in Requests : call'[p] = call[p] \/ call'[p].at \notin {"make", "count"}
<1>0. call \in [Requests -> Calls] /\ now \in Nat /\ BlankCall.at = "idle"
  BY HorizonAssumption, BlankTyped DEF TypeOK
<1>1. CASE Tick /\ UNCHANGED limiterVars
  BY <1>0, <1>1, HorizonAssumption DEF Tick
<1>2. CASE SessionsLost /\ UNCHANGED limiterVars
  BY <1>0, <1>2 DEF SessionsLost
<1>3. CASE UNCHANGED vars
  BY <1>0, <1>3 DEF vars
<1>4. ASSUME NEW q \in Requests, NEW x \in Steps \ {"make", "count"}, Goto(q, x)
      PROVE  \A p \in Requests : call'[p] = call[p] \/ call'[p].at \notin {"make", "count"}
  BY <1>4 DEF Goto, TypeOK, Calls
<1>5. ASSUME NEW q \in Requests, Answer(q)
      PROVE  \A p \in Requests : call'[p] = call[p] \/ call'[p].at \notin {"make", "count"}
  BY <1>0, <1>5 DEF Answer
<1>6. ASSUME NEW q \in Requests, Login(q) \/ NotAnExpert(q) \/ RequestDies(q)
      PROVE  /\ UNCHANGED limiterVars /\ now <= now'
             /\ \A p \in Requests :
                  call'[p] = call[p] \/ call'[p].at \notin {"make", "count"}
  BY <1>0, <1>4, <1>5, <1>6 DEF Login, NotAnExpert, RequestDies, Steps
<1>7. ASSUME NEW q \in Requests, NEW s \in Sids, NEW logout \in BOOLEAN,
             Authenticate(q, s, logout)
      PROVE  /\ UNCHANGED limiterVars /\ now <= now'
             /\ \A p \in Requests :
                  call'[p] = call[p] \/ call'[p].at \notin {"make", "count"}
  BY <1>0, <1>7 DEF Authenticate, TypeOK, Calls
<1>8. ASSUME NEW q \in Requests, Expert(q) \/ (ValidateStep(q) /\ UNCHANGED limiterVars)
      PROVE  /\ UNCHANGED limiterVars /\ now <= now'
             /\ \A p \in Requests :
                  call'[p] = call[p] \/ call'[p].at \notin {"make", "count"}
  <2>1. CASE Expert(q)
    BY <1>0, <2>1 DEF Expert, Mint, TypeOK, Calls
  <2>2. CASE Stamp(q) /\ UNCHANGED limiterVars
    BY <1>0, <2>2 DEF Stamp, TypeOK, Calls
  <2>3. CASE Get(q) /\ UNCHANGED limiterVars
    <3>1. CASE Answer(q)
      BY <1>0, <1>5, <2>3, <3>1 DEF Get
    <3>2. CASE ~Answer(q)
      BY <1>0, <2>3, <3>2 DEF Get, TypeOK, Calls
    <3> QED
      BY <3>1, <3>2
  <2>4. CASE (Issue(q) \/ Discard(q) \/ Refresh(q) \/ Revoke(q)) /\ UNCHANGED limiterVars
    BY <1>0, <1>4, <1>5, <2>4 DEF Issue, Discard, Refresh, Revoke, Steps
  <2> QED
    BY <1>8, <2>1, <2>2, <2>3, <2>4 DEF ValidateStep
<1> QED
  BY <1>1, <1>2, <1>3, <1>6, <1>7, <1>8 DEF Next, HandlerStep

LEMMA FilledInductive ==
  TypeOK /\ Placed /\ Filled /\ [Next]_vars => Filled'
<1> SUFFICES ASSUME TypeOK, Placed, Filled, [Next]_vars PROVE Filled'
  OBVIOUS
<1>0. /\ TypeOK' /\ call \in [Requests -> Calls] /\ now \in Nat /\ now' \in Nat
      /\ buckets \in Seq(Buckets) /\ Len(buckets) \in Nat
      /\ BlankCall.at = "idle"
  BY StepTyped, HorizonAssumption, BlankTyped DEF TypeOK
<1>1. CASE ApiRestart
  BY <1>0, <1>1 DEF ApiRestart, Filled
<1>2. ASSUME UNCHANGED buckets, now <= now',
             \A p \in Requests : \/ call'[p] = call[p]
                                 \/ call'[p].at # "count"
                                 \/ call'[p].stamp = now
      PROVE  Filled'
  <2>1. ASSUME NEW i \in 1..Len(buckets) PROVE Held(buckets[i])'
    <3>1. buckets[i] \in Buckets /\ Held(buckets[i]) /\ buckets'[i] = buckets[i]
      BY <1>0, <1>2 DEF Filled
    <3> QED
      <4>1. /\ buckets[i].head <= Len(buckets[i].log) + 1
            /\ Len(buckets[i].log) - buckets[i].head + 1 <= Capacity
            /\ \A j \in 1 .. buckets[i].head - 1 : buckets[i].log[j] < now' - Window
        BY <1>0, <1>2, <3>1, HeldLater
      <4> QED
        BY <3>1, <4>1 DEF Held
  <2>2. ASSUME NEW p \in Requests, call'[p].at = "count" PROVE call'[p].stamp <= now'
    <3>1. CASE call'[p].stamp = now
      BY <1>2, <3>1
    <3>2. CASE call'[p] = call[p]
      <4>1. call[p].stamp <= now /\ call[p].stamp \in Nat
        BY <1>0, <2>2, <3>2 DEF Filled, Calls
      <4> QED
        BY <1>0, <1>2, <3>2, <4>1
    <3> QED
      BY <1>2, <2>2, <3>1, <3>2
  <2> QED
    BY <1>2, <2>1, <2>2 DEF Filled
<1>3. CASE ~ApiRestart /\ ~\E q \in Requests : LimiterStep(q)
  BY <1>2, <1>3, LimiterElsewhere DEF limiterVars
<1>4. ASSUME NEW q \in Requests, LimiterStep(q) PROVE Filled'
  <2>0. UNCHANGED now /\ PlacedAt(q) /\ call[q] \in Calls
    BY <1>0, <1>4 DEF LimiterStep, LookUp, Make, Fetch, ReadClock, Admit, Refuse, Placed
  <2>1. ASSUME NEW x \in Steps \ {"count"}, Goto(q, x)
        PROVE  \A p \in Requests : call'[p] = call[p] \/ call'[p].at # "count"
    BY <2>1 DEF Goto, TypeOK, Calls
  <2>2. Answer(q) => \A p \in Requests : call'[p] = call[p] \/ call'[p].at # "count"
    BY <1>0 DEF Answer
  <2>3. CASE LookUp(q)
    BY <1>0, <1>2, <2>0, <2>1, <2>3 DEF LookUp, limiterVars, Steps
  <2>4. CASE Fetch(q)
    BY <1>0, <1>2, <2>0, <2>4 DEF Fetch, limiterVars, Calls
  <2>5. CASE ReadClock(q)
    BY <1>0, <1>2, <2>0, <2>5 DEF ReadClock, limiterVars, Calls
  <2>6. CASE Make(q)
    <3>1. /\ Len(buckets') = Len(buckets) + 1
          /\ \A i \in 1..Len(buckets) : buckets'[i] = buckets[i]
          /\ buckets'[Len(buckets) + 1] = NewBucket
      BY <1>0, <2>6 DEF Make
    <3>2. NewBucket.head = 1 /\ Len(NewBucket.log) = 0
      BY DEF NewBucket
    <3>3. ASSUME NEW i \in 1..Len(buckets') PROVE Held(buckets[i])'
      <4>1. CASE i = Len(buckets) + 1
        BY <1>0, <3>1, <3>2, <4>1, LimiterAssumption DEF Held
      <4>2. CASE i # Len(buckets) + 1
        BY <1>0, <2>0, <3>1, <4>2 DEF Held, Filled
      <4> QED
        BY <4>1, <4>2
    <3>4. \A p \in Requests : call'[p] = call[p] \/ call'[p].at # "count"
      BY <2>1, <2>6 DEF Make, Steps
    <3> QED
      BY <2>0, <3>3, <3>4 DEF Filled
  <2>7. CASE Admit(q) \/ Refuse(q)
    <3> DEFINE k == call[q].bucket
    <3>1. k \in 1..Len(buckets) /\ call[q].stamp \in Nat /\ call[q].stamp <= now
      BY <2>0, <2>7 DEF Admit, Refuse, PlacedAt, Filled, Calls
    <3>2. buckets[k] \in Buckets /\ Held(buckets[k])
      BY <1>0, <3>1 DEF Filled
    <3>3. PICK c \in Popped(buckets[k], call[q].stamp - Window) :
            \/ /\ HasRoom(c)
               /\ buckets' = [buckets EXCEPT ![k] = [c EXCEPT !.log = Append(@, call[q].stamp)]]
            \/ buckets' = [buckets EXCEPT ![k] = c]
      BY <2>7 DEF Admit, Refuse
    <3>4. c \in Buckets /\ Held(c)
      BY <1>0, <3>1, <3>2, PoppedHeld
    <3>5. HasRoom(c) => Held([c EXCEPT !.log = Append(@, call[q].stamp)])
      BY <3>1, <3>4, AppendHeld
    <3>6. PICK d : Held(d) /\ buckets' = [buckets EXCEPT ![k] = d]
      BY <3>3, <3>4, <3>5
    <3>7. ASSUME NEW i \in 1..Len(buckets') PROVE Held(buckets[i])'
      <4>1. Len(buckets') = Len(buckets) /\ buckets'[i] = IF i = k THEN d ELSE buckets[i]
        BY <1>0, <3>1, <3>6
      <4> QED
        BY <2>0, <3>6, <4>1 DEF Held, Filled
    <3>8. \A p \in Requests : call'[p] = call[p] \/ call'[p].at # "count"
      BY <2>1, <2>2, <2>7 DEF Admit, Refuse, Steps
    <3> QED
      BY <2>0, <3>7, <3>8 DEF Filled
  <2> QED
    BY <1>4, <2>3, <2>4, <2>5, <2>6, <2>7 DEF LimiterStep
<1> QED
  BY <1>1, <1>3, <1>4

LEMMA FewMadeInductive ==
  TypeOK /\ Placed /\ FewMade /\ [Next]_vars => FewMade'
<1> SUFFICES ASSUME TypeOK, Placed, FewMade, [Next]_vars PROVE FewMade'
  OBVIOUS
<1>0. /\ call \in [Requests -> Calls] /\ buckets \in Seq(Buckets) /\ Len(buckets) \in Nat
      /\ BlankCall.at = "idle"
  BY BlankTyped DEF TypeOK
<1>1. /\ IsFiniteSet(Makers) /\ Cardinality(Makers) \in Nat
      /\ Cardinality(Requests) \in Nat
  BY RequestsAssumption, FS_Subset, FS_CardinalityType DEF Makers
<1>2. Makers' = {q \in Requests : call'[q].at = "make"}
  BY DEF Makers
<1>3. IsFiniteSet(Makers') /\ Cardinality(Makers') \in Nat
      /\ Cardinality(Makers') <= Cardinality(Requests)
  BY <1>2, RequestsAssumption, FS_Subset, FS_CardinalityType
<1>4. ASSUME UNCHANGED limiterVars, \A p \in Requests : call'[p] = call[p] \/ call'[p].at # "make"
      PROVE  FewMade'
  <2>1. Makers' \subseteq Makers
    BY <1>2, <1>4 DEF Makers
  <2>2. Cardinality(Makers') <= Cardinality(Makers)
    BY <1>1, <2>1, FS_Subset
  <2> QED
    BY <1>0, <1>1, <1>3, <1>4, <2>2 DEF FewMade, limiterVars
<1>5. CASE ApiRestart
  <2>1. Len(buckets') = 0
    BY <1>5 DEF ApiRestart
  <2> QED
    BY <1>3, <2>1, RequestsAssumption, FS_CardinalityType DEF FewMade
<1>6. CASE ~ApiRestart /\ ~\E q \in Requests : LimiterStep(q)
  BY <1>4, <1>6, LimiterElsewhere
<1>7. ASSUME NEW q \in Requests, LimiterStep(q) PROVE FewMade'
  <2>1. ASSUME NEW x \in Steps \ {"make"}, Goto(q, x)
        PROVE  \A p \in Requests : IF p = q THEN call'[p].at # "make" ELSE call'[p] = call[p]
    BY <2>1 DEF Goto, TypeOK, Calls
  <2>2. Answer(q)
          => \A p \in Requests : IF p = q THEN call'[p].at # "make" ELSE call'[p] = call[p]
    BY <1>0 DEF Answer
  <2>3. CASE LookUp(q)
    <3>1. CASE limiter = 0
      <4>1. Len(buckets') = 0
        BY <2>3, <3>1 DEF LookUp, limiterVars, FewMade
      <4> QED
        BY <1>3, <4>1 DEF FewMade
    <3>2. CASE limiter # 0
      BY <1>4, <2>1, <2>3, <3>2 DEF LookUp, Steps
    <3> QED
      BY <3>1, <3>2
  <2>4. CASE Make(q)
    <3>1. Len(buckets') = Len(buckets) + 1 /\ limiter' # 0
      BY <1>0, <2>4 DEF Make
    <3>2. Makers' = Makers \ {q} /\ q \in Makers
      BY <1>2, <2>1, <2>4 DEF Make, Makers, Steps
    <3>3. Cardinality(Makers') = Cardinality(Makers) - 1
      BY <1>1, <3>2, FS_RemoveElement
    <3> QED
      BY <1>0, <1>1, <3>1, <3>3 DEF FewMade
  <2>5. CASE Fetch(q) \/ ReadClock(q)
    <3>1. \A p \in Requests : call'[p] = call[p] \/ call'[p].at # "make"
      BY <1>0, <2>5 DEF Fetch, ReadClock, Calls
    <3> QED
      BY <1>4, <2>5, <3>1 DEF Fetch, ReadClock
  <2>6. CASE Admit(q) \/ Refuse(q)
    <3>1. \A p \in Requests : call'[p] = call[p] \/ call'[p].at # "make"
      BY <2>1, <2>2, <2>6 DEF Admit, Refuse, Steps
    <3>2. Makers' \subseteq Makers
      BY <1>2, <3>1 DEF Makers
    <3>3. Cardinality(Makers') <= Cardinality(Makers)
      BY <1>1, <3>2, FS_Subset
    <3>4. Len(buckets') = Len(buckets) /\ limiter' = limiter
      <4>1. \A k, d : Len([buckets EXCEPT ![k] = d]) = Len(buckets)
        BY <1>0
      <4>2. \E k, d : buckets' = [buckets EXCEPT ![k] = d]
        BY <2>6 DEF Admit, Refuse
      <4>3. limiter' = limiter
        BY <2>6 DEF Admit, Refuse
      <4> QED
        BY <4>1, <4>2, <4>3
    <3> QED
      BY <1>0, <1>1, <1>3, <3>3, <3>4 DEF FewMade
  <2> QED
    BY <1>7, <2>3, <2>4, <2>5, <2>6 DEF LimiterStep
<1> QED
  BY <1>5, <1>6, <1>7

LEMMA LimiterInvariant == Spec => [](TypeOK /\ Placed /\ Filled /\ FewMade)
<1>1. Init => Filled /\ FewMade
  <2> SUFFICES ASSUME Init PROVE Filled /\ FewMade
    OBVIOUS
  <2>1. Len(buckets) = 0 /\ \A q \in Requests : call[q].at = "idle"
    BY BlankTyped DEF Init, AuthStateInit, LimiterInit
  <2>2. Makers = {}
    BY <2>1 DEF Makers
  <2>3. Cardinality(Makers) = 0 /\ Cardinality(Requests) \in Nat
    BY <2>2, RequestsAssumption, FS_EmptySet, FS_CardinalityType
  <2> QED
    BY <2>1, <2>3 DEF Filled, FewMade
<1> QED
  BY <1>1, FilledInductive, FewMadeInductive, PlacedInvariant, PTL DEF Spec

\* However the calls of allow interleave, a bucket lets no more than Capacity
\* logins through in a Window, and no more buckets are made than requests can
\* be under way.
THEOREM CeilingHolds == Spec => []CeilingKept
<1>1. TypeOK /\ Filled /\ FewMade => CeilingKept
  <2> SUFFICES ASSUME TypeOK, Filled, FewMade PROVE CeilingKept
    OBVIOUS
  <2>1. ASSUME NEW i \in DOMAIN buckets
        PROVE  Cardinality(Recent(buckets[i])) <= Capacity
    <3> DEFINE b == buckets[i]
    <3>1. b \in Buckets /\ Held(b)
      BY DEF TypeOK, Filled
    <3>2. /\ b.log \in Seq(Nat) /\ Len(b.log) \in Nat /\ b.head \in Nat \ {0}
          /\ DOMAIN b.log = 1..Len(b.log)
      BY <3>1 DEF Buckets
    <3> HIDE DEF b
    <3>3. Recent(b) \subseteq b.head .. Len(b.log)
      <4> SUFFICES ASSUME NEW j \in 1..Len(b.log), b.log[j] >= now - Window
                   PROVE  j \in b.head .. Len(b.log)
        BY <3>2 DEF Recent
      <4>1. b.log[j] \in Nat /\ now \in Nat
        BY <3>2, HorizonAssumption DEF TypeOK
      <4>2. ~(j \in 1 .. b.head - 1)
        BY <3>1, <4>1, LimiterAssumption DEF Held
      <4> QED
        BY <3>2, <4>2
    <3>4. /\ IsFiniteSet(b.head .. Len(b.log))
          /\ Cardinality(b.head .. Len(b.log)) <= Capacity
      <4>1. b.head \in Int /\ Len(b.log) \in Int
        BY <3>2
      <4>2. /\ IsFiniteSet(b.head .. Len(b.log))
            /\ Cardinality(b.head .. Len(b.log))
                 = IF b.head > Len(b.log) THEN 0 ELSE Len(b.log) - b.head + 1
        BY <4>1, FS_Interval
      <4> QED
        BY <3>1, <3>2, <4>2, LimiterAssumption DEF Held
    <3>5. /\ Cardinality(Recent(b)) \in Nat
          /\ Cardinality(Recent(b)) <= Cardinality(b.head .. Len(b.log))
          /\ Cardinality(b.head .. Len(b.log)) \in Nat
      BY <3>3, <3>4, FS_Subset, FS_CardinalityType
    <3> QED
      BY <3>4, <3>5, LimiterAssumption DEF b
  <2>2. Len(buckets) <= Cardinality(Requests)
    <3>1. Cardinality(Makers) \in Nat /\ Cardinality(Requests) \in Nat
      BY RequestsAssumption, FS_Subset, FS_CardinalityType DEF Makers
    <3>2. Len(buckets) \in Nat
      BY DEF TypeOK
    <3> QED
      BY <3>1, <3>2 DEF FewMade
  <2> QED
    BY <2>1, <2>2 DEF CeilingKept
<1> QED
  BY <1>1, LimiterInvariant, PTL

\* A login is refused only for one that was let through within the Window.
THEOREM RefusalsHaveCause == Spec => RefusedOnlyRecently
<1>1. ASSUME TypeOK, Placed, Filled, NEW q \in Requests, Refuse(q)
      PROVE  \E i \in DOMAIN buckets[call[q].bucket].log :
               buckets[call[q].bucket].log[i] >= call[q].stamp - Window
  <2> DEFINE b == buckets[call[q].bucket]
  <2>1. /\ call[q].bucket \in 1..Len(buckets) /\ call[q].stamp \in Nat
        /\ call[q].stamp <= now /\ now \in Nat /\ buckets \in Seq(Buckets)
    BY <1>1, HorizonAssumption DEF Refuse, Placed, PlacedAt, Filled, TypeOK, Calls
  <2>2. b \in Buckets /\ Held(b)
    BY <1>1, <2>1 DEF Filled
  <2>3. PICK c \in Popped(b, call[q].stamp - Window) : ~HasRoom(c)
    BY <1>1 DEF Refuse
  <2> HIDE DEF b
  <2>4. /\ c \in Buckets /\ c.log = b.log
        /\ c.head <= Len(c.log) => c.log[c.head] >= call[q].stamp - Window
    BY <2>1, <2>2, <2>3, PoppedHeld
  <2>5. c.head \in Nat \ {0} /\ c.log \in Seq(Nat) /\ Len(c.log) \in Nat
    BY <2>4 DEF Buckets
  <2>6. c.head \in 1..Len(c.log)
    BY <2>3, <2>5, LimiterAssumption DEF HasRoom
  <2>7. c.head \in DOMAIN b.log /\ b.log[c.head] >= call[q].stamp - Window
    BY <2>4, <2>5, <2>6
  <2> QED
    BY <2>7 DEF b
<1>2. TypeOK /\ Placed /\ Filled /\ [Next]_vars =>
        [\A q \in Requests : Refuse(q) =>
           \E i \in DOMAIN buckets[call[q].bucket].log :
             buckets[call[q].bucket].log[i] >= call[q].stamp - Window]_vars
  BY <1>1
<1> QED
  BY <1>2, LimiterInvariant, PTL DEF Spec, RefusedOnlyRecently
=============================================================================
