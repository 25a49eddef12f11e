---------------------------- MODULE LoginLimiter ----------------------------
(***************************************************************************)
(* The limiter of POST /auth/login, for one client address.  The api runs  *)
(* its handlers in threads: a handler looks the limiter up, makes it on    *)
(* first use, reads the clock, and only then takes the limiter's lock.     *)
(*                                                                         *)
(* A deque is the log of all the times it was given, from "head" on.       *)
(***************************************************************************)
EXTENDS AuthState

CONSTANTS
  Capacity,   \* login_rate_limit_per_ip
  Window      \* login_rate_limit_window_seconds

ASSUME LimiterAssumption == Capacity \in Nat \ {0} /\ Window \in Nat

VARIABLES
  limiter,   \* _login_limiter: which bucket it is, or 0 for None
  buckets    \* the TokenBuckets made by this process, in order

limiterVars == <<limiter, buckets>>

Buckets == [log : Seq(Nat), head : Nat \ {0}]
NewBucket == [log |-> <<>>, head |-> 1]

LimiterInit == limiter = 0 /\ buckets = <<>>

\* _limiter: is there one already?
LookUp(q) ==
  /\ call[q].at = "lookup"
  /\ Goto(q, IF limiter = 0 THEN "make" ELSE "fetch")
  /\ UNCHANGED <<now, limiterVars>>

\* This thread saw none and makes one, whatever others have done meanwhile.
Make(q) ==
  /\ call[q].at = "make"
  /\ buckets' = Append(buckets, NewBucket)
  /\ limiter' = Len(buckets) + 1
  /\ Goto(q, "fetch")
  /\ UNCHANGED now

\* The global is read once more for the return value.
Fetch(q) ==
  /\ call[q].at = "fetch"
  /\ call' = [call EXCEPT ![q].bucket = limiter, ![q].at = "clock"]
  /\ UNCHANGED <<now, limiterVars>>

\* allow: the clock is read before the lock is taken.
ReadClock(q) ==
  /\ call[q].at = "clock"
  /\ call' = [call EXCEPT ![q].stamp = now, ![q].at = "count"]
  /\ UNCHANGED <<now, limiterVars>>

\* Mutants of Popped: what is Window old goes as well; nothing goes.
PoppedEarly(b, cutoff) ==
  {[b EXCEPT !.head = h] : h \in {h \in b.head .. Len(b.log) + 1 :
     /\ \A i \in b.head .. h - 1 : b.log[i] <= cutoff
     /\ h <= Len(b.log) => b.log[h] > cutoff}}
PoppedNone(b, cutoff) == {b}

\* popleft while the first is older than cutoff: the one bucket this leaves.
Popped(b, cutoff) ==
  {[b EXCEPT !.head = h] : h \in {h \in b.head .. Len(b.log) + 1 :
     /\ \A i \in b.head .. h - 1 : b.log[i] < cutoff
     /\ h <= Len(b.log) => b.log[h] >= cutoff}}

HasRoom(b) == Len(b.log) - b.head + 1 < Capacity

\* The rest of allow, under the lock: the login goes on ...
Admit(q) ==
  /\ call[q].at = "count"
  /\ \E b \in Popped(buckets[call[q].bucket], call[q].stamp - Window) :
       /\ HasRoom(b)
       /\ buckets' = [buckets EXCEPT ![call[q].bucket] =
                        [b EXCEPT !.log = Append(@, call[q].stamp)]]
  /\ Goto(q, "token")
  /\ UNCHANGED <<now, limiter>>

\* ... or is refused (RATE_LIMITED).
Refuse(q) ==
  /\ call[q].at = "count"
  /\ \E b \in Popped(buckets[call[q].bucket], call[q].stamp - Window) :
       /\ ~HasRoom(b)
       /\ buckets' = [buckets EXCEPT ![call[q].bucket] = b]
  /\ Answer(q)
  /\ UNCHANGED <<now, limiter>>

LimiterStep(q) ==
  LookUp(q) \/ Make(q) \/ Fetch(q) \/ ReadClock(q) \/ Admit(q) \/ Refuse(q)

=============================================================================
