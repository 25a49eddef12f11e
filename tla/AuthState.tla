----------------------------- MODULE AuthState -----------------------------
(***************************************************************************)
(* What the two halves of authentication share: the clock, and the         *)
(* requests the api is serving, each at its place in its handler and with  *)
(* the handler's local variables.                                          *)
(*                                                                         *)
(* There is one client here.  The limiter counts each client address by    *)
(* itself, and every session has a key of its own, so that clients and     *)
(* users do not share any of this state.                                   *)
(***************************************************************************)
EXTENDS Integers, FiniteSets, Sequences

CONSTANTS
  Requests,   \* the requests the api may serve at once
  Sids,       \* the session ids that secrets.token_urlsafe may return
  Horizon     \* bound: the clock stops here

ASSUME RequestsAssumption == IsFiniteSet(Requests) /\ Sids # {}
ASSUME HorizonAssumption == Horizon \in Nat

VARIABLES
  now,   \* the time
  call   \* call[q]: where request q is in its handler, and its locals

Steps == {"idle", "lookup", "make", "fetch", "clock", "count", "token", "issue",
          "get", "stamp", "refresh", "discard", "revoke"}

Calls == [at : Steps, sid : Sids, bucket : Nat, stamp : Nat, expires : Nat,
          logout : BOOLEAN]

BlankCall == [at |-> "idle", sid |-> CHOOSE s \in Sids : TRUE, bucket |-> 0,
              stamp |-> 0, expires |-> 0, logout |-> FALSE]

\* The request is answered, or its handler has raised.
Answer(q) == call' = [call EXCEPT ![q] = BlankCall]

Goto(q, step) == call' = [call EXCEPT ![q].at = step]

AuthStateInit == now = 0 /\ call = [q \in Requests |-> BlankCall]

=============================================================================
