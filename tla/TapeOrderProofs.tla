-------------------------- MODULE TapeOrderProofs --------------------------
(***************************************************************************)
(* A rebuild puts the tape in the order its configuration asks for.        *)
(***************************************************************************)
EXTENDS TapeServiceProofs

(***************************************************************************)
(* RebuildIsOrdered says nothing of the documents that are still to come.  *)
(* They are in order among themselves, and all of them belong behind what  *)
(* the tape holds already.                                                 *)
(***************************************************************************)
Sorted(w) ==
  \A d, e \in OnTape : entries[d] < entries[e] => InOrder(d, e, run[w].cfg.ordering)
SortedTodo(w) ==
  \A i, j \in DOMAIN run[w].todo :
    i < j => InOrder(run[w].todo[i], run[w].todo[j], run[w].cfg.ordering)
TodoBehind(w) ==
  \A d \in OnTape, i \in DOMAIN run[w].todo :
    InOrder(d, run[w].todo[i], run[w].cfg.ordering)

Ordered ==
  \A w \in Workers : run[w].full =>
    /\ pc[w] = "query" => OnTape = {}
    /\ pc[w] \in {"append", "clear", "finish"} => Sorted(w)
    /\ pc[w] = "append" => SortedTodo(w) /\ TodoBehind(w)

\* What the database answers is in the order asked for.
LEMMA ListingOrdered ==
  ASSUME NEW C \in SUBSET Docs, NEW ordering, NEW s \in Listings(C, ordering)
  PROVE  \A i, j \in DOMAIN s : i < j => InOrder(s[i], s[j], ordering)
BY DEF Listings, InOrder

\* Taking documents off the tape, and shortening what is still to come, keeps
\* the tape in order.
LEMMA ShrinksOrdered ==
  ASSUME TypeOK, NEW v \in Workers, run'[v].cfg = run[v].cfg,
         \A d \in Docs : entries'[d] \in {entries[d], Absent}
  PROVE  /\ OnTape' \subseteq OnTape
         /\ Sorted(v) => Sorted(v)'
         /\ TodoBehind(v) /\ run'[v].todo = run[v].todo => TodoBehind(v)'
         /\ SortedTodo(v) /\ run'[v].todo = run[v].todo => SortedTodo(v)'
<1>1. \A d \in OnTape' : d \in OnTape /\ entries'[d] = entries[d]
  BY DEF OnTape
<1> QED
  BY <1>1 DEF Sorted, TodoBehind, SortedTodo

\* A ZADD of a rebuild puts the first of what is still to come behind the
\* whole tape.
LEMMA AppendsOrdered ==
  ASSUME TypeOK, Ahead, Ordered, NEW w \in Workers, run[w].full, AppendEntry(w)
  PROVE  Sorted(w)' /\ SortedTodo(w)' /\ TodoBehind(w)'
<1> DEFINE first == Head(run[w].todo)
           ordering == run[w].cfg.ordering
<1>1. /\ run \in [Workers -> Runs] /\ entries \in [Docs -> Nat \cup {Absent}]
      /\ run[w].todo \in Seq(Docs) /\ run[w].todo # <<>>
      /\ run[w].pos \in Nat
  BY DEF TypeOK, Runs, AppendEntry
<1>2. Sorted(w) /\ SortedTodo(w) /\ TodoBehind(w)
  BY DEF Ordered, AppendEntry
<1>3. run'[w].todo = Tail(run[w].todo) /\ run'[w].cfg = run[w].cfg
  BY <1>1 DEF AppendEntry, Runs
<1>4. \A i \in DOMAIN Tail(run[w].todo) :
        /\ i + 1 \in DOMAIN run[w].todo /\ i \in Nat
        /\ Tail(run[w].todo)[i] = run[w].todo[i + 1]
  BY <1>1
<1>5. first \in Docs /\ first = run[w].todo[1] /\ 1 \in DOMAIN run[w].todo
  BY <1>1
<1>6. SortedTodo(w)'
  BY <1>2, <1>3, <1>4 DEF SortedTodo
<1>7. \A i \in DOMAIN Tail(run[w].todo) : InOrder(first, Tail(run[w].todo)[i], ordering)
  BY <1>2, <1>4, <1>5 DEF SortedTodo
<1>8. /\ \A d \in Docs : entries[d] < run[w].pos
      /\ \/ entries' = entries
         \/ entries[first] = Absent /\ entries' = [entries EXCEPT ![first] = run[w].pos]
  BY AppendsBehind DEF AppendEntry, AddEntry
<1>9. OnTape' \subseteq OnTape \cup {first}
  BY <1>1, <1>5, <1>8 DEF OnTape
<1>10. TodoBehind(w)'
  <2>1. \A d \in OnTape, i \in DOMAIN Tail(run[w].todo) :
          InOrder(d, Tail(run[w].todo)[i], ordering)
    BY <1>2, <1>4 DEF TodoBehind
  <2> QED
    BY <1>3, <1>7, <1>9, <2>1 DEF TodoBehind
<1>11. Sorted(w)'
  <2> SUFFICES ASSUME NEW d \in OnTape', NEW e \in OnTape', entries'[d] < entries'[e]
               PROVE  InOrder(d, e, ordering)
    BY <1>3 DEF Sorted
  <2>1. CASE entries' = entries
    BY <1>2, <2>1 DEF Sorted, OnTape
  <2>2. CASE entries[first] = Absent /\ entries' = [entries EXCEPT ![first] = run[w].pos]
    <3>1. d # first
      <4>1. SUFFICES ASSUME d = first PROVE FALSE
        OBVIOUS
      <4>2. entries'[d] = run[w].pos /\ e \in Docs
        BY <1>1, <1>5, <2>2, <4>1 DEF OnTape
      <4>3. entries'[e] <= run[w].pos /\ entries'[e] \in Nat \cup {Absent}
        BY <1>1, <1>8, <2>2, <4>2 DEF Absent
      <4> QED
        BY <1>1, <4>2, <4>3 DEF Absent
    <3>2. d \in OnTape /\ entries'[d] = entries[d]
      BY <1>1, <1>9, <2>2, <3>1 DEF OnTape
    <3>3. CASE e = first
      BY <1>2, <1>5, <3>2, <3>3 DEF TodoBehind
    <3>4. CASE e # first
      <4>1. e \in OnTape /\ entries'[e] = entries[e]
        BY <1>1, <1>9, <2>2, <3>4 DEF OnTape
      <4> QED
        BY <1>2, <3>2, <4>1 DEF Sorted
    <3> QED
      BY <3>3, <3>4
  <2> QED
    BY <1>8, <2>1, <2>2
<1> QED
  BY <1>6, <1>10, <1>11

LEMMA OrderedInvariant ==
  ASSUME TypeOK, LockHeld, Ahead, Clean, Ordered, [Next]_vars
  PROVE  Ordered'
<1> DEFINE Good(v) ==
      /\ pc[v] = "query" => OnTape = {}
      /\ pc[v] \in {"append", "clear", "finish"} => Sorted(v)
      /\ pc[v] = "append" => SortedTodo(v) /\ TodoBehind(v)
<1> SUFFICES ASSUME NEW v \in Workers, run'[v].full PROVE Good(v)'
  BY DEF Ordered
<1>0. pc \in [Workers -> Unlocked \cup Locked] /\ run \in [Workers -> Runs]
  BY DEF TypeOK
<1>1. CASE \E w \in Workers : AppendEntry(w)
  <2> PICK w \in Workers : AppendEntry(w)
    BY <1>1
  <2>1. pc[w] = "append" /\ pc' = pc /\ pc[w] \in Locked
    BY DEF AppendEntry, Locked
  <2>2. CASE v = w
    <3>1. run[w].full
      BY <1>0, <2>2 DEF AppendEntry, Runs
    <3> QED
      BY <2>1, <2>2, <3>1, AppendsOrdered
  <2>3. CASE v # w
    <3>1. pc'[v] \notin {"query", "append", "clear", "finish"}
      BY <2>1, <2>3 DEF LockHeld, Locked
    <3> QED
      BY <3>1
  <2> QED
    BY <2>2, <2>3
<1>2. CASE UNCHANGED entries \/ DeleteAllEntries \/ \E d \in Docs : RemoveEntry(d)
  <2>0. \A d \in Docs : entries'[d] \in {entries[d], Absent}
    BY <1>2, Shrinks
  <2>1. CASE pc'[v] = pc[v] /\ run'[v] = run[v]
    BY <2>0, <2>1, ShrinksOrdered DEF Ordered
  <2>2. CASE GeneratorStep(v)
    <3> USE <1>0 DEF Goto
    <3>1. CASE WipeTape(v)
      <4>1. pc'[v] = "query" /\ OnTape' = {}
        BY <3>1 DEF WipeTape, DeleteAllEntries, NoEntries, OnTape
      <4> QED
        BY <4>1
    <3>2. CASE QueryCandidates(v)
      <4>1. PICK listing \in Listings(Candidates(v), run[v].cfg.ordering) :
              run' = [run EXCEPT ![v].todo = listing]
        BY <3>2 DEF QueryCandidates
      <4>2. Candidates(v) \in SUBSET Docs
        BY DEF Candidates, Selected, TypeOK
      <4>3. run'[v].todo = listing /\ run'[v].cfg = run[v].cfg /\ run[v].full
        BY <4>1 DEF Runs
      <4>4. SortedTodo(v)'
        BY <4>2, <4>3, ListingOrdered DEF SortedTodo
      <4>5. pc[v] = "query" /\ pc'[v] = "append" /\ entries' = entries
        BY <3>2 DEF QueryCandidates, stateVars, tapeVars
      <4>6. OnTape' = {}
        BY <4>3, <4>5 DEF Ordered, OnTape
      <4> QED
        BY <4>4, <4>5, <4>6 DEF Sorted, TodoBehind
    <3>3. CASE AnnounceEntries(v) \/ ClearDirty(v)
      <4>1. /\ pc[v] \in {"append", "clear"} /\ pc'[v] \in {"clear", "finish"}
            /\ run' = run
        BY <3>3 DEF AnnounceEntries, ClearDirty
      <4>2. Sorted(v)
        BY <4>1 DEF Ordered
      <4> QED
        BY <2>0, <4>1, <4>2, ShrinksOrdered
    <3>4. CASE MeasureTape(v) \/ ListExisting(v)
      <4>1. ~run'[v].full
        BY <3>4 DEF MeasureTape, ListExisting, Clean, Runs
      <4> QED
        BY <4>1
    <3>5. CASE \/ ListUsers(v) \/ ReadConfig(v) \/ ReadSources(v) \/ WipeUnlocked(v)
               \/ ClearUnlocked(v) \/ AcquireLock(v) \/ FinishRun(v)
               \/ ReleaseLock(v) \/ AnnounceRelease(v)
      BY <3>5 DEF ListUsers, ReadConfig, ReadSources, WipeUnlocked, ClearUnlocked,
         AcquireLock, FinishRun, ReleaseLock, AnnounceRelease, EndTurn
    <3>6. CASE AppendEntry(v)
      BY <1>1, <3>6
    <3> QED
      BY <2>2, <3>1, <3>2, <3>3, <3>4, <3>5, <3>6 DEF GeneratorStep
  <2>3. CASE pc'[v] \in {"idle", "down", "failed", "release", "released"}
    BY <2>3
  <2> QED
    BY <2>1, <2>2, <2>3, StepOnRun
<1> QED
  BY <1>1, <1>2, StepOnTape

\* While a rebuild is under way the tape is in the order its configuration asks
\* for, whatever takes documents off it meanwhile, as long as leases hold.
THEOREM OrderedRebuilds == Spec => []RebuildIsOrdered
<1> DEFINE Inv == intact => Clean /\ Ordered
<1>1. Init => Clean /\ Ordered
  BY DEF Init, GeneratorInit, Clean, Ordered, BlankRun
<1>2. Positions /\ Inv /\ [Next]_vars => Inv'
  BY CleanInvariant, OrderedInvariant, Lease DEF Positions
<1>3. Inv => RebuildIsOrdered
  BY DEF Ordered, RebuildIsOrdered, Rebuilding, Sorted
<1> QED
  BY <1>1, <1>2, <1>3, PositionsInvariant, PTL DEF Spec

=============================================================================
