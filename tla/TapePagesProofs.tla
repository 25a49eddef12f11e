-------------------------- MODULE TapePagesProofs --------------------------
(***************************************************************************)
(* GET /tape does to the service only what TapeService says of it, so that *)
(* whatever TapeServiceProofs proves of the service holds of the service   *)
(* with its readers.                                                       *)
(***************************************************************************)
EXTENDS TapePages, TapeServiceProofs

\* A request takes off the tape only documents the user has scored.
FiltersScored ==
  \A g \in Readers : page[g].scored \subseteq Scored /\ page[g].scored \subseteq Docs

\* A step of a reader is a removal that FilterScored describes, or none.
LEMMA ReaderRefines ==
  ASSUME TypeOK, FiltersScored, NEW g \in Readers, ReaderStep(g),
         UNCHANGED <<generatorVars, listenerVars, apiVars, faultVars>>
  PROVE  [Next]_vars
<1> USE DEF vars, stateVars, tapeVars, configVars, platformVars
<1>1. CASE RemoveFiltered(g)
  <2> PICK d \in page[g].scored : RemoveEntry(d)
    BY <1>1 DEF RemoveFiltered
  <2>1. d \in Docs /\ d \in Scored
    BY DEF FiltersScored
  <2>2. UNCHANGED <<configVars, lock, platformVars>>
    BY <1>1 DEF RemoveFiltered
  <2>3. CASE entries[d] = Absent
    <3>1. entries' = entries
      BY <2>1, <2>3 DEF RemoveEntry, TypeOK
    <3> QED
      BY <2>2, <3>1
  <2>4. CASE entries[d] # Absent
    <3>1. FilterScored(d)
      BY <2>1, <2>2, <2>4 DEF FilterScored, OnTape
    <3> QED
      BY <2>1, <3>1 DEF Environment, Next
  <2> QED
    BY <2>3, <2>4
<1>2. CASE \/ CheckLock(g) \/ ReadPageConfig(g) \/ ReadRows(g) \/ CountEntries(g)
           \/ QueryScored(g) \/ AnswerLast(g) \/ AnswerNext(g) \/ Reload(g)
  BY <1>2 DEF CheckLock, ReadPageConfig, ReadRows, CountEntries, QueryScored,
     AnswerLast, AnswerNext, Reload
<1> QED
  BY <1>1, <1>2 DEF ReaderStep

LEMMA ReadersStep ==
  ASSUME TypeOK, FiltersScored, [ReadersNext]_readersVars
  PROVE  [Next]_vars
BY ReaderRefines DEF ReadersNext, readersVars

\* An assignment to one field of a page record keeps its type.
LEMMA PageFields ==
  ASSUME NEW p \in Pages
  PROVE  /\ \A x \in {"check", "config", "rows", "count", "scored", "filter", "end"} :
              [p EXCEPT !.at = x] \in Pages
         /\ \A x \in Nat : [p EXCEPT !.after = x] \in Pages
         /\ \A x \in PageSizes : [p EXCEPT !.size = x] \in Pages
         /\ \A x \in BOOLEAN : [p EXCEPT !.dirty = x] \in Pages
         /\ \A x \in [Docs -> Nat \cup {Absent}] : [p EXCEPT !.rows = x] \in Pages
         /\ \A x \in SUBSET Docs :
              /\ [p EXCEPT !.scored = x] \in Pages
              /\ [p EXCEPT !.items = x] \in Pages
              /\ [p EXCEPT !.known = x] \in Pages
              /\ [p EXCEPT !.seen = x] \in Pages
         /\ \A x \in {"ok", "empty", "preparing"} : [p EXCEPT !.state = x] \in Pages
BY DEF Pages

LEMMA BlankTyped == BlankPage \in Pages /\ BlankPage.scored = {}
BY DEF BlankPage, Pages, None, NoEntries

\* Whatever a reader does, its page record has its type, and what it is
\* about to take off the tape has been scored.
LEMMA ReaderTyped ==
  ASSUME TypeOK, PagesTypeOK, FiltersScored, NEW g \in Readers, ReaderStep(g)
  PROVE  \E p \in Pages : /\ page' = [page EXCEPT ![g] = p]
                          /\ p.scored \subseteq Scored
<1>0. page \in [Readers -> Pages] /\ page[g] \in Pages /\ page[g].scored \subseteq Scored
  BY DEF PagesTypeOK, FiltersScored
<1>1. Scored \in SUBSET Docs
  BY DEF Scored
<1>2. ASSUME NEW state \in {"ok", "empty", "preparing"}, NEW items \in SUBSET Docs,
             End(g, state, items)
      PROVE  \E p \in Pages : page' = [page EXCEPT ![g] = p] /\ p.scored \subseteq Scored
  <2> DEFINE p == [BlankPage EXCEPT !.at = "end", !.state = state,
                                    !.seen = page[g].seen \cup items]
  <2>1. p \in Pages /\ p.scored = {}
    <3>1. page[g].seen \cup items \in SUBSET Docs
      BY <1>0 DEF Pages
    <3> QED
      BY <3>1 DEF BlankPage, Pages, None, NoEntries
  <2>2. page' = [page EXCEPT ![g] = p]
    BY <1>2 DEF End
  <2> QED
    BY <2>1, <2>2
<1>3. CASE CheckLock(g)
  <2> DEFINE p == [page[g] EXCEPT !.at = "config", !.known = Scored]
  <2>1. p \in Pages /\ p.scored = page[g].scored
    BY <1>0, <1>1 DEF Pages
  <2>2. page' = [page EXCEPT ![g] = p]
    BY <1>0, <1>3 DEF CheckLock
  <2> QED
    BY <1>0, <2>1, <2>2
<1>4. CASE ReadPageConfig(g)
  <2> DEFINE p == [page[g] EXCEPT !.at = "rows", !.dirty = dirty, !.size = cfg.page_size]
  <2>1. CASE cfg = NoConfig
    BY <1>2, <1>4, <2>1 DEF ReadPageConfig
  <2>2. CASE cfg # NoConfig
    <3>1. cfg.page_size \in PageSizes /\ dirty \in BOOLEAN
      BY <2>2 DEF TypeOK, Configs
    <3>2. p \in Pages /\ p.scored = page[g].scored
      BY <1>0, <3>1 DEF Pages
    <3>3. page' = [page EXCEPT ![g] = p]
      BY <1>0, <1>4, <2>2 DEF ReadPageConfig
    <3> QED
      BY <1>0, <3>2, <3>3
  <2> QED
    BY <2>1, <2>2
<1>5. CASE ReadRows(g)
  <2>1. PICK at \in {"count", "scored"}, rows \in [Docs -> Nat \cup {Absent}] :
          page' = [page EXCEPT ![g].at = at, ![g].rows = rows]
    <3>1. \A S \in SUBSET Docs :
            [d \in Docs |-> IF d \in S THEN entries[d] ELSE Absent] \in [Docs -> Nat \cup {Absent}]
      BY DEF TypeOK
    <3>2. \A S \in SUBSET Docs : \A n : FirstOf(S, n) \in SUBSET Docs
      BY DEF FirstOf
    <3> QED
      BY <1>5, <3>1, <3>2 DEF ReadRows, OnTape
  <2> DEFINE p == [page[g] EXCEPT !.at = at, !.rows = rows]
  <2>2. p \in Pages /\ p.scored = page[g].scored
    BY <1>0 DEF Pages
  <2>3. page' = [page EXCEPT ![g] = p]
    BY <1>0, <2>1
  <2> QED
    BY <1>0, <2>2, <2>3
<1>6. CASE CountEntries(g)
  BY <1>2, <1>6 DEF CountEntries
<1>7. CASE QueryScored(g)
  <2> DEFINE p == [page[g] EXCEPT !.at = "filter", !.items = OnPage(page[g]) \ Scored,
                                  !.scored = OnPage(page[g]) \cap Scored]
  <2>1. OnPage(page[g]) \in SUBSET Docs
    BY DEF OnPage
  <2>2. p \in Pages /\ p.scored = OnPage(page[g]) \cap Scored
    BY <1>0, <2>1 DEF Pages
  <2>3. page' = [page EXCEPT ![g] = p]
    BY <1>0, <1>7 DEF QueryScored
  <2> QED
    BY <2>2, <2>3
<1>8. CASE RemoveFiltered(g)
  <2>1. PICK d : page' = [page EXCEPT ![g].scored = @ \ {d}]
    BY <1>8 DEF RemoveFiltered
  <2> DEFINE p == [page[g] EXCEPT !.scored = @ \ {d}]
  <2>2. p \in Pages /\ p.scored = page[g].scored \ {d}
    BY <1>0 DEF Pages
  <2> QED
    BY <1>0, <2>1, <2>2
<1>9. CASE AnswerLast(g)
  <2>1. page[g].items \in SUBSET Docs
    BY <1>0 DEF Pages
  <2> QED
    BY <1>2, <1>9, <2>1 DEF AnswerLast
<1>10. CASE AnswerNext(g)
  <2>1. PICK n \in Nat : page' = [page EXCEPT ![g] =
          [BlankPage EXCEPT !.after = n, !.seen = page[g].seen \cup page[g].items]]
    BY <1>0, <1>10 DEF AnswerNext, OnPage, Pages
  <2> DEFINE p == [BlankPage EXCEPT !.after = n, !.seen = page[g].seen \cup page[g].items]
  <2>2. page[g].seen \cup page[g].items \in SUBSET Docs
    BY <1>0 DEF Pages
  <2>3. p \in Pages /\ p.scored = {}
    BY <2>2 DEF BlankPage, Pages, None, NoEntries
  <2> QED
    BY <2>1, <2>3
<1>11. CASE Reload(g)
  BY <1>11, BlankTyped DEF Reload
<1> QED
  BY <1>3, <1>4, <1>5, <1>6, <1>7, <1>8, <1>9, <1>10, <1>11 DEF ReaderStep

-----------------------------------------------------------------------------
ReadersInvariant == TypeOK /\ PagesTypeOK /\ FiltersScored

LEMMA ReadersInductive ==
  ASSUME ReadersInvariant, [ReadersNext]_readersVars
  PROVE  ReadersInvariant'
<1> USE DEF ReadersInvariant
<1>1. TypeOK'
  BY ReadersStep, StepTyped
<1>2. Scored \subseteq Scored'
  BY ReadersStep, ScoresGrow DEF Scored
<1>3. kept' \in [Readers -> SUBSET Docs]
  BY DEF ReadersNext, readersVars, Keep, OnTape, PagesTypeOK
<1>4. CASE UNCHANGED page
  BY <1>1, <1>2, <1>3, <1>4 DEF PagesTypeOK, FiltersScored
<1>5. ASSUME NEW g \in Readers, ReaderStep(g) PROVE PagesTypeOK' /\ FiltersScored'
  <2>1. PICK p \in Pages : page' = [page EXCEPT ![g] = p] /\ p.scored \subseteq Scored
    BY <1>5, ReaderTyped
  <2>2. page' \in [Readers -> Pages]
    BY <2>1 DEF PagesTypeOK
  <2>3. \A h \in Readers : page'[h].scored \subseteq Scored
    BY <2>1 DEF PagesTypeOK, FiltersScored
  <2>4. \A h \in Readers : page'[h].scored \subseteq Docs
    BY <2>2 DEF Pages
  <2> QED
    BY <1>2, <1>3, <2>2, <2>3, <2>4 DEF PagesTypeOK, FiltersScored
<1> QED
  BY <1>1, <1>4, <1>5 DEF ReadersNext, readersVars

\* In every state the service with its readers reaches, the variables have
\* their types and the readers take off the tape only scored documents.
THEOREM ReadersTypeCorrect == ReadersSpec => []ReadersInvariant
<1>1. ReadersInit => ReadersInvariant
  <2> SUFFICES ASSUME ReadersInit PROVE ReadersInvariant
    OBVIOUS
  <2>1. TypeOK
    BY InitTyped DEF ReadersInit
  <2>2. PagesTypeOK /\ FiltersScored
    BY BlankTyped DEF ReadersInit, PagesInit, PagesTypeOK, FiltersScored
  <2> QED
    BY <2>1, <2>2 DEF ReadersInvariant
<1> QED
  BY <1>1, ReadersInductive, PTL DEF ReadersSpec

\* The service with its readers is the service: read_tape does nothing to
\* the tape that TapeService does not have as an action.
THEOREM ReadersRefine == ReadersSpec => Service
<1>1. ReadersInit => Init
  BY DEF ReadersInit
<1>2. ReadersInvariant /\ [ReadersNext]_readersVars => [Next]_vars
  BY ReadersStep DEF ReadersInvariant
<1> QED
  BY <1>1, <1>2, ReadersTypeCorrect, PTL DEF ReadersSpec, Service, Spec

-----------------------------------------------------------------------------
(***************************************************************************)
(* A page: the first n members of a part of the tape.                      *)
(***************************************************************************)

\* ZRANGE has one order: positions, and the documents where they are equal.
LEMMA BeforeOrders ==
  ASSUME entries \in Tapes, NEW d \in Docs, NEW e \in Docs, NEW f \in Docs
  PROVE  /\ ~Before(d, d)
         /\ Before(d, e) /\ Before(e, f) => Before(d, f)
         /\ Before(d, e) \/ Before(e, d) \/ d = e
<1>1. d \in Nat /\ e \in Nat /\ f \in Nat
  BY DocsAssumption
<1>2. /\ entries[d] \in Int /\ entries[e] \in Int /\ entries[f] \in Int
  BY DEF Tapes, Absent
<1> QED
  BY <1>1, <1>2 DEF Before

\* How many members of S come before d.
Rank(S, d) == Cardinality({e \in S : Before(e, d)})

\* Different members have different ranks.
LEMMA RankOrders ==
  ASSUME entries \in Tapes, NEW S \in SUBSET Docs, NEW d \in S, NEW e \in S
  PROVE  /\ Rank(S, d) \in Nat
         /\ Before(d, e) => Rank(S, d) < Rank(S, e)
         /\ Rank(S, d) = Rank(S, e) => d = e
<1> DEFINE Below(x) == {y \in S : Before(y, x)}
<1>1. \A x \in S : IsFiniteSet(Below(x)) /\ Cardinality(Below(x)) \in Nat
  BY DocsAssumption, FS_Subset, FS_CardinalityType
<1>2. ASSUME NEW x \in S, NEW y \in S, Before(x, y)
      PROVE  Cardinality(Below(x)) < Cardinality(Below(y))
  <2>1. Below(x) \subseteq Below(y)
    BY <1>2, BeforeOrders
  <2>2. x \in Below(y) /\ x \notin Below(x)
    BY <1>2, BeforeOrders
  <2>3. /\ Cardinality(Below(x)) <= Cardinality(Below(y))
        /\ Cardinality(Below(y)) = Cardinality(Below(x)) => Below(y) = Below(x)
    BY <1>1, <2>1, FS_Subset
  <2> QED
    BY <1>1, <2>2, <2>3
<1>3. Before(d, e) \/ Before(e, d) \/ d = e
  BY BeforeOrders
<1> QED
  BY <1>1, <1>2, <1>3 DEF Rank

\* LIMIT n: at most n members; all of them, unless there are n; and what is
\* left out comes behind all that is taken.
THEOREM PageIsPrefix ==
  ASSUME entries \in Tapes, NEW S \in SUBSET Docs, NEW n \in Nat
  PROVE  /\ FirstOf(S, n) \subseteq S
         /\ Cardinality(FirstOf(S, n)) <= n
         /\ Cardinality(FirstOf(S, n)) # n => FirstOf(S, n) = S
         /\ \A d \in S \ FirstOf(S, n), e \in FirstOf(S, n) : Before(e, d)
<1> DEFINE F == FirstOf(S, n)
<1>1. F = {d \in S : Rank(S, d) < n}
  BY DEF FirstOf, Rank
<1>2. \A d \in S : Rank(S, d) \in Nat
  BY RankOrders
<1>3. IsFiniteSet(S) /\ IsFiniteSet(F) /\ Cardinality(F) \in Nat
  BY <1>1, DocsAssumption, FS_Subset, FS_CardinalityType
<1>4. \A d \in S \ F, e \in F : Before(e, d)
  <2> SUFFICES ASSUME NEW d \in S \ F, NEW e \in F PROVE Before(e, d)
    OBVIOUS
  <2>1. Rank(S, e) < Rank(S, d)
    BY <1>1, <1>2
  <2>2. ~Before(d, e) /\ d # e
    BY <1>1, <1>2, <2>1, RankOrders
  <2> QED
    BY <1>1, <2>2, BeforeOrders
<1>5. Cardinality(F) <= n
  <2> DEFINE f == [d \in F |-> Rank(S, d)]
  <2>1. f \in [F -> 0..(n - 1)]
    BY <1>1, <1>2
  <2>2. f \in Injection(F, 0..(n - 1))
    BY <1>1, <2>1, RankOrders DEF Injection, IsInjective
  <2>3. IsFiniteSet(0..(n - 1)) /\ Cardinality(0..(n - 1)) = n
    BY FS_Interval
  <2> QED
    BY <2>2, <2>3, FS_Injection
<1>6. ASSUME F # S PROVE Cardinality(F) = n
  <2> DEFINE Below(x) == {y \in S : Before(y, x)}
             T == {Below(x) : x \in S \ F}
  <2>1. T \subseteq FiniteSubsetsOf(S) /\ T # {}
    <3>1. \A x : Below(x) \in FiniteSubsetsOf(S)
      BY <1>3, FS_Subset DEF FiniteSubsetsOf
    <3>2. S \ F # {}
      BY <1>1, <1>6
    <3> QED
      BY <3>1, <3>2
  <2>2. PICK B \in T : \A C \in T : <<C, B>> \notin StrictSubsetOrdering(S)
    BY <2>1, FS_StrictSubsetOrderingWellFounded, WFMin
  <2>3. PICK d \in S \ F : B = Below(d)
    BY <2>2
  <2>4. ASSUME NEW e \in S \ F PROVE ~Before(e, d)
    <3>1. SUFFICES ASSUME Before(e, d) PROVE FALSE
      OBVIOUS
    <3>2. Below(e) \subseteq Below(d) /\ e \in Below(d) /\ e \notin Below(e)
      BY <3>1, BeforeOrders
    <3>3. <<Below(e), Below(d)>> \in StrictSubsetOrdering(S)
      BY <3>2 DEF StrictSubsetOrdering
    <3> QED
      BY <2>2, <2>3, <3>3
  <2>5. {e \in S : Before(e, d)} = F
    BY <1>1, <1>4, <2>4
  <2>6. Rank(S, d) = Cardinality(F)
    BY <2>5 DEF Rank
  <2> QED
    BY <1>1, <1>2, <1>5, <2>6
<1> QED
  BY <1>1, <1>4, <1>5, <1>6

-----------------------------------------------------------------------------
(***************************************************************************)
(* A single page: what it shows and how far its cursor moves.              *)
(***************************************************************************)

\* What a request takes for scored when it begins has been scored, and it
\* decides only then what to show; the rows it reads lie behind its cursor.
Screened(g) ==
  /\ page[g].known \subseteq Scored
  /\ page[g].at # "filter" => page[g].items = {}
  /\ page[g].items \cap page[g].known = {}
BehindCursor(g) ==
  page[g].at \in {"scored", "filter"} =>
    \A d \in OnPage(page[g]) : page[g].rows[d] > page[g].after
PageInvariant == \A g \in Readers : Screened(g) /\ BehindCursor(g)

\* What the rows of a page are when they have been read.
LEMMA RowsRead ==
  ASSUME TypeOK, PagesTypeOK, NEW g \in Readers, ReadRows(g)
  PROVE  LET rest == {d \in OnTape : entries[d] > page[g].after}
             first == FirstOf(rest, page[g].size)
         IN /\ first \subseteq rest
            /\ OnPage(page'[g]) = first
            /\ \A d \in first : page'[g].rows[d] = entries[d]
            /\ page'[g].at = IF rest = {} THEN "count" ELSE "scored"
            /\ page'[g].after = page[g].after /\ page'[g].size = page[g].size
            /\ page'[g].seen = page[g].seen /\ page'[g].items = page[g].items
            /\ page'[g].known = page[g].known
<1> DEFINE rest == {d \in OnTape : entries[d] > page[g].after}
           first == FirstOf(rest, page[g].size)
           rows == [d \in Docs |-> IF d \in first THEN entries[d] ELSE Absent]
<1>1. page \in [Readers -> Pages] /\ page[g] \in Pages
  BY DEF PagesTypeOK
<1>2. first \subseteq rest /\ rest \subseteq OnTape /\ OnTape \subseteq Docs
  BY DEF FirstOf, OnTape
<1>3. page'[g] = [page[g] EXCEPT !.at = IF rest = {} THEN "count" ELSE "scored",
                                 !.rows = rows]
  BY <1>1 DEF ReadRows
<1>4. {d \in Docs : rows[d] # Absent} = first
  BY <1>2 DEF OnTape
<1> HIDE DEF rest, first
<1>5. page'[g].rows = rows
  BY <1>1, <1>3 DEF Pages
<1>6. OnPage(page'[g]) = first
  BY <1>4, <1>5 DEF OnPage
<1>7. \A d \in first : page'[g].rows[d] = entries[d]
  BY <1>2, <1>5
<1> QED
  BY <1>1, <1>2, <1>3, <1>6, <1>7 DEF rest, first, Pages

\* A step leaves the page of a reader alone or is a step of that reader.
LEMMA StepOnPage ==
  ASSUME PagesTypeOK, [ReadersNext]_readersVars, NEW g \in Readers
  PROVE  \/ page'[g] = page[g]
         \/ ReaderStep(g)
<1>1. ASSUME NEW h \in Readers, ReaderStep(h), g # h PROVE page'[g] = page[g]
  BY <1>1 DEF PagesTypeOK, ReaderStep, CheckLock, ReadPageConfig, ReadRows,
     CountEntries, QueryScored, RemoveFiltered, AnswerLast, AnswerNext, Reload, End
<1> QED
  BY <1>1 DEF ReadersNext, readersVars

LEMMA PageInductive ==
  ASSUME ReadersInvariant, PageInvariant, [ReadersNext]_readersVars
  PROVE  PageInvariant'
<1> SUFFICES ASSUME NEW g \in Readers PROVE Screened(g)' /\ BehindCursor(g)'
  BY DEF PageInvariant
<1>0. /\ TypeOK /\ PagesTypeOK /\ page \in [Readers -> Pages] /\ page[g] \in Pages
      /\ Screened(g) /\ BehindCursor(g)
  BY DEF ReadersInvariant, PagesTypeOK, PageInvariant
<1>1. Scored \subseteq Scored'
  BY ReadersStep, ScoresGrow DEF Scored, ReadersInvariant
<1>2. CASE page'[g] = page[g]
  BY <1>0, <1>1, <1>2 DEF Screened, BehindCursor, OnPage
<1>3. ASSUME NEW state, NEW items, End(g, state, items) PROVE Screened(g)' /\ BehindCursor(g)'
  <2>1. /\ page'[g].items = {} /\ page'[g].known = {} /\ page'[g].at = "end"
    BY <1>0, <1>3 DEF End, BlankPage
  <2> QED
    BY <2>1 DEF Screened, BehindCursor
<1>4. ASSUME page'[g].items = page[g].items, page'[g].known = page[g].known,
             page[g].at # "filter"
      PROVE  Screened(g)'
  BY <1>0, <1>1, <1>4 DEF Screened
<1>5. CASE CheckLock(g)
  <2>1. /\ page[g].at = "check" /\ page'[g].items = page[g].items
        /\ page'[g].known = Scored /\ page'[g].at = "config"
    BY <1>0, <1>5 DEF CheckLock, Pages
  <2> QED
    BY <1>0, <1>1, <2>1 DEF Screened, BehindCursor
<1>6. CASE ReadPageConfig(g)
  <2>1. CASE cfg = NoConfig
    BY <1>3, <1>6, <2>1 DEF ReadPageConfig
  <2>2. CASE cfg # NoConfig
    <3>1. /\ page[g].at = "config" /\ page'[g].items = page[g].items
          /\ page'[g].known = page[g].known /\ page'[g].at = "rows"
      BY <1>0, <1>6, <2>2 DEF ReadPageConfig, Pages
    <3> QED
      BY <1>4, <3>1 DEF BehindCursor
  <2> QED
    BY <2>1, <2>2
<1>7. CASE ReadRows(g)
  <2>1. page[g].at = "rows"
    BY <1>7 DEF ReadRows
  <2>2. /\ page'[g].items = page[g].items /\ page'[g].known = page[g].known
        /\ \A d \in OnPage(page'[g]) : page'[g].rows[d] > page'[g].after
    BY <1>0, <1>7, RowsRead
  <2> QED
    BY <1>4, <2>1, <2>2 DEF BehindCursor, OnPage
<1>8. CASE CountEntries(g)
  BY <1>3, <1>8 DEF CountEntries
<1>9. CASE QueryScored(g)
  <2>1. /\ page'[g].at = "filter" /\ page[g].at = "scored"
        /\ page'[g].items = OnPage(page[g]) \ Scored
        /\ page'[g].known = page[g].known
        /\ page'[g].rows = page[g].rows /\ page'[g].after = page[g].after
    BY <1>0, <1>9 DEF QueryScored, Pages
  <2> QED
    BY <1>0, <1>1, <2>1 DEF Screened, BehindCursor, OnPage
<1>10. CASE RemoveFiltered(g)
  <2>1. /\ page'[g].at = page[g].at /\ page'[g].items = page[g].items
        /\ page'[g].known = page[g].known
        /\ page'[g].rows = page[g].rows /\ page'[g].after = page[g].after
    BY <1>0, <1>10 DEF RemoveFiltered, Pages
  <2> QED
    BY <1>0, <1>1, <2>1 DEF Screened, BehindCursor, OnPage
<1>11. CASE AnswerLast(g)
  BY <1>3, <1>11 DEF AnswerLast
<1>12. CASE AnswerNext(g) \/ Reload(g)
  <2>1. page'[g].items = {} /\ page'[g].known = {} /\ page'[g].at = "check"
    <3>1. CASE AnswerNext(g)
      BY <1>0, <3>1 DEF AnswerNext, BlankPage
    <3>2. CASE Reload(g)
      BY <1>0, <3>2 DEF Reload, BlankPage
    <3> QED
      BY <1>12, <3>1, <3>2
  <2> QED
    BY <2>1 DEF Screened, BehindCursor
<1> QED
  BY <1>2, <1>5, <1>6, <1>7, <1>8, <1>9, <1>10, <1>11, <1>12, StepOnPage, <1>0
     DEF ReaderStep

LEMMA PagesAlways == ReadersSpec => []PageInvariant
<1>1. ReadersInit => PageInvariant
  BY DEF ReadersInit, PagesInit, BlankPage, PageInvariant, Screened, BehindCursor
<1> QED
  BY <1>1, PageInductive, ReadersTypeCorrect, PTL DEF ReadersSpec

\* A page does not show what its user had scored when the request came in,
\* however late the removals are.
THEOREM ScoredHidden == ReadersSpec => []ScoredNeverShown
<1>1. PageInvariant => ScoredNeverShown
  BY DEF PageInvariant, Screened, ScoredNeverShown
<1> QED
  BY <1>1, PagesAlways, PTL

\* The cursor a page returns lies behind the one it was asked with.
THEOREM CursorMoves == ReadersSpec => CursorAdvances
<1>1. ReadersInvariant /\ PageInvariant /\ [ReadersNext]_readersVars =>
        [\A g \in Readers :
           page[g].at = "filter" /\ page'[g].at = "check"
             => page'[g].after > page[g].after]_readersVars
  <2> SUFFICES ASSUME ReadersInvariant, PageInvariant, [ReadersNext]_readersVars,
                      NEW g \in Readers, page[g].at = "filter", page'[g].at = "check"
               PROVE  page'[g].after > page[g].after
    OBVIOUS
  <2>1. PagesTypeOK /\ page \in [Readers -> Pages] /\ page[g] \in Pages
    BY DEF ReadersInvariant, PagesTypeOK
  <2>2. ReaderStep(g)
    BY <2>1, StepOnPage
  <2>3. AnswerNext(g)
    <3>1. ~RemoveFiltered(g)
      BY <2>1 DEF RemoveFiltered, Pages
    <3>2. ~AnswerLast(g)
      BY <2>1 DEF AnswerLast, End, BlankPage
    <3> QED
      BY <2>2, <3>1, <3>2 DEF ReaderStep, CheckLock, ReadPageConfig, ReadRows,
         CountEntries, QueryScored, Reload
  <2>4. PICK last \in OnPage(page[g]) : page'[g].after = page[g].rows[last]
    BY <2>1, <2>3 DEF AnswerNext, BlankPage
  <2> QED
    BY <2>4 DEF PageInvariant, BehindCursor
<1> QED
  BY <1>1, PagesAlways, ReadersTypeCorrect, PTL DEF ReadersSpec, CursorAdvances

-----------------------------------------------------------------------------
(***************************************************************************)
(* A walk.  Everything that stays on the tape lies on one side of the      *)
(* cursor: what lies before it has been shown, or scored; what lies behind *)
(* it is on the page under way or, only if that page is full, behind it.   *)
(***************************************************************************)
Passed(g) == {d \in kept[g] : entries[d] <= page[g].after}
Shown(g) == page[g].seen \cup Scored
Walked(g) ==
  /\ kept[g] \subseteq OnTape
  /\ page[g].at # "end" => Passed(g) \subseteq Shown(g)
  /\ page[g].at \in {"scored", "filter"} =>
       /\ \A d \in kept[g] \cap OnPage(page[g]) : page[g].rows[d] = entries[d]
       /\ \A d \in kept[g] \ (Passed(g) \cup OnPage(page[g])) :
            /\ IsFull(page[g])
            /\ \A e \in OnPage(page[g]) : page[g].rows[e] < entries[d]
  /\ page[g].at = "filter" => OnPage(page[g]) \subseteq page[g].items \cup Scored
  /\ page[g].at = "count" => kept[g] \subseteq Passed(g)
  /\ page[g].at = "end" => kept[g] \subseteq Shown(g)

\* While a walk is under way, what is kept only gets less and stays where it
\* is, and what has been shown or scored only gets more.
LEMMA KeepsLess ==
  ASSUME ReadersInvariant, [ReadersNext]_readersVars, NEW g \in Readers,
         ~(page[g].at = "check" /\ page[g].after = None), Walked(g)
  PROVE  /\ kept'[g] \subseteq OnTape' /\ kept'[g] \subseteq kept[g]
         /\ \A d \in kept'[g] : entries'[d] = entries[d]
         /\ Scored \subseteq Scored'
<1>1. TypeOK /\ [Next]_vars
  BY ReadersStep DEF ReadersInvariant
<1>2. Scored \subseteq Scored'
  BY <1>1, ScoresGrow DEF Scored
<1>3. \/ kept'[g] = kept[g] \cap OnTape'
      \/ kept'[g] = kept[g] /\ UNCHANGED entries
  BY DEF ReadersNext, Keep, readersVars, vars, stateVars, tapeVars
<1>4. kept'[g] \subseteq OnTape' /\ kept'[g] \subseteq kept[g] /\ kept[g] \subseteq OnTape
  BY <1>3 DEF Walked, OnTape
<1>5. \A d \in OnTape \cap OnTape' : entries'[d] = entries[d]
  BY <1>1, PositionsKept DEF OnTape
<1> QED
  BY <1>2, <1>4, <1>5

\* A walk begins with the whole tape before it.
LEMMA WalkBegins ==
  ASSUME ReadersInvariant, ReadersNext, NEW g \in Readers,
         page[g].at = "check", page[g].after = None
  PROVE  Walked(g)'
<1>1. TypeOK /\ PagesTypeOK /\ page[g] \in Pages /\ page \in [Readers -> Pages]
  BY DEF ReadersInvariant, PagesTypeOK
<1>2. TypeOK'
  BY ReadersInductive DEF ReadersInvariant
<1>3. kept'[g] = OnTape'
  BY DEF ReadersNext, Keep
<1>4. page'[g].at \in {"check", "config"} /\ page'[g].after = None
  <2>1. CASE page'[g] = page[g]
    BY <2>1
  <2>2. CASE ReaderStep(g)
    <3>1. CheckLock(g)
      BY <2>2 DEF ReaderStep, ReadPageConfig, ReadRows, CountEntries, QueryScored,
         RemoveFiltered, AnswerLast, AnswerNext, Reload
    <3> QED
      BY <1>1, <3>1 DEF CheckLock, Pages
  <2> QED
    BY <1>1, <2>1, <2>2, StepOnPage
<1>5. \A d \in OnTape' : entries'[d] \in Nat
  BY <1>2 DEF OnTape, TypeOK
<1>6. Passed(g)' = {}
  BY <1>3, <1>4, <1>5 DEF Passed, None
<1> QED
  BY <1>3, <1>4, <1>6 DEF Walked

\* A step that neither reads nor answers keeps what is known of a walk.
LEMMA WalkGoesOn ==
  ASSUME ReadersInvariant, [ReadersNext]_readersVars, NEW g \in Readers,
         ~(page[g].at = "check" /\ page[g].after = None), Walked(g),
         \/ page'[g].at = page[g].at
         \/ page[g].at # "end" /\ page'[g].at \in {"config", "rows"},
         page'[g].after = page[g].after, page'[g].rows = page[g].rows,
         page'[g].size = page[g].size \/ page'[g].at \notin {"scored", "filter"},
         page'[g].items = page[g].items, page'[g].seen = page[g].seen
  PROVE  Walked(g)'
<1>1. /\ kept'[g] \subseteq OnTape' /\ kept'[g] \subseteq kept[g]
      /\ \A d \in kept'[g] : entries'[d] = entries[d]
      /\ Scored \subseteq Scored'
  BY KeepsLess
<1>2. Shown(g) \subseteq Shown(g)'
  BY <1>1 DEF Shown
<1>3. Passed(g)' = Passed(g) \cap kept'[g]
  BY <1>1 DEF Passed
<1>4. OnPage(page[g])' = OnPage(page[g])
  BY DEF OnPage
<1>5. page'[g].at \in {"scored", "filter"} => IsFull(page[g])' = IsFull(page[g])
  BY <1>4 DEF IsFull
<1> QED
  BY <1>1, <1>2, <1>3, <1>4, <1>5 DEF Walked

\* The size of a page and its cursor are numbers.
LEMMA PageNumbers ==
  ASSUME NEW p \in Pages
  PROVE  p.size \in Nat /\ p.after \in Int
<1>1. p.size \in PageSizes \cup {0} /\ p.after \in Nat \cup {None}
  BY DEF Pages
<1>2. \A n \in PageSizes : n \in Nat
  BY ConfigAssumption
<1> QED
  BY <1>1, <1>2 DEF None

\* A page is read.
LEMMA WalkReads ==
  ASSUME ReadersInvariant, [ReadersNext]_readersVars, NEW g \in Readers,
         Walked(g), PositionsUnique, intact, ReadRows(g)
  PROVE  Walked(g)'
<1> DEFINE rest == {d \in OnTape : entries[d] > page[g].after}
           first == FirstOf(rest, page[g].size)
<1>0. /\ TypeOK /\ PagesTypeOK /\ page[g] \in Pages /\ page[g].at = "rows"
      /\ entries \in Tapes
  BY DEF ReadersInvariant, PagesTypeOK, ReadRows, TypeOK, Tapes
<1>1. /\ kept'[g] \subseteq OnTape' /\ kept'[g] \subseteq kept[g]
      /\ \A d \in kept'[g] : entries'[d] = entries[d]
      /\ Scored \subseteq Scored'
  BY <1>0, KeepsLess
<1>2. /\ kept[g] \subseteq OnTape
      /\ Passed(g) \subseteq Shown(g)
  BY <1>0 DEF Walked
<1>3. /\ first \subseteq rest
      /\ OnPage(page'[g]) = first
      /\ \A d \in first : page'[g].rows[d] = entries[d]
      /\ page'[g].at = IF rest = {} THEN "count" ELSE "scored"
      /\ page'[g].after = page[g].after /\ page'[g].size = page[g].size
      /\ page'[g].seen = page[g].seen
  BY <1>0, RowsRead
<1>4. page[g].size \in Nat /\ page[g].after \in Int
  BY <1>0, PageNumbers
<1>5. rest \in SUBSET Docs /\ rest \subseteq OnTape
  BY DEF OnTape
<1>6. /\ Cardinality(first) # page[g].size => first = rest
      /\ \A d \in rest \ first, e \in first : Before(e, d)
  BY <1>0, <1>4, <1>5, PageIsPrefix
<1> HIDE DEF first
<1>7. Passed(g)' = Passed(g) \cap kept'[g]
  BY <1>1, <1>3 DEF Passed
<1>8. Passed(g)' \subseteq Shown(g)'
  BY <1>1, <1>2, <1>3, <1>7 DEF Shown
<1>9. \A d \in kept'[g] \ Passed(g)' : d \in rest
  <2> SUFFICES ASSUME NEW d \in kept'[g], d \notin Passed(g)' PROVE d \in rest
    OBVIOUS
  <2>1. d \in OnTape /\ entries[d] \in Int /\ ~(entries[d] <= page[g].after)
    BY <1>0, <1>1, <1>2, <1>7 DEF Passed, OnTape, TypeOK
  <2> QED
    BY <1>4, <2>1
<1>10. CASE rest = {}
  BY <1>1, <1>3, <1>8, <1>9, <1>10 DEF Walked
<1>11. CASE rest # {}
  <2>1. page'[g].at = "scored"
    BY <1>3, <1>11
  <2>2. \A d \in kept'[g] \cap OnPage(page'[g]) : page'[g].rows[d] = entries'[d]
    BY <1>1, <1>3
  <2>3. ASSUME NEW d \in kept'[g], d \notin Passed(g)', d \notin OnPage(page'[g])
        PROVE  /\ IsFull(page'[g])
               /\ \A e \in OnPage(page'[g]) : page'[g].rows[e] < entries'[d]
    <3>1. d \in rest /\ d \notin first
      BY <1>3, <1>9, <2>3
    <3>2. IsFull(page'[g])
      BY <1>3, <1>6, <3>1 DEF IsFull
    <3>3. ASSUME NEW e \in first PROVE entries[e] < entries[d]
      <4>1. Before(e, d) /\ e # d
        BY <1>6, <3>1
      <4>2. entries[e] # entries[d]
        BY <1>3, <1>5, <3>1, <4>1 DEF PositionsUnique
      <4> QED
        BY <4>1, <4>2 DEF Before
    <3> QED
      BY <1>1, <1>3, <2>3, <3>2, <3>3
  <2> QED
    BY <1>1, <1>8, <2>1, <2>2, <2>3 DEF Walked
<1> QED
  BY <1>10, <1>11

\* A page is answered, and was not the last.
LEMMA WalkTurns ==
  ASSUME ReadersInvariant, [ReadersNext]_readersVars, NEW g \in Readers,
         Walked(g), AnswerNext(g)
  PROVE  Walked(g)'
<1>0. /\ TypeOK /\ PagesTypeOK /\ page \in [Readers -> Pages] /\ page[g] \in Pages
      /\ page[g].at = "filter"
  BY DEF ReadersInvariant, PagesTypeOK, AnswerNext
<1>1. /\ kept'[g] \subseteq OnTape' /\ kept'[g] \subseteq kept[g]
      /\ \A d \in kept'[g] : entries'[d] = entries[d]
      /\ Scored \subseteq Scored'
  BY <1>0, KeepsLess
<1>2. PICK last \in OnPage(page[g]) :
        /\ \A d \in OnPage(page[g]) : page[g].rows[d] <= page[g].rows[last]
        /\ page'[g] = [BlankPage EXCEPT !.after = page[g].rows[last],
                                         !.seen = page[g].seen \cup page[g].items]
  BY <1>0 DEF AnswerNext
<1>3. /\ page'[g].at = "check" /\ page'[g].after = page[g].rows[last]
      /\ page'[g].seen = page[g].seen \cup page[g].items
  BY <1>2 DEF BlankPage
<1>4. ASSUME NEW d \in kept'[g], entries'[d] <= page'[g].after
      PROVE  d \in Shown(g)'
  <2>1. d \in kept[g] /\ entries[d] = entries'[d] /\ d \in Docs
    BY <1>1 DEF OnTape
  <2>2. CASE d \in Passed(g)
    BY <1>0, <1>1, <1>3, <2>2 DEF Walked, Shown
  <2>3. CASE d \in OnPage(page[g])
    BY <1>0, <1>1, <1>3, <2>3 DEF Walked, Shown
  <2>4. CASE d \notin Passed(g) /\ d \notin OnPage(page[g])
    <3>1. page[g].rows[last] < entries[d]
      BY <1>0, <1>2, <2>1, <2>4 DEF Walked
    <3>2. page[g].rows[last] \in Int /\ entries[d] \in Int
      BY <1>0, <2>1 DEF Pages, TypeOK, Absent, OnPage
    <3> QED
      BY <1>3, <1>4, <2>1, <3>1, <3>2
  <2> QED
    BY <2>2, <2>3, <2>4
<1>5. Passed(g)' \subseteq Shown(g)'
  BY <1>4 DEF Passed
<1> QED
  BY <1>1, <1>3, <1>5 DEF Walked

\* A walk ends.
LEMMA WalkEnds ==
  ASSUME ReadersInvariant, [ReadersNext]_readersVars, NEW g \in Readers,
         Walked(g), Configured, NEW state, NEW items, End(g, state, items),
         \/ ReadPageConfig(g) /\ cfg = NoConfig
         \/ CountEntries(g)
         \/ AnswerLast(g) /\ items = page[g].items
  PROVE  Walked(g)'
<1>0. /\ TypeOK /\ PagesTypeOK /\ page \in [Readers -> Pages] /\ page[g] \in Pages
      /\ page[g].at \in {"config", "count", "filter"}
  BY DEF ReadersInvariant, PagesTypeOK, ReadPageConfig, CountEntries, AnswerLast
<1>1. /\ kept'[g] \subseteq OnTape' /\ kept'[g] \subseteq kept[g]
      /\ Scored \subseteq Scored'
  BY <1>0, KeepsLess
<1>2. page'[g].at = "end" /\ page'[g].seen = page[g].seen \cup items
  BY <1>0 DEF End, BlankPage
<1>3. kept[g] \subseteq page[g].seen \cup items \cup Scored
  <2>1. CASE ReadPageConfig(g) /\ cfg = NoConfig
    BY <2>1 DEF Configured, Walked
  <2>2. CASE CountEntries(g)
    BY <2>2 DEF CountEntries, Walked, Shown
  <2>3. CASE AnswerLast(g) /\ items = page[g].items
    <3>1. page[g].at = "filter" /\ ~IsFull(page[g])
      BY <2>3 DEF AnswerLast
    <3>2. kept[g] \subseteq Passed(g) \cup OnPage(page[g])
      BY <3>1 DEF Walked
    <3> QED
      BY <2>3, <3>1, <3>2 DEF Walked, Shown
  <2> QED
    BY <2>1, <2>2, <2>3
<1>4. kept'[g] \subseteq Shown(g)'
  BY <1>1, <1>2, <1>3 DEF Shown
<1> QED
  BY <1>1, <1>2, <1>4 DEF Walked

LEMMA WalkInductive ==
  ASSUME ReadersInvariant, PositionsUnique, Configured, intact,
         [ReadersNext]_readersVars, NEW g \in Readers, Walked(g)
  PROVE  Walked(g)'
<1>0. /\ TypeOK /\ PagesTypeOK /\ page \in [Readers -> Pages] /\ page[g] \in Pages
  BY DEF ReadersInvariant, PagesTypeOK
<1>1. CASE UNCHANGED readersVars
  BY <1>1 DEF readersVars, vars, stateVars, tapeVars, platformVars, Walked, Passed,
     Shown, OnTape, Scored, OnPage, IsFull
<1>2. CASE ReadersNext /\ page[g].at = "check" /\ page[g].after = None
  BY <1>2, WalkBegins
<1>3. CASE ~(page[g].at = "check" /\ page[g].after = None)
  <2>1. CASE page'[g] = page[g]
    BY <1>3, <2>1, WalkGoesOn
  <2>2. CASE CheckLock(g)
    <3>1. /\ page[g].at = "check" /\ page'[g].at = "config"
          /\ page'[g].after = page[g].after /\ page'[g].rows = page[g].rows
          /\ page'[g].items = page[g].items /\ page'[g].seen = page[g].seen
      BY <1>0, <2>2 DEF CheckLock, Pages
    <3> QED
      BY <1>3, <3>1, WalkGoesOn
  <2>3. CASE ReadPageConfig(g)
    <3>1. CASE cfg = NoConfig
      BY <2>3, <3>1, WalkEnds DEF ReadPageConfig
    <3>2. CASE cfg # NoConfig
      <4>1. /\ page[g].at = "config" /\ page'[g].at = "rows"
            /\ page'[g].after = page[g].after /\ page'[g].rows = page[g].rows
            /\ page'[g].items = page[g].items /\ page'[g].seen = page[g].seen
        BY <1>0, <2>3, <3>2 DEF ReadPageConfig, Pages
      <4> QED
        BY <1>3, <4>1, WalkGoesOn
    <3> QED
      BY <3>1, <3>2
  <2>4. CASE ReadRows(g)
    BY <2>4, WalkReads
  <2>5. CASE CountEntries(g)
    BY <2>5, WalkEnds DEF CountEntries
  <2>6. CASE QueryScored(g)
    <3>1. /\ page[g].at = "scored" /\ page'[g].at = "filter"
          /\ page'[g].after = page[g].after /\ page'[g].rows = page[g].rows
          /\ page'[g].items = OnPage(page[g]) \ Scored
          /\ page'[g].seen = page[g].seen /\ page'[g].size = page[g].size
      BY <1>0, <2>6 DEF QueryScored, Pages
    <3>2. /\ kept'[g] \subseteq OnTape' /\ kept'[g] \subseteq kept[g]
          /\ \A d \in kept'[g] : entries'[d] = entries[d]
          /\ Scored \subseteq Scored'
      BY <1>3, KeepsLess
    <3>3. Shown(g) \subseteq Shown(g)' /\ Passed(g)' = Passed(g) \cap kept'[g]
      BY <3>1, <3>2 DEF Shown, Passed
    <3>4. OnPage(page[g])' = OnPage(page[g]) /\ IsFull(page[g])' = IsFull(page[g])
      BY <3>1 DEF OnPage, IsFull
    <3> QED
      BY <3>1, <3>2, <3>3, <3>4 DEF Walked
  <2>7. CASE RemoveFiltered(g)
    <3>1. /\ page'[g].at = page[g].at /\ page'[g].size = page[g].size
          /\ page'[g].after = page[g].after /\ page'[g].rows = page[g].rows
          /\ page'[g].items = page[g].items /\ page'[g].seen = page[g].seen
      BY <1>0, <2>7 DEF RemoveFiltered, Pages
    <3> QED
      BY <1>3, <3>1, WalkGoesOn
  <2>8. CASE AnswerLast(g)
    BY <2>8, WalkEnds DEF AnswerLast
  <2>9. CASE AnswerNext(g)
    BY <2>9, WalkTurns
  <2>10. CASE Reload(g)
    <3>1. /\ kept'[g] \subseteq OnTape' /\ kept'[g] \subseteq kept[g]
      BY <1>3, KeepsLess
    <3>2. page'[g].at = "check" /\ page'[g].after = None
      BY <1>0, <2>10 DEF Reload, BlankPage
    <3>3. TypeOK'
      BY ReadersInductive DEF ReadersInvariant
    <3>4. Passed(g)' = {}
      BY <3>1, <3>2, <3>3 DEF Passed, None, TypeOK, OnTape
    <3> QED
      BY <3>1, <3>2, <3>4 DEF Walked
  <2> QED
    BY <1>0, <2>1, <2>2, <2>3, <2>4, <2>5, <2>6, <2>7, <2>8, <2>9, <2>10, StepOnPage
       DEF ReaderStep
<1> QED
  BY <1>1, <1>2, <1>3

\* A client that follows the cursor to the end has been shown everything that
\* stayed on the tape and was not scored, however many pages the walk has and
\* whatever the workers and the other clients do, as long as leases hold.
THEOREM WalkComplete == ReadersSpec => []WalkMissesNothing
<1> DEFINE Inv == intact => Configured /\ \A g \in Readers : Walked(g)
<1>1. ReadersInit => Inv
  <2>1. ReadersInit => Configured
    BY DEF ReadersInit, Init, GeneratorInit, Configured, OnTape, NoEntries
  <2>2. ASSUME ReadersInit, NEW g \in Readers PROVE Walked(g)
    BY <2>2 DEF ReadersInit, PagesInit, BlankPage, Walked, Passed
  <2> QED
    BY <2>1, <2>2
<1>2. ReadersInvariant /\ Positions /\ Inv /\ [ReadersNext]_readersVars => Inv'
  <2> SUFFICES ASSUME ReadersInvariant, Positions, Inv, [ReadersNext]_readersVars, intact'
               PROVE  Configured' /\ \A g \in Readers : Walked(g)'
    OBVIOUS
  <2>1. TypeOK /\ [Next]_vars
    BY ReadersStep DEF ReadersInvariant
  <2>2. intact /\ PositionsUnique
    BY <2>1, Lease DEF Positions
  <2> QED
    BY <2>1, <2>2, ConfiguredInvariant, WalkInductive
<1>3. Inv => WalkMissesNothing
  BY DEF Walked, Shown, WalkMissesNothing
<1>4. ReadersSpec => []Positions
  BY ReadersRefine, PositionsInvariant DEF Service
<1> QED
  BY <1>1, <1>2, <1>3, <1>4, ReadersTypeCorrect, PTL DEF ReadersSpec

=============================================================================
