----------------------------- MODULE TapePages -----------------------------
(***************************************************************************)
(* GET /tape beside the rest of the service: the handler read_tape, one    *)
(* action per call to Redis or to the platform database, and clients that  *)
(* walk the tape from page to page by the cursor the handler returns.      *)
(*                                                                         *)
(* The rows of a page are kept as the tape is, the position of every       *)
(* document or Absent.  The variable kept is a history variable, which no  *)
(* action reads.                                                           *)
(***************************************************************************)
EXTENDS TapeService

CONSTANT Readers   \* the clients that walk the tape

VARIABLES
  page,  \* page[g]: the request client g makes and the walk it belongs to
  kept   \* kept[g]: the documents on the tape ever since g's walk began

\* The value None of after and of next_position.
None == -1

Pages == [at : {"check", "config", "rows", "count", "scored", "filter", "end"},
          after : Nat \cup {None}, size : PageSizes \cup {0},
          dirty : BOOLEAN, rows : [Docs -> Nat \cup {Absent}],
          scored : SUBSET Docs, items : SUBSET Docs, known : SUBSET Docs,
          seen : SUBSET Docs,
          state : {"ok", "empty", "preparing"}]

\* A walk that is about to begin.
BlankPage == [at |-> "check", after |-> None, size |-> 0, dirty |-> FALSE,
              rows |-> NoEntries, scored |-> {}, items |-> {}, known |-> {},
              seen |-> {}, state |-> "empty"]

PagesInit ==
  /\ page = [g \in Readers |-> BlankPage]
  /\ kept = [g \in Readers |-> {}]

\* The last page of a walk is answered.
End(g, state, items) ==
  page' = [page EXCEPT ![g] = [BlankPage EXCEPT !.at = "end", !.state = state,
                                                !.seen = page[g].seen \cup items]]

-----------------------------------------------------------------------------
\* is_locked; a client that is refused (TAPE_LOCKED) asks again.
CheckLock(g) ==
  /\ page[g].at = "check"
  /\ lock = Free
  /\ page' = [page EXCEPT ![g].at = "config", ![g].known = Scored]
  /\ UNCHANGED stateVars

\* get_config; without a configuration the answer is an empty last page.
ReadPageConfig(g) ==
  /\ page[g].at = "config"
  /\ IF cfg = NoConfig
     THEN End(g, "empty", {})
     ELSE page' = [page EXCEPT ![g].at = "rows", ![g].dirty = dirty,
                                  ![g].size = cfg.page_size]
  /\ UNCHANGED stateVars

\* Mutants of ReadRows: the cursor is included; the entry behind it is skipped.
ReadRowsFrom(g) ==
  LET rest == {d \in OnTape : entries[d] >= page[g].after}
      first == FirstOf(rest, page[g].size)
      rows == [d \in Docs |-> IF d \in first THEN entries[d] ELSE Absent]
  IN /\ page[g].at = "rows"
     /\ page' = [page EXCEPT ![g].at = IF rest = {} THEN "count" ELSE "scored",
                             ![g].rows = rows]
     /\ UNCHANGED stateVars

ReadRowsSkipping(g) ==
  LET rest == {d \in OnTape : entries[d] > page[g].after + 1}
      first == FirstOf(rest, page[g].size)
      rows == [d \in Docs |-> IF d \in first THEN entries[d] ELSE Absent]
  IN /\ page[g].at = "rows"
     /\ page' = [page EXCEPT ![g].at = IF rest = {} THEN "count" ELSE "scored",
                             ![g].rows = rows]
     /\ UNCHANGED stateVars

\* list_entries_page: the first page_size entries behind the cursor.
ReadRows(g) ==
  LET rest == {d \in OnTape : entries[d] > page[g].after}
      first == FirstOf(rest, page[g].size)
      rows == [d \in Docs |-> IF d \in first THEN entries[d] ELSE Absent]
  IN /\ page[g].at = "rows"
     /\ page' = [page EXCEPT ![g].at = IF rest = {} THEN "count" ELSE "scored",
                             ![g].rows = rows]
     /\ UNCHANGED stateVars

\* count_entries tells an empty tape that waits for its rebuild from the end.
CountEntries(g) ==
  /\ page[g].at = "count"
  /\ End(g, IF OnTape = {} /\ page[g].dirty THEN "preparing" ELSE "empty", {})
  /\ UNCHANGED stateVars

OnPage(p) == {d \in Docs : p.rows[d] # Absent}

\* Mutants of QueryScored: the page shows all rows; it drops them all.
QueryScoredShowing(g) ==
  /\ page[g].at = "scored"
  /\ page' = [page EXCEPT ![g].at = "filter", ![g].items = OnPage(page[g]),
                          ![g].scored = OnPage(page[g]) \cap Scored]
  /\ UNCHANGED stateVars

QueryScoredDropping(g) ==
  /\ page[g].at = "scored"
  /\ page' = [page EXCEPT ![g].at = "filter", ![g].items = OnPage(page[g]) \ Scored,
                          ![g].scored = OnPage(page[g])]
  /\ UNCHANGED stateVars

\* _filter_already_scored: what the user has scored is not shown ...
QueryScored(g) ==
  LET rows == OnPage(page[g])
  IN /\ page[g].at = "scored"
     /\ page' = [page EXCEPT ![g].at = "filter", ![g].items = rows \ Scored,
                             ![g].scored = rows \cap Scored]
     /\ UNCHANGED stateVars

\* ... and is taken off the tape, one remove_entry for each.
RemoveFiltered(g) ==
  /\ page[g].at = "filter"
  /\ \E d \in page[g].scored :
       /\ RemoveEntry(d)
       /\ page' = [page EXCEPT ![g].scored = @ \ {d}]
  /\ UNCHANGED <<configVars, lock, platformVars>>

IsFull(p) == Cardinality(OnPage(p)) = p.size

\* A page that is not full is the last one.
AnswerLast(g) ==
  /\ page[g].at = "filter"
  /\ page[g].scored = {}
  /\ ~IsFull(page[g])
  /\ End(g, IF page[g].items = {} THEN "empty" ELSE "ok", page[g].items)
  /\ UNCHANGED stateVars

\* A full page has a next_position, that of its last row, scored or not; the
\* client asks for what lies behind it.
AnswerNext(g) ==
  /\ page[g].at = "filter"
  /\ page[g].scored = {}
  /\ IsFull(page[g])
  /\ \E last \in OnPage(page[g]) :
       /\ \A d \in OnPage(page[g]) : page[g].rows[d] <= page[g].rows[last]
       /\ page' = [page EXCEPT ![g] =
                     [BlankPage EXCEPT !.after = page[g].rows[last],
                                       !.seen = page[g].seen \cup page[g].items]]
  /\ UNCHANGED stateVars

\* The client starts a new walk.
Reload(g) ==
  /\ page[g].at = "end"
  /\ page' = [page EXCEPT ![g] = BlankPage]
  /\ UNCHANGED stateVars

ReaderStep(g) ==
  \/ CheckLock(g) \/ ReadPageConfig(g) \/ ReadRows(g) \/ CountEntries(g)
  \/ QueryScored(g) \/ RemoveFiltered(g)
  \/ AnswerLast(g) \/ AnswerNext(g) \/ Reload(g)

-----------------------------------------------------------------------------
\* What has been on the tape ever since g's walk began: at its first request.
Keep ==
  kept' = [g \in Readers |->
             IF page[g].at = "check" /\ page[g].after = None
             THEN OnTape' ELSE kept[g] \cap OnTape']

readersVars == <<vars, page, kept>>

ReadersInit == Init /\ PagesInit
ReadersNext ==
  /\ \/ Next /\ UNCHANGED page
     \/ \E g \in Readers :
          ReaderStep(g) /\ UNCHANGED <<generatorVars, listenerVars, apiVars, faultVars>>
  /\ Keep
ReadersSpec == ReadersInit /\ [][ReadersNext]_readersVars

-----------------------------------------------------------------------------
\* Every page record has its type.
PagesTypeOK ==
  /\ page \in [Readers -> Pages]
  /\ kept \in [Readers -> SUBSET Docs]

\* A walk misses nothing: a client that follows next_position to the end has
\* been shown every document that was on the tape all the time and that the
\* user has not scored, whatever runs, rebuilds and removals went on, as long
\* as leases hold: the cursor passes over a document whose position is not its
\* own, and after a loss of Redis a stale run may fill a tape that has no
\* configuration.
WalkMissesNothing ==
  intact => \A g \in Readers :
    page[g].at = "end" => kept[g] \subseteq page[g].seen \cup Scored

\* What DEPLOY.md calls the safety filter: a document that was scored before
\* the request came in is not on the page, even if no removal has reached it.
ScoredNeverShown ==
  \A g \in Readers : page[g].items \cap page[g].known = {}

\* The pages of a walk do not overlap: the cursor of the next request lies
\* behind the cursor of this one, so that a walk comes to an end.
CursorAdvances ==
  [][\A g \in Readers :
       page[g].at = "filter" /\ page'[g].at = "check" => page'[g].after > page[g].after]_readersVars

\* The reader is one of the actions the rest of the service is modelled and
\* proved with: a step of read_tape changes the tape, if at all, as
\* FilterScored does.
Service == Spec

\* What README.md promises: GET /tape is refused while the worker regenerates
\* the tape, so no page is read from a tape on which a run is at work.
NoPageMidRun ==
  [][\A g \in Readers :
       page[g].at = "rows" /\ page'[g].at # "rows" => lock = Free]_readersVars

=============================================================================
