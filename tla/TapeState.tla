----------------------------- MODULE TapeState -----------------------------
(***************************************************************************)
(* The state the components of the tape service share, for one user: the   *)
(* user's keys in Redis and the rows of the platform database that the     *)
(* service reads and writes.  Every Redis key carries the user's id and    *)
(* every query selects by it, so the users of one service do not share     *)
(* any of this state.                                                      *)
(*                                                                         *)
(* Documents are numbers: Published gives their publication date, and the  *)
(* number itself is the order in which Redis breaks ties between members   *)
(* of a sorted set that have the same score.                               *)
(***************************************************************************)
EXTENDS Integers, FiniteSets, Sequences

CONSTANTS
  Docs,             \* the documents the platform may publish
  Sources,          \* the sources documents come from
  SourceOf,         \* SourceOf[d]: the source of document d
  Published,        \* Published[d]: its publication date
  Orderings,        \* the orderings a user may ask for
  Windows,          \* the date ranges a user may ask for, as sets of documents
  PageSizes,        \* the page sizes a user may ask for
  DefaultPageSize,  \* the page size of a configuration that names none
  Roles,            \* the roles a user scores documents in
  Workers,          \* the worker replicas
  NoConfig,         \* stands for an absent tape:cfg hash
  Free,             \* stands for an absent tape:lock key
  Orphan            \* stands for a lock token that no live process knows

ASSUME DocsAssumption == Docs \subseteq Nat /\ IsFiniteSet(Docs)
ASSUME CatalogueAssumption ==
  /\ SourceOf \in [Docs -> Sources]
  /\ Published \in [Docs -> Nat]
  /\ Windows \subseteq SUBSET Docs
  /\ Docs \in Windows
ASSUME WorkersAssumption == Free \notin Workers /\ Orphan \notin Workers
ASSUME ConfigAssumption ==
  /\ "desc" \in Orderings /\ Orderings \subseteq {"asc", "desc"}
  /\ PageSizes \subseteq Nat \ {0} /\ DefaultPageSize \in PageSizes

VARIABLES
  cfg,      \* tape:cfg without its dirty field, or NoConfig
  dirty,    \* the field "dirty" of tape:cfg: a full rebuild is due
  sources,  \* tape:cfg:src, the selected sources
  entries,  \* tape:entries: position of each document, or Absent
  lock,     \* tape:lock: Free, Orphan or the worker whose token it holds
  docs,     \* documents.document: the documents published so far
  scores    \* score.score: this user's rows, as <<document, role>>

configVars == <<cfg, dirty, sources>>
tapeVars == <<configVars, entries, lock>>
platformVars == <<docs, scores>>
stateVars == <<tapeVars, platformVars>>

Configs == [ordering : Orderings, window : Windows, page_size : PageSizes]
ASSUME NoConfigAssumption == NoConfig \notin Configs

\* What get_config makes of a hash that has none of the fields.
DefaultConfig ==
  [ordering |-> "desc", window |-> Docs, page_size |-> DefaultPageSize]

(***************************************************************************)
(* tape:entries, a sorted set of document ids scored by position.          *)
(***************************************************************************)
Absent == -1
NoEntries == [d \in Docs |-> Absent]
OnTape == {d \in Docs : entries[d] # Absent}

\* The order of ZRANGE.
Before(d, e) ==
  entries[d] < entries[e] \/ (entries[d] = entries[e] /\ d < e)

\* The first n members of a part S of the tape.
FirstOf(S, n) == {d \in S : Cardinality({e \in S : Before(e, d)}) < n}

\* The members with the highest position.
LastEntries == {d \in OnTape : \A e \in OnTape : entries[e] <= entries[d]}

\* Mutant of AddEntry: ZADD without NX.
AddEntryOver(d, position) == entries' = [entries EXCEPT ![d] = position]

\* ZADD NX: a document already on the tape keeps its position.
AddEntry(d, position) ==
  entries' = IF entries[d] = Absent
             THEN [entries EXCEPT ![d] = position]
             ELSE entries

\* ZREM; removing a document that is not there changes nothing.
RemoveEntry(d) == entries' = [entries EXCEPT ![d] = Absent]

DeleteAllEntries == entries' = NoEntries

(***************************************************************************)
(* tape:cfg and the queries on the platform database.                      *)
(***************************************************************************)

\* upsert_config: one HSET of the configuration and the dirty flag.
UpsertConfig(c) == cfg' = c /\ dirty' = TRUE

\* HSET tape:cfg dirty, which creates the hash when it is absent.
SetDirty(flag) ==
  /\ cfg' = IF cfg = NoConfig THEN DefaultConfig ELSE cfg
  /\ dirty' = flag

\* set_config_sources: one transaction that replaces the selected sources and
\* sets the dirty flag.
SetConfigSources(S) == sources' = S /\ SetDirty(TRUE)

\* score.save: a row that exists already is refused.
SaveScore(d, r) == <<d, r>> \notin scores /\ scores' = scores \cup {<<d, r>>}

\* The documents the user has scored, in whatever role.
Scored == {d \in Docs : \E r \in Roles : <<d, r>> \in scores}

\* The published documents a configuration c with sources S asks for.
Selected(c, S) == {d \in docs : SourceOf[d] \in S /\ d \in c.window}

\* ORDER BY published: the arrangements of C the database may answer with,
\* more than one when several documents have the same date.
Listings(C, ordering) ==
  {s \in [1..Cardinality(C) -> C] :
     \A i, j \in 1..Cardinality(C) : i < j =>
       /\ s[i] # s[j]
       /\ IF ordering = "asc" THEN Published[s[i]] <= Published[s[j]]
                              ELSE Published[s[i]] >= Published[s[j]]}

=============================================================================
