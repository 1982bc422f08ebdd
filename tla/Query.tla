------------------------------- MODULE Query -------------------------------
(***************************************************************************)
(* Store::get_many: the choice of index, the bounds of the range, and the  *)
(* QueryIterator that filters, groups, skips and counts while it scans.    *)
(*                                                                         *)
(* The iterator owns a snapshot of the tables and is consumed by a task of *)
(* its own, so a step of it interleaves with everything the store does.    *)
(*                                                                         *)
(* A query is a record of                                                  *)
(*   latest         SingleLatestPerKey, not Flat                           *)
(*   by_key         Flat's sort_by is KeyAuthor                            *)
(*   descending     sort_direction                                         *)
(*   author         {} for AuthorFilter::Any, {a} for Exact(a)             *)
(*   key            [kind |-> "any" | "exact" | "prefix", bytes |-> a key] *)
(*   include_empty, offset, limit   (limit = NoLimit for None)             *)
(***************************************************************************)
EXTENDS Entries, FiniteSets

CONSTANT Queries    \* the queries asked

\* No limit is not a number of entries.
NoLimit == -1

\* Every query there is, for the authors and keys of the model.
AuthorFilters == {{}} \cup {{a} : a \in Authors}

KeyFilters == {[kind |-> "any", bytes |-> << >>]} \cup
              [kind : {"exact", "prefix"}, bytes : Keys]

AllQueries == [latest : BOOLEAN, by_key : BOOLEAN, descending : BOOLEAN,
               author : AuthorFilters, key : KeyFilters, include_empty : BOOLEAN,
               offset : Nat, limit : Nat \cup {NoLimit}]

ASSUME QueryAssumption ==
    /\ Authors \subseteq Nat /\ IsFiniteSet(Authors)
    /\ IsFiniteSet(Keys)
    /\ Queries \subseteq AllQueries

VARIABLE it         \* the iterator: what it owns and what it has delivered

-----------------------------------------------------------------------------
(* Filters                                                                 *)

AuthorMatches(f, a) == f = {} \/ a \in f

KeyMatches(f, k) == \/ f.kind = "any"
                    \/ f.kind = "exact" /\ k = f.bytes
                    \/ f.kind = "prefix" /\ IsPrefixOf(f.bytes, k)

\* The keys between the bounds made from a key filter.
KeyRange(f) == IF f.kind = "any" THEN Keys
               ELSE IF f.kind = "exact" THEN {f.bytes}
               ELSE author_prefix[f.bytes]

\* IndexKind: the records table, ordered by author and key, or the by-key index.
ByAuthor(q) == ~ q.latest /\ (q.author # {} \/ ~ q.by_key)

\* Where a range alone selects the keys of a prefix, the bounds of the prefix
\* enclose nothing but its extensions.  PrefixRemovalIsExact is about the others.
PrefixesAreExact ==
    \A q \in Queries :
        q.key.kind = "prefix" /\ (ByAuthor(q) => q.author # {}) =>
            \A k \in author_prefix[q.key.bytes] : IsPrefixOf(q.key.bytes, k)

AuthorKeyLess(i, j) == i[1] < j[1] \/ (i[1] = j[1] /\ KeyLess(i[2], j[2]))

KeyAuthorLess(i, j) == KeyLess(i[2], j[2]) \/ (i[2] = j[2] /\ i[1] < j[1])

\* The order rows come in: forward or from the back.
Before(q, i, j) ==
    LET a == IF q.descending THEN j ELSE i
        b == IF q.descending THEN i ELSE j
    IN  IF ByAuthor(q) THEN AuthorKeyLess(a, b) ELSE KeyAuthorLess(a, b)

-----------------------------------------------------------------------------
(* The iterator                                                            *)

\* The rows of the range QueryIterator::new opens on tables t.
RangeRows(t, q) ==
    IF ByAuthor(q)
    THEN {id \in Ids : /\ Present(t.records, id)
                       /\ q.author = {} \/ (id[1] \in q.author /\ id[2] \in KeyRange(q.key))}
    ELSE {id \in t.by_key : id[2] \in KeyRange(q.key)}

NoTables == [records |-> [id \in Ids |-> NoRecord], by_key |-> {}]

NoQuery == [latest |-> FALSE, by_key |-> FALSE, descending |-> FALSE, author |-> {},
            key |-> [kind |-> "any", bytes |-> << >>], include_empty |-> FALSE,
            offset |-> 0, limit |-> NoLimit]

\* asked is what was visible when the query was asked; it is not part of the
\* iterator, only the yardstick its answer is measured by.
NoIterator == [phase |-> "idle", query |-> NoQuery, asked |-> NoTables.records,
               view |-> NoTables, rows |-> {}, selected |-> {}, skipped |-> 0,
               out |-> << >>]

QueryIterator(q, asked, t) ==
    [phase |-> "answering", query |-> q, asked |-> asked,
     view |-> [records |-> t.records, by_key |-> t.by_key], rows |-> RangeRows(t, q),
     selected |-> {}, skipped |-> 0, out |-> << >>]

Answering == it.phase = "answering"

LimitReached == it.query.limit # NoLimit /\ Len(it.out) >= it.query.limit

FirstOf(q, rows) == CHOOSE i \in rows : \A j \in rows \ {i} : Before(q, i, j)

\* next_filtered passes over a row for which this is false.  The by-key range
\* also passes over an index row that has no record.
Passes(id) ==
    IF ByAuthor(it.query)
    THEN /\ it.query.author = {} => KeyMatches(it.query.key, id[2])
         /\ it.query.include_empty \/ ~ IsEmpty(it.view.records[id])
    ELSE /\ AuthorMatches(it.query.author, id[1])
         /\ Present(it.view.records, id)

\* An entry that the range (or the selector) has given up: tombstones and the
\* entries before the offset are passed over, the others go out.
Deliver(s, id) ==
    IF ~ s.query.include_empty /\ IsEmpty(s.view.records[id]) THEN s
    ELSE IF s.skipped < s.query.offset THEN [s EXCEPT !.skipped = @ + 1]
    ELSE [s EXCEPT !.out = Append(@, <<id, s.view.records[id]>>)]

\* LatestPerKeySelector::push of an entry.
Push(s, id) ==
    IF s.selected = {} THEN [s EXCEPT !.selected = {id}]
    ELSE LET last == CHOOSE i \in s.selected : TRUE
         IN  IF last[2] # id[2]
             THEN Deliver([s EXCEPT !.selected = {id}], last)
             ELSE IF s.view.records[id].ts > s.view.records[last].ts
                  THEN [s EXCEPT !.selected = {id}]
                  ELSE s

\* One row of the range.
NextRow ==
    /\ Answering
    /\ ~ LimitReached
    /\ it.rows # {}
    /\ \E id \in {FirstOf(it.query, it.rows)} :
          LET s == [it EXCEPT !.rows = @ \ {id}]
          IN  it' = IF ~ Passes(id) THEN s
                    ELSE IF it.query.latest THEN Push(s, id)
                    ELSE Deliver(s, id)

\* The range is exhausted: the selector gives up what it holds.
LastSelected ==
    /\ Answering
    /\ ~ LimitReached
    /\ it.rows = {}
    /\ \E id \in it.selected : it' = Deliver([it EXCEPT !.selected = {}], id)

\* next returns None.
StreamEnds ==
    /\ Answering
    /\ LimitReached \/ (it.rows = {} /\ it.selected = {})
    /\ it' = [it EXCEPT !.phase = "complete"]

\* The store goes away under the stream.
StreamIsCut == it' = IF Answering THEN [it EXCEPT !.phase = "cut"] ELSE it

-----------------------------------------------------------------------------
(* The answer a query has, from the records alone                          *)

KeyMatching(rec, q) == {id \in Ids : Present(rec, id) /\ KeyMatches(q.key, id[2])}

Matching(rec, q) == {id \in Ids : /\ Present(rec, id)
                                  /\ AuthorMatches(q.author, id[1])
                                  /\ KeyMatches(q.key, id[2])}

\* The newest entry of each key; of equally new ones the first in the order.
LatestPerKey(rec, q, ids) ==
    {i \in ids : \A j \in ids \ {i} :
        j[2] = i[2] => \/ rec[j].ts < rec[i].ts
                       \/ rec[j].ts = rec[i].ts /\ Before(q, i, j)}

\* "the key filter is applied *before* the grouping, the author filter is applied
\* *after* the grouping" (store.rs:279).
Documented(rec, q) ==
    LET ids == IF q.latest THEN LatestPerKey(rec, q, KeyMatching(rec, q)) ELSE KeyMatching(rec, q)
    IN  {i \in ids : /\ AuthorMatches(q.author, i[1])
                     /\ q.include_empty \/ ~ IsEmpty(rec[i])}

\* The by-key range passes over the other authors' rows before the selector sees
\* them: the author filter is applied before the grouping, too.
Selected(rec, q) ==
    LET ids == IF q.latest THEN LatestPerKey(rec, q, Matching(rec, q)) ELSE Matching(rec, q)
    IN  {i \in ids : q.include_empty \/ ~ IsEmpty(rec[i])}

\* The order a query asks for, whatever index serves it.
Sorted(q, i, j) ==
    LET a == IF q.descending THEN j ELSE i
        b == IF q.descending THEN i ELSE j
    IN  IF q.latest \/ q.by_key THEN KeyAuthorLess(a, b) ELSE AuthorKeyLess(a, b)

Ranked(q, ids, n) == CHOOSE i \in ids : Cardinality({j \in ids : Sorted(q, j, i)}) = n

\* The entries ids in the order asked for, from offset on and up to limit.
Page(rec, q, ids) ==
    LET n   == Cardinality(ids) - q.offset
        len == IF n < 0 THEN 0
               ELSE IF q.limit = NoLimit \/ n < q.limit THEN n ELSE q.limit
    IN  [i \in 1 .. len |-> LET id == Ranked(q, ids, q.offset + i - 1)
                            IN  <<id, rec[id]>>]

DocumentedAnswer(rec, q) == Page(rec, q, Documented(rec, q))

Answer(rec, q) == Page(rec, q, Selected(rec, q))

\* The two orders of the filters differ in the latest entries of one author only.
PromisedFor(rec, q) ==
    IF q.latest /\ q.author # {} THEN Answer(rec, q) ELSE DocumentedAnswer(rec, q)
=============================================================================
