----------------------------- MODULE Reconcile -----------------------------
(***************************************************************************)
(* One set-reconciliation session between two replicas of a namespace:     *)
(* ranger.rs over the session's view of the store (filter.rs) and the gate *)
(* incoming entries pass (sync.rs), driven by the rounds of net/codec.rs.  *)
(*                                                                         *)
(* Reads go through the snapshot of the session and the side's egress      *)
(* filter; writes, and the check whether an entry would be taken in, go to *)
(* the live store, which local writes change meanwhile.  A fingerprint is  *)
(* the set of entries it is the hash of: different sets have different     *)
(* fingerprints.                                                           *)
(*                                                                         *)
(*   rec       the records table of each side                              *)
(*   snap      the snapshot a side serves from, once its session is open   *)
(*   phase     "new", "init" (the Init is under way), "running" or "done"  *)
(*   to, net   the side the message under way is for, and its parts        *)
(*   observed  rejections handed to the side's rejection observer          *)
(*   writes    local writes so far                                         *)
(* Fixed for the session: admits, the ids a side's filter lets out, gate,  *)
(* what a side's validator answers for an id, and quota, the bound on the  *)
(* local writes meanwhile.                                                 *)
(* History: rounds, the messages processed so far.                         *)
(***************************************************************************)
EXTENDS Entries, FiniteSets

CONSTANTS
    split_factor,
    max_set_size,
    MaxRejections,   \* MAX_REJECTIONS_PER_MESSAGE
    DefaultId,       \* RecordIdentifier::default(), below every id
    Sessions,        \* the kinds of session: each has the records tables a side may
                     \* start with (stored), the sets of ids a filter may admit
                     \* (filters), the verdicts a validator may give, as functions
                     \* of the id (gates), and a quota of local writes
    Writes           \* the entries that are written locally meanwhile

VARIABLES rec, snap, phase, to, net, observed, writes, admits, gate, quota, rounds

vars == <<rec, snap, phase, to, net, observed, writes, admits, gate, quota, rounds>>

Sides == {"Alice", "Bob"}

Peer(p) == IF p = "Alice" THEN "Bob" ELSE "Alice"

Entry == [id : Ids, r : Records]

EntriesOf(t) == {[id |-> i, r |-> t[i]] : i \in {j \in Ids : Present(t, j)}}

NoTable == [i \in Ids |-> NoRecord]

Verdicts == {"Accept", "Drop", "Reject"}

ASSUME ReconcileAssumption ==
    /\ split_factor \in Nat /\ split_factor >= 2
    /\ max_set_size \in Nat
    /\ Authors \subseteq Nat /\ IsFiniteSet(Authors)
    /\ IsFiniteSet(Keys)
    /\ DefaultId \notin Ids
    /\ Writes \subseteq Entry
    /\ \A s \in Sessions : /\ s.stored \subseteq {t \in RecordTables : Pruned(t)}
                           /\ s.filters \subseteq SUBSET Ids
                           /\ s.gates \subseteq [Ids -> Verdicts]
                           /\ s.quota \in Nat

-----------------------------------------------------------------------------
(* The session's view of the store: a set of entries, in the order of the  *)
(* table.                                                                  *)

IdOrder ==
    {o \in Ids \X Ids : \/ o[1][1] < o[2][1]
                        \/ o[1][1] = o[2][1] /\ KeyLess(o[1][2], o[2][2])}

\* The default id comes before all others.
IdLess(i, j) == j # DefaultId /\ (i = DefaultId \/ <<i, j>> \in IdOrder)

\* Variant: the filter is not applied.
SessionStore_unfiltered(table, admitted) == EntriesOf(table)

\* SessionStore: the entries of the snapshot the filter admits.
SessionStore(table, admitted) == {e \in EntriesOf(table) : e.id \in admitted}

View(p) == SessionStore(snap[p], admits[p])

\* Variant: a wrapping range ends with the table.
get_range_unwrapped(view, x, y) ==
    IF x = y THEN view
    ELSE {e \in view : ~ IdLess(e.id, x) /\ (IdLess(x, y) => IdLess(e.id, y))}

\* The range x..y of a view: all of it for x = y, wrapping around for x > y.
get_range(view, x, y) ==
    IF x = y THEN view
    ELSE IF IdLess(x, y) THEN {e \in view : ~ IdLess(e.id, x) /\ IdLess(e.id, y)}
    ELSE {e \in view : ~ IdLess(e.id, x) \/ IdLess(e.id, y)}

Below(local, x) == Cardinality({e \in local : IdLess(e.id, x)})

\* The n-th entry, from 0, that an iterator over the entries yields.
Nth(local, n) == CHOOSE e \in local : Below(local, e.id) = n

get_first(view) == IF view = {} THEN DefaultId ELSE Nth(view, 0).id

-----------------------------------------------------------------------------
(* Messages                                                                *)

Bounds == Ids \cup {DefaultId}

FingerprintPart(x, y, fp) == [t |-> "Fingerprint", x |-> x, y |-> y, fp |-> fp]

ItemPart(x, y, values, have_local) ==
    [t |-> "Item", x |-> x, y |-> y, values |-> values, have_local |-> have_local]

RejectedPart(e) == [t |-> "Rejected", e |-> e]

FingerprintParts == [t : {"Fingerprint"}, x : Bounds, y : Bounds, fp : SUBSET Entry]

ItemParts ==
    [t : {"Item"}, x : Bounds, y : Bounds, values : SUBSET Entry, have_local : BOOLEAN]

RejectedParts == [t : {"Rejected"}, e : Entry]

Parts == FingerprintParts \cup ItemParts \cup RejectedParts

\* Message::init: one fingerprint over everything.
initial_message(view) == <<FingerprintPart(get_first(view), get_first(view), view)>>

\* What processing a message accumulates: the records table and the reply.
Push(acc, part) == [rec |-> acc.rec, out |-> Append(acc.out, part)]

\* A loop: body is run for 1 .. n.
Loop(body(_, _), start, n) ==
    LET after[i \in 0 .. n] == IF i = 0 THEN start ELSE body(after[i - 1], i)
    IN  after[n]

-----------------------------------------------------------------------------
(* process_message, items                                                  *)

\* The checks of the gate: a signature that does not verify and a timestamp too
\* far ahead are verdicts "Drop", like the validator's own.
validate_entry(p, e) == gate[p][e.id]

\* One incoming entry meets the gate.
Ingest(p, acc, e) ==
    CASE validate_entry(p, e) = "Accept" ->
            [rec |-> put(acc.rec, e.id, e.r), out |-> acc.out]
      [] validate_entry(p, e) = "Drop" -> acc
      [] validate_entry(p, e) = "Reject" ->
            IF would_insert(acc.rec, e.id, e.r) THEN Push(acc, RejectedPart(e)) ELSE acc

\* The incoming entries of an item, in turn.
IngestAll(p, acc, values) ==
    Loop(LAMBDA a, i : Ingest(p, a, Nth(values, i - 1)), acc, Cardinality(values))

\* Variant: an id the peer has is left out, whichever record is newer.
Diff_by_id(view, item) ==
    {our \in get_range(view, item.x, item.y) :
        ~ \E their \in item.values : our.id = their.id}

\* Our entries of the range the peer does not have as they are or newer.
Diff(view, item) ==
    {our \in get_range(view, item.x, item.y) :
        ~ \E their \in item.values : our.id = their.id /\ RecordLeq(our.r, their.r)}

\* Variant: the answer asks for the peer's entries again.
ProcessItem_asks_again(p, view, acc, item) ==
    LET diff == IF item.have_local THEN {} ELSE Diff(view, item)
    IN  IF diff = {} THEN IngestAll(p, acc, item.values)
        ELSE Push(IngestAll(p, acc, item.values), ItemPart(item.x, item.y, diff, FALSE))

\* The entries of the item are taken in; the answer, if there is one, is what the
\* peer lacks.
ProcessItem(p, view, acc, item) ==
    LET diff == IF item.have_local THEN {} ELSE Diff(view, item)
    IN  IF diff = {} THEN IngestAll(p, acc, item.values)
        ELSE Push(IngestAll(p, acc, item.values), ItemPart(item.x, item.y, diff, TRUE))

-----------------------------------------------------------------------------
(* process_message, fingerprints                                           *)

\* The index in a range of n entries, start of which are below x, of the i-th
\* pivot.  The pivots repeat every split_factor.
PivotIndex(n, start, i) == (start + (n * ((i % split_factor) + 1)) \div split_factor) % n

\* Variant: the first pivot is the first entry.
Pivot_from_start(local, x, i) ==
    Nth(local, PivotIndex(Cardinality(local), Below(local, x), i + split_factor - 1)).id

Pivot(local, x, i) == Nth(local, PivotIndex(Cardinality(local), Below(local, x), i)).id

\* Where a range is cut: at the pivots, and at its own ends unless it is everything.
Cut(local, x, y, i) ==
    IF x = y THEN Pivot(local, x, i)
    ELSE IF i = 0 THEN x
    ELSE IF i = split_factor THEN y
    ELSE Pivot(local, x, i - 1)

\* The ranges pushed, by the cut they end at; only the ones between two pivots are
\* left out when they are empty.
Split(local, x, y) ==
    [i \in {j \in 1 .. split_factor : \/ Cut(local, x, y, j - 1) # Cut(local, x, y, j)
                                      \/ x # y /\ j \in {1, split_factor}}
        |-> <<Cut(local, x, y, i - 1), Cut(local, x, y, i)>>]

ChunkPart(view, x, y) ==
    LET chunk == get_range(view, x, y)
    IN  IF Cardinality(chunk) > max_set_size
        THEN FingerprintPart(x, y, chunk)
        ELSE ItemPart(x, y, chunk, FALSE)

PushChunks(view, acc, ranges) ==
    Loop(LAMBDA a, i : IF i \in DOMAIN ranges
                       THEN Push(a, ChunkPart(view, ranges[i][1], ranges[i][2]))
                       ELSE a,
         acc, split_factor)

\* Whether the entries of a range and the peer's fingerprint of it lead to a split.
Recurses(local, part) == local # part.fp /\ Cardinality(local) > 1 /\ part.fp # {}

ProcessFingerprint(view, acc, part) ==
    LET local == get_range(view, part.x, part.y)
    IN  IF local = part.fp THEN acc
        ELSE IF Recurses(local, part) THEN PushChunks(view, acc, Split(local, part.x, part.y))
        ELSE Push(acc, ItemPart(part.x, part.y, local, FALSE))

\* All items of the message.
ProcessItems(p, view, table, msg) ==
    Loop(LAMBDA acc, i : IF msg[i].t = "Item" THEN ProcessItem(p, view, acc, msg[i]) ELSE acc,
         [rec |-> table, out |-> << >>], Len(msg))

\* Then all fingerprints.
process_message(p, view, table, msg) ==
    Loop(LAMBDA acc, i : IF msg[i].t = "Fingerprint"
                         THEN ProcessFingerprint(view, acc, msg[i])
                         ELSE acc,
         ProcessItems(p, view, table, msg), Len(msg))

-----------------------------------------------------------------------------
(* The session                                                             *)

TypeOK ==
    /\ rec \in [Sides -> RecordTables]
    /\ snap \in [Sides -> RecordTables]
    /\ phase \in {"new", "init", "running", "done"}
    /\ to \in Sides
    /\ net \in Seq(Parts)
    /\ observed \in [Sides -> SUBSET Entry]
    /\ writes \in 0 .. quota
    /\ rounds \in Nat

Init ==
    /\ \E s \in Sessions :
          /\ rec \in [Sides -> s.stored]
          /\ admits \in [Sides -> s.filters]
          /\ gate \in [Sides -> s.gates]
          /\ quota = s.quota
    /\ snap = [p \in Sides |-> NoTable]
    /\ phase = "new"
    /\ to = "Bob"
    /\ net = << >>
    /\ observed = [p \in Sides |-> {}]
    /\ writes = 0
    /\ rounds = 0

\* run_alice: the snapshot is taken before the initial message is built.
sync_initial_message ==
    /\ phase = "new"
    /\ phase' = "init"
    /\ snap' = [snap EXCEPT !["Alice"] = rec["Alice"]]
    /\ net' = initial_message(SessionStore(rec["Alice"], admits["Alice"]))
    /\ to' = "Bob"
    /\ UNCHANGED <<rec, observed, writes, admits, gate, quota, rounds>>

Refusals(msg, n) == {i \in 1 .. n : msg[i].t = "Rejected"}

\* The rejections the observer is told of: the first of the message.
Told(msg) ==
    {msg[i].e : i \in {j \in Refusals(msg, Len(msg)) :
                          Cardinality(Refusals(msg, j)) <= MaxRejections}}

\* The observer is told, then the message is processed.  No reply ends the
\* exchange: the other side reads the end of the stream.
sync_process_message(p, view) ==
    \E result \in {process_message(p, view, rec[p], net)} :
        /\ observed' = [observed EXCEPT ![p] = @ \cup Told(net)]
        /\ rec' = [rec EXCEPT ![p] = result.rec]
        /\ net' = result.out
        /\ to' = Peer(p)
        /\ phase' = IF result.out = << >> THEN "done" ELSE "running"
        /\ rounds' = rounds + 1
        /\ UNCHANGED <<writes, admits, gate, quota>>

\* Bob's snapshot is taken once the request is allowed, before the Init's message
\* is processed.
AcceptInit ==
    /\ phase = "init"
    /\ snap' = [snap EXCEPT !["Bob"] = rec["Bob"]]
    /\ sync_process_message("Bob", SessionStore(rec["Bob"], admits["Bob"]))

Round ==
    /\ phase = "running"
    /\ sync_process_message(to, View(to))
    /\ UNCHANGED snap

\* A local insert or prefix deletion while the session runs.
LocalWrite(p, e) ==
    /\ phase # "done"
    /\ writes < quota
    /\ would_insert(rec[p], e.id, e.r)
    /\ rec' = [rec EXCEPT ![p] = put(@, e.id, e.r)]
    /\ writes' = writes + 1
    /\ UNCHANGED <<snap, phase, to, net, observed, admits, gate, quota, rounds>>

Next ==
    \/ sync_initial_message
    \/ AcceptInit
    \/ Round
    \/ \E p \in Sides, e \in Writes : LocalWrite(p, e)

Spec == Init /\ [][Next]_vars

-----------------------------------------------------------------------------
(* Properties                                                              *)

Supersedes(f, e) ==
    f.id[1] = e.id[1] /\ IsPrefixOf(f.id[2], e.id[2]) /\ RecordLeq(e.r, f.r)

\* What would_insert looks at: ParentIterator passes over tombstones and the empty key.
Visible(e) == ~ IsEmpty(e.r) /\ e.id[2] # << >>

\* What a side may reveal: the entries of its snapshot that its filter admits.
Served(p) == {e \in EntriesOf(snap[p]) : e.id \in admits[p]}

\* What a set of entries comes to by the rule quoted at would_insert
\* (ranger.rs:642): the entries no other entry of the set supersedes.
MergeOf(S) == {e \in S : \A f \in S \ {e} : ~ Supersedes(f, e)}

\* What may be in a store while it is served.
InPlay ==
    EntriesOf(snap["Alice"]) \cup EntriesOf(snap["Bob"]) \cup (IF writes = 0 THEN {} ELSE Writes)

\* No put of the session loses an entry that the new one does not supersede: there
\* is no tombstone newer than an entry of its id, which put does not see
\* (fs.rs:1041), and no key in the range of a key that it does not extend
\* (fs/bounds.rs:160).
PutsAreExact ==
    \A e, f \in InPlay :
        /\ f.id = e.id /\ ~ Visible(f) => RecordLeq(f.r, e.r)
        /\ f.id[1] = e.id[1] /\ f.id[2] \in author_prefix[e.id[2]]
              => IsPrefixOf(e.id[2], f.id[2])

\* No filter, no refusal, no write meanwhile, and nothing that put does not see.
Plain ==
    /\ writes = 0
    /\ PutsAreExact
    /\ \A p \in Sides : /\ admits[p] = Ids
                        /\ \A i \in Ids : gate[p][i] = "Accept"
                        /\ \A e \in EntriesOf(snap[p]) : Visible(e)

\* A plain session leaves both stores with the merge of the two, however the
\* ranges were split on the way.
DoneMeansMerged ==
    phase = "done" /\ Plain =>
        \A p \in Sides :
            EntriesOf(rec[p]) = MergeOf(EntriesOf(snap["Alice"]) \cup EntriesOf(snap["Bob"]))

\* Whatever is written meanwhile, filtered or refused: an entry a side may serve
\* and the other side accepts is there in the end, or superseded there.
ServedEntriesArrive ==
    phase = "done" /\ PutsAreExact =>
        \A p \in Sides : \A e \in Served(p) :
            gate[Peer(p)][e.id] = "Accept" =>
                \E f \in EntriesOf(rec[Peer(p)]) : Supersedes(f, e)

Boundaries(part) == IF part.t = "Rejected" THEN {} ELSE {part.x, part.y}

Content(part) ==
    CASE part.t = "Fingerprint" -> part.fp
      [] part.t = "Item" -> part.values
      [] part.t = "Rejected" -> {}

\* "so nothing else is revealed to the peer" (sync.rs:608): the values and the
\* fingerprints a side sends are of entries its filter admits, as they were when
\* the session began, and each range boundary is the id of an entry one of the
\* two sides may reveal.
OnlyTheViewIsSent ==
    phase \in {"init", "running"} =>
        LET revealed == Served("Alice") \cup Served("Bob")
        IN  \A i \in DOMAIN net :
               /\ Content(net[i]) \subseteq Served(Peer(to))
               /\ Boundaries(net[i]) \subseteq {DefaultId} \cup {e.id : e \in revealed}

NonEmpty(view, ranges) ==
    {j \in DOMAIN ranges : get_range(view, ranges[j][1], ranges[j][2]) # {}}

SplitIsProper(view, part) ==
    \A local \in {get_range(view, part.x, part.y)} :
        Recurses(local, part) =>
            Cardinality(NonEmpty(view, Split(local, part.x, part.y))) > 1

\* The assertion behind termination (ranger.rs:601): a range that is split falls
\* into at least two parts that are not empty.
SplitsAreProper ==
    phase = "running" =>
        \A i \in DOMAIN net :
            net[i].t = "Fingerprint" => SplitIsProper(View(to), net[i])

\* Halvings until at most one of n entries is left.
Halvings(n) == CHOOSE h \in 0 .. n : 2^h >= n /\ \A g \in 0 .. h - 1 : 2^g < n

Refuses == \E p \in Sides, i \in Ids : gate[p][i] = "Reject"

\* A session ends, and after logarithmically many messages: each answer to a
\* fingerprint halves what one of the sides has in the range, the items that
\* remain take three messages more, and a refusal, told in the answer to the last
\* items, one more.
SessionIsShort ==
    phase \in {"running", "done"} =>
        rounds <= Halvings(Cardinality(Served("Alice"))) + Halvings(Cardinality(Served("Bob")))
                      + (IF Refuses THEN 4 ELSE 3)

\* "A rejection names an entry the refusing replica does not hold" (sync.rs:968).
RejectedIsNotHeld ==
    \A i \in DOMAIN net :
        net[i].t = "Rejected" => net[i].e \notin EntriesOf(rec[Peer(to)])
=============================================================================
