-------------------------- MODULE ReconcileProofs --------------------------
(***************************************************************************)
(* What a session of Reconcile keeps, for every pair of stores, every      *)
(* filter and every sequence of writes made while it runs.  Of the store   *)
(* the argument uses the Contract of RangerProofs and nothing else.        *)
(***************************************************************************)
EXTENDS RangerProofs

-----------------------------------------------------------------------------
(* Ranges and loops                                                        *)

LEMMA RangeIsView ==
    ASSUME Contract,
           NEW V, IsView(V), NEW x \in Bounds, NEW y \in Bounds
    PROVE  IsView(get_range(V, x, y)) /\ get_range(V, x, y) \subseteq V
  BY Zenon DEF Contract, Ranges, Views

\* f goes through the states of a loop whose i-th step is g[i].
IsRun(f, g, a, n) == f[0] = a /\ \A i \in 1 .. n : f[i] = g[i][f[i - 1]]

\* A loop of n steps that keep its state in A has a run.
LEMMA LoopHasRun ==
    ASSUME Contract,
           NEW n \in Nat, NEW A, NEW a \in A, NEW g \in [1 .. n -> [A -> A]]
    PROVE  \E f \in [0 .. n -> A] : IsRun(f, g, a, n)
<1> DEFINE Run(m, f) == f[0] = a /\ \A i \in 1 .. m : f[i] = g[i][f[i - 1]]
           T == {m \in 0 .. n : \E f \in [0 .. m -> A] : Run(m, f)}
<1>1. 0 \in T
  <2>1. [i \in 0 .. 0 |-> a] \in [0 .. 0 -> A] /\ Run(0, [i \in 0 .. 0 |-> a])
    OBVIOUS
  <2> HIDE DEF Run
  <2>2. \E f \in [0 .. 0 -> A] : Run(0, f)
    BY <2>1, Zenon
  <2> QED
    BY <2>2
<1>2. ASSUME NEW m \in 1 .. n, m - 1 \in T PROVE m \in T
  <2>1. PICK f \in [0 .. m - 1 -> A] : Run(m - 1, f)
    BY <1>2
  <2> DEFINE h == [i \in 0 .. m |-> IF i = m THEN g[m][f[m - 1]] ELSE f[i]]
  <2>2. f[m - 1] \in A /\ g[m] \in [A -> A]
    OBVIOUS
  <2>3. g[m][f[m - 1]] \in A
    BY <2>2
  <2>4. h \in [0 .. m -> A]
    BY <2>3
  <2>5. h[0] = a
    BY <2>1
  <2>6. ASSUME NEW i \in 1 .. m PROVE h[i] = g[i][h[i - 1]]
    <3>1. i \in 0 .. m /\ i - 1 \in 0 .. m /\ i - 1 # m
      OBVIOUS
    <3>2. h[i - 1] = f[i - 1]
      BY <3>1
    <3>3. CASE i = m
      BY <3>1, <3>2, <3>3
    <3>4. CASE i # m
      BY <2>1, <3>1, <3>2, <3>4
    <3> QED
      BY <3>3, <3>4
  <2>7. Run(m, h)
    <3> HIDE DEF h
    <3> QED
      BY <2>5, <2>6
  <2> HIDE DEF h, Run
  <2>8. \E e \in [0 .. m -> A] : Run(m, e)
    BY <2>4, <2>7, Zenon
  <2> QED
    BY <2>8
<1>3. n \in T
  <2> HIDE DEF T
  <2>1. \A m \in 0 .. n : m \in T
    BY <1>1, <1>2, Zenon DEF Contract, Induction
  <2> QED
    BY <2>1
<1>4. \E f \in [0 .. n -> A] : Run(n, f)
  BY <1>3
<1> QED
  BY <1>4 DEF IsRun

-----------------------------------------------------------------------------
(* Taking in entries                                                       *)

Accs == [rec : RecordTables, out : Seq(Parts)]

PartsIn(msg) == {msg[i] : i \in 1 .. Len(msg)}

\* From a to b a table took in entries of S, and a reply got parts of G.
Grew(a, b, S, G) ==
    /\ b \in Accs
    /\ EntriesOf(a.rec) \subseteq S => EntriesOf(b.rec) \subseteq S
    /\ Pruned(a.rec) => Pruned(b.rec)
    /\ PartsIn(a.out) \subseteq PartsIn(b.out)
    /\ PartsIn(b.out) \subseteq PartsIn(a.out) \cup G
    /\ Exact(S) /\ EntriesOf(a.rec) \subseteq S
          => \A g \in Entry : Holds(a.rec, g) => Holds(b.rec, g)

LEMMA GrewOrder ==
    ASSUME NEW a \in Accs, NEW S, NEW G
    PROVE  /\ Grew(a, a, S, G)
           /\ \A b, c : Grew(a, b, S, G) /\ Grew(b, c, S, G) => Grew(a, c, S, G)
<1>1. Grew(a, a, S, G)
  BY Zenon DEF Grew
<1>2. ASSUME NEW b, NEW c, Grew(a, b, S, G), Grew(b, c, S, G) PROVE Grew(a, c, S, G)
  BY <1>2, Zenon DEF Grew
<1> QED
  BY <1>1, <1>2, Zenon

LEMMA Pushed ==
    ASSUME NEW a \in Accs, NEW part \in Parts
    PROVE  /\ Push(a, part) \in Accs
           /\ Push(a, part).rec = a.rec
           /\ PartsIn(Push(a, part).out) = PartsIn(a.out) \cup {part}
<1>1. a.rec \in RecordTables /\ a.out \in Seq(Parts)
  BY Zenon DEF Accs
<1>2. Append(a.out, part) \in Seq(Parts)
  BY <1>1
<1>3. Push(a, part) = [rec |-> a.rec, out |-> Append(a.out, part)]
  BY Zenon DEF Push
<1>4. PartsIn(Append(a.out, part)) = PartsIn(a.out) \cup {part}
  <2>1. /\ Len(a.out) \in Nat /\ Len(Append(a.out, part)) = Len(a.out) + 1
        /\ Append(a.out, part)[Len(a.out) + 1] = part
        /\ \A i \in 1 .. Len(a.out) : Append(a.out, part)[i] = a.out[i]
    BY <1>1
  <2>2. ASSUME NEW q \in PartsIn(Append(a.out, part)) PROVE q \in PartsIn(a.out) \cup {part}
    BY <2>1 DEF PartsIn
  <2>3. ASSUME NEW q \in PartsIn(a.out) PROVE q \in PartsIn(Append(a.out, part))
    <3>1. PICK i \in 1 .. Len(a.out) : q = a.out[i]
      BY Zenon DEF PartsIn
    <3>2. i \in 1 .. Len(Append(a.out, part)) /\ q = Append(a.out, part)[i]
      BY <2>1, <3>1
    <3> QED
      BY <3>2, Zenon DEF PartsIn
  <2>4. part \in PartsIn(Append(a.out, part))
    BY <2>1 DEF PartsIn
  <2> QED
    BY <2>2, <2>3, <2>4, Zenon
<1> QED
  BY <1>1, <1>2, <1>3, <1>4 DEF Accs

LEMMA PushGrows ==
    ASSUME NEW a \in Accs, NEW part \in Parts, NEW S, NEW G, part \in G
    PROVE  Grew(a, Push(a, part), S, G)
<1>1. /\ Push(a, part) \in Accs /\ Push(a, part).rec = a.rec
      /\ PartsIn(Push(a, part).out) = PartsIn(a.out) \cup {part}
  BY Pushed, Zenon
<1> QED
  BY <1>1, Zenon DEF Grew

LEMMA IngestGrows ==
    ASSUME Contract,
           NEW p, gate[p] \in [Ids -> Verdicts], NEW a \in Accs, NEW e \in Entry,
           NEW S, e \in S, NEW G, RejectedParts \subseteq G
    PROVE  /\ Grew(a, Ingest(p, a, e), S, G)
           /\ gate[p][e.id] = "Accept" => Holds(Ingest(p, a, e).rec, e)
<1>1. e.id \in Ids /\ gate[p][e.id] \in {"Accept", "Drop", "Reject"}
  BY Zenon DEF Entry, Verdicts
<1>2. a.rec \in RecordTables /\ a.out \in Seq(Parts)
  BY Zenon DEF Accs
<1>3. CASE gate[p][e.id] = "Accept"
  <2> DEFINE t == put(a.rec, e.id, e.r)
             b == [rec |-> t, out |-> a.out]
  <2>1. Ingest(p, a, e) = b
    BY <1>3, Zenon DEF Ingest, validate_entry
  <2>2. /\ t \in RecordTables /\ EntriesOf(t) \subseteq EntriesOf(a.rec) \cup {e}
        /\ Pruned(a.rec) => Pruned(t)
        /\ Holds(t, e)
    BY <1>2, Zenon DEF Contract, PutTyped
  <2>3. Exact(S) /\ EntriesOf(a.rec) \subseteq S
           => \A g \in Entry : Holds(a.rec, g) => Holds(t, g)
    BY <1>2, Zenon DEF Contract, PutKeeps
  <2> HIDE DEF t
  <2>4. b \in Accs /\ b.rec = t /\ b.out = a.out
    BY <1>2, <2>2, Zenon DEF Accs
  <2> HIDE DEF b
  <2>5. Grew(a, b, S, G)
    BY <2>2, <2>3, <2>4, Zenon DEF Grew
  <2> QED
    BY <2>1, <2>2, <2>4, <2>5, Zenon
<1>4. CASE gate[p][e.id] = "Drop"
  BY <1>4, GrewOrder, Zenon DEF Ingest, validate_entry
<1>5. CASE gate[p][e.id] = "Reject"
  BY <1>5, GrewOrder, PushGrows, Zenon
     DEF Ingest, validate_entry, RejectedPart, RejectedParts, Parts
<1> QED
  BY <1>1, <1>3, <1>4, <1>5, Zenon

IngestRun(p, acc, values, run) ==
    /\ run[0] = acc
    /\ \A i \in 1 .. Cardinality(values) : run[i] = Ingest(p, run[i - 1], Nth(values, i - 1))
    /\ IngestAll(p, acc, values) = run[Cardinality(values)]

LEMMA IngestRuns ==
    ASSUME Contract,
           NEW p, NEW acc \in Accs, NEW values, Cardinality(values) \in Nat,
           \A a \in Accs : \A i \in 1 .. Cardinality(values) :
               Ingest(p, a, Nth(values, i - 1)) \in Accs
    PROVE  \E run \in [0 .. Cardinality(values) -> Accs] : IngestRun(p, acc, values, run)
<1> DEFINE N == Cardinality(values)
<1>0. N \in Nat
  BY Zenon
<1> HIDE DEF N
<1> DEFINE Body(f) == [i \in 0 .. N |-> IF i = 0 THEN acc
                                        ELSE Ingest(p, f[i - 1], Nth(values, i - 1))]
           after == CHOOSE f : f = Body(f)
           g == [i \in 1 .. N |-> [a \in Accs |-> Ingest(p, a, Nth(values, i - 1))]]
<1>1. g \in [1 .. N -> [Accs -> Accs]]
  BY Zenon DEF N
<1>2. PICK run \in [0 .. N -> Accs] : IsRun(run, g, acc, N)
  <2> HIDE DEF g
  <2> QED
    BY <1>0, <1>1, LoopHasRun, Zenon
<1>3. \A i \in 1 .. N : i - 1 \in 0 .. N
  BY <1>0
<1>4. \A i \in 1 .. N : /\ run[i - 1] \in Accs
                        /\ run[i] = Ingest(p, run[i - 1], Nth(values, i - 1))
  BY <1>2, <1>3, Zenon DEF IsRun
<1>5. run = Body(run)
  BY <1>0, <1>2, <1>4 DEF IsRun
<1>6. after = Body(after)
  <2> HIDE DEF Body
  <2> QED
    BY <1>5, Zenon
<1>7. IngestAll(p, acc, values) = after[N]
  BY Zenon DEF IngestAll, Loop, N
<1> HIDE DEF after
<1>8. after[0] = acc /\ \A i \in 1 .. N : after[i] = Ingest(p, after[i - 1], Nth(values, i - 1))
  BY <1>0, <1>6
<1> DEFINE T == {i \in 0 .. N : after[i] \in Accs}
<1>9. \A i \in 0 .. N : i \in T
  <2>1. 0 \in T
    BY <1>0, <1>8
  <2>2. \A i \in 1 .. N : i - 1 \in T => i \in T
    BY <1>0, <1>8 DEF N
  <2> HIDE DEF T
  <2> QED
    BY <1>0, <2>1, <2>2, Zenon DEF Contract, Induction
<1>10. after \in [0 .. N -> Accs]
  BY <1>6, <1>9, Zenon
<1>11. IngestRun(p, acc, values, after)
  BY <1>7, <1>8, Zenon DEF IngestRun, N
<1> QED
  BY <1>10, <1>11, Zenon DEF N

\* All of an item's entries are offered to the table, and none gets lost.
LEMMA IngestAllGrows ==
    ASSUME Contract,
           NEW p, gate[p] \in [Ids -> Verdicts], NEW acc \in Accs, NEW values, IsView(values),
           NEW S, values \subseteq S, NEW G, RejectedParts \subseteq G
    PROVE  /\ Grew(acc, IngestAll(p, acc, values), S, G)
           /\ Exact(S) /\ EntriesOf(acc.rec) \subseteq S =>
                 \A e \in values : gate[p][e.id] = "Accept" =>
                     Holds(IngestAll(p, acc, values).rec, e)
<1> DEFINE N == Cardinality(values)
           V(i) == Nth(values, i - 1)
<1>1. N \in Nat
  BY Zenon DEF Contract, Places
<1> HIDE DEF N
<1>2. \A i \in 1 .. N : V(i) \in values /\ V(i) \in Entry
  <2> SUFFICES ASSUME NEW i \in 1 .. N PROVE V(i) \in values /\ V(i) \in Entry
    BY Zenon
  <2>1. i - 1 \in Nat /\ i - 1 < N
    BY <1>1
  <2>2. V(i) \in values
    BY <2>1, Zenon DEF N, Contract, Places
  <2> QED
    BY <2>2, Zenon DEF IsView
<1>3. \A a \in Accs : \A i \in 1 .. N :
          /\ Grew(a, Ingest(p, a, V(i)), S, G)
          /\ gate[p][V(i).id] = "Accept" => Holds(Ingest(p, a, V(i)).rec, V(i))
  <2> HIDE DEF V
  <2> QED
    BY <1>2, IngestGrows, Zenon
<1>4. \A a \in Accs : \A i \in 1 .. N : Ingest(p, a, V(i)) \in Accs
  BY <1>3, Zenon DEF Grew
<1>5. PICK run \in [0 .. N -> Accs] : IngestRun(p, acc, values, run)
  BY <1>1, <1>4, IngestRuns, Zenon DEF N
<1>6. /\ run[0] = acc /\ IngestAll(p, acc, values) = run[N]
       /\ \A i \in 1 .. N : run[i] = Ingest(p, run[i - 1], V(i))
  BY <1>5, Zenon DEF IngestRun, N
<1> HIDE DEF V
<1> DEFINE Ok(i, j) == gate[p][V(j).id] = "Accept" => Holds(run[i].rec, V(j))
           T == {i \in 0 .. N : /\ Grew(acc, run[i], S, G)
                                /\ Exact(S) /\ EntriesOf(acc.rec) \subseteq S =>
                                      \A j \in 1 .. i : Ok(i, j)}
<1>7. 0 \in T
  BY <1>1, <1>6, GrewOrder
<1>8. ASSUME NEW i \in 1 .. N, i - 1 \in T PROVE i \in T
  <2>1. i - 1 \in 0 .. N /\ run[i - 1] \in Accs /\ run[i] = Ingest(p, run[i - 1], V(i))
    BY <1>1, <1>6
  <2>2. Grew(run[i - 1], run[i], S, G) /\ Ok(i, i)
    BY <1>3, <2>1, Zenon
  <2>3. Grew(acc, run[i - 1], S, G)
    BY <1>8, Zenon
  <2>4. Grew(acc, run[i], S, G)
    BY <2>2, <2>3, GrewOrder, Zenon
  <2>5. ASSUME Exact(S), EntriesOf(acc.rec) \subseteq S, NEW j \in 1 .. i PROVE Ok(i, j)
    <3>1. CASE j = i
      BY <2>2, <3>1, Zenon
    <3>2. CASE j # i
      BY <1>1, <1>2, <1>8, <2>2, <2>3, <2>5, <3>2 DEF Grew
    <3> QED
      BY <3>1, <3>2, Zenon
  <2> HIDE DEF Ok
  <2> QED
    BY <2>4, <2>5
<1>9. N \in T
  <2> HIDE DEF T
  <2>1. \A i \in 0 .. N : i \in T
    BY <1>1, <1>7, <1>8, Zenon DEF Contract, Induction
  <2> QED
    BY <1>1, <2>1
<1>10. ASSUME Exact(S), EntriesOf(acc.rec) \subseteq S, NEW e \in values, gate[p][e.id] = "Accept"
      PROVE  Holds(run[N].rec, e)
  <2>1. /\ Below(values, e.id) \in Nat /\ Below(values, e.id) < N
        /\ Nth(values, Below(values, e.id)) = e
    BY Zenon DEF N, Contract, Places
  <2>2. Below(values, e.id) + 1 \in 1 .. N
    BY <1>1, <2>1
  <2>3. V(Below(values, e.id) + 1) = e
    BY <2>1 DEF V
  <2> QED
    BY <1>9, <1>10, <2>2, <2>3, Zenon
<1> QED
  BY <1>9, <1>10, <1>6, Zenon

-----------------------------------------------------------------------------
(* The parts of a message                                                  *)

\* The parts a side with this view may send: a fingerprint is that of its range,
\* the entries of an item are among those of its range, and all of them when it
\* asks for the peer's.  The ranges are bounded by ids of B.
Good(V, B) ==
    {part \in Parts :
        /\ part.t # "Rejected" => /\ part.x \in B /\ part.x \in Bounds
                                  /\ part.y \in B /\ part.y \in Bounds
        /\ part.t = "Fingerprint" => part.fp = get_range(V, part.x, part.y)
        /\ part.t = "Item" =>
              /\ part.values \subseteq get_range(V, part.x, part.y)
              /\ ~ part.have_local => part.values = get_range(V, part.x, part.y)}

LEMMA GoodParts ==
    ASSUME NEW V, V \subseteq Entry, NEW B
    PROVE  /\ RejectedParts \subseteq Good(V, B)
           /\ \A x, y \in B \cap Bounds :
                 /\ FingerprintPart(x, y, get_range(V, x, y)) \in Good(V, B)
                 /\ ItemPart(x, y, get_range(V, x, y), FALSE) \in Good(V, B)
                 /\ \A D \in SUBSET get_range(V, x, y) : ItemPart(x, y, D, TRUE) \in Good(V, B)
<1>1. ASSUME NEW part \in RejectedParts PROVE part \in Good(V, B)
  BY Zenon DEF RejectedParts, Parts, Good
<1>2. ASSUME NEW x \in B \cap Bounds, NEW y \in B \cap Bounds
      PROVE  /\ FingerprintPart(x, y, get_range(V, x, y)) \in Good(V, B)
             /\ ItemPart(x, y, get_range(V, x, y), FALSE) \in Good(V, B)
             /\ \A D \in SUBSET get_range(V, x, y) : ItemPart(x, y, D, TRUE) \in Good(V, B)
  <2> DEFINE R == get_range(V, x, y)
  <2>1. R \subseteq Entry
    BY Zenon DEF get_range
  <2> HIDE DEF R
  <2>2. FingerprintPart(x, y, R) \in Good(V, B)
    <3> DEFINE q == FingerprintPart(x, y, R)
    <3>1. q.t = "Fingerprint" /\ q.x = x /\ q.y = y /\ q.fp = R
      BY Zenon DEF FingerprintPart
    <3>2. q \in Parts
      BY <2>1, Zenon DEF FingerprintPart, FingerprintParts, Parts
    <3> HIDE DEF q
    <3>3. q \in Good(V, B)
      BY <3>1, <3>2, Zenon DEF Good, R
    <3> QED
      BY <3>3, Zenon DEF q
  <2>3. ASSUME NEW D \in SUBSET R, NEW h \in BOOLEAN, ~ h => D = R
        PROVE  ItemPart(x, y, D, h) \in Good(V, B)
    <3> DEFINE q == ItemPart(x, y, D, h)
    <3>1. q.t = "Item" /\ q.x = x /\ q.y = y /\ q.values = D
      BY Zenon DEF ItemPart
    <3>2. q.have_local = h
      BY Zenon DEF ItemPart
    <3>3. q \in Parts
      BY <2>1, Zenon DEF ItemPart, ItemParts, Parts
    <3> HIDE DEF q
    <3>4. q \in Good(V, B)
      BY <2>3, <3>1, <3>2, <3>3, Zenon DEF Good, R
    <3> QED
      BY <3>4, Zenon DEF q
  <2> QED
    BY <2>2, <2>3, Zenon DEF R
<1> QED
  BY <1>1, <1>2, Zenon

\* An entry is in a part of the reply, or in a range whose fingerprint is.
Carries(O, e) ==
    \E part \in O : \/ part.t = "Fingerprint" /\ Under(e.id, part.x, part.y)
                    \/ part.t = "Item" /\ e \in part.values

\* A part of the reply makes the peer send what it has at the id.
Asks(O, i) ==
    \E part \in O : /\ part.t = "Fingerprint" \/ (part.t = "Item" /\ ~ part.have_local)
                    /\ Under(i, part.x, part.y)

LEMMA AskedIsCarried ==
    ASSUME Contract,
           NEW V, NEW B, NEW O \in SUBSET Good(V, B), NEW e \in V, Asks(O, e.id)
    PROVE  Carries(O, e)
<1>1. PICK part \in O : /\ part.t = "Fingerprint" \/ (part.t = "Item" /\ ~ part.have_local)
                        /\ Under(e.id, part.x, part.y)
  BY Zenon DEF Asks
<1>2. CASE part.t = "Fingerprint"
  BY <1>1, <1>2, Zenon DEF Carries
<1>3. CASE part.t = "Item" /\ ~ part.have_local
  <2>1. part.values = get_range(V, part.x, part.y) /\ part.x \in Bounds /\ part.y \in Bounds
    BY <1>3, Zenon DEF Good
  <2>2. e \in part.values
    BY <1>1, <2>1, Zenon DEF Contract, Ranges
  <2> QED
    BY <1>3, <2>2, Zenon DEF Carries
<1> QED
  BY <1>1, <1>2, <1>3, Zenon

-----------------------------------------------------------------------------
(* Items                                                                   *)

\* What an item asks of the side that processes it: its entries are offered to the
\* table, and what the sender lacks is in the reply.
ItemDone(p, V, S, a, item) ==
    /\ Exact(S) => \A e \in item.values : gate[p][e.id] = "Accept" => Holds(a.rec, e)
    /\ ~ item.have_local => \A e \in Diff(V, item) : Carries(PartsIn(a.out), e)

LEMMA CarriesGrows ==
    ASSUME NEW O, NEW Q, O \subseteq Q
    PROVE  /\ \A e : Carries(O, e) => Carries(Q, e)
           /\ \A i : Asks(O, i) => Asks(Q, i)
  BY Zenon DEF Carries, Asks

LEMMA ItemStaysDone ==
    ASSUME NEW p, NEW V, NEW S, NEW G, NEW a, NEW b, Grew(a, b, S, G), EntriesOf(a.rec) \subseteq S,
           NEW item, item.values \subseteq Entry, ItemDone(p, V, S, a, item)
    PROVE  ItemDone(p, V, S, b, item)
  BY CarriesGrows, Zenon DEF Grew, ItemDone

LEMMA ItemTyped ==
    ASSUME Contract,
           NEW W, IsView(W), NEW B, NEW item \in Good(W, B), item.t = "Item"
    PROVE  /\ item.x \in Bounds \cap B /\ item.y \in Bounds \cap B
           /\ item.values \subseteq W /\ item.values \subseteq Entry /\ IsView(item.values)
           /\ item.have_local \in BOOLEAN
<1>1. /\ item.x \in Bounds /\ item.y \in Bounds /\ item.x \in B /\ item.y \in B
      /\ item.values \subseteq get_range(W, item.x, item.y)
  BY Zenon DEF Good
<1>2. item.values \subseteq W
  BY <1>1, RangeIsView, Zenon
<1>3. item.values \subseteq Entry /\ IsView(item.values)
  BY <1>2, Zenon DEF IsView, Contract, Views
<1>4. item \in ItemParts
  BY Zenon DEF Good, Parts, FingerprintParts, RejectedParts
<1>5. item.have_local \in BOOLEAN
  BY <1>4, Zenon DEF ItemParts
<1> QED
  BY <1>1, <1>2, <1>3, <1>5, Zenon

LEMMA ItemGrows ==
    ASSUME Contract,
           NEW p, gate[p] \in [Ids -> Verdicts], NEW V, IsView(V), NEW W, IsView(W), NEW B,
           NEW S, W \subseteq S, NEW acc \in Accs, EntriesOf(acc.rec) \subseteq S,
           NEW item \in Good(W, B), item.t = "Item"
    PROVE  /\ Grew(acc, ProcessItem(p, V, acc, item), S, Good(V, B))
           /\ ItemDone(p, V, S, ProcessItem(p, V, acc, item), item)
<1> DEFINE G == Good(V, B)
           mid == IngestAll(p, acc, item.values)
           diff == IF item.have_local THEN {} ELSE Diff(V, item)
           q == ItemPart(item.x, item.y, diff, TRUE)
           res == ProcessItem(p, V, acc, item)
<1>1. /\ item.x \in Bounds \cap B /\ item.y \in Bounds \cap B
      /\ item.values \subseteq W /\ item.values \subseteq Entry /\ IsView(item.values)
  BY ItemTyped, Zenon
<1>2. RejectedParts \subseteq G
  BY GoodParts, Zenon DEF IsView
<1>3. /\ Grew(acc, mid, S, G)
      /\ Exact(S) => \A e \in item.values : gate[p][e.id] = "Accept" => Holds(mid.rec, e)
  <2> HIDE DEF G
  <2> QED
    BY <1>1, <1>2, IngestAllGrows, Zenon
<1>4. mid \in Accs
  BY <1>3, Zenon DEF Grew
<1>5. diff \in SUBSET get_range(V, item.x, item.y)
  BY Zenon DEF Diff
<1>6. q \in G /\ q \in Parts
  <2>1. V \subseteq Entry
    BY Zenon DEF IsView
  <2> HIDE DEF diff
  <2>2. q \in G
    BY <1>1, <1>5, <2>1, GoodParts, Zenon
  <2> QED
    BY <2>2, Zenon DEF Good
<1>7. q.t = "Item" /\ q.values = diff
  BY Zenon DEF ItemPart
<1>8. res = IF diff = {} THEN mid ELSE Push(mid, q)
  BY Zenon DEF ProcessItem
<1> HIDE DEF mid, diff, q, res, G
<1>9. CASE diff = {}
  BY <1>3, <1>8, <1>9, Zenon DEF diff, ItemDone, res, G
<1>10. CASE diff # {}
  <2>1. res = Push(mid, q)
    BY <1>8, <1>10, Zenon
  <2>2. Grew(mid, res, S, G) /\ res.rec = mid.rec /\ PartsIn(res.out) = PartsIn(mid.out) \cup {q}
    BY <1>4, <1>6, <2>1, PushGrows, Pushed, Zenon
  <2>3. Grew(acc, res, S, G)
    BY <1>3, <2>2, GrewOrder, Zenon
  <2>4. \A e \in diff : Carries(PartsIn(res.out), e)
    BY <1>7, <2>2, Zenon DEF Carries
  <2>5. ~ item.have_local => diff = Diff(V, item)
    BY Zenon DEF diff
  <2>6. ItemDone(p, V, S, res, item)
    BY <1>3, <2>2, <2>4, <2>5, Zenon DEF ItemDone
  <2> QED
    BY <2>3, <2>6, Zenon DEF res, G
<1> QED
  BY <1>9, <1>10, Zenon

ItemStep(p, V, a, part) == IF part.t = "Item" THEN ProcessItem(p, V, a, part) ELSE a

ItemsRun(p, V, table, msg, run) ==
    /\ run[0] = [rec |-> table, out |-> << >>]
    /\ \A i \in 1 .. Len(msg) : run[i] = ItemStep(p, V, run[i - 1], msg[i])
    /\ ProcessItems(p, V, table, msg) = run[Len(msg)]

\* A loop keeps what each of its steps keeps: here the type, and the entries of S.
LEMMA ItemsRuns ==
    ASSUME Contract,
           NEW p, NEW V, NEW table, NEW msg, Len(msg) \in Nat, NEW A,
           [rec |-> table, out |-> << >>] \in A,
           \A a \in A : \A i \in 1 .. Len(msg) : ItemStep(p, V, a, msg[i]) \in A
    PROVE  \E run \in [0 .. Len(msg) -> A] : ItemsRun(p, V, table, msg, run)
<1> DEFINE N == Len(msg)
           acc == [rec |-> table, out |-> << >>]
<1>0. N \in Nat /\ acc \in A
  BY Zenon
<1> HIDE DEF N, acc
<1> DEFINE Body(f) == [i \in 0 .. N |-> IF i = 0 THEN acc ELSE ItemStep(p, V, f[i - 1], msg[i])]
           after == CHOOSE f : f = Body(f)
           g == [i \in 1 .. N |-> [a \in A |-> ItemStep(p, V, a, msg[i])]]
<1>1. g \in [1 .. N -> [A -> A]]
  BY Zenon DEF N
<1>2. PICK run \in [0 .. N -> A] : IsRun(run, g, acc, N)
  <2> HIDE DEF g
  <2> QED
    BY <1>0, <1>1, LoopHasRun, Zenon
<1>3. \A i \in 1 .. N : i - 1 \in 0 .. N
  BY <1>0
<1>4. \A i \in 1 .. N : /\ run[i - 1] \in A
                        /\ run[i] = ItemStep(p, V, run[i - 1], msg[i])
  BY <1>2, <1>3, Zenon DEF IsRun
<1>5. run = Body(run)
  BY <1>0, <1>2, <1>4 DEF IsRun
<1>6. after = Body(after)
  <2> HIDE DEF Body
  <2> QED
    BY <1>5, Zenon
<1>7. ProcessItems(p, V, table, msg) = after[N]
  BY Zenon DEF ProcessItems, Loop, N, acc, ItemStep
<1> HIDE DEF after
<1>8. after[0] = acc /\ \A i \in 1 .. N : after[i] = ItemStep(p, V, after[i - 1], msg[i])
  BY <1>0, <1>6
<1> DEFINE T == {i \in 0 .. N : after[i] \in A}
<1>9. \A i \in 0 .. N : i \in T
  <2>1. 0 \in T
    BY <1>0, <1>8
  <2>2. \A i \in 1 .. N : i - 1 \in T => i \in T
    BY <1>0, <1>8 DEF N
  <2> HIDE DEF T
  <2> QED
    BY <1>0, <2>1, <2>2, Zenon DEF Contract, Induction
<1>10. after \in [0 .. N -> A]
  BY <1>6, <1>9, Zenon
<1>11. ItemsRun(p, V, table, msg, after)
  BY <1>7, <1>8, Zenon DEF ItemsRun, N, acc
<1> QED
  BY <1>10, <1>11, Zenon DEF N

LEMMA ItemsGrow ==
    ASSUME Contract,
           NEW p, gate[p] \in [Ids -> Verdicts], NEW V, IsView(V), NEW W, IsView(W), NEW B,
           NEW S, W \subseteq S, NEW table \in RecordTables, EntriesOf(table) \subseteq S,
           NEW msg \in Seq(Parts), \A i \in 1 .. Len(msg) : msg[i] \in Good(W, B)
    PROVE  /\ Grew([rec |-> table, out |-> << >>], ProcessItems(p, V, table, msg), S, Good(V, B))
           /\ \A i \in 1 .. Len(msg) : msg[i].t = "Item" =>
                 ItemDone(p, V, S, ProcessItems(p, V, table, msg), msg[i])
<1> DEFINE N == Len(msg)
           acc == [rec |-> table, out |-> << >>]
           A == {a \in Accs : EntriesOf(a.rec) \subseteq S}
           G == Good(V, B)
<1>1. N \in Nat
  OBVIOUS
<1>2. acc \in Accs /\ acc.rec = table
  BY DEF Accs
<1>3. acc \in A
  BY <1>2, Zenon
<1>4. \A a \in A : \A i \in 1 .. N :
          /\ Grew(a, ItemStep(p, V, a, msg[i]), S, G)
          /\ msg[i].t = "Item" => ItemDone(p, V, S, ItemStep(p, V, a, msg[i]), msg[i])
  <2> SUFFICES ASSUME NEW a \in A, NEW i \in 1 .. N
               PROVE  /\ Grew(a, ItemStep(p, V, a, msg[i]), S, G)
                      /\ msg[i].t = "Item" => ItemDone(p, V, S, ItemStep(p, V, a, msg[i]), msg[i])
    BY Zenon
  <2>1. CASE msg[i].t = "Item"
    BY <2>1, ItemGrows, Zenon DEF ItemStep
  <2>2. CASE msg[i].t # "Item"
    BY <2>2, GrewOrder, Zenon DEF ItemStep
  <2> QED
    BY <2>1, <2>2, Zenon
<1>5. \A a \in A : \A i \in 1 .. N : ItemStep(p, V, a, msg[i]) \in A
  BY <1>4, Zenon DEF Grew
<1>6. PICK run \in [0 .. N -> A] : ItemsRun(p, V, table, msg, run)
  <2> HIDE DEF A
  <2> QED
    BY <1>1, <1>3, <1>5, ItemsRuns, Zenon
<1> HIDE DEF N, acc, G
<1>7. /\ run[0] = acc /\ ProcessItems(p, V, table, msg) = run[N]
      /\ \A i \in 1 .. N : run[i] = ItemStep(p, V, run[i - 1], msg[i])
  BY <1>6, Zenon DEF ItemsRun, N, acc
<1> DEFINE T == {i \in 0 .. N : /\ Grew(acc, run[i], S, G)
                                /\ \A j \in 1 .. i : msg[j].t = "Item" =>
                                      ItemDone(p, V, S, run[i], msg[j])}
<1>8. 0 \in T
  BY <1>1, <1>2, <1>7, GrewOrder
<1>9. ASSUME NEW i \in 1 .. N, i - 1 \in T PROVE i \in T
  <2>1. i - 1 \in 0 .. N /\ run[i - 1] \in A /\ run[i] = ItemStep(p, V, run[i - 1], msg[i])
    BY <1>1, <1>7
  <2>2. /\ Grew(run[i - 1], run[i], S, G)
        /\ msg[i].t = "Item" => ItemDone(p, V, S, run[i], msg[i])
    <3> HIDE DEF A
    <3> QED
      BY <1>4, <2>1, Zenon
  <2>3. Grew(acc, run[i], S, G)
    BY <1>2, <1>9, <2>2, GrewOrder, Zenon
  <2>4. ASSUME NEW j \in 1 .. i, msg[j].t = "Item" PROVE ItemDone(p, V, S, run[i], msg[j])
    <3>1. CASE j = i
      BY <2>2, <2>4, <3>1, Zenon
    <3>2. CASE j # i
      BY <1>1, <1>9, <2>1, <2>2, <2>4, <3>2, ItemTyped, ItemStaysDone DEF N
    <3> QED
      BY <3>1, <3>2, Zenon
  <2> QED
    BY <2>3, <2>4
<1>10. N \in T
  <2> HIDE DEF T
  <2>1. \A i \in 0 .. N : i \in T
    BY <1>1, <1>8, <1>9, Zenon DEF Contract, Induction
  <2> QED
    BY <1>1, <2>1
<1> QED
  BY <1>7, <1>10, Zenon DEF N, acc, G

-----------------------------------------------------------------------------
(* Fingerprints                                                            *)

LEMMA ChunkIsGood ==
    ASSUME NEW V, V \subseteq Entry, NEW B, NEW x \in B \cap Bounds, NEW y \in B \cap Bounds
    PROVE  /\ ChunkPart(V, x, y) \in Good(V, B) /\ ChunkPart(V, x, y) \in Parts
           /\ \A O : ChunkPart(V, x, y) \in O => \A z : Under(z, x, y) => Asks(O, z)
<1> DEFINE R == get_range(V, x, y)
           f == FingerprintPart(x, y, R)
           q == ItemPart(x, y, R, FALSE)
<1>1. ChunkPart(V, x, y) \in {f, q}
  BY Zenon DEF ChunkPart
<1>2. f \in Good(V, B) /\ q \in Good(V, B)
  BY GoodParts, Zenon
<1>3. f.t = "Fingerprint" /\ f.x = x /\ f.y = y
  BY Zenon DEF FingerprintPart
<1>4. q.t = "Item" /\ q.x = x /\ q.y = y /\ ~ q.have_local
  BY Zenon DEF ItemPart
<1> HIDE DEF f, q
<1>5. f \in Parts /\ q \in Parts
  BY <1>2, Zenon DEF Good
<1>6. ASSUME NEW O, NEW part \in O, part \in {f, q}, NEW z, Under(z, x, y) PROVE Asks(O, z)
  BY <1>3, <1>4, <1>6, Zenon DEF Asks
<1> QED
  BY <1>1, <1>2, <1>5, <1>6, Zenon

ChunkStep(V, a, ranges, i) ==
    IF i \in DOMAIN ranges THEN Push(a, ChunkPart(V, ranges[i][1], ranges[i][2])) ELSE a

ChunksRun(V, acc, ranges, run) ==
    /\ run[0] = acc
    /\ \A i \in 1 .. split_factor : run[i] = ChunkStep(V, run[i - 1], ranges, i)
    /\ PushChunks(V, acc, ranges) = run[split_factor]

LEMMA ChunksRuns ==
    ASSUME Contract,
           NEW V, NEW acc \in Accs, NEW ranges,
           \A a \in Accs : \A i \in 1 .. split_factor : ChunkStep(V, a, ranges, i) \in Accs
    PROVE  \E run \in [0 .. split_factor -> Accs] : ChunksRun(V, acc, ranges, run)
<1> DEFINE N == split_factor
<1>0. N \in Nat
  BY ReconcileAssumption, Zenon
<1> HIDE DEF N
<1> DEFINE Body(f) == [i \in 0 .. N |-> IF i = 0 THEN acc ELSE ChunkStep(V, f[i - 1], ranges, i)]
           after == CHOOSE f : f = Body(f)
           g == [i \in 1 .. N |-> [a \in Accs |-> ChunkStep(V, a, ranges, i)]]
<1>1. g \in [1 .. N -> [Accs -> Accs]]
  BY Zenon DEF N
<1>2. PICK run \in [0 .. N -> Accs] : IsRun(run, g, acc, N)
  <2> HIDE DEF g
  <2> QED
    BY <1>0, <1>1, LoopHasRun, Zenon
<1>3. \A i \in 1 .. N : i - 1 \in 0 .. N
  BY <1>0
<1>4. \A i \in 1 .. N : /\ run[i - 1] \in Accs
                        /\ run[i] = ChunkStep(V, run[i - 1], ranges, i)
  BY <1>2, <1>3, Zenon DEF IsRun
<1>5. run = Body(run)
  BY <1>0, <1>2, <1>4 DEF IsRun
<1>6. after = Body(after)
  <2> HIDE DEF Body
  <2> QED
    BY <1>5, Zenon
<1>7. PushChunks(V, acc, ranges) = after[N]
  BY Zenon DEF PushChunks, Loop, N, ChunkStep
<1> HIDE DEF after
<1>8. after[0] = acc /\ \A i \in 1 .. N : after[i] = ChunkStep(V, after[i - 1], ranges, i)
  BY <1>0, <1>6
<1> DEFINE T == {i \in 0 .. N : after[i] \in Accs}
<1>9. \A i \in 0 .. N : i \in T
  <2>1. 0 \in T
    BY <1>0, <1>8
  <2>2. \A i \in 1 .. N : i - 1 \in T => i \in T
    BY <1>0, <1>8 DEF N
  <2> HIDE DEF T
  <2> QED
    BY <1>0, <2>1, <2>2, Zenon DEF Contract, Induction
<1>10. after \in [0 .. N -> Accs]
  BY <1>6, <1>9, Zenon
<1>11. ChunksRun(V, acc, ranges, after)
  BY <1>7, <1>8, Zenon DEF ChunksRun, N
<1> QED
  BY <1>10, <1>11, Zenon DEF N

\* Every range of a split gets a part of the reply.
LEMMA ChunksGrow ==
    ASSUME Contract,
           NEW V, V \subseteq Entry, NEW B, NEW S, NEW acc \in Accs, NEW ranges,
           DOMAIN ranges \subseteq 1 .. split_factor,
           \A i \in DOMAIN ranges : /\ ranges[i][1] \in B \cap Bounds
                                    /\ ranges[i][2] \in B \cap Bounds
    PROVE  /\ Grew(acc, PushChunks(V, acc, ranges), S, Good(V, B))
           /\ PushChunks(V, acc, ranges).rec = acc.rec
           /\ \A i \in DOMAIN ranges : \A z : Under(z, ranges[i][1], ranges[i][2]) =>
                 Asks(PartsIn(PushChunks(V, acc, ranges).out), z)
<1> DEFINE G == Good(V, B)
           C(i) == ChunkPart(V, ranges[i][1], ranges[i][2])
<1>1. \A i \in DOMAIN ranges :
          /\ C(i) \in G /\ C(i) \in Parts
          /\ \A O : C(i) \in O => \A z : Under(z, ranges[i][1], ranges[i][2]) => Asks(O, z)
  BY ChunkIsGood, Zenon
<1> HIDE DEF C, G
<1>2. \A a \in Accs : \A i \in 1 .. split_factor :
          /\ Grew(a, ChunkStep(V, a, ranges, i), S, G)
          /\ ChunkStep(V, a, ranges, i).rec = a.rec
          /\ i \in DOMAIN ranges => C(i) \in PartsIn(ChunkStep(V, a, ranges, i).out)
  <2> SUFFICES ASSUME NEW a \in Accs, NEW i \in 1 .. split_factor
               PROVE  /\ Grew(a, ChunkStep(V, a, ranges, i), S, G)
                      /\ ChunkStep(V, a, ranges, i).rec = a.rec
                      /\ i \in DOMAIN ranges => C(i) \in PartsIn(ChunkStep(V, a, ranges, i).out)
    BY Zenon
  <2>1. CASE i \in DOMAIN ranges
    BY <1>1, <2>1, Pushed, PushGrows, Zenon DEF ChunkStep, C
  <2>2. CASE i \notin DOMAIN ranges
    BY <2>2, GrewOrder, Zenon DEF ChunkStep
  <2> QED
    BY <2>1, <2>2, Zenon
<1>3. \A a \in Accs : \A i \in 1 .. split_factor : ChunkStep(V, a, ranges, i) \in Accs
  BY <1>2, Zenon DEF Grew
<1>4. PICK run \in [0 .. split_factor -> Accs] : ChunksRun(V, acc, ranges, run)
  BY <1>3, ChunksRuns, Zenon
<1> DEFINE N == split_factor
<1>5. N \in Nat
  BY ReconcileAssumption, Zenon
<1>6. /\ run[0] = acc /\ PushChunks(V, acc, ranges) = run[N]
      /\ \A i \in 1 .. N : run[i] = ChunkStep(V, run[i - 1], ranges, i)
  BY <1>4, Zenon DEF ChunksRun
<1> DEFINE T == {i \in 0 .. N : /\ Grew(acc, run[i], S, G) /\ run[i].rec = acc.rec
                                /\ \A j \in DOMAIN ranges :
                                      j \in 1 .. i => C(j) \in PartsIn(run[i].out)}
<1> HIDE DEF N
<1>7. 0 \in T
  BY <1>5, <1>6, GrewOrder
<1>8. ASSUME NEW i \in 1 .. N, i - 1 \in T PROVE i \in T
  <2>1. i - 1 \in 0 .. N /\ run[i - 1] \in Accs /\ run[i] = ChunkStep(V, run[i - 1], ranges, i)
    BY <1>5, <1>6 DEF N
  <2>2. /\ Grew(run[i - 1], run[i], S, G) /\ run[i].rec = run[i - 1].rec
        /\ i \in DOMAIN ranges => C(i) \in PartsIn(run[i].out)
    BY <1>2, <2>1, Zenon DEF N
  <2>3. Grew(acc, run[i], S, G)
    BY <1>8, <2>2, GrewOrder, Zenon
  <2>4. run[i].rec = acc.rec
    BY <1>8, <2>2, Zenon
  <2>5. ASSUME NEW j \in DOMAIN ranges, j \in 1 .. i PROVE C(j) \in PartsIn(run[i].out)
    <3>1. CASE j = i
      BY <2>2, <3>1, Zenon
    <3>2. CASE j # i
      BY <1>5, <1>8, <2>2, <2>5, <3>2 DEF Grew
    <3> QED
      BY <3>1, <3>2, Zenon
  <2> QED
    BY <2>3, <2>4, <2>5
<1>9. N \in T
  <2> HIDE DEF T
  <2>1. \A i \in 0 .. N : i \in T
    BY <1>5, <1>7, <1>8, Zenon DEF Contract, Induction
  <2> QED
    BY <1>5, <2>1
<1>10. \A j \in DOMAIN ranges : C(j) \in PartsIn(run[N].out)
  BY <1>9, Zenon DEF N
<1>11. \A i \in DOMAIN ranges : \A z : Under(z, ranges[i][1], ranges[i][2]) =>
           Asks(PartsIn(run[N].out), z)
  BY <1>1, <1>10, Zenon
<1> QED
  BY <1>6, <1>9, <1>11, Zenon DEF G

\* What a fingerprint that does not match asks of the side that processes it.
FingerprintDone(V, a, part) ==
    get_range(V, part.x, part.y) # part.fp =>
        \A z \in Bounds : Under(z, part.x, part.y) => Asks(PartsIn(a.out), z)

LEMMA FingerprintGrows ==
    ASSUME Contract,
           NEW V, IsView(V), NEW W, NEW B, \A e \in V : e.id \in B, NEW S, NEW acc \in Accs,
           NEW part \in Good(W, B), part.t = "Fingerprint"
    PROVE  /\ Grew(acc, ProcessFingerprint(V, acc, part), S, Good(V, B))
           /\ ProcessFingerprint(V, acc, part).rec = acc.rec
           /\ FingerprintDone(V, ProcessFingerprint(V, acc, part), part)
<1> DEFINE local == get_range(V, part.x, part.y)
           G == Good(V, B)
           ranges == Split(local, part.x, part.y)
           q == ItemPart(part.x, part.y, local, FALSE)
           res == ProcessFingerprint(V, acc, part)
<1>1. part.x \in B \cap Bounds /\ part.y \in B \cap Bounds
  BY Zenon DEF Good
<1>2. IsView(local) /\ local \subseteq V /\ V \subseteq Entry
  BY <1>1, RangeIsView, Zenon DEF IsView
<1>3. q \in G /\ q.t = "Item" /\ q.x = part.x /\ q.y = part.y /\ ~ q.have_local
  BY <1>1, <1>2, GoodParts, Zenon DEF ItemPart
<1>4. q \in Parts
  <2> HIDE DEF q
  <2> QED
    BY <1>3, Zenon DEF Good
<1>5. CASE local = part.fp
  BY <1>5, GrewOrder, Zenon DEF ProcessFingerprint, FingerprintDone
<1>6. CASE local # part.fp /\ Recurses(local, part)
  <2>1. res = PushChunks(V, acc, ranges)
    BY <1>6, Zenon DEF ProcessFingerprint
  <2>2. Cardinality(local) > 1
    BY <1>6, Zenon DEF Recurses
  <2>3. /\ DOMAIN ranges \subseteq 1 .. split_factor
        /\ \A i \in DOMAIN ranges :
              /\ ranges[i][1] \in ({part.x, part.y} \cup {e.id : e \in local}) \cap Bounds
              /\ ranges[i][2] \in ({part.x, part.y} \cup {e.id : e \in local}) \cap Bounds
        /\ \A z \in Bounds : Under(z, part.x, part.y) =>
              \E i \in DOMAIN ranges : Under(z, ranges[i][1], ranges[i][2])
    BY <1>1, <2>2, Zenon DEF Contract, SplitCovers, CoveredBySplit
  <2> HIDE DEF ranges
  <2>4. \A i \in DOMAIN ranges : /\ ranges[i][1] \in B \cap Bounds
                                 /\ ranges[i][2] \in B \cap Bounds
    BY <1>1, <1>2, <2>3, Zenon
  <2>5. /\ Grew(acc, PushChunks(V, acc, ranges), S, G)
        /\ PushChunks(V, acc, ranges).rec = acc.rec
        /\ \A i \in DOMAIN ranges : \A z : Under(z, ranges[i][1], ranges[i][2]) =>
              Asks(PartsIn(PushChunks(V, acc, ranges).out), z)
    BY <1>2, <2>3, <2>4, ChunksGrow, Zenon
  <2> HIDE DEF res
  <2>6. \A z \in Bounds : Under(z, part.x, part.y) => Asks(PartsIn(res.out), z)
    BY <2>1, <2>3, <2>5, Zenon
  <2> QED
    BY <2>1, <2>5, <2>6, Zenon DEF FingerprintDone, res
<1>7. CASE local # part.fp /\ ~ Recurses(local, part)
  <2>1. res = Push(acc, q)
    BY <1>7, Zenon DEF ProcessFingerprint
  <2> HIDE DEF q, res
  <2>2. /\ Grew(acc, res, S, G) /\ res.rec = acc.rec
        /\ q \in PartsIn(res.out)
    BY <1>3, <1>4, <2>1, PushGrows, Pushed, Zenon
  <2>3. \A z \in Bounds : Under(z, part.x, part.y) => Asks(PartsIn(res.out), z)
    BY <1>3, <2>2, Zenon DEF Asks
  <2> QED
    BY <2>2, <2>3, Zenon DEF FingerprintDone, res
<1> QED
  BY <1>5, <1>6, <1>7, Zenon

FingerprintStep(V, a, part) ==
    IF part.t = "Fingerprint" THEN ProcessFingerprint(V, a, part) ELSE a

FingerprintsRun(p, V, table, msg, run) ==
    /\ run[0] = ProcessItems(p, V, table, msg)
    /\ \A i \in 1 .. Len(msg) : run[i] = FingerprintStep(V, run[i - 1], msg[i])
    /\ process_message(p, V, table, msg) = run[Len(msg)]

LEMMA FingerprintsRuns ==
    ASSUME Contract,
           NEW p, NEW V, NEW table, NEW msg, Len(msg) \in Nat,
           ProcessItems(p, V, table, msg) \in Accs,
           \A a \in Accs : \A i \in 1 .. Len(msg) : FingerprintStep(V, a, msg[i]) \in Accs
    PROVE  \E run \in [0 .. Len(msg) -> Accs] : FingerprintsRun(p, V, table, msg, run)
<1> DEFINE N == Len(msg)
           acc == ProcessItems(p, V, table, msg)
<1>0. N \in Nat /\ acc \in Accs
  BY Zenon
<1> HIDE DEF N, acc
<1> DEFINE Body(f) == [i \in 0 .. N |-> IF i = 0 THEN acc ELSE FingerprintStep(V, f[i - 1], msg[i])]
           after == CHOOSE f : f = Body(f)
           g == [i \in 1 .. N |-> [a \in Accs |-> FingerprintStep(V, a, msg[i])]]
<1>1. g \in [1 .. N -> [Accs -> Accs]]
  BY Zenon DEF N
<1>2. PICK run \in [0 .. N -> Accs] : IsRun(run, g, acc, N)
  <2> HIDE DEF g
  <2> QED
    BY <1>0, <1>1, LoopHasRun, Zenon
<1>3. \A i \in 1 .. N : i - 1 \in 0 .. N
  BY <1>0
<1>4. \A i \in 1 .. N : /\ run[i - 1] \in Accs
                        /\ run[i] = FingerprintStep(V, run[i - 1], msg[i])
  BY <1>2, <1>3, Zenon DEF IsRun
<1>5. run = Body(run)
  BY <1>0, <1>2, <1>4 DEF IsRun
<1>6. after = Body(after)
  <2> HIDE DEF Body
  <2> QED
    BY <1>5, Zenon
<1>7. process_message(p, V, table, msg) = after[N]
  BY Zenon DEF process_message, Loop, N, acc, FingerprintStep
<1> HIDE DEF after
<1>8. after[0] = acc /\ \A i \in 1 .. N : after[i] = FingerprintStep(V, after[i - 1], msg[i])
  BY <1>0, <1>6
<1> DEFINE T == {i \in 0 .. N : after[i] \in Accs}
<1>9. \A i \in 0 .. N : i \in T
  <2>1. 0 \in T
    BY <1>0, <1>8
  <2>2. \A i \in 1 .. N : i - 1 \in T => i \in T
    BY <1>0, <1>8 DEF N
  <2> HIDE DEF T
  <2> QED
    BY <1>0, <2>1, <2>2, Zenon DEF Contract, Induction
<1>10. after \in [0 .. N -> Accs]
  BY <1>6, <1>9, Zenon
<1>11. FingerprintsRun(p, V, table, msg, after)
  BY <1>7, <1>8, Zenon DEF FingerprintsRun, N, acc
<1> QED
  BY <1>10, <1>11, Zenon DEF N

\* What a round does, for a side with view V that takes in a message from one with
\* view W: no part of the message is forgotten.
LEMMA MessageProcessed ==
    ASSUME Contract,
           NEW p, gate[p] \in [Ids -> Verdicts], NEW V, IsView(V), NEW W, IsView(W),
           NEW B, \A e \in V : e.id \in B,
           NEW S, W \subseteq S, NEW table \in RecordTables, EntriesOf(table) \subseteq S,
           NEW msg \in Seq(Parts), \A i \in 1 .. Len(msg) : msg[i] \in Good(W, B)
    PROVE  /\ Grew([rec |-> table, out |-> << >>], process_message(p, V, table, msg), S, Good(V, B))
           /\ \A i \in 1 .. Len(msg) : msg[i].t = "Item" =>
                 ItemDone(p, V, S, process_message(p, V, table, msg), msg[i])
           /\ \A i \in 1 .. Len(msg) : msg[i].t = "Fingerprint" =>
                 FingerprintDone(V, process_message(p, V, table, msg), msg[i])
<1> DEFINE N == Len(msg)
           acc == [rec |-> table, out |-> << >>]
           mid == ProcessItems(p, V, table, msg)
           G == Good(V, B)
<1>1. N \in Nat /\ acc \in Accs
  BY DEF Accs
<1>2. /\ Grew(acc, mid, S, G)
      /\ \A i \in 1 .. Len(msg) : msg[i].t = "Item" => ItemDone(p, V, S, mid, msg[i])
  BY ItemsGrow, Zenon
<1> HIDE DEF mid, G
<1>3. mid \in Accs
  BY <1>2, Zenon DEF Grew
<1>4. \A a \in Accs : \A i \in 1 .. N :
          /\ Grew(a, FingerprintStep(V, a, msg[i]), S, G)
          /\ msg[i].t = "Fingerprint" => FingerprintDone(V, FingerprintStep(V, a, msg[i]), msg[i])
  <2> SUFFICES ASSUME NEW a \in Accs, NEW i \in 1 .. N
               PROVE  /\ Grew(a, FingerprintStep(V, a, msg[i]), S, G)
                      /\ msg[i].t = "Fingerprint" =>
                            FingerprintDone(V, FingerprintStep(V, a, msg[i]), msg[i])
    BY Zenon
  <2>1. CASE msg[i].t = "Fingerprint"
    BY <2>1, FingerprintGrows, Zenon DEF FingerprintStep, G
  <2>2. CASE msg[i].t # "Fingerprint"
    BY <2>2, GrewOrder, Zenon DEF FingerprintStep
  <2> QED
    BY <2>1, <2>2, Zenon
<1>5. \A a \in Accs : \A i \in 1 .. N : FingerprintStep(V, a, msg[i]) \in Accs
  BY <1>4, Zenon DEF Grew
<1>6. PICK run \in [0 .. N -> Accs] : FingerprintsRun(p, V, table, msg, run)
  BY <1>1, <1>3, <1>5, FingerprintsRuns, Zenon DEF mid
<1> HIDE DEF N, acc
<1>7. /\ run[0] = mid /\ process_message(p, V, table, msg) = run[N]
      /\ \A i \in 1 .. N : run[i] = FingerprintStep(V, run[i - 1], msg[i])
  BY <1>6, Zenon DEF FingerprintsRun, N, mid
<1> DEFINE T == {i \in 0 .. N : /\ Grew(mid, run[i], S, G)
                                /\ \A j \in 1 .. i : msg[j].t = "Fingerprint" =>
                                      FingerprintDone(V, run[i], msg[j])}
<1>8. 0 \in T
  BY <1>1, <1>3, <1>7, GrewOrder
<1>9. ASSUME NEW i \in 1 .. N, i - 1 \in T PROVE i \in T
  <2>1. i - 1 \in 0 .. N /\ run[i - 1] \in Accs /\ run[i] = FingerprintStep(V, run[i - 1], msg[i])
    BY <1>1, <1>7
  <2>2. /\ Grew(run[i - 1], run[i], S, G)
        /\ msg[i].t = "Fingerprint" => FingerprintDone(V, run[i], msg[i])
    BY <1>4, <2>1, Zenon
  <2>3. Grew(mid, run[i], S, G)
    BY <1>3, <1>9, <2>2, GrewOrder, Zenon
  <2>4. ASSUME NEW j \in 1 .. i, msg[j].t = "Fingerprint" PROVE FingerprintDone(V, run[i], msg[j])
    <3>1. CASE j = i
      BY <2>2, <2>4, <3>1, Zenon
    <3>2. CASE j # i
      <4>1. j \in 1 .. i - 1
        BY <1>1, <3>2
      <4>2. FingerprintDone(V, run[i - 1], msg[j])
        BY <1>9, <2>4, <4>1, Zenon
      <4>3. PartsIn(run[i - 1].out) \subseteq PartsIn(run[i].out)
        BY <2>2, Zenon DEF Grew
      <4>4. \A z : Asks(PartsIn(run[i - 1].out), z) => Asks(PartsIn(run[i].out), z)
        BY <4>3, CarriesGrows, Zenon
      <4> QED
        BY <4>2, <4>4, Zenon DEF FingerprintDone
    <3> QED
      BY <3>1, <3>2, Zenon
  <2> QED
    BY <2>3, <2>4
<1>10. N \in T
  <2> HIDE DEF T
  <2>1. \A i \in 0 .. N : i \in T
    BY <1>1, <1>8, <1>9, Zenon DEF Contract, Induction
  <2> QED
    BY <1>1, <2>1
<1>11. EntriesOf(mid.rec) \subseteq S
  BY <1>2, Zenon DEF acc, Grew
<1>12. ASSUME NEW i \in 1 .. N, msg[i].t = "Item" PROVE ItemDone(p, V, S, run[N], msg[i])
  BY <1>2, <1>10, <1>11, <1>12, ItemTyped, ItemStaysDone, Zenon DEF N
<1>13. Grew(acc, run[N], S, G)
  BY <1>1, <1>2, <1>10, GrewOrder, Zenon
<1> QED
  BY <1>7, <1>10, <1>12, <1>13, Zenon DEF N, acc, G

-----------------------------------------------------------------------------
(* Nothing is lost on the way                                              *)

\* The table tV of the side that reads next has, or gets from the parts under way,
\* what the other side serves (W) and this one accepts; the table tW has, or is
\* asked to be given, what this side serves (V) and the other one accepts.
Cover(V, W, tV, tW, gV, gW, O) ==
    /\ \A e \in W : gV[e.id] = "Accept" => Holds(tV, e) \/ Carries(O, e)
    /\ \A e \in V : gW[e.id] = "Accept" => Holds(tW, e) \/ Asks(O, e.id)

LEMMA HoldsMore ==
    ASSUME Contract,
           NEW t \in RecordTables, NEW e \in Entry, NEW f \in Entry, Supersedes(e, f), Holds(t, e)
    PROVE  Holds(t, f)
<1>1. PICK h \in EntriesOf(t) : Supersedes(h, e)
  BY Zenon DEF Holds
<1>2. h \in Entry
  BY EntriesOfTyped, Zenon
<1>3. Supersedes(h, f)
  BY <1>1, <1>2, Zenon DEF Contract, SupersedesOrder
<1> QED
  BY <1>3, Zenon DEF Holds

LEMMA RoundCovers ==
    ASSUME Contract,
           NEW p, gate[p] \in [Ids -> Verdicts], NEW V, IsView(V), NEW W, IsView(W),
           NEW B, \A e \in V : e.id \in B,
           NEW S, Exact(S), W \subseteq S,
           NEW tV \in RecordTables, EntriesOf(tV) \subseteq S, \A e \in V : Holds(tV, e),
           NEW tW \in RecordTables, \A e \in W : Holds(tW, e),
           NEW msg \in Seq(Parts), \A i \in 1 .. Len(msg) : msg[i] \in Good(W, B),
           NEW gW, Cover(V, W, tV, tW, gate[p], gW, PartsIn(msg))
    PROVE  Cover(W, V, tW, process_message(p, V, tV, msg).rec, gW, gate[p],
                 PartsIn(process_message(p, V, tV, msg).out))
<1> DEFINE acc == [rec |-> tV, out |-> << >>]
           res == process_message(p, V, tV, msg)
           O == PartsIn(res.out)
           M == PartsIn(msg)
<1>1. Grew(acc, res, S, Good(V, B))
  BY MessageProcessed, Zenon
<1>2. \A q \in M : q \in Good(W, B) /\ (q.t = "Item" => ItemDone(p, V, S, res, q))
                   /\ (q.t = "Fingerprint" => FingerprintDone(V, res, q))
  <2>1. \A i \in 1 .. Len(msg) :
            /\ msg[i].t = "Item" => ItemDone(p, V, S, res, msg[i])
            /\ msg[i].t = "Fingerprint" => FingerprintDone(V, res, msg[i])
    BY MessageProcessed, Zenon
  <2> QED
    BY <2>1, Zenon DEF PartsIn
<1>3. acc.rec = tV /\ PartsIn(acc.out) = {}
  BY DEF PartsIn
<1> HIDE DEF acc, res, M
<1>4. /\ res.rec \in RecordTables /\ O \subseteq Good(V, B)
      /\ \A e \in Entry : Holds(tV, e) => Holds(res.rec, e)
  BY <1>1, <1>3, Zenon DEF Grew, Accs
<1>5. Cover(V, W, tV, tW, gate[p], gW, M)
  BY Zenon DEF M
<1> HIDE DEF O
\* A fingerprint that matches shows that the other side has the entry; one that
\* does not is answered over the whole range.
<1>6. ASSUME NEW q \in M, q.t = "Fingerprint", NEW e \in V \cup W, Under(e.id, q.x, q.y)
      PROVE  (e \in V /\ e \in W) \/ Asks(O, e.id)
  <2>1. q.x \in Bounds /\ q.y \in Bounds /\ q.fp = get_range(W, q.x, q.y)
    BY <1>2, <1>6, Zenon DEF Good
  <2>2. e.id \in Bounds
    BY InView, Zenon
  <2>3. CASE get_range(V, q.x, q.y) = q.fp
    BY <1>6, <2>1, <2>3, Zenon DEF Contract, Ranges
  <2>4. CASE get_range(V, q.x, q.y) # q.fp
    BY <1>2, <1>6, <2>2, <2>4, Zenon DEF FingerprintDone, O
  <2> QED
    BY <2>3, <2>4, Zenon
<1>7. ASSUME NEW e \in V, gW[e.id] = "Accept" PROVE Holds(tW, e) \/ Carries(O, e)
  <2>1. Holds(tW, e) \/ Asks(M, e.id)
    BY <1>5, <1>7, Zenon DEF Cover
  <2>2. ASSUME Asks(M, e.id) PROVE Holds(tW, e) \/ Carries(O, e)
    <3>1. PICK q \in M : /\ q.t = "Fingerprint" \/ (q.t = "Item" /\ ~ q.have_local)
                         /\ Under(e.id, q.x, q.y)
      BY <2>2, Zenon DEF Asks
    <3>2. CASE q.t = "Fingerprint"
      BY <1>4, <1>6, <3>1, <3>2, AskedIsCarried, Zenon
    <3>3. CASE q.t = "Item" /\ ~ q.have_local
      <4>1. ItemDone(p, V, S, res, q) /\ q \in Good(W, B)
        BY <1>2, <3>3, Zenon
      <4>2. q.x \in Bounds /\ q.y \in Bounds /\ q.values \subseteq W
        BY <3>3, <4>1, ItemTyped, Zenon
      <4>3. e \in get_range(V, q.x, q.y)
        BY <3>1, <4>2, Zenon DEF Contract, Ranges
      <4>4. CASE e \in Diff(V, q)
        BY <3>3, <4>1, <4>4, Zenon DEF ItemDone, O
      <4>5. CASE e \notin Diff(V, q)
        <5>1. PICK their \in q.values : e.id = their.id /\ RecordLeq(e.r, their.r)
          BY <4>3, <4>5, Zenon DEF Diff
        <5>2. their \in W /\ their \in Entry /\ e \in Entry /\ e.id \in Ids
          BY <4>2, InView, Zenon
        <5>3. Supersedes(their, e)
          BY <5>1, <5>2, Zenon DEF Contract, SupersedesOrder
        <5> QED
          BY <5>2, <5>3, HoldsMore, Zenon
      <4> QED
        BY <4>4, <4>5, Zenon
    <3> QED
      BY <3>1, <3>2, <3>3, Zenon
  <2> QED
    BY <2>1, <2>2, Zenon
<1>8. ASSUME NEW e \in W, gate[p][e.id] = "Accept" PROVE Holds(res.rec, e) \/ Asks(O, e.id)
  <2>1. Holds(tV, e) \/ Carries(M, e)
    BY <1>5, <1>8, Zenon DEF Cover
  <2>2. Holds(tV, e) => Holds(res.rec, e)
    BY <1>4, InView, Zenon
  <2>3. ASSUME Carries(M, e) PROVE Holds(res.rec, e) \/ Asks(O, e.id)
    <3>1. PICK q \in M : \/ q.t = "Fingerprint" /\ Under(e.id, q.x, q.y)
                         \/ q.t = "Item" /\ e \in q.values
      BY <2>3, Zenon DEF Carries
    <3>2. CASE q.t = "Fingerprint" /\ Under(e.id, q.x, q.y)
      BY <1>6, <2>2, <3>2, Zenon
    <3>3. CASE q.t = "Item" /\ e \in q.values
      BY <1>2, <1>8, <3>3, Zenon DEF ItemDone
    <3> QED
      BY <3>1, <3>2, <3>3, Zenon
  <2> QED
    BY <2>1, <2>2, <2>3, Zenon
<1> QED
  BY <1>7, <1>8, Zenon DEF Cover, res, O

-----------------------------------------------------------------------------
(* The inductive invariant                                                 *)

Opened(p) == phase # "new" /\ (p = "Alice" \/ phase # "init")

Revealed == {DefaultId} \cup {e.id : e \in Served("Alice") \cup Served("Bob")}

SessionTyped ==
    /\ TypeOK
    /\ quota \in Nat
    /\ admits \in [Sides -> SUBSET Ids]
    /\ gate \in [Sides -> [Ids -> Verdicts]]

\* Before a side opens its session it has no snapshot; the Init asks for everything;
\* a session that is done has no message under way.
StagesInv ==
    /\ \A p \in Sides : ~ Opened(p) => snap[p] = NoTable
    /\ phase = "init" => to = "Bob" /\ \A i \in Bounds : Asks(PartsIn(net), i)
    /\ phase \in {"new", "done"} => net = << >>

\* The tables are pruned, get nothing from outside the session, and keep, or
\* supersede, what was in them when the session began.
TablesInv ==
    \A p \in Sides :
        /\ Pruned(rec[p])
        /\ Opened(p) => EntriesOf(rec[p]) \subseteq InPlay
        /\ PutsAreExact => \A e \in EntriesOf(snap[p]) : Holds(rec[p], e)

PartsInv == \A i \in 1 .. Len(net) : net[i] \in Good(Served(Peer(to)), Revealed)

CoverInv ==
    phase \in {"running", "done"} /\ PutsAreExact =>
        Cover(Served(to), Served(Peer(to)), rec[to], rec[Peer(to)],
              gate[to], gate[Peer(to)], PartsIn(net))

SessionInv == SessionTyped /\ StagesInv /\ TablesInv /\ PartsInv /\ CoverInv

LEMMA ServedIsView ==
    ASSUME Contract,
           SessionTyped, NEW p \in Sides
    PROVE  /\ IsView(Served(p)) /\ Served(p) \subseteq EntriesOf(snap[p])
           /\ View(p) = Served(p)
  BY Zenon DEF SessionTyped, TypeOK, Served, View, SessionStore, Contract, Views

LEMMA NoTableIsEmpty == NoTable \in RecordTables /\ EntriesOf(NoTable) = {}
  BY Zenon DEF NoTable, RecordTables, EntriesOf, Present

LEMMA PeerIsSide ==
    ASSUME NEW p \in Sides
    PROVE  Peer(p) \in Sides /\ Peer(p) # p /\ Peer(Peer(p)) = p /\ Sides = {p, Peer(p)}
  BY Zenon DEF Sides, Peer

LEMMA FewerExact ==
    ASSUME NEW S, NEW T, T \subseteq S, Exact(S)
    PROVE  Exact(T)
  BY Zenon DEF Exact

LEMMA PutsExact == PutsAreExact <=> Exact(InPlay)
  BY Zenon DEF PutsAreExact, Exact

LEMMA InitialState == Init => SessionInv
<1> SUFFICES ASSUME Init PROVE SessionInv
  BY Zenon
<1>1. PICK s \in Sessions : /\ rec \in [Sides -> s.stored] /\ admits \in [Sides -> s.filters]
                            /\ gate \in [Sides -> s.gates] /\ quota = s.quota
  BY Zenon DEF Init
<1>2. /\ s.stored \subseteq {t \in RecordTables : Pruned(t)} /\ s.filters \subseteq SUBSET Ids
      /\ s.gates \subseteq [Ids -> Verdicts] /\ s.quota \in Nat
  BY ReconcileAssumption, Zenon
<1>3. /\ snap = [p \in Sides |-> NoTable] /\ phase = "new" /\ to = "Bob" /\ net = << >>
      /\ observed = [p \in Sides |-> {}] /\ writes = 0 /\ rounds = 0
  BY Zenon DEF Init
<1>4. /\ rec \in [Sides -> RecordTables] /\ admits \in [Sides -> SUBSET Ids]
      /\ gate \in [Sides -> [Ids -> Verdicts]] /\ quota \in Nat
      /\ \A p \in Sides : Pruned(rec[p])
  BY <1>1, <1>2, Zenon
<1>5. SessionTyped
  BY <1>3, <1>4, NoTableIsEmpty DEF Sides, SessionTyped, TypeOK
<1>6. StagesInv
  BY <1>3, Zenon DEF StagesInv
<1>7. TablesInv
  BY <1>3, <1>4, NoTableIsEmpty, Zenon DEF Opened, TablesInv
<1>8. PartsInv /\ CoverInv
  BY <1>3 DEF PartsInv, CoverInv
<1> QED
  BY <1>5, <1>6, <1>7, <1>8, Zenon DEF SessionInv

LEMMA InitMessage ==
    ASSUME Contract,
           SessionInv, sync_initial_message
    PROVE  SessionInv'
<1> DEFINE V == SessionStore(rec["Alice"], admits["Alice"])
           f == get_first(V)
           q == FingerprintPart(f, f, V)
<1>1. /\ phase = "new" /\ phase' = "init" /\ to' = "Bob" /\ net' = <<q>>
      /\ snap' = [snap EXCEPT !["Alice"] = rec["Alice"]]
      /\ rec' = rec /\ observed' = observed /\ writes' = writes /\ admits' = admits
      /\ gate' = gate /\ quota' = quota /\ rounds' = rounds
  BY Zenon DEF sync_initial_message, initial_message
<1>2. "Alice" \in Sides /\ "Bob" \in Sides /\ Peer("Bob") = "Alice" /\ Sides = {"Alice", "Bob"}
  BY Zenon DEF Sides, Peer
<1>3. rec["Alice"] \in RecordTables /\ snap["Bob"] = NoTable
  BY <1>1, <1>2, Zenon DEF SessionInv, SessionTyped, TypeOK, StagesInv, Opened
<1>4. /\ snap' \in [Sides -> RecordTables] /\ snap'["Alice"] = rec["Alice"]
      /\ snap'["Bob"] = NoTable
  BY <1>1, <1>2, <1>3, Zenon DEF SessionInv, SessionTyped, TypeOK
<1>5. Served("Alice")' = V /\ Served("Bob")' = {}
  BY <1>1, <1>4, NoTableIsEmpty, Zenon DEF Served, SessionStore
<1>6. IsView(V) /\ V \subseteq EntriesOf(rec["Alice"])
  <2>1. V \subseteq EntriesOf(rec["Alice"])
    BY Zenon DEF SessionStore
  <2>2. IsView(EntriesOf(rec["Alice"]))
    BY <1>3, Zenon DEF Contract, Views
  <2> HIDE DEF V
  <2> QED
    BY <2>1, <2>2, Zenon DEF Contract, Views
<1> HIDE DEF V
<1>7. f \in Bounds /\ f \in Revealed'
  <2>1. CASE V = {}
    BY <2>1, Zenon DEF get_first, Bounds, Revealed
  <2>2. CASE V # {}
    <3>1. PICK e \in V : TRUE
      BY <2>2, Zenon
    <3>2. 0 < Cardinality(V)
      BY <1>6 DEF Contract, Places
    <3>3. Nth(V, 0) \in V
      BY <1>6, <3>2, Zenon DEF Contract, Places
    <3>4. f = Nth(V, 0).id
      BY Zenon DEF get_first
    <3>5. f \in Bounds
      BY <1>6, <3>3, <3>4, InView, Zenon
    <3> QED
      BY <1>5, <3>3, <3>4, <3>5, Zenon DEF Revealed
  <2> QED
    BY <2>1, <2>2, Zenon
<1> HIDE DEF f
<1>8. get_range(V, f, f) = V
  BY Zenon DEF get_range
<1>9. q \in Good(V, Revealed') /\ q \in Parts /\ q.t = "Fingerprint" /\ q.x = f /\ q.y = f
  <2>1. q \in Good(V, Revealed')
    BY <1>6, <1>7, <1>8, GoodParts, Zenon DEF IsView
  <2>2. q \in Parts
    <3> HIDE DEF q
    <3> QED
      BY <2>1, Zenon DEF Good
  <2> QED
    BY <2>1, <2>2, Zenon DEF FingerprintPart
<1> HIDE DEF q
<1>10. Len(net') = 1 /\ net'[1] = q /\ net' \in Seq(Parts) /\ PartsIn(net') = {q}
  BY <1>1, <1>9 DEF PartsIn
<1>11. SessionTyped'
  BY <1>1, <1>2, <1>10, Zenon DEF SessionInv, SessionTyped, TypeOK
<1>12. StagesInv'
  BY <1>1, <1>2, <1>4, <1>9, <1>10, Zenon DEF Asks, Under, Opened, StagesInv
<1>13. TablesInv'
  <2>1. \A p \in Sides : Pruned(rec'[p])
    BY <1>1, Zenon DEF SessionInv, TablesInv
  <2>2. \A p \in Sides : Opened(p)' => EntriesOf(rec'[p]) \subseteq InPlay'
    BY <1>1, <1>4, Zenon DEF Opened, InPlay
  <2>3. \A e \in EntriesOf(snap'["Alice"]) : Holds(rec'["Alice"], e)
    BY <1>1, <1>3, <1>4, EntriesOfTyped, Zenon DEF Holds, Contract, SupersedesOrder
  <2>4. EntriesOf(snap'["Bob"]) = {}
    BY <1>4, NoTableIsEmpty, Zenon
  <2> QED
    BY <1>2, <2>1, <2>2, <2>3, <2>4, Zenon DEF TablesInv
<1>14. PartsInv'
  BY <1>1, <1>2, <1>5, <1>9 DEF PartsInv
<1>15. CoverInv'
  BY <1>1, Zenon DEF CoverInv
<1> QED
  BY <1>11, <1>12, <1>13, <1>14, <1>15, Zenon DEF SessionInv

LEMMA ToldIsEntries ==
    ASSUME net \in Seq(Parts)
    PROVE  Told(net) \subseteq Entry
<1>1. ASSUME NEW j \in Refusals(net, Len(net)) PROVE net[j].e \in Entry
  BY DEF Refusals, Parts, FingerprintParts, ItemParts, RejectedParts
<1> QED
  BY <1>1, Zenon DEF Told

\* A message is processed by p, which is the side it is for and may just have taken
\* its snapshot.
LEMMA ProcessKeeps ==
    ASSUME Contract,
           SessionTyped, phase \in {"init", "running"}, NEW p \in Sides, p = to,
           snap' \in [Sides -> RecordTables], sync_process_message(p, Served(p)'),
           \A i \in 1 .. Len(net) : net[i] \in Good(Served(Peer(p))', Revealed'),
           \A s \in Sides : /\ Pruned(rec[s])
                            /\ EntriesOf(rec[s]) \subseteq InPlay'
                            /\ PutsAreExact' => \A e \in EntriesOf(snap'[s]) : Holds(rec[s], e),
           PutsAreExact' => Cover(Served(p)', Served(Peer(p))', rec[p], rec[Peer(p)],
                                  gate[p], gate[Peer(p)], PartsIn(net))
    PROVE  SessionInv'
<1> DEFINE V == Served(p)'
           W == Served(Peer(p))'
           S == InPlay'
           B == Revealed'
           res == process_message(p, V, rec[p], net)
           acc == [rec |-> rec[p], out |-> << >>]
           o == Peer(p)
<1>1. /\ observed' = [observed EXCEPT ![p] = @ \cup Told(net)]
      /\ rec' = [rec EXCEPT ![p] = res.rec]
      /\ net' = res.out
      /\ to' = Peer(p)
      /\ phase' = IF res.out = << >> THEN "done" ELSE "running"
      /\ rounds' = rounds + 1
      /\ writes' = writes /\ admits' = admits /\ gate' = gate /\ quota' = quota
  BY Zenon DEF sync_process_message
<1>2. o \in Sides /\ o # p /\ Peer(o) = p /\ Sides = {p, o}
  BY PeerIsSide, Zenon
<1>3. /\ gate[p] \in [Ids -> Verdicts] /\ rec[p] \in RecordTables /\ rec[o] \in RecordTables
      /\ net \in Seq(Parts) /\ rounds \in Nat /\ snap'[p] \in RecordTables
      /\ snap'[o] \in RecordTables
  BY <1>2, Zenon DEF SessionTyped, TypeOK
<1>4. V \subseteq EntriesOf(snap'[p]) /\ W \subseteq EntriesOf(snap'[o])
  BY Zenon DEF Served
<1>5. IsView(V) /\ IsView(W)
  BY <1>3, <1>4, Zenon DEF Contract, Views
<1>6. W \subseteq S
  BY <1>2, <1>4, Zenon DEF InPlay, Sides
<1>7. \A e \in V : e.id \in B
  BY Zenon DEF Revealed, Sides
<1> HIDE DEF V, W, S, B, res, o
<1>8. Grew(acc, res, S, Good(V, B))
  BY <1>3, <1>5, <1>6, <1>7, MessageProcessed, Zenon DEF V, W, S, B, res, o
<1>9. /\ res.rec \in RecordTables /\ res.out \in Seq(Parts)
      /\ Pruned(res.rec) /\ EntriesOf(res.rec) \subseteq S
      /\ PartsIn(res.out) \subseteq Good(V, B)
      /\ Exact(S) => \A e \in Entry : Holds(rec[p], e) => Holds(res.rec, e)
  <2>1. acc.rec = rec[p] /\ PartsIn(acc.out) = {}
    BY DEF PartsIn
  <2>2. Pruned(rec[p]) /\ EntriesOf(rec[p]) \subseteq S
    BY Zenon DEF S
  <2> HIDE DEF acc
  <2> QED
    BY <1>8, <2>1, <2>2, Zenon DEF Grew, Accs
<1>10. rec'[p] = res.rec /\ rec'[o] = rec[o] /\ rec' \in [Sides -> RecordTables]
  BY <1>1, <1>2, <1>9, Zenon DEF SessionTyped, TypeOK
<1>11. PutsAreExact' <=> Exact(S)
  BY Zenon DEF PutsAreExact, Exact, S
<1>12. SessionTyped'
  BY <1>1, <1>2, <1>9, ToldIsEntries DEF SessionTyped, TypeOK, o
<1>13. StagesInv'
  BY <1>1, Zenon DEF Opened, StagesInv
<1>14. TablesInv'
  <2>1. Pruned(rec'[p]) /\ Pruned(rec'[o])
    BY <1>2, <1>9, <1>10, Zenon
  <2>2. EntriesOf(rec'[p]) \subseteq S /\ EntriesOf(rec'[o]) \subseteq S
    BY <1>2, <1>9, <1>10, Zenon DEF S
  <2>3. ASSUME PutsAreExact' PROVE /\ \A e \in EntriesOf(snap'[p]) : Holds(rec'[p], e)
                                   /\ \A e \in EntriesOf(snap'[o]) : Holds(rec'[o], e)
    BY <1>2, <1>9, <1>10, <1>11, <2>3, EntriesOfTyped, Zenon
  <2> QED
    BY <1>2, <2>1, <2>2, <2>3, Zenon DEF TablesInv, S
<1>15. PartsInv'
  BY <1>1, <1>2, <1>9, Zenon DEF PartsIn, V, o, PartsInv, B
<1>16. CoverInv'
  <2> SUFFICES ASSUME PutsAreExact'
               PROVE  Cover(Served(to), Served(Peer(to)), rec[to], rec[Peer(to)],
                            gate[to], gate[Peer(to)], PartsIn(net))'
    BY Zenon DEF CoverInv
  <2>1. (\A e \in V : Holds(rec[p], e)) /\ (\A e \in W : Holds(rec[o], e))
    BY <1>2, <1>4, Zenon
  <2>2. Cover(V, W, rec[p], rec[o], gate[p], gate[o], PartsIn(net))
    BY Zenon DEF V, W, o
  <2>3. EntriesOf(rec[p]) \subseteq S /\ \A i \in 1 .. Len(net) : net[i] \in Good(W, B)
    BY Zenon DEF S, W, B, o
  <2>4. Cover(W, V, rec[o], res.rec, gate[o], gate[p], PartsIn(res.out))
    BY <1>3, <1>5, <1>6, <1>7, <1>11, <2>1, <2>2, <2>3, RoundCovers, Zenon DEF res
  <2>5. /\ Served(to)' = W /\ Served(Peer(to))' = V /\ to' = o
        /\ Peer(to') = p /\ (rec[to])' = rec[o] /\ (rec[Peer(to)])' = res.rec
        /\ (gate[to])' = gate[o] /\ (gate[Peer(to)])' = gate[p] /\ net' = res.out
    BY <1>1, <1>2, <1>10, Zenon DEF V, W, o
  <2> QED
    BY <2>4, <2>5, Zenon
<1> QED
  BY <1>12, <1>13, <1>14, <1>15, <1>16, Zenon DEF SessionInv

LEMMA AcceptKeeps ==
    ASSUME Contract,
           SessionInv, AcceptInit
    PROVE  SessionInv'
<1>1. /\ phase = "init" /\ snap' = [snap EXCEPT !["Bob"] = rec["Bob"]]
      /\ sync_process_message("Bob", SessionStore(rec["Bob"], admits["Bob"]))
      /\ admits' = admits /\ writes' = writes
  BY Zenon DEF AcceptInit, sync_process_message
<1>2. "Alice" \in Sides /\ "Bob" \in Sides /\ Peer("Bob") = "Alice" /\ Sides = {"Alice", "Bob"}
  BY Zenon DEF Sides, Peer
<1>3. /\ SessionTyped /\ to = "Bob" /\ \A i \in Bounds : Asks(PartsIn(net), i)
      /\ snap["Bob"] = NoTable
  BY <1>1, <1>2, Zenon DEF SessionInv, StagesInv, Opened
<1>4. /\ rec["Bob"] \in RecordTables /\ snap' \in [Sides -> RecordTables]
      /\ snap'["Bob"] = rec["Bob"] /\ snap'["Alice"] = snap["Alice"]
  BY <1>1, <1>2, <1>3, Zenon DEF SessionTyped, TypeOK
<1>5. /\ Served("Bob")' = SessionStore(rec["Bob"], admits["Bob"])
      /\ Served("Alice")' = Served("Alice")
  BY <1>1, <1>4, Zenon DEF Served, SessionStore
<1>6. Served("Bob") = {}
  BY <1>3, NoTableIsEmpty, Zenon DEF Served
<1>7. Revealed \subseteq Revealed'
  BY <1>5, <1>6, Zenon DEF Revealed
<1>8. \A i \in 1 .. Len(net) : net[i] \in Good(Served("Alice")', Revealed')
  BY <1>2, <1>3, <1>5, <1>7, Zenon DEF SessionInv, PartsInv, Good
<1>9. InPlay' = EntriesOf(snap["Alice"]) \cup EntriesOf(rec["Bob"])
                   \cup (IF writes = 0 THEN {} ELSE Writes)
  BY <1>1, <1>4, Zenon DEF InPlay
<1>10. InPlay \subseteq InPlay'
  BY <1>3, <1>9, NoTableIsEmpty, Zenon DEF InPlay
<1>11. PutsAreExact' => PutsAreExact
  BY <1>10, FewerExact, PutsExact, Zenon DEF PutsAreExact, Exact
<1>12. EntriesOf(rec["Alice"]) \subseteq InPlay
  BY <1>1, <1>2, Zenon DEF SessionInv, TablesInv, Opened
<1>13. \A e \in EntriesOf(rec["Bob"]) : Holds(rec["Bob"], e)
  BY <1>4, EntriesOfTyped, Zenon DEF Holds, Contract, SupersedesOrder
<1>14. \A s \in Sides : /\ Pruned(rec[s])
                        /\ EntriesOf(rec[s]) \subseteq InPlay'
                        /\ PutsAreExact' => \A e \in EntriesOf(snap'[s]) : Holds(rec[s], e)
  BY <1>2, <1>4, <1>9, <1>10, <1>11, <1>12, <1>13, Zenon DEF SessionInv, TablesInv
<1>15. Cover(Served("Bob")', Served("Alice")', rec["Bob"], rec["Alice"],
             gate["Bob"], gate["Alice"], PartsIn(net))
  <2>1. IsView(Served("Alice")) /\ IsView(Served("Bob")')
    BY <1>2, <1>3, <1>4, <1>5, ServedIsView, Zenon DEF SessionStore, Contract, Views
  <2>2. \A e \in Served("Bob")' : Asks(PartsIn(net), e.id)
    BY <1>3, <2>1, InView, Zenon
  <2>3. \A e \in Served("Alice")' : Carries(PartsIn(net), e)
    <3>1. PartsIn(net) \subseteq Good(Served("Alice"), Revealed)
      BY <1>2, <1>3, Zenon DEF SessionInv, PartsInv, PartsIn
    <3>2. \A e \in Served("Alice") : Asks(PartsIn(net), e.id)
      BY <1>3, <2>1, InView, Zenon
    <3> QED
      BY <1>5, <3>1, <3>2, AskedIsCarried, Zenon
  <2> QED
    BY <2>2, <2>3, Zenon DEF Cover
<1> QED
  BY <1>1, <1>2, <1>3, <1>4, <1>5, <1>8, <1>14, <1>15, ProcessKeeps, Zenon

LEMMA RoundKeeps ==
    ASSUME Contract,
           SessionInv, Round
    PROVE  SessionInv'
<1>1. /\ phase = "running" /\ snap' = snap /\ sync_process_message(to, View(to))
      /\ admits' = admits /\ writes' = writes
  BY Zenon DEF Round, sync_process_message
<1>2. SessionTyped /\ to \in Sides /\ snap \in [Sides -> RecordTables]
  BY Zenon DEF SessionInv, SessionTyped, TypeOK
<1> DEFINE p == to
           o == Peer(to)
<1>3. /\ {e \in EntriesOf(snap'[p]) : e.id \in admits'[p]} = Served(p)
      /\ {e \in EntriesOf(snap'[o]) : e.id \in admits'[o]} = Served(o)
  BY <1>1, Zenon DEF Served
<1>4. View(p) = Served(p)
  BY <1>2, ServedIsView, Zenon
<1>5. Revealed' = Revealed /\ InPlay' = InPlay
  BY <1>1, Zenon DEF Revealed, Served, InPlay
<1>6. PutsAreExact' <=> PutsAreExact
  BY <1>5, Zenon DEF PutsAreExact
<1>7. \A s \in Sides : /\ Pruned(rec[s])
                       /\ EntriesOf(rec[s]) \subseteq InPlay'
                       /\ PutsAreExact' => \A e \in EntriesOf(snap'[s]) : Holds(rec[s], e)
  BY <1>1, <1>5, <1>6, Zenon DEF SessionInv, TablesInv, Opened
<1>8. \A i \in 1 .. Len(net) : net[i] \in Good(Served(o), Revealed)
  BY Zenon DEF SessionInv, PartsInv
<1>9. PutsAreExact' => Cover(Served(p), Served(o), rec[p], rec[o], gate[p], gate[o], PartsIn(net))
  BY <1>1, <1>6, Zenon DEF SessionInv, CoverInv
<1> HIDE DEF p, o
<1>10. ASSUME NEW q \in Sides, q = p PROVE SessionInv'
  <2>1. Peer(q) = o /\ q = to
    BY <1>10, Zenon DEF o, p
  <2>2. Served(q)' = Served(p) /\ Served(Peer(q))' = Served(o)
    BY <1>3, <1>10, <2>1, Zenon DEF Served
  <2>3. sync_process_message(q, Served(q)')
    BY <1>1, <1>4, <1>10, <2>2, Zenon DEF p
  <2>4. \A i \in 1 .. Len(net) : net[i] \in Good(Served(Peer(q))', Revealed')
    BY <1>5, <1>8, <2>2, Zenon
  <2>5. PutsAreExact' => Cover(Served(q)', Served(Peer(q))', rec[q], rec[Peer(q)],
                               gate[q], gate[Peer(q)], PartsIn(net))
    BY <1>9, <1>10, <2>1, <2>2, Zenon
  <2> QED
    BY <1>1, <1>2, <1>7, <2>1, <2>3, <2>4, <2>5, ProcessKeeps, Zenon
<1> QED
  BY <1>2, <1>10, Zenon DEF p

LEMMA WriteKeeps ==
    ASSUME Contract,
           SessionInv, NEW p \in Sides, NEW e \in Writes, LocalWrite(p, e)
    PROVE  SessionInv'
<1>1. /\ phase # "done" /\ writes < quota
      /\ rec' = [rec EXCEPT ![p] = put(rec[p], e.id, e.r)] /\ writes' = writes + 1
      /\ snap' = snap /\ phase' = phase /\ to' = to /\ net' = net /\ observed' = observed
      /\ admits' = admits /\ gate' = gate /\ quota' = quota /\ rounds' = rounds
  BY Zenon DEF LocalWrite
<1>2. e \in Entry
  BY ReconcileAssumption, Zenon
<1>3. /\ SessionTyped /\ rec \in [Sides -> RecordTables] /\ rec[p] \in RecordTables
      /\ writes \in Nat /\ writes \in 0 .. quota /\ quota \in Nat
      /\ snap \in [Sides -> RecordTables]
  BY DEF SessionInv, SessionTyped, TypeOK
<1> DEFINE u == put(rec[p], e.id, e.r)
<1>4. /\ u \in RecordTables /\ EntriesOf(u) \subseteq EntriesOf(rec[p]) \cup {e}
      /\ Pruned(rec[p]) => Pruned(u)
  BY <1>2, <1>3, Zenon DEF Contract, PutTyped
<1>5. /\ rec'[p] = u /\ \A s \in Sides : s # p => rec'[s] = rec[s]
  BY <1>1, <1>3, Zenon
<1> HIDE DEF u
<1>6. rec' \in [Sides -> RecordTables]
  BY <1>1, <1>3, <1>4, Zenon DEF u
<1>7. InPlay' = EntriesOf(snap["Alice"]) \cup EntriesOf(snap["Bob"]) \cup Writes
  BY <1>1, <1>3 DEF InPlay
<1>8. InPlay \subseteq InPlay' /\ e \in InPlay'
  BY <1>7, Zenon DEF InPlay
<1>9. PutsAreExact' => PutsAreExact /\ Exact(InPlay')
  BY <1>8, FewerExact, PutsExact, Zenon DEF PutsAreExact, Exact
<1>10. Served("Alice")' = Served("Alice") /\ Served("Bob")' = Served("Bob") /\ Revealed' = Revealed
  BY <1>1, Zenon DEF Served, Revealed
<1>11. \A s \in Sides : Opened(s)' <=> Opened(s)
  BY <1>1, Zenon DEF Opened
\* What a table of an open session holds, it still holds.
<1>12. ASSUME PutsAreExact', NEW s \in Sides, Opened(s), NEW g \in Entry, Holds(rec[s], g)
       PROVE  Holds(rec'[s], g)
  <2>1. CASE s = p
    <3>1. EntriesOf(rec[p]) \subseteq InPlay'
      BY <1>8, <1>12, <2>1, Zenon DEF SessionInv, TablesInv
    <3>2. Exact(InPlay')
      BY <1>9, <1>12, Zenon
    <3>3. Holds(u, g)
      BY <1>2, <1>3, <1>8, <1>12, <2>1, <3>1, <3>2, Zenon DEF u, Contract, PutKeeps
    <3> QED
      BY <1>5, <2>1, <3>3, Zenon
  <2>2. CASE s # p
    BY <1>5, <1>12, <2>2, Zenon
  <2> QED
    BY <2>1, <2>2, Zenon
<1>13. SessionTyped'
  BY <1>1, <1>6 DEF SessionInv, SessionTyped, TypeOK
<1>14. StagesInv'
  BY <1>1, <1>11, Zenon DEF SessionInv, StagesInv
<1>15. TablesInv'
  <2> SUFFICES ASSUME NEW s \in Sides
               PROVE  /\ Pruned(rec'[s])
                      /\ Opened(s) => EntriesOf(rec'[s]) \subseteq InPlay'
                      /\ PutsAreExact' => \A g \in EntriesOf(snap[s]) : Holds(rec'[s], g)
    BY <1>1, <1>11, Zenon DEF TablesInv
  <2>1. Pruned(rec'[s])
    BY <1>4, <1>5, Zenon DEF SessionInv, TablesInv
  <2>2. Opened(s) => EntriesOf(rec'[s]) \subseteq InPlay'
    BY <1>4, <1>5, <1>8, Zenon DEF SessionInv, TablesInv
  <2>3. ASSUME PutsAreExact', NEW g \in EntriesOf(snap[s]) PROVE Holds(rec'[s], g)
    BY <1>3, <1>9, <1>12, <2>3, NoTableIsEmpty, EntriesOfTyped, Zenon
       DEF SessionInv, StagesInv, TablesInv
  <2> QED
    BY <2>1, <2>2, <2>3, Zenon
<1>16. PartsInv'
  BY <1>1, <1>10, Zenon DEF Served, SessionInv, PartsInv
<1>17. CoverInv'
  <2> SUFFICES ASSUME phase = "running", PutsAreExact'
               PROVE  Cover(Served(to), Served(Peer(to)), rec[to], rec[Peer(to)],
                            gate[to], gate[Peer(to)], PartsIn(net))'
    BY <1>1, Zenon DEF CoverInv
  <2> DEFINE o == Peer(to)
  <2>1. to \in Sides /\ o \in Sides
    BY <1>3, PeerIsSide, Zenon DEF SessionTyped, TypeOK
  <2>2. Opened(to) /\ Opened(o)
    BY Zenon DEF Opened
  <2>3. Cover(Served(to), Served(o), rec[to], rec[o], gate[to], gate[o], PartsIn(net))
    BY <1>9, Zenon DEF SessionInv, CoverInv
  <2>4. IsView(Served(to)) /\ IsView(Served(o))
    BY <1>3, <2>1, ServedIsView, Zenon
  <2> HIDE DEF o
  <2>5. \A g \in Entry : /\ Holds(rec[to], g) => Holds(rec'[to], g)
                         /\ Holds(rec[o], g) => Holds(rec'[o], g)
    BY <1>12, <2>1, <2>2, Zenon
  <2>6. Cover(Served(to), Served(o), rec'[to], rec'[o], gate[to], gate[o], PartsIn(net))
    BY <2>3, <2>4, <2>5, Zenon DEF IsView, Cover
  <2>7. /\ Served(to)' = Served(to) /\ Served(Peer(to))' = Served(o) /\ to' = to
        /\ Peer(to') = o /\ (rec[to])' = rec'[to] /\ (rec[Peer(to)])' = rec'[o]
        /\ (gate[to])' = gate[to] /\ (gate[Peer(to)])' = gate[o] /\ net' = net
    BY <1>1, Zenon DEF Served, o
  <2> QED
    BY <2>6, <2>7, Zenon
<1> QED
  BY <1>13, <1>14, <1>15, <1>16, <1>17, Zenon DEF SessionInv

LEMMA UnchangedKeeps ==
    ASSUME SessionInv, UNCHANGED vars
    PROVE  SessionInv'
<1>1. /\ rec' = rec /\ snap' = snap /\ phase' = phase /\ to' = to /\ net' = net
      /\ observed' = observed /\ writes' = writes /\ admits' = admits /\ gate' = gate
      /\ quota' = quota /\ rounds' = rounds
  BY Zenon DEF vars
<1>2. SessionTyped' <=> SessionTyped
  BY <1>1, Zenon DEF SessionTyped, TypeOK
<1>3. StagesInv' <=> StagesInv
  BY <1>1, Zenon DEF StagesInv, Opened
<1>4. InPlay' = InPlay /\ (PutsAreExact' <=> PutsAreExact)
  BY <1>1, Zenon DEF InPlay, PutsAreExact
<1>5. TablesInv' <=> TablesInv
  BY <1>1, <1>4, Zenon DEF TablesInv, Opened
<1>6. Served(to)' = Served(to) /\ Served(Peer(to))' = Served(Peer(to)) /\ Revealed' = Revealed
  BY <1>1, Zenon DEF Served, Revealed
<1>7. PartsInv' <=> PartsInv
  BY <1>1, <1>6, Zenon DEF PartsInv
<1>8. CoverInv' <=> CoverInv
  BY <1>1, <1>4, <1>6, Zenon DEF CoverInv
<1> QED
  BY <1>2, <1>3, <1>5, <1>7, <1>8, Zenon DEF SessionInv

-----------------------------------------------------------------------------
(* The results                                                             *)

\* Every step of a session, local writes included, keeps the invariant.
LEMMA SessionInvariant == Spec => []SessionInv
<1>1. Init => SessionInv
  BY InitialState, Zenon
<1>2. SessionInv /\ [Next]_vars => SessionInv'
  <2> SUFFICES ASSUME SessionInv, [Next]_vars PROVE SessionInv'
    BY Zenon
  <2>1. CASE sync_initial_message
    BY <2>1, InitMessage, ContractMet, Zenon
  <2>2. CASE AcceptInit
    BY <2>2, AcceptKeeps, ContractMet, Zenon
  <2>3. CASE Round
    BY <2>3, RoundKeeps, ContractMet, Zenon
  <2>4. ASSUME NEW p \in Sides, NEW e \in Writes, LocalWrite(p, e) PROVE SessionInv'
    BY <2>4, WriteKeeps, ContractMet, Zenon
  <2>5. CASE UNCHANGED vars
    BY <2>5, UnchangedKeeps, Zenon
  <2> QED
    BY <2>1, <2>2, <2>3, <2>4, <2>5, Zenon DEF Next
<1> QED
  BY <1>1, <1>2, PTL DEF Spec

\* The records tables, the snapshots and the messages of a session are well formed
\* whatever the two sides store, write meanwhile, filter and refuse.
THEOREM SessionTypes == Spec => []TypeOK
<1>1. SessionInv => TypeOK
  BY Zenon DEF SessionInv, SessionTyped
<1> QED
  BY <1>1, SessionInvariant, PTL

\* process_message answers with nothing but the view of the session (sync.rs:608):
\* values and fingerprints of entries that the sender's filter admits, as they were
\* when its session was opened, in ranges bounded by ids one of the sides may reveal.
THEOREM NothingElseIsRevealed == Spec => []OnlyTheViewIsSent
<1>1. SessionInv => OnlyTheViewIsSent
  <2> SUFFICES ASSUME SessionInv, NEW i \in DOMAIN net
               PROVE  /\ Content(net[i]) \subseteq Served(Peer(to))
                      /\ Boundaries(net[i]) \subseteq Revealed
    BY Zenon DEF OnlyTheViewIsSent, Revealed
  <2>1. net \in Seq(Parts)
    BY Zenon DEF SessionInv, SessionTyped, TypeOK
  <2>2. i \in 1 .. Len(net)
    OBVIOUS
  <2>3. net[i] \in Good(Served(Peer(to)), Revealed)
    BY <2>2, Zenon DEF SessionInv, PartsInv
  <2>4. net[i] \in Parts
    BY <2>3, Zenon DEF Good
  <2>5. net[i].t \in {"Fingerprint", "Item", "Rejected"}
    BY <2>4, Zenon DEF Parts, FingerprintParts, ItemParts, RejectedParts
  <2>6. Boundaries(net[i]) \subseteq Revealed
    BY <2>3, Zenon DEF Good, Boundaries
  <2>7. Content(net[i]) \subseteq Served(Peer(to))
    <3>1. CASE net[i].t = "Fingerprint"
      BY <2>3, <3>1, Zenon DEF Good, get_range, Content
    <3>2. CASE net[i].t = "Item"
      BY <2>3, <3>2, Zenon DEF Good, get_range, Content
    <3>3. CASE net[i].t = "Rejected"
      BY <3>3, Zenon DEF Content
    <3> QED
      BY <2>5, <3>1, <3>2, <3>3, Zenon
  <2> QED
    BY <2>6, <2>7, Zenon
<1> QED
  BY <1>1, SessionInvariant, PTL

\* The assertion of process_message behind termination (ranger.rs:601), for every
\* split_factor of at least 2: a range that is split falls into at least two parts
\* that are not empty.
THEOREM SplitsMakeProgress == Spec => []SplitsAreProper
<1>1. SessionInv => SplitsAreProper
  <2> SUFFICES ASSUME SessionInv, NEW i \in DOMAIN net, net[i].t = "Fingerprint"
               PROVE  SplitIsProper(View(to), net[i])
    BY Zenon DEF SplitsAreProper
  <2>1. net \in Seq(Parts) /\ to \in Sides /\ SessionTyped
    BY Zenon DEF SessionInv, SessionTyped, TypeOK
  <2>2. i \in 1 .. Len(net)
    OBVIOUS
  <2>3. net[i].x \in Bounds /\ net[i].y \in Bounds
    BY <2>2, Zenon DEF SessionInv, PartsInv, Good
  <2>4. IsView(View(to))
    BY <2>1, ServedIsView, ContractMet, Zenon
  <2>5. ASSUME Recurses(get_range(View(to), net[i].x, net[i].y), net[i])
        PROVE  Cardinality(NonEmpty(View(to),
                   Split(get_range(View(to), net[i].x, net[i].y), net[i].x, net[i].y))) > 1
    BY <2>3, <2>4, <2>5, SplitProper, Zenon DEF Recurses
  <2> QED
    BY <2>5, Zenon DEF SplitIsProper
<1> QED
  BY <1>1, SessionInvariant, PTL

\* When a session is over, what one side held back from nobody and the other side
\* accepts is in the other's store, or superseded there: no range, item or
\* difference that process_message handles is dropped, for any split_factor,
\* max_set_size, filters, validators and local writes meanwhile.
THEOREM EntriesArrive == Spec => []ServedEntriesArrive
<1>1. SessionInv => ServedEntriesArrive
  <2> SUFFICES ASSUME SessionInv, phase = "done", PutsAreExact, NEW p \in Sides,
                      NEW e \in Served(p), gate[Peer(p)][e.id] = "Accept"
               PROVE  Holds(rec[Peer(p)], e)
    BY Zenon DEF ServedEntriesArrive, Holds
  <2>1. to \in Sides
    BY Zenon DEF SessionInv, SessionTyped, TypeOK
  <2>2. PartsIn(net) = {}
    BY DEF SessionInv, StagesInv, PartsIn
  <2>3. Cover(Served(to), Served(Peer(to)), rec[to], rec[Peer(to)],
              gate[to], gate[Peer(to)], {})
    BY <2>2, Zenon DEF SessionInv, CoverInv
  <2>4. ~ Carries({}, e) /\ ~ Asks({}, e.id)
    BY Zenon DEF Carries, Asks
  <2>5. p = to \/ (p = Peer(to) /\ Peer(p) = to)
    BY <2>1, PeerIsSide, Zenon
  <2> QED
    BY <2>3, <2>4, <2>5, Zenon DEF Cover
<1> QED
  BY <1>1, SessionInvariant, PTL

\* Two entries of a table whose older one would_insert could see do not supersede
\* each other.
LEMMA PrunedShadowsNothing ==
    ASSUME NEW t \in RecordTables, Pruned(t), NEW f \in EntriesOf(t), NEW e \in EntriesOf(t),
           Visible(f), Supersedes(f, e)
    PROVE  f = e
<1>1. /\ f \in Entry /\ t[f.id] = f.r /\ f.id \in Ids /\ f.r \in Records /\ f.r # NoRecord
      /\ e \in Entry /\ t[e.id] = e.r /\ e.id \in Ids /\ e.r \in Records /\ e.r # NoRecord
  BY EntriesOfTyped, Zenon
<1>2. CASE f.id = e.id
  BY <1>1, <1>2 DEF Entry
<1>3. CASE f.id # e.id
  BY <1>1, <1>3, RecordOrder, Zenon DEF Pruned, Visible, Supersedes, Present
<1> QED
  BY <1>2, <1>3, Zenon

\* A plain session is a merge: both stores end with the entries of the two that
\* nothing supersedes, by the rule of would_insert (ranger.rs:642).
THEOREM SessionsMerge == Spec => []DoneMeansMerged
<1>1. SessionInv /\ ServedEntriesArrive => DoneMeansMerged
  <2> DEFINE U == EntriesOf(snap["Alice"]) \cup EntriesOf(snap["Bob"])
  <2> SUFFICES ASSUME SessionInv, ServedEntriesArrive, phase = "done", Plain, NEW p \in Sides
               PROVE  EntriesOf(rec[p]) = MergeOf(U)
    BY Zenon DEF DoneMeansMerged
  <2> DEFINE t == rec[p]
             o == Peer(p)
  <2>1. /\ t \in RecordTables /\ snap[p] \in RecordTables /\ o \in Sides /\ Peer(o) = p
        /\ Sides = {p, o} /\ snap[o] \in RecordTables
    BY PeerIsSide, Zenon DEF SessionInv, SessionTyped, TypeOK
  <2>2. Pruned(t) /\ EntriesOf(t) \subseteq U /\ \A e \in EntriesOf(snap[p]) : Holds(t, e)
    BY Zenon DEF InPlay, Plain, Opened, SessionInv, TablesInv
  <2>3. U = EntriesOf(snap[p]) \cup EntriesOf(snap[o])
    BY <2>1, Zenon DEF Sides
  <2>4. \A e \in U : e \in Entry /\ Visible(e) /\ e.id \in Ids
    BY <2>1, <2>3, EntriesOfTyped, Zenon DEF Plain
  <2>5. \A e \in EntriesOf(snap[o]) : Holds(t, e)
    <3> SUFFICES ASSUME NEW e \in EntriesOf(snap[o]) PROVE Holds(t, e)
      BY Zenon
    <3>1. e \in Served(o) /\ gate[p][e.id] = "Accept"
      BY <2>1, <2>3, <2>4 DEF Plain, Served
    <3> QED
      BY <2>1, <3>1, Zenon DEF ServedEntriesArrive, Holds, Plain
  <2>6. \A e \in U : Holds(t, e)
    BY <2>2, <2>3, <2>5, Zenon
  <2> HIDE DEF U, t
  <2>7. ASSUME NEW e \in EntriesOf(t) PROVE e \in MergeOf(U)
    <3> SUFFICES ASSUME NEW f \in U \ {e}, Supersedes(f, e) PROVE FALSE
      BY <2>2, Zenon DEF MergeOf
    <3>1. PICK h \in EntriesOf(t) : Supersedes(h, f)
      BY <2>6, Zenon DEF Holds
    <3>2. e \in Entry /\ f \in Entry /\ h \in Entry /\ Visible(h)
      BY <2>2, <2>4, Zenon
    <3>3. Supersedes(h, e)
      BY <3>1, <3>2, SupersedesIsOrder, Zenon
    <3>4. h = e
      BY <2>1, <2>2, <3>2, <3>3, PrunedShadowsNothing, Zenon DEF t
    <3>5. f = e
      BY <3>1, <3>2, <3>4, SupersedesIsOrder, Zenon
    <3> QED
      BY <3>5, Zenon
  <2>8. ASSUME NEW e \in MergeOf(U) PROVE e \in EntriesOf(t)
    <3>1. e \in U /\ \A f \in U \ {e} : ~ Supersedes(f, e)
      BY Zenon DEF MergeOf
    <3>2. PICK f \in EntriesOf(t) : Supersedes(f, e)
      BY <2>6, <3>1, Zenon DEF Holds
    <3>3. f = e
      BY <2>2, <3>1, <3>2, Zenon
    <3> QED
      BY <3>3, Zenon
  <2> QED
    BY <2>7, <2>8, Zenon DEF t
<1> QED
  BY <1>1, SessionInvariant, EntriesArrive, PTL
=============================================================================
