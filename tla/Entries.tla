------------------------------ MODULE Entries ------------------------------
(***************************************************************************)
(* The entries of one namespace and the rule by which a store takes them   *)
(* in: the order of records, the byte-string ranges the table is scanned   *)
(* by, and the pure effect of ranger::Store::put on the records table.     *)
(*                                                                         *)
(* A key is a sequence of bytes 0..MaxByte, so that prefixes and the bound *)
(* arithmetic of bounds.rs are the real ones at a small radix.  A record is*)
(* a timestamp and a content hash; signatures and the length carry nothing *)
(* the order or the pruning rule looks at.                                 *)
(***************************************************************************)
EXTENDS Integers, Sequences, TLC

CONSTANTS
    Authors,     \* author ids
    Keys,        \* the keys entries are written under
    MaxByte,     \* the largest byte (255 in the code)
    MaxTime,     \* timestamps are 1..MaxTime
    Hashes,      \* content hashes, as integers: Record's order compares them
    EmptyHash    \* Hash::EMPTY, the hash that makes an entry a tombstone

ASSUME EntriesAssumption ==
    /\ MaxByte \in Nat
    /\ Keys \subseteq Seq(0 .. MaxByte)
    /\ MaxTime \in Nat
    /\ Hashes \subseteq Nat
    /\ EmptyHash \in Hashes

-----------------------------------------------------------------------------
(* Records                                                                 *)

Records == [ts : 1 .. MaxTime, hash : Hashes]

\* No record stored under an id.
NoRecord == [ts |-> 0, hash |-> EmptyHash]

RecordLess(r, s) == \/ r.ts < s.ts
                    \/ r.ts = s.ts /\ r.hash < s.hash

RecordLeq(r, s) == r = s \/ RecordLess(r, s)

IsEmpty(r) == r.hash = EmptyHash

Ids == Authors \X Keys

\* The records table restricted to the namespace.
RecordTables == [Ids -> Records \cup {NoRecord}]

Present(rec, id) == rec[id] # NoRecord

-----------------------------------------------------------------------------
(* Byte strings                                                            *)

IsPrefixOf(p, k) == Len(p) <= Len(k) /\ SubSeq(k, 1, Len(p)) = p

KeyLess(j, k) ==
    \/ IsPrefixOf(j, k) /\ j # k
    \/ \E i \in DOMAIN j \cap DOMAIN k :
          j[i] < k[i] /\ \A h \in 1 .. i - 1 : j[h] = k[h]

BelowMax(k) == {i \in DOMAIN k : k[i] # MaxByte}

\* Defined when BelowMax(k) is not empty; the code returns false otherwise.
increment_by_one(k) ==
    LET i == CHOOSE i \in BelowMax(k) : \A j \in BelowMax(k) : j <= i
    IN  [j \in DOMAIN k |-> IF j < i THEN k[j] ELSE IF j = i THEN k[j] + 1 ELSE 0]

\* The keys of one author between the bounds of RecordsBounds::author_prefix.
author_prefix ==
    [p \in Keys |-> {k \in Keys : /\ ~ KeyLess(k, p)
                                  /\ BelowMax(p) # {} => KeyLess(k, increment_by_one(p))}]

\* The keys ParentIterator looks up: the key itself and its prefixes, down to but
\* not including the root.
parents == [k \in Keys |-> {p \in Keys : p # << >> /\ IsPrefixOf(p, k)}]

-----------------------------------------------------------------------------
(* ranger::Store::put over the records table.  An entry is an id and a     *)
(* record.                                                                 *)

\* The entries ParentIterator yields: tombstones are not among them.
prefixes_of(rec, id) ==
    {p \in parents[id[2]] : /\ Present(rec, <<id[1], p>>)
                            /\ ~ IsEmpty(rec[<<id[1], p>>])}

\* Variants that break a property: an older record passes at its own key, and an
\* equal one under a parent.
would_insert_own_key_unchecked(rec, id, r) ==
    \A p \in prefixes_of(rec, id) \ {id[2]} : ~ RecordLeq(r, rec[<<id[1], p>>])

would_insert_equal(rec, id, r) ==
    \A p \in prefixes_of(rec, id) : ~ RecordLess(r, rec[<<id[1], p>>])

would_insert(rec, id, r) ==
    \A p \in prefixes_of(rec, id) : ~ RecordLeq(r, rec[<<id[1], p>>])

\* Variant: only the key itself is cleared.
remove_key_filtered(rec, id, r) ==
    [i \in Ids |-> IF i = id /\ RecordLeq(rec[i], r) THEN NoRecord ELSE rec[i]]

remove_prefix_filtered(rec, id, r) ==
    [i \in Ids |-> IF /\ i[1] = id[1]
                      /\ i[2] \in author_prefix[id[2]]
                      /\ RecordLeq(rec[i], r)
                   THEN NoRecord
                   ELSE rec[i]]

put(rec, id, r) ==
    IF would_insert(rec, id, r)
    THEN [remove_prefix_filtered(rec, id, r) EXCEPT ![id] = r]
    ELSE rec

\* What put leaves behind, for what prefixes_of can see: a live entry under a
\* non-root key is strictly older than every entry whose key extends its key.
Pruned(rec) ==
    \A id \in Ids, child \in Ids :
        (/\ child[1] = id[1]
         /\ id[2] # << >>
         /\ child # id
         /\ IsPrefixOf(id[2], child[2])
         /\ Present(rec, id)
         /\ ~ IsEmpty(rec[id])
         /\ Present(rec, child))
        => RecordLess(rec[id], rec[child])
=============================================================================
