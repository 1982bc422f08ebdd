------------------------------- MODULE MCNode -------------------------------
(* Node on four kinds of store file and the query shapes that take        *)
(* different paths through the index choice and the iterator.             *)
EXTENDS Node

\* A key, a key below it, and one beside them.
ThreeKeys == {<<0>>, <<0, 1>>, <<1>>}

Row(a, k, t, h) == <<a, k>> :> [ts |-> t, hash |-> h]

\* Two authors under one key, a tombstone, and a key of one author only.
SomeRecords ==
    Row(1, <<0>>, 1, 1) @@ Row(2, <<0>>, 2, 1) @@ Row(2, <<0, 1>>, 2, 0) @@ Row(1, <<1>>, 1, 1)
        @@ EmptyFile.records

\* Equal timestamps under one key.
TiedRecords ==
    Row(1, <<1>>, 1, 1) @@ Row(2, <<1>>, 1, 1) @@ Row(1, <<0, 1>>, 1, 0) @@ EmptyFile.records

\* A file of this version; superseded entries left index rows behind, and author
\* 2 was last stored with an older entry.
CurrentFile ==
    [EmptyFile EXCEPT !.tables = TableNames \ {"namespaces-1"},
                      !.records = Row(2, <<1>>, 1, 1) @@ SomeRecords,
                      !.latest = [a \in Authors |-> 1],
                      !.by_key = Ids, !.namespaces_2 = "write", !.authors = {1}]

\* A file of redb 2 with every table.
TupleFile ==
    [EmptyFile EXCEPT !.format = "tuples", !.tables = TableNames \ {"namespaces-1"},
                      !.records = TiedRecords,
                      !.latest = [a \in Authors |-> Newest(TiedRecords, a)],
                      !.by_key = {<<1, <<1>>>>, <<2, <<1>>>>, <<1, <<0, 1>>>>},
                      !.namespaces_2 = "write", !.authors = {1}, !.peers = Peers]

\* A file from before the latest table, the second namespaces table and the index.
OldestFile ==
    [EmptyFile EXCEPT !.format = "tuples", !.tables = {"records", "namespaces-1", "authors"},
                      !.records = SomeRecords, !.namespaces_1 = "write", !.authors = {1}]

SomeFiles == {NoFile, CurrentFile, TupleFile, OldestFile}

All == NoQuery
AnyKey == [kind |-> "any", bytes |-> << >>]
Under0 == [kind |-> "prefix", bytes |-> <<0>>]
Only1  == [kind |-> "exact", bytes |-> <<1>>]

SomeQueries ==
    {All,
     [All EXCEPT !.include_empty = TRUE, !.descending = TRUE, !.offset = 1],
     [All EXCEPT !.by_key = TRUE, !.key = Under0],
     [All EXCEPT !.by_key = TRUE, !.descending = TRUE, !.offset = 1, !.limit = 1],
     [All EXCEPT !.author = {1}, !.by_key = TRUE, !.key = Under0, !.include_empty = TRUE],
     [All EXCEPT !.key = Only1, !.limit = 0],
     [All EXCEPT !.latest = TRUE],
     [All EXCEPT !.latest = TRUE, !.key = Under0, !.include_empty = TRUE, !.limit = 1],
     [All EXCEPT !.latest = TRUE, !.descending = TRUE, !.author = {2}, !.offset = 1],
     [All EXCEPT !.latest = TRUE, !.key = Only1]}

\* No key of the model lies between a prefix asked for and its upper bound
\* without extending the prefix.
ASSUME PrefixesAreExact
=============================================================================
