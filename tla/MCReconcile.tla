---------------------------- MODULE MCReconcile ----------------------------
(* Instances of Reconcile for TLC.                                         *)
EXTENDS Reconcile

\* Two pairs of a key and one under it, and one more.
FiveKeys == {<<0>>, <<0, 1>>, <<1>>, <<1, 0>>, <<2>>}

AllAccepted == {[id \in Ids |-> "Accept"]}

UnderPrefix == {id \in Ids : IsPrefixOf(<<0>>, id[2])}

\* The ids the sessions with filters and refusals are about.
FewIds == {id \in Ids : id[2] \in {<<0>>, <<0, 1>>, <<1>>}}

\* Every table a sequence of accepted writes leads to.
MergedTables == {t \in RecordTables : MergeOf(EntriesOf(t)) = EntriesOf(t)}

\* Any two stores without tombstones, undisturbed.
PlainSession ==
    [stored  |-> {t \in MergedTables : \A i \in Ids : Present(t, i) => ~ IsEmpty(t[i])},
     filters |-> {Ids},
     gates   |-> AllAccepted,
     quota   |-> 0]

\* Entries of one time on three ids, tombstones too.  A filter admits everything,
\* what is under a prefix, or only a part of it; a validator accepts everything, or
\* drops or refuses what is under the prefix; there is a write meanwhile.
ScopedSession ==
    [stored  |-> {t \in MergedTables :
                     \A i \in Ids : Present(t, i) => i \in FewIds /\ t[i].ts = 1},
     filters |-> {Ids, UnderPrefix, {id \in Ids : id[2] # <<0>>}},
     gates   |-> AllAccepted \cup
                 {[id \in Ids |-> IF id \in UnderPrefix THEN v ELSE "Accept"] :
                     v \in {"Drop", "Reject"}},
     quota   |-> 1]

BothKinds == {PlainSession, ScopedSession}

FewWrites == {e \in Entry : e.id \in FewIds /\ e.r.ts = 1}
=============================================================================
