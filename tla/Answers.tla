------------------------------ MODULE Answers ------------------------------
(***************************************************************************)
(* What Store::get_many promises of a query, without saying how the tables *)
(* are scanned: the stream carries the expected entries, each of them once *)
(* and in order, and ends where the expected sequence ends, unless it is   *)
(* cut off because the store goes away.                                    *)
(***************************************************************************)
EXTENDS Naturals, Sequences

CONSTANT Items      \* what a stream carries: an id and its record

VARIABLES
    phase,      \* "idle", "answering", or how the last stream ended
    expected,   \* the entries the query asks for
    out         \* the entries the stream has carried

Init == phase = "idle" /\ expected = << >> /\ out = << >>

\* The expected answer is fixed when the query is asked.
Ask == /\ phase # "answering"
       /\ phase' = "answering"
       /\ expected' \in Seq(Items)
       /\ out' = << >>

Emit == /\ phase = "answering"
        /\ Len(out) < Len(expected)
        /\ out' = Append(out, expected[Len(out) + 1])
        /\ UNCHANGED <<phase, expected>>

End == /\ phase = "answering"
       /\ out = expected
       /\ phase' = "complete"
       /\ UNCHANGED <<expected, out>>

Cut == /\ phase = "answering"
       /\ phase' = "cut"
       /\ UNCHANGED <<expected, out>>

\* Nothing is kept of a stream that is over.
Forget == /\ phase # "answering"
          /\ Init'

Next == Ask \/ Emit \/ End \/ Cut \/ Forget

Spec == Init /\ [][Next]_<<phase, expected, out>>
=============================================================================
