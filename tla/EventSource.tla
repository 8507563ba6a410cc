---------------------------- MODULE EventSource ----------------------------
(***************************************************************************)
(* What a source of events promises the client: the events come in the     *)
(* order in which the master sent them, none left out, none after the      *)
(* source has returned NULL.  The code adds one thing a reader may not     *)
(* expect: the last event may be torn, cut short by the end of the stream. *)
(***************************************************************************)
EXTENDS Naturals, Sequences

VARIABLES
    sent,   \* events the master has sent
    got,    \* events the source has handed on, whole
    torn,   \* the source has handed on an event that was cut short
    over    \* the source has returned NULL

Init == sent = <<>> /\ got = <<>> /\ torn = FALSE /\ over = FALSE

Send == /\ Len(sent') = Len(sent) + 1
        /\ \A i \in 1 .. Len(sent) : sent'[i] = sent[i]
        /\ UNCHANGED <<got, torn, over>>
Hand == /\ ~torn /\ ~over
        /\ Len(got) < Len(sent)
        /\ got' = Append(got, sent[Len(got) + 1])
        /\ UNCHANGED <<sent, torn, over>>
Tear == /\ ~torn /\ ~over
        /\ Len(got) < Len(sent)
        /\ torn' = TRUE
        /\ UNCHANGED <<sent, got, over>>
Stop == over' = TRUE /\ UNCHANGED <<sent, got, torn>>

Next == Send \/ Hand \/ Tear \/ Stop

Spec == Init /\ [][Next]_<<sent, got, torn, over>>
=============================================================================
