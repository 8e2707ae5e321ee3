------------------------------- MODULE Channel -------------------------------
(***************************************************************************)
(* What a bounded channel promises, without locks, wakeups or threads: a   *)
(* message is accepted at most while the channel is open and has room, and *)
(* received in the order of acceptance; closing the sending side lets the  *)
(* receiver drain, closing the receiving side cuts the stream for good.    *)
(* This is the header comment of native/crates/host/src/channels.rs as a   *)
(* specification.                                                          *)
(***************************************************************************)
EXTENDS Naturals, Sequences

CONSTANTS
    Payloads,       \* what may be sent
    Capacity        \* how many accepted messages may be unreceived

VARIABLES
    sent,           \* the accepted messages, in order
    received,       \* the received messages, in order
    open,           \* may a message still be accepted
    cut             \* were accepted messages discarded

channelVars == <<sent, received, open, cut>>

Init ==
    /\ sent = <<>>
    /\ received = <<>>
    /\ open = TRUE
    /\ cut = FALSE

Send(m) ==
    /\ open
    /\ Len(sent) - Len(received) < Capacity
    /\ sent' = Append(sent, m)
    /\ UNCHANGED <<received, open, cut>>

Receive ==
    /\ ~cut
    /\ Len(received) < Len(sent)
    /\ received' = Append(received, sent[Len(received) + 1])
    /\ UNCHANGED <<sent, open, cut>>

Close ==
    /\ open' = FALSE
    /\ UNCHANGED <<sent, received, cut>>

Discard ==
    /\ open' = FALSE
    /\ cut' = TRUE
    /\ Len(received) < Len(sent)
    /\ UNCHANGED <<sent, received>>

Next == (\E m \in Payloads : Send(m)) \/ Receive \/ Close \/ Discard

Spec == Init /\ [][Next]_channelVars
=============================================================================
