---------------------------- MODULE MessageFifo ----------------------------
(***************************************************************************)
(* What a residc stream promises its two applications: the messages the    *)
(* encoder accepts reach the other side complete, unchanged (but for the   *)
(* computed fields, which it fills in itself) and in order.                *)
(***************************************************************************)
EXTENDS Sequences, Naturals

CONSTANTS
    Messages,   \* the messages an application sends
    Received(_) \* a message as the receiving side sees it

VARIABLES
    sent,       \* messages accepted by the encoder
    received    \* messages handed out by the decoder

vars == <<sent, received>>

Init ==
    /\ sent = << >>
    /\ received = << >>

Send(m) ==
    /\ sent' = Append(sent, m)
    /\ UNCHANGED received

Receive ==
    /\ Len(received) < Len(sent)
    /\ received' = Append(received, Received(sent[Len(received) + 1]))
    /\ UNCHANGED sent

Next ==
    \/ \E m \in Messages : Send(m)
    \/ Receive

\* What is in transit arrives.
Spec == Init /\ [][Next]_vars /\ WF_vars(Receive)
=============================================================================
