-------------------------- MODULE MessageDelivery --------------------------
(***************************************************************************)
(* What a message layer over a report channel promises: a channel has at   *)
(* most one message under way; it is delivered whole and once, on its own  *)
(* channel, or it is dropped; and nothing else is ever delivered.          *)
(***************************************************************************)
EXTENDS Naturals

CONSTANTS
    Cids,       \* channels
    Messages,   \* messages, each with its channel and its number there
    None

VARIABLES
    begun,        \* per channel: messages begun
    outstanding,  \* per channel: the message under way, or None
    delivered     \* channel and message delivered last, or None

vars == <<begun, outstanding, delivered>>

Init ==
    /\ begun = [c \in Cids |-> 0]
    /\ outstanding = [c \in Cids |-> None]
    /\ delivered = None

Begin(c, m) ==
    /\ m.cid = c /\ m.no = begun[c] + 1
    /\ begun' = [begun EXCEPT ![c] = m.no]

\* A new message takes the place of one under way.
Send(c, m) ==
    /\ Begin(c, m)
    /\ outstanding' = [outstanding EXCEPT ![c] = m]
    /\ UNCHANGED delivered

Deliver(c) ==
    /\ outstanding[c] # None
    /\ delivered' = [cid |-> c, message |-> outstanding[c]]
    /\ outstanding' = [outstanding EXCEPT ![c] = None]
    /\ UNCHANGED begun

\* A message that fits one report is sent and delivered at once.
SendAndDeliver(c, m) ==
    /\ Begin(c, m)
    /\ delivered' = [cid |-> c, message |-> m]
    /\ outstanding' = [outstanding EXCEPT ![c] = None]

\* A message that is too long is refused, and the one under way is dropped with it.
Refuse(c, m) ==
    /\ Begin(c, m)
    /\ outstanding' = [outstanding EXCEPT ![c] = None]
    /\ UNCHANGED delivered

Next ==
    \E c \in Cids :
        \/ \E m \in Messages : Send(c, m) \/ SendAndDeliver(c, m) \/ Refuse(c, m)
        \/ Deliver(c)

Spec == Init /\ [][Next]_vars

=============================================================================
