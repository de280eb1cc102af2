------------------------------ MODULE CtapHid ------------------------------
(***************************************************************************)
(* CTAPHID framing: PacketHandler assembles 64-byte reports of several     *)
(* interleaved channels into requests, dispatches them, and allocates      *)
(* channel ids (src/ctaphid.rs, src/hid.rs).                               *)
(*                                                                         *)
(* A request's bytes are represented by the packets that carried them: the *)
(* fragment k of a message is what its k-th packet holds, 0 for the        *)
(* initialization packet.  Lengths are the code's numbers of bytes.  The   *)
(* clients are external: each sends the packets of its messages in order,  *)
(* may give a message up and start another, and, where the constants say   *)
(* so, keeps sending after an error answer or loses packets on the way.    *)
(***************************************************************************)
EXTENDS Naturals, Sequences

CONSTANTS
    Cids,           \* channels in use
    BROADCAST_CID,  \* 0xffffffff, the largest channel id
    REPORT_SIZE,    \* bytes in a report
    SEQUENCES,      \* continuation packets of the longest message
    NONCE_SIZE,     \* payload length of CTAPHID_INIT
    Requests,       \* per channel: commands and payload lengths its client sends
    MAX_MESSAGES,   \* messages of one channel that are explored
    Pipelining,     \* do clients send a whole message before they read answers?
    MayLose,        \* may a packet get lost before the daemon reads it?
    None

KnownCommands == {"Ping", "Init", "Wink", "Cbor", "Cancel", "Error"}

ASSUME SizeAssumption ==
    /\ REPORT_SIZE \in Nat /\ REPORT_SIZE > 7
    /\ SEQUENCES \in Nat \ {0}
    /\ NONCE_SIZE \in Nat

ASSUME CidAssumption ==
    /\ BROADCAST_CID \in Nat \ {0}
    /\ Cids \subseteq 0..BROADCAST_CID
    /\ MAX_MESSAGES \in Nat

ASSUME ClientAssumption ==
    /\ \A c \in Cids :
          Requests[c] \subseteq [command : KnownCommands \cup {"Unknown"}, len : Nat]
    /\ {Pipelining, MayLose} \subseteq BOOLEAN

VARIABLES
    pending,     \* PacketHandler.pending
    next_cid,    \* PacketHandler.next_cid
    sending,     \* per channel: message a client is sending and its next packet
    serial,      \* per channel: messages started so far
    dispatched,  \* the request dispatched last
    outcome,     \* the last PacketOutcome
    allocated,   \* channel ids handed out
    allocations  \* how often an id was taken from next_cid

vars == <<pending, next_cid, sending, serial, dispatched, outcome, allocated,
          allocations>>

----------------------------------------------------------------------------
(* Sizes and messages *)

INIT_DATA == REPORT_SIZE - 7

CONT_DATA == REPORT_SIZE - 5

MAX_PAYLOAD_SIZE == INIT_DATA + SEQUENCES * CONT_DATA

\* Variants of `min' that take all that is announced, or all a packet can hold.
LeastAnnounced(a, b) == a

LeastRoom(a, b) == b

\* min, in the length of a first packet and of a chunk.
Least(a, b) == IF a < b THEN a ELSE b

Message(c, r, no) == [cid |-> c, command |-> r.command, len |-> r.len, no |-> no]

Messages == UNION {{Message(c, r, no) : r \in Requests[c], no \in 1..MAX_MESSAGES} : c \in Cids}

\* The packets of a message, as encode_message splits it.
PacketCount(m) ==
    IF m.len <= INIT_DATA THEN 1
    ELSE 1 + (m.len - INIT_DATA + CONT_DATA - 1) \div CONT_DATA

Fragment(m, k) == [message |-> m, k |-> k]

Fragments == [message : Messages, k : Nat]

\* A sequence byte has 7 bits on the wire: the eighth marks an init packet.
SequenceOf(k) == (k - 1) % SEQUENCES

\* PendingRequest; next_sequence is a u8.
PendingRequests ==
    [command : KnownCommands, expected_len : 0..MAX_PAYLOAD_SIZE, got : Nat,
     payload : Seq(Fragments), next_sequence : 0..(2 * SEQUENCES - 1)]

\* A request as dispatch receives it.
DispatchedRequests == [cid : Cids, command : KnownCommands, payload : Seq(Fragments)]

ASSUME NoneAssumption == None \notin Messages \cup PendingRequests \cup DispatchedRequests

Outcomes == {"none", "NeedMore", "Ping", "Init", "Wink", "Cbor", "ErrorCommand",
             "ErrorLength", "ErrorSeq"}

TypeOK ==
    /\ \A c \in Cids :
         \/ pending[c] = None
         \/ pending[c] \in PendingRequests /\ pending[c].got <= pending[c].expected_len
    /\ next_cid \in 1..BROADCAST_CID
    /\ \A c \in Cids :
         sending[c] = None \/ sending[c] \in [message : Messages, next : Nat \ {0}]
    /\ serial \in [Cids -> 0..MAX_MESSAGES]
    /\ outcome \in [cid : Cids \cup {None}, kind : Outcomes, given : 0..BROADCAST_CID]
    /\ allocated \subseteq 1..BROADCAST_CID
    /\ allocations \in Nat

Init ==
    /\ pending = [c \in Cids |-> None]
    /\ next_cid = 1
    /\ sending = [c \in Cids |-> None]
    /\ serial = [c \in Cids |-> 0]
    /\ dispatched = None
    /\ outcome = [cid |-> None, kind |-> "none", given |-> 0]
    /\ allocated = {}
    /\ allocations = 0

----------------------------------------------------------------------------
(* PacketHandler *)

Outcome(c, kind, given) == outcome' = [cid |-> c, kind |-> kind, given |-> given]

NoDispatch == UNCHANGED <<dispatched, next_cid, allocated, allocations>>

\* A variant of AllocateCid that does not advance.
AllocateCidStuck(c, len) ==
    /\ allocations' = allocations + 1
    /\ allocated' = IF len = NONCE_SIZE THEN allocated \cup {next_cid} ELSE allocated
    /\ Outcome(c, IF len = NONCE_SIZE THEN "Init" ELSE "ErrorLength",
               IF len = NONCE_SIZE THEN next_cid ELSE 0)
    /\ UNCHANGED next_cid

\* dispatch, INIT on the broadcast channel: an id is taken even when the length is
\* then found wrong.  wrapping_add(1).max(1) skips 0 and reaches BROADCAST_CID.
AllocateCid(c, len) ==
    /\ next_cid' = IF next_cid = BROADCAST_CID THEN 1 ELSE next_cid + 1
    /\ allocations' = allocations + 1
    /\ allocated' = IF len = NONCE_SIZE THEN allocated \cup {next_cid} ELSE allocated
    /\ IF len = NONCE_SIZE THEN Outcome(c, "Init", next_cid)
       ELSE Outcome(c, "ErrorLength", 0)

\* dispatch of an assembled request; the entry of the channel is gone by then.
Dispatch(c, command, len, payload) ==
    /\ pending' = [pending EXCEPT ![c] = None]
    /\ dispatched' = [cid |-> c, command |-> command, payload |-> payload]
    /\ IF command = "Init" /\ c = BROADCAST_CID
       THEN AllocateCid(c, len)
       ELSE /\ Outcome(c, CASE command = "Init" /\ len # NONCE_SIZE -> "ErrorLength"
                            [] command \in {"Cancel", "Error"} -> "ErrorCommand"
                            [] OTHER -> command,
                       IF command = "Init" /\ len = NONCE_SIZE THEN c ELSE 0)
            /\ UNCHANGED <<next_cid, allocated, allocations>>

\* handle_init_packet: an announced length beyond MAX_PAYLOAD_SIZE drops the request
\* under way on the channel, an unknown command keeps it, a new request replaces it.
HandleInitPacket(c, m) ==
    LET first_len == Least(m.len, INIT_DATA)
        payload   == <<Fragment(m, 0)>>
    IN  IF m.len > MAX_PAYLOAD_SIZE
        THEN /\ pending' = [pending EXCEPT ![c] = None]
             /\ Outcome(c, "ErrorLength", 0)
             /\ NoDispatch
        ELSE IF m.command \notin KnownCommands
        THEN /\ Outcome(c, "ErrorCommand", 0)
             /\ NoDispatch
             /\ UNCHANGED pending
        ELSE IF first_len = m.len
        THEN Dispatch(c, m.command, m.len, payload)
        ELSE /\ pending' = [pending EXCEPT ![c] =
                                [command |-> m.command, expected_len |-> m.len,
                                 got |-> first_len, payload |-> payload,
                                 next_sequence |-> 0]]
             /\ Outcome(c, "NeedMore", 0)
             /\ NoDispatch

\* A variant of InSequence without the check.
AnySequence(p, k) == TRUE

InSequence(p, k) == p.next_sequence = SequenceOf(k)

\* handle_continuation_packet: ignored without a request under way, and the end of
\* that request when the sequence number is not the next one.
HandleContinuationPacket(c, m, k) ==
    LET p         == pending[c]
        chunk_len == Least(p.expected_len - p.got, CONT_DATA)
        payload   == Append(p.payload, Fragment(m, k))
    IN  IF p = None
        THEN Outcome(c, "none", 0) /\ NoDispatch /\ UNCHANGED pending
        ELSE IF ~InSequence(p, k)
        THEN /\ pending' = [pending EXCEPT ![c] = None]
             /\ Outcome(c, "ErrorSeq", 0)
             /\ NoDispatch
        ELSE IF p.got + chunk_len = p.expected_len
        THEN Dispatch(c, p.command, p.expected_len, payload)
        ELSE /\ pending' = [pending EXCEPT ![c] =
                                [command |-> p.command, expected_len |-> p.expected_len,
                                 got |-> p.got + chunk_len, payload |-> payload,
                                 next_sequence |-> (p.next_sequence + 1) % (2 * SEQUENCES)]]
             /\ Outcome(c, "NeedMore", 0)
             /\ NoDispatch

----------------------------------------------------------------------------
(* Clients *)

\* A client goes on to its packet k unless the message is sent, or it read an error.
SendingNext(c, m, k) ==
    sending' = [sending EXCEPT ![c] =
                   IF k < PacketCount(m) /\ (Pipelining \/ outcome'.kind = "NeedMore")
                   THEN [message |-> m, next |-> k] ELSE None]

\* The first packet of a new message, in place of a message given up.
StartMessage(c, r) ==
    LET m == Message(c, r, serial[c] + 1)
    IN  /\ serial[c] < MAX_MESSAGES
        /\ serial' = [serial EXCEPT ![c] = @ + 1]
        /\ HandleInitPacket(c, m)
        /\ SendingNext(c, m, 1)

ContinueMessage(c) ==
    /\ sending[c] # None
    /\ HandleContinuationPacket(c, sending[c].message, sending[c].next)
    /\ SendingNext(c, sending[c].message, sending[c].next + 1)
    /\ UNCHANGED serial

\* A packet the daemon never reads: the kernel drops reports it cannot queue while
\* the main loop waits for the user.
LoseInitPacket(c, r) ==
    LET m == Message(c, r, serial[c] + 1)
    IN  /\ MayLose
        /\ serial[c] < MAX_MESSAGES
        /\ serial' = [serial EXCEPT ![c] = @ + 1]
        /\ sending' = [sending EXCEPT ![c] = IF PacketCount(m) > 1
                                            THEN [message |-> m, next |-> 1] ELSE None]
        /\ UNCHANGED <<pending, next_cid, dispatched, outcome, allocated, allocations>>

LoseContinuationPacket(c) ==
    /\ MayLose
    /\ sending[c] # None
    /\ sending' = [sending EXCEPT ![c] =
                      IF @.next + 1 < PacketCount(@.message)
                      THEN [message |-> @.message, next |-> @.next + 1] ELSE None]
    /\ UNCHANGED <<pending, next_cid, serial, dispatched, outcome, allocated, allocations>>

Next ==
    \E c \in Cids :
        \/ \E r \in Requests[c] : StartMessage(c, r) \/ LoseInitPacket(c, r)
        \/ ContinueMessage(c)
        \/ LoseContinuationPacket(c)

Spec == Init /\ [][Next]_vars

\* The main loop reads reports in a loop, and a client that started a message goes
\* on with it.
FairSpec == Spec /\ \A c \in Cids : WF_vars(ContinueMessage(c))

----------------------------------------------------------------------------
(* Properties *)

\* The message whose first packet an assembled payload starts with.
MessageOf(payload) == payload[1].message

\* All packets of one message, in order.
Whole(payload) ==
    /\ Len(payload) = PacketCount(MessageOf(payload))
    /\ \A k \in DOMAIN payload : payload[k] = Fragment(MessageOf(payload), k - 1)

\* The request dispatched is one message of the channel's client, whole and under
\* the command it was sent with: no packet of another channel, of a message given up
\* or out of order is part of it.
DispatchedIntact ==
    dispatched # None =>
        /\ Whole(dispatched.payload)
        /\ dispatched.cid = MessageOf(dispatched.payload).cid
        /\ dispatched.command = MessageOf(dispatched.payload).command

\* Whatever packets get lost, a dispatched request has as many packets as its first
\* one announced, and each lies where its sender put it.
DispatchedAligned ==
    dispatched # None =>
        /\ Len(dispatched.payload) = PacketCount(dispatched.payload[1].message)
        /\ \A k \in 1..Len(dispatched.payload) : dispatched.payload[k].k = k - 1

\* Until the ids are used up, the id INIT hands out was not handed out before and is
\* neither 0 nor the broadcast id, whatever requests failed in between.
CidsFresh ==
    [][allocations' > allocations /\ allocations < BROADCAST_CID - 1
          /\ outcome'.kind = "Init" =>
              outcome'.given \notin allocated \cup {0, BROADCAST_CID}]_vars

\* A message the handler began to assemble is dispatched, or its client gave it up
\* for another; it is never left waiting.
MessageDispatched ==
    \A c \in Cids, n \in 1..MAX_MESSAGES :
        (pending[c] # None /\ serial[c] = n) ~>
            \/ serial[c] > n
            \/ /\ dispatched # None
               /\ dispatched.cid = c
               /\ MessageOf(dispatched.payload).no = n

\* What a payload that is not whole stands for: it is in no client's Messages.
NoMessage(payload) == [MessageOf(payload) EXCEPT !.no = 0]

\* The message a channel is assembling, and the one that was dispatched last.
Outstanding == [c \in Cids |-> IF pending[c] = None THEN None ELSE MessageOf(pending[c].payload)]

Delivered ==
    IF dispatched = None THEN None
    ELSE [cid |-> dispatched.cid,
          message |-> IF Whole(dispatched.payload) THEN MessageOf(dispatched.payload)
                      ELSE NoMessage(dispatched.payload)]

Delivery == INSTANCE MessageDelivery WITH
    begun <- serial, outstanding <- Outstanding, delivered <- Delivered

\* Framing implements message delivery: what PacketHandler dispatches are messages of
\* the channel's client, whole, in the order of their numbers and each at most once.
RefinesDelivery == Delivery!Spec

=============================================================================
