--------------------------- MODULE CtapHidProofs ---------------------------
(***************************************************************************)
(* Proofs about CtapHid, for any channels, sizes and messages.             *)
(***************************************************************************)
EXTENDS CtapHid, TLAPS

USE SizeAssumption, CidAssumption

----------------------------------------------------------------------------
(* Arithmetic *)

\* Multiplication is monotonic.
LEMMA Times ==
    ASSUME NEW a \in Nat, NEW b \in Nat, NEW m \in Nat, a <= b
    PROVE  a * m <= b * m
OBVIOUS

\* A quotient is determined by its bounds.
LEMMA Quotient ==
    ASSUME NEW a \in Nat, NEW m \in Nat \ {0}, NEW q \in Nat,
           q * m <= a, a < (q + 1) * m
    PROVE  a \div m = q
OBVIOUS

\* A number below the modulus is its own remainder.
LEMMA Remainder ==
    ASSUME NEW m \in Nat \ {0}, NEW a \in 0..(m - 1)
    PROVE  a % m = a
OBVIOUS

----------------------------------------------------------------------------
(* Channel ids *)

\* The ids handed out are those below next_cid, until the ids are used up.
CidInv ==
    /\ next_cid \in 1..BROADCAST_CID
    /\ allocations \in Nat
    /\ allocations < BROADCAST_CID =>
          next_cid = allocations + 1 /\ allocated \subseteq 1..allocations

\* A packet takes one id, or none.
LEMMA PacketCids ==
    ASSUME Next
    PROVE  \/ \E c \in Cids : \E len : AllocateCid(c, len)
           \/ UNCHANGED <<next_cid, allocated, allocations>>
<1>1. ASSUME NEW c \in Cids, NEW command, NEW len, NEW payload,
             Dispatch(c, command, len, payload)
      PROVE  \/ AllocateCid(c, len)
             \/ UNCHANGED <<next_cid, allocated, allocations>>
  BY <1>1 DEF Dispatch
<1>2. ASSUME NEW c \in Cids, NEW m, HandleInitPacket(c, m)
      PROVE  \/ AllocateCid(c, m.len)
             \/ UNCHANGED <<next_cid, allocated, allocations>>
  BY <1>1, <1>2 DEF HandleInitPacket, NoDispatch
<1>3. ASSUME NEW c \in Cids, NEW m, NEW k, HandleContinuationPacket(c, m, k)
      PROVE  \/ AllocateCid(c, pending[c].expected_len)
             \/ UNCHANGED <<next_cid, allocated, allocations>>
  BY <1>1, <1>3 DEF HandleContinuationPacket, NoDispatch
<1> QED
  BY <1>2, <1>3 DEF Next, StartMessage, ContinueMessage, LoseInitPacket, LoseContinuationPacket

\* An id that INIT hands out was not handed out before, and is neither 0 nor the
\* broadcast id, until next_cid wraps (dispatch).
THEOREM FreshCids == Spec => CidsFresh
<1>1. Init => CidInv
  BY DEF Init, CidInv
<1>2. CidInv /\ [Next]_vars => CidInv'
  <2> SUFFICES ASSUME CidInv, [Next]_vars
               PROVE  CidInv'
    OBVIOUS
  <2>1. CASE UNCHANGED <<next_cid, allocated, allocations>>
    BY <2>1 DEF CidInv
  <2>2. ASSUME NEW c \in Cids, NEW len, AllocateCid(c, len)
        PROVE  CidInv'
    BY <2>2 DEF AllocateCid, CidInv
  <2> QED
    BY <2>1, <2>2, PacketCids DEF vars
<1> DEFINE Fresh == allocations' > allocations /\ allocations < BROADCAST_CID - 1
                    /\ outcome'.kind = "Init" =>
                        outcome'.given \notin allocated \cup {0, BROADCAST_CID}
<1>3. CidInv /\ [Next]_vars => [Fresh]_vars
  <2> SUFFICES ASSUME CidInv, Next, allocations' > allocations,
                      allocations < BROADCAST_CID - 1, outcome'.kind = "Init"
               PROVE  outcome'.given \notin allocated \cup {0, BROADCAST_CID}
    OBVIOUS
  <2>1. PICK c, len : AllocateCid(c, len)
    BY PacketCids DEF CidInv
  <2>2. outcome'.given = next_cid
    BY <2>1 DEF AllocateCid, Outcome
  <2> QED
    BY <2>2 DEF CidInv
<1> QED
  BY <1>1, <1>2, <1>3, PTL DEF Spec, CidsFresh

----------------------------------------------------------------------------
(* The packets of a dispatched request *)

\* The messages are no longer than a message can be.
Numbered == \A c \in Cids : \A r \in Requests[c] : r.len <= MAX_PAYLOAD_SIZE

\* An assembled prefix: its packets lie in order, and length and sequence number agree
\* with their number.
PendingOK(p) ==
    LET n == Len(p.payload)
    IN  /\ p.payload \in Seq(Fragments) /\ n > 0
        /\ p.expected_len = p.payload[1].message.len
        /\ p.got = INIT_DATA + (n - 1) * CONT_DATA
        /\ p.got < p.expected_len
        /\ p.next_sequence = n - 1
        /\ \A k \in 1..n : p.payload[k].k = k - 1

AlignInv ==
    /\ pending = [c \in Cids |-> pending[c]]
    /\ \A c \in Cids : pending[c] # None => PendingOK(pending[c])
    /\ sending = [c \in Cids |-> sending[c]]
    /\ \A c \in Cids : sending[c] # None =>
          /\ sending[c].message \in Messages
          /\ sending[c].next \in 1..(PacketCount(sending[c].message) - 1)
    /\ serial \in [Cids -> 0..MAX_MESSAGES]
    /\ DispatchedAligned

\* A report has room for data after its headers.
LEMMA Sizes ==
    /\ INIT_DATA \in Nat \ {0} /\ CONT_DATA \in Nat \ {0}
    /\ SEQUENCES * CONT_DATA \in Nat
    /\ MAX_PAYLOAD_SIZE = INIT_DATA + SEQUENCES * CONT_DATA
BY DEF INIT_DATA, CONT_DATA, MAX_PAYLOAD_SIZE

\* A client's message has a length its packets can be numbered for.
LEMMA MessageSize ==
    ASSUME Numbered, NEW m \in Messages
    PROVE  m.len \in Nat /\ m.len <= MAX_PAYLOAD_SIZE
BY ClientAssumption DEF Messages, Message, Numbered

\* A message of n full packets and one more has n + 1 packets, as encode_message splits
\* it.
LEMMA Count ==
    ASSUME NEW m, m.len \in Nat, NEW n \in Nat \ {0},
           INIT_DATA + (n - 1) * CONT_DATA < m.len, m.len <= INIT_DATA + n * CONT_DATA
    PROVE  PacketCount(m) = n + 1
<1> DEFINE C == CONT_DATA
           I == INIT_DATA
           a == m.len - I + C - 1
<1>1. C \in Nat \ {0} /\ I \in Nat \ {0} /\ (n - 1) * C \in Nat /\ n * C \in Nat
      /\ (n - 1) * C + C = n * C /\ (n + 1) * C = n * C + C
  BY Sizes
<1> HIDE DEF C, I
<1>2. I + (n - 1) * C < m.len /\ m.len <= I + n * C
  BY DEF C, I
<1>3. a \in Nat /\ n * C <= a /\ a < (n + 1) * C /\ m.len > I
  BY <1>1, <1>2
<1>4. a \div C = n
  BY <1>1, <1>3, Quotient
<1> QED
  BY <1>1, <1>3, <1>4 DEF PacketCount, C, I

\* No message has more packets than can be numbered.
LEMMA CountBound ==
    ASSUME Numbered, NEW m \in Messages
    PROVE  PacketCount(m) \in Nat /\ PacketCount(m) <= SEQUENCES + 1
<1> DEFINE C == CONT_DATA
           I == INIT_DATA
           a == m.len - I + C - 1
           q == a \div C
<1>1. C \in Nat \ {0} /\ I \in Nat \ {0} /\ SEQUENCES * C \in Nat
  BY Sizes
<1>2. m.len \in Nat /\ m.len <= I + SEQUENCES * C
  BY Sizes, MessageSize
<1>3. PacketCount(m) = IF m.len <= I THEN 1 ELSE 1 + q
  BY DEF PacketCount
<1> HIDE DEF C, I
<1>4. ASSUME m.len > I
      PROVE  q \in Nat /\ q <= SEQUENCES
  <2>1. a \in Nat /\ a < SEQUENCES * C + C
    BY <1>1, <1>2, <1>4
  <2> HIDE DEF a
  <2>2. q \in Nat /\ q * C <= a
    BY <1>1, <2>1
  <2>3. q > SEQUENCES => (SEQUENCES + 1) * C <= q * C
    BY <1>1, <2>2, Times
  <2>4. (SEQUENCES + 1) * C = SEQUENCES * C + C /\ q * C \in Nat
    BY <1>1, <2>2
  <2> HIDE DEF q
  <2> QED
    BY <1>1, <2>1, <2>2, <2>3, <2>4
<1> QED
  BY <1>2, <1>1, <1>3, <1>4

\* The number of packets so far is a sequence number.
LEMMA PrefixBound ==
    ASSUME NEW p, PendingOK(p), p.expected_len \in Nat, p.expected_len <= MAX_PAYLOAD_SIZE
    PROVE  Len(p.payload) \in 1..SEQUENCES
<1> DEFINE n == Len(p.payload)
           x == (n - 1) * CONT_DATA
           y == SEQUENCES * CONT_DATA
<1>1. n \in Nat \ {0} /\ n - 1 \in Nat /\ p.got = INIT_DATA + x /\ p.got < p.expected_len
  BY DEF PendingOK
<1>2. n - 1 >= SEQUENCES => y <= x
  BY <1>1, Sizes, Times
<1>3. x \in Nat /\ y \in Nat /\ INIT_DATA \in Nat /\ MAX_PAYLOAD_SIZE = INIT_DATA + y
  BY <1>1, Sizes
<1> HIDE DEF n, x, y
<1>4. x < y
  BY <1>1, <1>3
<1> QED
  BY <1>1, <1>2, <1>3, <1>4 DEF n

\* The length of the next chunk, and the entry with it.
Chunk(p) == Least(p.expected_len - p.got, CONT_DATA)

Extended(p, payload) ==
    [command |-> p.command, expected_len |-> p.expected_len, got |-> p.got + Chunk(p),
     payload |-> payload, next_sequence |-> (p.next_sequence + 1) % (2 * SEQUENCES)]

NextOK(p, payload) ==
    /\ payload \in Seq(Fragments) /\ Len(payload) = Len(p.payload) + 1
    /\ payload[1] = p.payload[1]
    /\ \A i \in 1..Len(payload) : payload[i].k = i - 1
    /\ p.got + Chunk(p) = p.expected_len => PacketCount(payload[1].message) = Len(payload)
    /\ p.got + Chunk(p) # p.expected_len => PendingOK(Extended(p, payload))

\* The next packet completes a prefix, or makes a longer one.
LEMMA NextPacket ==
    ASSUME NEW p, PendingOK(p), p.expected_len \in Nat, p.expected_len <= MAX_PAYLOAD_SIZE,
           NEW f \in Fragments, f.k = Len(p.payload)
    PROVE  NextOK(p, Append(p.payload, f))
<1> DEFINE n == Len(p.payload)
           C == CONT_DATA
           payload == Append(p.payload, f)
<1>1. p.payload \in Seq(Fragments) /\ n \in Nat \ {0} /\ p.got = INIT_DATA + (n - 1) * C
      /\ p.got < p.expected_len /\ p.next_sequence = n - 1
      /\ p.expected_len = p.payload[1].message.len
      /\ \A i \in 1..n : p.payload[i].k = i - 1
  BY DEF PendingOK
<1>2. payload \in Seq(Fragments) /\ Len(payload) = n + 1 /\ payload[1] = p.payload[1]
      /\ \A i \in 1..(n + 1) : payload[i].k = i - 1
  BY <1>1
<1>3. C \in Nat \ {0} /\ INIT_DATA \in Nat /\ (n - 1) * C \in Nat /\ n * C \in Nat
      /\ (n - 1) * C + C = n * C
  BY <1>1, Sizes
<1> HIDE DEF C, n, payload
<1>4. ASSUME p.got + Chunk(p) = p.expected_len
      PROVE  PacketCount(payload[1].message) = n + 1
  <2> DEFINE x == (n - 1) * C
             y == n * C
  <2>1. p.expected_len <= INIT_DATA + y
    <3>1. Chunk(p) = Least(p.expected_len - p.got, C)
      BY DEF Chunk, C
    <3>2. p.got = INIT_DATA + x /\ x \in Nat /\ y \in Nat /\ x + C = y
      BY <1>1, <1>3
    <3> HIDE DEF x, y
    <3> QED
      BY <1>1, <1>3, <1>4, <3>1, <3>2 DEF Least
  <2> QED
    BY <1>1, <1>2, <2>1, Count DEF C
<1>5. ASSUME p.got + Chunk(p) # p.expected_len
      PROVE  PendingOK(Extended(p, payload))
  <2> DEFINE q == Extended(p, payload)
  <2>1. Chunk(p) = C /\ p.got + C = INIT_DATA + n * C /\ p.got + C < p.expected_len
    <3> DEFINE x == (n - 1) * C
               y == n * C
    <3>1. Chunk(p) = Least(p.expected_len - p.got, C)
      BY DEF Chunk, C
    <3>2. p.got = INIT_DATA + x /\ x \in Nat /\ y \in Nat /\ x + C = y
      BY <1>1, <1>3
    <3> HIDE DEF x, y
    <3>3. Chunk(p) = C /\ p.got + C = INIT_DATA + y /\ p.got + C < p.expected_len
      BY <1>1, <1>3, <1>5, <3>1, <3>2 DEF Least
    <3> QED
      BY <3>3 DEF y
  <2>2. (p.next_sequence + 1) % (2 * SEQUENCES) = n
    <3>1. n \in 1..SEQUENCES
      BY PrefixBound DEF n
    <3>2. p.next_sequence + 1 = n /\ n \in 0..(2 * SEQUENCES - 1) /\ 2 * SEQUENCES \in Nat \ {0}
      BY <1>1, <3>1
    <3> QED
      BY <3>2, Remainder
  <2>3. Len(payload) - 1 = n /\ Len(payload) > 0
    BY <1>1, <1>2
  <2>4. q.got = INIT_DATA + (Len(payload) - 1) * CONT_DATA
    BY <2>1, <2>3 DEF C, Extended
  <2>5. q.got < q.expected_len /\ q.expected_len = payload[1].message.len
        /\ q.next_sequence = Len(payload) - 1 /\ q.payload = payload
    BY <1>1, <1>2, <2>1, <2>2, <2>3 DEF Extended
  <2>6. \A i \in 1..Len(payload) : payload[i].k = i - 1
    BY <1>2
  <2> HIDE DEF q
  <2>7. PendingOK(q)
    BY <1>2, <2>3, <2>4, <2>5, <2>6 DEF PendingOK
  <2> QED
    BY <2>7 DEF q
<1> QED
  BY <1>2, <1>4, <1>5 DEF NextOK, n, payload

\* What a packet may do to its channel and to the request dispatched last.
Aligned(c) ==
    /\ pending' = [pending EXCEPT ![c] = pending'[c]]
    /\ pending'[c] # None => PendingOK(pending'[c])
    /\ DispatchedAligned'

\* An initialization packet is a whole message, or the first packet of one.
LEMMA InitAligned ==
    ASSUME Numbered, AlignInv, NEW c \in Cids, NEW m \in Messages, HandleInitPacket(c, m)
    PROVE  Aligned(c)
<1> DEFINE payload == <<Fragment(m, 0)>>
<1>1. m.len \in Nat /\ INIT_DATA \in Nat
  BY Sizes, MessageSize
<1>2. payload \in Seq(Fragments) /\ Len(payload) = 1 /\ payload[1].message = m /\ payload[1].k = 0
  BY DEF Fragment, Fragments
<1>3. c \in DOMAIN pending /\ (pending[c] # None => PendingOK(pending[c])) /\ DispatchedAligned
  BY DEF AlignInv
<1> HIDE DEF payload
<1>4. CASE m.len > MAX_PAYLOAD_SIZE \/ m.command \notin KnownCommands
  <2>1. dispatched' = dispatched /\ (pending' = pending \/ pending' = [pending EXCEPT ![c] = None])
    BY <1>4 DEF HandleInitPacket, NoDispatch
  <2>2. pending' = [pending EXCEPT ![c] = pending'[c]] /\ pending'[c] \in {None, pending[c]}
    BY <1>3, <2>1 DEF AlignInv
  <2> QED
    BY <1>3, <2>1, <2>2 DEF Aligned, DispatchedAligned
<1>5. CASE ~(m.len > MAX_PAYLOAD_SIZE \/ m.command \notin KnownCommands)
           /\ Least(m.len, INIT_DATA) = m.len
  <2>1. pending' = [pending EXCEPT ![c] = None]
        /\ dispatched' = [cid |-> c, command |-> m.command, payload |-> payload]
    BY <1>5 DEF HandleInitPacket, Dispatch, payload
  <2>2. PacketCount(m) = 1
    BY <1>1, <1>5 DEF Least, PacketCount
  <2>3. \A k \in 1..Len(payload) : payload[k].k = k - 1
    BY <1>2
  <2>4. DispatchedAligned'
    BY <1>2, <2>1, <2>2, <2>3 DEF DispatchedAligned
  <2> QED
    BY <1>3, <2>1, <2>4 DEF Aligned
<1>6. CASE ~(m.len > MAX_PAYLOAD_SIZE \/ m.command \notin KnownCommands)
           /\ Least(m.len, INIT_DATA) # m.len
  <2> DEFINE p == [command |-> m.command, expected_len |-> m.len, got |-> Least(m.len, INIT_DATA),
                   payload |-> payload, next_sequence |-> 0]
  <2>1. pending' = [pending EXCEPT ![c] = p] /\ dispatched' = dispatched
    BY <1>6 DEF HandleInitPacket, NoDispatch, payload
  <2>2. Least(m.len, INIT_DATA) = INIT_DATA /\ INIT_DATA < m.len
    BY <1>1, <1>6 DEF Least
  <2>3. PendingOK(p)
    <3>1. INIT_DATA = INIT_DATA + (Len(payload) - 1) * CONT_DATA
      BY <1>2, Sizes
    <3>2. \A k \in 1..Len(payload) : payload[k].k = k - 1
      BY <1>2
    <3>3. p.payload = payload /\ p.expected_len = payload[1].message.len
          /\ p.got = INIT_DATA + (Len(payload) - 1) * CONT_DATA /\ p.got < p.expected_len
          /\ p.next_sequence = Len(payload) - 1
      BY <1>2, <2>2, <3>1
    <3>4. payload \in Seq(Fragments) /\ Len(payload) > 0
      BY <1>2
    <3> HIDE DEF p
    <3> QED
      BY <3>2, <3>3, <3>4 DEF PendingOK
  <2> HIDE DEF p
  <2> QED
    BY <1>3, <2>1, <2>3 DEF Aligned, DispatchedAligned
<1> QED
  BY <1>4, <1>5, <1>6

\* A continuation packet in sequence is the next one of some message of the channel.
LEMMA ContinuationAligned ==
    ASSUME Numbered, AlignInv, NEW c \in Cids, NEW m \in Messages,
           NEW k \in 1..(PacketCount(m) - 1), HandleContinuationPacket(c, m, k)
    PROVE  Aligned(c)
<1> DEFINE p == pending[c]
           n == Len(p.payload)
           payload == Append(p.payload, Fragment(m, k))
<1>1. c \in DOMAIN pending /\ (p # None => PendingOK(p)) /\ DispatchedAligned
  BY DEF AlignInv
<1>2. CASE p = None \/ ~InSequence(p, k)
  <2>1. dispatched' = dispatched /\ (pending' = pending \/ pending' = [pending EXCEPT ![c] = None])
    BY <1>2 DEF HandleContinuationPacket, NoDispatch
  <2>2. pending' = [pending EXCEPT ![c] = pending'[c]] /\ pending'[c] \in {None, pending[c]}
    BY <1>1, <2>1 DEF AlignInv
  <2> QED
    BY <1>1, <2>1, <2>2 DEF Aligned, DispatchedAligned
<1>3. CASE p # None /\ InSequence(p, k)
  <2>1. PendingOK(p) /\ p.payload[1].message \in Messages
    <3>1. PendingOK(p)
      BY <1>1, <1>3
    <3>2. p.payload[1] \in Fragments
      BY <3>1 DEF PendingOK
    <3> QED
      BY <3>1, <3>2 DEF Fragments
  <2>2. p.expected_len \in Nat /\ p.expected_len <= MAX_PAYLOAD_SIZE
    BY <2>1, MessageSize DEF PendingOK
  <2>3. k = n
    <3>1. k \in Nat /\ k >= 1 /\ k <= SEQUENCES
      BY CountBound
    <3>2. (k - 1) % SEQUENCES = k - 1
      BY <3>1, Remainder
    <3>3. n \in 1..SEQUENCES /\ p.next_sequence = n - 1
      BY <2>1, <2>2, PrefixBound DEF PendingOK
    <3> HIDE DEF n
    <3> QED
      BY <1>3, <3>1, <3>2, <3>3 DEF InSequence, SequenceOf
  <2>4. Fragment(m, k) \in Fragments /\ Fragment(m, k).k = Len(p.payload)
        /\ payload = Append(p.payload, Fragment(m, k))
    BY <2>3 DEF Fragment, Fragments
  <2> HIDE DEF payload, p
  <2>5. NextOK(p, payload)
    BY <2>1, <2>2, <2>4, NextPacket
  <2> USE DEF p, NextOK
  <2>6. CASE p.got + Chunk(p) = p.expected_len
    <3>1. pending' = [pending EXCEPT ![c] = None]
          /\ dispatched' = [cid |-> c, command |-> p.command, payload |-> payload]
      BY <1>3, <2>6 DEF HandleContinuationPacket, Dispatch, payload, Chunk
    <3> QED
      BY <1>1, <2>5, <2>6, <3>1 DEF Aligned, DispatchedAligned
  <2>7. CASE p.got + Chunk(p) # p.expected_len
    <3>1. pending' = [pending EXCEPT ![c] = Extended(p, payload)] /\ dispatched' = dispatched
      BY <1>3, <2>7 DEF HandleContinuationPacket, NoDispatch, payload, Chunk, Extended
    <3> QED
      BY <1>1, <2>5, <2>7, <3>1 DEF Aligned, DispatchedAligned
  <2> QED
    BY <2>6, <2>7
<1> QED
  BY <1>2, <1>3

\* Whatever packets get lost, a dispatched request has as many packets as its first one
\* announced, each where its sender put it, for reports of any size and any number of
\* sequence numbers (handle_init_packet, handle_continuation_packet).
THEOREM AlignedRequests ==
    ASSUME Numbered PROVE Spec => []DispatchedAligned
<1>1. Init => AlignInv
  BY DEF Init, AlignInv, DispatchedAligned
<1>2. AlignInv /\ [Next]_vars => AlignInv'
  <2> SUFFICES ASSUME AlignInv, [Next]_vars
               PROVE  AlignInv'
    OBVIOUS
  <2>1. ASSUME NEW c \in Cids, Aligned(c) \/ UNCHANGED <<pending, dispatched>>,
               NEW m \in Messages, NEW k \in Nat \ {0},
               sending' = [sending EXCEPT ![c] = sending'[c]],
               sending'[c] # None =>
                  sending'[c] = [message |-> m, next |-> k] /\ k < PacketCount(m),
               serial' \in [Cids -> 0..MAX_MESSAGES]
        PROVE  AlignInv'
    <3>1. pending' = [d \in Cids |-> pending'[d]]
          /\ \A d \in Cids : pending'[d] # None => PendingOK(pending'[d])
      BY <2>1 DEF AlignInv, Aligned
    <3>2. PacketCount(m) \in Nat
      BY <2>1, CountBound
    <3>3. \A d \in Cids : d # c => sending'[d] = sending[d]
      BY <2>1 DEF AlignInv
    <3>4. \A d \in Cids : sending'[d] # None =>
             /\ sending'[d].message \in Messages
             /\ sending'[d].next \in 1..(PacketCount(sending'[d].message) - 1)
      BY <2>1, <3>2, <3>3 DEF AlignInv
    <3>5. sending' = [d \in Cids |-> sending'[d]]
      BY <2>1 DEF AlignInv
    <3>6. DispatchedAligned'
      BY <2>1 DEF Aligned, AlignInv, DispatchedAligned
    <3> QED
      BY <2>1, <3>1, <3>4, <3>5, <3>6 DEF AlignInv, PendingOK
  <2>2. ASSUME NEW c \in Cids, NEW r \in Requests[c], serial[c] < MAX_MESSAGES,
               serial' = [serial EXCEPT ![c] = @ + 1]
        PROVE  Message(c, r, serial[c] + 1) \in Messages /\ serial' \in [Cids -> 0..MAX_MESSAGES]
    <3>1. serial[c] \in 0..MAX_MESSAGES
      BY DEF AlignInv
    <3>2. serial[c] + 1 \in 1..MAX_MESSAGES
      BY <2>2, <3>1
    <3> QED
      BY <2>2, <3>2 DEF AlignInv, Messages
  <2>3. ASSUME NEW c \in Cids, NEW r \in Requests[c], StartMessage(c, r)
        PROVE  AlignInv'
    <3> PICK m : m = Message(c, r, serial[c] + 1)
      OBVIOUS
    <3>1. m \in Messages /\ serial' \in [Cids -> 0..MAX_MESSAGES]
      BY <2>2, <2>3 DEF StartMessage
    <3>2. HandleInitPacket(c, m) /\ SendingNext(c, m, 1)
      BY <2>3 DEF StartMessage
    <3>3. Aligned(c)
      BY <3>1, <3>2, InitAligned
    <3> PICK k \in Nat \ {0} : k = 1
      OBVIOUS
    <3>4. sending' = [sending EXCEPT ![c] = sending'[c]]
          /\ (sending'[c] # None =>
                 sending'[c] = [message |-> m, next |-> k] /\ k < PacketCount(m))
      BY <3>2 DEF SendingNext, AlignInv
    <3> QED
      BY <2>1, <3>1, <3>3, <3>4
  <2>4. ASSUME NEW c \in Cids, ContinueMessage(c)
        PROVE  AlignInv'
    <3> PICK m, k : m = sending[c].message /\ k = sending[c].next
      OBVIOUS
    <3>1. m \in Messages /\ k \in 1..(PacketCount(m) - 1) /\ PacketCount(m) \in Nat
      BY <2>4, CountBound DEF ContinueMessage, AlignInv
    <3>2. HandleContinuationPacket(c, m, k) /\ SendingNext(c, m, k + 1) /\ UNCHANGED serial
      BY <2>4 DEF ContinueMessage
    <3>3. Aligned(c)
      BY <3>1, <3>2, ContinuationAligned
    <3>4. sending' = [sending EXCEPT ![c] = sending'[c]]
          /\ (sending'[c] # None =>
                 sending'[c] = [message |-> m, next |-> k + 1] /\ k + 1 < PacketCount(m))
      BY <3>2 DEF SendingNext, AlignInv
    <3>5. k + 1 \in Nat \ {0} /\ serial' \in [Cids -> 0..MAX_MESSAGES]
      BY <3>1, <3>2 DEF AlignInv
    <3> QED
      BY <2>1, <3>1, <3>3, <3>4, <3>5
  <2>5. ASSUME NEW c \in Cids, NEW r \in Requests[c], LoseInitPacket(c, r)
        PROVE  AlignInv'
    <3> PICK m : m = Message(c, r, serial[c] + 1)
      OBVIOUS
    <3>1. m \in Messages /\ serial' \in [Cids -> 0..MAX_MESSAGES] /\ PacketCount(m) \in Nat
      BY <2>2, <2>5, CountBound DEF LoseInitPacket
    <3>2. sending' = [sending EXCEPT ![c] = sending'[c]]
          /\ (sending'[c] # None =>
                 sending'[c] = [message |-> m, next |-> 1] /\ 1 < PacketCount(m))
      BY <2>5, <3>1 DEF LoseInitPacket, AlignInv
    <3>3. UNCHANGED <<pending, dispatched>>
      BY <2>5 DEF LoseInitPacket
    <3> QED
      BY <2>1, <3>1, <3>2, <3>3
  <2>6. ASSUME NEW c \in Cids, LoseContinuationPacket(c)
        PROVE  AlignInv'
    <3> PICK m, k : m = sending[c].message /\ k = sending[c].next
      OBVIOUS
    <3>1. m \in Messages /\ k \in 1..(PacketCount(m) - 1) /\ PacketCount(m) \in Nat
      BY <2>6, CountBound DEF LoseContinuationPacket, AlignInv
    <3>2. sending' = [sending EXCEPT ![c] = sending'[c]]
          /\ (sending'[c] # None =>
                 sending'[c] = [message |-> m, next |-> k + 1] /\ k + 1 < PacketCount(m))
      BY <2>6 DEF LoseContinuationPacket, AlignInv
    <3>3. k + 1 \in Nat \ {0} /\ serial' \in [Cids -> 0..MAX_MESSAGES]
          /\ UNCHANGED <<pending, dispatched>>
      BY <2>6, <3>1 DEF LoseContinuationPacket, AlignInv
    <3> QED
      BY <2>1, <3>1, <3>2, <3>3
  <2>7. CASE UNCHANGED vars
    BY <2>7 DEF vars, AlignInv, DispatchedAligned, PendingOK
  <2> QED
    BY <2>3, <2>4, <2>5, <2>6, <2>7 DEF Next
<1>3. AlignInv => DispatchedAligned
  BY DEF AlignInv
<1> QED
  BY <1>1, <1>2, <1>3, PTL DEF Spec

----------------------------------------------------------------------------
(* Framing implements message delivery *)

\* No packet is lost and every command is known.
Lossless ==
    /\ ~MayLose
    /\ \A c \in Cids : \A r \in Requests[c] : r.command \in KnownCommands

\* The request under way on a channel is what its client sent so far of its message.
UnderWay(c, p, s) ==
    /\ p \in PendingRequests /\ PendingOK(p)
    /\ s.message \in Messages /\ s.message.cid = c
    /\ p.command = s.message.command
    /\ s.next = Len(p.payload)
    /\ \A k \in 1..Len(p.payload) : p.payload[k] = Fragment(s.message, k - 1)

WholeInv ==
    /\ pending = [c \in Cids |-> pending[c]]
    /\ sending = [c \in Cids |-> sending[c]]
    /\ serial \in [Cids -> 0..MAX_MESSAGES]
    /\ \A c \in Cids : pending[c] # None => UnderWay(c, pending[c], sending[c])
    /\ DispatchedIntact

\* A prefix that is not complete has fewer packets than its message.
LEMMA MorePackets ==
    ASSUME NEW p, PendingOK(p), p.expected_len \in Nat
    PROVE  Len(p.payload) < PacketCount(p.payload[1].message)
<1> DEFINE n == Len(p.payload)
           m == p.payload[1].message
           C == CONT_DATA
           I == INIT_DATA
           a == m.len - I + C - 1
           q == a \div C
<1>1. n \in Nat \ {0} /\ m.len \in Nat /\ I + (n - 1) * C < m.len
  BY DEF PendingOK
<1>2. C \in Nat \ {0} /\ I \in Nat \ {0} /\ (n - 1) * C \in Nat /\ (n - 1) * C + C = n * C
  BY <1>1, Sizes
<1>3. PacketCount(m) = IF m.len <= I THEN 1 ELSE 1 + q
  BY DEF PacketCount
<1> HIDE DEF C, I, n, m
<1>4. a \in Nat /\ n * C <= a /\ m.len > I /\ n * C \in Nat
  BY <1>1, <1>2
<1> HIDE DEF a
<1>5. q \in Nat /\ a < (q + 1) * C
  BY <1>2, <1>4
<1>6. q < n => (q + 1) * C <= n * C
  BY <1>1, <1>2, <1>5, Times
<1>7. (q + 1) * C \in Nat
  BY <1>2, <1>5
<1> HIDE DEF q
<1>8. n \in Nat /\ q \in Nat /\ q >= n
  BY <1>1, <1>4, <1>5, <1>6, <1>7
<1>9. ~(m.len <= I)
  BY <1>1, <1>2, <1>4
<1>10. n < PacketCount(m)
  BY <1>3, <1>8, <1>9
<1> QED
  BY <1>10 DEF n, m

StartOK(c, m) ==
    /\ m \in Messages /\ m.cid = c /\ m.no = serial[c] + 1
    /\ serial' = [serial EXCEPT ![c] = m.no] /\ serial' \in [Cids -> 0..MAX_MESSAGES]
    /\ sending' = [sending EXCEPT ![c] = sending'[c]]
    /\ \/ /\ pending' = [pending EXCEPT ![c] = None] /\ UNCHANGED dispatched
       \/ /\ pending' = [pending EXCEPT ![c] = None]
          /\ dispatched' = [cid |-> c, command |-> m.command, payload |-> <<Fragment(m, 0)>>]
          /\ PacketCount(m) = 1
       \/ \E p : /\ pending' = [pending EXCEPT ![c] = p] /\ UNCHANGED dispatched
                 /\ UnderWay(c, p, sending'[c]) /\ sending'[c].message = m

\* A first packet: the message is refused, dispatched whole, or under way.
LEMMA StartWhole ==
    ASSUME Lossless, WholeInv, NEW c \in Cids, NEW r \in Requests[c], StartMessage(c, r),
           NEW m, m = Message(c, r, serial[c] + 1)
    PROVE  StartOK(c, m)
<1>1. serial[c] \in 0..MAX_MESSAGES /\ serial[c] < MAX_MESSAGES
      /\ serial' = [serial EXCEPT ![c] = serial[c] + 1]
  BY DEF WholeInv, StartMessage
<1>2. serial[c] + 1 \in 1..MAX_MESSAGES
  BY <1>1
<1>3. m \in Messages /\ m.cid = c /\ m.no = serial[c] + 1 /\ m.command \in KnownCommands
      /\ m.len \in Nat
  <2>1. r \in [command : KnownCommands \cup {"Unknown"}, len : Nat] /\ r.command \in KnownCommands
    BY ClientAssumption DEF Lossless
  <2>2. m.cid = c /\ m.no = serial[c] + 1 /\ m.command = r.command /\ m.len = r.len
    BY DEF Message
  <2>3. m \in Messages
    BY <1>2 DEF Messages
  <2> QED
    BY <2>1, <2>2, <2>3
<1>4. serial' \in [Cids -> 0..MAX_MESSAGES] /\ serial' = [serial EXCEPT ![c] = m.no]
  <2>1. PICK no : no = serial[c] + 1
    OBVIOUS
  <2>2. m.no = no /\ no \in 0..MAX_MESSAGES /\ serial' = [serial EXCEPT ![c] = no]
    <3>1. \A i \in 1..MAX_MESSAGES : i \in 0..MAX_MESSAGES
      OBVIOUS
    <3>2. m.no = no
      BY <1>3, <2>1
    <3>3. serial' = [serial EXCEPT ![c] = no]
      BY <1>1, <2>1
    <3> QED
      BY <1>2, <2>1, <3>1, <3>2, <3>3
  <2>3. serial \in [Cids -> 0..MAX_MESSAGES]
    BY DEF WholeInv
  <2> QED
    BY <2>2, <2>3
<1>5. HandleInitPacket(c, m) /\ SendingNext(c, m, 1)
  BY DEF StartMessage
<1>6. sending' = [sending EXCEPT ![c] = sending'[c]]
  BY <1>5 DEF SendingNext, WholeInv
<1> DEFINE first_len == Least(m.len, INIT_DATA)
           payload == <<Fragment(m, 0)>>
           p == [command |-> m.command, expected_len |-> m.len, got |-> first_len,
                 payload |-> payload, next_sequence |-> 0]
<1>7. CASE m.len > MAX_PAYLOAD_SIZE
  BY <1>3, <1>4, <1>5, <1>6, <1>7 DEF HandleInitPacket, NoDispatch, StartOK
<1>8. CASE ~(m.len > MAX_PAYLOAD_SIZE) /\ first_len = m.len
  <2>1. PacketCount(m) = 1
    BY <1>3, <1>8, Sizes DEF Least, PacketCount
  <2>2. pending' = [pending EXCEPT ![c] = None]
        /\ dispatched' = [cid |-> c, command |-> m.command, payload |-> payload]
    BY <1>3, <1>5, <1>8 DEF HandleInitPacket, Dispatch
  <2> QED
    BY <1>3, <1>4, <1>6, <2>1, <2>2 DEF StartOK
<1>9. CASE ~(m.len > MAX_PAYLOAD_SIZE) /\ first_len # m.len
  <2>1. pending' = [pending EXCEPT ![c] = p] /\ dispatched' = dispatched
        /\ outcome'.kind = "NeedMore"
    BY <1>3, <1>5, <1>9 DEF HandleInitPacket, NoDispatch, Outcome
  <2>2. first_len = INIT_DATA /\ INIT_DATA < m.len
    <3>1. INIT_DATA \in Nat
      BY Sizes
    <3> QED
      BY <1>3, <1>9, <3>1 DEF Least
  <2>3. payload \in Seq(Fragments) /\ Len(payload) = 1 /\ payload[1] = Fragment(m, 0)
        /\ payload[1].message = m /\ payload[1].k = 0
    BY <1>3 DEF Fragment, Fragments
  <2> HIDE DEF payload
  <2>4. PendingOK(p)
    <3>1. INIT_DATA = INIT_DATA + (Len(payload) - 1) * CONT_DATA
      BY <2>3, Sizes
    <3>2. \A k \in 1..Len(payload) : payload[k].k = k - 1
      BY <2>3
    <3>3. p.payload = payload /\ p.expected_len = payload[1].message.len
          /\ p.got = INIT_DATA + (Len(payload) - 1) * CONT_DATA /\ p.got < p.expected_len
          /\ p.next_sequence = Len(payload) - 1
      BY <2>2, <2>3, <3>1
    <3>4. payload \in Seq(Fragments) /\ Len(payload) > 0
      BY <2>3
    <3> HIDE DEF p
    <3> QED
      BY <3>2, <3>3, <3>4 DEF PendingOK
  <2>5. p.payload = payload /\ p.expected_len = m.len /\ p.command = m.command
    OBVIOUS
  <2> HIDE DEF p
  <2>6. 1 < PacketCount(m)
    BY <1>3, <2>3, <2>4, <2>5, MorePackets
  <2>7. sending'[c] = [message |-> m, next |-> 1]
    BY <1>5, <2>1, <2>6 DEF SendingNext, WholeInv
  <2>8. p \in PendingRequests
    BY <1>3, <1>9, <2>2, <2>3, Sizes DEF PendingRequests, p
  <2>9. \A k \in 1..Len(p.payload) : p.payload[k] = Fragment(m, k - 1)
    <3>1. \A k \in 1..1 : k = 1 /\ k - 1 = 0
      OBVIOUS
    <3> QED
      BY <2>3, <2>5, <3>1
  <2>10. UnderWay(c, p, [message |-> m, next |-> 1])
    BY <1>3, <2>3, <2>4, <2>5, <2>8, <2>9 DEF UnderWay
  <2>11. UnderWay(c, p, sending'[c]) /\ sending'[c].message = m
    BY <2>7, <2>10
  <2> QED
    BY <1>3, <1>4, <1>6, <2>1, <2>11 DEF StartOK
<1> QED
  BY <1>7, <1>8, <1>9

ContinueOK(c, m) ==
    /\ UNCHANGED serial
    /\ sending' = [sending EXCEPT ![c] = sending'[c]]
    /\ \/ pending[c] = None /\ UNCHANGED <<pending, dispatched>>
       \/ /\ pending[c] # None /\ m \in Messages /\ MessageOf(pending[c].payload) = m
          /\ \E payload \in Seq(Fragments) :
               /\ MessageOf(payload) = m
               /\ \A k \in 1..Len(payload) : payload[k] = Fragment(m, k - 1)
               /\ \/ /\ pending' = [pending EXCEPT ![c] = None]
                     /\ dispatched' = [cid |-> c, command |-> m.command, payload |-> payload]
                     /\ Len(payload) = PacketCount(m) /\ m.cid = c
                  \/ \E p : /\ pending' = [pending EXCEPT ![c] = p]
                            /\ UNCHANGED dispatched
                            /\ UnderWay(c, p, sending'[c]) /\ p.payload = payload

\* A continuation packet: nothing is under way, or it is the next packet of what is, and
\* completes it or not.
LEMMA ContinueWhole ==
    ASSUME Lossless, WholeInv, NEW c \in Cids, ContinueMessage(c),
           NEW m, m = sending[c].message
    PROVE  ContinueOK(c, m)
<1> DEFINE p == pending[c]
           k == sending[c].next
           payload == Append(p.payload, Fragment(m, k))
<1>1. UNCHANGED serial /\ HandleContinuationPacket(c, m, k) /\ SendingNext(c, m, k + 1)
  BY DEF ContinueMessage
<1>2. sending' = [sending EXCEPT ![c] = sending'[c]]
  BY <1>1 DEF SendingNext, WholeInv
<1>3. CASE p = None
  BY <1>1, <1>2, <1>3 DEF HandleContinuationPacket, NoDispatch, ContinueOK
<1>4. CASE p # None
  <2>1. PendingOK(p) /\ p.expected_len <= MAX_PAYLOAD_SIZE /\ m \in Messages /\ m.cid = c
        /\ p.command = m.command /\ k = Len(p.payload) /\ p \in PendingRequests
        /\ \A i \in 1..k : p.payload[i] = Fragment(m, i - 1)
    <3>1. UnderWay(c, p, sending[c])
      BY <1>4 DEF WholeInv
    <3>2. p \in PendingRequests
      BY <3>1 DEF UnderWay
    <3>3. p.expected_len \in 0..MAX_PAYLOAD_SIZE
      BY <3>2 DEF PendingRequests
    <3>4. p.expected_len <= MAX_PAYLOAD_SIZE
      BY <3>3, Sizes
    <3> QED
      BY <3>1, <3>2, <3>4 DEF UnderWay
  <2>2. k \in Nat /\ k > 0 /\ p.payload \in Seq(Fragments) /\ p.next_sequence = k - 1
        /\ p.expected_len = p.payload[1].message.len
    BY <2>1 DEF PendingOK
  <2>3. p.payload[1] = Fragment(m, 0) /\ p.payload[1].message = m
    <3>1. 1 \in 1..k /\ 1 - 1 = 0
      BY <2>2
    <3> QED
      BY <2>1, <3>1 DEF Fragment
  <2>4. m.len \in Nat
    BY <2>1, ClientAssumption DEF Messages, Message
  <2>5. p.expected_len \in Nat
    BY <2>2, <2>3, <2>4
  <2>6. InSequence(p, k)
    <3>1. k \in 1..SEQUENCES
      BY <2>1, <2>5, PrefixBound
    <3>2. (k - 1) % SEQUENCES = k - 1
      BY <3>1, Remainder
    <3> HIDE DEF k, p
    <3> QED
      BY <2>2, <3>2 DEF InSequence, SequenceOf
  <2>7. Fragment(m, k) \in Fragments /\ Fragment(m, k).k = Len(p.payload)
    BY <2>1, <2>2 DEF Fragment, Fragments
  <2>8. NextOK(p, payload)
    <3> HIDE DEF p
    <3> QED
      BY <2>1, <2>5, <2>7, NextPacket
  <2>9. \A i \in 1..Len(payload) : payload[i] = Fragment(m, i - 1)
    <3>1. Len(payload) = k + 1 /\ \A i \in 1..k : payload[i] = p.payload[i]
      BY <2>1, <2>2
    <3>2. payload[k + 1] = Fragment(m, k) /\ (k + 1) - 1 = k
      BY <2>1, <2>2
    <3> HIDE DEF k, payload, p
    <3> QED
      BY <2>1, <2>2, <3>1, <3>2
  <2>10. payload \in Seq(Fragments) /\ payload[1].message = m
         /\ Len(payload) = Len(p.payload) + 1
    BY <2>3, <2>8 DEF NextOK
  <2> HIDE DEF payload
  <2>11. CASE p.got + Chunk(p) = p.expected_len
    <3>1. pending' = [pending EXCEPT ![c] = None]
          /\ dispatched' = [cid |-> c, command |-> m.command, payload |-> payload]
      BY <1>1, <1>4, <2>1, <2>6, <2>11
         DEF HandleContinuationPacket, Dispatch, payload, Chunk
    <3>2. Len(payload) = PacketCount(m)
      BY <2>8, <2>10, <2>11 DEF NextOK
    <3> QED
      BY <1>1, <1>2, <1>4, <2>1, <2>3, <2>9, <2>10, <3>1, <3>2 DEF MessageOf, ContinueOK
  <2>12. CASE p.got + Chunk(p) # p.expected_len
    <3> DEFINE q == Extended(p, payload)
    <3>1. pending' = [pending EXCEPT ![c] = q] /\ dispatched' = dispatched
          /\ outcome'.kind = "NeedMore"
      BY <1>1, <1>4, <2>6, <2>12
         DEF HandleContinuationPacket, NoDispatch, Outcome, payload, Chunk, Extended
    <3>2. PendingOK(q) /\ q.payload = payload /\ q.expected_len = p.expected_len
          /\ q.command = p.command
      BY <2>8, <2>12 DEF NextOK, Extended
    <3> HIDE DEF q
    <3>3. k + 1 < PacketCount(m)
      BY <2>1, <2>5, <2>10, <3>2, MorePackets
    <3>4. sending'[c] = [message |-> m, next |-> k + 1]
      BY <1>1, <3>1, <3>3 DEF SendingNext, WholeInv
    <3>5. UnderWay(c, q, sending'[c])
      <4>1. sending'[c].message = m /\ sending'[c].next = Len(payload)
        BY <2>1, <2>10, <3>4
      <4>2. q \in PendingRequests
        <5>1. Len(payload) \in 1..SEQUENCES
          BY <2>1, <2>5, <3>2, PrefixBound
        <5>2. q.got \in Nat /\ q.next_sequence = Len(payload) - 1
          <6>1. q.got = INIT_DATA + (Len(payload) - 1) * CONT_DATA
                /\ q.next_sequence = Len(payload) - 1
            BY <3>2 DEF PendingOK
          <6>2. Len(payload) - 1 \in Nat /\ INIT_DATA \in Nat /\ CONT_DATA \in Nat
            BY <5>1, Sizes
          <6>3. (Len(payload) - 1) * CONT_DATA \in Nat
            BY <6>2
          <6> QED
            BY <6>1, <6>2, <6>3
        <5>3. q.next_sequence \in 0..(2 * SEQUENCES - 1)
          BY <5>1, <5>2
        <5>4. q.command \in KnownCommands /\ q.expected_len \in 0..MAX_PAYLOAD_SIZE
          BY <2>1, <3>2 DEF PendingRequests
        <5>5. q = [command |-> q.command, expected_len |-> q.expected_len, got |-> q.got,
                   payload |-> q.payload, next_sequence |-> q.next_sequence]
          BY DEF q, Extended
        <5> QED
          BY <2>10, <3>2, <5>2, <5>3, <5>4, <5>5 DEF PendingRequests
      <4> HIDE DEF k
      <4> QED
        BY <2>1, <2>9, <3>2, <4>1, <4>2 DEF UnderWay
    <3> QED
      BY <1>1, <1>2, <1>4, <2>1, <2>3, <2>9, <2>10, <3>1, <3>2, <3>5 DEF MessageOf, ContinueOK
  <2> QED
    BY <2>11, <2>12
<1> QED
  BY <1>3, <1>4

\* A whole message is intact.
LEMMA Intact ==
    ASSUME NEW c \in Cids, NEW m, NEW payload \in Seq(Fragments), m.cid = c,
           MessageOf(payload) = m, Len(payload) = PacketCount(m),
           \A k \in 1..Len(payload) : payload[k] = Fragment(m, k - 1),
           dispatched' = [cid |-> c, command |-> m.command, payload |-> payload]
    PROVE  DispatchedIntact' /\ Whole(payload)
<1>1. DOMAIN payload = 1..Len(payload)
  OBVIOUS
<1>2. Whole(payload)
  BY <1>1 DEF Whole
<1>3. dispatched'.payload = payload /\ dispatched'.cid = c /\ dispatched'.command = m.command
  OBVIOUS
<1> QED
  BY <1>2, <1>3 DEF DispatchedIntact

\* A whole first packet.
LEMMA OnePacket ==
    ASSUME NEW m \in Messages
    PROVE  LET payload == <<Fragment(m, 0)>>
           IN  /\ payload \in Seq(Fragments) /\ MessageOf(payload) = m /\ Len(payload) = 1
               /\ \A k \in 1..Len(payload) : payload[k] = Fragment(m, k - 1)
BY DEF Fragment, Fragments, MessageOf

\* Every step keeps the request under way in step with its client.
LEMMA WholeStep ==
    ASSUME Lossless, WholeInv, [Next]_vars
    PROVE  WholeInv'
<1>1. ASSUME NEW c \in Cids, serial' \in [Cids -> 0..MAX_MESSAGES],
             sending' = [sending EXCEPT ![c] = sending'[c]],
             NEW p, pending' = [pending EXCEPT ![c] = p],
             p # None => UnderWay(c, p, sending'[c]),
             DispatchedIntact'
      PROVE  WholeInv'
  <2>1. pending' = [d \in Cids |-> pending'[d]] /\ sending' = [d \in Cids |-> sending'[d]]
    BY <1>1 DEF WholeInv
  <2>2. \A d \in Cids : IF d = c THEN pending'[d] = p
                        ELSE pending'[d] = pending[d] /\ sending'[d] = sending[d]
    BY <1>1 DEF WholeInv
  <2>3. \A d \in Cids : pending'[d] # None => UnderWay(d, pending'[d], sending'[d])
    BY <1>1, <2>2 DEF WholeInv
  <2> QED
    BY <1>1, <2>1, <2>3 DEF WholeInv, UnderWay, PendingOK
<1>2. UNCHANGED dispatched => DispatchedIntact'
  BY DEF WholeInv, DispatchedIntact
<1>3. ASSUME NEW c \in Cids, NEW r \in Requests[c], StartMessage(c, r)
      PROVE  WholeInv'
  <2> PICK m : m = Message(c, r, serial[c] + 1)
    OBVIOUS
  <2>1. /\ m \in Messages /\ m.cid = c
        /\ serial' \in [Cids -> 0..MAX_MESSAGES]
        /\ sending' = [sending EXCEPT ![c] = sending'[c]]
        /\ \/ /\ pending' = [pending EXCEPT ![c] = None] /\ UNCHANGED dispatched
           \/ /\ pending' = [pending EXCEPT ![c] = None]
              /\ dispatched' = [cid |-> c, command |-> m.command,
                                payload |-> <<Fragment(m, 0)>>]
              /\ PacketCount(m) = 1
           \/ \E p : /\ pending' = [pending EXCEPT ![c] = p] /\ UNCHANGED dispatched
                     /\ UnderWay(c, p, sending'[c])
    <3>1. StartOK(c, m)
      BY <1>3, StartWhole
    <3> QED
      BY <3>1 DEF StartOK
  <2>2. CASE UNCHANGED dispatched
    <3>1. PICK p : pending' = [pending EXCEPT ![c] = p] /\ (p # None => UnderWay(c, p, sending'[c]))
      <4>1. CASE \E p : pending' = [pending EXCEPT ![c] = p] /\ UnderWay(c, p, sending'[c])
        BY <4>1
      <4>2. CASE pending' = [pending EXCEPT ![c] = None]
        BY <4>2
      <4> QED
        BY <2>1, <4>1, <4>2
    <3> QED
      BY <1>1, <1>2, <2>1, <2>2, <3>1
  <2>3. CASE /\ pending' = [pending EXCEPT ![c] = None]
             /\ dispatched' = [cid |-> c, command |-> m.command,
                               payload |-> <<Fragment(m, 0)>>]
             /\ PacketCount(m) = 1
    <3>0. PICK payload : payload = <<Fragment(m, 0)>>
      OBVIOUS
    <3>1. payload \in Seq(Fragments) /\ MessageOf(payload) = m /\ Len(payload) = PacketCount(m)
          /\ (\A k \in 1..Len(payload) : payload[k] = Fragment(m, k - 1))
          /\ dispatched' = [cid |-> c, command |-> m.command, payload |-> payload]
      BY <2>1, <2>3, <3>0, OnePacket
    <3>2. DispatchedIntact'
      BY <2>1, <3>1, Intact
    <3> QED
      BY <1>1, <2>1, <2>3, <3>2
  <2> QED
    BY <2>1, <2>2, <2>3
<1>4. ASSUME NEW c \in Cids, ContinueMessage(c)
      PROVE  WholeInv'
  <2> PICK m : m = sending[c].message
    OBVIOUS
  <2>0. ContinueOK(c, m)
    BY <1>4, ContinueWhole
  <2>1. UNCHANGED serial /\ sending' = [sending EXCEPT ![c] = sending'[c]]
    BY <2>0 DEF ContinueOK
  <2>2. serial' \in [Cids -> 0..MAX_MESSAGES]
    BY <2>1 DEF WholeInv
  <2>3. CASE pending[c] = None /\ UNCHANGED <<pending, dispatched>>
    <3>1. pending' = [pending EXCEPT ![c] = None]
      BY <2>3 DEF WholeInv
    <3> QED
      BY <1>1, <1>2, <2>1, <2>2, <2>3, <3>1
  <2>4. CASE ~(pending[c] = None /\ UNCHANGED <<pending, dispatched>>)
    <3>1. PICK payload \in Seq(Fragments) :
             /\ MessageOf(payload) = m
             /\ \A k \in 1..Len(payload) : payload[k] = Fragment(m, k - 1)
             /\ \/ /\ pending' = [pending EXCEPT ![c] = None]
                   /\ dispatched' = [cid |-> c, command |-> m.command, payload |-> payload]
                   /\ Len(payload) = PacketCount(m) /\ m.cid = c
                \/ \E p : /\ pending' = [pending EXCEPT ![c] = p]
                          /\ UNCHANGED dispatched
                          /\ UnderWay(c, p, sending'[c])
      BY <2>0, <2>4 DEF ContinueOK
    <3>2. CASE /\ pending' = [pending EXCEPT ![c] = None]
               /\ dispatched' = [cid |-> c, command |-> m.command, payload |-> payload]
               /\ Len(payload) = PacketCount(m) /\ m.cid = c
      <4>1. DispatchedIntact'
        BY <3>1, <3>2, Intact
      <4> QED
        BY <1>1, <2>1, <2>2, <3>2, <4>1
    <3>3. CASE \E p : /\ pending' = [pending EXCEPT ![c] = p]
                      /\ UNCHANGED dispatched
                      /\ UnderWay(c, p, sending'[c])
      BY <1>1, <1>2, <2>1, <2>2, <3>3
    <3> QED
      BY <3>1, <3>2, <3>3
  <2> QED
    BY <2>3, <2>4
<1>5. CASE UNCHANGED vars
  BY <1>5 DEF vars, WholeInv, UnderWay, PendingOK, DispatchedIntact
<1>6. ~\E c \in Cids : LoseContinuationPacket(c) \/ \E r \in Requests[c] : LoseInitPacket(c, r)
  BY DEF Lossless, LoseContinuationPacket, LoseInitPacket
<1> QED
  BY <1>3, <1>4, <1>5, <1>6 DEF Next

\* Without loss, the request PacketHandler assembles for a channel is always what the
\* channel's client sent so far of one message, and what it dispatches is whole.
THEOREM WholeInvariance ==
    ASSUME Lossless PROVE Spec => []WholeInv
<1>1. Init => WholeInv
  BY DEF Init, WholeInv, DispatchedIntact
<1>2. WholeInv /\ [Next]_vars => WholeInv'
  BY WholeStep
<1> QED
  BY <1>1, <1>2, PTL DEF Spec

\* A dispatched request is one message of the channel's client, whole and under the
\* command it was sent with (dispatch).
THEOREM IntactRequests ==
    ASSUME Lossless PROVE Spec => []DispatchedIntact
<1>1. WholeInv => DispatchedIntact
  BY DEF WholeInv
<1> QED
  BY WholeInvariance, <1>1, PTL

\* The message under way on a channel.
LEMMA UnderWayMessage ==
    ASSUME NEW c \in Cids, NEW p, NEW s, UnderWay(c, p, s)
    PROVE  p # None /\ MessageOf(p.payload) = s.message
<1>1. p \in PendingRequests /\ Len(p.payload) \in Nat /\ Len(p.payload) > 0
      /\ \A k \in 1..Len(p.payload) : p.payload[k] = Fragment(s.message, k - 1)
  BY DEF UnderWay, PendingOK
<1>2. p.payload[1] = Fragment(s.message, 0)
  <2>1. 1 \in 1..Len(p.payload) /\ 1 - 1 = 0
    BY <1>1
  <2> QED
    BY <1>1, <2>1
<1> QED
  BY <1>1, <1>2, NoneAssumption DEF MessageOf, Fragment

\* PacketHandler implements message delivery: for any channels, messages and sizes, what
\* it dispatches are the messages of the channel's client, whole, in their order and each
\* at most once.
THEOREM Refinement ==
    ASSUME Lossless PROVE Spec => RefinesDelivery
<1>1. Init => Delivery!Init
  BY DEF Init, Delivery!Init, Outstanding, Delivered
<1>2. WholeInv /\ [Next]_vars => [Delivery!Next]_(Delivery!vars)
  <2> SUFFICES ASSUME WholeInv, [Next]_vars
               PROVE  [Delivery!Next]_(Delivery!vars)
    OBVIOUS
  <2>1. ASSUME NEW c \in Cids, NEW p, pending' = [pending EXCEPT ![c] = p],
               NEW m, IF p = None THEN m = None ELSE m = MessageOf(p.payload)
        PROVE  Outstanding' = [Outstanding EXCEPT ![c] = m]
    BY <2>1 DEF Outstanding, WholeInv
  <2>2. UNCHANGED dispatched => UNCHANGED Delivered
    BY DEF Delivered, Whole, MessageOf, NoMessage
  <2>3. ASSUME NEW c \in Cids, NEW m, NEW payload, MessageOf(payload) = m, Whole(payload),
               dispatched' = [cid |-> c, command |-> m.command, payload |-> payload],
               m \in Messages, payload \in Seq(Fragments)
        PROVE  Delivered' = [cid |-> c, message |-> m]
    <3>1. dispatched'.payload = payload /\ dispatched'.cid = c
      BY <2>3
    <3>2. dispatched' # None
      <4>1. m.command \in KnownCommands
        BY <2>3 DEF Lossless, Messages, Message
      <4>2. dispatched' \in DispatchedRequests
        BY <2>3, <4>1 DEF DispatchedRequests
      <4> QED
        BY <4>2, NoneAssumption
    <3> QED
      BY <2>3, <3>1, <3>2 DEF Delivered
  <2>4. ASSUME NEW c \in Cids, NEW r \in Requests[c], StartMessage(c, r)
        PROVE  Delivery!Next
    <3>0. PICK m : m = Message(c, r, serial[c] + 1)
      OBVIOUS
    <3>1. /\ m \in Messages /\ m.cid = c /\ m.no = serial[c] + 1
          /\ serial' = [serial EXCEPT ![c] = m.no]
          /\ \/ /\ pending' = [pending EXCEPT ![c] = None] /\ UNCHANGED dispatched
             \/ /\ pending' = [pending EXCEPT ![c] = None]
                /\ dispatched' = [cid |-> c, command |-> m.command,
                                  payload |-> <<Fragment(m, 0)>>]
                /\ PacketCount(m) = 1
             \/ \E p : /\ pending' = [pending EXCEPT ![c] = p] /\ UNCHANGED dispatched
                       /\ UnderWay(c, p, sending'[c]) /\ sending'[c].message = m
      <4>1. StartOK(c, m)
        BY <2>4, <3>0, StartWhole
      <4> QED
        BY <4>1 DEF StartOK
    <3>2. Delivery!Begin(c, m)
      BY <3>1 DEF Delivery!Begin
    <3>3. CASE pending' = [pending EXCEPT ![c] = None] /\ UNCHANGED dispatched
      <4>1. Delivery!Refuse(c, m)
        BY <2>1, <2>2, <3>2, <3>3 DEF Delivery!Refuse
      <4> QED
        BY <3>1, <4>1 DEF Delivery!Next
    <3>4. CASE /\ pending' = [pending EXCEPT ![c] = None]
               /\ dispatched' = [cid |-> c, command |-> m.command,
                                 payload |-> <<Fragment(m, 0)>>]
               /\ PacketCount(m) = 1
      <4>0. PICK payload : payload = <<Fragment(m, 0)>>
        OBVIOUS
      <4>1. payload \in Seq(Fragments) /\ MessageOf(payload) = m
            /\ Len(payload) = PacketCount(m)
            /\ (\A k \in 1..Len(payload) : payload[k] = Fragment(m, k - 1))
            /\ dispatched' = [cid |-> c, command |-> m.command, payload |-> payload]
        BY <3>1, <3>4, <4>0, OnePacket
      <4>2. Whole(payload)
        BY <3>1, <4>1, Intact
      <4>3. Delivered' = [cid |-> c, message |-> m]
        BY <2>3, <3>1, <4>1, <4>2
      <4>4. Delivery!SendAndDeliver(c, m)
        BY <2>1, <3>2, <3>4, <4>3 DEF Delivery!SendAndDeliver
      <4> QED
        BY <3>1, <4>4 DEF Delivery!Next
    <3>5. CASE \E p : /\ pending' = [pending EXCEPT ![c] = p] /\ UNCHANGED dispatched
                      /\ UnderWay(c, p, sending'[c]) /\ sending'[c].message = m
      <4>1. PICK p : /\ pending' = [pending EXCEPT ![c] = p] /\ UNCHANGED dispatched
                     /\ UnderWay(c, p, sending'[c]) /\ sending'[c].message = m
        BY <3>5
      <4>2. p # None /\ MessageOf(p.payload) = m
        BY <4>1, UnderWayMessage
      <4>3. Delivery!Send(c, m)
        BY <2>1, <2>2, <3>2, <4>1, <4>2 DEF Delivery!Send
      <4> QED
        BY <3>1, <4>3 DEF Delivery!Next
    <3> QED
      BY <3>1, <3>3, <3>4, <3>5
  <2>5. ASSUME NEW c \in Cids, ContinueMessage(c)
        PROVE  Delivery!Next \/ UNCHANGED Delivery!vars
    <3>0. PICK m : m = sending[c].message
      OBVIOUS
    <3>1. ContinueOK(c, m)
      BY <2>5, <3>0, ContinueWhole
    <3>2. UNCHANGED serial
      BY <3>1 DEF ContinueOK
    <3>3. CASE pending[c] = None /\ UNCHANGED <<pending, dispatched>>
      <4>1. UNCHANGED Outstanding
        BY <3>3 DEF Outstanding, MessageOf
      <4> QED
        BY <2>2, <3>2, <3>3, <4>1 DEF Delivery!vars
    <3>4. CASE ~(pending[c] = None /\ UNCHANGED <<pending, dispatched>>)
      <4>1. pending[c] # None /\ m \in Messages /\ MessageOf(pending[c].payload) = m
        BY <3>4, <3>1 DEF ContinueOK
      <4>2. PICK payload \in Seq(Fragments) :
               /\ MessageOf(payload) = m
               /\ \A k \in 1..Len(payload) : payload[k] = Fragment(m, k - 1)
               /\ \/ /\ pending' = [pending EXCEPT ![c] = None]
                     /\ dispatched' = [cid |-> c, command |-> m.command, payload |-> payload]
                     /\ Len(payload) = PacketCount(m) /\ m.cid = c
                  \/ \E p : /\ pending' = [pending EXCEPT ![c] = p]
                            /\ UNCHANGED dispatched
                            /\ UnderWay(c, p, sending'[c]) /\ p.payload = payload
        BY <3>4, <3>1 DEF ContinueOK
      <4>3. Outstanding[c] = m
        BY <4>1 DEF Outstanding
      <4>4. CASE /\ pending' = [pending EXCEPT ![c] = None]
                 /\ dispatched' = [cid |-> c, command |-> m.command, payload |-> payload]
                 /\ Len(payload) = PacketCount(m) /\ m.cid = c
        <5>1. Whole(payload)
          BY <4>2, <4>4, Intact
        <5>2. Delivered' = [cid |-> c, message |-> m]
          BY <2>3, <4>1, <4>2, <4>4, <5>1
        <5>3. m # None
          BY <4>1, NoneAssumption
        <5>4. Delivery!Deliver(c)
          BY <2>1, <3>2, <4>3, <4>4, <5>2, <5>3 DEF Delivery!Deliver
        <5> QED
          BY <5>4 DEF Delivery!Next
      <4>5. CASE \E p : /\ pending' = [pending EXCEPT ![c] = p]
                        /\ UNCHANGED dispatched
                        /\ UnderWay(c, p, sending'[c]) /\ p.payload = payload
        <5>1. PICK p : /\ pending' = [pending EXCEPT ![c] = p]
                       /\ UNCHANGED dispatched
                       /\ UnderWay(c, p, sending'[c]) /\ p.payload = payload
          BY <4>5
        <5>2. p # None
          BY <5>1, UnderWayMessage
        <5>3. Outstanding' = [Outstanding EXCEPT ![c] = m]
          BY <2>1, <4>2, <5>1, <5>2
        <5>4. UNCHANGED Outstanding
          BY <4>3, <5>3 DEF Outstanding
        <5> QED
          BY <2>2, <3>2, <5>1, <5>4 DEF Delivery!vars
      <4> QED
        BY <4>2, <4>4, <4>5
    <3> QED
      BY <3>3, <3>4
  <2>6. CASE UNCHANGED vars
    <3>1. UNCHANGED Outstanding
      BY <2>6 DEF vars, Outstanding, MessageOf
    <3> QED
      BY <2>2, <2>6, <3>1 DEF vars, Delivery!vars
  <2>7. ~\E c \in Cids : LoseContinuationPacket(c) \/ \E r \in Requests[c] : LoseInitPacket(c, r)
    BY DEF Lossless, LoseContinuationPacket, LoseInitPacket
  <2> QED
    BY <2>4, <2>5, <2>6, <2>7 DEF Next
<1> QED
  BY <1>1, <1>2, WholeInvariance, PTL DEF Spec, RefinesDelivery, Delivery!Spec

----------------------------------------------------------------------------
(* Types *)

\* What a dispatch, or none, leaves: the ids and the outcome.
AnswerTypes ==
    /\ next_cid \in 1..BROADCAST_CID
    /\ outcome \in [cid : Cids \cup {None}, kind : Outcomes, given : 0..BROADCAST_CID]
    /\ allocated \subseteq 1..BROADCAST_CID
    /\ allocations \in Nat

\* An entry of PacketHandler.pending: no more bytes than were announced.
EntryType(p) == p # None => p \in PendingRequests /\ p.got <= p.expected_len

TypeInv ==
    /\ TypeOK
    /\ pending = [c \in Cids |-> pending[c]]
    /\ sending = [c \in Cids |-> sending[c]]

\* The parts of the type invariant.
LEMMA TypeParts ==
    TypeOK <=> /\ \A c \in Cids : EntryType(pending[c])
               /\ AnswerTypes
               /\ \A c \in Cids :
                    sending[c] = None \/ sending[c] \in [message : Messages, next : Nat \ {0}]
               /\ serial \in [Cids -> 0..MAX_MESSAGES]
BY DEF TypeOK, AnswerTypes, EntryType

\* A packet that dispatches nothing answers without an id.
LEMMA NoDispatchTypes ==
    ASSUME AnswerTypes, NEW c \in Cids, NEW kind \in Outcomes, NoDispatch, Outcome(c, kind, 0)
    PROVE  AnswerTypes'
BY DEF AnswerTypes, NoDispatch, Outcome

\* dispatch: the ids stay channel ids, and the entry of the channel is gone.
LEMMA DispatchTypes ==
    ASSUME AnswerTypes, NEW c \in Cids, NEW command \in KnownCommands, NEW len, NEW payload,
           Dispatch(c, command, len, payload)
    PROVE  AnswerTypes' /\ pending' = [pending EXCEPT ![c] = None]
<1>1. c \in 0..BROADCAST_CID /\ 0 \in 0..BROADCAST_CID
  OBVIOUS
<1>2. CASE command = "Init" /\ c = BROADCAST_CID
  <2>1. AllocateCid(c, len)
    BY <1>2 DEF Dispatch
  <2>2. next_cid' \in 1..BROADCAST_CID /\ allocations' \in Nat /\ next_cid \in 0..BROADCAST_CID
    BY <2>1 DEF AllocateCid, AnswerTypes
  <2>3. allocated' \subseteq 1..BROADCAST_CID
    BY <2>1 DEF AllocateCid, AnswerTypes
  <2>4. outcome' \in [cid : Cids \cup {None}, kind : Outcomes, given : 0..BROADCAST_CID]
    BY <1>1, <2>1, <2>2 DEF AllocateCid, Outcome, Outcomes
  <2> QED
    BY <2>2, <2>3, <2>4 DEF Dispatch, AnswerTypes
<1>3. CASE ~(command = "Init" /\ c = BROADCAST_CID)
  <2>1. PICK kind, given :
           /\ kind = CASE command = "Init" /\ len # NONCE_SIZE -> "ErrorLength"
                       [] command \in {"Cancel", "Error"} -> "ErrorCommand"
                       [] OTHER -> command
           /\ given = IF command = "Init" /\ len = NONCE_SIZE THEN c ELSE 0
           /\ Outcome(c, kind, given) /\ UNCHANGED <<next_cid, allocated, allocations>>
    BY <1>3 DEF Dispatch
  <2>2. kind \in Outcomes
    <3>1. CASE command = "Init" /\ len # NONCE_SIZE
      BY <2>1, <3>1 DEF Outcomes
    <3>2. CASE command \in {"Cancel", "Error"}
      BY <2>1, <3>2 DEF Outcomes
    <3>3. CASE ~(command = "Init" /\ len # NONCE_SIZE) /\ command \notin {"Cancel", "Error"}
      BY <2>1, <3>3 DEF Outcomes, KnownCommands
    <3> QED
      BY <3>1, <3>2, <3>3
  <2>3. given \in 0..BROADCAST_CID
    BY <1>1, <2>1
  <2> QED
    BY <2>1, <2>2, <2>3 DEF Dispatch, AnswerTypes, Outcome
<1> QED
  BY <1>2, <1>3

\* What a packet on channel c leaves in pending is an entry.
PacketTypes(c) ==
    /\ AnswerTypes'
    /\ pending' = [pending EXCEPT ![c] = pending'[c]]
    /\ EntryType(pending'[c])

\* handle_init_packet keeps the types, whatever the client announces.
LEMMA InitTypes ==
    ASSUME TypeInv, NEW c \in Cids, NEW m \in Messages, m.len \in Nat, HandleInitPacket(c, m)
    PROVE  PacketTypes(c)
<1>0. AnswerTypes /\ EntryType(pending[c]) /\ pending = [d \in Cids |-> pending[d]]
  BY TypeParts DEF TypeInv
<1> DEFINE first_len == Least(m.len, INIT_DATA)
           payload == <<Fragment(m, 0)>>
<1>1. CASE m.len > MAX_PAYLOAD_SIZE
  <2>1. /\ pending' = [pending EXCEPT ![c] = None]
        /\ Outcome(c, "ErrorLength", 0) /\ NoDispatch
    BY <1>1 DEF HandleInitPacket
  <2>2. AnswerTypes'
    BY <1>0, <2>1, NoDispatchTypes DEF Outcomes
  <2>3. pending'[c] = None
    BY <1>0, <2>1
  <2> QED
    BY <2>1, <2>2, <2>3 DEF PacketTypes, EntryType
<1>2. CASE ~(m.len > MAX_PAYLOAD_SIZE) /\ m.command \notin KnownCommands
  <2>1. Outcome(c, "ErrorCommand", 0) /\ NoDispatch /\ pending' = pending
    BY <1>2 DEF HandleInitPacket
  <2>2. AnswerTypes'
    BY <1>0, <2>1, NoDispatchTypes DEF Outcomes
  <2> QED
    BY <1>0, <2>1, <2>2 DEF PacketTypes
<1>3. CASE ~(m.len > MAX_PAYLOAD_SIZE) /\ m.command \in KnownCommands /\ first_len = m.len
  <2>1. Dispatch(c, m.command, m.len, payload)
    BY <1>3 DEF HandleInitPacket
  <2>2. AnswerTypes' /\ pending' = [pending EXCEPT ![c] = None]
    BY <1>0, <1>3, <2>1, DispatchTypes
  <2>3. pending'[c] = None
    BY <1>0, <2>2
  <2> QED
    BY <2>2, <2>3 DEF PacketTypes, EntryType
<1>4. CASE ~(m.len > MAX_PAYLOAD_SIZE) /\ m.command \in KnownCommands /\ first_len # m.len
  <2> DEFINE p == [command |-> m.command, expected_len |-> m.len, got |-> first_len,
                   payload |-> payload, next_sequence |-> 0]
  <2>1. pending' = [pending EXCEPT ![c] = p] /\ Outcome(c, "NeedMore", 0) /\ NoDispatch
    BY <1>4 DEF HandleInitPacket
  <2>2. AnswerTypes'
    BY <1>0, <2>1, NoDispatchTypes DEF Outcomes
  <2>3. m.len \in 0..MAX_PAYLOAD_SIZE /\ first_len \in Nat /\ first_len <= m.len
    BY <1>4, Sizes DEF Least
  <2>4. payload \in Seq(Fragments)
    BY DEF Fragment, Fragments
  <2>5. 0 \in 0..(2 * SEQUENCES - 1)
    OBVIOUS
  <2>6. EntryType(p)
    BY <1>4, <2>3, <2>4, <2>5 DEF EntryType, PendingRequests
  <2>7. pending'[c] = p
    BY <1>0, <2>1
  <2> QED
    BY <2>1, <2>2, <2>6, <2>7 DEF PacketTypes
<1> QED
  BY <1>1, <1>2, <1>3, <1>4

\* handle_continuation_packet keeps the types: the sequence number wraps as a u8 does,
\* and no chunk is taken beyond the announced length.
LEMMA ContinuationTypes ==
    ASSUME TypeInv, NEW c \in Cids, NEW m \in Messages, NEW k \in Nat,
           HandleContinuationPacket(c, m, k)
    PROVE  PacketTypes(c)
<1>0. AnswerTypes /\ EntryType(pending[c]) /\ pending = [d \in Cids |-> pending[d]]
  BY TypeParts DEF TypeInv
<1>p. PICK p, chunk_len, payload :
        /\ p = pending[c] /\ chunk_len = Least(p.expected_len - p.got, CONT_DATA)
        /\ payload = Append(p.payload, Fragment(m, k))
  OBVIOUS
<1>1. CASE p = None
  <2>1. Outcome(c, "none", 0) /\ NoDispatch /\ pending' = pending
    BY <1>1, <1>p DEF HandleContinuationPacket
  <2>2. AnswerTypes'
    BY <1>0, <2>1, NoDispatchTypes DEF Outcomes
  <2> QED
    BY <1>0, <2>1, <2>2 DEF PacketTypes
<1>2. CASE p # None /\ ~InSequence(p, k)
  <2>1. /\ pending' = [pending EXCEPT ![c] = None]
        /\ Outcome(c, "ErrorSeq", 0) /\ NoDispatch
    BY <1>2, <1>p DEF HandleContinuationPacket
  <2>2. AnswerTypes'
    BY <1>0, <2>1, NoDispatchTypes DEF Outcomes
  <2>3. pending'[c] = None
    BY <1>0, <2>1
  <2> QED
    BY <2>1, <2>2, <2>3 DEF PacketTypes, EntryType
<1>3. CASE p # None /\ InSequence(p, k)
  <2>0. p \in PendingRequests /\ p.got <= p.expected_len
    BY <1>0, <1>3, <1>p DEF EntryType
  <2>1. CASE p.got + chunk_len = p.expected_len
    <3>1. Dispatch(c, p.command, p.expected_len, payload)
      BY <1>3, <1>p, <2>1 DEF HandleContinuationPacket
    <3>2. p.command \in KnownCommands
      BY <2>0 DEF PendingRequests
    <3>3. AnswerTypes' /\ pending' = [pending EXCEPT ![c] = None]
      BY <1>0, <3>1, <3>2, DispatchTypes
    <3>4. pending'[c] = None
      BY <1>0, <3>3
    <3> QED
      BY <3>3, <3>4 DEF PacketTypes, EntryType
  <2>2. CASE p.got + chunk_len # p.expected_len
    <3>q. PICK q : q = [command |-> p.command, expected_len |-> p.expected_len,
                        got |-> p.got + chunk_len, payload |-> payload,
                        next_sequence |-> (p.next_sequence + 1) % (2 * SEQUENCES)]
      OBVIOUS
    <3>1. pending' = [pending EXCEPT ![c] = q] /\ Outcome(c, "NeedMore", 0) /\ NoDispatch
      BY <1>3, <1>p, <2>2, <3>q DEF HandleContinuationPacket
    <3>2. AnswerTypes'
      BY <1>0, <3>1, NoDispatchTypes DEF Outcomes
    <3>3. /\ p.got \in Nat /\ p.expected_len \in 0..MAX_PAYLOAD_SIZE
          /\ p.next_sequence \in Nat /\ p.payload \in Seq(Fragments)
          /\ p.command \in KnownCommands
      BY <2>0 DEF PendingRequests
    <3>4. p.got + chunk_len \in Nat /\ p.got + chunk_len <= p.expected_len
      BY <1>p, <2>0, <3>3, Sizes DEF Least
    <3>5. payload \in Seq(Fragments)
      BY <1>p, <3>3 DEF Fragment, Fragments
    <3>6. (p.next_sequence + 1) % (2 * SEQUENCES) \in 0..(2 * SEQUENCES - 1)
      BY <3>3
    <3>7. EntryType(q)
      BY <3>q, <3>3, <3>4, <3>5, <3>6 DEF EntryType, PendingRequests
    <3>8. pending'[c] = q
      BY <1>0, <3>1
    <3> QED
      BY <3>1, <3>2, <3>7, <3>8 DEF PacketTypes
  <2> QED
    BY <2>1, <2>2
<1> QED
  BY <1>1, <1>2, <1>3

\* What a client sends next is a packet of one of its messages.
LEMMA SendingTypes ==
    ASSUME TypeInv, NEW c \in Cids, NEW m \in Messages, NEW k \in Nat \ {0}, NEW more,
           sending' = [sending EXCEPT ![c] = IF more THEN [message |-> m, next |-> k] ELSE None]
    PROVE  /\ sending' = [d \in Cids |-> sending'[d]]
           /\ \A d \in Cids :
                 sending'[d] = None \/ sending'[d] \in [message : Messages, next : Nat \ {0}]
<1>1. /\ sending = [d \in Cids |-> sending[d]]
      /\ \A d \in Cids :
            sending[d] = None \/ sending[d] \in [message : Messages, next : Nat \ {0}]
  BY TypeParts DEF TypeInv
<1>2. [message |-> m, next |-> k] \in [message : Messages, next : Nat \ {0}]
  OBVIOUS
<1>3. \A d \in Cids : sending'[d] = IF d = c THEN IF more THEN [message |-> m, next |-> k] ELSE None
                                    ELSE sending[d]
  BY <1>1
<1> QED
  BY <1>1, <1>2, <1>3

\* The parts put together.
LEMMA PacketsTyped ==
    ASSUME TypeInv, NEW c \in Cids, PacketTypes(c), serial' \in [Cids -> 0..MAX_MESSAGES],
           sending' = [d \in Cids |-> sending'[d]],
           \A d \in Cids :
              sending'[d] = None \/ sending'[d] \in [message : Messages, next : Nat \ {0}]
    PROVE  TypeInv'
<1>1. pending = [d \in Cids |-> pending[d]] /\ \A d \in Cids : EntryType(pending[d])
  BY TypeParts DEF TypeInv
<1>2. AnswerTypes' /\ pending' = [pending EXCEPT ![c] = pending'[c]] /\ EntryType(pending'[c])
  BY DEF PacketTypes
<1>3. pending' = [d \in Cids |-> pending'[d]]
  BY <1>1, <1>2
<1>4. \A d \in Cids : EntryType(pending'[d])
  <2>1. SUFFICES ASSUME NEW d \in Cids PROVE EntryType(pending'[d])
    OBVIOUS
  <2>2. CASE d = c
    BY <1>2, <2>2
  <2>3. CASE d # c
    <3>1. pending'[d] = pending[d]
      BY <1>1, <1>2, <2>3
    <3> QED
      BY <1>1, <3>1
  <2> QED
    BY <2>2, <2>3
<1>5. TypeOK'
  BY <1>2, <1>4 DEF TypeOK, AnswerTypes, EntryType
<1> QED
  BY <1>3, <1>5 DEF TypeInv

\* Every entry, id, outcome and counter keeps its type, for messages of any length and
\* command, whole or not: a request under way never holds more bytes than its first packet
\* announced, its sequence number stays a u8, and every id handed out is a channel id.
THEOREM TypeCorrect == Spec => []TypeOK
<1>1. Init => TypeInv
  BY DEF Init, TypeInv, TypeOK, Outcomes
<1>2. TypeInv /\ [Next]_vars => TypeInv'
  <2> SUFFICES ASSUME TypeInv, [Next]_vars PROVE TypeInv'
    OBVIOUS
  <2>0. /\ serial \in [Cids -> 0..MAX_MESSAGES]
        /\ \A c \in Cids :
              sending[c] = None \/ sending[c] \in [message : Messages, next : Nat \ {0}]
    BY TypeParts DEF TypeInv
  <2>1. ASSUME NEW c \in Cids, NEW r \in Requests[c], serial[c] < MAX_MESSAGES
        PROVE  /\ Message(c, r, serial[c] + 1) \in Messages
               /\ Message(c, r, serial[c] + 1).len \in Nat
               /\ [serial EXCEPT ![c] = @ + 1] \in [Cids -> 0..MAX_MESSAGES]
    <3>1. serial[c] + 1 \in 1..MAX_MESSAGES /\ serial[c] + 1 \in 0..MAX_MESSAGES
      BY <2>0, <2>1
    <3>2. r.len \in Nat
      BY ClientAssumption
    <3>3. Message(c, r, serial[c] + 1) \in Messages
      BY <3>1 DEF Messages
    <3> QED
      BY <2>0, <3>1, <3>2, <3>3 DEF Message
  <2>2. ASSUME NEW c \in Cids, NEW r \in Requests[c], StartMessage(c, r)
        PROVE  TypeInv'
    <3>m. PICK m : m = Message(c, r, serial[c] + 1)
      OBVIOUS
    <3>1. /\ m \in Messages /\ m.len \in Nat /\ serial' \in [Cids -> 0..MAX_MESSAGES]
          /\ HandleInitPacket(c, m) /\ SendingNext(c, m, 1)
      BY <2>1, <2>2, <3>m DEF StartMessage
    <3>2. PacketTypes(c)
      BY <3>1, InitTypes
    <3>3. PICK more : sending' = [sending EXCEPT ![c] = IF more THEN [message |-> m, next |-> 1]
                                                        ELSE None]
      BY <3>1 DEF SendingNext
    <3>4. 1 \in Nat \ {0}
      OBVIOUS
    <3>5. /\ sending' = [d \in Cids |-> sending'[d]]
          /\ \A d \in Cids :
                sending'[d] = None \/ sending'[d] \in [message : Messages, next : Nat \ {0}]
      BY <3>1, <3>3, <3>4, SendingTypes
    <3> QED
      BY <3>1, <3>2, <3>5, PacketsTyped
  <2>3. ASSUME NEW c \in Cids, ContinueMessage(c)
        PROVE  TypeInv'
    <3>m. PICK m, k : m = sending[c].message /\ k = sending[c].next
      OBVIOUS
    <3>1. m \in Messages /\ k \in Nat \ {0}
      BY <2>0, <2>3, <3>m DEF ContinueMessage
    <3>2. HandleContinuationPacket(c, m, k) /\ SendingNext(c, m, k + 1) /\ serial' = serial
      BY <2>3, <3>m DEF ContinueMessage
    <3>3. PacketTypes(c)
      BY <3>1, <3>2, ContinuationTypes
    <3>4. PICK more : sending' = [sending EXCEPT ![c] = IF more THEN [message |-> m, next |-> k + 1]
                                                        ELSE None]
      BY <3>2 DEF SendingNext
    <3>5. k + 1 \in Nat \ {0}
      BY <3>1
    <3>6. /\ sending' = [d \in Cids |-> sending'[d]]
          /\ \A d \in Cids :
                sending'[d] = None \/ sending'[d] \in [message : Messages, next : Nat \ {0}]
      BY <3>1, <3>4, <3>5, SendingTypes
    <3> QED
      BY <2>0, <3>2, <3>3, <3>6, PacketsTyped
  <2>4. ASSUME UNCHANGED <<pending, next_cid, outcome, allocated, allocations>>,
               NEW c \in Cids
        PROVE  PacketTypes(c)
    <3>1. AnswerTypes /\ EntryType(pending[c]) /\ pending = [d \in Cids |-> pending[d]]
      BY TypeParts DEF TypeInv
    <3> QED
      BY <2>4, <3>1 DEF PacketTypes, AnswerTypes
  <2>5. ASSUME NEW c \in Cids, NEW r \in Requests[c], LoseInitPacket(c, r)
        PROVE  TypeInv'
    <3>m. PICK m : m = Message(c, r, serial[c] + 1)
      OBVIOUS
    <3>1. m \in Messages /\ serial' \in [Cids -> 0..MAX_MESSAGES]
      BY <2>1, <2>5, <3>m DEF LoseInitPacket
    <3>2. PacketTypes(c)
      BY <2>4, <2>5 DEF LoseInitPacket
    <3>3. PICK more : sending' = [sending EXCEPT ![c] = IF more THEN [message |-> m, next |-> 1]
                                                        ELSE None]
      BY <2>5, <3>m DEF LoseInitPacket
    <3>4. 1 \in Nat \ {0}
      OBVIOUS
    <3>5. /\ sending' = [d \in Cids |-> sending'[d]]
          /\ \A d \in Cids :
                sending'[d] = None \/ sending'[d] \in [message : Messages, next : Nat \ {0}]
      BY <3>1, <3>3, <3>4, SendingTypes
    <3> QED
      BY <3>1, <3>2, <3>5, PacketsTyped
  <2>6. ASSUME NEW c \in Cids, LoseContinuationPacket(c)
        PROVE  TypeInv'
    <3>m. PICK m, k : m = sending[c].message /\ k = sending[c].next + 1
      OBVIOUS
    <3>1. m \in Messages /\ k \in Nat \ {0}
      BY <2>0, <2>6, <3>m DEF LoseContinuationPacket
    <3>2. PacketTypes(c) /\ serial' \in [Cids -> 0..MAX_MESSAGES]
      BY <2>0, <2>4, <2>6 DEF LoseContinuationPacket
    <3>3. PICK more : sending' = [sending EXCEPT ![c] = IF more THEN [message |-> m, next |-> k]
                                                        ELSE None]
      BY <2>6, <3>m DEF LoseContinuationPacket
    <3> QED
      BY <3>1, <3>2, <3>3, SendingTypes, PacketsTyped
  <2>7. CASE UNCHANGED vars
    BY <2>7 DEF vars, TypeInv, TypeOK
  <2> QED
    BY <2>2, <2>3, <2>5, <2>6, <2>7 DEF Next
<1>3. TypeInv => TypeOK
  BY DEF TypeInv
<1> QED
  BY <1>1, <1>2, <1>3, PTL DEF Spec

====
