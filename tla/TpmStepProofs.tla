--------------------------- MODULE TpmStepProofs ----------------------------
(***************************************************************************)
(* Every step of Tpm keeps the inductive invariant, and what a step does   *)
(* to the handles and with the key.                                        *)
(***************************************************************************)
EXTENDS TpmMethodProofs

----------------------------------------------------------------------------
(* Steps *)

\* An operation under way is of its type, and so is the TPM it works with.
LEMMA OpFacts ==
    ASSUME IInv, op # None
    PROVE  /\ op \in Operations /\ OpOK(op) /\ Held(op)
           /\ op.at \in 1..(Len(Program(op)) + 1)
           /\ tpm \in [list : Selections, name : Selections] /\ tpm.list = tpm.name
           /\ pcrs \in [Pcrs -> Measurements]
           /\ open \subseteq Handles
BY DEF IInv, TypeOK, HandleInv, PolicyInv, OpOK

\* A method about to issue a command.
LEMMA CallFacts ==
    ASSUME IInv, Calling
    PROVE  /\ op # None
           /\ op.at \in 1..Len(Program(op))
           /\ Fits(op)
           /\ Changing(op) /\ op.at <= 3 => op.slot \in Slots
           /\ Effects(op, [Returned(Call(op), op) EXCEPT !.at = @ + 1], op.at + 1, Call(op))
<1>1. op # None
  BY DEF Calling
<1>2. /\ op \in Operations /\ OpOK(op) /\ Held(op) /\ open \subseteq Handles
      /\ tpm \in [list : Selections, name : Selections] /\ pcrs \in [Pcrs -> Measurements]
      /\ op.at \in 1..(Len(Program(op)) + 1)
  BY <1>1, OpFacts
<1>3. op.at \in 1..Len(Program(op))
  BY <1>2, Lengths DEF Calling
<1>4. Fits(op)
  BY <1>2, <1>3, HandlesFit
<1>5. ASSUME Changing(op), op.at <= 3 PROVE op.slot \in Slots
  <2>1. Stored(op)
    BY <1>2, <1>5 DEF OpOK, Changing
  <2>2. op.slot = credentials[op.cred].recovery /\ op.cred \in Credentials
    BY <1>2, <1>5 DEF OpOK, ChangingOK, Operations
  <2>3. credentials[op.cred] \in Rows
    BY <2>1, <2>2 DEF IInv, TypeOK, Stored
  <2> QED
    BY <1>5, <2>1, <2>2, <2>3 DEF Rows, Stored, Changing
<1> DEFINE o == op
           call == Call(op)
<1>6. Effects(o, Returned(call, o), o.at, call)
  <2>1. /\ call = "create_authority" => o.auth \in Auths
        /\ call = "object_change_auth" => o.auth \in Auths /\ o.slot \in Slots
    <3>1. CASE Making(o)
      <4>1. MakingCall(call, o.at)
        BY <1>3, <3>1, CallsAt
      <4> QED
        BY <1>2, <3>1, <4>1 DEF MakingCall, OpOK, MakingOK
    <3>2. CASE MakingPlain(o)
      <4>1. MakingPlainCall(call, o.at)
        BY <1>3, <3>2, CallsAt
      <4> QED
        BY <4>1 DEF MakingPlainCall
    <3>3. CASE Signing(o)
      <4>1. SigningCall(call, o.at)
        BY <1>3, <3>3, CallsAt
      <4> QED
        BY <4>1 DEF SigningCall
    <3>4. CASE SigningPlain(o)
      <4>1. SigningPlainCall(call, o.at)
        BY <1>3, <3>4, CallsAt
      <4> QED
        BY <4>1 DEF SigningPlainCall
    <3>5. CASE Updating(o)
      <4>1. UpdatingCall(call, o.at)
        BY <1>3, <3>5, CallsAt
      <4> QED
        BY <4>1 DEF UpdatingCall
    <3>6. CASE Changing(o)
      <4>1. ChangingCall(call, o.at)
        BY <1>3, <3>6, CallsAt
      <4>2. call = "object_change_auth" => o.at <= 3
        BY <4>1 DEF ChangingCall
      <4> QED
        BY <1>2, <1>5, <3>6, <4>1, <4>2 DEF ChangingCall, OpOK, ChangingOK
    <3> QED
      BY <1>2, <3>1, <3>2, <3>3, <3>4, <3>5, <3>6, Methods6
  <2> QED
    BY <1>2, <2>1, ReturnedEffects
<1>7. Effects(o, [Returned(call, o) EXCEPT !.at = @ + 1], o.at + 1, call)
  BY <1>2, <1>6, StepEffects
<1> QED
  BY <1>1, <1>3, <1>4, <1>5, <1>7

\* CallSucceeds keeps the types and the handles: a command that opens one needs room.
LEMMA CallSucceedsHandles ==
    ASSUME Counted, IInv, CallSucceeds
    PROVE  TypeOK' /\ HandleInv'
<1> PICK call, o, u : /\ call = Call(op) /\ o = op
                      /\ u = [Returned(Call(op), op) EXCEPT !.at = @ + 1]
  OBVIOUS
<1>1. Calling /\ ~Exhausted(call) /\ op' = u
      /\ open' = (open \cup Opens(call)) \ Flushes(call)
      /\ UNCHANGED <<pcrs, default_pcr, tpm, credentials, leaked, approved, reply>>
  BY DEF CallSucceeds
<1>2. /\ op # None /\ o.at \in 1..Len(Program(o)) /\ Fits(o) /\ call = Call(o)
      /\ Effects(o, u, o.at + 1, call)
  BY <1>1, CallFacts
<1>3. o \in Operations /\ Held(o) /\ open \subseteq Handles
  BY <1>2, OpFacts
<1>4. u \in Operations /\ u.at = o.at + 1 /\ u.method = o.method /\ u.recovery = o.recovery
  BY <1>2 DEF Effects
<1>5. CallHandles(call)
  BY CallHandlesOf
<1>6. open' \subseteq Handles
  BY <1>1, <1>3, <1>5 DEF CallHandles
<1>7. u # None
  BY <1>4, NoneAssumption
<1>8. TypeOK'
  BY <1>1, <1>4, <1>6, <1>7 DEF IInv, TypeOK
<1>9. Held(u)' /\ u.at \in 1..(Len(Program(u)) + 1)
  <2>1. /\ Parent(u) = Parent(o) /\ Authority(u) = Authority(o)
        /\ Session(u) = Session(o) /\ Key(u) = Key(o) /\ Program(u) = Program(o)
    BY <1>3, <1>4, SameMethod
  <2>2. u.at \in 1..(Len(Program(u)) + 1)
    BY <1>2, <1>3, <1>4, <2>1, Lengths
  <2>3. /\ "parent" \in open' <=> o.at + 1 \in Parent(o)
        /\ "authority" \in open' <=> o.at + 1 \in Authority(o)
        /\ "session" \in open' <=> o.at + 1 \in Session(o)
        /\ "key" \in open' <=> o.at + 1 \in Key(o)
    BY <1>1, <1>2 DEF Fits
  <2> QED
    BY <1>4, <2>1, <2>2, <2>3 DEF Held
<1>10. Room'
  <2>1. /\ leaked.objects \in Nat /\ leaked.sessions \in Nat
        /\ MAX_OBJECTS \in Nat /\ MAX_SESSIONS \in Nat /\ Room
    BY SlotAssumption DEF IInv, TypeOK, HandleInv
  <2>2. Cardinality(open' \cap ObjectHandles) + leaked.objects <= MAX_OBJECTS
    <3> DEFINE S == open \cap ObjectHandles
               T == open' \cap ObjectHandles
    <3>0. S \in SUBSET Handles /\ T \in SUBSET Handles
      BY DEF Handles
    <3>1. Cardinality(S) \in Nat /\ Cardinality(T) \in Nat
          /\ Cardinality(S) + leaked.objects <= MAX_OBJECTS
      BY <2>1, <3>0 DEF Counted, Room
    <3>2. CASE Opens(call) \cap ObjectHandles = {}
      <4>1. T \subseteq S
        BY <1>1, <3>2
      <4>2. Cardinality(T) <= Cardinality(S)
        BY <3>0, <4>1 DEF Counted
      <4> HIDE DEF S, T
      <4>3. Cardinality(T) + leaked.objects <= MAX_OBJECTS
        BY <2>1, <3>1, <4>2
      <4> QED
        BY <4>3 DEF T
    <3>3. CASE Opens(call) \cap ObjectHandles # {}
      <4>1. PICK x \in ObjectHandles : Opens(call) = {x}
        BY <3>3 DEF Opens, ObjectHandles
      <4>2. S \cup {x} \in SUBSET Handles /\ x \in Handles /\ T \subseteq S \cup {x}
        BY <1>1, <3>0, <4>1 DEF Handles
      <4>3. Cardinality(S) + leaked.objects < MAX_OBJECTS
        BY <1>1, <2>1, <3>1, <3>3 DEF Exhausted
      <4>4. Cardinality(T) <= Cardinality(S \cup {x}) /\ Cardinality(S \cup {x}) \in Nat
            /\ Cardinality(S \cup {x}) <= Cardinality(S) + 1
        BY <3>0, <4>2 DEF Counted
      <4> HIDE DEF S, T
      <4>5. Cardinality(T) + leaked.objects <= MAX_OBJECTS
        BY <2>1, <3>1, <4>3, <4>4
      <4> QED
        BY <4>5 DEF T
    <3> QED
      BY <3>2, <3>3
  <2>3. Cardinality(open' \cap {"session"}) + leaked.sessions <= MAX_SESSIONS
    <3> DEFINE S == open \cap {"session"}
               T == open' \cap {"session"}
    <3>0. S \in SUBSET Handles /\ T \in SUBSET Handles
      BY DEF Handles
    <3>1. Cardinality(S) \in Nat /\ Cardinality(T) \in Nat
          /\ Cardinality(S) + leaked.sessions <= MAX_SESSIONS
      BY <2>1, <3>0 DEF Counted, Room
    <3>2. CASE "session" \notin Opens(call)
      <4>1. T \subseteq S
        BY <1>1, <3>2
      <4>2. Cardinality(T) <= Cardinality(S)
        BY <3>0, <4>1 DEF Counted
      <4> HIDE DEF S, T
      <4>3. Cardinality(T) + leaked.sessions <= MAX_SESSIONS
        BY <2>1, <3>1, <4>2
      <4> QED
        BY <4>3 DEF T
    <3>3. CASE "session" \in Opens(call)
      <4>2. S \cup {"session"} \in SUBSET Handles /\ T \subseteq S \cup {"session"}
        BY <3>0 DEF Handles
      <4>3. Cardinality(S) + leaked.sessions < MAX_SESSIONS
        BY <1>1, <2>1, <3>1, <3>3 DEF Exhausted
      <4>4. Cardinality(T) <= Cardinality(S \cup {"session"})
            /\ Cardinality(S \cup {"session"}) \in Nat
            /\ Cardinality(S \cup {"session"}) <= Cardinality(S) + 1
        BY <3>0, <4>2 DEF Counted, Handles
      <4> HIDE DEF S, T
      <4>5. Cardinality(T) + leaked.sessions <= MAX_SESSIONS
        BY <2>1, <3>1, <4>3, <4>4
      <4> QED
        BY <4>5 DEF T
    <3> QED
      BY <3>2, <3>3
  <2> QED
    BY <1>1, <2>2, <2>3 DEF Room
<1> QED
  BY <1>1, <1>8, <1>9, <1>10 DEF HandleInv, Held

\* What the invariant says of an operation depends on the TPM, the store and the answer
\* alone.
LEMMA OpFrame ==
    ASSUME NEW u, OpOK(u), UNCHANGED <<pcrs, tpm, credentials, reply>>
    PROVE  OpOK(u)'
BY DEF OpOK, Stored, MakingOK, MakingPlainOK, SigningOK, SigningPlainOK, UpdatingOK, ChangingOK,
   ReadOK, BootOK, CurrentPcrDigest, AuthorizeOK, Making, MakingPlain, Signing, SigningPlain,
   Updating, Changing, ToSign

\* CallSucceeds keeps what is known of the policies.
LEMMA CallSucceedsPolicy ==
    ASSUME IInv, CallSucceeds
    PROVE  PolicyInv'
<1> PICK call, o, u : /\ call = Call(op) /\ o = op
                      /\ u = [Returned(Call(op), op) EXCEPT !.at = @ + 1]
  OBVIOUS
<1>1. Calling /\ ~Refused(call, o) /\ op' = u
      /\ UNCHANGED <<pcrs, default_pcr, tpm, credentials, leaked, approved, reply>>
  BY DEF CallSucceeds
<1>2. /\ op # None /\ o.at \in 1..Len(Program(o)) /\ call = Call(o)
      /\ Effects(o, u, o.at + 1, call)
      /\ Changing(o) /\ o.at <= 3 => o.slot \in Slots
  BY <1>1, CallFacts
<1>3. /\ o \in Operations /\ OpOK(o)
      /\ tpm \in [list : Selections, name : Selections] /\ tpm.list = tpm.name
      /\ pcrs \in [Pcrs -> Measurements]
  BY <1>2, OpFacts
<1>4. u.method = o.method /\ u.recovery = o.recovery /\ u.cred = o.cred
  BY <1>2 DEF Effects
<1>5. /\ Making(u) <=> Making(o)
      /\ MakingPlain(u) <=> MakingPlain(o)
      /\ Signing(u) <=> Signing(o)
      /\ SigningPlain(u) <=> SigningPlain(o)
      /\ Updating(u) <=> Updating(o)
      /\ Changing(u) <=> Changing(o)
  BY <1>3, <1>4, SameMethod
<1>6. OpOK(u)
  <2>1. tpm # None /\ reply.status = "begun" /\ (u.method # "makeCredential" => Stored(u))
    BY <1>3, <1>4 DEF OpOK, Stored
  <2>2. ASSUME Making(o) PROVE MakingOK(u)
    <3>1. o.at \in 1..29 /\ MakingCall(call, o.at) /\ MakingOK(o)
      BY <1>2, <1>3, <2>2, CallsAt DEF OpOK
    <3> QED
      BY <1>2, <1>3, <3>1, MakingStep
  <2>3. ASSUME MakingPlain(o) PROVE MakingPlainOK(u)
    <3>1. o.at \in 1..8 /\ MakingPlainCall(call, o.at) /\ MakingPlainOK(o)
      BY <1>2, <1>3, <2>3, CallsAt DEF OpOK
    <3> QED
      BY <1>2, <1>3, <3>1, MakingPlainStep
  <2>4. ASSUME Signing(o) PROVE SigningOK(u)
    <3>1. o.at \in 1..12 /\ SigningCall(call, o.at) /\ SigningOK(o)
      BY <1>2, <1>3, <2>4, CallsAt DEF OpOK
    <3> QED
      BY <1>1, <1>2, <1>3, <2>4, <3>1, SigningStep
  <2>5. ASSUME SigningPlain(o) PROVE SigningPlainOK(u)
    <3>1. o.at \in 1..6 /\ SigningPlainCall(call, o.at) /\ SigningPlainOK(o)
      BY <1>2, <1>3, <2>5, CallsAt DEF OpOK
    <3> QED
      BY <1>1, <1>2, <1>3, <2>5, <3>1, SigningPlainStep
  <2>6. ASSUME Updating(o) PROVE UpdatingOK(u)
    <3>1. o.at \in 1..17 /\ UpdatingCall(call, o.at) /\ UpdatingOK(o)
      BY <1>2, <1>3, <2>6, CallsAt DEF OpOK
    <3> QED
      BY <1>2, <1>3, <3>1, UpdatingStep
  <2>7. ASSUME Changing(o) PROVE ChangingOK(u)
    <3>1. o.at \in 1..5 /\ ChangingCall(call, o.at) /\ ChangingOK(o)
      BY <1>2, <1>3, <2>7, CallsAt DEF OpOK
    <3> QED
      BY <1>2, <1>3, <2>7, <3>1, ChangingStep
  <2> QED
    BY <1>5, <2>1, <2>2, <2>3, <2>4, <2>5, <2>6, <2>7 DEF OpOK
<1>7. OpOK(u)'
  BY <1>1, <1>6, OpFrame
<1>8. \A c \in Credentials : credentials'[c] # None => RowOK(c, credentials[c])'
  BY <1>1 DEF IInv, PolicyInv, RowOK
<1> QED
  BY <1>1, <1>7, <1>8 DEF IInv, PolicyInv

\* What a method leaves open was counted: LeaveOpen keeps the room.
LEMMA LeaveOpenRoom ==
    ASSUME Counted, IInv, NEW guarded, LeaveOpen(guarded)
    PROVE  /\ leaked' \in [objects : 0..MAX_OBJECTS, sessions : 0..MAX_SESSIONS]
           /\ open' = {}
           /\ Room'
<1> DEFINE left == open \ guarded
           O == Cardinality(left \cap ObjectHandles)
           S == Cardinality(left \cap {"session"})
<1>1. /\ leaked' = [objects |-> leaked.objects + O, sessions |-> leaked.sessions + S]
      /\ open' = {}
  BY DEF LeaveOpen
<1>2. /\ leaked.objects \in Nat /\ leaked.sessions \in Nat /\ open \subseteq Handles
      /\ MAX_OBJECTS \in Nat /\ MAX_SESSIONS \in Nat /\ Room
  BY SlotAssumption DEF IInv, TypeOK, HandleInv
<1>3. /\ O \in Nat /\ Cardinality(open \cap ObjectHandles) \in Nat
      /\ O <= Cardinality(open \cap ObjectHandles)
  BY <1>2 DEF Counted
<1>4. /\ S \in Nat /\ Cardinality(open \cap {"session"}) \in Nat
      /\ S <= Cardinality(open \cap {"session"})
  BY <1>2 DEF Counted
<1> HIDE DEF O, S
<1>5. leaked.objects + O \in 0..MAX_OBJECTS
  BY <1>2, <1>3 DEF Room
<1>6. leaked.sessions + S \in 0..MAX_SESSIONS
  BY <1>2, <1>4 DEF Room
<1>7. /\ leaked'.objects = leaked.objects + O /\ leaked'.sessions = leaked.sessions + S
      /\ leaked' \in [objects : 0..MAX_OBJECTS, sessions : 0..MAX_SESSIONS]
  BY <1>1, <1>5, <1>6
<1>8. open' \cap ObjectHandles = {} /\ open' \cap {"session"} = {}
  BY <1>1
<1>9. Cardinality(open' \cap ObjectHandles) = 0 /\ Cardinality(open' \cap {"session"}) = 0
  BY <1>8 DEF Counted
<1>10. Room'
  BY <1>2, <1>5, <1>6, <1>7, <1>9 DEF Room
<1> QED
  BY <1>1, <1>7, <1>10

\* ensure_tpm: when it opened the TPM, list and name of the selection are the same.
LEMMA EnsureTpmStep ==
    ASSUME IInv, NEW opened \in BOOLEAN, EnsureTpm(opened)
    PROVE  /\ tpm' = None \/ tpm' \in [list : Selections, name : Selections]
           /\ tpm' # None => tpm'.list = tpm'.name
           /\ opened => tpm' # None
<1>1. CASE tpm # None \/ ~opened
  BY <1>1 DEF EnsureTpm, IInv, TypeOK, PolicyInv
<1>2. CASE ~(tpm # None \/ ~opened)
  <2> DEFINE s == IF default_pcr = None THEN DEFAULT_PCRS ELSE default_pcr
  <2>1. s \in Selections
    BY SelectionAssumption DEF IInv, TypeOK
  <2>2. tpm' = [list |-> s, name |-> s]
    BY <1>2 DEF EnsureTpm, DefaultPcrSelection
  <2> HIDE DEF s
  <2>3. tpm' \in [list : Selections, name : Selections] /\ tpm'.list = tpm'.name
    BY <2>1, <2>2
  <2> QED
    BY <2>3, NoneAssumption
<1> QED
  BY <1>1, <1>2

\* Begin keeps the invariant when what it says of the new operation holds.
LEMMA BeginStep ==
    ASSUME IInv, NEW method \in Methods, NEW c \in Credentials, NEW auth \in Auths \cup {None},
           NEW slot \in Slots \cup {None}, NEW key \in Digests, NEW signature \in Signatures,
           NEW recovery \in BOOLEAN, NEW opened \in BOOLEAN,
           Begin(method, c, auth, slot, key, signature, recovery, opened),
           tpm' # None /\ reply'.status = "begun" =>
               OpOK(Started(method, c, auth, slot, key, signature, recovery))'
    PROVE  IInv'
<1> PICK o : o = Started(method, c, auth, slot, key, signature, recovery)
  OBVIOUS
<1>1. /\ op = None /\ EnsureTpm(opened)
      /\ op' = IF ~opened THEN None ELSE o
      /\ reply' = [method |-> method, status |-> IF opened THEN "begun" ELSE "error", cred |-> c]
      /\ UNCHANGED <<pcrs, default_pcr, credentials, open, leaked, approved>>
  BY DEF Begin, Started, Answer
<1>2. o \in Operations /\ o.at = 1 /\ o # None
  BY StartedType, NoneAssumption DEF Started
<1>3. open = {}
  BY <1>1 DEF IInv, TypeOK
<1>4. /\ tpm' = None \/ tpm' \in [list : Selections, name : Selections]
      /\ tpm' # None => tpm'.list = tpm'.name
      /\ opened => tpm' # None
  BY <1>1, EnsureTpmStep
<1>5. op' \in Operations \cup {None} /\ (op' # None => opened /\ op' = o)
  BY <1>1, <1>2
<1>6. TypeOK'
  BY <1>1, <1>3, <1>4, <1>5 DEF IInv, TypeOK
<1>7. o.at \in 1..(Len(Program(o)) + 1) /\ Held(o)'
  BY <1>1, <1>2, <1>3, Lengths, StartPositions DEF Held
<1>8. HandleInv'
  BY <1>1, <1>5, <1>7 DEF IInv, HandleInv, Room, Held
<1>9. opened => OpOK(o)'
  BY <1>1, <1>4
<1>10. \A x \in Credentials : credentials'[x] # None => RowOK(x, credentials[x])'
  BY <1>1 DEF IInv, PolicyInv, RowOK
<1>11. PolicyInv'
  BY <1>4, <1>5, <1>9, <1>10 DEF PolicyInv
<1> QED
  BY <1>6, <1>8, <1>11 DEF IInv

\* makeCredential begins with nothing read, signed or created.
LEMMA MakeCredentialStep ==
    ASSUME IInv, NEW c \in Credentials, NEW auth \in Auths \cup {None}, NEW opened \in BOOLEAN,
           MakeCredential(c, auth, opened)
    PROVE  IInv'
<1>o. PICK o : o = Started("makeCredential", c, auth, None, <<>>, NoSignature, auth # None)
  OBVIOUS
<1>1. /\ o.method = "makeCredential" /\ (o.recovery <=> auth # None) /\ o.at = 1 /\ o.slot = None
      /\ o.auth = auth /\ o.approved = <<>>
  BY <1>o DEF Started
<1>2. ASSUME tpm' # None, reply'.status = "begun" PROVE OpOK(o)'
  <2>1. BootOK(o, 3)' /\ BootOK(o, 0)' /\ AuthorizeOK(o, 11, 22, 25)
    BY <1>1 DEF BootOK, AuthorizeOK
  <2>2. Making(o) => MakingOK(o)'
    <3>1. Making(o) => o.auth \in Auths
      BY <1>1 DEF Making
    <3>2. AuthorizeOK(o, 11, 22, 25)'
      BY <2>1 DEF AuthorizeOK
    <3>3. o.at <= 2 /\ ~(o.at > 2) /\ ~(o.at > 28)
      BY <1>1
    <3> QED
      BY <1>1, <2>1, <3>1, <3>2, <3>3 DEF MakingOK
  <2>3. MakingPlainOK(o)'
    BY <1>1, <2>1 DEF MakingPlainOK
  <2> QED
    BY <1>1, <1>2, <2>2, <2>3 DEF OpOK, Making, MakingPlain, Signing, SigningPlain, Updating,
       Changing
<1>3. <<>> \in Digests /\ NoSignature \in Signatures
  BY DigestTypes DEF NoSignature, PolicyWithRefHash, Signatures
<1>4. Begin("makeCredential", c, auth, None, <<>>, NoSignature, auth # None, opened)
  BY DEF MakeCredential
<1> QED
  BY <1>o, <1>2, <1>3, <1>4, BeginStep DEF Methods

\* A stored row has its types.
LEMMA RowTypes ==
    ASSUME IInv, NEW c \in Credentials, credentials[c] # None
    PROVE  /\ credentials[c] \in Rows
           /\ credentials[c].key \in Digests
           /\ credentials[c].recovery \in Slots \cup {None}
           /\ credentials[c].policy.signature \in Signatures
<1>1. credentials[c] \in Rows
  BY DEF IInv, TypeOK
<1> QED
  BY <1>1 DEF Rows

\* sign_digest_with_policy begins with the key and the policy of the credential.
LEMMA SignCredentialStep ==
    ASSUME IInv, NEW c \in Credentials, NEW opened \in BOOLEAN, SignCredential(c, opened)
    PROVE  IInv'
<1>r. PICK row : row = credentials[c]
  OBVIOUS
<1>o. PICK o : o = Started("sign", c, None, row.recovery, row.key, row.policy.signature,
                         row.recovery # None)
  OBVIOUS
<1>1. /\ o.method = "sign" /\ (o.recovery <=> row.recovery # None) /\ o.at = 1 /\ o.cred = c
      /\ o.key = row.key /\ o.signature = row.policy.signature
  BY <1>o DEF Started
<1>2. /\ row # None
      /\ Begin("sign", c, None, row.recovery, row.key, row.policy.signature,
               row.recovery # None, opened)
  BY <1>r DEF SignCredential
<1>3. credentials' = credentials
  BY <1>2 DEF Begin
<1>4. ASSUME tpm' # None, reply'.status = "begun" PROVE OpOK(o)'
  <2>1. Stored(o)'
    BY <1>r, <1>1, <1>2, <1>3 DEF Stored
  <2>2. Signing(o) => SigningOK(o)'
    <3>1. /\ ~(o.at > 3) /\ o.at # 5 /\ o.at \notin 6..10 /\ ~(o.at > 6) /\ ~(o.at > 9)
          /\ o.at # 11 /\ ~(o.at > 11)
      BY <1>1
    <3> QED
      BY <1>r, <1>1, <1>3, <3>1 DEF Signing, SigningOK, ReadOK
  <2>3. SigningPlain(o) => SigningPlainOK(o)'
    <3>1. ~(o.at > 3) /\ o.at # 5 /\ ~(o.at > 5)
      BY <1>1
    <3> QED
      BY <1>r, <1>1, <1>3, <3>1 DEF SigningPlain, SigningPlainOK, ReadOK
  <2> QED
    BY <1>1, <1>4, <2>1, <2>2, <2>3 DEF OpOK, Making, MakingPlain, Signing, SigningPlain,
       Updating, Changing
<1>5. row.key \in Digests /\ row.recovery \in Slots \cup {None}
      /\ row.policy.signature \in Signatures
  BY <1>r, <1>2, RowTypes
<1> QED
  BY <1>o, <1>2, <1>4, <1>5, BeginStep DEF Methods

\* update_authorized_policy begins with the recovery slot.
LEMMA PcrPolicyUpdateStep ==
    ASSUME IInv, NEW c \in Credentials, NEW opened \in BOOLEAN, PcrPolicyUpdate(c, opened)
    PROVE  IInv'
<1>r. PICK row : row = credentials[c]
  OBVIOUS
<1>o. PICK o : o = Started("update", c, None, row.recovery, row.key, NoSignature, TRUE)
  OBVIOUS
<1>1. /\ o.method = "update" /\ o.at = 1 /\ o.cred = c /\ o.slot = row.recovery
      /\ o.approved = <<>>
  BY <1>o DEF Started
<1>2. /\ row # None /\ row.recovery # None
      /\ Begin("update", c, None, row.recovery, row.key, NoSignature, TRUE, opened)
  BY <1>r DEF PcrPolicyUpdate
<1>3. credentials' = credentials
  BY <1>2 DEF Begin
<1>4. ASSUME tpm' # None, reply'.status = "begun" PROVE OpOK(o)'
  <2>1. Stored(o)'
    BY <1>r, <1>1, <1>2, <1>3 DEF Stored
  <2>2. BootOK(o, 0)'
    BY <1>1 DEF BootOK
  <2>a. AuthorizeOK(o, 8, 13, 15)'
    BY <1>1 DEF AuthorizeOK
  <2>3. UpdatingOK(o)'
    BY <1>r, <1>1, <1>3, <2>2, <2>a DEF UpdatingOK
  <2> QED
    BY <1>1, <1>4, <2>1, <2>3 DEF OpOK, Making, MakingPlain, Signing, SigningPlain,
       Updating, Changing
<1>5. row.key \in Digests /\ row.recovery \in Slots \cup {None} /\ NoSignature \in Signatures
  BY <1>r, <1>2, RowTypes, DigestTypes DEF NoSignature, PolicyWithRefHash, Signatures
<1> QED
  BY <1>o, <1>2, <1>4, <1>5, BeginStep DEF Methods

\* change_key_auth begins with the recovery slot.
LEMMA PassphraseChangeStep ==
    ASSUME IInv, NEW c \in Credentials, NEW auth \in Auths, NEW opened \in BOOLEAN,
           PassphraseChange(c, auth, opened)
    PROVE  IInv'
<1>r. PICK row : row = credentials[c]
  OBVIOUS
<1>o. PICK o : o = Started("passphrase", c, auth, row.recovery, row.key, row.policy.signature,
                         TRUE)
  OBVIOUS
<1>1. /\ o.method = "passphrase" /\ o.at = 1 /\ o.cred = c /\ o.slot = row.recovery
      /\ o.auth = auth
  BY <1>o DEF Started
<1>2. /\ row # None /\ row.recovery # None
      /\ Begin("passphrase", c, auth, row.recovery, row.key, row.policy.signature, TRUE, opened)
  BY <1>r DEF PassphraseChange
<1>3. credentials' = credentials
  BY <1>2 DEF Begin
<1>4. ASSUME tpm' # None, reply'.status = "begun" PROVE OpOK(o)'
  <2>1. Stored(o)'
    BY <1>r, <1>1, <1>2, <1>3 DEF Stored
  <2>2. ChangingOK(o)'
    <3>1. ~(o.at > 3)
      BY <1>1
    <3> QED
      BY <1>r, <1>1, <1>3, <3>1 DEF ChangingOK
  <2> QED
    BY <1>1, <1>4, <2>1, <2>2 DEF OpOK, Making, MakingPlain, Signing, SigningPlain,
       Updating, Changing
<1>5. row.key \in Digests /\ row.recovery \in Slots \cup {None}
      /\ row.policy.signature \in Signatures
  BY <1>r, <1>2, RowTypes
<1> QED
  BY <1>o, <1>2, <1>4, <1>5, BeginStep DEF Methods

\* The end of a method: where it is, and what the invariant says of it there.
LEMMA EndFacts ==
    ASSUME IInv, op # None, ~Calling
    PROVE  /\ op.at = Len(Program(op)) + 1
           /\ Making(op) => op.at = 30
           /\ MakingPlain(op) => op.at = 9
           /\ Updating(op) => op.at = 18
           /\ Changing(op) => op.at = 6
<1>1. op \in Operations /\ op.at \in 1..(Len(Program(op)) + 1)
  BY OpFacts
<1>2. op.at = Len(Program(op)) + 1
  BY <1>1, Lengths DEF Calling, Operations
<1>3. ASSUME Making(op) PROVE op.at = 30
  <2>1. MakingProgram(Program(op))
    BY <1>3, MakingCalls
  <2> QED
    BY <1>2, <2>1 DEF MakingProgram
<1>4. ASSUME MakingPlain(op) PROVE op.at = 9
  <2>1. MakingPlainProgram(Program(op))
    BY <1>4, MakingPlainCalls
  <2> QED
    BY <1>2, <2>1 DEF MakingPlainProgram
<1>5. ASSUME Updating(op) PROVE op.at = 18
  <2>1. UpdatingProgram(Program(op))
    BY <1>5, UpdatingCalls
  <2> QED
    BY <1>2, <2>1 DEF UpdatingProgram
<1>6. ASSUME Changing(op) PROVE op.at = 6
  <2>1. ChangingProgram(Program(op))
    BY <1>6, ChangingCalls
  <2> QED
    BY <1>2, <2>1 DEF ChangingProgram
<1> QED
  BY <1>2, <1>3, <1>4, <1>5, <1>6

\* The row that a method leaves is of its type, and usable for the platform that the
\* method approved or, where it approved none, for the one approved before.
LEMMA NewRowUsable ==
    ASSUME IInv, op # None, ~Calling
    PROVE  /\ NewRow(op) \in Rows
           /\ Approvals(op) \in [Credentials -> Readings]
           /\ RowUsable(op.cred, NewRow(op), Approvals(op)[op.cred])
           /\ \A c \in Credentials : c # op.cred => Approvals(op)[c] = approved[c]
<1>o. PICK o, row, new : o = op /\ row = credentials[o.cred] /\ new = NewRow(o)
  OBVIOUS
<1>1. /\ o \in Operations /\ OpOK(o) /\ o.cred \in Credentials
      /\ tpm.name \in Selections /\ approved \in [Credentials -> Readings]
  BY <1>o, OpFacts DEF Operations, IInv, TypeOK
<1>2. /\ o.auth \in Auths \cup {None} /\ o.slot \in Slots \cup {None} /\ o.key \in Digests
      /\ o.signature \in Signatures /\ o.digest \in Digests /\ o.platform \in Readings
  BY <1>1 DEF Operations
<1>3. /\ Making(o) => o.at = 30
      /\ MakingPlain(o) => o.at = 9
      /\ Updating(o) => o.at = 18
      /\ Changing(o) => o.at = 6
  BY <1>o, EndFacts
<1>4. o.method # "makeCredential" => row \in Rows /\ RowUsable(o.cred, row, approved[o.cred])
  BY <1>o, <1>1, RowTypes DEF OpOK, Stored, IInv, PolicyInv, RowOK
<1>5. CASE Making(o)
  <2>1. /\ o.slot = Slot(o.auth, o.auth, o.auth) /\ o.auth \in Auths
        /\ o.platform \in [tpm.name -> Measurements] /\ o.approved = PcrPolicy(o.platform)
        /\ o.signature = PolicyWithRefHash(o.approved, o.cred)
        /\ o.digest = AuthorizedPolicy(o.cred) /\ o.key = AuthorizedPolicy(o.cred)
    <3>1. MakingOK(o) /\ o.at = 30
      BY <1>1, <1>3, <1>5 DEF OpOK
    <3> QED
      BY <3>1, MakingEnd
  <2>2. Approvals(o) = [approved EXCEPT ![o.cred] = o.platform]
    BY <1>5 DEF Approvals, Making
  <2>3. new = [policy |-> [selection |-> tpm.name, digest |-> o.digest,
                           signature |-> o.signature],
               key |-> o.key, recovery |-> o.slot]
    BY <1>o, <1>5 DEF NewRow, Making, Policy
  <2>4. new \in Rows
    BY <1>1, <1>2, <2>3 DEF Rows
  <2>5. o.slot \in Slots /\ o.slot # None
    BY <2>1, NoneAssumption DEF Slot, Slots
  <2>6. RowUsable(o.cred, new, o.platform)
    BY <2>1, <2>3, <2>5 DEF RowUsable, Slot
  <2> QED
    BY <1>o, <1>1, <1>2, <2>2, <2>4, <2>6
<1>6. CASE MakingPlain(o)
  <2>1. /\ o.slot = None /\ o.key = PcrPolicy(o.platform)
        /\ o.platform \in [tpm.name -> Measurements]
    <3>1. MakingPlainOK(o) /\ o.at = 9
      BY <1>1, <1>3, <1>6 DEF OpOK
    <3> QED
      BY <3>1, MakingPlainEnd
  <2>2. Approvals(o) = [approved EXCEPT ![o.cred] = o.platform]
    BY <1>6 DEF Approvals, MakingPlain
  <2>3. new = [policy |-> [selection |-> tpm.name, digest |-> o.digest,
                           signature |-> o.signature],
               key |-> o.key, recovery |-> o.slot]
    BY <1>o, <1>6 DEF NewRow, MakingPlain, Policy
  <2>4. new \in Rows
    BY <1>1, <1>2, <2>3 DEF Rows
  <2>5. RowUsable(o.cred, new, o.platform)
    BY <2>1, <2>3 DEF RowUsable
  <2> QED
    BY <1>o, <1>1, <1>2, <2>2, <2>4, <2>5
<1>7. CASE Updating(o)
  <2>1. /\ o.platform \in [tpm.name -> Measurements] /\ o.approved = PcrPolicy(o.platform)
        /\ o.signature = PolicyWithRefHash(o.approved, o.cred)
        /\ o.digest = AuthorizedPolicy(o.cred)
    <3>1. UpdatingOK(o) /\ o.at = 18
      BY <1>1, <1>3, <1>7 DEF OpOK
    <3> QED
      BY <3>1, UpdatingEnd
  <2>2. Approvals(o) = [approved EXCEPT ![o.cred] = o.platform]
    BY <1>7 DEF Approvals, Updating
  <2>3. new = [row EXCEPT !.policy = [selection |-> tpm.name, digest |-> o.digest,
                                      signature |-> o.signature]]
    BY <1>o, <1>7 DEF NewRow, Updating, Policy
  <2>4. row \in Rows /\ row.recovery # None /\ RowUsable(o.cred, row, approved[o.cred])
    BY <1>o, <1>1, <1>4, <1>7 DEF OpOK, Stored, Updating
  <2>5. /\ new \in Rows /\ new.key = row.key /\ new.recovery = row.recovery
        /\ new.policy = [selection |-> tpm.name, digest |-> o.digest,
                         signature |-> o.signature]
    BY <1>1, <1>2, <2>3, <2>4 DEF Rows
  <2>6. RowUsable(o.cred, new, o.platform)
    <3>1. /\ new.policy.selection = tpm.name /\ new.policy.digest = o.digest
          /\ new.policy.signature = o.signature
      BY <2>5
    <3>2. /\ row.recovery.private = row.recovery.hash
          /\ row.recovery.auth_value = row.recovery.hash
          /\ row.key = AuthorizedPolicy(o.cred)
      BY <2>4 DEF RowUsable
    <3>3. new.key = row.key /\ new.recovery = row.recovery /\ new.recovery # None
      BY <2>4, <2>5
    <3> QED
      BY <2>1, <3>1, <3>2, <3>3 DEF RowUsable
  <2> QED
    BY <1>o, <1>1, <1>2, <2>2, <2>5, <2>6
<1>8. CASE Changing(o)
  <2>1. o.auth \in Auths /\ o.slot.private = o.auth
    BY <1>1, <1>3, <1>8 DEF OpOK, ChangingOK
  <2>2. Approvals(o) = approved
    BY <1>8 DEF Approvals, Changing
  <2>3. new = [row EXCEPT !.recovery = Slot(o.auth, o.auth, o.auth)]
    BY <1>o, <1>8, <2>1 DEF NewRow, Changing
  <2>4. row \in Rows /\ row.recovery # None /\ RowUsable(o.cred, row, approved[o.cred])
    BY <1>o, <1>1, <1>4, <1>8 DEF OpOK, Stored, Changing
  <2>5. Slot(o.auth, o.auth, o.auth) \in Slots /\ Slot(o.auth, o.auth, o.auth) # None
    BY <2>1, NoneAssumption DEF Slot, Slots
  <2>6. /\ new \in Rows /\ new.key = row.key /\ new.policy = row.policy
        /\ new.recovery = Slot(o.auth, o.auth, o.auth)
    BY <2>3, <2>4, <2>5 DEF Rows
  <2>7. RowUsable(o.cred, new, approved[o.cred])
    <3>1. /\ row.key = AuthorizedPolicy(o.cred) /\ row.policy.digest = AuthorizedPolicy(o.cred)
          /\ row.policy.signature = PolicyWithRefHash(PcrPolicy(approved[o.cred]), o.cred)
          /\ approved[o.cred] \in [row.policy.selection -> Measurements]
      BY <2>4 DEF RowUsable
    <3>2. /\ new.recovery.private = new.recovery.hash
          /\ new.recovery.auth_value = new.recovery.hash
      BY <2>6 DEF Slot
    <3> QED
      BY <2>5, <2>6, <3>1, <3>2 DEF RowUsable
  <2> QED
    BY <1>o, <1>1, <2>2, <2>6, <2>7
<1>9. CASE o.method = "sign"
  <2>1. new = row /\ Approvals(o) = approved
    BY <1>o, <1>9 DEF NewRow, Approvals
  <2> QED
    BY <1>o, <1>1, <1>4, <1>9, <2>1
<1> QED
  BY <1>1, <1>5, <1>6, <1>7, <1>8, <1>9, Methods6 DEF Signing, SigningPlain

\* A failing command ends the method and leaves the store alone.
LEMMA CallFailsStep ==
    ASSUME Counted, IInv, CallFails
    PROVE  IInv'
<1>1. /\ op' = None /\ LeaveOpen(Guarded(Call(op), op))
      /\ UNCHANGED <<pcrs, default_pcr, tpm, credentials, approved>>
  BY DEF CallFails
<1>2. /\ leaked' \in [objects : 0..MAX_OBJECTS, sessions : 0..MAX_SESSIONS]
      /\ open' = {} /\ Room'
  BY <1>1, LeaveOpenRoom
<1>3. TypeOK'
  BY <1>1, <1>2 DEF IInv, TypeOK
<1>4. HandleInv'
  BY <1>1, <1>2 DEF HandleInv
<1>5. PolicyInv'
  BY <1>1 DEF IInv, PolicyInv, RowOK
<1> QED
  BY <1>3, <1>4, <1>5 DEF IInv

\* Finish leaves a usable row, committed or not.
LEMMA FinishStep ==
    ASSUME Counted, IInv, NEW committed \in BOOLEAN, Finish(committed)
    PROVE  IInv'
<1>1. /\ op # None /\ ~Calling /\ op' = None /\ LeaveOpen(Guarded("end", op))
      /\ credentials' = IF committed THEN [credentials EXCEPT ![op.cred] = NewRow(op)]
                        ELSE credentials
      /\ approved' = IF committed THEN Approvals(op) ELSE approved
      /\ UNCHANGED <<pcrs, default_pcr, tpm>>
  BY DEF Finish
<1>2. /\ leaked' \in [objects : 0..MAX_OBJECTS, sessions : 0..MAX_SESSIONS]
      /\ open' = {} /\ Room'
  BY <1>1, LeaveOpenRoom
<1>3. /\ NewRow(op) \in Rows
      /\ Approvals(op) \in [Credentials -> Readings]
      /\ RowUsable(op.cred, NewRow(op), Approvals(op)[op.cred])
      /\ \A c \in Credentials : c # op.cred => Approvals(op)[c] = approved[c]
  BY <1>1, NewRowUsable
<1>4. /\ op.cred \in Credentials /\ credentials \in [Credentials -> Rows \cup {None}]
      /\ approved \in [Credentials -> Readings]
  BY <1>1, OpFacts DEF IInv, TypeOK, Operations
<1>5. credentials' \in [Credentials -> Rows \cup {None}] /\ approved' \in [Credentials -> Readings]
  BY <1>1, <1>3, <1>4
<1>6. TypeOK'
  BY <1>1, <1>2, <1>5 DEF IInv, TypeOK
<1>7. HandleInv'
  BY <1>1, <1>2 DEF HandleInv
<1>8. ASSUME NEW c \in Credentials, credentials'[c] # None
      PROVE  RowUsable(c, credentials'[c], approved'[c])
  <2>1. credentials[c] # None => RowUsable(c, credentials[c], approved[c])
    BY DEF IInv, PolicyInv, RowOK
  <2>2. CASE ~committed \/ c # op.cred
    <3>1. credentials'[c] = credentials[c] /\ approved'[c] = approved[c]
      BY <1>1, <1>3, <1>4, <2>2
    <3> QED
      BY <1>8, <2>1, <3>1
  <2>3. CASE committed /\ c = op.cred
    <3>1. credentials'[c] = NewRow(op) /\ approved'[c] = Approvals(op)[op.cred]
      BY <1>1, <1>4, <2>3
    <3> QED
      BY <1>3, <2>3, <3>1
  <2> QED
    BY <2>2, <2>3
<1>9. PolicyInv'
  <2>1. \A c \in Credentials : credentials'[c] # None => RowOK(c, credentials[c])'
    BY <1>8 DEF RowOK, RowUsable
  <2> QED
    BY <1>1, <2>1 DEF IInv, PolicyInv
<1> QED
  BY <1>6, <1>7, <1>9 DEF IInv

\* The other actions: rows deleted, the default policy set, a PCR extended, a restart.
LEMMA OtherSteps ==
    ASSUME Counted, IInv,
           \/ \E c \in Credentials : Delete(c)
           \/ \E selection \in Selections : SetDefaultPcrPolicy(selection)
           \/ Restart
           \/ UNCHANGED vars
    PROVE  IInv'
<1>1. CASE \E c \in Credentials : Delete(c)
  <2>1. PICK c \in Credentials : Delete(c)
    BY <1>1
  <2>2. /\ credentials' = [credentials EXCEPT ![c] = None] /\ op = None
        /\ UNCHANGED <<pcrs, default_pcr, tpm, op, open, leaked, approved>>
    BY <2>1 DEF Delete
  <2>3. TypeOK'
    BY <2>2 DEF IInv, TypeOK
  <2>4. HandleInv'
    BY <2>2 DEF IInv, HandleInv, Room
  <2>5. \A x \in Credentials : credentials'[x] # None => credentials[x] = credentials'[x]
    BY <2>2 DEF IInv, TypeOK
  <2>6. PolicyInv'
    BY <2>2, <2>5 DEF IInv, PolicyInv, RowOK
  <2> QED
    BY <2>3, <2>4, <2>6 DEF IInv
<1>2. CASE \E selection \in Selections : SetDefaultPcrPolicy(selection)
  <2>1. /\ default_pcr' \in Selections
        /\ UNCHANGED <<pcrs, tpm, credentials, op, open, leaked, approved, reply>>
    BY <1>2 DEF SetDefaultPcrPolicy
  <2>2. TypeOK'
    BY <2>1 DEF IInv, TypeOK
  <2>3. HandleInv'
    BY <2>1 DEF IInv, HandleInv, Room, Held
  <2>o. PICK o : o = op
    OBVIOUS
  <2>4. o # None => OpOK(o)'
    BY <2>1, <2>o, OpFrame DEF IInv, PolicyInv
  <2>5. PolicyInv'
    BY <2>1, <2>4, <2>o DEF IInv, PolicyInv, RowOK
  <2> QED
    BY <2>2, <2>3, <2>5 DEF IInv
<1>3. CASE Restart
  <2>1. /\ pcrs' \in [Pcrs -> Measurements] /\ tpm' = None /\ op' = None /\ open' = {}
        /\ leaked' = [objects |-> 0, sessions |-> 0]
        /\ UNCHANGED <<default_pcr, credentials, approved>>
    BY <1>3 DEF Restart
  <2>2. TypeOK'
    BY <2>1, SlotAssumption DEF IInv, TypeOK
  <2>3. Cardinality(open' \cap ObjectHandles) = 0 /\ Cardinality(open' \cap {"session"}) = 0
    <3>1. open' \cap ObjectHandles = {} /\ open' \cap {"session"} = {}
      BY <2>1
    <3> QED
      BY <3>1 DEF Counted
  <2>4. HandleInv'
    BY <2>1, <2>3, SlotAssumption DEF HandleInv, Room
  <2>5. PolicyInv'
    BY <2>1 DEF IInv, PolicyInv, RowOK
  <2> QED
    BY <2>2, <2>4, <2>5 DEF IInv
<1>4. CASE UNCHANGED vars
  <2>1. UNCHANGED <<pcrs, default_pcr, tpm, credentials, op, open, leaked, approved, reply>>
    BY <1>4 DEF vars
  <2>2. TypeOK'
    BY <2>1 DEF IInv, TypeOK
  <2>3. HandleInv'
    BY <2>1 DEF IInv, HandleInv, Room, Held
  <2>o. PICK o : o = op
    OBVIOUS
  <2>4. o # None => OpOK(o)'
    BY <2>1, <2>o, OpFrame DEF IInv, PolicyInv
  <2>5. PolicyInv'
    BY <2>1, <2>4, <2>o DEF IInv, PolicyInv, RowOK
  <2> QED
    BY <2>2, <2>3, <2>5 DEF IInv
<1> QED
  BY <1>1, <1>2, <1>3, <1>4

\* A PCR extended: what the method read is stale from then on.
LEMMA ExtendStep ==
    ASSUME IInv, NEW i \in Pcrs, NEW m \in Measurements, Extend(i, m)
    PROVE  IInv'
<1>1. /\ pcrs' = [pcrs EXCEPT ![i] = m]
      /\ op' = IF op = None THEN None ELSE [op EXCEPT !.fresh = FALSE]
      /\ UNCHANGED <<default_pcr, tpm, credentials, open, leaked, approved, reply>>
  BY DEF Extend
<1>2. pcrs' \in [Pcrs -> Measurements]
  BY <1>1 DEF IInv, TypeOK
<1>3. \A c \in Credentials : credentials'[c] # None => RowOK(c, credentials[c])'
  BY <1>1 DEF IInv, PolicyInv, RowOK
<1>4. CASE op = None
  <2>1. op' = None
    BY <1>1, <1>4
  <2>2. TypeOK'
    BY <1>1, <1>2, <1>4, <2>1 DEF IInv, TypeOK
  <2>3. HandleInv'
    BY <1>1, <2>1 DEF IInv, HandleInv, Room
  <2>4. PolicyInv'
    BY <1>1, <1>3, <2>1 DEF IInv, PolicyInv
  <2> QED
    BY <2>2, <2>3, <2>4 DEF IInv
<1>5. CASE op # None
  <2>o. PICK o, u : o = op /\ u = [o EXCEPT !.fresh = FALSE]
    OBVIOUS
  <2>1. o \in Operations /\ OpOK(o) /\ Held(o) /\ o.at \in 1..(Len(Program(o)) + 1) /\ op' = u
    BY <1>1, <1>5, <2>o, OpFacts
  <2>2. /\ u \in Operations /\ u.fresh = FALSE
        /\ u.method = o.method /\ u.cred = o.cred /\ u.at = o.at /\ u.recovery = o.recovery
        /\ u.auth = o.auth /\ u.slot = o.slot /\ u.key = o.key /\ u.signature = o.signature
        /\ u.read = o.read /\ u.session = o.session /\ u.approved = o.approved
        /\ u.digest = o.digest /\ u.ticket = o.ticket /\ u.platform = o.platform
    BY <2>1, <2>o DEF Operations
  <2>3. u # None
    BY <2>2, NoneAssumption
  <2>4. TypeOK'
    BY <1>1, <1>2, <2>1, <2>2, <2>3 DEF IInv, TypeOK
  <2>5. /\ Parent(u) = Parent(o) /\ Authority(u) = Authority(o)
        /\ Session(u) = Session(o) /\ Key(u) = Key(o) /\ Program(u) = Program(o)
    BY <2>1, <2>2, SameMethod
  <2>6. /\ Making(u) <=> Making(o)
        /\ MakingPlain(u) <=> MakingPlain(o)
        /\ Signing(u) <=> Signing(o)
        /\ SigningPlain(u) <=> SigningPlain(o)
        /\ Updating(u) <=> Updating(o)
        /\ Changing(u) <=> Changing(o)
    BY <2>1, <2>2, SameMethod
  <2>7. HandleInv'
    <3>1. Held(u)' /\ u.at \in 1..(Len(Program(u)) + 1)
      BY <1>1, <2>1, <2>2, <2>5 DEF Held
    <3> QED
      BY <1>1, <2>1, <3>1 DEF IInv, HandleInv, Room, Held
  <2>8. OpOK(u)'
    <3>1. /\ tpm' # None /\ reply'.status = "begun"
          /\ u.method # "makeCredential" => Stored(u)'
      BY <1>1, <2>1, <2>2 DEF OpOK, Stored
    <3>2. ASSUME NEW b PROVE BootOK(o, b) => BootOK(u, b)'
      BY <1>1, <2>2 DEF BootOK
    <3>3. ASSUME NEW s, NEW a, NEW d PROVE AuthorizeOK(o, s, a, d) => AuthorizeOK(u, s, a, d)'
      BY <2>2 DEF AuthorizeOK
    <3>4. MakingOK(o) => MakingOK(u)'
      BY <2>2, <3>2, <3>3 DEF MakingOK
    <3>5. MakingPlainOK(o) => MakingPlainOK(u)'
      BY <2>2, <3>2 DEF MakingPlainOK
    <3>6. ReadOK(o) => ReadOK(u)'
      BY <1>1, <2>2 DEF ReadOK
    <3>7. SigningOK(o) => SigningOK(u)'
      BY <1>1, <2>2, <3>6 DEF SigningOK, ToSign
    <3>8. SigningPlainOK(o) => SigningPlainOK(u)'
      BY <1>1, <2>2, <3>6 DEF SigningPlainOK
    <3>9. UpdatingOK(o) => UpdatingOK(u)'
      BY <1>1, <2>2, <3>2, <3>3 DEF UpdatingOK
    <3>10. ChangingOK(o) => ChangingOK(u)'
      BY <1>1, <2>2 DEF ChangingOK
    <3> QED
      BY <2>1, <2>6, <3>1, <3>4, <3>5, <3>7, <3>8, <3>9, <3>10
         DEF OpOK, Making, MakingPlain, Signing, SigningPlain, Updating, Changing
  <2>9. PolicyInv'
    BY <1>1, <1>3, <2>1, <2>8 DEF IInv, PolicyInv
  <2> QED
    BY <2>4, <2>7, <2>9 DEF IInv
<1> QED
  BY <1>4, <1>5

----------------------------------------------------------------------------
(* Every step *)

\* The daemon starts without handles, operations and credentials.
LEMMA InitInv == ASSUME Counted, Init PROVE IInv
<1>1. TypeOK
  BY SlotAssumption DEF Init, TypeOK, Readings
<1>2. Cardinality(open \cap ObjectHandles) = 0 /\ Cardinality(open \cap {"session"}) = 0
  <2>1. open \cap ObjectHandles = {} /\ open \cap {"session"} = {}
    BY DEF Init
  <2> QED
    BY <2>1 DEF Counted
<1>3. HandleInv
  BY <1>2, SlotAssumption DEF Init, HandleInv, Room
<1>4. PolicyInv
  BY DEF Init, PolicyInv
<1> QED
  BY <1>1, <1>3, <1>4 DEF IInv

\* Every step keeps the invariant.
LEMMA NextInv == ASSUME Counted, IInv, [Next]_vars PROVE IInv'
<1>1. ASSUME NEW c \in Credentials, NEW opened \in BOOLEAN, NEW auth \in Auths \cup {None},
             MakeCredential(c, auth, opened)
      PROVE  IInv'
  BY <1>1, MakeCredentialStep
<1>2. ASSUME NEW c \in Credentials, NEW opened \in BOOLEAN, SignCredential(c, opened)
      PROVE  IInv'
  BY <1>2, SignCredentialStep
<1>3. ASSUME NEW c \in Credentials, NEW opened \in BOOLEAN, PcrPolicyUpdate(c, opened)
      PROVE  IInv'
  BY <1>3, PcrPolicyUpdateStep
<1>4. ASSUME NEW c \in Credentials, NEW opened \in BOOLEAN, NEW auth \in Auths,
             PassphraseChange(c, auth, opened)
      PROVE  IInv'
  BY <1>4, PassphraseChangeStep
<1>5. CASE CallSucceeds
  BY <1>5, CallSucceedsHandles, CallSucceedsPolicy DEF IInv
<1>6. CASE CallFails
  BY <1>6, CallFailsStep
<1>7. ASSUME NEW committed \in BOOLEAN, Finish(committed) PROVE IInv'
  BY <1>7, FinishStep
<1>8. ASSUME NEW i \in Pcrs, NEW m \in Measurements, Extend(i, m) PROVE IInv'
  BY <1>8, ExtendStep
<1>9. CASE \/ \E c \in Credentials : Delete(c)
           \/ \E selection \in Selections : SetDefaultPcrPolicy(selection)
           \/ Restart
           \/ UNCHANGED vars
  BY <1>9, OtherSteps
<1> QED
  BY <1>1, <1>2, <1>3, <1>4, <1>5, <1>6, <1>7, <1>8, <1>9 DEF Next

\* A step of an operation: a command, its end, a PCR extended, the default policy set, a
\* restart, or none.
LEMMA OpSteps ==
    ASSUME op # None, [Next]_vars
    PROVE  \/ CallSucceeds
           \/ CallFails
           \/ \E committed \in BOOLEAN : Finish(committed)
           \/ \E i \in Pcrs, m \in Measurements : Extend(i, m)
           \/ Restart
           \/ UNCHANGED <<op, reply>>
BY DEF Next, MakeCredential, SignCredential, PcrPolicyUpdate, PassphraseChange, Begin, Delete,
   SetDefaultPcrPolicy, vars

\* A step that ends a method without an error, or ends sign_digest_with_policy, leaves no
\* handle.
LEMMA StepReleases ==
    ASSUME Counted, IInv, [Next]_vars, op # None, op' = None,
           op.method = "sign" \/ reply'.status = "ok"
    PROVE  leaked'.objects <= leaked.objects /\ leaked'.sessions <= leaked.sessions
<1>0. op \in Operations /\ open \subseteq Handles /\ Held(op)
      /\ leaked.objects \in Nat /\ leaked.sessions \in Nat
  BY OpFacts, SlotAssumption DEF IInv, TypeOK
<1>1. ASSUME NEW guarded, LeaveOpen(guarded), open \ guarded = {}
      PROVE  leaked'.objects <= leaked.objects /\ leaked'.sessions <= leaked.sessions
  <2>1. /\ (open \ guarded) \cap ObjectHandles = {}
        /\ (open \ guarded) \cap {"session"} = {}
    BY <1>1
  <2>2. leaked' = [objects |-> leaked.objects + 0, sessions |-> leaked.sessions + 0]
    BY <1>1, <2>1 DEF LeaveOpen, Counted
  <2> QED
    BY <1>0, <2>2
<1>2. CASE CallSucceeds
  <2>1. Calling /\ op' = [Returned(Call(op), op) EXCEPT !.at = @ + 1]
    BY <1>2 DEF CallSucceeds
  <2>2. op' \in Operations
    BY <2>1, CallFacts DEF Effects
  <2> QED
    BY <2>2, NoneAssumption
<1>3. CASE CallFails
  <2>1. reply'.status # "ok"
    BY <1>3 DEF CallFails, Answer
  <2>2. LeaveOpen(Guarded(Call(op), op))
    BY <1>3 DEF CallFails
  <2>3. op.method = "sign"
    BY <2>1
  <2>4. op.at \in 1..Len(Program(op))
    BY <1>3, CallFacts DEF CallFails
  <2>5. Call(op) \notin {"create_authority", "create_key"}
    <3>1. CASE Signing(op)
      <4>1. SigningCall(Call(op), op.at)
        BY <2>4, <3>1, CallsAt
      <4> QED
        BY <4>1 DEF SigningCall
    <3>2. CASE SigningPlain(op)
      <4>1. SigningPlainCall(Call(op), op.at)
        BY <2>4, <3>2, CallsAt
      <4> QED
        BY <4>1 DEF SigningPlainCall
    <3> QED
      BY <1>0, <2>3, <3>1, <3>2 DEF Signing, SigningPlain, Operations
  <2>6. Guarded(Call(op), op) = Handles
    BY <2>3, <2>5 DEF Guarded
  <2> QED
    BY <1>0, <1>1, <2>2, <2>6
<1>4. CASE \E committed \in BOOLEAN : Finish(committed)
  <2>1. LeaveOpen(Guarded("end", op)) /\ ~Calling
    BY <1>4 DEF Finish
  <2>2. CASE op.method = "sign"
    <3>1. Guarded("end", op) = Handles
      BY <2>2 DEF Guarded
    <3> QED
      BY <1>0, <1>1, <2>1, <3>1
  <2>3. CASE op.method # "sign"
    <3>1. op.at = Len(Program(op)) + 1
      BY <2>1, EndFacts
    <3>2. op.at \notin Parent(op) \cup Authority(op) \cup Session(op) \cup Key(op)
      BY <1>0, <2>3, <3>1, EndPositions
    <3>3. open = {}
      BY <1>0, <3>2 DEF Held, Handles, ObjectHandles
    <3> QED
      BY <1>1, <2>1, <3>3
  <2> QED
    BY <2>2, <2>3
<1>5. CASE \E i \in Pcrs, m \in Measurements : Extend(i, m)
  <2>1. op' = [op EXCEPT !.fresh = FALSE]
    BY <1>5 DEF Extend
  <2>2. op' \in Operations
    BY <1>0, <2>1 DEF Operations
  <2> QED
    BY <2>2, NoneAssumption
<1>6. CASE Restart
  BY <1>0, <1>6 DEF Restart
<1>7. CASE UNCHANGED <<op, reply>>
  BY <1>7
<1> QED
  BY <1>2, <1>3, <1>4, <1>5, <1>6, <1>7, OpSteps

\* A step in which the TPM signs is one on the approved platform.
LEMMA StepSigns ==
    ASSUME Counted, IInv, [Next]_vars, Calling, Call(op) = "sign", op' # None, op'.at > op.at
    PROVE  CurrentPcrDigest(credentials[op.cred].policy.selection) = approved[op.cred]
<1>0. /\ op # None /\ op \in Operations /\ OpOK(op) /\ op.at \in 1..Len(Program(op))
      /\ op.cred \in Credentials
  BY CallFacts, OpFacts DEF Operations
<1>1. CallSucceeds
  <2>1. CASE CallFails \/ Restart \/ \E committed \in BOOLEAN : Finish(committed)
    BY <2>1 DEF CallFails, Finish, Restart
  <2>2. CASE \E i \in Pcrs, m \in Measurements : Extend(i, m)
    <3>1. op' = [op EXCEPT !.fresh = FALSE]
      BY <1>0, <2>2 DEF Extend
    <3>2. op'.at = op.at /\ op.at \in Nat
      BY <1>0, <3>1 DEF Operations
    <3> QED
      BY <3>2
  <2>3. CASE UNCHANGED <<op, reply>>
    <3>1. op'.at = op.at /\ op.at \in Nat
      BY <1>0, <2>3 DEF Operations
    <3> QED
      BY <3>1
  <2> QED
    BY <1>0, <2>1, <2>2, <2>3, OpSteps
<1>2. op.session = op.key /\ op.fresh
  BY <1>1 DEF CallSucceeds, Refused
<1>o. PICK o, row, platform : o = op /\ row = credentials[o.cred] /\ platform = approved[o.cred]
  OBVIOUS
<1>3. (Signing(o) /\ o.at = 12) \/ (SigningPlain(o) /\ o.at = 6)
  <2>1. /\ Making(o) => MakingCall("sign", o.at)
        /\ MakingPlain(o) => MakingPlainCall("sign", o.at)
        /\ Signing(o) => SigningCall("sign", o.at)
        /\ SigningPlain(o) => SigningPlainCall("sign", o.at)
        /\ Updating(o) => UpdatingCall("sign", o.at)
        /\ Changing(o) => ChangingCall("sign", o.at)
    BY <1>0, <1>o, CallsAt
  <2>2. ~Making(o) /\ ~MakingPlain(o) /\ ~Updating(o) /\ ~Changing(o)
    BY <2>1 DEF MakingCall, MakingPlainCall, UpdatingCall, ChangingCall
  <2>3. (Signing(o) => o.at = 12) /\ (SigningPlain(o) => o.at = 6)
    BY <2>1 DEF SigningCall, SigningPlainCall
  <2> QED
    BY <1>0, <1>o, <2>2, <2>3, Methods6
<1>4. row # None /\ RowUsable(o.cred, row, platform)
  <2>1. row # None
    BY <1>0, <1>3, <1>o DEF OpOK, Stored, Signing, SigningPlain
  <2>2. \A c \in Credentials : credentials[c] # None => RowUsable(c, credentials[c], approved[c])
    BY DEF IInv, PolicyInv, RowOK
  <2> QED
    BY <1>0, <1>o, <2>1, <2>2
<1>5. o.read \in [tpm.name -> Measurements] /\ o.read = CurrentPcrDigest(tpm.name)
  <2>1. SigningOK(o) \/ SigningPlainOK(o)
    BY <1>0, <1>3, <1>o DEF OpOK
  <2>2. ReadOK(o)
    BY <2>1 DEF SigningOK, SigningPlainOK
  <2>3. o.at > 3
    BY <1>3
  <2> QED
    BY <1>2, <1>o, <2>2, <2>3 DEF ReadOK
<1>6. PcrPolicy(o.read) = PcrPolicy(platform)
  <2>1. CASE Signing(o) /\ o.at = 12
    <3>1. /\ o.approved = PcrPolicy(o.read) /\ o.signature = ToSign(o)
          /\ o.signature = row.policy.signature /\ row.recovery # None
      <4>1. SigningOK(o)
        BY <1>0, <1>o, <2>1 DEF OpOK
      <4>2. o.at > 6 /\ o.at > 9
        BY <2>1
      <4> QED
        BY <1>o, <4>1, <4>2 DEF SigningOK
    <3>2. row.policy.signature = PolicyWithRefHash(PcrPolicy(platform), o.cred)
      BY <1>4, <3>1 DEF RowUsable
    <3> QED
      BY <3>1, <3>2 DEF ToSign, PolicyWithRefHash
  <2>2. CASE SigningPlain(o) /\ o.at = 6
    <3>1. o.session = PcrPolicy(o.read) /\ o.key = row.key /\ row.recovery = None
      <4>1. SigningPlainOK(o)
        BY <1>0, <1>o, <2>2 DEF OpOK
      <4>2. o.at > 5
        BY <2>2
      <4> QED
        BY <1>o, <4>1, <4>2 DEF SigningPlainOK
    <3> QED
      BY <1>2, <1>4, <1>o, <3>1 DEF RowUsable
  <2> QED
    BY <1>3, <2>1, <2>2
<1>7. o.read = platform
  BY <1>6 DEF PcrPolicy, PolicyPcr
<1>8. row.policy.selection = tpm.name
  <2>1. DOMAIN o.read = tpm.name
    BY <1>5
  <2>2. DOMAIN platform = row.policy.selection
    BY <1>4 DEF RowUsable
  <2> QED
    BY <1>7, <2>1, <2>2
<1> QED
  BY <1>5, <1>7, <1>8, <1>o

\* A step in which the policy refuses is not one on the approved platform.
LEMMA StepApproved ==
    ASSUME Counted, IInv, [Next]_vars, op # None, op.method = "sign", reply'.status = "refused",
           op.fresh, tpm.name = credentials[op.cred].policy.selection,
           CurrentPcrDigest(tpm.name) = approved[op.cred]
    PROVE  FALSE
<1>0. op \in Operations /\ OpOK(op) /\ tpm.list = tpm.name /\ op.cred \in Credentials
  BY OpFacts DEF Operations
<1>1. CallFails
  <2>1. reply.status = "begun"
    BY <1>0 DEF OpOK
  <2>2. CASE CallSucceeds \/ \E i \in Pcrs, m \in Measurements : Extend(i, m)
    BY <2>1, <2>2 DEF CallSucceeds, Extend
  <2>3. CASE Restart
    <3>1. reply'.status = "ok"
      BY <2>3 DEF Restart, Answer
    <3> QED
      BY <3>1
  <2>5. CASE \E committed \in BOOLEAN : Finish(committed)
    <3>1. reply'.status # "refused"
      BY <2>5 DEF Finish, Answer
    <3> QED
      BY <3>1
  <2>4. CASE UNCHANGED <<op, reply>>
    BY <2>1, <2>4
  <2> QED
    BY <2>2, <2>3, <2>4, <2>5, OpSteps
<1>2. Calling /\ Refused(Call(op), op)
  BY <1>1 DEF CallFails, Answer
<1>o. PICK o, row, platform, call :
           o = op /\ row = credentials[o.cred] /\ platform = approved[o.cred] /\ call = Call(o)
  OBVIOUS
<1>3. o.at \in 1..Len(Program(o))
  BY <1>2, <1>o, CallFacts
<1>4. row # None /\ RowUsable(o.cred, row, platform)
  <2>1. row # None
    BY <1>0, <1>o DEF OpOK, Stored
  <2>2. \A c \in Credentials : credentials[c] # None => RowUsable(c, credentials[c], approved[c])
    BY DEF IInv, PolicyInv, RowOK
  <2> QED
    BY <1>0, <1>o, <2>1, <2>2
<1>5. CASE Signing(o)
  <2>1. SigningOK(o) /\ SigningCall(call, o.at) /\ o.at \in 1..12
    BY <1>0, <1>3, <1>5, <1>o, CallsAt DEF OpOK
  <2>2. o.at > 3 => o.read = platform
    BY <1>o, <2>1 DEF SigningOK, ReadOK
  <2>3. /\ row.recovery # None /\ o.key = row.key /\ o.signature = row.policy.signature
        /\ row.key = AuthorizedPolicy(o.cred)
        /\ row.policy.signature = PolicyWithRefHash(PcrPolicy(platform), o.cred)
    BY <1>4, <1>o, <2>1 DEF SigningOK, RowUsable
  <2>4. CASE call = "policy_pcr"
    <3>1. o.at > 3
      BY <2>1, <2>4 DEF SigningCall
    <3>2. o.read = CurrentPcrDigest(tpm.list)
      BY <1>0, <1>o, <2>2, <3>1
    <3> QED
      BY <1>2, <1>o, <2>4, <3>2 DEF Refused
  <2>5. CASE call = "verify_signature"
    <3>1. o.at = 9
      BY <2>1, <2>5 DEF SigningCall
    <3>2. o.approved = PcrPolicy(platform)
      BY <2>1, <2>2, <3>1 DEF SigningOK
    <3>3. o.signature = ToSign(o)
      BY <2>3, <3>2 DEF ToSign
    <3> QED
      BY <1>2, <1>o, <2>5, <3>3 DEF Refused
  <2>6. CASE call = "policy_authorize"
    <3>1. o.at = 10
      BY <2>1, <2>6 DEF SigningCall
    <3>2. /\ o.session = PcrPolicy(o.read) /\ o.approved = PcrPolicy(o.read)
          /\ o.ticket = ToSign(o)
      <4>1. o.at \in 6..10 /\ o.at > 6 /\ o.at > 9
        BY <3>1
      <4> QED
        BY <2>1, <4>1 DEF SigningOK
    <3> QED
      BY <1>2, <1>o, <2>6, <3>2 DEF Refused, ToSign
  <2>7. CASE call = "sign"
    <3>1. o.at = 12
      BY <2>1, <2>7 DEF SigningCall
    <3>2. o.session = AuthorizedPolicy(o.cred)
      <4>1. o.at > 11
        BY <3>1
      <4> QED
        BY <2>1, <4>1 DEF SigningOK
    <3> QED
      BY <1>2, <1>o, <2>3, <2>7, <3>2 DEF Refused
  <2>8. CASE call \notin {"policy_pcr", "verify_signature", "policy_authorize", "sign"}
    <3>1. call \notin {"sign_policy", "object_change_auth"}
      BY <2>1 DEF SigningCall
    <3> QED
      BY <1>2, <1>o, <2>8, <3>1 DEF Refused
  <2> QED
    BY <2>4, <2>5, <2>6, <2>7, <2>8
<1>6. CASE SigningPlain(o)
  <2>1. SigningPlainOK(o) /\ SigningPlainCall(call, o.at) /\ o.at \in 1..6
    BY <1>0, <1>3, <1>6, <1>o, CallsAt DEF OpOK
  <2>2. o.at > 3 => o.read = platform
    BY <1>o, <2>1 DEF SigningPlainOK, ReadOK
  <2>3. o.key = PcrPolicy(platform)
    BY <1>4, <1>o, <2>1 DEF SigningPlainOK, RowUsable
  <2>4. CASE call = "policy_pcr"
    <3>1. o.at > 3
      BY <2>1, <2>4 DEF SigningPlainCall
    <3>2. o.read = CurrentPcrDigest(tpm.list)
      BY <1>0, <1>o, <2>2, <3>1
    <3> QED
      BY <1>2, <1>o, <2>4, <3>2 DEF Refused
  <2>5. CASE call = "sign"
    <3>1. o.at = 6
      BY <2>1, <2>5 DEF SigningPlainCall
    <3>2. o.session = PcrPolicy(platform)
      BY <2>1, <2>2, <3>1 DEF SigningPlainOK
    <3> QED
      BY <1>2, <1>o, <2>3, <2>5, <3>2 DEF Refused
  <2>6. CASE call \notin {"policy_pcr", "sign"}
    <3>1. call \notin {"sign_policy", "object_change_auth", "verify_signature",
                       "policy_authorize"}
      BY <2>1 DEF SigningPlainCall
    <3> QED
      BY <1>2, <1>o, <2>6, <3>1 DEF Refused
  <2> QED
    BY <2>4, <2>5, <2>6
<1> QED
  BY <1>0, <1>5, <1>6, <1>o DEF Signing, SigningPlain, Operations

=============================================================================
