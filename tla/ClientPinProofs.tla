-------------------------- MODULE ClientPinProofs --------------------------
(***************************************************************************)
(* Invariance proofs for ClientPin, for every set of channels, PINs and    *)
(* RP ids, every PIN_RETRIES, and whether or not loading may fail.         *)
(***************************************************************************)
EXTENDS ClientPin, TLAPS

\* What a PIN check leaves in memory and in the row, and what it does to the count
\* of wrong PINs, keeps the guess bound; its status is Ok only for the right PIN.
AuthSafe(hash, persisted) ==
    LET auth == AuthenticatePin(hash, persisted)
        w    == WrongAfter(hash, auth)
    IN  /\ auth.memory \in ClientPinState \cup {None}
        /\ auth.row \in ClientPinState \cup {None}
        /\ auth.status \in ErrorStatus
        /\ w \in 0..PIN_RETRIES
        /\ (auth.memory = None) <=> (client_pin = None)
        /\ auth.memory # None => /\ w + auth.memory.retries <= PIN_RETRIES
                                 /\ auth.memory.pin = client_pin.pin
                                 /\ auth.row # None
                                 /\ auth.row.pin = auth.memory.pin
        /\ auth.row # None => w + auth.row.retries <= PIN_RETRIES
        /\ stored # None => auth.row # None
        /\ auth.status = "Ok" => /\ client_pin # None
                                 /\ client_pin.retries # 0
                                 /\ w = 0

\* The conjunction that is inductive: the guess bound on the row is what a restart
\* turns into the bound in memory, and it needs the types.
IInv == TypeOK /\ GuessBound /\ RestartKeepsPin /\ PinTokenNeedsPin

\* A state of the PIN is not None.
LEMMA PinStateNotNone == None \notin ClientPinState
  BY RetriesAssumption, NoneAssumption DEF ClientPinState

\* authenticate_pin keeps the guess bound, whichever of its writes fail.
LEMMA AuthenticatePinSafe ==
    ASSUME IInv, NEW hash \in Pins \cup {None}, NEW persisted \in BOOLEAN
    PROVE  AuthSafe(hash, persisted)
<1> USE PinStateNotNone, RetriesAssumption
<1>1. CASE client_pin = None
  BY <1>1 DEF AuthSafe, AuthenticatePin, WrongAfter, IInv, TypeOK, GuessBound, ErrorStatus
<1>2. CASE client_pin # None /\ client_pin.retries = 0
  BY <1>2 DEF AuthSafe, AuthenticatePin, WrongAfter, IInv, TypeOK, GuessBound,
              RestartKeepsPin, ErrorStatus
<1>3. CASE client_pin # None /\ client_pin.retries # 0 /\ hash # client_pin.pin
  <2>1. client_pin \in ClientPinState /\ client_pin.retries \in 1..PIN_RETRIES
    BY <1>3 DEF IInv, TypeOK, ClientPinState
  <2>2. WithRetries(client_pin.retries - 1) \in ClientPinState
    BY <2>1 DEF WithRetries, ClientPinState
  <2> QED
    BY <1>3, <2>1, <2>2 DEF AuthSafe, AuthenticatePin, WrongPin, PersistClientPin, WrongAfter,
              WithRetries, IInv, TypeOK, GuessBound, RestartKeepsPin, ErrorStatus
<1>4. CASE client_pin # None /\ client_pin.retries # 0 /\ hash = client_pin.pin
  <2>1. client_pin \in ClientPinState
    BY <1>4 DEF IInv, TypeOK
  <2>2. WithRetries(PIN_RETRIES) \in ClientPinState
    BY <2>1 DEF WithRetries, ClientPinState
  <2> QED
    BY <1>4, <2>1, <2>2 DEF AuthSafe, AuthenticatePin, RightPin, PersistClientPin, WrongAfter,
              WithRetries, IInv, TypeOK, GuessBound, RestartKeepsPin, ErrorStatus, ClientPinState
<1> QED BY <1>1, <1>2, <1>3, <1>4


----------------------------------------------------------------------------

\* The answer of every handler is a well-formed one.
LEMMA AnswerType ==
    ASSUME NEW cmd \in Commands, NEW status \in ErrorStatus, NEW pin \in Pins \cup {None},
           Answer(cmd, status, pin)
    PROVE  reply' \in [cmd : Commands, status : ErrorStatus, pin : Pins \cup {None}]
  BY DEF Answer

\* A daemon with an empty store has no PIN, no token and no wrong guess.
LEMMA InitInv == Init => IInv
  BY RetriesAssumption DEF Init, IInv, TypeOK, GuessBound, RestartKeepsPin,
     PinTokenNeedsPin, Commands, ErrorStatus

\* setPin keeps the invariant: memory takes the PIN only once its row is written.
LEMMA SetPinInv ==
    ASSUME IInv, NEW c \in Channels, NEW new \in Pins, NEW persisted \in BOOLEAN,
           SetPin(c, new, persisted)
    PROVE  IInv'
<1> DEFINE state == [pin |-> new, retries |-> PIN_RETRIES]
<1>1. state \in ClientPinState /\ state # None
  BY RetriesAssumption, PinStateNotNone DEF ClientPinState
<1>2. reply' \in [cmd : Commands, status : ErrorStatus, pin : Pins \cup {None}]
  BY DEF SetPin, Answer, PinUvKeys, Commands, ErrorStatus
<1>3. CASE stored' = state /\ client_pin' = state /\ wrong' = 0 /\ unset' = FALSE
  <2>1. UNCHANGED <<key_agreement, pin_uv_auth_token, agreed>>
    BY DEF SetPin
  <2>2. unset' \in BOOLEAN
    BY <1>3
  <2> QED
    BY <1>1, <1>2, <1>3, <2>1, <2>2, RetriesAssumption
       DEF IInv, TypeOK, GuessBound, RestartKeepsPin, PinTokenNeedsPin
<1>4. CASE UNCHANGED <<stored, client_pin, wrong, unset>>
  BY <1>2, <1>4 DEF SetPin, IInv, TypeOK, GuessBound, RestartKeepsPin, PinTokenNeedsPin
<1> QED BY <1>3, <1>4 DEF SetPin

\* change_pin authenticates and then writes: both halves keep the bound.
LEMMA ChangePinInv ==
    ASSUME IInv, NEW c \in Channels, NEW old \in Pins, NEW new \in Pins,
           NEW p1 \in BOOLEAN, NEW p2 \in BOOLEAN, ChangePin(c, old, new, p1, p2)
    PROVE  IInv'
<1> DEFINE hash  == DecryptPinHash(c, old)
           auth  == AuthenticatePin(hash, p1)
           state == [pin |-> new, retries |-> PIN_RETRIES]
<1>1. hash \in Pins \cup {None}
  BY DEF DecryptPinHash
<1>2. AuthSafe(hash, p1)
  BY <1>1, AuthenticatePinSafe
<1>3. state \in ClientPinState
  BY RetriesAssumption DEF ClientPinState
<1>4. /\ auth.status \in ErrorStatus
      /\ auth.memory \in ClientPinState \cup {None}
      /\ auth.row \in ClientPinState \cup {None}
      /\ WrongAfter(hash, auth) \in 0..PIN_RETRIES
  BY <1>2 DEF AuthSafe
<1>5. reply' \in [cmd : Commands, status : ErrorStatus, pin : Pins \cup {None}]
  BY <1>4 DEF ChangePin, Answer, PinUvKeys, Commands, ErrorStatus
<1>6. UNCHANGED <<key_agreement, pin_uv_auth_token, agreed, unset>>
  BY DEF ChangePin
<1>7. CASE /\ client_pin' = state /\ stored' = state
           /\ wrong' = WrongAfter(hash, auth) /\ auth.status = "Ok"
  <2>1. wrong' = 0
    BY <1>2, <1>7 DEF AuthSafe
  <2> QED
    BY <1>3, <1>5, <1>6, <1>7, <2>1, RetriesAssumption, PinStateNotNone
       DEF IInv, TypeOK, GuessBound, RestartKeepsPin, PinTokenNeedsPin
<1>8. CASE /\ client_pin' = auth.memory /\ stored' = auth.row
           /\ wrong' = WrongAfter(hash, auth)
  BY <1>2, <1>4, <1>5, <1>6, <1>8, PinStateNotNone
     DEF AuthSafe, IInv, TypeOK, GuessBound, RestartKeepsPin, PinTokenNeedsPin
<1>9. CASE UNCHANGED <<client_pin, stored, wrong>>
  BY <1>5, <1>6, <1>9 DEF IInv, TypeOK, GuessBound, RestartKeepsPin, PinTokenNeedsPin
<1> QED BY <1>7, <1>8, <1>9 DEF ChangePin


\* A token is issued for the right PIN only, and a wrong PIN costs a retry.
LEMMA GetPinUvAuthTokenInv ==
    ASSUME IInv, NEW c \in Channels, NEW pin \in Pins, NEW permissions \in SUBSET Permissions,
           NEW rp_id \in RpIds \cup {None}, NEW persisted \in BOOLEAN,
           GetPinUvAuthToken(c, pin, permissions, rp_id, persisted)
    PROVE  IInv'
<1> DEFINE hash  == DecryptPinHash(c, pin)
           auth  == AuthenticatePin(hash, persisted)
           token == [permissions |-> permissions, rp_id |-> rp_id, via |-> "pin",
                     expired |-> FALSE]
<1>1. hash \in Pins \cup {None}
  BY DEF DecryptPinHash
<1>2. AuthSafe(hash, persisted)
  BY <1>1, AuthenticatePinSafe
<1>3. token \in PinUvAuthToken
  BY DEF PinUvAuthToken
<1>4. /\ auth.status \in ErrorStatus
      /\ auth.memory \in ClientPinState \cup {None}
      /\ auth.row \in ClientPinState \cup {None}
      /\ WrongAfter(hash, auth) \in 0..PIN_RETRIES
  BY <1>2 DEF AuthSafe
<1>5. reply' \in [cmd : Commands, status : ErrorStatus, pin : Pins \cup {None}]
  BY <1>4 DEF GetPinUvAuthToken, Answer, Commands, ErrorStatus
<1>6. UNCHANGED <<key_agreement, agreed, unset>>
  BY DEF GetPinUvAuthToken
<1>7. CASE /\ client_pin' = auth.memory /\ stored' = auth.row
           /\ wrong' = WrongAfter(hash, auth)
           /\ \/ pin_uv_auth_token' = token /\ auth.status = "Ok"
              \/ UNCHANGED pin_uv_auth_token
  BY <1>2, <1>3, <1>4, <1>5, <1>6, <1>7, PinStateNotNone
     DEF AuthSafe, IInv, TypeOK, GuessBound, RestartKeepsPin, PinTokenNeedsPin
<1>8. CASE UNCHANGED <<client_pin, stored, wrong, pin_uv_auth_token>>
  BY <1>5, <1>6, <1>8 DEF IInv, TypeOK, GuessBound, RestartKeepsPin, PinTokenNeedsPin
<1> QED BY <1>7, <1>8 DEF GetPinUvAuthToken

\* The other handlers leave the PIN, its row and the count alone, or clear them.
LEMMA OtherHandlersInv ==
    ASSUME IInv, UNCHANGED <<client_pin, stored, wrong, unset>>,
           key_agreement' \in Channels \cup {None}, agreed' \subseteq Channels,
           pin_uv_auth_token' \in PinUvAuthToken \cup {None},
           \/ pin_uv_auth_token' = None
           \/ pin_uv_auth_token'.via = "uv"
           \/ pin_uv_auth_token # None /\ pin_uv_auth_token'.via = pin_uv_auth_token.via,
           reply' \in [cmd : Commands, status : ErrorStatus, pin : Pins \cup {None}]
    PROVE  IInv'
  BY DEF IInv, TypeOK, GuessBound, RestartKeepsPin, PinTokenNeedsPin

\* authenticatorReset keeps the invariant, whether or not the row could be deleted.
LEMMA ResetInv ==
    ASSUME IInv, NEW approved \in BOOLEAN, NEW deleted \in BOOLEAN, Reset(approved, deleted)
    PROVE  IInv'
<1>1. reply' \in [cmd : Commands, status : ErrorStatus, pin : Pins \cup {None}]
  BY DEF Reset, Answer, Commands, ErrorStatus
<1>2. unset' \in BOOLEAN
  BY DEF Reset, IInv, TypeOK
<1> QED
  BY <1>1, <1>2 DEF Reset, IInv, TypeOK, GuessBound, RestartKeepsPin, PinTokenNeedsPin

\* A restart puts the row's retries in memory, for which the bound held as well.
LEMMA RestartInv ==
    ASSUME IInv, NEW loaded \in BOOLEAN, Restart(loaded)
    PROVE  IInv'
<1>1. reply' \in [cmd : Commands, status : ErrorStatus, pin : Pins \cup {None}]
  BY DEF Restart, Answer, Commands, ErrorStatus
<1>2. unset' \in BOOLEAN
  BY DEF Restart, IInv, TypeOK
<1> QED
  BY <1>1, <1>2 DEF Restart, IInv, TypeOK, GuessBound, RestartKeepsPin, PinTokenNeedsPin


----------------------------------------------------------------------------

\* Every command, the expiry of the token and a restart keep the invariant.
LEMMA NextInv == IInv /\ [Next]_vars => IInv'
<1> SUFFICES ASSUME IInv, [Next]_vars PROVE IInv'
  OBVIOUS
<1>1. ASSUME NEW cmd \in Commands, RejectRequest(cmd) PROVE IInv'
  BY <1>1, OtherHandlersInv DEF RejectRequest, Answer, IInv, TypeOK, ErrorStatus
<1>2. CASE GetRetries
  BY <1>2, OtherHandlersInv DEF GetRetries, Answer, IInv, TypeOK, Commands, ErrorStatus
<1>3. ASSUME NEW c \in Channels, GetKeyAgreement(c) PROVE IInv'
  BY <1>3, OtherHandlersInv DEF GetKeyAgreement, Answer, IInv, TypeOK, Commands, ErrorStatus
<1>4. ASSUME NEW c \in Channels, NEW permissions \in SUBSET Permissions,
             NEW rp_id \in RpIds \cup {None}, NEW approved \in BOOLEAN,
             GetPinUvAuthTokenUsingUv(c, permissions, rp_id, approved)
      PROVE  IInv'
  BY <1>4, OtherHandlersInv
     DEF GetPinUvAuthTokenUsingUv, Answer, IInv, TypeOK, PinUvAuthToken, Commands, ErrorStatus
<1>5. ASSUME NEW permission \in Permissions, NEW rp_id \in RpIds \cup {None},
             NEW param \in {"absent", "malformed", "good", "bad"},
             NEW same_session \in BOOLEAN,
             ValidatePinUvAuth(permission, rp_id, param, same_session)
      PROVE  IInv'
  BY <1>5, OtherHandlersInv
     DEF ValidatePinUvAuth, Answer, IInv, TypeOK, Commands, ErrorStatus
<1>6. CASE CancelPending
  BY <1>6, OtherHandlersInv DEF CancelPending, Answer, IInv, TypeOK, Commands, ErrorStatus
<1>7. CASE TokenExpires
  BY <1>7, OtherHandlersInv
     DEF TokenExpires, Answer, IInv, TypeOK, PinUvAuthToken, Commands, ErrorStatus
<1>8. CASE UNCHANGED vars
  BY <1>8 DEF vars, IInv, TypeOK, GuessBound, RestartKeepsPin, PinTokenNeedsPin
<1> QED
  BY <1>1, <1>2, <1>3, <1>4, <1>5, <1>6, <1>7, <1>8, SetPinInv, ChangePinInv,
     GetPinUvAuthTokenInv, ResetInv, RestartInv DEF Next

\* The inductive invariant holds in every reachable state.
THEOREM Invariance == Spec => []IInv
  BY InitInv, NextInv, PTL DEF Spec

\* Every variable of the PIN component keeps its type.
THEOREM TypeCorrect == Spec => []TypeOK
  BY Invariance, PTL DEF IInv

\* However often the daemon restarts and whichever of its writes fail, the wrong PINs
\* answered plus the retries left never exceed PIN_RETRIES (authenticate_pin).
THEOREM GuessesBounded == Spec => []GuessBound
  BY Invariance, PTL DEF IInv

\* The PIN in memory is the PIN a restart would load (set_pin, change_pin).
THEOREM RestartKeeps == Spec => []RestartKeepsPin
  BY Invariance, PTL DEF IInv

\* A token obtained with a PIN does not outlive the PIN (reset, Authenticator::new).
THEOREM PinTokens == Spec => []PinTokenNeedsPin
  BY Invariance, PTL DEF IInv

----------------------------------------------------------------------------
(* Action properties *)

\* With PIN_RETRIES wrong PINs answered no retry is left, so authenticate_pin refuses.
LEMMA BlockedStep ==
    ASSUME IInv, wrong = PIN_RETRIES, Next
    PROVE  ~(reply'.cmd \in {"getToken", "changePin"} /\ reply'.status = "Ok")
<1>1. client_pin = None \/ client_pin.retries = 0
  BY RetriesAssumption DEF IInv, TypeOK, GuessBound, ClientPinState
<1>2. \A hash, persisted : AuthenticatePin(hash, persisted).status # "Ok"
  BY <1>1 DEF AuthenticatePin
<1> DEFINE Refused == ~(reply'.cmd \in {"getToken", "changePin"} /\ reply'.status = "Ok")
<1>3. ASSUME NEW c \in Channels, NEW old \in Pins, NEW new \in Pins, NEW p1 \in BOOLEAN,
             NEW p2 \in BOOLEAN, ChangePin(c, old, new, p1, p2)
      PROVE  Refused
  BY <1>2, <1>3 DEF ChangePin, Answer
<1>4. ASSUME NEW c \in Channels, NEW pin \in Pins, NEW permissions \in SUBSET Permissions,
             NEW rp_id \in RpIds \cup {None}, NEW persisted \in BOOLEAN,
             GetPinUvAuthToken(c, pin, permissions, rp_id, persisted)
      PROVE  Refused
  BY <1>2, <1>4 DEF GetPinUvAuthToken, Answer
<1>5. ASSUME NEW cmd, RejectRequest(cmd) PROVE Refused
  BY <1>5 DEF RejectRequest, Answer
<1>6. ASSUME NEW cmd \in {"start", "getRetries", "getKeyAgreement", "setPin", "getTokenUv",
                         "validate", "cancel", "reset", "clock"},
             NEW status, NEW pin, Answer(cmd, status, pin)
      PROVE  Refused
  BY <1>6 DEF Answer
<1>7. ASSUME GetRetries \/ CancelPending \/ TokenExpires PROVE Refused
  BY <1>6, <1>7 DEF GetRetries, CancelPending, TokenExpires
<1>8. ASSUME NEW c \in Channels, GetKeyAgreement(c) PROVE Refused
  BY <1>6, <1>8 DEF GetKeyAgreement
<1>9. ASSUME NEW c \in Channels, NEW new \in Pins, NEW persisted \in BOOLEAN,
             SetPin(c, new, persisted)
      PROVE  Refused
  BY <1>6, <1>9 DEF SetPin
<1>10. ASSUME NEW c \in Channels, NEW permissions \in SUBSET Permissions,
              NEW rp_id \in RpIds \cup {None}, NEW approved \in BOOLEAN,
              GetPinUvAuthTokenUsingUv(c, permissions, rp_id, approved)
       PROVE  Refused
  BY <1>6, <1>10 DEF GetPinUvAuthTokenUsingUv
<1>11. ASSUME NEW permission \in Permissions, NEW rp_id \in RpIds \cup {None},
              NEW param \in {"absent", "malformed", "good", "bad"},
              NEW same_session \in BOOLEAN,
              ValidatePinUvAuth(permission, rp_id, param, same_session)
       PROVE  Refused
  BY <1>6, <1>11 DEF ValidatePinUvAuth
<1>12. ASSUME NEW approved \in BOOLEAN, NEW deleted \in BOOLEAN, Reset(approved, deleted)
       PROVE  Refused
  BY <1>6, <1>12 DEF Reset
<1>13. ASSUME NEW loaded \in BOOLEAN, Restart(loaded) PROVE Refused
  BY <1>6, <1>13 DEF Restart
<1> HIDE DEF Refused
<1>14. Refused
  BY <1>3, <1>4, <1>5, <1>7, <1>8, <1>9, <1>10, <1>11, <1>12, <1>13 DEF Next
<1> QED BY <1>14 DEF Refused

\* After PIN_RETRIES wrong answers neither a token by PIN nor a change of PIN succeeds,
\* across restarts (get_pin_uv_auth_token, change_pin).
THEOREM Blocked == Spec => BlockedUntilReset
<1>1. IInv /\ [Next]_vars =>
        [wrong = PIN_RETRIES =>
           ~(reply'.cmd \in {"getToken", "changePin"} /\ reply'.status = "Ok")]_vars
  BY BlockedStep
<1> QED BY <1>1, Invariance, PTL DEF Spec, BlockedUntilReset

\* A PIN that was set and neither reset nor unreadable at a start is in memory and in the
\* row.
SetInv == ~unset => client_pin # None /\ stored # None

\* A PIN that was set stays in memory until a reset, or a start that cannot read its row.
LEMMA SetInvStep == IInv /\ SetInv /\ [Next]_vars => SetInv'
<1> SUFFICES ASSUME IInv, SetInv, [Next]_vars PROVE SetInv'
  OBVIOUS
<1> DEFINE full(new) == [pin |-> new, retries |-> PIN_RETRIES]
<1>1. \A new \in Pins : full(new) # None
  BY RetriesAssumption, NoneAssumption
<1>2. \A hash \in Pins \cup {None}, persisted \in BOOLEAN :
        /\ client_pin # None => AuthenticatePin(hash, persisted).memory # None
        /\ stored # None => AuthenticatePin(hash, persisted).row # None
  BY AuthenticatePinSafe DEF AuthSafe
<1>3. ASSUME NEW c \in Channels, NEW new \in Pins, NEW persisted \in BOOLEAN,
             SetPin(c, new, persisted)
      PROVE  SetInv'
  BY <1>1, <1>3 DEF SetPin, SetInv
<1>4. ASSUME NEW c \in Channels, NEW old \in Pins, NEW new \in Pins, NEW p1 \in BOOLEAN,
             NEW p2 \in BOOLEAN, ChangePin(c, old, new, p1, p2)
      PROVE  SetInv'
  BY <1>1, <1>2, <1>4 DEF ChangePin, DecryptPinHash, SetInv
<1>5. ASSUME NEW c \in Channels, NEW pin \in Pins, NEW permissions \in SUBSET Permissions,
             NEW rp_id \in RpIds \cup {None}, NEW persisted \in BOOLEAN,
             GetPinUvAuthToken(c, pin, permissions, rp_id, persisted)
      PROVE  SetInv'
  BY <1>2, <1>5 DEF GetPinUvAuthToken, DecryptPinHash, SetInv
<1>6. ASSUME NEW approved \in BOOLEAN, NEW deleted \in BOOLEAN, Reset(approved, deleted)
      PROVE  SetInv'
  BY <1>6 DEF Reset, SetInv
<1>7. ASSUME NEW loaded \in BOOLEAN, Restart(loaded)
      PROVE  SetInv'
  BY <1>7 DEF Restart, SetInv
<1>8. CASE UNCHANGED <<client_pin, stored, unset>>
  BY <1>8 DEF SetInv
<1> QED
  BY <1>3, <1>4, <1>5, <1>6, <1>7, <1>8
     DEF Next, vars, RejectRequest, GetRetries, GetKeyAgreement, GetPinUvAuthTokenUsingUv,
         ValidatePinUvAuth, CancelPending, TokenExpires


\* setPin succeeds only on an authenticator that never had a PIN, was reset since, or
\* could not read its row at a start (set_pin, Authenticator::new).
THEOREM SetPinGuarded == Spec => SetPinOnlyWhenUnset
<1>1. Init => SetInv
  BY DEF Init, SetInv
<1>2. IInv /\ SetInv /\ [Next]_vars => SetInv'
  BY SetInvStep
<1>3. SetInv /\ Next =>
        (reply'.cmd = "setPin" /\ reply'.status = "Ok" /\ stored' # stored => unset)
  <2> DEFINE Goal == reply'.cmd = "setPin" /\ reply'.status = "Ok" /\ stored' # stored
                      => unset
  <2> SUFFICES ASSUME SetInv, Next PROVE Goal
    OBVIOUS
  <2>1. ASSUME NEW c \in Channels, NEW new \in Pins, NEW persisted \in BOOLEAN,
               SetPin(c, new, persisted)
        PROVE  Goal
    BY <2>1 DEF SetPin, Answer, SetInv
  <2>2. ASSUME NEW c \in Channels, NEW old \in Pins, NEW new \in Pins, NEW p1 \in BOOLEAN,
               NEW p2 \in BOOLEAN, ChangePin(c, old, new, p1, p2)
        PROVE  Goal
    <3>1. PICK status : Answer("changePin", status, old)
      BY <2>2 DEF ChangePin
    <3> QED BY <3>1 DEF Answer
  <2>3. ASSUME NEW c \in Channels, NEW pin \in Pins, NEW permissions \in SUBSET Permissions,
               NEW rp_id \in RpIds \cup {None}, NEW persisted \in BOOLEAN,
               GetPinUvAuthToken(c, pin, permissions, rp_id, persisted)
        PROVE  Goal
    <3>1. PICK status : Answer("getToken", status, pin)
      BY <2>3 DEF GetPinUvAuthToken
    <3> QED BY <3>1 DEF Answer
  <2>4. ASSUME NEW approved \in BOOLEAN, NEW deleted \in BOOLEAN, Reset(approved, deleted)
        PROVE  Goal
    BY <2>4 DEF Reset, Answer
  <2>5. CASE UNCHANGED stored
    BY <2>5
  <2> HIDE DEF Goal
  <2> QED
    BY <2>1, <2>2, <2>3, <2>4, <2>5
       DEF Next, RejectRequest, GetRetries, GetKeyAgreement, GetPinUvAuthTokenUsingUv,
           ValidatePinUvAuth, CancelPending, TokenExpires, Restart
<1>4. SetInv /\ [Next]_vars =>
        [reply'.cmd = "setPin" /\ reply'.status = "Ok" /\ stored' # stored => unset]_vars
  BY <1>3
<1> QED BY <1>1, <1>2, <1>4, Invariance, PTL DEF Spec, SetPinOnlyWhenUnset

\* A client alone on the device loses no retry by entering the right PIN: the key
\* agreement key is its own or there is none (decrypt_pin_hash, authenticate_pin).
THEOREM AloneNotRefused ==
    ASSUME NEW c0, Channels = {c0} PROVE Spec => RightPinNotRefused
<1>1. IInv /\ Next => (wrong' > wrong => client_pin # None /\ reply'.pin # client_pin.pin)
  <2> SUFFICES ASSUME IInv, Next, wrong' > wrong
               PROVE  client_pin # None /\ reply'.pin # client_pin.pin
    OBVIOUS
  <2>1. wrong \in Nat
    BY RetriesAssumption DEF IInv, TypeOK
  <2>2. \A hash, persisted :
          WrongAfter(hash, AuthenticatePin(hash, persisted)) > wrong =>
              client_pin # None /\ hash # client_pin.pin
    BY <2>1 DEF WrongAfter
  <2>3. ASSUME NEW c \in Channels, NEW old \in Pins, NEW new \in Pins, NEW p1 \in BOOLEAN,
               NEW p2 \in BOOLEAN, ChangePin(c, old, new, p1, p2)
        PROVE  client_pin # None /\ reply'.pin # client_pin.pin
    <3>1. reply'.pin = old
      BY <2>3 DEF ChangePin, Answer
    <3>2. /\ PinUvKeys(c) = "Ok" /\ client_pin # None
          /\ wrong' = WrongAfter(DecryptPinHash(c, old),
                                 AuthenticatePin(DecryptPinHash(c, old), p1))
      <4>1. wrong' # wrong
        BY <2>1
      <4> QED BY <2>3, <4>1 DEF ChangePin
    <3>3. DecryptPinHash(c, old) = old
      BY <3>2 DEF DecryptPinHash, PinUvKeys
    <3> QED BY <2>2, <3>1, <3>2, <3>3
  <2>4. ASSUME NEW c \in Channels, NEW pin \in Pins, NEW permissions \in SUBSET Permissions,
               NEW rp_id \in RpIds \cup {None}, NEW persisted \in BOOLEAN,
               GetPinUvAuthToken(c, pin, permissions, rp_id, persisted)
        PROVE  client_pin # None /\ reply'.pin # client_pin.pin
    BY <2>1, <2>2, <2>4 DEF GetPinUvAuthToken, Answer, DecryptPinHash, IInv, TypeOK
  <2>5. ~UNCHANGED wrong
    BY <2>1
  <2>6. ~\E c \in Channels, new \in Pins, persisted \in BOOLEAN : SetPin(c, new, persisted)
    BY <2>1 DEF SetPin
  <2>7. \/ \E c \in Channels, old, new \in Pins, p1, p2 \in BOOLEAN :
              ChangePin(c, old, new, p1, p2)
        \/ \E c \in Channels, pin \in Pins, permissions \in SUBSET Permissions,
              rp_id \in RpIds \cup {None}, persisted \in BOOLEAN :
              GetPinUvAuthToken(c, pin, permissions, rp_id, persisted)
    BY <2>5, <2>6
       DEF Next, RejectRequest, GetRetries, GetKeyAgreement, GetPinUvAuthTokenUsingUv,
           ValidatePinUvAuth, CancelPending, Reset, TokenExpires, Restart
  <2> QED BY <2>3, <2>4, <2>7
<1>2. IInv /\ [Next]_vars =>
        [wrong' > wrong => client_pin # None /\ reply'.pin # client_pin.pin]_vars
  BY <1>1
<1> QED BY <1>2, Invariance, PTL DEF Spec, RightPinNotRefused

=============================================================================
