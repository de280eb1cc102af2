----------------------------- MODULE ClientPin -----------------------------
(***************************************************************************)
(* authenticatorClientPIN: the PIN and its retry counter, in the daemon's  *)
(* memory and in the client_pin_state row of the SQLite store, the         *)
(* ephemeral key agreement key, and the pinUvAuthToken that the other      *)
(* commands present (src/ctap2.rs, src/store.rs).                          *)
(*                                                                         *)
(* The daemon handles one command at a time on its main loop, so every     *)
(* action is a whole handler.  A store write is an input: each call of the *)
(* store either commits or reports an error (`persisted').  A PIN is an    *)
(* opaque value: salt, verifier, HKDF, AES and HMAC are represented by     *)
(* whether the client's shared secret is the authenticator's.              *)
(***************************************************************************)
EXTENDS Naturals, FiniteSets

CONSTANTS
    Channels,       \* CTAPHID channels, one client behind each
    Pins,           \* PIN values
    RpIds,          \* relying party identifiers
    Permissions,    \* pinUvAuthToken permission flags
    GET_ASSERTION,  \* the flag that requires an RP id
    PIN_RETRIES,    \* wrong PINs allowed in a row
    LoadMayFail,    \* may the PIN row be unreadable when the daemon starts?
    None            \* Option::None

ASSUME RetriesAssumption == PIN_RETRIES \in Nat \ {0}

ASSUME PermissionAssumption == GET_ASSERTION \in Permissions

ASSUME LoadAssumption == LoadMayFail \in BOOLEAN

ASSUME NoneAssumption ==
    /\ None \notin Channels \cup Pins \cup RpIds
    /\ None \notin [pin : Pins, retries : Nat]
    /\ None \notin [permissions : SUBSET Permissions, rp_id : RpIds \cup {None},
                    via : {"pin", "uv"}, expired : BOOLEAN]

VARIABLES
    client_pin,         \* Authenticator.client_pin: PIN and retries in memory
    stored,             \* the client_pin_state row
    key_agreement,      \* the client that shares the current ephemeral key
    pin_uv_auth_token,  \* Authenticator.pin_uv_auth_token
    agreed,             \* clients holding keys of some getKeyAgreement answer
    wrong,              \* wrong PINs answered since a PIN was last accepted or set
    unset,              \* no PIN was set since the first start or the last reset, or since
                        \* a start that could not read the row
    reply               \* the last event: command, status and the PIN it carried

vars == <<client_pin, stored, key_agreement, pin_uv_auth_token, agreed, wrong,
          unset, reply>>

----------------------------------------------------------------------------
(* The state *)

ClientPinState == [pin : Pins, retries : 0..PIN_RETRIES]

\* issued_at is reduced to whether the 600 seconds of validate_pin_uv_auth are
\* over; via is the subcommand that issued the token.
PinUvAuthToken ==
    [permissions : SUBSET Permissions, rp_id : RpIds \cup {None},
     via : {"pin", "uv"}, expired : BOOLEAN]

Commands == {"start", "getRetries", "getKeyAgreement", "setPin", "changePin",
             "getToken", "getTokenUv", "validate", "cancel", "reset", "clock"}

ErrorStatus == {"Ok", "NoAuth", "InvalidCommand", "InvalidParameter",
                "OperationDenied", "PinInvalid", "PinBlocked", "PinAuthInvalid",
                "PinNotSet"}

TypeOK ==
    /\ client_pin \in ClientPinState \cup {None}
    /\ stored \in ClientPinState \cup {None}
    /\ key_agreement \in Channels \cup {None}
    /\ pin_uv_auth_token \in PinUvAuthToken \cup {None}
    /\ agreed \subseteq Channels
    /\ wrong \in 0..PIN_RETRIES
    /\ unset \in BOOLEAN
    /\ reply \in [cmd : Commands, status : ErrorStatus, pin : Pins \cup {None}]

Answer(cmd, status, pin) == reply' = [cmd |-> cmd, status |-> status, pin |-> pin]

Init ==
    /\ client_pin = None
    /\ stored = None
    /\ key_agreement = None
    /\ pin_uv_auth_token = None
    /\ agreed = {}
    /\ wrong = 0
    /\ unset = TRUE
    /\ reply = [cmd |-> "start", status |-> "Ok", pin |-> None]

----------------------------------------------------------------------------
(* Helpers of the handlers *)

\* pin_uv_keys and verify_pin_uv_auth_param: the status a request of client c
\* gets before its ciphertexts are used.  Without a key agreement key the request
\* is refused; with the key of another getKeyAgreement its MAC does not verify.
PinUvKeys(c) ==
    IF key_agreement = None THEN "InvalidCommand"
    ELSE IF key_agreement # c THEN "PinAuthInvalid"
    ELSE "Ok"

\* A variant of DecryptPinHash whose ephemeral key is used up by the first token.
DecryptPinHashOnce(c, pin) ==
    IF key_agreement = c /\ pin_uv_auth_token = None THEN pin ELSE None

\* The PIN hash an authenticator decrypts: under another shared secret it is
\* 16 bytes that match no PIN.
DecryptPinHash(c, pin) == IF key_agreement = c THEN pin ELSE None

\* persist_client_pin writes the one row of client_pin_state or reports an error.
PersistClientPin(state, persisted) == IF persisted THEN state ELSE stored

WithRetries(n) == [pin |-> client_pin.pin, retries |-> n]

\* A variant of WrongPin that lowers the counter in memory only.
WrongPinUnwritten(persisted) ==
    LET lower == WithRetries(client_pin.retries - 1)
    IN  [memory |-> lower, row |-> stored,
         status |-> IF lower.retries = 0 THEN "PinBlocked" ELSE "PinInvalid"]

WrongPin(persisted) ==
    LET lower == WithRetries(client_pin.retries - 1)
    IN  [memory |-> lower,
         row    |-> PersistClientPin(lower, persisted),
         status |-> IF ~persisted THEN "OperationDenied"
                    ELSE IF lower.retries = 0 THEN "PinBlocked"
                    ELSE "PinInvalid"]

RightPin(persisted) ==
    LET full    == WithRetries(PIN_RETRIES)
        written == client_pin.retries # PIN_RETRIES
    IN  [memory |-> full,
         row    |-> IF written THEN PersistClientPin(full, persisted) ELSE stored,
         status |-> IF written /\ ~persisted THEN "OperationDenied" ELSE "Ok"]

\* Variants of AuthenticatePin that forget the blocked state, or look at it too late.
AuthenticatePinUnblocked(pin_hash, persisted) ==
    IF client_pin = None
    THEN [memory |-> client_pin, row |-> stored, status |-> "PinNotSet"]
    ELSE IF pin_hash # client_pin.pin THEN WrongPin(persisted)
    ELSE RightPin(persisted)

AuthenticatePinBlockedLast(pin_hash, persisted) ==
    IF client_pin = None
    THEN [memory |-> client_pin, row |-> stored, status |-> "PinNotSet"]
    ELSE IF pin_hash = client_pin.pin THEN RightPin(persisted)
    ELSE IF client_pin.retries # 0 THEN WrongPin(persisted)
    ELSE [memory |-> client_pin, row |-> stored, status |-> "PinBlocked"]

\* authenticate_pin: the retry counter is lowered, and written, before the answer.
AuthenticatePin(pin_hash, persisted) ==
    IF client_pin = None
    THEN [memory |-> client_pin, row |-> stored, status |-> "PinNotSet"]
    ELSE IF client_pin.retries = 0
    THEN [memory |-> client_pin, row |-> stored, status |-> "PinBlocked"]
    ELSE IF pin_hash # client_pin.pin THEN WrongPin(persisted)
    ELSE RightPin(persisted)

\* What the answer to a PIN means for the count of wrong ones.  A PIN that matched
\* ends the series even when the write that follows it fails.
WrongAfter(pin_hash, auth) ==
    IF client_pin = None \/ client_pin.retries = 0 THEN wrong
    ELSE IF pin_hash = client_pin.pin THEN 0
    ELSE IF auth.status \in {"PinInvalid", "PinBlocked"} THEN wrong + 1
    ELSE wrong

\* What both token subcommands ask of their parameters.
TokenParams(permissions, rp_id) ==
    permissions # {} /\ (GET_ASSERTION \in permissions => rp_id # None)

----------------------------------------------------------------------------
(* The subcommands of authenticatorClientPIN *)

\* A request refused for its form (missing or malformed parameters, a PIN that
\* breaks the PIN policy) is refused before any state changes.
RejectRequest(cmd) ==
    /\ Answer(cmd, "InvalidParameter", None)
    /\ UNCHANGED <<client_pin, stored, key_agreement, pin_uv_auth_token, agreed,
                   wrong, unset>>

GetRetries ==
    /\ Answer("getRetries", "Ok", None)
    /\ UNCHANGED <<client_pin, stored, key_agreement, pin_uv_auth_token, agreed,
                   wrong, unset>>

\* Every request makes a new ephemeral key; keys derived from the old one no
\* longer work, whoever holds them.
GetKeyAgreement(c) ==
    /\ key_agreement' = c
    /\ agreed' = agreed \cup {c}
    /\ Answer("getKeyAgreement", "Ok", None)
    /\ UNCHANGED <<client_pin, stored, pin_uv_auth_token, wrong, unset>>

\* Variants of SetPin that replace a PIN, or take it over before it is written.
SetPinUnguarded(c, new, persisted) ==
    LET state == [pin |-> new, retries |-> PIN_RETRIES]
    IN  /\ c \in agreed /\ PinUvKeys(c) = "Ok" /\ persisted
        /\ stored' = state /\ client_pin' = state /\ wrong' = 0 /\ unset' = FALSE
        /\ Answer("setPin", "Ok", None)
        /\ UNCHANGED <<key_agreement, pin_uv_auth_token, agreed>>

SetPinTakenFirst(c, new, persisted) ==
    LET state == [pin |-> new, retries |-> PIN_RETRIES]
    IN  /\ c \in agreed /\ PinUvKeys(c) = "Ok" /\ client_pin = None
        /\ client_pin' = state /\ wrong' = 0 /\ unset' = FALSE
        /\ stored' = IF persisted THEN state ELSE stored
        /\ Answer("setPin", IF persisted THEN "Ok" ELSE "OperationDenied", None)
        /\ UNCHANGED <<key_agreement, pin_uv_auth_token, agreed>>

SetPin(c, new, persisted) ==
    LET status == IF client_pin # None THEN "InvalidCommand"
                  ELSE IF PinUvKeys(c) # "Ok" THEN PinUvKeys(c)
                  ELSE IF ~persisted THEN "OperationDenied"
                  ELSE "Ok"
        state  == [pin |-> new, retries |-> PIN_RETRIES]
    IN  /\ c \in agreed
        /\ IF status = "Ok"
           THEN stored' = state /\ client_pin' = state /\ wrong' = 0 /\ unset' = FALSE
           ELSE UNCHANGED <<stored, client_pin, wrong, unset>>
        /\ Answer("setPin", status, None)
        /\ UNCHANGED <<key_agreement, pin_uv_auth_token, agreed>>

\* The current PIN is authenticated first, with a write of its own; the new PIN
\* is written next and taken over in memory only when that write succeeded.
ChangePin(c, old, new, persisted1, persisted2) ==
    LET keys   == IF client_pin = None THEN "PinNotSet" ELSE PinUvKeys(c)
        hash   == DecryptPinHash(c, old)
        auth   == AuthenticatePin(hash, persisted1)
        state  == [pin |-> new, retries |-> PIN_RETRIES]
        status == IF keys # "Ok" THEN keys
                  ELSE IF auth.status # "Ok" THEN auth.status
                  ELSE IF ~persisted2 THEN "OperationDenied"
                  ELSE "Ok"
    IN  /\ c \in agreed
        /\ client_pin' = IF status = "Ok" THEN state
                         ELSE IF keys = "Ok" THEN auth.memory
                         ELSE client_pin
        /\ stored' = IF status = "Ok" THEN state
                     ELSE IF keys = "Ok" THEN auth.row
                     ELSE stored
        /\ wrong' = IF keys = "Ok" THEN WrongAfter(hash, auth) ELSE wrong
        /\ Answer("changePin", status, old)
        /\ UNCHANGED <<key_agreement, pin_uv_auth_token, agreed, unset>>

\* getPinToken (6) and getPinUvAuthTokenUsingPinWithPermissions (9).  pinHashEnc
\* carries no MAC: whatever it decrypts to is tried as the PIN.
GetPinUvAuthToken(c, pin, permissions, rp_id, persisted) ==
    LET hash   == DecryptPinHash(c, pin)
        auth   == AuthenticatePin(hash, persisted)
        params == IF ~TokenParams(permissions, rp_id) THEN "InvalidParameter"
                  ELSE IF key_agreement = None THEN "InvalidCommand"
                  ELSE "Ok"
        status == IF params # "Ok" THEN params ELSE auth.status
    IN  /\ c \in agreed
        /\ client_pin' = IF params = "Ok" THEN auth.memory ELSE client_pin
        /\ stored' = IF params = "Ok" THEN auth.row ELSE stored
        /\ wrong' = IF params = "Ok" THEN WrongAfter(hash, auth) ELSE wrong
        /\ pin_uv_auth_token' =
               IF status = "Ok"
               THEN [permissions |-> permissions, rp_id |-> rp_id, via |-> "pin",
                     expired |-> FALSE]
               ELSE pin_uv_auth_token
        /\ Answer("getToken", status, pin)
        /\ UNCHANGED <<key_agreement, agreed, unset>>

\* getPinUvAuthTokenUsingUvWithPermissions (10): the session is compared before
\* and after the user is asked, and no PIN needs to be set.
GetPinUvAuthTokenUsingUv(c, permissions, rp_id, approved) ==
    LET status == IF ~TokenParams(permissions, rp_id) THEN "InvalidParameter"
                  ELSE IF ~approved THEN "OperationDenied"
                  ELSE IF key_agreement = None THEN "InvalidCommand"
                  ELSE "Ok"
    IN  /\ c \in agreed
        /\ pin_uv_auth_token' =
               IF status = "Ok"
               THEN [permissions |-> permissions, rp_id |-> rp_id, via |-> "uv",
                     expired |-> FALSE]
               ELSE pin_uv_auth_token
        /\ Answer("getTokenUv", status, None)
        /\ UNCHANGED <<client_pin, stored, key_agreement, agreed, wrong, unset>>

----------------------------------------------------------------------------
(* The token in the other commands, cancellation, reset, time and restart *)

\* A token is accepted for a permission it has and for the RP it is scoped to.
InScope(token, permission, rp_id) ==
    permission \in token.permissions /\ token.rp_id \in {None, rp_id}

\* validate_pin_uv_auth, as makeCredential, getAssertion and credentialManagement
\* call it.  param is what the request carries: nothing, a bad protocol or half of
\* the pair ("malformed"), or a MAC that is good or bad.  Every refusal after the
\* form was checked drops the token.
ValidatePinUvAuth(permission, rp_id, param, same_session) ==
    LET accepted == /\ pin_uv_auth_token # None
                    /\ ~pin_uv_auth_token.expired
                    /\ InScope(pin_uv_auth_token, permission, rp_id)
                    /\ param = "good"
        status == IF ~same_session THEN "OperationDenied"
                  ELSE IF param = "absent" THEN "NoAuth"
                  ELSE IF param = "malformed" THEN "InvalidParameter"
                  ELSE IF accepted THEN "Ok"
                  ELSE "PinAuthInvalid"
    IN  /\ pin_uv_auth_token' =
               IF status = "PinAuthInvalid" THEN None ELSE pin_uv_auth_token
        /\ Answer("validate", status, None)
        /\ UNCHANGED <<client_pin, stored, key_agreement, agreed, wrong, unset>>

\* CTAPHID_CANCEL on any channel reaches cancel_pending.
CancelPending ==
    /\ key_agreement' = None
    /\ pin_uv_auth_token' = None
    /\ Answer("cancel", "Ok", None)
    /\ UNCHANGED <<client_pin, stored, agreed, wrong, unset>>

\* A variant of Reset that leaves the token.
ResetKeepsToken(approved, deleted) ==
    LET clears == approved /\ client_pin # None
    IN  /\ stored' = IF clears /\ deleted THEN None ELSE stored
        /\ client_pin' = IF clears THEN None ELSE client_pin
        /\ key_agreement' = IF clears THEN None ELSE key_agreement
        /\ unset' = (unset \/ approved)
        /\ Answer("reset", IF approved THEN "Ok" ELSE "OperationDenied", None)
        /\ UNCHANGED <<pin_uv_auth_token, agreed, wrong>>

\* authenticatorReset.  The result of deleting the row is discarded, and without a
\* PIN in memory neither the row nor the token is touched.
Reset(approved, deleted) ==
    LET status == IF approved THEN "Ok" ELSE "OperationDenied"
        clears == approved /\ client_pin # None
    IN  /\ stored' = IF clears /\ deleted THEN None ELSE stored
        /\ client_pin' = IF clears THEN None ELSE client_pin
        /\ key_agreement' = IF clears THEN None ELSE key_agreement
        /\ pin_uv_auth_token' = IF clears THEN None ELSE pin_uv_auth_token
        /\ unset' = (unset \/ approved)
        /\ Answer("reset", status, None)
        /\ UNCHANGED <<agreed, wrong>>

\* The 600 seconds of a token pass.
TokenExpires ==
    /\ pin_uv_auth_token # None
    /\ ~pin_uv_auth_token.expired
    /\ pin_uv_auth_token' =
           [permissions |-> pin_uv_auth_token.permissions,
            rp_id |-> pin_uv_auth_token.rp_id,
            via |-> pin_uv_auth_token.via, expired |-> TRUE]
    /\ Answer("clock", "Ok", None)
    /\ UNCHANGED <<client_pin, stored, key_agreement, agreed, wrong, unset>>

\* Authenticator::new after a crash, a panic or a stop: only the row survives, and
\* a row that cannot be read counts as no PIN.
Restart(loaded) ==
    /\ loaded \/ LoadMayFail
    /\ client_pin' = IF loaded THEN stored ELSE None
    /\ key_agreement' = None
    /\ pin_uv_auth_token' = None
    /\ agreed' = {}
    /\ Answer("start", "Ok", None)
    /\ unset' = (unset \/ ~loaded)
    /\ UNCHANGED <<stored, wrong>>

----------------------------------------------------------------------------

Next ==
    \/ \E cmd \in Commands \ {"start", "validate", "cancel", "reset", "clock"} :
           RejectRequest(cmd)
    \/ GetRetries
    \/ \E c \in Channels : GetKeyAgreement(c)
    \/ \E c \in Channels, new \in Pins, persisted \in BOOLEAN : SetPin(c, new, persisted)
    \/ \E c \in Channels, old, new \in Pins, p1, p2 \in BOOLEAN :
           ChangePin(c, old, new, p1, p2)
    \/ \E c \in Channels, pin \in Pins, permissions \in SUBSET Permissions,
          rp_id \in RpIds \cup {None}, persisted \in BOOLEAN :
           GetPinUvAuthToken(c, pin, permissions, rp_id, persisted)
    \/ \E c \in Channels, permissions \in SUBSET Permissions,
          rp_id \in RpIds \cup {None}, approved \in BOOLEAN :
           GetPinUvAuthTokenUsingUv(c, permissions, rp_id, approved)
    \/ \E permission \in Permissions, rp_id \in RpIds \cup {None},
          param \in {"absent", "malformed", "good", "bad"}, same_session \in BOOLEAN :
           ValidatePinUvAuth(permission, rp_id, param, same_session)
    \/ CancelPending
    \/ \E approved, deleted \in BOOLEAN : Reset(approved, deleted)
    \/ TokenExpires
    \/ \E loaded \in BOOLEAN : Restart(loaded)

Spec == Init /\ [][Next]_vars

----------------------------------------------------------------------------
(* Properties *)

\* A user's guesses are bounded across restarts and failing writes: the wrong PINs
\* answered as such plus the retries left, in memory and in the row a restart would
\* load, never exceed PIN_RETRIES (authenticate_pin writes before it answers).
GuessBound ==
    /\ client_pin # None => wrong + client_pin.retries <= PIN_RETRIES
    /\ stored # None => wrong + stored.retries <= PIN_RETRIES

\* The PIN in memory is the PIN a restart would load: set_pin and change_pin write
\* the row before they take the new PIN over.
RestartKeepsPin ==
    client_pin # None => stored # None /\ stored.pin = client_pin.pin

\* A token obtained with a PIN does not outlive that PIN being cleared by reset or
\* missing after a restart.
PinTokenNeedsPin ==
    pin_uv_auth_token # None /\ pin_uv_auth_token.via = "pin" => client_pin # None

\* After PIN_RETRIES wrong answers nobody gets a token by PIN or changes the PIN,
\* not even with the right PIN and not after restarting the daemon.
BlockedUntilReset ==
    [][wrong = PIN_RETRIES =>
           ~(reply'.cmd \in {"getToken", "changePin"} /\ reply'.status = "Ok")]_vars

\* setPin succeeds only on an authenticator that never had a PIN, was reset since, or
\* could not read its row at a start: memory and row never lose the PIN otherwise,
\* whatever writes fail and whoever else is connected.
SetPinOnlyWhenUnset ==
    [][reply'.cmd = "setPin" /\ reply'.status = "Ok" /\ stored' # stored => unset]_vars

\* A client that entered the right PIN is not told that it is wrong, and so does not
\* lose a retry, whatever other channels do meanwhile.
RightPinNotRefused ==
    [][wrong' > wrong => client_pin # None /\ reply'.pin # client_pin.pin]_vars

\* "factory-resets the authenticator, deleting all credentials and clearing the
\* configured PIN": after an answer Ok no PIN is left to be loaded by a restart.
ResetClearsPin ==
    [][reply'.cmd = "reset" /\ reply'.status = "Ok" => stored' = None]_vars

=============================================================================
