---------------------------- MODULE Credentials ----------------------------
(***************************************************************************)
(* The credentials of the authenticator: the Vec the daemon keeps in       *)
(* memory, the credential_metadata table of the SQLite store, and the two  *)
(* pieces of state that hold indexes into the Vec between commands, the    *)
(* pending assertion and the credential management enumeration             *)
(* (src/ctap2.rs, src/store.rs).                                           *)
(*                                                                         *)
(* Commands run one at a time on the main loop, so an action is a whole    *)
(* handler, from handle_cbor on.  What the user, the TPM and SQLite answer *)
(* are inputs of the action.  A Vec of ascending indexes is the set of its *)
(* elements: its first element is the least.  clientPIN itself is the      *)
(* subject of module ClientPin; here a command's pinUvAuthParam was        *)
(* "refused" or not.                                                       *)
(***************************************************************************)
EXTENDS Naturals, FiniteSets, Sequences, Functions

CONSTANTS
    Ids,             \* credential ids, ordered as SQLite orders them
    RpIds,           \* relying party ids, ordered as SQLite orders them
    Uids,            \* local users
    UserInfos,       \* user handle, name and display name
    MAX_SIGN_COUNT,  \* u32::MAX
    MAX_UPDATES,     \* management updates of one credential that are explored
    PinInUse,        \* do clients set a PIN (credential management needs one)?
    StoreMayFail,    \* may a write to the store report an error?
    LoadMayFail,     \* may loading from the store report an error?
    None             \* Option::None

ASSUME OrderAssumption == Ids \subseteq Nat /\ RpIds \subseteq Nat

ASSUME CountAssumption == MAX_SIGN_COUNT \in Nat \ {0} /\ MAX_UPDATES \in Nat

ASSUME FailureAssumption == {PinInUse, StoreMayFail, LoadMayFail} \subseteq BOOLEAN

ASSUME NoneAssumption == None \notin Ids \cup RpIds

VARIABLES
    credentials,        \* Authenticator.credentials
    store,              \* the rows of credential_metadata and their keyslots
    pending_assertion,  \* Authenticator.pending_assertion
    management,         \* Authenticator.management
    session,            \* Authenticator.session: the user detected at startup
    pin_set,            \* Authenticator.client_pin.is_some()
    registered,         \* per id: never issued, issued to a client, deleted
    released,           \* per id: the last counter a client was given
    reply               \* the last event: command, status, credential asserted

vars == <<credentials, store, pending_assertion, management, session, pin_set,
          registered, released, reply>>

----------------------------------------------------------------------------
(* The state *)

\* policy and recovery are versions: 0 as created, raised by each management
\* update of the PCR policy or of the recovery slot.
Credential ==
    [id : Ids, rp_id : RpIds, discoverable : BOOLEAN, user_id : Uids,
     user : UserInfos, sign_count : 0..MAX_SIGN_COUNT, policy : 0..MAX_UPDATES,
     recovery : 0..MAX_UPDATES]

PendingAssertion ==
    [rp_id : RpIds, credential_indexes : SUBSET (Nat \ {0}), expired : BOOLEAN]

\* rp_indexes and credential_indexes from their position on; listed holds the
\* indexes already answered and rp_id the RP of the enumeration (not in the code).
ManagementState ==
    [rp_indexes : SUBSET (Nat \ {0}), credential_indexes : SUBSET (Nat \ {0}),
     expired : BOOLEAN, listed : SUBSET (Nat \ {0}), rp_id : RpIds \cup {None}]

Commands == {"start", "makeCredential", "getAssertion", "getNextAssertion", "reset",
             "credentialManagement", "delete", "other", "cancel", "clock", "tpm"}

ErrorStatus == {"Ok", "InvalidCbor", "InvalidParameter", "OperationDenied",
                "NoCredentials", "CredentialExcluded", "PinAuthInvalid", "PinNotSet",
                "Panic"}

TypeOK ==
    /\ credentials \in Seq(Credential)
    /\ store \in SUBSET Credential
    /\ pending_assertion = None \/ pending_assertion \in PendingAssertion
    /\ management = None \/ management \in ManagementState
    /\ session \in Uids
    /\ pin_set \in BOOLEAN
    /\ registered \in [Ids -> {"free", "live", "gone"}]
    /\ released \in [Ids -> 0..MAX_SIGN_COUNT]
    /\ reply \in [cmd : Commands, status : ErrorStatus, id : Ids \cup {None}]

Answer(cmd, status, id) == reply' = [cmd |-> cmd, status |-> status, id |-> id]

Init ==
    /\ credentials = <<>>
    /\ store = {}
    /\ pending_assertion = None
    /\ management = None
    /\ session \in Uids
    /\ pin_set = FALSE
    /\ registered = [id \in Ids |-> "free"]
    /\ released = [id \in Ids |-> 0]
    /\ reply = [cmd |-> "start", status |-> "Ok", id |-> None]

----------------------------------------------------------------------------
(* The store *)

\* A variant of CachedIds that misses the credentials that are not discoverable.
CachedIdsDiscoverable == {c.id : c \in {x \in Range(credentials) : x.discoverable}}

CachedIds == {c.id : c \in Range(credentials)}

StoredIds == {r.id : r \in store}

\* ORDER BY rp_id, credential_id.
Before(a, b) == a.rp_id < b.rp_id \/ (a.rp_id = b.rp_id /\ a.id < b.id)

\* load_credentials_from_disk: the rows of one user in order; any error loads
\* nothing.
LoadCredentials(uid) ==
    LET rows == {r \in store : r.user_id = uid}
    IN  {s \in Bijection(1..Cardinality(rows), rows) :
            \A i, j \in DOMAIN s : i < j => Before(s[i], s[j])}
        \cup (IF LoadMayFail THEN {<<>>} ELSE {})

\* A variant of SaveCredentials that writes the discoverable credentials only.
SaveCredentialsDiscoverable(creds, committed) ==
    /\ committed \/ StoreMayFail
    /\ store' = IF committed THEN {c \in Range(creds) : c.discoverable} ELSE store

\* save_credentials: one transaction deletes every row of the table and inserts the
\* credentials in memory.  An error is logged and the command goes on.
SaveCredentials(creds, committed) ==
    /\ committed \/ StoreMayFail
    /\ store' = IF committed THEN Range(creds) ELSE store

\* A variant of UpdateSignCount that writes nothing.
UpdateSignCountLost(id, n) == store

\* UPDATE credential_metadata SET sign_count.
UpdateSignCount(id, n) ==
    {IF r.id = id THEN [r EXCEPT !.sign_count = n] ELSE r : r \in store}

\* Variants of SaturatingAdd without a limit, and with a wrap-around.
UncheckedAdd(n) == n + 1

WrappingAdd(n) == (n + 1) % (MAX_SIGN_COUNT + 1)

SaturatingAdd(n) == IF n < MAX_SIGN_COUNT THEN n + 1 ELSE n

----------------------------------------------------------------------------
(* Commands.  A panic ends the process: only a restart follows. *)

Running == reply.status # "Panic"

FirstOf(i, S) == i \in S /\ \A j \in S : i <= j

\* Variants of ClearPending that drop one of the two.
ClearPendingAssertion == pending_assertion' = None /\ UNCHANGED management

ClearManagement == management' = None /\ UNCHANGED pending_assertion

\* handle_cbor drops both pieces of state between commands for every command but
\* getNextAssertion and credentialManagement, which it treats apart.
ClearPending ==
    /\ pending_assertion' = None
    /\ management' = None

\* handle_cbor without a readable daemon passphrase refuses these commands, after
\* the clearing of state and before their handlers.
Blocked(cmd) ==
    /\ Running
    /\ pending_assertion' = IF cmd \in {"getNextAssertion", "credentialManagement"}
                            THEN pending_assertion ELSE None
    /\ management' = IF cmd = "credentialManagement" THEN management ELSE None
    /\ Answer(cmd, "OperationDenied", None)
    /\ UNCHANGED <<credentials, store, session, pin_set, registered, released>>

\* getInfo, selection and clientPIN; the latter may set a PIN.
OtherCommand(pin) ==
    /\ Running
    /\ ClearPending
    /\ pin => PinInUse
    /\ pin_set' = (pin_set \/ pin)
    /\ Answer("other", "Ok", None)
    /\ UNCHANGED <<credentials, store, session, registered, released>>

\* bioEnrollment, largeBlobs and config are todo!().
UnimplementedCommand ==
    /\ Running
    /\ ClearPending
    /\ Answer("other", "Panic", None)
    /\ UNCHANGED <<credentials, store, session, pin_set, registered, released>>

\* makeCredential refused: request, token, options, session, user or TPM.
MakeCredentialRefused(status) ==
    /\ Running
    /\ ClearPending
    /\ Answer("makeCredential", status, None)
    /\ UNCHANGED <<credentials, store, session, pin_set, registered, released>>

\* excluded_credential_exists looks at the credentials in memory.
Excluded(rp_id, exclude) ==
    \E c \in Range(credentials) : c.rp_id = rp_id /\ c.id \in exclude

MakeCredentialExcluded(rp_id, exclude) ==
    /\ Running
    /\ Excluded(rp_id, exclude)
    /\ ClearPending
    /\ Answer("makeCredential", "CredentialExcluded", None)
    /\ UNCHANGED <<credentials, store, session, pin_set, registered, released>>

\* makeCredential after the user approved and the TPM made the key.  The id is 32
\* random bytes: one never issued before.
MakeCredential(id, rp_id, discoverable, user, exclude, committed) ==
    LET credential == [id |-> id, rp_id |-> rp_id, discoverable |-> discoverable,
                       user_id |-> session, user |-> user, sign_count |-> 0,
                       policy |-> 0, recovery |-> 0]
    IN  /\ Running
        /\ ~Excluded(rp_id, exclude)
        /\ registered[id] = "free"
        /\ ClearPending
        /\ credentials' = Append(credentials, credential)
        /\ SaveCredentials(credentials', committed)
        /\ registered' = [registered EXCEPT ![id] = "live"]
        /\ Answer("makeCredential", "Ok", None)
        /\ UNCHANGED <<session, pin_set, released>>

\* matching_credential_indexes
MatchingIndexes(creds, rp_id, allow) ==
    {i \in DOMAIN creds :
        /\ creds[i].rp_id = rp_id
        /\ IF allow = {} THEN creds[i].discoverable ELSE creds[i].id \in allow}

\* The end of getAssertion and getNextAssertion: sign, store the counter, then
\* answer.  ok says that the TPM signed and that SQLite reported no error; an
\* update that matches no row is an error as well.
SignAndCount(cmd, creds, i, ok) ==
    LET id == creds[i].id
        n  == SaturatingAdd(creds[i].sign_count)
    IN  IF ok /\ id \in StoredIds
        THEN /\ store' = UpdateSignCount(id, n)
             /\ credentials' = [creds EXCEPT ![i] = [@ EXCEPT !.sign_count = n]]
             /\ released' = [released EXCEPT ![id] = n]
             /\ Answer(cmd, "Ok", id)
        ELSE /\ credentials' = creds
             /\ Answer(cmd, "OperationDenied", None)
             /\ UNCHANGED <<store, released>>

\* getAssertion refused before the credentials are reloaded.
GetAssertionRefused(status) ==
    /\ Running
    /\ ClearPending
    /\ Answer("getAssertion", status, None)
    /\ UNCHANGED <<credentials, store, session, pin_set, registered, released>>

\* getAssertion reloads the credentials, which stay reloaded when it then finds
\* none for the RP or the user declines.
GetAssertionDeclined(rp_id, allow, loaded) ==
    /\ Running
    /\ loaded \in LoadCredentials(session)
    /\ ClearPending
    /\ credentials' = loaded
    /\ Answer("getAssertion",
              IF MatchingIndexes(loaded, rp_id, allow) = {}
              THEN "NoCredentials" ELSE "OperationDenied", None)
    /\ UNCHANGED <<store, session, pin_set, registered, released>>

\* The other matches become pending before the first one is signed, and stay so
\* when signing or storing the counter fails.
GetAssertion(rp_id, allow, loaded, i, ok) ==
    LET matching == MatchingIndexes(loaded, rp_id, allow)
    IN  /\ Running
        /\ loaded \in LoadCredentials(session)
        /\ FirstOf(i, matching)
        /\ pending_assertion' =
               IF matching = {i} THEN None
               ELSE [rp_id |-> rp_id, credential_indexes |-> matching \ {i},
                     expired |-> FALSE]
        /\ management' = None
        /\ SignAndCount("getAssertion", loaded, i, ok)
        /\ UNCHANGED <<session, pin_set, registered>>

\* getNextAssertion with a body, without a pending assertion, after 30 seconds or
\* in another session.
GetNextAssertionRefused(status) ==
    /\ Running
    /\ status = "NoCredentials" => pending_assertion = None
    /\ status = "OperationDenied" => pending_assertion # None
    /\ pending_assertion' = IF status = "InvalidCbor" THEN pending_assertion ELSE None
    /\ management' = None
    /\ Answer("getNextAssertion", status, None)
    /\ UNCHANGED <<credentials, store, session, pin_set, registered, released>>

\* The next pending index selects from the credentials as they are now; an index
\* beyond them panics.
GetNextAssertion(i, ok) ==
    LET rest == pending_assertion.credential_indexes \ {i}
    IN  /\ Running
        /\ pending_assertion # None
        /\ ~pending_assertion.expired
        /\ FirstOf(i, pending_assertion.credential_indexes)
        /\ pending_assertion' =
               IF rest = {} THEN None
               ELSE [rp_id |-> pending_assertion.rp_id, credential_indexes |-> rest,
                     expired |-> FALSE]
        /\ management' = None
        /\ IF i \in DOMAIN credentials
           THEN SignAndCount("getNextAssertion", credentials, i, ok)
           ELSE /\ Answer("getNextAssertion", "Panic", None)
                /\ UNCHANGED <<credentials, store, released>>
        /\ UNCHANGED <<session, pin_set, registered>>

----------------------------------------------------------------------------
(* authenticatorCredentialManagement.  The preview command code is not exempt   *)
(* from the clearing of state in handle_cbor, the final one is.                 *)

PendingFor(preview) == IF preview THEN None ELSE pending_assertion

ManagementFor(preview) ==
    IF preview \/ management = None \/ management.expired THEN None ELSE management

\* Every subcommand starts here: a PIN must be set, and the request was not refused
\* for its session or its pinUvAuthParam (one that carries none is not refused).
ManagementCommand(preview, management1, cmd, status) ==
    /\ Running
    /\ pin_set
    /\ pending_assertion' = PendingFor(preview)
    /\ management' = management1
    /\ Answer(cmd, status, None)
    /\ UNCHANGED <<session, pin_set, registered, released>>

ManagementRefused(preview, status) ==
    /\ Running
    /\ (status = "PinNotSet") => ~pin_set
    /\ (status = "PinAuthInvalid") => pin_set
    /\ pending_assertion' = PendingFor(preview)
    /\ management' = IF preview THEN None ELSE management
    /\ Answer("credentialManagement", status, None)
    /\ UNCHANGED <<credentials, store, session, pin_set, registered, released>>

\* getCredsMetadata, a subcommand without the parameters it needs, one that is not
\* known, and each that finds no credential.
ManagementNoChange(preview, status) ==
    /\ ManagementCommand(preview, ManagementFor(preview), "credentialManagement", status)
    /\ UNCHANGED <<credentials, store>>

\* The first discoverable credential of each RP.
RpIndexes(creds) ==
    {i \in DOMAIN creds :
        /\ creds[i].discoverable
        /\ \A j \in DOMAIN creds :
              j < i => ~(creds[j].discoverable /\ creds[j].rp_id = creds[i].rp_id)}

CredentialIndexes(creds, rp_id) ==
    {i \in DOMAIN creds : creds[i].discoverable /\ creds[i].rp_id = rp_id}

EnumerateRpsBegin(preview, i) ==
    /\ FirstOf(i, RpIndexes(credentials))
    /\ ManagementCommand(preview,
           [rp_indexes |-> RpIndexes(credentials) \ {i}, credential_indexes |-> {},
            expired |-> FALSE, listed |-> {i}, rp_id |-> None],
           "credentialManagement", "Ok")
    /\ UNCHANGED <<credentials, store>>

EnumerateCredentialsBegin(preview, rp_id, i) ==
    /\ FirstOf(i, CredentialIndexes(credentials, rp_id))
    /\ ManagementCommand(preview,
           [rp_indexes |-> {},
            credential_indexes |-> CredentialIndexes(credentials, rp_id) \ {i},
            expired |-> FALSE, listed |-> {i}, rp_id |-> rp_id],
           "credentialManagement", "Ok")
    /\ UNCHANGED <<credentials, store>>

\* The enumeration goes on where it stopped; an index beyond the credentials would
\* panic.
EnumerateRpsNext(i) ==
    /\ ManagementFor(FALSE) # None
    /\ FirstOf(i, management.rp_indexes)
    /\ ManagementCommand(FALSE,
           [management EXCEPT !.rp_indexes = @ \ {i}, !.listed = @ \cup {i}],
           "credentialManagement", IF i \in DOMAIN credentials THEN "Ok" ELSE "Panic")
    /\ UNCHANGED <<credentials, store>>

EnumerateCredentialsNext(i) ==
    /\ ManagementFor(FALSE) # None
    /\ FirstOf(i, management.credential_indexes)
    /\ ManagementCommand(FALSE,
           [management EXCEPT !.credential_indexes = @ \ {i}, !.listed = @ \cup {i}],
           "credentialManagement", IF i \in DOMAIN credentials THEN "Ok" ELSE "Panic")
    /\ UNCHANGED <<credentials, store>>

\* Vec::remove
RemoveAt(s, i) == SubSeq(s, 1, i - 1) \o SubSeq(s, i + 1, Len(s))

\* The row goes first; when that fails, or no row has the id, nothing changes.  The
\* pending assertion keeps its indexes.
DeleteCredential(preview, i, committed) ==
    LET id == credentials[i].id
        ok == committed /\ id \in StoredIds
    IN  /\ Running
        /\ pin_set
        /\ i \in DOMAIN credentials
        /\ credentials[i].discoverable
        /\ committed \/ StoreMayFail
        /\ pending_assertion' = PendingFor(preview)
        /\ management' = IF ok THEN None ELSE ManagementFor(preview)
        /\ store' = IF ok THEN {r \in store : r.id # id} ELSE store
        /\ credentials' = IF ok THEN RemoveAt(credentials, i) ELSE credentials
        /\ registered' = IF ok THEN [registered EXCEPT ![id] = "gone"] ELSE registered
        /\ Answer("delete", IF ok THEN "Ok" ELSE "OperationDenied", None)
        /\ UNCHANGED <<session, pin_set, released>>

\* A variant of UpdateUserInformation that does not save.
UpdateUserInformationUnsaved(preview, i, user, committed) ==
    /\ i \in DOMAIN credentials
    /\ credentials[i].discoverable
    /\ credentials' = [credentials EXCEPT ![i] = [@ EXCEPT !.user = user]]
    /\ ManagementCommand(preview, None, "credentialManagement", "Ok")
    /\ UNCHANGED store

UpdateUserInformation(preview, i, user, committed) ==
    /\ i \in DOMAIN credentials
    /\ credentials[i].discoverable
    /\ credentials' = [credentials EXCEPT ![i] = [@ EXCEPT !.user = user]]
    /\ SaveCredentials(credentials', committed)
    /\ ManagementCommand(preview, None, "credentialManagement", "Ok")

----------------------------------------------------------------------------
(* Reset, cancellation, time, restart, and the management thread *)

\* authenticatorReset deletes the rows of the credentials in memory, each with a
\* statement of its own whose result is discarded.
Reset(failed) ==
    /\ Running
    /\ failed # {} => StoreMayFail
    /\ ClearPending
    /\ store' = {r \in store : r.id \notin CachedIds \/ r.id \in failed}
    /\ credentials' = <<>>
    /\ pin_set' = FALSE
    /\ registered' = [id \in Ids |-> IF registered[id] = "live" THEN "gone"
                                     ELSE registered[id]]
    /\ Answer("reset", "Ok", None)
    /\ UNCHANGED <<session, released>>

ResetRefused ==
    /\ Running
    /\ ClearPending
    /\ Answer("reset", "OperationDenied", None)
    /\ UNCHANGED <<credentials, store, session, pin_set, registered, released>>

\* CTAPHID_CANCEL
CancelPending ==
    /\ Running
    /\ ClearPending
    /\ Answer("cancel", "Ok", None)
    /\ UNCHANGED <<credentials, store, session, pin_set, registered, released>>

\* The 30 seconds of a pending assertion and of an enumeration pass.
PendingExpires ==
    /\ pending_assertion # None
    /\ ~pending_assertion.expired
    /\ Running
    /\ pending_assertion' = [pending_assertion EXCEPT !.expired = TRUE]
    /\ Answer("clock", "Ok", None)
    /\ UNCHANGED <<credentials, store, management, session, pin_set, registered, released>>

ManagementExpires ==
    /\ management # None
    /\ ~management.expired
    /\ Running
    /\ management' = [management EXCEPT !.expired = TRUE]
    /\ Answer("clock", "Ok", None)
    /\ UNCHANGED <<credentials, store, pending_assertion, session, pin_set, registered,
                   released>>

\* Authenticator::new after a stop, a crash or a panic, for the user then active.
Restart(uid, loaded, pin_loaded) ==
    /\ pin_loaded \/ LoadMayFail
    /\ loaded \in LoadCredentials(uid)
    /\ session' = uid
    /\ credentials' = loaded
    /\ pin_set' = (pin_set /\ pin_loaded)
    /\ ClearPending
    /\ Answer("start", "Ok", None)
    /\ UNCHANGED <<store, registered, released>>

\* handle_tpm_command: PcrPolicyUpdate and PassphraseChange rewrite one row, and
\* leave the credentials in memory alone.
TpmCommand(row, updated) ==
    /\ Running
    /\ store' = (store \ {row}) \cup {updated}
    /\ Answer("tpm", "Ok", None)
    /\ UNCHANGED <<credentials, pending_assertion, management, session, pin_set,
                   registered, released>>

PcrPolicyUpdate(row) ==
    /\ row.policy + row.recovery < MAX_UPDATES
    /\ TpmCommand(row, [row EXCEPT !.policy = @ + 1])

PassphraseChange(row) ==
    /\ row.policy + row.recovery < MAX_UPDATES
    /\ TpmCommand(row, [row EXCEPT !.recovery = @ + 1])

----------------------------------------------------------------------------

\* An exclude list excludes through one of its members.
ExcludeLists == {{}} \cup {{id} : id \in Ids}

Refusals == {"InvalidParameter", "PinAuthInvalid", "OperationDenied"}

RegistrationNext ==
    \/ \E status \in Refusals : MakeCredentialRefused(status)
    \/ \E rp_id \in RpIds, exclude \in ExcludeLists :
           MakeCredentialExcluded(rp_id, exclude)
    \/ \E id \in Ids, rp_id \in RpIds, discoverable \in BOOLEAN, user \in UserInfos,
          exclude \in ExcludeLists, committed \in BOOLEAN :
           MakeCredential(id, rp_id, discoverable, user, exclude, committed)

AssertionNext ==
    \/ \E status \in Refusals : GetAssertionRefused(status)
    \/ \E rp_id \in RpIds, allow \in SUBSET Ids, loaded \in LoadCredentials(session) :
           \/ GetAssertionDeclined(rp_id, allow, loaded)
           \/ \E i \in DOMAIN loaded, ok \in BOOLEAN :
                  GetAssertion(rp_id, allow, loaded, i, ok)
    \/ \E status \in {"InvalidCbor", "NoCredentials", "OperationDenied"} :
           GetNextAssertionRefused(status)
    \/ \E i \in 1..Cardinality(Ids), ok \in BOOLEAN : GetNextAssertion(i, ok)

ManagementNext ==
    \/ \E preview \in BOOLEAN :
        \/ \E status \in Refusals \cup {"PinNotSet"} : ManagementRefused(preview, status)
        \/ \E status \in {"Ok", "NoCredentials", "InvalidParameter"} :
               ManagementNoChange(preview, status)
        \/ \E i \in DOMAIN credentials :
            \/ EnumerateRpsBegin(preview, i)
            \/ \E rp_id \in RpIds : EnumerateCredentialsBegin(preview, rp_id, i)
            \/ \E committed \in BOOLEAN : DeleteCredential(preview, i, committed)
            \/ \E user \in UserInfos, committed \in BOOLEAN :
                   UpdateUserInformation(preview, i, user, committed)
    \/ \E i \in 1..Cardinality(Ids) : EnumerateRpsNext(i) \/ EnumerateCredentialsNext(i)

DaemonNext ==
    \/ \E cmd \in {"makeCredential", "getAssertion", "getNextAssertion",
                   "credentialManagement"} : Blocked(cmd)
    \/ \E pin \in BOOLEAN : OtherCommand(pin)
    \/ UnimplementedCommand
    \/ ResetRefused
    \/ \E failed \in SUBSET Ids : Reset(failed)
    \/ CancelPending
    \/ PendingExpires
    \/ ManagementExpires
    \/ \E uid \in Uids, pin_loaded \in BOOLEAN : \E loaded \in LoadCredentials(uid) :
           Restart(uid, loaded, pin_loaded)
    \/ \E row \in store : PcrPolicyUpdate(row) \/ PassphraseChange(row)

Next == RegistrationNext \/ AssertionNext \/ ManagementNext \/ DaemonNext

Spec == Init /\ [][Next]_vars

----------------------------------------------------------------------------
(* Properties *)

\* A counter a client was given is in the store before the answer leaves, and the
\* store never falls behind it: not by the whole-table rewrites of save_credentials,
\* not by failing writes, a reset, or a restart.  The same holds of the credentials
\* in memory, from which the table is rewritten.
CounterPersisted ==
    /\ \A r \in store : released[r.id] <= r.sign_count
    /\ \A i \in DOMAIN credentials :
          released[credentials[i].id] <= credentials[i].sign_count

\* Each assertion of a credential carries a larger counter than the one before,
\* across reloads, rewrites and restarts, until it saturates at u32::MAX.
CounterAdvances ==
    [][\A id \in Ids :
          /\ released'[id] >= released[id]
          /\ reply'.id = id => \/ released'[id] > released[id]
                               \/ released'[id] = MAX_SIGN_COUNT]_vars

\* While an enumeration is open, what it has listed and what it still will list are
\* exactly the discoverable credentials (one per RP, or all of one RP) in memory: no
\* command in between leaves it with an index that now means another credential.
EnumerationExact ==
    management # None =>
        /\ management.listed \cap (management.rp_indexes \cup management.credential_indexes) = {}
        /\ management.listed \cup management.rp_indexes \cup management.credential_indexes
              = IF management.rp_id = None THEN RpIndexes(credentials)
                ELSE CredentialIndexes(credentials, management.rp_id)

\* The indexes of a pending assertion mean credentials of the RP it was made for.
PendingFresh ==
    pending_assertion # None =>
        \A i \in pending_assertion.credential_indexes :
            i \in DOMAIN credentials /\ credentials[i].rp_id = pending_assertion.rp_id

\* Of all commands, failures and restarts only a delete takes the meaning of the
\* pending indexes away: whatever else reloads, rewrites or clears the credentials
\* drops the pending assertion as well.
PendingKept ==
    [][PendingFresh /\ reply'.cmd # "delete" => PendingFresh']_vars

\* getNextAssertion answers with a credential of the RP that getAssertion was for,
\* and does not panic.
NextAssertionForSameRp ==
    [][reply'.cmd = "getNextAssertion" /\ reply'.status \in {"Ok", "Panic"} =>
          \E c \in Range(credentials) :
              c.id = reply'.id /\ c.rp_id = pending_assertion.rp_id]_vars

\* With a store that works, the credentials in memory are those of the session's
\* user in the store, with the same counters.
CacheCoherent ==
    {<<c.id, c.sign_count, c.user>> : c \in Range(credentials)}
        = {<<r.id, r.sign_count, r.user>> : r \in {x \in store : x.user_id = session}}

\* With a store that works and one user, a credential a client was given stays in
\* the store until that user deletes it or resets the authenticator.
RegisteredStored == \A id \in Ids : registered[id] = "live" => id \in StoredIds

\* "factory-resets the authenticator, deleting all credentials": after an answer Ok
\* the store holds none.
ResetDeletesAll ==
    [][reply'.cmd = "reset" /\ reply'.status = "Ok" => store' = {}]_vars

\* A command in one user's session leaves the credentials of the others in the store.
OtherUsersKept ==
    [][\A r \in store : r.user_id # session => \E q \in store' : q.id = r.id]_vars

=============================================================================
