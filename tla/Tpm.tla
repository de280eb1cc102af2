-------------------------------- MODULE Tpm --------------------------------
(***************************************************************************)
(* The TPM work of the daemon: the transient objects and sessions that     *)
(* each operation opens and flushes, and the PCR policies that decide when *)
(* a credential signs (src/tpm.rs, and its callers in src/ctap2.rs).       *)
(*                                                                         *)
(* A method of struct Tpm is the sequence of TPM commands it issues; each  *)
(* may fail, and `?' then leaves the method.  Handles of a guard are       *)
(* flushed when it drops, the others stay open.  PCRs may be extended      *)
(* between any two commands.  A policy digest is the sequence of policy    *)
(* assertions that made it, a PCR digest the measurements it covers.  A    *)
(* credential's id stands for its policyRef and for the name of its        *)
(* recovery key.  FlushContext of an open handle does not fail.            *)
(***************************************************************************)
EXTENDS Integers, FiniteSets, Sequences

CONSTANTS
    Credentials,    \* credential ids
    Pcrs,           \* PCRs that selections name
    Measurements,   \* values of a PCR
    Selections,     \* the PCR selections users choose
    DEFAULT_PCRS,   \* the selection without a stored default
    Auths,          \* hashes of recovery passphrases
    MAX_OBJECTS,    \* transient objects the resource manager keeps for the daemon
    MAX_SESSIONS,   \* sessions it keeps
    None            \* Option::None

ASSUME SelectionAssumption == Selections \subseteq SUBSET Pcrs /\ DEFAULT_PCRS \in Selections

ASSUME SlotAssumption == MAX_OBJECTS \in Nat /\ MAX_SESSIONS \in Nat

VARIABLES
    pcrs,         \* the PCRs of the TPM
    default_pcr,  \* the default PCR policy in the store
    tpm,          \* Authenticator.tpm: None, or the selection list and name it has
    credentials,  \* per id: policy, key and recovery slot of a credential
    op,           \* the operation under way
    open,         \* the handles it holds
    leaked,       \* handles that operations before it left open
    approved,     \* per id: the platform state approved for it last
    reply         \* the last answer

vars == <<pcrs, default_pcr, tpm, credentials, op, open, leaked, approved, reply>>

----------------------------------------------------------------------------
(* The state *)

Methods == {"makeCredential", "sign", "update", "passphrase"}

ObjectHandles == {"parent", "key", "authority"}

Handles == ObjectHandles \cup {"session"}

Platforms == UNION {[s -> Measurements] : s \in Selections}

\* What pcr_read returned, or nothing yet.
Readings == Platforms \cup {<<>>}

\* The assertions of a policy session.
PolicyPcr(digest) == <<"PolicyPCR", digest>>

PolicyAuthorize(name, policy_ref) == <<"PolicyAuthorize", name, policy_ref>>

PolicyCommandCode == <<"PolicyCommandCode", "Sign">>

Digests ==
    Seq({PolicyPcr(d) : d \in Readings} \cup {PolicyAuthorize(c, c) : c \in Credentials}
        \cup {PolicyCommandCode})

\* What sign_recovery_policy signs, and what a signature or ticket is good for.
PolicyWithRefHash(policy, policy_ref) == [policy |-> policy, ref |-> policy_ref]

NoSignature == PolicyWithRefHash(<<>>, None)

\* PcrPolicyBinding; a policy without an authority has no signature.
Policy(selection, digest, signature) ==
    [selection |-> selection, digest |-> digest, signature |-> signature]

\* The recovery slot: the auth value inside the private blob, the one stored beside
\* it, and the passphrase hash of its token.
Slot(private, auth_value, hash) ==
    [private |-> private, auth_value |-> auth_value, hash |-> hash]

Signatures == [policy : Digests, ref : Credentials \cup {None}]

Slots == [private : Auths, auth_value : Auths, hash : Auths]

\* What the store has of a credential.
Rows ==
    [policy : [selection : Selections, digest : Digests, signature : Signatures],
     key : Digests, recovery : Slots \cup {None}]

\* An operation: its arguments, the local variables of its method, the next command
\* (at), whether no PCR was extended since it began or since policy_pcr (fresh), and the platform
\* that is being approved (platform, not in the code).
Operations ==
    [method : Methods, cred : Credentials, at : Nat, recovery : BOOLEAN,
     auth : Auths \cup {None}, slot : Slots \cup {None}, key : Digests,
     signature : Signatures, read : Readings, session : Digests, approved : Digests,
     digest : Digests, ticket : Signatures, fresh : BOOLEAN, platform : Readings]

ASSUME NoneAssumption ==
    None \notin Selections \cup Auths \cup Credentials \cup Slots \cup Rows \cup Operations
                \cup [list : Selections, name : Selections]

TypeOK ==
    /\ pcrs \in [Pcrs -> Measurements]
    /\ default_pcr \in Selections \cup {None}
    /\ tpm = None \/ tpm \in [list : Selections, name : Selections]
    /\ credentials \in [Credentials -> Rows \cup {None}]
    /\ op \in Operations \cup {None}
    /\ open \subseteq Handles
    /\ op = None => open = {}
    /\ leaked \in [objects : 0..MAX_OBJECTS, sessions : 0..MAX_SESSIONS]
    /\ approved \in [Credentials -> Readings]

Answer(method, status, c) == reply' = [method |-> method, status |-> status, cred |-> c]

Init ==
    /\ pcrs \in [Pcrs -> Measurements]
    /\ default_pcr = None
    /\ tpm = None
    /\ credentials = [c \in Credentials |-> None]
    /\ op = None
    /\ open = {}
    /\ leaked = [objects |-> 0, sessions |-> 0]
    /\ approved = [c \in Credentials |-> <<>>]
    /\ reply = [method |-> "start", status |-> "ok", cred |-> None]

----------------------------------------------------------------------------
(* The methods of struct Tpm, as sequences of TPM commands *)

\* create_credential_key_with_policy_and_auth
CreateKey(create) == <<"create_primary", create, "flush_parent">>

\* create_secure_boot_policy
CreateSecureBootPolicy ==
    <<"pcr_read", "start_trial", "policy_pcr", "get_approved", "flush_session">>

SignRecoveryPolicy ==
    <<"create_primary", "load_authority", "sign_policy", "flush_authority", "flush_parent">>

\* A variant of CreateAuthorizedPolicy that flushes the parent it has flushed.
CreateAuthorizedPolicyTwice ==
    SignRecoveryPolicy \o
    <<"create_primary", "load_authority", "read_public", "verify_signature", "flush_parent",
      "pcr_read", "start_trial", "policy_pcr", "policy_authorize", "flush_authority",
      "policy_command_code", "get_digest", "flush_session", "flush_parent">>

CreateAuthorizedPolicy ==
    SignRecoveryPolicy \o
    <<"create_primary", "load_authority", "read_public", "verify_signature", "flush_parent",
      "pcr_read", "start_trial", "policy_pcr", "policy_authorize", "flush_authority",
      "policy_command_code", "get_digest", "flush_session">>

UpdateAuthorizedPolicy ==
    CreateSecureBootPolicy \o
    <<"create_primary", "load_authority", "sign_policy", "verify_signature",
      "flush_authority", "start_trial", "policy_pcr", "policy_authorize",
      "policy_command_code", "get_digest", "flush_session", "flush_parent">>

ChangeKeyAuth ==
    <<"create_primary", "load_authority", "object_change_auth", "flush_authority",
      "flush_parent">>

\* sign_digest_with_policy: with an authority, and with a PCR policy alone.  Its
\* guards flush at the end, in Finish and CallFails.  (No credential this daemon makes
\* is without a policy.)
SignAuthorized ==
    <<"create_primary", "load_key", "pcr_read", "start_policy", "policy_pcr",
      "get_approved", "load_authority", "read_public", "verify_signature",
      "policy_authorize", "policy_command_code", "sign">>

SignWithPcrs ==
    <<"create_primary", "load_key", "pcr_read", "start_policy", "policy_pcr", "sign">>

\* What makeCredential, sign_credential and handle_tpm_command call.
Program(o) ==
    CASE o.method = "makeCredential" /\ o.recovery ->
             CreateKey("create_authority") \o CreateSecureBootPolicy
                 \o CreateAuthorizedPolicy \o CreateKey("create_key")
      [] o.method = "makeCredential" /\ ~o.recovery ->
             CreateSecureBootPolicy \o CreateKey("create_key")
      [] o.method = "sign" /\ o.recovery -> SignAuthorized
      [] o.method = "sign" /\ ~o.recovery -> SignWithPcrs
      [] o.method = "update" -> UpdateAuthorizedPolicy
      [] o.method = "passphrase" -> ChangeKeyAuth

----------------------------------------------------------------------------
(* TPM commands: the handles they open, flush and use, when the TPM refuses     *)
(* them, and what they return                                                   *)

Opens(call) ==
    CASE call = "create_primary" -> {"parent"}
      [] call = "load_key" -> {"key"}
      [] call = "load_authority" -> {"authority"}
      [] call \in {"start_trial", "start_policy"} -> {"session"}
      [] OTHER -> {}

Flushes(call) ==
    CASE call = "flush_parent" -> {"parent"}
      [] call = "flush_authority" -> {"authority"}
      [] call = "flush_session" -> {"session"}
      [] OTHER -> {}

Uses(call) ==
    CASE call \in {"create_authority", "create_key", "load_key", "load_authority"} -> {"parent"}
      [] call = "object_change_auth" -> {"authority", "parent"}
      [] call \in {"sign_policy", "read_public", "verify_signature"} -> {"authority"}
      [] call \in {"policy_pcr", "get_approved", "policy_authorize", "policy_command_code",
                   "get_digest"} -> {"session"}
      [] call = "sign" -> {"key", "session"}
      [] OTHER -> Flushes(call)

\* The resource manager has no room.  Loading and creating go through a session of
\* their own (execute_with_nullauth_session).
Exhausted(call) ==
    \/ /\ Opens(call) \cap ObjectHandles # {}
       /\ Cardinality(open \cap ObjectHandles) + leaked.objects >= MAX_OBJECTS
    \/ /\ \/ "session" \in Opens(call)
          \/ call \in {"create_primary", "create_authority", "create_key", "load_key",
                      "load_authority"}
       /\ Cardinality(open \cap {"session"}) + leaked.sessions >= MAX_SESSIONS

\* current_pcr_digest: what pcr_read returns for a selection, hashed.
CurrentPcrDigest(selection) == [i \in selection |-> pcrs[i]]

\* A variant of ToSign that leaves the policyRef out.
ToSignWithoutRef(o) == PolicyWithRefHash(o.approved, None)

\* to_sign, in every method that signs or verifies an approved policy.
ToSign(o) == PolicyWithRefHash(o.approved, o.cred)

\* A policy session compares the PCRs, the approved policy and the ticket, and the
\* key its auth policy and that no PCR changed since; a trial session does not.
Refused(call, o) ==
    \/ /\ call = "policy_pcr" /\ o.method = "sign"
       /\ o.read # CurrentPcrDigest(tpm.list)
    \/ /\ call \in {"sign_policy", "object_change_auth"}
       /\ o.slot.private # o.slot.auth_value
    \/ /\ call = "verify_signature"
       /\ o.signature # ToSign(o)
    \/ /\ call = "policy_authorize" /\ o.method = "sign"
       /\ o.session # o.approved \/ o.ticket # PolicyWithRefHash(o.approved, o.cred)
    \/ /\ call = "sign"
       /\ o.session # o.key \/ ~o.fresh

Returned(call, o) ==
    CASE call = "pcr_read" ->
             [o EXCEPT !.read = CurrentPcrDigest(tpm.list),
                       !.platform = IF o.approved = <<>> THEN CurrentPcrDigest(tpm.name) ELSE @]
      [] call \in {"start_trial", "start_policy"} -> [o EXCEPT !.session = <<>>]
      [] call = "policy_pcr" -> [o EXCEPT !.session = Append(@, PolicyPcr(o.read)), !.fresh = TRUE]
      [] call = "get_approved" -> [o EXCEPT !.approved = o.session, !.digest = o.session]
      [] call = "get_digest" -> [o EXCEPT !.digest = o.session]
      [] call = "sign_policy" -> [o EXCEPT !.signature = ToSign(o)]
      [] call = "verify_signature" -> [o EXCEPT !.ticket = o.signature]
      [] call = "policy_authorize" -> [o EXCEPT !.session = <<PolicyAuthorize(o.cred, o.cred)>>]
      [] call = "policy_command_code" -> [o EXCEPT !.session = Append(@, PolicyCommandCode)]
      [] call = "create_authority" -> [o EXCEPT !.slot = Slot(o.auth, o.auth, o.auth)]
      [] call = "object_change_auth" -> [o EXCEPT !.slot = [@ EXCEPT !.private = o.auth]]
      [] call = "create_key" -> [o EXCEPT !.key = o.digest]
      [] OTHER -> o

----------------------------------------------------------------------------
(* The authenticator *)

\* A variant of DefaultPcrSelection that keeps the first index only.
DefaultPcrSelectionFirst(indices) ==
    [list |-> {CHOOSE i \in indices : TRUE}, name |-> indices]

DefaultPcrSelection(indices) == [list |-> indices, name |-> indices]

\* ensure_tpm opens the TPM once, with the default PCR policy of that moment, and
\* may fail only then.
EnsureTpm(opened) ==
    /\ tpm # None => opened
    /\ tpm' = IF tpm # None \/ ~opened THEN tpm
              ELSE DefaultPcrSelection(IF default_pcr = None THEN DEFAULT_PCRS ELSE default_pcr)

Begin(method, c, auth, slot, key, signature, recovery, opened) ==
    /\ op = None
    /\ EnsureTpm(opened)
    /\ op' = IF ~opened THEN None
             ELSE [method |-> method, cred |-> c, at |-> 1, recovery |-> recovery,
                   auth |-> auth, slot |-> slot, key |-> key, signature |-> signature,
                   read |-> <<>>, session |-> <<>>, approved |-> <<>>, digest |-> <<>>,
                   ticket |-> NoSignature, fresh |-> TRUE, platform |-> <<>>]
    /\ Answer(method, IF opened THEN "begun" ELSE "error", c)
    /\ UNCHANGED <<pcrs, default_pcr, credentials, open, leaked, approved>>

\* makeCredential, once the user approved: with the daemon passphrase if it can be
\* read, without a recovery slot if not.
MakeCredential(c, auth, opened) ==
    /\ credentials[c] = None
    /\ Begin("makeCredential", c, auth, None, <<>>, NoSignature, auth # None, opened)

SignCredential(c, opened) ==
    LET row == credentials[c]
    IN  /\ row # None
        /\ Begin("sign", c, None, row.recovery, row.key, row.policy.signature,
                 row.recovery # None, opened)

\* handle_tpm_command
PcrPolicyUpdate(c, opened) ==
    LET row == credentials[c]
    IN  /\ row # None /\ row.recovery # None
        /\ Begin("update", c, None, row.recovery, row.key, NoSignature, TRUE, opened)

PassphraseChange(c, auth, opened) ==
    LET row == credentials[c]
    IN  /\ row # None /\ row.recovery # None
        /\ Begin("passphrase", c, auth, row.recovery, row.key, row.policy.signature, TRUE,
                 opened)

Call(o) == Program(o)[o.at]

Calling == op # None /\ op.at <= Len(Program(op))

CallSucceeds ==
    /\ Calling
    /\ ~Exhausted(Call(op))
    /\ ~Refused(Call(op), op)
    /\ op' = [Returned(Call(op), op) EXCEPT !.at = @ + 1]
    /\ open' = (open \cup Opens(Call(op))) \ Flushes(Call(op))
    /\ UNCHANGED <<pcrs, default_pcr, tpm, credentials, leaked, approved, reply>>

\* A variant of Guarded without the guard of the policy session.
GuardedObjects(call, o) == IF o.method = "sign" THEN ObjectHandles ELSE {}

\* The handles the guards of sign_digest_with_policy flush; a failing create is
\* looked at after the parent was flushed.
Guarded(call, o) ==
    CASE o.method = "sign" -> Handles
      [] call \in {"create_authority", "create_key"} -> {"parent"}
      [] OTHER -> {}

\* A variant of LeaveOpen that keeps the handles of the method that ended.
LeaveOpenHeld(guarded) == leaked' = leaked /\ open' = open \ guarded

LeaveOpen(guarded) ==
    LET left == open \ guarded
    IN  /\ leaked' = [objects  |-> leaked.objects + Cardinality(left \cap ObjectHandles),
                      sessions |-> leaked.sessions + Cardinality(left \cap {"session"})]
        /\ open' = {}

\* A TPM command refused, or failed for a reason of the device: `?'.
CallFails ==
    /\ Calling
    /\ Flushes(Call(op)) = {}
    /\ LeaveOpen(Guarded(Call(op), op))
    /\ op' = None
    /\ Answer(op.method, IF Exhausted(Call(op)) THEN "exhausted"
                         ELSE IF Refused(Call(op), op) THEN "refused" ELSE "error", op.cred)
    /\ UNCHANGED <<pcrs, default_pcr, tpm, credentials, approved>>

\* A variant of NewRow that stores the new blob beside the old auth value.
NewRowOldAuth(o) ==
    LET row == credentials[o.cred]
        new == Policy(tpm.name, o.digest, o.signature)
    IN  CASE o.method = "makeCredential" ->
                 [policy |-> new, key |-> o.key, recovery |-> o.slot]
          [] o.method = "update" -> [row EXCEPT !.policy = new]
          [] o.method = "passphrase" ->
                 [row EXCEPT !.recovery = Slot(o.slot.private, o.slot.auth_value, o.auth)]
          [] OTHER -> row

\* The row the operation leaves: a new credential, a new policy, or the new private
\* blob with the new hash as auth value and token.
NewRow(o) ==
    LET row == credentials[o.cred]
    IN  CASE o.method = "makeCredential" ->
                 [policy |-> Policy(tpm.name, o.digest, o.signature), key |-> o.key,
                  recovery |-> o.slot]
          [] o.method = "update" ->
                 [row EXCEPT !.policy = Policy(tpm.name, o.digest, o.signature)]
          [] o.method = "passphrase" ->
                 [row EXCEPT !.recovery = Slot(o.slot.private, o.auth, o.auth)]
          [] OTHER -> row

Approvals(o) ==
    IF o.method \in {"makeCredential", "update"}
    THEN [approved EXCEPT ![o.cred] = o.platform]
    ELSE approved

\* The end of an operation: its result is stored, or storing it reports an error and
\* the row stays.  A registration goes on after such an error, signing stores nothing.
Finish(committed) ==
    /\ op # None /\ ~Calling
    /\ op.method \in {"makeCredential", "sign"} => committed
    /\ credentials' = IF committed THEN [credentials EXCEPT ![op.cred] = NewRow(op)]
                      ELSE credentials
    /\ approved' = IF committed THEN Approvals(op) ELSE approved
    /\ LeaveOpen(Guarded("end", op))
    /\ op' = None
    /\ Answer(op.method, IF committed THEN "ok" ELSE "error", op.cred)
    /\ UNCHANGED <<pcrs, default_pcr, tpm>>

\* The rows of deleteCredential and authenticatorReset.
Delete(c) ==
    /\ op = None
    /\ credentials[c] # None
    /\ credentials' = [credentials EXCEPT ![c] = None]
    /\ Answer("delete", "ok", c)
    /\ UNCHANGED <<pcrs, default_pcr, tpm, op, open, leaked, approved>>

\* set-default-pcr-policy writes the store from a thread of its own, at any time.
SetDefaultPcrPolicy(selection) ==
    /\ default_pcr' = selection
    /\ UNCHANGED <<pcrs, tpm, credentials, op, open, leaked, approved, reply>>

\* The platform extends a PCR, at any time.
Extend(i, m) ==
    /\ pcrs[i] # m
    /\ pcrs' = [pcrs EXCEPT ![i] = m]
    /\ op' = IF op = None THEN None ELSE [op EXCEPT !.fresh = FALSE]
    /\ UNCHANGED <<default_pcr, tpm, credentials, open, leaked, approved, reply>>

\* The daemon stops and starts, or the machine reboots: the resource manager flushes
\* what the daemon held.
Restart ==
    /\ pcrs' \in [Pcrs -> Measurements]
    /\ tpm' = None
    /\ op' = None
    /\ open' = {}
    /\ leaked' = [objects |-> 0, sessions |-> 0]
    /\ Answer("start", "ok", None)
    /\ UNCHANGED <<default_pcr, credentials, approved>>

Next ==
    \/ \E c \in Credentials, opened \in BOOLEAN :
        \/ \E auth \in Auths \cup {None} : MakeCredential(c, auth, opened)
        \/ SignCredential(c, opened)
        \/ PcrPolicyUpdate(c, opened)
        \/ \E auth \in Auths : PassphraseChange(c, auth, opened)
    \/ CallSucceeds
    \/ CallFails
    \/ \E committed \in BOOLEAN : Finish(committed)
    \/ \E c \in Credentials : Delete(c)
    \/ \E selection \in Selections : SetDefaultPcrPolicy(selection)
    \/ \E i \in Pcrs, m \in Measurements : Extend(i, m)
    \/ Restart

Spec == Init /\ [][Next]_vars

----------------------------------------------------------------------------
(* Properties *)

\* Every TPM command of every method works on handles that are open at that point,
\* and opens none under a variable that still holds one: no use after flush, no
\* double flush, no handle lost by overwriting.
HandlesOpen ==
    Calling => /\ Uses(Call(op)) \subseteq open
               /\ Opens(Call(op)) \cap open = {}

\* sign_digest_with_policy leaves no object and no session behind, whichever of its
\* commands fails, and no method leaves any when it succeeds.
HandlesReleased ==
    [][op # None /\ op' = None /\ (op.method = "sign" \/ reply'.status = "ok") =>
          leaked'.objects <= leaked.objects /\ leaked'.sessions <= leaked.sessions]_vars

\* A credential signs only on a platform whose selected PCRs are, at that moment, as
\* they were when it was registered or, later, when the holder of its recovery
\* passphrase approved an update.
SignsOnlyWhenApproved ==
    [][Calling /\ Call(op) = "sign" /\ op' # None /\ op'.at > op.at =>
          CurrentPcrDigest(credentials[op.cred].policy.selection) = approved[op.cred]]_vars

\* The policy never refuses a signature on the platform approved last, unless a PCR
\* was extended meanwhile or the daemon now uses another PCR selection.
ApprovedSigns ==
    [][op # None /\ op.method = "sign" /\ reply'.status = "refused" =>
          \/ ~op.fresh
          \/ tpm.name # credentials[op.cred].policy.selection
          \/ CurrentPcrDigest(tpm.name) # approved[op.cred]]_vars

\* Whatever failed or was interrupted before, the stored package of a credential is
\* usable: the recovery key opens with the stored passphrase hash, and the signature
\* is for the platform approved last and for this credential.
PackageUsable ==
    \A c \in Credentials : credentials[c] # None =>
        LET row == credentials[c]
            pcr == <<PolicyPcr(approved[c])>>
        IN  IF row.recovery = None THEN row.key = pcr
            ELSE /\ row.recovery.private = row.recovery.hash
                 /\ row.recovery.auth_value = row.recovery.hash
                 /\ row.policy.signature = PolicyWithRefHash(pcr, c)
                 /\ row.key = row.policy.digest

=============================================================================
