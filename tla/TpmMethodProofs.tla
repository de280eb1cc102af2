------------------------- MODULE TpmMethodProofs ----------------------------
(***************************************************************************)
(* The inductive invariant of Tpm, and what it needs of the methods of     *)
(* struct Tpm: where the TPM commands of each are, which handles it holds  *)
(* at each of them, and what each command makes of its variables.          *)
(***************************************************************************)
EXTENDS Tpm, TLAPS

----------------------------------------------------------------------------
(* The inductive invariant *)

\* The methods' programs; the positions of TPM commands below are positions in these.
Making(o) == o.method = "makeCredential" /\ o.recovery

MakingPlain(o) == o.method = "makeCredential" /\ ~o.recovery

Signing(o) == o.method = "sign" /\ o.recovery

SigningPlain(o) == o.method = "sign" /\ ~o.recovery

Updating(o) == o.method = "update"

Changing(o) == o.method = "passphrase"

\* The positions at which a method holds a handle.
Parent(o) ==
    CASE Making(o) -> (2..3) \cup (10..13) \cup (15..18) \cup (28..29)
      [] MakingPlain(o) -> 7..8
      [] Signing(o) -> 2..13
      [] SigningPlain(o) -> 2..7
      [] Updating(o) -> 7..17
      [] Changing(o) -> 2..5

Authority(o) ==
    CASE Making(o) -> (11..12) \cup (16..23)
      [] MakingPlain(o) -> {}
      [] Signing(o) -> 8..13
      [] SigningPlain(o) -> {}
      [] Updating(o) -> 8..10
      [] Changing(o) -> 3..4

Session(o) ==
    CASE Making(o) -> (6..8) \cup (21..26)
      [] MakingPlain(o) -> 3..5
      [] Signing(o) -> 5..13
      [] SigningPlain(o) -> 5..7
      [] Updating(o) -> (3..5) \cup (12..16)
      [] Changing(o) -> {}

Key(o) ==
    CASE Signing(o) -> 3..13
      [] SigningPlain(o) -> 3..7
      [] OTHER -> {}

\* The handles that are open are those the method holds where it is.
Held(o) ==
    /\ "parent" \in open <=> o.at \in Parent(o)
    /\ "authority" \in open <=> o.at \in Authority(o)
    /\ "session" \in open <=> o.at \in Session(o)
    /\ "key" \in open <=> o.at \in Key(o)

\* The resource manager has room for what is open and what was left open.
Room ==
    /\ Cardinality(open \cap ObjectHandles) + leaked.objects <= MAX_OBJECTS
    /\ Cardinality(open \cap {"session"}) + leaked.sessions <= MAX_SESSIONS

HandleInv ==
    /\ op # None => op.at \in 1..(Len(Program(op)) + 1) /\ Held(op)
    /\ Room

\* The policy that demands these PCRs, and the one that demands a policy the recovery
\* key of the credential has signed.
PcrPolicy(digest) == <<PolicyPcr(digest)>>

AuthorizedPolicy(c) == Append(<<PolicyAuthorize(c, c)>>, PolicyCommandCode)

\* A row is usable for a platform: PackageUsable, with what the updates need of the old
\* row.
RowUsable(c, row, platform) ==
    /\ platform \in [row.policy.selection -> Measurements]
    /\ IF row.recovery = None THEN row.key = PcrPolicy(platform)
       ELSE /\ row.recovery.private = row.recovery.hash
            /\ row.recovery.auth_value = row.recovery.hash
            /\ row.policy.signature = PolicyWithRefHash(PcrPolicy(platform), c)
            /\ row.policy.digest = AuthorizedPolicy(c)
            /\ row.key = AuthorizedPolicy(c)

RowOK(c, row) == RowUsable(c, row, approved[c])

\* create_secure_boot_policy from command b + 1 on: the PCRs it read, and the policy it
\* made of them.
BootOK(o, b) ==
    /\ o.at > b + 1 => o.platform \in [tpm.name -> Measurements]
    /\ o.at \in (b + 2)..(b + 4) => o.read = o.platform
    /\ o.at = b + 3 => o.session = <<>>
    /\ o.at = b + 4 => o.session = PcrPolicy(o.platform)
    /\ o.at <= b + 4 => o.approved = <<>>
    /\ o.at > b + 4 => o.approved = PcrPolicy(o.platform)

\* The approved policy is signed by command s; the authorized policy is made by the
\* commands a (policy_authorize) and d (get_digest).
AuthorizeOK(o, s, a, d) ==
    /\ o.at > s => o.signature = PolicyWithRefHash(o.approved, o.cred)
    /\ o.at \in (a + 1)..(d - 1) => o.session = <<PolicyAuthorize(o.cred, o.cred)>>
    /\ o.at = d => o.session = AuthorizedPolicy(o.cred)
    /\ o.at > d => o.digest = AuthorizedPolicy(o.cred)

MakingOK(o) ==
    /\ o.auth \in Auths
    /\ o.at <= 2 => o.slot = None
    /\ o.at > 2 => o.slot = Slot(o.auth, o.auth, o.auth)
    /\ BootOK(o, 3)
    /\ AuthorizeOK(o, 11, 22, 25)
    /\ o.at > 28 => o.key = AuthorizedPolicy(o.cred)

MakingPlainOK(o) ==
    /\ o.slot = None
    /\ BootOK(o, 0)
    /\ o.at > 4 => o.digest = PcrPolicy(o.platform)
    /\ o.at > 7 => o.key = PcrPolicy(o.platform)

\* The operation works on a stored credential.
Stored(o) ==
    /\ credentials[o.cred] # None
    /\ o.method # "sign" => credentials[o.cred].recovery # None

\* What sign_digest_with_policy read is what the PCRs are, as long as it may matter.
ReadOK(o) ==
    o.at > 3 => /\ o.read \in [tpm.name -> Measurements]
                /\ o.fresh => o.read = CurrentPcrDigest(tpm.name)

SigningOK(o) ==
    /\ o.key = credentials[o.cred].key
    /\ credentials[o.cred].recovery # None
    /\ ReadOK(o)
    /\ o.signature = credentials[o.cred].policy.signature
    /\ o.at = 5 => o.session = <<>>
    /\ o.at \in 6..10 => o.session = PcrPolicy(o.read)
    /\ o.at > 6 => o.approved = PcrPolicy(o.read)
    /\ o.at > 9 => o.signature = ToSign(o) /\ o.ticket = o.signature
    /\ o.at = 11 => o.session = <<PolicyAuthorize(o.cred, o.cred)>>
    /\ o.at > 11 => o.session = AuthorizedPolicy(o.cred)

SigningPlainOK(o) ==
    /\ o.key = credentials[o.cred].key
    /\ credentials[o.cred].recovery = None
    /\ ReadOK(o)
    /\ o.at = 5 => o.session = <<>>
    /\ o.at > 5 => o.session = PcrPolicy(o.read)

UpdatingOK(o) ==
    /\ o.slot = credentials[o.cred].recovery
    /\ BootOK(o, 0)
    /\ AuthorizeOK(o, 8, 13, 15)

ChangingOK(o) ==
    /\ o.auth \in Auths
    /\ o.at <= 3 => o.slot = credentials[o.cred].recovery
    /\ o.at > 3 => o.slot # None /\ o.slot.private = o.auth

OpOK(o) ==
    /\ tpm # None
    /\ reply.status = "begun"
    /\ o.method # "makeCredential" => Stored(o)
    /\ Making(o) => MakingOK(o)
    /\ MakingPlain(o) => MakingPlainOK(o)
    /\ Signing(o) => SigningOK(o)
    /\ SigningPlain(o) => SigningPlainOK(o)
    /\ Updating(o) => UpdatingOK(o)
    /\ Changing(o) => ChangingOK(o)

PolicyInv ==
    /\ tpm # None => tpm.list = tpm.name
    /\ \A c \in Credentials : credentials[c] # None => RowOK(c, credentials[c])
    /\ op # None => OpOK(op)

IInv == TypeOK /\ HandleInv /\ PolicyInv

----------------------------------------------------------------------------
(* The programs *)

\* makeCredential with a recovery slot: where its TPM commands are.
MakingCall(call, k) ==
    /\ call = "create_primary" <=> k \in {1, 9, 14, 27}
    /\ call = "create_authority" <=> k = 2
    /\ call = "create_key" <=> k = 28
    /\ call = "load_authority" <=> k \in {10, 15}
    /\ call = "flush_parent" <=> k \in {3, 13, 18, 29}
    /\ call = "flush_authority" <=> k \in {12, 23}
    /\ call = "flush_session" <=> k \in {8, 26}
    /\ call = "pcr_read" <=> k \in {4, 19}
    /\ call = "start_trial" <=> k \in {5, 20}
    /\ call = "policy_pcr" <=> k \in {6, 21}
    /\ call = "get_approved" <=> k = 7
    /\ call = "sign_policy" <=> k = 11
    /\ call = "read_public" <=> k = 16
    /\ call = "verify_signature" <=> k = 17
    /\ call = "policy_authorize" <=> k = 22
    /\ call = "policy_command_code" <=> k = 24
    /\ call = "get_digest" <=> k = 25
    /\ call \in {"create_primary", "create_authority", "create_key",
                 "load_authority", "flush_parent", "flush_authority",
                 "flush_session", "pcr_read", "start_trial", "policy_pcr",
                 "get_approved", "sign_policy", "read_public",
                 "verify_signature", "policy_authorize",
                 "policy_command_code", "get_digest"}

MakingProgram(p) == Len(p) = 29 /\ \A k \in 1..29 : MakingCall(p[k], k)

\* That is the program of makeCredential with a recovery slot.
LEMMA MakingCalls == ASSUME NEW o, Making(o) PROVE MakingProgram(Program(o))
<1>1. Program(o) = CreateKey("create_authority") \o CreateSecureBootPolicy
                       \o CreateAuthorizedPolicy \o CreateKey("create_key")
  BY DEF Program, Making
<1> QED
  BY <1>1 DEF MakingProgram, MakingCall, CreateKey, CreateSecureBootPolicy, CreateAuthorizedPolicy,
     SignRecoveryPolicy

\* makeCredential without one.
MakingPlainCall(call, k) ==
    /\ call = "pcr_read" <=> k = 1
    /\ call = "start_trial" <=> k = 2
    /\ call = "policy_pcr" <=> k = 3
    /\ call = "get_approved" <=> k = 4
    /\ call = "flush_session" <=> k = 5
    /\ call = "create_primary" <=> k = 6
    /\ call = "create_key" <=> k = 7
    /\ call = "flush_parent" <=> k = 8
    /\ call \in {"pcr_read", "start_trial", "policy_pcr", "get_approved",
                 "flush_session", "create_primary", "create_key",
                 "flush_parent"}

MakingPlainProgram(p) == Len(p) = 8 /\ \A k \in 1..8 : MakingPlainCall(p[k], k)

\* That is the program of makeCredential without one.
LEMMA MakingPlainCalls == ASSUME NEW o, MakingPlain(o) PROVE MakingPlainProgram(Program(o))
<1>1. Program(o) = CreateSecureBootPolicy \o CreateKey("create_key")
  BY DEF Program, MakingPlain
<1> QED
  BY <1>1 DEF MakingPlainProgram, MakingPlainCall, CreateSecureBootPolicy, CreateKey

\* sign_digest_with_policy for a policy with an authority.
SigningCall(call, k) ==
    /\ call = "create_primary" <=> k = 1
    /\ call = "load_key" <=> k = 2
    /\ call = "pcr_read" <=> k = 3
    /\ call = "start_policy" <=> k = 4
    /\ call = "policy_pcr" <=> k = 5
    /\ call = "get_approved" <=> k = 6
    /\ call = "load_authority" <=> k = 7
    /\ call = "read_public" <=> k = 8
    /\ call = "verify_signature" <=> k = 9
    /\ call = "policy_authorize" <=> k = 10
    /\ call = "policy_command_code" <=> k = 11
    /\ call = "sign" <=> k = 12
    /\ call \in {"create_primary", "load_key", "pcr_read", "start_policy",
                 "policy_pcr", "get_approved", "load_authority",
                 "read_public", "verify_signature", "policy_authorize",
                 "policy_command_code", "sign"}

SigningProgram(p) == Len(p) = 12 /\ \A k \in 1..12 : SigningCall(p[k], k)

\* That is the program of sign_digest_with_policy with an authority.
LEMMA SigningCalls == ASSUME NEW o, Signing(o) PROVE SigningProgram(Program(o))
<1>1. Program(o) = SignAuthorized
  BY DEF Program, Signing
<1> QED
  BY <1>1 DEF SigningProgram, SigningCall, SignAuthorized

\* sign_digest_with_policy for a PCR policy alone.
SigningPlainCall(call, k) ==
    /\ call = "create_primary" <=> k = 1
    /\ call = "load_key" <=> k = 2
    /\ call = "pcr_read" <=> k = 3
    /\ call = "start_policy" <=> k = 4
    /\ call = "policy_pcr" <=> k = 5
    /\ call = "sign" <=> k = 6
    /\ call \in {"create_primary", "load_key", "pcr_read", "start_policy",
                 "policy_pcr", "sign"}

SigningPlainProgram(p) == Len(p) = 6 /\ \A k \in 1..6 : SigningPlainCall(p[k], k)

\* That is the program of sign_digest_with_policy with a PCR policy alone.
LEMMA SigningPlainCalls == ASSUME NEW o, SigningPlain(o) PROVE SigningPlainProgram(Program(o))
<1>1. Program(o) = SignWithPcrs
  BY DEF Program, SigningPlain
<1> QED
  BY <1>1 DEF SigningPlainProgram, SigningPlainCall, SignWithPcrs

\* update_authorized_policy.
UpdatingCall(call, k) ==
    /\ call = "pcr_read" <=> k = 1
    /\ call = "start_trial" <=> k \in {2, 11}
    /\ call = "policy_pcr" <=> k \in {3, 12}
    /\ call = "get_approved" <=> k = 4
    /\ call = "flush_session" <=> k \in {5, 16}
    /\ call = "create_primary" <=> k = 6
    /\ call = "load_authority" <=> k = 7
    /\ call = "sign_policy" <=> k = 8
    /\ call = "verify_signature" <=> k = 9
    /\ call = "flush_authority" <=> k = 10
    /\ call = "policy_authorize" <=> k = 13
    /\ call = "policy_command_code" <=> k = 14
    /\ call = "get_digest" <=> k = 15
    /\ call = "flush_parent" <=> k = 17
    /\ call \in {"pcr_read", "start_trial", "policy_pcr", "get_approved",
                 "flush_session", "create_primary", "load_authority",
                 "sign_policy", "verify_signature", "flush_authority",
                 "policy_authorize", "policy_command_code", "get_digest",
                 "flush_parent"}

UpdatingProgram(p) == Len(p) = 17 /\ \A k \in 1..17 : UpdatingCall(p[k], k)

\* That is the program of update_authorized_policy.
LEMMA UpdatingCalls == ASSUME NEW o, Updating(o) PROVE UpdatingProgram(Program(o))
<1>1. Program(o) = UpdateAuthorizedPolicy
  BY DEF Program, Updating
<1> QED
  BY <1>1 DEF UpdatingProgram, UpdatingCall, UpdateAuthorizedPolicy, CreateSecureBootPolicy

\* change_key_auth.
ChangingCall(call, k) ==
    /\ call = "create_primary" <=> k = 1
    /\ call = "load_authority" <=> k = 2
    /\ call = "object_change_auth" <=> k = 3
    /\ call = "flush_authority" <=> k = 4
    /\ call = "flush_parent" <=> k = 5
    /\ call \in {"create_primary", "load_authority", "object_change_auth",
                 "flush_authority", "flush_parent"}

ChangingProgram(p) == Len(p) = 5 /\ \A k \in 1..5 : ChangingCall(p[k], k)

\* That is the program of change_key_auth.
LEMMA ChangingCalls == ASSUME NEW o, Changing(o) PROVE ChangingProgram(Program(o))
<1>1. Program(o) = ChangeKeyAuth
  BY DEF Program, Changing
<1> QED
  BY <1>1 DEF ChangingProgram, ChangingCall, ChangeKeyAuth

----------------------------------------------------------------------------
(* Handles *)

\* The handles a method holds at each of its commands are those the command uses, and
\* not those it opens; opening and flushing leads to what it holds at the next one.
Fits(o) ==
    /\ Uses(Call(o)) \subseteq open
    /\ Opens(Call(o)) \cap open = {}
    /\ LET opened == (open \cup Opens(Call(o))) \ Flushes(Call(o))
       IN  /\ "parent" \in opened <=> o.at + 1 \in Parent(o)
           /\ "authority" \in opened <=> o.at + 1 \in Authority(o)
           /\ "session" \in opened <=> o.at + 1 \in Session(o)
           /\ "key" \in opened <=> o.at + 1 \in Key(o)

\* Every method is one of the six.
LEMMA Methods6 ==
    ASSUME NEW o \in Operations
    PROVE  \/ Making(o) \/ MakingPlain(o) \/ Signing(o) \/ SigningPlain(o)
           \/ Updating(o) \/ Changing(o)
BY DEF Operations, Methods, Making, MakingPlain, Signing, SigningPlain, Updating, Changing

\* What a command does to each handle.
CallHandles(call) ==
    /\ Opens(call) \cup Flushes(call) \cup Uses(call) \subseteq Handles
    /\ "parent" \in Opens(call) <=> call = "create_primary"
    /\ "authority" \in Opens(call) <=> call = "load_authority"
    /\ "session" \in Opens(call) <=> call \in {"start_trial", "start_policy"}
    /\ "key" \in Opens(call) <=> call = "load_key"
    /\ "parent" \in Flushes(call) <=> call = "flush_parent"
    /\ "authority" \in Flushes(call) <=> call = "flush_authority"
    /\ "session" \in Flushes(call) <=> call = "flush_session"
    /\ "key" \notin Flushes(call)
    /\ "parent" \in Uses(call) <=>
          call \in {"create_authority", "create_key", "load_key", "load_authority",
                    "object_change_auth", "flush_parent"}
    /\ "authority" \in Uses(call) <=>
          call \in {"object_change_auth", "sign_policy", "read_public", "verify_signature",
                    "flush_authority"}
    /\ "session" \in Uses(call) <=>
          call \in {"policy_pcr", "get_approved", "policy_authorize", "policy_command_code",
                    "get_digest", "sign", "flush_session"}
    /\ "key" \in Uses(call) <=> call = "sign"

\* It does just that, by the definitions of Opens, Flushes and Uses.
LEMMA CallHandlesOf == \A call : CallHandles(call)
<1> SUFFICES ASSUME NEW call PROVE CallHandles(call)
  OBVIOUS
<1>1. Opens(call) \cup Flushes(call) \cup Uses(call) \subseteq Handles
  BY DEF Opens, Flushes, Uses, Handles, ObjectHandles
<1>2. /\ "parent" \in Opens(call) <=> call = "create_primary"
      /\ "authority" \in Opens(call) <=> call = "load_authority"
      /\ "session" \in Opens(call) <=> call \in {"start_trial", "start_policy"}
      /\ "key" \in Opens(call) <=> call = "load_key"
  BY DEF Opens
<1>3. /\ "parent" \in Flushes(call) <=> call = "flush_parent"
      /\ "authority" \in Flushes(call) <=> call = "flush_authority"
      /\ "session" \in Flushes(call) <=> call = "flush_session"
      /\ "key" \notin Flushes(call)
  BY DEF Flushes
<1> QED
  BY <1>1, <1>2, <1>3 DEF CallHandles, Uses

\* A command at position k, and the positions at which a method holds a handle.
ParentFits(call, k, held) ==
    /\ call = "create_primary" => k \notin held
    /\ call \in {"create_authority", "create_key", "load_key", "load_authority",
                 "object_change_auth", "flush_parent"} => k \in held
    /\ k + 1 \in held <=> (k \in held \/ call = "create_primary") /\ call # "flush_parent"

AuthorityFits(call, k, held) ==
    /\ call = "load_authority" => k \notin held
    /\ call \in {"object_change_auth", "sign_policy", "read_public", "verify_signature",
                 "flush_authority"} => k \in held
    /\ k + 1 \in held <=> (k \in held \/ call = "load_authority") /\ call # "flush_authority"

SessionFits(call, k, held) ==
    /\ call \in {"start_trial", "start_policy"} => k \notin held
    /\ call \in {"policy_pcr", "get_approved", "policy_authorize", "policy_command_code",
                 "get_digest", "sign", "flush_session"} => k \in held
    /\ k + 1 \in held <=>
          (k \in held \/ call \in {"start_trial", "start_policy"}) /\ call # "flush_session"

KeyFits(call, k, held) ==
    /\ call = "load_key" => k \notin held
    /\ call = "sign" => k \in held
    /\ k + 1 \in held <=> k \in held \/ call = "load_key"

\* A method whose positions fit handle by handle fits.
LEMMA FitsAt ==
    ASSUME NEW o, Held(o), open \subseteq Handles,
           ParentFits(Call(o), o.at, Parent(o)), AuthorityFits(Call(o), o.at, Authority(o)),
           SessionFits(Call(o), o.at, Session(o)), KeyFits(Call(o), o.at, Key(o))
    PROVE  Fits(o)
<1>1. CallHandles(Call(o))
  BY CallHandlesOf
<1> USE DEF ParentFits, AuthorityFits, SessionFits, KeyFits
<1>2. Uses(Call(o)) \subseteq open
  BY <1>1 DEF CallHandles, Held, Handles, ObjectHandles
<1>3. Opens(Call(o)) \cap open = {}
  BY <1>1 DEF CallHandles, Held, Handles, ObjectHandles
<1> QED
  BY <1>1, <1>2, <1>3 DEF CallHandles, Held, Fits

\* The positions of makeCredential with a recovery slot fit its commands.
LEMMA MakingFits ==
    ASSUME NEW k \in 1..29, NEW call, MakingCall(call, k)
    PROVE  /\ ParentFits(call, k, (2..3) \cup (10..13) \cup (15..18) \cup (28..29))
           /\ AuthorityFits(call, k, (11..12) \cup (16..23))
           /\ SessionFits(call, k, (6..8) \cup (21..26))
           /\ KeyFits(call, k, {})
<1>1. ParentFits(call, k, (2..3) \cup (10..13) \cup (15..18) \cup (28..29))
  BY DEF MakingCall, ParentFits
<1>2. AuthorityFits(call, k, (11..12) \cup (16..23))
  BY DEF MakingCall, AuthorityFits
<1>3. SessionFits(call, k, (6..8) \cup (21..26))
  BY DEF MakingCall, SessionFits
<1>4. KeyFits(call, k, {})
  BY DEF MakingCall, KeyFits
<1> QED
  BY <1>1, <1>2, <1>3, <1>4

\* The positions of makeCredential without one fit its commands.
LEMMA MakingPlainFits ==
    ASSUME NEW k \in 1..8, NEW call, MakingPlainCall(call, k)
    PROVE  /\ ParentFits(call, k, 7..8)
           /\ AuthorityFits(call, k, {})
           /\ SessionFits(call, k, 3..5)
           /\ KeyFits(call, k, {})
<1>1. ParentFits(call, k, 7..8)
  BY DEF MakingPlainCall, ParentFits
<1>2. AuthorityFits(call, k, {})
  BY DEF MakingPlainCall, AuthorityFits
<1>3. SessionFits(call, k, 3..5)
  BY DEF MakingPlainCall, SessionFits
<1>4. KeyFits(call, k, {})
  BY DEF MakingPlainCall, KeyFits
<1> QED
  BY <1>1, <1>2, <1>3, <1>4

\* The positions of sign_digest_with_policy with an authority fit its commands.
LEMMA SigningFits ==
    ASSUME NEW k \in 1..12, NEW call, SigningCall(call, k)
    PROVE  /\ ParentFits(call, k, 2..13)
           /\ AuthorityFits(call, k, 8..13)
           /\ SessionFits(call, k, 5..13)
           /\ KeyFits(call, k, 3..13)
<1>1. ParentFits(call, k, 2..13)
  BY DEF SigningCall, ParentFits
<1>2. AuthorityFits(call, k, 8..13)
  BY DEF SigningCall, AuthorityFits
<1>3. SessionFits(call, k, 5..13)
  BY DEF SigningCall, SessionFits
<1>4. KeyFits(call, k, 3..13)
  BY DEF SigningCall, KeyFits
<1> QED
  BY <1>1, <1>2, <1>3, <1>4

\* The positions of sign_digest_with_policy with a PCR policy alone fit its commands.
LEMMA SigningPlainFits ==
    ASSUME NEW k \in 1..6, NEW call, SigningPlainCall(call, k)
    PROVE  /\ ParentFits(call, k, 2..7)
           /\ AuthorityFits(call, k, {})
           /\ SessionFits(call, k, 5..7)
           /\ KeyFits(call, k, 3..7)
<1>1. ParentFits(call, k, 2..7)
  BY DEF SigningPlainCall, ParentFits
<1>2. AuthorityFits(call, k, {})
  BY DEF SigningPlainCall, AuthorityFits
<1>3. SessionFits(call, k, 5..7)
  BY DEF SigningPlainCall, SessionFits
<1>4. KeyFits(call, k, 3..7)
  BY DEF SigningPlainCall, KeyFits
<1> QED
  BY <1>1, <1>2, <1>3, <1>4

\* The positions of update_authorized_policy fit its commands.
LEMMA UpdatingFits ==
    ASSUME NEW k \in 1..17, NEW call, UpdatingCall(call, k)
    PROVE  /\ ParentFits(call, k, 7..17)
           /\ AuthorityFits(call, k, 8..10)
           /\ SessionFits(call, k, (3..5) \cup (12..16))
           /\ KeyFits(call, k, {})
<1>1. ParentFits(call, k, 7..17)
  BY DEF UpdatingCall, ParentFits
<1>2. AuthorityFits(call, k, 8..10)
  BY DEF UpdatingCall, AuthorityFits
<1>3. SessionFits(call, k, (3..5) \cup (12..16))
  BY DEF UpdatingCall, SessionFits
<1>4. KeyFits(call, k, {})
  BY DEF UpdatingCall, KeyFits
<1> QED
  BY <1>1, <1>2, <1>3, <1>4

\* The positions of change_key_auth fit its commands.
LEMMA ChangingFits ==
    ASSUME NEW k \in 1..5, NEW call, ChangingCall(call, k)
    PROVE  /\ ParentFits(call, k, 2..5)
           /\ AuthorityFits(call, k, 3..4)
           /\ SessionFits(call, k, {})
           /\ KeyFits(call, k, {})
<1>1. ParentFits(call, k, 2..5)
  BY DEF ChangingCall, ParentFits
<1>2. AuthorityFits(call, k, 3..4)
  BY DEF ChangingCall, AuthorityFits
<1>3. SessionFits(call, k, {})
  BY DEF ChangingCall, SessionFits
<1>4. KeyFits(call, k, {})
  BY DEF ChangingCall, KeyFits
<1> QED
  BY <1>1, <1>2, <1>3, <1>4

\* Where makeCredential with a recovery slot holds its handles.
LEMMA MakingPositions ==
    ASSUME NEW o, Making(o)
    PROVE  /\ Parent(o) = (2..3) \cup (10..13) \cup (15..18) \cup (28..29)
           /\ Authority(o) = (11..12) \cup (16..23)
           /\ Session(o) = (6..8) \cup (21..26)
           /\ Key(o) = {}
BY DEF Parent, Authority, Session, Key, Making, MakingPlain, Signing, SigningPlain, Updating,
   Changing

\* Where makeCredential without one holds its handles.
LEMMA MakingPlainPositions ==
    ASSUME NEW o, MakingPlain(o)
    PROVE  /\ Parent(o) = 7..8
           /\ Authority(o) = {}
           /\ Session(o) = 3..5
           /\ Key(o) = {}
BY DEF Parent, Authority, Session, Key, Making, MakingPlain, Signing, SigningPlain, Updating,
   Changing

\* Where sign_digest_with_policy with an authority holds its handles.
LEMMA SigningPositions ==
    ASSUME NEW o, Signing(o)
    PROVE  /\ Parent(o) = 2..13
           /\ Authority(o) = 8..13
           /\ Session(o) = 5..13
           /\ Key(o) = 3..13
BY DEF Parent, Authority, Session, Key, Making, MakingPlain, Signing, SigningPlain, Updating,
   Changing

\* Where sign_digest_with_policy with a PCR policy alone holds its handles.
LEMMA SigningPlainPositions ==
    ASSUME NEW o, SigningPlain(o)
    PROVE  /\ Parent(o) = 2..7
           /\ Authority(o) = {}
           /\ Session(o) = 5..7
           /\ Key(o) = 3..7
BY DEF Parent, Authority, Session, Key, Making, MakingPlain, Signing, SigningPlain, Updating,
   Changing

\* Where update_authorized_policy holds its handles.
LEMMA UpdatingPositions ==
    ASSUME NEW o, Updating(o)
    PROVE  /\ Parent(o) = 7..17
           /\ Authority(o) = 8..10
           /\ Session(o) = (3..5) \cup (12..16)
           /\ Key(o) = {}
BY DEF Parent, Authority, Session, Key, Making, MakingPlain, Signing, SigningPlain, Updating,
   Changing

\* Where change_key_auth holds its handles.
LEMMA ChangingPositions ==
    ASSUME NEW o, Changing(o)
    PROVE  /\ Parent(o) = 2..5
           /\ Authority(o) = 3..4
           /\ Session(o) = {}
           /\ Key(o) = {}
BY DEF Parent, Authority, Session, Key, Making, MakingPlain, Signing, SigningPlain, Updating,
   Changing

\* The handles of every method fit its commands.
LEMMA HandlesFit ==
    ASSUME NEW o \in Operations, o.at \in 1..Len(Program(o)), Held(o), open \subseteq Handles
    PROVE  Fits(o)
<1> DEFINE p == Program(o)
           k == o.at
<1>0. k \in Nat /\ Call(o) = p[k] /\ k \in 1..Len(p)
  BY DEF Operations, Call
<1>a. SUFFICES /\ ParentFits(p[k], k, Parent(o)) /\ AuthorityFits(p[k], k, Authority(o))
               /\ SessionFits(p[k], k, Session(o)) /\ KeyFits(p[k], k, Key(o))
  BY <1>0, FitsAt
<1>1. CASE Making(o)
  <2>1. /\ Parent(o) = (2..3) \cup (10..13) \cup (15..18) \cup (28..29)
        /\ Authority(o) = (11..12) \cup (16..23)
        /\ Session(o) = (6..8) \cup (21..26)
        /\ Key(o) = {}
    BY <1>1, MakingPositions
  <2>2. MakingProgram(p)
    BY <1>1, MakingCalls
  <2> HIDE DEF p, k
  <2>3. MakingCall(p[k], k) /\ k \in 1..29
    BY <1>0, <2>2 DEF MakingProgram
  <2> QED
    BY <2>1, <2>3, MakingFits
<1>2. CASE MakingPlain(o)
  <2>1. /\ Parent(o) = 7..8
        /\ Authority(o) = {}
        /\ Session(o) = 3..5
        /\ Key(o) = {}
    BY <1>2, MakingPlainPositions
  <2>2. MakingPlainProgram(p)
    BY <1>2, MakingPlainCalls
  <2> HIDE DEF p, k
  <2>3. MakingPlainCall(p[k], k) /\ k \in 1..8
    BY <1>0, <2>2 DEF MakingPlainProgram
  <2> QED
    BY <2>1, <2>3, MakingPlainFits
<1>3. CASE Signing(o)
  <2>1. /\ Parent(o) = 2..13
        /\ Authority(o) = 8..13
        /\ Session(o) = 5..13
        /\ Key(o) = 3..13
    BY <1>3, SigningPositions
  <2>2. SigningProgram(p)
    BY <1>3, SigningCalls
  <2> HIDE DEF p, k
  <2>3. SigningCall(p[k], k) /\ k \in 1..12
    BY <1>0, <2>2 DEF SigningProgram
  <2> QED
    BY <2>1, <2>3, SigningFits
<1>4. CASE SigningPlain(o)
  <2>1. /\ Parent(o) = 2..7
        /\ Authority(o) = {}
        /\ Session(o) = 5..7
        /\ Key(o) = 3..7
    BY <1>4, SigningPlainPositions
  <2>2. SigningPlainProgram(p)
    BY <1>4, SigningPlainCalls
  <2> HIDE DEF p, k
  <2>3. SigningPlainCall(p[k], k) /\ k \in 1..6
    BY <1>0, <2>2 DEF SigningPlainProgram
  <2> QED
    BY <2>1, <2>3, SigningPlainFits
<1>5. CASE Updating(o)
  <2>1. /\ Parent(o) = 7..17
        /\ Authority(o) = 8..10
        /\ Session(o) = (3..5) \cup (12..16)
        /\ Key(o) = {}
    BY <1>5, UpdatingPositions
  <2>2. UpdatingProgram(p)
    BY <1>5, UpdatingCalls
  <2> HIDE DEF p, k
  <2>3. UpdatingCall(p[k], k) /\ k \in 1..17
    BY <1>0, <2>2 DEF UpdatingProgram
  <2> QED
    BY <2>1, <2>3, UpdatingFits
<1>6. CASE Changing(o)
  <2>1. /\ Parent(o) = 2..5
        /\ Authority(o) = 3..4
        /\ Session(o) = {}
        /\ Key(o) = {}
    BY <1>6, ChangingPositions
  <2>2. ChangingProgram(p)
    BY <1>6, ChangingCalls
  <2> HIDE DEF p, k
  <2>3. ChangingCall(p[k], k) /\ k \in 1..5
    BY <1>0, <2>2 DEF ChangingProgram
  <2> QED
    BY <2>1, <2>3, ChangingFits
<1> QED
  BY <1>1, <1>2, <1>3, <1>4, <1>5, <1>6, Methods6

----------------------------------------------------------------------------
(* What a command returns *)

\* The digests a policy session has, and the readings of PCRs, are of their types.
LEMMA DigestTypes ==
    /\ <<>> \in Digests
    /\ \A s \in Digests, d \in Readings : Append(s, PolicyPcr(d)) \in Digests
    /\ \A s \in Digests : Append(s, PolicyCommandCode) \in Digests
    /\ \A c \in Credentials : <<PolicyAuthorize(c, c)>> \in Digests
<1> DEFINE Assertions == {PolicyPcr(d) : d \in Readings}
               \cup {PolicyAuthorize(c, c) : c \in Credentials} \cup {PolicyCommandCode}
<1>1. Digests = Seq(Assertions)
  BY DEF Digests
<1>2. \A d \in Readings : PolicyPcr(d) \in Assertions
  OBVIOUS
<1>3. \A c \in Credentials : PolicyAuthorize(c, c) \in Assertions
  OBVIOUS
<1>4. PolicyCommandCode \in Assertions
  OBVIOUS
<1> HIDE DEF Assertions
<1> QED
  BY <1>1, <1>2, <1>3, <1>4

\* The first assertion of a session.
LEMMA AppendToNone == ASSUME NEW x PROVE Append(<<>>, x) = <<x>>
OBVIOUS

\* What the PCRs of a selection read is a reading.
LEMMA ReadingTypes ==
    ASSUME pcrs \in [Pcrs -> Measurements], NEW s \in Selections
    PROVE  /\ CurrentPcrDigest(s) \in [s -> Measurements]
           /\ CurrentPcrDigest(s) \in Readings
<1>1. CurrentPcrDigest(s) \in [s -> Measurements]
  BY SelectionAssumption DEF CurrentPcrDigest
<1> QED
  BY <1>1 DEF Readings, Platforms

\* The variables of the method after a command, one by one, with its next position.
Effects(o, r, at, call) ==
    /\ r \in Operations
    /\ r.method = o.method /\ r.cred = o.cred /\ r.recovery = o.recovery /\ r.auth = o.auth
    /\ r.at = at
    /\ r.read = IF call = "pcr_read" THEN CurrentPcrDigest(tpm.list) ELSE o.read
    /\ r.platform = IF call = "pcr_read" /\ o.approved = <<>> THEN CurrentPcrDigest(tpm.name)
                    ELSE o.platform
    /\ call \in {"start_trial", "start_policy"} => r.session = <<>>
    /\ call = "policy_pcr" => r.session = Append(o.session, PolicyPcr(o.read))
    /\ call = "policy_authorize" => r.session = <<PolicyAuthorize(o.cred, o.cred)>>
    /\ call = "policy_command_code" => r.session = Append(o.session, PolicyCommandCode)
    /\ call \notin {"start_trial", "start_policy", "policy_pcr", "policy_authorize",
                    "policy_command_code"} => r.session = o.session
    /\ r.fresh <=> call = "policy_pcr" \/ o.fresh
    /\ r.approved = IF call = "get_approved" THEN o.session ELSE o.approved
    /\ r.digest = IF call \in {"get_approved", "get_digest"} THEN o.session ELSE o.digest
    /\ r.signature = IF call = "sign_policy" THEN ToSign(o) ELSE o.signature
    /\ r.ticket = IF call = "verify_signature" THEN o.signature ELSE o.ticket
    /\ call = "create_authority" => r.slot = Slot(o.auth, o.auth, o.auth)
    /\ call = "object_change_auth" => r.slot = [o.slot EXCEPT !.private = o.auth]
    /\ call \notin {"create_authority", "object_change_auth"} => r.slot = o.slot
    /\ r.key = IF call = "create_key" THEN o.digest ELSE o.key

\* A command returns what Effects says.
LEMMA ReturnedEffects ==
    ASSUME NEW o \in Operations, NEW call,
           tpm \in [list : Selections, name : Selections], pcrs \in [Pcrs -> Measurements],
           call = "create_authority" => o.auth \in Auths,
           call = "object_change_auth" => o.auth \in Auths /\ o.slot \in Slots
    PROVE  Effects(o, Returned(call, o), o.at, call)
<1> USE DEF Effects, Returned
<1>1. CASE call = "pcr_read"
  <2>1. CurrentPcrDigest(tpm.list) \in Readings /\ CurrentPcrDigest(tpm.name) \in Readings
    BY ReadingTypes
  <2> QED
    BY <1>1, <2>1 DEF Operations
<1>2. CASE call \in {"start_trial", "start_policy"}
  BY <1>2, DigestTypes DEF Operations
<1>3. CASE call = "policy_pcr"
  <2>1. Append(o.session, PolicyPcr(o.read)) \in Digests
    BY DigestTypes DEF Operations
  <2> QED
    BY <1>3, <2>1 DEF Operations
<1>4. CASE call \in {"get_approved", "get_digest"}
  BY <1>4 DEF Operations
<1>5. CASE call = "sign_policy"
  <2>1. ToSign(o) \in Signatures
    BY DEF ToSign, PolicyWithRefHash, Signatures, Operations
  <2> QED
    BY <1>5, <2>1 DEF Operations
<1>6. CASE call = "verify_signature"
  BY <1>6 DEF Operations
<1>7. CASE call = "policy_authorize"
  <2>1. <<PolicyAuthorize(o.cred, o.cred)>> \in Digests
    BY DigestTypes DEF Operations
  <2> QED
    BY <1>7, <2>1 DEF Operations
<1>8. CASE call = "policy_command_code"
  <2>1. Append(o.session, PolicyCommandCode) \in Digests
    BY DigestTypes DEF Operations
  <2> QED
    BY <1>8, <2>1 DEF Operations
<1>9. CASE call = "create_authority"
  <2>1. Slot(o.auth, o.auth, o.auth) \in Slots
    BY <1>9 DEF Slot, Slots
  <2> QED
    BY <1>9, <2>1 DEF Operations
<1>10. CASE call = "object_change_auth"
  <2>1. [o.slot EXCEPT !.private = o.auth] \in Slots
    BY <1>10 DEF Slots
  <2> QED
    BY <1>10, <2>1 DEF Operations
<1>11. CASE call = "create_key"
  BY <1>11 DEF Operations
<1>12. CASE call \notin {"pcr_read", "start_trial", "start_policy", "policy_pcr", "get_approved",
                         "get_digest", "sign_policy", "verify_signature", "policy_authorize",
                         "policy_command_code", "create_authority", "object_change_auth",
                         "create_key"}
  BY <1>12 DEF Operations
<1> QED
  BY <1>1, <1>2, <1>3, <1>4, <1>5, <1>6, <1>7, <1>8, <1>9, <1>10, <1>11, <1>12

\* And moves the method to its next command.
LEMMA StepEffects ==
    ASSUME NEW o \in Operations, NEW call, Effects(o, Returned(call, o), o.at, call)
    PROVE  Effects(o, [Returned(call, o) EXCEPT !.at = @ + 1], o.at + 1, call)
<1> DEFINE r == Returned(call, o)
           u == [r EXCEPT !.at = @ + 1]
<1>1. Effects(o, r, o.at, call)
  OBVIOUS
<1> HIDE DEF r
<1>2. r \in Operations
  BY <1>1 DEF Effects
<1>3. /\ u \in Operations
      /\ u.at = r.at + 1
      /\ u.method = r.method /\ u.cred = r.cred /\ u.recovery = r.recovery /\ u.auth = r.auth
      /\ u.read = r.read /\ u.platform = r.platform /\ u.session = r.session
      /\ u.fresh = r.fresh /\ u.approved = r.approved /\ u.digest = r.digest
      /\ u.signature = r.signature /\ u.ticket = r.ticket /\ u.slot = r.slot /\ u.key = r.key
  BY <1>2 DEF Operations
<1> HIDE DEF u
<1>4. Effects(o, u, o.at + 1, call)
  BY <1>1, <1>3 DEF Effects
<1> QED
  BY <1>4 DEF u, r

----------------------------------------------------------------------------
(* The methods: CallSucceeds keeps what the invariant says of each *)

\* Signing: what the step needs of the command, and of the state.
LEMMA SigningStep ==
    ASSUME NEW o \in Operations, NEW u, NEW call, Signing(o), SigningOK(o),
           o.at \in 1..12, SigningCall(call, o.at), Effects(o, u, o.at + 1, call),
           ~Refused(call, o), tpm \in [list : Selections, name : Selections],
           tpm.list = tpm.name, pcrs \in [Pcrs -> Measurements]
    PROVE  SigningOK(u)
<1> DEFINE k == o.at
<1>0. k \in 1..12 /\ u.at = k + 1 /\ u.cred = o.cred
  BY DEF Effects
<1>1. u.key = credentials[u.cred].key /\ credentials[u.cred].recovery # None
      /\ u.signature = credentials[u.cred].policy.signature
  BY <1>0 DEF SigningCall, Effects, SigningOK
<1>2. ReadOK(u)
  <2>1. CurrentPcrDigest(tpm.name) \in [tpm.name -> Measurements]
    BY ReadingTypes
  <2>2. CASE k = 3
    BY <2>1, <2>2, <1>0 DEF ReadOK, Effects, SigningCall
  <2>3. CASE k = 5
    BY <2>1, <2>3, <1>0 DEF ReadOK, Effects, SigningCall, Refused, Signing, SigningOK
  <2>4. CASE k \notin {3, 5}
    <3>1. u.read = o.read /\ (u.fresh <=> o.fresh)
      BY <2>4, <1>0 DEF Effects, SigningCall
    <3> QED
      BY <3>1, <2>4, <1>0 DEF ReadOK, SigningOK
  <2> QED
    BY <2>2, <2>3, <2>4
<1>3. u.at = 5 => u.session = <<>>
  BY <1>0 DEF Effects, SigningCall
<1>4. u.at \in 6..10 => u.session = PcrPolicy(u.read)
  <2>1. CASE k = 5
    <3>1. u.session = Append(<<>>, PolicyPcr(o.read)) /\ u.read = o.read
      BY <2>1, <1>0 DEF Effects, SigningCall, SigningOK
    <3> QED
      BY <3>1, AppendToNone DEF PcrPolicy
  <2>2. CASE k \in 6..9
    BY <2>2, <1>0 DEF Effects, SigningCall, SigningOK
  <2> QED
    BY <2>1, <2>2, <1>0
<1>5. u.at > 6 => u.approved = PcrPolicy(u.read)
  BY <1>0 DEF Effects, SigningCall, SigningOK
<1>6. u.at > 9 => u.signature = ToSign(u) /\ u.ticket = u.signature
  <2>1. CASE k = 9
    BY <2>1, <1>0 DEF Effects, SigningCall, Refused, ToSign
  <2>2. CASE k > 9
    BY <2>2, <1>0 DEF Effects, SigningCall, SigningOK, ToSign
  <2> QED
    BY <2>1, <2>2, <1>0
<1>7. u.at = 11 => u.session = <<PolicyAuthorize(u.cred, u.cred)>>
  BY <1>0 DEF Effects, SigningCall
<1>8. u.at > 11 => u.session = AuthorizedPolicy(u.cred)
  <2>1. CASE k = 11
    <3>1. u.session = Append(<<PolicyAuthorize(u.cred, u.cred)>>, PolicyCommandCode)
      BY <2>1, <1>0 DEF Effects, SigningCall, SigningOK
    <3> QED
      BY <3>1 DEF AuthorizedPolicy
  <2>2. CASE k > 11
    BY <2>2, <1>0 DEF Effects, SigningCall, SigningOK
  <2> QED
    BY <2>1, <2>2, <1>0
<1> QED
  BY <1>1, <1>2, <1>3, <1>4, <1>5, <1>6, <1>7, <1>8 DEF SigningOK

\* Signing with a PCR policy alone.
LEMMA SigningPlainStep ==
    ASSUME NEW o \in Operations, NEW u, NEW call, SigningPlain(o), SigningPlainOK(o),
           o.at \in 1..6, SigningPlainCall(call, o.at), Effects(o, u, o.at + 1, call),
           ~Refused(call, o), tpm \in [list : Selections, name : Selections],
           tpm.list = tpm.name, pcrs \in [Pcrs -> Measurements]
    PROVE  SigningPlainOK(u)
<1> DEFINE k == o.at
<1>0. k \in 1..6 /\ u.at = k + 1 /\ u.cred = o.cred
  BY DEF Effects
<1>1. u.key = credentials[u.cred].key /\ credentials[u.cred].recovery = None
  BY <1>0 DEF SigningPlainCall, Effects, SigningPlainOK
<1>2. ReadOK(u)
  <2>1. CurrentPcrDigest(tpm.name) \in [tpm.name -> Measurements]
    BY ReadingTypes
  <2>2. CASE k = 3
    BY <2>1, <2>2, <1>0 DEF ReadOK, Effects, SigningPlainCall
  <2>3. CASE k = 5
    BY <2>1, <2>3, <1>0 DEF ReadOK, Effects, SigningPlainCall, Refused, SigningPlain,
       SigningPlainOK
  <2>4. CASE k \notin {3, 5}
    <3>1. u.read = o.read /\ (u.fresh <=> o.fresh)
      BY <2>4, <1>0 DEF Effects, SigningPlainCall
    <3> QED
      BY <3>1, <2>4, <1>0 DEF ReadOK, SigningPlainOK
  <2> QED
    BY <2>2, <2>3, <2>4
<1>3. u.at = 5 => u.session = <<>>
  BY <1>0 DEF Effects, SigningPlainCall
<1>4. u.at > 5 => u.session = PcrPolicy(u.read)
  <2>1. CASE k = 5
    <3>1. u.session = Append(<<>>, PolicyPcr(o.read)) /\ u.read = o.read
      BY <2>1, <1>0 DEF Effects, SigningPlainCall, SigningPlainOK
    <3> QED
      BY <3>1, AppendToNone DEF PcrPolicy
  <2>2. CASE k > 5
    BY <2>2, <1>0 DEF Effects, SigningPlainCall, SigningPlainOK
  <2> QED
    BY <2>1, <2>2, <1>0
<1> QED
  BY <1>1, <1>2, <1>3, <1>4 DEF SigningPlainOK

\* Where the commands of create_secure_boot_policy are.
BootCalls(call, k, b) ==
    /\ k = b + 1 => call = "pcr_read"
    /\ k = b + 2 => call = "start_trial"
    /\ k = b + 3 => call = "policy_pcr"
    /\ call = "get_approved" <=> k = b + 4
    /\ call = "pcr_read" => k > b

\* create_secure_boot_policy, wherever its commands are in the method: the later
\* readings of the method are not taken for the platform.
LEMMA BootStep ==
    ASSUME NEW o \in Operations, NEW u, NEW call, NEW b \in Nat, BootOK(o, b),
           Effects(o, u, o.at + 1, call), BootCalls(call, o.at, b),
           tpm \in [list : Selections, name : Selections],
           tpm.list = tpm.name, pcrs \in [Pcrs -> Measurements]
    PROVE  BootOK(u, b)
<1> USE DEF BootCalls
<1> DEFINE k == o.at
<1>0. k \in Nat /\ u.at = k + 1
  BY DEF Effects, Operations
<1>1. CASE k <= b
  BY <1>0, <1>1 DEF Effects, BootOK
<1>2. CASE k = b + 1
  <2>1. CurrentPcrDigest(tpm.name) \in [tpm.name -> Measurements]
    BY ReadingTypes
  <2> QED
    BY <1>0, <1>2, <2>1 DEF Effects, BootOK
<1>3. CASE k = b + 2
  BY <1>0, <1>3 DEF Effects, BootOK
<1>4. CASE k = b + 3
  <2>1. /\ u.session = Append(<<>>, PolicyPcr(o.read))
        /\ u.read = o.read /\ u.platform = o.platform /\ u.approved = o.approved
    BY <1>0, <1>4 DEF Effects, BootOK
  <2>2. u.session = PcrPolicy(o.read)
    BY <2>1, AppendToNone DEF PcrPolicy
  <2>3. o.at > b + 1 /\ o.at \in (b + 2)..(b + 4) /\ o.at <= b + 4
    BY <1>0, <1>4
  <2>4. o.platform \in [tpm.name -> Measurements] /\ o.read = o.platform /\ o.approved = <<>>
    BY <2>3 DEF BootOK
  <2>5. u.session = PcrPolicy(u.platform)
    BY <2>1, <2>2, <2>4
  <2>6. u.at # b + 3 /\ ~(u.at > b + 4)
    BY <1>0, <1>4
  <2> QED
    BY <2>1, <2>4, <2>5, <2>6 DEF BootOK
<1>5. CASE k = b + 4
  BY <1>0, <1>5 DEF Effects, BootOK
<1>6. CASE k > b + 4
  <2>1. o.approved = PcrPolicy(o.platform) /\ o.platform \in [tpm.name -> Measurements]
    BY <1>0, <1>6 DEF BootOK
  <2>a. PcrPolicy(o.platform) # <<>>
    BY DEF PcrPolicy
  <2>2. u.platform = o.platform /\ u.approved = o.approved
    BY <1>0, <1>6, <2>1, <2>a DEF Effects
  <2> QED
    BY <1>0, <1>6, <2>1, <2>2 DEF BootOK
<1> QED
  BY <1>0, <1>1, <1>2, <1>3, <1>4, <1>5, <1>6

\* Where the commands of sign_recovery_policy and of the authorized policy are.
AuthorizeCalls(call, k, s, a, d) ==
    /\ s < a /\ a + 1 < d
    /\ call = "sign_policy" <=> k = s
    /\ call = "get_approved" => k < s
    /\ k = a => call = "policy_authorize"
    /\ k \in (a + 1)..(d - 2) => call = "flush_authority"
    /\ k = d - 1 => call = "policy_command_code"
    /\ call = "get_digest" <=> k = d

\* They make a signature of the approved policy, and the authorized policy.
LEMMA AuthorizeStep ==
    ASSUME NEW o \in Operations, NEW u, NEW call, NEW s \in Nat, NEW a \in Nat, NEW d \in Nat,
           AuthorizeOK(o, s, a, d), Effects(o, u, o.at + 1, call),
           AuthorizeCalls(call, o.at, s, a, d)
    PROVE  AuthorizeOK(u, s, a, d)
<1> USE DEF AuthorizeCalls
<1> DEFINE k == o.at
<1>0. k \in Nat /\ u.at = k + 1 /\ u.cred = o.cred
  BY DEF Effects, Operations
<1>1. u.at > s => u.signature = PolicyWithRefHash(u.approved, u.cred)
  <2>1. CASE k = s
    <3>1. u.signature = ToSign(o) /\ u.approved = o.approved
      BY <1>0, <2>1 DEF Effects
    <3> QED
      BY <1>0, <3>1 DEF ToSign
  <2>2. CASE k > s
    <3>1. u.signature = o.signature /\ u.approved = o.approved
      BY <1>0, <2>2 DEF Effects
    <3> QED
      BY <1>0, <2>2, <3>1 DEF AuthorizeOK
  <2> QED
    BY <1>0, <2>1, <2>2
<1>2. u.at \in (a + 1)..(d - 1) => u.session = <<PolicyAuthorize(u.cred, u.cred)>>
  <2>1. CASE k = a
    BY <1>0, <2>1 DEF Effects
  <2>2. CASE k \in (a + 1)..(d - 2)
    <3>1. u.session = o.session
      BY <1>0, <2>2 DEF Effects
    <3>2. k \in (a + 1)..(d - 1)
      BY <1>0, <2>2
    <3> QED
      BY <1>0, <3>1, <3>2 DEF AuthorizeOK
  <2> QED
    BY <1>0, <2>1, <2>2
<1>3. u.at = d => u.session = AuthorizedPolicy(u.cred)
  <2>1. SUFFICES ASSUME k = d - 1 PROVE u.session = AuthorizedPolicy(u.cred)
    BY <1>0
  <2>2. k \in (a + 1)..(d - 1)
    BY <1>0, <2>1
  <2>3. o.session = <<PolicyAuthorize(u.cred, u.cred)>>
    BY <1>0, <2>2 DEF AuthorizeOK
  <2>4. u.session = Append(<<PolicyAuthorize(u.cred, u.cred)>>, PolicyCommandCode)
    BY <2>1, <2>3 DEF Effects
  <2> QED
    BY <2>4 DEF AuthorizedPolicy
<1>4. u.at > d => u.digest = AuthorizedPolicy(u.cred)
  <2>1. CASE k = d
    BY <1>0, <2>1 DEF Effects, AuthorizeOK
  <2>2. CASE k > d
    BY <1>0, <2>2 DEF Effects, AuthorizeOK
  <2> QED
    BY <1>0, <2>1, <2>2
<1> QED
  BY <1>1, <1>2, <1>3, <1>4 DEF AuthorizeOK

\* makeCredential with a recovery slot.
LEMMA MakingStep ==
    ASSUME NEW o \in Operations, NEW u, NEW call, MakingOK(o), o.at \in 1..29,
           MakingCall(call, o.at), Effects(o, u, o.at + 1, call),
           tpm \in [list : Selections, name : Selections],
           tpm.list = tpm.name, pcrs \in [Pcrs -> Measurements]
    PROVE  MakingOK(u)
<1> DEFINE k == o.at
<1>0. k \in 1..29 /\ u.at = k + 1 /\ u.cred = o.cred /\ u.auth = o.auth
  BY DEF Effects
<1>1. BootOK(u, 3)
  <2>1. BootCalls(call, o.at, 3)
    BY <1>0 DEF MakingCall, BootCalls
  <2>2. BootOK(o, 3)
    BY DEF MakingOK
  <2> QED
    BY <2>1, <2>2, BootStep
<1>2. AuthorizeOK(u, 11, 22, 25)
  <2>1. AuthorizeCalls(call, o.at, 11, 22, 25)
    BY <1>0 DEF MakingCall, AuthorizeCalls
  <2>2. AuthorizeOK(o, 11, 22, 25)
    BY DEF MakingOK
  <2> QED
    BY <2>1, <2>2, AuthorizeStep
<1>3. /\ u.at <= 2 => u.slot = None
      /\ u.at > 2 => u.slot = Slot(u.auth, u.auth, u.auth)
  <2>1. CASE k = 1
    BY <1>0, <2>1 DEF MakingCall, Effects, MakingOK
  <2>2. CASE k = 2
    BY <1>0, <2>2 DEF MakingCall, Effects
  <2>3. CASE k > 2
    <3>0. call \notin {"create_authority", "object_change_auth"}
      BY <1>0, <2>3 DEF MakingCall
    <3>1. u.slot = o.slot
      BY <3>0 DEF Effects
    <3> QED
      BY <1>0, <2>3, <3>1 DEF MakingOK
  <2> QED
    BY <1>0, <2>1, <2>2, <2>3
<1>4. u.at > 28 => u.key = AuthorizedPolicy(u.cred)
  <2>1. CASE k = 28
    BY <1>0, <2>1 DEF MakingCall, Effects, MakingOK, AuthorizeOK
  <2>2. CASE k = 29
    BY <1>0, <2>2 DEF MakingCall, Effects, MakingOK
  <2> QED
    BY <1>0, <2>1, <2>2
<1> QED
  BY <1>0, <1>1, <1>2, <1>3, <1>4 DEF MakingOK

\* makeCredential without one.
LEMMA MakingPlainStep ==
    ASSUME NEW o \in Operations, NEW u, NEW call, MakingPlainOK(o), o.at \in 1..8,
           MakingPlainCall(call, o.at), Effects(o, u, o.at + 1, call),
           tpm \in [list : Selections, name : Selections],
           tpm.list = tpm.name, pcrs \in [Pcrs -> Measurements]
    PROVE  MakingPlainOK(u)
<1> DEFINE k == o.at
<1>0. k \in 1..8 /\ u.at = k + 1
  BY DEF Effects
<1>1. BootOK(u, 0)
  <2>1. BootCalls(call, o.at, 0)
    BY <1>0 DEF MakingPlainCall, BootCalls
  <2>2. BootOK(o, 0)
    BY DEF MakingPlainOK
  <2> QED
    BY <2>1, <2>2, BootStep
<1>2. u.at > 4 => u.digest = PcrPolicy(u.platform)
  <2>1. CASE k = 4
    BY <1>0, <2>1 DEF MakingPlainCall, Effects, MakingPlainOK, BootOK
  <2>2. CASE k > 4
    BY <1>0, <2>2 DEF MakingPlainCall, Effects, MakingPlainOK
  <2> QED
    BY <1>0, <2>1, <2>2
<1>3. u.slot = None
  BY <1>0 DEF MakingPlainCall, Effects, MakingPlainOK
<1>4. u.at > 7 => u.key = PcrPolicy(u.platform)
  <2>1. CASE k = 7
    BY <1>0, <2>1 DEF MakingPlainCall, Effects, MakingPlainOK
  <2>2. CASE k > 7
    BY <1>0, <2>2 DEF MakingPlainCall, Effects, MakingPlainOK
  <2> QED
    BY <1>0, <2>1, <2>2
<1> QED
  BY <1>1, <1>2, <1>3, <1>4 DEF MakingPlainOK

\* update_authorized_policy.
LEMMA UpdatingStep ==
    ASSUME NEW o \in Operations, NEW u, NEW call, UpdatingOK(o), o.at \in 1..17,
           UpdatingCall(call, o.at), Effects(o, u, o.at + 1, call),
           tpm \in [list : Selections, name : Selections],
           tpm.list = tpm.name, pcrs \in [Pcrs -> Measurements]
    PROVE  UpdatingOK(u)
<1>0. o.at \in 1..17
  OBVIOUS
<1>1. BootOK(u, 0)
  <2>1. BootCalls(call, o.at, 0)
    BY <1>0 DEF UpdatingCall, BootCalls
  <2>2. BootOK(o, 0)
    BY DEF UpdatingOK
  <2> QED
    BY <2>1, <2>2, BootStep
<1>2. AuthorizeOK(u, 8, 13, 15)
  <2>1. AuthorizeCalls(call, o.at, 8, 13, 15)
    BY <1>0 DEF UpdatingCall, AuthorizeCalls
  <2>2. AuthorizeOK(o, 8, 13, 15)
    BY DEF UpdatingOK
  <2> QED
    BY <2>1, <2>2, AuthorizeStep
<1>3. u.slot = credentials[u.cred].recovery
  BY <1>0 DEF UpdatingCall, Effects, UpdatingOK
<1> QED
  BY <1>1, <1>2, <1>3 DEF UpdatingOK

\* change_key_auth.
LEMMA ChangingStep ==
    ASSUME NEW o \in Operations, NEW u, NEW call, ChangingOK(o), o.at \in 1..5,
           ChangingCall(call, o.at), Effects(o, u, o.at + 1, call),
           o.at <= 3 => o.slot \in Slots
    PROVE  ChangingOK(u)
<1> DEFINE k == o.at
<1>0. k \in 1..5 /\ u.at = k + 1 /\ u.cred = o.cred /\ u.auth = o.auth /\ u.auth \in Auths
  BY DEF Effects, ChangingOK
<1>1. CASE k <= 2
  BY <1>0, <1>1 DEF ChangingCall, Effects, ChangingOK
<1>2. CASE k = 3
  <2>1. u.slot = [o.slot EXCEPT !.private = o.auth] /\ o.slot \in Slots
    BY <1>0, <1>2 DEF ChangingCall, Effects
  <2>2. u.slot \in Slots /\ u.slot.private = u.auth
    BY <1>0, <2>1 DEF Slots
  <2> QED
    BY <1>0, <1>2, <2>2, NoneAssumption DEF ChangingOK
<1>3. CASE k > 3
  BY <1>0, <1>3 DEF ChangingCall, Effects, ChangingOK
<1> QED
  BY <1>0, <1>1, <1>2, <1>3

\* What create_secure_boot_policy has left behind.
LEMMA BootEnd ==
    ASSUME NEW o, NEW b \in Nat, BootOK(o, b), o.at \in Nat, o.at > b + 4
    PROVE  o.platform \in [tpm.name -> Measurements] /\ o.approved = PcrPolicy(o.platform)
<1>1. o.at > b + 1
  OBVIOUS
<1> QED
  BY <1>1 DEF BootOK

\* What sign_recovery_policy and the authorized policy have left behind.
LEMMA AuthorizeEnd ==
    ASSUME NEW o, NEW s, NEW a, NEW d, AuthorizeOK(o, s, a, d), o.at > s, o.at > d
    PROVE  /\ o.signature = PolicyWithRefHash(o.approved, o.cred)
           /\ o.digest = AuthorizedPolicy(o.cred)
  BY DEF AuthorizeOK

\* What makeCredential has when it returns, with a recovery slot.
LEMMA MakingEnd ==
    ASSUME NEW o, MakingOK(o), o.at = 30
    PROVE  /\ o.slot = Slot(o.auth, o.auth, o.auth) /\ o.auth \in Auths
           /\ o.platform \in [tpm.name -> Measurements] /\ o.approved = PcrPolicy(o.platform)
           /\ o.signature = PolicyWithRefHash(o.approved, o.cred)
           /\ o.digest = AuthorizedPolicy(o.cred) /\ o.key = AuthorizedPolicy(o.cred)
<1>1. o.at \in Nat /\ o.at > 2 /\ o.at > 3 + 4 /\ o.at > 11 /\ o.at > 25 /\ o.at > 28
  OBVIOUS
<1>2. BootOK(o, 3) /\ AuthorizeOK(o, 11, 22, 25)
  BY DEF MakingOK
<1>3. o.platform \in [tpm.name -> Measurements] /\ o.approved = PcrPolicy(o.platform)
  BY <1>1, <1>2, BootEnd
<1>4. /\ o.signature = PolicyWithRefHash(o.approved, o.cred)
      /\ o.digest = AuthorizedPolicy(o.cred)
  BY <1>1, <1>2, AuthorizeEnd
<1>5. /\ o.slot = Slot(o.auth, o.auth, o.auth) /\ o.auth \in Auths
      /\ o.key = AuthorizedPolicy(o.cred)
  BY <1>1 DEF MakingOK
<1> QED
  BY <1>3, <1>4, <1>5

\* And without one.
LEMMA MakingPlainEnd ==
    ASSUME NEW o, MakingPlainOK(o), o.at = 9
    PROVE  /\ o.slot = None /\ o.key = PcrPolicy(o.platform)
           /\ o.platform \in [tpm.name -> Measurements]
<1>1. o.at \in Nat /\ o.at > 0 + 4 /\ o.at > 7
  OBVIOUS
<1>2. BootOK(o, 0) /\ o.slot = None /\ o.key = PcrPolicy(o.platform)
  BY <1>1 DEF MakingPlainOK
<1>3. o.platform \in [tpm.name -> Measurements]
  BY <1>1, <1>2, BootEnd
<1> QED
  BY <1>2, <1>3

\* What update_authorized_policy has when it returns.
LEMMA UpdatingEnd ==
    ASSUME NEW o, UpdatingOK(o), o.at = 18
    PROVE  /\ o.platform \in [tpm.name -> Measurements] /\ o.approved = PcrPolicy(o.platform)
           /\ o.signature = PolicyWithRefHash(o.approved, o.cred)
           /\ o.digest = AuthorizedPolicy(o.cred)
<1>1. o.at \in Nat /\ o.at > 0 + 4 /\ o.at > 8 /\ o.at > 15
  OBVIOUS
<1>2. BootOK(o, 0) /\ AuthorizeOK(o, 8, 13, 15)
  BY DEF UpdatingOK
<1>3. o.platform \in [tpm.name -> Measurements] /\ o.approved = PcrPolicy(o.platform)
  BY <1>1, <1>2, BootEnd
<1>4. /\ o.signature = PolicyWithRefHash(o.approved, o.cred)
      /\ o.digest = AuthorizedPolicy(o.cred)
  BY <1>1, <1>2, AuthorizeEnd
<1> QED
  BY <1>3, <1>4

----------------------------------------------------------------------------
(* Room in the resource manager *)

\* What the steps need to know of the numbers of handles.
Counted ==
    /\ Cardinality({}) = 0
    /\ \A S \in SUBSET Handles : Cardinality(S) \in Nat
    /\ \A S, T \in SUBSET Handles : S \subseteq T => Cardinality(S) <= Cardinality(T)
    /\ \A S \in SUBSET Handles, x \in Handles : Cardinality(S \cup {x}) <= Cardinality(S) + 1

\* A method keeps its program and its positions from command to command.
LEMMA SameMethod ==
    ASSUME NEW o \in Operations, NEW u, u.method = o.method, u.recovery = o.recovery
    PROVE  /\ Program(u) = Program(o)
           /\ Parent(u) = Parent(o) /\ Authority(u) = Authority(o)
           /\ Session(u) = Session(o) /\ Key(u) = Key(o)
           /\ Making(u) <=> Making(o)
           /\ MakingPlain(u) <=> MakingPlain(o)
           /\ Signing(u) <=> Signing(o)
           /\ SigningPlain(u) <=> SigningPlain(o)
           /\ Updating(u) <=> Updating(o)
           /\ Changing(u) <=> Changing(o)
<1>1. /\ Making(u) <=> Making(o)
      /\ MakingPlain(u) <=> MakingPlain(o)
      /\ Signing(u) <=> Signing(o)
      /\ SigningPlain(u) <=> SigningPlain(o)
      /\ Updating(u) <=> Updating(o)
      /\ Changing(u) <=> Changing(o)
  BY DEF Making, MakingPlain, Signing, SigningPlain, Updating, Changing
<1>2. /\ Parent(u) = Parent(o) /\ Authority(u) = Authority(o)
      /\ Session(u) = Session(o) /\ Key(u) = Key(o)
  <2>1. Parent(u) = Parent(o)
    BY <1>1, Methods6 DEF Parent
  <2>2. Authority(u) = Authority(o)
    BY <1>1, Methods6 DEF Authority
  <2>3. Session(u) = Session(o)
    BY <1>1, Methods6 DEF Session
  <2>4. Key(u) = Key(o)
    BY <1>1, Methods6 DEF Key
  <2> QED
    BY <2>1, <2>2, <2>3, <2>4
<1>3. Program(u) = Program(o)
  <2>1. CASE Making(o)
    BY <2>1, <1>1 DEF Program, Making
  <2>2. CASE MakingPlain(o)
    BY <2>2, <1>1 DEF Program, MakingPlain
  <2>3. CASE Signing(o)
    BY <2>3, <1>1 DEF Program, Signing
  <2>4. CASE SigningPlain(o)
    BY <2>4, <1>1 DEF Program, SigningPlain
  <2>5. CASE Updating(o)
    BY <2>5, <1>1 DEF Program, Updating
  <2>6. CASE Changing(o)
    BY <2>6, <1>1 DEF Program, Changing
  <2> QED
    BY <2>1, <2>2, <2>3, <2>4, <2>5, <2>6, Methods6
<1> QED
  BY <1>1, <1>2, <1>3

\* Every method has at least one command.
LEMMA Lengths ==
    ASSUME NEW o \in Operations
    PROVE  Len(Program(o)) \in Nat \ {0}
BY Methods6, MakingCalls, MakingPlainCalls, SigningCalls, SigningPlainCalls, UpdatingCalls,
   ChangingCalls
   DEF MakingProgram, MakingPlainProgram, SigningProgram, SigningPlainProgram,
       UpdatingProgram, ChangingProgram

\* A method begins without handles.
LEMMA StartPositions ==
    ASSUME NEW o \in Operations
    PROVE  1 \notin Parent(o) /\ 1 \notin Authority(o) /\ 1 \notin Session(o) /\ 1 \notin Key(o)
<1>1. 1 \notin Parent(o)
  BY Methods6 DEF Parent
<1>2. 1 \notin Authority(o)
  BY Methods6 DEF Authority
<1>3. 1 \notin Session(o)
  BY Methods6 DEF Session
<1>4. 1 \notin Key(o)
  BY Methods6 DEF Key
<1> QED
  BY <1>1, <1>2, <1>3, <1>4

\* And all but sign_digest_with_policy end without.
LEMMA EndPositions ==
    ASSUME NEW o \in Operations, o.method # "sign", o.at = Len(Program(o)) + 1
    PROVE  o.at \notin Parent(o) \cup Authority(o) \cup Session(o) \cup Key(o)
<1>1. CASE Making(o)
  <2>0. MakingProgram(Program(o))
    BY <1>1, MakingCalls
  <2>1. o.at = 30
    BY <2>0 DEF MakingProgram
  <2> QED
    <3>1. o.at \notin Parent(o)
      BY <1>1, <2>1, MakingPositions
    <3>2. o.at \notin Authority(o)
      BY <1>1, <2>1, MakingPositions
    <3>3. o.at \notin Session(o) \cup Key(o)
      BY <1>1, <2>1, MakingPositions
    <3> QED
      BY <3>1, <3>2, <3>3
<1>2. CASE MakingPlain(o)
  <2>0. MakingPlainProgram(Program(o))
    BY <1>2, MakingPlainCalls
  <2>1. o.at = 9
    BY <2>0 DEF MakingPlainProgram
  <2> QED
    BY <1>2, <2>1, MakingPlainPositions
<1>3. CASE Updating(o)
  <2>0. UpdatingProgram(Program(o))
    BY <1>3, UpdatingCalls
  <2>1. o.at = 18
    BY <2>0 DEF UpdatingProgram
  <2> QED
    BY <1>3, <2>1, UpdatingPositions
<1>4. CASE Changing(o)
  <2>0. ChangingProgram(Program(o))
    BY <1>4, ChangingCalls
  <2>1. o.at = 6
    BY <2>0 DEF ChangingProgram
  <2> QED
    BY <1>4, <2>1, ChangingPositions
<1> QED
  BY <1>1, <1>2, <1>3, <1>4, Methods6 DEF Signing, SigningPlain

\* The command a method is at.
LEMMA CallsAt ==
    ASSUME NEW o, o.at \in 1..Len(Program(o))
    PROVE  /\ Making(o) => o.at \in 1..29 /\ MakingCall(Call(o), o.at)
           /\ MakingPlain(o) => o.at \in 1..8 /\ MakingPlainCall(Call(o), o.at)
           /\ Signing(o) => o.at \in 1..12 /\ SigningCall(Call(o), o.at)
           /\ SigningPlain(o) => o.at \in 1..6 /\ SigningPlainCall(Call(o), o.at)
           /\ Updating(o) => o.at \in 1..17 /\ UpdatingCall(Call(o), o.at)
           /\ Changing(o) => o.at \in 1..5 /\ ChangingCall(Call(o), o.at)
<1>1. ASSUME Making(o) PROVE o.at \in 1..29 /\ MakingCall(Call(o), o.at)
  <2>1. MakingProgram(Program(o))
    BY <1>1, MakingCalls
  <2> QED
    BY <2>1 DEF MakingProgram, Call
<1>2. ASSUME MakingPlain(o) PROVE o.at \in 1..8 /\ MakingPlainCall(Call(o), o.at)
  <2>1. MakingPlainProgram(Program(o))
    BY <1>2, MakingPlainCalls
  <2> QED
    BY <2>1 DEF MakingPlainProgram, Call
<1>3. ASSUME Signing(o) PROVE o.at \in 1..12 /\ SigningCall(Call(o), o.at)
  <2>1. SigningProgram(Program(o))
    BY <1>3, SigningCalls
  <2> QED
    BY <2>1 DEF SigningProgram, Call
<1>4. ASSUME SigningPlain(o) PROVE o.at \in 1..6 /\ SigningPlainCall(Call(o), o.at)
  <2>1. SigningPlainProgram(Program(o))
    BY <1>4, SigningPlainCalls
  <2> QED
    BY <2>1 DEF SigningPlainProgram, Call
<1>5. ASSUME Updating(o) PROVE o.at \in 1..17 /\ UpdatingCall(Call(o), o.at)
  <2>1. UpdatingProgram(Program(o))
    BY <1>5, UpdatingCalls
  <2> QED
    BY <2>1 DEF UpdatingProgram, Call
<1>6. ASSUME Changing(o) PROVE o.at \in 1..5 /\ ChangingCall(Call(o), o.at)
  <2>1. ChangingProgram(Program(o))
    BY <1>6, ChangingCalls
  <2> QED
    BY <2>1 DEF ChangingProgram, Call
<1> QED
  BY <1>1, <1>2, <1>3, <1>4, <1>5, <1>6

\* The local variables of a method that begins.
Started(method, c, auth, slot, key, signature, recovery) ==
    [method |-> method, cred |-> c, at |-> 1, recovery |-> recovery, auth |-> auth,
     slot |-> slot, key |-> key, signature |-> signature, read |-> <<>>, session |-> <<>>,
     approved |-> <<>>, digest |-> <<>>, ticket |-> NoSignature, fresh |-> TRUE,
     platform |-> <<>>]

\* They are of their types.
LEMMA StartedType ==
    ASSUME NEW method \in Methods, NEW c \in Credentials, NEW auth \in Auths \cup {None},
           NEW slot \in Slots \cup {None}, NEW key \in Digests, NEW signature \in Signatures,
           NEW recovery \in BOOLEAN
    PROVE  Started(method, c, auth, slot, key, signature, recovery) \in Operations
<1>1. <<>> \in Digests /\ <<>> \in Readings /\ NoSignature \in Signatures
  BY DigestTypes DEF Readings, NoSignature, PolicyWithRefHash, Signatures
<1> QED
  BY <1>1 DEF Started, Operations

=============================================================================
