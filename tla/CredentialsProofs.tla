------------------------- MODULE CredentialsProofs -------------------------
(***************************************************************************)
(* Invariance proofs for Credentials, for every set of ids, RPs and users, *)
(* every counter width, and whichever writes and loads fail: the signature *)
(* counter, and the credential management enumeration.                     *)
(***************************************************************************)
EXTENDS CredentialsDataProofs

----------------------------------------------------------------------------
(* What the commands keep between them *)

\* A command that drops the enumeration, or that leaves it and the list alone.
LEMMA ControlFrame ==
    ASSUME ControlInv,
           pending_assertion' = None \/ pending_assertion' \in PendingAssertion,
           session' \in Uids, pin_set' \in BOOLEAN,
           NEW cmd \in Commands, NEW status \in ErrorStatus, NEW id \in Ids \cup {None},
           reply' = [cmd |-> cmd, status |-> status, id |-> id],
           management' = None \/ UNCHANGED <<management, credentials>>
    PROVE  ControlInv'
  BY DEF ControlInv, OneEnumeration, EnumerationExact, RpIndexes, CredentialIndexes

\* An enumeration that begins or goes on.
LEMMA EnumerationFrame ==
    ASSUME ControlInv, NEW preview \in BOOLEAN, NEW state \in ManagementState,
           NEW status \in ErrorStatus,
           ManagementCommand(preview, state, "credentialManagement", status),
           credentials' = credentials,
           IF state.rp_id = None THEN state.credential_indexes = {}
           ELSE state.rp_indexes = {},
           state.listed \cap (state.rp_indexes \cup state.credential_indexes) = {},
           state.listed \cup state.rp_indexes \cup state.credential_indexes
              = IF state.rp_id = None THEN RpIndexes(credentials)
                ELSE CredentialIndexes(credentials, state.rp_id)
    PROVE  ControlInv'
<1>1. management' = state /\ UNCHANGED <<session, pin_set>>
  BY DEF ManagementCommand
<1>2. pending_assertion' = None \/ pending_assertion' \in PendingAssertion
  BY DEF ManagementCommand, PendingFor, ControlInv
<1>3. reply' \in [cmd : Commands, status : ErrorStatus, id : Ids \cup {None}]
  BY DEF ManagementCommand, Answer, Commands
<1>4. OneEnumeration'
  BY <1>1 DEF OneEnumeration
<1>5. EnumerationExact'
  BY <1>1 DEF EnumerationExact, RpIndexes, CredentialIndexes
<1> QED BY <1>1, <1>2, <1>3, <1>4, <1>5 DEF ControlInv

\* Indexes are positive numbers.
LEMMA IndexTypes ==
    ASSUME DataInv, NEW rp_id
    PROVE  /\ DOMAIN credentials \subseteq Nat \ {0}
           /\ RpIndexes(credentials) \subseteq Nat \ {0}
           /\ CredentialIndexes(credentials, rp_id) \subseteq Nat \ {0}
<1>1. DOMAIN credentials = 1..Len(credentials) /\ Len(credentials) \in Nat
  BY LenProperties DEF DataInv
<1> QED BY <1>1 DEF RpIndexes, CredentialIndexes

\* enumerateRPsBegin and enumerateCredentialsBegin open an enumeration of what is there.
LEMMA EnumerateBeginControl ==
    ASSUME IInv, NEW preview \in BOOLEAN, NEW i \in DOMAIN credentials,
           \/ EnumerateRpsBegin(preview, i)
           \/ \E rp_id \in RpIds : EnumerateCredentialsBegin(preview, rp_id, i)
    PROVE  ControlInv'
<1>1. CASE EnumerateRpsBegin(preview, i)
  <2> DEFINE state == [rp_indexes |-> RpIndexes(credentials) \ {i},
                       credential_indexes |-> {}, expired |-> FALSE, listed |-> {i},
                       rp_id |-> None]
  <2>1. state \in ManagementState /\ i \in RpIndexes(credentials)
    BY <1>1, IndexTypes DEF IInv, ManagementState, EnumerateRpsBegin, FirstOf
  <2>2. /\ ManagementCommand(preview, state, "credentialManagement", "Ok")
        /\ credentials' = credentials
    BY <1>1 DEF EnumerateRpsBegin
  <2>3. state.listed \cup state.rp_indexes \cup state.credential_indexes = RpIndexes(credentials)
    BY <2>1
  <2> QED BY <2>1, <2>2, <2>3, EnumerationFrame DEF IInv, ErrorStatus
<1>2. ASSUME NEW rp_id \in RpIds, EnumerateCredentialsBegin(preview, rp_id, i)
      PROVE  ControlInv'
  <2> DEFINE all   == CredentialIndexes(credentials, rp_id)
             state == [rp_indexes |-> {}, credential_indexes |-> all \ {i},
                       expired |-> FALSE, listed |-> {i}, rp_id |-> rp_id]
  <2>1. state \in ManagementState /\ i \in all
    BY <1>2, IndexTypes DEF IInv, ManagementState, EnumerateCredentialsBegin, FirstOf
  <2>2. /\ ManagementCommand(preview, state, "credentialManagement", "Ok")
        /\ credentials' = credentials
    BY <1>2 DEF EnumerateCredentialsBegin
  <2>3. state.listed \cup state.rp_indexes \cup state.credential_indexes = all
    BY <2>1
  <2>4. state.rp_id # None
    BY NoneAssumption
  <2> QED BY <2>1, <2>2, <2>3, <2>4, EnumerationFrame DEF IInv, ErrorStatus
<1> QED BY <1>1, <1>2


\* enumerate...GetNext moves one entry from what is left to what was listed.
LEMMA EnumerateNextControl ==
    ASSUME IInv, NEW i, EnumerateRpsNext(i) \/ EnumerateCredentialsNext(i)
    PROVE  ControlInv'
<1>1. management \in ManagementState /\ management # None
  BY DEF EnumerateRpsNext, EnumerateCredentialsNext, ManagementFor, IInv, ControlInv
<1>2. (IF i \in DOMAIN credentials THEN "Ok" ELSE "Panic") \in ErrorStatus
  BY DEF ErrorStatus
<1>3. CASE EnumerateRpsNext(i)
  <2> DEFINE state == [management EXCEPT !.rp_indexes = @ \ {i}, !.listed = @ \cup {i}]
  <2>1. i \in management.rp_indexes
    BY <1>3 DEF EnumerateRpsNext, FirstOf
  <2>2. management.rp_id = None /\ management.credential_indexes = {}
    BY <1>1, <2>1 DEF IInv, ControlInv, OneEnumeration
  <2>3. /\ state \in ManagementState
        /\ state.rp_indexes = management.rp_indexes \ {i}
        /\ state.listed = management.listed \cup {i}
        /\ state.credential_indexes = {} /\ state.rp_id = None
    BY <1>1, <2>1, <2>2 DEF ManagementState
  <2>4. state.listed \cap (state.rp_indexes \cup state.credential_indexes) = {}
    BY <1>1, <2>3 DEF IInv, ControlInv, EnumerationExact
  <2>5. state.listed \cup state.rp_indexes \cup state.credential_indexes = RpIndexes(credentials)
    BY <1>1, <2>1, <2>2, <2>3 DEF IInv, ControlInv, EnumerationExact
  <2>6. /\ ManagementCommand(FALSE, state, "credentialManagement",
                             IF i \in DOMAIN credentials THEN "Ok" ELSE "Panic")
        /\ credentials' = credentials
    BY <1>3 DEF EnumerateRpsNext
  <2> HIDE DEF state
  <2> QED BY <1>2, <2>3, <2>4, <2>5, <2>6, EnumerationFrame DEF IInv
<1>4. CASE EnumerateCredentialsNext(i)
  <2> DEFINE state == [management EXCEPT !.credential_indexes = @ \ {i},
                                         !.listed = @ \cup {i}]
  <2>1. i \in management.credential_indexes
    BY <1>4 DEF EnumerateCredentialsNext, FirstOf
  <2>2. management.rp_id # None /\ management.rp_indexes = {}
    BY <1>1, <2>1 DEF IInv, ControlInv, OneEnumeration
  <2>3. /\ state \in ManagementState
        /\ state.credential_indexes = management.credential_indexes \ {i}
        /\ state.listed = management.listed \cup {i}
        /\ state.rp_indexes = {} /\ state.rp_id = management.rp_id
    BY <1>1, <2>1, <2>2 DEF ManagementState
  <2>4. state.listed \cap (state.rp_indexes \cup state.credential_indexes) = {}
    BY <1>1, <2>3 DEF IInv, ControlInv, EnumerationExact
  <2>5. state.listed \cup state.rp_indexes \cup state.credential_indexes
          = CredentialIndexes(credentials, state.rp_id)
    BY <1>1, <2>1, <2>2, <2>3 DEF IInv, ControlInv, EnumerationExact
  <2>6. /\ ManagementCommand(FALSE, state, "credentialManagement",
                             IF i \in DOMAIN credentials THEN "Ok" ELSE "Panic")
        /\ credentials' = credentials
    BY <1>4 DEF EnumerateCredentialsNext
  <2> HIDE DEF state
  <2> QED BY <1>2, <2>2, <2>3, <2>4, <2>5, <2>6, EnumerationFrame DEF IInv
<1> QED BY <1>3, <1>4

\* The 30 seconds of a pending assertion or an enumeration pass: it is only marked.
LEMMA ExpiryControl ==
    ASSUME IInv, PendingExpires \/ ManagementExpires
    PROVE  ControlInv'
<1>1. CASE PendingExpires
  <2>1. pending_assertion' \in PendingAssertion
    BY <1>1 DEF PendingExpires, IInv, ControlInv, PendingAssertion
  <2>2. UNCHANGED <<management, credentials, session, pin_set>>
    BY <1>1 DEF PendingExpires
  <2>3. reply' = [cmd |-> "clock", status |-> "Ok", id |-> None]
    BY <1>1 DEF PendingExpires, Answer
  <2> QED BY <2>1, <2>2, <2>3, ControlFrame DEF IInv, ControlInv, Commands, ErrorStatus
<1>2. CASE ManagementExpires
  <2>1. management \in ManagementState /\ management # None
    BY <1>2 DEF ManagementExpires, IInv, ControlInv
  <2>2. /\ management' \in ManagementState
        /\ management'.rp_indexes = management.rp_indexes
        /\ management'.credential_indexes = management.credential_indexes
        /\ management'.listed = management.listed
        /\ management'.rp_id = management.rp_id
    BY <1>2, <2>1 DEF ManagementExpires, ManagementState
  <2>3. UNCHANGED <<pending_assertion, credentials, session, pin_set>>
    BY <1>2 DEF ManagementExpires
  <2>4. reply' \in [cmd : Commands, status : ErrorStatus, id : Ids \cup {None}]
    BY <1>2 DEF ManagementExpires, Answer, Commands, ErrorStatus
  <2>5. OneEnumeration'
    BY <2>1, <2>2 DEF IInv, ControlInv, OneEnumeration
  <2>6. EnumerationExact'
    <3>1. RpIndexes(credentials)' = RpIndexes(credentials)
      BY <2>3 DEF RpIndexes
    <3>2. CredentialIndexes(credentials, management.rp_id)'
            = CredentialIndexes(credentials, management.rp_id)
      BY <2>2, <2>3 DEF CredentialIndexes
    <3> QED BY <2>1, <2>2, <3>1, <3>2 DEF IInv, ControlInv, EnumerationExact
  <2> QED BY <2>2, <2>3, <2>4, <2>5, <2>6 DEF IInv, ControlInv
<1> QED BY <1>1, <1>2


----------------------------------------------------------------------------
(* The step *)

\* What CounterAdvances says of one step.
Advances ==
    \A id \in Ids :
        /\ released'[id] >= released[id]
        /\ reply'.id = id => \/ released'[id] > released[id]
                             \/ released'[id] = MAX_SIGN_COUNT

\* A step that releases no counter asserts no credential.
LEMMA Quiet ==
    ASSUME DataInv, UNCHANGED released, NEW cmd, NEW status,
           reply' = [cmd |-> cmd, status |-> status, id |-> None]
    PROVE  Advances
<1>1. \A id \in Ids : id # None /\ released[id] \in Nat
  BY NoneAssumption, CountAssumption DEF DataInv
<1>2. /\ reply'.id = None
      /\ \A id \in Ids : released'[id] >= released[id]
  BY <1>1
<1> QED BY <1>1, <1>2 DEF Advances

\* Steps that change neither the credentials, nor the store, nor their histories.
LEMMA NoDataStep ==
    ASSUME IInv, UNCHANGED <<credentials, store, registered, released>>,
           pending_assertion' = None \/ pending_assertion' \in PendingAssertion,
           session' \in Uids, pin_set' \in BOOLEAN,
           NEW cmd \in Commands, NEW status \in ErrorStatus,
           reply' = [cmd |-> cmd, status |-> status, id |-> None],
           management' = None \/ UNCHANGED management
    PROVE  IInv' /\ Advances
  BY DataStutter, ControlFrame, Quiet DEF IInv

\* makeCredential keeps IInv and signs nothing with an old counter.
LEMMA RegistrationStep == ASSUME IInv, RegistrationNext PROVE IInv' /\ Advances
<1>1. ASSUME NEW status \in Refusals, MakeCredentialRefused(status) PROVE IInv' /\ Advances
  BY <1>1, NoDataStep DEF MakeCredentialRefused, ClearPending, Answer, Refusals, IInv,
     ControlInv, Commands, ErrorStatus
<1>2. ASSUME NEW rp_id, NEW exclude, MakeCredentialExcluded(rp_id, exclude)
      PROVE  IInv' /\ Advances
  BY <1>2, NoDataStep DEF MakeCredentialExcluded, ClearPending, Answer, IInv, ControlInv,
     Commands, ErrorStatus
<1>3. ASSUME NEW id \in Ids, NEW rp_id \in RpIds, NEW discoverable \in BOOLEAN,
             NEW user \in UserInfos, NEW exclude, NEW committed \in BOOLEAN,
             MakeCredential(id, rp_id, discoverable, user, exclude, committed)
      PROVE  IInv' /\ Advances
  <2>1. DataInv'
    BY <1>3, MakeCredentialData
  <2>2. /\ pending_assertion' = None /\ management' = None
        /\ UNCHANGED <<session, pin_set, released>>
        /\ reply' = [cmd |-> "makeCredential", status |-> "Ok", id |-> None]
    BY <1>3 DEF MakeCredential, ClearPending, Answer
  <2> QED BY <2>1, <2>2, ControlFrame, Quiet DEF IInv, ControlInv, Commands, ErrorStatus
<1> QED BY <1>1, <1>2, <1>3 DEF RegistrationNext

\* The list an assertion signs from: reloaded, or the one in memory.
LEMMA SignStep ==
    ASSUME IInv, NEW cmd \in Commands, NEW creds \in Seq(Credential), NEW i \in DOMAIN creds,
           NEW ok, UniqueIds(creds),
           \A k \in DOMAIN creds : /\ released[creds[k].id] <= creds[k].sign_count
                                   /\ registered[creds[k].id] # "free",
           SignAndCount(cmd, creds, i, ok),
           UNCHANGED <<session, pin_set, registered>>, management' = None,
           pending_assertion' = None \/ pending_assertion' \in PendingAssertion
    PROVE  IInv' /\ Advances
<1>1. /\ DataInv'
      /\ reply' = [cmd |-> cmd, status |-> "OperationDenied", id |-> None]
         \/ /\ reply' = [cmd |-> cmd, status |-> "Ok", id |-> creds[i].id]
            /\ \/ released'[creds[i].id] > released[creds[i].id]
               \/ released'[creds[i].id] = MAX_SIGN_COUNT
      /\ \A x \in Ids : released'[x] >= released[x]
  BY SignAndCountData DEF IInv
<1>2. creds[i] \in Credential
  BY LenProperties
<1>3. creds[i].id \in Ids
  BY <1>2 DEF Credential
<1>4. ControlInv'
  <2>1. ControlInv /\ session' \in Uids /\ pin_set' \in BOOLEAN
    BY DEF IInv, ControlInv
  <2>2. PICK status \in ErrorStatus, id \in Ids \cup {None} :
          reply' = [cmd |-> cmd, status |-> status, id |-> id]
    BY <1>1, <1>3 DEF ErrorStatus
  <2> QED BY <2>1, <2>2, ControlFrame
<1>5. Advances
  <2> SUFFICES ASSUME NEW x \in Ids, reply'.id = x
               PROVE  released'[x] > released[x] \/ released'[x] = MAX_SIGN_COUNT
    BY <1>1 DEF Advances
  <2>1. CASE reply' = [cmd |-> cmd, status |-> "OperationDenied", id |-> None]
    BY <2>1, NoneAssumption
  <2>2. CASE reply' = [cmd |-> cmd, status |-> "Ok", id |-> creds[i].id]
    <3>1. x = creds[i].id
      BY <2>2
    <3>2. CASE reply' = [cmd |-> cmd, status |-> "OperationDenied", id |-> None]
      BY <3>2, NoneAssumption
    <3> QED BY <1>1, <3>1, <3>2
  <2> QED BY <1>1, <2>1, <2>2
<1> QED BY <1>1, <1>4, <1>5 DEF IInv


\* getAssertion and getNextAssertion keep IInv and advance the counter they sign.
LEMMA AssertionStep == ASSUME IInv, AssertionNext PROVE IInv' /\ Advances
<1>1. ASSUME NEW status \in Refusals, GetAssertionRefused(status) PROVE IInv' /\ Advances
  BY <1>1, NoDataStep DEF GetAssertionRefused, ClearPending, Answer, Refusals, IInv,
     ControlInv, Commands, ErrorStatus
<1>2. ASSUME NEW rp_id \in RpIds, NEW allow, NEW loaded \in LoadCredentials(session),
             GetAssertionDeclined(rp_id, allow, loaded)
      PROVE  IInv' /\ Advances
  <2>1. session \in Uids
    BY DEF IInv, ControlInv
  <2>2. DataInv'
    BY <1>2, <2>1, ReloadData DEF IInv, GetAssertionDeclined
  <2>3. PICK status \in ErrorStatus :
          reply' = [cmd |-> "getAssertion", status |-> status, id |-> None]
    BY <1>2 DEF GetAssertionDeclined, Answer, ErrorStatus
  <2>4. /\ pending_assertion' = None /\ management' = None
        /\ UNCHANGED <<session, pin_set, released>>
    BY <1>2 DEF GetAssertionDeclined, ClearPending
  <2> QED BY <2>2, <2>3, <2>4, ControlFrame, Quiet DEF IInv, ControlInv, Commands
<1>3. ASSUME NEW rp_id \in RpIds, NEW allow, NEW loaded \in LoadCredentials(session),
             NEW i \in DOMAIN loaded, NEW ok, GetAssertion(rp_id, allow, loaded, i, ok)
      PROVE  IInv' /\ Advances
  <2>1. session \in Uids
    BY DEF IInv, ControlInv
  <2>2. /\ loaded \in Seq(Credential)
        /\ UniqueIds(loaded)
        /\ \A k \in DOMAIN loaded : loaded[k] \in store
    BY <2>1, LoadProperties DEF IInv
  <2>3. \A k \in DOMAIN loaded : /\ released[loaded[k].id] <= loaded[k].sign_count
                                 /\ registered[loaded[k].id] # "free"
    BY <2>2 DEF IInv, DataInv, CounterPersisted, FreshIds, Credential
  <2>4. DOMAIN loaded \subseteq Nat \ {0}
    BY <2>2, LenProperties
  <2>5. pending_assertion' = None \/ pending_assertion' \in PendingAssertion
    BY <1>3, <2>4 DEF GetAssertion, MatchingIndexes, PendingAssertion
  <2>6. /\ SignAndCount("getAssertion", loaded, i, ok) /\ management' = None
        /\ UNCHANGED <<session, pin_set, registered>>
    BY <1>3 DEF GetAssertion
  <2> QED BY <2>2, <2>3, <2>5, <2>6, SignStep DEF Commands
<1>4. ASSUME NEW status \in {"InvalidCbor", "NoCredentials", "OperationDenied"},
             GetNextAssertionRefused(status)
      PROVE  IInv' /\ Advances
  BY <1>4, NoDataStep DEF GetNextAssertionRefused, Answer, IInv, ControlInv, Commands,
     ErrorStatus
<1>5. ASSUME NEW i, NEW ok, GetNextAssertion(i, ok) PROVE IInv' /\ Advances
  <2>1. /\ management' = None
        /\ UNCHANGED <<session, pin_set, registered>>
    BY <1>5 DEF GetNextAssertion
  <2>2. pending_assertion \in PendingAssertion
    BY <1>5 DEF GetNextAssertion, IInv, ControlInv
  <2>3. pending_assertion' = None \/ pending_assertion' \in PendingAssertion
    BY <1>5, <2>2 DEF GetNextAssertion, PendingAssertion
  <2>4. CASE /\ i \in DOMAIN credentials
             /\ SignAndCount("getNextAssertion", credentials, i, ok)
    <3>1. \A k \in DOMAIN credentials : credentials[k].id \in Ids
      <4>1. \A k \in DOMAIN credentials : credentials[k] \in Credential
        BY LenProperties DEF IInv, DataInv
      <4> QED BY <4>1 DEF Credential
    <3>2. \A k \in DOMAIN credentials :
             /\ released[credentials[k].id] <= credentials[k].sign_count
             /\ registered[credentials[k].id] # "free"
      BY <3>1 DEF IInv, DataInv, CounterPersisted, FreshIds
    <3> QED BY <2>1, <2>3, <2>4, <3>2, SignStep DEF IInv, DataInv, Commands
  <2>5. CASE /\ Answer("getNextAssertion", "Panic", None)
             /\ UNCHANGED <<credentials, store, released>>
    BY <2>1, <2>3, <2>5, NoDataStep DEF Answer, IInv, ControlInv, Commands, ErrorStatus
  <2> QED BY <1>5, <2>4, <2>5 DEF GetNextAssertion
<1> QED BY <1>1, <1>2, <1>3, <1>4, <1>5 DEF AssertionNext

\* credentialManagement keeps IInv and signs nothing.
LEMMA ManagementStep == ASSUME IInv, ManagementNext PROVE IInv' /\ Advances
<1>1. ASSUME NEW preview \in BOOLEAN, NEW status \in Refusals \cup {"PinNotSet"},
             ManagementRefused(preview, status)
      PROVE  IInv' /\ Advances
  BY <1>1, NoDataStep DEF ManagementRefused, PendingFor, Answer, Refusals, IInv, ControlInv,
     Commands, ErrorStatus
<1>2. ASSUME NEW preview \in BOOLEAN, NEW status \in {"Ok", "NoCredentials", "InvalidParameter"},
             ManagementNoChange(preview, status)
      PROVE  IInv' /\ Advances
  BY <1>2, NoDataStep DEF ManagementNoChange, ManagementCommand, ManagementFor, PendingFor,
     Answer, IInv, ControlInv, Commands, ErrorStatus
<1>3. ASSUME NEW preview \in BOOLEAN, NEW i \in DOMAIN credentials,
             \/ EnumerateRpsBegin(preview, i)
             \/ \E rp_id \in RpIds : EnumerateCredentialsBegin(preview, rp_id, i)
      PROVE  IInv' /\ Advances
  <2>1. /\ UNCHANGED <<credentials, store, registered, released>>
        /\ reply' = [cmd |-> "credentialManagement", status |-> "Ok", id |-> None]
    BY <1>3 DEF EnumerateRpsBegin, EnumerateCredentialsBegin, ManagementCommand, Answer
  <2> QED BY <1>3, <2>1, EnumerateBeginControl, DataStutter, Quiet DEF IInv
<1>4. ASSUME NEW i, EnumerateRpsNext(i) \/ EnumerateCredentialsNext(i)
      PROVE  IInv' /\ Advances
  <2>1. /\ UNCHANGED <<credentials, store, registered, released>>
        /\ reply' = [cmd |-> "credentialManagement",
                     status |-> IF i \in DOMAIN credentials THEN "Ok" ELSE "Panic",
                     id |-> None]
    BY <1>4 DEF EnumerateRpsNext, EnumerateCredentialsNext, ManagementCommand, Answer
  <2> QED BY <1>4, <2>1, EnumerateNextControl, DataStutter, Quiet DEF IInv
<1>5. ASSUME NEW preview \in BOOLEAN, NEW i \in DOMAIN credentials, NEW committed \in BOOLEAN,
             DeleteCredential(preview, i, committed)
      PROVE  IInv' /\ Advances
  <2>1. DataInv' /\ UNCHANGED released
    BY <1>5, DeleteCredentialData
  <2>2. PICK status \in {"Ok", "OperationDenied"} :
          reply' = [cmd |-> "delete", status |-> status, id |-> None]
    BY <1>5 DEF DeleteCredential, Answer
  <2>3. /\ UNCHANGED <<session, pin_set>>
        /\ pending_assertion' = None \/ pending_assertion' \in PendingAssertion
        /\ management' = None \/ UNCHANGED <<management, credentials>>
    BY <1>5 DEF DeleteCredential, PendingFor, ManagementFor, IInv, ControlInv
  <2>4. Advances
    BY <2>1, <2>2, Quiet DEF IInv
  <2>5. ControlInv /\ session' \in Uids /\ pin_set' \in BOOLEAN
    BY <2>3 DEF IInv, ControlInv
  <2>6. "delete" \in Commands /\ status \in ErrorStatus
    BY <2>2 DEF Commands, ErrorStatus
  <2>7. ControlInv'
    BY <2>2, <2>3, <2>5, <2>6, ControlFrame
  <2> QED BY <2>1, <2>4, <2>7 DEF IInv
<1>6. ASSUME NEW preview \in BOOLEAN, NEW i \in DOMAIN credentials, NEW user \in UserInfos,
             NEW committed \in BOOLEAN, UpdateUserInformation(preview, i, user, committed)
      PROVE  IInv' /\ Advances
  <2>1. DataInv' /\ UNCHANGED released
    BY <1>6, UpdateUserInformationData
  <2>2. /\ reply' = [cmd |-> "credentialManagement", status |-> "Ok", id |-> None]
        /\ UNCHANGED <<session, pin_set>> /\ management' = None
        /\ pending_assertion' = None \/ pending_assertion' \in PendingAssertion
    BY <1>6 DEF UpdateUserInformation, ManagementCommand, PendingFor, Answer, IInv, ControlInv
  <2> QED BY <2>1, <2>2, ControlFrame, Quiet DEF IInv, ControlInv, Commands, ErrorStatus
<1> QED BY <1>1, <1>2, <1>3, <1>4, <1>5, <1>6 DEF ManagementNext


\* Reset, restart, time and the TPM commands of the management socket keep IInv.
LEMMA DaemonStep == ASSUME IInv, DaemonNext PROVE IInv' /\ Advances
<1>1. ASSUME NEW cmd \in {"makeCredential", "getAssertion", "getNextAssertion",
                          "credentialManagement"}, Blocked(cmd)
      PROVE  IInv' /\ Advances
  BY <1>1, NoDataStep DEF Blocked, Answer, IInv, ControlInv, Commands, ErrorStatus
<1>2. ASSUME NEW pin \in BOOLEAN, OtherCommand(pin) PROVE IInv' /\ Advances
  BY <1>2, NoDataStep DEF OtherCommand, ClearPending, Answer, IInv, ControlInv, Commands,
     ErrorStatus
<1>3. CASE UnimplementedCommand
  BY <1>3, NoDataStep DEF UnimplementedCommand, ClearPending, Answer, IInv, ControlInv,
     Commands, ErrorStatus
<1>4. CASE ResetRefused
  BY <1>4, NoDataStep DEF ResetRefused, ClearPending, Answer, IInv, ControlInv, Commands,
     ErrorStatus
<1>5. ASSUME NEW failed \in SUBSET Ids, Reset(failed) PROVE IInv' /\ Advances
  <2>1. DataInv' /\ UNCHANGED released
    BY <1>5, ResetData
  <2>2. /\ reply' = [cmd |-> "reset", status |-> "Ok", id |-> None]
        /\ pin_set' \in BOOLEAN /\ UNCHANGED session
        /\ pending_assertion' = None /\ management' = None
    BY <1>5 DEF Reset, ClearPending, Answer
  <2> QED BY <2>1, <2>2, ControlFrame, Quiet DEF IInv, ControlInv, Commands, ErrorStatus
<1>6. CASE CancelPending
  BY <1>6, NoDataStep DEF CancelPending, ClearPending, Answer, IInv, ControlInv, Commands,
     ErrorStatus
<1>7. CASE PendingExpires \/ ManagementExpires
  <2>1. /\ UNCHANGED <<credentials, store, registered, released>>
        /\ reply' = [cmd |-> "clock", status |-> "Ok", id |-> None]
    BY <1>7 DEF PendingExpires, ManagementExpires, Answer
  <2> QED BY <1>7, <2>1, ExpiryControl, DataStutter, Quiet DEF IInv
<1>8. ASSUME NEW uid \in Uids, NEW pin_loaded \in BOOLEAN, NEW loaded \in LoadCredentials(uid),
             Restart(uid, loaded, pin_loaded)
      PROVE  IInv' /\ Advances
  <2>1. DataInv'
    BY <1>8, ReloadData DEF IInv, Restart
  <2>2. /\ reply' = [cmd |-> "start", status |-> "Ok", id |-> None]
        /\ session' = uid /\ pin_set' \in BOOLEAN /\ UNCHANGED released
        /\ pending_assertion' = None /\ management' = None
    BY <1>8 DEF Restart, ClearPending, Answer
  <2> QED BY <2>1, <2>2, ControlFrame, Quiet DEF IInv, ControlInv, Commands, ErrorStatus
<1>9. ASSUME NEW row \in store, PcrPolicyUpdate(row) \/ PassphraseChange(row)
      PROVE  IInv' /\ Advances
  <2>1. row \in Credential
    BY DEF IInv, DataInv
  <2>2. PICK updated \in Credential :
          /\ TpmCommand(row, updated)
          /\ updated.id = row.id /\ updated.sign_count = row.sign_count
    BY <1>9, <2>1, CountAssumption DEF PcrPolicyUpdate, PassphraseChange, Credential
  <2>3. DataInv' /\ UNCHANGED released
    BY <2>2, TpmCommandData
  <2>4. /\ reply' = [cmd |-> "tpm", status |-> "Ok", id |-> None]
        /\ UNCHANGED <<credentials, pending_assertion, management, session, pin_set>>
    BY <2>2 DEF TpmCommand, Answer
  <2> QED BY <2>3, <2>4, ControlFrame, Quiet DEF IInv, ControlInv, Commands, ErrorStatus
<1> QED BY <1>1, <1>2, <1>3, <1>4, <1>5, <1>6, <1>7, <1>8, <1>9 DEF DaemonNext

\* Every step of the daemon keeps IInv and lets no counter go back.
LEMMA NextStep == IInv /\ Next => IInv' /\ Advances
  BY RegistrationStep, AssertionStep, ManagementStep, DaemonStep DEF Next

\* A daemon that starts with an empty store satisfies IInv.
LEMMA InitInv == Init => IInv
<1> SUFFICES ASSUME Init PROVE IInv
  OBVIOUS
<1>1. credentials \in Seq(Credential) /\ DOMAIN credentials = {}
  BY EmptyList DEF Init
<1>2. store = {} /\ IsFiniteSet(store)
  BY FS_EmptySet DEF Init
<1>3. DataInv
  BY <1>1, <1>2, CountAssumption
     DEF Init, DataInv, UniqueRows, UniqueIds, FreshIds, CounterPersisted
<1>4. ControlInv
  BY DEF Init, ControlInv, OneEnumeration, EnumerationExact, Commands, ErrorStatus
<1> QED BY <1>3, <1>4 DEF IInv

\* A step of something else keeps IInv.
LEMMA StutterInv == IInv /\ UNCHANGED vars => IInv'
<1> SUFFICES ASSUME IInv, UNCHANGED vars PROVE IInv'
  OBVIOUS
<1>1. DataInv'
  BY DataStutter DEF IInv, vars
<1>2. ControlInv'
  BY DEF vars, IInv, ControlInv, OneEnumeration, EnumerationExact, RpIndexes, CredentialIndexes
<1> QED BY <1>1, <1>2 DEF IInv

\* The inductive invariant holds in every reachable state.
THEOREM Invariance == Spec => []IInv
<1>1. IInv /\ [Next]_vars => IInv'
  BY NextStep, StutterInv
<1> QED BY <1>1, InitInv, PTL DEF Spec

\* Every variable of the credential component keeps its type.
THEOREM TypeCorrect == Spec => []TypeOK
<1>1. IInv => TypeOK
  BY DEF IInv, DataInv, ControlInv, TypeOK
<1> QED BY <1>1, Invariance, PTL

\* No row and no credential in memory falls behind a counter a client was given
\* (get_assertion, update_sign_count, save_credentials), whichever writes fail.
THEOREM CountersPersist == Spec => []CounterPersisted
<1>1. IInv => CounterPersisted
  BY DEF IInv, DataInv
<1> QED BY <1>1, Invariance, PTL

\* An open enumeration lists exactly the discoverable credentials in memory, whatever
\* commands come between its steps (credential_management, handle_cbor).
THEOREM EnumerationsExact == Spec => []EnumerationExact
<1>1. IInv => EnumerationExact
  BY DEF IInv, ControlInv
<1> QED BY <1>1, Invariance, PTL

\* Every assertion carries a larger counter than the last one of its credential, or
\* the largest there is (get_assertion, get_next_assertion).
THEOREM CountersAdvance == Spec => CounterAdvances
<1>1. IInv /\ [Next]_vars =>
        [\A id \in Ids :
            /\ released'[id] >= released[id]
            /\ reply'.id = id => \/ released'[id] > released[id]
                                 \/ released'[id] = MAX_SIGN_COUNT]_vars
  BY NextStep DEF Advances
<1> QED BY <1>1, Invariance, PTL DEF Spec, CounterAdvances

----------------------------------------------------------------------------
(* The pending assertion *)

\* Signing changes a counter, and nothing else of the list it signs from.
LEMMA SignKeeps ==
    ASSUME NEW cmd, NEW creds \in Seq(Credential), NEW i \in DOMAIN creds, NEW ok,
           SignAndCount(cmd, creds, i, ok)
    PROVE  /\ DOMAIN credentials' = DOMAIN creds
           /\ \A k \in DOMAIN creds : /\ credentials'[k].id = creds[k].id
                                      /\ credentials'[k].rp_id = creds[k].rp_id
                                      /\ credentials'[k].user = creds[k].user
                                      /\ credentials'[k].user_id = creds[k].user_id
<1>1. CASE credentials' = creds
  BY <1>1
<1>2. ASSUME NEW n, credentials' = [creds EXCEPT ![i] = [@ EXCEPT !.sign_count = n]]
      PROVE  /\ DOMAIN credentials' = DOMAIN creds
             /\ \A k \in DOMAIN creds : /\ credentials'[k].id = creds[k].id
                                        /\ credentials'[k].rp_id = creds[k].rp_id
                                        /\ credentials'[k].user = creds[k].user
                                        /\ credentials'[k].user_id = creds[k].user_id
  <2>1. creds[i] \in Credential
    BY LenProperties
  <2>2. PICK c : c = [creds[i] EXCEPT !.sign_count = n]
    OBVIOUS
  <2>3. /\ c.id = creds[i].id /\ c.rp_id = creds[i].rp_id
        /\ c.user = creds[i].user /\ c.user_id = creds[i].user_id
    BY <2>1, <2>2 DEF Credential
  <2>4. credentials' = [creds EXCEPT ![i] = c]
    BY <1>2, <2>2
  <2>5. DOMAIN credentials' = DOMAIN creds
    BY <2>4
  <2>6. \A k \in DOMAIN creds : credentials'[k] = IF k = i THEN c ELSE creds[k]
    BY <2>4
  <2> QED
    BY <2>3, <2>5, <2>6
<1> QED
  BY <1>1, <1>2 DEF SignAndCount

\* update_user_information changes a user's data, and nothing else of the list.
LEMMA UpdateKeeps ==
    ASSUME NEW preview, NEW i \in DOMAIN credentials, NEW user, NEW committed,
           credentials \in Seq(Credential), UpdateUserInformation(preview, i, user, committed)
    PROVE  /\ DOMAIN credentials' = DOMAIN credentials
           /\ \A k \in DOMAIN credentials :
                 /\ credentials'[k].id = credentials[k].id
                 /\ credentials'[k].rp_id = credentials[k].rp_id
                 /\ credentials'[k].user_id = credentials[k].user_id
<1>1. credentials[i] \in Credential
  BY LenProperties
<1>2. PICK c : c = [credentials[i] EXCEPT !.user = user]
  OBVIOUS
<1>3. /\ c.id = credentials[i].id /\ c.rp_id = credentials[i].rp_id
      /\ c.user_id = credentials[i].user_id
  BY <1>1, <1>2 DEF Credential
<1>4. credentials' = [credentials EXCEPT ![i] = c]
  BY <1>2 DEF UpdateUserInformation
<1>5. DOMAIN credentials' = DOMAIN credentials
  BY <1>4
<1>6. \A k \in DOMAIN credentials : credentials'[k] = IF k = i THEN c ELSE credentials[k]
  BY <1>4
<1> QED
  BY <1>3, <1>5, <1>6

\* Steps that drop the pending assertion, or leave it and the list alone.
LEMMA PendingFrame ==
    ASSUME PendingFresh,
           pending_assertion' = None \/ UNCHANGED <<pending_assertion, credentials>>
    PROVE  PendingFresh'
  BY DEF PendingFresh

\* Steps that keep some of the indexes, and the RPs of the list.
LEMMA PendingRest ==
    ASSUME NEW creds, NEW rp_id, NEW indexes,
           \A k \in indexes : k \in DOMAIN creds /\ creds[k].rp_id = rp_id,
           DOMAIN credentials' = DOMAIN creds,
           \A k \in DOMAIN creds : credentials'[k].rp_id = creds[k].rp_id,
           \/ pending_assertion' = None
           \/ /\ pending_assertion'.rp_id = rp_id
              /\ pending_assertion'.credential_indexes \subseteq indexes
    PROVE  PendingFresh'
  BY DEF PendingFresh

\* What a management subcommand that is no delete leaves pending.
LEMMA PendingManaged ==
    ASSUME NEW preview, pending_assertion' = PendingFor(preview)
    PROVE  pending_assertion' = None \/ pending_assertion' = pending_assertion
  BY DEF PendingFor

\* Every step but a delete leaves the pending indexes their meaning.
LEMMA PendingStep ==
    ASSUME IInv, Next, PendingFresh, reply'.cmd # "delete"
    PROVE  PendingFresh'
<1>c. credentials \in Seq(Credential)
  BY DEF IInv, DataInv
<1>1. CASE RegistrationNext
  <2>1. pending_assertion' = None
    BY <1>1 DEF RegistrationNext, MakeCredentialRefused, MakeCredentialExcluded,
       MakeCredential, ClearPending
  <2> QED
    BY <2>1, PendingFrame
<1>2. ASSUME NEW status, GetAssertionRefused(status) \/ GetNextAssertionRefused(status)
      PROVE  PendingFresh'
  <2>1. pending_assertion' = None \/ UNCHANGED <<pending_assertion, credentials>>
    BY <1>2 DEF GetAssertionRefused, GetNextAssertionRefused, ClearPending
  <2> QED
    BY <2>1, PendingFrame
<1>3. ASSUME NEW rp_id, NEW allow, NEW loaded, GetAssertionDeclined(rp_id, allow, loaded)
      PROVE  PendingFresh'
  <2>1. pending_assertion' = None
    BY <1>3 DEF GetAssertionDeclined, ClearPending
  <2> QED
    BY <2>1, PendingFrame
<1>4. ASSUME NEW rp_id, NEW allow, NEW loaded \in LoadCredentials(session),
             NEW i \in DOMAIN loaded, NEW ok, GetAssertion(rp_id, allow, loaded, i, ok)
      PROVE  PendingFresh'
  <2>m. PICK matching : matching = MatchingIndexes(loaded, rp_id, allow)
    OBVIOUS
  <2>1. loaded \in Seq(Credential)
    BY LoadProperties DEF IInv, ControlInv
  <2>2. /\ SignAndCount("getAssertion", loaded, i, ok)
        /\ \/ pending_assertion' = None
           \/ pending_assertion' = [rp_id |-> rp_id, credential_indexes |-> matching \ {i},
                                    expired |-> FALSE]
    BY <1>4, <2>m DEF GetAssertion
  <2>3. /\ DOMAIN credentials' = DOMAIN loaded
        /\ \A k \in DOMAIN loaded : credentials'[k].rp_id = loaded[k].rp_id
    BY <2>1, <2>2, SignKeeps
  <2>4. \A k \in matching : k \in DOMAIN loaded /\ loaded[k].rp_id = rp_id
    BY <2>m DEF MatchingIndexes
  <2>5. \/ pending_assertion' = None
        \/ /\ pending_assertion'.rp_id = rp_id
           /\ pending_assertion'.credential_indexes \subseteq matching
    BY <2>2
  <2> QED
    BY <2>3, <2>4, <2>5, PendingRest
<1>5. ASSUME NEW i, NEW ok, GetNextAssertion(i, ok)
      PROVE  PendingFresh'
  <2>p. PICK rp_id, indexes : /\ rp_id = pending_assertion.rp_id
                              /\ indexes = pending_assertion.credential_indexes
    OBVIOUS
  <2>1. \/ pending_assertion' = None
        \/ pending_assertion' = [rp_id |-> rp_id, credential_indexes |-> indexes \ {i},
                                 expired |-> FALSE]
    BY <1>5, <2>p DEF GetNextAssertion
  <2>2. \A k \in indexes : k \in DOMAIN credentials /\ credentials[k].rp_id = rp_id
    BY <1>5, <2>p DEF GetNextAssertion, PendingFresh
  <2>3. /\ DOMAIN credentials' = DOMAIN credentials
        /\ \A k \in DOMAIN credentials : credentials'[k].rp_id = credentials[k].rp_id
    <3>1. CASE i \in DOMAIN credentials /\ SignAndCount("getNextAssertion", credentials, i, ok)
      BY <1>c, <3>1, SignKeeps
    <3>2. CASE credentials' = credentials
      BY <3>2
    <3> QED
      BY <1>5, <3>1, <3>2 DEF GetNextAssertion
  <2>4. \/ pending_assertion' = None
        \/ /\ pending_assertion'.rp_id = rp_id
           /\ pending_assertion'.credential_indexes \subseteq indexes
    BY <2>1
  <2> QED
    BY <2>2, <2>3, <2>4, PendingRest
<1>6. ASSUME NEW preview, NEW status,
             ManagementRefused(preview, status) \/ ManagementNoChange(preview, status)
      PROVE  PendingFresh'
  <2>1. pending_assertion' = PendingFor(preview) /\ credentials' = credentials
    BY <1>6 DEF ManagementRefused, ManagementNoChange, ManagementCommand
  <2> QED
    BY <2>1, PendingManaged, PendingFrame
<1>7. ASSUME NEW preview, NEW i,
             \/ EnumerateRpsBegin(preview, i)
             \/ \E rp_id \in RpIds : EnumerateCredentialsBegin(preview, rp_id, i)
      PROVE  PendingFresh'
  <2>1. pending_assertion' = PendingFor(preview) /\ credentials' = credentials
    BY <1>7 DEF EnumerateRpsBegin, EnumerateCredentialsBegin, ManagementCommand
  <2> QED
    BY <2>1, PendingManaged, PendingFrame
<1>8. ASSUME NEW i, EnumerateRpsNext(i) \/ EnumerateCredentialsNext(i)
      PROVE  PendingFresh'
  <2>1. pending_assertion' = PendingFor(FALSE) /\ credentials' = credentials
    BY <1>8 DEF EnumerateRpsNext, EnumerateCredentialsNext, ManagementCommand
  <2> QED
    BY <2>1, PendingManaged, PendingFrame
<1>9. ASSUME NEW preview, NEW i, NEW committed, DeleteCredential(preview, i, committed)
      PROVE  PendingFresh'
  BY <1>9 DEF DeleteCredential, Answer
<1>10. ASSUME NEW preview, NEW i \in DOMAIN credentials, NEW user \in UserInfos, NEW committed,
              UpdateUserInformation(preview, i, user, committed)
       PROVE  PendingFresh'
  <2>1. pending_assertion' = None \/ pending_assertion' = pending_assertion
    BY <1>10, PendingManaged DEF UpdateUserInformation, ManagementCommand
  <2>2. CASE pending_assertion' = None
    BY <2>2, PendingFrame
  <2>3. CASE pending_assertion' = pending_assertion /\ pending_assertion # None
    <3>1. /\ DOMAIN credentials' = DOMAIN credentials
          /\ \A k \in DOMAIN credentials : credentials'[k].rp_id = credentials[k].rp_id
      BY <1>c, <1>10, UpdateKeeps
    <3>2. \A k \in pending_assertion.credential_indexes :
             k \in DOMAIN credentials /\ credentials[k].rp_id = pending_assertion.rp_id
      BY <2>3 DEF PendingFresh
    <3> QED
      BY <2>3, <3>1, <3>2, PendingRest
  <2> QED
    BY <2>1, <2>2, <2>3
<1>11. CASE ManagementNext
  BY <1>6, <1>7, <1>8, <1>9, <1>10, <1>11 DEF ManagementNext
<1>12. CASE DaemonNext
  <2>1. CASE PendingExpires
    <3>1. pending_assertion \in PendingAssertion
      BY <2>1 DEF PendingExpires, IInv, ControlInv
    <3>2. /\ pending_assertion'.rp_id = pending_assertion.rp_id
          /\ pending_assertion'.credential_indexes = pending_assertion.credential_indexes
      BY <2>1, <3>1 DEF PendingExpires, PendingAssertion
    <3>3. credentials' = credentials /\ pending_assertion # None
      BY <2>1 DEF PendingExpires
    <3> QED
      BY <3>2, <3>3 DEF PendingFresh
  <2>2. CASE ~PendingExpires
    <3>1. pending_assertion' = None \/ UNCHANGED <<pending_assertion, credentials>>
      BY <1>12, <2>2 DEF DaemonNext, Blocked, OtherCommand, UnimplementedCommand, ResetRefused,
         Reset, CancelPending, ManagementExpires, Restart, PcrPolicyUpdate, PassphraseChange,
         TpmCommand, ClearPending
    <3> QED
      BY <3>1, PendingFrame
  <2> QED
    BY <2>1, <2>2
<1>13. CASE AssertionNext
  BY <1>2, <1>3, <1>4, <1>5, <1>13 DEF AssertionNext
<1> QED
  BY <1>1, <1>11, <1>12, <1>13 DEF Next

\* Whatever else reloads, rewrites or clears the credentials (get_assertion,
\* make_credential, update_user_information, reset, a restart, the management thread)
\* drops the pending assertion or keeps what its indexes mean: only a delete does not.
THEOREM PendingIsKept == Spec => PendingKept
<1>1. IInv /\ [Next]_vars => [PendingFresh /\ reply'.cmd # "delete" => PendingFresh']_vars
  BY PendingStep
<1> QED
  BY <1>1, Invariance, PTL DEF Spec, PendingKept

----------------------------------------------------------------------------
(* A store that works *)

\* No write and no load reports an error.
WorkingStore == ~StoreMayFail /\ ~LoadMayFail

OneUser == \A u, v \in Uids : u = v

\* A credential in memory and its row.
Mirrors(c, r) ==
    /\ c.id = r.id /\ c.sign_count = r.sign_count
    /\ c.user = r.user /\ c.user_id = r.user_id

\* The list holds the rows of one user, and no other credential.
Cached(creds, rows, uid) ==
    /\ \A k \in DOMAIN creds : creds[k].user_id = uid /\ \E r \in rows : Mirrors(creds[k], r)
    /\ \A r \in rows : r.user_id = uid => \E k \in DOMAIN creds : Mirrors(creds[k], r)

CacheInv == Cached(credentials, store, session)

\* That is what CacheCoherent says.
LEMMA CachedCoherent == ASSUME CacheInv PROVE CacheCoherent
<1> DEFINE A == {<<c.id, c.sign_count, c.user>> : c \in Range(credentials)}
           B == {<<r.id, r.sign_count, r.user>> : r \in {x \in store : x.user_id = session}}
<1>1. ASSUME NEW c \in Range(credentials) PROVE <<c.id, c.sign_count, c.user>> \in B
  <2>1. PICK k \in DOMAIN credentials : c = credentials[k]
    BY DEF Range
  <2>2. PICK r \in store : Mirrors(c, r) /\ c.user_id = session
    BY <2>1 DEF CacheInv, Cached
  <2> QED
    BY <2>2 DEF Mirrors
<1>2. ASSUME NEW r \in store, r.user_id = session PROVE <<r.id, r.sign_count, r.user>> \in A
  <2>1. PICK k \in DOMAIN credentials : Mirrors(credentials[k], r)
    BY <1>2 DEF CacheInv, Cached
  <2>2. credentials[k] \in Range(credentials)
    BY DEF Range
  <2> QED
    BY <2>1, <2>2 DEF Mirrors
<1> QED
  BY <1>1, <1>2 DEF CacheCoherent

\* A load that does not fail returns every row of the user.
LEMMA LoadedAll ==
    ASSUME WorkingStore, DataInv, NEW uid \in Uids, NEW loaded \in LoadCredentials(uid)
    PROVE  Cached(loaded, store, uid)
<1>r. PICK rows : rows = {r \in store : r.user_id = uid}
  OBVIOUS
<1>1. loaded \in Bijection(1..Cardinality(rows), rows)
  BY <1>r DEF WorkingStore, LoadCredentials
<1>3. loaded \in [1..Cardinality(rows) -> rows]
  BY <1>1 DEF Bijection, Surjection
<1>7. ASSUME NEW r \in rows PROVE \E k \in DOMAIN loaded : loaded[k] = r
  BY <1>1, <1>3 DEF Bijection, Surjection
<1>8. \A k \in DOMAIN loaded : loaded[k] \in store /\ loaded[k].user_id = uid
  BY <1>3, <1>r
<1>9. \A c : Mirrors(c, c)
  BY DEF Mirrors
<1>10. \A r \in store : r.user_id = uid => \E k \in DOMAIN loaded : loaded[k] = r
  BY <1>7, <1>r
<1> QED
  BY <1>8, <1>9, <1>10 DEF Cached

\* save_credentials leaves the table as the credentials in memory are.
LEMMA SavedAll ==
    ASSUME WorkingStore, NEW committed, SaveCredentials(credentials', committed),
           \A k \in DOMAIN credentials' : credentials'[k].user_id = session'
    PROVE  CacheInv' /\ \A k \in DOMAIN credentials' : credentials'[k] \in store'
<1>1. store' = Range(credentials')
  BY DEF WorkingStore, SaveCredentials
<1>2. \A k \in DOMAIN credentials' : credentials'[k] \in store'
  BY <1>1 DEF Range
<1>3. \A r \in store' : \E k \in DOMAIN credentials' : credentials'[k] = r
  BY <1>1 DEF Range
<1>4. \A c : Mirrors(c, c)
  BY DEF Mirrors
<1> QED
  BY <1>2, <1>3, <1>4 DEF CacheInv, Cached

\* The counter is written to the list and to the row of the same credential.
LEMMA SignedCached ==
    ASSUME DataInv, NEW cmd, NEW creds \in Seq(Credential), NEW i \in DOMAIN creds, NEW ok,
           UniqueIds(creds), Cached(creds, store, session),
           SignAndCount(cmd, creds, i, ok), UNCHANGED session
    PROVE  CacheInv' /\ StoredIds \subseteq StoredIds'
<1>1. CASE credentials' = creds /\ store' = store
  BY <1>1 DEF CacheInv, StoredIds
<1>2. ASSUME NEW n, store' = UpdateSignCount(creds[i].id, n),
             credentials' = [creds EXCEPT ![i] = [@ EXCEPT !.sign_count = n]]
      PROVE  CacheInv' /\ StoredIds \subseteq StoredIds'
  <2>c. \A k \in DOMAIN creds : creds[k] \in Credential
    BY LenProperties
  <2>x. PICK id, c : id = creds[i].id /\ c = [creds[i] EXCEPT !.sign_count = n]
    OBVIOUS
  <2>1. /\ c.id = id /\ c.user = creds[i].user /\ c.user_id = creds[i].user_id
        /\ c.sign_count = n
    BY <2>c, <2>x DEF Credential
  <2>2. credentials' = [creds EXCEPT ![i] = c]
    BY <1>2, <2>x
  <2>3. /\ DOMAIN credentials' = DOMAIN creds
        /\ \A k \in DOMAIN creds : credentials'[k] = IF k = i THEN c ELSE creds[k]
    BY <2>2
  <2>4. ASSUME NEW r \in store
        PROVE  \E q \in store' : /\ q.id = r.id /\ q.user = r.user /\ q.user_id = r.user_id
                                 /\ q.sign_count = IF r.id = id THEN n ELSE r.sign_count
    <3>1. r \in Credential
      BY DEF DataInv
    <3>2. PICK q : q = IF r.id = id THEN [r EXCEPT !.sign_count = n] ELSE r
      OBVIOUS
    <3>3. q \in store'
      BY <1>2, <2>x, <3>2 DEF UpdateSignCount
    <3>4. /\ q.id = r.id /\ q.user = r.user /\ q.user_id = r.user_id
          /\ q.sign_count = IF r.id = id THEN n ELSE r.sign_count
      BY <3>1, <3>2 DEF Credential
    <3> QED
      BY <3>3, <3>4
  <2>5. ASSUME NEW q \in store'
        PROVE  \E r \in store : /\ q.id = r.id /\ q.user = r.user /\ q.user_id = r.user_id
                                /\ q.sign_count = IF r.id = id THEN n ELSE r.sign_count
    <3>1. PICK r \in store : q = IF r.id = id THEN [r EXCEPT !.sign_count = n] ELSE r
      BY <1>2, <2>x DEF UpdateSignCount
    <3>2. r \in Credential
      BY DEF DataInv
    <3> QED
      BY <3>1, <3>2 DEF Credential
  <2>6. \A k \in DOMAIN creds : creds[k].id = id <=> k = i
    BY <2>x DEF UniqueIds
  <2>7. ASSUME NEW k \in DOMAIN creds
        PROVE  /\ credentials'[k].user_id = session
               /\ \E q \in store' : Mirrors(credentials'[k], q)
    <3>1. PICK r \in store : Mirrors(creds[k], r) /\ creds[k].user_id = session
      BY DEF Cached
    <3>2. PICK q \in store' : /\ q.id = r.id /\ q.user = r.user /\ q.user_id = r.user_id
                              /\ q.sign_count = IF r.id = id THEN n ELSE r.sign_count
      BY <2>4
    <3>3. CASE k = i
      <4>1. r.id = id /\ q.sign_count = n
        BY <2>x, <3>1, <3>2, <3>3 DEF Mirrors
      <4>2. Mirrors(c, q) /\ c.user_id = session
        BY <2>1, <3>1, <3>2, <3>3, <4>1 DEF Mirrors
      <4> QED
        BY <2>3, <3>3, <4>2
    <3>4. CASE k # i
      <4>1. r.id # id /\ q.sign_count = r.sign_count
        BY <2>6, <3>1, <3>2, <3>4 DEF Mirrors
      <4>2. Mirrors(creds[k], q)
        BY <3>1, <3>2, <4>1 DEF Mirrors
      <4> QED
        BY <2>3, <3>1, <3>4, <4>2
    <3> QED
      BY <3>3, <3>4
  <2>8. ASSUME NEW q \in store', q.user_id = session
        PROVE  \E k \in DOMAIN creds : Mirrors(credentials'[k], q)
    <3>1. PICK r \in store : /\ q.id = r.id /\ q.user = r.user /\ q.user_id = r.user_id
                             /\ q.sign_count = IF r.id = id THEN n ELSE r.sign_count
      BY <2>5
    <3>2. PICK k \in DOMAIN creds : Mirrors(creds[k], r)
      BY <2>8, <3>1 DEF Cached
    <3>3. CASE k = i
      <4>1. r.id = id /\ q.sign_count = n
        BY <2>x, <3>1, <3>2, <3>3 DEF Mirrors
      <4>2. Mirrors(c, q)
        BY <2>1, <3>1, <3>2, <3>3, <4>1 DEF Mirrors
      <4> QED
        BY <2>3, <3>3, <4>2
    <3>4. CASE k # i
      <4>1. r.id # id /\ q.sign_count = r.sign_count
        BY <2>6, <3>1, <3>2, <3>4 DEF Mirrors
      <4>2. Mirrors(creds[k], q)
        BY <3>1, <3>2, <4>1 DEF Mirrors
      <4> QED
        BY <2>3, <3>4, <4>2
    <3> QED
      BY <3>3, <3>4
  <2>9. StoredIds \subseteq StoredIds'
    BY <2>4 DEF StoredIds
  <2> QED
    BY <2>3, <2>7, <2>8, <2>9 DEF CacheInv, Cached
<1> QED
  BY <1>1, <1>2 DEF SignAndCount

\* delete_credential takes the row and the credential with its id.
LEMMA DeletedCached ==
    ASSUME DataInv, CacheInv, NEW preview, NEW i \in DOMAIN credentials, NEW committed,
           DeleteCredential(preview, i, committed)
    PROVE  CacheInv'
<1>s. session' = session
  BY DEF DeleteCredential
<1>1. CASE credentials' = credentials /\ store' = store
  BY <1>s, <1>1 DEF CacheInv
<1>2. CASE /\ credentials' = RemoveAt(credentials, i)
           /\ store' = {r \in store : r.id # credentials[i].id}
  <2>1. /\ credentials \in Seq(Credential) /\ Len(credentials) \in Nat
        /\ DOMAIN credentials = 1..Len(credentials)
    BY LenProperties DEF DataInv
  <2>2. /\ DOMAIN credentials' = 1..(Len(credentials) - 1)
        /\ \A j \in 1..(Len(credentials) - 1) :
              credentials'[j] = IF j < i THEN credentials[j] ELSE credentials[j + 1]
    BY <1>2, <2>1, RemoveAtProperties
  <2>3. ASSUME NEW j \in DOMAIN credentials'
        PROVE  \E k \in DOMAIN credentials : k # i /\ credentials'[j] = credentials[k]
    <3>1. CASE j < i
      BY <2>1, <2>2, <3>1
    <3>2. CASE ~(j < i)
      <4>1. j + 1 \in DOMAIN credentials /\ j + 1 # i
        BY <2>1, <2>2, <3>2
      <4> QED
        BY <2>2, <3>2, <4>1
    <3> QED
      BY <3>1, <3>2
  <2>4. ASSUME NEW k \in DOMAIN credentials, k # i
        PROVE  \E j \in DOMAIN credentials' : credentials'[j] = credentials[k]
    <3>1. CASE k < i
      <4>1. k \in 1..(Len(credentials) - 1)
        BY <2>1, <3>1
      <4> QED
        BY <2>2, <3>1, <4>1
    <3>2. CASE k > i
      <4>1. k - 1 \in 1..(Len(credentials) - 1) /\ ~(k - 1 < i) /\ (k - 1) + 1 = k
        BY <2>1, <3>2
      <4> QED
        BY <2>2, <4>1
    <3> QED
      BY <2>1, <2>4, <3>1, <3>2
  <2>5. \A k \in DOMAIN credentials : credentials[k].id = credentials[i].id => k = i
    BY DEF DataInv, UniqueIds
  <2>6. ASSUME NEW j \in DOMAIN credentials'
        PROVE  /\ credentials'[j].user_id = session
               /\ \E r \in store' : Mirrors(credentials'[j], r)
    <3>1. PICK k \in DOMAIN credentials : k # i /\ credentials'[j] = credentials[k]
      BY <2>3
    <3>2. PICK r \in store : Mirrors(credentials[k], r) /\ credentials[k].user_id = session
      BY DEF CacheInv, Cached
    <3>3. r.id # credentials[i].id
      BY <2>5, <3>1, <3>2 DEF Mirrors
    <3> QED
      BY <1>2, <3>1, <3>2, <3>3
  <2>7. ASSUME NEW r \in store', r.user_id = session
        PROVE  \E j \in DOMAIN credentials' : Mirrors(credentials'[j], r)
    <3>1. r \in store /\ r.id # credentials[i].id
      BY <1>2
    <3>2. PICK k \in DOMAIN credentials : Mirrors(credentials[k], r)
      BY <2>7, <3>1 DEF CacheInv, Cached
    <3>3. k # i
      BY <3>1, <3>2 DEF Mirrors
    <3>4. PICK j \in DOMAIN credentials' : credentials'[j] = credentials[k]
      BY <2>4, <3>3
    <3> QED
      BY <3>2, <3>4
  <2> QED
    BY <1>s, <2>6, <2>7 DEF CacheInv, Cached
<1> QED
  BY <1>1, <1>2 DEF DeleteCredential

\* reset leaves no row of the session's user.
LEMMA ResetCached ==
    ASSUME WorkingStore, CacheInv, NEW failed, Reset(failed)
    PROVE  CacheInv' /\ \A r \in store' : r \in store /\ r.user_id # session
<1>1. failed = {}
  BY DEF WorkingStore, Reset
<1>2. store' = {r \in store : r.id \notin CachedIds} /\ credentials' = <<>> /\ session' = session
  BY <1>1 DEF Reset
<1>3. ASSUME NEW r \in store, r.user_id = session PROVE r.id \in CachedIds
  <2>1. PICK k \in DOMAIN credentials : Mirrors(credentials[k], r)
    BY <1>3 DEF CacheInv, Cached
  <2>2. credentials[k] \in Range(credentials)
    BY DEF Range
  <2> QED
    BY <2>1, <2>2 DEF Mirrors, CachedIds
<1>4. \A r \in store' : r \in store /\ r.user_id # session
  BY <1>2, <1>3
<1>5. DOMAIN credentials' = {}
  BY <1>2, EmptyList
<1> QED
  BY <1>2, <1>4, <1>5 DEF CacheInv, Cached

\* The management thread rewrites what the list does not mirror.
LEMMA TpmCached ==
    ASSUME CacheInv, NEW row \in store, NEW updated, TpmCommand(row, updated),
           updated.id = row.id, updated.sign_count = row.sign_count,
           updated.user = row.user, updated.user_id = row.user_id
    PROVE  CacheInv' /\ StoredIds \subseteq StoredIds'
<1>1. store' = (store \ {row}) \cup {updated} /\ UNCHANGED <<credentials, session>>
  BY DEF TpmCommand
<1>2. \A r \in store : \E q \in store' : /\ q.id = r.id /\ q.sign_count = r.sign_count
                                         /\ q.user = r.user /\ q.user_id = r.user_id
  BY <1>1
<1>3. \A q \in store' : \E r \in store : /\ q.id = r.id /\ q.sign_count = r.sign_count
                                         /\ q.user = r.user /\ q.user_id = r.user_id
  BY <1>1
<1>4. ASSUME NEW k \in DOMAIN credentials
      PROVE  credentials[k].user_id = session /\ \E q \in store' : Mirrors(credentials[k], q)
  BY <1>2 DEF CacheInv, Cached, Mirrors
<1>5. ASSUME NEW q \in store', q.user_id = session
      PROVE  \E k \in DOMAIN credentials : Mirrors(credentials[k], q)
  <2>1. PICK r \in store : /\ q.id = r.id /\ q.sign_count = r.sign_count
                           /\ q.user = r.user /\ q.user_id = r.user_id
    BY <1>3
  <2>2. PICK k \in DOMAIN credentials : Mirrors(credentials[k], r)
    BY <1>5, <2>1 DEF CacheInv, Cached
  <2> QED
    BY <2>1, <2>2 DEF Mirrors
<1>6. StoredIds \subseteq StoredIds'
  BY <1>2 DEF StoredIds
<1> QED
  BY <1>1, <1>4, <1>5, <1>6 DEF CacheInv, Cached

\* What a step does to the credentials: nothing that matters here, or one of these.
Changes ==
    \/ UNCHANGED <<credentials, store, session, registered>>
    \/ /\ session' \in Uids /\ credentials' \in LoadCredentials(session')
       /\ UNCHANGED <<store, registered>>
    \/ \E id \in Ids, rp_id \in RpIds, discoverable \in BOOLEAN, user \in UserInfos,
          exclude \in ExcludeLists, committed \in BOOLEAN :
           MakeCredential(id, rp_id, discoverable, user, exclude, committed)
    \/ \E loaded \in LoadCredentials(session) : \E i \in DOMAIN loaded, ok \in BOOLEAN :
           /\ SignAndCount("getAssertion", loaded, i, ok)
           /\ UNCHANGED <<session, registered>>
    \/ \E i \in DOMAIN credentials, ok \in BOOLEAN :
           /\ SignAndCount("getNextAssertion", credentials, i, ok)
           /\ UNCHANGED <<session, registered>>
    \/ \E preview \in BOOLEAN, i \in DOMAIN credentials, committed \in BOOLEAN :
           DeleteCredential(preview, i, committed)
    \/ \E preview \in BOOLEAN, i \in DOMAIN credentials, user \in UserInfos,
          committed \in BOOLEAN : UpdateUserInformation(preview, i, user, committed)
    \/ \E failed \in SUBSET Ids : Reset(failed)
    \/ \E row \in store : PcrPolicyUpdate(row) \/ PassphraseChange(row)

\* Every command of handle_cbor and every TPM command of the main loop is one of these.
LEMMA StepChanges == ASSUME IInv, Next PROVE Changes
<1>1. CASE RegistrationNext
  <2>1. ASSUME NEW status, MakeCredentialRefused(status) PROVE Changes
    BY <2>1 DEF MakeCredentialRefused, Changes
  <2>2. ASSUME NEW rp_id, NEW exclude, MakeCredentialExcluded(rp_id, exclude) PROVE Changes
    BY <2>2 DEF MakeCredentialExcluded, Changes
  <2>3. ASSUME NEW id \in Ids, NEW rp_id \in RpIds, NEW discoverable \in BOOLEAN,
               NEW user \in UserInfos, NEW exclude \in ExcludeLists, NEW committed \in BOOLEAN,
               MakeCredential(id, rp_id, discoverable, user, exclude, committed)
        PROVE  Changes
    BY <2>3 DEF Changes
  <2> QED
    BY <1>1, <2>1, <2>2, <2>3 DEF RegistrationNext
<1>2. CASE AssertionNext
  <2>1. ASSUME NEW status, GetAssertionRefused(status) \/ GetNextAssertionRefused(status)
        PROVE  Changes
    BY <2>1 DEF GetAssertionRefused, GetNextAssertionRefused, Changes
  <2>2. ASSUME NEW rp_id, NEW allow, NEW loaded \in LoadCredentials(session),
               GetAssertionDeclined(rp_id, allow, loaded)
        PROVE  Changes
    <3>1. credentials' = loaded /\ session' = session /\ UNCHANGED <<store, registered>>
      BY <2>2 DEF GetAssertionDeclined
    <3>2. session' \in Uids /\ credentials' \in LoadCredentials(session')
      BY <3>1 DEF IInv, ControlInv
    <3> QED
      BY <3>1, <3>2 DEF Changes
  <2>3. ASSUME NEW rp_id, NEW allow, NEW loaded \in LoadCredentials(session),
               NEW i \in DOMAIN loaded, NEW ok \in BOOLEAN,
               GetAssertion(rp_id, allow, loaded, i, ok)
        PROVE  Changes
    <3>1. SignAndCount("getAssertion", loaded, i, ok) /\ UNCHANGED <<session, registered>>
      BY <2>3 DEF GetAssertion
    <3> QED
      BY <3>1 DEF Changes
  <2>4. ASSUME NEW i, NEW ok \in BOOLEAN, GetNextAssertion(i, ok) PROVE Changes
    <3>1. CASE i \in DOMAIN credentials
      <4>1. /\ SignAndCount("getNextAssertion", credentials, i, ok)
            /\ UNCHANGED <<session, registered>>
        BY <2>4, <3>1 DEF GetNextAssertion
      <4> QED
        BY <3>1, <4>1 DEF Changes
    <3>2. CASE i \notin DOMAIN credentials
      BY <2>4, <3>2 DEF GetNextAssertion, Changes
    <3> QED
      BY <3>1, <3>2
  <2> QED
    BY <1>2, <2>1, <2>2, <2>3, <2>4 DEF AssertionNext
<1>3. CASE ManagementNext
  <2>1. ASSUME NEW preview, NEW status,
               ManagementRefused(preview, status) \/ ManagementNoChange(preview, status)
        PROVE  Changes
    BY <2>1 DEF ManagementRefused, ManagementNoChange, ManagementCommand, Changes
  <2>2. ASSUME NEW preview, NEW i,
               \/ EnumerateRpsBegin(preview, i)
               \/ \E rp_id \in RpIds : EnumerateCredentialsBegin(preview, rp_id, i)
               \/ EnumerateRpsNext(i) \/ EnumerateCredentialsNext(i)
        PROVE  Changes
    BY <2>2 DEF EnumerateRpsBegin, EnumerateCredentialsBegin, EnumerateRpsNext,
       EnumerateCredentialsNext, ManagementCommand, Changes
  <2>3. ASSUME NEW preview \in BOOLEAN, NEW i \in DOMAIN credentials, NEW committed \in BOOLEAN,
               DeleteCredential(preview, i, committed)
        PROVE  Changes
    BY <2>3 DEF Changes
  <2>4. ASSUME NEW preview \in BOOLEAN, NEW i \in DOMAIN credentials, NEW user \in UserInfos,
               NEW committed \in BOOLEAN, UpdateUserInformation(preview, i, user, committed)
        PROVE  Changes
    BY <2>4 DEF Changes
  <2> QED
    BY <1>3, <2>1, <2>2, <2>3, <2>4 DEF ManagementNext
<1>4. CASE DaemonNext
  <2>1. ASSUME NEW failed \in SUBSET Ids, Reset(failed) PROVE Changes
    BY <2>1 DEF Changes
  <2>2. ASSUME NEW row \in store, PcrPolicyUpdate(row) \/ PassphraseChange(row) PROVE Changes
    BY <2>2 DEF Changes
  <2>3. ASSUME NEW uid \in Uids, NEW pin_loaded, NEW loaded \in LoadCredentials(uid),
               Restart(uid, loaded, pin_loaded)
        PROVE  Changes
    <3>1. credentials' = loaded /\ session' = uid /\ UNCHANGED <<store, registered>>
      BY <2>3 DEF Restart
    <3> QED
      BY <3>1 DEF Changes
  <2>4. ASSUME NEW cmd, Blocked(cmd) PROVE Changes
    BY <2>4 DEF Blocked, Changes
  <2>5. ASSUME NEW pin, OtherCommand(pin) PROVE Changes
    BY <2>5 DEF OtherCommand, Changes
  <2>6. CASE \/ UnimplementedCommand \/ ResetRefused \/ CancelPending \/ PendingExpires
             \/ ManagementExpires
    BY <2>6 DEF UnimplementedCommand, ResetRefused, CancelPending, PendingExpires,
       ManagementExpires, Changes
  <2> QED
    BY <1>4, <2>1, <2>2, <2>3, <2>4, <2>5, <2>6 DEF DaemonNext
<1> QED
  BY <1>1, <1>2, <1>3, <1>4 DEF Next

\* The update of a policy or of a slot is one of these.
LEMMA TpmChanges ==
    ASSUME IInv, NEW row \in store, PcrPolicyUpdate(row) \/ PassphraseChange(row)
    PROVE  \E updated : /\ TpmCommand(row, updated)
                        /\ updated.id = row.id /\ updated.sign_count = row.sign_count
                        /\ updated.user = row.user /\ updated.user_id = row.user_id
<1>1. row \in Credential
  BY DEF IInv, DataInv
<1> QED
  BY <1>1 DEF PcrPolicyUpdate, PassphraseChange, Credential

\* makeCredential appends a credential of the session's user.
LEMMA MadeLast ==
    ASSUME IInv, NEW id \in Ids, NEW rp_id, NEW discoverable, NEW user, NEW exclude,
           NEW committed, MakeCredential(id, rp_id, discoverable, user, exclude, committed)
    PROVE  \E last :
              /\ last \in DOMAIN credentials' /\ credentials'[last].id = id
              /\ \A k \in DOMAIN credentials :
                    k \in DOMAIN credentials' /\ credentials'[k] = credentials[k]
              /\ \A k \in DOMAIN credentials' :
                    \/ k \in DOMAIN credentials /\ credentials'[k] = credentials[k]
                    \/ credentials'[k].user_id = session
<1>c. PICK credential : credential = [id |-> id, rp_id |-> rp_id, discoverable |-> discoverable,
                                      user_id |-> session, user |-> user, sign_count |-> 0,
                                      policy |-> 0, recovery |-> 0]
  OBVIOUS
<1>1. /\ credentials \in Seq(Credential) /\ Len(credentials) \in Nat
      /\ DOMAIN credentials = 1..Len(credentials)
  BY LenProperties DEF IInv, DataInv
<1>2. credentials' = Append(credentials, credential)
  BY <1>c DEF MakeCredential
<1>n. PICK n : n = Len(credentials) + 1
  OBVIOUS
<1>3. /\ DOMAIN credentials' = 1..n
      /\ \A k \in 1..n : credentials'[k] = IF k <= Len(credentials) THEN credentials[k]
                                           ELSE credential
  BY <1>1, <1>2, <1>n
<1>4. n \in DOMAIN credentials' /\ credentials'[n] = credential
  BY <1>1, <1>3, <1>n
<1>5. credential.id = id /\ credential.user_id = session
  BY <1>c
<1>6. \A k \in DOMAIN credentials : k \in DOMAIN credentials' /\ credentials'[k] = credentials[k]
  BY <1>1, <1>3, <1>n
<1>7. \A k \in DOMAIN credentials' : \/ k \in DOMAIN credentials /\ credentials'[k] = credentials[k]
                                     \/ credentials'[k].user_id = session
  BY <1>1, <1>3, <1>n, <1>5
<1> QED
  BY <1>4, <1>5, <1>6, <1>7

\* With a store that works, every step keeps the list a copy of the user's rows.
LEMMA CacheStep == ASSUME WorkingStore, IInv, CacheInv, Next PROVE CacheInv'
<1>0. DataInv /\ session \in Uids
  BY DEF IInv, ControlInv
<1>1. CASE UNCHANGED <<credentials, store, session, registered>>
  BY <1>1 DEF CacheInv
<1>2. CASE /\ session' \in Uids /\ credentials' \in LoadCredentials(session')
           /\ UNCHANGED <<store, registered>>
  <2>1. Cached(credentials', store, session')
    BY <1>0, <1>2, LoadedAll
  <2> QED
    BY <1>2, <2>1 DEF CacheInv
<1>3. ASSUME NEW id \in Ids, NEW rp_id \in RpIds, NEW discoverable \in BOOLEAN,
             NEW user \in UserInfos, NEW exclude \in ExcludeLists, NEW committed \in BOOLEAN,
             MakeCredential(id, rp_id, discoverable, user, exclude, committed)
      PROVE  CacheInv'
  <2>1. \A k \in DOMAIN credentials' :
           \/ k \in DOMAIN credentials /\ credentials'[k] = credentials[k]
           \/ credentials'[k].user_id = session
    BY <1>3, MadeLast
  <2>2. \A k \in DOMAIN credentials : credentials[k].user_id = session
    BY DEF CacheInv, Cached
  <2>3. SaveCredentials(credentials', committed) /\ session' = session
    BY <1>3 DEF MakeCredential
  <2>4. \A k \in DOMAIN credentials' : credentials'[k].user_id = session'
    BY <2>1, <2>2, <2>3
  <2> QED
    BY <2>3, <2>4, SavedAll
<1>4. ASSUME NEW loaded \in LoadCredentials(session), NEW i \in DOMAIN loaded, NEW ok,
             SignAndCount("getAssertion", loaded, i, ok), UNCHANGED <<session, registered>>
      PROVE  CacheInv'
  <2>1. loaded \in Seq(Credential) /\ UniqueIds(loaded) /\ Cached(loaded, store, session)
    BY <1>0, LoadProperties, LoadedAll
  <2> QED
    BY <1>0, <1>4, <2>1, SignedCached
<1>5. ASSUME NEW i \in DOMAIN credentials, NEW ok,
             SignAndCount("getNextAssertion", credentials, i, ok), UNCHANGED <<session, registered>>
      PROVE  CacheInv'
  <2>1. /\ credentials \in Seq(Credential) /\ UniqueIds(credentials)
        /\ Cached(credentials, store, session)
    BY <1>0 DEF DataInv, CacheInv
  <2> QED
    BY <1>0, <1>5, <2>1, SignedCached
<1>6. ASSUME NEW preview, NEW i \in DOMAIN credentials, NEW committed,
             DeleteCredential(preview, i, committed)
      PROVE  CacheInv'
  BY <1>0, <1>6, DeletedCached
<1>7. ASSUME NEW preview, NEW i \in DOMAIN credentials, NEW user, NEW committed,
             UpdateUserInformation(preview, i, user, committed)
      PROVE  CacheInv'
  <2>1. credentials \in Seq(Credential)
    BY <1>0 DEF DataInv
  <2>2. /\ DOMAIN credentials' = DOMAIN credentials
        /\ \A k \in DOMAIN credentials : credentials'[k].user_id = credentials[k].user_id
    BY <1>7, <2>1, UpdateKeeps
  <2>3. SaveCredentials(credentials', committed) /\ session' = session
    BY <1>7 DEF UpdateUserInformation, ManagementCommand
  <2>4. \A k \in DOMAIN credentials' : credentials'[k].user_id = session'
    BY <2>2, <2>3 DEF CacheInv, Cached
  <2> QED
    BY <2>3, <2>4, SavedAll
<1>8. ASSUME NEW failed, Reset(failed) PROVE CacheInv'
  BY <1>8, ResetCached
<1>9. ASSUME NEW row \in store, PcrPolicyUpdate(row) \/ PassphraseChange(row) PROVE CacheInv'
  BY <1>9, TpmChanges, TpmCached
<1>10. Changes
  BY StepChanges
<1> QED
  BY <1>1, <1>2, <1>3, <1>4, <1>5, <1>6, <1>7, <1>8, <1>9, <1>10 DEF Changes

\* With one user, every row is in memory.
LEMMA RowsInMemory ==
    ASSUME OneUser, IInv, CacheInv, NEW r \in store
    PROVE  \E k \in DOMAIN credentials : credentials[k].id = r.id
<1>1. r \in Credential /\ session \in Uids
  BY DEF IInv, DataInv, ControlInv
<1>2. r.user_id \in Uids
  BY <1>1 DEF Credential
<1>3. r.user_id = session
  BY <1>1, <1>2 DEF OneUser
<1> QED
  BY <1>3 DEF CacheInv, Cached, Mirrors

\* With a store that works and one user, a credential that was issued keeps its row.
LEMMA LiveStep ==
    ASSUME WorkingStore, OneUser, IInv, CacheInv, RegisteredStored, Next
    PROVE  RegisteredStored'
<1>0. /\ DataInv /\ session \in Uids /\ credentials \in Seq(Credential)
      /\ registered \in [Ids -> {"free", "live", "gone"}]
  BY DEF IInv, ControlInv, DataInv
<1>k. ASSUME registered' = registered, StoredIds \subseteq StoredIds' PROVE RegisteredStored'
  BY <1>k DEF RegisteredStored
<1>1. CASE UNCHANGED <<credentials, store, session, registered>>
  BY <1>1, <1>k DEF StoredIds
<1>2. CASE /\ session' \in Uids /\ credentials' \in LoadCredentials(session')
           /\ UNCHANGED <<store, registered>>
  BY <1>2, <1>k DEF StoredIds
<1>m. ASSUME NEW x \in Ids, registered[x] = "live"
      PROVE  \E k \in DOMAIN credentials : credentials[k].id = x
  <2>1. PICK r \in store : r.id = x
    BY <1>m DEF RegisteredStored, StoredIds
  <2> QED
    BY <2>1, RowsInMemory
<1>3. ASSUME NEW id \in Ids, NEW rp_id \in RpIds, NEW discoverable \in BOOLEAN,
             NEW user \in UserInfos, NEW exclude \in ExcludeLists, NEW committed \in BOOLEAN,
             MakeCredential(id, rp_id, discoverable, user, exclude, committed)
      PROVE  RegisteredStored'
  <2>1. PICK last :
           /\ last \in DOMAIN credentials' /\ credentials'[last].id = id
           /\ \A k \in DOMAIN credentials :
                 k \in DOMAIN credentials' /\ credentials'[k] = credentials[k]
    BY <1>3, MadeLast
  <2>2. /\ store' = Range(credentials')
        /\ registered' = [registered EXCEPT ![id] = "live"]
    BY <1>3 DEF MakeCredential, SaveCredentials, WorkingStore
  <2>3. \A k \in DOMAIN credentials' : credentials'[k] \in store'
    BY <2>2 DEF Range
  <2>4. SUFFICES ASSUME NEW x \in Ids, registered'[x] = "live" PROVE \E r \in store' : r.id = x
    BY DEF RegisteredStored, StoredIds
  <2>5. CASE x = id
    BY <2>1, <2>3, <2>5
  <2>6. CASE x # id
    <3>1. registered[x] = "live"
      BY <1>0, <2>2, <2>4, <2>6
    <3>2. PICK k \in DOMAIN credentials : credentials[k].id = x
      BY <1>m, <3>1
    <3> QED
      BY <2>1, <2>3, <3>2
  <2> QED
    BY <2>5, <2>6
<1>4. ASSUME NEW loaded \in LoadCredentials(session), NEW i \in DOMAIN loaded, NEW ok,
             SignAndCount("getAssertion", loaded, i, ok), UNCHANGED <<session, registered>>
      PROVE  RegisteredStored'
  <2>1. loaded \in Seq(Credential) /\ UniqueIds(loaded) /\ Cached(loaded, store, session)
    BY <1>0, LoadProperties, LoadedAll
  <2>2. StoredIds \subseteq StoredIds'
    BY <1>0, <1>4, <2>1, SignedCached
  <2> QED
    BY <1>4, <1>k, <2>2
<1>5. ASSUME NEW i \in DOMAIN credentials, NEW ok,
             SignAndCount("getNextAssertion", credentials, i, ok), UNCHANGED <<session, registered>>
      PROVE  RegisteredStored'
  <2>1. UniqueIds(credentials) /\ Cached(credentials, store, session)
    BY <1>0 DEF DataInv, CacheInv
  <2>2. StoredIds \subseteq StoredIds'
    BY <1>0, <1>5, <2>1, SignedCached
  <2> QED
    BY <1>5, <1>k, <2>2
<1>6. ASSUME NEW preview, NEW i \in DOMAIN credentials, NEW committed,
             DeleteCredential(preview, i, committed)
      PROVE  RegisteredStored'
  <2>1. CASE store' = store /\ registered' = registered
    BY <1>k, <2>1 DEF StoredIds
  <2>2. CASE /\ store' = {r \in store : r.id # credentials[i].id}
             /\ registered' = [registered EXCEPT ![credentials[i].id] = "gone"]
    BY <1>0, <2>2 DEF RegisteredStored, StoredIds
  <2> QED
    BY <1>6, <2>1, <2>2 DEF DeleteCredential
<1>7. ASSUME NEW preview, NEW i \in DOMAIN credentials, NEW user, NEW committed,
             UpdateUserInformation(preview, i, user, committed)
      PROVE  RegisteredStored'
  <2>1. /\ DOMAIN credentials' = DOMAIN credentials
        /\ \A k \in DOMAIN credentials : credentials'[k].id = credentials[k].id
    BY <1>0, <1>7, UpdateKeeps
  <2>2. store' = Range(credentials') /\ registered' = registered
    BY <1>7 DEF UpdateUserInformation, ManagementCommand, SaveCredentials, WorkingStore
  <2>3. \A k \in DOMAIN credentials' : credentials'[k] \in store'
    BY <2>2 DEF Range
  <2>4. SUFFICES ASSUME NEW x \in Ids, registered[x] = "live" PROVE \E r \in store' : r.id = x
    BY <2>2 DEF RegisteredStored, StoredIds
  <2>5. PICK k \in DOMAIN credentials : credentials[k].id = x
    BY <1>m, <2>4
  <2> QED
    BY <2>1, <2>3, <2>5
<1>8. ASSUME NEW failed, Reset(failed) PROVE RegisteredStored'
  BY <1>8 DEF Reset, RegisteredStored
<1>9. ASSUME NEW row \in store, PcrPolicyUpdate(row) \/ PassphraseChange(row)
      PROVE  RegisteredStored'
  <2>1. PICK updated : /\ TpmCommand(row, updated)
                       /\ updated.id = row.id /\ updated.sign_count = row.sign_count
                       /\ updated.user = row.user /\ updated.user_id = row.user_id
    BY <1>9, TpmChanges
  <2>2. StoredIds \subseteq StoredIds' /\ registered' = registered
    BY <2>1, TpmCached DEF TpmCommand
  <2> QED
    BY <1>k, <2>2
<1>10. Changes
  BY StepChanges
<1> QED
  BY <1>1, <1>2, <1>3, <1>4, <1>5, <1>6, <1>7, <1>8, <1>9, <1>10 DEF Changes

\* Only a reset that went through answers a reset with Ok.
LEMMA ResetAnswers ==
    ASSUME IInv, Next, reply'.cmd = "reset", reply'.status = "Ok"
    PROVE  \E failed \in SUBSET Ids : Reset(failed)
<1>1. ~RegistrationNext
  <2>1. \A status : ~MakeCredentialRefused(status)
    BY DEF MakeCredentialRefused, Answer
  <2>2. \A rp_id, exclude : ~MakeCredentialExcluded(rp_id, exclude)
    BY DEF MakeCredentialExcluded, Answer
  <2>3. \A id, rp_id, discoverable, user, exclude, committed :
           ~MakeCredential(id, rp_id, discoverable, user, exclude, committed)
    BY DEF MakeCredential, Answer
  <2> QED
    BY <2>1, <2>2, <2>3 DEF RegistrationNext
<1>2. ~ManagementNext
  <2>0. \A preview, state, status :
           ~ManagementCommand(preview, state, "credentialManagement", status)
    BY DEF ManagementCommand, Answer
  <2>1. \A preview, status : ~ManagementRefused(preview, status)
    BY DEF ManagementRefused, Answer
  <2>2. \A preview, status : ~ManagementNoChange(preview, status)
    BY <2>0 DEF ManagementNoChange
  <2>3. \A preview, i : /\ ~EnumerateRpsBegin(preview, i)
                        /\ \A rp_id : ~EnumerateCredentialsBegin(preview, rp_id, i)
    BY <2>0 DEF EnumerateRpsBegin, EnumerateCredentialsBegin
  <2>4. \A i : ~EnumerateRpsNext(i) /\ ~EnumerateCredentialsNext(i)
    BY <2>0 DEF EnumerateRpsNext, EnumerateCredentialsNext
  <2>5. \A preview, i, committed : ~DeleteCredential(preview, i, committed)
    BY DEF DeleteCredential, Answer
  <2>6. \A preview, i, user, committed : ~UpdateUserInformation(preview, i, user, committed)
    BY <2>0 DEF UpdateUserInformation
  <2> QED
    BY <2>1, <2>2, <2>3, <2>4, <2>5, <2>6 DEF ManagementNext
<1>3. ~AssertionNext
  <2>1. ASSUME NEW cmd, NEW creds, NEW i, NEW ok, SignAndCount(cmd, creds, i, ok)
        PROVE  reply'.cmd = cmd
    BY <2>1 DEF SignAndCount, Answer
  <2>2. \A rp_id, allow, loaded, i, ok : ~GetAssertion(rp_id, allow, loaded, i, ok)
    BY <2>1 DEF GetAssertion
  <2>3. \A i, ok : ~GetNextAssertion(i, ok)
    BY <2>1 DEF GetNextAssertion, Answer
  <2>4. \A status : ~GetAssertionRefused(status) /\ ~GetNextAssertionRefused(status)
    BY DEF GetAssertionRefused, GetNextAssertionRefused, Answer
  <2>5. \A rp_id, allow, loaded : ~GetAssertionDeclined(rp_id, allow, loaded)
    BY DEF GetAssertionDeclined, Answer
  <2> QED
    BY <2>2, <2>3, <2>4, <2>5 DEF AssertionNext
<1>4. CASE DaemonNext
  <2>1. \A cmd \in {"makeCredential", "getAssertion", "getNextAssertion",
                    "credentialManagement"} : ~Blocked(cmd)
    BY DEF Blocked, Answer
  <2>2. /\ \A pin : ~OtherCommand(pin)
        /\ ~UnimplementedCommand /\ ~ResetRefused /\ ~CancelPending
        /\ ~PendingExpires /\ ~ManagementExpires
    BY DEF OtherCommand, UnimplementedCommand, ResetRefused, CancelPending, PendingExpires,
       ManagementExpires, Answer
  <2>3. \A uid, loaded, pin_loaded : ~Restart(uid, loaded, pin_loaded)
    BY DEF Restart, Answer
  <2>4. \A row : ~PcrPolicyUpdate(row) /\ ~PassphraseChange(row)
    BY DEF PcrPolicyUpdate, PassphraseChange, TpmCommand, Answer
  <2> QED
    BY <1>4, <2>1, <2>2, <2>3, <2>4 DEF DaemonNext
<1> QED
  BY <1>1, <1>2, <1>3, <1>4 DEF Next

\* The list is a copy of the user's rows in every reachable state.
LEMMA CacheInvariance == ASSUME WorkingStore PROVE Spec => []CacheInv
<1>1. Init => CacheInv
  <2>1. DOMAIN <<>> = {}
    BY EmptyList
  <2> QED
    BY <2>1 DEF Init, CacheInv, Cached
<1>2. IInv /\ CacheInv /\ [Next]_vars => CacheInv'
  <2>1. IInv /\ CacheInv /\ Next => CacheInv'
    BY CacheStep
  <2>2. CacheInv /\ UNCHANGED vars => CacheInv'
    BY DEF vars, CacheInv
  <2> QED
    BY <2>1, <2>2
<1> QED
  BY <1>1, <1>2, Invariance, PTL DEF Spec

\* With a store that works, however many users there are, the credentials in memory are
\* the rows of the session's user, with their counters: through reloads, rewrites of the
\* whole table, deletes, resets, restarts of other users and the management thread.
THEOREM CacheIsCoherent == ASSUME WorkingStore PROVE Spec => []CacheCoherent
<1>1. CacheInv => CacheCoherent
  BY CachedCoherent
<1> QED
  BY <1>1, CacheInvariance, PTL

\* With a store that works and one user, a credential a client was given stays in the
\* store until that user deletes it or resets the authenticator: the rewrites of the whole
\* table (save_credentials) lose none.
THEOREM RegisteredStayStored == ASSUME WorkingStore, OneUser PROVE Spec => []RegisteredStored
<1>1. Init => RegisteredStored
  BY DEF Init, RegisteredStored
<1>2. IInv /\ CacheInv /\ RegisteredStored /\ [Next]_vars => RegisteredStored'
  <2>1. IInv /\ CacheInv /\ RegisteredStored /\ Next => RegisteredStored'
    BY LiveStep
  <2>2. RegisteredStored /\ UNCHANGED vars => RegisteredStored'
    BY DEF vars, RegisteredStored, StoredIds
  <2> QED
    BY <2>1, <2>2
<1> QED
  BY <1>1, <1>2, Invariance, CacheInvariance, PTL DEF Spec

\* With a store that works and one user, a reset that answers Ok leaves no row: the rows
\* it deletes by the ids in memory are all there are.
THEOREM ResetsDeleteAll == ASSUME WorkingStore, OneUser PROVE Spec => ResetDeletesAll
<1>1. IInv /\ CacheInv /\ [Next]_vars =>
        [reply'.cmd = "reset" /\ reply'.status = "Ok" => store' = {}]_vars
  <2>1. SUFFICES ASSUME IInv, CacheInv, Next, reply'.cmd = "reset", reply'.status = "Ok"
                 PROVE  store' = {}
    OBVIOUS
  <2>2. PICK failed \in SUBSET Ids : Reset(failed)
    BY <2>1, ResetAnswers
  <2>3. \A r \in store' : r \in store /\ r.user_id # session
    BY <2>1, <2>2, ResetCached
  <2>4. \A r \in store : r.user_id = session
    <3>1. ASSUME NEW r \in store PROVE r.user_id = session
      <4>1. r \in Credential /\ session \in Uids
        BY <2>1 DEF IInv, DataInv, ControlInv
      <4>2. r.user_id \in Uids
        BY <4>1 DEF Credential
      <4> QED
        BY <4>1, <4>2 DEF OneUser
    <3> QED
      BY <3>1
  <2> QED
    BY <2>3, <2>4
<1> QED
  BY <1>1, Invariance, CacheInvariance, PTL DEF Spec, ResetDeletesAll

=============================================================================
