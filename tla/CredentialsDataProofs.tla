----------------------- MODULE CredentialsDataProofs -----------------------
(***************************************************************************)
(* The inductive invariant of Credentials, and the proof that every        *)
(* command preserves its half about the credentials in memory and in the   *)
(* store.                                                                  *)
(***************************************************************************)
EXTENDS Credentials, FiniteSetTheorems, SequenceTheorems, TLAPS

----------------------------------------------------------------------------
(* The inductive invariant *)

\* credential_id is the primary key of the table.
UniqueRows == \A r, q \in store : r.id = q.id => r = q

\* No two credentials in memory have the same id.
UniqueIds(creds) == \A i, j \in DOMAIN creds : creds[i].id = creds[j].id => i = j

\* An id that was never issued is neither stored nor in memory, and no counter was
\* released for it.
FreshIds ==
    \A id \in Ids : registered[id] = "free" =>
        /\ \A r \in store : r.id # id
        /\ \A i \in DOMAIN credentials : credentials[i].id # id
        /\ released[id] = 0

\* One of the two lists of an enumeration is empty.
OneEnumeration ==
    management # None =>
        IF management.rp_id = None THEN management.credential_indexes = {}
        ELSE management.rp_indexes = {}

\* The half of the invariant about the credentials, in memory and in the store.
DataInv ==
    /\ credentials \in Seq(Credential)
    /\ store \in SUBSET Credential
    /\ registered \in [Ids -> {"free", "live", "gone"}]
    /\ released \in [Ids -> 0..MAX_SIGN_COUNT]
    /\ IsFiniteSet(store)
    /\ UniqueRows
    /\ UniqueIds(credentials)
    /\ FreshIds
    /\ CounterPersisted

\* The half about what is kept between commands.
ControlInv ==
    /\ pending_assertion = None \/ pending_assertion \in PendingAssertion
    /\ management = None \/ management \in ManagementState
    /\ session \in Uids
    /\ pin_set \in BOOLEAN
    /\ reply \in [cmd : Commands, status : ErrorStatus, id : Ids \cup {None}]
    /\ OneEnumeration
    /\ EnumerationExact

IInv == DataInv /\ ControlInv

----------------------------------------------------------------------------
(* Sequences and finite sets *)

\* The list of a daemon without credentials, Vec::new().
LEMMA EmptyList == <<>> \in Seq(Credential) /\ DOMAIN <<>> = {}
  OBVIOUS

\* The elements of a finite sequence are a finite set.
LEMMA ElementsFinite ==
    ASSUME NEW T, NEW s \in Seq(T) PROVE IsFiniteSet(Range(s)) /\ Range(s) \subseteq T
<1>1. s \in [1..Len(s) -> T] /\ Len(s) \in Nat
  BY LenProperties
<1>2. s \in Surjection(1..Len(s), Range(s))
  BY <1>1 DEF Surjection, Range
<1>3. IsFiniteSet(1..Len(s))
  BY <1>1, FS_Interval
<1>4. IsFiniteSet(Range(s))
  BY <1>2, <1>3, FS_Surjection
<1> QED BY <1>1, <1>4 DEF Range

\* What RemoveAt leaves, and where.
LEMMA RemoveAtProperties ==
    ASSUME NEW T, NEW s \in Seq(T), NEW i \in 1..Len(s)
    PROVE  /\ RemoveAt(s, i) \in Seq(T)
           /\ DOMAIN RemoveAt(s, i) = 1..(Len(s) - 1)
           /\ \A j \in 1..(Len(s) - 1) :
                 RemoveAt(s, i)[j] = IF j < i THEN s[j] ELSE s[j + 1]
<1> DEFINE a == SubSeq(s, 1, i - 1)
           b == SubSeq(s, i + 1, Len(s))
<1>1. Len(s) \in Nat /\ i \in Nat /\ 1 <= i /\ i <= Len(s)
  BY LenProperties
<1>2. /\ a \in Seq(T) /\ Len(a) = i - 1
      /\ \A j \in 1..(i - 1) : a[j] = s[j]
  BY <1>1, SubSeqProperties
<1>3. /\ b \in Seq(T) /\ Len(b) = Len(s) - i
      /\ \A j \in 1..(Len(s) - i) : b[j] = s[i + j]
  BY <1>1, SubSeqProperties
<1> HIDE DEF a, b
<1>4. /\ a \o b \in Seq(T) /\ Len(a \o b) = Len(s) - 1
      /\ \A j \in 1..(Len(s) - 1) :
            (a \o b)[j] = IF j <= i - 1 THEN a[j] ELSE b[j - (i - 1)]
  <2>1. Len(a) + Len(b) = Len(s) - 1
    BY <1>1, <1>2, <1>3
  <2>2. /\ a \o b \in Seq(T)
        /\ Len(a \o b) = Len(a) + Len(b)
        /\ \A j \in 1..(Len(a) + Len(b)) :
              (a \o b)[j] = IF j <= Len(a) THEN a[j] ELSE b[j - Len(a)]
    BY <1>2, <1>3, ConcatProperties, Zenon
  <2> QED BY <1>2, <2>1, <2>2, Zenon
<1>5. \A j \in 1..(Len(s) - 1) : (a \o b)[j] = IF j < i THEN s[j] ELSE s[j + 1]
  <2> TAKE j \in 1..(Len(s) - 1)
  <2>1. CASE j < i
    BY <1>1, <1>2, <1>4, <2>1
  <2>2. CASE ~(j < i)
    <3>1. j - (i - 1) \in 1..(Len(s) - i) /\ i + (j - (i - 1)) = j + 1
      BY <1>1, <2>2
    <3>2. b[j - (i - 1)] = s[j + 1]
      BY <1>3, <3>1
    <3> QED BY <1>1, <1>4, <2>2, <3>2
  <2> QED BY <2>1, <2>2
<1>6. DOMAIN (a \o b) = 1..(Len(s) - 1)
  BY <1>4, LenProperties
<1> QED BY <1>4, <1>5, <1>6 DEF RemoveAt, a, b

\* load_credentials_from_disk returns rows of the store, each once.
LEMMA LoadProperties ==
    ASSUME DataInv, NEW uid \in Uids, NEW loaded \in LoadCredentials(uid)
    PROVE  /\ loaded \in Seq(Credential)
           /\ UniqueIds(loaded)
           /\ \A i \in DOMAIN loaded : loaded[i] \in store
<1> DEFINE rows == {r \in store : r.user_id = uid}
<1>1. CASE loaded = <<>>
  BY <1>1, EmptyList DEF UniqueIds
<1>2. CASE loaded \in Bijection(1..Cardinality(rows), rows)
  <2>1. IsFiniteSet(rows)
    BY FS_Subset DEF DataInv
  <2>2. Cardinality(rows) \in Nat
    BY <2>1, FS_CardinalityType
  <2>3. /\ loaded \in [1..Cardinality(rows) -> rows]
        /\ \A i, j \in 1..Cardinality(rows) : i # j => loaded[i] # loaded[j]
    BY <1>2 DEF Bijection, Injection, IsInjective
  <2>4. rows \subseteq store /\ rows \subseteq Credential
    BY DEF DataInv
  <2>5. loaded \in Seq(Credential)
    BY <2>2, <2>3, <2>4, IsASeq
  <2>6. UniqueIds(loaded)
    BY <2>3, <2>4 DEF UniqueIds, DataInv, UniqueRows
  <2> QED BY <2>3, <2>4, <2>5, <2>6
<1> QED BY <1>1, <1>2 DEF LoadCredentials


----------------------------------------------------------------------------
(* What the operations do to the credentials *)

\* A command that changes neither the list, the table nor a counter keeps DataInv.
LEMMA DataStutter ==
    ASSUME DataInv, UNCHANGED <<credentials, store, registered, released>>
    PROVE  DataInv'
  BY DEF DataInv, UniqueRows, UniqueIds, FreshIds, CounterPersisted

\* Credentials read back from the store are as good as the store.
LEMMA ReloadData ==
    ASSUME DataInv, NEW uid \in Uids, NEW loaded \in LoadCredentials(uid),
           credentials' = loaded, UNCHANGED <<store, registered, released>>
    PROVE  DataInv'
<1>1. /\ loaded \in Seq(Credential)
      /\ UniqueIds(loaded)
      /\ \A i \in DOMAIN loaded : loaded[i] \in store
  BY LoadProperties
<1>2. UniqueIds(credentials)'
  BY <1>1 DEF UniqueIds
<1>3. FreshIds'
  BY <1>1 DEF DataInv, FreshIds
<1>4. CounterPersisted'
  BY <1>1 DEF DataInv, CounterPersisted
<1>5. UniqueRows'
  BY DEF DataInv, UniqueRows
<1> QED BY <1>1, <1>2, <1>3, <1>4, <1>5 DEF DataInv

\* The rows save_credentials writes are the credentials it was given.
LEMMA SaveData ==
    ASSUME DataInv, NEW committed \in BOOLEAN, SaveCredentials(credentials', committed),
           (credentials \in Seq(Credential) /\ UniqueIds(credentials))'
    PROVE  /\ store' \in SUBSET Credential
           /\ IsFiniteSet(store')
           /\ UniqueRows'
           /\ \A r \in store' : r \in store \/ \E i \in DOMAIN credentials' : r = credentials'[i]
<1>1. CASE store' = store
  BY <1>1 DEF DataInv, UniqueRows
<1>2. CASE store' = Range(credentials')
  <2>1. IsFiniteSet(store') /\ store' \subseteq Credential
    BY <1>2, ElementsFinite
  <2>2. \A r \in store' : \E i \in DOMAIN credentials' : r = credentials'[i]
    BY <1>2 DEF Range
  <2>3. UniqueRows'
    BY <2>2 DEF UniqueRows, UniqueIds
  <2> QED BY <2>1, <2>2, <2>3
<1> QED BY <1>1, <1>2 DEF SaveCredentials

\* make_credential appends a credential under an id never issued before.
LEMMA MakeCredentialData ==
    ASSUME IInv, NEW id \in Ids, NEW rp_id \in RpIds, NEW discoverable \in BOOLEAN,
           NEW user \in UserInfos, NEW exclude, NEW committed \in BOOLEAN,
           MakeCredential(id, rp_id, discoverable, user, exclude, committed)
    PROVE  DataInv'
<1> DEFINE credential == [id |-> id, rp_id |-> rp_id, discoverable |-> discoverable,
                          user_id |-> session, user |-> user, sign_count |-> 0,
                          policy |-> 0, recovery |-> 0]
<1>1. credential \in Credential /\ credential.id = id /\ credential.sign_count = 0
  BY CountAssumption DEF IInv, ControlInv, Credential
<1>2. credentials' = Append(credentials, credential)
  BY DEF MakeCredential
<1> HIDE DEF credential
<1>3. /\ credentials' \in Seq(Credential)
      /\ Len(credentials) \in Nat
      /\ DOMAIN credentials = 1..Len(credentials)
      /\ DOMAIN credentials' = 1..(Len(credentials) + 1)
      /\ \A i \in 1..Len(credentials) : credentials'[i] = credentials[i]
      /\ credentials'[Len(credentials) + 1] = credential
  BY <1>1, <1>2, AppendProperties, LenProperties DEF IInv, DataInv
<1>4. /\ \A r \in store : r.id # id
      /\ \A i \in DOMAIN credentials : credentials[i].id # id
      /\ released[id] = 0
  BY DEF IInv, DataInv, FreshIds, MakeCredential
<1>5. UniqueIds(credentials)'
  BY <1>1, <1>3, <1>4 DEF IInv, DataInv, UniqueIds
<1>6. /\ store' \in SUBSET Credential
      /\ IsFiniteSet(store')
      /\ UniqueRows'
      /\ \A r \in store' : r \in store \/ \E i \in DOMAIN credentials' : r = credentials'[i]
  BY <1>3, <1>5, SaveData DEF IInv, MakeCredential
<1>7. registered' = [registered EXCEPT ![id] = "live"] /\ released' = released
  BY DEF MakeCredential
<1>8. \A i \in DOMAIN credentials' :
        credentials'[i] = credential \/ \E j \in DOMAIN credentials : credentials'[i] = credentials[j]
  BY <1>3
<1>9. \A r \in store' :
        r \in store \/ r = credential \/ \E j \in DOMAIN credentials : r = credentials[j]
  BY <1>6, <1>8
<1>10. FreshIds'
  <2> SUFFICES ASSUME NEW x \in Ids, registered'[x] = "free"
               PROVE  /\ \A r \in store' : r.id # x
                      /\ \A i \in DOMAIN credentials' : credentials'[i].id # x
                      /\ released'[x] = 0
    BY DEF FreshIds
  <2>1. x # id /\ registered[x] = "free"
    BY <1>7 DEF IInv, DataInv
  <2> QED BY <1>1, <1>7, <1>8, <1>9, <2>1 DEF IInv, DataInv, FreshIds
<1>11. \A c : \/ c \in store
              \/ c = credential
              \/ \E j \in DOMAIN credentials : c = credentials[j]
           => released'[c.id] <= c.sign_count
  BY <1>1, <1>4, <1>7 DEF IInv, DataInv, CounterPersisted
<1>12. CounterPersisted'
  BY <1>8, <1>9, <1>11 DEF CounterPersisted
<1> QED BY <1>3, <1>5, <1>6, <1>7, <1>10, <1>12 DEF IInv, DataInv


\* update_sign_count changes the counter of one row and nothing else.
LEMMA UpdateSignCountProperties ==
    ASSUME DataInv, NEW id \in Ids, NEW n \in 0..MAX_SIGN_COUNT
    PROVE  /\ IsFiniteSet(UpdateSignCount(id, n))
           /\ UpdateSignCount(id, n) \subseteq Credential
           /\ \A r \in UpdateSignCount(id, n) :
                 \E q \in store : /\ r.id = q.id
                                  /\ r = IF q.id = id THEN [q EXCEPT !.sign_count = n] ELSE q
                                  /\ r.sign_count = IF q.id = id THEN n ELSE q.sign_count
<1> DEFINE upd(r) == IF r.id = id THEN [r EXCEPT !.sign_count = n] ELSE r
           f == [r \in store |-> upd(r)]
<1>1. f \in Surjection(store, UpdateSignCount(id, n))
  BY DEF Surjection, UpdateSignCount
<1>2. IsFiniteSet(UpdateSignCount(id, n))
  BY <1>1, FS_Surjection DEF DataInv
<1>3. \A q \in store : /\ upd(q) \in Credential
                       /\ upd(q).id = q.id
                       /\ upd(q).sign_count = IF q.id = id THEN n ELSE q.sign_count
  BY DEF DataInv, Credential
<1> QED BY <1>2, <1>3 DEF UpdateSignCount

\* The counter is written, kept in memory and released as one; or nothing changes but
\* the list in memory.
LEMMA SignAndCountData ==
    ASSUME DataInv, NEW cmd, NEW creds \in Seq(Credential), NEW i \in DOMAIN creds, NEW ok,
           UniqueIds(creds),
           \A k \in DOMAIN creds : /\ released[creds[k].id] <= creds[k].sign_count
                                   /\ registered[creds[k].id] # "free",
           SignAndCount(cmd, creds, i, ok), UNCHANGED registered
    PROVE  /\ DataInv'
           /\ reply' = [cmd |-> cmd, status |-> "OperationDenied", id |-> None]
              \/ /\ reply' = [cmd |-> cmd, status |-> "Ok", id |-> creds[i].id]
                 /\ \/ released'[creds[i].id] > released[creds[i].id]
                    \/ released'[creds[i].id] = MAX_SIGN_COUNT
           /\ \A x \in Ids : released'[x] >= released[x]
<1> DEFINE id == creds[i].id
           n  == SaturatingAdd(creds[i].sign_count)
<1>1. \A k \in DOMAIN creds : /\ creds[k] \in Credential
                              /\ creds[k].id \in Ids
                              /\ creds[k].sign_count \in 0..MAX_SIGN_COUNT
  <2>1. \A k \in DOMAIN creds : creds[k] \in Credential
    BY LenProperties
  <2> QED BY <2>1 DEF Credential
<1>2. \A x \in Ids : released[x] \in 0..MAX_SIGN_COUNT
  BY DEF DataInv
<1>3. CASE credentials' = creds /\ UNCHANGED <<store, released>> /\ Answer(cmd, "OperationDenied", None)
  <2>1. FreshIds'
    BY <1>1, <1>3 DEF DataInv, FreshIds
  <2>2. UniqueIds(credentials)' /\ UniqueRows' /\ CounterPersisted'
    BY <1>3 DEF DataInv, UniqueIds, UniqueRows, CounterPersisted
  <2> QED BY <1>2, <1>3, <2>1, <2>2, CountAssumption DEF DataInv, Answer
<1>4. CASE /\ store' = UpdateSignCount(id, n)
           /\ credentials' = [creds EXCEPT ![i] = [@ EXCEPT !.sign_count = n]]
           /\ released' = [released EXCEPT ![id] = n]
           /\ Answer(cmd, "Ok", id)
  <2>1. /\ n \in 0..MAX_SIGN_COUNT
        /\ creds[i].sign_count <= n
        /\ n > creds[i].sign_count \/ n = MAX_SIGN_COUNT
    BY <1>1, CountAssumption DEF SaturatingAdd
  <2>2. id \in Ids /\ released[id] <= n /\ (n > released[id] \/ n = MAX_SIGN_COUNT)
    BY <1>1, <1>2, <2>1, CountAssumption
  <2>3. [creds[i] EXCEPT !.sign_count = n] \in Credential
    BY <1>1, <2>1 DEF Credential
  <2>4. /\ credentials' \in Seq(Credential)
        /\ DOMAIN credentials' = DOMAIN creds
    BY <1>4, <2>3, ExceptSeq, LenProperties
  <2>5. \A k \in DOMAIN creds :
          /\ credentials'[k].id = creds[k].id
          /\ credentials'[k].sign_count = IF k = i THEN n ELSE creds[k].sign_count
    BY <1>1, <1>4 DEF Credential
  <2> HIDE DEF n
  <2>6. /\ IsFiniteSet(store')
        /\ store' \subseteq Credential
        /\ \A r \in store' :
             \E q \in store : /\ r.id = q.id
                              /\ r = IF q.id = id THEN [q EXCEPT !.sign_count = n] ELSE q
                              /\ r.sign_count = IF q.id = id THEN n ELSE q.sign_count
    BY <1>4, <2>1, <2>2, UpdateSignCountProperties
  <2>7. /\ released' \in [Ids -> 0..MAX_SIGN_COUNT]
        /\ \A x \in Ids : released'[x] = IF x = id THEN n ELSE released[x]
    BY <1>4, <2>1, <2>2 DEF DataInv
  <2>8. UniqueIds(credentials)'
    BY <2>4, <2>5 DEF UniqueIds
  <2>9. UniqueRows'
    <3> SUFFICES ASSUME NEW r \in store', NEW q \in store', r.id = q.id PROVE r = q
      BY DEF UniqueRows
    <3>1. PICK r0 \in store :
            r.id = r0.id /\ r = IF r0.id = id THEN [r0 EXCEPT !.sign_count = n] ELSE r0
      BY <2>6
    <3>2. PICK q0 \in store :
            q.id = q0.id /\ q = IF q0.id = id THEN [q0 EXCEPT !.sign_count = n] ELSE q0
      BY <2>6
    <3>3. r0 = q0
      BY <3>1, <3>2 DEF DataInv, UniqueRows
    <3> QED BY <3>1, <3>2, <3>3
  <2>10. FreshIds'
    <3> SUFFICES ASSUME NEW x \in Ids, registered'[x] = "free"
                 PROVE  /\ \A r \in store' : r.id # x
                        /\ \A k \in DOMAIN credentials' : credentials'[k].id # x
                        /\ released'[x] = 0
      BY DEF FreshIds
    <3>1. registered[x] = "free" /\ x # id
      OBVIOUS
    <3>2. released[x] = 0 /\ \A r \in store : r.id # x
      BY <3>1 DEF DataInv, FreshIds
    <3>3. released'[x] = 0
      BY <2>7, <3>1, <3>2
    <3> QED BY <2>4, <2>5, <2>6, <3>1, <3>2, <3>3
  <2>11. \A r \in store' : released'[r.id] <= r.sign_count
    <3> TAKE r \in store'
    <3>1. PICK q \in store :
            r.id = q.id /\ r.sign_count = IF q.id = id THEN n ELSE q.sign_count
      BY <2>6
    <3>2. q.id \in Ids /\ released[q.id] <= q.sign_count
      BY DEF DataInv, CounterPersisted, Credential
    <3> QED BY <2>1, <2>7, <3>1, <3>2
  <2>12. \A k \in DOMAIN creds : released'[creds[k].id] <= credentials'[k].sign_count
    <3> TAKE k \in DOMAIN creds
    <3>1. CASE k = i
      BY <2>1, <2>2, <2>5, <2>7, <3>1
    <3>2. CASE k # i
      <4>1. creds[k].id # id
        BY <3>2 DEF UniqueIds
      <4>2. released'[creds[k].id] = released[creds[k].id]
        BY <1>1, <2>7, <4>1
      <4> QED BY <2>5, <3>2, <4>2
    <3> QED BY <3>1, <3>2
  <2>13. CounterPersisted'
    BY <2>4, <2>5, <2>11, <2>12 DEF CounterPersisted
  <2>14. released'[id] = n /\ \A x \in Ids : released'[x] >= released[x]
    BY <1>2, <2>1, <2>2, <2>7
  <2> QED
    BY <1>4, <2>2, <2>4, <2>6, <2>7, <2>8, <2>9, <2>10, <2>13, <2>14 DEF DataInv, Answer
<1> QED BY <1>3, <1>4 DEF SignAndCount


\* delete_credential removes a row, then the same credential in memory.
LEMMA DeleteCredentialData ==
    ASSUME IInv, NEW preview \in BOOLEAN, NEW i \in DOMAIN credentials,
           NEW committed \in BOOLEAN, DeleteCredential(preview, i, committed)
    PROVE  DataInv' /\ UNCHANGED released
<1> DEFINE id == credentials[i].id
<1>1. CASE UNCHANGED <<store, credentials, registered, released>>
  BY <1>1, DataStutter DEF IInv
<1>2. CASE /\ store' = {r \in store : r.id # id}
           /\ credentials' = RemoveAt(credentials, i)
           /\ registered' = [registered EXCEPT ![id] = "gone"]
           /\ released' = released
  <2>1. /\ credentials \in Seq(Credential)
        /\ Len(credentials) \in Nat
        /\ DOMAIN credentials = 1..Len(credentials)
    BY LenProperties DEF IInv, DataInv
  <2>2. /\ credentials' \in Seq(Credential)
        /\ DOMAIN credentials' = 1..(Len(credentials) - 1)
        /\ \A j \in 1..(Len(credentials) - 1) :
              credentials'[j] = IF j < i THEN credentials[j] ELSE credentials[j + 1]
    BY <1>2, <2>1, RemoveAtProperties
  <2>3. \A j \in DOMAIN credentials' : \E k \in DOMAIN credentials :
           /\ k = (IF j < i THEN j ELSE j + 1)
           /\ credentials'[j] = credentials[k]
    BY <2>1, <2>2
  <2>4. UniqueIds(credentials)'
    BY <2>1, <2>2, <2>3 DEF IInv, DataInv, UniqueIds
  <2>5. IsFiniteSet(store') /\ store' \subseteq Credential
    BY <1>2, FS_Subset DEF IInv, DataInv
  <2>6. UniqueRows'
    BY <1>2 DEF IInv, DataInv, UniqueRows
  <2>7. \A x \in Ids : registered'[x] = "free" => registered[x] = "free"
    BY <1>2 DEF IInv, DataInv
  <2>8. FreshIds'
    BY <1>2, <2>3, <2>7 DEF IInv, DataInv, FreshIds
  <2>9. CounterPersisted'
    BY <1>2, <2>3 DEF IInv, DataInv, CounterPersisted
  <2>10. registered' \in [Ids -> {"free", "live", "gone"}]
    BY <1>2 DEF IInv, DataInv
  <2> QED BY <1>2, <2>2, <2>4, <2>5, <2>6, <2>8, <2>9, <2>10 DEF IInv, DataInv
<1> QED BY <1>1, <1>2 DEF DeleteCredential

\* update_user_information rewrites the table from the list in memory.
LEMMA UpdateUserInformationData ==
    ASSUME IInv, NEW preview \in BOOLEAN, NEW i \in DOMAIN credentials,
           NEW user \in UserInfos, NEW committed \in BOOLEAN,
           UpdateUserInformation(preview, i, user, committed)
    PROVE  DataInv' /\ UNCHANGED released
<1>1. UNCHANGED <<registered, released>>
  BY DEF UpdateUserInformation, ManagementCommand
<1>2. /\ credentials \in Seq(Credential)
      /\ DOMAIN credentials = 1..Len(credentials)
      /\ credentials[i] \in Credential
  BY LenProperties DEF IInv, DataInv
<1>3. [credentials[i] EXCEPT !.user = user] \in Credential
  BY <1>2 DEF Credential
<1>4. /\ credentials' \in Seq(Credential)
      /\ DOMAIN credentials' = DOMAIN credentials
  BY <1>2, <1>3, ExceptSeq, LenProperties DEF UpdateUserInformation
<1>5. \A k \in DOMAIN credentials : /\ credentials'[k].id = credentials[k].id
                                    /\ credentials'[k].sign_count = credentials[k].sign_count
  BY <1>2 DEF UpdateUserInformation, Credential
<1>6. UniqueIds(credentials)'
  BY <1>4, <1>5 DEF IInv, DataInv, UniqueIds
<1>7. /\ store' \in SUBSET Credential
      /\ IsFiniteSet(store')
      /\ UniqueRows'
      /\ \A r \in store' : r \in store \/ \E k \in DOMAIN credentials' : r = credentials'[k]
  BY <1>4, <1>6, SaveData DEF IInv, UpdateUserInformation
<1>8. \A r \in store' : \/ r \in store
                        \/ \E k \in DOMAIN credentials :
                              /\ r.id = credentials[k].id
                              /\ r.sign_count = credentials[k].sign_count
  <2> SUFFICES ASSUME NEW r \in store', r \notin store
               PROVE  \E k \in DOMAIN credentials :
                          /\ r.id = credentials[k].id
                          /\ r.sign_count = credentials[k].sign_count
    OBVIOUS
  <2>1. PICK k \in DOMAIN credentials' : r = credentials'[k]
    BY <1>7
  <2>2. k \in DOMAIN credentials
    BY <1>4, <2>1
  <2> QED BY <1>5, <2>1, <2>2
<1>9. FreshIds'
  <2> SUFFICES ASSUME NEW x \in Ids, registered'[x] = "free"
               PROVE  /\ \A r \in store' : r.id # x
                      /\ \A k \in DOMAIN credentials' : credentials'[k].id # x
                      /\ released'[x] = 0
    BY DEF FreshIds
  <2>1. /\ \A r \in store : r.id # x
        /\ \A k \in DOMAIN credentials : credentials[k].id # x
        /\ released[x] = 0
    BY <1>1 DEF IInv, DataInv, FreshIds
  <2>2. \A r \in store' : r.id # x
    BY <1>8, <2>1
  <2>3. \A k \in DOMAIN credentials' : credentials'[k].id # x
    BY <1>4, <1>5, <2>1
  <2> QED BY <1>1, <2>1, <2>2, <2>3
<1>10. CounterPersisted'
  BY <1>1, <1>4, <1>5, <1>8 DEF IInv, DataInv, CounterPersisted
<1> QED BY <1>1, <1>4, <1>6, <1>7, <1>9, <1>10 DEF IInv, DataInv

\* authenticatorReset keeps DataInv, whether or not the rows could be deleted.
LEMMA ResetData ==
    ASSUME IInv, NEW failed \in SUBSET Ids, Reset(failed)
    PROVE  DataInv' /\ UNCHANGED released
<1>1. /\ credentials' = <<>> /\ store' \subseteq store /\ released' = released
      /\ registered' \in [Ids -> {"free", "live", "gone"}]
      /\ \A x \in Ids : registered'[x] = "free" => registered[x] = "free"
  BY DEF Reset, IInv, DataInv
<1>2. IsFiniteSet(store')
  BY <1>1, FS_Subset DEF IInv, DataInv
<1>3. credentials' \in Seq(Credential) /\ DOMAIN credentials' = {}
  BY <1>1, EmptyList
<1>4. UniqueRows' /\ UniqueIds(credentials)' /\ FreshIds' /\ CounterPersisted'
  BY <1>1, <1>3 DEF IInv, DataInv, UniqueRows, UniqueIds, FreshIds, CounterPersisted
<1> QED BY <1>1, <1>2, <1>3, <1>4 DEF IInv, DataInv

\* handle_tpm_command rewrites one row in place.
LEMMA TpmCommandData ==
    ASSUME IInv, NEW row \in store, NEW updated \in Credential, TpmCommand(row, updated),
           updated.id = row.id, updated.sign_count = row.sign_count
    PROVE  DataInv' /\ UNCHANGED released
<1>1. /\ store' = (store \ {row}) \cup {updated}
      /\ UNCHANGED <<credentials, registered, released>>
  BY DEF TpmCommand
<1>2. IsFiniteSet(store')
  BY <1>1, FS_RemoveElement, FS_AddElement DEF IInv, DataInv
<1>3. UniqueRows' /\ UniqueIds(credentials)'
  BY <1>1 DEF IInv, DataInv, UniqueRows, UniqueIds
<1>4. FreshIds' /\ CounterPersisted'
  BY <1>1 DEF IInv, DataInv, FreshIds, CounterPersisted
<1> QED BY <1>1, <1>2, <1>3, <1>4 DEF IInv, DataInv

=============================================================================
