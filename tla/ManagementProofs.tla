-------------------------- MODULE ManagementProofs --------------------------
(***************************************************************************)
(* Proofs about Management, for any clients, credentials and passphrases,  *)
(* any number of passphrase changes, with or without faults.               *)
(***************************************************************************)
EXTENDS Management, TLAPS

USE TargetsAssumption, BoundsAssumption, NoneAssumption

----------------------------------------------------------------------------
(* Type correctness *)

\* A thread between requests is well typed.
LEMMA IdleType == Idle \in Threads
BY DEF Idle, Threads, NoRequest, Requests, Hashes, Rows, Statuses

\* A passphrase change starts with its new hash.
LEMMA UpdateType ==
    ASSUME NEW h \in Hashes
    PROVE  [Idle EXCEPT !.pc = "save",
              !.request = [cmd |-> "passphrase", old |-> None, target |-> Ids],
              !.hash = h] \in Threads
BY DEF Idle, Threads, NoRequest, Requests, Rows, Statuses

\* handle_list_credentials and its siblings start with what they loaded.
LEMMA WithRowsType ==
    ASSUME NEW t \in Threads, store \in [Ids -> Rows \cup {None}],
           t.request \in Requests
    PROVE  WithRows(t) \in Threads
<1>1. Loaded(t.request.cmd) \in [Ids -> Rows \cup {None}]
  BY DEF Loaded, Rows
<1>2. {id \in t.request.target : store[id] # None \/ t.request.cmd = "policy"} \in SUBSET Ids
  BY DEF Requests
<1> QED
  BY <1>1, <1>2 DEF WithRows, Threads

\* Giving a thread another well-typed record keeps the threads well typed.
LEMMA SetThreadType ==
    ASSUME threads \in [Clients -> Threads], NEW c \in Clients, NEW t \in Threads,
           SetThread(c, t)
    PROVE  threads' \in [Clients -> Threads]
BY DEF SetThread

\* So does the start of a request, whichever threads it overlaps with.
LEMMA BeginType ==
    ASSUME threads \in [Clients -> Threads], NEW c \in Clients, NEW t \in Threads,
           Begin(c, t)
    PROVE  threads' \in [Clients -> Threads]
<1>1. \A u \in Threads, b \in BOOLEAN : [u EXCEPT !.alone = b] \in Threads
  BY DEF Threads
<1> DEFINE b == ~(t.request.cmd # "list"
                  /\ (main.at = "register" \/ \E d \in Clients : Updating(d)))
<1>2. b \in BOOLEAN
  OBVIOUS
<1>3. [t EXCEPT !.alone = b] \in Threads
  BY <1>1, <1>2
<1>4. \A d \in Clients : [threads[d] EXCEPT !.alone = FALSE] \in Threads
  BY <1>1
<1>5. threads' = [d \in Clients |->
            IF d = c THEN [t EXCEPT !.alone = b]
            ELSE IF t.request.cmd # "list" /\ Updating(d)
                 THEN [threads[d] EXCEPT !.alone = FALSE]
            ELSE threads[d]]
  BY DEF Begin
<1> HIDE DEF b
<1> QED
  BY <1>3, <1>4, <1>5

\* So does a registration that overlaps with updates.
LEMMA OverlappedType ==
    ASSUME threads \in [Clients -> Threads]
    PROVE  Overlapped \in [Clients -> Threads]
<1>1. \A u \in Threads : [u EXCEPT !.alone = FALSE] \in Threads
  BY DEF Threads
<1> QED
  BY <1>1 DEF Overlapped

----------------------------------------------------------------------------
(* The inductive invariant *)

\* What a thread's program counter says of its other variables.
ThreadOK(t) ==
    /\ t.pc = "idle" => t = Idle
    /\ t.pc # "idle" => t.request \in Requests
    /\ t.pc \in {"save", "load"} => t.request.cmd = "passphrase"
    /\ t.request.cmd = "passphrase" => t.hash \in Hashes
    /\ t.pc \in {"save", "load"} => t.results = [id \in Ids |-> None]
    /\ t.pc = "wait" => t.sent \in Ids /\ t.sent \notin t.todo /\ t.results[t.sent] = None
    /\ t.pc # "wait" => t.sent = None /\ t.result = None
    /\ \A id \in t.todo : t.results[id] = None

\* A queued command is the one its thread would build now.
CommandOK(command) ==
    LET t == threads[command.client]
    IN  /\ command.kind = Kind(t.request.cmd)
        /\ command.hash = t.hash
        /\ command.kind # "digest" => command.key \in Slots

ChannelOK ==
    /\ \A c \in Clients : ThreadOK(threads[c])
    /\ \A i \in DOMAIN queue : CommandOK(queue[i])

\* No hash has a salt that was not drawn yet.
Drawn(hash) == hash # None => hash.salt <= salts

RowDrawn(row) == row # None /\ row.recovery # None => Drawn(row.recovery.hash)

SaltsFresh ==
    /\ Drawn(daemon_passphrase) /\ Drawn(main.hash)
    /\ \A id \in Ids : RowDrawn(store[id]) /\ RowDrawn(credentials[id])
    /\ \A c \in Clients : Drawn(threads[c].hash)

\* The credential was updated, as far as the thread knows or will know.
Done(t, id) == t.results[id] = "ok" \/ (t.sent = id /\ t.result = "ok")

\* What a request that nothing overlapped with has done so far.
PolicyProgress(t) ==
    \A id \in Ids : Done(t, id) /\ store[id] # None => store[id].policy

PassphraseProgress(t) ==
    /\ t.pc # "save" => daemon_passphrase = t.hash
    /\ \A id \in Ids : store[id] # None /\ store[id].recovery # None =>
          (Done(t, id) <=> store[id].recovery.hash = t.hash)

Progress ==
    \A c \in Clients : Updating(c) /\ threads[c].alone =>
        /\ main.at # "register"
        /\ \A d \in Clients : Updating(d) => d = c
        /\ threads[c].request.cmd = "policy" => PolicyProgress(threads[c])
        /\ threads[c].request.cmd = "passphrase" => PassphraseProgress(threads[c])

IInv == TypeOK /\ SlotsOpen /\ RepliesMatch /\ ChannelOK /\ SaltsFresh /\ Progress

----------------------------------------------------------------------------
(* Type correctness is preserved *)

\* A step of a thread between two uses of the store or the channel.
LEMMA ThreadType ==
    ASSUME TypeOK, ChannelOK, NEW c \in Clients, ThreadStep(c)
    PROVE  TypeOK'
<1> DEFINE t == threads[c]
<1>1. t \in Threads /\ ThreadOK(t)
  BY DEF TypeOK, ChannelOK
<1>2. Idle \in Threads
  BY IdleType
<1>3. CASE \E committed \in BOOLEAN : SavePassphrase(c, committed)
  <2>1. [t EXCEPT !.pc = "load"] \in Threads
    BY <1>1 DEF Threads
  <2>2. t.hash \in Hashes
    BY <1>1, <1>3 DEF SavePassphrase, ThreadOK
  <2>3. threads' \in [Clients -> Threads]
    BY <1>2, <1>3, <2>1 DEF SavePassphrase, SetThread, TypeOK
  <2> QED
    BY <1>3, <2>2, <2>3 DEF SavePassphrase, TypeOK
<1>4. CASE \E readable \in BOOLEAN : LoadCredentials(c, readable)
  <2>1. WithRows(t) \in Threads
    BY <1>1, <1>4, WithRowsType DEF LoadCredentials, ThreadOK, TypeOK
  <2>2. threads' \in [Clients -> Threads]
    BY <1>2, <1>4, <2>1 DEF LoadCredentials, SetThread, TypeOK
  <2> QED
    BY <1>4, <2>2 DEF LoadCredentials, TypeOK
<1>5. CASE \E id \in Ids : NextCredential(c, id)
  <2> PICK id \in Ids : NextCredential(c, id)
    BY <1>5
  <2> DEFINE known == Known(t.request, t.rows[id])
             u1 == [t EXCEPT !.todo = @ \ {id}, !.rows[id] = None, !.results[id] = known]
             u2 == [t EXCEPT !.pc = "wait", !.todo = @ \ {id}, !.rows[id] = None, !.sent = id]
             cmd == Command(c, Kind(t.request.cmd), id, t.rows[id].recovery, t.hash)
  <2>1. CASE known # None
    <3>1. known \in Statuses
      BY <2>1 DEF Known, Statuses
    <3>2. u1 \in Threads
      BY <1>1, <3>1 DEF Threads
    <3> HIDE DEF known, u1, t
    <3>3. SetThread(c, u1) /\ UNCHANGED queue
      BY <2>1 DEF NextCredential, known, u1, t
    <3> QED
      BY <3>2, <3>3, SetThreadType DEF NextCredential, TypeOK
  <2>2. CASE known = None
    <3>1. u2 \in Threads
      BY <1>1 DEF Threads
    <3>2. t.request \in Requests /\ t.rows[id] \in Rows
      BY <1>1, <2>2 DEF NextCredential, ThreadOK, Known, Threads
    <3>3. cmd \in TpmCommands
      BY <1>1, <3>2 DEF Command, TpmCommands, Kind, Requests, Threads, Rows
    <3> HIDE DEF known, u2, cmd, t
    <3>4. SetThread(c, u2) /\ queue' = Append(queue, cmd)
      BY <2>2 DEF NextCredential, known, u2, cmd, t
    <3> QED
      BY <3>1, <3>3, <3>4, SetThreadType DEF NextCredential, TypeOK
  <2> QED
    BY <2>1, <2>2
<1>6. CASE Receive(c)
  <2>1. [t EXCEPT !.pc = "next", !.results[t.sent] = t.result, !.result = None, !.sent = None]
        \in Threads
    BY <1>1, <1>6 DEF Receive, Threads, ThreadOK, Statuses
  <2>2. threads' \in [Clients -> Threads]
    BY <1>6, <2>1, SetThreadType DEF Receive, TypeOK
  <2> QED
    BY <1>6, <2>2 DEF Receive, TypeOK
<1>7. CASE Respond(c)
  <2>1. threads' \in [Clients -> Threads]
    BY <1>2, <1>7 DEF Respond, SetThread, TypeOK
  <2> QED
    BY <1>7, <2>1 DEF Respond, TypeOK
<1> QED
  BY <1>3, <1>4, <1>5, <1>6, <1>7 DEF ThreadStep

\* The start of a request.
LEMMA RequestType ==
    ASSUME TypeOK, NEW c \in Clients,
           \/ \E old \in Passphrases \cup {None}, new \in Passphrases :
                 UpdatePassphrase(c, old, new)
           \/ \E request \in Requests : ListOrUpdatePolicies(c, request)
    PROVE  TypeOK'
<1>1. CASE \E old \in Passphrases \cup {None}, new \in Passphrases : UpdatePassphrase(c, old, new)
  <2> PICK old \in Passphrases \cup {None}, new \in Passphrases : UpdatePassphrase(c, old, new)
    BY <1>1
  <2> DEFINE h == [passphrase |-> new, salt |-> salts + 1]
             t == [Idle EXCEPT !.pc = "save",
                     !.request = [cmd |-> "passphrase", old |-> None, target |-> Ids], !.hash = h]
  <2>1. salts \in 0..MAX_SALTS /\ salts < MAX_SALTS /\ salts' = salts + 1 /\ Begin(c, t)
    BY DEF UpdatePassphrase, TypeOK
  <2>2. salts + 1 \in 0..MAX_SALTS
    BY <2>1
  <2>3. h \in Hashes
    BY <2>2 DEF Hashes
  <2>4. t \in Threads
    BY <2>3, UpdateType
  <2>5. threads' \in [Clients -> Threads]
    <3> HIDE DEF t
    <3> QED
      BY <2>1, <2>4, BeginType DEF TypeOK
  <2> QED
    BY <2>1, <2>2, <2>5 DEF UpdatePassphrase, TypeOK
<1>2. CASE \E request \in Requests : ListOrUpdatePolicies(c, request)
  <2> PICK request \in Requests : ListOrUpdatePolicies(c, request)
    BY <1>2
  <2> DEFINE t == [Idle EXCEPT !.request = request]
  <2>1. t \in Threads /\ t.request = request
    BY IdleType DEF Threads, Idle
  <2> HIDE DEF t
  <2>2. WithRows(t) \in Threads
    BY <2>1, WithRowsType DEF TypeOK
  <2>3. threads' \in [Clients -> Threads]
    BY <2>2, BeginType DEF ListOrUpdatePolicies, TypeOK, t
  <2> QED
    BY <2>3 DEF ListOrUpdatePolicies, TypeOK
<1> QED
  BY <1>1, <1>2

\* A command of the management threads on the main loop: in particular only rows with
\* all their parts are written.
LEMMA CommandType ==
    ASSUME TypeOK, RepliesMatch, ChannelOK, NEW ok \in BOOLEAN, HandleCommand(ok)
    PROVE  TypeOK'
<1> DEFINE command == Head(queue)
           done == ok /\ KeyOpens(command) /\ HasRow(command)
<1>1. command \in TpmCommands /\ 1 \in DOMAIN queue /\ command = queue[1]
      /\ Tail(queue) \in Seq(TpmCommands)
  BY DEF HandleCommand, TypeOK
<1>2. command.client \in Clients /\ command.id \in Ids
  BY <1>1 DEF TpmCommands
<1>3. command.kind = "passphrase" => command.hash \in Hashes
  <2>1. CommandOK(command) /\ ThreadOK(threads[command.client])
    BY <1>1, <1>2 DEF ChannelOK
  <2> QED
    BY <1>2, <2>1 DEF CommandOK, ThreadOK, Kind
<1>4. store' \in [Ids -> Rows \cup {None}]
  <2>1. CASE ~done \/ command.kind = "digest"
    BY <2>1 DEF HandleCommand, Executed, TypeOK
  <2>2. CASE done /\ command.kind = "policy"
    <3>1. store[command.id] \in Rows
      BY <1>2, <2>2 DEF HasRow, TypeOK
    <3>2. [store[command.id] EXCEPT !.policy = TRUE] \in Rows
      BY <3>1 DEF Rows
    <3> QED
      BY <1>2, <2>2, <3>2 DEF HandleCommand, Executed, UpdatePolicy, TypeOK
  <2>3. CASE done /\ command.kind = "passphrase"
    <3>1. store[command.id] \in Rows
      BY <1>2, <2>3 DEF HasRow, TypeOK
    <3>2. [store[command.id] EXCEPT !.recovery = [hash |-> command.hash, auth |-> command.hash]]
          \in Rows
      BY <1>3, <2>3, <3>1 DEF Rows, Slots
    <3> QED
      BY <1>2, <2>3, <3>2 DEF HandleCommand, Executed, UpdateRecoverySlot, TypeOK
  <2> QED
    BY <1>1, <2>1, <2>2, <2>3 DEF TpmCommands
<1>5. threads' \in [Clients -> Threads]
  <2>1. \A u \in Threads, r \in {"ok", "error"} : [u EXCEPT !.result = r] \in Threads
    BY DEF Threads
  <2> QED
    BY <1>2, <2>1 DEF HandleCommand, Answered, TypeOK
<1> QED
  BY <1>1, <1>4, <1>5 DEF HandleCommand, Loop, TypeOK

\* What else the main loop does: a report, a registration, and a restart.
LEMMA LoopType ==
    ASSUME TypeOK,
           \/ OtherReport \/ Declined \/ RegisterFails \/ CtapCommand
           \/ \E readable \in BOOLEAN : Approved(readable)
           \/ \E id \in Ids, committed \in BOOLEAN : Register(id, committed)
           \/ \E booted, readable \in BOOLEAN : Restart(booted, readable)
    PROVE  TypeOK'
<1>1. Overlapped \in [Clients -> Threads]
  BY OverlappedType DEF TypeOK
<1>2. \A at \in {"command", "report", "approval", "register"} :
         Loop(at) \in [at : {"command", "report", "approval", "register"}, hash : Hashes \cup {None}]
  BY DEF Loop
<1>3. ASSUME NEW creds \in [Ids -> Rows \cup {None}], NEW committed \in BOOLEAN,
             SaveCredentials(creds, committed), issued' \subseteq Ids,
             UNCHANGED <<daemon_passphrase, queue, salts>>
      PROVE  TypeOK'
  BY <1>1, <1>2, <1>3 DEF SaveCredentials, TypeOK
<1>4. CASE OtherReport \/ Declined \/ RegisterFails \/ MakeCredential
  BY <1>2, <1>4 DEF OtherReport, Declined, RegisterFails, MakeCredential, TypeOK
<1>5. CASE \E readable \in BOOLEAN : GetAssertion(readable)
  BY <1>2, <1>5 DEF GetAssertion, TypeOK
<1>6. CASE \E committed \in BOOLEAN : UpdateUserInformation(committed)
  BY <1>3, <1>6 DEF UpdateUserInformation, TypeOK
<1>7. CASE \E id \in Ids : DeleteCredential(id)
  BY <1>2, <1>7 DEF DeleteCredential, TypeOK
<1>8. CASE \E failed \in SUBSET Ids : Reset(failed)
  BY <1>2, <1>8 DEF Reset, TypeOK
<1>9. CASE \E readable \in BOOLEAN : Approved(readable)
  BY <1>1, <1>9 DEF Approved, TypeOK
<1>10. CASE \E id \in Ids, committed \in BOOLEAN : Register(id, committed)
  <2> PICK id \in Ids, committed \in BOOLEAN : Register(id, committed)
    BY <1>10
  <2> DEFINE row == [policy |-> TRUE,
                     recovery |-> IF main.hash = None THEN None
                                  ELSE [hash |-> main.hash, auth |-> main.hash]]
  <2>1. row \in Rows
    BY DEF Rows, Slots, TypeOK
  <2> HIDE DEF row
  <2> DEFINE creds == [credentials EXCEPT ![id] = row]
  <2>2. creds \in [Ids -> Rows \cup {None}]
    BY <2>1 DEF TypeOK
  <2>3. issued' \subseteq Ids
    BY DEF Register, TypeOK
  <2>4. SaveCredentials(creds, committed) /\ UNCHANGED <<daemon_passphrase, queue, salts>>
    BY DEF Register, row
  <2> HIDE DEF creds
  <2> QED
    BY <1>3, <2>2, <2>3, <2>4
<1>11. CASE \E booted, readable \in BOOLEAN : Restart(booted, readable)
  <2>1. Booted(store) \in [Ids -> Rows \cup {None}]
    <3>1. \A row \in Rows : [row EXCEPT !.policy = FALSE] \in Rows
      BY DEF Rows
    <3> QED
      BY <3>1 DEF Booted, TypeOK
  <2>2. queue' \in Seq(TpmCommands) /\ threads' \in [Clients -> Threads]
    BY <1>11, IdleType DEF Restart
  <2>3. store' \in [Ids -> Rows \cup {None}]
    BY <1>11, <2>1 DEF Restart, TypeOK
  <2>4. credentials' \in [Ids -> Rows \cup {None}]
    BY <1>11, <2>3 DEF Restart, TypeOK
  <2> QED
    BY <1>2, <1>11, <2>2, <2>3, <2>4 DEF Restart, TypeOK
<1> QED
  BY <1>4, <1>5, <1>6, <1>7, <1>8, <1>9, <1>10, <1>11 DEF CtapCommand

\* Every step keeps the types.
LEMMA TypeStep ==
    ASSUME TypeOK, RepliesMatch, ChannelOK, [Next]_vars
    PROVE  TypeOK'
<1>1. CASE Next
  BY <1>1, ThreadType, RequestType, CommandType, LoopType DEF Next, LoopStep
<1>2. CASE UNCHANGED vars
  BY <1>2 DEF vars, TypeOK
<1> QED
  BY <1>1, <1>2

----------------------------------------------------------------------------
(* Recovery slots stay whole *)

\* Threads load whole slots and send whole slots.
LEMMA ThreadSlots ==
    ASSUME TypeOK, ChannelOK, SlotsOpen, NEW c \in Clients,
           \/ ThreadStep(c)
           \/ \E old \in Passphrases \cup {None}, new \in Passphrases :
                 UpdatePassphrase(c, old, new)
           \/ \E request \in Requests : ListOrUpdatePolicies(c, request)
    PROVE  SlotsOpen'
<1> DEFINE t == threads[c]
           Open(u) == \A id \in Ids : RowOpens(u.rows[id])
<1>1. t \in Threads /\ Open(t) /\ (t.pc # "idle" => t.request \in Requests)
  BY DEF TypeOK, SlotsOpen, ChannelOK, ThreadOK
<1>2. Open(Idle)
  BY DEF Idle, RowOpens
<1>3. \A u \in Threads : Open(WithRows(u))
  <2>1. \A cmd : \A id \in Ids : RowOpens(Loaded(cmd)[id])
    BY DEF Loaded, RowOpens, SlotOpens, SlotsOpen, TypeOK
  <2> QED
    BY <2>1 DEF WithRows, Threads
<1>4. ASSUME NEW u, SetThread(c, u), Open(u), UNCHANGED <<store, credentials>>,
             \A i \in DOMAIN queue' : SlotOpens(queue'[i].key)
      PROVE  SlotsOpen'
  BY <1>4 DEF SetThread, SlotsOpen, TypeOK
<1>5. ASSUME NEW u \in Threads, Begin(c, u), Open(u), UNCHANGED <<store, credentials, queue>>
      PROVE  SlotsOpen'
  <2>1. \A v \in Threads, b \in BOOLEAN : [v EXCEPT !.alone = b].rows = v.rows
    BY DEF Threads
  <2>2. \A d \in Clients : threads'[d].rows = IF d = c THEN u.rows ELSE threads[d].rows
    BY <1>5, <2>1 DEF Begin, TypeOK
  <2> QED
    BY <1>5, <2>2 DEF SlotsOpen
<1>6. CASE \E old \in Passphrases \cup {None}, new \in Passphrases : UpdatePassphrase(c, old, new)
  <2> PICK old \in Passphrases \cup {None}, new \in Passphrases : UpdatePassphrase(c, old, new)
    BY <1>6
  <2> DEFINE h == [passphrase |-> new, salt |-> salts + 1]
             u == [Idle EXCEPT !.pc = "save",
                     !.request = [cmd |-> "passphrase", old |-> None, target |-> Ids], !.hash = h]
  <2>1. salts \in 0..MAX_SALTS /\ salts < MAX_SALTS /\ Begin(c, u)
        /\ UNCHANGED <<store, credentials, queue>>
    BY DEF UpdatePassphrase, TypeOK
  <2>2. h \in Hashes
    BY <2>1 DEF Hashes
  <2>3. u \in Threads
    BY <2>2, UpdateType
  <2>4. Open(u)
    BY <1>2 DEF Idle
  <2> HIDE DEF u
  <2> QED
    BY <1>5, <2>1, <2>3, <2>4
<1>7. CASE \E request \in Requests : ListOrUpdatePolicies(c, request)
  <2> PICK request \in Requests : ListOrUpdatePolicies(c, request)
    BY <1>7
  <2> DEFINE u == [Idle EXCEPT !.request = request]
  <2>1. u \in Threads /\ u.request = request
    BY IdleType DEF Threads, Idle
  <2> HIDE DEF u
  <2>2. WithRows(u) \in Threads /\ Open(WithRows(u))
    BY <1>3, <2>1, WithRowsType DEF TypeOK
  <2>3. Begin(c, WithRows(u)) /\ UNCHANGED <<store, credentials, queue>>
    BY DEF ListOrUpdatePolicies, u
  <2> QED
    BY <1>5, <2>2, <2>3
<1>8. CASE \E committed \in BOOLEAN : SavePassphrase(c, committed)
  <2>1. Open([t EXCEPT !.pc = "load"])
    BY <1>1 DEF Threads
  <2> QED
    BY <1>2, <1>4, <1>8, <2>1 DEF SavePassphrase, SlotsOpen
<1>9. CASE \E readable \in BOOLEAN : LoadCredentials(c, readable)
  BY <1>1, <1>2, <1>3, <1>4, <1>9 DEF LoadCredentials, SlotsOpen
<1>10. CASE \E id \in Ids : NextCredential(c, id)
  <2> PICK id \in Ids : NextCredential(c, id)
    BY <1>10
  <2> DEFINE known == Known(t.request, t.rows[id])
             u1 == [t EXCEPT !.todo = @ \ {id}, !.rows[id] = None, !.results[id] = known]
             u2 == [t EXCEPT !.pc = "wait", !.todo = @ \ {id}, !.rows[id] = None, !.sent = id]
             cmd == Command(c, Kind(t.request.cmd), id, t.rows[id].recovery, t.hash)
  <2>1. Open(u1) /\ Open(u2)
    BY <1>1 DEF Threads, RowOpens
  <2>2. known = None => SlotOpens(cmd.key)
    BY <1>1 DEF Known, Command, RowOpens
  <2>3. UNCHANGED <<store, credentials>>
    BY DEF NextCredential
  <2>4. CASE known # None
    <3>1. SetThread(c, u1) /\ UNCHANGED queue
      BY <2>4 DEF NextCredential
    <3> HIDE DEF u1
    <3> QED
      BY <1>4, <2>1, <2>3, <3>1 DEF SlotsOpen
  <2>5. CASE known = None
    <3>1. SetThread(c, u2) /\ queue' = Append(queue, cmd)
      BY <2>5 DEF NextCredential
    <3>2. SlotOpens(cmd.key)
      BY <2>2, <2>5
    <3> HIDE DEF u2, cmd
    <3>3. \A i \in DOMAIN queue' : SlotOpens(queue'[i].key)
      BY <3>1, <3>2 DEF SlotsOpen, TypeOK
    <3> QED
      BY <1>4, <2>1, <2>3, <3>1, <3>3
  <2> QED
    BY <2>4, <2>5
<1>11. CASE Receive(c)
  <2> DEFINE u == [t EXCEPT !.pc = "next", !.results[t.sent] = t.result, !.result = None,
                            !.sent = None]
  <2>1. Open(u)
    BY <1>1 DEF Threads
  <2>2. SetThread(c, u) /\ UNCHANGED <<store, credentials, queue>>
    BY <1>11 DEF Receive
  <2> HIDE DEF u
  <2> QED
    BY <1>4, <2>1, <2>2 DEF SlotsOpen
<1>12. CASE Respond(c)
  BY <1>2, <1>4, <1>12 DEF Respond, SlotsOpen
<1> QED
  BY <1>6, <1>7, <1>8, <1>9, <1>10, <1>11, <1>12 DEF ThreadStep

\* The main loop writes whole slots: the two halves together, or a copy of a row.
LEMMA LoopSlots ==
    ASSUME TypeOK, SlotsOpen, LoopStep \/ CtapCommand
    PROVE  SlotsOpen'
<1> DEFINE RowsOpen(rows) == \A id \in Ids : RowOpens(rows[id])
<1>1. RowsOpen(store) /\ RowsOpen(credentials) /\ RowOpens(None)
  BY DEF SlotsOpen, RowOpens
<1>2. ASSUME NEW new, threads' = new, \A c \in Clients : new[c].rows = threads[c].rows,
             queue' = queue, RowsOpen(store'), RowsOpen(credentials')
      PROVE  SlotsOpen'
  BY <1>2 DEF SlotsOpen
<1>3. \A c \in Clients : Overlapped[c].rows = threads[c].rows
  BY DEF Overlapped, TypeOK, Threads
<1>4. CASE \E ok \in BOOLEAN : HandleCommand(ok)
  <2> PICK ok \in BOOLEAN : HandleCommand(ok)
    BY <1>4
  <2> DEFINE command == Head(queue)
             done == ok /\ KeyOpens(command) /\ HasRow(command)
  <2>1. command \in TpmCommands
    BY DEF HandleCommand, TypeOK
  <2>2. RowsOpen(store')
    <3>1. CASE ~done \/ command.kind = "digest"
      BY <1>1, <3>1 DEF HandleCommand, Executed
    <3>2. CASE done /\ command.kind = "policy"
      <4>1. store[command.id] \in Rows \ {None} /\ command.id \in Ids
        BY <2>1, <3>2 DEF HasRow, TypeOK, TpmCommands
      <4>2. RowOpens([store[command.id] EXCEPT !.policy = TRUE])
        BY <1>1, <4>1 DEF RowOpens, Rows
      <4> QED
        BY <1>1, <3>2, <4>1, <4>2 DEF HandleCommand, Executed, UpdatePolicy, TypeOK
    <3>3. CASE done /\ command.kind = "passphrase"
      <4>1. store[command.id] \in Rows /\ command.id \in Ids
        BY <2>1, <3>3 DEF HasRow, TypeOK, TpmCommands
      <4>2. RowOpens([store[command.id] EXCEPT
                         !.recovery = [hash |-> command.hash, auth |-> command.hash]])
        BY <4>1 DEF RowOpens, SlotOpens, Rows
      <4> QED
        BY <1>1, <3>3, <4>1, <4>2 DEF HandleCommand, Executed, UpdateRecoverySlot, TypeOK
    <3> QED
      BY <2>1, <3>1, <3>2, <3>3 DEF TpmCommands
  <2>3. \A c \in Clients : threads'[c].rows = threads[c].rows
    <3>1. \A u \in Threads, r \in {"ok", "error"} : [u EXCEPT !.result = r].rows = u.rows
      BY DEF Threads
    <3> QED
      BY <2>1, <3>1 DEF HandleCommand, Answered, TypeOK, TpmCommands
  <2>4. \A i \in DOMAIN queue' : i + 1 \in DOMAIN queue /\ queue'[i] = queue[i + 1]
    BY DEF HandleCommand, TypeOK
  <2>5. \A i \in DOMAIN queue' : SlotOpens(queue'[i].key)
    BY <2>4 DEF SlotsOpen
  <2>6. UNCHANGED credentials
    BY DEF HandleCommand
  <2> QED
    BY <1>1, <2>2, <2>3, <2>5, <2>6 DEF SlotsOpen
<1>5. CASE OtherReport \/ Declined \/ RegisterFails \/ MakeCredential
  BY <1>1, <1>2, <1>5 DEF OtherReport, Declined, RegisterFails, MakeCredential
<1>6. CASE \E readable \in BOOLEAN : GetAssertion(readable)
  BY <1>1, <1>2, <1>6 DEF GetAssertion
<1>7. CASE \E committed \in BOOLEAN : UpdateUserInformation(committed)
  BY <1>1, <1>2, <1>3, <1>7 DEF UpdateUserInformation, SaveCredentials
<1>8. CASE \E id \in Ids : DeleteCredential(id)
  BY <1>1, <1>2, <1>8 DEF DeleteCredential, TypeOK
<1>9. CASE \E failed \in SUBSET Ids : Reset(failed)
  BY <1>1, <1>2, <1>9 DEF Reset
<1>10. CASE \E readable \in BOOLEAN : Approved(readable)
  BY <1>1, <1>2, <1>3, <1>10 DEF Approved
<1>11. CASE \E id \in Ids, committed \in BOOLEAN : Register(id, committed)
  <2> PICK id \in Ids, committed \in BOOLEAN : Register(id, committed)
    BY <1>11
  <2> DEFINE row == [policy |-> TRUE,
                     recovery |-> IF main.hash = None THEN None
                                  ELSE [hash |-> main.hash, auth |-> main.hash]]
             creds == [credentials EXCEPT ![id] = row]
  <2>1. RowOpens(row)
    BY DEF RowOpens, SlotOpens
  <2> HIDE DEF row
  <2>2. RowsOpen(creds)
    BY <1>1, <2>1 DEF TypeOK
  <2>3. SaveCredentials(creds, committed) /\ queue' = queue
    BY DEF Register, row
  <2> HIDE DEF creds
  <2> QED
    BY <1>1, <1>2, <1>3, <2>2, <2>3 DEF SaveCredentials
<1> QED
  BY <1>4, <1>5, <1>6, <1>7, <1>8, <1>9, <1>10, <1>11 DEF LoopStep, CtapCommand

\* Every step keeps the slots whole.
LEMMA SlotsStep ==
    ASSUME TypeOK, ChannelOK, SlotsOpen, [Next]_vars
    PROVE  SlotsOpen'
<1>1. CASE \E booted, readable \in BOOLEAN : Restart(booted, readable)
  <2>1. \A id \in Ids : RowOpens(Booted(store)[id])
    BY DEF Booted, RowOpens, SlotsOpen, TypeOK, Rows
  <2>2. \A id \in Ids : RowOpens(store'[id])
    BY <1>1, <2>1 DEF Restart, SlotsOpen
  <2>3. \A id \in Ids : RowOpens(credentials'[id])
    BY <1>1, <2>2 DEF Restart, RowOpens
  <2> QED
    BY <1>1, <2>2, <2>3 DEF Restart, SlotsOpen, Idle, RowOpens
<1>2. CASE UNCHANGED vars
  BY <1>2 DEF vars, SlotsOpen
<1> QED
  BY <1>1, <1>2, ThreadSlots, LoopSlots DEF Next

----------------------------------------------------------------------------
(* The channel *)

\* The part of a thread that the channel depends on.
Link(t) == <<t.pc, t.request, t.hash, t.todo, t.results, t.sent, t.result>>

\* Overlapping with another request changes nothing else of a thread.
LEMMA LinkKept ==
    ASSUME NEW t \in Threads, NEW b \in BOOLEAN
    PROVE  Link([t EXCEPT !.alone = b]) = Link(t)
BY DEF Link, Threads

\* What holds of an active thread and its commands depends on no more than that.
LEMMA LinkDecides ==
    ASSUME NEW t, NEW u, Link(t) = Link(u), t.pc # "idle", ThreadOK(t)
    PROVE  ThreadOK(u)
<1>1. /\ t.pc = u.pc /\ t.request = u.request /\ t.hash = u.hash /\ t.todo = u.todo
      /\ t.results = u.results /\ t.sent = u.sent /\ t.result = u.result
  BY DEF Link
<1> QED
  BY <1>1 DEF ThreadOK

\* The clients of queued commands are clients.
LEMMA QueueTypes ==
    ASSUME TypeOK
    PROVE  \A i \in DOMAIN queue : queue[i] \in TpmCommands /\ queue[i].client \in Clients
<1>1. \A i \in DOMAIN queue : queue[i] \in TpmCommands
  BY DEF TypeOK
<1> QED
  BY <1>1 DEF TpmCommands

\* Steps that leave the channel alone, and of the threads change at most who is alone.
LEMMA ChannelKept ==
    ASSUME TypeOK, RepliesMatch, ChannelOK, queue' = queue,
           threads' = threads \/ threads' = Overlapped
    PROVE  RepliesMatch' /\ ChannelOK'
<1>1. \A c \in Clients : Link(threads'[c]) = Link(threads[c]) /\ ThreadOK(threads'[c])
  <2> SUFFICES ASSUME NEW c \in Clients
               PROVE  Link(threads'[c]) = Link(threads[c]) /\ ThreadOK(threads'[c])
    OBVIOUS
  <2>1. threads[c] \in Threads /\ ThreadOK(threads[c])
    BY DEF TypeOK, ChannelOK
  <2>2. CASE threads'[c] = threads[c]
    BY <2>1, <2>2
  <2>3. CASE Updating(c) /\ threads'[c] = [threads[c] EXCEPT !.alone = FALSE]
    <3>1. threads[c].pc # "idle"
      BY <2>3 DEF Updating, Active
    <3>2. Link(threads'[c]) = Link(threads[c])
      BY <2>1, <2>3, LinkKept
    <3> QED
      BY <2>1, <3>1, <3>2, LinkDecides
  <2> QED
    BY <2>2, <2>3 DEF Overlapped
<1>2. \A c \in Clients :
         /\ threads'[c].pc = threads[c].pc /\ threads'[c].result = threads[c].result
         /\ threads'[c].sent = threads[c].sent /\ threads'[c].request = threads[c].request
         /\ threads'[c].hash = threads[c].hash
  BY <1>1 DEF Link
<1>3. RepliesMatch'
  BY <1>2, QueueTypes DEF RepliesMatch
<1>4. \A i \in DOMAIN queue : CommandOK(queue[i])'
  BY <1>2, QueueTypes DEF ChannelOK, CommandOK
<1> QED
  BY <1>1, <1>3, <1>4 DEF ChannelOK

\* Steps of one thread that has no command in the channel, and sends none.
LEMMA OneThread ==
    ASSUME TypeOK, RepliesMatch, ChannelOK, queue' = queue,
           NEW c \in Clients, threads[c].pc # "wait" \/ threads[c].result # None,
           ThreadOK(threads'[c]), threads'[c].pc # "wait",
           \A d \in Clients \ {c} : Link(threads'[d]) = Link(threads[d])
                                    /\ ThreadOK(threads'[d])
    PROVE  RepliesMatch' /\ ChannelOK'
<1>1. \A i \in DOMAIN queue : queue[i].client \in Clients \ {c}
  BY QueueTypes DEF RepliesMatch
<1>2. \A d \in Clients \ {c} :
         /\ threads'[d].pc = threads[d].pc /\ threads'[d].result = threads[d].result
         /\ threads'[d].sent = threads[d].sent /\ threads'[d].request = threads[d].request
         /\ threads'[d].hash = threads[d].hash
  BY DEF Link
<1>3. threads'[c].result = None
  BY DEF ThreadOK
<1>4. RepliesMatch'
  BY <1>1, <1>2, <1>3 DEF RepliesMatch
<1>5. \A i \in DOMAIN queue : CommandOK(queue[i])'
  BY <1>1, <1>2 DEF ChannelOK, CommandOK
<1>6. \A d \in Clients : ThreadOK(threads'[d])
  OBVIOUS
<1> QED
  BY <1>4, <1>5, <1>6 DEF ChannelOK

\* The same for the actions that set one thread.
LEMMA SetThreadChannel ==
    ASSUME TypeOK, RepliesMatch, ChannelOK, queue' = queue,
           NEW c \in Clients, threads[c].pc # "wait" \/ threads[c].result # None,
           NEW u, ThreadOK(u), u.pc # "wait", SetThread(c, u)
    PROVE  RepliesMatch' /\ ChannelOK'
<1>1. threads'[c] = u /\ \A d \in Clients \ {c} : threads'[d] = threads[d]
  BY DEF SetThread, TypeOK
<1>2. \A d \in Clients \ {c} : ThreadOK(threads'[d])
  BY <1>1 DEF ChannelOK
<1> QED
  BY <1>1, <1>2, OneThread

\* The same for the actions that begin a request.
LEMMA BeginChannel ==
    ASSUME TypeOK, RepliesMatch, ChannelOK, queue' = queue,
           NEW c \in Clients, ~Active(c),
           NEW u \in Threads, ThreadOK(u), u.pc \notin {"idle", "wait"}, Begin(c, u)
    PROVE  RepliesMatch' /\ ChannelOK'
<1>1. PICK b \in BOOLEAN : threads'[c] = [u EXCEPT !.alone = b]
  BY DEF Begin, TypeOK
<1>2. Link(threads'[c]) = Link(u)
  BY <1>1, LinkKept
<1>3. ThreadOK(threads'[c]) /\ threads'[c].pc = u.pc
  BY <1>2, LinkDecides DEF Link
<1>4. ASSUME NEW d \in Clients \ {c}
      PROVE  Link(threads'[d]) = Link(threads[d]) /\ ThreadOK(threads'[d])
  <2>1. threads[d] \in Threads /\ ThreadOK(threads[d])
    BY DEF TypeOK, ChannelOK
  <2>2. CASE threads'[d] = threads[d]
    BY <2>1, <2>2
  <2>3. CASE Updating(d) /\ threads'[d] = [threads[d] EXCEPT !.alone = FALSE]
    <3>1. threads[d].pc # "idle"
      BY <2>3 DEF Updating, Active
    <3>2. Link(threads'[d]) = Link(threads[d])
      BY <2>1, <2>3, LinkKept
    <3> QED
      BY <2>1, <3>1, <3>2, LinkDecides
  <2> QED
    BY <1>4, <2>2, <2>3 DEF Begin
<1>5. threads[c].pc # "wait"
  BY DEF Active
<1> QED
  BY <1>3, <1>4, <1>5, OneThread

\* A thread between requests.
LEMMA IdleOK == ThreadOK(Idle) /\ Idle.pc = "idle"
BY DEF ThreadOK, Idle, NoRequest

\* A thread that has just loaded the rows.
LEMMA WithRowsOK ==
    ASSUME NEW t \in Threads, t.request \in Requests, t.sent = None, t.result = None,
           t.results = [id \in Ids |-> None],
           t.request.cmd = "passphrase" => t.hash \in Hashes
    PROVE  ThreadOK(WithRows(t)) /\ WithRows(t).pc = "next"
<1> DEFINE u == WithRows(t)
<1>1. /\ u.pc = "next" /\ u.request = t.request /\ u.hash = t.hash /\ u.results = t.results
      /\ u.sent = None /\ u.result = None
  BY DEF WithRows, Threads
<1>2. u.todo \subseteq Ids
  BY DEF WithRows, Threads, Requests
<1> HIDE DEF u
<1>3. ThreadOK(u)
  BY <1>1, <1>2 DEF ThreadOK
<1> QED
  BY <1>1, <1>3 DEF u

\* A new request finds no command of its client in the channel.
LEMMA RequestChannel ==
    ASSUME TypeOK, RepliesMatch, ChannelOK, NEW c \in Clients,
           \/ \E old \in Passphrases \cup {None}, new \in Passphrases :
                 UpdatePassphrase(c, old, new)
           \/ \E request \in Requests : ListOrUpdatePolicies(c, request)
    PROVE  RepliesMatch' /\ ChannelOK'
<1>1. CASE \E old \in Passphrases \cup {None}, new \in Passphrases : UpdatePassphrase(c, old, new)
  <2> PICK old \in Passphrases \cup {None}, new \in Passphrases : UpdatePassphrase(c, old, new)
    BY <1>1
  <2> DEFINE h == [passphrase |-> new, salt |-> salts + 1]
             r == [cmd |-> "passphrase", old |-> None, target |-> Ids]
             u == [Idle EXCEPT !.pc = "save", !.request = r, !.hash = h]
  <2>1. salts \in 0..MAX_SALTS /\ salts < MAX_SALTS
    BY DEF UpdatePassphrase, TypeOK
  <2>2. h \in Hashes
    BY <2>1 DEF Hashes
  <2>3. u \in Threads
    BY <2>2, UpdateType
  <2>4. r \in Requests /\ r.cmd = "passphrase"
    BY DEF Requests
  <2>5. Begin(c, u) /\ ~Active(c) /\ queue' = queue
    BY DEF UpdatePassphrase
  <2>6. /\ u.pc = "save" /\ u.request = r /\ u.hash = h /\ u.todo = {} /\ u.sent = None
        /\ u.results = [id \in Ids |-> None] /\ u.result = None
    BY DEF Idle
  <2> HIDE DEF u, h, r
  <2>7. ThreadOK(u)
    BY <2>2, <2>4, <2>6 DEF ThreadOK
  <2> QED
    BY <2>3, <2>5, <2>6, <2>7, BeginChannel
<1>2. CASE \E request \in Requests : ListOrUpdatePolicies(c, request)
  <2> PICK request \in Requests : ListOrUpdatePolicies(c, request)
    BY <1>2
  <2> DEFINE t == [Idle EXCEPT !.request = request]
  <2>1. /\ t \in Threads /\ t.request = request /\ t.sent = None /\ t.result = None
        /\ t.results = [id \in Ids |-> None]
    BY IdleType DEF Threads, Idle
  <2>2. Begin(c, WithRows(t)) /\ ~Active(c) /\ queue' = queue /\ request.cmd # "passphrase"
    BY DEF ListOrUpdatePolicies
  <2> HIDE DEF t
  <2>3. WithRows(t) \in Threads
    BY <2>1, WithRowsType DEF TypeOK
  <2>4. ThreadOK(WithRows(t)) /\ WithRows(t).pc = "next"
    BY <2>1, <2>2, WithRowsOK
  <2> QED
    BY <2>2, <2>3, <2>4, BeginChannel
<1> QED
  BY <1>1, <1>2

\* A thread sends one command, waits for its reply and takes it.
LEMMA ThreadChannel ==
    ASSUME TypeOK, RepliesMatch, ChannelOK, NEW c \in Clients, ThreadStep(c)
    PROVE  RepliesMatch' /\ ChannelOK'
<1> DEFINE t == threads[c]
<1>1. t \in Threads /\ ThreadOK(t)
  BY DEF TypeOK, ChannelOK
<1>2. CASE \E committed \in BOOLEAN : SavePassphrase(c, committed)
  <2> DEFINE u == [t EXCEPT !.pc = "load"]
  <2>1. t.pc = "save" /\ queue' = queue /\ (SetThread(c, u) \/ SetThread(c, Idle))
    BY <1>2 DEF SavePassphrase
  <2>2. /\ u.pc = "load" /\ u.request = t.request /\ u.hash = t.hash /\ u.todo = t.todo
        /\ u.results = t.results /\ u.sent = t.sent /\ u.result = t.result
    BY <1>1 DEF Threads
  <2> HIDE DEF u
  <2>3. ThreadOK(u)
    BY <1>1, <2>1, <2>2 DEF ThreadOK
  <2> QED
    BY <2>1, <2>2, <2>3, IdleOK, SetThreadChannel
<1>3. CASE \E readable \in BOOLEAN : LoadCredentials(c, readable)
  <2>1. t.pc = "load" /\ queue' = queue /\ (SetThread(c, WithRows(t)) \/ SetThread(c, Idle))
    BY <1>3 DEF LoadCredentials
  <2>2. ThreadOK(WithRows(t)) /\ WithRows(t).pc = "next"
    BY <1>1, <2>1, WithRowsOK DEF ThreadOK
  <2> QED
    BY <2>1, <2>2, IdleOK, SetThreadChannel
<1>4. CASE Receive(c)
  <2> DEFINE u == [t EXCEPT !.pc = "next", !.results[t.sent] = t.result, !.result = None,
                            !.sent = None]
  <2>1. t.pc = "wait" /\ t.result # None /\ queue' = queue /\ SetThread(c, u)
    BY <1>4 DEF Receive
  <2>2. /\ u.pc = "next" /\ u.request = t.request /\ u.hash = t.hash /\ u.todo = t.todo
        /\ u.results = [t.results EXCEPT ![t.sent] = t.result]
        /\ u.sent = None /\ u.result = None
    BY <1>1 DEF Threads
  <2>3. t.sent \notin t.todo /\ t.todo \subseteq Ids /\ t.results \in [Ids -> Statuses \cup {None}]
    BY <1>1, <2>1 DEF ThreadOK, Threads
  <2> HIDE DEF u
  <2>4. \A id \in u.todo : u.results[id] = None
    BY <1>1, <2>2, <2>3 DEF ThreadOK
  <2>5. ThreadOK(u)
    BY <1>1, <2>1, <2>2, <2>4 DEF ThreadOK
  <2> QED
    BY <2>1, <2>2, <2>5, SetThreadChannel
<1>5. CASE Respond(c)
  BY <1>5, IdleOK, SetThreadChannel DEF Respond
<1>6. CASE \E id \in Ids : NextCredential(c, id)
  <2> PICK id \in Ids : NextCredential(c, id)
    BY <1>6
  <2> DEFINE known == Known(t.request, t.rows[id])
             u1 == [t EXCEPT !.todo = @ \ {id}, !.rows[id] = None, !.results[id] = known]
             u2 == [t EXCEPT !.pc = "wait", !.todo = @ \ {id}, !.rows[id] = None, !.sent = id]
             cmd == Command(c, Kind(t.request.cmd), id, t.rows[id].recovery, t.hash)
  <2>1. t.pc = "next" /\ id \in t.todo /\ t.results[id] = None
        /\ t.results \in [Ids -> Statuses \cup {None}] /\ t.sent = None /\ t.result = None
    BY <1>1 DEF NextCredential, ThreadOK, Threads
  <2>2. CASE known # None
    <3>1. SetThread(c, u1) /\ queue' = queue
      BY <2>2 DEF NextCredential
    <3>2. /\ u1.pc = "next" /\ u1.request = t.request /\ u1.hash = t.hash
          /\ u1.todo = t.todo \ {id} /\ u1.sent = None /\ u1.result = None
          /\ u1.results = [t.results EXCEPT ![id] = known]
      BY <1>1, <2>1 DEF Threads
    <3> HIDE DEF u1, known
    <3>3. \A x \in u1.todo : u1.results[x] = None
      BY <1>1, <2>1, <3>2 DEF ThreadOK
    <3>4. ThreadOK(u1)
      BY <1>1, <2>1, <3>2, <3>3 DEF ThreadOK
    <3> QED
      BY <2>1, <3>1, <3>2, <3>4, SetThreadChannel
  <2>3. CASE known = None
    <3>1. SetThread(c, u2) /\ queue' = Append(queue, cmd)
      BY <2>3 DEF NextCredential
    <3>2. /\ u2.pc = "wait" /\ u2.request = t.request /\ u2.hash = t.hash
          /\ u2.todo = t.todo \ {id} /\ u2.sent = id /\ u2.result = None
          /\ u2.results = t.results
      BY <1>1, <2>1 DEF Threads
    <3>3. cmd.client = c /\ cmd.id = id /\ cmd.kind = Kind(t.request.cmd) /\ cmd.hash = t.hash
      BY DEF Command
    <3>4. cmd.kind # "digest" => cmd.key \in Slots
      BY <1>1, <2>3 DEF Command, Kind, Known, Threads, Rows
    <3> HIDE DEF u2, known, cmd
    <3>5. ThreadOK(u2)
      BY <1>1, <2>1, <3>2 DEF ThreadOK
    <3>6. threads'[c] = u2 /\ \A d \in Clients \ {c} : threads'[d] = threads[d]
      BY <3>1 DEF SetThread, TypeOK
    <3>7. \A i \in DOMAIN queue : queue[i].client \in Clients \ {c}
      BY <2>1, QueueTypes DEF RepliesMatch
    <3>8. /\ DOMAIN queue' = DOMAIN queue \cup {Len(queue) + 1}
          /\ Len(queue) + 1 \notin DOMAIN queue
          /\ queue'[Len(queue) + 1] = cmd
          /\ \A i \in DOMAIN queue : queue'[i] = queue[i]
      BY <3>1 DEF TypeOK
    <3>9. RepliesMatch'
      BY <3>2, <3>3, <3>6, <3>7, <3>8 DEF RepliesMatch
    <3>10. (\A i \in DOMAIN queue : CommandOK(queue[i]))'
      BY <3>2, <3>3, <3>4, <3>6, <3>7, <3>8 DEF ChannelOK, CommandOK
    <3>11. \A d \in Clients : ThreadOK(threads'[d])
      BY <3>5, <3>6 DEF ChannelOK
    <3> QED
      BY <3>9, <3>10, <3>11 DEF ChannelOK
  <2> QED
    BY <2>2, <2>3
<1> QED
  BY <1>2, <1>3, <1>4, <1>5, <1>6 DEF ThreadStep

\* The main loop takes the first command and answers the thread that waits for it.
LEMMA CommandChannel ==
    ASSUME TypeOK, RepliesMatch, ChannelOK, NEW ok \in BOOLEAN, HandleCommand(ok)
    PROVE  RepliesMatch' /\ ChannelOK'
<1> DEFINE command == Head(queue)
           c == command.client
           t == threads[c]
<1>1. command \in TpmCommands /\ 1 \in DOMAIN queue /\ command = queue[1]
  BY DEF HandleCommand, TypeOK
<1>2. c \in Clients
  BY <1>1 DEF TpmCommands
<1>3. /\ DOMAIN queue' = {i \in Nat \ {0} : i + 1 \in DOMAIN queue}
      /\ \A i \in DOMAIN queue' : queue'[i] = queue[i + 1]
  BY DEF HandleCommand, TypeOK
<1>4. t.pc = "wait" /\ t.result = None /\ t \in Threads /\ ThreadOK(t)
  BY <1>1, <1>2 DEF RepliesMatch, ChannelOK, TypeOK
<1>5. PICK r \in {"ok", "error"} : threads' = [threads EXCEPT ![c].result = r]
  BY DEF HandleCommand, Answered
<1> DEFINE u == [t EXCEPT !.result = r]
<1>6. threads'[c] = u /\ \A d \in Clients \ {c} : threads'[d] = threads[d]
  BY <1>2, <1>5 DEF TypeOK
<1>7. /\ u.pc = "wait" /\ u.request = t.request /\ u.hash = t.hash /\ u.todo = t.todo
      /\ u.results = t.results /\ u.sent = t.sent /\ u.result = r /\ r # None
  BY <1>4 DEF Threads
<1> HIDE DEF u
<1>8. ThreadOK(u)
  BY <1>4, <1>7 DEF ThreadOK
<1>9. \A i \in DOMAIN queue' : i + 1 \in DOMAIN queue /\ queue[i + 1].client \in Clients \ {c}
  <2>1. \A i \in DOMAIN queue' : i + 1 \in DOMAIN queue /\ i + 1 # 1
    BY <1>3
  <2> QED
    BY <1>1, <2>1, QueueTypes DEF RepliesMatch
<1> HIDE DEF command, c, t
<1>10. RepliesMatch'
  <2>1. (\A i \in DOMAIN queue :
            LET v == threads[queue[i].client]
            IN  v.pc = "wait" /\ v.result = None /\ v.sent = queue[i].id)'
    BY <1>3, <1>6, <1>9 DEF RepliesMatch
  <2>2. (\A i, j \in DOMAIN queue : queue[i].client = queue[j].client => i = j)'
    <3> SUFFICES ASSUME NEW i \in DOMAIN queue', NEW j \in DOMAIN queue',
                        queue'[i].client = queue'[j].client
                 PROVE  i = j
      OBVIOUS
    <3>1. i \in Nat /\ j \in Nat /\ i + 1 = j + 1
      BY <1>3, <1>9 DEF RepliesMatch
    <3> QED
      BY <3>1
  <2>3. (\A d \in Clients :
            LET v == threads[d]
            IN  /\ v.result # None => v.pc = "wait"
                /\ v.pc = "wait" /\ v.result = None => \E i \in DOMAIN queue : queue[i].client = d)'
    <3> SUFFICES ASSUME NEW d \in Clients
                 PROVE  /\ threads'[d].result # None => threads'[d].pc = "wait"
                        /\ threads'[d].pc = "wait" /\ threads'[d].result = None =>
                              \E i \in DOMAIN queue' : queue'[i].client = d
      OBVIOUS
    <3>1. CASE d = c
      BY <1>6, <1>7, <3>1
    <3>2. CASE d # c
      <4>1. threads'[d] = threads[d]
        BY <1>6, <3>2
      <4>2. ASSUME threads[d].pc = "wait", threads[d].result = None
            PROVE  \E i \in DOMAIN queue' : queue'[i].client = d
        <5>1. PICK j \in DOMAIN queue : queue[j].client = d
          BY <4>2 DEF RepliesMatch
        <5>2. j # 1
          BY <1>1, <3>2, <5>1 DEF c
        <5>3. j \in Nat \ {0} /\ DOMAIN queue = 1..Len(queue) /\ Len(queue) \in Nat
          BY DEF TypeOK
        <5>4. j - 1 \in Nat \ {0} /\ (j - 1) + 1 = j
          BY <5>2, <5>3
        <5>5. j - 1 \in DOMAIN queue'
          BY <1>3, <5>4
        <5>6. queue'[j - 1].client = d
          BY <1>3, <5>1, <5>4, <5>5
        <5> QED
          BY <5>5, <5>6
      <4> QED
        BY <4>1, <4>2 DEF RepliesMatch
    <3> QED
      BY <3>1, <3>2
  <2> QED
    BY <2>1, <2>2, <2>3 DEF RepliesMatch
<1>11. (\A i \in DOMAIN queue : CommandOK(queue[i]))'
  BY <1>3, <1>6, <1>9 DEF ChannelOK, CommandOK
<1>12. \A d \in Clients : ThreadOK(threads'[d])
  BY <1>6, <1>8 DEF ChannelOK
<1> QED
  BY <1>10, <1>11, <1>12 DEF ChannelOK

\* Every step keeps the channel and its threads in agreement.
LEMMA ChannelStep ==
    ASSUME TypeOK, RepliesMatch, ChannelOK, [Next]_vars
    PROVE  RepliesMatch' /\ ChannelOK'
<1>1. CASE \E ok \in BOOLEAN : HandleCommand(ok)
  BY <1>1, CommandChannel
<1>2. CASE CtapCommand \/ (LoopStep /\ ~\E ok \in BOOLEAN : HandleCommand(ok))
  <2>1. queue' = queue /\ (threads' = threads \/ threads' = Overlapped)
    BY <1>2 DEF CtapCommand, LoopStep, OtherReport, GetAssertion, MakeCredential, Declined,
                Approved, SaveCredentials, Register, RegisterFails, UpdateUserInformation,
                DeleteCredential, Reset
  <2> QED
    BY <2>1, ChannelKept
<1>3. CASE \E booted, readable \in BOOLEAN : Restart(booted, readable)
  <2>1. queue' = <<>> /\ \A c \in Clients : threads'[c] = Idle
    BY <1>3 DEF Restart
  <2>2. RepliesMatch'
    BY <2>1 DEF RepliesMatch, Idle
  <2>3. \A c \in Clients : ThreadOK(threads'[c])
    BY <2>1, IdleOK
  <2> QED
    BY <2>1, <2>2, <2>3 DEF ChannelOK
<1>4. CASE UNCHANGED vars
  BY <1>4, ChannelKept DEF vars
<1> QED
  BY <1>1, <1>2, <1>3, <1>4, RequestChannel, ThreadChannel DEF Next

----------------------------------------------------------------------------
(* New salts are fresh *)

\* A passphrase change draws the next salt.
LEMMA NewSalt ==
    ASSUME TypeOK, SaltsFresh, NEW c \in Clients, NEW old \in Passphrases \cup {None},
           NEW new \in Passphrases, UpdatePassphrase(c, old, new)
    PROVE  SaltsFresh'
<1>0. PICK n : n = salts + 1
  OBVIOUS
<1> DEFINE h == [passphrase |-> new, salt |-> n]
           r == [cmd |-> "passphrase", old |-> None, target |-> Ids]
           u == [Idle EXCEPT !.pc = "save", !.request = r, !.hash = h]
<1>1. salts \in 0..MAX_SALTS /\ salts < MAX_SALTS /\ salts' = n /\ Begin(c, u)
      /\ UNCHANGED <<daemon_passphrase, main, store, credentials>>
  BY <1>0 DEF UpdatePassphrase, TypeOK
<1>2. salts \in Nat /\ n \in 0..MAX_SALTS /\ salts < n
  BY <1>0, <1>1
<1>3. h \in Hashes
  BY <1>2 DEF Hashes
<1>4. u \in Threads /\ u.hash = h
  BY <1>3, UpdateType DEF Idle
<1> HIDE DEF u
<1>5. \A hash \in Hashes \cup {None} : Drawn(hash) => Drawn(hash)'
  BY <1>1, <1>2 DEF Drawn, Hashes
<1>6. \A row \in Rows \cup {None} : RowDrawn(row) => RowDrawn(row)'
  BY <1>5 DEF RowDrawn, Rows, Slots
<1>7. Drawn(h)'
  BY <1>1, <1>2 DEF Drawn
<1>8. \A d \in Clients : threads'[d].hash = IF d = c THEN h ELSE threads[d].hash
  <2>1. \A v \in Threads, b \in BOOLEAN : [v EXCEPT !.alone = b].hash = v.hash
    BY DEF Threads
  <2> HIDE DEF h
  <2> QED
    BY <1>1, <1>4, <2>1 DEF Begin, TypeOK
<1> HIDE DEF h
<1>9. \A d \in Clients : threads[d].hash \in Hashes \cup {None}
  BY DEF TypeOK, Threads
<1>10. \A d \in Clients : Drawn(threads[d].hash)'
  <2> SUFFICES ASSUME NEW d \in Clients
               PROVE  Drawn(threads[d].hash)'
    OBVIOUS
  <2>1. CASE d = c
    BY <1>7, <1>8, <2>1 DEF Drawn
  <2>2. CASE d # c
    BY <1>5, <1>8, <1>9, <2>2 DEF SaltsFresh, Drawn
  <2> QED
    BY <2>1, <2>2
<1>11. Drawn(daemon_passphrase)' /\ Drawn(main.hash)'
  BY <1>1, <1>5 DEF SaltsFresh, TypeOK, Drawn
<1>12. \A id \in Ids : RowDrawn(store[id])' /\ RowDrawn(credentials[id])'
  BY <1>1, <1>6 DEF SaltsFresh, TypeOK, RowDrawn, Drawn
<1> QED
  BY <1>10, <1>11, <1>12 DEF SaltsFresh

\* All other hashes are copies: every step keeps the salts fresh.
LEMMA SaltsStep ==
    ASSUME TypeOK, RepliesMatch, ChannelOK, SaltsFresh, [Next]_vars
    PROVE  SaltsFresh'
<1> DEFINE RowsDrawn(rows) == \A id \in Ids : RowDrawn(rows[id])
<1>1. RowsDrawn(store) /\ RowsDrawn(credentials) /\ RowDrawn(None)
      /\ Drawn(daemon_passphrase) /\ Drawn(main.hash) /\ Drawn(None)
  BY DEF SaltsFresh, RowDrawn, Drawn
<1>2. ASSUME salts' = salts, RowsDrawn(store'), RowsDrawn(credentials'),
             Drawn(daemon_passphrase'), Drawn(main'.hash),
             \A c \in Clients : threads'[c].hash \in {threads[c].hash, None}
      PROVE  SaltsFresh'
  BY <1>1, <1>2 DEF SaltsFresh, RowDrawn, Drawn
<1>3. \A c \in Clients : Overlapped[c].hash = threads[c].hash
  BY DEF Overlapped, TypeOK, Threads
<1>4. \A at : Loop(at).hash = None
  BY DEF Loop
<1>5. Idle.hash = None
  BY DEF Idle
<1>6. CASE \E c \in Clients, old \in Passphrases \cup {None}, new \in Passphrases :
              UpdatePassphrase(c, old, new)
  BY <1>6, NewSalt
<1>7. CASE \E c \in Clients, request \in Requests : ListOrUpdatePolicies(c, request)
  <2> PICK c \in Clients, request \in Requests : ListOrUpdatePolicies(c, request)
    BY <1>7
  <2> DEFINE t == [Idle EXCEPT !.request = request]
  <2>1. t \in Threads /\ t.request = request /\ t.hash = None
    BY IdleType DEF Threads, Idle
  <2>2. Begin(c, WithRows(t))
        /\ UNCHANGED <<salts, store, credentials, daemon_passphrase, main>>
    BY DEF ListOrUpdatePolicies
  <2> HIDE DEF t
  <2>3. WithRows(t) \in Threads /\ WithRows(t).hash = None
    <3>1. WithRows(t) \in Threads
      BY <2>1, WithRowsType DEF TypeOK
    <3> QED
      BY <2>1, <3>1 DEF WithRows, Threads
  <2>4. \A v \in Threads, b \in BOOLEAN : [v EXCEPT !.alone = b].hash = v.hash
    BY DEF Threads
  <2>5. \A d \in Clients : threads'[d].hash \in {threads[d].hash, None}
    BY <2>2, <2>3, <2>4 DEF Begin, TypeOK
  <2> QED
    BY <1>1, <1>2, <2>2, <2>5
<1>8. CASE \E c \in Clients : ThreadStep(c)
  <2> PICK c \in Clients : ThreadStep(c)
    BY <1>8
  <2> DEFINE t == threads[c]
  <2>1. t \in Threads /\ Drawn(t.hash)
    BY DEF TypeOK, SaltsFresh
  <2>2. ASSUME NEW u, SetThread(c, u), u.hash \in {t.hash, None},
               UNCHANGED <<salts, store, credentials, main>>, Drawn(daemon_passphrase')
        PROVE  SaltsFresh'
    BY <1>1, <1>2, <2>2 DEF SetThread, TypeOK
  <2>3. CASE \E committed \in BOOLEAN : SavePassphrase(c, committed)
    <3> DEFINE u == [t EXCEPT !.pc = "load"]
    <3>1. u.hash = t.hash
      BY <2>1 DEF Threads
    <3>2. UNCHANGED <<salts, store, credentials, main>>
          /\ \/ SetThread(c, u) /\ daemon_passphrase' = t.hash
             \/ SetThread(c, Idle) /\ daemon_passphrase' = daemon_passphrase
      BY <2>3 DEF SavePassphrase
    <3> HIDE DEF u
    <3>3. Drawn(daemon_passphrase')
      BY <1>1, <2>1, <3>2
    <3> QED
      BY <1>5, <2>2, <3>1, <3>2, <3>3
  <2>4. CASE \E readable \in BOOLEAN : LoadCredentials(c, readable)
    <3>1. WithRows(t).hash = t.hash
      BY <2>1 DEF WithRows, Threads
    <3> QED
      BY <1>1, <1>5, <2>2, <2>4, <3>1 DEF LoadCredentials
  <2>5. CASE \E id \in Ids : NextCredential(c, id)
    <3> PICK id \in Ids : NextCredential(c, id)
      BY <2>5
    <3> DEFINE known == Known(t.request, t.rows[id])
               u1 == [t EXCEPT !.todo = @ \ {id}, !.rows[id] = None, !.results[id] = known]
               u2 == [t EXCEPT !.pc = "wait", !.todo = @ \ {id}, !.rows[id] = None, !.sent = id]
    <3>1. u1.hash = t.hash /\ u2.hash = t.hash
      BY <2>1 DEF Threads
    <3>2. (SetThread(c, u1) \/ SetThread(c, u2))
          /\ UNCHANGED <<salts, store, credentials, daemon_passphrase, main>>
      BY DEF NextCredential
    <3> HIDE DEF u1, u2
    <3> QED
      BY <1>1, <2>2, <3>1, <3>2
  <2>6. CASE Receive(c)
    <3> DEFINE u == [t EXCEPT !.pc = "next", !.results[t.sent] = t.result, !.result = None,
                              !.sent = None]
    <3>1. u.hash = t.hash
      BY <2>1 DEF Threads
    <3>2. SetThread(c, u) /\ UNCHANGED <<salts, store, credentials, daemon_passphrase, main>>
      BY <2>6 DEF Receive
    <3> HIDE DEF u
    <3> QED
      BY <1>1, <2>2, <3>1, <3>2
  <2>7. CASE Respond(c)
    BY <1>1, <1>5, <2>2, <2>7 DEF Respond
  <2> QED
    BY <2>3, <2>4, <2>5, <2>6, <2>7 DEF ThreadStep
<1>9. CASE \E ok \in BOOLEAN : HandleCommand(ok)
  <2> PICK ok \in BOOLEAN : HandleCommand(ok)
    BY <1>9
  <2> DEFINE command == Head(queue)
             done == ok /\ KeyOpens(command) /\ HasRow(command)
  <2>1. 1 \in DOMAIN queue /\ command = queue[1]
    BY DEF HandleCommand, TypeOK
  <2>2. command \in TpmCommands /\ command.client \in Clients /\ command.id \in Ids
    BY <2>1, QueueTypes DEF TpmCommands
  <2>3. Drawn(command.hash)
    BY <2>1, <2>2 DEF ChannelOK, CommandOK, SaltsFresh
  <2>4. RowsDrawn(store')
    <3>1. CASE ~done \/ command.kind = "digest"
      BY <1>1, <3>1 DEF HandleCommand, Executed
    <3>2. CASE done /\ command.kind = "policy"
      <4>1. store[command.id] \in Rows \ {None}
        BY <2>2, <3>2 DEF HasRow, TypeOK
      <4>2. RowDrawn([store[command.id] EXCEPT !.policy = TRUE])
        BY <1>1, <2>2, <4>1 DEF RowDrawn, Rows
      <4> QED
        BY <1>1, <2>2, <3>2, <4>2 DEF HandleCommand, Executed, UpdatePolicy, TypeOK
    <3>3. CASE done /\ command.kind = "passphrase"
      <4>1. store[command.id] \in Rows
        BY <2>2, <3>3 DEF HasRow, TypeOK
      <4>2. RowDrawn([store[command.id] EXCEPT
                         !.recovery = [hash |-> command.hash, auth |-> command.hash]])
        BY <2>3, <4>1 DEF RowDrawn, Rows
      <4> QED
        BY <1>1, <2>2, <3>3, <4>2 DEF HandleCommand, Executed, UpdateRecoverySlot, TypeOK
    <3> QED
      BY <2>2, <3>1, <3>2, <3>3 DEF TpmCommands
  <2>5. \A c \in Clients : threads'[c].hash = threads[c].hash
    <3>1. \A u \in Threads, r \in {"ok", "error"} : [u EXCEPT !.result = r].hash = u.hash
      BY DEF Threads
    <3> QED
      BY <2>2, <3>1 DEF HandleCommand, Answered, TypeOK
  <2>6. UNCHANGED <<salts, credentials, daemon_passphrase>> /\ main'.hash = None
    BY <1>4 DEF HandleCommand
  <2> QED
    BY <1>1, <1>2, <2>4, <2>5, <2>6
<1>10. CASE OtherReport \/ Declined \/ RegisterFails \/ MakeCredential
  BY <1>1, <1>2, <1>4, <1>10 DEF OtherReport, Declined, RegisterFails, MakeCredential
<1>11. CASE \E readable \in BOOLEAN : GetAssertion(readable)
  BY <1>1, <1>2, <1>4, <1>11 DEF GetAssertion
<1>12. CASE \E committed \in BOOLEAN : UpdateUserInformation(committed)
  BY <1>1, <1>2, <1>3, <1>4, <1>12 DEF UpdateUserInformation, SaveCredentials
<1>13. CASE \E id \in Ids : DeleteCredential(id)
  BY <1>1, <1>2, <1>4, <1>13 DEF DeleteCredential, TypeOK
<1>14. CASE \E failed \in SUBSET Ids : Reset(failed)
  BY <1>1, <1>2, <1>4, <1>14 DEF Reset
<1>15. CASE \E readable \in BOOLEAN : Approved(readable)
  BY <1>1, <1>2, <1>3, <1>15 DEF Approved
<1>16. CASE \E id \in Ids, committed \in BOOLEAN : Register(id, committed)
  <2> PICK id \in Ids, committed \in BOOLEAN : Register(id, committed)
    BY <1>16
  <2> DEFINE row == [policy |-> TRUE,
                     recovery |-> IF main.hash = None THEN None
                                  ELSE [hash |-> main.hash, auth |-> main.hash]]
             creds == [credentials EXCEPT ![id] = row]
  <2>1. RowDrawn(row)
    BY <1>1 DEF RowDrawn
  <2> HIDE DEF row
  <2>2. RowsDrawn(creds)
    BY <1>1, <2>1 DEF TypeOK
  <2>3. SaveCredentials(creds, committed) /\ UNCHANGED <<daemon_passphrase, salts>>
    BY DEF Register, row
  <2> HIDE DEF creds
  <2> QED
    BY <1>1, <1>2, <1>3, <1>4, <2>2, <2>3 DEF SaveCredentials
<1>17. CASE \E booted, readable \in BOOLEAN : Restart(booted, readable)
  <2>1. RowsDrawn(Booted(store))
    BY <1>1 DEF Booted, RowDrawn, TypeOK, Rows
  <2>2. RowsDrawn(store')
    BY <1>1, <1>17, <2>1 DEF Restart
  <2>3. RowsDrawn(credentials')
    BY <1>1, <1>17, <2>2 DEF Restart
  <2> QED
    BY <1>1, <1>2, <1>4, <1>5, <1>17, <2>2, <2>3 DEF Restart
<1>18. CASE UNCHANGED vars
  BY <1>1, <1>2, <1>18 DEF vars
<1> QED
  BY <1>6, <1>7, <1>8, <1>9, <1>10, <1>11, <1>12, <1>13, <1>14, <1>15, <1>16, <1>17, <1>18
     DEF Next, LoopStep, CtapCommand

----------------------------------------------------------------------------
(* What an update that nothing overlapped with has done *)

\* The part of Progress that is about the thread's own request.
Mine(t) ==
    /\ t.request.cmd = "policy" => PolicyProgress(t)
    /\ t.request.cmd = "passphrase" => PassphraseProgress(t)

\* A step that updates no row and starts no update: reports, deletions, and the threads
\* that list.
LEMMA ProgressKept ==
    ASSUME Progress, daemon_passphrase' = daemon_passphrase,
           main'.at = "register" => main.at = "register",
           \A id \in Ids : store'[id] = None \/ store'[id] = store[id],
           \A c \in Clients : threads'[c] = threads[c] \/ ~Updating(c)'
    PROVE  Progress'
<1> SUFFICES ASSUME NEW c \in Clients, Updating(c)', threads'[c].alone
             PROVE  /\ main'.at # "register"
                    /\ \A d \in Clients : Updating(d)' => d = c
                    /\ Mine(threads[c])'
  BY DEF Progress, Mine
<1>1. threads'[c] = threads[c]
  OBVIOUS
<1>2. \A d \in Clients : Updating(d)' => Updating(d)
  BY DEF Updating, Active
<1>3. main.at # "register" /\ (\A d \in Clients : Updating(d) => d = c) /\ Mine(threads[c])
  BY <1>1, <1>2 DEF Progress, Mine
<1>4. Mine(threads[c])'
  BY <1>1, <1>3 DEF Mine, PolicyProgress, PassphraseProgress, Done
<1> QED
  BY <1>2, <1>3, <1>4

\* A step of, or for, a thread that updates.
LEMMA ProgressOne ==
    ASSUME Progress, NEW c \in Clients, Updating(c),
           main'.at = "register" => main.at = "register",
           \A d \in Clients \ {c} : threads'[d] = threads[d],
           Updating(c)' /\ threads'[c].alone => threads[c].alone,
           Updating(c)' /\ threads'[c].alone /\ Mine(threads[c]) => Mine(threads[c])'
    PROVE  Progress'
<1> SUFFICES ASSUME NEW e \in Clients, Updating(e)', threads'[e].alone
             PROVE  /\ main'.at # "register"
                    /\ \A d \in Clients : Updating(d)' => d = e
                    /\ Mine(threads[e])'
  BY DEF Progress, Mine
<1>1. \A d \in Clients : d # c /\ Updating(d)' => Updating(d)
  BY DEF Updating, Active
<1>2. CASE e = c
  BY <1>1, <1>2 DEF Progress, Mine
<1>3. CASE e # c
  BY <1>1, <1>3 DEF Progress
<1> QED
  BY <1>2, <1>3

\* The start of an update.
LEMMA ProgressBegin ==
    ASSUME TypeOK, Progress, NEW c \in Clients, NEW t \in Threads, Begin(c, t),
           t.request.cmd # "list", ~Active(c), UNCHANGED main, Mine(threads[c])'
    PROVE  Progress'
<1> SUFFICES ASSUME NEW e \in Clients, Updating(e)', threads'[e].alone
             PROVE  /\ main'.at # "register"
                    /\ \A d \in Clients : Updating(d)' => d = e
                    /\ Mine(threads[e])'
  BY DEF Progress, Mine
<1> DEFINE overlaps == main.at = "register" \/ \E d \in Clients : Updating(d)
<1>1. \A u \in Threads, b \in BOOLEAN :
         [u EXCEPT !.alone = b].alone = b /\ [u EXCEPT !.alone = b].pc = u.pc
         /\ [u EXCEPT !.alone = b].request = u.request
  BY DEF Threads
<1>2. threads'[c] = [t EXCEPT !.alone = ~overlaps] /\ overlaps \in BOOLEAN
  BY DEF Begin
<1>3. \A d \in Clients : d # c => threads'[d] = IF Updating(d) THEN [threads[d] EXCEPT !.alone = FALSE]
                                                ELSE threads[d]
  BY DEF Begin
<1>4. \A d \in Clients : threads[d] \in Threads
  BY DEF TypeOK
<1>5. \A d \in Clients : d # c /\ Updating(d)' => Updating(d) /\ ~threads'[d].alone
  <2> SUFFICES ASSUME NEW d \in Clients, d # c, Updating(d)'
               PROVE  Updating(d) /\ ~threads'[d].alone
    OBVIOUS
  <2>1. CASE Updating(d)
    <3> DEFINE w == [threads[d] EXCEPT !.alone = FALSE]
    <3>1. w.alone = FALSE
      BY <1>4 DEF Threads
    <3>2. threads'[d] = w
      BY <1>3, <2>1
    <3> HIDE DEF w
    <3> QED
      BY <2>1, <3>1, <3>2
  <2>2. CASE ~Updating(d)
    BY <1>3, <2>2 DEF Updating, Active
  <2> QED
    BY <2>1, <2>2
<1>6. e = c
  BY <1>5
<1>7. ~overlaps
  <2> HIDE DEF overlaps
  <2> QED
    BY <1>1, <1>2, <1>6
<1> QED
  BY <1>5, <1>6, <1>7

\* The start of a request: no row has the new hash, and no result is known.
LEMMA RequestProgress ==
    ASSUME TypeOK, SaltsFresh, Progress, NEW c \in Clients,
           \/ \E old \in Passphrases \cup {None}, new \in Passphrases :
                 UpdatePassphrase(c, old, new)
           \/ \E request \in Requests : ListOrUpdatePolicies(c, request)
    PROVE  Progress'
<1>1. CASE \E old \in Passphrases \cup {None}, new \in Passphrases : UpdatePassphrase(c, old, new)
  <2> PICK old \in Passphrases \cup {None}, new \in Passphrases : UpdatePassphrase(c, old, new)
    BY <1>1
  <2>0. PICK n : n = salts + 1
    OBVIOUS
  <2> DEFINE h == [passphrase |-> new, salt |-> n]
             t == [Idle EXCEPT !.pc = "save",
                     !.request = [cmd |-> "passphrase", old |-> None, target |-> Ids], !.hash = h]
             u == threads'[c]
  <2>1. salts \in 0..MAX_SALTS /\ salts < MAX_SALTS /\ Begin(c, t) /\ ~Active(c)
        /\ UNCHANGED <<main, store, daemon_passphrase>>
    BY <2>0 DEF UpdatePassphrase, TypeOK
  <2>2. h \in Hashes /\ salts \in Nat /\ n \in Nat /\ salts < n
    BY <2>0, <2>1 DEF Hashes
  <2>3. t \in Threads
    BY <2>2, UpdateType
  <2>4. t.request.cmd = "passphrase" /\ t.pc = "save" /\ t.hash = h /\ t.sent = None
        /\ t.results = [id \in Ids |-> None]
    BY DEF Idle
  <2>5. \A id \in Ids : store[id] # None /\ store[id].recovery # None
           => store[id].recovery.hash # h
    <3> SUFFICES ASSUME NEW id \in Ids, store[id] # None, store[id].recovery # None,
                        store[id].recovery.hash = h
                 PROVE  FALSE
      OBVIOUS
    <3>1. Drawn(h)
      BY DEF SaltsFresh, RowDrawn
    <3>2. h # None /\ h.salt = n
      BY <2>2
    <3> QED
      BY <2>2, <3>1, <3>2 DEF Drawn
  <2> HIDE DEF t, h
  <2>6. u.request = t.request /\ u.pc = t.pc /\ u.hash = t.hash /\ u.sent = t.sent
        /\ u.results = t.results
    <3>1. \A b \in BOOLEAN : LET v == [t EXCEPT !.alone = b]
                             IN  v.request = t.request /\ v.pc = t.pc /\ v.hash = t.hash
                                 /\ v.sent = t.sent /\ v.results = t.results
      BY <2>3 DEF Threads
    <3> QED
      BY <2>1, <3>1 DEF Begin
  <2>7. \A id \in Ids : ~Done(u, id)
    BY <2>4, <2>6 DEF Done
  <2>8. Mine(threads[c])'
    BY <2>1, <2>4, <2>5, <2>6, <2>7 DEF Mine, PassphraseProgress
  <2> QED
    BY <2>1, <2>3, <2>4, <2>8, ProgressBegin
<1>2. CASE \E request \in Requests : ListOrUpdatePolicies(c, request)
  <2> PICK request \in Requests : ListOrUpdatePolicies(c, request)
    BY <1>2
  <2> DEFINE s == [Idle EXCEPT !.request = request]
             t == WithRows(s)
             u == threads'[c]
  <2>1. s \in Threads /\ s.request = request /\ s.sent = None
        /\ s.results = [id \in Ids |-> None]
    BY IdleType DEF Threads, Idle
  <2>2. Begin(c, t) /\ ~Active(c) /\ request.cmd # "passphrase"
        /\ UNCHANGED <<main, store, daemon_passphrase>>
    BY DEF ListOrUpdatePolicies
  <2> HIDE DEF s
  <2>3. t \in Threads
    BY <2>1, WithRowsType DEF TypeOK
  <2>4. t.request = request /\ t.sent = None /\ t.results = [id \in Ids |-> None]
    BY <2>1 DEF WithRows, Threads
  <2> HIDE DEF t
  <2>5. u.request = t.request /\ u.sent = t.sent /\ u.results = t.results
    <3>1. \A b \in BOOLEAN : LET v == [t EXCEPT !.alone = b]
                             IN  v.request = t.request /\ v.sent = t.sent
                                 /\ v.results = t.results
      BY <2>3 DEF Threads
    <3> QED
      BY <2>2, <3>1 DEF Begin
  <2>6. CASE request.cmd = "list"
    <3>1. \A d \in Clients : d # c => threads'[d] = threads[d]
      BY <2>2, <2>4, <2>6 DEF Begin
    <3>2. ~Updating(c)'
      BY <2>4, <2>5, <2>6 DEF Updating
    <3> QED
      BY <2>2, <3>1, <3>2, ProgressKept
  <2>7. CASE request.cmd # "list"
    <3>1. \A id \in Ids : ~Done(u, id)
      BY <2>4, <2>5 DEF Done
    <3>2. Mine(threads[c])'
      BY <2>2, <2>4, <2>5, <3>1 DEF Mine, PolicyProgress
    <3> QED
      BY <2>2, <2>3, <2>4, <2>7, <3>2, ProgressBegin
  <2> QED
    BY <2>6, <2>7
<1> QED
  BY <1>1, <1>2

\* A step of a thread: what is done does not change, only where the thread knows it from.
LEMMA ThreadProgress ==
    ASSUME TypeOK, ChannelOK, Progress, NEW c \in Clients, ThreadStep(c)
    PROVE  Progress'
<1> DEFINE t == threads[c]
<1>1. t \in Threads /\ ThreadOK(t) /\ t.pc # "idle" /\ threads \in [Clients -> Threads]
  BY DEF TypeOK, ChannelOK, ThreadStep, SavePassphrase, LoadCredentials, NextCredential,
         Receive, Respond
<1>2. UNCHANGED <<store, main>>
  BY DEF ThreadStep, SavePassphrase, LoadCredentials, NextCredential, Receive, Respond
<1>3. ASSUME NEW u, SetThread(c, u)
      PROVE  threads'[c] = u /\ \A d \in Clients \ {c} : threads'[d] = threads[d]
  BY <1>1, <1>3 DEF SetThread
<1>4. ASSUME SetThread(c, Idle), daemon_passphrase' = daemon_passphrase
      PROVE  Progress'
  <2>1. ~Updating(c)'
    BY <1>3, <1>4 DEF Updating, Active, Idle
  <2> QED
    BY <1>2, <1>3, <1>4, <2>1, ProgressKept
<1>5. ASSUME NEW u, SetThread(c, u), u.request = t.request, u.hash = t.hash,
             u.alone = t.alone, \A id \in Ids : Done(u, id) <=> Done(t, id),
             \/ daemon_passphrase' = daemon_passphrase /\ (t.pc = "save" => u.pc = "save")
             \/ daemon_passphrase' = t.hash /\ t.request.cmd = "passphrase"
      PROVE  Progress'
  <2>1. threads'[c] = u /\ \A d \in Clients \ {c} : threads'[d] = threads[d]
    BY <1>3, <1>5
  <2>2. CASE t.request.cmd = "list"
    <3>1. ~Updating(c)'
      BY <1>5, <2>1, <2>2 DEF Updating
    <3> QED
      BY <1>2, <1>5, <2>1, <2>2, <3>1, ProgressKept
  <2>3. CASE t.request.cmd # "list"
    <3>1. Updating(c)
      BY <1>1, <2>3 DEF Updating, Active
    <3>2. ASSUME Mine(threads[c])
          PROVE  Mine(threads[c])'
      <4>1. PolicyProgress(threads[c]) => PolicyProgress(threads[c])'
        BY <1>2, <1>5, <2>1 DEF PolicyProgress
      <4>2. PassphraseProgress(threads[c]) => PassphraseProgress(threads[c])'
        BY <1>2, <1>5, <2>1 DEF PassphraseProgress
      <4> QED
        BY <1>5, <2>1, <3>2, <4>1, <4>2 DEF Mine
    <3> QED
      BY <1>2, <1>5, <2>1, <3>1, <3>2, ProgressOne
  <2> QED
    BY <2>2, <2>3
<1>6. CASE \E committed \in BOOLEAN : SavePassphrase(c, committed)
  <2> DEFINE u == [t EXCEPT !.pc = "load"]
  <2>1. u.request = t.request /\ u.hash = t.hash /\ u.alone = t.alone /\ u.sent = t.sent
        /\ u.result = t.result /\ u.results = t.results
    BY <1>1 DEF Threads
  <2>2. \/ SetThread(c, u) /\ daemon_passphrase' = t.hash
        \/ SetThread(c, Idle) /\ daemon_passphrase' = daemon_passphrase
    BY <1>6 DEF SavePassphrase
  <2>3. t.request.cmd = "passphrase"
    BY <1>1, <1>6 DEF SavePassphrase, ThreadOK
  <2> HIDE DEF u
  <2>4. \A id \in Ids : Done(u, id) <=> Done(t, id)
    BY <2>1 DEF Done
  <2> QED
    BY <1>4, <1>5, <2>1, <2>2, <2>3, <2>4
<1>7. CASE \E readable \in BOOLEAN : LoadCredentials(c, readable)
  <2> DEFINE u == WithRows(t)
  <2>1. u.request = t.request /\ u.hash = t.hash /\ u.alone = t.alone /\ u.sent = t.sent
        /\ u.result = t.result /\ u.results = t.results
    BY <1>1 DEF WithRows, Threads
  <2>2. (SetThread(c, u) \/ SetThread(c, Idle)) /\ daemon_passphrase' = daemon_passphrase
        /\ t.pc # "save"
    BY <1>7 DEF LoadCredentials
  <2> HIDE DEF u
  <2>3. \A id \in Ids : Done(u, id) <=> Done(t, id)
    BY <2>1 DEF Done
  <2> QED
    BY <1>4, <1>5, <2>1, <2>2, <2>3
<1>8. CASE \E id \in Ids : NextCredential(c, id)
  <2> PICK id \in Ids : NextCredential(c, id)
    BY <1>8
  <2> DEFINE known == Known(t.request, t.rows[id])
             u1 == [t EXCEPT !.todo = @ \ {id}, !.rows[id] = None, !.results[id] = known]
             u2 == [t EXCEPT !.pc = "wait", !.todo = @ \ {id}, !.rows[id] = None, !.sent = id]
  <2>1. u1.request = t.request /\ u1.hash = t.hash /\ u1.alone = t.alone /\ u1.sent = t.sent
        /\ u1.result = t.result /\ u1.results = [t.results EXCEPT ![id] = known]
    BY <1>1 DEF Threads
  <2>2. u2.request = t.request /\ u2.hash = t.hash /\ u2.alone = t.alone /\ u2.sent = id
        /\ u2.result = t.result /\ u2.results = t.results
    BY <1>1 DEF Threads
  <2>3. (SetThread(c, u1) \/ SetThread(c, u2)) /\ daemon_passphrase' = daemon_passphrase
        /\ t.pc = "next" /\ id \in t.todo
    BY DEF NextCredential
  <2>4. known # "ok"
    BY DEF Known
  <2>5. t.results \in [Ids -> Statuses \cup {None}] /\ t.results[id] = None
        /\ t.sent = None /\ t.result = None
    BY <1>1, <2>3 DEF ThreadOK, Threads
  <2> HIDE DEF u1, u2, known
  <2>6. \A i \in Ids : (Done(u1, i) <=> Done(t, i)) /\ (Done(u2, i) <=> Done(t, i))
    BY <2>1, <2>2, <2>4, <2>5 DEF Done
  <2> QED
    BY <1>5, <2>1, <2>2, <2>3, <2>6
<1>9. CASE Receive(c)
  <2> DEFINE u == [t EXCEPT !.pc = "next", !.results[t.sent] = t.result, !.result = None,
                            !.sent = None]
  <2>1. u.request = t.request /\ u.hash = t.hash /\ u.alone = t.alone /\ u.sent = None
        /\ u.result = None /\ u.results = [t.results EXCEPT ![t.sent] = t.result]
    BY <1>1 DEF Threads
  <2>2. SetThread(c, u) /\ daemon_passphrase' = daemon_passphrase /\ t.pc = "wait"
    BY <1>9 DEF Receive
  <2>3. t.results \in [Ids -> Statuses \cup {None}] /\ t.sent \in Ids /\ t.results[t.sent] = None
    BY <1>1, <2>2 DEF ThreadOK, Threads
  <2> HIDE DEF u
  <2>4. \A id \in Ids : Done(u, id) <=> Done(t, id)
    BY <2>1, <2>3 DEF Done
  <2> QED
    BY <1>5, <2>1, <2>2, <2>4
<1>10. CASE Respond(c)
  BY <1>4, <1>10 DEF Respond
<1> QED
  BY <1>6, <1>7, <1>8, <1>9, <1>10 DEF ThreadStep

\* A command on the main loop: the row is updated exactly when the reply says so.
LEMMA CommandProgress ==
    ASSUME TypeOK, RepliesMatch, ChannelOK, Progress, NEW ok \in BOOLEAN, HandleCommand(ok)
    PROVE  Progress'
<1>0. PICK command, c : command = Head(queue) /\ c = command.client
  OBVIOUS
<1> DEFINE done == ok /\ KeyOpens(command) /\ HasRow(command)
           t == threads[c]
           r == IF done THEN "ok" ELSE "error"
           u == [t EXCEPT !.result = r]
<1>1. 1 \in DOMAIN queue /\ command = queue[1]
  BY <1>0 DEF HandleCommand, TypeOK
<1>2. command \in TpmCommands /\ c \in Clients /\ command.id \in Ids
  BY <1>0, <1>1, QueueTypes DEF TpmCommands
<1>3. t \in Threads /\ ThreadOK(t) /\ t.pc = "wait" /\ t.result = None /\ t.sent = command.id
  BY <1>0, <1>1, <1>2 DEF TypeOK, ChannelOK, RepliesMatch
<1>4. command.kind = Kind(t.request.cmd) /\ command.hash = t.hash
  BY <1>0, <1>1 DEF ChannelOK, CommandOK
<1>5. t.request.cmd \in {"list", "policy", "passphrase"} /\ t.results[command.id] = None
  BY <1>3 DEF ThreadOK, Requests
<1>6. threads'[c] = u /\ \A d \in Clients \ {c} : threads'[d] = threads[d]
  <2>1. threads' = [threads EXCEPT ![c].result = r]
    BY <1>0 DEF HandleCommand, Answered
  <2> HIDE DEF r
  <2> QED
    BY <1>2, <2>1 DEF TypeOK
<1>7. u.request = t.request /\ u.hash = t.hash /\ u.alone = t.alone /\ u.sent = command.id
      /\ u.result = r /\ u.results = t.results /\ u.pc = "wait"
  BY <1>3 DEF Threads
<1>8. daemon_passphrase' = daemon_passphrase /\ main'.at # "register"
      /\ store' = Executed(command, done)
  BY <1>0 DEF HandleCommand, Loop
<1>9. \A id \in Ids : (Done(u, id) <=> IF id = command.id THEN done ELSE Done(t, id))
                      /\ (id = command.id => ~Done(t, id))
  <2> HIDE DEF u, t, done
  <2> QED
    BY <1>3, <1>5, <1>7 DEF Done, t
<1> HIDE DEF u
<1>10. CASE t.request.cmd = "list"
  <2>1. store' = store
    BY <1>4, <1>8, <1>10 DEF Executed, Kind
  <2>2. ~Updating(c)'
    BY <1>6, <1>7, <1>10 DEF Updating
  <2> QED
    BY <1>6, <1>8, <2>1, <2>2, ProgressKept
<1>11. CASE t.request.cmd # "list"
  <2>1. Updating(c)
    BY <1>3, <1>11 DEF Updating, Active
  <2>2. ASSUME t.request.cmd = "policy", PolicyProgress(t)
        PROVE  PolicyProgress(threads[c])'
    <3>1. CASE ~done
      BY <1>6, <1>8, <1>9, <2>2, <3>1 DEF PolicyProgress, Executed
    <3>2. CASE done
      <4>1. store[command.id] \in Rows /\ store' = [store EXCEPT ![command.id].policy = TRUE]
        BY <1>2, <1>4, <1>8, <2>2, <3>2 DEF HasRow, Executed, UpdatePolicy, Kind, TypeOK
      <4>2. [store[command.id] EXCEPT !.policy = TRUE].policy = TRUE
        BY <4>1 DEF Rows
      <4>3. store'[command.id].policy = TRUE
            /\ \A id \in Ids : id # command.id => store'[id] = store[id]
        BY <1>2, <4>1, <4>2 DEF TypeOK
      <4> QED
        BY <1>6, <1>9, <2>2, <4>3 DEF PolicyProgress
    <3> QED
      BY <3>1, <3>2
  <2>3. ASSUME t.request.cmd = "passphrase", PassphraseProgress(t)
        PROVE  PassphraseProgress(threads[c])'
    <3>1. daemon_passphrase' = u.hash
      BY <1>3, <1>7, <1>8, <2>3 DEF PassphraseProgress
    <3>2. CASE ~done
      BY <1>6, <1>7, <1>8, <1>9, <2>3, <3>1, <3>2 DEF PassphraseProgress, Executed
    <3>3. CASE done
      <4> DEFINE slot == [hash |-> command.hash, auth |-> command.hash]
      <4>1. store[command.id] \in Rows /\ store' = [store EXCEPT ![command.id].recovery = slot]
        BY <1>2, <1>4, <1>8, <2>3, <3>3
           DEF HasRow, Executed, UpdateRecoverySlot, Kind, TypeOK
      <4>2. [store[command.id] EXCEPT !.recovery = slot].recovery = slot
        BY <4>1 DEF Rows
      <4>3. slot.hash = t.hash
        BY <1>4
      <4> HIDE DEF slot
      <4>4. store'[command.id].recovery.hash = t.hash
            /\ \A id \in Ids : id # command.id => store'[id] = store[id]
        BY <1>2, <4>1, <4>2, <4>3 DEF TypeOK
      <4>5. ASSUME NEW id \in Ids, store'[id] # None, store'[id].recovery # None
            PROVE  Done(u, id) <=> store'[id].recovery.hash = u.hash
        <5>1. CASE id = command.id
          BY <1>7, <1>9, <3>3, <4>4, <5>1
        <5>2. CASE id # command.id
          <6>1. store'[id] = store[id] /\ (Done(u, id) <=> Done(t, id))
            BY <1>9, <4>4, <5>2
          <6>2. Done(t, id) <=> store[id].recovery.hash = t.hash
            BY <2>3, <4>5, <6>1 DEF PassphraseProgress
          <6> QED
            BY <1>7, <6>1, <6>2
        <5> QED
          BY <5>1, <5>2
      <4> QED
        BY <1>6, <3>1, <4>5 DEF PassphraseProgress
    <3> QED
      BY <3>2, <3>3
  <2>4. Mine(threads[c]) => Mine(threads[c])'
    BY <1>6, <1>7, <2>2, <2>3 DEF Mine
  <2> QED
    BY <1>2, <1>6, <1>7, <1>8, <2>1, <2>4, ProgressOne
<1> QED
  BY <1>10, <1>11

\* Every step keeps Progress.
LEMMA ProgressStep ==
    ASSUME TypeOK, RepliesMatch, ChannelOK, SaltsFresh, Progress, [Next]_vars
    PROVE  Progress'
<1>1. ASSUME \A c \in Clients : Updating(c)' => ~threads'[c].alone
      PROVE  Progress'
  BY <1>1 DEF Progress
<1>2. ASSUME threads' = Overlapped
      PROVE  Progress'
  <2> SUFFICES ASSUME NEW c \in Clients, Updating(c)'
               PROVE  ~threads'[c].alone
    BY <1>1
  <2>1. CASE Updating(c)
    <3> DEFINE w == [threads[c] EXCEPT !.alone = FALSE]
    <3>1. w.alone = FALSE
      BY DEF TypeOK, Threads
    <3>2. threads'[c] = w
      BY <1>2, <2>1 DEF Overlapped
    <3> HIDE DEF w
    <3> QED
      BY <3>1, <3>2
  <2>2. CASE ~Updating(c)
    BY <1>2, <2>2 DEF Overlapped, Updating, Active
  <2> QED
    BY <2>1, <2>2
<1>3. \A at : Loop(at).at = at
  BY DEF Loop
<1>4. CASE \/ \E c \in Clients, old \in Passphrases \cup {None}, new \in Passphrases :
                 UpdatePassphrase(c, old, new)
           \/ \E c \in Clients, request \in Requests : ListOrUpdatePolicies(c, request)
  BY <1>4, RequestProgress
<1>5. CASE \E c \in Clients : ThreadStep(c)
  BY <1>5, ThreadProgress
<1>6. CASE \E ok \in BOOLEAN : HandleCommand(ok)
  BY <1>6, CommandProgress
<1>7. CASE OtherReport \/ Declined \/ RegisterFails \/ MakeCredential
           \/ \E readable \in BOOLEAN : GetAssertion(readable)
  BY <1>3, <1>7, ProgressKept
     DEF OtherReport, Declined, RegisterFails, MakeCredential, GetAssertion
<1>8. CASE \E id \in Ids : DeleteCredential(id)
  BY <1>3, <1>8, ProgressKept DEF DeleteCredential, TypeOK
<1>9. CASE \E failed \in SUBSET Ids : Reset(failed)
  BY <1>3, <1>9, ProgressKept DEF Reset
<1>10. CASE \/ \E readable \in BOOLEAN : Approved(readable)
            \/ \E committed \in BOOLEAN : UpdateUserInformation(committed)
            \/ \E id \in Ids, committed \in BOOLEAN : Register(id, committed)
  BY <1>2, <1>10 DEF Approved, UpdateUserInformation, Register, SaveCredentials
<1>11. CASE \E booted, readable \in BOOLEAN : Restart(booted, readable)
  BY <1>1, <1>11 DEF Restart, Updating, Active, Idle
<1>12. CASE UNCHANGED vars
  BY <1>12, ProgressKept DEF vars
<1> QED
  BY <1>4, <1>5, <1>6, <1>7, <1>8, <1>9, <1>10, <1>11, <1>12
     DEF Next, LoopStep, CtapCommand

----------------------------------------------------------------------------
(* The theorems *)

\* The daemon starts with the invariant, on a new database or on one whose credentials
\* are under one passphrase.
LEMMA InitInv == Init => IInv
<1> SUFFICES ASSUME Init
             PROVE  IInv
  OBVIOUS
<1>1. daemon_passphrase \in Hashes \cup {None} /\ Drawn(daemon_passphrase) /\ salts = 0
  BY DEF Init, Hashes, Drawn
<1>2. \A id \in Ids : /\ store[id] \in Rows \cup {None}
                      /\ RowOpens(store[id])
                      /\ RowDrawn(store[id])
  <2> SUFFICES ASSUME NEW id \in Ids, store[id] # None
               PROVE  /\ store[id] \in Rows
                      /\ SlotOpens(store[id].recovery)
                      /\ RowDrawn(store[id])
    BY DEF RowOpens, RowDrawn
  <2>1. daemon_passphrase \in Hashes
    BY <1>1 DEF Init
  <2>2. store[id] \in [policy : BOOLEAN,
                       recovery : {None, [hash |-> daemon_passphrase,
                                          auth |-> daemon_passphrase]}]
    BY DEF Init
  <2> QED
    BY <1>1, <2>1, <2>2 DEF Rows, Slots, SlotOpens, RowDrawn
<1>3. store \in [Ids -> Rows \cup {None}] /\ credentials = store
  BY <1>2 DEF Init
<1>4. queue = <<>> /\ (\A c \in Clients : threads[c] = Idle) /\ main = Loop("command")
      /\ threads \in [Clients -> Threads]
  BY IdleType DEF Init
<1>5. TypeOK
  BY <1>1, <1>3, <1>4 DEF Init, TypeOK, Loop
<1>6. SlotsOpen
  BY <1>2, <1>3, <1>4 DEF SlotsOpen, Idle, RowOpens
<1>7. RepliesMatch
  BY <1>4 DEF RepliesMatch, Idle
<1>8. ChannelOK
  BY <1>4, IdleOK DEF ChannelOK
<1>9. SaltsFresh
  BY <1>1, <1>2, <1>3, <1>4 DEF SaltsFresh, Drawn, Loop, Idle
<1>10. Progress
  BY <1>4 DEF Progress, Updating, Active, Idle
<1> QED
  BY <1>5, <1>6, <1>7, <1>8, <1>9, <1>10 DEF IInv

\* The inductive invariant holds in every reachable state.
THEOREM Invariance == Spec => []IInv
<1>1. IInv /\ [Next]_vars => IInv'
  <2> SUFFICES ASSUME IInv, [Next]_vars
               PROVE  IInv'
    OBVIOUS
  <2>1. TypeOK'
    BY TypeStep DEF IInv
  <2>2. SlotsOpen'
    BY SlotsStep DEF IInv
  <2>3. RepliesMatch' /\ ChannelOK'
    BY ChannelStep DEF IInv
  <2>4. SaltsFresh'
    BY SaltsStep DEF IInv
  <2>5. Progress'
    BY ProgressStep DEF IInv
  <2> QED
    BY <2>1, <2>2, <2>3, <2>4, <2>5 DEF IInv
<1> QED
  BY InitInv, <1>1, PTL DEF Spec

\* The management threads and the main loop only ever write well-typed rows: an update of
\* a recovery slot always has its hash, and an update of a policy its row.
THEOREM TypeCorrect == Spec => []TypeOK
<1>1. IInv => TypeOK
  BY DEF IInv
<1> QED
  BY Invariance, <1>1, PTL

\* Every recovery slot, stored, in memory, loaded by a thread or sent to the main loop,
\* opens with the passphrase its token was made from, whatever overlaps or crashes.
THEOREM SlotsWhole == Spec => []SlotsOpen
<1>1. IInv => SlotsOpen
  BY DEF IInv
<1> QED
  BY Invariance, <1>1, PTL

\* Every thread that waits on its reply channel has exactly one command or one reply.
THEOREM Replies == Spec => []RepliesMatch
<1>1. IInv => RepliesMatch
  BY DEF IInv
<1> QED
  BY Invariance, <1>1, PTL

\* No step of a thread that loaded the rows earlier, and no save_credentials, brings a
\* credential back that is in neither the store nor memory.
THEOREM Gone == Spec => GoneStaysGone
<1> DEFINE Stays == \A id \in issued : store[id] = None /\ credentials[id] = None
                                       => store'[id] = None /\ credentials'[id] = None
<1>1. IInv /\ [Next]_vars => Stays
  <2> SUFFICES ASSUME TypeOK, [Next]_vars, NEW id \in issued,
                      store[id] = None, credentials[id] = None
               PROVE  store'[id] = None /\ credentials'[id] = None
    BY DEF IInv
  <2>1. id \in Ids
    BY DEF TypeOK
  <2>2. CASE \E ok \in BOOLEAN : HandleCommand(ok)
    <3> PICK ok \in BOOLEAN : HandleCommand(ok)
      BY <2>2
    <3> DEFINE command == Head(queue)
               done == ok /\ KeyOpens(command) /\ HasRow(command)
    <3>1. command \in TpmCommands
      BY DEF HandleCommand, TypeOK
    <3>2. store' = store \/ store[command.id] # None
      BY <3>1 DEF HandleCommand, Executed, HasRow, TpmCommands
    <3>3. store' = store \/ id # command.id
      BY <3>2
    <3>4. store'[id] = store[id]
      BY <2>1, <3>3 DEF HandleCommand, Executed, UpdatePolicy, UpdateRecoverySlot, TypeOK
    <3> QED
      BY <3>4 DEF HandleCommand
  <2>3. CASE \E new \in Ids, committed \in BOOLEAN : Register(new, committed)
    BY <2>1, <2>3 DEF Register, SaveCredentials, TypeOK
  <2>4. CASE \E booted, readable \in BOOLEAN : Restart(booted, readable)
    <3>1. store'[id] = None
      BY <2>1, <2>4 DEF Restart, Booted
    <3> QED
      BY <2>1, <2>4, <3>1 DEF Restart
  <2>5. CASE CtapCommand
    BY <2>1, <2>5 DEF CtapCommand, GetAssertion, MakeCredential, UpdateUserInformation,
                      SaveCredentials, DeleteCredential, Reset, TypeOK
  <2>6. CASE UNCHANGED <<store, credentials>>
    BY <2>6
  <2>7. \/ \E c \in Clients, old \in Passphrases \cup {None}, new \in Passphrases :
              UpdatePassphrase(c, old, new)
        \/ \E c \in Clients, request \in Requests : ListOrUpdatePolicies(c, request)
        \/ \E c \in Clients : ThreadStep(c)
        \/ OtherReport \/ Declined \/ RegisterFails
        \/ \E readable \in BOOLEAN : Approved(readable)
        \/ UNCHANGED vars
        => UNCHANGED <<store, credentials>>
    BY DEF UpdatePassphrase, ListOrUpdatePolicies, ThreadStep, SavePassphrase,
           LoadCredentials, NextCredential, Receive, Respond, OtherReport, Declined,
           RegisterFails, Approved, vars
  <2> QED
    BY <2>2, <2>3, <2>4, <2>5, <2>6, <2>7 DEF Next, LoopStep
<1>2. Stays => [\A id \in issued : store[id] = None /\ credentials[id] = None
                   => store'[id] = None /\ credentials'[id] = None]_vars
  OBVIOUS
<1> QED
  BY Invariance, <1>1, <1>2, PTL DEF Spec, GoneStaysGone

\* The answer of an update that no other update and no registration overlapped with is
\* true of the store when it is sent.
THEOREM Results == Spec => ResultsTrue
<1> DEFINE True == \A c \in Clients :
          Responding(c) /\ threads[c].alone =>
             \A id \in Ids :
                LET status == threads[c].results[id]
                IN  store[id] # None =>
                    IF threads[c].request.cmd = "policy"
                    THEN status = "ok" => store[id].policy
                    ELSE store[id].recovery # None =>
                         (status = "ok" <=> store[id].recovery.hash = daemon_passphrase)
<1>1. IInv => True
  <2> SUFFICES ASSUME IInv, NEW c \in Clients, Respond(c), threads[c].request.cmd # "list",
                      threads[c].alone, NEW id \in Ids, store[id] # None
               PROVE  IF threads[c].request.cmd = "policy"
                      THEN threads[c].results[id] = "ok" => store[id].policy
                      ELSE store[id].recovery # None =>
                           (threads[c].results[id] = "ok"
                            <=> store[id].recovery.hash = daemon_passphrase)
    BY DEF Responding
  <2> DEFINE t == threads[c]
  <2>1. t.pc = "next" /\ Updating(c) /\ t.request \in Requests /\ t.result = None
    BY DEF Respond, Updating, Active, IInv, ChannelOK, ThreadOK
  <2>2. t.request.cmd \in {"policy", "passphrase"}
    BY <2>1 DEF Requests
  <2>3. (t.request.cmd = "policy" => PolicyProgress(t))
        /\ (t.request.cmd = "passphrase" => PassphraseProgress(t))
    BY <2>1 DEF IInv, Progress
  <2>4. Done(t, id) <=> t.results[id] = "ok"
    BY <2>1 DEF Done
  <2> QED
    BY <2>1, <2>2, <2>3, <2>4 DEF PolicyProgress, PassphraseProgress
<1> HIDE DEF True
<1>2. IInv /\ [Next]_vars => [True]_vars
  BY <1>1
<1> QED
  BY Invariance, <1>2, PTL DEF Spec, ResultsTrue, True

====
