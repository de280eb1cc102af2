----------------------------- MODULE Management ----------------------------
(***************************************************************************)
(* The management socket beside the main loop: one thread per client reads *)
(* and writes the SQLite store, and sends the TPM's share of its request   *)
(* over a channel to the main loop, which owns the TPM, takes one command  *)
(* per iteration and in between serves the HID device (src/management.rs,  *)
(* src/main.rs, handle_tpm_command of src/ctap2.rs, src/store.rs).         *)
(*                                                                         *)
(* A step of a thread reaches to its next use of the store or the channel. *)
(* What the TPM and SQLite answer are inputs.  The socket is for root, who *)
(* sees the rows of all users; one user registers credentials.  The PCRs   *)
(* change with a boot, so a policy is whether it approves those of now.  A *)
(* request that cannot be read or decoded is answered at once and touches  *)
(* nothing, and so is left out, like a client that does not wait for its   *)
(* answer.                                                                 *)
(***************************************************************************)
EXTENDS Naturals, Sequences

CONSTANTS
    Clients,      \* connections to the management socket
    Ids,          \* credential ids
    Passphrases,  \* recovery passphrases
    Targets,      \* sets of credentials update-pcr-policy may name
    MAX_SALTS,    \* passphrase changes that are explored
    Faults,       \* may the store or the TPM report errors, and the daemon crash?
    None          \* Option::None

ASSUME TargetsAssumption == Targets \subseteq SUBSET Ids

ASSUME BoundsAssumption == MAX_SALTS \in Nat /\ Faults \in BOOLEAN

ASSUME NoneAssumption ==
    /\ None \notin Passphrases \cup Ids \cup {"ok", "error", "skipped"}
    /\ None \notin [passphrase : Passphrases, salt : Nat]

VARIABLES
    daemon_passphrase,  \* the hash in daemon_config
    store,              \* per id: policy and recovery slot of its row
    credentials,        \* the same in memory, Authenticator.credentials
    issued,             \* ids of credentials created so far
    queue,              \* the TPM command channel
    threads,            \* per client: the thread that serves it
    main,               \* where the main loop is
    salts               \* salts drawn so far

vars == <<daemon_passphrase, store, credentials, issued, queue, threads, main, salts>>

----------------------------------------------------------------------------
(* The state *)

\* recovery_passphrase_hash: distinct for distinct passphrases and salts.
Hashes == [passphrase : Passphrases, salt : 0..MAX_SALTS]

\* StoredRecoverySlot: the passphrase hash of the token, and the auth value of the key
\* blob.
Slots == [hash : Hashes, auth : Hashes]

Rows == [policy : BOOLEAN, recovery : Slots \cup {None}]

\* What a thread keeps of its request; a passphrase that was never set is None.
Requests ==
    [cmd : {"list", "passphrase"}, old : {None}, target : {Ids}]
    \cup [cmd : {"policy"}, old : Passphrases \cup {None}, target : {Ids} \cup Targets]

Statuses == {"ok", "error", "skipped"}

\* A thread between two requests; alone is FALSE once another request or a
\* registration overlapped with this one (not in the code).
NoRequest == [cmd |-> "none", old |-> None, target |-> {}]

Idle == [pc |-> "idle", request |-> NoRequest, hash |-> None, rows |-> [id \in Ids |-> None],
         todo |-> {}, results |-> [id \in Ids |-> None], sent |-> None, result |-> None,
         alone |-> TRUE]

\* A variant of Command without the new hash.
CommandUnhashed(c, kind, id, key, hash) ==
    [client |-> c, kind |-> kind, id |-> id, key |-> key, hash |-> None]

\* TpmCommand: PassphraseChange, PcrPolicyUpdate and PcrDigestCheck, with the key as
\* the thread loaded it.
Command(c, kind, id, key, hash) ==
    [client |-> c, kind |-> kind, id |-> id, key |-> key, hash |-> hash]

Threads ==
    [pc : {"idle", "save", "load", "next", "wait"}, request : Requests \cup {NoRequest},
     hash : Hashes \cup {None}, rows : [Ids -> Rows \cup {None}], todo : SUBSET Ids,
     results : [Ids -> Statuses \cup {None}], sent : Ids \cup {None},
     result : {"ok", "error", None}, alone : BOOLEAN]

TpmCommands ==
    [client : Clients, kind : {"passphrase", "policy", "digest"}, id : Ids,
     key : Slots \cup {None}, hash : Hashes \cup {None}]

\* The state is well typed: no row is ever written without its hash or half a slot.
TypeOK ==
    /\ daemon_passphrase \in Hashes \cup {None}
    /\ store \in [Ids -> Rows \cup {None}]
    /\ credentials \in [Ids -> Rows \cup {None}]
    /\ issued \subseteq Ids
    /\ queue \in Seq(TpmCommands)
    /\ threads \in [Clients -> Threads]
    /\ main \in [at : {"command", "report", "approval", "register"}, hash : Hashes \cup {None}]
    /\ salts \in 0..MAX_SALTS

Loop(at) == [at |-> at, hash |-> None]

\* The daemon starts on a new database, or on one whose credentials were registered and
\* updated under one passphrase.
Init ==
    /\ daemon_passphrase \in [passphrase : Passphrases, salt : {0}] \cup {None}
    /\ store \in [Ids -> [policy : BOOLEAN,
                          recovery : {None, [hash |-> daemon_passphrase,
                                             auth |-> daemon_passphrase]}] \cup {None}]
    /\ daemon_passphrase = None => store = [id \in Ids |-> None]
    /\ credentials = store
    /\ issued = {id \in Ids : store[id] # None}
    /\ queue = <<>>
    /\ threads = [c \in Clients |-> Idle]
    /\ main = Loop("command")
    /\ salts = 0

Active(c) == threads[c].pc # "idle"

Updating(c) == Active(c) /\ threads[c].request.cmd # "list"

----------------------------------------------------------------------------
(* The threads: handle_client and the handlers dispatch calls *)

SetThread(c, t) == threads' = [threads EXCEPT ![c] = t]

\* serve accepts a connection and handle_client has read its request: thread t begins.
Begin(c, t) ==
    LET overlaps == main.at = "register" \/ \E d \in Clients : Updating(d)
        updates == t.request.cmd # "list"
    IN  threads' = [d \in Clients |->
            IF d = c THEN [t EXCEPT !.alone = ~(updates /\ overlaps)]
            ELSE IF updates /\ Updating(d) THEN [threads[d] EXCEPT !.alone = FALSE]
            ELSE threads[d]]

\* The old passphrase must be the daemon's, if it has one.
Accepted(old) == daemon_passphrase # None => old = daemon_passphrase.passphrase

\* handle_update_passphrase checks the old passphrase and hashes the new one, with a
\* fresh salt.  An error answer changes nothing.
UpdatePassphrase(c, old, new) ==
    /\ ~Active(c) /\ Accepted(old)
    /\ salts < MAX_SALTS
    /\ salts' = salts + 1
    /\ Begin(c, [Idle EXCEPT !.pc = "save",
           !.request = [cmd |-> "passphrase", old |-> None, target |-> Ids],
           !.hash = [passphrase |-> new, salt |-> salts + 1]])
    /\ UNCHANGED <<daemon_passphrase, store, credentials, issued, queue, main>>

\* The daemon's passphrase is saved first.
SavePassphrase(c, committed) ==
    LET t == threads[c]
    IN  /\ t.pc = "save"
        /\ committed \/ Faults
        /\ daemon_passphrase' = IF committed THEN t.hash ELSE daemon_passphrase
        /\ SetThread(c, IF committed THEN [t EXCEPT !.pc = "load"] ELSE Idle)
        /\ UNCHANGED <<store, credentials, issued, queue, main, salts>>

\* What a handler uses of the rows: list-credentials only asks which PCRs they select.
Loaded(cmd) ==
    IF cmd # "list" THEN store
    ELSE [id \in Ids |-> IF store[id] = None THEN None ELSE [policy |-> TRUE, recovery |-> None]]

\* The thread with all rows loaded, once, and the credentials it will visit; one that
\* update-pcr-policy names may have no row.
WithRows(t) ==
    [t EXCEPT !.pc = "next", !.rows = Loaded(t.request.cmd),
              !.todo = {id \in t.request.target : store[id] # None \/ t.request.cmd = "policy"}]

LoadCredentials(c, readable) ==
    /\ threads[c].pc = "load"
    /\ readable \/ Faults
    /\ SetThread(c, IF readable THEN WithRows(threads[c]) ELSE Idle)
    /\ UNCHANGED <<daemon_passphrase, store, credentials, issued, queue, main, salts>>

\* handle_list_credentials, handle_update_pcr_reference (all credentials) and
\* handle_update_pcr_policy begin with the load.
ListOrUpdatePolicies(c, request) ==
    /\ ~Active(c) /\ request.cmd # "passphrase"
    /\ Begin(c, WithRows([Idle EXCEPT !.request = request]))
    /\ UNCHANGED <<daemon_passphrase, store, credentials, issued, queue, main, salts>>

\* What is known of a credential before the TPM is asked: None if it has to be asked.
Known(request, row) ==
    IF row = None THEN "skipped"
    ELSE IF request.cmd = "list" THEN None
    ELSE IF row.recovery = None THEN "skipped"
    ELSE IF request.cmd = "policy" /\ row.recovery.hash.passphrase # request.old THEN "error"
    ELSE None

Kind(cmd) == IF cmd = "list" THEN "digest" ELSE cmd

\* The loop over the rows, each used once, in the order of their ids, which are random,
\* or of the request: a result at once, or a command to the main loop.
NextCredential(c, id) ==
    LET t == threads[c]
        row == t.rows[id]
        known == Known(t.request, row)
    IN  /\ t.pc = "next" /\ id \in t.todo
        /\ IF known # None
           THEN /\ SetThread(c, [t EXCEPT !.todo = @ \ {id}, !.rows[id] = None,
                                          !.results[id] = known])
                /\ UNCHANGED queue
           ELSE /\ SetThread(c, [t EXCEPT !.pc = "wait", !.todo = @ \ {id}, !.rows[id] = None,
                                          !.sent = id])
                /\ queue' = Append(queue,
                       Command(c, Kind(t.request.cmd), id, row.recovery, t.hash))
        /\ UNCHANGED <<daemon_passphrase, store, credentials, issued, main, salts>>

\* A variant of Receive that takes every answer for a success.
ReceiveOk(c) ==
    LET t == threads[c]
    IN  /\ t.pc = "wait" /\ t.result # None
        /\ SetThread(c, [t EXCEPT !.pc = "next", !.results[t.sent] = "ok",
                                  !.result = None, !.sent = None])
        /\ UNCHANGED <<daemon_passphrase, store, credentials, issued, queue, main, salts>>

\* recv on the command's reply channel.
Receive(c) ==
    LET t == threads[c]
    IN  /\ t.pc = "wait" /\ t.result # None
        /\ SetThread(c, [t EXCEPT !.pc = "next", !.results[t.sent] = t.result,
                                  !.result = None, !.sent = None])
        /\ UNCHANGED <<daemon_passphrase, store, credentials, issued, queue, main, salts>>

\* The answer with the results; the thread ends.
Respond(c) ==
    /\ threads[c].pc = "next" /\ threads[c].todo = {}
    /\ SetThread(c, Idle)
    /\ UNCHANGED <<daemon_passphrase, store, credentials, issued, queue, main, salts>>

----------------------------------------------------------------------------
(* The main loop: a command, then a report *)

\* A variant of UpdateRecoverySlot that leaves the key blob as it was.
UpdateRecoverySlotToken(id, auth, hash) ==
    [store EXCEPT ![id].recovery.hash = hash]

\* update_recovery_slot: the new key blob and the new token in one transaction.
UpdateRecoverySlot(id, auth, hash) ==
    [store EXCEPT ![id].recovery = [hash |-> hash, auth |-> auth]]

\* update_ctap2_policy: the policy update_authorized_policy signed for the PCRs of now.
UpdatePolicy(id) == [store EXCEPT ![id].policy = TRUE]

\* Does the store have what the command updates?
HasRow(command) ==
    \/ command.kind = "digest"
    \/ command.kind = "policy" /\ store[command.id] # None
    \/ /\ command.kind = "passphrase" /\ store[command.id] # None
       /\ store[command.id].recovery # None

\* A key blob opens with its own auth value; old blobs stay valid.
KeyOpens(command) == command.kind = "digest" \/ command.key.auth = command.key.hash

\* A variant of Executed that inserts or replaces the row with the updated policy.
ExecutedUpsert(command, done) ==
    IF command.kind # "policy" THEN store
    ELSE [store EXCEPT ![command.id] = [policy |-> TRUE, recovery |-> command.key]]

\* The rows after a command.
Executed(command, done) ==
    IF ~done \/ command.kind = "digest" THEN store
    ELSE IF command.kind = "policy" THEN UpdatePolicy(command.id)
    ELSE UpdateRecoverySlot(command.id, command.hash, command.hash)

\* A variant of Answered that drops the reply of a command that failed.
AnsweredIfDone(command, done) ==
    IF done THEN [threads EXCEPT ![command.client].result = "ok"] ELSE threads

\* The result, sent to the thread that waits for it.
Answered(command, done) ==
    [threads EXCEPT ![command.client].result = IF done THEN "ok" ELSE "error"]

\* try_recv finds a command: handle_tpm_command, and its result to the thread that sent
\* it.
HandleCommand(ok) ==
    LET command == Head(queue)
        done == ok /\ KeyOpens(command) /\ HasRow(command)
    IN  /\ main.at = "command" /\ queue # <<>>
        /\ ok \/ Faults
        /\ queue' = Tail(queue)
        /\ store' = Executed(command, done)
        /\ threads' = Answered(command, done)
        /\ main' = Loop("report")
        /\ UNCHANGED <<daemon_passphrase, credentials, issued, salts>>

\* The loop reads the UHID device after a command, or when try_recv finds none.
Reading == main.at = "report" \/ (main.at = "command" /\ queue = <<>>)

\* No report, another UHID event, or a CTAP command that leaves the rows alone.
OtherReport ==
    /\ Reading
    /\ main' = Loop("command")
    /\ UNCHANGED <<daemon_passphrase, store, credentials, issued, queue, threads, salts>>

\* getAssertion loads the rows again; a failed load leaves none.
GetAssertion(readable) ==
    /\ Reading /\ daemon_passphrase # None
    /\ readable \/ Faults
    /\ credentials' = IF readable THEN store ELSE [id \in Ids |-> None]
    /\ main' = Loop("command")
    /\ UNCHANGED <<daemon_passphrase, store, issued, queue, threads, salts>>

\* makeCredential, blocked until the user's answer.
MakeCredential ==
    /\ Reading /\ daemon_passphrase # None
    /\ main' = Loop("approval")
    /\ UNCHANGED <<daemon_passphrase, store, credentials, issued, queue, threads, salts>>

Declined ==
    /\ main.at = "approval"
    /\ main' = Loop("command")
    /\ UNCHANGED <<daemon_passphrase, store, credentials, issued, queue, threads, salts>>

\* The threads that update are not alone.
Overlapped == [c \in Clients |-> IF Updating(c) THEN [threads[c] EXCEPT !.alone = FALSE]
                                 ELSE threads[c]]

\* The user approves: the daemon's passphrase hash is read, for the recovery key.
Approved(readable) ==
    /\ main.at = "approval"
    /\ readable \/ Faults
    /\ main' = [at |-> "register", hash |-> IF readable THEN daemon_passphrase ELSE None]
    /\ threads' = Overlapped
    /\ UNCHANGED <<daemon_passphrase, store, credentials, issued, queue, salts>>

\* save_credentials: the table becomes what is in memory.
SaveCredentials(creds, committed) ==
    /\ committed \/ Faults
    /\ credentials' = creds
    /\ store' = IF committed THEN creds ELSE store
    /\ threads' = Overlapped
    /\ main' = Loop("command")

\* The keys are made and the credential is pushed and saved.
Register(id, committed) ==
    /\ main.at = "register" /\ id \notin issued
    /\ issued' = issued \cup {id}
    /\ SaveCredentials([credentials EXCEPT ![id] =
           [policy |-> TRUE,
            recovery |-> IF main.hash = None THEN None
                         ELSE [hash |-> main.hash, auth |-> main.hash]]], committed)
    /\ UNCHANGED <<daemon_passphrase, queue, salts>>

\* The TPM cannot make a key, or no id is left (the bound).
RegisterFails ==
    /\ main.at = "register" /\ (Faults \/ issued = Ids)
    /\ main' = Loop("command")
    /\ UNCHANGED <<daemon_passphrase, store, credentials, issued, queue, threads, salts>>

\* updateUserInformation saves the table.
UpdateUserInformation(committed) ==
    /\ Reading /\ \E id \in Ids : credentials[id] # None
    /\ SaveCredentials(credentials, committed)
    /\ UNCHANGED <<daemon_passphrase, issued, queue, salts>>

\* deleteCredential: the row, then the copy in memory.
DeleteCredential(id) ==
    /\ Reading /\ credentials[id] # None /\ store[id] # None
    /\ store' = [store EXCEPT ![id] = None]
    /\ credentials' = [credentials EXCEPT ![id] = None]
    /\ main' = Loop("command")
    /\ UNCHANGED <<daemon_passphrase, issued, queue, threads, salts>>

\* authenticatorReset deletes the credentials in memory row by row, whatever fails.
Reset(failed) ==
    /\ Reading
    /\ failed # {} => Faults
    /\ store' = [id \in Ids |-> IF credentials[id] # None /\ id \notin failed THEN None
                               ELSE store[id]]
    /\ credentials' = [id \in Ids |-> None]
    /\ main' = Loop("command")
    /\ UNCHANGED <<daemon_passphrase, issued, queue, threads, salts>>

\* A boot changes the PCRs.
Booted(rows) == [id \in Ids |-> IF rows[id] = None THEN None
                                ELSE [rows[id] EXCEPT !.policy = FALSE]]

\* The daemon ends, by a signal, an error of the UHID device or a power cut, and starts
\* again, perhaps after a boot: threads and channel are lost, memory is loaded,
\* or empty when that fails.
Restart(booted, readable) ==
    /\ Faults
    /\ store' = IF booted THEN Booted(store) ELSE store
    /\ credentials' = IF readable THEN store' ELSE [id \in Ids |-> None]
    /\ queue' = <<>>
    /\ threads' = [c \in Clients |-> Idle]
    /\ main' = Loop("command")
    /\ UNCHANGED <<daemon_passphrase, issued, salts>>

----------------------------------------------------------------------------

ThreadStep(c) ==
    \/ \E readable \in BOOLEAN : LoadCredentials(c, readable)
    \/ \E committed \in BOOLEAN : SavePassphrase(c, committed)
    \/ \E id \in Ids : NextCredential(c, id)
    \/ Receive(c)
    \/ Respond(c)

\* What the loop does without a new command of a CTAP client.
LoopStep ==
    \/ \E ok \in BOOLEAN : HandleCommand(ok)
    \/ OtherReport
    \/ \E readable \in BOOLEAN : Approved(readable)
    \/ Declined
    \/ \E id \in Ids, committed \in BOOLEAN : Register(id, committed)
    \/ RegisterFails

CtapCommand ==
    \/ \E readable \in BOOLEAN : GetAssertion(readable)
    \/ MakeCredential
    \/ \E committed \in BOOLEAN : UpdateUserInformation(committed)
    \/ \E id \in Ids : DeleteCredential(id)
    \/ \E failed \in SUBSET Ids : Reset(failed)

Next ==
    \/ \E c \in Clients, old \in Passphrases \cup {None}, new \in Passphrases :
          UpdatePassphrase(c, old, new)
    \/ \E c \in Clients, request \in Requests : ListOrUpdatePolicies(c, request)
    \/ \E c \in Clients : ThreadStep(c)
    \/ LoopStep
    \/ CtapCommand
    \/ \E booted, readable \in BOOLEAN : Restart(booted, readable)

Spec == Init /\ [][Next]_vars

\* The scheduler runs every thread, reads of UHID do not block, and a polkit dialog is
\* answered in the end.
FairSpec == Spec /\ WF_vars(LoopStep) /\ \A c \in Clients : WF_vars(ThreadStep(c))

----------------------------------------------------------------------------
(* Properties *)

\* A recovery slot can be opened with the passphrase its token was made from, wherever
\* it is: the row, the copy in memory, what a thread loaded and what it sent.
\* update_recovery_slot writes the blob and the token of a possibly older slot together,
\* and save_credentials may bring an older slot back, but always a whole one.
SlotOpens(slot) == slot = None \/ slot.auth = slot.hash

RowOpens(row) == row = None \/ SlotOpens(row.recovery)

SlotsOpen ==
    /\ \A id \in Ids : RowOpens(store[id]) /\ RowOpens(credentials[id])
    /\ \A c \in Clients, id \in Ids : RowOpens(threads[c].rows[id])
    /\ \A i \in DOMAIN queue : SlotOpens(queue[i].key)

\* A thread that waits on its reply channel has either one command in the channel or the
\* reply, never both and never two, and nobody else has any: no reply is lost or goes to
\* a later command of the same thread.
RepliesMatch ==
    /\ \A i \in DOMAIN queue :
          LET t == threads[queue[i].client]
          IN  t.pc = "wait" /\ t.result = None /\ t.sent = queue[i].id
    /\ \A i, j \in DOMAIN queue : queue[i].client = queue[j].client => i = j
    /\ \A c \in Clients :
          LET t == threads[c]
          IN  /\ t.result # None => t.pc = "wait"
              /\ t.pc = "wait" /\ t.result = None =>
                    \E i \in DOMAIN queue : queue[i].client = c

\* A credential that is in neither the store nor memory never comes back: the commands
\* of a thread that loaded its row before it was deleted find no row to update.
GoneStaysGone ==
    [][\A id \in issued :
          store[id] = None /\ credentials[id] = None
          => store'[id] = None /\ credentials'[id] = None]_vars

Responding(c) == Respond(c) /\ threads[c].request.cmd # "list"

\* The answer to a request that no other update and no registration overlapped with is
\* true of the store when it is sent: after update-passphrase the slots of the
\* credentials reported ok, and no other slots, are under the daemon's passphrase; the
\* policies that update-pcr-reference or update-pcr-policy reports ok approve this boot.
ResultsTrue ==
    [][\A c \in Clients :
          Responding(c) /\ threads[c].alone =>
             \A id \in Ids :
                LET status == threads[c].results[id]
                IN  store[id] # None =>
                    IF threads[c].request.cmd = "policy"
                    THEN status = "ok" => store[id].policy
                    ELSE store[id].recovery # None =>
                         (status = "ok" <=> store[id].recovery.hash = daemon_passphrase)]_vars

\* Every request is answered, or lost with the daemon: the main loop takes a command in
\* every iteration and answers those that fail.
RequestsAnswered == \A c \in Clients : threads[c].pc # "idle" ~> threads[c].pc = "idle"

\* When no update-passphrase is under way every recovery slot is under the daemon's
\* passphrase, with a TPM and a store that work and no crash: "Update per-credential
\* recovery passphrases to match the new daemon passphrase" (handle_update_passphrase).
SlotsFollowDaemon ==
    (\A c \in Clients : ~Updating(c)) =>
        \A id \in Ids : store[id] # None /\ store[id].recovery # None =>
                        store[id].recovery.hash = daemon_passphrase

====
