# Verification of linux-tpm-fido2 in TLA+

linux-tpm-fido2 is a daemon that shows up as a FIDO2 security key on a UHID
device. Credential keys live in the TPM, their metadata in an SQLite database,
and the user approves operations through polkit. This directory holds TLA+
models of its core, TLC runs on small instances, and TLAPS proofs that hold for
every instance. `PROJECT.json` maps each definition to the lines it models.

## The system

| Part | Source | State it owns | Model |
|---|---|---|---|
| CTAPHID framing | `src/ctaphid.rs` | request under way per channel, next channel id | `CtapHid`, implements `MessageDelivery` |
| clientPIN, pinUvAuthToken | `src/ctap2.rs` | PIN and retries, key agreement key, token | `ClientPin` |
| Credentials | `src/ctap2.rs` | credentials in memory, pending assertion, enumeration | `Credentials` |
| SQLite store | `src/store.rs` | `client_pin_state`, `credential_metadata`, keyslots, daemon passphrase | the rows, in the modules that use them |
| TPM commands on the main loop | `src/ctap2.rs`, `handle_tpm_command` | rows of the store | `Management` (channel and rows), `Tpm` (the commands), `Credentials` (the copy in memory) |
| Management socket | `src/management.rs` | one thread per client, a command channel to the main loop | `Management` |
| Main loop | `src/main.rs` | the loop over reports and TPM commands | `Management` |
| TPM objects and policies | `src/tpm.rs` | transient handles, sessions, PCR policies | `Tpm` |
| Approval, sessions | `src/approval.rs`, `src/polkit.rs`, `src/session.rs`, `src/systemd_logind.rs` | none (queries) | inputs of the actions |
| UHID device | `src/hid.rs`, `src/lib.rs` | none | not modelled |

The main loop reads one report at a time, hands it to `PacketHandler`, and runs
a complete request to its end before it reads the next. Between reports it
executes at most one TPM command of a management thread. So a handler is one
atomic action; concurrency enters through the order of packets of several
clients, through the management threads, and through everything that outlives a
handler: the rows of the store, the Vec of credentials, and the indexes into it.

## Modules

**`ClientPin`** has the PIN in memory (`client_pin`) and in its row (`stored`),
the holder of the current ephemeral key (`key_agreement`), the token, and three
history variables (`wrong`, `unset`, `agreed`). Each subcommand is an action,
and so are `validate_pin_uv_auth`, cancellation, reset, the passing of the
token's 600 seconds, and a restart. Each store write may fail. A PIN is an
opaque value; key derivation, AES and HMAC are represented by whether the
client's secret comes from the current key. A PIN hash encrypted under another
key decrypts to bytes that match no PIN, because `pinHashEnc` carries no MAC.

**`Credentials`** has the Vec (`credentials`), the table (`store`, a set of
rows), `pending_assertion` and `management`, the session's user, and the history
variables `registered` and `released`. An action is a whole command from
`handle_cbor` on, with the clearing of state at its beginning. Inputs are the
parameters, whether the TPM signed, whether SQLite committed, and what a load
returned. A `todo!()` or an index out of range is the status `"Panic"`, after
which only `Restart` is possible. The Vec of ascending indexes of a pending
assertion or an enumeration is the set of those indexes. `getAssertion` reloads
the credentials, as it does when the daemon has a TPM path. Commands that
`handle_cbor` does not know change nothing and are left out.

**`CtapHid`** has `PacketHandler`'s `pending` and `next_cid`, with clients that
send the packets of their messages in order. A payload is the sequence of the
packets it came from; lengths are numbers of bytes. **`MessageDelivery`** is what
framing promises: at most one message under way per channel, delivered whole, on
its own channel, in the order of the messages and at most once, or dropped. The
refinement maps the messages begun on a channel to `serial`, the message under
way to the one whose first packet `pending` starts with, and the last delivery to
the last request dispatched; a payload that is not exactly the packets of one
message maps to a value that is no message.

**`Management`** has the daemon's passphrase, the rows and their copies in
memory, a thread per client of the socket (`threads`: program counter, the rows
it loaded, results, the command it waits for), the command channel (`queue`) and
the place of the main loop (`main`). A thread's step ends at its next use of the
store or the channel, so that anything may happen in between: the main loop
executes commands in the order of the channel, registers (in two steps, around
the user's approval), saves, deletes and resets; writes and the TPM fail; the
daemon crashes and starts again, with or without a boot that changes the PCRs. A
hash is a passphrase with its salt; a slot is the hash of its token and the auth
value of its key blob. A policy is whether it approves the PCRs of this boot.
`alone` is a history variable: FALSE once another update or a registration
overlapped with the thread's request.

**`Tpm`** has the PCRs, the handles an operation holds (`open`) and those left
behind (`leaked`), the default selection and the one the daemon loaded, and for
each credential its policy, key and recovery slot. A method of `struct Tpm` is a
sequence of TPM commands; an action executes the next one, or lets it fail, and
PCRs change between any two. A policy digest is the sequence of assertions that
made it. `approved` is a history variable: the platform for which the credential
was registered or last updated.

`MC*` modules extend a specification for TLC. The `*Proofs` modules hold the
theorems; those of `Tpm` are in `TpmProofs`, over `TpmMethodProofs` (the invariant
and the methods of `struct Tpm`) and `TpmStepProofs` (one lemma per action), and
those of `Credentials` in `CredentialsProofs`, over `CredentialsDataProofs`. Operators commented "a variant of" are plausible mistakes, used to see
that a property can fail.

## Runs

| Run | Expected | Shows |
|---|---|---|
| `MCClientPin` | pass | `GuessBound`, `RestartKeepsPin`, `PinTokenNeedsPin`, `BlockedUntilReset`, `SetPinOnlyWhenUnset` with two clients, failing writes, unreadable rows, restarts |
| `MCClientPinShared` | violation | another channel's getKeyAgreement makes the right PIN count as wrong |
| `MCClientPinReset` | violation | reset answers success though the PIN row stays |
| `MCCredentials` | pass | `CounterPersisted`, `CounterAdvances`, `EnumerationExact`, `PendingKept` with failing writes and loads |
| `MCCredentialsOneUser` | pass | `RegisteredStored`, `CacheCoherent`, `ResetDeletesAll` with one user, a store that works and management updates |
| `MCCredentialsUsers` | violation | a registration removes other users' rows |
| `MCCredentialsDelete` | violation | a delete shifts the indexes of a pending assertion |
| `MCCtapHid` | pass | `DispatchedIntact`, `RefinesDelivery`, `MessageDispatched` with the code's own sizes, interleaved channels and clients that do not wait for answers |
| `MCCtapHidLossy` | pass | `DispatchedAligned` with lost packets and unknown commands, `CidsFresh` over an id space that wraps |
| `MCManagement` | pass | `SlotsOpen`, `RepliesMatch`, `GoneStaysGone`, `ResultsTrue`, `RequestsAnswered` with two clients, faults and crashes |
| `MCManagementSlots` | violation | a registration approved before a passphrase change stores its slot under the old passphrase |
| `MCTpm` | pass | `HandlesOpen`, `HandlesReleased`, `PackageUsable`, `SignsOnlyWhenApproved`, `ApprovedSigns` with every TPM command failing at any point and PCRs changing between any two |

The five violations are disagreements between the code and a comment or a checked
item of `agents/plan.md`; `PROJECT.json` quotes each under `findings`.

### Bounds

- `ClientPin`: two PINs tell right from wrong, two clients show interference, two
  permissions tell the one that needs an RP from one that does not. Three retries
  reach the blocked state with a failing write on the way.
- `Credentials`: two ids (three where an index must shift to another RP) and two RPs; counters
  saturate at 1 instead of `u32::MAX`; at most one management update per
  row (`MAX_UPDATES`). Ids are ordered numbers because loads are ordered.
- `CtapHid`: `MCCtapHid` uses 64-byte reports, 128 continuation packets and
  lengths next to the boundaries; only the channel ids are small. `MCCtapHidLossy`
  uses 8-byte reports (1 and 3 data bytes) and two continuation packets, which
  keep every boundary within reach of three messages. `MAX_MESSAGES` bounds the
  messages of a channel, and deadlock is not checked because clients stop there.
- `Management`: `MCManagement` has two clients, one credential and one passphrase
  change (`MAX_SALTS`): two updates, or an update and a registration, overlap. The
  theorems cover more of each; their invariant `IInv` was also checked with two
  changes, and with one client, two credentials and two passphrases.
- `Tpm`: one credential (operations are on one credential, and the daemon runs one
  at a time), two PCRs with two values, two selections. `MAX_OBJECTS` and
  `MAX_SESSIONS` of 3 let an operation run and are exhausted by the handles a few
  failed ones leave behind.

### Fairness

`MessageDispatched` and `RequestsAnswered` need it. For the first, a client that
started a message goes on with it, and the main loop reads what is sent, which it
does in an endless loop. For the second, every thread is scheduled and the main
loop goes on: reads of the UHID device do not block, and the polkit dialog, for
which the loop waits without a timeout, is answered in the end. Nothing is assumed
of starting messages, requests or CTAP commands, and nothing of the outcome of
any step.

### Conditions

`SetPinOnlyWhenUnset` has an exception: a PIN row that cannot be read at a start
counts as no PIN, and setPin then succeeds. `CacheCoherent`, `RegisteredStored`
and `ResetDeletesAll` need a store that works, since `save_credentials` and
`reset` go on after an error. The last two also need one user: a registration
removes the rows of the others (`MCCredentialsUsers`), and a reset leaves them. `RefinesDelivery` is for known commands
and packets that do not get lost: the protocol has no message numbers, so an
unknown command in the middle of a message, or a lost first packet, lets a later
packet with the right sequence number complete the older request.
`DispatchedAligned` is what remains then.

`ResultsTrue` is for requests nothing overlapped with: two updates at a time, or a
registration that saves the copies in memory, may undo what was reported.
`SlotsOpen` holds all the same, so each slot opens with some passphrase the daemon
had; `MCManagementSlots` shows that it need not be the daemon's present one. A
registration for which the daemon's passphrase cannot be read stores no recovery
slot (`ctap2.rs:447`), and later updates skip it.

`ApprovedSigns` excludes a daemon whose PCR selection is not the credential's:
`set-default-pcr-policy` takes effect at the next start, then for signing with
existing credentials too. `update-pcr-policy` ignores the indexes it is given
(`_pcr_indices` in `main.rs`), and an update signs for the daemon's selection, not
the stored one. `HandlesReleased` is for signing, whose handles are in guards, and
for methods that succeed: the error paths of the other methods leave handles open
until the daemon ends.

## Proofs

TLAPS proves for all constants that satisfy the named assumptions:

- `ClientPinProofs`: `TypeCorrect`, `GuessesBounded`, `RestartKeeps`, `PinTokens`
  from the invariant `IInv`, the conjunction of the four. They need each other:
  the row's retries are bounded in a wrong-PIN step only because memory and row
  hold the same PIN, and `wrong` stays in its range only because of the bound.
  `Blocked` follows from `GuessBound`: with `wrong = PIN_RETRIES` no retry is left
  in memory. `SetPinGuarded` adds that memory has a PIN unless `unset`.
  `AloneNotRefused` assumes one channel: the holder of the key is then the client
  that asks.
- `CredentialsProofs` (with `CredentialsDataProofs`, the half about `DataInv`):
  `TypeCorrect`, `CountersPersist`, `EnumerationsExact` and `CountersAdvance` from
  `IInv == DataInv /\ ControlInv`. `DataInv` adds to `CounterPersisted` that ids are
  unique in memory and in the store, that an id never issued occurs nowhere and has
  released nothing, and that the store is finite, so that it can be loaded as a
  sequence. `ControlInv` adds to `EnumerationExact` that an enumeration is of RPs or
  of credentials, not both. `PendingIsKept` follows from `IInv` and the actions, with
  failing writes and loads: signing and updating change an entry in its place, and
  what replaces the list clears the pending assertion or chooses its indexes anew.
  `CacheIsCoherent` assumes `WorkingStore` (no write and no load fails) and needs
  `CacheInv`: credentials in memory and rows of the session's user correspond one by
  one and in the fields that decide who owns them, which `CacheCoherent` does not
  mention and a save depends on. `RegisteredStayStored` and `ResetsDeleteAll` also
  assume `OneUser`; every row is then in memory (`RowsInMemory`), so that a save
  removes none that is live and a reset reaches all.
- `ManagementProofs`: `TypeCorrect`, `SlotsWhole`, `Replies`, `Gone` and `Results`
  from `IInv`. To `TypeOK`, `SlotsOpen` and `RepliesMatch` it adds `ChannelOK` (what
  a thread's program counter says of its variables, and that a queued command is
  the one its thread would build now: this makes a slot that a command writes a
  whole one, under its thread's hash), `SaltsFresh` (no hash in any row, thread or
  the main loop has a salt not drawn yet, so that no slot has the new hash before
  it is written) and `Progress` (a request that is alone has updated exactly the
  rows it knows, or will know from the reply under way, to be updated). `Results`
  is `Progress` at the moment of the answer; `Gone` follows from `TypeOK` and the
  actions: only `Register` creates a row, for an id not issued before.
- `CtapHidProofs`, for every report size of more than 7 bytes, every number of
  continuation packets and any channels: `FreshCids` without conditions
  (`next_cid` counts the ids taken, and those handed out are smaller);
  `AlignedRequests` for messages whose packets have distinct sequence numbers
  (`Numbered`), with any packets lost, from `AlignInv`: packet k lies in place k,
  and the bytes assembled are those of that many packets; `IntactRequests` and
  `Refinement` without loss and with known commands (`Lossless`), from `WholeInv`:
  a channel's pending request is the first packets of the message its client is
  sending. The arithmetic of `encode_message` (the number of packets) and of the
  handler (when the announced length is reached) meet in the lemmas `Count`,
  `PrefixBound`, `MorePackets` and `NextPacket`. `TypeCorrect` has no condition
  either, so it covers lost packets and unknown commands: whatever arrives, a
  pending request holds no more bytes than were announced. Its `TypeInv` adds that
  `pending` and `sending` are functions on the channels, without which an update of
  one channel says nothing of the others.
- `TpmProofs`, for any credentials, PCRs, selections, passphrases and limits of the
  resource manager: `TypeCorrect`, `HandlesAlwaysOpen`, `PackageAlwaysUsable`,
  `HandlesAlwaysReleased`, `SignsOnlyApproved` and `ApprovedAlwaysSigns` from
  `IInv == TypeOK /\ HandleInv /\ PolicyInv`. `HandleInv` says which handles are open
  at each TPM command of each method (`Held`), which is what makes every use and
  flush right and leaves nothing open at the end, and that open and left-over
  handles fit in the resource manager (`Room`). `PolicyInv` follows the data:
  what PCRs an operation has read, what its policy session has been fed and what it
  has signed at each command (`BootOK`, `AuthorizeOK` and one predicate per method),
  and that a stored row is usable for the platform approved last (`RowOK`); a row
  that an operation writes at its end is usable because of what the operation knew
  at its last command. `fresh` ties the PCRs that signing read to the present ones:
  after a PCR was extended `PolicyPCR`, or the use of its session, is refused.
  `NoneAssumption` asks that `None` is none of the values it stands beside. The
  steps count handles through four facts (`Counted`), proved once in
  `CountedHandles`.

Only model-checked are the liveness properties `MessageDispatched` and
`RequestsAnswered`, which are out of the prover's reach, and the five violations.
Every invariant, action property and refinement of a passing run is a theorem.

## Not modelled

- `ClientPin` and `Credentials` are not composed: whether a token allows a command
  is an input of `Credentials`; reset and restart, which touch both, are in each
  with their share of the state. Likewise
  `Management` sees the CTAP commands only by their effect on rows.
- The store's pool, schema, migrations, integrity tags and rows without a user;
  statements commit or fail as a whole.
- Users other than root on the management socket, and the socket's framing.
- Approval (polkit), sessions (logind): queries whose answers are inputs.
- `update_pcr_policy_for_credential` and `change_recovery_passphrase` of
  `src/ctap2.rs`, which work outside the daemon; `probe` and what only tests call.
- CBOR decoding, argument parsing, prompts and printing, device creation, and the
  report whether PCRs changed (`pcr_stale`): I/O or formatting without state.
- Cryptography: keys agree or do not, hashes are injective.
