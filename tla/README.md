# A TLA+ model of mipsorcu

mipsorcu is the server of a secret store that runs on a single-board computer
(the *SBC*). It encrypts and decrypts secrets, decides on access, and calls the
RPCs of a PostgreSQL database (Supabase) that holds the ciphertexts, the audit
events and a signed, hash-chained ledger. This directory models the concurrent
and failure-prone parts of it. Paths below are relative to `src/`; `0900` and
`1000` are the migrations in `supabase/migrations/` with these numbers.

## 1. Inventory

| Component | State it keeps | Operations | Interacts with |
|---|---|---|---|
| Signed ledger and appender (`src/server/ledger_appender.rs`, `0900`) | `ledger_entries`, the row of `ledger_chain_state` | `append` (with conflict retries), `sign_entries` + RPC | everything that records something calls it |
| Secret lifecycle (`use_cases/write_secret_version`, `use_cases/decrypt_secret.rs`) | `secrets`, `secret_versions` | create, rotate, decrypt; purge inside a rotate | ledger appender, audit recorder |
| Master Key rotation (`server/key_rotation`) | `secret_versions.key_version`, the keyring of the server | start, rewrap, complete, status | runs in its own process beside the server |
| Audit recorder and fallback (`audit/recorder.rs`, `audit/fallback`) | `audit_events`, a local JSONL file, gzip archives | record, resend, mark_sent, rollover, sweep | background loop of the server; CLI commands open the same file |
| Scheduler (`server/scheduler.rs`) | job locks and completed periods, in memory | hash-chain and signature checks, digest, archive export, restore test, review reminders | digest, archive, ledger, audit recorder |
| Monthly digest (`generate_monthly_digest.rs`, `verify_monthly_digest.rs`, `digest.rs`) | digest entries in the ledger | generate, verify | scheduler and CLI; archive export |
| Archive export (`archive/`, `export_digest_to_archive.rs`) | object store, local pending queue | export, flush queue, retry | scheduler |
| Timestamping (`timestamping/`) | timestamp records | request for a digest | ledger, archive of digests |
| SIEM forwarding (`siem/`) | local buffer, failure clock | forward, resend | after each ledger append; incident recorder |
| Incident recorder (`incident/`) | incident events, dedupe window | recently_seen, notify, record | SIEM forwarder, scheduler, integrity checks |
| Signing-key lifecycle (`server/signature_key.rs`) | `ledger_signing_public_keys` | create, activate, retire | ledger verification |
| Secret aliases (`use_cases/secret_alias.rs`) | `secret_aliases` | create, update, delete, resolve | ledger |
| Authentication (`auth/`) | JWKS cache | verify, refresh | every handler |
| HTTP surface, readiness (`server/router.rs`, `middleware.rs`, `handlers/`, `state.rs`) | rate limiter window, result of the last probe | authenticate, limit, time out, answer | every use case, audit recorder |
| Integrity check, restore test (`server/integrity_check.rs`, `restore_test.rs`) | none | read, compare, report a finding | ledger, audit recorder |
| Verification of the ledger (`auditor.rs`, `handlers/audit_ui.rs`, `audit_report.rs`, full verifications in `scheduler.rs`) | none | read head, registry and rows, give a verdict | ledger, key registry |
| Audit metadata (`audit/event/`, SQL checks in `1000`) | allowlist mode of the database | build, check in the server, check in SQL | everything that reports an event |
| Configuration, cryptography, value types | none | parsing, encoding | – |

What makes these parts hard:

* *Concurrency.* HTTP handlers, scheduler jobs, background loops and CLI
  processes share only the database (and, the fallback file, the disk). Every
  write reads a chain head, signs on it and calls an RPC later; the RPCs are
  READ COMMITTED transactions of many statements with row locks.
* *Lost answers.* Every RPC may time out after it has committed, and a handler
  is dropped at an arbitrary `await` by the handler timeout.
* *Crashes.* The fallback file is written line by line; the process can stop
  between a delivery and the marker that records it, or within a line.
* *Several steps of one operation.* A rotate inserts a version, appends a ledger
  entry, purges old versions and appends their entries; a rewrap updates rows,
  counts, and appends.

What makes each part correct: the ledger is one gapless hash chain and an
acknowledged entry is in it (ledger); no lost update, exactly the newest
versions retained, no purge and no plaintext without its ledger entry (secrets);
the signed counts are true (rotation); an event that was accepted by the fallback
is delivered in the end and never lost (audit); one digest per month, made of a
verified ledger, archived as the ledger has it, and every due job completes
(scheduler, digest, archive); nothing that was buffered is lost and a long
outage is reported (SIEM); one row per incident and window (incidents); what
signs an entry was activated before, and the registry and the ledger tell the
same (signing keys); an intact ledger verifies and visible damage is found
(verification); every event that an operation can report passes the checks on
its way (metadata); data is answered only with its audit event, and keys and
readiness follow the world outside (HTTP server).

`PROJECT.json` lists the hazards one by one with the line where each bites and
the properties that would catch it. A few that were met and have no property are
named in section 5.

## 2. Modules

| Module | What it is |
|---|---|
| `LedgerLog` | abstract specification: a log of ids to which each call appends its batch atomically, at most once, and an outcome per call |
| `LedgerChain` | the appender, the network and the append transaction in detail |
| `SecretStore` | secrets, versions, Master Key rotation, decrypt; uses the ledger as a sequence, which `LedgerChain` justifies |
| `AuditFallback` | audit recording, the fallback file, the resend loop, rollover, crashes, two processes |
| `MonthlyDigest` | the scheduler, the monthly digest with its two callers, the export to the local archive; uses the ledger as a sequence |
| `AuditSchema` | every report an operation can make, through the builders, `AuditEvent::new`, the SQL checks and the local file |
| `SiemForwarding` | direct send, buffer file, resend loop, failing clock |
| `IncidentRecorder` | `record`: window, notification, signed entry, transaction under the advisory lock |
| `SiemIncident` | composes the two: the resend loop and request handlers record incidents |
| `LedgerVerify` | the registry of signing keys and all verifiers of the ledger |
| `HttpServer` | one server process: start, JWKS cache, readiness, requests of the auditor UI, background checks, shutdown |
| `LedgerChainProofs` | theorems about `LedgerChain`: types, chain, append-only; promises to the callers and the refinement of `LedgerLog` |
| `SecretStoreProofs`, `AuditFallbackProofs`, `MonthlyDigestProofs`, `SiemIncidentProofs`, `LedgerVerifyProofs`, `AuditSchemaProofs`, `HttpServerProofs` | theorems about the module each is named after |
| `MC...` | constants for the TLC runs |

Four modules have a variable that is chosen in `Init` and never changes:
`workload` (`SecretStore`), `deployment` (`AuditFallback`), `scenario`
(`MonthlyDigest`) and `load` (`HttpServer`). It says which surroundings a
behaviour has (which operations, which failures, who else runs), so that one run
covers several small instances instead of one that is too large.

### LedgerChain

`pc`, `attempts`, `head`, `signed`, `outcome` are the local variables of one
execution of `append` (member of `Retrying`) or of `sign_entries` followed by the
RPC of its use case. `stage` and `request` are the deliveries of its request;
`ledger_entries`, `chain_state` and `lock_holder` are the database. One step is
one await of the caller (`FetchChainHead`, `SendRequest`, `ReceiveAnswer`), one
iteration of the signing loop (`SignNext`), or one statement of the transaction
that other transactions can tell apart: the lookup of the id in a snapshot, the
`for update` with the comparison under it, and the insert with the commit.
`GiveUp` is an outbound timeout as well as the handler timeout. An answer may be
lost, so a request that is executed after its caller has gone is covered.
`Copies` says for each call how often the network may deliver one request; a copy
carries the same request only once.

### SecretStore

`op[p]` holds what an operation has read in its earlier requests, `tx[p]` where
its transaction stands. Reads that the code makes in separate requests are
separate steps (current version, retention snapshot; candidates, rotation
status; chain head). The write transaction locks the row of `secrets`, appends
the write entry (from here it holds the chain), then deletes and appends the
purge entries; the rewrap updates its rows, counts, and then takes the chain.
The two orders can deadlock, and `DeadlockAbort` is PostgreSQL's detector. One
abstraction: `UpdateRows` takes all row locks of its statement at once, so a
deadlock of two rewraps among themselves, which the detector resolves in the same
way, does not show. A ledger entry stands also for the audit event that the same
transaction inserts. The purge entries of a write are signed in ascending order of
their versions (`InOrder`); by `RetentionWindow` there is at most one.

### AuditFallback

`lines` and `tail` are the bytes of the file: terminated lines, and what follows
the last newline. `serde_json::to_writer` on an unbuffered file makes many small
writes, so a line is a sequence of pieces and only a single whole piece parses.
`writer[p]` is the `append_line` a process is in; it becomes `split` when another
process ends the line and `detached` when the file is removed under it. The loop
follows `background.rs`: resend pass, rollover, sweep, next tick. A removed file
and an empty one are not told apart (readers treat a missing file as empty). A
pass sends the pending events in the order of their ids (`InOrder`), which is the
order of the map that the reader builds.

### MonthlyDigest

`job` is the pass of `run_due_jobs`: the job at hand, the stage it is in, the
jobs of this pass that failed, and `blocked` once only precondition failures are
left to record. `gen[p]` is the `generate_monthly_digest` of the scheduler or of
the command. Each request to the database is a step of its own (duplicate check,
range, append), and so are the write to the archive, its verification and the
recording of the result; a crash may come between any two. The append is one step
with the ends that `LedgerChain` gives it: acknowledged, refused, committed with
the answer lost, or abandoned and delivered later, when it is executed only if
the head it names is still the head. The failed audit event that precedes a
result entry is one way of being refused. A digest is its range, its count and
its time; `signed` says which bytes its signature is over. The clock counts the
hours of the monthly day and one slot for the rest of the month.

The chain is intact, so a full verification fails when it cannot read, and then no
incident is raised; or, for the hashes, when the ledger is longer than an answer of
the API (`max_rows` of a scenario): then the last row it got is not the head, and it
records the mismatch as an incident. The incident of a failed export is an entry that
may be suppressed. The schedule of the polls is left open: a poll may happen at any
moment of the window, or not at all. A put truncates the object in one step and
writes it in a later one, as `std::fs::write` does; in between an object is torn, and
a crash or a full disk leaves it so.

### AuditSchema

Metadata is a function from keys to classes of values (a count is zero or
positive, a text is named for the shortest limit that holds it). `Reports` is
everything the 26 builders can be made to build at the call sites. An event goes
through `NewEvent` (`validate_event_parts`, with the tables of `metadata.rs`) and
`Append` (`rpc_append_audit_event`, with the tables in SQL, warning or strict);
when the database does not answer it waits in the local file and is checked
again on its way back, while an operator may change the mode. The lists of keys are
transcribed twice, `AllowedKeys` and `RequiredKeys` from `metadata.rs`, `SqlAllowedKeys`
and `SqlRequiredKeys` from the migrations, so that a disagreement shows. `absent` says
which of the user and the secret that an event names have no row: the foreign keys of
`audit_events` refuse such an event in both modes. An operation that fails on an
unknown secret starts with the secret absent, and a user may be removed while an
event waits.

### SiemForwarding, IncidentRecorder, SiemIncident

`fwd[e]` is the handler of an event (send, append to the buffer), `status[e]` its
last record in the buffer file, `since` the failing clock of `SiemForwarderStatus`,
`loop` the resend pass over what it read at its start. `tail` is the last line of the
file, which a failing write or a crash leaves without its end; the next record is
written behind it, and `garbled` are the events whose records share such a line. The
SIEM is what the trait `SiemSink` stands for, a service that may be down and keeps
what it took. The only sink that the server constructs so far is `InMemorySiemSink`
(`runtime.rs`:226, `background.rs`:233), which never fails and forgets with the
process: with it nothing is ever buffered, and the properties of the buffer and of
the clock are about the sinks that the trait is there for. The audit event of a
failed forwarding goes through the audit recorder and is not a step here. `task[c]` is one call of `IncidentRecorder::record`: ask for the window,
notify, fetch the head, and the transaction that takes the advisory lock, looks
at the window again and appends, retried on a head conflict. `SiemIncident` adds
the step after each pass that records `siem_long_failure`, handlers with incidents
of their own, and restarts, which end every call and clear the clock.

### LedgerVerify

`keys` is `ledger_signing_public_keys`, `cmd[o]` the `signature-key` command of an
operator. Its requests are steps of their own: the look at the active key, the head,
for `verify-all` the verification, and the commit, which checks the transition and
the head again under the lock; between any two of them other operators and servers
may act. Servers keep the key they looked up when they started (`signer`). A hash stands for the payloads up
to it. `Alter` and `Lose` change or remove rows, with or without a recomputed
hash. A verification changes nothing and is an operator (`Verdict`) on what it
reads: the auditor command, the UI and the report read a range; the full hash and
signature verifications read the head first and the rows in a second request. The
API returns at most `MaxRows` rows.

### HttpServer

`phase` follows `runtime.rs` (keys are fetched before the listener is opened;
shutdown drains). `req[r]` is a request from its arrival through rate limiter,
timeout, authentication and role check to the read handlers of the auditor UI,
one step per await; `durable`, `refused` and `conflicted` are the fates of its audit
events, the three outcomes of the recorder (kept in one of the stores, refused by
both, another event under the same id, which leaves no mark in the readiness state).
`check[c]` is the loop of the integrity check, whose finding needs a ledger append
and has no fallback, or of the restore test, whose event has one. The audit
recorder appears as its promise, which `AuditFallback` examines.

## 3. Runs

Bounds are small sets; each is chosen so that the case the run is about occurs.

| Run | Instance | Shows |
|---|---|---|
| `ledger` | a retrying call whose requests may be delivered twice, a single-shot call and a two-draft write; 3 sequence numbers (so the overflow at the maximum occurs), one retry | chain integrity, batch atomicity, durable acknowledgements, idempotent replay, honest outcomes, no wasted retry, every call returns without relying on a timeout, refinement of `LedgerLog` |
| `secrets` | two operations at a time; four of create, rotate and rewrap in all, or three of any kind; one secret, retention limit 1, batches of one row, old-key writers beside | no lost update, and every acknowledged write in the ledger under its request; retention window, purges ledgered, decrypt fail-close, exact counts in the entries of a rotation; every operation ends, a deadlock of a write and a rewrap included |
| `fallback` | two events; the server beside a CLI command on a file that is not sealed, or alone with an event that the database refuses every time (one crash), or alone with an event whose id is taken, or with a file that it seals from two lines on (two crashes); torn lines in all | nothing acknowledged is lost, markers are right, a sealed file is complete, and every fallback event is delivered as long as no line is torn |
| `fallback_torn` | the server alone, one torn line | violation, see the findings |
| `digest` | an April window (monthly and quarterly) that stays open: unattended with two failing calls of any kind and a restart; with `digest generate` and another append; with `digest generate` and a late request; with two late requests of the scheduler; with `digest verify` and a failing read; with an empty month; with a ledger that outgrows a row limit of 4 and a restart | one digest per month unless the duplicate check is raced, made after both verifications; the archive holds digests of the ledger; completed means recorded; exported means stored, or named late; all due jobs complete and the archive settles, unless the month is empty or the ledger was too long to be verified |
| `digest_race`, `digest_verify` | one window, both commands, no failure | violations, see the findings |
| `audit_schema` | all reports, both modes, known and unknown users and secrets, two unanswered appends | the lists of both sides agree; what waits in the file is stored in the end unless a foreign key refuses it; the one class of reports that is lost |
| `siem_incident` | two events, two handlers and the loop, window and threshold 1, two faults, troubles or detections | buffered events are kept, one row per incident and window, a call that returns leaves its incident on record, a long outage is reported |
| `ledger_verify` | two operators, two versions and two key pairs, one server, three entries with a row limit of 2, one alteration, loss or foreign incident | signatures follow activation, and registry and ledger agree, although commands and servers come between the steps of a command; the verdict of each verifier on an intact and on a damaged ledger |
| `auditor_range` | one operator, four entries, no damage | violation, see the findings |
| `http_server` | a request of the auditor UI, or both background checks; key sets `{k1}`, `{k2}`, `{k2, e1}` (`e1` not RS256); two restarts or changes | data only with its event, keys and readiness follow provider and database, findings are reported |

`ConflictMeansAbsent` is claimed for calls with a single delivery: with a duplicate the
first delivery may commit while the second answers with a conflict. In `ledger` these
are calls without a retry; for calls that retry it is the theorem `ConflictAbsent`.
`MaxLedger` bounds the polls, which for an empty month, or a ledger that
is too long, add failure entries for ever; in the other scenarios of `digest` it is
above every length that is reached. `MaxTime` of the
digest runs is an hour of the window, so that the clock stops in it: the
liveness is stated for a window that stays open, because the code does not catch
up on a missed one. A retention limit of 1 stands for 4: the limit is only
compared with the number of newer versions. In `siem_incident` faults of the SIEM
and detections of handlers exclude each other, since they meet only in the
recorder, where the loop and the handlers are callers alike. A row limit of 2
with three entries cuts a range off.

Two or three concurrent operations suffice for every hazard listed, each of which
is a conflict between two of them; a third lets a bystander move the chain head.
`CHECK_DEADLOCK FALSE` is said where the system may stop: the digest runs stop at
the end of the clock, `siem_incident` when the clock and the faults are used up,
and in `http_server` a key set with a key of another algorithm keeps a restarted
server from coming up, so nothing is left to happen. `ledger_verify` takes the two
operators as symmetric, and lets both have a command under way only while the rows are
as they were written and no verification is running (`ApartSpec`): verifications read
what is committed, and the two commands meet only at the head and in the registry. The
theorems are about `Spec`, without this restriction. The
type invariants of `SecretStore`, `AuditFallback`, `MonthlyDigest` and
`HttpServer` hold in the instances above as well; they are part of the inductive
invariants of section 4 and are not among the runs' properties.

Fairness. `LedgerChain` and `SecretStore` assume that the runtime polls a call
whose answer is there and that the database executes statements whose locks are
free (weak fairness); no failure, timeout or duplication is fair. `SecretStore`
also assumes that deadlocks are detected. `AuditFallback` assumes a ticking loop
(weak), and strong fairness of the successful outcome of reading, sending and
marking: an outage of the database or the disk ends. Nothing is assumed about
the rollover. `MonthlyDigest` assumes only that the scheduler task runs on (weak
fairness of its steps: the loop polls and every outbound call has a timeout) and
that failures and restarts are finitely many. `DeliveredEventually` leaves out
events that the database refuses every time, and those that come, in id order, after
one whose id is taken, since the pass ends there; `DeliveredUnlessTorn` states it for
behaviours in which no line is ever torn (`Intact`): a line that its only writer is
in the middle of is not.

`SiemIncident` assumes that time passes and that the loop, the recorder and the
handlers are polled (weak fairness); that the SIEM comes back is not assumed.
`AuditSchema` assumes that an operation reports before it returns and that the
loop resends for ever. `HttpServer` assumes that the interval loops tick until the
shutdown signal, that a drain ends (the handler timeout bounds every request), and that
a refresh of the keys, a probe, a read of a check and the keeping of a finding
succeed again and again while the other side is there (strong fairness, each loop
repeats its call for ever). `LedgerVerify` has only safety properties and no
fairness.

## 4. Proofs

The theorems hold for every value of the constants that the named assumptions
allow; TLC evaluates these assumptions on each run. Every safety invariant and
action property that a passing run checks is also a theorem; what is left to TLC is
liveness. Each proof module strengthens its properties to one inductive invariant,
which TLC has checked on the instance of the run.

| Theorem | States | Hypothesis beyond the assumptions |
|---|---|---|
| `LedgerChainProofs!TypeCorrect` | `[]TypeOK`, with the bound on the attempts | |
| `LedgerChainProofs!ChainIntegrity` | `[]ChainIntact` | |
| `LedgerChainProofs!AppendOnlyHolds` | `AppendOnly` | |
| `LedgerChainProofs!AckedDurable` | `[]AckedIsDurable` | |
| `LedgerChainProofs!ConflictAbsent` | `[]ConflictMeansAbsent` | |
| `LedgerChainProofs!BatchesAtomic` | `[]BatchAtomic` | |
| `LedgerChainProofs!RetryProgress` | `RetrySeesNewHead` | |
| `LedgerChainProofs!LogImplemented` | `ImplementsLog`, the refinement | |
| `SecretStoreProofs!StoreTypes` | `[]TypeOK` | |
| `SecretStoreProofs!WindowKept` | `[]RetentionWindow` | |
| `SecretStoreProofs!UpdatesKept` | `[]NoLostUpdate` | |
| `SecretStoreProofs!PlaintextAudited` | `[]PlaintextIsAudited` | |
| `SecretStoreProofs!HeadHeld` | `SignedOnHead` | |
| `SecretStoreProofs!PurgesLedgered` | `PurgesAreLedgered` | |
| `SecretStoreProofs!CountsExact` | `RotationCountsExact` | |
| `AuditFallbackProofs!FallbackTypes` | `[]TypeOK`, and who holds `operation_lock` | |
| `AuditFallbackProofs!MarkedIsStored` | `[]SentIsStored` | |
| `AuditFallbackProofs!FallbackIsKept` | `[]KeptUntilDelivered` | the server alone records on the file |
| `AuditFallbackProofs!KeptUnlessDisturbed` | `[]KeptUntilDelivered` | no other process begins to append while the server seals |
| `AuditFallbackProofs!SealedUnlessDisturbed` | `SealedComplete` | the same |
| `AuditFallbackProofs!SealedIsComplete` | `SealedComplete` | the server alone records on the file |
| `MonthlyDigestProofs!CompletedRecorded` | `[]CompletedIsRecorded` | |
| `MonthlyDigestProofs!ArchivedVouched` | `[]ArchivedIsInLedger` | |
| `MonthlyDigestProofs!DigestVerified` | `[]VerifiedBeforeDigest` | |
| `MonthlyDigestProofs!OneDigest` | `[]OneDigestUnlessRaced` | |
| `MonthlyDigestProofs!ExportStored` | `ExportedWasStored` | |
| `MonthlyDigestProofs!DigestsTell` | `[]DigestsTellLedger` | |
| `SiemIncidentProofs!BufferedKept` | `[]BufferedIsKept` | |
| `SiemIncidentProofs!IncidentOncePerWindow` | `[]OneIncidentPerWindow` | |
| `SiemIncidentProofs!AnsweredOnRecord` | `[]AnsweredIsOnRecord` | |
| `LedgerVerifyProofs!ActivatedBeforeSigning` | `[]SignedAfterActivation` | |
| `LedgerVerifyProofs!RegistryIsLedgered` | `[]LifecycleIsLedgered` | |
| `LedgerVerifyProofs!DamageShows` | `[]DamageIsFound` | |
| `LedgerVerifyProofs!IntactVerifies` | `[]GenuineVerifies` | |
| `AuditSchemaProofs!ReportsBecomeEvents` | `[]OnlyUnpreparedLost` | |
| `AuditSchemaProofs!KeyTablesAgree` | the lists of keys of `metadata.rs` and of the migrations are equal | |
| `AuditSchemaProofs!EventsStorable` | `[]BuiltIsStorable` | |
| `HttpServerProofs!TypesKept` | `[]TypeOK` | |
| `HttpServerProofs!AnsweredAudited` | `[]AnsweredIsAudited` | |

*The chain* (`LedgerChainProofs`). `ChainIntact` says nothing of what is about to be
committed. `IInv` adds that the entries a call has signed are linked from the head
it fetched (`SignedLinked`), that every request in the network is such a linked
sequence (`RequestLinked`), and that the request of the transaction that holds the
row lock starts right after the committed head (`LockedFits`). `CommitAppend` then
extends the chain by a linked sequence, and every other step leaves the rows alone.
Assumed: fresh ids per draft, at most three retries, a single draft per retrying
call, at least one and finitely many deliveries per request, hashes are hashes.
Collision freedom is not used.

*The promises to the callers* (second part of `LedgerChainProofs`, on top of `IInv`). `LInv` adds that
every head a call or a request was signed on was the head of the chain once
(`HeadInv`), that rows stand in the ledger by whole batches and no id twice
(`RowInv`), that a single-shot call has one request however often it is delivered
(`ShotInv`), that a retrying call with a single delivery has nothing in the ledger
while it may still try again (`CopyInv`), and what an Ok of the database means
(`OkInv`). The refinement maps a commit to the append of `LedgerLog`, `Return` to its
answer, and everything else to stuttering.

*Secrets* (`SecretStoreProofs`). `SInv` says of each transaction what it has
established where it stands, and which lock keeps it so: a write its version number
under the lock on its secret and, once it has appended, the head under the lock on
the chain; a rewrap its rows under their locks. What a rotation has counted is kept
by no lock. The invariant says it only under the condition that the head is still
the one the entry was signed on, and every commit moves the head. `SignedOnHead`,
the action property behind this, is no property of the run; it is proved. The window follows
from a count: of the rows of a secret that reach without a gap from `v` to `n`,
`n - v` are newer than `v`. Assumed: a process is not the mark `"no_proc"` of a free
lock (`ProcAssumption`), two different key versions, limits of at least 1.

*Fallback* (`AuditFallbackProofs`). `FInv` follows each line that is being written and
says that a sent marker is the loop's own, made after the event was stored. For what is
kept, `KInv` adds that a reader notices every line under way (the tail of an open
writer does not parse, a writer that was split has left a spoilt line), so a file that
the rollover has found eligible is open to nobody, and stays readable and of stored
events only until it is removed. A hypothesis is needed, because `operation_lock`
belongs to one process and the rollover can remove a line of another one (section 5).
`QuietSealing` says that no other process begins to append between the check and the
removal; about the file itself it says nothing, and a line that was begun before, and
is split, torn or ended meanwhile, is covered by the proof.
`FallbackIsKept` and `SealedIsComplete` are the case of a server alone (`ServerAlone`).

*Scheduler and digest* (`MonthlyDigestProofs`). The ledger only grows, so what it
vouches for stays. `DInv` says what the pass of `run_due_jobs` has established at each
job and stage, and what a `generate_monthly_digest` under way holds. On top of it,
`DigestsVerified`, `Unique` and `Told` speak also of the requests that were given up on
and may still arrive. `DigestsTellLedger` holds in the run's instance too and is not
among its properties; the range of a digest is read one request before its append, and
what comes in between stands behind the end it names. `ExportedWasStored` names its own
exception, an abandoned `archive_exported` that arrives when a later export has
truncated the object; the invariant says of such a request that its digest is in the
ledger. A
quarterly job counts as recorded with an entry made in its quarter or later, since
the result is recorded when the job ends.

*SIEM and incidents* (`SiemIncidentProofs`). The event that the loop is about to mark
has reached the SIEM; a record that is no longer read alone is in a line with another
one; a caller that was answered has seen a row within its window, and rows are only
added.

*Signing keys* (`LedgerVerifyProofs`). Every signer, and every entry that waits for its
commit, has a key that was activated at the head or before, which no later step of a
lifecycle undoes, however many operators there are. A command commits only on the head it was signed on, so the
transition it checked is the one it makes.

*Verification* (second part of `LedgerVerifyProofs`). `RowsInv` compares every row with
what was written: it has its number, previous hash, key and signature, and either its
content and hash or the content of an altered row. The rows of an answer are ordered by
their numbers; `OrderedExists` and `OrderedInterval` say, for sets of any size, that the
row at a place is the one with that many numbers before it, so that no number
is passed over unless its row is missing. `DamageShows` then follows a verdict back to
the rows it was given: had they passed every comparison, each would be as it was
written and none would be missing. `IntactVerifies` follows the rows forward, with
`SignedAfterActivation` for their signatures. Both use that a hash stands for the
contents up to it, the model's form of collision freedom, and that the API returns at
least one row (`MaxRows` is 1000 in `supabase/config.toml`).

*Audit metadata* (`AuditSchemaProofs`). `OnlyUnpreparedLost` and `BuiltIsStorable`
range over finite tables, but the reports are built from every choice of optional
fields, and `AuditEvent::new` does not look at all the values that SQL looks at: the
second does not follow from the checks of the first. The proof writes down once which
classes of values a key may have (`Value`), shows that they are within the limits of
both sides, that the two lists of keys are equal (`KeyTablesAgree`), and of each builder that its reports have the keys that their action
requires and allows, with values of that dictionary. `SInv` carries this along the way
through the file. The number of outages is arbitrary.

*HTTP server* (`HttpServerProofs`). A handler that is still at work has no read event
that was refused or met a conflict, an invalid digest is remembered only once the event
of its failed verification has been tried, and a process that is down has no requests. Assumed: key sets are sets of
keys, and limits are numbers (`ServerAssumption`).

Model-checked only: liveness, which the provers do not handle (`EveryCallReturns`,
`EveryOperationEnds`, `DeliveredUnlessTorn`, `DueJobsComplete`, `ArchiveSettles`,
`FallbackIsStored`, `LongOutageReported`, `ServerFollows`, `FindingReported`), and the
findings of section 5, each of which is a counterexample.

## 5. Findings

* `fallback_torn`: one torn line stops the resend for good. `append_line` is not
  atomic, and a reader that meets a partial line gives up the whole file, while
  the documents promise a later resend.
* `digest_verify`: `digest verify` rejects every digest that this code generates.
  The signature over the digest is stored nowhere; the database answers with the
  signature of the ledger entry, which is over other bytes. The tests of the
  command script an answer with the signature of the digest. For the same
  reason a digest that the scheduler reads back (after a restart, a lost answer,
  or a result that could not be recorded) is archived with the wrong signature,
  over the document with the right one.
* `digest_race`: the duplicate check and the append are two requests without a
  unique index behind them; the scheduler and the command can append two digests
  of one month.
* `auditor_range`: the auditor command verifies every range from the genesis hash, so
  an intact range that does not begin at 1 is invalid, while the end-to-end scripts
  take the range from whatever number their listing begins with and assert that it is
  valid.

Observations without a run of their own; most are exceptions that a property
states:

* `operation_lock` of the fallback belongs to one process, so the rollover of the
  server can remove a line that a CLI command has just appended and acknowledged.
* A create or rotate that fails before its version is prepared (authorization, unknown
  secret, failing read, encryption) reports with empty metadata. `AuditEvent::new`
  demands `version` and `secret_version_id` for these actions, so the failure is in no
  store, while the README promises that failures are recorded (`OnlyUnpreparedLost`).
* A decrypt, or the creation of an alias, of a secret id that does not exist fails with
  an event that names this id as its target. The foreign key of `audit_events` refuses
  it on every attempt, so it stays in the local file, which is never sealed from then
  on, while `docs/release-scope.md`:18 promises the resend. The key
  `attempted_secret_id`, which the schema has for this case, is never set. A pass goes
  on after such an event and counts it as failed (`BuiltIsStorable`, `FallbackIsStored`).
* `append_record` of the SIEM buffer writes behind a torn last line, so the new record is
  in a line that cannot be parsed, and every later read of the buffer fails, while the
  comment at `siem/forwarder.rs`:40 calls a buffered event resendable (`BufferedIsKept`).
* An append of a digest that was given up on may arrive after the duplicate check
  of the next attempt (`OneDigestUnlessRaced`).
* A digest that is retried in a later poll is made of a ledger verified in an
  earlier one, and entries of the last moments of a month may be appended after
  its digest: nothing closes a month.
* `digest verify` signs its incident with the configured key without looking it up,
  and a server goes on signing with a key retired since it started, while the
  comment at `1000`:78 limits signatures to active keys (`SignedAfterActivation`).
  Retiring the last active key is accepted and cannot be repaired by any command.
* Beyond `max_rows` rows the full hash verification reports an intact ledger as
  damaged, after which no job of the month is done, and the verifiers of a range speak
  only of the rows they got (`GenuineVerifies`, `DamageIsFound`, `DueJobsComplete`).
* A month without entries has no digest: the job fails in every poll of the window,
  the quarterly jobs after it are skipped, and each poll adds failure entries
  (`DueJobsComplete`).
* The clock of the SIEM forwarder is cleared by one success although the buffer is not
  empty, and forgotten by a restart; an outage is then noticed with the next failing
  send only (`LongOutageReported`).
* One key that is not RS256 in the published set makes every refresh fail, so a
  withdrawn key stays accepted, and keeps a restarted server from starting
  (`ServerFollows`).
* The `rpc_audit_ui_*` functions that the auditor UI calls are defined in no
  migration.
* A lost answer of a committed write is recorded as a failure beside the success
  in the ledger; no document excludes that.

## 6. Not modelled

* PostgreSQL, the API gateway and the operating system are external: what is
  modelled of them is what the code relies on (READ COMMITTED snapshots per
  statement, row locks, rollback, the deadlock detector, appends to a file).
* Poisoned mutexes and panics; power loss and the ordering of directory entries
  on disk, which depend on the file system.
* Cryptography, canonical encodings, parsing and formatting: stateless, covered by
  unit and parity tests. Configuration is read once and does not change.
* The S3 backend with its queue, and the timestamping of digests: library code
  that no process of the repository constructs or calls. The timestamp loop only
  counts files.
* Secret aliases: each operation is one RPC, and two unique constraints enforce
  what makes it correct; the server keeps no state. Their reports are in
  `AuditSchema`.
* The failure audits of a failed write or decrypt as steps of `SecretStore` (their
  metadata is in `AuditSchema`), and the handlers of secrets, which parse, call
  the use case and format.
* The ages of the operational checks in `/health`: comparisons with thresholds.

## 7. Plan

All safety properties of the runs are proved. What could follow:

1. The failure audits of a failed write or decrypt as steps of `SecretStore`, so that
   the success in the ledger and a failure recorded after a lost answer meet in one
   module.
2. `SignedOnHead` and `DigestsTellLedger` as properties of their runs. They are
   theorems, and TLC has checked them, but no run lists them.
3. The steps of secret aliases beside the writes of `SecretStore`, should their RPCs
   come to touch more than one table.
