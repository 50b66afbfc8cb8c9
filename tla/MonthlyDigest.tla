--------------------------- MODULE MonthlyDigest ----------------------------
(***************************************************************************)
(* The scheduler of the server and the monthly digest it keeps: on the     *)
(* monthly day it verifies the whole ledger, generates the signed digest   *)
(* of the previous month, exports it to the archive and, in the first      *)
(* month of a quarter, runs the quarterly jobs; the result of every job is *)
(* itself a ledger entry.  An operator may run "digest generate" and       *)
(* "digest verify" beside it, against the same ledger.                     *)
(*                                                                         *)
(* LedgerAppender::append (LedgerChain) is here one step with its possible *)
(* ends: acknowledged; refused without effect; committed with the answer   *)
(* lost; or given up on while the request is still on its way.  The chain  *)
(* is intact, as LedgerChain proves, so a full verification fails when it  *)
(* cannot read, and that of the hashes also when the API cuts its answer   *)
(* off at max_rows.  A hash is the position it belongs to; a signature is  *)
(* what was signed.                                                        *)
(***************************************************************************)
EXTENDS Integers, Sequences, FiniteSets

CONSTANTS FirstMonth,     \* the month the model starts in; 0 is a January
          HoursOfDay,     \* hours of the monthly day; one more slot is the rest of the month
          MonthlyHour, QuarterlyHour,  \* monthly_hour_utc, quarterly_hour_utc
          MaxTime,        \* bound: the last hour of the clock
          MaxLedger,      \* bound: length of the ledger up to which the scheduler polls
          Scenario        \* what happens beside the scheduler; a record with the fields
                          \*   faults: the ways a call to the database or the archive may fail
                          \*   max_faults: bound on the failing calls
                          \*   max_crashes: bound on the restarts of the server
                          \*   max_other: bound on the entries that other operations append
                          \*   entries: what the ledger has of the month before the first
                          \*   max_rows: rows that an answer of the API holds at most
                          \*   generate, verify: the months "digest generate" and
                          \*                     "digest verify" are asked for

ASSUME CalendarAssumption == /\ FirstMonth \in Nat \ {0} /\ HoursOfDay \in Nat \ {0}
                             /\ MonthlyHour \in Nat /\ QuarterlyHour \in Nat /\ MaxTime \in Nat
ASSUME ScenarioAssumption ==
    /\ MaxLedger \in Nat
    /\ Scenario \subseteq [faults : SUBSET {"unread", "refused", "lost", "late", "torn", "silent"},
                           max_faults : Nat, max_crashes : Nat, max_other : Nat,
                           entries : Nat, max_rows : Nat,
                           generate : SUBSET Nat, verify : SUBSET Nat]

VARIABLES
    now,        \* the clock, in slots
    ledger,     \* ledger_entries
    late,       \* append requests nobody waits for any more
    archive,    \* archive[m]: the object under the key of month m
    completed,  \* SchedulerRuntimeState.completed
    job,        \* the scheduler's pass through run_due_jobs
    gen,        \* gen[p]: the generate_monthly_digest that process p is in
    verdict,    \* what "digest verify" said
    scenario,   \* the scenario of this behaviour; no step changes it
    faults, crashes

bounds == <<scenario, faults, crashes>>
store == <<ledger, late>>
vars == <<now, store, archive, completed, job, gen, verdict, bounds>>

-----------------------------------------------------------------------------
(* The calendar. *)

MonthOf(t) == FirstMonth + t \div (HoursOfDay + 1)
HourOf(t) == t % (HoursOfDay + 1)            \* HoursOfDay itself: any other day
monthly_due(t) == HourOf(t) < HoursOfDay /\ HourOf(t) >= MonthlyHour
quarterly_due(t) == /\ MonthOf(t) % 3 = 0
                    /\ HourOf(t) < HoursOfDay /\ HourOf(t) >= QuarterlyHour
previous_month_period(t) == MonthOf(t) - 1
quarter_period_key(t) == MonthOf(t) \div 3
Month == 0..MonthOf(MaxTime)

-----------------------------------------------------------------------------
(* Data. *)

QuarterlyJobs == {"restore_test", "signature_key_review", "auditor_review"}
MonthlyJobs == {"hash_verify", "signature_verify", "digest", "archive"}
Jobs == MonthlyJobs \cup QuarterlyJobs
Processes == {"server", "cli"}

\* The fields of the canonical form; 0 entries stands for no digest.
NoDigest == [period |-> 0, start |-> 0, end |-> 0, count |-> 0, at |-> 0, signed |-> "nothing"]
Digest == [period : Month, start : Nat \ {0}, end : Nat \ {0}, count : Nat \ {0}, at : 0..MaxTime,
           signed : {"canonical", "entry"}]
\* What two copies of a digest have in common whatever signature they carry.
Canonical(d) == [d EXCEPT !.signed = "canonical"]

Entry(type, period, name, ok, digest) ==
    [type |-> type, month |-> MonthOf(now), period |-> period, job |-> name, ok |-> ok,
     digest |-> digest]
OtherEntry == Entry("other", 0, "none", TRUE, NoDigest)
IncidentEntry == Entry("incident", 0, "none", TRUE, NoDigest)
DigestEntry(d) == Entry("monthly_digest", d.period, "none", TRUE, d)
ExportedEntry(d) == Entry("archive_exported", d.period, "none", TRUE, Canonical(d))
\* append_scheduler_ledger_entry: the quarterly jobs name no period.
JobEntry(name, t, ok) ==
    Entry("scheduler_job_completed",
          IF name \in MonthlyJobs THEN previous_month_period(t) ELSE 0, name, ok, NoDigest)

NoObject == [content |-> "absent", digest |-> NoDigest]
Object(d) == [content |-> "whole", digest |-> d]
TornObject == [content |-> "torn", digest |-> NoDigest]

Idle == [stage |-> "idle", name |-> "none", at |-> 0, blocked |-> FALSE, failed |-> {},
         ok |-> FALSE, digest |-> NoDigest]
NoGen == [stage |-> "idle", period |-> 0, at |-> 0, digest |-> NoDigest]
JobKey(name, t) == <<name, IF name \in MonthlyJobs THEN previous_month_period(t)
                                                   ELSE quarter_period_key(t)>>

Init == /\ now = 0
        /\ scenario \in Scenario
        /\ ledger = [i \in 1..scenario.entries |-> [OtherEntry EXCEPT !.month = FirstMonth - 1]]
        /\ late = {}
        /\ archive = [m \in Month |-> NoObject]
        /\ completed = {}
        /\ job = Idle
        /\ gen = [p \in Processes |-> NoGen]
        /\ verdict = "none"
        /\ faults = 0 /\ crashes = 0

-----------------------------------------------------------------------------
(* Calls that may fail. *)

Fault(kind) == /\ kind \in scenario.faults /\ faults < scenario.max_faults
               /\ faults' = faults + 1

\* A read of the database that is answered, or is not.
ReadCall(answered) == IF answered THEN UNCHANGED faults ELSE Fault("unread")

\* LedgerAppender::append, ended with Ok or with an error.
AppendCall(entry, acked) ==
    \/ /\ acked
       /\ ledger' = Append(ledger, entry)
       /\ UNCHANGED <<late, faults>>
    \/ /\ ~acked /\ Fault("refused")
       /\ UNCHANGED store
    \/ /\ ~acked /\ Fault("lost")
       /\ ledger' = Append(ledger, entry)
       /\ UNCHANGED late
    \/ /\ ~acked /\ Fault("late")
       /\ late' = late \cup {[entry |-> entry, head |-> Len(ledger)]}
       /\ UNCHANGED ledger

\* IncidentRecorder::record: one seen recently is suppressed; a failure is only logged.
RecordIncident == \/ UNCHANGED <<store, faults>>
                  \/ \E acked \in BOOLEAN : AppendCall(IncidentEntry, acked)

\* An abandoned request arrives: it names the head it was built on.
DeliverLate ==
    \E r \in late :
        /\ late' = late \ {r}
        /\ ledger' = IF r.head = Len(ledger) THEN Append(ledger, r.entry) ELSE ledger
        /\ UNCHANGED <<now, archive, completed, job, gen, verdict, bounds>>

\* Any other operation of the server appends its entry.
AppendOther ==
    /\ Len(SelectSeq(ledger, LAMBDA e : e.type = "other")) < scenario.entries + scenario.max_other
    /\ ledger' = Append(ledger, OtherEntry)
    /\ UNCHANGED <<now, late, archive, completed, job, gen, verdict, bounds>>

Tick == /\ now < MaxTime
        /\ now' = now + 1
        /\ UNCHANGED <<store, archive, completed, job, gen, verdict, bounds>>

-----------------------------------------------------------------------------
(* The digest functions of the database. *)

EntriesOf(m) == {i \in 1..Len(ledger) : ledger[i].month = m}
DigestsOf(m) == {i \in 1..Len(ledger) : ledger[i].type = "monthly_digest" /\ ledger[i].period = m}
FirstOf(S) == CHOOSE i \in S : \A k \in S : i <= k
LastOf(S) == CHOOSE i \in S : \A k \in S : k <= i

\* rpc_fetch_ledger_range_for_month, made the digest of month m at time t.
RangeDigest(m, t) ==
    [period |-> m, start |-> FirstOf(EntriesOf(m)), end |-> LastOf(EntriesOf(m)),
     count |-> Cardinality(EntriesOf(m)), at |-> t, signed |-> "canonical"]

\* signed_digest_from_materials: the row of rpc_fetch_monthly_digest_for_verification
\* carries the signature of the ledger entry, the only one that is stored.
FromMaterials(i) == [ledger[i].digest EXCEPT !.signed = "entry"]

-----------------------------------------------------------------------------
(* generate_monthly_digest, in the process p. *)

GenStages == {"idle", "check", "range", "append", "done", "duplicate", "failed"}

CheckDuplicate_Skipped(p) ==
    /\ gen[p].stage = "check"
    /\ gen' = [gen EXCEPT ![p].stage = "range"]
    /\ UNCHANGED <<now, store, archive, completed, job, verdict, bounds>>

CheckDuplicate(p) ==
    /\ gen[p].stage = "check"
    /\ \E answered \in BOOLEAN :
          /\ ReadCall(answered)
          /\ gen' = [gen EXCEPT ![p].stage = CASE ~answered -> "failed"
                         [] answered /\ DigestsOf(gen[p].period) # {} -> "duplicate"
                         [] OTHER -> "range"]
    /\ UNCHANGED <<now, store, archive, completed, job, verdict, scenario, crashes>>

\* Also builds the canonical form and signs it.
FetchRange(p) ==
    /\ gen[p].stage = "range"
    /\ \/ /\ ReadCall(TRUE) /\ EntriesOf(gen[p].period) # {}
          /\ gen' = [gen EXCEPT ![p].stage = "append",
                                ![p].digest = RangeDigest(gen[p].period, gen[p].at)]
       \/ /\ \E answered \in BOOLEAN : /\ ReadCall(answered)
                                       /\ answered => EntriesOf(gen[p].period) = {}
          /\ gen' = [gen EXCEPT ![p].stage = "failed"]
    /\ UNCHANGED <<now, store, archive, completed, job, verdict, scenario, crashes>>

AppendDigest_ErrorIgnored(p) ==
    /\ gen[p].stage = "append"
    /\ \E acked \in BOOLEAN : AppendCall(DigestEntry(gen[p].digest), acked)
    /\ gen' = [gen EXCEPT ![p].stage = "done"]
    /\ UNCHANGED <<now, archive, completed, job, verdict, scenario, crashes>>

AppendDigest(p) ==
    /\ gen[p].stage = "append"
    /\ \E acked \in BOOLEAN :
          /\ AppendCall(DigestEntry(gen[p].digest), acked)
          /\ gen' = [gen EXCEPT ![p].stage = IF acked THEN "done" ELSE "failed"]
    /\ UNCHANGED <<now, archive, completed, job, verdict, scenario, crashes>>

\* The CLI: "digest generate", once.  It prints the result and ends.
CliGenerate ==
    /\ gen["cli"].stage = "idle"
    /\ \E m \in scenario.generate :
          gen' = [gen EXCEPT !["cli"] = [NoGen EXCEPT !.stage = "check", !.period = m, !.at = now]]
    /\ UNCHANGED <<now, store, archive, completed, job, verdict, bounds>>

-----------------------------------------------------------------------------
(* "digest verify", once.  It only reads, and the ledger only grows, so    *)
(* its reads are taken together.  A digest it rejects is an incident.      *)

VerifyMonthlyDigest(d) ==
    CASE d.signed # "canonical" -> "signature_invalid"
      [] d.signed = "canonical" /\ (\/ Cardinality(EntriesOf(d.period)) > d.count
                                    \/ LastOf(EntriesOf(d.period)) > d.end) -> "range_modified"
      [] OTHER -> "valid"

CliVerify ==
    /\ verdict = "none"
    /\ \E m \in scenario.verify :
          \/ /\ ReadCall(FALSE)
             /\ verdict' = "fetch_failed"
             /\ UNCHANGED store
          \/ /\ DigestsOf(m) = {}
             /\ verdict' = "not_found"
             /\ UNCHANGED <<store, faults>>
          \/ \E i \in DigestsOf(m) :
                /\ verdict' = VerifyMonthlyDigest(FromMaterials(i))
                /\ IF verdict' = "valid" THEN UNCHANGED <<store, faults>> ELSE RecordIncident
    /\ UNCHANGED <<now, archive, completed, job, gen, scenario, crashes>>

-----------------------------------------------------------------------------
(* The scheduler.  job.stage is where run_due_jobs stands:                 *)
(*   job         run_once_per_period is called for job.name                *)
(*   generating  the digest job waits for generate_monthly_digest          *)
(*   adopt       the digest exists already and is fetched                  *)
(*   refetch     the digest job was completed earlier; its digest is read  *)
(*   put, writing, check, exported, incident   inside the archive export   *)
(*   record      record_scheduler_job_result with job.ok                   *)
(*   mismatch, report   the same of a verification that found a mismatch,  *)
(*               and the incident that follows it                          *)
(* job.failed are the jobs of this pass that returned an error, job.blocked *)
(* says that only precondition failures are left to record.                *)

Stages == {"idle", "job", "generating", "adopt", "refetch", "put", "writing", "check",
           "exported", "incident", "record", "mismatch", "report"}

FollowingJob == [hash_verify |-> "signature_verify", signature_verify |-> "digest",
                 digest |-> "archive", archive |-> "restore_test",
                 restore_test |-> "signature_key_review",
                 signature_key_review |-> "auditor_review", auditor_review |-> "none"]

\* What run_due_jobs does after the current job returned Ok or an error.
AfterJob_BothMustFail(ok) ==
    LET failed == IF ok THEN job.failed ELSE job.failed \cup {job.name}
        blocked == \/ job.blocked
                   \/ job.name = "signature_verify" /\ {"hash_verify", "signature_verify"} \subseteq failed
                   \/ job.name = "digest" /\ ~ok
        next == FollowingJob[job.name]
    IN  IF next = "none" \/ (next = "restore_test" /\ (blocked \/ ~quarterly_due(job.at)))
        THEN Idle
        ELSE [job EXCEPT !.stage = "job", !.name = next, !.failed = failed, !.blocked = blocked]

AfterJob(ok) ==
    LET failed == IF ok THEN job.failed ELSE job.failed \cup {job.name}
        blocked == \/ job.blocked
                   \/ job.name = "signature_verify" /\ failed # {}
                   \/ job.name = "digest" /\ ~ok
        next == FollowingJob[job.name]
    IN  IF next = "none" \/ (next = "restore_test" /\ (blocked \/ ~quarterly_due(job.at)))
        THEN Idle
        ELSE [job EXCEPT !.stage = "job", !.name = next, !.failed = failed, !.blocked = blocked]

\* A tick of the poll interval (or the first run after the startup delay).
Poll ==
    /\ job.stage = "idle"
    /\ monthly_due(now) \/ quarterly_due(now)
    /\ Len(ledger) <= MaxLedger
    /\ job' = [Idle EXCEPT !.stage = "job", !.at = now,
                  !.name = IF monthly_due(now) THEN "hash_verify" ELSE "restore_test"]
    /\ UNCHANGED <<now, store, archive, completed, gen, verdict, bounds>>

Due(name) == /\ job.stage = "job" /\ job.name = name
             /\ JobKey(name, job.at) \notin completed

\* run_once_per_period returns Ok(None) for a completed job.  Only the digest
\* is looked up then, for the archive.
SkipCompleted_EndsPass ==
    /\ job.stage = "job" /\ JobKey(job.name, job.at) \in completed
    /\ job' = Idle
    /\ UNCHANGED <<now, store, archive, completed, gen, verdict, bounds>>

SkipCompleted ==
    /\ job.stage = "job" /\ JobKey(job.name, job.at) \in completed
    /\ job' = IF job.name = "digest" /\ ~job.blocked
              THEN [job EXCEPT !.stage = "refetch"]
              ELSE AfterJob(TRUE)
    /\ UNCHANGED <<now, store, archive, completed, gen, verdict, bounds>>

\* record_precondition_failure_job
RecordBlocked ==
    /\ job.blocked /\ Due(job.name)
    /\ job' = [job EXCEPT !.stage = "record", !.ok = FALSE]
    /\ UNCHANGED <<now, store, archive, completed, gen, verdict, bounds>>

\* verify_hash_chain_rows: the rows that the API cut off end before the head that was
\* read first, which is the ledger_chain_head_mismatch of a broken chain.
HeadMismatch == job.name = "hash_verify" /\ Len(ledger) > scenario.max_rows

\* The jobs whose work changes nothing: the two full verifications, the
\* restore test and the two reminders, which can not fail.
CheckingJob ==
    /\ ~job.blocked /\ Due(job.name) /\ job.name \notin {"digest", "archive"}
    /\ \E answered \in BOOLEAN :
          /\ ReadCall(answered)
          /\ answered \/ job.name \in {"hash_verify", "signature_verify", "restore_test"}
          /\ job' = [job EXCEPT !.stage = IF answered /\ HeadMismatch THEN "mismatch" ELSE "record",
                                !.ok = answered /\ ~HeadMismatch]
    /\ UNCHANGED <<now, store, archive, completed, gen, verdict, scenario, crashes>>

\* A verification that found something records its result, and the incident only when
\* that could be recorded.
RecordMismatch ==
    /\ job.stage = "mismatch"
    /\ \E recorded \in BOOLEAN :
          /\ AppendCall(JobEntry(job.name, job.at, FALSE), recorded)
          /\ job' = IF recorded THEN [job EXCEPT !.stage = "report"] ELSE AfterJob(FALSE)
    /\ UNCHANGED <<now, archive, completed, gen, verdict, scenario, crashes>>

ReportMismatch ==
    /\ job.stage = "report"
    /\ RecordIncident
    /\ job' = AfterJob(FALSE)
    /\ UNCHANGED <<now, archive, completed, gen, verdict, scenario, crashes>>

\* run_monthly_digest_generate_job
StartDigest ==
    /\ ~job.blocked /\ Due("digest")
    /\ job' = [job EXCEPT !.stage = "generating"]
    /\ gen' = [gen EXCEPT !["server"] = [NoGen EXCEPT !.stage = "check",
                  !.period = previous_month_period(job.at), !.at = now]]
    /\ UNCHANGED <<now, store, archive, completed, verdict, bounds>>

EndDigest ==
    /\ job.stage = "generating" /\ gen["server"].stage \in {"done", "duplicate", "failed"}
    /\ job' = CASE gen["server"].stage = "done" ->
                      [job EXCEPT !.stage = "record", !.ok = TRUE, !.digest = gen["server"].digest]
                [] gen["server"].stage = "duplicate" -> [job EXCEPT !.stage = "adopt"]
                [] OTHER -> [job EXCEPT !.stage = "record", !.ok = FALSE]
    /\ gen' = [gen EXCEPT !["server"] = NoGen]
    /\ UNCHANGED <<now, store, archive, completed, verdict, bounds>>

\* fetch_signed_digest after a duplicate.
AdoptDigest ==
    /\ job.stage = "adopt"
    /\ \/ \E i \in DigestsOf(previous_month_period(job.at)) :
             /\ UNCHANGED faults
             /\ job' = [job EXCEPT !.stage = "record", !.ok = TRUE, !.digest = FromMaterials(i)]
       \/ /\ ReadCall(FALSE)
          /\ job' = [job EXCEPT !.stage = "record", !.ok = FALSE]
    /\ UNCHANGED <<now, store, archive, completed, gen, verdict, scenario, crashes>>

\* fetch_signed_digest for a digest job completed in an earlier poll.
RefetchDigest ==
    /\ job.stage = "refetch"
    /\ \/ \E i \in DigestsOf(previous_month_period(job.at)) :
             /\ UNCHANGED faults
             /\ job' = [AfterJob(TRUE) EXCEPT !.digest = FromMaterials(i)]
       \/ /\ ReadCall(FALSE)
          /\ job' = AfterJob(FALSE)
    /\ UNCHANGED <<now, store, archive, completed, gen, verdict, scenario, crashes>>

-----------------------------------------------------------------------------
(* export_digest_to_archive, to the local directory: std::fs::write        *)
(* truncates the old object and writes the new one.                        *)

StartExport ==
    /\ ~job.blocked /\ Due("archive")
    /\ job' = [job EXCEPT !.stage = "put"]
    /\ UNCHANGED <<now, store, archive, completed, gen, verdict, bounds>>

\* The directory and the file are opened; from here on the old object is gone.
PutObject ==
    /\ job.stage = "put"
    /\ \/ /\ archive' = [archive EXCEPT ![job.digest.period] = TornObject]
          /\ job' = [job EXCEPT !.stage = "writing"]
          /\ UNCHANGED faults
       \/ /\ Fault("torn")
          /\ job' = [job EXCEPT !.stage = "incident"]
          /\ UNCHANGED archive
    /\ UNCHANGED <<now, store, completed, gen, verdict, scenario, crashes>>

\* The bytes. An error leaves part of them; what was written with success may still
\* not be what is read back.
WriteObject ==
    /\ job.stage = "writing"
    /\ \/ /\ archive' = [archive EXCEPT ![job.digest.period] = Object(job.digest)]
          /\ job' = [job EXCEPT !.stage = "check"]
          /\ UNCHANGED faults
       \/ /\ Fault("silent")
          /\ job' = [job EXCEPT !.stage = "check"]
          /\ UNCHANGED archive
       \/ /\ Fault("torn")
          /\ job' = [job EXCEPT !.stage = "incident"]
          /\ UNCHANGED archive
    /\ UNCHANGED <<now, store, completed, gen, verdict, scenario, crashes>>

VerifyObject_AnyContent ==
    /\ job.stage = "check"
    /\ job' = [job EXCEPT !.stage = "exported"]
    /\ UNCHANGED <<now, store, archive, completed, gen, verdict, bounds>>

VerifyObject ==
    /\ job.stage = "check"
    /\ \E answered \in BOOLEAN :
          /\ ReadCall(answered)
          /\ job' = [job EXCEPT !.stage =
                        IF answered /\ archive[job.digest.period] = Object(job.digest)
                        THEN "exported" ELSE "incident"]
    /\ UNCHANGED <<now, store, archive, completed, gen, verdict, scenario, crashes>>

AppendExported ==
    /\ job.stage = "exported"
    /\ \E acked \in BOOLEAN :
          /\ AppendCall(ExportedEntry(job.digest), acked)
          /\ job' = IF acked THEN [job EXCEPT !.stage = "record", !.ok = TRUE]
                             ELSE [job EXCEPT !.stage = "incident"]
    /\ UNCHANGED <<now, archive, completed, gen, verdict, scenario, crashes>>

\* export_digest_to_archive_with_incident: the export failed.
ArchiveIncident ==
    /\ job.stage = "incident"
    /\ RecordIncident
    /\ job' = [job EXCEPT !.stage = "record", !.ok = FALSE]
    /\ UNCHANGED <<now, archive, completed, gen, verdict, scenario, crashes>>

-----------------------------------------------------------------------------
(* record_scheduler_job_result, and the end of run_once_per_period: a job  *)
(* is completed when it succeeded and its result is recorded.              *)

RecordJobResult_ErrorIgnored ==
    /\ job.stage = "record"
    /\ \E recorded \in BOOLEAN : AppendCall(JobEntry(job.name, job.at, job.ok), recorded)
    /\ completed' = completed \cup (IF job.ok THEN {JobKey(job.name, job.at)} ELSE {})
    /\ job' = AfterJob(job.ok)
    /\ UNCHANGED <<now, archive, gen, verdict, scenario, crashes>>

RecordJobResult ==
    /\ job.stage = "record"
    /\ \E recorded \in BOOLEAN :
          /\ AppendCall(JobEntry(job.name, job.at, job.ok), recorded)
          /\ completed' = completed \cup
                (IF job.ok /\ recorded THEN {JobKey(job.name, job.at)} ELSE {})
          /\ job' = AfterJob(job.ok /\ recorded)
    /\ UNCHANGED <<now, archive, gen, verdict, scenario, crashes>>

\* The server stops and starts again; completed was only in memory.
Crash ==
    /\ crashes < scenario.max_crashes
    /\ crashes' = crashes + 1
    /\ completed' = {} /\ job' = Idle
    /\ gen' = [gen EXCEPT !["server"] = NoGen]
    /\ UNCHANGED <<now, store, archive, verdict, scenario, faults>>

-----------------------------------------------------------------------------
Generate(p) == CheckDuplicate(p) \/ FetchRange(p) \/ AppendDigest(p)
Scheduler == \/ Poll \/ SkipCompleted \/ RecordBlocked \/ CheckingJob
             \/ RecordMismatch \/ ReportMismatch
             \/ StartDigest \/ Generate("server") \/ EndDigest \/ AdoptDigest \/ RefetchDigest
             \/ StartExport \/ PutObject \/ WriteObject \/ VerifyObject \/ AppendExported \/ ArchiveIncident
             \/ RecordJobResult
Cli == CliGenerate \/ Generate("cli") \/ CliVerify
Environment == Tick \/ AppendOther \/ DeliverLate \/ Crash

Next == Scheduler \/ Cli \/ Environment
Spec == Init /\ [][Next]_vars

\* The scheduler task keeps polling and every call it waits for ends (the HTTP
\* client has a timeout); nobody has to run the CLI.
FairSpec == Spec /\ WF_vars(Scheduler)

-----------------------------------------------------------------------------
(* Properties. *)

\* Every variable has its type: in particular no digest is ever built over an
\* empty month (fetch_ledger_range ends with NoEntriesForPeriod).
TypeOK ==
    /\ now \in 0..MaxTime
    /\ \A i \in 1..Len(ledger) :
          /\ ledger[i].month \in Month /\ ledger[i].period \in Month
          /\ ledger[i].job \in Jobs \cup {"none"} /\ ledger[i].ok \in BOOLEAN
          /\ ledger[i].digest \in Digest \cup {NoDigest}
          /\ ledger[i].type \in {"other", "incident", "monthly_digest", "archive_exported",
                                 "scheduler_job_completed"}
    /\ \A r \in late : r.head <= Len(ledger)
    /\ DOMAIN archive = Month
    /\ \A m \in Month : \/ archive[m] \in {NoObject, TornObject}
                         \/ /\ archive[m].content = "whole"
                            /\ archive[m].digest \in Digest
    /\ completed \subseteq Jobs \X Month
    /\ job.stage \in Stages /\ job.name \in Jobs \cup {"none"} /\ job.failed \subseteq Jobs
    /\ job.digest \in Digest \cup {NoDigest}
    /\ \A p \in Processes : gen[p].stage \in GenStages
    /\ verdict \in {"none", "fetch_failed", "not_found", "signature_invalid", "range_modified",
                    "valid"}
    /\ faults \in 0..scenario.max_faults /\ crashes \in 0..scenario.max_crashes

\* A month has at most one digest in the ledger: the duplicate check of
\* generate_monthly_digest.
OneDigestPerPeriod == \A m \in Month : Cardinality(DigestsOf(m)) <= 1

\* That holds, whatever else fails and however often the server restarts, as long
\* as the duplicate check is not raced by the CLI or by an abandoned request.
OneDigestUnlessRaced ==
    gen["cli"].stage = "idle" /\ "late" \notin scenario.faults => OneDigestPerPeriod

\* The scheduler signs a digest only of a ledger that it has verified: before it
\* in the ledger stand both full verifications of the period, both successful.
\* ("digest generate" makes no such check.)
VerifiedBeforeDigest ==
    gen["cli"].stage = "idle" => \A m \in Month : \A i \in DigestsOf(m) :
        \A name \in {"hash_verify", "signature_verify"} :
            \E k \in 1..(i - 1) : /\ ledger[k].type = "scheduler_job_completed"
                                  /\ ledger[k].job = name /\ ledger[k].ok
                                  /\ ledger[k].period = m

\* Nothing reaches the archive that the ledger does not vouch for: a whole object
\* is a digest of the ledger, even if the digest's append was refused, its answer
\* was lost or two processes generated one.
ArchivedIsInLedger ==
    \A m \in Month : archive[m].content = "whole" =>
        \E i \in DigestsOf(m) : Canonical(archive[m].digest) = Canonical(ledger[i].digest)

\* What d says of its month is what the ledger has up to the end of d: it begins at
\* the first entry of the month, ends at one, and counts those up to there.
TellsLedger(d) ==
    /\ d.end \in 1..Len(ledger) /\ d.start \in 1..d.end
    /\ ledger[d.start].month = d.period /\ ledger[d.end].month = d.period
    /\ \A k \in 1..(d.start - 1) : ledger[k].month # d.period
    /\ d.count = Cardinality({k \in 1..d.end : ledger[k].month = d.period})

\* A digest of the ledger tells of entries before it, and tells the truth also after
\* the entries that come between its range and its append, or later; so does what is
\* archived (fetch_ledger_range, then append, then export_digest_to_archive).
DigestsTellLedger ==
    /\ \A i \in 1..Len(ledger) : ledger[i].type = "monthly_digest" =>
          ledger[i].digest.end < i /\ TellsLedger(ledger[i].digest)
    /\ \A m \in Month : archive[m].content = "whole" => TellsLedger(archive[m].digest)

\* A job counts as done only if the ledger says that it succeeded, for its period
\* or, when the entry names none, not before its quarter: what is not recorded is
\* run again (run_once_per_period, record_scheduler_job_result).
CompletedIsRecorded ==
    \A key \in completed : \E i \in 1..Len(ledger) :
        /\ ledger[i].type = "scheduler_job_completed"
        /\ ledger[i].job = key[1] /\ ledger[i].ok
        /\ IF key[1] \in MonthlyJobs THEN ledger[i].period = key[2]
                                     ELSE ledger[i].month \div 3 >= key[2]

\* archive_exported enters the ledger only while the archive holds exactly the
\* digest it names (verify_object comes before the append). The exception is an append
\* that was given up on and arrives during a later export, which may have truncated the
\* object by then; it still names a digest of the ledger.
ExportedWasStored ==
    [][ \A i \in (Len(ledger) + 1)..Len(ledger') : ledger'[i].type = "archive_exported" =>
          \/ /\ archive[ledger'[i].period].content = "whole"
             /\ Canonical(archive[ledger'[i].period].digest) = ledger'[i].digest
          \/ /\ \E r \in late \ late' : r.entry = ledger'[i]
             /\ \E k \in DigestsOf(ledger'[i].period) :
                   Canonical(ledger[k].digest) = ledger'[i].digest ]_vars

\* The window of the last month is open and the month has entries.
WindowOpen == now = MaxTime /\ EntriesOf(previous_month_period(MaxTime)) # {}

\* The ledger has outgrown an answer of the API before its hashes were verified (or
\* before a restart forgot that they were).
Outgrown == /\ monthly_due(MaxTime) /\ Len(ledger) > scenario.max_rows
            /\ JobKey("hash_verify", MaxTime) \notin completed

\* Once the window is open and stays open, every monthly job and, in the first month
\* of a quarter, every quarterly job completes, whatever finitely many failures and
\* restarts do; a ledger that is too long to be verified is the only thing that stops
\* them, and a month without entries, of which no digest can be made.
DueJobsComplete ==
    WindowOpen ~>
        \/ /\ monthly_due(MaxTime) => \A name \in MonthlyJobs : JobKey(name, MaxTime) \in completed
           /\ quarterly_due(MaxTime) =>
                 \A name \in QuarterlyJobs : JobKey(name, MaxTime) \in completed
        \/ Outgrown

\* A torn object does not stay: in the end the archive holds a whole digest of
\* the month and keeps it, with the same exceptions.
ArchiveSettles ==
    WindowOpen ~> ([](archive[previous_month_period(MaxTime)].content = "whole") \/ Outgrown)

\* "digest verify" finds the signature of a digest that this code generated valid.
GeneratedSignatureIsValid == verdict # "signature_invalid"
=============================================================================
