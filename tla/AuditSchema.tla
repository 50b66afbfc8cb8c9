---------------------------- MODULE AuditSchema ----------------------------
(***************************************************************************)
(* An audit event on its way from the operation that reports it into the   *)
(* table audit_events: the typed builder makes the metadata, AuditEvent    *)
(* checks it against the tables of the action, rpc_append_audit_event      *)
(* checks it against tables of its own, and an event the database did not  *)
(* take waits in the local file, from which it is parsed and checked again.*)
(* Three lists of keys and values have to agree for an event to arrive.    *)
(*                                                                         *)
(* Metadata is a function from keys to the class of the value.  A text is  *)
(* named for the shortest of the limits 64, 96, 128 and 256 that holds it. *)
(***************************************************************************)
EXTENDS Integers

CONSTANTS
    MaxOutages     \* appends that the database does not answer

VARIABLES
    draft,    \* the event an operation reports; its md is the metadata
    stage,    \* how far it has come
    absent,   \* the ids it names ("user", "target") that auth.users or secrets lack
    mode,     \* mipsorcu.audit_metadata_allowlist_mode of the database
    outages   \* appends that were not answered so far

vars == <<draft, stage, absent, mode, outages>>

-----------------------------------------------------------------------------
(* Classes of values *)

Count == {"zero", "positive"}
Trigger == {"startup", "background", "cli"}
Length == [text64 |-> 64, text96 |-> 96, text128 |-> 128, text256 |-> 256]
AtMost(limit) == {t \in DOMAIN Length : Length[t] <= limit}

IncidentType == {"hash_chain_mismatch", "signature_mismatch", "monthly_digest_mismatch",
    "digest_timestamping_mismatch", "archive_export_mismatch", "sequence_gap",
    "unknown_signature_key", "non_auditor_ledger_read", "ledger_secret_leak_suspected",
    "siem_long_failure", "audit_ui_forbidden_operation"}
Severity == {"critical", "high", "medium", "low"}
NotificationResult == {"sent", "failed", "suppressed", "not_configured"}

-----------------------------------------------------------------------------
(* Metadata and its builders.  A builder gives the metadata it can be made *)
(* to build: what new() asks for, and any of the options.                  *)

At == [source_event_at |-> "time"]
Empty == <<>>

\* Both objects in one; f has the say on a key of both.
Merge(f, g) == [k \in DOMAIN f \cup DOMAIN g |-> IF k \in DOMAIN f THEN f[k] ELSE g[k]]

\* The keys of fixed, and those of any part of options.
Build(fixed, options) ==
    {Merge(fixed, [k \in part |-> options[k]]) : part \in SUBSET DOMAIN options}

Version == [version |-> "positive", secret_version_id |-> "uuid"]
EncryptCreateMetadata == Build(Version, At)
EncryptRotateMetadata == Build(Version, At)
VersionPurgeMetadata == Build(Version, At)
DecryptMetadata == Build(Empty, Merge([attempted_secret_id |-> "uuid"], At))
AuthFailureMetadata == Build([error_code |-> "text64"], At)

IntegrityCheckMetadata(n, trigger) ==
    Build([check_name |-> "mvp_integrity_check", checked_secret_count |-> n,
           checked_secret_version_count |-> n, checked_audit_event_count |-> n,
           duration_ms |-> n, violation_count |-> n, violation_summary |-> "summary",
           trigger |-> trigger],
          Merge([error_code |-> "text64"], At))

RestoreTestMetadata(n, trigger) ==
    Build([phase |-> "verify", sample_count |-> n, trigger |-> trigger, duration_ms |-> n],
          Merge([error_code |-> "text64", failed_version |-> "positive",
                 reason |-> "no_current_secret_versions"], At))

SchedulerJobMetadata(n, trigger) ==
    Build(Merge([job_name |-> "text64", trigger |-> trigger, duration_ms |-> n], At),
          [error_code |-> "text64", target_year_month |-> "month"])

KeyVersions == [old_key_version |-> "positive", new_key_version |-> "positive"]
KeyRotationStartMetadata == Build(KeyVersions, At)
KeyRotationReencryptMetadata(n) ==
    Build(Merge(KeyVersions, [batch_size |-> "positive", processed_count |-> "positive",
                              remaining_count |-> n]), At)
KeyRotationCompleteMetadata(n) == Build(Merge(KeyVersions, [remaining_count |-> n]), At)

SignatureKey == Merge([signature_key_version |-> "positive",
                       public_key_fingerprint |-> "hex64"], At)
SignatureKeyCreatedMetadata == {Merge([created_at |-> "time"], SignatureKey)}
SignatureKeyActivatedMetadata == {Merge([activated_at |-> "time"], SignatureKey)}
SignatureKeyRetiredMetadata == {Merge([retired_at |-> "time"], SignatureKey)}

Month == Merge([target_year_month |-> "month"], At)
MonthlyDigestGenerateMetadata == {Merge([error_code |-> "text64"], Month)}
MonthlyDigestVerifyMetadata == {Merge([error_code |-> "text64"], Month)}
ArchiveExportMetadata_RawDigest ==
    Build(Month, [archive_key |-> "text256", digest_hash |-> "text64", error_code |-> "text64"])
ArchiveExportMetadata ==
    Build(Month, [archive_key |-> "text256", digest_hash |-> "hex64", error_code |-> "text64"])
DigestTimestampingMetadata ==
    Build(Month, [digest_hash |-> "hex64", timestamp_token_hash |-> "hex64",
                  error_code |-> "text64"])

AuditReportGenerateMetadata(format) ==
    Build(Merge([format |-> format, period_start |-> "time", period_end |-> "time"], At),
          [error_code |-> "text64"])

Fingerprint == [alias_fingerprint |-> "hex64", alias_fingerprint_key_version |-> "positive",
                alias_fingerprint_schema_version |-> "positive"]
SecretAliasCreateMetadata(success) ==
    Build(Merge(At, IF success THEN Fingerprint ELSE Empty), [error_code |-> "text64"])
SecretAliasUpdateMetadata(success) ==
    Build(Merge(At, IF success
                    THEN [old_alias_fingerprint |-> "hex64", new_alias_fingerprint |-> "hex64",
                          alias_fingerprint_key_version |-> "positive",
                          alias_fingerprint_schema_version |-> "positive"]
                    ELSE Empty), [error_code |-> "text64"])
SecretAliasDeleteMetadata(success) == SecretAliasCreateMetadata(success)
SecretAliasListMetadata(success, n) ==
    Build(Merge(At, IF success THEN [result_count |-> n] ELSE Empty), [error_code |-> "text64"])

\* with_period and with_sequence_range set two keys each.
AuditUiReadMetadata(n) ==
    LET new == Merge([endpoint |-> "text64", method |-> "GET", resource |-> "text64"], At)
        period == [period_start |-> "time", period_end |-> "time"]
        range == [start_sequence_no |-> "positive", end_sequence_no |-> "positive"]
    IN UNION {Build(Merge(new, Merge(p, r)),
                    [result_count |-> n, target_year_month |-> "month", error_code |-> "text64"])
              : p \in {Empty, period}, r \in {Empty, range}}

SiemForwardFailureMetadata(n) ==
    Build([error_code |-> "text64"],
          Merge([event_type |-> "text64", event_count |-> n], At))

\* The incident recorder builds the same object itself.
IncidentDetectedMetadata(type, severity, notified) ==
    Build(Merge([incident_type |-> type, severity |-> severity, detection_source |-> "text64",
                 dedupe_key |-> "text128", notification_sink |-> "text64",
                 notification_result |-> notified, error_code |-> "text64"], At),
          [source_event_id |-> "uuid", target_sequence_no |-> "positive",
           target_year_month |-> "month"])

-----------------------------------------------------------------------------
(* The tables of AuditEvent *)

is_write_success_only(a) == a \in {"encrypt_create", "encrypt_rotate", "version_purge"}
is_failure_only(a) == a \in {"auth_failure", "siem_forward_failure", "incident_detected"}

OperationKeys(a, r) ==
    CASE a \in {"encrypt_create", "encrypt_rotate", "version_purge"} ->
           {"version", "secret_version_id"}
      [] a = "decrypt" -> IF r = "failure" THEN {"attempted_secret_id"} ELSE {}
      [] a = "integrity_check" ->
           {"check_name", "checked_secret_count", "checked_secret_version_count",
            "checked_audit_event_count", "duration_ms", "violation_count",
            "violation_summary", "trigger", "error_code"}
      [] a = "restore_test" ->
           {"phase", "sample_count", "trigger", "duration_ms", "error_code",
            "failed_version", "reason"}
      [] a = "auth_failure" -> {"error_code"}
      [] a = "key_rotation_start" -> {"old_key_version", "new_key_version"}
      [] a = "key_rotation_reencrypt" ->
           {"old_key_version", "new_key_version", "batch_size", "processed_count",
            "remaining_count"}
      [] a = "key_rotation_complete" ->
           {"old_key_version", "new_key_version", "remaining_count"}
      [] a = "signature_key_created" ->
           {"created_at", "public_key_fingerprint", "signature_key_version"}
      [] a = "signature_key_activated" ->
           {"activated_at", "public_key_fingerprint", "signature_key_version"}
      [] a = "signature_key_retired" ->
           {"retired_at", "public_key_fingerprint", "signature_key_version"}
      [] OTHER -> {}

RecordKeys(a) ==
    CASE a \in {"monthly_digest_generate", "monthly_digest_verify"} ->
           {"error_code", "target_year_month"}
      [] a = "archive_export" ->
           {"archive_key", "digest_hash", "target_year_month", "error_code"}
      [] a = "digest_timestamping" ->
           {"digest_hash", "error_code", "target_year_month", "timestamp_token_hash"}
      [] a = "siem_forward_failure" -> {"error_code", "event_type", "event_count"}
      [] a = "audit_report_generate" ->
           {"format", "period_end", "period_start", "error_code"}
      [] a = "audit_ui_read" ->
           {"endpoint", "method", "resource", "result_count", "period_start", "period_end",
            "start_sequence_no", "end_sequence_no", "target_year_month", "error_code"}
      [] a = "scheduler_job" ->
           {"duration_ms", "error_code", "job_name", "target_year_month", "trigger"}
      [] a = "incident_detected" ->
           {"incident_type", "severity", "detection_source", "dedupe_key",
            "notification_sink", "notification_result", "error_code", "source_event_id",
            "target_sequence_no", "target_year_month"}
      [] a \in {"secret_alias_create", "secret_alias_delete"} ->
           {"alias_fingerprint", "alias_fingerprint_key_version",
            "alias_fingerprint_schema_version", "error_code"}
      [] a = "secret_alias_update" ->
           {"old_alias_fingerprint", "new_alias_fingerprint",
            "alias_fingerprint_key_version", "alias_fingerprint_schema_version",
            "error_code"}
      [] a = "secret_alias_list" -> {"result_count", "error_code"}
      [] OTHER -> {}

AllowedKeys(a, r) == {"source_event_at"} \cup OperationKeys(a, r) \cup RecordKeys(a)

RequiredKeys(a, r) == {"source_event_at"} \cup
    CASE a \in {"encrypt_create", "encrypt_rotate", "version_purge"} ->
           {"version", "secret_version_id"}
      [] a = "integrity_check" ->
           {"check_name", "checked_secret_count", "checked_secret_version_count",
            "checked_audit_event_count", "duration_ms", "violation_count",
            "violation_summary", "trigger"}
      [] a = "restore_test" -> {"phase", "sample_count", "trigger", "duration_ms"}
      [] a \in {"auth_failure", "siem_forward_failure"} -> {"error_code"}
      [] a \in {"key_rotation_start", "key_rotation_reencrypt", "key_rotation_complete",
                "signature_key_created", "signature_key_activated",
                "signature_key_retired"} -> AllowedKeys(a, r)
      [] a \in {"archive_export", "digest_timestamping"} -> {"target_year_month"}
      [] a = "audit_report_generate" -> {"format", "period_end", "period_start"}
      [] a = "audit_ui_read" -> {"endpoint", "method", "resource"}
      [] a = "scheduler_job" -> {"job_name", "trigger", "duration_ms"}
      [] a = "incident_detected" ->
           {"incident_type", "severity", "detection_source", "dedupe_key",
            "notification_sink", "notification_result", "error_code"}
      [] a \in {"secret_alias_create", "secret_alias_update", "secret_alias_delete",
                "secret_alias_list"} ->
           IF r = "success" THEN AllowedKeys(a, r) \ {"error_code"} ELSE {}
      [] OTHER -> {}     \* decrypt, monthly_digest_generate, monthly_digest_verify

CountKeys == {"checked_secret_count", "checked_secret_version_count",
    "checked_audit_event_count", "duration_ms", "violation_count", "sample_count",
    "processed_count", "remaining_count", "result_count"}
PositiveKeys == {"version", "old_key_version", "new_key_version", "signature_key_version",
    "batch_size", "target_sequence_no", "start_sequence_no", "end_sequence_no",
    "alias_fingerprint_key_version", "alias_fingerprint_schema_version"}

\* validate_metadata_values, key by key; digest_hash, timestamp_token_hash,
\* event_type and event_count are not looked at.
ValidValue(a, r, k, v) ==
    /\ k \in CountKeys => v \in Count
    /\ k \in PositiveKeys => v = "positive"
    /\ k = "failed_version" => v \in {"null", "positive"} /\ r = "failure"
    /\ k \in {"secret_version_id", "attempted_secret_id", "source_event_id"} => v = "uuid"
    /\ k = "source_event_id" => a = "incident_detected"
    /\ k = "attempted_secret_id" => a = "decrypt" /\ r = "failure"
    /\ k = "error_code" => v \in AtMost(64) /\ r = "failure"
    /\ k = "job_name" => v \in AtMost(96)
    /\ k \in {"endpoint", "resource", "detection_source", "dedupe_key",
              "notification_sink"} => v \in AtMost(128)
    /\ k = "archive_key" => v \in AtMost(256) /\ r = "success"
    /\ k = "method" => v = "GET"
    /\ k \in {"public_key_fingerprint", "alias_fingerprint", "old_alias_fingerprint",
              "new_alias_fingerprint"} => v = "hex64"
    /\ k \in {"created_at", "activated_at", "retired_at", "period_start", "period_end",
              "source_event_at"} => v = "time"
    /\ k = "incident_type" => v \in IncidentType
    /\ k = "severity" => v \in Severity
    /\ k = "notification_result" => v \in NotificationResult
    /\ k = "target_year_month" => v = "month"
    /\ k = "format" => v \in {"json", "markdown"}
    /\ k = "check_name" => v = "mvp_integrity_check"
    /\ k = "phase" => v = "verify"
    /\ k = "reason" => v = "no_current_secret_versions"
    /\ k = "violation_summary" => v = "summary"
    /\ k = "trigger" => v \in Trigger

validate_allowlist_for_action(a, r, md) ==
    /\ DOMAIN md \subseteq AllowedKeys(a, r)
    /\ RequiredKeys(a, r) \subseteq DOMAIN md
    /\ \A k \in DOMAIN md : ValidValue(a, r, k, md[k])

\* fields: those of actor_user_id, actor_device_id, target_secret_id and
\* key_version that the event carries.
validate_event_parts(d) ==
    /\ ~(d.result = "success" /\ (is_write_success_only(d.action) \/ is_failure_only(d.action)))
    /\ d.action = "auth_failure" => d.fields = {}
    /\ "source_event_at" \in DOMAIN d.md
    /\ validate_allowlist_for_action(d.action, d.result, d.md)

-----------------------------------------------------------------------------
(* The tables of rpc_append_audit_event, which the migration lists again.   *)

SqlAllowedKeys_Older(a, r) == AllowedKeys(a, r) \ {"target_year_month"}
SqlAllowedKeys(a, r) == {"source_event_at"} \cup
    CASE a \in {"encrypt_create", "encrypt_rotate", "version_purge"} ->
           {"version", "secret_version_id"}
      [] a = "decrypt" -> IF r = "failure" THEN {"attempted_secret_id"} ELSE {}
      [] a = "integrity_check" ->
           {"check_name", "checked_secret_count", "checked_secret_version_count",
            "checked_audit_event_count", "duration_ms", "violation_count",
            "violation_summary", "trigger", "error_code"}
      [] a = "restore_test" ->
           {"phase", "sample_count", "trigger", "duration_ms", "error_code", "failed_version",
            "reason"}
      [] a = "auth_failure" -> {"error_code"}
      [] a = "key_rotation_start" -> {"old_key_version", "new_key_version"}
      [] a = "key_rotation_reencrypt" ->
           {"old_key_version", "new_key_version", "batch_size", "processed_count",
            "remaining_count"}
      [] a = "key_rotation_complete" ->
           {"old_key_version", "new_key_version", "remaining_count"}
      [] a = "signature_key_created" ->
           {"created_at", "public_key_fingerprint", "signature_key_version"}
      [] a = "signature_key_activated" ->
           {"activated_at", "public_key_fingerprint", "signature_key_version"}
      [] a = "signature_key_retired" ->
           {"public_key_fingerprint", "retired_at", "signature_key_version"}
      [] a \in {"monthly_digest_generate", "monthly_digest_verify"} ->
           {"error_code", "target_year_month"}
      [] a = "archive_export" ->
           {"archive_key", "digest_hash", "target_year_month", "error_code"}
      [] a = "digest_timestamping" ->
           {"digest_hash", "timestamp_token_hash", "target_year_month", "error_code"}
      [] a = "siem_forward_failure" -> {"error_code", "event_type", "event_count"}
      [] a = "audit_report_generate" ->
           {"error_code", "format", "period_end", "period_start"}
      [] a = "audit_ui_read" ->
           {"endpoint", "method", "resource", "result_count", "period_start", "period_end",
            "start_sequence_no", "end_sequence_no", "target_year_month", "error_code"}
      [] a = "scheduler_job" ->
           {"duration_ms", "error_code", "job_name", "target_year_month", "trigger"}
      [] a = "incident_detected" ->
           {"incident_type", "severity", "detection_source", "dedupe_key",
            "notification_sink", "notification_result", "error_code", "source_event_id",
            "target_sequence_no", "target_year_month"}
      [] a \in {"secret_alias_create", "secret_alias_delete"} ->
           {"alias_fingerprint", "alias_fingerprint_key_version",
            "alias_fingerprint_schema_version", "error_code"}
      [] a = "secret_alias_update" ->
           {"old_alias_fingerprint", "new_alias_fingerprint", "alias_fingerprint_key_version",
            "alias_fingerprint_schema_version", "error_code"}
      [] a = "secret_alias_list" -> {"result_count", "error_code"}

SqlRequiredKeys(a, r) == {"source_event_at"} \cup
    CASE a \in {"encrypt_create", "encrypt_rotate", "version_purge"} ->
           {"version", "secret_version_id"}
      [] a = "integrity_check" ->
           {"check_name", "checked_secret_count", "checked_secret_version_count",
            "checked_audit_event_count", "duration_ms", "violation_count",
            "violation_summary", "trigger"}
      [] a = "restore_test" -> {"phase", "sample_count", "trigger", "duration_ms"}
      [] a \in {"auth_failure", "siem_forward_failure"} -> {"error_code"}
      [] a = "key_rotation_start" -> {"old_key_version", "new_key_version"}
      [] a = "key_rotation_reencrypt" ->
           {"old_key_version", "new_key_version", "batch_size", "processed_count",
            "remaining_count"}
      [] a = "key_rotation_complete" ->
           {"old_key_version", "new_key_version", "remaining_count"}
      [] a = "signature_key_created" ->
           {"signature_key_version", "public_key_fingerprint", "created_at"}
      [] a = "signature_key_activated" ->
           {"signature_key_version", "public_key_fingerprint", "activated_at"}
      [] a = "signature_key_retired" ->
           {"signature_key_version", "public_key_fingerprint", "retired_at"}
      [] a \in {"archive_export", "digest_timestamping"} -> {"target_year_month"}
      [] a = "audit_report_generate" -> {"format", "period_end", "period_start"}
      [] a = "audit_ui_read" -> {"endpoint", "method", "resource"}
      [] a = "scheduler_job" -> {"job_name", "trigger", "duration_ms"}
      [] a = "incident_detected" ->
           {"incident_type", "severity", "detection_source", "dedupe_key",
            "notification_sink", "notification_result", "error_code"}
      [] a \in {"secret_alias_create", "secret_alias_delete"} /\ r = "success" ->
           {"alias_fingerprint", "alias_fingerprint_key_version",
            "alias_fingerprint_schema_version"}
      [] a = "secret_alias_update" /\ r = "success" ->
           {"old_alias_fingerprint", "new_alias_fingerprint", "alias_fingerprint_key_version",
            "alias_fingerprint_schema_version"}
      [] a = "secret_alias_list" /\ r = "success" -> {"result_count"}
      [] OTHER -> {}

audit_metadata_has_unknown_key_for_action(a, r, md) ==
    ~(DOMAIN md \subseteq SqlAllowedKeys(a, r))
audit_metadata_has_missing_required_key_for_action(a, r, md) ==
    ~(SqlRequiredKeys(a, r) \subseteq DOMAIN md)

SqlValidValue(a, r, k, v) ==
    /\ k \in PositiveKeys => v = "positive"
    /\ k \in CountKeys \cup {"event_count"} => v \in Count
    /\ k = "error_code" => v \in AtMost(64) /\ r = "failure"
    /\ k \in {"created_at", "activated_at", "retired_at", "period_start", "period_end",
              "source_event_at"} => v = "time"
    /\ k \in {"public_key_fingerprint", "digest_hash", "timestamp_token_hash",
              "alias_fingerprint", "old_alias_fingerprint", "new_alias_fingerprint"} =>
           v = "hex64"
    /\ k \in {"secret_version_id", "attempted_secret_id", "source_event_id"} => v = "uuid"
    /\ k = "attempted_secret_id" => a = "decrypt" /\ r = "failure"
    /\ k = "source_event_id" => a = "incident_detected"
    /\ k = "trigger" => v \in Trigger
    /\ k \in {"job_name", "event_type", "detection_source", "dedupe_key",
              "notification_sink", "endpoint", "resource"} => v \in AtMost(128)
    /\ k = "method" => v = "GET"
    /\ k = "target_year_month" => v = "month"
    /\ k = "format" => v \in {"json", "markdown"}
    /\ k = "check_name" => v = "mvp_integrity_check"
    /\ k = "phase" => v = "verify"
    /\ k = "reason" => v = "no_current_secret_versions"
    /\ k = "failed_version" => v \in {"null", "positive"} /\ r = "failure"
    /\ k = "archive_key" => v \in AtMost(256) /\ r = "success"
    /\ k = "incident_type" => v \in IncidentType
    /\ k = "severity" => v \in Severity
    /\ k = "notification_result" => v \in NotificationResult
    /\ k = "violation_summary" => v = "summary"

audit_metadata_has_invalid_value_for_action(a, r, md) ==
    \E k \in DOMAIN md : ~SqlValidValue(a, r, k, md[k])

\* The schema is enforced in strict mode and only noted in warning mode; the foreign
\* keys of audit_events are enforced in both.
rpc_append_audit_event(d) ==
    /\ d.result = "success" =>
         d.action \notin {"encrypt_create", "encrypt_rotate", "version_purge", "auth_failure",
                         "siem_forward_failure", "incident_detected",
                         "monthly_digest_generate", "monthly_digest_verify"}
    /\ d.action \in {"auth_failure", "signature_key_created", "signature_key_activated",
                     "signature_key_retired"} => d.fields = {}
    /\ "source_event_at" \in DOMAIN d.md
    /\ mode = "strict" =>
         ~(\/ audit_metadata_has_unknown_key_for_action(d.action, d.result, d.md)
           \/ audit_metadata_has_missing_required_key_for_action(d.action, d.result, d.md)
           \/ audit_metadata_has_invalid_value_for_action(d.action, d.result, d.md))
    /\ absent \cap d.fields = {}

-----------------------------------------------------------------------------
(* The places that report.  via is "recorder" where a local file takes the *)
(* event the database did not, and "ledger" where the event is stored with *)
(* its ledger entry or the operation fails.                                *)

Report(action, result, via, fields, mds) ==
    {[action |-> action, result |-> result, via |-> via, fields |-> fields, md |-> md]
     : md \in mds}

\* The metadata in mds with exactly these of the options named in option.
With(mds, option, chosen) == {md \in mds : DOMAIN md \cap option = chosen}

\* FailureAuditContext.record reports with AuditMetadata::empty().
FailureReports ==
    UNION {Report(f[1], "failure", "recorder", f[2], {Empty})
           : f \in {<<"decrypt", {"user"}>>, <<"decrypt", {"user", "target"}>>,
                    <<"secret_alias_create", {"user", "target"}>>,
                    <<"secret_alias_update", {"user"}>>,
                    <<"secret_alias_update", {"user", "target"}>>,
                    <<"secret_alias_delete", {"user"}>>, <<"secret_alias_list", {"user"}>>}}

\* A create or rotate that fails before the version is prepared.
UnpreparedWriteReports ==
    Report("encrypt_create", "failure", "recorder", {"user"}, {Empty})
    \cup UNION {Report("encrypt_rotate", "failure", "recorder", fields, {Empty})
                : fields \in {{"user"}, {"user", "target"}}}

\* A write that the database refused.
PreparedWriteReports ==
    Report("encrypt_create", "failure", "recorder", {"user"},
           With(EncryptCreateMetadata, DOMAIN At, {}))
    \cup Report("encrypt_rotate", "failure", "recorder", {"user", "target"},
                With(EncryptRotateMetadata, DOMAIN At, {}))

DecryptReports == Report("decrypt", "success", "ledger", {"user", "target", "key"}, {Empty})
AuthFailureReports == Report("auth_failure", "failure", "recorder", {}, AuthFailureMetadata)
AliasListReports ==
    Report("secret_alias_list", "success", "recorder", {"user"},
           UNION {With(SecretAliasListMetadata(TRUE, n), {"error_code"}, {}) : n \in Count})

\* Only a failed RPC goes without a ledger entry.
IntegrityCheckReports ==
    UNION {Report("integrity_check", "success", "ledger", {},
                  With(IntegrityCheckMetadata(n, t), {"error_code"}, {}))
           \cup UNION {Report("integrity_check", "failure", via, {},
                             With(IntegrityCheckMetadata(n, t), {"error_code"}, {"error_code"}))
                       : via \in {"ledger", "recorder"}}
           : n \in Count, t \in Trigger}

RestoreTestReports ==
    LET option == {"error_code", "failed_version", "reason"}
        md(n, t, chosen) == With(RestoreTestMetadata(n, t), option, chosen)
    IN UNION {Report("restore_test", "success", "recorder", {}, md("zero", t, {"reason"}))
              \cup Report("restore_test", "success", "recorder", {}, md("positive", t, {}))
              \cup UNION {Report("restore_test", "failure", "recorder", fields,
                                UNION {md(n, t, {"error_code"} \cup f)
                                       : n \in Count, f \in {{}, {"failed_version"}}})
                          : fields \in {{}, {"target", "key"}}}
              : t \in Trigger}

KeyRotationReports ==
    Report("key_rotation_start", "success", "ledger", {"key"}, KeyRotationStartMetadata)
    \cup UNION {Report("key_rotation_reencrypt", "success", "ledger", {"key"},
                       KeyRotationReencryptMetadata(n))
                \cup Report("key_rotation_complete", "success", "ledger", {"key"},
                            KeyRotationCompleteMetadata(n)) : n \in Count}

SignatureKeyReports ==
    Report("signature_key_created", "success", "ledger", {}, SignatureKeyCreatedMetadata)
    \cup Report("signature_key_activated", "success", "ledger", {}, SignatureKeyActivatedMetadata)
    \cup Report("signature_key_retired", "success", "ledger", {}, SignatureKeyRetiredMetadata)

MonthlyDigestReports ==
    Report("monthly_digest_generate", "failure", "recorder", {}, MonthlyDigestGenerateMetadata)
    \cup Report("monthly_digest_verify", "failure", "recorder", {}, MonthlyDigestVerifyMetadata)

ArchiveExportReports ==
    LET md(chosen) == With(ArchiveExportMetadata,
                           {"archive_key", "digest_hash", "error_code"}, chosen)
    IN Report("archive_export", "success", "recorder", {}, md({"archive_key", "digest_hash"}))
       \cup Report("archive_export", "failure", "recorder", {}, md({"error_code"}))

DigestTimestampingReports ==
    LET md(chosen) == With(DigestTimestampingMetadata,
                           {"timestamp_token_hash", "digest_hash", "error_code"}, chosen)
    IN Report("digest_timestamping", "success", "recorder", {},
              md({"digest_hash", "timestamp_token_hash"}))
       \cup Report("digest_timestamping", "failure", "recorder", {},
                   md({"digest_hash", "error_code"}))

ByResult_AlwaysCode(action, via, fields, mds) ==
    UNION {Report(action, r, via, fields, With(mds, {"error_code"}, {"error_code"}))
           : r \in {"success", "failure"}}

\* A report with or without the code of an error, by its result.
ByResult(action, via, fields, mds) ==
    Report(action, "success", via, fields, With(mds, {"error_code"}, {}))
    \cup Report(action, "failure", via, fields, With(mds, {"error_code"}, {"error_code"}))

AuditReportReports ==
    UNION {ByResult("audit_report_generate", "recorder", {}, AuditReportGenerateMetadata(f))
           : f \in {"json", "markdown"}}
AuditUiReadReports ==
    UNION {ByResult("audit_ui_read", "recorder", {"user"}, AuditUiReadMetadata(n)) : n \in Count}

\* The scheduler's jobs, and signature-key verify-all.
SchedulerJobReports ==
    UNION {ByResult("scheduler_job", "recorder", {}, SchedulerJobMetadata(n, "background"))
           \cup ByResult("scheduler_job", "ledger", {},
                         With(SchedulerJobMetadata(n, "cli"), {"target_year_month"}, {}))
           : n \in Count}

SiemForwardFailureReports ==
    UNION {Report("siem_forward_failure", "failure", "recorder", {},
                  With(SiemForwardFailureMetadata(n), {"event_type"}, {"event_type"}))
           : n \in Count}

severity_for_incident(type) ==
    CASE type \in {"hash_chain_mismatch", "ledger_secret_leak_suspected",
                   "unknown_signature_key"} -> "critical"
      [] type \in {"non_auditor_ledger_read", "siem_long_failure",
                   "audit_ui_forbidden_operation"} -> "medium"
      [] OTHER -> "high"

IncidentReports ==
    UNION {Report("incident_detected", "failure", "ledger", {},
                  IncidentDetectedMetadata(type, severity_for_incident(type), notified))
           : type \in IncidentType, notified \in NotificationResult}

Reports ==
    UNION {FailureReports, UnpreparedWriteReports, PreparedWriteReports, DecryptReports,
           AuthFailureReports, AliasListReports, IntegrityCheckReports, RestoreTestReports,
           KeyRotationReports, SignatureKeyReports, MonthlyDigestReports, ArchiveExportReports,
           DigestTimestampingReports, AuditReportReports, AuditUiReadReports,
           SchedulerJobReports, SiemForwardFailureReports, IncidentReports}

\* The ids of a report that nobody has looked up in the database: the user of the
\* token, and the secret that a request names before its row was read.
Unchecked(d) ==
    {f \in d.fields :
       \/ f = "user"
       \/ /\ f = "target" /\ DOMAIN d.md = {} /\ d.result = "failure"
          /\ d.action \in {"decrypt", "encrypt_rotate", "secret_alias_create"}}

-----------------------------------------------------------------------------
NoDraft == [action |-> "none", result |-> "none", via |-> "none", fields |-> {}, md |-> Empty]

Init ==
    /\ draft = NoDraft
    /\ stage = "idle"
    /\ absent = {}
    /\ mode \in {"warning", "strict"}
    /\ outages = 0

\* An operation ends and reports; no event is under way.
Occur ==
    /\ stage \in {"idle", "stored", "unrecorded", "refused"}
    /\ draft' \in Reports
    /\ absent' \in SUBSET Unchecked(draft')
    /\ stage' = "reported"
    /\ UNCHANGED <<mode, outages>>

\* with_current_source_event_at, then AuditEvent::new.
NewEvent ==
    /\ stage = "reported"
    /\ LET d == [draft EXCEPT !.md = Merge(@, At)]
       IN IF validate_event_parts(d)
          THEN draft' = d /\ stage' = "built"
          ELSE draft' = draft /\ stage' = "unrecorded"
    /\ UNCHANGED <<absent, mode, outages>>

\* The database takes the event.
Append ==
    /\ stage \in {"built", "fallback"}
    /\ stage = "fallback" => validate_event_parts(draft)   \* to_event, on resending
    /\ rpc_append_audit_event(draft)
    /\ stage' = "stored"
    /\ UNCHANGED <<draft, absent, mode, outages>>

\* The database refuses the event or does not answer: the recorder writes it
\* to the local file, and what needs its ledger entry fails.
AppendFails ==
    /\ stage = "built"
    /\ IF rpc_append_audit_event(draft)
       THEN outages < MaxOutages /\ outages' = outages + 1
       ELSE UNCHANGED outages
    /\ stage' = IF draft.via = "recorder" THEN "fallback" ELSE "refused"
    /\ UNCHANGED <<draft, absent, mode>>

\* An operator changes the mode of the allowlist.
SetMode ==
    /\ mode' \in {"warning", "strict"} \ {mode}
    /\ UNCHANGED <<draft, stage, absent, outages>>

\* The user of an event is removed from auth.users while the event is under way.
RemoveUser ==
    /\ stage \in {"reported", "built", "fallback"}
    /\ "user" \in draft.fields \ absent
    /\ absent' = absent \cup {"user"}
    /\ UNCHANGED <<draft, stage, mode, outages>>

Next == Occur \/ NewEvent \/ Append \/ AppendFails \/ SetMode \/ RemoveUser

\* An operation reports before it returns, and the loop resends for ever.
Spec == Init /\ [][Next]_vars /\ WF_vars(NewEvent) /\ WF_vars(Append)

-----------------------------------------------------------------------------
(* Properties *)

\* Every report passes the checks of AuditEvent::new, whichever builder made
\* its metadata and whichever options were set, except that of a create or
\* rotate that failed before its version was prepared.
OnlyUnpreparedLost == stage = "unrecorded" => draft \in UnpreparedWriteReports

\* What AuditEvent::new accepts, the database accepts in its strict mode, unless the
\* user or the secret that the event names does not exist: an event never sits in
\* the local file because the two sets of tables disagree, and an operation that
\* needs its ledger entry is never refused for its metadata.
BuiltIsStorable ==
    stage \in {"built", "fallback"} /\ absent = {} => rpc_append_audit_event(draft)

\* An event written to the local file reaches audit_events, also when the operator
\* changes the mode meanwhile, unless the user or the secret that it names does not
\* exist or the user is removed before it was resent.
FallbackIsStored == (stage = "fallback" /\ absent = {}) ~> (stage = "stored" \/ absent # {})
=============================================================================
