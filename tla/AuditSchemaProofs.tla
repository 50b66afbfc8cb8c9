-------------------------- MODULE AuditSchemaProofs -------------------------
(***************************************************************************)
(* Proofs about AuditSchema, for any number of outages: every report but   *)
(* that of an unprepared write becomes an event, and what has become an    *)
(* event is one that the database takes in its strict mode.                *)
(*                                                                         *)
(* AuditEvent::new does not look at all the values that the database looks *)
(* at, so the second does not follow from the checks of the first: it      *)
(* needs to know what the builders put into every key.  That is written    *)
(* down once, as a dictionary of keys and values; each report is then      *)
(* shown to have the keys of its action, with values of the dictionary.    *)
(***************************************************************************)
EXTENDS AuditSchema, TLAPS

UuidKeys == {"secret_version_id", "attempted_secret_id", "source_event_id"}
TextKeys == {"error_code", "job_name", "endpoint", "resource", "detection_source",
             "notification_sink", "event_type"}
HexKeys == {"public_key_fingerprint", "alias_fingerprint", "old_alias_fingerprint",
            "new_alias_fingerprint", "digest_hash", "timestamp_token_hash"}
TimeKeys == {"created_at", "activated_at", "retired_at", "period_start", "period_end",
             "source_event_at"}

\* The dictionary: v is a value that the builders put under key k.
Value(k, v) ==
    /\ k \in CountKeys \cup {"event_count"} => v \in Count
    /\ k \in PositiveKeys \cup {"failed_version"} => v = "positive"
    /\ k \in UuidKeys => v = "uuid"
    /\ k \in TextKeys => v = "text64"
    /\ k \in HexKeys => v = "hex64"
    /\ k \in TimeKeys => v = "time"
    /\ k = "dedupe_key" => v = "text128"
    /\ k = "archive_key" => v = "text256"
    /\ k = "method" => v = "GET"
    /\ k = "target_year_month" => v = "month"
    /\ k = "format" => v \in {"json", "markdown"}
    /\ k = "check_name" => v = "mvp_integrity_check"
    /\ k = "phase" => v = "verify"
    /\ k = "reason" => v = "no_current_secret_versions"
    /\ k = "violation_summary" => v = "summary"
    /\ k = "trigger" => v \in Trigger
    /\ k = "incident_type" => v \in IncidentType
    /\ k = "severity" => v \in Severity
    /\ k = "notification_result" => v \in NotificationResult

Values(md) == \A k \in DOMAIN md : Value(k, md[k])

\* Keys that an event may have only with a result or an action.
Fits(a, r, k) ==
    /\ k \in {"failed_version", "error_code"} => r = "failure"
    /\ k = "archive_key" => r = "success"
    /\ k = "source_event_id" => a = "incident_detected"
    /\ k = "attempted_secret_id" => a = "decrypt" /\ r = "failure"

\* The texts that the builders use are within the limits of their keys.
LEMMA Limits ==
    /\ "text64" \in AtMost(64) /\ "text64" \in AtMost(96) /\ "text64" \in AtMost(128)
    /\ "text128" \in AtMost(128) /\ "text256" \in AtMost(256)
<1>1. /\ DOMAIN Length = {"text64", "text96", "text128", "text256"}
      /\ Length["text64"] = 64 /\ Length["text128"] = 128 /\ Length["text256"] = 256
  BY DEF Length
<1> QED BY <1>1 DEF AtMost

\* Both tables, that of AuditEvent and that of the database, take every value of
\* the dictionary.
LEMMA ValueTaken ==
    ASSUME NEW a, NEW r, NEW k, NEW v, Value(k, v), Fits(a, r, k)
    PROVE  ValidValue(a, r, k, v) /\ SqlValidValue(a, r, k, v)
<1>1. ValidValue(a, r, k, v)
  BY Limits DEF Value, Fits, ValidValue, UuidKeys, TextKeys, HexKeys, TimeKeys
<1>2. SqlValidValue(a, r, k, v)
  BY Limits DEF Value, Fits, SqlValidValue, UuidKeys, TextKeys, HexKeys, TimeKeys
<1> QED BY <1>1, <1>2

\* The dictionary, read from the values.
LEMMA Dictionary ==
    /\ \A k \in CountKeys \cup {"event_count"}, v \in Count : Value(k, v)
    /\ \A k \in PositiveKeys \cup {"failed_version"} : Value(k, "positive")
    /\ \A k \in UuidKeys : Value(k, "uuid")
    /\ \A k \in TextKeys : Value(k, "text64")
    /\ \A k \in HexKeys : Value(k, "hex64")
    /\ \A k \in TimeKeys : Value(k, "time")
    /\ Value("dedupe_key", "text128") /\ Value("archive_key", "text256")
    /\ Value("method", "GET") /\ Value("target_year_month", "month")
    /\ \A v \in {"json", "markdown"} : Value("format", v)
    /\ Value("check_name", "mvp_integrity_check") /\ Value("phase", "verify")
    /\ Value("reason", "no_current_secret_versions") /\ Value("violation_summary", "summary")
    /\ \A v \in Trigger : Value("trigger", v)
    /\ \A v \in IncidentType : Value("incident_type", v)
    /\ \A v \in Severity : Value("severity", v)
    /\ \A v \in NotificationResult : Value("notification_result", v)
BY DEF Value, CountKeys, PositiveKeys, UuidKeys, TextKeys, HexKeys, TimeKeys
-----------------------------------------------------------------------------
(* The two lists of keys *)

Operations == {"encrypt_create", "encrypt_rotate", "version_purge", "decrypt",
    "integrity_check", "restore_test", "auth_failure", "key_rotation_start",
    "key_rotation_reencrypt", "key_rotation_complete", "signature_key_created",
    "signature_key_activated", "signature_key_retired"}
Records == {"monthly_digest_generate", "monthly_digest_verify", "archive_export",
    "digest_timestamping", "siem_forward_failure", "audit_report_generate", "audit_ui_read",
    "scheduler_job", "incident_detected", "secret_alias_create", "secret_alias_update",
    "secret_alias_delete", "secret_alias_list"}
AuditAction == Operations \cup Records
Results == {"success", "failure"}

\* For every action and result, validate_allowlist_for_action in metadata.rs and the
\* functions of the migration allow the same keys and require the same keys.
THEOREM KeyTablesAgree ==
    \A a \in AuditAction, r \in Results : /\ AllowedKeys(a, r) = SqlAllowedKeys(a, r)
                                         /\ RequiredKeys(a, r) = SqlRequiredKeys(a, r)
<1>1. ASSUME NEW a \in Operations, NEW r \in Results
      PROVE  AllowedKeys(a, r) = SqlAllowedKeys(a, r)
  BY DEF Operations, Results, AllowedKeys, OperationKeys, RecordKeys, SqlAllowedKeys
<1>2. ASSUME NEW a \in Records, NEW r \in Results
      PROVE  AllowedKeys(a, r) = SqlAllowedKeys(a, r)
  BY DEF Records, Results, AllowedKeys, OperationKeys, RecordKeys, SqlAllowedKeys
<1>3. ASSUME NEW a \in Operations, NEW r \in Results
      PROVE  RequiredKeys(a, r) = SqlRequiredKeys(a, r)
  BY DEF Operations, Results, RequiredKeys, AllowedKeys, OperationKeys, RecordKeys, SqlRequiredKeys
<1>4. ASSUME NEW a \in Records, NEW r \in Results
      PROVE  RequiredKeys(a, r) = SqlRequiredKeys(a, r)
  BY DEF Records, Results, RequiredKeys, AllowedKeys, OperationKeys, RecordKeys, SqlRequiredKeys
<1> QED BY <1>1, <1>2, <1>3, <1>4 DEF AuditAction

-----------------------------------------------------------------------------
(* Metadata: its keys are between lo and hi, its values of the dictionary *)

Spans(md, lo, hi) == lo \subseteq DOMAIN md /\ DOMAIN md \subseteq hi /\ Values(md)

\* Two objects in one.
LEMMA Merged ==
    ASSUME NEW f, NEW g, Values(f), Values(g)
    PROVE  DOMAIN Merge(f, g) = DOMAIN f \cup DOMAIN g /\ Values(Merge(f, g))
BY DEF Merge, Values

\* What a builder builds has its fixed keys, and of the options any.
LEMMA Built ==
    ASSUME NEW fixed, NEW options, Values(fixed), Values(options), NEW md \in Build(fixed, options)
    PROVE  Spans(md, DOMAIN fixed, DOMAIN fixed \cup DOMAIN options)
<1>1. PICK part \in SUBSET DOMAIN options : md = Merge(fixed, [k \in part |-> options[k]])
  BY DEF Build
<1>2. Values([k \in part |-> options[k]])
  BY DEF Values
<1>3. DOMAIN md = DOMAIN fixed \cup part /\ Values(md)
  BY <1>1, <1>2, Merged
<1> QED BY <1>3 DEF Spans

\* The time of the event.
LEMMA AtValues == DOMAIN At = {"source_event_at"} /\ Values(At)
<1>1. DOMAIN At = {"source_event_at"} /\ At["source_event_at"] = "time"
  BY DEF At
<1> QED BY <1>1, Dictionary DEF Values, TimeKeys

\* The three forms of the builders: the time always there, one of the options, or
\* the only option.
LEMMA BuiltAt ==
    ASSUME NEW new, NEW opt, Values(new), Values(opt), NEW md
    PROVE  LET D == DOMAIN new
               T == {"source_event_at"}
           IN  /\ md \in Build(Merge(new, At), opt) => Spans(md, D \cup T, D \cup T \cup DOMAIN opt)
               /\ md \in Build(new, Merge(opt, At)) => Spans(md, D, D \cup T \cup DOMAIN opt)
               /\ md \in Build(new, At) => Spans(md, D, D \cup T)
<1>1. /\ DOMAIN Merge(new, At) = DOMAIN new \cup {"source_event_at"} /\ Values(Merge(new, At))
      /\ DOMAIN Merge(opt, At) = DOMAIN opt \cup {"source_event_at"} /\ Values(Merge(opt, At))
  BY AtValues, Merged
<1>2. md \in Build(Merge(new, At), opt) =>
         Spans(md, DOMAIN Merge(new, At), DOMAIN Merge(new, At) \cup DOMAIN opt)
  BY <1>1, Built
<1>3. md \in Build(new, Merge(opt, At)) => Spans(md, DOMAIN new, DOMAIN new \cup DOMAIN Merge(opt, At))
  BY <1>1, Built
<1>4. md \in Build(new, At) => Spans(md, DOMAIN new, DOMAIN new \cup DOMAIN At)
  BY AtValues, Built
<1> QED BY <1>1, <1>2, <1>3, <1>4, AtValues DEF Spans

-----------------------------------------------------------------------------
(* Reports *)

\* An event of action and result may have the keys hi, and needs none but lo; the
\* time of the event is set when it has none.
Suits(a, r, fields, lo, hi) ==
    /\ a \in AuditAction /\ r \in Results
    /\ hi \cup {"source_event_at"} \subseteq AllowedKeys(a, r)
    /\ RequiredKeys(a, r) \subseteq lo \cup {"source_event_at"}
    /\ \A k \in hi : Fits(a, r, k)
    /\ r = "success" =>
         a \notin {"encrypt_create", "encrypt_rotate", "version_purge", "auth_failure",
                   "siem_forward_failure", "incident_detected", "monthly_digest_generate",
                   "monthly_digest_verify"}
    /\ a \in {"auth_failure", "signature_key_created", "signature_key_activated",
              "signature_key_retired"} => fields = {}

\* The draft, completed, passes AuditEvent::new and the database in strict mode.
Storable(d) ==
    /\ d.result = "success" =>
         d.action \notin {"encrypt_create", "encrypt_rotate", "version_purge", "auth_failure",
                         "siem_forward_failure", "incident_detected",
                         "monthly_digest_generate", "monthly_digest_verify"}
    /\ d.action \in {"auth_failure", "signature_key_created", "signature_key_activated",
                     "signature_key_retired"} => d.fields = {}
    /\ "source_event_at" \in DOMAIN d.md
    /\ ~audit_metadata_has_unknown_key_for_action(d.action, d.result, d.md)
    /\ ~audit_metadata_has_missing_required_key_for_action(d.action, d.result, d.md)
    /\ ~audit_metadata_has_invalid_value_for_action(d.action, d.result, d.md)

Completed(d) == [d EXCEPT !.md = Merge(@, At)]
Fine(reports) ==
    \A d \in reports : validate_event_parts(Completed(d)) /\ Storable(Completed(d))

\* Reports with the keys that suit them are fine.
LEMMA ReportFits ==
    ASSUME NEW a, NEW r, NEW via, NEW fields, NEW mds, NEW lo, NEW hi,
           \A md \in mds : Spans(md, lo, hi), Suits(a, r, fields, lo, hi)
    PROVE  Fine(Report(a, r, via, fields, mds))
<1> SUFFICES ASSUME NEW md \in mds,
                    NEW d, d = [action |-> a, result |-> r, via |-> via, fields |-> fields, md |-> md]
             PROVE  validate_event_parts(Completed(d)) /\ Storable(Completed(d))
  BY DEF Fine, Report
<1> DEFINE e == Completed(d)
           m == Merge(md, At)
<1>1. e.action = a /\ e.result = r /\ e.fields = fields /\ e.md = m
  BY DEF Completed
<1>2. DOMAIN At = {"source_event_at"} /\ Values(At)
  BY AtValues
<1>3. Values(md) /\ lo \subseteq DOMAIN md /\ DOMAIN md \subseteq hi
  BY DEF Spans
<1>4. DOMAIN m = DOMAIN md \cup {"source_event_at"} /\ Values(m)
  BY <1>2, <1>3, Merged
<1> HIDE DEF e, m
<1>5. ASSUME NEW k \in DOMAIN m PROVE ValidValue(a, r, k, m[k]) /\ SqlValidValue(a, r, k, m[k])
  <2>1. Value(k, m[k])
    BY <1>4 DEF Values
  <2>2. Fits(a, r, k)
    BY <1>3, <1>4 DEF Suits, Fits
  <2> QED BY <2>1, <2>2, ValueTaken
<1>6. /\ DOMAIN m \subseteq AllowedKeys(a, r) /\ RequiredKeys(a, r) \subseteq DOMAIN m
      /\ "source_event_at" \in DOMAIN m
      /\ AllowedKeys(a, r) = SqlAllowedKeys(a, r) /\ RequiredKeys(a, r) = SqlRequiredKeys(a, r)
  BY <1>3, <1>4, KeyTablesAgree DEF Suits
<1>7. validate_event_parts(e)
  BY <1>1, <1>5, <1>6 DEF validate_event_parts, validate_allowlist_for_action, Suits,
     is_write_success_only, is_failure_only
<1>8. Storable(e)
  BY <1>1, <1>5, <1>6 DEF Storable, Suits, audit_metadata_has_unknown_key_for_action,
     audit_metadata_has_missing_required_key_for_action, audit_metadata_has_invalid_value_for_action
<1> QED BY <1>7, <1>8 DEF e

\* Reports that have the code of an error by their result.
LEMMA ByResultFits ==
    ASSUME NEW a, NEW via, NEW fields, NEW mds, NEW lo, NEW hi,
           \A md \in mds : Spans(md, lo, hi \cup {"error_code"}), "error_code" \notin lo \cup hi,
           Suits(a, "success", fields, lo, hi), Suits(a, "failure", fields, lo, hi \cup {"error_code"})
    PROVE  Fine(ByResult(a, via, fields, mds))
<1>1. \A md \in With(mds, {"error_code"}, {}) : Spans(md, lo, hi)
  BY DEF With, Spans
<1>2. \A md \in With(mds, {"error_code"}, {"error_code"}) : Spans(md, lo, hi \cup {"error_code"})
  BY DEF With, Spans
<1>3. Fine(Report(a, "success", via, fields, With(mds, {"error_code"}, {})))
  BY <1>1, ReportFits
<1>4. Fine(Report(a, "failure", via, fields, With(mds, {"error_code"}, {"error_code"})))
  BY <1>2, ReportFits
<1> QED BY <1>3, <1>4 DEF Fine, ByResult

\* Reports with no metadata at all.
LEMMA EmptySpans == Spans(Empty, {}, {})
BY DEF Spans, Empty, Values

\* Failures that FailureAuditContext reports, but those of create and rotate.
LEMMA FailureFine == Fine(FailureReports)
<1>1. ASSUME NEW a \in {"decrypt", "secret_alias_create", "secret_alias_update",
                        "secret_alias_delete", "secret_alias_list"}, NEW fields
      PROVE  Fine(Report(a, "failure", "recorder", fields, {Empty}))
  <2>1. Suits(a, "failure", fields, {}, {})
    BY DEF Suits, AuditAction, Operations, Records, Results, AllowedKeys, OperationKeys, RecordKeys, RequiredKeys
  <2> QED BY <2>1, EmptySpans, ReportFits
<1> QED BY <1>1 DEF FailureReports, Fine

\* Writes that the database refused.
LEMMA PreparedWriteFine == Fine(PreparedWriteReports)
<1> DEFINE lo == {"version", "secret_version_id"}
           hi == lo \cup {"source_event_at"}
<1>1. DOMAIN Version = lo /\ Values(Version)
  BY Dictionary DEF Version, Values, PositiveKeys, UuidKeys
<1>2. \A md \in Build(Version, At) : Spans(md, lo, hi)
  BY <1>1, BuiltAt
<1>3. ASSUME NEW a \in {"encrypt_create", "encrypt_rotate"}, NEW fields,
             NEW mds, mds = With(Build(Version, At), DOMAIN At, {})
      PROVE  Fine(Report(a, "failure", "recorder", fields, mds))
  <2>1. \A md \in mds : Spans(md, lo, hi)
    BY <1>2, <1>3 DEF With
  <2>2. Suits(a, "failure", fields, lo, hi)
    BY DEF Suits, Fits, AuditAction, Operations, Records, Results, AllowedKeys, OperationKeys, RecordKeys, RequiredKeys
  <2> QED BY <2>1, <2>2, ReportFits
<1> QED BY <1>3 DEF PreparedWriteReports, Fine, EncryptCreateMetadata, EncryptRotateMetadata

\* Decryption and the list of aliases.
LEMMA ReadsFine == Fine(DecryptReports) /\ Fine(AliasListReports)
<1>1. Fine(DecryptReports)
  <2>1. Suits("decrypt", "success", {"user", "target", "key"}, {}, {})
    BY DEF Suits, AuditAction, Operations, Records, Results, AllowedKeys, OperationKeys, RecordKeys, RequiredKeys
  <2> QED BY <2>1, EmptySpans, ReportFits DEF DecryptReports
<1>2. Fine(AliasListReports)
  <2> DEFINE lo == {"source_event_at", "result_count"}
             mds == UNION {With(SecretAliasListMetadata(TRUE, n), {"error_code"}, {}) : n \in Count}
  <2>1. ASSUME NEW n \in Count, NEW md \in SecretAliasListMetadata(TRUE, n)
        PROVE  Spans(md, lo, lo \cup {"error_code"})
    <3> DEFINE new == [result_count |-> n]
               opt == [error_code |-> "text64"]
    <3>1. DOMAIN new = {"result_count"} /\ Values(new) /\ DOMAIN opt = {"error_code"} /\ Values(opt)
      BY Dictionary DEF Values, CountKeys, TextKeys
    <3>2. md \in Build(Merge(At, new), opt)
      BY <2>1 DEF SecretAliasListMetadata
    <3> HIDE DEF new, opt
    <3>3. DOMAIN Merge(At, new) = DOMAIN At \cup DOMAIN new /\ Values(Merge(At, new))
      BY <3>1, AtValues, Merged
    <3>4. DOMAIN At \cup DOMAIN new = lo
      BY <3>1, AtValues
    <3> QED BY <3>1, <3>2, <3>3, <3>4, Built
  <2>2. \A md \in mds : Spans(md, lo, lo)
    BY <2>1 DEF With, Spans
  <2>3. Suits("secret_alias_list", "success", {"user"}, lo, lo)
    BY DEF Suits, Fits, AuditAction, Operations, Records, Results, AllowedKeys, OperationKeys, RecordKeys, RequiredKeys
  <2> HIDE DEF mds
  <2>4. Fine(Report("secret_alias_list", "success", "recorder", {"user"}, mds))
    BY <2>2, <2>3, ReportFits
  <2> QED BY <2>4 DEF AliasListReports, mds
<1> QED BY <1>1, <1>2

\* Refused requests, and batches that the SIEM did not take.
LEMMA RefusalsFine == Fine(AuthFailureReports) /\ Fine(SiemForwardFailureReports)
<1> DEFINE new == [error_code |-> "text64"]
<1>1. DOMAIN new = {"error_code"} /\ Values(new)
  BY Dictionary DEF Values, TextKeys
<1> HIDE DEF new
<1>2. Fine(AuthFailureReports)
  <2>1. \A md \in AuthFailureMetadata : Spans(md, {"error_code"}, {"error_code", "source_event_at"})
    BY <1>1, BuiltAt DEF AuthFailureMetadata, new, Spans
  <2>2. Suits("auth_failure", "failure", {}, {"error_code"}, {"error_code", "source_event_at"})
    BY DEF Suits, Fits, AuditAction, Operations, Records, Results, AllowedKeys, OperationKeys, RecordKeys, RequiredKeys
  <2> QED BY <2>1, <2>2, ReportFits DEF AuthFailureReports
<1>3. Fine(SiemForwardFailureReports)
  <2> DEFINE lo == {"error_code"}
             hi == {"error_code", "event_type", "event_count", "source_event_at"}
             mds(n) == With(SiemForwardFailureMetadata(n), {"event_type"}, {"event_type"})
  <2>1. ASSUME NEW n \in Count, NEW md \in SiemForwardFailureMetadata(n) PROVE Spans(md, lo, hi)
    <3> DEFINE opt == [event_type |-> "text64", event_count |-> n]
    <3>1. DOMAIN opt = {"event_type", "event_count"} /\ Values(opt)
      BY Dictionary DEF Values, TextKeys
    <3>2. md \in Build(new, Merge(opt, At))
      BY <2>1 DEF SiemForwardFailureMetadata, new
    <3> HIDE DEF opt
    <3> QED BY <1>1, <3>1, <3>2, BuiltAt DEF Spans
  <2>2. Suits("siem_forward_failure", "failure", {}, lo, hi)
    BY DEF Suits, Fits, AuditAction, Operations, Records, Results, AllowedKeys, OperationKeys, RecordKeys, RequiredKeys
  <2>3. ASSUME NEW n \in Count
        PROVE  Fine(Report("siem_forward_failure", "failure", "recorder", {}, mds(n)))
    <3>1. \A md \in mds(n) : Spans(md, lo, hi)
      BY <2>1 DEF With
    <3> HIDE DEF mds
    <3> QED BY <2>2, <3>1, ReportFits
  <2> QED BY <2>3 DEF SiemForwardFailureReports, Fine
<1> QED BY <1>2, <1>3

\* The checks of the system, from the command line, at start and in the background.
LEMMA IntegrityCheckFine == Fine(IntegrityCheckReports)
<1> DEFINE lo == {"check_name", "checked_secret_count", "checked_secret_version_count",
                  "checked_audit_event_count", "duration_ms", "violation_count",
                  "violation_summary", "trigger"}
           hi == lo \cup {"source_event_at"}
           a == "integrity_check"
<1>1. ASSUME NEW n \in Count, NEW t \in Trigger, NEW md \in IntegrityCheckMetadata(n, t)
      PROVE  Spans(md, lo, hi \cup {"error_code"})
  <2> DEFINE new == [check_name |-> "mvp_integrity_check", checked_secret_count |-> n,
                     checked_secret_version_count |-> n, checked_audit_event_count |-> n,
                     duration_ms |-> n, violation_count |-> n, violation_summary |-> "summary",
                     trigger |-> t]
             opt == [error_code |-> "text64"]
  <2>1. DOMAIN new = lo /\ Values(new)
    BY Dictionary DEF Values, CountKeys
  <2>2. DOMAIN opt = {"error_code"} /\ Values(opt)
    BY Dictionary DEF Values, TextKeys
  <2>3. md \in Build(new, Merge(opt, At))
    BY <1>1 DEF IntegrityCheckMetadata
  <2> HIDE DEF new, opt
  <2> QED BY <2>1, <2>2, <2>3, BuiltAt DEF Spans
<1>2. Suits(a, "success", {}, lo, hi) /\ Suits(a, "failure", {}, lo, hi \cup {"error_code"})
  BY DEF Suits, Fits, AuditAction, Operations, Records, Results, AllowedKeys, OperationKeys, RecordKeys, RequiredKeys
<1>3. ASSUME NEW n \in Count, NEW t \in Trigger, NEW via
      PROVE  /\ Fine(Report(a, "success", via, {}, With(IntegrityCheckMetadata(n, t), {"error_code"}, {})))
             /\ Fine(Report(a, "failure", via, {},
                            With(IntegrityCheckMetadata(n, t), {"error_code"}, {"error_code"})))
  <2> HIDE DEF a, lo, hi
  <2>1. \A md \in With(IntegrityCheckMetadata(n, t), {"error_code"}, {}) : Spans(md, lo, hi)
    BY <1>1 DEF With, Spans
  <2>2. \A md \in With(IntegrityCheckMetadata(n, t), {"error_code"}, {"error_code"}) :
           Spans(md, lo, hi \cup {"error_code"})
    BY <1>1 DEF With
  <2> QED BY <1>2, <2>1, <2>2, ReportFits
<1> QED BY <1>3 DEF IntegrityCheckReports, Fine

\* The restore test.
LEMMA RestoreTestFine == Fine(RestoreTestReports)
<1> DEFINE lo == {"phase", "sample_count", "trigger", "duration_ms"}
           hi == lo \cup {"source_event_at"}
           option == {"error_code", "failed_version", "reason"}
           a == "restore_test"
<1>1. ASSUME NEW n \in Count, NEW t \in Trigger, NEW md \in RestoreTestMetadata(n, t)
      PROVE  Spans(md, lo, hi \cup option)
  <2> DEFINE new == [phase |-> "verify", sample_count |-> n, trigger |-> t, duration_ms |-> n]
             opt == [error_code |-> "text64", failed_version |-> "positive",
                     reason |-> "no_current_secret_versions"]
  <2>1. DOMAIN new = lo /\ Values(new)
    BY Dictionary DEF Values, CountKeys
  <2>2. DOMAIN opt = option /\ Values(opt)
    BY Dictionary DEF Values, TextKeys
  <2>3. md \in Build(new, Merge(opt, At))
    BY <1>1 DEF RestoreTestMetadata
  <2> HIDE DEF new, opt
  <2> QED BY <2>1, <2>2, <2>3, BuiltAt DEF Spans
<1>2. /\ Suits(a, "success", {}, lo, hi \cup {"reason"})
      /\ \A fields : Suits(a, "failure", fields, lo, hi \cup {"error_code", "failed_version"})
  BY DEF Suits, Fits, AuditAction, Operations, Records, Results, AllowedKeys, OperationKeys, RecordKeys, RequiredKeys
<1>3. ASSUME NEW n \in Count, NEW t \in Trigger, NEW chosen \in SUBSET {"reason"}
      PROVE  Fine(Report(a, "success", "recorder", {}, With(RestoreTestMetadata(n, t), option, chosen)))
  <2> HIDE DEF a, lo
  <2>1. \A md \in With(RestoreTestMetadata(n, t), option, chosen) : Spans(md, lo, hi \cup {"reason"})
    BY <1>1, <1>3 DEF With, Spans
  <2> HIDE DEF hi, option
  <2> QED BY <1>2, <2>1, ReportFits
<1>4. ASSUME NEW t \in Trigger, NEW fields
      PROVE  Fine(Report(a, "failure", "recorder", fields,
                         UNION {With(RestoreTestMetadata(n, t), option, {"error_code"} \cup f)
                                : n \in Count, f \in {{}, {"failed_version"}}}))
  <2> DEFINE mds == UNION {With(RestoreTestMetadata(n, t), option, {"error_code"} \cup f)
                           : n \in Count, f \in {{}, {"failed_version"}}}
  <2> HIDE DEF a, lo
  <2>1. \A md \in mds : Spans(md, lo, hi \cup {"error_code", "failed_version"})
    BY <1>1 DEF With, Spans
  <2> HIDE DEF mds, hi, option
  <2>2. Fine(Report(a, "failure", "recorder", fields, mds))
    BY <1>2, <2>1, ReportFits
  <2> QED BY <2>2 DEF mds
<1> DEFINE A(t) == Report(a, "success", "recorder", {},
                          With(RestoreTestMetadata("zero", t), option, {"reason"}))
           B(t) == Report(a, "success", "recorder", {},
                          With(RestoreTestMetadata("positive", t), option, {}))
           C(t, fields) == Report(a, "failure", "recorder", fields,
                                  UNION {With(RestoreTestMetadata(n, t), option, {"error_code"} \cup f)
                                         : n \in Count, f \in {{}, {"failed_version"}}})
<1>5. RestoreTestReports =
         UNION {A(t) \cup B(t) \cup UNION {C(t, fields) : fields \in {{}, {"target", "key"}}}
                : t \in Trigger}
  BY DEF RestoreTestReports
<1>6. ASSUME NEW t \in Trigger PROVE Fine(A(t)) /\ Fine(B(t)) /\ \A fields : Fine(C(t, fields))
  <2>1. {"zero", "positive"} \subseteq Count
    BY DEF Count
  <2>2. Fine(A(t)) /\ Fine(B(t))
    <3> HIDE DEF a, option
    <3> QED BY <1>3, <2>1
  <2>3. \A fields : Fine(C(t, fields))
    BY <1>4
  <2> QED BY <2>2, <2>3
<1> HIDE DEF A, B, C
<1> QED BY <1>5, <1>6 DEF Fine

\* The rotation of the Master Key.
LEMMA KeyRotationFine == Fine(KeyRotationReports)
<1> DEFINE base == {"old_key_version", "new_key_version"}
           T == {"source_event_at"}
<1>1. DOMAIN KeyVersions = base /\ Values(KeyVersions)
  BY Dictionary DEF KeyVersions, Values, PositiveKeys
<1>2. Fine(Report("key_rotation_start", "success", "ledger", {"key"}, KeyRotationStartMetadata))
  <2>1. \A md \in KeyRotationStartMetadata : Spans(md, base, base \cup T)
    BY <1>1, BuiltAt DEF KeyRotationStartMetadata
  <2>2. Suits("key_rotation_start", "success", {"key"}, base, base \cup T)
    BY DEF Suits, Fits, AuditAction, Operations, Records, Results, AllowedKeys, OperationKeys, RecordKeys, RequiredKeys
  <2> QED BY <2>1, <2>2, ReportFits
<1>3. ASSUME NEW n \in Count
      PROVE  Fine(Report("key_rotation_reencrypt", "success", "ledger", {"key"},
                         KeyRotationReencryptMetadata(n)))
  <2> DEFINE new == [batch_size |-> "positive", processed_count |-> "positive", remaining_count |-> n]
             lo == base \cup {"batch_size", "processed_count", "remaining_count"}
  <2>1. DOMAIN new = {"batch_size", "processed_count", "remaining_count"} /\ Values(new)
    BY Dictionary DEF Values, PositiveKeys, CountKeys, Count
  <2> HIDE DEF new
  <2>2. DOMAIN Merge(KeyVersions, new) = lo /\ Values(Merge(KeyVersions, new))
    BY <1>1, <2>1, Merged
  <2>3. \A md \in KeyRotationReencryptMetadata(n) : Spans(md, lo, lo \cup T)
    BY <2>2, BuiltAt DEF KeyRotationReencryptMetadata, new
  <2>4. Suits("key_rotation_reencrypt", "success", {"key"}, lo, lo \cup T)
    BY DEF Suits, Fits, AuditAction, Operations, Records, Results, AllowedKeys, OperationKeys, RecordKeys, RequiredKeys
  <2> QED BY <2>3, <2>4, ReportFits
<1>4. ASSUME NEW n \in Count
      PROVE  Fine(Report("key_rotation_complete", "success", "ledger", {"key"},
                         KeyRotationCompleteMetadata(n)))
  <2> DEFINE new == [remaining_count |-> n]
             lo == base \cup {"remaining_count"}
  <2>1. DOMAIN new = {"remaining_count"} /\ Values(new)
    BY Dictionary DEF Values, CountKeys
  <2> HIDE DEF new
  <2>2. DOMAIN Merge(KeyVersions, new) = lo /\ Values(Merge(KeyVersions, new))
    BY <1>1, <2>1, Merged
  <2>3. \A md \in KeyRotationCompleteMetadata(n) : Spans(md, lo, lo \cup T)
    BY <2>2, BuiltAt DEF KeyRotationCompleteMetadata, new
  <2>4. Suits("key_rotation_complete", "success", {"key"}, lo, lo \cup T)
    BY DEF Suits, Fits, AuditAction, Operations, Records, Results, AllowedKeys, OperationKeys, RecordKeys, RequiredKeys
  <2> QED BY <2>3, <2>4, ReportFits
<1> QED BY <1>2, <1>3, <1>4 DEF KeyRotationReports, Fine

\* The life of the signing keys.
LEMMA SignatureKeyFine == Fine(SignatureKeyReports)
<1> DEFINE base == {"signature_key_version", "public_key_fingerprint", "source_event_at"}
           key == [signature_key_version |-> "positive", public_key_fingerprint |-> "hex64"]
<1>1. DOMAIN key = {"signature_key_version", "public_key_fingerprint"} /\ Values(key)
  BY Dictionary DEF Values, PositiveKeys, HexKeys
<1> HIDE DEF key
<1>2. DOMAIN SignatureKey = base /\ Values(SignatureKey)
  BY <1>1, AtValues, Merged DEF SignatureKey, key
<1>3. ASSUME NEW new, NEW k \in TimeKeys, DOMAIN new = {k}, new[k] = "time"
      PROVE  Spans(Merge(new, SignatureKey), base \cup {k}, base \cup {k})
  <2>1. Values(new)
    BY <1>3, Dictionary DEF Values
  <2> QED BY <1>2, <1>3, <2>1, Merged DEF Spans
<1>4. /\ \A md \in SignatureKeyCreatedMetadata : Spans(md, base \cup {"created_at"}, base \cup {"created_at"})
      /\ \A md \in SignatureKeyActivatedMetadata : Spans(md, base \cup {"activated_at"}, base \cup {"activated_at"})
      /\ \A md \in SignatureKeyRetiredMetadata : Spans(md, base \cup {"retired_at"}, base \cup {"retired_at"})
  BY <1>3 DEF SignatureKeyCreatedMetadata, SignatureKeyActivatedMetadata, SignatureKeyRetiredMetadata,
     TimeKeys
<1>5. /\ Suits("signature_key_created", "success", {}, base \cup {"created_at"}, base \cup {"created_at"})
      /\ Suits("signature_key_activated", "success", {}, base \cup {"activated_at"}, base \cup {"activated_at"})
      /\ Suits("signature_key_retired", "success", {}, base \cup {"retired_at"}, base \cup {"retired_at"})
  BY DEF Suits, Fits, AuditAction, Operations, Records, Results, AllowedKeys, OperationKeys, RecordKeys, RequiredKeys
<1> HIDE DEF base
<1>6. /\ Fine(Report("signature_key_created", "success", "ledger", {}, SignatureKeyCreatedMetadata))
      /\ Fine(Report("signature_key_activated", "success", "ledger", {}, SignatureKeyActivatedMetadata))
      /\ Fine(Report("signature_key_retired", "success", "ledger", {}, SignatureKeyRetiredMetadata))
  BY <1>4, <1>5, ReportFits
<1> QED BY <1>6 DEF SignatureKeyReports, Fine

\* The month of a digest.
LEMMA MonthValues == DOMAIN Month = {"target_year_month", "source_event_at"} /\ Values(Month)
<1> DEFINE m == [target_year_month |-> "month"]
<1>1. DOMAIN m = {"target_year_month"} /\ Values(m)
  BY Dictionary DEF Values
<1> HIDE DEF m
<1>2. DOMAIN Merge(m, At) = DOMAIN m \cup DOMAIN At /\ Values(Merge(m, At))
  BY <1>1, AtValues, Merged
<1> QED BY <1>1, <1>2, AtValues DEF Month, m

\* Digests that failed, or did not verify.
LEMMA MonthlyDigestFine == Fine(MonthlyDigestReports)
<1> DEFINE lo == {"error_code", "target_year_month", "source_event_at"}
           new == [error_code |-> "text64"]
<1>1. DOMAIN new = {"error_code"} /\ Values(new)
  BY Dictionary DEF Values, TextKeys
<1> HIDE DEF new
<1>2. Spans(Merge(new, Month), lo, lo)
  BY <1>1, MonthValues, Merged DEF Spans
<1>3. ASSUME NEW a \in {"monthly_digest_generate", "monthly_digest_verify"}
      PROVE  Fine(Report(a, "failure", "recorder", {}, {Merge(new, Month)}))
  <2>1. Suits(a, "failure", {}, lo, lo)
    BY DEF Suits, Fits, AuditAction, Operations, Records, Results, AllowedKeys, OperationKeys, RecordKeys, RequiredKeys
  <2> QED BY <1>2, <2>1, ReportFits
<1> QED BY <1>3 DEF MonthlyDigestReports, Fine, MonthlyDigestGenerateMetadata,
       MonthlyDigestVerifyMetadata, new

\* Exports to the archive.
LEMMA ArchiveExportFine == Fine(ArchiveExportReports)
<1> DEFINE opt == [archive_key |-> "text256", digest_hash |-> "hex64", error_code |-> "text64"]
           base == {"target_year_month", "source_event_at"}
           option == {"archive_key", "digest_hash", "error_code"}
           md(chosen) == With(ArchiveExportMetadata, option, chosen)
           a == "archive_export"
<1>1. DOMAIN opt = option /\ Values(opt)
  BY Dictionary DEF Values, HexKeys, TextKeys
<1> HIDE DEF opt
<1>2. \A m \in ArchiveExportMetadata : Spans(m, base, base \cup option)
  BY <1>1, MonthValues, Built DEF ArchiveExportMetadata, opt
<1>3. /\ \A m \in md({"archive_key", "digest_hash"}) : Spans(m, base, base \cup {"archive_key", "digest_hash"})
      /\ \A m \in md({"error_code"}) : Spans(m, base, base \cup {"error_code"})
  BY <1>2 DEF With, Spans
<1>4. /\ Suits(a, "success", {}, base, base \cup {"archive_key", "digest_hash"})
      /\ Suits(a, "failure", {}, base, base \cup {"error_code"})
  BY DEF Suits, Fits, AuditAction, Operations, Records, Results, AllowedKeys, OperationKeys, RecordKeys, RequiredKeys
<1>5. ArchiveExportReports =
         Report(a, "success", "recorder", {}, md({"archive_key", "digest_hash"}))
         \cup Report(a, "failure", "recorder", {}, md({"error_code"}))
  BY DEF ArchiveExportReports
<1> HIDE DEF md, base, a
<1>6. /\ Fine(Report(a, "success", "recorder", {}, md({"archive_key", "digest_hash"})))
      /\ Fine(Report(a, "failure", "recorder", {}, md({"error_code"})))
  BY <1>3, <1>4, ReportFits
<1> QED BY <1>5, <1>6 DEF Fine

\* Timestamps of digests.
LEMMA DigestTimestampingFine == Fine(DigestTimestampingReports)
<1> DEFINE opt == [digest_hash |-> "hex64", timestamp_token_hash |-> "hex64", error_code |-> "text64"]
           base == {"target_year_month", "source_event_at"}
           option == {"timestamp_token_hash", "digest_hash", "error_code"}
           md(chosen) == With(DigestTimestampingMetadata, option, chosen)
           a == "digest_timestamping"
<1>1. DOMAIN opt = option /\ Values(opt)
  BY Dictionary DEF Values, HexKeys, TextKeys
<1> HIDE DEF opt
<1>2. \A m \in DigestTimestampingMetadata : Spans(m, base, base \cup option)
  BY <1>1, MonthValues, Built DEF DigestTimestampingMetadata, opt
<1>3. /\ \A m \in md({"digest_hash", "timestamp_token_hash"}) :
            Spans(m, base, base \cup {"digest_hash", "timestamp_token_hash"})
      /\ \A m \in md({"digest_hash", "error_code"}) : Spans(m, base, base \cup {"digest_hash", "error_code"})
  BY <1>2 DEF With, Spans
<1>4. /\ Suits(a, "success", {}, base, base \cup {"digest_hash", "timestamp_token_hash"})
      /\ Suits(a, "failure", {}, base, base \cup {"digest_hash", "error_code"})
  BY DEF Suits, Fits, AuditAction, Operations, Records, Results, AllowedKeys, OperationKeys, RecordKeys, RequiredKeys
<1>5. DigestTimestampingReports =
         Report(a, "success", "recorder", {}, md({"digest_hash", "timestamp_token_hash"}))
         \cup Report(a, "failure", "recorder", {}, md({"digest_hash", "error_code"}))
  BY DEF DigestTimestampingReports
<1> HIDE DEF md, base, a
<1>6. /\ Fine(Report(a, "success", "recorder", {}, md({"digest_hash", "timestamp_token_hash"})))
      /\ Fine(Report(a, "failure", "recorder", {}, md({"digest_hash", "error_code"})))
  BY <1>3, <1>4, ReportFits
<1> QED BY <1>5, <1>6 DEF Fine

\* Audit reports.
LEMMA AuditReportFine == Fine(AuditReportReports)
<1> DEFINE lo == {"format", "period_start", "period_end", "source_event_at"}
           a == "audit_report_generate"
<1>1. ASSUME NEW f \in {"json", "markdown"}, NEW md \in AuditReportGenerateMetadata(f)
      PROVE  Spans(md, lo, lo \cup {"error_code"})
  <2> DEFINE new == [format |-> f, period_start |-> "time", period_end |-> "time"]
             opt == [error_code |-> "text64"]
  <2>1. /\ DOMAIN new = {"format", "period_start", "period_end"} /\ Values(new)
        /\ DOMAIN opt = {"error_code"} /\ Values(opt)
    BY Dictionary DEF Values, TimeKeys, TextKeys
  <2>2. md \in Build(Merge(new, At), opt)
    BY <1>1 DEF AuditReportGenerateMetadata
  <2> HIDE DEF new, opt
  <2> QED BY <2>1, <2>2, BuiltAt DEF Spans
<1>2. Suits(a, "success", {}, lo, lo) /\ Suits(a, "failure", {}, lo, lo \cup {"error_code"})
  BY DEF Suits, Fits, AuditAction, Operations, Records, Results, AllowedKeys, OperationKeys, RecordKeys, RequiredKeys
<1>3. "error_code" \notin lo \cup lo
  OBVIOUS
<1> HIDE DEF a, lo
<1>4. ASSUME NEW f \in {"json", "markdown"}
      PROVE  Fine(ByResult(a, "recorder", {}, AuditReportGenerateMetadata(f)))
  BY <1>1, <1>2, <1>3, ByResultFits
<1> QED BY <1>4 DEF AuditReportReports, Fine, a

\* Reads through the audit UI.
LEMMA AuditUiReadFine == Fine(AuditUiReadReports)
<1> DEFINE lo == {"endpoint", "method", "resource", "source_event_at"}
           hi == lo \cup {"period_start", "period_end", "start_sequence_no", "end_sequence_no",
                          "result_count", "target_year_month"}
           a == "audit_ui_read"
           new == [endpoint |-> "text64", method |-> "GET", resource |-> "text64"]
           period == [period_start |-> "time", period_end |-> "time"]
           range == [start_sequence_no |-> "positive", end_sequence_no |-> "positive"]
<1>1. DOMAIN new = {"endpoint", "method", "resource"} /\ Values(new)
  BY Dictionary DEF Values, TextKeys
<1>2. /\ DOMAIN period = {"period_start", "period_end"} /\ Values(period)
      /\ DOMAIN range = {"start_sequence_no", "end_sequence_no"} /\ Values(range)
  BY Dictionary DEF Values, TimeKeys, PositiveKeys
<1>3. DOMAIN Empty = {} /\ Values(Empty)
  BY EmptySpans DEF Spans
<1>4. ASSUME NEW n \in Count, NEW md \in AuditUiReadMetadata(n)
      PROVE  Spans(md, lo, hi \cup {"error_code"})
  <2> DEFINE opt == [result_count |-> n, target_year_month |-> "month", error_code |-> "text64"]
  <2>1. DOMAIN opt = {"result_count", "target_year_month", "error_code"} /\ Values(opt)
    BY Dictionary DEF Values, CountKeys, TextKeys
  <2>2. PICK p \in {Empty, period}, r \in {Empty, range} :
           md \in Build(Merge(Merge(new, At), Merge(p, r)), opt)
    BY <1>4 DEF AuditUiReadMetadata
  <2> HIDE DEF opt, new, period, range
  <2>3. /\ DOMAIN p \subseteq {"period_start", "period_end"} /\ Values(p)
        /\ DOMAIN r \subseteq {"start_sequence_no", "end_sequence_no"} /\ Values(r)
    BY <1>2, <1>3, <2>2
  <2>4. DOMAIN Merge(new, At) = lo /\ Values(Merge(new, At))
    <3>1. DOMAIN Merge(new, At) = DOMAIN new \cup DOMAIN At /\ Values(Merge(new, At))
      BY <1>1, AtValues, Merged
    <3> QED BY <1>1, <3>1, AtValues
  <2>5. DOMAIN Merge(p, r) = DOMAIN p \cup DOMAIN r /\ Values(Merge(p, r))
    BY <2>3, Merged
  <2> DEFINE fixed == Merge(Merge(new, At), Merge(p, r))
  <2>6. DOMAIN fixed = lo \cup DOMAIN p \cup DOMAIN r /\ Values(fixed)
    <3>1. DOMAIN fixed = DOMAIN Merge(new, At) \cup DOMAIN Merge(p, r) /\ Values(fixed)
      BY <2>4, <2>5, Merged
    <3> HIDE DEF fixed, lo
    <3> QED BY <2>4, <2>5, <3>1
  <2> HIDE DEF fixed
  <2>7. Spans(md, DOMAIN fixed, DOMAIN fixed \cup DOMAIN opt)
    BY <2>1, <2>2, <2>6, Built DEF fixed
  <2> QED BY <2>1, <2>3, <2>6, <2>7 DEF Spans
<1>5. Suits(a, "success", {"user"}, lo, hi) /\ Suits(a, "failure", {"user"}, lo, hi \cup {"error_code"})
  BY DEF Suits, Fits, AuditAction, Operations, Records, Results, AllowedKeys, OperationKeys, RecordKeys, RequiredKeys
<1>6. "error_code" \notin lo \cup hi
  OBVIOUS
<1> HIDE DEF a, lo, hi
<1>7. ASSUME NEW n \in Count PROVE Fine(ByResult(a, "recorder", {"user"}, AuditUiReadMetadata(n)))
  BY <1>4, <1>5, <1>6, ByResultFits
<1> QED BY <1>7 DEF AuditUiReadReports, Fine, a

\* The jobs of the scheduler, and signature-key verify-all.
LEMMA SchedulerJobFine == Fine(SchedulerJobReports)
<1> DEFINE lo == {"job_name", "trigger", "duration_ms", "source_event_at"}
           hi == lo \cup {"target_year_month"}
           a == "scheduler_job"
<1>1. ASSUME NEW n \in Count, NEW t \in Trigger, NEW md \in SchedulerJobMetadata(n, t)
      PROVE  Spans(md, lo, hi \cup {"error_code"})
  <2> DEFINE new == [job_name |-> "text64", trigger |-> t, duration_ms |-> n]
             opt == [error_code |-> "text64", target_year_month |-> "month"]
  <2>1. DOMAIN new = {"job_name", "trigger", "duration_ms"} /\ Values(new)
    BY Dictionary DEF Values, TextKeys, CountKeys
  <2>2. DOMAIN opt = {"error_code", "target_year_month"} /\ Values(opt)
    BY Dictionary DEF Values, TextKeys
  <2>3. md \in Build(Merge(new, At), opt)
    BY <1>1 DEF SchedulerJobMetadata
  <2> HIDE DEF new, opt
  <2> QED BY <2>1, <2>2, <2>3, BuiltAt DEF Spans
<1>2. Suits(a, "success", {}, lo, hi) /\ Suits(a, "failure", {}, lo, hi \cup {"error_code"})
  BY DEF Suits, Fits, AuditAction, Operations, Records, Results, AllowedKeys, OperationKeys, RecordKeys, RequiredKeys
<1>3. "error_code" \notin lo \cup hi /\ {"background", "cli"} \subseteq Trigger
  BY DEF Trigger
<1> HIDE DEF a, lo, hi
<1>4. ASSUME NEW n \in Count, NEW via
      PROVE  /\ Fine(ByResult(a, via, {}, SchedulerJobMetadata(n, "background")))
             /\ Fine(ByResult(a, via, {}, With(SchedulerJobMetadata(n, "cli"), {"target_year_month"}, {})))
  <2>1. /\ \A md \in SchedulerJobMetadata(n, "background") : Spans(md, lo, hi \cup {"error_code"})
        /\ \A md \in With(SchedulerJobMetadata(n, "cli"), {"target_year_month"}, {}) :
              Spans(md, lo, hi \cup {"error_code"})
    BY <1>1, <1>3 DEF With
  <2> QED BY <1>2, <1>3, <2>1, ByResultFits
<1> QED BY <1>4 DEF SchedulerJobReports, Fine, a

\* Incidents, of every type and with every answer of the notification.
LEMMA IncidentFine == Fine(IncidentReports)
<1> DEFINE lo == {"incident_type", "severity", "detection_source", "dedupe_key",
                  "notification_sink", "notification_result", "error_code", "source_event_at"}
           hi == lo \cup {"source_event_id", "target_sequence_no", "target_year_month"}
           a == "incident_detected"
<1>1. ASSUME NEW type \in IncidentType, NEW sev \in Severity, NEW notified \in NotificationResult,
             NEW md \in IncidentDetectedMetadata(type, sev, notified)
      PROVE  Spans(md, lo, hi)
  <2> DEFINE new == [incident_type |-> type, severity |-> sev, detection_source |-> "text64",
                     dedupe_key |-> "text128", notification_sink |-> "text64",
                     notification_result |-> notified, error_code |-> "text64"]
             opt == [source_event_id |-> "uuid", target_sequence_no |-> "positive",
                     target_year_month |-> "month"]
  <2>1. DOMAIN new = lo \ {"source_event_at"} /\ Values(new)
    BY Dictionary DEF Values, TextKeys
  <2>2. DOMAIN opt = {"source_event_id", "target_sequence_no", "target_year_month"} /\ Values(opt)
    BY Dictionary DEF Values, UuidKeys, PositiveKeys
  <2>3. md \in Build(Merge(new, At), opt)
    BY <1>1 DEF IncidentDetectedMetadata
  <2> HIDE DEF new, opt
  <2> QED BY <2>1, <2>2, <2>3, BuiltAt DEF Spans
<1>2. Suits(a, "failure", {}, lo, hi)
  BY DEF Suits, Fits, AuditAction, Operations, Records, Results, AllowedKeys, OperationKeys, RecordKeys, RequiredKeys
<1>3. \A type : severity_for_incident(type) \in Severity
  BY DEF severity_for_incident, Severity
<1> HIDE DEF a, lo, hi
<1>4. ASSUME NEW type \in IncidentType, NEW notified \in NotificationResult
      PROVE  Fine(Report(a, "failure", "ledger", {},
                         IncidentDetectedMetadata(type, severity_for_incident(type), notified)))
  BY <1>1, <1>2, <1>3, ReportFits
<1> QED BY <1>4 DEF IncidentReports, Fine, a

\* A write that failed before its version was prepared has no event: its keys are
\* missing.
LEMMA UnpreparedRefused == \A d \in UnpreparedWriteReports : ~validate_event_parts(Completed(d))
<1>1. ASSUME NEW a \in {"encrypt_create", "encrypt_rotate"}, NEW fields,
             NEW d \in Report(a, "failure", "recorder", fields, {Empty})
      PROVE  ~validate_event_parts(Completed(d))
  <2>1. d = [action |-> a, result |-> "failure", via |-> "recorder", fields |-> fields, md |-> Empty]
    BY <1>1 DEF Report
  <2> DEFINE m == Merge(Empty, At)
  <2>2. Completed(d).action = a /\ Completed(d).result = "failure" /\ Completed(d).md = m
    BY <2>1 DEF Completed
  <2>3. DOMAIN m = {"source_event_at"}
    BY AtValues DEF Merge, Empty
  <2>4. "version" \in RequiredKeys(a, "failure")
    BY DEF RequiredKeys
  <2> HIDE DEF m
  <2> QED BY <2>2, <2>3, <2>4 DEF validate_event_parts, validate_allowlist_for_action
<1> QED BY <1>1 DEF UnpreparedWriteReports

\* Every report is that of an unprepared write, or is fine.
LEMMA ReportsFine ==
    ASSUME NEW d \in Reports, d \notin UnpreparedWriteReports
    PROVE  validate_event_parts(Completed(d)) /\ Storable(Completed(d))
BY FailureFine, PreparedWriteFine, ReadsFine, RefusalsFine, IntegrityCheckFine, RestoreTestFine,
   KeyRotationFine, SignatureKeyFine, MonthlyDigestFine, ArchiveExportFine,
   DigestTimestampingFine, AuditReportFine, AuditUiReadFine, SchedulerJobFine, IncidentFine
   DEF Reports, Fine

-----------------------------------------------------------------------------
\* What is reported is one of the reports, what is unrecorded is an unprepared write,
\* and what has become an event the strict database takes.
SInv ==
    /\ stage = "reported" => draft \in Reports
    /\ stage = "unrecorded" => draft \in UnpreparedWriteReports
    /\ stage \in {"built", "fallback"} => Storable(draft)

\* It holds before the first report.
LEMMA SchemaInit == Init => SInv
BY DEF Init, SInv

\* Every step keeps it.
LEMMA SchemaStep == SInv /\ [Next]_vars => SInv'
<1> SUFFICES ASSUME SInv, [Next]_vars PROVE SInv'
  OBVIOUS
<1>1. CASE Occur
  BY <1>1 DEF Occur, SInv
<1>2. CASE NewEvent
  <2>1. draft \in Reports
    BY <1>2 DEF NewEvent, SInv
  <2>2. CASE validate_event_parts(Completed(draft))
    <3>1. draft' = Completed(draft) /\ stage' = "built"
      BY <1>2, <2>2 DEF NewEvent, Completed
    <3>2. Storable(Completed(draft))
      BY <2>1, <2>2, ReportsFine, UnpreparedRefused
    <3> QED BY <3>1, <3>2 DEF SInv, Storable
  <2>3. CASE ~validate_event_parts(Completed(draft))
    <3>1. draft' = draft /\ stage' = "unrecorded"
      BY <1>2, <2>3 DEF NewEvent, Completed
    <3> QED BY <2>1, <2>3, <3>1, ReportsFine DEF SInv
  <2> QED BY <2>2, <2>3
<1>3. CASE Append
  BY <1>3 DEF Append, SInv
<1>4. CASE AppendFails
  BY <1>4 DEF AppendFails, SInv, Storable
<1>5. CASE SetMode \/ RemoveUser \/ UNCHANGED vars
  BY <1>5 DEF SetMode, RemoveUser, vars, SInv, Storable
<1> QED BY <1>1, <1>2, <1>3, <1>4, <1>5 DEF Next

\* Every report passes the checks of AuditEvent::new, whichever builder made its
\* metadata, but that of a create or rotate that failed before its version was
\* prepared.
THEOREM ReportsBecomeEvents == Spec => []OnlyUnpreparedLost
<1>1. SInv => OnlyUnpreparedLost
  BY DEF SInv, OnlyUnpreparedLost
<1> QED BY <1>1, SchemaInit, SchemaStep, PTL DEF Spec

\* What AuditEvent::new accepts, the database accepts, in either mode, unless the user
\* or the secret that the event names does not exist.
THEOREM EventsStorable == Spec => []BuiltIsStorable
<1>1. SInv => BuiltIsStorable
  BY DEF SInv, BuiltIsStorable, Storable, rpc_append_audit_event
<1> QED BY <1>1, SchemaInit, SchemaStep, PTL DEF Spec
=============================================================================
