----------------------------- MODULE HttpServer -----------------------------
(***************************************************************************)
(* One server process from its start to its shutdown: the start order of   *)
(* runtime.rs, the JWKS cache and the readiness state with the loops that  *)
(* refresh them, the rate limiter and the handler timeout around every     *)
(* request, the reads of the auditor UI, and the two background checks     *)
(* (integrity check, restore test) with the way their results are kept.    *)
(*                                                                         *)
(* A request is followed from its arrival to its answer; between two awaits*)
(* of a handler its work is one step.  The audit recorder appears as its   *)
(* promise: an event is kept in the database or in the local file, both    *)
(* refuse it, or its id is taken (AuditFallback shows how); forwarding to  *)
(* the SIEM, which follows a kept event and never changes the answer, is   *)
(* in SiemIncident.                                                        *)
(* The five rpc_audit_ui_* functions are defined in no migration of the    *)
(* repository: they appear as calls that succeed or fail.                  *)
(***************************************************************************)
EXTENDS Naturals

CONSTANTS
    Request,       \* requests being served at one time
    Key,           \* signing keys of the identity provider
    Rs256,         \* those that validate_for_rs256 accepts
    JwksSets,      \* the key sets the provider may publish
    RateLimit,     \* http_rate_limit_requests
    Check,         \* the background checks of this configuration
    Loads,         \* what a behaviour is about: "requests", "checks" or both
    MaxTroubles    \* bound on restarts and changes of the surroundings

ASSUME ServerAssumption ==
    /\ JwksSets \subseteq SUBSET Key
    /\ {RateLimit, MaxTroubles} \subseteq Nat

VARIABLES
    load,          \* the one of Loads that this behaviour has
    phase,         \* of the process: down, starting, serving, draining
    issuer,        \* the key set published now
    cache,         \* JwksCache
    up,            \* Supabase answers
    readiness,     \* ReadinessState
    limiter,       \* FixedWindowRateLimiterState
    req,           \* per request: where its handler is, and its answer
    durable,       \* per request: its audit events in one of the two stores
    refused,       \* per request: its audit events both stores refused
    conflicted,    \* per request: those that met another event of their id
    check,         \* per background check: where its loop is
    broken,        \* per check: there is something for it to find
    reported,      \* per check: an event that says so has been kept
    troubles       \* restarts and changes so far

server == <<phase, cache, readiness, limiter>>
requests == <<req, durable, refused, conflicted>>
events == <<durable, refused, conflicted>>
checks == <<check, reported>>
surroundings == <<load, issuer, up, broken, troubles>>
vars == <<server, requests, checks, surroundings>>

(***************************************************************************)
(* The reads of the auditor UI.  Three of them parse their parameters      *)
(* before they ask for the auditor role, the others after.                 *)
(***************************************************************************)
Endpoint == {"list_secrets", "list_audit_events", "list_ledger_entries",
             "integrity_status", "verify_hash_chain", "verify_signatures",
             "verify_monthly_digest", "list_verification_failures",
             "verification_summary"}
ParsesFirst == {"verify_monthly_digest", "list_verification_failures",
                "verification_summary"}

\* Audit events of a request, and its answers by status.
Event == {"auth_failure", "auditor_role_required", "upstream_dependency_failed",
          "monthly_digest_verify", "audit_ui_read"}
Answer == {"none", "data", "invalid_digest", "unauthorized", "forbidden", "bad_request",
           "upstream", "unaudited_upstream", "audit_record_failed", "rate_limited",
           "request_timeout", "ready", "not_ready"}

\* Where a handler is: at one of its awaits, or without a request.
Stage == {"idle", "handler", "fetch", "summary", "head", "digest", "record", "answered"}
InFlight(r) == req[r].at \notin {"idle", "answered"}

NoRequest == [at |-> "idle", event |-> "none", answer |-> "none"]
NotStarted == [reachable |-> FALSE, fresh |-> FALSE, both_failed |-> FALSE]

TypeOK ==
    /\ load \in Loads
    /\ phase \in {"down", "starting", "serving", "draining"}
    /\ issuer \in JwksSets /\ cache \in SUBSET Key /\ up \in BOOLEAN
    /\ readiness \in [reachable : BOOLEAN, fresh : BOOLEAN, both_failed : BOOLEAN]
    /\ limiter \in [remaining : 0..RateLimit, over : BOOLEAN]
    /\ req \in [Request -> [at : Stage, event : Event \cup {"none"}, answer : Answer]]
    /\ durable \in [Request -> SUBSET Event] /\ refused \in [Request -> SUBSET Event]
    /\ conflicted \in [Request -> SUBSET Event]
    /\ check \in [Check -> {"off", "wait", "clean", "found", "unread"}]
    /\ broken \in [Check -> BOOLEAN] /\ reported \in [Check -> BOOLEAN]
    /\ troubles \in 0..MaxTroubles

(***************************************************************************)
(* Authentication: Jwks::new refuses an empty set and any set with a key   *)
(* that is not for RS256; a refresh replaces the whole set.                *)
(***************************************************************************)
validate_for_rs256(k) == k \in Rs256
fetch_jwks(published) == published # {} /\ \A k \in published : validate_for_rs256(k)
replace_Merges(jwks) == cache' = cache \cup jwks
replace(jwks) == cache' = jwks

\* JwtVerifier::verify, for a token signed with key k.
verify(k) == k \in cache

(***************************************************************************)
(* Start, in the order of run_server_with_config.  A failing fetch ends    *)
(* the process and leaves nothing; the JWKS and readiness loops run before *)
(* the signing key has been looked at.                                     *)
(***************************************************************************)
FetchJwks ==
    /\ phase = "down" /\ fetch_jwks(issuer)
    /\ replace(issuer)
    /\ phase' = "starting" /\ readiness' = NotStarted
    /\ limiter' = [remaining |-> RateLimit, over |-> FALSE]
    /\ UNCHANGED <<requests, checks, surroundings>>

\* ensure_active_ledger_signing_public_key_at_startup, then the other loops
\* and the listener.
Serve ==
    /\ phase = "starting" /\ up
    /\ phase' = "serving"
    /\ check' = [c \in Check |-> IF "checks" \in load THEN "wait" ELSE "off"]
    /\ UNCHANGED <<cache, readiness, limiter, requests, reported, surroundings>>

\* The process has ended: its requests, loops and caches are gone, what it
\* reported remains.
Gone ==
    /\ phase' = "down" /\ cache' = {} /\ readiness' = NotStarted
    /\ limiter' = [remaining |-> RateLimit, over |-> FALSE]
    /\ req' = [r \in Request |-> NoRequest]
    /\ durable' = [r \in Request |-> {}] /\ refused' = [r \in Request |-> {}]
    /\ conflicted' = [r \in Request |-> {}]
    /\ check' = [c \in Check |-> "off"] /\ UNCHANGED reported

\* The signing key is not active, cannot be read, or the port is taken.
ExitAtStart ==
    /\ phase = "starting"
    /\ Gone /\ UNCHANGED surroundings

\* SIGTERM: no new request, the loops are told, open requests are finished.
ShutdownSignal ==
    /\ phase = "serving" /\ troubles < MaxTroubles
    /\ phase' = "draining" /\ troubles' = troubles + 1
    /\ UNCHANGED <<cache, readiness, limiter, requests, checks, load, issuer, up, broken>>

\* run_server_with_config returns: loops that are still at work are dropped.
Exit ==
    /\ phase = "draining" /\ \A r \in Request : ~InFlight(r)
    /\ Gone /\ UNCHANGED surroundings

Crash ==
    /\ phase # "down" /\ troubles < MaxTroubles
    /\ troubles' = troubles + 1
    /\ Gone /\ UNCHANGED <<load, issuer, up, broken>>

(***************************************************************************)
(* The JWKS and readiness loops.  A pass that has begun is finished after  *)
(* the shutdown signal.  A failed refresh leaves the cache as it is.       *)
(***************************************************************************)
RefreshJwks ==
    /\ phase # "down" /\ fetch_jwks(issuer)
    /\ replace(issuer)
    /\ UNCHANGED <<phase, readiness, limiter, requests, checks, surroundings>>

\* run_supabase_readiness_probe_once.
record_supabase_probe_result(reachable) ==
    /\ readiness' = [readiness EXCEPT !.reachable = reachable, !.fresh = TRUE]
    /\ UNCHANGED <<phase, cache, limiter, requests, checks, surroundings>>

Probe == phase # "down" /\ record_supabase_probe_result(up)
ProbeFails == phase # "down" /\ up /\ record_supabase_probe_result(FALSE)

\* The last probe is older than twice the poll interval.
ProbeAges ==
    /\ readiness.fresh
    /\ readiness' = [readiness EXCEPT !.fresh = FALSE]
    /\ UNCHANGED <<phase, cache, limiter, requests, checks, surroundings>>

\* collect_health_components; the master key is loaded in every state.
Ready == readiness.reachable /\ readiness.fresh

(***************************************************************************)
(* Requests.                                                               *)
(***************************************************************************)
At(r, stage) == req' = [req EXCEPT ![r].at = stage]
Replies(r, answer) == req' = [req EXCEPT ![r] = [at |-> "answered", event |-> "none",
                                                 answer |-> answer]]
Records(r, event) == req' = [req EXCEPT ![r].at = "record", ![r].event = event]

\* A request that takes the place of an answered one has no events yet.
Fresh(r) ==
    /\ durable' = [durable EXCEPT ![r] = {}]
    /\ refused' = [refused EXCEPT ![r] = {}]
    /\ conflicted' = [conflicted EXCEPT ![r] = {}]

\* FixedWindowRateLimiter::try_acquire.
try_acquire(left) == left > 0

\* enforce_runtime_resilience: the limiter comes before authentication and
\* a refused request leaves no audit event.
Arrive(r) ==
    LET left == IF limiter.over THEN RateLimit ELSE limiter.remaining
    IN  /\ phase = "serving" /\ "requests" \in load /\ ~InFlight(r)
        /\ Fresh(r)
        /\ IF try_acquire(left)
           THEN /\ limiter' = [remaining |-> left - 1, over |-> FALSE]
                /\ req' = [req EXCEPT ![r] = [NoRequest EXCEPT !.at = "handler"]]
           ELSE /\ limiter' = [remaining |-> left, over |-> FALSE]
                /\ Replies(r, "rate_limited")
        /\ UNCHANGED <<phase, cache, readiness, checks, surroundings>>

\* The window of the limiter has passed.
WindowPasses ==
    /\ phase = "serving" /\ "requests" \in load /\ ~limiter.over
    /\ limiter' = [limiter EXCEPT !.over = TRUE]
    /\ UNCHANGED <<phase, cache, readiness, requests, checks, surroundings>>

\* /ready and /health are exempt from the limiter and need no token.
ready_check(r) ==
    /\ phase = "serving" /\ "requests" \in load /\ ~InFlight(r)
    /\ Replies(r, IF Ready THEN "ready" ELSE "not_ready")
    /\ Fresh(r)
    /\ UNCHANGED <<server, checks, surroundings>>

\* AuthenticatedUser: no bearer token, or one that verify refuses.
AuthFails(r) ==
    /\ req[r].at = "handler"
    /\ Records(r, "auth_failure")
    /\ UNCHANGED <<server, events, checks, surroundings>>

\* A query the extractor refuses, or parameters refused before or after the
\* role is asked for: answered without an audit event.
BadRequest(r, e, wellformed, auditor) ==
    /\ req[r].at = "handler" /\ \E k \in Key : verify(k)
    /\ e # "integrity_status"
    /\ wellformed => e \in ParsesFirst \/ auditor
    /\ Replies(r, "bad_request")
    /\ UNCHANGED <<server, events, checks, surroundings>>

\* ensure_auditor.
NotAuditor(r) ==
    /\ req[r].at = "handler" /\ \E k \in Key : verify(k)
    /\ Records(r, "auditor_role_required")
    /\ UNCHANGED <<server, events, checks, surroundings>>

\* The first call an admitted read makes.  verify_signatures reads the head
\* when no range was given; with an empty ledger there is nothing to verify.
FirstCall(e) == CASE e = "verify_signatures" -> {"head", "fetch"}
                  [] e = "verify_monthly_digest" -> {"digest"}
                  [] e = "verification_summary" -> {"summary"}
                  [] OTHER -> {"fetch"}
Admit(r, e) ==
    /\ req[r].at = "handler" /\ \E k \in Key : verify(k)
    /\ \E stage \in FirstCall(e) : At(r, stage)
    /\ UNCHANGED <<server, events, checks, surroundings>>

\* A call of the database can be answered.
post_rpc == up

\* A call that is answered: the next call, or the audit event of the
\* read.  A summary without entries needs no signature verification.
Called(r) ==
    /\ post_rpc
    /\ \/ req[r].at \in {"fetch", "summary", "head"} /\ Records(r, "audit_ui_read")
       \/ req[r].at \in {"summary", "head"} /\ At(r, "fetch")
    /\ UNCHANGED <<server, events, checks, surroundings>>

\* upstream_failure; the head of verify_signatures is read outside of it.
CallFails(r) ==
    /\ \/ req[r].at \in {"fetch", "summary"} /\ Records(r, "upstream_dependency_failed")
       \/ req[r].at = "head" /\ Replies(r, "unaudited_upstream")
    /\ UNCHANGED <<server, events, checks, surroundings>>

\* verify_monthly_digest: valid, or any error as an invalid digest that is
\* recorded before the read is.
VerifyDigest(r) ==
    /\ req[r].at = "digest"
    /\ \/ post_rpc /\ Records(r, "audit_ui_read")
       \/ Records(r, "monthly_digest_verify")
    /\ UNCHANGED <<server, events, checks, surroundings>>

(***************************************************************************)
(* AuditRecorder::record and what follows it.  Failures to record a        *)
(* failure are logged; a read is answered only once its event is kept.     *)
(***************************************************************************)
AfterFailureEvent(r) ==
    CASE req[r].event = "auth_failure" -> Replies(r, "unauthorized")
      [] req[r].event = "auditor_role_required" -> Replies(r, "forbidden")
      [] req[r].event = "upstream_dependency_failed" -> Replies(r, "upstream")
      [] req[r].event = "monthly_digest_verify" ->
            req' = [req EXCEPT ![r].event = "audit_ui_read", ![r].answer = "invalid_digest"]

record_audit_ui_success_Logged(r, kept) ==
    Replies(r, IF req[r].answer = "invalid_digest" THEN "invalid_digest" ELSE "data")
record_audit_ui_success(r, kept) ==
    Replies(r, IF ~kept THEN "audit_record_failed"
               ELSE IF req[r].answer = "invalid_digest" THEN "invalid_digest" ELSE "data")

Kept(r) ==
    /\ req[r].at = "record"
    /\ durable' = [durable EXCEPT ![r] = @ \cup {req[r].event}]
    /\ IF req[r].event = "audit_ui_read" THEN record_audit_ui_success(r, TRUE)
       ELSE AfterFailureEvent(r)
    /\ UNCHANGED <<server, refused, conflicted, checks, surroundings>>

\* The append failed, or its answer was lost, and the file refused it too.
BothFailed(r) ==
    /\ req[r].at = "record"
    /\ refused' = [refused EXCEPT ![r] = @ \cup {req[r].event}]
    /\ \E stored \in IF up THEN {{}, {req[r].event}} ELSE {{}} :
          durable' = [durable EXCEPT ![r] = @ \cup stored]
    /\ IF req[r].event = "audit_ui_read" THEN record_audit_ui_success(r, FALSE)
       ELSE AfterFailureEvent(r)
    \* FailureAuditContext marks what the auditor UI only logs
    /\ readiness' = [readiness EXCEPT !.both_failed = @ \/ req[r].event = "auth_failure"]
    /\ UNCHANGED <<phase, cache, limiter, conflicted, checks, surroundings>>

\* The database holds another event under the fresh id: the file is not tried
\* and no mark is left.
IdempotencyConflict(r) ==
    /\ req[r].at = "record" /\ post_rpc
    /\ conflicted' = [conflicted EXCEPT ![r] = @ \cup {req[r].event}]
    /\ IF req[r].event = "audit_ui_read" THEN record_audit_ui_success(r, FALSE)
       ELSE AfterFailureEvent(r)
    /\ UNCHANGED <<server, durable, refused, checks, surroundings>>

\* The handler timeout, or a client that hangs up, drops the handler where it
\* is; an append under way and a file write of spawn_blocking go on.
Timeout(r) ==
    /\ InFlight(r)
    /\ \E stored \in {{}, {req[r].event} \ {"none"}} :
          durable' = [durable EXCEPT ![r] = @ \cup stored]
    /\ Replies(r, "request_timeout")
    /\ UNCHANGED <<server, refused, conflicted, checks, surroundings>>

(***************************************************************************)
(* The background checks: run_integrity_check_once, run_restore_test_once. *)
(* The restore test decrypts a random sample, which may miss a bad row.    *)
(***************************************************************************)
Verdict_RpcFailed(c, hit) == IF broken[c] THEN "unread" ELSE "clean"
Verdict(c, hit) == IF broken[c] /\ (hit \/ c = "integrity") THEN "found" ELSE "clean"

CheckReads(c, hit) ==
    /\ check[c] = "wait" /\ up
    /\ check' = [check EXCEPT ![c] = Verdict(c, hit)]
    /\ UNCHANGED <<server, requests, reported, surroundings>>

CheckUnread(c) ==
    /\ check[c] = "wait"
    /\ check' = [check EXCEPT ![c] = "unread"]
    /\ UNCHANGED <<server, requests, reported, surroundings>>

\* record_audit_with_ledger has no fallback: the integrity check uses it for
\* every result but rpc_failed, the restore test for a success only.
WithLedger(c) == IF c = "integrity" THEN {"clean", "found"} ELSE {"clean"}

CheckKept(c) ==
    /\ check[c] \in {"clean", "found", "unread"}
    /\ check[c] \in WithLedger(c) => up
    /\ reported' = [reported EXCEPT ![c] = @ \/ check[c] = "found"]
    /\ check' = [check EXCEPT ![c] = "wait"]
    /\ UNCHANGED <<server, requests, surroundings>>

\* The append failed or its answer was lost (and the file failed, where there
\* is one): the finding is only logged, and looked for again in the next pass.
CheckLost(c) ==
    /\ check[c] \in {"clean", "found", "unread"}
    /\ \E stored \in IF up THEN BOOLEAN ELSE {FALSE} :
          reported' = [reported EXCEPT ![c] = @ \/ (stored /\ check[c] = "found")]
    /\ check' = [check EXCEPT ![c] = "wait"]
    /\ UNCHANGED <<server, requests, surroundings>>

(***************************************************************************)
(* The surroundings, at most MaxTroubles changes.                          *)
(***************************************************************************)
Surroundings ==
    /\ troubles < MaxTroubles /\ troubles' = troubles + 1
    /\ UNCHANGED <<server, requests, checks, load>>

PublishKeys == Surroundings /\ issuer' \in JwksSets \ {issuer} /\ UNCHANGED <<up, broken>>
SupabaseChanges == Surroundings /\ up' = ~up /\ UNCHANGED <<issuer, broken>>
Damage(c) == /\ Surroundings /\ "checks" \in load /\ ~broken[c] /\ broken' = [broken EXCEPT ![c] = TRUE]
             /\ UNCHANGED <<issuer, up>>

Init ==
    /\ load \in Loads
    /\ phase = "down" /\ cache = {} /\ readiness = NotStarted
    /\ limiter = [remaining |-> RateLimit, over |-> FALSE]
    /\ req = [r \in Request |-> NoRequest]
    /\ durable = [r \in Request |-> {}] /\ refused = [r \in Request |-> {}]
    /\ conflicted = [r \in Request |-> {}]
    /\ check = [c \in Check |-> "off"]
    /\ issuer \in JwksSets /\ up = TRUE
    /\ broken = [c \in Check |-> FALSE] /\ reported = [c \in Check |-> FALSE]
    /\ troubles = 0

HandlerStep(r) ==
    \/ AuthFails(r) \/ NotAuditor(r)
    \/ \E e \in Endpoint : Admit(r, e)
    \/ \E e \in Endpoint, wellformed, auditor \in BOOLEAN : BadRequest(r, e, wellformed, auditor)
    \/ Called(r) \/ CallFails(r) \/ VerifyDigest(r)
    \/ Kept(r) \/ BothFailed(r) \/ IdempotencyConflict(r) \/ Timeout(r)

CheckStep(c) == (\E hit \in BOOLEAN : CheckReads(c, hit)) \/ CheckUnread(c)
                \/ CheckKept(c) \/ CheckLost(c)

Next ==
    \/ FetchJwks \/ Serve \/ ExitAtStart \/ ShutdownSignal \/ Exit \/ Crash
    \/ RefreshJwks \/ Probe \/ ProbeFails \/ ProbeAges \/ WindowPasses
    \/ \E r \in Request : Arrive(r) \/ ready_check(r) \/ HandlerStep(r)
    \/ \E c \in Check : CheckStep(c) \/ Damage(c)
    \/ PublishKeys \/ SupabaseChanges

Spec == Init /\ [][Next]_vars

\* The interval loops tick until the shutdown signal, and calls that may fail
\* succeed again and again while the other side is there.  The drain ends: the
\* handler timeout bounds every open request.
Running == phase \in {"starting", "serving"}

FairSpec ==
    /\ Spec
    /\ SF_vars(Running /\ RefreshJwks) /\ SF_vars(Running /\ Probe)
    /\ WF_vars(Exit) /\ \A r \in Request : WF_vars(Timeout(r))
    /\ \A c \in Check : /\ SF_vars(Running /\ CheckReads(c, TRUE))
                        /\ SF_vars(Running /\ check[c] = "found" /\ CheckKept(c))
                        /\ WF_vars(Running /\ CheckStep(c))

(***************************************************************************)
(* Properties.                                                             *)
(***************************************************************************)

\* Whatever the order of failing calls, failing stores, timeouts and crashes:
\* data of the auditor UI is answered only when the event of the read is kept,
\* an invalid digest only when the failed verification has been recorded as
\* well, and a refusal or upstream failure only after its event was kept, both
\* stores refused it, or another event had its id; an auth failure that both
\* stores refused leaves its mark in the readiness state.
AnsweredIsAudited ==
    \A r \in Request :
        LET lost == refused[r] \cup conflicted[r]
            tried == durable[r] \cup lost
            answer == IF req[r].at = "answered" THEN req[r].answer ELSE "none"
        IN  /\ answer \in {"data", "invalid_digest"} => "audit_ui_read" \in durable[r] \ lost
            /\ answer = "invalid_digest" => "monthly_digest_verify" \in tried
            /\ answer = "unauthorized" => "auth_failure" \in tried
            /\ answer = "forbidden" => "auditor_role_required" \in tried
            /\ answer = "upstream" => "upstream_dependency_failed" \in tried
            /\ "auth_failure" \in refused[r] => readiness.both_failed

\* A key the provider has withdrawn for good stops opening doors, provided the
\* set it publishes is one the server accepts: one key of another algorithm in
\* it makes every refresh fail.  And /ready follows Supabase: it keeps coming
\* back while Supabase is there and is gone for good once Supabase is.
ServerFollows ==
    /\ \A k \in Rs256 : <>[](k \notin issuer /\ fetch_jwks(issuer)) => <>[]~verify(k)
    /\ <>[](phase = "serving" /\ up) => []<>Ready
    /\ <>[](~up) => <>[]~Ready

\* What an integrity check or restore test can find is eventually on record,
\* although a finding of the integrity check has no fallback and is lost
\* whenever its append fails: the process goes on looking.
FindingReported ==
    \A c \in Check : <>[](phase = "serving" /\ up /\ broken[c]) => <>reported[c]
=============================================================================
