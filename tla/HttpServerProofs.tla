-------------------------- MODULE HttpServerProofs --------------------------
(***************************************************************************)
(* Proofs about HttpServer, for any number of requests at one time, any    *)
(* keys, rate limit, checks and changes of the surroundings.               *)
(*                                                                         *)
(* AnsweredIsAudited speaks of answers only.  What makes it inductive is   *)
(* what is known of a handler on its way to an answer: a read is answered  *)
(* as soon as its event is refused or meets a conflict, so no handler that *)
(* is still at work has such a one; an invalid digest is remembered only   *)
(* once the event of its failed verification has been tried; and a process *)
(* that is down has no requests, so a fresh readiness state forgets        *)
(* nothing that it must show.                                              *)
(***************************************************************************)
EXTENDS HttpServer, TLAPS

\* A handler at work has no answer yet, except an invalid digest that it is
\* about to report.
WorkingInv ==
    \A r \in Request : InFlight(r) =>
        /\ "audit_ui_read" \notin refused[r] \cup conflicted[r]
        /\ req[r].at = "record" <=> req[r].event # "none"
        /\ \/ req[r].answer = "none"
           \/ /\ req[r].answer = "invalid_digest" /\ req[r].event = "audit_ui_read"
              /\ "monthly_digest_verify" \in durable[r] \cup refused[r] \cup conflicted[r]

\* Requests end with their process.
DownInv == phase = "down" => \A r \in Request : req[r].at = "idle" /\ refused[r] = {}

IInv == TypeOK /\ WorkingInv /\ DownInv /\ AnsweredIsAudited

-----------------------------------------------------------------------------
\* A server that has not started satisfies the invariant.
LEMMA Initially == Init => IInv
BY ServerAssumption
DEF Init, IInv, TypeOK, WorkingInv, DownInv, AnsweredIsAudited, NoRequest, NotStarted,
    InFlight, Stage, Event, Answer

\* A process that ends leaves the invariant true, whatever it was doing.
LEMMA GoneStep ==
    ASSUME IInv, Gone, TypeOK' PROVE IInv'
BY DEF IInv, Gone, WorkingInv, DownInv, AnsweredIsAudited, NoRequest, InFlight

\* Steps that leave the requests alone keep it as long as the mark of a refused
\* auth failure stays.
LEMMA RequestsAlone ==
    ASSUME IInv, TypeOK', UNCHANGED requests,
           readiness.both_failed => readiness'.both_failed \/ phase = "down",
           phase' = "down" => phase = "down"
    PROVE  IInv'
<1>1. WorkingInv'
  BY DEF IInv, WorkingInv, InFlight, requests
<1>2. DownInv'
  BY DEF IInv, DownInv, requests
<1>3. AnsweredIsAudited'
  BY DEF IInv, AnsweredIsAudited, DownInv, requests
<1> QED BY <1>1, <1>2, <1>3 DEF IInv

\* Start, shutdown, the loops and the surroundings keep the types.
LEMMA ServerTypes ==
    ASSUME TypeOK,
           \/ FetchJwks \/ Serve \/ ExitAtStart \/ ShutdownSignal \/ Exit \/ Crash
           \/ RefreshJwks \/ Probe \/ ProbeFails \/ ProbeAges \/ WindowPasses
           \/ \E c \in Check : CheckStep(c) \/ Damage(c)
           \/ PublishKeys \/ SupabaseChanges \/ UNCHANGED vars
    PROVE  TypeOK'
<1> USE ServerAssumption DEF TypeOK, requests, checks, surroundings, server
<1>1. CASE FetchJwks
  BY <1>1 DEF FetchJwks, replace, NotStarted
<1>2. CASE Serve
  BY <1>2 DEF Serve
<1>3. CASE Gone /\ UNCHANGED <<load, issuer, up, broken>> /\ troubles' \in 0..MaxTroubles
  BY <1>3 DEF Gone, NoRequest, NotStarted, Stage, Answer
<1>4. CASE ExitAtStart \/ Exit \/ Crash
  BY <1>3, <1>4 DEF ExitAtStart, Exit, Crash
<1>5. CASE ShutdownSignal
  BY <1>5 DEF ShutdownSignal
<1>6. CASE RefreshJwks
  BY <1>6 DEF RefreshJwks, replace
<1>7. CASE Probe \/ ProbeFails \/ ProbeAges
  BY <1>7 DEF Probe, ProbeFails, ProbeAges, record_supabase_probe_result
<1>8. CASE WindowPasses
  BY <1>8 DEF WindowPasses
<1>9. ASSUME NEW c \in Check, CheckStep(c) PROVE TypeOK'
  <2> DEFINE Places == {"off", "wait", "clean", "found", "unread"}
  <2>1. PICK a \in Places : check' = [check EXCEPT ![c] = a]
    BY <1>9 DEF CheckStep, CheckReads, CheckUnread, CheckKept, CheckLost, Verdict
  <2>2. PICK b \in BOOLEAN : reported' = reported \/ reported' = [reported EXCEPT ![c] = b]
    <3>1. CASE \E hit \in BOOLEAN : CheckReads(c, hit) \/ CheckUnread(c)
      BY <3>1 DEF CheckReads, CheckUnread
    <3>2. CASE CheckKept(c)
      <4> DEFINE b == reported[c] \/ check[c] = "found"
      <4>1. b \in BOOLEAN
        OBVIOUS
      <4>2. reported' = [reported EXCEPT ![c] = b]
        BY <3>2 DEF CheckKept
      <4> QED BY <4>1, <4>2
    <3>3. CASE CheckLost(c)
      <4>1. PICK stored \in BOOLEAN :
               reported' = [reported EXCEPT ![c] = @ \/ (stored /\ check[c] = "found")]
        BY <3>3 DEF CheckLost
      <4> DEFINE b == reported[c] \/ (stored /\ check[c] = "found")
      <4>2. b \in BOOLEAN
        OBVIOUS
      <4> QED BY <4>1, <4>2
    <3> QED BY <1>9, <3>1, <3>2, <3>3 DEF CheckStep
  <2>3. UNCHANGED <<server, requests, surroundings>>
    BY <1>9 DEF CheckStep, CheckReads, CheckUnread, CheckKept, CheckLost
  <2>4. check' \in [Check -> Places] /\ reported' \in [Check -> BOOLEAN]
    BY <2>1, <2>2
  <2> HIDE DEF Places
  <2>5. UNCHANGED <<load, phase, issuer, cache, up, readiness, limiter, req, durable,
                    refused, conflicted, broken, troubles>>
    BY <2>3
  <2> QED BY <2>4, <2>5 DEF Places
<1>10. ASSUME NEW c \in Check, Damage(c) PROVE TypeOK'
  BY <1>10 DEF Damage, Surroundings
<1>11. CASE PublishKeys \/ SupabaseChanges
  <2>1. up' \in BOOLEAN
    BY <1>11, Zenon DEF PublishKeys, SupabaseChanges
  <2> QED BY <1>11, <2>1 DEF PublishKeys, SupabaseChanges, Surroundings
<1>12. CASE UNCHANGED vars
  BY <1>12 DEF vars
<1> QED BY <1>1, <1>2, <1>4, <1>5, <1>6, <1>7, <1>8, <1>9, <1>10, <1>11, <1>12

\* Every step outside the requests keeps the whole invariant.
LEMMA ServerStep ==
    ASSUME IInv,
           \/ FetchJwks \/ Serve \/ ExitAtStart \/ ShutdownSignal \/ Exit \/ Crash
           \/ RefreshJwks \/ Probe \/ ProbeFails \/ ProbeAges \/ WindowPasses
           \/ \E c \in Check : CheckStep(c) \/ Damage(c)
           \/ PublishKeys \/ SupabaseChanges \/ UNCHANGED vars
    PROVE  IInv'
<1>1. TypeOK'
  BY ServerTypes DEF IInv
<1>2. CASE ExitAtStart \/ Exit \/ Crash
  BY <1>1, <1>2, GoneStep DEF ExitAtStart, Exit, Crash
<1>3. CASE FetchJwks
  BY <1>1, <1>3, RequestsAlone DEF FetchJwks
<1>4. CASE Probe \/ ProbeFails \/ ProbeAges
  <2>1. readiness'.both_failed = readiness.both_failed
    BY <1>4 DEF Probe, ProbeFails, ProbeAges, record_supabase_probe_result, IInv, TypeOK
  <2> QED BY <1>1, <1>4, <2>1, RequestsAlone
          DEF Probe, ProbeFails, ProbeAges, record_supabase_probe_result
<1>5. CASE \/ Serve \/ ShutdownSignal \/ RefreshJwks \/ WindowPasses
  BY <1>1, <1>5, RequestsAlone DEF Serve, ShutdownSignal, RefreshJwks, WindowPasses
<1>6. CASE \/ \E c \in Check : CheckStep(c) \/ Damage(c)
           \/ PublishKeys \/ SupabaseChanges \/ UNCHANGED vars
  <2>1. UNCHANGED <<server, requests>>
    BY <1>6 DEF CheckStep, CheckReads, CheckUnread, CheckKept, CheckLost, Damage,
                PublishKeys, SupabaseChanges, Surroundings, vars
  <2> QED BY <1>1, <2>1, RequestsAlone DEF server
<1> QED BY <1>2, <1>3, <1>4, <1>5, <1>6

-----------------------------------------------------------------------------
\* What the invariant says of one request, from where it is, its events in the
\* stores and the mark.
Sound(q, kept, both, other, mark) ==
    /\ q.at \notin {"idle", "answered"} =>
          /\ "audit_ui_read" \notin both \cup other
          /\ q.at = "record" <=> q.event # "none"
          /\ \/ q.answer = "none"
             \/ /\ q.answer = "invalid_digest" /\ q.event = "audit_ui_read"
                /\ "monthly_digest_verify" \in kept \cup both \cup other
    /\ q.at = "answered" =>
          /\ q.answer \in {"data", "invalid_digest"} => "audit_ui_read" \in kept \ (both \cup other)
          /\ q.answer = "invalid_digest" => "monthly_digest_verify" \in kept \cup both \cup other
          /\ q.answer = "unauthorized" => "auth_failure" \in kept \cup both \cup other
          /\ q.answer = "forbidden" => "auditor_role_required" \in kept \cup both \cup other
          /\ q.answer = "upstream" => "upstream_dependency_failed" \in kept \cup both \cup other
    /\ "auth_failure" \in both => mark

RequestRecord == [at : Stage, event : Event \cup {"none"}, answer : Answer]

\* The invariant is what it says of the requests one by one.
LEMMA SoundRequests ==
    WorkingInv /\ AnsweredIsAudited
      <=> \A r \in Request : Sound(req[r], durable[r], refused[r], conflicted[r], readiness.both_failed)
BY DEF WorkingInv, AnsweredIsAudited, Sound, InFlight

\* A step of one request keeps the invariant when its new place, its events and
\* the mark go together, and the mark of the others does not disappear.
LEMMA OneRequest ==
    ASSUME IInv, NEW r \in Request, NEW q \in RequestRecord,
           NEW kept \in SUBSET Event, NEW both \in SUBSET Event, NEW other \in SUBSET Event,
           req' = [req EXCEPT ![r] = q],
           durable' = [durable EXCEPT ![r] = kept],
           refused' = [refused EXCEPT ![r] = both],
           conflicted' = [conflicted EXCEPT ![r] = other],
           readiness.both_failed => readiness'.both_failed,
           Sound(q, kept, both, other, readiness'.both_failed),
           UNCHANGED <<phase, cache, checks, surroundings>>,
           phase # "down",
           readiness' \in [reachable : BOOLEAN, fresh : BOOLEAN, both_failed : BOOLEAN],
           limiter' \in [remaining : 0..RateLimit, over : BOOLEAN]
    PROVE  IInv'
<1>1. TypeOK'
  BY DEF IInv, TypeOK, RequestRecord, checks, surroundings
<1>2. DownInv'
  BY DEF IInv, DownInv, TypeOK
<1>3. ASSUME NEW d \in Request
      PROVE  Sound(req'[d], durable'[d], refused'[d], conflicted'[d], readiness'.both_failed)
  <2>1. CASE d = r
    BY <2>1 DEF IInv, TypeOK
  <2>2. CASE d # r
    <3>1. Sound(req[d], durable[d], refused[d], conflicted[d], readiness.both_failed)
      BY SoundRequests DEF IInv
    <3>2. /\ req'[d] = req[d] /\ durable'[d] = durable[d] /\ refused'[d] = refused[d]
          /\ conflicted'[d] = conflicted[d]
      BY <2>2 DEF IInv, TypeOK
    <3> QED BY <3>1, <3>2 DEF Sound
  <2> QED BY <2>1, <2>2
<1>4. (WorkingInv /\ AnsweredIsAudited)'
  BY <1>3 DEF WorkingInv, AnsweredIsAudited, Sound, InFlight
<1> QED BY <1>1, <1>2, <1>4 DEF IInv

\* The steps of a handler, of its arrival and of a health probe.
LEMMA RequestStep ==
    ASSUME IInv, NEW r \in Request, Arrive(r) \/ ready_check(r) \/ HandlerStep(r)
    PROVE  IInv'
<1> DEFINE q == req[r]
           mark == readiness.both_failed
<1>1. /\ Sound(q, durable[r], refused[r], conflicted[r], mark)
      /\ q \in RequestRecord /\ durable[r] \in SUBSET Event
      /\ refused[r] \in SUBSET Event /\ conflicted[r] \in SUBSET Event
  BY SoundRequests DEF IInv, TypeOK, RequestRecord
<1>2. /\ readiness \in [reachable : BOOLEAN, fresh : BOOLEAN, both_failed : BOOLEAN]
      /\ limiter \in [remaining : 0..RateLimit, over : BOOLEAN]
      /\ phase # "down"
      /\ req \in [Request -> RequestRecord]
      /\ durable \in [Request -> SUBSET Event] /\ refused \in [Request -> SUBSET Event]
      /\ conflicted \in [Request -> SUBSET Event]
  BY DEF IInv, TypeOK, DownInv, RequestRecord, Arrive, ready_check, HandlerStep, AuthFails,
         NotAuditor, Admit, BadRequest, Called, CallFails, VerifyDigest, Kept, BothFailed,
         IdempotencyConflict, Timeout, InFlight
<1>3. /\ durable = [durable EXCEPT ![r] = durable[r]]
      /\ refused = [refused EXCEPT ![r] = refused[r]]
      /\ conflicted = [conflicted EXCEPT ![r] = conflicted[r]]
  BY <1>2
\* A handler that moves on without touching the stores.
<1>4. ASSUME NEW p \in RequestRecord, req' = [req EXCEPT ![r] = p],
             Sound(p, durable[r], refused[r], conflicted[r], mark),
             UNCHANGED <<server, events, checks, surroundings>>
      PROVE  IInv'
  <2>1. /\ durable' = [durable EXCEPT ![r] = durable[r]]
        /\ refused' = [refused EXCEPT ![r] = refused[r]]
        /\ conflicted' = [conflicted EXCEPT ![r] = conflicted[r]]
        /\ readiness' = readiness /\ limiter' = limiter
        /\ UNCHANGED <<phase, cache, checks, surroundings>>
    BY <1>3, <1>4 DEF server, events
  <2>2. Sound(p, durable[r], refused[r], conflicted[r], readiness'.both_failed)
    BY <1>4, <2>1
  <2>3. req' = [req EXCEPT ![r] = p] /\ p \in RequestRecord
    BY <1>4
  <2> QED BY <1>1, <1>2, <2>1, <2>2, <2>3, OneRequest
<1>5. CASE AuthFails(r)
  <2> DEFINE p == [q EXCEPT !.at = "record", !.event = "auth_failure"]
  <2>1. req' = [req EXCEPT ![r] = p]
    BY <1>2, <1>5 DEF AuthFails, Records
  <2> QED BY <1>1, <1>4, <1>5, <2>1 DEF AuthFails, RequestRecord, Stage, Event, Sound
<1>6. CASE NotAuditor(r)
  <2> DEFINE p == [q EXCEPT !.at = "record", !.event = "auditor_role_required"]
  <2>1. req' = [req EXCEPT ![r] = p]
    BY <1>2, <1>6 DEF NotAuditor, Records
  <2> QED BY <1>1, <1>4, <1>6, <2>1 DEF NotAuditor, RequestRecord, Stage, Event, Sound
<1>7. CASE \E e \in Endpoint : Admit(r, e)
  <2>1. PICK stage \in {"fetch", "summary", "head", "digest"} : At(r, stage)
    BY <1>7 DEF Admit, FirstCall, Endpoint
  <2> DEFINE p == [q EXCEPT !.at = stage]
  <2>2. req' = [req EXCEPT ![r] = p]
    BY <1>2, <2>1 DEF At
  <2> QED BY <1>1, <1>4, <1>7, <2>2 DEF Admit, RequestRecord, Stage, Sound
\* Answers that promise nothing about the stores.
<1>8. ASSUME NEW a \in {"bad_request", "unaudited_upstream", "request_timeout",
                        "rate_limited", "ready", "not_ready"}
      PROVE  LET p == [at |-> "answered", event |-> "none", answer |-> a]
             IN  /\ p \in RequestRecord
                 /\ \A kept, both, other :
                       ("auth_failure" \in both => mark) => Sound(p, kept, both, other, mark)
  BY <1>8 DEF RequestRecord, Stage, Event, Answer, Sound
<1>9. CASE \E e \in Endpoint, wellformed, auditor \in BOOLEAN : BadRequest(r, e, wellformed, auditor)
  <2> DEFINE p == [at |-> "answered", event |-> "none", answer |-> "bad_request"]
  <2>1. req' = [req EXCEPT ![r] = p]
    BY <1>9 DEF BadRequest, Replies
  <2>2. p \in RequestRecord /\ Sound(p, durable[r], refused[r], conflicted[r], mark)
    BY <1>1, <1>8 DEF Sound
  <2> QED BY <1>4, <1>9, <2>1, <2>2 DEF BadRequest
<1>10. CASE Called(r)
  <2>1. CASE q.at \in {"fetch", "summary", "head"} /\ Records(r, "audit_ui_read")
    <3> DEFINE p == [q EXCEPT !.at = "record", !.event = "audit_ui_read"]
    <3>1. req' = [req EXCEPT ![r] = p]
      BY <1>2, <2>1 DEF Records
    <3> QED BY <1>1, <1>4, <1>10, <2>1, <3>1 DEF Called, RequestRecord, Stage, Event, Sound
  <2>2. CASE q.at \in {"summary", "head"} /\ At(r, "fetch")
    <3> DEFINE p == [q EXCEPT !.at = "fetch"]
    <3>1. req' = [req EXCEPT ![r] = p]
      BY <1>2, <2>2 DEF At
    <3> QED BY <1>1, <1>4, <1>10, <2>2, <3>1 DEF Called, RequestRecord, Stage, Sound
  <2> QED BY <1>10, <2>1, <2>2 DEF Called
<1>11. CASE CallFails(r)
  <2>1. CASE q.at \in {"fetch", "summary"} /\ Records(r, "upstream_dependency_failed")
    <3> DEFINE p == [q EXCEPT !.at = "record", !.event = "upstream_dependency_failed"]
    <3>1. req' = [req EXCEPT ![r] = p]
      BY <1>2, <2>1 DEF Records
    <3> QED BY <1>1, <1>4, <1>11, <2>1, <3>1 DEF CallFails, RequestRecord, Stage, Event, Sound
  <2>2. CASE Replies(r, "unaudited_upstream")
    <3> DEFINE p == [at |-> "answered", event |-> "none", answer |-> "unaudited_upstream"]
    <3>1. req' = [req EXCEPT ![r] = p]
      BY <2>2 DEF Replies
    <3>2. p \in RequestRecord /\ Sound(p, durable[r], refused[r], conflicted[r], mark)
      BY <1>1, <1>8 DEF Sound
    <3> QED BY <1>4, <1>11, <3>1, <3>2 DEF CallFails
  <2> QED BY <1>11, <2>1, <2>2 DEF CallFails
<1>12. CASE VerifyDigest(r)
  <2>1. PICK ev \in {"audit_ui_read", "monthly_digest_verify"} : Records(r, ev)
    BY <1>12 DEF VerifyDigest
  <2> DEFINE p == [q EXCEPT !.at = "record", !.event = ev]
  <2>2. req' = [req EXCEPT ![r] = p]
    BY <1>2, <2>1 DEF Records
  <2> QED BY <1>1, <1>4, <1>12, <2>2 DEF VerifyDigest, RequestRecord, Stage, Event, Sound
<1>13. CASE Kept(r)
  <2> DEFINE kept == durable[r] \cup {q.event}
  <2>1. /\ durable' = [durable EXCEPT ![r] = kept]
        /\ refused' = [refused EXCEPT ![r] = refused[r]]
        /\ conflicted' = [conflicted EXCEPT ![r] = conflicted[r]]
        /\ readiness' = readiness /\ limiter' = limiter
        /\ UNCHANGED <<phase, cache, checks, surroundings>>
    BY <1>3, <1>13 DEF Kept, server
  <2>2. q.at = "record" /\ q.event \in Event
    BY <1>1, <1>13 DEF Kept, RequestRecord, Sound
  <2>3. PICK p \in RequestRecord :
           /\ req' = [req EXCEPT ![r] = p]
           /\ Sound(p, kept, refused[r], conflicted[r], mark)
    <3>1. CASE q.event = "monthly_digest_verify"
      <4> DEFINE p == [q EXCEPT !.event = "audit_ui_read", !.answer = "invalid_digest"]
      <4>1. req' = [req EXCEPT ![r] = p]
        BY <1>2, <1>13, <3>1 DEF Kept, AfterFailureEvent
      <4>2. p \in RequestRecord /\ Sound(p, kept, refused[r], conflicted[r], mark)
        BY <1>1, <2>2, <3>1 DEF Sound, RequestRecord, Event, Answer
      <4> QED BY <4>1, <4>2
    <3>2. CASE q.event # "monthly_digest_verify"
      <4>1. PICK a : /\ Replies(r, a)
                     /\ \/ a = "unauthorized" /\ q.event = "auth_failure"
                        \/ a = "forbidden" /\ q.event = "auditor_role_required"
                        \/ a = "upstream" /\ q.event = "upstream_dependency_failed"
                        \/ /\ q.event = "audit_ui_read" /\ a = "data"
                        \/ /\ q.event = "audit_ui_read" /\ a = "invalid_digest"
                           /\ q.answer = "invalid_digest"
        BY <1>13, <2>2, <3>2 DEF Kept, AfterFailureEvent, record_audit_ui_success, Event
      <4> DEFINE p == [at |-> "answered", event |-> "none", answer |-> a]
      <4>2. req' = [req EXCEPT ![r] = p]
        BY <4>1 DEF Replies
      <4>3. p \in RequestRecord /\ Sound(p, kept, refused[r], conflicted[r], mark)
        BY <1>1, <2>2, <4>1 DEF Sound, RequestRecord, Stage, Event, Answer
      <4> QED BY <4>2, <4>3
    <3> QED BY <3>1, <3>2
  <2>4. kept \in SUBSET Event
    BY <1>1, <2>2
  <2> QED BY <1>1, <1>2, <2>1, <2>3, <2>4, OneRequest
<1>14. CASE BothFailed(r)
  <2> DEFINE both == refused[r] \cup {q.event}
             mark_after == mark \/ q.event = "auth_failure"
  <2>1. q.at = "record" /\ q.event \in Event
    BY <1>1, <1>14 DEF BothFailed, RequestRecord, Sound
  <2>2. PICK stored \in {{}, {q.event}} : durable' = [durable EXCEPT ![r] = @ \cup stored]
    BY <1>14 DEF BothFailed
  <2> DEFINE kept == durable[r] \cup stored
  <2>3. /\ durable' = [durable EXCEPT ![r] = kept]
        /\ refused' = [refused EXCEPT ![r] = both]
        /\ conflicted' = [conflicted EXCEPT ![r] = conflicted[r]]
        /\ limiter' = limiter
        /\ UNCHANGED <<phase, cache, checks, surroundings>>
    BY <1>3, <1>14, <2>2 DEF BothFailed
  <2>4. mark_after \in BOOLEAN /\ readiness' = [readiness EXCEPT !.both_failed = mark_after]
    BY <1>14 DEF BothFailed
  <2>5. /\ readiness' \in [reachable : BOOLEAN, fresh : BOOLEAN, both_failed : BOOLEAN]
        /\ readiness'.both_failed = mark_after
    <3> HIDE DEF mark_after
    <3> QED BY <1>2, <2>4
  <2>6. PICK p \in RequestRecord :
           /\ req' = [req EXCEPT ![r] = p]
           /\ Sound(p, kept, both, conflicted[r], mark_after)
    <3>1. CASE q.event = "monthly_digest_verify"
      <4> DEFINE p == [q EXCEPT !.event = "audit_ui_read", !.answer = "invalid_digest"]
      <4>1. req' = [req EXCEPT ![r] = p]
        BY <1>2, <1>14, <3>1 DEF BothFailed, AfterFailureEvent
      <4>2. p \in RequestRecord /\ Sound(p, kept, both, conflicted[r], mark_after)
        BY <1>1, <2>1, <3>1 DEF Sound, RequestRecord, Event, Answer
      <4> QED BY <4>1, <4>2
    <3>2. CASE q.event # "monthly_digest_verify"
      <4>1. PICK a : /\ Replies(r, a)
                     /\ \/ a = "unauthorized" /\ q.event = "auth_failure"
                        \/ a = "forbidden" /\ q.event = "auditor_role_required"
                        \/ a = "upstream" /\ q.event = "upstream_dependency_failed"
                        \/ a = "audit_record_failed"
        BY <1>14, <2>1, <3>2 DEF BothFailed, AfterFailureEvent, record_audit_ui_success, Event
      <4> DEFINE p == [at |-> "answered", event |-> "none", answer |-> a]
      <4>2. req' = [req EXCEPT ![r] = p]
        BY <4>1 DEF Replies
      <4>3. p \in RequestRecord /\ Sound(p, kept, both, conflicted[r], mark_after)
        BY <1>1, <2>1, <4>1 DEF Sound, RequestRecord, Stage, Event, Answer
      <4> QED BY <4>2, <4>3
    <3> QED BY <3>1, <3>2
  <2>7. kept \in SUBSET Event /\ both \in SUBSET Event
    BY <1>1, <2>1
  <2>8. mark => readiness'.both_failed
    BY <2>5
  <2>9. Sound(p, kept, both, conflicted[r], readiness'.both_failed)
    BY <2>5, <2>6
  <2> HIDE DEF kept, both, mark_after
  <2> QED BY <1>1, <1>2, <2>3, <2>5, <2>6, <2>7, <2>8, <2>9, OneRequest
<1>15. CASE IdempotencyConflict(r)
  <2> DEFINE other == conflicted[r] \cup {q.event}
  <2>1. q.at = "record" /\ q.event \in Event
    BY <1>1, <1>15 DEF IdempotencyConflict, RequestRecord, Sound
  <2>2. /\ durable' = [durable EXCEPT ![r] = durable[r]]
        /\ refused' = [refused EXCEPT ![r] = refused[r]]
        /\ conflicted' = [conflicted EXCEPT ![r] = other]
        /\ readiness' = readiness /\ limiter' = limiter
        /\ UNCHANGED <<phase, cache, checks, surroundings>>
    BY <1>3, <1>15 DEF IdempotencyConflict, server
  <2>3. PICK p \in RequestRecord :
           /\ req' = [req EXCEPT ![r] = p]
           /\ Sound(p, durable[r], refused[r], other, mark)
    <3>1. CASE q.event = "monthly_digest_verify"
      <4> DEFINE p == [q EXCEPT !.event = "audit_ui_read", !.answer = "invalid_digest"]
      <4>1. req' = [req EXCEPT ![r] = p]
        BY <1>2, <1>15, <3>1 DEF IdempotencyConflict, AfterFailureEvent
      <4>2. p \in RequestRecord /\ Sound(p, durable[r], refused[r], other, mark)
        BY <1>1, <2>1, <3>1 DEF Sound, RequestRecord, Event, Answer
      <4> QED BY <4>1, <4>2
    <3>2. CASE q.event # "monthly_digest_verify"
      <4>1. PICK a : /\ Replies(r, a)
                     /\ \/ a = "unauthorized" /\ q.event = "auth_failure"
                        \/ a = "forbidden" /\ q.event = "auditor_role_required"
                        \/ a = "upstream" /\ q.event = "upstream_dependency_failed"
                        \/ a = "audit_record_failed"
        BY <1>15, <2>1, <3>2
           DEF IdempotencyConflict, AfterFailureEvent, record_audit_ui_success, Event
      <4> DEFINE p == [at |-> "answered", event |-> "none", answer |-> a]
      <4>2. req' = [req EXCEPT ![r] = p]
        BY <4>1 DEF Replies
      <4>3. p \in RequestRecord /\ Sound(p, durable[r], refused[r], other, mark)
        BY <1>1, <2>1, <4>1 DEF Sound, RequestRecord, Stage, Event, Answer
      <4> QED BY <4>2, <4>3
    <3> QED BY <3>1, <3>2
  <2>4. other \in SUBSET Event
    BY <1>1, <2>1
  <2> HIDE DEF other
  <2> QED BY <1>1, <1>2, <2>2, <2>3, <2>4, OneRequest
<1>16. CASE Timeout(r)
  <2>1. PICK stored \in {{}, {q.event} \ {"none"}} :
           durable' = [durable EXCEPT ![r] = @ \cup stored]
    BY <1>16 DEF Timeout
  <2> DEFINE kept == durable[r] \cup stored
             p == [at |-> "answered", event |-> "none", answer |-> "request_timeout"]
  <2>2. /\ durable' = [durable EXCEPT ![r] = kept]
        /\ refused' = [refused EXCEPT ![r] = refused[r]]
        /\ conflicted' = [conflicted EXCEPT ![r] = conflicted[r]]
        /\ req' = [req EXCEPT ![r] = p]
        /\ readiness' = readiness /\ limiter' = limiter
        /\ UNCHANGED <<phase, cache, checks, surroundings>>
    BY <1>3, <1>16, <2>1 DEF Timeout, server, Replies
  <2>3. p \in RequestRecord /\ Sound(p, kept, refused[r], conflicted[r], mark)
    BY <1>1, <1>8 DEF Sound
  <2>4. kept \in SUBSET Event
    BY <1>1 DEF RequestRecord
  <2> HIDE DEF kept, p
  <2> QED BY <1>1, <1>2, <2>2, <2>3, <2>4, OneRequest
\* A request that takes the place of an answered one starts with nothing.
<1>17. ASSUME NEW p \in RequestRecord, req' = [req EXCEPT ![r] = p],
              Fresh(r), Sound(p, {}, {}, {}, mark), readiness' = readiness,
              limiter' \in [remaining : 0..RateLimit, over : BOOLEAN],
              UNCHANGED <<phase, cache, checks, surroundings>>
       PROVE  IInv'
  <2>1. {} \in SUBSET Event
    OBVIOUS
  <2> QED BY <1>2, <1>17, <2>1, OneRequest DEF Fresh
<1>18. CASE ready_check(r)
  <2>1. PICK a \in {"ready", "not_ready"} : Replies(r, a)
    BY <1>18 DEF ready_check
  <2> DEFINE p == [at |-> "answered", event |-> "none", answer |-> a]
  <2>2. req' = [req EXCEPT ![r] = p]
    BY <2>1 DEF Replies
  <2>3. p \in RequestRecord /\ Sound(p, {}, {}, {}, mark)
    BY <1>8
  <2> HIDE DEF p
  <2> QED BY <1>2, <1>17, <1>18, <2>2, <2>3 DEF ready_check, server
<1>19. CASE Arrive(r)
  <2> DEFINE left == IF limiter.over THEN RateLimit ELSE limiter.remaining
  <2>1. left \in 0..RateLimit
    BY <1>2, ServerAssumption
  <2>2. limiter' \in [remaining : 0..RateLimit, over : BOOLEAN]
    <3> HIDE DEF left
    <3>1. PICK n \in 0..RateLimit : limiter' = [remaining |-> n, over |-> FALSE]
      <4>1. CASE left > 0
        <5>1. left - 1 \in 0..RateLimit
          BY <2>1, <4>1, ServerAssumption
        <5> QED BY <1>19, <4>1, <5>1 DEF Arrive, try_acquire, left
      <4>2. CASE ~(left > 0)
        BY <1>19, <2>1, <4>2 DEF Arrive, try_acquire, left
      <4> QED BY <4>1, <4>2
    <3> QED BY <3>1
  <2>3. PICK p \in RequestRecord :
           req' = [req EXCEPT ![r] = p] /\ Sound(p, {}, {}, {}, mark)
    <3>1. CASE Replies(r, "rate_limited")
      BY <1>8, <3>1 DEF Replies
    <3>2. CASE req' = [req EXCEPT ![r] = [NoRequest EXCEPT !.at = "handler"]]
      BY <3>2 DEF NoRequest, RequestRecord, Stage, Answer, Sound
    <3> QED BY <1>19, <3>1, <3>2 DEF Arrive
  <2> QED BY <1>17, <1>19, <2>2, <2>3 DEF Arrive
<1> QED BY <1>5, <1>6, <1>7, <1>9, <1>10, <1>11, <1>12, <1>13, <1>14, <1>16, <1>18, <1>19, <1>15
        DEF HandlerStep

\* Every step keeps the invariant.
LEMMA Step == ASSUME IInv, [Next]_vars PROVE IInv'
BY ServerStep, RequestStep DEF Next

-----------------------------------------------------------------------------
\* Every request, cache, limiter and check stays within its type, and the limiter
\* within its limit, for every configuration of the server.
THEOREM TypesKept == Spec => []TypeOK
<1>1. IInv => TypeOK
  BY DEF IInv
<1> QED BY <1>1, Initially, Step, PTL DEF Spec

\* No answer of the auditor UI escapes the audit trail: however many requests run
\* at one time, and however calls, stores, timeouts and crashes fall, data is
\* answered only when its read is on record, and a refusal only after its event
\* was kept, refused by both stores, or met another event of its id.
THEOREM AnsweredAudited == Spec => []AnsweredIsAudited
<1>1. IInv => AnsweredIsAudited
  BY DEF IInv
<1> QED BY <1>1, Initially, Step, PTL DEF Spec
=============================================================================
