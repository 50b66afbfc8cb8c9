---------------------------- MODULE SiemIncident ----------------------------
(***************************************************************************)
(* The two together, as one server runs them: after each pass the resend   *)
(* loop looks at the failing clock and records the incident                *)
(* siem_long_failure, while request handlers record incidents of theirs.   *)
(* The loop waits for record to return; a restart ends every call.         *)
(***************************************************************************)
EXTENDS SiemForwarding, IncidentRecorder

CONSTANTS
    Threshold,       \* long_failure_threshold
    MaxTotal,        \* faults, troubles and detections of handlers together
    Handler,         \* the callers that are request handlers
    ReadKey          \* the incident they detect

VARIABLES detections

vars == <<now, siemVars, incidentVars, detections>>

\* The loop's own caller and key.
TheLoop == CHOOSE c \in Caller : c \notin Handler
SiemKey == CHOOSE k \in Key : k # ReadKey

Init ==
    /\ now = 0
    /\ SiemInit
    /\ IncidentInit
    /\ detections = 0

LongFailure ==
    /\ loop.pc = "check" /\ is_long_failure(Threshold)
    /\ loop' = [loop EXCEPT !.pc = "record"]
    /\ Record(TheLoop, SiemKey, now)
    /\ UNCHANGED <<now, sinkUp, delivered, fwd, file, since, faults, detections>>

\* Whatever record answers, the loop goes on.
LoopReturns ==
    /\ loop.pc = "record"
    /\ Return(TheLoop)
    /\ loop' = Idle
    /\ UNCHANGED <<now, sinkUp, delivered, fwd, file, since, faults, detections>>

HandlerDetects(c) ==
    /\ detections' = detections + 1
    /\ Record(c, ReadKey, now)
    /\ UNCHANGED <<now, siemVars>>

HandlerReturns(c) == Return(c) /\ UNCHANGED <<now, siemVars, detections>>

Tick ==
    /\ now < MaxNow
    /\ now' = now + 1
    /\ UNCHANGED <<siemVars, incidentVars, detections>>

Crash ==
    /\ SiemCrash
    /\ task' = [c \in Caller |-> Free]
    /\ UNCHANGED <<now, rows, head, troubles, detections>>

Siem == (SiemStep \/ NoLongFailure(Threshold) \/ FlipSink)
        /\ UNCHANGED <<now, incidentVars, detections>>
Recorder(c) == RecorderStep(c) /\ UNCHANGED <<now, siemVars, detections>>
Foreign == ForeignAppend /\ UNCHANGED <<now, siemVars, detections>>

\* The bound on what comes from outside: faults on the side of the SIEM, or
\* handlers that detect incidents, and troubles of the database with either.
Bounded ==
    /\ faults + troubles + detections <= MaxTotal
    /\ faults = 0 \/ detections = 0

Step ==
    \/ Siem \/ LongFailure \/ LoopReturns \/ Foreign \/ Tick \/ Crash
    \/ \E c \in Caller : Recorder(c)
    \/ \E c \in Handler : HandlerDetects(c) \/ HandlerReturns(c)

Next == Step /\ Bounded'

\* Time passes; the loop and the recorder are tasks that the runtime polls.
Spec ==
    /\ Init /\ [][Next]_vars
    /\ WF_vars(Tick)
    /\ WF_vars((LoopStep \/ NoLongFailure(Threshold)) /\ UNCHANGED <<now, incidentVars, detections>>)
    /\ WF_vars(LongFailure \/ LoopReturns)
    /\ \A c \in Caller : WF_vars(Recorder(c))
    /\ \A c \in Handler : WF_vars(HandlerReturns(c))

-----------------------------------------------------------------------------
(* Properties *)

\* An event that the file took (Buffered) has reached the SIEM or is still
\* pending there, and what is marked sent has reached it: across failing writes
\* and markers, restarts and passes of the loop during new failures.  The exception
\* is a record that was written behind one that has no end (append_record): the two
\* share a line that cannot be parsed.
BufferedIsKept ==
    \A e \in Event :
        /\ fwd[e] = "Buffered" => e \in delivered \/ status[e] = "pending" \/ e \in garbled
        /\ status[e] = "sent" => e \in delivered

\* Two rows of one incident are more than the window apart, although the
\* handlers ask before they lock, take their time before they store, and may
\* store out of the order of their source_event_at.
OneIncidentPerWindow ==
    \A r, q \in rows :
        r.no # q.no /\ r.key = q.key => r.at - q.at > Window \/ q.at - r.at > Window

\* A call of record that ends without an error leaves its incident on record:
\* it stored a row, or there is one no older than the window before it.
AnsweredIsOnRecord ==
    \A c \in Caller : task[c].pc \in {"suppressed", "recorded"} => InWindow(task[c].key, task[c].at)

\* When sending keeps failing for as long as the threshold, the incident is on
\* record in the end, of that time or so recent that this one is suppressed, unless
\* a send or a restart stopped the clock, or the database failed the recorder; a
\* burst of handlers does not starve it.
LongOutageReported ==
    (since # NotFailing /\ since + Threshold <= MaxNow) ~>
        (\/ since = NotFailing \/ troubles > 0
         \/ \E r \in rows : r.key = SiemKey /\ r.at + Window >= since + Threshold)
=============================================================================
