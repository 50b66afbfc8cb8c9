--------------------------- MODULE SiemForwarding ---------------------------
(***************************************************************************)
(* Forwarding of audit events and ledger entries to the SIEM: a handler    *)
(* sends an event after it is recorded; an event that could not be sent is *)
(* appended to a local file, and a loop resends what the file holds.       *)
(* SiemForwarderStatus keeps in memory since when sending fails.  The      *)
(* failing clock is what the detection of a long outage goes by.           *)
(*                                                                         *)
(* The SIEM is what the trait SiemSink stands for: a service that may be   *)
(* down and that keeps what it took.  The only sink the server constructs  *)
(* so far, InMemorySiemSink, never fails and forgets with the process.     *)
(* The audit event siem_forward_failure of a failed send goes through the  *)
(* AuditRecorder (AuditFallback, HttpServer) and is left out here.         *)
(*                                                                         *)
(* Event ids are numbers, because pending_events returns them in order.    *)
(***************************************************************************)
EXTENDS Integers, FiniteSetsExt

CONSTANTS
    Events,      \* number of events forwarded
    MaxNow,      \* last moment of the clock
    MaxFaults    \* outages and recoveries of the SIEM, failing writes of the
                 \* file, and restarts, together

ASSUME SiemAssumption ==
    /\ Events \in Nat \ {0}
    /\ {MaxNow, MaxFaults} \subseteq Nat

VARIABLES
    now,         \* the clock
    sinkUp,      \* the SIEM takes events
    delivered,   \* events that the SIEM has received, at least once
    fwd,         \* fwd[e]: how far the handler of event e is
    status,      \* status[e]: the status in the last line of event e that is one record
    tail,        \* the last line of the file: whether it has an end
    garbled,     \* the events with a record in a line that holds more than the record
    since,       \* failure_since
    loop,        \* the resend loop: where it is, what it still has to send
    faults       \* faults so far

file == <<status, tail, garbled>>
siemVars == <<sinkUp, delivered, fwd, file, since, loop, faults>>

Event == 1 .. Events
NotFailing == -1

\* The last line is ended, a part of a record, or the whole record of an event without
\* its end, which had the status before.
EndedLine == [kind |-> "ended", event |-> 0, before |-> "none"]
PartialLine == [kind |-> "partial", event |-> 0, before |-> "none"]
UnendedLine(e) == [kind |-> "unended", event |-> e, before |-> status[e]]

Idle == [pc |-> "idle", todo |-> {}, attempted |-> FALSE, failed |-> FALSE]

SiemInit ==
    /\ sinkUp \in BOOLEAN
    /\ delivered = {}
    /\ fwd = [e \in Event |-> "new"]
    /\ status = [e \in Event |-> "none"]
    /\ tail = EndedLine
    /\ garbled = {}
    /\ since = NotFailing
    /\ loop = Idle
    /\ faults = 0

-----------------------------------------------------------------------------
(* The file *)

Fault == faults < MaxFaults /\ faults' = faults + 1

\* A line that cannot be parsed makes the whole read fail.
Readable == tail.kind # "partial" /\ garbled = {}

\* append_record writes the record, then the end of the line, behind whatever the file
\* ends with; len is how much of that it wrote.
Write(e, st, len) ==
    \/ /\ len = "nothing"
       /\ UNCHANGED file
    \/ /\ len # "nothing" /\ tail.kind = "ended"
       /\ status' = IF len = "part" THEN status ELSE [status EXCEPT ![e] = st]
       /\ tail' = IF len = "part" THEN PartialLine ELSE IF len = "record" THEN UnendedLine(e) ELSE EndedLine
       /\ UNCHANGED garbled
    \/ /\ len # "nothing" /\ tail.kind # "ended"
       /\ status' = IF tail.kind = "unended" THEN [status EXCEPT ![tail.event] = tail.before]
                    ELSE status
       /\ tail' = IF len = "line" THEN EndedLine ELSE PartialLine
       /\ garbled' = garbled \cup (IF tail.kind = "unended" THEN {tail.event} ELSE {})
                             \cup (IF len = "part" THEN {} ELSE {e})

Lengths == {"nothing", "part", "record", "line"}

\* Also a line that is complete may not be synced to the disk, which is an error.
WriteFails(e, st) == Fault /\ \E len \in Lengths : Write(e, st, len)

pending_events == {e \in Event : status[e] = "pending"}

-----------------------------------------------------------------------------
(* SiemForwarder.forward and SiemForwardingService.forward_siem_event *)

record_failure_Restarts == since' = now
record_failure == since' = IF since = NotFailing THEN now ELSE since
clear == since' = NotFailing

ForwardOk(e) ==
    /\ fwd[e] = "new" /\ sinkUp
    /\ delivered' = delivered \cup {e}
    /\ fwd' = [fwd EXCEPT ![e] = "sent"]
    /\ clear
    /\ UNCHANGED <<sinkUp, file, loop, faults>>

\* The failure starts the clock, unless it runs.
ForwardFails(e) ==
    /\ fwd[e] = "new" /\ ~sinkUp
    /\ fwd' = [fwd EXCEPT ![e] = "failed"]
    /\ record_failure
    /\ UNCHANGED <<sinkUp, delivered, file, loop, faults>>

\* The outcome is Buffered.
append_pending(e) ==
    /\ fwd[e] = "failed"
    /\ Write(e, "pending", "line")
    /\ fwd' = [fwd EXCEPT ![e] = "Buffered"]
    /\ UNCHANGED <<sinkUp, delivered, since, loop, faults>>

\* The outcome is BufferingFailed: the event is lost, unless its line is there after all.
AppendPendingFails(e) ==
    /\ fwd[e] = "failed"
    /\ WriteFails(e, "pending")
    /\ fwd' = [fwd EXCEPT ![e] = "BufferingFailed"]
    /\ UNCHANGED <<sinkUp, delivered, since, loop>>

-----------------------------------------------------------------------------
(* SiemForwarder.resend_pending, run by run_siem_resend_loop *)

ResendRead ==
    /\ loop.pc = "idle"
    /\ loop' = IF ~Readable THEN [Idle EXCEPT !.pc = "check"]
               ELSE [pc |-> "send", todo |-> pending_events,
                     attempted |-> pending_events # {}, failed |-> FALSE]
    /\ UNCHANGED <<sinkUp, delivered, fwd, file, since, faults>>

ResendSend_ErrorIgnored ==
    /\ loop.pc = "send" /\ loop.todo # {}
    /\ delivered' = IF sinkUp THEN delivered \cup {Min(loop.todo)} ELSE delivered
    /\ loop' = [loop EXCEPT !.pc = "mark"]
    /\ UNCHANGED <<sinkUp, fwd, file, since, faults>>

ResendSend ==
    /\ loop.pc = "send" /\ loop.todo # {}
    /\ IF sinkUp
       THEN /\ delivered' = delivered \cup {Min(loop.todo)}
            /\ loop' = [loop EXCEPT !.pc = "mark"]
       ELSE /\ UNCHANGED delivered
            /\ loop' = [loop EXCEPT !.todo = @ \ {Min(@)}, !.failed = TRUE]
    /\ UNCHANGED <<sinkUp, fwd, file, since, faults>>

mark_sent ==
    /\ loop.pc = "mark"
    /\ Write(Min(loop.todo), "sent", "line")
    /\ loop' = [loop EXCEPT !.pc = "send", !.todo = @ \ {Min(@)}]
    /\ UNCHANGED <<sinkUp, delivered, fwd, since, faults>>

MarkSentFails ==
    /\ loop.pc = "mark"
    /\ WriteFails(Min(loop.todo), "sent")
    /\ loop' = [loop EXCEPT !.pc = "send", !.todo = @ \ {Min(@)}, !.failed = TRUE]
    /\ UNCHANGED <<sinkUp, delivered, fwd, since>>

\* A pass in which nothing failed clears the clock; one that failed leaves it.
ResendEnd ==
    /\ loop.pc = "send" /\ loop.todo = {}
    /\ IF loop.attempted /\ ~loop.failed THEN clear ELSE UNCHANGED since
    /\ loop' = [Idle EXCEPT !.pc = "check"]
    /\ UNCHANGED <<sinkUp, delivered, fwd, file, faults>>

\* is_long_failure
is_long_failure(threshold) == since # NotFailing /\ now - since >= threshold

NoLongFailure(threshold) ==
    /\ loop.pc = "check" /\ ~is_long_failure(threshold)
    /\ loop' = Idle
    /\ UNCHANGED <<sinkUp, delivered, fwd, file, since, faults>>

-----------------------------------------------------------------------------
FlipSink ==
    /\ Fault
    /\ sinkUp' = ~sinkUp
    /\ UNCHANGED <<delivered, fwd, file, since, loop>>

\* A restart forgets the clock and drops what was under way; of a line that was being
\* written (the lock of the file lets one at a time) any length may stay behind.
SiemCrash ==
    /\ Fault
    /\ \/ UNCHANGED file
       \/ \E len \in Lengths : loop.pc = "mark" /\ Write(Min(loop.todo), "sent", len)
       \/ \E e \in Event, len \in Lengths : fwd[e] = "failed" /\ Write(e, "pending", len)
    /\ fwd' = [e \in Event |-> IF fwd[e] = "failed" THEN "dropped" ELSE fwd[e]]
    /\ since' = NotFailing
    /\ loop' = Idle
    /\ UNCHANGED <<sinkUp, delivered>>

SiemStep ==
    \/ \E e \in Event : \/ ForwardOk(e) \/ ForwardFails(e) \/ append_pending(e)
                        \/ AppendPendingFails(e)
    \/ ResendRead \/ ResendSend \/ mark_sent \/ MarkSentFails \/ ResendEnd

\* What the resend loop does by itself until it has to look at the clock.
LoopStep == ResendRead \/ ResendSend \/ mark_sent \/ ResendEnd
=============================================================================
