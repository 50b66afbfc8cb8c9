--------------------------- MODULE AuditFallback ----------------------------
(***************************************************************************)
(* The delivery of audit events that do not reach audit_events at once:    *)
(* AuditRecorder::record falls back to a local JSONL file, the background  *)
(* loop of the server resends what is pending there, marks it sent, seals  *)
(* a large and fully sent file into an archive and sweeps old archives.    *)
(*                                                                         *)
(* The server is one process; the CLI commands (digest, integrity-check,   *)
(* audit-report) are others that open the same file.  operation_lock is a  *)
(* mutex of one process.  A line is written by many small writes, so it is *)
(* here a sequence of pieces: one whole piece is a record, anything else   *)
(* does not parse.                                                         *)
(***************************************************************************)
EXTENDS Integers, Sequences, FiniteSets, SequencesExt

CONSTANTS Event,       \* audit_event_ids, ordered as the BTreeMap orders them
          Process,     \* the processes that record audit events
          Server,      \* the one that runs the resend loop
          Tearing,     \* a crash or a failing write may leave a partial line
          Deployment   \* the deployments that are looked at, with these fields:
                       \*   owner[e]: the process that records e
                       \*   foreign: ids that another event already has in audit_events
                       \*   refused: events that violate a foreign key of audit_events
                       \*   rotate_size: rotate_size_bytes, in lines
                       \*   max_crashes: bound on the crashes of the processes

ASSUME ProcessAssumption == Event \subseteq Nat /\ Server \in Process /\ Tearing \in BOOLEAN
ASSUME DeploymentAssumption ==
    Deployment \subseteq [owner : UNION {[E -> Process] : E \in SUBSET Event},
                          foreign : SUBSET Event, refused : SUBSET Event,
                          rotate_size : Nat, max_crashes : Nat]

VARIABLES
    deployment,\* the deployment of this behaviour; no step changes it
    stored,    \* events in audit_events with their own content
    call,      \* call[e]: where record(e) stands
    lines,     \* the terminated lines of the fallback file
    tail,      \* the bytes after the last newline
    archives,  \* contents of the sealed archives that exist
    writer,    \* writer[p]: the append_line that process p is in
    locked,    \* locked[p]: operation_lock of process p is held
    pc, queue, \* the resend loop: where it is, what this pass has left
    crashes

file == <<lines, tail>>
loop == <<pc, queue>>
vars == <<deployment, stored, call, file, archives, writer, locked, loop, crashes>>

Owner == deployment.owner
Foreign == deployment.foreign
Refused == deployment.refused
RotateSize == deployment.rotate_size
MaxCrashes == deployment.max_crashes

Statuses == {"pending", "sent"}
Piece == [event : Event, status : Statuses, whole : BOOLEAN]
NoWriter == [stage |-> "none", event |-> 0, status |-> "sent"]
CallStates == {"idle", "primary", "fallback", "writing", "primary_succeeded",
               "fallback_succeeded", "both_failed", "conflict", "dropped"}
LoopStates == {"waiting", "sending", "mark", "marking", "rollover", "archive", "remove",
               "sweep"}

Init == /\ deployment \in Deployment
        /\ stored = {}
        /\ call = [e \in Event |-> "idle"]
        /\ lines = <<>> /\ tail = <<>>
        /\ archives = {}
        /\ writer = [p \in Process |-> NoWriter]
        /\ locked = [p \in Process |-> FALSE]
        /\ pc = "waiting" /\ queue = <<>>
        /\ crashes = 0

-----------------------------------------------------------------------------
(* What a reader of the file sees. *)

Content == IF tail = <<>> THEN lines ELSE Append(lines, tail)
Parses(line) == Len(line) = 1 /\ line[1].whole
Readable == \A i \in 1..Len(Content) : Parses(Content[i])

\* The last record of an event decides its status.
Recorded == {Content[i][1].event : i \in 1..Len(Content)}
FinalStatus(e) ==
    LET own == {i \in 1..Len(Content) : Content[i][1].event = e}
    IN  Content[CHOOSE i \in own : \A j \in own : j <= i][1].status
PendingEvents == {e \in Recorded : FinalStatus(e) = "pending"}

\* is_rollover_eligible
Eligible_SizeOnly == Len(Content) >= RotateSize /\ Content # <<>>
Eligible == /\ Len(Content) >= RotateSize /\ Content # <<>>
            /\ PendingEvents = {}

-----------------------------------------------------------------------------
(* append_line: the lock, the bytes of the line in several writes, the newline
   and the sync. The caller goes on with its answer. *)

CanLock_Ignored(p) == writer[p].stage = "none"
CanLock(p) == ~locked[p]

\* The caller of an append_line of process p gets its result.
Answer(p, ok) ==
    IF writer[p].status = "pending"
    THEN /\ call' = [call EXCEPT ![writer[p].event] =
                        IF ok THEN "fallback_succeeded" ELSE "both_failed"]
         /\ UNCHANGED loop
    ELSE /\ queue' = IF ok THEN Tail(queue) ELSE <<>>
         /\ pc' = IF queue' = <<>> THEN "rollover" ELSE "sending"
         /\ UNCHANGED call

StartLine(p, e, status) ==
    /\ CanLock(p)
    /\ locked' = [locked EXCEPT ![p] = TRUE]
    /\ writer' = [writer EXCEPT ![p] = [stage |-> "open", event |-> e, status |-> status]]
    /\ tail' = Append(tail, [event |-> e, status |-> status, whole |-> FALSE])
    /\ UNCHANGED <<deployment, stored, lines, archives, crashes>>

Unlock(p) == /\ locked' = [locked EXCEPT ![p] = FALSE]
             /\ writer' = [writer EXCEPT ![p] = NoWriter]

\* The rest of the line, its newline and sync_data, which may report an error
\* although the line is there. Bytes of other processes in the line spoil it, and
\* the newline splits the line those processes are in. A file removed since it was
\* opened takes the bytes with it.
EndLine(p, ok) ==
    /\ writer[p].stage # "none"
    /\ LET alone == writer[p].stage = "open" /\ Len(tail) = 1
           piece == [event |-> writer[p].event, status |-> writer[p].status, whole |-> alone]
           cut(w) == IF w.stage = "open" THEN [w EXCEPT !.stage = "split"] ELSE w
       IN  IF writer[p].stage = "detached"
           THEN /\ UNCHANGED file
                /\ writer' = [writer EXCEPT ![p] = NoWriter]
           ELSE /\ lines' = Append(lines, IF alone THEN <<piece>> ELSE Append(tail, piece))
                /\ tail' = <<>>
                /\ writer' = [q \in Process |-> IF q = p THEN NoWriter ELSE cut(writer[q])]
    /\ locked' = [locked EXCEPT ![p] = FALSE]
    /\ Answer(p, ok)
    /\ UNCHANGED <<deployment, stored, archives, crashes>>

\* What an unfinished append_line leaves: part of the line, all of it without the
\* newline at best.
LeavesTail(p) ==
    \/ UNCHANGED tail
    \/ /\ writer[p].stage = "open" /\ Len(tail) = 1
       /\ tail' = <<[tail[1] EXCEPT !.whole = TRUE]>>

\* A write fails: the error is returned, what was written stays.
WriteFails(p) ==
    /\ Tearing
    /\ writer[p].stage # "none"
    /\ LeavesTail(p)
    /\ Answer(p, FALSE)
    /\ Unlock(p)
    /\ UNCHANGED <<deployment, stored, lines, archives, crashes>>

-----------------------------------------------------------------------------
(* AuditRecorder::record *)

\* rpc_append_audit_event can insert the event, or find it there already.
Storable(e) == e \notin Foreign \cup Refused

BeginRecord(e) ==
    /\ call[e] = "idle" /\ e \in DOMAIN Owner
    /\ call' = [call EXCEPT ![e] = "primary"]
    /\ UNCHANGED <<deployment, stored, file, archives, writer, locked, loop, crashes>>

PrimarySucceeds(e) ==
    /\ call[e] = "primary" /\ Storable(e)
    /\ stored' = stored \cup {e}
    /\ call' = [call EXCEPT ![e] = "primary_succeeded"]
    /\ UNCHANGED <<deployment, file, archives, writer, locked, loop, crashes>>

\* The id belongs to another event.
PrimaryConflicts(e) ==
    /\ call[e] = "primary" /\ e \in Foreign
    /\ call' = [call EXCEPT ![e] = "conflict"]
    /\ UNCHANGED <<deployment, stored, file, archives, writer, locked, loop, crashes>>

\* Any other error; the answer may also be lost after the commit.
PrimaryFails(e) ==
    /\ call[e] = "primary"
    /\ \/ UNCHANGED stored
       \/ Storable(e) /\ stored' = stored \cup {e}
    /\ call' = [call EXCEPT ![e] = "fallback"]
    /\ UNCHANGED <<deployment, file, archives, writer, locked, loop, crashes>>

AppendPending(e) ==
    /\ call[e] = "fallback"
    /\ StartLine(Owner[e], e, "pending")
    /\ call' = [call EXCEPT ![e] = "writing"]
    /\ UNCHANGED loop

\* The file cannot be opened.
AppendPendingFails(e) ==
    /\ call[e] = "fallback"
    /\ call' = [call EXCEPT ![e] = "both_failed"]
    /\ UNCHANGED <<deployment, stored, file, archives, writer, locked, loop, crashes>>

\* http_handler_timeout drops the handler's future at an await; a started
\* append_line runs to its end on its own thread.
DropRecord(e) ==
    /\ call[e] \in {"primary", "fallback"}
    /\ call' = [call EXCEPT ![e] = "dropped"]
    /\ UNCHANGED <<deployment, stored, file, archives, writer, locked, loop, crashes>>

-----------------------------------------------------------------------------
(* The background loop: a pass of resend_pending, then the rollover, then the
   sweep of the archives, then the next tick. *)

\* The events of S as the BTreeMap yields them.
InOrder(S) == {q \in [1..Cardinality(S) -> S] : \A i, j \in DOMAIN q : i < j => q[i] < q[j]}

ResendRead ==
    /\ pc = "waiting" /\ CanLock(Server)
    /\ queue' \in IF Readable THEN InOrder(PendingEvents) ELSE {<<>>}
    /\ pc' = IF queue' = <<>> THEN "rollover" ELSE "sending"
    /\ UNCHANGED <<deployment, stored, call, file, archives, writer, locked, crashes>>

\* The file cannot be read; the error is logged.
ResendReadFails ==
    /\ pc = "waiting"
    /\ pc' = "rollover"
    /\ UNCHANGED <<deployment, stored, call, file, archives, writer, locked, queue, crashes>>

ResendSucceeds(e) ==
    /\ pc = "sending" /\ Head(queue) = e /\ Storable(e)
    /\ stored' = stored \cup {e}
    /\ pc' = "mark"
    /\ UNCHANGED <<deployment, call, file, archives, writer, locked, queue, crashes>>

\* The pass goes on with the next event.
AfterFailedSend_EndsPass == /\ queue' = <<>>
                            /\ pc' = "rollover"
AfterFailedSend_Marks == /\ pc' = "mark"
                         /\ UNCHANGED queue
AfterFailedSend == /\ queue' = Tail(queue)
                   /\ pc' = IF queue' = <<>> THEN "rollover" ELSE "sending"

ResendFails ==
    /\ pc = "sending"
    /\ \/ UNCHANGED stored
       \/ Storable(Head(queue)) /\ stored' = stored \cup {Head(queue)}
    /\ AfterFailedSend
    /\ UNCHANGED <<deployment, call, file, archives, writer, locked, crashes>>

\* A conflict ends the pass: later events are not tried.
ResendConflicts ==
    /\ pc = "sending" /\ Head(queue) \in Foreign
    /\ pc' = "rollover" /\ queue' = <<>>
    /\ UNCHANGED <<deployment, stored, call, file, archives, writer, locked, crashes>>

MarkSent ==
    /\ pc = "mark"
    /\ StartLine(Server, Head(queue), "sent")
    /\ pc' = "marking"
    /\ UNCHANGED <<call, queue>>

\* An error of mark_sent ends the pass.
MarkSentFails ==
    /\ pc = "mark"
    /\ pc' = "rollover" /\ queue' = <<>>
    /\ UNCHANGED <<deployment, stored, call, file, archives, writer, locked, crashes>>

RolloverCheck ==
    /\ pc = "rollover" /\ CanLock(Server)
    /\ IF Readable /\ Eligible
       THEN pc' = "archive" /\ locked' = [locked EXCEPT ![Server] = TRUE]
       ELSE pc' = "sweep" /\ UNCHANGED locked
    /\ UNCHANGED <<deployment, stored, call, file, archives, writer, queue, crashes>>

RolloverArchive ==
    /\ pc = "archive"
    /\ archives' = archives \cup {Content}
    /\ pc' = "remove"
    /\ UNCHANGED <<deployment, stored, call, file, writer, locked, queue, crashes>>

\* The current file is removed and created again, empty. A writer of another
\* process that has it open goes on with the removed file.
RolloverRemove ==
    /\ pc = "remove"
    /\ lines' = <<>> /\ tail' = <<>>
    /\ writer' = [p \in Process |-> IF writer[p].stage # "none"
                                    THEN [writer[p] EXCEPT !.stage = "detached"]
                                    ELSE writer[p]]
    /\ locked' = [locked EXCEPT ![Server] = FALSE]
    /\ pc' = "sweep"
    /\ UNCHANGED <<deployment, stored, call, archives, queue, crashes>>

\* ArchivePathUnavailable, GzipWriteFailed, HashReadFailed, CurrentFileRemoveFailed
RolloverFails ==
    /\ pc \in {"archive", "remove"}
    /\ pc' = "sweep"
    /\ locked' = [locked EXCEPT ![Server] = FALSE]
    /\ UNCHANGED <<deployment, stored, call, file, archives, writer, queue, crashes>>

\* Any of the archives may have reached the retention age; none is deleted when
\* the last sweep is recent or automatic deletion is off.
SweepArchive ==
    /\ pc = "sweep" /\ CanLock(Server)
    /\ \E old \in SUBSET archives : archives' = archives \ old
    /\ pc' = "waiting"
    /\ UNCHANGED <<deployment, stored, call, file, writer, locked, queue, crashes>>

-----------------------------------------------------------------------------
\* Process p dies and is started again: what it had in memory is gone.
Crash(p) ==
    /\ crashes < MaxCrashes
    /\ writer[p].stage = "none" \/ Tearing
    /\ crashes' = crashes + 1
    /\ call' = [e \in Event |-> IF call[e] \in {"primary", "fallback", "writing"} /\ Owner[e] = p
                                THEN "dropped" ELSE call[e]]
    /\ LeavesTail(p)
    /\ Unlock(p)
    /\ IF p = Server THEN pc' = "waiting" /\ queue' = <<>> ELSE UNCHANGED loop
    /\ UNCHANGED <<deployment, stored, lines, archives>>

-----------------------------------------------------------------------------
Record(e) == \/ BeginRecord(e) \/ PrimarySucceeds(e) \/ PrimaryConflicts(e)
             \/ PrimaryFails(e) \/ AppendPending(e) \/ AppendPendingFails(e) \/ DropRecord(e)

LoopFails == \/ ResendReadFails \/ ResendFails \/ MarkSentFails \/ RolloverFails

LoopRuns == \/ ResendRead \/ (\E e \in Event : ResendSucceeds(e)) \/ ResendConflicts
            \/ MarkSent \/ RolloverCheck \/ RolloverArchive \/ RolloverRemove \/ SweepArchive

Next == \/ \E e \in Event : Record(e)
        \/ LoopRuns \/ LoopFails
        \/ \E p \in Process : \/ \E ok \in BOOLEAN : EndLine(p, ok)
                              \/ WriteFails(p)
                              \/ Crash(p)

Spec == Init /\ [][Next]_vars

\* The loop ticks and started writes end; the file can be read again, the database
\* answers again and lines can be written again, sooner or later.
Fairness == /\ WF_vars(LoopRuns \/ LoopFails)
            /\ SF_vars(ResendRead)
            /\ \A e \in Event : SF_vars(ResendSucceeds(e))
            /\ SF_vars(MarkSent)
            /\ \A p \in Process : SF_vars(EndLine(p, TRUE))

FairSpec == Spec /\ Fairness
-----------------------------------------------------------------------------
(* Properties. *)

\* Types, and that operation_lock is held exactly while a line is written or the
\* file is being sealed: every error path of the store gives it back.
TypeOK ==
    /\ deployment \in Deployment /\ stored \subseteq Event \ (Foreign \cup Refused)
    /\ call \in [Event -> CallStates]
    /\ lines \in Seq(Seq(Piece)) /\ tail \in Seq(Piece)
    /\ \A a \in archives : a \in Seq(Seq(Piece))
    /\ \A p \in Process : /\ writer[p].stage \in {"none", "open", "split", "detached"}
                          /\ writer[p].event \in Event \cup {0}
                          /\ writer[p].status \in Statuses
    /\ pc \in LoopStates /\ queue \in Seq(Event)
    /\ locked = [p \in Process |-> \/ writer[p].stage # "none"
                                   \/ p = Server /\ pc \in {"archive", "remove"}]
    /\ crashes \in 0..MaxCrashes

\* The events with a pending line among the bytes of the file.
PendingBytes == {e \in Event : \E i \in 1..Len(Content), s \in BOOLEAN :
                    \E j \in 1..Len(Content[i]) :
                       Content[i][j] = [event |-> e, status |-> "pending", whole |-> s]}

\* An event whose record() returned FallbackSucceeded is in audit_events, or its
\* line is still in the current file, and a reader that can parse the file finds
\* it pending: neither the rollover nor a crash of the loop loses it.
KeptUntilDelivered ==
    \A e \in Event : call[e] = "fallback_succeeded" =>
       \/ e \in stored
       \/ e \in PendingBytes /\ (Readable => e \in PendingEvents)

\* A sent marker is written only for an event that is in audit_events.
SentIsStored ==
    \A i \in 1..Len(Content) : \A j \in 1..Len(Content[i]) :
       Content[i][j].status = "sent" => Content[i][j].event \in stored

\* Lines leave the current file only as a whole, into an archive that holds all of
\* them, and only when each of their events has been delivered.
SealedComplete ==
    [][~IsPrefix(lines, lines') =>
          /\ Content \in archives
          /\ \A e \in Recorded : e \in stored]_vars

\* A fallback event is delivered once the database and the file can be used again,
\* unless the database refuses it every time or an event with a foreign id comes
\* before it in every pass. A refused event holds up no other one.
DeliveredEventually ==
    \A e \in Event :
       (call[e] = "fallback_succeeded" /\ Storable(e) /\ \A f \in Foreign : e < f)
          ~> e \in stored

\* No line is torn: every terminated line is a record, and what comes after the last
\* newline is one too, or the part of it that its only writer has written so far.
Intact ==
    /\ \A i \in 1..Len(lines) : Parses(lines[i])
    /\ \/ tail = <<>>
       \/ Parses(tail)
       \/ Len(tail) = 1 /\ \E p \in Process : writer[p].stage = "open"

\* The same as long as no crash, no failing write and no other process tears a line.
DeliveredUnlessTorn == []Intact => DeliveredEventually
=============================================================================
