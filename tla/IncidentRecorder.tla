-------------------------- MODULE IncidentRecorder --------------------------
(***************************************************************************)
(* IncidentRecorder.record: ask the database whether the incident was seen *)
(* within the window, notify, sign a ledger entry on the current head, and *)
(* store audit event and entry in one transaction that looks at the window *)
(* again under an advisory lock.  Whoever detects an incident calls it:    *)
(* the SIEM loop, the scheduler, the audit UI, a command.                  *)
(***************************************************************************)
EXTENDS Integers, FiniteSets

CONSTANTS
    Caller,            \* tasks that may record an incident
    Key,               \* incident type and dedupe key
    Window,            \* dedupe window
    MaxRetries,        \* MAX_RECORD_RETRIES
    MaxTroubles        \* failing calls of the database and ledger appends of others

ASSUME IncidentAssumption == {Window, MaxRetries, MaxTroubles} \subseteq Nat

VARIABLES
    task,      \* task[c]: what caller c is doing
    rows,      \* incident_detected rows of audit_events, with their entries
    head,      \* sequence number of the ledger's head
    troubles   \* failing calls and foreign appends so far

incidentVars == <<task, rows, head, troubles>>

Free == [pc |-> "idle"]

IncidentInit ==
    /\ task = [c \in Caller |-> Free]
    /\ rows = {}
    /\ head = 0
    /\ troubles = 0

\* What the next step does not need is forgotten.
Goes(c, pc) == task' = [task EXCEPT ![c].pc = pc, ![c].on = 0]
Ends(c, pc) == task' = [task EXCEPT ![c].pc = pc, ![c].on = 0, ![c].retry = 0]

Trouble == troubles < MaxTroubles /\ troubles' = troubles + 1

\* A row of the incident no older than the window before at; also one that is
\* younger than at.
InWindow(k, at) == \E r \in rows : r.key = k /\ r.at >= at - Window

\* record starts: source_event_at, at, is taken once, and the database is
\* asked (incident_recently_seen).
Record(c, k, at) ==
    /\ task[c].pc = "idle"
    /\ \E pc \in {"suppressed", "notify", "error"} :
          /\ pc = "error" \/ (pc = "suppressed" <=> InWindow(k, at))
          /\ IF pc = "error" THEN Trouble ELSE UNCHANGED troubles
          /\ task' = [task EXCEPT ![c] = [pc |-> pc, key |-> k, at |-> at, retry |-> 0, on |-> 0]]
    /\ UNCHANGED <<rows, head>>

\* A notification that fails is noted in the row and does not stop the recording.
deliver_notification(c) ==
    /\ task[c].pc = "notify"
    /\ Goes(c, "sign")
    /\ UNCHANGED <<rows, head, troubles>>

sign_entries(c) ==
    /\ task[c].pc = "sign"
    /\ \/ task' = [task EXCEPT ![c].pc = "record", ![c].on = head] /\ UNCHANGED troubles
       \/ Trouble /\ Ends(c, "error")
    /\ UNCHANGED <<rows, head>>

\* RecordIncidentParams: of the audit event and the signed entry, what tells two
\* incidents apart.
Row(c) == [key |-> task[c].key, at |-> task[c].at, no |-> head + 1]

Store_NoSecondLook(c) ==
    /\ task[c].on = head
    /\ rows' = rows \cup {Row(c)}
    /\ head' = head + 1

\* rpc_record_incident: the window first, then the append on the head.
Store(c) ==
    /\ ~InWindow(task[c].key, task[c].at)
    /\ task[c].on = head
    /\ rows' = rows \cup {Row(c)}
    /\ head' = head + 1

Suppress(c) == InWindow(task[c].key, task[c].at) /\ UNCHANGED <<rows, head>>

record_incident(c) ==
    /\ task[c].pc = "record"
    /\ \/ Store(c) /\ Ends(c, "recorded") /\ UNCHANGED troubles
       \/ Suppress(c) /\ Ends(c, "suppressed") /\ UNCHANGED troubles
       \/ (Store(c) \/ Suppress(c)) /\ Trouble /\ Ends(c, "error")      \* the answer is lost
       \/ Trouble /\ Ends(c, "error") /\ UNCHANGED <<rows, head>>

record_incident_mismatch_GivesUpQuietly(c) ==
    /\ task[c].pc = "record"
    /\ ~InWindow(task[c].key, task[c].at)
    /\ task[c].on # head
    /\ IF task[c].retry < MaxRetries
       THEN task' = [task EXCEPT ![c].pc = "sign", ![c].on = 0, ![c].retry = @ + 1]
       ELSE Ends(c, "suppressed")
    /\ UNCHANGED <<rows, head, troubles>>

\* ledger_sequence_mismatch or previous_hash_mismatch: the entry is signed
\* again on the new head, a bounded number of times.
record_incident_mismatch(c) ==
    /\ task[c].pc = "record"
    /\ ~InWindow(task[c].key, task[c].at)
    /\ task[c].on # head
    /\ IF task[c].retry < MaxRetries
       THEN task' = [task EXCEPT ![c].pc = "sign", ![c].on = 0, ![c].retry = @ + 1]
       ELSE Ends(c, "error")
    /\ UNCHANGED <<rows, head, troubles>>

\* Somebody else appends to the ledger.
ForeignAppend ==
    /\ Trouble
    /\ head' = head + 1
    /\ UNCHANGED <<task, rows>>

Ended(c) == task[c].pc \in {"suppressed", "recorded", "error"}

\* record returns to its caller.
Return(c) ==
    /\ Ended(c)
    /\ task' = [task EXCEPT ![c] = Free]
    /\ UNCHANGED <<rows, head, troubles>>

RecorderStep(c) ==
    \/ deliver_notification(c) \/ sign_entries(c)
    \/ record_incident(c) \/ record_incident_mismatch(c)
=============================================================================
