------------------------- MODULE SiemIncidentProofs -------------------------
(***************************************************************************)
(* Proofs about SiemIncident, for any number of events, callers, faults    *)
(* and retries, any window and any threshold.                              *)
(*                                                                         *)
(* The two components are proved one after the other.  BufferedIsKept      *)
(* needs to know why the resend loop may write a marker: the event it is   *)
(* about to mark is one that the SIEM has just taken; and what a record    *)
(* stood for before the last line, which a write may spoil, was added.     *)
(* The properties of the recorder need the times of rows and calls to be   *)
(* numbers; a caller that was answered has seen a row in its window, which *)
(* stays there because rows are only added.                                *)
(***************************************************************************)
EXTENDS SiemIncident, TLAPS, WellFoundedInduction

SiemTypes ==
    /\ fwd \in [Event -> {"new", "sent", "failed", "Buffered", "BufferingFailed", "dropped"}]
    /\ status \in [Event -> {"none", "pending", "sent"}]
    /\ garbled \subseteq Event
    /\ tail.kind = "unended" => tail.event \in Event /\ tail.before \in {"none", "pending", "sent"}
    /\ loop \in [pc : {"idle", "send", "mark", "check", "record"}, todo : SUBSET Event,
                 attempted : BOOLEAN, failed : BOOLEAN]

\* The event the loop is about to mark has reached the SIEM.
MarkIsDelivered == loop.pc = "mark" => Min(loop.todo) \in delivered \cap Event

\* So had the event of the last line, if it was marked before.
BeforeIsDelivered == tail.kind = "unended" /\ tail.before = "sent" => tail.event \in delivered

SiemInv == SiemTypes /\ MarkIsDelivered /\ BeforeIsDelivered /\ BufferedIsKept

\* A call of record under way.
Working == [pc : {"suppressed", "recorded", "error", "notify", "sign", "record"},
            key : {SiemKey, ReadKey}, at : Int, retry : Nat, on : Nat]

IncidentTypes ==
    /\ now \in Nat /\ head \in Nat
    /\ task \in [Caller -> {Free} \cup Working]
    /\ rows \subseteq [key : {SiemKey, ReadKey}, at : Int, no : Nat]

IncidentInv == IncidentTypes /\ OneIncidentPerWindow /\ AnsweredIsOnRecord

-----------------------------------------------------------------------------
(* Forwarding *)

\* Events are numbered, so a set of them that is not empty has a first one.
LEMMA MinInSet == ASSUME NEW S \in SUBSET Event, S # {} PROVE Min(S) \in S
<1> DEFINE R == OpToRel(<, Nat)
<1>1. IsWellFoundedOn(R, Nat)
  BY NatLessThanWellFounded DEF R
<1>2. S \subseteq Nat
  BY SiemAssumption DEF Event
<1>3. \E x \in S : \A y \in S : ~(<<y, x>> \in R)
  <2> HIDE DEF R
  <2> QED BY <1>1, <1>2, WFMin
<1>4. PICK x \in S : \A y \in S : ~(y < x)
  BY <1>2, <1>3 DEF OpToRel
<1>5. \A y \in S : x <= y
  BY <1>2, <1>4
<1> QED BY <1>5 DEF Min

\* No event has been forwarded yet, and the loop is idle.
LEMMA SiemInitially == Init => SiemInv
<1> SUFFICES ASSUME Init PROVE SiemInv
  OBVIOUS
<1>1. tail.kind = "ended" /\ garbled = {}
  BY DEF Init, SiemInit, EndedLine
<1>2. /\ fwd = [e \in Event |-> "new"] /\ status = [e \in Event |-> "none"]
      /\ loop = [pc |-> "idle", todo |-> {}, attempted |-> FALSE, failed |-> FALSE]
  BY DEF Init, SiemInit, Idle
<1> QED BY <1>1, <1>2 DEF SiemInv, SiemTypes, MarkIsDelivered, BeforeIsDelivered, BufferedIsKept

\* A write of any length, in any state of the last line, keeps what the file vouches for;
\* an event is answered Buffered only for a line that is complete.
LEMMA WriteKept ==
    ASSUME SiemInv, NEW e \in Event, NEW st \in {"pending", "sent"}, NEW len \in Lengths,
           Write(e, st, len), st = "sent" => e \in delivered, delivered' = delivered,
           fwd' \in [Event -> {"new", "sent", "failed", "Buffered", "BufferingFailed", "dropped"}],
           \A x \in Event : fwd'[x] = "Buffered" =>
              fwd[x] = "Buffered" \/ (x = e /\ st = "pending" /\ len = "line"),
           loop' \in [pc : {"idle", "send", "mark", "check", "record"}, todo : SUBSET Event,
                      attempted : BOOLEAN, failed : BOOLEAN],
           MarkIsDelivered'
    PROVE  SiemInv'
<1> USE DEF SiemInv, SiemTypes, BeforeIsDelivered, BufferedIsKept
<1>1. CASE len = "nothing"
  BY <1>1 DEF Write, file
<1>2. CASE len # "nothing" /\ tail.kind = "ended"
  <2>1. /\ status' = IF len = "part" THEN status ELSE [status EXCEPT ![e] = st]
        /\ tail' = IF len = "part" THEN PartialLine ELSE IF len = "record" THEN UnendedLine(e) ELSE EndedLine
        /\ garbled' = garbled
    BY <1>2 DEF Write
  <2>2. PartialLine.kind = "partial" /\ EndedLine.kind = "ended"
    BY DEF PartialLine, EndedLine
  <2>3. UnendedLine(e).event = e /\ UnendedLine(e).before = status[e]
    BY DEF UnendedLine
  <2>4. tail'.kind = "unended" => tail' = UnendedLine(e)
    BY <2>1, <2>2
  <2> QED BY <2>1, <2>3, <2>4
<1>3. CASE len # "nothing" /\ tail.kind # "ended"
  <2>1. /\ status' = IF tail.kind = "unended" THEN [status EXCEPT ![tail.event] = tail.before]
                     ELSE status
        /\ tail' = IF len = "line" THEN EndedLine ELSE PartialLine
        /\ garbled' = garbled \cup (IF tail.kind = "unended" THEN {tail.event} ELSE {})
                              \cup (IF len = "part" THEN {} ELSE {e})
    BY <1>3 DEF Write
  <2>2. tail'.kind # "unended"
    BY <2>1 DEF PartialLine, EndedLine
  <2> QED BY <2>1, <2>2
<1> QED BY <1>1, <1>2, <1>3

\* What forwarding and the resend loop do keeps what was buffered.
LEMMA SiemPreserved ==
    ASSUME SiemInv, SiemStep \/ NoLongFailure(Threshold) \/ FlipSink \/ SiemCrash
    PROVE  SiemInv'
<1> USE DEF SiemInv, SiemTypes
<1>1. ASSUME NEW e \in Event, ForwardOk(e) PROVE SiemInv'
  BY <1>1 DEF ForwardOk, file, MarkIsDelivered, BeforeIsDelivered, BufferedIsKept
<1>2. ASSUME NEW e \in Event, ForwardFails(e) PROVE SiemInv'
  BY <1>2 DEF ForwardFails, file, MarkIsDelivered, BeforeIsDelivered, BufferedIsKept
<1>3. ASSUME NEW e \in Event, append_pending(e) PROVE SiemInv'
  <2>1. Write(e, "pending", "line") /\ "line" \in Lengths
    BY <1>3 DEF append_pending, Lengths
  <2>2. UNCHANGED <<delivered, loop>> /\ fwd' = [fwd EXCEPT ![e] = "Buffered"]
    BY <1>3 DEF append_pending
  <2> QED BY <2>1, <2>2, WriteKept DEF MarkIsDelivered
<1>4. ASSUME NEW e \in Event, AppendPendingFails(e) PROVE SiemInv'
  <2>1. PICK len \in Lengths : Write(e, "pending", len)
    BY <1>4 DEF AppendPendingFails, WriteFails
  <2>2. UNCHANGED <<delivered, loop>> /\ fwd' = [fwd EXCEPT ![e] = "BufferingFailed"]
    BY <1>4 DEF AppendPendingFails
  <2> QED BY <2>1, <2>2, WriteKept DEF MarkIsDelivered
<1>5. CASE ResendRead
  <2>1. PICK p \in {"check", "send"}, s \in SUBSET Event, a \in BOOLEAN :
          loop' = [pc |-> p, todo |-> s, attempted |-> a, failed |-> FALSE]
    <3>1. CASE Readable
      <4>1. loop' = [pc |-> "send", todo |-> pending_events,
                     attempted |-> pending_events # {}, failed |-> FALSE]
        BY <1>5, <3>1 DEF ResendRead
      <4> QED BY <4>1 DEF pending_events
    <3>2. CASE ~Readable
      BY <1>5, <3>2 DEF ResendRead, Idle
    <3> QED BY <3>1, <3>2
  <2>2. /\ loop'.pc # "mark"
        /\ loop' \in [pc : {"idle", "send", "mark", "check", "record"}, todo : SUBSET Event,
                      attempted : BOOLEAN, failed : BOOLEAN]
    BY <2>1
  <2> QED BY <1>5, <2>2 DEF ResendRead, file, MarkIsDelivered, BeforeIsDelivered, BufferedIsKept
<1>6. CASE ResendSend
  <2>1. PICK e : e = Min(loop.todo)
    OBVIOUS
  <2>2. e \in loop.todo
    BY <1>6, <2>1, MinInSet DEF ResendSend
  <2> QED BY <1>6, <2>1, <2>2 DEF ResendSend, file, MarkIsDelivered, BeforeIsDelivered,
                                 BufferedIsKept
<1>7. CASE mark_sent \/ MarkSentFails
  <2>1. PICK e : e = Min(loop.todo)
    OBVIOUS
  <2>2. e \in delivered /\ UNCHANGED <<delivered, fwd>>
    BY <1>7, <2>1 DEF mark_sent, MarkSentFails, MarkIsDelivered
  <2>3. PICK len \in Lengths : Write(e, "sent", len)
    BY <1>7, <2>1 DEF mark_sent, MarkSentFails, WriteFails, Lengths
  <2>4. PICK b \in BOOLEAN : loop' = [loop EXCEPT !.pc = "send", !.todo = @ \ {e}, !.failed = b]
    <3>1. loop' = [loop EXCEPT !.pc = "send", !.todo = @ \ {e}] =>
          loop' = [loop EXCEPT !.pc = "send", !.todo = @ \ {e}, !.failed = loop.failed]
      OBVIOUS
    <3> QED BY <1>7, <2>1, <3>1 DEF mark_sent, MarkSentFails
  <2>5. e \in Event
    BY <1>7, <2>1 DEF mark_sent, MarkSentFails, MarkIsDelivered
  <2> QED BY <2>2, <2>3, <2>4, <2>5, WriteKept DEF MarkIsDelivered
<1>8. CASE ResendEnd
  BY <1>8 DEF ResendEnd, Idle, file, MarkIsDelivered, BeforeIsDelivered, BufferedIsKept
<1>9. CASE NoLongFailure(Threshold)
  BY <1>9 DEF NoLongFailure, Idle, file, MarkIsDelivered, BeforeIsDelivered, BufferedIsKept
<1>10. CASE FlipSink
  BY <1>10 DEF FlipSink, file, MarkIsDelivered, BeforeIsDelivered, BufferedIsKept
<1>11. CASE SiemCrash
  <2>1. /\ delivered' = delivered /\ loop' = Idle
        /\ fwd' = [e \in Event |-> IF fwd[e] = "failed" THEN "dropped" ELSE fwd[e]]
    BY <1>11 DEF SiemCrash
  <2>2. /\ loop'.pc # "mark"
        /\ loop' \in [pc : {"idle", "send", "mark", "check", "record"}, todo : SUBSET Event,
                      attempted : BOOLEAN, failed : BOOLEAN]
    BY <2>1 DEF Idle
  <2>3. CASE UNCHANGED file
    BY <2>1, <2>2, <2>3 DEF file, MarkIsDelivered, BeforeIsDelivered, BufferedIsKept
  <2>4. ASSUME NEW e \in Event, NEW len \in Lengths, NEW st \in {"pending", "sent"},
               Write(e, st, len), st = "sent" => e \in delivered
        PROVE  SiemInv'
    BY <2>1, <2>2, <2>4, WriteKept DEF MarkIsDelivered
  <2>5. loop.pc = "mark" => Min(loop.todo) \in delivered /\ Min(loop.todo) \in Event
    BY DEF MarkIsDelivered
  <2> QED BY <1>11, <2>3, <2>4, <2>5 DEF SiemCrash
<1> QED BY <1>1, <1>2, <1>3, <1>4, <1>5, <1>6, <1>7, <1>8, <1>9, <1>10, <1>11 DEF SiemStep

\* The steps of the loop around the recorder, and everybody else's, do as well.
LEMMA SiemPartStep == ASSUME SiemInv, [Next]_vars PROVE SiemInv'
<1>1. CASE Siem \/ Crash
  BY <1>1, SiemPreserved DEF Siem, Crash
<1>2. CASE LongFailure
  BY <1>2 DEF LongFailure, SiemInv, SiemTypes, MarkIsDelivered, file,
              BeforeIsDelivered, BufferedIsKept
<1>3. CASE LoopReturns
  BY <1>3 DEF LoopReturns, Idle, SiemInv, SiemTypes, MarkIsDelivered, file,
              BeforeIsDelivered, BufferedIsKept
<1>4. CASE UNCHANGED siemVars
  BY <1>4 DEF siemVars, SiemInv, SiemTypes, MarkIsDelivered, file,
              BeforeIsDelivered, BufferedIsKept
<1>5. Next => Siem \/ Crash \/ LongFailure \/ LoopReturns \/ UNCHANGED siemVars
  BY DEF Next, Step, Foreign, Tick, Recorder, HandlerDetects, HandlerReturns
<1>6. UNCHANGED vars => UNCHANGED siemVars
  BY DEF vars, siemVars
<1> QED BY <1>1, <1>2, <1>3, <1>4, <1>5, <1>6

\* What the buffer took is pending or has reached the SIEM, and only what has
\* reached it is marked sent, whatever length a failing write leaves behind and
\* however often the server restarts in the middle of a pass; only a record that
\* append_record put behind one without an end shares an unparsable line.
THEOREM BufferedKept == Spec => []BufferedIsKept
<1>1. SiemInv => BufferedIsKept
  BY DEF SiemInv
<1> QED BY <1>1, SiemInitially, SiemPartStep, PTL DEF Spec

-----------------------------------------------------------------------------
(* Incidents *)

\* No row and no call yet.
LEMMA IncidentInitially == Init => IncidentInv
BY DEF Init, IncidentInit, IncidentInv, IncidentTypes, OneIncidentPerWindow,
       AnsweredIsOnRecord, Free

\* A step of one call, seen from outside: rows are only added, and the call ends
\* without an error only with a row in its window.
LEMMA CallStep ==
    ASSUME IncidentInv, NEW c, NEW t \in {Free} \cup Working,
           task' = [task EXCEPT ![c] = t],
           now' \in Nat, head' \in Nat,
           rows' \subseteq [key : {SiemKey, ReadKey}, at : Int, no : Nat],
           rows \subseteq rows', OneIncidentPerWindow',
           t.pc \in {"suppressed", "recorded"} =>
              \E r \in rows' : r.key = t.key /\ r.at >= t.at - Window
    PROVE  IncidentInv'
<1>1. IncidentTypes'
  BY DEF IncidentInv, IncidentTypes
<1>2. AnsweredIsOnRecord'
  BY DEF IncidentInv, IncidentTypes, AnsweredIsOnRecord, InWindow
<1> QED BY <1>1, <1>2 DEF IncidentInv

\* A row that passes the second look is more than the window away from every row
\* of its incident, later ones included.
LEMMA StoreKeepsWindow ==
    ASSUME IncidentInv, NEW c \in Caller, task[c] \in Working, Store(c)
    PROVE  /\ OneIncidentPerWindow'
           /\ rows' \subseteq [key : {SiemKey, ReadKey}, at : Int, no : Nat]
           /\ \E r \in rows' : r.key = task[c].key /\ r.at >= task[c].at - Window
<1>1. /\ rows' = rows \cup {Row(c)}
      /\ \A r \in rows : r.key = task[c].key => ~(r.at >= task[c].at - Window)
  BY DEF Store, InWindow
<1>2. /\ Row(c).key = task[c].key /\ Row(c).at = task[c].at /\ task[c].at \in Int
      /\ Row(c) \in [key : {SiemKey, ReadKey}, at : Int, no : Nat]
      /\ \A r \in rows : r.at \in Int
  BY DEF Row, Working, IncidentInv, IncidentTypes
<1>3. OneIncidentPerWindow'
  BY <1>1, <1>2, IncidentAssumption DEF OneIncidentPerWindow, IncidentInv
<1> QED BY <1>1, <1>2, <1>3, IncidentAssumption DEF IncidentInv, IncidentTypes

\* Starting a call keeps the invariant: it is suppressed only when it has seen a row.
LEMMA RecordStep ==
    ASSUME IncidentInv, NEW c, NEW k \in {SiemKey, ReadKey}, Record(c, k, now),
           UNCHANGED now
    PROVE  IncidentInv'
<1>1. PICK pc \in {"suppressed", "notify", "error"} :
         /\ pc = "suppressed" => InWindow(k, now)
         /\ task' = [task EXCEPT ![c] = [pc |-> pc, key |-> k, at |-> now,
                                         retry |-> 0, on |-> 0]]
         /\ UNCHANGED <<rows, head>>
  BY DEF Record
<1> DEFINE t == [pc |-> pc, key |-> k, at |-> now, retry |-> 0, on |-> 0]
<1>2. t \in Working
  BY <1>1 DEF Working, IncidentInv, IncidentTypes
<1>3. OneIncidentPerWindow' /\ rows \subseteq rows'
  BY <1>1 DEF OneIncidentPerWindow, IncidentInv
<1>4. pc = "suppressed" => \E r \in rows' : r.key = t.key /\ r.at >= t.at - Window
  BY <1>1 DEF InWindow
<1> QED BY <1>1, <1>2, <1>3, <1>4, CallStep DEF IncidentInv, IncidentTypes

\* Notification, signature, transaction and retry keep it.
LEMMA RecorderPreserved ==
    ASSUME IncidentInv, NEW c \in Caller, RecorderStep(c), UNCHANGED now
    PROVE  IncidentInv'
<1> DEFINE Finished(pc) == [task[c] EXCEPT !.pc = pc, !.on = 0, !.retry = 0]
<1>1. task[c] \in Working
  BY DEF RecorderStep, deliver_notification, sign_entries, record_incident,
         record_incident_mismatch, IncidentInv, IncidentTypes, Free
<1>2. /\ now' \in Nat /\ head \in Nat
      /\ rows \subseteq [key : {SiemKey, ReadKey}, at : Int, no : Nat]
  BY DEF IncidentInv, IncidentTypes
<1>3. UNCHANGED rows => OneIncidentPerWindow' /\ rows \subseteq rows'
  BY DEF OneIncidentPerWindow, IncidentInv
<1>4. \A pc \in {"suppressed", "recorded", "error"} :
         /\ Finished(pc) \in Working /\ Finished(pc).pc = pc
         /\ Finished(pc).key = task[c].key /\ Finished(pc).at = task[c].at
  BY <1>1 DEF Working
<1>5. ASSUME UNCHANGED <<rows, head>>,
             NEW t \in Working, task' = [task EXCEPT ![c] = t],
             t.pc \notin {"suppressed", "recorded"}
      PROVE  IncidentInv'
  BY <1>2, <1>3, <1>5, CallStep
<1>6. CASE deliver_notification(c)
  <2>1. task' = [task EXCEPT ![c] = [task[c] EXCEPT !.pc = "sign", !.on = 0]]
    BY <1>6 DEF deliver_notification, Goes, IncidentInv, IncidentTypes
  <2>2. [task[c] EXCEPT !.pc = "sign", !.on = 0] \in Working
    BY <1>1 DEF Working
  <2> QED BY <1>1, <1>5, <1>6, <2>1, <2>2 DEF deliver_notification, Working
<1>7. CASE sign_entries(c)
  <2>1. CASE task' = [task EXCEPT ![c].pc = "record", ![c].on = head]
    <3>1. task' = [task EXCEPT ![c] = [task[c] EXCEPT !.pc = "record", !.on = head]]
      BY <2>1 DEF IncidentInv, IncidentTypes
    <3>2. [task[c] EXCEPT !.pc = "record", !.on = head] \in Working
      BY <1>1, <1>2 DEF Working
    <3> QED BY <1>1, <1>5, <1>7, <3>1, <3>2 DEF sign_entries, Working
  <2>2. CASE Ends(c, "error")
    <3>1. task' = [task EXCEPT ![c] = Finished("error")]
      BY <2>2 DEF Ends, IncidentInv, IncidentTypes
    <3> QED BY <1>4, <1>5, <1>7, <3>1 DEF sign_entries
  <2> QED BY <1>7, <2>1, <2>2 DEF sign_entries
<1>8. CASE record_incident(c)
  <2>1. PICK pc \in {"suppressed", "recorded", "error"} :
           /\ Ends(c, pc)
           /\ Store(c) \/ Suppress(c) \/ (pc = "error" /\ UNCHANGED <<rows, head>>)
    BY <1>8 DEF record_incident
  <2>2. task' = [task EXCEPT ![c] = Finished(pc)]
    BY <2>1 DEF Ends, IncidentInv, IncidentTypes
  <2>3. CASE Store(c)
    <3>1. rows \subseteq rows' /\ head' \in Nat
      BY <1>2, <2>3 DEF Store
    <3>2. Finished(pc) \in Working /\ Finished(pc).key = task[c].key /\ Finished(pc).at = task[c].at
      BY <1>4
    <3> HIDE DEF Finished
    <3> QED BY <1>1, <1>2, <2>2, <2>3, <3>1, <3>2, StoreKeepsWindow, CallStep
  <2>4. CASE Suppress(c)
    <3>1. \E r \in rows' : r.key = task[c].key /\ r.at >= task[c].at - Window
      BY <2>4 DEF Suppress, InWindow
    <3>2. Finished(pc) \in Working /\ Finished(pc).key = task[c].key /\ Finished(pc).at = task[c].at
      BY <1>4
    <3>3. UNCHANGED <<rows, head>>
      BY <2>4 DEF Suppress
    <3> HIDE DEF Finished
    <3> QED BY <1>2, <1>3, <2>2, <3>1, <3>2, <3>3, CallStep
  <2>5. CASE pc = "error" /\ UNCHANGED <<rows, head>>
    BY <1>4, <1>5, <2>2, <2>5
  <2> QED BY <2>1, <2>3, <2>4, <2>5
<1>9. CASE record_incident_mismatch(c)
  <2>1. CASE task' = [task EXCEPT ![c].pc = "sign", ![c].on = 0, ![c].retry = @ + 1]
    <3> DEFINE t == [task[c] EXCEPT !.pc = "sign", !.on = 0, !.retry = @ + 1]
    <3>1. task' = [task EXCEPT ![c] = t]
      BY <2>1 DEF IncidentInv, IncidentTypes
    <3>2. task[c].retry + 1 \in Nat
      BY <1>1 DEF Working
    <3>3. t \in Working /\ t.pc = "sign"
      <4> DEFINE n == task[c].retry + 1
      <4>1. n \in Nat
        BY <3>2
      <4> HIDE DEF n
      <4>2. [task[c] EXCEPT !.pc = "sign", !.on = 0, !.retry = n] \in Working
        BY <1>1, <4>1 DEF Working
      <4> QED BY <1>1, <4>2 DEF n, Working
    <3> HIDE DEF t
    <3> QED BY <1>5, <1>9, <3>1, <3>3 DEF record_incident_mismatch
  <2>2. CASE Ends(c, "error")
    <3>1. task' = [task EXCEPT ![c] = Finished("error")]
      BY <2>2 DEF Ends, IncidentInv, IncidentTypes
    <3> QED BY <1>4, <1>5, <1>9, <3>1 DEF record_incident_mismatch
  <2> QED BY <1>9, <2>1, <2>2 DEF record_incident_mismatch
<1> QED BY <1>6, <1>7, <1>8, <1>9 DEF RecorderStep

\* So does every step of the server.
LEMMA IncidentPartStep == ASSUME IncidentInv, [Next]_vars PROVE IncidentInv'
<1> USE DEF IncidentInv
<1>1. ASSUME NEW c, Return(c), UNCHANGED now PROVE IncidentInv'
  <2>1. OneIncidentPerWindow' /\ rows \subseteq rows'
    BY <1>1 DEF Return, OneIncidentPerWindow
  <2> QED BY <1>1, <2>1, CallStep DEF Return, Free, IncidentTypes
<1>2. CASE LongFailure
  BY <1>2, RecordStep DEF LongFailure
<1>3. CASE LoopReturns
  BY <1>1, <1>3 DEF LoopReturns
<1>4. ASSUME NEW c \in Handler, HandlerDetects(c) \/ HandlerReturns(c) PROVE IncidentInv'
  BY <1>1, <1>4, RecordStep DEF HandlerDetects, HandlerReturns
<1>5. ASSUME NEW c \in Caller, Recorder(c) PROVE IncidentInv'
  BY <1>5, RecorderPreserved DEF Recorder
<1>6. CASE Crash
  BY <1>6 DEF Crash, Free, IncidentTypes, OneIncidentPerWindow, AnsweredIsOnRecord
<1>7. CASE UNCHANGED <<task, rows>> /\ now' \in Nat /\ head' \in Nat
  BY <1>7 DEF IncidentTypes, OneIncidentPerWindow, AnsweredIsOnRecord, InWindow
<1>8. CASE Siem \/ Foreign \/ Tick \/ UNCHANGED vars
  BY <1>7, <1>8 DEF Siem, Foreign, ForeignAppend, Tick, vars, incidentVars, IncidentTypes
<1> QED BY <1>2, <1>3, <1>4, <1>5, <1>6, <1>8 DEF Next, Step

\* Two rows of one incident are more than the window apart, although callers look,
\* notify and sign before the transaction looks again.
THEOREM IncidentOncePerWindow == Spec => []OneIncidentPerWindow
<1>1. IncidentInv => OneIncidentPerWindow
  BY DEF IncidentInv
<1> QED BY <1>1, IncidentInitially, IncidentPartStep, PTL DEF Spec

\* A call of record that ends without an error has its incident on record.
THEOREM AnsweredOnRecord == Spec => []AnsweredIsOnRecord
<1>1. IncidentInv => AnsweredIsOnRecord
  BY DEF IncidentInv
<1> QED BY <1>1, IncidentInitially, IncidentPartStep, PTL DEF Spec
=============================================================================
