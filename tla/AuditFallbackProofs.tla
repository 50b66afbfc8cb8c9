------------------------ MODULE AuditFallbackProofs -------------------------
(***************************************************************************)
(* Proofs about AuditFallback, for any events, processes, deployments,     *)
(* crashes and torn lines.                                                 *)
(*                                                                         *)
(* With any processes on the file: the lock of a process is given back on  *)
(* every path, and a sent marker is written only for what is in            *)
(* audit_events.  When the server alone records on the file: nothing that  *)
(* fell back is lost before it is delivered, not even by the rollover.     *)
(* The same holds with others on it, as long as none of them begins to     *)
(* append while the server seals the file.                                 *)
(***************************************************************************)
EXTENDS AuditFallback, TLAPS, FiniteSetTheorems, WellFoundedInduction

Writer == [stage : {"none", "open", "split", "detached"}, event : Event \cup {0},
           status : Statuses]

\* The types.
Types ==
    /\ deployment \in Deployment /\ stored \subseteq Event \ (Foreign \cup Refused)
    /\ call \in [Event -> CallStates]
    /\ lines \in Seq(Seq(Piece)) /\ tail \in Seq(Piece)
    /\ archives \subseteq Seq(Seq(Piece))
    /\ writer \in [Process -> Writer]
    /\ pc \in LoopStates /\ queue \in Seq(Event)
    /\ crashes \in Nat /\ crashes <= MaxCrashes

\* operation_lock is held exactly while a line is written or the file is sealed.
LockInv ==
    /\ locked \in [Process -> BOOLEAN]
    /\ \A p \in Process : locked[p] <=> \/ writer[p].stage # "none"
                                        \/ p = Server /\ pc \in {"archive", "remove"}

\* Where the loop is, the head of its queue is what it sends; it marks only what has
\* been stored, and never writes while it seals.
LoopInv ==
    /\ pc \in {"sending", "mark", "marking"} => queue # <<>>
    /\ pc \in {"mark", "marking"} => Head(queue) \in stored
    /\ pc \in {"archive", "remove"} => writer[Server].stage = "none"

\* A line under way is of an event, and a sent marker is the loop's own.
WriterInv ==
    \A p \in Process : writer[p].stage # "none" =>
       /\ writer[p].event \in Event
       /\ writer[p].status = "pending" => writer[p].event \in DOMAIN Owner
       /\ writer[p].status = "sent" => p = Server /\ pc = "marking" /\ writer[p].event \in stored

\* Only events of the deployment are recorded.
CallInv == \A e \in Event : call[e] # "idle" => e \in DOMAIN Owner

\* The pieces of a line that say sent are of stored events.
SentLine(line) == \A j \in 1..Len(line) : line[j].status = "sent" => line[j].event \in stored
SentInv == SentLine(tail) /\ \A i \in 1..Len(lines) : SentLine(lines[i])

FInv == Types /\ LockInv /\ LoopInv /\ WriterInv /\ CallInv /\ SentInv

-----------------------------------------------------------------------------
\* The fields of a deployment.
LEMMA DeploymentFields ==
    ASSUME deployment \in Deployment
    PROVE  /\ Foreign \in SUBSET Event /\ Refused \in SUBSET Event /\ MaxCrashes \in Nat
           /\ DOMAIN Owner \subseteq Event /\ \A e \in DOMAIN Owner : Owner[e] \in Process
<1>1. deployment \in [owner : UNION {[E -> Process] : E \in SUBSET Event},
                      foreign : SUBSET Event, refused : SUBSET Event,
                      rotate_size : Nat, max_crashes : Nat]
  BY DeploymentAssumption
<1>2. Owner \in UNION {[E -> Process] : E \in SUBSET Event}
  BY <1>1 DEF Owner
<1>3. PICK E \in SUBSET Event : Owner \in [E -> Process]
  BY <1>2
<1> QED BY <1>1, <1>3 DEF Foreign, Refused, MaxCrashes

\* The invariant holds of an empty file that nobody writes.
LEMMA FallbackInit == Init => FInv
<1> SUFFICES ASSUME Init PROVE FInv
  OBVIOUS
<1>0. deployment \in Deployment
  BY DEF Init
<1>1. Types
  <2>1. MaxCrashes \in Nat
    BY <1>0, DeploymentFields
  <2>2. writer \in [Process -> Writer]
    BY DEF Init, Writer, NoWriter, Statuses
  <2> QED BY <1>0, <2>1, <2>2 DEF Init, Types, CallStates, LoopStates
<1>2. LockInv
  BY DEF Init, LockInv, NoWriter
<1>3. LoopInv /\ WriterInv /\ CallInv /\ SentInv
  BY ProcessAssumption DEF Init, LoopInv, WriterInv, CallInv, SentInv, SentLine, NoWriter
<1> QED BY <1>1, <1>2, <1>3 DEF FInv

-----------------------------------------------------------------------------
\* A piece at the end of a line: the line is one of pieces and tells of no event as sent
\* that is not stored.
LEMMA PieceAdded ==
    ASSUME NEW line \in Seq(Piece), NEW x \in Piece, SentLine(line),
           x.status = "sent" => x.event \in stored
    PROVE  Append(line, x) \in Seq(Piece) /\ SentLine(Append(line, x))
BY DEF SentLine

\* The same of a whole line that is added to the file.
LEMMA LineAdded ==
    ASSUME NEW ls \in Seq(Seq(Piece)), NEW line \in Seq(Piece), SentLine(line),
           \A i \in 1..Len(ls) : SentLine(ls[i])
    PROVE  /\ Append(ls, line) \in Seq(Seq(Piece))
           /\ \A i \in 1..Len(Append(ls, line)) : SentLine(Append(ls, line)[i])
<1>1. Append(ls, line) \in Seq(Seq(Piece)) /\ Len(Append(ls, line)) = Len(ls) + 1
  OBVIOUS
<1>2. \A i \in 1..Len(ls) + 1 : Append(ls, line)[i] = IF i = Len(ls) + 1 THEN line ELSE ls[i]
  OBVIOUS
<1>3. \A i \in 1..Len(ls) + 1 : i \in 1..Len(ls) \/ i = Len(ls) + 1
  OBVIOUS
<1> QED BY <1>1, <1>2, <1>3

\* More stored events keep what is marked sent.
LEMMA SentGrows ==
    ASSUME SentInv, UNCHANGED file, stored \subseteq stored' PROVE SentInv'
BY DEF SentInv, SentLine, file

\* An append_line that starts keeps the invariant.
LEMMA StartKept ==
    ASSUME FInv, NEW p \in Process, NEW e \in Event, NEW status \in Statuses,
           StartLine(p, e, status), UNCHANGED queue,
           call' \in [Event -> CallStates], CallInv',
           \/ status = "pending" /\ UNCHANGED pc /\ e \in DOMAIN Owner
           \/ status = "sent" /\ p = Server /\ e \in stored /\ pc = "mark" /\ pc' = "marking"
    PROVE  FInv'
<1> DEFINE x == [event |-> e, status |-> status, whole |-> FALSE]
           w == [stage |-> "open", event |-> e, status |-> status]
<1>0. Types /\ LockInv /\ LoopInv /\ WriterInv /\ SentInv
  BY DEF FInv
<1>1. x \in Piece /\ x.status = status /\ x.event = e
  BY DEF Piece
<1>2. w \in Writer /\ w.stage = "open" /\ w.event = e /\ w.status = status
  BY DEF Writer
<1>3. /\ tail' = Append(tail, x) /\ writer' = [writer EXCEPT ![p] = w]
      /\ locked' = [locked EXCEPT ![p] = TRUE] /\ ~locked[p]
      /\ UNCHANGED <<deployment, stored, lines, archives, crashes, queue>>
  BY DEF StartLine, CanLock
<1> HIDE DEF x, w
<1>4. pc' \in LoopStates /\ (pc \in {"archive", "remove"} <=> pc' \in {"archive", "remove"})
  BY <1>0 DEF Types, LoopStates
<1>5. tail' \in Seq(Piece) /\ SentLine(tail')
  BY <1>0, <1>1, <1>3, PieceAdded DEF Types, SentInv
<1>6. Types'
  BY <1>0, <1>2, <1>3, <1>4, <1>5 DEF Types, Foreign, Refused, Storable, MaxCrashes
<1>7. LockInv'
  BY <1>0, <1>2, <1>3, <1>4 DEF LockInv, Types
<1>8. LoopInv'
  BY <1>0, <1>3, <1>4, ProcessAssumption DEF LoopInv, LockInv, Types
<1>9. WriterInv'
  BY <1>0, <1>2, <1>3 DEF WriterInv, Types, Owner
<1>10. SentInv'
  BY <1>0, <1>3, <1>5 DEF SentInv, SentLine
<1> QED BY <1>6, <1>7, <1>8, <1>9, <1>10 DEF FInv

\* The caller of an append_line goes on: the record() returns, or the loop goes on
\* with its queue.
LEMMA AnswerGives ==
    ASSUME FInv, NEW p \in Process, NEW ok \in BOOLEAN, writer[p].stage # "none",
           Answer(p, ok), UNCHANGED deployment
    PROVE  /\ call' \in [Event -> CallStates] /\ CallInv'
           /\ pc' \in LoopStates /\ queue' \in Seq(Event)
           /\ writer[p].status = "pending" => UNCHANGED <<pc, queue>>
           /\ writer[p].status = "sent" =>
                 /\ p = Server /\ pc = "marking" /\ pc' \in {"rollover", "sending"}
                 /\ pc' = "sending" => queue' # <<>>
<1>0. Types /\ LoopInv /\ WriterInv /\ CallInv
  BY DEF FInv
<1>1. /\ writer[p].event \in Event /\ writer[p].status \in {"pending", "sent"}
      /\ writer[p].status = "pending" => writer[p].event \in DOMAIN Owner
      /\ writer[p].status = "sent" => p = Server /\ pc = "marking"
  BY <1>0 DEF WriterInv, Types, Writer, Statuses
<1>2. CASE writer[p].status = "pending"
  <2>1. UNCHANGED <<pc, queue>>
    BY <1>2 DEF Answer, loop
  <2> DEFINE x == IF ok THEN "fallback_succeeded" ELSE "both_failed"
  <2>2. x \in CallStates
    BY DEF CallStates
  <2>3. call' = [call EXCEPT ![writer[p].event] = x]
    BY <1>2 DEF Answer
  <2> HIDE DEF x
  <2>4. call' \in [Event -> CallStates] /\ CallInv'
    BY <1>0, <1>1, <1>2, <2>2, <2>3 DEF Types, CallInv, Owner
  <2> QED BY <1>0, <1>2, <2>1, <2>4 DEF Types
<1>3. CASE writer[p].status = "sent"
  <2>1. queue \in Seq(Event) /\ queue # <<>>
    BY <1>0, <1>1, <1>3 DEF Types, LoopInv
  <2>2. Tail(queue) \in Seq(Event)
    BY <2>1
  <2>3. /\ queue' = IF ok THEN Tail(queue) ELSE <<>>
        /\ pc' = IF queue' = <<>> THEN "rollover" ELSE "sending"
        /\ UNCHANGED call
    BY <1>3 DEF Answer
  <2> QED BY <1>0, <1>1, <1>3, <2>2, <2>3 DEF Types, LoopStates, CallInv, Owner
<1> QED BY <1>1, <1>2, <1>3

\* What becomes of the writers when the line of p ends: p is none, the others stay,
\* split or detached.
Others(p) ==
    /\ writer' \in [Process -> Writer] /\ writer'[p].stage = "none"
    /\ \A q \in Process \ {p} : /\ writer'[q].stage = "none" <=> writer[q].stage = "none"
                                /\ writer'[q].event = writer[q].event
                                /\ writer'[q].status = writer[q].status

\* A line that has ended keeps the invariant, as far as the file does.
LEMMA EndKept ==
    ASSUME FInv, NEW p \in Process, NEW ok \in BOOLEAN, writer[p].stage # "none", Answer(p, ok),
           Others(p), locked' = [locked EXCEPT ![p] = FALSE],
           UNCHANGED <<deployment, stored, archives, crashes>>,
           lines' \in Seq(Seq(Piece)), tail' \in Seq(Piece), SentInv'
    PROVE  FInv'
<1>0. Types /\ LockInv /\ LoopInv /\ WriterInv
  BY DEF FInv
<1>1. /\ call' \in [Event -> CallStates] /\ CallInv'
      /\ pc' \in LoopStates /\ queue' \in Seq(Event)
      /\ writer[p].status = "pending" => UNCHANGED <<pc, queue>>
      /\ writer[p].status = "sent" =>
            /\ p = Server /\ pc = "marking" /\ pc' \in {"rollover", "sending"}
            /\ pc' = "sending" => queue' # <<>>
      /\ writer[p].status \in {"pending", "sent"}
  BY <1>0, AnswerGives DEF Types, Writer, Statuses
<1>2. Types'
  BY <1>0, <1>1 DEF Types, Others, Foreign, Refused, Storable, MaxCrashes
<1>3. LockInv'
  <2>1. ~(p = Server /\ pc' \in {"archive", "remove"})
    BY <1>0, <1>1 DEF LoopInv
  <2>2. ASSUME NEW q \in Process, q # p
        PROVE  q = Server /\ pc' \in {"archive", "remove"} <=> q = Server /\ pc \in {"archive", "remove"}
    BY <1>1, <2>2
  <2> QED BY <1>0, <2>1, <2>2 DEF LockInv, Others
<1>4. LoopInv'
  BY <1>0, <1>1, ProcessAssumption DEF LoopInv, Others
<1>5. WriterInv'
  BY <1>0, <1>1 DEF WriterInv, Others, Owner
<1> QED BY <1>1, <1>2, <1>3, <1>4, <1>5 DEF FInv

\* EndLine puts a line of the pieces so far and the rest of its own at the end.
LEMMA EndLineKept ==
    ASSUME FInv, NEW p \in Process, NEW ok \in BOOLEAN, EndLine(p, ok) PROVE FInv'
<1> DEFINE alone == writer[p].stage = "open" /\ Len(tail) = 1
           piece == [event |-> writer[p].event, status |-> writer[p].status, whole |-> alone]
           line == IF alone THEN <<piece>> ELSE Append(tail, piece)
           cut(w) == IF w.stage = "open" THEN [w EXCEPT !.stage = "split"] ELSE w
<1>0. Types /\ WriterInv /\ SentInv
  BY DEF FInv
<1>1. /\ writer[p].stage # "none" /\ Answer(p, ok) /\ locked' = [locked EXCEPT ![p] = FALSE]
      /\ UNCHANGED <<deployment, stored, archives, crashes>>
  BY DEF EndLine
<1>2. NoWriter \in Writer /\ NoWriter.stage = "none"
  BY DEF NoWriter, Writer, Statuses
<1>3. CASE writer[p].stage = "detached"
  <2>1. UNCHANGED file /\ writer' = [writer EXCEPT ![p] = NoWriter]
    BY <1>3 DEF EndLine
  <2>2. Others(p)
    BY <1>0, <1>2, <2>1 DEF Others, Types
  <2>3. SentInv'
    BY <1>0, <1>1, <2>1, SentGrows
  <2> QED BY <1>0, <1>1, <2>1, <2>2, <2>3, EndKept DEF Types, file
<1>4. CASE writer[p].stage # "detached"
  <2>1. /\ lines' = Append(lines, line) /\ tail' = <<>>
        /\ writer' = [q \in Process |-> IF q = p THEN NoWriter ELSE cut(writer[q])]
    BY <1>4 DEF EndLine
  <2>2. \A w \in Writer : /\ cut(w) \in Writer
                          /\ cut(w).stage = "none" <=> w.stage = "none"
                          /\ cut(w).event = w.event /\ cut(w).status = w.status
    BY DEF Writer
  <2> HIDE DEF cut
  <2>3. Others(p)
    BY <1>0, <1>2, <2>1, <2>2 DEF Others, Types
  <2>4. /\ alone \in BOOLEAN /\ writer[p].event \in Event /\ writer[p].status \in Statuses
        /\ writer[p].status = "sent" => writer[p].event \in stored
    BY <1>0, <1>1 DEF WriterInv, Types, Writer
  <2> HIDE DEF alone
  <2>5. piece \in Piece /\ piece.status = writer[p].status /\ piece.event = writer[p].event
    BY <2>4 DEF Piece
  <2> HIDE DEF piece
  <2>6. <<piece>> \in Seq(Piece) /\ SentLine(<<piece>>)
    BY <2>4, <2>5 DEF SentLine
  <2>7. Append(tail, piece) \in Seq(Piece) /\ SentLine(Append(tail, piece))
    BY <1>0, <2>4, <2>5, PieceAdded DEF Types, SentInv
  <2>8. line \in Seq(Piece) /\ SentLine(line)
    BY <2>6, <2>7
  <2> HIDE DEF line
  <2>9. lines' \in Seq(Seq(Piece)) /\ \A i \in 1..Len(lines') : SentLine(lines'[i])
    BY <1>0, <2>1, <2>8, LineAdded DEF Types, SentInv
  <2>10. tail' \in Seq(Piece) /\ SentLine(tail')
    BY <2>1 DEF SentLine
  <2>11. SentInv'
    BY <1>1, <2>9, <2>10 DEF SentInv, SentLine
  <2> QED BY <1>1, <2>3, <2>9, <2>10, <2>11, EndKept
<1> QED BY <1>3, <1>4

\* What a line that does not end leaves in the file.
LEMMA LeftTail ==
    ASSUME Types, SentInv, NEW p \in Process, LeavesTail(p), UNCHANGED <<lines, stored>>
    PROVE  tail' \in Seq(Piece) /\ SentInv'
<1>1. CASE UNCHANGED tail
  BY <1>1 DEF Types, SentInv, SentLine
<1>2. CASE ~UNCHANGED tail
  <2> DEFINE x == [tail[1] EXCEPT !.whole = TRUE]
  <2>1. Len(tail) = 1 /\ tail' = <<x>>
    BY <1>2 DEF LeavesTail
  <2>2. tail[1] \in Piece
    <3>1. tail \in Seq(Piece) /\ 1 \in 1..Len(tail)
      BY <2>1 DEF Types
    <3> QED BY <3>1
  <2>3. x \in Piece /\ x.status = tail[1].status /\ x.event = tail[1].event
    BY <2>2 DEF Piece
  <2> HIDE DEF x
  <2>4. tail[1].status = "sent" => tail[1].event \in stored
    BY <2>1 DEF SentInv, SentLine
  <2>5. tail' \in Seq(Piece) /\ SentLine(tail')
    BY <2>1, <2>3, <2>4 DEF SentLine
  <2> QED BY <2>5 DEF SentInv, SentLine
<1> QED BY <1>1, <1>2

\* A failing write keeps the invariant.
LEMMA WriteFailsKept ==
    ASSUME FInv, NEW p \in Process, WriteFails(p) PROVE FInv'
<1>0. Types /\ SentInv
  BY DEF FInv
<1>1. /\ writer[p].stage # "none" /\ Answer(p, FALSE) /\ locked' = [locked EXCEPT ![p] = FALSE]
      /\ writer' = [writer EXCEPT ![p] = NoWriter] /\ LeavesTail(p)
      /\ UNCHANGED <<deployment, stored, lines, archives, crashes>>
  BY DEF WriteFails, Unlock
<1>2. NoWriter \in Writer /\ NoWriter.stage = "none"
  BY DEF NoWriter, Writer, Statuses
<1>3. Others(p)
  BY <1>0, <1>1, <1>2 DEF Others, Types
<1>4. tail' \in Seq(Piece) /\ SentInv'
  BY <1>0, <1>1, LeftTail
<1> QED BY <1>0, <1>1, <1>3, <1>4, EndKept DEF Types

-----------------------------------------------------------------------------
\* A step of record() that only answers, or stores its event, keeps the invariant.
LEMMA CallKept ==
    ASSUME FInv, NEW e \in Event, NEW x \in CallStates, call' = [call EXCEPT ![e] = x],
           e \in DOMAIN Owner, stored \subseteq stored', stored' \subseteq Event \ (Foreign \cup Refused),
           UNCHANGED <<deployment, file, archives, writer, locked, loop, crashes>>
    PROVE  FInv'
<1>0. Types /\ LockInv /\ LoopInv /\ WriterInv /\ CallInv /\ SentInv
  BY DEF FInv
<1>1. Types'
  BY <1>0 DEF Types, Foreign, Refused, Storable, MaxCrashes, file, loop
<1>2. LockInv' /\ LoopInv'
  BY <1>0 DEF LockInv, LoopInv, loop
<1>3. WriterInv' /\ CallInv'
  BY <1>0 DEF WriterInv, CallInv, Types, Owner, loop
<1>4. SentInv'
  BY <1>0, SentGrows
<1> QED BY <1>1, <1>2, <1>3, <1>4 DEF FInv

\* Every step of record() keeps the invariant.
LEMMA RecordKept == ASSUME FInv, NEW e \in Event, Record(e) PROVE FInv'
<1>0. /\ deployment \in Deployment /\ stored \subseteq Event \ (Foreign \cup Refused)
      /\ call[e] # "idle" => e \in DOMAIN Owner
      /\ call \in [Event -> CallStates]
  BY DEF FInv, Types, CallInv
<1>1. CASE BeginRecord(e)
  BY <1>1, <1>0, CallKept DEF BeginRecord, CallStates
<1>2. CASE PrimarySucceeds(e)
  BY <1>2, <1>0, CallKept DEF PrimarySucceeds, Storable, CallStates
<1>3. CASE PrimaryConflicts(e)
  BY <1>3, <1>0, CallKept DEF PrimaryConflicts, CallStates
<1>4. CASE PrimaryFails(e)
  BY <1>4, <1>0, CallKept DEF PrimaryFails, Storable, CallStates
<1>5. CASE AppendPending(e)
  <2>1. /\ call[e] = "fallback" /\ call' = [call EXCEPT ![e] = "writing"] /\ UNCHANGED <<pc, queue>>
        /\ StartLine(Owner[e], e, "pending") /\ UNCHANGED deployment
    BY <1>5 DEF AppendPending, loop, StartLine
  <2>2. Owner[e] \in Process /\ e \in DOMAIN Owner
    BY <1>0, <2>1, DeploymentFields
  <2>3. call' \in [Event -> CallStates]
    BY <1>0, <2>1 DEF CallStates
  <2>4. CallInv'
    BY <2>1, <2>2 DEF FInv, Types, CallInv, Owner
  <2>5. "pending" \in Statuses
    BY DEF Statuses
  <2> QED BY <2>1, <2>2, <2>3, <2>4, <2>5, StartKept
<1>6. CASE AppendPendingFails(e)
  BY <1>6, <1>0, CallKept DEF AppendPendingFails, CallStates
<1>7. CASE DropRecord(e)
  BY <1>7, <1>0, CallKept DEF DropRecord, CallStates
<1> QED BY <1>1, <1>2, <1>3, <1>4, <1>5, <1>6, <1>7 DEF Record

\* A step of the loop that leaves the file and is not about a marker keeps the
\* invariant.
LEMMA LoopKept ==
    ASSUME FInv, UNCHANGED <<deployment, call, file, writer, crashes>>, pc # "marking",
           stored \subseteq stored', stored' \subseteq Event \ (Foreign \cup Refused),
           archives' \subseteq Seq(Seq(Piece)),
           pc' \in LoopStates, queue' \in Seq(Event), LoopInv', LockInv'
    PROVE  FInv'
<1>0. Types /\ WriterInv /\ CallInv /\ SentInv
  BY DEF FInv
<1>1. Types'
  BY <1>0 DEF Types, Foreign, Refused, Storable, MaxCrashes, file
<1>3. WriterInv' /\ CallInv'
  BY <1>0 DEF WriterInv, CallInv, Types, Owner
<1>4. SentInv'
  BY <1>0, SentGrows
<1> QED BY <1>1, <1>3, <1>4 DEF FInv

\* The lines of the file as they are read are lines of pieces.
LEMMA ContentType ==
    ASSUME Types
    PROVE  /\ Content \in Seq(Seq(Piece))
           /\ \A i \in 1..Len(Content) : Content[i] \in Seq(Piece)
BY DEF Types, Content

\* What can be read as pending are events.
LEMMA PendingType == ASSUME Types, Readable PROVE PendingEvents \subseteq Event
<1>1. ASSUME NEW i \in 1..Len(Content) PROVE Content[i][1].event \in Event
  <2>1. Content[i] \in Seq(Piece) /\ Len(Content[i]) = 1
    BY <1>1, ContentType DEF Readable, Parses
  <2>2. Content[i][1] \in Piece
    <3>1. 1 \in 1..Len(Content[i])
      BY <2>1
    <3> QED BY <2>1, <3>1
  <2> QED BY <2>2 DEF Piece
<1> QED BY <1>1 DEF PendingEvents, Recorded

\* The lock stays when neither the writers nor the sealing changes.
LEMMA LockKept ==
    ASSUME LockInv, UNCHANGED <<locked, writer>>,
           pc \in {"archive", "remove"} <=> pc' \in {"archive", "remove"}
    PROVE  LockInv'
BY DEF LockInv

\* Every step of the loop keeps the invariant.
LEMMA LoopStepKept == ASSUME FInv, LoopRuns \/ LoopFails PROVE FInv'
<1>0. /\ Types /\ LockInv /\ LoopInv /\ Server \in Process /\ queue \in Seq(Event)
      /\ stored \subseteq Event \ (Foreign \cup Refused) /\ archives \subseteq Seq(Seq(Piece))
  BY ProcessAssumption DEF FInv, Types
<1>1. CASE ResendRead
  <2>1. queue' \in Seq(Event)
    <3>1. CASE Readable
      <4>1. queue' \in [1..Cardinality(PendingEvents) -> PendingEvents]
        BY <1>1, <3>1 DEF ResendRead, InOrder
      <4>2. PendingEvents \subseteq Event
        BY <1>0, <3>1, PendingType
      <4>3. Cardinality(PendingEvents) \in Nat
        <5>1. IsFiniteSet(1..Len(Content))
          BY <1>0, ContentType, FS_Interval
        <5>2. IsFiniteSet(Recorded)
          <6> DEFINE f == [i \in 1..Len(Content) |-> Content[i][1].event]
          <6>1. f \in Surjection(1..Len(Content), Recorded)
            BY DEF Surjection, Recorded
          <6> QED BY <5>1, <6>1, FS_Surjection
        <5>3. IsFiniteSet(PendingEvents)
          BY <5>2, FS_Subset DEF PendingEvents
        <5> QED BY <5>3, FS_CardinalityType
      <4> QED BY <4>1, <4>2, <4>3
    <3>2. CASE ~Readable
      BY <1>1, <3>2 DEF ResendRead
    <3> QED BY <3>1, <3>2
  <2>2. LoopInv' /\ pc' \in LoopStates
    BY <1>1, <1>0 DEF ResendRead, LoopInv, LoopStates
  <2>3. LockInv'
    BY <1>1, <1>0, LockKept DEF ResendRead
  <2> QED BY <1>1, <1>0, <2>1, <2>2, <2>3, LoopKept DEF ResendRead
<1>2. CASE ResendReadFails
  <2>1. LoopInv' /\ LockInv' /\ pc' \in LoopStates
    BY <1>0, <1>2, LockKept DEF ResendReadFails, LoopInv, LoopStates
  <2> QED BY <1>0, <1>2, <2>1, LoopKept DEF ResendReadFails
<1>3. ASSUME NEW e \in Event, ResendSucceeds(e) PROVE FInv'
  <2>1. LoopInv' /\ LockInv' /\ pc' \in LoopStates
    BY <1>0, <1>3, LockKept DEF ResendSucceeds, LoopInv, LoopStates
  <2> QED BY <1>0, <1>3, <2>1, LoopKept DEF ResendSucceeds, Storable
<1>4. CASE ResendConflicts \/ MarkSentFails
  <2>1. LoopInv' /\ LockInv' /\ pc' \in LoopStates
    BY <1>0, <1>4, LockKept DEF ResendConflicts, MarkSentFails, LoopInv, LoopStates
  <2>2. <<>> \in Seq(Event)
    OBVIOUS
  <2> QED BY <1>0, <1>4, <2>1, <2>2, LoopKept DEF ResendConflicts, MarkSentFails
<1>5. CASE ResendFails
  <2>1. queue # <<>> /\ queue' = Tail(queue)
    BY <1>0, <1>5 DEF ResendFails, AfterFailedSend, LoopInv
  <2>2. queue' \in Seq(Event) /\ Head(queue) \in Event
    BY <1>0, <2>1
  <2>3. LoopInv' /\ LockInv' /\ pc' \in LoopStates
    BY <1>0, <1>5, LockKept DEF ResendFails, AfterFailedSend, LoopInv, LoopStates
  <2> QED BY <1>0, <1>5, <2>2, <2>3, LoopKept DEF ResendFails, Storable
<1>6. CASE MarkSent
  <2>1. queue # <<>> /\ Head(queue) \in stored /\ Head(queue) \in Event
    BY <1>0, <1>6 DEF MarkSent, LoopInv
  <2>2. call' \in [Event -> CallStates] /\ CallInv'
    BY <1>6 DEF FInv, Types, CallInv, MarkSent, StartLine, Owner
  <2>3. "sent" \in Statuses
    BY DEF Statuses
  <2> QED BY <1>0, <1>6, <2>1, <2>2, <2>3, StartKept DEF MarkSent
<1>7. CASE RolloverCheck
  <2>1. LoopInv' /\ pc' \in LoopStates
    BY <1>0, <1>7 DEF RolloverCheck, CanLock, LoopInv, LockInv, LoopStates
  <2>2. LockInv'
    BY <1>0, <1>7 DEF RolloverCheck, CanLock, LockInv
  <2> QED BY <1>0, <1>7, <2>1, <2>2, LoopKept DEF RolloverCheck
<1>8. CASE RolloverArchive
  <2>1. LoopInv' /\ LockInv' /\ pc' \in LoopStates
    BY <1>0, <1>8, LockKept DEF RolloverArchive, LoopInv, LoopStates
  <2>2. archives' \subseteq Seq(Seq(Piece))
    BY <1>0, <1>8, ContentType DEF RolloverArchive
  <2> QED BY <1>0, <1>8, <2>1, <2>2, LoopKept DEF RolloverArchive
<1>9. CASE RolloverFails
  <2>1. LoopInv' /\ pc' \in LoopStates
    BY <1>0, <1>9 DEF RolloverFails, LoopInv, LoopStates
  <2>2. LockInv'
    BY <1>0, <1>9 DEF RolloverFails, LockInv, LoopInv
  <2> QED BY <1>0, <1>9, <2>1, <2>2, LoopKept DEF RolloverFails
<1>10. CASE SweepArchive
  <2>1. LoopInv' /\ LockInv' /\ pc' \in LoopStates
    BY <1>0, <1>10, LockKept DEF SweepArchive, LoopInv, LoopStates
  <2> QED BY <1>0, <1>10, <2>1, LoopKept DEF SweepArchive
<1>11. CASE RolloverRemove
  <2> DEFINE drop(w) == IF w.stage # "none" THEN [w EXCEPT !.stage = "detached"] ELSE w
  <2>1. \A w \in Writer : /\ drop(w) \in Writer
                          /\ drop(w).stage = "none" <=> w.stage = "none"
                          /\ drop(w).event = w.event /\ drop(w).status = w.status
    BY DEF Writer
  <2>2. /\ writer' = [p \in Process |-> drop(writer[p])] /\ pc' = "sweep" /\ pc = "remove"
        /\ lines' = <<>> /\ tail' = <<>> /\ locked' = [locked EXCEPT ![Server] = FALSE]
        /\ UNCHANGED <<deployment, stored, call, archives, queue, crashes>>
    BY <1>11 DEF RolloverRemove
  <2> HIDE DEF drop
  <2>3. writer' \in [Process -> Writer]
    BY <1>0, <2>1, <2>2 DEF Types
  <2>4. Types'
    BY <1>0, <2>2, <2>3 DEF Types, Foreign, Refused, Storable, MaxCrashes, LoopStates
  <2>5. LockInv' /\ LoopInv'
    BY <1>0, <2>1, <2>2 DEF LockInv, LoopInv, Types
  <2>6. WriterInv'
    BY <1>0, <2>1, <2>2 DEF FInv, WriterInv, Types, Owner
  <2>7. CallInv' /\ SentInv'
    BY <2>2 DEF FInv, CallInv, SentInv, SentLine, Owner
  <2> QED BY <2>4, <2>5, <2>6, <2>7 DEF FInv
<1> QED BY <1>1, <1>2, <1>3, <1>4, <1>5, <1>6, <1>7, <1>8, <1>9, <1>10, <1>11
        DEF LoopRuns, LoopFails

\* A crash keeps the invariant: the lock of the process goes with it.
LEMMA CrashKept == ASSUME FInv, NEW p \in Process, Crash(p) PROVE FInv'
<1>0. Types /\ LockInv /\ LoopInv /\ WriterInv /\ CallInv /\ SentInv /\ Server \in Process
  BY ProcessAssumption DEF FInv
<1>1. /\ locked' = [locked EXCEPT ![p] = FALSE] /\ writer' = [writer EXCEPT ![p] = NoWriter]
      /\ LeavesTail(p) /\ UNCHANGED <<deployment, stored, lines, archives>>
      /\ crashes < MaxCrashes /\ crashes' = crashes + 1
      /\ IF p = Server THEN pc' = "waiting" /\ queue' = <<>> ELSE UNCHANGED <<pc, queue>>
      /\ call' = [e \in Event |-> IF call[e] \in {"primary", "fallback", "writing"} /\ Owner[e] = p
                                  THEN "dropped" ELSE call[e]]
  BY DEF Crash, Unlock, loop
<1>2. NoWriter \in Writer /\ NoWriter.stage = "none"
  BY DEF NoWriter, Writer, Statuses
<1>3. tail' \in Seq(Piece) /\ SentInv'
  BY <1>0, <1>1, LeftTail
<1>4. call' \in [Event -> CallStates] /\ CallInv'
  BY <1>0, <1>1 DEF Types, CallStates, CallInv, Owner
<1>5. crashes' \in Nat /\ crashes' <= MaxCrashes
  <2>1. MaxCrashes \in Nat
    BY <1>0, DeploymentFields DEF Types
  <2> QED BY <1>0, <1>1, <2>1 DEF Types
<1>6. Types'
  <2>0. <<>> \in Seq(Event)
    OBVIOUS
  <2>1. writer' \in [Process -> Writer] /\ pc' \in LoopStates /\ queue' \in Seq(Event)
    BY <1>0, <1>1, <1>2, <2>0 DEF Types, LoopStates
  <2>2. stored' \subseteq Event \ (Foreign' \cup Refused') /\ MaxCrashes' = MaxCrashes
    BY <1>0, <1>1 DEF Types, Foreign, Refused, Storable, MaxCrashes
  <2> QED BY <1>0, <1>1, <1>3, <1>4, <1>5, <2>1, <2>2 DEF Types
<1>7. LockInv'
  BY <1>0, <1>1, <1>2 DEF LockInv, Types
<1>8. LoopInv'
  BY <1>0, <1>1, <1>2 DEF LoopInv, Types
<1>9. WriterInv'
  BY <1>0, <1>1, <1>2 DEF WriterInv, Types, Owner
<1> QED BY <1>3, <1>4, <1>6, <1>7, <1>8, <1>9 DEF FInv

\* Every step keeps the invariant.
LEMMA FallbackStep == FInv /\ [Next]_vars => FInv'
<1> SUFFICES ASSUME FInv, [Next]_vars PROVE FInv'
  OBVIOUS
<1>1. CASE UNCHANGED vars
  <2>1. Types' /\ CallInv'
    BY <1>1 DEF FInv, Types, CallInv, vars, file, loop, Foreign, Refused, Storable, MaxCrashes, Owner
  <2>2. LockInv' /\ LoopInv' /\ WriterInv' /\ SentInv'
    BY <1>1 DEF FInv, LockInv, LoopInv, WriterInv, SentInv, SentLine, vars, file, loop, Owner
  <2> QED BY <2>1, <2>2 DEF FInv
<1> QED BY <1>1, RecordKept, LoopStepKept, EndLineKept, WriteFailsKept, CrashKept DEF Next

\* Every variable keeps its type, and operation_lock is held exactly while a line is
\* written or the file is being sealed: every error path gives it back.
THEOREM FallbackTypes == Spec => []TypeOK
<1>1. FInv => TypeOK
  <2> SUFFICES ASSUME FInv PROVE TypeOK
    OBVIOUS
  <2>1. Types /\ LockInv
    BY DEF FInv
  <2>2. locked = [p \in Process |-> \/ writer[p].stage # "none"
                                    \/ p = Server /\ pc \in {"archive", "remove"}]
    BY <2>1 DEF LockInv
  <2>3. crashes \in 0..MaxCrashes
    BY <2>1, DeploymentFields DEF Types
  <2> QED BY <2>1, <2>2, <2>3 DEF Types, TypeOK, Writer
<1> QED BY <1>1, FallbackInit, FallbackStep, PTL DEF Spec

\* A sent marker is written only for an event that is in audit_events, whichever
\* processes write to the file and whatever they leave in it.
THEOREM MarkedIsStored == Spec => []SentIsStored
<1>1. FInv => SentIsStored
  <2> SUFFICES ASSUME FInv, NEW i \in 1..Len(Content) PROVE SentLine(Content[i])
    BY DEF SentIsStored, SentLine
  <2>1. Types /\ SentInv
    BY DEF FInv
  <2> QED BY <2>1 DEF Types, SentInv, Content
<1> QED BY <1>1, FallbackInit, FallbackStep, PTL DEF Spec

-----------------------------------------------------------------------------
(* What a rollover finds in the file that it checks. *)

\* A set of positions has a last one.
LEMMA LastExists ==
    ASSUME NEW n \in Nat, NEW S, S \subseteq 1..n, S # {}
    PROVE  \E i \in S : \A j \in S : j <= i
<1> DEFINE T == {k \in 0..n : n - k \in S}
           R == OpToRel(<, Nat)
<1>1. T \subseteq Nat
  OBVIOUS
<1>2. T # {}
  <2>1. PICK i \in S : TRUE
    OBVIOUS
  <2>2. i \in 1..n /\ n - i \in 0..n /\ n - (n - i) = i
    BY <2>1
  <2>3. n - i \in T
    BY <2>1, <2>2
  <2> QED BY <2>3
<1>3. \E x \in T : \A y \in T : ~(<<y, x>> \in R)
  <2> HIDE DEF T, R
  <2>1. IsWellFoundedOn(R, Nat)
    BY NatLessThanWellFounded DEF R
  <2> QED BY <1>1, <1>2, <2>1, WFMin
<1>4. PICK x \in T : \A y \in T : ~(y < x)
  BY <1>1, <1>3 DEF OpToRel
<1>5. ASSUME NEW j \in S PROVE j <= n - x
  <2>1. j \in 1..n /\ n - j \in 0..n /\ n - (n - j) = j
    BY <1>5
  <2>2. n - j \in T
    BY <1>5, <2>1
  <2>3. ~(n - j < x) /\ x \in 0..n
    BY <1>4, <2>2
  <2> QED BY <2>1, <2>3
<1> QED BY <1>4, <1>5

\* The status of an event is the status of one of its records.
LEMMA StatusIsRecorded ==
    ASSUME Types, NEW e, NEW i \in 1..Len(Content), Content[i][1].event = e
    PROVE  \E k \in 1..Len(Content) : /\ Content[k][1].event = e
                                      /\ FinalStatus(e) = Content[k][1].status
<1> DEFINE own == {k \in 1..Len(Content) : Content[k][1].event = e}
<1>1. Len(Content) \in Nat
  BY ContentType
<1>2. own \subseteq 1..Len(Content) /\ own # {}
  OBVIOUS
<1>3. \E k \in own : \A j \in own : j <= k
  <2> HIDE DEF own
  <2> QED BY <1>1, <1>2, LastExists
<1> DEFINE k == CHOOSE k \in own : \A j \in own : j <= k
<1>4. k \in own
  BY <1>3
<1>5. FinalStatus(e) = Content[k][1].status
  BY DEF FinalStatus
<1> QED BY <1>4, <1>5

\* What a parsed line says: one piece, pending or sent, and stored when it says sent.
LEMMA ParsedLine ==
    ASSUME FInv, Readable, NEW k \in 1..Len(Content)
    PROVE  /\ Len(Content[k]) = 1 /\ Content[k][1].status \in {"pending", "sent"}
           /\ Content[k][1].status = "sent" => Content[k][1].event \in stored
<1>1. Types /\ SentInv
  BY DEF FInv
<1>2. Content[k] \in Seq(Piece) /\ Len(Content[k]) = 1
  BY <1>1, ContentType DEF Readable, Parses
<1>3. Content[k][1] \in Piece /\ 1 \in 1..Len(Content[k])
  BY <1>2
<1>4. SentLine(Content[k])
  BY <1>1 DEF Types, SentInv, Content
<1> QED BY <1>2, <1>3, <1>4 DEF Piece, Statuses, SentLine

\* A file with nothing pending holds only records of stored events.
LEMMA EligibleIsStored == ASSUME FInv, Readable, Eligible PROVE Recorded \subseteq stored
<1> SUFFICES ASSUME NEW e \in Recorded PROVE e \in stored
  OBVIOUS
<1>1. PICK i \in 1..Len(Content) : Content[i][1].event = e
  BY DEF Recorded
<1>2. PICK k \in 1..Len(Content) : /\ Content[k][1].event = e
                                   /\ FinalStatus(e) = Content[k][1].status
  BY <1>1, StatusIsRecorded DEF FInv
<1>3. FinalStatus(e) # "pending"
  BY DEF Eligible, PendingEvents
<1> QED BY <1>2, <1>3, ParsedLine

-----------------------------------------------------------------------------
(* Several processes on one file. *)

\* A line of the file has a pending piece of the event.
InLines(e) ==
    \E i \in 1..Len(lines) : \E j \in 1..Len(lines[i]) :
       lines[i][j].event = e /\ lines[i][j].status = "pending"

\* What fell back is stored or still in a terminated line.
KeptInv == \A e \in Event : call[e] = "fallback_succeeded" => e \in stored \/ InLines(e)

\* Nobody writes to a file that is gone.
AttachedInv == \A p \in Process : writer[p].stage # "detached"

\* A reader notices a line under way: the tail of an open writer does not parse, those
\* of two are at least two pieces, and a split writer has a spoilt line before it.
WritingInv ==
    /\ \A p \in Process : writer[p].stage = "open" => tail # <<>> /\ ~Parses(tail)
    /\ \A p, q \in Process :
          writer[p].stage = "open" /\ writer[q].stage = "open" /\ p # q => Len(tail) >= 2
    /\ \A p \in Process :
          writer[p].stage = "split" => \E i \in 1..Len(lines) : ~Parses(lines[i])

Sealing == pc \in {"archive", "remove"}
NoWriters == \A p \in Process : writer[p].stage = "none"

\* While the file is sealed nobody has it open, it stays readable, with stored events
\* only, and it is removed after it has been archived.
SealInv ==
    /\ Sealing => Readable /\ Recorded \subseteq stored /\ NoWriters
    /\ pc = "remove" => Content \in archives

KInv == KeptInv /\ AttachedInv /\ WritingInv /\ SealInv

\* What SealedComplete says of one step.
Sealed == ~IsPrefix(lines, lines') => Content \in archives /\ Recorded \subseteq stored

\* No process but the server starts a line in this step.
OthersStartNothing == \A e \in Event : Owner[e] # Server => ~AppendPending(e)

\* No other process begins to append between the rollover's check of the file and its
\* removal.  It may have begun before, and it may end, fail or crash meanwhile: that
\* the check notices it is proved, not assumed.
QuietSealing == [][Sealing => OthersStartNothing]_vars

-----------------------------------------------------------------------------
\* A file is a prefix of itself, and of itself with a line more.
LEMMA PrefixKept ==
    ASSUME NEW ls \in Seq(Seq(Piece)), NEW line \in Seq(Piece)
    PROVE  IsPrefix(ls, ls) /\ IsPrefix(ls, Append(ls, line))
<1>1. Len(ls) \in Nat /\ Len(Append(ls, line)) = Len(ls) + 1
  OBVIOUS
<1>2. SubSeq(ls, 1, Len(ls)) = ls /\ SubSeq(Append(ls, line), 1, Len(ls)) = ls
  OBVIOUS
<1> QED BY <1>1, <1>2 DEF IsPrefix

\* Lines that stay keep what fell back.
LEMMA KeptStays ==
    ASSUME KeptInv, UNCHANGED lines, stored \subseteq stored',
           \A e \in Event : call'[e] = "fallback_succeeded" => call[e] = "fallback_succeeded"
    PROVE  KeptInv'
BY DEF KeptInv, InLines

\* A step that leaves file, writers and sealing keeps all of it.
LEMMA AsideKept ==
    ASSUME FInv, KInv, UNCHANGED <<lines, tail, writer>>, stored \subseteq stored',
           \A e \in Event : call'[e] = "fallback_succeeded" => call[e] = "fallback_succeeded",
           \/ pc' \notin {"archive", "remove"}
           \/ UNCHANGED <<pc, archives>>
    PROVE  KInv' /\ Sealed
<1>0. KeptInv /\ AttachedInv /\ WritingInv /\ SealInv
  BY DEF KInv
<1>1. AttachedInv' /\ WritingInv' /\ KeptInv'
  BY <1>0, KeptStays DEF AttachedInv, WritingInv, Parses
<1>2. Content' = Content /\ Readable' = Readable /\ Recorded' = Recorded
  BY DEF Content, Readable, Recorded, Parses
<1>3. SealInv'
  BY <1>0, <1>2 DEF SealInv, Sealing, NoWriters
<1>4. Sealed
  BY PrefixKept DEF Sealed, FInv, Types
<1> QED BY <1>1, <1>3, <1>4 DEF KInv

\* A readable file has no line under way.
LEMMA ReadableIsQuiet == ASSUME FInv, AttachedInv, WritingInv, Readable PROVE NoWriters
<1>0. Types
  BY DEF FInv
<1>1. SUFFICES ASSUME NEW p \in Process, writer[p].stage # "none" PROVE FALSE
  BY DEF NoWriters
<1>2. writer[p].stage = "open" \/ writer[p].stage = "split"
  BY <1>0, <1>1 DEF Types, Writer, AttachedInv
<1>3. CASE writer[p].stage = "open"
  <2>1. tail # <<>> /\ ~Parses(tail)
    BY <1>3 DEF WritingInv
  <2>2. Len(lines) + 1 \in 1..Len(Content) /\ Content[Len(lines) + 1] = tail
    BY <1>0, <2>1 DEF Types, Content
  <2> QED BY <2>1, <2>2 DEF Readable
<1>4. CASE writer[p].stage = "split"
  <2>1. PICK i \in 1..Len(lines) : ~Parses(lines[i])
    BY <1>4 DEF WritingInv
  <2>2. i \in 1..Len(Content) /\ Content[i] = lines[i]
    BY <1>0, <2>1 DEF Types, Content
  <2> QED BY <2>1, <2>2 DEF Readable
<1> QED BY <1>2, <1>3, <1>4

\* An append_line starts, of a process that may do so now.
LEMMA StartShared ==
    ASSUME FInv, KInv, NEW p \in Process, NEW e \in Event, NEW status \in Statuses,
           StartLine(p, e, status), ~Sealing, ~Sealing',
           \A f \in Event : call'[f] = "fallback_succeeded" => call[f] = "fallback_succeeded"
    PROVE  KInv' /\ Sealed
<1>0. KeptInv /\ AttachedInv /\ WritingInv /\ Types
  BY DEF KInv, FInv
<1> DEFINE x == [event |-> e, status |-> status, whole |-> FALSE]
           w == [stage |-> "open", event |-> e, status |-> status]
<1>1. /\ UNCHANGED <<lines, stored>> /\ tail' = Append(tail, x) /\ writer' = [writer EXCEPT ![p] = w]
      /\ x \in Piece /\ x.whole = FALSE /\ w.stage = "open" /\ tail \in Seq(Piece)
      /\ writer \in [Process -> Writer]
  BY <1>0 DEF StartLine, Types, Piece
<1> HIDE DEF x, w
<1>2. writer'[p].stage = "open" /\ \A q \in Process \ {p} : writer'[q] = writer[q]
  BY <1>1
<1>3. AttachedInv'
  BY <1>0, <1>2 DEF AttachedInv
<1>4. tail' # <<>> /\ ~Parses(tail)' /\ Len(tail') = Len(tail) + 1
  <2>1. Len(tail') = Len(tail) + 1 /\ tail'[Len(tail) + 1] = x
    BY <1>1
  <2> QED BY <1>1, <2>1 DEF Parses
<1>5. WritingInv'
  <2>1. \A q \in Process : writer'[q].stage = "open" => tail' # <<>> /\ ~Parses(tail)'
    BY <1>4
  <2>2. \A q, r \in Process :
           writer'[q].stage = "open" /\ writer'[r].stage = "open" /\ q # r => Len(tail') >= 2
    <3>1. SUFFICES ASSUME NEW q \in Process \ {p}, writer[q].stage = "open" PROVE Len(tail') >= 2
      BY <1>2
    <3>2. tail # <<>>
      BY <1>0, <3>1 DEF WritingInv
    <3>3. Len(tail) \in Nat /\ Len(tail) # 0
      BY <1>1, <3>2
    <3> QED BY <1>4, <3>3
  <2>3. \A q \in Process :
           writer'[q].stage = "split" => \E i \in 1..Len(lines') : ~Parses(lines'[i])
    BY <1>0, <1>1, <1>2 DEF WritingInv
  <2> QED BY <2>1, <2>2, <2>3 DEF WritingInv, Parses
<1>6. KeptInv'
  BY <1>0, <1>1, KeptStays
<1>7. SealInv'
  BY DEF SealInv, Sealing
<1>8. Sealed
  BY <1>0, <1>1, PrefixKept DEF Sealed, Types
<1> QED BY <1>3, <1>5, <1>6, <1>7, <1>8 DEF KInv

\* The steps of record().
LEMMA RecordShared ==
    ASSUME FInv, KInv, NEW e \in Event, Record(e), Sealing => OthersStartNothing
    PROVE  KInv' /\ Sealed
<1>0. call \in [Event -> CallStates] /\ deployment \in Deployment
  BY DEF FInv, Types
<1>1. CASE AppendPending(e)
  <2>1. StartLine(Owner[e], e, "pending") /\ UNCHANGED pc /\ call[e] = "fallback"
    BY <1>1 DEF AppendPending, loop
  <2>2. \A f \in Event : call'[f] = "fallback_succeeded" => call[f] = "fallback_succeeded"
    BY <1>0, <1>1 DEF AppendPending
  <2>3. Owner[e] \in Process
    BY <1>0, <2>1, DeploymentFields DEF FInv, CallInv
  <2>4. ~Sealing
    <3>1. SUFFICES ASSUME Sealing PROVE FALSE
      OBVIOUS
    <3>2. Owner[e] = Server
      BY <1>1, <3>1 DEF OthersStartNothing
    <3>3. locked[Server]
      BY <3>1, ProcessAssumption DEF FInv, LockInv, Sealing
    <3> QED BY <2>1, <3>2, <3>3 DEF StartLine, CanLock
  <2> QED BY <2>1, <2>2, <2>3, <2>4, StartShared DEF Sealing, Statuses
<1>2. CASE ~AppendPending(e)
  <2>1. PICK x \in CallStates : call' = [call EXCEPT ![e] = x] /\ x # "fallback_succeeded"
    BY <1>2 DEF Record, BeginRecord, PrimarySucceeds, PrimaryConflicts, PrimaryFails,
                AppendPendingFails, DropRecord, CallStates
  <2>2. UNCHANGED <<lines, tail, writer, pc, archives>> /\ stored \subseteq stored'
    BY <1>2 DEF Record, BeginRecord, PrimarySucceeds, PrimaryConflicts, PrimaryFails,
                AppendPendingFails, DropRecord, file, loop
  <2>3. \A f \in Event : call'[f] = "fallback_succeeded" => call[f] = "fallback_succeeded"
    BY <1>0, <2>1
  <2> QED BY <2>2, <2>3, AsideKept
<1> QED BY <1>1, <1>2

\* What fell back is stored when its line is removed.
LEMMA RemovedIsStored ==
    ASSUME FInv, Readable, Recorded \subseteq stored, NEW e \in Event, InLines(e)
    PROVE  e \in stored
<1>1. PICK i \in 1..Len(lines) : \E j \in 1..Len(lines[i]) : lines[i][j].event = e
  BY DEF InLines
<1>2. i \in 1..Len(Content) /\ Content[i] = lines[i]
  BY <1>1 DEF FInv, Types, Content
<1>3. Len(lines[i]) = 1
  BY <1>2 DEF Readable, Parses
<1>4. PICK j \in 1..Len(lines[i]) : lines[i][j].event = e
  BY <1>1
<1>5. Content[i][1].event = e
  BY <1>2, <1>3, <1>4
<1> QED BY <1>2, <1>5 DEF Recorded

\* The file is removed: what it held is stored, and nobody has it open.
LEMMA RemoveShared == ASSUME FInv, KInv, RolloverRemove PROVE KInv' /\ Sealed
<1>0. Types /\ KeptInv /\ SealInv
  BY DEF KInv, FInv
<1>1. Readable /\ Recorded \subseteq stored /\ NoWriters /\ Content \in archives
  BY <1>0 DEF SealInv, Sealing, RolloverRemove
<1>2. \A e \in Event : InLines(e) => e \in stored
  BY <1>1, RemovedIsStored
<1>3. KeptInv'
  BY <1>0, <1>2 DEF KeptInv, RolloverRemove
<1>4. writer' = [p \in Process |-> writer[p]]
  BY <1>1 DEF RolloverRemove, NoWriters
<1>5. \A p \in Process : writer'[p].stage = "none"
  BY <1>1, <1>4 DEF NoWriters
<1>6. AttachedInv' /\ WritingInv'
  BY <1>5 DEF AttachedInv, WritingInv
<1>7. SealInv'
  BY DEF SealInv, Sealing, RolloverRemove
<1> QED BY <1>1, <1>3, <1>6, <1>7 DEF KInv, Sealed

\* The steps of the loop.
LEMMA LoopShared == ASSUME FInv, KInv, LoopRuns \/ LoopFails PROVE KInv' /\ Sealed
<1>1. CASE ResendRead \/ ResendReadFails \/ (\E e \in Event : ResendSucceeds(e)) \/ ResendConflicts
           \/ ResendFails \/ MarkSentFails \/ RolloverFails \/ SweepArchive
  <2>1. /\ UNCHANGED <<lines, tail, writer, call>> /\ stored \subseteq stored'
        /\ pc' \in {"rollover", "sending", "mark", "sweep", "waiting"}
    BY <1>1 DEF ResendRead, ResendReadFails, ResendSucceeds, ResendConflicts, ResendFails,
                AfterFailedSend, MarkSentFails, RolloverFails, SweepArchive, file
  <2> QED BY <2>1, AsideKept
<1>2. CASE MarkSent
  <2>1. Head(queue) \in Event
    BY <1>2 DEF MarkSent, FInv, LoopInv, Types
  <2> QED BY <1>2, <2>1, StartShared, ProcessAssumption DEF MarkSent, Sealing, Statuses
<1>3. CASE RolloverCheck
  <2>1. UNCHANGED <<lines, tail, writer, call, stored>>
    BY <1>3 DEF RolloverCheck, file
  <2>2. AttachedInv' /\ WritingInv' /\ KeptInv' /\ Sealed
    BY <2>1, KeptStays, PrefixKept DEF KInv, AttachedInv, WritingInv, Parses, Sealed, FInv, Types
  <2>3. Content' = Content /\ Readable' = Readable /\ Recorded' = Recorded
    BY <2>1 DEF Content, Readable, Recorded, Parses
  <2>4. SealInv'
    <3>1. CASE Readable /\ Eligible
      <4>1. Recorded \subseteq stored /\ NoWriters
        BY <3>1, EligibleIsStored, ReadableIsQuiet DEF KInv
      <4> QED BY <1>3, <2>1, <2>3, <3>1, <4>1 DEF RolloverCheck, SealInv, NoWriters
    <3>2. CASE ~(Readable /\ Eligible)
      BY <1>3, <3>2 DEF RolloverCheck, SealInv, Sealing
    <3> QED BY <3>1, <3>2
  <2> QED BY <2>2, <2>4 DEF KInv
<1>4. CASE RolloverArchive
  <2>1. UNCHANGED <<lines, tail, writer, call, stored>>
    BY <1>4 DEF RolloverArchive, file
  <2>2. AttachedInv' /\ WritingInv' /\ KeptInv' /\ Sealed
    BY <2>1, KeptStays, PrefixKept DEF KInv, AttachedInv, WritingInv, Parses, Sealed, FInv, Types
  <2>3. Content' = Content /\ Readable' = Readable /\ Recorded' = Recorded
    BY <2>1 DEF Content, Readable, Recorded, Parses
  <2>4. SealInv'
    BY <1>4, <2>1, <2>3 DEF RolloverArchive, SealInv, Sealing, NoWriters, KInv
  <2> QED BY <2>2, <2>4 DEF KInv
<1>5. CASE RolloverRemove
  BY <1>5, RemoveShared
<1> QED BY <1>1, <1>2, <1>3, <1>4, <1>5 DEF LoopRuns, LoopFails

\* A line ends: it is in the file before the caller hears of it, spoilt by other
\* processes or not.
LEMMA EndKeeps ==
    ASSUME FInv, KeptInv, NEW p \in Process, NEW ok \in BOOLEAN, EndLine(p, ok),
           writer[p].stage # "detached"
    PROVE  KeptInv' /\ IsPrefix(lines, lines')
<1> DEFINE alone == writer[p].stage = "open" /\ Len(tail) = 1
           e == writer[p].event
           status == writer[p].status
           piece == [event |-> e, status |-> status, whole |-> alone]
           line == IF alone THEN <<piece>> ELSE Append(tail, piece)
           n == Len(lines)
<1>0. Types /\ WriterInv /\ writer[p].stage # "none" /\ Answer(p, ok) /\ UNCHANGED stored
  BY DEF FInv, EndLine
<1>1. lines' = Append(lines, line)
  BY DEF EndLine
<1>2. /\ status \in {"pending", "sent"}
      /\ call \in [Event -> CallStates] /\ e \in Event /\ tail \in Seq(Piece) /\ alone \in BOOLEAN
      /\ lines \in Seq(Seq(Piece))
  BY <1>0 DEF WriterInv, Types, Writer, Statuses
<1> HIDE DEF alone
<1>4. piece \in Piece /\ piece.event = e /\ piece.status = status
  BY <1>2 DEF Piece, Statuses
<1> HIDE DEF piece
<1>5. line \in Seq(Piece) /\ \E j \in 1..Len(line) : line[j] = piece
  <2>1. <<piece>> \in Seq(Piece) /\ 1 \in 1..Len(<<piece>>) /\ <<piece>>[1] = piece
    BY <1>4
  <2>2. /\ Append(tail, piece) \in Seq(Piece)
        /\ Len(tail) + 1 \in 1..Len(Append(tail, piece))
        /\ Append(tail, piece)[Len(tail) + 1] = piece
    BY <1>2, <1>4
  <2> QED BY <2>1, <2>2
<1> HIDE DEF line
<1>6. /\ n \in Nat /\ Len(lines') = n + 1 /\ lines'[n + 1] = line
      /\ \A i \in 1..n : lines'[i] = lines[i]
  BY <1>1, <1>2, <1>5
<1>7. \A f \in Event : InLines(f) => InLines(f)'
  BY <1>6 DEF InLines
<1>8. ASSUME NEW f \in Event, f = e, status = "pending" PROVE InLines(f)'
  <2> SUFFICES \E j \in 1..Len(line) : line[j].event = f /\ line[j].status = "pending"
    <3>1. n + 1 \in 1..(n + 1)
      BY <1>6
    <3> QED BY <1>6, <3>1 DEF InLines
  <2> QED BY <1>4, <1>5, <1>8
<1>9. KeptInv'
  <2>1. CASE status = "pending"
    <3>1. PICK x : call' = [call EXCEPT ![e] = x]
      BY <1>0, <2>1 DEF Answer
    <3>2. \A f \in Event \ {e} : call'[f] = call[f]
      BY <1>2, <3>1
    <3>3. ASSUME NEW f \in Event, call'[f] = "fallback_succeeded" PROVE f \in stored' \/ InLines(f)'
      <4>1. CASE f = e
        BY <1>8, <2>1, <4>1
      <4>2. CASE f # e
        BY <1>0, <1>7, <3>2, <3>3, <4>2 DEF KeptInv
      <4> QED BY <4>1, <4>2
    <3> QED BY <3>3 DEF KeptInv
  <2>2. CASE status = "sent"
    <3>1. UNCHANGED call
      BY <1>0, <2>2 DEF Answer
    <3> QED BY <1>0, <1>7, <3>1 DEF KeptInv
  <2> QED BY <1>2, <2>1, <2>2
<1> QED BY <1>1, <1>2, <1>5, <1>9, PrefixKept

\* A line ends, and the writers whose lines it cuts are split.
LEMMA EndShared ==
    ASSUME FInv, KInv, NEW p \in Process, NEW ok \in BOOLEAN, EndLine(p, ok) PROVE KInv' /\ Sealed
<1>0. Types /\ KeptInv /\ AttachedInv /\ WritingInv /\ SealInv
  BY DEF KInv, FInv
<1>1. /\ writer[p].stage # "none" /\ writer[p].stage # "detached" /\ Answer(p, ok)
      /\ writer[p].stage = "open" \/ writer[p].stage = "split"
      /\ writer \in [Process -> Writer] /\ lines \in Seq(Seq(Piece)) /\ tail \in Seq(Piece)
  BY <1>0 DEF AttachedInv, EndLine, Types, Writer
<1>2. writer' = [q \in Process |-> IF q = p THEN NoWriter
                        ELSE IF writer[q].stage = "open" THEN [writer[q] EXCEPT !.stage = "split"]
                        ELSE writer[q]]
  BY <1>1 DEF EndLine
<1>3. ASSUME NEW q \in Process
      PROVE  /\ writer'[q].stage \in {"none", "split"}
             /\ writer'[q].stage = "split" => q # p /\ writer[q].stage \in {"open", "split"}
  <2>1. writer[q] \in Writer /\ writer[q].stage # "detached"
    BY <1>0, <1>1 DEF AttachedInv
  <2> QED BY <1>2, <2>1 DEF NoWriter, Writer
<1>4. KeptInv' /\ IsPrefix(lines, lines')
  BY <1>0, <1>1, EndKeeps
<1>5. ASSUME NEW q \in Process, writer'[q].stage = "split"
      PROVE  \E i \in 1..Len(lines') : ~Parses(lines'[i])
  <2> DEFINE alone == writer[p].stage = "open" /\ Len(tail) = 1
             piece == [event |-> writer[p].event, status |-> writer[p].status, whole |-> alone]
             line == IF alone THEN <<piece>> ELSE Append(tail, piece)
  <2>1. lines' = Append(lines, line)
    BY <1>1 DEF EndLine
  <2> HIDE DEF line
  <2>2. Len(lines) \in Nat /\ Len(lines') = Len(lines) + 1 /\ lines'[Len(lines) + 1] = line
    BY <1>1, <2>1
  <2>3. \A i \in 1..Len(lines) : lines'[i] = lines[i]
    BY <1>1, <2>1
  <2>4. CASE writer[q].stage = "split" \/ writer[p].stage = "split"
    <3>1. PICK i \in 1..Len(lines) : ~Parses(lines[i])
      BY <1>0, <2>4 DEF WritingInv
    <3> QED BY <2>2, <2>3, <3>1 DEF Parses
  <2>5. CASE writer[q].stage = "open" /\ writer[p].stage = "open"
    <3>1. Len(tail) >= 2 /\ Len(tail) \in Nat
      <4>1. p # q
        BY <1>3, <1>5
      <4> QED BY <1>0, <1>1, <2>5, <4>1 DEF WritingInv
    <3>2. Len(line) = Len(tail) + 1
      <4>1. writer[p].event \in Event /\ writer[p].status \in Statuses
        BY <1>1 DEF FInv, WriterInv, Writer
      <4>2. ~alone
        BY <3>1
      <4>3. piece \in Piece /\ line = Append(tail, piece)
        BY <4>1, <4>2 DEF line, Piece
      <4> QED BY <1>1, <4>3
    <3>3. ~Parses(line)
      BY <3>1, <3>2 DEF Parses
    <3>4. Len(lines) + 1 \in 1..Len(lines')
      BY <2>2
    <3> QED BY <2>2, <3>3, <3>4 DEF Parses
  <2> QED BY <1>1, <1>3, <1>5, <2>4, <2>5
<1>6. AttachedInv' /\ WritingInv'
  BY <1>3, <1>5 DEF AttachedInv, WritingInv, Parses
<1>7. ~Sealing'
  <2>1. ~Sealing
    BY <1>0, <1>1 DEF SealInv, NoWriters
  <2>2. /\ writer[p].status = "pending" => UNCHANGED pc
        /\ writer[p].status = "sent" => pc' \in {"rollover", "sending"}
    BY <1>1, AnswerGives DEF EndLine
  <2>3. writer[p].status \in {"pending", "sent"}
    BY <1>1 DEF Writer, Statuses
  <2> QED BY <2>1, <2>2, <2>3 DEF Sealing
<1>8. SealInv'
  BY <1>7 DEF SealInv, Sealing
<1> QED BY <1>4, <1>6, <1>8 DEF KInv, Sealed

\* A write fails, or a process crashes: the terminated lines stay.
LEMMA FailShared ==
    ASSUME FInv, KInv, NEW p \in Process, WriteFails(p) \/ Crash(p) PROVE KInv' /\ Sealed
<1>0. Types /\ KeptInv /\ AttachedInv /\ WritingInv /\ SealInv
  BY DEF KInv, FInv
<1>1. /\ UNCHANGED <<lines, stored, archives>> /\ writer' = [writer EXCEPT ![p] = NoWriter]
      /\ LeavesTail(p) /\ writer \in [Process -> Writer] /\ tail \in Seq(Piece)
  BY <1>0 DEF WriteFails, Crash, Unlock, Types
<1>2. \A f \in Event : call'[f] = "fallback_succeeded" => call[f] = "fallback_succeeded"
  <2>1. CASE Crash(p)
    BY <2>1 DEF Crash
  <2>2. CASE WriteFails(p)
    BY <1>0, <2>2 DEF WriteFails, Answer, Types
  <2> QED BY <2>1, <2>2
<1>3. KeptInv'
  BY <1>0, <1>1, <1>2, KeptStays
<1>4. writer'[p].stage = "none" /\ \A q \in Process \ {p} : writer'[q] = writer[q]
  BY <1>1 DEF NoWriter
<1>5. ASSUME NEW q \in Process \ {p}, writer[q].stage = "open" PROVE UNCHANGED tail
  <2>1. CASE writer[p].stage = "open"
    <3>1. p # q /\ q \in Process
      BY <1>5
    <3>2. Len(tail) >= 2 /\ Len(tail) \in Nat
      BY <1>0, <1>1, <1>5, <2>1, <3>1 DEF WritingInv
    <3>3. \A n \in Nat : n >= 2 => n # 1
      OBVIOUS
    <3>4. Len(tail) # 1
      BY <3>2, <3>3, Zenon
    <3> QED BY <1>1, <3>4 DEF LeavesTail
  <2>2. CASE writer[p].stage # "open"
    BY <1>1, <2>2 DEF LeavesTail
  <2> QED BY <2>1, <2>2
<1>6. AttachedInv'
  BY <1>0, <1>4 DEF AttachedInv
<1>7. WritingInv'
  <2>1. \A q \in Process : writer'[q].stage = "open" => tail' # <<>> /\ ~Parses(tail)'
    BY <1>0, <1>4, <1>5 DEF WritingInv, Parses
  <2>2. \A q, r \in Process :
           writer'[q].stage = "open" /\ writer'[r].stage = "open" /\ q # r => Len(tail') >= 2
    BY <1>0, <1>4, <1>5 DEF WritingInv
  <2>3. \A q \in Process :
           writer'[q].stage = "split" => \E i \in 1..Len(lines') : ~Parses(lines'[i])
    BY <1>0, <1>1, <1>4 DEF WritingInv
  <2> QED BY <2>1, <2>2, <2>3 DEF WritingInv, Parses
<1>8. Sealed
  BY <1>0, <1>1, PrefixKept DEF Sealed, Types
<1>9. SealInv'
  <2>1. CASE ~Sealing'
    BY <2>1 DEF SealInv, Sealing
  <2>2. CASE Sealing'
    <3>1. Sealing /\ UNCHANGED pc
      <4>1. CASE Crash(p)
        BY <2>2, <4>1 DEF Crash, Sealing, loop
      <4>2. CASE WriteFails(p)
        <5>1. /\ writer[p].status \in {"pending", "sent"}
              /\ writer[p].status = "pending" => UNCHANGED pc
              /\ writer[p].status = "sent" => pc' \in {"rollover", "sending"}
          BY <1>1, <4>2, AnswerGives DEF WriteFails, Writer, Statuses
        <5> QED BY <2>2, <5>1 DEF Sealing
      <4> QED BY <4>1, <4>2
    <3>2. NoWriters /\ Readable /\ Recorded \subseteq stored
      BY <1>0, <3>1 DEF SealInv
    <3>3. UNCHANGED tail
      BY <1>1, <3>2 DEF NoWriters, LeavesTail
    <3>4. Content' = Content /\ Readable' = Readable /\ Recorded' = Recorded
      BY <1>1, <3>3 DEF Content, Readable, Recorded, Parses
    <3>5. NoWriters'
      BY <1>4, <3>2 DEF NoWriters
    <3> QED BY <1>0, <1>1, <3>1, <3>2, <3>4, <3>5 DEF SealInv, Sealing
  <2> QED BY <2>1, <2>2
<1> QED BY <1>3, <1>6, <1>7, <1>8, <1>9 DEF KInv

\* Every step keeps what fell back, and seals only what is complete.
LEMMA SharedStep ==
    ASSUME FInv, KInv, [Next]_vars, [Sealing => OthersStartNothing]_vars PROVE KInv' /\ Sealed
<1>1. CASE UNCHANGED vars
  BY <1>1, AsideKept DEF vars, file, loop
<1>2. CASE Next /\ (Sealing => OthersStartNothing)
  BY <1>2, RecordShared, LoopShared, EndShared, FailShared DEF Next
<1> QED BY <1>1, <1>2

\* At the start nothing fell back.
LEMMA SharedInit == Init => KInv
BY DEF Init, KInv, KeptInv, AttachedInv, WritingInv, SealInv, Sealing, NoWriter

\* What is stored or in a terminated line is kept in the sense of KeptUntilDelivered:
\* a reader that parses the file finds no later record that says otherwise.
LEMMA KeptIsKept == ASSUME FInv, KeptInv PROVE KeptUntilDelivered
<1> SUFFICES ASSUME NEW e \in Event, call[e] = "fallback_succeeded", e \notin stored
             PROVE  e \in PendingBytes /\ (Readable => e \in PendingEvents)
  BY DEF KeptUntilDelivered
<1>0. Types
  BY DEF FInv
<1>1. PICK i \in 1..Len(lines) : \E j \in 1..Len(lines[i]) :
         lines[i][j].event = e /\ lines[i][j].status = "pending"
  BY DEF KeptInv, InLines
<1>2. PICK j \in 1..Len(lines[i]) : lines[i][j].event = e /\ lines[i][j].status = "pending"
  BY <1>1
<1>3. i \in 1..Len(Content) /\ Content[i] = lines[i] /\ lines[i] \in Seq(Piece)
  BY <1>0, <1>1 DEF Types, Content
<1>4. e \in PendingBytes
  <2> DEFINE x == lines[i][j]
  <2>1. x \in Piece
    BY <1>2, <1>3
  <2>2. x.whole \in BOOLEAN /\ x = [event |-> e, status |-> "pending", whole |-> x.whole]
    BY <1>2, <2>1 DEF Piece
  <2> QED BY <1>2, <1>3, <2>2 DEF PendingBytes
<1>5. ASSUME Readable PROVE e \in PendingEvents
  <2>1. Content[i][1].event = e
    BY <1>2, <1>3, <1>5, ParsedLine
  <2>2. PICK k \in 1..Len(Content) : /\ Content[k][1].event = e
                                     /\ FinalStatus(e) = Content[k][1].status
    BY <1>0, <1>3, <2>1, StatusIsRecorded
  <2>3. FinalStatus(e) = "pending"
    BY <1>5, <2>2, ParsedLine
  <2> QED BY <1>3, <2>1, <2>3 DEF PendingEvents, Recorded
<1> QED BY <1>4, <1>5

\* Whatever processes record on the file, cut and tear each other's lines, and crash: an
\* event whose record() returned FallbackSucceeded is in audit_events, or still in the
\* file where every reader that can parse it finds it pending, as long as no other
\* process begins to append while the server seals the file.
THEOREM KeptUnlessDisturbed == Spec /\ QuietSealing => []KeptUntilDelivered
<1>1. FInv /\ KInv => KeptUntilDelivered
  BY KeptIsKept DEF KInv
<1>2. FInv /\ KInv /\ [Next]_vars /\ [Sealing => OthersStartNothing]_vars => KInv'
  BY SharedStep
<1> QED BY <1>1, <1>2, SharedInit, FallbackInit, FallbackStep, PTL DEF Spec, QuietSealing

\* Under the same condition lines leave the file only as a whole, into an archive that
\* holds all of them, and only when each of their events has been delivered.
THEOREM SealedUnlessDisturbed == Spec /\ QuietSealing => SealedComplete
<1>1. FInv /\ KInv /\ [Next]_vars /\ [Sealing => OthersStartNothing]_vars =>
         [~IsPrefix(lines, lines') => /\ Content \in archives
                                      /\ \A e \in Recorded : e \in stored]_vars
  BY SharedStep DEF Sealed
<1>2. FInv /\ KInv /\ [Next]_vars /\ [Sealing => OthersStartNothing]_vars => KInv'
  BY SharedStep
<1> QED BY <1>1, <1>2, SharedInit, FallbackInit, FallbackStep, PTL DEF Spec, QuietSealing, SealedComplete

-----------------------------------------------------------------------------
(* The server alone on its file. *)

\* Every recording process is the server, in every deployment.
ServerAlone == \A d \in Deployment : \A e \in DOMAIN d.owner : d.owner[e] = Server

\* Then nobody else starts a line, while the file is sealed or at any other time.
LEMMA AloneIsQuiet == ASSUME ServerAlone PROVE Spec => QuietSealing
<1>1. ASSUME FInv PROVE OthersStartNothing
  <2>1. SUFFICES ASSUME NEW e \in Event, AppendPending(e) PROVE Owner[e] = Server
    BY DEF OthersStartNothing
  <2>2. e \in DOMAIN Owner /\ deployment \in Deployment
    BY <1>1, <2>1 DEF FInv, Types, CallInv, AppendPending
  <2> QED BY <2>2 DEF ServerAlone, Owner
<1>2. FInv => [Sealing => OthersStartNothing]_vars
  BY <1>1
<1> QED BY <1>2, FallbackInit, FallbackStep, PTL DEF Spec, QuietSealing

\* An event whose record() returned FallbackSucceeded is in audit_events, or still in
\* the file where every reader that can parse it finds it pending: when the server
\* alone records on the file, neither the rollover nor a crash nor a torn line loses it.
THEOREM FallbackIsKept == ASSUME ServerAlone PROVE Spec => []KeptUntilDelivered
BY AloneIsQuiet, KeptUnlessDisturbed, PTL

\* Lines leave the file only as a whole, into an archive that holds all of them, and
\* only when each of their events has been delivered.
THEOREM SealedIsComplete == ASSUME ServerAlone PROVE Spec => SealedComplete
BY AloneIsQuiet, SealedUnlessDisturbed, PTL
=============================================================================
