------------------------ MODULE MonthlyDigestProofs -------------------------
(***************************************************************************)
(* Proofs about MonthlyDigest, for any calendar, length of the ledger,     *)
(* number of failures, restarts and commands of an operator: what the      *)
(* scheduler counts as done is in the ledger, a digest that it signs has   *)
(* both verifications before it and tells what the ledger has, and what    *)
(* the archive holds is a digest of the ledger.                            *)
(*                                                                         *)
(* The ledger only grows, so what it vouches for stays.  The invariant     *)
(* says what the scheduler's pass has established when it stands at a job, *)
(* and what a generate_monthly_digest under way has.                       *)
(***************************************************************************)
EXTENDS MonthlyDigest, TLAPS, FiniteSetTheorems, WellFoundedInduction

DigestRow == [period : Nat, start : Nat, end : Nat, count : Nat, at : Nat,
              signed : {"nothing", "canonical", "entry"}]
RowType == {"other", "incident", "monthly_digest", "archive_exported", "scheduler_job_completed"}
Row == [type : RowType, month : Nat, period : Nat, job : Jobs \cup {"none"}, ok : BOOLEAN,
        digest : DigestRow]
LateRow == [entry : Row, head : Nat]
JobRow == [stage : Stages, name : Jobs \cup {"none"}, at : Nat, blocked : BOOLEAN,
           failed : SUBSET Jobs, ok : BOOLEAN, digest : DigestRow]
GenRow == [stage : GenStages, period : Nat, at : Nat, digest : DigestRow]

\* The types of the ledger and of the clock; the entry of a digest names its period.
RowOk(x) == x.type = "monthly_digest" => x.period = x.digest.period
Store ==
    /\ now \in Nat
    /\ ledger \in Seq(Row) /\ \A i \in 1..Len(ledger) : RowOk(ledger[i])
    /\ late \subseteq LateRow
    /\ \A r \in late : RowOk(r.entry)
    /\ completed \subseteq Jobs \X Nat

\* The ledger says that the job succeeded for the month, that both verifications
\* did, and that d is a digest of it.
Succeeded(name, m) ==
    \E k \in 1..Len(ledger) : /\ ledger[k].type = "scheduler_job_completed"
                              /\ ledger[k].job = name /\ ledger[k].ok /\ ledger[k].period = m
BothVerified(m) == Succeeded("hash_verify", m) /\ Succeeded("signature_verify", m)
Vouched(d) ==
    \E i \in 1..Len(ledger) : /\ ledger[i].type = "monthly_digest" /\ ledger[i].period = d.period
                              /\ Canonical(ledger[i].digest) = Canonical(d)

\* What the pass j of run_due_jobs has established where it stands.
Holding(j) == \/ j.stage \in {"put", "writing", "check", "exported"}
              \/ j.name = "archive" /\ j.stage = "job" /\ ~j.blocked
              \/ j.name = "digest" /\ j.stage = "record" /\ j.ok
JobOk(j) ==
    /\ j \in JobRow /\ j.at <= now
    /\ j.name = "signature_verify" /\ j.failed = {} =>
          Succeeded("hash_verify", previous_month_period(j.at))
    /\ j.name = "digest" /\ ~j.blocked => BothVerified(previous_month_period(j.at))
    /\ j.stage \in {"generating", "adopt", "refetch"} => j.name = "digest" /\ ~j.blocked
    /\ j.stage \in {"put", "writing", "check", "exported", "incident"} => j.name = "archive"
    /\ j.stage \notin {"idle"} => j.name \in Jobs
    /\ Holding(j) => Vouched(j.digest)

\* What a generate_monthly_digest has.
GenOk(g) ==
    /\ g \in GenRow
    /\ g.stage \in {"append", "done"} => g.digest.period = g.period /\ TellsLedger(g.digest)
    /\ g.stage = "done" => Vouched(g.digest)

\* The scheduler waits for its own.
Waits == gen["server"].stage # "idle" =>
            /\ job.stage = "generating"
            /\ gen["server"].period = previous_month_period(job.at)

\* Both processes have what they should.
GenInv == gen \in [Processes -> GenRow] /\ \A p \in Processes : GenOk(gen[p])

\* The whole objects of the archive are digests of the ledger.
ArchiveInv ==
    /\ archive \in [Month -> [content : {"absent", "whole", "torn"}, digest : DigestRow]]
    /\ \A m \in Month : archive[m].content = "whole" =>
                           archive[m].digest.period = m /\ Vouched(archive[m].digest)

DInv == Store /\ JobOk(job) /\ Waits /\ GenInv /\ ArchiveInv /\ CompletedIsRecorded

-----------------------------------------------------------------------------
(* The calendar. *)

\* Whole months fit into the time.
LEMMA DivBounds ==
    ASSUME NEW t \in Nat, NEW k \in Nat \ {0}
    PROVE  t \div k \in Nat /\ k * (t \div k) <= t /\ t < k * (t \div k) + k
OBVIOUS

\* Later times are in later months or the same.
LEMMA DivMonotone ==
    ASSUME NEW a \in Nat, NEW b \in Nat, a <= b, NEW k \in Nat \ {0} PROVE a \div k <= b \div k
<1>1. ASSUME NEW q \in Nat, NEW r \in Nat, k * q <= a, b < k * r + k PROVE q <= r
  <2> SUFFICES ASSUME q >= r + 1 PROVE FALSE
    OBVIOUS
  <2>1. k * q >= k * (r + 1)
    OBVIOUS
  <2>2. k * (r + 1) = k * r + k
    OBVIOUS
  <2> QED BY <1>1, <2>1, <2>2
<1> QED BY <1>1, DivBounds

\* Months, periods and quarters are numbers, and time does not run backwards.
LEMMA Calendar ==
    ASSUME NEW t \in Nat
    PROVE  /\ MonthOf(t) \in Nat /\ previous_month_period(t) \in Nat /\ quarter_period_key(t) \in Nat
           /\ \A u \in Nat : t <= u => quarter_period_key(t) <= MonthOf(u) \div 3
<1> DEFINE k == HoursOfDay + 1
<1>1. k \in Nat \ {0} /\ FirstMonth \in Nat \ {0}
  BY CalendarAssumption
<1>2. \A u \in Nat : u \div k \in Nat /\ (t <= u => t \div k <= u \div k)
  <2> HIDE DEF k
  <2> QED BY <1>1, DivBounds, DivMonotone
<1>3. \A u \in Nat : MonthOf(u) = FirstMonth + (u \div k)
  BY DEF MonthOf
<1>4. \A u \in Nat : MonthOf(u) \in Nat \ {0} /\ (t <= u => MonthOf(t) <= MonthOf(u))
  <2> HIDE DEF k
  <2> QED BY <1>1, <1>2, <1>3
<1>5. \A m, n \in Nat : m \div 3 \in Nat /\ (m <= n => m \div 3 <= n \div 3)
  OBVIOUS
<1> QED BY <1>4, <1>5 DEF previous_month_period, quarter_period_key

-----------------------------------------------------------------------------
(* The ledger only grows. *)

Grows == /\ now' \in Nat /\ now <= now'
         /\ UNCHANGED ledger \/ \E x \in Row : ledger' = Append(ledger, x)

\* Positions keep their entries.
LEMMA RowsStay ==
    ASSUME Store, Grows
    PROVE  /\ Len(ledger) \in Nat /\ Len(ledger') \in Nat /\ Len(ledger) <= Len(ledger')
           /\ \A i \in 1..Len(ledger) : i \in 1..Len(ledger') /\ ledger'[i] = ledger[i]
BY DEF Store, Grows

\* What the ledger says, it says for good.
LEMMA SaidStays ==
    ASSUME Store, Grows
    PROVE  /\ \A name, m : Succeeded(name, m) => Succeeded(name, m)'
           /\ \A m : BothVerified(m) => BothVerified(m)'
           /\ \A d : Vouched(d) => Vouched(d)'
BY RowsStay DEF Succeeded, BothVerified, Vouched

\* What a digest tells of the ledger stays true: entries are added behind its end.
LEMMA TellsStays ==
    ASSUME Store, Grows, NEW d \in DigestRow, TellsLedger(d) PROVE TellsLedger(d)'
<1>1. d.end \in Nat /\ d.start \in Nat /\ d.end \in 1..Len(ledger) /\ d.start \in 1..d.end
  BY DEF DigestRow, TellsLedger
<1>2. \A k \in 1..d.end : k \in 1..Len(ledger) /\ k \in 1..Len(ledger') /\ ledger'[k] = ledger[k]
  BY <1>1, RowsStay
<1>3. d.end \in 1..Len(ledger') /\ d.start \in 1..d.end /\ d.end \in 1..d.end
  BY <1>1, <1>2
<1>4. \A k \in 1..(d.start - 1) : k \in 1..d.end
  BY <1>1
<1>5. {k \in 1..d.end : ledger'[k].month = d.period} = {k \in 1..d.end : ledger[k].month = d.period}
  BY <1>2
<1> QED BY <1>1, <1>2, <1>3, <1>4, <1>5 DEF TellsLedger

\* So a pass and a generation keep what they have established.
LEMMA EstablishedStays ==
    ASSUME Store, Grows
    PROVE  /\ \A j : JobOk(j) => JobOk(j)'
           /\ \A g : GenOk(g) => GenOk(g)'
<1>1. ASSUME NEW j, JobOk(j) PROVE JobOk(j)'
  <2>1. j.at <= now'
    BY <1>1 DEF JobOk, JobRow, Store, Grows
  <2> QED BY <1>1, <2>1, SaidStays DEF JobOk
<1>2. ASSUME NEW g, GenOk(g) PROVE GenOk(g)'
  <2>1. g.digest \in DigestRow
    BY <1>2 DEF GenOk, GenRow
  <2> QED BY <1>2, <2>1, SaidStays, TellsStays DEF GenOk
<1> QED BY <1>1, <1>2

\* What a step leaves alone stays as it was.
LEMMA LeftAlone ==
    ASSUME DInv, Grows
    PROVE  /\ UNCHANGED job => JobOk(job)'
           /\ UNCHANGED <<job, gen>> => Waits'
           /\ UNCHANGED gen => GenInv'
           /\ UNCHANGED archive => ArchiveInv'
           /\ completed' \subseteq completed => CompletedIsRecorded'
           /\ UNCHANGED <<now, ledger, late, completed>> => Store'
<1>0. Store /\ JobOk(job) /\ Waits /\ GenInv /\ ArchiveInv /\ CompletedIsRecorded
  BY DEF DInv
<1>1. UNCHANGED job => JobOk(job)'
  BY <1>0, EstablishedStays DEF JobOk
<1>2. UNCHANGED <<job, gen>> => Waits'
  BY <1>0 DEF Waits
<1>3. UNCHANGED gen => GenInv'
  BY <1>0, EstablishedStays DEF GenInv
<1>4. UNCHANGED archive => ArchiveInv'
  BY <1>0, SaidStays DEF ArchiveInv
<1>5. completed' \subseteq completed => CompletedIsRecorded'
  BY <1>0, RowsStay DEF CompletedIsRecorded
<1>6. UNCHANGED <<now, ledger, late, completed>> => Store'
  BY <1>0 DEF Store
<1> QED BY <1>1, <1>2, <1>3, <1>4, <1>5, <1>6

\* What an append does to ledger and late requests.
Wrote(x) ==
    /\ \/ UNCHANGED ledger
       \/ ledger' = Append(ledger, x)
    /\ \/ UNCHANGED late
       \/ late' = late \cup {[entry |-> x, head |-> Len(ledger)]} /\ "late" \in scenario.faults

\* Every end of an append is one of these.
LEMMA CallWrote ==
    ASSUME NEW x, NEW acked \in BOOLEAN, AppendCall(x, acked)
    PROVE  Wrote(x) /\ (acked => ledger' = Append(ledger, x))
BY DEF AppendCall, Wrote, Fault, store

\* An append of an entry of its type keeps the ledger well formed.
LEMMA WroteKept ==
    ASSUME Store, NEW x \in Row, RowOk(x), Wrote(x), UNCHANGED now
    PROVE  /\ Grows
           /\ completed' \subseteq Jobs \X Nat => Store'
<1>1. Len(ledger) \in Nat /\ now \in Nat
  BY DEF Store
<1>2. Grows
  BY <1>1 DEF Grows, Wrote
<1>3. ledger' \in Seq(Row) /\ \A i \in 1..Len(ledger') : RowOk(ledger'[i])
  <2>1. CASE UNCHANGED ledger
    BY <2>1 DEF Store
  <2>2. CASE ledger' = Append(ledger, x)
    <3>1. /\ ledger' \in Seq(Row) /\ Len(ledger') = Len(ledger) + 1
          /\ ledger'[Len(ledger) + 1] = x
          /\ \A i \in 1..Len(ledger) : ledger'[i] = ledger[i]
      BY <2>2 DEF Store
    <3>2. \A i \in 1..Len(ledger') : i \in 1..Len(ledger) \/ i = Len(ledger) + 1
      BY <1>1, <3>1
    <3>3. \A i \in 1..Len(ledger) : RowOk(ledger'[i])
      BY <3>1 DEF Store
    <3>4. RowOk(ledger'[Len(ledger) + 1])
      BY <3>1
    <3> QED BY <3>1, <3>2, <3>3, <3>4
  <2> QED BY <2>1, <2>2 DEF Wrote
<1>4. late' \subseteq LateRow /\ \A r \in late' : RowOk(r.entry)
  <2> DEFINE r == [entry |-> x, head |-> Len(ledger)]
  <2>1. r \in LateRow /\ r.entry = x
    BY <1>1 DEF LateRow
  <2>2. \A s \in late' : s \in late \/ s = r
    BY DEF Wrote
  <2> HIDE DEF r
  <2> QED BY <2>1, <2>2 DEF Store
<1> QED BY <1>1, <1>2, <1>3, <1>4 DEF Store

-----------------------------------------------------------------------------
(* The entries. *)

Plain(x) == x \in Row /\ RowOk(x) /\ x.type # "monthly_digest"

\* The canonical form of a digest is a digest, of the same period.
LEMMA CanonicalType ==
    ASSUME NEW d \in DigestRow
    PROVE  /\ Canonical(d) \in DigestRow /\ Canonical(d).period = d.period
           /\ NoDigest \in DigestRow
BY DEF Canonical, DigestRow, NoDigest

\* The entries have their types and say what they are for.
LEMMA EntryTypes ==
    ASSUME now \in Nat
    PROVE  /\ Plain(OtherEntry) /\ Plain(IncidentEntry)
           /\ \A d \in DigestRow :
                 /\ Plain(ExportedEntry(d))
                 /\ DigestEntry(d) \in Row /\ RowOk(DigestEntry(d)) /\ DigestEntry(d).digest = d
                 /\ DigestEntry(d).type = "monthly_digest" /\ DigestEntry(d).period = d.period
<1>1. MonthOf(now) \in Nat /\ NoDigest \in DigestRow
  BY Calendar DEF NoDigest, DigestRow
<1>2. ASSUME NEW type \in RowType, NEW m \in Nat, NEW d \in DigestRow
      PROVE  LET x == Entry(type, m, "none", TRUE, d) IN
             x \in Row /\ x.type = type /\ x.period = m /\ x.digest = d
  <2> DEFINE month == MonthOf(now)
             x == [type |-> type, month |-> month, period |-> m, job |-> "none", ok |-> TRUE,
                   digest |-> d]
  <2>1. Entry(type, m, "none", TRUE, d) = x
    BY DEF Entry
  <2>2. month \in Nat
    BY <1>1
  <2> HIDE DEF month
  <2>3. x \in Row /\ x.type = type /\ x.period = m /\ x.digest = d
    BY <2>2 DEF Row
  <2> QED BY <2>1, <2>3
<1>3. Plain(OtherEntry) /\ Plain(IncidentEntry)
  BY <1>1, <1>2 DEF OtherEntry, IncidentEntry, Plain, RowOk, RowType
<1>4. ASSUME NEW d \in DigestRow
      PROVE  /\ Plain(ExportedEntry(d))
             /\ DigestEntry(d) \in Row /\ RowOk(DigestEntry(d)) /\ DigestEntry(d).digest = d
             /\ DigestEntry(d).type = "monthly_digest" /\ DigestEntry(d).period = d.period
  <2>1. d.period \in Nat /\ Canonical(d) \in DigestRow
    BY CanonicalType DEF DigestRow
  <2>2. Plain(ExportedEntry(d))
    <3>1. "archive_exported" \in RowType /\ "archive_exported" # "monthly_digest"
      BY DEF RowType
    <3> QED BY <1>2, <2>1, <3>1 DEF ExportedEntry, Plain, RowOk
  <2>3. "monthly_digest" \in RowType
    BY DEF RowType
  <2>4. /\ DigestEntry(d) \in Row /\ DigestEntry(d).digest = d
        /\ DigestEntry(d).type = "monthly_digest" /\ DigestEntry(d).period = d.period
    <3> DEFINE month == MonthOf(now)
               x == [type |-> "monthly_digest", month |-> month, period |-> d.period,
                     job |-> "none", ok |-> TRUE, digest |-> d]
    <3>1. DigestEntry(d) = x
      BY DEF DigestEntry, Entry
    <3>2. month \in Nat
      BY <1>1
    <3> HIDE DEF month
    <3>3. x \in Row /\ x.type = "monthly_digest" /\ x.period = d.period /\ x.digest = d
      BY <2>1, <2>3, <3>2 DEF Row
    <3> HIDE DEF x
    <3> QED BY <3>1, <3>3
  <2>5. RowOk(DigestEntry(d))
    BY <2>4 DEF RowOk
  <2> QED BY <2>2, <2>4, <2>5
<1> QED BY <1>3, <1>4

\* The result of a job has its period, or at least its month.
LEMMA JobEntryType ==
    ASSUME now \in Nat, NEW name \in Jobs, NEW t \in Nat, t <= now, NEW ok \in BOOLEAN
    PROVE  LET x == JobEntry(name, t, ok) IN
           /\ Plain(x) /\ x.type = "scheduler_job_completed" /\ x.job = name /\ x.ok = ok
           /\ name \in MonthlyJobs => x.period = previous_month_period(t)
           /\ x.month \div 3 >= quarter_period_key(t)
<1> DEFINE month == MonthOf(now)
           m == IF name \in MonthlyJobs THEN previous_month_period(t) ELSE 0
           x == [type |-> "scheduler_job_completed", month |-> month, period |-> m, job |-> name,
                 ok |-> ok, digest |-> NoDigest]
<1>1. month \in Nat /\ m \in Nat /\ quarter_period_key(t) <= month \div 3
  <2>1. previous_month_period(t) \in Nat /\ \A u \in Nat : t <= u => quarter_period_key(t) <= MonthOf(u) \div 3
    BY Calendar
  <2>2. MonthOf(now) \in Nat
    BY Calendar
  <2> QED BY <2>1, <2>2
<1>2. name \in MonthlyJobs => m = previous_month_period(t)
  OBVIOUS
<1>3. JobEntry(name, t, ok) = x
  BY DEF JobEntry, Entry
<1>4. quarter_period_key(t) \in Nat /\ month \div 3 \in Nat
  <2>1. quarter_period_key(t) \in Nat
    BY Calendar
  <2>2. month \div 3 \in Nat
    <3> HIDE DEF month
    <3> QED BY <1>1
  <2> QED BY <2>1, <2>2
<1> HIDE DEF month, m
<1>5. x \in Row /\ x.type = "scheduler_job_completed" /\ x.job = name /\ x.ok = ok /\ x.period = m
      /\ x.month = month
  BY <1>1 DEF Row, RowType, NoDigest, DigestRow
<1> HIDE DEF x
<1>6. Plain(x)
  BY <1>5 DEF Plain, RowOk
<1> QED BY <1>1, <1>2, <1>3, <1>4, <1>5, <1>6

\* A pass that has not begun, and a generation that has not, claim nothing.
LEMMA IdleOk ==
    /\ Idle \in JobRow /\ NoGen \in GenRow
    /\ now \in Nat => JobOk(Idle)
    /\ GenOk(NoGen)
<1>1. NoDigest \in DigestRow
  BY DEF NoDigest, DigestRow
<1>2. Idle \in JobRow /\ NoGen \in GenRow
  BY <1>1 DEF Idle, NoGen, JobRow, GenRow, Stages, GenStages
<1>3. now \in Nat => JobOk(Idle)
  BY <1>2 DEF JobOk, Idle, Holding
<1>4. GenOk(NoGen)
  BY <1>2 DEF GenOk, NoGen
<1> QED BY <1>2, <1>3, <1>4

\* The ledger starts with entries of other operations.
LEMMA FirstEntries ==
    ASSUME Init
    PROVE  ledger \in Seq(Row) /\ \A i \in 1..Len(ledger) : ledger[i].type = "other"
<1> DEFINE k == FirstMonth - 1
           x == [OtherEntry EXCEPT !.month = k]
<1>1. now \in Nat /\ scenario.entries \in Nat /\ ledger = [i \in 1..scenario.entries |-> x]
  BY ScenarioAssumption DEF Init
<1>2. OtherEntry \in Row /\ OtherEntry.type = "other"
  BY <1>1, EntryTypes DEF Plain, OtherEntry, Entry
<1>3. k \in Nat
  BY CalendarAssumption
<1> HIDE DEF k
<1>4. x \in Row /\ x.type = "other"
  BY <1>2, <1>3 DEF Row
<1> HIDE DEF x
<1>5. PICK n \in Nat : n = scenario.entries
  BY <1>1
<1>6. ledger = [i \in 1..n |-> x]
  BY <1>1, <1>5
<1>7. ledger \in Seq(Row) /\ Len(ledger) = n
  BY <1>4, <1>6
<1> QED BY <1>4, <1>6, <1>7

\* The invariant holds at the start.
LEMMA DigestInit == Init => DInv
<1> SUFFICES ASSUME Init PROVE DInv
  OBVIOUS
<1>1. Store
  <2>1. now \in Nat /\ late = {} /\ completed = {}
    BY DEF Init
  <2> QED BY <2>1, FirstEntries DEF Store, RowOk
<1>2. JobOk(job) /\ Waits /\ GenInv
  <2>1. job = Idle /\ now \in Nat /\ gen = [p \in Processes |-> NoGen]
    BY DEF Init
  <2>2. JobOk(Idle) /\ GenOk(NoGen) /\ NoGen.stage = "idle" /\ NoGen \in GenRow
    BY <2>1, IdleOk DEF NoGen
  <2> QED BY <2>1, <2>2 DEF Waits, GenInv, Processes
<1>3. ArchiveInv
  BY DEF Init, ArchiveInv, NoObject, NoDigest, DigestRow
<1>4. CompletedIsRecorded
  BY DEF Init, CompletedIsRecorded
<1> QED BY <1>1, <1>2, <1>3, <1>4 DEF DInv

-----------------------------------------------------------------------------
(* The pass of the scheduler. *)

\* The order of the jobs.
LEMMA JobOrder ==
    ASSUME NEW name \in Jobs
    PROVE  LET next == FollowingJob[name] IN
           /\ next \in Jobs \cup {"none"}
           /\ next # "hash_verify"
           /\ next = "signature_verify" => name = "hash_verify"
           /\ next = "digest" => name = "signature_verify"
           /\ next = "archive" <=> name = "digest"
<1>1. name \in {"hash_verify", "signature_verify", "digest", "archive", "restore_test",
                "signature_key_review", "auditor_review"}
  BY DEF Jobs, MonthlyJobs, QuarterlyJobs
<1> QED BY <1>1 DEF FollowingJob, Jobs, MonthlyJobs, QuarterlyJobs

\* The next job finds what the ones before it have established.  (o is the pass as it
\* stands before the step.)
LEMMA AfterJobOk ==
    ASSUME Store, Grows, NEW o, o = job, JobOk(o), o.stage # "idle", NEW ok \in BOOLEAN,
           NEW j, j = AfterJob(ok),
           ok /\ o.name \in {"hash_verify", "signature_verify"} =>
              Succeeded(o.name, previous_month_period(o.at))',
           ok /\ o.name = "digest" /\ ~o.blocked => Vouched(o.digest)'
    PROVE  JobOk(j)'
<1> DEFINE failed == IF ok THEN o.failed ELSE o.failed \cup {o.name}
           blocked == \/ o.blocked
                      \/ o.name = "signature_verify" /\ failed # {}
                      \/ o.name = "digest" /\ ~ok
           next == FollowingJob[o.name]
           r == [o EXCEPT !.stage = "job", !.name = next, !.failed = failed, !.blocked = blocked]
<1>0. o \in JobRow /\ o.name \in Jobs /\ o.at <= now'
  BY DEF JobOk, Store, Grows, JobRow
<1>1. j = Idle \/ (j = r /\ next # "none")
  BY DEF AfterJob
<1>2. CASE j = Idle
  <2>1. now' \in Nat /\ Idle \in JobRow
    BY IdleOk DEF Grows
  <2> QED BY <1>2, <2>1 DEF JobOk, Idle, Holding
<1>3. CASE j = r /\ next # "none"
  <2>1. /\ next \in Jobs /\ failed \in SUBSET Jobs /\ blocked \in BOOLEAN
    BY <1>0, <1>3, JobOrder DEF JobRow
  <2>2. next = "signature_verify" /\ failed = {} => Succeeded("hash_verify", previous_month_period(o.at))'
    BY <1>0, JobOrder
  <2>3. next = "digest" /\ ~blocked => BothVerified(previous_month_period(o.at))'
    <3> SUFFICES ASSUME next = "digest", ~blocked PROVE BothVerified(previous_month_period(o.at))'
      OBVIOUS
    <3>1. o.name = "signature_verify" /\ ok /\ o.failed = {}
      BY <1>0, JobOrder
    <3>2. Succeeded("signature_verify", previous_month_period(o.at))'
      BY <3>1
    <3>3. Succeeded("hash_verify", previous_month_period(o.at))
      BY <3>1 DEF JobOk
    <3>4. Succeeded("hash_verify", previous_month_period(o.at))'
      BY <3>3, SaidStays
    <3> QED BY <3>2, <3>4 DEF BothVerified
  <2>4. next = "archive" /\ ~blocked => Vouched(o.digest)'
    BY <1>0, JobOrder
  <2> HIDE DEF next, failed, blocked
  <2>5. /\ r \in JobRow /\ r.stage = "job" /\ r.name = next /\ r.at = o.at
        /\ r.digest = o.digest /\ r.failed = failed
    BY <1>0, <2>1 DEF JobRow, Stages
  <2>6. r.blocked = blocked
    BY <1>0, <2>1 DEF JobRow
  <2> HIDE DEF r
  <2>7. Holding(r) => next = "archive" /\ ~blocked
    BY <2>5, <2>6 DEF Holding
  <2>8. JobOk(r)'
    BY <1>0, <2>1, <2>2, <2>3, <2>4, <2>5, <2>6, <2>7 DEF JobOk
  <2> QED BY <1>3, <2>8
<1> QED BY <1>1, <1>2, <1>3

-----------------------------------------------------------------------------
(* The steps beside the scheduler. *)

\* An incident is recorded, or is not.
LEMMA IncidentWrote == ASSUME RecordIncident PROVE Wrote(IncidentEntry)
<1>1. CASE UNCHANGED <<store, faults>>
  BY <1>1 DEF Wrote, store
<1>2. ASSUME NEW acked \in BOOLEAN, AppendCall(IncidentEntry, acked) PROVE Wrote(IncidentEntry)
  BY <1>2, CallWrote
<1> QED BY <1>1, <1>2 DEF RecordIncident

\* A digest of the month is a digest row.
LEMMA FoundDigest ==
    ASSUME Store, NEW m, NEW i \in DigestsOf(m)
    PROVE  LET d == FromMaterials(i) IN d \in DigestRow /\ d.period = m /\ Vouched(d)
<1> DEFINE c == ledger[i].digest
           d == [c EXCEPT !.signed = "entry"]
<1>1. /\ i \in 1..Len(ledger) /\ ledger[i] \in Row /\ RowOk(ledger[i])
      /\ ledger[i].type = "monthly_digest" /\ ledger[i].period = m
  BY DEF DigestsOf, Store
<1>2. c \in DigestRow /\ c.period = m
  BY <1>1 DEF Row, RowOk
<1>3. d \in DigestRow /\ d.period = m /\ Canonical(d) = Canonical(c)
  <2> HIDE DEF c
  <2> QED BY <1>2 DEF DigestRow, Canonical
<1>4. Vouched(d)
  <2> HIDE DEF d
  <2> QED BY <1>1, <1>3 DEF Vouched
<1> QED BY <1>3, <1>4 DEF FromMaterials

\* Clock, other operations, late requests and restarts keep the invariant.
LEMMA EnvironmentKept == ASSUME DInv, Environment PROVE DInv' /\ Grows
<1>0. Store
  BY DEF DInv
<1>1. CASE Tick
  <2>1. Grows
    BY <1>0, <1>1 DEF Tick, Grows, Store, store
  <2>2. Store'
    BY <1>0, <1>1, <2>1 DEF Tick, Store, store, Grows
  <2> QED BY <1>1, <2>1, <2>2, LeftAlone DEF DInv, Tick
<1>2. CASE AppendOther
  <2>1. /\ ledger' = Append(ledger, OtherEntry)
        /\ UNCHANGED <<now, late, archive, completed, job, gen, verdict, bounds>>
    BY <1>2 DEF AppendOther
  <2>2. OtherEntry \in Row /\ RowOk(OtherEntry) /\ Wrote(OtherEntry)
    BY <1>0, <2>1, EntryTypes DEF Plain, Wrote, Store
  <2>3. Grows /\ Store'
    BY <1>0, <2>1, <2>2, WroteKept DEF Store
  <2> QED BY <2>1, <2>3, LeftAlone DEF DInv
<1>3. CASE DeliverLate
  <2>1. PICK r \in late :
           /\ late' = late \ {r}
           /\ ledger' = IF r.head = Len(ledger) THEN Append(ledger, r.entry) ELSE ledger
           /\ UNCHANGED <<now, archive, completed, job, gen, verdict, bounds>>
    BY <1>3 DEF DeliverLate
  <2>2. r.entry \in Row /\ RowOk(r.entry)
    BY <1>0 DEF Store, LateRow
  <2>3. /\ ledger' \in Seq(Row) /\ \A i \in 1..Len(ledger') : RowOk(ledger'[i])
        /\ Grows
    <3>1. CASE ledger' = ledger
      BY <1>0, <2>1, <3>1 DEF Store, Grows
    <3>2. CASE ledger' = Append(ledger, r.entry)
      <4> DEFINE x == r.entry
      <4> HIDE DEF x
      <4>1. /\ ledger' \in Seq(Row) /\ Len(ledger') = Len(ledger) + 1
            /\ ledger'[Len(ledger) + 1] = x /\ Len(ledger) \in Nat
            /\ \A i \in 1..Len(ledger) : ledger'[i] = ledger[i]
        BY <1>0, <2>2, <3>2 DEF Store, x
      <4>2. \A i \in 1..Len(ledger') : i \in 1..Len(ledger) \/ i = Len(ledger) + 1
        BY <4>1
      <4>3. \A i \in 1..Len(ledger) : RowOk(ledger'[i])
        BY <1>0, <4>1 DEF Store
      <4>4. RowOk(ledger'[Len(ledger) + 1])
        BY <2>2, <4>1 DEF x
      <4>5. Grows
        BY <1>0, <2>1, <2>2, <3>2 DEF Grows, Store
      <4> QED BY <4>1, <4>2, <4>3, <4>4, <4>5
    <3> QED BY <2>1, <3>1, <3>2
  <2>4. Store'
    BY <1>0, <2>1, <2>3 DEF Store
  <2> QED BY <2>1, <2>3, <2>4, LeftAlone DEF DInv
<1>4. CASE Crash
  <2>1. /\ UNCHANGED <<now, ledger, late>> /\ completed' = {} /\ job' = Idle
        /\ gen' = [gen EXCEPT !["server"] = NoGen]
    BY <1>4 DEF Crash, store
  <2>2. Grows /\ Store'
    BY <1>0, <2>1 DEF Store, Grows
  <2>3. JobOk(job)'
    <3>1. JobOk(Idle)'
      BY <1>0, <2>1, IdleOk, EstablishedStays, <2>2 DEF Store
    <3> QED BY <2>1, <3>1 DEF JobOk
  <2>4. GenInv' /\ Waits'
    <3>1. gen \in [Processes -> GenRow] /\ "server" \in Processes
      BY DEF DInv, GenInv, Processes
    <3>2. NoGen \in GenRow /\ GenOk(NoGen)' /\ NoGen.stage = "idle"
      BY <1>0, <2>2, IdleOk, EstablishedStays DEF NoGen
    <3>3. \A p \in Processes : GenOk(gen[p])'
      BY <1>0, <2>1, <2>2, <3>1, <3>2, EstablishedStays DEF DInv, GenInv
    <3> QED BY <2>1, <3>1, <3>2, <3>3 DEF GenInv, Waits
  <2>5. ArchiveInv'
    BY <1>4, <2>2, LeftAlone DEF Crash
  <2>6. CompletedIsRecorded'
    BY <2>1 DEF CompletedIsRecorded
  <2> QED BY <2>2, <2>3, <2>4, <2>5, <2>6 DEF DInv
<1> QED BY <1>1, <1>2, <1>3, <1>4 DEF Environment

-----------------------------------------------------------------------------
(* generate_monthly_digest *)

\* A set of positions that is not empty has a first one and a last one.
LEMMA EndsBound ==
    ASSUME NEW n \in Nat, NEW S, S \subseteq 1..n, S # {}
    PROVE  /\ FirstOf(S) \in S /\ LastOf(S) \in S
           /\ \A k \in S : FirstOf(S) <= k /\ k <= LastOf(S)
<1> DEFINE R == OpToRel(<, Nat)
<1>0. IsWellFoundedOn(R, Nat)
  BY NatLessThanWellFounded DEF R
<1>1. \E i \in S : \A k \in S : i <= k
  <2>1. S \subseteq Nat
    OBVIOUS
  <2>2. \E x \in S : \A y \in S : ~(<<y, x>> \in R)
    <3> HIDE DEF R
    <3> QED BY <1>0, <2>1, WFMin
  <2>3. PICK x \in S : \A y \in S : ~(y < x)
    BY <2>1, <2>2 DEF OpToRel
  <2>4. \A y \in S : x <= y
    BY <2>1, <2>3
  <2> QED BY <2>4
<1>2. \E i \in S : \A k \in S : k <= i
  <2> DEFINE T == {k \in 0..n : n - k \in S}
  <2>1. T \subseteq Nat
    OBVIOUS
  <2>2. T # {}
    <3>1. PICK i \in S : TRUE
      OBVIOUS
    <3>2. i \in 1..n /\ n - i \in 0..n /\ n - (n - i) = i
      BY <3>1
    <3>3. n - i \in T
      BY <3>1, <3>2
    <3> QED BY <3>3
  <2>3. \E x \in T : \A y \in T : ~(<<y, x>> \in R)
    <3> HIDE DEF T, R
    <3> QED BY <1>0, <2>1, <2>2, WFMin
  <2>4. PICK x \in T : \A y \in T : ~(y < x)
    BY <2>1, <2>3 DEF OpToRel
  <2>5. ASSUME NEW j \in S PROVE j <= n - x
    <3>1. j \in 1..n /\ n - j \in 0..n /\ n - (n - j) = j
      BY <2>5
    <3>2. n - j \in T
      BY <2>5, <3>1
    <3>3. ~(n - j < x) /\ x \in 0..n
      BY <2>4, <3>2
    <3> QED BY <3>1, <3>3
  <2> QED BY <2>4, <2>5
<1> QED BY <1>1, <1>2 DEF FirstOf, LastOf

\* The digest of a month with entries is one of that month, and tells what the ledger has.
LEMMA RangeType ==
    ASSUME Store, NEW m \in Nat, NEW t \in Nat, EntriesOf(m) # {}
    PROVE  /\ RangeDigest(m, t) \in DigestRow /\ RangeDigest(m, t).period = m
           /\ TellsLedger(RangeDigest(m, t))
<1> DEFINE S == EntriesOf(m)
           a == FirstOf(S)
           b == LastOf(S)
           c == Cardinality(S)
<1>1. Len(ledger) \in Nat /\ S \subseteq 1..Len(ledger) /\ S # {}
  BY DEF Store, EntriesOf
<1>2. a \in S /\ b \in S /\ \A k \in S : a <= k /\ k <= b
  <2> HIDE DEF S
  <2> QED BY <1>1, EndsBound
<1>3. c \in Nat
  <2>1. IsFiniteSet(1..Len(ledger))
    BY <1>1, FS_Interval
  <2>2. IsFiniteSet(S)
    BY <1>1, <2>1, FS_Subset
  <2> QED BY <2>2, FS_CardinalityType
<1>4. a \in Nat /\ b \in Nat /\ a \in 1..b /\ b \in 1..Len(ledger)
  <2> HIDE DEF S, a, b
  <2> QED BY <1>1, <1>2
<1>5. RangeDigest(m, t) = [period |-> m, start |-> a, end |-> b, count |-> c, at |-> t,
                           signed |-> "canonical"]
  BY DEF RangeDigest
<1>6. ledger[a].month = m /\ ledger[b].month = m
  BY <1>2 DEF EntriesOf
<1>7. \A k \in 1..(a - 1) : ledger[k].month # m
  <2> SUFFICES ASSUME NEW k \in 1..(a - 1), ledger[k].month = m PROVE FALSE
    OBVIOUS
  <2>1. k \in 1..Len(ledger) /\ k < a
    <3> HIDE DEF a, b
    <3> QED BY <1>1, <1>4
  <2>2. a <= k
    BY <1>2, <2>1 DEF EntriesOf
  <2> HIDE DEF a
  <2> QED BY <1>4, <2>1, <2>2
<1>8. S = {k \in 1..b : ledger[k].month = m}
  <2>1. S \subseteq {k \in 1..b : ledger[k].month = m}
    <3> SUFFICES ASSUME NEW k \in S PROVE k \in 1..b /\ ledger[k].month = m
      OBVIOUS
    <3>1. k <= b /\ k \in 1..Len(ledger) /\ ledger[k].month = m
      BY <1>2 DEF EntriesOf
    <3> HIDE DEF S, a, b
    <3> QED BY <1>4, <3>1
  <2>2. {k \in 1..b : ledger[k].month = m} \subseteq S
    <3> SUFFICES ASSUME NEW k \in 1..b, ledger[k].month = m PROVE k \in S
      OBVIOUS
    <3>1. k \in 1..Len(ledger)
      <4> HIDE DEF S, a, b
      <4> QED BY <1>1, <1>4
    <3> QED BY <3>1 DEF EntriesOf
  <2> QED BY <2>1, <2>2
<1>9. c = Cardinality({k \in 1..b : ledger[k].month = m})
  BY <1>8
<1> HIDE DEF S, a, b, c
<1> QED BY <1>3, <1>4, <1>5, <1>6, <1>7, <1>9 DEF DigestRow, TellsLedger

\* A step of one generation leaves the rest as it was.
LEMMA GenStepKept ==
    ASSUME DInv, Grows, Store', NEW p \in Processes, NEW g, gen' = [gen EXCEPT ![p] = g], GenOk(g)',
           p = "cli" \/ (gen[p].stage # "idle" /\ g.period = gen[p].period),
           UNCHANGED <<archive, completed, job>>
    PROVE  DInv'
<1>0. gen \in [Processes -> GenRow] /\ \A q \in Processes : GenOk(gen[q])
  BY DEF DInv, GenInv
<1>1. GenInv'
  <2>1. g \in GenRow
    BY DEF GenOk
  <2>2. \A q \in Processes : GenOk(gen[q])'
    BY <1>0, EstablishedStays DEF DInv
  <2> QED BY <1>0, <2>1, <2>2 DEF GenInv
<1>2. Waits'
  BY <1>0 DEF DInv, Waits, Processes
<1> QED BY <1>1, <1>2, LeftAlone DEF DInv

\* The three steps of a generation keep the invariant.
LEMMA GenerateKept ==
    ASSUME DInv, NEW p \in Processes, Generate(p) PROVE DInv' /\ Grows
<1> DEFINE g == gen[p]
<1>0. /\ Store /\ GenOk(g) /\ g \in GenRow /\ gen \in [Processes -> GenRow]
  BY DEF DInv, GenInv
<1>1. CASE CheckDuplicate(p)
  <2>1. /\ UNCHANGED <<now, ledger, late, archive, completed, job>> /\ g.stage = "check"
        /\ \E s \in {"failed", "duplicate", "range"} : gen' = [gen EXCEPT ![p].stage = s]
    <3>1. PICK answered \in BOOLEAN :
             gen' = [gen EXCEPT ![p].stage = CASE ~answered -> "failed"
                         [] answered /\ DigestsOf(gen[p].period) # {} -> "duplicate"
                         [] OTHER -> "range"]
      BY <1>1 DEF CheckDuplicate
    <3> DEFINE s == CASE ~answered -> "failed"
                     [] answered /\ DigestsOf(gen[p].period) # {} -> "duplicate"
                     [] OTHER -> "range"
    <3>2. s \in {"failed", "duplicate", "range"}
      OBVIOUS
    <3>3. gen' = [gen EXCEPT ![p].stage = s]
      BY <3>1
    <3> HIDE DEF s
    <3> QED BY <1>1, <3>2, <3>3 DEF CheckDuplicate, store
  <2>2. Grows
    BY <1>0, <2>1 DEF Grows, Store
  <2>3. PICK s \in {"failed", "duplicate", "range"} : gen' = [gen EXCEPT ![p].stage = s]
    BY <2>1
  <2>4. PICK h : h = [g EXCEPT !.stage = s]
    OBVIOUS
  <2>5. h \in GenRow /\ h.stage = s /\ h.period = g.period
    BY <1>0, <2>3, <2>4 DEF GenRow, GenStages
  <2>6. gen' = [gen EXCEPT ![p] = h] /\ GenOk(h)'
    BY <1>0, <2>3, <2>4, <2>5 DEF GenOk
  <2> QED BY <2>1, <2>2, <2>5, <2>6, GenStepKept, LeftAlone
<1>2. CASE FetchRange(p)
  <2>1. UNCHANGED <<now, ledger, late, archive, completed, job>> /\ g.stage = "range"
    BY <1>2 DEF FetchRange, store
  <2>2. Grows
    BY <1>0, <2>1 DEF Grows, Store
  <2>3. CASE gen' = [gen EXCEPT ![p].stage = "failed"]
    <3>1. PICK h : h = [g EXCEPT !.stage = "failed"]
      OBVIOUS
    <3>2. h \in GenRow /\ h.stage = "failed" /\ h.period = g.period
      BY <1>0, <3>1 DEF GenRow, GenStages
    <3>3. gen' = [gen EXCEPT ![p] = h] /\ GenOk(h)'
      BY <1>0, <2>3, <3>1, <3>2 DEF GenOk
    <3> QED BY <2>1, <2>2, <3>2, <3>3, GenStepKept, LeftAlone
  <2>4. CASE ~(gen' = [gen EXCEPT ![p].stage = "failed"])
    <3>1. /\ EntriesOf(g.period) # {}
          /\ gen' = [gen EXCEPT ![p].stage = "append", ![p].digest = RangeDigest(g.period, g.at)]
      BY <1>2, <2>4 DEF FetchRange
    <3>2. PICK d : d = RangeDigest(g.period, g.at)
      OBVIOUS
    <3>3. d \in DigestRow /\ d.period = g.period /\ TellsLedger(d)'
      <4>1. d \in DigestRow /\ d.period = g.period /\ TellsLedger(d)
        BY <1>0, <3>1, <3>2, RangeType DEF GenRow
      <4> QED BY <1>0, <2>2, <4>1, TellsStays
    <3>4. PICK h : h = [g EXCEPT !.stage = "append", !.digest = d]
      OBVIOUS
    <3>5. h \in GenRow /\ h.stage = "append" /\ h.period = g.period /\ h.digest = d
      BY <1>0, <3>3, <3>4 DEF GenRow, GenStages
    <3>6. gen' = [gen EXCEPT ![p] = h]
      BY <1>0, <3>1, <3>2, <3>4
    <3>7. GenOk(h)'
      BY <3>3, <3>5 DEF GenOk
    <3> QED BY <2>1, <2>2, <3>5, <3>6, <3>7, GenStepKept, LeftAlone
  <2> QED BY <2>3, <2>4
<1>3. CASE AppendDigest(p)
  <2>1. PICK acked \in BOOLEAN :
           /\ AppendCall(DigestEntry(g.digest), acked)
           /\ gen' = [gen EXCEPT ![p].stage = IF acked THEN "done" ELSE "failed"]
    BY <1>3 DEF AppendDigest
  <2>2. UNCHANGED <<now, archive, completed, job>> /\ g.stage = "append"
    BY <1>3 DEF AppendDigest
  <2>3. PICK d \in DigestRow : d = g.digest
    BY <1>0 DEF GenRow
  <2>4. PICK x : x = DigestEntry(d)
    OBVIOUS
  <2>5. x \in Row /\ RowOk(x) /\ x.digest = d /\ x.type = "monthly_digest" /\ x.period = d.period
    BY <1>0, <2>4, EntryTypes DEF Store
  <2>6. Wrote(x) /\ (acked => ledger' = Append(ledger, x))
    BY <2>1, <2>3, <2>4, CallWrote
  <2>7. Grows /\ Store'
    BY <1>0, <2>2, <2>5, <2>6, WroteKept DEF Store
  <2>8. PICK s \in {"done", "failed"} : s = IF acked THEN "done" ELSE "failed"
    OBVIOUS
  <2>9. PICK h : h = [g EXCEPT !.stage = s]
    OBVIOUS
  <2>10. h \in GenRow /\ h.stage = s /\ h.period = g.period /\ h.digest = d
    BY <1>0, <2>3, <2>8, <2>9 DEF GenRow, GenStages
  <2>11. gen' = [gen EXCEPT ![p] = h]
    BY <1>0, <2>1, <2>8, <2>9
  <2>12. acked => Vouched(d)'
    <3> SUFFICES ASSUME acked PROVE Vouched(d)'
      OBVIOUS
    <3>1. ledger' = Append(ledger, x) /\ Len(ledger) \in Nat /\ ledger \in Seq(Row)
      BY <1>0, <2>6 DEF Store
    <3>2. Len(ledger) + 1 \in 1..Len(ledger') /\ ledger'[Len(ledger) + 1] = x
      BY <2>5, <3>1
    <3> QED BY <2>5, <3>2 DEF Vouched
  <2>13. GenOk(h)'
    <3>1. TellsLedger(d)'
      BY <1>0, <2>2, <2>3, <2>7, TellsStays DEF GenOk
    <3> QED BY <1>0, <2>2, <2>3, <2>8, <2>10, <2>12, <3>1 DEF GenOk
  <2> QED BY <2>2, <2>7, <2>10, <2>11, <2>13, GenStepKept
<1> QED BY <1>1, <1>2, <1>3 DEF Generate

\* The commands of an operator keep the invariant.
LEMMA CliKept == ASSUME DInv, scenario \in Scenario, Cli PROVE DInv' /\ Grows
<1>0. Store /\ gen \in [Processes -> GenRow] /\ "cli" \in Processes
  BY DEF DInv, GenInv, Processes
<1>1. CASE CliGenerate
  <2>1. PICK m \in scenario.generate :
           gen' = [gen EXCEPT !["cli"] = [NoGen EXCEPT !.stage = "check", !.period = m, !.at = now]]
    BY <1>1 DEF CliGenerate
  <2>2. UNCHANGED <<now, ledger, late, archive, completed, job>>
    BY <1>1 DEF CliGenerate, store
  <2>3. m \in Nat /\ now \in Nat
    BY <1>0, ScenarioAssumption DEF Store
  <2>4. Grows
    BY <1>0, <2>2 DEF Grows, Store
  <2>5. PICK h : h = [NoGen EXCEPT !.stage = "check", !.period = m, !.at = now]
    OBVIOUS
  <2>6. h \in GenRow /\ h.stage = "check"
    BY <2>3, <2>5, IdleOk DEF GenRow, GenStages
  <2>7. GenOk(h)'
    BY <2>6 DEF GenOk
  <2> QED BY <1>0, <2>1, <2>2, <2>4, <2>5, <2>7, GenStepKept, LeftAlone
<1>2. CASE Generate("cli")
  BY <1>0, <1>2, GenerateKept
<1>3. CASE CliVerify
  <2>1. UNCHANGED <<now, archive, completed, job, gen>>
    BY <1>3 DEF CliVerify
  <2>2. Wrote(IncidentEntry)
    BY <1>3, IncidentWrote DEF CliVerify, Wrote, store
  <2>3. IncidentEntry \in Row /\ RowOk(IncidentEntry)
    BY <1>0, EntryTypes DEF Store, Plain
  <2>4. Grows /\ Store'
    BY <1>0, <2>1, <2>2, <2>3, WroteKept DEF Store
  <2> QED BY <2>1, <2>4, LeftAlone DEF DInv
<1> QED BY <1>1, <1>2, <1>3 DEF Cli

-----------------------------------------------------------------------------
(* The steps of the scheduler. *)

\* A step of the pass leaves the rest as it was.
LEMMA JobStepKept ==
    ASSUME DInv, Grows, Store', NEW j, job' = j, JobOk(j)', job.stage # "generating",
           UNCHANGED gen, UNCHANGED archive \/ ArchiveInv',
           completed' \subseteq completed \/ CompletedIsRecorded'
    PROVE  DInv'
<1>1. JobOk(job)'
  BY DEF JobOk
<1>2. Waits'
  BY DEF DInv, Waits
<1> QED BY <1>1, <1>2, LeftAlone DEF DInv

\* The pass that turns to another stage of its job has what it needs there, as long
\* as a digest that it holds is vouched for.
LEMMA TurnedOk ==
    ASSUME Store, Grows, JobOk(job), NEW o, o = job, o.stage # "idle",
           NEW s \in Stages \ {"idle"}, NEW ok \in BOOLEAN, NEW d \in DigestRow,
           NEW j, j = [o EXCEPT !.stage = s, !.ok = ok, !.digest = d],
           s \in {"generating", "adopt", "refetch"} => o.name = "digest" /\ ~o.blocked,
           s \in {"put", "writing", "check", "exported", "incident"} => o.name = "archive",
           Holding(j) => Vouched(d)'
    PROVE  JobOk(j)'
<1>0. o \in JobRow /\ o.at <= now' /\ o.name \in Jobs
  BY DEF JobOk, Store, Grows, JobRow
<1>1. /\ j \in JobRow /\ j.stage = s /\ j.name = o.name /\ j.at = o.at
      /\ j.failed = o.failed /\ j.digest = d
      /\ j.blocked = o.blocked
  BY <1>0 DEF JobRow
<1>2. o.name = "signature_verify" /\ o.failed = {} =>
         Succeeded("hash_verify", previous_month_period(o.at))'
  BY SaidStays DEF JobOk
<1>3. o.name = "digest" /\ ~o.blocked => BothVerified(previous_month_period(o.at))'
  BY SaidStays DEF JobOk
<1> QED BY <1>0, <1>1, <1>2, <1>3 DEF JobOk

\* Fields that a step does not name are as they were.
LEMMA SameFields ==
    ASSUME NEW o \in JobRow, NEW s, NEW b, NEW d
    PROVE  /\ [o EXCEPT !.stage = s] = [o EXCEPT !.stage = s, !.ok = o.ok, !.digest = o.digest]
           /\ [o EXCEPT !.stage = s, !.ok = b] =
              [o EXCEPT !.stage = s, !.ok = b, !.digest = o.digest]
           /\ o.ok \in BOOLEAN /\ o.digest \in DigestRow
BY DEF JobRow

\* Every step of the scheduler keeps the invariant.
LEMMA SchedulerKept == ASSUME DInv, Scheduler PROVE DInv' /\ Grows
<1> DEFINE P == previous_month_period(job.at)
<1>0. /\ Store /\ JobOk(job) /\ job \in JobRow /\ job.digest \in DigestRow
      /\ GenInv /\ Waits /\ ArchiveInv /\ CompletedIsRecorded
      /\ job.blocked \in BOOLEAN /\ job.ok \in BOOLEAN /\ now \in Nat
      /\ job.stage # "idle" => job.name \in Jobs
  BY DEF DInv, JobOk, JobRow, Store
<1>q. UNCHANGED <<now, ledger, late, completed>> => Grows /\ Store'
  BY <1>0, LeftAlone DEF Grows, Store
<1>t. ASSUME NEW s \in Stages \ {"idle"}, NEW b \in BOOLEAN, NEW d \in DigestRow, Grows, Store',
             job.stage \notin {"idle", "generating"},
             job' = [job EXCEPT !.stage = s, !.ok = b, !.digest = d],
             s # "generating",
             s \in {"adopt", "refetch"} => job.name = "digest" /\ ~job.blocked,
             s \in {"put", "writing", "check", "exported", "incident"} => job.name = "archive",
             Vouched(d) \/ (s \in {"adopt", "refetch", "incident", "mismatch", "report"})
                \/ (s = "record" /\ (job.name # "digest" \/ ~b)),
             UNCHANGED gen, UNCHANGED archive \/ ArchiveInv', completed' = completed
      PROVE  DInv'
  <2>1. PICK o : o = job
    OBVIOUS
  <2>2. PICK j : j = [o EXCEPT !.stage = s, !.ok = b, !.digest = d]
    OBVIOUS
  <2>3. j.stage = s /\ j.name = o.name /\ (j.ok <=> b)
    BY <1>0, <2>1, <2>2 DEF JobRow
  <2>4. Holding(j) => Vouched(d)'
    BY <1>0, <1>t, <2>1, <2>3, SaidStays DEF Holding
  <2>5. JobOk(j)'
    BY <1>0, <1>t, <2>1, <2>2, <2>4, TurnedOk
  <2> QED BY <1>t, <2>1, <2>2, <2>5, JobStepKept
<1>1. CASE Poll
  <2>1. PICK name \in {"hash_verify", "restore_test"} :
           job' = [Idle EXCEPT !.stage = "job", !.at = now, !.name = name]
    BY <1>1 DEF Poll
  <2>2. UNCHANGED <<now, ledger, late, completed, archive, gen>> /\ job.stage = "idle"
    BY <1>1 DEF Poll, store
  <2>3. PICK j : j = job'
    OBVIOUS
  <2>4. j \in JobRow /\ j.stage = "job" /\ j.at = now /\ j.name = name /\ name \in Jobs
    BY <1>0, <2>1, <2>3, IdleOk DEF JobRow, Stages, Jobs, MonthlyJobs, QuarterlyJobs
  <2>5. JobOk(j)'
    BY <1>0, <2>2, <2>4 DEF JobOk, Holding
  <2> QED BY <1>q, <2>2, <2>3, <2>5, JobStepKept
<1>2. CASE SkipCompleted
  <2>1. /\ UNCHANGED <<now, ledger, late, completed, archive, gen>> /\ job.stage = "job"
        /\ JobKey(job.name, job.at) \in completed
    BY <1>2 DEF SkipCompleted, store
  <2>2. CASE job.name = "digest" /\ ~job.blocked
    <3>1. job' = [job EXCEPT !.stage = "refetch"]
      BY <1>2, <2>2 DEF SkipCompleted
    <3>2. job' = [job EXCEPT !.stage = "refetch", !.ok = job.ok, !.digest = job.digest]
      BY <1>0, <3>1, SameFields
    <3> QED BY <1>0, <1>q, <1>t, <2>1, <2>2, <3>2 DEF Stages
  <2>3. CASE ~(job.name = "digest" /\ ~job.blocked)
    <3>1. job' = AfterJob(TRUE)
      BY <1>2, <2>3 DEF SkipCompleted
    <3>2. PICK o : o = job
      OBVIOUS
    <3>3. PICK j : j = job'
      OBVIOUS
    <3>4. o.name \in {"hash_verify", "signature_verify"} =>
             Succeeded(o.name, previous_month_period(o.at))
      <4> SUFFICES ASSUME o.name \in {"hash_verify", "signature_verify"}
                   PROVE  Succeeded(o.name, previous_month_period(o.at))
        OBVIOUS
      <4>1. o.name \in MonthlyJobs
        BY DEF MonthlyJobs
      <4>2. JobKey(o.name, o.at)[1] = o.name /\ JobKey(o.name, o.at)[2] = previous_month_period(o.at)
        BY <4>1 DEF JobKey
      <4> QED BY <1>0, <2>1, <3>2, <4>1, <4>2 DEF CompletedIsRecorded, Succeeded
    <3>5. Grows /\ Store'
      BY <1>q, <2>1
    <3>6. o.name \in {"hash_verify", "signature_verify"} =>
             Succeeded(o.name, previous_month_period(o.at))'
      BY <1>0, <3>4, <3>5, SaidStays
    <3>7. JobOk(j)'
      BY <1>0, <2>1, <2>3, <3>1, <3>2, <3>3, <3>5, <3>6, AfterJobOk
    <3> QED BY <2>1, <3>3, <3>5, <3>7, JobStepKept
  <2> QED BY <2>2, <2>3
<1>3. CASE RecordBlocked
  <2>1. /\ UNCHANGED <<now, ledger, late, completed, archive, gen>> /\ job.stage = "job"
        /\ job' = [job EXCEPT !.stage = "record", !.ok = FALSE]
    BY <1>3 DEF RecordBlocked, Due, store
  <2>2. job' = [job EXCEPT !.stage = "record", !.ok = FALSE, !.digest = job.digest]
    BY <1>0, <2>1, SameFields
  <2> QED BY <1>0, <1>q, <1>t, <2>1, <2>2 DEF Stages
<1>4. CASE CheckingJob
  <2>1. PICK s \in {"mismatch", "record"}, ok \in BOOLEAN :
           job' = [job EXCEPT !.stage = s, !.ok = ok]
    <3>1. HeadMismatch \in BOOLEAN
      BY DEF HeadMismatch
    <3> QED BY <1>4, <3>1 DEF CheckingJob
  <2>2. /\ UNCHANGED <<now, ledger, late, completed, archive, gen>> /\ job.stage = "job"
        /\ job.name # "digest"
    BY <1>4 DEF CheckingJob, Due, store
  <2>3. job' = [job EXCEPT !.stage = s, !.ok = ok, !.digest = job.digest]
    BY <1>0, <2>1, SameFields
  <2> QED BY <1>0, <1>q, <1>t, <2>2, <2>3 DEF Stages
<1>5. CASE StartDigest
  <2>1. /\ UNCHANGED <<now, ledger, late, completed, archive>> /\ job.stage = "job"
        /\ job.name = "digest" /\ ~job.blocked
        /\ job' = [job EXCEPT !.stage = "generating"]
        /\ gen' = [gen EXCEPT !["server"] =
                      [NoGen EXCEPT !.stage = "check", !.period = P, !.at = now]]
    BY <1>5 DEF StartDigest, Due, store
  <2>2. Grows /\ Store'
    BY <1>q, <2>1
  <2>3. PICK o : o = job
    OBVIOUS
  <2>4. PICK j : j = [o EXCEPT !.stage = "generating"]
    OBVIOUS
  <2>5. j = [o EXCEPT !.stage = "generating", !.ok = o.ok, !.digest = o.digest]
    BY <1>0, <2>3, <2>4, SameFields
  <2>6. j.stage = "generating" /\ j.at = o.at
    BY <1>0, <2>3, <2>4 DEF JobRow
  <2>7. JobOk(j)'
    BY <1>0, <2>1, <2>2, <2>3, <2>5, <2>6, TurnedOk DEF Holding, Stages
  <2>8. PICK g : g = [NoGen EXCEPT !.stage = "check", !.period = P, !.at = now]
    OBVIOUS
  <2>9. P \in Nat
    BY <1>0, Calendar DEF JobRow
  <2> HIDE DEF P
  <2>10. g \in GenRow /\ g.stage = "check" /\ g.period = P
    BY <1>0, <2>8, <2>9, IdleOk DEF GenRow, GenStages
  <2>11. GenOk(g)'
    BY <2>10 DEF GenOk
  <2>12. gen \in [Processes -> GenRow] /\ "server" \in Processes
    BY <1>0 DEF GenInv, Processes
  <2>13. GenInv'
    <3>1. \A q \in Processes : GenOk(gen[q])'
      BY <1>0, <2>1, <2>2, <2>8, <2>11, <2>12, EstablishedStays DEF GenInv
    <3> QED BY <2>1, <2>8, <2>10, <2>12, <3>1 DEF GenInv
  <2>14. Waits'
    BY <2>1, <2>3, <2>4, <2>6, <2>8, <2>10, <2>12 DEF Waits, P
  <2>15. JobOk(job)'
    BY <2>1, <2>3, <2>4, <2>7 DEF JobOk
  <2> QED BY <2>1, <2>2, <2>13, <2>14, <2>15, LeftAlone DEF DInv
<1>6. CASE Generate("server")
  BY <1>6, GenerateKept DEF Processes
<1>7. CASE EndDigest
  <2> DEFINE g == gen["server"]
  <2>1. /\ UNCHANGED <<now, ledger, late, completed, archive>> /\ job.stage = "generating"
        /\ gen' = [gen EXCEPT !["server"] = NoGen]
    BY <1>7 DEF EndDigest, store
  <2>2. Grows /\ Store'
    BY <1>q, <2>1
  <2>3. gen \in [Processes -> GenRow] /\ "server" \in Processes /\ GenOk(g) /\ g \in GenRow
    BY <1>0 DEF GenInv, Processes
  <2>4. PICK s \in {"record", "adopt"}, b \in BOOLEAN, d \in DigestRow :
           /\ job' = [job EXCEPT !.stage = s, !.ok = b, !.digest = d]
           /\ s = "record" /\ b => Vouched(d)
    <3>1. CASE g.stage = "done"
      <4>1. job' = [job EXCEPT !.stage = "record", !.ok = TRUE, !.digest = g.digest]
        BY <1>7, <3>1 DEF EndDigest
      <4>2. g.digest \in DigestRow /\ Vouched(g.digest)
        BY <2>3, <3>1 DEF GenOk, GenRow
      <4> QED BY <4>1, <4>2
    <3>2. CASE g.stage = "duplicate"
      <4>1. job' = [job EXCEPT !.stage = "adopt"]
        BY <1>7, <3>2 DEF EndDigest
      <4>2. job' = [job EXCEPT !.stage = "adopt", !.ok = job.ok, !.digest = job.digest]
        BY <1>0, <4>1, SameFields
      <4> QED BY <1>0, <4>2
    <3>3. CASE g.stage = "failed"
      <4>1. job' = [job EXCEPT !.stage = "record", !.ok = FALSE]
        BY <1>7, <3>3 DEF EndDigest
      <4>2. job' = [job EXCEPT !.stage = "record", !.ok = FALSE, !.digest = job.digest]
        BY <1>0, <4>1, SameFields
      <4> QED BY <1>0, <4>2
    <3> QED BY <1>7, <3>1, <3>2, <3>3 DEF EndDigest
  <2>5. PICK o : o = job
    OBVIOUS
  <2>6. PICK j : j = [o EXCEPT !.stage = s, !.ok = b, !.digest = d]
    OBVIOUS
  <2>7. o.name = "digest" /\ ~o.blocked
    BY <1>0, <2>1, <2>5 DEF JobOk
  <2>8. j.stage = s /\ j.name = o.name /\ (j.ok <=> b)
    BY <1>0, <2>4, <2>5, <2>6 DEF JobRow
  <2>9. Holding(j) => Vouched(d)'
    BY <1>0, <2>2, <2>4, <2>7, <2>8, SaidStays DEF Holding
  <2>10. JobOk(j)'
    BY <1>0, <2>1, <2>2, <2>4, <2>5, <2>6, <2>7, <2>9, TurnedOk DEF Stages
  <2>11. JobOk(job)'
    BY <2>4, <2>5, <2>6, <2>10 DEF JobOk
  <2>12. NoGen \in GenRow /\ GenOk(NoGen)' /\ NoGen.stage = "idle"
    BY <1>0, <2>2, IdleOk, EstablishedStays DEF NoGen
  <2>13. GenInv' /\ Waits'
    <3>1. \A q \in Processes : GenOk(gen[q])'
      BY <1>0, <2>1, <2>2, <2>3, <2>12, EstablishedStays DEF GenInv
    <3> QED BY <2>1, <2>3, <2>12, <3>1 DEF GenInv, Waits
  <2> QED BY <2>1, <2>2, <2>11, <2>13, LeftAlone DEF DInv
<1>8. CASE AdoptDigest
  <2>1. /\ UNCHANGED <<now, ledger, late, completed, archive, gen>> /\ job.stage = "adopt"
    BY <1>8 DEF AdoptDigest, store
  <2>2. ASSUME NEW i \in DigestsOf(P),
               job' = [job EXCEPT !.stage = "record", !.ok = TRUE, !.digest = FromMaterials(i)]
        PROVE  DInv'
    <3>1. FromMaterials(i) \in DigestRow /\ Vouched(FromMaterials(i))
      BY <1>0, FoundDigest
    <3> QED BY <1>q, <1>t, <2>1, <2>2, <3>1 DEF Stages
  <2>3. ASSUME job' = [job EXCEPT !.stage = "record", !.ok = FALSE] PROVE DInv'
    <3>1. job' = [job EXCEPT !.stage = "record", !.ok = FALSE, !.digest = job.digest]
      BY <1>0, <2>3, SameFields
    <3> QED BY <1>0, <1>q, <1>t, <2>1, <3>1 DEF Stages
  <2> QED BY <1>8, <1>q, <2>1, <2>2, <2>3 DEF AdoptDigest
<1>9. CASE RefetchDigest
  <2>1. /\ UNCHANGED <<now, ledger, late, completed, archive, gen>> /\ job.stage = "refetch"
    BY <1>9 DEF RefetchDigest, store
  <2>2. Grows /\ Store' /\ job.name = "digest" /\ ~job.blocked
    BY <1>0, <1>q, <2>1 DEF JobOk
  <2>3. PICK o : o = job
    OBVIOUS
  <2>4. ASSUME NEW i \in DigestsOf(P), job' = [AfterJob(TRUE) EXCEPT !.digest = FromMaterials(i)]
        PROVE  DInv'
    <3>1. PICK d : d = FromMaterials(i)
      OBVIOUS
    <3>2. d \in DigestRow /\ Vouched(d)'
      BY <1>0, <2>2, <3>1, FoundDigest, SaidStays
    <3>3. AfterJob(TRUE) = [o EXCEPT !.stage = "job", !.name = "archive", !.failed = o.failed,
                                     !.blocked = FALSE]
      <4> DEFINE failed == IF TRUE THEN o.failed ELSE o.failed \cup {o.name}
                 blocked == \/ o.blocked
                            \/ o.name = "signature_verify" /\ failed # {}
                            \/ o.name = "digest" /\ ~TRUE
                 next == FollowingJob[o.name]
      <4>1. next = "archive" /\ failed = o.failed /\ (blocked <=> FALSE)
        BY <2>2, <2>3 DEF FollowingJob
      <4>2. next # "none" /\ next # "restore_test"
        BY <4>1
      <4>3. AfterJob(TRUE) = [o EXCEPT !.stage = "job", !.name = next, !.failed = failed,
                                       !.blocked = blocked]
        BY <2>3, <4>2 DEF AfterJob
      <4>4. blocked = FALSE
        BY <4>1
      <4> HIDE DEF next, failed, blocked
      <4> QED BY <4>1, <4>3, <4>4
    <3>4. PICK j : j = job'
      OBVIOUS
    <3>5. /\ j \in JobRow /\ j.stage = "job" /\ j.name = "archive" /\ j.at = o.at /\ j.digest = d
          /\ j.name \in Jobs
      <4>1. "archive" \in Jobs /\ "job" \in Stages /\ o \in JobRow
        BY <1>0, <2>3 DEF Stages, Jobs, MonthlyJobs
      <4>2. j = [[o EXCEPT !.stage = "job", !.name = "archive", !.failed = o.failed,
                           !.blocked = FALSE] EXCEPT !.digest = d]
        BY <2>4, <3>1, <3>3, <3>4
      <4> QED BY <3>2, <4>1, <4>2 DEF JobRow
    <3>6. j.at <= now'
      BY <1>0, <2>1, <2>3, <3>5 DEF JobOk
    <3>7. JobOk(j)'
      BY <3>2, <3>5, <3>6 DEF JobOk
    <3> QED BY <2>1, <2>2, <3>4, <3>7, JobStepKept
  <2>5. ASSUME job' = AfterJob(FALSE) PROVE DInv'
    <3>1. PICK j : j = job'
      OBVIOUS
    <3>2. JobOk(j)'
      BY <1>0, <2>1, <2>2, <2>3, <2>5, <3>1, AfterJobOk
    <3> QED BY <2>1, <2>2, <3>1, <3>2, JobStepKept
  <2> QED BY <1>9, <2>2, <2>4, <2>5 DEF RefetchDigest
<1>10. CASE StartExport
  <2>1. /\ UNCHANGED <<now, ledger, late, completed, archive, gen>> /\ job.stage = "job"
        /\ job' = [job EXCEPT !.stage = "put"] /\ job.name = "archive" /\ ~job.blocked
    BY <1>10 DEF StartExport, Due, store
  <2>2. job' = [job EXCEPT !.stage = "put", !.ok = job.ok, !.digest = job.digest]
    BY <1>0, <2>1, SameFields
  <2>3. Vouched(job.digest)
    BY <1>0, <2>1 DEF JobOk, Holding
  <2>4. Grows /\ Store'
    BY <1>q, <2>1
  <2>5. "put" \in Stages \ {"idle"}
    BY DEF Stages
  <2>6. completed' = completed /\ UNCHANGED gen /\ UNCHANGED archive /\ job.name = "archive"
        /\ job.stage \notin {"idle", "generating"}
    BY <2>1
  <2>7. PICK b \in BOOLEAN, d \in DigestRow :
           job' = [job EXCEPT !.stage = "put", !.ok = b, !.digest = d] /\ Vouched(d)
    BY <1>0, <2>2, <2>3
  <2>8. DInv'
    BY <1>t, <2>4, <2>5, <2>6, <2>7
  <2> QED BY <2>4, <2>8
<1>11. CASE PutObject \/ WriteObject
  <2>1. /\ UNCHANGED <<now, ledger, late, completed, gen>> /\ job.stage \in {"put", "writing"}
        /\ job.name = "archive" /\ Vouched(job.digest)
    BY <1>0, <1>11 DEF PutObject, WriteObject, store, JobOk, Holding
  <2>2. PICK s \in {"writing", "check", "incident"} : job' = [job EXCEPT !.stage = s]
    BY <1>11 DEF PutObject, WriteObject
  <2>3. job' = [job EXCEPT !.stage = s, !.ok = job.ok, !.digest = job.digest]
    BY <1>0, <2>2, SameFields
  <2>4. PICK x : /\ archive' = [archive EXCEPT ![job.digest.period] = x]
                 /\ x \in {Object(job.digest), TornObject, archive[job.digest.period]}
    <3>1. archive = [archive EXCEPT ![job.digest.period] = archive[job.digest.period]]
      BY <1>0 DEF ArchiveInv
    <3> QED BY <1>11, <3>1 DEF PutObject, WriteObject
  <2>5. Grows /\ Store'
    BY <1>q, <2>1
  <2>6. ArchiveInv'
    <3> DEFINE Objects == [content : {"absent", "whole", "torn"}, digest : DigestRow]
               k == job.digest.period
    <3>1. /\ Object(job.digest) \in Objects /\ Object(job.digest).digest = job.digest
          /\ TornObject \in Objects /\ TornObject.content = "torn"
      BY <1>0 DEF Object, TornObject, NoDigest, DigestRow
    <3>2. ASSUME NEW m \in Month, archive'[m].content = "whole"
          PROVE  archive'[m].digest.period = m /\ Vouched(archive'[m].digest)
      BY <1>0, <2>1, <2>4, <3>1, <3>2 DEF ArchiveInv
    <3>3. archive' \in [Month -> Objects]
      BY <1>0, <2>4, <3>1 DEF ArchiveInv
    <3>4. \A d : Vouched(d) => Vouched(d)'
      BY <1>0, <2>5, SaidStays
    <3> QED BY <3>2, <3>3, <3>4 DEF ArchiveInv
  <2> QED BY <1>0, <1>t, <2>1, <2>3, <2>5, <2>6 DEF Stages
<1>12. CASE VerifyObject
  <2>1. /\ UNCHANGED <<now, ledger, late, completed, archive, gen>> /\ job.stage = "check"
        /\ job.name = "archive" /\ Vouched(job.digest)
    BY <1>0, <1>12 DEF VerifyObject, store, JobOk, Holding
  <2>2. PICK s \in {"exported", "incident"} : job' = [job EXCEPT !.stage = s]
    BY <1>12 DEF VerifyObject
  <2>3. job' = [job EXCEPT !.stage = s, !.ok = job.ok, !.digest = job.digest]
    BY <1>0, <2>2, SameFields
  <2> QED BY <1>0, <1>q, <1>t, <2>1, <2>3 DEF Stages
<1>13. CASE AppendExported
  <2>1. /\ UNCHANGED <<now, completed, archive, gen>> /\ job.stage = "exported"
        /\ job.name = "archive" /\ Vouched(job.digest)
    BY <1>0, <1>13 DEF AppendExported, JobOk, Holding
  <2>2. PICK acked \in BOOLEAN :
           /\ AppendCall(ExportedEntry(job.digest), acked)
           /\ job' = IF acked THEN [job EXCEPT !.stage = "record", !.ok = TRUE]
                              ELSE [job EXCEPT !.stage = "incident"]
    BY <1>13 DEF AppendExported
  <2>3. PICK x : x = ExportedEntry(job.digest)
    OBVIOUS
  <2>4. x \in Row /\ RowOk(x)
    BY <1>0, <2>3, EntryTypes DEF Plain
  <2>5. Wrote(x)
    BY <2>2, <2>3, CallWrote
  <2>6. Grows /\ Store'
    BY <1>0, <2>1, <2>4, <2>5, WroteKept DEF Store
  <2>7. PICK s \in {"record", "incident"}, b \in BOOLEAN :
           job' = [job EXCEPT !.stage = s, !.ok = b, !.digest = job.digest]
    BY <1>0, <2>2, SameFields
  <2> QED BY <1>0, <1>t, <2>1, <2>6, <2>7 DEF Stages
<1>14. CASE ArchiveIncident
  <2>1. /\ UNCHANGED <<now, completed, archive, gen>> /\ job.stage = "incident"
        /\ job' = [job EXCEPT !.stage = "record", !.ok = FALSE] /\ RecordIncident
    BY <1>14 DEF ArchiveIncident
  <2>2. PICK x : x = IncidentEntry
    OBVIOUS
  <2>3. x \in Row /\ RowOk(x) /\ Wrote(x)
    BY <1>0, <2>1, <2>2, EntryTypes, IncidentWrote DEF Plain
  <2>4. Grows /\ Store'
    BY <1>0, <2>1, <2>3, WroteKept DEF Store
  <2>5. job' = [job EXCEPT !.stage = "record", !.ok = FALSE, !.digest = job.digest]
    BY <1>0, <2>1, SameFields
  <2> QED BY <1>0, <1>t, <2>1, <2>4, <2>5 DEF Stages
<1>15. CASE RecordJobResult
  <2>1. /\ UNCHANGED <<now, archive, gen>> /\ job.stage = "record"
    BY <1>15 DEF RecordJobResult
  <2>2. PICK recorded \in BOOLEAN :
          /\ AppendCall(JobEntry(job.name, job.at, job.ok), recorded)
          /\ completed' = completed \cup
                (IF job.ok /\ recorded THEN {JobKey(job.name, job.at)} ELSE {})
          /\ job' = AfterJob(job.ok /\ recorded)
    BY <1>15 DEF RecordJobResult
  <2>3. PICK o : o = job
    OBVIOUS
  <2>4. o.name \in Jobs /\ o.at \in Nat /\ o.at <= now /\ o.ok \in BOOLEAN /\ JobOk(o) /\ o.stage # "idle"
    BY <1>0, <2>1, <2>3 DEF JobOk, JobRow
  <2>5. PICK x : x = JobEntry(o.name, o.at, o.ok)
    OBVIOUS
  <2>6. /\ Plain(x) /\ x.type = "scheduler_job_completed" /\ x.job = o.name
        /\ x.ok = o.ok
        /\ o.name \in MonthlyJobs => x.period = previous_month_period(o.at)
        /\ x.month \div 3 >= quarter_period_key(o.at)
    BY <1>0, <2>4, <2>5, JobEntryType
  <2>7. Wrote(x) /\ (recorded => ledger' = Append(ledger, x))
    BY <2>2, <2>3, <2>5, CallWrote
  <2>8. PICK key : key = JobKey(o.name, o.at)
    OBVIOUS
  <2>9. /\ key[1] = o.name /\ key \in Jobs \X Nat
        /\ key[2] = IF o.name \in MonthlyJobs THEN previous_month_period(o.at) ELSE quarter_period_key(o.at)
    BY <2>4, <2>8, Calendar DEF JobKey
  <2>10. PICK ok \in BOOLEAN : ok = (o.ok /\ recorded)
    BY <2>4
  <2>11. completed' = completed \cup (IF ok THEN {key} ELSE {}) /\ job' = AfterJob(ok)
    BY <2>2, <2>3, <2>8, <2>10
  <2>12. Grows /\ Store'
    <3>1. completed' \subseteq Jobs \X Nat
      BY <1>0, <2>9, <2>11 DEF Store
    <3> QED BY <1>0, <2>1, <2>6, <2>7, <3>1, WroteKept DEF Plain
  <2>13. ok => /\ Len(ledger) + 1 \in 1..Len(ledger') /\ ledger'[Len(ledger) + 1] = x
               /\ x.ok
    <3>1. x \in Row /\ ledger \in Seq(Row)
      BY <1>0, <2>6 DEF Plain, Store
    <3>2. ok => ledger' = Append(ledger, x) /\ x.ok
      BY <2>6, <2>7, <2>10
    <3> QED BY <3>1, <3>2
  <2>14. CompletedIsRecorded'
    <3> SUFFICES ASSUME NEW z \in completed'
                 PROVE  \E i \in 1..Len(ledger') :
                           /\ ledger'[i].type = "scheduler_job_completed"
                           /\ ledger'[i].job = z[1] /\ ledger'[i].ok
                           /\ IF z[1] \in MonthlyJobs THEN ledger'[i].period = z[2]
                                                      ELSE ledger'[i].month \div 3 >= z[2]
      BY DEF CompletedIsRecorded
    <3>1. CASE z \in completed
      BY <1>0, <2>12, <3>1, RowsStay DEF CompletedIsRecorded
    <3>2. CASE z \notin completed
      <4>1. ok /\ z = key
        BY <2>11, <3>2
      <4> QED BY <2>6, <2>9, <2>13, <4>1
    <3> QED BY <3>1, <3>2
  <2>15. ok /\ o.name \in {"hash_verify", "signature_verify"} =>
            Succeeded(o.name, previous_month_period(o.at))'
    <3>1. o.name \in {"hash_verify", "signature_verify"} => o.name \in MonthlyJobs
      BY DEF MonthlyJobs
    <3> QED BY <2>6, <2>13, <3>1 DEF Succeeded
  <2>16. ok /\ o.name = "digest" => Vouched(o.digest)'
    <3>1. ok /\ o.name = "digest" => Vouched(o.digest)
      BY <2>1, <2>3, <2>4, <2>10 DEF JobOk, Holding
    <3> QED BY <1>0, <2>12, <3>1, SaidStays
  <2>17. PICK j : j = job'
    OBVIOUS
  <2>18. JobOk(j)'
    BY <1>0, <2>3, <2>4, <2>11, <2>12, <2>15, <2>16, <2>17, AfterJobOk
  <2> QED BY <2>1, <2>12, <2>14, <2>17, <2>18, JobStepKept
<1>16. CASE RecordMismatch
  <2>1. UNCHANGED <<now, archive, completed, gen>> /\ job.stage = "mismatch"
    BY <1>16 DEF RecordMismatch
  <2>2. PICK recorded \in BOOLEAN :
          /\ AppendCall(JobEntry(job.name, job.at, FALSE), recorded)
          /\ job' = IF recorded THEN [job EXCEPT !.stage = "report"] ELSE AfterJob(FALSE)
    BY <1>16 DEF RecordMismatch
  <2>3. PICK o : o = job
    OBVIOUS
  <2>4. o.name \in Jobs /\ o.at \in Nat /\ o.at <= now
    BY <1>0, <2>1, <2>3 DEF JobOk, JobRow
  <2>5. PICK x : x = JobEntry(o.name, o.at, FALSE)
    OBVIOUS
  <2>6. Plain(x) /\ Wrote(x)
    BY <1>0, <2>2, <2>3, <2>4, <2>5, JobEntryType, CallWrote
  <2>7. Grows /\ Store'
    BY <1>0, <2>1, <2>6, WroteKept DEF Store, Plain
  <2>8. CASE recorded
    <3>1. job' = [job EXCEPT !.stage = "report", !.ok = job.ok, !.digest = job.digest]
      BY <1>0, <2>2, <2>8, SameFields
    <3> QED BY <1>0, <1>t, <2>1, <2>7, <3>1 DEF Stages
  <2>9. CASE ~recorded
    <3>1. PICK j : j = job'
      OBVIOUS
    <3>2. JobOk(j)'
      BY <1>0, <2>1, <2>2, <2>3, <2>7, <2>9, <3>1, AfterJobOk
    <3> QED BY <2>1, <2>7, <3>1, <3>2, JobStepKept
  <2> QED BY <2>7, <2>8, <2>9
<1>17. CASE ReportMismatch
  <2>1. /\ UNCHANGED <<now, completed, archive, gen>> /\ job.stage = "report"
        /\ job' = AfterJob(FALSE) /\ RecordIncident
    BY <1>17 DEF ReportMismatch
  <2>2. PICK x : x = IncidentEntry
    OBVIOUS
  <2>3. x \in Row /\ RowOk(x) /\ Wrote(x)
    BY <1>0, <2>1, <2>2, EntryTypes, IncidentWrote DEF Plain
  <2>4. Grows /\ Store'
    BY <1>0, <2>1, <2>3, WroteKept DEF Store
  <2>5. PICK o : o = job
    OBVIOUS
  <2>6. PICK j : j = job'
    OBVIOUS
  <2>7. JobOk(j)'
    BY <1>0, <2>1, <2>4, <2>5, <2>6, AfterJobOk
  <2> QED BY <2>1, <2>4, <2>6, <2>7, JobStepKept
<1> QED BY <1>1, <1>2, <1>3, <1>4, <1>5, <1>6, <1>7, <1>8, <1>9, <1>10, <1>11, <1>12, <1>13,
           <1>14, <1>15, <1>16, <1>17, <1>q DEF Scheduler

-----------------------------------------------------------------------------
(* The invariant of the specification. *)

\* The scenario is one of the given ones, and the invariant holds.
SInv == DInv /\ scenario \in Scenario

\* What a step does to the generations and to the pass, whatever it is: nobody
\* ends the command line's generation, the server's passes the duplicate check only
\* if there is no digest of the month, and an export is announced only of an object
\* that was read back.
CliStays == gen'["cli"].stage = "idle" => gen["cli"].stage = "idle"
ChecksFirst ==
    gen'["server"].stage \in {"range", "append"} =>
        \/ /\ gen["server"].stage \in {"range", "append"}
           /\ gen'["server"].period = gen["server"].period
        \/ UNCHANGED ledger /\ DigestsOf(gen'["server"].period) = {}
ReadBack ==
    job'.stage = "exported" =>
        \/ UNCHANGED <<job, archive>>
        \/ archive'[job'.digest.period] = Object(job'.digest)
Moved == UNCHANGED scenario /\ CliStays /\ ChecksFirst /\ ReadBack

\* What a step does to the ledger: it appends an entry that is no digest, or a digest
\* that was generated, or an abandoned request arrives.
Added(x) == /\ Plain(x) /\ Wrote(x)
            /\ x.type = "archive_exported" => job.stage = "exported" /\ x = ExportedEntry(job.digest)
Written == \/ \E x : Added(x)
           \/ \E p \in Processes : AppendDigest(p)
           \/ DeliverLate

\* A step that leaves the generations alone.
LEMMA GenAlone == UNCHANGED gen => CliStays /\ ChecksFirst
BY DEF CliStays, ChecksFirst

\* A step that writes nothing.
LEMMA NothingAdded == ASSUME Store, UNCHANGED <<ledger, late>> PROVE Written
<1>1. Plain(OtherEntry) /\ OtherEntry.type # "archive_exported"
  <2>1. OtherEntry.type = "other"
    BY DEF OtherEntry, Entry
  <2> QED BY <2>1, EntryTypes DEF Store
<1>2. Added(OtherEntry)
  BY <1>1 DEF Added, Wrote
<1> QED BY <1>2 DEF Written

\* The next job is not an export that has already been checked.
LEMMA AfterJobStage ==
    ASSUME NEW o, o = job, o \in JobRow, NEW ok \in BOOLEAN, NEW a, a = AfterJob(ok)
    PROVE  a.stage \in {"job", "idle"} /\ \A d : [a EXCEPT !.digest = d].stage \in {"job", "idle"}
<1> DEFINE failed == IF ok THEN o.failed ELSE o.failed \cup {o.name}
           blocked == \/ o.blocked
                      \/ o.name = "signature_verify" /\ failed # {}
                      \/ o.name = "digest" /\ ~ok
           next == FollowingJob[o.name]
           r == [o EXCEPT !.stage = "job", !.name = next, !.failed = failed, !.blocked = blocked]
<1>1. a \in {Idle, r}
  BY DEF AfterJob
<1>2. Idle.stage = "idle" /\ \A d : [Idle EXCEPT !.digest = d].stage = "idle"
  BY DEF Idle
<1>3. r.stage = "job" /\ \A d : [r EXCEPT !.digest = d].stage = "job"
  <2> HIDE DEF next, failed, blocked
  <2> QED BY DEF JobRow
<1> HIDE DEF r
<1> QED BY <1>1, <1>2, <1>3

\* Every step moves and writes like that.
LEMMA StepMoves == ASSUME DInv, [Next]_vars PROVE Moved /\ Written
<1>0. /\ Store /\ job \in JobRow /\ gen \in [Processes -> GenRow]
  BY DEF DInv, JobOk, GenInv
<1>1. CASE UNCHANGED vars
  BY <1>0, <1>1, NothingAdded, GenAlone DEF vars, store, bounds, Moved, ReadBack
<1>2. ASSUME NEW p \in Processes, Generate(p) PROVE Moved /\ Written
  <2>1. UNCHANGED <<scenario, job, archive>> /\ ReadBack
    BY <1>2 DEF Generate, CheckDuplicate, FetchRange, AppendDigest, ReadBack
  <2>2. CASE CheckDuplicate(p)
    <3>1. PICK answered \in BOOLEAN :
             gen' = [gen EXCEPT ![p].stage = CASE ~answered -> "failed"
                         [] answered /\ DigestsOf(gen[p].period) # {} -> "duplicate"
                         [] OTHER -> "range"]
      BY <2>2 DEF CheckDuplicate
    <3>2. PICK s : s = CASE ~answered -> "failed"
                         [] answered /\ DigestsOf(gen[p].period) # {} -> "duplicate"
                         [] OTHER -> "range"
      OBVIOUS
    <3>3. s \in {"failed", "duplicate", "range"} /\ (s = "range" => DigestsOf(gen[p].period) = {})
      BY <3>2
    <3>4. gen' = [gen EXCEPT ![p].stage = s]
      BY <3>1, <3>2
    <3>5. /\ gen'[p].stage = s /\ gen'[p].period = gen[p].period
          /\ \A q \in Processes : q # p => gen'[q] = gen[q]
      BY <1>0, <3>4 DEF GenRow
    <3>6. gen[p].stage = "check" /\ UNCHANGED <<ledger, late>>
      BY <2>2 DEF CheckDuplicate, store
    <3>7. CliStays /\ ChecksFirst
      BY <3>3, <3>5, <3>6 DEF CliStays, ChecksFirst, Processes
    <3> QED BY <1>0, <2>1, <3>6, <3>7, NothingAdded DEF Moved
  <2>3. CASE FetchRange(p)
    <3>1. \/ gen' = [gen EXCEPT ![p].stage = "failed"]
          \/ gen' = [gen EXCEPT ![p].stage = "append",
                                ![p].digest = RangeDigest(gen[p].period, gen[p].at)]
      BY <2>3 DEF FetchRange
    <3>2. /\ gen'[p].stage \in {"append", "failed"} /\ gen'[p].period = gen[p].period
          /\ \A q \in Processes : q # p => gen'[q] = gen[q]
      <4>1. CASE gen' = [gen EXCEPT ![p].stage = "failed"]
        BY <1>0, <4>1 DEF GenRow
      <4>2. CASE gen' = [gen EXCEPT ![p].stage = "append",
                                    ![p].digest = RangeDigest(gen[p].period, gen[p].at)]
        BY <1>0, <4>2 DEF GenRow
      <4> QED BY <3>1, <4>1, <4>2
    <3>3. gen[p].stage = "range" /\ UNCHANGED <<ledger, late>>
      BY <2>3 DEF FetchRange, store
    <3>4. CliStays /\ ChecksFirst
      BY <3>2, <3>3 DEF CliStays, ChecksFirst, Processes
    <3> QED BY <1>0, <2>1, <3>3, <3>4, NothingAdded DEF Moved
  <2>4. CASE AppendDigest(p)
    <3>1. PICK s \in {"done", "failed"} : gen' = [gen EXCEPT ![p].stage = s]
      BY <2>4 DEF AppendDigest
    <3>2. /\ gen'[p].stage = s
          /\ \A q \in Processes : q # p => gen'[q] = gen[q]
      BY <1>0, <3>1 DEF GenRow
    <3>3. CliStays /\ ChecksFirst
      BY <3>1, <3>2 DEF CliStays, ChecksFirst, Processes
    <3> QED BY <2>1, <2>4, <3>3 DEF Moved, Written
  <2> QED BY <1>2, <2>2, <2>3, <2>4 DEF Generate
<1>3. CASE Cli
  <2>1. CASE CliGenerate
    <3>1. PICK g : gen' = [gen EXCEPT !["cli"] = g] /\ g.stage = "check"
      <4>1. \A m : [NoGen EXCEPT !.stage = "check", !.period = m, !.at = now].stage = "check"
        BY DEF NoGen
      <4>2. PICK m : gen' = [gen EXCEPT !["cli"] =
                                [NoGen EXCEPT !.stage = "check", !.period = m, !.at = now]]
        BY <2>1 DEF CliGenerate
      <4> QED BY <4>1, <4>2
    <3>2. UNCHANGED <<scenario, job, archive, ledger, late>>
      BY <2>1 DEF CliGenerate, store, bounds
    <3>3. CliStays /\ ChecksFirst
      BY <1>0, <3>1 DEF CliStays, ChecksFirst, Processes
    <3> QED BY <1>0, <3>2, <3>3, NothingAdded DEF Moved, ReadBack
  <2>2. CASE CliVerify
    <3>1. UNCHANGED <<scenario, job, archive, gen>>
      BY <2>2 DEF CliVerify
    <3>2. Wrote(IncidentEntry) /\ Plain(IncidentEntry) /\ IncidentEntry.type = "incident"
      <4>1. Wrote(IncidentEntry)
        BY <2>2, IncidentWrote DEF CliVerify, Wrote, store
      <4>2. IncidentEntry.type = "incident"
        BY DEF IncidentEntry, Entry
      <4> QED BY <1>0, <4>1, <4>2, EntryTypes DEF Store
    <3> QED BY <3>1, <3>2, GenAlone DEF Moved, ReadBack, Written, Added
  <2> QED BY <1>2, <1>3, <2>1, <2>2 DEF Cli, Processes
<1>4. CASE Environment
  <2>1. CASE Tick
    BY <1>0, <2>1, NothingAdded, GenAlone DEF Tick, store, bounds, Moved, ReadBack
  <2>2. CASE AppendOther
    <3>1. UNCHANGED <<scenario, job, archive, gen, late>> /\ ledger' = Append(ledger, OtherEntry)
      BY <2>2 DEF AppendOther, bounds
    <3>2. Plain(OtherEntry) /\ OtherEntry.type = "other"
      BY <1>0, EntryTypes DEF Store, OtherEntry, Entry
    <3> QED BY <3>1, <3>2, GenAlone DEF Moved, ReadBack, Written, Added, Wrote
  <2>3. CASE DeliverLate
    BY <2>3, GenAlone DEF DeliverLate, bounds, Moved, ReadBack, Written
  <2>4. CASE Crash
    <3>1. UNCHANGED <<scenario, ledger, late>> /\ job' = Idle /\ gen' = [gen EXCEPT !["server"] = NoGen]
      BY <2>4 DEF Crash, store
    <3>2. CliStays /\ ChecksFirst /\ ReadBack
      BY <1>0, <3>1 DEF CliStays, ChecksFirst, ReadBack, Processes, NoGen, Idle
    <3> QED BY <1>0, <3>1, <3>2, NothingAdded DEF Moved
  <2> QED BY <1>4, <2>1, <2>2, <2>3, <2>4 DEF Environment
<1>5. CASE Scheduler
  <2>1. CASE Poll
    <3>1. UNCHANGED <<scenario, archive, gen, ledger, late>> /\ job'.stage = "job"
      BY <2>1 DEF Poll, store, bounds, Idle
    <3> QED BY <1>0, <3>1, NothingAdded, GenAlone DEF Moved, ReadBack
  <2>2. CASE SkipCompleted
    <3>1. UNCHANGED <<scenario, archive, gen, ledger, late>>
      BY <2>2 DEF SkipCompleted, store, bounds
    <3>2. job'.stage # "exported"
      <4>1. CASE job' = [job EXCEPT !.stage = "refetch"]
        BY <1>0, <4>1 DEF JobRow
      <4>2. CASE job' = AfterJob(TRUE)
        BY <1>0, <4>2, AfterJobStage
      <4> QED BY <2>2, <4>1, <4>2 DEF SkipCompleted
    <3> QED BY <1>0, <3>1, <3>2, NothingAdded, GenAlone DEF Moved, ReadBack
  <2>3. CASE RecordBlocked \/ CheckingJob \/ StartExport
    <3>1. UNCHANGED <<scenario, archive, gen, ledger, late>>
      BY <2>3 DEF RecordBlocked, CheckingJob, StartExport, store, bounds
    <3>2. job'.stage # "exported"
      <4>1. CASE RecordBlocked \/ StartExport
        <5>1. \/ job' = [job EXCEPT !.stage = "record", !.ok = FALSE]
              \/ job' = [job EXCEPT !.stage = "put"]
          BY <4>1 DEF RecordBlocked, StartExport
        <5> QED BY <1>0, <5>1 DEF JobRow
      <4>2. CASE CheckingJob
        <5>1. PICK answered \in BOOLEAN :
                  job' = [job EXCEPT !.stage = IF answered /\ HeadMismatch THEN "mismatch" ELSE "record",
                                     !.ok = answered /\ ~HeadMismatch]
          BY <4>2 DEF CheckingJob
        <5>2. job'.stage = IF answered /\ HeadMismatch THEN "mismatch" ELSE "record"
          BY <1>0, <5>1 DEF JobRow
        <5> QED BY <5>2
      <4> QED BY <2>3, <4>1, <4>2
    <3> QED BY <1>0, <3>1, <3>2, NothingAdded, GenAlone DEF Moved, ReadBack
  <2>4. CASE StartDigest
    <3>1. PICK g : gen' = [gen EXCEPT !["server"] = g] /\ g.stage = "check"
      <4>1. \A m : [NoGen EXCEPT !.stage = "check", !.period = m, !.at = now].stage = "check"
        BY DEF NoGen
      <4>2. PICK m : gen' = [gen EXCEPT !["server"] =
                                [NoGen EXCEPT !.stage = "check", !.period = m, !.at = now]]
        BY <2>4 DEF StartDigest
      <4> QED BY <4>1, <4>2
    <3>2. UNCHANGED <<scenario, archive, ledger, late>> /\ job' = [job EXCEPT !.stage = "generating"]
      BY <2>4 DEF StartDigest, store, bounds
    <3>3. CliStays /\ ChecksFirst
      BY <1>0, <3>1 DEF CliStays, ChecksFirst, Processes
    <3>4. job'.stage = "generating"
      BY <1>0, <3>2 DEF JobRow
    <3> QED BY <1>0, <3>2, <3>3, <3>4, NothingAdded DEF Moved, ReadBack
  <2>5. CASE EndDigest
    <3>1. UNCHANGED <<scenario, archive, ledger, late>> /\ gen' = [gen EXCEPT !["server"] = NoGen]
      BY <2>5 DEF EndDigest, store, bounds
    <3>2. CliStays /\ ChecksFirst
      BY <1>0, <3>1 DEF CliStays, ChecksFirst, Processes, NoGen
    <3>3. job'.stage # "exported"
      BY <1>0, <2>5 DEF EndDigest, JobRow
    <3> QED BY <1>0, <3>1, <3>2, <3>3, NothingAdded DEF Moved, ReadBack
  <2>6. CASE AdoptDigest \/ RefetchDigest
    <3>1. UNCHANGED <<scenario, archive, gen, ledger, late>>
      BY <2>6 DEF AdoptDigest, RefetchDigest, store
    <3>2. job'.stage # "exported"
      <4>1. CASE AdoptDigest
        <5>1. \A d : [job EXCEPT !.stage = "record", !.ok = TRUE, !.digest = d].stage = "record"
          BY <1>0 DEF JobRow
        <5>2. [job EXCEPT !.stage = "record", !.ok = FALSE].stage = "record"
          BY <1>0 DEF JobRow
        <5> QED BY <4>1, <5>1, <5>2 DEF AdoptDigest
      <4>2. CASE RefetchDigest
        <5>1. CASE job' = AfterJob(FALSE)
          BY <1>0, <5>1, AfterJobStage
        <5>2. ASSUME NEW d, job' = [AfterJob(TRUE) EXCEPT !.digest = d] PROVE job'.stage # "exported"
          BY <1>0, <5>2, AfterJobStage
        <5> QED BY <4>2, <5>1, <5>2 DEF RefetchDigest
      <4> QED BY <2>6, <4>1, <4>2
    <3> QED BY <1>0, <3>1, <3>2, NothingAdded, GenAlone DEF Moved, ReadBack
  <2>7. CASE PutObject \/ WriteObject
    <3>1. UNCHANGED <<scenario, gen, ledger, late>>
      BY <2>7 DEF PutObject, WriteObject, store
    <3>2. job'.stage # "exported"
      BY <1>0, <2>7 DEF PutObject, WriteObject, JobRow
    <3> QED BY <1>0, <3>1, <3>2, NothingAdded, GenAlone DEF Moved, ReadBack
  <2>8. CASE VerifyObject
    <3>1. UNCHANGED <<scenario, archive, gen, ledger, late>>
      BY <2>8 DEF VerifyObject, store
    <3>2. ReadBack
      <4>1. PICK s : /\ job' = [job EXCEPT !.stage = s]
                     /\ s = "exported" => archive[job.digest.period] = Object(job.digest)
        BY <2>8 DEF VerifyObject
      <4>2. job'.stage = s /\ job'.digest = job.digest
        BY <1>0, <4>1 DEF JobRow
      <4> QED BY <3>1, <4>1, <4>2 DEF ReadBack
    <3> QED BY <1>0, <3>1, <3>2, NothingAdded, GenAlone DEF Moved
  <2>9. CASE AppendExported
    <3>1. UNCHANGED <<scenario, archive, gen>> /\ job.stage = "exported"
      BY <2>9 DEF AppendExported
    <3>2. job'.stage # "exported"
      BY <1>0, <2>9 DEF AppendExported, JobRow
    <3>3. Wrote(ExportedEntry(job.digest)) /\ Plain(ExportedEntry(job.digest))
      BY <1>0, <2>9, CallWrote, EntryTypes DEF AppendExported, Store, JobRow
    <3> QED BY <3>1, <3>2, <3>3, GenAlone DEF Moved, ReadBack, Written, Added
  <2>10. CASE ArchiveIncident
    <3>1. UNCHANGED <<scenario, archive, gen>>
      BY <2>10 DEF ArchiveIncident
    <3>2. job'.stage # "exported"
      BY <1>0, <2>10 DEF ArchiveIncident, JobRow
    <3>3. Wrote(IncidentEntry) /\ Plain(IncidentEntry) /\ IncidentEntry.type = "incident"
      BY <1>0, <2>10, IncidentWrote, EntryTypes DEF ArchiveIncident, Store, IncidentEntry, Entry
    <3> QED BY <3>1, <3>2, <3>3, GenAlone DEF Moved, ReadBack, Written, Added
  <2>11. CASE RecordJobResult
    <3>1. UNCHANGED <<scenario, archive, gen>>
      BY <2>11 DEF RecordJobResult
    <3>2. PICK o : o = job
      OBVIOUS
    <3>3. o.name \in Jobs /\ o.at \in Nat /\ o.at <= now /\ o.ok \in BOOLEAN /\ now \in Nat
      BY <1>0, <2>11, <3>2 DEF RecordJobResult, JobOk, JobRow, Store, DInv
    <3>4. PICK recorded \in BOOLEAN : /\ AppendCall(JobEntry(o.name, o.at, o.ok), recorded)
                                      /\ job' = AfterJob(o.ok /\ recorded)
      BY <2>11, <3>2 DEF RecordJobResult
    <3>5. PICK x : x = JobEntry(o.name, o.at, o.ok)
      OBVIOUS
    <3>6. Plain(x) /\ x.type = "scheduler_job_completed"
      BY <3>3, <3>5, JobEntryType
    <3>7. Wrote(x)
      BY <3>4, <3>5, CallWrote
    <3>8. PICK ok \in BOOLEAN : ok = (o.ok /\ recorded)
      BY <3>3
    <3>9. job'.stage # "exported"
      BY <1>0, <3>2, <3>4, <3>8, AfterJobStage
    <3> QED BY <3>1, <3>6, <3>7, <3>9, GenAlone DEF Moved, ReadBack, Written, Added
  <2>12. CASE RecordMismatch
    <3>1. UNCHANGED <<scenario, archive, gen>>
      BY <2>12 DEF RecordMismatch
    <3>2. PICK o : o = job
      OBVIOUS
    <3>3. o.name \in Jobs /\ o.at \in Nat /\ o.at <= now /\ now \in Nat
      BY <1>0, <2>12, <3>2 DEF RecordMismatch, JobOk, JobRow, Store, DInv
    <3>4. PICK recorded \in BOOLEAN :
             /\ AppendCall(JobEntry(o.name, o.at, FALSE), recorded)
             /\ job' = IF recorded THEN [o EXCEPT !.stage = "report"] ELSE AfterJob(FALSE)
      BY <2>12, <3>2 DEF RecordMismatch
    <3>5. PICK x : x = JobEntry(o.name, o.at, FALSE)
      OBVIOUS
    <3>6. Plain(x) /\ x.type = "scheduler_job_completed" /\ Wrote(x)
      BY <3>3, <3>4, <3>5, JobEntryType, CallWrote
    <3>7. job'.stage # "exported"
      <4>1. CASE job' = [o EXCEPT !.stage = "report"]
        BY <1>0, <3>2, <4>1 DEF JobRow
      <4>2. CASE job' = AfterJob(FALSE)
        BY <1>0, <3>2, <4>2, AfterJobStage
      <4> QED BY <3>4, <4>1, <4>2
    <3> QED BY <3>1, <3>6, <3>7, GenAlone DEF Moved, ReadBack, Written, Added
  <2>13. CASE ReportMismatch
    <3>1. UNCHANGED <<scenario, archive, gen>>
      BY <2>13 DEF ReportMismatch
    <3>2. job'.stage # "exported"
      BY <1>0, <2>13, AfterJobStage DEF ReportMismatch
    <3>3. Wrote(IncidentEntry) /\ Plain(IncidentEntry) /\ IncidentEntry.type = "incident"
      BY <1>0, <2>13, IncidentWrote, EntryTypes DEF ReportMismatch, Store, IncidentEntry, Entry
    <3> QED BY <3>1, <3>2, <3>3, GenAlone DEF Moved, ReadBack, Written, Added
  <2> QED BY <1>2, <1>5, <2>1, <2>2, <2>3, <2>4, <2>5, <2>6, <2>7, <2>8, <2>9, <2>10, <2>11,
             <2>12, <2>13
          DEF Scheduler, Processes
<1> QED BY <1>1, <1>3, <1>4, <1>5 DEF Next

\* The invariant is kept by every step, and the ledger only grows.
LEMMA DigestStep == ASSUME SInv, [Next]_vars PROVE SInv' /\ Grows
<1>0. DInv /\ scenario \in Scenario /\ Store
  BY DEF SInv, DInv
<1>1. scenario' \in Scenario
  BY <1>0, StepMoves DEF Moved
<1>2. DInv' /\ Grows
  <2>1. CASE UNCHANGED vars
    <3>1. UNCHANGED <<now, ledger, late, archive, completed, job, gen>>
      BY <2>1 DEF vars, store
    <3>2. Grows
      BY <1>0, <3>1 DEF Store, Grows
    <3> QED BY <1>0, <3>1, <3>2, LeftAlone DEF DInv
  <2> QED BY <1>0, <2>1, SchedulerKept, CliKept, EnvironmentKept DEF Next
<1> QED BY <1>1, <1>2 DEF SInv

\* The invariant holds throughout.
LEMMA DigestInvariant == Spec => []SInv
<1>1. Init => SInv
  BY DigestInit DEF SInv, Init
<1>2. SInv /\ [Next]_vars => SInv'
  BY DigestStep
<1> QED BY <1>1, <1>2, PTL DEF Spec

\* A job counts as done only if the ledger says that it succeeded: run_once_per_period
\* marks it after record_scheduler_job_result, and a restart forgets the mark and not
\* the entry.
THEOREM CompletedRecorded == Spec => []CompletedIsRecorded
<1>1. SInv => CompletedIsRecorded
  BY DEF SInv, DInv
<1> QED BY <1>1, DigestInvariant, PTL

\* Whatever whole object the archive holds is a digest of the ledger, with every way in
\* which appends, reads and writes fail, with restarts and with an operator's digest
\* generate beside the scheduler: export_digest_to_archive is only reached with a digest
\* whose append was acknowledged or that was read from the ledger.
THEOREM ArchivedVouched == Spec => []ArchivedIsInLedger
<1>1. SInv => ArchivedIsInLedger
  <2> SUFFICES ASSUME SInv, NEW m \in Month, archive[m].content = "whole"
               PROVE  \E i \in DigestsOf(m) : Canonical(archive[m].digest) = Canonical(ledger[i].digest)
    BY DEF ArchivedIsInLedger
  <2>1. archive[m].digest.period = m /\ Vouched(archive[m].digest)
    BY DEF SInv, DInv, ArchiveInv
  <2> QED BY <2>1 DEF Vouched, DigestsOf
<1> QED BY <1>1, DigestInvariant, PTL

-----------------------------------------------------------------------------
(* Digests of a verified ledger. *)

\* The entry at position i has the verification called name, of its period, before it.
VerifiedBefore(name, i) ==
    \E k \in 1..(i - 1) : /\ ledger[k].type = "scheduler_job_completed"
                          /\ ledger[k].job = name /\ ledger[k].ok
                          /\ ledger[k].period = ledger[i].period

\* As long as the command line generates nothing, the digests of the ledger have both
\* verifications before them, and those that are on their way have them in the ledger.
DigestsVerified ==
    gen["cli"].stage = "idle" =>
        /\ \A i \in 1..Len(ledger) : ledger[i].type = "monthly_digest" =>
              VerifiedBefore("hash_verify", i) /\ VerifiedBefore("signature_verify", i)
        /\ \A r \in late : r.entry.type = "monthly_digest" => BothVerified(r.entry.period)

\* What stands before an entry stays there, and what the ledger says stands before
\* the next entry.
LEMMA BeforeStays ==
    ASSUME Store, Grows, NEW name
    PROVE  /\ \A i \in 1..Len(ledger) : VerifiedBefore(name, i) => VerifiedBefore(name, i)'
           /\ \A x \in Row, n \in Nat :
                 ledger' = Append(ledger, x) /\ Succeeded(name, x.period) /\ n = Len(ledger) + 1 =>
                    VerifiedBefore(name, n)'
<1>0. Len(ledger) \in Nat /\ ledger \in Seq(Row)
  BY DEF Store
<1>1. ASSUME NEW i \in 1..Len(ledger), VerifiedBefore(name, i) PROVE VerifiedBefore(name, i)'
  <2>1. PICK k \in 1..(i - 1) : /\ ledger[k].type = "scheduler_job_completed"
                                /\ ledger[k].job = name /\ ledger[k].ok
                                /\ ledger[k].period = ledger[i].period
    BY <1>1 DEF VerifiedBefore
  <2>2. k \in 1..Len(ledger)
    BY <1>0
  <2>3. ledger'[k] = ledger[k] /\ ledger'[i] = ledger[i]
    BY <2>2, RowsStay
  <2> QED BY <2>1, <2>3 DEF VerifiedBefore
<1>2. ASSUME NEW x \in Row, NEW n \in Nat, ledger' = Append(ledger, x),
             Succeeded(name, x.period), n = Len(ledger) + 1
      PROVE  VerifiedBefore(name, n)'
  <2>1. PICK k \in 1..Len(ledger) : /\ ledger[k].type = "scheduler_job_completed"
                                    /\ ledger[k].job = name /\ ledger[k].ok
                                    /\ ledger[k].period = x.period
    BY <1>2 DEF Succeeded
  <2>2. ledger'[k] = ledger[k] /\ ledger'[n] = x /\ k \in 1..(n - 1)
    BY <1>0, <1>2
  <2> QED BY <2>1, <2>2 DEF VerifiedBefore
<1> QED BY <1>1, <1>2

\* The digest that the server appends is of a month whose verifications are recorded.
LEMMA ServerVerified ==
    ASSUME DInv, gen["server"].stage = "append"
    PROVE  /\ gen["server"].digest \in DigestRow
           /\ gen["server"].digest.period = gen["server"].period
           /\ BothVerified(gen["server"].digest.period)
<1>1. GenOk(gen["server"]) /\ gen["server"] \in GenRow
  BY DEF DInv, GenInv, Processes
<1>2. gen["server"].digest \in DigestRow /\ gen["server"].digest.period = gen["server"].period
  BY <1>1 DEF GenOk, GenRow
<1>3. job.stage = "generating" /\ gen["server"].period = previous_month_period(job.at)
  BY DEF DInv, Waits
<1>4. BothVerified(previous_month_period(job.at))
  BY <1>3 DEF DInv, JobOk
<1> QED BY <1>2, <1>3, <1>4

\* Every step keeps the digests verified.
LEMMA DigestsVerifiedStep == ASSUME SInv, DigestsVerified, [Next]_vars PROVE DigestsVerified'
<1> SUFFICES ASSUME gen'["cli"].stage = "idle"
             PROVE  /\ \A i \in 1..Len(ledger') : ledger'[i].type = "monthly_digest" =>
                          (VerifiedBefore("hash_verify", i) /\ VerifiedBefore("signature_verify", i))'
                    /\ \A r \in late' : r.entry.type = "monthly_digest" =>
                          BothVerified(r.entry.period)'
  BY DEF DigestsVerified
<1>0. /\ DInv /\ Store /\ Grows /\ Moved /\ Written
      /\ ledger \in Seq(Row) /\ Len(ledger) \in Nat
  BY DigestStep, StepMoves DEF SInv, DInv, Store
<1>1. /\ gen["cli"].stage = "idle"
      /\ \A i \in 1..Len(ledger) : ledger[i].type = "monthly_digest" =>
            VerifiedBefore("hash_verify", i) /\ VerifiedBefore("signature_verify", i)
      /\ \A r \in late : r.entry.type = "monthly_digest" => BothVerified(r.entry.period)
  BY <1>0 DEF DigestsVerified, Moved, CliStays
<1>2. ASSUME NEW i \in 1..Len(ledger), ledger'[i].type = "monthly_digest"
      PROVE  (VerifiedBefore("hash_verify", i) /\ VerifiedBefore("signature_verify", i))'
  BY <1>0, <1>1, <1>2, BeforeStays, RowsStay
<1>3. ASSUME NEW r \in late, r.entry.type = "monthly_digest" PROVE BothVerified(r.entry.period)'
  BY <1>0, <1>1, <1>3, SaidStays
<1>4. ASSUME NEW x \in Row, x.type = "monthly_digest" => BothVerified(x.period),
             UNCHANGED ledger \/ ledger' = Append(ledger, x)
      PROVE  \A i \in 1..Len(ledger') : ledger'[i].type = "monthly_digest" =>
                (VerifiedBefore("hash_verify", i) /\ VerifiedBefore("signature_verify", i))'
  <2>1. CASE UNCHANGED ledger
    BY <1>2, <2>1
  <2>2. CASE ledger' = Append(ledger, x)
    <3>1. PICK n \in Nat : n = Len(ledger) + 1
      BY <1>0
    <3>2. /\ ledger'[n] = x
          /\ \A i \in 1..Len(ledger') : i \in 1..Len(ledger) \/ i = n
      BY <1>0, <2>2, <3>1
    <3>3. x.type = "monthly_digest" =>
             (VerifiedBefore("hash_verify", n) /\ VerifiedBefore("signature_verify", n))'
      BY <1>0, <1>4, <2>2, <3>1, BeforeStays DEF BothVerified
    <3> QED BY <1>2, <3>2, <3>3
  <2> QED BY <1>4, <2>1, <2>2
<1>5. ASSUME NEW x \in Row, x.type = "monthly_digest" => BothVerified(x.period), Wrote(x)
      PROVE  \A r \in late' : r.entry.type = "monthly_digest" => BothVerified(r.entry.period)'
  <2>1. \A r \in late' : r \in late \/ r.entry = x
    BY <1>5 DEF Wrote
  <2>2. x.type = "monthly_digest" => BothVerified(x.period)'
    BY <1>0, <1>5, SaidStays
  <2> QED BY <1>3, <2>1, <2>2
<1>6. ASSUME NEW x, Added(x) PROVE x \in Row /\ x.type # "monthly_digest" /\ Wrote(x)
  BY <1>6 DEF Added, Plain
<1>7. ASSUME NEW p \in Processes, AppendDigest(p)
      PROVE  \E x \in Row : Wrote(x) /\ BothVerified(x.period)
  <2>1. p = "server" /\ gen["server"].stage = "append"
    BY <1>1, <1>7 DEF AppendDigest, Processes
  <2>2. PICK d : d = gen["server"].digest
    OBVIOUS
  <2>3. d \in DigestRow /\ BothVerified(d.period)
    BY <1>0, <2>1, <2>2, ServerVerified
  <2>4. Wrote(DigestEntry(d))
    BY <1>7, <2>1, <2>2, CallWrote DEF AppendDigest
  <2>5. DigestEntry(d) \in Row /\ DigestEntry(d).period = d.period
    BY <1>0, <2>3, EntryTypes DEF Store
  <2> QED BY <2>3, <2>4, <2>5
<1>8. ASSUME DeliverLate
      PROVE  /\ \E x \in Row : /\ x.type = "monthly_digest" => BothVerified(x.period)
                               /\ UNCHANGED ledger \/ ledger' = Append(ledger, x)
             /\ late' \subseteq late
  BY <1>0, <1>1, <1>8 DEF DeliverLate, Store, LateRow
<1>9. CASE DeliverLate
  BY <1>3, <1>4, <1>8, <1>9
<1>10. ASSUME NEW x \in Row, x.type = "monthly_digest" => BothVerified(x.period), Wrote(x)
       PROVE  \A i \in 1..Len(ledger') : ledger'[i].type = "monthly_digest" =>
                 (VerifiedBefore("hash_verify", i) /\ VerifiedBefore("signature_verify", i))'
  BY <1>4, <1>10 DEF Wrote
<1> QED BY <1>0, <1>5, <1>6, <1>7, <1>9, <1>10 DEF Written

\* The scheduler signs a digest only of a ledger that it has verified: run_due_jobs
\* leaves the digest out when one of the two verifications failed in this pass or was
\* not recorded, also across restarts and with answers that come late.
THEOREM DigestVerified == Spec => []VerifiedBeforeDigest
<1>1. Init => DigestsVerified
  <2> SUFFICES ASSUME Init PROVE DigestsVerified
    OBVIOUS
  <2>1. late = {}
    BY DEF Init
  <2> QED BY <2>1, FirstEntries DEF DigestsVerified
<1>2. SInv /\ DigestsVerified /\ [Next]_vars => DigestsVerified'
  BY DigestsVerifiedStep
<1>3. DigestsVerified => VerifiedBeforeDigest
  BY DEF DigestsVerified, VerifiedBeforeDigest, VerifiedBefore, DigestsOf
<1> QED BY <1>1, <1>2, <1>3, DigestInvariant, PTL DEF Spec

-----------------------------------------------------------------------------
(* One digest for a month. *)

\* As long as the command line generates nothing and no request arrives late, a month
\* has one digest, and none while the server's generation is past the duplicate check.
IsDigest(x) == x.type = "monthly_digest"
Unique ==
    /\ "late" \notin scenario.faults => late = {}
    /\ gen["cli"].stage = "idle" /\ "late" \notin scenario.faults =>
          /\ \A i, k \in 1..Len(ledger) :
                IsDigest(ledger[i]) /\ IsDigest(ledger[k]) /\ ledger[i].period = ledger[k].period =>
                   i = k
          /\ gen["server"].stage \in {"range", "append"} => DigestsOf(gen["server"].period) = {}

\* Appending an entry that is no digest leaves the digests as they were.
LEMMA SameDigests ==
    ASSUME Store, NEW x \in Row, ~IsDigest(x), UNCHANGED ledger \/ ledger' = Append(ledger, x)
    PROVE  /\ \A i \in 1..Len(ledger') : IsDigest(ledger'[i]) =>
                 i \in 1..Len(ledger) /\ ledger'[i] = ledger[i]
           /\ \A m : DigestsOf(m) = {} => DigestsOf(m)' = {}
<1>0. ledger \in Seq(Row) /\ Len(ledger) \in Nat
  BY DEF Store
<1>1. ASSUME NEW i \in 1..Len(ledger'), IsDigest(ledger'[i])
      PROVE  i \in 1..Len(ledger) /\ ledger'[i] = ledger[i]
  <2>1. CASE UNCHANGED ledger
    BY <1>1, <2>1
  <2>2. CASE ledger' = Append(ledger, x)
    <3>1. i \in 1..Len(ledger) \/ ledger'[i] = x
      BY <1>0, <2>2
    <3>2. i \in 1..Len(ledger)
      BY <1>1, <3>1
    <3>3. ledger'[i] = ledger[i]
      BY <1>0, <2>2, <3>2
    <3> QED BY <3>2, <3>3
  <2> QED BY <2>1, <2>2
<1>2. ASSUME NEW m, DigestsOf(m) = {} PROVE DigestsOf(m)' = {}
  BY <1>1, <1>2 DEF DigestsOf, IsDigest
<1> QED BY <1>1, <1>2

\* The ledger starts without a digest.
LEMMA UniqueInit == ASSUME Init PROVE Unique
<1>1. late = {} /\ gen["server"].stage = "idle"
  BY DEF Init, Processes, NoGen
<1> QED BY <1>1, FirstEntries DEF Unique, IsDigest

\* Every step keeps the digests unique.
LEMMA UniqueStep == ASSUME SInv, Unique, [Next]_vars PROVE Unique'
<1>0. /\ DInv /\ Store /\ Grows /\ Moved /\ Written
      /\ ledger \in Seq(Row) /\ Len(ledger) \in Nat
  BY DigestStep, StepMoves DEF SInv, DInv, Store
<1> SUFFICES ASSUME "late" \notin scenario.faults
             PROVE  /\ late' = {}
                    /\ gen'["cli"].stage = "idle" =>
                         /\ \A i, k \in 1..Len(ledger') :
                               /\ IsDigest(ledger'[i]) /\ IsDigest(ledger'[k])
                               /\ ledger'[i].period = ledger'[k].period
                               => i = k
                         /\ gen'["server"].stage \in {"range", "append"} =>
                               DigestsOf(gen["server"].period)' = {}
  <2>1. scenario' = scenario
    BY <1>0 DEF Moved
  <2> QED BY <2>1 DEF Unique
<1>1. late = {} /\ ~DeliverLate
  BY DEF Unique, DeliverLate
<1>2. \A p \in Processes : AppendDigest(p) => \E x : Wrote(x)
  BY CallWrote DEF AppendDigest
<1>3. late' = {}
  BY <1>0, <1>1, <1>2 DEF Written, Added, Wrote
<1> SUFFICES ASSUME gen'["cli"].stage = "idle"
             PROVE  /\ \A i, k \in 1..Len(ledger') :
                          /\ IsDigest(ledger'[i]) /\ IsDigest(ledger'[k])
                          /\ ledger'[i].period = ledger'[k].period
                          => i = k
                    /\ gen'["server"].stage \in {"range", "append"} =>
                          DigestsOf(gen["server"].period)' = {}
  BY <1>3
<1>4. /\ gen["cli"].stage = "idle"
      /\ \A i, k \in 1..Len(ledger) :
            IsDigest(ledger[i]) /\ IsDigest(ledger[k]) /\ ledger[i].period = ledger[k].period =>
               i = k
      /\ gen["server"].stage \in {"range", "append"} => DigestsOf(gen["server"].period) = {}
  BY <1>0 DEF Unique, Moved, CliStays
<1>5. ASSUME NEW x, Added(x)
      PROVE  /\ \A i, k \in 1..Len(ledger') :
                   /\ IsDigest(ledger'[i]) /\ IsDigest(ledger'[k])
                   /\ ledger'[i].period = ledger'[k].period
                   => i = k
             /\ gen'["server"].stage \in {"range", "append"} =>
                   DigestsOf(gen["server"].period)' = {}
  <2>1. x \in Row /\ ~IsDigest(x) /\ (UNCHANGED ledger \/ ledger' = Append(ledger, x))
    BY <1>5 DEF Added, Plain, IsDigest, Wrote
  <2>2. /\ \A i \in 1..Len(ledger') : IsDigest(ledger'[i]) =>
              i \in 1..Len(ledger) /\ ledger'[i] = ledger[i]
        /\ \A m : DigestsOf(m) = {} => DigestsOf(m)' = {}
    BY <1>0, <2>1, SameDigests
  <2>3. PICK m : m = gen'["server"].period
    OBVIOUS
  <2>4. gen'["server"].stage \in {"range", "append"} => DigestsOf(m) = {}
    BY <1>0, <1>4, <2>3 DEF Moved, ChecksFirst
  <2>5. gen'["server"].stage \in {"range", "append"} => DigestsOf(m)' = {}
    BY <2>2, <2>4
  <2>6. DigestsOf(gen["server"].period)' = DigestsOf(m)'
    BY <2>3 DEF DigestsOf
  <2> QED BY <1>4, <2>2, <2>5, <2>6
<1>6. ASSUME NEW p \in Processes, AppendDigest(p)
      PROVE  /\ \A i, k \in 1..Len(ledger') :
                   /\ IsDigest(ledger'[i]) /\ IsDigest(ledger'[k])
                   /\ ledger'[i].period = ledger'[k].period
                   => i = k
             /\ gen'["server"].stage \notin {"range", "append"}
  <2>1. p = "server" /\ gen["server"].stage = "append"
    BY <1>4, <1>6 DEF AppendDigest, Processes
  <2>2. gen'["server"].stage \notin {"range", "append"}
    <3>1. gen \in [Processes -> GenRow]
      BY <1>0 DEF DInv, GenInv
    <3>2. PICK s \in {"done", "failed"} : gen' = [gen EXCEPT !["server"].stage = s]
      BY <1>6, <2>1 DEF AppendDigest
    <3> QED BY <3>1, <3>2 DEF GenRow, Processes
  <2>3. PICK d : d = gen["server"].digest
    OBVIOUS
  <2>4. d \in DigestRow /\ DigestsOf(d.period) = {}
    BY <1>0, <1>4, <2>1, <2>3, ServerVerified
  <2>5. PICK x : x = DigestEntry(d)
    OBVIOUS
  <2>6. x \in Row /\ x.period = d.period /\ (UNCHANGED ledger \/ ledger' = Append(ledger, x))
    BY <1>0, <1>6, <2>1, <2>3, <2>4, <2>5, EntryTypes, CallWrote DEF AppendDigest, Store, Wrote
  <2>7. \A i \in 1..Len(ledger) : IsDigest(ledger[i]) => ledger[i].period # x.period
    BY <2>4, <2>6 DEF DigestsOf, IsDigest
  <2>8. CASE UNCHANGED ledger
    BY <1>4, <2>2, <2>8
  <2>9. CASE ledger' = Append(ledger, x)
    <3>1. PICK n \in Nat : n = Len(ledger) + 1
      BY <1>0
    <3>2. /\ ledger'[n] = x
          /\ \A i \in 1..Len(ledger') : i \in 1..Len(ledger) \/ i = n
          /\ \A i \in 1..Len(ledger) : ledger'[i] = ledger[i]
      BY <1>0, <2>6, <2>9, <3>1
    <3> QED BY <1>4, <2>2, <2>7, <3>2
  <2> QED BY <2>6, <2>8, <2>9
<1> QED BY <1>0, <1>1, <1>5, <1>6 DEF Written

\* A month has one digest, with any number of failures and restarts, unless the duplicate
\* check of generate_monthly_digest is raced by the command line or by an abandoned
\* append; a second digest after such a race is the violation that OneDigestPerPeriod shows.
THEOREM OneDigest == Spec => []OneDigestUnlessRaced
<1>1. Init => Unique
  BY UniqueInit
<1>2. SInv /\ Unique /\ [Next]_vars => Unique'
  BY UniqueStep
<1>3. Unique => OneDigestUnlessRaced
  <2> SUFFICES ASSUME Unique, gen["cli"].stage = "idle", "late" \notin scenario.faults,
                      NEW m \in Month
               PROVE  Cardinality(DigestsOf(m)) <= 1
    BY DEF OneDigestUnlessRaced, OneDigestPerPeriod
  <2>1. \A i, k \in DigestsOf(m) : i = k
    BY DEF Unique, DigestsOf, IsDigest
  <2>2. CASE DigestsOf(m) = {}
    BY <2>2, FS_EmptySet
  <2>3. CASE DigestsOf(m) # {}
    <3>1. PICK i \in DigestsOf(m) : TRUE
      BY <2>3
    <3>2. DigestsOf(m) = {i}
      BY <2>1, <3>1
    <3>3. Cardinality({i}) = 1
      BY FS_Singleton
    <3> QED BY <3>2, <3>3
  <2> QED BY <2>2, <2>3
<1> QED BY <1>1, <1>2, <1>3, DigestInvariant, PTL DEF Spec

-----------------------------------------------------------------------------
(* Exports. *)

\* An export that is about to be announced was read back, and the object is still there.
Announced == job.stage = "exported" => archive[job.digest.period] = Object(job.digest)

\* An abandoned archive_exported names a digest of the ledger.
Named(x) == \E k \in DigestsOf(x.period) : Canonical(ledger[k].digest) = x.digest
LateNamed == \A r \in late : r.entry.type = "archive_exported" => Named(r.entry)

\* The export that is announced names one, and those on their way keep theirs.
LEMMA LateNamedStep == ASSUME SInv, LateNamed, [Next]_vars PROVE LateNamed'
<1>0. DInv /\ Store /\ Grows /\ Written /\ job.digest \in DigestRow
  BY DigestStep, StepMoves DEF SInv, DInv, JobOk, JobRow
<1>1. ASSUME NEW x, Named(x) PROVE Named(x)'
  BY <1>0, <1>1, RowsStay DEF Named, DigestsOf
<1>2. ASSUME NEW x, Wrote(x), x.type = "archive_exported" => Named(x) PROVE LateNamed'
  <2>1. \A r \in late' : r \in late \/ r.entry = x
    BY <1>2 DEF Wrote
  <2> QED BY <1>1, <1>2, <2>1 DEF LateNamed
<1>3. ASSUME NEW x, Added(x) PROVE LateNamed'
  <2>1. x.type = "archive_exported" => Named(x)
    <3> SUFFICES ASSUME x.type = "archive_exported" PROVE Named(x)
      OBVIOUS
    <3>1. job.stage = "exported" /\ x = ExportedEntry(job.digest)
      BY <1>3 DEF Added
    <3>2. Vouched(job.digest)
      BY <1>0, <3>1 DEF DInv, JobOk, Holding
    <3>3. x.period = job.digest.period /\ x.digest = Canonical(job.digest)
      BY <3>1 DEF ExportedEntry, Entry
    <3> QED BY <3>2, <3>3 DEF Vouched, Named, DigestsOf
  <2> QED BY <1>2, <1>3, <2>1 DEF Added
<1>4. ASSUME NEW p \in Processes, AppendDigest(p) PROVE LateNamed'
  <2>1. PICK x : x = DigestEntry(gen[p].digest)
    OBVIOUS
  <2>2. Wrote(x) /\ x.type # "archive_exported"
    BY <1>4, <2>1, CallWrote DEF AppendDigest, DigestEntry, Entry
  <2> QED BY <1>2, <2>2
<1>5. CASE DeliverLate
  BY <1>1, <1>5 DEF DeliverLate, LateNamed
<1> QED BY <1>0, <1>3, <1>4, <1>5 DEF Written

\* archive_exported enters the ledger only while the archive holds exactly the digest
\* it names; one that was given up on and arrives during a later export, when that may
\* have truncated the object, still names a digest of the ledger.
THEOREM ExportStored == Spec => ExportedWasStored
<1>1. Init => Announced /\ LateNamed
  BY DEF Init, Announced, Idle, LateNamed
<1>2. SInv /\ Announced /\ [Next]_vars => Announced'
  <2> SUFFICES ASSUME SInv, Announced, [Next]_vars PROVE Announced'
    OBVIOUS
  <2>1. ReadBack
    BY StepMoves DEF SInv, Moved
  <2> QED BY <2>1 DEF ReadBack, Announced
<1>3. SInv /\ LateNamed /\ [Next]_vars => LateNamed'
  BY LateNamedStep
<1> DEFINE Present(x) == /\ archive[x.period].content = "whole"
                         /\ Canonical(archive[x.period].digest) = x.digest
           Abandoned(x) == (\E r \in late \ late' : r.entry = x) /\ Named(x)
           Stored == \A i \in (Len(ledger) + 1)..Len(ledger') :
                        ledger'[i].type = "archive_exported" =>
                           Present(ledger'[i]) \/ Abandoned(ledger'[i])
<1>4. SInv /\ Announced /\ LateNamed /\ [Next]_vars => [Stored]_vars
  <2> SUFFICES ASSUME SInv, Announced, LateNamed, [Next]_vars,
                      NEW i \in (Len(ledger) + 1)..Len(ledger'),
                      ledger'[i].type = "archive_exported"
               PROVE  Present(ledger'[i]) \/ Abandoned(ledger'[i])
    OBVIOUS
  <2>0. /\ DInv /\ Store /\ Written /\ ledger \in Seq(Row) /\ Len(ledger) \in Nat
        /\ job.digest \in DigestRow
    BY StepMoves DEF SInv, DInv, Store, JobOk, JobRow
  <2>1. ASSUME NEW x \in Row, UNCHANGED ledger \/ ledger' = Append(ledger, x) PROVE ledger'[i] = x
    <3>1. ledger' = Append(ledger, x)
      BY <2>0, <2>1
    <3>2. i = Len(ledger) + 1
      BY <2>0, <2>1, <3>1
    <3> QED BY <2>0, <3>1, <3>2
  <2>2. CASE DeliverLate
    <3>1. PICK r \in late : /\ late' = late \ {r}
                            /\ UNCHANGED ledger \/ ledger' = Append(ledger, r.entry)
      BY <2>2 DEF DeliverLate
    <3>2. r.entry \in Row
      BY <2>0 DEF Store, LateRow
    <3>3. ledger'[i] = r.entry /\ r \in late \ late'
      BY <2>1, <3>1, <3>2
    <3> QED BY <3>3 DEF LateNamed
  <2>3. ASSUME NEW p \in Processes, AppendDigest(p) PROVE FALSE
    <3>1. PICK d \in DigestRow : d = gen[p].digest
      BY <2>0, <2>3 DEF DInv, GenInv, GenRow
    <3>2. Wrote(DigestEntry(d))
      BY <2>3, <3>1, CallWrote DEF AppendDigest
    <3>3. DigestEntry(d) \in Row /\ DigestEntry(d).type = "monthly_digest"
      BY <2>0, EntryTypes DEF Store
    <3> QED BY <2>1, <3>2, <3>3 DEF Wrote
  <2>4. ASSUME NEW x, Added(x) PROVE Present(ledger'[i])
    <3>1. ledger'[i] = x /\ job.stage = "exported" /\ x = ExportedEntry(job.digest)
      BY <2>1, <2>4 DEF Added, Plain, Wrote
    <3>2. x.period = job.digest.period /\ x.digest = Canonical(job.digest)
      BY <3>1 DEF ExportedEntry, Entry
    <3>3. archive[job.digest.period] = Object(job.digest)
      BY <3>1 DEF Announced
    <3>4. Object(job.digest).content = "whole" /\ Object(job.digest).digest = job.digest
      BY DEF Object
    <3> QED BY <3>1, <3>2, <3>3, <3>4
  <2> QED BY <2>0, <2>2, <2>3, <2>4 DEF Written
<1>5. [Stored]_vars <=> [ \A i \in (Len(ledger) + 1)..Len(ledger') :
        ledger'[i].type = "archive_exported" =>
          \/ /\ archive[ledger'[i].period].content = "whole"
             /\ Canonical(archive[ledger'[i].period].digest) = ledger'[i].digest
          \/ /\ \E r \in late \ late' : r.entry = ledger'[i]
             /\ \E k \in DigestsOf(ledger'[i].period) :
                   Canonical(ledger[k].digest) = ledger'[i].digest ]_vars
  BY DEF Named
<1> QED BY <1>1, <1>2, <1>3, <1>4, <1>5, DigestInvariant, PTL DEF Spec, ExportedWasStored

-----------------------------------------------------------------------------
(* What the digests tell. *)

\* The digests of the ledger, and those that may still arrive, tell what the ledger has.
ToldAt(i) == IsDigest(ledger[i]) => ledger[i].digest.end < i /\ TellsLedger(ledger[i].digest)
Told ==
    /\ \A i \in 1..Len(ledger) : ToldAt(i)
    /\ \A r \in late : IsDigest(r.entry) => TellsLedger(r.entry.digest)

\* An entry whose digest tells what the ledger has can be appended.
LEMMA ToldAppend ==
    ASSUME Store, Grows, Told, NEW x \in Row, IsDigest(x) => TellsLedger(x.digest),
           UNCHANGED ledger \/ ledger' = Append(ledger, x)
    PROVE  /\ \A i \in 1..Len(ledger') : ToldAt(i)'
           /\ IsDigest(x) => TellsLedger(x.digest)'
<1>0. ledger \in Seq(Row) /\ Len(ledger) \in Nat /\ \A y \in Row : y.digest \in DigestRow
  BY DEF Store, Row
<1>1. IsDigest(x) => TellsLedger(x.digest)'
  BY <1>0, TellsStays
<1>2. ASSUME NEW i \in 1..Len(ledger) PROVE ToldAt(i)'
  <2>1. ledger'[i] = ledger[i] /\ ledger[i] \in Row
    BY <1>0, RowsStay
  <2>2. PICK y \in Row : y = ledger[i]
    BY <2>1
  <2>3. IsDigest(y) => y.digest.end < i /\ TellsLedger(y.digest)
    BY <2>2 DEF Told, ToldAt
  <2>4. IsDigest(y) => TellsLedger(y.digest)'
    BY <1>0, <2>3, TellsStays
  <2> QED BY <2>1, <2>2, <2>3, <2>4 DEF ToldAt, TellsLedger, IsDigest
<1>3. CASE UNCHANGED ledger
  BY <1>1, <1>2, <1>3
<1>4. CASE ledger' = Append(ledger, x)
  <2>1. PICK n \in Nat : n = Len(ledger) + 1
    BY <1>0
  <2>2. ledger'[n] = x /\ \A i \in 1..Len(ledger') : i \in 1..Len(ledger) \/ i = n
    BY <1>0, <1>4, <2>1
  <2>3. IsDigest(x) => x.digest.end < n
    BY <1>0, <2>1 DEF TellsLedger
  <2>4. ToldAt(n)'
    BY <1>1, <2>2, <2>3 DEF ToldAt, TellsLedger, IsDigest
  <2> QED BY <1>1, <1>2, <2>2, <2>4
<1> QED BY <1>3, <1>4

\* Every step keeps what the digests tell true.
LEMMA ToldStep == ASSUME SInv, Told, [Next]_vars PROVE Told'
<1>0. DInv /\ Store /\ Grows /\ Written /\ \A y \in Row : y.digest \in DigestRow
  BY DigestStep, StepMoves DEF SInv, DInv, Row
<1>1. \A r \in late : IsDigest(r.entry) => TellsLedger(r.entry.digest)'
  <2> SUFFICES ASSUME NEW r \in late, IsDigest(r.entry) PROVE TellsLedger(r.entry.digest)'
    OBVIOUS
  <2>1. r.entry \in Row /\ TellsLedger(r.entry.digest)
    BY <1>0 DEF Store, LateRow, Told
  <2>2. r.entry.digest \in DigestRow
    BY <1>0, <2>1
  <2> QED BY <1>0, <2>1, <2>2, TellsStays
<1>2. ASSUME NEW x \in Row, IsDigest(x) => TellsLedger(x.digest), Wrote(x) PROVE Told'
  <2>1. UNCHANGED ledger \/ ledger' = Append(ledger, x)
    BY <1>2 DEF Wrote
  <2>2. \A r \in late' : r \in late \/ r.entry = x
    BY <1>2 DEF Wrote
  <2> QED BY <1>0, <1>1, <1>2, <2>1, <2>2, ToldAppend DEF Told
<1>3. ASSUME NEW x, Added(x) PROVE Told'
  <2>1. x \in Row /\ ~IsDigest(x) /\ Wrote(x)
    BY <1>3 DEF Added, Plain, IsDigest
  <2> QED BY <1>2, <2>1
<1>4. ASSUME NEW p \in Processes, AppendDigest(p) PROVE Told'
  <2>1. PICK d : d = gen[p].digest
    OBVIOUS
  <2>2. GenOk(gen[p]) /\ gen[p].stage = "append" /\ Wrote(DigestEntry(d))
    BY <1>0, <1>4, <2>1, CallWrote DEF DInv, GenInv, AppendDigest
  <2>3. d \in DigestRow /\ TellsLedger(d)
    BY <2>1, <2>2 DEF GenOk, GenRow
  <2>4. PICK x : x = DigestEntry(d)
    OBVIOUS
  <2>5. x \in Row /\ x.digest = d
    BY <1>0, <2>3, <2>4, EntryTypes DEF Store
  <2> QED BY <1>2, <2>2, <2>3, <2>4, <2>5
<1>5. CASE DeliverLate
  <2>1. PICK r \in late : /\ late' = late \ {r}
                          /\ UNCHANGED ledger \/ ledger' = Append(ledger, r.entry)
    BY <1>5 DEF DeliverLate
  <2>2. r.entry \in Row /\ (IsDigest(r.entry) => TellsLedger(r.entry.digest))
    BY <1>0 DEF Store, LateRow, Told
  <2> QED BY <1>0, <1>1, <2>1, <2>2, ToldAppend DEF Told
<1> QED BY <1>0, <1>3, <1>4, <1>5 DEF Written

\* A digest of the ledger counts exactly the entries its month had up to its end, all of
\* them before it: what is appended between the read of the range and the append of the
\* digest, by an abandoned request or by another process, comes behind that end and
\* makes no signed digest wrong.  What the archive holds tells the same.
THEOREM DigestsTell == Spec => []DigestsTellLedger
<1>1. Init => Told
  <2> SUFFICES ASSUME Init PROVE Told
    OBVIOUS
  <2>1. late = {}
    BY DEF Init
  <2> QED BY <2>1, FirstEntries DEF Told, ToldAt, IsDigest
<1>2. SInv /\ Told /\ [Next]_vars => Told'
  BY ToldStep
<1>3. SInv /\ Told => DigestsTellLedger
  <2> SUFFICES ASSUME SInv, Told, NEW m \in Month, archive[m].content = "whole"
               PROVE  TellsLedger(archive[m].digest)
    BY DEF Told, ToldAt, IsDigest, DigestsTellLedger
  <2>1. PICK d : d = archive[m].digest
    OBVIOUS
  <2>2. d \in DigestRow /\ Vouched(d)
    BY <2>1 DEF SInv, DInv, ArchiveInv
  <2>3. PICK i \in 1..Len(ledger) : /\ IsDigest(ledger[i])
                                    /\ Canonical(ledger[i].digest) = Canonical(d)
    BY <2>2 DEF Vouched, IsDigest
  <2>4. PICK e : e = ledger[i].digest
    OBVIOUS
  <2>5. e \in DigestRow /\ TellsLedger(e)
    <3>1. ledger \in Seq(Row) /\ ToldAt(i)
      BY DEF SInv, DInv, Store, Told
    <3>2. ledger[i] \in Row
      BY <3>1
    <3>3. ledger[i].digest \in DigestRow
      BY <3>2 DEF Row
    <3> QED BY <2>3, <2>4, <3>1, <3>3 DEF ToldAt
  <2>6. \A f \in DigestRow : /\ Canonical(f).start = f.start /\ Canonical(f).end = f.end
                             /\ Canonical(f).count = f.count /\ Canonical(f).period = f.period
    BY DEF Canonical, DigestRow
  <2>7. d.start = e.start /\ d.end = e.end /\ d.count = e.count /\ d.period = e.period
    BY <2>2, <2>3, <2>4, <2>5, <2>6
  <2> QED BY <2>1, <2>5, <2>7 DEF TellsLedger
<1> QED BY <1>1, <1>2, <1>3, DigestInvariant, PTL DEF Spec
=============================================================================
