-------------------------- MODULE LedgerChainProofs -------------------------
(***************************************************************************)
(* Proofs about LedgerChain, for any number of calls, drafts, copies and   *)
(* retries: type correctness, the integrity of the hash chain, the         *)
(* append-only property, and what the ledger promises its callers: a batch *)
(* is in the ledger whole or not at all, an answer Ok or Conflict means    *)
(* what it says, a retry has a new head, and the appender implements the   *)
(* atomic log of LedgerLog.                                                *)
(*                                                                         *)
(* ChainIntact alone is not inductive: a commit only extends the chain     *)
(* because (1) the rows of a request are linked to each other, which is    *)
(* settled when they are signed, and (2) the first of them still fits the  *)
(* head, which is settled when the row lock is taken and stays so because  *)
(* only the holder of the lock moves the head.                             *)
(***************************************************************************)
EXTENDS LedgerChain, TLAPS, FiniteSetTheorems

\* The rows of s are the first drafts of call c, numbered and hash-linked.
LinkedRun(s, c) ==
    /\ Len(s) <= Len(Batch[c])
    /\ \A i \in 1..Len(s) :
          /\ s[i].ledger_entry_id = Batch[c][i]
          /\ s[i].sequence_no = s[1].sequence_no + (i - 1)
          /\ s[i].entry_hash =
                EntryHash(s[i].ledger_entry_id, s[i].sequence_no, s[i].previous_entry_hash)
    /\ \A i \in 1..Len(s) : i + 1 <= Len(s) => s[i + 1].previous_entry_hash = s[i].entry_hash

SignedLinked == \A c \in Call : LinkedRun(signed[c], c)

RequestLinked == \A c \in Call, k \in Copy :
    stage[c][k] # "idle" => LinkedRun(request[c][k], c)

\* Whoever is past the comparison holds the lock, and its first row fits the head.
LockedFits == \A c \in Call, k \in Copy :
    stage[c][k] = "locked" =>
       /\ lock_holder = <<c, k>>
       /\ request[c][k][1].sequence_no = chain_state.last_sequence_no + 1
       /\ request[c][k][1].previous_entry_hash = chain_state.last_entry_hash

\* A call about to fetch the head still has an attempt left.
AttemptLeft == \A c \in Call : pc[c] = "start" => attempts[c] <= Retries(c)

\* A request carries at least one entry.
RequestNonEmpty == \A c \in Call, k \in Copy : stage[c][k] # "idle" => request[c][k] # <<>>

TypeInv == TypeOK /\ AttemptLeft /\ RequestNonEmpty
IInv == TypeInv /\ SignedLinked /\ RequestLinked /\ LockedFits /\ ChainIntact

-----------------------------------------------------------------------------
\* max_conflict_retries is a natural number for retrying and single-shot calls alike.
LEMMA RetriesNat == \A c \in Call : Retries(c) \in Nat
BY RetryAssumption DEF Retries

\* sign_with_sequence makes a well-formed row from a head whose sequence_no can
\* still be incremented.
LEMMA SignedRow ==
    ASSUME TypeOK, NEW c \in Call, Len(signed[c]) < Len(Batch[c]),
           LastSigned(c).last_sequence_no + 1 <= MaxSequenceNo
    PROVE  /\ LastSigned(c) \in ChainHead
           /\ Sign(Batch[c][Len(signed[c]) + 1], LastSigned(c)) \in Row
<1> DEFINE n == Len(signed[c])
           id == Batch[c][n + 1]
           p == LastSigned(c)
<1>1. n \in Nat /\ (n # 0 => signed[c][n] \in Row)
  BY DEF TypeOK
<1>2. p \in ChainHead
  <2>1. CASE n = 0
    BY <2>1 DEF LastSigned, TypeOK
  <2>2. CASE n # 0
    BY <1>1, <2>2, SequenceAssumption DEF LastSigned, Row, ChainHead
  <2> QED BY <2>1, <2>2
<1>3. id \in EntryId
  BY <1>1, BatchAssumption
<1>4. p.last_sequence_no + 1 \in 1..MaxSequenceNo
  BY <1>2, SequenceAssumption DEF ChainHead
<1>5. p.last_entry_hash \in Hash
  BY <1>2 DEF ChainHead
<1>6. EntryHash(id, p.last_sequence_no + 1, p.last_entry_hash) \in Hash
  BY <1>3, <1>4, <1>5, HashAssumption
<1> QED BY <1>2, <1>3, <1>4, <1>5, <1>6 DEF Sign, Row

\* What LockChainState may do: it locks a head that fits, or ends the transaction.
LEMMA LockStep ==
    ASSUME NEW c \in Call, NEW k \in Copy, LockChainState(c, k)
    PROVE  \E a \in {"seq_mismatch", "prev_mismatch", "locked"} :
              /\ stage' = [stage EXCEPT ![c][k] = a]
              /\ IF a = "locked"
                 THEN /\ lock_holder' = <<c, k>>
                      /\ request[c][k][1].sequence_no = chain_state.last_sequence_no + 1
                      /\ request[c][k][1].previous_entry_hash = chain_state.last_entry_hash
                 ELSE lock_holder' = lock_holder
<1> DEFINE e == request[c][k][1]
<1>1. CASE e.sequence_no # chain_state.last_sequence_no + 1
  BY <1>1 DEF LockChainState
<1>2. CASE /\ e.sequence_no = chain_state.last_sequence_no + 1
           /\ e.previous_entry_hash # chain_state.last_entry_hash
  BY <1>2 DEF LockChainState
<1>3. CASE /\ e.sequence_no = chain_state.last_sequence_no + 1
           /\ e.previous_entry_hash = chain_state.last_entry_hash
  BY <1>3 DEF LockChainState
<1> QED BY <1>1, <1>2, <1>3

\* What CommitAppend may do: it commits and releases, or ends the transaction.
LEMMA CommitStep ==
    ASSUME NEW c \in Call, NEW k \in Copy, CommitAppend(c, k)
    PROVE  \E a \in {"id_conflict", "ok"} :
              /\ stage' = [stage EXCEPT ![c][k] = a]
              /\ IF a = "ok"
                 THEN LET r == request[c][k]
                      IN  /\ ledger_entries' = ledger_entries \cup Rows(r)
                          /\ chain_state' = [last_sequence_no |-> r[Len(r)].sequence_no,
                                             last_entry_hash |-> r[Len(r)].entry_hash]
                 ELSE UNCHANGED dbVars
<1>1. CASE Ids(Rows(request[c][k])) \cap Ids(ledger_entries) # {}
  BY <1>1 DEF CommitAppend
<1>2. CASE ~(Ids(Rows(request[c][k])) \cap Ids(ledger_entries) # {})
  BY <1>2 DEF CommitAppend
<1> QED BY <1>1, <1>2

\* The type invariant holds before the first append.
LEMMA TypeInit == Init => TypeInv
<1> SUFFICES ASSUME Init PROVE TypeInv
  OBVIOUS
<1>1. Genesis \in ChainHead
  BY HashAssumption, SequenceAssumption DEF Genesis, ChainHead
<1> QED BY <1>1, RetriesNat DEF Init, TypeInv, TypeOK, AttemptLeft, RequestNonEmpty

\* Every step of the appender, the database and the network keeps the types.
LEMMA TypeStep == ASSUME TypeInv, [Next]_vars PROVE TypeInv'
<1> USE DEF TypeInv
<1>1. ASSUME NEW c \in Call, FetchChainHead(c) PROVE TypeInv'
  BY <1>1, RetriesNat DEF FetchChainHead, TypeOK, AttemptLeft, RequestNonEmpty, dbVars, txVars
<1>2. ASSUME NEW c \in Call, FetchChainHeadFails(c) PROVE TypeInv'
  BY <1>2, RetriesNat
  DEF FetchChainHeadFails, Return, TypeOK, AttemptLeft, RequestNonEmpty, dbVars, txVars
<1>3. ASSUME NEW c \in Call, SignNext(c) PROVE TypeInv'
  <2>1. CASE LastSigned(c).last_sequence_no + 1 > MaxSequenceNo
    BY <1>3, <2>1 DEF SignNext, Return, TypeOK, AttemptLeft, RequestNonEmpty, dbVars, txVars
  <2>2. CASE ~(LastSigned(c).last_sequence_no + 1 > MaxSequenceNo)
    <3> DEFINE row == Sign(Batch[c][Len(signed[c]) + 1], LastSigned(c))
    <3>1. LastSigned(c).last_sequence_no \in Int
      <4>1. head[c].last_sequence_no \in Int
        BY SequenceAssumption DEF TypeOK, ChainHead
      <4>2. Len(signed[c]) # 0 => signed[c][Len(signed[c])] \in Row
        BY DEF TypeOK
      <4>3. Len(signed[c]) # 0 => signed[c][Len(signed[c])].sequence_no \in Int
        BY <4>2, SequenceAssumption DEF Row
      <4> QED BY <4>1, <4>3 DEF LastSigned
    <3>2. row \in Row
      BY <1>3, <2>2, <3>1, SignedRow, SequenceAssumption DEF SignNext
    <3>3. signed' = [signed EXCEPT ![c] = Append(signed[c], row)]
      BY <1>3, <2>2 DEF SignNext
    <3>4. Append(signed[c], row) \in Seq(Row)
      BY <3>2 DEF TypeOK
    <3>5. signed' \in [Call -> Seq(Row)]
      BY <3>3, <3>4 DEF TypeOK
    <3> QED BY <1>3, <2>2, <3>5
            DEF SignNext, TypeOK, AttemptLeft, RequestNonEmpty, dbVars, txVars
  <2> QED BY <2>1, <2>2
<1>4. ASSUME NEW c \in Call, SendRequest(c) PROVE TypeInv'
  <2>1. signed[c] # <<>>
    BY <1>4, BatchAssumption DEF SendRequest, TypeOK
  <2> QED BY <1>4, <2>1
          DEF SendRequest, TypeOK, AttemptLeft, RequestNonEmpty, dbVars, Running, Answers
<1>5. ASSUME NEW c \in Call, NEW k \in Copy, ReceiveAnswer(c, k) PROVE TypeInv'
  BY <1>5 DEF ReceiveAnswer, Return, AppendResult, RetryLeft, TypeOK, AttemptLeft,
              RequestNonEmpty, dbVars
<1>6. ASSUME NEW c \in Call, GiveUp(c) PROVE TypeInv'
  BY <1>6 DEF GiveUp, Return, TypeOK, AttemptLeft, RequestNonEmpty, dbVars, txVars
<1>7. ASSUME NEW c \in Call, NEW j \in Copy, NEW k \in Copy, DuplicateRequest(c, j, k)
      PROVE TypeInv'
  BY <1>7 DEF DuplicateRequest, TypeOK, AttemptLeft, RequestNonEmpty, dbVars, callVars,
              Running, Answers
<1>8. ASSUME NEW c \in Call, NEW k \in Copy, DropAnswer(c, k) PROVE TypeInv'
  BY <1>8 DEF DropAnswer, TypeOK, AttemptLeft, RequestNonEmpty, dbVars, callVars
<1>9. ASSUME NEW c \in Call, NEW k \in Copy, LookUpEntryId(c, k) PROVE TypeInv'
  BY <1>9 DEF LookUpEntryId, TypeOK, AttemptLeft, RequestNonEmpty, dbVars, callVars,
              Running, Answers
<1>10. ASSUME NEW c \in Call, NEW k \in Copy, LockChainState(c, k) PROVE TypeInv'
  <2>1. PICK a \in {"seq_mismatch", "prev_mismatch", "locked"} :
           /\ stage' = [stage EXCEPT ![c][k] = a]
           /\ lock_holder' \in {lock_holder, <<c, k>>}
    BY <1>10, LockStep
  <2>2. stage[c][k] = "checked"
    BY <1>10 DEF LockChainState
  <2> QED BY <1>10, <2>1, <2>2
          DEF LockChainState, TypeOK, AttemptLeft, RequestNonEmpty, dbVars, callVars,
              Running, Answers
<1>11. ASSUME NEW c \in Call, NEW k \in Copy, CommitAppend(c, k) PROVE TypeInv'
  <2> DEFINE r == request[c][k]
  <2>1. r \in Seq(Row) /\ Len(r) \in 1..Len(r) /\ r[Len(r)] \in Row
    BY <1>11 DEF CommitAppend, TypeOK, RequestNonEmpty
  <2>2. Rows(r) \subseteq Row
    BY <2>1 DEF Rows
  <2>3. [last_sequence_no |-> r[Len(r)].sequence_no,
         last_entry_hash |-> r[Len(r)].entry_hash] \in ChainHead
    BY <2>1, SequenceAssumption DEF Row, ChainHead
  <2>4. ledger_entries' \subseteq Row /\ chain_state' \in ChainHead
    BY <1>11, <2>2, <2>3 DEF CommitAppend, TypeOK, dbVars
  <2>5. PICK a \in {"id_conflict", "ok"} : stage' = [stage EXCEPT ![c][k] = a]
    BY <1>11, CommitStep
  <2>6. stage[c][k] = "locked"
    BY <1>11 DEF CommitAppend
  <2> QED BY <1>11, <2>4, <2>5, <2>6
          DEF CommitAppend, TypeOK, AttemptLeft, RequestNonEmpty, callVars, Running, Answers
<1>12. ASSUME NEW c \in Call, NEW k \in Copy, AbortTx(c, k) PROVE TypeInv'
  BY <1>12 DEF AbortTx, TypeOK, AttemptLeft, RequestNonEmpty, dbVars, callVars,
               Running, Answers
<1>13. CASE UNCHANGED vars
  BY <1>13 DEF vars, dbVars, callVars, txVars, TypeOK, AttemptLeft, RequestNonEmpty
<1> QED BY <1>1, <1>2, <1>3, <1>4, <1>5, <1>6, <1>7, <1>8, <1>9, <1>10, <1>11, <1>12, <1>13
        DEF Next, CallStep, TxStep, Quiescent

\* Type correctness of the ledger, its callers and its transactions, and the
\* bound on the attempts of `append`, for every instance.
THEOREM TypeCorrect == Spec => []TypeOK
<1>1. TypeInv => TypeOK
  BY DEF TypeInv
<1> QED BY <1>1, TypeInit, TypeStep, PTL DEF Spec

-----------------------------------------------------------------------------
\* Signing one more draft keeps the run linked.
LEMMA ExtendRun ==
    ASSUME NEW c \in Call, NEW s \in Seq(Row), NEW row \in Row,
           LinkedRun(s, c), Len(s) < Len(Batch[c]),
           row.ledger_entry_id = Batch[c][Len(s) + 1],
           row.entry_hash = EntryHash(row.ledger_entry_id, row.sequence_no,
                                      row.previous_entry_hash),
           s # <<>> => /\ row.sequence_no = s[Len(s)].sequence_no + 1
                       /\ row.previous_entry_hash = s[Len(s)].entry_hash
    PROVE  LinkedRun(Append(s, row), c)
<1> DEFINE t == Append(s, row)
           n == Len(s)
<1>1. /\ t \in Seq(Row) /\ n \in Nat /\ Len(t) = n + 1 /\ t[n + 1] = row
      /\ \A i \in 1..n : t[i] = s[i] /\ s[i] \in Row
  OBVIOUS
<1>2. Len(t) <= Len(Batch[c])
  BY <1>1, BatchAssumption
<1>3. ASSUME NEW i \in 1..Len(t)
      PROVE  /\ t[i].ledger_entry_id = Batch[c][i]
             /\ t[i].sequence_no = t[1].sequence_no + (i - 1)
             /\ t[i].entry_hash =
                   EntryHash(t[i].ledger_entry_id, t[i].sequence_no, t[i].previous_entry_hash)
  <2>1. CASE i \in 1..n
    BY <1>1, <2>1 DEF LinkedRun
  <2>2. CASE i = n + 1 /\ n = 0
    BY <1>1, <2>2, SequenceAssumption DEF Row
  <2>3. CASE i = n + 1 /\ n # 0
    <3>1. s # <<>> /\ n \in 1..n /\ 1 \in 1..n
      BY <1>1, <2>3
    <3>2. s[n].sequence_no = s[1].sequence_no + (n - 1) /\ s[1].sequence_no \in Int
      BY <1>1, <3>1, SequenceAssumption DEF LinkedRun, Row
    <3> QED BY <1>1, <2>3, <3>1, <3>2
  <2> QED BY <1>1, <2>1, <2>2, <2>3
<1>4. ASSUME NEW i \in 1..Len(t), i + 1 <= Len(t)
      PROVE  t[i + 1].previous_entry_hash = t[i].entry_hash
  <2>1. CASE i + 1 <= n
    BY <1>1, <2>1 DEF LinkedRun
  <2>2. CASE i = n
    BY <1>1, <2>2
  <2> QED BY <1>1, <1>4, <2>1, <2>2
<1> QED BY <1>2, <1>3, <1>4 DEF LinkedRun

\* Appending a linked run that fits the head keeps the chain intact.
LEMMA ExtendChain ==
    ASSUME TypeOK, ChainIntact, NEW c \in Call, NEW r \in Seq(Row), r # <<>>,
           LinkedRun(r, c),
           r[1].sequence_no = chain_state.last_sequence_no + 1,
           r[1].previous_entry_hash = chain_state.last_entry_hash,
           ledger_entries' = ledger_entries \cup Rows(r),
           chain_state' = [last_sequence_no |-> r[Len(r)].sequence_no,
                           last_entry_hash |-> r[Len(r)].entry_hash]
    PROVE  ChainIntact'
<1> DEFINE n == chain_state.last_sequence_no
           m == Len(r)
<1>1. /\ n \in Nat /\ m \in Nat /\ m # 0
      /\ \A e \in ledger_entries : e.sequence_no \in Nat
  BY SequenceAssumption DEF TypeOK, ChainHead, Row
<1>2. \A i \in 1..m : /\ r[i].sequence_no = n + i
                      /\ r[i].entry_hash = EntryHash(r[i].ledger_entry_id, r[i].sequence_no,
                                                     r[i].previous_entry_hash)
  BY <1>1 DEF LinkedRun
<1>3. \A i \in 1..m : i + 1 \in 1..m => r[i + 1].previous_entry_hash = r[i].entry_hash
  BY <1>1 DEF LinkedRun
<1>4. /\ chain_state'.last_sequence_no = n + m
      /\ chain_state'.last_entry_hash = r[m].entry_hash
  BY <1>1, <1>2
<1>5. \A e \in ledger_entries' : \/ e \in ledger_entries /\ e.sequence_no \in 1..n
                                 \/ \E i \in 1..m : e = r[i]
  BY DEF Rows, ChainIntact, NoGapNoFork
<1>6. \A i \in 1..m : r[i] \in ledger_entries'
  BY DEF Rows
<1>7. NoGapNoFork'
  <2>1. ASSUME NEW e \in ledger_entries' PROVE e.sequence_no \in 1..(n + m)
    BY <1>1, <1>2, <1>5
  <2>2. ASSUME NEW x \in 1..(n + m) PROVE \E e \in ledger_entries' : e.sequence_no = x
    <3>1. CASE x \in 1..n
      BY <3>1 DEF ChainIntact, NoGapNoFork
    <3>2. CASE x \notin 1..n
      <4>1. x - n \in 1..m
        BY <1>1, <3>2
      <4>2. r[x - n].sequence_no = n + (x - n)
        BY <1>2, <4>1
      <4>3. n + (x - n) = x
        BY <1>1
      <4> QED BY <1>6, <4>1, <4>2, <4>3
    <3> QED BY <3>1, <3>2
  <2>3. ASSUME NEW e \in ledger_entries', NEW f \in ledger_entries',
               e.sequence_no = f.sequence_no
        PROVE  e = f
    <3>1. CASE e \in ledger_entries /\ f \in ledger_entries
      BY <2>3, <3>1 DEF ChainIntact, NoGapNoFork
    <3>2. CASE (\E i \in 1..m : e = r[i]) /\ (\E j \in 1..m : f = r[j])
      BY <1>1, <1>2, <2>3, <3>2
    <3>3. CASE e \in ledger_entries /\ (\E j \in 1..m : f = r[j])
      BY <1>1, <1>2, <2>3, <3>3 DEF ChainIntact, NoGapNoFork
    <3>4. CASE f \in ledger_entries /\ (\E j \in 1..m : e = r[j])
      BY <1>1, <1>2, <2>3, <3>4 DEF ChainIntact, NoGapNoFork
    <3> QED BY <1>5, <3>1, <3>2, <3>3, <3>4
  <2> QED BY <1>4, <2>1, <2>2, <2>3 DEF NoGapNoFork
<1>8. HashLinked'
  <2>1. ASSUME NEW e \in ledger_entries'
        PROVE  /\ e.entry_hash = EntryHash(e.ledger_entry_id, e.sequence_no, e.previous_entry_hash)
               /\ e.sequence_no = 1 => e.previous_entry_hash = GenesisHash
               /\ e.sequence_no = n + m => e.entry_hash = r[m].entry_hash
    <3>1. CASE e \in ledger_entries /\ e.sequence_no \in 1..n
      BY <1>1, <3>1 DEF ChainIntact, HashLinked
    <3>2. CASE \E i \in 1..m : e = r[i]
      <4>1. PICK i \in 1..m : e = r[i]
        BY <3>2
      <4>2. e.sequence_no = 1 => i = 1 /\ n = 0
        BY <1>1, <1>2, <4>1
      <4>3. e.sequence_no = n + m => i = m
        BY <1>1, <1>2, <4>1
      <4> QED BY <1>1, <1>2, <4>1, <4>2, <4>3 DEF ChainIntact, HashLinked
    <3> QED BY <1>5, <3>1, <3>2
  <2>2. ASSUME NEW e \in ledger_entries', NEW f \in ledger_entries',
               f.sequence_no = e.sequence_no + 1
        PROVE  f.previous_entry_hash = e.entry_hash
    <3>1. CASE e \in ledger_entries /\ f \in ledger_entries
      BY <2>2, <3>1 DEF ChainIntact, HashLinked
    <3>2. CASE (\E i \in 1..m : e = r[i]) /\ (\E j \in 1..m : f = r[j])
      <4>1. PICK i \in 1..m : e = r[i]
        BY <3>2
      <4>2. PICK j \in 1..m : f = r[j]
        BY <3>2
      <4>3. j = i + 1
        BY <1>1, <1>2, <2>2, <4>1, <4>2
      <4> QED BY <1>3, <4>1, <4>2, <4>3
    <3>3. CASE e \in ledger_entries /\ e.sequence_no \in 1..n /\ (\E j \in 1..m : f = r[j])
      <4>1. PICK j \in 1..m : f = r[j]
        BY <3>3
      <4>2. j = 1 /\ e.sequence_no = n
        BY <1>1, <1>2, <2>2, <3>3, <4>1
      <4> QED BY <3>3, <4>1, <4>2 DEF ChainIntact, HashLinked
    <3>4. CASE f \in ledger_entries /\ f.sequence_no \in 1..n /\ (\E j \in 1..m : e = r[j])
      BY <1>1, <1>2, <2>2, <3>4
    <3> QED BY <1>5, <3>1, <3>2, <3>3, <3>4
  <2>3. n + m # 0
    BY <1>1
  <2> QED BY <1>4, <2>1, <2>2, <2>3 DEF HashLinked
<1> QED BY <1>7, <1>8 DEF ChainIntact

-----------------------------------------------------------------------------
\* The inductive invariant holds for the empty ledger.
LEMMA ChainInit == Init => IInv
<1> SUFFICES ASSUME Init PROVE IInv
  OBVIOUS
<1>1. SignedLinked
  <2> SUFFICES ASSUME NEW c \in Call PROVE LinkedRun(<<>>, c)
    BY DEF Init, SignedLinked
  <2> QED BY BatchAssumption DEF LinkedRun
<1>2. RequestLinked /\ LockedFits
  BY DEF Init, RequestLinked, LockedFits
<1>3. ChainIntact
  BY DEF Init, Genesis, ChainIntact, NoGapNoFork, HashLinked
<1> QED BY <1>1, <1>2, <1>3, TypeInit DEF IInv

\* The three other parts of the invariant depend only on these variables.
LEMMA Frame ==
    /\ UNCHANGED signed /\ SignedLinked => SignedLinked'
    /\ UNCHANGED <<stage, request>> /\ RequestLinked => RequestLinked'
    /\ UNCHANGED <<stage, request, lock_holder, chain_state>> /\ LockedFits => LockedFits'
    /\ UNCHANGED dbVars /\ ChainIntact => ChainIntact'
BY DEF SignedLinked, RequestLinked, LockedFits, dbVars, ChainIntact, NoGapNoFork, HashLinked

\* A transaction that changes its own stage, not to "locked", and leaves the head
\* alone keeps the parts about requests and about the lock.
LEMMA StageFrame ==
    ASSUME TypeOK, RequestLinked, LockedFits, NEW c \in Call, NEW k \in Copy,
           NEW a, a # "locked", stage[c][k] # "idle",
           stage' = [stage EXCEPT ![c][k] = a],
           UNCHANGED <<request, chain_state>>,
           lock_holder' = lock_holder \/ lock_holder = <<c, k>>
    PROVE  RequestLinked' /\ LockedFits'
<1>1. \A d \in Call, m \in Copy :
         /\ stage'[d][m] # "idle" => stage[d][m] # "idle"
         /\ stage'[d][m] = "locked" => stage[d][m] = "locked" /\ <<d, m>> # <<c, k>>
  BY DEF TypeOK
<1>2. RequestLinked'
  BY <1>1 DEF RequestLinked
<1>3. LockedFits'
  BY <1>1 DEF LockedFits
<1> QED BY <1>2, <1>3

\* Every step of the appender, the database and the network keeps the inductive
\* invariant.
LEMMA ChainStep == ASSUME IInv, [Next]_vars PROVE IInv'
<1> USE DEF IInv
<1>0. TypeInv' /\ TypeOK
  BY TypeStep DEF TypeInv
<1> SUFFICES (SignedLinked /\ RequestLinked /\ LockedFits /\ ChainIntact)'
  BY <1>0
<1> DEFINE Goal == (SignedLinked /\ RequestLinked /\ LockedFits /\ ChainIntact)'
<1>1. ASSUME NEW c \in Call, FetchChainHead(c) PROVE Goal
  <2>1. LinkedRun(<<>>, c)
    BY BatchAssumption DEF LinkedRun
  <2>2. SignedLinked'
    BY <1>0, <1>1, <2>1 DEF FetchChainHead, SignedLinked, TypeOK
  <2> QED BY <1>1, <2>2, Frame DEF FetchChainHead, dbVars, txVars
<1>2. ASSUME NEW c \in Call, FetchChainHeadFails(c) PROVE Goal
  BY <1>2, Frame DEF FetchChainHeadFails, dbVars, txVars
<1>3. ASSUME NEW c \in Call, SignNext(c) PROVE Goal
  <2>1. SignedLinked'
    <3>1. CASE LastSigned(c).last_sequence_no + 1 > MaxSequenceNo
      BY <1>3, <3>1, Frame DEF SignNext
    <3>2. CASE ~(LastSigned(c).last_sequence_no + 1 > MaxSequenceNo)
      <4> DEFINE s == signed[c]
                 row == Sign(Batch[c][Len(s) + 1], LastSigned(c))
      <4>1. signed' = [signed EXCEPT ![c] = Append(s, row)] /\ Len(s) < Len(Batch[c])
        BY <1>3, <3>2 DEF SignNext
      <4>2. row \in Row
        <5>1. signed'[c] = Append(s, row) /\ signed'[c] \in Seq(Row) /\ s \in Seq(Row)
          BY <1>0, <4>1 DEF TypeInv, TypeOK
        <5>2. Len(signed'[c]) = Len(s) + 1 /\ signed'[c][Len(s) + 1] = row
          BY <5>1
        <5> QED BY <5>1, <5>2
      <4>3. s \in Seq(Row) /\ LinkedRun(s, c)
        BY <1>0 DEF TypeOK, SignedLinked
      <4>4. s # <<>> => /\ row.sequence_no = s[Len(s)].sequence_no + 1
                        /\ row.previous_entry_hash = s[Len(s)].entry_hash
        BY <4>3 DEF Sign, LastSigned
      <4>5. /\ row.ledger_entry_id = Batch[c][Len(s) + 1]
            /\ row.entry_hash = EntryHash(row.ledger_entry_id, row.sequence_no,
                                          row.previous_entry_hash)
        BY DEF Sign
      <4>6. LinkedRun(Append(s, row), c)
        BY <4>1, <4>2, <4>3, <4>4, <4>5, ExtendRun
      <4> QED BY <1>0, <4>1, <4>6 DEF SignedLinked, TypeOK
    <3> QED BY <3>1, <3>2
  <2> QED BY <1>3, <2>1, Frame DEF SignNext, dbVars, txVars
<1>4. ASSUME NEW c \in Call, SendRequest(c) PROVE Goal
  <2>1. PICK k \in Copy : /\ stage' = [stage EXCEPT ![c][k] = "sent"]
                          /\ request' = [request EXCEPT ![c][k] = signed[c]]
    BY <1>4 DEF SendRequest
  <2>2. RequestLinked'
    BY <1>0, <2>1 DEF RequestLinked, SignedLinked, TypeOK
  <2>3. LockedFits'
    BY <1>0, <1>4, <2>1 DEF SendRequest, LockedFits, TypeOK, dbVars
  <2> QED BY <1>4, <2>2, <2>3, Frame DEF SendRequest, dbVars
<1>5. ASSUME NEW c \in Call, NEW k \in Copy, ReceiveAnswer(c, k) PROVE Goal
  <2>1. RequestLinked' /\ LockedFits'
    BY <1>0, <1>5, StageFrame DEF ReceiveAnswer, Answers, dbVars
  <2> QED BY <1>5, <2>1, Frame DEF ReceiveAnswer, dbVars
<1>6. ASSUME NEW c \in Call, GiveUp(c) PROVE Goal
  BY <1>6, Frame DEF GiveUp, dbVars, txVars
<1>7. ASSUME NEW c \in Call, NEW j \in Copy, NEW k \in Copy, DuplicateRequest(c, j, k)
      PROVE Goal
  <2>1. stage[c][j] # "idle" /\ stage[c][k] = "idle"
    BY <1>7 DEF DuplicateRequest, Running, Answers
  <2>2. RequestLinked'
    BY <1>0, <1>7, <2>1 DEF DuplicateRequest, RequestLinked, TypeOK
  <2>3. LockedFits'
    BY <1>0, <1>7, <2>1 DEF DuplicateRequest, LockedFits, TypeOK, dbVars
  <2> QED BY <1>7, <2>2, <2>3, Frame DEF DuplicateRequest, dbVars, callVars
<1>8. ASSUME NEW c \in Call, NEW k \in Copy, DropAnswer(c, k) PROVE Goal
  <2>1. RequestLinked' /\ LockedFits'
    BY <1>0, <1>8, StageFrame DEF DropAnswer, Answers, dbVars
  <2> QED BY <1>8, <2>1, Frame DEF DropAnswer, dbVars, callVars
<1>9. ASSUME NEW c \in Call, NEW k \in Copy, LookUpEntryId(c, k) PROVE Goal
  <2> DEFINE e == request[c][k][1]
             a == CASE e \in ledger_entries -> "ok"
                    [] e.ledger_entry_id \notin Ids(ledger_entries) -> "checked"
                    [] OTHER -> "id_conflict"
  <2>1. a # "locked"
    OBVIOUS
  <2>2. /\ stage' = [stage EXCEPT ![c][k] = a] /\ stage[c][k] = "sent"
        /\ UNCHANGED <<request, chain_state, lock_holder>>
    BY <1>9 DEF LookUpEntryId, dbVars
  <2> HIDE DEF a
  <2>3. RequestLinked' /\ LockedFits'
    BY <1>0, <2>1, <2>2, StageFrame
  <2> QED BY <1>9, <2>3, Frame DEF LookUpEntryId, dbVars, callVars
<1>10. ASSUME NEW c \in Call, NEW k \in Copy, LockChainState(c, k) PROVE Goal
  <2>1. stage[c][k] = "checked" /\ lock_holder = NoTx
    BY <1>10 DEF LockChainState, RowLockFree
  <2>2. UNCHANGED <<request, dbVars, signed>>
    BY <1>10 DEF LockChainState, callVars
  <2>3. CASE stage' = [stage EXCEPT ![c][k] = "locked"]
    <3>1. /\ lock_holder' = <<c, k>>
          /\ request[c][k][1].sequence_no = chain_state.last_sequence_no + 1
          /\ request[c][k][1].previous_entry_hash = chain_state.last_entry_hash
      <4>1. PICK a \in {"seq_mismatch", "prev_mismatch", "locked"} :
               /\ stage' = [stage EXCEPT ![c][k] = a]
               /\ a = "locked" =>
                     /\ lock_holder' = <<c, k>>
                     /\ request[c][k][1].sequence_no = chain_state.last_sequence_no + 1
                     /\ request[c][k][1].previous_entry_hash = chain_state.last_entry_hash
        BY <1>10, LockStep
      <4>2. a = stage'[c][k] /\ stage'[c][k] = "locked"
        BY <1>0, <2>3, <4>1 DEF TypeOK
      <4> QED BY <4>1, <4>2
    <3>2. \A d \in Call, m \in Copy : stage[d][m] # "locked"
      BY <2>1 DEF LockedFits, NoTx
    <3>3. LockedFits'
      BY <1>0, <2>2, <2>3, <3>1, <3>2 DEF LockedFits, TypeOK, dbVars
    <3>4. RequestLinked'
      BY <1>0, <2>1, <2>2, <2>3 DEF RequestLinked, TypeOK
    <3> QED BY <2>2, <3>3, <3>4, Frame
  <2>4. CASE stage' # [stage EXCEPT ![c][k] = "locked"]
    <3>1. PICK a \in {"seq_mismatch", "prev_mismatch"} :
             stage' = [stage EXCEPT ![c][k] = a] /\ lock_holder' = lock_holder
      BY <1>10, <2>4, LockStep
    <3>2. RequestLinked' /\ LockedFits'
      BY <1>0, <2>1, <2>2, <3>1, StageFrame DEF dbVars
    <3> QED BY <2>2, <3>2, Frame
  <2> QED BY <2>3, <2>4
<1>11. ASSUME NEW c \in Call, NEW k \in Copy, CommitAppend(c, k) PROVE Goal
  <2> DEFINE r == request[c][k]
  <2>1. /\ stage[c][k] = "locked" /\ lock_holder = <<c, k>>
        /\ r[1].sequence_no = chain_state.last_sequence_no + 1
        /\ r[1].previous_entry_hash = chain_state.last_entry_hash
    BY <1>11 DEF CommitAppend, LockedFits
  <2>2. r \in Seq(Row) /\ r # <<>> /\ LinkedRun(r, c)
    BY <1>0, <2>1 DEF TypeOK, TypeInv, RequestNonEmpty, RequestLinked
  <2>3. UNCHANGED <<request, signed>>
    BY <1>11 DEF CommitAppend, callVars
  <2>4. PICK a \in {"id_conflict", "ok"} :
           /\ stage' = [stage EXCEPT ![c][k] = a]
           /\ IF a = "ok"
              THEN /\ ledger_entries' = ledger_entries \cup Rows(r)
                   /\ chain_state' = [last_sequence_no |-> r[Len(r)].sequence_no,
                                      last_entry_hash |-> r[Len(r)].entry_hash]
              ELSE UNCHANGED dbVars
    BY <1>11, CommitStep
  <2>5. \A d \in Call, m \in Copy : stage'[d][m] # "locked"
    BY <1>0, <2>1, <2>4 DEF LockedFits, TypeOK
  <2>6. LockedFits'
    BY <2>5 DEF LockedFits
  <2>7. RequestLinked'
    BY <1>0, <2>1, <2>3, <2>4 DEF RequestLinked, TypeOK
  <2>8. ChainIntact'
    <3>1. CASE a = "ok"
      BY <1>0, <2>1, <2>2, <2>4, <3>1, ExtendChain
    <3>2. CASE a # "ok"
      BY <2>4, <3>2, Frame
    <3> QED BY <3>1, <3>2
  <2> QED BY <2>3, <2>6, <2>7, <2>8, Frame
<1>12. ASSUME NEW c \in Call, NEW k \in Copy, AbortTx(c, k) PROVE Goal
  <2>1. RequestLinked' /\ LockedFits'
    BY <1>0, <1>12, StageFrame DEF AbortTx, Running, dbVars
  <2> QED BY <1>12, <2>1, Frame DEF AbortTx, dbVars, callVars
<1>13. CASE UNCHANGED vars
  BY <1>13, Frame DEF vars, dbVars, callVars, txVars
<1> QED BY <1>1, <1>2, <1>3, <1>4, <1>5, <1>6, <1>7, <1>8, <1>9, <1>10, <1>11, <1>12, <1>13
        DEF Next, CallStep, TxStep, Quiescent

\* However many calls race, retry, time out or have their requests repeated, the
\* ledger is one gapless hash chain ending in ledger_chain_state.
THEOREM ChainIntegrity == Spec => []ChainIntact
<1>1. IInv => ChainIntact
  BY DEF IInv
<1> QED BY <1>1, ChainInit, ChainStep, PTL DEF Spec

\* What a step does to the tables: nothing, or a commit that puts the rows of one
\* request after the head.
LEMMA TableStep ==
    ASSUME IInv, [Next]_vars
    PROVE  \/ UNCHANGED dbVars
           \/ \E c \in Call, k \in Copy :
                 /\ stage[c][k] = "locked"
                 /\ ledger_entries' = ledger_entries \cup Rows(request[c][k])
                 /\ chain_state'.last_sequence_no =
                       chain_state.last_sequence_no + Len(request[c][k])
<1>1. ASSUME NEW c \in Call, NEW k \in Copy, CommitAppend(c, k), ~UNCHANGED dbVars
      PROVE  /\ stage[c][k] = "locked"
             /\ ledger_entries' = ledger_entries \cup Rows(request[c][k])
             /\ chain_state'.last_sequence_no =
                   chain_state.last_sequence_no + Len(request[c][k])
  <2> DEFINE r == request[c][k]
  <2>1. /\ stage[c][k] = "locked"
        /\ ledger_entries' = ledger_entries \cup Rows(r)
        /\ chain_state' = [last_sequence_no |-> r[Len(r)].sequence_no,
                           last_entry_hash |-> r[Len(r)].entry_hash]
    BY <1>1, CommitStep DEF CommitAppend
  <2>2. r[1].sequence_no = chain_state.last_sequence_no + 1 /\ LinkedRun(r, c)
    BY <2>1 DEF IInv, LockedFits, RequestLinked
  <2>3. r \in Seq(Row) /\ r # <<>> /\ chain_state.last_sequence_no \in Nat
    BY <2>1, SequenceAssumption
    DEF IInv, TypeInv, TypeOK, RequestNonEmpty, ChainHead
  <2>4. Len(r) \in 1..Len(r)
    BY <2>3
  <2>5. r[Len(r)].sequence_no = r[1].sequence_no + (Len(r) - 1)
    BY <2>2, <2>4 DEF LinkedRun
  <2>6. chain_state'.last_sequence_no = r[Len(r)].sequence_no
    BY <2>1
  <2>7. Len(r) \in Nat /\ chain_state.last_sequence_no \in Nat
    BY <2>3
  <2>8. (chain_state.last_sequence_no + 1) + (Len(r) - 1) = chain_state.last_sequence_no + Len(r)
    BY <2>7
  <2>9. r[Len(r)].sequence_no = chain_state.last_sequence_no + Len(r)
    BY <2>2, <2>5, <2>8
  <2> QED BY <2>1, <2>6, <2>9
<1>2. ASSUME NEW c \in Call, CallStep(c) PROVE UNCHANGED dbVars
  BY <1>2 DEF CallStep, FetchChainHead, FetchChainHeadFails, SignNext, SendRequest,
              ReceiveAnswer, GiveUp, dbVars
<1>3. ASSUME NEW c \in Call, NEW k \in Copy, TxStep(c, k), ~CommitAppend(c, k)
      PROVE  UNCHANGED dbVars
  BY <1>3 DEF TxStep, DropAnswer, LookUpEntryId, LockChainState, AbortTx,
              DuplicateRequest, dbVars
<1>4. UNCHANGED vars => UNCHANGED dbVars
  BY DEF vars, dbVars
<1> QED BY <1>1, <1>2, <1>3, <1>4 DEF Next, TxStep, Quiescent

\* Rows are never changed or removed and are only added after the head, at every
\* step of every instance.
THEOREM AppendOnlyHolds == Spec => AppendOnly
<1> DEFINE Grows == /\ ledger_entries \subseteq ledger_entries'
                    /\ \A e \in ledger_entries' \ ledger_entries :
                          e.sequence_no > chain_state.last_sequence_no
                    /\ chain_state'.last_sequence_no >= chain_state.last_sequence_no
<1>1. ASSUME IInv, [Next]_vars PROVE Grows
  <2>1. chain_state.last_sequence_no \in Nat
    BY <1>1, SequenceAssumption DEF IInv, TypeInv, TypeOK, ChainHead
  <2>2. CASE UNCHANGED dbVars
    BY <2>1, <2>2 DEF dbVars
  <2>3. ASSUME NEW c \in Call, NEW k \in Copy, stage[c][k] = "locked",
               ledger_entries' = ledger_entries \cup Rows(request[c][k]),
               chain_state'.last_sequence_no =
                  chain_state.last_sequence_no + Len(request[c][k])
        PROVE  Grows
    <3> DEFINE r == request[c][k]
    <3>1. /\ r[1].sequence_no = chain_state.last_sequence_no + 1
          /\ LinkedRun(r, c) /\ r \in Seq(Row)
      BY <1>1, <2>3 DEF IInv, LockedFits, RequestLinked, TypeInv, TypeOK
    <3>2. \A i \in 1..Len(r) : r[i].sequence_no > chain_state.last_sequence_no
      BY <2>1, <3>1 DEF LinkedRun
    <3>3. \A e \in ledger_entries' \ ledger_entries :
             e.sequence_no > chain_state.last_sequence_no
      BY <2>3, <3>2 DEF Rows
    <3>4. chain_state'.last_sequence_no >= chain_state.last_sequence_no
      <4>1. Len(r) \in Nat
        BY <3>1
      <4> QED BY <2>1, <2>3, <4>1
    <3> QED BY <2>3, <3>3, <3>4
  <2> QED BY <1>1, <2>2, <2>3, TableStep
<1> QED BY <1>1, ChainInit, ChainStep, PTL DEF Spec, AppendOnly

-----------------------------------------------------------------------------
(***************************************************************************)
(* What the ledger promises its callers.  None of it is inductive.  It     *)
(* needs, of the callers, that an attempt is signed on a head that was     *)
(* current once; of the network, that a single-shot call has one request,  *)
(* however often it is delivered; and of the tables, that rows come in     *)
(* batches.                                                                *)
(***************************************************************************)

\* A call has an outcome when it is done, waits only after a fetch, and with all
\* of its drafts signed.
CallInv ==
    \A c \in Call :
       /\ outcome[c] # "none" <=> pc[c] = "done"
       /\ pc[c] \in {"sign", "wait"} => attempts[c] >= 1
       /\ pc[c] = "wait" => Len(signed[c]) = Len(Batch[c])

\* Requests carry all drafts of their call and are delivered by its copies.
RequestInv ==
    \A c \in Call, k \in Copy : stage[c][k] # "idle" =>
       k \in Copies[c] /\ Len(request[c][k]) = Len(Batch[c])

\* A place that is or was the head of the chain.
WasHead(n, h) ==
    /\ n <= chain_state.last_sequence_no
    /\ n = chain_state.last_sequence_no => h = chain_state.last_entry_hash

\* Entries are signed on a head that was current once, and a refused request is
\* behind the head.
HeadInv ==
    /\ \A c \in Call :
          /\ WasHead(head[c].last_sequence_no, head[c].last_entry_hash)
          /\ signed[c] # <<>> =>
                /\ signed[c][1].sequence_no = head[c].last_sequence_no + 1
                /\ signed[c][1].previous_entry_hash = head[c].last_entry_hash
          /\ pc[c] = "start" /\ attempts[c] > 0 =>
                head[c].last_sequence_no < chain_state.last_sequence_no
    /\ \A c \in Call, k \in Copy :
          /\ stage[c][k] # "idle" =>
                WasHead(request[c][k][1].sequence_no - 1, request[c][k][1].previous_entry_hash)
          /\ stage[c][k] \in {"seq_mismatch", "prev_mismatch"} =>
                request[c][k][1].sequence_no <= chain_state.last_sequence_no

\* The drafts of c are the rows after place n.
BatchAt(c, n) ==
    /\ n + Len(Batch[c]) <= chain_state.last_sequence_no
    /\ \A j \in 1..Len(Batch[c]) : \E f \in ledger_entries :
          f.sequence_no = n + j /\ f.ledger_entry_id = Batch[c][j]

\* No id is in the ledger twice, and every row is there with its batch.
RowInv ==
    /\ \A e, f \in ledger_entries : e.ledger_entry_id = f.ledger_entry_id => e = f
    /\ \A e \in ledger_entries : \E c \in Call :
          \E n \in 0..chain_state.last_sequence_no, i \in 1..Len(Batch[c]) :
             /\ e.sequence_no = n + i /\ e.ledger_entry_id = Batch[c][i]
             /\ BatchAt(c, n)

\* Some draft of c is in the ledger.
Present(c) == \E e \in ledger_entries, i \in 1..Len(Batch[c]) :
                 e.ledger_entry_id = Batch[c][i]

\* A single-shot call has one request, and what is in the ledger of it are the
\* rows of that request.
ShotInv ==
    \A c \in Call \ Retrying :
       /\ \A k \in Copy : stage[c][k] # "idle" =>
             request[c][k] = signed[c] /\ pc[c] \in {"wait", "done"}
       /\ Present(c) => Rows(signed[c]) \subseteq ledger_entries /\ pc[c] \in {"wait", "done"}

\* An answer Ok of the database means that all rows of the request are there.
OkInv == \A c \in Call, k \in Copy :
            stage[c][k] = "ok" => Rows(request[c][k]) \subseteq ledger_entries

\* A call whose requests are delivered once: while it waits, its request is the
\* one it signed last; while it may still try again, and after a conflict, it has
\* nothing in the ledger except the rows it is about to be told of.
CopyInv ==
    \A c \in Call : Cardinality(Copies[c]) = 1 =>
       /\ \A k \in Copy : stage[c][k] # "idle" =>
             /\ pc[c] \in {"wait", "done"} /\ outcome[c] # "conflict"
             /\ pc[c] = "wait" => request[c][k] = signed[c]
       /\ Present(c) /\ outcome[c] \in {"none", "conflict"} =>
             pc[c] = "wait" /\ \E k \in Copy : stage[c][k] = "ok"

Basis == IInv /\ CallInv /\ RequestInv
LInv == Basis /\ HeadInv /\ RowInv /\ ShotInv /\ OkInv /\ AckedIsDurable /\ CopyInv

-----------------------------------------------------------------------------
\* The invariant holds for an empty ledger and calls that have not begun.
LEMMA LogInit == Init => LInv
<1> SUFFICES ASSUME Init PROVE LInv
  OBVIOUS
<1>1. IInv
  BY ChainInit
<1>2. CallInv /\ RequestInv
  BY DEF Init, CallInv, RequestInv
<1>3. HeadInv
  BY SequenceAssumption DEF Init, HeadInv, WasHead, Genesis
<1>4. RowInv /\ OkInv /\ AckedIsDurable
  BY DEF Init, RowInv, OkInv, AckedIsDurable
<1>5. ShotInv /\ CopyInv
  BY DEF Init, ShotInv, CopyInv, Present
<1> QED BY <1>1, <1>2, <1>3, <1>4, <1>5 DEF LInv, Basis

\* What is known of a request under way.
LEMMA RequestFacts ==
    ASSUME Basis, NEW c \in Call, NEW k \in Copy, stage[c][k] # "idle"
    PROVE  /\ request[c][k] \in Seq(Row) /\ request[c][k] # <<>>
           /\ Len(request[c][k]) = Len(Batch[c]) /\ Len(Batch[c]) \in Nat \ {0}
           /\ \A i \in 1..Len(Batch[c]) :
                 /\ request[c][k][i] \in Row
                 /\ request[c][k][i].ledger_entry_id = Batch[c][i]
                 /\ request[c][k][i].sequence_no = request[c][k][1].sequence_no + (i - 1)
           /\ request[c][k][1].sequence_no \in Nat \ {0}
<1>1. /\ request[c][k] \in Seq(Row) /\ request[c][k] # <<>>
      /\ LinkedRun(request[c][k], c) /\ Len(request[c][k]) = Len(Batch[c])
  BY DEF Basis, IInv, TypeInv, TypeOK, RequestNonEmpty, RequestLinked, RequestInv
<1>2. Len(Batch[c]) \in Nat \ {0} /\ 1 \in 1..Len(Batch[c])
  BY <1>1
<1>3. \A i \in 1..Len(Batch[c]) : request[c][k][i] \in Row
  BY <1>1
<1>4. request[c][k][1].sequence_no \in Nat \ {0}
  BY <1>2, <1>3, SequenceAssumption DEF Row
<1> QED BY <1>1, <1>2, <1>3, <1>4 DEF LinkedRun

\* Callers and requests: every step keeps the bookkeeping.
LEMMA BasisStep == ASSUME Basis, [Next]_vars PROVE Basis'
<1>0. IInv' /\ IInv /\ TypeOK /\ TypeOK'
  BY ChainStep DEF Basis, IInv, TypeInv
<1> USE DEF CallInv, RequestInv, Basis
<1>1. ASSUME NEW c \in Call, FetchChainHead(c) PROVE Basis'
  BY <1>0, <1>1 DEF FetchChainHead, TypeOK, dbVars, txVars
<1>2. ASSUME NEW c \in Call, FetchChainHeadFails(c) PROVE Basis'
  BY <1>0, <1>2 DEF FetchChainHeadFails, Return, TypeOK, dbVars, txVars
<1>3. ASSUME NEW c \in Call, SignNext(c) PROVE Basis'
  BY <1>0, <1>3 DEF SignNext, Return, TypeOK, dbVars, txVars
<1>4. ASSUME NEW c \in Call, SendRequest(c) PROVE Basis'
  BY <1>0, <1>4 DEF SendRequest, TypeOK, dbVars
<1>5. ASSUME NEW c \in Call, NEW k \in Copy, ReceiveAnswer(c, k) PROVE Basis'
  <2>1. AppendResult(stage[c][k]) # "none"
    BY DEF AppendResult
  <2> QED BY <1>0, <1>5, <2>1 DEF ReceiveAnswer, Return, TypeOK, dbVars
<1>6. ASSUME NEW c \in Call, GiveUp(c) PROVE Basis'
  BY <1>0, <1>6 DEF GiveUp, Return, TypeOK, dbVars, txVars
<1>7. ASSUME NEW c \in Call, NEW j \in Copy, NEW k \in Copy, DuplicateRequest(c, j, k)
      PROVE Basis'
  <2>1. stage[c][j] # "idle" /\ k \in Copies[c]
    BY <1>7 DEF DuplicateRequest, Running, Answers
  <2>2. CallInv'
    BY <1>0, <1>7 DEF DuplicateRequest, callVars
  <2>3. RequestInv'
    BY <1>0, <1>7, <2>1 DEF DuplicateRequest, TypeOK
  <2> QED BY <1>0, <2>2, <2>3
<1>8. ASSUME NEW c \in Call, NEW k \in Copy,
             \E a : stage' = [stage EXCEPT ![c][k] = a],
             stage[c][k] # "idle", UNCHANGED <<request, callVars>>
      PROVE Basis'
  BY <1>0, <1>8 DEF TypeOK, callVars
<1>9. ASSUME NEW c \in Call, NEW k \in Copy, DropAnswer(c, k) \/ LookUpEntryId(c, k)
                                             \/ AbortTx(c, k)
      PROVE Basis'
  BY <1>8, <1>9 DEF DropAnswer, LookUpEntryId, AbortTx, Answers, Running
<1>10. ASSUME NEW c \in Call, NEW k \in Copy, LockChainState(c, k) PROVE Basis'
  BY <1>8, <1>10, LockStep DEF LockChainState
<1>11. ASSUME NEW c \in Call, NEW k \in Copy, CommitAppend(c, k) PROVE Basis'
  BY <1>8, <1>11, CommitStep DEF CommitAppend
<1>12. CASE UNCHANGED vars
  BY <1>0, <1>12 DEF vars, callVars, txVars
<1> QED BY <1>1, <1>2, <1>3, <1>4, <1>5, <1>6, <1>7, <1>9, <1>10, <1>11, <1>12
        DEF Next, CallStep, TxStep, Quiescent

-----------------------------------------------------------------------------
\* A place that was the head stays one: the head only moves forward.
LEMMA HeadKept ==
    ASSUME IInv, [Next]_vars, NEW n \in Int, NEW h, WasHead(n, h)
    PROVE  WasHead(n, h)'
<1>1. chain_state.last_sequence_no \in Nat
  BY SequenceAssumption DEF IInv, TypeInv, TypeOK, ChainHead
<1>2. CASE UNCHANGED dbVars
  BY <1>2 DEF WasHead, dbVars
<1>3. ASSUME NEW c \in Call, NEW k \in Copy, stage[c][k] = "locked",
             chain_state'.last_sequence_no = chain_state.last_sequence_no + Len(request[c][k])
      PROVE  WasHead(n, h)'
  <2>1. Len(request[c][k]) \in Nat \ {0}
    BY <1>3 DEF IInv, TypeInv, TypeOK, RequestNonEmpty
  <2> QED BY <1>1, <1>3, <2>1 DEF WasHead
<1> QED BY <1>2, <1>3, TableStep

\* The head never moves back.
LEMMA HeadForward ==
    ASSUME IInv, [Next]_vars
    PROVE  chain_state'.last_sequence_no >= chain_state.last_sequence_no
<1>1. chain_state.last_sequence_no \in Nat
  BY SequenceAssumption DEF IInv, TypeInv, TypeOK, ChainHead
<1>2. CASE UNCHANGED dbVars
  BY <1>1, <1>2 DEF dbVars
<1>3. ASSUME NEW c \in Call, NEW k \in Copy, stage[c][k] = "locked",
             chain_state'.last_sequence_no = chain_state.last_sequence_no + Len(request[c][k])
      PROVE  chain_state'.last_sequence_no >= chain_state.last_sequence_no
  <2>1. Len(request[c][k]) \in Nat
    BY <1>3 DEF IInv, TypeInv, TypeOK
  <2> QED BY <1>1, <1>3, <2>1
<1> QED BY <1>2, <1>3, TableStep

\* The part of HeadInv that is about a call, and the one about a request.
CallHead(c) ==
    /\ WasHead(head[c].last_sequence_no, head[c].last_entry_hash)
    /\ signed[c] # <<>> =>
          /\ signed[c][1].sequence_no = head[c].last_sequence_no + 1
          /\ signed[c][1].previous_entry_hash = head[c].last_entry_hash
    /\ pc[c] = "start" /\ attempts[c] > 0 =>
          head[c].last_sequence_no < chain_state.last_sequence_no
RequestHead(c, k) ==
    /\ stage[c][k] # "idle" =>
          WasHead(request[c][k][1].sequence_no - 1, request[c][k][1].previous_entry_hash)
    /\ stage[c][k] \in {"seq_mismatch", "prev_mismatch"} =>
          request[c][k][1].sequence_no <= chain_state.last_sequence_no

\* A call that does not move, or only gives up, keeps its part whatever the others do.
LEMMA CallHeadKept ==
    ASSUME Basis, [Next]_vars, NEW c \in Call, CallHead(c),
           head'[c] = head[c], signed'[c] = signed[c],
           pc'[c] = pc[c] \/ pc'[c] # "start", attempts'[c] = attempts[c]
    PROVE  CallHead(c)'
<1>1. head[c].last_sequence_no \in Int /\ chain_state.last_sequence_no \in Int
      /\ chain_state'.last_sequence_no \in Int
  BY BasisStep, SequenceAssumption DEF Basis, IInv, TypeInv, TypeOK, ChainHead
<1>2. WasHead(head[c].last_sequence_no, head[c].last_entry_hash)'
  <2> DEFINE n == head[c].last_sequence_no
             h == head[c].last_entry_hash
  <2>1. WasHead(n, h) /\ n \in Int
    BY <1>1 DEF CallHead
  <2> QED BY <2>1, HeadKept DEF Basis, WasHead
<1>3. chain_state'.last_sequence_no >= chain_state.last_sequence_no
  BY HeadForward DEF Basis
<1> QED BY <1>1, <1>2, <1>3 DEF CallHead

\* A request that stays where it is, or ends without a mismatch, keeps its part.
LEMMA RequestHeadKept ==
    ASSUME Basis, [Next]_vars, NEW c \in Call, NEW k \in Copy, RequestHead(c, k),
           request'[c][k] = request[c][k], stage'[c][k] # "idle" => stage[c][k] # "idle",
           \/ stage'[c][k] = stage[c][k]
           \/ stage'[c][k] \notin {"seq_mismatch", "prev_mismatch"}
    PROVE  RequestHead(c, k)'
<1>0. CASE stage'[c][k] = "idle"
  BY <1>0 DEF RequestHead
<1>1. CASE stage'[c][k] # "idle"
  <2> DEFINE n == request[c][k][1].sequence_no
             h == request[c][k][1].previous_entry_hash
  <2>0. chain_state.last_sequence_no \in Int /\ chain_state'.last_sequence_no \in Int
    BY BasisStep, SequenceAssumption DEF Basis, IInv, TypeInv, TypeOK, ChainHead
  <2>1. n \in Int
    BY <1>1, RequestFacts
  <2>2. WasHead(n - 1, h) /\ n - 1 \in Int
    BY <1>1, <2>1 DEF RequestHead
  <2>3. WasHead(request[c][k][1].sequence_no - 1, request[c][k][1].previous_entry_hash)'
    BY <2>2, HeadKept DEF Basis, WasHead
  <2>4. chain_state'.last_sequence_no >= chain_state.last_sequence_no
    BY HeadForward DEF Basis
  <2> QED BY <1>1, <2>0, <2>1, <2>3, <2>4 DEF RequestHead
<1> QED BY <1>0, <1>1

\* Heads, signed entries and requests on their way stay consistent with the chain.
LEMMA HeadStep == ASSUME Basis, HeadInv, [Next]_vars PROVE HeadInv'
<1>0. /\ TypeOK /\ TypeOK' /\ IInv /\ Basis'
      /\ \A c \in Call : head[c].last_sequence_no \in Nat
      /\ chain_state.last_sequence_no \in Nat
  <2>1. TypeOK /\ TypeOK' /\ IInv /\ Basis'
    BY BasisStep DEF Basis, IInv, TypeInv
  <2> QED BY <2>1, SequenceAssumption DEF TypeOK, ChainHead
<1>a. \A c \in Call : CallHead(c)
  BY DEF HeadInv, CallHead
<1>b. \A c \in Call, k \in Copy : RequestHead(c, k)
  BY DEF HeadInv, RequestHead
<1> SUFFICES /\ \A c \in Call : CallHead(c)'
             /\ \A c \in Call, k \in Copy : RequestHead(c, k)'
  BY DEF HeadInv, CallHead, RequestHead
<1> DEFINE Calls == \A c \in Call : CallHead(c)'
           Requests == \A c \in Call, k \in Copy : RequestHead(c, k)'
\* Steps that leave all requests, or all calls, where they are.
<1>c. ASSUME UNCHANGED <<stage, request>> PROVE Requests
  BY <1>b, <1>c, RequestHeadKept
<1>d. ASSUME UNCHANGED callVars PROVE Calls
  BY <1>a, <1>d, CallHeadKept DEF callVars
\* Steps of one call leave the others where they are.
<1>e. ASSUME NEW c \in Call, CallHead(c)', NEW d \in Call, CallStep(c), d # c PROVE CallHead(d)'
  <2>1. UNCHANGED <<head[d], signed[d], pc[d], attempts[d]>>
    BY <1>0, <1>e DEF CallStep, FetchChainHead, FetchChainHeadFails, SignNext, SendRequest,
                      ReceiveAnswer, GiveUp, Return, TypeOK
  <2> QED BY <1>a, <2>1, CallHeadKept
<1>1. ASSUME NEW c \in Call, FetchChainHead(c) PROVE Calls /\ Requests
  <2>1. CallHead(c)'
    BY <1>0, <1>1 DEF FetchChainHead, CallHead, WasHead, TypeOK, dbVars
  <2> QED BY <1>1, <1>c, <1>e, <2>1 DEF FetchChainHead, txVars, CallStep
<1>2. ASSUME NEW c \in Call, FetchChainHeadFails(c) PROVE Calls /\ Requests
  <2>1. CallHead(c)'
    BY <1>0, <1>a, <1>2 DEF FetchChainHeadFails, Return, CallHead, WasHead, TypeOK, dbVars
  <2> QED BY <1>2, <1>c, <1>e, <2>1 DEF FetchChainHeadFails, txVars, CallStep
<1>3. ASSUME NEW c \in Call, SignNext(c) PROVE Calls /\ Requests
  <2>1. CallHead(c)'
    <3>1. CASE UNCHANGED signed
      BY <1>0, <1>a, <1>3, <3>1, CallHeadKept DEF SignNext, Return, TypeOK
    <3>2. CASE ~UNCHANGED signed
      <4> DEFINE s == signed[c]
                 row == Sign(Batch[c][Len(s) + 1], LastSigned(c))
      <4>1. /\ signed' = [signed EXCEPT ![c] = Append(s, row)]
            /\ UNCHANGED <<pc, attempts, head, chain_state>> /\ pc[c] = "sign"
        BY <1>3, <3>2 DEF SignNext, dbVars
      <4>2. s \in Seq(Row) /\ signed'[c] = Append(s, row)
        BY <1>0, <4>1 DEF TypeOK
      <4>3. Len(s) = 0 => /\ row.sequence_no = head[c].last_sequence_no + 1
                          /\ row.previous_entry_hash = head[c].last_entry_hash
        BY DEF Sign, LastSigned
      <4>4. signed'[c][1] = IF Len(s) = 0 THEN row ELSE s[1]
        <5> HIDE DEF row
        <5>1. row \in Row
          <6>1. signed'[c] \in Seq(Row) /\ Len(signed'[c]) = Len(s) + 1
            BY <1>0, <4>2 DEF TypeOK
          <6>2. signed'[c][Len(s) + 1] = row
            BY <4>2
          <6> QED BY <4>2, <6>1, <6>2
        <5> QED BY <4>2, <5>1
      <4>5. s # <<>> <=> Len(s) # 0
        BY <4>2
      <4> HIDE DEF row
      <4>6. /\ signed'[c][1].sequence_no = head[c].last_sequence_no + 1
            /\ signed'[c][1].previous_entry_hash = head[c].last_entry_hash
        BY <1>a, <4>3, <4>4, <4>5 DEF CallHead
      <4> QED BY <1>a, <4>1, <4>6 DEF CallHead, WasHead
    <3> QED BY <3>1, <3>2
  <2> QED BY <1>3, <1>c, <1>e, <2>1 DEF SignNext, txVars, CallStep
<1>4. ASSUME NEW c \in Call, SendRequest(c) PROVE Calls /\ Requests
  <2>1. CallHead(c)'
    BY <1>0, <1>a, <1>4, CallHeadKept DEF SendRequest, TypeOK
  <2>2. ASSUME NEW d \in Call, NEW m \in Copy PROVE RequestHead(d, m)'
    <3>1. PICK k \in Copy : /\ stage' = [stage EXCEPT ![c][k] = "sent"]
                            /\ request' = [request EXCEPT ![c][k] = signed[c]]
      BY <1>4 DEF SendRequest
    <3>2. CASE <<d, m>> = <<c, k>>
      <4>1. /\ stage'[d][m] = "sent" /\ request'[d][m] = signed[c] /\ UNCHANGED chain_state
            /\ signed[c] # <<>>
        BY <1>0, <1>4, <3>1, <3>2, BatchAssumption DEF SendRequest, TypeOK, dbVars
      <4>2. signed[c][1].sequence_no - 1 = head[c].last_sequence_no
        BY <1>0, <1>a, <4>1 DEF CallHead
      <4> QED BY <1>a, <4>1, <4>2 DEF CallHead, RequestHead, WasHead
    <3>3. CASE <<d, m>> # <<c, k>>
      <4>1. stage'[d][m] = stage[d][m] /\ request'[d][m] = request[d][m]
        BY <1>0, <3>1, <3>3 DEF TypeOK
      <4> QED BY <1>b, <4>1, RequestHeadKept
    <3> QED BY <3>2, <3>3
  <2> QED BY <1>4, <1>e, <2>1, <2>2 DEF CallStep
<1>5. ASSUME NEW c \in Call, NEW k \in Copy, ReceiveAnswer(c, k) PROVE Calls /\ Requests
  <2>1. CallHead(c)'
    <3>1. CASE pc'[c] # "start"
      BY <1>0, <1>a, <1>5, <3>1, CallHeadKept DEF ReceiveAnswer
    <3>2. CASE pc'[c] = "start"
      <4>1. /\ stage[c][k] \in {"seq_mismatch", "prev_mismatch"} /\ request[c][k] = signed[c]
            /\ UNCHANGED <<head, signed, attempts, chain_state>>
        BY <1>0, <1>5, <3>2 DEF ReceiveAnswer, Retryable, Return, TypeOK, dbVars
      <4>2. signed[c] # <<>>
        BY <4>1, RequestFacts
      <4>3. signed[c][1].sequence_no <= chain_state.last_sequence_no
        BY <1>b, <4>1 DEF RequestHead
      <4>4. head[c].last_sequence_no < chain_state.last_sequence_no
        BY <1>0, <1>a, <4>2, <4>3 DEF CallHead
      <4> QED BY <1>a, <4>1, <4>4 DEF CallHead, WasHead
    <3> QED BY <3>1, <3>2
  <2>2. Requests
    <3>1. \A d \in Call, m \in Copy : /\ stage'[d][m] \in {"idle", stage[d][m]}
                                        /\ request'[d][m] = request[d][m]
      BY <1>0, <1>5 DEF ReceiveAnswer, TypeOK
    <3> QED BY <1>b, <3>1, RequestHeadKept
  <2> QED BY <1>5, <1>e, <2>1, <2>2 DEF CallStep
<1>6. ASSUME NEW c \in Call, GiveUp(c) PROVE Calls /\ Requests
  <2>1. CallHead(c)'
    BY <1>0, <1>a, <1>6, CallHeadKept DEF GiveUp, Return, TypeOK
  <2> QED BY <1>6, <1>c, <1>e, <2>1 DEF GiveUp, txVars, CallStep
<1>7. ASSUME NEW c \in Call, NEW j \in Copy, NEW k \in Copy, DuplicateRequest(c, j, k)
      PROVE Calls /\ Requests
  <2>1. ASSUME NEW d \in Call, NEW m \in Copy PROVE RequestHead(d, m)'
    <3>1. CASE <<d, m>> = <<c, k>>
      BY <1>0, <1>b, <1>7, <3>1
      DEF DuplicateRequest, RequestHead, WasHead, TypeOK, Running, Answers, dbVars
    <3>2. CASE <<d, m>> # <<c, k>>
      <4>1. stage'[d][m] = stage[d][m] /\ request'[d][m] = request[d][m]
        BY <1>0, <1>7, <3>2 DEF DuplicateRequest, TypeOK
      <4> QED BY <1>b, <4>1, RequestHeadKept
    <3> QED BY <3>1, <3>2
  <2> QED BY <1>7, <1>d, <2>1 DEF DuplicateRequest
<1>8. ASSUME NEW c \in Call, NEW k \in Copy, NEW a, stage' = [stage EXCEPT ![c][k] = a],
             stage[c][k] # "idle", a \notin {"seq_mismatch", "prev_mismatch"},
             UNCHANGED <<request, callVars>>
      PROVE Calls /\ Requests
  <2>1. Requests
    <3>1. \A d \in Call, m \in Copy :
             /\ request'[d][m] = request[d][m]
             /\ \/ stage'[d][m] = stage[d][m]
                \/ stage'[d][m] = a /\ stage[d][m] # "idle"
      BY <1>0, <1>8 DEF TypeOK
    <3> QED BY <1>8, <1>b, <3>1, RequestHeadKept
  <2> QED BY <1>8, <1>d, <2>1
<1>9. ASSUME NEW c \in Call, NEW k \in Copy, DropAnswer(c, k) \/ AbortTx(c, k)
      PROVE Calls /\ Requests
  BY <1>8, <1>9 DEF DropAnswer, AbortTx, Answers, Running
<1>10. ASSUME NEW c \in Call, NEW k \in Copy, LookUpEntryId(c, k) PROVE Calls /\ Requests
  <2> DEFINE e == request[c][k][1]
             a == CASE e \in ledger_entries -> "ok"
                    [] e.ledger_entry_id \notin Ids(ledger_entries) -> "checked"
                    [] OTHER -> "id_conflict"
  <2>1. a \notin {"seq_mismatch", "prev_mismatch"}
    OBVIOUS
  <2>2. stage' = [stage EXCEPT ![c][k] = a]
    BY <1>10 DEF LookUpEntryId
  <2> HIDE DEF a
  <2> QED BY <1>8, <1>10, <2>1, <2>2 DEF LookUpEntryId
<1>11. ASSUME NEW c \in Call, NEW k \in Copy, CommitAppend(c, k) PROVE Calls /\ Requests
  BY <1>8, <1>11, CommitStep DEF CommitAppend
<1>12. ASSUME NEW c \in Call, NEW k \in Copy, LockChainState(c, k) PROVE Calls /\ Requests
  <2> DEFINE e == request[c][k][1]
  <2>1. stage[c][k] = "checked" /\ UNCHANGED <<request, callVars, chain_state>>
    BY <1>12 DEF LockChainState, dbVars
  <2>2. e.sequence_no \in Nat /\ WasHead(e.sequence_no - 1, e.previous_entry_hash)
    BY <1>b, <2>1, RequestFacts DEF RequestHead
  <2>3. PICK a \in {"seq_mismatch", "prev_mismatch", "locked"} :
           /\ stage' = [stage EXCEPT ![c][k] = a]
           /\ a = "locked" \/ e.sequence_no # chain_state.last_sequence_no + 1
                           \/ e.previous_entry_hash # chain_state.last_entry_hash
    BY <1>12 DEF LockChainState
  <2>4. CASE a = "locked"
    BY <1>8, <2>1, <2>3, <2>4
  <2>5. CASE a # "locked"
    <3>1. e.sequence_no <= chain_state.last_sequence_no
      BY <1>0, <2>2, <2>3, <2>5 DEF WasHead
    <3>2. ASSUME NEW d \in Call, NEW m \in Copy PROVE RequestHead(d, m)'
      <4>1. CASE <<d, m>> = <<c, k>>
        BY <1>0, <2>1, <2>2, <3>1, <4>1 DEF RequestHead, WasHead
      <4>2. CASE <<d, m>> # <<c, k>>
        BY <1>0, <1>b, <2>1, <2>3, <4>2, RequestHeadKept DEF TypeOK
      <4> QED BY <4>1, <4>2
    <3> QED BY <1>d, <2>1, <3>2
  <2> QED BY <2>4, <2>5
<1>13. CASE UNCHANGED vars
  BY <1>c, <1>d, <1>13 DEF vars, txVars
<1> QED BY <1>1, <1>2, <1>3, <1>4, <1>5, <1>6, <1>7, <1>9, <1>10, <1>11, <1>12, <1>13
        DEF Next, CallStep, TxStep, Quiescent

-----------------------------------------------------------------------------
\* A commit: the drafts of c, none of which was there, become the rows after the
\* head, and nothing but the stage of its request changes.
Commits(c, k) ==
    /\ stage[c][k] = "locked" /\ stage' = [stage EXCEPT ![c][k] = "ok"]
    /\ UNCHANGED <<request, callVars>>
    /\ ledger_entries' = ledger_entries \cup Rows(request[c][k])
    /\ \A i \in 1..Len(Batch[c]) :
          /\ request[c][k][i].ledger_entry_id = Batch[c][i]
          /\ request[c][k][i].sequence_no = chain_state.last_sequence_no + i
          /\ request[c][k][i] \in Row
          /\ \A e \in ledger_entries : e.ledger_entry_id # Batch[c][i]
    /\ Len(request[c][k]) = Len(Batch[c]) /\ Len(Batch[c]) \in Nat \ {0}
    /\ chain_state.last_sequence_no \in Nat
    /\ chain_state'.last_sequence_no = chain_state.last_sequence_no + Len(Batch[c])

\* CommitAppend that answers Ok, or changes the tables at all, is a commit.
LEMMA CommitsOnly ==
    ASSUME Basis, NEW c \in Call, NEW k \in Copy, CommitAppend(c, k),
           stage'[c][k] = "ok" \/ ~UNCHANGED dbVars
    PROVE  Commits(c, k)
<1> DEFINE r == request[c][k]
           n == chain_state.last_sequence_no
           m == Len(Batch[c])
<1>1. /\ stage[c][k] = "locked" /\ stage' = [stage EXCEPT ![c][k] = "ok"]
      /\ ledger_entries' = ledger_entries \cup Rows(r)
      /\ Ids(Rows(r)) \cap Ids(ledger_entries) = {}
      /\ chain_state' = [last_sequence_no |-> r[Len(r)].sequence_no,
                         last_entry_hash |-> r[Len(r)].entry_hash]
      /\ UNCHANGED <<request, callVars>>
  <2>1. stage \in [Call -> [Copy -> {"idle"} \cup Running \cup Answers]]
    BY DEF Basis, IInv, TypeInv, TypeOK
  <2>2. CASE Ids(Rows(r)) \cap Ids(ledger_entries) # {}
    <3>1. stage'[c][k] = "id_conflict" /\ UNCHANGED dbVars
      BY <2>1, <2>2 DEF CommitAppend
    <3> QED BY <3>1
  <2>3. CASE Ids(Rows(r)) \cap Ids(ledger_entries) = {}
    BY <2>3 DEF CommitAppend
  <2> QED BY <2>2, <2>3
<1>2. /\ Len(r) = m /\ m \in Nat \ {0} /\ r[1].sequence_no = n + 1 /\ n \in Nat
      /\ \A i \in 1..m : /\ r[i].ledger_entry_id = Batch[c][i] /\ r[i] \in Row
                          /\ r[i].sequence_no = r[1].sequence_no + (i - 1)
  <2>1. r[1].sequence_no = n + 1
    BY <1>1 DEF Basis, IInv, LockedFits
  <2>2. n \in Nat
    BY SequenceAssumption DEF Basis, IInv, TypeInv, TypeOK, ChainHead
  <2> QED BY <1>1, <2>1, <2>2, RequestFacts
<1>3. \A i \in 1..m : r[i].sequence_no = n + i
  BY <1>2
<1>4. chain_state'.last_sequence_no = n + m
  <2>1. m \in 1..m /\ chain_state'.last_sequence_no = r[m].sequence_no
    BY <1>1, <1>2
  <2> QED BY <1>3, <2>1
<1>5. ASSUME NEW i \in 1..m, NEW e \in ledger_entries PROVE e.ledger_entry_id # Batch[c][i]
  <2>1. r[i] \in Rows(r)
    BY <1>2 DEF Rows
  <2> QED BY <1>1, <1>2, <2>1 DEF Ids
<1> QED BY <1>1, <1>2, <1>3, <1>4, <1>5 DEF Commits

\* The tables change by commits only.
LEMMA TablesChange ==
    ASSUME Basis, [Next]_vars
    PROVE  UNCHANGED dbVars \/ \E c \in Call, k \in Copy : Commits(c, k)
<1>1. ASSUME NEW c \in Call, NEW k \in Copy, CommitAppend(c, k), ~UNCHANGED dbVars
      PROVE  Commits(c, k)
  BY <1>1, CommitsOnly
<1>2. ASSUME NEW c \in Call, CallStep(c) PROVE UNCHANGED dbVars
  BY <1>2 DEF CallStep, FetchChainHead, FetchChainHeadFails, SignNext, SendRequest,
              ReceiveAnswer, GiveUp, dbVars
<1>3. ASSUME NEW c \in Call, NEW k \in Copy, TxStep(c, k), ~CommitAppend(c, k)
      PROVE  UNCHANGED dbVars
  BY <1>3 DEF TxStep, DropAnswer, LookUpEntryId, LockChainState, AbortTx,
              DuplicateRequest, dbVars
<1>4. UNCHANGED vars => UNCHANGED dbVars
  BY DEF vars, dbVars
<1> QED BY <1>1, <1>2, <1>3, <1>4 DEF Next, TxStep, Quiescent

\* What a commit adds and keeps, row by row.
LEMMA NewRows ==
    ASSUME NEW c \in Call, NEW k \in Copy, Commits(c, k)
    PROVE  /\ \A e \in ledger_entries' :
                 \/ e \in ledger_entries
                 \/ \E i \in 1..Len(Batch[c]) : e = request[c][k][i]
           /\ \A i \in 1..Len(Batch[c]) : request[c][k][i] \in ledger_entries'
           /\ ledger_entries \subseteq ledger_entries'
BY DEF Commits, Rows

\* Rows come in batches, and no draft comes twice.
LEMMA RowStep == ASSUME Basis, RowInv, [Next]_vars PROVE RowInv'
<1>1. CASE UNCHANGED dbVars
  <2>1. UNCHANGED <<ledger_entries, chain_state>>
    BY <1>1 DEF dbVars
  <2>2. ASSUME NEW c \in Call, NEW n, BatchAt(c, n) PROVE BatchAt(c, n)'
    BY <2>1, <2>2 DEF BatchAt
  <2> QED BY <2>1, <2>2 DEF RowInv
<1>2. ASSUME NEW c \in Call, NEW k \in Copy, Commits(c, k) PROVE RowInv'
  <2> DEFINE r == request[c][k]
             m == Len(Batch[c])
  <2>0. PICK n : n = chain_state.last_sequence_no
    OBVIOUS
  <2>1. /\ n \in Nat /\ m \in Nat \ {0} /\ chain_state'.last_sequence_no = n + m
        /\ \A i \in 1..m : /\ r[i].ledger_entry_id = Batch[c][i]
                            /\ r[i].sequence_no = n + i
                            /\ \A e \in ledger_entries : e.ledger_entry_id # Batch[c][i]
    BY <1>2, <2>0 DEF Commits
  <2>2. /\ \A e \in ledger_entries' : e \in ledger_entries \/ \E i \in 1..m : e = r[i]
        /\ \A i \in 1..m : r[i] \in ledger_entries'
        /\ ledger_entries \subseteq ledger_entries'
    BY <1>2, NewRows
  <2>3. ASSUME NEW e \in ledger_entries', NEW f \in ledger_entries',
               e.ledger_entry_id = f.ledger_entry_id
        PROVE  e = f
    <3>1. \A i, j \in 1..m : Batch[c][i] = Batch[c][j] => i = j
      BY BatchAssumption
    <3>2. CASE e \in ledger_entries /\ f \in ledger_entries
      BY <2>3, <3>2 DEF RowInv
    <3>3. CASE (\E i \in 1..m : e = r[i]) /\ (\E j \in 1..m : f = r[j])
      BY <2>1, <2>3, <3>1, <3>3
    <3>4. CASE \/ e \in ledger_entries /\ (\E j \in 1..m : f = r[j])
               \/ f \in ledger_entries /\ (\E j \in 1..m : e = r[j])
      BY <2>1, <2>3, <3>4
    <3> QED BY <2>2, <3>2, <3>3, <3>4
  <2>4. BatchAt(c, n)'
    <3>1. \A j \in 1..m : \E f \in ledger_entries' :
             f.sequence_no = n + j /\ f.ledger_entry_id = Batch[c][j]
      BY <2>1, <2>2
    <3>2. n + m <= chain_state'.last_sequence_no
      BY <2>1
    <3> QED BY <3>1, <3>2 DEF BatchAt
  <2>5. ASSUME NEW d \in Call, NEW x \in 0..n, BatchAt(d, x) PROVE BatchAt(d, x)'
    <3>1. Len(Batch[d]) \in Nat
      BY BatchAssumption
    <3> QED BY <2>0, <2>1, <2>2, <2>5, <3>1 DEF BatchAt
  <2>6. ASSUME NEW e \in ledger_entries'
        PROVE  \E d \in Call : \E x \in 0..(n + m), i \in 1..Len(Batch[d]) :
                  /\ e.sequence_no = x + i /\ e.ledger_entry_id = Batch[d][i]
                  /\ BatchAt(d, x)'
    <3>1. CASE e \in ledger_entries
      <4>1. PICK d \in Call : \E x \in 0..n, i \in 1..Len(Batch[d]) :
                  /\ e.sequence_no = x + i /\ e.ledger_entry_id = Batch[d][i]
                  /\ BatchAt(d, x)
        BY <2>0, <3>1 DEF RowInv
      <4>2. PICK x \in 0..n, i \in 1..Len(Batch[d]) :
                  /\ e.sequence_no = x + i /\ e.ledger_entry_id = Batch[d][i]
                  /\ BatchAt(d, x)
        BY <4>1
      <4>3. BatchAt(d, x)' /\ x \in 0..(n + m)
        BY <2>1, <2>5, <4>2
      <4> QED BY <4>2, <4>3
    <3>2. CASE \E i \in 1..m : e = r[i]
      <4>1. n \in 0..(n + m)
        BY <2>1
      <4> QED BY <2>1, <2>4, <3>2, <4>1
    <3> QED BY <2>2, <3>1, <3>2
  <2> QED BY <2>1, <2>3, <2>6 DEF RowInv
<1> QED BY <1>1, <1>2, TablesChange

-----------------------------------------------------------------------------
\* A call moves by its own steps only.
LEMMA CallMoves ==
    ASSUME Basis, [Next]_vars, NEW c \in Call
    PROVE  UNCHANGED <<pc[c], signed[c], outcome[c]>> \/ CallStep(c)
<1>0. TypeOK
  BY DEF Basis, IInv, TypeInv
<1>1. ASSUME NEW d \in Call, CallStep(d), d # c PROVE UNCHANGED <<pc[c], signed[c], outcome[c]>>
  BY <1>0, <1>1 DEF CallStep, FetchChainHead, FetchChainHeadFails, SignNext, SendRequest,
                    ReceiveAnswer, GiveUp, Return, TypeOK
<1>2. ASSUME NEW d \in Call, NEW k \in Copy, TxStep(d, k) PROVE UNCHANGED callVars
  BY <1>2 DEF TxStep, DropAnswer, LookUpEntryId, LockChainState, CommitAppend, AbortTx,
              DuplicateRequest
<1>3. UNCHANGED callVars => UNCHANGED <<pc[c], signed[c], outcome[c]>>
  BY DEF callVars
<1> QED BY <1>1, <1>2, <1>3 DEF Next, Quiescent, vars

\* A copy of a request moves by its own transaction, or by its call.
LEMMA CopyMoves ==
    ASSUME Basis, [Next]_vars, NEW c \in Call, NEW k \in Copy
    PROVE  \/ UNCHANGED <<stage[c][k], request[c][k]>>
           \/ /\ SendRequest(c) /\ stage[c][k] = "idle" /\ stage'[c][k] = "sent"
              /\ request'[c][k] = signed[c]
           \/ ReceiveAnswer(c, k) \/ TxStep(c, k)
<1>0. TypeOK
  BY DEF Basis, IInv, TypeInv
<1>1. ASSUME NEW d \in Call, FetchChainHead(d) \/ FetchChainHeadFails(d) \/ SignNext(d) \/ GiveUp(d)
      PROVE  UNCHANGED <<stage[c][k], request[c][k]>>
  BY <1>1 DEF FetchChainHead, FetchChainHeadFails, SignNext, GiveUp, txVars
<1>2. ASSUME NEW d \in Call, SendRequest(d)
      PROVE  \/ UNCHANGED <<stage[c][k], request[c][k]>>
             \/ /\ SendRequest(c) /\ stage[c][k] = "idle" /\ stage'[c][k] = "sent"
                /\ request'[c][k] = signed[c]
  <2>1. PICK m \in Copy : /\ stage[d][m] = "idle"
                          /\ stage' = [stage EXCEPT ![d][m] = "sent"]
                          /\ request' = [request EXCEPT ![d][m] = signed[d]]
    BY <1>2 DEF SendRequest
  <2>2. CASE <<d, m>> = <<c, k>>
    BY <1>0, <1>2, <2>1, <2>2 DEF TypeOK
  <2>3. CASE <<d, m>> # <<c, k>>
    BY <1>0, <2>1, <2>3 DEF TypeOK
  <2> QED BY <2>2, <2>3
<1>3. ASSUME NEW d \in Call, NEW m \in Copy, ReceiveAnswer(d, m), <<d, m>> # <<c, k>>
      PROVE  UNCHANGED <<stage[c][k], request[c][k]>>
  BY <1>0, <1>3 DEF ReceiveAnswer, TypeOK
<1>4. ASSUME NEW d \in Call, NEW m \in Copy, TxStep(d, m), <<d, m>> # <<c, k>>
      PROVE  UNCHANGED <<stage[c][k], request[c][k]>>
  <2>1. CASE DropAnswer(d, m) \/ LookUpEntryId(d, m) \/ AbortTx(d, m)
    <3>1. (\E a : stage' = [stage EXCEPT ![d][m] = a]) /\ UNCHANGED request
      BY <2>1 DEF DropAnswer, LookUpEntryId, AbortTx
    <3> QED BY <1>0, <1>4, <3>1 DEF TypeOK
  <2>2. CASE LockChainState(d, m)
    <3>1. (\E a : stage' = [stage EXCEPT ![d][m] = a]) /\ UNCHANGED request
      BY <2>2, LockStep DEF LockChainState
    <3> QED BY <1>0, <1>4, <3>1 DEF TypeOK
  <2>3. CASE CommitAppend(d, m)
    <3>1. (\E a : stage' = [stage EXCEPT ![d][m] = a]) /\ UNCHANGED request
      BY <2>3, CommitStep DEF CommitAppend
    <3> QED BY <1>0, <1>4, <3>1 DEF TypeOK
  <2>4. CASE \E j \in Copy : DuplicateRequest(d, j, m)
    BY <1>0, <1>4, <2>4 DEF DuplicateRequest, TypeOK
  <2> QED BY <1>4, <2>1, <2>2, <2>3, <2>4 DEF TxStep
<1>5. UNCHANGED vars => UNCHANGED <<stage[c][k], request[c][k]>>
  BY DEF vars, txVars
<1> QED BY <1>1, <1>2, <1>3, <1>4, <1>5 DEF Next, CallStep, Quiescent

\* A request under way was under way before, was just sent, or is a copy.
LEMMA RequestOrigin ==
    ASSUME Basis, [Next]_vars, NEW c \in Call, NEW k \in Copy, stage'[c][k] # "idle"
    PROVE  \/ stage[c][k] # "idle" /\ request'[c][k] = request[c][k]
           \/ SendRequest(c) /\ request'[c][k] = signed[c]
           \/ \E j \in Copy \ {k} : /\ stage[c][j] # "idle" /\ k \in Copies[c]
                                     /\ request'[c][k] = request[c][j] /\ UNCHANGED callVars
<1>0. TypeOK
  BY DEF Basis, IInv, TypeInv
<1>1. CASE ReceiveAnswer(c, k)
  BY <1>0, <1>1 DEF ReceiveAnswer, TypeOK
<1>2. CASE TxStep(c, k)
  <2>1. CASE DropAnswer(c, k) \/ LookUpEntryId(c, k) \/ AbortTx(c, k)
             \/ LockChainState(c, k) \/ CommitAppend(c, k)
    BY <2>1 DEF DropAnswer, LookUpEntryId, AbortTx, LockChainState, CommitAppend, Answers, Running
  <2>2. ASSUME NEW j \in Copy, DuplicateRequest(c, j, k)
        PROVE  /\ stage[c][j] # "idle" /\ k \in Copies[c] /\ j # k
               /\ request'[c][k] = request[c][j] /\ UNCHANGED callVars
    BY <1>0, <2>2 DEF DuplicateRequest, TypeOK, Answers, Running
  <2> QED BY <1>2, <2>1, <2>2 DEF TxStep
<1> QED BY <1>1, <1>2, CopyMoves

\* Where an answer Ok of the database comes from.
LEMMA OkOrigin ==
    ASSUME Basis, [Next]_vars, NEW c \in Call, NEW k \in Copy, stage'[c][k] = "ok"
    PROVE  \/ stage[c][k] = "ok" /\ request'[c][k] = request[c][k]
           \/ Commits(c, k)
           \/ /\ stage[c][k] = "sent" /\ request[c][k][1] \in ledger_entries
              /\ UNCHANGED <<request, dbVars>>
<1>0. TypeOK
  BY DEF Basis, IInv, TypeInv
<1>1. ~ReceiveAnswer(c, k)
  BY <1>0 DEF ReceiveAnswer, TypeOK
<1>2. CASE TxStep(c, k)
  <2>1. ~DropAnswer(c, k) /\ ~AbortTx(c, k) /\ ~(\E j \in Copy : DuplicateRequest(c, j, k))
    BY <1>0 DEF DropAnswer, AbortTx, DuplicateRequest, TypeOK
  <2>2. CASE LookUpEntryId(c, k)
    <3> DEFINE e == request[c][k][1]
               a == CASE e \in ledger_entries -> "ok"
                      [] e.ledger_entry_id \notin Ids(ledger_entries) -> "checked"
                      [] OTHER -> "id_conflict"
    <3>1. a = "ok" => e \in ledger_entries
      OBVIOUS
    <3>2. /\ stage' = [stage EXCEPT ![c][k] = a] /\ stage[c][k] = "sent"
          /\ UNCHANGED <<request, dbVars>>
      BY <2>2 DEF LookUpEntryId
    <3> HIDE DEF a
    <3>3. stage'[c][k] = a
      BY <1>0, <3>2 DEF TypeOK
    <3> QED BY <3>1, <3>2, <3>3
  <2>3. ~LockChainState(c, k)
    BY <1>0, LockStep DEF TypeOK
  <2>4. CASE CommitAppend(c, k)
    BY <2>4, CommitsOnly
  <2> QED BY <1>2, <2>1, <2>2, <2>3, <2>4 DEF TxStep
<1> QED BY <1>1, <1>2, CopyMoves

-----------------------------------------------------------------------------
\* A draft appears in the ledger by a commit of its call.
LEMMA PresentStep ==
    ASSUME Basis, [Next]_vars, NEW c \in Call, Present(c)'
    PROVE  Present(c) \/ \E k \in Copy : Commits(c, k)
<1>1. CASE UNCHANGED dbVars
  BY <1>1 DEF Present, dbVars
<1>2. ASSUME NEW d \in Call, NEW k \in Copy, Commits(d, k), ~Present(c) PROVE d = c
  <2>1. PICK e \in ledger_entries', i \in 1..Len(Batch[c]) : e.ledger_entry_id = Batch[c][i]
    BY DEF Present
  <2>2. PICK j \in 1..Len(Batch[d]) : e = request[d][k][j]
    BY <1>2, <2>1, NewRows DEF Present
  <2>3. Batch[d][j] = Batch[c][i]
    BY <1>2, <2>1, <2>2 DEF Commits
  <2> QED BY <2>1, <2>2, <2>3, BatchAssumption
<1> QED BY <1>1, <1>2, TablesChange

\* The ledger only grows.
LEMMA LedgerGrows == ASSUME Basis, [Next]_vars PROVE ledger_entries \subseteq ledger_entries'
<1>1. CASE UNCHANGED dbVars
  BY <1>1 DEF dbVars
<1> QED BY <1>1, TablesChange, NewRows

\* A call that is done stays as it is.
LEMMA DoneStays ==
    ASSUME Basis, [Next]_vars, NEW c \in Call, pc[c] = "done"
    PROVE  UNCHANGED <<pc[c], signed[c], outcome[c]>>
<1>1. ~CallStep(c)
  BY DEF CallStep, FetchChainHead, FetchChainHeadFails, SignNext, SendRequest, ReceiveAnswer, GiveUp
<1> QED BY <1>1, CallMoves

\* A single-shot call that has sent its request signs nothing any more.
LEMMA ShotSent ==
    ASSUME Basis, [Next]_vars, NEW c \in Call \ Retrying, pc[c] \in {"wait", "done"}
    PROVE  signed'[c] = signed[c] /\ pc'[c] \in {"wait", "done"}
<1>0. TypeOK /\ attempts[c] \in Nat
  BY DEF Basis, IInv, TypeInv, TypeOK
<1>1. CASE pc[c] = "done"
  BY <1>1, DoneStays
<1>2. CASE pc[c] = "wait" /\ CallStep(c)
  <2>1. \/ \E k \in Copy : ReceiveAnswer(c, k)
        \/ GiveUp(c)
    BY <1>2 DEF CallStep, FetchChainHead, FetchChainHeadFails, SignNext, SendRequest
  <2>2. ~RetryLeft(c)
    BY <1>0, <1>2 DEF Basis, CallInv, RetryLeft, Retries
  <2> QED BY <1>0, <2>1, <2>2 DEF ReceiveAnswer, GiveUp, Return, TypeOK
<1> QED BY <1>1, <1>2, CallMoves

\* The one request of a single-shot call.
LEMMA ShotStep == ASSUME Basis, ShotInv, [Next]_vars PROVE ShotInv'
<1> SUFFICES ASSUME NEW c \in Call \ Retrying
             PROVE  /\ \A k \in Copy : stage'[c][k] # "idle" =>
                          request'[c][k] = signed'[c] /\ pc'[c] \in {"wait", "done"}
                    /\ Present(c)' => /\ Rows(signed'[c]) \subseteq ledger_entries'
                                      /\ pc'[c] \in {"wait", "done"}
  BY DEF ShotInv, Rows
<1>0. TypeOK
  BY DEF Basis, IInv, TypeInv
<1>1. ASSUME NEW k \in Copy, stage'[c][k] # "idle"
      PROVE  request'[c][k] = signed'[c] /\ pc'[c] \in {"wait", "done"}
  <2>1. CASE stage[c][k] # "idle" /\ request'[c][k] = request[c][k]
    BY <2>1, ShotSent DEF ShotInv
  <2>2. CASE SendRequest(c) /\ request'[c][k] = signed[c]
    BY <1>0, <2>2 DEF SendRequest, TypeOK
  <2>3. ASSUME NEW j \in Copy, stage[c][j] # "idle", request'[c][k] = request[c][j],
               UNCHANGED callVars
        PROVE  request'[c][k] = signed'[c] /\ pc'[c] \in {"wait", "done"}
    BY <2>3 DEF ShotInv, callVars
  <2> QED BY <1>1, <2>1, <2>2, <2>3, RequestOrigin
<1>2. ASSUME Present(c)'
      PROVE  Rows(signed'[c]) \subseteq ledger_entries' /\ pc'[c] \in {"wait", "done"}
  <2>1. CASE Present(c)
    BY <2>1, ShotSent, LedgerGrows DEF ShotInv
  <2>2. ASSUME NEW k \in Copy, Commits(c, k)
        PROVE  Rows(signed'[c]) \subseteq ledger_entries' /\ pc'[c] \in {"wait", "done"}
    BY <2>2 DEF Commits, ShotInv, callVars
  <2> QED BY <1>2, <2>1, <2>2, PresentStep
<1> QED BY <1>1, <1>2

\* An answer Ok of the database, also to a request it has seen before, means that
\* all rows of the request are there.
LEMMA OkStep == ASSUME Basis, ShotInv, OkInv, [Next]_vars PROVE OkInv'
<1> SUFFICES ASSUME NEW c \in Call, NEW k \in Copy, stage'[c][k] = "ok"
             PROVE  Rows(request'[c][k]) \subseteq ledger_entries'
  BY DEF OkInv, Rows
<1>1. CASE stage[c][k] = "ok" /\ request'[c][k] = request[c][k]
  BY <1>1, LedgerGrows DEF OkInv
<1>2. CASE Commits(c, k)
  BY <1>2 DEF Commits
<1>3. CASE /\ stage[c][k] = "sent" /\ request[c][k][1] \in ledger_entries
           /\ UNCHANGED <<request, dbVars>>
  <2> DEFINE r == request[c][k]
  <2>1. /\ Len(r) = Len(Batch[c]) /\ Len(Batch[c]) \in Nat \ {0}
        /\ r[1].ledger_entry_id = Batch[c][1]
    BY <1>3, RequestFacts
  <2>2. CASE c \in Retrying
    <3>1. Rows(r) = {r[1]}
      BY <2>1, <2>2, RetryAssumption DEF Rows
    <3> QED BY <1>3, <3>1 DEF dbVars
  <2>3. CASE c \notin Retrying
    <3>1. Present(c)
      BY <1>3, <2>1 DEF Present
    <3>2. r = signed[c] /\ Rows(signed[c]) \subseteq ledger_entries
      BY <1>3, <2>3, <3>1 DEF ShotInv
    <3> QED BY <1>3, <3>2 DEF dbVars
  <2> QED BY <2>2, <2>3
<1> QED BY <1>1, <1>2, <1>3, OkOrigin

\* A call answers Ok only with its rows in the ledger, where they stay.
LEMMA AckedStep == ASSUME Basis, OkInv, AckedIsDurable, [Next]_vars PROVE AckedIsDurable'
<1> SUFFICES ASSUME NEW c \in Call, outcome'[c] = "ok"
             PROVE  Rows(signed'[c]) \subseteq ledger_entries'
  BY DEF AckedIsDurable, Rows
<1>0. TypeOK
  BY DEF Basis, IInv, TypeInv
<1>1. CASE outcome[c] = "ok"
  <2>1. pc[c] = "done"
    BY <1>1 DEF Basis, CallInv
  <2> QED BY <1>1, <2>1, DoneStays, LedgerGrows DEF AckedIsDurable
<1>2. CASE outcome[c] # "ok"
  <2>1. PICK k \in Copy : ReceiveAnswer(c, k)
    <3>1. CallStep(c)
      BY <1>2, CallMoves
    <3> QED BY <1>0, <1>2, <3>1 DEF CallStep, FetchChainHead, FetchChainHeadFails, SignNext,
                                    SendRequest, GiveUp, Return, TypeOK
  <2>2. stage[c][k] = "ok"
    BY <1>0, <1>2, <2>1 DEF ReceiveAnswer, Return, AppendResult, Answers, TypeOK
  <2> QED BY <2>1, <2>2, LedgerGrows DEF ReceiveAnswer, OkInv
<1> QED BY <1>1, <1>2

\* A call whose requests are delivered once has one request under way at most.
LEMMA OneCopy ==
    ASSUME NEW c \in Call, Cardinality(Copies[c]) = 1, NEW j \in Copies[c], NEW k \in Copies[c]
    PROVE  j = k
<1>1. IsFiniteSet(Copies[c])
  BY CopiesAssumption
<1> QED BY <1>1, FS_Singleton

\* The call whose requests are delivered once.
LEMMA CopyStep == ASSUME Basis, CopyInv, [Next]_vars PROVE CopyInv'
<1> SUFFICES ASSUME NEW c \in Call, Cardinality(Copies[c]) = 1
             PROVE  /\ \A k \in Copy : stage'[c][k] # "idle" =>
                          /\ pc'[c] \in {"wait", "done"} /\ outcome'[c] # "conflict"
                          /\ pc'[c] = "wait" => request'[c][k] = signed'[c]
                    /\ Present(c)' /\ outcome'[c] \in {"none", "conflict"} =>
                          pc'[c] = "wait" /\ \E k \in Copy : stage'[c][k] = "ok"
  BY DEF CopyInv
<1>0. TypeOK
  BY DEF Basis, IInv, TypeInv
<1>1. \A k \in Copy : stage[c][k] # "idle" =>
         /\ k \in Copies[c]
         /\ pc[c] \in {"wait", "done"} /\ outcome[c] # "conflict"
         /\ pc[c] = "wait" => request[c][k] = signed[c]
  BY DEF CopyInv, Basis, RequestInv
\* While its request is under way, the call waits or gives up.
<1>2. ASSUME NEW k \in Copy, stage[c][k] # "idle", ~ReceiveAnswer(c, k)
      PROVE  UNCHANGED <<pc[c], signed[c], outcome[c]>> \/ GiveUp(c)
  <2>1. pc[c] \in {"wait", "done"}
    BY <1>1, <1>2
  <2>2. ASSUME NEW j \in Copy, ReceiveAnswer(c, j) PROVE FALSE
    <3>1. stage[c][j] # "idle"
      BY <2>2 DEF ReceiveAnswer, Answers
    <3> QED BY <1>1, <1>2, <2>2, <3>1, OneCopy
  <2> QED BY <2>1, <2>2, CallMoves
          DEF CallStep, FetchChainHead, FetchChainHeadFails, SignNext, SendRequest
<1>3. GiveUp(c) => pc'[c] = "done" /\ outcome'[c] = "external" /\ signed' = signed
  BY <1>0 DEF GiveUp, Return, TypeOK
<1>4. ASSUME NEW k \in Copy, stage'[c][k] # "idle"
      PROVE  /\ pc'[c] \in {"wait", "done"} /\ outcome'[c] # "conflict"
             /\ pc'[c] = "wait" => request'[c][k] = signed'[c]
  <2>1. CASE stage[c][k] # "idle" /\ request'[c][k] = request[c][k]
    <3>1. ~ReceiveAnswer(c, k)
      BY <1>0, <1>4 DEF ReceiveAnswer, TypeOK
    <3> QED BY <1>1, <1>2, <1>3, <2>1, <3>1
  <2>2. CASE SendRequest(c) /\ request'[c][k] = signed[c]
    BY <1>0, <2>2 DEF SendRequest, TypeOK, Basis, CallInv
  <2>3. ASSUME NEW j \in Copy \ {k}, stage[c][j] # "idle", k \in Copies[c] PROVE FALSE
    BY <1>1, <2>3, OneCopy
  <2> QED BY <1>4, <2>1, <2>2, <2>3, RequestOrigin
<1>5. ASSUME Present(c)', outcome'[c] \in {"none", "conflict"}
      PROVE  pc'[c] = "wait" /\ \E k \in Copy : stage'[c][k] = "ok"
  <2>1. ASSUME NEW k \in Copy, Commits(c, k)
        PROVE  pc'[c] = "wait" /\ stage'[c][k] = "ok"
    <3>1. /\ stage[c][k] = "locked" /\ UNCHANGED <<pc, outcome>> /\ stage'[c][k] = "ok"
      BY <1>0, <2>1 DEF Commits, callVars, TypeOK
    <3>2. outcome[c] = "none"
      BY <1>1, <1>5, <3>1
    <3> QED BY <1>1, <3>1, <3>2 DEF Basis, CallInv
  <2>2. CASE Present(c)
    <3>1. outcome[c] \in {"none", "conflict"}
      BY <1>5, DoneStays DEF Basis, CallInv
    <3>2. PICK k \in Copy : pc[c] = "wait" /\ stage[c][k] = "ok"
      BY <2>2, <3>1 DEF CopyInv
    <3>3. ~ReceiveAnswer(c, k)
      <4>1. ReceiveAnswer(c, k) => outcome'[c] = "ok"
        BY <1>0, <3>2 DEF ReceiveAnswer, Return, Retryable, AppendResult, TypeOK
      <4> QED BY <1>5, <4>1
    <3>4. pc'[c] = "wait"
      BY <1>2, <1>3, <1>5, <3>2, <3>3
    <3>5. ~TxStep(c, k)
      BY <1>1, <3>2 DEF TxStep, DropAnswer, LookUpEntryId, LockChainState, CommitAppend,
                        AbortTx, DuplicateRequest, Running
    <3>6. stage'[c][k] = "ok"
      BY <3>2, <3>3, <3>5, CopyMoves
    <3> QED BY <3>4, <3>6
  <2> QED BY <1>5, <2>1, <2>2, PresentStep
<1> QED BY <1>4, <1>5

\* Every step keeps the whole invariant.
LEMMA LogStep == ASSUME LInv, [Next]_vars PROVE LInv'
BY BasisStep, HeadStep, RowStep, ShotStep, OkStep, AckedStep, CopyStep DEF LInv

-----------------------------------------------------------------------------
\* A call that returns Ok has its rows in the ledger, for any number of calls,
\* copies, losses and repetitions.
THEOREM AckedDurable == Spec => []AckedIsDurable
<1>1. LInv => AckedIsDurable
  BY DEF LInv
<1> QED BY <1>1, LogInit, LogStep, PTL DEF Spec

\* A call that returns Conflict, and whose requests are delivered once, has left
\* nothing in the ledger and nothing under way.
THEOREM ConflictAbsent == Spec => []ConflictMeansAbsent
<1>1. ASSUME LInv PROVE ConflictMeansAbsent
  <2> SUFFICES ASSUME NEW c \in Call, outcome[c] = "conflict", Cardinality(Copies[c]) = 1
               PROVE  /\ \A i \in 1..Len(Batch[c]) : Batch[c][i] \notin Ids(ledger_entries)
                      /\ \A k \in Copy : stage[c][k] \notin Running
    BY DEF ConflictMeansAbsent
  <2>1. \A k \in Copy : stage[c][k] = "idle"
    BY <1>1 DEF LInv, CopyInv
  <2>2. pc[c] = "done"
    BY <1>1 DEF LInv, Basis, CallInv
  <2>3. ~Present(c)
    BY <1>1, <2>2 DEF LInv, CopyInv
  <2> QED BY <2>1, <2>3 DEF Present, Ids, Running
<1> QED BY <1>1, LogInit, LogStep, PTL DEF Spec

\* Drafts of one call are in the ledger together, side by side and once, or not at all.
THEOREM BatchesAtomic == Spec => []BatchAtomic
<1>1. ASSUME LInv PROVE BatchAtomic
  <2> SUFFICES ASSUME NEW c \in Call, NEW rows,
                      rows = {e \in ledger_entries : \E i \in 1..Len(Batch[c]) :
                                 e.ledger_entry_id = Batch[c][i]},
                      rows # {}
               PROVE  \E n \in 0..chain_state.last_sequence_no :
                         /\ Cardinality(rows) = Len(Batch[c])
                         /\ \A e \in rows : /\ e.sequence_no - n \in 1..Len(Batch[c])
                                            /\ e.ledger_entry_id = Batch[c][e.sequence_no - n]
    BY DEF BatchAtomic
  <2> DEFINE m == Len(Batch[c])
  <2>0. m \in Nat \ {0} /\ chain_state.last_sequence_no \in Nat
    BY <1>1, BatchAssumption, SequenceAssumption
    DEF LInv, Basis, IInv, TypeInv, TypeOK, ChainHead
  <2>1. PICK n \in 0..chain_state.last_sequence_no : BatchAt(c, n)
    <3>1. PICK e \in ledger_entries, i \in 1..m : e.ledger_entry_id = Batch[c][i]
      OBVIOUS
    <3>2. PICK d \in Call : \E x \in 0..chain_state.last_sequence_no, j \in 1..Len(Batch[d]) :
             e.ledger_entry_id = Batch[d][j] /\ BatchAt(d, x)
      BY <1>1, <3>1 DEF LInv, RowInv
    <3>3. d = c
      BY <3>1, <3>2, BatchAssumption
    <3> QED BY <3>2, <3>3
  <2>2. \A j \in 1..m : \E f \in rows : f.sequence_no = n + j /\ f.ledger_entry_id = Batch[c][j]
    BY <2>1 DEF BatchAt
  <2>3. ASSUME NEW e \in rows
        PROVE  \E j \in 1..m : e.sequence_no = n + j /\ e.ledger_entry_id = Batch[c][j]
    <3>1. PICK j \in 1..m : e.ledger_entry_id = Batch[c][j]
      OBVIOUS
    <3>2. PICK f \in rows : f.sequence_no = n + j /\ f.ledger_entry_id = Batch[c][j]
      BY <2>2
    <3>3. e = f
      BY <1>1, <3>1, <3>2 DEF LInv, RowInv
    <3> QED BY <3>2, <3>3
  <2>4. \A e \in rows : e.sequence_no - n \in 1..m /\ e.ledger_entry_id = Batch[c][e.sequence_no - n]
    <3> SUFFICES ASSUME NEW e \in rows
                 PROVE  e.sequence_no - n \in 1..m /\ e.ledger_entry_id = Batch[c][e.sequence_no - n]
      OBVIOUS
    <3>1. PICK j \in 1..m : e.sequence_no = n + j /\ e.ledger_entry_id = Batch[c][j]
      BY <2>3
    <3>2. e.sequence_no - n = j
      BY <2>0, <3>1
    <3> QED BY <3>1, <3>2
  <2>5. Cardinality(rows) = m
    <3> DEFINE f == [j \in 1..m |-> CHOOSE e \in rows : e.sequence_no = n + j]
    <3>1. \A j \in 1..m : f[j] \in rows /\ f[j].sequence_no = n + j
      BY <2>2
    <3>2. \A i, j \in 1..m : f[i] = f[j] => i = j
      <4> SUFFICES ASSUME NEW i \in 1..m, NEW j \in 1..m, f[i] = f[j] PROVE i = j
        OBVIOUS
      <4>1. n + i = n + j
        BY <3>1
      <4> QED BY <2>0, <4>1
    <3>3. \A e \in rows : \E j \in 1..m : f[j] = e
      <4> SUFFICES ASSUME NEW e \in rows PROVE \E j \in 1..m : f[j] = e
        OBVIOUS
      <4>1. PICK j \in 1..m : e.sequence_no = n + j
        BY <2>3
      <4>2. f[j] \in ledger_entries /\ e \in ledger_entries /\ f[j].sequence_no = e.sequence_no
        BY <3>1, <4>1
      <4>3. f[j] = e
        <5> HIDE DEF f
        <5> QED BY <1>1, <4>2 DEF LInv, Basis, IInv, ChainIntact, NoGapNoFork
      <4> QED BY <4>3
    <3>4. f \in Bijection(1..m, rows)
      <4>1. f \in [1..m -> rows] /\ DOMAIN f = 1..m
        BY <3>1
      <4> HIDE DEF f
      <4> QED BY <3>2, <3>3, <4>1 DEF Bijection, Injection, Surjection, IsInjective
    <3>5. IsFiniteSet(1..m) /\ Cardinality(1..m) = m
      <4>1. /\ 1 \in Int /\ m \in Int
            /\ (IF 1 > m THEN 0 ELSE m - 1 + 1) = m
        BY <2>0
      <4>2. IsFiniteSet(1..m) /\ Cardinality(1..m) = IF 1 > m THEN 0 ELSE m - 1 + 1
        <5> HIDE DEF m
        <5> QED BY <4>1, FS_Interval
      <4> QED BY <4>1, <4>2
    <3>6. ExistsBijection(1..m, rows)
      BY <3>4 DEF ExistsBijection
    <3> QED BY <3>5, <3>6, FS_Bijection
  <2> QED BY <2>1, <2>4, <2>5
<1> QED BY <1>1, LogInit, LogStep, PTL DEF Spec

\* A retry always has a newer head: whatever the order of answers, a conflict means
\* that another call got through.
THEOREM RetryProgress == Spec => RetrySeesNewHead
<1> DEFINE Newer == \A c \in Call :
              (attempts[c] > 0 /\ attempts'[c] > attempts[c] /\ pc'[c] = "sign") =>
                 head'[c].last_sequence_no > head[c].last_sequence_no
<1>1. ASSUME LInv, [Next]_vars PROVE Newer
  <2> SUFFICES ASSUME NEW c \in Call, attempts[c] > 0, attempts'[c] > attempts[c], pc'[c] = "sign"
               PROVE  head'[c].last_sequence_no > head[c].last_sequence_no
    OBVIOUS
  <2>0. /\ TypeOK /\ attempts[c] \in Nat
        /\ head[c].last_sequence_no \in Nat /\ chain_state.last_sequence_no \in Nat
    BY <1>1, SequenceAssumption DEF LInv, Basis, IInv, TypeInv, TypeOK, ChainHead
  <2>1. attempts'[c] # attempts[c]
    BY <2>0
  <2>2. PICK d \in Call : FetchChainHead(d) \/ FetchChainHeadFails(d)
    BY <1>1, <2>1
    DEF Next, CallStep, TxStep, SignNext, SendRequest, ReceiveAnswer, GiveUp, Quiescent,
        DropAnswer, LookUpEntryId, LockChainState, CommitAppend, AbortTx, DuplicateRequest,
        vars, callVars
  <2>3. d = c
    BY <2>0, <2>1, <2>2 DEF FetchChainHead, FetchChainHeadFails, TypeOK
  <2>4. FetchChainHead(c)
    BY <2>0, <2>2, <2>3 DEF FetchChainHeadFails, Return, TypeOK
  <2>5. head[c].last_sequence_no < chain_state.last_sequence_no
    BY <1>1, <2>4 DEF LInv, HeadInv, FetchChainHead
  <2>6. head'[c] = chain_state
    BY <2>0, <2>4 DEF FetchChainHead, TypeOK
  <2> QED BY <2>0, <2>5, <2>6
<1> QED BY <1>1, LogInit, LogStep, PTL DEF Spec, RetrySeesNewHead

-----------------------------------------------------------------------------
\* In a set of rows without forks, CHOOSE finds the row of a place.
LEMMA RowOfPlace ==
    ASSUME NEW rows, NEW e \in rows,
           \A f, g \in rows : f.sequence_no = g.sequence_no => f = g
    PROVE  (CHOOSE f \in rows : f.sequence_no = e.sequence_no) = e
OBVIOUS

\* A commit puts the drafts of its call at the end of the log.
LEMMA LogExtended ==
    ASSUME LInv, LInv', NEW c \in Call, NEW k \in Copy, Commits(c, k)
    PROVE  LogOfIds' = LogOfIds \o Batch[c]
<1> DEFINE r == request[c][k]
           n == chain_state.last_sequence_no
           m == Len(Batch[c])
           old == LogOfIds
           new == LogOfIds'
           PlaceOld(i) == CHOOSE e \in ledger_entries : e.sequence_no = i
           PlaceNew(i) == CHOOSE e \in ledger_entries' : e.sequence_no = i
<1>1. /\ n \in Nat /\ m \in Nat \ {0} /\ chain_state'.last_sequence_no = n + m
      /\ \A i \in 1..m : r[i].ledger_entry_id = Batch[c][i] /\ r[i].sequence_no = n + i
      /\ \A i \in 1..m : r[i] \in ledger_entries'
      /\ ledger_entries \subseteq ledger_entries'
  BY NewRows DEF Commits
<1>2. /\ \A f, g \in ledger_entries : f.sequence_no = g.sequence_no => f = g
      /\ \A f, g \in ledger_entries' : f.sequence_no = g.sequence_no => f = g
      /\ \A i \in 1..n : \E e \in ledger_entries : e.sequence_no = i
  BY DEF LInv, Basis, IInv, ChainIntact, NoGapNoFork
<1>3. ASSUME NEW i \in 1..n PROVE PlaceNew(i) = PlaceOld(i) /\ PlaceOld(i) \in Row
  <2>1. PICK e \in ledger_entries : e.sequence_no = i
    BY <1>2
  <2>2. e \in ledger_entries'
    BY <1>1
  <2>3. PlaceNew(i) = e /\ PlaceOld(i) = e
    BY <1>2, <2>1, <2>2, RowOfPlace
  <2> QED BY <2>3 DEF LInv, Basis, IInv, TypeInv, TypeOK
<1>4. ASSUME NEW i \in 1..m PROVE PlaceNew(n + i) = r[i]
  <2>1. r[i] \in ledger_entries' /\ r[i].sequence_no = n + i
    BY <1>1
  <2>2. (CHOOSE f \in ledger_entries' : f.sequence_no = r[i].sequence_no) = r[i]
    BY <1>2, <2>1, RowOfPlace
  <2> QED BY <2>1, <2>2
<1> HIDE DEF PlaceOld, PlaceNew
<1>5. /\ old = [i \in 1..n |-> PlaceOld(i).ledger_entry_id]
      /\ new = [i \in 1..(n + m) |-> PlaceNew(i).ledger_entry_id]
  BY <1>1 DEF LogOfIds, PlaceOld, PlaceNew
<1>6. old \in Seq(EntryId) /\ Len(old) = n
  BY <1>1, <1>3, <1>5 DEF Row
<1>7. Batch[c] \in Seq(EntryId)
  BY BatchAssumption
<1>8. /\ DOMAIN new = 1..(n + m)
      /\ old \o Batch[c] \in Seq(EntryId) /\ DOMAIN (old \o Batch[c]) = 1..(n + m)
  BY <1>1, <1>5, <1>6, <1>7
<1>9. ASSUME NEW i \in 1..(n + m) PROVE new[i] = (old \o Batch[c])[i]
  <2>1. CASE i \in 1..n
    BY <1>1, <1>3, <1>5, <1>6, <1>7, <2>1
  <2>2. CASE i \notin 1..n
    <3>1. i - n \in 1..m /\ n + (i - n) = i
      BY <1>1, <2>2
    <3>2. PlaceNew(i) = r[i - n]
      BY <1>4, <3>1
    <3>3. new[i] = Batch[c][i - n]
      BY <1>1, <1>5, <3>1, <3>2
    <3>4. (old \o Batch[c])[i] = Batch[c][i - n]
      BY <1>1, <1>6, <1>7, <2>2
    <3> QED BY <3>3, <3>4
  <2> QED BY <2>1, <2>2
<1> DEFINE both == old \o Batch[c]
<1>10. new = [i \in 1..(n + m) |-> new[i]]
  BY <1>5
<1>11. both = [i \in 1..(n + m) |-> both[i]]
  <2>1. both \in Seq(EntryId) /\ DOMAIN both = 1..(n + m)
    BY <1>8
  <2> HIDE DEF both
  <2> QED BY <2>1
<1>12. \A i \in 1..(n + m) : new[i] = both[i]
  BY <1>9
<1> HIDE DEF old, new, both
<1>13. new = both
  BY <1>10, <1>11, <1>12
<1> QED BY <1>13 DEF old, new, both

\* Retries, locks, messages and transactions implement the atomic log: a commit is
\* its append, a return its answer, and every other step is invisible.
THEOREM LogImplemented == Spec => ImplementsLog
<1>1. Init => Log!Init
  <2> SUFFICES ASSUME Init PROVE Log!Init
    OBVIOUS
  <2>1. chain_state.last_sequence_no = 0
    BY DEF Init, Genesis
  <2>2. LogOfIds = <<>>
    BY <2>1 DEF LogOfIds
  <2> QED BY <2>2 DEF Init, Log!Init
<1>2. ASSUME LInv, LInv', [Next]_vars PROVE [Log!Next]_(Log!vars)
  <2>0. TypeOK
    BY <1>2 DEF LInv, Basis, IInv, TypeInv
  <2>1. ASSUME NEW c \in Call, NEW k \in Copy, Commits(c, k) PROVE Log!AppendBatch(c)
    <3>1. LogOfIds' = LogOfIds \o Batch[c] /\ UNCHANGED outcome
      BY <1>2, <2>1, LogExtended DEF Commits, callVars
    <3>2. ASSUME NEW i \in 1..Len(LogOfIds), NEW j \in 1..Len(Batch[c])
          PROVE  LogOfIds[i] # Batch[c][j]
      <4>1. chain_state.last_sequence_no \in Nat
        BY <2>1 DEF Commits
      <4>2. Len(LogOfIds) = chain_state.last_sequence_no
        BY <4>1 DEF LogOfIds
      <4>3. PICK e \in ledger_entries : e.sequence_no = i
        BY <1>2, <4>2 DEF LInv, Basis, IInv, ChainIntact, NoGapNoFork
      <4>4. (CHOOSE f \in ledger_entries : f.sequence_no = i) = e
        BY <1>2, <4>3, RowOfPlace DEF LInv, Basis, IInv, ChainIntact, NoGapNoFork
      <4>5. LogOfIds[i] = e.ledger_entry_id
        BY <4>2, <4>4 DEF LogOfIds
      <4> QED BY <2>1, <4>5 DEF Commits
    <3> QED BY <3>1, <3>2 DEF Log!AppendBatch
  <2>2. UNCHANGED dbVars => UNCHANGED LogOfIds
    BY DEF LogOfIds, dbVars
  <2>3. ASSUME NEW c \in Call, NEW o \in {"ok", "conflict", "invalid", "external"},
               outcome' = [outcome EXCEPT ![c] = o], outcome[c] = "none",
               UNCHANGED dbVars, UNCHANGED signed, o = "ok" => pc[c] = "wait"
        PROVE  Log!Answer(c, o)
    <3>1. ASSUME o = "ok" PROVE Log!Appended(c)
      <4> DEFINE t == signed[c]
                 n == t[1].sequence_no - 1
                 m == Len(Batch[c])
      <4>1. outcome'[c] = "ok"
        BY <2>0, <2>3, <3>1 DEF TypeOK
      <4>2. Rows(t) \subseteq ledger_entries
        BY <1>2, <2>3, <4>1 DEF LInv, AckedIsDurable, dbVars
      <4>3. t \in Seq(Row) /\ Len(t) = m /\ m \in Nat \ {0}
        BY <1>2, <2>0, <2>3, <3>1, BatchAssumption DEF TypeOK, LInv, Basis, CallInv
      <4>4. \A i \in 1..m : /\ t[i].ledger_entry_id = Batch[c][i]
                            /\ t[i].sequence_no = t[1].sequence_no + (i - 1)
                            /\ t[i] \in ledger_entries /\ t[i] \in Row
        <5>1. LinkedRun(t, c)
          BY <1>2 DEF LInv, Basis, IInv, SignedLinked
        <5>2. \A i \in 1..m : t[i] \in ledger_entries /\ t[i] \in Row
          BY <4>2, <4>3 DEF Rows
        <5> HIDE DEF t
        <5> QED BY <4>3, <5>1, <5>2 DEF LinkedRun
      <4>5. n \in Nat /\ chain_state.last_sequence_no \in Nat
        BY <2>0, <4>3, <4>4, SequenceAssumption DEF Row, TypeOK, ChainHead
      <4>6. \A i \in 1..m : t[i].sequence_no = n + i
        <5> SUFFICES ASSUME NEW i \in 1..m PROVE t[i].sequence_no = n + i
          OBVIOUS
        <5>1. t[1].sequence_no \in Int
          BY <4>3, <4>4, SequenceAssumption DEF Row
        <5>2. t[1].sequence_no + (i - 1) = (t[1].sequence_no - 1) + i
          BY <4>3, <5>1
        <5> QED BY <4>4, <5>2
      <4>7. \A e \in ledger_entries : e.sequence_no \in 1..chain_state.last_sequence_no
        BY <1>2 DEF LInv, Basis, IInv, ChainIntact, NoGapNoFork
      <4>8. Len(LogOfIds) = chain_state.last_sequence_no
        BY <4>5 DEF LogOfIds
      <4>9. n + m <= Len(LogOfIds)
        <5>1. m \in 1..m
          BY <4>3
        <5>2. n + m \in 1..chain_state.last_sequence_no
          BY <4>4, <4>6, <4>7, <5>1
        <5> QED BY <4>5, <4>8, <5>2
      <4>10. ASSUME NEW i \in 1..m PROVE LogOfIds[n + i] = Batch[c][i]
        <5>1. n + i \in 1..chain_state.last_sequence_no
          BY <4>4, <4>6, <4>7
        <5>2. (CHOOSE f \in ledger_entries : f.sequence_no = t[i].sequence_no) = t[i]
          BY <1>2, <4>4, RowOfPlace DEF LInv, Basis, IInv, ChainIntact, NoGapNoFork
        <5>3. (CHOOSE f \in ledger_entries : f.sequence_no = n + i) = t[i]
          BY <4>6, <5>2
        <5>4. LogOfIds[n + i] = (CHOOSE f \in ledger_entries : f.sequence_no = n + i).ledger_entry_id
          BY <5>1 DEF LogOfIds
        <5> QED BY <4>4, <5>3, <5>4
      <4>11. n \in 0..Len(LogOfIds)
        BY <4>3, <4>5, <4>8, <4>9
      <4> HIDE DEF n, t
      <4> QED BY <4>9, <4>10, <4>11 DEF Log!Appended
    <3> QED BY <2>2, <2>3, <3>1 DEF Log!Answer
  <2>4. ASSUME NEW c \in Call, CallStep(c) PROVE Log!Next \/ UNCHANGED <<LogOfIds, outcome>>
    <3>1. UNCHANGED dbVars
      BY <2>4 DEF CallStep, FetchChainHead, FetchChainHeadFails, SignNext, SendRequest,
                  ReceiveAnswer, GiveUp
    <3>2. \/ UNCHANGED outcome
          \/ \E o \in {"ok", "conflict", "invalid", "external"} :
                /\ outcome' = [outcome EXCEPT ![c] = o] /\ pc[c] # "done"
                /\ UNCHANGED signed
                /\ o = "ok" => pc[c] = "wait"
      BY <2>4 DEF CallStep, FetchChainHead, FetchChainHeadFails, SignNext, SendRequest,
                  ReceiveAnswer, GiveUp, Return, AppendResult
    <3>3. pc[c] # "done" => outcome[c] = "none"
      BY <1>2 DEF LInv, Basis, CallInv
    <3>4. CASE UNCHANGED outcome
      BY <2>2, <3>1, <3>4
    <3>5. CASE ~UNCHANGED outcome
      <4>1. PICK o \in {"ok", "conflict", "invalid", "external"} :
               /\ outcome' = [outcome EXCEPT ![c] = o] /\ pc[c] # "done"
               /\ UNCHANGED signed
               /\ o = "ok" => pc[c] = "wait"
        BY <3>2, <3>5
      <4>2. Log!Answer(c, o)
        BY <2>3, <3>1, <3>3, <4>1
      <4> QED BY <4>2 DEF Log!Next, Log!Outcomes
    <3> QED BY <3>4, <3>5
  <2>5. ASSUME UNCHANGED dbVars, UNCHANGED outcome PROVE UNCHANGED <<LogOfIds, outcome>>
    BY <2>2, <2>5
  <2>6. ASSUME NEW c \in Call, NEW k \in Copy, TxStep(c, k) PROVE UNCHANGED outcome
    BY <2>6 DEF TxStep, DropAnswer, LookUpEntryId, LockChainState, CommitAppend, AbortTx,
                DuplicateRequest, callVars
  <2>7. UNCHANGED vars => UNCHANGED dbVars /\ UNCHANGED outcome
    BY DEF vars, callVars
  <2>8. UNCHANGED dbVars \/ Log!Next
    BY <1>2, <2>1, TablesChange DEF LInv, Log!Next
  <2> QED BY <1>2, <2>4, <2>5, <2>6, <2>7, <2>8 DEF Next, Quiescent, Log!vars
<1> QED BY <1>1, <1>2, LogInit, LogStep, PTL DEF Spec, ImplementsLog, Log!Spec
=============================================================================
