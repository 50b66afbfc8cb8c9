---------------------------- MODULE LedgerChain -----------------------------
(***************************************************************************)
(* The signed, hash-chained ledger: the appender of the SBC server         *)
(* (server/ledger_appender.rs) and the tables and RPC it appends through   *)
(* (rpc_append_ledger_entry, migration 0900).                              *)
(*                                                                         *)
(* A Call is one execution of `append` (Retrying: one draft, refetches the *)
(* head and re-signs on a head conflict) or of `sign_entries` followed by  *)
(* the RPC of its use case (one attempt, possibly several drafts appended  *)
(* in one transaction).  Calls run concurrently: HTTP handlers, scheduler  *)
(* jobs and CLI processes share nothing but the database.                  *)
(*                                                                         *)
(* A request may be delivered more than once (Copy); each copy is executed *)
(* as its own transaction: look up the id in a snapshot, wait for the row  *)
(* lock on ledger_chain_state, compare with the head, insert, move the     *)
(* head, commit.  Requests, answers and transactions may be lost.          *)
(***************************************************************************)
EXTENDS Integers, Sequences, FiniteSets

CONSTANTS Call,                 \* the calls that append to the ledger
          EntryId,              \* the values of ledger_entry_id (UUID v4)
          Batch,                \* Batch[c]: the ids of the drafts of c, in order
          Retrying,             \* the calls made through LedgerAppender::append
          MaxConflictRetries,   \* LedgerAppenderConfig::max_conflict_retries
          MaxSequenceNo,        \* the largest sequence_no (i64::MAX)
          Copy,                 \* the deliveries a request may have
          Copies,               \* Copies[c]: those that the requests of c do have
          Hash,                 \* SHA-256 digests
          GenesisHash,          \* 32 zero bytes
          EntryHash(_, _, _)    \* the digest of (id, sequence_no, previous hash)

\* One draft is appended by exactly one call: LedgerEntryId::generate makes a
\* fresh UUID v4 for every draft.
ASSUME BatchAssumption ==
    /\ Batch \in [Call -> Seq(EntryId)]
    /\ \A c \in Call : Batch[c] # <<>>
    /\ \A c, d \in Call : \A i \in 1..Len(Batch[c]), j \in 1..Len(Batch[d]) :
          Batch[c][i] = Batch[d][j] => c = d /\ i = j

\* `append` takes a single draft; max_conflict_retries is at most 3.
ASSUME RetryAssumption ==
    /\ Retrying \subseteq Call
    /\ \A c \in Retrying : Len(Batch[c]) = 1
    /\ MaxConflictRetries \in 0..3

\* Every request can be delivered at least once, and is delivered finitely often.
ASSUME CopiesAssumption ==
    /\ Copies \in [Call -> (SUBSET Copy) \ {{}}]
    /\ \A c \in Call : IsFiniteSet(Copies[c])

ASSUME SequenceAssumption == MaxSequenceNo \in Nat

\* The hash of an entry is a digest. (Collision freedom is not needed by any
\* property of this module: the chain is compared by value.)
ASSUME HashAssumption ==
    /\ GenesisHash \in Hash
    /\ \A id \in EntryId, n \in 1..MaxSequenceNo, h \in Hash : EntryHash(id, n, h) \in Hash

VARIABLES
    ledger_entries,   \* the committed rows
    chain_state,      \* the committed row of ledger_chain_state
    lock_holder,      \* the transaction that holds the row lock on chain_state
    pc,               \* pc[c]: where call c stands
    attempts,         \* attempts[c]: heads fetched so far
    head,             \* head[c]: the chain head last fetched
    signed,           \* signed[c]: the entries signed on that head
    outcome,          \* outcome[c]: what the call returned
    stage,            \* stage[c][k]: where copy k of c's request stands
    request           \* request[c][k]: the signed entries that copy carries

dbVars == <<ledger_entries, chain_state>>
callVars == <<pc, attempts, head, signed, outcome>>
txVars == <<lock_holder, stage, request>>
vars == <<dbVars, callVars, txVars>>

ChainHead == [last_sequence_no : 0..MaxSequenceNo, last_entry_hash : Hash]
Row == [ledger_entry_id : EntryId, sequence_no : 1..MaxSequenceNo,
        previous_entry_hash : Hash, entry_hash : Hash]
NoTx == <<>>
Running == {"sent", "checked", "locked"}
Answers == {"ok", "seq_mismatch", "prev_mismatch", "id_conflict", "failed"}

Genesis == [last_sequence_no |-> 0, last_entry_hash |-> GenesisHash]

Retries(c) == IF c \in Retrying THEN MaxConflictRetries ELSE 0

\* for retry_index in 0..=max_conflict_retries: is there an iteration left?
RetryLeft_OneMore(c) == attempts[c] <= Retries(c) + 1
RetryLeft(c) == attempts[c] <= Retries(c)

\* is_retryable_conflict
Retryable_AlsoFailures(answer) == answer \in {"seq_mismatch", "prev_mismatch", "failed"}
Retryable(answer) == answer \in {"seq_mismatch", "prev_mismatch"}

Init == /\ ledger_entries = {}
        /\ chain_state = Genesis
        /\ lock_holder = NoTx
        /\ pc = [c \in Call |-> "start"]
        /\ attempts = [c \in Call |-> 0]
        /\ head = [c \in Call |-> Genesis]
        /\ signed = [c \in Call |-> <<>>]
        /\ outcome = [c \in Call |-> "none"]
        /\ stage = [c \in Call |-> [k \in Copy |-> "idle"]]
        /\ request = [c \in Call |-> [k \in Copy |-> <<>>]]

-----------------------------------------------------------------------------
(* The caller. *)

Return(c, o) == /\ pc' = [pc EXCEPT ![c] = "done"]
                /\ outcome' = [outcome EXCEPT ![c] = o]

\* fetch_chain_head: a plain read of the committed row, no lock.
FetchChainHead(c) ==
    /\ pc[c] = "start"
    /\ attempts' = [attempts EXCEPT ![c] = @ + 1]
    /\ head' = [head EXCEPT ![c] = chain_state]
    /\ signed' = [signed EXCEPT ![c] = <<>>]
    /\ pc' = [pc EXCEPT ![c] = "sign"]
    /\ UNCHANGED <<outcome, dbVars, txVars>>

FetchChainHeadFails(c) ==
    /\ pc[c] = "start"
    /\ attempts' = [attempts EXCEPT ![c] = @ + 1]
    /\ Return(c, "external")
    /\ UNCHANGED <<head, signed, dbVars, txVars>>

\* The place of the next draft: after the last signed one, or after the head.
LastSigned(c) ==
    LET n == Len(signed[c])
    IN  IF n = 0 THEN head[c]
        ELSE [last_sequence_no |-> signed[c][n].sequence_no,
              last_entry_hash |-> signed[c][n].entry_hash]

Sign(id, prev) ==
    [ledger_entry_id |-> id,
     sequence_no |-> prev.last_sequence_no + 1,
     previous_entry_hash |-> prev.last_entry_hash,
     entry_hash |-> EntryHash(id, prev.last_sequence_no + 1, prev.last_entry_hash)]

\* One iteration of the loop of sign_entries_from_head. A sequence_no past
\* i64::MAX ends the call with InvalidEntry.
SignNext(c) ==
    /\ pc[c] = "sign"
    /\ Len(signed[c]) < Len(Batch[c])
    /\ IF LastSigned(c).last_sequence_no + 1 > MaxSequenceNo
       THEN /\ Return(c, "invalid")
            /\ UNCHANGED signed
       ELSE /\ signed' = [signed EXCEPT ![c] =
                             Append(@, Sign(Batch[c][Len(@) + 1], LastSigned(c)))]
            /\ UNCHANGED <<pc, outcome>>
    /\ UNCHANGED <<attempts, head, dbVars, txVars>>

\* Copies differ in nothing but their name, so any free one will do.
SendRequest(c) ==
    /\ pc[c] = "sign"
    /\ Len(signed[c]) = Len(Batch[c])
    /\ \E k \in Copy :
          /\ k \in Copies[c] /\ stage[c][k] = "idle"
          /\ k = CHOOSE j \in Copies[c] : stage[c][j] = "idle"
          /\ stage' = [stage EXCEPT ![c][k] = "sent"]
          /\ request' = [request EXCEPT ![c][k] = signed[c]]
    /\ pc' = [pc EXCEPT ![c] = "wait"]
    /\ UNCHANGED <<attempts, head, signed, outcome, lock_holder, dbVars>>

\* classify_append_ledger_error and classify_appender_error
AppendResult(answer) == CASE answer = "ok" -> "ok"
                          [] answer = "failed" -> "external"
                          [] OTHER -> "conflict"

\* The answer of the current attempt arrives. A head conflict is retried while
\* retries are left (is_retryable_conflict); everything else ends the call.
ReceiveAnswer(c, k) ==
    /\ pc[c] = "wait"
    /\ stage[c][k] \in Answers
    /\ request[c][k] = signed[c]
    /\ stage' = [stage EXCEPT ![c][k] = "idle"]
    /\ IF Retryable(stage[c][k]) /\ RetryLeft(c)
       THEN pc' = [pc EXCEPT ![c] = "start"] /\ UNCHANGED outcome
       ELSE Return(c, AppendResult(stage[c][k]))
    /\ UNCHANGED <<attempts, head, signed, lock_holder, request, dbVars>>

\* The outbound request times out, the connection breaks, or the handler is
\* dropped by its own timeout: the caller stops, its requests do not.
GiveUp_IsConflict(c) ==
    /\ pc[c] = "wait"
    /\ Return(c, "conflict")
    /\ UNCHANGED <<attempts, head, signed, dbVars, txVars>>
GiveUp(c) ==
    /\ pc[c] = "wait"
    /\ Return(c, "external")
    /\ UNCHANGED <<attempts, head, signed, dbVars, txVars>>

-----------------------------------------------------------------------------
(* The network and the database. *)

\* A copy carries the same request once: nothing is delivered for ever.
DuplicateRequest(c, j, k) ==
    /\ stage[c][j] \in Running \cup Answers
    /\ stage[c][k] = "idle"
    /\ k \in Copies[c] /\ request[c][k] # request[c][j]
    /\ stage' = [stage EXCEPT ![c][k] = "sent"]
    /\ request' = [request EXCEPT ![c][k] = request[c][j]]
    /\ UNCHANGED <<lock_holder, callVars, dbVars>>

\* Nobody waits for this answer any more.
DropAnswer(c, k) ==
    /\ stage[c][k] \in Answers
    /\ pc[c] # "wait" \/ request[c][k] # signed[c]
    /\ stage' = [stage EXCEPT ![c][k] = "idle"]
    /\ UNCHANGED <<lock_holder, request, callVars, dbVars>>

Ids(entries) == {e.ledger_entry_id : e \in entries}
Rows(s) == {s[i] : i \in 1..Len(s)}

\* The id of the first entry is looked up before the lock is taken. A row with
\* the same id is an idempotent replay when every column is the same, and a
\* conflict when not.
LookUpEntryId_IdOnly(c, k) ==
    /\ stage[c][k] = "sent"
    /\ stage' = [stage EXCEPT ![c][k] =
                    IF request[c][k][1].ledger_entry_id \in Ids(ledger_entries)
                    THEN "ok" ELSE "checked"]
    /\ UNCHANGED <<lock_holder, request, callVars, dbVars>>
LookUpEntryId(c, k) ==
    /\ stage[c][k] = "sent"
    /\ LET e == request[c][k][1]
       IN  stage' = [stage EXCEPT ![c][k] =
                        CASE e \in ledger_entries -> "ok"
                          [] e.ledger_entry_id \notin Ids(ledger_entries) -> "checked"
                          [] OTHER -> "id_conflict"]
    /\ UNCHANGED <<lock_holder, request, callVars, dbVars>>

RowLockFree_NoForUpdate == TRUE
RowLockFree == lock_holder = NoTx

\* select ... from ledger_chain_state ... for update: waits until no other
\* transaction holds the row, then reads what is committed.
LockChainState_NoCompare(c, k) ==
    /\ stage[c][k] = "checked"
    /\ RowLockFree
    /\ stage' = [stage EXCEPT ![c][k] = "locked"]
    /\ lock_holder' = <<c, k>>
    /\ UNCHANGED <<request, callVars, dbVars>>
LockChainState_LeaksLock(c, k) ==
    /\ stage[c][k] = "checked"
    /\ RowLockFree
    /\ stage' = [stage EXCEPT ![c][k] =
                    IF request[c][k][1].sequence_no = chain_state.last_sequence_no + 1
                    THEN "locked" ELSE "seq_mismatch"]
    /\ lock_holder' = <<c, k>>
    /\ UNCHANGED <<request, callVars, dbVars>>
LockChainState(c, k) ==
    /\ stage[c][k] = "checked"
    /\ RowLockFree
    /\ LET e == request[c][k][1]
       IN  IF e.sequence_no # chain_state.last_sequence_no + 1
           THEN /\ stage' = [stage EXCEPT ![c][k] = "seq_mismatch"]
                /\ UNCHANGED lock_holder
           ELSE IF e.previous_entry_hash # chain_state.last_entry_hash
           THEN /\ stage' = [stage EXCEPT ![c][k] = "prev_mismatch"]
                /\ UNCHANGED lock_holder
           ELSE /\ stage' = [stage EXCEPT ![c][k] = "locked"]
                /\ lock_holder' = <<c, k>>
    /\ UNCHANGED <<request, callVars, dbVars>>

\* Insert the entries, move the head to the last one, commit. The later entries
\* of a batch follow the earlier ones by construction (SignNext), so only the
\* unique constraint on id can still refuse them; then nothing is kept.
CommitAppend(c, k) ==
    /\ stage[c][k] = "locked"
    /\ LET r == request[c][k]
           last == r[Len(r)]
       IN  IF Ids(Rows(r)) \cap Ids(ledger_entries) # {}
           THEN /\ stage' = [stage EXCEPT ![c][k] = "id_conflict"]
                /\ UNCHANGED dbVars
           ELSE /\ ledger_entries' = ledger_entries \cup Rows(r)
                /\ chain_state' = [last_sequence_no |-> last.sequence_no,
                                   last_entry_hash |-> last.entry_hash]
                /\ stage' = [stage EXCEPT ![c][k] = "ok"]
    /\ lock_holder' = NoTx
    /\ UNCHANGED <<request, callVars>>

\* The request is lost on its way, or its transaction is rolled back.
AbortTx_KeepsFirst(c, k) ==
    /\ stage[c][k] \in Running
    /\ IF stage[c][k] = "locked"
       THEN LET e == request[c][k][1]
            IN  /\ ledger_entries' = ledger_entries \cup {e}
                /\ chain_state' = [last_sequence_no |-> e.sequence_no,
                                   last_entry_hash |-> e.entry_hash]
       ELSE UNCHANGED dbVars
    /\ stage' = [stage EXCEPT ![c][k] = "failed"]
    /\ lock_holder' = IF lock_holder = <<c, k>> THEN NoTx ELSE lock_holder
    /\ UNCHANGED <<request, callVars>>
AbortTx(c, k) ==
    /\ stage[c][k] \in Running
    /\ stage' = [stage EXCEPT ![c][k] = "failed"]
    /\ lock_holder' = IF lock_holder = <<c, k>> THEN NoTx ELSE lock_holder
    /\ UNCHANGED <<request, callVars, dbVars>>

-----------------------------------------------------------------------------
CallStep(c) == \/ FetchChainHead(c)
               \/ FetchChainHeadFails(c)
               \/ SignNext(c)
               \/ SendRequest(c)
               \/ \E k \in Copy : ReceiveAnswer(c, k)
               \/ GiveUp(c)

TxStep(c, k) == \/ DropAnswer(c, k)
                \/ LookUpEntryId(c, k)
                \/ LockChainState(c, k)
                \/ CommitAppend(c, k)
                \/ AbortTx(c, k)
                \/ \E j \in Copy : DuplicateRequest(c, j, k)

\* Every call has returned and no request is left.
Quiescent == /\ \A c \in Call : pc[c] = "done"
             /\ \A c \in Call, k \in Copy : stage[c][k] = "idle"
             /\ UNCHANGED vars

Next == \/ \E c \in Call : CallStep(c)
        \/ \E c \in Call, k \in Copy : TxStep(c, k)
        \/ Quiescent

\* The runtime polls every call, and the database executes every request it
\* has been given; no failure and no duplication is ever forced to happen.
Fairness ==
    \A c \in Call :
       /\ WF_vars(FetchChainHead(c) \/ SignNext(c) \/ SendRequest(c))
       /\ \A k \in Copy :
             WF_vars(ReceiveAnswer(c, k) \/ DropAnswer(c, k) \/ LookUpEntryId(c, k)
                     \/ LockChainState(c, k) \/ CommitAppend(c, k))

Spec == Init /\ [][Next]_vars

FairSpec == Spec /\ Fairness
-----------------------------------------------------------------------------
(* Properties. *)

\* Types, and the bound on the attempts of a call: `append` fetches the head at
\* most max_conflict_retries + 1 times, a single-shot call once.
TypeOK ==
    /\ ledger_entries \subseteq Row
    /\ chain_state \in ChainHead
    /\ lock_holder \in {NoTx} \cup (Call \X Copy)
    /\ pc \in [Call -> {"start", "sign", "wait", "done"}]
    /\ attempts \in [Call -> Nat]
    /\ \A c \in Call : attempts[c] <= Retries(c) + 1
    /\ head \in [Call -> ChainHead]
    /\ signed \in [Call -> Seq(Row)]
    /\ outcome \in [Call -> {"none", "ok", "conflict", "invalid", "external"}]
    /\ stage \in [Call -> [Copy -> {"idle"} \cup Running \cup Answers]]
    /\ request \in [Call -> [Copy -> Seq(Row)]]

\* Every sequence_no from 1 to the head is used by exactly one row.
NoGapNoFork ==
    /\ \A e \in ledger_entries : e.sequence_no \in 1..chain_state.last_sequence_no
    /\ \A n \in 1..chain_state.last_sequence_no :
          \E e \in ledger_entries : e.sequence_no = n
    /\ \A e, f \in ledger_entries : e.sequence_no = f.sequence_no => e = f

\* Every row carries the hash of the row before it, the first one the genesis
\* hash, and the head carries the hash of the last row.
HashLinked ==
    /\ \A e \in ledger_entries :
          /\ e.entry_hash = EntryHash(e.ledger_entry_id, e.sequence_no, e.previous_entry_hash)
          /\ e.sequence_no = 1 => e.previous_entry_hash = GenesisHash
          /\ e.sequence_no = chain_state.last_sequence_no =>
                e.entry_hash = chain_state.last_entry_hash
    /\ \A e, f \in ledger_entries :
          f.sequence_no = e.sequence_no + 1 => f.previous_entry_hash = e.entry_hash
    /\ chain_state.last_sequence_no = 0 => chain_state.last_entry_hash = GenesisHash

\* However calls, retries and duplicated requests interleave, the committed rows
\* are one gapless hash chain that ends in ledger_chain_state
\* (rpc_append_ledger_entry under the row lock).
ChainIntact == NoGapNoFork /\ HashLinked

\* The entries one call signs are committed together and side by side, or not at
\* all, however often its request is lost, aborted or delivered again; no draft
\* is in the ledger twice.
BatchAtomic ==
    \A c \in Call :
       LET rows == {e \in ledger_entries : \E i \in 1..Len(Batch[c]) :
                                             e.ledger_entry_id = Batch[c][i]}
       IN  rows # {} =>
             \E n \in 0..chain_state.last_sequence_no :
                /\ Cardinality(rows) = Len(Batch[c])
                /\ \A e \in rows : /\ e.sequence_no - n \in 1..Len(Batch[c])
                                   /\ e.ledger_entry_id = Batch[c][e.sequence_no - n]

\* A call that returns Ok has exactly the rows it signed in the ledger: the
\* callers forward those bytes to the SIEM and release what the entry records.
AckedIsDurable ==
    \A c \in Call : outcome[c] = "ok" => Rows(signed[c]) \subseteq ledger_entries

\* When its requests are not delivered twice, a call that returns Conflict has
\* left nothing behind and nothing of it can arrive later: the caller may start
\* over with a new draft without recording the event twice.
ConflictMeansAbsent ==
    \A c \in Call : outcome[c] = "conflict" /\ Cardinality(Copies[c]) = 1 =>
       /\ \A i \in 1..Len(Batch[c]) : Batch[c][i] \notin Ids(ledger_entries)
       /\ \A k \in Copy : stage[c][k] \notin Running

\* Rows are never changed or removed, and a step adds rows only after the head.
AppendOnly ==
    [][/\ ledger_entries \subseteq ledger_entries'
       /\ \A e \in ledger_entries' \ ledger_entries :
             e.sequence_no > chain_state.last_sequence_no
       /\ chain_state'.last_sequence_no >= chain_state.last_sequence_no]_vars

\* A retry of `append` is never wasted: the head it fetches is past the one that
\* was refused, so a conflict always means that some other call got through.
RetrySeesNewHead ==
    [][\A c \in Call :
          (attempts[c] > 0 /\ attempts'[c] > attempts[c] /\ pc'[c] = "sign") =>
             head'[c].last_sequence_no > head[c].last_sequence_no]_vars

\* Every call returns, even when no timeout ever ends it: nobody waits forever
\* for the row lock or for an answer.
EveryCallReturns == \A c \in Call : <>(pc[c] = "done")

\* The ids in sequence_no order: the log that LedgerLog speaks of.
LogOfIds == [n \in 1..chain_state.last_sequence_no |->
               (CHOOSE e \in ledger_entries : e.sequence_no = n).ledger_entry_id]

Log == INSTANCE LedgerLog WITH log <- LogOfIds, outcome <- outcome

\* Retries, locks and messages implement the atomic append of LedgerLog.
ImplementsLog == Log!Spec
=============================================================================
