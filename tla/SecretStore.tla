---------------------------- MODULE SecretStore -----------------------------
(***************************************************************************)
(* Secrets, their retained versions and the Master Key rotation, as the    *)
(* operations that run concurrently see them: handlers of the server       *)
(* (create, rotate, decrypt) and the rotation CLI (start, rewrap,          *)
(* complete).  Every operation reads what it needs in separate requests,   *)
(* fetches the ledger head, signs its entries on it and calls one RPC; the *)
(* RPC is a READ COMMITTED transaction of several statements that takes    *)
(* row locks as it goes and appends its entries to the ledger under the    *)
(* row lock on ledger_chain_state.                                         *)
(*                                                                         *)
(* The ledger is the sequence of its entries: by the chain integrity shown *)
(* in LedgerChain a head is known by its sequence_no.  A ledger entry      *)
(* stands for itself and for the audit event with its source_event_id,     *)
(* which is inserted by the same transaction.                              *)
(***************************************************************************)
EXTENDS Integers, Sequences, FiniteSets

CONSTANTS Proc,            \* the operations that can be in progress at once
          Secret,          \* secret ids, ordered as the database orders them
          Old, New,        \* the Master Key versions of the rotation
          RetentionLimit,  \* SECRET_VERSION_RETENTION_LIMIT (4)
          BatchLimit,      \* --batch-limit of the rewrap command
          Workload         \* bound: which kinds of operations are started, and how many

None == 0
NoProc == "no_proc"

ASSUME SecretAssumption == Secret \subseteq Nat \ {0}
ASSUME ProcAssumption == NoProc \notin Proc
ASSUME KeyAssumption == Old \in Nat /\ New \in Nat /\ Old # New
ASSUME LimitAssumption == RetentionLimit \in Nat \ {0} /\ BatchLimit \in Nat \ {0}

Kinds == {"create", "rotate", "decrypt", "start", "rewrap", "complete"}
ASSUME WorkloadAssumption == Workload \subseteq [kinds : SUBSET Kinds, ops : Nat]
EntryTypes == {"secret_created", "secret_version_created", "secret_version_purged",
               "secret_decrypted", "key_rotation_started", "key_rotation_reencrypted",
               "key_rotation_completed"}

VARIABLES
    versions,      \* committed rows of secret_versions
    current,       \* current[s]: the version secrets.current_version_id names, 0: no secret
    ledger,        \* committed ledger entries, in sequence_no order
    active_key,    \* the active version of the server's keyring
    op,            \* op[p]: what operation p has read so far
    tx,            \* tx[p]: where its transaction stands
    secret_lock,   \* secret_lock[s]: who holds the row lock on secrets
    row_locks,     \* row_locks[p]: the version rows p has updated
    chain_lock,    \* who holds the row lock on ledger_chain_state
    workload,      \* the bound that this behaviour keeps
    started,       \* operations started so far; numbers the requests
    acked          \* the operations that were answered with success

tables == <<versions, current, ledger>>
locks == <<secret_lock, row_locks, chain_lock>>
vars == <<tables, active_key, op, tx, locks, workload, started, acked>>

VersionRow == [secret : Secret, version : Nat, key_version : {Old, New}]
Entry == [type : EntryTypes, request : Nat, secret : Secret \cup {None}, version : Nat,
          key_version : {Old, New}, remaining : Nat]
Idle == [pc |-> "idle", kind |-> "start", request |-> 0, secret |-> None, version |-> 0,
         key_version |-> Old, rows |-> {}, remaining |-> 0, head |-> 0]

Init == /\ versions = {}
        /\ current = [s \in Secret |-> 0]
        /\ ledger = <<>>
        /\ active_key = Old
        /\ op = [p \in Proc |-> Idle]
        /\ tx = [p \in Proc |-> "idle"]
        /\ secret_lock = [s \in Secret |-> NoProc]
        /\ row_locks = [p \in Proc |-> {}]
        /\ chain_lock = NoProc
        /\ workload \in Workload
        /\ started = 0
        /\ acked = {}

RowsOf(s) == {r \in versions : r.secret = s}
OldRows == {r \in versions : r.key_version = Old}

\* The rows beyond the newest RetentionLimit ones: `skip` after a descending sort in
\* build_purge_ledger_drafts, retained_rank > 4 in rpc_write_secret_version.
BeyondRetention_OffByOne(rows) ==
    {r \in rows : Cardinality({q \in rows : q.version > r.version}) > RetentionLimit}
BeyondRetention(rows) ==
    {r \in rows : Cardinality({q \in rows : q.version > r.version}) >= RetentionLimit}

-----------------------------------------------------------------------------
(* What an operation reads before it calls its RPC. *)

Start(p, o) ==
    /\ op[p].pc = "idle"
    /\ started < workload.ops
    /\ o.kind \in workload.kinds
    /\ started' = started + 1
    /\ op' = [op EXCEPT ![p] = [o EXCEPT !.request = started + 1]]
    /\ UNCHANGED <<tables, active_key, tx, locks, workload, acked>>

\* create_secret: a fresh UUID, version 1, the active key of the keyring.
BeginCreate(p) ==
    \E s \in Secret :
       /\ current[s] = 0
       /\ \A q \in Proc : op[q].secret # s
       /\ Start(p, [Idle EXCEPT !.pc = "sign", !.kind = "create", !.secret = s, !.version = 1,
                                !.key_version = active_key])

\* rotate_secret: the current version decides the next version number.
BeginRotate(p) ==
    \E s \in Secret :
       /\ current[s] # 0
       /\ Start(p, [Idle EXCEPT !.pc = "snapshot", !.kind = "rotate", !.secret = s,
                                !.version = current[s] + 1, !.key_version = active_key])

\* fetch_secret_version_retention_snapshot: another request, another moment.
ReadRetentionSnapshot(p) ==
    /\ op[p].pc = "snapshot"
    /\ op' = [op EXCEPT ![p].pc = "sign", ![p].rows = RowsOf(op[p].secret)]
    /\ UNCHANGED <<tables, active_key, tx, locks, workload, started, acked>>

\* decrypt_secret: the current row is fetched and decrypted with its own key
\* version; the plaintext is held back until the audit event is recorded.
BeginDecrypt(p) ==
    \E r \in versions :
       /\ r.version = current[r.secret]
       /\ Start(p, [Idle EXCEPT !.pc = "sign", !.kind = "decrypt", !.secret = r.secret,
                                !.version = r.version, !.key_version = r.key_version])

BeginRotationStart(p) ==
    Start(p, [Idle EXCEPT !.pc = "sign", !.kind = "start", !.key_version = New])

Before(q, r) == \/ q.secret < r.secret
                \/ q.secret = r.secret /\ q.version < r.version

\* rewrap: the first rows on the old key (order by secret_id, version), rewrapped
\* under the new one. With no such row the command ends without a request.
BeginRewrap(p) ==
    /\ OldRows # {}
    /\ Start(p, [Idle EXCEPT !.pc = "status", !.kind = "rewrap", !.key_version = New,
                             !.rows = {r \in OldRows :
                                Cardinality({q \in OldRows : Before(q, r)}) < BatchLimit}])

\* rpc_key_rotation_status: remaining_count = rows on the old key - batch size; a
\* negative difference ends the command (checked_sub).
ReadRotationStatus_Waits(p) ==
    /\ op[p].pc = "status"
    /\ LET n == Cardinality(OldRows) - Cardinality(op[p].rows)
       IN  /\ n >= 0
           /\ op' = [op EXCEPT ![p].pc = "sign", ![p].remaining = n]
    /\ UNCHANGED <<tables, active_key, tx, locks, workload, started, acked>>
ReadRotationStatus(p) ==
    /\ op[p].pc = "status"
    /\ LET n == Cardinality(OldRows) - Cardinality(op[p].rows)
       IN  op' = [op EXCEPT ![p] = IF n < 0 THEN Idle
                                   ELSE [op[p] EXCEPT !.pc = "sign", !.remaining = n]]
    /\ UNCHANGED <<tables, active_key, tx, locks, workload, started, acked>>

BeginComplete(p) ==
    Start(p, [Idle EXCEPT !.pc = "sign", !.kind = "complete", !.key_version = New])

\* sign_entries fetches the head; the RPC is sent with the entries signed on it.
SignAndSend(p) ==
    /\ op[p].pc = "sign"
    /\ op' = [op EXCEPT ![p].pc = "wait", ![p].head = Len(ledger)]
    /\ tx' = [tx EXCEPT ![p] = "sent"]
    /\ UNCHANGED <<tables, active_key, locks, workload, started, acked>>

\* A read or the fetch of the head fails: the operation ends before its RPC.
ReadFails(p) ==
    /\ op[p].pc \in {"snapshot", "status", "sign"}
    /\ op' = [op EXCEPT ![p] = Idle]
    /\ UNCHANGED <<tables, active_key, tx, locks, workload, started, acked>>

NewRow(o) == [secret |-> o.secret, version |-> o.version, key_version |-> o.key_version]

PurgeEntry(o, r) ==
    [type |-> "secret_version_purged", request |-> o.request, secret |-> r.secret,
     version |-> r.version, key_version |-> r.key_version, remaining |-> 0]

\* build_purge_ledger_drafts: from the snapshot the operation has read; nothing is
\* purged by a create.
PurgeDrafts(o) ==
    IF o.kind = "create" THEN {}
    ELSE {PurgeEntry(o, r) : r \in BeyondRetention(o.rows \cup {NewRow(o)})}

\* The purge entries, signed in ascending order of the version.
InOrder(drafts) ==
    {q \in [1..Cardinality(drafts) -> drafts] :
        /\ \A e \in drafts : \E i \in DOMAIN q : q[i] = e
        /\ \A i, j \in DOMAIN q : i < j => q[i].version <= q[j].version}

EntryType(kind) == CASE kind = "create" -> "secret_created"
                     [] kind = "rotate" -> "secret_version_created"
                     [] kind = "decrypt" -> "secret_decrypted"
                     [] kind = "start" -> "key_rotation_started"
                     [] kind = "rewrap" -> "key_rotation_reencrypted"
                     [] kind = "complete" -> "key_rotation_completed"

MainEntry(o) ==
    [type |-> EntryType(o.kind), request |-> o.request, secret |-> o.secret,
     version |-> o.version, key_version |-> o.key_version, remaining |-> o.remaining]

-----------------------------------------------------------------------------
(* The transactions. *)

Release(p) ==
    /\ secret_lock' = [s \in Secret |-> IF secret_lock[s] = p THEN NoProc ELSE secret_lock[s]]
    /\ row_locks' = [row_locks EXCEPT ![p] = {}]
    /\ chain_lock' = IF chain_lock = p THEN NoProc ELSE chain_lock

Abort(p) == /\ tx' = [tx EXCEPT ![p] = "failed"]
            /\ Release(p)
            /\ UNCHANGED tables

Commit(p, entries) == /\ ledger' = ledger \o entries
                      /\ tx' = [tx EXCEPT ![p] = "ok"]
                      /\ Release(p)

TxFrame == UNCHANGED <<active_key, op, workload, started, acked>>

\* The comparison in rpc_append_ledger_entry, made under the lock on the chain.
FitsHead_NoCompare(p) == TRUE
FitsHead(p) == op[p].head = Len(ledger)

IsWrite(p) == op[p].kind \in {"create", "rotate"}

\* The row of secrets is locked and compared before anything is inserted.
NextVersion_NotCompared(p) == TRUE
NextVersion(p) == /\ op[p].version = current[op[p].secret] + 1
                  /\ \A r \in RowsOf(op[p].secret) : r.version # op[p].version

LockSecret(p) ==
    /\ tx[p] = "sent" /\ IsWrite(p)
    /\ secret_lock[op[p].secret] = NoProc
    /\ IF NextVersion(p)
       THEN /\ secret_lock' = [secret_lock EXCEPT ![op[p].secret] = p]
            /\ tx' = [tx EXCEPT ![p] = "inserted"]
            /\ UNCHANGED <<tables, row_locks, chain_lock>>
       ELSE Abort(p)
    /\ TxFrame

\* The write entry is appended before the old versions are deleted, so the chain
\* stays locked while the deletion waits for row locks.
AppendWriteEntry(p) ==
    /\ tx[p] = "inserted"
    /\ chain_lock = NoProc
    /\ IF FitsHead(p)
       THEN /\ chain_lock' = p
            /\ tx' = [tx EXCEPT ![p] = "appended"]
            /\ UNCHANGED <<tables, secret_lock, row_locks>>
       ELSE Abort(p)
    /\ TxFrame

Purged(p) == BeyondRetention(RowsOf(op[p].secret) \cup {NewRow(op[p])})

\* Every deleted row needs a signed entry with its version and key version, and
\* no entry may be left over.
PurgesAsSigned_Unchecked(p) == TRUE
PurgesAsSigned(p) == PurgeDrafts(op[p]) = {PurgeEntry(op[p], r) : r \in Purged(p)}

PurgeAndCommit(p) ==
    /\ tx[p] = "appended"
    /\ \A q \in Proc \ {p} : row_locks[q] \cap Purged(p) = {}
    /\ IF PurgesAsSigned(p)
       THEN /\ versions' = (versions \cup {NewRow(op[p])}) \ Purged(p)
            /\ current' = [current EXCEPT ![op[p].secret] = op[p].version]
            /\ \E purges \in InOrder(PurgeDrafts(op[p])) : Commit(p, <<MainEntry(op[p])>> \o purges)
       ELSE Abort(p)
    /\ TxFrame

\* update secret_versions ... where key_version = p_old_key_version: waits for rows
\* another rotation has updated, then counts what still matches.
UpdateRows(p) ==
    /\ tx[p] = "sent" /\ op[p].kind = "rewrap"
    /\ \A q \in Proc \ {p} : row_locks[q] \cap op[p].rows = {}
    /\ IF op[p].rows \subseteq OldRows
       THEN /\ row_locks' = [row_locks EXCEPT ![p] = op[p].rows]
            /\ tx' = [tx EXCEPT ![p] = "updated"]
            /\ UNCHANGED <<tables, secret_lock, chain_lock>>
       ELSE Abort(p)
    /\ TxFrame

\* The next statement counts the rows left on the old key, as committed now.
CountRemaining(p) ==
    /\ tx[p] = "updated"
    /\ IF Cardinality(OldRows \ op[p].rows) = op[p].remaining
       THEN tx' = [tx EXCEPT ![p] = "counted"] /\ UNCHANGED <<tables, locks>>
       ELSE Abort(p)
    /\ TxFrame

CommitRewrap(p) ==
    /\ tx[p] = "counted" /\ op[p].kind = "rewrap"
    /\ chain_lock = NoProc
    /\ IF FitsHead(p)
       THEN /\ versions' = (versions \ op[p].rows)
                           \cup {[r EXCEPT !.key_version = New] : r \in op[p].rows}
            /\ UNCHANGED current
            /\ Commit(p, <<MainEntry(op[p])>>)
       ELSE Abort(p)
    /\ TxFrame

\* rpc_complete_key_rotation: the count comes first, the chain is locked later.
CountForCompletion(p) ==
    /\ tx[p] = "sent" /\ op[p].kind = "complete"
    /\ IF OldRows = {}
       THEN tx' = [tx EXCEPT ![p] = "counted"] /\ UNCHANGED <<tables, locks>>
       ELSE Abort(p)
    /\ TxFrame

CommitCompletion(p) ==
    /\ tx[p] = "counted" /\ op[p].kind = "complete"
    /\ chain_lock = NoProc
    /\ IF FitsHead(p)
       THEN UNCHANGED <<versions, current>> /\ Commit(p, <<MainEntry(op[p])>>)
       ELSE Abort(p)
    /\ TxFrame

\* rpc_append_audit_event_with_ledger
CommitAudit(p) ==
    /\ tx[p] = "sent" /\ op[p].kind \in {"decrypt", "start"}
    /\ chain_lock = NoProc
    /\ IF FitsHead(p)
       THEN UNCHANGED <<versions, current>> /\ Commit(p, <<MainEntry(op[p])>>)
       ELSE Abort(p)
    /\ TxFrame

InTx(p) == tx[p] \in {"sent", "inserted", "appended", "updated", "counted"}

\* A write that holds the chain waits for a version row whose rewrap waits for
\* the chain.
Deadlocked(p, q) == /\ tx[p] = "appended" /\ tx[q] = "counted"
                    /\ row_locks[q] \cap Purged(p) # {}

\* The deadlock detector of the database ends either of the two.
DeadlockAbort(p) ==
    /\ \E q \in Proc : Deadlocked(p, q) \/ Deadlocked(q, p)
    /\ Abort(p)
    /\ TxFrame

\* The request is lost, or the transaction is rolled back by a failure.
TxFails(p) == InTx(p) /\ Abort(p) /\ TxFrame

-----------------------------------------------------------------------------
(* The answer. *)

Finish(p) == /\ op' = [op EXCEPT ![p] = Idle]
             /\ tx' = [tx EXCEPT ![p] = "idle"]
             /\ UNCHANGED <<tables, active_key, locks, workload, started>>

\* Success is reported, and a plaintext handed out, only on the RPC's success.
Answered_FailOpen(p) == tx[p] = "ok" \/ (tx[p] = "failed" /\ op[p].kind = "decrypt")
Answered(p) == tx[p] = "ok"

ReceiveAnswer(p) ==
    /\ op[p].pc = "wait" /\ tx[p] \in {"ok", "failed"}
    /\ acked' = IF Answered(p) THEN acked \cup {MainEntry(op[p])} ELSE acked
    /\ Finish(p)

\* Timeout or lost connection: the operation ends with an error, the request
\* stays with the database.
GiveUp(p) == /\ op[p].pc = "wait"
             /\ op' = [op EXCEPT ![p].pc = "gone"]
             /\ UNCHANGED <<tables, active_key, tx, locks, workload, started, acked>>

DropAnswer(p) == /\ op[p].pc = "gone" /\ tx[p] \in {"ok", "failed"}
                 /\ Finish(p)
                 /\ UNCHANGED acked

\* The server is restarted with the new key active; requests being served keep
\* the key they were prepared with.
SwitchKeyring == /\ active_key = Old
                 /\ active_key' = New
                 /\ UNCHANGED <<tables, op, tx, locks, workload, started, acked>>

-----------------------------------------------------------------------------
Begin(p) == \/ BeginCreate(p) \/ BeginRotate(p) \/ BeginDecrypt(p)
            \/ BeginRotationStart(p) \/ BeginRewrap(p) \/ BeginComplete(p)

Proceed(p) == ReadRetentionSnapshot(p) \/ ReadRotationStatus(p) \/ SignAndSend(p)

Execute(p) == \/ LockSecret(p) \/ AppendWriteEntry(p) \/ PurgeAndCommit(p)
              \/ UpdateRows(p) \/ CountRemaining(p) \/ CommitRewrap(p)
              \/ CountForCompletion(p) \/ CommitCompletion(p) \/ CommitAudit(p)

Quiescent == /\ \A p \in Proc : op[p].pc = "idle"
             /\ started = workload.ops
             /\ UNCHANGED vars

Next == \/ \E p \in Proc : \/ Begin(p) \/ Proceed(p) \/ Execute(p)
                           \/ ReadFails(p) \/ DeadlockAbort(p) \/ TxFails(p)
                           \/ ReceiveAnswer(p) \/ GiveUp(p) \/ DropAnswer(p)
        \/ SwitchKeyring
        \/ Quiescent

Spec == Init /\ [][Next]_vars

\* Operations are polled, statements are executed and deadlocks are detected.
Fairness == \A p \in Proc : /\ WF_vars(Proceed(p))
                            /\ WF_vars(Execute(p))
                            /\ WF_vars(DeadlockAbort(p))
                            /\ WF_vars(ReceiveAnswer(p) \/ DropAnswer(p))

FairSpec == Spec /\ Fairness
-----------------------------------------------------------------------------
(* Properties. *)

\* Types; in particular remaining_count never wraps below zero.
TypeOK ==
    /\ versions \subseteq VersionRow
    /\ current \in [Secret -> Nat]
    /\ ledger \in Seq(Entry)
    /\ active_key \in {Old, New}
    /\ op \in [Proc -> [pc : {"idle", "snapshot", "status", "sign", "wait", "gone"},
                        kind : Kinds, request : Nat, secret : Secret \cup {None},
                        version : Nat, key_version : {Old, New},
                        rows : SUBSET VersionRow, remaining : Nat, head : Nat]]
    /\ tx \in [Proc -> {"idle", "sent", "inserted", "appended", "updated", "counted",
                        "ok", "failed"}]
    /\ secret_lock \in [Secret -> Proc \cup {NoProc}]
    /\ row_locks \in [Proc -> SUBSET VersionRow]
    /\ chain_lock \in Proc \cup {NoProc}
    /\ workload \in Workload /\ started \in 0..workload.ops
    /\ acked \subseteq Entry

\* The retained versions of a secret are exactly the newest ones up to the
\* retention limit, without a gap, and the current one is among them. It also says
\* that a write never purges more than one row, which is what makes the unordered
\* `delete ... returning` loop agree with the signed order of the purge entries.
RetentionWindow ==
    \A s \in Secret :
       /\ {r.version : r \in RowsOf(s)} =
             {v \in 1..current[s] : v > current[s] - RetentionLimit}
       /\ \A q, r \in RowsOf(s) : q.version = r.version => q = r

\* Every write that was answered with success is in the ledger, with its secret and
\* its version under its own request, no two of them produced the same version, and
\* the current version of the secret is not behind: no update is lost to a race.
NoLostUpdate ==
    LET writes == {a \in acked : a.type \in {"secret_created", "secret_version_created"}}
    IN  /\ \A a \in writes : \E i \in 1..Len(ledger) : ledger[i] = a
        /\ \A a, b \in writes : a.secret = b.secret /\ a.version = b.version => a = b
        /\ \A a \in writes : a.version <= current[a.secret]

\* A plaintext leaves the server only after the ledger holds an entry for that
\* request which names the version and the key it was read with (fail-close).
PlaintextIsAudited ==
    \A a \in acked : a.type = "secret_decrypted" =>
       \E i \in 1..Len(ledger) : ledger[i] = a

\* The ledger is extended only by a transaction whose entries were signed on its
\* head, although a write compares the head before it waits for the rows it deletes.
SignedOnHead ==
    [][ledger' # ledger =>
          \E p \in Proc : /\ tx[p] # "ok" /\ tx'[p] = "ok"
                          /\ op[p].head = Len(ledger)]_vars

\* The entries a step appends.
NewEntries == {ledger'[i] : i \in (Len(ledger) + 1)..Len(ledger')}

\* A row leaves the store only together with a ledger entry that names it with
\* the key version it has at that moment, even when a rewrap changed that key
\* version after the client had read its retention snapshot.
PurgesAreLedgered ==
    [][\A r \in versions :
          (\A q \in versions' : q.secret # r.secret \/ q.version # r.version) =>
             \E e \in NewEntries : /\ e.type = "secret_version_purged"
                                   /\ e.secret = r.secret /\ e.version = r.version
                                   /\ e.key_version = r.key_version]_vars

\* The counts in the signed rotation entries are exact when they are committed:
\* remaining_count is the number of rows left on the old key, and a rotation is
\* completed with none left, although both were counted before the chain was
\* locked and writers with the old key active may run beside the rotation.
RotationCountsExact ==
    [][\A e \in NewEntries :
          e.type \in {"key_rotation_reencrypted", "key_rotation_completed"} =>
             e.remaining = Cardinality({r \in versions' : r.key_version = Old})]_vars

\* Every operation ends, also when a write and a rewrap lock each other out.
EveryOperationEnds == \A p \in Proc : []<>(op[p].pc = "idle")
=============================================================================
