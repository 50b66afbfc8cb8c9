------------------------- MODULE SecretStoreProofs --------------------------
(***************************************************************************)
(* Proofs about SecretStore, for any number of secrets, of operations at a *)
(* time and of retained versions: the retention window, that no update is  *)
(* lost, that no plaintext is handed out without its ledger entry, and     *)
(* that what a rotation signs is exact when it is committed.               *)
(*                                                                         *)
(* The invariant says what a transaction has established where it stands   *)
(* and which lock keeps it so: a write the version number under the lock   *)
(* on its secret and the head under the lock on the chain, a rewrap its    *)
(* rows under their locks.  What a rotation has counted is kept by no      *)
(* lock, only by the head: whoever changes the rows moves the head.        *)
(***************************************************************************)
EXTENDS SecretStore, TLAPS, FiniteSetTheorems

Stage == {"idle", "sent", "inserted", "appended", "updated", "counted", "ok", "failed"}
OpRow == [pc : {"idle", "snapshot", "status", "sign", "wait", "gone"},
          kind : Kinds, request : Nat, secret : Secret \cup {None},
          version : Nat, key_version : {Old, New},
          rows : SUBSET VersionRow, remaining : Nat, head : Nat]
Writing == {"create", "rotate"}
WriteTypes == {"secret_created", "secret_version_created"}
InLedger(e) == \E i \in 1..Len(ledger) : ledger[i] = e

\* The tables: finitely many rows, and the retention window.
Tables == /\ versions \subseteq VersionRow /\ IsFiniteSet(versions)
          /\ current \in [Secret -> Nat]
          /\ ledger \in Seq(Entry)
          /\ RetentionWindow

\* The locks: a row is locked by one transaction.
Locks == /\ secret_lock \in [Secret -> Proc \cup {NoProc}]
         /\ row_locks \in [Proc -> SUBSET VersionRow]
         /\ chain_lock \in Proc \cup {NoProc}
         /\ \A p, q \in Proc : p # q => row_locks[p] \cap row_locks[q] = {}

\* An operation by itself.
OpOk(o) == /\ o \in OpRow /\ IsFiniteSet(o.rows)
           /\ o.kind \in Writing \cup {"decrypt"} => o.secret \in Secret
           /\ o.kind = "complete" => o.remaining = 0 /\ o.rows = {}
           /\ o.pc = "snapshot" => o.kind = "rotate"
           /\ o.pc = "status" => o.kind = "rewrap"

\* The transaction of the process p, with operation o, at stage t.
TxOk(p, o, t) ==
    /\ t # "idle" => o.pc \in {"wait", "gone"} /\ o.head <= Len(ledger)
    /\ t \in {"inserted", "appended"} => /\ o.kind \in Writing /\ secret_lock[o.secret] = p
                                         /\ o.version = current[o.secret] + 1
    /\ t = "appended" => chain_lock = p /\ o.head = Len(ledger)
    /\ t = "updated" => o.kind = "rewrap"
    /\ t = "counted" => o.kind \in {"rewrap", "complete"}
    /\ t \in {"updated", "counted"} /\ o.kind = "rewrap" =>
          row_locks[p] = o.rows /\ o.rows \subseteq OldRows
    /\ t = "counted" /\ o.head = Len(ledger) => Cardinality(OldRows \ o.rows) = o.remaining
    /\ t = "ok" => InLedger(MainEntry(o))
    /\ t = "ok" /\ o.kind \in Writing => o.version <= current[o.secret]

Ops == /\ op \in [Proc -> OpRow] /\ tx \in [Proc -> Stage]
       /\ \A p \in Proc : OpOk(op[p]) /\ TxOk(p, op[p], tx[p])

\* Two answered writes differ in their versions, which are not ahead of the secret's.
VersionsDiffer ==
    LET writes == {a \in acked : a.type \in WriteTypes}
    IN  /\ \A a, b \in writes : a.secret = b.secret /\ a.version = b.version => a = b
        /\ \A a \in writes : a.version <= current[a.secret]

\* The answers: what was answered, and what is about to be, differs in its version.
Wrote(p, s, v) == tx[p] = "ok" /\ op[p].kind \in Writing /\ op[p].secret = s /\ op[p].version = v
Acks == /\ acked \subseteq Entry
        /\ \A a \in acked : InLedger(a) /\ (a.type \in WriteTypes => a.secret \in Secret)
        /\ VersionsDiffer
        /\ \A a \in acked, p \in Proc : a.type \in WriteTypes => ~Wrote(p, a.secret, a.version)
        /\ \A p, q \in Proc, s \in Secret, v \in Nat : Wrote(p, s, v) /\ Wrote(q, s, v) => p = q

\* Keyring and bounds.
Rest == active_key \in {Old, New} /\ workload \in Workload /\ started \in 0..workload.ops

Core == Tables /\ Locks /\ Ops /\ Acks
SInv == Core /\ Rest

-----------------------------------------------------------------------------
(* Entries and operations. *)

\* The entry of an operation says what kind of operation it was.
LEMMA MainEntryType ==
    ASSUME NEW o \in OpRow
    PROVE  /\ MainEntry(o) \in Entry
           /\ MainEntry(o).secret = o.secret /\ MainEntry(o).version = o.version
           /\ MainEntry(o).remaining = o.remaining
           /\ MainEntry(o).type \in WriteTypes <=> o.kind \in Writing
           /\ MainEntry(o).type \in {"key_rotation_reencrypted", "key_rotation_completed"} <=>
                 o.kind \in {"rewrap", "complete"}
<1> DEFINE y == EntryType(o.kind)
<1>1. o.kind \in {"create", "rotate", "decrypt", "start", "rewrap", "complete"}
  BY DEF OpRow, Kinds
<1>2. /\ y \in EntryTypes
      /\ y \in WriteTypes <=> o.kind \in Writing
      /\ y \in {"key_rotation_reencrypted", "key_rotation_completed"} <=>
            o.kind \in {"rewrap", "complete"}
  BY <1>1 DEF EntryType, EntryTypes, WriteTypes, Writing
<1>3. MainEntry(o) = [type |-> y, request |-> o.request, secret |-> o.secret,
                      version |-> o.version, key_version |-> o.key_version,
                      remaining |-> o.remaining]
  BY DEF MainEntry
<1> HIDE DEF y
<1>4. /\ MainEntry(o).type = y /\ MainEntry(o).secret = o.secret
      /\ MainEntry(o).version = o.version /\ MainEntry(o).remaining = o.remaining
  BY <1>3
<1>5. MainEntry(o) \in Entry
  BY <1>2, <1>3 DEF Entry, OpRow
<1> QED BY <1>2, <1>4, <1>5

\* The entry of a purge names the row.
LEMMA PurgeEntryType ==
    ASSUME NEW o \in OpRow, NEW r \in VersionRow
    PROVE  /\ PurgeEntry(o, r) \in Entry
           /\ PurgeEntry(o, r).type = "secret_version_purged"
           /\ PurgeEntry(o, r).secret = r.secret /\ PurgeEntry(o, r).version = r.version
           /\ PurgeEntry(o, r).key_version = r.key_version
BY DEF PurgeEntry, Entry, EntryTypes, OpRow, VersionRow

\* An operation that has not begun is well formed.
LEMMA IdleOk == OpOk(Idle) /\ Idle.pc = "idle" /\ Idle.rows = {}
<1>1. Idle \in OpRow /\ Idle.rows = {} /\ Idle.kind = "start" /\ Idle.pc = "idle"
  BY KeyAssumption DEF Idle, OpRow, Kinds, None
<1>2. IsFiniteSet({})
  BY FS_EmptySet
<1> QED BY <1>1, <1>2 DEF OpOk, Writing

\* Entries are appended; those that were there stay.
LEMMA Appended ==
    ASSUME ledger \in Seq(Entry), NEW es \in Seq(Entry), ledger' = ledger \o es
    PROVE  /\ ledger' \in Seq(Entry) /\ Len(ledger') = Len(ledger) + Len(es)
           /\ Len(ledger) \in Nat /\ Len(es) \in Nat
           /\ \A e : InLedger(e) => InLedger(e)'
           /\ \A k \in 1..Len(es) : ledger'[Len(ledger) + k] = es[k]
           /\ \A k \in 1..Len(es) : InLedger(es[k])'
<1>1. /\ ledger' \in Seq(Entry) /\ Len(ledger') = Len(ledger) + Len(es)
      /\ Len(ledger) \in Nat /\ Len(es) \in Nat
  OBVIOUS
<1>2. \A i \in 1..Len(ledger) : ledger'[i] = ledger[i] /\ i \in 1..Len(ledger')
  BY <1>1
<1>3. \A k \in 1..Len(es) : ledger'[Len(ledger) + k] = es[k] /\ Len(ledger) + k \in 1..Len(ledger')
  BY <1>1
<1>4. \A e : InLedger(e) => InLedger(e)'
  BY <1>2 DEF InLedger
<1>5. ASSUME NEW k \in 1..Len(es) PROVE InLedger(es[k])'
  <2>1. PICK n \in 1..Len(ledger') : ledger'[n] = es[k]
    BY <1>3
  <2>2. PICK e : e = es[k]
    OBVIOUS
  <2>3. InLedger(e)'
    BY <2>1, <2>2 DEF InLedger
  <2> QED BY <2>2, <2>3 DEF InLedger
<1> QED BY <1>1, <1>3, <1>4, <1>5

-----------------------------------------------------------------------------
(* The retention window. *)

\* Of rows with distinct version numbers that reach from v to n without a gap, n - v are
\* newer than v.
LEMMA Newer ==
    ASSUME NEW W, W \subseteq VersionRow, NEW n \in Nat, NEW v \in Nat, v <= n,
           \A q, r \in W : q.version = r.version => q = r,
           \A r \in W : r.version <= n,
           \A k \in (v + 1)..n : \E r \in W : r.version = k
    PROVE  Cardinality({q \in W : q.version > v}) = n - v
<1> DEFINE S == {q \in W : q.version > v}
           T == (v + 1)..n
           f == [q \in S |-> q.version]
<1>1. \A q \in S : q.version \in Nat /\ q.version \in T
  BY DEF VersionRow
<1>2. f \in Injection(S, T)
  BY <1>1 DEF Injection, IsInjective
<1>3. f \in Surjection(S, T)
  BY <1>1 DEF Surjection
<1>4. IsFiniteSet(T) /\ Cardinality(T) = IF v + 1 > n THEN 0 ELSE n - (v + 1) + 1
  BY FS_Interval
<1>5. Cardinality(T) = n - v
  BY <1>4
<1> HIDE DEF S, T, f
<1>6. Cardinality(S) = Cardinality(T)
  BY <1>2, <1>3, <1>4, FS_Injection
<1> QED BY <1>5, <1>6 DEF S

\* The rows W are those of a secret at version c: the newest ones, without a gap.
InWindow(v, c) == v \in 1..c /\ v > c - RetentionLimit
Window(W, c) == /\ {r.version : r \in W} = {v \in 1..c : v > c - RetentionLimit}
                /\ \A q, r \in W : q.version = r.version => q = r

\* Written out, row by row and version by version.
LEMMA WindowRows ==
    ASSUME NEW W, NEW c \in Nat
    PROVE  Window(W, c) <=> /\ \A r \in W : InWindow(r.version, c)
                            /\ \A v \in 1..c : v > c - RetentionLimit => \E r \in W : r.version = v
                            /\ \A q, r \in W : q.version = r.version => q = r
BY DEF Window, InWindow

\* A new version pushes out what the retention limit says and nothing else.
LEMMA WindowMoves ==
    ASSUME NEW W, W \subseteq VersionRow, NEW c \in Nat, Window(W, c),
           NEW x \in VersionRow, x.version = c + 1
    PROVE  Window((W \cup {x}) \ BeyondRetention(W \cup {x}), c + 1)
<1> DEFINE U == W \cup {x}
           n == c + 1
<1>0. RetentionLimit \in Nat \ {0} /\ n \in Nat
  BY LimitAssumption
<1>1. /\ \A r \in W : r.version \in Nat /\ r.version \in 1..c /\ r.version > c - RetentionLimit
      /\ \A v \in 1..c : v > c - RetentionLimit => \E r \in W : r.version = v
      /\ \A q, r \in W : q.version = r.version => q = r
  BY WindowRows DEF InWindow, VersionRow
<1>2. /\ U \subseteq VersionRow
      /\ \A q, r \in U : q.version = r.version => q = r
      /\ \A r \in U : r.version \in 1..n /\ r.version <= n /\ r.version > c - RetentionLimit
  BY <1>0, <1>1
<1>3. ASSUME NEW r \in U PROVE Cardinality({q \in U : q.version > r.version}) = n - r.version
  <2>1. \A k \in (r.version + 1)..n : \E q \in U : q.version = k
    <3> SUFFICES ASSUME NEW k \in (r.version + 1)..n PROVE \E q \in U : q.version = k
      OBVIOUS
    <3>1. CASE k = n
      BY <3>1
    <3>2. CASE k # n
      <4>1. k \in 1..c /\ k > c - RetentionLimit
        BY <1>0, <1>2, <3>2
      <4> QED BY <1>1, <4>1
    <3> QED BY <3>1, <3>2
  <2>2. r.version \in Nat /\ r.version <= n
    BY <1>2
  <2>3. PICK v \in Nat : v = r.version
    BY <2>2
  <2>4. /\ v <= n
        /\ \A k \in (v + 1)..n : \E q \in U : q.version = k
        /\ \A q \in U : q.version <= n
        /\ \A q, s \in U : q.version = s.version => q = s
    BY <1>2, <2>1, <2>2, <2>3
  <2> HIDE DEF U, n
  <2>5. Cardinality({q \in U : q.version > v}) = n - v
    BY <1>0, <1>2, <2>4, Newer
  <2> QED BY <2>3, <2>5
<1>4. \A r \in U : r \in BeyondRetention(U) <=> n - r.version >= RetentionLimit
  <2> HIDE DEF U, n
  <2> QED BY <1>3 DEF BeyondRetention
<1> DEFINE V == U \ BeyondRetention(U)
<1>5. \A r \in V : InWindow(r.version, n)
  BY <1>0, <1>2, <1>4 DEF InWindow
<1>6. ASSUME NEW v \in 1..n, v > n - RetentionLimit PROVE \E r \in V : r.version = v
  <2>1. PICK r \in U : r.version = v
    <3>1. CASE v = n
      BY <3>1
    <3>2. CASE v # n
      BY <1>0, <1>1, <1>6, <3>2
    <3> QED BY <3>1, <3>2
  <2>2. r \notin BeyondRetention(U)
    <3>1. ~(n - v >= RetentionLimit)
      BY <1>0, <1>6
    <3> HIDE DEF U, n
    <3> QED BY <1>4, <2>1, <3>1
  <2> QED BY <2>1, <2>2
<1>7. \A q, r \in V : q.version = r.version => q = r
  BY <1>2
<1> HIDE DEF V, n
<1>8. Window(V, n)
  BY <1>0, <1>5, <1>6, <1>7, WindowRows
<1> QED BY <1>8 DEF V, n

-----------------------------------------------------------------------------
(* Steps that leave the tables alone. *)

\* What holds of tables and locks holds as long as they are left alone.
LEMMA SameTables ==
    ASSUME UNCHANGED tables
    PROVE  /\ Tables => Tables'
           /\ \A e : InLedger(e) => InLedger(e)'
           /\ UNCHANGED locks => (Locks => Locks') /\ \A p, o, t : TxOk(p, o, t) => TxOk(p, o, t)'
<1>1. UNCHANGED <<versions, current, ledger>>
  BY DEF tables
<1>2. Tables => Tables'
  BY <1>1 DEF Tables, RetentionWindow, RowsOf
<1>3. \A e : InLedger(e) => InLedger(e)'
  BY <1>1 DEF InLedger
<1>4. UNCHANGED locks => (Locks => Locks') /\ \A p, o, t : TxOk(p, o, t) => TxOk(p, o, t)'
  <2> SUFFICES ASSUME UNCHANGED locks
               PROVE  (Locks => Locks') /\ \A p, o, t : TxOk(p, o, t) => TxOk(p, o, t)'
    OBVIOUS
  <2>1. UNCHANGED <<secret_lock, row_locks, chain_lock>>
    BY DEF locks
  <2>2. Locks => Locks'
    BY <2>1 DEF Locks
  <2>3. UNCHANGED OldRows
    BY <1>1 DEF OldRows
  <2>4. ASSUME NEW p, NEW o, NEW t, TxOk(p, o, t) PROVE TxOk(p, o, t)'
    BY <1>1, <1>3, <2>1, <2>3, <2>4 DEF TxOk
  <2> QED BY <2>2, <2>4
<1> QED BY <1>2, <1>3, <1>4

\* The answers stay good when no transaction reports a new success, and the tables
\* have only gone on.
LEMMA SameAcks ==
    ASSUME Ops, Acks, op' \in [Proc -> OpRow], acked' = acked,
           \A e : InLedger(e) => InLedger(e)',
           \A s \in Secret : current[s] <= current'[s],
           current \in [Secret -> Nat], current' \in [Secret -> Nat],
           \A q \in Proc : \A s, v : Wrote(q, s, v)' => Wrote(q, s, v)
    PROVE  Acks'
<1>1. VersionsDiffer'
  <2>1. \A a \in acked : a.type \in WriteTypes =>
           a.version <= current[a.secret] /\ a.version \in Nat /\ a.secret \in Secret
    BY DEF Acks, VersionsDiffer, WriteTypes, Entry
  <2>2. \A a \in acked : a.type \in WriteTypes => a.version <= current'[a.secret]
    BY <2>1
  <2> QED BY <2>2 DEF Acks, VersionsDiffer, WriteTypes
<1>2. \A a \in acked', q \in Proc : a.type \in WriteTypes => ~Wrote(q, a.secret, a.version)'
  BY DEF Acks
<1>3. \A x, q \in Proc, s \in Secret, v \in Nat : Wrote(x, s, v)' /\ Wrote(q, s, v)' => x = q
  BY DEF Acks
<1> QED BY <1>1, <1>2, <1>3 DEF Acks

\* The operation o of p goes to the stage t.
Turns(p, o, t) ==
    /\ op' = [op EXCEPT ![p] = o] /\ tx' = [tx EXCEPT ![p] = t]
    /\ OpOk(o) /\ t \in Stage
    /\ t = "ok" => /\ tx[p] = "ok" /\ o.kind = op[p].kind
                   /\ o.secret = op[p].secret /\ o.version = op[p].version

\* No success is new then.
LEMMA TurnsKept ==
    ASSUME Ops, NEW p \in Proc, NEW o, NEW t, Turns(p, o, t)
    PROVE  /\ op' \in [Proc -> OpRow] /\ tx' \in [Proc -> Stage]
           /\ op'[p] = o /\ tx'[p] = t
           /\ \A q \in Proc : q # p => op'[q] = op[q] /\ tx'[q] = tx[q]
           /\ \A q \in Proc : OpOk(op'[q])
           /\ \A q \in Proc : \A s, v : Wrote(q, s, v)' => Wrote(q, s, v)
<1>1. /\ op' \in [Proc -> OpRow] /\ tx' \in [Proc -> Stage]
      /\ op'[p] = o /\ tx'[p] = t
      /\ \A q \in Proc : q # p => op'[q] = op[q] /\ tx'[q] = tx[q]
  BY DEF Turns, Ops, OpOk
<1>2. \A q \in Proc : OpOk(op'[q])
  BY <1>1 DEF Ops, Turns
<1>3. ASSUME NEW q \in Proc, NEW s, NEW v, Wrote(q, s, v)' PROVE Wrote(q, s, v)
  <2>1. CASE q = p
    BY <1>1, <1>3, <2>1 DEF Wrote, Turns
  <2>2. CASE q # p
    BY <1>1, <1>3, <2>2 DEF Wrote
  <2> QED BY <2>1, <2>2
<1> QED BY <1>1, <1>2, <1>3

\* A step of an operation, or of a transaction that takes no lock.
LEMMA LocalStep ==
    ASSUME Core, NEW p \in Proc, NEW o, NEW t, Turns(p, o, t), TxOk(p, o, t),
           UNCHANGED <<tables, locks, acked>>
    PROVE  Core'
<1>0. Tables /\ Locks /\ Ops /\ Acks
  BY DEF Core
<1>1. /\ op' \in [Proc -> OpRow] /\ tx' \in [Proc -> Stage]
      /\ op'[p] = o /\ tx'[p] = t
      /\ \A q \in Proc : q # p => op'[q] = op[q] /\ tx'[q] = tx[q]
      /\ \A q \in Proc : OpOk(op'[q])
      /\ \A q \in Proc : \A s, v : Wrote(q, s, v)' => Wrote(q, s, v)
  BY <1>0, TurnsKept
<1>2. Tables' /\ Locks'
  BY <1>0, SameTables
<1>3. ASSUME NEW q \in Proc PROVE TxOk(q, op[q], tx[q])'
  <2>1. PICK x, y : x = op'[q] /\ y = tx'[q]
    OBVIOUS
  <2>2. TxOk(q, x, y)
    BY <1>0, <1>1, <2>1 DEF Ops
  <2>3. TxOk(q, x, y)'
    BY <2>2, SameTables
  <2> QED BY <2>1, <2>3 DEF TxOk
<1>4. Ops'
  BY <1>1, <1>3 DEF Ops, OpOk
<1>5. Acks'
  <2>1. current' = current /\ current \in [Secret -> Nat]
    BY <1>0 DEF tables, Tables
  <2>2. \A s \in Secret : current[s] <= current'[s]
    BY <2>1
  <2> QED BY <1>0, <1>1, <2>1, <2>2, SameTables, SameAcks
<1> QED BY <1>2, <1>4, <1>5 DEF Core

\* A transaction takes locks or releases its own; those of the others stay.
OthersLocksStay(p) ==
    \A q \in Proc \ {p} : /\ row_locks'[q] = row_locks[q]
                          /\ chain_lock = q => chain_lock' = q
                          /\ \A s \in Secret : secret_lock[s] = q => secret_lock'[s] = q

\* Then the others keep what they have established.
LEMMA OthersStay ==
    ASSUME Core, NEW p \in Proc, OthersLocksStay(p), UNCHANGED tables, NEW q \in Proc \ {p},
           NEW x, NEW y, x = op[q], y = tx[q]
    PROVE  TxOk(q, x, y)'
<1>1. TxOk(q, x, y) /\ OpOk(x)
  BY DEF Core, Ops
<1>2. UNCHANGED <<versions, current, ledger>> /\ UNCHANGED OldRows
  BY DEF tables, OldRows
<1>3. x.kind \in Writing => x.secret \in Secret
  BY <1>1 DEF OpOk
<1>4. \A e : InLedger(e) => InLedger(e)'
  BY SameTables
<1>5. /\ row_locks'[q] = row_locks[q]
      /\ chain_lock = q => chain_lock' = q
      /\ x.kind \in Writing /\ secret_lock[x.secret] = q => secret_lock'[x.secret] = q
  BY <1>3 DEF OthersLocksStay
<1> QED BY <1>1, <1>2, <1>4, <1>5 DEF TxOk

\* A step of a transaction that does not commit.
LEMMA LockStep ==
    ASSUME Core, NEW p \in Proc, NEW o, o = op[p], NEW t \in Stage, t # "ok",
           tx' = [tx EXCEPT ![p] = t], UNCHANGED <<tables, op, acked>>,
           Locks', OthersLocksStay(p), TxOk(p, o, t)'
    PROVE  Core'
<1>0. Tables /\ Locks /\ Ops /\ Acks /\ op \in [Proc -> OpRow] /\ tx \in [Proc -> Stage]
  BY DEF Core, Ops
<1>1. Turns(p, o, t)
  <2>1. op' = [op EXCEPT ![p] = o]
    BY <1>0
  <2> QED BY <1>0, <2>1 DEF Turns, Ops
<1>2. /\ op' \in [Proc -> OpRow] /\ tx' \in [Proc -> Stage]
      /\ op'[p] = o /\ tx'[p] = t
      /\ \A q \in Proc : q # p => op'[q] = op[q] /\ tx'[q] = tx[q]
      /\ \A q \in Proc : OpOk(op'[q])
      /\ \A q \in Proc : \A s, v : Wrote(q, s, v)' => Wrote(q, s, v)
  BY <1>0, <1>1, TurnsKept
<1>3. ASSUME NEW q \in Proc PROVE TxOk(q, op[q], tx[q])'
  <2>1. PICK x, y : x = op'[q] /\ y = tx'[q]
    OBVIOUS
  <2>2. TxOk(q, x, y)'
    <3>1. CASE q = p
      BY <1>2, <2>1, <3>1
    <3>2. CASE q # p
      BY <1>2, <2>1, <3>2, OthersStay
    <3> QED BY <3>1, <3>2
  <2> QED BY <2>1, <2>2 DEF TxOk
<1>4. Ops'
  BY <1>2, <1>3 DEF Ops
<1>5. Tables'
  BY <1>0, SameTables
<1>6. Acks'
  <2>1. current' = current /\ current \in [Secret -> Nat]
    BY <1>0 DEF tables, Tables
  <2>2. \A s \in Secret : current[s] <= current'[s]
    BY <2>1
  <2> QED BY <1>0, <1>2, <2>1, <2>2, SameTables, SameAcks
<1> QED BY <1>4, <1>5, <1>6 DEF Core

\* Giving its locks back, a transaction leaves those of the others.
LEMMA Released == ASSUME Locks, NEW p \in Proc, Release(p) PROVE Locks' /\ OthersLocksStay(p)
BY DEF Locks, Release, OthersLocksStay

\* A transaction ends without effect.
LEMMA AbortStep ==
    ASSUME Core, NEW p \in Proc, tx[p] # "idle", Abort(p), UNCHANGED <<op, acked>>
    PROVE  Core'
<1>1. PICK o : o = op[p]
  OBVIOUS
<1>2. TxOk(p, o, tx[p]) /\ Locks
  BY <1>1 DEF Core, Ops
<1>3. TxOk(p, o, "failed")'
  <2>1. o.pc \in {"wait", "gone"} /\ o.head <= Len(ledger')
    BY <1>2 DEF TxOk, Abort, tables
  <2> QED BY <2>1 DEF TxOk
<1>4. /\ tx' = [tx EXCEPT ![p] = "failed"] /\ "failed" \in Stage /\ UNCHANGED tables
      /\ Release(p)
  BY DEF Abort, Stage
<1>5. Locks' /\ OthersLocksStay(p)
  BY <1>2, <1>4, Released
<1> QED BY <1>1, <1>3, <1>4, <1>5, LockStep

-----------------------------------------------------------------------------
(* What an operation reads before its RPC. *)

\* Nothing is sent yet.
LEMMA ReadStep ==
    ASSUME Core, NEW p \in Proc, op[p].pc \notin {"wait", "gone"}, NEW o, OpOk(o),
           op' = [op EXCEPT ![p] = o], UNCHANGED <<tables, tx, locks, acked>>
    PROVE  Core'
<1>1. tx[p] = "idle" /\ tx \in [Proc -> Stage]
  BY DEF Core, Ops, TxOk
<1>2. Turns(p, o, "idle")
  <2>1. tx' = [tx EXCEPT ![p] = "idle"]
    BY <1>1
  <2> QED BY <2>1 DEF Turns, Stage
<1>3. TxOk(p, o, "idle")
  BY DEF TxOk
<1> QED BY <1>2, <1>3, LocalStep

\* Every operation that starts is well formed.
LEMMA StartStep ==
    ASSUME Core, Rest, NEW p \in Proc, NEW o, OpOk(o), Start(p, o)
    PROVE  Core' /\ Rest'
<1>1. workload \in [kinds : SUBSET Kinds, ops : Nat] /\ started \in 0..workload.ops
  BY WorkloadAssumption DEF Rest
<1>2. PICK n : n = started + 1
  OBVIOUS
<1>3. n \in Nat /\ started' = n /\ started' \in 0..workload.ops
  BY <1>1, <1>2 DEF Start
<1>4. UNCHANGED <<tables, tx, locks, acked, active_key, workload>> /\ op[p].pc = "idle"
      /\ op' = [op EXCEPT ![p] = [o EXCEPT !.request = n]]
  BY <1>2 DEF Start
<1>5. PICK x : x = [o EXCEPT !.request = n]
  OBVIOUS
<1>6. /\ x \in OpRow /\ x.rows = o.rows /\ x.kind = o.kind /\ x.secret = o.secret
      /\ x.remaining = o.remaining /\ x.pc = o.pc
  BY <1>3, <1>5 DEF OpOk, OpRow
<1>7. OpOk(x)
  BY <1>6 DEF OpOk
<1>8. Core'
  BY <1>4, <1>5, <1>7, ReadStep
<1>9. Rest'
  BY <1>3, <1>4 DEF Rest
<1> QED BY <1>8, <1>9

\* The operations that the server and the command line start.
LEMMA BeginStep == ASSUME Core, Rest, NEW p \in Proc, Begin(p) PROVE Core' /\ Rest'
<1>0. /\ Tables /\ active_key \in {Old, New} /\ Idle \in OpRow /\ Idle.rows = {}
      /\ IsFiniteSet({}) /\ OldRows \subseteq VersionRow /\ IsFiniteSet(OldRows)
      /\ Idle.remaining = 0
  <2>1. Tables /\ active_key \in {Old, New} /\ OldRows \subseteq versions
    BY DEF Core, Rest, OldRows
  <2>2. IsFiniteSet(OldRows) /\ OldRows \subseteq VersionRow
    BY <2>1, FS_Subset DEF Tables
  <2> QED BY <2>1, <2>2, IdleOk, FS_EmptySet DEF OpOk, Idle
<1>1. CASE BeginCreate(p)
  <2>1. PICK s \in Secret :
           Start(p, [Idle EXCEPT !.pc = "sign", !.kind = "create", !.secret = s, !.version = 1,
                                 !.key_version = active_key])
    BY <1>1 DEF BeginCreate
  <2>2. PICK o : o = [Idle EXCEPT !.pc = "sign", !.kind = "create", !.secret = s, !.version = 1,
                                  !.key_version = active_key]
    OBVIOUS
  <2>3. o \in OpRow /\ o.rows = {} /\ o.kind = "create" /\ o.secret = s /\ o.pc = "sign"
    BY <1>0, <2>2 DEF OpRow, Kinds
  <2>4. OpOk(o)
    BY <1>0, <2>3 DEF OpOk
  <2> QED BY <2>1, <2>2, <2>4, StartStep
<1>2. CASE BeginRotate(p)
  <2>1. PICK s \in Secret :
           Start(p, [Idle EXCEPT !.pc = "snapshot", !.kind = "rotate", !.secret = s,
                                 !.version = current[s] + 1, !.key_version = active_key])
    BY <1>2 DEF BeginRotate
  <2>2. PICK v \in Nat : v = current[s] + 1
    BY <1>0 DEF Tables
  <2>3. PICK o : o = [Idle EXCEPT !.pc = "snapshot", !.kind = "rotate", !.secret = s,
                                  !.version = v, !.key_version = active_key]
    OBVIOUS
  <2>4. o \in OpRow /\ o.rows = {} /\ o.kind = "rotate" /\ o.secret = s /\ o.pc = "snapshot"
    BY <1>0, <2>2, <2>3 DEF OpRow, Kinds
  <2>5. OpOk(o)
    BY <1>0, <2>4 DEF OpOk
  <2> QED BY <2>1, <2>2, <2>3, <2>5, StartStep
<1>3. CASE BeginDecrypt(p)
  <2>1. PICK r \in versions :
           Start(p, [Idle EXCEPT !.pc = "sign", !.kind = "decrypt", !.secret = r.secret,
                                 !.version = r.version, !.key_version = r.key_version])
    BY <1>3 DEF BeginDecrypt
  <2>2. r.secret \in Secret /\ r.version \in Nat /\ r.key_version \in {Old, New}
    BY <1>0 DEF Tables, VersionRow
  <2>3. PICK o : o = [Idle EXCEPT !.pc = "sign", !.kind = "decrypt", !.secret = r.secret,
                                  !.version = r.version, !.key_version = r.key_version]
    OBVIOUS
  <2>4. o \in OpRow /\ o.rows = {} /\ o.kind = "decrypt" /\ o.secret = r.secret /\ o.pc = "sign"
    BY <1>0, <2>2, <2>3 DEF OpRow, Kinds
  <2>5. OpOk(o)
    BY <1>0, <2>2, <2>4 DEF OpOk
  <2> QED BY <2>1, <2>3, <2>5, StartStep
<1>4. ASSUME NEW kind \in {"start", "complete"},
             Start(p, [Idle EXCEPT !.pc = "sign", !.kind = kind, !.key_version = New])
      PROVE  Core' /\ Rest'
  <2>1. PICK o : o = [Idle EXCEPT !.pc = "sign", !.kind = kind, !.key_version = New]
    OBVIOUS
  <2>2. o \in OpRow /\ o.rows = {} /\ o.kind = kind /\ o.remaining = 0 /\ o.pc = "sign"
    BY <1>0, <2>1 DEF OpRow, Kinds
  <2>3. OpOk(o)
    BY <1>0, <2>2 DEF OpOk, Writing
  <2> QED BY <1>4, <2>1, <2>3, StartStep
<1>5. CASE BeginRewrap(p)
  <2>1. PICK rows : rows = {r \in OldRows : Cardinality({q \in OldRows : Before(q, r)}) < BatchLimit}
    OBVIOUS
  <2>2. rows \subseteq OldRows /\ rows \subseteq VersionRow /\ IsFiniteSet(rows)
    <3>1. rows \subseteq OldRows
      BY <2>1
    <3> QED BY <1>0, <3>1, FS_Subset
  <2>3. PICK o : o = [Idle EXCEPT !.pc = "status", !.kind = "rewrap", !.key_version = New,
                                  !.rows = rows]
    OBVIOUS
  <2>4. Start(p, o)
    BY <1>5, <2>1, <2>3 DEF BeginRewrap
  <2>5. o \in OpRow /\ o.rows = rows /\ o.kind = "rewrap" /\ o.pc = "status"
    BY <1>0, <2>2, <2>3 DEF OpRow, Kinds
  <2>6. OpOk(o)
    BY <2>2, <2>5 DEF OpOk, Writing
  <2> QED BY <2>4, <2>6, StartStep
<1> QED BY <1>1, <1>2, <1>3, <1>4, <1>5 DEF Begin, BeginRotationStart, BeginComplete

\* The other reads, and their failure.
LEMMA ProceedStep ==
    ASSUME Core, NEW p \in Proc, Proceed(p) \/ ReadFails(p) \/ GiveUp(p) PROVE Core'
<1>0. /\ Tables /\ Ops /\ op \in [Proc -> OpRow] /\ tx \in [Proc -> Stage]
      /\ OpOk(op[p]) /\ op[p] \in OpRow /\ TxOk(p, op[p], tx[p])
  BY DEF Core, Ops
<1>1. CASE ReadRetentionSnapshot(p)
  <2>1. PICK rows : rows = RowsOf(op[p].secret)
    OBVIOUS
  <2>2. rows \subseteq versions
    BY <2>1 DEF RowsOf
  <2>3. rows \subseteq VersionRow /\ IsFiniteSet(rows)
    BY <1>0, <2>2, FS_Subset DEF Tables
  <2>4. PICK o : o = [op[p] EXCEPT !.pc = "sign", !.rows = rows]
    OBVIOUS
  <2>5. op' = [op EXCEPT ![p] = o] /\ op[p].pc = "snapshot" /\ UNCHANGED <<tables, tx, locks, acked>>
    BY <1>0, <1>1, <2>1, <2>4 DEF ReadRetentionSnapshot
  <2>6. CASE op[p].kind # "complete"
    <3>1. /\ o \in OpRow /\ o.rows = rows /\ o.kind = op[p].kind /\ o.secret = op[p].secret
          /\ o.pc = "sign"
      BY <1>0, <2>3, <2>4 DEF OpRow
    <3>2. OpOk(o)
      BY <1>0, <2>3, <2>6, <3>1 DEF OpOk
    <3> QED BY <2>5, <3>2, ReadStep
  <2>7. op[p].kind # "complete"
    BY <1>0, <2>5 DEF OpOk
  <2> QED BY <2>6, <2>7
<1>2. CASE ReadRotationStatus(p)
  <2>1. PICK n : n = Cardinality(OldRows) - Cardinality(op[p].rows)
    OBVIOUS
  <2>2. n \in Int
    <3>1. IsFiniteSet(OldRows) /\ IsFiniteSet(op[p].rows)
      BY <1>0, FS_Subset DEF OldRows, Tables, OpOk
    <3> QED BY <2>1, <3>1, FS_CardinalityType
  <2>3. PICK o : o = IF n < 0 THEN Idle ELSE [op[p] EXCEPT !.pc = "sign", !.remaining = n]
    OBVIOUS
  <2>4. op' = [op EXCEPT ![p] = o] /\ op[p].pc = "status" /\ UNCHANGED <<tables, tx, locks, acked>>
    BY <1>2, <2>1, <2>3 DEF ReadRotationStatus
  <2>5. CASE n < 0
    BY <2>3, <2>4, <2>5, IdleOk, ReadStep
  <2>6. CASE n >= 0
    <3>1. n \in Nat /\ o = [op[p] EXCEPT !.pc = "sign", !.remaining = n]
      BY <2>2, <2>3, <2>6
    <3>2. /\ o \in OpRow /\ o.rows = op[p].rows /\ o.kind = op[p].kind /\ o.secret = op[p].secret
          /\ o.pc = "sign"
      BY <1>0, <3>1 DEF OpRow
    <3>3. op[p].kind # "complete"
      BY <1>0, <2>4 DEF OpOk
    <3>4. OpOk(o)
      BY <1>0, <3>2, <3>3 DEF OpOk
    <3> QED BY <2>4, <3>4, ReadStep
  <2> QED BY <2>2, <2>5, <2>6
<1>3. CASE SignAndSend(p)
  <2>1. PICK n \in Nat : n = Len(ledger)
    BY <1>0 DEF Tables
  <2>2. PICK o : o = [op[p] EXCEPT !.pc = "wait", !.head = n]
    OBVIOUS
  <2>3. /\ op' = [op EXCEPT ![p] = o] /\ tx' = [tx EXCEPT ![p] = "sent"]
        /\ UNCHANGED <<tables, locks, acked>>
    BY <1>0, <1>3, <2>1, <2>2 DEF SignAndSend
  <2>4. /\ o \in OpRow /\ o.rows = op[p].rows /\ o.kind = op[p].kind /\ o.secret = op[p].secret
        /\ o.remaining = op[p].remaining /\ o.pc = "wait" /\ o.head = n
    BY <1>0, <2>2 DEF OpRow
  <2>5. Turns(p, o, "sent")
    BY <1>0, <2>3, <2>4 DEF Turns, OpOk, Stage
  <2>6. TxOk(p, o, "sent")
    BY <2>1, <2>4 DEF TxOk
  <2> QED BY <2>3, <2>5, <2>6, LocalStep
<1>4. CASE ReadFails(p)
  BY <1>4, IdleOk, ReadStep DEF ReadFails
<1>5. CASE GiveUp(p)
  <2>1. PICK o : o = [op[p] EXCEPT !.pc = "gone"]
    OBVIOUS
  <2>2. /\ op' = [op EXCEPT ![p] = o] /\ tx' = [tx EXCEPT ![p] = tx[p]] /\ op[p].pc = "wait"
        /\ UNCHANGED <<tables, locks, acked>>
    BY <1>0, <1>5, <2>1 DEF GiveUp
  <2>3. /\ o \in OpRow /\ o.rows = op[p].rows /\ o.kind = op[p].kind /\ o.secret = op[p].secret
        /\ o.remaining = op[p].remaining /\ o.pc = "gone" /\ o.head = op[p].head
        /\ o.version = op[p].version /\ MainEntry(o) = MainEntry(op[p])
    BY <1>0, <2>1 DEF OpRow, MainEntry
  <2>4. Turns(p, o, tx[p])
    BY <1>0, <2>2, <2>3 DEF Turns, OpOk
  <2>5. TxOk(p, o, tx[p])
    BY <1>0, <2>3 DEF TxOk
  <2> QED BY <2>2, <2>4, <2>5, LocalStep
<1> QED BY <1>1, <1>2, <1>3, <1>4, <1>5 DEF Proceed

-----------------------------------------------------------------------------
(* The statements of a transaction before its last one. *)

\* A write takes the lock on its secret, and later the one on the chain.
LEMMA WriteLocks ==
    ASSUME Core, NEW p \in Proc, LockSecret(p) \/ AppendWriteEntry(p) PROVE Core'
<1>0. PICK o : o = op[p]
  OBVIOUS
<1>1. /\ Tables /\ Locks /\ OpOk(o) /\ TxOk(p, o, tx[p]) /\ o.kind \in Kinds /\ o.head \in Nat
  BY <1>0 DEF Core, Ops, OpOk, OpRow
<1>2. UNCHANGED <<op, acked>> /\ tx[p] # "idle"
  BY DEF LockSecret, AppendWriteEntry, TxFrame
<1>3. CASE LockSecret(p) /\ NextVersion(p)
  <2>1. /\ secret_lock[o.secret] = NoProc /\ o.kind \in Writing /\ tx[p] = "sent"
        /\ secret_lock' = [secret_lock EXCEPT ![o.secret] = p]
        /\ tx' = [tx EXCEPT ![p] = "inserted"] /\ "inserted" \in Stage
        /\ UNCHANGED <<tables, row_locks, chain_lock>>
        /\ o.version = current[o.secret] + 1
    BY <1>0, <1>3 DEF LockSecret, NextVersion, IsWrite, Writing, Stage
  <2>2. o.secret \in Secret
    BY <1>1, <2>1 DEF OpOk
  <2>3. Locks' /\ OthersLocksStay(p)
    BY <1>1, <2>1, <2>2, ProcAssumption DEF Locks, OthersLocksStay
  <2>4. o.pc \in {"wait", "gone"} /\ o.head <= Len(ledger')
    BY <1>1, <2>1 DEF TxOk, tables
  <2>5. secret_lock'[o.secret] = p /\ o.version = current'[o.secret] + 1
    BY <1>1, <2>1, <2>2 DEF Locks, tables
  <2>6. TxOk(p, o, "inserted")'
    BY <2>1, <2>4, <2>5 DEF TxOk
  <2> QED BY <1>0, <1>2, <2>1, <2>3, <2>6, LockStep
<1>4. CASE AppendWriteEntry(p) /\ FitsHead(p)
  <2>1. /\ chain_lock = NoProc /\ tx[p] = "inserted" /\ chain_lock' = p
        /\ tx' = [tx EXCEPT ![p] = "appended"] /\ "appended" \in Stage
        /\ UNCHANGED <<tables, secret_lock, row_locks>>
        /\ o.head = Len(ledger)
    BY <1>0, <1>4 DEF AppendWriteEntry, FitsHead, Stage
  <2>2. Locks' /\ OthersLocksStay(p)
    BY <1>1, <2>1, ProcAssumption DEF Locks, OthersLocksStay
  <2>3. /\ o.pc \in {"wait", "gone"} /\ o.head = Len(ledger') /\ o.head <= Len(ledger')
        /\ o.kind \in Writing /\ secret_lock'[o.secret] = p /\ o.version = current'[o.secret] + 1
    BY <1>1, <2>1 DEF TxOk, tables
  <2>4. TxOk(p, o, "appended")'
    BY <2>1, <2>3 DEF TxOk
  <2> QED BY <1>0, <1>2, <2>1, <2>2, <2>4, LockStep
<1> QED BY <1>2, <1>3, <1>4, AbortStep DEF LockSecret, AppendWriteEntry

\* A rewrap takes the locks on its rows, and rotations count.
LEMMA RotationLocks ==
    ASSUME Core, NEW p \in Proc, UpdateRows(p) \/ CountRemaining(p) \/ CountForCompletion(p)
    PROVE  Core'
<1>0. PICK o : o = op[p]
  OBVIOUS
<1>1. /\ Tables /\ Locks /\ Ops /\ OpOk(o) /\ TxOk(p, o, tx[p]) /\ o.rows \subseteq VersionRow
      /\ op \in [Proc -> OpRow]
  BY <1>0 DEF Core, Ops, OpOk, OpRow
<1>2. UNCHANGED <<op, acked>> /\ tx[p] # "idle"
  BY DEF UpdateRows, CountRemaining, CountForCompletion, TxFrame
<1>3. CASE UpdateRows(p) /\ o.rows \subseteq OldRows
  <2>1. /\ tx[p] = "sent" /\ o.kind = "rewrap"
        /\ \A q \in Proc \ {p} : row_locks[q] \cap o.rows = {}
        /\ row_locks' = [row_locks EXCEPT ![p] = o.rows]
        /\ tx' = [tx EXCEPT ![p] = "updated"] /\ "updated" \in Stage
        /\ UNCHANGED <<tables, secret_lock, chain_lock>>
    BY <1>0, <1>3 DEF UpdateRows, Stage
  <2>2. Locks' /\ OthersLocksStay(p)
    BY <1>1, <2>1 DEF Locks, OthersLocksStay
  <2>3. o.pc \in {"wait", "gone"} /\ o.head <= Len(ledger') /\ row_locks'[p] = o.rows
    BY <1>1, <2>1 DEF TxOk, tables, Locks
  <2>4. o.rows \subseteq OldRows'
    BY <1>3, <2>1 DEF OldRows, tables
  <2>5. TxOk(p, o, "updated")'
    BY <2>1, <2>3, <2>4 DEF TxOk
  <2> QED BY <1>0, <1>2, <2>1, <2>2, <2>5, LockStep
<1>4. ASSUME tx' = [tx EXCEPT ![p] = "counted"], UNCHANGED <<tables, locks>>,
             o.kind \in {"rewrap", "complete"}, TxOk(p, o, "counted")
      PROVE  Core'
  <2>1. op' = [op EXCEPT ![p] = o]
    BY <1>0, <1>1, <1>2
  <2>2. Turns(p, o, "counted")
    BY <1>1, <1>4, <2>1 DEF Turns, Stage
  <2> QED BY <1>2, <1>4, <2>2, LocalStep
<1>5. CASE CountRemaining(p) /\ Cardinality(OldRows \ o.rows) = o.remaining
  <2>1. /\ tx[p] = "updated" /\ tx' = [tx EXCEPT ![p] = "counted"] /\ UNCHANGED <<tables, locks>>
    BY <1>0, <1>5 DEF CountRemaining
  <2>2. o.kind = "rewrap" /\ TxOk(p, o, "counted")
    BY <1>1, <1>5, <2>1 DEF TxOk
  <2> QED BY <1>4, <2>1, <2>2
<1>6. CASE CountForCompletion(p) /\ OldRows = {}
  <2>1. /\ tx[p] = "sent" /\ tx' = [tx EXCEPT ![p] = "counted"] /\ UNCHANGED <<tables, locks>>
        /\ o.kind = "complete"
    BY <1>0, <1>6 DEF CountForCompletion
  <2>2. o.rows = {} /\ o.remaining = 0 /\ Cardinality(OldRows \ o.rows) = 0
    <3>1. o.rows = {} /\ o.remaining = 0 /\ OldRows \ o.rows = {}
      BY <1>1, <1>6, <2>1 DEF OpOk
    <3> QED BY <3>1, FS_EmptySet
  <2>3. TxOk(p, o, "counted")
    BY <1>1, <2>1, <2>2 DEF TxOk
  <2> QED BY <1>4, <2>1, <2>3
<1> QED BY <1>0, <1>2, <1>3, <1>5, <1>6, AbortStep DEF UpdateRows, CountRemaining, CountForCompletion

-----------------------------------------------------------------------------
(* The answer. *)

\* Success is reported of what the transaction has committed.
LEMMA AnswerStep == ASSUME Core, NEW p \in Proc, ReceiveAnswer(p) \/ DropAnswer(p) PROVE Core'
<1>0. PICK o : o = op[p]
  OBVIOUS
<1>1. /\ Tables /\ Locks /\ Ops /\ Acks /\ OpOk(o) /\ TxOk(p, o, tx[p])
      /\ op \in [Proc -> OpRow] /\ tx \in [Proc -> Stage] /\ o \in OpRow
  BY <1>0 DEF Core, Ops, OpOk
<1>2. /\ op' = [op EXCEPT ![p] = Idle] /\ tx' = [tx EXCEPT ![p] = "idle"]
      /\ UNCHANGED <<tables, locks>>
  BY DEF ReceiveAnswer, DropAnswer, Finish
<1>3. Turns(p, Idle, "idle") /\ TxOk(p, Idle, "idle")
  BY <1>2, IdleOk DEF Turns, Stage, TxOk
<1>4. CASE acked' = acked
  BY <1>2, <1>3, <1>4, LocalStep
<1>5. CASE tx[p] = "ok" /\ acked' = acked \cup {MainEntry(o)}
  <2>1. /\ op' \in [Proc -> OpRow] /\ tx' \in [Proc -> Stage]
        /\ op'[p] = Idle /\ tx'[p] = "idle"
        /\ \A q \in Proc : q # p => op'[q] = op[q] /\ tx'[q] = tx[q]
        /\ \A q \in Proc : OpOk(op'[q])
        /\ \A q \in Proc : \A s, v : Wrote(q, s, v)' => Wrote(q, s, v) /\ q # p
    <3>1. \A s, v : ~Wrote(p, s, v)'
      BY <1>1, <1>2 DEF Wrote
    <3> QED BY <1>1, <1>3, <3>1, TurnsKept
  <2>2. Tables' /\ Locks' /\ \A e : InLedger(e) => InLedger(e)'
    BY <1>1, <1>2, SameTables
  <2>3. ASSUME NEW q \in Proc PROVE TxOk(q, op[q], tx[q])'
    <3>1. PICK x, y : x = op'[q] /\ y = tx'[q]
      OBVIOUS
    <3>2. TxOk(q, x, y)
      BY <1>1, <1>3, <2>1, <3>1 DEF Ops
    <3>3. TxOk(q, x, y)'
      BY <1>2, <3>2, SameTables
    <3> QED BY <3>1, <3>3 DEF TxOk
  <2>4. Ops'
    BY <2>1, <2>3 DEF Ops
  <2>5. PICK a : a = MainEntry(o)
    OBVIOUS
  <2>6. /\ a \in Entry /\ InLedger(a)' /\ a.secret = o.secret /\ a.version = o.version
        /\ a.version \in Nat
        /\ a.type \in WriteTypes => /\ o.kind \in Writing /\ o.secret \in Secret
                                    /\ a.version <= current[a.secret]
                                    /\ Wrote(p, a.secret, a.version)
    <3>1. a \in Entry /\ a.secret = o.secret /\ a.version = o.version /\ (a.type \in WriteTypes <=> o.kind \in Writing)
      BY <1>1, <2>5, MainEntryType
    <3>2. InLedger(a) /\ (o.kind \in Writing => o.version <= current[o.secret])
      BY <1>1, <1>5, <2>5 DEF TxOk
    <3>3. InLedger(a)'
      BY <2>2, <3>2
    <3>4. o.kind \in Writing => o.secret \in Secret /\ Wrote(p, o.secret, o.version)
      BY <1>0, <1>1, <1>5 DEF OpOk, Wrote
    <3>5. a.version \in Nat
      BY <3>1 DEF Entry
    <3> QED BY <3>1, <3>2, <3>3, <3>4, <3>5
  <2>7. current' = current
    BY <1>2 DEF tables
  <2>8. Acks'
    <3>1. acked' = acked \cup {a}
      BY <1>5, <2>5
    <3>2. acked' \subseteq Entry
      BY <1>1, <2>6, <3>1 DEF Acks
    <3>3. \A b \in acked' : InLedger(b)' /\ (b.type \in WriteTypes => b.secret \in Secret)
      BY <1>1, <2>2, <2>6, <3>1 DEF Acks
    <3>4. \A b \in acked : b.type \in WriteTypes /\ a.type \in WriteTypes =>
             b.secret # a.secret \/ b.version # a.version
      BY <1>1, <2>6 DEF Acks
    <3>5. VersionsDiffer'
      <4>1. \A b, c \in acked : /\ b.type \in WriteTypes /\ c.type \in WriteTypes
                                /\ b.secret = c.secret /\ b.version = c.version
                                => b = c
        BY <1>1 DEF Acks, VersionsDiffer, WriteTypes
      <4>2. \A b \in acked : b.type \in WriteTypes => b.version <= current[b.secret]
        BY <1>1 DEF Acks, VersionsDiffer, WriteTypes
      <4>3. \A b, c \in acked' : /\ b.type \in WriteTypes /\ c.type \in WriteTypes
                                 /\ b.secret = c.secret /\ b.version = c.version
                                 => b = c
        BY <3>1, <3>4, <4>1
      <4>4. \A b \in acked' : b.type \in WriteTypes => b.version <= current'[b.secret]
        BY <2>6, <2>7, <3>1, <4>2
      <4> QED BY <4>3, <4>4 DEF VersionsDiffer, WriteTypes
    <3>6. ASSUME NEW b \in acked', NEW q \in Proc, b.type \in WriteTypes, Wrote(q, b.secret, b.version)'
          PROVE  FALSE
      <4>1. PICK s, v : s = b.secret /\ v = b.version
        OBVIOUS
      <4>2. Wrote(q, s, v) /\ q # p
        BY <2>1, <3>6, <4>1 DEF Wrote
      <4>3. b = a
        BY <1>1, <3>1, <3>6, <4>1, <4>2 DEF Acks
      <4>4. s \in Secret /\ v \in Nat /\ Wrote(p, s, v)
        BY <2>6, <3>6, <4>1, <4>3
      <4> QED BY <1>1, <4>2, <4>4 DEF Acks
    <3>7. \A q, r \in Proc, s \in Secret, v \in Nat : Wrote(q, s, v)' /\ Wrote(r, s, v)' => q = r
      BY <1>1, <2>1 DEF Acks
    <3> QED BY <3>2, <3>3, <3>5, <3>6, <3>7 DEF Acks
  <2> QED BY <2>2, <2>4, <2>8 DEF Core
<1> QED BY <1>0, <1>4, <1>5 DEF ReceiveAnswer, DropAnswer, Answered

-----------------------------------------------------------------------------
(* Commits. *)

\* A transaction commits: it holds the chain or takes it now, changes the current
\* version only under the lock on the secret, and leaves rows alone that others lock.
LEMMA CommitStep ==
    ASSUME Core, NEW p \in Proc, NEW o, o = op[p], tx[p] \notin {"idle", "ok"},
           NEW es \in Seq(Entry), Len(es) >= 1, es[1] = MainEntry(o),
           Commit(p, es), UNCHANGED <<op, acked>>, Tables',
           chain_lock \in {NoProc, p},
           \A s \in Secret : current[s] <= current'[s],
           \A s \in Secret : current'[s] # current[s] => secret_lock[s] = p,
           o.kind \in Writing => current[o.secret] < o.version /\ o.version <= current'[o.secret],
           \A q \in Proc \ {p} : row_locks[q] \cap OldRows \subseteq OldRows'
    PROVE  Core'
<1>0. /\ Tables /\ Locks /\ Ops /\ Acks /\ op \in [Proc -> OpRow] /\ tx \in [Proc -> Stage]
      /\ OpOk(o) /\ o \in OpRow /\ TxOk(p, o, tx[p])
  BY DEF Core, Ops, OpOk
<1>1. ledger' = ledger \o es /\ tx' = [tx EXCEPT ![p] = "ok"] /\ Release(p)
  BY DEF Commit
<1>2. /\ Len(ledger) \in Nat /\ Len(ledger') \in Nat /\ Len(ledger) < Len(ledger')
      /\ \A e : InLedger(e) => InLedger(e)'
      /\ InLedger(es[1])'
  <2>1. /\ Len(ledger') = Len(ledger) + Len(es) /\ Len(ledger) \in Nat /\ Len(es) \in Nat
        /\ \A e : InLedger(e) => InLedger(e)'
        /\ \A k \in 1..Len(es) : InLedger(es[k])'
    BY <1>0, <1>1, Appended DEF Tables
  <2>2. 1 \in 1..Len(es)
    BY <2>1
  <2> QED BY <2>1, <2>2
<1>3. Locks' /\ OthersLocksStay(p)
  BY <1>0, <1>1, Released
<1>4. /\ op' \in [Proc -> OpRow] /\ tx' \in [Proc -> Stage] /\ tx'[p] = "ok" /\ op' = op
      /\ \A q \in Proc : q # p => tx'[q] = tx[q]
      /\ \A q \in Proc : OpOk(op'[q])
  BY <1>0, <1>1 DEF Ops, Stage
<1>5. ASSUME NEW q \in Proc PROVE TxOk(q, op[q], tx[q])'
  <2>1. PICK x, y : x = op'[q] /\ y = tx'[q]
    OBVIOUS
  <2>2. x.head \in Nat
    BY <1>4, <2>1 DEF OpRow
  <2>3. CASE q = p
    <3>1. x = o /\ y = "ok"
      BY <1>4, <2>1, <2>3
    <3>2. o.pc \in {"wait", "gone"} /\ o.head <= Len(ledger')
      BY <1>0, <1>2, <2>2, <3>1 DEF TxOk
    <3>3. PICK e : e = MainEntry(o)
      OBVIOUS
    <3>4. InLedger(e)'
      BY <1>2, <3>3 DEF InLedger
    <3>5. InLedger(MainEntry(x))'
      BY <3>1, <3>3, <3>4 DEF InLedger
    <3>6. TxOk(q, x, y)'
      BY <3>1, <3>2, <3>5 DEF TxOk
    <3> QED BY <2>1, <3>6 DEF TxOk
  <2>4. CASE q # p
    <3>1. TxOk(q, x, y) /\ OpOk(x)
      BY <1>0, <1>4, <2>1, <2>4 DEF Ops
    <3>2. x.head <= Len(ledger) => x.head <= Len(ledger') /\ x.head # Len(ledger')
      BY <1>2, <2>2
    <3>3. y # "appended"
      BY <2>4, <3>1, ProcAssumption DEF TxOk
    <3>4. x.kind \in Writing => x.secret \in Secret
      BY <3>1 DEF OpOk
    <3>5. row_locks'[q] = row_locks[q]
      BY <1>3, <2>4 DEF OthersLocksStay
    <3>6. x.kind \in Writing /\ secret_lock[x.secret] = q =>
             secret_lock'[x.secret] = q /\ current'[x.secret] = current[x.secret]
      BY <1>3, <2>4, <3>4 DEF OthersLocksStay
    <3>7. row_locks[q] = x.rows /\ x.rows \subseteq OldRows => x.rows \subseteq OldRows'
      BY <2>4
    <3>8. x.kind \in Writing /\ x.version <= current[x.secret] => x.version <= current'[x.secret]
      BY <1>0, <1>4, <2>1, <3>4 DEF Tables, OpRow
    <3>9. InLedger(MainEntry(x)) => InLedger(MainEntry(x))'
      <4>1. PICK e : e = MainEntry(x)
        OBVIOUS
      <4>2. InLedger(e) => InLedger(e)'
        BY <1>2
      <4> QED BY <4>1, <4>2 DEF InLedger
    <3>10. TxOk(q, x, y)'
      BY <3>1, <3>2, <3>3, <3>5, <3>6, <3>7, <3>8, <3>9 DEF TxOk
    <3> QED BY <2>1, <3>10 DEF TxOk
  <2> QED BY <2>3, <2>4
<1>6. Ops'
  BY <1>4, <1>5 DEF Ops
<1>7. Acks'
  <2>1. \A q \in Proc : \A s, v : Wrote(q, s, v)' =>
           \/ q # p /\ Wrote(q, s, v)
           \/ q = p /\ o.kind \in Writing /\ s = o.secret /\ v = o.version
    BY <1>4 DEF Wrote
  <2>2. o.kind \in Writing => o.secret \in Secret
    BY <1>0 DEF OpOk
  <2>3. ASSUME NEW q \in Proc, NEW s, NEW v, Wrote(q, s, v)
        PROVE  s \in Secret /\ v \in Nat /\ v <= current[s]
    <3>1. /\ tx[q] = "ok" /\ op[q].kind \in Writing /\ op[q].secret = s /\ op[q].version = v
          /\ OpOk(op[q]) /\ TxOk(q, op[q], tx[q]) /\ op[q] \in OpRow
      BY <1>0, <2>3 DEF Wrote, Ops
    <3>2. s \in Secret /\ v <= current[s]
      BY <3>1 DEF OpOk, TxOk
    <3>3. v \in Nat
      BY <3>1 DEF OpRow
    <3> QED BY <3>2, <3>3
  <2>4. \A a \in acked : a.type \in WriteTypes =>
           a.secret \in Secret /\ a.version \in Nat /\ a.version <= current[a.secret]
    BY <1>0 DEF Acks, VersionsDiffer, WriteTypes, Entry
  <2>5. o.kind \in Writing => current[o.secret] \in Nat /\ o.version \in Nat /\ ~(o.version <= current[o.secret])
    BY <1>0, <2>2 DEF Tables, OpRow
  <2>6. VersionsDiffer'
    <3>1. \A a, b \in acked : /\ a.type \in WriteTypes /\ b.type \in WriteTypes
                              /\ a.secret = b.secret /\ a.version = b.version
                              => a = b
      BY <1>0 DEF Acks, VersionsDiffer, WriteTypes
    <3>2. \A a \in acked : a.type \in WriteTypes => a.version <= current'[a.secret]
      BY <1>0, <2>4 DEF Tables
    <3> QED BY <3>1, <3>2 DEF VersionsDiffer, WriteTypes
  <2>7. ASSUME NEW a \in acked, NEW q \in Proc, a.type \in WriteTypes, Wrote(q, a.secret, a.version)'
        PROVE  FALSE
    <3>1. PICK s, v : s = a.secret /\ v = a.version
      OBVIOUS
    <3>2. Wrote(q, s, v)'
      BY <2>7, <3>1 DEF Wrote
    <3>3. q = p /\ o.kind \in Writing /\ s = o.secret /\ v = o.version
      BY <1>0, <2>1, <2>7, <3>1, <3>2 DEF Acks
    <3> QED BY <2>4, <2>5, <2>7, <3>1, <3>3
  <2>8. \A q, r \in Proc, s \in Secret, v \in Nat : Wrote(q, s, v)' /\ Wrote(r, s, v)' => q = r
    BY <1>0, <2>1, <2>3, <2>5 DEF Acks
  <2> QED BY <1>0, <1>2, <2>6, <2>7, <2>8 DEF Acks
<1> QED BY <1>3, <1>6, <1>7 DEF Core

\* The entry of an operation, alone.
LEMMA OneEntry ==
    ASSUME NEW o \in OpRow, NEW es, es = <<MainEntry(o)>>
    PROVE  es \in Seq(Entry) /\ Len(es) = 1 /\ es[1] = MainEntry(o)
<1>1. PICK e : e = MainEntry(o)
  OBVIOUS
<1>2. e \in Entry
  BY <1>1, MainEntryType
<1> QED BY <1>1, <1>2

\* An audit event or the end of a rotation is committed: the rows stay as they are.
LEMMA AuditCommit ==
    ASSUME Core, NEW p \in Proc, CommitAudit(p) \/ CommitCompletion(p) PROVE Core'
<1>0. PICK o : o = op[p]
  OBVIOUS
<1>1. Tables /\ Ops /\ o \in OpRow /\ op \in [Proc -> OpRow]
  BY <1>0 DEF Core, Ops
<1>2. UNCHANGED <<op, acked>> /\ tx[p] \notin {"idle", "ok"} /\ chain_lock = NoProc
      /\ o.kind \notin Writing
  BY <1>0 DEF CommitAudit, CommitCompletion, TxFrame, Writing
<1>3. CASE FitsHead(p)
  <2>1. UNCHANGED <<versions, current>> /\ Commit(p, <<MainEntry(o)>>)
    BY <1>0, <1>3 DEF CommitAudit, CommitCompletion
  <2>2. PICK es : es = <<MainEntry(o)>>
    OBVIOUS
  <2>3. es \in Seq(Entry) /\ Len(es) = 1 /\ es[1] = MainEntry(o) /\ Commit(p, es)
    BY <1>1, <2>1, <2>2, OneEntry
  <2>4. ledger' \in Seq(Entry)
    BY <1>1, <2>3, Appended DEF Commit, Tables
  <2>5. Tables'
    BY <1>1, <2>1, <2>4 DEF Tables, RetentionWindow, RowsOf
  <2>6. \A s \in Secret : current[s] <= current'[s] /\ current'[s] = current[s]
    BY <1>1, <2>1 DEF Tables
  <2>7. OldRows' = OldRows
    BY <2>1 DEF OldRows
  <2>8. Len(es) >= 1 /\ chain_lock \in {NoProc, p}
    BY <1>2, <2>3
  <2> QED BY <1>0, <1>2, <2>3, <2>5, <2>6, <2>7, <2>8, CommitStep
<1>4. CASE ~FitsHead(p)
  BY <1>2, <1>4, AbortStep DEF CommitAudit, CommitCompletion
<1> QED BY <1>3, <1>4

\* A row under the new key.
Rewrapped(r) == [r EXCEPT !.key_version = New]

\* The rows of a rewrap are on the old key, and locked, until it commits.
LEMMA RewrapCommit == ASSUME Core, NEW p \in Proc, CommitRewrap(p) PROVE Core'
<1>0. PICK o : o = op[p]
  OBVIOUS
<1>1. /\ Tables /\ Locks /\ Ops /\ o \in OpRow /\ op \in [Proc -> OpRow]
      /\ TxOk(p, o, tx[p]) /\ OpOk(o)
  BY <1>0 DEF Core, Ops
<1>2. UNCHANGED <<op, acked>> /\ tx[p] = "counted" /\ chain_lock = NoProc /\ o.kind = "rewrap"
  BY <1>0 DEF CommitRewrap, TxFrame
<1>3. row_locks[p] = o.rows /\ o.rows \subseteq OldRows /\ o.rows \subseteq versions
  BY <1>1, <1>2 DEF TxOk, OldRows
<1>4. CASE FitsHead(p)
  <2> DEFINE Z == {Rewrapped(r) : r \in o.rows}
  <2>1. /\ versions' = (versions \ o.rows) \cup Z
        /\ UNCHANGED current /\ Commit(p, <<MainEntry(o)>>)
    BY <1>0, <1>4 DEF CommitRewrap, Rewrapped
  <2>2. PICK es : es = <<MainEntry(o)>>
    OBVIOUS
  <2>3. es \in Seq(Entry) /\ Len(es) = 1 /\ es[1] = MainEntry(o) /\ Commit(p, es)
    BY <1>1, <2>1, <2>2, OneEntry
  <2>4. ledger' \in Seq(Entry)
    BY <1>1, <2>3, Appended DEF Commit, Tables
  <2>5. \A r \in o.rows : /\ Rewrapped(r) \in VersionRow /\ Rewrapped(r).secret = r.secret
                          /\ Rewrapped(r).version = r.version /\ Rewrapped(r).key_version = New
    BY <1>1, <1>3 DEF Rewrapped, Tables, VersionRow
  <2>6. IsFiniteSet(Z)
    <3> DEFINE f == [r \in o.rows |-> Rewrapped(r)]
    <3>1. f \in Surjection(o.rows, Z)
      BY DEF Surjection
    <3>2. IsFiniteSet(o.rows)
      BY <1>1 DEF OpOk
    <3> HIDE DEF f, Z
    <3> QED BY <3>1, <3>2, FS_Surjection
  <2>7. versions' \subseteq VersionRow /\ IsFiniteSet(versions')
    <3>1. IsFiniteSet(versions \ o.rows)
      BY <1>1, FS_Difference DEF Tables
    <3>2. versions' \subseteq VersionRow
      BY <1>1, <2>1, <2>5 DEF Tables
    <3> HIDE DEF Z
    <3> QED BY <2>1, <2>6, <3>1, <3>2, FS_Union
  <2>8. /\ \A r \in versions : \E x \in versions' :
              x.secret = r.secret /\ x.version = r.version /\ (r \notin o.rows => x = r)
        /\ \A x \in versions' :
              \/ x \in versions /\ x \notin o.rows
              \/ \E r \in o.rows : x = Rewrapped(r)
    BY <2>1, <2>5
  <2>9. RetentionWindow'
    <3> SUFFICES ASSUME NEW s \in Secret PROVE Window(RowsOf(s), current[s])'
      BY DEF RetentionWindow, Window
    <3>1. PICK c \in Nat : c = current[s] /\ c = current'[s]
      BY <1>1, <2>1 DEF Tables
    <3>2. PICK W, V : W = RowsOf(s) /\ V = RowsOf(s)'
      OBVIOUS
    <3>3. Window(W, c)
      BY <1>1, <3>1, <3>2 DEF Tables, RetentionWindow, Window
    <3>4. /\ \A r \in W : InWindow(r.version, c)
          /\ \A v \in 1..c : v > c - RetentionLimit => \E r \in W : r.version = v
          /\ \A q, r \in W : q.version = r.version => q = r
      BY <3>3, WindowRows
    <3>5. \A x \in V : \/ x \in W /\ x \notin o.rows
                       \/ \E r \in o.rows : r \in W /\ x = Rewrapped(r)
      BY <1>3, <2>5, <2>8, <3>2 DEF RowsOf
    <3>6. \A r \in W : \E x \in V : x.version = r.version
      BY <2>8, <3>2 DEF RowsOf
    <3>7. \A x \in V : InWindow(x.version, c)
      BY <2>5, <3>4, <3>5
    <3>8. \A v \in 1..c : v > c - RetentionLimit => \E x \in V : x.version = v
      BY <3>4, <3>6
    <3>9. \A x, y \in V : x.version = y.version => x = y
      BY <2>5, <3>4, <3>5
    <3>10. Window(V, c)
      BY <3>7, <3>8, <3>9, WindowRows
    <3> QED BY <3>1, <3>2, <3>10 DEF Window
  <2>10. Tables'
    BY <1>1, <2>1, <2>4, <2>7, <2>9 DEF Tables
  <2>11. \A s \in Secret : current[s] <= current'[s] /\ current'[s] = current[s]
    BY <1>1, <2>1 DEF Tables
  <2>12. \A q \in Proc \ {p} : row_locks[q] \cap OldRows \subseteq OldRows'
    BY <1>1, <1>3, <2>1 DEF Locks, OldRows
  <2>13. /\ Len(es) >= 1 /\ chain_lock \in {NoProc, p} /\ tx[p] \notin {"idle", "ok"}
         /\ o.kind \notin Writing
    BY <1>2, <2>3 DEF Writing
  <2> QED BY <1>0, <1>2, <2>3, <2>10, <2>11, <2>12, <2>13, CommitStep
<1>5. CASE ~FitsHead(p)
  BY <1>2, <1>5, AbortStep DEF CommitRewrap
<1> QED BY <1>4, <1>5

\* The entries of a write: its own, and after it one for every row that it deletes.
PurgesFollow(o, es) ==
    /\ \A e \in PurgeDrafts(o) : \E k \in 1..Len(es) : es[k] = e
    /\ \A k \in 1..Len(es) : k = 1 \/ es[k].type = "secret_version_purged"

\* A write sends them so.
LEMMA WriteEntries ==
    ASSUME NEW o, OpOk(o), o.kind \in Writing, NEW purges \in InOrder(PurgeDrafts(o)),
           NEW es, es = <<MainEntry(o)>> \o purges
    PROVE  /\ es \in Seq(Entry) /\ Len(es) >= 1 /\ es[1] = MainEntry(o)
           /\ PurgesFollow(o, es)
<1> DEFINE D == PurgeDrafts(o)
           B == BeyondRetention(o.rows \cup {NewRow(o)})
<1>0. o \in OpRow /\ IsFiniteSet(o.rows) /\ o.rows \subseteq VersionRow /\ NewRow(o) \in VersionRow
  BY DEF OpOk, OpRow, NewRow, VersionRow
<1>1. B \subseteq VersionRow /\ IsFiniteSet(B)
  <2>1. IsFiniteSet(o.rows \cup {NewRow(o)})
    BY <1>0, FS_AddElement
  <2>2. B \subseteq o.rows \cup {NewRow(o)}
    BY DEF BeyondRetention
  <2> QED BY <1>0, <2>1, <2>2, FS_Subset
<1>2. \A e \in D : e \in Entry /\ e.type = "secret_version_purged"
  BY <1>0, <1>1, PurgeEntryType DEF PurgeDrafts
<1>3. IsFiniteSet(D)
  <2>1. CASE o.kind = "create"
    BY <2>1, FS_EmptySet DEF PurgeDrafts
  <2>2. CASE o.kind # "create"
    <3> DEFINE f == [r \in B |-> PurgeEntry(o, r)]
    <3>1. f \in Surjection(B, D)
      BY <2>2 DEF Surjection, PurgeDrafts
    <3> HIDE DEF f, B, D
    <3> QED BY <1>1, <3>1, FS_Surjection
  <2> QED BY <2>1, <2>2
<1>4. PICK n \in Nat : n = Cardinality(D)
  BY <1>3, FS_CardinalityType
<1>5. /\ purges \in [1..n -> D] /\ \A e \in D : \E i \in 1..n : purges[i] = e
  BY <1>4 DEF InOrder
<1> HIDE DEF D, B
<1>6. purges \in Seq(Entry) /\ Len(purges) = n
  BY <1>2, <1>5
<1>7. PICK m : m = MainEntry(o)
  OBVIOUS
<1>8. m \in Entry
  BY <1>0, <1>7, MainEntryType
<1>9. /\ es \in Seq(Entry) /\ Len(es) = n + 1 /\ es[1] = m
      /\ \A i \in 1..n : es[i + 1] = purges[i]
  BY <1>6, <1>7, <1>8
<1>10. \A e \in D : \E k \in 1..Len(es) : es[k] = e
  <2> SUFFICES ASSUME NEW e \in D PROVE \E k \in 1..Len(es) : es[k] = e
    OBVIOUS
  <2>1. PICK i \in 1..n : purges[i] = e
    BY <1>5
  <2>2. i + 1 \in 1..Len(es) /\ es[i + 1] = e
    BY <1>9, <2>1
  <2> QED BY <2>2
<1>11. ASSUME NEW k \in 1..Len(es), k # 1 PROVE es[k].type = "secret_version_purged"
  <2>1. PICK i \in 1..n : k = i + 1
    <3>1. k - 1 \in 1..n /\ k = (k - 1) + 1
      BY <1>9, <1>11
    <3> QED BY <3>1
  <2> QED BY <1>2, <1>5, <1>9, <2>1
<1>12. PurgesFollow(o, es)
  BY <1>10, <1>11 DEF PurgesFollow, D
<1> QED BY <1>7, <1>9, <1>12

\* A write commits its version as the next one, and the window moves by one.
LEMMA WriteCommit == ASSUME Core, NEW p \in Proc, PurgeAndCommit(p) PROVE Core'
<1>0. PICK o : o = op[p]
  OBVIOUS
<1>1. /\ Tables /\ Locks /\ Ops /\ o \in OpRow /\ op \in [Proc -> OpRow]
      /\ TxOk(p, o, tx[p]) /\ OpOk(o)
  BY <1>0 DEF Core, Ops
<1>2. UNCHANGED <<op, acked>> /\ tx[p] = "appended"
  BY DEF PurgeAndCommit, TxFrame
<1>3. /\ o.kind \in Writing /\ secret_lock[o.secret] = p /\ o.version = current[o.secret] + 1
      /\ chain_lock = p /\ o.secret \in Secret
  BY <1>1, <1>2 DEF TxOk, OpOk
<1>4. CASE PurgesAsSigned(p)
  <2>0. PICK s \in Secret, c \in Nat : s = o.secret /\ c = current[s] /\ o.version = c + 1
    BY <1>1, <1>3 DEF Tables
  <2>1. PICK x : x = NewRow(o)
    OBVIOUS
  <2>2. x \in VersionRow /\ x.secret = s /\ x.version = c + 1
    BY <1>1, <2>0, <2>1 DEF NewRow, VersionRow, OpRow
  <2>3. PICK W, B : W = RowsOf(s) /\ B = BeyondRetention(W \cup {x})
    OBVIOUS
  <2>4. /\ versions' = (versions \cup {x}) \ B
        /\ current' = [current EXCEPT ![s] = c + 1]
        /\ \A q \in Proc \ {p} : row_locks[q] \cap B = {}
    BY <1>0, <1>4, <2>0, <2>1, <2>3 DEF PurgeAndCommit, Purged
  <2>5. PICK purges \in InOrder(PurgeDrafts(o)) : Commit(p, <<MainEntry(o)>> \o purges)
    BY <1>0, <1>4 DEF PurgeAndCommit
  <2>6. PICK es : es = <<MainEntry(o)>> \o purges
    OBVIOUS
  <2>7. es \in Seq(Entry) /\ Len(es) >= 1 /\ es[1] = MainEntry(o) /\ Commit(p, es)
    BY <1>1, <1>3, <2>5, <2>6, WriteEntries
  <2>8. ledger' \in Seq(Entry)
    BY <1>1, <2>7, Appended DEF Commit, Tables
  <2>9. B \subseteq W \cup {x} /\ W \subseteq VersionRow /\ \A r \in B : r.secret = s
    BY <1>1, <2>2, <2>3 DEF BeyondRetention, RowsOf, Tables
  <2>10. versions' \subseteq VersionRow /\ IsFiniteSet(versions')
    <3>1. IsFiniteSet(versions \cup {x})
      BY <1>1, FS_AddElement DEF Tables
    <3>2. IsFiniteSet((versions \cup {x}) \ B)
      BY <3>1, FS_Difference
    <3> QED BY <1>1, <2>2, <2>4, <3>2 DEF Tables
  <2>11. RetentionWindow'
    <3> SUFFICES ASSUME NEW z \in Secret PROVE Window(RowsOf(z), current[z])'
      BY DEF RetentionWindow, Window
    <3>1. CASE z = s
      <4>1. Window(W, c)
        BY <1>1, <2>0, <2>3 DEF Tables, RetentionWindow, Window
      <4>2. Window((W \cup {x}) \ B, c + 1)
        BY <2>2, <2>3, <2>9, <4>1, WindowMoves
      <4>3. RowsOf(s)' = (W \cup {x}) \ B
        BY <2>2, <2>3, <2>4 DEF RowsOf
      <4>4. current'[s] = c + 1
        BY <1>1, <2>4 DEF Tables
      <4> QED BY <3>1, <4>2, <4>3, <4>4 DEF Window, RowsOf
    <3>2. CASE z # s
      <4>1. RowsOf(z)' = RowsOf(z)
        BY <2>2, <2>4, <2>9, <3>2 DEF RowsOf
      <4>2. current'[z] = current[z]
        BY <1>1, <2>4, <3>2 DEF Tables
      <4>3. Window(RowsOf(z), current[z])
        BY <1>1 DEF Tables, RetentionWindow, Window
      <4> QED BY <4>1, <4>2, <4>3 DEF Window
    <3> QED BY <3>1, <3>2
  <2>12. Tables'
    BY <1>1, <2>4, <2>8, <2>10, <2>11 DEF Tables
  <2>13. /\ \A z \in Secret : current[z] <= current'[z]
         /\ \A z \in Secret : current'[z] # current[z] => secret_lock[z] = p
         /\ current[o.secret] < o.version /\ o.version <= current'[o.secret]
    <3>1. /\ current'[s] = c + 1 /\ current[s] = c
          /\ \A z \in Secret : z # s => current'[z] = current[z]
          /\ \A z \in Secret : current[z] \in Nat
      BY <1>1, <2>0, <2>4 DEF Tables
    <3> QED BY <1>3, <2>0, <3>1
  <2>14. \A q \in Proc \ {p} : row_locks[q] \cap OldRows \subseteq OldRows'
    BY <2>4 DEF OldRows
  <2>15. chain_lock \in {NoProc, p} /\ tx[p] \notin {"idle", "ok"}
    BY <1>2, <1>3
  <2> QED BY <1>0, <1>2, <2>7, <2>12, <2>13, <2>14, <2>15, CommitStep
<1>5. CASE ~PurgesAsSigned(p)
  BY <1>2, <1>5, AbortStep DEF PurgeAndCommit
<1> QED BY <1>4, <1>5

-----------------------------------------------------------------------------
(* The invariant. *)

\* It holds at the start.
LEMMA StoreInit == Init => SInv
<1> SUFFICES ASSUME Init PROVE SInv
  OBVIOUS
<1>1. Tables
  <2>1. versions = {} /\ IsFiniteSet({}) /\ ledger = <<>> /\ current = [s \in Secret |-> 0]
    BY FS_EmptySet DEF Init
  <2>2. ledger \in Seq(Entry)
    BY <2>1
  <2>3. RetentionWindow
    <3> SUFFICES ASSUME NEW s \in Secret PROVE Window(RowsOf(s), current[s])
      BY DEF RetentionWindow, Window
    <3>1. RowsOf(s) = {} /\ current[s] = 0
      BY <2>1 DEF RowsOf
    <3>2. Window({}, 0)
      BY WindowRows
    <3> QED BY <3>1, <3>2
  <2> QED BY <2>1, <2>2, <2>3 DEF Tables
<1>2. Locks
  BY DEF Init, Locks
<1>3. Ops
  <2>1. \A p \in Proc : op[p] = Idle /\ tx[p] = "idle"
    BY DEF Init
  <2>2. \A p \in Proc : TxOk(p, Idle, "idle")
    BY DEF TxOk
  <2>3. op \in [Proc -> OpRow] /\ tx \in [Proc -> Stage]
    BY IdleOk DEF Init, OpOk, Stage
  <2> QED BY <2>1, <2>2, <2>3, IdleOk DEF Ops
<1>4. Acks
  BY DEF Init, Acks, VersionsDiffer, Wrote
<1>5. Rest
  BY WorkloadAssumption DEF Init, Rest
<1> QED BY <1>1, <1>2, <1>3, <1>4, <1>5 DEF SInv, Core

\* Every step keeps it.
LEMMA StoreStep == ASSUME SInv, [Next]_vars PROVE SInv'
<1>0. Core /\ Rest
  BY DEF SInv
<1>1. ASSUME NEW p \in Proc, Begin(p) PROVE SInv'
  BY <1>0, <1>1, BeginStep DEF SInv
<1>2. ASSUME NEW p \in Proc,
             \/ Proceed(p) \/ Execute(p) \/ ReadFails(p) \/ DeadlockAbort(p) \/ TxFails(p)
             \/ ReceiveAnswer(p) \/ GiveUp(p) \/ DropAnswer(p)
      PROVE  SInv'
  <2>1. UNCHANGED <<active_key, workload, started>>
    BY <1>2 DEF Proceed, ReadRetentionSnapshot, ReadRotationStatus, SignAndSend, Execute, TxFrame,
       LockSecret, AppendWriteEntry, PurgeAndCommit, UpdateRows, CountRemaining, CommitRewrap,
       CountForCompletion, CommitCompletion, CommitAudit, ReadFails, DeadlockAbort, TxFails,
       ReceiveAnswer, GiveUp, DropAnswer, Finish
  <2>2. Rest'
    BY <1>0, <2>1 DEF Rest
  <2>3. ASSUME DeadlockAbort(p) \/ TxFails(p) PROVE Core'
    <3>1. tx[p] # "idle" /\ Abort(p) /\ UNCHANGED <<op, acked>>
      BY <2>3 DEF DeadlockAbort, TxFails, Deadlocked, InTx, TxFrame
    <3> QED BY <1>0, <3>1, AbortStep
  <2>4. Core'
    BY <1>0, <1>2, <2>3, ProceedStep, WriteLocks, RotationLocks, WriteCommit, RewrapCommit,
       AuditCommit, AnswerStep DEF Execute
  <2> QED BY <2>2, <2>4 DEF SInv
<1>3. CASE SwitchKeyring \/ UNCHANGED vars
  <2>1. UNCHANGED <<tables, op, tx, locks, workload, started, acked>> /\ active_key' \in {Old, New}
    BY <1>0, <1>3 DEF SwitchKeyring, vars, Rest
  <2>2. Rest'
    BY <1>0, <2>1 DEF Rest
  <2>3. Tables' /\ Locks'
    BY <1>0, <2>1, SameTables DEF Core
  <2>4. Ops'
    <3>1. ASSUME NEW p \in Proc PROVE TxOk(p, op[p], tx[p])'
      <4>1. PICK x, y : x = op[p] /\ y = tx[p]
        OBVIOUS
      <4>2. TxOk(p, x, y)'
        BY <1>0, <2>1, <4>1, SameTables DEF Core, Ops
      <4> QED BY <2>1, <4>1, <4>2 DEF TxOk
    <3> QED BY <1>0, <2>1, <3>1 DEF Core, Ops
  <2>5. Acks'
    BY <1>0, <2>1 DEF Core, Acks, VersionsDiffer, InLedger, Wrote, tables
  <2> QED BY <2>2, <2>3, <2>4, <2>5 DEF SInv, Core
<1> QED BY <1>1, <1>2, <1>3 DEF Next, Quiescent

\* It holds throughout.
LEMMA StoreInvariant == Spec => []SInv
BY StoreInit, StoreStep, PTL DEF Spec

\* The types, for every number of secrets, of operations and of retained versions.
THEOREM StoreTypes == Spec => []TypeOK
<1>1. SInv => TypeOK
  BY DEF SInv, Core, Tables, Locks, Ops, Acks, Rest, TypeOK, OpRow, Stage
<1> QED BY <1>1, StoreInvariant, PTL

\* rpc_write_secret_version keeps exactly the newest versions of a secret, without a
\* gap, whatever writes and rewraps run beside each other.
THEOREM WindowKept == Spec => []RetentionWindow
<1>1. SInv => RetentionWindow
  BY DEF SInv, Core, Tables
<1> QED BY <1>1, StoreInvariant, PTL

\* A write that was answered with success is in the ledger under its own request, and
\* no two of them produced the same version: the comparison under the lock on the row
\* of secrets, and the commit of row and entry in one transaction, lose no update.
THEOREM UpdatesKept == Spec => []NoLostUpdate
<1>1. SInv => NoLostUpdate
  BY DEF SInv, Core, Acks, InLedger, VersionsDiffer, WriteTypes, NoLostUpdate
<1> QED BY <1>1, StoreInvariant, PTL

\* decrypt_secret hands out a plaintext only when the ledger holds the entry of that
\* request.
THEOREM PlaintextAudited == Spec => []PlaintextIsAudited
<1>1. SInv => PlaintextIsAudited
  BY DEF SInv, Core, Acks, InLedger, PlaintextIsAudited
<1> QED BY <1>1, StoreInvariant, PTL

-----------------------------------------------------------------------------
(* What a step that changes rows or ledger has compared. *)

WriteCommits(p) == PurgeAndCommit(p) /\ PurgesAsSigned(p)
OtherCommits(p) == (CommitRewrap(p) \/ CommitCompletion(p) \/ CommitAudit(p)) /\ FitsHead(p)

\* Rows and ledger are changed only by a transaction that commits.
LEMMA OnlyCommits ==
    ASSUME [Next]_vars
    PROVE  \/ UNCHANGED <<versions, ledger>>
           \/ \E p \in Proc : WriteCommits(p) \/ OtherCommits(p)
<1>1. ASSUME NEW p \in Proc,
             \/ Begin(p) \/ Proceed(p) \/ ReadFails(p) \/ DeadlockAbort(p) \/ TxFails(p)
             \/ ReceiveAnswer(p) \/ GiveUp(p) \/ DropAnswer(p)
      PROVE  UNCHANGED <<versions, ledger>>
  BY <1>1 DEF Begin, BeginCreate, BeginRotate, BeginDecrypt, BeginRotationStart, BeginRewrap,
     BeginComplete, Start, Proceed, ReadRetentionSnapshot, ReadRotationStatus, SignAndSend,
     ReadFails, DeadlockAbort, TxFails, Abort, ReceiveAnswer, GiveUp, DropAnswer, Finish, tables
<1>2. ASSUME NEW p \in Proc, Execute(p)
      PROVE  UNCHANGED <<versions, ledger>> \/ WriteCommits(p) \/ OtherCommits(p)
  <2>1. CASE \/ LockSecret(p) \/ AppendWriteEntry(p) \/ UpdateRows(p) \/ CountRemaining(p)
             \/ CountForCompletion(p)
    BY <2>1 DEF LockSecret, AppendWriteEntry, UpdateRows, CountRemaining, CountForCompletion,
       Abort, tables
  <2>2. CASE PurgeAndCommit(p)
    BY <2>2 DEF PurgeAndCommit, WriteCommits, Abort, tables
  <2>3. CASE CommitRewrap(p) \/ CommitCompletion(p) \/ CommitAudit(p)
    BY <2>3 DEF CommitRewrap, CommitCompletion, CommitAudit, OtherCommits, Abort, tables
  <2> QED BY <1>2, <2>1, <2>2, <2>3 DEF Execute
<1>3. CASE SwitchKeyring \/ UNCHANGED vars
  BY <1>3 DEF SwitchKeyring, vars, tables
<1> QED BY <1>1, <1>2, <1>3 DEF Next, Quiescent

\* A transaction that commits appends its own entry first, and a write after it those
\* of the rows that it deletes.
LEMMA CommitEntries ==
    ASSUME Core, NEW p \in Proc, WriteCommits(p) \/ OtherCommits(p), NEW o, o = op[p]
    PROVE  /\ o \in OpRow /\ OpOk(o) /\ TxOk(p, o, tx[p])
           /\ o.head = Len(ledger) /\ tx[p] # "ok" /\ tx'[p] = "ok"
           /\ WriteCommits(p) => \A e \in PurgeDrafts(o) : e \in NewEntries
           /\ \A e \in NewEntries : e = MainEntry(o) \/ e.type = "secret_version_purged"
<1>1. /\ o \in OpRow /\ OpOk(o) /\ TxOk(p, o, tx[p]) /\ Tables /\ tx \in [Proc -> Stage]
      /\ ledger \in Seq(Entry)
  BY DEF Core, Ops, Tables
<1>2. /\ tx[p] # "ok" /\ o.head = Len(ledger)
      /\ WriteCommits(p) => o.kind \in Writing
  BY <1>1 DEF WriteCommits, OtherCommits, PurgeAndCommit, CommitRewrap, CommitCompletion,
     CommitAudit, TxOk, FitsHead
<1>3. PICK es : /\ es \in Seq(Entry) /\ Commit(p, es)
                /\ \A k \in 1..Len(es) : es[k] = MainEntry(o) \/ es[k].type = "secret_version_purged"
                /\ WriteCommits(p) => \A e \in PurgeDrafts(o) : \E k \in 1..Len(es) : es[k] = e
  <2>1. CASE WriteCommits(p)
    <3>1. PICK purges \in InOrder(PurgeDrafts(o)) : Commit(p, <<MainEntry(o)>> \o purges)
      BY <2>1 DEF WriteCommits, PurgeAndCommit
    <3>2. PICK es : es = <<MainEntry(o)>> \o purges
      OBVIOUS
    <3>3. o.kind \in Writing /\ OpOk(o)
      BY <1>1, <1>2, <2>1
    <3>4. es \in Seq(Entry) /\ es[1] = MainEntry(o) /\ PurgesFollow(o, es)
      BY <3>2, <3>3, WriteEntries
    <3>5. Commit(p, es)
      BY <3>1, <3>2
    <3> QED BY <3>4, <3>5 DEF PurgesFollow
  <2>2. CASE ~WriteCommits(p)
    <3>1. Commit(p, <<MainEntry(o)>>)
      BY <2>2 DEF OtherCommits, CommitRewrap, CommitCompletion, CommitAudit
    <3>2. PICK es : es = <<MainEntry(o)>>
      OBVIOUS
    <3>3. es \in Seq(Entry) /\ Len(es) = 1 /\ es[1] = MainEntry(o) /\ Commit(p, es)
      BY <1>1, <3>1, <3>2, OneEntry
    <3>4. \A k \in 1..Len(es) : k = 1
      BY <3>3
    <3> QED BY <2>2, <3>3, <3>4
  <2> QED BY <2>1, <2>2
<1>4. tx'[p] = "ok"
  BY <1>1, <1>3 DEF Commit
<1>5. /\ Len(ledger') = Len(ledger) + Len(es) /\ Len(ledger) \in Nat /\ Len(es) \in Nat
      /\ \A k \in 1..Len(es) : ledger'[Len(ledger) + k] = es[k]
  BY <1>1, <1>3, Appended DEF Commit
<1>6. ASSUME NEW k \in 1..Len(es) PROVE es[k] \in NewEntries
  <2>1. Len(ledger) + k \in (Len(ledger) + 1)..Len(ledger') /\ ledger'[Len(ledger) + k] = es[k]
    BY <1>5
  <2> QED BY <2>1 DEF NewEntries
<1>7. ASSUME NEW e \in NewEntries PROVE \E k \in 1..Len(es) : e = es[k]
  <2>1. PICK i \in (Len(ledger) + 1)..Len(ledger') : e = ledger'[i]
    BY <1>7 DEF NewEntries
  <2>2. i - Len(ledger) \in 1..Len(es) /\ Len(ledger) + (i - Len(ledger)) = i
    BY <1>5
  <2> QED BY <1>5, <2>1, <2>2
<1> QED BY <1>1, <1>2, <1>3, <1>4, <1>6, <1>7

\* Nothing is appended by a step that leaves the ledger alone.
LEMMA NothingNew == ASSUME ledger \in Seq(Entry), UNCHANGED ledger PROVE NewEntries = {}
BY DEF NewEntries

\* The ledger is extended only on the head the entries were signed on: what
\* rpc_append_ledger_entry has compared still holds when the transaction commits.
THEOREM HeadHeld == Spec => SignedOnHead
<1> DEFINE Held == ledger' # ledger =>
              \E p \in Proc : /\ tx[p] # "ok" /\ tx'[p] = "ok"
                              /\ op[p].head = Len(ledger)
<1>1. ASSUME SInv, [Next]_vars PROVE Held
  <2> SUFFICES ASSUME ledger' # ledger
               PROVE  \E p \in Proc : tx[p] # "ok" /\ tx'[p] = "ok" /\ op[p].head = Len(ledger)
    OBVIOUS
  <2>1. PICK p \in Proc : WriteCommits(p) \/ OtherCommits(p)
    BY <1>1, OnlyCommits
  <2> QED BY <1>1, <2>1, CommitEntries DEF SInv
<1> QED BY <1>1, StoreInvariant, PTL DEF Spec, SignedOnHead

\* A version is deleted only together with its ledger entry, which names the key it is
\* wrapped with when the row is deleted.
THEOREM PurgesLedgered == Spec => PurgesAreLedgered
<1> DEFINE Gone(r) == \A q \in versions' : q.secret # r.secret \/ q.version # r.version
           Named(r) == \E e \in NewEntries : /\ e.type = "secret_version_purged"
                                             /\ e.secret = r.secret /\ e.version = r.version
                                             /\ e.key_version = r.key_version
<1>1. ASSUME SInv, [Next]_vars, NEW r \in versions, Gone(r) PROVE Named(r)
  <2>0. Core /\ Tables /\ versions \subseteq VersionRow
    BY <1>1 DEF SInv, Core, Tables
  <2>1. versions' # versions
    BY <1>1
  <2>2. PICK p \in Proc : WriteCommits(p) \/ OtherCommits(p)
    BY <1>1, <2>1, OnlyCommits
  <2>3. PICK o : o = op[p]
    OBVIOUS
  <2>4. CASE WriteCommits(p)
    <3>1. r \in Purged(p)
      BY <1>1, <2>4 DEF WriteCommits, PurgeAndCommit
    <3>2. PurgeEntry(o, r) \in PurgeDrafts(o)
      BY <2>3, <2>4, <3>1 DEF WriteCommits, PurgesAsSigned
    <3>3. PurgeEntry(o, r) \in NewEntries /\ o \in OpRow
      BY <2>0, <2>3, <2>4, <3>2, CommitEntries
    <3>4. /\ PurgeEntry(o, r).type = "secret_version_purged"
          /\ PurgeEntry(o, r).secret = r.secret /\ PurgeEntry(o, r).version = r.version
          /\ PurgeEntry(o, r).key_version = r.key_version
      BY <2>0, <3>3, PurgeEntryType
    <3> QED BY <3>3, <3>4
  <2>5. CASE OtherCommits(p)
    <3>1. versions' = (versions \ o.rows) \cup {Rewrapped(q) : q \in o.rows}
      BY <2>1, <2>3, <2>5 DEF OtherCommits, CommitRewrap, CommitCompletion, CommitAudit, Rewrapped
    <3>2. Rewrapped(r).secret = r.secret /\ Rewrapped(r).version = r.version
      BY <2>0 DEF Rewrapped, VersionRow
    <3> QED BY <1>1, <3>1, <3>2
  <2> QED BY <2>2, <2>4, <2>5
<1>2. SInv /\ [Next]_vars => [\A r \in versions : Gone(r) => Named(r)]_vars
  BY <1>1
<1> QED BY <1>2, StoreInvariant, PTL DEF Spec, PurgesAreLedgered

\* The count in a signed rotation entry is the number of rows on the old key when it is
\* committed: no lock keeps it, but a commit in between would have moved the head.
THEOREM CountsExact == Spec => RotationCountsExact
<1> DEFINE Rotation == {"key_rotation_reencrypted", "key_rotation_completed"}
<1>1. ASSUME SInv, [Next]_vars, NEW e \in NewEntries, e.type \in Rotation
      PROVE  e.remaining = Cardinality({r \in versions' : r.key_version = Old})
  <2>0. Core /\ Tables /\ versions \subseteq VersionRow /\ ledger \in Seq(Entry)
    BY <1>1 DEF SInv, Core, Tables
  <2>1. ledger' # ledger
    BY <1>1, <2>0, NothingNew
  <2>2. PICK p \in Proc : WriteCommits(p) \/ OtherCommits(p)
    BY <1>1, <2>1, OnlyCommits
  <2>3. PICK o : o = op[p]
    OBVIOUS
  <2>4. /\ o \in OpRow /\ OpOk(o) /\ TxOk(p, o, tx[p]) /\ o.head = Len(ledger)
        /\ e = MainEntry(o) \/ e.type = "secret_version_purged"
    BY <2>0, <2>2, <2>3, CommitEntries
  <2>5. e = MainEntry(o)
    BY <1>1, <2>4
  <2>6. o.kind \in {"rewrap", "complete"} /\ e.remaining = o.remaining
    BY <1>1, <2>4, <2>5, MainEntryType
  <2>7. /\ OtherCommits(p) /\ tx[p] = "counted"
        /\ CommitRewrap(p) \/ CommitCompletion(p)
    <3>1. ~WriteCommits(p)
      BY <2>4, <2>6 DEF WriteCommits, PurgeAndCommit, TxOk, Writing
    <3>2. ~CommitAudit(p)
      BY <2>3, <2>6 DEF CommitAudit
    <3> QED BY <2>2, <3>1, <3>2 DEF OtherCommits, CommitRewrap, CommitCompletion
  <2>8. Cardinality(OldRows \ o.rows) = o.remaining
    BY <2>4, <2>7 DEF TxOk
  <2>9. {r \in versions' : r.key_version = Old} = OldRows \ o.rows
    <3>1. CASE CommitRewrap(p)
      <4>1. versions' = (versions \ o.rows) \cup {Rewrapped(r) : r \in o.rows}
        BY <2>3, <2>7, <3>1 DEF OtherCommits, CommitRewrap, Rewrapped
      <4>2. o.rows \subseteq VersionRow
        BY <2>4 DEF OpRow
      <4>3. \A r \in o.rows : Rewrapped(r).key_version = New
        BY <4>2 DEF Rewrapped, VersionRow
      <4> QED BY <4>1, <4>3, KeyAssumption DEF OldRows
    <3>2. CASE CommitCompletion(p)
      <4>1. versions' = versions
        BY <2>7, <3>2 DEF OtherCommits, CommitCompletion
      <4>2. o.rows = {}
        BY <2>3, <2>4, <3>2 DEF OpOk, CommitCompletion
      <4> QED BY <4>1, <4>2 DEF OldRows
    <3> QED BY <2>7, <3>1, <3>2
  <2> QED BY <2>6, <2>8, <2>9
<1>2. SInv /\ [Next]_vars =>
        [\A e \in NewEntries : e.type \in Rotation =>
            e.remaining = Cardinality({r \in versions' : r.key_version = Old})]_vars
  BY <1>1
<1> QED BY <1>2, StoreInvariant, PTL DEF Spec, RotationCountsExact
=============================================================================
