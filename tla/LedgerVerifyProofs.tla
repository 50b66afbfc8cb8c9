------------------------- MODULE LedgerVerifyProofs -------------------------
(***************************************************************************)
(* Proofs about LedgerVerify, for any keys, versions, servers, lengths of  *)
(* the ledger and damaged rows: what is signed, is signed with a key that  *)
(* was active, the ledger tells the life of every key, an intact ledger    *)
(* passes verification, and damage that a verifier gets to see is found.   *)
(*                                                                         *)
(* A process looks at its key once and signs with it for as long as it     *)
(* runs, and a command signs on a head that may move before it commits,    *)
(* by a server or by the command of another operator.  The invariant       *)
(* therefore says of every signer, of every command that has looked at its *)
(* key, and of every entry that waits for its commit, that the key is one  *)
(* that has been activated at the head or before, which no later step of a *)
(* lifecycle undoes.                                                       *)
(*                                                                         *)
(* The hash of a row stands for the contents up to it, so it fixes all of  *)
(* the rows before it.  The invariant of the second part compares every    *)
(* row with what was written; what a verifier then says is a matter of the *)
(* rows it has read, in their order.                                       *)
(***************************************************************************)
EXTENDS LedgerVerify, TLAPS, FiniteSetTheorems

Op == {"event", "incident", "create", "activate", "retire", "altered"}
Content == [op : Op, v : Version \cup {0}, key : Version]
History == Seq(Content)
Entry == [no : Nat, prev : History, op : Op, v : Version \cup {0}, key : Version,
          hash : History, sig : [pub : Material, of : History]]
KeyRow == [status : {"created", "active", "retired"}, pub : Material,
           activated : Nat, retired : Nat]

\* The types of the tables: the history of the head has one content per number, and
\* no key was activated by an entry that is not written yet.
Tables ==
    /\ keys \in [Version -> KeyRow \cup {Unregistered}]
    /\ \A v \in Version : keys[v].status \in {"active", "retired"} => keys[v].activated <= head.no
    /\ head \in [no : Nat, hash : History] /\ Len(head.hash) = head.no
    /\ DOMAIN rows \subseteq 1..head.no /\ \A n \in DOMAIN rows : rows[n] \in Entry

\* Version v has been activated with public key pub at number n or before.
ActivatedBy(v, pub, n) ==
    /\ v \in Version /\ keys[v] \in KeyRow
    /\ keys[v].status \in {"active", "retired"} /\ keys[v].pub = pub /\ keys[v].activated <= n

\* Every running server signs with a key that has been activated.
Signers ==
    /\ signer \in [Server -> Config \cup {None}]
    /\ \A s \in Server : signer[s] # None => ActivatedBy(signer[s].version, signer[s].pub, head.no)

\* A command that has looked at its key, and one whose entry is signed.
Begun == [pc : {"status", "sign"}, op : {"create", "activate", "retire", "event"},
          v : Version \cup {0}, pub : Material, by : Config]
Ready == [pc : {"commit"}, op : {"create", "activate", "retire", "event"},
          v : Version \cup {0}, pub : Material, entry : Entry]

\* A command under way has a key that has been activated; its entry follows the head
\* it was signed on, which is the head of now when the numbers are the same.
Command(k) ==
    \/ k = Idle
    \/ /\ k \in Begun
       /\ IF k.op = "event" THEN k.v = 0 /\ k.pc = "sign" ELSE k.v \in Version
       /\ ActivatedBy(k.by.version, k.by.pub, head.no)
    \/ /\ k \in Ready
       /\ IF k.op = "event" THEN k.v = 0 ELSE k.v \in Version
       /\ \E c \in Config, h \in [no : Nat, hash : History] :
             /\ k.entry = Signed(c, h, k.op, k.v)
             /\ h.no <= head.no
             /\ h.no = head.no => h = head
             /\ ActivatedBy(c.version, c.pub, head.no)

Commands == DOMAIN cmd = Operator /\ \A o \in Operator : Command(cmd[o])

VInv == Tables /\ Signers /\ Commands /\ SignedAfterActivation

-----------------------------------------------------------------------------
\* An entry signed on a head is well formed, and continues the history of it.
LEMMA SignedEntry ==
    ASSUME NEW c \in Config, NEW h \in [no : Nat, hash : History], NEW op \in Op,
           NEW v \in Version \cup {0}
    PROVE  LET e == Signed(c, h, op, v)
               x == [op |-> op, v |-> v, key |-> c.version]
           IN  /\ e \in Entry /\ e.no = h.no + 1 /\ e.op = op /\ e.key = c.version
               /\ x \in Content /\ e.hash = Append(h.hash, x) /\ e.sig.pub = c.pub
<1> DEFINE x == [op |-> op, v |-> v, key |-> c.version]
<1>1. c.version \in Version /\ c.pub \in Material
  BY VerifyAssumption
<1>2. x \in Content
  BY <1>1 DEF Content
<1>3. h.no + 1 \in Nat /\ h.hash \in History
  OBVIOUS
<1>4. Append(h.hash, x) \in History
  <2> HIDE DEF x
  <2> QED BY <1>2, <1>3 DEF History
<1> QED BY <1>1, <1>2, <1>3, <1>4 DEF Signed, canonical_payload, Entry

\* The invariant holds with the first key registered and no entry.
LEMMA VerifyInit == Init => VInv
<1> SUFFICES ASSUME Init PROVE VInv
  OBVIOUS
<1>1. Tables
  <2>1. keys \in [Version -> KeyRow \cup {Unregistered}]
    BY VerifyAssumption DEF Init, KeyRow
  <2>2. head = [no |-> 0, hash |-> <<>>] /\ rows = <<>>
    BY DEF Init, Genesis
  <2>3. <<>> \in History /\ Len(<<>>) = 0 /\ DOMAIN <<>> = {}
    BY DEF History
  <2>4. \A v \in Version : keys[v].status \in {"active", "retired"} => keys[v].activated <= 0
    BY DEF Init, Unregistered
  <2> QED BY <2>1, <2>2, <2>3, <2>4 DEF Tables
<1>2. Signers /\ Commands
  BY DEF Init, Signers, Commands, Command
<1>3. SignedAfterActivation
  BY DEF Init, SignedAfterActivation, Genesis
<1> QED BY <1>1, <1>2, <1>3 DEF VInv

\* What becomes of the registry: nothing, or one step of one key's life.
Lives ==
    \A v \in Version :
       \/ keys'[v] = keys[v]
       \/ keys[v] = Unregistered /\ keys'[v] \in KeyRow /\ keys'[v].status = "created"
       \/ /\ keys[v] \in KeyRow /\ keys'[v] \in KeyRow
          /\ keys[v].status = "created" /\ keys'[v].status = "active"
          /\ keys'[v].pub = keys[v].pub /\ keys'[v].activated = head.no + 1
       \/ /\ keys[v] \in KeyRow /\ keys'[v] \in KeyRow
          /\ keys[v].status = "active" /\ keys'[v].status = "retired"
          /\ keys'[v].pub = keys[v].pub /\ keys'[v].activated = keys[v].activated

\* An activated key stays activated, with its public key and its number.
LEMMA ActivatedStays ==
    ASSUME Lives, NEW v, NEW pub, NEW n, NEW m \in Int, n \in Int, n <= m, ActivatedBy(v, pub, n)
    PROVE  ActivatedBy(v, pub, m)'
BY DEF Lives, ActivatedBy, Unregistered, KeyRow

\* An append keeps the tables well formed and every entry signed with an activated
\* key, when the new entry is.
LEMMA Appends ==
    ASSUME Tables, SignedAfterActivation, Lives, keys' \in [Version -> KeyRow \cup {Unregistered}],
           NEW c \in Config, NEW op \in Op, NEW v \in Version \cup {0},
           Store(Signed(c, head, op, v)),
           op # "incident" => ActivatedBy(c.version, c.pub, head.no)
    PROVE  /\ Tables' /\ SignedAfterActivation'
           /\ head'.no = head.no + 1
           /\ head'.hash = Append(head.hash, [op |-> op, v |-> v, key |-> c.version])
<1> DEFINE e == Signed(c, head, op, v)
           x == [op |-> op, v |-> v, key |-> c.version]
           n == head.no
           hash == head.hash
<1>1. /\ n \in Nat /\ hash \in Seq(Content) /\ Len(hash) = n
      /\ head \in [no : Nat, hash : History]
  BY DEF Tables, History
<1>2. /\ e \in Entry /\ e.no = n + 1 /\ e.op = op /\ e.key = c.version
      /\ x \in Content /\ e.hash = Append(hash, x) /\ e.sig.pub = c.pub
  BY <1>1, SignedEntry
<1> HIDE DEF e, x
<1>3. /\ head' = [no |-> e.no, hash |-> e.hash]
      /\ rows' = [i \in DOMAIN rows \cup {e.no} |-> IF i = e.no THEN e ELSE rows[i]]
  BY DEF Store, e
<1>4. head'.no = n + 1 /\ head'.hash = Append(hash, x)
  BY <1>2, <1>3
<1>5. /\ Append(hash, x) \in Seq(Content) /\ Len(Append(hash, x)) = n + 1
      /\ Append(hash, x)[n + 1] = x
      /\ \A i \in 1..n : Append(hash, x)[i] = hash[i]
  BY <1>1, <1>2
<1>6. /\ DOMAIN rows' = DOMAIN rows \cup {n + 1}
      /\ rows'[n + 1] = e
      /\ \A i \in DOMAIN rows : rows'[i] = rows[i] /\ i # n + 1
  BY <1>1, <1>2, <1>3 DEF Tables
<1>7. Tables'
  <2>1. head' \in [no : Nat, hash : History] /\ Len(head'.hash) = head'.no
    <3>1. n + 1 \in Nat /\ Append(hash, x) \in History
      BY <1>1, <1>5 DEF History
    <3>2. head' = [no |-> n + 1, hash |-> Append(hash, x)]
      BY <1>2, <1>3
    <3> QED BY <1>4, <1>5, <3>1, <3>2
  <2>2. DOMAIN rows' \subseteq 1..(n + 1)
    BY <1>1, <1>6 DEF Tables
  <2>3. \A i \in DOMAIN rows' : rows'[i] \in Entry
    BY <1>2, <1>6 DEF Tables
  <2>4. ASSUME NEW w \in Version, keys'[w].status \in {"active", "retired"}
        PROVE  keys'[w].activated <= n + 1
    <3>1. \/ keys'[w].activated = keys[w].activated /\ keys[w].status \in {"active", "retired"}
          \/ keys'[w].activated = n + 1
      BY <2>4 DEF Lives
    <3>2. keys[w].status \in {"active", "retired"} =>
             keys[w].activated \in Nat /\ keys[w].activated <= n
      BY DEF Tables, KeyRow, Unregistered
    <3> QED BY <1>1, <3>1, <3>2
  <2> QED BY <1>4, <2>1, <2>2, <2>3, <2>4 DEF Tables
<1>8. SignedAfterActivation'
  <2> SUFFICES ASSUME NEW i \in 1..(n + 1), (head'.hash)[i].op # "incident"
               PROVE  LET k == keys'[(head'.hash)[i].key] IN
                      /\ k.status \in {"active", "retired"} /\ k.activated < i
                      /\ i \in DOMAIN rows' => rows'[i].sig.pub = k.pub
    BY <1>4 DEF SignedAfterActivation, Written
  <2>1. CASE i \in 1..n
    <3> DEFINE w == hash[i]
    <3>1. (head'.hash)[i] = w /\ w \in Content /\ w.key \in Version /\ i \in Nat
      <4>1. (head'.hash)[i] = w /\ w \in Content /\ i \in Nat
        BY <1>1, <1>4, <1>5, <2>1
      <4>2. w.key \in Version
        BY <4>1 DEF Content
      <4> QED BY <4>1, <4>2
    <3>2. /\ keys[w.key].status \in {"active", "retired"} /\ keys[w.key].activated < i
          /\ i \in DOMAIN rows => rows[i].sig.pub = keys[w.key].pub
      BY <2>1, <3>1 DEF SignedAfterActivation, Written
    <3>3. /\ keys'[w.key].status \in {"active", "retired"}
          /\ keys'[w.key].activated = keys[w.key].activated
          /\ keys'[w.key].pub = keys[w.key].pub
      BY <3>1, <3>2 DEF Lives, Unregistered
    <3>4. i \in DOMAIN rows' => i \in DOMAIN rows /\ rows'[i] = rows[i]
      BY <1>1, <1>6, <2>1
    <3> QED BY <3>1, <3>2, <3>3, <3>4
  <2>2. CASE i = n + 1
    <3>1. (head'.hash)[i] = x /\ x.key = c.version /\ x.op = op
      BY <1>4, <1>5, <2>2 DEF x
    <3>2. ActivatedBy(c.version, c.pub, n)
      BY <2>2, <3>1
    <3>3. /\ keys'[c.version].status \in {"active", "retired"}
          /\ keys'[c.version].activated = keys[c.version].activated
          /\ keys'[c.version].pub = c.pub /\ keys[c.version].activated \in Nat
          /\ keys[c.version].activated <= n
      BY <3>2 DEF Lives, ActivatedBy, Unregistered, KeyRow
    <3>4. keys'[c.version].activated < n + 1
      BY <1>1, <3>3
    <3> QED BY <1>2, <1>6, <2>2, <3>1, <3>3, <3>4
  <2> QED BY <1>1, <2>1, <2>2
<1> QED BY <1>4, <1>7, <1>8 DEF x

\* Running servers keep an activated key while the registry lives on.
LEMMA SignersKept ==
    ASSUME Tables, Signers, Lives, UNCHANGED signer, head'.no \in Nat, head.no <= head'.no
    PROVE  Signers'
<1>1. head.no \in Int
  BY DEF Tables
<1>2. ASSUME NEW s \in Server, signer[s] # None
      PROVE  ActivatedBy(signer[s].version, signer[s].pub, head.no)'
  <2>1. ActivatedBy(signer[s].version, signer[s].pub, head.no)
    BY <1>2 DEF Signers
  <2> QED BY <1>1, <2>1, ActivatedStays DEF ActivatedBy
<1> QED BY <1>2 DEF Signers

\* What was activated at the head or before, still is when the head has moved.
LEMMA ActivatedOn ==
    ASSUME Tables, Lives, head' = head \/ head'.no = head.no + 1, NEW v, NEW pub,
           ActivatedBy(v, pub, head.no)
    PROVE  ActivatedBy(v, pub, head.no)'
<1>1. PICK n \in Int, m \in Int : n = head.no /\ m = head'.no /\ n <= m
  BY DEF Tables
<1>2. ActivatedBy(v, pub, n)
  BY <1>1
<1>3. ActivatedBy(v, pub, m)'
  BY <1>1, <1>2, ActivatedStays
<1> QED BY <1>1, <1>3 DEF ActivatedBy

\* A command under way keeps its activated key, and the head that its entry was signed
\* on is still the head, or is past.
LEMMA CommandKept ==
    ASSUME Tables, Lives, head' = head \/ head'.no = head.no + 1, NEW k, Command(k)
    PROVE  Command(k)'
<1>0. head.no \in Nat /\ head'.no \in Nat /\ head.no <= head'.no
  BY DEF Tables
<1>1. CASE k = Idle
  BY <1>1 DEF Command
<1>2. CASE k \in Begun /\ k # Idle
  <2>1. /\ IF k.op = "event" THEN k.v = 0 /\ k.pc = "sign" ELSE k.v \in Version
        /\ ActivatedBy(k.by.version, k.by.pub, head.no)
    BY <1>2 DEF Command, Begun, Ready
  <2>2. ActivatedBy(k.by.version, k.by.pub, head.no)'
    BY <2>1, ActivatedOn
  <2> QED BY <1>2, <2>1, <2>2 DEF Command
<1>3. CASE k \in Ready /\ k # Idle
  <2>1. /\ IF k.op = "event" THEN k.v = 0 ELSE k.v \in Version
        /\ \E c \in Config, h \in [no : Nat, hash : History] :
             /\ k.entry = Signed(c, h, k.op, k.v)
             /\ h.no <= head.no
             /\ h.no = head.no => h = head
             /\ ActivatedBy(c.version, c.pub, head.no)
    BY <1>3 DEF Command, Begun, Ready
  <2>2. PICK c \in Config, h \in [no : Nat, hash : History] :
             /\ k.entry = Signed(c, h, k.op, k.v)
             /\ h.no <= head.no
             /\ h.no = head.no => h = head
             /\ ActivatedBy(c.version, c.pub, head.no)
    BY <2>1
  <2>3. ActivatedBy(c.version, c.pub, head.no)'
    BY <2>2, ActivatedOn
  <2>4. h.no <= head'.no /\ (h.no = head'.no => h = head')
    BY <1>0, <2>2
  <2> QED BY <1>3, <2>1, <2>2, <2>3, <2>4 DEF Command
<1> QED BY <1>1, <1>2, <1>3 DEF Command

\* So do all commands, when at most one of them takes a step.
LEMMA CommandsKept ==
    ASSUME Tables, Commands, Lives, head' = head \/ head'.no = head.no + 1,
           \/ UNCHANGED cmd
           \/ \E o \in Operator : \E k : cmd' = [cmd EXCEPT ![o] = k] /\ Command(k)'
    PROVE  Commands'
<1>1. DOMAIN cmd' = Operator
  BY DEF Commands
<1>2. ASSUME NEW q \in Operator PROVE Command(cmd[q])'
  <2>1. PICK k : k = cmd[q]
    OBVIOUS
  <2>2. Command(k)'
    BY <2>1, CommandKept DEF Commands
  <2>3. CASE cmd'[q] = cmd[q]
    BY <2>1, <2>2, <2>3 DEF Command, ActivatedBy
  <2>4. CASE cmd'[q] # cmd[q]
    <3>1. PICK o \in Operator : \E m : cmd' = [cmd EXCEPT ![o] = m] /\ Command(m)'
      BY <2>4
    <3>2. PICK m : cmd' = [cmd EXCEPT ![o] = m] /\ Command(m)'
      BY <3>1
    <3>3. cmd'[q] = m
      BY <2>4, <3>2 DEF Commands
    <3> QED BY <3>2, <3>3 DEF Command, ActivatedBy
  <2> QED BY <2>3, <2>4
<1> QED BY <1>1, <1>2 DEF Commands

\* A commit moves one key one step along its life.
LEMMA TransitionLives ==
    ASSUME Tables, NEW t \in Ready, t.v \in Version, t.entry.no = head.no + 1,
           \/ t.op = "create" /\ rpc_create(t)
           \/ t.op = "activate" /\ rpc_activate(t)
           \/ t.op = "retire" /\ rpc_retire(t)
    PROVE  Lives /\ keys' \in [Version -> KeyRow \cup {Unregistered}]
<1> DEFINE v == t.v
           k == keys[v]
           pub == t.pub
<1>0. /\ v \in Version /\ pub \in Material /\ k \in KeyRow \cup {Unregistered}
      /\ head.no + 1 \in Nat /\ keys \in [Version -> KeyRow \cup {Unregistered}]
  BY DEF Tables, Ready
<1>1. k.status \in {"created", "active", "retired"} => k \in KeyRow
  BY <1>0 DEF Unregistered
<1>2. CASE UNCHANGED keys
  BY <1>0, <1>2 DEF Lives
<1>3. ASSUME NEW r \in KeyRow, keys' = [keys EXCEPT ![v] = r],
             \/ k = Unregistered /\ r.status = "created"
             \/ /\ k \in KeyRow /\ k.status = "created" /\ r.status = "active"
                /\ r.pub = k.pub /\ r.activated = head.no + 1
             \/ /\ k \in KeyRow /\ k.status = "active" /\ r.status = "retired"
                /\ r.pub = k.pub /\ r.activated = k.activated
      PROVE  Lives /\ keys' \in [Version -> KeyRow \cup {Unregistered}]
  BY <1>0, <1>3 DEF Lives
<1>4. CASE rpc_create(t) /\ ~UNCHANGED keys
  <2> DEFINE r == [status |-> "created", pub |-> pub, activated |-> 0, retired |-> 0]
  <2>1. r \in KeyRow /\ r.status = "created"
    BY <1>0 DEF KeyRow
  <2>2. keys' = [keys EXCEPT ![v] = r] /\ k = Unregistered
    BY <1>0, <1>4 DEF rpc_create, KeyRow
  <2> QED BY <1>3, <2>1, <2>2
<1>5. CASE rpc_activate(t)
  <2> DEFINE n == t.entry.no
             r == [k EXCEPT !.status = "active", !.activated = n]
  <2>1. k.status = "created" /\ n \in Nat /\ n = head.no + 1
    BY <1>0, <1>5 DEF rpc_activate
  <2>2. keys' = [keys EXCEPT ![v] = r]
    BY <1>0, <1>5 DEF rpc_activate
  <2> HIDE DEF n
  <2>3. r \in KeyRow /\ r.status = "active" /\ r.pub = k.pub /\ r.activated = n
    BY <1>1, <2>1 DEF KeyRow
  <2> QED BY <1>1, <1>3, <2>1, <2>2, <2>3
<1>6. CASE rpc_retire(t)
  <2> DEFINE n == t.entry.no
             r == [k EXCEPT !.status = "retired", !.retired = n]
  <2>1. k.status = "active" /\ n \in Nat
    BY <1>0, <1>6 DEF rpc_retire
  <2>2. keys' = [keys EXCEPT ![v] = r]
    BY <1>0, <1>6 DEF rpc_retire
  <2> HIDE DEF n
  <2>3. r \in KeyRow /\ r.status = "retired" /\ r.pub = k.pub /\ r.activated = k.activated
    BY <1>1, <2>1 DEF KeyRow
  <2> QED BY <1>1, <1>3, <2>1, <2>2, <2>3
<1> QED BY <1>2, <1>4, <1>5, <1>6

\* A key that a process finds active has been activated at the head or before.
LEMMA ActiveIsActivated ==
    ASSUME Tables, NEW c \in Config, ensure_active(c)
    PROVE  ActivatedBy(c.version, c.pub, head.no)
<1>1. c.version \in Version
  BY VerifyAssumption
<1> QED BY <1>1 DEF Tables, ActivatedBy, ensure_active, Unregistered

\* Rows may be lost or altered: the signatures of the rest are what they were.
LEMMA QuietKept ==
    ASSUME Tables, SignedAfterActivation, UNCHANGED <<keys, head>>,
           DOMAIN rows' \subseteq DOMAIN rows,
           \A n \in DOMAIN rows' : rows'[n] \in Entry /\ rows'[n].sig = rows[n].sig
    PROVE  Tables' /\ SignedAfterActivation' /\ Lives
<1>1. Tables' /\ Lives
  BY DEF Tables, Lives
<1>2. SignedAfterActivation'
  BY DEF SignedAfterActivation, Written
<1> QED BY <1>1, <1>2

\* What a step does to keys and history: nothing, an append beside the registry,
\* or the commit of a command that was signed on the head.
Quiet == UNCHANGED <<keys, head>>
Adds(op, v) ==
    \E key \in Version : /\ head'.no = head.no + 1
                         /\ head'.hash = Append(head.hash, [op |-> op, v |-> v, key |-> key])
Beside == UNCHANGED keys /\ \E op \in {"event", "incident"} : Adds(op, 0)
Commits(k) ==
    /\ k.v \in Version /\ k.op \in {"create", "activate", "retire"}
    /\ Transition(k) /\ Adds(k.op, k.v)

\* A commit that goes through has an entry that was signed on the head it extends,
\* with a key that has been activated.
LEMMA CommitOnHead ==
    ASSUME Tables, NEW k \in Ready, Command(k), Transition(k)
    PROVE  /\ IF k.op = "event" THEN k.v = 0 ELSE k.v \in Version
           /\ \E c \in Config : /\ k.entry = Signed(c, head, k.op, k.v)
                                /\ ActivatedBy(c.version, c.pub, head.no)
<1>1. /\ IF k.op = "event" THEN k.v = 0 ELSE k.v \in Version
      /\ \E c \in Config, h \in [no : Nat, hash : History] :
           /\ k.entry = Signed(c, h, k.op, k.v)
           /\ h.no = head.no => h = head
           /\ ActivatedBy(c.version, c.pub, head.no)
  BY DEF Command, Begun, Ready, Idle
<1>2. PICK c \in Config, h \in [no : Nat, hash : History] :
           /\ k.entry = Signed(c, h, k.op, k.v)
           /\ h.no = head.no => h = head
           /\ ActivatedBy(c.version, c.pub, head.no)
  BY <1>1
<1>3. k.entry.no = h.no + 1
  BY <1>2 DEF Signed
<1>4. k.entry.no = head.no + 1 /\ head.no \in Nat
  BY DEF Transition, Tables
<1> QED BY <1>1, <1>2, <1>3, <1>4

\* An append beside the registry keeps the invariant.
LEMMA BesideKept ==
    ASSUME VInv, NEW c \in Config, NEW op \in {"event", "incident"},
           Store(Signed(c, head, op, 0)), UNCHANGED <<keys, signer>>,
           UNCHANGED cmd \/ \E o \in Operator : cmd' = [cmd EXCEPT ![o] = Idle],
           op # "incident" => ActivatedBy(c.version, c.pub, head.no)
    PROVE  VInv' /\ Beside
<1>1. Lives /\ keys' \in [Version -> KeyRow \cup {Unregistered}] /\ op \in Op
  BY DEF VInv, Tables, Lives, Op
<1>2. /\ Tables' /\ SignedAfterActivation' /\ head'.no = head.no + 1
      /\ head'.hash = Append(head.hash, [op |-> op, v |-> 0, key |-> c.version])
  BY <1>1, Appends DEF VInv
<1>3. head.no \in Nat /\ c.version \in Version
  BY VerifyAssumption DEF VInv, Tables
<1>4. Signers'
  BY <1>1, <1>2, <1>3, SignersKept DEF VInv
<1>5. Command(Idle)'
  BY DEF Command
<1>6. Commands'
  BY <1>1, <1>2, <1>5, CommandsKept DEF VInv
<1> QED BY <1>2, <1>3, <1>4, <1>6 DEF VInv, Beside, Adds

\* A step that leaves registry, history and signatures keeps the invariant, when
\* servers and commands have their keys.
LEMMA QuietStep ==
    ASSUME VInv, UNCHANGED <<keys, head>>,
           DOMAIN rows' \subseteq DOMAIN rows,
           \A n \in DOMAIN rows' : rows'[n] \in Entry /\ rows'[n].sig = rows[n].sig,
           UNCHANGED signer \/ Signers',
           \/ UNCHANGED cmd
           \/ \E o \in Operator : \E k : cmd' = [cmd EXCEPT ![o] = k] /\ Command(k)'
    PROVE  VInv' /\ Quiet
<1>1. Tables' /\ SignedAfterActivation' /\ Lives
  BY QuietKept DEF VInv
<1>2. head.no \in Nat
  BY DEF VInv, Tables
<1>3. Signers'
  BY <1>1, <1>2, SignersKept DEF VInv
<1>4. Commands'
  BY <1>1, CommandsKept DEF VInv
<1> QED BY <1>1, <1>3, <1>4 DEF VInv, Quiet

\* Every step keeps the invariant, and is quiet, an append or a commit.
LEMMA VerifyStep ==
    ASSUME VInv, [Next]_vars
    PROVE  VInv' /\ (Quiet \/ Beside \/ \E o \in Operator : Commits(cmd[o]))
<1>0. Tables /\ Signers /\ Commands
  BY DEF VInv
<1>1. UNCHANGED rows =>
         /\ DOMAIN rows' \subseteq DOMAIN rows
         /\ \A n \in DOMAIN rows' : rows'[n] \in Entry /\ rows'[n].sig = rows[n].sig
  BY <1>0 DEF Tables
<1>2. CASE UNCHANGED vars
  BY <1>1, <1>2, QuietStep DEF vars
<1>3. ASSUME NEW s \in Server, NEW c \in Config, Start(s, c) PROVE VInv' /\ Quiet
  <2>1. ActivatedBy(c.version, c.pub, head.no)
    BY <1>0, <1>3, ActiveIsActivated DEF Start
  <2>2. signer' \in [Server -> Config \cup {None}]
    BY <1>0, <1>3 DEF Start, Signers
  <2>3. ASSUME NEW z \in Server, signer'[z] # None
        PROVE  ActivatedBy(signer'[z].version, signer'[z].pub, head.no)
    BY <1>0, <1>3, <2>1, <2>3 DEF Start, Signers
  <2>4. Signers'
    BY <1>3, <2>2, <2>3 DEF Start, Signers, ActivatedBy
  <2> QED BY <1>1, <1>3, <2>4, QuietStep DEF Start
<1>4. ASSUME NEW s \in Server, Stop(s) PROVE VInv' /\ Quiet
  <2>1. Signers'
    BY <1>0, <1>4 DEF Stop, Signers, ActivatedBy
  <2> QED BY <1>1, <1>4, <2>1, QuietStep DEF Stop
<1>5. ASSUME NEW s \in Server, ServerAppend(s) PROVE VInv' /\ Beside
  <2>1. /\ signer[s] \in Config
        /\ ActivatedBy(signer[s].version, signer[s].pub, head.no)
    BY <1>0, <1>5 DEF ServerAppend, Signers
  <2> QED BY <1>5, <2>1, BesideKept DEF ServerAppend
<1>6. ASSUME NEW c \in Config, DigestVerifyIncident(c) PROVE VInv' /\ Beside
  BY <1>6, BesideKept DEF DigestVerifyIncident
<1>7. ASSUME NEW o \in Operator, NEW c \in Config, NEW v \in Version \cup {0}, NEW pub \in Material,
             NEW op \in {"create", "activate", "retire", "event"},
             IF op = "event" THEN v = 0 ELSE v \in Version,
             Begin(o, op, v, pub, c)
      PROVE  VInv' /\ Quiet
  <2>1. ActivatedBy(c.version, c.pub, head.no) /\ UNCHANGED <<keys, head, rows, signer>>
    BY <1>0, <1>7, ActiveIsActivated DEF Begin
  <2>2. PICK pc \in {"status", "sign"} :
           /\ op = "event" => pc = "sign"
           /\ cmd' = [cmd EXCEPT ![o] = [pc |-> pc, op |-> op, v |-> v, pub |-> pub, by |-> c]]
    BY <1>7 DEF Begin
  <2> DEFINE k == [pc |-> pc, op |-> op, v |-> v, pub |-> pub, by |-> c]
  <2>3. /\ k \in Begun /\ k.by = c
        /\ IF k.op = "event" THEN k.v = 0 /\ k.pc = "sign" ELSE k.v \in Version
    BY <1>7, <2>2 DEF Begun
  <2>4. cmd' = [cmd EXCEPT ![o] = k]
    BY <2>2
  <2> HIDE DEF k
  <2>5. Command(k)'
    BY <2>1, <2>3 DEF Command, ActivatedBy
  <2> QED BY <1>1, <2>1, <2>4, <2>5, QuietStep
<1>8. ASSUME NEW o \in Operator,
             get_ledger_signing_public_key_status(o) \/ sign_signature_key_ledger_entry(o) \/ GiveUp(o)
      PROVE  VInv' /\ Quiet
  <2>1. PICK k : k = cmd[o]
    OBVIOUS
  <2>2. Command(k) /\ UNCHANGED <<keys, head, rows, signer>>
    BY <1>0, <1>8, <2>1 DEF Commands, get_ledger_signing_public_key_status,
       sign_signature_key_ledger_entry, GiveUp
  <2>3. k.pc \in {"status", "sign"} =>
           /\ k \in Begun
           /\ IF k.op = "event" THEN k.v = 0 ELSE k.v \in Version
           /\ ActivatedBy(k.by.version, k.by.pub, head.no)
    BY <2>2 DEF Command, Ready, Idle
  <2>4. CASE get_ledger_signing_public_key_status(o)
    <3>0. PICK pub, m : pub = keys[k.v].pub /\ m = [k EXCEPT !.pc = "sign", !.pub = pub]
      OBVIOUS
    <3>1. k.pc = "status" /\ keys[k.v].status # "none" /\ cmd' = [cmd EXCEPT ![o] = m]
      BY <1>0, <2>1, <2>4, <3>0 DEF get_ledger_signing_public_key_status, Commands
    <3>2. k \in Begun /\ ActivatedBy(k.by.version, k.by.pub, head.no)
      BY <2>3, <3>1
    <3>3. pub \in Material
      <4>1. k.op # "event"
        BY <1>0, <2>1, <3>1 DEF Commands, Command, Begun, Ready, Idle
      <4>2. k.v \in Version
        BY <2>3, <3>1, <4>1
      <4> QED BY <1>0, <3>0, <3>1, <4>2 DEF Tables, Unregistered, KeyRow
    <3>4. m \in Begun /\ m.by = k.by /\ m.op = k.op /\ m.v = k.v /\ m.pc = "sign"
      BY <3>0, <3>2, <3>3 DEF Begun
    <3>5. Command(m)'
      <4>1. m.pc = "sign" /\ IF m.op = "event" THEN m.v = 0 ELSE m.v \in Version
        BY <2>3, <3>1, <3>4
      <4>2. ActivatedBy(m.by.version, m.by.pub, head.no)'
        BY <2>2, <3>2, <3>4 DEF ActivatedBy
      <4> QED BY <3>4, <4>1, <4>2 DEF Command
    <3> QED BY <1>1, <2>2, <3>1, <3>5, QuietStep
  <2>5. CASE sign_signature_key_ledger_entry(o)
    <3>0. PICK e, m :
             /\ e = Signed(k.by, head, k.op, k.v)
             /\ m = [pc |-> "commit", op |-> k.op, v |-> k.v, pub |-> k.pub, entry |-> e]
      OBVIOUS
    <3>1. k.pc = "sign" /\ cmd' = [cmd EXCEPT ![o] = m]
      BY <2>1, <2>5, <3>0 DEF sign_signature_key_ledger_entry
    <3>2. k \in Begun /\ ActivatedBy(k.by.version, k.by.pub, head.no)
      BY <2>3, <3>1
    <3>3. /\ head \in [no : Nat, hash : History] /\ k.op \in Op /\ k.v \in Version \cup {0}
          /\ k.by \in Config
      BY <1>0, <3>2 DEF Tables, Op, Begun
    <3>4. e \in Entry
      BY <3>0, <3>3, SignedEntry
    <3>5. /\ m \in Ready /\ m.entry = e /\ m.op = k.op /\ m.v = k.v
      BY <3>0, <3>2, <3>4 DEF Begun, Ready
    <3>6. IF k.op = "event" THEN k.v = 0 ELSE k.v \in Version
      BY <2>3, <3>1
    <3>7. ActivatedBy(k.by.version, k.by.pub, head.no)' /\ head' = head /\ head.no <= head.no
      BY <2>2, <3>2, <3>3 DEF ActivatedBy
    <3>8. Command(m)'
      <4>1. PICK h : h = head
        OBVIOUS
      <4>2. /\ m.entry = Signed(k.by, h, m.op, m.v) /\ h \in [no : Nat, hash : History]
            /\ h.no <= head'.no /\ (h.no = head'.no => h = head')
        BY <3>0, <3>3, <3>5, <3>7, <4>1
      <4> QED BY <3>3, <3>5, <3>6, <3>7, <4>2 DEF Command
    <3> QED BY <1>1, <2>2, <3>1, <3>8, QuietStep
  <2>6. CASE GiveUp(o)
    <3>1. Command(Idle)'
      BY DEF Command
    <3> QED BY <1>1, <2>2, <2>6, <3>1, QuietStep DEF GiveUp
  <2> QED BY <1>8, <2>4, <2>5, <2>6
<1>9. ASSUME NEW o \in Operator, Commit(o) PROVE VInv' /\ (Beside \/ Commits(cmd[o]))
  <2>1. PICK k : k = cmd[o]
    OBVIOUS
  <2> DEFINE op == k.op
             v == k.v
  <2>2. Transition(k) /\ cmd' = [cmd EXCEPT ![o] = Idle] /\ UNCHANGED signer /\ Command(k)
    BY <1>0, <1>9, <2>1 DEF Commit, Commands
  <2>3. k \in Ready /\ op \in Op
    BY <1>9, <2>1, <2>2 DEF Commit, Command, Begun, Ready, Idle, Op
  <2>4. PICK c \in Config : /\ k.entry = Signed(c, head, op, v)
                            /\ ActivatedBy(c.version, c.pub, head.no)
    BY <1>0, <2>2, <2>3, CommitOnHead
  <2>5. IF op = "event" THEN v = 0 ELSE v \in Version
    BY <1>0, <2>2, <2>3, CommitOnHead
  <2>6. Store(Signed(c, head, op, v))
    BY <2>2, <2>4 DEF Transition
  <2>7. CASE op = "event"
    <3>1. UNCHANGED keys
      BY <2>2, <2>7 DEF Transition, record_verify_all_result
    <3>2. Store(Signed(c, head, "event", 0))
      BY <2>5, <2>6, <2>7
    <3> QED BY <2>2, <2>4, <3>1, <3>2, BesideKept
  <2>8. CASE op # "event"
    <3>1. /\ v \in Version /\ op \in {"create", "activate", "retire"}
          /\ k.entry.no = head.no + 1
      BY <2>2, <2>3, <2>5, <2>8 DEF Ready, Transition
    <3>2. \/ op = "create" /\ rpc_create(k)
          \/ op = "activate" /\ rpc_activate(k)
          \/ op = "retire" /\ rpc_retire(k)
      BY <2>2, <2>8 DEF Transition, record_verify_all_result
    <3>3. Lives /\ keys' \in [Version -> KeyRow \cup {Unregistered}]
      BY <1>0, <2>3, <3>1, <3>2, TransitionLives
    <3>4. /\ Tables' /\ SignedAfterActivation' /\ head'.no = head.no + 1
          /\ head'.hash = Append(head.hash, [op |-> op, v |-> v, key |-> c.version])
      BY <2>3, <2>4, <2>6, <3>1, <3>3, Appends DEF VInv
    <3>5. head.no \in Nat /\ c.version \in Version
      BY <1>0, VerifyAssumption DEF Tables
    <3>6. Signers'
      BY <1>0, <2>2, <3>3, <3>4, <3>5, SignersKept
    <3>7. Command(Idle)'
      BY DEF Command
    <3>8. Commands'
      BY <1>0, <2>2, <3>3, <3>4, <3>7, CommandsKept
    <3>9. Commits(k)
      BY <2>2, <3>1, <3>4, <3>5 DEF Commits, Adds
    <3> QED BY <2>1, <3>4, <3>6, <3>8, <3>9 DEF VInv
  <2> QED BY <2>7, <2>8
<1>10. CASE fetch_ledger_chain_head \/ Export
  BY <1>1, <1>10, QuietStep DEF fetch_ledger_chain_head, Export
<1>11. ASSUME NEW n \in DOMAIN rows, Alter(n) PROVE VInv' /\ Quiet
  <2> DEFINE r == rows[n]
             e == [r EXCEPT !.op = "altered"]
  <2>1. r \in Entry
    BY <1>0 DEF Tables
  <2>2. e \in Entry /\ e.sig = r.sig
    BY <2>1 DEF Entry, Op
  <2>3. PICK h \in {e.hash, recompute_entry_hash(e)} : rows' = [rows EXCEPT ![n] = [e EXCEPT !.hash = h]]
    BY <1>11 DEF Alter
  <2> HIDE DEF e
  <2>4. h \in History
    <3> DEFINE x == [op |-> e.op, v |-> e.v, key |-> e.key]
    <3>1. x \in Content /\ e.hash \in History /\ e.prev \in Seq(Content)
      BY <2>2 DEF Entry, Content, History
    <3> HIDE DEF x
    <3>2. Append(e.prev, x) \in History
      BY <3>1 DEF History
    <3> QED BY <2>3, <3>1, <3>2 DEF recompute_entry_hash, canonical_payload, x
  <2>5. [e EXCEPT !.hash = h] \in Entry /\ [e EXCEPT !.hash = h].sig = r.sig
    BY <2>2, <2>4 DEF Entry
  <2>6. /\ DOMAIN rows' = DOMAIN rows
        /\ \A i \in DOMAIN rows' : rows'[i] \in Entry /\ rows'[i].sig = rows[i].sig
    BY <1>0, <2>3, <2>5 DEF Tables
  <2> QED BY <1>11, <2>6, QuietStep DEF Alter
<1>12. ASSUME NEW n \in DOMAIN rows, Lose(n) PROVE VInv' /\ Quiet
  <2>1. /\ DOMAIN rows' \subseteq DOMAIN rows
        /\ \A i \in DOMAIN rows' : rows'[i] \in Entry /\ rows'[i].sig = rows[i].sig
    BY <1>0, <1>12 DEF Lose, Restrict, Tables
  <2> QED BY <1>12, <2>1, QuietStep DEF Lose
<1>13. ASSUME NEW o \in Operator, NEW c \in Config,
              \/ verify_all(o, c)
              \/ \E v \in Version : \/ \E pub \in Material : create(o, v, pub, c)
                                    \/ activate(o, v, c) \/ retire(o, v, c)
       PROVE  VInv' /\ Quiet
  <2>1. c.pub \in Material
    BY VerifyAssumption
  <2>2. CASE verify_all(o, c)
    BY <1>7, <2>1, <2>2 DEF verify_all
  <2>3. ASSUME NEW v \in Version,
               (\E pub \in Material : create(o, v, pub, c)) \/ activate(o, v, c) \/ retire(o, v, c)
        PROVE  VInv' /\ Quiet
    BY <1>7, <2>1, <2>3 DEF create, activate, retire
  <2> QED BY <1>13, <2>2, <2>3
<1> QED BY <1>2, <1>3, <1>4, <1>5, <1>6, <1>8, <1>9, <1>10, <1>11, <1>12, <1>13 DEF Next

\* Every entry but the incidents of digest verify is signed with a key that was
\* activated before, and with the registered key pair.
THEOREM ActivatedBeforeSigning == Spec => []SignedAfterActivation
<1>1. VInv => SignedAfterActivation
  BY DEF VInv
<1> QED BY <1>1, VerifyInit, VerifyStep, PTL DEF Spec

-----------------------------------------------------------------------------
\* The entries that tell of an operation on version v.
Told(op, v) == {n \in 1 .. head.no : Written(n).op = op /\ Written(n).v = v}

\* An append adds its number to the entries of its operation, and to no other.
LEMMA ToldGrows ==
    ASSUME Tables, NEW p \in Op, NEW w \in Version \cup {0}, Adds(p, w), NEW op, NEW v
    PROVE  /\ IsFiniteSet(Told(op, v)) /\ Cardinality(Told(op, v)) \in Nat
           /\ Cardinality(Told(op, v)') =
                 IF op = p /\ v = w THEN Cardinality(Told(op, v)) + 1 ELSE Cardinality(Told(op, v))
<1> DEFINE n == head.no
           hash == head.hash
           T == Told(op, v)
<1>1. n \in Nat /\ hash \in Seq(Content) /\ Len(hash) = n
  BY DEF Tables, History
<1>2. PICK key \in Version : /\ head'.no = n + 1
                             /\ head'.hash = Append(hash, [op |-> p, v |-> w, key |-> key])
  BY DEF Adds
<1> DEFINE x == [op |-> p, v |-> w, key |-> key]
<1>3. x \in Content /\ x.op = p /\ x.v = w
  BY DEF Content
<1>4. head'.hash = Append(hash, x)
  BY <1>2
<1> HIDE DEF x
<1>5. (head'.hash)[n + 1] = x /\ \A i \in 1..n : (head'.hash)[i] = hash[i]
  BY <1>1, <1>3, <1>4
<1>6. IsFiniteSet(T) /\ Cardinality(T) \in Nat /\ n + 1 \notin T
  <2>1. IsFiniteSet(1..n)
    BY <1>1, FS_Interval
  <2>2. T \subseteq 1..n
    BY DEF Told
  <2>3. IsFiniteSet(T)
    BY <2>1, <2>2, FS_Subset
  <2> QED BY <1>1, <2>2, <2>3, FS_CardinalityType
<1>7. \A i : i \in 1..(n + 1) <=> i \in 1..n \/ i = n + 1
  BY <1>1
<1>8. \A i : i \in Told(op, v)' <=> \/ i \in 1..n /\ hash[i].op = op /\ hash[i].v = v
                                    \/ i = n + 1 /\ x.op = op /\ x.v = v
  <2>1. Told(op, v)' = {i \in 1..(n + 1) : (head'.hash)[i].op = op /\ (head'.hash)[i].v = v}
    BY <1>2 DEF Told, Written
  <2>2. ASSUME NEW i \in 1..n
        PROVE  i \in Told(op, v)' <=> hash[i].op = op /\ hash[i].v = v
    BY <1>5, <1>7, <2>1
  <2>3. n + 1 \in Told(op, v)' <=> x.op = op /\ x.v = v
    BY <1>5, <1>7, <2>1
  <2>4. n + 1 \notin 1..n /\ \A i : i \in Told(op, v)' => i \in 1..n \/ i = n + 1
    BY <1>1, <1>7, <2>1
  <2> QED BY <2>2, <2>3, <2>4
<1>9. CASE op = p /\ v = w
  <2>1. Told(op, v)' = T \cup {n + 1}
    BY <1>3, <1>8, <1>9 DEF Told, Written
  <2> HIDE DEF T
  <2>2. Cardinality(T \cup {n + 1}) = Cardinality(T) + 1
    BY <1>6, FS_AddElement
  <2> QED BY <1>6, <1>9, <2>1, <2>2 DEF T
<1>10. CASE ~(op = p /\ v = w)
  <2>1. \A i : i \in Told(op, v)' <=> i \in T
    <3>1. ~(x.op = op /\ x.v = v)
      BY <1>3, <1>10
    <3> QED BY <1>8, <3>1 DEF Told, Written
  <2>2. Told(op, v)' = T
    BY <2>1 DEF Told
  <2> QED BY <1>6, <1>10, <2>2
<1> QED BY <1>9, <1>10

\* The ledger says of version v what the registry says.
Ledgered(v) ==
    /\ keys[v].status # "none" <=> Cardinality(Told("create", v)) > 0
    /\ Cardinality(Told("activate", v)) = IF keys[v].status \in {"active", "retired"} THEN 1 ELSE 0
    /\ Cardinality(Told("retire", v)) = IF keys[v].status = "retired" THEN 1 ELSE 0

\* LifecycleIsLedgered, version by version.
LEMMA LedgeredEach == LifecycleIsLedgered <=> \A v \in Version \ {Bootstrap} : Ledgered(v)
BY DEF LifecycleIsLedgered, Ledgered, Told

\* A commit writes the entry of the one transition that it makes.
LEMMA CommitLedgered ==
    ASSUME Tables, NEW t, Commits(t), NEW v \in Version, Ledgered(v) PROVE Ledgered(v)'
<1> DEFINE p == t.op
           w == t.v
           k == keys[v].status
           Count(op) == Cardinality(Told(op, v))
           More(op) == IF op = p /\ v = w THEN Count(op) + 1 ELSE Count(op)
<1>1. p \in {"create", "activate", "retire"} /\ w \in Version /\ p \in Op /\ Adds(p, w)
  BY DEF Commits, Transition, Op
<1>2. \A op \in {"create", "activate", "retire"} :
         Count(op) \in Nat /\ Cardinality(Told(op, v)') = More(op)
  BY <1>1, ToldGrows
<1>3. /\ k # "none" <=> Count("create") > 0
      /\ Count("activate") = IF k \in {"active", "retired"} THEN 1 ELSE 0
      /\ Count("retire") = IF k = "retired" THEN 1 ELSE 0
  BY DEF Ledgered
<1>4. keys \in [Version -> KeyRow \cup {Unregistered}]
  BY DEF Tables
<1>5. v # w => keys'[v] = keys[v]
  BY <1>1, <1>4 DEF Commits, Transition, rpc_create, rpc_activate, rpc_retire,
     record_verify_all_result
<1>6. v = w => \/ p = "create" /\ k \in {"none", "created"} /\ keys'[v].status = "created"
               \/ p = "activate" /\ k = "created" /\ keys'[v].status = "active"
               \/ p = "retire" /\ k = "active" /\ keys'[v].status = "retired"
  <2>1. k \in {"created", "active"} => keys[v] \in KeyRow
    BY <1>4 DEF Unregistered
  <2>2. CASE p = "create" /\ rpc_create(t)
    BY <1>4, <2>2 DEF rpc_create
  <2>3. CASE p = "activate" /\ rpc_activate(t)
    BY <1>4, <2>1, <2>3 DEF rpc_activate, KeyRow
  <2>4. CASE p = "retire" /\ rpc_retire(t)
    BY <1>4, <2>1, <2>4 DEF rpc_retire, KeyRow
  <2> QED BY <2>2, <2>3, <2>4 DEF Commits, Transition, record_verify_all_result
<1> HIDE DEF p, w, k, Count
<1>7. /\ keys'[v].status # "none" <=> More("create") > 0
      /\ More("activate") = IF keys'[v].status \in {"active", "retired"} THEN 1 ELSE 0
      /\ More("retire") = IF keys'[v].status = "retired" THEN 1 ELSE 0
  <2>1. CASE v # w
    BY <1>2, <1>3, <1>5, <2>1 DEF k
  <2>2. CASE v = w
    BY <1>2, <1>3, <1>6, <2>2
  <2> QED BY <2>1, <2>2
<1> QED BY <1>2, <1>7 DEF Ledgered

\* The registry and the ledger tell the same of every key but the first, whose
\* registration is older than the ledger: each status has the entries that led there.
THEOREM RegistryIsLedgered == Spec => []LifecycleIsLedgered
<1>1. Init => LifecycleIsLedgered
  <2> SUFFICES ASSUME Init, NEW v \in Version \ {Bootstrap} PROVE Ledgered(v)
    BY LedgeredEach
  <2>1. keys[v].status = "none" /\ head.no = 0
    BY DEF Init, Unregistered, Genesis
  <2>2. \A op : Told(op, v) = {}
    BY <2>1 DEF Told
  <2> QED BY <2>1, <2>2, FS_EmptySet DEF Ledgered
<1>2. ASSUME VInv, LifecycleIsLedgered, [Next]_vars PROVE LifecycleIsLedgered'
  <2> SUFFICES ASSUME NEW v \in Version \ {Bootstrap} PROVE Ledgered(v)'
    BY DEF LifecycleIsLedgered, Ledgered, Told
  <2>1. Ledgered(v) /\ Tables /\ v \in Version
    BY <1>2, LedgeredEach DEF VInv
  <2>2. CASE Quiet
    BY <2>1, <2>2 DEF Quiet, Ledgered, Told, Written
  <2>3. CASE Beside
    <3>1. PICK p \in {"event", "incident"} : Adds(p, 0)
      BY <2>3 DEF Beside
    <3>2. p \in Op /\ 0 \in Version \cup {0}
      BY <3>1 DEF Op
    <3>3. \A op \in {"create", "activate", "retire"} :
             Cardinality(Told(op, v)') = Cardinality(Told(op, v))
      BY <2>1, <3>1, <3>2, ToldGrows
    <3> QED BY <2>1, <2>3, <3>3 DEF Beside, Ledgered
  <2>4. CASE \E o \in Operator : Commits(cmd[o])
    BY <2>1, <2>4, CommitLedgered
  <2> QED BY <1>2, <2>2, <2>3, <2>4, VerifyStep
<1> QED BY <1>1, <1>2, VerifyInit, VerifyStep, PTL DEF Spec

-----------------------------------------------------------------------------
(* The rows, and what verification says of them *)

\* The ledger as it was written up to entry n.
UpTo(n) == SubSeq(head.hash, 1, n)

\* A row has the number, the previous hash, the key and the signature it was written
\* with; it has the content and the hash it was written with, or was altered.
IsRow(n) ==
    LET r == rows[n] IN
    /\ r.no = n /\ r.prev = UpTo(n - 1) /\ r.sig.of = UpTo(n)
    /\ r.v = Written(n).v /\ r.key = Written(n).key
    /\ r.op = "altered" \/ (r.op = Written(n).op /\ r.hash = UpTo(n))

\* Every row is of that kind, no entry was written with the content of an altered
\* one, and the head that a verification has fetched is one that the ledger had.
RowsInv ==
    /\ \A n \in DOMAIN rows : IsRow(n)
    /\ \A n \in 1 .. head.no : Written(n).op # "altered"
    /\ ver.no \in 0 .. head.no /\ ver = [no |-> ver.no, hash |-> UpTo(ver.no)]

\* What a history was up to an entry: nothing before the first, all of it at the
\* last, and entry by entry one content more.
LEMMA Prefixes ==
    ASSUME NEW h \in History
    PROVE  /\ SubSeq(h, 1, 0) = <<>> /\ SubSeq(h, 1, Len(h)) = h
           /\ \A n \in 1 .. Len(h) : SubSeq(h, 1, n) = Append(SubSeq(h, 1, n - 1), h[n])
<1>1. h \in Seq(Content)
  BY DEF History
<1>2. ASSUME NEW n \in 1 .. Len(h)
      PROVE  SubSeq(h, 1, n) = Append(SubSeq(h, 1, n - 1), h[n])
  <2> DEFINE p == SubSeq(h, 1, n - 1)
             q == SubSeq(h, 1, n)
  <2>1. n \in Nat /\ n - 1 \in Nat /\ Len(h) \in Nat /\ n <= Len(h)
    BY <1>1
  <2>2. p \in Seq(Content) /\ Len(p) = n - 1 /\ \A i \in 1 .. n - 1 : p[i] = h[i]
    BY <1>1, <2>1
  <2>3. q \in Seq(Content) /\ Len(q) = n /\ \A i \in 1 .. n : q[i] = h[i]
    BY <1>1, <2>1
  <2>4. h[n] \in Content
    BY <1>1
  <2> HIDE DEF p, q
  <2>5. Append(p, h[n]) \in Seq(Content) /\ Len(Append(p, h[n])) = n
    BY <2>1, <2>2, <2>4
  <2>6. \A i \in 1 .. n : Append(p, h[n])[i] = q[i]
    BY <2>1, <2>2, <2>3, <2>4
  <2>7. q = Append(p, h[n])
    BY <2>3, <2>5, <2>6
  <2> QED BY <2>7 DEF p, q
<1> QED BY <1>1, <1>2

\* An append leaves what the history was before.
LEMMA PrefixesStay ==
    ASSUME NEW h \in History, NEW x \in Content
    PROVE  \A n \in 0 .. Len(h) : SubSeq(Append(h, x), 1, n) = SubSeq(h, 1, n)
<1>1. h \in Seq(Content) /\ Append(h, x) \in Seq(Content) /\ Len(Append(h, x)) = Len(h) + 1
  BY DEF History
<1>2. \A i \in 1 .. Len(h) : Append(h, x)[i] = h[i]
  BY <1>1
<1> QED BY <1>1, <1>2

\* A new entry is written as it was signed, and what was written before stays.
LEMMA RowsAppend ==
    ASSUME Tables, RowsInv, NEW c \in Config, NEW op \in Op \ {"altered"},
           NEW v \in Version \cup {0}, Store(Signed(c, head, op, v)), UNCHANGED ver
    PROVE  RowsInv'
<1> DEFINE e == Signed(c, head, op, v)
           x == [op |-> op, v |-> v, key |-> c.version]
           n == head.no
           hash == head.hash
           more == Append(hash, x)
<1>1. n \in Nat /\ hash \in History /\ Len(hash) = n /\ head \in [no : Nat, hash : History]
  BY DEF Tables
<1>2. x \in Content /\ e \in Entry /\ e.no = n + 1 /\ e.hash = more
  BY <1>1, SignedEntry
<1>3. e.prev = hash /\ e.op = x.op /\ e.v = x.v /\ e.key = x.key /\ e.sig.of = more
  BY DEF Signed, canonical_payload
<1>4. x.op # "altered"
  OBVIOUS
<1> HIDE DEF e, x
<1>5. /\ head' = [no |-> e.no, hash |-> e.hash]
      /\ rows' = [i \in DOMAIN rows \cup {e.no} |-> IF i = e.no THEN e ELSE rows[i]]
  BY DEF Store, e
<1>6. head'.no = n + 1 /\ head'.hash = more
  BY <1>2, <1>5
<1>7. more \in History /\ Len(more) = n + 1 /\ more[n + 1] = x
  BY <1>1, <1>2 DEF History
<1>8. \A i \in 1 .. n : more[i] = hash[i]
  BY <1>1, <1>2 DEF History
<1>9. \A i \in 0 .. n : SubSeq(more, 1, i) = SubSeq(hash, 1, i)
  BY <1>1, <1>2, PrefixesStay
<1>10. SubSeq(more, 1, n) = hash /\ SubSeq(more, 1, n + 1) = more
  BY <1>1, <1>7, <1>9, Prefixes
<1>11. /\ DOMAIN rows' = DOMAIN rows \cup {n + 1}
       /\ rows'[n + 1] = e
       /\ \A i \in DOMAIN rows : rows'[i] = rows[i] /\ i \in 1 .. n
  BY <1>1, <1>2, <1>5 DEF Tables
<1> HIDE DEF more
<1>12. ASSUME NEW i \in DOMAIN rows' PROVE IsRow(i)'
  <2>1. CASE i = n + 1
    <3>1. (n + 1) - 1 = n
      BY <1>1
    <3> QED BY <1>2, <1>3, <1>6, <1>7, <1>10, <1>11, <2>1, <3>1 DEF IsRow, UpTo, Written
  <2>2. CASE i # n + 1
    <3>1. i \in DOMAIN rows /\ rows'[i] = rows[i] /\ i \in 1 .. n
      BY <1>11, <2>2
    <3>2. SubSeq(more, 1, i) = SubSeq(hash, 1, i) /\ SubSeq(more, 1, i - 1) = SubSeq(hash, 1, i - 1)
      BY <1>1, <1>9, <3>1
    <3>3. more[i] = hash[i]
      BY <1>8, <3>1
    <3>4. IsRow(i)
      BY <3>1 DEF RowsInv
    <3> QED BY <1>6, <3>1, <3>2, <3>3, <3>4 DEF IsRow, UpTo, Written
  <2> QED BY <2>1, <2>2
<1>13. ASSUME NEW i \in 1 .. (n + 1) PROVE more[i].op # "altered"
  <2>1. i \in 1 .. n \/ i = n + 1
    BY <1>1
  <2> QED BY <1>4, <1>7, <1>8, <2>1 DEF RowsInv, Written
<1>14. ver.no \in 0 .. n + 1 /\ ver = [no |-> ver.no, hash |-> SubSeq(more, 1, ver.no)]
  <2>1. ver.no \in 0 .. n /\ ver = [no |-> ver.no, hash |-> SubSeq(hash, 1, ver.no)]
    BY DEF RowsInv, UpTo
  <2>2. ver.no \in 0 .. n + 1
    BY <1>1, <2>1
  <2> QED BY <1>9, <2>1, <2>2
<1> QED BY <1>6, <1>12, <1>13, <1>14 DEF RowsInv, Written, UpTo

\* Steps that leave the history leave what is said of every row they leave.
LEMMA RowsStay ==
    ASSUME RowsInv, UNCHANGED head, DOMAIN rows' \subseteq DOMAIN rows,
           \A n \in DOMAIN rows' : rows'[n] = rows[n] \/ IsRow(n)',
           UNCHANGED ver \/ (ver.no \in 0 .. head.no /\ ver = [no |-> ver.no, hash |-> UpTo(ver.no)])'
    PROVE  RowsInv'
<1>1. ASSUME NEW n \in DOMAIN rows' PROVE IsRow(n)'
  <2>1. IsRow(n)
    BY DEF RowsInv
  <2> QED BY <2>1 DEF IsRow, UpTo, Written
<1>2. (ver.no \in 0 .. head.no /\ ver = [no |-> ver.no, hash |-> UpTo(ver.no)])'
  BY DEF RowsInv, UpTo
<1>3. \A n \in 1 .. head'.no : Written(n)'.op # "altered"
  BY DEF RowsInv, Written
<1> QED BY <1>1, <1>2, <1>3 DEF RowsInv

\* The rows, the history and a fetched head are what RowsInv says in every state.
LEMMA RowsInit == Init => RowsInv
<1> SUFFICES ASSUME Init PROVE RowsInv
  OBVIOUS
<1>1. head = [no |-> 0, hash |-> <<>>] /\ ver = [no |-> 0, hash |-> <<>>] /\ DOMAIN rows = {}
  BY DEF Init, Genesis
<1>2. <<>> \in History
  BY DEF History
<1>3. UpTo(0) = <<>>
  BY <1>1, <1>2, Prefixes DEF UpTo
<1>4. ver.no = 0 /\ head.no = 0
  BY <1>1
<1> QED BY <1>1, <1>3, <1>4 DEF RowsInv

\* Every step keeps that.
LEMMA RowsStep ==
    ASSUME VInv, RowsInv, [Next]_vars PROVE RowsInv'
<1>0. Tables /\ Signers /\ Commands
  BY DEF VInv
<1>1. CASE UNCHANGED <<head, rows, ver>>
  BY <1>1, RowsStay
<1>2. ASSUME NEW c \in Config, NEW op \in {"event", "incident"},
             Store(Signed(c, head, op, 0)), UNCHANGED ver
      PROVE  RowsInv'
  <2>1. op \in Op \ {"altered"}
    BY DEF Op
  <2> QED BY <1>0, <1>2, <2>1, RowsAppend
<1>3. ASSUME NEW s \in Server, ServerAppend(s) PROVE RowsInv'
  <2>1. signer[s] \in Config
    BY <1>0, <1>3 DEF ServerAppend, Signers
  <2> QED BY <1>2, <1>3, <2>1 DEF ServerAppend
<1>4. ASSUME NEW c \in Config, DigestVerifyIncident(c) PROVE RowsInv'
  BY <1>2, <1>4 DEF DigestVerifyIncident
<1>5. ASSUME NEW o \in Operator, Commit(o) PROVE RowsInv'
  <2>1. PICK k : k = cmd[o]
    OBVIOUS
  <2>2. Transition(k) /\ Command(k) /\ UNCHANGED ver
    BY <1>0, <1>5, <2>1 DEF Commit, Commands
  <2>3. k \in Ready
    BY <1>5, <2>1, <2>2 DEF Commit, Command, Begun, Idle
  <2>4. PICK c \in Config : k.entry = Signed(c, head, k.op, k.v)
    BY <1>0, <2>2, <2>3, CommitOnHead
  <2>5. k.op \in Op \ {"altered"} /\ k.v \in Version \cup {0}
    BY <2>3 DEF Ready, Op
  <2>6. Store(Signed(c, head, k.op, k.v))
    BY <2>2, <2>4 DEF Transition
  <2> QED BY <1>0, <2>2, <2>5, <2>6, RowsAppend
<1>6. CASE fetch_ledger_chain_head \/ Export
  <2>1. head \in [no : Nat, hash : History] /\ Len(head.hash) = head.no
    BY <1>0 DEF Tables
  <2>2. UpTo(0) = <<>> /\ UpTo(head.no) = head.hash
    BY <2>1, Prefixes DEF UpTo
  <2>3. /\ Genesis.no = 0 /\ Genesis = [no |-> Genesis.no, hash |-> UpTo(Genesis.no)]
        /\ head = [no |-> head.no, hash |-> UpTo(head.no)]
    BY <2>1, <2>2 DEF Genesis
  <2>4. UNCHANGED <<head, rows>> /\ ver' \in {head, Genesis}
    BY <1>6 DEF fetch_ledger_chain_head, Export
  <2>5. (ver.no \in 0 .. head.no /\ ver = [no |-> ver.no, hash |-> UpTo(ver.no)])'
    BY <2>1, <2>3, <2>4 DEF UpTo
  <2> QED BY <2>4, <2>5, RowsStay
<1>7. ASSUME NEW n \in DOMAIN rows, Alter(n) PROVE RowsInv'
  <2> DEFINE r == rows[n]
             e == [r EXCEPT !.op = "altered"]
  <2>1. r \in Entry /\ IsRow(n)
    BY <1>0 DEF Tables, RowsInv
  <2>2. PICK h \in {e.hash, recompute_entry_hash(e)} : rows' = [rows EXCEPT ![n] = [e EXCEPT !.hash = h]]
    BY <1>7 DEF Alter
  <2>3. UNCHANGED <<head, ver>>
    BY <1>7 DEF Alter
  <2> DEFINE q == [e EXCEPT !.hash = h]
  <2>4. /\ q.no = r.no /\ q.prev = r.prev /\ q.sig = r.sig /\ q.v = r.v /\ q.key = r.key
        /\ q.op = "altered"
    BY <2>1 DEF Entry
  <2>5. DOMAIN rows' = DOMAIN rows /\ rows'[n] = q /\ \A i \in DOMAIN rows : i # n => rows'[i] = rows[i]
    BY <2>2
  <2> HIDE DEF q
  <2>6. IsRow(n)'
    BY <2>1, <2>3, <2>4, <2>5 DEF IsRow, UpTo, Written
  <2> QED BY <2>3, <2>5, <2>6, RowsStay
<1>8. ASSUME NEW n \in DOMAIN rows, Lose(n) PROVE RowsInv'
  <2>1. UNCHANGED <<head, ver>> /\ DOMAIN rows' \subseteq DOMAIN rows /\ \A i \in DOMAIN rows' : rows'[i] = rows[i]
    BY <1>8 DEF Lose, Restrict
  <2> QED BY <2>1, RowsStay
<1>9. ASSUME NEW s \in Server, Stop(s) \/ \E c \in Config : Start(s, c) PROVE RowsInv'
  BY <1>1, <1>9 DEF Stop, Start
<1>10. ASSUME NEW o \in Operator, NEW c \in Config,
              \/ verify_all(o, c)
              \/ \E v \in Version : \/ \E pub \in Material : create(o, v, pub, c)
                                    \/ activate(o, v, c) \/ retire(o, v, c)
       PROVE  RowsInv'
  BY <1>1, <1>10 DEF verify_all, create, activate, retire, Begin
<1>12. ASSUME NEW o \in Operator,
              get_ledger_signing_public_key_status(o) \/ sign_signature_key_ledger_entry(o) \/ GiveUp(o)
       PROVE  RowsInv'
  BY <1>1, <1>12 DEF get_ledger_signing_public_key_status, sign_signature_key_ledger_entry, GiveUp
<1>11. CASE UNCHANGED vars
  BY <1>1, <1>11 DEF vars
<1> QED BY <1>3, <1>4, <1>5, <1>6, <1>7, <1>8, <1>9, <1>10, <1>11, <1>12 DEF Next

\* The i-th of a finite set of numbers is one of them.
LEMMA OrderedExists ==
    ASSUME NEW S \in SUBSET Nat, IsFiniteSet(S), NEW i \in 1 .. Cardinality(S)
    PROVE  Ordered(S, i) \in S
<1> DEFINE Below(n) == {m \in S : m <= n}
           N == Cardinality(S)
           rank == [n \in S |-> Cardinality(Below(n))]
<1>0. N \in Nat
  BY FS_CardinalityType
<1>1. ASSUME NEW n \in S
      PROVE  IsFiniteSet(Below(n)) /\ Cardinality(Below(n)) \in 1 .. N
  <2>1. Below(n) \in SUBSET S /\ n \in Below(n)
    OBVIOUS
  <2> HIDE DEF Below
  <2>2. IsFiniteSet(Below(n)) /\ Cardinality(Below(n)) <= N
    BY <2>1, FS_Subset
  <2>3. Cardinality(Below(n)) \in Nat /\ Cardinality(Below(n)) # 0
    BY <2>1, <2>2, FS_CardinalityType, FS_EmptySet
  <2> QED BY <1>0, <2>2, <2>3
<1>2. ASSUME NEW n \in S, NEW k \in S, n < k
      PROVE  Cardinality(Below(n)) # Cardinality(Below(k))
  <2>0. \A m \in S : m \in Nat
    OBVIOUS
  <2>1. \A m \in S : m <= n => m <= k
    BY <1>2, <2>0
  <2>2. k <= k /\ ~(k <= n)
    BY <1>2, <2>0
  <2>3. Below(n) \in SUBSET Below(k)
    BY <2>1
  <2>4. k \in Below(k) /\ k \notin Below(n)
    BY <2>2
  <2> HIDE DEF Below
  <2> QED BY <1>1, <2>3, <2>4, FS_Subset
<1>3. rank \in Injection(S, 1 .. N)
  <2> HIDE DEF Below
  <2>1. rank \in [S -> 1 .. N]
    BY <1>1
  <2>2. ASSUME NEW n \in S, NEW k \in S, n # k PROVE rank[n] # rank[k]
    <3>1. n < k \/ k < n
      BY <2>2
    <3> QED BY <1>2, <3>1
  <2> QED BY <2>1, <2>2 DEF Injection, IsInjective
<1>4. IsFiniteSet(1 .. N) /\ Cardinality(1 .. N) = N
  BY <1>0, FS_Interval
<1>5. rank \in Surjection(S, 1 .. N)
  <2> HIDE DEF rank, Below
  <2> QED BY <1>3, <1>4, FS_Injection
<1>6. \E n \in S : Cardinality({m \in S : m <= n}) = i
  BY <1>5 DEF Surjection
<1> QED BY <1>6 DEF Ordered

\* In a range without a gap it is the first plus i - 1.
LEMMA OrderedInterval ==
    ASSUME NEW a \in Nat, NEW b \in Nat, NEW i \in 1 .. (b - a + 1)
    PROVE  Ordered(a .. b, i) = a + i - 1
<1>1. ASSUME NEW n \in a .. b PROVE Cardinality({m \in a .. b : m <= n}) = n - a + 1
  <2>1. {m \in a .. b : m <= n} = a .. n
    BY <1>1
  <2>2. n \in Int /\ ~(a > n)
    BY <1>1
  <2>3. Cardinality(a .. n) = n - a + 1
    BY <2>2, FS_Interval
  <2> QED BY <2>1, <2>3
<1>2. a + i - 1 \in a .. b /\ (a + i - 1) - a + 1 = i
  OBVIOUS
<1>3. Cardinality({m \in a .. b : m <= a + i - 1}) = i
  BY <1>1, <1>2
<1>4. \A n \in a .. b : Cardinality({m \in a .. b : m <= n}) = i => n = a + i - 1
  BY <1>1
<1> QED BY <1>2, <1>3, <1>4 DEF Ordered

\* The rows es are count rows of the table from the range, each with its key.
Shows(es, count, from, to) ==
    /\ count \in Nat /\ DOMAIN es = 1 .. count /\ Len(es) = count /\ (es = <<>> <=> count = 0)
    /\ \A i \in 1 .. count : /\ es[i].no \in DOMAIN rows /\ es[i].no \in from .. to
                             /\ es[i] = LedgerVerificationMaterialRow(es[i].no)

\* An exported row has everything that the row of the table has.
LEMMA MaterialRow ==
    ASSUME NEW n
    PROVE  LET e == LedgerVerificationMaterialRow(n) IN
           /\ e.no = rows[n].no /\ e.prev = rows[n].prev /\ e.hash = rows[n].hash
           /\ e.sig = rows[n].sig /\ e.pk = keys[rows[n].key]
           /\ recompute_entry_hash(e) = recompute_entry_hash(rows[n])
BY DEF LedgerVerificationMaterialRow, recompute_entry_hash

\* An export returns rows of the range: all of them, or as many as the API returns.
LEMMA Exported ==
    ASSUME Tables, RowsInv, NEW from \in Nat, NEW to \in Nat
    PROVE  LET S == DOMAIN rows \cap (from .. to)
               count == IF Cardinality(S) < MaxRows THEN Cardinality(S) ELSE MaxRows
               es == export_ledger_verification_materials(from, to)
           IN  /\ Shows(es, count, from, to)
               /\ \A i \in 1 .. count : es[i] = LedgerVerificationMaterialRow(Ordered(S, i))
<1> DEFINE S == DOMAIN rows \cap (from .. to)
           count == IF Cardinality(S) < MaxRows THEN Cardinality(S) ELSE MaxRows
           es == export_ledger_verification_materials(from, to)
<1>1. S \in SUBSET Nat /\ S \in SUBSET (from .. to)
  OBVIOUS
<1>2. IsFiniteSet(S) /\ Cardinality(S) \in Nat
  <2>1. IsFiniteSet(from .. to)
    BY FS_Interval
  <2> HIDE DEF S
  <2>2. IsFiniteSet(S)
    BY <1>1, <2>1, FS_Subset
  <2> QED BY <2>2, FS_CardinalityType
<1>3. count \in Nat /\ \A i \in 1 .. count : i \in 1 .. Cardinality(S)
  <2> HIDE DEF S
  <2> QED BY <1>2, VerifyAssumption
<1>4. es = [i \in 1 .. count |-> LedgerVerificationMaterialRow(Ordered(S, i))]
  BY DEF export_ledger_verification_materials
<1>5. ASSUME NEW i \in 1 .. count
      PROVE  Ordered(S, i) \in S /\ LedgerVerificationMaterialRow(Ordered(S, i)).no = Ordered(S, i)
  <2>1. Ordered(S, i) \in S
    <3> HIDE DEF S, count
    <3> QED BY <1>1, <1>2, <1>3, OrderedExists
  <2>2. rows[Ordered(S, i)].no = Ordered(S, i)
    BY <2>1 DEF RowsInv, IsRow
  <2> QED BY <2>1, <2>2, MaterialRow
<1> HIDE DEF count, es
<1>6. DOMAIN es = 1 .. count /\ Len(es) = count /\ (es = <<>> <=> count = 0)
  <2>1. DOMAIN es = 1 .. count /\ Len(es) = count
    BY <1>3, <1>4
  <2>2. count = 0 => es = <<>>
    BY <1>3, <1>4
  <2>3. es = <<>> => count = 0
    BY <1>3, <2>1
  <2> QED BY <2>1, <2>2, <2>3
<1>7. \A i \in 1 .. count : /\ es[i] = LedgerVerificationMaterialRow(Ordered(S, i))
                            /\ es[i].no = Ordered(S, i) /\ Ordered(S, i) \in S
  BY <1>4, <1>5
<1>8. Shows(es, count, from, to)
  BY <1>3, <1>6, <1>7 DEF Shows
<1> QED BY <1>7, <1>8 DEF count, es

\* A row that was not altered is genuine; what an altered one says is not what was
\* written there.
LEMMA AlteredDiffers ==
    ASSUME Tables, RowsInv, NEW n \in DOMAIN rows
    PROVE  IF rows[n].op = "altered" THEN recompute_entry_hash(rows[n]) # UpTo(n) ELSE Genuine(n)
<1> DEFINE r == rows[n]
           x == [op |-> r.op, v |-> r.v, key |-> r.key]
           w == Written(n)
<1>1. /\ head.hash \in History /\ Len(head.hash) = head.no /\ head.no \in Nat
      /\ n \in 1 .. head.no /\ r \in Entry
  BY DEF Tables
<1>2. w \in Content /\ w.op # "altered" /\ w = [op |-> w.op, v |-> w.v, key |-> w.key]
  <2>1. w \in Content
    BY <1>1 DEF Written, History
  <2>2. w.op # "altered"
    BY <1>1 DEF RowsInv
  <2> HIDE DEF w
  <2> QED BY <2>1, <2>2 DEF Content
<1>3. UpTo(n) = Append(UpTo(n - 1), w)
  BY <1>1, Prefixes DEF UpTo, Written
<1>4. UpTo(n - 1) \in Seq(Content) /\ Len(UpTo(n - 1)) = n - 1
  BY <1>1 DEF UpTo, History
<1>5. IsRow(n)
  BY DEF RowsInv
<1>6. recompute_entry_hash(r) = Append(UpTo(n - 1), x)
  BY <1>5 DEF IsRow, recompute_entry_hash, canonical_payload
<1>7. CASE r.op = "altered"
  <2>1. x # w /\ x \in Content
    BY <1>1, <1>2, <1>7 DEF Entry, Content
  <2> HIDE DEF x, w
  <2>2. Append(UpTo(n - 1), x)[n] = x /\ Append(UpTo(n - 1), w)[n] = w
    BY <1>1, <1>2, <1>4, <2>1
  <2> QED BY <1>3, <1>6, <1>7, <2>1, <2>2
<1>8. CASE r.op # "altered"
  <2>1. x = w /\ r.hash = UpTo(n)
    BY <1>2, <1>5, <1>8 DEF IsRow
  <2> QED BY <1>3, <1>6, <1>8, <2>1 DEF Genuine, UpTo
<1> QED BY <1>7, <1>8

\* A row whose signature verifies is genuine.
LEMMA SignatureFinds ==
    ASSUME Tables, RowsInv, NEW n \in DOMAIN rows, verify_signature(LedgerVerificationMaterialRow(n))
    PROVE  Genuine(n)
<1>1. rows[n].sig.of = recompute_entry_hash(rows[n])
  BY MaterialRow DEF verify_signature
<1>2. rows[n].sig.of = UpTo(n)
  BY DEF RowsInv, IsRow
<1> QED BY <1>1, <1>2, AlteredDiffers

\* Rows that follow a chain leave out no number before one of theirs.
LEMMA NoneMissed ==
    ASSUME NEW es, NEW count, NEW from, NEW to, Shows(es, count, from, to),
           NEW initial, initial.no \in Nat, HashChain(es, initial),
           NEW i \in 1 .. count, NEW n \in Nat, initial.no < n, n <= es[i].no
    PROVE  n \in DOMAIN rows /\ \E j \in 1 .. count : es[j].no = n
<1>1. count \in Nat /\ DOMAIN es = 1 .. count
  BY DEF Shows
<1>2. \A j \in 1 .. count : es[j].no = initial.no + j
  BY <1>1 DEF HashChain
<1>3. n - initial.no \in 1 .. count
  BY <1>1, <1>2
<1>4. es[n - initial.no].no = n
  BY <1>2, <1>3
<1> QED BY <1>3, <1>4 DEF Shows

\* Hashes that lead to a head of the ledger are those of the genuine rows up to it.
LEMMA HashesFind ==
    ASSUME Tables, RowsInv, NEW es, NEW count, NEW from, NEW to, Shows(es, count, from, to),
           ver # Genesis, verify_hash_chain_rows(ver, es)
    PROVE  count = ver.no /\ \A n \in 1 .. count : es[n].no = n /\ Genuine(n)
<1>1. count \in Nat /\ DOMAIN es = 1 .. count /\ Len(es) = count /\ (es = <<>> <=> count = 0)
  BY DEF Shows
<1>2. es # <<>> /\ count > 0
  BY <1>1 DEF verify_hash_chain_rows
<1>3. \A n \in 1 .. count : es[n].no = n
  BY <1>1 DEF verify_hash_chain_rows, HashChain, Genesis
<1>4. ver = [no |-> es[count].no, hash |-> es[count].hash]
  BY <1>1, <1>2 DEF verify_hash_chain_rows
<1>5. ver.no = count /\ ver.hash = es[count].hash
  BY <1>1, <1>2, <1>3, <1>4
<1>6. ASSUME NEW n \in 1 .. count PROVE Genuine(n)
  <2>1. n \in DOMAIN rows /\ es[n] = LedgerVerificationMaterialRow(n)
    BY <1>3 DEF Shows
  <2>2. recompute_entry_hash(rows[n]) = es[n].hash
    BY <1>1, <2>1, MaterialRow DEF verify_hash_chain_rows, HashChain
  <2>3. es[n].hash = UpTo(n)
    <3>1. CASE n = count
      BY <1>5, <3>1 DEF RowsInv
    <3>2. CASE n # count
      <4>1. n + 1 \in 1 .. count /\ (n + 1) - 1 = n /\ n + 1 # 1
        BY <1>1, <3>2
      <4>2. n + 1 \in DOMAIN rows /\ es[n + 1] = LedgerVerificationMaterialRow(n + 1)
        BY <1>3, <4>1 DEF Shows
      <4>3. es[n + 1].prev = UpTo(n)
        BY <4>1, <4>2, MaterialRow DEF RowsInv, IsRow
      <4>4. es[n + 1].prev = es[n].hash
        BY <1>1, <4>1 DEF verify_hash_chain_rows, HashChain
      <4> QED BY <4>3, <4>4
    <3> QED BY <3>1, <3>2
  <2> QED BY <2>1, <2>2, <2>3, AlteredDiffers
<1> QED BY <1>3, <1>5, <1>6

\* What may be verified: a range of numbers, and for a full verification all numbers
\* up to the head that it has fetched.
LEMMA VerificationShape ==
    ASSUME Tables, RowsInv, NEW v \in Verifications
    PROVE  /\ v.from \in Nat /\ v.to \in Nat /\ 1 <= v.from
           /\ v.kind \in {"auditor", "ui", "report", "full_hash", "full_sign"}
           /\ v.kind \in {"full_hash", "full_sign"} => v.from = 1 /\ v.to = ver.no /\ ver # Genesis
<1>1. head.no \in Nat /\ ver.no \in Nat
  BY DEF Tables, RowsInv
<1> QED BY <1>1 DEF Verifications

\* Damage that the rows show is found, whatever the verification: a changed row by
\* its signature or the next hash, a lost one by the numbers of the chain.
LEMMA DamageFound ==
    ASSUME Tables, RowsInv PROVE DamageIsFound
<1> SUFFICES ASSUME NEW v \in Verifications, Verdict(v.kind, v.from, v.to, ver)
             PROVE  LET seen == export_ledger_verification_materials(v.from, v.to)
                        Seen == {seen[i].no : i \in DOMAIN seen}
                        Missed == {n \in Entries(v) \ DOMAIN rows : \E m \in Seen : n < m}
                    IN ~ \/ \E n \in Seen : ~Genuine(n)
                         \/ v.kind # "full_sign" /\ Missed # {}
                         \/ v.kind = "full_hash" /\ \E n \in Entries(v) : ~Genuine(n)
  BY DEF DamageIsFound
<1> DEFINE from == v.from
           to == v.to
           kind == v.kind
           es == export_ledger_verification_materials(from, to)
           Seen == {es[i].no : i \in DOMAIN es}
<1>1. /\ from \in Nat /\ to \in Nat /\ 1 <= from
      /\ kind \in {"auditor", "ui", "report", "full_hash", "full_sign"}
      /\ kind \in {"full_hash", "full_sign"} => from = 1 /\ to = ver.no /\ ver # Genesis
  BY VerificationShape
<1>2. PICK count : Shows(es, count, from, to)
  BY <1>1, Exported
<1>3. Valid(kind, from, ver, es)
  BY <1>1 DEF Verdict
<1> HIDE DEF es, from, to, kind
<1>4. count \in Nat /\ DOMAIN es = 1 .. count /\ (es = <<>> <=> count = 0)
  BY <1>2 DEF Shows
<1>5. \A i \in 1 .. count : /\ es[i].no \in DOMAIN rows /\ es[i].no \in from .. to
                            /\ es[i] = LedgerVerificationMaterialRow(es[i].no)
  BY <1>2 DEF Shows
<1>6. kind # "full_hash" => \A i \in 1 .. count : verify_signature(es[i])
  BY <1>1, <1>3, <1>4 DEF Valid, run_verify_command, verify_signature_range,
     verify_signature_material_rows, verify_signatures_for_summary, verify_ledger_chain,
     verify_signature_rows
<1>7. kind = "full_hash" => verify_hash_chain_rows(ver, es)
  BY <1>3 DEF Valid
<1>8. kind # "full_sign" /\ count > 0 =>
         \E initial : initial.no \in Nat /\ initial.no < from /\ HashChain(es, initial)
  <2>1. SUFFICES ASSUME kind # "full_sign", count > 0
                 PROVE  \/ HashChain(es, Genesis)
                        \/ HashChain(es, initial_chain_head(from, es))
    <3>1. Genesis.no = 0 /\ initial_chain_head(from, es).no = from - 1
      BY <1>1 DEF Genesis, initial_chain_head
    <3> QED BY <1>1, <2>1, <3>1
  <2> QED BY <1>1, <1>3, <1>4, <2>1 DEF Valid, run_verify_command, verify_signature_range,
        verify_signature_material_rows, verify_signatures_for_summary, verify_ledger_chain,
        verify_hash_chain_rows
<1>9. ASSUME NEW n \in Seen PROVE Genuine(n)
  <2>1. PICK i \in 1 .. count : n = es[i].no
    BY <1>4
  <2>2. CASE kind = "full_hash"
    BY <1>1, <1>2, <1>7, <2>1, <2>2, HashesFind
  <2>3. CASE kind # "full_hash"
    BY <1>5, <1>6, <2>1, <2>3, SignatureFinds
  <2> QED BY <2>2, <2>3
<1>10. ASSUME kind # "full_sign", NEW n \in Entries(v), NEW m \in Seen, n < m
       PROVE  n \in DOMAIN rows
  <2>1. PICK i \in 1 .. count : m = es[i].no
    BY <1>4
  <2>2. n \in Nat /\ from <= n
    BY <1>10 DEF Entries, from
  <2>3. m \in Nat
    BY <1>1, <1>5, <2>1
  <2>4. PICK initial : initial.no \in Nat /\ initial.no < from /\ HashChain(es, initial)
    BY <1>4, <1>8, <1>10, <2>1
  <2>5. initial.no < n /\ n <= es[i].no
    BY <1>1, <1>10, <2>1, <2>2, <2>3, <2>4
  <2> QED BY <1>2, <2>1, <2>2, <2>4, <2>5, NoneMissed
<1>11. ASSUME kind = "full_hash", NEW n \in Entries(v) PROVE Genuine(n)
  <2>1. n \in 1 .. ver.no
    BY <1>1, <1>11 DEF Entries, from, to
  <2> QED BY <1>1, <1>2, <1>7, <1>11, <2>1, HashesFind
<1> QED BY <1>9, <1>10, <1>11 DEF es, from, to, kind

\* Damage that the exported rows show is found: a changed row by every verifier that
\* sees it, a lost row before one that is seen by every one that follows the chain.
THEOREM DamageShows == Spec => []DamageIsFound
<1>1. VInv /\ RowsInv => DamageIsFound
  BY DamageFound DEF VInv
<1> QED BY <1>1, VerifyInit, VerifyStep, RowsInit, RowsStep, PTL DEF Spec

\* The row of an entry that a server or a command signed verifies as long as it is
\* genuine, whatever has become of its key.
LEMMA GenuineSignature ==
    ASSUME Tables, SignedAfterActivation, RowsInv, NEW n \in 1 .. head.no, Genuine(n),
           Written(n).op # "incident" \/ verify_signature(LedgerVerificationMaterialRow(n))
    PROVE  verify_signature(LedgerVerificationMaterialRow(n))
<1> SUFFICES ASSUME Written(n).op # "incident" PROVE verify_signature(LedgerVerificationMaterialRow(n))
  OBVIOUS
<1>1. n \in DOMAIN rows /\ IsRow(n) /\ recompute_entry_hash(rows[n]) = UpTo(n)
  BY DEF Genuine, RowsInv, UpTo
<1>2. rows[n].key = Written(n).key /\ rows[n].sig.of = UpTo(n)
  BY <1>1 DEF IsRow
<1>3. /\ keys[rows[n].key].status \in {"active", "retired"}
      /\ rows[n].sig.pub = keys[rows[n].key].pub
  BY <1>1, <1>2 DEF SignedAfterActivation
<1> QED BY <1>1, <1>2, <1>3, MaterialRow DEF verify_signature, try_restore_verifying_key

\* The rows es are the first count entries from number from on, without a gap.
Consecutive(es, count, from) ==
    \A i \in 1 .. count : es[i] = LedgerVerificationMaterialRow(from + i - 1)

\* Consecutive genuine rows are a chain that continues the entry before the first.
LEMMA GenuineChain ==
    ASSUME Tables, RowsInv, NEW es, NEW count \in Nat, NEW from \in Nat, 1 <= from,
           DOMAIN es = 1 .. count, Consecutive(es, count, from),
           \A i \in 1 .. count : Genuine(from + i - 1),
           NEW initial, initial.no = from - 1, count > 0 => initial.hash = UpTo(from - 1)
    PROVE  HashChain(es, initial)
<1> SUFFICES ASSUME NEW i \in 1 .. count
             PROVE  /\ es[i].no = initial.no + i
                    /\ es[i].prev = (IF i = 1 THEN initial.hash ELSE es[i - 1].hash)
                    /\ recompute_entry_hash(es[i]) = es[i].hash
  BY DEF HashChain
<1> DEFINE n == from + i - 1
<1>1. n \in Nat /\ n - 1 = from + (i - 1) - 1 /\ n = initial.no + i
  OBVIOUS
<1>2. Genuine(n) /\ es[i] = LedgerVerificationMaterialRow(n)
  BY DEF Consecutive
<1> HIDE DEF n
<1>3. n \in DOMAIN rows /\ recompute_entry_hash(rows[n]) = rows[n].hash
  BY <1>2 DEF Genuine
<1>4. rows[n].no = n /\ rows[n].prev = UpTo(n - 1)
  BY <1>3 DEF RowsInv, IsRow
<1>5. es[i].no = n /\ es[i].prev = UpTo(n - 1) /\ recompute_entry_hash(es[i]) = es[i].hash
  BY <1>2, <1>3, <1>4, MaterialRow
<1>6. CASE i = 1
  <2>1. n - 1 = from - 1 /\ count > 0
    BY <1>6 DEF n
  <2> QED BY <1>1, <1>5, <1>6, <2>1
<1>7. CASE i # 1
  <2>1. i - 1 \in 1 .. count
    BY <1>7
  <2>2. Genuine(n - 1) /\ es[i - 1] = LedgerVerificationMaterialRow(n - 1)
    BY <1>1, <2>1 DEF Consecutive
  <2>3. es[i - 1].hash = UpTo(n - 1)
    BY <2>2, MaterialRow DEF Genuine, UpTo
  <2> QED BY <1>1, <1>5, <1>7, <2>3
<1> QED BY <1>6, <1>7

\* When all entries of a range are there, the export has them from the first on, up
\* to the last or to the limit of the API.
LEMMA ExportedInterval ==
    ASSUME Tables, RowsInv, NEW v, v.from \in Nat, 1 <= v.from, v.to \in Nat,
           Entries(v) \subseteq DOMAIN rows
    PROVE  \E count \in Nat :
             LET es == export_ledger_verification_materials(v.from, v.to) IN
             /\ Shows(es, count, v.from, v.to) /\ Consecutive(es, count, v.from)
             /\ \A i \in 1 .. count : v.from + i - 1 \in Entries(v)
             /\ count = 0 <=> Entries(v) = {}
             /\ v.from = 1 /\ v.to <= head.no => count = IF v.to < MaxRows THEN v.to ELSE MaxRows
<1> DEFINE from == v.from
           to == v.to
           u == IF to < head.no THEN to ELSE head.no
           S == DOMAIN rows \cap (from .. to)
           N == Cardinality(S)
           count == IF N < MaxRows THEN N ELSE MaxRows
           es == export_ledger_verification_materials(from, to)
<1>0. head.no \in Nat /\ u \in Nat /\ from \in Nat /\ MaxRows \in Nat \ {0}
  BY VerifyAssumption DEF Tables
<1>1. S = from .. u /\ Entries(v) = from .. u
  <2>1. Entries(v) = from .. u
    BY <1>0 DEF Entries
  <2>2. ASSUME NEW n PROVE n \in S <=> n \in from .. u
    <3>1. n \in from .. u => n \in DOMAIN rows /\ n \in from .. to
      BY <1>0, <2>1
    <3>2. n \in S => n \in 1 .. head.no /\ n \in from .. to
      BY DEF Tables
    <3> QED BY <1>0, <3>1, <3>2
  <2> QED BY <2>1, <2>2
<1>2. N = IF from > u THEN 0 ELSE u - from + 1
  <2>1. S = from .. u /\ from \in Int /\ u \in Int
    BY <1>0, <1>1
  <2> HIDE DEF S, u, from
  <2>2. Cardinality(from .. u) = IF from > u THEN 0 ELSE u - from + 1
    BY <2>1, FS_Interval
  <2> QED BY <2>1, <2>2
<1>3. /\ Shows(es, count, from, to)
      /\ \A i \in 1 .. count : es[i] = LedgerVerificationMaterialRow(Ordered(S, i))
  BY Exported
<1> HIDE DEF S, u, N, from, to, es
<1>4. count \in Nat /\ \A i \in 1 .. count : i \in 1 .. (u - from + 1)
  BY <1>0, <1>2
<1>5. \A i \in 1 .. count : Ordered(S, i) = from + i - 1
  BY <1>0, <1>1, <1>4, OrderedInterval
<1>6. Consecutive(es, count, from)
  BY <1>3, <1>5 DEF Consecutive
<1>7. \A i \in 1 .. count : from + i - 1 \in Entries(v)
  BY <1>0, <1>1, <1>4
<1>8. count = 0 <=> Entries(v) = {}
  <2>1. from .. u = {} <=> from > u
    BY <1>0
  <2>2. count = 0 <=> from > u
    BY <1>0, <1>2
  <2> QED BY <1>1, <2>1, <2>2
<1>9. from = 1 /\ to <= head.no => count = IF to < MaxRows THEN to ELSE MaxRows
  <2>1. SUFFICES ASSUME from = 1, to <= head.no PROVE N = to
    OBVIOUS
  <2>2. to \in Nat /\ u = to
    BY <1>0, <2>1 DEF u, to
  <2> QED BY <1>0, <1>2, <2>1, <2>2
<1> HIDE DEF count
<1> QED BY <1>3, <1>4, <1>6, <1>7, <1>8, <1>9 DEF from, to, es

\* The verdict on genuine rows, kind by kind.
LEMMA GenuineVerdict ==
    ASSUME Tables, SignedAfterActivation, RowsInv, NEW v \in Verifications,
           \A n \in Entries(v) :
               /\ Genuine(n)
               /\ Written(n).op # "incident" \/ verify_signature(LedgerVerificationMaterialRow(n)),
           v.kind = "auditor" => v.from = 1,
           v.kind = "full_hash" => v.to <= MaxRows,
           v.kind \in {"ui", "report"} => Entries(v) # {}
    PROVE  Verdict(v.kind, v.from, v.to, ver)
<1> DEFINE from == v.from
           to == v.to
           kind == v.kind
           es == export_ledger_verification_materials(from, to)
<1>1. /\ from \in Nat /\ to \in Nat /\ 1 <= from
      /\ kind \in {"auditor", "ui", "report", "full_hash", "full_sign"}
      /\ kind \in {"full_hash", "full_sign"} => from = 1 /\ to = ver.no /\ ver # Genesis
  BY VerificationShape
<1>2. Entries(v) \subseteq DOMAIN rows /\ Entries(v) \subseteq 1 .. head.no
  BY DEF Genuine, Entries
<1>3. PICK count \in Nat :
          /\ Shows(es, count, from, to) /\ Consecutive(es, count, from)
          /\ \A i \in 1 .. count : from + i - 1 \in Entries(v)
          /\ count = 0 <=> Entries(v) = {}
          /\ from = 1 /\ to <= head.no => count = IF to < MaxRows THEN to ELSE MaxRows
  BY <1>1, <1>2, ExportedInterval
<1>4. Verdict(kind, from, to, ver) = Valid(kind, from, ver, es)
  BY <1>1 DEF Verdict
<1>a. /\ kind = "auditor" => from = 1
      /\ kind = "full_hash" => to <= MaxRows
      /\ kind \in {"ui", "report"} => Entries(v) # {}
  OBVIOUS
<1> HIDE DEF es, from, to, kind
<1>5. DOMAIN es = 1 .. count /\ Len(es) = count /\ (es = <<>> <=> count = 0)
  BY <1>3 DEF Shows
<1>6. ASSUME NEW i \in 1 .. count PROVE verify_signature(es[i]) /\ Genuine(from + i - 1)
  <2>1. from + i - 1 \in Entries(v) /\ es[i] = LedgerVerificationMaterialRow(from + i - 1)
    BY <1>3 DEF Consecutive
  <2>2. from + i - 1 \in 1 .. head.no
    BY <1>2, <2>1
  <2> QED BY <2>1, <2>2, GenuineSignature
<1>7. ASSUME NEW initial, initial.no = from - 1, count > 0 => initial.hash = UpTo(from - 1)
      PROVE  HashChain(es, initial)
  BY <1>1, <1>3, <1>5, <1>6, <1>7, GenuineChain
<1>8. Genesis.no = 0 /\ Genesis.hash = UpTo(0)
  <2>1. head.hash \in History
    BY DEF Tables
  <2> QED BY <2>1, Prefixes DEF Genesis, UpTo
<1>9. from = 1 => HashChain(es, Genesis)
  BY <1>7, <1>8
<1>10. HashChain(es, initial_chain_head(from, es))
  <2>1. CASE from = 1
    BY <1>9, <2>1 DEF initial_chain_head
  <2>2. CASE from # 1
    <3> DEFINE initial == [no |-> from - 1, hash |-> es[1].prev]
    <3>1. initial_chain_head(from, es) = initial /\ initial.no = from - 1
      BY <2>2 DEF initial_chain_head
    <3>2. count > 0 => initial.hash = UpTo(from - 1)
      <4>1. SUFFICES ASSUME count > 0 PROVE es[1].prev = UpTo(from - 1)
        OBVIOUS
      <4>2. 1 \in 1 .. count /\ from + 1 - 1 = from
        BY <1>1, <4>1
      <4>3. es[1] = LedgerVerificationMaterialRow(from) /\ from \in DOMAIN rows
        BY <1>2, <1>3, <4>2 DEF Consecutive
      <4> QED BY <4>3, MaterialRow DEF RowsInv, IsRow
    <3> HIDE DEF initial
    <3> QED BY <1>7, <3>1, <3>2
  <2> QED BY <2>1, <2>2
<1>11. CASE kind = "auditor"
  BY <1>a, <1>4, <1>5, <1>6, <1>9, <1>11
     DEF Valid, run_verify_command, verify_ledger_chain, from, to, kind
<1>12. CASE kind \in {"ui", "report"}
  <2>1. es # <<>>
    BY <1>a, <1>3, <1>5, <1>12
  <2>2. Valid(kind, from, ver, es)
    BY <1>5, <1>6, <1>10, <1>12, <2>1 DEF Valid, verify_signature_range,
       verify_signature_material_rows, verify_signatures_for_summary, verify_ledger_chain
  <2> QED BY <1>4, <2>2 DEF from, to, kind
<1>13. CASE kind = "full_sign"
  <2>1. Valid(kind, from, ver, es)
    BY <1>5, <1>6, <1>13 DEF Valid, verify_signature_rows
  <2> QED BY <1>4, <2>1 DEF from, to, kind
<1>14. CASE kind = "full_hash"
  <2>1. /\ from = 1 /\ to = ver.no /\ ver # Genesis
        /\ ver.no \in 0 .. head.no /\ ver = [no |-> ver.no, hash |-> UpTo(ver.no)]
    BY <1>1, <1>14 DEF RowsInv
  <2>2. head.no \in Nat /\ MaxRows \in Nat \ {0}
    BY VerifyAssumption DEF Tables
  <2>3. ver.no # 0
    BY <1>8, <2>1 DEF Genesis
  <2>4. count = IF to < MaxRows THEN to ELSE MaxRows
    BY <1>3, <2>1, <2>2
  <2>5. count > 0 /\ count = ver.no
    BY <1>a, <1>1, <1>14, <2>1, <2>2, <2>3, <2>4
  <2>6. es[count].no = count /\ es[count].hash = UpTo(count)
    <3>1. count \in 1 .. count /\ 1 + count - 1 = count
      BY <2>5
    <3>2. Genuine(count) /\ es[count] = LedgerVerificationMaterialRow(count)
      BY <1>3, <1>6, <2>1, <3>1 DEF Consecutive
    <3> QED BY <3>2, MaterialRow DEF Genuine, RowsInv, IsRow, UpTo
  <2>7. Valid(kind, from, ver, es)
    BY <1>5, <1>9, <1>14, <2>1, <2>5, <2>6 DEF Valid, verify_hash_chain_rows
  <2> QED BY <1>4, <2>7 DEF from, to, kind
<1> QED BY <1>1, <1>11, <1>12, <1>13, <1>14

\* Every verification of rows that are as they were written finds them valid, across
\* rotations of the key and appends while it runs: the auditor command from entry 1
\* on, the full hash verification up to the rows that the API returns.
THEOREM IntactVerifies == Spec => []GenuineVerifies
<1>1. VInv /\ RowsInv => GenuineVerifies
  BY GenuineVerdict DEF VInv, GenuineVerifies, Sound
<1> QED BY <1>1, VerifyInit, VerifyStep, RowsInit, RowsStep, PTL DEF Spec
=============================================================================
