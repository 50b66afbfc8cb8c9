---------------------------- MODULE LedgerVerify ----------------------------
(***************************************************************************)
(* The registry of ledger signing keys and everything that verifies the    *)
(* ledger with it.  Servers and commands sign with the key of their        *)
(* configuration; the commands signature-key create, activate and retire   *)
(* move a public key through its lifecycle, each with a ledger entry; the  *)
(* auditor command, the audit UI, the audit report and the scheduled full  *)
(* verifications read rows and registry and say whether they are in order. *)
(* Rows may have been changed or lost, which verification is there to find.*)
(*                                                                         *)
(* The hash of an entry stands for the canonical payloads up to it, so     *)
(* different payloads have different hashes, and head.hash is the ledger   *)
(* as it was written.  Races of appends are the matter of LedgerChain: an  *)
(* append of a server is one step here.  A verification changes nothing: it*)
(* is an operator on what it reads, in one read or, when it asks for the   *)
(* head first, in two with anything in between.                            *)
(***************************************************************************)
EXTENDS Integers, Sequences, FiniteSets, Functions, TLC

CONSTANTS
    Version,       \* signature key versions
    Material,      \* key pairs, by their public key
    Bootstrap,     \* the version registered by the owner of the database
    First,         \* its public key
    Config,        \* the signing keys that processes may be configured with
    Server,        \* server processes
    Operator,      \* signature-key commands that run at the same time
    MaxEntries,    \* entries appended
    MaxRows,       \* max_rows: rows that the API returns at most
    MaxTroubles    \* rows changed or lost, and incidents of digest verify

ASSUME VerifyAssumption ==
    /\ Bootstrap \in Version /\ First \in Material
    /\ Config \subseteq [version : Version, pub : Material]
    /\ {MaxEntries, MaxTroubles} \subseteq Nat /\ MaxRows \in Nat \ {0}

VARIABLES
    keys,      \* ledger_signing_public_keys
    head,      \* ledger_chain_state
    rows,      \* ledger_entries, by sequence number
    signer,    \* signer[s]: the key that server s runs with
    cmd,       \* cmd[o]: how far the command of operator o is
    ver,       \* the head that a verification under way has fetched
    troubles   \* rows changed or lost, and incidents of digest verify, so far

vars == <<keys, head, rows, signer, cmd, ver, troubles>>

None == [version |-> 0]
Idle == [pc |-> "idle"]
Genesis == [no |-> 0, hash |-> <<>>]
Unregistered == [status |-> "none"]

Init ==
    /\ keys = [v \in Version |->
                  IF v = Bootstrap
                  THEN [status |-> "active", pub |-> First, activated |-> 0, retired |-> 0]
                  ELSE Unregistered]
    /\ head = Genesis
    /\ rows = <<>>
    /\ signer = [s \in Server |-> None]
    /\ cmd = [o \in Operator |-> Idle]
    /\ ver = Genesis
    /\ troubles = 0

-----------------------------------------------------------------------------
(* Entries *)

\* The canonical payload: number (the length), previous hash and content.
canonical_payload(prev, op, v, key) == Append(prev, [op |-> op, v |-> v, key |-> key])

recompute_entry_hash(e) == canonical_payload(e.prev, e.op, e.v, e.key)

\* sign: the entry that comes after h, signed with the key of configuration c.
Signed(c, h, op, v) ==
    LET payload == canonical_payload(h.hash, op, v, c.version) IN
    [no |-> h.no + 1, prev |-> h.hash, op |-> op, v |-> v, key |-> c.version,
     hash |-> payload, sig |-> [pub |-> c.pub, of |-> payload]]

\* append_ledger_entry, when e was signed on the head.
Store(e) ==
    /\ e.no <= MaxEntries
    /\ rows' = [n \in DOMAIN rows \cup {e.no} |-> IF n = e.no THEN e ELSE rows[n]]
    /\ head' = [no |-> e.no, hash |-> e.hash]

Trouble == troubles < MaxTroubles /\ troubles' = troubles + 1

-----------------------------------------------------------------------------
(* Signing *)

ensure_active_AnyStatus(c) ==
    /\ keys[c.version].status # "none"
    /\ keys[c.version].pub = c.pub

\* ensure_active_ledger_signing_public_key
ensure_active(c) ==
    /\ keys[c.version].status = "active"
    /\ keys[c.version].pub = c.pub

\* A server that finds its key not active exits.  It looks only when it starts.
Start(s, c) ==
    /\ signer[s] = None
    /\ ensure_active(c)
    /\ signer' = [signer EXCEPT ![s] = c]
    /\ UNCHANGED <<keys, head, rows, cmd, ver, troubles>>

Stop(s) ==
    /\ signer[s] # None
    /\ signer' = [signer EXCEPT ![s] = None]
    /\ UNCHANGED <<keys, head, rows, cmd, ver, troubles>>

ServerAppend(s) ==
    /\ signer[s] # None
    /\ Store(Signed(signer[s], head, "event", 0))
    /\ UNCHANGED <<keys, signer, cmd, ver, troubles>>

\* The stored digest of a period with entries is not in order (the trouble), and
\* digest verify records the incident with the key of its configuration as it
\* is: it never asks whether that key is active.
DigestVerifyIncident(c) ==
    /\ Trouble
    /\ head.no > 0
    /\ Store(Signed(c, head, "incident", 0))
    /\ UNCHANGED <<keys, signer, cmd, ver>>

-----------------------------------------------------------------------------
(* The signature-key commands *)

\* Every command starts by looking at the key of its configuration.
Begin(o, op, v, pub, c) ==
    /\ cmd[o] = Idle
    /\ ensure_active(c)
    /\ cmd' = [cmd EXCEPT ![o] = [pc |-> IF op \in {"activate", "retire"} THEN "status" ELSE "sign",
                                 op |-> op, v |-> v, pub |-> pub, by |-> c]]
    /\ UNCHANGED <<keys, head, rows, signer, ver, troubles>>

\* create without --public-key-hex registers the configured key.  verify-all
\* verifies as the kind full_sign below, and appends its result whatever that is.
create(o, v, pub, c) == Begin(o, "create", v, pub, c)
activate(o, v, c) == Begin(o, "activate", v, c.pub, c)
retire(o, v, c) == Begin(o, "retire", v, c.pub, c)
verify_all(o, c) == Begin(o, "event", 0, c.pub, c)

\* activate and retire read the key they are about, for its fingerprint.
get_ledger_signing_public_key_status(o) ==
    /\ cmd[o].pc = "status"
    /\ keys[cmd[o].v].status # "none"
    /\ cmd' = [cmd EXCEPT ![o].pc = "sign", ![o].pub = keys[cmd[o].v].pub]
    /\ UNCHANGED <<keys, head, rows, signer, ver, troubles>>

\* The entry is signed on the head of now.
sign_signature_key_ledger_entry(o) ==
    /\ cmd[o].pc = "sign"
    /\ LET k == cmd[o] IN
       cmd' = [cmd EXCEPT ![o] = [pc |-> "commit", op |-> k.op, v |-> k.v, pub |-> k.pub,
                                  entry |-> Signed(k.by, head, k.op, k.v)]]
    /\ UNCHANGED <<keys, head, rows, signer, ver, troubles>>

rpc_create(k) ==
    \/ /\ keys[k.v].status = "none"
       /\ keys' = [keys EXCEPT ![k.v] =
                      [status |-> "created", pub |-> k.pub, activated |-> 0, retired |-> 0]]
    \/ /\ keys[k.v].status = "created" /\ keys[k.v].pub = k.pub
       /\ UNCHANGED keys

rpc_activate_Again(k) ==
    /\ keys[k.v].status \in {"created", "active"}
    /\ keys' = [keys EXCEPT ![k.v].status = "active", ![k.v].activated = k.entry.no]

rpc_activate(k) ==
    /\ keys[k.v].status = "created"
    /\ keys' = [keys EXCEPT ![k.v].status = "active", ![k.v].activated = k.entry.no]

rpc_retire(k) ==
    /\ keys[k.v].status = "active"
    /\ keys' = [keys EXCEPT ![k.v].status = "retired", ![k.v].retired = k.entry.no]

record_verify_all_result(k) == k.op = "event" /\ UNCHANGED keys

\* The row of the key, the audit event and the ledger entry, in one transaction.
Transition(k) ==
    /\ k.entry.no = head.no + 1
    /\ Store(k.entry)
    /\ \/ k.op = "create" /\ rpc_create(k)
       \/ k.op = "activate" /\ rpc_activate(k)
       \/ k.op = "retire" /\ rpc_retire(k)
       \/ record_verify_all_result(k)

Commit(o) ==
    /\ cmd[o].pc = "commit"
    /\ Transition(cmd[o])
    /\ cmd' = [cmd EXCEPT ![o] = Idle]
    /\ UNCHANGED <<signer, ver, troubles>>

\* A command ends when a call does not get through or is refused, the last one when
\* the head has moved or the transition is not one of the lifecycle.  None tries again.
GiveUp(o) ==
    /\ cmd[o] # Idle
    /\ cmd' = [cmd EXCEPT ![o] = Idle]
    /\ UNCHANGED <<keys, head, rows, signer, ver, troubles>>

-----------------------------------------------------------------------------
(* Verification *)

\* A row comes with what the registry has of its key when it is read.
LedgerVerificationMaterialRow(n) ==
    LET r == rows[n] IN
    [no |-> r.no, prev |-> r.prev, op |-> r.op, v |-> r.v, key |-> r.key,
     hash |-> r.hash, sig |-> r.sig, pk |-> keys[r.key]]

\* order by sequence_no: the i-th of the numbers in S.
Ordered(S, i) == CHOOSE n \in S : Cardinality({m \in S : m <= n}) = i

\* rpc_export_ledger_verification_materials, as far as the API returns rows.
export_ledger_verification_materials(from, to) ==
    LET nos == DOMAIN rows \cap (from .. to)
        count == IF Cardinality(nos) < MaxRows THEN Cardinality(nos) ELSE MaxRows
    IN [i \in 1 .. count |-> LedgerVerificationMaterialRow(Ordered(nos, i))]

try_restore_verifying_key_ActiveOnly(e, pub) == e.pk.status = "active" /\ e.pk.pub = pub

\* The row's registered key is the public key pub; any status will do.
try_restore_verifying_key(e, pub) ==
    e.pk.status \in {"created", "active", "retired"} /\ e.pk.pub = pub

verify_signature(e) ==
    /\ try_restore_verifying_key(e, e.sig.pub)
    /\ e.sig.of = recompute_entry_hash(e)

HashChain_PreviousIgnored(es, initial) ==
    \A i \in DOMAIN es :
        /\ es[i].no = initial.no + i
        /\ recompute_entry_hash(es[i]) = es[i].hash

HashChain(es, initial) ==
    \A i \in DOMAIN es :
        /\ es[i].no = initial.no + i
        /\ es[i].prev = (IF i = 1 THEN initial.hash ELSE es[i - 1].hash)
        /\ recompute_entry_hash(es[i]) = es[i].hash

verify_ledger_chain(es, initial) ==
    HashChain(es, initial) /\ \A i \in DOMAIN es : verify_signature(es[i])

\* Where the range does not begin the ledger, its first row is believed.
initial_chain_head(from, es) ==
    IF from = 1 THEN Genesis ELSE [no |-> from - 1, hash |-> es[1].prev]

\* auditor verify: always from genesis; a range without rows is valid.
run_verify_command(es) == es = <<>> \/ verify_ledger_chain(es, Genesis)

verify_signature_material_rows(from, es) ==
    verify_ledger_chain(es, initial_chain_head(from, es))

\* The audit UI: a range without rows is not valid.
verify_signature_range(from, es) == es # <<>> /\ verify_signature_material_rows(from, es)

\* The audit report, of the range that the entries of its period span.
verify_signatures_for_summary(from, es) ==
    es # <<>> /\ verify_ledger_chain(es, initial_chain_head(from, es))

\* ledger_hash_chain_full_verify: the hashes must lead to the head.
verify_hash_chain_rows(h, es) ==
    /\ HashChain(es, Genesis)
    /\ h = IF es = <<>> THEN Genesis ELSE [no |-> es[Len(es)].no, hash |-> es[Len(es)].hash]

\* ledger_signature_full_verify and verify-all: each signature by itself.
verify_signature_rows(es) == \A i \in DOMAIN es : verify_signature(es[i])

Valid(kind, from, h, es) ==
    \/ kind = "auditor" /\ run_verify_command(es)
    \/ kind = "ui" /\ verify_signature_range(from, es)
    \/ kind = "report" /\ verify_signatures_for_summary(from, es)
    \/ kind = "full_hash" /\ verify_hash_chain_rows(h, es)
    \/ kind = "full_sign" /\ verify_signature_rows(es)

\* What a verification of kind says of the range, when it has fetched head h.
Verdict(kind, from, to, h) ==
    Valid(kind, from, h, export_ledger_verification_materials(from, to))

\* The full verifications, and the audit UI without a range, fetch the head; an
\* empty ledger needs no rows, and is valid.
fetch_ledger_chain_head ==
    /\ ver = Genesis /\ head # Genesis
    /\ ver' = head
    /\ UNCHANGED <<keys, head, rows, signer, cmd, troubles>>

\* They export up to that head: the verdict, or an error and none.
Export ==
    /\ ver # Genesis
    /\ ver' = Genesis
    /\ UNCHANGED <<keys, head, rows, signer, cmd, troubles>>

-----------------------------------------------------------------------------
(* What verification is for *)

\* A row's content changes, and its hash with it or not.
Alter(n) ==
    /\ Trouble
    /\ LET e == [rows[n] EXCEPT !.op = "altered"] IN
       \E h \in {e.hash, recompute_entry_hash(e)} :
          rows' = [rows EXCEPT ![n] = [e EXCEPT !.hash = h]]
    /\ UNCHANGED <<keys, head, signer, cmd, ver>>

Lose(n) ==
    /\ Trouble
    /\ rows' = Restrict(rows, DOMAIN rows \ {n})
    /\ UNCHANGED <<keys, head, signer, cmd, ver>>

-----------------------------------------------------------------------------
Next ==
    \/ \E s \in Server : Stop(s) \/ ServerAppend(s) \/ \E c \in Config : Start(s, c)
    \/ \E c \in Config :
          \/ DigestVerifyIncident(c)
          \/ \E o \in Operator :
                \/ verify_all(o, c)
                \/ \E v \in Version : \/ \E pub \in Material : create(o, v, pub, c)
                                      \/ activate(o, v, c) \/ retire(o, v, c)
    \/ \E o \in Operator : \/ get_ledger_signing_public_key_status(o)
                           \/ sign_signature_key_ledger_entry(o)
                           \/ Commit(o) \/ GiveUp(o)
    \/ fetch_ledger_chain_head \/ Export
    \/ \E n \in DOMAIN rows : Alter(n) \/ Lose(n)

Spec == Init /\ [][Next]_vars

-----------------------------------------------------------------------------
(* Properties *)

\* Entry n as it was written, and whether its row is as it was written.
Written(n) == head.hash[n]
Genuine(n) ==
    /\ n \in DOMAIN rows
    /\ rows[n].hash = SubSeq(head.hash, 1, n)
    /\ recompute_entry_hash(rows[n]) = rows[n].hash

\* Every entry but the incidents of digest verify is signed with a key that
\* was activated before, and with the registered key pair: the check at start
\* carries through whatever happens to the registry afterwards.
SignedAfterActivation ==
    \A n \in 1 .. head.no :
        Written(n).op # "incident" =>
            LET k == keys[Written(n).key] IN
            /\ k.status \in {"active", "retired"} /\ k.activated < n
            /\ n \in DOMAIN rows => rows[n].sig.pub = k.pub

\* The registry and the ledger tell the same: a key is in a status exactly when
\* the ledger has the entries that led there, activation and retirement once.
LifecycleIsLedgered ==
    LET Count(op, v) ==
            Cardinality({n \in 1 .. head.no : Written(n).op = op /\ Written(n).v = v})
    IN \A v \in Version \ {Bootstrap} :
          /\ keys[v].status # "none" <=> Count("create", v) > 0
          /\ Count("activate", v) = IF keys[v].status \in {"active", "retired"} THEN 1 ELSE 0
          /\ Count("retire", v) = IF keys[v].status = "retired" THEN 1 ELSE 0

\* The verifications that may answer now, as kind and range: of any range
\* on request, of the entries of some period, and up to a head fetched before.
Verifications ==
    LET Job(kind, from, to) == [kind |-> kind, from |-> from, to |-> to]
        Ranges == {r \in (1 .. head.no + 1) \X (1 .. head.no + 1) : r[1] <= r[2]}
    IN    {Job(kind, r[1], r[2]) : kind \in {"auditor", "ui"}, r \in Ranges}
     \cup {Job("report", r[1], r[2]) : r \in {x \in Ranges : {x[1], x[2]} \subseteq DOMAIN rows}}
     \cup {Job(kind, 1, ver.no) : kind \in IF ver = Genesis THEN {} ELSE {"ui", "full_hash", "full_sign"}}

Entries(v) == (1 .. head.no) \cap (v.from .. v.to)

\* The entries whose rows are as they were written, incidents of digest verify only
\* when the key they are signed with is the registered one.
Sound == {n \in 1 .. head.no :
            /\ Genuine(n)
            /\ Written(n).op # "incident" \/ verify_signature(LedgerVerificationMaterialRow(n))}

\* A verification of rows as they were written finds them valid, across rotations
\* of the key and appends during the verification.  It is said of the auditor
\* command only where its range begins at 1, of the full hash verification only up
\* to the rows that the API returns, and of audit UI and report for a range with rows.
GenuineVerifies ==
    \A v \in Verifications :
        /\ Entries(v) \subseteq Sound
        /\ v.kind = "auditor" => v.from = 1
        /\ v.kind = "full_hash" => v.to <= MaxRows
        /\ v.kind \in {"ui", "report"} => Entries(v) # {}
        => Verdict(v.kind, v.from, v.to, ver)

\* What the end-to-end test asserts of auditor verify: the range from the first to
\* the last entry that the audit UI lists, which may begin anywhere, is valid.
AuditorRangeVerifies ==
    \A v \in Verifications :
        v.kind = "auditor" /\ Entries(v) \subseteq Sound => Verdict(v.kind, v.from, v.to, ver)

\* Damage that the exported rows show is found.  A changed row by every
\* verifier that sees it (the full hash verification, any damage at all); a lost
\* row before one that is seen, by every one that follows the chain.
DamageIsFound ==
    LET Damaged == {n \in 1 .. head.no : ~Genuine(n)} IN
    \A v \in Verifications : Entries(v) \cap Damaged # {} =>
        LET seen == export_ledger_verification_materials(v.from, v.to)
            Seen == {seen[i].no : i \in DOMAIN seen}
            Missed == {n \in Entries(v) \ DOMAIN rows : \E m \in Seen : n < m}
        IN \/ Seen \cap Damaged # {}
           \/ v.kind # "full_sign" /\ Missed # {}
           \/ v.kind = "full_hash"
           => ~Verdict(v.kind, v.from, v.to, ver)
=============================================================================
