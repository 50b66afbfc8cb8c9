----------------------------- MODULE LedgerLog ------------------------------
(***************************************************************************)
(* What the signed ledger promises its callers, with no hashes, heads,     *)
(* locks, retries or messages: an append-only log to which the drafts of   *)
(* one call are added together, once, and never answered "ok" before they  *)
(* are in it.  LedgerChain is shown to implement this module.              *)
(***************************************************************************)
EXTENDS Integers, Sequences

CONSTANTS Call,     \* the calls that append to the ledger
          Batch     \* Batch[c]: the ids of the drafts of call c, in order

VARIABLES log,      \* the ids of the entries, in sequence_no order
          outcome   \* outcome[c]: what call c returned, "none" while it runs

vars == <<log, outcome>>

Outcomes == {"ok", "conflict", "invalid", "external"}

\* The drafts of c occupy consecutive places of the log.
Appended(c) == \E n \in 0..Len(log) :
                  /\ n + Len(Batch[c]) <= Len(log)
                  /\ \A i \in 1..Len(Batch[c]) : log[n + i] = Batch[c][i]

Init == /\ log = <<>>
        /\ outcome = [c \in Call |-> "none"]

\* A call may still reach the log after it has been answered "external": the
\* caller has given up, the request has not.
AppendBatch(c) == /\ \A i \in 1..Len(log) : \A j \in 1..Len(Batch[c]) : log[i] # Batch[c][j]
                  /\ log' = log \o Batch[c]
                  /\ UNCHANGED outcome

Answer(c, o) == /\ outcome[c] = "none"
                /\ o = "ok" => Appended(c)
                /\ outcome' = [outcome EXCEPT ![c] = o]
                /\ UNCHANGED log

Next == \E c \in Call : AppendBatch(c) \/ \E o \in Outcomes : Answer(c, o)

Spec == Init /\ [][Next]_vars
=============================================================================
