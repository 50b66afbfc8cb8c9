--------------------------- MODULE MCLedgerChain ----------------------------
(***************************************************************************)
(* Small instances of LedgerChain: calls of `append` and a single-shot     *)
(* call with two drafts (a write that purges a version).                   *)
(***************************************************************************)
EXTENDS LedgerChain, TLC

CONSTANTS a1, a2, w1

MCBatch == (a1 :> <<1>>) @@ (a2 :> <<2>>) @@ (w1 :> <<3, 4>>)

\* The network may deliver a request of a1 a second time.
MCCopies == (a1 :> {1, 2}) @@ (a2 :> {1}) @@ (w1 :> {1})

\* An ideal hash: a digest is the history it commits to, so two different
\* histories never collide (histories are at most MaxSequenceNo long).
MCHash == UNION {[1..n -> (1..MaxSequenceNo) \X EntryId] : n \in 0..MaxSequenceNo}
MCGenesisHash == <<>>
MCEntryHash(id, n, prev) == IF Len(prev) < MaxSequenceNo THEN Append(prev, <<n, id>>)
                            ELSE MCGenesisHash
=============================================================================
