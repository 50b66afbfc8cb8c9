-------------------------- MODULE MCAuditFallback ---------------------------
(* Small instances of AuditFallback for TLC. *)
EXTENDS AuditFallback

\* The server and a CLI command on one file that stays below the rotation size.
Shared == [owner |-> [e \in 1..2 |-> IF e = 1 THEN "server" ELSE "cli"], foreign |-> {},
           refused |-> {}, rotate_size |-> 100, max_crashes |-> 1]

\* The server alone; the database refuses the first of its events every time.
Refusing == [owner |-> [e \in 1..2 |-> "server"], foreign |-> {}, refused |-> {1},
             rotate_size |-> 2, max_crashes |-> 1]

\* The server alone, which seals its file from two lines on; the last of its events has
\* a foreign id, or none has.
Conflicting == [owner |-> [e \in 1..2 |-> "server"], foreign |-> {2}, refused |-> {},
                rotate_size |-> 2, max_crashes |-> 2]
Sealing == [Conflicting EXCEPT !.foreign = {}]

\* The server alone with a file that is never sealed.
Unsealed == [owner |-> [e \in 1..2 |-> "server"], foreign |-> {}, refused |-> {},
             rotate_size |-> 100, max_crashes |-> 1]

MCDeployments == {Shared, Refusing, Conflicting, Sealing}
MCUnsealed == {Unsealed}
=============================================================================
