-------------------------- MODULE MCMonthlyDigest ---------------------------
(***************************************************************************)
(* MonthlyDigest for TLC.  The calendar starts in an April (month 3), so   *)
(* that the first window is also a quarterly one; a month has the hours of *)
(* the monthly day and one slot for the rest.                              *)
(***************************************************************************)
EXTENDS MonthlyDigest

\* The scheduler alone: two failing calls and a restart anywhere.
Unattended == [faults |-> {"unread", "refused", "lost", "torn", "silent"}, max_faults |-> 2,
               max_crashes |-> 1, max_other |-> 0, entries |-> 1, max_rows |-> 100,
               generate |-> {}, verify |-> {}]

\* An operator runs both digest commands beside it; nothing fails.
Calm == [faults |-> {}, max_faults |-> 0, max_crashes |-> 0, max_other |-> 0,
         entries |-> 1, max_rows |-> 100, generate |-> {2}, verify |-> {2}]

\* A digest is generated beside it while other operations append.
Attended == [Calm EXCEPT !.max_other = 1, !.verify = {}]

\* A digest is generated beside the scheduler while a request arrives after its
\* caller has given up.
Overtaken == [Calm EXCEPT !.faults = {"late"}, !.max_faults = 1, !.verify = {}]

\* Two requests of the scheduler are given up on: one of an export that arrives during
\* the next export.
Resumed == [Overtaken EXCEPT !.max_faults = 2, !.generate = {}]

\* The month has no entries; the jobs fail in every poll.
Empty == [Calm EXCEPT !.faults = {"unread"}, !.max_faults = 1, !.entries = 0, !.generate = {},
                      !.verify = {}]

\* The ledger outgrows an answer of the API, before the first verification or after
\* it, when a restart forgets what was done; nothing else fails.
Crowded == [Calm EXCEPT !.max_crashes = 1, !.max_rows = 4, !.generate = {}, !.verify = {}]

\* A digest is verified while a read may fail.
Verified == [Calm EXCEPT !.faults = {"unread"}, !.max_faults = 1, !.generate = {}]

MCScenario == {Unattended, Attended, Overtaken, Verified, Resumed, Empty, Crowded}
MCCalm == {Calm}
=============================================================================
