---------------------------- MODULE MCImportJobs ----------------------------
(* One user's two import attempts, one or two workers and two commit       *)
(* requests.                                                               *)
EXTENDS ImportJobs

CONSTANTS j1, j2, alice, w1, w2, q1, q2

TwoJobs == {j1, j2}
OneUser == {alice}
Alices == [j \in Jobs |-> alice]
OneWorker == {w1}
TwoWorkers == {w1, w2}
TwoRequests == {q1, q2}
=============================================================================
