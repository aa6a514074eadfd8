---------------------------- MODULE ImportOutcome ----------------------------
(***************************************************************************)
(* What an import job promises its user: its rows are applied to the list  *)
(* once or not at all; a job that failed or was superseded is dropped for  *)
(* good, and one that was applied stays applied.                           *)
(***************************************************************************)
CONSTANT Jobs
VARIABLE outcome    \* outcome[j]: "open", "applied" or "dropped"

Init == outcome = [j \in Jobs |-> "open"]

Apply(j) == outcome[j] = "open" /\ outcome' = [outcome EXCEPT ![j] = "applied"]

(* A new import may drop several previews at once.                         *)
Drop(js) ==
    /\ \A j \in js : outcome[j] = "open"
    /\ outcome' = [j \in Jobs |-> IF j \in js THEN "dropped" ELSE outcome[j]]

Next == (\E j \in Jobs : Apply(j)) \/ (\E js \in SUBSET Jobs : Drop(js))

Spec == Init /\ [][Next]_outcome
=============================================================================
