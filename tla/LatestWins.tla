------------------------------- MODULE LatestWins -------------------------------
(* What a supersedable service promises: every run is settled at most once, only the     *)
(* latest one with a result, and only an earlier one as stale.                           *)
CONSTANTS Run, None
VARIABLES latest, outcome

Init == latest = None /\ outcome = [r \in Run |-> "new"]

Start(r) == /\ outcome[r] = "new"
            /\ latest' = r
            /\ outcome' = [outcome EXCEPT ![r] = "open"]

Resolve(r) == /\ outcome[r] = "open" /\ r = latest
              /\ outcome' = [outcome EXCEPT ![r] = "result"]
              /\ UNCHANGED latest

(* Runs fail for reasons of their own, several at a time when what runs them breaks. *)
Reject == /\ UNCHANGED latest
          /\ \E F \in [{r \in Run : outcome[r] = "open"} -> {"open", "stale", "engineError", "workerError"}] :
               /\ \A r \in DOMAIN F : F[r] = "stale" => r # latest
               /\ outcome' = [r \in Run |-> IF r \in DOMAIN F THEN F[r] ELSE outcome[r]]

Next == Reject \/ \E r \in Run : Start(r) \/ Resolve(r)
Spec == Init /\ [][Next]_<<latest, outcome>>
================================================================================
