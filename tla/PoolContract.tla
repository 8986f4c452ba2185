------------------------------ MODULE PoolContract ------------------------------
(* What WorkerPool promises its callers (the Pool interface of apps/web/lib/pool.ts,     *)
(* lines 35-45): every request handed to run() or runMany() is settled at most once,     *)
(* with an answer, a crash report, an abort or a refusal, and never changes afterwards.  *)
(* Threads, slots and the queue do not exist at this level.                              *)
EXTENDS Sequences

CONSTANTS Task,   \* the requests ever submitted
          Faulty, \* those whose simulation ends in an EngineError
          Call,   \* the invocations of run() or runMany()
          Reqs    \* Reqs[c] is the sequence of requests of invocation c

VARIABLES outcome,    \* how each request's promise stands
          aborted,    \* the invocations whose AbortSignal has fired
          destroyed   \* destroy() has been called

vars == <<outcome, aborted, destroyed>>

Requests(c) == {Reqs[c][i] : i \in DOMAIN Reqs[c]}
Answers(t)  == {"crashed", IF t \in Faulty THEN "engineError" ELSE "result"}

Init == /\ outcome = [t \in Task |-> "new"]
        /\ aborted = {}
        /\ destroyed = FALSE

(* A call's requests all become pending together, or are all refused together. *)
Submit(c) ==
  /\ \A t \in Requests(c) : outcome[t] = "new"
  /\ \E k \in {"pending", "aborted", "destroyed"} :
       /\ destroyed <=> k = "destroyed"
       /\ k = "aborted" => c \in aborted
       /\ k = "pending" => c \notin aborted
       /\ outcome' = [t \in Task |-> IF t \in Requests(c) THEN k ELSE outcome[t]]
  /\ UNCHANGED <<aborted, destroyed>>

Answered(t) == outcome'[t] # outcome[t] /\ outcome'[t] # "aborted"

(* One thread's answer or death settles one pending request; the requests of aborted     *)
(* calls that were only waiting may be turned away in the same step.                     *)
Settle ==
  /\ \A t \in Task : outcome'[t] # outcome[t] =>
       /\ outcome[t] = "pending"
       /\ \/ outcome'[t] \in Answers(t)
          \/ outcome'[t] = "aborted" /\ \E c \in aborted : t \in Requests(c)
  /\ \A t, u \in Task : Answered(t) /\ Answered(u) => t = u
  /\ UNCHANGED <<aborted, destroyed>>

Abort(c) == /\ aborted' = aborted \cup {c}
            /\ UNCHANGED <<outcome, destroyed>>

(* destroy() leaves nobody waiting. *)
Destroy ==
  /\ destroyed' = TRUE
  /\ outcome' = [t \in Task |-> IF outcome[t] = "pending" THEN "destroyed" ELSE outcome[t]]
  /\ UNCHANGED aborted

Next == \/ \E c \in Call : Submit(c) \/ Abort(c)
        \/ Settle
        \/ Destroy

Spec == Init /\ [][Next]_vars
================================================================================
