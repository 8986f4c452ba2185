---------------------------- MODULE SimulateService ----------------------------
(* What POST /api/simulate promises, database or not: each request is answered by the    *)
(* engine of the process that accepted it, exactly as if nothing had ever been cached.   *)
CONSTANTS Ask, Unsolved, Version, None
VARIABLES by,      \* the engine version of the process that accepted each request
          reply    \* the version whose simulate() the reply holds, "error", or None

Init == by = [a \in Ask |-> None] /\ reply = [a \in Ask |-> None]

Accept(a) == /\ by[a] = None
             /\ \E v \in Version : by' = [by EXCEPT ![a] = v]
             /\ \/ UNCHANGED reply
                \/ a \in Unsolved /\ reply' = [reply EXCEPT ![a] = "error"]

Reply(a) == /\ by[a] # None /\ reply[a] = None
            /\ reply' = [reply EXCEPT ![a] = IF a \in Unsolved THEN "error" ELSE by[a]]
            /\ UNCHANGED by

Next == \E a \in Ask : Accept(a) \/ Reply(a)
Spec == Init /\ [][Next]_<<by, reply>>
================================================================================
