---------------------------- MODULE MCWorkerClient ----------------------------
(* A batch of two scenarios and two lone runs, one of them faulty; a worker for   *)
(* each run, so that any of them may fail, again and again, at any moment.        *)
EXTENDS WorkerClient
CONSTANTS r1, r2, r3, r4, many, one, two
Runs   == {r1, r2, r3, r4}
Bad    == {r4}
Calls  == {many, one, two}
Lists  == [c \in Calls |-> CASE c = many -> <<r1, r2>> [] c = one -> <<r3>> [] OTHER -> <<r4>>]
================================================================================
