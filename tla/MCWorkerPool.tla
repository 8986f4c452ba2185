------------------------------ MODULE MCWorkerPool ------------------------------
(* A pool of two threads, two spare threads (so two deaths), one runMany() of two        *)
(* requests and one run(): the queue grows, both slots fill, and an abort hits some of   *)
(* a batch while it waits and some while it runs.                                        *)
EXTENDS WorkerPool

CONSTANTS t1, t2, t3, many, single

MCTask   == {t1, t2, t3}
MCCall   == {many, single}
MCSignalled == {many}
MCFaulty == {t2}
MCReqs   == [c \in MCCall |-> IF c = many THEN <<t1, t2>> ELSE <<t3>>]
================================================================================
