----------------------------- MODULE SimulateStack -----------------------------
(* The browser client of WorkerClient talking to the route and cache of RunCache: the    *)
(* fetch of a run is one POST, and what callServer() makes of the response depends on    *)
(* its shape.                                                                            *)
EXTENDS WorkerClient
CONSTANTS Hash, HashOf, Version

VARIABLES row, engine, handler, by, answer
served == <<row, engine, handler, by, answer>>

Api == INSTANCE RunCache WITH RunPosts <- Run, Malformed <- {}, Unsolved <- Faulty, stage <- handler

StackInit == Init /\ Api!RunInit

(* The page, its worker and the probe. *)
ClientStep ==
  /\ \/ \E c \in Call : FirstScenario(c) \/ NextScenario(c)
     \/ \E r \in Run : Reachable(r) \/ Unreachable(r)
     \/ \E w \in Worker : Replies(w) \/ WorkerFails(w)
  /\ UNCHANGED served

(* The server, once the POST of a run has arrived. *)
ServerStep ==
  /\ \/ \E r \in Run : \/ stage[r] = "fetching" /\ Api!PostRun(r)
                       \/ Api!Hit(r) \/ Api!Miss(r, FALSE) \/ Api!StoreAndRespond(r)
     \/ \E v \in Version : Api!Release(v)
  /\ UNCHANGED vars

(* callServer(), 289-291: a status other than 2xx throws, and resultFromJson() throws on  *)
(* a body without the fields of a whole SimulationResult (serialise.ts, 97 and 128-132).  *)
Arrives(r) ==
  /\ stage[r] = "fetching" /\ r \notin aborted /\ answer[r] # None
  /\ IF answer[r].shape = "result" THEN FetchResolved(r) ELSE FetchFailed(r)
  /\ UNCHANGED served

(* The fetch is aborted, or the network or the 5 s timer ends it first. *)
Lost(r) == /\ r \in aborted \/ answer[r] = None
           /\ FetchFailed(r)
           /\ UNCHANGED served

StackNext == ClientStep \/ ServerStep \/ \E r \in Run : Arrives(r) \/ Lost(r)
StackSpec == StackInit /\ [][StackNext]_<<vars, served>>

--------------------------------------------------------------------------------
(* workerClient.ts, 14-16: a response with status 200 is no failure of the server, so it  *)
(* does not take the store offline.                                                      *)
OkResponseIsNoFailure ==
  [][\A r \in Run : /\ stage[r] = "fetching" /\ stage'[r] # "fetching"
                    /\ r \notin aborted /\ answer[r] # None
                    /\ answer[r].shape # "error"
                    => (online => online')]_<<vars, served>>

--------------------------------------------------------------------------------
(* Values of the constants for a run: each call is a lone run, of the same request. *)
LoneRuns == [r \in Run |-> <<r>>]
SameHash == [r \in Run |-> CHOOSE h \in Hash : TRUE]
================================================================================
