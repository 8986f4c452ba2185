------------------------------ MODULE WorkerClient ------------------------------
(* apps/web/lib/workerClient.ts: runs a simulation on the server when it can be reached, *)
(* in the browser's worker (apps/web/workers/sim.worker.ts) when that fails, and lets    *)
(* only the latest run come back with a result.  An await is where one action ends and   *)
(* another begins; the worker runs beside the page.                                      *)
EXTENDS Integers, Sequences, FiniteSets

CONSTANTS Run,        \* calls of runSimulation(), each with its id
          Faulty,     \* those simulate() answers with an EngineError, here and on the server
          Call,       \* calls of runScenarios(); a lone run is a call with one scenario
          Scenarios,  \* Scenarios[c]: the sequence of runs of call c
          MaxWorkers, \* bounds the workers getWorker() creates; a run posts once, so a
                      \* bound of one for each run excludes nothing
          None

ASSUME ClientAssumption ==
  /\ Faulty \subseteq Run /\ MaxWorkers \in Nat \ {0} /\ None \notin Run
  /\ Scenarios \in [Call -> Seq(Run)]
  /\ \A c, d \in Call : \A i \in DOMAIN Scenarios[c], j \in DOMAIN Scenarios[d] :
        Scenarios[c][i] = Scenarios[d][j] => c = d /\ i = j

VARIABLES support,   \* hasRealWorkerSupport()
          stage,     \* where each run stands
          outcome,   \* how its promise stands
          currentId,
          aborted,   \* runs whose fetch was aborted by supersede()
          online,    \* the store's flag
          pending,   \* keys of the pending map
          singleton, \* the current worker, 0 when null
          created,   \* workersCreated
          inbox,     \* runs posted to a worker, not yet computed
          msgs,      \* its replies, not yet delivered
          done       \* done of each runScenarios()

page   == <<support, aborted, online, done>>
worker == <<pending, singleton, created, inbox, msgs>>
vars   == <<page, worker, stage, outcome, currentId>>

Worker == 1..MaxWorkers
Elems(s) == {s[i] : i \in DOMAIN s}

TypeOK == /\ support \in BOOLEAN /\ online \in BOOLEAN
          /\ stage \in [Run -> {"new", "probing", "fetching", "local", "settled"}]
          /\ outcome \in [Run -> {"new", "open", "result", "stale", "engineError", "workerError"}]
          /\ currentId \in Run \cup {None}
          /\ aborted \subseteq Run /\ pending \subseteq Run
          /\ created \in 0..MaxWorkers /\ singleton \in 0..created
          /\ inbox \in [Worker -> Seq(Run)] /\ msgs \in [Worker -> Seq(Run)]
          /\ done \in [Call -> Nat]

Init == /\ support \in BOOLEAN
        /\ stage = [r \in Run |-> "new"]
        /\ outcome = [r \in Run |-> "new"]
        /\ currentId = None
        /\ aborted = {} /\ pending = {} /\ singleton = 0 /\ created = 0
        /\ online = TRUE
        /\ inbox = [w \in Worker |-> <<>>]
        /\ msgs = [w \in Worker |-> <<>>]
        /\ done = [c \in Call |-> 0]

Settle(R, k) == /\ stage' = [r \in Run |-> IF r \in R THEN "settled" ELSE stage[r]]
                /\ outcome' = [r \in Run |-> IF r \in R THEN k ELSE outcome[r]]

--------------------------------------------------------------------------------
(* runSimulation(), 331-335, up to its first await.  supersede() aborts the fetch of the *)
(* run before, if it has one; the worker ignores the cancel message (sim.worker.ts, 58). *)
Supersede(r) ==
  /\ currentId' = r
  /\ aborted' = aborted \cup {p \in {currentId} \ {None, r} : stage[p] = "fetching"}

RunSimulation(r) ==
  /\ Supersede(r)
  /\ stage' = [stage EXCEPT ![r] = "probing"]
  /\ outcome' = [outcome EXCEPT ![r] = "open"]
  /\ UNCHANGED <<support, online, worker>>

(* runScenarios(), 358-371, up to its first await, and then after each run that resolved. *)
FirstScenario(c) ==
  /\ Scenarios[c] # <<>> /\ stage[Scenarios[c][1]] = "new"
  /\ RunSimulation(Scenarios[c][1])
  /\ UNCHANGED done

NextScenario(c) ==
  LET n == done[c] + 1 IN
    /\ n <= Len(Scenarios[c]) /\ outcome[Scenarios[c][n]] = "result"
    /\ done' = [done EXCEPT ![c] = n]
    /\ IF n < Len(Scenarios[c])
       THEN RunSimulation(Scenarios[c][n + 1])
       ELSE UNCHANGED <<stage, outcome, currentId, support, aborted, online, worker>>

--------------------------------------------------------------------------------
(* runOnWorker(), 232-243, with getWorker(), 149-157. *)
RunOnWorker(r) ==
  /\ pending' = pending \cup {r}
  /\ singleton = 0 => created < MaxWorkers
  /\ created' = IF singleton = 0 THEN created + 1 ELSE created
  /\ singleton' = IF singleton = 0 THEN created + 1 ELSE singleton
  /\ inbox' = [inbox EXCEPT ![singleton'] = Append(@, r)]
  /\ stage' = [stage EXCEPT ![r] = "local"]
  /\ UNCHANGED <<outcome, msgs>>

(* runSynchronously(), 249-268. *)
RunSynchronously(r) ==
  /\ Settle({r}, IF r \in Faulty THEN "engineError"
                 ELSE IF r # currentId THEN "stale" ELSE "result")
  /\ UNCHANGED worker

(* runSimulation(), 347-348 with runLocal(). *)
GoLocal(r) ==
  /\ online' = FALSE
  /\ IF support THEN RunOnWorker(r) ELSE RunSynchronously(r)
  /\ UNCHANGED <<support, currentId, aborted, done>>

(* isServerReachable(), 307-320, answers; a probe that fails or takes 2 s means no. *)
Reachable(r) ==
  /\ stage[r] = "probing"
  /\ stage' = [stage EXCEPT ![r] = "fetching"]
  /\ UNCHANGED <<page, worker, outcome, currentId>>
Unreachable(r) == stage[r] = "probing" /\ GoLocal(r)

(* callServer(), 278-296, returns a result, although r may have been superseded since ... *)
FetchResolvedUnchecked(r) ==
  /\ stage[r] = "fetching" /\ r \notin Faulty
  /\ online' = TRUE /\ Settle({r}, "result")
  /\ UNCHANGED <<support, aborted, done, worker, currentId>>
FetchResolved(r) ==
  /\ stage[r] = "fetching" /\ r \notin Faulty
  /\ IF r = currentId
     THEN online' = TRUE /\ Settle({r}, "result")
     ELSE UNCHANGED online /\ Settle({r}, "stale")
  /\ UNCHANGED <<support, aborted, done, worker, currentId>>

(* ... or throws: no network, a status other than 2xx, a body that is no result, 5 s     *)
(* gone by, or aborted by supersede().                                                   *)
FetchFailed(r) == stage[r] = "fetching" /\ GoLocal(r)

--------------------------------------------------------------------------------
(* sim.worker.ts, 55-93: one run at a time; what goes wrong becomes a reply as well. *)
AnswerUncaught(w) ==
  /\ inbox[w] # <<>>
  /\ inbox' = [inbox EXCEPT ![w] = Tail(@)]
  /\ msgs' = [msgs EXCEPT ![w] = IF Head(inbox[w]) \in Faulty THEN @ ELSE Append(@, Head(inbox[w]))]
  /\ UNCHANGED <<page, pending, singleton, created, stage, outcome, currentId>>
Answer(w) ==
  /\ inbox[w] # <<>>
  /\ inbox' = [inbox EXCEPT ![w] = Tail(@)]
  /\ msgs' = [msgs EXCEPT ![w] = Append(@, Head(inbox[w]))]
  /\ UNCHANGED <<page, pending, singleton, created, stage, outcome, currentId>>

(* onWorkerMessage(), 199-215. *)
OnWorkerMessage(w) ==
  /\ msgs[w] # <<>>
  /\ msgs' = [msgs EXCEPT ![w] = Tail(@)]
  /\ LET r == Head(msgs[w]) IN
       /\ pending' = pending \ {r}
       /\ IF r \notin pending THEN UNCHANGED <<stage, outcome>>
          ELSE Settle({r}, IF r # currentId THEN "stale"
                           ELSE IF r \in Faulty THEN "engineError" ELSE "result")
  /\ UNCHANGED <<page, singleton, created, inbox, currentId>>

(* onWorkerError(), 217-228, with rejectAllPending(). *)
RejectAllPending == pending' = {} /\ Settle(pending, "workerError")

OnWorkerError ==
  /\ RejectAllPending
  /\ singleton' = 0

(* An 'error' event of any worker ever created, the current one or not: its script did   *)
(* not load, or something uncaught was thrown in it.  It may have lost what was posted   *)
(* to it or go on with that.                                                             *)
WorkerFails(w) ==
  /\ w <= created
  /\ OnWorkerError
  /\ inbox' = [inbox EXCEPT ![w] = <<>>] \/ UNCHANGED inbox
  /\ UNCHANGED <<page, created, msgs, currentId>>

(* __terminateWorkerForTest(), 135-145: no event follows. *)
TerminateWorkerForTest ==
  /\ singleton # 0
  /\ singleton' = 0
  /\ RejectAllPending
  /\ inbox' = [inbox EXCEPT ![singleton] = <<>>]
  /\ msgs' = [msgs EXCEPT ![singleton] = <<>>]
  /\ UNCHANGED <<page, created, currentId>>

--------------------------------------------------------------------------------
Server(r)  == Reachable(r) \/ Unreachable(r) \/ FetchResolved(r) \/ FetchFailed(r)
Replies(w) == Answer(w) \/ OnWorkerMessage(w)

Next == \/ \E c \in Call : FirstScenario(c) \/ NextScenario(c)
        \/ \E r \in Run : Server(r)
        \/ \E w \in Worker : Replies(w) \/ WorkerFails(w)
        \/ TerminateWorkerForTest

(* The probe and the fetch end, by their timers if need be; a worker that has not failed *)
(* answers and its replies are delivered.                                                *)
Fairness == /\ \A r \in Run : WF_vars(Server(r))
            /\ \A w \in Worker : WF_vars(Answer(w)) /\ WF_vars(OnWorkerMessage(w))

Spec == Init /\ [][Next]_vars /\ Fairness

--------------------------------------------------------------------------------
(* 19-27: no stale result ever reaches a caller, and only a superseded run is stale. *)
Contract == INSTANCE LatestWins WITH latest <- currentId
OnlyLatestResolves == Contract!Spec

(* No promise stays open, whatever fails, is superseded or is terminated. *)
EveryRunSettles == \A r \in Run : outcome[r] = "open" ~> outcome[r] # "open"

================================================================================
