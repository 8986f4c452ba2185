------------------------------- MODULE ClientProofs -------------------------------
(* Proofs about WorkerClient: for any runs, calls and number of workers, however runs      *)
(* supersede each other, workers fail and fetches are aborted or lost.  Then proofs about  *)
(* the studio's controls, DesignPanel, and about the requests that are assembled of what   *)
(* they make, Assembly.                                                                   *)
EXTENDS WorkerClient, DesignPanel, FiniteSetTheorems, TLAPS

(* A run's promise stands as its stage says. *)
Matches == \A r \in Run : /\ stage[r] = "new" <=> outcome[r] = "new"
                          /\ stage[r] = "settled" <=> outcome[r] \notin {"new", "open"}

(* Only runs on the worker have a key in the pending map. *)
Posted == \A r \in pending : stage[r] = "local"

(* The runs of a call behind the one it has got to have not begun. *)
Ahead == \A c \in Call : \A i \in DOMAIN Scenarios[c] :
           i > done[c] + 1 => stage[Scenarios[c][i]] = "new"

(* The inductive invariant. *)
IInv == TypeOK /\ Matches /\ Posted /\ Ahead

Stages   == {"new", "probing", "fetching", "local", "settled"}
Outcomes == {"new", "open", "result", "stale", "engineError", "workerError"}

(* What the page's calls and promises keep: the part of IInv that does not depend on how  *)
(* the worker's queues look.                                                              *)
Core == /\ stage \in [Run -> Stages] /\ outcome \in [Run -> Outcomes]
        /\ pending \subseteq Run
        /\ Matches /\ Posted /\ Ahead

(* A step or a stutter of LatestWins. *)
Step == [Contract!Next]_<<currentId, outcome>>

--------------------------------------------------------------------------------
LEMMA InitInv == Init => IInv
BY ClientAssumption DEF Init, IInv, TypeOK, Matches, Posted, Ahead, Worker

LEMMA HasCore == IInv => Core
BY DEF IInv, TypeOK, Core, Stages, Outcomes

(* Promises that are settled: the contract's Resolve for the latest run, its Reject for    *)
(* any others.                                                                            *)
LEMMA Settling ==
  ASSUME Core, NEW R \in SUBSET Run, \A r \in R : outcome[r] = "open",
         NEW k \in {"result", "stale", "engineError", "workerError"}, Settle(R, k),
         UNCHANGED <<currentId, done>>, pending' \subseteq pending \ R,
         k = "stale" => currentId \notin R, k = "result" => R = {currentId}
  PROVE  Core' /\ Step
<1> USE DEF Core
<1>1. /\ stage' = [r \in Run |-> IF r \in R THEN "settled" ELSE stage[r]]
      /\ outcome' = [r \in Run |-> IF r \in R THEN k ELSE outcome[r]]
  BY DEF Settle
<1>2. stage' \in [Run -> Stages] /\ outcome' \in [Run -> Outcomes] /\ Matches'
  BY <1>1 DEF Matches, Stages, Outcomes
<1>3. Posted'
  BY <1>1 DEF Posted
<1>4. Ahead'
  <2> SUFFICES ASSUME NEW c \in Call, NEW i \in DOMAIN Scenarios[c], i > done[c] + 1
               PROVE  stage'[Scenarios[c][i]] = "new"
    BY DEF Ahead
  <2>1. Scenarios[c][i] \in Run /\ stage[Scenarios[c][i]] = "new"
    BY ClientAssumption DEF Ahead
  <2> QED BY <1>1, <2>1 DEF Matches
<1>5. CASE k = "result"
  <2>1. outcome' = [outcome EXCEPT ![currentId] = "result"] /\ currentId \in Run
    BY <1>1, <1>5
  <2>2. Contract!Resolve(currentId)
    BY <1>5, <2>1 DEF Contract!Resolve
  <2> QED BY <1>2, <1>3, <1>4, <2>1, <2>2 DEF Step, Contract!Next
<1>6. CASE k # "result"
  <2> DEFINE open == {r \in Run : outcome[r] = "open"}
             F == [r \in open |-> IF r \in R THEN k ELSE "open"]
  <2>1. F \in [open -> {"open", "stale", "engineError", "workerError"}]
    BY <1>6
  <2>2. \A r \in DOMAIN F : F[r] = "stale" => r # currentId
    OBVIOUS
  <2>3. outcome' = [r \in Run |-> IF r \in DOMAIN F THEN F[r] ELSE outcome[r]]
    BY <1>1
  <2>4. Contract!Reject
    BY <2>1, <2>2, <2>3 DEF Contract!Reject
  <2> QED BY <1>2, <1>3, <1>4, <2>4 DEF Step, Contract!Next
<1> QED BY <1>2, <1>3, <1>4, <1>5, <1>6

LEMMA SettlingOne ==
  ASSUME Core, NEW r \in Run, outcome[r] = "open",
         NEW k \in {"result", "stale", "engineError"}, Settle({r}, k),
         UNCHANGED <<currentId, done>>, pending' \subseteq pending \ {r},
         k = "stale" => currentId # r, k = "result" => currentId = r
  PROVE  Core' /\ Step
<1> DEFINE R == {r}
<1>1. /\ R \in SUBSET Run /\ Settle(R, k)
      /\ \A q \in R : outcome[q] = "open"
      /\ k = "stale" => currentId \notin R
      /\ k = "result" => R = {currentId}
  OBVIOUS
<1>2. pending' \subseteq pending \ R
  OBVIOUS
<1> HIDE DEF R
<1> QED BY <1>1, <1>2, Settling

(* A run that goes on, to the server or to the worker, leaves every promise as it stands. *)
LEMMA Moving ==
  ASSUME Core, NEW r \in Run, stage[r] \in {"probing", "fetching"},
         NEW to \in {"fetching", "local"}, stage' = [stage EXCEPT ![r] = to],
         UNCHANGED <<currentId, outcome, done>>,
         pending' \subseteq pending \cup {r}, r \in pending' => to = "local"
  PROVE  Core' /\ Step
<1> USE DEF Core
<1>1. stage' \in [Run -> Stages] /\ Matches'
  BY DEF Matches, Stages
<1>2. Posted'
  BY DEF Posted
<1>3. Ahead'
  <2> SUFFICES ASSUME NEW c \in Call, NEW i \in DOMAIN Scenarios[c], i > done[c] + 1
               PROVE  stage'[Scenarios[c][i]] = "new"
    BY DEF Ahead
  <2>1. Scenarios[c][i] \in Run /\ stage[Scenarios[c][i]] = "new"
    BY ClientAssumption DEF Ahead
  <2> QED BY <2>1
<1> QED BY <1>1, <1>2, <1>3 DEF Step

(* A run that begins supersedes the one before: the contract's Start. *)
LEMMA Beginning ==
  ASSUME IInv, NEW c \in Call, NEW n \in DOMAIN Scenarios[c],
         stage[Scenarios[c][n]] = "new", RunSimulation(Scenarios[c][n]),
         done' \in [Call -> Nat], \A d \in Call : done'[d] >= done[d], done'[c] + 1 >= n
  PROVE  IInv' /\ Step
<1> USE ClientAssumption
<1> DEFINE r == Scenarios[c][n]
<1>1. /\ r \in Run /\ currentId' = r /\ UNCHANGED <<support, online, worker>>
      /\ stage' = [stage EXCEPT ![r] = "probing"]
      /\ outcome' = [outcome EXCEPT ![r] = "open"]
  BY DEF RunSimulation, Supersede
<1>2. aborted' \subseteq Run
  BY DEF RunSimulation, Supersede, IInv, TypeOK
<1>3. Ahead'
  <2> SUFFICES ASSUME NEW d \in Call, NEW i \in DOMAIN Scenarios[d], i > done'[d] + 1
               PROVE  stage'[Scenarios[d][i]] = "new"
    BY DEF Ahead
  <2>1. i \in Nat /\ n \in Nat /\ done[d] \in Nat /\ done'[d] \in Nat /\ Scenarios[d][i] \in Run
    BY DEF IInv, TypeOK
  <2>2. Scenarios[d][i] # r
    BY <2>1
  <2>3. stage[Scenarios[d][i]] = "new"
    BY <2>1 DEF IInv, Ahead
  <2> QED BY <1>1, <2>1, <2>2, <2>3 DEF IInv, TypeOK
<1> HIDE DEF r
<1>4. TypeOK'
  BY <1>1, <1>2 DEF IInv, TypeOK, worker
<1>5. Matches' /\ Posted'
  BY <1>1 DEF IInv, TypeOK, Matches, Posted, worker, r
<1>6. Contract!Start(r)
  BY <1>1 DEF Contract!Start, IInv, Matches, r
<1> QED BY <1>1, <1>3, <1>4, <1>5, <1>6 DEF IInv, Step, Contract!Next

--------------------------------------------------------------------------------
(* The worker's bookkeeping and the other flags of the page. *)
Kept == /\ support \in BOOLEAN /\ online \in BOOLEAN
        /\ currentId \in Run \cup {None} /\ aborted \subseteq Run
        /\ created \in 0..MaxWorkers /\ singleton \in 0..created
        /\ inbox \in [Worker -> Seq(Run)] /\ msgs \in [Worker -> Seq(Run)]
        /\ done \in [Call -> Nat]

LEMMA Halves == IInv <=> Core /\ Kept
BY DEF IInv, TypeOK, Core, Kept, Stages, Outcomes

LEMMA HalvesNext == Core' /\ Kept' => IInv'
BY DEF IInv, TypeOK, Core, Kept, Stages, Outcomes

LEMMA Calls ==
  ASSUME IInv, NEW c \in Call, FirstScenario(c) \/ NextScenario(c)
  PROVE  IInv' /\ Step
<1> USE ClientAssumption
<1>1. Scenarios[c] \in Seq(Run) /\ done \in [Call -> Nat] /\ done[c] \in Nat
  BY DEF IInv, TypeOK
<1>2. CASE FirstScenario(c)
  <2>1. /\ 1 \in DOMAIN Scenarios[c] /\ stage[Scenarios[c][1]] = "new"
        /\ RunSimulation(Scenarios[c][1]) /\ done' = done
    BY <1>1, <1>2 DEF FirstScenario
  <2>2. \A d \in Call : done'[d] >= done[d]
    BY <1>1, <2>1
  <2> QED BY <1>1, <2>1, <2>2, Beginning
<1>3. CASE NextScenario(c)
  <2> DEFINE n == done[c] + 1
  <2>1. n \in Nat /\ n <= Len(Scenarios[c]) /\ done' = [done EXCEPT ![c] = n]
    BY <1>1, <1>3 DEF NextScenario
  <2>2. done' \in [Call -> Nat] /\ done'[c] = n /\ \A d \in Call : done'[d] >= done[d]
    BY <1>1, <2>1
  <2>3. CASE n < Len(Scenarios[c])
    <3>1. n + 1 \in DOMAIN Scenarios[c] /\ RunSimulation(Scenarios[c][n + 1])
      BY <1>1, <1>3, <2>1, <2>3 DEF NextScenario
    <3>2. stage[Scenarios[c][n + 1]] = "new"
      BY <1>1, <3>1 DEF IInv, Ahead
    <3> QED BY <2>1, <2>2, <3>1, <3>2, Beginning
  <2>4. CASE ~ (n < Len(Scenarios[c]))
    <3>1. UNCHANGED <<stage, outcome, currentId, support, aborted, online, worker>>
      BY <1>3, <2>4 DEF NextScenario
    <3>2. Ahead'
      <4> SUFFICES ASSUME NEW d \in Call, NEW i \in DOMAIN Scenarios[d], i > done'[d] + 1
                   PROVE  stage[Scenarios[d][i]] = "new"
        BY <3>1 DEF Ahead
      <4>1. i \in Nat /\ done[d] \in Nat /\ done'[d] \in Nat /\ done'[d] >= done[d]
        BY <2>2 DEF IInv, TypeOK
      <4> QED BY <4>1 DEF IInv, Ahead
    <3>3. TypeOK' /\ Matches' /\ Posted'
      BY <2>2, <3>1 DEF IInv, TypeOK, Matches, Posted, worker
    <3> QED BY <3>1, <3>2, <3>3 DEF IInv, Step
  <2> QED BY <2>3, <2>4
<1> QED BY <1>2, <1>3

(* runLocal(): on the worker, or on the page when there is none. *)
LEMMA GoesLocal ==
  ASSUME IInv, NEW r \in Run, stage[r] \in {"probing", "fetching"}, GoLocal(r)
  PROVE  IInv' /\ Step
<1> USE ClientAssumption
<1>1. /\ online' = FALSE /\ UNCHANGED <<support, currentId, aborted, done>>
      /\ Core /\ Kept /\ outcome[r] = "open" /\ r # None
  BY Halves DEF GoLocal, Core, Matches, Outcomes
<1>2. CASE RunOnWorker(r)
  <2>1. /\ pending' = pending \cup {r} /\ stage' = [stage EXCEPT ![r] = "local"]
        /\ UNCHANGED <<outcome, msgs>>
    BY <1>2 DEF RunOnWorker
  <2>2. created' \in 0..MaxWorkers /\ singleton' \in 1..created'
    BY <1>1, <1>2 DEF RunOnWorker, Kept
  <2>3. inbox' \in [Worker -> Seq(Run)]
    <3>1. singleton' \in Worker
      BY <2>2 DEF Worker
    <3>2. Append(inbox[singleton'], r) \in Seq(Run)
      BY <1>1, <3>1 DEF Kept
    <3> QED BY <1>1, <1>2, <3>1, <3>2 DEF RunOnWorker, Kept
  <2>4. Core' /\ Step
    BY <1>1, <2>1, Moving
  <2>5. Kept'
    <3>1. singleton' \in 0..created'
      BY <2>2
    <3> QED BY <1>1, <2>1, <2>2, <2>3, <3>1 DEF Kept
  <2> QED BY <2>4, <2>5, HalvesNext
<1>3. CASE RunSynchronously(r)
  <2>1. PICK k \in {"engineError", "stale", "result"} :
          /\ Settle({r}, k)
          /\ k = "stale" => currentId # r
          /\ k = "result" => currentId = r
    BY <1>3 DEF RunSynchronously
  <2>2. UNCHANGED worker
    BY <1>3 DEF RunSynchronously
  <2>3. r \notin pending
    BY DEF IInv, Posted
  <2>4. Core' /\ Step
    <3>1. pending' \subseteq pending \ {r}
      BY <2>2, <2>3 DEF worker
    <3> QED BY <1>1, <2>1, <3>1, SettlingOne
  <2> QED BY <1>1, <2>2, <2>4, HalvesNext DEF Kept, worker
<1> QED BY <1>2, <1>3 DEF GoLocal

LEMMA Servers ==
  ASSUME IInv, NEW r \in Run, Server(r)
  PROVE  IInv' /\ Step
<1> USE ClientAssumption
<1>1. Core /\ Kept
  BY Halves
<1>2. CASE Unreachable(r) \/ FetchFailed(r)
  BY <1>2, GoesLocal DEF Unreachable, FetchFailed
<1>3. CASE Reachable(r)
  <2>1. /\ stage[r] = "probing" /\ stage' = [stage EXCEPT ![r] = "fetching"]
        /\ UNCHANGED <<page, worker, outcome, currentId>> /\ r \notin pending
    BY <1>3 DEF Reachable, IInv, Posted
  <2>2. Core' /\ Step
    BY <1>1, <2>1, Moving DEF page, worker
  <2> QED BY <1>1, <2>1, <2>2, HalvesNext DEF Kept, page, worker
<1>4. CASE FetchResolved(r)
  <2>1. /\ stage[r] = "fetching" /\ UNCHANGED <<support, aborted, done, worker, currentId>>
        /\ online' \in BOOLEAN
    BY <1>1, <1>4 DEF FetchResolved, Kept
  <2>2. PICK k \in {"stale", "result"} :
          /\ Settle({r}, k)
          /\ k = "stale" => currentId # r
          /\ k = "result" => currentId = r
    BY <1>4 DEF FetchResolved
  <2>3. outcome[r] = "open" /\ pending' \subseteq pending \ {r}
    BY <1>1, <2>1 DEF Core, Matches, Outcomes, Posted, worker
  <2>4. Core' /\ Step
    BY <1>1, <2>1, <2>2, <2>3, SettlingOne
  <2> QED BY <1>1, <2>1, <2>4, HalvesNext DEF Kept, worker
<1> QED BY <1>2, <1>3, <1>4 DEF Server

LEMMA Workers ==
  ASSUME IInv, NEW w \in Worker, Replies(w) \/ WorkerFails(w)
  PROVE  IInv' /\ Step
<1> USE ClientAssumption
<1>1. Core /\ Kept
  BY Halves
<1>2. CASE Answer(w)
  <2>1. /\ UNCHANGED <<page, pending, singleton, created, stage, outcome, currentId>>
        /\ inbox[w] # <<>> /\ inbox[w] \in Seq(Run) /\ msgs[w] \in Seq(Run)
        /\ inbox' = [inbox EXCEPT ![w] = Tail(@)]
        /\ msgs' = [msgs EXCEPT ![w] = Append(@, Head(inbox[w]))]
    BY <1>1, <1>2 DEF Answer, Kept
  <2>2. Tail(inbox[w]) \in Seq(Run) /\ Append(msgs[w], Head(inbox[w])) \in Seq(Run)
    BY <2>1
  <2>3. Kept'
    BY <1>1, <2>1, <2>2 DEF Kept, page
  <2>4. Core' /\ Step
    BY <1>1, <2>1 DEF Core, Matches, Posted, Ahead, Step, page
  <2> QED BY <2>3, <2>4, HalvesNext
<1>3. CASE OnWorkerMessage(w)
  <2> DEFINE r == Head(msgs[w])
  <2>1. /\ UNCHANGED <<page, singleton, created, inbox, currentId>>
        /\ msgs[w] # <<>> /\ msgs[w] \in Seq(Run) /\ msgs' = [msgs EXCEPT ![w] = Tail(@)]
        /\ pending' = pending \ {r}
    BY <1>1, <1>3 DEF OnWorkerMessage, Kept
  <2>2. r \in Run /\ Tail(msgs[w]) \in Seq(Run)
    BY <2>1
  <2>3. Kept'
    BY <1>1, <2>1, <2>2 DEF Kept, page
  <2>4. CASE r \notin pending
    <3>1. UNCHANGED <<stage, outcome, pending>>
      BY <1>3, <2>1, <2>4 DEF OnWorkerMessage
    <3> QED BY <1>1, <2>1, <2>3, <3>1, HalvesNext DEF Core, Matches, Posted, Ahead, Step, page
  <2>5. CASE r \in pending
    <3>1. PICK k \in {"stale", "engineError", "result"} :
            /\ Settle({r}, k)
            /\ k = "stale" => currentId # r
            /\ k = "result" => currentId = r
      BY <1>3, <2>5 DEF OnWorkerMessage
    <3>2. /\ outcome[r] = "open"
          /\ pending' \subseteq pending \ {r} /\ UNCHANGED <<currentId, done>>
      BY <1>1, <2>1, <2>2, <2>5 DEF Core, Matches, Outcomes, Posted, page
    <3>3. r \in Run /\ Core
      BY <1>1, <2>2
    <3> HIDE DEF r
    <3>4. Core' /\ Step
      BY <3>1, <3>2, <3>3, SettlingOne
    <3> QED BY <2>3, <3>4, HalvesNext
  <2> QED BY <2>4, <2>5
<1>4. CASE WorkerFails(w)
  <2>1. /\ RejectAllPending /\ singleton' = 0 /\ UNCHANGED <<page, created, msgs, currentId>>
        /\ inbox' \in [Worker -> Seq(Run)]
    <3>1. [inbox EXCEPT ![w] = <<>>] \in [Worker -> Seq(Run)]
      BY <1>1 DEF Kept
    <3> QED BY <1>1, <1>4, <3>1 DEF WorkerFails, OnWorkerError, Kept
  <2>2. Kept'
    BY <1>1, <2>1 DEF Kept, page
  <2>3. /\ Settle(pending, "workerError") /\ pending' = {} /\ pending \in SUBSET Run
        /\ \A q \in pending : outcome[q] = "open"
    BY <1>1, <2>1 DEF RejectAllPending, Core, Matches, Outcomes, Posted
  <2>4. Core' /\ Step
    BY <1>1, <2>1, <2>3, Settling DEF page
  <2> QED BY <2>2, <2>4, HalvesNext
<1> QED BY <1>2, <1>3, <1>4 DEF Replies

LEMMA Terminates ==
  ASSUME IInv, TerminateWorkerForTest
  PROVE  IInv' /\ Step
<1> USE ClientAssumption
<1>1. Core /\ Kept
  BY Halves
<1>2. /\ RejectAllPending /\ singleton' = 0 /\ UNCHANGED <<page, created, currentId>>
      /\ inbox' \in [Worker -> Seq(Run)] /\ msgs' \in [Worker -> Seq(Run)]
  <2>1. singleton \in Worker
    BY <1>1 DEF TerminateWorkerForTest, Kept, Worker
  <2>2. \A q \in [Worker -> Seq(Run)] : [q EXCEPT ![singleton] = <<>>] \in [Worker -> Seq(Run)]
    BY <2>1
  <2> QED BY <1>1, <2>2 DEF TerminateWorkerForTest, Kept
<1>3. Kept'
  BY <1>1, <1>2 DEF Kept, page
<1>4. /\ Settle(pending, "workerError") /\ pending' = {} /\ pending \in SUBSET Run
      /\ \A q \in pending : outcome[q] = "open"
  BY <1>1, <1>2 DEF RejectAllPending, Core, Matches, Outcomes, Posted
<1>5. Core' /\ Step
  BY <1>1, <1>2, <1>4, Settling DEF page
<1> QED BY <1>3, <1>5, HalvesNext

LEMMA NextStep == IInv /\ [Next]_vars => IInv' /\ Step
<1> SUFFICES ASSUME IInv, [Next]_vars PROVE IInv' /\ Step
  OBVIOUS
<1>1. CASE UNCHANGED vars
  BY <1>1 DEF vars, page, worker, IInv, TypeOK, Matches, Posted, Ahead, Step
<1> QED BY <1>1, Calls, Servers, Workers, Terminates DEF Next

LEMMA Invariance == Spec => []IInv
BY InitInv, NextStep, PTL DEF Spec

(* Every variable keeps its type: WorkerClient's whole state. *)
THEOREM TypeCorrect == Spec => []TypeOK
<1>1. IInv => TypeOK
  BY DEF IInv
<1> QED BY <1>1, Invariance, PTL

(* The client implements LatestWins: no run but the latest is ever answered with a result,  *)
(* only a superseded one is told it is stale, and no promise is settled twice.             *)
THEOREM LatestRunWins == Spec => OnlyLatestResolves
<1>1. Init => Contract!Init
  BY DEF Init, Contract!Init
<1>2. IInv /\ [Next]_vars => Step
  BY NextStep
<1> QED BY <1>1, <1>2, Invariance, PTL DEF Spec, OnlyLatestResolves, Contract!Spec, Step

--------------------------------------------------------------------------------
(* The controls of the studio: DesignPanel. *)
(* What every control keeps of a design: the ranges of its numbers, the thickness of a     *)
(* picked material, and the one storey of a dome.                                          *)
Comes(t) == t = 6 \/ Within(t, 200, 10000)
LayerFits(l) ==
  l # KeepPreset => Comes(l.thickness) /\ \E m \in Materials : l = Layer(m, l.thickness)
SharesFit(wwr) == DOMAIN wwr = {"S", "E", "W", "N"} /\ \A o \in {"S", "E", "W", "N"} : Within(wwr[o], 0, 900)
SizesFit(d) == /\ Within(d.length, 20, 300) /\ Within(d.width, 20, 300) /\ Within(d.height, 20, 60)
               /\ Within(d.azimuth, -180, 180)
DesignFits(d) ==
  /\ DOMAIN d = {"location", "day", "presetId", "length", "width", "height", "azimuth", "wall", "roof",
                  "floor", "wwr", "glazingId", "shutters", "occupancy", "shape", "storeys"}
  /\ SizesFit(d) /\ SharesFit(d.wwr)
  /\ LayerFits(d.wall) /\ LayerFits(d.roof) /\ LayerFits(d.floor)
  /\ d.presetId \in Presets /\ d.day \in Int /\ d.storeys \in {1, 2}
  /\ d.shape \in {"box", "cylinder", "dome"} /\ ~(d.shape = "dome" /\ d.storeys = 2)

PanelInv == DesignFits(design) /\ focus \in {Nothing} \cup DOMAIN Field /\ draft \in Int

LEMMA Quarters == Orientations = {"S", "E", "W", "N"}
  BY DEF Orientations

(* A layer that fits is a sheet or has a thickness the schema accepts.                     *)
LEMMA ThickenedFits ==
  ASSUME NEW l, LayerFits(l)
  PROVE  Thickened(l) # KeepPreset => Within(Thickened(l).thickness, 200, 10000)
<1>1. CASE l # KeepPreset /\ l.thickness = 6
  <2>1. Thickened(l) = [l EXCEPT !.thickness = 200] /\ "thickness" \in DOMAIN l
    BY <1>1 DEF Thickened, LayerFits, Layer
  <2>2. Thickened(l).thickness = 200
    BY <2>1
  <2> QED
    BY <2>2 DEF Within
<1>2. CASE ~(l # KeepPreset /\ l.thickness = 6)
  BY <1>2 DEF Thickened, LayerFits, Comes
<1> QED
  BY <1>1, <1>2

(* What the panel lets through is accepted once a missing date is set and a sheet is       *)
(* thickened.                                                                             *)
LEMMA FitsIsNearlyAccepted ==
  ASSUME DesignFits(design)
  PROVE  RefusedOnlyForSheetOrDate
<1> DEFINE d == Mended(design)
<1>1. /\ d.wall = Thickened(design.wall) /\ d.roof = Thickened(design.roof)
      /\ d.floor = Thickened(design.floor)
      /\ d.wwr = design.wwr /\ d.shape = design.shape /\ d.storeys = design.storeys
  BY DEF DesignFits, Mended
<1>2. d.day # 0
  BY DEF DesignFits, Mended
<1>3. /\ Within(d.length, 20, 300) /\ Within(d.width, 20, 300) /\ Within(d.height, 20, 60)
      /\ Within(d.azimuth, -180, 180)
  BY DEF DesignFits, SizesFit, Mended
<1> HIDE DEF d
<1>4. ASSUME NEW type \in SurfaceTypes, d[type] # KeepPreset
      PROVE  Within(d[type].thickness, 200, 10000)
  <2>1. LayerFits(design[type]) /\ d[type] = Thickened(design[type])
    BY <1>1 DEF DesignFits, SurfaceTypes
  <2> QED
    BY <1>4, <2>1, ThickenedFits
<1>5. \A o \in Orientations : Within(d.wwr[o], 0, 900)
  BY <1>1, Quarters DEF DesignFits, SharesFit
<1>6. ~(d.shape = "dome" /\ d.storeys = 2)
  BY <1>1 DEF DesignFits
<1>7. Accepted(d)
  BY <1>2, <1>3, <1>4, <1>5, <1>6 DEF Accepted
<1> QED
  BY <1>7 DEF RefusedOnlyForSheetOrDate, d

(* The page opens with a design that was accepted. *)
LEMMA PanelStarts == PanelInit => PanelInv
<1> SUFFICES ASSUME PanelInit PROVE PanelInv
  OBVIOUS
<1>1. PICK d \in Loaded : design = LoadDesign(d)
  BY DEF PanelInit
<1>2. IsDesign(d) /\ Accepted(LoadDesign(d))
  BY PanelAssumption
<1>3. /\ DOMAIN design = DOMAIN d /\ design.wwr = d.wwr
      /\ design.wall = d.wall /\ design.roof = d.roof /\ design.floor = d.floor
  BY <1>1, <1>2 DEF LoadDesign, IsDesign
<1>4. /\ SizesFit(design) /\ ~(design.shape = "dome" /\ design.storeys = 2)
      /\ design.shape \in {"box", "cylinder", "dome"}
  <2>1. SizesFit(design) /\ ~(design.shape = "dome" /\ design.storeys = 2)
    BY <1>1, <1>2 DEF Accepted, SizesFit
  <2>2. design.shape = Shape(d)
    BY <1>1, <1>2 DEF LoadDesign, IsDesign
  <2>3. Shape(d) \in {"box", "cylinder", "dome"}
    BY <1>2 DEF Shape, IsDesign
  <2> QED
    BY <2>1, <2>2, <2>3
<1>5. ASSUME NEW type \in SurfaceTypes PROVE LayerFits(design[type])
  <2>1. /\ design[type] = d[type]
        /\ d[type] # KeepPreset => \E m \in Materials : d[type] = Layer(m, d[type].thickness)
    BY <1>2, <1>3 DEF IsDesign, SurfaceTypes
  <2>2. design[type] # KeepPreset => Within(design[type].thickness, 200, 10000)
    BY <1>1, <1>2 DEF Accepted
  <2> QED
    BY <2>1, <2>2 DEF LayerFits, Comes
<1>6. SharesFit(design.wwr)
  <2>1. \A o \in Orientations : Within(design.wwr[o], 0, 900)
    BY <1>1, <1>2 DEF Accepted
  <2> QED
    BY <1>2, <1>3, <2>1, Quarters DEF SharesFit, IsDesign
<1>7. LayerFits(design.wall) /\ LayerFits(design.roof) /\ LayerFits(design.floor)
  BY <1>5 DEF SurfaceTypes
<1>8. design.presetId \in Presets /\ design.day \in Int /\ design.storeys \in {1, 2}
  BY <1>1, <1>2 DEF IsDesign, LoadDesign, Storeys
<1>9. DesignFits(design)
  BY <1>2, <1>3, <1>4, <1>6, <1>7, <1>8 DEF DesignFits, IsDesign
<1> QED
  BY <1>9 DEF PanelInit, PanelInv, NotANumber

(* A field commits a value within its range, whatever was typed. *)
LEMMA SnappedFits ==
  ASSUME NEW f \in DOMAIN Field, NEW raw \in Int
  PROVE  /\ Within(Snapped(f, raw), Field[f].min, Field[f].max) /\ Format(f, Snapped(f, raw)) \in Int
         /\ Format(f, raw) \in Int /\ Field[f].step \in Int
<1>1. f \in {"height", "S"}
  BY DEF Field
<1>2. \A v \in Int, u \in Nat \ {0} : Rounded(v, u) \in Int
  BY DEF Rounded
<1>3. /\ Field[f].step \in Nat \ {0} /\ Field[f].decimal \in Nat \ {0}
      /\ Field[f].min \in Int /\ Field[f].max \in Int /\ Field[f].min <= Field[f].max
  BY <1>1 DEF Field
<1>4. Rounded(raw, Field[f].step) \in Int
  BY <1>2, <1>3
<1>5. Within(Snapped(f, raw), Field[f].min, Field[f].max)
  BY <1>3, <1>4 DEF Snapped, Within
<1> QED
  BY <1>2, <1>3, <1>5 DEF Format, Within

(* Shares that fit may take the place of others. *)
LEMMA SharesReplaced ==
  ASSUME DesignFits(design), NEW wwr, SharesFit(wwr)
  PROVE  DesignFits([design EXCEPT !.wwr = wwr])
  BY DEF DesignFits, SizesFit

LEMMA FieldWrites ==
  ASSUME DesignFits(design), NEW f \in DOMAIN Field
  PROVE  /\ FieldValue(f) \in Int
         /\ \A v : Within(v, Field[f].min, Field[f].max) => DesignFits(WithField(f, v))
<1>1. f \in {"height", "S"} /\ Field["height"].min = 20 /\ Field["height"].max = 60
      /\ Field["S"].min = 0 /\ Field["S"].max = 900
  BY DEF Field
<1>2. FieldValue(f) \in Int
  BY <1>1 DEF FieldValue, DesignFits, SizesFit, SharesFit, Within
<1>3. ASSUME NEW v, Within(v, Field[f].min, Field[f].max) PROVE DesignFits(WithField(f, v))
  <2>1. CASE f = "S"
    <3>1. Within(v, 0, 900)
      BY <1>1, <1>3, <2>1
    <3>2. WithField(f, v) = [design EXCEPT !.wwr = [design.wwr EXCEPT !["S"] = v]]
      BY <2>1 DEF WithField
    <3>3. SharesFit([design.wwr EXCEPT !["S"] = v])
      BY <3>1 DEF DesignFits, SharesFit
    <3> QED
      BY <3>2, <3>3, SharesReplaced
  <2>2. CASE f # "S"
    <3>1. Within(v, 20, 60) /\ WithField(f, v) = [design EXCEPT !.height = v]
      BY <1>1, <1>3, <2>2 DEF WithField
    <3> QED
      BY <3>1 DEF DesignFits, SizesFit
  <2> QED
    BY <2>1, <2>2
<1> QED
  BY <1>2, <1>3

LEMMA ApplyKeeps ==
  ASSUME PanelInv, NEW f \in DOMAIN Field, NEW raw \in Int, Apply(f, raw)
  PROVE  DesignFits(design') /\ draft' \in Int
<1>1. Within(Snapped(f, raw), Field[f].min, Field[f].max) /\ Format(f, Snapped(f, raw)) \in Int
  BY SnappedFits
<1>2. DesignFits(WithField(f, Snapped(f, raw)))
  BY <1>1, FieldWrites DEF PanelInv
<1>3. design' = design \/ design' = WithField(f, Snapped(f, raw))
  BY DEF Apply, EditTo
<1> QED
  BY <1>1, <1>2, <1>3 DEF Apply, PanelInv

LEMMA CommitKeeps ==
  ASSUME PanelInv, NEW f \in DOMAIN Field, Commit(f)
  PROVE  DesignFits(design') /\ draft' \in Int
<1>1. CASE draft = NotANumber
  BY <1>1, FieldWrites, SnappedFits DEF Commit, PanelInv
<1>2. CASE draft # NotANumber
  BY <1>2, ApplyKeeps DEF Commit, PanelInv
<1> QED
  BY <1>1, <1>2

--------------------------------------------------------------------------------
(* Each control. *)
LEMMA ControlKeeps ==
  ASSUME PanelInv, NEW d, DesignFits(d), Control(d)
  PROVE  PanelInv'
  BY DEF Control, EditTo, PanelInv

(* Fields that no range is asked of. *)
LEMMA PlainControls ==
  ASSUME PanelInv, PickLocation \/ PickDate \/ PickPreset \/ PickOccupancy \/ PickGlazing \/ PickShutters
  PROVE  PanelInv'
<1>1. ASSUME NEW v
      PROVE  /\ DesignFits([design EXCEPT !.location = v])
             /\ v \in Int => DesignFits([design EXCEPT !.day = v])
             /\ v \in Presets => DesignFits([design EXCEPT !.presetId = v])
             /\ DesignFits([design EXCEPT !.occupancy = v])
             /\ DesignFits([design EXCEPT !.glazingId = v])
             /\ DesignFits([design EXCEPT !.shutters = v])
  BY DEF PanelInv, DesignFits, SizesFit
<1>2. CASE PickDate
  <2>1. \A day \in Days : day \in Int
    BY PanelAssumption
  <2> QED
    BY <1>1, <1>2, <2>1, ControlKeeps DEF PickDate
<1> QED
  BY <1>1, <1>2, ControlKeeps DEF PickLocation, PickPreset, PickOccupancy, PickGlazing, PickShutters

LEMMA GeometryControls ==
  ASSUME PanelInv, PickShape \/ PickStoreys \/ SlideSize \/ DragDial
  PROVE  PanelInv'
<1> USE PanelAssumption DEF PanelInv
<1>1. CASE PickShape
  <2>1. PICK shape \in {"box", "cylinder", "dome"} : Control(SetShape(design, shape))
    BY <1>1 DEF PickShape
  <2>2. DesignFits(SetShape(design, shape))
    BY DEF SetShape, DesignFits, SizesFit
  <2> QED
    BY <2>1, <2>2, ControlKeeps
<1>2. CASE PickStoreys
  <2>1. PICK storeys \in {1, 2} : Control([design EXCEPT !.storeys = storeys])
    <3>1. \E storeys \in {1, 2} : Control([design EXCEPT !.storeys = storeys])
      BY <1>2 DEF PickStoreys
    <3> QED
      BY <3>1
  <2>2. DesignFits([design EXCEPT !.storeys = storeys])
    BY <1>2 DEF PickStoreys, DesignFits, SizesFit
  <2> QED
    BY <2>1, <2>2, ControlKeeps
<1>3. CASE SlideSize
  <2>1. PICK size \in Sizes : \/ Control([design EXCEPT !.length = size])
                              \/ Control([design EXCEPT !.width = size])
                              \/ size <= 60 /\ Control([design EXCEPT !.height = size])
    BY <1>3 DEF SlideSize
  <2>2. Within(size, 20, 300)
    BY DEF SlideSize
  <2>3. /\ DesignFits([design EXCEPT !.length = size]) /\ DesignFits([design EXCEPT !.width = size])
        /\ size <= 60 => DesignFits([design EXCEPT !.height = size])
    BY <2>2 DEF DesignFits, SizesFit, Within
  <2> QED
    BY <2>1, <2>3, ControlKeeps
<1>4. CASE DragDial
  <2>1. PICK point \in DOMAIN RimAngle : Control([design EXCEPT !.azimuth = RimAngle[point]])
    BY <1>4 DEF DragDial
  <2>2. Within(RimAngle[point], -180, 180)
    BY DEF RimAngle, Within
  <2>3. DesignFits([design EXCEPT !.azimuth = RimAngle[point]])
    BY <2>2 DEF DesignFits, SizesFit
  <2> QED
    BY <2>1, <2>3, ControlKeeps
<1> QED
  BY <1>1, <1>2, <1>3, <1>4

(* A layer that fits may take the place of another. *)
LEMMA LayerReplaced ==
  ASSUME PanelInv, NEW type \in SurfaceTypes, NEW l, LayerFits(l)
  PROVE  DesignFits([design EXCEPT ![type] = l])
<1>1. type \in {"wall", "roof", "floor"}
  BY DEF SurfaceTypes
<1> QED
  BY <1>1 DEF PanelInv, DesignFits, SizesFit

(* The thicknesses a material can come with: its own from the table, or its category's.    *)
LEMMA OwnThickness ==
  ASSUME NEW m \in Materials
  PROVE  Comes(DefaultThickness(m, Category[m]))
<1>1. Category[m] \in {"structural", "insulation", "finish", "storage"}
  BY PanelAssumption DEF CategoryThickness
<1>2. Within(CategoryThickness[Category[m]], 200, 10000)
  <2> DEFINE c == Category[m]
  <2>1. c \in {"structural", "insulation", "finish", "storage"}
    BY <1>1
  <2> HIDE DEF c
  <2>2. Within(CategoryThickness[c], 200, 10000)
    BY <2>1 DEF CategoryThickness, Within
  <2> QED
    BY <2>2 DEF c
<1>3. m \in DOMAIN ThicknessOverride => Comes(ThicknessOverride[m])
  BY DEF ThicknessOverride, Comes, Within
<1> HIDE DEF ThicknessOverride, CategoryThickness
<1>4. \/ /\ m \in DOMAIN ThicknessOverride
         /\ DefaultThickness(m, Category[m]) = ThicknessOverride[m]
      \/ DefaultThickness(m, Category[m]) = CategoryThickness[Category[m]]
  BY DEF DefaultThickness
<1> QED
  BY <1>2, <1>3, <1>4 DEF Comes

LEMMA MaterialPicked ==
  ASSUME PickMaterial
  PROVE  \E type \in SurfaceTypes :
           \/ \E m \in Picked : Control([design EXCEPT ![type] = Chosen(design[type], m)])
           \/ Control([design EXCEPT ![type] = KeepPreset])
  BY DEF PickMaterial

LEMMA ChosenFits ==
  ASSUME PanelInv, NEW type \in SurfaceTypes, NEW m \in Picked
  PROVE  LayerFits(Chosen(design[type], m))
<1> DEFINE t == IF design[type] = KeepPreset THEN DefaultThickness(m, Category[m])
                ELSE design[type].thickness
<1>1. Chosen(design[type], m) = Layer(m, t)
  BY DEF Chosen
<1>2. m \in Materials
  BY PanelAssumption
<1>3. Comes(DefaultThickness(m, Category[m]))
  BY <1>2, OwnThickness
<1>4. LayerFits(design[type])
  BY DEF PanelInv, DesignFits, SurfaceTypes
<1>5. Comes(t)
  BY <1>3, <1>4 DEF LayerFits
<1> HIDE DEF t
<1>6. Layer(m, t).thickness = t
  BY DEF Layer
<1>7. LayerFits(Layer(m, t))
  BY <1>2, <1>5, <1>6 DEF LayerFits
<1> QED
  BY <1>1, <1>7

LEMMA MaterialPickKeeps == ASSUME PanelInv, PickMaterial PROVE PanelInv'
<1>1. PICK type \in SurfaceTypes :
        \/ \E m \in Picked : Control([design EXCEPT ![type] = Chosen(design[type], m)])
        \/ Control([design EXCEPT ![type] = KeepPreset])
  BY MaterialPicked
<1>2. CASE Control([design EXCEPT ![type] = KeepPreset])
  <2>1. LayerFits(KeepPreset)
    BY DEF LayerFits
  <2>2. DesignFits([design EXCEPT ![type] = KeepPreset])
    BY <2>1, LayerReplaced
  <2> QED
    BY <1>2, <2>2, ControlKeeps
<1>3. ASSUME NEW m \in Picked, Control([design EXCEPT ![type] = Chosen(design[type], m)])
      PROVE  PanelInv'
  <2> DEFINE l == Chosen(design[type], m)
  <2>1. LayerFits(l)
    BY ChosenFits
  <2>2. Control([design EXCEPT ![type] = l])
    BY <1>3
  <2> HIDE DEF l
  <2>3. DesignFits([design EXCEPT ![type] = l])
    BY <2>1, LayerReplaced
  <2> QED
    BY <2>2, <2>3, ControlKeeps
<1> QED
  BY <1>1, <1>2, <1>3

LEMMA MaterialControls ==
  ASSUME PanelInv, PickMaterial \/ SlideThickness \/ SlideShare
  PROVE  PanelInv'
<1> USE PanelAssumption DEF PanelInv
<1>1. \A type \in SurfaceTypes : LayerFits(design[type])
  BY DEF SurfaceTypes, DesignFits
<1>2. CASE PickMaterial
  <2> QED BY <1>2, MaterialPickKeeps
<1>3. CASE SlideThickness
  <2>1. PICK type \in SurfaceTypes, thickness \in Thicknesses :
          design[type] # KeepPreset /\ Control([design EXCEPT ![type].thickness = thickness])
    BY <1>3 DEF SlideThickness
  <2> DEFINE l == [design[type] EXCEPT !.thickness = thickness]
  <2>2. LayerFits(l)
    <3>1. LayerFits(design[type])
      BY <1>1
    <3>2. Within(thickness, 200, 10000)
      OBVIOUS
    <3>3. PICK m \in Materials : design[type] = Layer(m, design[type].thickness)
      BY <2>1, <3>1 DEF LayerFits
    <3>4. l = Layer(m, thickness) /\ l.thickness = thickness
      BY <3>3 DEF Layer
    <3> HIDE DEF l
    <3> QED
      BY <3>2, <3>4 DEF LayerFits, Comes
  <2>3. [design EXCEPT ![type].thickness = thickness] = [design EXCEPT ![type] = l]
    OBVIOUS
  <2> QED
    BY <2>1, <2>2, <2>3, LayerReplaced, ControlKeeps
<1>4. CASE SlideShare
  <2>1. PICK o \in Orientations, share \in Shares : Control([design EXCEPT !.wwr[o] = share])
    BY <1>4 DEF SlideShare
  <2>2. SharesFit([design.wwr EXCEPT ![o] = share])
    BY Quarters DEF DesignFits, SharesFit
  <2>3. [design EXCEPT !.wwr[o] = share] = [design EXCEPT !.wwr = [design.wwr EXCEPT ![o] = share]]
    OBVIOUS
  <2> QED
    BY <2>1, <2>2, <2>3, SharesReplaced, ControlKeeps
<1> QED
  BY <1>2, <1>3, <1>4

(* The number fields. *)
LEMMA FieldControls ==
  ASSUME PanelInv, Focus \/ Type \/ Escape \/ Enter \/ Arrow \/ Blur
  PROVE  PanelInv'
<1> USE DEF PanelInv
<1>1. Nothing \notin DOMAIN Field
  BY DEF Nothing, Field
<1>2. CASE Focus
  BY <1>2, FieldWrites, SnappedFits DEF Focus
<1>3. CASE Type
  <2>1. draft' \in Texts \cup {NotANumber}
    BY <1>3 DEF Type
  <2>2. design' = design /\ focus' = focus
    BY <1>3 DEF Type
  <2>3. Texts \subseteq Int /\ NotANumber \in Int
    BY PanelAssumption DEF NotANumber
  <2>4. draft' \in Int
    BY <2>1, <2>3
  <2> QED
    BY <2>2, <2>4
<1>4. CASE Escape
  <2>1. focus \in DOMAIN Field
    BY <1>4 DEF Escape
  <2>2. FieldValue(focus) \in Int
    BY <2>1, FieldWrites
  <2> QED
    BY <1>4, <2>1, <2>2, SnappedFits DEF Escape
<1>5. CASE Enter
  BY <1>5, CommitKeeps DEF Enter
<1>6. CASE Arrow
  <2>1. focus \in DOMAIN Field
    BY <1>6 DEF Arrow
  <2>2. PICK way \in {-1, 1} : Apply(focus, FieldValue(focus) + way * Field[focus].step)
    BY <1>6 DEF Arrow
  <2>3. FieldValue(focus) \in Int /\ Field[focus].step \in Int
    BY <2>1, FieldWrites, SnappedFits
  <2> DEFINE v == FieldValue(focus)
             k == Field[focus].step
  <2>4. v + way * k \in Int
    <3>1. v \in Int /\ k \in Int
      BY <2>3
    <3> HIDE DEF v, k
    <3>2. way = -1 \/ way = 1
      OBVIOUS
    <3> QED
      BY <3>1, <3>2
  <2> QED
    BY <1>6, <2>1, <2>2, <2>4, ApplyKeeps DEF Arrow
<1>7. CASE Blur
  BY <1>7, CommitKeeps DEF Blur
<1> QED
  BY <1>2, <1>3, <1>4, <1>5, <1>6, <1>7

LEMMA PanelKept == PanelInv /\ [PanelNext]_panelVars => PanelInv'
<1>1. PanelInv /\ UNCHANGED panelVars => PanelInv'
  BY DEF PanelInv, panelVars
<1> QED
  BY <1>1, PlainControls, GeometryControls, MaterialControls, FieldControls DEF PanelNext

(* Whatever the controls are moved to and the fields are given, in any order, the server's *)
(* schema refuses the design only for a cleared date or the sheet's own thickness.         *)
THEOREM OnlySheetAndDateRefused == PanelSpec => []RefusedOnlyForSheetOrDate
<1>1. PanelInv => RefusedOnlyForSheetOrDate
  BY FitsIsNearlyAccepted DEF PanelInv
<1> QED
  BY <1>1, PanelStarts, PanelKept, PTL DEF PanelSpec

--------------------------------------------------------------------------------
(* The assembly of a request: Assembly.  A request on its way is a building that can be    *)
(* simulated, whose materials and glazings it has, with a day of weather; each step of     *)
(* assemble() keeps it so.                                                                *)
(* What every building on the way to the request is like, and a request about it. *)
SurfaceFits(s) ==
  /\ DOMAIN s = {"id", "type", "azimuth", "tilt", "area", "construction", "finish"}
  /\ s.type \in SurfaceTypes /\ s.tilt \in Int /\ 0 <= s.tilt /\ s.tilt <= 180
  /\ s.area \in Int /\ s.area >= 1000 /\ s.construction # <<>>
IsWindow(w) == w = Window(w.id, w.host, w.area, w.glazingId, w.shutter)
WindowFits(w, surfaces) ==
  /\ IsWindow(w)
  /\ \E s \in surfaces : s.type = "wall" /\ s.id = w.host
Sides(b) == \A o \in Orientations : WallsInQuadrant(b, o) # {}
IsBuilding(b) ==
  /\ DOMAIN b = {"floorArea", "volume", "azimuth", "surfaces", "windows", "storageElements"}
  /\ b.floorArea \in Int /\ b.floorArea > 0 /\ b.volume \in Int /\ b.volume > 0
  /\ \A s \in b.surfaces : SurfaceFits(s)
  /\ \A s, t \in b.surfaces : s.id = t.id => s = t
  /\ \A w \in b.windows : WindowFits(w, b.surfaces)
  /\ Sides(b)
Supplied(r) ==
  /\ UsedMaterials(r.building) \subseteq r.materials
  /\ UsedGlazingIds(r.building) \subseteq r.glazings
HasRest(r) ==
  /\ DOMAIN r = {"building", "materials", "glazings", "weather", "site", "operation", "skyModel"}
  /\ r.weather.samples >= 24
IsRequest(r) == HasRest(r) /\ IsBuilding(r.building) /\ Supplied(r)

(* The six surfaces every preset has, and what a round shape takes from them. *)
IsBox(b) ==
  /\ \A s \in b.surfaces : s.type = "wall" => s.azimuth \in {0, -90, 90, 180}
  /\ \A s \in b.surfaces : s.type # "wall" => s.azimuth = 0
  /\ \A s, t \in b.surfaces : s.type = t.type /\ s.azimuth = t.azimuth => s = t
  /\ \E s \in b.surfaces : s.type = "wall" /\ s.azimuth = 0
  /\ \E s \in b.surfaces : s.type = "roof"
  /\ \E s \in b.surfaces : s.type = "floor"
IsPresetWindow(w) ==
  /\ IsWindow(w)
  /\ w.host \in {"wallSouth", "wallEast", "wallWest", "wallNorth"}

LEMMA WindowFields ==
  ASSUME NEW i, NEW h, NEW a, NEW g, NEW on
  PROVE  LET w == Window(i, h, a, g, on)
         IN /\ w.id = i /\ w.host = h /\ w.area = a /\ w.glazingId = g /\ w.shutter = on
            /\ \A f : [w EXCEPT !.glazingId = f] = Window(i, h, a, f, on)
            /\ \A f : [w EXCEPT !.shutter = f] = Window(i, h, a, g, f)
  BY DEF Window

LEMMA WindowIsWindow ==
  ASSUME NEW i, NEW h, NEW a, NEW g, NEW on
  PROVE  IsWindow(Window(i, h, a, g, on)) /\ Window(i, h, a, g, on).host = h
  BY WindowFields DEF IsWindow

LEMMA SurfaceFields ==
  ASSUME NEW id, NEW type \in SurfaceTypes, NEW azimuth, NEW tilt \in Int, 0 <= tilt, tilt <= 180,
         NEW area \in Int, area >= 1000, NEW c, c # <<>>, NEW f
  PROVE  LET s == Surface(id, type, azimuth, tilt, area, c, f)
         IN SurfaceFits(s) /\ s.id = id /\ s.type = type /\ s.azimuth = azimuth /\ s.construction = c
<1> DEFINE s == Surface(id, type, azimuth, tilt, area, c, f)
<1>1. /\ DOMAIN s = {"id", "type", "azimuth", "tilt", "area", "construction", "finish"}
      /\ s.id = id /\ s.type = type /\ s.azimuth = azimuth /\ s.tilt = tilt
      /\ s.area = area /\ s.construction = c
  BY DEF Surface
<1> HIDE DEF s
<1>2. SurfaceFits(s)
  BY <1>1 DEF SurfaceFits
<1> QED
  BY <1>1, <1>2 DEF s

StackFits(c) == c # <<>> /\ \A l \in ToSet(c) : l.materialId \in Materials

LEMMA StacksFit ==
  /\ \A a : StackFits(Rcc(a))
  /\ StackFits(RammedEarth400) /\ StackFits(BareSteelCGI) /\ StackFits(<< Layer("stoneMasonryGranite", 4000) >>)
  /\ StackFits(MudPoplarRoof) /\ StackFits(EarthFloor) /\ StackFits(TrombeSouthWall)
  /\ StackFits(OptimisedWall) /\ StackFits(OptimisedRoof) /\ StackFits(OptimisedFloor)
<1>1. \A a : StackFits(Rcc(a))
  BY DEF StackFits, Rcc, Layer, ToSet, Materials, Structural
<1>2. StackFits(RammedEarth400) /\ StackFits(BareSteelCGI)
  BY DEF StackFits, RammedEarth400, BareSteelCGI, Layer, ToSet, Materials, Structural
<1>3. StackFits(<< Layer("stoneMasonryGranite", 4000) >>)
  BY DEF StackFits, Layer, ToSet, Materials, Structural
<1>4. StackFits(MudPoplarRoof) /\ StackFits(EarthFloor)
  BY DEF StackFits, MudPoplarRoof, EarthFloor, Layer, ToSet, Materials, Structural, Finish, Storage
<1>5. StackFits(TrombeSouthWall) /\ StackFits(OptimisedWall)
  BY DEF StackFits, TrombeSouthWall, OptimisedWall, Layer, ToSet, Materials, Structural, Insulation
<1>6. StackFits(OptimisedRoof) /\ StackFits(OptimisedFloor)
  BY DEF StackFits, OptimisedRoof, OptimisedFloor, Layer, ToSet, Materials, Structural, Insulation
<1> QED
  BY <1>1, <1>2, <1>3, <1>4, <1>5, <1>6

LEMMA QuarterSides ==
  /\ OrientationForAzimuth(0) = "S" /\ OrientationForAzimuth(-90) = "E"
  /\ OrientationForAzimuth(90) = "W" /\ OrientationForAzimuth(180) = "N"
  BY DEF OrientationForAzimuth

LEMMA HouseIsBox ==
  ASSUME NEW south, NEW others, NEW roof, NEW floor, NEW southFinish, NEW finish, NEW ws,
         StackFits(south), StackFits(others), StackFits(roof), StackFits(floor),
         \A w \in ws : IsPresetWindow(w)
  PROVE  LET b == House(south, others, roof, floor, southFinish, finish, ws)
         IN /\ IsBuilding(b) /\ IsBox(b) /\ b.storageElements = {}
            /\ UsedMaterialIds(b) \subseteq Materials /\ [b EXCEPT !.azimuth = 0] = b
<1> DEFINE b == House(south, others, roof, floor, southFinish, finish, ws)
           s1 == Wall("wallSouth", 0, south, southFinish)
           s2 == Wall("wallEast", -90, others, finish)
           s3 == Wall("wallWest", 90, others, finish)
           s4 == Wall("wallNorth", 180, others, finish)
           s5 == Surface("roof", "roof", 0, 0, Area(Side, Side), roof, finish)
           s6 == Surface("floor", "floor", 0, 180, Area(Side, Side), floor, "ground")
<1>1. b.surfaces = {s1, s2, s3, s4, s5, s6}
  BY DEF House
<1>2. /\ Area(Side, Side) \in Int /\ Area(Side, Side) >= 1000
      /\ Area(Side, Height) \in Int /\ Area(Side, Height) >= 1000
      /\ Side * Side * Height \in Int /\ Side * Side * Height > 0
  BY SMT DEF Area, Side, Height
<1>3. "wall" \in SurfaceTypes /\ "roof" \in SurfaceTypes /\ "floor" \in SurfaceTypes
  BY DEF SurfaceTypes
<1>4. ASSUME NEW id, NEW azimuth, NEW c, c # <<>>, NEW f
      PROVE  LET s == Wall(id, azimuth, c, f)
             IN SurfaceFits(s) /\ s.id = id /\ s.type = "wall" /\ s.azimuth = azimuth /\ s.construction = c
  <2> HIDE DEF b, s1, s2, s3, s4, s5, s6
  <2>1. 90 \in Int /\ 0 <= 90 /\ 90 <= 180
    OBVIOUS
  <2> QED
    BY <1>2, <1>3, <1>4, <2>1, SurfaceFields DEF Wall
<1>5. SurfaceFits(s1) /\ s1.id = "wallSouth" /\ s1.type = "wall" /\ s1.azimuth = 0 /\ s1.construction = south
  BY <1>4 DEF StackFits
<1>6. SurfaceFits(s2) /\ s2.id = "wallEast" /\ s2.type = "wall" /\ s2.azimuth = -90 /\ s2.construction = others
  BY <1>4 DEF StackFits
<1>7. SurfaceFits(s3) /\ s3.id = "wallWest" /\ s3.type = "wall" /\ s3.azimuth = 90 /\ s3.construction = others
  BY <1>4 DEF StackFits
<1>8. SurfaceFits(s4) /\ s4.id = "wallNorth" /\ s4.type = "wall" /\ s4.azimuth = 180 /\ s4.construction = others
  BY <1>4 DEF StackFits
<1>9. SurfaceFits(s5) /\ s5.id = "roof" /\ s5.type = "roof" /\ s5.azimuth = 0 /\ s5.construction = roof
  BY <1>2, <1>3, SurfaceFields DEF StackFits
<1>10. SurfaceFits(s6) /\ s6.id = "floor" /\ s6.type = "floor" /\ s6.azimuth = 0 /\ s6.construction = floor
  BY <1>2, <1>3, SurfaceFields DEF StackFits
<1>11. /\ DOMAIN b = {"floorArea", "volume", "azimuth", "surfaces", "windows", "storageElements"}
       /\ b.windows = ws /\ b.storageElements = {}
       /\ b.floorArea = Area(Side, Side) /\ b.volume = Side * Side * Height
  BY DEF House
<1> HIDE DEF b, s1, s2, s3, s4, s5, s6
<1>12. \A s \in b.surfaces : SurfaceFits(s)
  BY <1>1, <1>5, <1>6, <1>7, <1>8, <1>9, <1>10
<1>13. \A s, t \in b.surfaces : s.id = t.id => s = t
  BY <1>1, <1>5, <1>6, <1>7, <1>8, <1>9, <1>10
<1>14. s1 \in b.surfaces /\ s2 \in b.surfaces /\ s3 \in b.surfaces /\ s4 \in b.surfaces
  BY <1>1
<1>15. Sides(b)
  <2>1. s1 \in WallsInQuadrant(b, "S") /\ s2 \in WallsInQuadrant(b, "E")
    BY <1>5, <1>6, <1>14, QuarterSides DEF WallsInQuadrant
  <2>2. s3 \in WallsInQuadrant(b, "W") /\ s4 \in WallsInQuadrant(b, "N")
    BY <1>7, <1>8, <1>14, QuarterSides DEF WallsInQuadrant
  <2> QED
    BY <2>1, <2>2 DEF Sides, Orientations
<1>16. \A w \in b.windows : WindowFits(w, b.surfaces)
  <2> TAKE w \in b.windows
  <2>1. IsPresetWindow(w)
    BY <1>11
  <2> QED
    BY <1>5, <1>6, <1>7, <1>8, <1>14, <2>1 DEF IsPresetWindow, WindowFits
<1>17. IsBuilding(b)
  BY <1>2, <1>11, <1>12, <1>13, <1>15, <1>16 DEF IsBuilding
<1>18. IsBox(b)
  <2>1. \A s \in b.surfaces : s.type = "wall" => s.azimuth \in {0, -90, 90, 180}
    BY <1>1, <1>5, <1>6, <1>7, <1>8, <1>9, <1>10
  <2>2. s5 \in b.surfaces /\ s6 \in b.surfaces
    BY <1>1
  <2>3. \A s \in b.surfaces : s.type # "wall" => s.azimuth = 0
    BY <1>1, <1>5, <1>6, <1>7, <1>8, <1>9, <1>10
  <2>4. \A s, t \in b.surfaces : s.type = t.type /\ s.azimuth = t.azimuth => s = t
    BY <1>1, <1>5, <1>6, <1>7, <1>8, <1>9, <1>10
  <2> QED
    BY <1>5, <1>9, <1>10, <1>14, <2>1, <2>2, <2>3, <2>4 DEF IsBox
<1>19. UsedMaterialIds(b) \subseteq Materials
  <2>1. \A s \in b.surfaces : s.construction \in {south, others, roof, floor}
    BY <1>1, <1>5, <1>6, <1>7, <1>8, <1>9, <1>10
  <2>2. \A s \in b.surfaces : StackFits(s.construction)
    BY <2>1
  <2> QED
    BY <2>2 DEF UsedMaterialIds, StackFits
<1>20. [b EXCEPT !.azimuth = 0] = b
  BY DEF House, b
<1> QED
  BY <1>11, <1>17, <1>18, <1>19, <1>20 DEF b

LEMMA PresetIsBox ==
  ASSUME NEW p \in Presets
  PROVE  LET b == PresetById[p]
         IN /\ IsBuilding(b) /\ IsBox(b) /\ b.storageElements = {}
            /\ UsedMaterialIds(b) \subseteq Materials /\ [b EXCEPT !.azimuth = 0] = b
<1> DEFINE Boxed(b) == /\ IsBuilding(b) /\ IsBox(b) /\ b.storageElements = {}
                       /\ UsedMaterialIds(b) \subseteq Materials /\ [b EXCEPT !.azimuth = 0] = b
<1>1. \A id, area, g, on : \A host \in {"wallSouth", "wallEast", "wallWest", "wallNorth"} :
        IsPresetWindow(Window(id, host, area, g, on))
  BY WindowIsWindow DEF IsPresetWindow
<1>2. \A id, area : \A host \in {"wallSouth", "wallEast", "wallWest", "wallNorth"} :
        IsPresetWindow(Small(id, host, area))
  BY <1>1 DEF Small
<1>3. \A south, others, roof, floor, f, g, ws :
        StackFits(south) /\ StackFits(others) /\ StackFits(roof) /\ StackFits(floor)
          /\ (\A w \in ws : IsPresetWindow(w)) => Boxed(House(south, others, roof, floor, f, g, ws))
  BY HouseIsBox
<1> HIDE DEF Boxed
<1>4. Boxed(PresetTraditional)
  <2> DEFINE ws == { Small("windowSouth", "wallSouth", 800000) }
  <2>1. \A w \in ws : IsPresetWindow(w)
    BY <1>2, SMT
  <2> HIDE DEF ws
  <2>2. Boxed(House(RammedEarth400, RammedEarth400, MudPoplarRoof, EarthFloor, "darkMudEarth",
                    "darkMudEarth", ws))
    BY <1>3, <2>1, StacksFit
  <2> QED
    BY <2>2, SMT DEF PresetTraditional, ws
<1>5. Boxed(PresetBarrack)
  <2> DEFINE ws == { Small("windowSouth", "wallSouth", 4000000), Small("windowEast", "wallEast", 1500000),
                     Small("windowWest", "wallWest", 1500000) }
  <2>1. \A w \in ws : IsPresetWindow(w)
    BY <1>2, SMT
  <2> HIDE DEF ws
  <2>2. Boxed(House(BareSteelCGI, BareSteelCGI, BareSteelCGI, Rcc(1500), "galvanised", "galvanised", ws))
    BY <1>3, <2>1, StacksFit
  <2> QED
    BY <2>2, SMT DEF PresetBarrack, ws
<1>6. Boxed(PresetModernRcc)
  <2> DEFINE ws == { Window(<<"windowSouth">>, "wallSouth", 2000000, "doubleAirFilled", FALSE),
                     Window(<<"windowEast">>, "wallEast", 1000000, "doubleAirFilled", FALSE),
                     Window(<<"windowWest">>, "wallWest", 1000000, "doubleAirFilled", FALSE) }
  <2>1. \A w \in ws : IsPresetWindow(w)
    BY SMT DEF IsPresetWindow, IsWindow, Window
  <2> HIDE DEF ws
  <2>2. Boxed(House(Rcc(1500), Rcc(1500), Rcc(1500), Rcc(1000), "greyConcrete", "greyConcrete", ws))
    BY <1>3, <2>1, StacksFit
  <2> QED
    BY <2>2, SMT DEF PresetModernRcc, ws
<1>7. Boxed(PresetTrombe)
  <2> DEFINE ws == { Small("windowEast", "wallEast", 500000) }
  <2>1. \A w \in ws : IsPresetWindow(w)
    BY <1>2, SMT
  <2> HIDE DEF ws
  <2>2. Boxed(House(TrombeSouthWall, RammedEarth400, MudPoplarRoof, EarthFloor, "blackPaint",
                    "darkMudEarth", ws))
    BY <1>3, <2>1, StacksFit
  <2> QED
    BY <2>2, SMT DEF PresetTrombe, ws
<1>8. Boxed(PresetOptimised)
  <2> DEFINE ws == { Window(<<"windowSouth">>, "wallSouth", 3000000, "doubleArgonLowE", TRUE) }
  <2>1. \A w \in ws : IsPresetWindow(w)
    BY SMT DEF IsPresetWindow, IsWindow, Window
  <2> HIDE DEF ws
  <2>2. Boxed(House(OptimisedWall, OptimisedWall, OptimisedRoof, OptimisedFloor, "whitewash",
                    "whitewash", ws))
    BY <1>3, <2>1, StacksFit
  <2> QED
    BY <2>2, SMT DEF PresetOptimised, ws
<1>9. Boxed(PresetJaisalmer)
  <2> DEFINE ws == { Small("windowSouth", "wallSouth", 600000), Small("windowNorth", "wallNorth", 400000) }
             stone == << Layer("stoneMasonryGranite", 4000) >>
  <2>1. \A w \in ws : IsPresetWindow(w)
    BY <1>2, SMT
  <2>2. StackFits(stone)
    BY StacksFit
  <2> HIDE DEF ws, stone
  <2>3. Boxed(House(stone, stone, Rcc(1500), EarthFloor, "whitewash", "whitewash", ws))
    BY <1>3, <2>1, <2>2, StacksFit
  <2> QED
    BY <2>3, SMT DEF PresetJaisalmer, ws, stone
<1>10. PresetById[p] \in {PresetTraditional, PresetBarrack, PresetModernRcc, PresetTrombe, PresetOptimised,
                          PresetJaisalmer}
  BY DEF Presets, PresetById
<1>11. Boxed(PresetById[p])
  BY <1>4, <1>5, <1>6, <1>7, <1>8, <1>9, <1>10
<1> QED
  BY <1>11 DEF Boxed

--------------------------------------------------------------------------------
(* Windows. *)
LEMMA WindowsPut ==
  ASSUME NEW r, IsRequest(r), NEW ws, \A w \in ws : WindowFits(w, r.building.surfaces)
  PROVE  LET q == WithWindows(r, ws)
         IN /\ IsRequest(q) /\ q.building.windows = ws /\ q.building.surfaces = r.building.surfaces
            /\ q.building.storageElements = r.building.storageElements
<1> DEFINE b == [r.building EXCEPT !.windows = ws]
           q == WithWindows(r, ws)
<1>1. q = [r EXCEPT !.building = b, !.glazings = UsedGlazingIds(b)]
  BY DEF WithWindows
<1>2. /\ DOMAIN b = DOMAIN r.building /\ b.windows = ws /\ b.surfaces = r.building.surfaces
      /\ b.floorArea = r.building.floorArea /\ b.volume = r.building.volume
      /\ b.storageElements = r.building.storageElements
  BY DEF IsRequest, IsBuilding
<1> HIDE DEF b, q
<1>3. /\ DOMAIN q = DOMAIN r /\ q.building = b /\ q.glazings = UsedGlazingIds(b) /\ q.materials = r.materials
      /\ q.weather = r.weather
  BY <1>1 DEF IsRequest, HasRest
<1>4. IsBuilding(b)
  BY <1>2 DEF IsRequest, IsBuilding, Sides, WallsInQuadrant
<1>5. Supplied(q)
  <2>1. UsedMaterials(b) = UsedMaterials(r.building)
    BY <1>2 DEF UsedMaterials, UsedMaterialIds
  <2> QED
    BY <1>3, <2>1 DEF IsRequest, Supplied
<1>6. HasRest(q)
  BY <1>3 DEF IsRequest, HasRest
<1>7. /\ IsRequest(q) /\ q.building.windows = ws /\ q.building.surfaces = r.building.surfaces
      /\ q.building.storageElements = r.building.storageElements
  BY <1>2, <1>3, <1>4, <1>5, <1>6 DEF IsRequest
<1> QED
  BY <1>7 DEF q

LEMMA GlazeKeeps ==
  ASSUME NEW r, IsRequest(r), NEW walls, \A s \in walls : s \in r.building.surfaces /\ s.type = "wall",
         NEW ratio
  PROVE  LET q == Glaze(r, walls, ratio)
         IN /\ IsRequest(q) /\ q.building.surfaces = r.building.surfaces
            /\ q.building.storageElements = r.building.storageElements
<1> DEFINE b == r.building
           g == CurrentGlazingId(b)
           on == NightShuttersEnabled(b)
           added == {Window(<<s.id, "Window">>, s.id, Clamped(ratio) * (s.area \div 1000), g, on) : s \in walls}
           ws == (b.windows \ WindowsOn(b, walls)) \cup {w \in added : w.area > 0}
           q == Glaze(r, walls, ratio)
<1>1. CASE walls = {}
  <2>1. q = r
    BY <1>1 DEF Glaze
  <2> HIDE DEF q
  <2>2. /\ IsRequest(q) /\ q.building.surfaces = r.building.surfaces
        /\ q.building.storageElements = r.building.storageElements
    BY <2>1
  <2> QED
    BY <2>2 DEF q
<1>2. CASE walls # {}
  <2>1. q = WithWindows(r, ws)
    BY <1>2 DEF Glaze
  <2>2. \A w \in added : WindowFits(w, b.surfaces)
    <3> DEFINE New(s) == Window(<<s.id, "Window">>, s.id, Clamped(ratio) * (s.area \div 1000), g, on)
    <3>1. \A s \in walls : IsWindow(New(s)) /\ New(s).host = s.id
      BY WindowIsWindow
    <3>2. added = {New(s) : s \in walls}
      OBVIOUS
    <3> HIDE DEF added, ws, q, New
    <3> QED
      BY <3>1, <3>2 DEF WindowFits
  <2>3. \A w \in b.windows : WindowFits(w, b.surfaces)
    BY DEF IsRequest, IsBuilding
  <2> HIDE DEF added
  <2>4. \A w \in ws : WindowFits(w, r.building.surfaces)
    BY <2>2, <2>3
  <2> HIDE DEF ws, q
  <2>5. /\ IsRequest(q) /\ q.building.surfaces = r.building.surfaces
        /\ q.building.storageElements = r.building.storageElements
    BY <2>1, <2>4, WindowsPut
  <2> QED
    BY <2>5 DEF q
<1> QED
  BY <1>1, <1>2

(* What one side's turn does, whatever the share. *)
LEMMA QuadrantKeeps ==
  ASSUME NEW r, IsRequest(r), NEW o, NEW ratio
  PROVE  LET q == SetQuadrantWwr(r, o, ratio)
         IN /\ IsRequest(q) /\ q.building.surfaces = r.building.surfaces
            /\ q.building.storageElements = r.building.storageElements
<1> DEFINE walls == WallsInQuadrant(r.building, o)
<1>1. \A s \in walls : s \in r.building.surfaces /\ s.type = "wall"
  BY DEF WallsInQuadrant
<1> HIDE DEF walls
<1>2. LET q == Glaze(r, walls, ratio)
      IN /\ IsRequest(q) /\ q.building.surfaces = r.building.surfaces
         /\ q.building.storageElements = r.building.storageElements
  BY <1>1, GlazeKeeps
<1> QED
  BY <1>2 DEF SetQuadrantWwr, walls

(* The windows of a side are as asked, once it had its turn.                               *)
Proper(w, s, share) ==
  w.id = <<s.id, "Window">> /\ w.host = s.id /\ w.area = share * (s.area \div 1000)
Done(r, wwr, os) ==
  /\ \A w \in r.building.windows, s \in r.building.surfaces :
       s.type = "wall" /\ s.id = w.host /\ OrientationForAzimuth(s.azimuth) \in os
         => Proper(w, s, wwr[OrientationForAzimuth(s.azimuth)]) /\ wwr[OrientationForAzimuth(s.azimuth)] > 0
  /\ \A s \in r.building.surfaces :
       s.type = "wall" /\ OrientationForAzimuth(s.azimuth) \in os /\ wwr[OrientationForAzimuth(s.azimuth)] > 0
         => \E w \in r.building.windows : Proper(w, s, wwr[OrientationForAzimuth(s.azimuth)])

LEMMA WindowArea ==
  ASSUME NEW share \in Int, 0 <= share, share <= 900, NEW area \in Int, area >= 1000
  PROVE  /\ share * (area \div 1000) \in Int /\ share * (area \div 1000) < area
         /\ share * (area \div 1000) > 0 <=> share > 0
<1> DEFINE q == area \div 1000
<1>1. q \in Int /\ q >= 1 /\ 1000 * q <= area
  BY SMT
<1> HIDE DEF q
<1>2. share * q \in Int /\ share * q <= 900 * q
  BY <1>1, SMT
<1>3. share > 0 => share * q > 0
  BY <1>1, SMT
<1>4. share = 0 => share * q = 0
  BY <1>1
<1> QED
  BY <1>1, <1>2, <1>3, <1>4 DEF q

LEMMA QuadrantDone ==
  ASSUME NEW r, IsRequest(r), NEW wwr, SharesFit(wwr), NEW os, NEW o \in Orientations, Done(r, wwr, os)
  PROVE  Done(SetQuadrantWwr(r, o, wwr[o]), wwr, os \cup {o})
<1> DEFINE b == r.building
           walls == WallsInQuadrant(b, o)
           share == wwr[o]
           g == CurrentGlazingId(b)
           on == NightShuttersEnabled(b)
           New(s) == Window(<<s.id, "Window">>, s.id, share * (s.area \div 1000), g, on)
           added == {New(s) : s \in walls}
           ws == (b.windows \ WindowsOn(b, walls)) \cup {w \in added : w.area > 0}
           q == SetQuadrantWwr(r, o, share)
<1>1. share \in Int /\ 0 <= share /\ share <= 900 /\ Clamped(share) = share
  BY DEF SharesFit, Within, Orientations, Clamped
<1>2. walls # {} /\ walls \subseteq b.surfaces
  BY DEF IsRequest, IsBuilding, Sides, WallsInQuadrant
<1>3. \A s \in b.surfaces : SurfaceFits(s)
  BY DEF IsRequest, IsBuilding
<1>4. \A s, t \in b.surfaces : s.id = t.id => s = t
  BY DEF IsRequest, IsBuilding
<1>5. \A s \in b.surfaces : s \in walls <=> s.type = "wall" /\ OrientationForAzimuth(s.azimuth) = o
  BY DEF WallsInQuadrant
<1>6. q.building.windows = ws /\ q.building.surfaces = b.surfaces
  <2>1. q = WithWindows(r, ws)
    BY <1>1, <1>2 DEF SetQuadrantWwr, Glaze
  <2>2. IsRequest(q) /\ q.building.surfaces = b.surfaces
    BY QuadrantKeeps
  <2>3. q.building.windows = ws
    <3> HIDE DEF ws, q
    <3>1. DOMAIN r.building = DOMAIN [r.building EXCEPT !.windows = ws]
      OBVIOUS
    <3>2. "windows" \in DOMAIN r.building /\ "building" \in DOMAIN r
      BY DEF IsRequest, HasRest, IsBuilding
    <3> QED
      BY <2>1, <3>2 DEF WithWindows
  <2> QED
    BY <2>2, <2>3
<1>7. ASSUME NEW s \in walls
      PROVE  /\ New(s).host = s.id /\ Proper(New(s), s, share)
             /\ New(s).area > 0 <=> share > 0
  <2>1. s.area \in Int /\ s.area >= 1000
    BY <1>2, <1>3 DEF SurfaceFits
  <2>2. share * (s.area \div 1000) > 0 <=> share > 0
    BY <1>1, <2>1, WindowArea
  <2> QED
    BY <2>2 DEF Window, Proper
<1>8. \A w \in b.windows : w \in WindowsOn(b, walls) <=> \E s \in walls : s.id = w.host
  BY DEF WindowsOn, Hosts
<1>9. \A w \in added : \E s \in walls : w = New(s)
  OBVIOUS
<1>10. \A s \in walls : New(s) \in added
  OBVIOUS
<1> HIDE DEF b, walls, share, New, added, q
<1>11. ASSUME NEW w \in ws, NEW s \in b.surfaces, s.type = "wall", s.id = w.host,
              OrientationForAzimuth(s.azimuth) \in os \cup {o}
       PROVE  Proper(w, s, wwr[OrientationForAzimuth(s.azimuth)]) /\ wwr[OrientationForAzimuth(s.azimuth)] > 0
  <2>1. CASE w \in b.windows /\ w \notin WindowsOn(b, walls)
    <3>1. OrientationForAzimuth(s.azimuth) # o
      BY <1>5, <1>8, <1>11, <2>1
    <3> QED
      BY <1>11, <2>1, <3>1 DEF Done, b
  <2>2. CASE w \in added /\ w.area > 0
    <3>1. PICK t \in walls : w = New(t)
      BY <1>9, <2>2
    <3>2. t = s
      BY <1>2, <1>4, <1>7, <1>11, <3>1
    <3>3. OrientationForAzimuth(s.azimuth) = o
      BY <1>5, <3>2
    <3> QED
      BY <1>7, <2>2, <3>1, <3>2, <3>3 DEF share
  <2> QED
    BY <2>1, <2>2
<1>12. ASSUME NEW s \in b.surfaces, s.type = "wall", OrientationForAzimuth(s.azimuth) \in os \cup {o},
              wwr[OrientationForAzimuth(s.azimuth)] > 0
       PROVE  \E w \in ws : Proper(w, s, wwr[OrientationForAzimuth(s.azimuth)])
  <2>1. CASE OrientationForAzimuth(s.azimuth) = o
    <3>1. s \in walls /\ share > 0
      BY <1>5, <1>12, <2>1 DEF share
    <3>2. New(s) \in ws /\ Proper(New(s), s, share)
      BY <1>7, <1>10, <3>1
    <3> QED
      BY <2>1, <3>2 DEF share
  <2>2. CASE OrientationForAzimuth(s.azimuth) # o
    <3>1. PICK w \in b.windows : Proper(w, s, wwr[OrientationForAzimuth(s.azimuth)])
      BY <1>12, <2>2 DEF Done, b
    <3>2. w \notin WindowsOn(b, walls)
      BY <1>2, <1>4, <1>5, <1>8, <2>2, <3>1 DEF Proper
    <3> QED
      BY <3>1, <3>2
  <2> QED
    BY <2>1, <2>2
<1> HIDE DEF ws
<1> QED
  BY <1>6, <1>11, <1>12 DEF Done, q, share

--------------------------------------------------------------------------------
(* Surfaces made anew one by one: their constructions, their areas. *)
Redresses(f, s) ==
  /\ SurfaceFits(f) /\ f.id = s.id /\ f.type = s.type /\ f.azimuth = s.azimuth

LEMMA Redressed ==
  ASSUME NEW b, IsBuilding(b), NEW c,
         DOMAIN c = DOMAIN b, c.windows = b.windows,
         c.floorArea \in Int, c.floorArea > 0, c.volume \in Int, c.volume > 0,
         \A t \in c.surfaces : \E s \in b.surfaces : Redresses(t, s),
         \A s \in b.surfaces : \E t \in c.surfaces : Redresses(t, s),
         \A s, t \in c.surfaces : s.id = t.id => s = t
  PROVE  IsBuilding(c)
<1>1. \A s \in c.surfaces : SurfaceFits(s)
  BY DEF Redresses
<1>2. \A w \in c.windows : WindowFits(w, c.surfaces)
  BY DEF IsBuilding, WindowFits, Redresses
<1>3. Sides(c)
  BY DEF IsBuilding, Sides, WallsInQuadrant, Redresses
<1> QED
  BY <1>1, <1>2, <1>3 DEF IsBuilding

LEMMA Finalized ==
  ASSUME NEW r, HasRest(r), NEW b, IsBuilding(b)
  PROVE  LET q == Finalize(r, b) IN IsRequest(q) /\ q.building = b
<1> DEFINE q == Finalize(r, b)
<1>1. /\ DOMAIN q = DOMAIN r /\ q.building = b /\ q.materials = UsedMaterials(b)
      /\ q.glazings = UsedGlazingIds(b) /\ q.weather = r.weather
  BY DEF Finalize, HasRest
<1> HIDE DEF q
<1>2. IsRequest(q)
  BY <1>1 DEF IsRequest, HasRest, Supplied
<1> QED
  BY <1>1, <1>2 DEF q

LEMMA ConstructionKeeps ==
  ASSUME NEW r, IsRequest(r), NEW type, NEW layer
  PROVE  IsRequest(SetConstruction(r, type, layer))
<1> DEFINE b == r.building
           F(s) == IF s.type = type THEN [s EXCEPT !.construction = << layer >>] ELSE s
           c == WithConstructionForType(b, type, << layer >>)
<1>1. CASE layer = KeepPreset
  BY <1>1 DEF SetConstruction
<1>2. CASE layer # KeepPreset
  <2>1. ASSUME NEW s \in b.surfaces
        PROVE  Redresses(F(s), s)
    <3>1. SurfaceFits(s)
      BY DEF IsRequest, IsBuilding
    <3>2. << layer >> # <<>>
      OBVIOUS
    <3>3. CASE s.type = type
      <4> DEFINE f == [s EXCEPT !.construction = << layer >>]
      <4>1. /\ DOMAIN f = DOMAIN s /\ f.id = s.id /\ f.type = s.type /\ f.azimuth = s.azimuth
            /\ f.tilt = s.tilt /\ f.area = s.area /\ f.construction = << layer >>
        BY <3>1 DEF SurfaceFits
      <4>2. F(s) = f
        BY <3>3
      <4> HIDE DEF f, F
      <4> QED
        BY <3>1, <3>2, <4>1, <4>2 DEF Redresses, SurfaceFits
    <3>4. CASE s.type # type
      BY <3>1, <3>4 DEF Redresses
    <3> QED
      BY <3>3, <3>4
  <2>2. c = [b EXCEPT !.surfaces = {F(s) : s \in @}]
    BY DEF WithConstructionForType
  <2> HIDE DEF F, c
  <2>3. DOMAIN b = {"floorArea", "volume", "azimuth", "surfaces", "windows", "storageElements"}
    BY DEF IsRequest, IsBuilding
  <2> HIDE DEF b
  <2>4. /\ DOMAIN c = DOMAIN b /\ c.windows = b.windows /\ c.floorArea = b.floorArea /\ c.volume = b.volume
        /\ c.surfaces = {F(s) : s \in b.surfaces}
    BY <2>2, <2>3
  <2>5. IsBuilding(b)
    BY DEF IsRequest, b
  <2>6. \A t \in c.surfaces : \E s \in b.surfaces : t = F(s)
    BY <2>4
  <2>7. \A s \in b.surfaces : F(s) \in c.surfaces
    BY <2>4
  <2>8. \A s, t \in b.surfaces : s.id = t.id => s = t
    BY <2>5 DEF IsBuilding
  <2>9. \A s, t \in c.surfaces : s.id = t.id => s = t
    BY <2>1, <2>6, <2>8 DEF Redresses
  <2>10. c.floorArea \in Int /\ c.floorArea > 0 /\ c.volume \in Int /\ c.volume > 0
    BY <2>4, <2>5 DEF IsBuilding
  <2>11. IsBuilding(c)
    <3>1. \A t \in c.surfaces : \E s \in b.surfaces : Redresses(t, s)
      BY <2>1, <2>6
    <3>2. \A s \in b.surfaces : \E t \in c.surfaces : Redresses(t, s)
      BY <2>1, <2>7
    <3> QED
      BY <2>4, <2>5, <2>9, <2>10, <3>1, <3>2, Redressed
  <2>12. SetConstruction(r, type, layer) = Finalize(r, c)
    BY <1>2 DEF SetConstruction, b, c
  <2> QED
    BY <2>11, <2>12, Finalized DEF IsRequest
<1> QED
  BY <1>1, <1>2

LEMMA CladKeeps ==
  ASSUME NEW r, IsRequest(r), NEW d
  PROVE  IsRequest(Clad(r, d))
  BY ConstructionKeeps DEF Clad

--------------------------------------------------------------------------------
(* A product of lengths is an area. *)
LEMMA Products ==
  ASSUME NEW a \in Int, NEW b \in Int, a >= 20, b >= 20
  PROVE  a * b \in Int /\ a * b >= 400
<1>1. a * b >= 20 * b
  BY SMT
<1> QED
  BY <1>1, SMT

LEMMA AreasFit ==
  ASSUME NEW a \in Int, NEW b \in Int, a >= 20, b >= 20
  PROVE  Area(a, b) \in Int /\ Area(a, b) >= 1000
<1>1. a * b \in Int /\ a * b >= 400
  BY Products
<1> DEFINE p == a * b
<1> HIDE DEF p
<1>2. p \in Int /\ p >= 400
  BY <1>1 DEF p
<1>3. p * 10000 \in Int /\ p * 10000 >= 1000
  BY <1>2, SMT
<1> QED
  BY <1>3 DEF Area, p

LEMMA ResizedFits ==
  ASSUME NEW b, IsBuilding(b), NEW l \in Int, NEW w \in Int, NEW h \in Int, l >= 20, w >= 20, h >= 20
  PROVE  LET c == ResizedBuilding(b, l, w, h)
         IN /\ IsBuilding(c) /\ c.windows = b.windows /\ c.storageElements = b.storageElements
            /\ UsedMaterialIds(c) \subseteq UsedMaterialIds(b)
            /\ \A t \in c.surfaces : \E s \in b.surfaces : Redresses(t, s)
<1> DEFINE F(s) == ResizedSurface(s, l, w, h)
           c == ResizedBuilding(b, l, w, h)
<1>1. ASSUME NEW s \in b.surfaces
      PROVE  Redresses(F(s), s) /\ F(s).construction = s.construction
  <2>1. SurfaceFits(s)
    BY DEF IsBuilding
  <2>2. ASSUME NEW area \in Int, area >= 1000
        PROVE  LET f == [s EXCEPT !.area = area] IN Redresses(f, s) /\ f.construction = s.construction
    <3> DEFINE f == [s EXCEPT !.area = area]
    <3>1. /\ DOMAIN f = DOMAIN s /\ f.id = s.id /\ f.type = s.type /\ f.azimuth = s.azimuth
          /\ f.tilt = s.tilt /\ f.area = area /\ f.construction = s.construction
      BY <2>1 DEF SurfaceFits
    <3> HIDE DEF f
    <3>2. SurfaceFits(f)
      BY <2>1, <2>2, <3>1 DEF SurfaceFits
    <3>3. Redresses(f, s)
      BY <3>1, <3>2 DEF Redresses
    <3> QED
      BY <3>1, <3>3 DEF f
  <2>3. /\ Area(l, h) \in Int /\ Area(l, h) >= 1000 /\ Area(w, h) \in Int /\ Area(w, h) >= 1000
        /\ Area(l, w) \in Int /\ Area(l, w) >= 1000
    BY AreasFit
  <2>4. CASE s.type = "wall" /\ s.azimuth \in {0, 180}
    <3>1. F(s) = [s EXCEPT !.area = Area(l, h)]
      BY <2>4 DEF ResizedSurface
    <3> HIDE DEF F
    <3> QED
      BY <2>2, <2>3, <3>1
  <2>5. CASE s.type = "wall" /\ s.azimuth \in {-90, 90}
    <3>1. F(s) = [s EXCEPT !.area = Area(w, h)]
      BY <2>5 DEF ResizedSurface
    <3> HIDE DEF F
    <3> QED
      BY <2>2, <2>3, <3>1
  <2>6. CASE s.type \in {"roof", "floor"}
    <3>1. F(s) = [s EXCEPT !.area = Area(l, w)]
      BY <2>6 DEF ResizedSurface
    <3> HIDE DEF F
    <3> QED
      BY <2>2, <2>3, <3>1
  <2>7. CASE s.type = "wall" /\ s.azimuth \notin {0, 180} /\ s.azimuth \notin {-90, 90}
    <3>1. F(s) = s
      BY <2>7 DEF ResizedSurface
    <3> HIDE DEF F
    <3> QED
      BY <2>1, <3>1 DEF Redresses
  <2>8. s.type \in {"wall", "roof", "floor"}
    BY <2>1 DEF SurfaceFits, SurfaceTypes
  <2> QED
    BY <2>4, <2>5, <2>6, <2>7, <2>8
<1>2. c = [b EXCEPT !.floorArea = Area(l, w), !.volume = l * w * h, !.surfaces = {F(s) : s \in @}]
  BY DEF ResizedBuilding
<1>3. DOMAIN b = {"floorArea", "volume", "azimuth", "surfaces", "windows", "storageElements"}
  BY DEF IsBuilding
<1> HIDE DEF F, c
<1>4. /\ DOMAIN c = DOMAIN b /\ c.windows = b.windows /\ c.storageElements = b.storageElements
      /\ c.floorArea = Area(l, w) /\ c.volume = l * w * h /\ c.surfaces = {F(s) : s \in b.surfaces}
  BY <1>2, <1>3
<1>5. \A t \in c.surfaces : \E s \in b.surfaces : t = F(s)
  BY <1>4
<1>6. \A s \in b.surfaces : F(s) \in c.surfaces
  BY <1>4
<1>7. \A s, t \in b.surfaces : s.id = t.id => s = t
  BY DEF IsBuilding
<1>8. \A s, t \in c.surfaces : s.id = t.id => s = t
  BY <1>1, <1>5, <1>7 DEF Redresses
<1>9. c.floorArea \in Int /\ c.floorArea > 0
  <2>1. Area(l, w) \in Int /\ Area(l, w) >= 1000
    BY AreasFit
  <2> QED
    BY <1>4, <2>1
<1>10. c.volume \in Int /\ c.volume > 0
  <2>1. l * w \in Int /\ l * w >= 400
    BY Products
  <2> DEFINE p == l * w
  <2> HIDE DEF p
  <2>2. p \in Int /\ p >= 20
    BY <2>1 DEF p
  <2>3. p * h \in Int /\ p * h >= 400
    BY <2>2, Products
  <2> QED
    BY <1>4, <2>3, SMT DEF p
<1>11. IsBuilding(c)
  <2>1. \A t \in c.surfaces : \E s \in b.surfaces : Redresses(t, s)
    BY <1>1, <1>5
  <2>2. \A s \in b.surfaces : \E t \in c.surfaces : Redresses(t, s)
    BY <1>1, <1>6
  <2>3. DOMAIN c = DOMAIN b /\ c.windows = b.windows
    BY <1>4
  <2> QED
    BY <1>8, <1>9, <1>10, <2>1, <2>2, <2>3, Redressed
<1>12. UsedMaterialIds(c) \subseteq UsedMaterialIds(b)
  <2> SUFFICES ASSUME NEW m \in UsedMaterialIds(c)
               PROVE  m \in UsedMaterialIds(b)
    OBVIOUS
  <2>1. PICK t \in c.surfaces : m \in {layer.materialId : layer \in ToSet(t.construction)}
    BY DEF UsedMaterialIds
  <2>2. PICK s \in b.surfaces : t = F(s)
    BY <1>5
  <2>3. t.construction = s.construction
    BY <1>1, <2>2
  <2> QED
    BY <2>1, <2>3 DEF UsedMaterialIds
<1>13. \A t \in c.surfaces : \E s \in b.surfaces : Redresses(t, s)
  BY <1>1, <1>5
<1> QED
  BY <1>4, <1>11, <1>12, <1>13 DEF c

(* The box: its walls rise by the storey and its sides are glazed as they were.             *)
LEMMA SizeKeeps ==
  ASSUME NEW r, IsRequest(r), NEW l \in Int, NEW w \in Int, NEW h \in Int, l >= 20, w >= 20, h >= 20
  PROVE  LET q == [r EXCEPT !.building = ResizedBuilding(@, l, w, h)]
         IN IsRequest(q) /\ q.building = ResizedBuilding(r.building, l, w, h)
<1> DEFINE c == ResizedBuilding(r.building, l, w, h)
           q == [r EXCEPT !.building = ResizedBuilding(@, l, w, h)]
<1>1. IsBuilding(r.building) /\ HasRest(r) /\ Supplied(r)
  BY DEF IsRequest
<1>2. q = [r EXCEPT !.building = c]
  OBVIOUS
<1> HIDE DEF q
<1>3. /\ IsBuilding(c) /\ c.windows = r.building.windows
      /\ c.storageElements = r.building.storageElements
      /\ UsedMaterialIds(c) \subseteq UsedMaterialIds(r.building)
      /\ \A t \in c.surfaces : \E s \in r.building.surfaces : Redresses(t, s)
  BY <1>1, ResizedFits
<1> HIDE DEF c
<1>4. /\ DOMAIN q = DOMAIN r /\ q.building = c /\ q.materials = r.materials
      /\ q.glazings = r.glazings /\ q.weather = r.weather
  BY <1>1, <1>2 DEF HasRest
<1>5. HasRest(q)
  BY <1>1, <1>4 DEF HasRest
<1>6. Supplied(q)
  BY <1>1, <1>3, <1>4 DEF Supplied, UsedMaterials, UsedGlazingIds
<1>7. IsRequest(q)
  BY <1>3, <1>4, <1>5, <1>6 DEF IsRequest
<1> QED
  BY <1>4, <1>7 DEF c, q

LEMMA BoxKeeps ==
  ASSUME NEW r, IsRequest(r), NEW l \in Int, NEW w \in Int, NEW h \in Int, NEW n \in {1, 2},
         l >= 20, w >= 20, h >= 20
  PROVE  IsRequest(SetSizeStoreys(r, l, w, h, n))
<1> DEFINE Before(o) == Ratio(r.building, WallsInQuadrant(r.building, o))
           Reglazed(q, o) == IF Before(o) > 0 THEN SetQuadrantWwr(q, o, Before(o)) ELSE q
           q0 == [r EXCEPT !.building = ResizedBuilding(@, l, w, h * n)]
<1>1. SetSizeStoreys(r, l, w, h, n) = OnEachSide(Reglazed, q0)
  BY DEF SetSizeStoreys
<1>2. OnEachSide(Reglazed, q0) = Reglazed(Reglazed(Reglazed(Reglazed(q0, "S"), "E"), "W"), "N")
  BY DEF OnEachSide
<1>3. ASSUME NEW q, IsRequest(q), NEW o
      PROVE  IsRequest(Reglazed(q, o))
  <2> HIDE DEF Before
  <2> QED
    BY <1>3, QuadrantKeeps
<1>4. IsRequest(q0)
  <2>1. h * n \in Int /\ h * n >= 20
    BY SMT
  <2> QED
    BY <2>1, SizeKeeps
<1> HIDE DEF Reglazed, q0
<1>5. IsRequest(Reglazed(q0, "S"))
  BY <1>3, <1>4
<1>6. IsRequest(Reglazed(Reglazed(q0, "S"), "E"))
  BY <1>3, <1>5
<1>7. IsRequest(Reglazed(Reglazed(Reglazed(q0, "S"), "E"), "W"))
  BY <1>3, <1>6
<1>8. IsRequest(Reglazed(Reglazed(Reglazed(Reglazed(q0, "S"), "E"), "W"), "N"))
  BY <1>3, <1>7
<1> QED
  BY <1>1, <1>2, <1>8

--------------------------------------------------------------------------------
(* The round shapes.                                                                      *)
LEMMA SectorsFaceAllSides ==
  /\ 0 \in Sectors /\ OrientationForAzimuth(SectorAzimuth(0)) = "N"
  /\ 2 \in Sectors /\ OrientationForAzimuth(SectorAzimuth(2)) = "E"
  /\ 5 \in Sectors /\ OrientationForAzimuth(SectorAzimuth(5)) = "S"
  /\ 8 \in Sectors /\ OrientationForAzimuth(SectorAzimuth(8)) = "W"
<1>1. SectorAzimuth(0) = -150 /\ SectorAzimuth(2) = -90 /\ SectorAzimuth(5) = 0 /\ SectorAzimuth(8) = 90
  BY SMT DEF SectorAzimuth
<1>2. OrientationForAzimuth(-150) = "N"
  BY DEF OrientationForAzimuth
<1>3. 0 \in Sectors /\ 2 \in Sectors /\ 5 \in Sectors /\ 8 \in Sectors
  BY DEF Sectors
<1> QED
  BY <1>1, <1>2, <1>3, QuarterSides

LEMMA RingFits ==
  ASSUME NEW facet, SurfaceFits(facet), NEW kind
  PROVE  /\ \A s \in Ring(facet, kind) :
              /\ SurfaceFits(s) /\ s.type = facet.type
              /\ \E k \in Sectors : s.id = Append(kind, k) /\ s.azimuth = SectorAzimuth(k)
         /\ \A k \in Sectors : \E s \in Ring(facet, kind) :
              s.type = facet.type /\ s.azimuth = SectorAzimuth(k)
         /\ (\A j, k \in Sectors : Append(kind, j) = Append(kind, k) => j = k)
              => \A s, t \in Ring(facet, kind) : s.id = t.id => s = t
<1> DEFINE F(k) == [facet EXCEPT !.id = Append(kind, k), !.azimuth = SectorAzimuth(k)]
<1>1. Ring(facet, kind) = {F(k) : k \in Sectors}
  BY DEF Ring
<1>2. ASSUME NEW k \in Sectors
      PROVE  /\ SurfaceFits(F(k)) /\ F(k).type = facet.type
             /\ F(k).id = Append(kind, k) /\ F(k).azimuth = SectorAzimuth(k)
  <2> DEFINE f == F(k)
  <2>1. /\ DOMAIN f = DOMAIN facet /\ f.id = Append(kind, k) /\ f.azimuth = SectorAzimuth(k)
        /\ f.type = facet.type /\ f.tilt = facet.tilt /\ f.area = facet.area
        /\ f.construction = facet.construction
    BY DEF SurfaceFits
  <2> HIDE DEF f, F
  <2>2. SurfaceFits(f)
    BY <2>1 DEF SurfaceFits
  <2> QED
    BY <2>1, <2>2 DEF f
<1> HIDE DEF F
<1>3. \A s \in Ring(facet, kind) : \E k \in Sectors : s = F(k)
  BY <1>1
<1>4. \A k \in Sectors : F(k) \in Ring(facet, kind)
  BY <1>1
<1> QED
  BY <1>2, <1>3, <1>4

(* A copy of a template has what the template has. *)
LEMMA CopyFits ==
  ASSUME NEW s, SurfaceFits(s), NEW f, DOMAIN f = DOMAIN s, f.type = s.type, f.tilt = s.tilt,
         f.area \in Int, f.area >= 1000, f.construction = s.construction
  PROVE  SurfaceFits(f)
  BY DEF SurfaceFits

LEMMA Templates ==
  ASSUME NEW b, IsBuilding(b), IsBox(b)
  PROVE  LET t == ShapeTemplates(b)
         IN /\ SurfaceFits(t.wall) /\ t.wall.type = "wall"
            /\ SurfaceFits(t.roof) /\ t.roof.type = "roof"
            /\ SurfaceFits(t.floor) /\ t.floor.type = "floor"
<1> DEFINE wall == CHOOSE s \in b.surfaces : s.type = "wall" /\ s.azimuth = 0
           roof == CHOOSE s \in b.surfaces : s.type = "roof"
           floor == CHOOSE s \in b.surfaces : s.type = "floor"
<1>1. wall \in b.surfaces /\ wall.type = "wall"
  BY DEF IsBox
<1>2. roof \in b.surfaces /\ roof.type = "roof"
  BY DEF IsBox
<1>3. floor \in b.surfaces /\ floor.type = "floor"
  BY DEF IsBox
<1> HIDE DEF wall, roof, floor
<1>4. SurfaceFits(wall) /\ SurfaceFits(roof) /\ SurfaceFits(floor)
  BY <1>1, <1>2, <1>3 DEF IsBuilding
<1>5. ShapeTemplates(b) = [wall |-> wall, roof |-> roof, floor |-> floor]
  BY DEF ShapeTemplates, wall, roof, floor
<1> QED
  BY <1>1, <1>2, <1>3, <1>4, <1>5

(* What the geometry of a round shape promises. *)
IsRound(g) ==
  /\ g.floorArea \in Int /\ g.floorArea > 0 /\ g.volume \in Int /\ g.volume > 0
  /\ \A s \in g.surfaces : SurfaceFits(s)
  /\ \A s, t \in g.surfaces : s.id = t.id => s = t
  /\ \A k \in Sectors : \E s \in g.surfaces : s.type = "wall" /\ s.azimuth = SectorAzimuth(k)
  /\ \E s \in g.surfaces : s.type = "floor"

LEMMA KindsDiffer ==
  /\ \A k : Append(<<"wallC">>, k)[2] = k /\ Len(Append(<<"wallC">>, k)) = 2
  /\ \A type, k, j : /\ Append(<<type, k>>, j)[2] = k /\ Append(<<type, k>>, j)[3] = j
                     /\ Len(Append(<<type, k>>, j)) = 3
  /\ Len(<<"roof">>) = 1 /\ Len(<<"floor">>) = 1
<1>1. ASSUME NEW k
      PROVE  Append(<<"wallC">>, k)[2] = k /\ Len(Append(<<"wallC">>, k)) = 2
  BY SMT
<1>2. ASSUME NEW type, NEW k, NEW j
      PROVE  /\ Append(<<type, k>>, j)[2] = k /\ Append(<<type, k>>, j)[3] = j
             /\ Len(Append(<<type, k>>, j)) = 3
  BY SMT
<1>3. Len(<<"roof">>) = 1 /\ Len(<<"floor">>) = 1
  BY SMT
<1> QED
  BY <1>1, <1>2, <1>3

LEMMA CylinderIsRound ==
  ASSUME NEW t, SurfaceFits(t.wall), t.wall.type = "wall", SurfaceFits(t.roof),
         SurfaceFits(t.floor), t.floor.type = "floor",
         NEW d \in Int, NEW h \in Int, NEW n \in {1, 2}, d >= 20, h >= 20
  PROVE  IsRound(CylinderGeometry(t, d, h, n))
<1> DEFINE g == CylinderGeometry(t, d, h, n)
           base == 18 * Area(d, d)
           facet == [t.wall EXCEPT !.area = 6 * Area(d, h * n)]
           walls == Ring(facet, <<"wallC">>)
           roof == [t.roof EXCEPT !.id = <<"roof">>, !.area = base]
           floor == [t.floor EXCEPT !.id = <<"floor">>, !.area = base]
<1>1. /\ g.floorArea = base /\ g.volume = 18 * d * d * (h * n)
      /\ g.surfaces = walls \cup {roof, floor}
  BY DEF CylinderGeometry
<1>2. h * n \in Int /\ h * n >= 20
  BY SMT
<1>3. base \in Int /\ base >= 1000
  <2>1. Area(d, d) \in Int /\ Area(d, d) >= 1000
    BY AreasFit
  <2> QED
    BY <2>1, SMT
<1>4. 6 * Area(d, h * n) \in Int /\ 6 * Area(d, h * n) >= 1000
  <2> DEFINE hn == h * n
  <2> HIDE DEF hn
  <2>1. hn \in Int /\ hn >= 20
    BY <1>2 DEF hn
  <2>2. Area(d, hn) \in Int /\ Area(d, hn) >= 1000
    BY <2>1, AreasFit
  <2>3. 6 * Area(d, hn) \in Int /\ 6 * Area(d, hn) >= 1000
    BY <2>2, SMT
  <2> QED
    BY <2>3 DEF hn
<1>5. 18 * d * d * (h * n) \in Int /\ 18 * d * d * (h * n) > 0
  <2> DEFINE hn == h * n
             a == 18 * d
             v == a * d
  <2>1. hn \in Int /\ hn >= 20
    BY <1>2
  <2>2. a \in Int /\ a >= 20
    BY SMT
  <2> HIDE DEF hn, a
  <2>3. v \in Int /\ v >= 20
    BY <2>2, Products
  <2> HIDE DEF v
  <2>4. v * hn \in Int /\ v * hn >= 400
    BY <2>1, <2>3, Products
  <2>5. v * hn > 0
    BY <2>4, SMT
  <2> QED
    BY <2>4, <2>5 DEF v, a, hn
<1>6. SurfaceFits(facet) /\ facet.type = "wall"
  <2> DEFINE area == 6 * Area(d, h * n)
  <2> HIDE DEF area
  <2>1. area \in Int /\ area >= 1000
    BY <1>4 DEF area
  <2>2. /\ DOMAIN facet = DOMAIN t.wall /\ facet.type = t.wall.type /\ facet.tilt = t.wall.tilt
        /\ facet.area = area /\ facet.construction = t.wall.construction
    BY DEF SurfaceFits, area
  <2> HIDE DEF facet
  <2> QED
    BY <2>1, <2>2, CopyFits
<1>7. /\ SurfaceFits(roof) /\ roof.id = <<"roof">>
      /\ SurfaceFits(floor) /\ floor.id = <<"floor">> /\ floor.type = "floor"
  <2> HIDE DEF base
  <2>1. /\ DOMAIN roof = DOMAIN t.roof /\ roof.type = t.roof.type /\ roof.tilt = t.roof.tilt
        /\ roof.area = base /\ roof.construction = t.roof.construction /\ roof.id = <<"roof">>
    BY DEF SurfaceFits
  <2>2. /\ DOMAIN floor = DOMAIN t.floor /\ floor.type = t.floor.type /\ floor.tilt = t.floor.tilt
        /\ floor.area = base /\ floor.construction = t.floor.construction /\ floor.id = <<"floor">>
    BY DEF SurfaceFits
  <2> HIDE DEF roof, floor
  <2>3. SurfaceFits(roof) /\ SurfaceFits(floor)
    BY <1>3, <2>1, <2>2, CopyFits
  <2> QED
    BY <2>1, <2>2, <2>3
<1> HIDE DEF g, base, facet, walls, roof, floor
<1>8. /\ \A s \in walls :
           /\ SurfaceFits(s) /\ s.type = "wall"
           /\ \E k \in Sectors : s.id = Append(<<"wallC">>, k) /\ s.azimuth = SectorAzimuth(k)
      /\ \A k \in Sectors : \E s \in walls : s.type = "wall" /\ s.azimuth = SectorAzimuth(k)
      /\ (\A j, k \in Sectors : Append(<<"wallC">>, j) = Append(<<"wallC">>, k) => j = k)
           => \A s, u \in walls : s.id = u.id => s = u
  <2>1. /\ \A s \in walls :
             /\ SurfaceFits(s) /\ s.type = facet.type
             /\ \E k \in Sectors : s.id = Append(<<"wallC">>, k) /\ s.azimuth = SectorAzimuth(k)
        /\ \A k \in Sectors : \E s \in walls : s.type = facet.type /\ s.azimuth = SectorAzimuth(k)
        /\ (\A j, k \in Sectors : Append(<<"wallC">>, j) = Append(<<"wallC">>, k) => j = k)
             => \A s, u \in walls : s.id = u.id => s = u
    BY <1>6, RingFits DEF walls
  <2> QED
    BY <1>6, <2>1
<1>9. \A j, k \in Sectors : Append(<<"wallC">>, j) = Append(<<"wallC">>, k) => j = k
  BY KindsDiffer
<1>10. \A s, u \in walls : s.id = u.id => s = u
  BY <1>8, <1>9
<1>11. \A s \in walls : s.id # <<"roof">> /\ s.id # <<"floor">>
  <2>1. ASSUME NEW s \in walls
        PROVE  Len(s.id) = 2
    <3>1. PICK k \in Sectors : s.id = Append(<<"wallC">>, k)
      BY <1>8
    <3>2. Len(Append(<<"wallC">>, k)) = 2
      BY KindsDiffer
    <3> QED
      BY <3>1, <3>2
  <2> QED
    BY <2>1, KindsDiffer
<1>12. <<"roof">> # <<"floor">>
  OBVIOUS
<1>13. \A s, u \in g.surfaces : s.id = u.id => s = u
  BY <1>1, <1>7, <1>10, <1>11, <1>12
<1>14. \A s \in g.surfaces : SurfaceFits(s)
  BY <1>1, <1>7, <1>8
<1>15. /\ \A k \in Sectors : \E s \in g.surfaces : s.type = "wall" /\ s.azimuth = SectorAzimuth(k)
       /\ \E s \in g.surfaces : s.type = "floor"
  BY <1>1, <1>7, <1>8
<1>16. g.floorArea \in Int /\ g.floorArea > 0 /\ g.volume \in Int /\ g.volume > 0
  BY <1>1, <1>3, <1>5
<1>17. IsRound(g)
  BY <1>13, <1>14, <1>15, <1>16 DEF IsRound
<1> QED
  BY <1>17 DEF g

LEMMA BandFits ==
  ASSUME NEW t, SurfaceFits(t.wall), t.wall.type = "wall", SurfaceFits(t.roof), t.roof.type = "roof",
         NEW d \in Int, d >= 20, NEW k \in Bands
  PROVE  /\ \A s \in Band(t, d, k) : SurfaceFits(s) /\ Len(s.id) = 3 /\ s.id[2] = k
         /\ \A s, u \in Band(t, d, k) : s.id = u.id => s = u
         /\ k = 0 => \A j \in Sectors : \E s \in Band(t, d, k) : s.type = "wall" /\ s.azimuth = SectorAzimuth(j)
<1> DEFINE type == IF IsWallBand(k) THEN "wall" ELSE "roof"
           area == Area(d, d)
           tilt == BandTilt[k + 1]
           facet == [t[type] EXCEPT !.area = area, !.tilt = tilt]
           kind == <<type, k>>
           S == Band(t, d, k)
<1>1. S = Ring(facet, kind)
  BY DEF Band
<1>2. area \in Int /\ area >= 1000
  BY AreasFit
<1>3. tilt \in Int /\ 0 <= tilt /\ tilt <= 180 /\ (k = 0 => tilt = 80)
  <2>1. k = 0 \/ k = 1 \/ k = 2
    BY DEF Bands
  <2>2. BandTilt[0 + 1] = 80 /\ BandTilt[1 + 1] = 60 /\ BandTilt[2 + 1] = 34
    BY DEF BandTilt
  <2> QED
    BY <2>1, <2>2
<1>4. (type = "wall" \/ type = "roof") /\ (k = 0 => type = "wall")
  BY <1>3 DEF IsWallBand
<1> HIDE DEF type, area, tilt
<1>5. SurfaceFits(t[type]) /\ t[type].type = type
  BY <1>4
<1>6. SurfaceFits(facet) /\ facet.type = type
  <2> DEFINE s == t[type]
  <2> HIDE DEF s
  <2>1. SurfaceFits(s) /\ s.type = type
    BY <1>5 DEF s
  <2>2. facet = [s EXCEPT !.area = area, !.tilt = tilt]
    BY DEF s
  <2> HIDE DEF facet
  <2>3. /\ DOMAIN facet = DOMAIN s /\ facet.type = type /\ facet.tilt = tilt /\ facet.area = area
        /\ facet.construction = s.construction
    BY <2>1, <2>2 DEF SurfaceFits
  <2>4. SurfaceFits(facet)
    BY <1>2, <1>3, <2>1, <2>3 DEF SurfaceFits
  <2> QED
    BY <2>3, <2>4
<1>7. \A j : Append(kind, j)[2] = k /\ Append(kind, j)[3] = j /\ Len(Append(kind, j)) = 3
  BY KindsDiffer
<1> HIDE DEF facet, kind, S
<1>8. /\ \A s \in Ring(facet, kind) :
           /\ SurfaceFits(s) /\ s.type = facet.type
           /\ \E j \in Sectors : s.id = Append(kind, j) /\ s.azimuth = SectorAzimuth(j)
      /\ \A j \in Sectors : \E s \in Ring(facet, kind) :
           s.type = facet.type /\ s.azimuth = SectorAzimuth(j)
      /\ (\A i, j \in Sectors : Append(kind, i) = Append(kind, j) => i = j)
           => \A s, u \in Ring(facet, kind) : s.id = u.id => s = u
  BY <1>6, RingFits
<1>9. \A s, u \in S : s.id = u.id => s = u
  <2>1. \A i, j \in Sectors : Append(kind, i) = Append(kind, j) => i = j
    BY <1>7
  <2> QED
    BY <1>1, <1>8, <2>1
<1>10. ASSUME NEW s \in S
       PROVE  SurfaceFits(s) /\ Len(s.id) = 3 /\ s.id[2] = k
  <2>1. PICK j \in Sectors : s.id = Append(kind, j)
    BY <1>1, <1>8
  <2>2. Len(Append(kind, j)) = 3 /\ Append(kind, j)[2] = k
    BY <1>7
  <2> QED
    BY <1>1, <1>8, <2>1, <2>2
<1>11. k = 0 => \A j \in Sectors : \E s \in S : s.type = "wall" /\ s.azimuth = SectorAzimuth(j)
  BY <1>1, <1>4, <1>6, <1>8
<1> QED
  BY <1>9, <1>10, <1>11 DEF S

LEMMA DomeIsRound ==
  ASSUME NEW t, SurfaceFits(t.wall), t.wall.type = "wall", SurfaceFits(t.roof), t.roof.type = "roof",
         SurfaceFits(t.floor), t.floor.type = "floor", NEW d \in Int, d >= 20
  PROVE  IsRound(DomeGeometry(t, d))
<1> DEFINE g == DomeGeometry(t, d)
           base == 18 * Area(d, d)
           floor == [t.floor EXCEPT !.id = <<"floor">>, !.area = base]
           rings == UNION {Band(t, d, k) : k \in Bands}
<1>1. g.floorArea = base /\ g.volume = 6 * d * d * d /\ g.surfaces = rings \cup {floor}
  BY DEF DomeGeometry
<1>2. base \in Int /\ base >= 1000
  <2>1. Area(d, d) \in Int /\ Area(d, d) >= 1000
    BY AreasFit
  <2> QED
    BY <2>1, SMT
<1>3. 6 * d * d * d \in Int /\ 6 * d * d * d > 0
  <2> DEFINE a == 6 * d
             v == a * d
  <2>1. a \in Int /\ a >= 20
    BY SMT
  <2> HIDE DEF a
  <2>2. v \in Int /\ v >= 20
    BY <2>1, Products
  <2> HIDE DEF v
  <2>3. v * d \in Int /\ v * d >= 400
    BY <2>2, Products
  <2>4. v * d > 0
    BY <2>3, SMT
  <2> QED
    BY <2>3, <2>4 DEF v, a
<1>4. SurfaceFits(floor) /\ floor.id = <<"floor">> /\ floor.type = "floor"
  <2> HIDE DEF base
  <2>1. /\ DOMAIN floor = DOMAIN t.floor /\ floor.type = t.floor.type /\ floor.tilt = t.floor.tilt
        /\ floor.area = base /\ floor.construction = t.floor.construction /\ floor.id = <<"floor">>
    BY DEF SurfaceFits
  <2> HIDE DEF floor
  <2>2. SurfaceFits(floor)
    BY <1>2, <2>1, CopyFits
  <2> QED
    BY <2>1, <2>2
<1>5. \A k \in Bands : \A s \in Band(t, d, k) : SurfaceFits(s) /\ Len(s.id) = 3 /\ s.id[2] = k
  BY BandFits
<1>6. \A k \in Bands : \A s, u \in Band(t, d, k) : s.id = u.id => s = u
  BY BandFits
<1>7. \A j \in Sectors : \E s \in Band(t, d, 0) : s.type = "wall" /\ s.azimuth = SectorAzimuth(j)
  <2>1. 0 \in Bands
    BY DEF Bands
  <2> QED
    BY <2>1, BandFits
<1>8. Band(t, d, 0) \subseteq rings
  BY DEF Bands
<1>9. \A s \in rings : \E k \in Bands : s \in Band(t, d, k)
  OBVIOUS
<1> HIDE DEF g, base, floor, rings
<1>10. \A s, u \in rings : s.id = u.id => s = u
  <2> TAKE s, u \in rings
  <2> HAVE s.id = u.id
  <2>1. PICK k \in Bands : s \in Band(t, d, k)
    BY <1>9
  <2>2. PICK j \in Bands : u \in Band(t, d, j)
    BY <1>9
  <2>3. s.id[2] = k /\ u.id[2] = j
    BY <1>5, <2>1, <2>2
  <2> QED
    BY <1>6, <2>1, <2>2, <2>3
<1>11. \A s \in rings : s.id # <<"floor">>
  <2> TAKE s \in rings
  <2>1. Len(s.id) = 3
    BY <1>5, <1>9
  <2> QED
    BY <2>1, KindsDiffer
<1>12. \A s, u \in g.surfaces : s.id = u.id => s = u
  BY <1>1, <1>4, <1>10, <1>11
<1>13. \A s \in g.surfaces : SurfaceFits(s)
  BY <1>1, <1>4, <1>5, <1>9
<1>14. /\ \A k \in Sectors : \E s \in g.surfaces : s.type = "wall" /\ s.azimuth = SectorAzimuth(k)
       /\ \E s \in g.surfaces : s.type = "floor"
  BY <1>1, <1>4, <1>7, <1>8
<1>15. g.floorArea \in Int /\ g.floorArea > 0 /\ g.volume \in Int /\ g.volume > 0
  BY <1>1, <1>2, <1>3
<1>16. IsRound(g)
  BY <1>12, <1>13, <1>14, <1>15 DEF IsRound
<1> QED
  BY <1>16 DEF g

LEMMA FacetsKeep ==
  ASSUME NEW r, IsRequest(r), IsBox(r.building), NEW shape, NEW d \in Int, NEW h \in Int, NEW n \in {1, 2},
         d >= 20, h >= 20
  PROVE  IsRequest(SetShapeFacets(r, shape, d, h, n))
<1> DEFINE b == r.building
           t == ShapeTemplates(b)
           g == IF shape = "cylinder" THEN CylinderGeometry(t, d, h, n) ELSE DomeGeometry(t, d)
           c == [b EXCEPT !.floorArea = g.floorArea, !.volume = g.volume, !.surfaces = g.surfaces,
                          !.windows = {}]
<1>1. SetShapeFacets(r, shape, d, h, n) = Finalize(r, c)
  BY DEF SetShapeFacets
<1>2. IsBuilding(b) /\ HasRest(r)
  BY DEF IsRequest
<1>3. IsRound(g)
  <2>1. /\ SurfaceFits(t.wall) /\ t.wall.type = "wall"
        /\ SurfaceFits(t.roof) /\ t.roof.type = "roof"
        /\ SurfaceFits(t.floor) /\ t.floor.type = "floor"
    BY <1>2, Templates
  <2> HIDE DEF t
  <2>2. IsRound(CylinderGeometry(t, d, h, n))
    BY <2>1, CylinderIsRound
  <2>3. IsRound(DomeGeometry(t, d))
    BY <2>1, DomeIsRound
  <2> QED
    BY <2>2, <2>3
<1> HIDE DEF g, t
<1>4. /\ DOMAIN c = DOMAIN b /\ c.floorArea = g.floorArea /\ c.volume = g.volume
      /\ c.surfaces = g.surfaces /\ c.windows = {}
  BY <1>2 DEF IsBuilding
<1> HIDE DEF b, c
<1>5. Sides(c)
  <2>1. \A k \in Sectors : \E s \in c.surfaces : s.type = "wall" /\ s.azimuth = SectorAzimuth(k)
    BY <1>3, <1>4 DEF IsRound
  <2>2. /\ \E s \in c.surfaces : s.type = "wall" /\ s.azimuth = SectorAzimuth(0)
        /\ \E s \in c.surfaces : s.type = "wall" /\ s.azimuth = SectorAzimuth(2)
        /\ \E s \in c.surfaces : s.type = "wall" /\ s.azimuth = SectorAzimuth(5)
        /\ \E s \in c.surfaces : s.type = "wall" /\ s.azimuth = SectorAzimuth(8)
    BY <2>1, SectorsFaceAllSides
  <2>3. /\ WallsInQuadrant(c, "N") # {} /\ WallsInQuadrant(c, "E") # {}
        /\ WallsInQuadrant(c, "S") # {} /\ WallsInQuadrant(c, "W") # {}
    BY <2>2, SectorsFaceAllSides DEF WallsInQuadrant
  <2> QED
    BY <2>3 DEF Sides, Orientations
<1>6. IsBuilding(c)
  <2>1. /\ c.floorArea \in Int /\ c.floorArea > 0 /\ c.volume \in Int /\ c.volume > 0
        /\ \A s \in c.surfaces : SurfaceFits(s)
        /\ \A s, u \in c.surfaces : s.id = u.id => s = u
    BY <1>3, <1>4 DEF IsRound
  <2> QED
    BY <1>2, <1>4, <1>5, <2>1 DEF IsBuilding
<1> QED
  BY <1>1, <1>2, <1>6, Finalized

LEMMA SlabKeeps ==
  ASSUME NEW r, IsRequest(r)
  PROVE  IsRequest(AddIntermediateSlab(r))
<1> DEFINE b == r.building
           floor == CHOOSE s \in b.surfaces : s.type = "floor"
           slab == [id |-> "intermediateSlab", materialId |-> Last(floor.construction).materialId,
                    footprint |-> b.floorArea]
           c == [b EXCEPT !.storageElements = @ \cup {slab}]
<1>1. AddIntermediateSlab(r) = Finalize(r, c)
  BY DEF AddIntermediateSlab
<1>2. IsBuilding(b) /\ HasRest(r)
  BY DEF IsRequest
<1> HIDE DEF slab
<1>3. /\ DOMAIN c = DOMAIN b /\ c.floorArea = b.floorArea /\ c.volume = b.volume
      /\ c.surfaces = b.surfaces /\ c.windows = b.windows
  BY <1>2 DEF IsBuilding
<1> HIDE DEF b, c
<1>4. IsBuilding(c)
  BY <1>2, <1>3 DEF IsBuilding, Sides, WallsInQuadrant
<1> QED
  BY <1>1, <1>2, <1>4, Finalized

--------------------------------------------------------------------------------
(* The four sides glazed in turn, then every window made of the glass that was chosen.     *)
LEMMA SidesOfAzimuths ==
  \A azimuth : OrientationForAzimuth(azimuth) \in Orientations
  BY DEF OrientationForAzimuth, Orientations

LEMMA GlazedDone ==
  ASSUME NEW r, IsRequest(r), NEW d, SharesFit(d.wwr)
  PROVE  IsRequest(Glazed(r, d)) /\ Done(Glazed(r, d), d.wwr, Orientations)
<1> DEFINE Set(q, o) == SetQuadrantWwr(q, o, d.wwr[o])
           s == Set(r, "S")
           e == Set(s, "E")
           w == Set(e, "W")
           n == Set(w, "N")
<1>1. Glazed(r, d) = n
  BY DEF Glazed, OnEachSide
<1>2. \A q, o : IsRequest(q) => IsRequest(Set(q, o))
  BY QuadrantKeeps
<1>3. \A q, os : \A o \in Orientations :
        IsRequest(q) /\ Done(q, d.wwr, os) => Done(Set(q, o), d.wwr, os \cup {o})
  BY QuadrantDone
<1>4. Done(r, d.wwr, {})
  BY DEF Done
<1> HIDE DEF Set
<1>5. "S" \in Orientations /\ "E" \in Orientations /\ "W" \in Orientations /\ "N" \in Orientations
  BY DEF Orientations
<1>6. IsRequest(s) /\ Done(s, d.wwr, {} \cup {"S"})
  BY <1>2, <1>3, <1>4, <1>5
<1> HIDE DEF s
<1>7. IsRequest(e) /\ Done(e, d.wwr, ({} \cup {"S"}) \cup {"E"})
  BY <1>2, <1>3, <1>5, <1>6
<1> HIDE DEF e
<1>8. IsRequest(w) /\ Done(w, d.wwr, (({} \cup {"S"}) \cup {"E"}) \cup {"W"})
  BY <1>2, <1>3, <1>5, <1>7
<1> HIDE DEF w
<1>9. IsRequest(n) /\ Done(n, d.wwr, ((({} \cup {"S"}) \cup {"E"}) \cup {"W"}) \cup {"N"})
  BY <1>2, <1>3, <1>5, <1>8
<1> HIDE DEF n
<1>10. ((({} \cup {"S"}) \cup {"E"}) \cup {"W"}) \cup {"N"} = Orientations
  BY DEF Orientations
<1> QED
  BY <1>1, <1>9, <1>10

(* The window a wall has when its side's share is not nothing. *)
Share(s, wwr) == wwr[OrientationForAzimuth(s.azimuth)]
Glass(s, wwr, g, on) == Window(<<s.id, "Window">>, s.id, Share(s, wwr) * (s.area \div 1000), g, on)
GlazedAsAsked(b, wwr, g, on) ==
  /\ \A w \in b.windows : \E s \in b.surfaces :
       s.type = "wall" /\ Share(s, wwr) > 0 /\ w = Glass(s, wwr, g, on)
  /\ \A s \in b.surfaces : s.type = "wall" /\ Share(s, wwr) > 0 => Glass(s, wwr, g, on) \in b.windows

LEMMA GlassAsAsked ==
  ASSUME NEW r, IsRequest(r), NEW wwr, Done(r, wwr, Orientations), NEW g, NEW on
  PROVE  LET q == SetGlass(r, g, on) IN IsRequest(q) /\ GlazedAsAsked(q.building, wwr, g, on)
<1> DEFINE b == r.building
           ws == {[w EXCEPT !.glazingId = g] : w \in b.windows}
           p == SetGlazingType(r, g)
           vs == {[w EXCEPT !.shutter = on] : w \in p.building.windows}
           q == SetGlass(r, g, on)
<1>1. p = WithWindows(r, ws) /\ q = WithWindows(p, vs)
  BY DEF SetGlazingType, SetNightShutters, SetGlass
<1>2. \A w \in b.windows : WindowFits(w, b.surfaces)
  BY DEF IsRequest, IsBuilding
<1>3. ASSUME NEW w, IsWindow(w)
      PROVE  /\ [w EXCEPT !.glazingId = g] = Window(w.id, w.host, w.area, g, w.shutter)
             /\ [w EXCEPT !.shutter = on] = Window(w.id, w.host, w.area, w.glazingId, on)
  <2> DEFINE u == Window(w.id, w.host, w.area, w.glazingId, w.shutter)
  <2>1. w = u
    BY <1>3 DEF IsWindow
  <2>2. /\ [u EXCEPT !.glazingId = g] = Window(w.id, w.host, w.area, g, w.shutter)
        /\ [u EXCEPT !.shutter = on] = Window(w.id, w.host, w.area, w.glazingId, on)
    BY WindowFields
  <2> HIDE DEF u
  <2> QED
    BY <2>1, <2>2
<1> HIDE DEF p, q
<1>4. \A w \in b.windows : [w EXCEPT !.glazingId = g] = Window(w.id, w.host, w.area, g, w.shutter)
  BY <1>2, <1>3 DEF WindowFits
<1>5. /\ \A v \in ws : \E w \in b.windows : v = Window(w.id, w.host, w.area, g, w.shutter)
      /\ \A w \in b.windows : Window(w.id, w.host, w.area, g, w.shutter) \in ws
  BY <1>4
<1> HIDE DEF ws
<1>6. \A v \in ws : WindowFits(v, b.surfaces)
  <2> TAKE v \in ws
  <2>1. PICK w \in b.windows : v = Window(w.id, w.host, w.area, g, w.shutter)
    BY <1>5
  <2>2. IsWindow(v) /\ v.host = w.host
    BY <2>1, WindowIsWindow
  <2> QED
    BY <1>2, <2>2 DEF WindowFits
<1>7. IsRequest(p) /\ p.building.windows = ws /\ p.building.surfaces = b.surfaces
  BY <1>1, <1>6, WindowsPut
<1>8. \A v \in ws : [v EXCEPT !.shutter = on] = Window(v.id, v.host, v.area, v.glazingId, on)
  BY <1>3, <1>6 DEF WindowFits
<1>9. /\ \A u \in vs : \E v \in ws : u = Window(v.id, v.host, v.area, v.glazingId, on)
      /\ \A v \in ws : Window(v.id, v.host, v.area, v.glazingId, on) \in vs
  BY <1>7, <1>8
<1> HIDE DEF vs
<1>10. \A u \in vs : WindowFits(u, p.building.surfaces)
  <2> TAKE u \in vs
  <2>1. PICK v \in ws : u = Window(v.id, v.host, v.area, v.glazingId, on)
    BY <1>9
  <2>2. IsWindow(u) /\ u.host = v.host
    BY <2>1, WindowIsWindow
  <2> QED
    BY <1>6, <1>7, <2>2 DEF WindowFits
<1>11. IsRequest(q) /\ q.building.windows = vs /\ q.building.surfaces = b.surfaces
  BY <1>1, <1>7, <1>10, WindowsPut
<1>12. /\ \A u \in vs : \E w \in b.windows : u = Window(w.id, w.host, w.area, g, on)
       /\ \A w \in b.windows : Window(w.id, w.host, w.area, g, on) \in vs
  <2>1. ASSUME NEW w \in b.windows
        PROVE  LET v == Window(w.id, w.host, w.area, g, w.shutter)
               IN Window(v.id, v.host, v.area, v.glazingId, on) = Window(w.id, w.host, w.area, g, on)
    BY WindowFields
  <2>2. ASSUME NEW u \in vs
        PROVE  \E w \in b.windows : u = Window(w.id, w.host, w.area, g, on)
    <3>1. PICK v \in ws : u = Window(v.id, v.host, v.area, v.glazingId, on)
      BY <1>9
    <3>2. PICK w \in b.windows : v = Window(w.id, w.host, w.area, g, w.shutter)
      BY <1>5
    <3> QED
      BY <2>1, <3>1, <3>2
  <2>3. ASSUME NEW w \in b.windows
        PROVE  Window(w.id, w.host, w.area, g, on) \in vs
    <3> DEFINE v == Window(w.id, w.host, w.area, g, w.shutter)
    <3>1. v \in ws
      BY <1>5
    <3>2. Window(v.id, v.host, v.area, v.glazingId, on) = Window(w.id, w.host, w.area, g, on)
      BY <2>1
    <3> HIDE DEF v
    <3> QED
      BY <1>9, <3>1, <3>2
  <2> QED
    BY <2>2, <2>3
<1>13. ASSUME NEW u \in vs
       PROVE  \E s \in b.surfaces : s.type = "wall" /\ Share(s, wwr) > 0 /\ u = Glass(s, wwr, g, on)
  <2>1. PICK w \in b.windows : u = Window(w.id, w.host, w.area, g, on)
    BY <1>12
  <2>2. PICK s \in b.surfaces : s.type = "wall" /\ s.id = w.host
    BY <1>2 DEF WindowFits
  <2>3. Proper(w, s, Share(s, wwr)) /\ Share(s, wwr) > 0
    BY <2>2, SidesOfAzimuths DEF Done, Share
  <2>4. Glass(s, wwr, g, on) = Window(w.id, w.host, w.area, g, on)
    BY <2>3 DEF Proper, Glass
  <2> QED
    BY <2>1, <2>2, <2>3, <2>4
<1>14. ASSUME NEW s \in b.surfaces, s.type = "wall", Share(s, wwr) > 0
       PROVE  Glass(s, wwr, g, on) \in vs
  <2>1. PICK w \in b.windows : Proper(w, s, Share(s, wwr))
    BY <1>14, SidesOfAzimuths DEF Done, Share
  <2>2. Window(w.id, w.host, w.area, g, on) = Glass(s, wwr, g, on)
    BY <2>1 DEF Proper, Glass
  <2> QED
    BY <1>12, <2>2
<1>15. GlazedAsAsked(q.building, wwr, g, on)
  BY <1>11, <1>13, <1>14 DEF GlazedAsAsked
<1> QED
  BY <1>11, <1>15 DEF q

--------------------------------------------------------------------------------
(* The preset at the place and the day of the design, and what becomes of it. *)
LEMMA DayFits ==
  ASSUME NEW place, NEW day \in Int
  PROVE  SliceWeatherToDay(FullYear(place), day).samples >= 24
<1> DEFINE full == FullYear(place)
           at == (day - 1) * 24
           start == IF at < 0 THEN 0 ELSE IF at > 8736 THEN 8736 ELSE at
           past == start + 24 + 1
           end == IF past > 8760 THEN 8760 ELSE past
<1>1. full.startDay = 1 /\ full.samples = 8760
  BY DEF FullYear
<1>2. at \in Int
  BY SMT
<1> HIDE DEF at
<1>3. start \in Int /\ 0 <= start /\ start <= 8736
  BY <1>2
<1> HIDE DEF start
<1>4. end - start >= 24
  BY <1>3
<1>5. SliceWeatherToDay(full, day).samples = end - start
  <2>1. 1 * 24 = 24 /\ ~(8760 < 24) /\ 8760 - 24 = 8736
    BY SMT
  <2> HIDE DEF full
  <2> QED
    BY <1>1, <2>1 DEF SliceWeatherToDay, SliceWeather, at, start
<1> QED
  BY <1>4, <1>5

LEMMA PresetResolved ==
  ASSUME NEW p \in Presets
  PROVE  LET r == ResolvePreset(p) IN IsRequest(r) /\ IsBox(r.building)
<1> DEFINE r == ResolvePreset(p)
           b == PresetById[p]
<1>1. IsBuilding(b) /\ IsBox(b) /\ b.storageElements = {}
  BY PresetIsBox
<1> HIDE DEF b
<1>2. /\ DOMAIN r = {"building", "materials", "glazings", "weather", "site", "operation", "skyModel"}
      /\ r.building = b /\ r.materials = UsedMaterialIds(b) /\ r.glazings = UsedGlazingIds(b)
      /\ r.weather = FullYear(PresetLocation(p))
  BY DEF ResolvePreset, b
<1> HIDE DEF r
<1>3. r.weather.samples >= 24
  BY <1>2 DEF FullYear
<1>4. Supplied(r)
  BY <1>1, <1>2 DEF Supplied, UsedMaterials
<1>5. IsRequest(r) /\ IsBox(r.building)
  BY <1>1, <1>2, <1>3, <1>4 DEF IsRequest, HasRest
<1> QED
  BY <1>5 DEF r

LEMMA PlacedKeeps ==
  ASSUME NEW r, IsRequest(r), IsBox(r.building), NEW location, NEW day \in Int, NEW azimuth
  PROVE  LET q == [AtPlace(r, location, day) EXCEPT !.building.azimuth = azimuth]
         IN IsRequest(q) /\ IsBox(q.building)
<1> DEFINE placed == AtPlace(r, location, day)
           b == r.building
           c == [b EXCEPT !.azimuth = azimuth]
           q == [placed EXCEPT !.building.azimuth = azimuth]
           slice == SliceWeatherToDay(FullYear(location.place), day)
<1>1. slice.samples >= 24
  BY DayFits
<1> HIDE DEF slice
<1>2. /\ DOMAIN placed = DOMAIN r /\ placed.building = b /\ placed.materials = r.materials
      /\ placed.glazings = r.glazings /\ placed.weather = slice
  BY DEF AtPlace, slice, IsRequest, HasRest
<1> HIDE DEF placed
<1>3. q = [placed EXCEPT !.building = c]
  BY <1>2
<1>4. /\ DOMAIN c = DOMAIN b /\ c.floorArea = b.floorArea /\ c.volume = b.volume
      /\ c.surfaces = b.surfaces /\ c.windows = b.windows /\ c.storageElements = b.storageElements
  BY DEF IsRequest, IsBuilding
<1> HIDE DEF b, c, q
<1>5. /\ DOMAIN q = DOMAIN r /\ q.building = c /\ q.materials = r.materials
      /\ q.glazings = r.glazings /\ q.weather = slice
  BY <1>2, <1>3 DEF IsRequest, HasRest
<1>6. IsBuilding(b) /\ IsBox(b) /\ HasRest(r) /\ Supplied(r)
  BY DEF IsRequest, b
<1>7. IsBuilding(c)
  BY <1>4, <1>6 DEF IsBuilding, Sides, WallsInQuadrant
<1>8. IsBox(c)
  BY <1>4, <1>6 DEF IsBox
<1>9. Supplied(q)
  BY <1>4, <1>5, <1>6 DEF Supplied, UsedMaterials, UsedMaterialIds, UsedGlazingIds, b
<1>10. IsRequest(q) /\ IsBox(q.building)
  BY <1>1, <1>5, <1>6, <1>7, <1>8, <1>9 DEF IsRequest, HasRest
<1> QED
  BY <1>10 DEF q, placed

(* What is assembled of a design that the panel lets through and the server accepts. *)
LEMMA AssembledFits ==
  ASSUME NEW d, DesignFits(d)
  PROVE  LET r == Assemble(d) IN IsRequest(r) /\ GlazedAsAsked(r.building, d.wwr, d.glazingId, d.shutters)
<1> DEFINE preset == ResolvePreset(d.presetId)
           turned == [AtPlace(preset, d.location, d.day) EXCEPT !.building.azimuth = d.azimuth]
           shaped == Shaped(turned, d)
           storeyed == Storeyed(shaped, Storeys(d))
           built == Clad(storeyed, d)
           sides == Glazed(built, d)
           glazed == SetGlass(sides, d.glazingId, d.shutters)
           operated == SetOccupancyPreset(glazed, d.occupancy)
           r == Assemble(d)
<1>1. /\ d.presetId \in Presets /\ d.day \in Int /\ d.storeys \in {1, 2} /\ SharesFit(d.wwr)
      /\ d.length \in Int /\ d.width \in Int /\ d.height \in Int
      /\ d.length >= 20 /\ d.width >= 20 /\ d.height >= 20
  BY DEF DesignFits, SizesFit, Within
<1>2. Storeys(d) \in {1, 2}
  BY <1>1 DEF Storeys
<1>3. r = [operated EXCEPT !.skyModel = "isotropic"]
  BY DEF Assemble
<1>4. IsRequest(preset) /\ IsBox(preset.building)
  BY <1>1, PresetResolved
<1> HIDE DEF preset
<1>5. IsRequest(turned) /\ IsBox(turned.building)
  BY <1>1, <1>4, PlacedKeeps
<1> HIDE DEF turned
<1>6. IsRequest(shaped)
  BY <1>1, <1>2, <1>5, BoxKeeps, FacetsKeep DEF Shaped
<1> HIDE DEF shaped
<1>7. IsRequest(storeyed)
  BY <1>6, SlabKeeps DEF Storeyed
<1> HIDE DEF storeyed
<1>8. IsRequest(built)
  BY <1>7, CladKeeps
<1> HIDE DEF built
<1>9. IsRequest(sides) /\ Done(sides, d.wwr, Orientations)
  BY <1>1, <1>8, GlazedDone
<1> HIDE DEF sides
<1>10. IsRequest(glazed) /\ GlazedAsAsked(glazed.building, d.wwr, d.glazingId, d.shutters)
  BY <1>9, GlassAsAsked
<1> HIDE DEF glazed
<1>11. /\ DOMAIN operated = DOMAIN glazed /\ operated.building = glazed.building
       /\ operated.materials = glazed.materials /\ operated.glazings = glazed.glazings
       /\ operated.weather = glazed.weather
  BY <1>10 DEF SetOccupancyPreset, IsRequest, HasRest
<1> HIDE DEF operated, r
<1>12. /\ DOMAIN r = DOMAIN glazed /\ r.building = glazed.building
       /\ r.materials = glazed.materials /\ r.glazings = glazed.glazings /\ r.weather = glazed.weather
  BY <1>3, <1>10, <1>11 DEF IsRequest, HasRest
<1>13. IsRequest(r)
  BY <1>10, <1>12 DEF IsRequest, HasRest, Supplied
<1> QED
  BY <1>10, <1>12, <1>13 DEF r

LEMMA FitsIsBuildable ==
  ASSUME NEW r, IsRequest(r), NEW wwr, SharesFit(wwr), NEW g, NEW on,
         GlazedAsAsked(r.building, wwr, g, on)
  PROVE  Buildable(r)
<1> DEFINE b == r.building
<1>1. IsBuilding(b) /\ HasRest(r) /\ Supplied(r)
  BY DEF IsRequest
<1>2. b.volume > 0 /\ b.floorArea > 0
  BY <1>1 DEF IsBuilding
<1>3. b.surfaces # {}
  <2>1. WallsInQuadrant(b, "S") # {}
    BY <1>1 DEF IsBuilding, Sides, Orientations
  <2> QED
    BY <2>1 DEF WallsInQuadrant
<1>4. ASSUME NEW s \in b.surfaces
      PROVE  /\ s.area > 0 /\ s.construction # <<>> /\ s.tilt \in 0..180
             /\ \A l \in ToSet(s.construction) : l.materialId \in r.materials
  <2>1. SurfaceFits(s)
    BY <1>1 DEF IsBuilding
  <2>2. s.area > 0 /\ s.construction # <<>> /\ s.tilt \in 0..180
    <3>1. \A x \in Int : 0 <= x /\ x <= 180 => x \in 0..180
      BY SMT
    <3>2. s.area > 0 /\ s.construction # <<>>
      BY <2>1 DEF SurfaceFits
    <3>3. s.tilt \in Int /\ 0 <= s.tilt /\ s.tilt <= 180
      BY <2>1 DEF SurfaceFits
    <3> QED
      BY <3>1, <3>2, <3>3
  <2>3. \A l \in ToSet(s.construction) : l.materialId \in UsedMaterialIds(b)
    BY DEF UsedMaterialIds
  <2> QED
    BY <1>1, <2>2, <2>3 DEF Supplied, UsedMaterials
<1>5. ASSUME NEW w \in b.windows
      PROVE  /\ w.glazingId \in r.glazings
             /\ \E s \in b.surfaces : {t \in b.surfaces : t.id = w.host} = {s} /\ w.area < s.area
  <2>1. PICK s \in b.surfaces : s.type = "wall" /\ Share(s, wwr) > 0 /\ w = Glass(s, wwr, g, on)
    BY DEF GlazedAsAsked
  <2>2. w.host = s.id /\ w.area = Share(s, wwr) * (s.area \div 1000)
    BY <2>1, WindowFields DEF Glass
  <2>3. {t \in b.surfaces : t.id = w.host} = {s}
    BY <1>1, <2>2 DEF IsBuilding
  <2>4. Share(s, wwr) \in Int /\ 0 <= Share(s, wwr) /\ Share(s, wwr) <= 900
    BY SidesOfAzimuths DEF Share, SharesFit, Within, Orientations
  <2>5. s.area \in Int /\ s.area >= 1000
    BY <1>1 DEF IsBuilding, SurfaceFits
  <2>6. w.area < s.area
    BY <2>2, <2>4, <2>5, WindowArea
  <2>7. w.glazingId \in r.glazings
    BY <1>1 DEF Supplied, UsedGlazingIds
  <2> QED
    BY <2>3, <2>6, <2>7
<1>6. \A e \in b.storageElements : e.materialId \in r.materials
  BY <1>1 DEF Supplied, UsedMaterials
<1>7. r.weather.samples >= 24
  BY <1>1 DEF HasRest
<1> QED
  BY <1>2, <1>3, <1>4, <1>5, <1>6, <1>7 DEF Buildable

LEMMA FitsFollowsDesign ==
  ASSUME DesignFits(design), Accepted(design)
  PROVE  WindowsFollowDesign
<1> DEFINE b == Assemble(design).building
           wwr == design.wwr
           Asked(s, o) == Window(<<s.id, "Window">>, s.id, wwr[o] * (s.area \div 1000),
                                 design.glazingId, design.shutters)
           all == UNION {{Asked(s, o) : s \in WallsInQuadrant(b, o)} : o \in {q \in Orientations : wwr[q] > 0}}
<1>1. IsBuilding(b) /\ GlazedAsAsked(b, wwr, design.glazingId, design.shutters)
  BY AssembledFits DEF IsRequest
<1> HIDE DEF b
<1>2. \A s \in b.surfaces : \A o \in Orientations :
        s \in WallsInQuadrant(b, o) <=> s.type = "wall" /\ OrientationForAzimuth(s.azimuth) = o
  BY DEF WallsInQuadrant
<1>3. \A s, o : s \in WallsInQuadrant(b, o) =>
        s \in b.surfaces /\ Asked(s, o) = Glass(s, wwr, design.glazingId, design.shutters)
          /\ s.type = "wall" /\ Share(s, wwr) = wwr[o]
  BY DEF WallsInQuadrant, Glass, Share
<1> HIDE DEF Asked, wwr
<1>4. \A w \in b.windows : w \in all
  <2> TAKE w \in b.windows
  <2>1. PICK s \in b.surfaces : s.type = "wall" /\ Share(s, wwr) > 0
                                  /\ w = Glass(s, wwr, design.glazingId, design.shutters)
    BY <1>1 DEF GlazedAsAsked
  <2> DEFINE o == OrientationForAzimuth(s.azimuth)
  <2>2. o \in Orientations
    BY SidesOfAzimuths
  <2>3. s \in WallsInQuadrant(b, o)
    BY <1>2, <2>1, <2>2
  <2>4. w = Asked(s, o) /\ wwr[o] > 0
    BY <1>3, <2>1, <2>3
  <2> HIDE DEF o
  <2> QED
    BY <2>2, <2>3, <2>4
<1>5. \A w \in all : w \in b.windows
  <2> TAKE w \in all
  <2>1. PICK o \in Orientations : wwr[o] > 0 /\ w \in {Asked(s, o) : s \in WallsInQuadrant(b, o)}
    OBVIOUS
  <2>2. PICK s \in WallsInQuadrant(b, o) : w = Asked(s, o)
    BY <2>1
  <2> QED
    BY <1>1, <1>3, <2>1, <2>2 DEF GlazedAsAsked
<1>6. b.windows = all
  BY <1>4, <1>5
<1>7. \A o \in Orientations : WallsInQuadrant(b, o) # {}
  BY <1>1 DEF IsBuilding, Sides
<1> QED
  BY <1>6, <1>7 DEF WindowsFollowDesign, b, wwr, Asked

(* Every design the server accepts, whatever the panel was taken through, becomes a        *)
(* request the engine can build: no surface without an area or a layer, no window as       *)
(* large as its wall or on none, no material or glazing missing.                          *)
THEOREM EveryAssemblyIsBuildable == PanelSpec => []AssembledIsBuildable
<1>1. PanelInv => AssembledIsBuildable
  <2>1. ASSUME DesignFits(design) PROVE Buildable(Assemble(design))
    <3> DEFINE r == Assemble(design)
    <3>1. IsRequest(r) /\ GlazedAsAsked(r.building, design.wwr, design.glazingId, design.shutters)
      BY <2>1, AssembledFits
    <3> HIDE DEF r
    <3>2. SharesFit(design.wwr)
      BY <2>1 DEF DesignFits
    <3>3. Buildable(r)
      BY <3>1, <3>2, FitsIsBuildable
    <3> QED
      BY <3>3 DEF r
  <2> QED
    BY <2>1 DEF PanelInv, AssembledIsBuildable
<1> QED
  BY <1>1, PanelStarts, PanelKept, PTL DEF PanelSpec

(* And its windows are exactly those asked for, whichever shape was chosen after whichever *)
(* preset: on every wall that faces a side with a share, and on no other.                  *)
THEOREM SimulatedWindowsAreAsked == PanelSpec => []WindowsFollowDesign
<1>1. PanelInv => WindowsFollowDesign
  <2>1. CASE Accepted(design)
    BY <2>1, FitsFollowsDesign DEF PanelInv
  <2>2. CASE ~Accepted(design)
    BY <2>2 DEF WindowsFollowDesign
  <2> QED
    BY <2>1, <2>2
<1> QED
  BY <1>1, PanelStarts, PanelKept, PTL DEF PanelSpec

--------------------------------------------------------------------------------
(* The two servers' assemblies of one design. *)
(* A request of which both read the sides of its walls alike: each faces one exactly.       *)
Quartered(b) == \A s \in b.surfaces : s.type = "wall" => s.azimuth \in {0, -90, 90, 180}
Plain(r) ==
  /\ IsRequest(r) /\ Quartered(r.building)
  /\ r.building.storageElements = {} /\ UsedMaterialIds(r.building) \subseteq Materials

LEMMA SameWalls ==
  ASSUME NEW b, Quartered(b), NEW o \in Orientations
  PROVE  WallsInQuadrant(b, o) = WallForOrientation(b, o)
<1>1. Azimuth["S"] = 0 /\ Azimuth["E"] = -90 /\ Azimuth["W"] = 90 /\ Azimuth["N"] = 180
  BY DEF Azimuth
<1>2. ASSUME NEW a \in {0, -90, 90, 180}
      PROVE  OrientationForAzimuth(a) = o <=> a = Azimuth[o]
  <2>1. o = "S" \/ o = "E" \/ o = "W" \/ o = "N"
    BY DEF Orientations
  <2>2. a = 0 \/ a = -90 \/ a = 90 \/ a = 180
    BY <1>2
  <2> QED
    BY <1>1, <2>1, <2>2, QuarterSides
<1> QED
  BY <1>2 DEF WallsInQuadrant, WallForOrientation, Quartered

LEMMA SameShares ==
  ASSUME NEW r, Plain(r), NEW o \in Orientations, NEW ratio
  PROVE  SetQuadrantWwr(r, o, ratio) = SetWwr(r, o, ratio) /\ Plain(SetQuadrantWwr(r, o, ratio))
<1> DEFINE q == SetQuadrantWwr(r, o, ratio)
<1>1. SetQuadrantWwr(r, o, ratio) = SetWwr(r, o, ratio)
  BY SameWalls DEF SetQuadrantWwr, SetWwr, Plain
<1>2. /\ IsRequest(q) /\ q.building.surfaces = r.building.surfaces
      /\ q.building.storageElements = r.building.storageElements
  BY QuadrantKeeps DEF Plain
<1> HIDE DEF q
<1>3. Plain(q)
  BY <1>2 DEF Plain, Quartered, UsedMaterialIds
<1> QED
  BY <1>1, <1>3 DEF q

LEMMA SamePlace ==
  ASSUME NEW p \in Presets, NEW location, NEW day \in Int, NEW azimuth, azimuth = 0
  PROVE  LET q == [AtPlace(ResolvePreset(p), location, day) EXCEPT !.building.azimuth = azimuth]
         IN Plain(q) /\ q = WithWeather(ClassicPreset(p), location.place, day)
<1> DEFINE r == ResolvePreset(p)
           b == PresetById[p]
           placed == AtPlace(r, location, day)
           q == [placed EXCEPT !.building.azimuth = azimuth]
           operation == [gains |-> p, heated |-> FALSE, unvented |-> FALSE, ach |-> PresetAch[p]]
           slice == SliceWeatherToDay(FullYear(location.place), day)
<1>1. /\ b.storageElements = {} /\ UsedMaterialIds(b) \subseteq Materials /\ [b EXCEPT !.azimuth = 0] = b
  BY PresetIsBox
<1>2. IsRequest(q) /\ IsBox(q.building)
  BY PresetResolved, PlacedKeeps
<1>3. r = ClassicPreset(p)
  BY DEF ResolvePreset, ClassicPreset
<1>4. placed = WithWeather(r, location.place, day)
  BY DEF AtPlace, WithWeather
<1> HIDE DEF b, slice, operation
<1>5. r = [building |-> b, materials |-> UsedMaterialIds(b), glazings |-> UsedGlazingIds(b),
           weather |-> FullYear(PresetLocation(p)), site |-> PresetLocation(p), operation |-> operation,
           skyModel |-> PresetSkyModel]
  BY DEF ResolvePreset, b, operation
<1> HIDE DEF r
<1>6. placed = [r EXCEPT !.weather = slice, !.site = location.place]
  BY DEF AtPlace, slice
<1> HIDE DEF placed
<1>7. placed.building = b
  BY <1>5, <1>6
<1>8. q = placed
  <2> DEFINE c == [b EXCEPT !.azimuth = azimuth]
  <2>1. q = [placed EXCEPT !.building = c]
    BY <1>7
  <2>2. c = b
    <3>1. [b EXCEPT !.azimuth = 0] = b
      BY <1>1
    <3>2. c = [b EXCEPT !.azimuth = 0]
      BY azimuth = 0
    <3> QED
      BY <3>1, <3>2
  <2> HIDE DEF c, q
  <2>3. q = [placed EXCEPT !.building = b]
    BY <2>1, <2>2
  <2>4. placed = [building |-> b, materials |-> UsedMaterialIds(b), glazings |-> UsedGlazingIds(b),
                  weather |-> slice, site |-> location.place, operation |-> operation,
                  skyModel |-> PresetSkyModel]
    BY <1>5, <1>6
  <2>5. \A f : f = [placed EXCEPT !.building = b] => f = placed
    BY <2>4
  <2> QED
    BY <2>3, <2>5
<1> HIDE DEF q
<1>9. Plain(q)
  BY <1>1, <1>2, <1>7, <1>8 DEF Plain, Quartered, IsBox
<1> QED
  BY <1>3, <1>4, <1>8, <1>9 DEF q, r, placed

LEMMA SameSize ==
  ASSUME NEW r, Plain(r), NEW l \in Int, NEW w \in Int, NEW h \in Int, l >= 20, w >= 20, h >= 20
  PROVE  LET q == SetSizeStoreys(r, l, w, h, 1) IN Plain(q) /\ q = SetSize(r, l, w, h)
<1> DEFINE b == r.building
           Quadrant(o) == Ratio(b, WallsInQuadrant(b, o))
           Facing(o) == CurrentWwr(b, o)
           A(q, o) == IF Quadrant(o) > 0 THEN SetQuadrantWwr(q, o, Quadrant(o)) ELSE q
           B(q, o) == IF Facing(o) > 0 THEN SetWwr(q, o, Facing(o)) ELSE q
           c == ResizedBuilding(b, l, w, h)
           q0 == [r EXCEPT !.building = ResizedBuilding(@, l, w, h)]
           s == A(q0, "S")
           e == A(s, "E")
           x == A(e, "W")
           n == A(x, "N")
<1>1. h * 1 = h
  BY SMT
<1>2. SetSizeStoreys(r, l, w, h, 1) = n
  BY <1>1 DEF SetSizeStoreys, OnEachSide
<1>3. SetSize(r, l, w, h) = B(B(B(B(q0, "S"), "E"), "W"), "N")
  BY DEF SetSize, OnEachSide
<1>4. \A o \in Orientations : Quadrant(o) = Facing(o)
  BY SameWalls DEF CurrentWwr, Plain
<1>5. Plain(q0)
  <2>1. IsRequest(q0) /\ q0.building = c
    BY SizeKeeps DEF Plain
  <2>2. /\ c.storageElements = b.storageElements /\ UsedMaterialIds(c) \subseteq UsedMaterialIds(b)
        /\ \A t \in c.surfaces : \E u \in b.surfaces : Redresses(t, u)
    BY ResizedFits DEF Plain, IsRequest
  <2> HIDE DEF c, q0
  <2>3. Quartered(c)
    BY <2>2 DEF Plain, Quartered, Redresses
  <2> QED
    BY <2>1, <2>2, <2>3 DEF Plain
<1> HIDE DEF q0, Quadrant, Facing
<1>6. \A q : \A o \in Orientations : Plain(q) => Plain(A(q, o)) /\ A(q, o) = B(q, o)
  BY <1>4, SameShares
<1> HIDE DEF A, B
<1>7. "S" \in Orientations /\ "E" \in Orientations /\ "W" \in Orientations /\ "N" \in Orientations
  BY DEF Orientations
<1>8. Plain(s) /\ s = B(q0, "S")
  BY <1>5, <1>6, <1>7
<1> HIDE DEF s
<1>9. Plain(e) /\ e = B(s, "E")
  BY <1>6, <1>7, <1>8
<1> HIDE DEF e
<1>10. Plain(x) /\ x = B(e, "W")
  BY <1>6, <1>7, <1>9
<1> HIDE DEF x
<1>11. Plain(n) /\ n = B(x, "N")
  BY <1>6, <1>7, <1>10
<1> QED
  BY <1>2, <1>3, <1>8, <1>9, <1>10, <1>11

LEMMA SameWindows ==
  ASSUME NEW r, Plain(r), NEW d, NEW input, input.wwr = d.wwr
  PROVE  Glazed(r, d) = WithWindowShares(r, input)
<1> DEFINE A(q, o) == SetQuadrantWwr(q, o, d.wwr[o])
           B(q, o) == SetWwr(q, o, input.wwr[o])
           s == A(r, "S")
           e == A(s, "E")
           w == A(e, "W")
           n == A(w, "N")
<1>1. Glazed(r, d) = n
  BY DEF Glazed, OnEachSide
<1>2. WithWindowShares(r, input) = B(B(B(B(r, "S"), "E"), "W"), "N")
  BY DEF WithWindowShares, OnEachSide
<1>3. \A q : \A o \in Orientations : Plain(q) => Plain(A(q, o)) /\ A(q, o) = B(q, o)
  BY SameShares
<1> HIDE DEF A, B
<1>4. "S" \in Orientations /\ "E" \in Orientations /\ "W" \in Orientations /\ "N" \in Orientations
  BY DEF Orientations
<1>5. Plain(s) /\ s = B(r, "S")
  BY <1>3, <1>4
<1> HIDE DEF s
<1>6. Plain(e) /\ e = B(s, "E")
  BY <1>3, <1>4, <1>5
<1> HIDE DEF e
<1>7. Plain(w) /\ w = B(e, "W")
  BY <1>3, <1>4, <1>6
<1> HIDE DEF w
<1>8. Plain(n) /\ n = B(w, "N")
  BY <1>3, <1>4, <1>7
<1> QED
  BY <1>1, <1>2, <1>5, <1>6, <1>7, <1>8

(* The material of a layer, or none for the preset's own. *)
MaterialOf(layer) == IF layer = KeepPreset THEN NoMaterial ELSE layer.materialId
OwnLayer(layer) ==
  layer = KeepPreset \/ \E m \in Materials : layer = Layer(m, DefaultThickness(m, Category[m]))

LEMMA SameLayer ==
  ASSUME NEW r, Plain(r), NEW type, NEW layer, OwnLayer(layer)
  PROVE  LET q == SetConstruction(r, type, layer)
         IN Plain(q) /\ q = WithMaterial(r, type, MaterialOf(layer))
<1>1. CASE layer = KeepPreset
  BY <1>1 DEF SetConstruction, WithMaterial, MaterialOf
<1>2. CASE layer # KeepPreset
  <2> DEFINE b == r.building
             F(s) == IF s.type = type THEN [s EXCEPT !.construction = << layer >>] ELSE s
             c == WithConstructionForType(b, type, << layer >>)
             q == SetConstruction(r, type, layer)
  <2>1. PICK m \in Materials : layer = Layer(m, DefaultThickness(m, Category[m]))
    BY <1>2 DEF OwnLayer
  <2>2. layer.materialId = m
    BY <2>1 DEF Layer
  <2>3. m # NoMaterial
    BY DEF NoMaterial, Materials, Structural, Insulation, Finish, Storage
  <2>4. SingleLayer(m, Materials) = << layer >>
    BY <2>1 DEF SingleLayer
  <2>5. WithMaterial(r, type, MaterialOf(layer)) = FinalizeWithCatalogue(r, c, Materials)
    BY <1>2, <2>2, <2>3, <2>4 DEF WithMaterial, MaterialOf, SetMaterial
  <2>6. q = Finalize(r, c)
    BY <1>2 DEF SetConstruction
  <2>7. IsRequest(q)
    BY ConstructionKeeps DEF Plain
  <2>8. c = [b EXCEPT !.surfaces = {F(s) : s \in @}]
    BY DEF WithConstructionForType
  <2>9. DOMAIN b = {"floorArea", "volume", "azimuth", "surfaces", "windows", "storageElements"}
    BY DEF Plain, IsRequest, IsBuilding
  <2>10. ASSUME NEW s \in b.surfaces
         PROVE  /\ F(s).type = s.type /\ F(s).azimuth = s.azimuth
                /\ F(s).construction = << layer >> \/ F(s).construction = s.construction
    <3>1. SurfaceFits(s)
      BY DEF Plain, IsRequest, IsBuilding
    <3> QED
      BY <3>1 DEF SurfaceFits
  <2> HIDE DEF F, c, q
  <2>11. c.storageElements = {} /\ c.surfaces = {F(s) : s \in b.surfaces}
    BY <2>8, <2>9 DEF Plain
  <2>12. \A t \in c.surfaces : \E s \in b.surfaces : t = F(s)
    BY <2>11
  <2> HIDE DEF b
  <2>13. Quartered(c)
    BY <2>10, <2>12 DEF Plain, Quartered, b
  <2>14. UsedMaterialIds(c) \subseteq Materials
    <3> SUFFICES ASSUME NEW id \in UsedMaterialIds(c)
                 PROVE  id \in Materials
      OBVIOUS
    <3>1. PICK t \in c.surfaces : id \in {k.materialId : k \in ToSet(t.construction)}
      BY DEF UsedMaterialIds
    <3>2. PICK s \in b.surfaces : t = F(s)
      BY <2>12
    <3>3. CASE t.construction = << layer >>
      <4>1. ToSet(<< layer >>) = {layer}
        BY DEF ToSet
      <4> QED
        BY <2>2, <3>1, <3>3, <4>1
    <3>4. CASE t.construction = s.construction
      <4>1. id \in UsedMaterialIds(b)
        BY <3>1, <3>4 DEF UsedMaterialIds
      <4> QED
        BY <4>1 DEF Plain, b
    <3> QED
      BY <2>10, <3>2, <3>3, <3>4
  <2>15. UsedMaterials(c) = UsedMaterialIds(c) \cap Materials
    BY <2>11, <2>14 DEF UsedMaterials
  <2>16. q = FinalizeWithCatalogue(r, c, Materials)
    BY <2>6, <2>15 DEF Finalize, FinalizeWithCatalogue
  <2>17. q.building = c
    BY <2>6 DEF Finalize, Plain, IsRequest, HasRest
  <2>18. Plain(q)
    BY <2>7, <2>11, <2>13, <2>14, <2>17 DEF Plain
  <2> QED
    BY <2>5, <2>16, <2>18 DEF q
<1> QED
  BY <1>1, <1>2

LEMMA ClassicLayers ==
  ASSUME NEW d, DesignFits(d), Classical(d)
  PROVE  OwnLayer(d.wall) /\ OwnLayer(d.roof) /\ OwnLayer(d.floor)
<1>1. ASSUME NEW type \in SurfaceTypes, LayerFits(d[type])
      PROVE  OwnLayer(d[type])
  <2>1. CASE d[type] = KeepPreset
    BY <2>1 DEF OwnLayer
  <2>2. CASE d[type] # KeepPreset
    <3>1. PICK m \in Materials : d[type] = Layer(m, d[type].thickness)
      BY <1>1, <2>2 DEF LayerFits
    <3>2. d[type].materialId = m
      BY <3>1 DEF Layer
    <3>3. d[type].thickness = DefaultThickness(m, Category[m])
      BY <2>2, <3>2 DEF Classical
    <3> QED
      BY <3>1, <3>3 DEF OwnLayer
  <2> QED
    BY <2>1, <2>2
<1>2. LayerFits(d["wall"]) /\ LayerFits(d["roof"]) /\ LayerFits(d["floor"])
  BY DEF DesignFits
<1>3. "wall" \in SurfaceTypes /\ "roof" \in SurfaceTypes /\ "floor" \in SurfaceTypes
  BY DEF SurfaceTypes
<1> QED
  BY <1>1, <1>2, <1>3

LEMMA ClassicMeetsStudio ==
  ASSUME NEW d, DesignFits(d), Classical(d)
  PROVE  Assemble(d) = ClassicAssemble(DesignInput(d))
<1> DEFINE input == DesignInput(d)
           turned == [AtPlace(ResolvePreset(d.presetId), d.location, d.day) EXCEPT !.building.azimuth = d.azimuth]
           sized == SetSizeStoreys(turned, d.length, d.width, d.height, 1)
           walled == SetConstruction(sized, "wall", d.wall)
           roofed == SetConstruction(walled, "roof", d.roof)
           clad == SetConstruction(roofed, "floor", d.floor)
<1>1. /\ input.place = d.location.place /\ input.day = d.day /\ input.presetId = d.presetId
      /\ input.length = d.length /\ input.width = d.width /\ input.height = d.height
      /\ input.wall = MaterialOf(d.wall) /\ input.roof = MaterialOf(d.roof)
      /\ input.floor = MaterialOf(d.floor) /\ input.wwr = d.wwr /\ input.glazingId = d.glazingId
      /\ input.shutters = d.shutters /\ input.occupancy = d.occupancy
  BY DEF DesignInput, MaterialOf
<1> HIDE DEF input
<1>2. /\ d.presetId \in Presets /\ d.day \in Int
      /\ d.length \in Int /\ d.width \in Int /\ d.height \in Int
      /\ d.length >= 20 /\ d.width >= 20 /\ d.height >= 20
  BY DEF DesignFits, SizesFit, Within
<1>3. d.shape = "box" /\ d.storeys = 1 /\ d.azimuth = 0
  BY DEF Classical
<1>4. Shape(d) = "box" /\ Storeys(d) = 1
  BY <1>3 DEF Shape, Storeys, Nothing
<1>5. Plain(turned) /\ turned = WithWeather(ClassicPreset(input.presetId), input.place, input.day)
  BY <1>1, <1>2, <1>3, SamePlace
<1>6. Shaped(turned, d) = sized /\ \A q : Storeyed(q, Storeys(d)) = q
  BY <1>4 DEF Shaped, Storeyed
<1>7. Clad(sized, d) = clad
  BY DEF Clad
<1>8. Assemble(d) = [SetOccupancyPreset(SetGlass(Glazed(Clad(Storeyed(Shaped(turned, d), Storeys(d)), d), d),
                                                 d.glazingId, d.shutters), d.occupancy)
                       EXCEPT !.skyModel = "isotropic"]
  BY DEF Assemble
<1> HIDE DEF turned
<1>9. Plain(sized) /\ sized = WithSize(turned, input)
  BY <1>1, <1>2, <1>5, SameSize DEF WithSize
<1> HIDE DEF sized
<1>10. OwnLayer(d.wall) /\ OwnLayer(d.roof) /\ OwnLayer(d.floor)
  BY ClassicLayers
<1>11. Plain(walled) /\ walled = WithMaterial(sized, "wall", input.wall)
  BY <1>1, <1>9, <1>10, SameLayer
<1> HIDE DEF walled
<1>12. Plain(roofed) /\ roofed = WithMaterial(walled, "roof", input.roof)
  BY <1>1, <1>10, <1>11, SameLayer
<1> HIDE DEF roofed
<1>13. Plain(clad) /\ clad = WithMaterial(roofed, "floor", input.floor)
  BY <1>1, <1>10, <1>12, SameLayer
<1> HIDE DEF clad
<1>14. Glazed(clad, d) = WithWindowShares(clad, input)
  BY <1>1, <1>13, SameWindows
<1>15. \A q : SetGlass(q, d.glazingId, d.shutters) = WithGlass(q, input)
  BY <1>1 DEF SetGlass, WithGlass
<1>16. \A q : SetOccupancyPreset(q, d.occupancy) = WithOccupancy(q, input)
  BY <1>1 DEF WithOccupancy
<1>17. ClassicAssemble(input) = [WithOccupancy(WithGlass(WithWindowShares(clad, input), input), input)
                                   EXCEPT !.skyModel = "isotropic"]
  BY <1>5, <1>9, <1>11, <1>12, <1>13 DEF ClassicAssemble
<1>18. Assemble(d) = [WithOccupancy(WithGlass(WithWindowShares(clad, input), input), input)
                        EXCEPT !.skyModel = "isotropic"]
  BY <1>6, <1>7, <1>8, <1>14, <1>15, <1>16
<1> QED
  BY <1>17, <1>18 DEF input

(* The studio's server took over the first server's assembly and widened it: a design that  *)
(* uses none of what is new still becomes the very request the first one made of it.        *)
THEOREM StudioAgreesWithClassic == PanelSpec => []ClassicAgrees
<1>1. PanelInv => ClassicAgrees
  BY ClassicMeetsStudio DEF PanelInv, ClassicAgrees
<1> QED
  BY <1>1, PanelStarts, PanelKept, PTL DEF PanelSpec

--------------------------------------------------------------------------------
(* The viewer's scene of a design: DesignPanel.  The surfaces that are drawn and the       *)
(* facets of the scene are counted by a bijection between them.                           *)
LEMMA FiniteImage ==
  ASSUME NEW S, IsFiniteSet(S), NEW f, NEW T, \A y \in T : \E x \in S : y = f[x]
  PROVE  IsFiniteSet(T)
<1> DEFINE U == {f[x] : x \in S}
           g == [x \in S |-> f[x]]
<1>1. g \in Surjection(S, U)
  BY DEF Surjection
<1>2. IsFiniteSet(U)
  BY <1>1, FS_Surjection
<1>3. T \in SUBSET U
  OBVIOUS
<1> HIDE DEF U
<1> QED
  BY <1>2, <1>3, FS_Subset

LEMMA Matching ==
  ASSUME NEW D, NEW F, IsFiniteSet(F), NEW g \in [D -> F],
         \A s, t \in D : g[s] = g[t] => s = t,
         \A f \in F : \E s \in D : g[s] = f,
         NEW A, A \subseteq D, NEW B, B \subseteq F, \A s \in D : s \in A <=> g[s] \in B
  PROVE  Cardinality(A) = Cardinality(B)
<1> DEFINE h == [s \in A |-> g[s]]
<1>1. h \in Injection(A, B)
  BY DEF Injection, IsInjective
<1>2. h \in Surjection(A, B)
  <2> SUFFICES ASSUME NEW f \in B PROVE \E s \in A : h[s] = f
    BY <1>1 DEF Surjection, Injection
  <2>1. PICK s \in D : g[s] = f
    OBVIOUS
  <2>2. s \in A /\ h[s] = f
    BY <2>1
  <2> QED
    BY <2>2
<1>3. IsFiniteSet(B)
  BY FS_Subset
<1> HIDE DEF h
<1> QED
  BY <1>1, <1>2, <1>3, FS_Injection

(* A stack of one layer is as thick as the layer.                                         *)
LEMMA OneLayer ==
  ASSUME NEW l, l.thickness \in Int
  PROVE  StackThickness(<< l >>) = l.thickness
<1> DEFINE Body(g) == [s \in SUBSET {1} |->
                         IF s = {} THEN 0
                         ELSE LET x == CHOOSE x \in s : TRUE IN << l >>[x].thickness + g[s \ {x}]]
           it == CHOOSE g : g = Body(g)
           g == [s \in SUBSET {1} |-> IF s = {} THEN 0 ELSE l.thickness]
<1>1. DOMAIN << l >> = {1} /\ << l >>[1] = l
  OBVIOUS
<1>2. g = Body(g)
  <2>1. ASSUME NEW s \in SUBSET {1} PROVE g[s] = Body(g)[s]
    <3>1. CASE s = {}
      BY <3>1
    <3>2. CASE s = {1}
      <4>1. (CHOOSE x \in s : TRUE) = 1
        BY <3>2
      <4>2. s \ {1} = {} /\ g[s] = l.thickness /\ g[{}] = 0
        BY <3>2
      <4>3. Body(g)[s] = << l >>[1].thickness + g[s \ {1}]
        BY <3>2, <4>1
      <4>4. l.thickness + 0 = l.thickness
        OBVIOUS
      <4> HIDE DEF g, Body
      <4> QED
        BY <1>1, <4>2, <4>3, <4>4
    <3> QED
      BY <3>1, <3>2
  <2> QED
    BY <2>1
<1>3. it = Body(it)
  BY <1>2
<1>4. StackThickness(<< l >>) = it[{1}]
  BY <1>1 DEF StackThickness, FoldSeq, FoldFunction, FoldFunctionOnSet, MapThenFoldSet, it
<1> HIDE DEF it
<1>5. it[{}] = 0
  BY <1>3
<1>6. it[{1}] = << l >>[1].thickness + it[{}]
  <2>1. (CHOOSE x \in {1} : TRUE) = 1 /\ {1} \ {1} = {} /\ {1} \in SUBSET {1}
    OBVIOUS
  <2> QED
    BY <1>3, <2>1
<1> QED
  BY <1>1, <1>4, <1>5, <1>6
--------------------------------------------------------------------------------
(* What the steps of assemble() leave as it is. *)
Recorded(r) ==
  /\ DOMAIN r = {"building", "materials", "glazings", "weather", "site", "operation", "skyModel"}
  /\ DOMAIN r.building = {"floorArea", "volume", "azimuth", "surfaces", "windows", "storageElements"}
Level(c, b) == c.volume = b.volume /\ c.floorArea = b.floorArea /\ c.azimuth = b.azimuth
Still(q, r) == Recorded(q) /\ Level(q.building, r.building) /\ q.building.surfaces = r.building.surfaces

LEMMA WindowsStill ==
  ASSUME NEW r, Recorded(r), NEW ws
  PROVE  Still(WithWindows(r, ws), r)
<1> DEFINE b == [r.building EXCEPT !.windows = ws]
           q == WithWindows(r, ws)
<1>1. q = [r EXCEPT !.building = b, !.glazings = UsedGlazingIds(b)]
  BY DEF WithWindows
<1>2. /\ DOMAIN b = DOMAIN r.building /\ b.surfaces = r.building.surfaces
      /\ b.volume = r.building.volume /\ b.floorArea = r.building.floorArea
      /\ b.azimuth = r.building.azimuth
  BY DEF Recorded
<1> HIDE DEF b, q
<1>3. DOMAIN q = DOMAIN r /\ q.building = b
  BY <1>1 DEF Recorded
<1>4. Still(q, r)
  BY <1>2, <1>3 DEF Still, Recorded, Level
<1> QED
  BY <1>4 DEF q

LEMMA QuadrantStill ==
  ASSUME NEW r, Recorded(r), NEW o, NEW ratio
  PROVE  Still(SetQuadrantWwr(r, o, ratio), r)
<1> DEFINE walls == WallsInQuadrant(r.building, o)
           q == Glaze(r, walls, ratio)
<1>1. q = r \/ \E ws : q = WithWindows(r, ws)
  BY DEF Glaze
<1> HIDE DEF q
<1>2. Still(r, r)
  BY DEF Still, Level
<1>3. Still(q, r)
  BY <1>1, <1>2, WindowsStill
<1> QED
  BY <1>3 DEF SetQuadrantWwr, q, walls

LEMMA SidesStill ==
  ASSUME NEW r, Recorded(r), NEW s, NEW e, NEW w, NEW n,
         Still(s, r), Still(e, s), Still(w, e), Still(n, w)
  PROVE  Still(n, r)
  BY DEF Still, Level

LEMMA GlazedStill ==
  ASSUME NEW r, Recorded(r), NEW d
  PROVE  Still(Glazed(r, d), r)
<1> DEFINE Set(q, o) == SetQuadrantWwr(q, o, d.wwr[o])
           s == Set(r, "S")
           e == Set(s, "E")
           w == Set(e, "W")
           n == Set(w, "N")
<1>1. Glazed(r, d) = n
  BY DEF Glazed, OnEachSide
<1>2. \A q, o : Recorded(q) => Still(Set(q, o), q)
  BY QuadrantStill
<1> HIDE DEF Set
<1>3. Still(s, r) /\ Recorded(s)
  BY <1>2 DEF Still
<1> HIDE DEF s
<1>4. Still(e, s) /\ Recorded(e)
  BY <1>2, <1>3 DEF Still
<1> HIDE DEF e
<1>5. Still(w, e) /\ Recorded(w)
  BY <1>2, <1>4 DEF Still
<1> HIDE DEF w
<1>6. Still(n, w)
  BY <1>2, <1>5
<1> HIDE DEF n
<1> QED
  BY <1>1, <1>3, <1>4, <1>5, <1>6, SidesStill

LEMMA GlassStill ==
  ASSUME NEW r, Recorded(r), NEW g, NEW on
  PROVE  Still(SetGlass(r, g, on), r)
<1> DEFINE p == SetGlazingType(r, g)
           q == SetNightShutters(p, on)
<1>1. Still(p, r)
  BY WindowsStill DEF SetGlazingType
<1>2. Recorded(p)
  BY <1>1 DEF Still
<1> HIDE DEF p
<1>3. Still(q, p)
  BY <1>2, WindowsStill DEF SetNightShutters
<1> HIDE DEF q
<1>4. SetGlass(r, g, on) = q
  BY DEF SetGlass, p, q
<1> QED
  BY <1>1, <1>3, <1>4 DEF Still, Level

LEMMA FinalizedRecords ==
  ASSUME NEW r, Recorded(r), NEW b, DOMAIN b = DOMAIN r.building
  PROVE  Recorded(Finalize(r, b)) /\ Finalize(r, b).building = b
<1> DEFINE q == Finalize(r, b)
<1>1. DOMAIN q = DOMAIN r /\ q.building = b
  BY DEF Finalize, Recorded
<1> HIDE DEF q
<1>2. Recorded(q)
  BY <1>1 DEF Recorded
<1> QED
  BY <1>1, <1>2 DEF q

LEMMA StoreyedStill ==
  ASSUME NEW r, Recorded(r), NEW n
  PROVE  Still(Storeyed(r, n), r)
<1> DEFINE b == r.building
           floor == CHOOSE s \in b.surfaces : s.type = "floor"
           slab == [id |-> "intermediateSlab", materialId |-> Last(floor.construction).materialId,
                    footprint |-> b.floorArea]
           c == [b EXCEPT !.storageElements = @ \cup {slab}]
<1>1. AddIntermediateSlab(r) = Finalize(r, c)
  BY DEF AddIntermediateSlab
<1> HIDE DEF slab
<1>2. DOMAIN c = DOMAIN b /\ Level(c, b) /\ c.surfaces = b.surfaces
  BY DEF Level, Recorded
<1> HIDE DEF b, c
<1>3. Recorded(Finalize(r, c)) /\ Finalize(r, c).building = c
  BY <1>2, FinalizedRecords DEF b
<1>4. Still(AddIntermediateSlab(r), r)
  BY <1>1, <1>2, <1>3 DEF Still, b
<1>5. Still(r, r)
  BY DEF Still, Level
<1> QED
  BY <1>4, <1>5 DEF Storeyed

(* What a surface wears after the steps of materials, and what stays of it.                *)
Over(s, type, layer) ==
  IF s.type = type /\ layer # KeepPreset THEN << layer >> ELSE s.construction
Wears(t, s, construction) ==
  t.id = s.id /\ t.type = s.type /\ t.azimuth = s.azimuth /\ t.construction = construction
Dress(c, b, type, layer) ==
  /\ \A t \in c.surfaces : \E s \in b.surfaces : Wears(t, s, Over(s, type, layer))
  /\ \A s \in b.surfaces : \E t \in c.surfaces : Wears(t, s, Over(s, type, layer))

LEMMA ConstructionDresses ==
  ASSUME NEW r, Recorded(r), \A s \in r.building.surfaces : SurfaceFits(s), NEW type, NEW layer
  PROVE  LET q == SetConstruction(r, type, layer)
         IN /\ Recorded(q) /\ Level(q.building, r.building)
            /\ Dress(q.building, r.building, type, layer)
<1> DEFINE b == r.building
           F(s) == IF s.type = type THEN [s EXCEPT !.construction = << layer >>] ELSE s
           c == WithConstructionForType(b, type, << layer >>)
           q == SetConstruction(r, type, layer)
<1>1. CASE layer = KeepPreset
  <2>1. q = r
    BY <1>1 DEF SetConstruction
  <2> HIDE DEF q
  <2>2. \A s : Wears(s, s, Over(s, type, layer))
    BY <1>1 DEF Wears, Over
  <2>3. Dress(b, b, type, layer) /\ Level(b, b)
    BY <2>2 DEF Dress, Level
  <2>4. Recorded(q) /\ Level(q.building, b) /\ Dress(q.building, b, type, layer)
    BY <2>1, <2>3
  <2> QED
    BY <2>4 DEF q
<1>2. CASE layer # KeepPreset
  <2>1. ASSUME NEW s \in b.surfaces
        PROVE  Wears(F(s), s, Over(s, type, layer))
    <3>1. SurfaceFits(s)
      OBVIOUS
    <3>2. CASE s.type = type
      <4> DEFINE f == [s EXCEPT !.construction = << layer >>]
      <4>1. f.id = s.id /\ f.type = s.type /\ f.azimuth = s.azimuth /\ f.construction = << layer >>
        BY <3>1 DEF SurfaceFits
      <4>2. F(s) = f
        BY <3>2
      <4> HIDE DEF f, F
      <4> QED
        BY <1>2, <3>2, <4>1, <4>2 DEF Wears, Over
    <3>3. CASE s.type # type
      BY <3>3 DEF Wears, Over
    <3> QED
      BY <3>2, <3>3
  <2>2. c = [b EXCEPT !.surfaces = {F(s) : s \in @}]
    BY DEF WithConstructionForType
  <2> HIDE DEF F, c
  <2>3. DOMAIN c = DOMAIN b /\ Level(c, b) /\ c.surfaces = {F(s) : s \in b.surfaces}
    BY <2>2 DEF Recorded, Level
  <2>4. Dress(c, b, type, layer)
    <3>1. \A t \in c.surfaces : \E s \in b.surfaces : t = F(s)
      BY <2>3
    <3>2. \A s \in b.surfaces : F(s) \in c.surfaces
      BY <2>3
    <3> QED
      BY <2>1, <3>1, <3>2 DEF Dress
  <2>5. q = Finalize(r, c)
    BY <1>2 DEF SetConstruction, c
  <2> HIDE DEF q
  <2>6. Recorded(q) /\ q.building = c
    BY <2>3, <2>5, FinalizedRecords
  <2>7. Recorded(q) /\ Level(q.building, b) /\ Dress(q.building, b, type, layer)
    BY <2>3, <2>4, <2>6
  <2> QED
    BY <2>7 DEF q
<1> QED
  BY <1>1, <1>2

(* Surfaces with the shape's outline: the walls of a box and of a cylinder by the way they  *)
(* face, the bands of a dome by their number and the way they face, each once.             *)
QuarterAzimuths == {0, -90, 90, 180}
WallsStand(b, azimuths) ==
  /\ \A s \in b.surfaces : s.type = "wall" => s.azimuth \in azimuths
  /\ \A a \in azimuths : \E s \in b.surfaces : s.type = "wall" /\ s.azimuth = a
  /\ \A s, t \in b.surfaces : s.type = "wall" /\ t.type = "wall" /\ s.azimuth = t.azimuth => s.id = t.id
BandType(k) == IF IsWallBand(k) THEN "wall" ELSE "roof"
BandsStand(b) ==
  /\ \A s \in b.surfaces : s.type # "floor" =>
       s.id[2] \in Bands /\ s.azimuth \in RingAzimuths /\ s.type = BandType(s.id[2])
  /\ \A k \in Bands, a \in RingAzimuths :
       \E s \in b.surfaces : s.type # "floor" /\ s.id[2] = k /\ s.azimuth = a
  /\ \A s, t \in b.surfaces :
       s.type # "floor" /\ t.type # "floor" /\ s.id[2] = t.id[2] /\ s.azimuth = t.azimuth => s.id = t.id
Stands(b, shape) ==
  CASE shape = "dome" -> BandsStand(b)
    [] shape = "cylinder" -> WallsStand(b, RingAzimuths)
    [] OTHER -> WallsStand(b, QuarterAzimuths)

(* The layers of the preset's surfaces, and those of the design over them. *)
Stack(p, type) ==
  (CHOOSE s \in PresetById[p].surfaces : s.type = type /\ s.azimuth = 0).construction
FromPreset(b, p) ==
  \A s \in b.surfaces :
    s.type # "wall" \/ OrientationForAzimuth(s.azimuth) = "S" => s.construction = Stack(p, s.type)
FromDesign(b, d) ==
  \A s \in b.surfaces :
    s.type # "wall" \/ OrientationForAzimuth(s.azimuth) = "S" =>
      s.construction = IF d[s.type] = KeepPreset THEN Stack(d.presetId, s.type) ELSE << d[s.type] >>

LEMMA DressStands ==
  ASSUME NEW b, NEW c, NEW type, NEW layer, Dress(c, b, type, layer), NEW shape, Stands(b, shape)
  PROVE  Stands(c, shape)
<1>1. /\ \A t \in c.surfaces : \E s \in b.surfaces : t.id = s.id /\ t.type = s.type /\ t.azimuth = s.azimuth
      /\ \A s \in b.surfaces : \E t \in c.surfaces : t.id = s.id /\ t.type = s.type /\ t.azimuth = s.azimuth
  BY DEF Dress, Wears
<1>2. ASSUME NEW azimuths, WallsStand(b, azimuths)
      PROVE  WallsStand(c, azimuths)
  <2>1. \A s \in c.surfaces : s.type = "wall" => s.azimuth \in azimuths
    BY <1>1, <1>2 DEF WallsStand
  <2>2. \A a \in azimuths : \E s \in c.surfaces : s.type = "wall" /\ s.azimuth = a
    BY <1>1, <1>2 DEF WallsStand
  <2>3. ASSUME NEW s \in c.surfaces, NEW t \in c.surfaces, s.type = "wall", t.type = "wall", s.azimuth = t.azimuth
        PROVE  s.id = t.id
    BY <1>1, <1>2, <2>3 DEF WallsStand
  <2> QED
    BY <2>1, <2>2, <2>3 DEF WallsStand
<1>3. ASSUME BandsStand(b)
      PROVE  BandsStand(c)
  <2>1. \A s \in c.surfaces : s.type # "floor" =>
          s.id[2] \in Bands /\ s.azimuth \in RingAzimuths /\ s.type = BandType(s.id[2])
    BY <1>1, <1>3 DEF BandsStand
  <2>2. ASSUME NEW k \in Bands, NEW a \in RingAzimuths
        PROVE  \E s \in c.surfaces : s.type # "floor" /\ s.id[2] = k /\ s.azimuth = a
    <3>1. PICK s \in b.surfaces : s.type # "floor" /\ s.id[2] = k /\ s.azimuth = a
      BY <1>3 DEF BandsStand
    <3>2. PICK t \in c.surfaces : t.id = s.id /\ t.type = s.type /\ t.azimuth = s.azimuth
      BY <1>1
    <3> QED
      BY <3>1, <3>2
  <2>3. ASSUME NEW s \in c.surfaces, NEW t \in c.surfaces, s.type # "floor", t.type # "floor",
               s.id[2] = t.id[2], s.azimuth = t.azimuth
        PROVE  s.id = t.id
    <3>1. PICK u \in b.surfaces : s.id = u.id /\ s.type = u.type /\ s.azimuth = u.azimuth
      BY <1>1
    <3>2. PICK v \in b.surfaces : t.id = v.id /\ t.type = v.type /\ t.azimuth = v.azimuth
      BY <1>1
    <3>3. u.type # "floor" /\ v.type # "floor" /\ u.id[2] = v.id[2] /\ u.azimuth = v.azimuth
      BY <2>3, <3>1, <3>2
    <3>4. u.id = v.id
      BY <1>3, <3>3 DEF BandsStand
    <3> QED
      BY <3>1, <3>2, <3>4
  <2> QED
    BY <2>1, <2>2, <2>3 DEF BandsStand
<1> QED
  BY <1>2, <1>3 DEF Stands

LEMMA CladDresses ==
  ASSUME NEW r, IsRequest(r), Recorded(r), NEW d, NEW shape, Stands(r.building, shape),
         FromPreset(r.building, d.presetId)
  PROVE  LET q == Clad(r, d)
         IN /\ Recorded(q) /\ Level(q.building, r.building)
            /\ Stands(q.building, shape) /\ FromDesign(q.building, d)
<1> DEFINE x == SetConstruction(r, "wall", d.wall)
           y == SetConstruction(x, "roof", d.roof)
           z == SetConstruction(y, "floor", d.floor)
<1>1. Clad(r, d) = z
  BY DEF Clad
<1>2. \A q : IsRequest(q) => \A s \in q.building.surfaces : SurfaceFits(s)
  BY DEF IsRequest, IsBuilding
<1>3. /\ IsRequest(x) /\ Recorded(x) /\ Level(x.building, r.building)
      /\ Dress(x.building, r.building, "wall", d.wall)
  BY <1>2, ConstructionKeeps, ConstructionDresses
<1> HIDE DEF x
<1>4. /\ IsRequest(y) /\ Recorded(y) /\ Level(y.building, x.building)
      /\ Dress(y.building, x.building, "roof", d.roof)
  BY <1>2, <1>3, ConstructionKeeps, ConstructionDresses
<1> HIDE DEF y
<1>5. /\ IsRequest(z) /\ Recorded(z) /\ Level(z.building, y.building)
      /\ Dress(z.building, y.building, "floor", d.floor)
  BY <1>2, <1>4, ConstructionKeeps, ConstructionDresses
<1> HIDE DEF z
<1>6. Stands(x.building, shape)
  BY <1>3, DressStands
<1>7. Stands(y.building, shape)
  BY <1>4, <1>6, DressStands
<1>8. Stands(z.building, shape)
  BY <1>5, <1>7, DressStands
<1>9. Level(z.building, r.building)
  BY <1>3, <1>4, <1>5 DEF Level
<1>10. FromDesign(z.building, d)
  <2> SUFFICES ASSUME NEW s \in z.building.surfaces,
                      s.type # "wall" \/ OrientationForAzimuth(s.azimuth) = "S"
               PROVE  s.construction = IF d[s.type] = KeepPreset THEN Stack(d.presetId, s.type)
                                       ELSE << d[s.type] >>
    BY DEF FromDesign
  <2>1. PICK t \in y.building.surfaces : Wears(s, t, Over(t, "floor", d.floor))
    BY <1>5 DEF Dress
  <2>2. PICK u \in x.building.surfaces : Wears(t, u, Over(u, "roof", d.roof))
    BY <1>4 DEF Dress
  <2>3. PICK v \in r.building.surfaces : Wears(u, v, Over(v, "wall", d.wall))
    BY <1>3 DEF Dress
  <2>4. /\ s.type = t.type /\ t.type = u.type /\ u.type = v.type /\ s.azimuth = v.azimuth
        /\ s.construction = Over(t, "floor", d.floor)
        /\ t.construction = Over(u, "roof", d.roof)
        /\ u.construction = Over(v, "wall", d.wall)
    BY <2>1, <2>2, <2>3 DEF Wears
  <2>5. v.construction = Stack(d.presetId, v.type)
    BY <2>4 DEF FromPreset
  <2>6. v.type \in {"wall", "roof", "floor"}
    BY <1>2 DEF SurfaceFits, SurfaceTypes
  <2>7. CASE v.type = "wall"
    BY <2>4, <2>5, <2>7 DEF Over
  <2>8. CASE v.type = "roof"
    BY <2>4, <2>5, <2>8 DEF Over
  <2>9. CASE v.type = "floor"
    BY <2>4, <2>5, <2>9 DEF Over
  <2> QED
    BY <2>6, <2>7, <2>8, <2>9
<1> QED
  BY <1>1, <1>5, <1>8, <1>9, <1>10

--------------------------------------------------------------------------------
(* The outline of each shape, and whose layers its surfaces have. *)
LEMMA BoxStands ==
  ASSUME NEW b, IsBuilding(b), IsBox(b), NEW p, b.surfaces = PresetById[p].surfaces
  PROVE  WallsStand(b, QuarterAzimuths) /\ FromPreset(b, p)
<1>1. \A s \in b.surfaces : s.type = "wall" => s.azimuth \in {0, -90, 90, 180}
  BY DEF IsBox
<1>2. ASSUME NEW a \in QuarterAzimuths
      PROVE  \E s \in b.surfaces : s.type = "wall" /\ s.azimuth = a
  <2>1. \A o \in Orientations : \E s \in b.surfaces : s.type = "wall" /\ OrientationForAzimuth(s.azimuth) = o
    BY DEF IsBuilding, Sides, WallsInQuadrant
  <2>2. \E o \in Orientations : OrientationForAzimuth(a) = o
    BY SidesOfAzimuths
  <2>3. PICK s \in b.surfaces : s.type = "wall" /\ OrientationForAzimuth(s.azimuth) = OrientationForAzimuth(a)
    BY <2>1, <2>2
  <2>4. s.azimuth \in {0, -90, 90, 180} /\ a \in {0, -90, 90, 180}
    BY <1>1, <2>3 DEF QuarterAzimuths
  <2>5. s.azimuth = a
    BY <2>3, <2>4, QuarterSides
  <2> QED
    BY <2>3, <2>5
<1>3. \A s, t \in b.surfaces : s.type = t.type /\ s.azimuth = t.azimuth => s = t
  BY DEF IsBox
<1>4. WallsStand(b, QuarterAzimuths)
  BY <1>1, <1>2, <1>3 DEF WallsStand, QuarterAzimuths
<1>5. FromPreset(b, p)
  <2> SUFFICES ASSUME NEW s \in b.surfaces, s.type # "wall" \/ OrientationForAzimuth(s.azimuth) = "S"
               PROVE  s.construction = Stack(p, s.type)
    BY DEF FromPreset
  <2>1. s.azimuth = 0
    <3>1. CASE s.type # "wall"
      BY <3>1 DEF IsBox
    <3>2. CASE s.type = "wall"
      BY <1>1, <3>2, QuarterSides
    <3> QED
      BY <3>1, <3>2
  <2> DEFINE u == CHOOSE v \in b.surfaces : v.type = s.type /\ v.azimuth = 0
  <2>2. u \in b.surfaces /\ u.type = s.type /\ u.azimuth = 0
    BY <2>1
  <2>3. Stack(p, s.type) = u.construction
    BY DEF Stack
  <2> HIDE DEF u
  <2>4. u = s
    BY <1>3, <2>1, <2>2
  <2> QED
    BY <2>3, <2>4
<1> QED
  BY <1>4, <1>5

LEMMA ResizedDresses ==
  ASSUME NEW b, IsBuilding(b), NEW l, NEW w, NEW h
  PROVE  LET c == ResizedBuilding(b, l, w, h)
         IN /\ DOMAIN c = DOMAIN b /\ c.volume = l * w * h /\ c.floorArea = Area(l, w)
            /\ c.azimuth = b.azimuth /\ Dress(c, b, "none", KeepPreset)
<1> DEFINE F(s) == ResizedSurface(s, l, w, h)
           c == ResizedBuilding(b, l, w, h)
<1>1. ASSUME NEW s \in b.surfaces
      PROVE  Wears(F(s), s, Over(s, "none", KeepPreset))
  <2>1. SurfaceFits(s)
    BY DEF IsBuilding
  <2>2. \A area : LET f == [s EXCEPT !.area = area]
                  IN f.id = s.id /\ f.type = s.type /\ f.azimuth = s.azimuth /\ f.construction = s.construction
    BY <2>1 DEF SurfaceFits
  <2>3. \/ F(s) = s \/ F(s) = [s EXCEPT !.area = Area(l, h)]
        \/ F(s) = [s EXCEPT !.area = Area(w, h)] \/ F(s) = [s EXCEPT !.area = Area(l, w)]
    <3>1. CASE s.type = "wall" /\ s.azimuth \in {0, 180}
      BY <3>1 DEF ResizedSurface
    <3>2. CASE s.type = "wall" /\ s.azimuth \in {-90, 90}
      BY <3>2 DEF ResizedSurface
    <3>3. CASE s.type \in {"roof", "floor"}
      BY <3>3 DEF ResizedSurface
    <3>4. CASE s.type = "wall" /\ s.azimuth \notin {0, 180} /\ s.azimuth \notin {-90, 90}
      BY <3>4 DEF ResizedSurface
    <3>5. s.type \in {"wall", "roof", "floor"}
      BY <2>1 DEF SurfaceFits, SurfaceTypes
    <3> QED
      BY <3>1, <3>2, <3>3, <3>4, <3>5
  <2> HIDE DEF F
  <2>4. /\ F(s).id = s.id /\ F(s).type = s.type /\ F(s).azimuth = s.azimuth
        /\ F(s).construction = s.construction
    BY <2>2, <2>3
  <2> QED
    BY <2>4 DEF Wears, Over
<1>2. c = [b EXCEPT !.floorArea = Area(l, w), !.volume = l * w * h, !.surfaces = {F(s) : s \in @}]
  BY DEF ResizedBuilding
<1> HIDE DEF F, c
<1>3. /\ DOMAIN c = DOMAIN b /\ c.volume = l * w * h /\ c.floorArea = Area(l, w)
      /\ c.azimuth = b.azimuth /\ c.surfaces = {F(s) : s \in b.surfaces}
  BY <1>2 DEF IsBuilding
<1>4. \A t \in c.surfaces : \E s \in b.surfaces : t = F(s)
  BY <1>3
<1>5. \A s \in b.surfaces : F(s) \in c.surfaces
  BY <1>3
<1>6. Dress(c, b, "none", KeepPreset)
  BY <1>1, <1>4, <1>5 DEF Dress
<1> QED
  BY <1>3, <1>6 DEF c

LEMMA DressKeepsStacks ==
  ASSUME NEW b, NEW c, Dress(c, b, "none", KeepPreset), NEW p, FromPreset(b, p)
  PROVE  FromPreset(c, p)
<1> SUFFICES ASSUME NEW t \in c.surfaces, t.type # "wall" \/ OrientationForAzimuth(t.azimuth) = "S"
             PROVE  t.construction = Stack(p, t.type)
  BY DEF FromPreset
<1>1. PICK s \in b.surfaces : Wears(t, s, s.construction)
  BY DEF Dress, Over
<1>2. s.type # "wall" \/ OrientationForAzimuth(s.azimuth) = "S"
  BY <1>1 DEF Wears
<1> QED
  BY <1>1, <1>2 DEF Wears, FromPreset

(* The shaped building: its volume is its floor by its height (a third of it for a dome,   *)
(* two thirds of the radius, in the half dm the viewer counts in).                        *)
Tall(b, factor, height) == factor * b.volume = height * (b.floorArea \div 10000)
Shapely(q, r, shape, factor, height, p) ==
  /\ Recorded(q) /\ q.building.azimuth = r.building.azimuth
  /\ Tall(q.building, factor, height) /\ Stands(q.building, shape) /\ FromPreset(q.building, p)

LEMMA Areas ==
  ASSUME NEW a \in Int
  PROVE  (a * 10000) \div 10000 = a
  OBVIOUS

LEMMA BoxShapely ==
  ASSUME NEW r, IsRequest(r), Recorded(r), IsBox(r.building), NEW p,
         r.building.surfaces = PresetById[p].surfaces,
         NEW l \in Int, NEW w \in Int, NEW h \in Int, NEW n \in {1, 2}
  PROVE  Shapely(SetSizeStoreys(r, l, w, h, n), r, "box", 2, 2 * h * n, p)
<1> DEFINE Before(o) == Ratio(r.building, WallsInQuadrant(r.building, o))
           Reglazed(q, o) == IF Before(o) > 0 THEN SetQuadrantWwr(q, o, Before(o)) ELSE q
           b == r.building
           c == ResizedBuilding(b, l, w, h * n)
           z == [r EXCEPT !.building = ResizedBuilding(@, l, w, h * n)]
           s == Reglazed(z, "S")
           e == Reglazed(s, "E")
           v == Reglazed(e, "W")
           q == Reglazed(v, "N")
<1>1. SetSizeStoreys(r, l, w, h, n) = q
  BY DEF SetSizeStoreys, OnEachSide
<1>2. ASSUME NEW y, Recorded(y), NEW o PROVE Still(Reglazed(y, o), y)
  <2>1. Still(y, y)
    BY <1>2 DEF Still, Level
  <2> HIDE DEF Before
  <2> QED
    BY <1>2, <2>1, QuadrantStill
<1>3. IsBuilding(b) /\ WallsStand(b, QuarterAzimuths) /\ FromPreset(b, p)
  BY BoxStands DEF IsRequest
<1>4. /\ DOMAIN c = DOMAIN b /\ c.volume = l * w * (h * n) /\ c.floorArea = Area(l, w)
      /\ c.azimuth = b.azimuth /\ Dress(c, b, "none", KeepPreset)
  BY <1>3, ResizedDresses
<1>5. z = [r EXCEPT !.building = c]
  OBVIOUS
<1> HIDE DEF Reglazed, c, z
<1>6. Recorded(z) /\ z.building = c
  <2>1. DOMAIN z = DOMAIN r /\ z.building = c
    BY <1>5 DEF Recorded
  <2> QED
    BY <1>4, <2>1 DEF Recorded
<1>7. Still(s, z) /\ Recorded(s)
  BY <1>2, <1>6 DEF Still
<1> HIDE DEF s
<1>8. Still(e, s) /\ Recorded(e)
  BY <1>2, <1>7 DEF Still
<1> HIDE DEF e
<1>9. Still(v, e) /\ Recorded(v)
  BY <1>2, <1>8 DEF Still
<1> HIDE DEF v
<1>10. Still(q, v)
  BY <1>2, <1>9
<1> HIDE DEF q
<1>11. Still(q, z)
  BY <1>6, <1>7, <1>8, <1>9, <1>10, SidesStill
<1>12. /\ Recorded(q) /\ q.building.surfaces = c.surfaces /\ q.building.volume = c.volume
       /\ q.building.floorArea = c.floorArea /\ q.building.azimuth = c.azimuth
  BY <1>6, <1>11 DEF Still, Level
<1>13. WallsStand(c, QuarterAzimuths) /\ FromPreset(c, p)
  <2>1. Stands(b, "box")
    BY <1>3 DEF Stands
  <2>2. Stands(c, "box")
    BY <1>4, <2>1, DressStands
  <2> QED
    BY <1>3, <1>4, <2>2, DressKeepsStacks DEF Stands
<1>14. Stands(q.building, "box") /\ FromPreset(q.building, p)
  BY <1>12, <1>13 DEF Stands, WallsStand, FromPreset
<1>15. Tall(q.building, 2, 2 * h * n)
  <2>1. l * w \in Int
    OBVIOUS
  <2>2. Area(l, w) \div 10000 = l * w
    BY <2>1, Areas DEF Area
  <2> DEFINE f == l * w
             k == h * n
  <2>3. f \in Int /\ k \in Int
    OBVIOUS
  <2>4. 2 * h * n = 2 * k
    OBVIOUS
  <2>5. q.building.volume = f * k /\ q.building.floorArea \div 10000 = f
    BY <1>4, <1>12, <2>2
  <2> HIDE DEF f, k
  <2>6. 2 * (f * k) = (2 * k) * f
    BY <2>3
  <2> QED
    BY <2>4, <2>5, <2>6 DEF Tall
<1> QED
  BY <1>1, <1>4, <1>12, <1>14, <1>15 DEF Shapely

LEMMA RingSectors ==
  /\ \A k \in Sectors : SectorAzimuth(k) \in RingAzimuths
  /\ \A a \in RingAzimuths : \E k \in Sectors : a = SectorAzimuth(k)
  /\ \A j, k \in Sectors : SectorAzimuth(j) = SectorAzimuth(k) => j = k
<1>1. 360 \div 12 = 30
  BY SMT
<1>2. \A k \in Sectors : k \in Int /\ k * (360 \div 12) - 150 = SectorAzimuth(k)
  BY <1>1, SMT DEF Sectors, SectorAzimuth
<1>3. Sectors = 0..11
  BY DEF Sectors
<1>4. RingAzimuths = {k * (360 \div 12) - 150 : k \in Sectors}
  BY <1>3 DEF RingAzimuths
<1>5. \A k \in Sectors : SectorAzimuth(k) \in RingAzimuths
  BY <1>2, <1>4
<1>6. \A a \in RingAzimuths : \E k \in Sectors : a = SectorAzimuth(k)
  BY <1>2, <1>4
<1>7. \A j, k \in Int : 30 * j - 150 = 30 * k - 150 => j = k
  BY SMT
<1>8. \A j, k \in Sectors : SectorAzimuth(j) = SectorAzimuth(k) => j = k
  BY <1>2, <1>7 DEF SectorAzimuth
<1> QED
  BY <1>5, <1>6, <1>8

(* What a round shape's geometry is to be for the viewer.                                  *)
RoundStands(g, shape, factor, height, t) ==
  /\ Tall(g, factor, height) /\ Stands(g, shape)
  /\ \A s \in g.surfaces : s.construction = t[s.type].construction

LEMMA TemplatesWear ==
  ASSUME NEW b, IsBuilding(b), IsBox(b), NEW p, FromPreset(b, p)
  PROVE  LET t == ShapeTemplates(b)
         IN \A type \in {"wall", "roof", "floor"} : t[type].construction = Stack(p, type)
<1> DEFINE wall == CHOOSE s \in b.surfaces : s.type = "wall" /\ s.azimuth = 0
           roof == CHOOSE s \in b.surfaces : s.type = "roof"
           floor == CHOOSE s \in b.surfaces : s.type = "floor"
<1>1. wall \in b.surfaces /\ wall.type = "wall" /\ wall.azimuth = 0
  BY DEF IsBox
<1>2. roof \in b.surfaces /\ roof.type = "roof"
  BY DEF IsBox
<1>3. floor \in b.surfaces /\ floor.type = "floor"
  BY DEF IsBox
<1> HIDE DEF wall, roof, floor
<1>4. /\ wall.construction = Stack(p, "wall") /\ roof.construction = Stack(p, "roof")
      /\ floor.construction = Stack(p, "floor")
  BY <1>1, <1>2, <1>3, QuarterSides DEF FromPreset
<1>5. ShapeTemplates(b) = [wall |-> wall, roof |-> roof, floor |-> floor]
  BY DEF ShapeTemplates, wall, roof, floor
<1> QED
  BY <1>4, <1>5

LEMMA CylinderStands ==
  ASSUME NEW t, SurfaceFits(t.wall), t.wall.type = "wall", SurfaceFits(t.roof), t.roof.type = "roof",
         SurfaceFits(t.floor), t.floor.type = "floor", DOMAIN t = {"wall", "roof", "floor"},
         NEW d \in Int, NEW h \in Int, NEW n \in {1, 2}
  PROVE  RoundStands(CylinderGeometry(t, d, h, n), "cylinder", 2, 2 * h * n, t)
<1> DEFINE g == CylinderGeometry(t, d, h, n)
           base == 18 * Area(d, d)
           facet == [t.wall EXCEPT !.area = 6 * Area(d, h * n)]
           walls == Ring(facet, <<"wallC">>)
           roof == [t.roof EXCEPT !.id = <<"roof">>, !.area = base]
           floor == [t.floor EXCEPT !.id = <<"floor">>, !.area = base]
<1>1. /\ g.floorArea = base /\ g.volume = 18 * d * d * (h * n)
      /\ g.surfaces = walls \cup {roof, floor}
  BY DEF CylinderGeometry
<1>2. facet.type = "wall" /\ facet.construction = t.wall.construction /\ DOMAIN facet = DOMAIN t.wall
  BY DEF SurfaceFits
<1>3. /\ roof.type = "roof" /\ roof.construction = t.roof.construction
      /\ floor.type = "floor" /\ floor.construction = t.floor.construction
  BY DEF SurfaceFits
<1>4. /\ \A s \in walls : \E k \in Sectors :
           /\ s.id = Append(<<"wallC">>, k) /\ s.azimuth = SectorAzimuth(k)
           /\ s.type = "wall" /\ s.construction = t.wall.construction
      /\ \A k \in Sectors : \E s \in walls : s.azimuth = SectorAzimuth(k) /\ s.type = "wall"
  <2> DEFINE F(k) == [facet EXCEPT !.id = Append(<<"wallC">>, k), !.azimuth = SectorAzimuth(k)]
  <2>1. walls = {F(k) : k \in Sectors}
    BY DEF Ring
  <2> HIDE DEF facet
  <2>2. ASSUME NEW k \in Sectors
        PROVE  /\ F(k).id = Append(<<"wallC">>, k) /\ F(k).azimuth = SectorAzimuth(k)
               /\ F(k).type = "wall" /\ F(k).construction = t.wall.construction
    BY <1>2 DEF SurfaceFits
  <2> HIDE DEF F, walls
  <2>3. \A s \in walls : \E k \in Sectors : s = F(k)
    BY <2>1
  <2>4. \A k \in Sectors : F(k) \in walls
    BY <2>1
  <2> QED
    BY <2>2, <2>3, <2>4
<1> HIDE DEF g, base, facet, walls, roof, floor
<1>5. \A s \in g.surfaces : s.construction = t[s.type].construction
  BY <1>1, <1>3, <1>4
<1>6. WallsStand(g, RingAzimuths)
  <2>1. \A s \in g.surfaces : s.type = "wall" => s \in walls
    BY <1>1, <1>3
  <2>2. \A s \in walls : s \in g.surfaces
    BY <1>1
  <2>3. \A s \in g.surfaces : s.type = "wall" => s.azimuth \in RingAzimuths
    BY <1>4, <2>1, RingSectors
  <2>4. \A a \in RingAzimuths : \E s \in g.surfaces : s.type = "wall" /\ s.azimuth = a
    BY <1>4, <2>2, RingSectors
  <2>5. ASSUME NEW s \in g.surfaces, NEW u \in g.surfaces, s.type = "wall", u.type = "wall", s.azimuth = u.azimuth
        PROVE  s.id = u.id
    <3>1. PICK j \in Sectors : s.id = Append(<<"wallC">>, j) /\ s.azimuth = SectorAzimuth(j)
      BY <1>4, <2>1, <2>5
    <3>2. PICK k \in Sectors : u.id = Append(<<"wallC">>, k) /\ u.azimuth = SectorAzimuth(k)
      BY <1>4, <2>1, <2>5
    <3>3. SectorAzimuth(j) = SectorAzimuth(k)
      BY <2>5, <3>1, <3>2
    <3>4. j = k
      BY <3>3, RingSectors
    <3> QED
      BY <3>1, <3>2, <3>4
  <2> QED
    BY <2>3, <2>4, <2>5 DEF WallsStand
<1>7. Tall(g, 2, 2 * h * n)
  <2> DEFINE f == 18 * d * d
             k == h * n
  <2>1. f \in Int /\ k \in Int
    OBVIOUS
  <2>2. base = f * 10000
    <3>1. 18 * (d * d * 10000) = 18 * d * d * 10000
      BY SMT
    <3> QED
      BY <3>1 DEF base, Area
  <2>3. base \div 10000 = f
    <3> HIDE DEF f
    <3> QED
      BY <2>1, <2>2, Areas
  <2>4. g.volume = f * k /\ 2 * h * n = 2 * k
    BY <1>1
  <2> HIDE DEF f, k
  <2>5. 2 * (f * k) = (2 * k) * f
    BY <2>1
  <2> QED
    BY <1>1, <2>3, <2>4, <2>5 DEF Tall
<1>8. Stands(g, "cylinder")
  BY <1>6 DEF Stands
<1> QED
  BY <1>5, <1>7, <1>8 DEF RoundStands, g

LEMMA BandStands ==
  ASSUME NEW t, SurfaceFits(t.wall), t.wall.type = "wall", SurfaceFits(t.roof), t.roof.type = "roof",
         NEW d \in Int, NEW k \in Bands
  PROVE  /\ \A s \in Band(t, d, k) : \E j \in Sectors :
              /\ s.id = Append(<<BandType(k), k>>, j) /\ s.azimuth = SectorAzimuth(j)
              /\ s.type = BandType(k) /\ s.construction = t[s.type].construction
         /\ \A j \in Sectors : \E s \in Band(t, d, k) :
              s.id = Append(<<BandType(k), k>>, j) /\ s.azimuth = SectorAzimuth(j) /\ s.type = BandType(k)
<1> DEFINE type == BandType(k)
           area == Area(d, d)
           tilt == BandTilt[k + 1]
           facet == [t[type] EXCEPT !.area = area, !.tilt = tilt]
           kind == <<type, k>>
           F(j) == [facet EXCEPT !.id = Append(kind, j), !.azimuth = SectorAzimuth(j)]
<1>1. Band(t, d, k) = {F(j) : j \in Sectors}
  BY DEF Band, Ring, BandType
<1>2. type = "wall" \/ type = "roof"
  BY DEF BandType
<1> HIDE DEF type, area, tilt
<1>3. /\ SurfaceFits(t[type]) /\ t[type].type = type
  BY <1>2
<1>4. /\ DOMAIN facet = {"id", "type", "azimuth", "tilt", "area", "construction", "finish"}
      /\ facet.type = type /\ facet.construction = t[type].construction
  BY <1>3 DEF SurfaceFits
<1> HIDE DEF facet, kind
<1>5. ASSUME NEW j \in Sectors
      PROVE  /\ F(j).id = Append(kind, j) /\ F(j).azimuth = SectorAzimuth(j)
             /\ F(j).type = type /\ F(j).construction = t[type].construction
  BY <1>4
<1> HIDE DEF F
<1>6. \A s \in Band(t, d, k) : \E j \in Sectors : s = F(j)
  BY <1>1
<1>7. \A j \in Sectors : F(j) \in Band(t, d, k)
  BY <1>1
<1> QED
  BY <1>5, <1>6, <1>7 DEF kind, type

LEMMA DomeStands ==
  ASSUME NEW t, SurfaceFits(t.wall), t.wall.type = "wall", SurfaceFits(t.roof), t.roof.type = "roof",
         SurfaceFits(t.floor), t.floor.type = "floor", NEW d \in Int
  PROVE  RoundStands(DomeGeometry(t, d), "dome", 3, d, t)
<1> DEFINE g == DomeGeometry(t, d)
           base == 18 * Area(d, d)
           floor == [t.floor EXCEPT !.id = <<"floor">>, !.area = base]
           rings == UNION {Band(t, d, k) : k \in Bands}
<1>1. g.floorArea = base /\ g.volume = 6 * d * d * d /\ g.surfaces = rings \cup {floor}
  BY DEF DomeGeometry
<1>2. floor.type = "floor" /\ floor.construction = t.floor.construction
  BY DEF SurfaceFits
<1>3. \A k \in Bands : \A s \in Band(t, d, k) : \E j \in Sectors :
        /\ s.id = Append(<<BandType(k), k>>, j) /\ s.azimuth = SectorAzimuth(j)
        /\ s.type = BandType(k) /\ s.construction = t[s.type].construction
  BY BandStands
<1>4. \A k \in Bands : \A j \in Sectors : \E s \in Band(t, d, k) :
        s.id = Append(<<BandType(k), k>>, j) /\ s.azimuth = SectorAzimuth(j) /\ s.type = BandType(k)
  BY BandStands
<1>5. \A s \in rings : \E k \in Bands : s \in Band(t, d, k)
  OBVIOUS
<1>6. \A k \in Bands : Band(t, d, k) \subseteq rings
  OBVIOUS
<1>7. \A k : BandType(k) # "floor"
  BY DEF BandType
<1> HIDE DEF g, base, floor, rings
<1>8. \A s \in g.surfaces : s.construction = t[s.type].construction
  BY <1>1, <1>2, <1>3, <1>5
<1>9. ASSUME NEW s \in rings
      PROVE  /\ s.type # "floor" /\ s.azimuth \in RingAzimuths /\ s.id[2] \in Bands
             /\ s.type = BandType(s.id[2])
             /\ \E j \in Sectors : s.azimuth = SectorAzimuth(j) /\ s.id = Append(<<BandType(s.id[2]), s.id[2]>>, j)
  <2>1. PICK k \in Bands : s \in Band(t, d, k)
    BY <1>5
  <2>2. PICK j \in Sectors : s.id = Append(<<BandType(k), k>>, j) /\ s.azimuth = SectorAzimuth(j)
                               /\ s.type = BandType(k)
    BY <1>3, <2>1
  <2>3. s.id[2] = k
    BY <2>2, KindsDiffer
  <2> QED
    BY <1>7, <2>2, <2>3, RingSectors
<1>10. \A s \in g.surfaces : s.type # "floor" => s \in rings
  BY <1>1, <1>2
<1>11. BandsStand(g)
  <2>1. \A s \in g.surfaces : s.type # "floor" =>
          s.id[2] \in Bands /\ s.azimuth \in RingAzimuths /\ s.type = BandType(s.id[2])
    BY <1>9, <1>10
  <2>2. ASSUME NEW k \in Bands, NEW a \in RingAzimuths
        PROVE  \E s \in g.surfaces : s.type # "floor" /\ s.id[2] = k /\ s.azimuth = a
    <3>1. PICK j \in Sectors : a = SectorAzimuth(j)
      BY RingSectors
    <3>2. PICK s \in Band(t, d, k) : s.id = Append(<<BandType(k), k>>, j) /\ s.azimuth = SectorAzimuth(j)
                                       /\ s.type = BandType(k)
      BY <1>4
    <3>3. s.id[2] = k
      BY <3>2, KindsDiffer
    <3>4. s \in g.surfaces
      BY <1>1, <1>6
    <3> QED
      BY <1>7, <3>1, <3>2, <3>3, <3>4
  <2>3. ASSUME NEW s \in g.surfaces, NEW u \in g.surfaces, s.type # "floor", u.type # "floor",
               s.id[2] = u.id[2], s.azimuth = u.azimuth
        PROVE  s.id = u.id
    <3>1. PICK i \in Sectors : s.azimuth = SectorAzimuth(i) /\ s.id = Append(<<BandType(s.id[2]), s.id[2]>>, i)
      BY <1>9, <1>10, <2>3
    <3>2. PICK j \in Sectors : u.azimuth = SectorAzimuth(j) /\ u.id = Append(<<BandType(u.id[2]), u.id[2]>>, j)
      BY <1>9, <1>10, <2>3
    <3>3. SectorAzimuth(i) = SectorAzimuth(j)
      BY <2>3, <3>1, <3>2
    <3>4. i = j
      BY <3>3, RingSectors
    <3> QED
      BY <2>3, <3>1, <3>2, <3>4
  <2> QED
    BY <2>1, <2>2, <2>3 DEF BandsStand
<1>12. Tall(g, 3, d)
  <2> DEFINE f == d * d
  <2>1. f \in Int
    OBVIOUS
  <2>2. 18 * (f * 10000) = (18 * f) * 10000 /\ 18 * f \in Int
    <3> HIDE DEF f
    <3> QED
      BY <2>1, SMT
  <2>3. base \div 10000 = 18 * f
    BY <2>2, Areas DEF base, Area
  <2>4. g.volume = 6 * d * d * d
    BY <1>1
  <2>5. 6 * d * d * d = 6 * (f * d)
    BY SMT
  <2> HIDE DEF f
  <2>6. 3 * (6 * (f * d)) = d * (18 * f)
    BY <2>1, SMT
  <2> QED
    BY <1>1, <2>3, <2>4, <2>5, <2>6 DEF Tall
<1>13. Stands(g, "dome")
  BY <1>11 DEF Stands
<1> QED
  BY <1>8, <1>12, <1>13 DEF RoundStands, g

LEMMA FacetsShapely ==
  ASSUME NEW r, IsRequest(r), Recorded(r), IsBox(r.building), NEW p,
         r.building.surfaces = PresetById[p].surfaces,
         NEW d \in Int, NEW h \in Int, NEW n \in {1, 2}, d >= 20, h >= 20, NEW shape,
         shape \in {"cylinder", "dome"}
  PROVE  IF shape = "dome" THEN Shapely(SetShapeFacets(r, shape, d, h, n), r, shape, 3, d, p)
         ELSE Shapely(SetShapeFacets(r, shape, d, h, n), r, shape, 2, 2 * h * n, p)
<1> DEFINE b == r.building
           t == ShapeTemplates(b)
           g == IF shape = "cylinder" THEN CylinderGeometry(t, d, h, n) ELSE DomeGeometry(t, d)
           c == [b EXCEPT !.floorArea = g.floorArea, !.volume = g.volume, !.surfaces = g.surfaces,
                          !.windows = {}]
           q == SetShapeFacets(r, shape, d, h, n)
           factor == IF shape = "dome" THEN 3 ELSE 2
           height == IF shape = "dome" THEN d ELSE 2 * h * n
<1>1. q = Finalize(r, c)
  BY DEF SetShapeFacets
<1>2. IsBuilding(b) /\ IsBox(b) /\ FromPreset(b, p)
  BY BoxStands DEF IsRequest
<1>3. /\ SurfaceFits(t.wall) /\ t.wall.type = "wall"
      /\ SurfaceFits(t.roof) /\ t.roof.type = "roof"
      /\ SurfaceFits(t.floor) /\ t.floor.type = "floor"
  BY <1>2, Templates
<1>4. \A type \in {"wall", "roof", "floor"} : t[type].construction = Stack(p, type)
  BY <1>2, TemplatesWear
<1>5. DOMAIN t = {"wall", "roof", "floor"}
  BY DEF ShapeTemplates
<1> HIDE DEF t
<1>6. RoundStands(g, shape, factor, height, t)
  <2>1. RoundStands(CylinderGeometry(t, d, h, n), "cylinder", 2, 2 * h * n, t)
    BY <1>3, <1>5, CylinderStands
  <2>2. RoundStands(DomeGeometry(t, d), "dome", 3, d, t)
    BY <1>3, DomeStands
  <2> QED
    BY <2>1, <2>2
<1>7. \A s \in g.surfaces : s.type \in {"wall", "roof", "floor"}
  <2>1. IsRound(CylinderGeometry(t, d, h, n))
    BY <1>3, CylinderIsRound
  <2>2. IsRound(DomeGeometry(t, d))
    BY <1>3, DomeIsRound
  <2> QED
    BY <2>1, <2>2 DEF IsRound, SurfaceFits, SurfaceTypes
<1> HIDE DEF g
<1>8. /\ DOMAIN c = DOMAIN b /\ c.floorArea = g.floorArea /\ c.volume = g.volume
      /\ c.surfaces = g.surfaces /\ c.azimuth = b.azimuth
  BY DEF Recorded
<1> HIDE DEF c, q
<1>9. Recorded(q) /\ q.building = c
  BY <1>1, <1>8, FinalizedRecords
<1>10. Tall(c, factor, height)
  BY <1>6, <1>8 DEF RoundStands, Tall
<1>11. Stands(c, shape)
  BY <1>6, <1>8 DEF RoundStands, Stands, WallsStand, BandsStand
<1>12. FromPreset(c, p)
  BY <1>4, <1>6, <1>7, <1>8 DEF RoundStands, FromPreset
<1>13. Shapely(q, r, shape, factor, height, p)
  BY <1>8, <1>9, <1>10, <1>11, <1>12 DEF Shapely
<1> QED
  BY <1>13 DEF q

--------------------------------------------------------------------------------
(* What is assembled, as the viewer sees it. *)
Turned(q, r, azimuth) ==
  Recorded(q) /\ q.building.surfaces = r.building.surfaces /\ q.building.azimuth = azimuth

LEMMA PlacedStill ==
  ASSUME NEW r, IsRequest(r), NEW location, NEW day \in Int, NEW azimuth
  PROVE  LET q == [AtPlace(r, location, day) EXCEPT !.building.azimuth = azimuth]
         IN Turned(q, r, azimuth)
<1> DEFINE placed == AtPlace(r, location, day)
           b == r.building
           c == [b EXCEPT !.azimuth = azimuth]
           q == [placed EXCEPT !.building.azimuth = azimuth]
<1>1. DOMAIN placed = DOMAIN r /\ placed.building = b
  BY DEF AtPlace, IsRequest, HasRest
<1> HIDE DEF placed
<1>2. q = [placed EXCEPT !.building = c]
  BY <1>1
<1>3. DOMAIN b = {"floorArea", "volume", "azimuth", "surfaces", "windows", "storageElements"}
  BY DEF IsRequest, IsBuilding
<1> HIDE DEF b
<1>4. DOMAIN c = DOMAIN b /\ c.surfaces = b.surfaces /\ c.azimuth = azimuth
  BY <1>3
<1> HIDE DEF c, q
<1>5. DOMAIN q = DOMAIN r /\ q.building = c
  BY <1>1, <1>2 DEF IsRequest, HasRest
<1>6. Recorded(q)
  BY <1>3, <1>4, <1>5 DEF Recorded, IsRequest, HasRest
<1> QED
  <2>1. Turned(q, r, azimuth)
    BY <1>4, <1>5, <1>6 DEF Turned, b
  <2> QED
    BY <2>1 DEF q, placed

LEMMA ShapedShapely ==
  ASSUME NEW r, IsRequest(r), Recorded(r), IsBox(r.building), NEW d, DesignFits(d),
         r.building.surfaces = PresetById[d.presetId].surfaces
  PROVE  /\ IsRequest(Shaped(r, d))
         /\ Shapely(Shaped(r, d), r, Shape(d), IF Shape(d) = "dome" THEN 3 ELSE 2, SceneHeight(d), d.presetId)
<1> DEFINE q == Shaped(r, d)
           factor == IF Shape(d) = "dome" THEN 3 ELSE 2
<1>1. /\ d.shape \in {"box", "cylinder", "dome"} /\ d.storeys \in {1, 2}
      /\ d.length \in Int /\ d.width \in Int /\ d.height \in Int
      /\ d.length >= 20 /\ d.width >= 20 /\ d.height >= 20
  BY DEF DesignFits, SizesFit, Within
<1>2. Shape(d) = d.shape /\ Storeys(d) = d.storeys
  BY <1>1 DEF Shape, Storeys, Nothing
<1>3. CASE d.shape = "box"
  <2>1. q = SetSizeStoreys(r, d.length, d.width, d.height, d.storeys)
    BY <1>2, <1>3 DEF Shaped
  <2>2. SceneHeight(d) = 2 * d.height * d.storeys
    BY <1>2, <1>3 DEF SceneHeight
  <2>3. Shapely(SetSizeStoreys(r, d.length, d.width, d.height, d.storeys), r, "box", 2,
                2 * d.height * d.storeys, d.presetId)
    BY <1>1, BoxShapely
  <2>4. IsRequest(SetSizeStoreys(r, d.length, d.width, d.height, d.storeys))
    BY <1>1, BoxKeeps
  <2> HIDE DEF q
  <2>5. Shapely(q, r, Shape(d), factor, SceneHeight(d), d.presetId)
    BY <1>2, <1>3, <2>1, <2>2, <2>3
  <2> QED
    BY <2>1, <2>4, <2>5 DEF q
<1>4. CASE d.shape \in {"cylinder", "dome"}
  <2>1. q = SetShapeFacets(r, d.shape, d.length, d.height, d.storeys)
    BY <1>2, <1>4 DEF Shaped
  <2>2. SceneHeight(d) = IF d.shape = "dome" THEN d.length ELSE 2 * d.height * d.storeys
    BY <1>2 DEF SceneHeight
  <2>3. IF d.shape = "dome"
        THEN Shapely(SetShapeFacets(r, d.shape, d.length, d.height, d.storeys), r, d.shape, 3,
                     d.length, d.presetId)
        ELSE Shapely(SetShapeFacets(r, d.shape, d.length, d.height, d.storeys), r, d.shape, 2,
                     2 * d.height * d.storeys, d.presetId)
    BY <1>1, <1>4, FacetsShapely
  <2>4. IsRequest(SetShapeFacets(r, d.shape, d.length, d.height, d.storeys))
    BY <1>1, FacetsKeep
  <2> HIDE DEF q
  <2>5. Shapely(q, r, Shape(d), factor, SceneHeight(d), d.presetId)
    BY <1>2, <2>1, <2>2, <2>3
  <2> QED
    BY <2>1, <2>4, <2>5 DEF q
<1> QED
  BY <1>1, <1>3, <1>4

(* The request's building, from the outside: what stands where, of what, how high. *)
Seen(b, d) ==
  /\ b.azimuth = d.azimuth /\ Stands(b, d.shape) /\ FromDesign(b, d)
  /\ Tall(b, IF d.shape = "dome" THEN 3 ELSE 2, SceneHeight(d))

LEMMA AssembledSeen ==
  ASSUME NEW d, DesignFits(d)
  PROVE  Seen(Assemble(d).building, d)
<1> DEFINE preset == ResolvePreset(d.presetId)
           turned == [AtPlace(preset, d.location, d.day) EXCEPT !.building.azimuth = d.azimuth]
           shaped == Shaped(turned, d)
           storeyed == Storeyed(shaped, Storeys(d))
           built == Clad(storeyed, d)
           sides == Glazed(built, d)
           glazed == SetGlass(sides, d.glazingId, d.shutters)
           operated == SetOccupancyPreset(glazed, d.occupancy)
           r == Assemble(d)
           factor == IF Shape(d) = "dome" THEN 3 ELSE 2
<1>1. d.presetId \in Presets /\ d.day \in Int /\ d.shape \in {"box", "cylinder", "dome"}
  BY DEF DesignFits
<1>2. Shape(d) = d.shape
  BY <1>1 DEF Shape, Nothing
<1>3. r = [operated EXCEPT !.skyModel = "isotropic"]
  BY DEF Assemble
<1>4. /\ IsRequest(turned) /\ IsBox(turned.building) /\ Recorded(turned)
      /\ turned.building.surfaces = PresetById[d.presetId].surfaces /\ turned.building.azimuth = d.azimuth
  <2>1. IsRequest(preset) /\ IsBox(preset.building)
    BY <1>1, PresetResolved
  <2>2. preset.building = PresetById[d.presetId]
    BY DEF ResolvePreset
  <2> HIDE DEF preset
  <2>3. IsRequest(turned) /\ IsBox(turned.building)
    BY <1>1, <2>1, PlacedKeeps
  <2>4. Turned(turned, preset, d.azimuth)
    BY <1>1, <2>1, PlacedStill
  <2> HIDE DEF turned
  <2> QED
    BY <2>2, <2>3, <2>4 DEF Turned
<1> HIDE DEF turned
<1>5. IsRequest(shaped) /\ Shapely(shaped, turned, Shape(d), factor, SceneHeight(d), d.presetId)
  BY <1>4, ShapedShapely
<1> HIDE DEF shaped
<1>6. Recorded(shaped) /\ shaped.building.azimuth = d.azimuth /\ Tall(shaped.building, factor, SceneHeight(d))
      /\ Stands(shaped.building, Shape(d)) /\ FromPreset(shaped.building, d.presetId)
  BY <1>4, <1>5 DEF Shapely
<1>7. IsRequest(storeyed)
  BY <1>5, SlabKeeps DEF Storeyed
<1>8. Still(storeyed, shaped)
  BY <1>6, StoreyedStill
<1> HIDE DEF storeyed
<1>9. Recorded(storeyed) /\ Stands(storeyed.building, Shape(d)) /\ FromPreset(storeyed.building, d.presetId)
  BY <1>6, <1>8 DEF Still, Stands, WallsStand, BandsStand, FromPreset
<1>10. /\ Recorded(built) /\ Level(built.building, storeyed.building)
       /\ Stands(built.building, Shape(d)) /\ FromDesign(built.building, d)
  BY <1>7, <1>9, CladDresses
<1> HIDE DEF built
<1>11. Still(sides, built)
  BY <1>10, GlazedStill
<1> HIDE DEF sides
<1>12. Recorded(sides)
  BY <1>11 DEF Still
<1>13. Still(glazed, sides)
  BY <1>12, GlassStill
<1> HIDE DEF glazed
<1>14. /\ Recorded(glazed) /\ glazed.building.surfaces = built.building.surfaces
       /\ Level(glazed.building, shaped.building)
  BY <1>8, <1>10, <1>11, <1>13 DEF Still, Level
<1>15. DOMAIN operated = DOMAIN glazed /\ operated.building = glazed.building
  BY <1>14 DEF SetOccupancyPreset, Recorded
<1> HIDE DEF operated, r
<1>16. r.building = glazed.building
  BY <1>3, <1>14, <1>15 DEF Recorded
<1>17. Level(r.building, shaped.building) /\ r.building.surfaces = built.building.surfaces
  BY <1>14, <1>16
<1>18. Stands(r.building, Shape(d)) /\ FromDesign(r.building, d)
  BY <1>10, <1>17 DEF Stands, WallsStand, BandsStand, FromDesign
<1>19. r.building.azimuth = d.azimuth /\ Tall(r.building, factor, SceneHeight(d))
  BY <1>6, <1>17 DEF Level, Tall
<1>20. Seen(r.building, d)
  BY <1>2, <1>18, <1>19 DEF Seen
<1> QED
  BY <1>20 DEF r

--------------------------------------------------------------------------------
(* What the viewer draws: a facet for each way the shape's walls face, with an opening     *)
(* wherever there is a share, since the margins leave room in the least of facades.       *)
Open(azimuth, d) == d.wwr[OrientationForAzimuth(azimuth)] > 0
Facing(band, kind, azimuth, window) ==
  Facet(band, kind, azimuth, OrientationForAzimuth(azimuth), window)

LEMMA FacetFields ==
  ASSUME NEW band, NEW kind, NEW azimuth, NEW window
  PROVE  LET f == Facing(band, kind, azimuth, window)
         IN /\ f.band = band /\ f.kind = kind /\ f.azimuth = azimuth /\ f.window = window
            /\ f.orientation = OrientationForAzimuth(azimuth)
  BY DEF Facing, Facet

LEMMA OneTable ==
  ASSUME NEW a \in Int
  PROVE  DrawnOrientation(a) = OrientationForAzimuth(a)
  BY DEF DrawnOrientation, OrientationForAzimuth

LEMMA RingOfInts == RingAzimuths \subseteq Int
<1>1. \A k \in Sectors : SectorAzimuth(k) \in Int
  BY SMT DEF Sectors, SectorAzimuth
<1> QED
  BY <1>1, RingSectors

LEMMA SameTruth == ASSUME NEW p \in BOOLEAN, NEW q \in BOOLEAN, p <=> q PROVE p = q
  OBVIOUS

LEMMA Room ==
  ASSUME NEW wide, NEW tall, NEW ratio, NEW m, tall > m.sill + m.lintel, wide > 2 * SideMargin
  PROVE  WindowDrawn(wide, tall, ratio, m) = (ratio > 0)
<1> DEFINE p == WindowDrawn(wide, tall, ratio, m)
           q == ratio > 0
<1>1. p <=> q
  BY DEF WindowDrawn
<1>2. p \in BOOLEAN /\ q \in BOOLEAN
  BY DEF WindowDrawn
<1> HIDE DEF p, q
<1>3. p = q
  BY <1>1, <1>2, SameTruth
<1> QED
  BY <1>3 DEF p, q

LEMMA RoomInWalls ==
  ASSUME NEW wide \in Int, wide >= 3860, NEW h \in Int, h >= 20, NEW ratio \in Int
  PROVE  WindowDrawn(wide, h * 1000, ratio, FixedWindowMargins(h * 1000)) = (ratio > 0)
<1>1. FixedWindowMargins(h * 1000).sill = 9000 /\ FixedWindowMargins(h * 1000).lintel = 3000
  BY DEF FixedWindowMargins, Sill, LintelMargin
<1>2. wide > 2 * 1500 /\ h * 1000 > 9000 + 3000
  BY SMT
<1> DEFINE tall == h * 1000
           m == FixedWindowMargins(tall)
<1>3. m.sill = 9000 /\ m.lintel = 3000
  BY <1>1
<1>4. tall > m.sill + m.lintel /\ wide > 2 * SideMargin
  BY <1>2, <1>3 DEF SideMargin
<1> HIDE DEF m, tall
<1>5. WindowDrawn(wide, tall, ratio, m) = (ratio > 0)
  BY <1>4, Room
<1> QED
  BY <1>5 DEF m, tall

LEMMA RoomInBands ==
  ASSUME NEW wide \in Int, wide >= 3860, NEW slant \in Int, slant > 0, NEW ratio \in Int
  PROVE  WindowDrawn(wide, slant, ratio, ScaledWindowMargins(slant)) = (ratio > 0)
<1> DEFINE a == (slant * 45) \div 100
           c == (slant * 15) \div 100
           sill == SmallerOf(Sill, a)
           lintel == SmallerOf(LintelMargin, c)
<1>1. ScaledWindowMargins(slant).sill = sill /\ ScaledWindowMargins(slant).lintel = lintel
  BY DEF ScaledWindowMargins
<1>2. a \in Int /\ c \in Int /\ a + c < slant
  BY SMT
<1> HIDE DEF a, c
<1>3. /\ sill \in Int /\ sill <= a /\ lintel \in Int /\ lintel <= c
  BY <1>2, SMT DEF SmallerOf, Sill, LintelMargin
<1> HIDE DEF sill, lintel
<1>4. slant > sill + lintel
  BY <1>2, <1>3, SMT
<1>5. wide > 2 * 1500
  BY SMT
<1> DEFINE m == ScaledWindowMargins(slant)
<1>6. slant > m.sill + m.lintel /\ wide > 2 * SideMargin
  BY <1>1, <1>4, <1>5 DEF SideMargin
<1> HIDE DEF m
<1>7. WindowDrawn(wide, slant, ratio, m) = (ratio > 0)
  BY <1>6, Room
<1> QED
  BY <1>7 DEF m

LEMMA SharesOfSides ==
  ASSUME NEW d, DesignFits(d)
  PROVE  \A a : d.wwr[OrientationForAzimuth(a)] \in Int
<1> TAKE a
<1>1. OrientationForAzimuth(a) \in {"S", "E", "W", "N"}
  BY SidesOfAzimuths, Quarters
<1> QED
  BY <1>1 DEF DesignFits, SharesFit, Within

LEMMA BoxDrawn ==
  ASSUME NEW d, DesignFits(d)
  PROVE  BoxWalls(d) = {Facing(0, "wall", a, Open(a, d)) : a \in QuarterAzimuths}
<1> DEFINE Wide(o) == IF o \in {"S", "N"} THEN d.length * 1000 ELSE d.width * 1000
           F(o) == Facet(0, "wall", Azimuth[o], o,
                         WindowDrawn(Wide(o), d.height * 1000, d.wwr[o],
                                     FixedWindowMargins(d.height * 1000)))
           G(a) == Facing(0, "wall", a, Open(a, d))
<1>1. /\ d.length \in Int /\ d.width \in Int /\ d.height \in Int
      /\ d.length >= 20 /\ d.width >= 20 /\ d.height >= 20
  BY DEF DesignFits, SizesFit, Within
<1>2. \A o \in Orientations : Wide(o) \in Int /\ Wide(o) >= 3860
  BY <1>1, SMT
<1>3. \A o \in Orientations : d.wwr[o] \in Int
  BY Quarters DEF DesignFits, SharesFit, Within
<1>4. BoxWalls(d) = {F(o) : o \in Orientations}
  BY DEF BoxWalls
<1>5. ASSUME NEW o \in Orientations, NEW a, Azimuth[o] = a, OrientationForAzimuth(a) = o
      PROVE  F(o) = G(a)
  <2> HIDE DEF Wide
  <2>1. WindowDrawn(Wide(o), d.height * 1000, d.wwr[o], FixedWindowMargins(d.height * 1000)) = (d.wwr[o] > 0)
    BY <1>1, <1>2, <1>3, RoomInWalls
  <2>2. F(o) = Facet(0, "wall", Azimuth[o], o, d.wwr[o] > 0)
    BY <2>1
  <2> HIDE DEF F
  <2> QED
    BY <1>5, <2>2 DEF Facing, Open
<1> HIDE DEF F, G
<1>6. F("S") = G(0) /\ F("E") = G(-90) /\ F("W") = G(90) /\ F("N") = G(180)
  <2>1. Azimuth["S"] = 0 /\ Azimuth["E"] = -90 /\ Azimuth["W"] = 90 /\ Azimuth["N"] = 180
    BY DEF Azimuth
  <2> QED
    BY <1>5, <2>1, Quarters, QuarterSides
<1>7. {F(o) : o \in Orientations} = {G(a) : a \in QuarterAzimuths}
  <2>1. {F(o) : o \in Orientations} = {F("S"), F("E"), F("W"), F("N")}
    BY Quarters
  <2>2. {G(a) : a \in QuarterAzimuths} = {G(0), G(-90), G(90), G(180)}
    BY DEF QuarterAzimuths
  <2> QED
    BY <1>6, <2>1, <2>2
<1> QED
  BY <1>4, <1>7 DEF G

LEMMA CylinderDrawn ==
  ASSUME NEW d, DesignFits(d)
  PROVE  CylinderWalls(d) = {Facing(0, "wall", a, Open(a, d)) : a \in RingAzimuths}
<1> DEFINE F(a) == Facet(0, "wall", a, DrawnOrientation(a),
                         WindowDrawn(d.length * 268, d.height * 1000, d.wwr[DrawnOrientation(a)],
                                     FixedWindowMargins(d.height * 1000)))
           G(a) == Facing(0, "wall", a, Open(a, d))
<1>1. d.length \in Int /\ d.height \in Int /\ d.length >= 20 /\ d.height >= 20
  BY DEF DesignFits, SizesFit, Within
<1>2. d.length * 268 \in Int /\ d.length * 268 >= 3860
  BY <1>1, SMT
<1>3. CylinderWalls(d) = {F(a) : a \in RingAzimuths}
  BY DEF CylinderWalls
<1>4. ASSUME NEW a \in RingAzimuths
      PROVE  F(a) = G(a)
  <2> DEFINE o == OrientationForAzimuth(a)
  <2>1. DrawnOrientation(a) = o
    BY RingOfInts, OneTable
  <2>2. d.wwr[o] \in Int
    BY SharesOfSides
  <2>3. WindowDrawn(d.length * 268, d.height * 1000, d.wwr[o], FixedWindowMargins(d.height * 1000)) = (d.wwr[o] > 0)
    BY <1>1, <1>2, <2>2, RoomInWalls
  <2>4. F(a) = Facet(0, "wall", a, o, d.wwr[o] > 0)
    BY <2>1, <2>3
  <2> HIDE DEF F
  <2> QED
    BY <2>4 DEF Facing, Open
<1> HIDE DEF F, G
<1>5. {F(a) : a \in RingAzimuths} = {G(a) : a \in RingAzimuths}
  BY <1>4
<1> QED
  BY <1>3, <1>5 DEF G

LEMMA WallBands ==
  /\ IsWallBand(0) /\ IsWallBand(1) /\ ~IsWallBand(2)
  /\ \A k \in Bands : k = 0 \/ k = 1 \/ k = 2
  /\ \A k : IsWallBand(k) = (BandType(k) = "wall")
<1>1. BandTilt[0 + 1] = 80 /\ BandTilt[1 + 1] = 60 /\ BandTilt[2 + 1] = 34
  BY DEF BandTilt
<1>2. \A k \in Bands : k = 0 \/ k = 1 \/ k = 2
  BY DEF Bands
<1>3. \A k : IsWallBand(k) = (BandType(k) = "wall")
  BY DEF BandType, IsWallBand
<1> QED
  BY <1>1, <1>2, <1>3 DEF IsWallBand

LEMMA DomeDrawn ==
  ASSUME NEW d, DesignFits(d)
  PROVE  DomeFacets(d) =
           UNION {{Facing(k, BandType(k), a, BandType(k) = "wall" /\ Open(a, d)) : a \in RingAzimuths} : k \in Bands}
<1> DEFINE F(k, a) ==
             Facet(k, IF IsWallBand(k) THEN "wall" ELSE "roof", a, DrawnOrientation(a),
                   LET slant == d.length * SlantShare[k + 1]
                   IN IsWallBand(k) /\ WindowDrawn(d.length * ChordShare[k + 1], slant,
                                                   d.wwr[DrawnOrientation(a)], ScaledWindowMargins(slant)))
           G(k, a) == Facing(k, BandType(k), a, BandType(k) = "wall" /\ Open(a, d))
<1>1. d.length \in Int /\ d.length >= 20
  BY DEF DesignFits, SizesFit, Within
<1>2. DomeFacets(d) = UNION {{F(k, a) : a \in RingAzimuths} : k \in Bands}
  BY DEF DomeFacets
<1>3. ASSUME NEW k \in Bands, NEW a \in RingAzimuths
      PROVE  F(k, a) = G(k, a)
  <2> DEFINE o == OrientationForAzimuth(a)
             slant == d.length * SlantShare[k + 1]
             chord == d.length * ChordShare[k + 1]
             drawn == WindowDrawn(chord, slant, d.wwr[o], ScaledWindowMargins(slant))
  <2>1. DrawnOrientation(a) = o
    BY RingOfInts, OneTable
  <2>2. d.wwr[o] \in Int
    BY SharesOfSides
  <2>3. F(k, a) = Facet(k, BandType(k), a, o, IsWallBand(k) /\ drawn)
    BY <2>1 DEF BandType
  <2> HIDE DEF F
  <2>4. (IsWallBand(k) /\ drawn) = (IsWallBand(k) /\ d.wwr[o] > 0)
    <3>1. CASE k = 0
      <4>1. SlantShare[k + 1] = 169 /\ ChordShare[k + 1] = 244
        BY <3>1 DEF SlantShare, ChordShare
      <4>2. slant \in Int /\ slant > 0 /\ chord \in Int /\ chord >= 3860
        BY <1>1, <4>1, SMT
      <4> HIDE DEF slant, chord
      <4>3. drawn = (d.wwr[o] > 0)
        BY <2>2, <4>2, RoomInBands
      <4> QED
        BY <4>3
    <3>2. CASE k = 1
      <4>1. SlantShare[k + 1] = 193 /\ ChordShare[k + 1] = 193
        BY <3>2 DEF SlantShare, ChordShare
      <4>2. slant \in Int /\ slant > 0 /\ chord \in Int /\ chord >= 3860
        BY <1>1, <4>1, SMT
      <4> HIDE DEF slant, chord
      <4>3. drawn = (d.wwr[o] > 0)
        BY <2>2, <4>2, RoomInBands
      <4> QED
        BY <4>3
    <3>3. CASE k = 2
      BY <3>3, WallBands
    <3> QED
      BY <3>1, <3>2, <3>3, WallBands
  <2> HIDE DEF drawn
  <2>5. (IsWallBand(k) /\ drawn) = (BandType(k) = "wall" /\ Open(a, d))
    BY <2>4, WallBands DEF Open
  <2>6. F(k, a) = Facet(k, BandType(k), a, o, BandType(k) = "wall" /\ Open(a, d))
    BY <2>3, <2>5
  <2> QED
    BY <2>6 DEF Facing
<1> HIDE DEF F, G
<1>4. \A k \in Bands : {F(k, a) : a \in RingAzimuths} = {G(k, a) : a \in RingAzimuths}
  BY <1>3
<1>5. UNION {{F(k, a) : a \in RingAzimuths} : k \in Bands} = UNION {{G(k, a) : a \in RingAzimuths} : k \in Bands}
  <2> DEFINE FF(k) == {F(k, a) : a \in RingAzimuths}
             GG(k) == {G(k, a) : a \in RingAzimuths}
  <2>1. \A k \in Bands : FF(k) = GG(k)
    BY <1>4
  <2> HIDE DEF FF, GG
  <2>2. {FF(k) : k \in Bands} = {GG(k) : k \in Bands}
    BY <2>1
  <2>3. UNION {FF(k) : k \in Bands} = UNION {GG(k) : k \in Bands}
    BY <2>2
  <2> QED
    BY <2>3 DEF FF, GG
<1> QED
  BY <1>2, <1>5 DEF G

--------------------------------------------------------------------------------
(* The facets are counted: as many of each kind as there are surfaces of it.              *)
Counted(S, D, F, W) ==
  /\ \A s \in D :
       Cardinality({f \in F : <<f.kind, f.azimuth, f.orientation, f.window>>
                                = <<s.type, s.azimuth, OrientationForAzimuth(s.azimuth), W[s]>>})
         = Cardinality({t \in S : <<t.type, t.azimuth, W[t]>> = <<s.type, s.azimuth, W[s]>>})
  /\ Cardinality(F) = Cardinality(D)

LEMMA FacetsCounted ==
  ASSUME NEW S, NEW D, D \subseteq S, \A t \in S, s \in D : t.type = s.type => t \in D,
         NEW F, IsFiniteSet(F), NEW g \in [D -> F], NEW W,
         \A t \in D : /\ g[t].kind = t.type /\ g[t].azimuth = t.azimuth
                      /\ g[t].orientation = OrientationForAzimuth(t.azimuth) /\ g[t].window = W[t],
         \A s, t \in D : g[s] = g[t] => s = t,
         \A f \in F : \E s \in D : g[s] = f
  PROVE  Counted(S, D, F, W)
<1>1. Cardinality(D) = Cardinality(F)
  <2>1. \A s \in D : s \in D <=> g[s] \in F
    OBVIOUS
  <2> QED
    BY <2>1, Matching
<1>2. ASSUME NEW s \in D
      PROVE  Cardinality({f \in F : <<f.kind, f.azimuth, f.orientation, f.window>>
                                      = <<s.type, s.azimuth, OrientationForAzimuth(s.azimuth), W[s]>>})
               = Cardinality({t \in S : <<t.type, t.azimuth, W[t]>> = <<s.type, s.azimuth, W[s]>>})
  <2> DEFINE A == {t \in S : <<t.type, t.azimuth, W[t]>> = <<s.type, s.azimuth, W[s]>>}
             B == {f \in F : <<f.kind, f.azimuth, f.orientation, f.window>>
                               = <<s.type, s.azimuth, OrientationForAzimuth(s.azimuth), W[s]>>}
  <2>1. A \subseteq D /\ B \subseteq F
    OBVIOUS
  <2>2. \A t \in D : t \in A <=> t.type = s.type /\ t.azimuth = s.azimuth /\ W[t] = W[s]
    OBVIOUS
  <2>3. \A t \in D : g[t] \in B <=>
          /\ g[t].kind = s.type /\ g[t].azimuth = s.azimuth
          /\ g[t].orientation = OrientationForAzimuth(s.azimuth) /\ g[t].window = W[s]
    OBVIOUS
  <2> HIDE DEF A, B
  <2>4. \A t \in D : t \in A <=> g[t] \in B
    BY <2>2, <2>3
  <2>5. Cardinality(A) = Cardinality(B)
    BY <2>1, <2>4, Matching
  <2> QED
    BY <2>5 DEF A, B
<1> QED
  BY <1>1, <1>2 DEF Counted

LEMMA WallsCounted ==
  ASSUME NEW b, IsBuilding(b), NEW azimuths, IsFiniteSet(azimuths), WallsStand(b, azimuths), NEW d, NEW W,
         \A s \in b.surfaces : s.type = "wall" => W[s] = Open(s.azimuth, d)
  PROVE  Counted(b.surfaces, {t \in b.surfaces : t.type = "wall"},
                 {Facing(0, "wall", a, Open(a, d)) : a \in azimuths}, W)
<1> DEFINE S == b.surfaces
           D == {t \in S : t.type = "wall"}
           G(a) == Facing(0, "wall", a, Open(a, d))
           F == {G(a) : a \in azimuths}
           g == [t \in D |-> G(t.azimuth)]
<1>1. \A a : /\ G(a).kind = "wall" /\ G(a).azimuth = a
             /\ G(a).orientation = OrientationForAzimuth(a) /\ G(a).window = Open(a, d)
  BY FacetFields
<1> HIDE DEF G
<1>2. D \subseteq S /\ \A t \in S, s \in D : t.type = s.type => t \in D
  OBVIOUS
<1>3. \A t \in D : t.azimuth \in azimuths /\ t.type = "wall" /\ W[t] = Open(t.azimuth, d)
  BY DEF WallsStand
<1>4. \A s, t \in D : s.azimuth = t.azimuth => s = t
  BY DEF WallsStand, IsBuilding
<1>5. \A a \in azimuths : \E s \in D : s.azimuth = a
  BY DEF WallsStand
<1>6. IsFiniteSet(F)
  <2> DEFINE h == [a \in azimuths |-> G(a)]
  <2>1. \A y \in F : \E a \in azimuths : y = h[a]
    OBVIOUS
  <2> HIDE DEF h, F
  <2> QED
    BY <2>1, FiniteImage
<1> HIDE DEF D, S
<1>7. g \in [D -> F] /\ \A t \in D : g[t] = G(t.azimuth)
  BY <1>3
<1>8. \A f \in F : \E a \in azimuths : f = G(a)
  OBVIOUS
<1> HIDE DEF F, g
<1>9. \A t \in D : /\ g[t].kind = t.type /\ g[t].azimuth = t.azimuth
                   /\ g[t].orientation = OrientationForAzimuth(t.azimuth) /\ g[t].window = W[t]
  BY <1>1, <1>3, <1>7
<1>10. \A s, t \in D : g[s] = g[t] => s = t
  BY <1>4, <1>9
<1>11. \A f \in F : \E s \in D : g[s] = f
  BY <1>5, <1>7, <1>8
<1>12. Counted(S, D, F, W)
  BY <1>2, <1>6, <1>7, <1>9, <1>10, <1>11, FacetsCounted
<1> QED
  BY <1>12 DEF S, D, F, G

LEMMA Upto == IsFiniteSet(0..2) /\ IsFiniteSet(0..11)
<1>1. \A n \in Int : IsFiniteSet(0..n)
  BY FS_Interval
<1>2. 2 \in Int /\ 11 \in Int
  OBVIOUS
<1> QED
  BY <1>1, <1>2, Zenon

LEMMA RingIsFinite == IsFiniteSet(RingAzimuths)
<1> DEFINE ring == [k \in Sectors |-> SectorAzimuth(k)]
<1>1. IsFiniteSet(Sectors)
  BY Upto DEF Sectors
<1>2. \A a \in RingAzimuths : \E k \in Sectors : a = ring[k]
  BY RingSectors
<1> HIDE DEF ring
<1> QED
  BY <1>1, <1>2, FiniteImage

LEMMA QuartersAreFinite == IsFiniteSet(QuarterAzimuths)
<1> DEFINE side == [k \in 0..11 |-> 90 * k - 90]
<1>1. \A a \in QuarterAzimuths : \E k \in 0..11 : a = side[k]
  <2>1. side[0] = -90 /\ side[1] = 0 /\ side[2] = 90 /\ side[3] = 180
    BY SMT
  <2>2. 0 \in 0..11 /\ 1 \in 0..11 /\ 2 \in 0..11 /\ 3 \in 0..11
    OBVIOUS
  <2> HIDE DEF side
  <2> QED
    BY <2>1, <2>2 DEF QuarterAzimuths
<1> HIDE DEF side
<1> QED
  BY <1>1, Upto, FiniteImage

LEMMA BandsCounted ==
  ASSUME NEW b, IsBuilding(b), BandsStand(b), NEW d, DesignFits(d), NEW W,
         \A s \in b.surfaces : s.type # "floor" => W[s] = (s.type = "wall" /\ Open(s.azimuth, d))
  PROVE  Counted(b.surfaces, {t \in b.surfaces : t.type # "floor"}, DomeFacets(d), W)
<1> DEFINE S == b.surfaces
           D == {t \in S : t.type # "floor"}
           G(k, a) == Facing(k, BandType(k), a, BandType(k) = "wall" /\ Open(a, d))
           F == UNION {{G(k, a) : a \in RingAzimuths} : k \in Bands}
           g == [t \in D |-> G(t.id[2], t.azimuth)]
<1>1. \A k, a : /\ G(k, a).band = k /\ G(k, a).kind = BandType(k) /\ G(k, a).azimuth = a
                /\ G(k, a).orientation = OrientationForAzimuth(a)
                /\ G(k, a).window = (BandType(k) = "wall" /\ Open(a, d))
  BY FacetFields
<1> HIDE DEF G
<1>2. D \subseteq S /\ \A t \in S, s \in D : t.type = s.type => t \in D
  OBVIOUS
<1>3. \A t \in D : /\ t.id[2] \in Bands /\ t.azimuth \in RingAzimuths /\ t.type = BandType(t.id[2])
                   /\ W[t] = (t.type = "wall" /\ Open(t.azimuth, d))
  BY DEF BandsStand
<1>4. \A s, t \in D : s.id[2] = t.id[2] /\ s.azimuth = t.azimuth => s = t
  BY DEF BandsStand, IsBuilding
<1>5. \A k \in Bands, a \in RingAzimuths : \E s \in D : s.id[2] = k /\ s.azimuth = a
  BY DEF BandsStand
<1>6. \A f \in F : \E k \in Bands, a \in RingAzimuths : f = G(k, a)
  OBVIOUS
<1>7. \A k \in Bands, a \in RingAzimuths : G(k, a) \in F
  OBVIOUS
<1> HIDE DEF D, S, F
<1>8. IsFiniteSet(F)
  <2> DEFINE P == Bands \X RingAzimuths
             h == [x \in P |-> G(x[1], x[2])]
  <2>1. IsFiniteSet(Bands)
    BY Upto DEF Bands
  <2>2. IsFiniteSet(RingAzimuths)
    BY RingIsFinite
  <2>3. IsFiniteSet(P)
    BY <2>1, <2>2, FS_Product
  <2>4. \A y \in F : \E x \in P : y = h[x]
    <3> TAKE y \in F
    <3>1. PICK k \in Bands, a \in RingAzimuths : y = G(k, a)
      BY <1>6
    <3>2. <<k, a>> \in P /\ h[<<k, a>>] = G(k, a)
      OBVIOUS
    <3> QED
      BY <3>1, <3>2
  <2> HIDE DEF h, P
  <2> QED
    BY <2>3, <2>4, FiniteImage
<1>9. g \in [D -> F] /\ \A t \in D : g[t] = G(t.id[2], t.azimuth)
  BY <1>3, <1>7
<1> HIDE DEF g
<1>10. \A t \in D : /\ g[t].band = t.id[2] /\ g[t].kind = t.type /\ g[t].azimuth = t.azimuth
                    /\ g[t].orientation = OrientationForAzimuth(t.azimuth) /\ g[t].window = W[t]
  <2> TAKE t \in D
  <2>1. g[t] = G(t.id[2], t.azimuth) /\ t.type = BandType(t.id[2])
    BY <1>3, <1>9
  <2>2. g[t].window = (t.type = "wall" /\ Open(t.azimuth, d))
    BY <1>1, <2>1
  <2> QED
    BY <1>1, <1>3, <2>1, <2>2
<1>11. \A s, t \in D : g[s] = g[t] => s = t
  BY <1>4, <1>10
<1>12. \A f \in F : \E s \in D : g[s] = f
  <2> TAKE f \in F
  <2>1. PICK k \in Bands, a \in RingAzimuths : f = G(k, a)
    BY <1>6
  <2>2. PICK s \in D : s.id[2] = k /\ s.azimuth = a
    BY <1>5
  <2> QED
    BY <1>9, <2>1, <2>2
<1>13. Counted(S, D, F, W)
  BY <1>2, <1>8, <1>9, <1>10, <1>11, <1>12, FacetsCounted
<1>14. DomeFacets(d) = F
  BY DomeDrawn DEF F, G
<1> QED
  BY <1>13, <1>14 DEF S, D

LEMMA WindowedAsAsked ==
  ASSUME NEW b, IsBuilding(b), NEW d, NEW g, NEW on, GlazedAsAsked(b, d.wwr, g, on), NEW s \in b.surfaces
  PROVE  (\E w \in b.windows : w.host = s.id) <=> s.type = "wall" /\ Open(s.azimuth, d)
<1>1. \A t : Glass(t, d.wwr, g, on).host = t.id
  BY WindowFields DEF Glass
<1>2. \A t : Share(t, d.wwr) > 0 <=> Open(t.azimuth, d)
  BY DEF Share, Open
<1>3. ASSUME s.type = "wall", Open(s.azimuth, d)
      PROVE  \E w \in b.windows : w.host = s.id
  <2>1. Glass(s, d.wwr, g, on) \in b.windows
    BY <1>2, <1>3 DEF GlazedAsAsked
  <2> QED
    BY <1>1, <2>1
<1>4. ASSUME NEW w \in b.windows, w.host = s.id
      PROVE  s.type = "wall" /\ Open(s.azimuth, d)
  <2>1. PICK t \in b.surfaces : t.type = "wall" /\ Share(t, d.wwr) > 0 /\ w = Glass(t, d.wwr, g, on)
    BY DEF GlazedAsAsked
  <2>2. t.id = s.id
    BY <1>1, <1>4, <2>1
  <2>3. t = s
    BY <2>2 DEF IsBuilding
  <2> QED
    BY <1>2, <2>1, <2>3
<1> QED
  BY <1>3, <1>4

LEMMA LayersDrawn ==
  ASSUME NEW d, DesignFits(d), NEW type \in {"wall", "roof", "floor"}, NEW c,
         c = IF d[type] = KeepPreset THEN Stack(d.presetId, type) ELSE << d[type] >>
  PROVE  ResolveThickness(d[type], PresetThickness(d.presetId, type)) = StackThickness(c)
<1>1. CASE d[type] = KeepPreset
  BY <1>1 DEF ResolveThickness, PresetThickness, Stack
<1>2. CASE d[type] # KeepPreset
  <2>1. LayerFits(d[type])
    BY DEF DesignFits
  <2>2. d[type].thickness \in Int
    BY <1>2, <2>1 DEF LayerFits, Comes, Within
  <2>3. StackThickness(<< d[type] >>) = d[type].thickness
    BY <2>2, OneLayer
  <2> QED
    BY <1>2, <2>3 DEF ResolveThickness
<1> QED
  BY <1>1, <1>2

LEMMA SceneIsFaithful ==
  ASSUME DesignFits(design)
  PROVE  ViewerDrawsWhatIsSimulated
<1> DEFINE d == design
           r == Assemble(d)
           b == r.building
           scene == Scene(d)
           shape == Shape(d)
           Windowed(s) == \E w \in b.windows : w.host = s.id
           W == [s \in b.surfaces |-> Windowed(s)]
           Drawn(s) == s.type = "wall" \/ (shape = "dome" /\ s.type = "roof")
           D == {t \in b.surfaces : Drawn(t)}
<1>1. /\ IsBuilding(b) /\ GlazedAsAsked(b, d.wwr, d.glazingId, d.shutters)
  BY AssembledFits DEF IsRequest
<1>2. Seen(b, d)
  BY AssembledSeen
<1>3. d.shape \in {"box", "cylinder", "dome"} /\ Shape(d) = d.shape
  BY DEF DesignFits, Shape, Nothing
<1> HIDE DEF b, r
<1>4. \A s \in b.surfaces : W[s] = Windowed(s)
  OBVIOUS
<1>5. \A s \in b.surfaces : W[s] = (s.type = "wall" /\ Open(s.azimuth, d))
  <2> TAKE s \in b.surfaces
  <2> DEFINE p == Windowed(s)
             q == s.type = "wall" /\ Open(s.azimuth, d)
  <2>1. p <=> q
    BY <1>1, WindowedAsAsked
  <2>2. p \in BOOLEAN /\ q \in BOOLEAN
    OBVIOUS
  <2>3. W[s] = p
    BY <1>4
  <2> HIDE DEF p, q, W
  <2>4. p = q
    BY <2>1, <2>2, SameTruth
  <2> QED
    BY <2>3, <2>4 DEF q
<1> HIDE DEF W
<1>6. /\ scene.facets = CASE Shape(d) = "dome" -> DomeFacets(d)
                          [] Shape(d) = "cylinder" -> CylinderWalls(d)
                          [] OTHER -> BoxWalls(d)
      /\ scene.height = SceneHeight(d) /\ scene.rotation = -d.azimuth
      /\ scene.wall = ResolveThickness(d.wall, PresetThickness(d.presetId, "wall"))
      /\ scene.roof = ResolveThickness(d.roof, PresetThickness(d.presetId, "roof"))
      /\ scene.floor = ResolveThickness(d.floor, PresetThickness(d.presetId, "floor"))
  BY DEF Scene
<1> HIDE DEF scene
<1>7. Counted(b.surfaces, D, scene.facets, W)
  <2>1. \A s \in b.surfaces : s.type = "wall" => W[s] = Open(s.azimuth, d)
    <3> TAKE s \in b.surfaces
    <3> HAVE s.type = "wall"
    <3> DEFINE p == Open(s.azimuth, d)
    <3>1. W[s] = (s.type = "wall" /\ p)
      BY <1>5
    <3>2. p \in BOOLEAN
      BY DEF Open
    <3> HIDE DEF p
    <3>3. (s.type = "wall" /\ p) = p
      BY <3>2
    <3>4. W[s] = p
      BY <3>1, <3>3
    <3> QED
      BY <3>4 DEF p
  <2>2. CASE d.shape = "box"
    <3>1. D = {t \in b.surfaces : t.type = "wall"}
      BY <1>3, <2>2
    <3>2. scene.facets = {Facing(0, "wall", a, Open(a, d)) : a \in QuarterAzimuths}
      BY <1>3, <1>6, <2>2, BoxDrawn
    <3>3. WallsStand(b, QuarterAzimuths)
      BY <1>2, <2>2 DEF Seen, Stands
    <3>4. Counted(b.surfaces, {t \in b.surfaces : t.type = "wall"},
                  {Facing(0, "wall", a, Open(a, d)) : a \in QuarterAzimuths}, W)
      BY <1>1, <2>1, <3>3, QuartersAreFinite, WallsCounted
    <3> HIDE DEF D
    <3> QED
      BY <3>1, <3>2, <3>4
  <2>3. CASE d.shape = "cylinder"
    <3>1. D = {t \in b.surfaces : t.type = "wall"}
      BY <1>3, <2>3
    <3>2. scene.facets = {Facing(0, "wall", a, Open(a, d)) : a \in RingAzimuths}
      BY <1>3, <1>6, <2>3, CylinderDrawn
    <3>3. WallsStand(b, RingAzimuths)
      BY <1>2, <2>3 DEF Seen, Stands
    <3>4. Counted(b.surfaces, {t \in b.surfaces : t.type = "wall"},
                  {Facing(0, "wall", a, Open(a, d)) : a \in RingAzimuths}, W)
      BY <1>1, <2>1, <3>3, RingIsFinite, WallsCounted
    <3> HIDE DEF D
    <3> QED
      BY <3>1, <3>2, <3>4
  <2>4. CASE d.shape = "dome"
    <3> DEFINE bands == {t \in b.surfaces : t.type # "floor"}
    <3>1. D = bands
      <4>1. \A t \in b.surfaces : t.type \in {"wall", "roof", "floor"}
        BY <1>1 DEF IsBuilding, SurfaceFits, SurfaceTypes
      <4> QED
        BY <1>3, <2>4, <4>1
    <3>2. scene.facets = DomeFacets(d)
      BY <1>3, <1>6, <2>4
    <3>3. BandsStand(b)
      BY <1>2, <2>4 DEF Seen, Stands
    <3>4. \A s \in b.surfaces : s.type # "floor" => W[s] = (s.type = "wall" /\ Open(s.azimuth, d))
      BY <1>5
    <3>5. Counted(b.surfaces, bands, DomeFacets(d), W)
      BY <1>1, <3>3, <3>4, BandsCounted
    <3> HIDE DEF D, bands
    <3> QED
      BY <3>1, <3>2, <3>5
  <2> QED
    BY <1>3, <2>2, <2>3, <2>4
<1>8. scene.rotation = -b.azimuth
  BY <1>2, <1>6 DEF Seen
<1>9. (IF Shape(d) = "dome" THEN 3 ELSE 2) * b.volume = scene.height * (b.floorArea \div 10000)
  BY <1>2, <1>3, <1>6 DEF Seen, Tall
<1>10. ThicknessesMatch(scene, b)
  <2> USE DEF ThicknessesMatch
  <2> TAKE s \in b.surfaces
  <2> HAVE s.type # "wall" \/ OrientationForAzimuth(s.azimuth) = "S"
  <2>1. s.type \in {"wall", "roof", "floor"}
    BY <1>1 DEF IsBuilding, SurfaceFits, SurfaceTypes
  <2>2. s.construction = IF d[s.type] = KeepPreset THEN Stack(d.presetId, s.type) ELSE << d[s.type] >>
    BY <1>2 DEF Seen, FromDesign
  <2>3. ResolveThickness(d[s.type], PresetThickness(d.presetId, s.type)) = StackThickness(s.construction)
    BY <2>1, <2>2, LayersDrawn
  <2>4. scene[s.type] = ResolveThickness(d[s.type], PresetThickness(d.presetId, s.type))
    BY <1>6, <2>1
  <2> QED
    BY <2>3, <2>4
<1>11. \A s \in D :
         Cardinality({f \in scene.facets : <<f.kind, f.azimuth, f.orientation, f.window>>
                        = <<s.type, s.azimuth, OrientationForAzimuth(s.azimuth), Windowed(s)>>})
           = Cardinality({t \in b.surfaces : <<t.type, t.azimuth, Windowed(t)>> = <<s.type, s.azimuth, Windowed(s)>>})
  <2> TAKE s \in D
  <2> DEFINE B(v) == {f \in scene.facets : <<f.kind, f.azimuth, f.orientation, f.window>>
                        = <<s.type, s.azimuth, OrientationForAzimuth(s.azimuth), v>>}
             A(v) == {t \in b.surfaces : <<t.type, t.azimuth, W[t]>> = <<s.type, s.azimuth, v>>}
             Asked(v) == {t \in b.surfaces : <<t.type, t.azimuth, Windowed(t)>> = <<s.type, s.azimuth, v>>}
  <2>1. Cardinality(B(W[s])) = Cardinality(A(W[s]))
    BY <1>7 DEF Counted
  <2>2. W[s] = Windowed(s)
    BY <1>4
  <2>3. \A v : A(v) = Asked(v)
    BY <1>4
  <2> DEFINE v == Windowed(s)
  <2>4. W[s] = v
    BY <2>2
  <2> HIDE DEF A, B, Asked, v
  <2>5. Cardinality(B(v)) = Cardinality(Asked(v))
    BY <2>1, <2>3, <2>4
  <2> QED
    BY <2>5 DEF B, Asked, v
<1>12. Cardinality(scene.facets) = Cardinality(D)
  BY <1>7 DEF Counted
<1> HIDE DEF shape
<1>13. FacetsMatch(scene.facets, b, shape)
  BY <1>11, <1>12 DEF FacetsMatch
<1> HIDE DEF Windowed, Drawn, D
<1>14. /\ FacetsMatch(scene.facets, b, Shape(d)) /\ scene.rotation = -b.azimuth /\ ThicknessesMatch(scene, b)
       /\ (IF Shape(d) = "dome" THEN 3 ELSE 2) * b.volume = scene.height * (b.floorArea \div 10000)
  BY <1>8, <1>9, <1>10, <1>13 DEF shape
<1> QED
  BY <1>14 DEF ViewerDrawsWhatIsSimulated, b, r, scene

(* The scene next to the numbers is the building they are of: for every design the panel   *)
(* can be taken to, the viewer's facets face the ways the simulated surfaces face, as many  *)
(* of each, with an opening in exactly those that have a window, as high and as thick.     *)
THEOREM ViewerShowsWhatIsSimulated == PanelSpec => []ViewerDrawsWhatIsSimulated
<1>1. PanelInv => ViewerDrawsWhatIsSimulated
  BY SceneIsFaithful DEF PanelInv
<1> QED
  BY <1>1, PanelStarts, PanelKept, PTL DEF PanelSpec
================================================================================
