-------------------------------- MODULE RunCache --------------------------------
(* POST /api/simulate (apps/web/app/api/simulate/route.ts) and the cache of runs it      *)
(* keeps in the database (apps/web/lib/repo/runs.ts), while new engine versions are      *)
(* deployed and old processes still drain.                                               *)
(*                                                                                       *)
(* simulate() is deterministic, so what it computes for a request is named by the engine *)
(* version that computed it: a row's `kpis` (and meta, always written with it) is the    *)
(* version whose numbers the row holds, `full` the same for fullResult.                  *)
CONSTANTS RunPosts,  \* POSTs
          Hash,      \* canonicalRequestHash() values
          HashOf,    \* HashOf[a]: the hash of the request in POST a
          Malformed, \* POSTs the route turns away before it reads the cache
          Unsolved,  \* POSTs whose answer is an error: Malformed, or simulate() throws
          Version,   \* engine versions (packages/engine/package.json)
          None

VARIABLES row,     \* the SimulationRun table: at most one row per requestHash
          engine,  \* ENGINE_VERSION of the process that accepts requests
          stage,   \* where the handler of each POST stands
          by,      \* ENGINE_VERSION of the process that runs it
          answer   \* the response: whose numbers, and in which shape

runVars == <<row, engine, stage, by, answer>>

Row    == [kpis : Version, engineVersion : Version, full : Version \cup {None}]
Answer == [shape : {"result"}, of : Version] \cup [shape : {"kpis"}, of : Version]
            \cup [shape : {"error"}, of : {"error"}]

ASSUME RunCacheAssumption ==
  /\ Malformed \subseteq Unsolved /\ Unsolved \subseteq RunPosts
  /\ HashOf \in [RunPosts -> Hash]
  /\ \A a, b \in RunPosts \ Malformed : HashOf[a] = HashOf[b] => (a \in Unsolved <=> b \in Unsolved)
  /\ None \notin Version \cup Answer /\ "error" \notin Version

TypeOK == /\ row \in [Hash -> Row \cup {None}]
          /\ engine \in Version
          /\ stage \in [RunPosts -> {"idle", "reading", "writing", "answered"}]
          /\ by \in [RunPosts -> Version \cup {None}]
          /\ answer \in [RunPosts -> Answer \cup {None}]

RunInit == /\ row = [h \in Hash |-> None]
           /\ engine \in Version
           /\ stage = [a \in RunPosts |-> "idle"]
           /\ by = [a \in RunPosts |-> None]
           /\ answer = [a \in RunPosts |-> None]

Respond(a, shape, of) == /\ stage' = [stage EXCEPT ![a] = "answered"]
                         /\ answer' = [answer EXCEPT ![a] = [shape |-> shape, of |-> of]]

--------------------------------------------------------------------------------
(* readRun() and readFullRun(), 92-116: a row of another engine version is a miss. *)
UngatedRow(h, v) == IF row[h] # None THEN {row[h]} ELSE {}
HitRow(h, v) == IF row[h] # None /\ row[h].engineVersion = v THEN {row[h]} ELSE {}

(* writeRun(), 132-167: an upsert.  Its update leaves fullResult out unless it has one. *)
WriteRun(h, v, storeFull) ==
  row' = [row EXCEPT ![h] =
            [kpis |-> v, engineVersion |-> v,
             full |-> IF storeFull THEN v ELSE IF row[h] = None THEN None ELSE row[h].full]]

(* withDb(): with no database, or when the query fails, a write does nothing. *)
RunNotWritten == UNCHANGED row

--------------------------------------------------------------------------------
(* The route, 84-131, up to the read of the cache: a body that is too large, no JSON or no     *)
(* SimulationRequest is answered at once.                                                *)
PostRun(a) ==
  /\ stage[a] = "idle"
  /\ by' = [by EXCEPT ![a] = engine]
  /\ \/ a \in Malformed /\ Respond(a, "error", "error")
     \/ /\ a \notin Malformed
        /\ stage' = [stage EXCEPT ![a] = "reading"]
        /\ UNCHANGED answer
  /\ UNCHANGED <<row, engine>>

(* readRun() hits: the response is the cached kpis and meta only. *)
Hit(a) ==
  /\ stage[a] = "reading"
  /\ \E r \in HitRow(HashOf[a], by[a]) : Respond(a, "kpis", r.kpis)
  /\ UNCHANGED <<row, engine, by>>

(* readRun() finds no row of this version, or the database fails it: simulate(). *)
MissUncaught(a, dbFails) ==
  /\ stage[a] = "reading"
  /\ dbFails \/ HitRow(HashOf[a], by[a]) = {}
  /\ a \notin Unsolved /\ stage' = [stage EXCEPT ![a] = "writing"]
  /\ UNCHANGED <<row, engine, by, answer>>
Miss(a, dbFails) ==
  /\ stage[a] = "reading"
  /\ dbFails \/ HitRow(HashOf[a], by[a]) = {}
  /\ \/ a \in Unsolved /\ Respond(a, "error", "error")
     \/ /\ a \notin Unsolved
        /\ stage' = [stage EXCEPT ![a] = "writing"]
        /\ UNCHANGED answer
  /\ UNCHANGED <<row, engine, by>>

(* await writeRun(request, result, false), then the response. *)
StoreAndRespond(a) ==
  /\ stage[a] = "writing"
  /\ WriteRun(HashOf[a], by[a], FALSE) \/ RunNotWritten
  /\ Respond(a, "result", by[a])
  /\ UNCHANGED <<engine, by>>

--------------------------------------------------------------------------------
(* The other uses the module offers, both in a process of the current version: a run     *)
(* whose full result is kept (119-124: "the main chart wants everything"), and the purge *)
(* of the rows of other versions, 169-177.                                               *)
StoreFull(h) ==
  /\ \E a \in RunPosts \ Unsolved : HashOf[a] = h
  /\ WriteRun(h, engine, TRUE)
  /\ UNCHANGED <<engine, stage, by, answer>>

PurgeRunsForOtherVersions ==
  /\ row' = [h \in Hash |-> IF row[h] # None /\ row[h].engineVersion # engine
                            THEN None ELSE row[h]]
  /\ UNCHANGED <<engine, stage, by, answer>>

(* A release or a rollback: new requests go to processes of another version, the others  *)
(* finish what they accepted.                                                            *)
Release(v) == engine # v /\ engine' = v /\ UNCHANGED <<row, stage, by, answer>>

RunNext == \/ \E a \in RunPosts : \/ PostRun(a) \/ Hit(a) \/ StoreAndRespond(a)
                                  \/ \E dbFails \in BOOLEAN : Miss(a, dbFails)
           \/ \E h \in Hash : StoreFull(h)
           \/ PurgeRunsForOtherVersions
           \/ \E v \in Version : Release(v)

(* Node runs a handler it has begun to its response. *)
Fairness == \A a \in RunPosts : WF_runVars(Hit(a) \/ Miss(a, FALSE) \/ StoreAndRespond(a))

RunSpec == RunInit /\ [][RunNext]_runVars /\ Fairness

--------------------------------------------------------------------------------
(* db.ts: the database is a cache, never a dependency.  Whatever it holds, loses or      *)
(* fails, and whatever is deployed meanwhile, each POST is answered with its own         *)
(* process's numbers.                                                                    *)
Numbers == INSTANCE SimulateService
             WITH Ask <- RunPosts,
                  reply <- [a \in RunPosts |-> IF answer[a] = None THEN None ELSE answer[a].of]
AnswersAsIfUncached == Numbers!Spec

(* A POST that has been accepted is answered, with or without a database. *)
EveryPostAnswered == \A a \in RunPosts : stage[a] = "reading" ~> stage[a] = "answered"

================================================================================
