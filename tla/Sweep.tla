--------------------------------- MODULE Sweep ---------------------------------
(* runSweep() of packages/optimise/src/sweep.ts: the variants of a request are given to    *)
(* an injected runner one after the other, and the first converged state of each group of  *)
(* equal thermal mass seeds the spin-up of the others.                                     *)
EXTENDS Integers, Sequences, SequencesExt, FiniteSets, TLC

CONSTANTS Insulation, \* materials of category 'insulation'
          Structural, \* ... of category 'structural'
          Storage,    \* the kinds ("water", "pcm") with a material of category 'storage'
          Dx,         \* the slice each material's mesh asks for: min(targetDx, dxWave)
          Base,       \* the request the variants are made from
          Sweeps,     \* what may be asked: [variables, maxVariants]
          AchFloor,   \* computeAchFloor()
          Metric      \* values of the primary metric

VARIABLES sweep,    \* the request
          expanded, \* expandVariants(req)
          spinUpCache,
          inflight, \* what the runner is working on: at most one variant
          variants, \* those evaluated so far
          aborted,  \* the caller's signal
          outcome,  \* how the promise of runSweep stands
          best

sweepVars == <<sweep, expanded, spinUpCache, inflight, variants, aborted, outcome, best>>

--------------------------------------------------------------------------------
(* Design variants: expandVariants() of packages/optimise/src/sweep.ts and what it does   *)
(* to a copy of the base request.  Of a SimulationRequest only the parts a variable may   *)
(* change are kept: the layers of a wall, a roof and a floor, one facade's window, the    *)
(* storage elements and the air-change rate.  Lengths are whole even numbers, areas are   *)
(* whole numbers and a window-to-wall ratio is a percentage.                              *)

SurfaceType == {"wall", "roof", "floor"}
Material    == Insulation \cup Structural
Layer       == [material : Material, thickness : Nat]

--------------------------------------------------------------------------------
(* The appliers.  swapStructuralMaterial() and applyInsulationThickness(), 81-116. *)
EachLayer(con, Op(_)) == [i \in DOMAIN con |-> Op(con[i])]
SwapStructural(con, m) ==
  EachLayer(con, LAMBDA l : IF l.material \in Structural THEN [l EXCEPT !.material = m] ELSE l)
InsulationThickness(con, t) ==
  EachLayer(con, LAMBDA l : IF l.material \in Insulation THEN [l EXCEPT !.thickness = t] ELSE l)
Thicken(con) == EachLayer(con, LAMBDA l : [l EXCEPT !.thickness = 2 * @])

(* reorderInsulation(), 125-147: in a cavity the mass stands in two leaves, and a single  *)
(* remaining layer is split in halves.                                                    *)
Of(con, materials) ==
  FoldLeft(LAMBDA kept, l : IF l.material \in materials THEN Append(kept, l) ELSE kept, <<>>, con)
Halves(l) == << [l EXCEPT !.thickness = @ \div 2], [l EXCEPT !.thickness = @ \div 2] >>
LeavesWhole(rest) == rest \o rest
Leaves(rest) == IF Len(rest) = 1 THEN Halves(rest[1]) ELSE rest

ReorderInsulation(con, position) ==
  LET ins  == Of(con, Insulation)
      rest == Of(con, Material \ Insulation)
      two  == Leaves(rest)
      mid  == (Len(two) + 1) \div 2
  IN IF ins = <<>> THEN con
     ELSE CASE position = "outside" -> ins \o rest
            [] position = "inside"  -> rest \o ins
            [] position = "cavity"  -> SubSeq(two, 1, mid) \o ins \o SubSeq(two, mid + 1, Len(two))

(* applyWwr(), 166-196. *)
Wwr(r, value) == [r EXCEPT !.window = (value * (r.area + @)) \div 100]

(* applyMassStrategy(), 260-315: the only wall stands in for the most southern one. *)
MassStrategy(r, kind) ==
  CASE kind = "none"   -> [r EXCEPT !.storage = {}]
    [] kind = "floor"  -> [r EXCEPT !.layers["floor"] = Thicken(@)]
    [] kind = "trombe" -> [r EXCEPT !.layers["wall"] = Thicken(@)]
    [] OTHER           -> [r EXCEPT !.storage = {kind}]

OnSurfaces(r, types, Op(_)) ==
  [r EXCEPT !.layers = [t \in SurfaceType |-> IF t \in types THEN Op(@[t]) ELSE @[t]]]

(* choicesForSpec(), 321-356.  An azimuth, a glazing, an aspect ratio or shutters change  *)
(* nothing that is kept here.                                                             *)
Choose(r, kind, v) ==
  CASE kind = "wallConstruction"    -> OnSurfaces(r, {"wall"}, LAMBDA c : SwapStructural(c, v))
    [] kind = "roofConstruction"    -> OnSurfaces(r, {"roof"}, LAMBDA c : SwapStructural(c, v))
    [] kind = "insulationThickness" -> OnSurfaces(r, SurfaceType, LAMBDA c : InsulationThickness(c, v))
    [] kind = "insulationPosition"  -> OnSurfaces(r, SurfaceType \ {"floor"}, LAMBDA c : ReorderInsulation(c, v))
    [] kind = "wwr"                 -> Wwr(r, v)
    [] kind = "massStrategy"        -> MassStrategy(r, v)
    [] kind = "ach"                 -> [r EXCEPT !.ach = v]
    [] OTHER                        -> r

(* What the appliers look up must exist: requireMaterial(), 52-62, and                    *)
(* findStorageMaterialId(), 247-258.                                                      *)
Applicable(kind, v) ==
  CASE kind \in {"wallConstruction", "roofConstruction"} -> v \in Material
    [] kind = "massStrategy" -> v \in {"none", "floor", "trombe"} \cup Storage
    [] OTHER -> TRUE

--------------------------------------------------------------------------------
(* expandVariants(), 369-393.  The odometer: the last variable turns fastest. *)
Zeros(specs) == [s \in DOMAIN specs |-> 0]
Turn(specs, ix) ==
  LET room == {s \in DOMAIN ix : ix[s] + 1 < Len(specs[s].values)}
  IN [s \in DOMAIN ix |-> IF \E t \in room : t > s THEN ix[s]
                          ELSE IF s \in room THEN ix[s] + 1 ELSE 0]

Smaller(m, n) == IF m <= n THEN m ELSE n
Total(specs) == FoldLeft(LAMBDA n, spec : n * Len(spec.values), 1, specs)
Count(asked) == IF asked.maxVariants < 0 THEN 0 ELSE Smaller(asked.maxVariants, Total(asked.variables))

Indices(asked) ==
  LET ix[i \in 1..Count(asked)] ==
        IF i = 1 THEN Zeros(asked.variables) ELSE Turn(asked.variables, ix[i - 1])
  IN ix

Variant(base, specs, ix) ==
  FoldLeft(LAMBDA r, s : Choose(r, specs[s].kind, specs[s].values[ix[s] + 1]),
           base, [s \in DOMAIN specs |-> s])

ExpandVariants(base, asked) ==
  LET ix == Indices(asked)
  IN [i \in 1..Count(asked) |->
        [choice |-> ix[i], request |-> Variant(base, asked.variables, ix[i])]]

(* A value that cannot be applied to one of the variants within the cap fails them all. *)
Expands(asked) ==
  LET specs == asked.variables
      ix    == Indices(asked)
  IN \A i \in 1..Count(asked) : \A s \in DOMAIN specs :
       Applicable(specs[s].kind, specs[s].values[ix[i][s] + 1])

--------------------------------------------------------------------------------
(* What the engine makes of a variant.  sliceCount() and buildWallMesh() of              *)
(* envelope/mesh.ts, buildModel() of solve/assemble.ts: an air and a star node, a chain   *)
(* for each surface, a node for each storage element.                                     *)
SliceCount(l) ==
  LET n == (l.thickness + Dx[l.material] - 1) \div Dx[l.material]
  IN IF n < 2 THEN 2 ELSE Smaller(80, n)
ChainLength(con) == FoldLeft(LAMBDA n, l : n + SliceCount(l), 1, con)
NodeCount(r) == 2 + ChainLength(r.layers["wall"]) + ChainLength(r.layers["roof"])
                  + ChainLength(r.layers["floor"]) + (IF r.storage = {} THEN 0 ELSE 1)
Buildable(r) == r.window < r.area

--------------------------------------------------------------------------------
(* What a client can ask for: candidates for a structural layer are no insulation           *)
(* (constructions.ts 3-9), and every list is finite.                                      *)
IsList(s) == Len(s) \in Nat /\ DOMAIN s = 1..Len(s)
MayBeAsked(kind, v) ==
  /\ kind \in {"wallConstruction", "roofConstruction"} => v \notin Insulation
  /\ kind = "insulationPosition" => v \in {"inside", "outside", "cavity"}
  /\ kind \in {"insulationThickness", "wwr", "ach"} => v \in Nat
Request == [layers : [SurfaceType -> Seq(Layer)], area : Nat, window : Nat,
            storage : SUBSET Storage, ach : Nat]

ASSUME SweepAssumption ==
  /\ Insulation \cap Structural = {}
  /\ Base \in Request
  /\ \A t \in SurfaceType : \A i \in DOMAIN Base.layers[t] : Base.layers[t][i].thickness % 2 = 0
  /\ \A asked \in Sweeps :
       /\ asked.maxVariants \in Int /\ IsList(asked.variables)
       /\ \A s \in DOMAIN asked.variables :
            LET spec == asked.variables[s]
            IN IsList(spec.values) /\ \A i \in DOMAIN spec.values : MayBeAsked(spec.kind, spec.values[i])

--------------------------------------------------------------------------------
NoRun == [index |-> 0, seed |-> 0, keepWarmState |-> FALSE]
Evaluated == [index : Nat, metric : Metric, feasible : BOOLEAN]

SweepTypeOK == /\ sweep \in Sweeps
               /\ \A i \in DOMAIN expanded : LET r == expanded[i].request IN
                    /\ \A s \in SurfaceType : r.layers[s] \in Seq(Layer)
                    /\ r.window \in Nat /\ r.ach \in Nat
                    /\ r.storage \subseteq Storage
               /\ inflight \in [index : 0..Len(expanded), seed : Nat, keepWarmState : BOOLEAN]
               /\ variants \in Seq(Evaluated)
               /\ Len(variants) <= Len(expanded)
               /\ \A k \in DOMAIN spinUpCache : spinUpCache[k] \in Nat \ {0}
               /\ aborted \in BOOLEAN
               /\ outcome \in {"idle", "running", "resolved", "AbortError", "rejected"}
               /\ best \in 0..Len(expanded)

SweepInit == /\ sweep \in Sweeps
             /\ expanded = <<>>
             /\ spinUpCache = <<>>
             /\ inflight = NoRun
             /\ variants = <<>>
             /\ aborted = FALSE
             /\ outcome = "idle"
             /\ best = 0

--------------------------------------------------------------------------------
(* massAffectingHash(), 402-410. *)
MassByMaterial(r) == <<[t \in SurfaceType |-> [i \in DOMAIN r.layers[t] |-> r.layers[t][i].material]], r.storage>>
MassAffectingHash(r) == <<r.layers, r.storage>>

(* Seed and options of the next variant, 524-548. *)
RunOf(ex, i, cache) ==
  LET key == MassAffectingHash(ex[i].request)
      hit == key \in DOMAIN cache
  IN [index |-> i, seed |-> IF hit THEN cache[key] ELSE 0, keepWarmState |-> ~hit]

(* The end, 587-594: a stable sort by the primary metric, then the first feasible one. *)
Before(v, w) == v.metric < w.metric \/ (v.metric = w.metric /\ v.index < w.index)
Ordered(vs) == SetToSortSeq(ToSet(vs), Before)
BestFirst(vs) == Head(Ordered(vs)).index
Best(vs) == LET ranked == Ordered(vs)
                fits   == SelectSeq(ranked, LAMBDA v : v.feasible)
            IN IF fits # <<>> THEN Head(fits).index ELSE Head(ranked).index

(* The head of the loop, 519-522, reached at the start and again in the same turn in      *)
(* which the runner's last answer is taken in.                                            *)
Loop(ex, cache, vs) ==
  CASE Len(vs) = Len(ex) /\ ex = <<>> ->
         outcome' = "rejected" /\ inflight' = NoRun /\ UNCHANGED best
    [] Len(vs) = Len(ex) /\ ex # <<>> ->
         outcome' = "resolved" /\ inflight' = NoRun /\ best' = Best(vs)
    [] Len(vs) < Len(ex) /\ aborted ->
         outcome' = "AbortError" /\ inflight' = NoRun /\ UNCHANGED best
    [] OTHER ->
         outcome' = "running" /\ inflight' = RunOf(ex, Len(vs) + 1, cache) /\ UNCHANGED best

RunSweep ==
  /\ outcome = "idle"
  /\ \/ /\ Expands(sweep)
        /\ expanded' = ExpandVariants(Base, sweep)
        /\ Loop(expanded', spinUpCache, variants)
     \/ /\ ~Expands(sweep)
        /\ outcome' = "rejected"
        /\ UNCHANGED <<expanded, inflight, best>>
  /\ UNCHANGED <<sweep, spinUpCache, variants, aborted>>

(* integrate(), 192-202: a seed of another length is INVALID_INPUT; buildModel() refuses  *)
(* a window that fills its wall.                                                          *)
Rejects(run) ==
  LET r == expanded[run.index].request
  IN ~Buildable(r) \/ (run.seed # 0 /\ run.seed # NodeCount(r))

(* The runner answers and the variant is recorded, 549-584. *)
Resolves ==
  /\ inflight # NoRun /\ ~Rejects(inflight)
  /\ \E m \in Metric :
       LET i     == inflight.index
           r     == expanded[i].request
           key   == MassAffectingHash(r)
           cache == [k \in DOMAIN spinUpCache \cup {key} |->
                       IF k \in DOMAIN spinUpCache THEN spinUpCache[k] ELSE NodeCount(r)]
       IN /\ spinUpCache' = cache
          /\ variants' = Append(variants, [index |-> i, metric |-> m, feasible |-> r.ach >= AchFloor])
          /\ Loop(expanded, cache, variants')
  /\ UNCHANGED <<sweep, expanded, aborted>>

(* The engine refuses the variant, or the worker behind the runner fails. *)
Fails ==
  /\ inflight # NoRun
  /\ outcome' = "rejected"
  /\ inflight' = NoRun
  /\ UNCHANGED <<sweep, expanded, spinUpCache, variants, aborted, best>>

Abort == /\ ~aborted /\ outcome \in {"idle", "running"}
         /\ aborted' = TRUE
         /\ UNCHANGED <<sweep, expanded, spinUpCache, inflight, variants, outcome, best>>

SweepNext == RunSweep \/ Resolves \/ Fails \/ Abort

(* The promise of the runner settles (that of a WorkerPool does: EveryTaskSettles there). *)
SweepSpec == SweepInit /\ [][SweepNext]_sweepVars /\ WF_sweepVars(Resolves \/ Fails)

--------------------------------------------------------------------------------
(* The choice of the last variable varies fastest, whatever lists are empty or of length 1. *)
Digit(specs, s, i) ==
  LET later == FoldLeft(LAMBDA n, t : IF t > s THEN n * Len(specs[t].values) ELSE n, 1,
                        [t \in DOMAIN specs |-> t])
  IN ((i - 1) \div later) % Len(specs[s].values)
PrefixOfProduct ==
  /\ \A i \in DOMAIN expanded : \A s \in DOMAIN sweep.variables :
       expanded[i].choice[s] = Digit(sweep.variables, s, i)
  /\ \A i, j \in DOMAIN expanded : expanded[i].choice = expanded[j].choice => i = j

Thickness(con, m) == FoldLeft(LAMBDA n, l : IF l.material = m THEN n + l.thickness ELSE n, 0, con)
OnlyPositionDiffers(c, d) ==
  \A s \in DOMAIN sweep.variables : c[s] # d[s] => sweep.variables[s].kind = "insulationPosition"
PositionKeepsThickness ==
  \A i, j \in DOMAIN expanded : OnlyPositionDiffers(expanded[i].choice, expanded[j].choice) =>
    \A t \in SurfaceType, m \in Material :
      Thickness(expanded[i].request.layers[t], m) = Thickness(expanded[j].request.layers[t], m)

(* sweep.ts 362-368 and 118-123: the expansion is what the variables ask for.  It is the    *)
(* prefix of their product, and two variants that differ only in where the insulation     *)
(* sits have the same thickness of every material on every surface, whatever was applied  *)
(* before and after it, hence the same steady-state U-value.                              *)
ExpansionIsFaithful == PrefixOfProduct /\ PositionKeepsThickness

(* sweep.ts 436-442: a seed is handed only to a variant with as many nodes as the one it  *)
(* came from, so no sweep fails on its own cache.                                         *)
SeedFitsMesh == inflight.seed # 0 => inflight.seed = NodeCount(expanded[inflight.index].request)

BestIsFeasible ==
    LET feasible == {i \in DOMAIN variants : variants[i].feasible}
        rivals   == IF feasible # {} THEN feasible ELSE DOMAIN variants
    IN best \in rivals /\ \A i \in rivals : variants[best].metric <= variants[i].metric

(* A sweep ends, cancelled or not, at the latest when the runner has answered once more    *)
(* for each variant left, and one that ran through names as best a feasible variant if    *)
(* there is one, which nothing feasible beats (587-594).                                  *)
SweepSettles ==
  outcome = "running" ~> \/ outcome = "resolved" /\ BestIsFeasible
                         \/ outcome \in {"AbortError", "rejected"}
================================================================================
