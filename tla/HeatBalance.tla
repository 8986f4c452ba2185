------------------------------ MODULE HeatBalance ------------------------------
(* The physics of a timestep of packages/engine: the wall mesh (envelope/mesh.ts), the    *)
(* node graph (solve/assemble.ts), the coefficients frozen for an hour, the right-hand    *)
(* side, the auxiliary heating and the heat flows recorded (solve/integrator.ts 496-796), *)
(* and the energy balance drawn up from them (post/energyBalance.ts).                     *)
(*                                                                                        *)
(* Quantities are residues (LinearSolver.tla): every balance below is an identity of      *)
(* rational expressions.  What depends on temperature in any other way - film            *)
(* coefficients, air density, melting - is an input of the hour, `film'; comparisons of   *)
(* temperatures are choices.                                                              *)
EXTENDS LinearSolver

CONSTANTS House,        \* the buildings, by name
          Films,        \* what the coefficient formulas may yield in an hour
          Weather,      \* what a step may find outside
          Clocks,       \* where in its first hour a weather file may start, in steps
          Dt,           \* seconds of a timestep
          StepsPerHour, HoursPerDay, MaxSteps,
          SlabSoil,     \* SLAB_SOIL_CONDUCTANCE
          ToAir, ToFloor, \* SOLAR_TO_AIR_FRACTION, SOLAR_TO_FLOOR_FRACTION
          Setpoint, MaxPower,
          Seed          \* the temperature a run starts from

VARIABLES house, model, start, step, T, coeffs, records
vars == <<house, model, start, step, T, coeffs, records>>

AirNode == 1   \* AIR_NODE and STAR_NODE, counted from 1
StarNode == 2
Unfrozen == [hour |-> -1]

--------------------------------------------------------------------------------
(* buildWallMesh(): an edge per slice, a node on every face; a control volume gives half   *)
(* of its capacitance to the node on each side of it.                                      *)
Half(v) == Over(v, 2)
Mesh(con) ==
  LET edges == FlattenSeq([l \in DOMAIN con |-> [i \in 1..con[l].slices |-> con[l]]])
      n == Len(edges) + 1
      HalfC(e) == IF e \in DOMAIN edges THEN Half(Times(edges[e].rhoc, edges[e].dx)) ELSE 0
  IN [n |-> n, C |-> [i \in 1..n |-> Plus(HalfC(i - 1), HalfC(i))],
      U |-> [e \in DOMAIN edges |-> Over(edges[e].k, edges[e].dx)]]

(* buildModel(): air, star, the chains from outside to inside, the storage elements. *)
OpaqueArea(s) == Minus(s.area, Total([w \in DOMAIN s.windows |-> s.windows[w].area]))
BuildModel(b) ==
  LET mesh == [s \in DOMAIN b.surfaces |-> Mesh(b.surfaces[s].construction)]
      first[s \in 1..(Len(b.surfaces) + 1)] == IF s = 1 THEN 3 ELSE first[s - 1] + mesh[s - 1].n
      nodes(s) == first[s]..(first[s + 1] - 1)
      fabric == first[Len(b.surfaces) + 1]
      n == fabric + Len(b.storage) - 1
      area == [s \in DOMAIN b.surfaces |-> OpaqueArea(b.surfaces[s])]
      Hosting(i) == CHOOSE s \in DOMAIN b.surfaces : i \in nodes(s)
      floors == {s \in DOMAIN b.surfaces : b.surfaces[s].type = "floor"}
  IN [n |-> n, mesh |-> mesh, area |-> area,
      first |-> [s \in DOMAIN mesh |-> first[s]], last |-> [s \in DOMAIN mesh |-> first[s + 1] - 1],
      store |-> [k \in DOMAIN b.storage |-> fabric + k - 1],
      C |-> [i \in 1..n |-> CASE i \in {AirNode, StarNode} -> 0
               [] i >= fabric -> b.storage[i - fabric + 1].capacity
               [] OTHER -> LET s == Hosting(i) IN Times(mesh[s].C[i - first[s] + 1], area[s])],
      floors |-> floors,
      floorArea |-> Total([s \in DOMAIN area |-> IF s \in floors THEN area[s] ELSE 0]), interiorArea |-> Total(area)]

B == House[house]
M == model
Surfaces == DOMAIN B.surfaces
Nodes == 1..M.n
Faces(boundary) == {s \in Surfaces : B.surfaces[s].boundary = boundary}

(* The clock hour, for schedules and shutters, and the weather hour, for coefficients. *)
Clock(i) == ((start + i) \div StepsPerHour) % HoursPerDay
HourIndex(i) == i \div StepsPerHour

(* loads/windows.ts. *)
ShutterClosed(w, clock) == clock \in w.shut
EffectiveU(w, closed) == IF closed THEN Over(1, Plus(Over(1, w.U), w.shutterR)) ELSE w.U
Transmitted(w, incident, iam, closed) ==
  IF closed THEN 0 ELSE Times(Times(w.area, w.SHGC), Times(iam, incident))

OnFaces(S, Op(_)) == Total([s \in Surfaces |-> IF s \in S THEN Op(s) ELSE 0])
OnWindows(Op(_, _)) ==
  Total([s \in Surfaces |-> Total([w \in DOMAIN B.surfaces[s].windows |-> Op(s, B.surfaces[s].windows[w])])])
Sunlight(env, clock) ==
  OnWindows(LAMBDA s, w : Transmitted(w, env.incident[s], env.iam, ShutterClosed(w, clock)))

--------------------------------------------------------------------------------
(* freezeCoefficients(): the conductances of the hour and the factorised network. *)
Conductances(film, clock) ==
  [hoA     |-> [s \in Surfaces |-> IF s \in Faces("exterior") THEN Times(film.ho, M.area[s]) ELSE 0],
   hrSkyA  |-> [s \in Surfaces |-> IF s \in Faces("exterior") THEN Times(film.sky, M.area[s]) ELSE 0],
   groundA |-> [s \in Surfaces |-> IF s \in Faces("ground") THEN Times(Times(SlabSoil, M.area[s]), B.bridge) ELSE 0],
   hiA     |-> [s \in Surfaces |-> Times(film.hi[B.surfaces[s].type], M.area[s])],
   hrIA    |-> [s \in Surfaces |-> Times(Times(film.hr, B.surfaces[s].emissivity), M.area[s])],
   windowG |-> OnWindows(LAMBDA s, w : Times(EffectiveU(w, ShutterClosed(w, clock)), w.area)),
   infiltrationG |-> film.infiltration,
   cAir    |-> film.air,
   storageC |-> [k \in DOMAIN B.storage |-> IF B.storage[k].kind = "pcm" THEN film.melting ELSE B.storage[k].capacity]]

(* The star's row would be empty where nothing radiates. *)
TieStarToAir == \A s \in Surfaces : B.surfaces[s].emissivity = 0

Chain(g, s) ==
  LET n == M.mesh[s].n
      U(e) == IF e \in 1..(n - 1) THEN Times(Times(M.mesh[s].U[e], M.area[s]), B.bridge) ELSE 0
      Outside(i) == IF i = 1 THEN Plus(Plus(g.hoA[s], g.hrSkyA[s]), g.groundA[s]) ELSE 0
      Inside(i)  == IF i = n THEN Plus(g.hiA[s], g.hrIA[s]) ELSE 0
  IN [offset |-> M.first[s], hiA |-> g.hiA[s], hrIA |-> g.hrIA[s],
      diag |-> [i \in 1..n |-> Plus(Plus(Over(M.C[M.first[s] + i - 1], Dt), Plus(U(i - 1), U(i))),
                                    Plus(Outside(i), Inside(i)))],
      sup |-> [i \in 1..n |-> Minus(0, U(i))], sub |-> [i \in 1..n |-> Minus(0, U(i - 1))]]

StorageChain(g, k) ==
  [offset |-> M.store[k], hiA |-> B.storage[k].conductance, hrIA |-> 0, sub |-> <<0>>, sup |-> <<0>>,
   diag |-> << Plus(Over(g.storageC[k], Dt), B.storage[k].conductance) >>]

Chains(g) == [s \in Surfaces |-> Chain(g, s)] \o [k \in DOMAIN B.storage |-> StorageChain(g, k)]
DAir(g) == Plus(Plus(Over(g.cAir, Dt), Plus(g.infiltrationG, g.windowG)),
                Plus(Total(g.hiA), Total([k \in DOMAIN B.storage |-> B.storage[k].conductance])))
DStar(g) == Total(g.hrIA)

FreezeCoefficients(film, i) ==
  LET g == Conductances(film, Clock(i))
      f == FactorArrow(Chains(g), DAir(g), DStar(g), TieStarToAir)
  IN [hour |-> HourIndex(i), g |-> g, factors |-> f,
      unit |-> IF f = Singular THEN <<>> ELSE SolveArrow(f, [j \in Nodes |-> IF j = AirNode THEN 1 ELSE 0], AirNode, StarNode)]

--------------------------------------------------------------------------------
(* buildRhs() and distributeTransmittedSolar(). *)
CapacitySeeded(g) == [M.C EXCEPT ![AirNode] = g.cAir]
Capacity(g) ==
  [i \in Nodes |-> CASE i = AirNode -> g.cAir
                     [] i \in {M.store[k] : k \in DOMAIN B.storage} -> g.storageC[i - M.store[1] + 1]
                     [] OTHER -> M.C[i]]

SolarShare(s, sunlight) ==
  LET floorShare == IF M.floors = {} THEN 0 ELSE Times(ToFloor, sunlight)
      spread == Minus(Minus(sunlight, floorShare), Times(ToAir, sunlight))
  IN Plus(IF s \in M.floors THEN Over(Times(floorShare, M.area[s]), M.floorArea) ELSE 0,
          Over(Times(spread, M.area[s]), M.interiorArea))

Absorbed(s, env) == Times(Times(B.surfaces[s].absorptivity, env.incident[s]), M.area[s])

BuildRhs(env, g, clock) ==
  LET sunlight == Sunlight(env, clock)
      Stored(i) == Times(Over(Capacity(g)[i], Dt), T[i])
      ToRoom == Plus(Plus(Times(Plus(g.infiltrationG, g.windowG), env.ambient), env.gains), Times(ToAir, sunlight))
      Outside(s) == IF s \in Faces("exterior")
                    THEN Plus(Absorbed(s, env), Plus(Times(g.hoA[s], env.ambient), Times(g.hrSkyA[s], env.sky)))
                    ELSE Times(g.groundA[s], env.ground)
      At(i, ends, Op(_)) == OnFaces({s \in Surfaces : ends[s] = i}, Op)
  IN [i \in Nodes |->
        CASE i = StarNode -> 0
          [] i = AirNode -> Plus(Stored(AirNode), ToRoom)
          [] OTHER -> Plus(Stored(i), Plus(At(i, M.first, Outside),
                                           At(i, M.last, LAMBDA s : SolarShare(s, sunlight))))]

(* record(): the heat flows, from the temperatures just solved. *)
Record(env, g, clock, t, qAux) ==
  LET Ext(s) == t[M.first[s]]
      Inside(s) == t[M.last[s]]
  IN [T  |-> t,
      Q1 |-> OnFaces(Faces("exterior"), LAMBDA s : Absorbed(s, env)),
      Q2 |-> Sunlight(env, clock),
      Q3 |-> OnFaces(Faces("exterior"), LAMBDA s : Times(g.hoA[s], Minus(env.ambient, Ext(s)))),
      Q4 |-> OnFaces(Faces("exterior"), LAMBDA s : Times(g.hrSkyA[s], Minus(env.sky, Ext(s)))),
      Q5 |-> OnFaces(Surfaces, LAMBDA s : Times(Times(M.mesh[s].U[M.mesh[s].n - 1], M.area[s]),
                                                 Minus(t[M.last[s] - 1], Inside(s)))),
      Q6 |-> OnFaces(Surfaces, LAMBDA s : Times(g.hiA[s], Minus(Inside(s), t[AirNode]))),
      Q7 |-> OnFaces(Surfaces, LAMBDA s : Times(g.hrIA[s], Minus(t[StarNode], Inside(s)))),
      Q8 |-> Times(g.windowG, Minus(env.ambient, t[AirNode])),
      Q9 |-> Times(g.infiltrationG, Minus(env.ambient, t[AirNode])),
      Q10 |-> OnFaces(Faces("ground"), LAMBDA s : Times(g.groundA[s], Minus(env.ground, Ext(s)))),
      Q11 |-> env.gains, Qaux |-> qAux]

--------------------------------------------------------------------------------
(* A timestep of runOneDay(), 330-375.  Whether the room is below its setpoint and how    *)
(* far the heater is from its limit are comparisons: off, at the limit, or just enough.   *)
Heating(base, unit) ==
  IF B.heated THEN {0, MaxPower, Over(Minus(Setpoint, base[AirNode]), unit[AirNode])} ELSE {0}

TimeStep ==
  /\ step < MaxSteps
  /\ IF coeffs.hour = HourIndex(step) THEN UNCHANGED coeffs
     ELSE \E film \in Films : coeffs' = FreezeCoefficients(film, step)
  /\ coeffs'.factors # Singular
  /\ \E env \in Weather :
       LET base == SolveArrow(coeffs'.factors, BuildRhs(env, coeffs'.g, Clock(step)), AirNode, StarNode)
       IN \E q \in Heating(base, coeffs'.unit) :
            /\ T' = [i \in Nodes |-> Plus(base[i], Times(q, coeffs'.unit[i]))]
            /\ records' = Append(records, Record(env, coeffs'.g, Clock(step), T', q))
  /\ step' = step + 1
  /\ UNCHANGED <<house, model, start>>

Init == /\ house \in DOMAIN House /\ start \in Clocks
        /\ model = BuildModel(House[house])
        /\ step = 0 /\ coeffs = Unfrozen /\ records = <<>>
        /\ T = [i \in 1..model.n |-> Seed]
Next == TimeStep
Spec == Init /\ [][Next]_vars

--------------------------------------------------------------------------------
(* energyBalance() with the flows that cross the boundary; the enthalpy of a melting      *)
(* element, which is not a rational expression, is left out.                              *)
Boundary(r) ==
  Total(<<r.Q1, r.Q2, r.Q3, r.Q4, r.Q8, r.Q9, r.Q10, r.Q11, r.Qaux>>)
EnergyBalance(rs, capacitance, airCapacitance, initialT, finalT) ==
  LET c == [capacitance EXCEPT ![AirNode] = airCapacitance]
      net == Total([k \in DOMAIN rs |-> Times(Boundary(rs[k]), Dt)])
      deltaStored == Total([i \in DOMAIN c |-> Times(c[i], Minus(finalT[i], initialT[i]))])
  IN Minus(net, deltaStored)

(* driveWall() of envelope/response.ts: one step of a wall between prescribed faces. *)
DriveWall(mesh, t, exterior, interior) ==
  LET m == mesh.n - 2
      Cap(i) == Over(mesh.C[i + 1], Dt)
      Given(i) == Plus(IF i = 1 THEN Times(mesh.U[1], exterior) ELSE 0,
                       IF i = m THEN Times(mesh.U[m + 1], interior) ELSE 0)
      solved == Thomas([i \in 1..m |-> IF i = 1 THEN 0 ELSE Minus(0, mesh.U[i])],
                       [i \in 1..m |-> Plus(Cap(i), Plus(mesh.U[i], mesh.U[i + 1]))],
                       [i \in 1..m |-> IF i = m THEN 0 ELSE Minus(0, mesh.U[i + 1])],
                       [i \in 1..m |-> Plus(Times(Cap(i), t[i + 1]), Given(i))])
  IN IF solved = Singular THEN Singular ELSE <<exterior>> \o solved.x \o <<interior>>

--------------------------------------------------------------------------------
(* energyBalance.ts 8-22: the flows across the boundary are what the nodes store, in      *)
(* every step and over the run; flows between nodes cancel.  A run whose air capacity      *)
(* changed from hour to hour, or with a melting element, is balanced step by step only.   *)
StoredIn(r, before, c) == Total([i \in DOMAIN c |-> Over(Times(c[i], Minus(r.T[i], before[i])), Dt)])
StepBalances ==
  LET r == Last(records)
      before == IF Len(records) = 1 THEN [i \in Nodes |-> Seed] ELSE records[Len(records) - 1].T
  IN Boundary(r) = StoredIn(r, before, Capacity(coeffs.g))
RunBalances ==
  (\A k \in DOMAIN B.storage : B.storage[k].kind # "pcm") /\ (\A f \in Films : f.air = coeffs.g.cAir) =>
    EnergyBalance(records, M.C, coeffs.g.cAir, [i \in Nodes |-> Seed], T) = 0

(* integrator.ts 562-570: radiation between the faces only moves heat about, and where    *)
(* nothing radiates the radiant temperature is the air's.                                 *)
RadiationCancels == LET r == Last(records) IN r.Q7 = 0 /\ (TieStarToAir => r.T[StarNode] = r.T[AirNode])

HeatIsConserved == records # <<>> => StepBalances /\ RunBalances /\ RadiationCancels

(* mesh.ts 14-28: slicing a wall changes neither its capacity nor its resistance. *)
MeshKeepsWall ==
  \A s \in Surfaces :
    LET con == B.surfaces[s].construction  mesh == M.mesh[s]
        Depth(l) == Times(con[l].slices, con[l].dx)
    IN /\ Total(mesh.C) = Total([l \in DOMAIN con |-> Times(con[l].rhoc, Depth(l))])
       /\ Total([e \in DOMAIN mesh.U |-> Over(1, mesh.U[e])]) = Total([l \in DOMAIN con |-> Over(Depth(l), con[l].k)])

(* schur.ts 7-30: the arrow solver solves the matrix it never builds, and so does the     *)
(* dense one it replaced.                                                                 *)
ArrowSolves ==
  coeffs # Unfrozen =>
    LET g == coeffs.g
        a == ArrowMatrix(Chains(g), DAir(g), DStar(g), TieStarToAir, AirNode, StarNode, M.n)
        x == SolveArrow(coeffs.factors, T, AirNode, StarNode)
    IN Solves(a, x, T) /\ LuSolve(LuFactor(a), T) = x

(* response.ts 44-79: every inner node of a driven wall is in balance with its neighbours. *)
DrivenWallBalances ==
  \A s \in Surfaces :
    LET mesh == M.mesh[s]
        t == [i \in 1..mesh.n |-> T[M.first[s] + i - 1]]
        x == DriveWall(mesh, t, t[1], T[AirNode])
    IN x # Singular => \A i \in 2..(mesh.n - 1) :
         Times(Over(mesh.C[i], Dt), Minus(x[i], t[i])) =
           Plus(Times(mesh.U[i - 1], Minus(x[i - 1], x[i])), Times(mesh.U[i], Minus(x[i + 1], x[i])))

SolversAgree == MeshKeepsWall /\ ArrowSolves /\ DrivenWallBalances
================================================================================
