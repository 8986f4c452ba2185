----------------------------- MODULE MCIntegrator -----------------------------
(* The loops of integrate(), the physics of its steps and the days that are cut from a     *)
(* record to run it on, each by itself: `mode' says which, the others stand still.        *)
(*                                                                                        *)
(* The loops: days of four hours of three ticks, a light air node and a heavy wall that   *)
(* follow the ambient temperature, and requests that differ in timestep, weather, seed    *)
(* and cap.  The physics: three houses of different fabric, an hour of two steps, a day   *)
(* of three hours, and numbers picked to have nothing to do with each other.  The record: *)
(* every sequence of up to five days of six kinds, in a year of six days and three months.*)
EXTENDS Integrator, LinearSolver, TLC
CONSTANTS air, wall, ceiling,
          Dt, StepsPerHour, HoursPerDay, MaxSteps, Clocks,
          SlabSoil, ToAir, ToFloor, Setpoint, MaxPower, Seed

VARIABLES mode, house, model, begins, at, temperature, frozen, recorded,
          annual, location

Nodes == {air, wall}
Response == [n \in Nodes |-> IF n = air THEN 2 ELSE 0]

(* The air exchanges with the ambient and the wall, the wall with the air. *)
MCSolve(t, c, env) ==
  [n \in Nodes |->
     IF n = air THEN t[air] + ((env.T_amb + c.env.T_amb - 2 * t[air]) * 8 + (t[wall] - t[air]) * 12) \div 64
                ELSE t[wall] + ((t[air] - t[wall]) * 4) \div 64]

Frozen == -50

OneDay   == <<40, 160, 200, 80>>
TwoDays  == <<40, 160, 200, 80, 0, 60, 120, 20>>
HalfMore == <<40, 160, 200, 80, 0, 60>>
Scorched == <<0, 40, 700, 400>>
Finer    == <<40, 100, 160, 180, 200, 140, 80, 60, 20, 0, 40, 60>>

Cold == [n \in Nodes |-> 0]
Warm == [n \in Nodes |-> IF n = air THEN 300 ELSE 100]
Other == [n \in {air, wall, ceiling} |-> 100]

Ask(amb, st, dt, len, cap, seed, start) ==
  [T_amb |-> amb, stepTicks |-> st, dt |-> dt, length |-> len, maxSpinUpDays |-> cap, seed |-> seed,
   startHour |-> start, tolerance |-> 4, setpoint |-> 90, maxPower |-> 3]

Asked ==
  {Ask(OneDay, 3, dt, len, cap, seed, start) :
     dt \in {1, 2, 3}, len \in {12, 24}, cap \in {0, 3, 12}, seed \in {None, Cold, Warm, Other}, start \in {0, 7}}
  \cup {Ask(TwoDays, 3, dt, len, 12, None, start) : dt \in {1, 2, 3}, len \in {12, 24, 36}, start \in {0, 4}}
  \cup {Ask(Scorched, 3, dt, 12, 12, None, 0) : dt \in {1, 3}}
  \cup {Ask(HalfMore, 3, dt, 18, 12, Cold, 0) : dt \in {1, 3}}
  \cup {Ask(Finer, 2, dt, 24, 12, Warm, 0) : dt \in {1, 2}}

--------------------------------------------------------------------------------
Brick   == [slices |-> 2, k |-> 17, dx |-> 23, rhoc |-> 1201]
Foam    == [slices |-> 2, k |-> 5, dx |-> 11, rhoc |-> 307]
Shuttered == [U |-> 28, shutterR |-> 19, shut |-> {0}, area |-> 13, SHGC |-> 61]
Bare      == [U |-> 17, shutterR |-> 1, shut |-> {}, area |-> 7, SHGC |-> 31]
Face(type, boundary, construction, area, windows) ==
  [type |-> type, boundary |-> boundary, construction |-> construction, area |-> area,
   windows |-> windows, emissivity |-> 91, absorptivity |-> 71]
South == Face("wall", "exterior", <<Brick, Foam>>, 101, <<Shuttered, Bare>>)
Lid   == Face("roof", "exterior", <<Foam>>, 57, <<>>)
Slab  == Face("floor", "ground", <<Brick>>, 59, <<>>)
Shared == Face("wall", "adiabatic", <<Brick>>, 43, <<>>)
Dull(face) == [face EXCEPT !.emissivity = 0]
Drum == [kind |-> "water", capacity |-> 4187, conductance |-> 33]
Wax  == [kind |-> "pcm", capacity |-> 911, conductance |-> 21]

MCHouse ==
  [hut   |-> [surfaces |-> <<South, Lid, Slab>>, storage |-> <<Drum>>, bridge |-> 113, heated |-> FALSE],
   cell  |-> [surfaces |-> <<Dull(South), Dull(Shared)>>, storage |-> <<>>, bridge |-> 1, heated |-> TRUE],
   vault |-> [surfaces |-> <<South, Shared, Slab>>, storage |-> <<Drum, Wax>>, bridge |-> 1, heated |-> FALSE]]

Film(v) ==
  [ho |-> 10 + v, sky |-> 4 + v, hi |-> [wall |-> 3 + v, roof |-> 6 - v, floor |-> 2 * v + 1], hr |-> 5 + v,
   infiltration |-> 29 + v, air |-> 1213, melting |-> 911 + 100 * v]
Outdoors(v) ==
  [ambient |-> 260 - v, sky |-> 230 - v, ground |-> 279, gains |-> 80 + v, iam |-> 9 - v,
   incident |-> [s \in 1..3 |-> v * (100 + s)]]

Physics == INSTANCE HeatBalance
  WITH House <- MCHouse, Films <- {Film(0), Film(2)}, Weather <- {Outdoors(0), Outdoors(5)},
       start <- begins, step <- at, T <- temperature, coeffs <- frozen, records <- recorded

--------------------------------------------------------------------------------
(* By clock hour, in degrees and hundreds of W/m2: the days of a record are clear and cold *)
(* by day, clear with the coldest night, not quite clear, overcast and cold, overcast and  *)
(* mild, or warm.                                                                        *)
Sun == [h \in 0..23 |-> CASE h = 12 -> 10 [] h = 18 -> 5 [] OTHER -> 0]
DayKinds ==
  LET Day(t0, t6, t12, t18, g12, g18) ==
        [T_amb |-> (0 :> t0 @@ 6 :> t6 @@ 12 :> t12 @@ 18 :> t18), GHI |-> (0 :> 0 @@ 6 :> 0 @@ 12 :> g12 @@ 18 :> g18)]
  IN {Day(-6, -6, -3, -5, 8, 4), Day(-8, -3, 0, -2, 7, 4), Day(-7, -4, -4, -5, 6, 3),
      Day(-3, -3, -2, -3, 2, 2), Day(0, 1, 2, 1, 3, 1), Day(1, 3, 5, 4, 9, 4)}
NoRecord(start, startDay) ==
  [stepHours |-> 6, startHour |-> start, startDayOfYear |-> startDay, T_amb |-> << >>, GHI |-> << >>]

Record == INSTANCE Scenarios
  WITH MonthEnds <- <<2, 4, 6>>, Overhead <- Sun, Locations <- {"leh"}, OvercastGhi <- 25, ClearSkyKt <- 60,
       WinterPercent <- 40, NightEndHour <- 6

physicsVars == <<house, model, begins, at, temperature, frozen, recorded>>
MCInit ==
  /\ mode \in {"loops", "physics", "record"}
  /\ Init /\ (mode # "loops" => request = CHOOSE r \in Requests : TRUE)
  /\ Physics!Init /\ (mode # "physics" => house = "hut" /\ begins = 0)
  /\ annual \in {NoRecord(0, 1), NoRecord(6, 4)} /\ location \in {"leh", "nowhere"}
  /\ mode # "record" => annual.startHour = 0 /\ location = "leh"
recordVars == <<annual, location>>
Loops == mode = "loops" /\ Next /\ UNCHANGED <<mode, physicsVars, recordVars>>
PhysicsStep == mode = "physics" /\ Physics!Next /\ UNCHANGED <<mode, vars, recordVars>>
(* A record grows by a day of some kind, and may end in the middle of one. *)
Grows(kind, samples) ==
  LET Hourly(f) == [i \in 1..samples |-> kind[f][(annual.startHour + 6 * (i - 1)) % 24]]
  IN annual' = [annual EXCEPT !.T_amb = @ \o Hourly("T_amb"), !.GHI = @ \o Hourly("GHI")]
RecordStep ==
  /\ mode = "record" /\ location = "leh" /\ Len(annual.T_amb) % 4 = 0
  /\ \E kind \in DayKinds :
       \/ Len(annual.T_amb) < 20 /\ Grows(kind, 4)
       \/ Len(annual.T_amb) = 8 /\ Grows(kind, 2)
  /\ UNCHANGED <<mode, vars, physicsVars, location>>
MCNext == Loops \/ PhysicsStep \/ RecordStep
MCSpec == MCInit /\ [][MCNext]_<<mode, vars, physicsVars, recordVars>>

(* HeatBalance.tla: every step's equations are solved, by the fast solver, the dense one   *)
(* it replaced and the one of a single wall, over a mesh that keeps its wall (schur.ts     *)
(* 7-30); and what crosses the boundary is then what the nodes store, in every step and    *)
(* over the run (energyBalance.ts 8-22).                                                  *)
StepSolvesItsBalance == Physics!SolversAgree /\ Physics!HeatIsConserved

(* Scenarios.tla: the days cut from a record are, as they are cut, what they were chosen    *)
(* for (scenarios.ts 5-9, 411-416).                                                       *)
ScenariosAreOfTheRecord == mode = "record" => Record!ScenariosAreOfTheRecord(annual, location)
================================================================================
