------------------------------ MODULE Integrator ------------------------------
(* integrate() of packages/engine/src/solve/integrator.ts, and the indices with which      *)
(* post/kpis.ts and index.ts read what it records.  The physics of one timestep is left    *)
(* to constants; what is kept is which weather, which hour's coefficients and which state  *)
(* every timestep is computed from, and how spin-up ends.                                  *)
(*                                                                                         *)
(* Time is counted in ticks: a timestep, a weather sample and an hour are whole numbers of *)
(* ticks.  Temperatures are whole numbers.                                                 *)
EXTENDS Integers, Sequences, FiniteSetsExt

CONSTANTS Node,       \* nodes of the model
          Air,        \* AIR_NODE
          HourTicks,  \* 3600 s
          Hours,      \* hours of a day: 24
          Six,        \* the clock hour of tempAt0600
          Solve(_, _, _), \* solveArrow(): the state after a step, without heating
          Unit,       \* unitAuxResponse: each node's response to a unit of heating
          Lowest, Highest, \* T_MIN_PLAUSIBLE, T_MAX_PLAUSIBLE
          Requests,   \* what may be asked
          None

DayTicks == Hours * HourTicks
State == [Node -> Int]

ASSUME IntegratorAssumption ==
  /\ Air \in Node /\ IsFiniteSet(Node) /\ HourTicks \in Nat \ {0} /\ Hours \in Nat \ {0, 1} /\ Six \in 0..(Hours - 1)
  /\ Lowest \in Int /\ Highest \in Int /\ Unit \in [Node -> Nat] /\ Unit[Air] > 0
  /\ \A r \in Requests : /\ r.dt \in 1..HourTicks /\ DayTicks % r.dt = 0
                         /\ r.stepTicks \in Nat \ {0} /\ r.T_amb \in Seq(Int) \ {<<>>}
                         /\ r.startHour \in Nat
                         /\ r.length \in Nat /\ r.length >= DayTicks
                         /\ r.maxSpinUpDays \in Nat /\ r.setpoint \in Int /\ r.maxPower \in Int
                         /\ r.seed = None \/ r.seed \in [DOMAIN r.seed -> Int]

VARIABLES request,
          pc,        \* where integrate() stands
          day, step, \* the counters of its loops
          T,
          before,    \* T at the start of the spin-up day
          prevDelta,
          coeffs,    \* the frozen coefficients: what they were computed from, and frozenHour
          converged,
          initialT, records

vars == <<request, pc, day, step, T, before, prevDelta, coeffs, converged, initialT, records>>

Errors == {"WEATHER_INVALID", "INVALID_INPUT", "SOLVER_DIVERGED"}

TypeOK == /\ request \in Requests
          /\ pc \in {"start", "spinUp", "report", "done"} \cup Errors
          /\ day \in 0..(request.maxSpinUpDays + request.length)
          /\ step \in 0..(DayTicks \div request.dt)
          /\ T \in State /\ before \in State /\ initialT \in State
          /\ prevDelta \in State \cup {None}
          /\ coeffs.hour \in -1..(Hours - 1)
          /\ converged \in BOOLEAN
          /\ Len(records) * request.dt < request.length + DayTicks

(* freezeCoefficients() has not been called today: frozenHour = -1, 319-320. *)
NotFrozen == [hour |-> -1]

Init == /\ request \in Requests
        /\ pc = "start" /\ day = 0 /\ step = 0
        /\ T = [n \in Node |-> 0] /\ before = T /\ initialT = T
        /\ prevDelta = None /\ coeffs = NotFrozen
        /\ converged = FALSE /\ records = <<>>

--------------------------------------------------------------------------------
(* precomputeEnvironment() and sample(), 134-141 and 418-475: the weather of a step. *)
Available == Len(request.T_amb) * request.stepTicks
MultiDay  == Available > DayTicks

Least(m, n) == IF m <= n THEN m ELSE n
Sample(at) == (at \div request.stepTicks) % Len(request.T_amb)
Interpolated(at) ==
  LET i == Sample(at)
      a == request.T_amb[i + 1]
      b == request.T_amb[Least(i + 1, Len(request.T_amb) - 1) + 1]
  IN a + ((b - a) * (at % request.stepTicks)) \div request.stepTicks

(* Which day's series a reported day runs on, 208 and 293. *)
OffsetAlwaysFirst(d) == 0
Offset(d) == IF d = 0 \/ ~MultiDay THEN 0 ELSE d * DayTicks

Environment(d, s) ==
  LET at == Offset(d) + s * request.dt
  IN [sample |-> Sample(at), T_amb |-> Interpolated(at),
      clock |-> (request.startHour + s * request.dt) % DayTicks]

(* freezeCoefficients() is called when the weather hour has changed, 335-340. *)
HourIndex(s) == (s * request.dt) \div HourTicks
Coefficients(env, s) ==
  IF coeffs.hour # HourIndex(s)
  THEN [hour |-> HourIndex(s), env |-> env, T |-> T] ELSE coeffs

(* Auxiliary heating, 345-358. *)
Heating(base) ==
  IF base[Air] < request.setpoint
  THEN Least(request.maxPower, (request.setpoint - base[Air]) \div Unit[Air]) ELSE 0

--------------------------------------------------------------------------------
Fail(code) == /\ pc' = code
              /\ UNCHANGED <<request, day, step, T, before, prevDelta, coeffs, converged, initialT, records>>

(* The start of a day, 319-328. *)
BeginDay(d, state) == /\ day' = d /\ step' = 0 /\ coeffs' = NotFrozen
                      /\ T' = state

BeginReportBaselineOfTheDay(state) == pc' = "report" /\ initialT' = before /\ BeginDay(0, state)
BeginReport(state) == pc' = "report" /\ initialT' = state /\ BeginDay(0, state)

(* 163-229. *)
Mean == [n \in Node |-> FoldFunctionOnSet(+, 0, request.T_amb, DOMAIN request.T_amb) \div Len(request.T_amb)]
Start ==
  /\ pc = "start"
  /\ LET seed == IF request.seed = None THEN Mean ELSE request.seed IN
     CASE MultiDay /\ Available < request.length -> Fail("WEATHER_INVALID")
       [] ~(MultiDay /\ Available < request.length) /\ DOMAIN seed # Node -> Fail("INVALID_INPUT")
       [] OTHER ->
            /\ before' = seed
            /\ IF request.maxSpinUpDays = 0
               THEN BeginReport(seed)
               ELSE pc' = "spinUp" /\ BeginDay(0, seed) /\ UNCHANGED initialT
            /\ UNCHANGED <<request, prevDelta, converged, records>>

(* One timestep of runOneDay(), 330-375. *)
Plausible(state) == \A n \in Node : Lowest <= state[n] /\ state[n] <= Highest

TimeStep ==
  /\ pc \in {"spinUp", "report"}
  /\ step * request.dt < DayTicks
  /\ LET env  == Environment(IF pc = "report" THEN day ELSE 0, step)
         c    == Coefficients(env, step)
         base == Solve(T, c, env)
         q    == Heating(base)
         next == [n \in Node |-> base[n] + q * Unit[n]]
     IN IF ~Plausible(next) THEN Fail("SOLVER_DIVERGED")
        ELSE /\ T' = next /\ coeffs' = c /\ step' = step + 1
             /\ records' = IF pc = "spinUp" THEN records
                  ELSE Append(records, [env |-> env, coeffs |-> [hour |-> c.hour, sample |-> c.env.sample],
                                        T |-> next, heat |-> [n \in Node |-> next[n] - T[n]]])
             /\ UNCHANGED <<request, pc, day, before, prevDelta, converged, initialT>>

--------------------------------------------------------------------------------
(* The end of a spin-up day, 236-279. *)
Abs(x) == IF x < 0 THEN -x ELSE x
SettledOnAir(delta) == Abs(delta[Air]) < request.tolerance
Settled(delta) == \A n \in Node : Abs(delta[n]) < request.tolerance

(* The extrapolation: the ratio rho = num / den of successive changes, when it lies       *)
(* between 0.05 and 0.999, and the jump by delta * rho / (1 - rho) of every node for which *)
(* that stays plausible.                                                                  *)
Dot(d, e) == FoldFunctionOnSet(+, 0, [n \in Node |-> d[n] * e[n]], Node)
Jump(delta) ==
  IF prevDelta = None THEN T
  ELSE LET num == Dot(delta, prevDelta)
           den == Dot(prevDelta, prevDelta)
           Guess(n) == T[n] + (delta[n] * num) \div (den - num)
       IN IF den > 0 /\ 20 * num > den /\ 1000 * num < 999 * den
          THEN [n \in Node |-> IF Lowest < Guess(n) /\ Guess(n) < Highest THEN Guess(n) ELSE T[n]]
          ELSE T

EndSpinUpDay ==
  /\ pc = "spinUp" /\ step * request.dt = DayTicks
  /\ LET delta == [n \in Node |-> T[n] - before[n]]
         next  == Jump(delta)
     IN IF Settled(delta)
        THEN /\ converged' = TRUE
             /\ BeginReport(T)
             /\ UNCHANGED <<before, prevDelta>>
        ELSE /\ prevDelta' = delta /\ before' = next
             /\ UNCHANGED converged
             /\ IF day + 1 = request.maxSpinUpDays
                THEN BeginReport(next)
                ELSE BeginDay(day + 1, next) /\ UNCHANGED <<pc, initialT>>
  /\ UNCHANGED <<request, records>>

(* The loop over the reported days, 286-301. *)
EndReportedDay ==
  /\ pc = "report" /\ step * request.dt = DayTicks
  /\ IF (day + 1) * DayTicks < request.length
     THEN BeginDay(day + 1, T) /\ UNCHANGED pc
     ELSE pc' = "done" /\ UNCHANGED <<day, step, T, coeffs>>
  /\ UNCHANGED <<request, before, prevDelta, converged, initialT, records>>

Next == Start \/ TimeStep \/ EndSpinUpDay \/ EndReportedDay
Spec == Init /\ [][Next]_vars

--------------------------------------------------------------------------------
(* What the results are read from.  Records are counted from 0, as in the code. *)
StepsPerDay == DayTicks \div request.dt
Days == Len(records) \div StepsPerDay

(* index.ts 185-196: the record of 06:00 on each day of a genuine multi-day run. *)
Rounded(m, n) == (2 * m + n) \div (2 * n)
Idx0600 == Rounded((Six * HourTicks - request.startHour + DayTicks) % DayTicks, request.dt) % StepsPerDay
TempAt0600PerDay == [d \in 0..(Days - 1) |-> Least(d * StepsPerDay + Idx0600, Len(records) - 1)]

--------------------------------------------------------------------------------
WholeDays == request.length % DayTicks = 0
SampleOfItsTime ==
  \A k \in DOMAIN records :
    LET at == (k - 1) * request.dt
        s  == records[k].env.sample
    IN IF ~MultiDay THEN s = Sample(at % DayTicks)
       ELSE WholeDays => s * request.stepTicks <= at /\ at < (s + 1) * request.stepTicks

(* Every step is solved with the coefficients of its own weather hour, frozen at the      *)
(* first step that falls into it.                                                         *)
IsFirstOfItsHour(f, s) ==
  HourIndex(f) = HourIndex(s) /\ \A i \in 0..s : HourIndex(i) = HourIndex(s) => f <= i
CoefficientsOfTheHour ==
  \A k \in DOMAIN records :
    LET s     == (k - 1) % StepsPerDay
        first == CHOOSE f \in 0..s : IsFirstOfItsHour(f, s)
    IN records[k].coeffs = [hour |-> HourIndex(s), sample |-> records[k - s + first].env.sample]

(* integrator.ts 211-225 and 255-270: a start that spin-up calls settled is the periodic   *)
(* state of the design day, from whatever seed (a reported design day changes no node by  *)
(* the tolerance), and an over-eager extrapolation corrects itself: a building whose      *)
(* day-to-day map contracts settles well before the cap, wherever its spin-up starts.     *)
StartIsPeriodic ==
  /\ converged /\ ~MultiDay /\ Len(records) >= StepsPerDay =>
       \A n \in Node : Abs(records[StepsPerDay].T[n] - initialT[n]) < request.tolerance
  /\ pc \in {"report", "done"} /\ request.maxSpinUpDays >= 10 => converged

(* integrator.ts 116-126: initialT is the baseline of the energy balance.  Whatever the   *)
(* weather and the number of days, it and the recorded heat add up to the final state.    *)
BalanceCloses ==
  pc = "done" => \A n \in Node :
    initialT[n] + FoldFunctionOnSet(+, 0, [k \in DOMAIN records |-> records[k].heat[n]], DOMAIN records) = T[n]

FromSix(c) == Abs(((c - Six * HourTicks + DayTicks + DayTicks \div 2) % DayTicks) - DayTicks \div 2)
SixIsSix ==
  pc = "done" /\ WholeDays => \A d \in DOMAIN TempAt0600PerDay :
    LET i == TempAt0600PerDay[d]
    IN i \div StepsPerDay = d /\ 2 * FromSix(records[i + 1].env.clock) <= request.dt

(* integrator.ts 163-169 and index.ts 174-184: the reported period advances through the   *)
(* weather, each record in the sample its own time falls into and none used twice (a      *)
(* single design day is the same on every day), and the entry of tempAt0600PerDay for a   *)
(* day is the record of that day within half a timestep of 06:00.  Every step is solved    *)
(* with the coefficients of its own weather hour, never with those of another one (337).  *)
RecordsFollowWeather == SampleOfItsTime /\ SixIsSix /\ CoefficientsOfTheHour
================================================================================
