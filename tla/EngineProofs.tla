------------------------------ MODULE EngineProofs ------------------------------
(* Proofs about the engine's time loop.                                                    *)
(*                                                                                         *)
(* integrate(): whatever solves a timestep, and for every length of day, hour, timestep    *)
(* and weather sample, each record is of the weather and the coefficients of its own time, *)
(* and the balance of a report closes.                                                     *)
EXTENDS Integrator, SweepProofs

--------------------------------------------------------------------------------
(* The sums of FoldFunctionOnSet(+, 0, f, S).                                              *)
Adds(it, f, S) ==
  /\ it \in [SUBSET S -> Int]
  /\ \A s \in SUBSET S : it[s] = IF s = {} THEN 0 ELSE LET x == CHOOSE x \in s : TRUE IN f[x] + it[s \ {x}]

LEMMA SumIsAdded ==
  ASSUME NEW S, IsFiniteSet(S), NEW f, \A x \in S : f[x] \in Int
  PROVE  \E it : Adds(it, f, S) /\ FoldFunctionOnSet(+, 0, f, S) = it[S]
<1> DEFINE Body(g) == [s \in SUBSET S |-> IF s = {} THEN 0 ELSE LET x == CHOOSE x \in s : TRUE IN f[x] + g[s \ {x}]]
           it == CHOOSE g : g = Body(g)
           ch == [s \in SUBSET S |-> CHOOSE x \in s : TRUE]
           op == [x \in S |-> [v \in Int |-> f[x] + v]]
<1>1. \A s \in SUBSET S : s # {} => ch[s] \in s
  OBVIOUS
<1>2. \A x \in S : \A v \in Int : op[x][v] \in Int
  OBVIOUS
<1>3. \E g \in [SUBSET S -> Int] :
        \A s \in SUBSET S : g[s] = IF s = {} THEN 0 ELSE op[ch[s]][g[s \ {ch[s]}]]
  <2> DEFINE V == Int
             a == 0
  <2>1. a \in V
    OBVIOUS
  <2>2. Combines(op, S, V)
    BY <1>2 DEF Combines
  <2>3. Picks(ch, S)
    BY <1>1 DEF Picks
  <2> HIDE DEF ch, op, V, a
  <2>4. \E g : Iterates(g, S, V, a, ch, op)
    BY <2>1, <2>2, <2>3, FoldExists
  <2> QED BY <2>4 DEF V, a, Iterates
<1>4. PICK g \in [SUBSET S -> Int] :
        \A s \in SUBSET S : g[s] = IF s = {} THEN 0 ELSE op[ch[s]][g[s \ {ch[s]}]]
  BY <1>3
<1>5. ASSUME NEW s \in SUBSET S, s # {}
      PROVE  g[s] = f[ch[s]] + g[s \ {ch[s]}]
  <2>1. ch[s] \in S /\ g[s \ {ch[s]}] \in Int
    BY <1>1, <1>5
  <2>2. op[ch[s]][g[s \ {ch[s]}]] = f[ch[s]] + g[s \ {ch[s]}]
    <3> HIDE DEF ch
    <3> QED BY <2>1
  <2> HIDE DEF op, ch
  <2> QED BY <1>4, <1>5, <2>2
<1>6. g = Body(g)
  <2>1. ASSUME NEW s \in SUBSET S PROVE g[s] = Body(g)[s]
    <3>1. CASE s = {}
      BY <1>4, <3>1
    <3>2. CASE s # {}
      <4>1. g[s] = f[ch[s]] + g[s \ {ch[s]}]
        BY <1>5, <3>2
      <4>2. ch[s] = CHOOSE x \in s : TRUE
        OBVIOUS
      <4> QED BY <3>2, <4>1, <4>2
    <3> QED BY <3>1, <3>2
  <2> QED BY <2>1
<1>7. it = Body(it)
  BY <1>6
<1> HIDE DEF it
<1>8. \A s \in SUBSET S : it[s] = IF s = {} THEN 0 ELSE f[ch[s]] + it[s \ {ch[s]}]
  BY <1>7
<1>9. it = g
  <2> DEFINE E == {k \in Nat : \A s \in SUBSET S : Cardinality(s) <= k => it[s] = g[s]}
  <2>0. \A s \in SUBSET S : IsFiniteSet(s) /\ Cardinality(s) \in Nat
    BY FS_Subset, FS_CardinalityType
  <2>1. 0 \in E
    <3> SUFFICES ASSUME NEW s \in SUBSET S, Cardinality(s) <= 0 PROVE it[s] = g[s]
      OBVIOUS
    <3>1. s = {}
      BY <2>0, FS_EmptySet
    <3> QED BY <3>1, <1>4, <1>8
  <2>2. ASSUME NEW k \in E PROVE k + 1 \in E
    <3> SUFFICES ASSUME NEW s \in SUBSET S, Cardinality(s) <= k + 1 PROVE it[s] = g[s]
      OBVIOUS
    <3>1. CASE s = {}
      BY <3>1, <1>4, <1>8
    <3>2. CASE s # {}
      <4>1. ch[s] \in s /\ IsFiniteSet(s)
        BY <1>1, <2>0, <3>2
      <4>2. Cardinality(s \ {ch[s]}) = Cardinality(s) - 1
        BY <4>1, FS_RemoveElement
      <4>3. s \ {ch[s]} \in SUBSET S /\ Cardinality(s \ {ch[s]}) <= k
        BY <4>2, <2>0
      <4>4. it[s \ {ch[s]}] = g[s \ {ch[s]}]
        BY <4>3
      <4> HIDE DEF ch
      <4> QED BY <4>4, <3>2, <1>5, <1>8
    <3> QED BY <3>1, <3>2
  <2>3. E = Nat
    <3>1. E \in SUBSET Nat
      OBVIOUS
    <3> HIDE DEF E
    <3> QED BY <2>1, <2>2, <3>1, Induct
  <2>4. \A s \in SUBSET S : it[s] = g[s]
    BY <2>0, <2>3
  <2>5. it = [s \in SUBSET S |-> it[s]]
    BY <1>7
  <2> QED BY <2>4, <2>5
<1>10. Adds(it, f, S)
  <2>1. it \in [SUBSET S -> Int]
    BY <1>9
  <2>2. \A s \in SUBSET S : it[s] = IF s = {} THEN 0 ELSE LET x == CHOOSE x \in s : TRUE IN f[x] + it[s \ {x}]
    BY <1>7
  <2> QED BY <2>1, <2>2 DEF Adds
<1>11. FoldFunctionOnSet(+, 0, f, S) = it[S]
  BY DEF it, FoldFunctionOnSet, MapThenFoldSet
<1> QED BY <1>10, <1>11

(* A sum depends on what is added alone.                                                   *)
LEMMA SumsAgree ==
  ASSUME NEW S, IsFiniteSet(S), NEW f, NEW it, Adds(it, f, S),
         NEW U, IsFiniteSet(U), NEW g, NEW jt, Adds(jt, g, U),
         NEW u \in SUBSET (S \cap U), \A x \in u : f[x] = g[x]
  PROVE  it[u] = jt[u]
<1> DEFINE E == {k \in Nat : \A s \in SUBSET u : Cardinality(s) <= k => it[s] = jt[s]}
<1>0. \A s \in SUBSET u : IsFiniteSet(s) /\ Cardinality(s) \in Nat
  BY FS_Subset, FS_CardinalityType
<1>1. 0 \in E
  <2> SUFFICES ASSUME NEW s \in SUBSET u, Cardinality(s) <= 0 PROVE it[s] = jt[s]
    OBVIOUS
  <2>1. s = {}
    BY <1>0, FS_EmptySet
  <2> QED BY <2>1 DEF Adds
<1>2. ASSUME NEW k \in E PROVE k + 1 \in E
  <2> SUFFICES ASSUME NEW s \in SUBSET u, Cardinality(s) <= k + 1, s # {} PROVE it[s] = jt[s]
    BY DEF Adds
  <2> DEFINE x == CHOOSE x \in s : TRUE
  <2>1. x \in s
    OBVIOUS
  <2>2. it[s] = f[x] + it[s \ {x}] /\ jt[s] = g[x] + jt[s \ {x}]
    BY DEF Adds
  <2> HIDE DEF x
  <2>3. Cardinality(s \ {x}) = Cardinality(s) - 1
    BY <2>1, <1>0, FS_RemoveElement
  <2>4. s \ {x} \in SUBSET u /\ Cardinality(s \ {x}) <= k
    BY <2>3, <1>0
  <2>5. it[s \ {x}] = jt[s \ {x}]
    BY <2>4
  <2> QED BY <2>1, <2>2, <2>5
<1>3. E = Nat
  <2>1. E \in SUBSET Nat
    OBVIOUS
  <2> HIDE DEF E
  <2> QED BY <1>1, <1>2, <2>1, Induct
<1> QED BY <1>0, <1>3

(* Any element may be taken off first.                                                     *)
LEMMA AnyFirst ==
  ASSUME NEW S, IsFiniteSet(S), NEW f, \A x \in S : f[x] \in Int, NEW it, Adds(it, f, S),
         NEW z \in S
  PROVE  it[S] = f[z] + it[S \ {z}]
<1> DEFINE E == {k \in Nat : \A s \in SUBSET S : \A x \in s : Cardinality(s) <= k => it[s] = f[x] + it[s \ {x}]}
<1>0. \A s \in SUBSET S : IsFiniteSet(s) /\ Cardinality(s) \in Nat
  BY FS_Subset, FS_CardinalityType
<1>1. 0 \in E
  BY <1>0, FS_EmptySet
<1>2. ASSUME NEW k \in E PROVE k + 1 \in E
  <2> SUFFICES ASSUME NEW s \in SUBSET S, NEW x \in s, Cardinality(s) <= k + 1
               PROVE it[s] = f[x] + it[s \ {x}]
    OBVIOUS
  <2> DEFINE c == CHOOSE y \in s : TRUE
  <2>1. c \in s /\ it[s] = f[c] + it[s \ {c}]
    BY DEF Adds
  <2> HIDE DEF c
  <2>2. CASE c = x
    BY <2>1, <2>2
  <2>3. CASE c # x
    <3>1. Cardinality(s \ {c}) = Cardinality(s) - 1 /\ Cardinality(s \ {x}) = Cardinality(s) - 1
      BY <2>1, <1>0, FS_RemoveElement
    <3>2. /\ s \ {c} \in SUBSET S /\ Cardinality(s \ {c}) <= k /\ x \in s \ {c}
          /\ s \ {x} \in SUBSET S /\ Cardinality(s \ {x}) <= k /\ c \in s \ {x}
      BY <3>1, <1>0, <2>1, <2>3
    <3>3. it[s \ {c}] = f[x] + it[(s \ {c}) \ {x}]
      BY <3>2
    <3>4. it[s \ {x}] = f[c] + it[(s \ {x}) \ {c}]
      BY <3>2
    <3>5. (s \ {c}) \ {x} = (s \ {x}) \ {c}
      OBVIOUS
    <3>6. it[(s \ {c}) \ {x}] \in Int /\ f[c] \in Int /\ f[x] \in Int
      BY <2>1 DEF Adds
    <3>7. it[s \ {x}] = f[c] + it[(s \ {c}) \ {x}]
      BY <3>4, <3>5
    <3> DEFINE w == it[(s \ {c}) \ {x}]
               p == f[c]
               q == f[x]
    <3>8. it[s] = p + (q + w) /\ it[s \ {x}] = p + w /\ p \in Int /\ q \in Int /\ w \in Int
      BY <2>1, <3>3, <3>6, <3>7
    <3>9. p + (q + w) = q + (p + w)
      <4> HIDE DEF p, q, w
      <4> QED BY <3>8
    <3> QED BY <3>8, <3>9
  <2> QED BY <2>2, <2>3
<1>3. E = Nat
  <2>1. E \in SUBSET Nat
    OBVIOUS
  <2> HIDE DEF E
  <2> QED BY <1>1, <1>2, <2>1, Induct
<1> QED BY <1>0, <1>3

SumOf(f, S) == FoldFunctionOnSet(+, 0, f, S)

LEMMA SumType ==
  ASSUME NEW S, IsFiniteSet(S), NEW f, \A x \in S : f[x] \in Int
  PROVE  SumOf(f, S) \in Int
<1>1. PICK it : Adds(it, f, S) /\ SumOf(f, S) = it[S]
  BY SumIsAdded DEF SumOf
<1> QED BY <1>1 DEF Adds

LEMMA SumEmpty ==
  ASSUME NEW f
  PROVE  SumOf(f, {}) = 0
<1>1. IsFiniteSet({}) /\ \A x \in {} : f[x] \in Int
  BY FS_EmptySet
<1>2. PICK it : Adds(it, f, {}) /\ SumOf(f, {}) = it[{}]
  BY <1>1, SumIsAdded DEF SumOf
<1> QED BY <1>2 DEF Adds

(* The sum over a set is that over the set without one of its elements and that element.  *)
LEMMA SumSplit ==
  ASSUME NEW S, IsFiniteSet(S), NEW f, \A x \in S : f[x] \in Int, NEW z \in S,
         NEW g, \A x \in S \ {z} : g[x] = f[x]
  PROVE  SumOf(f, S) = f[z] + SumOf(g, S \ {z})
<1> DEFINE R == S \ {z}
<1>1. IsFiniteSet(R) /\ \A x \in R : g[x] \in Int
  BY FS_RemoveElement
<1>2. PICK it : Adds(it, f, S) /\ SumOf(f, S) = it[S]
  BY SumIsAdded DEF SumOf
<1> HIDE DEF R
<1>3. PICK jt : Adds(jt, g, R) /\ SumOf(g, R) = jt[R]
  BY <1>1, SumIsAdded DEF SumOf
<1>7. Adds(it, f, S)
  BY <1>2
<1>8. Adds(jt, g, R)
  BY <1>3
<1>4. it[S] = f[z] + it[S \ {z}]
  BY <1>7, AnyFirst
<1>5. R \in SUBSET (S \cap R) /\ \A x \in R : f[x] = g[x]
  BY DEF R
<1>6. it[R] = jt[R]
  BY <1>1, <1>7, <1>8, <1>5, SumsAgree
<1> QED BY <1>2, <1>3, <1>4, <1>6 DEF R

--------------------------------------------------------------------------------
(* What is asked is a whole number of timesteps a day, no longer than an hour each. *)
LEMMA Ticks ==
  ASSUME request \in Requests
  PROVE  /\ request.dt \in Nat /\ request.dt > 0 /\ DayTicks \in Nat /\ 2 * request.dt <= DayTicks
         /\ StepsPerDay \in Nat /\ StepsPerDay > 0 /\ request.dt * StepsPerDay = DayTicks
         /\ request.stepTicks \in Nat /\ request.stepTicks > 0
         /\ Len(request.T_amb) \in Nat /\ Len(request.T_amb) > 0
         /\ request.startHour \in Nat /\ request.length \in Nat /\ request.length >= DayTicks
<1>1. /\ request.dt \in 1..HourTicks /\ DayTicks % request.dt = 0
      /\ request.stepTicks \in Nat \ {0} /\ request.T_amb \in Seq(Int) \ {<<>>}
      /\ request.startHour \in Nat /\ request.length \in Nat /\ request.length >= DayTicks
      /\ HourTicks \in Nat \ {0} /\ Hours \in Nat \ {0, 1}
  BY IntegratorAssumption
<1>2. DayTicks \in Nat /\ 2 * HourTicks <= DayTicks
  <2>1. HourTicks * 2 <= HourTicks * Hours
    BY <1>1, Grows
  <2> QED
    BY <1>1, <2>1 DEF DayTicks
<1>3. StepsPerDay \in Int /\ DayTicks = request.dt * StepsPerDay
  <2> DEFINE dt == request.dt
  <2>1. dt \in Int /\ dt > 0 /\ DayTicks \in Int
    BY <1>1, <1>2
  <2> HIDE DEF dt
  <2>2. DayTicks \div dt \in Int /\ DayTicks = dt * (DayTicks \div dt) + (DayTicks % dt)
    BY <2>1, DivMod
  <2> QED
    BY <1>1, <2>1, <2>2 DEF StepsPerDay, dt
<1>4. StepsPerDay > 0
  <2>1. SUFFICES ASSUME StepsPerDay <= 0 PROVE FALSE
    BY <1>3
  <2>2. request.dt * StepsPerDay <= request.dt * 0
    BY <1>1, <1>3, <2>1, Grows
  <2> QED
    BY <1>1, <1>2, <1>3, <2>2
<1>5. Len(request.T_amb) \in Nat /\ Len(request.T_amb) > 0
  BY <1>1
<1> QED
  BY <1>1, <1>2, <1>3, <1>4, <1>5

(* The counter of timesteps and the ticks it stands for. *)
LEMMA StepTicks ==
  ASSUME request \in Requests, NEW s \in Nat
  PROVE  /\ s * request.dt \in Nat /\ (s * request.dt < DayTicks <=> s < StepsPerDay)
         /\ s * request.dt = DayTicks <=> s = StepsPerDay
<1> DEFINE dt == request.dt
           spd == StepsPerDay
<1>1. dt \in Nat /\ dt > 0 /\ spd \in Nat /\ dt * spd = DayTicks
  BY Ticks
<1> HIDE DEF dt, spd
<1>2. s * dt = dt * s /\ dt * s \in Nat
  BY <1>1
<1>3. CASE s < spd
  <2>1. dt * (s + 1) <= dt * spd /\ dt * (s + 1) = dt * s + dt
    BY <1>1, <1>3, Grows
  <2> QED
    BY <1>1, <1>2, <1>3, <2>1 DEF dt, spd
<1>4. CASE s = spd
  BY <1>1, <1>2, <1>4 DEF dt, spd
<1>5. CASE s > spd
  <2>1. dt * (spd + 1) <= dt * s /\ dt * (spd + 1) = dt * spd + dt
    BY <1>1, <1>5, Grows
  <2> QED
    BY <1>1, <1>2, <1>5, <2>1 DEF dt, spd
<1> QED
  BY <1>1, <1>3, <1>4, <1>5 DEF spd

(* Weather hours do not go back within a day. *)
LEMMA HoursGrow ==
  ASSUME request \in Requests, NEW s \in Nat, NEW t \in Nat, s <= t
  PROVE  HourIndex(s) \in Nat /\ HourIndex(t) \in Nat /\ HourIndex(s) <= HourIndex(t)
<1> DEFINE dt == request.dt
<1>1. dt \in Nat /\ dt > 0 /\ HourTicks \in Nat /\ HourTicks > 0
  BY Ticks, IntegratorAssumption
<1> HIDE DEF dt
<1>2. s * dt \in Nat /\ t * dt \in Nat /\ s * dt <= t * dt
  <2>1. dt * s <= dt * t
    BY <1>1, Grows
  <2> QED
    BY <1>1, <2>1
<1>3. /\ 0 \div HourTicks <= (s * dt) \div HourTicks
      /\ (s * dt) \div HourTicks <= (t * dt) \div HourTicks
  BY <1>1, <1>2, DivGrows
<1>4. (s * dt) \div HourTicks \in Int /\ (t * dt) \div HourTicks \in Int /\ 0 \div HourTicks = 0
  BY <1>1, <1>2, DivMod, SMT
<1> QED
  BY <1>3, <1>4 DEF HourIndex, dt

--------------------------------------------------------------------------------
(* What a record of step s of day d is, and what the frozen coefficients are after it.     *)
OfHour(hour, sample, d, s) ==
  /\ hour = HourIndex(s)
  /\ \E f \in 0..s : IsFirstOfItsHour(f, s) /\ sample = Environment(d, f).sample
Fits(r, d, s) ==
  /\ r.env = Environment(d, s)
  /\ r.coeffs = [hour |-> r.coeffs.hour, sample |-> r.coeffs.sample]
  /\ OfHour(r.coeffs.hour, r.coeffs.sample, d, s)

RecordsFit ==
  \A d \in Nat, s \in 0..(StepsPerDay - 1) :
    StepsPerDay * d + s < Len(records) => Fits(records[StepsPerDay * d + s + 1], d, s)

WeatherDay == IF pc = "report" THEN day ELSE 0
CoefficientsFit ==
  pc \in {"spinUp", "report"} =>
    IF step = 0 THEN coeffs.hour = -1
    ELSE OfHour(coeffs.hour, coeffs.env.sample, WeatherDay, step - 1)

(* Where the loops stand, and how far the records go: no day begins behind the period, and *)
(* weather of several days covers it.                                                     *)
Counters ==
  /\ pc \in {"start", "spinUp", "report", "done"} \cup Errors
  /\ pc \in {"spinUp", "report", "done"} => day \in Nat /\ step \in 0..StepsPerDay
  /\ pc \in {"start", "spinUp", "WEATHER_INVALID"} => records = <<>>
  /\ pc = "report" => Len(records) = StepsPerDay * day + step /\ DayTicks * day < request.length
  /\ pc = "done" => Len(records) = StepsPerDay * (day + 1)
  /\ \A d \in Nat : StepsPerDay * d < Len(records) => DayTicks * d < request.length
  /\ pc \notin {"start", "WEATHER_INVALID"} => ~(MultiDay /\ Available < request.length)

IsSequence == \E S : records \in Seq(S)
LoopInv == request \in Requests /\ IsSequence /\ Counters /\ RecordsFit /\ CoefficientsFit

--------------------------------------------------------------------------------
(* What is said of a step depends on the request alone, which stays. *)
LEMMA SameRequest ==
  ASSUME request' = request
  PROVE  /\ StepsPerDay' = StepsPerDay /\ MultiDay' = MultiDay /\ Available' = Available
         /\ \A hour, sample, d, s : OfHour(hour, sample, d, s)' <=> OfHour(hour, sample, d, s)
         /\ \A r, d, s : Fits(r, d, s)' <=> Fits(r, d, s)
  BY DEF StepsPerDay, MultiDay, Available, OfHour, Fits, Environment, Offset, MultiDay,
         Available, Sample, Interpolated, HourIndex, IsFirstOfItsHour

LEMMA AppendAny ==
  ASSUME NEW s, \E S : s \in Seq(S), NEW e
  PROVE  /\ \E S : Append(s, e) \in Seq(S)
         /\ Len(s) \in Nat /\ Len(Append(s, e)) = Len(s) + 1
         /\ \A i \in 1..Len(s) : Append(s, e)[i] = s[i]
         /\ Append(s, e)[Len(s) + 1] = e
<1>1. PICK S : s \in Seq(S)
  OBVIOUS
<1>2. s \in Seq(S \cup {e})
  BY <1>1
<1>3. e \in S \cup {e}
  OBVIOUS
<1>4. Append(s, e) \in Seq(S \cup {e})
  BY <1>2, <1>3
<1> QED
  BY <1>2, <1>3, <1>4

(* freezeCoefficients() is called at the first step of each weather hour, 332-340. *)
LEMMA StepUsesItsHour ==
  ASSUME LoopInv, pc \in {"spinUp", "report"}, step * request.dt < DayTicks,
         NEW c, c = Coefficients(Environment(WeatherDay, step), step)
  PROVE  OfHour(c.hour, c.env.sample, WeatherDay, step)
<1> DEFINE env == Environment(WeatherDay, step)
           new == [hour |-> HourIndex(step), env |-> env, T |-> T]
<1>1. request \in Requests /\ step \in Nat /\ day \in Nat
  <2>1. StepsPerDay \in Nat
    BY Ticks DEF LoopInv
  <2> QED
    BY <2>1 DEF LoopInv, Counters
<1>2. HourIndex(step) \in Nat
  BY <1>1, HoursGrow
<1>3. c = IF coeffs.hour # HourIndex(step) THEN new ELSE coeffs
  BY DEF Coefficients
<1>4. CASE coeffs.hour = HourIndex(step)
  <2>1. step # 0
    BY <1>2, <1>4 DEF LoopInv, CoefficientsFit
  <2>2. OfHour(coeffs.hour, coeffs.env.sample, WeatherDay, step - 1)
    BY <2>1 DEF LoopInv, CoefficientsFit
  <2>3. PICK f \in 0..(step - 1) : IsFirstOfItsHour(f, step - 1)
                                   /\ coeffs.env.sample = Environment(WeatherDay, f).sample
    BY <2>2 DEF OfHour
  <2>4. HourIndex(step - 1) = HourIndex(step)
    BY <1>4, <2>2 DEF OfHour
  <2>5. f \in 0..step /\ IsFirstOfItsHour(f, step)
    BY <1>1, <2>1, <2>3, <2>4 DEF IsFirstOfItsHour
  <2> QED
    BY <1>3, <1>4, <2>3, <2>5 DEF OfHour
<1>5. CASE coeffs.hour # HourIndex(step)
  <2>1. c.hour = HourIndex(step) /\ c.env.sample = Environment(WeatherDay, step).sample
    BY <1>3, <1>5
  <2>2. ASSUME NEW i \in 0..step, HourIndex(i) = HourIndex(step) PROVE step <= i
    <3>1. SUFFICES ASSUME i <= step - 1 PROVE FALSE
      BY <1>1
    <3>2. OfHour(coeffs.hour, coeffs.env.sample, WeatherDay, step - 1)
      BY <1>1, <3>1 DEF LoopInv, CoefficientsFit
    <3>3. coeffs.hour = HourIndex(step - 1)
      BY <3>2 DEF OfHour
    <3>4. /\ HourIndex(i) \in Nat /\ HourIndex(step - 1) \in Nat
          /\ HourIndex(i) <= HourIndex(step - 1) /\ HourIndex(step - 1) <= HourIndex(step)
      BY <1>1, <3>1, HoursGrow
    <3> QED
      BY <1>2, <1>5, <2>2, <3>3, <3>4
  <2>3. step \in 0..step /\ IsFirstOfItsHour(step, step)
    BY <1>1, <2>2 DEF IsFirstOfItsHour
  <2> QED
    BY <2>1, <2>3 DEF OfHour
<1> QED
  BY <1>4, <1>5

LEMMA LoopStarts == Init => LoopInv
<1> SUFFICES ASSUME Init PROVE LoopInv
  OBVIOUS
<1>1. request \in Requests /\ pc = "start" /\ records = <<>>
  BY DEF Init
<1>2. IsSequence /\ Len(records) = 0
  <2>1. records \in Seq({})
    BY <1>1
  <2> QED
    BY <1>1, <2>1 DEF IsSequence
<1>3. StepsPerDay \in Nat /\ StepsPerDay > 0
  BY <1>1, Ticks
<1>4. \A d \in Nat, s \in Nat : ~(StepsPerDay * d + s < Len(records))
  <2> SUFFICES ASSUME NEW d \in Nat, NEW s \in Nat PROVE ~(StepsPerDay * d + s < 0)
    BY <1>2
  <2>1. StepsPerDay * 0 <= StepsPerDay * d
    BY <1>3, Grows
  <2> QED
    BY <1>3, <2>1
<1>5. RecordsFit
  BY <1>3, <1>4 DEF RecordsFit
<1>6. Counters
  <2>1. \A d \in Nat : ~(StepsPerDay * d < Len(records))
    <3> TAKE d \in Nat
    <3>1. ~(StepsPerDay * d + 0 < Len(records)) /\ StepsPerDay * d \in Nat
      BY <1>3, <1>4
    <3> QED
      BY <3>1
  <2> QED
    BY <1>1, <2>1 DEF Counters
<1>7. CoefficientsFit
  BY <1>1 DEF CoefficientsFit
<1> QED
  BY <1>1, <1>2, <1>5, <1>6, <1>7 DEF LoopInv

(* Records that stay as they are stay fit. *)
LEMMA RecordsStand ==
  ASSUME LoopInv, UNCHANGED <<request, records>>
  PROVE  /\ request' \in Requests /\ IsSequence' /\ RecordsFit'
         /\ \A d \in Nat : StepsPerDay' * d < Len(records') => DayTicks * d < request'.length
<1>1. StepsPerDay' = StepsPerDay /\ \A r, d, s : Fits(r, d, s)' <=> Fits(r, d, s)
  BY SameRequest
<1>2. RecordsFit'
  BY <1>1 DEF LoopInv, RecordsFit
<1> QED
  BY <1>1, <1>2 DEF LoopInv, IsSequence, Counters

LEMMA FailKeeps ==
  ASSUME LoopInv, NEW code \in Errors, Fail(code), code = "WEATHER_INVALID" => records = <<>>,
         code # "WEATHER_INVALID" => ~(MultiDay /\ Available < request.length)
  PROVE  LoopInv'
<1>1. pc' = code /\ UNCHANGED <<request, records, day, step, coeffs>>
  BY DEF Fail
<1>2. pc' \notin {"start", "spinUp", "report", "done"} /\ pc' \in Errors
  BY <1>1 DEF Errors
<1>3. StepsPerDay' = StepsPerDay /\ MultiDay' = MultiDay /\ Available' = Available
  BY <1>1, SameRequest
<1>4. Counters'
  <2>1. pc' = "WEATHER_INVALID" => records' = <<>>
    BY <1>1
  <2>2. pc' # "WEATHER_INVALID" => ~(MultiDay' /\ Available' < request'.length)
    BY <1>1, <1>3
  <2>3. \A d \in Nat : StepsPerDay' * d < Len(records') => DayTicks * d < request'.length
    BY <1>1, RecordsStand
  <2> QED
    BY <1>2, <2>1, <2>2, <2>3 DEF Counters
<1>5. CoefficientsFit'
  BY <1>2 DEF CoefficientsFit
<1> QED
  BY <1>1, <1>4, <1>5, RecordsStand DEF LoopInv

(* A day begins: no record is added, and nothing is frozen. *)
LEMMA DayBegins ==
  ASSUME LoopInv, UNCHANGED <<request, records>>, ~(MultiDay /\ Available < request.length),
         NEW d \in Nat, NEW state, BeginDay(d, state),
         \/ pc' = "spinUp" /\ records = <<>>
         \/ pc' = "report" /\ Len(records) = StepsPerDay * d /\ DayTicks * d < request.length
  PROVE  LoopInv'
<1>1. day' = d /\ step' = 0 /\ coeffs'.hour = -1
  BY DEF BeginDay, NotFrozen
<1>2. StepsPerDay' = StepsPerDay /\ MultiDay' = MultiDay /\ Available' = Available
  BY SameRequest
<1>3. StepsPerDay \in Nat
  BY Ticks DEF LoopInv
<1>4. Counters'
  <2>1. \A n \in Nat : StepsPerDay' * n < Len(records') => DayTicks * n < request'.length
    BY RecordsStand
  <2>2. pc' = "report" => Len(records') = StepsPerDay' * day' + step' /\ DayTicks * day' < request'.length
    <3>1. StepsPerDay * d \in Nat
      BY <1>3
    <3> QED
      BY <1>1, <1>2, <3>1
  <2>3. pc' \in {"spinUp", "report"}
    OBVIOUS
  <2>4. ~(MultiDay' /\ Available' < request'.length)
    BY <1>2
  <2>5. day' \in Nat /\ step' \in 0..StepsPerDay'
    BY <1>1, <1>2, <1>3
  <2>6. pc' = "spinUp" => records' = <<>>
    OBVIOUS
  <2> QED
    BY <2>1, <2>2, <2>3, <2>4, <2>5, <2>6 DEF Counters
<1>5. CoefficientsFit'
  BY <1>1 DEF CoefficientsFit
<1> QED
  BY <1>4, <1>5, RecordsStand DEF LoopInv

LEMMA ReportBegins ==
  ASSUME LoopInv, UNCHANGED <<request, records>>, ~(MultiDay /\ Available < request.length),
         records = <<>>, NEW state, BeginReport(state)
  PROVE  LoopInv'
<1>1. pc' = "report" /\ BeginDay(0, state)
  BY DEF BeginReport
<1>2. StepsPerDay * 0 = 0 /\ DayTicks * 0 = 0 /\ request.length > 0
  BY Ticks DEF LoopInv
<1>3. Len(records) = StepsPerDay * 0 /\ DayTicks * 0 < request.length
  BY <1>2
<1> QED
  BY <1>1, <1>3, DayBegins

LEMMA StartKeeps == ASSUME LoopInv, Start PROVE LoopInv'
<1> DEFINE seed == IF request.seed = None THEN Mean ELSE request.seed
           short == MultiDay /\ Available < request.length
<1>1. pc = "start" /\ records = <<>>
  BY DEF Start, LoopInv, Counters
<1>2. CASE short
  <2>1. Fail("WEATHER_INVALID")
    BY <1>2 DEF Start
  <2> QED
    BY <1>1, <2>1, FailKeeps DEF Errors
<1>3. CASE ~short /\ DOMAIN seed # Node
  <2>1. Fail("INVALID_INPUT")
    BY <1>3 DEF Start
  <2> QED
    BY <1>1, <1>3, <2>1, FailKeeps DEF Errors
<1>4. CASE ~short /\ DOMAIN seed = Node
  <2>1. CASE request.maxSpinUpDays = 0
    <3>1. UNCHANGED <<request, records>> /\ BeginReport(seed)
      BY <1>4, <2>1 DEF Start
    <3> QED
      BY <1>1, <1>4, <3>1, ReportBegins
  <2>2. CASE request.maxSpinUpDays # 0
    <3>1. UNCHANGED <<request, records>> /\ pc' = "spinUp" /\ BeginDay(0, seed)
      BY <1>4, <2>2 DEF Start
    <3> QED
      BY <1>1, <1>4, <3>1, DayBegins
  <2> QED
    BY <2>1, <2>2
<1> QED
  BY <1>2, <1>3, <1>4

LEMMA EndSpinUpDayKeeps == ASSUME LoopInv, EndSpinUpDay PROVE LoopInv'
<1>1. /\ pc = "spinUp" /\ records = <<>> /\ day \in Nat /\ UNCHANGED <<request, records>>
      /\ ~(MultiDay /\ Available < request.length)
  BY DEF EndSpinUpDay, LoopInv, Counters
<1>2. \/ \E state : BeginReport(state)
      \/ \E state : BeginDay(day + 1, state) /\ UNCHANGED pc
  BY DEF EndSpinUpDay
<1> QED
  BY <1>1, <1>2, DayBegins, ReportBegins

LEMMA EndReportedDayKeeps == ASSUME LoopInv, EndReportedDay PROVE LoopInv'
<1>1. /\ pc = "report" /\ step * request.dt = DayTicks /\ UNCHANGED <<request, records>>
      /\ ~(MultiDay /\ Available < request.length) /\ request \in Requests
      /\ day \in Nat /\ step \in 0..StepsPerDay /\ Len(records) = StepsPerDay * day + step
  BY DEF EndReportedDay, LoopInv, Counters
<1>2. step = StepsPerDay /\ StepsPerDay \in Nat /\ DayTicks \in Nat
  <2>1. StepsPerDay \in Nat /\ DayTicks \in Nat
    BY <1>1, Ticks
  <2> QED
    BY <1>1, <2>1, StepTicks
<1>3. Len(records) = StepsPerDay * (day + 1)
  BY <1>1, <1>2
<1>4. CASE (day + 1) * DayTicks < request.length
  <2>1. DayTicks * (day + 1) < request.length /\ day + 1 \in Nat
    BY <1>1, <1>2, <1>4
  <2>2. BeginDay(day + 1, T) /\ pc' = "report"
    BY <1>1, <1>4 DEF EndReportedDay
  <2> QED
    BY <1>1, <1>3, <2>1, <2>2, DayBegins
<1>5. CASE ~((day + 1) * DayTicks < request.length)
  <2>1. pc' = "done" /\ UNCHANGED <<day, step>>
    BY <1>5 DEF EndReportedDay
  <2>2. StepsPerDay' = StepsPerDay /\ MultiDay' = MultiDay /\ Available' = Available
    BY <1>1, SameRequest
  <2>3. \A d \in Nat : StepsPerDay' * d < Len(records') => DayTicks * d < request'.length
    BY <1>1, RecordsStand
  <2>4. Counters'
    BY <1>1, <1>3, <2>1, <2>2, <2>3 DEF Counters
  <2>5. CoefficientsFit'
    BY <2>1 DEF CoefficientsFit
  <2> QED
    BY <1>1, <2>4, <2>5, RecordsStand DEF LoopInv
<1> QED
  BY <1>4, <1>5

(* A record is added to those of a reported day. *)
LEMMA RecordAdded ==
  ASSUME LoopInv, pc = "report", step < StepsPerDay, UNCHANGED request,
         NEW e, records' = Append(records, e), Fits(e, day, step)
  PROVE  /\ IsSequence' /\ RecordsFit' /\ Len(records') = Len(records) + 1
         /\ \A d \in Nat : StepsPerDay' * d < Len(records') => DayTicks * d < request'.length
<1> DEFINE spd == StepsPerDay
<1>1. /\ request \in Requests /\ day \in Nat /\ step \in 0..spd /\ Len(records) = spd * day + step
      /\ DayTicks * day < request.length /\ \E S : records \in Seq(S)
  BY DEF LoopInv, Counters, IsSequence
<1>2. spd \in Nat /\ spd > 0 /\ DayTicks \in Nat /\ request.length \in Nat
  BY <1>1, Ticks
<1>3. spd' = spd /\ \A r, d, s : Fits(r, d, s)' <=> Fits(r, d, s)
  BY SameRequest
<1>4. /\ \E S : Append(records, e) \in Seq(S)
      /\ Len(records) \in Nat /\ Len(Append(records, e)) = Len(records) + 1
      /\ \A i \in 1..Len(records) : Append(records, e)[i] = records[i]
      /\ Append(records, e)[Len(records) + 1] = e
  BY <1>1, AppendAny
<1>5. ASSUME NEW d \in Nat, NEW s \in 0..(spd - 1), spd * d + s < Len(records')
      PROVE  Fits(records'[spd * d + s + 1], d, s)
  <2> DEFINE k == spd * d + s
  <2>1. k \in Nat
    BY <1>2
  <2>2. CASE k < Len(records)
    <3>1. Fits(records[k + 1], d, s)
      BY <2>2 DEF LoopInv, RecordsFit
    <3>2. records'[k + 1] = records[k + 1]
      <4>1. k + 1 \in 1..Len(records)
        BY <1>4, <2>1, <2>2
      <4> HIDE DEF k
      <4> QED
        BY <1>4, <4>1
    <3> QED
      BY <3>1, <3>2
  <2>3. CASE k = Len(records)
    <3>1. step \in 0..(spd - 1)
      BY <1>1, <1>2
    <3>2. spd * d + s = spd * day + step
      BY <1>1, <2>3
    <3>3. d = day /\ s = step
      <4>1. spd \in Int /\ d \in Int /\ day \in Int
        BY <1>1, <1>2
      <4> HIDE DEF spd
      <4> QED
        BY <1>2, <3>1, <3>2, <4>1, OneQuotient
    <3>4. records'[k + 1] = e
      BY <1>4, <2>3
    <3> QED
      BY <3>3, <3>4
  <2> HIDE DEF k
  <2> QED
    BY <1>4, <1>5, <2>1, <2>2, <2>3 DEF k
<1>6. RecordsFit'
  BY <1>3, <1>5 DEF RecordsFit
<1>7. ASSUME NEW d \in Nat, spd * d < Len(records') PROVE DayTicks * d < request.length
  <2>1. d <= day
    <3>1. SUFFICES ASSUME day + 1 <= d PROVE FALSE
      BY <1>1
    <3>2. spd * (day + 1) <= spd * d /\ spd * (day + 1) = spd * day + spd
      BY <1>1, <1>2, <3>1, Grows
    <3>3. spd * d \in Nat /\ spd * day \in Nat
      BY <1>1, <1>2
    <3> QED
      BY <1>1, <1>2, <1>4, <1>7, <3>2, <3>3
  <2>2. DayTicks * d <= DayTicks * day /\ DayTicks * d \in Int /\ DayTicks * day \in Int
    BY <1>1, <1>2, <2>1, Grows
  <2> QED
    BY <1>1, <1>2, <2>2
<1> QED
  BY <1>3, <1>4, <1>6, <1>7 DEF IsSequence

LEMMA TimeStepKeeps == ASSUME LoopInv, TimeStep PROVE LoopInv'
<1> DEFINE env  == Environment(WeatherDay, step)
           c    == Coefficients(env, step)
           base == Solve(T, c, env)
           next == [n \in Node |-> base[n] + Heating(base) * Unit[n]]
           e    == [env |-> env, coeffs |-> [hour |-> c.hour, sample |-> c.env.sample],
                    T |-> next, heat |-> [n \in Node |-> next[n] - T[n]]]
<1>1. /\ pc \in {"spinUp", "report"} /\ step * request.dt < DayTicks
      /\ ~(MultiDay /\ Available < request.length) /\ request \in Requests
      /\ day \in Nat /\ step \in 0..StepsPerDay
  BY DEF TimeStep, LoopInv, Counters
<1>2. step \in Nat /\ step < StepsPerDay /\ StepsPerDay \in Nat
  <2>1. step \in Nat /\ StepsPerDay \in Nat
    BY <1>1, Ticks
  <2> QED
    BY <1>1, <2>1, StepTicks
<1>3. CASE ~Plausible(next)
  <2>1. Fail("SOLVER_DIVERGED")
    BY <1>3 DEF TimeStep, WeatherDay
  <2> QED
    BY <1>1, <2>1, FailKeeps DEF Errors
<1>4. CASE Plausible(next)
  <2>1. /\ coeffs' = c /\ step' = step + 1 /\ UNCHANGED <<request, pc, day>>
        /\ records' = IF pc = "spinUp" THEN records ELSE Append(records, e)
    BY <1>4 DEF TimeStep, WeatherDay
  <2>2. OfHour(c.hour, c.env.sample, WeatherDay, step)
    BY <1>1, StepUsesItsHour
  <2>3. /\ StepsPerDay' = StepsPerDay /\ MultiDay' = MultiDay /\ Available' = Available
        /\ \A hour, sample, d, s : OfHour(hour, sample, d, s)' <=> OfHour(hour, sample, d, s)
    BY <2>1, SameRequest
  <2>4. CoefficientsFit'
    <3>1. step' # 0 /\ step' - 1 = step /\ WeatherDay' = WeatherDay
      BY <1>2, <2>1 DEF WeatherDay
    <3>2. OfHour(coeffs.hour, coeffs.env.sample, WeatherDay, step - 1)'
      <4> HIDE DEF c, env
      <4> QED
        BY <2>1, <2>2, <2>3, <3>1
    <3> QED
      BY <3>1, <3>2 DEF CoefficientsFit
  <2>5. CASE pc = "spinUp"
    <3>1. records' = records /\ records' = <<>>
      BY <2>1, <2>5 DEF LoopInv, Counters
    <3>2. /\ request' \in Requests /\ IsSequence' /\ RecordsFit'
          /\ \A d \in Nat : StepsPerDay' * d < Len(records') => DayTicks * d < request'.length
      BY <2>1, <3>1, RecordsStand
    <3>3. Counters'
      BY <1>1, <1>2, <2>1, <2>3, <2>5, <3>1, <3>2 DEF Counters
    <3> QED
      BY <2>4, <3>2, <3>3 DEF LoopInv
  <2>6. CASE pc = "report"
    <3>1. records' = Append(records, e) /\ WeatherDay = day
      BY <2>1, <2>6 DEF WeatherDay
    <3>2. Fits(e, day, step)
      <4>1. e.env = Environment(day, step) /\ e.coeffs = [hour |-> c.hour, sample |-> c.env.sample]
        BY <3>1
      <4>2. e.coeffs = [hour |-> e.coeffs.hour, sample |-> e.coeffs.sample]
        BY <4>1
      <4>3. OfHour(e.coeffs.hour, e.coeffs.sample, day, step)
        BY <2>2, <3>1, <4>1
      <4> QED
        BY <4>1, <4>2, <4>3 DEF Fits
    <3>3. /\ IsSequence' /\ RecordsFit' /\ Len(records') = Len(records) + 1
          /\ \A d \in Nat : StepsPerDay' * d < Len(records') => DayTicks * d < request'.length
      <4> HIDE DEF e
      <4> QED
        BY <1>2, <2>1, <2>6, <3>1, <3>2, RecordAdded
    <3>4. Counters'
      <4>1. Len(records) = StepsPerDay * day + step /\ DayTicks * day < request.length
        BY <2>6 DEF LoopInv, Counters
      <4>2. Len(records') = StepsPerDay' * day' + step' /\ DayTicks * day' < request'.length
        BY <1>1, <1>2, <2>1, <2>3, <3>3, <4>1
      <4>3. pc' = "report" /\ day' \in Nat /\ step' \in 0..StepsPerDay'
        BY <1>1, <1>2, <2>1, <2>3, <2>6
      <4>4. ~(MultiDay' /\ Available' < request'.length)
        BY <1>1, <2>1, <2>3
      <4> QED
        BY <3>3, <4>2, <4>3, <4>4 DEF Counters
    <3> QED
      BY <1>1, <2>1, <2>4, <3>3, <3>4 DEF LoopInv
  <2> QED
    BY <1>1, <2>5, <2>6
<1> QED
  BY <1>3, <1>4

LEMMA LoopKept == LoopInv /\ [Next]_vars => LoopInv'
<1> SUFFICES ASSUME LoopInv, [Next]_vars PROVE LoopInv'
  OBVIOUS
<1>1. CASE UNCHANGED vars
  <2>1. UNCHANGED <<request, records, pc, day, step, coeffs>>
    BY <1>1 DEF vars
  <2>2. /\ StepsPerDay' = StepsPerDay /\ MultiDay' = MultiDay /\ Available' = Available
        /\ \A hour, sample, d, s : OfHour(hour, sample, d, s)' <=> OfHour(hour, sample, d, s)
    BY <2>1, SameRequest
  <2>3. Counters'
    BY <2>1, <2>2, RecordsStand DEF LoopInv, Counters
  <2>4. CoefficientsFit'
    BY <2>1, <2>2 DEF LoopInv, CoefficientsFit, WeatherDay
  <2> QED
    BY <2>1, <2>3, <2>4, RecordsStand DEF LoopInv
<1> QED
  BY <1>1, StartKeeps, TimeStepKeeps, EndSpinUpDayKeeps, EndReportedDayKeeps DEF Next

--------------------------------------------------------------------------------
(* Which step of which day a record is of, and when that is. *)
LEMMA RecordOf ==
  ASSUME LoopInv, NEW k \in DOMAIN records
  PROVE  \E d \in Nat, s \in 0..(StepsPerDay - 1) :
           /\ k - 1 = StepsPerDay * d + s /\ (k - 1) % StepsPerDay = s
           /\ (k - 1) * request.dt = DayTicks * d + s * request.dt
           /\ s * request.dt \in 0..(DayTicks - 1)
           /\ Fits(records[k], d, s) /\ DayTicks * d < request.length
<1> DEFINE dt == request.dt
           spd == StepsPerDay
           d == (k - 1) \div spd
           s == (k - 1) % spd
<1>1. /\ dt \in Nat /\ dt > 0 /\ spd \in Nat /\ spd > 0 /\ dt * spd = DayTicks
      /\ request \in Requests
  BY Ticks DEF LoopInv
<1>2. k \in 1..Len(records) /\ Len(records) \in Nat
  BY DEF LoopInv, IsSequence
<1>3. k - 1 \in Nat /\ spd \in Int
  BY <1>1, <1>2
<1>4. d \in Int /\ s \in 0..(spd - 1) /\ k - 1 = spd * d + s
  <2> DEFINE a == k - 1
  <2>1. a \in Int /\ spd \in Int /\ spd > 0
    BY <1>1, <1>3
  <2> HIDE DEF spd, a
  <2>2. a \div spd \in Int /\ a % spd \in 0..(spd - 1) /\ a = spd * (a \div spd) + (a % spd)
    BY <2>1, DivMod
  <2> QED
    BY <2>2 DEF a
<1> HIDE DEF d, s
<1>5. d \in Nat
  <2>1. SUFFICES ASSUME d <= -1 PROVE FALSE
    BY <1>4
  <2>2. spd * d <= spd * (-1) /\ spd * (-1) = -spd
    BY <1>1, <1>4, <2>1, Grows
  <2> QED
    BY <1>1, <1>3, <1>4, <2>2
<1>6. Fits(records[k], d, s)
  <2>1. spd * d + s < Len(records) /\ spd * d + s + 1 = k
    BY <1>2, <1>4
  <2>2. Fits(records[spd * d + s + 1], d, s)
    BY <1>4, <1>5, <2>1 DEF LoopInv, RecordsFit
  <2> QED
    BY <2>1, <2>2
<1>7. DayTicks * d < request.length
  <2>1. spd * d \in Nat
    BY <1>1, <1>5
  <2>2. spd * d < Len(records)
    BY <1>2, <1>4, <2>1
  <2> QED
    BY <1>5, <2>2 DEF LoopInv, Counters
<1>8. (k - 1) * dt = DayTicks * d + s * dt
  <2> HIDE DEF dt, spd
  <2>1. (k - 1) * dt = (spd * d + s) * dt
    BY <1>4
  <2>2. (spd * d + s) * dt = (dt * spd) * d + s * dt
    BY <1>1, <1>4, <1>5
  <2> QED
    BY <1>1, <2>1, <2>2
<1>9. s * dt \in 0..(DayTicks - 1)
  <2>1. s \in Nat /\ s < spd
    BY <1>1, <1>4
  <2>2. s * dt \in Nat /\ s * dt < DayTicks /\ DayTicks \in Nat
    BY <1>1, <2>1, StepTicks, Ticks
  <2> QED
    BY <2>2
<1> QED
  BY <1>4, <1>5, <1>6, <1>7, <1>8, <1>9 DEF s

(* Weather that covers the period is not begun again within it. *)
LEMMA NoWrap ==
  ASSUME request \in Requests, NEW at \in Nat, at < Available
  PROVE  /\ Sample(at) \in Nat /\ Sample(at) * request.stepTicks <= at
         /\ at < (Sample(at) + 1) * request.stepTicks
<1> DEFINE w == request.stepTicks
           n == Len(request.T_amb)
           q == at \div w
<1>1. w \in Nat /\ w > 0 /\ n \in Nat /\ n > 0
  BY Ticks
<1> HIDE DEF w, n
<1>2. q \in Int /\ at % w \in 0..(w - 1) /\ at = w * q + (at % w)
  BY <1>1, DivMod
<1>3. Available = w * n
  BY <1>1 DEF Available, w, n
<1> HIDE DEF q
<1>4. q < n
  <2>1. SUFFICES ASSUME n <= q PROVE FALSE
    BY <1>1, <1>2
  <2>2. w * n <= w * q /\ w * n \in Int /\ w * q \in Int
    BY <1>1, <1>2, <2>1, Grows
  <2> QED
    BY <1>2, <1>3, <2>2
<1>5. q >= 0
  <2>1. SUFFICES ASSUME q <= -1 PROVE FALSE
    BY <1>2
  <2>2. w * q <= w * (-1) /\ w * (-1) = -w
    BY <1>1, <1>2, <2>1, Grows
  <2> QED
    BY <1>1, <1>2, <2>2
<1>6. q % n = q
  <2>1. q \in 0..(n - 1) /\ n * 0 + q = q
    BY <1>1, <1>2, <1>4, <1>5
  <2>2. (n * 0 + q) % n = q
    BY <1>1, <2>1, DivModOf
  <2> QED
    BY <2>1, <2>2
<1>7. Sample(at) = q
  BY <1>6 DEF Sample, q, w, n
<1>8. q * w = w * q /\ (q + 1) * w = w * q + w
  BY <1>1, <1>2
<1> QED
  BY <1>1, <1>2, <1>5, <1>7, <1>8 DEF w

LEMMA SamplesAreOfTheirTime == LoopInv => SampleOfItsTime
<1> SUFFICES ASSUME LoopInv, NEW k \in DOMAIN records
             PROVE  IF ~MultiDay THEN records[k].env.sample = Sample(((k - 1) * request.dt) % DayTicks)
                    ELSE WholeDays => /\ records[k].env.sample * request.stepTicks <= (k - 1) * request.dt
                                      /\ (k - 1) * request.dt < (records[k].env.sample + 1) * request.stepTicks
  BY DEF SampleOfItsTime
<1>1. PICK d \in Nat, s \in 0..(StepsPerDay - 1) :
        /\ (k - 1) * request.dt = DayTicks * d + s * request.dt
        /\ s * request.dt \in 0..(DayTicks - 1)
        /\ Fits(records[k], d, s) /\ DayTicks * d < request.length
  BY RecordOf
<1>2. records[k].env.sample = Sample(Offset(d) + s * request.dt)
  BY <1>1 DEF Fits, Environment
<1>3. request \in Requests /\ DayTicks \in Nat /\ DayTicks > 0 /\ request.length \in Nat
  BY Ticks DEF LoopInv
<1> DEFINE r == s * request.dt
           at == (k - 1) * request.dt
<1>4. r \in 0..(DayTicks - 1) /\ at = DayTicks * d + r
  BY <1>1
<1>5. records[k].env.sample = Sample(Offset(d) + r)
  BY <1>2
<1> HIDE DEF r, at
<1>6. CASE ~MultiDay
  <2>1. (DayTicks * d + r) % DayTicks = r
    BY <1>3, <1>4, DivModOf
  <2>2. Offset(d) + r = r
    BY <1>4, <1>6 DEF Offset
  <2>3. records[k].env.sample = Sample(at % DayTicks)
    BY <1>4, <1>5, <2>1, <2>2
  <2> QED
    BY <1>6, <2>3 DEF at
<1>7. CASE MultiDay /\ WholeDays
  <2>1. Offset(d) + r = at
    <3>1. Offset(d) = DayTicks * d
      BY <1>3, <1>7 DEF Offset
    <3> QED
      BY <1>4, <3>1
  <2>2. DayTicks * d + DayTicks <= request.length
    <3> DEFINE n == request.length \div DayTicks
    <3>1. n \in Int /\ request.length = DayTicks * n + (request.length % DayTicks)
      <4> DEFINE a == request.length
      <4>1. a \in Int /\ DayTicks \in Int /\ DayTicks > 0
        BY <1>3
      <4> HIDE DEF a
      <4>2. a \div DayTicks \in Int /\ a = DayTicks * (a \div DayTicks) + (a % DayTicks)
        BY <4>1, DivMod
      <4> QED
        BY <4>2 DEF a
    <3>2. request.length = DayTicks * n
      BY <1>7, <3>1, <1>3 DEF WholeDays
    <3> HIDE DEF n
    <3>3. d < n
      <4>1. SUFFICES ASSUME n <= d PROVE FALSE
        BY <3>1
      <4>2. DayTicks * n <= DayTicks * d
        BY <1>3, <3>1, <4>1, Grows
      <4> QED
        BY <1>1, <1>3, <3>2, <4>2
    <3>4. DayTicks * (d + 1) <= DayTicks * n /\ DayTicks * (d + 1) = DayTicks * d + DayTicks
      BY <1>3, <3>1, <3>3, Grows
    <3> QED
      BY <3>2, <3>4
  <2>3. pc # "start" /\ pc # "WEATHER_INVALID"
    <3>1. records # <<>>
      OBVIOUS
    <3> QED
      BY <3>1 DEF LoopInv, Counters
  <2>4. ~(Available < request.length)
    BY <1>7, <2>3 DEF LoopInv, Counters
  <2>5. Available \in Nat
    BY <1>3, Ticks DEF Available
  <2>6. at \in Nat /\ at < Available
    <3>1. DayTicks * d \in Nat
      BY <1>3
    <3> QED
      BY <1>3, <1>4, <2>2, <2>4, <2>5, <3>1
  <2>7. Sample(at) * request.stepTicks <= at /\ at < (Sample(at) + 1) * request.stepTicks
    BY <1>3, <2>6, NoWrap
  <2>8. records[k].env.sample = Sample(at)
    BY <1>5, <2>1
  <2> QED
    BY <1>7, <2>7, <2>8 DEF at
<1> QED
  BY <1>6, <1>7

(* A weather hour has one first step. *)
LEMMA OneFirst ==
  ASSUME NEW s \in Nat, NEW f \in 0..s, NEW g \in 0..s, IsFirstOfItsHour(f, s), IsFirstOfItsHour(g, s)
  PROVE  f = g
<1>1. f <= g /\ g <= f
  BY DEF IsFirstOfItsHour
<1> QED
  BY <1>1

LEMMA CoefficientsAreOfTheirHour == LoopInv => CoefficientsOfTheHour
<1> SUFFICES ASSUME LoopInv, NEW k \in DOMAIN records, NEW s, s = (k - 1) % StepsPerDay,
                    NEW first, first = CHOOSE f \in 0..s : IsFirstOfItsHour(f, s)
             PROVE  records[k].coeffs
                      = [hour |-> HourIndex(s), sample |-> records[k - s + first].env.sample]
  BY DEF CoefficientsOfTheHour
<1>1. PICK d \in Nat, r \in 0..(StepsPerDay - 1) :
        k - 1 = StepsPerDay * d + r /\ (k - 1) % StepsPerDay = r /\ Fits(records[k], d, r)
  BY RecordOf
<1>2. s \in 0..(StepsPerDay - 1) /\ k - 1 = StepsPerDay * d + s /\ Fits(records[k], d, s)
  BY <1>1
<1>3. PICK f \in 0..s : IsFirstOfItsHour(f, s) /\ records[k].coeffs.sample = Environment(d, f).sample
  BY <1>2 DEF Fits, OfHour
<1>4. /\ StepsPerDay \in Nat /\ k \in 1..Len(records) /\ Len(records) \in Nat
      /\ StepsPerDay * d \in Nat /\ s \in Nat
  <2>1. StepsPerDay \in Nat
    BY Ticks DEF LoopInv
  <2>2. k \in 1..Len(records) /\ Len(records) \in Nat
    BY DEF LoopInv, IsSequence
  <2> QED
    BY <1>2, <2>1, <2>2
<1>5. first = f
  <2>1. first \in 0..s /\ IsFirstOfItsHour(first, s)
    BY <1>3
  <2> QED
    BY <1>3, <1>4, <2>1, OneFirst
<1>6. Fits(records[StepsPerDay * d + f + 1], d, f)
  <2>1. f \in 0..(StepsPerDay - 1) /\ StepsPerDay * d + f < Len(records)
    BY <1>2, <1>4
  <2> QED
    BY <2>1 DEF LoopInv, RecordsFit
<1>7. k - s + first = StepsPerDay * d + f + 1
  <2> DEFINE a == StepsPerDay * d
  <2>1. a \in Nat /\ k \in Nat /\ k - 1 = a + s /\ s \in Nat /\ f \in Nat
    BY <1>2, <1>4
  <2> HIDE DEF a
  <2>2. k - s + f = a + f + 1
    BY <2>1
  <2> QED
    BY <1>5, <2>2 DEF a
<1>8. records[k - s + first].env.sample = Environment(d, f).sample
  BY <1>6, <1>7 DEF Fits
<1> QED
  BY <1>2, <1>3, <1>8 DEF Fits, OfHour

(* The nearest timestep is no further than half of one. *)
LEMMA RoundedIsNear ==
  ASSUME NEW x \in Nat, NEW w \in Nat, w > 0
  PROVE  /\ Rounded(x, w) \in Int
         /\ w * Rounded(x, w) - x \in Int
         /\ -w <= 2 * (w * Rounded(x, w) - x) /\ 2 * (w * Rounded(x, w) - x) <= w
<1> DEFINE a == 2 * x + w
           b == 2 * w
           n == a \div b
<1>1. a \in Int /\ b \in Int /\ b > 0
  OBVIOUS
<1> HIDE DEF a, b
<1>2. n \in Int /\ a % b \in 0..(b - 1) /\ a = b * n + (a % b)
  BY <1>1, DivMod
<1> HIDE DEF n
<1>3. b * n = 2 * (w * n) /\ w * n \in Int
  BY <1>2 DEF b
<1>4. -w <= 2 * (w * n - x) /\ 2 * (w * n - x) <= w
  BY <1>1, <1>2, <1>3 DEF a, b
<1>5. Rounded(x, w) = n
  BY DEF Rounded, n, a, b
<1> QED
  BY <1>2, <1>3, <1>4, <1>5

(* The index of 06:00: a step of the day, and its time as near to 06:00 as the timestep    *)
(* allows, up to whole days.                                                              *)
LEMMA IndexOfSix ==
  ASSUME request \in Requests
  PROVE  /\ Idx0600 \in 0..(StepsPerDay - 1)
         /\ \E e \in Int, m \in Int :
              /\ request.startHour + Idx0600 * request.dt = Six * HourTicks + e + DayTicks * m
              /\ -request.dt <= 2 * e /\ 2 * e <= request.dt
<1> DEFINE w   == request.dt
           spd == StepsPerDay
           six == Six * HourTicks
           from == request.startHour
           a   == six - from + DayTicks
           x   == a % DayTicks
           n   == Rounded(x, w)
<1>1. /\ w \in Nat /\ w > 0 /\ spd \in Nat /\ spd > 0 /\ w * spd = DayTicks /\ from \in Nat
      /\ DayTicks \in Nat /\ DayTicks > 0
  BY Ticks
<1>2. six \in Int
  <2>1. Six \in Int /\ HourTicks \in Int
    BY IntegratorAssumption
  <2> QED
    BY <2>1
<1>3. Idx0600 = n % spd
  BY DEF Idx0600
<1> HIDE DEF w, spd, six, from
<1>4. a \in Int
  BY <1>1, <1>2
<1> HIDE DEF a
<1>5. x \in 0..(DayTicks - 1) /\ a \div DayTicks \in Int /\ a = DayTicks * (a \div DayTicks) + x
  BY <1>1, <1>4, DivMod
<1>6. x \in Nat
  BY <1>1, <1>5
<1> HIDE DEF x
<1>7. n \in Int /\ w * n - x \in Int /\ -w <= 2 * (w * n - x) /\ 2 * (w * n - x) <= w
  BY <1>1, <1>6, RoundedIsNear
<1> HIDE DEF n
<1>8. n % spd \in 0..(spd - 1) /\ n \div spd \in Int /\ n = spd * (n \div spd) + (n % spd)
  BY <1>1, <1>7, DivMod
<1> DEFINE i == n % spd
           p == n \div spd
           o == a \div DayTicks
           e == w * n - x
           m == 1 - o - p
<1> HIDE DEF i, p, o
<1>9. i \in Int /\ p \in Int /\ o \in Int /\ n = spd * p + i /\ a = DayTicks * o + x
  BY <1>5, <1>8 DEF i, p, o
<1>10. from + i * w = six + e + DayTicks * m
  <2>1. w * n = w * (spd * p + i)
    BY <1>9
  <2>2. w * (spd * p + i) = (w * spd) * p + i * w
    BY <1>1, <1>9
  <2>3. w * n = DayTicks * p + i * w
    BY <1>1, <2>1, <2>2
  <2>4. DayTicks * m = DayTicks - DayTicks * o - DayTicks * p
    BY <1>1, <1>9
  <2>5. six - from + DayTicks = DayTicks * o + x
    BY <1>9 DEF a
  <2>6. /\ i * w \in Int /\ DayTicks * p \in Int /\ DayTicks * o \in Int /\ w * n \in Int
        /\ x \in Int /\ DayTicks * m \in Int
    BY <1>1, <1>5, <1>7, <1>9
  <2> DEFINE wn == w * n
             iw == i * w
             dp == DayTicks * p
             do == DayTicks * o
             dm == DayTicks * m
  <2>7. /\ wn \in Int /\ iw \in Int /\ dp \in Int /\ do \in Int /\ dm \in Int
        /\ wn = dp + iw /\ dm = DayTicks - do - dp /\ six - from + DayTicks = do + x
    BY <2>3, <2>4, <2>5, <2>6
  <2> HIDE DEF wn, iw, dp, do, dm
  <2>8. from + iw = six + (wn - x) + dm
    BY <1>1, <1>2, <2>6, <2>7
  <2> QED
    BY <2>8 DEF wn, iw, dm
<1>11. m \in Int /\ e \in Int /\ -w <= 2 * e /\ 2 * e <= w
  BY <1>7, <1>9
<1> HIDE DEF e, m
<1>12. request.startHour + Idx0600 * request.dt = Six * HourTicks + e + DayTicks * m
  BY <1>3, <1>10 DEF from, i, w, six
<1>13. Idx0600 \in 0..(StepsPerDay - 1)
  BY <1>3, <1>8 DEF spd
<1> QED
  BY <1>11, <1>12, <1>13 DEF w

(* A clock time that far from 06:00, measured around the clock. *)
LEMMA NearSix ==
  ASSUME request \in Requests, NEW t \in Int, NEW e \in Int, NEW m \in Int,
         t = Six * HourTicks + e + DayTicks * m, -request.dt <= 2 * e, 2 * e <= request.dt
  PROVE  2 * FromSix(t % DayTicks) <= request.dt
<1> DEFINE w == request.dt
           six == Six * HourTicks
           half == DayTicks \div 2
           c == t % DayTicks
           o == t \div DayTicks
           k == m - o + 1
<1>1. w \in Nat /\ w > 0 /\ DayTicks \in Nat /\ 2 * w <= DayTicks
  BY Ticks
<1>2. six \in Int
  <2>1. Six \in Int /\ HourTicks \in Int
    BY IntegratorAssumption
  <2> QED
    BY <2>1
<1>3. t = six + e + DayTicks * m /\ -w <= 2 * e /\ 2 * e <= w
  OBVIOUS
<1> HIDE DEF w, six
<1>4. c \in Int /\ o \in Int /\ t = DayTicks * o + c
  <2>1. DayTicks \in Int /\ DayTicks > 0
    BY <1>1
  <2> QED
    BY <2>1, DivMod
<1>5. half \in Int /\ 2 * half <= DayTicks /\ DayTicks <= 2 * half + 1
  BY <1>1
<1> HIDE DEF c, o, half
<1>6. c - six + DayTicks + half = DayTicks * k + (e + half)
  <2>1. DayTicks * k = DayTicks * m - DayTicks * o + DayTicks
    BY <1>1, <1>4
  <2>2. DayTicks * m \in Int /\ DayTicks * o \in Int
    BY <1>1, <1>4
  <2> QED
    BY <1>1, <1>2, <1>3, <1>4, <1>5, <2>1, <2>2
<1>7. k \in Int /\ e + half \in 0..(DayTicks - 1)
  BY <1>1, <1>3, <1>4, <1>5
<1> HIDE DEF k
<1>8. (c - six + DayTicks + half) % DayTicks = e + half
  <2> DEFINE r == e + half
  <2>1. r \in 0..(DayTicks - 1) /\ DayTicks \in Int /\ DayTicks > 0 /\ k \in Int
    BY <1>1, <1>7
  <2> HIDE DEF r
  <2>2. (DayTicks * k + r) % DayTicks = r
    BY <2>1, DivModOf
  <2> QED
    BY <1>6, <2>2 DEF r
<1>9. FromSix(c) = Abs(e)
  <2>1. FromSix(c) = Abs(((c - six + DayTicks + half) % DayTicks) - half)
    BY DEF FromSix, six, half
  <2> DEFINE r == (c - six + DayTicks + half) % DayTicks
  <2>2. r = e + half
    BY <1>8
  <2> HIDE DEF r
  <2>3. r - half = e
    BY <1>5, <2>2
  <2>4. FromSix(c) = Abs(r - half)
    BY <2>1 DEF r
  <2> QED
    BY <2>3, <2>4
<1>10. 2 * Abs(e) <= w
  BY <1>1, <1>3 DEF Abs
<1> QED
  BY <1>9, <1>10 DEF c, w

LEMMA SixesAreSix == LoopInv => SixIsSix
<1> SUFFICES ASSUME LoopInv, pc = "done", NEW d \in DOMAIN TempAt0600PerDay
             PROVE  /\ TempAt0600PerDay[d] \div StepsPerDay = d
                    /\ 2 * FromSix(records[TempAt0600PerDay[d] + 1].env.clock) <= request.dt
  BY DEF SixIsSix
<1> DEFINE spd == StepsPerDay
           i == spd * d + Idx0600
<1>1. /\ request \in Requests /\ day \in Nat /\ Len(records) = spd * (day + 1)
      /\ spd \in Nat /\ spd > 0 /\ Idx0600 \in 0..(spd - 1)
  <2>1. request \in Requests /\ day \in Nat /\ Len(records) = spd * (day + 1)
    BY DEF LoopInv, Counters
  <2> QED
    BY <2>1, Ticks, IndexOfSix
<1>2. d \in Nat /\ d <= day
  <2>1. Days = day + 1
    <3>1. (spd * (day + 1) + 0) \div spd = day + 1
      <4> HIDE DEF spd
      <4>1. spd \in Int /\ day + 1 \in Int /\ 0 \in 0..(spd - 1)
        BY <1>1
      <4> QED
        BY <1>1, <4>1, DivModOf
    <3>2. spd * (day + 1) + 0 = Len(records)
      BY <1>1
    <3> QED
      BY <3>1, <3>2 DEF Days
  <2>2. d \in 0..(Days - 1)
    BY DEF TempAt0600PerDay
  <2> QED
    BY <1>1, <2>1, <2>2
<1>3. i \in Nat /\ i < Len(records)
  <2>1. spd * (d + 1) <= spd * (day + 1) /\ spd * (d + 1) = spd * d + spd /\ spd * d \in Nat
    BY <1>1, <1>2, Grows
  <2> QED
    BY <1>1, <2>1
<1>4. TempAt0600PerDay[d] = i
  <2>1. TempAt0600PerDay[d] = Least(d * spd + Idx0600, Len(records) - 1)
    BY DEF TempAt0600PerDay
  <2>2. d * spd + Idx0600 = i
    BY <1>1, <1>2
  <2>3. Least(i, Len(records) - 1) = i
    <3> HIDE DEF i
    <3> QED
      BY <1>1, <1>3 DEF Least
  <2> QED
    BY <2>1, <2>2, <2>3
<1>5. i \div spd = d
  <2> HIDE DEF spd
  <2>1. spd \in Int /\ d \in Int
    BY <1>1, <1>2
  <2> QED
    BY <1>1, <2>1, DivModOf
<1>6. records[i + 1].env.clock = (request.startHour + Idx0600 * request.dt) % DayTicks
  <2>1. Fits(records[i + 1], d, Idx0600)
    BY <1>1, <1>2, <1>3 DEF LoopInv, RecordsFit
  <2> QED
    BY <2>1 DEF Fits, Environment
<1> DEFINE t == request.startHour + Idx0600 * request.dt
<1>7. t \in Int
  <2>1. request.startHour \in Nat /\ request.dt \in Nat /\ Idx0600 \in Int
    BY <1>1, Ticks
  <2> QED
    BY <2>1
<1>8. 2 * FromSix(t % DayTicks) <= request.dt
  <2>1. PICK e \in Int : \E m \in Int : t = Six * HourTicks + e + DayTicks * m
                                       /\ -request.dt <= 2 * e /\ 2 * e <= request.dt
    BY <1>1, IndexOfSix
  <2>2. PICK m \in Int : t = Six * HourTicks + e + DayTicks * m
    BY <2>1
  <2> HIDE DEF t
  <2> QED
    BY <1>1, <1>7, <2>1, <2>2, NearSix
<1> HIDE DEF i
<1>9. 2 * FromSix(records[TempAt0600PerDay[d] + 1].env.clock) <= request.dt
  BY <1>4, <1>6, <1>8
<1> QED
  BY <1>4, <1>5, <1>9

(* integrator.ts 163-169, 293 and 332-340, index.ts 174-196: for every request that names  *)
(* whole timesteps, and whatever the heat balance makes of a step, each record is of the   *)
(* weather sample its own time falls into (none twice when the weather covers the days),   *)
(* its coefficients are those frozen at the first step of its own hour, and the entry of   *)
(* 06:00 is the record nearest to it.                                                     *)
THEOREM RecordsFollow == Spec => []RecordsFollowWeather
<1>1. LoopInv => RecordsFollowWeather
  BY SamplesAreOfTheirTime, SixesAreSix, CoefficientsAreOfTheirHour DEF RecordsFollowWeather
<1> QED
  BY <1>1, LoopStarts, LoopKept, PTL DEF Spec

--------------------------------------------------------------------------------
(* Types, and the balance of the heat recorded.  A step's solution is left open, but for   *)
(* this: from numbers, it is numbers. *)
Weathers == [sample : Nat, T_amb : Int, clock : Nat]
Freezings == [hour : Nat, env : Weathers, T : State]
SolveGivesStates == \A t \in State : \A c \in Freezings : \A env \in Weathers : Solve(t, c, env) \in State

(* The heat that went into a node in the reported steps. *)
Stored(n) == SumOf([k \in DOMAIN records |-> records[k].heat[n]], DOMAIN records)

HeatsAreNumbers == \A k \in DOMAIN records : \A n \in Node : records[k].heat[n] \in Int
FrozenOfWeather == coeffs = NotFrozen \/ coeffs \in Freezings
HeatAdds == pc \in {"report", "done"} => \A n \in Node : initialT[n] + Stored(n) = T[n]

(* How far the counters go. *)
DaysBounded ==
  /\ request.maxSpinUpDays \in Nat
  /\ pc = "start" => day = 0 /\ step = 0
  /\ pc = "spinUp" => day < request.maxSpinUpDays
  /\ Len(records) * request.dt < request.length + DayTicks

HeatInv == TypeOK /\ FrozenOfWeather /\ HeatsAreNumbers /\ HeatAdds /\ DaysBounded

LEMMA RequestTypes ==
  ASSUME request \in Requests
  PROVE  /\ request.setpoint \in Int /\ request.maxPower \in Int /\ request.maxSpinUpDays \in Nat
         /\ request.seed = None \/ request.seed \in [DOMAIN request.seed -> Int]
         /\ request.T_amb \in Seq(Int) /\ Len(request.T_amb) \in Nat /\ Len(request.T_amb) > 0
         /\ IsFiniteSet(Node) /\ Air \in Node /\ Unit \in [Node -> Nat] /\ Unit[Air] > 0
         /\ Lowest \in Int /\ Highest \in Int
<1>1. /\ request.setpoint \in Int /\ request.maxPower \in Int /\ request.maxSpinUpDays \in Nat
      /\ request.seed = None \/ request.seed \in [DOMAIN request.seed -> Int]
  BY IntegratorAssumption
<1>2. request.T_amb \in Seq(Int)
  BY IntegratorAssumption
<1>3. Len(request.T_amb) \in Nat /\ Len(request.T_amb) > 0
  BY Ticks
<1> QED
  BY <1>1, <1>2, <1>3, IntegratorAssumption

(* precomputeEnvironment() gives numbers. *)
LEMMA WeatherTypes ==
  ASSUME request \in Requests, NEW d \in Nat, NEW s \in Nat
  PROVE  Environment(d, s) \in Weathers
<1> DEFINE at == Offset(d) + s * request.dt
           len == Len(request.T_amb)
           i == Sample(at)
<1>1. /\ request.dt \in Nat /\ DayTicks \in Nat /\ DayTicks > 0 /\ request.stepTicks \in Nat /\ request.stepTicks > 0
      /\ len \in Nat /\ len > 0 /\ request.startHour \in Nat
  <2>1. StepsPerDay > 0 /\ 2 * request.dt <= DayTicks /\ request.dt > 0 /\ request.dt \in Nat /\ DayTicks \in Nat
    BY Ticks
  <2> QED
    BY <2>1, Ticks
<1>2. s * request.dt \in Nat
  BY <1>1
<1>3. at \in Nat
  <2>1. d * DayTicks \in Nat
    BY <1>1
  <2>2. Offset(d) \in Nat
    BY <2>1 DEF Offset
  <2> QED
    BY <1>2, <2>2
<1> HIDE DEF at
<1>4. i \in Nat /\ i < len
  <2>1. at \div request.stepTicks \in Int
    BY <1>1, <1>3, DivMod
  <2>2. (at \div request.stepTicks) % len \in 0..(len - 1)
    <3> DEFINE q == at \div request.stepTicks
    <3> HIDE DEF q, len
    <3> QED
      BY <1>1, <2>1, DivMod DEF q
  <2> QED
    BY <1>1, <2>2 DEF Sample
<1>5. Interpolated(at) \in Int
  <2> DEFINE j == Least(i + 1, len - 1)
             a == request.T_amb[i + 1]
             b == request.T_amb[j + 1]
             r == at % request.stepTicks
  <2>1. i + 1 \in 1..len /\ j + 1 \in 1..len
    BY <1>1, <1>4 DEF Least
  <2>2. a \in Int /\ b \in Int
    BY <2>1, RequestTypes
  <2>3. r \in Int
    BY <1>1, <1>3, DivMod
  <2>4. Interpolated(at) = a + ((b - a) * r) \div request.stepTicks
    BY DEF Interpolated
  <2> HIDE DEF a, b, r
  <2>5. (b - a) * r \in Int
    BY <2>2, <2>3
  <2>6. ((b - a) * r) \div request.stepTicks \in Int
    BY <1>1, <2>5, DivMod
  <2> QED
    BY <2>2, <2>4, <2>6
<1>6. (request.startHour + s * request.dt) % DayTicks \in Nat
  <2> DEFINE m == request.startHour + s * request.dt
  <2>1. m \in Nat
    BY <1>1, <1>2
  <2> HIDE DEF m
  <2>2. m % DayTicks \in 0..(DayTicks - 1)
    BY <1>1, <2>1, DivMod
  <2> QED
    BY <1>1, <2>2 DEF m
<1>7. Environment(d, s) = [sample |-> i, T_amb |-> Interpolated(at), clock |-> (request.startHour + s * request.dt) % DayTicks]
  BY DEF Environment, at
<1> HIDE DEF i
<1> QED
  BY <1>4, <1>5, <1>6, <1>7 DEF Weathers

LEMMA MeanIsState ==
  ASSUME request \in Requests
  PROVE  Mean \in State
<1> DEFINE len == Len(request.T_amb)
           sum == FoldFunctionOnSet(+, 0, request.T_amb, DOMAIN request.T_amb)
<1>1. DOMAIN request.T_amb = 1..len /\ \A i \in 1..len : request.T_amb[i] \in Int
  BY RequestTypes
<1>2. IsFiniteSet(1..len)
  <2>1. len \in Int
    BY RequestTypes
  <2> HIDE DEF len
  <2> QED
    BY <2>1, FS_Interval
<1>3. sum \in Int
  BY <1>1, <1>2, SumType DEF SumOf
<1>4. Mean = [n \in Node |-> sum \div len]
  BY DEF Mean
<1> HIDE DEF sum
<1>5. sum \div len \in Int
  BY <1>3, RequestTypes, DivMod
<1> QED
  BY <1>4, <1>5 DEF State

(* A step that is taken, and one that is not. *)
LEMMA HeatingIsNumber ==
  ASSUME request \in Requests, NEW base \in State
  PROVE  Heating(base) \in Int
<1> DEFINE gap == request.setpoint - base[Air]
           u == Unit[Air]
<1>1. gap \in Int /\ u \in Int /\ u > 0 /\ request.maxPower \in Int
  BY RequestTypes DEF State
<1> HIDE DEF gap, u
<1>2. gap \div u \in Int
  BY <1>1, DivMod
<1>3. Heating(base) = IF base[Air] < request.setpoint THEN Least(request.maxPower, gap \div u) ELSE 0
  BY DEF Heating, gap, u
<1> QED
  BY <1>1, <1>2, <1>3 DEF Least

LEMMA JumpIsState ==
  ASSUME request \in Requests, T \in State, prevDelta \in State \cup {None}, NEW delta \in State
  PROVE  Jump(delta) \in State
<1>1. CASE prevDelta = None
  BY <1>1 DEF Jump
<1>2. CASE prevDelta # None
  <2> DEFINE num == Dot(delta, prevDelta)
             den == Dot(prevDelta, prevDelta)
             Guess(n) == T[n] + (delta[n] * num) \div (den - num)
  <2>1. ASSUME NEW d \in State, NEW e \in State PROVE Dot(d, e) \in Int
    <3> DEFINE f == [n \in Node |-> d[n] * e[n]]
    <3>1. \A n \in Node : f[n] \in Int
      BY DEF State
    <3> HIDE DEF f
    <3>2. SumOf(f, Node) \in Int
      BY <3>1, RequestTypes, SumType
    <3> QED
      BY <3>2 DEF Dot, f, SumOf
  <2>2. prevDelta \in State
    BY <1>2
  <2>3. num \in Int /\ den \in Int
    BY <2>1, <2>2
  <2>4. Jump(delta) = IF den > 0 /\ 20 * num > den /\ 1000 * num < 999 * den
                      THEN [n \in Node |-> IF Lowest < Guess(n) /\ Guess(n) < Highest THEN Guess(n) ELSE T[n]]
                      ELSE T
    BY <1>2 DEF Jump
  <2> HIDE DEF num, den
  <2>5. ASSUME den > 0, 1000 * num < 999 * den, NEW n \in Node PROVE Guess(n) \in Int
    <3>1. den - num > 0 /\ den - num \in Int
      BY <2>3, <2>5
    <3>2. delta[n] * num \in Int /\ T[n] \in Int
      BY <2>3 DEF State
    <3> DEFINE p == delta[n] * num
               q == den - num
    <3> HIDE DEF p, q
    <3>3. p \div q \in Int
      BY <3>1, <3>2, DivMod DEF p, q
    <3> QED
      BY <3>2, <3>3 DEF p, q
  <2>6. T \in [Node -> Int]
    BY DEF State
  <2> HIDE DEF Guess
  <2> QED
    BY <2>4, <2>5, <2>6 DEF State
<1> QED
  BY <1>1, <1>2

(* The balance depends on the state alone that the recorded flows depend on. *)
LEMMA StoredStands ==
  ASSUME UNCHANGED records
  PROVE  \A n : Stored(n)' = Stored(n)
  BY DEF Stored

LEMMA NothingStored ==
  ASSUME records = <<>>
  PROVE  \A n : Stored(n) = 0
<1> TAKE n
<1> DEFINE f == [k \in DOMAIN records |-> records[k].heat[n]]
<1>1. DOMAIN records = {}
  OBVIOUS
<1> HIDE DEF f
<1>2. SumOf(f, {}) = 0
  BY SumEmpty
<1> QED
  BY <1>1, <1>2 DEF Stored, f

LEMMA HeatRecorded ==
  ASSUME IsSequence, HeatsAreNumbers, NEW e, records' = Append(records, e),
         \A n \in Node : e.heat[n] \in Int
  PROVE  /\ HeatsAreNumbers'
         /\ \A n \in Node : Stored(n) \in Int /\ Stored(n)' = e.heat[n] + Stored(n)
<1> DEFINE len == Len(records)
<1>1. /\ len \in Nat /\ DOMAIN records = 1..len /\ DOMAIN records' = 1..(len + 1)
      /\ \A i \in 1..len : records'[i] = records[i]
      /\ records'[len + 1] = e
  <2>1. /\ \E S : Append(records, e) \in Seq(S)
        /\ Len(records) \in Nat /\ Len(Append(records, e)) = Len(records) + 1
        /\ \A i \in 1..Len(records) : Append(records, e)[i] = records[i]
        /\ Append(records, e)[Len(records) + 1] = e
    BY AppendAny DEF IsSequence
  <2>2. DOMAIN records = 1..len
    BY DEF IsSequence
  <2>3. DOMAIN records' = 1..(len + 1)
    BY <2>1
  <2> QED
    BY <2>1, <2>2, <2>3
<1> HIDE DEF len
<1>2. HeatsAreNumbers'
  <2> SUFFICES ASSUME NEW k \in 1..(len + 1), NEW n \in Node PROVE records'[k].heat[n] \in Int
    BY <1>1 DEF HeatsAreNumbers
  <2>1. CASE k = len + 1
    BY <1>1, <2>1
  <2>2. CASE k # len + 1
    BY <1>1, <2>2 DEF HeatsAreNumbers
  <2> QED
    BY <2>1, <2>2
<1>3. ASSUME NEW n \in Node PROVE Stored(n) \in Int /\ Stored(n)' = e.heat[n] + Stored(n)
  <2> DEFINE f == [k \in 1..len |-> records[k].heat[n]]
             g == [k \in 1..(len + 1) |-> records'[k].heat[n]]
  <2>1. Stored(n) = SumOf(f, 1..len)
    BY <1>1 DEF Stored
  <2>2. Stored(n)' = SumOf(g, 1..(len + 1))
    BY <1>1 DEF Stored
  <2>3. IsFiniteSet(1..len) /\ IsFiniteSet(1..(len + 1))
    BY <1>1, FS_Interval
  <2>4. \A k \in 1..len : f[k] \in Int
    BY <1>1 DEF HeatsAreNumbers
  <2>5. \A k \in 1..(len + 1) : g[k] \in Int
    BY <1>1, <1>2 DEF HeatsAreNumbers
  <2>6. /\ len + 1 \in 1..(len + 1) /\ (1..(len + 1)) \ {len + 1} = 1..len
        /\ \A k \in (1..(len + 1)) \ {len + 1} : f[k] = g[k]
        /\ g[len + 1] = e.heat[n]
    BY <1>1
  <2> DEFINE S == 1..(len + 1)
             z == len + 1
  <2>7. z \in S /\ S \ {z} = 1..len /\ IsFiniteSet(S) /\ (\A k \in S : g[k] \in Int)
        /\ (\A k \in S \ {z} : f[k] = g[k]) /\ g[z] = e.heat[n]
    BY <2>3, <2>5, <2>6
  <2>8. Stored(n)' = SumOf(g, S)
    BY <2>2
  <2> HIDE DEF f, g, S, z
  <2>9. SumOf(g, S) = g[z] + SumOf(f, S \ {z})
    BY <2>7, SumSplit
  <2>10. SumOf(f, 1..len) \in Int
    BY <2>3, <2>4, SumType
  <2> QED
    BY <2>1, <2>7, <2>8, <2>9, <2>10
<1> QED
  BY <1>2, <1>3

LEMMA HeatStarts == Init => HeatInv
<1> SUFFICES ASSUME Init PROVE HeatInv
  OBVIOUS
<1>1. /\ request \in Requests /\ pc = "start" /\ day = 0 /\ step = 0 /\ records = <<>>
      /\ T = [n \in Node |-> 0] /\ before = T /\ initialT = T
      /\ prevDelta = None /\ coeffs = NotFrozen /\ converged = FALSE
  BY DEF Init
<1>2. T \in State
  BY <1>1 DEF State
<1>3. /\ request.length \in Nat /\ DayTicks \in Nat /\ DayTicks > 0 /\ request.dt \in Nat
      /\ StepsPerDay \in Nat
  <2>1. StepsPerDay > 0 /\ 2 * request.dt <= DayTicks /\ request.dt > 0 /\ request.dt \in Nat /\ DayTicks \in Nat
    BY <1>1, Ticks
  <2> QED
    BY <1>1, <2>1, Ticks
<1>4. request.maxSpinUpDays \in Nat
  BY <1>1, RequestTypes
<1>5. Len(records) * request.dt < request.length + DayTicks
  <2>1. Len(records) = 0 /\ 0 * request.dt = 0
    BY <1>1, <1>3
  <2> QED
    BY <1>3, <2>1
<1>6. coeffs.hour = -1
  BY <1>1 DEF NotFrozen
<1>7. -1 \in -1..(Hours - 1)
  BY IntegratorAssumption
<1>8. TypeOK
  <2>1. day \in 0..(request.maxSpinUpDays + request.length)
    BY <1>1, <1>3, <1>4
  <2>2. step \in 0..(DayTicks \div request.dt)
    BY <1>1, <1>3 DEF StepsPerDay
  <2>3. T \in State /\ before \in State /\ initialT \in State
    BY <1>1, <1>2
  <2> QED
    BY <1>1, <1>5, <1>6, <1>7, <2>1, <2>2, <2>3 DEF TypeOK
<1> QED
  BY <1>1, <1>4, <1>5, <1>8 DEF HeatInv, FrozenOfWeather, HeatsAreNumbers, HeatAdds, DaysBounded

(* A failure leaves everything as it is but where the loops stand. *)
LEMMA FailKeepsHeat ==
  ASSUME LoopInv, HeatInv, NEW code \in Errors, Fail(code)
  PROVE  HeatInv'
<1>1. pc' = code /\ UNCHANGED <<request, day, step, T, before, prevDelta, coeffs, converged, initialT, records>>
  BY DEF Fail
<1>2. pc' \in Errors /\ pc' \notin {"start", "spinUp", "report", "done"}
  BY <1>1 DEF Errors
<1>3. TypeOK'
  BY <1>1, <1>2 DEF HeatInv, TypeOK, State, DayTicks
<1>4. FrozenOfWeather' /\ HeatsAreNumbers' /\ HeatAdds' /\ DaysBounded'
  BY <1>1, <1>2 DEF HeatInv, FrozenOfWeather, HeatsAreNumbers, HeatAdds, DaysBounded, NotFrozen, Freezings, State,
     Weathers, DayTicks
<1> QED
  BY <1>3, <1>4 DEF HeatInv

(* What a new day starts from is a state, and spin-up days stay below their cap. *)
LEMMA DayBeginsHeat ==
  ASSUME LoopInv, HeatInv, UNCHANGED <<request, records>>, converged' \in BOOLEAN,
         before' \in State, prevDelta' \in State \cup {None},
         NEW d \in Nat, NEW state \in State, BeginDay(d, state),
         \/ pc' = "spinUp" /\ d < request.maxSpinUpDays /\ UNCHANGED initialT
         \/ pc' = "report" /\ d <= request.length /\ initialT' \in State
            /\ \A n \in Node : initialT'[n] + Stored(n) = state[n]
  PROVE  HeatInv'
<1>1. day' = d /\ step' = 0 /\ coeffs' = NotFrozen /\ T' = state
  BY DEF BeginDay
<1>2. /\ request \in Requests /\ request.length \in Nat /\ request.maxSpinUpDays \in Nat
      /\ StepsPerDay \in Nat
  BY RequestTypes, Ticks DEF LoopInv
<1>3. TypeOK'
  <2>1. request' \in Requests /\ pc' \in {"start", "spinUp", "report", "done"} \cup Errors
    BY <1>2
  <2>2. day' \in 0..(request'.maxSpinUpDays + request'.length)
    BY <1>1, <1>2
  <2>3. step' \in 0..(DayTicks \div request'.dt)
    BY <1>1, <1>2 DEF StepsPerDay
  <2>4. T' \in State /\ before' \in State /\ initialT' \in State
    BY <1>1 DEF HeatInv, TypeOK
  <2>5. coeffs'.hour \in -1..(Hours - 1)
    BY <1>1, IntegratorAssumption DEF NotFrozen
  <2>6. Len(records') * request'.dt < request'.length + DayTicks
    BY DEF HeatInv, TypeOK
  <2> QED
    BY <2>1, <2>2, <2>3, <2>4, <2>5, <2>6 DEF TypeOK, State, DayTicks
<1>4. FrozenOfWeather'
  BY <1>1 DEF FrozenOfWeather, NotFrozen
<1>5. HeatsAreNumbers'
  BY DEF HeatInv, HeatsAreNumbers
<1>6. HeatAdds'
  <2>1. \A n : Stored(n)' = Stored(n)
    BY StoredStands
  <2> QED
    BY <1>1, <2>1 DEF HeatAdds
<1>7. DaysBounded'
  BY <1>1 DEF HeatInv, DaysBounded, DayTicks
<1> QED
  BY <1>3, <1>4, <1>5, <1>6, <1>7 DEF HeatInv

LEMMA ReportBeginsHeat ==
  ASSUME LoopInv, HeatInv, UNCHANGED <<request, records>>, converged' \in BOOLEAN,
         before' \in State, prevDelta' \in State \cup {None},
         NEW state \in State, BeginReport(state), records = <<>>
  PROVE  HeatInv'
<1>1. pc' = "report" /\ initialT' = state /\ BeginDay(0, state)
  BY DEF BeginReport
<1>2. \A n : Stored(n) = 0
  BY NothingStored
<1>3. \A n \in Node : initialT'[n] + Stored(n) = state[n]
  BY <1>1, <1>2 DEF State
<1>4. 0 \in Nat /\ 0 <= request.length
  BY Ticks DEF LoopInv
<1> QED
  BY <1>1, <1>3, <1>4, DayBeginsHeat

LEMMA StartKeepsHeat == ASSUME LoopInv, HeatInv, Start PROVE HeatInv'
<1> DEFINE seed == IF request.seed = None THEN Mean ELSE request.seed
           short == MultiDay /\ Available < request.length
<1>1. pc = "start" /\ records = <<>> /\ request \in Requests
  BY DEF Start, LoopInv, Counters
<1>2. CASE short
  <2>1. Fail("WEATHER_INVALID")
    BY <1>2 DEF Start
  <2> QED
    BY <2>1, FailKeepsHeat DEF Errors
<1>3. CASE ~short /\ DOMAIN seed # Node
  <2>1. Fail("INVALID_INPUT")
    BY <1>3 DEF Start
  <2> QED
    BY <2>1, FailKeepsHeat DEF Errors
<1>4. CASE ~short /\ DOMAIN seed = Node
  <2>1. seed \in State
    BY <1>1, <1>4, MeanIsState, RequestTypes DEF State
  <2>2. /\ UNCHANGED <<request, records, prevDelta, converged>> /\ before' = seed
        /\ IF request.maxSpinUpDays = 0 THEN BeginReport(seed)
           ELSE pc' = "spinUp" /\ BeginDay(0, seed) /\ UNCHANGED initialT
    BY <1>4 DEF Start
  <2>3. converged' \in BOOLEAN /\ before' \in State /\ prevDelta' \in State \cup {None}
    BY <2>1, <2>2 DEF HeatInv, TypeOK
  <2> HIDE DEF seed
  <2>4. CASE request.maxSpinUpDays = 0
    BY <1>1, <2>1, <2>2, <2>3, <2>4, ReportBeginsHeat
  <2>5. CASE request.maxSpinUpDays # 0
    <3>1. 0 \in Nat /\ 0 < request.maxSpinUpDays
      BY <1>1, <2>5, RequestTypes
    <3> QED
      BY <2>1, <2>2, <2>3, <2>5, <3>1, DayBeginsHeat
  <2> QED
    BY <2>4, <2>5
<1> QED
  BY <1>2, <1>3, <1>4

LEMMA EndSpinUpDayKeepsHeat == ASSUME LoopInv, HeatInv, EndSpinUpDay PROVE HeatInv'
<1> DEFINE delta == [n \in Node |-> T[n] - before[n]]
           next == Jump(delta)
<1>1. /\ pc = "spinUp" /\ records = <<>> /\ day \in Nat /\ UNCHANGED <<request, records>>
      /\ request \in Requests /\ day < request.maxSpinUpDays /\ request.maxSpinUpDays \in Nat
  BY DEF EndSpinUpDay, LoopInv, Counters, HeatInv, DaysBounded
<1>2. T \in State /\ before \in State /\ prevDelta \in State \cup {None} /\ converged \in BOOLEAN
  BY DEF HeatInv, TypeOK
<1>3. delta \in State
  BY <1>2 DEF State
<1>4. next \in State
  <2> HIDE DEF delta
  <2> QED
    BY <1>1, <1>2, <1>3, JumpIsState
<1>5. IF Settled(delta)
      THEN converged' = TRUE /\ BeginReport(T) /\ UNCHANGED <<before, prevDelta>>
      ELSE /\ prevDelta' = delta /\ before' = next /\ UNCHANGED converged
           /\ IF day + 1 = request.maxSpinUpDays THEN BeginReport(next)
              ELSE BeginDay(day + 1, next) /\ UNCHANGED <<pc, initialT>>
  BY DEF EndSpinUpDay
<1> HIDE DEF delta, next
<1>6. CASE Settled(delta)
  BY <1>1, <1>2, <1>5, <1>6, ReportBeginsHeat
<1>7. CASE ~Settled(delta)
  <2>1. converged' \in BOOLEAN /\ before' \in State /\ prevDelta' \in State \cup {None}
    BY <1>2, <1>3, <1>4, <1>5, <1>7
  <2>2. CASE day + 1 = request.maxSpinUpDays
    BY <1>1, <1>4, <1>5, <1>7, <2>1, <2>2, ReportBeginsHeat
  <2>3. CASE day + 1 # request.maxSpinUpDays
    <3>1. day + 1 \in Nat /\ day + 1 < request.maxSpinUpDays /\ pc' = "spinUp"
          /\ BeginDay(day + 1, next) /\ UNCHANGED initialT
      BY <1>1, <1>5, <1>7, <2>3
    <3> QED
      BY <1>1, <1>4, <2>1, <3>1, DayBeginsHeat
  <2> QED
    BY <2>2, <2>3
<1> QED
  BY <1>6, <1>7

LEMMA EndReportedDayKeepsHeat == ASSUME LoopInv, HeatInv, EndReportedDay PROVE HeatInv'
<1>1. /\ pc = "report" /\ UNCHANGED <<request, before, prevDelta, converged, initialT, records>>
      /\ request \in Requests /\ day \in Nat
  BY DEF EndReportedDay, LoopInv, Counters
<1>2. /\ T \in State /\ before \in State /\ prevDelta \in State \cup {None} /\ converged \in BOOLEAN
      /\ initialT \in State
  BY DEF HeatInv, TypeOK
<1>3. \A n \in Node : initialT[n] + Stored(n) = T[n]
  BY <1>1 DEF HeatInv, HeatAdds
<1>4. CASE (day + 1) * DayTicks < request.length
  <2>1. BeginDay(day + 1, T) /\ pc' = "report"
    BY <1>1, <1>4 DEF EndReportedDay
  <2>2. day + 1 <= request.length
    <3> DEFINE d == day + 1
    <3>1. d \in Nat /\ DayTicks \in Nat /\ DayTicks >= 1 /\ request.length \in Nat
      <4>1. request.dt > 0 /\ request.dt \in Nat /\ 2 * request.dt <= DayTicks /\ DayTicks \in Nat
        BY <1>1, Ticks
      <4> QED
        BY <1>1, <4>1, Ticks
    <3>2. d * DayTicks < request.length
      BY <1>4
    <3> HIDE DEF d
    <3>3. d * 1 <= d * DayTicks /\ d * DayTicks \in Int
      BY <3>1, Grows
    <3> QED
      BY <3>1, <3>2, <3>3 DEF d
  <2> QED
    BY <1>1, <1>2, <1>3, <2>1, <2>2, DayBeginsHeat
<1>5. CASE ~((day + 1) * DayTicks < request.length)
  <2>1. pc' = "done" /\ UNCHANGED <<day, step, T, coeffs>>
    BY <1>5 DEF EndReportedDay
  <2>2. TypeOK'
    BY <1>1, <2>1 DEF HeatInv, TypeOK, State, DayTicks
  <2>3. HeatAdds'
    <3>1. \A n : Stored(n)' = Stored(n)
      BY <1>1, StoredStands
    <3> QED
      BY <1>1, <1>3, <2>1, <3>1 DEF HeatAdds
  <2>4. FrozenOfWeather'
    BY <2>1 DEF HeatInv, FrozenOfWeather, NotFrozen, Freezings, State, Weathers
  <2>5. HeatsAreNumbers' /\ DaysBounded'
    BY <1>1, <2>1 DEF HeatInv, HeatsAreNumbers, DaysBounded, DayTicks
  <2> QED
    BY <2>2, <2>3, <2>4, <2>5 DEF HeatInv
<1> QED
  BY <1>4, <1>5

(* The hours of a day. *)
LEMMA HourOfDay ==
  ASSUME request \in Requests, NEW s \in Nat, s * request.dt < DayTicks
  PROVE  HourIndex(s) \in 0..(Hours - 1)
<1> DEFINE at == s * request.dt
           h == at \div HourTicks
<1>1. HourTicks \in Nat /\ HourTicks > 0 /\ Hours \in Nat
  BY IntegratorAssumption
<1>2. at \in Nat /\ at < HourTicks * Hours
  <2>1. request.dt \in Nat
    BY Ticks
  <2> QED
    BY <1>1, <2>1 DEF DayTicks
<1> HIDE DEF at
<1>3. h \in Int /\ at % HourTicks \in 0..(HourTicks - 1) /\ at = HourTicks * h + (at % HourTicks)
  BY <1>1, <1>2, DivMod
<1>4. h \in Nat
  BY HoursGrow DEF HourIndex, at
<1> HIDE DEF h
<1>5. h < Hours
  <2>1. SUFFICES ASSUME Hours <= h PROVE FALSE
    BY <1>1, <1>4
  <2>2. HourTicks * Hours <= HourTicks * h /\ HourTicks * Hours \in Int /\ HourTicks * h \in Int
    BY <1>1, <1>4, <2>1, Grows
  <2> QED
    BY <1>1, <1>2, <1>3, <2>2
<1> QED
  BY <1>1, <1>4, <1>5 DEF HourIndex, h, at

LEMMA StepIsState ==
  ASSUME SolveGivesStates, LoopInv, HeatInv, pc \in {"spinUp", "report"}, step * request.dt < DayTicks,
         NEW env, env = Environment(WeatherDay, step), NEW c, c = Coefficients(env, step),
         NEW base, base = Solve(T, c, env)
  PROVE  /\ c \in Freezings /\ c.hour \in -1..(Hours - 1)
         /\ base \in State /\ [n \in Node |-> base[n] + Heating(base) * Unit[n]] \in State
<1>1. request \in Requests /\ step \in Nat /\ WeatherDay \in Nat /\ T \in State
  <2>1. StepsPerDay \in Nat
    BY Ticks DEF LoopInv
  <2> QED
    BY <2>1 DEF LoopInv, Counters, WeatherDay, HeatInv, TypeOK
<1>2. env \in Weathers
  BY <1>1, WeatherTypes
<1>3. HourIndex(step) \in 0..(Hours - 1) /\ Hours \in Nat
  BY <1>1, HourOfDay, IntegratorAssumption
<1>4. c \in Freezings /\ c.hour \in -1..(Hours - 1)
  <2>1. CASE coeffs.hour # HourIndex(step)
    <3>1. c = [hour |-> HourIndex(step), env |-> env, T |-> T]
      BY <2>1 DEF Coefficients
    <3>2. HourIndex(step) \in Nat
      BY <1>3
    <3>3. c \in Freezings
      BY <1>1, <1>2, <3>1, <3>2 DEF Freezings
    <3>4. c.hour = HourIndex(step)
      BY <3>1
    <3> QED
      BY <1>3, <3>3, <3>4
  <2>2. CASE coeffs.hour = HourIndex(step)
    <3>1. c = coeffs
      BY <2>2 DEF Coefficients
    <3>2. coeffs # NotFrozen
      BY <1>3, <2>2 DEF NotFrozen
    <3> QED
      BY <3>1, <3>2 DEF HeatInv, FrozenOfWeather, TypeOK
  <2> QED
    BY <2>1, <2>2
<1>5. base \in State
  BY <1>1, <1>2, <1>4 DEF SolveGivesStates
<1>6. Heating(base) \in Int
  BY <1>1, <1>5, HeatingIsNumber
<1>7. \A n \in Node : base[n] \in Int /\ Unit[n] \in Int
  BY <1>1, <1>5, RequestTypes DEF State
<1>8. \A n \in Node : base[n] + Heating(base) * Unit[n] \in Int
  <2> TAKE n \in Node
  <2> DEFINE q == Heating(base)
             u == Unit[n]
  <2>1. q \in Int /\ u \in Int /\ base[n] \in Int
    BY <1>6, <1>7
  <2> HIDE DEF q, u
  <2>2. q * u \in Int
    BY <2>1
  <2> QED
    BY <2>1, <2>2 DEF q, u
<1> QED
  BY <1>4, <1>5, <1>8 DEF State

LEMMA TimeStepKeepsHeat == ASSUME SolveGivesStates, LoopInv, HeatInv, TimeStep PROVE HeatInv'
<1> DEFINE env  == Environment(WeatherDay, step)
           c    == Coefficients(env, step)
           base == Solve(T, c, env)
           next == [n \in Node |-> base[n] + Heating(base) * Unit[n]]
           e    == [env |-> env, coeffs |-> [hour |-> c.hour, sample |-> c.env.sample],
                    T |-> next, heat |-> [n \in Node |-> next[n] - T[n]]]
<1>1. /\ pc \in {"spinUp", "report"} /\ step * request.dt < DayTicks /\ request \in Requests
      /\ day \in Nat /\ step \in 0..StepsPerDay /\ IsSequence
  BY DEF TimeStep, LoopInv, Counters
<1>2. /\ step \in Nat /\ step < StepsPerDay /\ StepsPerDay \in Nat
      /\ request.dt \in Nat /\ DayTicks \in Nat /\ request.length \in Nat
      /\ request.dt * StepsPerDay = DayTicks
  <2>1. step \in Nat /\ StepsPerDay \in Nat
    BY <1>1, Ticks
  <2> QED
    BY <1>1, <2>1, StepTicks, Ticks
<1>3. CASE ~Plausible(next)
  <2>1. Fail("SOLVER_DIVERGED")
    BY <1>3 DEF TimeStep, WeatherDay
  <2> QED
    BY <2>1, FailKeepsHeat DEF Errors
<1>4. CASE Plausible(next)
  <2>1. /\ T' = next /\ coeffs' = c /\ step' = step + 1
        /\ UNCHANGED <<request, pc, day, before, prevDelta, converged, initialT>>
        /\ records' = IF pc = "spinUp" THEN records ELSE Append(records, e)
    BY <1>4 DEF TimeStep, WeatherDay
  <2>2. c \in Freezings /\ c.hour \in -1..(Hours - 1) /\ base \in State /\ next \in State
    <3> DEFINE w == env
               f == c
               b == base
    <3>1. w = Environment(WeatherDay, step) /\ f = Coefficients(w, step) /\ b = Solve(T, f, w)
      OBVIOUS
    <3> HIDE DEF w, f, b
    <3>2. /\ f \in Freezings /\ f.hour \in -1..(Hours - 1)
          /\ b \in State /\ [n \in Node |-> b[n] + Heating(b) * Unit[n]] \in State
      BY <1>1, <3>1, StepIsState
    <3> QED
      BY <3>2 DEF w, f, b
  <2>3. e.heat = [n \in Node |-> next[n] - T[n]]
    OBVIOUS
  <2>4. T \in State
    BY DEF HeatInv, TypeOK
  <2> HIDE DEF env, c, base, next, e
  <2>5. \A n \in Node : e.heat[n] \in Int /\ e.heat[n] = next[n] - T[n] /\ next[n] \in Int /\ T[n] \in Int
    BY <2>2, <2>3, <2>4 DEF State
  <2>6. \/ records' = records /\ pc = "spinUp"
        \/ records' = Append(records, e) /\ pc = "report"
    BY <1>1, <2>1
  <2>7. HeatsAreNumbers' /\ HeatAdds'
    <3>1. CASE records' = records /\ pc = "spinUp"
      BY <2>1, <3>1 DEF HeatInv, HeatsAreNumbers, HeatAdds
    <3>2. CASE records' = Append(records, e) /\ pc = "report"
      <4>1. HeatsAreNumbers
        BY DEF HeatInv
      <4>2. /\ HeatsAreNumbers'
            /\ \A n \in Node : Stored(n) \in Int /\ Stored(n)' = e.heat[n] + Stored(n)
        BY <1>1, <2>5, <3>2, <4>1, HeatRecorded
      <4>3. \A n \in Node : initialT[n] + Stored(n) = T[n] /\ initialT[n] \in Int
        BY <3>2 DEF HeatInv, HeatAdds, TypeOK, State
      <4>4. \A n \in Node : initialT'[n] + Stored(n)' = T'[n]
        BY <2>1, <2>5, <4>2, <4>3
      <4> QED
        BY <4>2, <4>4 DEF HeatAdds
    <3> QED
      BY <2>6, <3>1, <3>2
  <2>8. Len(records') * request'.dt < request'.length + DayTicks
    <3>1. CASE records' = records
      BY <2>1, <3>1 DEF HeatInv, TypeOK
    <3>2. CASE records' = Append(records, e) /\ pc = "report"
      <4>1. Len(records') = StepsPerDay * day + step + 1
        <5>1. Len(Append(records, e)) = Len(records) + 1 /\ Len(records) = StepsPerDay * day + step
          BY <1>1, <3>2, AppendAny DEF IsSequence, LoopInv, Counters
        <5> QED
          BY <3>2, <5>1
      <4>2. DayTicks * day < request.length
        BY <3>2 DEF LoopInv, Counters
      <4> DEFINE dt == request.dt
                 spd == StepsPerDay
      <4>3. dt \in Nat /\ spd \in Nat /\ dt * spd = DayTicks /\ Len(records') = spd * day + step + 1 /\ step + 1 <= spd
        BY <1>2, <4>1
      <4> HIDE DEF dt, spd
      <4>4. dt * (step + 1) <= dt * spd
        BY <1>2, <4>3, Grows
      <4>5. (spd * day + (step + 1)) * dt = (dt * spd) * day + dt * (step + 1)
        BY <1>1, <1>2, <4>3
      <4>6. DayTicks * day \in Nat /\ dt * (step + 1) \in Nat
        BY <1>1, <1>2, <4>3
      <4>7. Len(records') * dt = DayTicks * day + dt * (step + 1)
        BY <1>1, <1>2, <4>3, <4>5
      <4>8. Len(records') * dt < request.length + DayTicks
        <5> DEFINE w == DayTicks * day
                   v == dt * (step + 1)
        <5>1. w \in Nat /\ v \in Nat /\ w < request.length /\ v <= DayTicks /\ Len(records') * dt = w + v
          BY <4>2, <4>3, <4>4, <4>6, <4>7
        <5> HIDE DEF w, v
        <5> QED
          BY <1>2, <5>1
      <4> QED
        BY <2>1, <4>8 DEF dt
    <3> QED
      BY <2>6, <3>1, <3>2
  <2>9. TypeOK'
    <3>1. step' \in 0..(DayTicks \div request'.dt)
      BY <1>2, <2>1 DEF StepsPerDay
    <3> QED
      BY <2>1, <2>2, <2>8, <3>1 DEF HeatInv, TypeOK, State, DayTicks
  <2>10. FrozenOfWeather'
    BY <2>1, <2>2 DEF FrozenOfWeather, NotFrozen, Freezings, State, Weathers
  <2>11. DaysBounded'
    BY <1>1, <2>1, <2>8 DEF HeatInv, DaysBounded, DayTicks
  <2> QED
    BY <2>7, <2>9, <2>10, <2>11 DEF HeatInv
<1> QED
  BY <1>3, <1>4

LEMMA HeatKept ==
  ASSUME SolveGivesStates, LoopInv, HeatInv, [Next]_vars
  PROVE  HeatInv'
<1>1. CASE UNCHANGED vars
  <2>1. UNCHANGED <<request, pc, day, step, T, before, prevDelta, coeffs, converged, initialT, records>>
    BY <1>1 DEF vars
  <2>2. HeatAdds'
    <3>1. \A n : Stored(n)' = Stored(n)
      BY <2>1, StoredStands
    <3> QED
      BY <2>1, <3>1 DEF HeatInv, HeatAdds
  <2>3. TypeOK'
    BY <2>1 DEF HeatInv, TypeOK, State, DayTicks
  <2>4. FrozenOfWeather' /\ HeatsAreNumbers' /\ DaysBounded'
    BY <2>1 DEF HeatInv, FrozenOfWeather, HeatsAreNumbers, DaysBounded, NotFrozen, Freezings, State, Weathers, DayTicks
  <2> QED
    BY <2>2, <2>3, <2>4 DEF HeatInv
<1> QED
  BY <1>1, StartKeepsHeat, TimeStepKeepsHeat, EndSpinUpDayKeepsHeat, EndReportedDayKeepsHeat DEF Next

LEMMA LoopsStand == SolveGivesStates /\ Spec => [](LoopInv /\ HeatInv)
<1> SUFFICES ASSUME SolveGivesStates PROVE Spec => [](LoopInv /\ HeatInv)
  OBVIOUS
<1>1. Init => LoopInv /\ HeatInv
  BY LoopStarts, HeatStarts
<1>2. (LoopInv /\ HeatInv) /\ [Next]_vars => (LoopInv /\ HeatInv)'
  BY LoopKept, HeatKept
<1> QED
  BY <1>1, <1>2, PTL DEF Spec

(* integrate(): the counters of its loops, the states and the frozen coefficients keep     *)
(* their types; spin-up days stay below their cap and the records within a day of the     *)
(* period that was asked for. *)
THEOREM LoopTypes ==
  ASSUME SolveGivesStates
  PROVE  Spec => []TypeOK
<1>1. LoopInv /\ HeatInv => TypeOK
  BY DEF HeatInv
<1> QED
  BY <1>1, LoopsStand, PTL

(* integrator.ts 116-126: whatever a step's solution, the weather, the seed and the heater, *)
(* and however spin-up ends (settled, extrapolated or at its cap), the baseline that is     *)
(* returned and the heat recorded since add up to the final state. *)
THEOREM BalanceAlwaysCloses ==
  ASSUME SolveGivesStates
  PROVE  Spec => []BalanceCloses
<1>1. LoopInv /\ HeatInv => BalanceCloses
  BY DEF HeatInv, HeatAdds, BalanceCloses, Stored, SumOf
<1> QED
  BY <1>1, LoopsStand, PTL
================================================================================
