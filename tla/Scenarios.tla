-------------------------------- MODULE Scenarios --------------------------------
(* packages/data/src/scenarios.ts: the days of a recorded year that a design is tried on,  *)
(* and the weather cut out of the record for each.                                        *)
(*                                                                                        *)
(* All days of a record have as many samples, so means are compared as sums; where the    *)
(* code divides by two standard deviations, both sides are squared.                       *)
EXTENDS Integers, Sequences, FiniteSets, SequencesExt

CONSTANTS MonthEnds,      \* MONTH_CUM_DAYS
          Overhead,       \* by clock hour: what the sun would give without air, or 0 below
                          \* COS_Z_FLOOR (solar/geometry.ts, solar/decomposition.ts)
          Locations,      \* TMY_LOCATIONS
          OvercastGhi,    \* OVERCAST_GHI_THRESHOLD_WHM2
          ClearSkyKt,     \* CLEAR_SKY_KT_THRESHOLD, in per cent
          WinterPercent,  \* DESIGN_WINTER_PERCENTILE, in per cent of 1..100
          NightEndHour

Error(why) == [error |-> why]
IsError(x) == "error" \in DOMAIN x

Abs1(x) == IF x < 0 THEN -x ELSE x
Sum1(f) == FoldFunction(+, 0, f)

--------------------------------------------------------------------------------
(* computeDailyStats(): a row for each full day of the record. *)
PerDay(series) == 24 \div series.stepHours
ClockHour(series, h) == (series.startHour + h * series.stepHours) % 24
Clearness(ghi, overhead) ==
  LET kt == (100 * ghi) \div overhead IN IF kt < 0 THEN 0 ELSE IF kt > 100 THEN 100 ELSE kt

DailyStats(series) ==
  LET hours == 0..(PerDay(series) - 1)
      Clock(h) == ClockHour(series, h)
      sunny == {h \in hours : Overhead[Clock(h)] > 0}
      night == {h \in hours : Clock(h) < NightEndHour}
      Row(d) ==
        LET at(h) == (d - 1) * PerDay(series) + h + 1
            temps(H) == Sum1([h \in H |-> series.T_amb[at(h)]])
        IN [dayOfYear |-> series.startDayOfYear + d - 1,
            temp      |-> temps(hours),
            ghiTotal  |-> series.stepHours * Sum1([h \in hours |-> series.GHI[at(h)]]),
            clear     |-> Sum1([h \in sunny |-> Clearness(series.GHI[at(h)], Overhead[Clock(h)])])
                            > ClearSkyKt * Cardinality(sunny),
            nightTemp |-> temps(IF night = {} THEN hours ELSE night)]
  IN [d \in 1..(Len(series.T_amb) \div PerDay(series)) |-> Row(d)]

(* monthOfDayOfYear(): records that run past New Year start over. *)
MonthOf(dayOfYear) ==
  LET day == ((dayOfYear - 1) % Last(MonthEnds)) + 1
  IN CHOOSE m \in DOMAIN MonthEnds : day <= MonthEnds[m] /\ \A k \in 1..(m - 1) : day > MonthEnds[k]

Earliest(D) == CHOOSE d \in D : \A e \in D : d <= e

(* pickRepresentativeDay(): the day nearest to the pool's mean, temperature and sun each in *)
(* units of its own deviation; of two as near, the earlier.                                *)
Spread(f) ==   \* the variance, times the square of the number of days; `|| 1'
  LET v == Cardinality(DOMAIN f) * Sum1([d \in DOMAIN f |-> f[d] * f[d]]) - Sum1(f) * Sum1(f)
  IN IF v = 0 THEN 1 ELSE v
Distances(f) ==   \* of each day from the mean, times the number of days
  LET n == Cardinality(DOMAIN f)
      total == Sum1(f)
  IN [d \in DOMAIN f |-> Abs1(n * f[d] - total)]

(* Whether a day is nearer than another, by how much nearer in temperature and how much    *)
(* further in sun: further / sG < nearer / sT.                                             *)
Nearer(nearer, further, vT, vG) ==
  \/ nearer >= 0 /\ further <= 0 /\ <<nearer, further>> # <<0, 0>>
  \/ nearer > 0 /\ further > 0 /\ further * further * vT < nearer * nearer * vG
  \/ nearer < 0 /\ further < 0 /\ further * further * vT > nearer * nearer * vG
NearestOf(offT, offG, vT, vG) ==
  Earliest({d \in DOMAIN offT :
              \A e \in DOMAIN offT : ~Nearer(offT[d] - offT[e], offG[e] - offG[d], vT, vG)})
PickRepresentative(stats, D) ==
  LET temp == [d \in D |-> stats[d].temp]
      ghi == [d \in D |-> stats[d].ghiTotal]
  IN NearestOf(Distances(temp), Distances(ghi), Spread(temp), Spread(ghi))

(* The scan for the longest run of overcast days. *)
Overcast(row) == row.ghiTotal < OvercastGhi
RunOf(start, len) == [start |-> start, len |-> len]
StreakGluing(stats) ==
  FoldLeft(LAMBDA acc, d :
             IF ~Overcast(stats[d]) THEN acc
             ELSE LET cur == IF acc.cur.len = 0 THEN RunOf(d, 1) ELSE RunOf(acc.cur.start, acc.cur.len + 1)
                  IN [cur |-> cur, best |-> IF cur.len > acc.best.len THEN cur ELSE acc.best],
           [cur |-> RunOf(0, 0), best |-> RunOf(0, 0)], [d \in DOMAIN stats |-> d]).best
LongestStreak(stats) ==
  FoldLeft(LAMBDA acc, d :
             IF ~Overcast(stats[d]) THEN [acc EXCEPT !.cur.len = 0]
             ELSE LET cur == IF acc.cur.len = 0 THEN RunOf(d, 1) ELSE RunOf(acc.cur.start, acc.cur.len + 1)
                  IN [cur |-> cur, best |-> IF cur.len > acc.best.len THEN cur ELSE acc.best],
           [cur |-> RunOf(0, 0), best |-> RunOf(0, 0)], [d \in DOMAIN stats |-> d]).best

(* siteAngleFor(). *)
Sited(location) == location \in Locations

(* buildScenarios(). *)
ScenariosOf(stats) ==
  LET days == DOMAIN stats
      Colder(d, e) == stats[d].temp < stats[e].temp
      coldest == Earliest({d \in days : \A e \in days : ~Colder(e, d)})
      hottest == Earliest({d \in days : \A e \in days : ~Colder(d, e)})
      Before(d) == {e \in days : Colder(e, d) \/ (~Colder(d, e) /\ e < d)}   \* a stable sort
      rank == (WinterPercent * Cardinality(days) + 99) \div 100
      streak == LongestStreak(stats)
      clear == {d \in days : d # coldest /\ stats[d].clear}
      One(id, d) == [id |-> id, startDayOfYear |-> stats[d].dayOfYear, days |-> 1]
      months == {m \in DOMAIN MonthEnds : \E d \in days : MonthOf(stats[d].dayOfYear) = m}
  IN IF days = {} THEN Error("no full day")
     ELSE IF streak.len = 0 THEN Error("no overcast day")
     ELSE IF clear = {} THEN Error("no clear day")
     ELSE [scenarios |->
        {One(<<"month", m>>, PickRepresentative(stats, {d \in days : MonthOf(stats[d].dayOfYear) = m})) : m \in months}
        \cup {One(<<"coldest-day">>, coldest), One(<<"hottest-day">>, hottest),
              One(<<"design-winter-day">>, CHOOSE d \in days : Cardinality(Before(d)) = rank - 1),
              [One(<<"sunless-streak">>, streak.start) EXCEPT !.days = streak.len],
              One(<<"clear-cold-night">>,
                  Earliest({d \in clear : \A e \in clear : stats[d].nightTemp <= stats[e].nightTemp})),
              One(<<"annual-mean-day">>, PickRepresentative(stats, days))}]

BuildScenarios(series, location) ==
  IF Sited(location) THEN ScenariosOf(DailyStats(series)) ELSE Error("no known site")

(* scenarioWeather(): the window, verbatim; JavaScript's slice(a, b) is SubSeq(a + 1, b). *)
ScenarioWeather(series, s) ==
  LET startIdx == (s.startDayOfYear - series.startDayOfYear) * PerDay(series)
      endIdx == startIdx + s.days * PerDay(series)
  IN IF startIdx < 0 \/ endIdx > Len(series.T_amb) THEN Error("window")
     ELSE [series EXCEPT !.startDayOfYear = s.startDayOfYear,
                         !.T_amb = SubSeq(series.T_amb, startIdx + 1, endIdx),
                         !.GHI = SubSeq(series.GHI, startIdx + 1, endIdx)]

--------------------------------------------------------------------------------
(* scenarios.ts 5-9, 411-416: every scenario is looked up in the record and never made up. *)
(* What is cut out for one is, day by day, what it was chosen for; it is the record's      *)
(* coldest, hottest, longest overcast, or nearest to the mean, whatever the record holds    *)
(* and wherever in the year it starts.                                                     *)
CutIsWhatWasChosen(series, stats, s) ==
  LET w == ScenarioWeather(series, s)
      first == CHOOSE d \in DOMAIN stats : stats[d].dayOfYear = s.startDayOfYear
  IN ~IsError(w) /\ DailyStats(w) = SubSeq(stats, first, first + s.days - 1)

InMonth(dayOfYear, m) ==
  \E year \in 0..1 :
    LET day == dayOfYear - year * Last(MonthEnds)
    IN day <= MonthEnds[m] /\ day > (IF m = 1 THEN 0 ELSE MonthEnds[m - 1])

IsExtreme(stats, s) ==
  LET days == DOMAIN stats
      d == CHOOSE e \in days : stats[e].dayOfYear = s.startDayOfYear
      AsOvercast(a, b) == a \in days /\ b \in days /\ \A e \in a..b : Overcast(stats[e])
      NotOutdone(D) ==
        LET t == Sum1([e \in D |-> stats[e].temp])
            g == Sum1([e \in D |-> stats[e].ghiTotal])
            n == Cardinality(D)
        IN ~\E e \in D : /\ Abs1(n * stats[e].temp - t) < Abs1(n * stats[d].temp - t)
                         /\ Abs1(n * stats[e].ghiTotal - g) < Abs1(n * stats[d].ghiTotal - g)
  IN CASE s.id[1] = "month" ->
            InMonth(stats[d].dayOfYear, s.id[2]) /\ NotOutdone({e \in days : InMonth(stats[e].dayOfYear, s.id[2])})
       [] s.id[1] = "annual-mean-day" -> NotOutdone(days)
       [] s.id[1] = "coldest-day" -> \A e \in days : stats[d].temp <= stats[e].temp
       [] s.id[1] = "hottest-day" -> \A e \in days : stats[d].temp >= stats[e].temp
       [] s.id[1] = "design-winter-day" ->
            LET share(D) == 100 * Cardinality(D)
            IN /\ share({e \in days : stats[e].temp < stats[d].temp}) < WinterPercent * Cardinality(days)
               /\ share({e \in days : stats[e].temp <= stats[d].temp}) >= WinterPercent * Cardinality(days)
       [] s.id[1] = "sunless-streak" ->
            AsOvercast(d, d + s.days - 1) /\ \A e \in days : ~AsOvercast(e, e + s.days)
       [] s.id[1] = "clear-cold-night" ->
            /\ stats[d].clear /\ \E e \in days \ {d} : stats[e].temp <= stats[d].temp
            /\ \A e \in days : stats[e].clear /\ stats[e].nightTemp < stats[d].nightTemp
                 => \A f \in days : stats[e].temp <= stats[f].temp

AreOfTheRecord(built, series, stats) ==
  IF IsError(built)
  THEN built.error = "no overcast day" => \A d \in DOMAIN stats : ~Overcast(stats[d])
  ELSE /\ \A s \in built.scenarios : CutIsWhatWasChosen(series, stats, s) /\ IsExtreme(stats, s)
       /\ {s.id[2] : s \in {s \in built.scenarios : s.id[1] = "month"}}
            = {m \in DOMAIN MonthEnds : \E d \in DOMAIN stats : InMonth(stats[d].dayOfYear, m)}
ScenariosAreOfTheRecord(series, location) ==
  AreOfTheRecord(BuildScenarios(series, location), series, DailyStats(series))
================================================================================
