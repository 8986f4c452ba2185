----------------------------- MODULE WeatherPipeline -----------------------------
(* packages/data/src/weather: what the sources and a logger's file say, and the series the *)
(* engine takes.  Temperatures are in sixtieths of a kelvin, so that a gap of one or two   *)
(* samples and the lapse of a kilometre come out whole; the rest is in whole units, wind   *)
(* in tenths.  What the engine derives from the sun (Erbs) or the air (Swinbank) is only   *)
(* named, in `derived`.                                                                    *)
EXTENDS Integers, Sequences, FiniteSetsExt, SequencesExt

Degrees(c) == 60 * c
T0 == 16389
LapsePerKm == 390
SecondsPerHour == 3600
NaN == -99999        \* outside every scale
NoElevation == -99999

Linear == {"T_amb", "v_wind", "RH"}
Known(values, i) == values[i] # NaN

(* A gap with a sample on both sides is bridged; one at an end of the series stays.        *)
GapFill(values) ==
  [k \in DOMAIN values |->
     LET before == {i \in 1..k : Known(values, i)}
         after == {i \in k..Len(values) : Known(values, i)}
     IN CASE Known(values, k) -> values[k]
          [] before = {} \/ after = {} -> NaN
          [] OTHER -> LET l == Max(before)
                          r == Min(after)
                      IN values[l] + ((values[r] - values[l]) * (k - l)) \div (r - l)]
LongGap(values, step) ==
  \E l, r \in DOMAIN values :
     /\ l < r /\ Known(values, l) /\ Known(values, r)
     /\ \A i \in l + 1..r - 1 : ~Known(values, i)
     /\ (r - l - 1) * step > 3 * SecondsPerHour

ResampleLinear(values, src, dst, count) ==
  [j \in 1..count |->
     LET t == (j - 1) * dst
         i0 == Min({Len(values), t \div src + 1})
         i1 == Min({Len(values), i0 + 1})
     IN IF Known(values, i0) /\ Known(values, i1)
        THEN values[i0] + ((values[i1] - values[i0]) * (t - (i0 - 1) * src)) \div src
        ELSE NaN]

ResampleConserving(values, src, dst, count) ==
  [j \in 1..count |->
     LET from == (j - 1) * dst
         to == Min({from + dst, Len(values) * src})
         Overlap(i) == Max({0, Min({to, i * src}) - Max({from, (i - 1) * src})})
         within == {i \in DOMAIN values : Overlap(i) > 0}
     IN CASE to <= from -> 0
          [] \E i \in within : ~Known(values, i) -> NaN
          [] OTHER -> MapThenSumSet(LAMBDA i : values[i] * Overlap(i), within)
                        \div (to - from)]

OutputCount(n, src, dst) == (2 * n * src + dst) \div (2 * dst)

(* Stage 6; the warnings about light at night change nothing.                              *)
Plausible(fields) ==
  /\ \A f \in DOMAIN fields : \A i \in DOMAIN fields[f] : Known(fields[f], i)
  /\ \A i \in DOMAIN fields.T_amb : fields.T_amb[i] \in 60 * 180..60 * 330
  /\ \A i \in DOMAIN fields.GHI : fields.GHI[i] >= 0

Clipped(values) == [i \in DOMAIN values |-> IF Known(values, i) THEN Max({0, values[i]}) ELSE NaN]

(* A measured beam or diffuse counts only beside the other: decompose().                   *)
Derived(given) ==
  (IF {"DNI", "DHI"} \subseteq given THEN {} ELSE {"DNI", "DHI"})
    \cup ({"LW_down"} \ given)

Lapse(raw, elevation, source) ==
  IF source = "user-csv" \/ raw.elevation = NoElevation THEN 0
  ELSE (LapsePerKm * (raw.elevation - elevation)) \div 1000

Normalise(raw, elevation, target, source) ==
  LET lapse == Lapse(raw, elevation, source)
      kelvin == [raw.fields EXCEPT !.T_amb =
                   [i \in DOMAIN @ |-> IF @[i] = NaN THEN NaN ELSE @[i] + T0 + lapse]]
      kept == DOMAIN raw.fields \ Derived(DOMAIN raw.fields)
      filled == [f \in kept |-> GapFill(kelvin[f])]
      count == OutputCount(Len(raw.fields.T_amb), raw.step, target)
      fields == [f \in kept |->
                   CASE f \in Linear -> ResampleLinear(filled[f], raw.step, target, count)
                     [] f \in {"DNI", "DHI"} ->
                          ResampleConserving(Clipped(filled[f]), raw.step, target, count)
                     [] OTHER -> ResampleConserving(filled[f], raw.step, target, count)]
  IN IF Plausible(fields)
     THEN [outcome |-> "series",
           series |-> [step |-> target, startDay |-> raw.startDay, startHour |-> raw.startHour,
                       fields |-> fields, derived |-> Derived(DOMAIN raw.fields),
                       noted |-> {f \in kept : LongGap(kelvin[f], raw.step)},
                       source |-> source, of |-> raw.of, lapse |-> lapse]]
     ELSE [outcome |-> "invalid"]

--------------------------------------------------------------------------------
(* sources.ts.  A payload has its fields by the name of the series, its fill value and, at *)
(* Open-Meteo, the unit of the wind; a parameter may be missing or short, and `of` is what *)
(* the numbers of a source, a place and a range of days have of their own.  No timestamp   *)
(* at all is no EngineError: the parser stumbles over the first of them.                   *)
NasaFields == {"T_amb", "GHI", "DNI", "DHI", "LW_down", "v_wind", "RH"}
OpenMeteoFields == NasaFields \ {"LW_down"}

Unfilled(values, fill) == [i \in DOMAIN values |-> IF values[i] = fill THEN NaN ELSE values[i]]
MetresPerSecond(values) ==
  [i \in DOMAIN values |-> IF Known(values, i) THEN (values[i] * 10) \div 36 ELSE NaN]

Read(payload, wanted) ==
  LET Uneven == \E f \in wanted : Len(payload.fields[f]) # Len(payload.fields.T_amb)
  IN IF ~(wanted \subseteq DOMAIN payload.fields) \/ Uneven THEN [outcome |-> "invalid"]
     ELSE IF payload.fields.T_amb = << >> THEN [outcome |-> "throws"]
     ELSE [outcome |-> "raw",
           raw |-> [step |-> SecondsPerHour, startDay |-> payload.startDay, startHour |-> 0,
                    elevation |-> payload.elevation, of |-> payload.of,
                    fields |-> [f \in wanted |-> Unfilled(payload.fields[f], payload.fill)]]]

ParseNasaPower(payload) == Read(payload, NasaFields)
ParseOpenMeteo(payload) ==
  LET parsed == Read(payload, OpenMeteoFields)
  IN IF parsed.outcome = "raw" /\ payload.windUnit # "m/s"
     THEN [parsed EXCEPT !.raw.fields.v_wind = MetresPerSecond(@)]
     ELSE parsed

Parse(source, payload) ==
  IF source = "nasa-power" THEN ParseNasaPower(payload) ELSE ParseOpenMeteo(payload)

(* What both servers make of a source's answer for a site of this elevation.               *)
Digest(source, payload, elevation) ==
  LET parsed == Parse(source, payload)
  IN IF parsed.outcome = "raw"
     THEN Normalise(parsed.raw, elevation, SecondsPerHour, source)
     ELSE parsed

--------------------------------------------------------------------------------
(* A logger's file, read twice: by packages/data/src/weather/csv.ts and the pipeline, and  *)
(* by apps/web/components/inputs/csv.ts, which does without both in the browser.           *)
(* A file is its header's columns and its rows; a row has a cell for each column, and a    *)
(* cell is a number or none (empty, or no number).                                         *)
RequiredColumns == {"T_amb", "GHI", "v_wind"}

BadCells(file) ==
  {cell \in (DOMAIN file.rows) \X file.columns : ~Known(file.rows[cell[1]], cell[2])}
Column(file, c) == [i \in DOMAIN file.rows |-> file.rows[i][c]]

(* packages/data: a cell that is no number is a gap for the pipeline.                      *)
DataParse(file, startDay) ==
  IF RequiredColumns \subseteq file.columns
  THEN [outcome |-> "raw", rowErrors |-> BadCells(file),
        raw |-> [step |-> SecondsPerHour, startDay |-> startDay, startHour |-> 0,
                 elevation |-> NoElevation, of |-> file,
                 fields |-> [c \in file.columns |-> Column(file, c)]]]
  ELSE [outcome |-> "invalid"]

(* Mutant of OutOfRange: the light is not looked at.                                       *)
OutOfRangeButLight(file) ==
  {cell \in (DOMAIN file.rows) \X {"T_amb", "v_wind"} :
     LET v == file.rows[cell[1]][cell[2]]
     IN v # NaN /\ IF cell[2] = "T_amb" THEN v \notin Degrees(-60)..Degrees(60) ELSE v < 0}

(* apps/web: one cell that is no number, or out of range, and the whole file is refused.   *)
OutOfRange(file) ==
  {cell \in (DOMAIN file.rows) \X RequiredColumns :
     LET v == file.rows[cell[1]][cell[2]]
     IN v # NaN /\ IF cell[2] = "T_amb" THEN v \notin Degrees(-60)..Degrees(60) ELSE v < 0}

WebParse(file, startDay) ==
  IF \/ ~(RequiredColumns \subseteq file.columns)
     \/ BadCells(file) # {} \/ OutOfRange(file) # {}
  THEN [outcome |-> "invalid"]
  ELSE LET kept == file.columns \ Derived(file.columns)
           Value(c, v) == CASE c = "T_amb" -> v + T0
                            [] c \in {"DNI", "DHI"} -> Max({0, v})
                            [] OTHER -> v
       IN [outcome |-> "series",
           series |-> [step |-> SecondsPerHour, startDay |-> startDay, startHour |-> 0,
                       fields |-> [c \in kept |-> [i \in DOMAIN file.rows |->
                                                     Value(c, file.rows[i][c])]],
                       derived |-> Derived(file.columns), noted |-> {},
                       source |-> "user-csv", of |-> file, lapse |-> 0]]

--------------------------------------------------------------------------------
(* Where the browser takes a file, the package takes it with no row error, as the same
   series; only what is hotter than the pipeline's 330 K is refused there (csv.ts 3-10,
   126-133 and pipeline.ts 246, 322). *)
ReadersAgree(file, startDay) ==
  LET web == WebParse(file, startDay)
      data == DataParse(file, startDay)
  IN web.outcome = "series" =>
       /\ data.outcome = "raw" /\ data.rowErrors = {}
       /\ \/ Normalise(data.raw, 0, SecondsPerHour, "user-csv") = web
          \/ \E i \in DOMAIN file.rows : file.rows[i].T_amb + T0 > 60 * 330

(* However the package is asked to resample a file, the light of the whole stays what it
   was when the samples fit into it (pipeline.ts 203-213), no sample is missing, and the
   temperatures lie between those of the file. *)
FileIsKept(file, startDay, target) ==
  LET data == DataParse(file, startDay)
      normal == Normalise(data.raw, 0, target, "user-csv")
      light == GapFill(data.raw.fields.GHI)
      Total(values) == FoldSeq(LAMBDA v, sum : v + sum, 0, values)
      known == {data.raw.fields.T_amb[i] + T0 : i \in DOMAIN data.raw.fields.T_amb} \ {NaN + T0}
  IN (data.outcome = "raw" /\ normal.outcome = "series") =>
       /\ (Len(light) * SecondsPerHour) % target = 0 =>
            Total(normal.series.fields.GHI) * target = Total(light) * SecondsPerHour
       /\ \A i \in DOMAIN normal.series.fields.T_amb :
             \E low, high \in known : normal.series.fields.T_amb[i] \in low..high

--------------------------------------------------------------------------------
(* Two places less than a span apart both ways, in hundred-thousandths of a degree. *)
Near(a, b, span) ==
  /\ a.lat - b.lat < span /\ b.lat - a.lat < span
  /\ a.lon - b.lon < span /\ b.lon - a.lon < span
================================================================================
