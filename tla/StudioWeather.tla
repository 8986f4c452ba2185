------------------------------- MODULE StudioWeather -------------------------------
(* apps/studio-server/src/weather/resolve.ts and cache.ts: the weather of a place somebody *)
(* searched for, which a preview or a run awaits.  Each await lets other calls go on.      *)
EXTENDS WeatherPipeline
CONSTANTS Calls, Asked,    \* calls of resolveCustomWeather, each for one of these places
          Payloads,        \* Payloads[source][place]: what a source may answer for a place
          MaxCuts          \* bound: how often the database comes or goes

ASSUME PlacesAssumption == \A place \in Asked : place.lat \in Int /\ place.lon \in Int

VARIABLES connected, \* mongoose.connection.readyState = 1
          rows,      \* the weatherCache collection
          call,      \* the calls: their place and where each of them stands
          cuts

studioVars == <<connected, rows, call, cuts>>
Sources == <<"open-meteo", "nasa-power">>

(* Degrees are in hundred-thousandths; Math.round rounds a half up.                        *)
Round2(degrees) == (degrees + 500) \div 1000
Cell(place) == <<Round2(place.lat), Round2(place.lon)>>

(* The zone's meridian: Open-Meteo's offset is in seconds, 0 when it is not there; NASA    *)
(* POWER keeps the standard time of the next multiple of 15 degrees.                       *)
Meridian(source, place, payload) ==
  IF source = "open-meteo" THEN payload.offset \div 240
  ELSE 15 * ((place.lon + 750000) \div 1500000)

Mean(values) == FoldSeq(LAMBDA v, sum : v + sum, 0, values) \div Len(values)

Result(place, source, row) ==
  [source |-> source, weather |-> row.weather, standardMeridian |-> row.standardMeridian,
   site |-> [lat |-> place.lat, lon |-> place.lon, elevation |-> place.elevation,
             groundTempMeanAnnual |-> Mean(row.weather.fields.T_amb)]]

StudioInit ==
  /\ connected \in BOOLEAN /\ rows = << >> /\ cuts = 0
  /\ call = [c \in Calls |-> [at |-> "idle"]]

Goes(c, next) == call' = [call EXCEPT ![c] = next]
Awaits(c, at, n) == Goes(c, [at |-> at, place |-> call[c].place, n |-> n])
Resolves(c, source, row) ==
  Goes(c, [at |-> "answered", place |-> call[c].place,
           result |-> Result(call[c].place, source, row)])

Ask(c, place) ==
  /\ call[c].at = "idle"
  /\ Goes(c, [at |-> "lookup", place |-> place, n |-> 1])
  /\ UNCHANGED <<connected, rows, cuts>>

(* The cache, one source after the other, before anything is asked of either.              *)
Key(c) == <<Sources[call[c].n], Cell(call[c].place)>>
Lookup(c) ==
  /\ call[c].at = "lookup"
  /\ IF connected /\ Key(c) \in DOMAIN rows
     THEN Resolves(c, Sources[call[c].n], rows[Key(c)])
     ELSE IF call[c].n = 1 THEN Awaits(c, "lookup", 2)
     ELSE Awaits(c, "fetch", 1)
  /\ UNCHANGED <<connected, rows, cuts>>
(* findOne is awaited outside the try: what it throws is the call's answer.                *)
LookupFails(c) ==
  /\ call[c].at = "lookup" /\ connected
  /\ Goes(c, [at |-> "threw"])
  /\ UNCHANGED <<connected, rows, cuts>>

(* A source that fails, answers nonsense or cannot be stored gives way to the next one.    *)
GiveWay(c) ==
  IF call[c].n = 1 THEN Awaits(c, "fetch", 2) ELSE Goes(c, [at |-> "unavailable"])

FetchFails(c) ==
  /\ call[c].at = "fetch"
  /\ GiveWay(c)
  /\ UNCHANGED <<connected, rows, cuts>>
Fetched(c, payload) ==
  LET digest == Digest(Sources[call[c].n], payload, call[c].place.elevation)
  IN /\ call[c].at = "fetch"
     /\ IF digest.outcome = "series"
        THEN Goes(c, [at |-> "store", place |-> call[c].place, n |-> call[c].n,
                      row |-> [weather |-> digest.series,
                               standardMeridian |->
                                 Meridian(Sources[call[c].n], call[c].place, payload)]])
        ELSE GiveWay(c)
     /\ UNCHANGED <<connected, rows, cuts>>

Kept(key, row) == [k \in DOMAIN rows \cup {key} |-> IF k = key THEN row ELSE rows[k]]
(* Mutant of Stored: the row is kept under the source that was tried first.                *)
StoredAsFirst(c) == rows' = Kept(<<Sources[1], Cell(call[c].place)>>, call[c].row)
Stored(c) == rows' = Kept(Key(c), call[c].row)
Store(c) ==
  /\ call[c].at = "store"
  /\ IF connected THEN Stored(c) ELSE UNCHANGED rows
  /\ Resolves(c, Sources[call[c].n], call[c].row)
  /\ UNCHANGED <<connected, cuts>>
(* updateOne fails, or only its answer is lost after the database took the row.             *)
StoreFails(c) ==
  /\ call[c].at = "store" /\ connected
  /\ Stored(c) \/ UNCHANGED rows
  /\ GiveWay(c)
  /\ UNCHANGED <<connected, cuts>>

Cut ==
  /\ cuts < MaxCuts /\ cuts' = cuts + 1
  /\ connected' = ~connected
  /\ UNCHANGED <<rows, call>>

CallStep(c) ==
  \/ Lookup(c) \/ LookupFails(c) \/ FetchFails(c) \/ Store(c) \/ StoreFails(c)
  \/ call[c].at = "fetch" /\ \E payload \in Payloads[Sources[call[c].n]][call[c].place] :
                               Fetched(c, payload)
StudioNext ==
  \/ \E c \in Calls : (\E place \in Asked : Ask(c, place)) \/ CallStep(c)
  \/ Cut
  \/ (\A c \in Calls : call[c].at \in {"answered", "threw", "unavailable"}) /\ UNCHANGED studioVars

--------------------------------------------------------------------------------
(* What is answered is of the source it names: its hours, its meridian, for an asked place *)
(* less than a hundredth of a degree away, 1.1 km (cache.ts 72).  The correction for height *)
(* is that of the place asked first.                                                      *)
StudioAnswersFit ==
  \A c \in Calls : call[c].at = "answered" =>
     LET result == call[c].result
     IN \E place \in Asked :
          /\ Near(place, call[c].place, 1000)
          /\ \E payload \in Payloads[result.source][place] :
                /\ result.weather.of = payload.of
                /\ result.standardMeridian = Meridian(result.source, place, payload)
                /\ result.weather.lapse = Lapse(payload, place.elevation, result.source)
================================================================================
