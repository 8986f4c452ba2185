-------------------------------- MODULE WebWeather --------------------------------
(* apps/web/app/api/weather/route.ts and lib/repo/weather.ts: POST /api/weather asks one   *)
(* source for a range of days and keeps what it answers for a while.                       *)
EXTENDS WeatherPipeline
CONSTANTS Posts, Bodies,         \* requests, and the bodies they may carry
          WebPayloads,           \* WebPayloads[body]: what its source may answer
          Enabled,               \* NEXT_PUBLIC_ENABLE_LIVE_WEATHER
          HistoricalTtl, CurrentTtl, \* days
          MaxAttempts, MaxDays   \* UPSERT_MAX_ATTEMPTS; bound: days that pass

ASSUME TtlAssumption == HistoricalTtl \in Nat /\ CurrentTtl \in Nat

VARIABLES today, table, post

webVars == <<today, table, post>>

(* Four decimals of a degree.                                                              *)
RoundCoord(degrees) == (degrees + 5) \div 10
CellKey(body) ==
  <<body.source, RoundCoord(body.lat), RoundCoord(body.lon), body.startDate, body.endDate>>

ValidBody(body) ==
  /\ body.source \in {"nasa-power", "open-meteo"}
  /\ body.lat \in Int /\ -9000000 <= body.lat /\ body.lat <= 9000000
  /\ body.lon \in Int /\ -18000000 <= body.lon /\ body.lon <= 18000000
  /\ body.startDate <= body.endDate

(* Mutant of ExpiresAt: the day of the call counts as over. *)
ExpiresAtLate(endDate, fetchedAt) ==
  fetchedAt + (IF endDate <= today THEN HistoricalTtl ELSE CurrentTtl)

(* computeExpiresAt, in the call that fetches: days that are over no longer change, others   *)
(* may still be revised upstream.                                                         *)
ExpiresAt(endDate, fetchedAt) ==
  fetchedAt + (IF endDate < today THEN HistoricalTtl ELSE CurrentTtl)

WebInit == today = 0 /\ table = << >> /\ post = [p \in Posts |-> [at |-> "idle"]]

Moves(p, next) == post' = [post EXCEPT ![p] = next]
Reaches(p, at) == Moves(p, [at |-> at, body |-> post[p].body])
Fails(p, status) == Moves(p, [at |-> "answered", status |-> status])
(* A cached answer names the height asked for beside the correction for the one before,    *)
(* and keeps in its provenance when it was fetched.                                       *)
Responds(p, row, cached) ==
  Moves(p, [at |-> "answered", status |-> 200, body |-> post[p].body, series |-> row.series,
            fetchedAt |-> row.fetchedAt, cached |-> cached, on |-> today,
            lapseCorrectionK |-> row.series.lapse])

Receive(p, body) ==
  /\ post[p].at = "idle"
  /\ CASE ~Enabled -> Fails(p, 501)
       [] Enabled /\ ~ValidBody(body) -> Fails(p, 400)
       [] OTHER -> Moves(p, [at |-> "cache", body |-> body])
  /\ UNCHANGED <<today, table>>

(* withDb: a dead database and a miss are the same thing.                                  *)
ReadCache(p, works) ==
  LET key == CellKey(post[p].body)
  IN /\ post[p].at = "cache"
     /\ IF works /\ key \in DOMAIN table /\ table[key].expiresAt > today
        THEN Responds(p, table[key], TRUE)
        ELSE Reaches(p, "headers")
     /\ UNCHANGED <<today, table>>

(* The clock of ten seconds runs for the headers only; a body may take any time.           *)
UpstreamFails(p) ==
  /\ post[p].at = "headers" /\ Fails(p, 502)
  /\ UNCHANGED <<today, table>>
Headers(p) ==
  /\ post[p].at = "headers" /\ Reaches(p, "body")
  /\ UNCHANGED <<today, table>>
BodyBroken(p) ==
  /\ post[p].at = "body" /\ Fails(p, 422)
  /\ UNCHANGED <<today, table>>
Body(p, payload) ==
  LET body == post[p].body
      digest == Digest(body.source, payload, body.siteElevation)
  IN /\ post[p].at = "body"
     /\ CASE digest.outcome = "invalid" -> Fails(p, 422)
          [] digest.outcome = "throws" -> Fails(p, 500)
          [] OTHER -> Moves(p, [at |-> "upsert", body |-> body, attempt |-> 1,
                                row |-> [series |-> digest.series, fetchedAt |-> today,
                                         expiresAt |-> ExpiresAt(body.endDate, today)]])
     /\ UNCHANGED <<today, table>>

(* writeWeatherCache: a busy database is tried again, any other failure is swallowed, so     *)
(* that a write whose answer is lost ends like one that was answered.                     *)
Upsert(p) ==
  /\ post[p].at = "upsert"
  /\ LET key == CellKey(post[p].body)
     IN table' = [k \in DOMAIN table \cup {key} |-> IF k = key THEN post[p].row ELSE table[k]]
  /\ Responds(p, post[p].row, FALSE)
  /\ UNCHANGED today
Busy(p) ==
  /\ post[p].at = "upsert" /\ post[p].attempt < MaxAttempts
  /\ post' = [post EXCEPT ![p].attempt = @ + 1]
  /\ UNCHANGED <<today, table>>
WriteFails(p) ==
  /\ post[p].at = "upsert"
  /\ Responds(p, post[p].row, FALSE)
  /\ UNCHANGED <<today, table>>

PurgeExpiredWeather ==
  /\ \E key \in DOMAIN table : table[key].expiresAt < today
  /\ table' = [key \in {k \in DOMAIN table : table[k].expiresAt >= today} |-> table[key]]
  /\ UNCHANGED <<today, post>>
Midnight ==
  /\ today < MaxDays /\ today' = today + 1
  /\ UNCHANGED <<table, post>>

PostStep(p) ==
  \/ \E works \in BOOLEAN : ReadCache(p, works)
  \/ UpstreamFails(p) \/ Headers(p) \/ BodyBroken(p)
  \/ post[p].at = "body" /\ \E payload \in WebPayloads[post[p].body] :
                              Body(p, payload)
  \/ Upsert(p) \/ Busy(p) \/ WriteFails(p)
WebNext ==
  \/ \E p \in Posts : (\E body \in Bodies : Receive(p, body)) \/ PostStep(p)
  \/ PurgeExpiredWeather \/ Midnight
  \/ (\A p \in Posts : post[p].at = "answered") /\ UNCHANGED webVars

--------------------------------------------------------------------------------
(* An answer is of the source and the days asked for and of a place less than a             *)
(* ten-thousandth of a degree away, 11 m (repo/weather.ts 26), corrected for the height a   *)
(* request named for that place.                                                          *)
WebAnswersAsked(p) ==
  LET asked == post[p].body
  IN \E body \in Bodies :
       /\ ValidBody(body) /\ body.source = asked.source
       /\ body.startDate = asked.startDate /\ body.endDate = asked.endDate
       /\ Near(body, asked, 10)
       /\ \E payload \in WebPayloads[body] :
             /\ post[p].series.of = payload.of
             /\ post[p].series.lapse = Lapse(payload, body.siteElevation, body.source)

(* And one from the table was fetched no longer ago than such days may be kept: if they    *)
(* had not passed when they were fetched, the source may have revised them since           *)
(* (repo/weather.ts 54-60).                                                               *)
Lifetime(endDate, fetchedAt) == IF endDate < fetchedAt THEN HistoricalTtl ELSE CurrentTtl
WebAnswersInTime(p) ==
  post[p].cached =>
    post[p].on < post[p].fetchedAt + Lifetime(post[p].body.endDate, post[p].fetchedAt)

WebAnswersFit ==
  \A p \in Posts : (post[p].at = "answered" /\ post[p].status = 200) =>
                      WebAnswersAsked(p) /\ WebAnswersInTime(p)
================================================================================
