------------------------------- MODULE CacheProofs -------------------------------
(* Proofs about what is kept and answered from instead of its source: the two weather      *)
(* caches, the shared designs, the offline page and the stored runs of MCCaches.            *)
(* They hold for any places, bodies and payloads, any number of overlapping     *)
(* calls, sharers and builds, any number of POSTs, hashes and engine versions, and any way *)
(* in which the database comes, goes and fails.                                           *)
EXTENDS MCCaches, TLAPS

(* The pipeline does not mix up what it is given: a series is of the payload it was made   *)
(* from, corrected for the height it was asked for (pipeline.ts 258-330).                  *)
LEMMA ReadKeeps ==
  ASSUME NEW payload, NEW wanted, Read(payload, wanted).outcome = "raw"
  PROVE  /\ Read(payload, wanted).raw.of = payload.of
         /\ Read(payload, wanted).raw.elevation = payload.elevation
  BY DEF Read

LEMMA ParseKeeps ==
  ASSUME NEW source, NEW payload, Parse(source, payload).outcome = "raw"
  PROVE  /\ Parse(source, payload).raw.of = payload.of
         /\ Parse(source, payload).raw.elevation = payload.elevation
<1>1. CASE source = "nasa-power"
  BY <1>1, ReadKeeps DEF Parse, ParseNasaPower
<1>2. CASE source # "nasa-power"
  BY <1>2, ReadKeeps DEF Parse, ParseOpenMeteo, Read
<1> QED
  BY <1>1, <1>2

LEMMA NormaliseKeeps ==
  ASSUME NEW raw, NEW elevation, NEW dst, NEW source,
         Normalise(raw, elevation, dst, source).outcome = "series"
  PROVE  /\ Normalise(raw, elevation, dst, source).series.of = raw.of
         /\ Normalise(raw, elevation, dst, source).series.lapse = Lapse(raw, elevation, source)
  BY DEF Normalise

LEMMA DigestKeeps ==
  ASSUME NEW source, NEW payload, NEW elevation,
         Digest(source, payload, elevation).outcome = "series"
  PROVE  LET series == Digest(source, payload, elevation).series
         IN /\ series.of = payload.of
            /\ series.lapse = Lapse(payload, elevation, source)
<1> DEFINE parsed == Parse(source, payload)
<1>1. CASE parsed.outcome = "raw"
  <2>1. Digest(source, payload, elevation)
          = Normalise(parsed.raw, elevation, SecondsPerHour, source)
    BY <1>1 DEF Digest
  <2>2. Lapse(parsed.raw, elevation, source) = Lapse(payload, elevation, source)
    BY <1>1, ParseKeeps DEF Lapse
  <2> QED
    BY <1>1, <2>1, <2>2, ParseKeeps, NormaliseKeeps
<1>2. CASE parsed.outcome # "raw"
  BY <1>2 DEF Digest, Parse, ParseNasaPower, ParseOpenMeteo, Read
<1> QED
  BY <1>1, <1>2

--------------------------------------------------------------------------------
(* The weather of a studio design.  What is kept under a source and a cell, waits to be    *)
(* kept there or was answered is of that source and of a place of that cell.               *)
OfPlace(source, cell, kept) ==
  \E place \in Asked :
     /\ Cell(place) = cell
     /\ \E payload \in Payloads[source][place] :
           /\ kept.weather.of = payload.of
           /\ kept.standardMeridian = Meridian(source, place, payload)
           /\ kept.weather.lapse = Lapse(payload, place.elevation, source)

CallFits(r) ==
  /\ r.at \in {"lookup", "fetch", "store", "answered"} => r.place \in Asked
  /\ r.at = "store" => OfPlace(Sources[r.n], Cell(r.place), r.row)
  /\ r.at = "answered" => OfPlace(r.result.source, Cell(r.place), r.result)

RowsFit == \A key \in DOMAIN rows : OfPlace(key[1], key[2], rows[key])
StudioInv == RowsFit /\ DOMAIN call = Calls /\ \A c \in Calls : CallFits(call[c])

LEMMA StudioStarts == StudioInit => StudioInv
  BY DEF StudioInit, StudioInv, RowsFit, CallFits

(* Places of one cell are less than a cell apart. *)
LEMMA SameCell ==
  ASSUME NEW a \in Asked, NEW b \in Asked, Cell(a) = Cell(b)
  PROVE  Near(a, b, 1000)
<1>1. a.lat \in Int /\ a.lon \in Int /\ b.lat \in Int /\ b.lon \in Int
  BY PlacesAssumption
<1>2. Round2(a.lat) = Round2(b.lat) /\ Round2(a.lon) = Round2(b.lon)
  BY DEF Cell
<1>3. ASSUME NEW x \in Int, NEW y \in Int, Round2(x) = Round2(y) PROVE x - y < 1000
  BY <1>3 DEF Round2
<1> QED
  BY <1>1, <1>2, <1>3 DEF Near

LEMMA StudioHolds == StudioInv => StudioAnswersFit
<1> SUFFICES ASSUME StudioInv, NEW c \in Calls, call[c].at = "answered"
             PROVE  LET result == call[c].result
                    IN \E place \in Asked :
                         /\ Near(place, call[c].place, 1000)
                         /\ \E payload \in Payloads[result.source][place] :
                               /\ result.weather.of = payload.of
                               /\ result.standardMeridian = Meridian(result.source, place, payload)
                               /\ result.weather.lapse = Lapse(payload, place.elevation, result.source)
  BY DEF StudioAnswersFit
<1> DEFINE result == call[c].result
<1>1. call[c].place \in Asked /\ OfPlace(result.source, Cell(call[c].place), result)
  BY DEF StudioInv, CallFits
<1>2. PICK place \in Asked :
         /\ Cell(place) = Cell(call[c].place)
         /\ \E payload \in Payloads[result.source][place] :
               /\ result.weather.of = payload.of
               /\ result.standardMeridian = Meridian(result.source, place, payload)
               /\ result.weather.lapse = Lapse(payload, place.elevation, result.source)
  BY <1>1 DEF OfPlace
<1>3. Near(place, call[c].place, 1000)
  BY <1>1, <1>2, SameCell
<1> QED
  BY <1>2, <1>3

(* A call goes on with what fits; the rows are as they were, or fit as well. *)
LEMMA CallGoesOn ==
  ASSUME StudioInv, NEW c \in Calls, NEW next, Goes(c, next), CallFits(next), RowsFit'
  PROVE  StudioInv'
  BY DEF StudioInv, Goes

LEMMA CallAwaits ==
  ASSUME StudioInv, NEW c \in Calls, NEW at \in {"lookup", "fetch"}, NEW n,
         call[c].at \in {"lookup", "fetch", "store"}, Awaits(c, at, n), RowsFit'
  PROVE  StudioInv'
<1>1. CallFits([at |-> at, place |-> call[c].place, n |-> n])
  BY DEF StudioInv, CallFits
<1> QED
  BY <1>1, CallGoesOn DEF Awaits

LEMMA CallGivesWay ==
  ASSUME StudioInv, NEW c \in Calls, call[c].at \in {"fetch", "store"}, GiveWay(c),
         RowsFit'
  PROVE  StudioInv'
<1>1. CASE call[c].n = 1
  BY <1>1, CallAwaits DEF GiveWay
<1>2. CASE call[c].n # 1
  <2>1. CallFits([at |-> "unavailable"])
    BY DEF CallFits
  <2> QED
    BY <1>2, <2>1, CallGoesOn DEF GiveWay
<1> QED
  BY <1>1, <1>2

(* An answer is what the row says. *)
LEMMA CallAnswered ==
  ASSUME StudioInv, NEW c \in Calls, call[c].at \in {"lookup", "store"}, NEW source, NEW kept,
         Resolves(c, source, kept), OfPlace(source, Cell(call[c].place), kept), RowsFit'
  PROVE  StudioInv'
<1> DEFINE result == Result(call[c].place, source, kept)
           next == [at |-> "answered", place |-> call[c].place, result |-> result]
<1>1. /\ result.source = source /\ result.weather = kept.weather
      /\ result.standardMeridian = kept.standardMeridian
  BY DEF Result
<1>2. OfPlace(result.source, Cell(call[c].place), result)
  BY <1>1 DEF OfPlace
<1>3. CallFits(next)
  BY <1>2 DEF StudioInv, CallFits
<1> QED
  BY <1>3, CallGoesOn DEF Resolves

LEMMA LookupKeeps == ASSUME StudioInv, NEW c \in Calls, Lookup(c) PROVE StudioInv'
<1>1. call[c].at = "lookup" /\ RowsFit'
  BY DEF Lookup, StudioInv, RowsFit
<1>2. CASE connected /\ Key(c) \in DOMAIN rows
  <2>1. OfPlace(Sources[call[c].n], Cell(call[c].place), rows[Key(c)])
    BY <1>2 DEF StudioInv, RowsFit, Key
  <2>2. Resolves(c, Sources[call[c].n], rows[Key(c)])
    BY <1>2 DEF Lookup
  <2> QED
    BY <1>1, <2>1, <2>2, CallAnswered
<1>3. CASE ~(connected /\ Key(c) \in DOMAIN rows)
  BY <1>1, <1>3, CallAwaits DEF Lookup
<1> QED
  BY <1>2, <1>3

LEMMA FetchedKeeps ==
  ASSUME StudioInv, NEW c \in Calls,
         NEW payload \in Payloads[Sources[call[c].n]][call[c].place],
         Fetched(c, payload)
  PROVE  StudioInv'
<1> DEFINE source == Sources[call[c].n]
           place == call[c].place
           digest == Digest(source, payload, place.elevation)
           kept == [weather |-> digest.series,
                   standardMeridian |-> Meridian(source, place, payload)]
           next == [at |-> "store", place |-> place, n |-> call[c].n, row |-> kept]
<1>1. call[c].at = "fetch" /\ UNCHANGED rows /\ place \in Asked /\ RowsFit'
  BY DEF Fetched, StudioInv, CallFits, RowsFit
<1>2. CASE digest.outcome = "series"
  <2>1. digest.series.of = payload.of /\ digest.series.lapse = Lapse(payload, place.elevation, source)
    BY <1>2, DigestKeeps
  <2>2. OfPlace(source, Cell(place), kept)
    BY <1>1, <2>1 DEF OfPlace
  <2>3. CallFits(next)
    BY <1>1, <2>2 DEF CallFits
  <2>4. Goes(c, next)
    BY <1>2 DEF Fetched
  <2> QED
    BY <1>1, <2>3, <2>4, CallGoesOn
<1>3. CASE digest.outcome # "series"
  <2>1. GiveWay(c)
    BY <1>3 DEF Fetched
  <2> QED
    BY <1>1, <2>1, CallGivesWay
<1> QED
  BY <1>2, <1>3

(* What is stored fits, whether or not the database takes it or says so. *)
LEMMA StoredFits ==
  ASSUME StudioInv, NEW c \in Calls, call[c].at = "store", Stored(c) \/ UNCHANGED rows
  PROVE  RowsFit'
<1> DEFINE source == Sources[call[c].n]
           cell == Cell(call[c].place)
<1>1. OfPlace(source, cell, call[c].row)
  BY DEF StudioInv, CallFits
<1>2. CASE UNCHANGED rows
  BY <1>2 DEF StudioInv, RowsFit
<1>3. CASE Stored(c)
  <2>1. rows' = Kept(<<source, cell>>, call[c].row)
    BY <1>3 DEF Stored, Key
  <2> SUFFICES ASSUME NEW key \in DOMAIN rows' PROVE OfPlace(key[1], key[2], rows'[key])
    BY DEF RowsFit
  <2>2. CASE key = <<source, cell>>
    BY <1>1, <2>1, <2>2 DEF Kept
  <2>3. CASE key # <<source, cell>>
    <3>1. key \in DOMAIN rows /\ rows'[key] = rows[key]
      BY <2>1, <2>3 DEF Kept
    <3> QED
      BY <3>1 DEF StudioInv, RowsFit
  <2> QED
    BY <2>2, <2>3
<1> QED
  BY <1>2, <1>3

LEMMA StoreKeeps == ASSUME StudioInv, NEW c \in Calls, Store(c) PROVE StudioInv'
<1>1. /\ OfPlace(Sources[call[c].n], Cell(call[c].place), call[c].row)
      /\ call[c].at = "store"
  BY DEF Store, StudioInv, CallFits
<1>2. RowsFit'
  BY <1>1, StoredFits DEF Store
<1>3. Resolves(c, Sources[call[c].n], call[c].row)
  BY DEF Store
<1> QED
  BY <1>1, <1>2, <1>3, CallAnswered

LEMMA StudioKept == StudioInv /\ [StudioNext]_studioVars => StudioInv'
<1> SUFFICES ASSUME StudioInv, [StudioNext]_studioVars PROVE StudioInv'
  OBVIOUS
<1>1. ASSUME NEW c \in Calls, NEW place \in Asked, Ask(c, place) PROVE StudioInv'
  <2>1. CallFits([at |-> "lookup", place |-> place, n |-> 1]) /\ RowsFit'
    BY <1>1 DEF Ask, StudioInv, RowsFit, CallFits
  <2> QED
    BY <1>1, <2>1, CallGoesOn DEF Ask
<1>2. ASSUME NEW c \in Calls, CallStep(c) PROVE StudioInv'
  <2>1. CASE LookupFails(c)
    <3>1. CallFits([at |-> "threw"]) /\ RowsFit'
      BY <2>1 DEF LookupFails, StudioInv, RowsFit, CallFits
    <3> QED
      BY <2>1, <3>1, CallGoesOn DEF LookupFails
  <2>2. CASE FetchFails(c)
    <3>1. RowsFit'
      BY <2>2 DEF FetchFails, StudioInv, RowsFit
    <3> QED
      BY <2>2, <3>1, CallGivesWay DEF FetchFails
  <2>3. CASE StoreFails(c)
    <3>1. RowsFit'
      BY <2>3, StoredFits DEF StoreFails
    <3> QED
      BY <2>3, <3>1, CallGivesWay DEF StoreFails
  <2> QED
    BY <1>2, <2>1, <2>2, <2>3, LookupKeeps, StoreKeeps, FetchedKeeps DEF CallStep
<1>3. CASE Cut \/ UNCHANGED studioVars
  BY <1>3 DEF Cut, studioVars, StudioInv, RowsFit
<1> QED
  BY <1>1, <1>2, <1>3 DEF StudioNext, studioVars

--------------------------------------------------------------------------------
(* The weather route of the web app.  What is kept under a key, waits to be kept there or  *)
(* was answered is of a body of that key; a row ends when its days may be revised.        *)
OfKey(key, series) ==
  \E body \in Bodies :
     /\ ValidBody(body) /\ CellKey(body) = key
     /\ \E payload \in WebPayloads[body] :
           /\ series.of = payload.of
           /\ series.lapse = Lapse(payload, body.siteElevation, body.source)
RowFits(key, kept) ==
  /\ OfKey(key, kept.series)
  /\ kept.expiresAt = kept.fetchedAt + Lifetime(key[5], kept.fetchedAt)

PostFits(r) ==
  /\ r.at \in {"cache", "headers", "body", "upsert"} => r.body \in Bodies /\ ValidBody(r.body)
  /\ r.at = "upsert" => RowFits(CellKey(r.body), r.row)
  /\ r.at = "answered" /\ r.status = 200 =>
       /\ r.body \in Bodies /\ ValidBody(r.body) /\ OfKey(CellKey(r.body), r.series)
       /\ r.cached => r.on < r.fetchedAt + Lifetime(r.body.endDate, r.fetchedAt)

TableFits == \A key \in DOMAIN table : RowFits(key, table[key])
WebInv == TableFits /\ DOMAIN post = Posts /\ \A p \in Posts : PostFits(post[p])

LEMMA WebStarts == WebInit => WebInv
  BY DEF WebInit, WebInv, TableFits, PostFits

(* Bodies of one key ask one source for the same days, less than a key's step apart. *)
LEMMA SameKey ==
  ASSUME NEW a, NEW b, ValidBody(a), ValidBody(b), CellKey(a) = CellKey(b)
  PROVE  /\ a.source = b.source /\ a.startDate = b.startDate /\ a.endDate = b.endDate
         /\ Near(a, b, 10)
<1>1. a.lat \in Int /\ a.lon \in Int /\ b.lat \in Int /\ b.lon \in Int
  BY DEF ValidBody
<1>2. /\ a.source = b.source /\ a.startDate = b.startDate /\ a.endDate = b.endDate
      /\ RoundCoord(a.lat) = RoundCoord(b.lat) /\ RoundCoord(a.lon) = RoundCoord(b.lon)
  BY DEF CellKey
<1>3. ASSUME NEW x \in Int, NEW y \in Int, RoundCoord(x) = RoundCoord(y) PROVE x - y < 10
  BY <1>3 DEF RoundCoord
<1> QED
  BY <1>1, <1>2, <1>3 DEF Near

LEMMA WebHolds == WebInv => WebAnswersFit
<1> SUFFICES ASSUME WebInv, NEW p \in Posts, post[p].at = "answered", post[p].status = 200
             PROVE  WebAnswersAsked(p) /\ WebAnswersInTime(p)
  BY DEF WebAnswersFit
<1>1. /\ ValidBody(post[p].body) /\ OfKey(CellKey(post[p].body), post[p].series)
      /\ WebAnswersInTime(p)
  BY DEF WebInv, PostFits, WebAnswersInTime
<1>2. PICK body \in Bodies :
         /\ ValidBody(body) /\ CellKey(body) = CellKey(post[p].body)
         /\ \E payload \in WebPayloads[body] :
               /\ post[p].series.of = payload.of
               /\ post[p].series.lapse = Lapse(payload, body.siteElevation, body.source)
  BY <1>1 DEF OfKey
<1>3. /\ body.source = post[p].body.source /\ body.startDate = post[p].body.startDate
      /\ body.endDate = post[p].body.endDate /\ Near(body, post[p].body, 10)
  BY <1>1, <1>2, SameKey
<1> QED
  BY <1>1, <1>2, <1>3 DEF WebAnswersAsked

LEMMA PostGoesOn ==
  ASSUME WebInv, NEW p \in Posts, NEW next, Moves(p, next), PostFits(next), TableFits'
  PROVE  WebInv'
  BY DEF WebInv, Moves

LEMMA PostFails ==
  ASSUME WebInv, NEW p \in Posts, NEW status, status # 200, Fails(p, status), UNCHANGED table
  PROVE  WebInv'
<1>1. PostFits([at |-> "answered", status |-> status]) /\ TableFits'
  BY DEF PostFits, WebInv, TableFits
<1> QED
  BY <1>1, PostGoesOn DEF Fails

LEMMA PostReaches ==
  ASSUME WebInv, NEW p \in Posts, post[p].at \in {"cache", "headers"}, UNCHANGED table,
         NEW at \in {"headers", "body"}, Reaches(p, at)
  PROVE  WebInv'
<1>1. PostFits([at |-> at, body |-> post[p].body]) /\ TableFits'
  BY DEF PostFits, WebInv, TableFits
<1> QED
  BY <1>1, PostGoesOn DEF Reaches

LEMMA PostResponds ==
  ASSUME WebInv, NEW p \in Posts, NEW kept, NEW cached, Responds(p, kept, cached),
         post[p].body \in Bodies, ValidBody(post[p].body),
         OfKey(CellKey(post[p].body), kept.series),
         cached => today < kept.fetchedAt + Lifetime(post[p].body.endDate, kept.fetchedAt),
         TableFits'
  PROVE  WebInv'
<1> DEFINE next == [at |-> "answered", status |-> 200, body |-> post[p].body,
                   series |-> kept.series, fetchedAt |-> kept.fetchedAt, cached |-> cached,
                   on |-> today, lapseCorrectionK |-> kept.series.lapse]
<1>1. /\ next.at = "answered" /\ next.body = post[p].body /\ next.series = kept.series
      /\ next.fetchedAt = kept.fetchedAt /\ next.cached = cached /\ next.on = today
  OBVIOUS
<1>2. Moves(p, next)
  BY DEF Responds
<1> HIDE DEF next
<1>3. PostFits(next)
  BY <1>1 DEF PostFits
<1> QED
  BY <1>2, <1>3, PostGoesOn

LEMMA ReadCacheKeeps ==
  ASSUME WebInv, NEW p \in Posts, NEW works \in BOOLEAN, ReadCache(p, works)
  PROVE  WebInv'
<1> DEFINE key == CellKey(post[p].body)
           hit == works /\ key \in DOMAIN table /\ table[key].expiresAt > today
<1>1. /\ post[p].at = "cache" /\ UNCHANGED table /\ TableFits'
      /\ post[p].body \in Bodies /\ ValidBody(post[p].body)
  BY DEF ReadCache, WebInv, TableFits, PostFits
<1>2. CASE hit
  <2>1. RowFits(key, table[key]) /\ Responds(p, table[key], TRUE)
    BY <1>2 DEF WebInv, TableFits, ReadCache
  <2>2. key[5] = post[p].body.endDate
    BY DEF CellKey
  <2>3. /\ OfKey(key, table[key].series)
        /\ table[key].fetchedAt + Lifetime(post[p].body.endDate, table[key].fetchedAt) > today
    BY <1>2, <2>1, <2>2 DEF RowFits
  <2> QED
    BY <1>1, <2>1, <2>3, PostResponds
<1>3. CASE ~hit
  <2>1. Reaches(p, "headers")
    BY <1>3 DEF ReadCache
  <2> QED
    BY <1>1, <2>1, PostReaches
<1> QED
  BY <1>2, <1>3

LEMMA BodyKeeps ==
  ASSUME WebInv, NEW p \in Posts, NEW payload \in WebPayloads[post[p].body], Body(p, payload)
  PROVE  WebInv'
<1> DEFINE body == post[p].body
           digest == Digest(body.source, payload, body.siteElevation)
           kept == [series |-> digest.series, fetchedAt |-> today,
                   expiresAt |-> ExpiresAt(body.endDate, today)]
           next == [at |-> "upsert", body |-> body, attempt |-> 1, row |-> kept]
<1>1. post[p].at = "body" /\ UNCHANGED table /\ TableFits' /\ body \in Bodies /\ ValidBody(body)
  BY DEF Body, WebInv, TableFits, PostFits
<1>2. CASE digest.outcome \in {"invalid", "throws"}
  <2>1. Fails(p, 422) \/ Fails(p, 500)
    BY <1>2 DEF Body
  <2> QED
    BY <1>1, <2>1, PostFails
<1>3. CASE digest.outcome \notin {"invalid", "throws"}
  <2>1. digest.outcome = "series"
    BY <1>3 DEF Digest, Normalise, Parse, ParseNasaPower, ParseOpenMeteo, Read
  <2>2. /\ digest.series.of = payload.of
        /\ digest.series.lapse = Lapse(payload, body.siteElevation, body.source)
    BY <2>1, DigestKeeps
  <2>3. OfKey(CellKey(body), digest.series)
    BY <1>1, <2>2 DEF OfKey
  <2>4. CellKey(body)[5] = body.endDate
    BY DEF CellKey
  <2>5. RowFits(CellKey(body), kept)
    BY <2>3, <2>4 DEF RowFits, ExpiresAt, Lifetime
  <2>6. PostFits(next)
    BY <1>1, <2>5 DEF PostFits
  <2>7. Moves(p, next)
    BY <1>3 DEF Body
  <2> QED
    BY <1>1, <2>6, <2>7, PostGoesOn
<1> QED
  BY <1>2, <1>3

LEMMA UpsertKeeps == ASSUME WebInv, NEW p \in Posts, Upsert(p) PROVE WebInv'
<1> DEFINE key == CellKey(post[p].body)
<1>1. /\ post[p].at = "upsert" /\ RowFits(key, post[p].row)
      /\ post[p].body \in Bodies /\ ValidBody(post[p].body)
  BY DEF Upsert, WebInv, PostFits
<1>2. table' = [k \in DOMAIN table \cup {key} |-> IF k = key THEN post[p].row ELSE table[k]]
  BY DEF Upsert
<1>3. TableFits'
  <2> SUFFICES ASSUME NEW k \in DOMAIN table' PROVE RowFits(k, table'[k])
    BY DEF TableFits
  <2> QED
    BY <1>1, <1>2 DEF WebInv, TableFits
<1>4. Responds(p, post[p].row, FALSE) /\ OfKey(key, post[p].row.series)
  BY <1>1 DEF Upsert, RowFits
<1> QED
  BY <1>1, <1>3, <1>4, PostResponds

LEMMA BusyKeeps == ASSUME WebInv, NEW p \in Posts, Busy(p) PROVE WebInv'
<1> DEFINE next == [post[p] EXCEPT !.attempt = @ + 1]
<1>1. post[p].at = "upsert" /\ Moves(p, next) /\ TableFits'
  BY DEF Busy, Moves, WebInv, TableFits
<1>2. next.at = post[p].at /\ next.body = post[p].body /\ next.row = post[p].row
  OBVIOUS
<1>3. PostFits(next)
  BY <1>1, <1>2 DEF WebInv, PostFits
<1> QED
  BY <1>1, <1>3, PostGoesOn

LEMMA WebKept == WebInv /\ [WebNext]_webVars => WebInv'
<1> SUFFICES ASSUME WebInv, [WebNext]_webVars PROVE WebInv'
  OBVIOUS
<1>1. ASSUME NEW p \in Posts, NEW body \in Bodies, Receive(p, body) PROVE WebInv'
  <2>1. UNCHANGED table /\ TableFits'
    BY <1>1 DEF Receive, WebInv, TableFits
  <2>2. CASE Enabled /\ ValidBody(body)
    <3>1. PostFits([at |-> "cache", body |-> body]) /\ Moves(p, [at |-> "cache", body |-> body])
      BY <1>1, <2>2 DEF Receive, PostFits
    <3> QED
      BY <2>1, <3>1, PostGoesOn
  <2>3. CASE ~(Enabled /\ ValidBody(body))
    <3>1. Fails(p, 501) \/ Fails(p, 400)
      BY <1>1, <2>3 DEF Receive
    <3> QED
      BY <2>1, <3>1, PostFails
  <2> QED
    BY <2>2, <2>3
<1>2. ASSUME NEW p \in Posts, PostStep(p) PROVE WebInv'
  <2>1. CASE UpstreamFails(p) \/ BodyBroken(p)
    BY <2>1, PostFails DEF UpstreamFails, BodyBroken
  <2>2. CASE Headers(p)
    BY <2>2, PostReaches DEF Headers
  <2>3. CASE WriteFails(p)
    <3>1. /\ OfKey(CellKey(post[p].body), post[p].row.series) /\ TableFits'
          /\ Responds(p, post[p].row, FALSE)
          /\ post[p].body \in Bodies /\ ValidBody(post[p].body)
      BY <2>3 DEF WriteFails, WebInv, PostFits, TableFits, RowFits
    <3> QED
      BY <3>1, PostResponds
  <2> QED
    BY <1>2, <2>1, <2>2, <2>3, ReadCacheKeeps, BodyKeeps, UpsertKeeps, BusyKeeps DEF PostStep
<1>3. CASE PurgeExpiredWeather
  BY <1>3 DEF PurgeExpiredWeather, WebInv, TableFits
<1>4. CASE Midnight \/ UNCHANGED webVars
  BY <1>4 DEF Midnight, webVars, WebInv, TableFits
<1> QED
  BY <1>1, <1>2, <1>3, <1>4 DEF WebNext

--------------------------------------------------------------------------------
(* resolve.ts 156-199 and cache.ts, route.ts 286-349 and repo/weather.ts: whatever calls   *)
(* overlap, and whenever a database or a source fails, what is answered is what the source *)
(* it names said of a place next to the asked one; of the web's route, for the days asked  *)
(* for, and no longer ago than such days may be kept.                                     *)
THEOREM AnswersAlwaysFit == Spec => []AnswersFit
<1>1. Init => StudioInv /\ WebInv
  BY StudioStarts, WebStarts DEF Init
<1>2. StudioInv /\ WebInv /\ [Next]_vars => (StudioInv /\ WebInv)'
  <2> SUFFICES ASSUME StudioInv, WebInv, [Next]_vars PROVE StudioInv' /\ WebInv'
    OBVIOUS
  <2>1. [StudioNext]_studioVars /\ [WebNext]_webVars
    BY DEF Next, vars, RunStep, StudioStep, WebStep, LinkStep, ShellStep, AtRest
  <2> QED
    BY <2>1, StudioKept, WebKept
<1>3. StudioInv /\ WebInv => AnswersFit
  BY StudioHolds, WebHolds DEF AnswersFit
<1> QED
  BY <1>1, <1>2, <1>3, PTL DEF Spec

--------------------------------------------------------------------------------
(* The shared designs.  What is under a share id stays there; what a sharer holds, was     *)
(* answered or is shown is the design of one of its own clicks; and while a panel shares,  *)
(* the only POST it will listen to is that of its last click, for the design it shows.     *)
Holds(id, shape) == id \in DOMAIN snapshots /\ snapshots[id] = shape
WillHold(id, shape) == id \in DOMAIN snapshots' /\ snapshots'[id] = shape
Own(s, shape) == \E d \in 0..panels[s].design : shape = <<s, d>>

PanelOK(s) ==
  /\ DOMAIN panels[s] = {"design", "shareId", "clicks", "mount", "sharing", "message", "shared"}
  /\ panels[s].design \in Nat /\ panels[s].mount \in Nat
  /\ panels[s].shareId # Nobody => \E d \in 0..panels[s].design : Holds(panels[s].shareId, <<s, d>>)
  /\ panels[s].message \in ShareIds => Holds(panels[s].message, panels[s].shared)
PostOK(s, k) ==
  /\ DOMAIN posts[s][k] = {"design", "mount", "attempt", "answer"}
  /\ posts[s][k].mount \in Nat /\ posts[s][k].mount <= panels[s].mount
  /\ Own(s, posts[s][k].design)
  /\ posts[s][k].answer \in ShareIds => Holds(posts[s][k].answer, posts[s][k].design)
  /\ posts[s][k].mount = panels[s].mount =>
       /\ panels[s].sharing /\ k = panels[s].clicks
       /\ posts[s][k].design = panels[s].shared
SharerOK(s) == PanelOK(s) /\ \A k \in DOMAIN posts[s] : PostOK(s, k)
LinkInv ==
  /\ DOMAIN panels = Sharers /\ DOMAIN posts = Sharers
  /\ \A s \in Sharers : SharerOK(s)

LEMMA LinksStart == LinkInit => LinkInv
  BY ShareAssumption DEF LinkInit, LinkInv, SharerOK, PanelOK, PostOK

LEMMA LinksHold == LinkInv => LinksStand
<1> SUFFICES ASSUME LinkInv, NEW s \in Sharers
             PROVE  /\ \A id \in Given(s) \cup ({panels[s].shareId} \ {Nobody}) :
                         \E d \in 0..panels[s].design : LoadDesign(id) = <<s, d>>
                    /\ panels[s].message \in ShareIds => LoadDesign(panels[s].message) = panels[s].shared
  BY DEF LinksStand
<1>1. SharerOK(s)
  BY DEF LinkInv
<1>2. ASSUME NEW id \in Given(s)
      PROVE  \E d \in 0..panels[s].design : LoadDesign(id) = <<s, d>>
  <2>1. PICK k \in DOMAIN posts[s] : id = posts[s][k].answer /\ id \in ShareIds
    BY DEF Given
  <2> QED
    BY <1>1, <2>1 DEF SharerOK, PostOK, Own, Holds, LoadDesign
<1>3. panels[s].shareId # Nobody => \E d \in 0..panels[s].design : LoadDesign(panels[s].shareId) = <<s, d>>
  BY <1>1 DEF SharerOK, PanelOK, Holds, LoadDesign
<1>4. panels[s].message \in ShareIds => LoadDesign(panels[s].message) = panels[s].shared
  BY <1>1 DEF SharerOK, PanelOK, Holds, LoadDesign
<1> QED
  BY <1>2, <1>3, <1>4

(* A step of one sharer: the others stand, if no row is written over. *)
Grows == \A id \in DOMAIN snapshots : id \in DOMAIN snapshots' /\ snapshots'[id] = snapshots[id]
OnlyMoves(s) ==
  /\ DOMAIN panels' = DOMAIN panels /\ DOMAIN posts' = DOMAIN posts
  /\ \A t \in Sharers \ {s} : panels'[t] = panels[t] /\ posts'[t] = posts[t]

LEMMA OthersStand ==
  ASSUME LinkInv, NEW s \in Sharers, OnlyMoves(s), Grows, SharerOK(s)'
  PROVE  LinkInv'
<1>1. ASSUME NEW t \in Sharers \ {s} PROVE SharerOK(t)'
  <2>1. SharerOK(t) /\ panels'[t] = panels[t] /\ posts'[t] = posts[t]
    BY DEF LinkInv, OnlyMoves
  <2>2. \A id, shape : Holds(id, shape) => Holds(id, shape)'
    BY DEF Grows, Holds
  <2>3. PanelOK(t)'
    BY <2>1, <2>2 DEF SharerOK, PanelOK
  <2>4. ASSUME NEW k \in DOMAIN posts'[t] PROVE PostOK(t, k)'
    BY <2>1, <2>2 DEF SharerOK, PostOK, Own
  <2> QED
    BY <2>3, <2>4 DEF SharerOK
<1> QED
  BY <1>1 DEF LinkInv, OnlyMoves

LEMMA RowKept ==
  ASSUME NEW id, NEW shape, id \notin DOMAIN snapshots, snapshots' = WithRow(id, shape)
  PROVE  Grows /\ WillHold(id, shape)
  BY DEF WithRow, Grows, WillHold

LEMMA MayWriteGrows ==
  ASSUME NEW s, NEW k, MayHaveWritten(s, k) PROVE Grows
<1>1. CASE snapshots' = snapshots
  BY <1>1 DEF Grows
<1>2. CASE \E id \in ShareIds \ DOMAIN snapshots : snapshots' = WithRow(id, posts[s][k].design)
  BY <1>2, RowKept
<1> QED
  BY <1>1, <1>2 DEF MayHaveWritten

(* A POST comes one step further and no panel changes: a new attempt, or the answer. *)
LEMMA PostMoves ==
  ASSUME LinkInv, NEW s \in Sharers, NEW k \in DOMAIN posts[s], Grows, panels' = panels,
         DOMAIN posts' = DOMAIN posts, \A t \in Sharers \ {s} : posts'[t] = posts[t],
         DOMAIN posts'[s] = DOMAIN posts[s], \A j \in DOMAIN posts[s] \ {k} : posts'[s][j] = posts[s][j],
         DOMAIN posts'[s][k] = DOMAIN posts[s][k],
         posts'[s][k].mount = posts[s][k].mount, posts'[s][k].design = posts[s][k].design,
         posts'[s][k].answer \in ShareIds => WillHold(posts'[s][k].answer, posts[s][k].design)
  PROVE  LinkInv'
<1>1. SharerOK(s)
  BY DEF LinkInv
<1>2. \A id, shape : Holds(id, shape) => Holds(id, shape)'
  BY DEF Grows, Holds
<1>3. PanelOK(s)'
  BY <1>1, <1>2 DEF SharerOK, PanelOK
<1>4. ASSUME NEW j \in DOMAIN posts'[s], j # k PROVE PostOK(s, j)'
  BY <1>1, <1>2, <1>4 DEF SharerOK, PostOK, Own
<1>5. PostOK(s, k)'
  <2>1. PostOK(s, k)
    BY <1>1 DEF SharerOK
  <2> QED
    BY <2>1 DEF PostOK, Own, Holds, WillHold
<1>6. SharerOK(s)'
  BY <1>3, <1>4, <1>5 DEF SharerOK
<1>7. OnlyMoves(s)
  BY DEF OnlyMoves
<1> QED
  BY <1>6, <1>7, OthersStand

LEMMA ReplyKeeps ==
  ASSUME LinkInv, NEW s \in Sharers, NEW k \in DOMAIN posts[s], NEW reply, Grows, panels' = panels,
         Reply(s, k, reply), reply \in ShareIds => WillHold(reply, posts[s][k].design)
  PROVE  LinkInv'
<1>1. /\ DOMAIN posts = Sharers
      /\ DOMAIN posts[s][k] = {"design", "mount", "attempt", "answer"}
  BY DEF LinkInv, SharerOK, PostOK
<1>2. /\ DOMAIN posts' = DOMAIN posts /\ \A t \in Sharers \ {s} : posts'[t] = posts[t]
      /\ posts'[s] = [posts[s] EXCEPT ![k].answer = reply]
  BY <1>1 DEF Reply
<1>3. /\ DOMAIN posts'[s] = DOMAIN posts[s] /\ \A j \in DOMAIN posts[s] \ {k} : posts'[s][j] = posts[s][j]
      /\ posts'[s][k] = [posts[s][k] EXCEPT !.answer = reply]
  BY <1>2
<1>4. /\ DOMAIN posts'[s][k] = DOMAIN posts[s][k] /\ posts'[s][k].answer = reply
      /\ posts'[s][k].mount = posts[s][k].mount /\ posts'[s][k].design = posts[s][k].design
  BY <1>1, <1>3
<1> QED
  BY <1>2, <1>3, <1>4, PostMoves

(* saveDesign() and withDb(). *)
LEMMA RouteKeeps ==
  ASSUME LinkInv, NEW s \in Sharers, NEW k \in DOMAIN posts[s],
         \/ \E id \in ShareIds : Create(s, k, id) \/ Taken(s, k, id)
         \/ DbFails(s, k)
  PROVE  LinkInv'
<1>0. Unavailable \notin ShareIds
  BY ShareAssumption
<1>1. ASSUME NEW id \in ShareIds, Create(s, k, id) PROVE LinkInv'
  <2>1. Grows /\ WillHold(id, posts[s][k].design)
    BY <1>1, RowKept DEF Create
  <2> QED
    BY <1>1, <2>1, ReplyKeeps DEF Create
<1>2. ASSUME NEW id \in ShareIds, Taken(s, k, id) PROVE LinkInv'
  <2>1. snapshots' = snapshots /\ panels' = panels
    BY <1>2 DEF Taken
  <2>2. Grows
    BY <2>1 DEF Grows
  <2>3. CASE Reply(s, k, Unavailable)
    BY <1>0, <2>1, <2>2, <2>3, ReplyKeeps
  <2>4. CASE posts' = [posts EXCEPT ![s][k].attempt = @ + 1]
    <3>1. /\ DOMAIN posts = Sharers
          /\ DOMAIN posts[s][k] = {"design", "mount", "attempt", "answer"}
          /\ posts[s][k].answer \in ShareIds => Holds(posts[s][k].answer, posts[s][k].design)
      BY DEF LinkInv, SharerOK, PostOK
    <3>2. /\ DOMAIN posts' = DOMAIN posts /\ \A t \in Sharers \ {s} : posts'[t] = posts[t]
          /\ posts'[s] = [posts[s] EXCEPT ![k].attempt = @ + 1]
      BY <2>4, <3>1
    <3>3. /\ DOMAIN posts'[s] = DOMAIN posts[s] /\ \A j \in DOMAIN posts[s] \ {k} : posts'[s][j] = posts[s][j]
          /\ posts'[s][k] = [posts[s][k] EXCEPT !.attempt = @ + 1]
      BY <3>2
    <3>4. /\ DOMAIN posts'[s][k] = DOMAIN posts[s][k] /\ posts'[s][k].answer = posts[s][k].answer
          /\ posts'[s][k].mount = posts[s][k].mount /\ posts'[s][k].design = posts[s][k].design
      BY <3>1, <3>3
    <3>5. posts'[s][k].answer \in ShareIds => WillHold(posts'[s][k].answer, posts[s][k].design)
      BY <2>1, <3>1, <3>4 DEF Holds, WillHold
    <3> QED
      BY <2>1, <2>2, <3>2, <3>3, <3>4, <3>5, PostMoves
  <2> QED
    BY <1>2, <2>3, <2>4 DEF Taken
<1>3. CASE DbFails(s, k)
  <2>1. Grows
    BY <1>3, MayWriteGrows DEF DbFails
  <2> QED
    BY <1>0, <1>3, <2>1, ReplyKeeps DEF DbFails
<1> QED
  BY <1>1, <1>2, <1>3

(* The store changes: the panel of before is left to what it was told, or there is none.   *)
LEMMA RedesignKeeps ==
  ASSUME LinkInv, NEW s \in Sharers, Redesign(s) \/ UploadArrives(s)
  PROVE  LinkInv'
<1>1. /\ DOMAIN panels = Sharers /\ DOMAIN posts = Sharers /\ SharerOK(s)
      /\ snapshots' = snapshots /\ posts' = posts
  BY DEF LinkInv, Redesign, UploadArrives
<1>2. OnlyMoves(s) /\ Grows
  BY <1>1 DEF Redesign, UploadArrives, Panel, OnlyMoves, Grows
<1>3. CASE Redesign(s)
  <2>1. panels'[s] = [panels[s] EXCEPT !.design = @ + 1, !.mount = @ + 1, !.sharing = FALSE,
                                       !.message = Nobody, !.shared = Nobody]
    BY <1>1, <1>3 DEF Redesign, Panel
  <2>2. /\ DOMAIN panels'[s] = DOMAIN panels[s]
        /\ panels'[s].design = panels[s].design + 1 /\ panels'[s].mount = panels[s].mount + 1
        /\ panels'[s].message = Nobody /\ panels'[s].shareId = panels[s].shareId
    BY <1>1, <2>1 DEF SharerOK, PanelOK
  <2>3. PanelOK(s)'
    BY <1>1, <2>2, ShareAssumption DEF SharerOK, PanelOK, Holds
  <2>4. ASSUME NEW k \in DOMAIN posts'[s] PROVE PostOK(s, k)'
    <3>1. PostOK(s, k) /\ panels[s].mount \in Nat /\ panels[s].design \in Nat
      BY <1>1 DEF SharerOK, PanelOK
    <3> QED
      BY <1>1, <2>2, <3>1 DEF PostOK, Own, Holds
  <2> QED
    BY <1>2, <2>3, <2>4, OthersStand DEF SharerOK
<1>4. CASE UploadArrives(s)
  <2>1. panels'[s] = [panels[s] EXCEPT !.design = @ + 1]
    BY <1>1, <1>4 DEF UploadArrives, Panel
  <2>2. /\ DOMAIN panels'[s] = DOMAIN panels[s]
        /\ panels'[s].design = panels[s].design + 1 /\ panels'[s].mount = panels[s].mount
        /\ panels'[s].message = panels[s].message /\ panels'[s].shareId = panels[s].shareId
        /\ panels'[s].sharing = panels[s].sharing /\ panels'[s].clicks = panels[s].clicks
        /\ panels'[s].shared = panels[s].shared
    BY <1>1, <2>1 DEF SharerOK, PanelOK
  <2>3. PanelOK(s)'
    BY <1>1, <2>2 DEF SharerOK, PanelOK, Holds
  <2>4. ASSUME NEW k \in DOMAIN posts'[s] PROVE PostOK(s, k)'
    <3>1. PostOK(s, k) /\ panels[s].design \in Nat
      BY <1>1 DEF SharerOK, PanelOK
    <3> QED
      BY <1>1, <2>2, <3>1 DEF PostOK, Own, Holds
  <2> QED
    BY <1>2, <2>3, <2>4, OthersStand DEF SharerOK
<1> QED
  BY <1>3, <1>4

(* onShare(): no POST of this panel was under way, so the new one is the only one. *)
LEMMA OnShareKeeps ==
  ASSUME LinkInv, NEW s \in Sharers, OnShare(s)
  PROVE  LinkInv'
<1> DEFINE shape == <<s, panels[s].design>>
           click == panels[s].clicks + 1
           new == Post(shape, panels[s].mount)
<1>1. /\ DOMAIN panels = Sharers /\ DOMAIN posts = Sharers /\ SharerOK(s)
      /\ snapshots' = snapshots /\ ~panels[s].sharing
  BY DEF LinkInv, OnShare
<1>2. OnlyMoves(s) /\ Grows
  BY <1>1 DEF OnShare, Panel, OnlyMoves, Grows
<1>3. panels'[s] = [panels[s] EXCEPT !.clicks = click, !.sharing = TRUE, !.message = Nobody, !.shared = shape]
  BY <1>1 DEF OnShare, Panel
<1>4. /\ DOMAIN panels'[s] = DOMAIN panels[s]
      /\ panels'[s].design = panels[s].design /\ panels'[s].mount = panels[s].mount
      /\ panels'[s].message = Nobody /\ panels'[s].shareId = panels[s].shareId
      /\ panels'[s].sharing = TRUE /\ panels'[s].clicks = click /\ panels'[s].shared = shape
  BY <1>1, <1>3 DEF SharerOK, PanelOK
<1>5. PanelOK(s)'
  BY <1>1, <1>4, ShareAssumption DEF SharerOK, PanelOK, Holds
<1>6. posts'[s] = [k \in DOMAIN posts[s] \cup {click} |-> IF k = click THEN new ELSE posts[s][k]]
  BY <1>1 DEF OnShare
<1>7. /\ DOMAIN new = {"design", "mount", "attempt", "answer"}
      /\ new.design = shape /\ new.mount = panels[s].mount /\ new.answer = Nobody
  BY DEF Post
<1>8. ASSUME NEW k \in DOMAIN posts'[s] PROVE PostOK(s, k)'
  <2>1. CASE k = click
    <3>1. posts'[s][k] = new
      BY <1>6, <2>1
    <3>2. \E d \in 0..panels'[s].design : shape = <<s, d>>
      BY <1>1, <1>4 DEF SharerOK, PanelOK
    <3>3. panels[s].mount \in Nat
      BY <1>1 DEF SharerOK, PanelOK
    <3> HIDE DEF shape, new, click
    <3> QED
      BY <1>4, <1>7, <2>1, <3>1, <3>2, <3>3, ShareAssumption DEF PostOK, Own
  <2>2. CASE k # click
    <3>1. k \in DOMAIN posts[s] /\ posts'[s][k] = posts[s][k] /\ PostOK(s, k)
      BY <1>1, <1>6, <2>2 DEF SharerOK
    <3> QED
      BY <1>1, <1>4, <3>1 DEF PostOK, Own, Holds
  <2> QED
    BY <2>1, <2>2
<1> QED
  BY <1>2, <1>5, <1>8, OthersStand DEF SharerOK

(* The answer arrives: what it tells the store and the panel is a link to the POST's own   *)
(* design, or no link.                                                                     *)
LEMMA SettledKeeps ==
  ASSUME LinkInv, NEW s \in Sharers, NEW k \in DOMAIN posts[s], Grows,
         NEW shareId, NEW message, Settled(s, k, shareId, message),
         \/ shareId = panels[s].shareId
         \/ WillHold(shareId, posts[s][k].design),
         message \in ShareIds => WillHold(message, posts[s][k].design)
  PROVE  LinkInv'
<1> DEFINE still == posts[s][k].mount = panels[s].mount
<1>1. /\ DOMAIN panels = Sharers /\ DOMAIN posts = Sharers /\ SharerOK(s) /\ PostOK(s, k)
  BY DEF LinkInv, SharerOK
<1>2. OnlyMoves(s)
  BY <1>1 DEF Settled, Panel, OnlyMoves
<1>3. panels'[s] = [panels[s] EXCEPT !.shareId = shareId, !.sharing = panels[s].sharing /\ ~still,
                                     !.message = IF still THEN message ELSE panels[s].message]
  BY <1>1 DEF Settled, Panel, SharerOK, PanelOK
<1>4. /\ DOMAIN panels'[s] = DOMAIN panels[s]
      /\ panels'[s].design = panels[s].design /\ panels'[s].mount = panels[s].mount
      /\ panels'[s].message = IF still THEN message ELSE panels[s].message
      /\ panels'[s].shareId = shareId
      /\ panels'[s].sharing = (panels[s].sharing /\ ~still)
      /\ panels'[s].clicks = panels[s].clicks /\ panels'[s].shared = panels[s].shared
  BY <1>1, <1>3 DEF SharerOK, PanelOK
<1>5. \A id, shape : Holds(id, shape) => WillHold(id, shape)
  BY DEF Holds, WillHold, Grows
<1>6. posts[s][k].mount = panels[s].mount => posts[s][k].design = panels[s].shared
  BY <1>1 DEF PostOK
<1>7. shareId # Nobody => \E d \in 0..panels[s].design : WillHold(shareId, <<s, d>>)
  <2>1. CASE shareId = panels[s].shareId
    BY <1>1, <1>5, <2>1 DEF SharerOK, PanelOK
  <2>2. CASE WillHold(shareId, posts[s][k].design)
    BY <1>1, <2>2 DEF PostOK, Own
  <2> QED
    BY <2>1, <2>2
<1>8. panels'[s].message \in ShareIds => WillHold(panels'[s].message, panels[s].shared)
  BY <1>1, <1>4, <1>5, <1>6 DEF SharerOK, PanelOK
<1>9. PanelOK(s)'
  BY <1>1, <1>4, <1>7, <1>8 DEF SharerOK, PanelOK, Holds, WillHold
<1>10. posts'[s] = [j \in DOMAIN posts[s] \ {k} |-> posts[s][j]]
  BY <1>1 DEF Settled
<1>11. ASSUME NEW j \in DOMAIN posts'[s] PROVE PostOK(s, j)'
  <2>1. j \in DOMAIN posts[s] /\ j # k /\ posts'[s][j] = posts[s][j] /\ PostOK(s, j)
    BY <1>1, <1>10 DEF SharerOK
  <2>2. posts[s][j].mount = panels[s].mount => ~still
    BY <1>1, <2>1 DEF PostOK
  <2> HIDE DEF still
  <2> QED
    BY <1>4, <1>5, <2>1, <2>2 DEF PostOK, Own, Holds, WillHold
<1> QED
  BY <1>2, <1>9, <1>11, OthersStand DEF SharerOK

LEMMA AnswerKeeps ==
  ASSUME LinkInv, NEW s \in Sharers, NEW k \in DOMAIN posts[s], Answered(s, k) \/ FetchThrows(s, k)
  PROVE  LinkInv'
<1>1. posts[s][k].answer \in ShareIds => Holds(posts[s][k].answer, posts[s][k].design)
  BY DEF LinkInv, SharerOK, PostOK
<1>2. CASE Answered(s, k)
  <2> DEFINE reply == posts[s][k].answer
             shareId == IF reply \in ShareIds THEN reply ELSE panels[s].shareId
  <2>1. snapshots' = snapshots /\ Settled(s, k, shareId, reply)
    BY <1>2 DEF Answered
  <2>2. Grows
    BY <2>1 DEF Grows
  <2>3. reply \in ShareIds => WillHold(reply, posts[s][k].design)
    BY <1>1, <2>1 DEF Holds, WillHold
  <2>4. shareId = panels[s].shareId \/ WillHold(shareId, posts[s][k].design)
    BY <2>3
  <2> HIDE DEF shareId, reply
  <2> QED
    BY <2>1, <2>2, <2>3, <2>4, SettledKeeps
<1>3. CASE FetchThrows(s, k)
  <2>1. Grows
    BY <1>3, MayWriteGrows DEF FetchThrows, Grows
  <2>2. Settled(s, k, panels[s].shareId, Nobody) /\ Nobody \notin ShareIds
    BY <1>3, ShareAssumption DEF FetchThrows
  <2> QED
    BY <2>1, <2>2, SettledKeeps
<1> QED
  BY <1>2, <1>3

LEMMA LinksKept == LinkInv /\ [LinkNext]_linkVars => LinkInv'
<1> SUFFICES ASSUME LinkInv, [LinkNext]_linkVars PROVE LinkInv'
  OBVIOUS
<1>1. ASSUME NEW s \in Sharers, Redesign(s) \/ UploadArrives(s) PROVE LinkInv'
  BY <1>1, RedesignKeeps
<1>2. ASSUME NEW s \in Sharers, OnShare(s) PROVE LinkInv'
  BY <1>2, OnShareKeeps
<1>3. ASSUME NEW s \in Sharers, NEW k \in DOMAIN posts[s],
             \/ \E id \in ShareIds : Create(s, k, id) \/ Taken(s, k, id)
             \/ DbFails(s, k)
      PROVE  LinkInv'
  BY <1>3, RouteKeeps
<1>4. ASSUME NEW s \in Sharers, NEW k \in DOMAIN posts[s], Answered(s, k) \/ FetchThrows(s, k)
      PROVE  LinkInv'
  BY <1>4, AnswerKeeps
<1>5. CASE UNCHANGED linkVars
  BY <1>5 DEF linkVars, LinkInv, SharerOK, PanelOK, PostOK, Own, Holds
<1> QED
  BY <1>1, <1>2, <1>3, <1>4, <1>5 DEF LinkNext

(* ExportPanel.tsx 35-49 and designs.ts 75-115: for any number of sharers, attempts and    *)
(* letters, a link that was given out opens the design it was asked for, for good.         *)
THEOREM LinksStandForGood == LinkSpec => []LinksStand
  BY LinksStart, LinksHold, LinksKept, PTL DEF LinkSpec

--------------------------------------------------------------------------------
(* The service worker.  What a load asks of the server is answered by the build the        *)
(* document is of, as long as none is deployed.                                            *)
ShellInv ==
  /\ live \in Nat \ {0}
  /\ DOMAIN tab = {"state", "document", "got", "loads", "calm", "asked"}
  /\ tab.calm \in BOOLEAN
  /\ tab.calm /\ tab.loads > 0 =>
       /\ tab.document = tab.asked /\ tab.state \in {"loading", "whole"}
       /\ tab.state = "loading" => tab.asked = live

LEMMA ShellStarts == ShellInit => ShellInv
  BY DEF ShellInit, ShellInv

(* The document is the build the server has, or the load is not calm. *)
LEMMA LoadKeeps ==
  ASSUME ShellInv, NEW build, NEW up \in BOOLEAN, Loads(build, up), live' = live, up => build = live
  PROVE  ShellInv'
<1>1. /\ DOMAIN tab' = DOMAIN tab /\ tab'.calm = up
      /\ tab'.state = IF build = 0 THEN "none" ELSE "loading"
      /\ tab'.document = build /\ tab'.asked = live
  BY DEF ShellInv, Loads
<1> QED
  BY <1>1 DEF ShellInv

LEMMA FetchKeeps ==
  ASSUME ShellInv, NEW part, NEW up \in BOOLEAN, Fetch(part, up)
  PROVE  ShellInv'
<1> DEFINE served == up /\ tab.document = live
           cached == worker.active # 0 /\ CachedChunk(<<tab.document, part>>)
           got == IF cached \/ served THEN tab.got \cup {part} ELSE tab.got
           state_ == IF part \notin got THEN "broken" ELSE IF got = Parts THEN "whole" ELSE tab.state
<1>1. /\ tab.state = "loading" /\ live' = live
      /\ tab' = [tab EXCEPT !.got = got, !.calm = tab.calm /\ up, !.state = state_]
  BY DEF Fetch, ShellInv
<1>2. served => part \in got
  OBVIOUS
<1> HIDE DEF got, served
<1>3. /\ DOMAIN tab' = DOMAIN tab /\ tab'.calm = (tab.calm /\ up) /\ tab'.state = state_
      /\ tab'.document = tab.document /\ tab'.asked = tab.asked /\ tab'.loads = tab.loads
  BY <1>1 DEF ShellInv
<1>4. tab.calm /\ up /\ tab.loads > 0 => served
  BY <1>1 DEF ShellInv, served
<1> QED
  BY <1>1, <1>2, <1>3, <1>4 DEF ShellInv

LEMMA ShellKept == ShellInv /\ [ShellNext]_shellVars => ShellInv'
<1> SUFFICES ASSUME ShellInv, [ShellNext]_shellVars PROVE ShellInv'
  OBVIOUS
<1>1. ASSUME NEW up \in BOOLEAN, Navigate(up) PROVE ShellInv'
  <2>1. PICK build : Loads(build, up) /\ live' = live /\ (up => build = live)
    BY <1>1 DEF Navigate
  <2> QED
    BY <2>1, LoadKeeps
<1>2. ASSUME NEW up \in BOOLEAN, NEW part \in Parts, Fetch(part, up) PROVE ShellInv'
  BY <1>2, FetchKeeps
<1>3. CASE Deploy
  <2>1. /\ live' = live + 1
        /\ tab' = [tab EXCEPT !.calm = tab.calm /\ tab.state # "loading"]
    BY <1>3 DEF Deploy, ShellInv
  <2>2. /\ DOMAIN tab' = DOMAIN tab /\ tab'.calm = (tab.calm /\ tab.state # "loading")
        /\ tab'.state = tab.state /\ tab'.document = tab.document
        /\ tab'.asked = tab.asked /\ tab'.loads = tab.loads
    BY <2>1 DEF ShellInv
  <2>3. live' \in Nat \ {0}
    BY <2>1 DEF ShellInv
  <2>4. tab'.calm \in BOOLEAN
    BY <2>2
  <2>5. tab'.calm /\ tab'.loads > 0 => tab.calm /\ tab.loads > 0 /\ tab.state # "loading"
    BY <2>2
  <2> QED
    BY <2>2, <2>3, <2>4, <2>5 DEF ShellInv
<1>4. CASE Register \/ Install \/ InstallFails \/ Activate \/ UNCHANGED shellVars
  BY <1>4 DEF Register, Install, InstallFails, Activate, shellVars, ShellInv
<1> QED
  BY <1>1, <1>2, <1>3, <1>4 DEF ShellNext

(* sw.js 16-26: whatever builds and versions the caches hold, and however many there are,  *)
(* a load with the network up and no deployment under it shows the server's build, whole.  *)
THEOREM CalmLoadsAreLive == ShellSpec => []CalmLoadIsLive
<1>1. ShellInv => CalmLoadIsLive
  BY DEF ShellInv, CalmLoadIsLive
<1> QED
  BY <1>1, ShellStarts, ShellKept, PTL DEF ShellSpec

--------------------------------------------------------------------------------
(* The stored runs of the web app: RunCache. *)

(* A row holds the numbers of the version it names, of requests that can be solved.       *)
RunRowsFit == \A h \in Hash : row[h] # None =>
          /\ row[h].kpis = row[h].engineVersion
          /\ \A a \in RunPosts \ Malformed : HashOf[a] = h => a \notin Unsolved

(* A handler has a version once it runs and an answer only once it is done; it reads the   *)
(* cache for a request only, and writes to it for a solved one only.                      *)
RunHandled == \A a \in RunPosts :
  /\ stage[a] = "idle" <=> by[a] = None
  /\ stage[a] # "answered" => answer[a] = None
  /\ stage[a] = "reading" => a \notin Malformed
  /\ stage[a] = "writing" => a \notin Unsolved

(* The inductive invariant. *)
RunInv == TypeOK /\ RunRowsFit /\ RunHandled

(* The refinement mapping of Numbers: what of the answer the contract is about. *)
given == [a \in RunPosts |-> IF answer[a] = None THEN None ELSE answer[a].of]

--------------------------------------------------------------------------------
LEMMA RunStarts == RunInit => RunInv
BY RunCacheAssumption DEF RunInit, RunInv, TypeOK, RunRowsFit, RunHandled

(* WriteRun() for a request that can be solved. *)
LEMMA WriteRunKeeps ==
  ASSUME RunInv, NEW a \in RunPosts \ Unsolved, NEW v \in Version, NEW storeFull \in BOOLEAN,
         WriteRun(HashOf[a], v, storeFull)
  PROVE  row' \in [Hash -> Row \cup {None}] /\ RunRowsFit'
<1> USE RunCacheAssumption
<1> DEFINE h == HashOf[a]
           full == IF storeFull THEN v ELSE IF row[h] = None THEN None ELSE row[h].full
           new == [kpis |-> v, engineVersion |-> v, full |-> full]
<1>1. row \in [Hash -> Row \cup {None}] /\ h \in Hash
  BY DEF RunInv, TypeOK
<1>2. full \in Version \cup {None}
  BY <1>1 DEF Row
<1>3. row' = [row EXCEPT ![h] = new]
  BY DEF WriteRun
<1> HIDE DEF full
<1>4. new \in Row /\ new.kpis = new.engineVersion
  BY <1>2 DEF Row
<1> HIDE DEF new, h
<1>5. row' \in [Hash -> Row \cup {None}]
  BY <1>1, <1>3, <1>4
<1>6. ASSUME NEW g \in Hash, row'[g] # None
      PROVE  /\ row'[g].kpis = row'[g].engineVersion
             /\ \A b \in RunPosts \ Malformed : HashOf[b] = g => b \notin Unsolved
  <2>1. CASE g = h
    BY <1>1, <1>3, <1>4, <2>1 DEF h
  <2>2. CASE g # h
    BY <1>1, <1>3, <1>6, <2>2 DEF RunInv, RunRowsFit
  <2> QED BY <2>1, <2>2
<1> QED BY <1>5, <1>6 DEF RunRowsFit

(* What Respond() does, and what of it the contract sees. *)
LEMMA RunResponds ==
  ASSUME RunInv, NEW a \in RunPosts, NEW shape, NEW of, [shape |-> shape, of |-> of] \in Answer,
         Respond(a, shape, of)
  PROVE  /\ stage' = [stage EXCEPT ![a] = "answered"]
         /\ answer' \in [RunPosts -> Answer \cup {None}]
         /\ \A b \in RunPosts \ {a} : answer'[b] = answer[b]
         /\ given' = [given EXCEPT ![a] = of]
<1> USE RunCacheAssumption
<1> DEFINE new == [shape |-> shape, of |-> of]
<1>1. answer \in [RunPosts -> Answer \cup {None}]
  BY DEF RunInv, TypeOK
<1>2. answer' = [answer EXCEPT ![a] = new] /\ new # None /\ new.of = of
  BY DEF Respond
<1> HIDE DEF new
<1>3. \A b \in RunPosts \ {a} : answer'[b] = answer[b]
  BY <1>1, <1>2
<1>4. answer'[a] = new
  BY <1>1, <1>2
<1>5. \A b \in RunPosts : given'[b] = IF b = a THEN of ELSE given[b]
  BY <1>2, <1>3, <1>4 DEF given
<1>6. given' = [given EXCEPT ![a] = of]
  BY <1>5 DEF given
<1> QED BY <1>1, <1>2, <1>3, <1>6 DEF Respond, new

(* The answers that are given: an error, or the numbers of some version. *)
LEMMA RunAnswers ==
  /\ [shape |-> "error", of |-> "error"] \in Answer
  /\ \A v \in Version : /\ [shape |-> "kpis", of |-> v] \in Answer
                        /\ [shape |-> "result", of |-> v] \in Answer
BY DEF Answer

(* An answer of a handler that has a version is the contract's Reply: its version's own    *)
(* numbers, or the error of a request that cannot be solved.                              *)
LEMMA RunReplies ==
  ASSUME RunInv, NEW a \in RunPosts, NEW shape, NEW of, [shape |-> shape, of |-> of] \in Answer,
         Respond(a, shape, of), stage[a] \in {"reading", "writing"}, by' = by,
         of = IF a \in Unsolved THEN "error" ELSE by[a]
  PROVE  Numbers!Reply(a)
<1>1. by[a] # None /\ answer[a] = None
  BY DEF RunInv, RunHandled
<1>2. given[a] = None /\ given' = [given EXCEPT ![a] = of]
  BY <1>1, RunResponds DEF given
<1> QED BY <1>1, <1>2 DEF Numbers!Reply, given

(* Handlers that answer keep what is known of them; nothing else of theirs changes.       *)
LEMMA RunRespondKeeps ==
  ASSUME RunInv, NEW a \in RunPosts, NEW shape, NEW of, [shape |-> shape, of |-> of] \in Answer,
         Respond(a, shape, of), engine' = engine, by' \in [RunPosts -> Version \cup {None}],
         \A b \in RunPosts \ {a} : by'[b] = by[b], by'[a] # None,
         row' \in [Hash -> Row \cup {None}], RunRowsFit'
  PROVE  RunInv'
<1>1. /\ stage' = [stage EXCEPT ![a] = "answered"]
      /\ answer' \in [RunPosts -> Answer \cup {None}]
      /\ \A b \in RunPosts \ {a} : answer'[b] = answer[b]
  BY RunResponds
<1>2. TypeOK'
  BY <1>1 DEF RunInv, TypeOK
<1>3. RunHandled'
  BY <1>1 DEF RunInv, TypeOK, RunHandled
<1> QED BY <1>2, <1>3 DEF RunInv

--------------------------------------------------------------------------------
(* Each action keeps the invariant and is a step or a stutter of the contract. *)
ContractStep == [Numbers!Next]_<<by, given>>

LEMMA RunPosted ==
  ASSUME RunInv, NEW a \in RunPosts, PostRun(a)
  PROVE  RunInv' /\ ContractStep
<1> USE RunCacheAssumption
<1>1. /\ stage[a] = "idle" /\ by[a] = None /\ answer[a] = None /\ engine \in Version
      /\ by' = [by EXCEPT ![a] = engine] /\ UNCHANGED <<row, engine>>
      /\ by \in [RunPosts -> Version \cup {None}] /\ engine # None
  BY DEF PostRun, RunInv, TypeOK, RunHandled
<1>2. row' \in [Hash -> Row \cup {None}] /\ RunRowsFit'
  BY <1>1 DEF RunInv, TypeOK, RunRowsFit
<1>3. CASE a \in Malformed /\ Respond(a, "error", "error")
  <2>1. RunInv'
    BY <1>1, <1>2, <1>3, RunAnswers, RunRespondKeeps
  <2>2. given' = [given EXCEPT ![a] = "error"]
    BY <1>3, RunAnswers, RunResponds
  <2>3. Numbers!Accept(a)
    BY <1>1, <1>3, <2>2 DEF Numbers!Accept, given
  <2> QED BY <2>1, <2>3 DEF ContractStep, Numbers!Next
<1>4. CASE a \notin Malformed /\ stage' = [stage EXCEPT ![a] = "reading"] /\ UNCHANGED answer
  <2>1. TypeOK'
    BY <1>1, <1>2, <1>4 DEF RunInv, TypeOK
  <2>2. RunHandled'
    BY <1>1, <1>4 DEF RunInv, TypeOK, RunHandled
  <2>3. Numbers!Accept(a)
    BY <1>1, <1>4 DEF Numbers!Accept, given
  <2> QED BY <1>2, <2>1, <2>2, <2>3 DEF RunInv, ContractStep, Numbers!Next
<1> QED BY <1>3, <1>4 DEF PostRun

LEMMA RunHits ==
  ASSUME RunInv, NEW a \in RunPosts, Hit(a)
  PROVE  RunInv' /\ ContractStep
<1> USE RunCacheAssumption
<1>1. /\ stage[a] = "reading" /\ UNCHANGED <<row, engine, by>> /\ a \notin Malformed
      /\ by[a] \in Version /\ by \in [RunPosts -> Version \cup {None}]
  BY DEF Hit, RunInv, TypeOK, RunHandled
<1>2. PICK r \in HitRow(HashOf[a], by[a]) : Respond(a, "kpis", r.kpis)
  BY DEF Hit
<1>3. r.kpis = by[a] /\ a \notin Unsolved
  BY <1>1 DEF HitRow, RunInv, RunRowsFit
<1>4. row' \in [Hash -> Row \cup {None}] /\ RunRowsFit'
  BY <1>1 DEF RunInv, TypeOK, RunRowsFit
<1>5. RunInv'
  BY <1>1, <1>2, <1>3, <1>4, RunAnswers, RunRespondKeeps
<1>6. Numbers!Reply(a)
  BY <1>1, <1>2, <1>3, RunAnswers, RunReplies
<1> QED BY <1>5, <1>6 DEF ContractStep, Numbers!Next

LEMMA RunMisses ==
  ASSUME RunInv, NEW a \in RunPosts, NEW dbFails \in BOOLEAN, Miss(a, dbFails)
  PROVE  RunInv' /\ ContractStep
<1> USE RunCacheAssumption
<1>1. /\ stage[a] = "reading" /\ UNCHANGED <<row, engine, by>>
      /\ by[a] # None /\ by \in [RunPosts -> Version \cup {None}]
  BY DEF Miss, RunInv, TypeOK, RunHandled
<1>2. row' \in [Hash -> Row \cup {None}] /\ RunRowsFit'
  BY <1>1 DEF RunInv, TypeOK, RunRowsFit
<1>3. CASE a \in Unsolved /\ Respond(a, "error", "error")
  <2>1. RunInv'
    BY <1>1, <1>2, <1>3, RunAnswers, RunRespondKeeps
  <2>2. Numbers!Reply(a)
    BY <1>1, <1>3, RunAnswers, RunReplies
  <2> QED BY <2>1, <2>2 DEF ContractStep, Numbers!Next
<1>4. CASE a \notin Unsolved /\ stage' = [stage EXCEPT ![a] = "writing"] /\ UNCHANGED answer
  <2>1. TypeOK'
    BY <1>1, <1>2, <1>4 DEF RunInv, TypeOK
  <2>2. RunHandled'
    BY <1>1, <1>4 DEF RunInv, TypeOK, RunHandled
  <2> QED BY <1>1, <1>2, <1>4, <2>1, <2>2 DEF RunInv, ContractStep, given
<1> QED BY <1>3, <1>4 DEF Miss

LEMMA RunStores ==
  ASSUME RunInv, NEW a \in RunPosts, StoreAndRespond(a)
  PROVE  RunInv' /\ ContractStep
<1> USE RunCacheAssumption
<1>1. /\ stage[a] = "writing" /\ UNCHANGED <<engine, by>> /\ a \notin Unsolved
      /\ by[a] \in Version /\ by \in [RunPosts -> Version \cup {None}]
      /\ Respond(a, "result", by[a])
  BY DEF StoreAndRespond, RunInv, TypeOK, RunHandled
<1>2. row' \in [Hash -> Row \cup {None}] /\ RunRowsFit'
  <2>1. CASE WriteRun(HashOf[a], by[a], FALSE)
    BY <1>1, <2>1, WriteRunKeeps
  <2>2. CASE RunNotWritten
    BY <2>2 DEF RunNotWritten, RunInv, TypeOK, RunRowsFit
  <2> QED BY <2>1, <2>2 DEF StoreAndRespond
<1>3. RunInv'
  BY <1>1, <1>2, RunAnswers, RunRespondKeeps
<1>4. Numbers!Reply(a)
  BY <1>1, RunAnswers, RunReplies
<1> QED BY <1>3, <1>4 DEF ContractStep, Numbers!Next

(* What is done to the cache or the engine alone changes no answer. *)
LEMMA RunOthers ==
  ASSUME RunInv,
         \/ \E h \in Hash : StoreFull(h)
         \/ PurgeRunsForOtherVersions
         \/ \E v \in Version : Release(v)
         \/ UNCHANGED runVars
  PROVE  RunInv' /\ ContractStep
<1>1. UNCHANGED <<stage, by, answer>> /\ engine' \in Version
  BY DEF StoreFull, PurgeRunsForOtherVersions, Release, runVars, RunInv, TypeOK
<1>2. row' \in [Hash -> Row \cup {None}] /\ RunRowsFit'
  <2>1. ASSUME NEW h \in Hash, StoreFull(h)
        PROVE  row' \in [Hash -> Row \cup {None}] /\ RunRowsFit'
    <3>1. PICK a \in RunPosts \ Unsolved : HashOf[a] = h
      BY <2>1 DEF StoreFull
    <3>2. WriteRun(HashOf[a], engine, TRUE) /\ engine \in Version
      BY <2>1, <3>1 DEF StoreFull, RunInv, TypeOK
    <3> QED BY <3>2, WriteRunKeeps
  <2>2. CASE PurgeRunsForOtherVersions
    BY <2>2 DEF PurgeRunsForOtherVersions, RunInv, TypeOK, RunRowsFit
  <2>3. CASE UNCHANGED row
    BY <2>3 DEF RunInv, TypeOK, RunRowsFit
  <2> QED BY <2>1, <2>2, <2>3 DEF Release, runVars
<1>3. TypeOK' /\ RunHandled'
  BY <1>1, <1>2 DEF RunInv, TypeOK, RunHandled
<1> QED BY <1>1, <1>2, <1>3 DEF RunInv, ContractStep, given

LEMMA RunKept == RunInv /\ [RunNext]_runVars => RunInv' /\ ContractStep
BY RunPosted, RunHits, RunMisses, RunStores, RunOthers DEF RunNext

LEMMA RunStands == RunSpec => []RunInv
BY RunStarts, RunKept, PTL DEF RunSpec

(* Every variable keeps its type: RunCache's whole state. *)
THEOREM RunCacheTypes == RunSpec => []TypeOK
<1>1. RunInv => TypeOK
  BY DEF RunInv
<1> QED BY <1>1, RunStands, PTL

(* The route and its cache implement SimulateService: each POST is answered once, with its  *)
(* own process's numbers, whatever rows there are, whoever wrote them, and whether or not   *)
(* the database works.                                                                     *)
THEOREM CacheIsInvisible == RunSpec => AnswersAsIfUncached
<1>1. RunInit => Numbers!Init
  BY DEF RunInit, Numbers!Init
<1>2. RunInv /\ [RunNext]_runVars => ContractStep
  BY RunKept
<1> QED BY <1>1, <1>2, RunStands, PTL DEF RunSpec, AnswersAsIfUncached, Numbers!Spec, ContractStep, given
================================================================================
