-------------------------------- MODULE MCCaches --------------------------------
(* What is kept and answered from instead of its source: the runs the simulate route       *)
(* stores, the weather of two servers, the shared designs and the offline page, and beside *)
(* them the readers of a weather file.  They share no state; one is looked at while the    *)
(* others stand still.                                                                   *)
EXTENDS RunCache, StudioWeather, WebWeather, ShareLinks, OfflineShell, TLC
CONSTANTS Files, Targets, StartDay, same1, same2, bad, junk

VARIABLES service, file, target

fileVars == <<file, target>>
vars == <<service, runVars, studioVars, webVars, fileVars, linkVars, shellVars>>

Init ==
  /\ service \in {"runs", "studio", "web", "upload", "links", "shell"}
  /\ RunInit /\ StudioInit /\ WebInit /\ LinkInit /\ ShellInit
  /\ service # "runs" => engine = CHOOSE v \in Version : TRUE
  /\ service # "studio" => connected
  /\ IF service = "upload" THEN file \in Files /\ target \in Targets ELSE file = << >> /\ target = 0

RunStep ==
  /\ service = "runs" /\ RunNext
  /\ UNCHANGED <<service, studioVars, webVars, fileVars, linkVars, shellVars>>
StudioStep ==
  /\ service = "studio" /\ StudioNext
  /\ UNCHANGED <<service, runVars, webVars, fileVars, linkVars, shellVars>>
WebStep ==
  /\ service = "web" /\ WebNext
  /\ UNCHANGED <<service, runVars, studioVars, fileVars, linkVars, shellVars>>
LinkStep ==
  /\ service = "links" /\ LinkNext
  /\ UNCHANGED <<service, runVars, studioVars, webVars, fileVars, shellVars>>
ShellStep ==
  /\ service = "shell" /\ ShellNext
  /\ UNCHANGED <<service, runVars, studioVars, webVars, fileVars, linkVars>>
AtRest == service \in {"upload", "links", "shell"} /\ UNCHANGED vars
Next == RunStep \/ StudioStep \/ WebStep \/ LinkStep \/ ShellStep \/ AtRest

(* RunCache.tla's fairness.  The others need none: nothing is said of what they must do.    *)
MCFairness ==
  \A a \in RunPosts : WF_vars(RunStep /\ (Hit(a) \/ Miss(a, FALSE) \/ StoreAndRespond(a)))
Spec == Init /\ [][Next]_vars /\ MCFairness

(* StudioWeather.tla and WebWeather.tla: every answer, from a source or from a cache that
   other calls write meanwhile, is what its source says of the asked place, and on the web
   no older than such days may be (resolve.ts 156-199, route.ts 286-349). *)
AnswersFit == StudioAnswersFit /\ WebAnswersFit

(* WeatherPipeline.tla: the two readers of a file agree, and no step loses light (csv.ts of the
   web app 83-215, pipeline.ts 186-216). *)
UploadIsKept ==
  service = "upload" => ReadersAgree(file, StartDay) /\ FileIsKept(file, StartDay, target)

--------------------------------------------------------------------------------
(* Hours of a source's answer, warmer from place to place and source to source.            *)
Fill == -59940
Payload(source, warmth, day) ==
  [of |-> <<source, warmth, day>>, fields |-> [T_amb |-> [i \in 1..4 |-> Degrees(5 * i - 30 + warmth)],
               GHI |-> <<0, 120, 600, 0>>, DNI |-> <<0, 240, 900, 0>>, DHI |-> <<0, 60, 90, -6>>,
               LW_down |-> <<200, 200, 206, 206>>, v_wind |-> <<36, 72, 36, 0>>,
               RH |-> <<30, 30, 30, 30>>],
   fill |-> Fill, windUnit |-> "km/h", elevation |-> 3000, startDay |-> day,
   offset |-> IF warmth < 10 THEN 19800 ELSE 0]
Answers(source, warmth, day) ==
  LET whole == Payload(source, warmth, day)
  IN {whole,
      [whole EXCEPT !.fields.T_amb = <<@[1], Fill, Fill, @[4]>>],
      [whole EXCEPT !.fields.GHI[4] = Fill],
      [whole EXCEPT !.fields.T_amb[1] = Degrees(60)],
      [whole EXCEPT !.fields.RH = << >>],
      [whole EXCEPT !.fields = [f \in DOMAIN @ |-> << >>]]}
Leh == [lat |-> 3415200, lon |-> 7757700, elevation |-> 3500, warmth |-> 1]
AboveLeh == [Leh EXCEPT !.lat = 3415400, !.elevation = 4500]
Drass == [Leh EXCEPT !.lat = 3443000, !.warmth = 10]
MCAsked == {Leh, AboveLeh, Drass}

(* The web's bodies: a place of the same cell but another height, another source, the next  *)
(* cell, the day after, and days that cannot be.                                         *)
Asks == [source |-> "open-meteo", lat |-> 3415200, lon |-> 7757700, startDate |-> 0,
         endDate |-> 1, siteElevation |-> 3500]
MCBodies == {Asks, [Asks EXCEPT !.lat = 3415201, !.siteElevation = 4500],
             [Asks EXCEPT !.source = "nasa-power"], [Asks EXCEPT !.lat = 3415209],
             [Asks EXCEPT !.startDate = 1, !.endDate = 2], [Asks EXCEPT !.endDate = -1]}

MCPayloads ==
  [source \in {"open-meteo", "nasa-power"} |->
     [place \in MCAsked |-> Answers(source, place.warmth, 1)]]
MCWebPayloads ==
  [body \in MCBodies |->
     IF body.lat = 3415209 THEN {Payload(body.source, 2, body.startDate)}
     ELSE IF body.startDate = 1 THEN {Payload(body.source, 1, body.startDate)}
     ELSE Answers(body.source, 1, body.startDate)]

MCFiles ==
  LET Cells == [T_amb |-> {NaN, Degrees(-70), Degrees(-6), Degrees(18), Degrees(58)},
                GHI |-> {NaN, -12, 0, 600}, v_wind |-> {NaN, -6, 30},
                DNI |-> {NaN, -6, 600}, DHI |-> {NaN, 60}, LW_down |-> {240}, RH |-> {30}]
      Rows(columns) == {r \in [columns -> {NaN, -12, -6, 0, 30, 60, 240, 600} \cup Cells.T_amb] :
                          \A c \in columns : r[c] \in Cells[c]}
      Day == [T_amb |-> Degrees(6), GHI |-> 60, v_wind |-> 30]
      Short == {<< >>} \cup {<<r>> : r \in Rows(RequiredColumns)}
               \cup {<<r, q>> : r, q \in Rows(RequiredColumns)}
      Long == {<<Day, r, q, Day>> : r, q \in Rows(RequiredColumns)}
      WithMore(more) == {[columns |-> RequiredColumns \cup more, rows |-> <<Day @@ r, Day @@ q>>] :
                           r, q \in Rows(more)}
  IN {[columns |-> RequiredColumns, rows |-> s] : s \in Short \cup Long}
     \cup UNION {WithMore(more) : more \in {{"DNI"}, {"DNI", "DHI"}, {"LW_down", "RH"}}}
     \cup {[columns |-> {"T_amb", "GHI"}, rows |-> << >>]}
MCTargets == {1800, 3600, 7200}
MCCacheVersion == <<1, 1, 2>>

(* The simulate route's: two POSTs that ask the same, one whose request simulate() rejects  *)
(* and one that is no request at all; two engine versions.                               *)
MCRunPosts == {same1, same2, bad, junk}
MCHashOf == [a \in MCRunPosts |-> IF a \in {same1, same2} THEN "h1" ELSE "h2"]
================================================================================
