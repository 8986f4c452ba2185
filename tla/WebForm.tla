--------------------------------- MODULE WebForm ---------------------------------
(* The web app's store, and the setup page over it: SimpleForm.tsx with the CSV upload and *)
(* the layer editor, and the expert panel beside it.  The store outlives the page; what   *)
(* the form captured when it was mounted does not.                                       *)
EXTENDS RequestOps
CONSTANTS Touched, \* the numeric fields somebody edits
          Raw,     \* what is typed into a field or a cell, an emptied one being 0
          Hours,   \* the hours of the ventilation schedule told apart
          InitialPreset, Types, \* "wall", "roof", "floor": the selects somebody uses
          PickedMaterials, Cards, Dates, Lengths, Heights, Shares, Thicknesses, Files,
          MaxEdits, MaxVisits \* bounds: changes of a control; walks to the results and back

VARIABLES request, result, \* the result keeps the request it was computed from
          status,          \* "idle" or "error"
          timer,           \* the debounce timer is set
          presetId,        \* the card that is highlighted
          selected,        \* the surface clicked in the house view, or NoSurface
          panel,           \* the expert panel: whether it is open, what is typed, what is wrong
          mounted,
          fullYear,  \* fullYearWeatherRef
          catalogue, \* materialsApi.ts: the response is cached, asked for, or neither
          view,      \* what the mounted form has of it: loading, error or ready
          reading,   \* uploads whose text is not read yet, with the form and request they saw
          edits, visits

--------------------------------------------------------------------------------
(* apps/web/lib/store.ts: one request, and the one place where a change of it becomes a   *)
(* simulation, 150 ms after the last.  The simulation runs on the page's own thread, so    *)
(* "running" is never seen between two events.  Expert values are in thousandths.         *)

storeVars == <<request, result, status, timer, presetId, selected>>

NoSurface == "none"

(* A wall whose windows leave nothing of it.  A share is clamped to 90 %, but a card brings  *)
(* a window of its own size to a wall that may have been made smaller.                     *)
Overglazed(b) == \E s \in b.surfaces : SumOfAreas(WindowsOn(b, {s})) >= s.area

(* What simulate() throws for of all a form can ask: validateRequest's checks of the box,  *)
(* of the air changes, of the weather's length and of the timestep, a wall that is all      *)
(* window, a layer no material is given for, and a series of more than a day that ends     *)
(* before the days asked for.  That the numbers themselves diverge (SOLVER_DIVERGED) is    *)
(* left out.                                                                             *)
Refused(r) ==
  LET hours == 24 * (r.expert.simulationDays \div 1000)
  IN \/ r.building.floorArea <= 0 \/ r.building.volume <= 0
     \/ \E s \in r.building.surfaces : s.area <= 0
     \/ \E h \in Hours : r.operation.ach[h] < 0
     \/ Overglazed(r.building)
     \/ UsedMaterialIds(r.building) \ r.materials # {}
     \/ r.weather.samples = 0
     \/ r.weather.samples > 24 /\ r.weather.samples < hours
     \/ 86400000 % r.expert.timestepSeconds # 0

(* hydrateStore: the server's preset, over its whole year, with the result it ran.         *)
Hydrate(seed, preset) ==
  /\ request = seed /\ result = seed
  /\ status = "idle" /\ timer = FALSE /\ presetId = preset /\ selected = NoSurface

(* setRequest: every change starts the 150 ms again. *)
SetRequest(next) == request' = next /\ timer' = TRUE /\ UNCHANGED <<result, status>>

(* Mutant of TimerFires: what was asked for before this change is kept. *)
TimerFiresKeepingError ==
  /\ timer /\ timer' = FALSE
  /\ IF Refused(request) THEN UNCHANGED <<result, status>>
     ELSE result' = request /\ status' = "idle"
  /\ UNCHANGED <<request, presetId, selected>>

(* dispatchSimulation: a simulation that throws leaves the result before it in place.      *)
TimerFires ==
  /\ timer /\ timer' = FALSE
  /\ IF Refused(request) THEN status' = "error" /\ UNCHANGED result
     ELSE result' = request /\ status' = "idle"
  /\ UNCHANGED <<request, presetId, selected>>

--------------------------------------------------------------------------------
(* apps/web/components/advanced/AdvancedPanel.tsx with the fields of fieldDefs.ts.  Its    *)
(* controls exist while it is open; a numeric one keeps what was typed beside the          *)
(* request, and passes on what is in range.  Values are in thousandths.                   *)
Field(min, max, integer, default) ==
  [min |-> min, max |-> max, integer |-> integer, default |-> default]
NumericFields ==
  [timestepSeconds |-> Field(1000, 3600000, TRUE, 300000),
   meshTargetDx |-> Field(1, 500, FALSE, 20),
   simulationDays |-> Field(1000, 365000, TRUE, 1000),
   spinUpToleranceK |-> Field(1, 5000, FALSE, 20),
   maxSpinUpDays |-> Field(1000, 365000, TRUE, 30000),
   integrationTheta |-> Field(0, 1000, FALSE, 1000),
   thermalBridgeFactor |-> Field(1000, 2000, FALSE, 1100),
   groundAlbedo |-> Field(0, 1000, FALSE, 300),
   groundTempMeanAnnual |-> Field(-30000, 30000, FALSE, 6000),
   groundTempAmplitude |-> Field(0, 30000, FALSE, 12000)]
Snow == 750
AchMin == 350
AchRange(unsafe) == [min |-> IF unsafe THEN 0 ELSE AchMin, max |-> 20000]

InRange(value, range) == range.min <= value /\ value <= range.max
Valid(key, value) ==
  /\ InRange(value, NumericFields[key])
  /\ NumericFields[key].integer => value % 1000 = 0

(* Closed: there are no controls, and no drafts. *)
Closed == [open |-> FALSE, drafts |-> <<>>, cells |-> <<>>, wrong |-> {},
           wrongCells |-> {}, confirming |-> FALSE]

SetNumber(key, value) == [request EXCEPT !.expert[key] = value]
Drafted(key, value, wrong) ==
  [panel EXCEPT !.drafts[key] = value, !.wrong = IF wrong THEN @ \cup {key} ELSE @ \ {key}]
Commit(next) == SetRequest(next) /\ UNCHANGED <<presetId, selected>>
Keep == UNCHANGED storeVars

(* The controls are mounted anew, each with the value the request has then. *)
Toggle ==
  /\ panel' = IF panel.open THEN Closed
              ELSE [open |-> TRUE, drafts |-> [k \in Touched |-> request.expert[k]],
                    cells |-> request.operation.ach, wrong |-> {}, wrongCells |-> {},
                    confirming |-> FALSE]
  /\ Keep

TypeNumber(key, value) ==
  /\ panel.open /\ panel' = Drafted(key, value, ~Valid(key, value))
  /\ IF Valid(key, value) THEN Commit(SetNumber(key, value)) ELSE Keep
ResetNumber(key) ==
  /\ panel.open /\ panel' = Drafted(key, NumericFields[key].default, FALSE)
  /\ Commit(SetNumber(key, NumericFields[key].default))
(* The snow button mounts the albedo's control again, with the value it has just set. *)
ApplySnow ==
  /\ panel.open /\ "groundAlbedo" \in Touched
  /\ panel' = Drafted("groundAlbedo", Snow, FALSE)
  /\ Commit(SetNumber("groundAlbedo", Snow))

(* The hours are passed on together: a cell in range takes what the others hold with it,   *)
(* whether or not those were in range.                                                   *)
TypeCell(h, value) ==
  LET right == InRange(value, AchRange(request.unsafe))
      cells == [panel.cells EXCEPT ![h] = value]
  IN /\ panel.open
     /\ panel' = [panel EXCEPT !.cells = cells,
                              !.wrongCells = IF right THEN @ \ {h} ELSE @ \cup {h}]
     /\ IF right THEN Commit([request EXCEPT !.operation.ach = cells]) ELSE Keep
ResetCells ==
  LET cells == [h \in Hours |-> AchMin]
  IN /\ panel.open
     /\ panel' = [panel EXCEPT !.cells = cells, !.wrongCells = {}]
     /\ Commit([request EXCEPT !.operation.ach = cells])

ChooseSky(model) ==
  /\ panel.open /\ Commit([request EXCEPT !.skyModel = model]) /\ UNCHANGED panel
KeepProfiles(on) ==
  /\ panel.open /\ Commit([request EXCEPT !.profiles = on]) /\ UNCHANGED panel

(* The ventilation floor is taken away by a second click only, and put back by the first. *)
TickUnsafe ==
  /\ panel.open /\ ~request.unsafe /\ panel' = [panel EXCEPT !.confirming = TRUE] /\ Keep
ConfirmUnsafe ==
  /\ panel.confirming /\ panel' = [panel EXCEPT !.confirming = FALSE]
  /\ Commit([request EXCEPT !.unsafe = TRUE])
CancelUnsafe ==
  /\ panel.confirming /\ panel' = [panel EXCEPT !.confirming = FALSE] /\ Keep
UntickUnsafe ==
  /\ panel.open /\ request.unsafe /\ panel' = [panel EXCEPT !.confirming = FALSE]
  /\ Commit([request EXCEPT !.unsafe = FALSE])

PanelStep ==
  \/ ApplySnow \/ ResetCells \/ TickUnsafe \/ ConfirmUnsafe \/ CancelUnsafe \/ UntickUnsafe
  \/ \E key \in Touched : ResetNumber(key) \/ \E value \in Raw : TypeNumber(key, value)
  \/ \E h \in Hours, value \in Raw : TypeCell(h, value)
  \/ \E model \in {"isotropic", "hdkr"} : ChooseSky(model)
  \/ \E on \in BOOLEAN : KeepProfiles(on)
--------------------------------------------------------------------------------
(* The setup page. *)
formVars == <<storeVars, panel, mounted, fullYear, catalogue, view, reading, edits, visits>>

Spread(r) == [r EXCEPT !.operation.ach = [h \in Hours |-> @]]

InitialRequest ==
  LET b == PresetById[InitialPreset]
  IN [building |-> b, materials |-> UsedMaterialIds(b), glazings |-> UsedGlazingIds(b),
      weather |-> FullYear(PresetLocation(InitialPreset)), site |-> PresetLocation(InitialPreset),
      operation |-> [gains |-> InitialPreset, heated |-> FALSE, unvented |-> FALSE,
                     ach |-> [h \in Hours |-> 10 * PresetAch[InitialPreset]]],
      expert |-> [k \in DOMAIN NumericFields |-> NumericFields[k].default],
      skyModel |-> PresetSkyModel, profiles |-> FALSE, unsafe |-> FALSE]

(* The server has run this request before it renders the page (layout.tsx 20-27).          *)
ASSUME InitialRequestRuns == ~Refused(InitialRequest)

FormInit ==
  /\ Hydrate(InitialRequest, InitialPreset)
  /\ panel = Closed /\ mounted = TRUE /\ fullYear = request.weather
  /\ catalogue = "asked" /\ view = "loading" /\ reading = {} /\ edits = 0 /\ visits = 0

--------------------------------------------------------------------------------
(* The catalogue: one request for every form that waits for it; none after an answer.      *)
Available == IF view = "ready" THEN Materials ELSE {}

CatalogueArrives ==
  /\ catalogue = "asked" /\ catalogue' = "cached"
  /\ view' = IF mounted THEN "ready" ELSE view
  /\ UNCHANGED <<storeVars, panel, mounted, fullYear, reading, edits, visits>>
CatalogueFails ==
  /\ catalogue = "asked" /\ catalogue' = "none"
  /\ view' = IF mounted THEN "error" ELSE view
  /\ UNCHANGED <<storeVars, panel, mounted, fullYear, reading, edits, visits>>

(* To the results page, where surfaces can be clicked, and back: the form is a new one.    *)
Leave ==
  /\ mounted /\ visits < MaxVisits /\ visits' = visits + 1
  /\ mounted' = FALSE /\ panel' = Closed
  /\ UNCHANGED <<storeVars, fullYear, catalogue, view, reading, edits>>
Return ==
  /\ ~mounted /\ mounted' = TRUE /\ fullYear' = request.weather
  /\ view' = IF catalogue = "cached" THEN "ready" ELSE "loading"
  /\ catalogue' = IF catalogue = "none" THEN "asked" ELSE catalogue
  /\ UNCHANGED <<storeVars, panel, reading, edits, visits>>
SelectSurface(id) ==
  /\ ~mounted /\ selected' = id
  /\ UNCHANGED <<request, result, status, timer, presetId, panel, mounted, fullYear, catalogue,
                 view, reading, edits, visits>>
CloseEditor ==
  /\ mounted /\ selected # NoSurface /\ selected' = NoSurface
  /\ UNCHANGED <<request, result, status, timer, presetId, panel, mounted, fullYear, catalogue,
                 view, reading, edits, visits>>

--------------------------------------------------------------------------------
(* A control is changed: update(), with a request made from the one that was rendered.    *)
Edit == mounted /\ edits < MaxEdits /\ edits' = edits + 1
Aside == UNCHANGED <<mounted, catalogue, view, visits>>
Update(next) ==
  /\ Edit /\ SetRequest(next) /\ Aside
  /\ UNCHANGED <<presetId, selected, panel, fullYear, reading>>

PickDate(day) ==
  Update([request EXCEPT !.weather =
            SliceWeather(fullYear, day, request.expert.simulationDays \div 1000)])
TypeLength(dm) ==
  LET s == CurrentSize(request.building) IN Update(SetSize(request, dm, s.width, s.height))
TypeHeight(dm) ==
  LET s == CurrentSize(request.building) IN Update(SetSize(request, s.length, s.width, dm))

PickCard(id) ==
  /\ Edit /\ SetRequest(Spread([ApplyPresetSummary(request, id, Available)
                                  EXCEPT !.operation.ach = 10 * @]))
  /\ presetId' = id /\ Aside
  /\ UNCHANGED <<selected, panel, fullYear, reading>>

(* The select lists the catalogue; until it is there, only the material there is. *)
PickMaterial(type, m) ==
  m \in Available /\ Update(SetMaterial(request, type, m, Available))
SlideShare(o, share) == Update(SetWwr(request, o, share))
PickGlazing(g) == Update(SetGlazingType(request, g))
SwitchShutters(on) == Update(SetNightShutters(request, on))
PickOccupancy(id) == Update(SetOccupancyPreset(request, id))
SlideThickness(thickness) ==
  selected # NoSurface /\ Update(SetLayerThickness(request, selected, 1, thickness, Available))

(* An upload is read aside, and then changes the request that was there when it was chosen, *)
(* and the year of the form it was chosen on, whichever form is mounted by then.            *)
ChooseFile(samples) ==
  /\ Edit
  /\ reading' = reading \cup {[samples |-> samples, seen |-> request, visit |-> visits]}
  /\ Aside /\ UNCHANGED <<storeVars, panel, fullYear>>
FileRead(f) ==
  LET series == [place |-> "csv", startDay |-> f.seen.weather.startDay, first |-> 0,
                 samples |-> f.samples]
  IN /\ reading' = reading \ {f}
     /\ SetRequest([f.seen EXCEPT !.weather = series])
     /\ fullYear' = IF mounted /\ f.visit = visits THEN series ELSE fullYear
     /\ UNCHANGED <<presetId, selected, panel, edits>> /\ Aside
FileRefused(f) ==
  /\ reading' = reading \ {f}
  /\ UNCHANGED <<storeVars, panel, fullYear, edits>> /\ Aside

FormControl ==
  \/ \E day \in Dates : PickDate(day)
  \/ \E dm \in Lengths : TypeLength(dm)
  \/ \E dm \in Heights : TypeHeight(dm)
  \/ \E id \in Cards : PickCard(id)
  \/ \E type \in Types, m \in PickedMaterials : PickMaterial(type, m)
  \/ \E o \in {"S", "E"}, share \in Shares : SlideShare(o, share)
  \/ PickGlazing("doubleAirFilled")
  \/ \E on \in BOOLEAN : SwitchShutters(on)
  \/ PickOccupancy("heatedOffice")
  \/ \E thickness \in Thicknesses : SlideThickness(thickness)
  \/ \E samples \in Files : ChooseFile(samples)

Expert ==
  /\ (mounted /\ Toggle /\ UNCHANGED edits) \/ (Edit /\ PanelStep)
  /\ Aside /\ UNCHANGED <<fullYear, reading>>
Dispatch == TimerFires /\ UNCHANGED <<panel, fullYear, reading, edits>> /\ Aside

FormNext ==
  \/ CatalogueArrives \/ CatalogueFails \/ Leave \/ Return \/ CloseEditor
  \/ \E id \in {"wallSouth", "roof"} : SelectSurface(id)
  \/ FormControl \/ Expert \/ Dispatch
  \/ \E f \in reading : FileRead(f) \/ FileRefused(f)

FormSpec == FormInit /\ [][FormNext]_formVars

--------------------------------------------------------------------------------
(* Once no timer runs, the numbers on the page are those of the request on the page, or    *)
(* the form says why there are none (store.ts 194-204): no order of controls, uploads and   *)
(* page changes leaves a result of an earlier request in silence.                         *)
ResultIsCurrent ==
  ~timer => IF Refused(request) THEN status = "error" ELSE status = "idle" /\ result = request

(* SimpleForm.tsx 153-157: the year is captured on mount, so that the date control "can     *)
(* always re-slice a fresh day out of it, even after a previous date change has already    *)
(* replaced request.weather with a one-day slice": the samples are those of the date shown. *)
DateIsSimulated ==
  request.weather.place # "csv" => request.weather.first = 24 * (request.weather.startDay - 1)
================================================================================
