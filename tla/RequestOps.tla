------------------------------ MODULE RequestOps -------------------------------
(* The pure setters every form turns a changed control into a new request with:          *)
(* apps/web/components/inputs/requestOps.ts over the tables of catalog.ts.  The classic   *)
(* server has its own copy of them (apps/server/src/assemble.ts), the studio server a     *)
(* generalised one.  A request keeps the material and glazing ids its records hold.       *)
(* Ratios are in thousandths; a ratio that is computed loses what is below.              *)
(* Surfaces, windows and storage elements are sets: each has an id, and where the code     *)
(* takes the first of a kind there is one, or all are alike in what is read.               *)
EXTENDS Integers, Sequences, TLC, SequencesExt

--------------------------------------------------------------------------------
(* The data package: materials, glazings, places and the named presets every other part  *)
(* of the system starts from.  Lengths are in 0.1 mm where a layer's thickness is meant  *)
(* and in dm otherwise, areas in mm^2; physical constants and texts are left out.        *)
(* A material's category is what a default thickness is chosen by. *)
Structural ==
  {"mudBrickAdobe", "rammedEarth", "stoneMasonryGranite", "firedClayBrick", "denseConcrete", "rcc",
   "aacBlock", "timberPoplarWillow", "compressedEarthBlock", "steelCGI"}
Insulation ==
  {"eps", "xps", "puf", "glassWool", "rockWool", "strawBale", "sheepWool", "airGap25mm"}
Finish ==
  {"mudPlaster", "cementPlaster", "cgiBright", "whitewashLime", "whitePaint", "blackPaint"}
Storage == {"water", "gravelSoilFill", "pcmParaffinRT25"}
Materials == Structural \cup Insulation \cup Finish \cup Storage
Category ==
  [m \in Materials |-> CASE m \in Structural -> "structural" [] m \in Insulation -> "insulation"
                         [] m \in Finish -> "finish" [] m \in Storage -> "storage"]

Glazings == {"singleGlazing", "doubleAirFilled", "doubleArgonLowE", "tripleGlazing",
             "polycarbonateTwinWall", "singleGlazingNightShutter"}

TmyLocations == {"leh", "kargil", "drass", "nubra", "jaisalmer"}

--------------------------------------------------------------------------------
(* One box for all presets: 5 m x 5 m, 2.6 m high.                                        *)
Side == 50
Height == 26
Area(a, b) == a * b * 10000

Layer(material, thickness) == [materialId |-> material, thickness |-> thickness]
Surface(id, type, azimuth, tilt, area, construction, finish) ==
  [id |-> id, type |-> type, azimuth |-> azimuth, tilt |-> tilt, area |-> area,
   construction |-> construction, finish |-> finish]
Wall(id, azimuth, construction, finish) ==
  Surface(id, "wall", azimuth, 90, Area(Side, Height), construction, finish)

(* A window's shutter stands for its night schedule and the resistance of the shutter;    *)
(* an overhang belongs to the preset's own windows only.                                 *)
Window(id, host, area, glazing, shutter) ==
  [id |-> id, host |-> host, area |-> area, glazingId |-> glazing, shutter |-> shutter]

(* A house: the south wall may differ from the others, the floor is on the ground.       *)
House(south, others, roof, floor, southFinish, finish, windows) ==
  [floorArea |-> Area(Side, Side), volume |-> Side * Side * Height, azimuth |-> 0,
   surfaces |-> { Wall("wallSouth", 0, south, southFinish), Wall("wallEast", -90, others, finish),
                  Wall("wallWest", 90, others, finish), Wall("wallNorth", 180, others, finish),
                  Surface("roof", "roof", 0, 0, Area(Side, Side), roof, finish),
                  Surface("floor", "floor", 0, 180, Area(Side, Side), floor, "ground") },
   windows |-> windows, storageElements |-> {}]

RammedEarth400 == << Layer("rammedEarth", 4000) >>
MudPoplarRoof == << Layer("mudPlaster", 800), Layer("timberPoplarWillow", 500) >>
EarthFloor == << Layer("gravelSoilFill", 1000), Layer("rammedEarth", 500) >>
BareSteelCGI == << Layer("steelCGI", 6) >>
Rcc(thickness) == << Layer("rcc", thickness) >>
TrombeSouthWall == << Layer("airGap25mm", 250), Layer("denseConcrete", 3000) >>
OptimisedWall == << Layer("eps", 1000), Layer("rammedEarth", 3500) >>
OptimisedRoof == << Layer("xps", 750), Layer("rcc", 1200) >>
OptimisedFloor == << Layer("xps", 500), Layer("rcc", 1000) >>

Small(id, host, area) == Window(<<id>>, host, area, "singleGlazing", FALSE)

PresetTraditional ==
  House(RammedEarth400, RammedEarth400, MudPoplarRoof, EarthFloor, "darkMudEarth", "darkMudEarth",
        { Small("windowSouth", "wallSouth", 800000) })
PresetBarrack ==
  House(BareSteelCGI, BareSteelCGI, BareSteelCGI, Rcc(1500), "galvanised", "galvanised",
        { Small("windowSouth", "wallSouth", 4000000), Small("windowEast", "wallEast", 1500000),
          Small("windowWest", "wallWest", 1500000) })
PresetModernRcc ==
  House(Rcc(1500), Rcc(1500), Rcc(1500), Rcc(1000), "greyConcrete", "greyConcrete",
        { Window(<<"windowSouth">>, "wallSouth", 2000000, "doubleAirFilled", FALSE),
          Window(<<"windowEast">>, "wallEast", 1000000, "doubleAirFilled", FALSE),
          Window(<<"windowWest">>, "wallWest", 1000000, "doubleAirFilled", FALSE) })
PresetTrombe ==
  House(TrombeSouthWall, RammedEarth400, MudPoplarRoof, EarthFloor, "blackPaint", "darkMudEarth",
        { Small("windowEast", "wallEast", 500000) })
PresetOptimised ==
  House(OptimisedWall, OptimisedWall, OptimisedRoof, OptimisedFloor, "whitewash", "whitewash",
        { Window(<<"windowSouth">>, "wallSouth", 3000000, "doubleArgonLowE", TRUE) })
PresetJaisalmer ==
  House(<< Layer("stoneMasonryGranite", 4000) >>, << Layer("stoneMasonryGranite", 4000) >>,
        Rcc(1500), EarthFloor, "whitewash", "whitewash",
        { Small("windowSouth", "wallSouth", 600000), Small("windowNorth", "wallNorth", 400000) })

PresetById ==
  [traditionalLadakhiByre |-> PresetTraditional, armyBroBarrack |-> PresetBarrack,
   modernRccNoInsulation |-> PresetModernRcc, geresTrombeRetrofit |-> PresetTrombe,
   optimisedPassivePlaceholder |-> PresetOptimised, jaisalmerHotDryContrast |-> PresetJaisalmer]
Presets == DOMAIN PresetById
PresetLocation(p) == IF p = "jaisalmerHotDryContrast" THEN "jaisalmer" ELSE "leh"

(* The options of every preset differ from the engine's defaults in the sky model.          *)
PresetSkyModel == "isotropic"

(* Air changes per hour, in hundredths. *)
PresetAch ==
  [traditionalLadakhiByre |-> 200, armyBroBarrack |-> 80, modernRccNoInsulation |-> 50,
   geresTrombeRetrofit |-> 100, optimisedPassivePlaceholder |-> 35, jaisalmerHotDryContrast |-> 100]

--------------------------------------------------------------------------------
Orientations == {"S", "E", "W", "N"}
Azimuth == [S |-> 0, E |-> -90, W |-> 90, N |-> 180]
(* The loop over ORIENTATIONS. *)
OnEachSide(Set(_, _), r) == Set(Set(Set(Set(r, "S"), "E"), "W"), "N")

UsedMaterialIds(b) ==
  UNION {{layer.materialId : layer \in ToSet(s.construction)} : s \in b.surfaces}
UsedGlazingIds(b) == {w.glazingId : w \in b.windows}

(* The one way out of every change of material: both records are made anew, and a         *)
(* material the fetched catalogue does not have is left out.                             *)
FinalizeWithCatalogue(r, b, catalogue) ==
  [r EXCEPT !.building = b, !.materials = UsedMaterialIds(b) \cap catalogue,
            !.glazings = UsedGlazingIds(b)]
WithWindows(r, ws) ==
  LET b == [r.building EXCEPT !.windows = ws]
  IN [r EXCEPT !.building = b, !.glazings = UsedGlazingIds(b)]

--------------------------------------------------------------------------------
(* Materials.  The thickness a material starts with is the table's or its category's.    *)
ThicknessOverride ==
  [stoneMasonryGranite |-> 4000, rammedEarth |-> 4000, firedClayBrick |-> 2300,
   denseConcrete |-> 2000, rcc |-> 1500, aacBlock |-> 2000, timberPoplarWillow |-> 500,
   compressedEarthBlock |-> 3000, mudPlaster |-> 800, cementPlaster |-> 200, eps |-> 1000,
   xps |-> 1000, puf |-> 500, glassWool |-> 1000, rockWool |-> 1000, strawBale |-> 3500,
   sheepWool |-> 1000, steelCGI |-> 6, waterDrum |-> 2000, gravelSoilFill |-> 1000,
   pcmParaffinRT25 |-> 300]
CategoryThickness == [structural |-> 3000, insulation |-> 1000, finish |-> 200, storage |-> 2000]
DefaultThickness(m, category) ==
  IF m \in DOMAIN ThicknessOverride THEN ThicknessOverride[m] ELSE CategoryThickness[category]

SingleLayer(m, catalogue) ==
  << Layer(m, DefaultThickness(m, IF m \in catalogue THEN Category[m] ELSE "structural")) >>

WithConstructionForType(b, type, construction) ==
  [b EXCEPT !.surfaces =
     {IF s.type = type THEN [s EXCEPT !.construction = construction] ELSE s : s \in @}]

SetMaterial(r, type, m, catalogue) ==
  FinalizeWithCatalogue(r, WithConstructionForType(r.building, type, SingleLayer(m, catalogue)),
                        catalogue)

SetLayerThickness(r, surfaceId, layer, thickness, catalogue) ==
  FinalizeWithCatalogue(r,
    [r.building EXCEPT !.surfaces =
       {IF s.id = surfaceId /\ layer \in DOMAIN s.construction
        THEN [s EXCEPT !.construction[layer].thickness = thickness] ELSE s : s \in @}],
    catalogue)

--------------------------------------------------------------------------------
(* Glazing, shutters and the share of each wall that is glazed.                          *)
SetGlazingType(r, g) ==
  WithWindows(r, {[w EXCEPT !.glazingId = g] : w \in r.building.windows})
SetNightShutters(r, on) ==
  WithWindows(r, {[w EXCEPT !.shutter = on] : w \in r.building.windows})

(* The glazing of the first window, and all have the same. *)
CurrentGlazingId(b) ==
  IF b.windows = {} THEN "singleGlazing" ELSE (CHOOSE w \in b.windows : TRUE).glazingId
NightShuttersEnabled(b) == b.windows # {} /\ \A w \in b.windows : w.shutter

(* The wall of a box that faces a side, as a set; empty if there is none. *)
WallForOrientation(b, o) == {s \in b.surfaces : s.type = "wall" /\ s.azimuth = Azimuth[o]}

Hosts(walls) == {s.id : s \in walls}
SumOfAreas(set) == MapThenSumSet(LAMBDA x : x.area, set)
WindowsOn(b, walls) == {w \in b.windows : w.host \in Hosts(walls)}
Ratio(b, walls) ==
  IF SumOfAreas(walls) = 0 THEN 0
  ELSE SumOfAreas(WindowsOn(b, walls)) \div (SumOfAreas(walls) \div 1000)

Clamped(ratio) == IF ratio < 0 THEN 0 ELSE IF ratio > 900 THEN 900 ELSE ratio

(* setWwr for the walls it is about: the windows of the others stay, and there is one per   *)
(* wall with the glazing and the shutters selected before.                               *)
Glaze(r, walls, ratio) ==
  LET b == r.building
      added == {Window(<<s.id, "Window">>, s.id, Clamped(ratio) * (s.area \div 1000),
                       CurrentGlazingId(b), NightShuttersEnabled(b)) : s \in walls}
  IN IF walls = {} THEN r
     ELSE WithWindows(r, (b.windows \ WindowsOn(b, walls)) \cup {w \in added : w.area > 0})

CurrentWwr(b, o) == Ratio(b, WallForOrientation(b, o))
SetWwr(r, o, ratio) == Glaze(r, WallForOrientation(r.building, o), ratio)

--------------------------------------------------------------------------------
(* Size.  South and north walls run the length, east and west walls the width.            *)
ResizedSurface(s, length, width, height) ==
  CASE s.type = "wall" /\ s.azimuth \in {0, 180} -> [s EXCEPT !.area = Area(length, height)]
    [] s.type = "wall" /\ s.azimuth \in {-90, 90} -> [s EXCEPT !.area = Area(width, height)]
    [] s.type \in {"roof", "floor"} -> [s EXCEPT !.area = Area(length, width)]
    [] OTHER -> s
ResizedBuilding(b, length, width, height) ==
  [b EXCEPT !.floorArea = Area(length, width), !.volume = length * width * height,
            !.surfaces = {ResizedSurface(s, length, width, height) : s \in @}]

(* Every orientation that had a window has the same share of its wall glazed again.       *)
SetSize(r, length, width, height) ==
  LET Before(o) == CurrentWwr(r.building, o)
      Reglazed(q, o) == IF Before(o) > 0 THEN SetWwr(q, o, Before(o)) ELSE q
  IN OnEachSide(Reglazed, [r EXCEPT !.building = ResizedBuilding(@, length, width, height)])

(* What the size fields show, in dm, worked out from the areas of the south and east      *)
(* walls and of the floor; a building without a south wall to speak of is Height high.     *)
SquareRoot(n) == CHOOSE k \in 0..n : k * k <= n /\ n < (k + 1) * (k + 1)
LengthFromFloorArea(south, east, floor) ==
  IF south > 0 /\ east > 0 THEN south \div SquareRoot((south * east) \div floor) ELSE SquareRoot(floor)
CurrentSize(b) ==
  LET AreaOf(o) == (CHOOSE s \in WallForOrientation(b, o) : TRUE).area \div 10000
      south == AreaOf("S")
      east == AreaOf("E")
      length == LengthFromFloorArea(south, east, b.floorArea \div 10000)
      height == IF south > 0 THEN south \div length ELSE Height
  IN [length |-> length, width |-> east \div height, height |-> height]

--------------------------------------------------------------------------------
(* Occupancy, shelter-type cards and the weather of a day.                               *)
Occupancy ==
  [familyLivestock |-> [heated |-> FALSE, unvented |-> TRUE],
   barrackPersonnel |-> [heated |-> FALSE, unvented |-> FALSE],
   smallHousehold |-> [heated |-> FALSE, unvented |-> FALSE],
   heatedOffice |-> [heated |-> TRUE, unvented |-> FALSE]]
SetOccupancyPreset(r, id) ==
  [r EXCEPT !.operation = [@ EXCEPT !.gains = id, !.heated = Occupancy[id].heated,
                                    !.unvented = Occupancy[id].unvented]]

Card(wall, roof, floor, finish, area, glazing, shutter, ach, occupancy) ==
  [wall |-> wall, roof |-> roof, floor |-> floor, finish |-> finish,
   area |-> area, glazing |-> glazing, shutter |-> shutter, ach |-> ach, occupancy |-> occupancy]
PresetSummaries ==
  [traditionalLadakhiByre |->
     Card(RammedEarth400, MudPoplarRoof, EarthFloor, "darkMudEarth", 800000, "singleGlazing",
          FALSE, 200, "familyLivestock"),
   armyBroBarrack |->
     Card(BareSteelCGI, BareSteelCGI, Rcc(1500), "galvanised", 4000000, "singleGlazing",
          FALSE, 80, "barrackPersonnel"),
   modernRccNoInsulation |->
     Card(Rcc(1500), Rcc(1500), Rcc(1000), "greyConcrete", 2000000, "doubleAirFilled",
          FALSE, 50, "smallHousehold"),
   geresTrombeRetrofit |->
     Card(<< Layer("denseConcrete", 3000) >>, MudPoplarRoof, EarthFloor, "blackPaint", 500000,
          "singleGlazing", FALSE, 100, "smallHousehold"),
   optimisedPassivePlaceholder |->
     Card(OptimisedWall, OptimisedRoof, OptimisedFloor, "whitewash", 3000000, "doubleArgonLowE",
          TRUE, 35, "smallHousehold"),
   jaisalmerHotDryContrast |->
     Card(<< Layer("stoneMasonryGranite", 4000) >>, Rcc(1500), EarthFloor, "whitewash", 600000,
          "singleGlazing", FALSE, 100, "smallHousehold")]

(* The card changes the envelope and the operation and keeps the footprint; its one       *)
(* window, of the card's own area, takes the place of all there were.                    *)
ApplyPresetSummary(r, id, catalogue) ==
  LET card == PresetSummaries[id]
      Dressed(s) == CASE s.type = "wall" -> [s EXCEPT !.construction = card.wall, !.finish = card.finish]
                      [] s.type = "roof" -> [s EXCEPT !.construction = card.roof, !.finish = card.finish]
                      [] s.type = "floor" -> [s EXCEPT !.construction = card.floor]
      south == WallForOrientation(r.building, "S")
      b == [r.building EXCEPT
              !.surfaces = {Dressed(s) : s \in @},
              !.windows = IF south = {} THEN @
                          ELSE {Window(<<s.id, "Window">>, s.id, card.area, card.glazing,
                                       card.shutter) : s \in south}]
      operated == SetOccupancyPreset([r EXCEPT !.operation.ach = card.ach], card.occupancy)
  IN FinalizeWithCatalogue(operated, b, catalogue)

(* A series holds `samples' hours of a place's year from hour `first' on, and says which  *)
(* day it starts at; the hour after the day is kept for the interpolation.               *)
FullYear(place) == [place |-> place, startDay |-> 1, first |-> 0, samples |-> 8760]
SliceWeather(full, day, days) ==
  LET at == (day - full.startDay) * 24
      length == days * 24
      last == IF full.samples < length THEN 0 ELSE full.samples - length
      start == IF at < 0 THEN 0 ELSE IF at > last THEN last ELSE at
      past == start + length + 1
      end == IF past > full.samples THEN full.samples ELSE past
  IN [place |-> full.place, startDay |-> day, first |-> full.first + start, samples |-> end - start]
SliceWeatherToDay(full, day) == SliceWeather(full, day, 1)
================================================================================
