-------------------------------- MODULE Assembly --------------------------------
(* apps/studio-server/src/design/assemble.ts: a ShelterDesign becomes the request that is *)
(* simulated.  The setters are those of the web form; what is the studio's own is the     *)
(* thickness that comes with the material, the round shapes with their many walls, the    *)
(* slab of a second storey and a place of the user's own.                                *)
(*                                                                                       *)
(* A ShelterDesign has its lengths in dm, ratios in thousandths and angles in degrees.    *)
(* The areas of a round building are in units of pi/72 mm^2, its volume in those of       *)
(* pi/72 dm^3: every one of them has the factor pi.                                      *)
EXTENDS RequestOps

Nothing == "nothing"                    \* an absent field
KeepPreset == Layer("presetDefault", 0) \* a null construction

--------------------------------------------------------------------------------
(* Records.  A storage element's material is looked up in the same record as a layer's.   *)
(* Mutant of UsedMaterials: the layers only. *)
UsedMaterialsOfLayers(b) == UsedMaterialIds(b)
UsedMaterials(b) == UsedMaterialIds(b) \cup {e.materialId : e \in b.storageElements}
Finalize(r, b) ==
  [r EXCEPT !.building = b, !.materials = UsedMaterials(b), !.glazings = UsedGlazingIds(b)]

(* One layer of the given thickness in every surface of the type; null keeps the preset's. *)
SetConstruction(r, type, layer) ==
  IF layer = KeepPreset THEN r
  ELSE Finalize(r, WithConstructionForType(r.building, type, << layer >>))

--------------------------------------------------------------------------------
(* Windows.  A wall belongs to the quadrant its azimuth is in, and its boundaries to S, N. *)
OrientationForAzimuth(azimuth) ==
  CASE -45 <= azimuth /\ azimuth <= 45 -> "S"
    [] 45 < azimuth /\ azimuth < 135 -> "W"
    [] azimuth <= -135 \/ 135 <= azimuth -> "N"
    [] OTHER -> "E"
WallsInQuadrant(b, o) ==
  {s \in b.surfaces : s.type = "wall" /\ OrientationForAzimuth(s.azimuth) = o}
(* Mutant of SetQuadrantWwr: the one wall that faces the side exactly. *)
SetFacingWallWwr(r, o, ratio) == SetWwr(r, o, ratio)
SetQuadrantWwr(r, o, ratio) == Glaze(r, WallsInQuadrant(r.building, o), ratio)

(* The setters every window goes through once the four ratios are set.                    *)
SetGlass(r, glazingId, shutters) == SetNightShutters(SetGlazingType(r, glazingId), shutters)

--------------------------------------------------------------------------------
(* Shape.  A box keeps the preset's surfaces and its storeys raise the walls.             *)
SetSizeStoreys(r, length, width, height, storeys) ==
  LET Before(o) == Ratio(r.building, WallsInQuadrant(r.building, o))
      Reglazed(q, o) == IF Before(o) > 0 THEN SetQuadrantWwr(q, o, Before(o)) ELSE q
  IN OnEachSide(Reglazed,
                [r EXCEPT !.building = ResizedBuilding(@, length, width, height * storeys)])

(* A round building is made of copies of the preset's south wall, roof and floor.          *)
ShapeTemplates(b) ==
  [wall |-> CHOOSE s \in b.surfaces : s.type = "wall" /\ s.azimuth = 0,
   roof |-> CHOOSE s \in b.surfaces : s.type = "roof",
   floor |-> CHOOSE s \in b.surfaces : s.type = "floor"]

Sectors == 0..11
SectorAzimuth(k) == 30 * k - 150
Ring(facet, kind) ==
  {[facet EXCEPT !.id = Append(kind, k), !.azimuth = SectorAzimuth(k)] : k \in Sectors}

(* pi D^2 / 4 is the floor, pi D h / 12 one of the twelve walls.                          *)
CylinderGeometry(t, diameter, height, storeys) ==
  LET h == height * storeys
      floorArea == 18 * Area(diameter, diameter)
  IN [floorArea |-> floorArea, volume |-> 18 * diameter * diameter * h,
      surfaces |-> Ring([t.wall EXCEPT !.area = 6 * Area(diameter, h)], <<"wallC">>)
                     \cup {[t.roof EXCEPT !.id = <<"roof">>, !.area = floorArea],
                            [t.floor EXCEPT !.id = <<"floor">>, !.area = floorArea]}]

(* Three bands of equal height have equal areas, pi D^2 / 72 a sector.  The middle of band *)
(* k is at (2k + 1) / 6 of the radius: it is steep enough for a wall up to a half.         *)
Bands == 0..2
BandTilt == << 80, 60, 34 >>            \* 90 - asin((2k + 1) / 6), whole degrees
IsWallBand(k) == BandTilt[k + 1] >= 60
Band(t, diameter, k) ==
  LET type == IF IsWallBand(k) THEN "wall" ELSE "roof"
  IN Ring([t[type] EXCEPT !.area = Area(diameter, diameter), !.tilt = BandTilt[k + 1]],
          <<type, k>>)
DomeGeometry(t, diameter) ==
  [floorArea |-> 18 * Area(diameter, diameter), volume |-> 6 * diameter * diameter * diameter,
   surfaces |-> (UNION {Band(t, diameter, k) : k \in Bands})
                  \cup {[t.floor EXCEPT !.id = <<"floor">>, !.area = 18 * Area(diameter, diameter)]}]

(* The windows hang on walls that are no more: they go. *)
SetShapeFacets(r, shape, diameter, height, storeys) ==
  LET t == ShapeTemplates(r.building)
      g == IF shape = "cylinder" THEN CylinderGeometry(t, diameter, height, storeys)
           ELSE DomeGeometry(t, diameter)
  IN Finalize(r, [r.building EXCEPT !.floorArea = g.floorArea, !.volume = g.volume,
                                    !.surfaces = g.surfaces, !.windows = {}])

(* The floor between two storeys is a store of heat of the material the preset's floor     *)
(* shows to the room, with both faces in the air of the one zone.                        *)
AddIntermediateSlab(r) ==
  LET b == r.building
      floor == CHOOSE s \in b.surfaces : s.type = "floor"
      slab == [id |-> "intermediateSlab", materialId |-> Last(floor.construction).materialId,
               footprint |-> b.floorArea]
  IN Finalize(r, [b EXCEPT !.storageElements = @ \cup {slab}])

--------------------------------------------------------------------------------
(* The preset, then the place and the day, then the design's own fields in the order of   *)
(* assemble().                                                                           *)
ResolvePreset(p) ==
  LET b == PresetById[p]
  IN [building |-> b, materials |-> UsedMaterialIds(b), glazings |-> UsedGlazingIds(b),
      weather |-> FullYear(PresetLocation(p)), site |-> PresetLocation(p),
      operation |-> [gains |-> p, heated |-> FALSE, unvented |-> FALSE, ach |-> PresetAch[p]],
      skyModel |-> PresetSkyModel]

(* A place of the user's own has its weather and its site from the resolver, whose year   *)
(* is handed in; a bundled one from the data package.                                    *)
AtPlaceOfPreset(r, location, day) ==    \* mutant: the preset's own place
  [r EXCEPT !.weather = SliceWeatherToDay(FullYear(r.site), day)]
AtPlace(r, location, day) ==
  [r EXCEPT !.weather = SliceWeatherToDay(FullYear(location.place), day), !.site = location.place]

Shape(design) == IF design.shape = Nothing THEN "box" ELSE design.shape
Storeys(design) == IF design.storeys = 0 THEN 1 ELSE design.storeys

Shaped(r, design) ==
  IF Shape(design) = "box"
  THEN SetSizeStoreys(r, design.length, design.width, design.height, Storeys(design))
  ELSE SetShapeFacets(r, Shape(design), design.length, design.height, Storeys(design))

Storeyed(r, storeys) == IF storeys = 2 THEN AddIntermediateSlab(r) ELSE r

Clad(r, design) ==
  SetConstruction(SetConstruction(SetConstruction(r, "wall", design.wall),
                                  "roof", design.roof), "floor", design.floor)

Glazed(r, design) ==
  LET Set(q, o) == SetQuadrantWwr(q, o, design.wwr[o]) IN OnEachSide(Set, r)

Assemble(design) ==
  LET placed == AtPlace(ResolvePreset(design.presetId), design.location, design.day)
      turned == [placed EXCEPT !.building.azimuth = design.azimuth]
      built == Clad(Storeyed(Shaped(turned, design), Storeys(design)), design)
      glazed == SetGlass(Glazed(built, design), design.glazingId, design.shutters)
  IN [SetOccupancyPreset(glazed, design.occupancy) EXCEPT !.skyModel = "isotropic"]

(* The engine's own demands on a request: validateRequest, and what the model builder     *)
(* looks up or subtracts.                                                                *)
Buildable(r) ==
  LET b == r.building
      HostsOf(w) == {s \in b.surfaces : s.id = w.host}
  IN /\ b.volume > 0 /\ b.floorArea > 0 /\ b.surfaces # {}
     /\ \A s \in b.surfaces :
          /\ s.area > 0 /\ s.construction # <<>> /\ s.tilt \in 0..180
          /\ \A l \in ToSet(s.construction) : l.materialId \in r.materials
     /\ \A w \in b.windows :
          w.glazingId \in r.glazings /\ \E s \in b.surfaces : HostsOf(w) = {s} /\ w.area < s.area
     /\ \A e \in b.storageElements : e.materialId \in r.materials
     /\ r.weather.samples >= 24

--------------------------------------------------------------------------------
(* apps/server/src/assemble.ts: the first server's DesignInput becomes a request.  Its    *)
(* setters are a port of the web form's (requestOps.ts) that looks every id up in the     *)
(* whole data package, and are named here by the step they are taken in.                 *)
NoMaterial == "none"

ClassicPreset(p) ==
  LET b == PresetById[p]
  IN [building |-> b, materials |-> UsedMaterialIds(b), glazings |-> UsedGlazingIds(b),
      weather |-> FullYear(PresetLocation(p)), site |-> PresetLocation(p),
      operation |-> [gains |-> p, heated |-> FALSE, unvented |-> FALSE, ach |-> PresetAch[p]],
      skyModel |-> PresetSkyModel]

(* The weather and the site are those of the place asked for, not of the preset's. *)
WithWeather(r, place, day) ==
  [r EXCEPT !.weather = SliceWeatherToDay(FullYear(place), day), !.site = place]

WithSize(r, input) == SetSize(r, input.length, input.width, input.height)

(* One layer, of the thickness its table or its category gives the material.              *)
WithMaterial(r, type, m) == IF m = NoMaterial THEN r ELSE SetMaterial(r, type, m, Materials)

WithWindowShares(r, input) ==
  LET Set(q, o) == SetWwr(q, o, input.wwr[o]) IN OnEachSide(Set, r)

WithGlass(r, input) == SetNightShutters(SetGlazingType(r, input.glazingId), input.shutters)

WithOccupancy(r, input) == SetOccupancyPreset(r, input.occupancy)

ClassicAssemble(input) ==
  LET sized == WithSize(WithWeather(ClassicPreset(input.presetId), input.place, input.day), input)
      clad == WithMaterial(WithMaterial(WithMaterial(sized, "wall", input.wall),
                                        "roof", input.roof), "floor", input.floor)
  IN [WithOccupancy(WithGlass(WithWindowShares(clad, input), input), input)
        EXCEPT !.skyModel = "isotropic"]
================================================================================
