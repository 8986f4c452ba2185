------------------------------- MODULE DesignPanel -------------------------------
(* The studio's design store and the controls that write it: apps/studio/src/design/      *)
(* store.ts, controls/*.tsx and components/ui/NumberInput.tsx.  Every state's design can   *)
(* be sent to the server, which accepts or refuses it by its schema, and is drawn by the   *)
(* viewer.  A value typed into a number field is a draft until it is committed.           *)
EXTENDS Assembly

CONSTANTS
  Loaded,         \* designs the page may open with, the server's default one among them
  Sizes,          \* lengths, widths and heights the sliders are moved to, in dm
  Thicknesses,    \* and those of a layer, in 0.1 mm
  Picked,         \* materials picked
  Shares,         \* shares of a wall glazed, in thousandths
  Days,           \* days picked; 0 is the cleared date field
  Places,         \* locations picked
  Texts,          \* numbers typed into a field
  MaxPanelEdits   \* bound: changes of the design since it was opened

VARIABLES
  design,         \* the store's design
  dirty,          \* the store's dirty flag
  focus,          \* the number field the user is in, or Nothing
  draft,          \* its text, NotANumber for what is not one
  panelEdits      \* changes made so far

panelVars == <<design, dirty, focus, draft, panelEdits>>

--------------------------------------------------------------------------------
(* apps/studio/src/viewer/geometry.ts: what the viewer draws of a design.  It runs in the *)
(* browser with its own copies of the server's constants and rules, and reads the         *)
(* presets' thicknesses from the options the server sent.  Lengths on a facet are in      *)
(* 0.1 mm; of an opening only whether there is one is kept.                              *)

(* options.ts: the stack of the first surface of each type, as a null construction is     *)
(* drawn; the first wall is the south one.                                               *)
StackThickness(construction) == FoldSeq(LAMBDA l, sum : l.thickness + sum, 0, construction)
PresetThickness(p, type) ==
  StackThickness((CHOOSE s \in PresetById[p].surfaces : s.type = type /\ s.azimuth = 0).construction)
ResolveThickness(override, presetThickness) ==
  IF override = KeepPreset THEN presetThickness ELSE override.thickness

(* An opening is drawn when the share is positive and the margins leave room for it.      *)
SideMargin == 1500
Sill == 9000
LintelMargin == 3000
FixedWindowMargins(height) == [sill |-> Sill, lintel |-> LintelMargin]
SmallerOf(a, b) == IF a < b THEN a ELSE b
ScaledWindowMargins(height) ==
  [sill |-> SmallerOf(Sill, (height * 45) \div 100),
   lintel |-> SmallerOf(LintelMargin, (height * 15) \div 100)]
WindowDrawn(facadeWidth, height, ratio, margins) ==
  /\ ratio > 0
  /\ facadeWidth > 2 * SideMargin
  /\ height > margins.sill + margins.lintel

(* The viewer's own table of quadrants, its ring of sectors and its dome.                 *)
DrawnOrientation(azimuth) ==
  CASE azimuth >= -45 /\ azimuth <= 45 -> "S"
    [] azimuth > 45 /\ azimuth < 135 -> "W"
    [] azimuth <= -135 \/ azimuth >= 135 -> "N"
    [] OTHER -> "E"
RingAzimuths == {k * (360 \div 12) - 150 : k \in 0..11}

(* A dome's facets are told apart by their band; a wall is of band 0. *)
Facet(band, kind, azimuth, orientation, window) ==
  [band |-> band, kind |-> kind, azimuth |-> azimuth, orientation |-> orientation, window |-> window]

BoxWalls(d) ==
  LET Wide(o) == IF o \in {"S", "N"} THEN d.length * 1000 ELSE d.width * 1000
  IN {Facet(0, "wall", Azimuth[o], o,
            WindowDrawn(Wide(o), d.height * 1000, d.wwr[o],
                        FixedWindowMargins(d.height * 1000))) : o \in Orientations}

(* Twelve flat sides, 2 r tan 15 wide. *)
CylinderWalls(d) ==
  {Facet(0, "wall", azimuth, DrawnOrientation(azimuth),
         WindowDrawn(d.length * 268, d.height * 1000, d.wwr[DrawnOrientation(azimuth)],
                     FixedWindowMargins(d.height * 1000))) : azimuth \in RingAzimuths}

(* A band's sides are as high as its slant and as wide as its upper chord, both shares of  *)
(* the diameter in thousandths.                                                          *)
SlantShare == << 169, 193, 409 >>
ChordShare == << 244, 193, 0 >>
DomeFacets(d) ==
  UNION {{Facet(k, IF IsWallBand(k) THEN "wall" ELSE "roof", azimuth, DrawnOrientation(azimuth),
                LET slant == d.length * SlantShare[k + 1]
                IN IsWallBand(k) /\ WindowDrawn(d.length * ChordShare[k + 1], slant,
                                                d.wwr[DrawnOrientation(azimuth)],
                                                ScaledWindowMargins(slant))) :
            azimuth \in RingAzimuths} : k \in Bands}

SceneHeight(d) ==
  IF Shape(d) = "dome" THEN d.length ELSE 2 * d.height * Storeys(d)

(* The scene of a design; its height in half dm, for the radius of a dome. *)
Scene(d) ==
  [facets |-> CASE Shape(d) = "dome" -> DomeFacets(d)
                [] Shape(d) = "cylinder" -> CylinderWalls(d)
                [] OTHER -> BoxWalls(d),
   height |-> SceneHeight(d),
   rotation |-> -d.azimuth,
   wall |-> ResolveThickness(d.wall, PresetThickness(d.presetId, "wall")),
   roof |-> ResolveThickness(d.roof, PresetThickness(d.presetId, "roof")),
   floor |-> ResolveThickness(d.floor, PresetThickness(d.presetId, "floor"))]

--------------------------------------------------------------------------------
NotANumber == -1

Location(kind, place) == [kind |-> kind, place |-> place]

(* loadDesign: a design stored before there were shapes gets the defaults. *)
LoadDesign(d) == [d EXCEPT !.shape = Shape(d), !.storeys = Storeys(d)]

PanelInit ==
  /\ design \in {LoadDesign(d) : d \in Loaded}
  /\ dirty = FALSE /\ focus = Nothing /\ draft = NotANumber /\ panelEdits = 0

(* edit(): every setter of the store. *)
EditTo(d) ==
  /\ panelEdits < MaxPanelEdits
  /\ design' = d /\ dirty' = TRUE /\ panelEdits' = panelEdits + 1

(* A control other than the field in focus takes the focus first. *)
Control(d) == focus = Nothing /\ EditTo(d) /\ UNCHANGED <<focus, draft>>

--------------------------------------------------------------------------------
(* Environment and shelter type. *)
PickLocation == \E l \in Places : Control([design EXCEPT !.location = l])
PickDate == \E day \in Days : Control([design EXCEPT !.day = day])
PickPreset == \E p \in Presets : Control([design EXCEPT !.presetId = p])
PickOccupancy == \E id \in DOMAIN Occupancy : Control([design EXCEPT !.occupancy = id])

(* Geometry.  A dome has one storey, and its width and its height have no slider.         *)
(* Mutant: the storeys stay. *)
SetShapeKeepsStoreys(d, shape) == [d EXCEPT !.shape = shape]
SetShape(d, shape) ==
  IF shape = "dome" THEN [d EXCEPT !.shape = shape, !.storeys = 1] ELSE [d EXCEPT !.shape = shape]

PickShape == \E shape \in {"box", "cylinder", "dome"} : Control(SetShape(design, shape))
PickStoreys ==
  /\ design.shape # "dome"
  /\ \E storeys \in {1, 2} : Control([design EXCEPT !.storeys = storeys])
SlideSize ==
  \E size \in Sizes :
    \/ Control([design EXCEPT !.length = size])
    \/ design.shape = "box" /\ Control([design EXCEPT !.width = size])
    \/ design.shape # "dome" /\ size <= 60 /\ Control([design EXCEPT !.height = size])

(* The dial turns a point of its rim into degrees from its foot. *)
RimAngle == [S |-> 0, E |-> 90, W |-> -90, N |-> -180]
DragDial == \E point \in DOMAIN RimAngle : Control([design EXCEPT !.azimuth = RimAngle[point]])

(* Materials.  Another material keeps the thickness, the first one brings its own.         *)
SurfaceTypes == {"wall", "roof", "floor"}
Chosen(construction, m) ==
  Layer(m, IF construction = KeepPreset THEN DefaultThickness(m, Category[m])
           ELSE construction.thickness)
PickMaterial ==
  \E type \in SurfaceTypes :
    \/ \E m \in Picked : Control([design EXCEPT ![type] = Chosen(@, m)])
    \/ Control([design EXCEPT ![type] = KeepPreset])
SlideThickness ==
  \E type \in SurfaceTypes, thickness \in Thicknesses :
    /\ design[type] # KeepPreset
    /\ Control([design EXCEPT ![type].thickness = thickness])

(* Openings. *)
SlideShare == \E o \in Orientations, share \in Shares : Control([design EXCEPT !.wwr[o] = share])
PickGlazing == \E g \in {"singleGlazing", "doubleArgonLowE"} : Control([design EXCEPT !.glazingId = g])
PickShutters == \E on \in BOOLEAN : Control([design EXCEPT !.shutters = on])

--------------------------------------------------------------------------------
(* Number fields: the south window's share and the height stand for all of them.          *)
Field == [height |-> [min |-> 20, max |-> 60, step |-> 1, decimal |-> 1],
          S |-> [min |-> 0, max |-> 900, step |-> 50, decimal |-> 10]]
Rounded(v, unit) == ((v + unit \div 2) \div unit) * unit
Format(f, v) == Rounded(v, Field[f].decimal)
Snapped(f, v) ==
  LET r == Rounded(v, Field[f].step)
  IN IF r < Field[f].min THEN Field[f].min ELSE IF r > Field[f].max THEN Field[f].max ELSE r
FieldValue(f) == IF f = "S" THEN design.wwr.S ELSE design.height
WithField(f, v) == IF f = "S" THEN [design EXCEPT !.wwr.S = v] ELSE [design EXCEPT !.height = v]

(* apply(): round, clamp, and a change of the design only when there is one.              *)
Apply(f, raw) ==
  LET next == Snapped(f, raw)
  IN /\ draft' = Format(f, next)
     /\ IF next # FieldValue(f) THEN EditTo(WithField(f, next))
        ELSE UNCHANGED <<design, dirty, panelEdits>>
Commit(f) ==
  IF draft = NotANumber THEN draft' = Format(f, FieldValue(f)) /\ UNCHANGED <<design, dirty, panelEdits>>
  ELSE Apply(f, draft)

Focus ==
  /\ focus = Nothing
  /\ \E f \in DOMAIN Field : /\ f = "height" => design.shape # "dome"
                             /\ focus' = f /\ draft' = Format(f, FieldValue(f))
  /\ UNCHANGED <<design, dirty, panelEdits>>
Type == focus # Nothing /\ draft' \in Texts \cup {NotANumber} /\ UNCHANGED <<design, dirty, focus, panelEdits>>
Escape ==
  /\ focus # Nothing
  /\ draft' = Format(focus, FieldValue(focus))
  /\ UNCHANGED <<design, dirty, focus, panelEdits>>
Enter == focus # Nothing /\ Commit(focus) /\ UNCHANGED focus
Arrow ==
  /\ focus # Nothing
  /\ \E way \in {-1, 1} : Apply(focus, FieldValue(focus) + way * Field[focus].step)
  /\ UNCHANGED focus
Blur == focus # Nothing /\ Commit(focus) /\ focus' = Nothing

PanelNext ==
  \/ PickLocation \/ PickDate \/ PickPreset \/ PickOccupancy
  \/ PickShape \/ PickStoreys \/ SlideSize \/ DragDial
  \/ PickMaterial \/ SlideThickness \/ SlideShare \/ PickGlazing \/ PickShutters
  \/ Focus \/ Type \/ Escape \/ Enter \/ Arrow \/ Blur

PanelSpec == PanelInit /\ [][PanelNext]_panelVars

--------------------------------------------------------------------------------
(* shelterDesignSchema of the server, as far as the panel could miss it. *)
Within(v, min, max) == v \in Int /\ min <= v /\ v <= max
Accepted(d) ==
  /\ d.day # 0
  /\ Within(d.length, 20, 300) /\ Within(d.width, 20, 300) /\ Within(d.height, 20, 60)
  /\ Within(d.azimuth, -180, 180)
  /\ \A type \in SurfaceTypes : d[type] # KeepPreset => Within(d[type].thickness, 200, 10000)
  /\ \A o \in Orientations : Within(d.wwr[o], 0, 900)
  /\ ~(d.shape = "dome" /\ d.storeys = 2)

(* A stored design was accepted when it was saved, as the default one is; a slider has the *)
(* schema's range (options.ts), and what is picked is in the catalogue.                   *)
IsDesign(d) ==
  /\ DOMAIN d = {"location", "day", "presetId", "length", "width", "height", "azimuth", "wall", "roof",
                  "floor", "wwr", "glazingId", "shutters", "occupancy", "shape", "storeys"}
  /\ d.presetId \in Presets /\ d.day \in Int /\ d.storeys \in {0, 1, 2}
  /\ d.shape \in {Nothing, "box", "cylinder", "dome"}
  /\ DOMAIN d.wwr = Orientations
  /\ \A type \in SurfaceTypes :
       d[type] # KeepPreset => \E m \in Materials : d[type] = Layer(m, d[type].thickness)

ASSUME PanelAssumption ==
  /\ \A d \in Loaded : IsDesign(d) /\ Accepted(LoadDesign(d))
  /\ \A size \in Sizes : Within(size, 20, 300)
  /\ \A thickness \in Thicknesses : Within(thickness, 200, 10000)
  /\ \A share \in Shares : Within(share, 0, 900)
  /\ Texts \subseteq Int /\ Days \subseteq Int /\ Picked \subseteq Materials
  /\ \A m \in Materials : Category[m] \in DOMAIN CategoryThickness

(* Only two things the panel lets through are refused by the server's schema: a cleared   *)
(* date, and the sheet steel whose own thickness is below the schema's least.  Anything   *)
(* else, a dome of two storeys, a share above 90 % or a size off the range, would turn    *)
(* the live preview into an error the user cannot see the reason of: with a date set and   *)
(* the sheets thickened, every design is accepted.                                        *)
Thickened(construction) ==
  IF construction # KeepPreset /\ construction.thickness = 6
  THEN [construction EXCEPT !.thickness = 200] ELSE construction
Mended(d) ==
  [d EXCEPT !.day = IF @ = 0 THEN 1 ELSE @,
            !.wall = Thickened(@), !.roof = Thickened(@), !.floor = Thickened(@)]
RefusedOnlyForSheetOrDate == Accepted(Mended(design))

(* What is assembled from any accepted design passes the engine's validation and can be   *)
(* built: each window hangs on one wall larger than it, every material and glazing that   *)
(* is referred to, by a layer, a window or the slab of a second storey, is in the request. *)
AssembledIsBuildable == Accepted(design) => Buildable(Assemble(design))

(* The windows simulated are those asked for, whatever the shape and however many walls   *)
(* face a side: each of them has one window, of the side's share of it, or none for a      *)
(* share of nothing, all of the chosen glazing and with the chosen shutters.  Nothing is   *)
(* left of the preset's own windows.                                                     *)
WindowsFollowDesign ==
  Accepted(design) =>
    LET b == Assemble(design).building
        Asked(s, o) == Window(<<s.id, "Window">>, s.id, design.wwr[o] * (s.area \div 1000),
                              design.glazingId, design.shutters)
    IN /\ \A o \in Orientations : WallsInQuadrant(b, o) # {}
       /\ b.windows = UNION {{Asked(s, o) : s \in WallsInQuadrant(b, o)} :
                               o \in {q \in Orientations : design.wwr[q] > 0}}

(* The facets of a scene are those of a building: as many of each kind, facing the same    *)
(* way, and with an opening exactly where there is a window.                              *)
FacetsMatch(facets, b, shape) ==
  LET Windowed(s) == \E w \in b.windows : w.host = s.id
      Drawn(s) == s.type = "wall" \/ (shape = "dome" /\ s.type = "roof")
      Shown(kind, azimuth, orientation, window) ==
        Cardinality({f \in facets : <<f.kind, f.azimuth, f.orientation, f.window>>
                                      = <<kind, azimuth, orientation, window>>})
  IN /\ \A s \in {t \in b.surfaces : Drawn(t)} :
          Shown(s.type, s.azimuth, OrientationForAzimuth(s.azimuth), Windowed(s))
            = Cardinality({t \in b.surfaces :
                             <<t.type, t.azimuth, Windowed(t)>> = <<s.type, s.azimuth, Windowed(s)>>})
     /\ Cardinality(facets) = Cardinality({t \in b.surfaces : Drawn(t)})
ThicknessesMatch(scene, b) ==
  \A s \in b.surfaces :
    s.type # "wall" \/ OrientationForAzimuth(s.azimuth) = "S"
      => scene[s.type] = StackThickness(s.construction)

(* The viewer draws what is simulated.  Side by side with the server's walls stand its own *)
(* facets, each facing the same way, and an opening is drawn exactly in those that have a   *)
(* window; the total height and the layers' thicknesses are those of the request.         *)
ViewerDrawsWhatIsSimulated ==
  Accepted(design) =>
    LET b == Assemble(design).building
        scene == Scene(design)
    IN /\ FacetsMatch(scene.facets, b, Shape(design))
       /\ scene.rotation = -b.azimuth
       /\ ThicknessesMatch(scene, b)
       /\ (IF Shape(design) = "dome" THEN 3 ELSE 2) * b.volume = scene.height * (b.floorArea \div 10000)

(* The studio's assembly is the classic server's wherever both apply: a box of one storey  *)
(* that is not turned, each material at its own thickness, at a bundled place, gives the   *)
(* same request from both, window for window (assemble.ts:1-16, "Everything else is        *)
(* unchanged").                                                                          *)
Classical(d) ==
  /\ Accepted(d) /\ d.shape = "box" /\ d.storeys = 1 /\ d.azimuth = 0 /\ d.location.kind = "preset"
  /\ \A type \in SurfaceTypes :
       d[type] # KeepPreset => d[type].thickness = DefaultThickness(d[type].materialId,
                                                                 Category[d[type].materialId])
DesignInput(d) ==
  LET Material(layer) == IF layer = KeepPreset THEN NoMaterial ELSE layer.materialId
  IN [place |-> d.location.place, day |-> d.day, presetId |-> d.presetId, length |-> d.length,
      width |-> d.width, height |-> d.height, wall |-> Material(d.wall), roof |-> Material(d.roof),
      floor |-> Material(d.floor), wwr |-> d.wwr, glazingId |-> d.glazingId,
      shutters |-> d.shutters, occupancy |-> d.occupancy]
ClassicAgrees == Classical(design) => Assemble(design) = ClassicAssemble(DesignInput(design))
================================================================================
