-------------------------------- MODULE MCSweep --------------------------------
(* Sweeps over two or three variables of one to three values each, an empty list and a    *)
(* cap below the product among them; the wall is insulated earth, the floor bare earth.   *)
EXTENDS Sweep
CONSTANTS earth, stone, foam, brick \* brick is in no catalogue

Foams  == {foam}
Masses == {earth, stone}
Slices == [m \in {earth, stone, foam} |-> CASE m = earth -> 3 [] m = stone -> 8 [] OTHER -> 2]
Lay(m, t) == [material |-> m, thickness |-> t]
Shelter == [layers  |-> [t \in SurfaceType |-> CASE t = "wall" -> <<Lay(foam, 4), Lay(earth, 12)>>
                                                 [] t = "roof" -> <<Lay(stone, 8), Lay(foam, 2), Lay(earth, 4)>>
                                                 [] OTHER -> <<Lay(earth, 8)>>],
            area |-> 100, window |-> 10, storage |-> {}, ach |-> 2]

Var(k, vs) == [kind |-> k, values |-> vs]
Position  == Var("insulationPosition", <<"inside", "outside", "cavity">>)
Width     == Var("insulationThickness", <<2, 8>>)
Walls     == Var("wallConstruction", <<earth, stone>>)
Unknown   == Var("wallConstruction", <<stone, brick>>)
Drums     == Var("massStrategy", <<"none", "pcm">>)
Roofs     == Var("roofConstruction", <<stone>>)
Mass      == Var("massStrategy", <<"none", "floor">>)
Stores    == Var("massStrategy", <<"trombe", "water">>)
Air       == Var("ach", <<1, 2>>)
Glazed    == Var("wwr", <<20, 95>>)
Azimuth   == Var("buildingAzimuth", <<0, 90>>)
Nothing   == Var("glazing", <<>>)

Ask(vs, n) == [variables |-> vs, maxVariants |-> n]
Asked == {Ask(<<Position>>, 200), Ask(<<Width, Position>>, 5), Ask(<<Position, Width>>, 6),
          Ask(<<Walls, Air>>, 200), Ask(<<Air, Mass, Azimuth>>, 5), Ask(<<Glazed, Air>>, 4),
          Ask(<<Stores, Position>>, 6), Ask(<<Roofs, Azimuth, Air>>, 4),
          Ask(<<Walls, Nothing>>, 200), Ask(<<Air>>, 0), Ask(<<Air, Unknown>>, 4), Ask(<<Drums>>, 2), Ask(<<Drums, Air>>, 2), Ask(<<>>, 1)}
================================================================================
