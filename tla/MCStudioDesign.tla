----------------------------- MODULE MCStudioDesign -----------------------------
(* The panel opened with the server's default design, with a stored one from before there *)
(* were shapes, and with a round one of two storeys.                                      *)
EXTENDS DesignPanel

Default ==
  [location |-> Location("preset", "leh"), day |-> 15, presetId |-> "traditionalLadakhiByre",
   length |-> 50, width |-> 50, height |-> 26, azimuth |-> 0, wall |-> KeepPreset, roof |-> KeepPreset,
   floor |-> KeepPreset, wwr |-> [S |-> 32, E |-> 0, W |-> 0, N |-> 0], glazingId |-> "singleGlazing",
   shutters |-> FALSE, occupancy |-> "familyLivestock", shape |-> "box", storeys |-> 1]
Old == [Default EXCEPT !.shape = Nothing, !.storeys = 0, !.presetId = "geresTrombeRetrofit"]
Round == [Default EXCEPT !.presetId = "armyBroBarrack", !.shape = "cylinder", !.storeys = 2,
                         !.length = 20, !.wwr = [S |-> 900, E |-> 50, W |-> 0, N |-> 300],
                         !.shutters = TRUE, !.wall = Layer("eps", 1000)]

MCLoaded == {Default, Old, Round}
MCSizes == {20, 60}
MCThicknesses == {200, 10000}
MCPicked == {"steelCGI", "eps"}
MCShares == {0, 900}
MCDays == {0, 365}
MCPlaces == {Location("preset", "jaisalmer"), Location("custom", "tabo")}
MCTexts == {0, 420, 1500}
================================================================================
