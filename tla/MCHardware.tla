---------------------------- MODULE MCHardware ----------------------------
(***************************************************************************)
(* Instances of Hardware for TLC.                                          *)
(***************************************************************************)
EXTENDS Hardware

CONSTANTS w1, w2

Workers2 == {w1, w2}

\* The tiers of fleet.toml: default and mid are the same model.  Model 2 is none
\* of them, and smaller than the default.  The critical one is not installed.
FleetTiers == <<1, 1, 3, 4>>

\* Each behaviour has the events of one scene.
FleetScenes ==
    {{"vision", "warm", "die"},
     {"warm", "blind", "high", "edit"},
     {"train", "ollama", "restart"},
     {"train", "row", "misfire", "die"},
     {"row", "edit", "high"}}
=============================================================================
