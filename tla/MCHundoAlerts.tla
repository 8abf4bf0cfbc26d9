--------------------------- MODULE MCHundoAlerts ---------------------------
(* Two areas, of which a player may choose either, both or none (all). *)
EXTENDS HundoAlerts, TLC

CONSTANTS a, b

Symmetry == Permutations(Areas)
=============================================================================
