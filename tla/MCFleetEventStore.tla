-------------------------- MODULE MCFleetEventStore --------------------------
(* Model-checking instance of FleetEventStore: four events whose ids compare *)
(* in neither the order of creation nor its reverse.                         *)
EXTENDS FleetEventStore

MCUuidOrder == <<2, 4, 1, 3>>
=============================================================================
