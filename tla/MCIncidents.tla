---------------------------- MODULE MCIncidents ----------------------------
(* Model-checking instances of Incidents.                                  *)
EXTENDS Incidents

(* A speaker that comes, goes and is tried again.                          *)
MCStates == {"connected", "disconnected", "reconnecting"}
=============================================================================
