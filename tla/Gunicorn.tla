-------------------------------- MODULE Gunicorn --------------------------------
(* The web server that docker/start.py becomes.                            *)
EXTENDS FiniteSets

CONSTANT Requests       \* its processes: each serves one request at a time

ASSUME RequestsAssumption == IsFiniteSet(Requests) /\ Requests # {}
=============================================================================
