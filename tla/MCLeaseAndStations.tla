------------------------- MODULE MCLeaseAndStations -------------------------
(***************************************************************************)
(* The two locks between processes of the dispatcher, side by side: the    *)
(* pass lease, and the stations lock with what it protects.  They share no *)
(* state; a behaviour runs one of them and the other stays at rest.        *)
(***************************************************************************)
EXTENDS Lease, Stations

VARIABLE part

StationsRest ==
  /\ session = "over" /\ hung = FALSE /\ quiet = FALSE /\ refusal = FALSE
  /\ spent = FALSE /\ stops = <<>> /\ orders = 0 /\ asked = <<>>
  /\ lock = Nobody /\ doing = [i \in Inspector |-> "idle"]
  /\ seen = [i \in Inspector |-> NothingSeen] /\ calm = FALSE

BothInit ==
  /\ Init
  /\ \/ part = "lease" /\ StationsRest
     \/ part = "stations" /\ StationsInit

BothNext ==
  /\ UNCHANGED part
  /\ \/ part = "lease" /\ Next /\ UNCHANGED stationVars
     \/ part = "stations" /\ StationsNext /\ UNCHANGED vars

(* At rest, nothing the fairness names can be done. *)
BothSpec == BothInit /\ [][BothNext]_<<part, vars, stationVars>> /\ StationsFairness
=============================================================================
