--------------------------- MODULE MCVehicleProfile ---------------------------
(* Instances of VehicleProfile for TLC.  The first router is the one main.go
   wires; the others are those the settings in the README speak of.       *)
EXTENDS VehicleProfile

CONSTANTS c1, c2, p1, p2, odd, f1

AllRouters == {<<"mock">>, <<"http", "mock">>, <<"carsxe", "http">>}
=============================================================================
