---------------------------- MODULE MCSimulation ----------------------------
(* Small worlds for Simulation. *)
EXTENDS Simulation

S(product, amount) == [product |-> product, amount |-> amount]

(* Race: two airlines of two planes, three cities on a line.  The planes of the  *)
(* two airlines go for the same need, so one finds it gone on arrival; cargo is  *)
(* discharged where it is not listed; one plane starts with nothing to give and  *)
(* one airline runs out of planes before the other.                              *)
RaceAirlineOf  == <<1, 1, 2, 2>>
RaceCityStock  == << <<S(1, 1), S(2, 1)>>, <<S(2, 2)>>, <<S(1, 1), S(3, 2)>> >>
RacePlaneStock == << <<S(2, 2), S(3, 1)>>, <<S(1, 1)>>, <<S(3, 2)>>, <<S(1, 1), S(2, 2)>> >>
RaceStartCity  == <<1, 1, 2, 2>>
RaceDistance   == << <<0, 1, 3>>, <<1, 0, 2>>, <<3, 2, 0>> >>

(* Enough: one plane that carries as much of each product as the two cities need *)
(* together, and starts in the city that lists only the first product.           *)
EnoughAirlineOf  == <<1>>
EnoughCityStock  == << <<S(1, 2)>>, <<S(2, 2)>> >>
EnoughPlaneStock == << <<S(2, 2), S(1, 2)>> >>
EnoughStartCity  == <<1>>
EnoughDistance   == << <<0, 1>>, <<1, 0>> >>
=============================================================================
