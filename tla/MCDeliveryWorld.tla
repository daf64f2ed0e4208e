--------------------------- MODULE MCDeliveryWorld ---------------------------
(* The table of destinations holds two cities, so that with three it overflows   *)
(* and a candidate is displaced.  Amounts are positive and no product is named   *)
(* twice in a list (doc/informe.tex:299).                                        *)
EXTENDS DeliveryWorld

Amounts      == [product : {"P", "Q"}, amount : 1 .. 2]
NoRepeats(l) == \A i, j \in DOMAIN l : l[i].product = l[j].product => i = j
Lists        == {l \in [1 .. 1 -> Amounts] \cup [1 .. 2 -> Amounts] : NoRepeats(l)}

Road(a, b, d) == [from |-> a, to |-> b, length |-> d]
Line          == <<Road(1, 2, 1), Road(2, 3, 2)>>

(* Three cities on a line, with every cargo and every need; the product that the *)
(* plane lists first is called P.                                                *)
AllLists == [cities : [1 .. 3 -> Lists], roads : {Line},
             plane : [at : 1 .. 3, stocks : {l \in Lists : l[1].product = "P"}]]

(* Two to four cities with any roads between them, at least one, of length 1 and *)
(* 4, so that a way over three roads may be shorter than one road.               *)
Pairs(n)      == {<<a, b>> \in (1 .. n) \X (1 .. n) : a < b}
RoadSets(n)   == UNION {[P -> {1, 4}] : P \in SUBSET Pairs(n) \ {{}}}
AsRoads(f)    == SetToSeq({Road(p[1], p[2], f[p]) : p \in DOMAIN f})
Plain(n)      == [c \in 1 .. n |-> <<[product |-> IF c = 2 THEN "Q" ELSE "P", amount |-> 1]>>]
AllRoads(n)   == [cities : {Plain(n)}, roads : {AsRoads(f) : f \in RoadSets(n)},
                  plane : [at : {n}, stocks : {<<[product |-> "P", amount |-> 2]>>}]]

AllWorlds == AllLists \cup UNION {AllRoads(n) : n \in 2 .. 4}
Names     == <<"A", "B", "C", "D">>
=============================================================================
