------------------------------ MODULE Delivery ------------------------------
(* The arithmetic of app/map.c: what a plane discharges at a city, how useful a  *)
(* city is to a plane, which destinations the map offers, what it reports.       *)
(*                                                                               *)
(* A stock list (the Vector of Stock of a city or of a plane) is a sequence of   *)
(* records [product, amount] in the order of the configuration file, and a map   *)
(* is a sequence of the stock lists of its cities, indexed by city.  Every list  *)
(* of a city is nonempty: updateMap reads an uninitialized pointer when it is    *)
(* empty (map.c:198,209).                                                        *)
EXTENDS Integers, SequencesExt, FiniteSetsExt

Least(a, b) == IF a <= b THEN a ELSE b

TotalAmount(stocks) == FoldLeft(LAMBDA sum, s : sum + s.amount, 0, stocks)

(* The products of one list are added up entry by entry, as a name may be listed *)
(* more than once.                                                               *)
AmountOf(stocks, product) ==
    TotalAmount(SelectSeq(stocks, LAMBDA s : s.product = product))

-----------------------------------------------------------------------------
(* Mutant of EntryFor: the search does not stop at the entry it looks for.       *)
LastEntry(cityStock, product) == Len(cityStock)

(* Where the search of updateMap stops: the city's first entry for the product,  *)
(* or, when it lists none, the last entry it looked at.                          *)
EntryFor(cityStock, product) ==
    LET found == {i \in DOMAIN cityStock : cityStock[i].product = product}
    IN  IF found = {} THEN Len(cityStock) ELSE Min(found)

(* Mutant of DischargeEntry: it discharges everything, needed or not.            *)
DischargeAll(state, s) ==
    LET entry == EntryFor(state.city, s.product)
        moved == Least(state.city[entry].amount, s.amount)
    IN  [city  |-> [state.city EXCEPT ![entry].amount = @ - s.amount],
         plane |-> Append(state.plane, [s EXCEPT !.amount = @ - moved])]

(* Mutant of DischargeEntry: the plane keeps what it has discharged.             *)
DischargeKept(state, s) ==
    LET entry == EntryFor(state.city, s.product)
        moved == Least(state.city[entry].amount, s.amount)
    IN  [city  |-> [state.city EXCEPT ![entry].amount = @ - moved],
         plane |-> Append(state.plane, s)]

(* One iteration of updateMap: as much as the city's entry can take and the      *)
(* plane's entry can give moves from the plane to the city.                      *)
DischargeEntry(state, s) ==
    LET entry == EntryFor(state.city, s.product)
        moved == Least(state.city[entry].amount, s.amount)
    IN  [city  |-> [state.city EXCEPT ![entry].amount = @ - moved],
         plane |-> Append(state.plane, [s EXCEPT !.amount = @ - moved])]

(* updateMap: the stock lists of the city and of the plane after unloading. *)
Discharge(cityStock, planeStock) ==
    FoldLeft(DischargeEntry, [city |-> cityStock, plane |-> <<>>], planeStock)

-----------------------------------------------------------------------------
(* What one entry of a city adds to its score: the plane's first entry for the   *)
(* same product is compared, the others are not looked at.                       *)
EntryScore(s, planeStock) ==
    LET found == {j \in DOMAIN planeStock : planeStock[j].product = s.product}
    IN  IF found = {} THEN 0 ELSE Least(s.amount, planeStock[Min(found)].amount)

Score(cityStock, planeStock) ==
    FoldLeft(LAMBDA sum, s : sum + EntryScore(s, planeStock), 0, cityStock)

(* Mutant of InsertScore: a full table drops the newcomer.                       *)
InsertScoreDropping(kept, size, candidate) ==
    IF Len(kept) < size THEN Append(kept, candidate) ELSE kept

(* insertScore and its caller: a new candidate is appended while there is room   *)
(* and otherwise takes the place of the first of the worst ones, if it is better.*)
InsertScore(kept, size, candidate) ==
    IF Len(kept) < size
    THEN Append(kept, candidate)
    ELSE LET worst == Min({kept[i].score : i \in DOMAIN kept})
             first == Min({i \in DOMAIN kept : kept[i].score = worst})
         IN  IF candidate.score > worst THEN [kept EXCEPT ![first] = candidate]
                                        ELSE kept

Candidate(need, distances, planeStock, c) ==
    [city |-> c, distance |-> distances[c], score |-> Score(need[c], planeStock)]

(* The table app_give_destinations has built when its loop over the cities ends. *)
(* `distances' is the row of the distance matrix for the plane's city.           *)
Candidates(need, distances, planeStock, size) ==
    FoldLeftDomain(LAMBDA kept, c :
                      IF Score(need[c], planeStock) = 0 THEN kept
                      ELSE InsertScore(kept, size,
                                       Candidate(need, distances, planeStock, c)),
                   <<>>, need)

(* The candidates qsort may put first, the only one a plane flies to: the order  *)
(* of equal distances is unspecified.                                            *)
Nearest(candidates) ==
    {d \in Range(candidates) : \A e \in Range(candidates) : d.distance <= e.distance}

-----------------------------------------------------------------------------
(* Mutant of Satisfied: one amount of 0 is enough.                               *)
SatisfiedInPart(cityStock) == \E i \in DOMAIN cityStock : cityStock[i].amount = 0

(* hasNoStocks, cityIsSatisfied *)
Satisfied(cityStock) == \A i \in DOMAIN cityStock : cityStock[i].amount = 0

(* endSimulation *)
EndSimulation(need, turn, maxTurns) ==
    turn < maxTurns => \A c \in DOMAIN need : Satisfied(need[c])

(* get_map_status *)
MapTotal(need) == FoldLeft(LAMBDA sum, stocks : sum + TotalAmount(stocks), 0, need)
=============================================================================
