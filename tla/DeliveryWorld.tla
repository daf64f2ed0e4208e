---------------------------- MODULE DeliveryWorld ----------------------------
(* One plane at work on the arithmetic of Delivery, without the threads and the  *)
(* messages: the configuration is read (Parser), and then the plane unloads in   *)
(* every city and flies to a destination the map offers.                         *)
EXTENDS Delivery, Parser

CONSTANTS Worlds,          \* what the files may say: cities, roads and the plane
          CityNames,       \* the names of the cities, in the order of the map file
          MaxDestinations  \* MAX_DESTINATIONS

Unread == [unread |-> TRUE]

VARIABLES world,     \* what the files say, Unread once they are read
          products,  \* map->product
          matrix,    \* map->matrix
          need,      \* city->stock of every city
          stocks,    \* plane->stocks
          at,        \* plane->cityId
          offer      \* the candidates of the last app_give_destinations, in table order

vars == <<world, products, matrix, need, stocks, at, offer>>

Init == /\ world \in Worlds
        /\ products = <<>> /\ matrix = <<>>
        /\ need = <<>> /\ stocks = <<>> /\ at = 0
        /\ offer = <<>>

(* The files of a world. *)
Listing(list) == FlattenSeq([i \in DOMAIN list |-> <<Word(list[i].product),
                                                    Number(list[i].amount)>>])
Entry(city, list) == <<Word(CityNames[city])>> \o Listing(list)

MapFile(w) ==
    <<Number(Len(w.cities))>> \o FlattenSeq([c \in DOMAIN w.cities |-> Entry(c, w.cities[c])])
        \o FlattenSeq([r \in DOMAIN w.roads |->
                           <<Word(CityNames[w.roads[r].from]), Word(CityNames[w.roads[r].to]),
                             Number(w.roads[r].length)>>])

AirlineFile(w) == <<Number(1)>> \o Entry(w.plane.at, w.plane.stocks)

(* main.c:94-106: the map first, then the airlines. *)
Configure == LET map   == ParseMap(MapFile(world))
                 plane == ParsePlanes(AirlineFile(world), map)[1]
             IN  /\ world # Unread /\ world' = Unread
                 /\ matrix' = map.matrix /\ need' = map.stocks
                 /\ products' = ReadEntries(AirlineFile(world), map.products).products
                 /\ at' = plane.cityId /\ stocks' = plane.stocks
                 /\ UNCHANGED offer

(* updateMap *)
Unload == LET after == Discharge(need[at], stocks)
          IN  /\ world = Unread
              /\ need' = [need EXCEPT ![at] = after.city]
              /\ stocks' = after.plane
              /\ UNCHANGED <<world, products, matrix, at, offer>>

(* app_give_destinations, of which the plane takes the first. *)
Fly == LET table == Candidates(need, matrix[at], stocks, MaxDestinations)
       IN  /\ world = Unread
           /\ offer' = table
           /\ IF table = <<>> THEN UNCHANGED at
              ELSE \E d \in Nearest(table) : at' = d.city
           /\ UNCHANGED <<world, products, matrix, need, stocks>>

Next == Configure \/ Unload \/ Fly

Spec == Init /\ [][Next]_vars

-----------------------------------------------------------------------------
City    == DOMAIN need
Reading == world # Unread

(* The parser is never one word ahead or behind: every city has its own list and *)
(* the plane its own, with the products by their names, though the name after a  *)
(* list is only known when no amount follows it (parser.c:115-145, 215-236).     *)
ByName(list) == [i \in DOMAIN list |-> [list[i] EXCEPT !.product = products'[@]]]

ReadsBack == [][Reading =>
    /\ [c \in DOMAIN need' |-> ByName(need'[c])] = world.cities
    /\ ByName(stocks') = world.plane.stocks
    /\ at' = world.plane.at]_vars

(* floydMatrix leaves the lengths of the shortest ways: no road and no detour    *)
(* over a third city is shorter, every length is that of a road or of a way over *)
(* a third city, and 0 stands for the city itself and for no way at all          *)
(* (parser.c:171-191).                                                           *)
Shortest(m, roads) == \A a, b \in DOMAIN m :
    LET direct == {r.length : r \in {r \in Range(roads) : {r.from, r.to} = {a, b}}}
        over   == {m[a][c] + m[c][b] :
                       c \in {c \in DOMAIN m \ {a, b} : m[a][c] > 0 /\ m[c][b] > 0}}
        ways   == IF a = b THEN {} ELSE direct \cup over
    IN  m[a][b] = IF ways = {} THEN 0 ELSE Min(ways)

ShortestWays == [][Reading => Shortest(matrix', world.roads)]_vars

(* Unloading never leaves behind something the city still needs and the plane    *)
(* carries: getCityScore of that city is then 0, so the map never offers a plane *)
(* the city it has just unloaded in (map.c:238-241).                             *)
UnloadLeavesNothing == [][Unload => Score(need'[at], stocks') = 0]_vars

(* The plane flies to the nearest of the cities it is most useful to: no city    *)
(* left out of a full table is more useful than one that was kept, and of those  *)
(* kept none is nearer, by the shortest ways the parser has found                *)
(* (insertScore, map.c:267-289; cityInfoComparator, map.c:250, 291; plane.c:56). *)
BestDestination == [][Fly =>
    LET kept == {offer'[i].city : i \in DOMAIN offer'}
        useful == {c \in City : Score(need[c], stocks) > 0}
    IN  /\ kept \subseteq useful
        /\ Cardinality(kept) = Least(MaxDestinations, Cardinality(useful))
        /\ \A c \in kept, d \in useful \ kept :
              Score(need[d], stocks) <= Score(need[c], stocks)
        /\ \A c \in kept : matrix[at][at'] <= matrix[at][c]]_vars
=============================================================================
