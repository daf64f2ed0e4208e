------------------------------- MODULE Parser -------------------------------
(* parser.c: how a file becomes a map or the planes of an airline.  A file is    *)
(* the sequence of its words and numbers, as fscanf sees it; names are words.    *)
(* Every file names a product with its amount after the name of a city, and a    *)
(* map file ends with at least one road: without any, parseMap would take its    *)
(* last product for a city and write outside the matrix (parser.c:153-159).      *)
EXTENDS Integers, SequencesExt, FiniteSetsExt

Word(w)     == [kind |-> "word", of |-> w]
Number(n)   == [kind |-> "number", of |-> n]
IsNumber(t) == t.kind = "number"

(* fscanf(file, "%s %d\n", ...) == 2 *)
ReadsPair(rest) == Len(rest) >= 2 /\ IsNumber(rest[2])

(* getCityId and getProductId: the index of a name in a list. *)
IdOf(name, names) == CHOOSE i \in DOMAIN names : names[i] = name

(* getProduct adds a name it does not know. *)
WithProduct(name, products) ==
    IF Contains(products, name) THEN products ELSE Append(products, name)

(* The loop that reads a stock list, up to the first word without a number: what *)
(* is left of the file, the list, the products and the word in the buffer.       *)
RECURSIVE ReadStocks(_)
ReadStocks(state) ==
    IF ~ReadsPair(state.rest) THEN state
    ELSE LET name  == state.rest[1].of
             known == WithProduct(name, state.products)
         IN  ReadStocks([rest     |-> SubSeq(state.rest, 3, Len(state.rest)),
                         list     |-> Append(state.list,
                                             [product |-> IdOf(name, known),
                                              amount  |-> state.rest[2].of]),
                         products |-> known])

(* What is left when the word that ended a stock list has become the name of the *)
(* next city or plane.                                                           *)
NextName(rest) == Tail(rest)

(* Mutant of NewList: the vector of the stock list before is used again.         *)
OldList(state) == IF state.stocks = <<>> THEN <<>> ELSE Last(state.stocks)

(* createVector *)
NewList(state) == <<>>

(* One turn of the loop over the cities, or over the planes: the name was read   *)
(* with the stock list before, the first one on its own.                         *)
ReadEntry(state, i) ==
    LET after == ReadStocks([rest |-> state.rest, list |-> NewList(state),
                             products |-> state.products])
    IN  [rest     |-> IF after.rest = <<>> THEN <<>> ELSE NextName(after.rest),
         name     |-> IF after.rest = <<>> THEN state.name ELSE after.rest[1].of,
         names    |-> Append(state.names, state.name),
         stocks   |-> Append(state.stocks, after.list),
         products |-> after.products]

ReadEntries(file, products) ==
    FoldLeft(ReadEntry,
             [rest |-> SubSeq(file, 3, Len(file)), name |-> file[2].of,
              names |-> <<>>, stocks |-> <<>>, products |-> products],
             [i \in 1 .. file[1].of |-> i])

-----------------------------------------------------------------------------
(* parseAirlines *)
ParsePlanes(file, map) ==
    LET read == ReadEntries(file, map.products)
    IN  [i \in DOMAIN read.names |-> [cityId |-> IdOf(read.names[i], map.cities),
                                      stocks |-> read.stocks[i]]]

(* The roads: the last word that ended a stock list is the end of the first. *)
ReadRoads(read) ==
    LET tokens == <<Word(read.name)>> \o read.rest
    IN  [r \in 1 .. Len(tokens) \div 3 |->
            [from   |-> IdOf(tokens[3 * r - 2].of, read.names),
             to     |-> IdOf(tokens[3 * r - 1].of, read.names),
             length |-> tokens[3 * r].of]]

SetRoad(matrix, road) == [matrix EXCEPT ![road.from][road.to] = road.length,
                                        ![road.to][road.from] = road.length]

(* The matrix before floydMatrix; 0 is no road. *)
RoadMatrix(size, roads) ==
    FoldLeft(SetRoad, [i \in 1 .. size |-> [j \in 1 .. size |-> 0]], roads)

(* Mutant of Rounds: k is the innermost loop.                                    *)
RoundsInside(size) == [n \in 0 .. size ^ 3 - 1 |-> <<(n % size) + 1, (n \div size ^ 2) + 1,
                                                    ((n \div size) % size) + 1>>]

(* The values k, i and j take in turn. *)
Rounds(size) == [n \in 0 .. size ^ 3 - 1 |-> <<(n \div size ^ 2) + 1,
                                              ((n \div size) % size) + 1, (n % size) + 1>>]

(* The body of the loops of floydMatrix. *)
Relax(matrix, round) ==
    LET k == round[1]  i == round[2]  j == round[3]
        way == matrix[i][k] + matrix[k][j]
    IN  IF /\ matrix[i][k] # 0 /\ matrix[k][j] # 0 /\ i # j
           /\ (matrix[i][j] = 0 \/ way < matrix[i][j])
        THEN [matrix EXCEPT ![i][j] = way] ELSE matrix

floydMatrix(matrix) ==
    LET rounds == Rounds(Len(matrix))
    IN  FoldLeft(Relax, matrix, [n \in 1 .. Len(matrix) ^ 3 |-> rounds[n - 1]])

(* parseMap *)
ParseMap(file) ==
    LET read == ReadEntries(file, <<>>)
    IN  [cities |-> read.names, products |-> read.products, stocks |-> read.stocks,
         matrix |-> floydMatrix(RoadMatrix(Len(read.names), ReadRoads(read)))]
=============================================================================
