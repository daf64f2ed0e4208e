---------------------------- MODULE TurnBarrier ----------------------------
(* What the simulation promises about its turns.  A turn has two phases, unload  *)
(* and move; a phase begins for all the planes in the game at once and the next  *)
(* begins only when each of them has finished it.  A plane that finishes may     *)
(* leave the game.  Between two turns nobody works, and there the simulation may *)
(* end, after which the planes go.                                               *)
CONSTANT Plane

VARIABLES phase,    \* "rest", "unload", "move" or "over"
          flying,   \* the planes in the game
          working   \* those that have not finished the phase

vars == <<phase, flying, working>>

TypeOK == /\ phase \in {"rest", "unload", "move", "over"}
          /\ flying \subseteq Plane
          /\ working \subseteq flying

Init == phase = "rest" /\ flying = Plane /\ working = {}

BeginTurn == /\ phase = "rest"
             /\ phase' = "unload" /\ working' = flying /\ UNCHANGED flying

BeginMove == /\ phase = "unload" /\ working = {}
             /\ phase' = "move" /\ working' = flying /\ UNCHANGED flying

EndTurn == /\ phase = "move" /\ working = {}
           /\ phase' = "rest" /\ UNCHANGED <<flying, working>>

Stop == /\ phase = "rest"
        /\ phase' = "over" /\ UNCHANGED <<flying, working>>

Finish(p) == /\ p \in working
             /\ working' = working \ {p}
             /\ flying' \in {flying, flying \ {p}}
             /\ UNCHANGED phase

Leave(p) == /\ phase = "over" /\ p \in flying
            /\ flying' = flying \ {p}
            /\ UNCHANGED <<phase, working>>

Next == \/ BeginTurn \/ BeginMove \/ EndTurn \/ Stop
        \/ \E p \in Plane : Finish(p) \/ Leave(p)

Spec == Init /\ [][Next]_vars
=============================================================================
