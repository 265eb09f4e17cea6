-------------------------- MODULE MCCommandHandler --------------------------
(***************************************************************************)
(* The small games of MCGameEngine, played by commands.                    *)
(***************************************************************************)
EXTENDS KungFuBot, MCGameEngine

\* Rests that are longer than the waits that fit between two requests.
MCRests == [k \in Kinds |-> [s \in RestStates |-> IF s = "ShortRest" THEN 3 ELSE 4]]
=============================================================================
