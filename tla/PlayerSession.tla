---------------------------- MODULE PlayerSession ----------------------------
(***************************************************************************)
(* What the server promises about the session of each player, without      *)
(* messages, timers, seats or names.  A session is in the lobby, searches, *)
(* or is in one room; it moves alone, but for a match, which takes two     *)
(* that search into a room that holds nobody else.  The ways that lead     *)
(* astray are part of it: a search may be stranded, and then ends with the *)
(* connection only; who closes its connection while searching may still be *)
(* matched, and haunts that room for ever, as does who closes it in the    *)
(* room without a name.  Nothing else outlives a connection.               *)
(* Lobby implements this (Lobby!ImplementsSessions).                       *)
(***************************************************************************)
CONSTANTS Players, Rooms,
          Unnamed    \* the room whose name is empty, if there is one

VARIABLES
  phase,    \* of each player: where its session is
  member    \* of each player: the rooms that have it as a player

vars == <<phase, member>>

Init == /\ phase = [p \in Players |-> "new"]
        /\ member = [p \in Players |-> {}]

-----------------------------------------------------------------------------
(* One player moves.                                                       *)

Moves(p, next, rooms) ==
  /\ phase' = [phase EXCEPT ![p] = next]
  /\ member' = [member EXCEPT ![p] = rooms]

Open(p)   == phase[p] = "new" /\ Moves(p, "connected", {})
Login(p)  == phase[p] = "connected" /\ Moves(p, "lobby", {})
Search(p) == phase[p] = "lobby" /\ Moves(p, "searching", {})
GiveUp(p) == phase[p] = "searching" /\ Moves(p, "lobby", {})
Enter(p)  == phase[p] = "lobby" /\ \E r \in Rooms : Moves(p, "playing", {r})
Leave(p)  == phase[p] = "playing" /\ Moves(p, "lobby", {})

\* The connection closes; one that searches is still in the queue, and the
\* room without a name lets nobody go.
Close(p) ==
  \/ /\ phase[p] \in {"connected", "lobby", "stranded", "playing"}
     /\ member[p] # {Unnamed}
     /\ Moves(p, "gone", {})
  \/ phase[p] = "playing" /\ member[p] = {Unnamed} /\ Moves(p, "ghost", {Unnamed})
  \/ phase[p] = "searching" /\ Moves(p, "goneSearching", {})

Forget(p) == phase[p] = "goneSearching" /\ Moves(p, "gone", {})

Alone(p) == \/ Open(p) \/ Login(p) \/ Search(p) \/ GiveUp(p) \/ Enter(p) \/ Leave(p)
            \/ Close(p) \/ Forget(p)

-----------------------------------------------------------------------------
(* The matchmaker takes two out of its queue.                              *)

Queued(p) == phase[p] \in {"searching", "goneSearching"}

Matched(p)   == IF phase[p] = "searching" THEN "playing" ELSE "ghost"
Unmatched(p) == IF phase[p] = "searching" THEN "stranded" ELSE "gone"

Match(p, q) ==
  /\ p # q /\ Queued(p) /\ Queued(q)
  /\ phase' = [phase EXCEPT ![p] = Matched(p), ![q] = Matched(q)]
  /\ \E r \in Rooms \ {Unnamed} :
       /\ \A other \in Players : r \notin member[other]
       /\ member' = [member EXCEPT ![p] = {r}, ![q] = {r}]

\* There is no room for the two.
Strand(p, q) ==
  /\ p # q /\ Queued(p) /\ Queued(q)
  /\ phase' = [phase EXCEPT ![p] = Unmatched(p), ![q] = Unmatched(q)]
  /\ UNCHANGED member

Next == \/ \E p \in Players : Alone(p)
        \/ \E p, q \in Players : Match(p, q) \/ Strand(p, q)

Spec == Init /\ [][Next]_vars
=============================================================================
