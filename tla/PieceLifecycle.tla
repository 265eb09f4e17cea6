--------------------------- MODULE PieceLifecycle ---------------------------
(***************************************************************************)
(* What the engine promises about the life of a piece, without clock,      *)
(* board or motions: it stands idle, flies, rests and is idle again, until *)
(* it is captured (wherever it is) or lost on landing, and from both there *)
(* is no way back.  The game is over with the first captured king, and no  *)
(* piece takes off after that.  GameEngine implements this specification   *)
(* (GameEngine!ImplementsLifecycle).                                       *)
(***************************************************************************)
CONSTANTS Pieces, Kings

VARIABLES status, over

Statuses == {"idle", "airborne", "resting", "captured", "lost"}

\* A piece changes its status along these edges only.
Edges == { <<"idle", "airborne">>, <<"airborne", "resting">>, <<"resting", "idle">>,
           <<"airborne", "lost">>,
           <<"idle", "captured">>, <<"airborne", "captured">>, <<"resting", "captured">> }

Init == /\ status = [p \in Pieces |-> "idle"]
        /\ over = FALSE

Becomes(p, s) == status[p] # s /\ status'[p] = s

\* One request lifts one piece, and only while the game is on.
TakeOff(p) ==
  /\ ~over
  /\ status[p] = "idle"
  /\ status' = [status EXCEPT ![p] = "airborne"]
  /\ UNCHANGED over

\* Physics: pieces land, are captured, wake up or are lost, none takes off,
\* at most one comes down at a time, and a captured king ends the game.
Physics ==
  /\ status' \in [Pieces -> Statuses]
  /\ \A p \in Pieces : /\ status'[p] # status[p] => <<status[p], status'[p]>> \in Edges
                       /\ ~Becomes(p, "airborne")
  /\ \A p, q \in Pieces : /\ Becomes(p, "resting") \/ Becomes(p, "lost")
                          /\ Becomes(q, "resting") \/ Becomes(q, "lost")
                          => p = q
  /\ over' = (over \/ \E p \in Kings : Becomes(p, "captured"))

Next == (\E p \in Pieces : TakeOff(p)) \/ Physics

Spec == Init /\ [][Next]_<<status, over>>
=============================================================================
