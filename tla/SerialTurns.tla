---------------------------- MODULE SerialTurns ----------------------------
(***************************************************************************)
(* What the session locks of the agent loop promise, without queues, tasks *)
(* or locks: in each session one turn at a time is open, only the open     *)
(* turn may commit, and turns open in an order that never goes back behind *)
(* a committed one.  AgentLoop implements this for the turns that chats    *)
(* start.                                                                  *)
(***************************************************************************)
EXTENDS Naturals

CONSTANTS Sessions, Turns, NoTurn

VARIABLES
  open,      \* the open turn of each session
  committed  \* the turns each session's history holds

Init ==
  /\ open = [s \in Sessions |-> NoTurn]
  /\ committed = [s \in Sessions |-> {}]

Begin(s, t) ==
  /\ open[s] = NoTurn
  /\ \A u \in committed[s] : u < t
  /\ open' = [open EXCEPT ![s] = t]
  /\ UNCHANGED committed

Commit(s) ==
  /\ open[s] \notin committed[s] \cup {NoTurn}
  /\ committed' = [committed EXCEPT ![s] = @ \cup {open[s]}]
  /\ UNCHANGED open

\* The turn has answered, failed, timed out or been cancelled.
End(s) ==
  /\ open[s] # NoTurn
  /\ open' = [open EXCEPT ![s] = NoTurn]
  /\ UNCHANGED committed

\* The process restarts: open turns are lost, committed ones are on disk.
Restart ==
  /\ open' = [s \in Sessions |-> NoTurn]
  /\ UNCHANGED committed

Next ==
  \/ \E s \in Sessions : Commit(s) \/ End(s) \/ \E t \in Turns : Begin(s, t)
  \/ Restart

Spec == Init /\ [][Next]_<<open, committed>>
=============================================================================
