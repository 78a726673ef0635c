-------------------------- MODULE SubagentManager --------------------------
(***************************************************************************)
(* The background subagents of src/nanobot/agent/subagent.py: spawned by a *)
(* turn, run on their own, announce their result to the inbound queue as a *)
(* system message, and are cancelled by session.                           *)
(*                                                                         *)
(* A component of AgentLoop, which gives each action its caller.           *)
(***************************************************************************)
EXTENDS Naturals

CONSTANTS
  Subagents,  \* identities available to spawn
  Origins     \* the chats a subagent reports to; also its session key

VARIABLES
  sub,      \* state of each subagent's task
  origin,   \* origin channel and chat, fixed at spawn
  subCancel \* the subagents whose task has a cancellation requested

subVars == <<sub, origin, subCancel>>

SubTypeOK ==
  /\ sub \in [Subagents -> {"idle", "running", "announcing", "done"}]
  /\ origin \in [Subagents -> Origins]
  /\ subCancel \subseteq Subagents

SubInit ==
  /\ sub = [s \in Subagents |-> "idle"]
  /\ origin \in [Subagents -> Origins]
  /\ subCancel = {}

SubLive(s) == sub[s] \in {"running", "announcing"}

\* The tasks registered in _session_tasks under a session key.
SessionTasks(chat) == {s \in Subagents : SubLive(s) /\ origin[s] = chat}

-----------------------------------------------------------------------------

Spawn(s, chat) ==
  /\ sub[s] = "idle"
  /\ sub' = [sub EXCEPT ![s] = "running"]
  /\ origin' = [origin EXCEPT ![s] = chat]
  /\ UNCHANGED subCancel

\* The graph of the subagent ends, with a result or an exception: both are
\* announced.
RunEnds(s) ==
  /\ sub[s] = "running"
  /\ s \notin subCancel
  /\ sub' = [sub EXCEPT ![s] = "announcing"]
  /\ UNCHANGED <<origin, subCancel>>

\* publish_inbound has accepted the announcement: the task is over.
Announced(s) ==
  /\ sub[s] = "announcing"
  /\ s \notin subCancel
  /\ sub' = [sub EXCEPT ![s] = "done"]
  /\ UNCHANGED <<origin, subCancel>>

\* CancelledError is no Exception: nothing is announced.
CancelLands(s) ==
  /\ SubLive(s)
  /\ s \in subCancel
  /\ sub' = [sub EXCEPT ![s] = "done"]
  /\ UNCHANGED <<origin, subCancel>>

CancelBySession(chat) ==
  /\ subCancel' = subCancel \cup SessionTasks(chat)
  /\ UNCHANGED <<sub, origin>>

\* The process image is replaced: what ran is gone.
SubsLost ==
  /\ sub' = [s \in Subagents |-> IF SubLive(s) THEN "done" ELSE sub[s]]
  /\ UNCHANGED <<origin, subCancel>>
=============================================================================
