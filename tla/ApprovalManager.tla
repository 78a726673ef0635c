-------------------------- MODULE ApprovalManager --------------------------
(***************************************************************************)
(* The approval workflow of src/nanobot/security/sandbox.py: a turn that   *)
(* wants to run a guarded tool publishes a prompt and waits on an          *)
(* asyncio.Event stored under a session key; the agent loop answers the    *)
(* event from the user's yes/no message.                                   *)
(*                                                                         *)
(* A component of AgentLoop: every action below is conjoined there with    *)
(* the step of the turn or of the loop that calls it.                      *)
(***************************************************************************)
EXTENDS Naturals

CONSTANTS
  Chats,    \* the "channel:chat_id" pairs; also the session keys of chats
  CronKey,  \* the session key of a turn started by process_direct
  Tasks,    \* the turns, numbered by the message that starts them
  NoTask,   \* no entry in _pending_events
  NoKey     \* a turn that waits for no approval

SessionKeys == Chats \cup {CronKey}

VARIABLES
  bound,      \* the fields _session_key and _channel/_chat_id
  events,     \* _pending_events: the turn whose Event is stored under a key
  decisions,  \* _pending_decisions
  asked,      \* the local sk of a turn inside check_and_request
  answered,   \* the turns whose Event is set
  yeses,      \* history: the replies that said yes, by key
  grants      \* history: the guarded tools let through, by key

approvalVars == <<bound, events, decisions, asked, answered, yeses, grants>>

ApprovalTypeOK ==
  /\ bound \in [key: SessionKeys \cup {NoKey}, chat: Chats \cup {NoKey}]
  /\ events \in [SessionKeys -> Tasks \cup {NoTask}]
  /\ decisions \in [SessionKeys -> {"none", "yes", "no"}]
  /\ asked \in [Tasks -> SessionKeys \cup {NoKey}]
  /\ answered \subseteq Tasks
  /\ yeses \in [SessionKeys -> Nat] /\ grants \in [SessionKeys -> Nat]

ApprovalInit ==
  /\ bound = [key |-> NoKey, chat |-> NoKey]
  /\ events = [k \in SessionKeys |-> NoTask]
  /\ decisions = [k \in SessionKeys |-> "none"]
  /\ asked = [i \in Tasks |-> NoKey]
  /\ answered = {}
  /\ yeses = [k \in SessionKeys |-> 0] /\ grants = [k \in SessionKeys |-> 0]

-----------------------------------------------------------------------------

\* bind also sets the ContextVars, which check_and_request reads only when
\* the fields are None: after the first bind of the process, never.
Bind(key, chat) ==
  /\ bound' = [key |-> key, chat |-> chat]
  /\ UNCHANGED <<events, decisions, asked, answered, yeses, grants>>

\* check_and_request up to the wait: a fresh Event under the bound key, over
\* whatever Event was there.
Request(i) ==
  /\ asked' = [asked EXCEPT ![i] = bound.key]
  /\ events' = [events EXCEPT ![bound.key] = i]
  /\ answered' = answered \ {i}
  /\ UNCHANGED <<bound, decisions, yeses, grants>>

HasPending(key) == events[key] # NoTask

Respond(key, decision) ==
  /\ decisions' = [decisions EXCEPT ![key] = decision]
  /\ events' = [events EXCEPT ![key] = NoTask]
  /\ answered' = IF HasPending(key) THEN answered \cup {events[key]} ELSE answered
  /\ yeses' = IF decision = "yes" THEN [yeses EXCEPT ![key] = @ + 1] ELSE yeses
  /\ UNCHANGED <<bound, asked, grants>>

\* Mutant: pop(sk, True), a missing decision counts as approval.
ApprovedByDefault(key) == decisions[key] # "no"

\* pop(sk, False): a missing decision counts as refusal.
Approved(key) == decisions[key] = "yes"

\* The wait returns: the decision under the turn's key is popped.
Answered(i) ==
  /\ i \in answered
  /\ grants' = IF Approved(asked[i]) THEN [grants EXCEPT ![asked[i]] = @ + 1] ELSE grants
  /\ decisions' = [decisions EXCEPT ![asked[i]] = "none"]
  /\ asked' = [asked EXCEPT ![i] = NoKey]
  /\ answered' = answered \ {i}
  /\ UNCHANGED <<bound, events, yeses>>

\* approval_timeout_s passes: both entries of the key go, whoever owns them.
Expired(i) ==
  /\ i \notin answered
  /\ events' = [events EXCEPT ![asked[i]] = NoTask]
  /\ decisions' = [decisions EXCEPT ![asked[i]] = "none"]
  /\ asked' = [asked EXCEPT ![i] = NoKey]
  /\ UNCHANGED <<bound, answered, yeses, grants>>

\* The turn is cancelled or timed out while it waits: only TimeoutError of
\* the wait itself is caught, so the entries stay.
Abandoned(i) ==
  /\ asked' = [asked EXCEPT ![i] = NoKey]
  /\ UNCHANGED <<bound, events, decisions, answered, yeses, grants>>

\* The process image is replaced.
ApprovalsLost ==
  /\ bound' = [key |-> NoKey, chat |-> NoKey]
  /\ events' = [k \in SessionKeys |-> NoTask]
  /\ decisions' = [k \in SessionKeys |-> "none"]
  /\ asked' = [i \in Tasks |-> NoKey]
  /\ answered' = {}
  /\ UNCHANGED <<yeses, grants>>

\* A guarded tool runs for each yes at most once, and never without one,
\* though requests of several turns may meet under one key, an expiring
\* request pops the answer meant for another, and answers outlive the turn
\* that asked.
OneYesOneGrant == \A k \in SessionKeys : grants[k] <= yeses[k]
=============================================================================
