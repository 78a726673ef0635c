-------------------------- MODULE WhatsAppChannel --------------------------
(* The WhatsApp adapter: one connection to the Node.js bridge, read by one     *)
(* loop; the bridge reports the state of its own connection to WhatsApp.       *)
EXTENDS ChannelBase

Init ==
  /\ HostInit
  /\ self = [name |-> "whatsapp",
             seen |-> <<>>,         \* _processed_message_ids
             ws |-> "none",         \* _ws: none, open, or the object of a closed connection
             connected |-> FALSE]   \* _connected

Connect ==
  /\ self.ws # "open"
  /\ self' = [self EXCEPT !.ws = "open", !.connected = TRUE]
  /\ UNCHANGED <<tasks, pending, host>>

(* The bridge closes the connection: the loop over its messages just ends. An  *)
(* error resets both attributes.                                               *)
BridgeCloses ==
  /\ self.ws = "open" /\ tasks = {}
  /\ \/ self' = [self EXCEPT !.ws = "closed"]
     \/ self' = [self EXCEPT !.ws = "none", !.connected = FALSE]
  /\ UNCHANGED <<tasks, pending, host>>

BridgeStatus(up) ==
  /\ self.ws = "open" /\ tasks = {}
  /\ self.connected # up
  /\ self' = [self EXCEPT !.connected = up]
  /\ UNCHANGED <<tasks, pending, host>>

(* _handle_bridge_message of a message: known ids are left out.                *)
HandleBridgeMessage(e) ==
  /\ self.ws = "open" /\ tasks = {} /\ Arrives(e)
  /\ IF Knows(self.seen, e.id)
     THEN UNCHANGED <<self, tasks>>
     ELSE /\ self' = [self EXCEPT !.seen = Remember(@, e.id)]
          /\ tasks' = {[ev |-> e, pc |-> "publish"]}
  /\ UNCHANGED host

Publishes(t) ==
  /\ HandleMessage(t.ev, <<t.ev.id>>)
  /\ Ends(t)
  /\ UNCHANGED <<self, pending, turns, outbound, snd, shown, cut>>

(* send: nothing while not connected, else one frame to the bridge; an error   *)
(* is logged.                                                                  *)
Send ==
  /\ Doing("begin")
  /\ \/ self.connected /\ self.ws = "open" /\ Shows
     \/ Lost
  /\ GoesOn(<<>>)
  /\ UNCHANGED <<self, tasks, pending, inbound, turns, outbound, published, cut>>

Next ==
  \/ Host
  \/ Connect \/ BridgeCloses
  \/ \E up \in BOOLEAN : BridgeStatus(up)
  \/ \E e \in Events : HandleBridgeMessage(e)
  \/ \E t \in tasks : Publishes(t)
  \/ Send
=============================================================================
