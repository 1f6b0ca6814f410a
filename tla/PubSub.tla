------------------------------- MODULE PubSub -------------------------------
(***************************************************************************)
(* What the publish/subscribe core promises, without channels, buffers,    *)
(* reference counts, wakeups or libuv: a name has at most one publisher,   *)
(* and a subscriber is handed, in order and with their own contents,       *)
(* exactly the messages broadcast under its name since it subscribed.      *)
(***************************************************************************)
EXTENDS Naturals, Sequences

CONSTANTS
  Conns,      \* the connections
  Names,      \* the channel names
  Payloads,   \* the contents of a media message
  NoConn      \* "no publisher"

VARIABLES
  publisher,  \* publisher[n]: the connection that publishes n, or NoConn
  audience,   \* audience[n]: the connections subscribed to n
  inbox       \* inbox[c]: the messages broadcast to c and not yet handed to it

vars == <<publisher, audience, inbox>>

Begin    == [type |-> "begin"]
Done     == [type |-> "done"]
Media(p) == [type |-> "media", data |-> p]

Init ==
  /\ publisher = [n \in Names |-> NoConn]
  /\ audience  = [n \in Names |-> {}]
  /\ inbox     = [c \in Conns |-> <<>>]

(* A connection plays at most one part, under at most one name.              *)
Idle(c) == \A n \in Names : publisher[n] # c /\ c \notin audience[n]

Broadcast(n, m) ==
  inbox' = [c \in Conns |-> IF c \in audience[n] THEN Append(inbox[c], m) ELSE inbox[c]]

Publish(c, n) ==
  /\ Idle(c)
  /\ publisher[n] = NoConn
  /\ publisher' = [publisher EXCEPT ![n] = c]
  /\ Broadcast(n, Begin)
  /\ UNCHANGED audience

Send(c, n, p) ==
  /\ publisher[n] = c
  /\ Broadcast(n, Media(p))
  /\ UNCHANGED <<publisher, audience>>

Unpublish(c, n) ==
  /\ publisher[n] = c
  /\ publisher' = [publisher EXCEPT ![n] = NoConn]
  /\ Broadcast(n, Done)
  /\ UNCHANGED audience

Subscribe(c, n) ==
  /\ Idle(c)
  /\ audience' = [audience EXCEPT ![n] = @ \cup {c}]
  /\ UNCHANGED <<publisher, inbox>>

Deliver(c) ==
  /\ inbox[c] # <<>>
  /\ inbox' = [inbox EXCEPT ![c] = <<>>]
  /\ UNCHANGED <<publisher, audience>>

(* Leaving drops whatever was not delivered yet.                             *)
Unsubscribe(c, n) ==
  /\ c \in audience[n]
  /\ audience' = [audience EXCEPT ![n] = @ \ {c}]
  /\ inbox' = [inbox EXCEPT ![c] = <<>>]
  /\ UNCHANGED publisher

Next ==
  \E c \in Conns :
    \/ Deliver(c)
    \/ \E n \in Names :
         \/ Publish(c, n) \/ Unpublish(c, n)
         \/ Subscribe(c, n) \/ Unsubscribe(c, n)
         \/ \E p \in Payloads : Send(c, n, p)

Spec == Init /\ [][Next]_vars

=============================================================================
