--------------------------- MODULE MessageStream ---------------------------
(* What the transport between the compositor and Emacs promises, whatever   *)
(* the state of sockets and buffers. The compositor numbers its messages as *)
(* it produces them. What one connection delivers is a greeting and then an *)
(* unbroken run of messages; what is produced while there is no connection  *)
(* is held for the next one; only a connection that is cut loses anything,  *)
(* and then the last of what it had yet to deliver.                         *)
EXTENDS Naturals, Sequences

CONSTANT Links             \* connections, in the order they are made: 1 .. n

Greeting == 0              \* the message every connection starts with
None == 0                  \* no connection

VARIABLES
  produced,                \* how many messages there have been
  link,                    \* the connection messages go to, or None
  cut,                     \* the connections that take no more messages
  transit,                 \* connection -> what it has yet to deliver;
                           \* at None, what is held for the next one
  delivered                \* connection -> what it has delivered

vars == <<produced, link, cut, transit, delivered>>

Init ==
  /\ produced = 0
  /\ link = None
  /\ cut = {}
  /\ transit = [c \in Links \cup {None} |-> <<>>]
  /\ delivered = [c \in Links |-> <<>>]

\* What is left of a queue that loses its last messages.
Remainders(q) == {SubSeq(q, 1, n) : n \in 0 .. Len(q)}

\* A message goes to the connection in use, or is held if there is none.
Produce ==
  /\ link \notin cut
  /\ produced' = produced + 1
  /\ transit' = [transit EXCEPT ![link] = Append(@, produced')]
  /\ UNCHANGED <<link, cut, delivered>>

\* Producing a message is how a cut is noticed: the message goes with it.
ProduceInVain ==
  /\ link \in cut
  /\ produced' = produced + 1
  /\ link' = None
  /\ UNCHANGED <<cut, transit, delivered>>

Deliver(c) ==
  /\ transit[c] # <<>>
  /\ delivered' = [delivered EXCEPT ![c] = Append(@, Head(transit[c]))]
  /\ transit' = [transit EXCEPT ![c] = Tail(@)]
  /\ UNCHANGED <<produced, link, cut>>

\* A new connection takes over, and what was held goes to it.
Open(c) ==
  /\ delivered[c] = <<>> /\ transit[c] = <<>>
  /\ link' = c
  /\ cut' = IF link = None THEN cut ELSE cut \cup {link}
  /\ \E rest \in Remainders(transit[link]) :
       transit' = [transit EXCEPT
         ![link] = rest,
         ![None] = <<>>,
         ![c] = IF c \in cut THEN <<>> ELSE <<Greeting>> \o transit[None]]
  /\ UNCHANGED <<produced, delivered>>

Cut(c) ==
  /\ cut' = cut \cup {c}
  /\ \E rest \in Remainders(transit[c]) :
       transit' = [transit EXCEPT ![c] = rest]
  /\ link' \in IF c = link THEN {link, None} ELSE {link}
  /\ UNCHANGED <<produced, delivered>>

Next ==
  \/ Produce \/ ProduceInVain
  \/ \E c \in Links : Deliver(c) \/ Open(c) \/ Cut(c)

Spec == Init /\ [][Next]_vars
=============================================================================
