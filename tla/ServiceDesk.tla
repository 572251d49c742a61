---------------------------- MODULE ServiceDesk -----------------------------
(***************************************************************************)
(* What the simulated office promises its clients, without the clock, the  *)
(* queues and the statistics.  Clients enter in the order of their arrival *)
(* and join for good one of the servers at which the fewest are to be      *)
(* called before them.  The servers work in rounds, in which each has one  *)
(* turn.  A client is called first come first served (the disabled first   *)
(* at a robotic server), is served alone and without interruption, and     *)
(* leaves; a server has the turn in which it loses a client, and every     *)
(* turn in which it has none, to call the first in line, and may not let   *)
(* it pass.  Simulation implements this specification.                     *)
(***************************************************************************)
EXTENDS Integers, FiniteSets

CONSTANTS
  NumClients,     \* clients are numbered in the order of their arrival
  Server,
  Robotic         \* the servers that call disabled clients first

Client == 1 .. NumClients

VARIABLES
  disabled,       \* the clients that have a disability
  stage,          \* how far each client has come
  desk,           \* the server a client that has entered has joined
  visited,        \* the servers that have had their turn in this round
  open            \* the office has not stopped working

vars == <<disabled, stage, desk, visited, open>>

Init ==
  /\ disabled \subseteq Client
  /\ stage = [c \in Client |-> "outside"]
  /\ desk = [c \in Client |-> 0]
  /\ visited = Server
  /\ open = TRUE

At(s, where) == {c \in Client : desk[c] = s /\ stage[c] = where}

\* Server s calls c before d.
Before(s, c, d) ==
  IF s \in Robotic /\ (c \in disabled) # (d \in disabled)
  THEN c \in disabled
  ELSE c < d

FirstInLine(s) ==
  {c \in At(s, "waiting") : \A d \in At(s, "waiting") \ {c} : Before(s, c, d)}

\* The clients waiting at server s that it would call before c.
Ahead(s, c) == {d \in At(s, "waiting") : Before(s, d, c)}

\* The disabled go to a robotic server if there is one.
Candidates(c) == IF c \in disabled /\ Robotic # {} THEN Robotic ELSE Server

\* Between two rounds client c enters, after all earlier ones, and joins
\* server s: no candidate has fewer clients ahead of it.
Enter(c, s) ==
  /\ open /\ visited = Server
  /\ stage[c] = "outside"
  /\ \A d \in 1 .. c - 1 : stage[d] # "outside"
  /\ s \in Candidates(c)
  /\ \A r \in Candidates(c) : Cardinality(Ahead(s, c)) <= Cardinality(Ahead(r, c))
  /\ stage' = [stage EXCEPT ![c] = "waiting"]
  /\ desk' = [desk EXCEPT ![c] = s]
  /\ UNCHANGED <<disabled, visited, open>>

BeginRound ==
  /\ open /\ visited = Server
  /\ visited' = {}
  /\ UNCHANGED <<disabled, stage, desk, open>>

\* The client being served, if any, leaves and the first in line, if any,
\* is called.
Proceeds(s) ==
  stage' = [c \in Client |->
              CASE c \in At(s, "served") -> "gone"
                [] c \in FirstInLine(s)  -> "served"
                [] OTHER                 -> stage[c]]

\* Only a service that goes on, or is repeated, keeps server s from calling
\* the first in line in its turn.
GoesOn(s) == At(s, "served") # {} /\ UNCHANGED stage

\* The turn of server s, after which the office may stop working.
Turn(s) ==
  /\ open /\ s \notin visited
  /\ Proceeds(s) \/ GoesOn(s)
  /\ \/ visited' = visited \cup {s} /\ open' = TRUE
     \/ visited' = Server /\ open' = FALSE
  /\ UNCHANGED <<disabled, desk>>

\* The office stops working for good, and be it in the middle of a round.
Close ==
  /\ open
  /\ visited' = Server /\ open' = FALSE
  /\ UNCHANGED <<disabled, stage, desk>>

Next ==
  \/ BeginRound
  \/ Close
  \/ \E s \in Server : Turn(s) \/ \E c \in Client : Enter(c, s)

Spec == Init /\ [][Next]_vars

=============================================================================
