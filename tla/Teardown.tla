------------------------------ MODULE Teardown ------------------------------
(***************************************************************************)
(* One test of main.c and the memory of its clients: run_test allocates    *)
(* them, setup0 or setup1 simulates, frees every server with the clients   *)
(* it holds, and run_test frees those that never came.                     *)
(***************************************************************************)
EXTENDS Simulation

VARIABLES
  heap,       \* the clients that are allocated
  todo        \* the containers that are still to be freed, in order

testVars == <<vars, heap, todo>>

\* What server_free frees of server s, in the order it does.
ServerFree(s) ==
  <<<<"finished", s>>, <<"current", s>>>> \o
  IF s \in Standard THEN <<<<"client", s>>>>
  ELSE <<<<"normal", s>>, <<"disable", s>>>>

\* The servers are freed in the order setup0 and setup1 made them, the
\* clients still to come last.
Containers == FlattenSeq([s \in Server |-> ServerFree(s)]) \o <<<<"system", 0>>>>

HeldButCurrent(c) ==
  LET s == c[2] IN
  CASE c[1] = "finished" -> finished_clients_queue[s]
    [] c[1] = "current"  -> <<>>
    [] c[1] = "client"   -> client_queue[s]
    [] c[1] = "normal"   -> normal_client_queue[s]
    [] c[1] = "disable"  -> disable_client_queue[s]
    [] c[1] = "system"   -> system_clients

\* The client pointers in container c, which are passed to free one by one.
Held(c) ==
  LET s == c[2] IN
  CASE c[1] = "finished" -> finished_clients_queue[s]
    [] c[1] = "current"  ->
         IF current_client[s] = NoClient THEN <<>> ELSE <<current_client[s]>>
    [] c[1] = "client"   -> client_queue[s]
    [] c[1] = "normal"   -> normal_client_queue[s]
    [] c[1] = "disable"  -> disable_client_queue[s]
    [] c[1] = "system"   -> system_clients

TestInit == Init /\ heap = Client /\ todo = Containers

Simulate == Step /\ UNCHANGED <<heap, todo>>

\* queue_free of the next container, or free of a current_client.
FreeNext ==
  /\ pc = "done" /\ todo # <<>>
  /\ heap' = heap \ ToSet(Held(Head(todo)))
  /\ todo' = Tail(todo)
  /\ UNCHANGED vars

Over == pc = "aborted" \/ todo = <<>>

TestStep == Simulate \/ FreeNext

TestNext == TestStep \/ (Over /\ UNCHANGED testVars)

TestSpec == TestInit /\ [][TestNext]_testVars /\ WF_testVars(TestStep)

-----------------------------------------------------------------------------
\* No client is freed twice, neither by two containers that both hold it nor
\* by one that holds it twice, however little memory there was on its way
\* (server.c:461-482, main.c:103).
NoDoubleFree ==
  [][todo' # todo =>
       /\ ToSet(Held(Head(todo))) \subseteq heap
       /\ IsInjective(Held(Head(todo)))]_testVars

\* A test frees all its clients, wherever the end of the simulation found
\* them, but for those that a push without memory had lost before.
AllFreed == todo = <<>> => heap = {c \in Client : Places(c) = {}}

\* A test that is not aborted gets to its end.
TestEnds == <>Over

=============================================================================
