# A verified model of AcaBSim

AcaBSim simulates an office in which clients, some of them disabled, queue for
standard and robotic servers. This directory holds TLA+ modules translated from
its C code, the configurations under which TLC checks them, and theorems about
them that TLAPS proves. `PROJECT.json` maps every definition to the lines of
`src/` it stands for.

Check a configuration with `tlc -config MCSetup1.cfg MCSetup1`, the proofs with
`tlapm QueueProofs.tla`, and likewise for SimulationProofs, ServerProofs, SumProofs,
StatisticsProofs, ClientInitProofs, CommandLineProofs and HashMapProofs.

## 1. The system

The program is one thread. `main` reads its parameters from the command line, builds
the table of service times, then runs 10000 independent tests; each draws its clients,
simulates them tick by tick and adds its means to a total. What is hard about it is
not concurrency but the order of the steps within a tick, state that lives on from
tick to tick (partly served clients, retries, counters), pointers that are handed from
container to container, and integers that are cut or wrap.

| component | state | operations | correct when |
|---|---|---|---|
| queue (`queue.c`) | array, size, capacity | init, push, pop, top, resize, iterate, free | it is a FIFO list, never leaves its allocation, reports a push it had to refuse |
| clients (`client.c`) | id, kind, `service_stat` | `clients_init`, setters, `client_finalize` | arrival times are distinct, increasing and before the end; every field is set |
| random draws (`utils.c`) | - | `exponential_sample`, `unifrom_sample` | the draws stay in their ranges, also at the ends of `rand` |
| service table (`hashmap.c`, `init_table`) | robin-hood buckets, load factor, growth power | new, set, get, delete, clear, resize, tuning, iterate | it is a map from kind to time; probing ends; a failed resize loses nothing |
| servers (`server.c`) | current client, time left to serve, finished clients, counters, one or two waiting queues | assign, load, tick, next client, finalize, retry, update statistics, free | clients are served first come first served (the disabled first at a robot), one at a time, without interruption, retried until a service succeeds; the counters add up |
| simulation loop (`system.c`) | clients to come, servers, clock | `get_client`, `assign_client`, `servers_update_serve_time`, `update_clients`, `compute_stats`, `simulate` | nobody is missed, lost or duplicated; every tick is accounted for once; the run ends |
| driver (`main.c`), totals (`stat.c`) | parameters, totals | `setup0`, `setup1`, `run_test`, `update_total_stats`, `finalize_stat` | every client is freed once; the averages are those of the tests |
| command line (`cflag.c`, `initialize_parameters`) | what is left of the arguments, the options' data, errno | `cflag_apply`, `cflag_parse`, one conversion per type | each option has its last value; what is wrong, and only that, is refused |
| logging (`erf_io.h`) | - | print | - |

The parts call each other directly: the loop takes clients from the queue that
`clients_init` filled, hands them to a server, and calls each server in turn; a
server moves a client pointer from a waiting queue to `current_client` and on to
its queue of finished clients, from which `compute_stats` reads it and
`server_free` frees it. The only callbacks are the hash, compare and free
functions. The sources of nondeterminism are `rand` and `malloc`/`realloc`.

## 2. The modules

**Fifo** is what `queue.h` promises: a list with enqueue and dequeue.

**Queue** is `queue.c` itself. `items` is the allocated array including cells that
were never written (`Junk`), and the loop of `queue_push` is run one iteration per
step (`PushBegin`, `PushShift`, `PushEnd`), so that its invariant can be stated and
proved. Pushes to a full array and shrinking pops each have a variant in which
`realloc` fails. `Contents` maps the array, also in the middle of the loop, to the
list of Fifo. Pushing NULL or to a NULL queue does not occur in the program.

**ServiceDesk** is what the office promises its clients. They enter in order and join
for good a server at which no more clients are ahead of them than at any other that
serves them (`Enter`): those waiting there that would be called before them, whoever is
being served not among them. The servers work in rounds (`BeginRound`), in each of which
every server has one `Turn`. In it a server with a client lets it leave and calls the
first in line (`Proceeds`), or the service goes on or is repeated (`GoesOn`); a server
without one calls the first in line, if there is one, and has no other choice. First in
line is who came first, the disabled before the others at a robotic server. Nobody is
interrupted. The office may stop for good (`Close`, or with a turn). It has no clock, no
queues and no counters. It is a safety specification without fairness: what it demands is
that no turn passes over a client, not that there are turns. That the rounds go on to the
end of the simulation is `Terminates`.

**Simulation** is one run of `simulate`: `system.c` and the parts of `server.c` and
`client.c` it calls. `pc` is where the run is: `begin` (entry of `simulate`),
`admit` (start of a tick), `serve` (after `get_client` and `assign_client`), `update`
(within `update_clients`, at server `turn`), `done` or `aborted` (an assertion, or a
crash). The actions are

| action | code |
|---|---|
| `Begin` | `simulate` up to its loop |
| `Admit`, `AdmitNobody` | `get_client`, `assign_client`, `server_assign_client` |
| `ServersUpdateServeTime` | `servers_update_serve_time`, `server_tick` of every server |
| `Finish` | `server_finalize_current_client`, `client_finalize`, `server_set_next_client`, `server_update_stat` |
| `Retry` | `server_retry`, `server_update_stat` |
| `Continue` | the turn of a server in the middle of a service |
| `StartNext` | the turn of an inactive server |
| `StartAborts` | the assertion of `robotic_server_set_next_client` |

A queue is a sequence, oldest first, as QueueProofs justifies; a push may fail at the
sizes in `FullSizes`. `rand` in `server_is_service_successful` is the choice between
`Finish` and `Retry`. `drawn` keeps what `clients_init` drew, because the program
itself forgets the arrival time (section 4); no action reads its arrival times.
The initial states are the queues `clients_init` can leave: distinct arrival times
in increasing order between 1 and the end. The `int` in which queue lengths are
summed wraps at `IntMax`; the other counters are bounded by the number of ticks.
The boost is a positive fraction. The boosted service time is a `double` that is cut to
an `int` (`Boosted`): to 0 when the boost exceeds the time, and to the smallest `int`
when no `int` can hold it, which is undefined in C and what x86 does. The table holds
times from 1 to `IntMax`.

**ClientInit** is `clients_init` with the draws of `utils.c`: one client per step
(`DrawClient`), until the next one would come too late (`Finish`). `rand` is a choice
from `Rand`, a part of `0 .. RandMax`, from which types and destinations follow by
the arithmetic of the code; only the logarithm is a parameter, `Log`. What
`ArrivalsAdmissible` says of its queue is what Init of Simulation assumes.

**Teardown** extends Simulation by what `setup0`, `setup1` and `run_test` do around
it: `heap` is the set of clients that are allocated, `todo` the containers that are
still to be freed, in the order `server_free` and `run_test` free them.

**Statistics** is `compute_stats` on any finished clients and queue lengths, one
server (`OpenServer`, `CloseServer`) or client (`CountClient`) per step. Sums wrap at
`IntMax`, the division of an `int` by a `size_t` is one of unsigned numbers, and the
memory for an iterator may be missing. Its `Results` are any servers whose finished
clients (`Places`) are no more than there were clients; `SimulationLeavesResult` says
that simulations leave nothing else, and each client at most once. **Tests** runs it as a part of the loop of
`main`: `ComputeStats` is a step of it, `UpdateTotalStats` adds the twelve results of
a test to the totals and starts the next test, whose simulation is a choice from
`Results`, and `FinalizeStat` divides by the number of tests. `exact` and `exceeded`
are history variables: the sums of the means without rounding, which are whole
multiples of 1/`Denominator`, and whether a sum has left the range from 0 to `IntMax`.

**CommandLine** is `cflag_apply` with `cflag_parse` and every conversion of `cflag.c`,
one turn of the parsing loop per step. An argument is a record of what the code can
tell of it: its hyphens, its name, the number it begins with and what follows.
`data` is what the options' pointers point to, `Junk` until an option writes it.
The two ways in which `argv` goes on are `Advance`; the ways in which parsing ends
are `ParseEnds`, `Undefined`, `ArgumentMissing`, `Help`, `RefuseArgument` and
`NegspecCrashes`. `Options` is a parameter, of which the array in
`initialize_parameters` (five numbers and the help) is one value. Its letters and
names differ, none begins with `no-`, and an `int` is no wider than a `long`; the
assumptions of the module say so of every `Options`.

**Dictionary** is what `hashmap.h` promises of a map whose calls are asked and
answered, and of `oom` only what the code keeps (section 4); **HashMap** is `hashmap.c`,
one iteration of each of its loops per step, named after what they do (`Insert...`,
`Rehash...`, `Find...`, `Shift...`). `Entries` finds the entries of the map in the middle of a swap, shift or rehash, and `Stage`
says where a call takes effect. `SetLoadFactor` and `SetGrowByPower` tune when and
how far the map grows; `Rehashed` takes over the threshold of the new array, which is
that of the default load factor. A call's arguments and result are forgotten when it
has returned. The program creates the table with capacity 8, which becomes 16, sets
its eight services and from then on only looks them up; the other calls are those of
the library's interface. Simulation uses the table as a function.

The modules meet at their states and not in one large specification: ClientInit
ends where Simulation begins (`ArrivalsAdmissible`), Simulation ends where Teardown and
Tests go on (`LeavesResult`), and Queue and HashMap justify the sequences and the
function they use. CommandLine ends where `main` begins its tests.

## 3. What is checked

The numbers of clients, ticks and kinds are the only bounds; within them TLC
explores every choice of arrival times, kinds, failures and allocations.

| run | instance | shows |
|---|---|---|
| `queue` | 3 items, up to 5 in the queue, initial capacity 2 (down to 1, up to 8) | FIFO, loop inside the array, results truthful, the loop ends |
| `setup0` | 2 standard servers, the real table, 3 clients of all 8 kinds, 22 ticks (the longest service takes 18) | service times, promise of ServiceDesk (who joins which server, and that every turn calls who is due), no assertion fails |
| `setup1` | 1 standard, 1 robot with boost 2, services of 4 and 5 ticks (5 is cut to 2), 5 clients with and without a disability, 11 ticks | all properties, with priority and both classes |
| `offices` | 2 standard, 2 robots with boost 2, services of 6, 4 and 1 ticks (1 is cut to none), 5 clients of three kinds in the first 6 of 10 ticks | the choice of a server with the fewest ahead, within and between the kinds, and the rest of the promise of ServiceDesk, also up to the failing assertion |
| `hash_map` | 4 keys with colliding homes at both ends of the array, 2 values, capacities 2, 4, 8, 16, 32, load factors that are cut to 95% or not a number, growth by 2 and 4 | a map, in robin-hood order, whose calls return; failed allocations |
| `teardown` | 1 standard, 1 robot, 4 clients, 8 ticks, pushes that may fail at size 1, a boost of 5/2 that cuts services of 2 ticks to none | lost clients disturb nobody else; nobody freed twice or left; runs end, also by the assertion |
| `client_init` | `rand` in 0 .. 5 with RAND_MAX = 6, clients 1 to 4 ticks apart, 5 ticks | arrivals that can be admitted; the loop ends |
| `tests` | 2 tests, 2 servers with up to 2 finished clients each, 5-bit `int`, 7-bit `size_t` | means of the types and of all in each test, and averages over the tests |
| `command_line` | an option of every type; all command lines of up to 3 of 23 arguments, and of 4 of 9; 8-bit `int`, 15-bit `long` | each option gets its last value; unknown and unfit arguments stop the program |

The real smallest capacity of a hash map is 16, the real `int` has 32 bits; both are
parameters, and the runs make them small so that their limits are reached.

The properties of Simulation are in the last section of the module, each with the
code it is about. `NoArrivalMissed` relates the head of `system_clients` to the
clock. `NoClientLost` and `NoClientTwice` are about `Places`, the set of all places
a client pointer is found at. `ServiceTimesAddUp`, `ServerStatsAddUp` and
`LittlesLaw` relate the counters of servers to the times recorded for clients: they
fail when any tick is dropped or counted twice anywhere in the loop.
`ImplementsServiceDesk` is refinement. The mapping is `Stage` and `Desk`, where each
client is found and at which server; `Visited`, the servers before `turn` while
`update_clients` is under way and all of them otherwise; and `open`, which is `~Stopped`.
A turn that finds the server free and leaves somebody waiting there is no step of
ServiceDesk, nor is one that is left out.
`Terminates` assumes weak fairness of the program's single thread (`WF_vars(Step)`),
which never blocks; likewise `PushCompletes`, `CallsReturn`, `TestEnds` and `Ends`
of a call that has begun; the loops of Tests and CommandLine only count down. Nothing
is assumed of callers: in Queue and HashMap nobody has to make another call.

Why the bounds are enough: the array of `queue` passes through every capacity from 1
to 8 and back, with the shift crossing each; in `hash_map` three keys share the last
bucket of four, so that probes wrap, entries are swapped and shifted over the end of
the array, and four keys cross both resize thresholds at several capacities, with
the default load factor and with the largest. The runs of Simulation hold
more clients than servers, so that queues form at each kind of server, and more ticks
than the last arrival and one service take; the ends of the run cut services and
queues at every point. `tests` has sums below and above its `IntMax`, within a test
and over both. Three arguments are an option with its value before or after another
option; the fourth, from a smaller choice, lets a first value that is too large
meet a later one through `errno`, and an option occur twice.

The properties of CommandLine compare the program with a reading of the command line
from its start, `Begins`, that knows nothing of `argc`, `argv` or the loop.

## 4. Where the code departs from its documentation

| run | what TLC finds |
|---|---|
| `wait_time` | `get_client` zeroes `arrival_time` with the rest of `service_stat`, so `wait_time` and `total_time` are measured from tick 0 |
| `fast_robot_aborts` | a boost above the smallest service time fails `assert (server->base.to_serve > 0)` |
| `disability_type` | when `rand` returns `RAND_MAX`, `unifrom_sample (0, 2)` is 3, the client keeps an unset `disability_type`, and its service time is read through NULL |

The comment of `hashmap_oom` (hashmap.c:504-505) is a fourth departure: it says that
the function tells whether the last `hashmap_set` failed, but `hashmap_delete` resets the
flag (hashmap.c:434), so that after a refused set and a delete it answers no. `Begin` of
HashMap models that; Dictionary does not promise it. There a delete may or may not reset
`oom`, and `ImplementsDictionary` says of `oom` that it is the outcome of the last set
until a key is deleted. The program does not call `hashmap_oom`.

Besides, the models show or contain what no document speaks about:

- `get_service_time` (server.c:167) converts `service_time / boost_rate` to an `int`
  without a test of its size. A tiny positive boost gives more than an `int` holds; the
  result is then negative in practice, and fails the assertion that a large boost fails
  too. `Boosted` models it; no run has such a boost, and `AssertionsHold` excludes it.
- `simulate` evaluates `standard_servers[0]->base` before it tests for a null system
  or one without servers; `Begin` therefore aborts when there are only robots, which
  neither setup is.
- `sum_queue_lens` (server.c:376) is an `int`. Some 200000 ticks of an overloaded
  office wrap it, and `assert (mean_server_queue_len >= 0)` fails. The runs keep
  below `IntMax`; Simulation aborts above it.
- `--no-` before a name that is no option reads `negspec->func` through NULL
  (cflag.c:198): `NegspecCrashes`.
- An argument such as `-T100` is neither a short nor a long flag and ends the options
  as a success (cflag.c:205); the options after it keep whatever the stack held.
- `errno` is never reset, so that a number too large for an earlier option makes a
  later real, or -1 as a number of bytes or seconds, be refused: the second half of
  `RefusedForCause`.
- The comment at hashmap.c:76 speaks of 50% and 90%, the code allows 95%; and a resize
  forgets the load factor that was set (hashmap.c:303).
- An average over the tests counts a test in which nobody of a type was served as one
  with waiting time 0 for that type.

## 5. What is proved

| module | extends | theorems |
|---|---|---|
| QueueProofs | Queue | `TypeCorrect`, `LoopInBounds`, `QueueIsFifo`, `ReturnsReport`, `PushIsFinite` |
| SimulationProofs | Teardown, Simulation | `TypeCorrect`, `ArrivalsAdmitted`, `SimulationIsFinite`, `EachClientOnce`, `EveryClientHeld`, `SimulationImplementsServiceDesk`, `FreedOnce`, `ReachedAreFreed`, `NoLeak`, `TestIsFinite` |
| SumProofs | - | lemmas about sums over finite sets |
| ServerProofs | SimulationProofs, SumProofs | `ServiceTimes`, `AssertionsHold`, `ServerStats`, `QueueLensAreWaits`, `SimulationLeavesResult` |
| StatisticsProofs | Tests, Statistics, SumProofs | `TypesMakeUpTotals`, `StatsAreMeans`, `QueueSizesAreMeans`, `AveragesAreMeansOfMeans` |
| ClientInitProofs | ClientInit | `ArrivalsAreAdmissible`, `DrawingIsFinite` |
| CommandLineProofs | CommandLine | `TypeCorrect`, `ArgumentsInStep`, `RefusalsHaveCause`, `LastUseWins`, `StopsAtUnknown` |
| HashMapProofs | HashMap | `TypeCorrect`, `KeepsRobinHood`, `HoldsEachKeyOnce`, `MapIsDictionary`, `CallsAreFinite` |

Everything about Simulation holds for any number of servers, clients and ticks, any
table of positive service times and any positive boost, under the assumptions named in the module and
for arrivals that are in order and distinct, as its Init says and as
`ArrivalsAreAdmissible` shows. What a theorem supposes beyond that is in its
statement. There are three such hypotheses:

| hypothesis | why it is there |
|---|---|
| `FullSizes = {}` | no push runs out of memory. A refused push loses its client (`system.c` and `server.c` do not look at the result), so that without it clients vanish, as run `teardown` shows |
| `NStandard > 0`, `BoostFits` | there is a standard server, as in `setup0` and `setup1`, and the boost leaves every kind of client a tick and none more than an `int` holds. Without the first `simulate` crashes, without the second an assertion of the robotic server fails (run `fast_robot_aborts` for a large boost) |
| `SumsFit` | `NumClients * SimulationTime <= IntMax`: the lengths of a server's queue add up to an `int`. There is at most one client per tick, so that with a 32-bit `int` this holds of every run of up to 46000 ticks |

### Queue

QueueProofs is for every set of items, initial capacity and sequence of calls. The
inductive invariant `IInv` says that the live elements, also those between the two
halves of a half-shifted array, are items, and that inside the loop there is a spare
cell (`LoopInv`); that spare cell is why index `size` is inside the array. The proof
has one lemma per action that gives both the invariant and the effect on the list, so
that `ReturnsReport` follows from the same lemmas: where the list grows or shrinks by
one it is another list (`ListsDiffer`), and there `ret` is 1.

### Simulation: arrivals

`NoArrivalMissed` is not inductive. The invariant `Inv` adds that clients leave
`system_clients` in the order of their numbers (`ComeInOrder`), so that the ones that
left are `Admitted`; that only those are in the queues and at the servers
(`OnlyAdmitted`), so that no update of a `service_stat` touches the arrival time of a
client still to come; that such a client arrives no earlier than the next tick at
which somebody can be admitted (`NextAdmission`); and that the clock is below its end
inside the loop (`ClockInv`). There is one lemma per action; those of a server's turn
share `TurnKeepsInv`.

### Simulation: places and the promise of ServiceDesk

`PlacesInv` adds to `Inv` that each queue of waiting clients is in the order of
arrival and each queue of a robot holds its own kind (`QueuesInOrder`), that no two
of a server's queues, its current and its finished clients, and no two servers, have
a client in common (`OnePlaceEach`), and, while no push fails, that every admitted
client is at a server (`AdmittedAreHeld`). `EachClientOnce` holds with failing
pushes too; `EveryClientHeld` cannot.

The refinement goes step by step. An initial state maps to one of ServiceDesk
(`InitIsInit`); `Admit` maps to the desk's `Enter`, `ServersUpdateServeTime` to
`BeginRound`, or to `Close` where its assertion fails, the turn of a server, whatever it
does there, to the desk's `Turn` of that server, and `StartAborts` and other ends of the
run to `Close`; the remaining steps are stutters (`StepIsDeskStep`). A turn is always that
of a server and starts with the first (`TurnIsServers`), so that `Visited` grows by that
server and is complete after the last one. Three lemmas say what a turn did to the
clients: `FinishProceeds`, `StartNextProceeds` and `ServiceGoesOn`. The order in
which a server calls is where `QueuesInOrder` is needed: the head of the queue that the
code pops is the desk's `FirstInLine`, because the queues are in the order of arrival.
The load by which `assign_client` compares servers is the number of clients ahead
(`LoadIsAhead`): that of a queue without repeats is its length, and a client just
arriving has a higher number than all that wait.

### Simulation: times, assertions and statistics

`TimesInv` states the time of a client from its start up to the last update, less
what is left `to_serve`, as the number of attempts times the length of one; with
`Ticks`, the number of updates so far, it says the same of the finished and of the
current clients. That who waits has not failed yet (`WaitingAreFresh`) starts it off.

`RunsInv` says that the run is not aborted, that a service in progress has time left
(`ServicesRun`), and that the sum of the queue lengths is at most the number of
updates times that of the clients (`SumsBounded`), which is where `SumsFit` comes in:
the mean of an `int` that has not wrapped is not negative.

`StatsInv` adds the counters of the servers: active and idle ticks make up the
clock, the active ones are the sum of the times at the server of all it has called,
its failures the sum of theirs. `LawInv` is Little's law at every step: the lengths
added up so far are the sum over the clients of the ticks each has waited so far.
Both rest on the lemmas of SumProofs about `SumFunction` over a finite set: what it is
for one element more, and that adding 1 to the values of a subset adds the size of the
subset. The library's induction theorems cannot be applied here, so these are proved
by a smallest counterexample: among the subsets for which the claim fails there is a
minimal one (`SmallestSubset`), since strict inclusion in a finite set is well founded.

`SimulationLeavesResult` is what Statistics assumes of the end of a simulation, also
when pushes fail: `total_clients` is the number of clients, and the finished clients
of all servers are different and no more than that. Each finished client is in one place,
so that the places are injected into the clients (`FinishedFit`). By `ServedInv` the
finished clients of a server are at most its `client_served`: the counter goes up
before the push that may lose the client, and without failing pushes the two are equal.

### Teardown

`FreedInv` says that the containers in `todo` are different, that `heap` is what the
containers no longer in `todo` do not hold (`Unfreed`), and that before the end of
the simulation all are in `todo`. Each client being in
one place (`PlacesInv`) then means that the containers share no client, and a
container no client twice. `Containers` and `Held` concatenate sequences with the
fold `FlattenSeq`; its recursion, elements and absence of repeats are lemmas, again
by a smallest counterexample. `NoLeak` puts the parts together: without failing
pushes the heap is empty when everything has been freed.

### Statistics

`TypesMakeUpTotals` is about sums that wrap. `ToInt` of a sum is that of the sum of the
`ToInt`s of its parts (`ToIntAdds`), so that the sums of the types make up that of all
modulo the range of `int`, without a bound on anything.

The invariant `StatInv` follows the loops over the servers and their clients: `count`,
`wait` and `serve` are the wrapped number and sums of the places `Reached` so far
(`TimesAdded`), those of the servers opened before and those before `index` in the
current one, and `total_queue_len` that of the servers asked so far (`QueueLensAdded`).
At the end what was reached is `Counted`. A count does not wrap because it is at most
`total_clients`, an `int`; a sum in the range of `int` is what it is stored as. The
quotients are then means, with the rounding towards 0 for either sign; that of an
`int` and a `size_t` is one as long as the `int` is not negative.

For `AveragesAreMeansOfMeans`, `TotalsInv` says that as long as nothing has been
exceeded each total is at most the sum of the exact means, and behind it by at most one
per test. A mean that is cut to a whole number is at most the exact mean and at most one
below it, also when the exact one is given in the finer unit of 1/`Denominator`
(`FinerQuotient`); the last division loses less than one more.

### Clients and command line

`ArrivalsAreAdmissible` holds for any probabilities, logarithm, end of the run and
failing pushes, under the assumption that `rand` does not return `RAND_MAX`. Without
it the theorem is false: the logarithm of 0 makes `exponential_sample` negative.

CommandLineProofs is for any options, command lines and widths of `int` and `long`.
The inductive invariant of the first three theorems adds `LoopInv`: while options
are being read, errno is set only if an argument before `argv` is an integer out of
range, and a command line that is refused has an argument at `argv`, so that its
refusal can be traced to one. `LastUseWins` and `StopsAtUnknown` are about `Begins`,
the reading of the command line from its start. `ReadInv` says that as long as
nothing is wrong an option or the end begins at `argv`, that no option waits there
for its argument, that only known options lie before it, and that each option's
`data` is what its last use before `argv` says. `Begins` is a recursive function;
that there is a function with its equation is proved from the smallest set of places
closed under the step from an option to the next (`PlacesExist`, `ReadingExists`).

### Hash map

HashMapProofs is for any keys and hashes, any smallest and first capacity, load
factors and growth powers, and whatever allocations fail. A capacity is the smallest
one doubled some times (`Size`), so that the mask of `hashmap.c` is a remainder;
what the recursive `RoundUp` returns is proved by a smallest counterexample.

The probes go around a ring of buckets. `Dist` is the way from a home to a bucket,
`Ahead` and `Behind` are the neighbours, and a few lemmas say how they combine; no
later proof looks into the remainder again. `InOrder` is the order of `RobinHood` in
these terms. It compares neighbours only; that no bucket on the way from its home to
an entry is free, or holds an entry much nearer to its own home, follows along the
way (`Chain`), and from it that a search may stop where it does (`NotThere`) and that
what is carried is never carried around, because some bucket is free (`CarriedOn`).

The inductive invariant `MapInv` adds to the types the thresholds (`SizeInv`) and
one part per loop: what the search has passed without finding the key (`FindInv`);
that the entry that an insertion carries fits into the bucket it is at and that a
bucket is free for it (`InsertInv`);
that the order holds but for the hole that a deletion moves (`ShiftInv`, with
`InOrderBut`); and that the two arrays of a rehash share no key and together hold
`count` entries (`RehashInv`). One lemma per action keeps all of it.

The refinement needs `CarryInv` besides: the entry that an insertion puts down
is not met again by the one it displaced, as all buckets between them are occupied.
`Content` is what is in the map in the middle of any loop, as a set of keys with
their values; the function `Dict` of the mapping is determined by it
(`DictRepresents`), so that it is enough to follow the content. `Begin` maps to the
`Ask` of Dictionary and `Return` to its `Return`. A get and a delete answer where the
search ends, a set where its own entry is put down or its value is written or when no
memory is found, the other calls in their one step; displacing, shifting and
rehashing change neither content nor answer (`StepIsDictStep`).

### How long things take

Liveness under fairness rests on ENABLED, which the provers do not reason about. What
is proved instead is that there is no infinite work: a measure that every step makes
smaller, along a well-founded order. With it the liveness properties only need that
some step can be taken as long as a call or a run is not over, and that TLC checks.

A tick of a simulation has a fixed number of steps, `TickSteps`, so that `StepsLeft` is
a number; it needs that a turn is that of a server (`TurnIsServers`). A test has besides
one step per container (`TestIsFinite`), a `queue_push` the iterations up to `size`
(`PushIsFinite`), and `clients_init` the ticks from the last arrival to the end, of
which each client takes one at least, as `exponential_sample` is positive unless `rand`
returns `RAND_MAX` (`DrawingIsFinite`).

A call of the hash map goes through phases that never come back (`Phase`); within a
rehash the old buckets to visit get fewer (`Turns`); within a probe, a displacement or
a shift the way around the ring to the nearest free bucket gets shorter (`Probes`). That
there is a free bucket is where the thresholds come in (`EndsAhead`): there are fewer
entries than buckets. A displacement leaves the set of free buckets as it is, and so
does a shift, when the bucket of its hole is not counted (`ProbingIsCloser`,
`ShiftingIsCloser`).

### What is only model-checked

- Liveness (`Terminates`, `PushCompletes`, `CallsReturn`, `TestEnds`, `Ends`), beyond the
  measures above: it rests on ENABLED.
- The three violations of section 4, whose counterexamples are TLC's.

Every other property of the runs is stated by a theorem.

## 6. Plan

Done: Queue and Fifo; Simulation and ServiceDesk; Teardown and ClientInit; CommandLine;
HashMap and Dictionary; Statistics and Tests. All their safety properties and the three
refinements are proved, and of their liveness what can be.

Left, should the program come to use them: iteration over the hash map, which yields
every entry once unless entries are deleted meanwhile (hashmap.c:540), and a boost that
is zero or negative.

## 7. Not modelled

Iteration over the hash map (`hashmap_scan`, `hashmap_iter`), `hashmap_probe`, the
freeing of elements and its custom allocators, which the program does not use; the
16 bits of `dib`, which more than 65535 keys in one run of full buckets would exceed (the
theorems about the map are about a `dib` without a limit; the program has eight keys), and
the rounding of load factors in `double`s; the
byte hashes of `hashmap.c`, whose result is the parameter `Hash`, and its tests;
printing and logging, the usage text of `cflag_usage` among it; the floating-point
arithmetic behind probabilities (the outcomes are choices, or parameters in
ClientInit) and the conversion of digits by `sscanf` and `strtoull` (an argument is
given as the number it begins with, and integers with a leading 0, which the two
read differently, do not occur); failures of `malloc` in `client_new` and the
constructors, which crash or exit at once; boost rates that are zero or negative, and
the other parameters that `main` uses without having set them when they are missing
on the command line.
