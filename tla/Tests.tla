------------------------------- MODULE Tests --------------------------------
(***************************************************************************)
(* The loop of main (src/src/main.c) over independent tests: every test    *)
(* leaves some result, whose statistics compute_stats fills in;            *)
(* update_total_stats adds them to the total, which finalize_stat divides  *)
(* by the number of tests (src/src/stat.c).  The fields of the totals are  *)
(* ints and wrap.                                                          *)
(***************************************************************************)
EXTENDS Statistics

CONSTANTS
  TestCount,    \* TEST_COUNT
  Denominator   \* of exact means: a multiple of all numbers that are divided by

ASSUME TestCountAssumption == TestCount \in Nat \ {0}
ASSUME DenominatorAssumption ==
  /\ Denominator \in Nat \ {0}
  /\ Denominator % NumServers = 0
  /\ \A r \in Results : \A n \in 1 .. Cardinality(Places(Server, r.finished)) :
       Denominator % n = 0

VARIABLES
  test,         \* i
  total_stats,
  exact,        \* history: the sums of the exact means of all tests, as multiples
                \* of 1/Denominator
  exceeded      \* history: whether a sum has left the ints that are not negative

testsVars == <<vars, test, total_stats, exact, exceeded>>

TestsInit ==
  /\ Init
  /\ test = 0
  /\ total_stats = [f \in Field |-> 0]
  /\ exact = [f \in Field |-> 0]
  /\ exceeded = FALSE

\* compute_stats of the current test
ComputeStats ==
  /\ OpenServer \/ CountClient \/ CloseServer
  /\ UNCHANGED <<test, total_stats, exact, exceeded>>

-----------------------------------------------------------------------------
\* What the means of the test are when nothing is rounded.
ExactSum(f) ==
  CASE f[1] = "total_clients" -> total_clients
    [] f[1] = "mean_queue_size" -> SumFunction(mean_server_queue_len)
    [] f[1] = "mean_wait_time" -> Waited(f[2])
    [] f[1] = "mean_serve_time" -> Served(f[2])
ExactCount(f) ==
  CASE f[1] = "total_clients" -> 1
    [] f[1] = "mean_queue_size" -> NumServers
    [] OTHER -> Cardinality(Counted(f[2]))
ExactMean(f) ==
  IF ExactCount(f) = 0 THEN 0 ELSE (ExactSum(f) * Denominator) \div ExactCount(f)

NextTestKeeping ==
  /\ \E r \in Results :
       /\ total_clients' = r.clients
       /\ finished' = r.finished
       /\ mean_server_queue_len' = r.queue_len
  /\ pc' = "open" /\ server' = 1 /\ index' = 1 /\ opened' = {}
  /\ UNCHANGED <<total_queue_len, count, wait, serve>>

\* run_test again, with accumulators that start at 0
NextTest ==
  /\ \E r \in Results :
       /\ total_clients' = r.clients
       /\ finished' = r.finished
       /\ mean_server_queue_len' = r.queue_len
  /\ pc' = "open" /\ server' = 1 /\ index' = 1 /\ opened' = {}
  /\ total_queue_len' = 0
  /\ count' = [g \in Group |-> 0]
  /\ wait' = [g \in Group |-> 0]
  /\ serve' = [g \in Group |-> 0]

UpdateTotalStats ==
  /\ pc = "done"
  /\ total_stats' = [f \in Field |-> ToInt(total_stats[f] + Stat[f])]
  /\ exact' = [f \in Field |-> exact[f] + ExactMean(f)]
  /\ exceeded' = (exceeded \/ \E f \in Field : \/ ExactSum(f) \notin 0 .. IntMax
                                               \/ total_stats[f] + Stat[f] > IntMax)
  /\ test' = test + 1
  /\ \/ test + 1 < TestCount /\ NextTest
     \/ test + 1 = TestCount /\ pc' = "finalize"
        /\ UNCHANGED <<server, index, inputs, total_queue_len, count, wait, serve, opened>>

\* finalize_stat, and the end of main
FinalizeStat ==
  /\ pc = "finalize"
  /\ total_stats' = [f \in Field |-> Quotient(total_stats[f], TestCount)]
  /\ pc' = "over"
  /\ UNCHANGED <<server, index, inputs, total_queue_len, count, wait, serve, opened>>
  /\ UNCHANGED <<test, exact, exceeded>>

MainStep == ComputeStats \/ UpdateTotalStats \/ FinalizeStat

TestsNext == MainStep \/ (pc = "over" /\ UNCHANGED testsVars)

TestsSpec == TestsInit /\ [][TestsNext]_testsVars

-----------------------------------------------------------------------------
\* What main prints are the means over the tests of the means of each test,
\* unless a sum has exceeded an int or been negative.  Two roundings, each
\* down, lose less than two of them; a test in which nobody of a type was
\* served counts as one in which those did not wait (stat.c:4-20, 41-57,
\* main.c:134-141).
AveragesAreMeans ==
  pc = "over" /\ ~exceeded => \A f \in Field :
    /\ total_stats[f] * TestCount * Denominator <= exact[f]
    /\ exact[f] < (total_stats[f] + 2) * TestCount * Denominator

=============================================================================
