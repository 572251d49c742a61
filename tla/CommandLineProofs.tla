------------------------- MODULE CommandLineProofs --------------------------
(***************************************************************************)
(* Proofs about the reading of a command line, for any options, arguments  *)
(* and widths of the integers: the types of what is stored, that argc and  *)
(* argv stay in step, why an argument is refused, that the last use of an  *)
(* option is the one that counts, and that nothing unknown is passed over. *)
(***************************************************************************)
EXTENDS CommandLine, SequenceTheorems, WellFoundedInduction, TLAPS

\* An integer before place m set errno.
Cause(m) == \E n \in 1 .. m - 1, t \in {"int", "uint"} : OutOfRange(t, args[n])

\* In the loop nothing has gone wrong yet, and whatever errno holds was left
\* by an integer; a complaint is about an argument that is there.
LoopInv ==
  /\ pc = "parse" => status = "OK" /\ (errno => Cause(argv))
  /\ argv + argc = Len(args) + 1
  /\ status \notin {"OK", "SHOW_HELP"} => argc > 0

Inv == TypeOK /\ LoopInv /\ InStep /\ RefusedForCause

\* A remainder is smaller than what one divides by.
LEMMA Remainder ==
  ASSUME NEW a \in Int, NEW b \in Nat
  PROVE  a % (b + 1) \in 0 .. b
OBVIOUS

\* The widths of the integers are numbers.
LEMMA Widths ==
  /\ IntMax \in Nat /\ UIntMax \in Nat /\ UIntMax = 2 * IntMax + 1
  /\ LongMax \in Nat /\ ULongMax \in Nat
BY WidthAssumption DEF UIntMax, ULongMax

\* The arguments have integers or none.
LEMMA Numbers ==
  ASSUME NEW a \in Argument, a.number # None
  PROVE  a.number \in Int
BY ArgumentAssumption

\* strtol returns a long and strtoull an unsigned long.
LEMMA Longs ==
  ASSUME NEW a \in Argument
  PROVE  /\ a.number # None => Long(a) \in Int
         /\ UnsignedLong(a) \in 0 .. ULongMax
<1>1. ASSUME a.number # None PROVE Long(a) \in Int
  <2>1. a.number \in Int
    BY <1>1, Numbers
  <2> QED BY <2>1, Widths DEF Long
<1>2. CASE a.number = None
  <2>1. UnsignedLong(a) = 0
    BY <1>2 DEF UnsignedLong, OutOfRange, Real
  <2> QED BY <1>2, <2>1, Widths
<1>3. CASE a.number # None
  <2>1. a.number \in Int
    BY <1>3, Numbers
  <2>2. a.number % (ULongMax + 1) \in 0 .. ULongMax
    BY <2>1, Widths, Remainder
  <2>3. UnsignedLong(a) \in {ULongMax, a.number % (ULongMax + 1)}
    BY <1>3 DEF UnsignedLong
  <2> QED BY <1>1, <1>3, <2>2, <2>3, Widths
<1> QED BY <1>1, <1>2, <1>3

\* An unsigned long stays one when it is multiplied.
LEMMA TimesIsUnsignedLong ==
  ASSUME NEW n \in Int, NEW unit \in Int
  PROVE  Times(n, unit) \in 0 .. ULongMax
<1>1. unit % (ULongMax + 1) \in Int
  BY Widths, Remainder
<1>2. n * (unit % (ULongMax + 1)) \in Int
  BY <1>1
<1> QED BY <1>2, Widths, Remainder DEF Times

\* A conversion that accepts its argument stores a value of its type.
LEMMA ConvertedIsStored ==
  ASSUME NEW a \in Argument, NEW type \in WithArgument, NEW erange \in BOOLEAN,
         Accepts(type, a, erange)
  PROVE  Converted(type, a) \in Stored(type)
<1>1. CASE type = "int"
  <2>1. Long(a) \in Int
    <3>1. Accepts("int", a, erange)
      BY <1>1
    <3>2. a.number # None
      BY <3>1 DEF Accepts, Real
    <3> QED BY <3>2, Longs
  <2>2. ToInt(Long(a)) \in -IntMax - 1 .. IntMax
    <3>1. Long(a) + IntMax + 1 \in Int
      BY <2>1, Widths
    <3>2. (Long(a) + IntMax + 1) % (UIntMax + 1) \in 0 .. UIntMax
      BY <3>1, Widths, Remainder
    <3> QED BY <3>2, Widths DEF ToInt
  <2> QED BY <1>1, <2>2 DEF Converted, Stored
<1>2. CASE type = "uint"
  <2>1. UnsignedLong(a) % (UIntMax + 1) \in 0 .. UIntMax
    <3>1. UnsignedLong(a) \in Int
      BY Longs, Widths
    <3> QED BY <3>1, Widths, Remainder
  <2> QED BY <1>2, <2>1 DEF Converted, Stored
<1>3. CASE type = "bytes"
  <2>1. Times(UnsignedLong(a), ByteUnit(a.rest)) \in 0 .. ULongMax
    BY Longs, Widths, TimesIsUnsignedLong DEF ByteUnit
  <2> QED BY <1>3, <2>1 DEF Converted, Stored
<1>4. CASE type = "timei"
  <2>1. Times(UnsignedLong(a), TimeUnit(a.rest)) \in 0 .. ULongMax
    BY Longs, Widths, TimesIsUnsignedLong DEF TimeUnit
  <2> QED BY <1>4, <2>1 DEF Converted, Stored
<1>5. CASE type \in Real \cup {"string"}
  BY <1>5 DEF Converted, Stored, Real
<1> QED BY <1>1, <1>2, <1>3, <1>4, <1>5 DEF WithArgument, Integral

\* Nothing is read yet.
LEMMA InitInv == Init => Inv
<1> SUFFICES ASSUME Init PROVE Inv
  OBVIOUS
<1>1. args \in Seq(Argument) /\ Len(args) \in Nat
  BY CommandLinesAssumption, LenProperties DEF Init
<1>2. DOMAIN data = DOMAIN Options /\ \A k \in DOMAIN Options : data[k] = Junk
  BY DEF Init
<1>3. TypeOK
  <2>1. argc \in Nat /\ argv \in Nat \ {0}
    BY <1>1 DEF Init
  <2>3. errno \in BOOLEAN
    BY Zenon DEF Init
  <2>2. status = "OK" /\ pc = "parse"
    BY DEF Init
  <2> QED BY <1>1, <1>2, <2>1, <2>2, <2>3 DEF TypeOK
<1>4. LoopInv /\ InStep /\ RefusedForCause
  BY <1>1 DEF Init, LoopInv, InStep, RefusedForCause
<1> QED BY <1>3, <1>4 DEF Inv

\* The arguments at the places of the loop.
LEMMA InArgs ==
  ASSUME TypeOK, NEW n \in 1 .. Len(args)
  PROVE  args[n] \in Argument
BY ElementOfSeq DEF TypeOK

\* cflag_parse returns, cflag_apply ends, or the negation of an unknown option
\* crashes: nothing is read.
LEMMA NothingRead ==
  ASSUME Inv, UNCHANGED <<args, argc, argv, data, errno>>,
         pc' \in {"apply", "returned", "exit_success", "exit_failure", "crashed"},
         status' \in {"OK", "SHOW_HELP", "UNDEFINED", "NEEDS_ARG", status},
         status' \notin {"OK", "SHOW_HELP"} => argc > 0,
         pc' = "exit_failure" => status' \notin {"OK", "SHOW_HELP"}
  PROVE  Inv'
<1>1. TypeOK'
  BY DEF Inv, TypeOK
<1>2. LoopInv'
  BY DEF Inv, LoopInv
<1>3. InStep'
  <2>1. args \in Seq(Argument) /\ argc \in Nat /\ argv \in Nat \ {0}
    BY DEF Inv, TypeOK
  <2>2. Len(args) \in Nat /\ DOMAIN args = 1 .. Len(args)
    BY <2>1, LenProperties
  <2> QED BY <2>1, <2>2 DEF Inv, LoopInv, InStep
<1>4. RefusedForCause'
  <2>1. status' = "BAD_FORMAT" => status = "BAD_FORMAT"
    OBVIOUS
  <2> QED BY <2>1 DEF Inv, RefusedForCause
<1> QED BY <1>1, <1>2, <1>3, <1>4 DEF Inv

\* A bool is stored, which takes no argument.
LEMMA TakeBoolKeepsInv ==
  ASSUME Inv, TakeBool
  PROVE  Inv'
<1>1. /\ args \in Seq(Argument) /\ argc \in Nat /\ argv \in Nat \ {0}
      /\ argv + argc = Len(args) + 1 /\ argc > 0
      /\ args' = args /\ argc' = argc - 1 /\ argv' = argv + 1
      /\ pc = "parse" /\ pc' = pc /\ status = "OK" /\ status' = status /\ errno' = errno
  BY DEF Inv, TypeOK, LoopInv, TakeBool, AtOption, AtFlag, Advance
<1>2. TypeOK'
  <2>1. argc' \in Nat /\ argv' \in Nat \ {0}
    BY <1>1
  <2>2. data' = [data EXCEPT ![spec] = Value(args[argv])] /\ DOMAIN data = DOMAIN Options
    BY DEF TakeBool, Inv, TypeOK
  <2>3. DOMAIN data' = DOMAIN Options
    BY <2>2
  <2>4. ASSUME NEW k \in DOMAIN Options, data'[k] # Junk
        PROVE  data'[k] \in Stored(Options[k].type)
    <3>1. CASE k = spec
      <4>1. data'[k] = Value(args[argv]) /\ Options[k].type = "bool"
        BY <2>2, <3>1 DEF TakeBool, IsBool
      <4>2. Value(args[argv]) \in BOOLEAN
        BY DEF Value
      <4> QED BY <4>1, <4>2 DEF Stored
    <3>2. CASE k # spec
      BY <2>2, <2>4, <3>2 DEF Inv, TypeOK
    <3> QED BY <3>1, <3>2
  <2> QED BY <1>1, <2>1, <2>3, <2>4 DEF Inv, TypeOK
<1>3. LoopInv'
  <2>1. errno' => Cause(argv)'
    <3>1. errno => Cause(argv)
      BY <1>1 DEF Inv, LoopInv
    <3>2. Cause(argv) => Cause(argv)'
      BY <1>1 DEF Cause
    <3> QED BY <1>1, <3>1, <3>2
  <2>2. argv' + argc' = Len(args') + 1
    BY <1>1, LenProperties
  <2> QED BY <1>1, <2>1, <2>2 DEF LoopInv
<1>4. InStep' /\ RefusedForCause'
  BY <1>1, LenProperties DEF InStep, RefusedForCause
<1> QED BY <1>2, <1>3, <1>4 DEF Inv

\* What a conversion finds wrong or accepts does not depend on errno, but for
\* reals, bytes and times; an errno it sets and accepts is that of an integer.
LEMMA Acceptance ==
  ASSUME NEW a \in Argument, NEW type \in WithArgument, NEW e \in BOOLEAN
  PROVE  /\ type \notin Real \cup {"bytes", "timei"} =>
              Accepts(type, a, e) = Accepts(type, a, OutOfRange(type, a))
         /\ Accepts(type, a, TRUE) /\ OutOfRange(type, a) => type \in {"int", "uint"}
<1>1. CASE type \in {"int", "uint", "string"}
  BY <1>1 DEF Accepts, OutOfRange, Real, Integral
<1>2. CASE type \in Real
  BY <1>2 DEF Accepts, Real
<1>3. CASE type \in {"bytes", "timei"}
  <2>1. OutOfRange(type, a) = OutOfRange("uint", a)
    BY <1>3 DEF OutOfRange, Real, Integral
  <2>2. OutOfRange(type, a) => UnsignedLong(a) = ULongMax
    BY <2>1 DEF UnsignedLong, OutOfRange, Real
  <2>3. UnsignedLong(a) = ULongMax => ~Accepts(type, a, TRUE)
    BY <1>3 DEF Accepts, Real
  <2> QED BY <1>3, <2>2, <2>3
<1> QED BY <1>1, <1>2, <1>3 DEF WithArgument, Integral

\* A number is out of range or not.
LEMMA RangeIsDecided ==
  ASSUME NEW type, NEW a
  PROVE  OutOfRange(type, a) \in BOOLEAN
<1>1. CASE type \in Real
  BY <1>1 DEF OutOfRange
<1>2. CASE type \notin Real
  BY <1>2 DEF OutOfRange
<1> QED BY <1>1, <1>2

\* An option takes the argument after it.
LEMMA TakeArgumentKeepsInv ==
  ASSUME Inv, TakeArgument
  PROVE  Inv'
<1> DEFINE type == Options[spec].type
           value == args[argv + 1]
<1>1. /\ args \in Seq(Argument) /\ argc \in Nat /\ argv \in Nat \ {0}
      /\ argv + argc = Len(args) + 1 /\ argc > 1
      /\ args' = args /\ argc' = argc - 2 /\ argv' = argv + 2
      /\ pc = "parse" /\ pc' = pc /\ status = "OK" /\ status' = status
      /\ errno \in BOOLEAN
  BY DEF Inv, TypeOK, LoopInv, TakeArgument, AtOption, AtFlag, Advance
<1>2. /\ type \in WithArgument
      /\ errno' = (errno \/ OutOfRange(type, value))
      /\ Accepts(type, value, errno')
      /\ data' = [data EXCEPT ![spec] = Converted(type, value)]
  BY DEF TakeArgument, NeedsArg, ErrnoAfter
<1>3. argv + 1 \in 1 .. Len(args) /\ Len(args) \in Nat
  BY <1>1, LenProperties
<1>4. value \in Argument
  BY <1>3, InArgs DEF Inv
<1>5. errno' \in BOOLEAN
  BY <1>1, <1>2, RangeIsDecided
<1> HIDE DEF type, value
<1>6. TypeOK'
  <2>1. argc' \in Nat /\ argv' \in Nat \ {0}
    BY <1>1
  <2>2. DOMAIN data = DOMAIN Options
    BY DEF Inv, TypeOK
  <2>3. DOMAIN data' = DOMAIN Options
    BY <1>2, <2>2
  <2>4. ASSUME NEW k \in DOMAIN Options, data'[k] # Junk
        PROVE  data'[k] \in Stored(Options[k].type)
    <3>1. CASE k = spec
      <4>1. data'[k] = Converted(type, value) /\ Options[k].type = type
        BY <1>2, <2>2, <3>1 DEF type
      <4> QED BY <1>2, <1>4, <1>5, <4>1, ConvertedIsStored
    <3>2. CASE k # spec
      BY <1>2, <2>2, <2>4, <3>2 DEF Inv, TypeOK
    <3> QED BY <3>1, <3>2
  <2> QED BY <1>1, <1>5, <2>1, <2>3, <2>4 DEF Inv, TypeOK
<1>7. LoopInv'
  <2>1. errno' => Cause(argv)'
    <3>1. ASSUME errno PROVE Cause(argv)'
      BY <1>1, <3>1 DEF Inv, LoopInv, Cause
    <3>2. ASSUME errno', ~errno PROVE Cause(argv)'
      <4>1. OutOfRange(type, value)
        BY <1>2, <3>2
      <4>2. Accepts(type, value, TRUE)
        BY <1>2, <1>5, <3>2
      <4>3. type \in {"int", "uint"}
        BY <1>2, <1>4, <4>1, <4>2, Acceptance
      <4>4. argv + 1 \in 1 .. argv' - 1
        BY <1>1
      <4> QED BY <1>1, <4>1, <4>3, <4>4 DEF Cause, value
    <3> QED BY <3>1, <3>2
  <2>2. argv' + argc' = Len(args') + 1
    BY <1>1, <1>3
  <2> QED BY <1>1, <2>1, <2>2 DEF LoopInv
<1>8. InStep' /\ RefusedForCause'
  BY <1>1, <1>3 DEF InStep, RefusedForCause
<1> QED BY <1>6, <1>7, <1>8 DEF Inv

\* An argument is refused.
LEMMA RefuseArgumentKeepsInv ==
  ASSUME Inv, RefuseArgument
  PROVE  Inv'
<1> DEFINE type == Options[spec].type
           value == args[argv + 1]
<1>1. /\ args \in Seq(Argument) /\ argc \in Nat /\ argv \in Nat \ {0}
      /\ argv + argc = Len(args) + 1 /\ argc > 1
      /\ args' = args /\ data' = data /\ argc' = argc - 1 /\ argv' = argv + 1
      /\ pc = "parse" /\ pc' = "apply" /\ status' = "BAD_FORMAT"
      /\ errno \in BOOLEAN
  BY DEF Inv, TypeOK, LoopInv, RefuseArgument, AtOption, AtFlag, Advance, ParseReturns
<1>2. /\ type \in WithArgument
      /\ errno' = (errno \/ OutOfRange(type, value))
      /\ ~Accepts(type, value, errno')
  BY DEF RefuseArgument, NeedsArg, ErrnoAfter
<1>3. argv + 1 \in 1 .. Len(args) /\ Len(args) \in Nat
  BY <1>1, LenProperties
<1>4. value \in Argument
  BY <1>3, InArgs DEF Inv
<1>5. errno' \in BOOLEAN /\ OutOfRange(type, value) \in BOOLEAN
  BY <1>1, <1>2, RangeIsDecided
<1>6. TypeOK'
  BY <1>1, <1>5 DEF Inv, TypeOK
<1>7. LoopInv' /\ InStep'
  BY <1>1, <1>3, LenProperties DEF LoopInv, InStep
<1>8. RefusedForCause'
  <2>1. /\ Options[SpecOf(args'[argv' - 1])].type = type
        /\ args'[argv'] = value
    <3>1. argv' - 1 = argv
      BY <1>1
    <3> QED BY <1>1, <3>1 DEF spec
  <2> HIDE DEF type, value
  <2>2. CASE ~errno
    BY <1>2, <1>5, <2>1, <2>2 DEF RefusedForCause
  <2>3. CASE errno
    <3>1. \E n \in 1 .. argv' - 1, t \in {"int", "uint"} : OutOfRange(t, args'[n])
      BY <1>1, <2>3 DEF Inv, LoopInv, Cause
    <3>2. type \notin Real \cup {"bytes", "timei"} =>
            ~Accepts(type, value, OutOfRange(type, value))
      BY <1>2, <1>4, <1>5, Acceptance
    <3> QED BY <2>1, <3>1, <3>2 DEF RefusedForCause
  <2> QED BY <1>1, <2>2, <2>3
<1> QED BY <1>6, <1>7, <1>8 DEF Inv

\* Every step keeps the invariant.
LEMMA NextKeepsInv == Inv /\ [Next]_vars => Inv'
<1> SUFFICES ASSUME Inv, [Next]_vars PROVE Inv'
  OBVIOUS
<1>1. CASE ParseEnds
  BY <1>1, NothingRead DEF ParseEnds, ParseReturns
<1>2. CASE NegspecCrashes
  BY <1>2, NothingRead DEF NegspecCrashes, Inv, LoopInv
<1>3. CASE Undefined
  BY <1>3, NothingRead DEF Undefined, ParseReturns, AtFlag
<1>4. CASE ArgumentMissing
  BY <1>4, NothingRead DEF ArgumentMissing, ParseReturns, AtOption, AtFlag
<1>5. CASE TakeBool
  BY <1>5, TakeBoolKeepsInv
<1>6. CASE Help
  BY <1>6, NothingRead DEF Help, ParseReturns
<1>7. CASE TakeArgument
  BY <1>7, TakeArgumentKeepsInv
<1>8. CASE RefuseArgument
  BY <1>8, RefuseArgumentKeepsInv
<1>9. CASE Apply
  <2>1. UNCHANGED <<args, argc, argv, data, errno>> /\ status' = status
    BY <1>9 DEF Apply
  <2>2. pc' \in {"returned", "exit_success", "exit_failure"}
        /\ (pc' = "exit_failure" => status \notin {"OK", "SHOW_HELP"})
    BY <1>9 DEF Apply
  <2>3. status \notin {"OK", "SHOW_HELP"} => argc > 0
    BY DEF Inv, LoopInv
  <2> QED BY <2>1, <2>2, <2>3, NothingRead
<1>10. CASE UNCHANGED vars
  BY <1>10 DEF vars, Inv, TypeOK, LoopInv, Cause, InStep, RefusedForCause
<1> QED BY <1>1, <1>2, <1>3, <1>4, <1>5, <1>6, <1>7, <1>8, <1>9, <1>10 DEF Next, Step

\* The invariant holds in every reachable state.
LEMMA Invariance == Spec => []Inv
BY InitInv, NextKeepsInv, PTL DEF Spec

\* The variables keep their types: an option stores what its type can hold,
\* also when a number or its product with a unit does not fit.
THEOREM TypeCorrect == Spec => []TypeOK
<1>1. Inv => TypeOK
  BY DEF Inv
<1> QED BY <1>1, Invariance, PTL

\* argc and argv agree on what is left of the arguments, and a message names
\* an argument that is there (cflag.c:222-223, 306).
THEOREM ArgumentsInStep == Spec => []InStep
<1>1. Inv => InStep
  BY DEF Inv
<1> QED BY <1>1, Invariance, PTL

\* A well-formed argument is refused only after an integer too large for its
\* type (cflag.c:348, 363).
THEOREM RefusalsHaveCause == Spec => []RefusedForCause
<1>1. Inv => RefusedForCause
  BY DEF Inv
<1> QED BY <1>1, Invariance, PTL

-----------------------------------------------------------------------------
(***************************************************************************)
(* Where options begin.  Begins is defined by recursion over the places;   *)
(* that it satisfies its equation is shown without induction, by the       *)
(* smallest set of places that is closed under it.                         *)
(***************************************************************************)
\* Places n after an option without and with an argument, in arguments a.
AfterBool(a) ==
  {n \in Nat : /\ n > 1 /\ n <= Len(a) + 1
               /\ \E k \in DOMAIN Options : Names(a[n - 1], k) /\ IsBool(k)}
AfterArgument(a) ==
  {n \in Nat : /\ n > 2 /\ n <= Len(a) + 1
               /\ \E k \in DOMAIN Options : Names(a[n - 2], k) /\ NeedsArg(k)}

Reads(f, a) ==
  f = [n \in Nat |->
        \/ n = 1
        \/ /\ n > 1 /\ n <= Len(a) + 1 /\ f[n - 1]
           /\ \E k \in DOMAIN Options : Names(a[n - 1], k) /\ IsBool(k)
        \/ /\ n > 2 /\ n <= Len(a) + 1 /\ f[n - 2]
           /\ \E k \in DOMAIN Options : Names(a[n - 2], k) /\ NeedsArg(k)]

\* One round from a set of places.
Onward(a, S) ==
  {n \in Nat : \/ n = 1
               \/ n \in AfterBool(a) /\ n - 1 \in S
               \/ n \in AfterArgument(a) /\ n - 2 \in S}

LEMMA PlacesExist ==
  ASSUME NEW a PROVE \E S \in SUBSET Nat : S = Onward(a, S)
<1> DEFINE B == {n \in Nat : \A S \in SUBSET Nat : Onward(a, S) \subseteq S => n \in S}
<1>1. \A S, T \in SUBSET Nat : S \subseteq T => Onward(a, S) \subseteq Onward(a, T)
  BY DEF Onward
<1>2. \A S \in SUBSET Nat : Onward(a, S) \in SUBSET Nat
  BY DEF Onward
<1>3. B \in SUBSET Nat /\ \A S \in SUBSET Nat : Onward(a, S) \subseteq S => B \subseteq S
  OBVIOUS
<1>4. ASSUME NEW n \in Nat, \A S \in SUBSET Nat : Onward(a, S) \subseteq S => n \in S
      PROVE  n \in B
  BY <1>4
<1> HIDE DEF B
<1>5. Onward(a, B) \subseteq B
  <2> SUFFICES ASSUME NEW n \in Onward(a, B) PROVE n \in B
    OBVIOUS
  <2>1. n \in Nat
    BY <1>2, <1>3
  <2>2. \A S \in SUBSET Nat : Onward(a, S) \subseteq S => n \in S
    BY <1>1, <1>3
  <2> QED BY <1>4, <2>1, <2>2
<1>6. B \subseteq Onward(a, B)
  BY <1>1, <1>2, <1>3, <1>5
<1> QED BY <1>3, <1>5, <1>6

LEMMA ReadingExists == \A a : \E f : Reads(f, a)
<1> SUFFICES ASSUME NEW a PROVE \E f : Reads(f, a)
  OBVIOUS
<1>1. PICK S \in SUBSET Nat : S = Onward(a, S)
  BY PlacesExist
<1> DEFINE f == [n \in Nat |-> n \in S]
           Next1(n) == \E k \in DOMAIN Options : Names(a[n - 1], k) /\ IsBool(k)
           Next2(n) == \E k \in DOMAIN Options : Names(a[n - 2], k) /\ NeedsArg(k)
           Round(n) == \/ n = 1
                       \/ n > 1 /\ n <= Len(a) + 1 /\ f[n - 1] /\ Next1(n)
                       \/ n > 2 /\ n <= Len(a) + 1 /\ f[n - 2] /\ Next2(n)
<1>2. \A n \in Nat : n > 1 => n - 1 \in Nat
  OBVIOUS
<1>3. \A n \in Nat : n > 2 => n - 2 \in Nat
  OBVIOUS
<1>4. \A n \in Nat : f[n] <=> n \in S
  BY Zenon
<1>5. \A n \in Nat : n \in S <=>
        \/ n = 1
        \/ n > 1 /\ n <= Len(a) + 1 /\ n - 1 \in S /\ Next1(n)
        \/ n > 2 /\ n <= Len(a) + 1 /\ n - 2 \in S /\ Next2(n)
  <2>1. \A n \in Nat : n \in AfterBool(a) <=> n > 1 /\ n <= Len(a) + 1 /\ Next1(n)
    BY Zenon DEF AfterBool
  <2>2. \A n \in Nat : n \in AfterArgument(a) <=> n > 2 /\ n <= Len(a) + 1 /\ Next2(n)
    BY Zenon DEF AfterArgument
  <2>3. \A n \in Nat : n \in S <=>
          \/ n = 1
          \/ n \in AfterBool(a) /\ n - 1 \in S
          \/ n \in AfterArgument(a) /\ n - 2 \in S
    <3>1. \A n \in Nat : n \in S <=> n \in Onward(a, S)
      BY <1>1, Zenon
    <3> QED BY <3>1, Zenon DEF Onward
  <2> HIDE DEF Next1, Next2
  <2> QED BY <2>1, <2>2, <2>3, Zenon
<1> HIDE DEF f, Next1, Next2
<1>6. \A n \in Nat : n \in S <=> Round(n)
  BY <1>2, <1>3, <1>4, <1>5, Zenon
<1>7. [n \in Nat |-> n \in S] = [n \in Nat |-> Round(n)]
  <2>1. ASSUME NEW n \in Nat PROVE (n \in S) = Round(n)
    <3> DEFINE first == n > 1 /\ n <= Len(a) + 1 /\ f[n - 1] /\ Next1(n)
               second == n > 2 /\ n <= Len(a) + 1 /\ f[n - 2] /\ Next2(n)
    <3>1. n \in S <=> n = 1 \/ first \/ second
      BY <1>6, Zenon
    <3> HIDE DEF first, second
    <3>2. (n \in S) = (n = 1 \/ first \/ second)
      BY <3>1
    <3> QED BY <3>2, Zenon DEF first, second
  <2> HIDE DEF Round
  <2> QED BY <2>1, Zenon
<1>8. f = [n \in Nat |-> Round(n)]
  BY <1>7, Zenon DEF f
<1> QED BY <1>8, Zenon DEF Reads, Next1, Next2

ReadingOf(a) == CHOOSE f : Reads(f, a)

\* Begins depends on the arguments alone, and satisfies its equation.
LEMMA BeginsIsReading == Begins = ReadingOf(args)
BY Zenon DEF Begins, ReadingOf, Reads

LEMMA SameReading == args' = args => Begins' = Begins
<1>1. (Begins = ReadingOf(args))'
  BY BeginsIsReading, PTL
<1> QED BY <1>1, BeginsIsReading DEF ReadingOf, Reads

LEMMA BeginsAre ==
  \A n \in Nat : Begins[n] <=>
    \/ n = 1
    \/ n \in AfterBool(args) /\ Begins[n - 1]
    \/ n \in AfterArgument(args) /\ Begins[n - 2]
<1>1. Reads(Begins, args)
  BY BeginsIsReading, ReadingExists, Zenon DEF ReadingOf
<1>2. \A n \in Nat : Begins[n] <=>
        \/ n = 1
        \/ /\ n > 1 /\ n <= Len(args) + 1 /\ Begins[n - 1]
           /\ \E k \in DOMAIN Options : Names(args[n - 1], k) /\ IsBool(k)
        \/ /\ n > 2 /\ n <= Len(args) + 1 /\ Begins[n - 2]
           /\ \E k \in DOMAIN Options : Names(args[n - 2], k) /\ NeedsArg(k)
  <2> DEFINE f == Begins
  <2>1. Reads(f, args)
    BY <1>1
  <2> HIDE DEF f
  <2>2. f = [n \in Nat |->
              \/ n = 1
              \/ /\ n > 1 /\ n <= Len(args) + 1 /\ f[n - 1]
                 /\ \E k \in DOMAIN Options : Names(args[n - 1], k) /\ IsBool(k)
              \/ /\ n > 2 /\ n <= Len(args) + 1 /\ f[n - 2]
                 /\ \E k \in DOMAIN Options : Names(args[n - 2], k) /\ NeedsArg(k)]
    BY <2>1, Zenon DEF Reads
  <2>3. \A n \in Nat : f[n] <=>
          \/ n = 1
          \/ /\ n > 1 /\ n <= Len(args) + 1 /\ f[n - 1]
             /\ \E k \in DOMAIN Options : Names(args[n - 1], k) /\ IsBool(k)
          \/ /\ n > 2 /\ n <= Len(args) + 1 /\ f[n - 2]
             /\ \E k \in DOMAIN Options : Names(args[n - 2], k) /\ NeedsArg(k)
    BY <2>2, Zenon
  <2> QED BY <2>3 DEF f
<1> QED BY <1>2, Zenon DEF AfterBool, AfterArgument

-----------------------------------------------------------------------------
(***************************************************************************)
(* What an argument names                                                  *)
(***************************************************************************)
\* cflag_find_short and cflag_find_long find the option of a letter or name.
LEMMA Finds ==
  /\ \A x : /\ FindShort(x) \in DOMAIN Options \cup {NULL}
            /\ FindLong(x) \in DOMAIN Options \cup {NULL}
  /\ \A k \in DOMAIN Options :
       /\ k # NULL
       /\ \A x : /\ FindShort(x) = k <=> Options[k].letter = x
                 /\ FindLong(x) = k <=> Options[k].name = x
<1>1. \A k \in DOMAIN Options : k \in Nat /\ k # NULL
  BY OptionsAssumption, LenProperties DEF NULL
<1>2. ASSUME NEW S \in SUBSET DOMAIN Options, \A k, l \in S : k = l
      PROVE  IF S = {} THEN First(S) = NULL ELSE First(S) \in S
  <2>1. CASE S # {}
    <3>1. PICK k \in S : TRUE
      BY <2>1
    <3>2. \A l \in S : k <= l
      BY <1>1, <1>2
    <3>3. \E j \in S : \A l \in S : j <= l
      BY <3>2
    <3> QED BY <2>1, <3>3 DEF First
  <2> QED BY <2>1 DEF First
<1>3. ASSUME NEW x
      PROVE  /\ FindShort(x) \in DOMAIN Options \cup {NULL}
             /\ \A k \in DOMAIN Options : FindShort(x) = k <=> Options[k].letter = x
  <2> DEFINE S == {k \in DOMAIN Options : Options[k].letter = x}
  <2>1. S \in SUBSET DOMAIN Options /\ \A k, l \in S : k = l
    BY NamesAssumption
  <2>2. FindShort(x) = First(S)
    BY DEF FindShort
  <2>3. \A k \in DOMAIN Options : k \in S <=> Options[k].letter = x
    OBVIOUS
  <2> HIDE DEF S
  <2> QED BY <1>1, <1>2, <2>1, <2>2, <2>3
<1>4. ASSUME NEW x
      PROVE  /\ FindLong(x) \in DOMAIN Options \cup {NULL}
             /\ \A k \in DOMAIN Options : FindLong(x) = k <=> Options[k].name = x
  <2> DEFINE S == {k \in DOMAIN Options : Options[k].name = x}
  <2>1. S \in SUBSET DOMAIN Options /\ \A k, l \in S : k = l
    BY NamesAssumption
  <2>2. FindLong(x) = First(S)
    BY DEF FindLong
  <2>3. \A k \in DOMAIN Options : k \in S <=> Options[k].name = x
    OBVIOUS
  <2> HIDE DEF S
  <2> QED BY <1>1, <1>2, <2>1, <2>2, <2>3
<1> QED BY <1>1, <1>3, <1>4

\* The option that cflag_parse takes a flag for is the one that it names, and
\* a bool is set unless the flag is not called like it.
LEMMA SpecIsNamed ==
  ASSUME NEW a \in Argument, a.shape \in {"short", "long"}, SpecOf(a) # NULL
  PROVE  /\ SpecOf(a) \in DOMAIN Options
         /\ \A k \in DOMAIN Options : Names(a, k) <=> k = SpecOf(a)
         /\ IsBool(SpecOf(a)) =>
              Value(a) = (a.name \in {Options[SpecOf(a)].letter, Options[SpecOf(a)].name})
<1> DEFINE s == SpecOf(a)
<1>1. CASE a.shape = "short"
  <2>1. s = FindShort(a.name) /\ ~Negated(a)
    BY <1>1 DEF SpecOf, Negated
  <2>2. s \in DOMAIN Options
    BY <2>1, Finds
  <2>3. \A k \in DOMAIN Options : Names(a, k) <=> k = s
    <3>1. \A k \in DOMAIN Options : Names(a, k) <=> a.name = Options[k].letter
      BY <1>1 DEF Names
    <3>2. \A k \in DOMAIN Options : FindShort(a.name) = k <=> Options[k].letter = a.name
      BY Finds
    <3> HIDE DEF s
    <3> QED BY <2>1, <3>1, <3>2
  <2>4. a.name = Options[s].letter
    BY <2>1, <2>2, Finds
  <2> QED BY <2>1, <2>2, <2>3, <2>4 DEF Value
<1>2. CASE Negated(a)
  <2>1. /\ a.shape = "long" /\ a.positive # None /\ FindLong(a.name) = NULL
        /\ s = FindLong(a.positive) /\ IsBool(s)
    BY <1>2 DEF SpecOf, Negated, Negates, IsBool
  <2>2. s \in DOMAIN Options
    BY <2>1, Finds
  <2>3. \A k \in DOMAIN Options : Names(a, k) <=> k = s
    <3> TAKE k \in DOMAIN Options
    <3>1. a.name # Options[k].name
      BY <2>1, Finds
    <3> QED BY <2>1, <3>1, Finds DEF Names
  <2>4. a.name \notin {Options[s].letter, Options[s].name}
    BY <2>1, <2>2, NamesAssumption
  <2> QED BY <1>2, <2>2, <2>3, <2>4 DEF Value
<1>3. CASE a.shape = "long" /\ ~Negated(a)
  <2>1. s = FindLong(a.name)
    BY <1>3 DEF SpecOf
  <2>2. s \in DOMAIN Options /\ a.name = Options[s].name
    BY <2>1, Finds
  <2>3. a.positive = None
    BY <2>2, NamesAssumption
  <2>4. \A k \in DOMAIN Options : Names(a, k) <=> k = s
    <3> TAKE k \in DOMAIN Options
    <3>1. a.positive # Options[k].name
      BY <2>3, NamesAssumption
    <3> QED BY <1>3, <2>1, <3>1, Finds DEF Names
  <2> QED BY <1>3, <2>2, <2>4 DEF Value
<1> QED BY <1>1, <1>2, <1>3

\* A conversion that accepts its argument stores what the argument says.
LEMMA ConvertedIsSaid ==
  ASSUME NEW a \in Argument, NEW type \in WithArgument, NEW erange,
         Accepts(type, a, erange)
  PROVE  Says(a, type, Converted(type, a))
<1>1. CASE type = "int"
  <2> SUFFICES ASSUME a.number \in -IntMax - 1 .. IntMax PROVE ToInt(Long(a)) = a.number
    BY <1>1 DEF Says, Converted
  <2>1. a.number \in Int /\ a.number # None /\ a.number \in -LongMax - 1 .. LongMax
    BY Widths, WidthAssumption
  <2>2. Long(a) = a.number
    <3>1. ~ OutOfRange("int", a)
      BY <2>1 DEF OutOfRange, Real
    <3>2. ~ (a.number > LongMax)
      BY <2>1, Widths
    <3> QED BY <3>1, <3>2 DEF Long
  <2>3. a.number + IntMax + 1 \in 0 .. UIntMax
    BY <2>1, Widths
  <2>4. (a.number + IntMax + 1) % (UIntMax + 1) = a.number + IntMax + 1
    BY <2>3, Widths
  <2> QED BY <2>1, <2>2, <2>4, Widths DEF ToInt
<1>2. ASSUME a.number \in 0 .. ULongMax PROVE UnsignedLong(a) = a.number
  <2>1. a.number \in Int /\ a.number # None /\ a.number \in -ULongMax .. ULongMax
    BY <1>2, Widths, WidthAssumption
  <2>2. ~ OutOfRange("uint", a)
    BY <2>1 DEF OutOfRange, Real
  <2>3. a.number % (ULongMax + 1) = a.number
    BY <1>2, Widths
  <2> QED BY <2>1, <2>2, <2>3 DEF UnsignedLong
<1>3. CASE type = "uint"
  <2> SUFFICES ASSUME a.number \in 0 .. UIntMax
               PROVE  UnsignedLong(a) % (UIntMax + 1) = a.number
    BY <1>3 DEF Says, Converted
  <2>1. a.number \in 0 .. ULongMax
    BY Widths, WidthAssumption DEF ULongMax
  <2> QED BY <1>2, <2>1, Widths
<1>4. ASSUME NEW unit \in Nat \ {0}, a.number # None, a.number \in 0 .. ULongMax \div unit
      PROVE  Times(UnsignedLong(a), unit) = a.number * unit
  <2> DEFINE n == a.number
             q == ULongMax \div unit
  <2>1. /\ ULongMax \in Nat /\ q \in Nat /\ q * unit <= ULongMax /\ q <= ULongMax
        /\ n \in 0 .. q
    BY <1>4, Widths
  <2>2. UnsignedLong(a) = n
    BY <1>2, <2>1
  <2>3. q # 0 => unit <= ULongMax
    <3> HIDE DEF q
    <3> QED BY <2>1
  <2> HIDE DEF n, q
  <2>4. n * unit \in 0 .. ULongMax
    <3>1. n * unit <= q * unit
      BY <2>1
    <3>2. n * unit \in Nat
      BY <2>1
    <3> QED BY <2>1, <3>1, <3>2
  <2>5. n * (unit % (ULongMax + 1)) = n * unit
    <3>1. CASE q = 0
      <4>1. n = 0 /\ unit % (ULongMax + 1) \in Int
        BY <2>1, <3>1, Remainder
      <4> QED BY <4>1
    <3>2. CASE q # 0
      <4>1. unit % (ULongMax + 1) = unit
        BY <2>1, <2>3, <3>2
      <4> QED BY <4>1
    <3> QED BY <3>1, <3>2
  <2>6. (n * unit) % (ULongMax + 1) = n * unit
    BY <2>1, <2>4
  <2> QED BY <2>2, <2>5, <2>6 DEF Times, n
<1>5. CASE type = "bytes"
  <2>1. ByteUnit(a.rest) \in Nat \ {0}
    BY DEF ByteUnit
  <2> QED BY <1>4, <1>5, <2>1 DEF Says, Converted
<1>6. CASE type = "timei"
  <2>1. TimeUnit(a.rest) \in Nat \ {0}
    BY DEF TimeUnit
  <2> QED BY <1>4, <1>6, <2>1 DEF Says, Converted
<1>7. CASE type \in Real \cup {"string"}
  BY <1>7 DEF Says, Converted, Real
<1> QED BY <1>1, <1>3, <1>5, <1>6, <1>7 DEF WithArgument, Integral

-----------------------------------------------------------------------------
(***************************************************************************)
(* What has been read                                                      *)
(***************************************************************************)
\* Where option k was used before argv, and whether d is what its last use in
\* the arguments a gives it, when those uses are U.
Uses(k) == {n \in 1 .. argv - 1 : Begins[n] /\ Names(args[n], k)}
LastIn(U) == CHOOSE n \in U : \A m \in U : m <= n
Right(U, k, a, d) ==
  CASE U = {} -> d = Junk
    [] U # {} /\ IsBool(k) -> d = (a[LastIn(U)].name \in
                                     {Options[k].letter, Options[k].name})
    [] OTHER -> Says(a[LastIn(U) + 1], Options[k].type, d)

\* Every option up to argv was known; while none was wrong, an option or the
\* end of the options is at argv, not the value of an option before it, and
\* every option has the value of its last use.
ReadInv ==
  /\ \A n \in 1 .. argv - 1 : Begins[n] => NamesOne(args[n])
  /\ status = "OK" =>
       /\ Begins[argv]
       /\ Begins[argv - 1] =>
            \A k \in DOMAIN Options : Names(args[argv - 1], k) => ~NeedsArg(k)
       /\ \A k \in DOMAIN Options : Right(Uses(k), k, args, data[k])
  /\ status = "OK" /\ pc \in {"apply", "returned"} /\ argc > 0 => ~IsFlag(argv)
  /\ pc = "returned" => status = "OK"

LEMMA LastOfNumbers ==
  ASSUME NEW top \in Nat, NEW U \in SUBSET (1 .. top), top \in U
  PROVE  LastIn(U) = top
<1>1. \A m \in U : m \in Nat /\ m <= top
  OBVIOUS
<1>2. \E n \in U : \A m \in U : m <= n
  BY <1>1
<1> DEFINE l == LastIn(U)
<1>3. l \in U /\ \A m \in U : m <= l
  BY <1>2 DEF LastIn
<1> HIDE DEF l
<1>4. l = top
  BY <1>1, <1>3
<1> QED BY <1>4 DEF l

\* Nothing has been read.
LEMMA InitRead == Init => ReadInv
<1> SUFFICES ASSUME Init PROVE ReadInv
  OBVIOUS
<1>1. argv = 1 /\ status = "OK" /\ pc = "parse" /\ \A k \in DOMAIN Options : data[k] = Junk
  BY DEF Init
<1>2. Begins[1] /\ ~Begins[0]
  <2>1. 0 \notin AfterBool(args) /\ 0 \notin AfterArgument(args)
    BY DEF AfterBool, AfterArgument
  <2>2. 0 \in Nat /\ 1 \in Nat /\ 0 # 1
    OBVIOUS
  <2> QED BY <2>1, <2>2, BeginsAre, Zenon
<1>3. \A k \in DOMAIN Options : Uses(k) = {}
  <2>1. 1 .. argv - 1 = {}
    BY <1>1
  <2> QED BY <2>1 DEF Uses
<1>4. \A k \in DOMAIN Options : Right(Uses(k), k, args, data[k])
  BY <1>1, <1>3 DEF Right
<1> QED BY <1>1, <1>2, <1>4 DEF ReadInv

\* A step that reads nothing.
LEMMA NothingReadKeepsRead ==
  ASSUME ReadInv, UNCHANGED <<args, argc, argv, data>>,
         status' = "OK" => status = "OK",
         pc' = "returned" => status' = "OK",
         status' = "OK" /\ pc' \in {"apply", "returned"} /\ argc > 0 => ~IsFlag(argv)
  PROVE  ReadInv'
<1>1. Begins' = Begins
  BY SameReading
<1>2. \A k : Uses(k)' = Uses(k)
  BY <1>1 DEF Uses
<1>3. /\ \A n \in 1 .. argv' - 1 : Begins'[n] => NamesOne(args'[n])
      /\ status' = "OK" =>
           /\ Begins'[argv']
           /\ Begins'[argv' - 1] =>
                \A k \in DOMAIN Options : Names(args'[argv' - 1], k) => ~NeedsArg(k)
  BY <1>1 DEF ReadInv
<1>4. status' = "OK" =>
        \A k \in DOMAIN Options : Right(Uses(k)', k, args', data'[k])
  BY <1>2 DEF ReadInv
<1>5. status' = "OK" /\ pc' \in {"apply", "returned"} /\ argc' > 0 => ~IsFlag(argv)'
  BY DEF IsFlag
<1> QED BY <1>3, <1>4, <1>5, Zenon DEF ReadInv

\* What follows the option at argv.
LEMMA OptionFollowed ==
  ASSUME Inv, ReadInv, AtOption
  PROVE  /\ argv \in 1 .. Len(args) /\ Len(args) \in Nat /\ args[argv] \in Argument
         /\ args[argv].shape \in {"short", "long"} /\ status = "OK" /\ Begins[argv]
         /\ spec \in DOMAIN Options
         /\ \A k \in DOMAIN Options : Names(args[argv], k) <=> k = spec
         /\ IsBool(spec) => Begins[argv + 1]
         /\ NeedsArg(spec) => ~Begins[argv + 1]
         /\ NeedsArg(spec) /\ argc > 1 => Begins[argv + 2]
<1>1. /\ args \in Seq(Argument) /\ argc \in Nat /\ argv \in Nat \ {0} /\ argc > 0
      /\ argv + argc = Len(args) + 1 /\ status = "OK"
      /\ args[argv].shape \in {"short", "long"} /\ spec # NULL
  BY DEF Inv, TypeOK, LoopInv, AtOption, AtFlag, IsFlag
<1>2. argv \in 1 .. Len(args) /\ Len(args) \in Nat
  BY <1>1, LenProperties
<1>3. args[argv] \in Argument
  BY <1>2, InArgs DEF Inv
<1>4. /\ Begins[argv]
      /\ Begins[argv - 1] =>
           \A k \in DOMAIN Options : Names(args[argv - 1], k) => ~NeedsArg(k)
  BY <1>1 DEF ReadInv
<1>5. spec \in DOMAIN Options /\ \A k \in DOMAIN Options : Names(args[argv], k) <=> k = spec
  BY <1>1, <1>3, SpecIsNamed DEF spec
<1>6. /\ argv \in Nat /\ argv + 1 \in Nat /\ argv + 2 \in Nat /\ argv - 1 \in Nat
      /\ (argv + 1) - 1 = argv /\ (argv + 2) - 2 = argv /\ (argv + 1) - 2 = argv - 1
      /\ argv + 1 <= Len(args) + 1 /\ argv + 1 > 1 /\ argv + 1 # 1 /\ argv + 2 > 2
      /\ argc > 1 => argv + 2 <= Len(args) + 1
  BY <1>1, <1>2
<1>7. argv + 1 \in AfterBool(args) <=> IsBool(spec)
  BY <1>5, <1>6, Zenon DEF AfterBool
<1>8. argc > 1 /\ NeedsArg(spec) => argv + 2 \in AfterArgument(args)
  BY <1>5, <1>6, Zenon DEF AfterArgument
<1>9. ~ (argv + 1 \in AfterArgument(args) /\ Begins[(argv + 1) - 2])
  <2>1. argv + 1 \in AfterArgument(args) =>
          \E k \in DOMAIN Options : Names(args[argv - 1], k) /\ NeedsArg(k)
    BY <1>6, Zenon DEF AfterArgument
  <2> QED BY <1>4, <1>6, <2>1, Zenon
<1>10. IsBool(spec) => ~NeedsArg(spec)
  BY DEF IsBool, NeedsArg, WithArgument, Integral, Real
<1>11. Begins[argv + 1] <=> IsBool(spec)
  BY <1>4, <1>6, <1>7, <1>9, BeginsAre, Zenon
<1>12. NeedsArg(spec) /\ argc > 1 => Begins[argv + 2]
  BY <1>4, <1>6, <1>8, BeginsAre, Zenon
<1> QED BY <1>1, <1>2, <1>3, <1>4, <1>5, <1>10, <1>11, <1>12

\* An option is stored.
LEMMA OptionKeepsRead ==
  ASSUME Inv, ReadInv, AtOption, NEW d, NEW width \in {1, 2},
         args' = args, argv' = argv + width, status' = status, pc' = pc,
         data' = [data EXCEPT ![spec] = d],
         width = 1 => /\ IsBool(spec)
                      /\ d = (args[argv].name \in {Options[spec].letter, Options[spec].name}),
         width = 2 => /\ NeedsArg(spec) /\ argc > 1
                      /\ Says(args[argv + 1], Options[spec].type, d)
  PROVE  ReadInv'
<1>1. /\ argv \in 1 .. Len(args) /\ Len(args) \in Nat /\ status = "OK" /\ Begins[argv]
      /\ spec \in DOMAIN Options
      /\ \A k \in DOMAIN Options : Names(args[argv], k) <=> k = spec
      /\ width = 1 => Begins[argv + 1]
      /\ width = 2 => ~Begins[argv + 1] /\ Begins[argv + 2]
  BY OptionFollowed
<1>2. Begins' = Begins
  BY SameReading
<1>3. pc = "parse" /\ DOMAIN data = DOMAIN Options
  BY DEF AtOption, AtFlag, Inv, TypeOK
<1> DEFINE B == Begins
<1>4. \A n \in 1 .. argv' - 1 :
        n \in 1 .. argv - 1 \/ n = argv \/ (width = 2 /\ n = argv + 1)
  BY <1>1
<1>5. \A n \in 1 .. argv' - 1 : B[n] => n \in 1 .. argv - 1 \/ n = argv
  BY <1>1, <1>4
<1>6. 1 .. argv - 1 \subseteq 1 .. argv' - 1 /\ argv \in 1 .. argv' - 1
      /\ argv \notin 1 .. argv - 1
  BY <1>1
<1>7. \A n \in 1 .. argv' - 1 : B[n] => NamesOne(args[n])
  <2>1. NamesOne(args[argv])
    BY <1>1 DEF NamesOne
  <2> QED BY <1>5, <2>1 DEF ReadInv
<1>8. B[argv']
  BY <1>1
<1>9. B[argv' - 1] => \A k \in DOMAIN Options : Names(args[argv' - 1], k) => ~NeedsArg(k)
  <2>1. CASE width = 1
    <3>1. argv' - 1 = argv
      BY <1>1, <2>1
    <3>2. ~NeedsArg(spec)
      BY <2>1 DEF IsBool, NeedsArg, WithArgument, Integral, Real
    <3> QED BY <1>1, <3>1, <3>2
  <2>2. CASE width = 2
    <3>1. argv' - 1 = argv + 1
      BY <1>1, <2>2
    <3> QED BY <1>1, <2>2, <3>1
  <2> QED BY <2>1, <2>2
<1>10. \A k \in DOMAIN Options :
         Uses(k)' = IF k = spec THEN Uses(k) \cup {argv} ELSE Uses(k)
  <2> TAKE k \in DOMAIN Options
  <2>1. Uses(k)' = {n \in 1 .. argv' - 1 : B[n] /\ Names(args[n], k)}
    BY <1>2 DEF Uses
  <2>2. Uses(k) = {n \in 1 .. argv - 1 : B[n] /\ Names(args[n], k)}
    BY DEF Uses
  <2> HIDE DEF B
  <2>3. B[argv]
    BY <1>1 DEF B
  <2> QED BY <1>1, <1>5, <1>6, <2>1, <2>2, <2>3
<1>11. \A k \in DOMAIN Options : Right(Uses(k), k, args, data[k])
  BY <1>1 DEF ReadInv
<1>12. ASSUME NEW k \in DOMAIN Options
       PROVE  Right(Uses(k)', k, args', data'[k])
  <2>1. CASE k # spec
    <3>1. Uses(k)' = Uses(k) /\ data'[k] = data[k]
      BY <1>3, <1>10, <2>1
    <3> QED BY <1>11, <3>1
  <2>2. CASE k = spec
    <3> DEFINE U == Uses(spec) \cup {argv}
    <3>1. Uses(k)' = U /\ data'[k] = d
      BY <1>3, <1>10, <2>2
    <3>2. U \in SUBSET (1 .. argv) /\ argv \in U /\ argv \in Nat
      BY <1>1 DEF Uses
    <3> HIDE DEF U
    <3>3. LastIn(U) = argv /\ U # {}
      BY <3>2, LastOfNumbers
    <3>4. ASSUME width = 1 PROVE Right(U, spec, args, d)
      BY <3>3, <3>4 DEF Right
    <3>5. ASSUME width = 2 PROVE Right(U, spec, args, d)
      <4>1. ~IsBool(spec)
        BY <3>5 DEF IsBool, NeedsArg, WithArgument, Integral, Real
      <4> QED BY <3>3, <3>5, <4>1 DEF Right
    <3>6. Right(U, spec, args, d)
      BY <3>4, <3>5
    <3> QED BY <2>2, <3>1, <3>6
  <2> QED BY <2>1, <2>2
<1> QED BY <1>2, <1>3, <1>7, <1>8, <1>9, <1>12 DEF ReadInv

LEMMA TakeBoolKeepsRead == ASSUME Inv, ReadInv, TakeBool PROVE ReadInv'
<1>1. /\ AtOption /\ IsBool(spec)
      /\ data' = [data EXCEPT ![spec] = Value(args[argv])]
      /\ args' = args /\ argv' = argv + 1 /\ status' = status /\ pc' = pc
  BY DEF TakeBool, Advance
<1>2. Value(args[argv]) =
        (args[argv].name \in {Options[spec].letter, Options[spec].name})
  BY <1>1, OptionFollowed, SpecIsNamed DEF spec, AtOption
<1>3. /\ 1 \in {1, 2}
      /\ 1 = 1 => /\ IsBool(spec)
                  /\ Value(args[argv]) =
                       (args[argv].name \in {Options[spec].letter, Options[spec].name})
      /\ 1 = 2 => /\ NeedsArg(spec) /\ argc > 1
                  /\ Says(args[argv + 1], Options[spec].type, Value(args[argv]))
  BY <1>1, <1>2
<1> QED BY <1>1, <1>3, OptionKeepsRead, Zenon

LEMMA TakeArgumentKeepsRead == ASSUME Inv, ReadInv, TakeArgument PROVE ReadInv'
<1> DEFINE type == Options[spec].type
           value == args[argv + 1]
<1>1. /\ AtOption /\ NeedsArg(spec) /\ argc > 1
      /\ Accepts(type, value, errno')
      /\ data' = [data EXCEPT ![spec] = Converted(type, value)]
      /\ args' = args /\ argv' = argv + 2 /\ status' = status /\ pc' = pc
  BY DEF TakeArgument, Advance
<1>2. value \in Argument /\ type \in WithArgument
  <2>1. argv + 1 \in 1 .. Len(args)
    BY <1>1, OptionFollowed DEF Inv, LoopInv, TypeOK
  <2> QED BY <1>1, <2>1, InArgs DEF Inv, NeedsArg
<1>3. Says(value, type, Converted(type, value))
  BY <1>1, <1>2, ConvertedIsSaid
<1> DEFINE d == Converted(type, value)
<1> HIDE DEF d
<1>4. /\ 2 \in {1, 2}
      /\ 2 = 1 => /\ IsBool(spec)
                  /\ d = (args[argv].name \in {Options[spec].letter, Options[spec].name})
      /\ 2 = 2 => /\ NeedsArg(spec) /\ argc > 1
                  /\ Says(args[argv + 1], Options[spec].type, d)
  BY <1>1, <1>3 DEF d
<1>5. data' = [data EXCEPT ![spec] = d]
  BY <1>1 DEF d
<1> QED BY <1>1, <1>4, <1>5, OptionKeepsRead, Zenon

LEMMA RefuseArgumentKeepsRead == ASSUME Inv, ReadInv, RefuseArgument PROVE ReadInv'
<1>1. /\ AtOption /\ args' = args /\ argv' = argv + 1
      /\ status' = "BAD_FORMAT" /\ pc' = "apply"
  BY DEF RefuseArgument, Advance, ParseReturns
<1>2. Begins' = Begins
  BY <1>1, SameReading
<1>3. argv \in Nat /\ NamesOne(args[argv])
  BY <1>1, OptionFollowed DEF NamesOne
<1>4. \A n \in 1 .. argv' - 1 : n \in 1 .. argv - 1 \/ n = argv
  BY <1>1, <1>3
<1> QED BY <1>1, <1>2, <1>3, <1>4 DEF ReadInv

LEMMA NextKeepsRead == Inv /\ ReadInv /\ [Next]_vars => ReadInv'
<1> SUFFICES ASSUME Inv, ReadInv, [Next]_vars PROVE ReadInv'
  OBVIOUS
<1>1. CASE ParseEnds
  BY <1>1, NothingReadKeepsRead DEF ParseEnds, ParseReturns, Inv, LoopInv
<1>2. CASE NegspecCrashes
  BY <1>2, NothingReadKeepsRead DEF NegspecCrashes
<1>3. CASE Undefined
  BY <1>3, NothingReadKeepsRead DEF Undefined, ParseReturns
<1>4. CASE ArgumentMissing
  BY <1>4, NothingReadKeepsRead DEF ArgumentMissing, ParseReturns
<1>5. CASE TakeBool
  BY <1>5, TakeBoolKeepsRead
<1>6. CASE Help
  BY <1>6, NothingReadKeepsRead DEF Help, ParseReturns
<1>7. CASE TakeArgument
  BY <1>7, TakeArgumentKeepsRead
<1>8. CASE RefuseArgument
  BY <1>8, RefuseArgumentKeepsRead
<1>9. CASE Apply
  <2>1. /\ UNCHANGED <<args, argc, argv, data>> /\ status' = status /\ pc = "apply"
        /\ pc' = "returned" => status = "OK"
    BY <1>9 DEF Apply
  <2>2. status = "OK" /\ argc > 0 => ~IsFlag(argv)
    BY <2>1 DEF ReadInv
  <2> QED BY <2>1, <2>2, NothingReadKeepsRead
<1>10. CASE UNCHANGED vars
  <2>1. UNCHANGED <<args, argc, argv, data>> /\ status' = status /\ pc' = pc
    BY <1>10 DEF vars
  <2>2. /\ pc = "returned" => status = "OK"
        /\ status = "OK" /\ pc \in {"apply", "returned"} /\ argc > 0 => ~IsFlag(argv)
    BY DEF ReadInv
  <2> QED BY <2>1, <2>2, NothingReadKeepsRead
<1> QED BY <1>1, <1>2, <1>3, <1>4, <1>5, <1>6, <1>7, <1>8, <1>9, <1>10 DEF Next, Step

LEMMA ReadInvariance == Spec => [](Inv /\ ReadInv)
<1>1. Init => Inv /\ ReadInv
  BY InitInv, InitRead
<1>2. (Inv /\ ReadInv) /\ [Next]_vars => (Inv /\ ReadInv)'
  BY NextKeepsInv, NextKeepsRead
<1> QED BY <1>1, <1>2, PTL DEF Spec

\* When the options have been read, no other option begins after them.
LEMMA NothingBeyond ==
  ASSUME Inv, ReadInv, pc = "returned"
  PROVE  \A n \in Nat : n > argv => ~Begins[n]
<1> DEFINE W == {n \in Nat : n > argv /\ Begins[n]}
<1> SUFFICES ASSUME W # {} PROVE FALSE
  OBVIOUS
<1>1. PICK n \in W : \A m \in W : n <= m
  <2>1. W \in SUBSET Nat /\ W # {}
    OBVIOUS
  <2> HIDE DEF W
  <2>2. \E n \in W : \A m \in W : ~ (<<m, n>> \in OpToRel(<, Nat))
    BY <2>1, WFMin, NatLessThanWellFounded, Zenon
  <2>3. \A m, n \in W : m < n => <<m, n>> \in OpToRel(<, Nat)
    BY <2>1 DEF OpToRel
  <2>4. \E n \in W : \A m \in W : ~ (m < n)
    BY <2>2, <2>3, Zenon
  <2> QED BY <2>1, <2>4
<1>2. /\ args \in Seq(Argument) /\ argv \in Nat \ {0} /\ argc \in Nat
      /\ argv + argc = Len(args) + 1 /\ status = "OK"
      /\ argc > 0 => ~IsFlag(argv)
  BY DEF Inv, TypeOK, LoopInv, ReadInv
<1>3. n \in Nat /\ n > argv /\ Begins[n] /\ \A m \in Nat : m > argv /\ m < n => ~Begins[m]
  BY <1>1, <1>2
<1>4. argc > 0 => \A k \in DOMAIN Options : ~Names(args[argv], k)
  BY <1>2 DEF IsFlag, Names
<1>5. Begins[argv - 1] =>
        \A k \in DOMAIN Options : Names(args[argv - 1], k) => ~NeedsArg(k)
  BY <1>2 DEF ReadInv
<1>6. Len(args) \in Nat
  BY <1>2, LenProperties
<1>7. n # 1 /\ n - 1 \in Nat /\ n - 1 < n /\ n - 2 < n /\ (n > 2 => n - 2 \in Nat)
  BY <1>2, <1>3
<1>8. ~ (n \in AfterBool(args) /\ Begins[n - 1])
  <2> SUFFICES ASSUME n \in AfterBool(args), Begins[n - 1] PROVE FALSE
    OBVIOUS
  <2>1. /\ n <= Len(args) + 1
        /\ \E k \in DOMAIN Options : Names(args[n - 1], k)
    BY DEF AfterBool
  <2>2. n - 1 = argv
    BY <1>2, <1>3, <1>7
  <2>3. argc > 0
    BY <1>2, <1>6, <2>1, <2>2
  <2> QED BY <1>4, <2>1, <2>2, <2>3
<1>9. ~ (n \in AfterArgument(args) /\ Begins[n - 2])
  <2> SUFFICES ASSUME n \in AfterArgument(args), Begins[n - 2] PROVE FALSE
    OBVIOUS
  <2>1. /\ n > 2 /\ n <= Len(args) + 1
        /\ \E k \in DOMAIN Options : Names(args[n - 2], k) /\ NeedsArg(k)
    BY DEF AfterArgument
  <2>2. n - 2 = argv \/ n - 2 = argv - 1
    BY <1>2, <1>3, <1>7, <2>1
  <2>3. CASE n - 2 = argv
    <3>1. argc > 0
      BY <1>2, <1>3, <1>6, <2>1, <2>3
    <3> QED BY <1>4, <2>1, <2>3, <3>1
  <2>4. CASE n - 2 = argv - 1
    BY <1>5, <2>1, <2>4
  <2> QED BY <2>2, <2>3, <2>4
<1> QED BY <1>3, <1>7, <1>8, <1>9, BeginsAre, Zenon

\* When the options have been read, every option has what the last of its
\* occurrences says, exactly if its type can hold it, and no option's value
\* has been taken for an option (cflag.c:222, 244).
THEOREM LastUseWins == Spec => []LastOneWins
<1>1. ReadInv => LastOneWins
  <2> SUFFICES ASSUME ReadInv, pc = "returned"
               PROVE  /\ Begins[argv]
                      /\ \A k \in DOMAIN Options : Right(Uses(k), k, args, data[k])
    BY Zenon DEF LastOneWins, Right, Uses, LastIn
  <2> QED BY DEF ReadInv
<1> QED BY <1>1, ReadInvariance, PTL

\* Parsing never goes past an argument that looks like an option and is none
\* of them (cflag.c:194-210).
THEOREM StopsAtUnknown == Spec => []UnknownStops
<1>1. Inv /\ ReadInv => UnknownStops
  <2> SUFFICES ASSUME Inv, ReadInv, NEW n \in DOMAIN args,
                      Begins[n], IsFlag(n), ~NamesOne(args[n])
               PROVE  argv <= n /\ pc # "returned"
    BY DEF UnknownStops
  <2>1. /\ args \in Seq(Argument) /\ argv \in Nat \ {0} /\ argc \in Nat
        /\ argv + argc = Len(args) + 1
    BY DEF Inv, TypeOK, LoopInv
  <2>2. n \in 1 .. Len(args) /\ Len(args) \in Nat
    BY <2>1, LenProperties
  <2>3. argv <= n
    <3>1. n \notin 1 .. argv - 1
      BY DEF ReadInv
    <3> QED BY <2>1, <2>2, <3>1
  <2>4. ASSUME pc = "returned" PROVE FALSE
    <3>1. n = argv
      BY <2>1, <2>2, <2>3, <2>4, NothingBeyond
    <3>2. argc > 0
      BY <2>1, <2>2, <3>1
    <3> QED BY <2>4, <3>1, <3>2 DEF ReadInv
  <2> QED BY <2>3, <2>4
<1> QED BY <1>1, ReadInvariance, PTL

=============================================================================
