---------------------------- MODULE CommandLine -----------------------------
(***************************************************************************)
(* cflag_apply and cflag_parse of src/src/cflag.c, by which                *)
(* initialize_parameters of src/src/utils.c reads the command line, one    *)
(* turn of the loop of cflag_parse at a time, with all the conversions     *)
(* that an option may name.                                                *)
(*                                                                         *)
(* An argument is a record of what the code can tell of it:                *)
(*   shape     "short", "long", "stop" (that is, --) or "plain"            *)
(*   name      what follows its hyphens                                    *)
(*   positive  what follows --no-, or None                                 *)
(*   number    the integer it begins with, or None                         *)
(*   rest      the character after that number, "" if there is none        *)
(*   real      whether it is nothing but a real number, or empty           *)
(*   range     the types of reals that are too narrow for its number       *)
(* The integers are written without a leading 0, which would make one      *)
(* octal to strtoull but not to sscanf.                                    *)
(***************************************************************************)
EXTENDS Integers, Sequences

CONSTANTS
  Options,          \* the array of struct cflag before CFLAG_END
  Argument,         \* the arguments and
  CommandLines,     \* sequences of them that may follow argv[0]
  IntMax, LongMax,  \* the largest int and the largest long
  None, Junk        \* no number or name; data that was never written

Integral == {"int", "uint", "bytes", "timei"}
Real == {"float", "double"}
WithArgument == Integral \cup Real \cup {"string"}
Type == WithArgument \cup {"bool", "help"}

ASSUME OptionsAssumption == Options \in Seq([type : Type, letter : STRING, name : STRING])
ASSUME ArgumentAssumption ==
  \A a \in Argument :
    /\ a.shape \in {"short", "long", "stop", "plain"}
    /\ a.number \in Int \cup {None}
    /\ a.real \in BOOLEAN /\ a.range \subseteq Real
ASSUME CommandLinesAssumption == CommandLines \subseteq Seq(Argument)
\* No two options have a letter or a name in common, and none is called as
\* another one is negated.
ASSUME NamesAssumption ==
  \A k \in DOMAIN Options :
    /\ \A l \in DOMAIN Options \ {k} : /\ Options[k].letter # Options[l].letter
                                        /\ Options[k].name # Options[l].name
    /\ \A a \in Argument : a.positive # None =>
         a.name \notin {Options[k].letter, Options[k].name}
    /\ Options[k].name # None
ASSUME WidthAssumption ==
  IntMax \in Nat /\ LongMax \in Nat /\ IntMax <= LongMax /\ None \notin Int

VARIABLES
  args,         \* the arguments, which never change
  argc, argv,   \* how many are left, and the place of the first of them
  data,         \* what each option's pointer data points to
  errno,        \* whether errno is ERANGE
  status,       \* the cflag_status
  pc            \* "parse" in the loop, "apply" after it, or how cflag_apply ended

vars == <<args, argc, argv, data, errno, status, pc>>

UIntMax == 2 * IntMax + 1
ULongMax == 2 * LongMax + 1

-----------------------------------------------------------------------------
(***************************************************************************)
(* The conversions cflag_int to cflag_timei.  Those of a real find the     *)
(* errno of whatever came before them.                                     *)
(***************************************************************************)
ByteUnit(c) ==
  CASE c \in {"g", "G"} -> 1024 * 1024 * 1024
    [] c \in {"m", "M"} -> 1024 * 1024
    [] c \in {"k", "K"} -> 1024
    [] OTHER -> 1

TimeUnits == {"y", "M", "w", "d", "h", "m", "s", ""}
TimeUnit(c) ==
  CASE c = "y" -> 60 * 60 * 24 * 365
    [] c = "M" -> 60 * 60 * 24 * 30
    [] c = "w" -> 60 * 60 * 24 * 7
    [] c = "d" -> 60 * 60 * 24
    [] c = "h" -> 60 * 60
    [] c = "m" -> 60
    [] OTHER -> 1

\* sscanf reads an int as a long and an unsigned as an unsigned long.
OutOfRange(type, a) ==
  IF type \in Real THEN type \in a.range
  ELSE /\ type \in Integral /\ a.number # None
       /\ a.number \notin (IF type = "int" THEN -LongMax - 1 ELSE -ULongMax)
                          .. (IF type = "int" THEN LongMax ELSE ULongMax)

\* What strtol and strtoull return.
Long(a) ==
  CASE ~OutOfRange("int", a) -> a.number
    [] a.number > LongMax -> LongMax
    [] OTHER -> -LongMax - 1
UnsignedLong(a) ==
  CASE a.number = None -> 0
    [] OutOfRange("uint", a) -> ULongMax
    [] OTHER -> a.number % (ULongMax + 1)

\* The product with a unit, in an unsigned long.
Times(n, unit) == (n * (unit % (ULongMax + 1))) % (ULongMax + 1)

IntUncut(n) == n

\* The int that n is stored as.
ToInt(n) == ((n + IntMax + 1) % (UIntMax + 1)) - (IntMax + 1)

\* Whether the argument a is accepted, when erange says whether errno is
\* ERANGE after its conversion, and what is then stored.
Accepts(type, a, erange) ==
  CASE type \in {"int", "uint"} -> a.number # None
    [] type \in Real -> ~erange /\ a.real
    [] type = "bytes" -> ~(UnsignedLong(a) = ULongMax /\ erange)
    [] type = "timei" -> /\ ~(UnsignedLong(a) = ULongMax /\ erange)
                         /\ a.rest \in TimeUnits
    [] OTHER -> TRUE
Converted(type, a) ==
  CASE type = "int" -> ToInt(Long(a))
    [] type = "uint" -> UnsignedLong(a) % (UIntMax + 1)
    [] type = "bytes" -> Times(UnsignedLong(a), ByteUnit(a.rest))
    [] type = "timei" -> Times(UnsignedLong(a), TimeUnit(a.rest))
    [] OTHER -> a

-----------------------------------------------------------------------------
(***************************************************************************)
(* The options                                                             *)
(***************************************************************************)
NULL == 0

First(S) == IF S = {} THEN NULL ELSE CHOOSE k \in S : \A l \in S : k <= l

FindShort(letter) == First({k \in DOMAIN Options : Options[k].letter = letter})
FindLong(name) == First({k \in DOMAIN Options : Options[k].name = name})

\* A long flag that is no option but may be one that is negated.
Negated(a) == a.shape = "long" /\ FindLong(a.name) = NULL /\ a.positive # None

IsBool(k) == Options[k].type = "bool"

NegatesAny(k) == TRUE

\* func is cflag_bool.
Negates(k) == Options[k].type = "bool"

SpecOf(a) ==
  CASE a.shape = "short" -> FindShort(a.name)
    [] Negated(a) -> IF Negates(FindLong(a.positive)) THEN FindLong(a.positive) ELSE NULL
    [] OTHER -> FindLong(a.name)

NeedsArg(k) == Options[k].type \in WithArgument

-----------------------------------------------------------------------------
Init ==
  /\ args \in CommandLines
  /\ argc = Len(args) /\ argv = 1
  /\ data = [k \in DOMAIN Options |-> Junk]
  /\ errno = FALSE
  /\ status = "OK" /\ pc = "parse"

IsFlag(n) == args[n].shape \in {"short", "long"}

\* There is no negspec to look at the func of.
NoNegspec(n) == Negated(args[n]) /\ FindLong(args[n].positive) = NULL

\* cflag_parse returns s.
ParseReturns(s) == status' = s /\ pc' = "apply"

AdvanceUncounted(n) == argc' = argc - 1 /\ argv' = argv + n

Advance(n) == argc' = argc - n /\ argv' = argv + n

\* The arguments, or the options, are at their end.
ParseEnds ==
  /\ pc = "parse"
  /\ argc > 0 => ~IsFlag(argv)
  /\ ParseReturns("OK")
  /\ UNCHANGED <<args, argc, argv, data, errno>>

\* The option at argv, if it is one.
spec == SpecOf(args[argv])

AtFlag == pc = "parse" /\ argc > 0 /\ IsFlag(argv) /\ ~NoNegspec(argv)
AtOption == AtFlag /\ spec # NULL

NegspecCrashes ==
  /\ pc = "parse" /\ argc > 0
  /\ IsFlag(argv) /\ NoNegspec(argv)
  /\ pc' = "crashed"
  /\ UNCHANGED <<args, argc, argv, data, errno, status>>

Undefined ==
  /\ AtFlag /\ spec = NULL
  /\ ParseReturns("UNDEFINED")
  /\ UNCHANGED <<args, argc, argv, data, errno>>

ArgumentMissing ==
  /\ AtOption /\ NeedsArg(spec)
  /\ argc = 1
  /\ ParseReturns("NEEDS_ARG")
  /\ UNCHANGED <<args, argc, argv, data, errno>>

ValueUnfixed(a) == TRUE

\* cflag_bool, and the fixup after it
Value(a) == ~Negated(a)

TakeBool ==
  /\ AtOption /\ IsBool(spec)
  /\ data' = [data EXCEPT ![spec] = Value(args[argv])]
  /\ Advance(1)
  /\ UNCHANGED <<args, errno, status, pc>>

\* cflag_help
Help ==
  /\ AtOption /\ Options[spec].type = "help"
  /\ ParseReturns("SHOW_HELP")
  /\ UNCHANGED <<args, argc, argv, data, errno>>

ErrnoAfterEinval(type, a) == errno \/ OutOfRange(type, a) \/ a.number = None

\* No conversion resets errno.
ErrnoAfter(type, a) == errno \/ OutOfRange(type, a)

\* The option takes what follows it, whatever that looks like.
TakeArgument ==
  LET type == Options[spec].type
      value == args[argv + 1]
  IN  /\ AtOption /\ NeedsArg(spec)
      /\ argc > 1
      /\ errno' = ErrnoAfter(type, value)
      /\ Accepts(type, value, errno')
      /\ data' = [data EXCEPT ![spec] = Converted(type, value)]
      /\ Advance(2)
      /\ UNCHANGED <<args, status, pc>>

RefuseArgument ==
  LET type == Options[spec].type
      value == args[argv + 1]
  IN  /\ AtOption /\ NeedsArg(spec)
      /\ argc > 1
      /\ errno' = ErrnoAfter(type, value)
      /\ ~Accepts(type, value, errno')
      /\ Advance(1)
      /\ ParseReturns("BAD_FORMAT")
      /\ UNCHANGED <<args, data>>

\* The rest of cflag_apply: the message about a wrong command line names the
\* argument at argv.
Apply ==
  /\ pc = "apply"
  /\ pc' = CASE status = "OK" -> "returned"
             [] status = "SHOW_HELP" -> "exit_success"
             [] OTHER -> "exit_failure"
  /\ UNCHANGED <<args, argc, argv, data, errno, status>>

Step ==
  \/ ParseEnds \/ NegspecCrashes \/ Undefined
  \/ TakeBool \/ Help \/ ArgumentMissing \/ TakeArgument \/ RefuseArgument
  \/ Apply

Ended == pc \in {"returned", "exit_success", "exit_failure", "crashed"}

Next == Step \/ (Ended /\ UNCHANGED vars)

Spec == Init /\ [][Next]_vars

-----------------------------------------------------------------------------
(***************************************************************************)
(* Properties                                                              *)
(***************************************************************************)

\* What an option of a type may store.
Stored(type) ==
  CASE type = "int" -> -IntMax - 1 .. IntMax
    [] type = "uint" -> 0 .. UIntMax
    [] type \in {"bytes", "timei"} -> 0 .. ULongMax
    [] type = "bool" -> BOOLEAN
    [] OTHER -> Argument

\* Every variable has its type, and what an option stored is of its kind.
TypeOK ==
  /\ args \in Seq(Argument)
  /\ argc \in Nat /\ argv \in Nat \ {0}
  /\ DOMAIN data = DOMAIN Options
  /\ \A k \in DOMAIN Options : data[k] # Junk => data[k] \in Stored(Options[k].type)
  /\ errno \in BOOLEAN
  /\ status \in {"OK", "SHOW_HELP", "UNDEFINED", "BAD_FORMAT", "NEEDS_ARG"}
  /\ pc \in {"parse", "apply", "returned", "exit_success", "exit_failure", "crashed"}

\* argc and argv, which go forward in different places, agree on what is left
\* of the arguments, and the message about a wrong command line names one of
\* them (cflag.c:222-223, 306).
InStep ==
  /\ argv + argc = Len(args) + 1
  /\ pc = "exit_failure" => argv \in DOMAIN args

\* a names option k, as it is or negated.
Names(a, k) ==
  \/ a.shape = "short" /\ a.name = Options[k].letter
  \/ a.shape = "long" /\ a.name = Options[k].name
  \/ a.shape = "long" /\ a.positive = Options[k].name /\ IsBool(k)
NamesOne(a) == \E k \in DOMAIN Options : Names(a, k)

\* How a command line is to be read: whether an option, or what comes after
\* the options, begins at a place.
Begins[n \in Nat] ==
  \/ n = 1
  \/ /\ n > 1 /\ n <= Len(args) + 1 /\ Begins[n - 1]
     /\ \E k \in DOMAIN Options : Names(args[n - 1], k) /\ IsBool(k)
  \/ /\ n > 2 /\ n <= Len(args) + 1 /\ Begins[n - 2]
     /\ \E k \in DOMAIN Options : Names(args[n - 2], k) /\ NeedsArg(k)

\* d is what the argument a says, if the type can hold that.
Says(a, type, d) ==
  LET unit == IF type = "bytes" THEN ByteUnit(a.rest) ELSE TimeUnit(a.rest)
  IN  CASE type = "int" -> a.number \in -IntMax - 1 .. IntMax => d = a.number
        [] type = "uint" -> a.number \in 0 .. UIntMax => d = a.number
        [] type \in {"bytes", "timei"} ->
             a.number # None => (a.number \in 0 .. ULongMax \div unit => d = a.number * unit)
        [] OTHER -> d = a

\* When the options have been read, each has the value that the last of its
\* occurrences gives it, exactly if its type can hold it, and is unset if
\* there is none (cflag.c:244, main.c:126); an argument is never taken for an
\* option where it is another option's value (cflag.c:222).
LastOneWins ==
  pc = "returned" =>
    /\ Begins[argv]
    /\ \A k \in DOMAIN Options :
         LET uses == {n \in 1 .. argv - 1 : Begins[n] /\ Names(args[n], k)}
             last == CHOOSE n \in uses : \A m \in uses : m <= n
         IN  CASE uses = {} -> data[k] = Junk
               [] uses # {} /\ IsBool(k) -> data[k] = (args[last].name \in
                                                   {Options[k].letter, Options[k].name})
               [] OTHER -> Says(args[last + 1], Options[k].type, data[k])

\* Parsing never goes past an argument that looks like an option and is none
\* of them, negated or not (cflag.c:194-210).
UnknownStops ==
  \A n \in DOMAIN args :
    Begins[n] /\ IsFlag(n) /\ ~NamesOne(args[n]) => argv <= n /\ pc # "returned"

\* An argument is refused only if it is wrong in itself, or if an integer
\* before it was too large for a long: its ERANGE is still in errno when a
\* real is read (cflag.c:348, 363) or when -1 is (cflag.c:387, 426).
RefusedForCause ==
  status = "BAD_FORMAT" =>
    LET type == Options[SpecOf(args[argv - 1])].type
        value == args[argv]
    IN  \/ ~Accepts(type, value, OutOfRange(type, value))
        \/ /\ type \in Real \cup {"bytes", "timei"}
           /\ \E n \in 1 .. argv - 1, t \in {"int", "uint"} : OutOfRange(t, args[n])

=============================================================================
