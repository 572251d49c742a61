--------------------------- MODULE MCCommandLine ----------------------------
(***************************************************************************)
(* One option of each type, and all command lines of up to three arguments:*)
(* every option, the forms that negate a bool, an option that has no       *)
(* argument to negate and an unknown one, unknown options, and values that *)
(* fit, are too large for an int of 8 or a long of 15 bits, are reals, are *)
(* empty, or look like options; and of four arguments those from a smaller *)
(* choice, with which an earlier value may spoil the conversion of a later *)
(* one.                                                                    *)
(***************************************************************************)
EXTENDS CommandLine, SequencesExt

MCOptions ==
  <<[type |-> "int", letter |-> "T", name |-> "time"],
    [type |-> "double", letter |-> "X", name |-> "prob"],
    [type |-> "bool", letter |-> "v", name |-> "verbose"],
    [type |-> "uint", letter |-> "u", name |-> "uint"],
    [type |-> "float", letter |-> "f", name |-> "float"],
    [type |-> "string", letter |-> "s", name |-> "string"],
    [type |-> "bytes", letter |-> "b", name |-> "bytes"],
    [type |-> "timei", letter |-> "w", name |-> "wait"],
    [type |-> "help", letter |-> "h", name |-> "help"]>>

Flag(shape, name) ==
  [shape |-> shape, name |-> name, positive |-> None, number |-> None, rest |-> "-",
   real |-> FALSE, range |-> {}]
No(name) == [Flag("long", "no-" \o name) EXCEPT !.positive = name]
Number(n, rest) ==
  [shape |-> "plain", name |-> "", positive |-> None, number |-> n, rest |-> rest,
   real |-> rest = "", range |-> {}]

MCArgument ==
  {Flag("short", l) : l \in {"T", "X", "v", "u", "f", "s", "b", "w", "h", "q"}}
  \cup {Flag("long", "verbose"), No("verbose"), No("time"), No("junk"), Flag("stop", "-")}
  \cup {Number(None, ""), Number(7, ""), Number(300, "k"), Number(2, "w"),
        Number(40000, ""), Number(-40000, "")}
  \cup {[Number(1, "e") EXCEPT !.real = TRUE, !.range = {"float"}],
        [Number(-1, "") EXCEPT !.shape = "short", !.name = "1"]}

MCFew ==
  {Flag("short", l) : l \in {"T", "X", "b", "w"}}
  \cup {Flag("long", "verbose"), No("verbose"), Number(7, ""), Number(40000, "")}
  \cup {[Number(-1, "") EXCEPT !.shape = "short", !.name = "1"]}

MCCommandLines == BoundedSeq(MCArgument, 3) \cup BoundedSeq(MCFew, 4)

=============================================================================
