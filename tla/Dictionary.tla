----------------------------- MODULE Dictionary -----------------------------
(***************************************************************************)
(* What hashmap.h promises of a hash map: calls that look up, set and      *)
(* delete the value of a key and return the value it had, or Null.  A set  *)
(* that needs memory and gets none changes nothing and says so in oom.     *)
(* A call is asked, takes effect once, at any time, and returns.           *)
(*                                                                         *)
(* hashmap_oom is said to tell whether the last hashmap_set failed         *)
(* (hashmap.c:504-505), but hashmap_delete resets what it tells            *)
(* (hashmap.c:434).  What a caller may rely on is less than either: oom is *)
(* the outcome of the last set as long as no key has been deleted since.   *)
(***************************************************************************)
CONSTANTS
  Key, Value, Null,
  OtherCall     \* calls that have no effect on what is in the map

VARIABLES
  dict,       \* a function from the keys that are set to their values
  call,       \* the arguments of the current call
  stage,      \* "idle", "asked" or "answered"
  ret, oom

vars == <<dict, call, stage, ret, oom>>

Call == [op : {"get", "delete"}, key : Key]
        \cup [op : {"set"}, key : Key, value : Value]
        \cup [op : {"clear"}]
        \cup OtherCall
NoCall == [op |-> "none"]

Lookup(k) == IF k \in DOMAIN dict THEN dict[k] ELSE Null
With(k, v) == [l \in DOMAIN dict \cup {k} |-> IF l = k THEN v ELSE dict[l]]
Without(k) == [l \in DOMAIN dict \ {k} |-> dict[l]]

Init ==
  /\ dict = <<>>
  /\ call = NoCall
  /\ stage = "idle"
  /\ ret = Null
  /\ oom = FALSE

\* A set starts with oom reset; a delete may or may not reset it.
Ask(c) ==
  /\ stage = "idle" /\ stage' = "asked"
  /\ call' = c
  /\ oom' \in CASE c.op = "set"    -> {FALSE}
                [] c.op = "delete" -> {oom, FALSE}
                [] OTHER           -> {oom}
  /\ UNCHANGED <<dict, ret>>

Get == call.op = "get" /\ ret' = Lookup(call.key) /\ UNCHANGED <<dict, oom>>

Set ==
  /\ call.op = "set"
  /\ dict' = With(call.key, call.value)
  /\ ret' = Lookup(call.key)
  /\ UNCHANGED oom

Refuse == call.op = "set" /\ oom' = TRUE /\ UNCHANGED <<dict, ret>>

Delete ==
  /\ call.op = "delete"
  /\ dict' = Without(call.key)
  /\ ret' = Lookup(call.key)
  /\ UNCHANGED oom

Clear == call.op = "clear" /\ dict' = <<>> /\ UNCHANGED <<ret, oom>>

Other == call \in OtherCall /\ UNCHANGED <<dict, ret, oom>>

Answer ==
  /\ stage = "asked" /\ stage' = "answered"
  /\ Get \/ Set \/ Refuse \/ Delete \/ Clear \/ Other
  /\ UNCHANGED call

Return ==
  /\ stage = "answered" /\ stage' = "idle"
  /\ call' = NoCall /\ ret' = Null
  /\ UNCHANGED <<dict, oom>>

Next == Answer \/ Return \/ \E c \in Call : Ask(c)

Spec == Init /\ [][Next]_vars

=============================================================================
