------------------------------ MODULE HashMap -------------------------------
(***************************************************************************)
(* The robin-hood hash map behind the table of service times               *)
(* (src/src/hashmap.c), one iteration of each of its loops at a time: the  *)
(* probing of get and delete, the insertion that swaps the entry it        *)
(* carries with one that is nearer to its own home bucket, the backward    *)
(* shift after a deletion, and the rehashing into a new array when the map *)
(* grows or shrinks, whose allocation may fail.                            *)
(*                                                                         *)
(* A bucket holds the distance dib of its entry from its home bucket, plus *)
(* one; 0 marks a free bucket, whose other contents are never read.  Equal *)
(* keys have equal hashes, so a comparison of the hash and the key is one  *)
(* of the key.  The 16 bits of dib are enough for any run of full buckets. *)
(***************************************************************************)
EXTENDS Integers, FiniteSets

CONSTANTS
  Key, Value, Null,
  Hash,         \* the hash of each key
  MinCap,       \* the smallest capacity (16)
  BaseCap,      \* argument cap of hashmap_new
  NaN,          \* the double that is not a number
  Factors,      \* load factors, in percent, and
  Powers        \* growth powers that callers ask for

ASSUME HashAssumption == Hash \in [Key -> Nat]
ASSUME MinCapAssumption == \E k \in 1 .. 4 : MinCap = 2 ^ k
ASSUME BaseCapAssumption == BaseCap \in Nat
ASSUME NullAssumption == Null \notin Value /\ Null \notin Key
ASSUME TuningAssumption == Factors \subseteq Int \cup {NaN} /\ Powers \subseteq Nat

VARIABLES
  buckets,      \* the allocated buckets, [0 .. n -> Bucket]
  nbuckets, cap, count, oom,
  loadfactor, growpower, growat,
  pc,           \* "ready" between calls, otherwise the loop the call is in
  call,         \* its operation and arguments, NoCall between calls
  entry,        \* edata, the entry that an insertion carries
  i, j,         \* locals of the loops, indices into buckets and fresh
  fresh,        \* the buckets of map2 in resize0
  ret           \* the value returned

locals == <<entry, i, j, fresh>>
tuning == <<loadfactor, growpower, growat>>
vars == <<buckets, nbuckets, cap, count, oom, tuning, pc, call, locals, ret>>

Free == [dib |-> 0, key |-> Null, value |-> Null]
Bucket == {Free} \cup [dib : Nat \ {0}, key : Key, value : Value]
Empty(n) == [m \in 0 .. n - 1 |-> Free]

\* The calls that only tune the map.
Tuning == [op : {"load_factor"}, factor : Factors] \cup [op : {"grow_by_power"}, power : Powers]

Call == [op : {"get", "delete"}, key : Key]
        \cup [op : {"set"}, key : Key, value : Value]
        \cup [op : {"clear"}]
        \cup Tuning
NoCall == [op |-> "none"]

\* The capacity hashmap_new makes of an argument n.
RoundUp(n) == LET ncap[c \in Nat] == IF c < n THEN ncap[c * 2] ELSE c IN ncap[MinCap]

ClampLoosely(factor, default) ==
  IF factor = NaN THEN default
  ELSE CASE factor < 50 -> 50 [] factor > 100 -> 100 [] OTHER -> factor

\* clamp_load_factor, in percent; what doubles lose on the way is left out.
Clamp(factor, default) ==
  IF factor = NaN THEN default
  ELSE CASE factor < 50 -> 50 [] factor > 95 -> 95 [] OTHER -> factor

\* growat and shrinkat of a map of n buckets; GROW_AT, the factor of new maps.
GrowAt(n, factor) == (n * factor) \div 100
GROW_AT == 60
ShrinkAt(n) == n \div 10

HomeUnmasked(k, n) == Hash[k] % (n + 1)

\* The bucket an entry has at distance 0, hash & mask.
Home(k, n) == Hash[k] % n

Init ==
  /\ cap = RoundUp(BaseCap) /\ nbuckets = cap
  /\ buckets = Empty(cap)
  /\ count = 0 /\ oom = FALSE
  /\ loadfactor = Clamp(GROW_AT, GROW_AT) /\ growpower = 1 /\ growat = GrowAt(cap, loadfactor)
  /\ pc = "ready" /\ call = NoCall /\ ret = Null
  /\ entry = Free /\ i = 0 /\ j = 0 /\ fresh = <<>>

-----------------------------------------------------------------------------
(***************************************************************************)
(* The calls                                                               *)
(***************************************************************************)
BeginInsert(c, n) ==
  /\ entry' = [dib |-> 1, key |-> c.key, value |-> c.value]
  /\ i' = Home(c.key, n)
  /\ pc' = "insert"
  /\ UNCHANGED <<j, fresh>>

BeginResize(n) ==
  /\ fresh' = Empty(RoundUp(n))
  /\ i' = 0
  /\ pc' = "pick"
  /\ UNCHANGED <<entry, j>>

\* A call is made; set and delete begin by resetting oom.
Begin(c) ==
  /\ pc = "ready" /\ pc' = "begin"
  /\ call' = c
  /\ oom' = (oom /\ c.op \notin {"set", "delete"})
  /\ UNCHANGED <<buckets, nbuckets, cap, count, locals, tuning, ret>>

\* hashmap_set_with_hash up to its loop; it grows, if at all, first.
Set ==
  /\ pc = "begin" /\ call.op = "set"
  /\ \/ count < growat /\ BeginInsert(call, nbuckets) /\ UNCHANGED oom
     \/ count >= growat /\ BeginResize(nbuckets * 2 ^ growpower) /\ UNCHANGED oom
     \/ /\ count >= growat     \* the resize fails
        /\ oom' = TRUE
        /\ pc' = "return"
        /\ UNCHANGED locals
  /\ UNCHANGED <<buckets, nbuckets, cap, count, call, ret, tuning>>

\* hashmap_get_with_hash and hashmap_delete_with_hash up to their loops.
GetOrDelete ==
  /\ pc = "begin" /\ call.op \in {"get", "delete"}
  /\ i' = Home(call.key, nbuckets)
  /\ pc' = "find"
  /\ UNCHANGED <<buckets, nbuckets, cap, count, oom, call, entry, j, fresh, ret, tuning>>

\* hashmap_clear; without update_cap the map goes back to its first capacity,
\* in the old array when no new one can be allocated.  What that array holds
\* beyond nbuckets, which is not wiped, is never read.
Clear ==
  /\ pc = "begin" /\ call.op = "clear"
  /\ count' = 0
  /\ LET wiped == [m \in DOMAIN buckets |-> Free] IN
     \/ cap' = nbuckets /\ buckets' = wiped /\ UNCHANGED nbuckets
     \/ /\ nbuckets' = cap
        /\ buckets' = wiped \/ (nbuckets # cap /\ buckets' = Empty(cap))
        /\ UNCHANGED cap
  /\ growat' = GrowAt(nbuckets', loadfactor)
  /\ pc' = "return"
  /\ UNCHANGED <<oom, loadfactor, growpower, call, locals, ret>>

SetLoadFactor ==
  /\ pc = "begin" /\ call.op = "load_factor"
  /\ loadfactor' = Clamp(call.factor, loadfactor)
  /\ growat' = GrowAt(nbuckets, loadfactor')
  /\ pc' = "return"
  /\ UNCHANGED <<buckets, nbuckets, cap, count, oom, growpower, call, locals, ret>>

SetGrowByPower ==
  /\ pc = "begin" /\ call.op = "grow_by_power"
  /\ growpower' = (CASE call.power < 1 -> 1 [] call.power > 16 -> 16 [] OTHER -> call.power)
  /\ pc' = "return"
  /\ UNCHANGED <<buckets, nbuckets, cap, count, oom, loadfactor, growat, call, locals, ret>>

\* A call returns ret; its arguments and locals end with it.
Return ==
  /\ pc = "return" /\ pc' = "ready"
  /\ call' = NoCall /\ ret' = Null
  /\ entry' = Free /\ i' = 0 /\ j' = 0 /\ fresh' = <<>>
  /\ UNCHANGED <<buckets, nbuckets, cap, count, oom, tuning>>

-----------------------------------------------------------------------------
(***************************************************************************)
(* The loop of hashmap_set_with_hash                                       *)
(***************************************************************************)
InsertPlace ==
  /\ pc = "insert"
  /\ buckets[i].dib = 0
  /\ buckets' = [buckets EXCEPT ![i] = entry]
  /\ count' = count + 1
  /\ pc' = "return"
  /\ UNCHANGED <<nbuckets, cap, oom, call, locals, ret, tuning>>

InsertReplace ==
  /\ pc = "insert"
  /\ buckets[i].dib # 0 /\ buckets[i].key = entry.key
  /\ ret' = buckets[i].value
  /\ buckets' = [buckets EXCEPT ![i].value = entry.value]
  /\ pc' = "return"
  /\ UNCHANGED <<nbuckets, cap, count, oom, call, locals, tuning>>

DisplacesLate(old, new) == old.dib + 1 < new.dib

\* An entry takes the bucket of another that is nearer to its home.
Displaces(old, new) == old.dib < new.dib

InsertNext ==
  /\ pc = "insert"
  /\ buckets[i].dib # 0 /\ buckets[i].key # entry.key
  /\ LET carried == IF Displaces(buckets[i], entry) THEN buckets[i] ELSE entry IN
     /\ buckets' = IF Displaces(buckets[i], entry)
                   THEN [buckets EXCEPT ![i] = entry] ELSE buckets
     /\ entry' = [carried EXCEPT !.dib = @ + 1]
  /\ i' = (i + 1) % nbuckets
  /\ UNCHANGED <<nbuckets, cap, count, oom, pc, call, j, fresh, ret, tuning>>

-----------------------------------------------------------------------------
(***************************************************************************)
(* resize0: the entries move, one old bucket after the other, into the new *)
(* array.  The entry that is carried stays in its old bucket.              *)
(***************************************************************************)
NewCap == Cardinality(DOMAIN fresh)

PickFree ==
  /\ pc = "pick" /\ i < nbuckets
  /\ buckets[i].dib = 0
  /\ i' = i + 1
  /\ UNCHANGED <<buckets, nbuckets, cap, count, oom, pc, call, entry, j, fresh, ret, tuning>>

PickEntry ==
  /\ pc = "pick" /\ i < nbuckets
  /\ buckets[i].dib # 0
  /\ buckets' = [buckets EXCEPT ![i].dib = 1]
  /\ j' = Home(buckets[i].key, NewCap)
  /\ pc' = "rehash"
  /\ UNCHANGED <<nbuckets, cap, count, oom, call, entry, i, fresh, ret, tuning>>

RehashPlace ==
  /\ pc = "rehash"
  /\ fresh[j].dib = 0
  /\ fresh' = [fresh EXCEPT ![j] = buckets[i]]
  /\ i' = i + 1
  /\ pc' = "pick"
  /\ UNCHANGED <<buckets, nbuckets, cap, count, oom, call, entry, j, ret, tuning>>

RehashNext ==
  /\ pc = "rehash"
  /\ fresh[j].dib # 0
  /\ LET carried == IF Displaces(fresh[j], buckets[i]) THEN fresh[j] ELSE buckets[i] IN
     /\ fresh' = IF Displaces(fresh[j], buckets[i])
                 THEN [fresh EXCEPT ![j] = buckets[i]] ELSE fresh
     /\ buckets' = [buckets EXCEPT ![i] = [carried EXCEPT !.dib = @ + 1]]
  /\ j' = (j + 1) % NewCap
  /\ UNCHANGED <<nbuckets, cap, count, oom, pc, call, entry, i, ret, tuning>>

\* The new array replaces the old one, with the growat of a new map whatever
\* the load factor of this one; the insertion that made the map grow begins.
Rehashed ==
  /\ pc = "pick" /\ i = nbuckets
  /\ buckets' = fresh /\ nbuckets' = NewCap
  /\ growat' = GrowAt(NewCap, GROW_AT)
  /\ IF call.op = "set" THEN BeginInsert(call, NewCap)
     ELSE pc' = "return" /\ UNCHANGED locals
  /\ UNCHANGED <<cap, count, oom, loadfactor, growpower, call, ret>>

-----------------------------------------------------------------------------
(***************************************************************************)
(* The loops of hashmap_get_with_hash and hashmap_delete_with_hash         *)
(***************************************************************************)
FindNext ==
  /\ pc = "find"
  /\ buckets[i].dib # 0 /\ buckets[i].key # call.key
  /\ i' = (i + 1) % nbuckets
  /\ UNCHANGED <<buckets, nbuckets, cap, count, oom, pc, call, entry, j, fresh, ret, tuning>>

NotFound ==
  /\ pc = "find"
  /\ buckets[i].dib = 0
  /\ pc' = "return"
  /\ UNCHANGED <<buckets, nbuckets, cap, count, oom, call, locals, ret, tuning>>

Found == pc = "find" /\ buckets[i].dib # 0 /\ buckets[i].key = call.key

GetFound ==
  /\ Found /\ call.op = "get"
  /\ ret' = buckets[i].value
  /\ pc' = "return"
  /\ UNCHANGED <<buckets, nbuckets, cap, count, oom, call, locals, tuning>>

DeleteFound ==
  /\ Found /\ call.op = "delete"
  /\ ret' = buckets[i].value
  /\ buckets' = [buckets EXCEPT ![i] = Free]
  /\ pc' = "shift"
  /\ UNCHANGED <<nbuckets, cap, count, oom, call, locals, tuning>>

ShiftsAlways(n) == buckets[n].dib > 0

\* The entry of bucket n is not at home and moves back by one.
Shifts(n) == buckets[n].dib > 1

ShiftBack ==
  LET next == (i + 1) % nbuckets IN
  /\ pc = "shift"
  /\ Shifts(next)
  /\ buckets' = [buckets EXCEPT ![i] = [buckets[next] EXCEPT !.dib = @ - 1]]
  /\ i' = next
  /\ UNCHANGED <<nbuckets, cap, count, oom, pc, call, entry, j, fresh, ret, tuning>>

ShiftEndUncounted ==
  /\ pc = "shift"
  /\ ~Shifts((i + 1) % nbuckets)
  /\ buckets' = [buckets EXCEPT ![i] = Free]
  /\ pc' = "return"
  /\ UNCHANGED <<nbuckets, cap, count, oom, call, locals, ret, tuning>>

\* The shift ends, and the map shrinks if little of it is left in use and
\* memory can be had.
ShiftEnd ==
  /\ pc = "shift"
  /\ ~Shifts((i + 1) % nbuckets)
  /\ buckets' = [buckets EXCEPT ![i] = Free]
  /\ count' = count - 1
  /\ \/ nbuckets > cap /\ count - 1 <= ShrinkAt(nbuckets) /\ BeginResize(nbuckets \div 2)
     \/ pc' = "return" /\ UNCHANGED locals
  /\ UNCHANGED <<nbuckets, cap, oom, call, ret, tuning>>

Inside ==
  \/ InsertPlace \/ InsertReplace \/ InsertNext
  \/ PickFree \/ PickEntry \/ RehashPlace \/ RehashNext \/ Rehashed
  \/ Set \/ GetOrDelete \/ Clear \/ SetLoadFactor \/ SetGrowByPower
  \/ FindNext \/ NotFound \/ GetFound \/ DeleteFound \/ ShiftBack \/ ShiftEnd
  \/ Return

Next == Inside \/ \E c \in Call : Begin(c)

\* A call that has begun is run to its end; nobody has to make another one.
Spec == Init /\ [][Next]_vars /\ WF_vars(Inside)

-----------------------------------------------------------------------------
(***************************************************************************)
(* Properties                                                              *)
(***************************************************************************)

\* Every variable has its type, and the part of the allocation in use is
\* inside it, also after a hashmap_clear that found no memory.
TypeOK ==
  /\ LET allocated == Cardinality(DOMAIN buckets) IN
     /\ buckets \in [0 .. allocated - 1 -> Bucket]
     /\ nbuckets \in 1 .. allocated
  /\ cap \in MinCap .. nbuckets
  /\ count \in Nat /\ oom \in BOOLEAN
  /\ loadfactor \in 50 .. 95 /\ growpower \in 1 .. 16 /\ growat \in 1 .. nbuckets - 1
  /\ pc \in {"ready", "begin", "return", "insert", "pick", "rehash", "find", "shift"}
  /\ call \in Call \cup {NoCall}
  /\ entry \in Bucket
  /\ i \in Nat /\ j \in Nat
  /\ pc \in {"insert", "rehash", "find", "shift"} => i < nbuckets
  /\ pc = "rehash" => j < NewCap
  /\ fresh \in [0 .. NewCap - 1 -> Bucket]
  /\ ret \in Value \cup {Null}

\* Between calls the buckets are in robin-hood order: every entry knows its
\* distance from home, and that distance exceeds the one in the bucket before
\* by at most one.  So no probe meets a free bucket before the entry it looks
\* for, and the backward shift of a deletion may stop at the first entry that
\* is at home (hashmap.c:454).
RobinHood ==
  pc = "ready" => \A m \in 0 .. nbuckets - 1 :
    buckets[m].dib # 0 =>
      /\ (Home(buckets[m].key, nbuckets) + buckets[m].dib - 1) % nbuckets = m
      /\ buckets[m].dib <= buckets[(m + nbuckets - 1) % nbuckets].dib + 1

\* The entry that an insertion carries is no longer the one it was given.
Swapped == pc = "insert" /\ entry.key # call.key

\* The entries of the map, and where they are, also in the middle of a call:
\* the bucket at which a backward shift is counts as free, and a rehash has
\* emptied the buckets before i.
Entries ==
  {e \in {<<"buckets", m, buckets[m]>> : m \in 0 .. nbuckets - 1} :
     /\ e[3].dib # 0
     /\ pc = "shift" => e[2] # i
     /\ pc \in {"pick", "rehash"} => e[2] >= i}
  \cup {e \in {<<"fresh", m, fresh[m]>> : m \in DOMAIN fresh} : pc \in {"pick", "rehash"} /\ e[3].dib # 0}
  \cup {e \in {<<"entry", 0, entry>>} : Swapped}

\* No swap, shift, rehash or clear loses an entry or holds one twice: the
\* keys of the entries differ, and count is their number.
EachKeyOnce ==
  /\ \A d, e \in Entries : d[3].key = e[3].key => d = e
  /\ pc = "ready" => count = Cardinality(Entries)

\* Where a call has got to for its caller: a deletion is decided before the
\* backward shift, and an insertion when the new entry is put down.
Stage ==
  CASE pc = "ready" -> "idle"
    [] pc \in {"return", "shift"} -> "answered"
    [] pc \in {"pick", "rehash"} /\ call.op = "delete" -> "answered"
    [] Swapped -> "answered"
    [] OTHER -> "asked"

Dict ==
  [k \in {e[3].key : e \in Entries} |-> (CHOOSE e \in Entries : e[3].key = k)[3].value]

DICT == INSTANCE Dictionary WITH dict <- Dict, stage <- Stage, OtherCall <- Tuning

\* The map is a map: get, set and delete return the value that was last set
\* for the key and change that of no other key, however entries collide, are
\* swapped, shifted and rehashed and whatever allocations fail; a set that
\* finds no memory changes nothing and says so in oom until the next set or
\* delete (hashmap.c:323-331, 369-372).
ImplementsDictionary == DICT!Spec

\* Every call returns: a probe always ends at a free bucket
\* (hashmap.c:340, 387, 436).
CallsReturn == pc = "begin" ~> pc = "ready"

=============================================================================
