------------------------------ MODULE HashMaps ------------------------------
(***************************************************************************)
(* A program that uses one of the three hash tables of jstd behind the     *)
(* interface they share (hash_table, hash_map and hash_map_ex; the         *)
(* benchmarks of the repository take the container as a parameter).  The   *)
(* variables table and size hold the one container there is; `called`      *)
(* records the last call.                                                  *)
(***************************************************************************)
EXTENDS Integers, FiniteSets

CONSTANTS
  Keys, Vals,
  None,                     \* what a lookup of an absent key shows
  Hash,                     \* Hash[k]: the hash code of k
  kDefaultInitialCapacity,  \* 64 in the code
  kMaximumCapacity,         \* 1 << 30 in the code
  Requests,                 \* the arguments of reserve, rehash, shrink_to_fit
  GrowthBound               \* bound of the model: insert doubles up to here

ASSUME HashMapsAssumption ==
  /\ IsFiniteSet(Keys)
  /\ None \notin Keys \union Vals
  /\ Hash \in [Keys -> Nat]
  /\ kDefaultInitialCapacity \in Nat \ {0}
  /\ kMaximumCapacity \in Nat \ {0}
  /\ kDefaultInitialCapacity <= kMaximumCapacity
  /\ Requests \subseteq Nat \ {0}
  /\ GrowthBound \in 0 .. kMaximumCapacity

VARIABLES
  kind,      \* the container the program uses
  table, size,
  scarce,    \* whether the program may run out of memory
  called     \* the last call: [op, key, val]

vars == <<kind, table, size, scarce, called>>

T == INSTANCE HashTable
M == INSTANCE HashMap
X == INSTANCE HashMapEx

Kinds == {"hash_table", "hash_map", "hash_map_ex"}

Call(op, k, v) == [op |-> op, key |-> k, val |-> v]

Init ==
  /\ kind \in Kinds
  /\ called = Call("construct", None, None)
  /\ \/ kind = "hash_table" /\ T!Init
     \/ kind = "hash_map" /\ M!Init
     \/ kind = "hash_map_ex" /\ X!Init

\* Each call goes to the container in use.
Insert(k, v) ==
  /\ called' = Call("insert", k, v)
  /\ \/ kind = "hash_table"
        /\ (T!insert(k, v) \/ T!insert_rvalue(k, v) \/ T!emplace(k, v))
     \/ kind = "hash_map"
        /\ (M!insert(k, v) \/ M!insert_rvalue(k, v) \/ M!emplace(k, v))
     \/ kind = "hash_map_ex"
        /\ (X!insert(k, v) \/ X!insert_rvalue(k, v) \/ X!emplace(k, v))

Erase(k) ==
  /\ called' = Call("erase", k, None)
  /\ \/ kind = "hash_table" /\ (T!erase(k) \/ T!erase_rvalue(k))
     \/ kind = "hash_map" /\ (M!erase(k) \/ M!erase_rvalue(k))
     \/ kind = "hash_map_ex" /\ (X!erase(k) \/ X!erase_rvalue(k))

Clear ==
  /\ called' = Call("clear", None, None)
  /\ \/ kind = "hash_table" /\ T!clear
     \/ kind = "hash_map" /\ M!clear
     \/ kind = "hash_map_ex" /\ X!clear

Reserve(n) ==
  /\ called' = Call("reserve", None, None)
  /\ \/ kind = "hash_table" /\ T!reserve(n)
     \/ kind = "hash_map" /\ M!reserve(n)
     \/ kind = "hash_map_ex" /\ X!reserve(n)

\* rehash, resize and shrink_to_fit.
Rehash(n) ==
  /\ called' = Call("rehash", None, None)
  /\ \/ kind = "hash_table" /\ (T!rehash(n) \/ T!shrink_to_fit(n))
     \/ kind = "hash_map" /\ (M!rehash(n) \/ M!shrink_to_fit(n))
     \/ kind = "hash_map_ex" /\ (X!rehash(n) \/ X!shrink_to_fit(n))

Next ==
  /\ UNCHANGED <<kind, scarce>>
  /\ \/ \E k \in Keys, v \in Vals : Insert(k, v)
     \/ \E k \in Keys : Erase(k)
     \/ Clear
     \/ \E n \in Requests : Reserve(n)
     \/ \E n \in Requests : Rehash(n)

Spec == Init /\ [][Next]_vars

-----------------------------------------------------------------------------
(* Properties                                                              *)

capacity == Cardinality(DOMAIN table)

Lookup(k) ==
  IF kind = "hash_table" THEN T!Lookup(k)
  ELSE IF kind = "hash_map" THEN M!Lookup(k)
  ELSE X!Lookup(k)

Contents == [k \in Keys |-> Lookup(k)]

\* Each container is a map, whatever was inserted, erased, grown and shrunk
\* before: keys whose nodes share a way through the table never hide or
\* replace each other.
Abstract == INSTANCE MapSpec WITH map <- Contents
ImplementsMap == Abstract!Spec

\* What a call does to the contents is what was asked, all of it or, where
\* memory ran out, nothing of it; only reserve does more: when it gets a
\* larger table it drops everything that was stored.
CallsTakeEffect ==
  [][LET op == called'.op
         k == called'.key
         old == Contents
         new == Contents'
     IN  /\ op = "insert" => \/ new = [old EXCEPT ![k] = called'.val]
                             \/ scarce /\ old[k] = None /\ new = old
         /\ op = "erase" => new = [old EXCEPT ![k] = None]
         /\ op = "rehash" => new = old
         /\ op = "clear" \/ (op = "reserve" /\ capacity' > capacity)
              => new = [x \in Keys |-> None]
         /\ op = "reserve" /\ capacity' = capacity => new = old]_vars

\* The layouts stay sound: a place remains in the open-addressed table, and
\* the chains hold what belongs to them (stated in the three modules).
LayoutSound ==
  /\ kind = "hash_table" => T!PlacesRemain
  /\ kind = "hash_map" => M!ListsSound
  /\ kind = "hash_map_ex" => X!ListsSound

\* The table has grown in time: no more than three quarters of the buckets
\* are in use; hash_table refuses to store a key rather than exceed them,
\* the other two exceed them only when memory ran out.
GrownInTime ==
  /\ kind = "hash_table" => T!LoadBounded
  /\ kind = "hash_map" => M!LoadBounded
  /\ kind = "hash_map_ex" => X!LoadBounded
=============================================================================
