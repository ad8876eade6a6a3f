# A TLA+ model of jimi_http

`jimi_http` is a C++ library of in-memory parts for an HTTP server: hash
tables (`src/main/jimi/jstd`), a request parser (`src/main/jimi/http`), LRU
caches and a router (`src/test/http_parser_test`).  This directory holds TLA+
specifications of its data structures, configurations that check them with
TLC, and proofs about them that TLAPS checks.  Paths in this document are
relative to the repository; `PROJECT.json` maps every definition to the lines
it stands for.

## 1. Inventory

The library is sequential: it starts no thread, takes no lock, keeps nothing
on disk, and calls back nobody (the router's handlers and the Boost.Asio sample
apart).  What is hard in it is of another kind.  Every container
recycles memory by threading a list through fields that other lists also use;
pointers into arrays are kept across calls; allocations are `nothrow` and may
fail between two steps; and several classes are right only for callers who
avoid certain sequences of legal calls.  A unit test meets a handful of these
sequences; the reachable states of a small instance contain all of them.

| component | state | operations | uses / used by |
|---|---|---|---|
| `jstd::dictionary` (`dictionary.h`) | bucket array, entry array, `count_`, `capacity_`, free list | constructor, find, insert, emplace, erase, clear, reserve/rehash/resize, shrink_to_fit | `dictionary_traits.h`, `Power2.h`; used by `V3::LRUCache` and the benchmarks |
| `LRUHashTable` | two open-addressing tables, `size_` | find, insert, remove, remove_if | used by `LRUCache` |
| `ContinuousDoubleLinkedList` | node array, end nodes, free list, `size_` | push, create_new_node, remove, pop, move_to_front/back, clear, resize | used by `LRUCache` and `V3`, which keep node pointers |
| `LRUCache` (current) | a list and a table of the two above | get, put (touch, add) | the two above |
| `V1::LRUCache` | `std::list`, `std::unordered_map` of iterators | get, put | - |
| `V2::LRUCache` | heap nodes in a linked list, a `std::unordered_map` to them | get, put | - |
| `V3::LRUCache` | the list above and a `jstd::dictionary` of its nodes | get, put | list, dictionary |
| `dictionary_ex` | as `dictionary`, with `size_` of its own; its entries stay in the array they were stored in | as `dictionary`; shrink_to | `dictionary_traits.h`, `Power2.h`; benchmarks |
| `hash_table` | one array of pointers to entries, probed linearly; `size_`, `used_`, `threshold_` | as `dictionary` | `Power2.h`; benchmarks |
| `hash_map`, `hash_map_ex` | an array of pointers to lists of entries, or of lists; `size_`, `used_` | as `dictionary` | `Power2.h`; benchmarks |
| hash functions (`Hash.h`, `crc32c.h`, `hash_helper.h`) | none | one for each `HashFunc` and type of key | all tables |
| `StringRef`, `Slice` | a pointer and a length | assignment, comparison | parser, tables of `StringRef` |
| string comparison (`string_utils.h`) | none | is_equals, compare, by words | `StringRef`, `Slice`, keys of all tables |
| `fixed_freelist` | array of free entries | push, pop, resize | nothing |
| HTTP parser, `InputStream` | cursor in the input, list of header fields | parseRequest and its stages | `StringRefList`, `StringRef` |
| `StringRefList` | fixed array of offsets, chunks | setRef, append, clear | parser |
| `HttpRouter`, `HttpRouter2` | trie of nodes, compiled trie, handlers, parameters | add, compile, route | callers' handlers |

What makes each of them correct, and where it is hard:

* **dictionary**: it is a map.  Chains and free list share the `next` field of
  an entry; a rehash rebuilds every chain from a compacted copy; the bucket
  index is computed before the table may be doubled; one hash value is reserved
  to mark erased entries.  Callers keep iterators across operations on other
  keys.  Allocation of either array may fail.
* **dictionary_ex**: it is a map, and every call returns.  A rehash relinks the
  stored entries where they are and opens a new array; the free list may hold
  entries of any array.
* **LRUHashTable**: find reaches every stored key although searches give up at
  a slot never used; a removed slot that insert recycles lies *before* the
  place where the key itself may be; windows are cut off and probes wrap at
  the end of an array; a full table drops an insertion silently.
* **list**: front to back is the reverse of back to front; each node is linked,
  free, or in a caller's hands, never two of these; handles stay good.
* **LRUCache**: the table leads from each key to the node that holds it, while
  an eviction rewrites a node's key in place between two table updates; it
  evicts the least recently used key.  In `V2` an eviction deletes a node whose
  address the next allocation may return; in `V3` the dictionary must not grow.
* **parser**: no read outside the input, although its stages step over marks and
  look ahead without asking for each character; what it accepts is a request,
  and the slices it keeps are its parts; a well-formed request is accepted.
* **hash_table, hash_map, hash_map_ex**: each is a map.  Loops
  of `hash_table` end at an empty bucket only; the lists of the others may be
  emptied and stay; doubling moves entries to buckets nobody looked at yet;
  any of three allocations may fail within one insert.
* **hash functions**: equal keys hash equally wherever they lie, although words
  are read across the end of a key; the unrolled forms compute what the plain
  ones do, tails of every length included, and leave no character out.
* **string comparison**: by words it finds what one byte after the other would;
  what lies behind a string decides nothing; the order is the alphabetical one.
* **router**: the handler called is the one of the matching route, with its
  arguments; the string the routes are compiled to is walked by offsets only.

`PROJECT.json` lists the hazards of the code at their lines, with the
properties that cover them.  A hazard that the runs exclude, or accept as it is,
lists no property; its note says why.

## 2. Modules

| implementation | EXTENDS | INSTANCEs | implements |
|---|---|---|---|
| `Dictionary` | `Powers` | - | `MapSpec` |
| `DictionaryEx` | `Powers` | - | `MapSpec` |
| `HashTable`, `HashMap`, `HashMapEx` | `Powers` | - | `MapSpec`, each |
| `HashMaps` | - | the three above | - |
| `Powers` | `Pointers` | - | - |
| `LRUHashTable` | - | - | `MapSpec` |
| `ListNodes` | `Pointers` | - | - |
| `LinkedList` | `ListNodes` | - | `ListSpec` |
| `LRUCache` | `ListNodes` | `LRUHashTable` | `LRUSpec` |
| `LRUCacheV2` | `ListNodes` | - | by agreement with `LRUCache` |
| `LRUCacheV3` | `ListNodes` | `Dictionary` | by agreement with `LRUCache` |
| `LRUCaches` | `LRUCache` | `LRUCacheV2`, `LRUCacheV3` | - |
| `Parser` | `Request` | - | - |
| `Router` | `Routes` | - | `RouterSpec` |
| `StringRef` | - | - | - |
| `Hash` | `StringRef`, `Powers` | - | - |
| `Crc32c`, `StringUtils` | `StringRef` | - | - |
| `HashHelper` | `Hash`, `Crc32c` | - | - |
| `StringPair` | `HashHelper`, `StringUtils` | - | - |
| `Strings` | `StringPair` | - | - |

Each implementation is related to its abstract specification by a refinement
mapping (`INSTANCE ... WITH`), checked as a temporal property.  `V2` and `V3` are
run side by side with `LRUCache`: they always hold the same pairs in the same
order and give the same answers.

| module | models | state and actions |
|---|---|---|
| `Pointers` | following pointers: `Reached(hop, p)[n]`, the n-th pointer from `p` | no state |
| `Powers` | `Power2.h`: powers of two (`Power2`, a walk that doubles), and `round_up_pow2`, the capacity made of a request | no state |
| `MapSpec` | what the tables promise: a partial map and its size | `Put`, `Remove`, `Clear` |
| `Dictionary` | `dictionary.h` | `buckets`, `entries`, `count`, `capacity` are the fields of the same name; `freeHead`, `freeSize` are `freelist_`; a pointer is a slot number.  `InsertUpdate`, `InsertReuse`, `InsertNext`, `InsertGrow` are the four ways through `insert`; `Erase`, `Clear`, `Reserve`, `ShrinkToFit` the other operations.  `Rehash` is all of `rehash_internal` in one step, as a call is one step for the caller.  `fault` ends a behaviour at the first access outside an array |
| `LRUHashTable` | `LRUHashTable.h` | one record with both tables and `size_`; operations are operators on it (`find`, `Inserted`, `Removed`), so that the cache can apply two in one call |
| `ListSpec` | what the list promises: a sequence of named items | one action per operation |
| `ListNodes` | the operations of `LinkedList.h` on one record | as operators, for the same reason |
| `LinkedList` | the list with its callers | `list`; `held`, the handles callers have of each node; `detached`, nodes created and not linked yet |
| `Request` | what the parser is for | requests as records, and the text each is sent as (`Text`) |
| `Parser` | `Parser.h`, `InputStream.h`, and `StringRefList.h` as the parser uses it | `data`, `pos` are the stream; `method`, `uri`, `version`, `ref`, `items` what the parser keeps, as offsets and lengths; `ec` what parseRequest returns.  `stage` is the function at work: each stage of `parseRequestHeader` is a step, and each round of the loop in `parseHeaderFields`.  `furthest` is the furthest position read |
| `LRUSpec` | what an LRU cache promises, which is also all of `V1::LRUCache` | `order`, most recent first; `Get`, `Put` |
| `LRUCache` | `LRUCache.h` | `list` and `cache`, the records above; `get`, and `put` by its three ways `Refresh`, `touch`, `add` |
| `DictionaryEx` | `dictionary_ex.h` | a pointer is an array's number and a slot in it; `array`, `size`, `count`, `capacity`, `free` are the fields; `call` is the call in progress with its cursors: each round of a search is one step (`Scan`), and the outcome another (`FindHit`, `InsertReuse`, ...).  `Reserve`, `ShrinkTo`, `Clear` are single steps |
| `LRUCacheV2` | `LRUCache_v2.h` | the record of `ListNodes`, its array standing for the heap; `cache`, a function from keys to addresses; `get`, and `put` as `PutRefresh` and `PutNew` |
| `LRUCacheV3` | `LRUCache_v3.h` | `list`, and all variables of a `Dictionary`; a `put` is several steps, one for each call it makes, `pend` being what is left of it |
| `LRUCaches` | the driver's comparison (`main.cpp`) | the three caches, fed with the same calls; a put of `V3` goes on (`FinishPut`) before the next call |
| `HashTable` | `hash_table.h` | `table`, the node or null of each bucket, and `size`; `scarce` says whether allocations may fail; one operator for each operation and each overload that does something of its own (`insert`, `insert_rvalue`, `emplace`) |
| `HashMap`, `HashMapEx` | `hash_map.h`, `hash_map_ex.h` | as above; a bucket is null or a list of entries that may be empty, and in `HashMapEx` the list itself; a rehash moves the entries one after the other (`push` in the one, `push` and `reinsert_list` in the other) |
| `HashMaps` | a program with one of the three (`HashTableBenchmark.h` takes the container as a parameter) | `kind`, the container; `called`, the last call.  One action for each call of their common interface |
| `StringRef` | `StringRef.h` | a pointer and a length; a pointer leads to a piece of memory: an address, the bytes before, of and behind a text, which `Byte`, `Load` and `LoadMasked` read |
| `Hash`, `Crc32c`, `HashHelper` | `Hash.h`, `crc32c.h`, `hash_helper.h` | one operator for each function: those that multiply and add are computed modulo `2^HashBits`, the others give what is fed to their mixing steps, in order.  Two keys collide for the same reasons as in the code where these agree |
| `StringUtils` | `string_utils.h`, `Slice.h` | comparisons by groups of 16 and words of 8, with the bits of the addresses that are tested |
| `StringPair` | two `StringRef`s, a key stored and one asked for | `left`, `right`; no actions, but what must hold of the two |
| `Strings` | a program that assigns them | the two assigned, copied, moved, reset |
| `Routes` | cutting texts into segments | no state |
| `RouterSpec` | what the list of routes alone says about the answer to a URL | `routes`, `called`; `Add`, `Route` |
| `Router` | `HttpRouter.h` | `tree`, a function from nodes (the segments that lead to them) to handlers; `compiled`, the string; `handlers`, `params` as in the code; `called`, the last URL and answer; `add`, `route` |
| `MC...` | values of the constants for TLC | - |
| `LRUHashTableProofs`, `LinkedListProofs`, `LRUCachesProofs`, `DictionaryProofs`, `DictionaryExProofs`, `HashMapsProofs`, `ParserProofs` | theorems about the module each is named after; those of `ParserProofs` also about `StringPair` and `Strings` | - |
| `PointersProofs` | lemmas the theorems rest on: about `Pointers`, `Powers` and the operations of `ListNodes` | - |

Definitions marked *faulty* in the modules are variants of the operation that
follows them, each with one plausible mistake; each property has one that
breaks it, which shows that the property does constrain the code.

Choices that shape the models:

* A call is atomic, but for `DictionaryEx`, where the search loop is in question,
  `LRUCacheV3`, which composes two modules with variables of their own, and
  `Parser`, whose stages are one step each.  The
  program is sequential and no modelled operation calls user code, so no caller
  can see a container between two statements.  The order of statements
  matters inside a call and is kept there (an entry is unlinked before it is
  pushed on the free list; `touch` removes, inserts, then moves).
* Pointers are indices into the array they point into.  Where the
  code's own undefined behaviour would begin, a behaviour ends (`fault`, the
  parser's stage `"overrun"`), or the call is one the modelled callers do not
  make: `LinkedList` grows only a list that no pointer of its own or of a caller leads into.
* A scan for a character goes to the first position that holds it (`Until`);
  `isNullChar` is compiled to `false`, so a NUL in the input is a character
  like others.  The characters of the model are those the parser tells apart,
  `"A"` for the upper-case letters a method may begin with, and `"a"` for all others.
* Memory that was never written is undefined in C++.  In `Dictionary` the
  entries that a rehash reads without anyone having written them (`StaleSlots`)
  may hold anything the type allows.
* Hash functions are constants of the tables: the models are checked with
  hashes chosen to collide, and proved for any.  The functions of the code are
  the subject of `Hash`, `Crc32c` and `HashHelper`.
* Strings are read as the code reads them, across their ends where it does; the
  modelled build is the one of the driver's `main.cpp`: comparison by SSE4.2
  (`STRING_COMPARE_MODE`), and beside it the mode that compares words of 8;
  characters are unsigned.  The mode that calls `strcmp` is not modelled.
* `hash_map` retries for ever when `reinsert_list` gets no memory for a list
  (`hash_map.h:492`); the model takes this for one step that ends when memory is
  there.  List operations that the maps never call are left out.
* Compile-time switches are taken as the headers set them
  (entries are constructed in place and destroyed on erase, no version
  counter).  The version counter is not modelled.

## 3. Runs

| run | what it checks | bounds |
|---|---|---|
| `dict_map` | with callers who change the capacity only while no erased entry waits on the free list, and never below the number of entries, the dictionary implements `MapSpec`; no access leaves an array; an entry never moves while the capacity is kept; the table doubles only when truly full | 4 keys: two with equal hash, one sharing only their bucket, one hashing to the reserved value; capacities 1, 2, 4, 8 |
| `dict_any` | chains and free list stay exact for every caller and every failing allocation, until a fault | 3 keys, capacities 0 to 4 |
| `dict_size` | violated: after a rehash with erased entries `size()` is too large, and the next rehash moves entries nobody wrote, or its assertion fails | as `dict_any` |
| `table` | the table is a map, full or not; every stored key is found, in one slot, which it keeps; `size_` counts them; with fewer than `capacity_` keys insert always succeeds | 5 keys for 2 + 2 slots, so that the table does fill up; windows of 2, one cut off at the end; 2 values |
| `list_tidy` | with callers who clear only while no node is free, and grow only an empty list, the list implements `ListSpec`; its two directions agree; no node is lost, shared or handed out twice | capacities 1 to 3, 2 keys, 1 value |
| `dictex` | `DictionaryEx` implements `MapSpec`; what a find returns is what is stored; the entries of all arrays are partitioned; every call returns | 3 keys of different hash in one bucket, 2 values, three entry arrays: capacities 2, 4 and 2 again, by doubling, `reserve` and `shrink_to` |
| `parser` | each of the requests comes back as it was sent; every other input is refused or has the form of a request, its slices the parts; no read goes beyond the terminator | 240 requests: one or two characters in each part, up to 3 fields, values that hold separators, bodies that look like fields; every input one lost, changed or added character, or a cut, away from a sample of them; every ending of up to 5 characters of three beginnings (nothing, a request line, a line and a field without its end).  An array of 2 fields, so that 3 overrun it; offsets modulo 16, which some headers exceed |
| `dictex_collide` | violated: see below | two keys of equal hash |
| `maps` | whichever of the three tables a program uses, it implements `MapSpec`; its layout stays sound (`hash_table` always has an empty bucket) and grows in time; each call does what it should and nothing else, whichever allocations fail | 3 keys, two of equal hash and all three in the last bucket of a table of two, 2 values; 2 to 8 buckets |
| `strings` | equal keys hash equally; the forms of a hash function agree; no byte is left out; comparisons by words are exact and the order is sound | pairs of 9 pieces of memory, cut at 0 to 18, 31 to 34, 47 to 49 and 63 to 66 characters: around the ends of words of 4, 8 and 16 and blocks of 16, 32 and 64 bytes; equal texts at aligned and other addresses with other bytes behind, and texts that differ in one byte |
| `router` | the answers are those of `RouterSpec`; a handler gets its arguments and no others; an added route changes no other answers | every sequence of 3 of 9 patterns: names before and after `:` in the order, parameters, wildcards, routes through and below others, with and without the initial slash; 13 URLs of up to three segments |
| `caches` | the caches agree in answers and contents, and `LRUCache` implements `LRUSpec`; its table and its list hold the same keys; `V2`'s map owns its nodes; `V3`'s dictionary matches its list between two puts and never grows | 3 keys, 2 values, capacity 2, over a table of 2 slots per layer, a heap of 3 addresses, and hashes of which two are equal and one is the reserved value |

Why the bounds are enough to be of interest: two colliding keys and a third in
the same bucket exercise the head, middle and end of a chain; one key more than
slots exercises the full array; three capacities exercise two doublings in a
row; two nodes in a list make every neighbour an end node, three do not.
Three bounds of these are not the code's: `GrowthBound` (insert does not double the
table beyond it), `ArrayBound` (no more entry arrays of `DictionaryEx` are
allocated) and `HeapSize` (the addresses an allocator may return; one more than
the cache needs, so that a deleted node's address may be reused or not).  The
code's `kMaximumCapacity`, `kMinimumCapacity`, `kDefaultCapacity`, `kFirstLayerSearchStep`,
`kLenHTTPVersion`, `kInitCapacity` and the range of `uint16_t` are constants, given small values.

`HashBits`, `AddressBits` and `LengthRange` narrow the code's integers: hashes
are compared modulo 2^15 and addresses have 6 bits, enough for two of them to
share no bit; routes that would overflow a length are not looked up.

In `table` and `caches` values are declared symmetric: none of these classes
looks at a value, and no liveness is checked there.

The cache's table is given no more slots per layer than the cache has nodes,
although the code's tables start at 32: evictions then recycle removed slots in
every way.

Fairness is assumed in one place: in `DictionaryEx` the steps of a call in
progress are weakly fair (`WF_vars(Scan \/ Returns)`), since a sequential call,
once made, runs on.  Calls themselves are never owed, so no other liveness is
stated.

Deadlock checking is off in two kinds of runs: those where a fault (or the
parser's overrun) ends the behaviour, and those of `LinkedList`, where a list that was full once and whose
nodes were all popped refuses every further call but `clear` (which the careful
caller may not make while nodes are free): the system really stops there.

### What the code relies on, and where it disagrees with itself

The passing runs assume callers who avoid these sequences; each violated run
shows one of them, against an assertion or a comment of the code:

1. `dict_size`: `rehash_internal` copies the live entries only and clears the
   free list, but leaves `count_`.  From then on `size()` counts the erased entries
   again, and the slots below `count_` that the loop did not fill are memory
   nobody wrote.  This needs no more than insert, erase, `reserve`.  The next
   rehash reads the hash in such a slot.  Unless it happens to be
   `kInvalidHash`, the slot is moved and linked as an entry that no insert made, while
   the comment on the loop says "Copy the old entries to new entries."
   (`dictionary.h:463`); the assertion `new_count == this->size()`
   (`dictionary.h:506`) then holds, both numbers being too large.  If it is
   `kInvalidHash`, the slot is left out and the assertion fails.
   `RehashCopiesStored` states comment and assertion together, for every content
   of that memory.
2. `dictex_collide`: a search of `dictionary_ex` that meets an entry of equal
   hash and other key goes round for ever; the run that passes gives every key a
   hash of its own.

More follow from the code and have no run:

* `insert` of the dictionary does not look whether doubling worked: after a
  failed allocation it writes the entry behind the array (`dictionary.h:726`),
  where a behaviour of `dict_any` ends;
* `clear` of the list leaves the free list as it is (`LinkedList.h:218`), so that a
  node is handed out twice afterwards; shrinking moves `tail_->prev` only
  (`LinkedList.h:235`);
* `Times31`, where one character is left over after groups of four, takes the byte
  behind the key in place of the last character (`Hash.h:320`: `src[1]`): equal keys
  in different places may hash differently, which `EqualKeysHashEqually` and
  `VariantsAgree` except;
* `HashFunc_Default` of a `std::string` hashes the object and not its text; it is the
  default template argument, but no alias of a table uses it;
* off x86 the primary hash of a key at an odd address takes bytes of its
  neighbours and skips some of its own; `crc32c_x64` pads its last word with
  zeros, so that it is not the CRC-32C of a text of any length;
* `is_equals` and `compare` take two pointers without a common bit for a null
  pointer and another (`string_utils.h:172`), and `compare` of a string with one
  that it begins looks at a character behind the shorter;
* `StringRef`'s `==` compares strings of different lengths as if they had the length of
  the left one (an assertion forbids it in debug builds); `Slice`'s `<` and `>`
  ask for both the length and the bytes to be smaller or greater, so that
  they contradict `compare`;
* `reserve` of the three tables drops the stored entries
  (`hash_table.h:208`); `shrink_to_fit(1)` of a `hash_map` whose lists are empty
  fails the assertion `new_mask > 0`; an entry leaks when its list cannot be
  allocated (`hash_map.h:770`);
* of the router's routes a node keeps the handler of the first that passed it: in
  the driver, `/service/candy` is answered by the handler of
  `/service/candy/:kind`, without an argument, and a route added later that ends
  there is never answered.  Names that begin with a letter are tried before
  parameters, those that begin with a digit after them, and wildcards last:
  the driver's `/` (`main.cpp:2598`) is answered by `/:filename`.  A choice
  is never taken back, so that `/a/c` is not answered once there are `/a/b` and `/:x/c`.
  All of this `RouterSpec` states.  Before the first `add` a lookup reads a header from
  an empty string;
* growing a list that holds nodes frees the array they lie in (`LinkedList.h:235`)
  while the end nodes, the free list and the copies themselves still point there;
* `size_` of the list counts nodes ever handed out, so that a list that was full
  once refuses a push (`LinkedList.h:262`) although nodes are free;
* `dictionary_ex` frees one array of entries in its destructor
  (`dictionary_ex.h:300`) while the entries stored before a rehash lie in others;
* the 65th header field is written behind the array of 64 (`StringRefList.h:227`,
  a TODO there);
* a request without header fields, or with an empty value, is refused; an empty
  input is not (`Parser.h:727` returns `Succeed`).

`LRUCache` meets none of the list's: it never removes a node, never resizes and never
clears, which `caches` confirms (`list.freeHead = Nil` always).

Assumptions on callers: the capacity of a cache is positive (the driver asserts
it; with capacity 0 `touch` would follow a null pointer), and keys are natural
numbers (-1 and -2 are the marks of unused and removed slots, `LRUNode.h`).
The parser's input is followed by a terminator, as in the driver's string
literals: the character behind the end is read at a cut (`Parser.h:644`), and
`reset` is called between two requests.  `MessageUnderstood` and
`AcceptedIsRequest` are about headers whose offsets fit the 16 bits they are
stored in.
`dictionary_ex` is asked for capacities of at least 2 (its assertion
`new_mask > 0` excludes a table of one bucket).

## 4. Proofs

### The table

`LRUHashTableProofs` proves, for every set of keys and values, every capacity,
every window length and every second hash function:

| theorem | statement |
|---|---|
| `TableAlwaysSound` | the inductive invariant below |
| `TypeAlwaysOK` | type correctness; in particular `size_` is never negative |
| `SizeIsOccupiedAlways` | `size_` is the number of slots that hold a key |
| `EveryKeyAlwaysFindable` | find arrives at every slot that holds a key |
| `InsertAlwaysFindsRoom` | insert stores its key whenever `size_ < capacity_` |
| `SlotsAlwaysStable` | a key keeps its slot until it is removed |
| `TableImplementsMap` | the table implements `MapSpec` |

They rest on `TableAssumption` alone, which TLC evaluates in the table runs.

The argument.  That find reaches every key is not inductive: whether a search
reaches a slot depends on all slots before it.  `Sound` says, of every slot
that holds a key k: it lies in k's window (first table), or on its probe
sequence, which every slot does (`ProbeCovers`); no slot before it on that
search was never used (`Open1`, `Open2`), and for a slot of the second table
the whole window was used; no other slot holds k (`OneSlot`); and `size`
is the number of such slots.  Storing a key where its search stops keeps this,
since the search passed only used slots; overwriting a removed slot keeps it,
since the key is known to be absent by then; removing keeps it, since a removed
slot counts as used.  The proof cuts at what an operation does rather than how
it finds it: `InsertEnds` and `RemoveEnds` show that insert ends in one of five
ways and remove in one of three; the remaining lemmas treat one way each.  Room for
a new key follows by counting: if insert finds no slot, the second table
holds `capacity_` keys (`NoRoomIsFull`).  The refinement follows from
`LookupInserted` and `LookupRemoved`, what a lookup returns after each operation
for the key it names and for the others.

### The parser

`ParserProofs` proves, for every set of requests and of other inputs, every length
of a version, array of fields and range of offsets, from `ParserAssumption` alone:

| theorem | statement |
|---|---|
| `ReadSoFarAlways` | the inductive invariant below |
| `ParserTypeOK` | the stream never stands behind its end; every slice lies in the input |
| `AlwaysInInput` | the same, and no read goes beyond the terminator |
| `OnlyRequestsAccepted` | what is accepted has the form of a request |
| `RequestsAlwaysUnderstood` | what is returned for a well-formed request is that request |

`AcceptedIsRequest` speaks of the end of a parse only.  `ReadSoFar` says the same
of every stage: the slices found so far follow each other, with nothing but their mark and
spaces between them, and the stream stands where the last of them ends.  Each
stage adds its part (`UntilStops`, `CrLfStops`, `SkipStops`: where a scan ends and what it
passed; `LookAhead`: what the end of a line was taken for, and that no
look went past the terminator).  `FieldStored` adds one field; there the
offsets must fit their type, or the entry would not stand for the slice
(`EntryRefers`).  That the stream stays in the input is part of the same
induction: after a scan that succeeded there is a character at its position, so the
step over it leads to the terminator at most.

`MessageUnderstood` is the other direction: a well-formed request is accepted, and
given back as it was sent.  The text of a request is put together from its
parts; `TextLaid` shows where each then stands (`LaidOut`), by induction over
the fields, since where one begins depends on the lengths of those before it.
`LineIs` and `FieldIs` say what the parser's scans find there: a scan
stops at the end of the part it is meant for, because no part holds what would
end it (`WellFormed`), and a line is taken for the last one exactly behind
the last field.  The invariant is `UnderstoodSoFar`: at every stage the
parts read so far are the request's, the stream stands where the next
one begins, and no error was returned.  `ItemIs` turns the entries back into
the text of the keys and values; it is there that the offsets must fit their type.
`WellFormed` asks for parts that are sequences of characters, of any length.

### The strings

The second half of `ParserProofs` is about the string references that a request is
returned as, and any others: about what `StringPair` says in every state of
`Strings`, for every set of pieces of memory, every length, every width of a hash and
number of address bits, and words of 4 and 8 bytes (`StringPairAssumption`).  `Strings` is an
instance there, so the assumption it declares, `StringsAssumption` (pieces hold bytes and do not lie at the null
address), is a hypothesis of each theorem.

| theorem | statement |
|---|---|
| `EqualityAlwaysExact` | comparing by words tells strings apart by their characters only |
| `OrderAlwaysSound` | the first character that differs decides the order |
| `KeysAlwaysHashEqually` | equal keys hash equally wherever they lie, but for the two exceptions in `EqualKeysHashEqually` |
| `EveryByteAlwaysCounts` | different keys of one length make what a function is fed differ |
| `VariantsAlwaysAgree` | the forms of a hash function that are written out for speed compute what the plain loop over the characters does |

The invariant is small (`BothStringy`: each reference has a length and bytes in
and around it, and none at a null pointer); the work is in what the loops read.

- *Comparison.* A group's comparison is that of its characters
  (`GroupMatched`), each character is in a group that begins at it or before (`InAGroup`),
  so all groups match exactly if all characters do (`GroupsExact`).  `compare` looks at
  the first group that differs and takes its bits or its byte-swapped words;
  `CompareIs` shows that this finds the first character that differs.
- *Equal keys.* A fold over equal sequences is equal, whatever it computes: for
  this the fold's definition is unfolded to the choice of a function and shown to be
  the same choice (`FourAlike`, `BytesAlike`).  The rest is that words,
  masked words, lanes and message blocks hold characters of the key alone
  (`LoadsAlike`, `MaskedAlike`, `LanesAlike`, `MessagesAlike`); the exceptions
  are those reads that do not.
- *Different keys.* Pieces of one length joined lie end to end (`FlattenedIs`, by
  induction over their number), so a character of the key can be found in
  what is fed (`MaskedIs`, `LaneIs`, `APAt`), or else all words and the rest being the
  same make the keys the same (`WordsCount`).
- *Variants.* What a plain loop computes is a walk: a value for each number of
  characters taken, each one step from the last (`Walks`).  A fold is the last
  value of the walk it takes (`FoldExists`, `FoldWalks`), so a fold over groups of four
  need only be shown to pass through every fourth value of the plain walk.  It does
  because four characters multiplied out are four steps, by arithmetic modulo
  `Mod` (`SameSum`, `SameProduct`, `PolynomialIs`), and the loop over the characters
  left goes on from there (`WalkOn`).  The checksums and word-wise forms take words
  and then the rest, which end to end are the characters (`WholeThenRest`).

### Induction

The induction theorems of the library take a predicate as a parameter, which
no installed prover can instantiate.  `PointersProofs` starts from the one
theorem about numbers that does not (`NatLessThanWellFounded`): every set of natural
numbers has a least element (`LeastElement`), so a set that holds 0 and the
successor of each of its members holds all (`SetInduction`), so a function
given by a first value and a step exists (`Recursion`).  Hence `Reached`, by which the models
follow pointers, takes each step it should (`ReachedHops`), and statements about
walks are proved by induction over the set of lengths for which they hold.

### The list

`LinkedListProofs` proves, for every set of keys and values, every capacity and every
set of sizes the list is resized to, from `ListAssumption` alone:

| theorem | statement |
|---|---|
| `ListAlwaysGood` | the inductive invariant below |
| `TypeCorrect` | type correctness |
| `WalksAlwaysAgree` | front to back is the reverse of back to front |
| `NodesAlwaysPartitioned` | each node handed out is linked, free or with a caller, and one of these only |
| `HandlesAlwaysLinked` | a handle names a linked node |
| `ListRefinement` | the list implements `ListSpec` |

None of these is inductive: a walk computes a sequence, and to know what
it computes after a `remove` one has to know what the pointers were before.
The invariant (`Whole`) gives the sequences instead: there is a thread `e` of
`n` nodes from `head_` to `tail_` in which `next` and `prev` lead from each to its
neighbours, a thread `f` of `m` nodes from the head of the free list to null, the
nodes of both and those in callers' hands are disjoint and are all nodes
handed out (`Separate`).  Each operation changes a few pointers: `SetNextEffect` and
`SetPrevEffect` say which; `ThreadLinked`, `ThreadUnlinked` and `ThreadKept` what becomes of a
thread when a node is linked into it, unlinked, or lies elsewhere.  The `Whole...` lemmas put these
together, one for each operation of `ListNodes`.  That the walks give the threads (`ForwardIs`,
`BackwardIs`, `FreePathIs`) then ties the invariant to what the runs check.
TLC found the invariant true in all 20982 states of `list_tidy`.

### The caches

`LRUCachesProofs` proves, for every set of keys and values, every capacity, window and
second hash, of `LRUCache` alone (`Spec`) from `CacheAssumption`:

| theorem | statement |
|---|---|
| `CacheAlwaysGood` | the inductive invariant below |
| `TypeCorrect` | type correctness |
| `TableAlwaysMatchesList` | table and list hold the same keys; each key's node is where the table says |
| `CacheRefinement` | the cache implements `LRUSpec` |

The invariant joins the two parts: the list is one chain of all nodes handed
out and nothing is free (`Chain`, an instance of `Whole`), the table is `Sound`, and
the table leads from the key of each node to that node and from no other key
to any (`Matches`).  What the table does is taken from `LRUHashTableProofs` by instance,
its values being nodes; its lemmas about a single insertion or removal
hold for the two a `touch` makes one after the other, with a table between them that
no call ends with.  `CapacityIsEnough` (doubling the default capacity reaches the
capacity asked for) gives the room that `put` needs, since insert drops
a key silently when there is none.  That a cache key is a natural number
is needed: -1 and -2 are the table's marks.

Of the three caches side by side (`AllSpec`), from `CachesAssumption` besides, hence also
for every hash of the dictionary's and every heap that is larger than the cache:

| theorem | statement |
|---|---|
| `CachesAlwaysGood` | the inductive invariant below |
| `AnswersAlwaysAgree` | the same calls get the same answers and leave the same pairs in the same order |
| `MapAlwaysOwnsNodes` | `V2`'s map leads to allocated nodes of their own keys; none leaks |
| `DictionaryAlwaysMatchesList` | between two calls `V3`'s dictionary leads from each node's key, and no other, to the node |
| `DictionaryNeverRehashed` | `V3`'s dictionary keeps its capacity and never runs out |
| `FirstCacheRefinement`, `SecondCacheRefinement` | `LRUCache` and `V2` implement `LRUSpec` here |

That two caches agree is not inductive either, for what they do next depends on
pointers.  The invariant (`AllInv`) gives each cache a thread of its own and ties it to
the order of the first one's pairs.  `V2` (`Good2`): a thread over the heap, from
`head_` to `tail_`, whose nodes hold those pairs from the back (`Mirrors`);
the map leads to each of its nodes and to nothing else (`Owns`); all other addresses are
free, so whichever of them the allocator returns is none of the cache's (it may be the
one the eviction just deleted).  `V3` (`Good3`): its
list is one chain; its dictionary is `Sound` and `Kempt` as `DictionaryProofs` shows, and is seen
through one function from keys to nodes (`Led`), so that three lemmas say all of
it: what it is (`DictLed`), and what an insert and an erase make of it (`DictInserted`, `DictErased`).
A put of `V3` takes several steps while the first cache has done its own;
the invariant names the four phases: `Idling`, the erased key gone (`Replacing`), the new
key in over a node that still holds the old one (`Moving`), the node in the list
but not in the dictionary (`Adding`).  In the middle two the first cache's order is
related to the one of `V3` as a put would leave it (`Renews`).  The dictionary never grows as
long as it holds no more keys than nodes: every eviction leaves the entry
that the next insert takes.

The existence of a thread is a quantifier over functions that TLC cannot enumerate; it
checks the consequences in run `caches`.  `V3` alone is not shown to implement `LRUSpec` by a
mapping of its own: at the end of each put it holds the first cache's order, which does.

### The dictionary

`DictionaryProofs` proves, for every set of keys and values, every hash, every
width of it and every limit of the capacity, from `DictionaryAssumption`:

| theorem | callers | statement |
|---|---|---|
| `DictionaryAlwaysGood` | any | the inductive invariant below |
| `ChainsAlwaysSound` | any | each chain ends and links exactly the live entries of its bucket |
| `FreelistAlwaysSound` | any | the free list ends and is exactly the erased entries |
| `TidyAlwaysGood` | careful | the invariant, and `Kempt` below |
| `EntriesStayStable` | careful | an entry does not move while the capacity is kept |
| `GrowsOnlyFull` | careful | the table is doubled only when every slot holds a key |
| `NeverFaults` | careful | no operation leaves the arrays |
| `MapRefinement` | careful | the dictionary implements `MapSpec` |

Careful callers are those of `TidySpec` (section 3).  `NeverFaults` alone has hypotheses
besides: allocations succeed and no request exceeds `kMaximumCapacity`, as
in `dict_map`; otherwise an insert after a failed doubling writes behind the
array, as section 3 says.  All others hold whichever allocations fail.

That a chain ends is not inductive, and chains and free list share one field.
The invariant says that there is an order `r` of the slots along which all of them run
(`Sound`): the head of a chain is the first of its entries in the order, and each `next` leads to the entry of the
same chain that comes next below it (`Chained`).  This speaks of entries and
their successors only.  Linking an entry moves its slot to the top of the order (`Topped`), and so
does pushing it on the free list; unlinking keeps the order; after a rehash the order is that
of the slots, since its relinking loop pushes them one after the other on the
front of their chains.  `WalkEnds` and `WalkMeets` show that a walk down such a chain ends
within `capacity` steps and meets all of it, by which
`Visited`, `Ends` and the search are known.  `freeSize` is a cardinality and changes by one with
the set.

What careful callers see needs `Kempt`: every slot handed out was written, each
live entry has the hash of its key, and no two have one key.  `FindIs` then says
what a search returns.  Every step puts one pair, removes one key, clears, or changes nothing
(`HeldPut`, `HeldLess`, `HeldNone`, `HeldSame`: what is stored before and after, wherever
it lies), from which the refinement follows, and leaves every entry in its slot unless the
capacity changes (`Stays`).  TLC found the invariant true in all 9383
states of `dict_any`, and with `Kempt` in those of careful callers with failing allocations.

### The older dictionary

`DictionaryExProofs` proves, for every finite set of keys, every set of values, every hash and
every capacity, and for any number of entry arrays, from `DictionaryExAssumption`:

| theorem | statement |
|---|---|
| `TableAlwaysFiled` | the inductive invariant below |
| `EntriesAlwaysPartitioned` | each entry of every array is in the chain of its hash, on the free list or not handed out yet; the counters count |
| `FindsAlwaysAnswer` | a find that returns returns what is stored |
| `ExRefinement` | the table implements `MapSpec`, the rounds of a search and relinking being stutters |

None of them needs hashes that differ: a search that meets another key of equal hash
never ends (`dictex_collide`), and so never answers wrongly.  That each search does
end where hashes differ is liveness and stays with TLC.

The invariant (`FiledInv`) says that there are the set `L` of entries stored, the
set `F` of those erased and a rank of the entries, natural numbers, for which
(`Sound`) each chain is a `ChainOf` the entries of `L` that belong to its bucket, and
the free list one of `F`: the head has the least rank of all, and each `next` leads to
the entry of least rank among those behind, or to null if there is none.  `L`, `F`
and the rest of the open array are disjoint, the keys in `L` differ, and the counters are
cardinalities.  A call in progress (`Searching`) has its cursor in the
chain of its key, `before` is the entry whose `next` is the cursor, and no entry passed
has the key.  Pushing an entry gives it rank 0 and every other one more (`InFront`);
taking one out leaves the ranks (`ChainWithout`); after a rehash the rank is the place in
the order in which the entries were relinked, backwards (`RelinkedChain`).

What the model computes from pointers is then known: a walk longer than a chain
lists it without repetition (`WalkLists`, by induction over its length), the listings of
all buckets joined list `L` (`ListingOfAll`, `AllListed`), which is what a
rehash relinks (`RehashSound`), however many arrays the entries lie in.  What is
stored is a function of `L` (`MapOf`, `StoredIs`), to which each step does one
operation of `MapSpec` or none (`Explained`, `StepKeeps`).  `L` and `F`
are quantified over all sets, which TLC cannot enumerate; it checks the consequences in run `dictex`.

### The three tables

`HashMapsProofs` proves, for each of `hash_table`, `hash_map` and `hash_map_ex`, for
every finite set of keys, every set of values, every hash, every default and largest
capacity, and whichever allocations fail, from `HashMapsAssumption`:

| theorem | statement |
|---|---|
| `AlwaysSound` | the inductive invariant below |
| `LayoutAlwaysSound` | `hash_table` keeps an empty bucket and each key once; the entries of the other two are in the list of their bucket, and counted |
| `AlwaysGrownInTime` | no more than three quarters of the buckets are used, or memory ran out |
| `CallsAlwaysTakeEffect` | a call changes what it names and nothing else |
| `ContainersAreMaps` | each of the three implements `MapSpec` |

`GrowthBound`, up to which an insert doubles, is a bound of the model; the
assumption puts it at `kMaximumCapacity` at most, so what is proved says nothing of a
table that is to grow beyond the largest capacity.

`AlwaysGrownInTime` has one hypothesis of its own: no constructor is asked for more than
the largest capacity (`Modest`).  A constructor does not limit the capacity, but a later
rehash does, and a `hash_map` made larger and then cut down to the largest
capacity may hold more than three quarters of it (TLC finds such a run in four
steps when `kMaximumCapacity` is 2 and a constructor is asked for 3).
`hash_table` limits both.

The invariant (`Sound`) says that there is a number `n` of buckets for which the
array is well formed and its entries, taken as a set, have different keys and
are `size` in number (`Stock`); well formed means that no two buckets of `hash_table`
hold one key (its searches go all the way round, so an entry may lie in any
bucket), and in the other two that each entry lies once, in the list its hash
names.  For `hash_table` the load is part of the invariant (`4 * size <= 3 * n`):
a search for a place ends nowhere else than at an empty bucket.  In the other two nothing
but growth depends on the load, and it is kept beside the rest (`Kept`).

Each operation is then stated by what it does to that set: `Shows` ties it to
what lookups return, an insert adds a member, an erase takes one away.  A
rehash is the difficult one, being a loop in each container.  The
model gives it as a function from the number of steps done to the arrays at that
point; `StepByStep` is induction over such steps, and `Absorbs` says that if each
step takes the entries of one list, all steps take all.  That the new array
has room throughout follows from its capacity being at least twice the size,
for which `Powers` (`RoundedUp`, in `PointersProofs`) is needed.

`Sound` begins with a quantifier over all numbers, which TLC cannot evaluate; it
checks the consequences in run `maps`.

### What is only model-checked

- Liveness everywhere (`EveryCallReturns` of `DictionaryEx`): fairness and
  `ENABLED` are out of the prover's reach.
- `Router`: `AnsweredByItsRoute`, `AddIsLocal` and the refinement of `RouterSpec`, which all
  rest on what the recursions of `compile_tree` and `find_node` compute.
- What a recursive definition computes for every input.  The list and the
  dictionary are proved by invariants that follow no pointers further than one step
  (section "Induction"; the walks of `dictionary_ex` are known because chains
  are finite and ordered), the rehashes of the three tables by what each step of
  them does, the folds of the hash functions by the walks they take; what `Router`
  finds in a trie stays within TLC's bounds.

## 5. Plan

1. (done) map, dictionary, table, list, cache; proofs about the table.
2. (done) `V2` and `V3::LRUCache` as further implementations of `LRUSpec`, the
   latter over the whole `Dictionary`; `dictionary_ex`, the one place where
   termination is a question.
3. (done) The parser over `InputStream`, with its list of fields, and proofs
   that it reads in bounds, accepts requests only and understands every one.
4. (done) `hash_table`, `hash_map`, `hash_map_ex` fed with the same calls, against
   `MapSpec`; string references, comparison and the hash functions.
5. (done) `HttpRouter`: the compiled trie answers as the list of routes does.
6. (done) Proofs about the table, the list, the three caches and their agreement, the
   dictionary and the older one, the parser, strings and the three tables.
7. Proof left: `AnsweredByItsRoute`.

### Not modelled

`fixed_freelist`, which nothing includes and whose `capacity` and `refill` do not
compile once used; `StringHelper`, the parser's scanning variants and the
setters, which nothing calls; `FastParser.h`, a copy of `Parser.h`; `Request`,
`Response`, `Version` (plain data), the platform headers, the old parser that
nothing includes, the benchmarks and the sample server; the 32-bit form of `sha1_msg2`, which feeds
the same blocks as the 64-bit form but returns another word; third-party code under
`deps`, and the C# copy of the .NET dictionary.
