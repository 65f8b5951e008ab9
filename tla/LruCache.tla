-------------------------------- MODULE LruCache --------------------------------
(***************************************************************************)
(* The reference solution of the task lru-cache: a list of entries, the    *)
(* most recently used first, and an index of its keys. The value put is    *)
(* the number of the operation.                                            *)
(***************************************************************************)
EXTENDS Naturals, Sequences

CONSTANTS
    Keys,        \* the keys
    Capacities,  \* the capacities a cache is made with
    MaxUses      \* bound: operations on a cache

ASSUME CacheAssumption == Capacities \subseteq Nat /\ MaxUses \in Nat

VARIABLES
    capacity,  \* capacity_
    items,     \* items_, first to last
    index,     \* index_: the keys that have an iterator into the list
    uses,      \* history: the number of operations so far
    used,      \* history: for each key the last operation that found or put it, or 0
    stored     \* history: for each key the value last put, or 0

cacheVars == <<capacity, items, index, uses, used, stored>>

Entry(key, value) == [key |-> key, value |-> value]
Position(key) == CHOOSE i \in DOMAIN items : items[i].key = key

CacheInit ==
    /\ capacity \in Capacities
    /\ items = <<>> /\ index = {}
    /\ uses = 0 /\ used = [k \in Keys |-> 0] /\ stored = [k \in Keys |-> 0]

\* splice(): entry p becomes the first, those before it move back by one.
Spliced(s, p) ==
    [i \in DOMAIN s |-> IF i = 1 THEN s[p] ELSE IF i <= p THEN s[i - 1] ELSE s[i]]

\* Mutant of Touched: a get() does not count as a use.
TouchedByPut(key) == items
Touched(key) == Spliced(items, Position(key))

Uses(key) ==
    /\ uses < MaxUses
    /\ uses' = uses + 1
    /\ used' = [used EXCEPT ![key] = uses + 1]
    /\ UNCHANGED capacity

\* get() of a key that is there. What it returns is the value of the entry.
Found(key) == items[Position(key)].value
Hit(key) ==
    /\ key \in index
    /\ Uses(key)
    /\ items' = Touched(key)
    /\ UNCHANGED <<index, stored>>

\* get() of a key that is not: std::nullopt.
Miss(key) ==
    /\ key \notin index
    /\ uses < MaxUses /\ uses' = uses + 1
    /\ UNCHANGED <<capacity, items, index, used, stored>>

get(key) == Hit(key) \/ Miss(key)

AtCapacity == Len(items) = capacity

\* The entries and the keys that put() leaves when it needs room.
\* Mutant of Indexed: the list forgets the entry, the index does not.
IndexedStill == index
Listed == IF AtCapacity THEN SubSeq(items, 1, Len(items) - 1) ELSE items
Indexed == IF AtCapacity THEN index \ {items[Len(items)].key} ELSE index

put(key) ==
    /\ Uses(key)
    /\ stored' = [stored EXCEPT ![key] = uses + 1]
    /\ \/ capacity = 0 /\ UNCHANGED <<items, index>>
       \/ /\ capacity # 0 /\ key \in index
          /\ items' = Spliced([items EXCEPT ![Position(key)].value = uses + 1], Position(key))
          /\ UNCHANGED index
       \/ /\ capacity # 0 /\ key \notin index
          /\ items' = <<Entry(key, uses + 1)>> \o Listed
          /\ index' = Indexed \cup {key}

CacheNext == \E key \in Keys : get(key) \/ put(key)

CacheSpec == CacheInit /\ [][CacheNext]_cacheVars

---------------------------------------------------------------------------
(* Properties. *)

\* The variables keep their types.
CacheTypeOK ==
    /\ capacity \in Capacities
    /\ items \in Seq([key : Keys, value : Nat]) /\ index \subseteq Keys
    /\ uses \in Nat /\ used \in [Keys -> 0..uses] /\ stored \in [Keys -> Nat]

\* The list and the index hold the same keys, once each, and no more than the capacity.
ListAndIndexAgree ==
    /\ \A i, j \in DOMAIN items : items[i].key = items[j].key => i = j
    /\ index = {items[i].key : i \in DOMAIN items}
    /\ Len(items) <= capacity

\* The cache has the keys that were found or put last, as many as it has room for, in the
\* order of their last use, each with the value last put.
CacheKeepsTheMostRecent ==
    /\ ListAndIndexAgree
    /\ \A i, j \in DOMAIN items : i < j => used[items[i].key] > used[items[j].key]
    /\ \A in \in index, out \in Keys \ index : used[in] > used[out]
    /\ Len(items) < capacity => \A out \in Keys \ index : used[out] = 0
    /\ \A key \in index : Found(key) = stored[key]

=============================================================================
