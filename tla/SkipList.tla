------------------------------ MODULE SkipList ------------------------------
(***************************************************************************)
(* The skip list in which the kernel module looks up the guest's vsids.      *)
(* Elements are allocated in chunks, each with the number of levels it has   *)
(* room for; on the free list that number is kept where the key will be.    *)
(* A search starts at a level that depends on the number of elements, a     *)
(* deletion at the top, an insertion at the higher of search level and      *)
(* height.                                                                  *)
(*                                                                         *)
(* Sources: kmod/skiplist.c, and the sweep of kmod/mtable.c that deletes     *)
(* elements while it iterates.                                              *)
(***************************************************************************)
EXTENDS Integers, Sequences, FiniteSetsExt, SequencesExt

CONSTANTS
    MaxHeight,      \* SKIPLIST_MAX_HEIGHT
    SearchBias,     \* the 3 that is taken off the logarithm
    Keys,           \* keys of elements
    Chunk,          \* elements of a chunk
    MaxElems        \* bound: elements allocated

ASSUME SkipAssumption ==
    /\ MaxHeight \in Nat \ {0} /\ SearchBias \in Nat /\ Keys \subseteq Int
    /\ Chunk \in Nat \ {0} /\ MaxElems \in Nat

Elements == 1 .. MaxElems
Root == 0
NilEl == -1
Nodes == Elements \cup {Root, NilEl}
Levels == 0 .. MaxHeight - 1
(* SKIPLIST_END, which no element has for a key.                             *)
SKIPLIST_END == Max(Keys) + 1

VARIABLES
    sl,         \* skiplist_t: nel, slevel, next per level, the free list, keys
    capacity,   \* history: levels each element was allocated with
    content     \* history: the element of each key

skipVars == <<sl, capacity, content>>

SkipTypeOK ==
    /\ sl \in [nel : 0 .. MaxElems, slevel : Levels, next : [Levels -> [Nodes -> Nodes]],
               free : Seq(Elements), key : [Elements -> Int]]
    /\ capacity \in [Elements -> Levels \cup {-1}]
    /\ content \in [Keys -> Elements \cup {NilEl}]

(* skiplist_init().                                                          *)
EmptyList == [nel |-> 0, slevel |-> 0, next |-> [n \in Levels |-> [x \in Nodes |-> NilEl]],
              free |-> <<>>, key |-> [e \in Elements |-> 0]]

SkipInit ==
    /\ sl = EmptyList
    /\ capacity = [e \in Elements |-> -1]
    /\ content = [k \in Keys |-> NilEl]

-----------------------------------------------------------------------------
KeyOf(s, x) == IF x = NilEl THEN SKIPLIST_END ELSE s.key[x]

(* The last node of level n, from x on, whose key is smaller.                *)
Left(s, key, n, x) ==
    LET go[y \in Nodes] == IF KeyOf(s, s.next[n][y]) < key THEN go[s.next[n][y]] ELSE y
    IN go[x]

(* ... of every level down from top, each search starting where the one      *)
(* above it ended.                                                           *)
Lefts(s, key, top) ==
    LET left[n \in 0 .. top] == Left(s, key, n, IF n = top THEN Root ELSE left[n + 1])
    IN left

(* skiplist_prealloc(): a chunk whose elements have random heights.          *)
Allocated == Cardinality({e \in Elements : capacity[e] >= 0})

skiplist_prealloc(height) ==
    /\ sl.free = <<>> /\ Allocated + Chunk <= MaxElems
    /\ LET new == [i \in 1 .. Chunk |-> Allocated + i]
       IN /\ sl' = [sl EXCEPT !.free = Reverse(new),
                              !.key = [e \in Elements |-> IF e \in Range(new)
                                         THEN height[e - Allocated] ELSE @[e]]]
          /\ capacity' = [e \in Elements |-> IF e \in Range(new)
                                         THEN height[e - Allocated] ELSE capacity[e]]
    /\ UNCHANGED content

(* The start level: the logarithm of the number of elements, less a bias.    *)
Log2(n) == CHOOSE k \in 0 .. n : 2 ^ k <= n /\ n < 2 ^ (k + 1)
SearchLevel(nel) == Max({0, Min({MaxHeight - 1, Log2(nel) - SearchBias})})

InsertFrom(slev, n) == IF slev < n THEN n ELSE slev

(* skiplist_insert(); the caller has looked the key up before.               *)
skiplist_insert(key) ==
    /\ sl.free # <<>> /\ content[key] = NilEl
    /\ LET p == Head(sl.free)
           n == sl.key[p]
           slev == SearchLevel(sl.nel + 1)
           s == [sl EXCEPT !.free = Tail(@), !.key[p] = key, !.nel = @ + 1, !.slevel = slev]
           left == Lefts(s, key, InsertFrom(slev, n))
       IN /\ sl' = [s EXCEPT !.next = [m \in Levels |->
                       IF m <= n /\ m \in DOMAIN left
                       THEN [@[m] EXCEPT ![p] = s.next[m][left[m]], ![left[m]] = p] ELSE @[m]]]
          /\ content' = [content EXCEPT ![key] = p]
    /\ UNCHANGED capacity

(* skiplist_delete(): the highest level that has the key is the height of    *)
(* the element, which is what the free list needs.  The links of a free      *)
(* element are dead.                                                         *)
DeleteFrom(s) == MaxHeight - 1

Delete(s, key) ==
    LET left == Lefts(s, key, DeleteFrom(s))
        at == {n \in DOMAIN left : KeyOf(s, s.next[n][left[n]]) = key}
        level == Max(at)
        p == s.next[level][left[level]]
    IN IF at = {} THEN s
       ELSE [s EXCEPT !.next = [n \in Levels |->
                         IF n \in at THEN [@[n] EXCEPT ![left[n]] = s.next[n][p], ![p] = NilEl]
                         ELSE @[n]],
                      !.key[p] = level, !.free = <<p>> \o @, !.nel = @ - 1]

skiplist_delete(key) ==
    /\ sl' = Delete(sl, key)
    /\ content' = [content EXCEPT ![key] = NilEl]
    /\ UNCHANGED capacity

(* skiplist_iterate() and skiplist_getnext(), and a caller that deletes      *)
(* elements it has been given: the iterator is moved on first.               *)
(* Mutant: the iterator is moved on from the deleted element. *)
GetNextLate(before, after, x) == after.next[0][x]

GetNext(before, after, x) == before.next[0][x]

Sweep(s, dead) ==
    LET step(r, k) ==
            IF r.at = NilEl THEN r
            ELSE LET e == r.at
                     t == IF r.s.key[e] \in dead THEN Delete(r.s, r.s.key[e]) ELSE r.s
                 IN [s |-> t, at |-> GetNext(r.s, t, e), seen |-> r.seen \cup {e}]
    IN FoldLeft(step, [s |-> s, at |-> s.next[0][Root], seen |-> {}], [k \in Elements |-> k])

mtable_reclaim_sweep(dead) ==
    /\ sl' = Sweep(sl, dead).s
    /\ content' = [k \in Keys |-> IF k \in dead THEN NilEl ELSE content[k]]
    /\ UNCHANGED capacity

(* clear_all_vsids(): the list is emptied, its elements are given up.        *)
skiplist_clear ==
    /\ sl' = EmptyList
    /\ content' = [k \in Keys |-> NilEl] /\ capacity' = [e \in Elements |-> -1]

(* skiplist_lookup(): right while the key is smaller, else down, until equal. *)
skiplist_lookup(key) ==
    LET go[x \in Nodes, n \in Levels] ==
            LET y == sl.next[n][x]
            IN IF KeyOf(sl, y) < key THEN go[y, n]
               ELSE IF KeyOf(sl, y) = key THEN y
               ELSE IF n = 0 THEN NilEl ELSE go[x, n - 1]
    IN go[Root, sl.slevel]

-----------------------------------------------------------------------------
SkipNext ==
    \/ \E height \in [1 .. Chunk -> Levels] : skiplist_prealloc(height)
    \/ \E k \in Keys : skiplist_insert(k) \/ skiplist_delete(k)
    \/ \E dead \in SUBSET Keys : mtable_reclaim_sweep(dead)
    \/ skiplist_clear

SkipSpec == SkipInit /\ [][SkipNext]_skipVars

-----------------------------------------------------------------------------
(* The search, which skips and starts at a level chosen from a count, finds  *)
(* what is in the list: for each key the element that was inserted with it.  *)
LookupExact == \A k \in Keys : skiplist_lookup(k) = content[k]

(* The nodes of level n in order.                                            *)
Chain(n) == LET path[i \in 0 .. MaxElems] ==
                    IF i = 0 THEN <<>>
                    ELSE LET x == sl.next[n][IF path[i - 1] = <<>> THEN Root ELSE Last(path[i - 1])]
                         IN IF x = NilEl THEN path[i - 1] ELSE Append(path[i - 1], x)
            IN path[MaxElems]

(* Level n holds the elements with room for it, in order of their keys, and  *)
(* no other: no operation follows or writes a level an element does not have.*)
LevelsNested ==
    \A n \in Levels :
        LET c == Chain(n)
        IN /\ Range(c) = {content[k] : k \in Keys} \cap {e \in Elements : capacity[e] >= n}
           /\ \A i \in 1 .. Len(c) - 1 : sl.key[c[i]] < sl.key[c[i + 1]]

(* An element that is reused has its own height: the free list keeps, in     *)
(* place of the key, what the element was allocated with, and free and       *)
(* listed elements together are all of them, once each.                      *)
FreeKeepsHeight ==
    /\ \A i \in DOMAIN sl.free : sl.key[sl.free[i]] = capacity[sl.free[i]]
    /\ Len(sl.free) + sl.nel = Allocated
    /\ Cardinality(Range(sl.free)) = Len(sl.free)
    /\ Range(sl.free) \cap {content[k] : k \in Keys} = {}

(* A sweep sees every element, although it deletes some of those it has seen. *)
SweepSeesAll ==
    sl.nel > 0 => \A dead \in SUBSET Keys : Sweep(sl, dead).seen = {content[k] : k \in Keys} \ {NilEl}

(* The skip list is sound: it finds exactly what was inserted, each level    *)
(* has the elements with room for it, free elements keep their height, and a *)
(* sweep that deletes sees all.                                              *)
SkipListSound ==
    /\ SkipTypeOK /\ LookupExact /\ LevelsNested
    /\ FreeKeepsHeight /\ SweepSeesAll
=============================================================================
