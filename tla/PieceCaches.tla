----------------------------- MODULE PieceCaches ----------------------------
(***************************************************************************)
(* The two caches of pieces (p2p-distribute).                              *)
(*                                                                         *)
(* PieceDataCache (piece_data_cache.rs): an adaptive replacement cache of  *)
(* whole pieces under a byte budget that may change.  T1 holds the pieces  *)
(* seen once, T2 those seen again, B1 and B2 remember what was evicted     *)
(* from them; p is the size T1 aims at.  Every operation holds the lock    *)
(* throughout, so that each is one step.                                   *)
(*                                                                         *)
(* PieceCache (cache.rs): which pieces are at hand, in the order of use;   *)
(* the bridge keeps one under its own lock.                                *)
(***************************************************************************)
EXTENDS Integers, FiniteSets, SequencesExt

CONSTANTS
    CachePieces,    \* the pieces
    PieceBytes,     \* the length of each
    Budgets,        \* the values max_bytes takes
    GhostUnit,      \* max_bytes per ghost, 256 KiB in the code
    MinGhosts,      \* and the least number of ghosts, 16 in the code
    CacheCapacity   \* capacity of a PieceCache

ASSUME CachesAssumption ==
    /\ PieceBytes \in [CachePieces -> Nat] /\ Budgets \subseteq Nat
    /\ {GhostUnit, MinGhosts} \subseteq Nat \ {0} /\ CacheCapacity \in Nat

VARIABLES
    cache,      \* Inner, of the PieceDataCache
    lru,        \* lru_order: pieces, the most recent first
    cached      \* entries of the PieceCache

GhostCap(budget) == IF budget \div GhostUnit > MinGhosts THEN budget \div GhostUnit ELSE MinGhosts

(* Inner. *)
NewCache(budget) ==
    [t1 |-> <<>>, t2 |-> <<>>, b1 |-> <<>>, b2 |-> <<>>, entries |-> {},
     current_bytes |-> 0, max_bytes |-> budget, ghost_cap |-> GhostCap(budget), p |-> 0]

CacheInit == cache \in {NewCache(b) : b \in Budgets}

AtLeastOne(n) == IF n < 1 THEN 1 ELSE n

(* add_to_ghost_b1 and _b2: the oldest ghosts give way. *)
Ghosts(list, cap, i) == <<i>> \o SubSeq(list, 1, IF Len(list) < cap THEN Len(list) ELSE cap - 1)

(* evict_from_t1, evict_from_t2: the least recent goes, and is remembered.  *)
EvictT1(c) ==
    LET i == Last(c.t1)
    IN  [c EXCEPT !.t1 = Front(@), !.b1 = Ghosts(@, c.ghost_cap, i),
                  !.entries = @ \ {i}, !.current_bytes = @ - PieceBytes[i]]
EvictT2(c) ==
    LET i == Last(c.t2)
    IN  [c EXCEPT !.t2 = Front(@), !.b2 = Ghosts(@, c.ghost_cap, i),
                  !.entries = @ \ {i}, !.current_bytes = @ - PieceBytes[i]]

(* replace. *)
Replace(c) ==
    IF c.t1 # <<>> /\ (c.t2 = <<>> \/ Len(c.t1) > c.p) THEN EvictT1(c) ELSE EvictT2(c)

(* ensure_room, and the loop of set_max_bytes with nothing to come: evict   *)
(* until it fits, or nothing is left, which takes no more rounds than there *)
(* are pieces.                                                              *)
HasRoom(c, bytes) == c.current_bytes + bytes <= c.max_bytes \/ (c.t1 = <<>> /\ c.t2 = <<>>)

EnsureRoom(c, bytes) ==
    LET rounds == Len(c.t1) + Len(c.t2)
        after[n \in 0 .. rounds] ==
            IF n = 0 THEN c
            ELSE IF HasRoom(after[n - 1], bytes) THEN after[n - 1] ELSE Replace(after[n - 1])
    IN  after[rounds]

(* A slip: the ghost that was hit is not forgotten. *)
ForgetNothing(c, i) == c

(* remove_from_ghost_b1 and _b2. *)
ForgetB1(c, i) == [c EXCEPT !.b1 = RemoveFirst(@, i)]
ForgetB2(c, i) == [c EXCEPT !.b2 = RemoveFirst(@, i)]

(* promote_to_t2, of a piece that is held. *)
PromoteToT2(c, i) ==
    [c EXCEPT !.t1 = RemoveFirst(@, i),
              !.t2 = <<i>> \o IF i \in ToSet(c.t1) THEN @ ELSE RemoveFirst(@, i)]

(* What insert does to a piece that is not held, but for the list.          *)
Admit(c, i) ==
    [EnsureRoom(c, PieceBytes[i]) EXCEPT !.current_bytes = @ + PieceBytes[i],
                                         !.entries = @ \cup {i}]
AdmitToT1(c, i) == LET d == Admit(c, i) IN [d EXCEPT !.t1 = <<i>> \o @]
AdmitToT2(c, i) == LET d == Admit(c, i) IN [d EXCEPT !.t2 = <<i>> \o @]

(* The target after a hit among the ghosts of T1, or of T2. *)
Raised(c) ==
    LET to == c.p + AtLeastOne(Len(c.b2) \div AtLeastOne(Len(c.b1)))
    IN  IF to > c.ghost_cap THEN c.ghost_cap ELSE to
Lowered(c) ==
    LET by == AtLeastOne(Len(c.b1) \div AtLeastOne(Len(c.b2)))
    IN  IF by > c.p THEN 0 ELSE c.p - by

Inserted(c, i) ==
    IF PieceBytes[i] > c.max_bytes THEN c
    ELSE IF i \in c.entries THEN PromoteToT2(c, i)
    ELSE IF i \in ToSet(c.b1) THEN AdmitToT2(ForgetB1([c EXCEPT !.p = Raised(c)], i), i)
    ELSE IF i \in ToSet(c.b2) THEN AdmitToT2(ForgetB2([c EXCEPT !.p = Lowered(c)], i), i)
    ELSE AdmitToT1(c, i)

InsertPiece(i) == cache' = Inserted(cache, i)

(* get: a hit counts as a second sight; a miss changes nothing.             *)
GetPiece(i) == cache' = IF i \in cache.entries THEN PromoteToT2(cache, i) ELSE cache

(* remove: the data if there is any, the ghosts otherwise. *)
Removed(c, i) ==
    IF i \in c.entries
    THEN [c EXCEPT !.entries = @ \ {i}, !.current_bytes = @ - PieceBytes[i],
                   !.t1 = RemoveFirst(@, i),
                   !.t2 = IF i \in ToSet(c.t1) THEN @ ELSE RemoveFirst(@, i)]
    ELSE ForgetB2(ForgetB1(c, i), i)

RemovePiece(i) == cache' = Removed(cache, i)

Clear == cache' = [NewCache(cache.max_bytes) EXCEPT !.ghost_cap = cache.ghost_cap]

(* set_max_bytes: the ghosts beyond a smaller cap stay until the next comes. *)
Budgeted(c, budget) ==
    LET cap == GhostCap(budget)
    IN  [c EXCEPT !.max_bytes = budget, !.ghost_cap = cap, !.p = IF @ > cap THEN cap ELSE @]

SetMaxBytes(budget) == cache' = EnsureRoom(Budgeted(cache, budget), 0)

CacheNext ==
    \/ \E i \in CachePieces : InsertPiece(i) \/ GetPiece(i) \/ RemovePiece(i)
    \/ Clear
    \/ \E b \in Budgets : SetMaxBytes(b)
-----------------------------------------------------------------------------
(* touch: a piece that is used moves to the front. *)
Touch(p) ==
    /\ lru' = IF p \in cached THEN <<p>> \o RemoveFirst(lru, p) ELSE lru
    /\ UNCHANGED cached

(* insert, with evict_lru of the last in the order. *)
CacheInsert(p) ==
    IF p \in cached THEN Touch(p)
    ELSE LET full == Cardinality(cached) >= CacheCapacity /\ lru # <<>>
         IN  /\ cached' = (IF full THEN cached \ {Last(lru)} ELSE cached) \cup {p}
             /\ lru' = <<p>> \o IF full THEN Front(lru) ELSE lru
-----------------------------------------------------------------------------
(* The two lists are the data that is held, each piece in one of them; the  *)
(* byte count is theirs and within the budget, however it was changed; no   *)
(* piece is remembered as evicted while it is held, or twice; and p stays   *)
(* within its range.                                                        *)
BytesOf(pieces) == Cardinality(UNION {{i} \X (1 .. PieceBytes[i]) : i \in pieces})

CacheIsExact ==
    LET lists == <<cache.t1, cache.t2, cache.b1, cache.b2>>
    IN  /\ ToSet(cache.t1) \cup ToSet(cache.t2) = cache.entries
        /\ cache.current_bytes = BytesOf(cache.entries)
        /\ cache.current_bytes <= cache.max_bytes
        /\ \A k \in 1..4 : /\ IsInjective(lists[k])
                           /\ \A l \in 1..(k - 1) : ToSet(lists[k]) \cap ToSet(lists[l]) = {}
        /\ cache.p \in 0..cache.ghost_cap

(* A PieceCache lists every piece it has once and never has more than fit   *)
(* (a capacity of zero still takes one).                                    *)
CacheIsConsistent ==
    /\ ToSet(lru) = cached /\ Len(lru) = Cardinality(cached)
    /\ Cardinality(cached) <= IF CacheCapacity = 0 THEN 1 ELSE CacheCapacity

(* The adaptive cache counts its bytes, keeps its budget and mixes up no    *)
(* lists (PieceDataCache); the bridge's cache lists what it has, once, and  *)
(* no more than fits (cache.rs insert, touch, evict_lru).                   *)
CachesAreExact == CacheIsExact /\ CacheIsConsistent
=============================================================================
