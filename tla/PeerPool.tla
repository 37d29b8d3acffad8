------------------------------ MODULE PeerPool ------------------------------
(***************************************************************************)
(* PeerPool (p2p-distribute, peer_pool.rs): which peers are active, which  *)
(* wait to be reconnected and which are banned.  Times are ages and        *)
(* countdowns.                                                             *)
(***************************************************************************)
EXTENDS Naturals, FiniteSets

CONSTANTS
    PoolPeers,
    MaxPeers,           \* max_peers
    Scores,             \* scores a peer can be given
    EvictionThreshold,  \* eviction_threshold
    MinActive,          \* min_active_duration
    InitialBackoff, MaxBackoff,
    StaleAfter          \* stale_threshold; ages stop growing there

ASSUME PoolAssumption ==
    /\ {MaxPeers, EvictionThreshold, MinActive, InitialBackoff, MaxBackoff, StaleAfter}
          \subseteq Nat
    /\ Scores \subseteq Nat /\ 0 \in Scores
    /\ InitialBackoff <= MaxBackoff /\ MinActive <= StaleAfter

VARIABLES
    pool,       \* entries, by peer
    gone        \* history: time since a peer's last disconnect

poolVars == <<pool, gone>>

Absent == [state |-> "Absent", score |-> 0, backoff |-> 0, age |-> 0, wait |-> 0]

(* PeerEntry::new_active. *)
NewActive == [Absent EXCEPT !.state = "Active"]

PoolInit ==
    /\ pool = [p \in PoolPeers |-> Absent]
    /\ gone = [p \in PoolPeers |-> StaleAfter + MaxBackoff]

ActivePeers == {p \in PoolPeers : pool[p].state = "Active"}

CanReconnect(p) == pool[p].state = "Disconnected" /\ pool[p].wait = 0

(* try_add of a peer that is new, within the capacity.                      *)
TryAddNew(p) ==
    /\ pool[p].state = "Absent" /\ Cardinality(ActivePeers) < MaxPeers
    /\ pool' = [pool EXCEPT ![p] = NewActive]
    /\ UNCHANGED gone

(* A slip: a banned peer that asks again is let in. *)
TryAddAnyKnown(p) ==
    /\ CanReconnect(p) \/ pool[p].state = "Banned"
    /\ pool' = [pool EXCEPT ![p].state = "Active", ![p].age = 0]
    /\ UNCHANGED gone

(* try_add of a peer that has an entry: no look at the capacity.            *)
TryAddKnown(p) ==
    /\ CanReconnect(p)
    /\ pool' = [pool EXCEPT ![p].state = "Active", ![p].age = 0]
    /\ UNCHANGED gone

(* record_disconnect: the backoff doubles with every disconnect.            *)
Backoff(e) ==
    IF e.backoff = 0 THEN InitialBackoff
    ELSE IF 2 * e.backoff > MaxBackoff THEN MaxBackoff ELSE 2 * e.backoff

RecordDisconnect(p) ==
    /\ pool[p].state \in {"Active", "Disconnected"}
    /\ pool' = [pool EXCEPT ![p].state = "Disconnected", ![p].age = 0,
                            ![p].backoff = Backoff(pool[p]), ![p].wait = Backoff(pool[p])]
    /\ gone' = [gone EXCEPT ![p] = 0]

(* ban; a peer without an entry is not remembered.                          *)
Ban(p) ==
    /\ pool[p].state # "Absent"
    /\ pool' = [pool EXCEPT ![p].state = "Banned", ![p].age = 0, ![p].wait = 0]
    /\ UNCHANGED gone

UpdateScore(p, score) ==
    /\ pool[p].state # "Absent"
    /\ pool' = [pool EXCEPT ![p].score = score]
    /\ UNCHANGED gone

(* evict_worst: the lowest score below the threshold that was active long   *)
(* enough; the entry goes, and its history with it.                         *)
EvictWorst ==
    LET candidates == {p \in ActivePeers :
                          pool[p].age >= MinActive /\ pool[p].score < EvictionThreshold}
    IN  \E p \in candidates :
            /\ \A q \in candidates : pool[p].score <= pool[q].score
            /\ pool' = [pool EXCEPT ![p] = Absent]
            /\ gone' = [gone EXCEPT ![p] = StaleAfter + MaxBackoff]

(* prune_stale.                                                             *)
PruneStale ==
    LET stale == {p \in PoolPeers :
                     pool[p].state = "Disconnected" /\ pool[p].age >= StaleAfter}
    IN  /\ pool' = [p \in PoolPeers |-> IF p \in stale THEN Absent ELSE pool[p]]
        /\ gone' = [p \in PoolPeers |-> IF p \in stale THEN StaleAfter + MaxBackoff ELSE gone[p]]

PoolTick ==
    /\ pool' = [p \in PoolPeers |->
                   [pool[p] EXCEPT !.age = IF @ < StaleAfter THEN @ + 1 ELSE @,
                                   !.wait = IF @ > 0 THEN @ - 1 ELSE 0]]
    /\ gone' = [p \in PoolPeers |->
                   IF gone[p] < StaleAfter + MaxBackoff THEN gone[p] + 1 ELSE gone[p]]

PoolNext ==
    \/ \E p \in PoolPeers :
          \/ TryAddNew(p) \/ TryAddKnown(p) \/ RecordDisconnect(p) \/ Ban(p)
          \/ \E s \in Scores : UpdateScore(p, s)
    \/ EvictWorst \/ PruneStale \/ PoolTick

PoolSpec == PoolInit /\ [][PoolNext]_poolVars
-----------------------------------------------------------------------------
(* A peer that is known comes back only after its backoff, twice as long    *)
(* every time until MAX_BACKOFF, and a ban is for good (try_add,            *)
(* record_disconnect, can_reconnect).                                       *)
ReturnsAreEarned ==
    [][\A p \in PoolPeers :
          /\ pool[p].state = "Banned" => pool'[p].state = "Banned"
          /\ (pool[p].state = "Disconnected" /\ pool'[p].state = "Active")
                => gone[p] >= pool[p].backoff]_poolVars
=============================================================================
