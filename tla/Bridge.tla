------------------------------- MODULE Bridge -------------------------------
(***************************************************************************)
(* BridgeNode and BridgePeer (p2p-distribute: bridge.rs, bridge_peer.rs,   *)
(* demand.rs, phi_detector.rs): a peer that answers from HTTP mirrors,     *)
(* suspects those that fall silent, and remembers which pieces are wanted. *)
(* Its PieceCache knows which pieces there are, it holds no data.  Ages    *)
(* and intervals stop growing at MaxAge.                                   *)
(***************************************************************************)
EXTENDS PieceCaches, FiniteSetsExt

CONSTANTS
    BridgePieces,
    Mirrors,
    Callers,        \* threads inside fetch_piece
    PrefetchCount,  \* prefetch_count
    Hottest,        \* bound: the largest heat of a piece
    MaxWindow,      \* max_window of a PhiDetector
    MinStdDev,      \* MIN_STD_DEV_MS
    DeadY2,         \* the y * y at which phi reaches dead_phi
    MaxAge          \* bound: ages and intervals

VARIABLES
    heat,       \* demand of every piece, in halves that decay
    mirrors,    \* detector of every mirror
    calls       \* what every caller does

bridgeVars == <<lru, cached, heat, mirrors, calls>>

NoCall == [step |-> "none", piece |-> 0, mirror |-> "none"]
NewDetector == [intervals |-> <<>>, age |-> 0, has_baseline |-> FALSE]

(* PhiDetector::new, MirrorPool::add_mirror, BridgeNode::with_config.       *)
BridgeInit ==
    /\ lru = <<>> /\ cached = {}
    /\ heat = [p \in BridgePieces |-> 0]
    /\ mirrors = [m \in Mirrors |-> NewDetector]
    /\ calls = [c \in Callers |-> NoCall]

-----------------------------------------------------------------------------
(* mean_and_std_dev and phi: y is (elapsed - mean) / std_dev; times the     *)
(* number of samples both are integers.  Fewer than two samples: phi is 0.  *)
SumOver(s) == FoldLeft(LAMBDA a, x : a + x, 0, s)

Suspicion(d) ==
    LET n == Len(d.intervals)
        sum == SumOver(d.intervals)
        squares == SumOver([i \in 1 .. n |-> d.intervals[i] * d.intervals[i]])
        variance == n * squares - sum * sum
        least == n * n * MinStdDev * MinStdDev
        above == n * d.age - sum
    IN  IF n < 2 \/ above <= 0 THEN [num |-> 0, den |-> 1]
        ELSE [num |-> above * above, den |-> IF variance > least THEN variance ELSE least]

IsAvailable(m) == LET s == Suspicion(mirrors[m]) IN s.num < DeadY2 * s.den

(* available_mirrors and best_mirror: the least suspected.                  *)
BestMirrors ==
    LET less(a, b) == a.num * b.den < b.num * a.den
        open == {m \in Mirrors : IsAvailable(m)}
    IN  {m \in open : \A o \in open : ~less(Suspicion(mirrors[o]), Suspicion(mirrors[m]))}

(* PhiDetector::record_heartbeat.                                           *)
RecordHeartbeat(d) ==
    [intervals |->
        IF ~d.has_baseline THEN d.intervals
        ELSE Append(IF Len(d.intervals) >= MaxWindow THEN Tail(d.intervals) ELSE d.intervals,
                    d.age),
     age |-> 0, has_baseline |-> TRUE]

-----------------------------------------------------------------------------
(* DemandTracker::record_request.                                           *)
Wanted(p) == [heat EXCEPT ![p] = IF @ < Hottest THEN @ + 1 ELSE @]

(* hottest_pieces: twice as many as are asked for, hot ones only, in order; *)
(* plan_prefetch takes those that are not cached.                           *)
HottestPieces ==
    LET hot == {p \in BridgePieces : heat[p] > 0}
        hotter(p) == {q \in hot : heat[q] > heat[p] \/ (heat[q] = heat[p] /\ q < p)}
    IN  {p \in hot : Cardinality(hotter(p)) < 2 * PrefetchCount}

PlanPrefetch ==
    LET wanted == HottestPieces \ cached
        hotter(p) == {q \in wanted : heat[q] > heat[p] \/ (heat[q] = heat[p] /\ q < p)}
    IN  {p \in wanted : Cardinality(hotter(p)) < PrefetchCount}

-----------------------------------------------------------------------------
(* fetch_piece, first lock: the request is recorded; a piece in the cache   *)
(* is fetched all the same.                                                 *)
RecordRequest(c, p) ==
    /\ calls[c].step = "none"
    /\ heat' = Wanted(p)
    /\ Touch(p)
    /\ calls' = [calls EXCEPT ![c] = [step |-> "asked", piece |-> p, mirror |-> "none"]]
    /\ UNCHANGED mirrors

(* Second lock: the best mirror, or an error when there is none.            *)
ChooseMirror(c) ==
    /\ calls[c].step = "asked"
    /\ IF BestMirrors = {} THEN calls' = [calls EXCEPT ![c] = NoCall]
       ELSE \E m \in BestMirrors :
                calls' = [calls EXCEPT ![c].step = "fetching", ![c].mirror = m]
    /\ UNCHANGED <<lru, cached, heat, mirrors>>

(* The callback returns, without the lock; record_success and cache_piece.  *)
MirrorAnswers(c) ==
    /\ calls[c].step = "fetching"
    /\ mirrors' = [mirrors EXCEPT ![calls[c].mirror] = RecordHeartbeat(@)]
    /\ CacheInsert(calls[c].piece)
    /\ calls' = [calls EXCEPT ![c] = NoCall]
    /\ UNCHANGED heat

(* record_failure counts and does not touch the detector.                   *)
MirrorFails(c) ==
    /\ calls[c].step = "fetching"
    /\ calls' = [calls EXCEPT ![c] = NoCall]
    /\ UNCHANGED <<lru, cached, heat, mirrors>>

(* Time passes: silence grows, demand decays (heat, evict_cold).            *)
BridgeTick ==
    /\ mirrors' = [m \in Mirrors |->
                      [mirrors[m] EXCEPT !.age = IF @ < MaxAge THEN @ + 1 ELSE @]]
    /\ heat' = [p \in BridgePieces |-> heat[p] \div 2]
    /\ UNCHANGED <<lru, cached, calls>>

FetchPiece(c) == \E p \in BridgePieces : RecordRequest(c, p)
Prefetch(c) == \E p \in PlanPrefetch : RecordRequest(c, p)

BridgeNext ==
    \/ \E c \in Callers : FetchPiece(c) \/ Prefetch(c) \/ ChooseMirror(c) \/ MirrorAnswers(c) \/ MirrorFails(c)
    \/ BridgeTick

(* The two caches of an engine, which share nothing.                        *)
CachesSpec ==
    /\ CacheInit /\ [][CacheNext]_cache
    /\ BridgeInit /\ [][BridgeNext]_bridgeVars
=============================================================================
