----------------------------- MODULE RateLimits -----------------------------
(***************************************************************************)
(* Rate limits (p2p-distribute): RateLimiterMap, a token bucket of         *)
(* requests for every peer (rate_limiter.rs), and BandwidthThrottle, one   *)
(* bucket of bytes that several transfers share (throttle.rs).  Buckets    *)
(* are refilled when they are looked at; `age` is the time since then, and *)
(* stops growing when it no longer matters.  One tick is the time in which *)
(* one token comes back, or Rate bytes.                                    *)
(***************************************************************************)
EXTENDS Integers, FiniteSets

CONSTANTS
    Clients,        \* peers that ask
    Burst,          \* tokens a new bucket holds
    Transfers,      \* transfers under one throttle
    Chunk,          \* bytes a transfer asks for and moves at a time, at most MinBurst
    Rates,          \* the rates the user may set; 0 is no limit
    MinBurst,       \* MIN_BURST_BYTES
    BurstFactor     \* DEFAULT_BURST_FACTOR

ASSUME LimitsAssumption ==
    /\ IsFiniteSet(Transfers) /\ Transfers # {}
    /\ {Burst, MinBurst, BurstFactor} \subseteq Nat /\ Rates \subseteq Nat
    /\ Chunk \in 1 .. MinBurst

VARIABLES
    buckets,        \* RateLimiterMap: of every key, its bucket or NoBucket
    spent,          \* of every key, what it was granted and has neither come
                    \* back nor been forgiven
    throttle,       \* BandwidthThrottle
    pc,             \* a transfer: "idle", or "granted" between request and consume
    owed            \* bytes moved under the present rate that it has not paid for

limitVars == <<buckets, spent, throttle, pc, owed>>

Least(a, b) == IF a < b THEN a ELSE b
Most(a, b) == IF a > b THEN a ELSE b

(* What is left of a debt when n has come back.                             *)
Repaid(debt, n) == Most(debt - n, 0)

NoBucket == [tokens |-> -1, age |-> 0]
NewBucket == [tokens |-> Burst, age |-> 0]

BurstOf(rate) == IF rate = 0 THEN 0 ELSE Most(rate * BurstFactor, MinBurst)

(* The most that transfers can owe; a chunk later a refill is complete.      *)
Overdraft == throttle.burst + Chunk * (Cardinality(Transfers) - 1)

LimitsInit ==
    /\ buckets = [k \in Clients |-> NoBucket]
    /\ spent = [k \in Clients |-> 0]
    /\ \E rate \in Rates :
           throttle = [rate |-> rate, burst |-> BurstOf(rate), available |-> BurstOf(rate), age |-> 0]
    /\ pc = [t \in Transfers |-> "idle"]
    /\ owed = 0
-----------------------------------------------------------------------------
(* A slip: the time of the last refill is not moved on.                     *)
RefilledAgain(b) == [tokens |-> Least(b.tokens + b.age, Burst), age |-> b.age]

(* TokenBucket::refill.                                                     *)
Refilled(b) == [tokens |-> Least(b.tokens + b.age, Burst), age |-> 0]

(* RateLimiterMap::try_consume. *)
TryConsume(k) ==
    LET b == Refilled(IF buckets[k] = NoBucket THEN NewBucket ELSE buckets[k]) IN
    /\ IF b.tokens >= 1
       THEN /\ buckets' = [buckets EXCEPT ![k] = [b EXCEPT !.tokens = @ - 1]]
            /\ spent' = [spent EXCEPT ![k] = @ + 1]
       ELSE /\ buckets' = [buckets EXCEPT ![k] = b]
            /\ UNCHANGED spent
    /\ UNCHANGED <<throttle, pc, owed>>

(* What a bucket lacks of a burst by now.                                   *)
Lacks(b) == Burst - Refilled(b).tokens

(* The map drops buckets; the next request makes a full one, so that what   *)
(* the dropped one lacked is forgiven.                                      *)
Dropped(lost) ==
    /\ buckets' = [k \in Clients |-> IF k \in lost THEN NoBucket ELSE buckets[k]]
    /\ spent' = [k \in Clients |-> IF k \in lost THEN Repaid(spent[k], Lacks(buckets[k]))
                                   ELSE spent[k]]
    /\ UNCHANGED <<throttle, pc, owed>>

(* RateLimiterMap::remove, for a peer that disconnects.                     *)
RemoveBucket(k) == buckets[k] # NoBucket /\ Dropped({k})

(* evict_stale, for any Instant of the caller's: `before` ticks ago, or one *)
(* that is still to come.                                                   *)
EvictStale ==
    \E before \in -1 .. Burst :
        Dropped({k \in Clients : buckets[k] # NoBucket /\ buckets[k].age > before})
-----------------------------------------------------------------------------
(* BandwidthThrottle::refill.                                               *)
Topped(t) == [t EXCEPT !.available = Least(@ + t.age * t.rate, t.burst), !.age = 0]

(* request; without a limit nothing is refilled.                            *)
Request(t) ==
    /\ pc[t] = "idle"
    /\ IF throttle.rate = 0
       THEN pc' = [pc EXCEPT ![t] = "granted"] /\ UNCHANGED throttle
       ELSE /\ throttle' = Topped(throttle)
            /\ pc' = [pc EXCEPT ![t] = IF throttle'.available >= Chunk THEN "granted" ELSE "idle"]
    /\ UNCHANGED <<buckets, spent, owed>>

(* The transfer is over: consume.                                           *)
Consume(t) ==
    /\ pc[t] = "granted"
    /\ pc' = [pc EXCEPT ![t] = "idle"]
    /\ IF throttle.rate = 0 THEN UNCHANGED <<throttle, owed>>
       ELSE /\ throttle' = [Topped(throttle) EXCEPT !.available = @ - Chunk]
            /\ owed' = owed + Chunk
    /\ UNCHANGED <<buckets, spent>>

(* set_rate. *)
SetRate(rate) ==
    /\ rate # throttle.rate
    /\ throttle' = [rate |-> rate, burst |-> BurstOf(rate), age |-> 0,
                    available |-> IF rate = 0 THEN 0
                                  ELSE Least(Topped(throttle).available, BurstOf(rate))]
    /\ owed' = IF rate = 0 THEN 0
               ELSE Repaid(owed, Most(throttle.burst - BurstOf(rate), 0))
    /\ UNCHANGED <<buckets, spent, pc>>
-----------------------------------------------------------------------------
Tick ==
    /\ buckets' = [k \in Clients |->
           IF buckets[k] = NoBucket THEN NoBucket ELSE [buckets[k] EXCEPT !.age = Least(@ + 1, Burst + 1)]]
    /\ spent' = [k \in Clients |-> Repaid(spent[k], 1)]
    /\ throttle' = [throttle EXCEPT !.age = Least(@ + 1, Overdraft + Chunk)]
    /\ owed' = Repaid(owed, throttle.rate)
    /\ UNCHANGED pc

LimitsNext ==
    \/ \E k \in Clients : TryConsume(k) \/ RemoveBucket(k)
    \/ EvictStale
    \/ \E t \in Transfers : Request(t) \/ Consume(t)
    \/ \E rate \in Rates : SetRate(rate)
    \/ Tick

LimitsSpec == LimitsInit /\ [][LimitsNext]_limitVars
-----------------------------------------------------------------------------
(* No peer gets more in any period than one burst, what comes back in the  *)
(* period, and what its buckets lacked at the moments the map dropped them: *)
(* forgetting a bucket whose refill is complete gives nothing away, and one *)
(* that is empty a second burst.  The transfers under a throttle overdraw   *)
(* it by one chunk each but the first, though all may ask before one pays.  *)
RatesAreKept ==
    /\ \A k \in Clients : spent[k] <= Burst
    /\ owed <= Overdraft
=============================================================================
