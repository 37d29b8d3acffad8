---------------------------- MODULE MirrorHealth ----------------------------
(***************************************************************************)
(* MirrorRegistry (p2p-distribute, mirror_health.rs): mirrors that answer  *)
(* too rarely are declared dead, left out of the selection until they are  *)
(* due for a probe, and pruned when they stay dead.  Several requests are  *)
(* under way at a time, so that results arrive for mirrors that are dead   *)
(* or gone.  Healthy, suspect and degraded mirrors differ in their rank    *)
(* only and are one tier here.  Ages stop growing at MaxMirrorAge.         *)
(***************************************************************************)
EXTENDS Integers, FiniteSets

CONSTANTS
    Addresses,          \* URLs
    MaxMirrors,         \* max_mirrors
    MaxFailures,        \* CONSECUTIVE_FAILURE_THRESHOLD
    ProbeInterval,      \* DEAD_PROBE_INTERVAL
    PruneAge,           \* older_than
    MaxUnderWay,        \* requests to one mirror at a time
    MaxMirrorAge        \* above ProbeInterval and PruneAge

ASSUME HealthAssumption ==
    /\ {ProbeInterval, PruneAge, MaxMirrorAge} \subseteq Nat
    /\ ProbeInterval < MaxMirrorAge /\ PruneAge < MaxMirrorAge
    /\ MaxFailures \in Nat \ {0}

VARIABLES
    entries,    \* MirrorRegistry.mirrors: of every URL, its entry or NoEntry
    underWay,   \* requests that were sent and have no result
    unheard,    \* history: the time without a success since it was added
    leftOut     \* history: how long it has not been offered

healthVars == <<entries, underWay, unheard, leftOut>>

Older(age) == IF age < MaxMirrorAge THEN age + 1 ELSE age

(* dead_at counts from last_dead_at, which is None before the first death.  *)
NoEntry == [there |-> FALSE, failures |-> 0, heartbeats |-> 0, dead |-> FALSE, dead_at |-> -1]
NewEntry == [NoEntry EXCEPT !.there = TRUE]

Listed == {u \in Addresses : entries[u].there}

HealthInit ==
    /\ entries = [u \in Addresses |-> NoEntry]
    /\ underWay = [u \in Addresses |-> 0]
    /\ unheard = [u \in Addresses |-> 0]
    /\ leftOut = [u \in Addresses |-> 0]
-----------------------------------------------------------------------------
ShouldProbe(e) == e.dead /\ e.dead_at >= ProbeInterval

(* select_best: the dead are left out unless they are due.                  *)
SelectBest == {u \in Listed : ~entries[u].dead \/ ShouldProbe(entries[u])}

(* A slip: every failure of a dead mirror dates its death.                  *)
EveryFailureDated(e, suspected) ==
    LET dead == e.failures >= MaxFailures \/ suspected
    IN  [e EXCEPT !.dead = dead, !.dead_at = IF dead THEN 0 ELSE @]

(* update_tier; a silence may make phi reach DEAD_PHI.                      *)
UpdateTier(e, suspected) ==
    LET dead == e.failures >= MaxFailures \/ suspected
    IN  [e EXCEPT !.dead = dead, !.dead_at = IF dead /\ ~e.dead THEN 0 ELSE @]

(* PhiDetector::phi is 0 before the third heartbeat and only grows while    *)
(* nothing is heard.                                                        *)
Suspicions(e) ==
    IF e.heartbeats < 3 THEN {FALSE} ELSE IF e.dead THEN {TRUE} ELSE BOOLEAN

Saturated(n, most) == IF n < most THEN n + 1 ELSE n

Heard(e) == [e EXCEPT !.failures = 0, !.heartbeats = Saturated(@, 3)]
Failed(e) == [e EXCEPT !.failures = Saturated(@, MaxFailures)]
-----------------------------------------------------------------------------
Add(u) ==
    /\ u \notin Listed /\ Cardinality(Listed) < MaxMirrors
    /\ entries' = [entries EXCEPT ![u] = NewEntry]
    /\ unheard' = [unheard EXCEPT ![u] = 0]
    /\ leftOut' = [leftOut EXCEPT ![u] = 0]
    /\ UNCHANGED underWay

(* A caller asks one that select_best offers.                               *)
Ask(u) ==
    /\ u \in SelectBest /\ underWay[u] < MaxUnderWay
    /\ underWay' = [underWay EXCEPT ![u] = @ + 1]
    /\ UNCHANGED <<entries, unheard, leftOut>>

HasResult(u) ==
    /\ underWay[u] > 0
    /\ underWay' = [underWay EXCEPT ![u] = @ - 1]

(* record_success: it has just been heard, phi is low.                      *)
RecordMirrorSuccess(u) ==
    /\ HasResult(u)
    /\ IF u \in Listed
       THEN /\ entries' = [entries EXCEPT ![u] = UpdateTier(Heard(@), FALSE)]
            /\ unheard' = [unheard EXCEPT ![u] = 0]
            /\ leftOut' = [leftOut EXCEPT ![u] = 0]
       ELSE UNCHANGED <<entries, unheard, leftOut>>

(* record_failure.                                                          *)
RecordMirrorFailure(u) ==
    /\ HasResult(u)
    /\ IF u \in Listed
       THEN \E suspected \in Suspicions(entries[u]) :
                entries' = [entries EXCEPT ![u] = UpdateTier(Failed(@), suspected)]
       ELSE UNCHANGED entries
    /\ UNCHANGED <<unheard, leftOut>>

IsPruned(e) == e.dead /\ e.dead_at >= PruneAge

(* prune_dead.                                                              *)
PruneDead ==
    /\ \E u \in Listed : IsPruned(entries[u])
    /\ entries' = [u \in Addresses |-> IF IsPruned(entries[u]) THEN NoEntry ELSE entries[u]]
    /\ UNCHANGED <<underWay, unheard, leftOut>>

HealthTick ==
    /\ entries' = [u \in Addresses |->
           [entries[u] EXCEPT !.dead_at = IF @ = -1 THEN -1 ELSE Older(@)]]
    /\ unheard' = [u \in Addresses |-> Older(unheard[u])]
    /\ leftOut' = [u \in Addresses |->
           IF u \in Listed \ SelectBest THEN Older(leftOut[u]) ELSE 0]
    /\ UNCHANGED underWay

HealthNext ==
    \/ \E u \in Addresses : Add(u) \/ Ask(u) \/ RecordMirrorSuccess(u) \/ RecordMirrorFailure(u)
    \/ PruneDead
    \/ HealthTick

HealthSpec == HealthInit /\ [][HealthNext]_healthVars
-----------------------------------------------------------------------------
(* A mirror gets another chance: it is never left out for longer than the   *)
(* probe interval, though failures of requests that were under way go on    *)
(* arriving, and pruned only after all of older_than without a success,     *)
(* however often it died and came back before.                              *)
AnotherChance ==
    /\ [][\A u \in Addresses : leftOut'[u] <= ProbeInterval]_healthVars
    /\ [][\A u \in Listed : entries'[u] = NoEntry => unheard[u] >= PruneAge]_healthVars
=============================================================================
