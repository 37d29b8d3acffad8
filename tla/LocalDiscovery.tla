--------------------------- MODULE LocalDiscovery ---------------------------
(***************************************************************************)
(* LpdService (p2p-distribute, local_discovery.rs) on the hosts of a LAN:  *)
(* each announces by multicast what it shares, and remembers from whom it  *)
(* heard.  An announcement is handled, as it is sent, by any set of hosts, *)
(* its sender included; when a due one is sent is up to the caller, who    *)
(* polls.  Times are ages; they stop growing when all is stale.            *)
(***************************************************************************)
EXTENDS Naturals, FiniteSets

CONSTANTS
    Hosts,
    InfoHashes,
    AnnounceInterval,   \* ANNOUNCE_INTERVAL
    StaleTimeout,       \* PEER_STALE_TIMEOUT
    MaxLpdPeers         \* MAX_LPD_PEERS

ASSUME LanAssumption ==
    /\ IsFiniteSet(Hosts)
    /\ {AnnounceInterval, StaleTimeout, MaxLpdPeers} \subseteq Nat
    /\ AnnounceInterval <= StaleTimeout

VARIABLES
    lpd,        \* subscriptions of every host: [Hosts -> [InfoHashes -> ...]]
    missed,     \* history: announcements of h for x that g missed in a row
                \* while subscribed; beyond two they are not told apart
    late        \* history: the longest that a due announcement of h for x
                \* was left pending since h subscribed

lanVars == <<lpd, missed, late>>

Unknown == StaleTimeout + 2     \* the "age" of a host that is not in peers
Never == StaleTimeout + 1       \* last_announce is None: due at once

NotSubscribed == [on |-> FALSE, since |-> Never, peers |-> [g \in Hosts |-> Unknown]]

LanInit ==
    /\ lpd = [h \in Hosts |-> [x \in InfoHashes |-> NotSubscribed]]
    /\ missed = [h \in Hosts |-> [x \in InfoHashes |-> [g \in Hosts |-> 2]]]
    /\ late = [h \in Hosts |-> [x \in InfoHashes |-> 0]]

(* subscribe; a second time it does nothing.                                *)
Subscribe(h, x) ==
    /\ ~lpd[h][x].on
    /\ lpd' = [lpd EXCEPT ![h][x].on = TRUE]
    /\ UNCHANGED <<missed, late>>

(* unsubscribe forgets the peers and the time of the last announcement.     *)
Unsubscribe(h, x) ==
    /\ lpd[h][x].on
    /\ lpd' = [lpd EXCEPT ![h][x] = NotSubscribed]
    /\ missed' = [i \in Hosts |-> [missed[i] EXCEPT ![x] =
                     [g \in Hosts |-> IF h \in {i, g} THEN 2 ELSE @[g]]]]
    /\ late' = [late EXCEPT ![h][x] = 0]

(* pending_announces.                                                       *)
IsPending(h, x) == lpd[h][x].on /\ lpd[h][x].since >= AnnounceInterval

(* handle_announce of h's announcement, at g: refreshed, added while there  *)
(* is room, or ignored.                                                     *)
Known(g, x) == {i \in Hosts : lpd[g][x].peers[i] # Unknown}

Handles(g, x, h) ==
    IF lpd[g][x].on /\ (h \in Known(g, x) \/ Cardinality(Known(g, x)) < MaxLpdPeers)
    THEN [lpd[g][x] EXCEPT !.peers[h] = 0]
    ELSE lpd[g][x]

(* One announcement: to_bytes, multicast, from_bytes, mark_announced.       *)
Announce(h, x, hearers) ==
    /\ IsPending(h, x)
    /\ lpd' = [g \in Hosts |->
                  LET heard == IF g \in hearers THEN [lpd[g] EXCEPT ![x] = Handles(g, x, h)]
                               ELSE lpd[g]
                  IN  IF g = h THEN [heard EXCEPT ![x].since = 0] ELSE heard]
    /\ missed' = [missed EXCEPT ![h][x] =
                     [g \in Hosts |-> IF g \in hearers /\ lpd[g][x].on THEN 0
                                      ELSE IF @[g] < 2 THEN @[g] + 1 ELSE 2]]
    /\ UNCHANGED late

(* A slip: stale one step early. *)
IsStaleEarly(age) == age >= StaleTimeout

(* is_stale and prune_stale.                                                *)
IsStale(age) == age > StaleTimeout

Pruned(s) ==
    [s EXCEPT !.peers = [g \in Hosts |-> IF IsStale(@[g]) THEN Unknown ELSE @[g]]]

PruneStalePeers(h) ==
    /\ lpd' = [lpd EXCEPT ![h] = [x \in InfoHashes |-> Pruned(lpd[h][x])]]
    /\ UNCHANGED <<missed, late>>

(* What `late` becomes when an announcement that is pending stays so.       *)
LateByNow(h, x) ==
    LET overdue == lpd[h][x].since + 1 - AnnounceInterval IN
    IF IsPending(h, x) /\ lpd[h][x].since # Never /\ overdue > late[h][x]
    THEN overdue ELSE late[h][x]

(* A subscription a tick later.                                             *)
Aged(s) ==
    [s EXCEPT !.since = IF @ < Never THEN @ + 1 ELSE @,
              !.peers = [g \in Hosts |-> IF @[g] <= StaleTimeout THEN @[g] + 1 ELSE @[g]]]

LanTick ==
    /\ lpd' = [h \in Hosts |-> [x \in InfoHashes |-> Aged(lpd[h][x])]]
    /\ late' = [h \in Hosts |-> [x \in InfoHashes |-> LateByNow(h, x)]]
    /\ UNCHANGED missed

LanNext ==
    \/ \E h \in Hosts, x \in InfoHashes :
          \/ Subscribe(h, x) \/ Unsubscribe(h, x)
          \/ \E hearers \in SUBSET Hosts : Announce(h, x, hearers)
    \/ \E h \in Hosts : PruneStalePeers(h)
    \/ LanTick

LanSpec == LanInit /\ [][LanNext]_lanVars
-----------------------------------------------------------------------------
(* While both stay subscribed and the list has room, a host that has heard *)
(* another is not made to forget it by missing one announcement, as long as *)
(* two intervals, each with the longest delay of an announcement by its    *)
(* caller, fit into PEER_STALE_TIMEOUT; nor, missing none, as long as one  *)
(* fits (pending_announces, mark_announced, is_stale).                     *)
LongestInterval(h, x) == AnnounceInterval + late[h][x]

LossesAreForgiven ==
    MaxLpdPeers >= Cardinality(Hosts) =>
        \A g, h \in Hosts, x \in InfoHashes :
            (/\ lpd[g][x].on /\ lpd[h][x].on
             /\ \/ missed[h][x][g] = 0 /\ LongestInterval(h, x) <= StaleTimeout
                \/ missed[h][x][g] = 1 /\ 2 * LongestInterval(h, x) <= StaleTimeout)
            => h \in Known(g, x)
=============================================================================
