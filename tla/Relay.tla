-------------------------------- MODULE Relay -------------------------------
(***************************************************************************)
(* RelayRegistry (p2p-distribute, relay.rs): the relays a peer knows, the  *)
(* circuits it has through them and the hole punches it tries instead.     *)
(* Times are ages that stop growing at the age that decides.               *)
(***************************************************************************)
EXTENDS Naturals, Sequences, FiniteSets

CONSTANTS
    RelayIds,       \* ids of relay nodes
    Remotes,        \* remote peers
    Capacity,       \* [RelayIds -> max_circuits], divisors of 40
    Region,         \* [RelayIds -> region, or "none"]
    MaxRelays,      \* MAX_RELAY_NODES
    IdleAge,        \* CIRCUIT_IDLE_TIMEOUT
    PunchAge,       \* HOLE_PUNCH_TIMEOUT
    MaxCircuitIds   \* bound: circuits ever created

ASSUME RelayAssumption == Capacity \in [RelayIds -> Nat]

VARIABLES
    relays,         \* Vec<RelayNode>
    circuits,       \* Vec<RelayCircuit>
    punches,        \* Vec<HolePunchAttempt>, a set: one per remote peer
    nextCircuit,    \* next_circuit_id
    reported        \* history: relays whose count a status report has set

relayVars == <<relays, circuits, punches, nextCircuit, reported>>

(* RelayNode::new, with_max_circuits, with_region; latency in hundreds of   *)
(* milliseconds, "none" before the first heartbeat.                         *)
RelayNode(id) ==
    [id |-> id, active |-> 0, measured |-> FALSE, latency |-> 0, verified |-> FALSE]

HasCapacity(r) == r.active < Capacity[r.id]

(* load_factor and selection_score, in hundredths. *)
Score(r) ==
    LET load == IF Capacity[r.id] = 0 THEN 40 ELSE (40 * r.active) \div Capacity[r.id]
        latency == IF ~r.measured THEN 25
                   ELSE IF r.latency >= 5 THEN 0 ELSE 50 - 10 * r.latency
    IN  (IF load > 40 THEN 0 ELSE 40 - load) + latency + (IF r.verified THEN 10 ELSE 0)

(* select_relay: verified relays with room, else any with room; the region  *)
(* first, then the score, then (the sort is stable) the order of arrival.   *)
Candidates ==
    LET open == {i \in DOMAIN relays : HasCapacity(relays[i])}
        good == {i \in open : relays[i].verified}
    IN  IF good # {} THEN good ELSE open

Preferred(i, j, region) ==
    LET near(k) == Region[relays[k].id] = region
    IN  IF near(i) # near(j) THEN near(i)
        ELSE IF Score(relays[i]) # Score(relays[j]) THEN Score(relays[i]) > Score(relays[j])
        ELSE i < j

SelectRelay(i, region) == \A j \in Candidates \ {i} : Preferred(i, j, region)

-----------------------------------------------------------------------------
RelayInit ==
    /\ relays = <<>> /\ circuits = {} /\ punches = {}
    /\ nextCircuit = 1 /\ reported = {}

(* add_relay; a full or duplicate registry refuses.                         *)
AddRelay(id) ==
    /\ Len(relays) < MaxRelays
    /\ \A i \in DOMAIN relays : relays[i].id # id
    /\ relays' = Append(relays, RelayNode(id))
    /\ UNCHANGED <<circuits, punches, nextCircuit, reported>>

(* record_heartbeat.                                                        *)
Heartbeat(i, latency) ==
    /\ relays' = [relays EXCEPT ![i].measured = TRUE, ![i].latency = latency,
                                ![i].verified = TRUE]
    /\ UNCHANGED <<circuits, punches, nextCircuit, reported>>

(* set_active_circuits: the relay's own count takes the place of ours.      *)
StatusReport(i, count) ==
    /\ relays' = [relays EXCEPT ![i].active = count]
    /\ reported' = reported \cup {relays[i].id}
    /\ UNCHANGED <<circuits, punches, nextCircuit>>

(* create_circuit.                                                          *)
CreateCircuit(remote, region) ==
    /\ nextCircuit <= MaxCircuitIds
    /\ \E i \in Candidates :
          /\ SelectRelay(i, region)
          /\ circuits' = circuits \cup {[id |-> nextCircuit, relay |-> relays[i].id,
                                         remote |-> remote, idle |-> 0]}
          /\ relays' = [relays EXCEPT ![i].active = @ + 1]
    /\ nextCircuit' = nextCircuit + 1
    /\ UNCHANGED <<punches, reported>>

(* RelayCircuit::record_activity.                                           *)
Activity(c) ==
    /\ circuits' = (circuits \ {c}) \cup {[c EXCEPT !.idle = 0]}
    /\ UNCHANGED <<relays, punches, nextCircuit, reported>>

(* close_circuit of all of cs, one after the other.                         *)
Closing(rs, cs) ==
    [i \in DOMAIN rs |->
        LET n == Cardinality({c \in cs : c.relay = rs[i].id})
        IN  [rs[i] EXCEPT !.active = IF @ > n THEN @ - n ELSE 0]]

CloseCircuit(c) ==
    /\ circuits' = circuits \ {c}
    /\ relays' = Closing(relays, {c})
    /\ UNCHANGED <<punches, nextCircuit, reported>>

(* start_hole_punch: an earlier attempt at this peer is forgotten.          *)
StartHolePunch(remote) ==
    /\ punches' = {a \in punches : a.remote # remote}
                  \cup {[remote |-> remote, state |-> "WaitingForAddress", age |-> 0]}
    /\ UNCHANGED <<relays, circuits, nextCircuit, reported>>

(* set_remote_address, mark_succeeded, mark_failed.                         *)
PunchMoves(a, state) ==
    /\ punches' = (punches \ {a}) \cup {[a EXCEPT !.state = state]}
    /\ UNCHANGED <<relays, circuits, nextCircuit, reported>>

IsTimedOut(a) == a.age >= PunchAge /\ a.state # "Succeeded"

(* A slip: the circuits go, their relays are not told. *)
CleanupLeaks ==
    /\ punches' = {a \in punches : ~IsTimedOut(a) /\ a.state \notin {"Succeeded", "Failed"}}
    /\ circuits' = {c \in circuits : c.idle < IdleAge}
    /\ UNCHANGED <<relays, nextCircuit, reported>>

(* cleanup.                                                                 *)
Cleanup ==
    LET idle == {c \in circuits : c.idle >= IdleAge}
    IN  /\ punches' = {a \in punches :
                          ~IsTimedOut(a) /\ a.state \notin {"Succeeded", "Failed"}}
        /\ circuits' = circuits \ idle
        /\ relays' = Closing(relays, idle)
        /\ UNCHANGED <<nextCircuit, reported>>

RelayTick ==
    LET older(age, last) == IF age < last THEN age + 1 ELSE age
    IN  /\ circuits' = {[c EXCEPT !.idle = older(@, IdleAge)] : c \in circuits}
        /\ punches' = {[a EXCEPT !.age = older(@, PunchAge)] : a \in punches}
        /\ UNCHANGED <<relays, nextCircuit, reported>>

RelayNext ==
    \/ \E id \in RelayIds : AddRelay(id)
    \/ \E i \in DOMAIN relays : \E latency \in {1, 6} : Heartbeat(i, latency)
    \/ \E i \in DOMAIN relays : \E n \in 0 .. Capacity[relays[i].id] : StatusReport(i, n)
    \/ \E p \in Remotes : \E r \in {Region[id] : id \in RelayIds} : CreateCircuit(p, r)
    \/ \E c \in circuits : Activity(c) \/ CloseCircuit(c)
    \/ \E p \in Remotes : StartHolePunch(p)
    \/ \E a \in punches, s \in {"Punching", "Succeeded", "Failed"} : PunchMoves(a, s)
    \/ Cleanup \/ RelayTick

RelaySpec == RelayInit /\ [][RelayNext]_relayVars
-----------------------------------------------------------------------------
(* While no status report interferes, a relay counts exactly the circuits  *)
(* that go through it and none has more than it takes (create_circuit,     *)
(* close_circuit and cleanup keep active_circuits in step).                *)
RelaysCountCircuits ==
    \A i \in DOMAIN relays : relays[i].id \notin reported =>
        LET n == Cardinality({c \in circuits : c.relay = relays[i].id})
        IN  relays[i].active = n /\ n <= Capacity[relays[i].id]
=============================================================================
