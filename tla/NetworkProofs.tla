---------------------------- MODULE NetworkProofs ----------------------------
(***************************************************************************)
(* Theorems about the peer side of p2p-distribute, for any number of       *)
(* peers, connections, transfers and hosts and any limits: Connections     *)
(* (budget.rs, connection.rs), PeerPool (peer_pool.rs), RateLimits         *)
(* (rate_limiter.rs, throttle.rs), Relay (relay.rs), LocalDiscovery        *)
(* (local_discovery.rs), Choking (choking.rs, credit.rs), Dht (dht.rs) and *)
(* SuperSeed (superseeding.rs).                                            *)
(***************************************************************************)
EXTENDS Connections, PeerPool, RateLimits, Relay, LocalDiscovery, Choking, Dht,
        SuperSeed, FiniteSetTheorems, SequenceTheorems, WellFoundedInduction, TLAPS

(* The budget counts the connections there are, whatever their number and   *)
(* the limits, 0 included: the counts are exact because a slot follows from *)
(* the phase (the handshake has a pending one, what comes after it an       *)
(* established one).                                                        *)
Phases == {"Connecting", "Handshaking", "BitfieldExchange", "Ready", "Closing", "Closed"}
Kinds == {"none", "pending", "established"}

ConnectionsTyped ==
    /\ phase \in [Conns -> Phases]
    /\ slot \in [Conns -> Kinds]
    /\ budget \in [pending : Nat, established : Nat, per_peer : [Peers -> Nat]]

(* The slot of a connection in a phase.                                     *)
SlotOf(f) ==
    IF f \in {"Connecting", "Handshaking"} THEN "pending"
    ELSE IF f \in {"BitfieldExchange", "Ready"} THEN "established" ELSE "none"

SlotFitsPhase == \A c \in Conns : slot[c] = SlotOf(phase[c])

EstablishedTo(p) == {c \in With("established") : PeerOf[c] = p}

CountsAreExact ==
    /\ budget.pending = Cardinality(With("pending"))
    /\ budget.established = Cardinality(With("established"))
    /\ \A p \in Peers : budget.per_peer[p] = Cardinality(EstablishedTo(p))

LimitsHold ==
    /\ budget.pending <= MaxPending
    /\ budget.established <= MaxEstablished
    /\ \A p \in Peers : budget.per_peer[p] <= MaxPerPeer

ConnectionsInv == ConnectionsTyped /\ SlotFitsPhase /\ CountsAreExact /\ LimitsHold
-----------------------------------------------------------------------------
(* One connection more in a set of connections, or one less.                *)
LEMMA OneMore ==
    ASSUME NEW S \in SUBSET Conns, NEW c \in Conns \ S
    PROVE  Cardinality(S \cup {c}) = Cardinality(S) + 1
BY ConnectionsAssumption, FS_Subset, FS_AddElement

LEMMA OneLess ==
    ASSUME NEW S \in SUBSET Conns, NEW c \in S
    PROVE  /\ Cardinality(S) \in Nat /\ Cardinality(S) > 0
           /\ Cardinality(S \ {c}) = Cardinality(S) - 1
<1>1. IsFiniteSet(S)
    BY ConnectionsAssumption, FS_Subset
<1>2. Cardinality(S \ {c}) = Cardinality(S) - 1
    BY <1>1, FS_RemoveElement
<1>3. Cardinality(S) \in Nat /\ Cardinality(S) # 0
    BY <1>1, FS_CardinalityType, FS_EmptySet
<1> QED
    BY <1>2, <1>3

(* The caller of the budget records a slot with the connection: who has     *)
(* which afterwards.                                                        *)
LEMMA SlotMoves ==
    ASSUME slot \in [Conns -> Kinds], NEW c \in Conns, NEW to \in Kinds,
           slot' = [slot EXCEPT ![c] = to], to # slot[c]
    PROVE  \A k \in Kinds :
               With(k)' = IF k = to THEN With(k) \cup {c}
                          ELSE IF k = slot[c] THEN With(k) \ {c} ELSE With(k)
BY DEF With

(* What that does to the counts of connections.                             *)
LEMMA CountsMove ==
    ASSUME slot \in [Conns -> Kinds], NEW c \in Conns, NEW to \in Kinds,
           slot' = [slot EXCEPT ![c] = to], to # slot[c]
    PROVE  /\ \A k \in Kinds :
                  Cardinality(With(k)') =
                      IF k = to THEN Cardinality(With(k)) + 1
                      ELSE IF k = slot[c] THEN Cardinality(With(k)) - 1
                      ELSE Cardinality(With(k))
           /\ \A p \in Peers :
                  Cardinality(EstablishedTo(p)') =
                      IF p # PeerOf[c] THEN Cardinality(EstablishedTo(p))
                      ELSE IF to = "established" THEN Cardinality(EstablishedTo(p)) + 1
                      ELSE IF slot[c] = "established" THEN Cardinality(EstablishedTo(p)) - 1
                      ELSE Cardinality(EstablishedTo(p))
<1>1. ASSUME NEW k \in Kinds
      PROVE  Cardinality(With(k)') = IF k = to THEN Cardinality(With(k)) + 1
                                     ELSE IF k = slot[c] THEN Cardinality(With(k)) - 1
                                     ELSE Cardinality(With(k))
    <2>1. /\ With(k) \in SUBSET Conns
          /\ c \in With(k) <=> slot[c] = k
        BY DEF With
    <2>2. With(k)' = IF k = to THEN With(k) \cup {c}
                     ELSE IF k = slot[c] THEN With(k) \ {c} ELSE With(k)
        BY SlotMoves
    <2>3. CASE k = to
        BY <2>1, <2>2, <2>3, OneMore
    <2>4. CASE k # to /\ k = slot[c]
        BY <2>1, <2>2, <2>4, OneLess
    <2> QED
        BY <2>2, <2>3, <2>4
<1>2. ASSUME NEW p \in Peers
      PROVE  Cardinality(EstablishedTo(p)') =
                 IF p # PeerOf[c] THEN Cardinality(EstablishedTo(p))
                 ELSE IF to = "established" THEN Cardinality(EstablishedTo(p)) + 1
                 ELSE IF slot[c] = "established" THEN Cardinality(EstablishedTo(p)) - 1
                 ELSE Cardinality(EstablishedTo(p))
    <2>1. /\ EstablishedTo(p) \in SUBSET Conns
          /\ c \in EstablishedTo(p) <=> slot[c] = "established" /\ p = PeerOf[c]
        BY DEF EstablishedTo, With
    <2>2. CASE p # PeerOf[c]
        BY <2>2 DEF EstablishedTo, With
    <2>3. CASE p = PeerOf[c] /\ to = "established"
        <3>1. EstablishedTo(p)' = EstablishedTo(p) \cup {c}
            BY <2>3 DEF EstablishedTo, With
        <3> QED
            BY <2>1, <2>3, <3>1, OneMore
    <2>4. CASE p = PeerOf[c] /\ slot[c] = "established"
        <3>1. EstablishedTo(p)' = EstablishedTo(p) \ {c}
            BY <2>4 DEF EstablishedTo, With
        <3> QED
            BY <2>1, <2>4, <3>1, OneLess
    <2>5. CASE to # "established" /\ slot[c] # "established"
        BY <2>5 DEF EstablishedTo, With
    <2> QED
        BY <2>2, <2>3, <2>4, <2>5
<1> QED
    BY <1>1, <1>2

(* A slot that a connection has was counted, so a release finds a count     *)
(* above 0: the guard of the code against an underflow never acts.          *)
LEMMA HeldIsCounted ==
    ASSUME ConnectionsInv, NEW c \in Conns
    PROVE  /\ slot[c] = "pending" => budget.pending > 0
           /\ slot[c] = "established" =>
                 budget.established > 0 /\ budget.per_peer[PeerOf[c]] > 0
<1>1. ASSUME slot[c] = "pending" PROVE budget.pending > 0
    BY <1>1, OneLess DEF ConnectionsInv, CountsAreExact, With
<1>2. ASSUME slot[c] = "established"
      PROVE  budget.established > 0 /\ budget.per_peer[PeerOf[c]] > 0
    <2>1. PeerOf[c] \in Peers
        BY DEF Peers
    <2>2. c \in With("established") /\ With("established") \in SUBSET Conns
        BY <1>2 DEF With
    <2>3. c \in EstablishedTo(PeerOf[c]) /\ EstablishedTo(PeerOf[c]) \in SUBSET Conns
        BY <2>2 DEF EstablishedTo
    <2> QED
        BY <2>1, <2>2, <2>3, OneLess DEF ConnectionsInv, CountsAreExact
<1> QED
    BY <1>1, <1>2
-----------------------------------------------------------------------------
LEMMA InitCounts == ConnectionsInit => ConnectionsInv
<1> SUFFICES ASSUME ConnectionsInit PROVE ConnectionsInv
    OBVIOUS
<1>1. ConnectionsTyped
    BY DEF ConnectionsInit, ConnectionsTyped, Phases, Kinds
<1>2. SlotFitsPhase
    BY DEF ConnectionsInit, SlotFitsPhase, SlotOf
<1>3. /\ With("pending") = {} /\ With("established") = {}
      /\ \A p \in Peers : EstablishedTo(p) = {}
    BY DEF ConnectionsInit, With, EstablishedTo
<1>4. CountsAreExact
    BY <1>3, FS_EmptySet DEF ConnectionsInit, CountsAreExact
<1>5. LimitsHold
    BY ConnectionsAssumption DEF ConnectionsInit, LimitsHold
<1> QED
    BY <1>1, <1>2, <1>4, <1>5 DEF ConnectionsInv

(* A change of phase that keeps the slot.                                   *)
LEMMA PhaseMoves ==
    ASSUME ConnectionsInv, NEW c \in Conns, NEW f \in Phases, SlotOf(f) = SlotOf(phase[c]),
           phase' = [phase EXCEPT ![c] = f], UNCHANGED <<slot, budget>>
    PROVE  ConnectionsInv'
<1> USE DEF ConnectionsInv
<1>1. ConnectionsTyped' /\ SlotFitsPhase'
    BY DEF ConnectionsTyped, SlotFitsPhase
<1>2. CountsAreExact' /\ LimitsHold'
    BY DEF CountsAreExact, LimitsHold, EstablishedTo, With
<1> QED
    BY <1>1, <1>2

(* Dial takes a pending slot, which there was room for.                     *)
LEMMA DialCounts ==
    ASSUME ConnectionsInv, NEW c \in Conns, Dial(c)
    PROVE  ConnectionsInv'
<1> USE DEF ConnectionsInv
<1>1. slot[c] = "none"
    BY DEF Dial, SlotFitsPhase, SlotOf
<1>2. /\ budget'.pending = budget.pending + 1 /\ budget'.established = budget.established
      /\ budget'.per_peer = budget.per_peer
    BY DEF Dial, ConnectionsTyped
<1>3. ConnectionsTyped' /\ SlotFitsPhase'
    BY DEF Dial, ConnectionsTyped, SlotFitsPhase, SlotOf, Phases, Kinds
<1>4. CountsAreExact'
    BY <1>1, <1>2, CountsMove, ZenonT(60) DEF Dial, ConnectionsTyped, CountsAreExact, Kinds
<1>5. LimitsHold'
    BY <1>2, ConnectionsAssumption DEF Dial, ConnectionsTyped, LimitsHold
<1> QED
    BY <1>3, <1>4, <1>5

(* HandshakeDone gives the pending slot back in either case, and takes an   *)
(* established one only where both limits leave room.                       *)
LEMMA HandshakeCounts ==
    ASSUME ConnectionsInv, NEW c \in Conns, HandshakeDone(c)
    PROVE  ConnectionsInv'
<1> USE DEF ConnectionsInv
<1>1. slot[c] = "pending" /\ budget.pending > 0
    BY HeldIsCounted DEF HandshakeDone, Transition, SlotFitsPhase, SlotOf
<1>2. PeerOf[c] \in Peers
    BY DEF Peers
<1>3. CASE CanEstablish(ReleasePending(budget), PeerOf[c])
    <2>1. /\ slot' = [slot EXCEPT ![c] = "established"]
          /\ phase' = [phase EXCEPT ![c] = "BitfieldExchange"]
        BY <1>3 DEF HandshakeDone, Transition
    <2>2. CanEstablish(budget, PeerOf[c])
        BY <1>3 DEF CanEstablish, ReleasePending, ConnectionsTyped
    <2>3. /\ budget' \in [pending : Nat, established : Nat, per_peer : [Peers -> Nat]]
          /\ budget'.pending = budget.pending - 1
          /\ budget'.established = budget.established + 1
          /\ budget'.per_peer = [budget.per_peer EXCEPT ![PeerOf[c]] = @ + 1]
        <3>1. ReleasePending(budget) = [budget EXCEPT !.pending = budget.pending - 1]
            BY <1>1 DEF ReleasePending, Less, ConnectionsTyped
        <3>2. budget' = [budget EXCEPT
                            !.pending = budget.pending - 1,
                            !.established = budget.established + 1,
                            !.per_peer = [budget.per_peer EXCEPT ![PeerOf[c]] = @ + 1]]
            BY <2>2, <3>1 DEF HandshakeDone, Promoted, AcquireEstablished, ConnectionsTyped
        <3>3. [budget.per_peer EXCEPT ![PeerOf[c]] = @ + 1] \in [Peers -> Nat]
            <4>1. PICK n \in Nat : n = budget.per_peer[PeerOf[c]]
                BY <1>2 DEF ConnectionsTyped
            <4>2. n + 1 \in Nat /\ budget.per_peer \in [Peers -> Nat]
                BY DEF ConnectionsTyped
            <4> QED
                BY <4>1, <4>2
        <3>4. budget.pending - 1 \in Nat /\ budget.established + 1 \in Nat
            BY <1>1 DEF ConnectionsTyped
        <3> QED
            BY <3>2, <3>3, <3>4 DEF ConnectionsTyped
    <2>4. ConnectionsTyped' /\ SlotFitsPhase'
        BY <2>1, <2>3 DEF ConnectionsTyped, SlotFitsPhase, SlotOf, Phases, Kinds
    <2>5. CountsAreExact'
        <3>1. /\ Cardinality(With("pending")') = Cardinality(With("pending")) - 1
              /\ Cardinality(With("established")') = Cardinality(With("established")) + 1
            BY <1>1, <2>1, CountsMove DEF ConnectionsTyped, Kinds
        <3>2. \A p \in Peers : Cardinality(EstablishedTo(p)') =
                  IF p = PeerOf[c] THEN Cardinality(EstablishedTo(p)) + 1
                  ELSE Cardinality(EstablishedTo(p))
            BY <1>1, <2>1, CountsMove DEF ConnectionsTyped, Kinds
        <3>3. \A p \in Peers : budget'.per_peer[p] =
                  IF p = PeerOf[c] THEN budget.per_peer[p] + 1 ELSE budget.per_peer[p]
            BY <2>3 DEF ConnectionsTyped
        <3> QED
            BY <2>3, <3>1, <3>2, <3>3 DEF CountsAreExact
    <2>6. LimitsHold'
        BY <1>2, <2>2, <2>3, ConnectionsAssumption DEF CanEstablish, ConnectionsTyped, LimitsHold
    <2> QED
        BY <2>4, <2>5, <2>6
<1>4. CASE ~CanEstablish(ReleasePending(budget), PeerOf[c])
    <2>1. /\ slot' = [slot EXCEPT ![c] = "none"]
          /\ phase' = [phase EXCEPT ![c] = "Closing"]
        BY <1>4 DEF HandshakeDone, Transition
    <2>2. ~CanEstablish(budget, PeerOf[c])
        BY <1>4 DEF CanEstablish, ReleasePending, ConnectionsTyped
    <2>3. /\ budget' \in [pending : Nat, established : Nat, per_peer : [Peers -> Nat]]
          /\ budget'.pending = budget.pending - 1
          /\ budget'.established = budget.established /\ budget'.per_peer = budget.per_peer
        BY <1>1, <2>2 DEF HandshakeDone, Promoted, ReleasePending, Less, ConnectionsTyped
    <2>4. ConnectionsTyped' /\ SlotFitsPhase'
        BY <2>1, <2>3 DEF ConnectionsTyped, SlotFitsPhase, SlotOf, Phases, Kinds
    <2>5. CountsAreExact'
        BY <1>1, <2>1, <2>3, CountsMove DEF ConnectionsTyped, CountsAreExact, Kinds
    <2>6. LimitsHold'
        BY <2>3, ConnectionsAssumption DEF ConnectionsTyped, LimitsHold
    <2> QED
        BY <2>4, <2>5, <2>6
<1> QED
    BY <1>3, <1>4

(* Close gives back the slot that the phase says the connection has.        *)
LEMMA CloseCounts ==
    ASSUME ConnectionsInv, NEW c \in Conns, Close(c)
    PROVE  ConnectionsInv'
<1> USE DEF ConnectionsInv
<1>1. slot[c] \in {"pending", "established"}
    BY DEF Close, IsTerminal, SlotFitsPhase, SlotOf, ConnectionsTyped, Phases
<1>2. PeerOf[c] \in Peers
    BY DEF Peers
<1>3. SlotFitsPhase'
    BY DEF Close, ConnectionsTyped, SlotFitsPhase, SlotOf
<1>4. CASE slot[c] = "pending"
    <2>1. /\ budget' \in [pending : Nat, established : Nat, per_peer : [Peers -> Nat]]
          /\ budget'.pending = budget.pending - 1
          /\ budget'.established = budget.established /\ budget'.per_peer = budget.per_peer
        BY <1>4, HeldIsCounted DEF Close, Released, ReleasePending, Less, ConnectionsTyped
    <2>2. ConnectionsTyped'
        BY <2>1 DEF Close, ConnectionsTyped, Phases, Kinds
    <2>3. CountsAreExact'
        BY <1>4, <2>1, CountsMove, ZenonT(60) DEF Close, ConnectionsTyped, CountsAreExact, Kinds
    <2>4. LimitsHold'
        BY <2>1, ConnectionsAssumption DEF ConnectionsTyped, LimitsHold
    <2> QED
        BY <1>3, <2>2, <2>3, <2>4
<1>5. CASE slot[c] = "established"
    <2>1. /\ budget' \in [pending : Nat, established : Nat, per_peer : [Peers -> Nat]]
          /\ budget'.pending = budget.pending /\ budget'.established = budget.established - 1
          /\ budget'.per_peer = [budget.per_peer EXCEPT ![PeerOf[c]] = @ - 1]
        <3>1. budget' = [budget EXCEPT
                            !.established = budget.established - 1,
                            !.per_peer = [budget.per_peer EXCEPT ![PeerOf[c]] = @ - 1]]
            <4>1. Less(budget.established) = budget.established - 1
                BY <1>5, HeldIsCounted DEF Less, ConnectionsTyped
            <4>2. Less(budget.per_peer[PeerOf[c]]) = budget.per_peer[PeerOf[c]] - 1
                BY <1>2, <1>5, HeldIsCounted DEF Less, ConnectionsTyped
            <4>3. budget' = [budget EXCEPT !.established = Less(@), !.per_peer[PeerOf[c]] = Less(@)]
                BY <1>5 DEF Close, Released, ReleaseEstablished
            <4> QED
                BY <4>1, <4>2, <4>3 DEF ConnectionsTyped
        <3>2. [budget.per_peer EXCEPT ![PeerOf[c]] = @ - 1] \in [Peers -> Nat]
            BY <1>2, <1>5, HeldIsCounted DEF ConnectionsTyped
        <3>3. budget.established - 1 \in Nat
            BY <1>5, HeldIsCounted DEF ConnectionsTyped
        <3> QED
            BY <3>1, <3>2, <3>3 DEF ConnectionsTyped
    <2>2. ConnectionsTyped'
        BY <2>1 DEF Close, ConnectionsTyped, Phases, Kinds
    <2>3. CountsAreExact'
        <3>1. slot' = [slot EXCEPT ![c] = "none"]
            BY DEF Close
        <3>2. /\ Cardinality(With("pending")') = Cardinality(With("pending"))
              /\ Cardinality(With("established")') = Cardinality(With("established")) - 1
            BY <1>5, <3>1, CountsMove DEF ConnectionsTyped, Kinds
        <3>3. \A p \in Peers : Cardinality(EstablishedTo(p)') =
                  IF p = PeerOf[c] THEN Cardinality(EstablishedTo(p)) - 1
                  ELSE Cardinality(EstablishedTo(p))
            BY <1>5, <3>1, CountsMove DEF ConnectionsTyped, Kinds
        <3>4. \A p \in Peers : budget'.per_peer[p] =
                  IF p = PeerOf[c] THEN budget.per_peer[p] - 1 ELSE budget.per_peer[p]
            BY <2>1 DEF ConnectionsTyped
        <3> QED
            BY <2>1, <3>2, <3>3, <3>4 DEF CountsAreExact
    <2>4. LimitsHold'
        BY <1>2, <2>1, ConnectionsAssumption DEF ConnectionsTyped, LimitsHold
    <2> QED
        BY <1>3, <2>2, <2>3, <2>4
<1> QED
    BY <1>1, <1>4, <1>5

(* Every step keeps the counts.                                             *)
LEMMA StepCounts == ConnectionsInv /\ [ConnectionsNext]_connectionVars => ConnectionsInv'
<1> SUFFICES ASSUME ConnectionsInv, [ConnectionsNext]_connectionVars PROVE ConnectionsInv'
    OBVIOUS
<1>1. ASSUME NEW c \in Conns, Dial(c) PROVE ConnectionsInv'
    BY <1>1, DialCounts
<1>2. ASSUME NEW c \in Conns, HandshakeDone(c) PROVE ConnectionsInv'
    BY <1>2, HandshakeCounts
<1>3. ASSUME NEW c \in Conns, Close(c) PROVE ConnectionsInv'
    BY <1>3, CloseCounts
<1>4. ASSUME NEW c \in Conns, Connected(c) \/ BitfieldDone(c) \/ SocketClosed(c)
      PROVE  ConnectionsInv'
    <2>1. PICK f \in Phases : /\ phase' = [phase EXCEPT ![c] = f]
                              /\ SlotOf(f) = SlotOf(phase[c])
        BY <1>4 DEF Connected, BitfieldDone, SocketClosed, Transition, SlotOf, Phases
    <2> QED
        BY <1>4, <2>1, PhaseMoves DEF Connected, BitfieldDone, SocketClosed
<1>5. CASE UNCHANGED connectionVars
    BY <1>5 DEF connectionVars, ConnectionsInv, ConnectionsTyped, SlotFitsPhase, CountsAreExact,
       LimitsHold, EstablishedTo, With
<1> QED
    BY <1>1, <1>2, <1>3, <1>4, <1>5 DEF ConnectionsNext

(* BudgetIsExact for any connections, peers and limits: no order of         *)
(* handshakes, refusals, timeouts and closings makes the counts drift.      *)
THEOREM BudgetHolds == ConnectionsSpec => []BudgetIsExact
<1>1. ConnectionsInv => BudgetIsExact
    BY DEF ConnectionsInv, CountsAreExact, LimitsHold, SlotFitsPhase, SlotOf, BudgetIsExact,
       EstablishedTo, IsTerminal
<1> QED
    BY InitCounts, StepCounts, <1>1, PTL DEF ConnectionsSpec
-----------------------------------------------------------------------------
(* A peer that is known waits for its backoff: what it still has to wait    *)
(* and the time since it left make the backoff at least.                    *)
PeerStates == {"Absent", "Active", "Disconnected", "Banned"}

Entries == [state : PeerStates, score : Nat, backoff : 0 .. MaxBackoff, age : Nat, wait : Nat]

WaitsOut(e, since) == e.state = "Disconnected" => since + e.wait >= e.backoff

PoolInv ==
    /\ pool \in [PoolPeers -> Entries] /\ gone \in [PoolPeers -> Nat]
    /\ \A p \in PoolPeers : WaitsOut(pool[p], gone[p])

LEMMA PoolNumbers ==
    /\ StaleAfter \in Nat /\ MaxBackoff \in Nat /\ InitialBackoff \in Nat
    /\ InitialBackoff <= MaxBackoff /\ Scores \subseteq Nat
BY PoolAssumption

LEMMA AbsentIsEntry == Absent \in Entries /\ Absent.state = "Absent"
BY PoolNumbers DEF Absent, Entries, PeerStates

LEMMA BackoffIsBounded == \A e \in Entries : Backoff(e) \in 0 .. MaxBackoff
BY PoolNumbers DEF Backoff, Entries

(* A step that gives one peer a new entry, and no time but none.            *)
LEMMA EntryStep ==
    ASSUME PoolInv, NEW p \in PoolPeers, NEW e \in Entries, NEW since \in Nat,
           WaitsOut(e, since),
           pool' = [pool EXCEPT ![p] = e], gone' = [gone EXCEPT ![p] = since]
    PROVE  PoolInv'
BY DEF PoolInv

(* What a step may not do to a peer.                                        *)
Earns(p) ==
    /\ pool[p].state = "Banned" => pool'[p].state = "Banned"
    /\ (pool[p].state = "Disconnected" /\ pool'[p].state = "Active")
           => gone[p] >= pool[p].backoff

LEMMA EntryEarns ==
    ASSUME PoolInv, NEW p \in PoolPeers, NEW e \in Entries,
           pool' = [pool EXCEPT ![p] = e],
           pool[p].state = "Banned" => e.state = "Banned",
           pool[p].state = "Disconnected" /\ e.state = "Active" => pool[p].wait = 0
    PROVE  \A q \in PoolPeers : Earns(q)
<1> SUFFICES ASSUME NEW q \in PoolPeers PROVE Earns(q)
  OBVIOUS
<1>1. CASE q # p
  BY <1>1 DEF Earns, PoolInv
<1>2. CASE q = p
  <2>1. pool'[p] = e
    BY DEF PoolInv
  <2>2. pool[p] \in Entries /\ gone[p] \in Nat /\ WaitsOut(pool[p], gone[p])
    BY DEF PoolInv
  <2> QED BY <1>2, <2>1, <2>2 DEF Earns, WaitsOut, Entries
<1> QED BY <1>1, <1>2

LEMMA PoolPeerSteps ==
    ASSUME PoolInv, NEW p \in PoolPeers,
           \/ TryAddNew(p) \/ TryAddKnown(p) \/ RecordDisconnect(p) \/ Ban(p)
           \/ \E s \in Scores : UpdateScore(p, s)
    PROVE  PoolInv' /\ \A q \in PoolPeers : Earns(q)
<1>1. pool[p] \in Entries /\ gone[p] \in Nat /\ WaitsOut(pool[p], gone[p])
  BY DEF PoolInv
<1>2. gone = [gone EXCEPT ![p] = gone[p]]
  BY DEF PoolInv
<1>3. CASE TryAddNew(p)
  <2>1. NewActive \in Entries /\ NewActive.state = "Active"
    BY PoolNumbers DEF NewActive, Absent, Entries, PeerStates
  <2>2. /\ pool' = [pool EXCEPT ![p] = NewActive] /\ gone' = [gone EXCEPT ![p] = gone[p]]
        /\ pool[p].state = "Absent"
    BY <1>2, <1>3 DEF TryAddNew
  <2>3. WaitsOut(NewActive, gone[p])
    BY <2>1 DEF WaitsOut
  <2> QED BY <1>1, <2>1, <2>2, <2>3, EntryStep, EntryEarns
<1>4. CASE TryAddKnown(p)
  <2>1. PICK e \in Entries : e = [pool[p] EXCEPT !.state = "Active", !.age = 0]
    BY <1>1 DEF Entries, PeerStates
  <2>2. pool' = [pool EXCEPT ![p] = e] /\ gone' = [gone EXCEPT ![p] = gone[p]]
    BY <1>2, <1>4, <2>1 DEF TryAddKnown
  <2>3. e.state = "Active"
    BY <1>1, <2>1 DEF Entries
  <2>4. pool[p].state = "Disconnected" /\ pool[p].wait = 0
    BY <1>4 DEF TryAddKnown, CanReconnect
  <2>5. WaitsOut(e, gone[p])
    BY <2>3 DEF WaitsOut
  <2> QED BY <1>1, <2>2, <2>3, <2>4, <2>5, EntryStep, EntryEarns
<1>5. CASE RecordDisconnect(p)
  <2>1. PICK b \in 0 .. MaxBackoff : b = Backoff(pool[p])
    BY <1>1, BackoffIsBounded
  <2>2. PICK e \in Entries : e = [pool[p] EXCEPT !.state = "Disconnected", !.age = 0,
                                                 !.backoff = b, !.wait = b]
    <3>1. b \in Nat
      BY PoolNumbers
    <3> QED BY <1>1, <3>1 DEF Entries, PeerStates
  <2>3. pool' = [pool EXCEPT ![p] = e] /\ gone' = [gone EXCEPT ![p] = 0]
    BY <1>5, <2>1, <2>2 DEF RecordDisconnect
  <2>4. e.state = "Disconnected" /\ e.backoff = b /\ e.wait = b
    BY <1>1, <2>2 DEF Entries
  <2>5. WaitsOut(e, 0)
    BY <2>4 DEF WaitsOut
  <2>6. pool[p].state # "Banned"
    BY <1>5 DEF RecordDisconnect
  <2> QED BY <1>1, <2>3, <2>4, <2>5, <2>6, EntryStep, EntryEarns
<1>6. CASE Ban(p)
  <2>1. PICK e \in Entries : e = [pool[p] EXCEPT !.state = "Banned", !.age = 0, !.wait = 0]
    BY <1>1 DEF Entries, PeerStates
  <2>2. pool' = [pool EXCEPT ![p] = e] /\ gone' = [gone EXCEPT ![p] = gone[p]]
    BY <1>2, <1>6, <2>1 DEF Ban
  <2>3. e.state = "Banned"
    BY <1>1, <2>1 DEF Entries
  <2>4. WaitsOut(e, gone[p])
    BY <2>3 DEF WaitsOut
  <2> QED BY <1>1, <2>2, <2>3, <2>4, EntryStep, EntryEarns
<1>7. ASSUME NEW s \in Scores, UpdateScore(p, s)
      PROVE  PoolInv' /\ \A q \in PoolPeers : Earns(q)
  <2>1. PICK e \in Entries : e = [pool[p] EXCEPT !.score = s]
    BY <1>1, PoolNumbers DEF Entries
  <2>2. pool' = [pool EXCEPT ![p] = e] /\ gone' = [gone EXCEPT ![p] = gone[p]]
    BY <1>2, <1>7, <2>1 DEF UpdateScore
  <2>3. e.state = pool[p].state /\ e.backoff = pool[p].backoff /\ e.wait = pool[p].wait
    BY <1>1, <2>1 DEF Entries
  <2>4. WaitsOut(e, gone[p])
    BY <1>1, <2>3 DEF WaitsOut
  <2> QED BY <1>1, <2>2, <2>3, <2>4, EntryStep, EntryEarns
<1> QED BY <1>3, <1>4, <1>5, <1>6, <1>7

LEMMA PoolSteps ==
    PoolInv /\ [PoolNext]_poolVars
        => PoolInv' /\ [\A p \in PoolPeers : Earns(p)]_poolVars
<1> SUFFICES ASSUME PoolInv, [PoolNext]_poolVars
             PROVE  PoolInv' /\ [\A p \in PoolPeers : Earns(p)]_poolVars
  OBVIOUS
<1>1. CASE EvictWorst
  <2>1. PICK p \in PoolPeers : /\ pool[p].state = "Active"
                               /\ pool' = [pool EXCEPT ![p] = Absent]
                               /\ gone' = [gone EXCEPT ![p] = StaleAfter + MaxBackoff]
    BY <1>1 DEF EvictWorst, ActivePeers
  <2>2. StaleAfter + MaxBackoff \in Nat /\ WaitsOut(Absent, StaleAfter + MaxBackoff)
    BY PoolNumbers, AbsentIsEntry DEF WaitsOut
  <2> QED BY <2>1, <2>2, AbsentIsEntry, EntryStep, EntryEarns
<1>2. CASE PruneStale
  <2>1. \A p \in PoolPeers :
           \/ pool'[p] = Absent /\ gone'[p] \in Nat /\ pool[p].state = "Disconnected"
           \/ pool'[p] = pool[p] /\ gone'[p] = gone[p]
    BY <1>2, PoolNumbers DEF PruneStale
  <2>2. pool' \in [PoolPeers -> Entries] /\ gone' \in [PoolPeers -> Nat]
    BY <1>2, AbsentIsEntry, PoolNumbers DEF PruneStale, PoolInv
  <2>3. \A p \in PoolPeers : WaitsOut(pool'[p], gone'[p]) /\ Earns(p)
    BY <2>1, AbsentIsEntry DEF PoolInv, WaitsOut, Earns
  <2> QED BY <2>2, <2>3 DEF PoolInv
<1>3. CASE PoolTick
  <2>1. ASSUME NEW p \in PoolPeers
        PROVE  /\ pool'[p] \in Entries /\ gone'[p] \in Nat
               /\ WaitsOut(pool'[p], gone'[p]) /\ Earns(p)
    <3>1. pool[p] \in Entries /\ gone[p] \in Nat /\ WaitsOut(pool[p], gone[p])
      BY DEF PoolInv
    <3>2. PICK a \in Nat, n \in Nat : /\ a = (IF pool[p].age < StaleAfter THEN pool[p].age + 1
                                                                          ELSE pool[p].age)
                                      /\ n = (IF pool[p].wait > 0 THEN pool[p].wait - 1 ELSE 0)
      BY <3>1 DEF Entries
    <3>3. pool'[p] = [pool[p] EXCEPT !.age = a, !.wait = n]
      BY <1>3, <3>2 DEF PoolTick
    <3>4. /\ pool'[p] \in Entries
          /\ pool'[p].state = pool[p].state /\ pool'[p].backoff = pool[p].backoff
          /\ pool'[p].wait = n
      BY <3>1, <3>3 DEF Entries
    <3>5. gone'[p] = IF gone[p] < StaleAfter + MaxBackoff THEN gone[p] + 1 ELSE gone[p]
      BY <1>3 DEF PoolTick
    <3>6. WaitsOut(pool'[p], gone'[p])
      BY <3>1, <3>2, <3>4, <3>5, PoolNumbers DEF WaitsOut, Entries
    <3> QED BY <3>1, <3>4, <3>5, <3>6 DEF Earns
  <2>2. pool' \in [PoolPeers -> Entries] /\ gone' \in [PoolPeers -> Nat]
    BY <1>3, <2>1 DEF PoolTick
  <2> QED BY <2>1, <2>2 DEF PoolInv
<1>4. CASE UNCHANGED poolVars
  BY <1>4 DEF poolVars, PoolInv, WaitsOut
<1> QED BY <1>1, <1>2, <1>3, <1>4, PoolPeerSteps DEF PoolNext

(* A peer comes back only after its backoff, and a banned one never: no     *)
(* eviction, pruning or update of its entry lets it in before (try_add,     *)
(* record_disconnect, can_reconnect).                                       *)
THEOREM ReturnsHold == PoolSpec => ReturnsAreEarned
<1>1. PoolInit => PoolInv
  BY AbsentIsEntry, PoolNumbers DEF PoolInit, PoolInv, WaitsOut
<1>2. PoolInv /\ [PoolNext]_poolVars
         => PoolInv' /\ [\A p \in PoolPeers : Earns(p)]_poolVars
  BY PoolSteps
<1> QED BY <1>1, <1>2, PTL DEF PoolSpec, ReturnsAreEarned, Earns
-----------------------------------------------------------------------------
(* Requests.  What a peer was granted and has not come back is at most what *)
(* its bucket lacks, whenever it is dropped; a key without a bucket owes    *)
(* nothing.                                                                 *)
Bucket == [tokens : 0 .. Burst, age : Nat]

BucketsCover ==
    /\ buckets \in [Clients -> Bucket \cup {NoBucket}] /\ spent \in [Clients -> Nat]
    /\ \A k \in Clients : IF buckets[k] = NoBucket THEN spent[k] = 0
                                              ELSE spent[k] <= Lacks(buckets[k])

LEMMA LimitsNumbers ==
    /\ Burst \in Nat /\ MinBurst \in Nat /\ BurstFactor \in Nat /\ Rates \subseteq Nat
    /\ Chunk \in Nat \ {0} /\ Chunk <= MinBurst
    /\ Cardinality(Transfers) \in Nat \ {0}
BY LimitsAssumption, FS_CardinalityType, FS_EmptySet

LEMMA BucketFacts ==
    ASSUME NEW b \in Bucket
    PROVE  /\ b # NoBucket
           /\ Refilled(b) \in Bucket /\ Refilled(b).tokens = Least(b.tokens + b.age, Burst)
           /\ Refilled(b).age = 0
           /\ Lacks(b) \in Nat /\ Lacks(b) = Burst - Refilled(b).tokens
BY LimitsNumbers DEF Bucket, NoBucket, Refilled, Lacks, Least

LEMMA ConsumeCovers ==
    ASSUME BucketsCover, NEW k \in Clients, TryConsume(k)
    PROVE  BucketsCover'
<1>1. NewBucket \in Bucket /\ Refilled(NewBucket).tokens = Burst
  BY LimitsNumbers DEF NewBucket, Bucket, Refilled, Least
<1>2. PICK b \in Bucket : /\ b = Refilled(IF buckets[k] = NoBucket THEN NewBucket ELSE buckets[k])
                          /\ b.age = 0 /\ spent[k] <= Burst - b.tokens
  <2>1. CASE buckets[k] = NoBucket
    BY <1>1, <2>1, BucketFacts, LimitsNumbers DEF BucketsCover
  <2>2. CASE buckets[k] # NoBucket
    BY <2>2, BucketFacts DEF BucketsCover
  <2> QED BY <2>1, <2>2
<1>3. spent[k] \in Nat /\ b.tokens \in 0 .. Burst
  BY <1>2 DEF BucketsCover, Bucket
<1>4. CASE b.tokens >= 1
  <2>1. PICK c \in Bucket : c = [b EXCEPT !.tokens = @ - 1]
    <3>1. PICK n \in 0 .. Burst : n = b.tokens - 1
      BY <1>3, <1>4, LimitsNumbers
    <3>2. [b EXCEPT !.tokens = n] \in Bucket
      BY <1>2, <3>1 DEF Bucket
    <3> QED BY <1>3, <3>1, <3>2
  <2>2. c.tokens = b.tokens - 1 /\ c.age = 0
    BY <1>2, <2>1 DEF Bucket
  <2>3. /\ buckets' = [buckets EXCEPT ![k] = c] /\ spent' = [spent EXCEPT ![k] = spent[k] + 1]
    BY <1>2, <1>4, <2>1 DEF TryConsume
  <2>4. spent[k] + 1 <= Lacks(c) /\ c # NoBucket
    BY <1>2, <1>3, <2>2, BucketFacts, LimitsNumbers DEF Least
  <2> QED BY <1>3, <2>3, <2>4 DEF BucketsCover
<1>5. CASE ~(b.tokens >= 1)
  <2>1. buckets' = [buckets EXCEPT ![k] = b] /\ spent' = spent
    BY <1>2, <1>5 DEF TryConsume
  <2>2. spent[k] <= Lacks(b) /\ b # NoBucket
    BY <1>2, <1>3, BucketFacts, LimitsNumbers DEF Least
  <2> QED BY <2>1, <2>2 DEF BucketsCover
<1> QED BY <1>4, <1>5

LEMMA ForgettingCovers ==
    ASSUME BucketsCover, NEW lost \in SUBSET {k \in Clients : buckets[k] # NoBucket}, Dropped(lost)
    PROVE  BucketsCover'
<1>1. ASSUME NEW k \in lost PROVE Repaid(spent[k], Lacks(buckets[k])) = 0
  <2>1. /\ buckets[k] \in Bucket /\ spent[k] \in Nat /\ spent[k] <= Lacks(buckets[k])
        /\ Lacks(buckets[k]) \in Nat
    BY BucketFacts DEF BucketsCover
  <2> QED BY <2>1 DEF Repaid, Most
<1>2. ASSUME NEW k \in Clients
      PROVE  /\ k \in lost => buckets'[k] = NoBucket /\ spent'[k] = 0
             /\ k \notin lost => buckets'[k] = buckets[k] /\ spent'[k] = spent[k]
  BY <1>1 DEF Dropped
<1>3. buckets' \in [Clients -> Bucket \cup {NoBucket}] /\ spent' \in [Clients -> Nat]
  BY <1>2 DEF Dropped, BucketsCover
<1> QED BY <1>2, <1>3 DEF BucketsCover

LEMMA TimeCovers == BucketsCover /\ Tick => BucketsCover'
<1> SUFFICES ASSUME BucketsCover, Tick PROVE BucketsCover'
  OBVIOUS
<1>1. ASSUME NEW k \in Clients
      PROVE  /\ buckets'[k] \in Bucket \cup {NoBucket} /\ spent'[k] \in Nat
             /\ IF buckets'[k] = NoBucket THEN spent'[k] = 0 ELSE spent'[k] <= Lacks(buckets'[k])
  <2>1. spent[k] \in Nat /\ spent'[k] = Repaid(spent[k], 1)
    BY DEF BucketsCover, Tick
  <2>2. spent'[k] \in Nat /\ (spent'[k] = 0 \/ spent'[k] = spent[k] - 1)
    BY <2>1 DEF Repaid, Most
  <2>3. CASE buckets[k] = NoBucket
    BY <2>1, <2>2, <2>3 DEF BucketsCover, Tick, Repaid, Most
  <2>4. CASE buckets[k] # NoBucket
    <3>1. buckets[k] \in Bucket /\ spent[k] <= Lacks(buckets[k])
      BY <2>4 DEF BucketsCover
    <3>2. PICK n \in Nat : n = Least(buckets[k].age + 1, Burst + 1)
      BY <3>1, LimitsNumbers DEF Bucket, Least
    <3>3. PICK c \in Bucket : c = [buckets[k] EXCEPT !.age = n]
      BY <3>1 DEF Bucket
    <3>4. buckets'[k] = c /\ c # NoBucket /\ c.age = n /\ c.tokens = buckets[k].tokens
      BY <2>4, <3>1, <3>2, <3>3, BucketFacts DEF Tick, Bucket
    <3>5. buckets[k].tokens \in 0 .. Burst /\ buckets[k].age \in Nat
      BY <3>1 DEF Bucket
    <3>6. Lacks(c) >= 0 /\ Lacks(c) >= Lacks(buckets[k]) - 1
      BY <3>1, <3>2, <3>4, <3>5, BucketFacts, LimitsNumbers DEF Least
    <3>7. Lacks(c) \in Nat /\ Lacks(buckets[k]) \in Nat
      BY <3>1, BucketFacts
    <3> QED BY <2>1, <2>2, <3>1, <3>4, <3>6, <3>7
  <2> QED BY <2>3, <2>4
<1>2. buckets' \in [Clients -> Bucket \cup {NoBucket}] /\ spent' \in [Clients -> Nat]
  BY <1>1 DEF Tick
<1> QED BY <1>1, <1>2 DEF BucketsCover

LEMMA LimitsStepCovers == BucketsCover /\ [LimitsNext]_limitVars => BucketsCover'
<1> SUFFICES ASSUME BucketsCover, [LimitsNext]_limitVars PROVE BucketsCover'
  OBVIOUS
<1>1. UNCHANGED <<buckets, spent>> => BucketsCover'
  BY DEF BucketsCover
<1>2. (\E t \in Transfers : Request(t) \/ Consume(t)) \/ (\E rate \in Rates : SetRate(rate))
         => UNCHANGED <<buckets, spent>>
  BY DEF Request, Consume, SetRate
<1>3. (\E k \in Clients : RemoveBucket(k)) \/ EvictStale => BucketsCover'
  BY ForgettingCovers DEF RemoveBucket, EvictStale
<1> QED
  BY <1>1, <1>2, <1>3, ConsumeCovers, TimeCovers DEF LimitsNext, limitVars
-----------------------------------------------------------------------------
(* The throttle.  What transfers owe is at most what the bucket lacks of    *)
(* its burst, and what is granted and not moved yet fits beside it into the *)
(* overdraft: a grant needs a whole chunk in the bucket, so it is given     *)
(* only when a chunk less than the burst is owed.                           *)
Throttles == [rate : Rates, burst : Nat, available : Int, age : Nat]

Credit == Least(throttle.available + throttle.age * throttle.rate, throttle.burst)

Granted == {t \in Transfers : pc[t] = "granted"}

ThrottleCovers ==
    /\ throttle \in Throttles /\ owed \in Nat /\ pc \in [Transfers -> {"idle", "granted"}]
    /\ throttle.burst = BurstOf(throttle.rate)
    /\ throttle.rate = 0 => throttle.available = 0 /\ owed = 0
    /\ throttle.rate # 0 => /\ owed <= throttle.burst - Credit
                            /\ owed + Chunk * Cardinality(Granted) <= Overdraft

LEMMA BurstFacts ==
    ASSUME NEW rate \in Rates
    PROVE  /\ BurstOf(rate) \in Nat
           /\ rate = 0 => BurstOf(rate) = 0
           /\ rate # 0 => BurstOf(rate) >= Chunk
<1>1. rate \in Nat /\ rate * BurstFactor \in Nat
  BY LimitsNumbers
<1> QED BY <1>1, LimitsNumbers DEF BurstOf, Most

LEMMA Product == ASSUME NEW a \in Nat, NEW b \in Nat, NEW r \in Nat, a <= b
                 PROVE  a * r \in Nat /\ b * r \in Nat /\ a * r <= b * r /\ (a + 1) * r = a * r + r
<1>1. PICK d \in Nat : b = a + d
  BY SMT
<1>2. d * r \in Nat /\ (a + d) * r = a * r + d * r /\ a * r \in Nat
  BY SMT
<1>3. (a + 1) * r = a * r + r
  BY SMT
<1> QED BY <1>1, <1>2, <1>3

LEMMA CreditFacts ==
    ASSUME throttle \in Throttles
    PROVE  /\ throttle.rate \in Nat /\ throttle.burst \in Nat /\ throttle.available \in Int
           /\ throttle.age \in Nat /\ throttle.rate \in Rates
           /\ throttle.age * throttle.rate \in Nat
           /\ Credit \in Int /\ Credit <= throttle.burst
           /\ Topped(throttle) \in Throttles
           /\ Topped(throttle) = [rate |-> throttle.rate, burst |-> throttle.burst,
                                  available |-> Credit, age |-> 0]
<1>1. /\ throttle.rate \in Nat /\ throttle.burst \in Nat /\ throttle.available \in Int
      /\ throttle.age \in Nat /\ throttle.rate \in Rates
  BY LimitsNumbers DEF Throttles
<1>2. throttle.age * throttle.rate \in Nat
  BY <1>1, Product
<1>3. Credit \in Int /\ Credit <= throttle.burst
  BY <1>1, <1>2 DEF Credit, Least
<1>4. Topped(throttle) = [throttle EXCEPT !.available = Credit, !.age = 0]
  BY <1>1 DEF Topped, Credit, Throttles
<1>5. PICK c \in Int : c = Credit
  BY <1>3
<1>6. Topped(throttle) = [throttle EXCEPT !.available = c, !.age = 0]
  BY <1>4, <1>5
<1>7. [throttle EXCEPT !.available = c, !.age = 0]
         = [rate |-> throttle.rate, burst |-> throttle.burst, available |-> c, age |-> 0]
  <2> DEFINE s == [throttle EXCEPT !.available = c]
  <2>1. /\ s \in Throttles /\ s.rate = throttle.rate /\ s.burst = throttle.burst
        /\ s.available = c
    BY DEF Throttles
  <2>2. [throttle EXCEPT !.available = c, !.age = 0] = [s EXCEPT !.age = 0]
    OBVIOUS
  <2> HIDE DEF s
  <2>3. [s EXCEPT !.age = 0] = [rate |-> s.rate, burst |-> s.burst, available |-> s.available,
                                age |-> 0]
    BY <2>1 DEF Throttles
  <2> QED BY <2>1, <2>2, <2>3
<1>8. [rate |-> throttle.rate, burst |-> throttle.burst, available |-> c, age |-> 0] \in Throttles
  BY <1>1 DEF Throttles
<1> QED BY <1>1, <1>2, <1>3, <1>5, <1>6, <1>7, <1>8

LEMMA GrantedFacts ==
    /\ IsFiniteSet(Granted) /\ Cardinality(Granted) \in Nat
    /\ Cardinality(Granted) <= Cardinality(Transfers)
    /\ Chunk * Cardinality(Granted) \in Nat
    /\ Chunk * Cardinality(Granted) <= Chunk * Cardinality(Transfers)
    /\ Chunk * (Cardinality(Transfers) - 1) = Chunk * Cardinality(Transfers) - Chunk
    /\ Chunk * Cardinality(Transfers) \in Nat
<1>1. /\ IsFiniteSet(Granted) /\ Cardinality(Granted) \in Nat
      /\ Cardinality(Granted) <= Cardinality(Transfers)
  BY FS_Subset, FS_CardinalityType, LimitsAssumption DEF Granted
<1>2. /\ Chunk * Cardinality(Granted) = Cardinality(Granted) * Chunk
      /\ Chunk * Cardinality(Transfers) = Cardinality(Transfers) * Chunk
      /\ Chunk * (Cardinality(Transfers) - 1) = Chunk * Cardinality(Transfers) - Chunk
  BY <1>1, LimitsNumbers
<1>3. /\ Cardinality(Granted) * Chunk \in Nat /\ Cardinality(Transfers) * Chunk \in Nat
      /\ Cardinality(Granted) * Chunk <= Cardinality(Transfers) * Chunk
  BY <1>1, LimitsNumbers, Product
<1> QED BY <1>1, <1>2, <1>3

LEMMA RequestCovers ==
    ASSUME ThrottleCovers, NEW t \in Transfers, Request(t)
    PROVE  ThrottleCovers'
<1> DEFINE g == Cardinality(Granted)
<1>1. /\ pc[t] = "idle" /\ owed' = owed /\ owed \in Nat /\ throttle \in Throttles
      /\ pc' \in [Transfers -> {"idle", "granted"}]
  BY DEF Request, ThrottleCovers
<1>2. CASE throttle.rate = 0
  BY <1>1, <1>2 DEF Request, ThrottleCovers
<1>3. CASE throttle.rate # 0
  <2>1. throttle' = Topped(throttle)
    BY <1>3 DEF Request
  <2>2. /\ throttle' \in Throttles /\ throttle'.rate = throttle.rate /\ throttle'.age = 0
        /\ throttle'.burst = throttle.burst /\ throttle'.available = Credit
    BY <1>1, <2>1, CreditFacts
  <2>3. Credit' = Credit /\ Credit \in Int /\ Credit <= throttle.burst
    <3>1. throttle'.age * throttle'.rate = 0
      BY <1>1, <2>2, CreditFacts
    <3>2. Credit' = Least(throttle'.available + throttle'.age * throttle'.rate, throttle'.burst)
      BY DEF Credit
    <3>3. Credit \in Int /\ Credit <= throttle.burst /\ throttle.burst \in Nat
      BY <1>1, CreditFacts
    <3>4. Credit' = Least(Credit, throttle.burst)
      BY <2>2, <3>1, <3>2, <3>3
    <3> QED BY <3>3, <3>4 DEF Least
  <2>4. Overdraft' = Overdraft
    BY <2>2 DEF Overdraft
  <2>5. owed <= throttle.burst - Credit /\ owed + Chunk * g <= Overdraft
    BY <1>3 DEF ThrottleCovers
  <2>6. owed' + Chunk * Cardinality(Granted)' <= Overdraft'
    <3>1. CASE Credit >= Chunk
      <4>1. Granted' = Granted \cup {t} /\ t \notin Granted
        BY <1>1, <1>3, <2>2, <3>1 DEF Request, Granted, ThrottleCovers
      <4>2. Cardinality(Granted)' \in Nat /\ Cardinality(Granted)' <= Cardinality(Transfers)
        <5>1. IsFiniteSet(Granted') /\ Granted' \subseteq Transfers
          BY <4>1, GrantedFacts, FS_AddElement DEF Granted
        <5> QED BY <5>1, FS_Subset, FS_CardinalityType, LimitsAssumption
      <4>3. Chunk * Cardinality(Granted)' <= Chunk * Cardinality(Transfers)
            /\ Chunk * Cardinality(Granted)' \in Nat
        <5>1. Chunk * Cardinality(Granted)' = Cardinality(Granted)' * Chunk
              /\ Chunk * Cardinality(Transfers) = Cardinality(Transfers) * Chunk
          BY <4>2, LimitsNumbers
        <5> QED BY <4>2, <5>1, LimitsNumbers, Product
      <4>4. owed <= throttle.burst - Chunk /\ throttle.burst \in Nat
        BY <1>1, <2>3, <2>5, <3>1, LimitsNumbers, CreditFacts
      <4>5. Overdraft = throttle.burst + Chunk * Cardinality(Transfers) - Chunk
        BY <4>4, GrantedFacts, LimitsNumbers DEF Overdraft
      <4> QED BY <1>1, <2>4, <4>3, <4>4, <4>5, GrantedFacts, LimitsNumbers
    <3>2. CASE ~(Credit >= Chunk)
      <4>1. Granted' = Granted
        BY <1>1, <1>3, <2>2, <3>2 DEF Request, Granted, ThrottleCovers
      <4> QED BY <1>1, <2>4, <2>5, <4>1
    <3> QED BY <3>1, <3>2
  <2> QED BY <1>1, <1>3, <2>2, <2>3, <2>5, <2>6 DEF ThrottleCovers
<1> QED BY <1>2, <1>3

LEMMA PaymentCovers ==
    ASSUME ThrottleCovers, NEW t \in Transfers, Consume(t)
    PROVE  ThrottleCovers'
<1>1. /\ pc[t] = "granted" /\ owed \in Nat /\ throttle \in Throttles
      /\ pc' = [pc EXCEPT ![t] = "idle"] /\ pc' \in [Transfers -> {"idle", "granted"}]
  BY DEF Consume, ThrottleCovers
<1>2. CASE throttle.rate = 0
  BY <1>1, <1>2 DEF Consume, ThrottleCovers
<1>3. CASE throttle.rate # 0
  <2>1. PICK c \in Int : c = Credit - Chunk
    BY <1>1, CreditFacts, LimitsNumbers
  <2>2. throttle' = [Topped(throttle) EXCEPT !.available = @ - Chunk] /\ owed' = owed + Chunk
    BY <1>3 DEF Consume
  <2>3. throttle' = [rate |-> throttle.rate, burst |-> throttle.burst, available |-> c, age |-> 0]
    BY <1>1, <2>1, <2>2, CreditFacts
  <2>4. /\ throttle' \in Throttles /\ throttle'.rate = throttle.rate /\ throttle'.age = 0
        /\ throttle'.burst = throttle.burst /\ throttle'.available = c
    BY <1>1, <2>3, CreditFacts DEF Throttles
  <2>5. Credit' = c
    <3>1. throttle'.age * throttle'.rate = 0
      BY <1>1, <2>4, CreditFacts
    <3>2. Credit' = Least(throttle'.available + throttle'.age * throttle'.rate, throttle'.burst)
      BY DEF Credit
    <3>3. Credit \in Int /\ Credit <= throttle.burst /\ throttle.burst \in Nat
      BY <1>1, CreditFacts
    <3>4. Credit' = Least(c, throttle.burst)
      BY <2>1, <2>4, <3>1, <3>2
    <3>5. c <= throttle.burst
      BY <2>1, <3>3, LimitsNumbers
    <3> QED BY <3>3, <3>4, <3>5 DEF Least
  <2>6. Granted' = Granted \ {t} /\ t \in Granted
    BY <1>1 DEF Granted
  <2>7. Cardinality(Granted)' = Cardinality(Granted) - 1
    BY <2>6, GrantedFacts, FS_RemoveElement
  <2>8. Chunk * Cardinality(Granted)' = Chunk * Cardinality(Granted) - Chunk
    BY <2>7, GrantedFacts, LimitsNumbers
  <2>9. /\ owed <= throttle.burst - Credit /\ owed + Chunk * Cardinality(Granted) <= Overdraft
        /\ throttle.burst = BurstOf(throttle.rate)
    BY <1>3 DEF ThrottleCovers
  <2>10. Overdraft' = Overdraft
    BY <2>4 DEF Overdraft
  <2>11. owed' \in Nat /\ owed' <= throttle'.burst - Credit'
    BY <1>1, <2>1, <2>2, <2>4, <2>5, <2>9, CreditFacts, LimitsNumbers
  <2>12. owed' + Chunk * Cardinality(Granted)' <= Overdraft'
    <3>1. owed' + Chunk * Cardinality(Granted)' = owed + Chunk * Cardinality(Granted)
      BY <1>1, <2>2, <2>8, GrantedFacts, LimitsNumbers
    <3> QED BY <2>9, <2>10, <3>1
  <2> QED BY <1>1, <1>3, <2>4, <2>9, <2>11, <2>12 DEF ThrottleCovers
<1> QED BY <1>2, <1>3

LEMMA RateCovers ==
    ASSUME ThrottleCovers, NEW rate \in Rates, SetRate(rate)
    PROVE  ThrottleCovers'
<1> DEFINE B == BurstOf(rate)
           d == Most(throttle.burst - B, 0)
<1>1. /\ owed \in Nat /\ throttle \in Throttles /\ pc' = pc /\ Granted' = Granted
      /\ pc' \in [Transfers -> {"idle", "granted"}] /\ rate # throttle.rate
  BY DEF SetRate, ThrottleCovers, Granted
<1>2. B \in Nat /\ throttle.burst \in Nat /\ Credit \in Int /\ Credit <= throttle.burst
  BY <1>1, BurstFacts, CreditFacts
<1>3. PICK c \in Int : c = IF rate = 0 THEN 0 ELSE Least(Credit, B)
  BY <1>2 DEF Least
<1>4. throttle' = [rate |-> rate, burst |-> B, age |-> 0, available |-> c]
  BY <1>1, <1>3, CreditFacts DEF SetRate
<1>5. /\ throttle' \in Throttles /\ throttle'.rate = rate /\ throttle'.burst = B
      /\ throttle'.age = 0 /\ throttle'.available = c
  BY <1>2, <1>4 DEF Throttles
<1>6. Overdraft' = B + Chunk * Cardinality(Transfers) - Chunk
  BY <1>2, <1>5, GrantedFacts, LimitsNumbers DEF Overdraft
<1>7. CASE rate = 0
  BY <1>1, <1>3, <1>5, <1>7, BurstFacts DEF SetRate, ThrottleCovers
<1>8. CASE rate # 0
  <2>1. owed' = Repaid(owed, d)
    BY <1>8 DEF SetRate
  <2>2. owed <= throttle.burst - Credit
    <3>1. CASE throttle.rate = 0
      <4>1. throttle.available = 0 /\ owed = 0 /\ throttle.burst = 0
        BY <3>1, <1>1, CreditFacts, BurstFacts DEF ThrottleCovers
      <4> QED BY <1>2, <4>1
    <3>2. CASE throttle.rate # 0
      BY <3>2 DEF ThrottleCovers
    <3> QED BY <3>1, <3>2
  <2>3. Credit' = c
    <3>1. throttle'.age * throttle'.rate = 0
      BY <1>5, LimitsNumbers
    <3>2. Credit' = Least(throttle'.available + throttle'.age * throttle'.rate, throttle'.burst)
      BY DEF Credit
    <3>3. Credit' = Least(c, B)
      BY <1>5, <3>1, <3>2
    <3> QED BY <1>2, <1>3, <1>8, <3>3 DEF Least
  <2> HIDE DEF B
  <2>4. owed' \in Nat /\ owed' <= B - c
    BY <1>1, <1>2, <1>3, <1>8, <2>1, <2>2 DEF Repaid, Most, Least
  <2>5. B >= Chunk
    BY <1>8, BurstFacts DEF B
  <2>6. owed' + Chunk * Cardinality(Granted) <= Overdraft'
    <3>1. CASE owed' = 0
      BY <1>2, <1>6, <2>5, <3>1, GrantedFacts, LimitsNumbers
    <3>2. CASE owed' # 0
      <4>1. throttle.rate # 0
        BY <1>1, <1>2, <2>1, <3>2 DEF ThrottleCovers, Repaid, Most
      <4>2. owed + Chunk * Cardinality(Granted) <= Overdraft
        BY <4>1 DEF ThrottleCovers
      <4>3. Overdraft = throttle.burst + Chunk * Cardinality(Transfers) - Chunk
        BY <1>2, GrantedFacts, LimitsNumbers DEF Overdraft
      <4>4. owed' <= owed - (throttle.burst - B)
        BY <1>1, <1>2, <2>1, <3>2 DEF Repaid, Most
      <4> QED BY <1>1, <1>2, <1>6, <2>4, <4>2, <4>3, <4>4, GrantedFacts, LimitsNumbers
    <3> QED BY <3>1, <3>2
  <2>7. throttle'.burst = BurstOf(throttle'.rate)
    BY <1>5 DEF B
  <2> QED BY <1>1, <1>5, <1>8, <2>3, <2>4, <2>6, <2>7 DEF ThrottleCovers
<1> QED BY <1>7, <1>8

LEMMA TickCovers == ThrottleCovers /\ Tick => ThrottleCovers'
<1> SUFFICES ASSUME ThrottleCovers, Tick PROVE ThrottleCovers'
  OBVIOUS
<1>1. /\ owed \in Nat /\ throttle \in Throttles /\ pc' = pc /\ Granted' = Granted
      /\ pc' \in [Transfers -> {"idle", "granted"}] /\ owed' = Repaid(owed, throttle.rate)
  BY DEF Tick, ThrottleCovers, Granted
<1>2. Overdraft \in Nat
  BY <1>1, CreditFacts, GrantedFacts, LimitsNumbers DEF Overdraft
<1>3. PICK n \in Nat : n = Least(throttle.age + 1, Overdraft + Chunk)
  BY <1>1, <1>2, CreditFacts, LimitsNumbers DEF Least
<1>4. throttle' = [throttle EXCEPT !.age = n]
  BY <1>1, <1>3 DEF Tick, Throttles
<1>5. /\ throttle' \in Throttles /\ throttle'.rate = throttle.rate /\ throttle'.age = n
      /\ throttle'.burst = throttle.burst /\ throttle'.available = throttle.available
  BY <1>1, <1>4 DEF Throttles
<1>6. owed' \in Nat /\ owed' <= owed
  BY <1>1, CreditFacts DEF Repaid, Most
<1>7. CASE throttle.rate = 0
  BY <1>1, <1>5, <1>7 DEF ThrottleCovers, Repaid, Most
<1>8. CASE throttle.rate # 0
  <2>1. n <= throttle.age + 1
    BY <1>1, <1>2, <1>3, CreditFacts, LimitsNumbers DEF Least
  <2>2. n * throttle.rate \in Nat /\ n * throttle.rate <= throttle.age * throttle.rate + throttle.rate
    <3>1. throttle.age \in Nat /\ throttle.rate \in Nat /\ throttle.age + 1 \in Nat
      BY <1>1, CreditFacts
    <3> QED BY <2>1, <3>1, Product
  <2>3. PICK m \in Nat, k \in Nat : m = n * throttle.rate /\ k = throttle.age * throttle.rate
    BY <1>1, <2>2, CreditFacts
  <2>4. Credit = Least(throttle.available + k, throttle.burst)
    BY <2>3 DEF Credit
  <2>5. Credit' = Least(throttle.available + m, throttle.burst)
    BY <1>5, <2>3 DEF Credit
  <2>6. Credit' \in Int /\ Credit' <= Credit + throttle.rate /\ Credit' <= throttle.burst
    BY <1>1, <2>2, <2>3, <2>4, <2>5, CreditFacts DEF Least
  <2>7. /\ owed <= throttle.burst - Credit /\ owed + Chunk * Cardinality(Granted) <= Overdraft
        /\ throttle.burst = BurstOf(throttle.rate)
    BY <1>8 DEF ThrottleCovers
  <2>8. owed' <= throttle'.burst - Credit'
    BY <1>1, <1>5, <2>6, <2>7, CreditFacts DEF Repaid, Most
  <2>9. Overdraft' = Overdraft
    BY <1>5 DEF Overdraft
  <2>10. owed' + Chunk * Cardinality(Granted) <= Overdraft'
    BY <1>1, <1>2, <1>6, <2>7, <2>9, GrantedFacts
  <2> QED BY <1>1, <1>5, <1>6, <1>8, <2>7, <2>8, <2>10 DEF ThrottleCovers
<1> QED BY <1>7, <1>8

LEMMA LimitsStart == LimitsInit => BucketsCover /\ ThrottleCovers
<1> SUFFICES ASSUME LimitsInit PROVE BucketsCover /\ ThrottleCovers
  OBVIOUS
<1>1. BucketsCover
  BY DEF LimitsInit, BucketsCover
<1>2. PICK rate \in Rates :
          throttle = [rate |-> rate, burst |-> BurstOf(rate), available |-> BurstOf(rate), age |-> 0]
  BY DEF LimitsInit
<1>3. owed = 0 /\ pc = [t \in Transfers |-> "idle"] /\ rate \in Nat /\ BurstOf(rate) \in Nat
  BY BurstFacts, LimitsNumbers DEF LimitsInit
<1>4. throttle \in Throttles
  BY <1>2, <1>3 DEF Throttles
<1>5. Credit = throttle.burst
  BY <1>2, <1>3 DEF Credit, Least
<1>6. Granted = {}
  BY <1>3 DEF Granted
<1>7. Cardinality(Granted) = 0
  BY <1>6, FS_EmptySet
<1>8. Chunk * Cardinality(Granted) = 0 /\ Overdraft \in Nat
  BY <1>2, <1>3, <1>7, GrantedFacts, LimitsNumbers DEF Overdraft
<1> QED BY <1>1, <1>2, <1>3, <1>4, <1>5, <1>8, BurstFacts DEF ThrottleCovers

LEMMA LimitsStepPays == ThrottleCovers /\ [LimitsNext]_limitVars => ThrottleCovers'
<1> SUFFICES ASSUME ThrottleCovers, [LimitsNext]_limitVars PROVE ThrottleCovers'
  OBVIOUS
<1>1. UNCHANGED <<throttle, pc, owed>> => ThrottleCovers'
  BY DEF ThrottleCovers, Credit, Granted, Overdraft
<1>2. (\E k \in Clients : TryConsume(k) \/ RemoveBucket(k)) \/ EvictStale
         => UNCHANGED <<throttle, pc, owed>>
  BY DEF TryConsume, RemoveBucket, EvictStale, Dropped
<1> QED
  BY <1>1, <1>2, RequestCovers, PaymentCovers, RateCovers, TickCovers DEF LimitsNext, limitVars

LEMMA CoveredIsKept == BucketsCover /\ ThrottleCovers => RatesAreKept
<1> SUFFICES ASSUME BucketsCover, ThrottleCovers PROVE RatesAreKept
  OBVIOUS
<1>1. ASSUME NEW k \in Clients PROVE spent[k] <= Burst
  <2>1. CASE buckets[k] = NoBucket
    BY <2>1, LimitsNumbers DEF BucketsCover
  <2>2. CASE buckets[k] # NoBucket
    <3>1. buckets[k] \in Bucket /\ spent[k] <= Lacks(buckets[k]) /\ spent[k] \in Nat
      BY <2>2 DEF BucketsCover
    <3>2. Lacks(buckets[k]) <= Burst
      BY <3>1, BucketFacts, LimitsNumbers DEF Bucket, Least
    <3> QED BY <3>1, <3>2, BucketFacts, LimitsNumbers
  <2> QED BY <2>1, <2>2
<1>2. owed <= Overdraft
  <2>1. owed \in Nat /\ throttle.burst \in Nat /\ Overdraft \in Nat
    BY CreditFacts, GrantedFacts, LimitsNumbers DEF ThrottleCovers, Overdraft
  <2>2. CASE throttle.rate = 0
    BY <2>1, <2>2 DEF ThrottleCovers
  <2>3. CASE throttle.rate # 0
    BY <2>1, <2>3, GrantedFacts DEF ThrottleCovers
  <2> QED BY <2>2, <2>3
<1> QED BY <1>1, <1>2 DEF RatesAreKept

(* No key holds more than a burst that has neither come back nor been       *)
(* forgiven with a bucket that the map dropped, by whichever call, and the  *)
(* transfers under a throttle overdraw it by a chunk each but the first, at *)
(* every rate that is set (try_consume, remove, evict_stale, request,       *)
(* consume, set_rate).                                                      *)
THEOREM RatesHold == LimitsSpec => []RatesAreKept
<1>1. LimitsInit => BucketsCover /\ ThrottleCovers
  BY LimitsStart
<1>2. BucketsCover /\ ThrottleCovers /\ [LimitsNext]_limitVars => (BucketsCover /\ ThrottleCovers)'
  BY LimitsStepCovers, LimitsStepPays
<1>3. BucketsCover /\ ThrottleCovers => RatesAreKept
  BY CoveredIsKept
<1> QED BY <1>1, <1>2, <1>3, PTL DEF LimitsSpec
-----------------------------------------------------------------------------
(* Relays.  A relay counts the circuits through it, because every circuit   *)
(* has an id of its own and goes through a relay that is still there, and   *)
(* no two relays have an id in common.                                      *)
RelayRecords == [id : RelayIds, active : Nat, measured : BOOLEAN, latency : Nat, verified : BOOLEAN]

Circuits == [id : Nat, relay : RelayIds, remote : Remotes, idle : Nat]

Through(id) == {c \in circuits : c.relay = id}

RelaysTyped ==
    /\ relays \in Seq(RelayRecords)
    /\ circuits \subseteq Circuits /\ IsFiniteSet(circuits) /\ nextCircuit \in Nat

IdsAreUnique ==
    /\ \A i, j \in DOMAIN relays : relays[i].id = relays[j].id => i = j
    /\ \A c, d \in circuits : c.id = d.id => c = d
    /\ \A c \in circuits : c.id < nextCircuit

CircuitsHaveRelays == \A c \in circuits : \E i \in DOMAIN relays : relays[i].id = c.relay

Counted(i) ==
    relays[i].id \notin reported =>
        /\ relays[i].active = Cardinality(Through(relays[i].id))
        /\ Cardinality(Through(relays[i].id)) <= Capacity[relays[i].id]

RelayInv ==
    RelaysTyped /\ IdsAreUnique /\ CircuitsHaveRelays /\ \A i \in DOMAIN relays : Counted(i)

LEMMA NodeFacts ==
    ASSUME RelaysTyped, NEW i \in DOMAIN relays
    PROVE  /\ relays[i] \in RelayRecords /\ relays[i].id \in RelayIds /\ relays[i].active \in Nat
           /\ Capacity[relays[i].id] \in Nat
           /\ DOMAIN relays = 1 .. Len(relays) /\ Len(relays) \in Nat
<1>1. relays \in Seq(RelayRecords)
  BY DEF RelaysTyped
<1>2. relays[i] \in RelayRecords /\ DOMAIN relays = 1 .. Len(relays) /\ Len(relays) \in Nat
  BY <1>1
<1> QED BY <1>2, RelayAssumption DEF RelayRecords

LEMMA ThroughFacts ==
    ASSUME RelaysTyped, NEW id
    PROVE  IsFiniteSet(Through(id)) /\ Cardinality(Through(id)) \in Nat
BY FS_Subset, FS_CardinalityType DEF RelaysTyped, Through

(* A relay's entry changes and neither its id nor its count.                *)
LEMMA EntryChanges ==
    ASSUME RelayInv, relays' \in Seq(RelayRecords), DOMAIN relays' = DOMAIN relays,
           \A i \in DOMAIN relays : relays'[i].id = relays[i].id,
           UNCHANGED <<circuits, nextCircuit>>, reported \subseteq reported',
           \A i \in DOMAIN relays :
              relays[i].id \in reported' \/ relays'[i].active = relays[i].active
    PROVE  RelayInv'
BY DEF RelayInv, RelaysTyped, IdsAreUnique, CircuitsHaveRelays, Counted, Through

LEMMA RelayJoins ==
    ASSUME RelayInv, NEW id \in RelayIds, AddRelay(id)
    PROVE  RelayInv'
<1>1. /\ RelaysTyped /\ IdsAreUnique /\ CircuitsHaveRelays
      /\ \A i \in DOMAIN relays : relays[i].id # id
      /\ circuits' = circuits /\ nextCircuit' = nextCircuit /\ reported' = reported
  BY DEF AddRelay, RelayInv
<1>2. RelayNode(id) \in RelayRecords /\ RelayNode(id).id = id /\ RelayNode(id).active = 0
  BY DEF RelayNode, RelayRecords
<1>3. relays \in Seq(RelayRecords) /\ relays' = Append(relays, RelayNode(id))
  BY <1>1 DEF AddRelay, RelaysTyped
<1>4. /\ relays' \in Seq(RelayRecords) /\ Len(relays') = Len(relays) + 1
      /\ DOMAIN relays = 1 .. Len(relays) /\ DOMAIN relays' = 1 .. Len(relays) + 1
      /\ \A i \in DOMAIN relays : relays'[i] = relays[i]
      /\ relays'[Len(relays) + 1] = RelayNode(id) /\ Len(relays) \in Nat
  BY <1>2, <1>3
<1>5. RelaysTyped'
  BY <1>1, <1>4 DEF RelaysTyped
<1>6. IdsAreUnique'
  BY <1>1, <1>2, <1>4 DEF IdsAreUnique
<1>7. CircuitsHaveRelays'
  BY <1>1, <1>4 DEF CircuitsHaveRelays
<1>8. ASSUME NEW i \in DOMAIN relays' PROVE Counted(i)'
  <2>1. CASE i \in DOMAIN relays
    BY <1>1, <1>4, <2>1 DEF RelayInv, Counted, Through
  <2>2. CASE i = Len(relays) + 1
    <3>1. relays'[i].id = id /\ relays'[i].active = 0
      BY <1>2, <1>4, <2>2
    <3>2. Through(id) = {}
      BY <1>1 DEF CircuitsHaveRelays, Through
    <3>3. Through(relays[i].id)' = {}
      BY <1>1, <3>1, <3>2 DEF Through
    <3>4. Cardinality({}) = 0 /\ Capacity[id] \in Nat
      BY FS_EmptySet, RelayAssumption
    <3> QED BY <3>1, <3>3, <3>4 DEF Counted
  <2> QED BY <1>4, <2>1, <2>2
<1> QED BY <1>5, <1>6, <1>7, <1>8 DEF RelayInv

LEMMA CircuitOpens ==
    ASSUME RelayInv, NEW remote \in Remotes, NEW region, CreateCircuit(remote, region)
    PROVE  RelayInv'
<1>1. RelaysTyped /\ IdsAreUnique /\ CircuitsHaveRelays /\ nextCircuit \in Nat
  BY DEF RelayInv, RelaysTyped
<1>2. PICK i \in Candidates :
         /\ circuits' = circuits \cup {[id |-> nextCircuit, relay |-> relays[i].id,
                                        remote |-> remote, idle |-> 0]}
         /\ relays' = [relays EXCEPT ![i].active = @ + 1]
  BY DEF CreateCircuit
<1>3. i \in DOMAIN relays /\ HasCapacity(relays[i])
  BY <1>2 DEF Candidates
<1>4. /\ relays[i] \in RelayRecords /\ relays[i].id \in RelayIds /\ relays[i].active \in Nat
      /\ DOMAIN relays = 1 .. Len(relays) /\ Len(relays) \in Nat
      /\ Capacity[relays[i].id] \in Nat
  BY <1>1, <1>3, NodeFacts
<1>5. PICK c \in Circuits :
         c = [id |-> nextCircuit, relay |-> relays[i].id, remote |-> remote, idle |-> 0]
  BY <1>1, <1>4 DEF Circuits
<1>6. /\ c.id = nextCircuit /\ c.relay = relays[i].id /\ c \notin circuits
      /\ circuits' = circuits \cup {c} /\ nextCircuit' = nextCircuit + 1 /\ reported' = reported
  <2>1. c.id = nextCircuit /\ c.relay = relays[i].id
    BY <1>5
  <2>2. \A d \in circuits : d.id # nextCircuit
    BY <1>1 DEF IdsAreUnique, RelaysTyped, Circuits
  <2> QED BY <1>2, <1>5, <2>1, <2>2 DEF CreateCircuit
<1>7. PICK n \in Nat : n = relays[i].active + 1
  BY <1>4
<1>8. PICK r \in RelayRecords : r = [relays[i] EXCEPT !.active = n]
  BY <1>4, <1>7 DEF RelayRecords
<1>9. r.id = relays[i].id /\ r.active = relays[i].active + 1
  BY <1>4, <1>7, <1>8 DEF RelayRecords
<1>10. /\ relays' \in Seq(RelayRecords) /\ DOMAIN relays' = DOMAIN relays /\ relays'[i] = r
       /\ \A j \in DOMAIN relays : j # i => relays'[j] = relays[j]
  <2>1. relays \in Seq(RelayRecords)
    BY <1>1 DEF RelaysTyped
  <2>2. relays' = [relays EXCEPT ![i] = r]
    BY <1>2, <1>3, <1>7, <1>8, <2>1
  <2> QED BY <1>3, <2>1, <2>2
<1>11. RelaysTyped'
  <2>1. IsFiniteSet(circuits') /\ circuits' \subseteq Circuits /\ nextCircuit' \in Nat
    BY <1>1, <1>6, FS_AddElement DEF RelaysTyped
  <2> QED BY <1>10, <2>1 DEF RelaysTyped
<1>12. IdsAreUnique'
  <2>1. \A j \in DOMAIN relays : relays'[j].id = relays[j].id
    BY <1>9, <1>10
  <2>2. \A d \in circuits : d.id < nextCircuit /\ d.id \in Nat
    BY <1>1 DEF IdsAreUnique, RelaysTyped, Circuits
  <2>3. \A d, e \in circuits' : d.id = e.id => d = e
    BY <1>1, <1>6, <2>2 DEF IdsAreUnique
  <2>4. \A d \in circuits' : d.id < nextCircuit'
    BY <1>1, <1>6, <2>2
  <2>5. \A j, k \in DOMAIN relays' : relays'[j].id = relays'[k].id => j = k
    BY <1>1, <1>10, <2>1 DEF IdsAreUnique
  <2> QED BY <2>3, <2>4, <2>5 DEF IdsAreUnique
<1>13. CircuitsHaveRelays'
  BY <1>1, <1>3, <1>6, <1>9, <1>10 DEF CircuitsHaveRelays
<1>14. ASSUME NEW j \in DOMAIN relays' PROVE Counted(j)'
  <2>1. CASE j = i
    <3>1. Through(relays[j].id)' = Through(relays[i].id) \cup {c} /\ c \notin Through(relays[i].id)
      BY <1>6, <1>9, <1>10, <2>1 DEF Through
    <3>2. Cardinality(Through(relays[j].id)') = Cardinality(Through(relays[i].id)) + 1
      BY <1>1, <3>1, ThroughFacts, FS_AddElement
    <3>3. Counted(i) /\ relays[i].active < Capacity[relays[i].id]
      BY <1>3 DEF RelayInv, HasCapacity
    <3>4. relays'[j].id = relays[i].id /\ relays'[j].active = relays[i].active + 1
      BY <1>9, <1>10, <2>1
    <3>5. Cardinality(Through(relays[i].id)) \in Nat
      BY <1>1, ThroughFacts
    <3> QED BY <1>4, <1>6, <3>2, <3>3, <3>4, <3>5 DEF Counted
  <2>2. CASE j # i
    <3>1. relays'[j] = relays[j] /\ relays[j].id # relays[i].id /\ Counted(j)
      BY <1>1, <1>3, <1>10, <2>2 DEF IdsAreUnique, RelayInv
    <3>2. Through(relays[j].id)' = Through(relays[j].id)
      BY <1>6, <3>1 DEF Through
    <3> QED BY <1>6, <3>1, <3>2 DEF Counted
  <2> QED BY <2>1, <2>2
<1> QED BY <1>11, <1>12, <1>13, <1>14 DEF RelayInv

(* Circuits change and keep their ids and their relays.                     *)
LEMMA CircuitsChange ==
    ASSUME RelayInv, UNCHANGED <<relays, nextCircuit, reported>>,
           NEW F \in [circuits -> Circuits], circuits' = {F[c] : c \in circuits},
           \A c \in circuits : F[c].id = c.id /\ F[c].relay = c.relay
    PROVE  RelayInv'
<1>1. RelaysTyped /\ IdsAreUnique /\ CircuitsHaveRelays
  BY DEF RelayInv
<1>2. F \in Surjection(circuits, circuits')
  BY DEF Surjection
<1>3. RelaysTyped'
  <2>1. IsFiniteSet(circuits')
    BY <1>1, <1>2, FS_Surjection DEF RelaysTyped
  <2> QED BY <1>1, <2>1 DEF RelaysTyped
<1>4. IdsAreUnique'
  BY <1>1 DEF IdsAreUnique
<1>5. CircuitsHaveRelays'
  BY <1>1 DEF CircuitsHaveRelays
<1>6. ASSUME NEW id PROVE Cardinality(Through(id))' = Cardinality(Through(id))
  <2> DEFINE G == [c \in Through(id) |-> F[c]]
  <2>1. G \in [Through(id) -> Through(id)']
    BY DEF Through
  <2>2. \A d \in Through(id)' : \E c \in Through(id) : G[c] = d
    BY DEF Through
  <2>3. \A c, d \in Through(id) : G[c] = G[d] => c = d
    BY <1>1 DEF Through, IdsAreUnique
  <2>4. G \in Bijection(Through(id), Through(id)')
    <3> HIDE DEF G
    <3> QED BY <2>1, <2>2, <2>3 DEF Bijection, Injection, Surjection, IsInjective
  <2> QED BY <1>1, <2>4, ThroughFacts, FS_Bijection DEF ExistsBijection
<1>7. ASSUME NEW i \in DOMAIN relays PROVE Counted(i)'
  <2>1. Counted(i) /\ relays' = relays /\ reported' = reported
    BY DEF RelayInv
  <2>2. Through(relays[i].id)' = Through(relays[i].id)'
    OBVIOUS
  <2>3. PICK id : id = relays[i].id
    OBVIOUS
  <2>4. relays'[i].id = id
    BY <2>1, <2>3
  <2>5. Cardinality(Through(id)') = Cardinality(Through(id))
    BY <1>6
  <2> QED BY <2>1, <2>3, <2>4, <2>5 DEF Counted, Through
<1> QED BY <1>3, <1>4, <1>5, <1>7 DEF RelayInv

LEMMA ActivityCounts ==
    ASSUME RelayInv, NEW c \in circuits, Activity(c)
    PROVE  RelayInv'
<1>1. circuits \subseteq Circuits
  BY DEF RelayInv, RelaysTyped
<1>2. PICK e \in Circuits : e = [c EXCEPT !.idle = 0] /\ e.id = c.id /\ e.relay = c.relay
  <2>1. c \in Circuits
    BY <1>1
  <2>2. [c EXCEPT !.idle = 0] \in Circuits
    BY <2>1 DEF Circuits
  <2>3. [c EXCEPT !.idle = 0].id = c.id /\ [c EXCEPT !.idle = 0].relay = c.relay
    BY <2>1 DEF Circuits
  <2> QED BY <2>2, <2>3
<1> DEFINE F == [d \in circuits |-> IF d = c THEN e ELSE d]
<1>3. F \in [circuits -> Circuits] /\ \A d \in circuits : F[d].id = d.id /\ F[d].relay = d.relay
  BY <1>1, <1>2
<1>4. circuits' = {F[d] : d \in circuits}
  BY <1>2 DEF Activity
<1>5. UNCHANGED <<relays, nextCircuit, reported>>
  BY DEF Activity
<1> HIDE DEF F
<1> QED BY <1>3, <1>4, <1>5, CircuitsChange

LEMMA TickCounts == RelayInv /\ RelayTick => RelayInv'
<1> SUFFICES ASSUME RelayInv, RelayTick PROVE RelayInv'
  OBVIOUS
<1> DEFINE Older(c) == IF c.idle < IdleAge THEN c.idle + 1 ELSE c.idle
           F == [c \in circuits |-> [c EXCEPT !.idle = Older(c)]]
<1>1. ASSUME NEW c \in circuits
      PROVE  F[c] \in Circuits /\ F[c].id = c.id /\ F[c].relay = c.relay
  <2>1. c \in Circuits
    BY DEF RelayInv, RelaysTyped
  <2>2. PICK n \in Nat : n = Older(c)
    BY <2>1 DEF Circuits
  <2>3. F[c] = [c EXCEPT !.idle = n]
    BY <2>2
  <2> HIDE DEF F, Older
  <2> QED BY <2>1, <2>3 DEF Circuits
<1>2. F \in [circuits -> Circuits] /\ \A d \in circuits : F[d].id = d.id /\ F[d].relay = d.relay
  BY <1>1
<1>3. circuits' = {F[c] : c \in circuits} /\ UNCHANGED <<relays, nextCircuit, reported>>
  BY DEF RelayTick
<1> HIDE DEF F
<1> QED BY <1>2, <1>3, CircuitsChange

(* Circuits end, and their relays count them no longer.                     *)
LEMMA CircuitsEnd ==
    ASSUME RelayInv, NEW cs \in SUBSET circuits,
           circuits' = circuits \ cs, relays' = Closing(relays, cs),
           UNCHANGED <<nextCircuit, reported>>
    PROVE  RelayInv'
<1> DEFINE Ends(id) == {c \in cs : c.relay = id}
<1>1. RelaysTyped /\ IdsAreUnique /\ CircuitsHaveRelays
  BY DEF RelayInv
<1>2. relays \in Seq(RelayRecords) /\ DOMAIN relays = 1 .. Len(relays) /\ Len(relays) \in Nat
  BY <1>1 DEF RelaysTyped
<1>3. ASSUME NEW id
      PROVE  /\ Cardinality(Ends(id)) \in Nat
             /\ Cardinality(Ends(id)) <= Cardinality(Through(id))
             /\ Cardinality(Through(id)') = Cardinality(Through(id)) - Cardinality(Ends(id))
  <2>1. Ends(id) \subseteq Through(id) /\ Through(id)' = Through(id) \ Ends(id)
    BY DEF Through
  <2>2. IsFiniteSet(Through(id))
    BY <1>1, ThroughFacts
  <2> HIDE DEF Ends
  <2>3. IsFiniteSet(Ends(id)) /\ IsFiniteSet(Through(id) \ Ends(id))
    BY <2>1, <2>2, FS_Subset
  <2>4. /\ Through(id) = Ends(id) \cup (Through(id) \ Ends(id))
        /\ Ends(id) \cap (Through(id) \ Ends(id)) = {}
    BY <2>1
  <2>5. Cardinality({}) = 0
    BY FS_EmptySet
  <2>6. Cardinality(Through(id))
           = Cardinality(Ends(id)) + Cardinality(Through(id) \ Ends(id)) - 0
    BY <2>3, <2>4, <2>5, FS_Union
  <2>7. /\ Cardinality(Ends(id)) \in Nat /\ Cardinality(Through(id) \ Ends(id)) \in Nat
        /\ Cardinality(Through(id)) \in Nat
    BY <2>2, <2>3, FS_CardinalityType
  <2> QED BY <2>1, <2>6, <2>7
<1>4. ASSUME NEW i \in DOMAIN relays
      PROVE  /\ relays'[i] \in RelayRecords /\ relays'[i].id = relays[i].id
             /\ relays'[i].active = IF relays[i].active > Cardinality(Ends(relays[i].id))
                                    THEN relays[i].active - Cardinality(Ends(relays[i].id)) ELSE 0
  <2>1. relays[i] \in RelayRecords /\ relays[i].active \in Nat
    BY <1>1, NodeFacts
  <2>2. PICK k \in Nat : k = Cardinality(Ends(relays[i].id))
    BY <1>3
  <2>3. PICK n \in Nat : n = IF relays[i].active > k THEN relays[i].active - k ELSE 0
    BY <2>1
  <2>4. relays'[i] = [relays[i] EXCEPT !.active = n]
    BY <2>2, <2>3 DEF Closing
  <2>5. relays'[i] \in RelayRecords /\ relays'[i].id = relays[i].id /\ relays'[i].active = n
    BY <2>1, <2>4 DEF RelayRecords
  <2> QED BY <2>2, <2>3, <2>5
<1>5. DOMAIN relays' = DOMAIN relays /\ relays' \in Seq(RelayRecords)
  <2>1. DOMAIN relays' = DOMAIN relays
    BY DEF Closing
  <2>2. relays' = [i \in 1 .. Len(relays) |-> relays'[i]]
    BY <1>2 DEF Closing
  <2>3. relays' \in [1 .. Len(relays) -> RelayRecords]
    BY <1>2, <1>4, <2>2
  <2> QED BY <1>2, <2>1, <2>3
<1>6. RelaysTyped'
  <2>1. IsFiniteSet(circuits') /\ circuits' \subseteq Circuits
    BY <1>1, FS_Subset DEF RelaysTyped
  <2> QED BY <1>1, <1>5, <2>1 DEF RelaysTyped
<1>7. IdsAreUnique'
  BY <1>1, <1>4, <1>5, ZenonT(30) DEF IdsAreUnique
<1>8. CircuitsHaveRelays'
  BY <1>1, <1>4, <1>5 DEF CircuitsHaveRelays
<1>9. ASSUME NEW i \in DOMAIN relays' PROVE Counted(i)'
  <2>1. i \in DOMAIN relays /\ Counted(i) /\ reported' = reported
    BY <1>5 DEF RelayInv
  <2>2. PICK id : id = relays[i].id
    OBVIOUS
  <2>3. /\ Cardinality(Ends(id)) \in Nat /\ Cardinality(Through(id)) \in Nat
        /\ Cardinality(Ends(id)) <= Cardinality(Through(id))
        /\ Cardinality(Through(id)') = Cardinality(Through(id)) - Cardinality(Ends(id))
    BY <1>1, <1>3, ThroughFacts
  <2>4. relays'[i].id = id /\ Capacity[id] \in Nat
    BY <1>1, <1>4, <2>1, <2>2, NodeFacts
  <2>5. relays'[i].active = IF relays[i].active > Cardinality(Ends(id))
                            THEN relays[i].active - Cardinality(Ends(id)) ELSE 0
    BY <1>4, <2>1, <2>2
  <2>6. id \notin reported => /\ relays[i].active = Cardinality(Through(id))
                              /\ Cardinality(Through(id)) <= Capacity[id]
    BY <2>1, <2>2 DEF Counted
  <2>7. Through(relays[i].id)' = Through(id)'
    BY <2>4 DEF Through
  <2> HIDE DEF Ends
  <2> QED BY <2>1, <2>3, <2>4, <2>5, <2>6, <2>7 DEF Counted
<1> QED BY <1>6, <1>7, <1>8, <1>9 DEF RelayInv

LEMMA RelaySteps == RelayInv /\ [RelayNext]_relayVars => RelayInv'
<1> SUFFICES ASSUME RelayInv, [RelayNext]_relayVars PROVE RelayInv'
  OBVIOUS
<1>1. RelaysTyped /\ relays \in Seq(RelayRecords)
  BY DEF RelayInv, RelaysTyped
<1>2. ASSUME NEW i \in DOMAIN relays, NEW latency \in {1, 6}, Heartbeat(i, latency) PROVE RelayInv'
  <2>1. relays[i] \in RelayRecords
    BY <1>1, NodeFacts
  <2> DEFINE a == [relays[i] EXCEPT !.measured = TRUE]
             b == [a EXCEPT !.latency = latency]
             r == [b EXCEPT !.verified = TRUE]
  <2>2. a \in RelayRecords /\ a.id = relays[i].id /\ a.active = relays[i].active
    BY <2>1 DEF RelayRecords
  <2>3. b \in RelayRecords /\ b.id = relays[i].id /\ b.active = relays[i].active
    <3> HIDE DEF a
    <3> QED BY <2>2 DEF RelayRecords
  <2>4. r \in RelayRecords /\ r.id = relays[i].id /\ r.active = relays[i].active
    <3> HIDE DEF b
    <3> QED BY <2>3 DEF RelayRecords
  <2>5. relays' = [relays EXCEPT ![i] = r]
    BY <1>2 DEF Heartbeat
  <2> HIDE DEF r
  <2>6. /\ relays' \in Seq(RelayRecords) /\ DOMAIN relays' = DOMAIN relays
        /\ \A j \in DOMAIN relays : relays'[j] = IF j = i THEN r ELSE relays[j]
    BY <1>1, <2>4, <2>5
  <2>7. UNCHANGED <<circuits, nextCircuit, reported>>
    BY <1>2 DEF Heartbeat
  <2> QED BY <2>4, <2>6, <2>7, EntryChanges
<1>3. ASSUME NEW i \in DOMAIN relays, NEW n \in 0 .. Capacity[relays[i].id], StatusReport(i, n)
      PROVE  RelayInv'
  <2>1. relays[i] \in RelayRecords /\ n \in Nat
    BY <1>1, NodeFacts
  <2>2. PICK r \in RelayRecords : r = [relays[i] EXCEPT !.active = n] /\ r.id = relays[i].id
    <3>1. [relays[i] EXCEPT !.active = n] \in RelayRecords
      BY <2>1 DEF RelayRecords
    <3>2. [relays[i] EXCEPT !.active = n].id = relays[i].id
      BY <2>1 DEF RelayRecords
    <3> QED BY <3>1, <3>2
  <2>3. relays' = [relays EXCEPT ![i] = r]
    BY <1>3, <2>2 DEF StatusReport
  <2>4. /\ relays' \in Seq(RelayRecords) /\ DOMAIN relays' = DOMAIN relays
        /\ \A j \in DOMAIN relays : relays'[j] = IF j = i THEN r ELSE relays[j]
    BY <1>1, <2>2, <2>3
  <2>5. UNCHANGED <<circuits, nextCircuit>> /\ reported' = reported \cup {relays[i].id}
    BY <1>3 DEF StatusReport
  <2> QED BY <2>2, <2>4, <2>5, EntryChanges
<1>4. ASSUME NEW c \in circuits, CloseCircuit(c) PROVE RelayInv'
  <2>1. {c} \in SUBSET circuits
    OBVIOUS
  <2> QED BY <1>4, <2>1, CircuitsEnd DEF CloseCircuit
<1>5. CASE Cleanup
  <2>1. {c \in circuits : c.idle >= IdleAge} \in SUBSET circuits
    OBVIOUS
  <2> QED BY <1>5, <2>1, CircuitsEnd DEF Cleanup
<1>6. UNCHANGED <<relays, circuits, nextCircuit, reported>> => RelayInv'
  BY DEF RelayInv, RelaysTyped, IdsAreUnique, CircuitsHaveRelays, Counted, Through
<1>7. ASSUME NEW p \in Remotes, StartHolePunch(p) PROVE RelayInv'
  BY <1>6, <1>7 DEF StartHolePunch
<1>8. ASSUME NEW a \in punches, NEW s \in {"Punching", "Succeeded", "Failed"}, PunchMoves(a, s)
      PROVE  RelayInv'
  BY <1>6, <1>8 DEF PunchMoves
<1>9. CASE UNCHANGED relayVars
  BY <1>6, <1>9 DEF relayVars
<1>10. ASSUME NEW p \in Remotes, NEW r \in {Region[id] : id \in RelayIds}, CreateCircuit(p, r)
       PROVE  RelayInv'
  BY <1>10, CircuitOpens
<1> QED
  BY <1>2, <1>3, <1>4, <1>5, <1>7, <1>8, <1>9, <1>10, RelayJoins, ActivityCounts, TickCounts
  DEF RelayNext

(* A relay of which no status report has come counts exactly the circuits   *)
(* through it and holds no more than it takes (create_circuit,              *)
(* close_circuit, cleanup).                                                 *)
THEOREM RelaysHold == RelaySpec => []RelaysCountCircuits
<1>1. RelayInit => RelayInv
  <2> SUFFICES ASSUME RelayInit PROVE RelayInv
    OBVIOUS
  <2>1. relays = <<>> /\ circuits = {} /\ nextCircuit = 1 /\ DOMAIN relays = {}
    BY DEF RelayInit
  <2>2. relays \in Seq(RelayRecords) /\ IsFiniteSet(circuits)
    BY <2>1, FS_EmptySet
  <2> QED BY <2>1, <2>2 DEF RelayInv, RelaysTyped, IdsAreUnique, CircuitsHaveRelays
<1>2. RelayInv /\ [RelayNext]_relayVars => RelayInv'
  BY RelaySteps
<1>3. RelayInv => RelaysCountCircuits
  BY DEF RelayInv, RelaysCountCircuits, Counted, Through
<1> QED BY <1>1, <1>2, <1>3, PTL DEF RelaySpec
-----------------------------------------------------------------------------
(* Neighbours.  What a host knows of another is no older than the other's   *)
(* last announcement, or the one before if it missed one; and a host that   *)
(* was heard announces again within an interval and its longest delay.      *)
Subscriptions == [on : BOOLEAN, since : Nat, peers : [Hosts -> Nat]]

LanTyped ==
    /\ lpd \in [Hosts -> [InfoHashes -> Subscriptions]]
    /\ missed \in [Hosts -> [InfoHashes -> [Hosts -> 0 .. 2]]]
    /\ late \in [Hosts -> [InfoHashes -> Nat]]

(* What g knows of h: nothing is promised before g heard h, nor after it    *)
(* missed two announcements in a row, nor once the delays are too long.     *)
Hears(g, h, x) ==
    /\ ~lpd[g][x].on \/ ~lpd[h][x].on => missed[h][x][g] = 2
    /\ missed[h][x][g] # 2 => lpd[h][x].since <= LongestInterval(h, x)
    /\ missed[h][x][g] = 0 /\ LongestInterval(h, x) <= StaleTimeout
          => lpd[g][x].peers[h] <= lpd[h][x].since
    /\ missed[h][x][g] = 1 /\ 2 * LongestInterval(h, x) <= StaleTimeout
          => lpd[g][x].peers[h] <= lpd[h][x].since + LongestInterval(h, x)

LanInv == LanTyped /\ \A g, h \in Hosts, x \in InfoHashes : Hears(g, h, x)

LEMMA LanNumbers ==
    /\ AnnounceInterval \in Nat /\ StaleTimeout \in Nat /\ MaxLpdPeers \in Nat
    /\ AnnounceInterval <= StaleTimeout
    /\ IsFiniteSet(Hosts) /\ Cardinality(Hosts) \in Nat
BY LanAssumption, FS_CardinalityType

LEMMA SubscriptionFacts ==
    ASSUME LanTyped, NEW h \in Hosts, NEW x \in InfoHashes
    PROVE  /\ lpd[h][x] \in Subscriptions /\ lpd[h][x].on \in BOOLEAN /\ lpd[h][x].since \in Nat
           /\ lpd[h][x].peers \in [Hosts -> Nat]
           /\ \A g \in Hosts : lpd[h][x].peers[g] \in Nat
           /\ \A g \in Hosts : missed[h][x][g] \in 0 .. 2
           /\ late[h][x] \in Nat /\ LongestInterval(h, x) \in Nat
BY LanNumbers DEF LanTyped, Subscriptions, LongestInterval

LEMMA SubscribeHears ==
    ASSUME LanInv, NEW h \in Hosts, NEW x \in InfoHashes, Subscribe(h, x)
    PROVE  LanInv'
<1>1. LanTyped /\ missed' = missed /\ late' = late /\ ~lpd[h][x].on
  BY DEF LanInv, Subscribe
<1>2. PICK s \in Subscriptions : /\ s = [lpd[h][x] EXCEPT !.on = TRUE] /\ s.on = TRUE
                                 /\ s.since = lpd[h][x].since /\ s.peers = lpd[h][x].peers
  <2>1. lpd[h][x] \in Subscriptions
    BY <1>1, SubscriptionFacts
  <2>2. [lpd[h][x] EXCEPT !.on = TRUE] \in Subscriptions
    BY <2>1 DEF Subscriptions
  <2>3. /\ [lpd[h][x] EXCEPT !.on = TRUE].on = TRUE
        /\ [lpd[h][x] EXCEPT !.on = TRUE].since = lpd[h][x].since
        /\ [lpd[h][x] EXCEPT !.on = TRUE].peers = lpd[h][x].peers
    BY <2>1 DEF Subscriptions
  <2> QED BY <2>2, <2>3
<1>3. lpd' = [lpd EXCEPT ![h][x] = s]
  BY <1>2 DEF Subscribe
<1>4. /\ lpd' \in [Hosts -> [InfoHashes -> Subscriptions]]
      /\ \A g \in Hosts, y \in InfoHashes :
            lpd'[g][y] = IF g = h /\ y = x THEN s ELSE lpd[g][y]
  BY <1>1, <1>3 DEF LanTyped
<1>5. \A g \in Hosts, y \in InfoHashes : /\ lpd'[g][y].since = lpd[g][y].since
                                         /\ lpd'[g][y].peers = lpd[g][y].peers
                                         /\ lpd[g][y].on => lpd'[g][y].on
  BY <1>2, <1>4
<1>6. ASSUME NEW f \in Hosts, NEW g \in Hosts, NEW y \in InfoHashes PROVE Hears(f, g, y)'
  BY <1>1, <1>5 DEF LanInv, Hears, LongestInterval
<1> QED BY <1>1, <1>4, <1>5, <1>6 DEF LanInv, LanTyped

LEMMA UnsubscribeHears ==
    ASSUME LanInv, NEW h \in Hosts, NEW x \in InfoHashes, Unsubscribe(h, x)
    PROVE  LanInv'
<1>1. LanTyped
  BY DEF LanInv
<1>2. NotSubscribed \in Subscriptions
  <2>1. [g \in Hosts |-> Unknown] \in [Hosts -> Nat]
    BY LanNumbers DEF Unknown
  <2> QED BY <2>1, LanNumbers DEF NotSubscribed, Subscriptions, Never
<1>3. /\ lpd' \in [Hosts -> [InfoHashes -> Subscriptions]]
      /\ \A g \in Hosts, y \in InfoHashes :
            lpd'[g][y] = IF g = h /\ y = x THEN NotSubscribed ELSE lpd[g][y]
  BY <1>1, <1>2 DEF Unsubscribe, LanTyped
<1>4. /\ missed' \in [Hosts -> [InfoHashes -> [Hosts -> 0 .. 2]]]
      /\ \A i, g \in Hosts, y \in InfoHashes :
            missed'[i][y][g] = IF y = x /\ h \in {i, g} THEN 2 ELSE missed[i][y][g]
  <2>1. ASSUME NEW i \in Hosts
        PROVE  /\ missed'[i] \in [InfoHashes -> [Hosts -> 0 .. 2]]
               /\ \A g \in Hosts, y \in InfoHashes :
                     missed'[i][y][g] = IF y = x /\ h \in {i, g} THEN 2 ELSE missed[i][y][g]
    <3>1. missed[i] \in [InfoHashes -> [Hosts -> 0 .. 2]]
      BY <1>1 DEF LanTyped
    <3>2. missed'[i] = [missed[i] EXCEPT ![x] =
                          [g \in Hosts |-> IF h \in {i, g} THEN 2 ELSE missed[i][x][g]]]
      BY <3>1 DEF Unsubscribe
    <3>3. [g \in Hosts |-> IF h \in {i, g} THEN 2 ELSE missed[i][x][g]] \in [Hosts -> 0 .. 2]
      BY <3>1
    <3> QED BY <3>1, <3>2, <3>3
  <2>2. missed' = [i \in Hosts |-> missed'[i]]
    BY DEF Unsubscribe
  <2> QED BY <2>1, <2>2
<1>5. ASSUME NEW f \in Hosts, NEW g \in Hosts, NEW y \in InfoHashes PROVE Hears(f, g, y)'
  <2>1. CASE y = x /\ h \in {g, f}
    <3>1. missed'[g][y][f] = 2
      BY <1>4, <2>1
    <3> QED BY <3>1 DEF Hears
  <2>2. CASE ~(y = x /\ h \in {g, f})
    <3>1. /\ missed'[g][y][f] = missed[g][y][f] /\ late'[g][y] = late[g][y]
          /\ lpd'[f][y] = lpd[f][y] /\ lpd'[g][y] = lpd[g][y]
      BY <1>1, <1>3, <1>4, <2>2 DEF Unsubscribe, LanTyped
    <3>2. Hears(f, g, y)
      BY DEF LanInv
    <3> QED BY <3>1, <3>2 DEF Hears, LongestInterval
  <2> QED BY <2>1, <2>2
<1>6. late' \in [Hosts -> [InfoHashes -> Nat]]
  BY <1>1 DEF Unsubscribe, LanTyped
<1> QED BY <1>3, <1>4, <1>5, <1>6 DEF LanInv, LanTyped

LEMMA PruneHears ==
    ASSUME LanInv, NEW h \in Hosts, PruneStalePeers(h)
    PROVE  LanInv'
<1>1. LanTyped /\ missed' = missed /\ late' = late
  BY DEF LanInv, PruneStalePeers
<1>2. ASSUME NEW x \in InfoHashes
      PROVE  /\ lpd'[h][x] \in Subscriptions
             /\ lpd'[h][x].on = lpd[h][x].on /\ lpd'[h][x].since = lpd[h][x].since
             /\ \A g \in Hosts : lpd[h][x].peers[g] <= StaleTimeout
                                    => lpd'[h][x].peers[g] = lpd[h][x].peers[g]
  <2>1. lpd[h][x] \in Subscriptions /\ \A g \in Hosts : lpd[h][x].peers[g] \in Nat
    BY <1>1, SubscriptionFacts
  <2>2. PICK k \in [Hosts -> Nat] :
           k = [g \in Hosts |-> IF IsStale(lpd[h][x].peers[g]) THEN Unknown ELSE lpd[h][x].peers[g]]
    <3>1. Unknown \in Nat
      BY LanNumbers DEF Unknown
    <3>2. \A g \in Hosts : (IF IsStale(lpd[h][x].peers[g]) THEN Unknown ELSE lpd[h][x].peers[g]) \in Nat
      BY <2>1, <3>1
    <3> QED BY <3>2
  <2>3. lpd'[h][x] = [lpd[h][x] EXCEPT !.peers = k]
    <3>1. lpd'[h][x] = Pruned(lpd[h][x])
      BY <1>1 DEF PruneStalePeers, LanTyped
    <3>2. Pruned(lpd[h][x]) = [lpd[h][x] EXCEPT !.peers = [g \in Hosts |->
                           IF IsStale(lpd[h][x].peers[g]) THEN Unknown ELSE lpd[h][x].peers[g]]]
      BY Zenon DEF Pruned
    <3>3. lpd'[h][x] = [lpd[h][x] EXCEPT !.peers = [g \in Hosts |->
                           IF IsStale(lpd[h][x].peers[g]) THEN Unknown ELSE lpd[h][x].peers[g]]]
      BY <3>1, <3>2, Zenon
    <3> QED BY <2>2, <3>3, Zenon
  <2>4. /\ lpd'[h][x] \in Subscriptions /\ lpd'[h][x].peers = k
        /\ lpd'[h][x].on = lpd[h][x].on /\ lpd'[h][x].since = lpd[h][x].since
    BY <2>1, <2>3 DEF Subscriptions
  <2> QED BY <2>1, <2>2, <2>4, LanNumbers DEF IsStale
<1>3. lpd' \in [Hosts -> [InfoHashes -> Subscriptions]] /\ \A g \in Hosts \ {h} : lpd'[g] = lpd[g]
  <2>1. lpd'[h] = [x \in InfoHashes |-> lpd'[h][x]]
    BY <1>1 DEF PruneStalePeers, LanTyped
  <2>2. lpd'[h] \in [InfoHashes -> Subscriptions]
    BY <1>2, <2>1
  <2>3. lpd' = [lpd EXCEPT ![h] = lpd'[h]]
    BY <1>1 DEF PruneStalePeers, LanTyped
  <2> QED BY <1>1, <2>2, <2>3 DEF LanTyped
<1>4. ASSUME NEW f \in Hosts, NEW g \in Hosts, NEW y \in InfoHashes PROVE Hears(f, g, y)'
  <2> DEFINE interval == LongestInterval(g, y)
  <2>1. /\ lpd[g][y].since \in Nat /\ lpd[f][y].peers[g] \in Nat /\ interval \in Nat
        /\ interval' = interval /\ Hears(f, g, y)
    BY <1>1, SubscriptionFacts DEF LanInv, LongestInterval
  <2>2. lpd'[g][y].since = lpd[g][y].since /\ lpd'[g][y].on = lpd[g][y].on
        /\ lpd'[f][y].on = lpd[f][y].on
    BY <1>2, <1>3
  <2>3. lpd[f][y].peers[g] <= StaleTimeout => lpd'[f][y].peers[g] = lpd[f][y].peers[g]
    BY <1>2, <1>3
  <2>4. \/ missed[g][y][f] = 0 /\ interval <= StaleTimeout
        \/ missed[g][y][f] = 1 /\ 2 * interval <= StaleTimeout
        => lpd'[f][y].peers[g] = lpd[f][y].peers[g]
    BY <2>1, <2>3, LanNumbers DEF Hears
  <2> QED BY <1>1, <2>1, <2>2, <2>4 DEF Hears
<1> QED BY <1>1, <1>3, <1>4 DEF LanInv, LanTyped

(* What is heard is remembered while the list has room for every host.      *)
LEMMA HandlesFacts ==
    ASSUME LanTyped, NEW g \in Hosts, NEW h \in Hosts, NEW x \in InfoHashes
    PROVE  LET s == Handles(g, x, h) IN
           /\ s \in Subscriptions /\ s.on = lpd[g][x].on /\ s.since = lpd[g][x].since
           /\ \A f \in Hosts : f # h => s.peers[f] = lpd[g][x].peers[f]
           /\ s.peers[h] = 0 \/ s.peers[h] = lpd[g][x].peers[h]
           /\ MaxLpdPeers >= Cardinality(Hosts) /\ lpd[g][x].on => s.peers[h] = 0
<1>1. lpd[g][x] \in Subscriptions /\ lpd[g][x].peers \in [Hosts -> Nat]
  BY SubscriptionFacts
<1>2. PICK k \in [Hosts -> Nat] : k = [lpd[g][x].peers EXCEPT ![h] = 0]
  BY <1>1
<1>3. /\ [lpd[g][x] EXCEPT !.peers = k] \in Subscriptions
      /\ [lpd[g][x] EXCEPT !.peers = k].on = lpd[g][x].on
      /\ [lpd[g][x] EXCEPT !.peers = k].since = lpd[g][x].since
      /\ [lpd[g][x] EXCEPT !.peers = k].peers = k
  BY <1>1 DEF Subscriptions
<1>4. h \in Known(g, x) \/ Cardinality(Known(g, x)) < Cardinality(Hosts)
  <2>1. Known(g, x) \subseteq Hosts
    BY DEF Known
  <2>2. IsFiniteSet(Known(g, x)) /\ Cardinality(Known(g, x)) <= Cardinality(Hosts)
        /\ (Cardinality(Known(g, x)) = Cardinality(Hosts) => Known(g, x) = Hosts)
    BY <2>1, LanNumbers, FS_Subset
  <2>3. Cardinality(Known(g, x)) \in Nat
    BY <2>2, FS_CardinalityType
  <2> QED BY <2>2, <2>3, LanNumbers
<1>5. CASE lpd[g][x].on /\ (h \in Known(g, x) \/ Cardinality(Known(g, x)) < MaxLpdPeers)
  <2>1. Handles(g, x, h) = [lpd[g][x] EXCEPT !.peers = k]
    BY <1>2, <1>5 DEF Handles
  <2> QED BY <1>1, <1>2, <1>3, <2>1
<1>6. CASE ~(lpd[g][x].on /\ (h \in Known(g, x) \/ Cardinality(Known(g, x)) < MaxLpdPeers))
  <2>1. Handles(g, x, h) = lpd[g][x]
    BY <1>6 DEF Handles
  <2>2. ~(MaxLpdPeers >= Cardinality(Hosts) /\ lpd[g][x].on)
    <3>1. IsFiniteSet(Known(g, x)) /\ Cardinality(Known(g, x)) \in Nat
      BY LanNumbers, FS_Subset, FS_CardinalityType DEF Known
    <3> QED BY <1>4, <1>6, <3>1, LanNumbers
  <2> QED BY <1>1, <2>1, <2>2
<1> QED BY <1>5, <1>6

LEMMA AnnounceHears ==
    ASSUME LanInv, MaxLpdPeers >= Cardinality(Hosts),
           NEW h \in Hosts, NEW x \in InfoHashes, NEW hearers \in SUBSET Hosts,
           Announce(h, x, hearers)
    PROVE  LanInv'
<1>1. LanTyped /\ lpd[h][x].on /\ late' = late
  BY DEF LanInv, Announce, IsPending
<1>2. /\ missed' \in [Hosts -> [InfoHashes -> [Hosts -> 0 .. 2]]]
      /\ \A i, g \in Hosts, y \in InfoHashes :
            missed'[i][y][g] = IF i = h /\ y = x
                               THEN IF g \in hearers /\ lpd[g][x].on THEN 0
                                    ELSE IF missed[h][x][g] < 2 THEN missed[h][x][g] + 1 ELSE 2
                               ELSE missed[i][y][g]
  <2>1. PICK m \in [Hosts -> 0 .. 2] :
           m = [g \in Hosts |-> IF g \in hearers /\ lpd[g][x].on THEN 0
                                ELSE IF missed[h][x][g] < 2 THEN missed[h][x][g] + 1 ELSE 2]
    <3>1. \A g \in Hosts : (IF g \in hearers /\ lpd[g][x].on THEN 0
                            ELSE IF missed[h][x][g] < 2 THEN missed[h][x][g] + 1 ELSE 2) \in 0 .. 2
      BY <1>1, SubscriptionFacts
    <3> QED BY <3>1
  <2>2. missed' = [missed EXCEPT ![h][x] = m]
    BY <1>1, <2>1 DEF Announce, LanTyped
  <2>3. missed \in [Hosts -> [InfoHashes -> [Hosts -> 0 .. 2]]]
    BY <1>1 DEF LanTyped
  <2>4. /\ missed' \in [Hosts -> [InfoHashes -> [Hosts -> 0 .. 2]]]
        /\ \A i \in Hosts, y \in InfoHashes :
              missed'[i][y] = IF i = h /\ y = x THEN m ELSE missed[i][y]
    BY <2>2, <2>3
  <2>5. ASSUME NEW i \in Hosts, NEW g \in Hosts, NEW y \in InfoHashes
        PROVE  missed'[i][y][g] = IF i = h /\ y = x
                                  THEN IF g \in hearers /\ lpd[g][x].on THEN 0
                                       ELSE IF missed[h][x][g] < 2 THEN missed[h][x][g] + 1 ELSE 2
                                  ELSE missed[i][y][g]
    <3>1. m[g] = IF g \in hearers /\ lpd[g][x].on THEN 0
                 ELSE IF missed[h][x][g] < 2 THEN missed[h][x][g] + 1 ELSE 2
      BY <2>1
    <3>2. missed'[i][y] = IF i = h /\ y = x THEN m ELSE missed[i][y]
      BY <2>4
    <3> QED BY <3>1, <3>2
  <2> QED BY <2>4, <2>5
<1>3. ASSUME NEW g \in Hosts
      PROVE  /\ lpd'[g] \in [InfoHashes -> Subscriptions]
             /\ \A y \in InfoHashes \ {x} : lpd'[g][y] = lpd[g][y]
             /\ lpd'[g][x].on = lpd[g][x].on
             /\ lpd'[g][x].since = IF g = h THEN 0 ELSE lpd[g][x].since
             /\ \A f \in Hosts : f # h => lpd'[g][x].peers[f] = lpd[g][x].peers[f]
             /\ lpd'[g][x].peers[h] = 0
                \/ (lpd'[g][x].peers[h] = lpd[g][x].peers[h] /\ ~(g \in hearers /\ lpd[g][x].on))
  <2>1. lpd[g] \in [InfoHashes -> Subscriptions] /\ lpd[g][x] \in Subscriptions
    BY <1>1 DEF LanTyped
  <2>2. PICK s \in Subscriptions :
           /\ s = IF g \in hearers THEN Handles(g, x, h) ELSE lpd[g][x]
           /\ s.on = lpd[g][x].on /\ s.since = lpd[g][x].since
           /\ \A f \in Hosts : f # h => s.peers[f] = lpd[g][x].peers[f]
           /\ s.peers[h] = 0
              \/ (s.peers[h] = lpd[g][x].peers[h] /\ ~(g \in hearers /\ lpd[g][x].on))
    <3>1. /\ Handles(g, x, h) \in Subscriptions /\ Handles(g, x, h).on = lpd[g][x].on
          /\ Handles(g, x, h).since = lpd[g][x].since
          /\ \A f \in Hosts : f # h => Handles(g, x, h).peers[f] = lpd[g][x].peers[f]
          /\ \/ Handles(g, x, h).peers[h] = 0
             \/ (Handles(g, x, h).peers[h] = lpd[g][x].peers[h] /\ ~lpd[g][x].on)
      BY <1>1, HandlesFacts
    <3>2. CASE g \in hearers
      <4>1. PICK t : t = Handles(g, x, h)
        OBVIOUS
      <4>2. t \in Subscriptions /\ t.on = lpd[g][x].on /\ t.since = lpd[g][x].since
        BY <3>1, <4>1
      <4>3. \A f \in Hosts : f # h => t.peers[f] = lpd[g][x].peers[f]
        BY <3>1, <4>1
      <4>4. t.peers[h] = 0 \/ (t.peers[h] = lpd[g][x].peers[h] /\ ~lpd[g][x].on)
        BY <3>1, <4>1
      <4>5. t = IF g \in hearers THEN Handles(g, x, h) ELSE lpd[g][x]
        BY <3>2, <4>1
      <4> QED BY <4>2, <4>3, <4>4, <4>5
    <3>3. CASE g \notin hearers
      BY <2>1, <3>3
    <3> QED BY <3>2, <3>3
  <2>3. PICK a \in [InfoHashes -> Subscriptions] : a = [lpd[g] EXCEPT ![x] = s]
    BY <2>1
  <2>4. a = IF g \in hearers THEN [lpd[g] EXCEPT ![x] = Handles(g, x, h)] ELSE lpd[g]
    BY <2>1, <2>2, <2>3
  <2>5. lpd'[g] = IF g = h THEN [a EXCEPT ![x].since = 0] ELSE a
    BY <2>4 DEF Announce
  <2>6. a[x] = s /\ \A y \in InfoHashes \ {x} : a[y] = lpd[g][y]
    BY <2>1, <2>3
  <2>7. CASE g = h
    <3>1. PICK r \in Subscriptions : r = [s EXCEPT !.since = 0] /\ r.on = s.on /\ r.since = 0
                                     /\ r.peers = s.peers
      <4>1. [s EXCEPT !.since = 0] \in Subscriptions
        BY <2>2 DEF Subscriptions
      <4>2. /\ [s EXCEPT !.since = 0].on = s.on /\ [s EXCEPT !.since = 0].since = 0
            /\ [s EXCEPT !.since = 0].peers = s.peers
        BY <2>2 DEF Subscriptions
      <4> QED BY <4>1, <4>2
    <3>2. lpd'[g] = [a EXCEPT ![x] = r]
      BY <2>3, <2>5, <2>6, <2>7, <3>1
    <3>3. /\ lpd'[g] \in [InfoHashes -> Subscriptions] /\ lpd'[g][x] = r
          /\ \A y \in InfoHashes \ {x} : lpd'[g][y] = lpd[g][y]
      BY <2>3, <2>6, <3>1, <3>2
    <3> QED BY <2>2, <2>7, <3>1, <3>3
  <2>8. CASE g # h
    BY <2>2, <2>3, <2>5, <2>6, <2>8
  <2> QED BY <2>7, <2>8
<1>4. lpd' \in [Hosts -> [InfoHashes -> Subscriptions]]
  <2>1. lpd' = [g \in Hosts |-> lpd'[g]]
    BY DEF Announce
  <2> QED BY <1>3, <2>1
<1>5. ASSUME NEW g \in Hosts, NEW f \in Hosts, NEW y \in InfoHashes PROVE Hears(g, f, y)'
  <2>1. Hears(g, f, y) /\ lpd'[g][y].on = lpd[g][y].on /\ lpd'[f][y].on = lpd[f][y].on
    <3>1. CASE y = x
      BY <1>3, <3>1 DEF LanInv
    <3>2. CASE y # x
      BY <1>3, <3>2 DEF LanInv
    <3> QED BY <3>1, <3>2
  <2>2. CASE ~(f = h /\ y = x)
    <3>1. missed'[f][y][g] = missed[f][y][g]
      BY <1>2, <2>2
    <3>2. lpd'[f][y].since = lpd[f][y].since /\ lpd'[g][y].peers[f] = lpd[g][y].peers[f]
      <4>1. CASE y = x
        BY <1>3, <2>2, <4>1
      <4>2. CASE y # x
        BY <1>3, <4>2
      <4> QED BY <4>1, <4>2
    <3> QED BY <1>1, <2>1, <3>1, <3>2 DEF Hears, LongestInterval
  <2>3. CASE f = h /\ y = x
    <3>1. /\ missed[h][x][g] \in 0 .. 2 /\ lpd[g][x].peers[h] \in Nat
          /\ missed'[h][x][g] = IF g \in hearers /\ lpd[g][x].on THEN 0
                                ELSE IF missed[h][x][g] < 2 THEN missed[h][x][g] + 1 ELSE 2
      BY <1>1, <1>2, SubscriptionFacts
    <3>2. lpd'[h][x].since = 0
      BY <1>3
    <3>3. lpd'[g][x].peers[h] = 0
          \/ (lpd'[g][x].peers[h] = lpd[g][x].peers[h] /\ ~(g \in hearers /\ lpd[g][x].on))
      BY <1>3
    <3>4. /\ Hears(g, h, x) /\ lpd[h][x].since \in Nat
          /\ LongestInterval(h, x) \in Nat /\ LongestInterval(h, x)' = LongestInterval(h, x)
      BY <1>1, <2>1, <2>3, SubscriptionFacts DEF LongestInterval
    <3> QED BY <1>1, <2>1, <2>3, <3>1, <3>2, <3>3, <3>4, LanNumbers DEF Hears
  <2> QED BY <2>2, <2>3
<1> QED BY <1>1, <1>2, <1>4, <1>5 DEF LanInv, LanTyped

LEMMA TickHears == LanInv /\ LanTick => LanInv'
<1> SUFFICES ASSUME LanInv, LanTick PROVE LanInv'
  OBVIOUS
<1>1. LanTyped /\ missed' = missed
  BY DEF LanInv, LanTick
<1>2. ASSUME NEW h \in Hosts, NEW x \in InfoHashes
      PROVE  /\ lpd'[h][x] \in Subscriptions /\ lpd'[h][x].on = lpd[h][x].on
             /\ lpd'[h][x].since = IF lpd[h][x].since < Never THEN lpd[h][x].since + 1
                                   ELSE lpd[h][x].since
             /\ \A g \in Hosts : lpd'[h][x].peers[g] <= lpd[h][x].peers[g] + 1
  <2>1. /\ lpd[h][x] \in Subscriptions /\ lpd[h][x].since \in Nat
        /\ \A g \in Hosts : lpd[h][x].peers[g] \in Nat
    BY <1>1, SubscriptionFacts
  <2>2. PICK n \in Nat : n = IF lpd[h][x].since < Never THEN lpd[h][x].since + 1
                             ELSE lpd[h][x].since
    BY <2>1
  <2>3. PICK k \in [Hosts -> Nat] :
           k = [g \in Hosts |-> IF lpd[h][x].peers[g] <= StaleTimeout
                                THEN lpd[h][x].peers[g] + 1 ELSE lpd[h][x].peers[g]]
    <3>1. \A g \in Hosts : (IF lpd[h][x].peers[g] <= StaleTimeout
                            THEN lpd[h][x].peers[g] + 1 ELSE lpd[h][x].peers[g]) \in Nat
      BY <2>1
    <3> QED BY <3>1
  <2>4. lpd'[h][x] = [lpd[h][x] EXCEPT !.since = n, !.peers = k]
    <3>1. lpd'[h][x] = Aged(lpd[h][x])
      BY DEF LanTick
    <3> QED BY <2>2, <2>3, <3>1, Zenon DEF Aged
  <2> DEFINE a == [lpd[h][x] EXCEPT !.since = n]
  <2>5. a \in Subscriptions /\ a.on = lpd[h][x].on /\ a.since = n
    BY <2>1 DEF Subscriptions
  <2>6. lpd'[h][x] = [a EXCEPT !.peers = k]
    BY <2>4
  <2> HIDE DEF a
  <2>7. /\ lpd'[h][x] \in Subscriptions /\ lpd'[h][x].on = a.on /\ lpd'[h][x].since = a.since
        /\ lpd'[h][x].peers = k
    BY <2>5, <2>6 DEF Subscriptions
  <2> QED BY <2>1, <2>2, <2>3, <2>5, <2>7, LanNumbers
<1>3. lpd' \in [Hosts -> [InfoHashes -> Subscriptions]]
  <2>1. ASSUME NEW h \in Hosts PROVE lpd'[h] \in [InfoHashes -> Subscriptions]
    <3>1. lpd'[h] = [x \in InfoHashes |-> lpd'[h][x]]
      BY DEF LanTick
    <3> QED BY <1>2, <3>1
  <2>2. lpd' = [h \in Hosts |-> lpd'[h]]
    BY DEF LanTick
  <2> QED BY <2>1, <2>2
<1>4. ASSUME NEW h \in Hosts, NEW x \in InfoHashes
      PROVE  /\ late'[h][x] \in Nat /\ late'[h][x] >= late[h][x]
             /\ lpd[h][x].on /\ lpd[h][x].since <= LongestInterval(h, x)
                   => lpd'[h][x].since <= LongestInterval(h, x)'
  <2>1. lpd[h][x].since \in Nat /\ late[h][x] \in Nat
    BY <1>1, SubscriptionFacts
  <2>2. late'[h][x] = LateByNow(h, x)
    BY DEF LanTick
  <2>3. /\ LateByNow(h, x) \in Nat /\ LateByNow(h, x) >= late[h][x]
        /\ IsPending(h, x) /\ lpd[h][x].since # Never
              => LateByNow(h, x) >= lpd[h][x].since + 1 - AnnounceInterval
    BY <2>1, LanNumbers DEF LateByNow
  <2>4. late'[h][x] \in Nat /\ late'[h][x] >= late[h][x]
    BY <2>2, <2>3
  <2>5. LongestInterval(h, x)' = AnnounceInterval + late'[h][x]
    BY DEF LongestInterval
  <2>6. ASSUME lpd[h][x].on, lpd[h][x].since <= LongestInterval(h, x)
        PROVE  lpd'[h][x].since <= LongestInterval(h, x)'
    <3>1. lpd'[h][x].since = IF lpd[h][x].since < Never THEN lpd[h][x].since + 1
                             ELSE lpd[h][x].since
      BY <1>2
    <3>2. lpd[h][x].since <= AnnounceInterval + late[h][x]
      BY <2>6 DEF LongestInterval
    <3>3. CASE lpd[h][x].since < AnnounceInterval
      BY <2>1, <2>4, <2>5, <3>1, <3>3, LanNumbers
    <3>4. CASE lpd[h][x].since >= AnnounceInterval /\ lpd[h][x].since # Never
      <4>1. late'[h][x] >= lpd[h][x].since + 1 - AnnounceInterval
        BY <2>2, <2>3, <2>6, <3>4 DEF IsPending
      <4> QED BY <2>1, <2>4, <2>5, <3>1, <4>1, LanNumbers
    <3>5. CASE lpd[h][x].since = Never
      BY <2>1, <2>4, <2>5, <3>1, <3>2, <3>5, LanNumbers DEF Never
    <3> QED BY <2>1, <3>3, <3>4, <3>5, LanNumbers
  <2> QED BY <2>4, <2>6
<1>5. late' \in [Hosts -> [InfoHashes -> Nat]]
  BY <1>4 DEF LanTick
<1>6. ASSUME NEW g \in Hosts, NEW h \in Hosts, NEW x \in InfoHashes PROVE Hears(g, h, x)'
  <2>1. /\ lpd[g][x].on \in BOOLEAN /\ lpd[h][x].on \in BOOLEAN
        /\ lpd[h][x].since \in Nat /\ lpd[g][x].peers[h] \in Nat
        /\ missed[h][x][g] \in 0 .. 2 /\ Hears(g, h, x)
    BY <1>1, SubscriptionFacts DEF LanInv
  <2>2. lpd'[g][x].peers[h] \in Nat /\ lpd'[g][x].peers[h] <= lpd[g][x].peers[h] + 1
    BY <1>2, <1>3 DEF Subscriptions
  <2>3. /\ lpd'[g][x].on = lpd[g][x].on /\ lpd'[h][x].on = lpd[h][x].on
        /\ lpd'[h][x].since = IF lpd[h][x].since < Never THEN lpd[h][x].since + 1
                              ELSE lpd[h][x].since
    BY <1>2
  <2>4. PICK old \in Nat, new \in Nat :
           old = LongestInterval(h, x) /\ new = LongestInterval(h, x)' /\ old <= new
    BY <1>1, <1>4, SubscriptionFacts, LanNumbers DEF LongestInterval
  <2>5. missed[h][x][g] # 2 => /\ lpd[g][x].on /\ lpd[h][x].on /\ lpd[h][x].since <= old
                               /\ lpd'[h][x].since <= new
    BY <1>4, <2>1, <2>4 DEF Hears
  <2>6. missed[h][x][g] # 2 /\ old <= StaleTimeout => lpd'[h][x].since = lpd[h][x].since + 1
    BY <2>1, <2>3, <2>5, LanNumbers DEF Never
  <2>7. missed[h][x][g] = 0 /\ new <= StaleTimeout => lpd'[g][x].peers[h] <= lpd'[h][x].since
    BY <2>1, <2>2, <2>4, <2>6, LanNumbers DEF Hears
  <2>8. missed[h][x][g] = 1 /\ 2 * new <= StaleTimeout
           => lpd'[g][x].peers[h] <= lpd'[h][x].since + new
    BY <2>1, <2>2, <2>4, <2>6, LanNumbers DEF Hears
  <2> QED BY <1>1, <2>1, <2>3, <2>4, <2>5, <2>7, <2>8 DEF Hears
<1> QED BY <1>1, <1>3, <1>5, <1>6 DEF LanInv, LanTyped

(* A host that has heard another does not forget it for one lost            *)
(* announcement while two intervals of the other, with its longest delay,   *)
(* fit into PEER_STALE_TIMEOUT, nor without a loss while one fits, both     *)
(* staying subscribed and the list having room (handle_announce,            *)
(* mark_announced, prune_stale, is_stale).                                  *)
THEOREM NeighboursHold == LanSpec => []LossesAreForgiven
<1> DEFINE Room == MaxLpdPeers >= Cardinality(Hosts)
<1>1. LanInit => LanInv
  <2> SUFFICES ASSUME LanInit PROVE LanInv
    OBVIOUS
  <2>1. NotSubscribed \in Subscriptions
    <3>1. [g \in Hosts |-> Unknown] \in [Hosts -> Nat]
      BY LanNumbers DEF Unknown
    <3> QED BY <3>1, LanNumbers DEF NotSubscribed, Subscriptions, Never
  <2> QED BY <2>1, LanNumbers DEF LanInit, LanInv, LanTyped, Hears
<1>2. Room /\ LanInv /\ [LanNext]_lanVars => LanInv'
  <2> SUFFICES ASSUME Room, LanInv, [LanNext]_lanVars PROVE LanInv'
    OBVIOUS
  <2>1. CASE UNCHANGED lanVars
    BY <2>1 DEF lanVars, LanInv, LanTyped, Hears, LongestInterval
  <2> QED
    BY <2>1, SubscribeHears, UnsubscribeHears, AnnounceHears, PruneHears, TickHears DEF LanNext
<1>3. LanInv => LossesAreForgiven
  <2> SUFFICES ASSUME LanInv, NEW g \in Hosts, NEW h \in Hosts, NEW x \in InfoHashes,
                      \/ missed[h][x][g] = 0 /\ LongestInterval(h, x) <= StaleTimeout
                      \/ missed[h][x][g] = 1 /\ 2 * LongestInterval(h, x) <= StaleTimeout
               PROVE  h \in Known(g, x)
    BY DEF LossesAreForgiven
  <2>1. /\ lpd[h][x].since \in Nat /\ lpd[g][x].peers[h] \in Nat
        /\ LongestInterval(h, x) \in Nat /\ Hears(g, h, x)
    BY SubscriptionFacts DEF LanInv
  <2>2. lpd[g][x].peers[h] # Unknown
    BY <2>1, LanNumbers DEF Hears, Unknown
  <2> QED BY <2>2 DEF Known
<1>4. CASE Room
  BY <1>1, <1>2, <1>3, <1>4, PTL DEF LanSpec
<1>5. CASE ~Room
  <2>1. LossesAreForgiven
    BY <1>5 DEF LossesAreForgiven
  <2> QED BY <2>1, PTL
<1> QED BY <1>4, <1>5
-----------------------------------------------------------------------------
(* What is passed over is bounded by the way the optimistic slot has come   *)
(* since it last stood at a peer: a whole interval at every place it has    *)
(* left since, and the evaluations at the one where it stands.  A place is  *)
(* counted in the order of rank, behind those that have a slot.             *)
LedgerEntry == [received : Nat, sent : Nat, age : Nat]

ChokingTyped ==
    /\ speed \in [ChokePeers -> Nat] /\ autoScale \in BOOLEAN
    /\ ledger \in [ChokePeers -> LedgerEntry]
    /\ evaluations \in 0 .. Interval - 1 /\ optimistic \in Nat
    /\ passedOver \in [ChokePeers -> Nat]

Choked == PeerCount - Slots

(* How far the slot, at an index, is past a place among the choked.         *)
Past(index, at) ==
    LET now == index % Choked IN IF now >= at THEN now - at ELSE now - at + Choked

MayHaveWaited(distance, count) ==
    IF distance = 0 THEN 0 ELSE (distance - 1) * Interval + count + 1

TurnComes ==
    \A p \in ChokePeers :
        IF Place(Weights, p) <= Slots THEN passedOver[p] = 0
        ELSE passedOver[p] <=
                 MayHaveWaited(Past(optimistic, Place(Weights, p) - Slots - 1), evaluations)

ChokingInv == ChokingTyped /\ TurnComes

(* Arithmetic, of products, quotients and remainders.                       *)
LEMMA Quotients == ASSUME NEW a \in Nat, NEW b \in Nat, NEW c \in Nat \ {0}
                   PROVE  (a * b) \div c \in Nat
<1>1. a * b \in Nat
    OBVIOUS
<1> QED
    BY <1>1

(* The credit of an entry is a quotient of numbers.                         *)
LEMMA CreditsAreNumbers ==
    ASSUME NEW e \in LedgerEntry
    PROVE  CreditWeight(e)[1] \in Nat /\ CreditWeight(e)[2] \in Nat \ {0}
<1>1. e.sent \in Nat /\ e.received \in Nat
    BY DEF LedgerEntry
<1>2. FloorBytes \in Nat \ {0} /\ MaxModifier \in Nat
    BY ChokingAssumption
<1> DEFINE taken == IF e.sent > FloorBytes THEN e.sent ELSE FloorBytes
           given == 2 * e.received
<1>3. taken \in Nat \ {0} /\ given \in Nat
    BY <1>1, <1>2
<1> HIDE DEF taken, given
<1>4. CreditWeight(e) \in {<<1, 1>>, <<MaxModifier, 1>>, <<given, taken>>}
    BY Zenon DEF CreditWeight, taken, given
<1> QED
    BY <1>2, <1>3, <1>4

(* So is a weight.                                                          *)
LEMMA WeightsAreNumbers == ChokingTyped => Weights \in [ChokePeers -> Nat]
<1> SUFFICES ASSUME ChokingTyped, NEW p \in ChokePeers PROVE Weighted(p) \in Nat
    BY DEF Weights
<1>1. speed[p] \in Nat /\ ledger[p] \in LedgerEntry
    BY DEF ChokingTyped
<1>2. CreditWeight(ledger[p])[1] \in Nat /\ CreditWeight(ledger[p])[2] \in Nat \ {0}
    BY <1>1, CreditsAreNumbers
<1> QED
    BY <1>1, <1>2, Quotients, Zenon DEF Weighted

(* The place of a peer is one of as many as there are peers.                *)
LEMMA PlacesAreFew ==
    ASSUME NEW w \in [ChokePeers -> Nat], NEW p \in ChokePeers
    PROVE  Place(w, p) \in 1 .. PeerCount
<1> DEFINE Better == {q \in ChokePeers : w[q] > w[p] \/ (w[q] = w[p] /\ q < p)}
<1>1. PeerCount \in Nat /\ p \in Int
    BY ChokingAssumption DEF ChokePeers
<1>2. IsFiniteSet(ChokePeers) /\ Cardinality(ChokePeers) = PeerCount
    <2>1. 0 \in Int /\ PeerCount - 1 \in Int
        BY <1>1
    <2>2. IsFiniteSet(0 .. PeerCount - 1)
          /\ Cardinality(0 .. PeerCount - 1) =
                 IF 0 > PeerCount - 1 THEN 0 ELSE (PeerCount - 1) - 0 + 1
        BY <2>1, FS_Interval, Zenon
    <2> QED
        BY <1>1, <2>2 DEF ChokePeers
<1>3. p \notin Better
    <2>1. w[p] \in Nat
        OBVIOUS
    <2> QED
        BY <1>1, <2>1
<1>4. Better \subseteq ChokePeers \ {p}
    BY <1>3
<1>5. IsFiniteSet(ChokePeers \ {p}) /\ Cardinality(ChokePeers \ {p}) = PeerCount - 1
    BY <1>2, FS_RemoveElement
<1> HIDE DEF Better
<1>6. IsFiniteSet(Better) /\ Cardinality(Better) \in Nat /\ Cardinality(Better) <= PeerCount - 1
    BY <1>4, <1>5, FS_Subset, FS_CardinalityType
<1>7. Place(w, p) = 1 + Cardinality(Better)
    BY Zenon DEF Place, Better
<1> QED
    BY <1>1, <1>6, <1>7

(* As many slots as the regular ones, or one for every peer.                *)
LEMMA SlotsAreEnough == Slots \in Nat /\ (Slots >= RegularSlots \/ Slots >= PeerCount)
<1>1. PeerCount \in Nat /\ RegularSlots \in Nat
    BY ChokingAssumption
<1>2. Slots \in {RegularSlots, RegularSlots + 1, PeerCount}
    BY Zenon DEF Slots
<1> QED
    BY <1>1, <1>2

(* A multiple of a number, one number more, is one multiple more.           *)
LEMMA Multiples ==
    ASSUME NEW a \in Int, NEW b \in Int, NEW m \in Nat \ {0}, a > b
    PROVE  a * m >= b * m + m
<1>1. (a - b - 1) \in Nat
    OBVIOUS
<1>2. (a - b - 1) * m \in Nat
    BY <1>1
<1>3. (a - b - 1) * m = a * m - b * m - m
    OBVIOUS
<1>4. a * m \in Int /\ b * m \in Int
    OBVIOUS
<1> QED
    BY <1>2, <1>3, <1>4

(* There is one remainder.                                                  *)
LEMMA OneRemainder ==
    ASSUME NEW m \in Nat \ {0}, NEW a \in Int, NEW b \in Int,
           NEW r \in 0 .. m - 1, NEW s \in 0 .. m - 1, a * m + r = b * m + s
    PROVE  r = s
<1>1. a * m \in Int /\ b * m \in Int
    OBVIOUS
<1>2. CASE a > b
    BY <1>1, <1>2, Multiples
<1>3. CASE b > a
    BY <1>1, <1>3, Multiples
<1> QED
    BY <1>1, <1>2, <1>3

(* What a remainder is.                                                     *)
LEMMA Remainders ==
    ASSUME NEW m \in Nat \ {0}, NEW a \in Nat
    PROVE  /\ a \div m \in Nat /\ a % m \in 0 .. m - 1
           /\ a = (a \div m) * m + (a % m)
<1>1. a \div m \in Nat /\ a % m \in 0 .. m - 1
    OBVIOUS
<1>2. a = m * (a \div m) + (a % m)
    OBVIOUS
<1>3. m * (a \div m) = (a \div m) * m
    BY <1>1
<1> QED
    BY <1>1, <1>2, <1>3

(* The remainder of the next number, whatever multiple is taken away.       *)
LEMMA NextRemainder ==
    ASSUME NEW m \in Nat \ {0}, NEW a \in Nat, NEW b \in Nat, NEW k \in Int, a + 1 = b + k * m
    PROVE  b % m = (IF a % m = m - 1 THEN 0 ELSE (a % m) + 1)
<1> DEFINE q == a \div m
           r == a % m
           u == b \div m
           s == b % m
<1>1. q \in Nat /\ r \in 0 .. m - 1 /\ a = q * m + r
    BY Remainders
<1>2. u \in Nat /\ s \in 0 .. m - 1 /\ b = u * m + s
    BY Remainders
<1> HIDE DEF q, r, u, s
<1>3. q * m \in Nat /\ u * m \in Nat /\ k * m \in Int
    BY <1>1, <1>2
<1>4. (u + k) * m = u * m + k * m /\ (q + 1) * m = q * m + m
    BY <1>1, <1>2
<1>5. (u + k) * m + s = q * m + (r + 1)
    BY <1>1, <1>2, <1>3, <1>4
<1>6. CASE r = m - 1
    <2>1. (u + k) * m + s = (q + 1) * m + 0
        BY <1>1, <1>3, <1>4, <1>5, <1>6
    <2>2. s = 0
        BY <2>1, <1>1, <1>2, OneRemainder
    <2> QED
        BY <1>6, <2>2 DEF r, s
<1>7. CASE r # m - 1
    <2>1. r + 1 \in 0 .. m - 1
        BY <1>1, <1>7
    <2>2. s = r + 1
        BY <2>1, <1>1, <1>2, <1>5, OneRemainder
    <2> QED
        BY <1>7, <2>2 DEF r, s
<1> QED
    BY <1>6, <1>7
(* One index further the slot is one place further, or comes round; Cycle   *)
(* stands for the wrap of a count no one lives to see.                      *)
LEMMA NextPlace ==
    ASSUME NEW index \in Nat, NEW m \in Nat \ {0}, Cycle % m = 0
    PROVE  ((index + 1) % Cycle) % m = (IF index % m = m - 1 THEN 0 ELSE (index % m) + 1)
<1> DEFINE next == (index + 1) % Cycle
           round == (index + 1) \div Cycle
           times == Cycle \div m
<1>1. Cycle \in Nat \ {0}
    BY ChokingAssumption
<1>2. next \in Nat /\ round \in Nat /\ index + 1 = round * Cycle + next
    <2>1. index + 1 \in Nat
        OBVIOUS
    <2>2. /\ round \in Nat /\ next \in 0 .. Cycle - 1
          /\ index + 1 = round * Cycle + next
        BY <1>1, <2>1, Remainders
    <2> QED
        BY <1>1, <2>2
<1>3. times \in Nat /\ Cycle = times * m
    BY <1>1, Remainders
<1> HIDE DEF next, round, times
<1>4. round * (times * m) = (round * times) * m /\ round * times \in Int
    BY <1>2, <1>3
<1>5. index + 1 = next + (round * times) * m
    BY <1>1, <1>2, <1>3, <1>4
<1> QED
    BY <1>2, <1>4, <1>5, NextRemainder, ZenonT(30) DEF next

-----------------------------------------------------------------------------
(* A wait is a number.                                                      *)
LEMMA WaitsAreNumbers ==
    ASSUME NEW distance \in Nat, NEW count \in Nat
    PROVE  MayHaveWaited(distance, count) \in Nat
<1>1. CASE distance = 0
    BY <1>1 DEF MayHaveWaited
<1>2. CASE distance # 0
    <2>1. distance - 1 \in Nat /\ Interval \in Nat
        BY <1>2, ChokingAssumption
    <2>2. (distance - 1) * Interval \in Nat
        BY <2>1
    <2> QED
        BY <2>2, <1>2 DEF MayHaveWaited
<1> QED
    BY <1>1, <1>2

(* Where the slot may be past a place.                                      *)
LEMMA Distances ==
    ASSUME NEW index \in Nat, Choked \in Nat \ {0}, NEW at \in 0 .. Choked - 1
    PROVE  /\ Past(index, at) \in 0 .. Choked - 1
           /\ Past(index, at) = 0 <=> index % Choked = at
<1> DEFINE now == index % Choked
<1>1. now \in 0 .. Choked - 1
    BY Remainders
<1>2. Past(index, at) = IF now >= at THEN now - at ELSE now - at + Choked
    BY Zenon DEF Past
<1> HIDE DEF now
<1>3. /\ Past(index, at) \in 0 .. Choked - 1
      /\ Past(index, at) = 0 <=> now = at
    BY <1>1, <1>2
<1> QED
    BY <1>3 DEF now

(* The next index leaves every place behind by one more, except the one it  *)
(* comes to.                                                                *)
LEMMA PastMoves ==
    ASSUME NEW index \in Nat, Choked \in Nat \ {0}, NEW at \in 0 .. Choked - 1, Cycle % Choked = 0
    PROVE  \/ Past((index + 1) % Cycle, at) = 0
           \/ Past((index + 1) % Cycle, at) = Past(index, at) + 1
<1> DEFINE before == index % Choked
           after == ((index + 1) % Cycle) % Choked
<1>1. before \in 0 .. Choked - 1
    BY Remainders
<1>2. after = IF before = Choked - 1 THEN 0 ELSE before + 1
    BY NextPlace
<1>3. Past(index, at) = IF before >= at THEN before - at ELSE before - at + Choked
    BY Zenon DEF Past
<1>4. Past((index + 1) % Cycle, at) = IF after >= at THEN after - at ELSE after - at + Choked
    BY Zenon DEF Past
<1> HIDE DEF before, after
<1> QED
    BY <1>1, <1>2, <1>3, <1>4

(* One evaluation more to wait is within what one more may bring.           *)
LEMMA WaitGrows ==
    ASSUME NEW then \in Nat, NEW now \in Nat, NEW count \in Nat, NEW next \in Nat,
           count < Interval,
           IF next = 0 THEN count = Interval - 1 /\ (now = 0 \/ now = then + 1)
           ELSE next = count + 1 /\ now = then,
           NEW w \in Nat, NEW v \in Nat,
           w <= MayHaveWaited(then, count), v <= w + 1, now = 0 => v = 0
    PROVE  v <= MayHaveWaited(now, next)
<1>1. Interval \in Nat \ {0}
    BY ChokingAssumption
<1>2. CASE now = 0
    BY <1>2 DEF MayHaveWaited
<1>3. CASE now # 0 /\ next = 0 /\ then = 0
    <2>1. MayHaveWaited(now, next) = 0 * Interval + 0 + 1 /\ w <= 0
        BY <1>3 DEF MayHaveWaited
    <2> QED
        BY <1>1, <2>1
<1>4. CASE now # 0 /\ next = 0 /\ then # 0
    <2>1. MayHaveWaited(now, next) = then * Interval + 0 + 1
        BY <1>4 DEF MayHaveWaited
    <2>2. w <= (then - 1) * Interval + (Interval - 1) + 1
        BY <1>4 DEF MayHaveWaited
    <2>3. (then - 1) * Interval = then * Interval - Interval /\ then * Interval \in Int
        BY <1>1
    <2> QED
        BY <1>1, <2>1, <2>2, <2>3
<1>5. CASE now # 0 /\ next # 0
    <2>1. MayHaveWaited(now, next) = (then - 1) * Interval + (count + 1) + 1
        BY <1>5 DEF MayHaveWaited
    <2>2. w <= (then - 1) * Interval + count + 1
        BY <1>5 DEF MayHaveWaited
    <2>3. (then - 1) * Interval \in Int
        BY <1>1
    <2> QED
        BY <2>1, <2>2, <2>3
<1> QED
    BY <1>2, <1>3, <1>4, <1>5

(* Who was not passed over has not waited too long.                         *)
LEMMA NothingIsOwed ==
    ChokingTyped /\ (\A p \in ChokePeers : passedOver[p] = 0) => TurnComes
<1> SUFFICES ASSUME ChokingTyped, \A p \in ChokePeers : passedOver[p] = 0,
                    NEW p \in ChokePeers, ~(Place(Weights, p) <= Slots)
             PROVE  passedOver[p] <=
                        MayHaveWaited(Past(optimistic, Place(Weights, p) - Slots - 1), evaluations)
    BY DEF TurnComes
<1> DEFINE at == Place(Weights, p) - Slots - 1
<1>1. at \in 0 .. Choked - 1 /\ Choked \in Nat \ {0}
    BY WeightsAreNumbers, PlacesAreFew, SlotsAreEnough, ChokingAssumption DEF Choked
<1> HIDE DEF at
<1>2. Past(optimistic, at) \in Nat
    BY <1>1, Distances DEF ChokingTyped
<1>3. Interval \in Nat /\ evaluations \in Nat
    BY ChokingAssumption DEF ChokingTyped
<1>4. MayHaveWaited(Past(optimistic, at), evaluations) \in Nat
    BY <1>2, <1>3, WaitsAreNumbers
<1>5. passedOver[p] = 0
    OBVIOUS
<1> QED
    BY <1>4, <1>5 DEF at

(* No one waits yet.                                                        *)
LEMMA ChokingInitHolds == ChokingInit => ChokingInv
<1> SUFFICES ASSUME ChokingInit PROVE ChokingInv
    OBVIOUS
<1>1. ChokingTyped
    <2>1. speed \in [ChokePeers -> Nat] /\ autoScale \in BOOLEAN
        BY ChokingAssumption DEF ChokingInit
    <2>2. ledger \in [ChokePeers -> LedgerEntry]
        BY DEF ChokingInit, NoCredit, LedgerEntry
    <2>3. evaluations \in 0 .. Interval - 1 /\ optimistic \in Nat
        BY ChokingAssumption DEF ChokingInit
    <2>4. passedOver \in [ChokePeers -> Nat]
        BY DEF ChokingInit
    <2> QED
        BY <2>1, <2>2, <2>3, <2>4 DEF ChokingTyped
<1>2. \A p \in ChokePeers : passedOver[p] = 0
    BY DEF ChokingInit
<1> QED
    BY <1>1, <1>2, NothingIsOwed DEF ChokingInv

(* A change of order starts every wait again.                               *)
LEMMA ResettledHolds ==
    ASSUME ChokingTyped', Resettled
    PROVE  ChokingInv'
<1>1. (\A p \in ChokePeers : passedOver[p] = 0)'
    BY DEF Resettled
<1>2. TurnComes'
    BY <1>1, NothingIsOwed, PTL
<1> QED
    BY <1>2 DEF ChokingInv

(* An evaluation gives the slot's peer a turn, and one more to wait to the  *)
(* others: as many as it may have waited at the new distance.               *)
LEMMA EvaluateHolds == ChokingInv /\ Evaluate => ChokingInv'
<1> SUFFICES ASSUME ChokingInv, Evaluate PROVE ChokingInv'
    OBVIOUS
<1> USE DEF ChokingInv
<1> DEFINE count == (evaluations + 1) % Interval
           index == IF count = 0 THEN (optimistic + 1) % Cycle ELSE optimistic
<1>1. Decided(count, index)
    BY Zenon DEF Evaluate
<1>2. /\ Interval \in Nat \ {0} /\ Cycle \in Nat \ {0}
      /\ PeerCount \in Nat /\ RegularSlots \in Nat
    BY ChokingAssumption
<1>3. evaluations \in 0 .. Interval - 1 /\ optimistic \in Nat
    BY DEF ChokingTyped
<1>4. /\ count \in 0 .. Interval - 1
      /\ IF count = 0 THEN evaluations = Interval - 1 ELSE count = evaluations + 1
    <2>1. CASE evaluations + 1 = Interval
        BY <2>1, <1>2, <1>3
    <2>2. CASE evaluations + 1 # Interval
        <3>1. evaluations + 1 \in 0 .. Interval - 1
            BY <2>2, <1>2, <1>3
        <3> QED
            BY <3>1, <1>2, <1>3
    <2> QED
        BY <2>1, <2>2
<1>5. index \in Nat
    BY <1>2, <1>3
<1> HIDE DEF count, index
<1>6. /\ evaluations' = count /\ optimistic' = index
      /\ passedOver' = [p \in ChokePeers |->
                           IF p \in Unchoked(index) THEN 0 ELSE passedOver[p] + 1]
      /\ speed' = speed /\ autoScale' = autoScale /\ ledger' = ledger
    BY <1>1, Zenon DEF Decided
<1>7. ChokingTyped'
    <2>1. passedOver' \in [ChokePeers -> Nat]
        BY <1>6 DEF ChokingTyped
    <2> QED
        BY <2>1, <1>4, <1>5, <1>6 DEF ChokingTyped
<1>8. Weights' = Weights
    BY <1>6, Zenon DEF Weights, Weighted
<1>9. Slots' = Slots
    BY <1>6, <1>8, Zenon DEF Slots
<1>10. TurnComes'
    <2> SUFFICES ASSUME NEW p \in ChokePeers
                 PROVE  IF Place(Weights, p) <= Slots THEN passedOver'[p] = 0
                        ELSE passedOver'[p] <=
                                 MayHaveWaited(Past(index, Place(Weights, p) - Slots - 1), count)
        BY <1>6, <1>8, <1>9, Zenon DEF TurnComes, Past, Choked
    <2>1. PICK place \in Nat : place = Place(Weights, p) /\ place \in 1 .. PeerCount
        BY WeightsAreNumbers, PlacesAreFew
    <2>2. Slots \in Nat
        BY SlotsAreEnough
    <2>3. passedOver[p] \in Nat
        BY DEF ChokingTyped
    <2>4. CASE place <= Slots
        <3>1. p \in Unchoked(index)
            BY <2>1, <2>4 DEF Unchoked
        <3> QED
            BY <3>1, <1>6, <2>1, <2>4
    <2>5. CASE ~(place <= Slots)
        <3> DEFINE at == place - Slots - 1
                   then == Past(optimistic, at)
                   now == Past(index, at)
        <3>1. Choked \in Nat \ {0} /\ at \in 0 .. Choked - 1 /\ Slots < PeerCount
            BY <1>2, <2>1, <2>2, <2>5 DEF Choked
        <3>2. Cycle % Choked = 0
            <4>1. Choked \in 1 .. PeerCount - RegularSlots
                BY <3>1, <1>2, <2>2, SlotsAreEnough DEF Choked
            <4> QED
                BY <4>1, ChokingAssumption
        <3>3. /\ then \in 0 .. Choked - 1 /\ now \in 0 .. Choked - 1
              /\ now = 0 => index % Choked = at
            BY <3>1, <1>3, <1>5, Distances
        <3>4. IF count = 0 THEN now = 0 \/ now = then + 1 ELSE now = then
            BY <1>3, <3>1, <3>2, PastMoves DEF index
        <3>5. now = 0 => passedOver'[p] = 0
            <4> SUFFICES ASSUME now = 0 PROVE passedOver'[p] = 0
                OBVIOUS
            <4>1. place = Slots + 1 + (index % Choked)
                BY <3>1, <3>3, <2>1, <2>2
            <4>2. p \in Lucky(index)
                BY <4>1, <2>1, <2>2, <3>1, <1>2 DEF Lucky, Choked
            <4>3. p \in Unchoked(index)
                BY <4>2 DEF Unchoked
            <4> QED
                BY <4>3, <1>6
        <3>6. passedOver'[p] <= passedOver[p] + 1
            BY <1>6, <2>3
        <3>7. passedOver[p] <= MayHaveWaited(then, evaluations)
            BY <2>1, <2>5, Zenon DEF TurnComes
        <3>8. passedOver'[p] \in Nat
            BY <1>7 DEF ChokingTyped
        <3> HIDE DEF at, then, now
        <3>9. passedOver'[p] <= MayHaveWaited(now, count)
            <4>1. PICK w, v : w = passedOver[p] /\ v = passedOver'[p]
                OBVIOUS
            <4>2. v \in Nat /\ w \in Nat /\ v <= w + 1 /\ (now = 0 => v = 0)
                BY <2>3, <3>5, <3>6, <3>8, <4>1
            <4>3. w <= MayHaveWaited(then, evaluations)
                BY <3>7, <4>1
            <4>4. then \in Nat /\ now \in Nat /\ count \in Nat /\ evaluations \in Nat
                <5>1. PICK m, top : m = Choked /\ top = Interval
                    OBVIOUS
                <5>2. /\ m \in Nat /\ then \in 0 .. m - 1 /\ now \in 0 .. m - 1
                      /\ top \in Nat /\ evaluations \in 0 .. top - 1 /\ count \in 0 .. top - 1
                    BY <1>2, <1>3, <1>4, <3>1, <3>3, <5>1
                <5> QED
                    BY <5>2
            <4>5. /\ evaluations < Interval
                  /\ IF count = 0 THEN evaluations = Interval - 1 /\ (now = 0 \/ now = then + 1)
                     ELSE count = evaluations + 1 /\ now = then
                BY <1>2, <1>3, <1>4, <3>4
            <4>6. v <= MayHaveWaited(now, count)
                BY <4>2, <4>3, <4>4, <4>5, WaitGrows
            <4> QED
                BY <4>1, <4>6
        <3> QED
            BY <3>9, <2>1, <2>5 DEF now, at
    <2> QED
        BY <2>4, <2>5
<1> QED
    BY <1>7, <1>10

(* The speeds and the ledger stay what they are.                            *)
LEMMA ExchangesAreTyped ==
    ASSUME ChokingTyped, NEW p \in ChokePeers,
           \/ \E s \in Speeds : SpeedChanges(p, s)
           \/ Exchange(p, "received") \/ Exchange(p, "sent")
    PROVE  ChokingTyped' /\ Resettled
<1> USE DEF ChokingTyped
<1>1. ASSUME NEW s \in Speeds, SpeedChanges(p, s) PROVE ChokingTyped' /\ Resettled
    <2>1. s \in Nat
        BY ChokingAssumption
    <2>2. passedOver' \in [ChokePeers -> Nat]
        BY <1>1 DEF SpeedChanges, Resettled
    <2> QED
        BY <1>1, <2>1, <2>2 DEF SpeedChanges
<1>2. ASSUME NEW field \in {"received", "sent"}, Exchange(p, field)
      PROVE  ChokingTyped' /\ Resettled
    <2>1. ledger' = [ledger EXCEPT ![p] = [[ledger[p] EXCEPT ![field] = @ + 1] EXCEPT !.age = 0]]
        BY <1>2 DEF Exchange
    <2>2. PICK e \in LedgerEntry : e = ledger[p]
        OBVIOUS
    <2>3. [[e EXCEPT ![field] = @ + 1] EXCEPT !.age = 0] \in LedgerEntry
        <3> DEFINE f == [e EXCEPT ![field] = @ + 1]
        <3>1. f \in LedgerEntry
            <4>1. e["received"] \in Nat /\ e["sent"] \in Nat
                BY DEF LedgerEntry
            <4>2. /\ f = [x \in {"received", "sent", "age"} |-> IF x = field THEN e[x] + 1 ELSE e[x]]
                  /\ e["age"] \in Nat
                BY DEF LedgerEntry
            <4>3. f["received"] \in Nat /\ f["sent"] \in Nat /\ f["age"] \in Nat
                BY <4>1, <4>2
            <4>4. f = [received |-> f["received"], sent |-> f["sent"], age |-> f["age"]]
                BY <4>2
            <4> QED
                BY <4>3, <4>4 DEF LedgerEntry
        <3> HIDE DEF f
        <3>2. [f EXCEPT !.age = 0] \in LedgerEntry
            BY <3>1 DEF LedgerEntry
        <3> QED
            BY <3>2 DEF f
    <2>4. ledger' \in [ChokePeers -> LedgerEntry]
        BY <2>1, <2>2, <2>3
    <2>5. passedOver' \in [ChokePeers -> Nat]
        BY <1>2 DEF Exchange, Resettled
    <2> QED
        BY <1>2, <2>4, <2>5 DEF Exchange
<1> QED
    BY <1>1, <1>2

(* An entry that is pruned is one that is not there.                        *)
LEMMA PruneIsTyped == ChokingTyped /\ Prune => ChokingTyped' /\ Resettled
<1> SUFFICES ASSUME ChokingTyped, Prune PROVE ChokingTyped' /\ Resettled
    OBVIOUS
<1>1. NoCredit \in LedgerEntry
    BY DEF NoCredit, LedgerEntry
<1>2. ledger' \in [ChokePeers -> LedgerEntry]
    BY <1>1 DEF Prune, ChokingTyped
<1>3. passedOver' \in [ChokePeers -> Nat]
    BY DEF Prune, Resettled
<1> QED
    BY <1>2, <1>3 DEF Prune, ChokingTyped

(* Age has no weight.                                                       *)
LEMMA LedgerAgesHolds == ChokingInv /\ LedgerAges => ChokingInv'
<1> SUFFICES ASSUME ChokingInv, LedgerAges PROVE ChokingInv'
    OBVIOUS
<1> USE DEF ChokingInv
<1>1. ASSUME NEW p \in ChokePeers
      PROVE  /\ ledger'[p] \in LedgerEntry
             /\ ledger'[p].sent = ledger[p].sent /\ ledger'[p].received = ledger[p].received
    <2>1. ledger[p] \in LedgerEntry
        BY DEF ChokingTyped
    <2>2. \/ ledger'[p] = ledger[p]
          \/ ledger'[p] = [ledger[p] EXCEPT !.age = @ + 1]
        BY DEF LedgerAges
    <2> QED
        BY <2>1, <2>2 DEF LedgerEntry
<1>2. ledger' \in [ChokePeers -> LedgerEntry]
    <2>1. ledger' = [p \in ChokePeers |-> ledger'[p]]
        BY DEF LedgerAges
    <2> QED
        BY <1>1, <2>1
<1>3. /\ speed' = speed /\ autoScale' = autoScale /\ passedOver' = passedOver
      /\ evaluations' = evaluations /\ optimistic' = optimistic
    BY DEF LedgerAges
<1>4. ChokingTyped'
    BY <1>2, <1>3 DEF ChokingTyped
<1>5. \A p \in ChokePeers : Weighted(p)' = Weighted(p)
    BY <1>1, <1>3, Zenon DEF Weighted, CreditWeight
<1>6. Weights' = Weights
    BY <1>5, Zenon DEF Weights
<1>7. Slots' = Slots
    BY <1>3, <1>6, Zenon DEF Slots
<1>8. TurnComes'
    BY <1>3, <1>6, <1>7, Zenon DEF TurnComes, Past, Choked
<1> QED
    BY <1>4, <1>8

(* Every step keeps the bound on the wait.                                  *)
LEMMA ChokingInductive == ChokingInv /\ [ChokingNext]_chokingVars => ChokingInv'
<1>1. ASSUME ChokingInv, NEW p \in ChokePeers,
             \/ \E s \in Speeds : SpeedChanges(p, s)
             \/ Exchange(p, "received") \/ Exchange(p, "sent")
      PROVE  ChokingInv'
    BY <1>1, ExchangesAreTyped, ResettledHolds DEF ChokingInv
<1>2. ChokingInv /\ Prune => ChokingInv'
    BY PruneIsTyped, ResettledHolds DEF ChokingInv
<1>3. ChokingInv /\ UNCHANGED chokingVars => ChokingInv'
    <2> SUFFICES ASSUME ChokingInv, UNCHANGED chokingVars PROVE ChokingInv'
        OBVIOUS
    <2> USE DEF ChokingInv, chokingVars
    <2>1. ChokingTyped'
        BY DEF ChokingTyped
    <2>2. Weights' = Weights
        BY Zenon DEF Weights, Weighted
    <2>3. Slots' = Slots
        BY <2>2, Zenon DEF Slots
    <2>4. TurnComes'
        BY <2>2, <2>3, Zenon DEF TurnComes, Past, Choked
    <2> QED
        BY <2>1, <2>4
<1> QED
    BY <1>1, <1>2, <1>3, EvaluateHolds, LedgerAgesHolds, Zenon DEF ChokingNext

(* While the order of the peers stays, none waits longer for a turn than    *)
(* the optimistic slot needs for the other choked ones                      *)
(* (TitForTatChoking::evaluate).                                            *)
THEOREM TurnsHold == ChokingSpec => []EveryoneHasATurn
<1>1. ChokingInv => EveryoneHasATurn
    <2> SUFFICES ASSUME ChokingInv, NEW p \in ChokePeers, passedOver[p] # 0
                 PROVE  passedOver[p] <= Interval * (PeerCount - RegularSlots - 1)
        BY Zenon DEF EveryoneHasATurn
    <2> USE DEF ChokingInv
    <2>1. /\ Interval \in Nat \ {0} /\ PeerCount \in Nat /\ RegularSlots \in Nat
        BY ChokingAssumption
    <2>2. evaluations \in 0 .. Interval - 1 /\ optimistic \in Nat /\ passedOver[p] \in Nat
        BY DEF ChokingTyped
    <2>3. PICK place \in Nat : place = Place(Weights, p) /\ place \in 1 .. PeerCount
        BY <2>1, WeightsAreNumbers, PlacesAreFew
    <2>4. Slots \in Nat /\ (Slots >= RegularSlots \/ Slots >= PeerCount)
        BY SlotsAreEnough
    <2> DEFINE at == place - Slots - 1
               distance == Past(optimistic, at)
    <2>5. ~(place <= Slots)
        BY <2>3 DEF TurnComes
    <2>6. at \in 0 .. Choked - 1 /\ Choked \in Nat \ {0} /\ Choked <= PeerCount - RegularSlots
        BY <2>1, <2>3, <2>4, <2>5 DEF Choked
    <2>7. distance \in 0 .. Choked - 1
        BY <2>2, <2>6, Distances
    <2>8. passedOver[p] <= MayHaveWaited(distance, evaluations)
        BY <2>3, <2>5, Zenon DEF TurnComes
    <2> HIDE DEF at, distance
    <2>9. distance # 0 /\ passedOver[p] <= (distance - 1) * Interval + evaluations + 1
        BY <2>2, <2>8 DEF MayHaveWaited
    <2>10. PICK gap \in Nat : PeerCount - RegularSlots - 1 = distance + gap
        <3>1. PeerCount - RegularSlots - 1 - distance \in Nat
            BY <2>1, <2>6, <2>7
        <3> QED
            BY <3>1, <2>1, <2>7
    <2>11. Interval * (distance + gap) = (distance - 1) * Interval + Interval + gap * Interval
        BY <2>1, <2>6, <2>7
    <2>12. (distance - 1) * Interval \in Int /\ gap * Interval \in Nat
        BY <2>1, <2>6, <2>7
    <2> QED
        BY <2>1, <2>2, <2>9, <2>10, <2>11, <2>12
<1> QED
    BY ChokingInitHolds, ChokingInductive, <1>1, PTL DEF ChokingSpec
-----------------------------------------------------------------------------
(* What a node of the distributed hash table knows of others, and stores.   *)
ContactRecord == [node : Nodes, addr : {"none", "known"}]
BucketNumbers == 0 .. Bits - 1

(* Who may be in a table of a node.                                         *)
Fellow(n, o) == o # n /\ NetworkOf[o] = NetworkOf[n]

DhtTyped ==
    /\ tables \in [Nodes -> [BucketNumbers -> Seq(ContactRecord)]]
    /\ stores = [n \in Nodes |-> stores[n]] /\ added = [n \in Nodes |-> added[n]]
    /\ doubled = [n \in Nodes |-> doubled[n]] /\ probes \in [Nodes -> [Nodes -> Nat]]
    /\ \A m \in transit : m.to \in Nodes /\ m.sender \in Nodes /\ m.network = NetworkOf[m.sender]
    /\ \A n, c \in Nodes : probes[n][c] > 0 => Fellow(n, c)

DhtInv == DhtTyped /\ TablesAreSound

Sound(n, b, bucket, doubles) == BucketIsSound(n, b, bucket) /\ EachIsOnceBut(doubles, bucket)

TableIsSound(n, t, doubles) ==
    /\ t \in [BucketNumbers -> Seq(ContactRecord)]
    /\ \A b \in BucketNumbers : Sound(n, b, t[b], doubles)

(* A set of numbers has a least one.                                        *)
LEMMA LeastNumber ==
    ASSUME NEW T, T \subseteq Nat, T # {}
    PROVE  \E x \in T : \A y \in T : x <= y
<1> DEFINE R == {ss \in Nat \X Nat : ss[1] < ss[2]}
<1>1. IsWellFoundedOn(R, Nat)
    BY NatLessThanWellFounded DEF OpToRel
<1>2. \A x, y \in Nat : <<y, x>> \in R <=> y < x
    OBVIOUS
<1> HIDE DEF R
<1>3. PICK x \in T : \A y \in T : ~(<<y, x>> \in R)
    BY <1>1, WFMin
<1>4. \A y \in T : ~(y < x)
    BY <1>2, <1>3
<1> QED
    BY <1>4

(* Two ids differ in a bit, and there is a highest one.                     *)
LEMMA HighestBit ==
    ASSUME NEW m \in Nodes, NEW n \in Nodes, m # n
    PROVE  /\ BucketIndex(m, n) \in BucketNumbers
           /\ BucketIndex(m, n) \in Distance(m, n)
           /\ \A c \in Distance(m, n) : c <= BucketIndex(m, n)
<1>1. Bits \in Nat /\ m \subseteq BucketNumbers /\ n \subseteq BucketNumbers
    BY DhtAssumption DEF BucketNumbers
<1> DEFINE D == Distance(m, n)
           T == {Bits - 1 - c : c \in D}
<1>2. D \subseteq BucketNumbers /\ D # {}
    BY <1>1 DEF Distance
<1> HIDE DEF D
<1>3. T \subseteq Nat /\ T # {}
    <2>1. \A c \in D : Bits - 1 - c \in Nat
        BY <1>1, <1>2 DEF BucketNumbers
    <2> QED
        BY <1>2, <2>1
<1>4. PICK x \in T : \A y \in T : x <= y
    BY <1>3, LeastNumber
<1>5. PICK top \in D : x = Bits - 1 - top
    BY <1>4
<1>6. \A c \in D : c <= top
    BY <1>1, <1>2, <1>4, <1>5 DEF BucketNumbers
<1>7. \A c \in D : top >= c
    BY <1>1, <1>2, <1>6 DEF BucketNumbers
<1>8. Max(D) \in D /\ \A c \in D : Max(D) >= c
    BY <1>7, Zenon DEF Max
<1>9. \A c \in D : c <= Max(D)
    BY <1>1, <1>2, <1>8 DEF BucketNumbers
<1>10. BucketIndex(m, n) = Max(D)
    BY Zenon DEF BucketIndex, D
<1> QED
    BY <1>2, <1>8, <1>9, <1>10 DEF D

(* One contact removed leaves the others.                                   *)
LEMMA RemovedContact ==
    ASSUME NEW bucket \in Seq(ContactRecord), NEW i \in 1 .. Len(bucket)
    PROVE  /\ RemoveAt(bucket, i) \in Seq(ContactRecord)
           /\ Len(RemoveAt(bucket, i)) = Len(bucket) - 1
           /\ \A j \in 1 .. Len(bucket) - 1 :
                  RemoveAt(bucket, i)[j] = IF j <= i - 1 THEN bucket[j] ELSE bucket[j + 1]
<1> DEFINE left == SubSeq(bucket, 1, i - 1)
           right == SubSeq(bucket, i + 1, Len(bucket))
           rest == RemoveAt(bucket, i)
<1>1. PICK n \in Nat : n = Len(bucket) /\ i \in 1 .. n
    OBVIOUS
<1>2. \A j \in 1 .. n : bucket[j] \in ContactRecord
    BY <1>1
<1>3. /\ left \in Seq(ContactRecord) /\ Len(left) = i - 1
      /\ \A j \in 1 .. i - 1 : left[j] = bucket[j]
    <2>1. i - 1 \in Int /\ \A j \in 1 .. i - 1 : j \in 1 .. n
        BY <1>1
    <2>2. /\ left \in Seq(ContactRecord)
          /\ Len(left) = IF 1 <= i - 1 THEN (i - 1) - 1 + 1 ELSE 0
          /\ \A j \in 1 .. (i - 1) - 1 + 1 : left[j] = bucket[1 + j - 1]
        BY <1>2, <2>1, SubSeqProperties
    <2> QED
        BY <1>1, <2>2
<1>4. /\ right \in Seq(ContactRecord) /\ Len(right) = n - i
      /\ \A j \in 1 .. n - i : right[j] = bucket[j + i]
    <2>1. i + 1 \in Int /\ n \in Int /\ \A j \in i + 1 .. n : j \in 1 .. n
        BY <1>1
    <2>2. /\ right \in Seq(ContactRecord)
          /\ Len(right) = IF i + 1 <= n THEN n - (i + 1) + 1 ELSE 0
          /\ \A j \in 1 .. n - (i + 1) + 1 : right[j] = bucket[i + 1 + j - 1]
        BY <1>1, <1>2, <2>1, SubSeqProperties
    <2> QED
        BY <1>1, <2>2
<1> HIDE DEF left, right
<1>5. /\ rest \in Seq(ContactRecord) /\ Len(rest) = Len(left) + Len(right)
      /\ \A j \in 1 .. Len(left) + Len(right) :
             rest[j] = IF j <= Len(left) THEN left[j] ELSE right[j - Len(left)]
    BY <1>3, <1>4, ConcatProperties DEF RemoveAt, left, right
<1>6. Len(left) + Len(right) = n - 1
    BY <1>1, <1>3, <1>4
<1>7. ASSUME NEW j \in 1 .. n - 1
      PROVE  rest[j] = IF j <= i - 1 THEN bucket[j] ELSE bucket[j + 1]
    <2>1. CASE j <= i - 1
        BY <1>1, <1>3, <1>5, <1>6, <2>1, SMTT(30)
    <2>2. CASE ~(j <= i - 1)
        <3>1. j - Len(left) \in 1 .. n - i /\ (j - Len(left)) + i = j + 1
            BY <1>1, <1>3, <2>2
        <3> QED
            BY <1>3, <1>4, <1>5, <1>6, <2>2, <3>1
    <2> QED
        BY <2>1, <2>2
<1> QED
    BY <1>1, <1>5, <1>6, <1>7

(* A contact that is not there yet, or may be there twice, added at the     *)
(* tail of its bucket while there is room, leaves the bucket sound.         *)
LEMMA AppendedContact ==
    ASSUME NEW n \in Nodes, NEW b \in BucketNumbers, NEW bucket \in Seq(ContactRecord),
           NEW e \in ContactRecord, NEW doubles, Sound(n, b, bucket, doubles),
           Fellow(n, e.node), b = BucketIndex(n, e.node),
           Has(bucket, e.node) => e.node \in doubles, Len(bucket) < K
    PROVE  /\ Append(bucket, e) \in Seq(ContactRecord)
           /\ Sound(n, b, Append(bucket, e), doubles)
<1> DEFINE longer == Append(bucket, e)
<1>1. PICK k \in Nat : k = Len(bucket)
    OBVIOUS
<1>2. /\ longer \in Seq(ContactRecord) /\ Len(longer) = k + 1
      /\ \A i \in 1 .. k : longer[i] = bucket[i]
      /\ longer[k + 1] = e
    BY <1>1, AppendProperties
<1>3. DOMAIN longer = 1 .. k + 1 /\ DOMAIN bucket = 1 .. k
    BY <1>1, <1>2
<1> HIDE DEF longer
<1>4. \A i \in 1 .. k + 1 : i \in 1 .. k \/ i = k + 1
    BY <1>1
<1>5. Len(longer) <= K
    BY <1>1, <1>2, DhtAssumption
<1>6. \A i \in 1 .. k : bucket[i].node = e.node => e.node \in doubles
    BY <1>3 DEF Has
<1>7. EachIsOnceBut(doubles, longer)
    <2>1. \A i, j \in 1 .. k : i # j /\ bucket[i].node = bucket[j].node
                                => bucket[i].node \in doubles
        BY <1>3, Zenon DEF Sound, EachIsOnceBut
    <2> SUFFICES ASSUME NEW i \in 1 .. k + 1, NEW j \in 1 .. k + 1, i # j,
                        longer[i].node = longer[j].node
                 PROVE  longer[i].node \in doubles
        BY <1>3, Zenon DEF EachIsOnceBut
    <2>2. CASE i \in 1 .. k /\ j \in 1 .. k
        BY <1>2, <2>1, <2>2
    <2>3. CASE i = k + 1 \/ j = k + 1
        BY <1>2, <1>4, <1>6, <2>3
    <2> QED
        BY <1>4, <2>2, <2>3
<1>8. e.node \in Nodes /\ e.node # n /\ NetworkOf[e.node] = NetworkOf[n]
    BY DEF ContactRecord, Fellow
<1>9. b \in Distance(n, e.node) /\ \A c \in Distance(n, e.node) : c <= b
    BY <1>8, HighestBit
<1>10. ASSUME NEW i \in 1 .. k + 1
       PROVE  /\ NetworkOf[longer[i].node] = NetworkOf[n]
              /\ b \in Distance(n, longer[i].node)
              /\ \A c \in Distance(n, longer[i].node) : c <= b
    <2>1. CASE i \in 1 .. k
        BY <2>1, <1>2, <1>3, Zenon DEF Sound, BucketIsSound
    <2>2. CASE i = k + 1
        BY <2>2, <1>2, <1>8, <1>9, Zenon
    <2> QED
        BY <1>4, <2>1, <2>2
<1>11. Sound(n, b, longer, doubles)
    BY <1>3, <1>5, <1>7, <1>10, Zenon DEF Sound, BucketIsSound
<1> QED
    BY <1>2, <1>11 DEF longer

(* A bucket with one entry less is sound, and does not have that contact    *)
(* any more unless it may be there twice.                                   *)
LEMMA ShorterBucket ==
    ASSUME NEW n \in Nodes, NEW b \in BucketNumbers, NEW bucket \in Seq(ContactRecord),
           NEW doubles, Sound(n, b, bucket, doubles), NEW i \in 1 .. Len(bucket)
    PROVE  /\ RemoveAt(bucket, i) \in Seq(ContactRecord)
           /\ Len(RemoveAt(bucket, i)) < K
           /\ Sound(n, b, RemoveAt(bucket, i), doubles)
           /\ \A o \in Nodes : Has(RemoveAt(bucket, i), o)
                                 => Has(bucket, o) /\ (o # bucket[i].node \/ o \in doubles)
<1> DEFINE rest == RemoveAt(bucket, i)
           from(j) == IF j <= i - 1 THEN j ELSE j + 1
<1>1. PICK k \in Nat : k = Len(bucket) /\ i \in 1 .. k
    OBVIOUS
<1>2. /\ rest \in Seq(ContactRecord) /\ Len(rest) = k - 1
      /\ \A j \in 1 .. k - 1 : rest[j] = bucket[from(j)]
    <2>1. /\ rest \in Seq(ContactRecord) /\ Len(rest) = k - 1
          /\ \A j \in 1 .. k - 1 : rest[j] = IF j <= i - 1 THEN bucket[j] ELSE bucket[j + 1]
        BY <1>1, RemovedContact
    <2> QED
        BY <2>1
<1>3. /\ \A j \in 1 .. k - 1 : from(j) \in 1 .. k /\ from(j) # i
      /\ \A j, l \in 1 .. k - 1 : j # l => from(j) # from(l)
    BY <1>1
<1>4. DOMAIN rest = 1 .. k - 1 /\ DOMAIN bucket = 1 .. k
    BY <1>1, <1>2
<1> HIDE DEF rest, from
<1>5. /\ Len(bucket) <= K
      /\ \A j, l \in 1 .. k : j # l /\ bucket[j].node = bucket[l].node => bucket[j].node \in doubles
      /\ \A j \in 1 .. k : /\ NetworkOf[bucket[j].node] = NetworkOf[n]
                           /\ b \in Distance(n, bucket[j].node)
                           /\ \A c \in Distance(n, bucket[j].node) : c <= b
    BY <1>4, Zenon DEF Sound, BucketIsSound, EachIsOnceBut
<1>6. Len(rest) < K /\ Len(rest) <= K
    BY <1>1, <1>2, <1>5, DhtAssumption
<1>7. Sound(n, b, rest, doubles)
    <2>1. \A j, l \in 1 .. k - 1 : j # l /\ rest[j].node = rest[l].node => rest[j].node \in doubles
        <3> SUFFICES ASSUME NEW j \in 1 .. k - 1, NEW l \in 1 .. k - 1, j # l,
                            rest[j].node = rest[l].node
                     PROVE  rest[j].node \in doubles
            OBVIOUS
        <3>1. from(j) \in 1 .. k /\ from(l) \in 1 .. k /\ from(j) # from(l)
            BY <1>3
        <3>2. bucket[from(j)].node = bucket[from(l)].node => bucket[from(j)].node \in doubles
            BY <3>1, <1>5
        <3> QED
            BY <3>2, <1>2
    <2>2. \A j \in 1 .. k - 1 : /\ NetworkOf[rest[j].node] = NetworkOf[n]
                                /\ b \in Distance(n, rest[j].node)
                                /\ \A c \in Distance(n, rest[j].node) : c <= b
        BY <1>2, <1>3, <1>5, ZenonT(40)
    <2> QED
        BY <1>4, <1>6, <2>1, <2>2, Zenon DEF Sound, BucketIsSound, EachIsOnceBut
<1>8. \A o \in Nodes : Has(rest, o) => Has(bucket, o) /\ (o # bucket[i].node \/ o \in doubles)
    <2> SUFFICES ASSUME NEW o \in Nodes, Has(rest, o)
                 PROVE  Has(bucket, o) /\ (o # bucket[i].node \/ o \in doubles)
        OBVIOUS
    <2>1. PICK j \in 1 .. k - 1 : rest[j].node = o
        BY <1>4 DEF Has
    <2>2. from(j) \in 1 .. k /\ from(j) # i /\ bucket[from(j)].node = o
        BY <2>1, <1>2, <1>3
    <2>3. bucket[from(j)].node = bucket[i].node => bucket[from(j)].node \in doubles
        BY <2>2, <1>1, <1>5
    <2> QED
        BY <2>2, <2>3, <1>4 DEF Has
<1> QED
    BY <1>2, <1>6, <1>7, <1>8 DEF rest

(* One bucket of a table replaced by a sound one.                           *)
LEMMA BucketReplaced ==
    ASSUME NEW n \in Nodes, NEW t, NEW doubles, TableIsSound(n, t, doubles), NEW b \in BucketNumbers,
           NEW bucket \in Seq(ContactRecord), Sound(n, b, bucket, doubles)
    PROVE  TableIsSound(n, [t EXCEPT ![b] = bucket], doubles)
<1>1. [t EXCEPT ![b] = bucket] \in [BucketNumbers -> Seq(ContactRecord)]
    BY DEF TableIsSound
<1>2. \A c \in BucketNumbers :
          [t EXCEPT ![b] = bucket][c] = IF c = b THEN bucket ELSE t[c]
    BY DEF TableIsSound
<1> QED
    BY <1>1, <1>2, Zenon DEF TableIsSound

(* A contact noted in its bucket leaves it sound.                           *)
LEMMA NotedContact ==
    ASSUME NEW n \in Nodes, NEW b \in BucketNumbers, NEW bucket \in Seq(ContactRecord),
           NEW e \in ContactRecord, NEW doubles, Sound(n, b, bucket, doubles),
           Fellow(n, e.node), b = BucketIndex(n, e.node)
    PROVE  /\ InsertInto(bucket, e) \in Seq(ContactRecord)
           /\ Sound(n, b, InsertInto(bucket, e), doubles)
<1>1. e.node \in Nodes
    BY DEF ContactRecord
<1>2. CASE Has(bucket, e.node)
    <2> DEFINE places == {i \in DOMAIN bucket : bucket[i].node = e.node}
    <2>1. PICK at : at = Min(places)
        OBVIOUS
    <2>2. at \in DOMAIN bucket /\ bucket[at].node = e.node
        <3>1. places # {}
            BY <1>2, Zenon DEF Has
        <3>2. places \subseteq Nat
            OBVIOUS
        <3>3. \E x \in places : \A y \in places : x <= y
            BY <3>1, <3>2, LeastNumber
        <3>4. Min(places) \in places
            BY <3>3, Zenon DEF Min
        <3> QED
            BY <2>1, <3>4
    <2>3. at \in 1 .. Len(bucket)
        BY <2>2
    <2>4. PICK rest : rest = RemoveAt(bucket, at)
        OBVIOUS
    <2>5. /\ rest \in Seq(ContactRecord) /\ Len(rest) < K /\ Sound(n, b, rest, doubles)
          /\ Has(rest, e.node) => e.node \in doubles
        BY <1>1, <2>2, <2>3, <2>4, ShorterBucket
    <2>6. InsertInto(bucket, e) = Append(rest, e)
        BY <1>2, <2>1, <2>4, Zenon DEF InsertInto
    <2> QED
        BY <2>5, <2>6, AppendedContact
<1>3. CASE ~Has(bucket, e.node) /\ Len(bucket) < K
    <2>1. InsertInto(bucket, e) = Append(bucket, e)
        BY <1>3, Zenon DEF InsertInto
    <2> QED
        BY <1>3, <2>1, AppendedContact
<1>4. CASE ~Has(bucket, e.node) /\ ~(Len(bucket) < K)
    <2>1. InsertInto(bucket, e) = bucket
        BY <1>4, Zenon DEF InsertInto
    <2> QED
        BY <2>1
<1> QED
    BY <1>2, <1>3, <1>4

(* A bucket without its head has room.                                      *)
WithoutHead(bucket) == IF bucket = <<>> THEN bucket ELSE Tail(bucket)

LEMMA HeadGone ==
    ASSUME NEW n \in Nodes, NEW b \in BucketNumbers, NEW bucket \in Seq(ContactRecord),
           NEW doubles, Sound(n, b, bucket, doubles), NEW o \in Nodes
    PROVE  /\ WithoutHead(bucket) \in Seq(ContactRecord)
           /\ Len(WithoutHead(bucket)) < K
           /\ Sound(n, b, WithoutHead(bucket), doubles)
           /\ Has(WithoutHead(bucket), o) => Has(bucket, o)
<1>1. CASE bucket = <<>>
    <2>1. WithoutHead(bucket) = bucket /\ Len(bucket) = 0
        BY <1>1 DEF WithoutHead
    <2> QED
        BY <2>1, DhtAssumption
<1>2. CASE bucket # <<>>
    <2>1. WithoutHead(bucket) = Tail(bucket)
        BY <1>2 DEF WithoutHead
    <2>2. 1 \in 1 .. Len(bucket)
        BY <1>2, EmptySeq
    <2>3. Tail(bucket) = RemoveAt(bucket, 1)
        <3>1. Tail(bucket) = SubSeq(bucket, 2, Len(bucket))
            BY <1>2, TailIsSubSeq
        <3>2. SubSeq(bucket, 1, 0) = <<>>
            BY SubSeqEmpty
        <3>3. Tail(bucket) \in Seq(ContactRecord)
            BY <1>2, HeadTailProperties
        <3>4. <<>> \o SubSeq(bucket, 2, Len(bucket)) = SubSeq(bucket, 2, Len(bucket))
            BY <3>1, <3>3, ConcatEmptySeq
        <3>5. RemoveAt(bucket, 1) = SubSeq(bucket, 1, 1 - 1) \o SubSeq(bucket, 1 + 1, Len(bucket))
            BY Zenon DEF RemoveAt
        <3>6. 1 - 1 = 0 /\ 1 + 1 = 2
            OBVIOUS
        <3> QED
            BY <3>1, <3>2, <3>4, <3>5, <3>6
    <2>4. PICK rest : rest = RemoveAt(bucket, 1)
        OBVIOUS
    <2>5. /\ rest \in Seq(ContactRecord) /\ Len(rest) < K /\ Sound(n, b, rest, doubles)
          /\ (Has(rest, o) => Has(bucket, o))
        BY <2>2, <2>4, ShorterBucket, Zenon
    <2>6. WithoutHead(bucket) = rest
        BY <2>1, <2>3, <2>4
    <2> QED
        BY <2>5, <2>6
<1> QED
    BY <1>1, <1>2

(* insert keeps a table sound, whoever of the own network it is about.      *)
LEMMA InsertKeeps ==
    ASSUME NEW n \in Nodes, NEW t, NEW doubles, TableIsSound(n, t, doubles),
           NEW e \in ContactRecord, e.node = n \/ Fellow(n, e.node)
    PROVE  TableIsSound(n, InsertContact(t, n, e), doubles)
<1>1. CASE e.node = n
    BY <1>1 DEF InsertContact
<1>2. CASE e.node # n
    <2>1. PICK b : b = BucketIndex(n, e.node)
        OBVIOUS
    <2>2. e.node \in Nodes /\ Fellow(n, e.node)
        BY <1>2 DEF ContactRecord, Fellow
    <2>3. b \in BucketNumbers
        BY <2>1, <2>2, <1>2, HighestBit
    <2>4. t[b] \in Seq(ContactRecord) /\ Sound(n, b, t[b], doubles)
        BY <2>3 DEF TableIsSound
    <2>5. PICK new : new = InsertInto(t[b], e)
        OBVIOUS
    <2>6. new \in Seq(ContactRecord) /\ Sound(n, b, new, doubles)
        BY <2>1, <2>2, <2>3, <2>4, <2>5, NotedContact
    <2>7. InsertContact(t, n, e) = [t EXCEPT ![b] = new]
        BY <1>2, <2>1, <2>5, Zenon DEF InsertContact
    <2>8. TableIsSound(n, [t EXCEPT ![b] = new], doubles)
        BY <2>3, <2>6, BucketReplaced, Zenon
    <2> QED
        BY <2>7, <2>8, Zenon
<1> QED
    BY <1>1, <1>2

(* So does evict_and_insert; a node that the bucket has may be there twice. *)
LEMMA EvictKeeps ==
    ASSUME NEW n \in Nodes, NEW t, NEW doubles, TableIsSound(n, t, doubles),
           NEW e \in ContactRecord, Fellow(n, e.node),
           Has(t[BucketIndex(n, e.node)], e.node) => e.node \in doubles
    PROVE  TableIsSound(n, EvictAndInsert(t, n, e), doubles)
<1>1. PICK b : b = BucketIndex(n, e.node)
    OBVIOUS
<1>2. e.node \in Nodes /\ e.node # n
    BY DEF ContactRecord, Fellow
<1>3. b \in BucketNumbers
    BY <1>1, <1>2, HighestBit
<1>4. /\ t[b] \in Seq(ContactRecord) /\ Sound(n, b, t[b], doubles)
      /\ Has(t[b], e.node) => e.node \in doubles
    BY <1>1, <1>3 DEF TableIsSound
<1>5. PICK rest : rest = WithoutHead(t[b])
    OBVIOUS
<1>6. /\ rest \in Seq(ContactRecord) /\ Len(rest) < K /\ Sound(n, b, rest, doubles)
      /\ Has(rest, e.node) => e.node \in doubles
    BY <1>2, <1>3, <1>4, <1>5, HeadGone
<1>7. EvictAndInsert(t, n, e) = [t EXCEPT ![b] = Append(rest, e)]
    BY <1>1, <1>5, Zenon DEF EvictAndInsert, WithoutHead
<1>8. Append(rest, e) \in Seq(ContactRecord) /\ Sound(n, b, Append(rest, e), doubles)
    BY <1>1, <1>3, <1>6, AppendedContact
<1>9. TableIsSound(n, [t EXCEPT ![b] = Append(rest, e)], doubles)
    BY <1>3, <1>8, BucketReplaced, Zenon
<1> QED
    BY <1>7, <1>9, Zenon

-----------------------------------------------------------------------------
(* What the invariant says of one table.                                    *)
LEMMA OwnTable == ASSUME DhtInv, NEW n \in Nodes PROVE TableIsSound(n, tables[n], doubled[n])
BY DEF DhtInv, DhtTyped, TablesAreSound, TableIsSound, Sound, BucketNumbers

(* Of more contacts it may be said that they are there twice.               *)
LEMMA MoreDoubles ==
    ASSUME NEW n \in Nodes, NEW t, NEW doubles, TableIsSound(n, t, doubles),
           NEW more, doubles \subseteq more
    PROVE  TableIsSound(n, t, more)
BY Zenon DEF TableIsSound, Sound, EachIsOnceBut

(* One table that changes as tables may.                                    *)
TablesHoldUp ==
    /\ tables \in [Nodes -> [BucketNumbers -> Seq(ContactRecord)]]
    /\ \A n \in Nodes : TableIsSound(n, tables[n], doubled[n])

LEMMA TablesMove ==
    ASSUME DhtInv, NEW n \in Nodes, NEW t, TableIsSound(n, t, doubled'[n]),
           tables' = [tables EXCEPT ![n] = t],
           \A o \in Nodes \ {n} : doubled'[o] = doubled[o]
    PROVE  TablesHoldUp'
<1>1. t \in [BucketNumbers -> Seq(ContactRecord)]
    BY DEF TableIsSound
<1>2. tables \in [Nodes -> [BucketNumbers -> Seq(ContactRecord)]]
    BY DEF DhtInv, DhtTyped
<1>3. tables' \in [Nodes -> [BucketNumbers -> Seq(ContactRecord)]]
    BY <1>1, <1>2
<1>4. ASSUME NEW o \in Nodes PROVE tables'[o] = IF o = n THEN t ELSE tables[o]
    BY <1>2
<1>5. ASSUME NEW o \in Nodes
      PROVE  TableIsSound(o, tables'[o], doubled'[o])
    <2>1. CASE o = n
        BY <2>1, <1>4
    <2>2. CASE o # n
        BY <2>2, <1>4, OwnTable
    <2> QED
        BY <2>1, <2>2
<1> QED
    BY <1>3, <1>5 DEF TablesHoldUp

(* The three parts of the invariant make it up.                             *)
LEMMA PartsMakeUp ==
    ASSUME DhtTyped', TablesHoldUp', \A n \in Nodes : StoreIsSound(n)'
    PROVE  DhtInv'
<1>1. ASSUME NEW n \in Nodes, NEW b \in BucketNumbers
      PROVE  (BucketIsSound(n, b, tables[n][b]) /\ EachIsOnceBut(doubled[n], tables[n][b]))'
    BY DEF TablesHoldUp, TableIsSound, Sound
<1> QED
    BY <1>1, Zenon DEF DhtInv, TablesAreSound, BucketNumbers

(* What is stored was sent or given, and stays so as more is.               *)
LEMMA StoresStay ==
    ASSUME DhtInv, UNCHANGED <<stores, added>>, transit \subseteq transit'
    PROVE  \A n \in Nodes : StoreIsSound(n)'
BY DEF DhtInv, DhtTyped, TablesAreSound, StoreIsSound

(* Empty tables and stores are sound.                                       *)
LEMMA DhtInitHolds == DhtInit => DhtInv
<1> SUFFICES ASSUME DhtInit PROVE DhtInv
    OBVIOUS
<1>1. DhtTyped
    BY DEF DhtInit, DhtTyped, BucketNumbers
<1>2. \A n \in Nodes : StoreIsSound(n)
    BY DEF DhtInit, StoreIsSound
<1>3. ASSUME NEW n \in Nodes, NEW b \in 0 .. Bits - 1
      PROVE  BucketIsSound(n, b, tables[n][b]) /\ EachIsOnceBut(doubled[n], tables[n][b])
    <2>1. tables[n][b] = <<>>
        BY DEF DhtInit
    <2>2. Len(<<>>) = 0 /\ DOMAIN <<>> = {}
        OBVIOUS
    <2> QED
        BY <2>1, <2>2, DhtAssumption DEF BucketIsSound, EachIsOnceBut
<1> QED
    BY <1>1, <1>2, <1>3 DEF DhtInv, TablesAreSound

(* A reply goes back, in the name of who replies.                           *)
LEMMA RepliesAreSigned ==
    ASSUME NEW n \in Nodes, NEW m, m.sender \in Nodes, NEW r \in Reply(n, m)
    PROVE  r.to \in Nodes /\ r.sender \in Nodes /\ r.network = NetworkOf[r.sender]
<1>1. PICK type, key, value, nodes : r = Message(m.sender, type, n, key, value, nodes)
    BY Zenon DEF Reply, NoReply
<1> QED
    BY <1>1 DEF Message

(* A store with one more entry holds what it held and that one.             *)
LEMMA StoredHolds ==
    ASSUME DhtTyped, NEW n \in Nodes, NEW key, NEW value,
           stores' = [stores EXCEPT ![n] = Stored(@, key, value)]
    PROVE  /\ stores' = [o \in Nodes |-> stores'[o]]
           /\ \A o \in Nodes : \A s \in stores'[o] :
                  s \in stores[o] \/ (o = n /\ s = [key |-> key, value |-> value])
<1>1. stores = [o \in Nodes |-> stores[o]]
    BY DEF DhtTyped
<1>2. PICK new : new = Stored(stores[n], key, value)
    OBVIOUS
<1>3. \A s \in new : s \in stores[n] \/ s = [key |-> key, value |-> value]
    BY <1>2, Zenon DEF Stored
<1>4. stores' = [stores EXCEPT ![n] = new]
    BY <1>2, Zenon
<1>5. \A o \in Nodes : stores'[o] = IF o = n THEN new ELSE stores[o]
    BY <1>1, <1>4
<1>6. stores' = [o \in Nodes |-> stores'[o]]
    BY <1>1, <1>4
<1> QED
    BY <1>3, <1>5, <1>6

(* handle_message: the sender is of the own network, or nothing happens.    *)
LEMMA ReceiveHolds ==
    ASSUME DhtInv, NEW m \in transit, Receive(m)
    PROVE  DhtInv'
<1>1. m.to \in Nodes /\ m.sender \in Nodes /\ NetworkOf[m.sender] = NetworkOf[m.to]
    BY DEF DhtInv, DhtTyped, Receive, Accepts
<1>2. PICK t : t = IF m.type \in {"FoundNode", "FoundValue"} THEN tables[m.to]
                  ELSE InsertContact(tables[m.to], m.to, Contact(m.sender, "none"))
    OBVIOUS
<1>3. tables' = [tables EXCEPT ![m.to] = t]
    BY <1>2, Zenon DEF Receive
<1>4. TableIsSound(m.to, t, doubled[m.to])
    <2>1. TableIsSound(m.to, tables[m.to], doubled[m.to])
        BY <1>1, OwnTable
    <2>2. PICK e : e = Contact(m.sender, "none")
        OBVIOUS
    <2>3. e \in ContactRecord /\ e.node = m.sender
        BY <2>2, <1>1 DEF Contact, ContactRecord
    <2>4. e.node = m.to \/ Fellow(m.to, e.node)
        BY <2>3, <1>1 DEF Fellow
    <2>5. TableIsSound(m.to, InsertContact(tables[m.to], m.to, e), doubled[m.to])
        BY <1>1, <2>1, <2>3, <2>4, InsertKeeps
    <2> QED
        BY <1>2, <2>1, <2>2, <2>5
<1>5. /\ transit' = transit \cup Reply(m.to, m) /\ probes' = probes
      /\ added' = added /\ doubled' = doubled
    BY DEF Receive
<1>6. TablesHoldUp'
    BY <1>1, <1>3, <1>4, <1>5, TablesMove
<1>7. \A r \in transit' : r.to \in Nodes /\ r.sender \in Nodes /\ r.network = NetworkOf[r.sender]
    BY <1>1, <1>5, RepliesAreSigned DEF DhtInv, DhtTyped
<1>8. stores' = [n \in Nodes |-> stores'[n]] /\ \A n \in Nodes : StoreIsSound(n)'
    <2>1. CASE m.type # "Store"
        <3>1. UNCHANGED <<stores, added>> /\ transit \subseteq transit'
            BY <2>1, <1>5 DEF Receive
        <3> QED
            BY <3>1, StoresStay DEF DhtInv, DhtTyped
    <2>2. CASE m.type = "Store"
        <3>1. stores' = [stores EXCEPT ![m.to] = Stored(@, m.key, m.value)]
            BY <2>2 DEF Receive
        <3>2. /\ stores' = [n \in Nodes |-> stores'[n]]
              /\ \A n \in Nodes : \A s \in stores'[n] :
                     s \in stores[n] \/ (n = m.to /\ s = [key |-> m.key, value |-> m.value])
            BY <1>1, <3>1, StoredHolds DEF DhtInv
        <3>3. ASSUME NEW n \in Nodes, NEW s \in stores'[n]
              PROVE  s \in added'[n] \/ \E l \in transit' : /\ l.type = "Store" /\ l.to = n
                                                           /\ l.network = NetworkOf[n]
                                                           /\ l.key = s.key /\ l.value = s.value
            <4>1. CASE s \in stores[n]
                BY <4>1, <1>5 DEF DhtInv, TablesAreSound, StoreIsSound
            <4>2. CASE s \notin stores[n]
                <5>1. n = m.to /\ s = [key |-> m.key, value |-> m.value]
                    BY <4>2, <3>2
                <5>2. m.network = NetworkOf[m.to] /\ m \in transit'
                    BY <1>5 DEF Receive, Accepts
                <5> QED
                    BY <2>2, <5>1, <5>2
            <4> QED
                BY <4>1, <4>2
        <3> QED
            BY <3>2, <3>3 DEF StoreIsSound
    <2> QED
        BY <2>1, <2>2
<1>9. DhtTyped'
    BY <1>5, <1>6, <1>7, <1>8 DEF DhtInv, DhtTyped, TablesHoldUp
<1> QED
    BY <1>6, <1>8, <1>9, PartsMakeUp

(* What is given to a store is on record.                                   *)
LEMMA StoreLocalHolds ==
    ASSUME DhtInv, NEW n \in Nodes, NEW key, NEW value, StoreLocal(n, key, value)
    PROVE  DhtInv'
<1>1. PICK new : new = [key |-> key, value |-> value]
    OBVIOUS
<1>2. /\ tables' = tables /\ transit' = transit /\ probes' = probes /\ doubled' = doubled
      /\ added' = [added EXCEPT ![n] = @ \cup {new}]
    BY <1>1 DEF StoreLocal
<1>3. /\ stores' = [o \in Nodes |-> stores'[o]]
      /\ \A o \in Nodes : \A s \in stores'[o] : s \in stores[o] \/ (o = n /\ s = new)
    BY <1>1, StoredHolds DEF DhtInv, StoreLocal
<1>4. /\ added' = [o \in Nodes |-> added'[o]]
      /\ \A o \in Nodes : added[o] \subseteq added'[o] /\ (o = n => new \in added'[o])
    BY <1>2 DEF DhtInv, DhtTyped
<1>5. \A o \in Nodes : StoreIsSound(o)'
    BY <1>2, <1>3, <1>4 DEF DhtInv, TablesAreSound, StoreIsSound
<1>6. DhtTyped'
    BY <1>2, <1>3, <1>4 DEF DhtInv, DhtTyped
<1>7. TablesHoldUp'
    BY <1>2, <1>6, OwnTable, Zenon DEF TablesHoldUp, DhtTyped
<1> QED
    BY <1>5, <1>6, <1>7, PartsMakeUp

(* A request adds a message, and nothing else.                              *)
LEMMA RequestHolds ==
    ASSUME DhtInv, NEW n \in Nodes, NEW o \in Nodes, SendRequest(n, o)
    PROVE  DhtInv'
<1>1. PICK type, key, value : transit' = transit \cup {Message(o, type, n, key, value, {})}
    <2>1. PICK m \in Requests(n, o) : transit' = transit \cup {m}
        BY Zenon DEF SendRequest
    <2>2. \E type, key, value : m = Message(o, type, n, key, value, {})
        BY DEF Requests
    <2> QED
        BY <2>1, <2>2
<1>2. /\ tables' = tables /\ stores' = stores /\ probes' = probes
      /\ added' = added /\ doubled' = doubled
    BY DEF SendRequest
<1>3. \A m \in transit' : m.to \in Nodes /\ m.sender \in Nodes /\ m.network = NetworkOf[m.sender]
    BY <1>1 DEF DhtInv, DhtTyped, Message
<1>4. \A i \in Nodes : StoreIsSound(i)'
    BY <1>1, <1>2, StoresStay
<1>5. DhtTyped'
    BY <1>2, <1>3 DEF DhtInv, DhtTyped
<1>6. TablesHoldUp'
    BY <1>2, <1>5, OwnTable, Zenon DEF TablesHoldUp, DhtTyped
<1> QED
    BY <1>4, <1>5, <1>6, PartsMakeUp

(* A bootstrap node is of the own network.                                  *)
LEMMA ContactHolds ==
    ASSUME DhtInv, NEW n \in Nodes, NEW c \in Nodes, AddContact(n, c)
    PROVE  DhtInv'
<1>1. Fellow(n, c)
    BY DEF AddContact, Fellow
<1>2. PICK e : e = Contact(c, "known")
    OBVIOUS
<1>3. e \in ContactRecord /\ e.node = c
    BY <1>2 DEF Contact, ContactRecord
<1>4. PICK t : t = InsertContact(tables[n], n, e)
    OBVIOUS
<1>5. TableIsSound(n, t, doubled[n])
    BY <1>1, <1>3, <1>4, OwnTable, InsertKeeps
<1>6. tables' = [tables EXCEPT ![n] = t]
    BY <1>2, <1>4, Zenon DEF AddContact
<1>7. /\ stores' = stores /\ transit' = transit /\ added' = added /\ doubled' = doubled
      /\ probes' = probes \/ probes' = [probes EXCEPT ![n][c] = @ + 1]
    BY DEF AddContact
<1>8. TablesHoldUp'
    BY <1>5, <1>6, <1>7, TablesMove
<1>9. \A i \in Nodes : StoreIsSound(i)'
    BY <1>7, StoresStay
<1>10. /\ probes' \in [Nodes -> [Nodes -> Nat]]
       /\ \A i, j \in Nodes : probes'[i][j] > 0 => Fellow(i, j)
    <2>1. /\ probes \in [Nodes -> [Nodes -> Nat]]
          /\ \A i, j \in Nodes : probes[i][j] > 0 => Fellow(i, j)
        BY DEF DhtInv, DhtTyped
    <2>2. CASE probes' = [probes EXCEPT ![n][c] = @ + 1]
        <3>1. probes' \in [Nodes -> [Nodes -> Nat]]
            BY <2>1, <2>2
        <3>2. \A i, j \in Nodes : probes'[i][j] = probes[i][j] \/ (i = n /\ j = c)
            BY <2>1, <2>2
        <3> QED
            BY <1>1, <2>1, <3>1, <3>2
    <2> QED
        BY <1>7, <2>1, <2>2
<1>11. DhtTyped'
    BY <1>7, <1>8, <1>10 DEF DhtInv, DhtTyped, TablesHoldUp
<1> QED
    BY <1>8, <1>9, <1>11, PartsMakeUp

(* The end of a probe, with an eviction or without.                         *)
LEMMA ProbeHolds ==
    ASSUME DhtInv, NEW n \in Nodes, NEW c \in Nodes, ProbeTimesOut(n, c) \/ ProbeAnswered(n, c)
    PROVE  DhtInv'
<1>1. /\ Fellow(n, c) /\ probes \in [Nodes -> [Nodes -> Nat]] /\ probes[n][c] > 0
      /\ doubled = [o \in Nodes |-> doubled[o]]
    BY DEF DhtInv, DhtTyped, ProbeTimesOut, ProbeAnswered
<1>2. /\ stores' = stores /\ transit' = transit /\ added' = added
      /\ probes' = [probes EXCEPT ![n][c] = @ - 1]
    BY DEF ProbeTimesOut, ProbeAnswered
<1>3. PICK e : e = Contact(c, "known")
    OBVIOUS
<1>4. e \in ContactRecord /\ e.node = c
    BY <1>3 DEF Contact, ContactRecord
<1>5. /\ doubled' = [o \in Nodes |-> doubled'[o]]
      /\ \A o \in Nodes \ {n} : doubled'[o] = doubled[o]
      /\ doubled[n] \subseteq doubled'[n]
      /\ ProbeTimesOut(n, c) /\ Has(tables[n][BucketIndex(n, c)], c) => c \in doubled'[n]
    <2>1. doubled' = doubled \/ doubled' = [doubled EXCEPT ![n] = @ \cup {c}]
        BY DEF ProbeTimesOut, ProbeAnswered
    <2>2. ProbeTimesOut(n, c) /\ Has(tables[n][BucketIndex(n, c)], c)
             => doubled' = [doubled EXCEPT ![n] = @ \cup {c}]
        BY DEF ProbeTimesOut
    <2> QED
        BY <1>1, <2>1, <2>2
<1>6. TablesHoldUp'
    <2>1. TableIsSound(n, tables[n], doubled'[n])
        BY <1>5, OwnTable, MoreDoubles
    <2>2. CASE ProbeTimesOut(n, c)
        <3>1. PICK t : t = EvictAndInsert(tables[n], n, e)
            OBVIOUS
        <3>2. tables' = [tables EXCEPT ![n] = t]
            BY <2>2, <3>1, <1>3, Zenon DEF ProbeTimesOut
        <3>3. TableIsSound(n, t, doubled'[n])
            BY <1>1, <1>4, <1>5, <2>1, <2>2, <3>1, EvictKeeps
        <3> QED
            BY <1>5, <3>2, <3>3, TablesMove
    <2>3. CASE ProbeAnswered(n, c)
        <3>1. tables' = tables /\ doubled' = doubled
            BY <2>3 DEF ProbeAnswered
        <3>2. tables' \in [Nodes -> [BucketNumbers -> Seq(ContactRecord)]]
            BY <3>1 DEF DhtInv, DhtTyped
        <3> QED
            BY <3>1, <3>2, OwnTable, Zenon DEF TablesHoldUp
    <2> QED
        BY <2>2, <2>3
<1>7. \A i \in Nodes : StoreIsSound(i)'
    BY <1>2, StoresStay
<1>8. /\ probes' \in [Nodes -> [Nodes -> Nat]]
      /\ \A i, j \in Nodes : probes'[i][j] > 0 => probes[i][j] > 0
    <2>1. PICK k \in Nat : probes[n][c] = k + 1
        <3>1. probes[n][c] \in Nat
            BY <1>1
        <3>2. probes[n][c] - 1 \in Nat /\ probes[n][c] = (probes[n][c] - 1) + 1
            BY <1>1, <3>1
        <3> QED
            BY <3>2
    <2>2. probes' = [probes EXCEPT ![n][c] = k]
        <3>1. probes[n][c] - 1 = k
            BY <2>1
        <3> QED
            BY <1>2, <3>1, Zenon
    <2> QED
        BY <1>1, <2>1, <2>2
<1>9. DhtTyped'
    BY <1>2, <1>5, <1>6, <1>8 DEF DhtInv, DhtTyped, TablesHoldUp
<1> QED
    BY <1>6, <1>7, <1>9, PartsMakeUp

(* Whatever is sent, lost, repeated or delayed, and however many refused    *)
(* contacts wait for a PING, a node's buckets hold up to K others of its    *)
(* own network where their ids belong, each once unless an eviction put it  *)
(* in beside itself, and its store what was sent in its network or given by *)
(* its caller (RoutingTable::insert, evict_and_insert, handle_message,      *)
(* store_local).                                                            *)
THEOREM TablesHold == DhtSpec => []TablesAreSound
<1>1. DhtInv /\ [DhtNext]_dhtVars => DhtInv'
    <2>1. DhtInv /\ UNCHANGED dhtVars => DhtInv'
        <3> SUFFICES ASSUME DhtInv, UNCHANGED dhtVars PROVE DhtInv'
            OBVIOUS
        <3>1. /\ tables' = tables /\ stores' = stores /\ transit' = transit /\ probes' = probes
              /\ added' = added /\ doubled' = doubled
            BY DEF dhtVars
        <3>2. DhtTyped'
            BY <3>1 DEF DhtInv, DhtTyped
        <3>3. TablesAreSound'
            BY <3>1, Zenon DEF DhtInv, TablesAreSound, StoreIsSound
        <3> QED
            BY <3>2, <3>3 DEF DhtInv
    <2>2. Askers \subseteq Nodes
        BY DhtAssumption
    <2> QED
        BY <2>1, <2>2, ReceiveHolds, StoreLocalHolds, RequestHolds, ContactHolds, ProbeHolds
           DEF DhtNext
<1>2. DhtInv => TablesAreSound
    BY DEF DhtInv
<1> QED
    BY DhtInitHolds, <1>1, <1>2, PTL DEF DhtSpec
-----------------------------------------------------------------------------
(* Super-seeding.  That a piece in the list of offers was shown to somebody *)
(* survives every retain: remove_peer and cleanup_expired forget offers,    *)
(* never that a piece was offered.                                          *)
OfferRecord == [piece : SeedPieces, peer : SeedPeers, age : Nat, requested : BOOLEAN]

SeedInv ==
    /\ offers \in Seq(OfferRecord) /\ offeredPieces \subseteq SeedPieces
    /\ registered \subseteq SeedPeers /\ shown = offeredPieces
    /\ \A i \in DOMAIN offers : offers[i].piece \in offeredPieces

(* Retaining some offers adds none, and the rest were offered before.       *)
LEMMA RetainKeeps ==
    ASSUME SeedInv, NEW places, places \subseteq DOMAIN offers, Retain(places),
           offeredPieces' = offeredPieces
    PROVE  /\ Len(offers') <= Len(offers)
           /\ offers' \in Seq(OfferRecord)
           /\ \A i \in DOMAIN offers' : offers'[i].piece \in offeredPieces'
<1>1. DOMAIN offers = 1 .. Len(offers) /\ Len(offers) \in Nat
    BY DEF SeedInv
<1>2. IsFiniteSet(1 .. Len(offers)) /\ Cardinality(1 .. Len(offers)) = Len(offers)
    BY <1>1, FS_Interval, SMTT(30)
<1>3. /\ IsFiniteSet(places) /\ Cardinality(places) \in Nat
      /\ Cardinality(places) <= Len(offers)
    BY <1>1, <1>2, FS_Subset, FS_CardinalityType
<1> DEFINE count == Cardinality(places)
<1>4. PICK from \in [1 .. count -> places] :
          offers' = [i \in 1 .. count |-> offers[from[i]]]
    BY DEF Retain
<1> HIDE DEF count
<1>5. count \in Nat /\ count <= Len(offers)
    BY <1>3 DEF count
<1>6. \A i \in 1 .. count : /\ offers[from[i]] \in OfferRecord
                            /\ offers[from[i]].piece \in offeredPieces
    BY <1>1, <1>4 DEF SeedInv
<1>7. offers' \in Seq(OfferRecord) /\ Len(offers') = count
    BY <1>4, <1>5, <1>6
<1> QED
    BY <1>4, <1>5, <1>6, <1>7

LEMMA SeedInitHolds == SeedInit => SeedInv
BY DEF SeedInit, SeedInv

(* What a step leaves of the offers has as many or fewer, and was offered.  *)
SeedStep ==
    /\ SeedInv'
    /\ Len(offers') > Len(offers) =>
          LET new == offers'[Len(offers')]
          IN  /\ new.piece \notin AlreadyOffered(new.peer)
              /\ new.piece \in offeredPieces => offeredPieces = SeedPieces

(* The piece that select_piece_for names: where it was offered before, none *)
(* is fresh, for the first fresh piece is in nobody's offers.               *)
LEMMA SelectedPiece ==
    ASSUME SeedInv, NEW peer, NEW p \in SelectPieceFor(peer)
    PROVE  /\ p \in SeedPieces
           /\ p \notin AlreadyOffered(peer)
           /\ p \in offeredPieces => offeredPieces = SeedPieces
<1> DEFINE fresh == SeedPieces \ offeredPieces
           first == {f \in fresh : \A g \in fresh : f <= g}
<1>1. AlreadyOffered(peer) \subseteq offeredPieces
    <2>1. \A x \in ToSet(offers) : x.piece \in offeredPieces
        BY DEF ToSet, SeedInv
    <2> QED
        BY <2>1 DEF AlreadyOffered
<1>2. fresh \subseteq Nat
    BY DEF SeedPieces
<1>3. first = {} => fresh = {}
    BY <1>2, LeastNumber
<1>4. first \cap AlreadyOffered(peer) = {}
    BY <1>1
<1>5. CASE first # {}
    <2>1. p \in first
        BY <1>4, <1>5 DEF SelectPieceFor
    <2> QED
        BY <1>4, <2>1
<1>6. CASE first = {}
    <2>1. p \in LeastSpread(peer)
        BY <1>6 DEF SelectPieceFor
    <2>2. p \in SeedPieces \ AlreadyOffered(peer)
        BY <2>1 DEF LeastSpread
    <2>3. offeredPieces = SeedPieces
        BY <1>3, <1>6 DEF SeedInv
    <2> QED
        BY <2>2, <2>3
<1> QED
    BY <1>5, <1>6

LEMMA OfferKeeps ==
    ASSUME SeedInv, NEW peer \in SeedPeers, Offer(peer)
    PROVE  SeedStep
<1>1. PICK p \in SelectPieceFor(peer) :
          /\ offers' = Append(offers, [piece |-> p, peer |-> peer, age |-> 0, requested |-> FALSE])
          /\ offeredPieces' = offeredPieces \cup {p} /\ shown' = shown \cup {p}
          /\ registered' = registered
    BY DEF Offer
<1>2. /\ p \in SeedPieces /\ p \notin AlreadyOffered(peer)
      /\ p \in offeredPieces => offeredPieces = SeedPieces
    BY SelectedPiece
<1> DEFINE new == [piece |-> p, peer |-> peer, age |-> 0, requested |-> FALSE]
<1>3. new \in OfferRecord /\ new.piece = p /\ new.peer = peer
    BY <1>2 DEF OfferRecord
<1> HIDE DEF new
<1>4. offers' = Append(offers, new)
    BY <1>1 DEF new
<1>5. /\ offers' \in Seq(OfferRecord) /\ Len(offers') = Len(offers) + 1
      /\ offers'[Len(offers')] = new /\ Len(offers) \in Nat
      /\ \A i \in DOMAIN offers' : (i \in DOMAIN offers /\ offers'[i] = offers[i]) \/ offers'[i] = new
    BY <1>3, <1>4 DEF SeedInv
<1>6. SeedInv'
    BY <1>1, <1>2, <1>3, <1>5 DEF SeedInv, SeedPieces
<1> QED
    BY <1>2, <1>3, <1>5, <1>6 DEF SeedStep

LEMMA SeedNextHolds ==
    ASSUME SeedInv, [SeedNext]_seedVars
    PROVE  SeedStep
<1>0. Len(offers) \in Nat /\ DOMAIN offers = 1 .. Len(offers)
    BY DEF SeedInv
<1>1. ASSUME NEW places, places \subseteq DOMAIN offers, Retain(places),
             UNCHANGED <<offeredPieces, shown>>, registered' \subseteq registered
      PROVE  SeedStep
    <2>1. ~ (Len(offers') > Len(offers)) /\ SeedInv'
        <3>1. /\ Len(offers') <= Len(offers) /\ offers' \in Seq(OfferRecord)
              /\ \A i \in DOMAIN offers' : offers'[i].piece \in offeredPieces'
            BY <1>1, RetainKeeps
        <3>2. Len(offers') \in Nat
            BY <3>1
        <3> QED
            BY <1>0, <1>1, <3>1, <3>2 DEF SeedInv, SeedPieces
    <2> QED
        BY <2>1 DEF SeedStep
<1>2. ASSUME offers' \in Seq(OfferRecord), Len(offers') = Len(offers),
             \A i \in DOMAIN offers : offers'[i].piece = offers[i].piece,
             UNCHANGED <<offeredPieces, shown>>, registered' \subseteq SeedPeers
      PROVE  SeedStep
    <2>1. DOMAIN offers' = DOMAIN offers
        BY <1>0, <1>2
    <2> QED
        BY <1>0, <1>2, <2>1 DEF SeedStep, SeedInv, SeedPieces
<1>3. ASSUME NEW peer \in SeedPeers, RegisterPeer(peer)
      PROVE  SeedStep
    BY <1>2, <1>3 DEF RegisterPeer, SeedInv
<1>4. ASSUME NEW peer \in SeedPeers, RemovePeer(peer)
      PROVE  SeedStep
    <2> DEFINE places == {i \in DOMAIN offers : offers[i].peer # peer}
    <2>1. /\ places \subseteq DOMAIN offers /\ Retain(places)
          /\ UNCHANGED <<offeredPieces, shown>> /\ registered' \subseteq registered
        BY <1>4 DEF RemovePeer
    <2> HIDE DEF places
    <2> QED
        BY <1>1, <2>1
<1>5. ASSUME NEW peer \in SeedPeers, NEW p \in SeedPieces, MarkRequested(p, peer)
      PROVE  SeedStep
    <2>1. PICK i \in DOMAIN offers : offers' = [offers EXCEPT ![i].requested = TRUE]
        BY <1>5 DEF MarkRequested
    <2>2. offers[i] \in OfferRecord
        BY DEF SeedInv
    <2>3. /\ [offers[i] EXCEPT !.requested = TRUE] \in OfferRecord
          /\ [offers[i] EXCEPT !.requested = TRUE].piece = offers[i].piece
        BY <2>2 DEF OfferRecord
    <2>4. offers' \in Seq(OfferRecord) /\ Len(offers') = Len(offers)
        BY <1>0, <2>1, <2>3 DEF SeedInv
    <2>5. \A j \in DOMAIN offers : offers'[j].piece = offers[j].piece
        BY <1>0, <2>1, <2>3 DEF SeedInv
    <2> QED
        BY <1>2, <1>5, <2>4, <2>5 DEF MarkRequested, SeedInv
<1>6. ASSUME NEW peer \in SeedPeers, NEW p \in SeedPieces, RecordPeerHasPiece(p, peer)
      PROVE  SeedStep
    BY <1>2, <1>6 DEF RecordPeerHasPiece, SeedInv
<1>7. CASE CleanupExpired
    <2> DEFINE places == {i \in DOMAIN offers : ~IsExpired(offers[i])}
    <2>1. /\ places \subseteq DOMAIN offers /\ Retain(places)
          /\ UNCHANGED <<offeredPieces, shown>> /\ registered' \subseteq registered
        BY <1>7 DEF CleanupExpired
    <2> HIDE DEF places
    <2> QED
        BY <1>1, <2>1
<1>8. CASE SeedTick
    <2> DEFINE aged(o) == [o EXCEPT !.age = IF @ <= OfferAge THEN @ + 1 ELSE @]
    <2>1. \A o \in OfferRecord : aged(o) \in OfferRecord /\ aged(o).piece = o.piece
        BY DEF OfferRecord
    <2>2. offers' = [i \in DOMAIN offers |-> aged(offers[i])]
        BY <1>8 DEF SeedTick
    <2>3. \A i \in DOMAIN offers : offers[i] \in OfferRecord
        BY DEF SeedInv
    <2> HIDE DEF aged
    <2>4. offers' \in Seq(OfferRecord) /\ Len(offers') = Len(offers)
        BY <1>0, <2>1, <2>2, <2>3
    <2>5. \A i \in DOMAIN offers : offers'[i].piece = offers[i].piece
        BY <2>1, <2>2, <2>3
    <2> QED
        BY <1>2, <1>8, <2>4, <2>5 DEF SeedTick, SeedInv
<1>9. CASE UNCHANGED seedVars
    BY <1>2, <1>9 DEF seedVars, SeedInv
<1> QED
    BY <1>3, <1>4, OfferKeeps, <1>5, <1>6, <1>7, <1>8, <1>9 DEF SeedNext

(* For any number of pieces and peers and any limits: the seed shows a      *)
(* piece twice only when it has shown every one, and no peer is shown what  *)
(* it has an open offer for, whoever leaves and whatever expires between.   *)
THEOREM SeedingIsDiverse == SeedSpec => DiversityFirst
<1>1. SeedInv /\ [SeedNext]_seedVars => SeedInv'
    BY SeedNextHolds DEF SeedStep
<1>2. SeedInv /\ [SeedNext]_seedVars =>
          [Len(offers') > Len(offers) =>
              LET new == offers'[Len(offers')]
              IN  /\ new.piece \notin AlreadyOffered(new.peer)
                  /\ new.piece \in shown => shown = SeedPieces]_seedVars
    BY SeedNextHolds DEF SeedStep, SeedInv
<1> QED
    BY SeedInitHolds, <1>1, <1>2, PTL DEF SeedSpec, DiversityFirst
=============================================================================
