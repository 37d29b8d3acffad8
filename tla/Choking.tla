------------------------------- MODULE Choking ------------------------------
(***************************************************************************)
(* Who is sent data (p2p-distribute): TitForTatChoking (choking.rs), which *)
(* ranks peers by speed and credit, and the CreditLedger (credit.rs) that  *)
(* is filled by what peers send and take.                                  *)
(***************************************************************************)
EXTENDS Integers, FiniteSetsExt

CONSTANTS
    PeerCount,      \* peer_count; peers are their indices
    Speeds,         \* ewma speeds
    RegularSlots,   \* regular_slots
    Interval,       \* optimistic_interval
    Headroom,       \* the 2 KB/s of the auto-scaling
    FloorBytes,     \* DOWNLOAD_FLOOR_BYTES
    MaxModifier,    \* MAX_MODIFIER
    MaxBytes,       \* bound: bytes exchanged with a peer
    KeepFor,        \* max_age_secs of prune; ages stop growing after it
    Cycle           \* a multiple of the length of every list of choked peers

(* new keeps an interval of one at least; the quotients of credit.rs have   *)
(* the floor below them.                                                    *)
ASSUME ChokingAssumption ==
    /\ PeerCount \in Nat /\ RegularSlots \in Nat
    /\ Interval \in Nat \ {0} /\ Cycle \in Nat \ {0}
    /\ \A m \in 1 .. (PeerCount - RegularSlots) : Cycle % m = 0
    /\ Speeds \subseteq Nat /\ FloorBytes \in Nat \ {0} /\ MaxModifier \in Nat

VARIABLES
    speed,          \* [peers -> speed]
    autoScale,      \* auto_scale_slots
    ledger,         \* CreditLedger: [peers -> entry]
    evaluations,    \* eval_counter, modulo Interval
    optimistic,     \* optimistic_index, modulo Cycle
    passedOver      \* history: evaluations that left a peer choked in a row,
                    \* since speeds or credit last changed

chokingVars == <<speed, autoScale, ledger, evaluations, optimistic, passedOver>>

ChokePeers == 0 .. PeerCount - 1

(* CreditEntry; an entry that is not there weighs what a new one does.      *)
NoCredit == [received |-> 0, sent |-> 0, age |-> 0]

ChokingInit ==
    /\ speed \in [ChokePeers -> Speeds] /\ autoScale \in BOOLEAN
    /\ ledger = [p \in ChokePeers |-> NoCredit]
    /\ evaluations = 0 /\ optimistic = 0
    /\ passedOver = [p \in ChokePeers |-> 0]

-----------------------------------------------------------------------------
(* credit_modifier, and credit_weight: at least one.  The quotient is kept  *)
(* as a pair.                                                               *)
CreditWeight(e) ==
    LET taken == IF e.sent > FloorBytes THEN e.sent ELSE FloorBytes
        given == 2 * e.received
    IN  IF given < taken THEN <<1, 1>>
        ELSE IF given > MaxModifier * taken THEN <<MaxModifier, 1>>
        ELSE <<given, taken>>

Weighted(p) == LET w == CreditWeight(ledger[p]) IN (speed[p] * w[1]) \div w[2]

Weights == [p \in ChokePeers |-> Weighted(p)]

(* The place of a peer in the sort by weight w, the best first; the sort is *)
(* stable: peers of equal weight stay in the order of their indices.        *)
Place(w, p) ==
    1 + Cardinality({q \in ChokePeers : w[q] > w[p] \/ (w[q] = w[p] /\ q < p)})

(* The peers in a slot that send at all are about as fast as their average. *)
AllSlotsUsed(w) ==
    LET top == {p \in ChokePeers : Place(w, p) <= RegularSlots /\ w[p] > 0}
        average == MapThenSumSet(LAMBDA p : w[p], top) \div Cardinality(top)
    IN  top # {} /\ \A p \in top : w[p] + Headroom >= average

(* The slots: one more when those there are are used.                       *)
Slots ==
    IF autoScale /\ RegularSlots > 0 /\ AllSlotsUsed(Weights)
    THEN IF RegularSlots < PeerCount THEN RegularSlots + 1 ELSE PeerCount
    ELSE RegularSlots

(* The choked peer the optimistic slot points at, in the order of rank.     *)
Lucky(index) ==
    IF Slots >= PeerCount THEN {}
    ELSE {p \in ChokePeers : Place(Weights, p) = Slots + 1 + (index % (PeerCount - Slots))}

Unchoked(index) == {p \in ChokePeers : Place(Weights, p) <= Slots} \cup Lucky(index)

Decided(count, index) ==
    /\ evaluations' = count /\ optimistic' = index
    /\ passedOver' = [p \in ChokePeers |->
                         IF p \in Unchoked(index) THEN 0 ELSE passedOver[p] + 1]
    /\ UNCHANGED <<speed, autoScale, ledger>>

(* A slip: the counter starts again, the index stays. *)
EvaluateUnrotated ==
    Decided((evaluations + 1) % Interval, optimistic)

(* evaluate.                                                                *)
Evaluate ==
    LET count == (evaluations + 1) % Interval
    IN  Decided(count, IF count = 0 THEN (optimistic + 1) % Cycle ELSE optimistic)

-----------------------------------------------------------------------------
Resettled == passedOver' = [p \in ChokePeers |-> 0]

SpeedChanges(p, s) ==
    /\ s # speed[p]
    /\ speed' = [speed EXCEPT ![p] = s]
    /\ Resettled /\ UNCHANGED <<autoScale, ledger, evaluations, optimistic>>

(* record_received and record_sent touch the entry.                         *)
Exchange(p, field) ==
    /\ ledger[p][field] < MaxBytes
    /\ ledger' = [ledger EXCEPT ![p][field] = @ + 1, ![p].age = 0]
    /\ Resettled /\ UNCHANGED <<speed, autoScale, evaluations, optimistic>>

(* prune, and the passing of time.                                          *)
Prune ==
    /\ \E p \in ChokePeers : ledger[p].age > KeepFor
    /\ ledger' = [p \in ChokePeers |-> IF ledger[p].age > KeepFor THEN NoCredit ELSE ledger[p]]
    /\ Resettled /\ UNCHANGED <<speed, autoScale, evaluations, optimistic>>

LedgerAges ==
    /\ ledger' = [p \in ChokePeers |->
                     IF ledger[p] # NoCredit /\ ledger[p].age <= KeepFor
                     THEN [ledger[p] EXCEPT !.age = @ + 1] ELSE ledger[p]]
    /\ UNCHANGED <<speed, autoScale, evaluations, optimistic, passedOver>>

ChokingNext ==
    \/ Evaluate \/ Prune \/ LedgerAges
    \/ \E p \in ChokePeers :
          (\E s \in Speeds : SpeedChanges(p, s)) \/ Exchange(p, "received") \/ Exchange(p, "sent")

-----------------------------------------------------------------------------
ChokingSpec == ChokingInit /\ [][ChokingNext]_chokingVars

(* While neither speeds nor credit change, the optimistic slot reaches      *)
(* every choked peer in turn (evaluate): nobody is passed over for longer   *)
(* than the slot needs for the others.                                      *)
EveryoneHasATurn ==
    \A p \in ChokePeers :
        \/ passedOver[p] = 0
        \/ passedOver[p] <= Interval * (PeerCount - RegularSlots - 1)
=============================================================================
