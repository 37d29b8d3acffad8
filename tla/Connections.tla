---------------------------- MODULE Connections ----------------------------
(***************************************************************************)
(* Connections to peers (p2p-distribute): ConnectionState, the phases of   *)
(* one connection (connection.rs), under a ConnectionBudget (budget.rs),   *)
(* which knows counts and no connections.  The code leaves it to the       *)
(* caller to take and release slots with the phases: a pending slot for    *)
(* the handshake, an established one from its end.  Timeouts fire whenever *)
(* their time has come, and the caller may close a connection without one. *)
(***************************************************************************)
EXTENDS Naturals, FiniteSets

CONSTANTS
    Conns,              \* connections that may exist at one time
    PeerOf,             \* the peer at the other end of each
    MaxEstablished, MaxPending, MaxPerPeer

ASSUME ConnectionsAssumption ==
    /\ IsFiniteSet(Conns) /\ DOMAIN PeerOf = Conns
    /\ {MaxEstablished, MaxPending, MaxPerPeer} \subseteq Nat

VARIABLES
    phase,      \* ConnectionState of each
    slot,       \* what the caller took for it: "none", "pending", "established"
    budget      \* ConnectionBudget

connectionVars == <<phase, slot, budget>>

Peers == {PeerOf[c] : c \in Conns}

ConnectionsInit ==
    /\ phase = [c \in Conns |-> "Closed"]
    /\ slot = [c \in Conns |-> "none"]
    /\ budget = [pending |-> 0, established |-> 0, per_peer |-> [p \in Peers |-> 0]]

IsTerminal(c) == phase[c] \in {"Closing", "Closed"}

(* The transition_to_... methods.                                           *)
Transition(c, from, to) ==
    /\ phase[c] = from
    /\ phase' = [phase EXCEPT ![c] = to]
-----------------------------------------------------------------------------
(* ConnectionBudget; a count that is not there is 0.                        *)
Less(n) == IF n = 0 THEN 0 ELSE n - 1

ReleasePending(b) == [b EXCEPT !.pending = Less(@)]

ReleaseEstablished(b, p) ==
    [b EXCEPT !.established = Less(@), !.per_peer[p] = Less(@)]

CanEstablish(b, p) == b.established < MaxEstablished /\ b.per_peer[p] < MaxPerPeer

AcquireEstablished(b, p) ==
    [b EXCEPT !.established = @ + 1, !.per_peer[p] = @ + 1]

(* A slip: a pending slot is released only if the promotion is granted.     *)
PromotedIfGranted(b, p) ==
    IF CanEstablish(b, p) THEN AcquireEstablished(ReleasePending(b), p) ELSE b

(* promote_to_established. *)
Promoted(b, p) ==
    IF CanEstablish(b, p) THEN AcquireEstablished(ReleasePending(b), p)
    ELSE ReleasePending(b)

Released(c) ==
    CASE slot[c] = "pending" -> ReleasePending(budget)
      [] slot[c] = "established" -> ReleaseEstablished(budget, PeerOf[c])
      [] OTHER -> budget
-----------------------------------------------------------------------------
(* ConnectionState::new, if try_acquire_pending grants a slot.              *)
Dial(c) ==
    /\ phase[c] = "Closed" /\ budget.pending < MaxPending
    /\ budget' = [budget EXCEPT !.pending = @ + 1]
    /\ slot' = [slot EXCEPT ![c] = "pending"]
    /\ phase' = [phase EXCEPT ![c] = "Connecting"]

Connected(c) == Transition(c, "Connecting", "Handshaking") /\ UNCHANGED <<slot, budget>>

(* The handshake is over: who gets no established slot is closed.           *)
HandshakeDone(c) ==
    LET granted == CanEstablish(ReleasePending(budget), PeerOf[c]) IN
    /\ Transition(c, "Handshaking", IF granted THEN "BitfieldExchange" ELSE "Closing")
    /\ budget' = Promoted(budget, PeerOf[c])
    /\ slot' = [slot EXCEPT ![c] = IF granted THEN "established" ELSE "none"]

BitfieldDone(c) == Transition(c, "BitfieldExchange", "Ready") /\ UNCHANGED <<slot, budget>>

(* transition_to_closing, for any reason, is_handshake_timed_out and        *)
(* is_keepalive_timed_out among them, and the slot goes back.               *)
Close(c) ==
    /\ ~IsTerminal(c)
    /\ phase' = [phase EXCEPT ![c] = "Closing"]
    /\ budget' = Released(c)
    /\ slot' = [slot EXCEPT ![c] = "none"]

SocketClosed(c) == Transition(c, "Closing", "Closed") /\ UNCHANGED <<slot, budget>>

ConnectionsNext ==
    \E c \in Conns : \/ Dial(c) \/ Connected(c) \/ HandshakeDone(c)
                     \/ BitfieldDone(c) \/ Close(c) \/ SocketClosed(c)

ConnectionsSpec == ConnectionsInit /\ [][ConnectionsNext]_connectionVars
-----------------------------------------------------------------------------
With(kind) == {c \in Conns : slot[c] = kind}

(* The budget's counts are those of the connections, in every order of     *)
(* handshakes, refusals, timeouts and closings; its limits hold; a         *)
(* connection that carries data has an established slot, one that closed   *)
(* has none.                                                               *)
BudgetIsExact ==
    /\ budget.pending = Cardinality(With("pending")) /\ budget.pending <= MaxPending
    /\ budget.established = Cardinality(With("established"))
    /\ budget.established <= MaxEstablished
    /\ \A p \in Peers :
           /\ budget.per_peer[p] = Cardinality({c \in With("established") : PeerOf[c] = p})
           /\ budget.per_peer[p] <= MaxPerPeer
    /\ \A c \in Conns :
           /\ phase[c] = "Ready" => slot[c] = "established"
           /\ IsTerminal(c) => slot[c] = "none"
=============================================================================
