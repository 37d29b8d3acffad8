---------------------------- MODULE UploadQueue ----------------------------
(***************************************************************************)
(* UploadQueue (p2p-distribute, upload_queue.rs): a fixed number of upload *)
(* slots and a bounded first-in first-out queue of peers that wait for     *)
(* one.  Time is a count of ticks, up to LastTick.                         *)
(***************************************************************************)
EXTENDS Integers, Sequences, FiniteSets, SequencesExt

CONSTANTS Peers, MaxSlots, MaxQueue, MaxWait, LastTick

VARIABLES
    active,   \* the peers that hold a slot, in the order they got it
    waiting,  \* the queue: [peer, since]
    now,
    joined    \* history: when each peer last entered the queue

ASSUME QueueAssumption == MaxSlots \in Nat

queueVars == <<active, waiting, now, joined>>

Waiters == {waiting[i].peer : i \in DOMAIN waiting}
Holders == ToSet(active)

QueueInit ==
    /\ active = <<>> /\ waiting = <<>>
    /\ now = 0
    /\ joined = [p \in Peers |-> 0]

SlotFree(holders) == Len(holders) < MaxSlots

NewEntry(p) == [peer |-> p, since |-> now]

(* request_slot: granted, queued or refused; a peer that has a slot or a    *)
(* place keeps what it has.                                                 *)
RequestSlot(p) ==
    /\ p \notin Holders \cup Waiters
    /\ \/ /\ SlotFree(active)
          /\ active' = Append(active, p)
          /\ UNCHANGED <<waiting, joined>>
       \/ /\ ~SlotFree(active) /\ Len(waiting) < MaxQueue
          /\ waiting' = Append(waiting, NewEntry(p))
          /\ joined' = [joined EXCEPT ![p] = now]
          /\ UNCHANGED active
    /\ UNCHANGED now

RequestChangesNothing(p) ==
    /\ \/ p \in Holders \cup Waiters
       \/ ~SlotFree(active) /\ Len(waiting) >= MaxQueue
    /\ UNCHANGED queueVars

(* A slip: the newest waiter is served first. *)
PromotedLast(holders) ==
    IF SlotFree(holders) /\ waiting # <<>>
    THEN active' = Append(holders, Last(waiting).peer) /\ waiting' = Front(waiting)
    ELSE active' = holders /\ UNCHANGED waiting

(* Promote the head of the queue into a free slot, if there are both. *)
Promoted(holders) ==
    IF SlotFree(holders) /\ waiting # <<>>
    THEN active' = Append(holders, Head(waiting).peer) /\ waiting' = Tail(waiting)
    ELSE active' = holders /\ UNCHANGED waiting

SlotPosition(p) == CHOOSE i \in DOMAIN active : active[i] = p
QueuePosition(p) == CHOOSE i \in DOMAIN waiting : waiting[i].peer = p

(* release_slot, of a peer that holds a slot or does not. *)
ReleaseSlot(p) ==
    /\ Promoted(IF p \in Holders THEN RemoveAt(active, SlotPosition(p)) ELSE active)
    /\ UNCHANGED <<now, joined>>

(* cancel_queue. *)
CancelQueue(p) ==
    /\ p \in Waiters
    /\ waiting' = RemoveAt(waiting, QueuePosition(p))
    /\ UNCHANGED <<active, now, joined>>

(* evict_stale: the entries at these places stay, in their order.           *)
EvictStale ==
    LET places == {i \in DOMAIN waiting : now - waiting[i].since < MaxWait}
    IN  /\ \E from \in [1 .. Cardinality(places) -> places] :
              /\ \A i, j \in DOMAIN from : i < j => from[i] < from[j]
              /\ waiting' = [i \in 1 .. Cardinality(places) |-> waiting[from[i]]]
        /\ UNCHANGED <<active, now, joined>>

Tick ==
    /\ now < LastTick
    /\ now' = now + 1
    /\ UNCHANGED <<active, waiting, joined>>

QueueNext ==
    \/ \E p \in Peers :
          RequestSlot(p) \/ RequestChangesNothing(p) \/ ReleaseSlot(p) \/ CancelQueue(p)
    \/ EvictStale
    \/ Tick

QueueSpec == QueueInit /\ [][QueueNext]_queueVars

(* Every holder's transfer ends; a release is the only thing that is sure   *)
(* to happen.                                                               *)
ReleaseOfAHolder(p) == p \in Holders /\ ReleaseSlot(p)
FairQueueSpec == QueueSpec /\ \A p \in Peers : WF_queueVars(ReleaseOfAHolder(p))

-----------------------------------------------------------------------------
(* No slot is idle while a peer waits: that is why request_slot may grant a *)
(* free slot without looking at the queue.                                  *)
NoIdleSlot == waiting # <<>> => Len(active) = MaxSlots

(* Whoever is promoted has waited longest.                                  *)
FirstComeFirstServed ==
    [][\A p \in Waiters :
          p \in ToSet(active') /\ p \notin Holders =>
             \A q \in Waiters : joined[p] <= joined[q]]_queueVars

(* Slots are given as soon as they are free, to whoever waits longest       *)
(* (request_slot, release_slot).                                            *)
QueueIsFair == [][NoIdleSlot']_queueVars /\ FirstComeFirstServed

(* Who waits is served, unless it leaves or is evicted, if transfers end.   *)
EveryoneIsServed == \A p \in Peers : p \in Waiters ~> p \notin Waiters
=============================================================================
