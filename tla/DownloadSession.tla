-------------------------- MODULE DownloadSession --------------------------
(***************************************************************************)
(* BasicSession (p2p-distribute, session_manager.rs): downloads that queue *)
(* for a bounded number of active slots.                                   *)
(*                                                                         *)
(* entries is the session's list in its order; handles are numbered from 1.*)
(* added_at is a clock reading: readings never decrease, and two of them   *)
(* may be equal (Instant is monotonic, not strictly so).                   *)
(***************************************************************************)
EXTENDS Integers, Sequences, FiniteSets, SequencesExt

CONSTANTS
    MaxActive,    \* max_active_downloads
    Priorities,
    MaxHandles,   \* how many downloads TLC adds
    Horizon,      \* how far the clock goes
    Coarse        \* may two readings of the clock be equal?

VARIABLES
    entries,  \* the downloads: handle, priority, state (queued, downloading
              \* or paused, which are what the session enters), added
    nextId,   \* the next handle
    clock,    \* the last reading
    events    \* the events of the last operation

ASSUME SessionAssumption == MaxActive \in Nat /\ Priorities \subseteq Int

sessionVars == <<entries, nextId, clock, events>>

SessionInit ==
    /\ entries = <<>>
    /\ nextId = 1
    /\ clock = 0
    /\ events = <<>>

InState(es, s) == {i \in DOMAIN es : es[i].state = s}
ActiveCount(es) == Cardinality(InState(es, "downloading"))
Index(h) == CHOOSE i \in DOMAIN entries : entries[i].handle = h
Handles == {entries[i].handle : i \in DOMAIN entries}
StateOf(h) == entries[Index(h)].state

-----------------------------------------------------------------------------
(* activate_queued.                                                         *)

(* max_by_key on (priority, Reverse(added_at)); among equal keys it keeps   *)
(* the last in the list.                                                    *)
Before(es, i, j) ==
    \/ es[i].priority > es[j].priority
    \/ es[i].priority = es[j].priority /\ es[i].added < es[j].added
    \/ es[i].priority = es[j].priority /\ es[i].added = es[j].added /\ i > j

Candidate(es) ==
    CHOOSE i \in InState(es, "queued") :
        \A j \in InState(es, "queued") \ {i} : Before(es, i, j)

(* The loop as a function of how many rounds it is given: entries and the   *)
(* events pushed.                                                           *)
Activation(es0, ev0) ==
    LET round[n \in 0 .. Len(es0)] ==
          IF n = 0 THEN [es |-> es0, ev |-> ev0]
          ELSE LET r == round[n - 1]
               IN  IF ActiveCount(r.es) < MaxActive /\ InState(r.es, "queued") # {}
                   THEN LET c == Candidate(r.es)
                        IN  [es |-> [r.es EXCEPT ![c].state = "downloading"],
                             ev |-> Append(r.ev, [event |-> "started",
                                                  handle |-> r.es[c].handle])]
                   ELSE r
    IN  round[Len(es0)]

ActivateQueued(es, ev) ==
    LET a == Activation(es, ev) IN entries' = a.es /\ events' = a.ev

-----------------------------------------------------------------------------
(* Operations.                                                              *)

Event(e, h) == <<[event |-> e, handle |-> h]>>

(* The clock is read once; it moved on since the last reading, or did not. *)
AddDownload(priority) ==
    /\ nextId <= MaxHandles
    /\ clock' \in {t \in {clock, clock + 1} : t <= Horizon /\ (Coarse \/ t > clock)}
    /\ nextId' = nextId + 1
    /\ ActivateQueued(
          Append(entries, [handle |-> nextId, priority |-> priority,
                           state |-> "queued", added |-> clock']),
          Event("added", nextId))

(* A slip: pausing leaves the slot unused. *)
PauseOnly(h) ==
    /\ StateOf(h) \in {"queued", "downloading"}
    /\ entries' = [entries EXCEPT ![Index(h)].state = "paused"]
    /\ events' = Event("paused", h)
    /\ UNCHANGED <<nextId, clock>>

Pause(h) ==
    /\ StateOf(h) \in {"queued", "downloading"}
    /\ ActivateQueued([entries EXCEPT ![Index(h)].state = "paused"], Event("paused", h))
    /\ UNCHANGED <<nextId, clock>>

(* resume goes back to the queue, whatever the download did before. *)
Resume(h) ==
    /\ StateOf(h) = "paused"
    /\ ActivateQueued([entries EXCEPT ![Index(h)].state = "queued"], <<>>)
    /\ UNCHANGED <<nextId, clock>>

RemoveDownload(h) ==
    /\ ActivateQueued(RemoveAt(entries, Index(h)), Event("removed", h))
    /\ UNCHANGED <<nextId, clock>>

(* set_priority changes no state and activates nothing. *)
SetPriority(h, priority) ==
    /\ entries' = [entries EXCEPT ![Index(h)].priority = priority]
    /\ events' = <<>>
    /\ UNCHANGED <<nextId, clock>>

SessionNext ==
    \/ \E p \in Priorities : AddDownload(p)
    \/ \E h \in Handles :
          \/ Pause(h) \/ Resume(h) \/ RemoveDownload(h)
          \/ \E p \in Priorities : SetPriority(h, p)

SessionSpec == SessionInit /\ [][SessionNext]_sessionVars

-----------------------------------------------------------------------------
(* Properties.                                                              *)

(* "The session must respect max_active_downloads", and no slot is unused   *)
(* while a download waits (contract of DownloadSession).                    *)
SlotsAreUsed ==
    /\ ActiveCount(entries) <= MaxActive
    /\ InState(entries, "queued") # {} => ActiveCount(entries) = MaxActive

Queued(es) == {es[i].handle : i \in InState(es, "queued")}
Active(es) == {es[i].handle : i \in InState(es, "downloading")}
Started == Active(entries') \ Active(entries)

EntryOf(es, h) == es[CHOOSE i \in DOMAIN es : es[i].handle = h]

(* "activated in priority order (highest first, then FIFO within same       *)
(* priority)" (BasicSession): what starts is not less important than what   *)
(* has to go on waiting, nor of the same priority and younger by the clock. *)
PriorityFirst ==
    [][\A h \in Started, q \in Queued(entries') :
          LET s == EntryOf(entries', h)
              w == EntryOf(entries', q)
          IN  \/ s.priority > w.priority
              \/ s.priority = w.priority /\ s.added <= w.added]_sessionVars

(* A download that starts says so: the events tell every activation.        *)
EventsTellStarts ==
    [][Started = {events'[i].handle : i \in {j \in DOMAIN events' :
                                                events'[j].event = "started"}}]_sessionVars

(* Every slot is used, by the download whose turn it is, and the start is   *)
(* announced, whatever is paused, resumed, removed or given another         *)
(* priority.                                                                *)
ActivationIsFair == [][SlotsAreUsed']_sessionVars /\ PriorityFirst /\ EventsTellStarts
=============================================================================
