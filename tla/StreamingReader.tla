-------------------------- MODULE StreamingReader --------------------------
(***************************************************************************)
(* StreamingReader and StreamNotifier (p2p-distribute, reader.rs): a       *)
(* player reads a file that is still arriving.  Reader and notifiers share *)
(* a byte-range map behind a mutex, a condition variable, and a            *)
(* cancellation flag that is set outside the mutex.                        *)
(*                                                                         *)
(* The mutex is implicit: what happens under it is one action, but for a   *)
(* wait of the reader, which holds it from the evaluation of its condition *)
(* until it sleeps (Condvar::wait_timeout_while evaluates, then releases   *)
(* the mutex and sleeps, in one step as far as holders of the mutex can    *)
(* see).  held tells them.                                                 *)
(***************************************************************************)
EXTENDS ByteRanges

CONSTANTS
    Arrivals,      \* the ranges piece_completed may be called with
    Lengths,       \* the buffer lengths read is called with
    MinPrebuffer   \* BufferPolicy::min_prebuffer

ASSUME StreamingAssumption ==
    /\ Arrivals \subseteq Ranges
    /\ Lengths \subseteq Nat \ {0}
    /\ MinPrebuffer \in Nat

VARIABLES
    ranges,    \* the ByteRangeMap
    position,  \* the playhead
    pc,        \* where the reader is
    call,      \* the call in progress: read or prebuffer
    len,       \* needed_len of the read in progress
    notified,  \* the sleeping reader has been notified
    late,      \* read_timeout has passed since the wait began
    outcome,   \* what the last call returned
    cancelled, \* the flag
    canceling, \* a cancel() between its store and its notify_all
    arrived    \* history: the bytes whose arrival was announced

reader == <<position, pc, call, len, notified, late, outcome>>
vars == <<ranges, reader, cancelled, canceling, arrived>>

Outcomes == {"none", "bytes", "eof", "interrupted", "timedout", "ready", "notready"}

Init ==
    /\ ranges = <<>> /\ arrived = {}
    /\ position = 0
    /\ pc = "idle" /\ call = "read" /\ len = 0
    /\ notified = FALSE /\ late = FALSE
    /\ outcome = "none"
    /\ cancelled = FALSE /\ canceling = FALSE

(* The reader holds the mutex between evaluating its condition and sleeping,*)
(* and between the end of its wait and its return.                          *)
Held == pc \in {"drowsy", "awake", "timeout"}

Buffered == ContiguousFrom(ranges, position)

(* is_playback_ready; also what wait_for_prebuffer waits for. *)
PlaybackReady == Buffered >= MinPrebuffer \/ Buffered >= FileSize - position

-----------------------------------------------------------------------------
(* Notifiers: the download threads, and whoever stops the stream.           *)

(* A slip: the notification is forgotten. *)
NotifyNone == UNCHANGED notified

NotifyAll == notified' = (notified \/ pc = "asleep")

Announce(range) ==
    /\ ~Held
    /\ ranges' = Insert(ranges, range)
    /\ arrived' = arrived \cup Bytes(range)
    /\ NotifyAll
    /\ UNCHANGED <<position, pc, call, len, late, outcome, cancelled, canceling>>

PieceCompleted == \E range \in Arrivals : Announce(range)

MarkComplete == Announce([start |-> 0, end |-> FileSize])

(* cancel() does not take the mutex: it stores, then notifies.  One call:   *)
(* a second one would store the same and notify again.                      *)
CancelStores ==
    /\ ~cancelled
    /\ cancelled' = TRUE /\ canceling' = TRUE
    /\ UNCHANGED <<ranges, reader, arrived>>

CancelNotifies ==
    /\ canceling
    /\ canceling' = FALSE
    /\ NotifyAll
    /\ UNCHANGED <<ranges, position, pc, call, len, late, outcome, cancelled, arrived>>

-----------------------------------------------------------------------------
(* The reader.                                                              *)

Goto(from, to) == pc = from /\ pc' = to

Return(result) == outcome' = result /\ notified' = FALSE /\ late' = FALSE

Begin == outcome' = "none"

(* read: EOF at the end of the file, otherwise wait_and_read.  Its length   *)
(* is clipped to the file.                                                  *)
Read(n) ==
    /\ IF position >= FileSize
       THEN Goto("idle", "idle") /\ outcome' = "eof"
       ELSE Goto("idle", "fast") /\ Begin
    /\ call' = "read" /\ len' = Least(n, FileSize - position)
    /\ UNCHANGED <<ranges, position, notified, late, cancelled, canceling, arrived>>

WaitForPrebuffer ==
    /\ Goto("idle", "test")
    /\ Begin
    /\ call' = "prebuffer" /\ len' = 0
    /\ UNCHANGED <<ranges, position, notified, late, cancelled, canceling, arrived>>

Seek(to) ==
    /\ Goto("idle", "idle")
    /\ position' = Least(to, FileSize)
    /\ UNCHANGED <<ranges, call, len, notified, late, outcome, cancelled, canceling, arrived>>

(* The fast path: one look at the map, whatever the cancellation flag says. *)
FastPath ==
    /\ \/ HasRange(ranges, position, len) /\ Goto("fast", "disk")
       \/ ~HasRange(ranges, position, len) /\ Goto("fast", "test")
    /\ UNCHANGED <<ranges, position, call, len, notified, late, outcome,
                   cancelled, canceling, arrived>>

(* The condition on which the reader keeps waiting. *)
KeepWaiting ==
    /\ ~cancelled
    /\ CASE call = "read" -> Buffered = 0
         [] call = "prebuffer" -> ~PlaybackReady

(* A slip: the wait has no timeout. *)
TestForever ==
    /\ \/ ~KeepWaiting /\ Goto("test", "awake")
       \/ KeepWaiting /\ Goto("test", "drowsy")
    /\ UNCHANGED <<ranges, position, call, len, notified, late, outcome,
                   cancelled, canceling, arrived>>

(* wait_timeout_while, with the mutex: evaluate the condition, then the     *)
(* clock.                                                                   *)
TestCondition ==
    /\ \/ ~KeepWaiting /\ Goto("test", "awake")
       \/ KeepWaiting /\ ~late /\ Goto("test", "drowsy")
       \/ KeepWaiting /\ late /\ Goto("test", "timeout")
    /\ UNCHANGED <<ranges, position, call, len, notified, late, outcome,
                   cancelled, canceling, arrived>>

FallAsleep ==
    /\ Goto("drowsy", "asleep")
    /\ notified' = FALSE
    /\ UNCHANGED <<ranges, position, call, len, late, outcome, cancelled, canceling, arrived>>

(* The reader wakes when notified, when its time is up, or for no reason. *)
WakeUp ==
    /\ Goto("asleep", "test")
    /\ notified' = FALSE
    /\ UNCHANGED <<ranges, position, call, len, late, outcome, cancelled, canceling, arrived>>

TimePasses ==
    /\ pc \in {"test", "drowsy", "asleep"}
    /\ ~late /\ late' = TRUE
    /\ UNCHANGED <<ranges, position, pc, call, len, notified, outcome,
                   cancelled, canceling, arrived>>

(* Only the contiguous part is read. *)
ReadLen == Least(len, Buffered)

(* After the wait the flag comes first, then the timeout, then the data.    *)
AfterWait ==
    /\ \/ /\ cancelled
          /\ Goto("awake", "idle") \/ Goto("timeout", "idle")
          /\ Return("interrupted") /\ UNCHANGED len
       \/ /\ ~cancelled
          /\ Goto("timeout", "idle")
          /\ Return(IF call = "read" THEN "timedout" ELSE "notready") /\ UNCHANGED len
       \/ /\ ~cancelled /\ call = "prebuffer"
          /\ Goto("awake", "idle")
          /\ Return("ready") /\ UNCHANGED len
       \/ /\ ~cancelled /\ call = "read"
          /\ Goto("awake", "disk")
          /\ len' = ReadLen
          /\ UNCHANGED <<notified, late, outcome>>
    /\ UNCHANGED <<ranges, position, call, cancelled, canceling, arrived>>

(* read_from_disk, without the mutex. *)
ReadFromDisk ==
    /\ Goto("disk", "idle")
    /\ position' = position + len
    /\ Return("bytes")
    /\ UNCHANGED <<ranges, call, len, cancelled, canceling, arrived>>

-----------------------------------------------------------------------------
Notifiers == PieceCompleted \/ MarkComplete \/ CancelStores \/ CancelNotifies

Calls ==
    \/ \E n \in Lengths : Read(n)
    \/ WaitForPrebuffer
    \/ \E to \in Offsets \cup {FileSize + 1} : Seek(to)

Steps ==
    FastPath \/ TestCondition \/ FallAsleep \/ WakeUp \/ AfterWait \/ ReadFromDisk

Next == Notifiers \/ Calls \/ Steps \/ TimePasses

Spec == Init /\ [][Next]_vars

(* The reader's thread runs, a sleeper that was notified or whose time is   *)
(* up wakes, and time passes; a wake-up for no reason is not promised.      *)
Awake == FastPath \/ TestCondition \/ FallAsleep \/ AfterWait \/ ReadFromDisk

DueWakeUp == (notified \/ late) /\ WakeUp

FairSpec ==
    /\ Spec
    /\ WF_vars(Awake) /\ WF_vars(DueWakeUp) /\ WF_vars(TimePasses)

-----------------------------------------------------------------------------
(* Properties.                                                              *)

(* Whatever order pieces arrive in, and however they overlap, the map holds *)
(* exactly the bytes announced, in the fewest ranges (ByteRangeMap::insert: *)
(* is_complete, has_range and first_gap_from rely on ranges merged that     *)
(* far).                                                                    *)
MapIsExact ==
    /\ Available(ranges) = arrived
    /\ \A i \in DOMAIN ranges : ~IsEmpty(ranges[i])
    /\ \A i \in 1 .. Len(ranges) - 1 : ranges[i].end < ranges[i + 1].start
    /\ IsComplete(ranges) <=> FileSize > 0 /\ arrived = 0 .. FileSize - 1
    /\ \A o \in Offsets :
          LET missing == (o .. FileSize - 1) \ arrived
          IN  FirstGapFrom(ranges, o) = IF missing = {} THEN NoGap ELSE Min(missing)

(* What read_from_disk is about to read has arrived, although the mutex was *)
(* released after the check.                                                *)
ReadsArrivedBytes ==
    pc = "disk" => len > 0 /\ position .. position + len - 1 \subseteq arrived

(* A reader that sleeps without a notification pending has nothing to read: *)
(* no announcement is lost (wait_and_read).                                 *)
SleeperLacksData ==
    pc = "asleep" /\ ~notified /\ ~cancelled =>
        CASE call = "read" -> position \notin arrived
          [] call = "prebuffer" -> ~PlaybackReady

(* An answer fits the map as it is when given: TimedOut only when the next  *)
(* byte is missing, Ok(true) only when playback may start, end of file only *)
(* at the end.                                                              *)
AnswersFit ==
    [][/\ outcome' = "timedout" /\ outcome # "timedout" => position \notin arrived
       /\ outcome' = "ready" /\ outcome # "ready" => PlaybackReady
       /\ outcome' = "notready" /\ outcome # "notready" => ~PlaybackReady]_vars

(* What a reader sees of the map is what arrived: merged ranges, bytes on  *)
(* the disk before they are read, no announcement that it sleeps over, and *)
(* answers that fit the map of their moment.                               *)
ReadsAreSound == [](MapIsExact /\ ReadsArrivedBytes /\ SleeperLacksData) /\ AnswersFit

(* Every call returns, data or no data (read_timeout; the test              *)
(* read_times_out_when_no_data: "rather than blocking forever").            *)
CallsReturn == pc # "idle" ~> pc = "idle"

(* cancel "wakes a blocked reader" (test notifier_cancel_wakes_reader):     *)
(* when cancel() has returned, no reader sleeps without a notification.     *)
CancelWakes == cancelled /\ ~canceling => ~(pc = "asleep" /\ ~notified)
=============================================================================
