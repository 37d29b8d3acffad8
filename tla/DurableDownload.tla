-------------------------- MODULE DurableDownload --------------------------
(***************************************************************************)
(* What survives of a download: the output file behind a PieceStorage      *)
(* (storage.rs), the resume file (resume.rs) and the piece map of the      *)
(* coordinator in memory, across runs, cancellations, I/O errors, crashes  *)
(* and power cuts.                                                         *)
(*                                                                         *)
(* Coordinator tells how workers share the pieces; here a fetched and      *)
(* verified piece passes through three steps that anything may interrupt:  *)
(* written to the storage, marked done in the map, recorded in the resume  *)
(* file.  Any number of pieces may be on their way at once.                *)
(*                                                                         *)
(* Abstracted: a piece of the output file is right or not; all pieces      *)
(* weigh the same, so the buffer's threshold counts pieces; a save of the  *)
(* resume file is its rename (a torn temporary file is never read).        *)
(***************************************************************************)
EXTENDS Integers, FiniteSets

CONSTANTS
    N,           \* the pieces are 1..N, in the order of their offsets
    Coalescing,  \* CoalescingStorage over FileStorage, or FileStorage alone
    Threshold,   \* flush_threshold, in pieces
    Hazards,     \* what may happen besides downloading
    MaxFaults,   \* how many crashes, power cuts and errors TLC considers
    NoFile       \* there is no resume file

Pieces == 1 .. N

(* crash: the process dies.  power: the machine does.  cancel: the caller   *)
(* raises the flag.  error: a write or a sync fails.  save: a save of the   *)
(* resume file fails.  again: run is called again on the same coordinator.  *)
(* reverify: the caller checks the file and uses new_resume.  delete: the   *)
(* user removes the output file between two runs.                           *)
AllHazards == {"crash", "power", "cancel", "error", "save", "again",
               "reverify", "delete"}

ASSUME DurableAssumption ==
    /\ N \in Nat /\ Threshold \in Nat /\ MaxFaults \in Nat
    /\ Coalescing \in BOOLEAN
    /\ Hazards \subseteq AllHazards
    /\ \A pieces \in SUBSET Pieces : NoFile # pieces

VARIABLES
    session,   \* the coordinator: none, ready (built), running, ended
    result,    \* what the last run returned: none, ok, error
    done,      \* the pieces Done in the piece map
    accepted,  \* write_piece returned Ok, mark_done is next
    unsaved,   \* marked done, the checkpoint of that piece is next
    buffer,    \* CoalescingStorage's buffered pieces
    fatal,     \* a worker raised a storage error
    output,    \* the output file: is it there, the right pieces a reader
               \* sees, and those that a power cut cannot take back
    resume,    \* the pieces the resume file marks done, or NoFile
    faults     \* faults so far

inRun == <<accepted, unsaved, buffer, fatal>>
vars == <<session, result, done, inRun, output, resume, faults>>

Absent == [there |-> FALSE, seen |-> {}, synced |-> {}]
Blank == [there |-> TRUE, seen |-> {}, synced |-> {}]

Init ==
    /\ session = "none" /\ result = "none"
    /\ done = {} /\ accepted = {} /\ unsaved = {} /\ buffer = {}
    /\ fatal = FALSE
    /\ output = Absent
    /\ resume = NoFile
    /\ faults = 0

Fault(kind) ==
    /\ kind \in Hazards
    /\ faults < MaxFaults
    /\ faults' = faults + 1

-----------------------------------------------------------------------------
(* Starting.                                                                *)

(* PieceCoordinator::new. *)
New ==
    /\ session = "none"
    /\ session' = "ready"
    /\ UNCHANGED <<result, done, inRun, output, resume, faults>>

(* new_resume, given by the caller the pieces it found right on disk. *)
NewResume ==
    /\ "reverify" \in Hazards
    /\ session = "none"
    /\ session' = "ready"
    /\ done' = output.seen
    /\ UNCHANGED <<result, inRun, output, resume, faults>>

(* try_load_resume: the pieces it marks, on top of those already done.      *)
(* run takes "none were marked" for a fresh start.                          *)
Restored == IF resume = NoFile THEN {} ELSE resume \ done

(* A slip: whatever is there is truncated. *)
OpenTruncating(resuming) == Blank

(* FileStorage::open: keeps a file that is there when resuming, otherwise   *)
(* creates or truncates it.                                                 *)
Open(resuming) == IF resuming /\ output.there THEN output ELSE Blank

MayRun == session = "ready" \/ (session = "ended" /\ "again" \in Hazards)

(* run, up to the first piece. *)
Run ==
    /\ MayRun
    /\ session' = "running"
    /\ result' = "none"
    /\ done' = done \cup Restored
    /\ output' = Open(Restored # {})
    /\ buffer' = {} /\ fatal' = FALSE
    /\ UNCHANGED <<accepted, unsaved, resume, faults>>

(* create_storage fails, after the map was restored. *)
RunCannotOpen ==
    /\ MayRun
    /\ Fault("error")
    /\ session' = "ended"
    /\ result' = "error"
    /\ done' = done \cup Restored
    /\ UNCHANGED <<inRun, output, resume>>

-----------------------------------------------------------------------------
(* Pieces.                                                                  *)

(* A slip: the last buffered write is left behind. *)
DrainedButLast(pieces) ==
    LET kept == {i \in pieces : \E j \in pieces : i < j}
    IN  [output EXCEPT !.seen = @ \cup kept, !.synced = output.seen \cup kept]

(* flush_buffer with everything written and synced. *)
Drained(pieces) ==
    [output EXCEPT !.seen = @ \cup pieces, !.synced = output.seen \cup pieces]

(* flush_buffer stopped by an error: drain(..) writes in offset order and   *)
(* drops what follows the write that failed; or all is written and the sync *)
(* fails.  Nothing of it is synced.                                         *)
PartlyDrained(pieces) ==
    {[output EXCEPT !.seen = @ \cup {i \in pieces : i < k}] : k \in pieces}
      \cup {[output EXCEPT !.seen = @ \cup pieces]}

Overflows(i) == Threshold > 0 /\ Cardinality(buffer \cup {i}) >= Threshold

Arrives(i) == session = "running" /\ i \notin done \cup accepted

(* A verified piece is written.  FileStorage writes it in place;            *)
(* CoalescingStorage buffers it, and drains a full buffer.                  *)
WritePiece(i) ==
    /\ Arrives(i)
    /\ accepted' = accepted \cup {i}
    /\ \/ /\ ~Coalescing
          /\ output' = [output EXCEPT !.seen = @ \cup {i}]
          /\ UNCHANGED buffer
       \/ /\ Coalescing /\ ~Overflows(i)
          /\ buffer' = buffer \cup {i}
          /\ UNCHANGED output
       \/ /\ Coalescing /\ Overflows(i)
          /\ output' = Drained(buffer \cup {i})
          /\ buffer' = {}
    /\ UNCHANGED <<session, result, done, unsaved, fatal, resume, faults>>

(* write_piece fails: the error is raised, the piece stays in flight.  A    *)
(* piece that is only buffered cannot fail.                                 *)
WritePieceFails(i) ==
    /\ Arrives(i)
    /\ Fault("error")
    /\ fatal' = TRUE
    /\ \/ /\ ~Coalescing
          /\ UNCHANGED <<output, buffer>>
       \/ /\ Coalescing /\ Overflows(i)
          /\ output' \in PartlyDrained(buffer \cup {i})
          /\ buffer' = {}
    /\ UNCHANGED <<session, result, done, accepted, unsaved, resume>>

MarkDone(i) ==
    /\ session = "running" /\ i \in accepted
    /\ accepted' = accepted \ {i}
    /\ done' = done \cup {i}
    /\ unsaved' = unsaved \cup {i}
    /\ UNCHANGED <<session, result, buffer, fatal, output, resume, faults>>

(* A slip: the checkpoint counts pieces that are still being written. *)
SaveAhead(i) ==
    /\ session = "running" /\ i \in unsaved
    /\ unsaved' = unsaved \ {i}
    /\ resume' = 1 .. i \cup done
    /\ UNCHANGED <<session, result, done, accepted, buffer, fatal, output, faults>>

(* handle_piece_success: a snapshot of the whole map replaces the resume    *)
(* file, unless saving fails, which run ignores.                            *)
SaveCheckpoint(i) ==
    /\ session = "running" /\ i \in unsaved
    /\ unsaved' = unsaved \ {i}
    /\ \/ resume' = done
       \/ "save" \in Hazards /\ UNCHANGED resume
    /\ UNCHANGED <<session, result, done, accepted, buffer, fatal, output, faults>>

-----------------------------------------------------------------------------
(* Ending.                                                                  *)

WorkersGone == session = "running" /\ accepted = {} /\ unsaved = {}

(* CoalescingStorage::flush does nothing when nothing is buffered, not even *)
(* a sync; FileStorage::flush always syncs.                                 *)
Flushes == Coalescing => buffer # {}

(* A slip: run returns Ok without the final flush. *)
CompleteUnflushed ==
    /\ WorkersGone /\ ~fatal /\ done = Pieces
    /\ session' = "ended"
    /\ result' = "ok"
    /\ resume' = NoFile
    /\ UNCHANGED <<done, accepted, unsaved, buffer, fatal, output, faults>>

(* run returns Ok: everything flushed, the resume file removed. *)
Complete ==
    /\ WorkersGone /\ ~fatal /\ done = Pieces
    /\ session' = "ended"
    /\ result' = "ok"
    /\ output' = IF Flushes THEN Drained(buffer) ELSE output
    /\ buffer' = {}
    /\ resume' = NoFile
    /\ UNCHANGED <<done, accepted, unsaved, fatal, faults>>

(* The last flush fails: run returns the error before it removes the resume *)
(* file.                                                                    *)
CompleteFails ==
    /\ WorkersGone /\ ~fatal /\ done = Pieces /\ Flushes
    /\ Fault("error")
    /\ session' = "ended"
    /\ result' = "error"
    /\ output' \in PartlyDrained(buffer)
    /\ buffer' = {}
    /\ UNCHANGED <<done, accepted, unsaved, fatal, resume>>

(* run returns Cancelled or the storage error.  It does not flush, and the  *)
(* storage, with what it buffered, is dropped.                              *)
GiveUp ==
    /\ WorkersGone
    /\ fatal \/ "cancel" \in Hazards
    /\ session' = "ended"
    /\ result' = "error"
    /\ buffer' = {}
    /\ UNCHANGED <<done, accepted, unsaved, fatal, output, resume, faults>>

Forget ==
    /\ session' = "none"
    /\ done' = {} /\ accepted' = {} /\ unsaved' = {} /\ buffer' = {}
    /\ fatal' = FALSE

(* The caller drops a coordinator that is not running. *)
Drop ==
    /\ session \in {"ready", "ended"}
    /\ Forget
    /\ UNCHANGED <<result, output, resume, faults>>

(* The process dies: what it wrote stays with the operating system. *)
Crash ==
    /\ session # "none"
    /\ Fault("crash")
    /\ Forget
    /\ result' = "none"
    /\ UNCHANGED <<output, resume>>

(* The machine dies: what was not synced may be lost, piece by piece. *)
PowerCut ==
    /\ Fault("power")
    /\ Forget
    /\ result' = "none"
    /\ \E kept \in SUBSET output.seen :
          /\ output.synced \subseteq kept
          /\ output' = [output EXCEPT !.seen = kept]
    /\ UNCHANGED resume

DeleteOutput ==
    /\ session = "none"
    /\ output.there
    /\ Fault("delete")
    /\ output' = Absent
    /\ UNCHANGED <<session, result, done, inRun, resume>>

-----------------------------------------------------------------------------
Starting == New \/ NewResume \/ Run \/ RunCannotOpen

Working(i) ==
    WritePiece(i) \/ WritePieceFails(i) \/ MarkDone(i) \/ SaveCheckpoint(i)

Ending == Complete \/ CompleteFails \/ GiveUp \/ Drop

Next ==
    \/ Starting
    \/ \E i \in Pieces : Working(i)
    \/ Ending
    \/ Crash \/ PowerCut \/ DeleteOutput

Spec == Init /\ [][Next]_vars

-----------------------------------------------------------------------------
(* Properties.                                                              *)

TypeOK ==
    /\ session \in {"none", "ready", "running", "ended"}
    /\ result \in {"none", "ok", "error"}
    /\ {done, accepted, unsaved, buffer} \subseteq SUBSET Pieces
    /\ fatal \in BOOLEAN
    /\ output \in [there : BOOLEAN, seen : SUBSET Pieces, synced : SUBSET Pieces]
    /\ resume = NoFile \/ resume \in SUBSET Pieces
    /\ faults \in 0 .. MaxFaults

(* What the resume file marks done is right in the output file: the promise *)
(* every later run relies on when it skips those pieces (try_load_resume).  *)
CheckpointTellsTruth == resume # NoFile => resume \subseteq output.seen

(* While a run works, a piece the map calls Done is in the storage, in the  *)
(* file or in the buffer before it, and will not be fetched again.          *)
DoneIsStored ==
    session = "running" => done \cup accepted \subseteq output.seen \cup buffer

(* When run has returned Ok the whole output file is right, and a power cut *)
(* cannot change that (the final flush, coordinator.rs "Flush storage to    *)
(* ensure all piece data is durable").                                      *)
OkIsWhole ==
    session = "ended" /\ result = "ok" => output.seen = Pieces /\ output.synced = Pieces

(* No step, whatever fails, takes from the output file a piece that the     *)
(* resume file records.                                                     *)
RecordedDataStays ==
    [][resume # NoFile => resume \cap output.seen \subseteq output'.seen]_vars

(* A piece on record is not downloaded again ("crash recovery without       *)
(* re-downloading already-verified pieces", CoordinatorConfig).             *)
NothingTwice ==
    [][resume # NoFile => (accepted' \ accepted) \cap resume = {}]_vars
=============================================================================
