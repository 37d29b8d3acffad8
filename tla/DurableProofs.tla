--------------------------- MODULE DurableProofs ---------------------------
(***************************************************************************)
(* Theorems about DurableDownload.  With FileStorage, new coordinators and *)
(* no power cut, whatever else interrupts a download - crashes,            *)
(* cancellations, I/O errors, failed checkpoints - the resume file tells   *)
(* the truth, and Ok means that the output file is whole and synced.  The  *)
(* runs of MCDurableDownload show that each of these conditions is needed. *)
(* With either storage and any interruption, a run that ends Ok has lost   *)
(* nothing that it downloaded, and downloads nothing that is on record.    *)
(***************************************************************************)
EXTENDS MCDurableDownload, TLAPS

Ordinary ==
    /\ ~Coalescing
    /\ Hazards \subseteq {"crash", "cancel", "error", "save"}

(* What makes the promises inductive: nothing is buffered, an output file   *)
(* that is not there holds nothing and no run works on it, pieces are under *)
(* way only during a run, a coordinator that has not run knows no piece.    *)
NothingBuffered == buffer = {}
AbsentIsEmpty == ~output.there => output.seen = {} /\ session # "running"
QuietOutsideRuns ==
    /\ session # "running" => accepted = {} /\ unsaved = {}
    /\ session \in {"none", "ready"} => done = {}

IInv ==
    /\ TypeOK
    /\ NothingBuffered
    /\ AbsentIsEmpty
    /\ QuietOutsideRuns
    /\ CheckpointTellsTruth
    /\ DoneIsStored
    /\ OkIsWhole

-----------------------------------------------------------------------------
LEMMA InitEstablishes == Ordinary => (Init => IInv)
<1> SUFFICES ASSUME Ordinary, Init PROVE IInv
  OBVIOUS
<1>1. TypeOK
  <2>1. output \in [there : BOOLEAN, seen : SUBSET Pieces, synced : SUBSET Pieces]
    BY DEF Init, Absent
  <2>2. faults \in 0 .. MaxFaults
    BY DurableAssumption DEF Init
  <2> QED
    BY <2>1, <2>2 DEF Init, TypeOK
<1>2. QED
  BY <1>1 DEF Init, IInv, Absent, NothingBuffered, AbsentIsEmpty, QuietOutsideRuns,
     CheckpointTellsTruth, DoneIsStored, OkIsWhole

(* Every step keeps the types, a fault's counter included. *)
LEMMA FaultCounted ==
  ASSUME faults \in 0 .. MaxFaults, NEW kind, Fault(kind)
  PROVE  faults' \in 0 .. MaxFaults
BY DurableAssumption DEF Fault

LEMMA NextKeepsTypes == TypeOK /\ Ordinary /\ NothingBuffered /\ [Next]_vars => TypeOK'
<1> SUFFICES ASSUME TypeOK, Ordinary, NothingBuffered, [Next]_vars PROVE TypeOK'
  OBVIOUS
<1> USE DEF TypeOK, NothingBuffered, inRun
<1>1. CASE New
  BY <1>1 DEF New
<1>2. CASE NewResume
  BY <1>2 DEF NewResume, Ordinary
<1>3. CASE Run
  <2>1. output' \in [there : BOOLEAN, seen : SUBSET Pieces, synced : SUBSET Pieces]
    BY <1>3 DEF Run, Open, Blank
  <2>2. done' \subseteq Pieces
    BY <1>3 DEF Run, Restored
  <2> QED
    BY <1>3, <2>1, <2>2 DEF Run
<1>4. CASE RunCannotOpen
  <2>1. done' \subseteq Pieces
    BY <1>4 DEF RunCannotOpen, Restored
  <2> QED
    BY <1>4, <2>1, FaultCounted DEF RunCannotOpen
<1>5. ASSUME NEW i \in Pieces, WritePiece(i) PROVE TypeOK'
  <2>1. output' \in [there : BOOLEAN, seen : SUBSET Pieces, synced : SUBSET Pieces]
    <3>1. output' = [output EXCEPT !.seen = @ \cup {i}]
      BY <1>5 DEF WritePiece, Ordinary
    <3> QED
      BY <3>1
  <2>2. buffer' \subseteq Pieces /\ accepted' \subseteq Pieces
    BY <1>5 DEF WritePiece
  <2> QED
    BY <1>5, <2>1, <2>2 DEF WritePiece
<1>6. ASSUME NEW i \in Pieces, WritePieceFails(i) PROVE TypeOK'
  BY <1>6, FaultCounted DEF WritePieceFails, Ordinary
<1>7. ASSUME NEW i \in Pieces, MarkDone(i) PROVE TypeOK'
  BY <1>7 DEF MarkDone
<1>8. ASSUME NEW i \in Pieces, SaveCheckpoint(i) PROVE TypeOK'
  BY <1>8 DEF SaveCheckpoint
<1>9. CASE Complete
  <2>1. output' \in [there : BOOLEAN, seen : SUBSET Pieces, synced : SUBSET Pieces]
    BY <1>9 DEF Complete, Drained
  <2> QED
    BY <1>9, <2>1 DEF Complete
<1>10. CASE CompleteFails
  <2>1. output' \in [there : BOOLEAN, seen : SUBSET Pieces, synced : SUBSET Pieces]
    BY <1>10 DEF CompleteFails, PartlyDrained
  <2> QED
    BY <1>10, <2>1, FaultCounted DEF CompleteFails
<1>11. CASE GiveUp
  BY <1>11 DEF GiveUp
<1>12. CASE Drop
  BY <1>12 DEF Drop, Forget
<1>13. CASE Crash
  BY <1>13, FaultCounted DEF Crash, Forget
<1>14. CASE PowerCut
  BY <1>14 DEF PowerCut, Ordinary, Fault
<1>15. CASE DeleteOutput
  BY <1>15 DEF DeleteOutput, Ordinary, Fault
<1>16. CASE UNCHANGED vars
  BY <1>16 DEF vars
<1> QED
  BY <1>1, <1>2, <1>3, <1>4, <1>5, <1>6, <1>7, <1>8, <1>9, <1>10, <1>11, <1>12,
     <1>13, <1>14, <1>15, <1>16 DEF Next, Starting, Working, Ending

-----------------------------------------------------------------------------
(* Run is the step at which the resume file is believed: a new coordinator  *)
(* knows no piece, so what it restores is the whole record, and the output  *)
(* file is kept exactly when the record is not empty.                       *)
LEMMA RunTrustsTheRecord ==
  ASSUME Ordinary, IInv, Run
  PROVE  /\ buffer' = {}
         /\ AbsentIsEmpty'
         /\ CheckpointTellsTruth'
         /\ DoneIsStored'
<1>1. session = "ready" /\ done = {} /\ accepted = {}
  BY DEF Run, MayRun, Ordinary, IInv, QuietOutsideRuns, TypeOK
<1>2. CASE Restored = {}
  <2>1. output' = Blank /\ (resume = NoFile \/ resume = {})
    BY <1>1, <1>2 DEF Run, Open, Restored
  <2> QED
    BY <1>1, <1>2, <2>1 DEF Run, Blank, AbsentIsEmpty, CheckpointTellsTruth, DoneIsStored
<1>3. CASE Restored # {}
  <2>1. resume # NoFile /\ Restored = resume /\ resume \subseteq output.seen
    BY <1>1, <1>3 DEF Restored, IInv, CheckpointTellsTruth
  <2>2. output.there
    BY <1>3, <2>1 DEF IInv, AbsentIsEmpty, TypeOK
  <2>3. output' = output
    BY <1>3, <2>2 DEF Run, Open
  <2> QED
    BY <1>1, <2>1, <2>2, <2>3 DEF Run, AbsentIsEmpty, CheckpointTellsTruth, DoneIsStored
<1> QED
  BY <1>2, <1>3

LEMMA WritePieceStores ==
  ASSUME Ordinary, IInv, NEW i \in Pieces, WritePiece(i)
  PROVE  /\ output' = [output EXCEPT !.seen = @ \cup {i}]
         /\ output'.seen = output.seen \cup {i}
         /\ output'.there = output.there
         /\ buffer' = {}
BY DEF WritePiece, Ordinary, IInv, NothingBuffered, TypeOK

LEMMA CompleteSyncs ==
  ASSUME Ordinary, IInv, Complete
  PROVE  /\ output'.seen = Pieces /\ output'.synced = Pieces
         /\ output'.there = output.there
<1>1. output' = Drained({})
  BY DEF Complete, Flushes, Ordinary, IInv, NothingBuffered
<1>2. output.seen = Pieces
  BY DEF Complete, WorkersGone, IInv, DoneIsStored, NothingBuffered, TypeOK
<1> QED
  BY <1>1, <1>2 DEF Drained, IInv, TypeOK

LEMMA CompleteFailsKeeps ==
  ASSUME Ordinary, IInv, CompleteFails
  PROVE  output' = output
<1>1. output' = [output EXCEPT !.seen = @ \cup {}]
  BY DEF CompleteFails, PartlyDrained, IInv, NothingBuffered
<1> QED
  BY <1>1 DEF IInv, TypeOK

LEMMA NextKeepsRest ==
  ASSUME Ordinary, IInv, [Next]_vars
  PROVE  /\ NothingBuffered' /\ AbsentIsEmpty' /\ QuietOutsideRuns'
         /\ CheckpointTellsTruth' /\ DoneIsStored' /\ OkIsWhole'
<1> DEFINE Rest == /\ NothingBuffered /\ AbsentIsEmpty /\ QuietOutsideRuns
                   /\ CheckpointTellsTruth /\ DoneIsStored /\ OkIsWhole
<1> USE DEF NothingBuffered, AbsentIsEmpty, QuietOutsideRuns, CheckpointTellsTruth,
        DoneIsStored, OkIsWhole, inRun
<1>0. Rest /\ TypeOK
  BY DEF IInv
<1>1. CASE New
  BY <1>0, <1>1 DEF New
<1>2. CASE NewResume
  BY <1>2 DEF NewResume, Ordinary
<1>3. CASE Run
  BY <1>0, <1>3, RunTrustsTheRecord DEF Run
<1>4. CASE RunCannotOpen
  BY <1>0, <1>4 DEF RunCannotOpen, MayRun, Ordinary
<1>5. ASSUME NEW i \in Pieces, WritePiece(i) PROVE Rest'
  <2>1. /\ output'.seen = output.seen \cup {i} /\ output'.there = output.there
        /\ buffer' = {}
    BY <1>5, WritePieceStores
  <2>2. output.there
    BY <1>0, <1>5 DEF WritePiece, Arrives
  <2> QED
    BY <1>0, <1>5, <2>1, <2>2 DEF WritePiece, Arrives
<1>6. ASSUME NEW i \in Pieces, WritePieceFails(i) PROVE Rest'
  BY <1>0, <1>6 DEF WritePieceFails, Ordinary, Arrives
<1>7. ASSUME NEW i \in Pieces, MarkDone(i) PROVE Rest'
  BY <1>0, <1>7 DEF MarkDone
<1>8. ASSUME NEW i \in Pieces, SaveCheckpoint(i) PROVE Rest'
  BY <1>0, <1>8 DEF SaveCheckpoint
<1>9. CASE Complete
  BY <1>0, <1>9, CompleteSyncs DEF Complete, WorkersGone
<1>10. CASE CompleteFails
  BY <1>0, <1>10, CompleteFailsKeeps DEF CompleteFails, WorkersGone
<1>11. CASE GiveUp
  BY <1>0, <1>11 DEF GiveUp, WorkersGone
<1>12. CASE Drop
  BY <1>0, <1>12 DEF Drop, Forget
<1>13. CASE Crash
  BY <1>0, <1>13 DEF Crash, Forget
<1>14. CASE PowerCut
  BY <1>14 DEF PowerCut, Ordinary, Fault
<1>15. CASE DeleteOutput
  BY <1>15 DEF DeleteOutput, Ordinary, Fault
<1>16. CASE UNCHANGED vars
  BY <1>0, <1>16 DEF vars
<1> QED
  BY <1>1, <1>2, <1>3, <1>4, <1>5, <1>6, <1>7, <1>8, <1>9, <1>10, <1>11, <1>12,
     <1>13, <1>14, <1>15, <1>16 DEF Next, Starting, Working, Ending

LEMMA Inductive == Ordinary => (IInv /\ [Next]_vars => IInv')
BY NextKeepsTypes, NextKeepsRest DEF IInv

LEMMA Invariance == Ordinary => (Spec => []IInv)
<1> SUFFICES ASSUME Ordinary PROVE Spec => []IInv
  OBVIOUS
<1> QED
  BY InitEstablishes, Inductive, PTL DEF Spec

-----------------------------------------------------------------------------
(* What the resume file marks done is right in the output file, after any   *)
(* sequence of runs, cancellations, crashes and I/O errors: try_load_resume *)
(* may skip those pieces.                                                   *)
THEOREM CheckpointsAreTrue == Ordinary => (Spec => []CheckpointTellsTruth)
<1> SUFFICES ASSUME Ordinary PROVE Spec => []CheckpointTellsTruth
  OBVIOUS
<1>1. IInv => CheckpointTellsTruth
  BY DEF IInv
<1> QED
  BY <1>1, Invariance, PTL

(* When run has returned Ok the output file is complete and synced (the     *)
(* "Flush storage to ensure all piece data is durable" of run).             *)
THEOREM OkMeansWhole == Ordinary => (Spec => []OkIsWhole)
<1> SUFFICES ASSUME Ordinary PROVE Spec => []OkIsWhole
  OBVIOUS
<1>1. IInv => OkIsWhole
  BY DEF IInv
<1> QED
  BY <1>1, Invariance, PTL

(* No step takes from the output file a piece that is on record:            *)
(* FileStorage::open truncates only when nothing was restored.              *)
THEOREM RecordsAreKept == Ordinary => (Spec => RecordedDataStays)
<1> SUFFICES ASSUME Ordinary PROVE Spec => RecordedDataStays
  OBVIOUS
<1>1. IInv /\ [Next]_vars => [resume # NoFile => resume \cap output.seen \subseteq output'.seen]_vars
  <2> SUFFICES ASSUME IInv, Next, resume # NoFile
               PROVE  resume \cap output.seen \subseteq output'.seen
    BY DEF vars
  <2>1. CASE New
    BY <2>1 DEF New
  <2>2. CASE Run
    <3>1. done = {}
      BY <2>2 DEF Run, MayRun, Ordinary, IInv, QuietOutsideRuns
    <3>2. CASE resume = {}
      BY <3>2
    <3>3. CASE resume # {}
      <4>1. output.there \/ output.seen = {}
        BY DEF IInv, AbsentIsEmpty
      <4> QED
        BY <2>2, <3>1, <3>3, <4>1 DEF Run, Open, Restored
    <3> QED
      BY <3>2, <3>3
  <2>3. CASE UNCHANGED output
    BY <2>3
  <2>4. ASSUME NEW i \in Pieces, WritePiece(i)
        PROVE  resume \cap output.seen \subseteq output'.seen
    BY <2>4, WritePieceStores
  <2>5. CASE Complete
    BY <2>5, CompleteSyncs DEF IInv, TypeOK
  <2>6. CASE CompleteFails
    BY <2>6, CompleteFailsKeeps
  <2>7. CASE NewResume \/ PowerCut \/ DeleteOutput
    BY <2>7 DEF NewResume, PowerCut, DeleteOutput, Fault, Ordinary
  <2>8. ASSUME NEW i \in Pieces, WritePieceFails(i) PROVE UNCHANGED output
    BY <2>8 DEF WritePieceFails, Ordinary
  <2> QED
    BY <2>1, <2>2, <2>3, <2>4, <2>5, <2>6, <2>7, <2>8
       DEF Next, Starting, Working, Ending, RunCannotOpen, MarkDone, SaveCheckpoint,
           GiveUp, Drop, Crash, inRun
<1> QED
  BY <1>1, Invariance, PTL DEF Spec, RecordedDataStays

-----------------------------------------------------------------------------
(* What a run has downloaded itself is in the buffer or, if the storage     *)
(* buffers, already synced; what is on record is Done.  An error on the way *)
(* may drop what was buffered, and such a run does not end Ok.              *)
Kept == IF Coalescing THEN (output.synced \cap output.seen) \cup buffer ELSE output.seen

WorkTyped ==
    /\ {done, accepted, buffer} \subseteq SUBSET Pieces
    /\ output \in [there : BOOLEAN, seen : SUBSET Pieces, synced : SUBSET Pieces]
    /\ output.synced \subseteq output.seen
    /\ resume = NoFile \/ resume \in SUBSET Pieces
    /\ ~Coalescing => buffer = {}
    /\ session # "running" => accepted = {}

OwnWorkIsKept == (session = "running" /\ ~fatal) => (done \cup accepted) \ trusted \subseteq Kept

RecordIsDone == (session = "running" /\ resume # NoFile) => resume \subseteq done

WorkInv == WorkTyped /\ OwnWorkIsKept /\ RecordIsDone /\ OwnPiecesAreDurable

LEMMA WorkInit == TrustInit => WorkInv
BY DEF TrustInit, Init, Absent, WorkInv, WorkTyped, OwnWorkIsKept, RecordIsDone, OwnPiecesAreDurable

(* What a flush writes, whole or in part.                                   *)
LEMMA DrainedIs ==
  ASSUME WorkTyped, NEW pieces \in SUBSET Pieces
  PROVE  /\ Drained(pieces) \in [there : BOOLEAN, seen : SUBSET Pieces, synced : SUBSET Pieces]
         /\ Drained(pieces).seen = output.seen \cup pieces
         /\ Drained(pieces).synced = output.seen \cup pieces
BY DEF WorkTyped, Drained

LEMMA PartlyDrainedIs ==
  ASSUME WorkTyped, NEW pieces \in SUBSET Pieces, NEW o \in PartlyDrained(pieces)
  PROVE  /\ o \in [there : BOOLEAN, seen : SUBSET Pieces, synced : SUBSET Pieces]
         /\ output.seen \subseteq o.seen /\ o.synced = output.synced
<1>1. PICK S \in SUBSET Pieces : o = [output EXCEPT !.seen = @ \cup S]
  BY DEF PartlyDrained
<1> QED
  BY <1>1 DEF WorkTyped

LEMMA WorkNext ==
  ASSUME WorkInv, [TrustNext]_<<vars, trusted>>
  PROVE  WorkInv'
<1> USE DEF inRun
<1>0. WorkTyped /\ OwnWorkIsKept /\ RecordIsDone /\ OwnPiecesAreDurable
  BY DEF WorkInv
<1> DEFINE Goal == WorkTyped' /\ OwnWorkIsKept' /\ RecordIsDone' /\ OwnPiecesAreDurable'
<1>1. SUFFICES Goal
  BY DEF WorkInv
<1>2. CASE UNCHANGED <<vars, trusted>>
  BY <1>0, <1>2 DEF vars, WorkTyped, OwnWorkIsKept, RecordIsDone, OwnPiecesAreDurable, Kept
<1>3. CASE Run /\ trusted' = done'
  <2>1. session' = "running" /\ done' = done \cup Restored /\ buffer' = {} /\ accepted' = accepted
        /\ accepted = {} /\ resume' = resume
    BY <1>0, <1>3 DEF Run, MayRun, WorkTyped
  <2>2. output' \in [there : BOOLEAN, seen : SUBSET Pieces, synced : SUBSET Pieces]
        /\ output'.synced \subseteq output'.seen
    BY <1>0, <1>3 DEF Run, Open, Blank, WorkTyped
  <2>3. done' \subseteq Pieces /\ (resume # NoFile => resume \subseteq done')
    BY <1>0, <1>3, <2>1 DEF Restored, WorkTyped
  <2> QED
    BY <1>3, <2>1, <2>2, <2>3 DEF WorkTyped, OwnWorkIsKept, RecordIsDone, OwnPiecesAreDurable
<1>4. ASSUME Next, trusted' = trusted, session = "running" \/ session' # "running" PROVE Goal
  <2>1. /\ done \subseteq Pieces /\ accepted \subseteq Pieces /\ buffer \subseteq Pieces
        /\ output.seen \subseteq Pieces /\ output.synced \subseteq output.seen
    BY <1>0 DEF WorkTyped
  <2>2. CASE session # "running" /\ session' # "running" /\ ~PowerCut
    <3>1. /\ done' \subseteq Pieces /\ accepted' = {} /\ buffer' \subseteq Pieces
          /\ ~Coalescing => buffer' = {}
          /\ resume' = resume
      BY <1>0, <1>4, <2>1, <2>2 DEF Next, Starting, Working, Ending, New, NewResume, Run, RunCannotOpen,
         Restored, WritePiece, WritePieceFails, Arrives, MarkDone, SaveCheckpoint, Complete,
         CompleteFails, GiveUp, WorkersGone, Drop, Forget, Crash, DeleteOutput, WorkTyped
    <3>2. output' = output \/ output' = Absent
      BY <1>4, <2>2 DEF Next, Starting, Working, Ending, New, NewResume, Run, RunCannotOpen,
         WritePiece, WritePieceFails, Arrives, MarkDone, SaveCheckpoint, Complete,
         CompleteFails, GiveUp, WorkersGone, Drop, Forget, Crash, DeleteOutput
    <3>3. session' = "ended" /\ result' = "ok" => session = "ended" /\ result = "ok" /\ output' = output
      BY <1>4, <2>2 DEF Next, Starting, Working, Ending, New, NewResume, Run, RunCannotOpen,
         WritePiece, WritePieceFails, Arrives, MarkDone, SaveCheckpoint, Complete,
         CompleteFails, GiveUp, WorkersGone, Drop, Forget, Crash, DeleteOutput
    <3>4. WorkTyped'
      <4>1. Absent \in [there : BOOLEAN, seen : SUBSET Pieces, synced : SUBSET Pieces]
            /\ Absent.synced = {}
        BY DEF Absent
      <4>2. output' \in [there : BOOLEAN, seen : SUBSET Pieces, synced : SUBSET Pieces]
            /\ output'.synced \subseteq output'.seen
        BY <1>0, <3>2, <4>1 DEF WorkTyped
      <4> QED BY <1>0, <2>2, <3>1, <4>2 DEF WorkTyped
    <3> QED
      BY <1>0, <1>4, <2>2, <3>3, <3>4 DEF OwnWorkIsKept, RecordIsDone, OwnPiecesAreDurable
  <2>3. CASE PowerCut
    <3>1. PICK kept \in SUBSET output.seen :
             output.synced \subseteq kept /\ output' = [output EXCEPT !.seen = kept]
      BY <2>3 DEF PowerCut
    <3>2. output' \in [there : BOOLEAN, seen : SUBSET Pieces, synced : SUBSET Pieces]
          /\ output'.synced \subseteq output'.seen
      BY <1>0, <3>1 DEF WorkTyped
    <3> QED
      BY <1>0, <2>3, <3>2 DEF PowerCut, Forget, WorkTyped, OwnWorkIsKept, RecordIsDone, OwnPiecesAreDurable
  <2>4. ASSUME NEW i \in Pieces, WritePiece(i) PROVE Goal
    <3>1. /\ session = "running" /\ session' = session /\ accepted' = accepted \cup {i}
          /\ done' = done /\ fatal' = fatal /\ resume' = resume
      BY <2>4 DEF WritePiece, Arrives
    <3>2. /\ output' \in [there : BOOLEAN, seen : SUBSET Pieces, synced : SUBSET Pieces]
          /\ output'.synced \subseteq output'.seen /\ buffer' \subseteq Pieces
          /\ ~Coalescing => buffer' = {}
          /\ Kept \cup {i} \subseteq Kept'
      <4>1. CASE ~Coalescing /\ output' = [output EXCEPT !.seen = @ \cup {i}] /\ UNCHANGED buffer
        BY <1>0, <2>1, <4>1 DEF WorkTyped, Kept
      <4>2. CASE Coalescing /\ buffer' = buffer \cup {i} /\ UNCHANGED output
        BY <1>0, <2>1, <4>2 DEF WorkTyped, Kept
      <4>3. CASE Coalescing /\ output' = Drained(buffer \cup {i}) /\ buffer' = {}
        <5>1. /\ output' \in [there : BOOLEAN, seen : SUBSET Pieces, synced : SUBSET Pieces]
              /\ output'.seen = output.seen \cup (buffer \cup {i})
              /\ output'.synced = output.seen \cup (buffer \cup {i})
          BY <1>0, <2>1, <4>3, DrainedIs
        <5> QED BY <2>1, <4>3, <5>1 DEF Kept
      <4> QED BY <2>4, <4>1, <4>2, <4>3 DEF WritePiece
    <3> QED
      BY <1>0, <1>4, <2>1, <3>1, <3>2 DEF WorkTyped, OwnWorkIsKept, RecordIsDone, OwnPiecesAreDurable
  <2>5. ASSUME NEW i \in Pieces, WritePieceFails(i) PROVE Goal
    <3>1. /\ session = "running" /\ session' = session /\ fatal' = TRUE
          /\ done' = done /\ accepted' = accepted /\ resume' = resume
      BY <2>5 DEF WritePieceFails, Arrives
    <3>2. /\ output' \in [there : BOOLEAN, seen : SUBSET Pieces, synced : SUBSET Pieces]
          /\ output'.synced \subseteq output'.seen /\ buffer' \subseteq Pieces
          /\ ~Coalescing => buffer' = {}
      <4>1. CASE output' = output /\ buffer' = buffer
        BY <1>0, <4>1 DEF WorkTyped
      <4>2. CASE output' \in PartlyDrained(buffer \cup {i}) /\ buffer' = {}
        <5>1. buffer \cup {i} \in SUBSET Pieces
          BY <2>1
        <5>2. PICK o : o = output' /\ o \in PartlyDrained(buffer \cup {i})
          BY <4>2
        <5>3. PICK pieces \in SUBSET Pieces : pieces = buffer \cup {i}
          BY <5>1
        <5>4. /\ o \in [there : BOOLEAN, seen : SUBSET Pieces, synced : SUBSET Pieces]
              /\ output.seen \subseteq o.seen /\ o.synced = output.synced
          BY <1>0, <5>2, <5>3, PartlyDrainedIs
        <5> QED BY <2>1, <4>2, <5>2, <5>4
      <4> QED BY <2>5, <4>1, <4>2 DEF WritePieceFails
    <3> QED
      BY <1>0, <1>4, <3>1, <3>2 DEF WorkTyped, OwnWorkIsKept, RecordIsDone, OwnPiecesAreDurable
  <2>6. ASSUME NEW i \in Pieces, MarkDone(i) \/ SaveCheckpoint(i) PROVE Goal
    <3>1. /\ session = "running" /\ session' = session /\ fatal' = fatal /\ output' = output /\ buffer' = buffer
          /\ accepted' \subseteq accepted /\ done \subseteq done' /\ done' \subseteq Pieces
          /\ done' \cup accepted' = done \cup accepted
          /\ resume' = resume \/ resume' = done'
      BY <2>1, <2>6 DEF MarkDone, SaveCheckpoint
    <3> QED
      BY <1>0, <1>4, <2>1, <3>1 DEF WorkTyped, OwnWorkIsKept, RecordIsDone, OwnPiecesAreDurable, Kept
  <2>7. CASE Complete
    <3>1. /\ session' = "ended" /\ accepted' = {} /\ buffer' = {} /\ done' = done /\ resume' = NoFile
          /\ session = "running" /\ ~fatal /\ done = Pieces
          /\ output' = IF Flushes THEN Drained(buffer) ELSE output
      BY <2>7 DEF Complete, WorkersGone
    <3>2. Pieces \ trusted \subseteq Kept
      BY <1>0, <3>1 DEF OwnWorkIsKept
    <3>3. /\ output' \in [there : BOOLEAN, seen : SUBSET Pieces, synced : SUBSET Pieces]
          /\ output'.synced \subseteq output'.seen
          /\ Pieces \ trusted \subseteq output'.seen \cap output'.synced
      <4>1. CASE Flushes
        <5>1. /\ output' \in [there : BOOLEAN, seen : SUBSET Pieces, synced : SUBSET Pieces]
              /\ output'.seen = output.seen \cup buffer /\ output'.synced = output.seen \cup buffer
          BY <1>0, <2>1, <3>1, <4>1, DrainedIs
        <5> QED BY <3>2, <5>1 DEF Kept
      <4>2. CASE ~Flushes
        BY <1>0, <3>1, <3>2, <4>2 DEF Flushes, Kept, WorkTyped
      <4> QED BY <4>1, <4>2
    <3> QED
      BY <1>0, <1>4, <3>1, <3>3 DEF WorkTyped, OwnWorkIsKept, RecordIsDone, OwnPiecesAreDurable
  <2>8. CASE CompleteFails
    <3>1. PICK o \in PartlyDrained(buffer) : o = output'
      BY <2>8 DEF CompleteFails
    <3>2. PICK pieces \in SUBSET Pieces : pieces = buffer
      BY <2>1
    <3>3. /\ o \in [there : BOOLEAN, seen : SUBSET Pieces, synced : SUBSET Pieces]
          /\ output.seen \subseteq o.seen /\ o.synced = output.synced
      BY <1>0, <3>1, <3>2, PartlyDrainedIs
    <3> QED
      BY <1>0, <2>1, <2>8, <3>1, <3>3
         DEF CompleteFails, WorkersGone, WorkTyped, OwnWorkIsKept, RecordIsDone, OwnPiecesAreDurable
  <2>9. CASE GiveUp
    BY <1>0, <2>9 DEF GiveUp, WorkersGone, WorkTyped, OwnWorkIsKept, RecordIsDone, OwnPiecesAreDurable
  <2>10. CASE Crash
    BY <1>0, <2>10 DEF Crash, Forget, WorkTyped, OwnWorkIsKept, RecordIsDone, OwnPiecesAreDurable
  <2>11. session = "running" => ~New /\ ~NewResume /\ ~Run /\ ~RunCannotOpen /\ ~Drop /\ ~DeleteOutput
    BY DEF New, NewResume, Run, RunCannotOpen, MayRun, Drop, DeleteOutput
  <2>12. session = "running" => Goal
    BY <1>4, <2>3, <2>4, <2>5, <2>6, <2>7, <2>8, <2>9, <2>10, <2>11 DEF Next, Starting, Working, Ending
  <2> QED
    BY <1>4, <2>2, <2>3, <2>12
<1>5. TrustNext => (Run /\ trusted' = done')
                   \/ (Next /\ trusted' = trusted /\ (session = "running" \/ session' # "running"))
  <2>1. ASSUME Next, session # "running", session' = "running" PROVE Run
    BY <2>1 DEF Next, Starting, Working, Ending, New, NewResume, Run, RunCannotOpen,
       WritePiece, WritePieceFails, Arrives, MarkDone, SaveCheckpoint, Complete,
       CompleteFails, GiveUp, WorkersGone, Drop, Forget, Crash, PowerCut, DeleteOutput
  <2> QED
    BY <2>1 DEF TrustNext
<1> QED
  BY <1>2, <1>3, <1>4, <1>5

(* Whatever storage is used and whatever interrupts the download, runs      *)
(* again on the same coordinator, a caller's own verification and power     *)
(* cuts included: when run returns Ok, what it did not take over is in the  *)
(* output file and synced, and no piece on record is downloaded again       *)
(* (try_load_resume, flush, CoalescingStorage::flush_buffer).               *)
THEOREM WorkSurvives == TrustSpec => WorkIsKept
<1>1. WorkInv /\ [TrustNext]_<<vars, trusted>> => [OwnPiecesAreDurable']_<<vars, trusted>>
  BY WorkNext DEF WorkInv
<1>2. WorkInv /\ [TrustNext]_<<vars, trusted>> =>
        [resume # NoFile => (accepted' \ accepted) \cap resume = {}]_vars
  <2>1. SUFFICES ASSUME WorkInv, Next, resume # NoFile PROVE (accepted' \ accepted) \cap resume = {}
    BY DEF TrustNext, vars
  <2>2. CASE \E i \in Pieces : WritePiece(i)
    BY <2>1, <2>2 DEF WritePiece, Arrives, WorkInv, RecordIsDone
  <2>3. CASE accepted' \subseteq accepted
    BY <2>3
  <2> QED
    BY <2>1, <2>2, <2>3 DEF Next, Starting, Working, Ending, New, NewResume, Run, RunCannotOpen,
       WritePieceFails, MarkDone, SaveCheckpoint, Complete, CompleteFails, GiveUp, Drop, Forget,
       Crash, PowerCut, DeleteOutput, inRun
<1>3. TrustSpec => []WorkInv
  BY WorkInit, WorkNext, PTL DEF TrustSpec
<1> QED
  BY <1>1, <1>2, <1>3, PTL DEF TrustSpec, WorkIsKept, NothingTwice
=============================================================================
