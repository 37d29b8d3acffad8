-------------------------- MODULE CoordinatorProofs --------------------------
(***************************************************************************)
(* Theorems about Coordinator, for any number of pieces, workers, peers,   *)
(* retries and any thresholds.                                             *)
(***************************************************************************)
EXTENDS Coordinator, TLAPS, FiniteSetTheorems

(* The operations on a piece map return a piece map.                        *)
LEMMA MapOperations ==
    ASSUME NEW m \in [Pieces -> PieceState], NEW i
    PROVE  /\ Claimed(m, i) \in [Pieces -> PieceState]
           /\ MarkedDone(m, i) \in [Pieces -> PieceState]
           /\ MarkedFailed(m, i) \in [Pieces -> PieceState]
           /\ RetryFailed(m, i) \in [Pieces -> PieceState]
BY DEF Claimed, MarkedDone, MarkedFailed, RetryFailed, PieceState

(* What is recorded of a peer keeps its shape.                              *)
LEMMA PeerRecords ==
    ASSUME NEW t \in Tracked
    PROVE  /\ \A f : Failing(t, f) \in Tracked
           /\ Corrupting(t) \in Tracked
<1>1. ASSUME NEW f PROVE Failing(t, f) \in Tracked
  <2> DEFINE last == IF f \in Rejections THEN f ELSE t.rejection
  <2> DEFINE row == t.rejectedInRow \/ f = "transient"
  <2>1. last \in Rejections \cup {"none"} /\ row \in BOOLEAN
           /\ (last = "transient" /\ row) \in BOOLEAN
    BY DEF Tracked
  <2> HIDE DEF last, row
  <2>2. [t EXCEPT !.rejection = last, !.rejectedInRow = row,
                  !.backoff = last = "transient" /\ row] \in Tracked
    BY <2>1 DEF Tracked
  <2> QED BY <2>2 DEF Failing, last, row
<1>2. Failing(t, "corrupt") \in Tracked
  BY <1>1
<1>3. \A u \in Tracked, n \in Nat, b \in BOOLEAN :
         [u EXCEPT !.failures = n, !.excluded = TRUE, !.blacklisted = b] \in Tracked
  BY DEF Tracked
<1>4. t.failures + 1 \in Nat
  BY DEF Tracked
<1>5. (Failing(t, "corrupt").blacklisted
         \/ (MaxPeerFailures > 0 /\ t.failures + 1 >= MaxPeerFailures)) \in BOOLEAN
  BY <1>2 DEF Tracked
<1>6. Corrupting(t) \in Tracked
  BY <1>2, <1>3, <1>4, <1>5 DEF Corrupting
<1> QED BY <1>1, <1>6

LEMMA TrackerUpdates ==
    ASSUME NEW tr \in [Peers -> Tracked], NEW p
    PROVE  /\ [tr EXCEPT ![p].rejectedInRow = FALSE, ![p].backoff = FALSE]
                   \in [Peers -> Tracked]
           /\ [tr EXCEPT ![p].backoff = FALSE] \in [Peers -> Tracked]
           /\ [tr EXCEPT ![p].excluded = FALSE] \in [Peers -> Tracked]
<1>1. \A u \in Tracked : /\ [u EXCEPT !.rejectedInRow = FALSE] \in Tracked
                         /\ [u EXCEPT !.backoff = FALSE] \in Tracked
                         /\ [u EXCEPT !.excluded = FALSE] \in Tracked
  BY DEF Tracked
<1>2. \A f \in [Peers -> Tracked], u \in Tracked : [f EXCEPT ![p] = u] \in [Peers -> Tracked]
  OBVIOUS
<1>3. CASE p \in Peers
  BY <1>1, <1>2, <1>3
<1>4. CASE p \notin Peers
  BY <1>4
<1> QED BY <1>3, <1>4

LEMMA LimitType == TypeOK => Limit \in Nat
BY CoordinatorAssumption DEF Limit, TypeOK

LEMMA InitTypeOK == Init => TypeOK
<1> SUFFICES ASSUME Init PROVE TypeOK
  OBVIOUS
<1>1. map \in [Pieces -> PieceState] /\ written \in SUBSET Pieces
         /\ checkpoint \in SUBSET Pieces
  BY DEF Init, FromVerified, PieceState
<1>2. tracker \in [Peers -> Tracked]
  <2>1. NewPeer \in Tracked
    BY DEF NewPeer, Tracked
  <2> QED BY <2>1 DEF Init
<1>3. retries \in [Pieces -> Nat] /\ lastFailed \in [Pieces -> Peers \cup {NoPeer}]
         /\ mutex \in Workers \cup {NoWorker} /\ cancel \in BOOLEAN /\ fatal \in BOOLEAN
         /\ outcome \in {"running", "storage", "cancelled", "failed", "ok"}
  BY CoordinatorAssumption DEF Init
<1>4. pc \in [Workers -> Labels] /\ piece \in [Workers -> Nat]
         /\ peer \in [Workers -> Peers \cup {NoPeer}]
         /\ fault \in [Workers -> Outcomes \cup {"none", "nopeer"}]
         /\ cursor \in [Workers -> 0 .. PieceCount] /\ tries \in [Workers -> Nat]
         /\ needed \in [Workers -> SUBSET Pieces] /\ limit \in [Workers -> Nat]
  BY PieceCountAssumption DEF Init, Labels
<1> QED BY <1>1, <1>2, <1>3, <1>4 DEF TypeOK

LEMMA NextTypeOK == TypeOK /\ OneHolder /\ [Next]_vars => TypeOK'
<1> SUFFICES ASSUME TypeOK, OneHolder, [Next]_vars PROVE TypeOK'
  OBVIOUS
<1> USE PieceCountAssumption
<1>1. ASSUME NEW w \in Workers, Work(w) PROVE TypeOK'
  <2>1. CASE Check(w)
    BY <1>1, <2>1 DEF Check, TypeOK, Goto, AtEnd, Rewind, Advance, Labels, Holding, shared, locals, books, flags, file, job, progress
  <2>2. CASE EnterReset(w)
    BY <1>1, <2>2, LimitType DEF EnterReset, TypeOK, Goto, AtEnd, Rewind, Advance, Labels, Holding, shared, locals, books, flags, file, job, progress
  <2>3. CASE ResetPiece(w)
    BY <1>1, <2>3, MapOperations DEF ResetPiece, TypeOK, Goto, AtEnd, Rewind, Advance, Labels, Holding, shared, locals, books, flags, file, job, progress
  <2>4. CASE LeaveReset(w)
    BY <1>1, <2>4 DEF LeaveReset, TypeOK, Goto, AtEnd, Rewind, Advance, Labels, Holding, shared, locals, books, flags, file, job, progress
  <2>5. CASE Scan(w)
    BY <1>1, <2>5 DEF Scan, TypeOK, Goto, AtEnd, Rewind, Advance, Labels, Holding, shared, locals, books, flags, file, job, progress
  <2>6. CASE ScanFindsNone(w)
    BY <1>1, <2>6 DEF ScanFindsNone, TypeOK, Goto, AtEnd, Rewind, Advance, Labels, Holding, shared, locals, books, flags, file, job, progress, NothingClaimed
  <2>7. CASE TryClaim(w)
    BY <1>1, <2>7, MapOperations DEF TryClaim, TypeOK, Goto, AtEnd, Rewind, Advance, Labels, Holding, shared, locals, books, flags, file, job, progress, Claim
  <2>8. CASE LoseRace(w)
    BY <1>1, <2>8 DEF LoseRace, TypeOK, Goto, AtEnd, Rewind, Advance, Labels, Holding, shared, locals, books, flags, file, job, progress
  <2>9. CASE LoseLastRace(w)
    BY <1>1, <2>9 DEF LoseLastRace, TypeOK, Goto, AtEnd, Rewind, Advance, Labels, Holding, shared, locals, books, flags, file, job, progress, NothingClaimed
  <2>10. CASE Snapshot(w)
    <3>1. cursor[w] \in Pieces /\ cursor[w] + 1 \in 0 .. PieceCount
      BY <1>1, <2>10, SMTT(30) DEF Snapshot, AtEnd, TypeOK, Pieces
    <3>2. needed' \in [Workers -> SUBSET Pieces]
      BY <1>1, <2>10, <3>1 DEF Snapshot, TypeOK
    <3>3. cursor' \in [Workers -> 0 .. PieceCount]
      BY <1>1, <2>10, <3>1 DEF Snapshot, Advance, TypeOK
    <3> QED BY <2>10, <3>2, <3>3 DEF Snapshot, TypeOK, shared, books, flags, file, job
  <2>11. CASE SnapshotTaken(w)
    BY <1>1, <2>11 DEF SnapshotTaken, TypeOK, Goto, AtEnd, Rewind, Advance, Labels, Holding, shared, locals, books, flags, file, job, progress, NothingClaimed
  <2>12. CASE PickBest(w)
    <3>1. PICK i \in Nat : Claim(w, i, "pick")
      BY <1>1, <2>12 DEF PickBest, Selectable, TypeOK, Pieces
    <3> QED
      BY <1>1, <3>1, MapOperations DEF Claim, TypeOK, Goto, AtEnd, Rewind, Advance, Labels, Holding, shared, locals, books, flags, file, job, progress
  <2>13. CASE MissBest(w)
    BY <1>1, <2>13 DEF MissBest, TypeOK, Goto, AtEnd, Rewind, Advance, Labels, Holding, shared, locals, books, flags, file, job, progress
  <2>14. CASE Sweep(w)
    BY <1>1, <2>14, MapOperations, SMTT(30) DEF Sweep, TypeOK, Goto, AtEnd, Rewind, Advance, Labels, Holding, shared, locals, books, flags, file, job, progress, Claim
  <2>15. CASE SweepFindsNone(w)
    BY <1>1, <2>15 DEF SweepFindsNone, TypeOK, Goto, AtEnd, Rewind, Advance, Labels, Holding, shared, locals, books, flags, file, job, progress, NothingClaimed
  <2>16. CASE Idle(w)
    BY <1>1, <2>16 DEF Idle, TypeOK, Goto, AtEnd, Rewind, Advance, Labels, Holding, shared, locals, books, flags, file, job, progress
  <2>17. CASE Look(w)
    BY <1>1, <2>17 DEF Look, TypeOK, Goto, AtEnd, Rewind, Advance, Labels, Holding, shared, locals, books, flags, file, job, progress
  <2>18. CASE Yield(w)
    BY <1>1, <2>18 DEF Yield, TypeOK, Goto, AtEnd, Rewind, Advance, Labels, Holding, shared, locals, books, flags, file, job, progress
  <2>19. CASE GiveUp(w)
    BY <1>1, <2>19 DEF GiveUp, TypeOK, Goto, AtEnd, Rewind, Advance, Labels, Holding, shared, locals, books, flags, file, job, progress
  <2>20. CASE SelectPeer(w)
    BY <1>1, <2>20, CoordinatorAssumption DEF SelectPeer, TypeOK, Goto, AtEnd, Rewind, Advance, Labels, Holding, shared, locals, books, flags, file, job, progress, Eligible, Primary, Usable, Moods
  <2>21. CASE NoEligiblePeer(w)
    BY <1>1, <2>21, MapOperations DEF NoEligiblePeer, TypeOK, Goto, AtEnd, Rewind, Advance, Labels, Holding, shared, locals, books, flags, file, job, progress
  <2>22. CASE FetchGood(w)
    BY <1>1, <2>22 DEF FetchGood, TypeOK, Goto, AtEnd, Rewind, Advance, Labels, Holding, shared, locals, books, flags, file, job, progress
  <2>23. CASE FetchBad(w)
    BY <1>1, <2>23, MapOperations DEF FetchBad, TypeOK, Goto, AtEnd, Rewind, Advance, Labels, Holding, shared, locals, books, flags, file, job, progress, Outcomes
  <2>24. CASE WritePiece(w)
    <3>1. piece[w] \in Pieces
      BY <1>1, <2>24 DEF WritePiece, OneHolder, Holding, Goto
    <3> QED
      BY <1>1, <2>24, <3>1 DEF WritePiece, TypeOK, Goto, AtEnd, Rewind, Advance, Labels, Holding, shared, locals, books, flags, file, job, progress
  <2>25. CASE WriteFails(w)
    BY <1>1, <2>25 DEF WriteFails, TypeOK, Goto, AtEnd, Rewind, Advance, Labels, Holding, shared, locals, books, flags, file, job, progress
  <2>26. CASE RaiseCancel(w)
    BY <1>1, <2>26 DEF RaiseCancel, TypeOK, Goto, AtEnd, Rewind, Advance, Labels, Holding, shared, locals, books, flags, file, job, progress
  <2>27. CASE RecordFatal(w)
    BY <1>1, <2>27 DEF RecordFatal, TypeOK, Goto, AtEnd, Rewind, Advance, Labels, Holding, shared, locals, books, flags, file, job, progress
  <2>28. CASE MarkDone(w)
    BY <1>1, <2>28, MapOperations DEF MarkDone, TypeOK, Goto, AtEnd, Rewind, Advance, Labels, Holding, shared, locals, books, flags, file, job, progress
  <2>29. CASE HandleSuccess(w)
    BY <1>1, <2>29, TrackerUpdates DEF HandleSuccess, TypeOK, Goto, AtEnd, Rewind, Advance, Labels, Holding, shared, locals, books, flags, file, job, progress, Forget, DonePieces
  <2>30. CASE HandleFailure(w)
    <3>1. tracker' \in [Peers -> Tracked] /\ lastFailed' \in [Pieces -> Peers \cup {NoPeer}]
      <4>1. CASE fault[w] = "nopeer"
        BY <2>30, <4>1 DEF HandleFailure, TypeOK
      <4>2. CASE fault[w] # "nopeer"
        <5> DEFINE new(t) == IF fault[w] = "corrupt" THEN Corrupting(t)
                                                     ELSE Failing(t, fault[w])
        <5>1. \A t \in Tracked : new(t) \in Tracked
          BY PeerRecords
        <5>2. tracker' = [tracker EXCEPT ![peer[w]] = new(@)]
          BY <2>30, <4>2 DEF HandleFailure
        <5> HIDE DEF new
        <5>3. tracker' \in [Peers -> Tracked]
          BY <5>1, <5>2 DEF TypeOK
        <5>4. lastFailed' \in [Pieces -> Peers \cup {NoPeer}]
          BY <1>1, <2>30, <4>2 DEF HandleFailure, TypeOK
        <5> QED BY <5>3, <5>4
      <4> QED BY <4>1, <4>2
    <3>2. retries' \in [Pieces -> Nat]
      <4>1. \A i \in Pieces : retries[i] + 1 \in Nat
        BY DEF TypeOK
      <4>2. retries' = [retries EXCEPT ![piece[w]] = @ + 1]
        BY <2>30 DEF HandleFailure
      <4> QED BY <4>1, <4>2 DEF TypeOK
    <3>3. pc' \in [Workers -> Labels] /\ piece' \in [Workers -> Nat]
             /\ peer' \in [Workers -> Peers \cup {NoPeer}]
             /\ fault' \in [Workers -> Outcomes \cup {"none", "nopeer"}]
      BY <1>1, <2>30 DEF HandleFailure, Goto, Forget, Labels, TypeOK
    <3> QED
      BY <2>30, <3>1, <3>2, <3>3 DEF HandleFailure, flags, file, progress, TypeOK
  <2> QED
    BY <1>1, <2>1, <2>2, <2>3, <2>4, <2>5, <2>6, <2>7, <2>8, <2>9, <2>10, <2>11, <2>12, <2>13, <2>14, <2>15, <2>16, <2>17, <2>18, <2>19, <2>20, <2>21, <2>22, <2>23, <2>24, <2>25, <2>26, <2>27, <2>28, <2>29, <2>30 DEF Work
<1>2. CASE Main
  BY <1>2 DEF Main, ReturnStorageError, ReturnCancelled, ReturnAllPeersFailed, FlushFails, ReturnOk, Return, TypeOK, Goto, AtEnd, Rewind, Advance, Labels, Holding, shared, locals, books, flags, file, job, progress
<1>3. CASE Cancel
  BY <1>3 DEF Cancel, TypeOK, Goto, AtEnd, Rewind, Advance, Labels, Holding, shared, locals, books, flags, file, job, progress
<1>4. ASSUME NEW p \in Peers, Elapse(p) PROVE TypeOK'
  <2>1. tracker' \in [Peers -> Tracked]
    <3>1. tracker \in [Peers -> Tracked]
      BY DEF TypeOK
    <3>2. \/ tracker' = [tracker EXCEPT ![p].backoff = FALSE]
          \/ tracker' = [tracker EXCEPT ![p].excluded = FALSE]
      BY <1>4 DEF Elapse
    <3>3. /\ [tracker EXCEPT ![p].backoff = FALSE] \in [Peers -> Tracked]
          /\ [tracker EXCEPT ![p].excluded = FALSE] \in [Peers -> Tracked]
      BY <3>1, TrackerUpdates, Zenon
    <3> QED BY <3>2, <3>3, Zenon
  <2> QED
    BY <1>4, <2>1 DEF Elapse, TypeOK, Goto, AtEnd, Rewind, Advance, Labels, Holding, shared, locals, books, flags, file, job, progress
<1>5. CASE UNCHANGED vars
  BY <1>5 DEF vars, TypeOK, Goto, AtEnd, Rewind, Advance, Labels, Holding, shared, locals, books, flags, file, job, progress
<1> QED
  BY <1>1, <1>2, <1>3, <1>4, <1>5 DEF Next, Stopped

(* A step that lets nobody new hold a piece, and leaves the pieces still    *)
(* held InFlight, keeps the holders apart.                                  *)
Keeps == \A v \in Workers : pc'[v] \in Holding =>
             /\ pc[v] \in Holding
             /\ piece'[v] = piece[v]
             /\ map'[piece[v]] = "InFlight"

LEMMA KeepHolders == OneHolder /\ Keeps => OneHolder'
BY DEF OneHolder, Keeps

(* Claiming a piece makes its claimer the one holder: the compare-and-swap  *)
(* succeeds on a Needed piece only, and a Needed piece is held by nobody.   *)
LEMMA ClaimHolders ==
    ASSUME TypeOK, OneHolder, NEW w \in Workers, NEW i \in Pieces, NEW from, Claim(w, i, from)
    PROVE  OneHolder'
<1>1. map' = [map EXCEPT ![i] = "InFlight"] /\ map[i] = "Needed"
  BY DEF Claim, Claimed, Claimable
<1>2. pc' = [pc EXCEPT ![w] = "select"] /\ piece' = [piece EXCEPT ![w] = i]
  BY DEF Claim, Goto
<1>3. \A v \in Workers \ {w} : pc[v] \in Holding => piece[v] # i
  BY <1>1 DEF OneHolder
<1> QED
  BY <1>1, <1>2, <1>3 DEF OneHolder, TypeOK

LEMMA NextOneHolder == TypeOK /\ OneHolder /\ [Next]_vars => OneHolder'
<1> SUFFICES ASSUME TypeOK, OneHolder, [Next]_vars PROVE OneHolder'
  OBVIOUS
<1>1. ASSUME NEW w \in Workers, Work(w) PROVE OneHolder'
  <2>1. CASE Check(w)
    BY <1>1, <2>1, KeepHolders DEF Check, Keeps, OneHolder, TypeOK, Goto, Holding, shared, job
  <2>2. CASE EnterReset(w)
    BY <1>1, <2>2, KeepHolders DEF EnterReset, Keeps, OneHolder, TypeOK, Goto, Holding, shared, job
  <2>3. CASE ResetPiece(w)
    BY <1>1, <2>3, KeepHolders DEF ResetPiece, Keeps, OneHolder, TypeOK, Goto, Holding, shared, job, RetryFailed, AtEnd, Pieces
  <2>4. CASE LeaveReset(w)
    BY <1>1, <2>4, KeepHolders DEF LeaveReset, Keeps, OneHolder, TypeOK, Goto, Holding, shared, job
  <2>5. CASE Scan(w)
    BY <1>1, <2>5, KeepHolders DEF Scan, Keeps, OneHolder, TypeOK, Goto, Holding, shared, job
  <2>6. CASE ScanFindsNone(w)
    BY <1>1, <2>6, KeepHolders DEF ScanFindsNone, Keeps, OneHolder, TypeOK, Goto, Holding, shared, job, NothingClaimed
  <2>7. CASE TryClaim(w)
    <3>1. cursor[w] \in Pieces
      BY <2>7 DEF TryClaim, Claim, Claimable
    <3> QED BY <1>1, <2>7, <3>1, ClaimHolders DEF TryClaim
  <2>8. CASE LoseRace(w)
    BY <1>1, <2>8, KeepHolders DEF LoseRace, Keeps, OneHolder, TypeOK, Goto, Holding, shared, job
  <2>9. CASE LoseLastRace(w)
    BY <1>1, <2>9, KeepHolders DEF LoseLastRace, Keeps, OneHolder, TypeOK, Goto, Holding, shared, job, NothingClaimed
  <2>10. CASE Snapshot(w)
    BY <1>1, <2>10, KeepHolders DEF Snapshot, Keeps, OneHolder, TypeOK, Goto, Holding, shared, job
  <2>11. CASE SnapshotTaken(w)
    BY <1>1, <2>11, KeepHolders DEF SnapshotTaken, Keeps, OneHolder, TypeOK, Goto, Holding, shared, job, NothingClaimed
  <2>12. CASE PickBest(w)
    <3>1. PICK i \in Pieces : Claim(w, i, "pick")
      BY <1>1, <2>12 DEF PickBest, Selectable, TypeOK
    <3> QED BY <1>1, <3>1, ClaimHolders
  <2>13. CASE MissBest(w)
    BY <1>1, <2>13, KeepHolders DEF MissBest, Keeps, OneHolder, TypeOK, Goto, Holding, shared, job
  <2>14. CASE Sweep(w)
    <3>1. CASE cursor[w] \in needed[w] /\ Claim(w, cursor[w], "sweep")
      <4>1. cursor[w] \in Pieces
        BY <1>1, <3>1 DEF TypeOK
      <4> QED BY <1>1, <3>1, <4>1, ClaimHolders
    <3>2. CASE pc[w] = "sweep" /\ UNCHANGED <<shared, pc, job>>
      BY <3>2, KeepHolders DEF Keeps, OneHolder, shared, job
    <3> QED BY <2>14, <3>1, <3>2 DEF Sweep
  <2>15. CASE SweepFindsNone(w)
    BY <1>1, <2>15, KeepHolders DEF SweepFindsNone, Keeps, OneHolder, TypeOK, Goto, Holding, shared, job, NothingClaimed
  <2>16. CASE Idle(w)
    BY <1>1, <2>16, KeepHolders DEF Idle, Keeps, OneHolder, TypeOK, Goto, Holding, shared, job
  <2>17. CASE Look(w)
    BY <1>1, <2>17, KeepHolders DEF Look, Keeps, OneHolder, TypeOK, Goto, Holding, shared, job
  <2>18. CASE Yield(w)
    BY <1>1, <2>18, KeepHolders DEF Yield, Keeps, OneHolder, TypeOK, Goto, Holding, shared, job
  <2>19. CASE GiveUp(w)
    BY <1>1, <2>19, KeepHolders DEF GiveUp, Keeps, OneHolder, TypeOK, Goto, Holding, shared, job
  <2>20. CASE SelectPeer(w)
    BY <1>1, <2>20, KeepHolders DEF SelectPeer, Keeps, OneHolder, TypeOK, Goto, Holding, shared, job
  <2>21. CASE NoEligiblePeer(w)
    BY <1>1, <2>21, KeepHolders DEF NoEligiblePeer, Keeps, OneHolder, TypeOK, Goto, Holding, shared, job, MarkedFailed
  <2>22. CASE FetchGood(w)
    BY <1>1, <2>22, KeepHolders DEF FetchGood, Keeps, OneHolder, TypeOK, Goto, Holding, shared, job
  <2>23. CASE FetchBad(w)
    BY <1>1, <2>23, KeepHolders DEF FetchBad, Keeps, OneHolder, TypeOK, Goto, Holding, shared, job, MarkedFailed
  <2>24. CASE WritePiece(w)
    BY <1>1, <2>24, KeepHolders DEF WritePiece, Keeps, OneHolder, TypeOK, Goto, Holding, shared, job
  <2>25. CASE WriteFails(w)
    BY <1>1, <2>25, KeepHolders DEF WriteFails, Keeps, OneHolder, TypeOK, Goto, Holding, shared, job
  <2>26. CASE RaiseCancel(w)
    BY <1>1, <2>26, KeepHolders DEF RaiseCancel, Keeps, OneHolder, TypeOK, Goto, Holding, shared, job
  <2>27. CASE RecordFatal(w)
    BY <1>1, <2>27, KeepHolders DEF RecordFatal, Keeps, OneHolder, TypeOK, Goto, Holding, shared, job
  <2>28. CASE MarkDone(w)
    BY <1>1, <2>28, KeepHolders DEF MarkDone, Keeps, OneHolder, TypeOK, Goto, Holding, shared, job, MarkedDone
  <2>29. CASE HandleSuccess(w)
    BY <1>1, <2>29, KeepHolders DEF HandleSuccess, Keeps, OneHolder, TypeOK, Goto, Holding, shared, job, Forget
  <2>30. CASE HandleFailure(w)
    BY <1>1, <2>30, KeepHolders DEF HandleFailure, Keeps, OneHolder, TypeOK, Goto, Holding, shared, job, Forget
  <2> QED
    BY <1>1, <2>1, <2>2, <2>3, <2>4, <2>5, <2>6, <2>7, <2>8, <2>9, <2>10, <2>11, <2>12, <2>13, <2>14, <2>15, <2>16, <2>17, <2>18, <2>19, <2>20, <2>21, <2>22, <2>23, <2>24, <2>25, <2>26, <2>27, <2>28, <2>29, <2>30 DEF Work
<1>2. CASE Main
  BY <1>2, KeepHolders DEF Main, ReturnStorageError, ReturnCancelled, ReturnAllPeersFailed, FlushFails, ReturnOk, Return, Keeps, OneHolder, locals, job
<1>3. CASE Cancel
  BY <1>3, KeepHolders DEF Cancel, Keeps, OneHolder, locals, job
<1>4. ASSUME NEW p \in Peers, Elapse(p) PROVE OneHolder'
  BY <1>4, KeepHolders DEF Elapse, Keeps, OneHolder, locals, job
<1>5. CASE UNCHANGED vars
  BY <1>5, KeepHolders DEF vars, Keeps, OneHolder, shared, locals, job
<1> QED
  BY <1>1, <1>2, <1>3, <1>4, <1>5 DEF Next, Stopped

LEMMA InitOneHolder == Init => OneHolder
BY DEF Init, OneHolder, Holding

(* Every reachable state is well typed, and no two workers ever hold the    *)
(* same piece.                                                              *)
THEOREM TypeCorrect == Spec => []TypeOK
<1>1. Init => TypeOK /\ OneHolder
  BY InitTypeOK, InitOneHolder
<1>2. TypeOK /\ OneHolder /\ [Next]_vars => TypeOK' /\ OneHolder'
  BY NextTypeOK, NextOneHolder
<1> QED BY <1>1, <1>2, PTL DEF Spec

THEOREM ClaimsAreExclusive == Spec => []OneHolder
<1>1. Init => TypeOK /\ OneHolder
  BY InitTypeOK, InitOneHolder
<1>2. TypeOK /\ OneHolder /\ [Next]_vars => TypeOK' /\ OneHolder'
  BY NextTypeOK, NextOneHolder
<1> QED BY <1>1, <1>2, PTL DEF Spec
-----------------------------------------------------------------------------
(* A worker about to mark its piece Done has written it.                    *)
Stored == \A w \in Workers : pc[w] = "mark" => piece[w] \in written

(* A step that brings nobody to "mark", marks no piece Done and saves       *)
(* nothing but Done pieces keeps the data ahead of the map and the file.    *)
Quiet == /\ written \subseteq written'
         /\ \A i \in Pieces : map'[i] = "Done" <=> map[i] = "Done"
         /\ checkpoint' \subseteq DonePieces(map)
         /\ \A v \in Workers : pc'[v] = "mark" => pc[v] = "mark" /\ piece'[v] = piece[v]

LEMMA QuietSteps == DoneIsWritten /\ Stored /\ Quiet => DoneIsWritten' /\ Stored'
BY DEF DoneIsWritten, Stored, Quiet, DonePieces

LEMMA ClaimIsQuiet ==
    ASSUME TypeOK, DoneIsWritten, NEW w \in Workers, NEW i, NEW from, Claim(w, i, from)
    PROVE  Quiet
<1>1. map' = [map EXCEPT ![i] = "InFlight"] /\ map[i] = "Needed"
  BY DEF Claim, Claimed, Claimable
<1>2. pc' = [pc EXCEPT ![w] = "select"] /\ piece' = [piece EXCEPT ![w] = i]
         /\ UNCHANGED file
  BY DEF Claim, Goto
<1> QED BY <1>1, <1>2 DEF Quiet, TypeOK, DoneIsWritten, file

LEMMA NextDoneIsWritten ==
    TypeOK /\ OneHolder /\ DoneIsWritten /\ Stored /\ [Next]_vars
        => DoneIsWritten' /\ Stored'
<1> SUFFICES ASSUME TypeOK, OneHolder, DoneIsWritten, Stored, [Next]_vars
             PROVE  DoneIsWritten' /\ Stored'
  OBVIOUS
<1>1. ASSUME NEW w \in Workers, Work(w) PROVE DoneIsWritten' /\ Stored'
  <2>1. CASE Check(w)
    BY <1>1, <2>1, QuietSteps DEF Check, Quiet, DoneIsWritten, Goto, TypeOK, shared, file, job
  <2>2. CASE EnterReset(w)
    BY <1>1, <2>2, QuietSteps DEF EnterReset, Quiet, DoneIsWritten, Goto, TypeOK, shared, file, job
  <2>3. CASE ResetPiece(w)
    BY <1>1, <2>3, QuietSteps DEF ResetPiece, Quiet, DoneIsWritten, Goto, TypeOK, shared, file, job, RetryFailed
  <2>4. CASE LeaveReset(w)
    BY <1>1, <2>4, QuietSteps DEF LeaveReset, Quiet, DoneIsWritten, Goto, TypeOK, shared, file, job
  <2>5. CASE Scan(w)
    BY <1>1, <2>5, QuietSteps DEF Scan, Quiet, DoneIsWritten, Goto, TypeOK, shared, file, job
  <2>6. CASE ScanFindsNone(w)
    BY <1>1, <2>6, QuietSteps DEF ScanFindsNone, Quiet, DoneIsWritten, Goto, TypeOK, shared, file, job, NothingClaimed
  <2>7. CASE TryClaim(w)
    BY <1>1, <2>7, ClaimIsQuiet, QuietSteps DEF TryClaim
  <2>8. CASE LoseRace(w)
    BY <1>1, <2>8, QuietSteps DEF LoseRace, Quiet, DoneIsWritten, Goto, TypeOK, shared, file, job
  <2>9. CASE LoseLastRace(w)
    BY <1>1, <2>9, QuietSteps DEF LoseLastRace, Quiet, DoneIsWritten, Goto, TypeOK, shared, file, job, NothingClaimed
  <2>10. CASE Snapshot(w)
    BY <1>1, <2>10, QuietSteps DEF Snapshot, Quiet, DoneIsWritten, Goto, TypeOK, shared, file, job
  <2>11. CASE SnapshotTaken(w)
    BY <1>1, <2>11, QuietSteps DEF SnapshotTaken, Quiet, DoneIsWritten, Goto, TypeOK, shared, file, job, NothingClaimed
  <2>12. CASE PickBest(w)
    BY <1>1, <2>12, ClaimIsQuiet, QuietSteps DEF PickBest
  <2>13. CASE MissBest(w)
    BY <1>1, <2>13, QuietSteps DEF MissBest, Quiet, DoneIsWritten, Goto, TypeOK, shared, file, job
  <2>14. CASE Sweep(w)
    <3>1. CASE Claim(w, cursor[w], "sweep")
      BY <1>1, <3>1, ClaimIsQuiet, QuietSteps
    <3>2. CASE UNCHANGED <<shared, pc, job>>
      BY <3>2, QuietSteps DEF Quiet, DoneIsWritten, shared, file, job
    <3> QED BY <2>14, <3>1, <3>2 DEF Sweep
  <2>15. CASE SweepFindsNone(w)
    BY <1>1, <2>15, QuietSteps DEF SweepFindsNone, Quiet, DoneIsWritten, Goto, TypeOK, shared, file, job, NothingClaimed
  <2>16. CASE Idle(w)
    BY <1>1, <2>16, QuietSteps DEF Idle, Quiet, DoneIsWritten, Goto, TypeOK, shared, file, job
  <2>17. CASE Look(w)
    BY <1>1, <2>17, QuietSteps DEF Look, Quiet, DoneIsWritten, Goto, TypeOK, shared, file, job
  <2>18. CASE Yield(w)
    BY <1>1, <2>18, QuietSteps DEF Yield, Quiet, DoneIsWritten, Goto, TypeOK, shared, file, job
  <2>19. CASE GiveUp(w)
    BY <1>1, <2>19, QuietSteps DEF GiveUp, Quiet, DoneIsWritten, Goto, TypeOK, shared, file, job
  <2>20. CASE SelectPeer(w)
    BY <1>1, <2>20, QuietSteps DEF SelectPeer, Quiet, DoneIsWritten, Goto, TypeOK, shared, file, job
  <2>21. CASE NoEligiblePeer(w)
    BY <1>1, <2>21, QuietSteps DEF NoEligiblePeer, Quiet, DoneIsWritten, Goto, TypeOK, shared, file, job, MarkedFailed, OneHolder, Holding
  <2>22. CASE FetchGood(w)
    BY <1>1, <2>22, QuietSteps DEF FetchGood, Quiet, DoneIsWritten, Goto, TypeOK, shared, file, job
  <2>23. CASE FetchBad(w)
    BY <1>1, <2>23, QuietSteps DEF FetchBad, Quiet, DoneIsWritten, Goto, TypeOK, shared, file, job, MarkedFailed, OneHolder, Holding
  <2>24. CASE WritePiece(w)
    BY <1>1, <2>24 DEF WritePiece, Goto, DoneIsWritten, Stored, TypeOK, DonePieces, job
  <2>25. CASE WriteFails(w)
    BY <1>1, <2>25, QuietSteps DEF WriteFails, Quiet, DoneIsWritten, Goto, TypeOK, shared, file, job
  <2>26. CASE RaiseCancel(w)
    BY <1>1, <2>26, QuietSteps DEF RaiseCancel, Quiet, DoneIsWritten, Goto, TypeOK, shared, file, job
  <2>27. CASE RecordFatal(w)
    BY <1>1, <2>27, QuietSteps DEF RecordFatal, Quiet, DoneIsWritten, Goto, TypeOK, shared, file, job
  <2>28. CASE MarkDone(w)
    <3>1. piece[w] \in written /\ piece[w] \in Pieces
      BY <1>1, <2>28 DEF MarkDone, Goto, Stored, OneHolder, Holding
    <3>2. DonePieces(map)' = DonePieces(map) \cup {piece[w]}
      BY <1>1, <2>28, <3>1 DEF MarkDone, MarkedDone, DonePieces, TypeOK
    <3> QED
      BY <1>1, <2>28, <3>1, <3>2 DEF MarkDone, Goto, DoneIsWritten, Stored, TypeOK, file, job
  <2>29. CASE HandleSuccess(w)
    BY <1>1, <2>29, QuietSteps DEF HandleSuccess, Quiet, DoneIsWritten, Goto, TypeOK, shared, file, job, Forget
  <2>30. CASE HandleFailure(w)
    BY <1>1, <2>30, QuietSteps DEF HandleFailure, Quiet, DoneIsWritten, Goto, TypeOK, shared, file, job, Forget
  <2> QED
    BY <1>1, <2>1, <2>2, <2>3, <2>4, <2>5, <2>6, <2>7, <2>8, <2>9, <2>10, <2>11, <2>12, <2>13, <2>14, <2>15, <2>16, <2>17, <2>18, <2>19, <2>20, <2>21, <2>22, <2>23, <2>24, <2>25, <2>26, <2>27, <2>28, <2>29, <2>30 DEF Work
<1>2. CASE Main
  BY <1>2, QuietSteps DEF Main, ReturnStorageError, ReturnCancelled, ReturnAllPeersFailed,
     FlushFails, ReturnOk, Return, Quiet, DoneIsWritten, locals, job
<1>3. CASE Cancel
  BY <1>3, QuietSteps DEF Cancel, Quiet, DoneIsWritten, file, locals, job
<1>4. ASSUME NEW p \in Peers, Elapse(p) PROVE DoneIsWritten' /\ Stored'
  BY <1>4, QuietSteps DEF Elapse, Quiet, DoneIsWritten, file, locals, job
<1>5. CASE UNCHANGED vars
  BY <1>5, QuietSteps DEF vars, Quiet, DoneIsWritten, shared, file, locals, job
<1> QED
  BY <1>1, <1>2, <1>3, <1>4, <1>5 DEF Next, Stopped

LEMMA InitDoneIsWritten == Init => DoneIsWritten /\ Stored
BY DEF Init, FromVerified, DoneIsWritten, Stored, DonePieces

(* Neither the map nor the resume file ever runs ahead of the storage.      *)
THEOREM DataComesFirst == Spec => []DoneIsWritten
<1>1. Init => TypeOK /\ OneHolder /\ DoneIsWritten /\ Stored
  BY InitTypeOK, InitOneHolder, InitDoneIsWritten
<1>2. TypeOK /\ OneHolder /\ DoneIsWritten /\ Stored /\ [Next]_vars
         => TypeOK' /\ OneHolder' /\ DoneIsWritten' /\ Stored'
  BY NextTypeOK, NextOneHolder, NextDoneIsWritten
<1> QED BY <1>1, <1>2, PTL DEF Spec
-----------------------------------------------------------------------------
(* A worker that has not left will still see piece i unless its last look   *)
(* at the map has gone past it.  As long as nobody raised a flag, somebody   *)
(* will still see every piece that is Needed or InFlight: this is why the   *)
(* last worker to leave leaves none behind.                                 *)
Busy(i) == map[i] = "Needed" \/ map[i] = "InFlight"

Watches(w, i) == pc[w] # "exit" /\ (pc[w] = "look" => i >= cursor[w])

Watched ==
    cancel \/ fatal \/ \A i \in Pieces : Busy(i) => \E w \in Workers : Watches(w, i)

LooksFromStart == \A w \in Workers : pc[w] = "idle" => cursor[w] = 0

(* A step that makes no piece busy and takes no watcher from a busy piece.  *)
Watchful == /\ cancel => cancel'
            /\ fatal => fatal'
            /\ \A i \in Pieces : Busy(i)' => Busy(i)
            /\ \A v \in Workers, i \in Pieces : Watches(v, i) /\ Busy(i)' => Watches(v, i)'

LEMMA WatchfulSteps == Watched /\ Watchful => Watched'
BY DEF Watched, Watchful

LEMMA ClaimIsWatchful ==
    ASSUME TypeOK, NEW w \in Workers, NEW i, NEW from, Claim(w, i, from)
    PROVE  Watchful
<1>1. map' = [map EXCEPT ![i] = "InFlight"] /\ map[i] = "Needed"
         /\ pc' = [pc EXCEPT ![w] = "select"] /\ cursor' = [cursor EXCEPT ![w] = 0]
         /\ UNCHANGED flags
  BY DEF Claim, Claimed, Claimable, Goto, Rewind
<1> QED BY <1>1 DEF Watchful, Busy, Watches, TypeOK, flags

LEMMA NextLooksFromStart ==
    TypeOK /\ LooksFromStart /\ [Next]_vars => LooksFromStart'
<1> SUFFICES ASSUME TypeOK, LooksFromStart, [Next]_vars PROVE LooksFromStart'
  OBVIOUS
<1>1. ASSUME NEW w \in Workers, Work(w) PROVE LooksFromStart'
  <2>1. CASE Check(w)
    BY <1>1, <2>1 DEF Check, LooksFromStart, Goto, Rewind, Advance, TypeOK, progress
  <2>2. CASE EnterReset(w)
    BY <1>1, <2>2 DEF EnterReset, LooksFromStart, Goto, Rewind, Advance, TypeOK, progress
  <2>3. CASE ResetPiece(w)
    BY <1>1, <2>3 DEF ResetPiece, LooksFromStart, Goto, Rewind, Advance, TypeOK, progress
  <2>4. CASE LeaveReset(w)
    BY <1>1, <2>4 DEF LeaveReset, LooksFromStart, Goto, Rewind, Advance, TypeOK, progress
  <2>5. CASE Scan(w)
    BY <1>1, <2>5 DEF Scan, LooksFromStart, Goto, Rewind, Advance, TypeOK, progress
  <2>6. CASE ScanFindsNone(w)
    BY <1>1, <2>6 DEF ScanFindsNone, LooksFromStart, Goto, Rewind, Advance, TypeOK, progress, NothingClaimed
  <2>7. CASE TryClaim(w)
    BY <1>1, <2>7 DEF TryClaim, LooksFromStart, Goto, Rewind, Advance, TypeOK, progress, Claim
  <2>8. CASE LoseRace(w)
    BY <1>1, <2>8 DEF LoseRace, LooksFromStart, Goto, Rewind, Advance, TypeOK, progress
  <2>9. CASE LoseLastRace(w)
    BY <1>1, <2>9 DEF LoseLastRace, LooksFromStart, Goto, Rewind, Advance, TypeOK, progress, NothingClaimed
  <2>10. CASE Snapshot(w)
    BY <1>1, <2>10 DEF Snapshot, LooksFromStart, Goto, Rewind, Advance, TypeOK, progress
  <2>11. CASE SnapshotTaken(w)
    BY <1>1, <2>11 DEF SnapshotTaken, LooksFromStart, Goto, Rewind, Advance, TypeOK, progress, NothingClaimed
  <2>12. CASE PickBest(w)
    BY <1>1, <2>12 DEF PickBest, LooksFromStart, Goto, Rewind, Advance, TypeOK, progress, Claim
  <2>13. CASE MissBest(w)
    BY <1>1, <2>13 DEF MissBest, LooksFromStart, Goto, Rewind, Advance, TypeOK, progress
  <2>14. CASE Sweep(w)
    BY <1>1, <2>14 DEF Sweep, LooksFromStart, Goto, Rewind, Advance, TypeOK, progress, Claim
  <2>15. CASE SweepFindsNone(w)
    BY <1>1, <2>15 DEF SweepFindsNone, LooksFromStart, Goto, Rewind, Advance, TypeOK, progress, NothingClaimed
  <2>16. CASE Idle(w)
    BY <1>1, <2>16 DEF Idle, LooksFromStart, Goto, Rewind, Advance, TypeOK, progress
  <2>17. CASE Look(w)
    BY <1>1, <2>17 DEF Look, LooksFromStart, Goto, Rewind, Advance, TypeOK, progress, AtEnd
  <2>18. CASE Yield(w)
    BY <1>1, <2>18 DEF Yield, LooksFromStart, Goto, Rewind, Advance, TypeOK, progress, AtEnd
  <2>19. CASE GiveUp(w)
    BY <1>1, <2>19 DEF GiveUp, LooksFromStart, Goto, Rewind, Advance, TypeOK, progress
  <2>20. CASE SelectPeer(w)
    BY <1>1, <2>20 DEF SelectPeer, LooksFromStart, Goto, Rewind, Advance, TypeOK, progress
  <2>21. CASE NoEligiblePeer(w)
    BY <1>1, <2>21 DEF NoEligiblePeer, LooksFromStart, Goto, Rewind, Advance, TypeOK, progress, MarkedFailed
  <2>22. CASE FetchGood(w)
    BY <1>1, <2>22 DEF FetchGood, LooksFromStart, Goto, Rewind, Advance, TypeOK, progress
  <2>23. CASE FetchBad(w)
    BY <1>1, <2>23 DEF FetchBad, LooksFromStart, Goto, Rewind, Advance, TypeOK, progress, MarkedFailed
  <2>24. CASE WritePiece(w)
    BY <1>1, <2>24 DEF WritePiece, LooksFromStart, Goto, Rewind, Advance, TypeOK, progress
  <2>25. CASE WriteFails(w)
    BY <1>1, <2>25 DEF WriteFails, LooksFromStart, Goto, Rewind, Advance, TypeOK, progress
  <2>26. CASE RaiseCancel(w)
    BY <1>1, <2>26 DEF RaiseCancel, LooksFromStart, Goto, Rewind, Advance, TypeOK, progress
  <2>27. CASE RecordFatal(w)
    BY <1>1, <2>27 DEF RecordFatal, LooksFromStart, Goto, Rewind, Advance, TypeOK, progress
  <2>28. CASE MarkDone(w)
    BY <1>1, <2>28 DEF MarkDone, LooksFromStart, Goto, Rewind, Advance, TypeOK, progress, MarkedDone
  <2>29. CASE HandleSuccess(w)
    BY <1>1, <2>29 DEF HandleSuccess, LooksFromStart, Goto, Rewind, Advance, TypeOK, progress, Forget
  <2>30. CASE HandleFailure(w)
    BY <1>1, <2>30 DEF HandleFailure, LooksFromStart, Goto, Rewind, Advance, TypeOK, progress, Forget
  <2> QED
    BY <1>1, <2>1, <2>2, <2>3, <2>4, <2>5, <2>6, <2>7, <2>8, <2>9, <2>10, <2>11, <2>12, <2>13, <2>14, <2>15, <2>16, <2>17, <2>18, <2>19, <2>20, <2>21, <2>22, <2>23, <2>24, <2>25, <2>26, <2>27, <2>28, <2>29, <2>30 DEF Work
<1>2. CASE Main
  BY <1>2 DEF Main, ReturnStorageError, ReturnCancelled, ReturnAllPeersFailed,
     FlushFails, ReturnOk, Return, LooksFromStart, locals, progress
<1>3. CASE Cancel
  BY <1>3 DEF Cancel, LooksFromStart, locals, progress
<1>4. ASSUME NEW p \in Peers, Elapse(p) PROVE LooksFromStart'
  BY <1>4 DEF Elapse, LooksFromStart, locals, progress
<1>5. CASE UNCHANGED vars
  BY <1>5 DEF vars, LooksFromStart, locals, progress
<1> QED
  BY <1>1, <1>2, <1>3, <1>4, <1>5 DEF Next, Stopped

LEMMA NextWatched ==
    TypeOK /\ OneHolder /\ LooksFromStart /\ Watched /\ [Next]_vars => Watched'
<1> SUFFICES ASSUME TypeOK, OneHolder, LooksFromStart, Watched, [Next]_vars
             PROVE  Watched'
  OBVIOUS
<1>1. ASSUME NEW w \in Workers, Work(w) PROVE Watched'
  <2>1. CASE Check(w)
    <3>1. CASE cancel \/ fatal
      BY <2>1, <3>1 DEF Check, Watched, shared, flags
    <3>2. CASE IsComplete(map)
      <4>1. \A i \in Pieces : map'[i] = "Done"
        BY <2>1, <3>2 DEF Check, IsComplete, DonePieces, shared
      <4> QED BY <4>1 DEF Watched, Busy
    <3>3. CASE ~(cancel \/ IsComplete(map) \/ fatal)
      <4>1. pc' = [pc EXCEPT ![w] = "reset"] /\ pc[w] = "check"
        BY <2>1, <3>3 DEF Check, Goto
      <4> QED
        BY <1>1, <2>1, <4>1, WatchfulSteps DEF Check, Watchful, Busy, Watches, TypeOK, shared, flags, progress
    <3> QED BY <3>1, <3>2, <3>3
  <2>2. CASE EnterReset(w)
    BY <1>1, <2>2, WatchfulSteps DEF EnterReset, Watchful, Busy, Watches, Goto, Rewind, Advance, TypeOK, shared, flags, progress
  <2>3. CASE ResetPiece(w)
    <3>1. CASE map' = map
      BY <1>1, <2>3, <3>1, WatchfulSteps DEF ResetPiece, Watchful, Busy, Watches, Advance, TypeOK, flags
    <3>2. CASE map' = RetryFailed(map, cursor[w])
      <4>1. \A i \in Pieces : Watches(w, i)'
        BY <1>1, <2>3 DEF ResetPiece, Watches
      <4>2. \A i \in Pieces : Busy(i)' => Busy(i) \/ i = cursor[w]
        BY <1>1, <3>2 DEF RetryFailed, Busy, TypeOK
      <4>3. \A v \in Workers, i \in Pieces : Watches(v, i) => Watches(v, i)'
        BY <1>1, <2>3 DEF ResetPiece, Watches, Advance, TypeOK
      <4>4. UNCHANGED flags
        BY <2>3 DEF ResetPiece
      <4>5. CASE cancel \/ fatal
        BY <4>4, <4>5 DEF Watched, flags
      <4>6. CASE \A i \in Pieces : Busy(i) => \E v \in Workers : Watches(v, i)
        <5>1. ASSUME NEW i \in Pieces, Busy(i)' PROVE \E v \in Workers : Watches(v, i)'
          <6>1. CASE i = cursor[w]
            BY <1>1, <4>1, <6>1
          <6>2. CASE Busy(i)
            BY <4>3, <4>6, <6>2
          <6> QED BY <4>2, <5>1, <6>1, <6>2
        <5> QED BY <5>1 DEF Watched
      <4> QED BY <4>5, <4>6 DEF Watched
    <3> QED BY <2>3, <3>1, <3>2 DEF ResetPiece
  <2>4. CASE LeaveReset(w)
    BY <1>1, <2>4, WatchfulSteps DEF LeaveReset, Watchful, Busy, Watches, Goto, Rewind, Advance, TypeOK, shared, flags, progress
  <2>5. CASE Scan(w)
    BY <1>1, <2>5, WatchfulSteps DEF Scan, Watchful, Busy, Watches, Goto, Rewind, Advance, TypeOK, shared, flags, progress
  <2>6. CASE ScanFindsNone(w)
    BY <1>1, <2>6, WatchfulSteps DEF ScanFindsNone, Watchful, Busy, Watches, Goto, Rewind, Advance, TypeOK, shared, flags, progress, NothingClaimed
  <2>7. CASE TryClaim(w)
    BY <1>1, <2>7, ClaimIsWatchful, WatchfulSteps DEF TryClaim
  <2>8. CASE LoseRace(w)
    BY <1>1, <2>8, WatchfulSteps DEF LoseRace, Watchful, Busy, Watches, Goto, Rewind, Advance, TypeOK, shared, flags, progress
  <2>9. CASE LoseLastRace(w)
    BY <1>1, <2>9, WatchfulSteps DEF LoseLastRace, Watchful, Busy, Watches, Goto, Rewind, Advance, TypeOK, shared, flags, progress, NothingClaimed
  <2>10. CASE Snapshot(w)
    BY <1>1, <2>10, WatchfulSteps DEF Snapshot, Watchful, Busy, Watches, Goto, Rewind, Advance, TypeOK, shared, flags, progress
  <2>11. CASE SnapshotTaken(w)
    BY <1>1, <2>11, WatchfulSteps DEF SnapshotTaken, Watchful, Busy, Watches, Goto, Rewind, Advance, TypeOK, shared, flags, progress, NothingClaimed
  <2>12. CASE PickBest(w)
    BY <1>1, <2>12, ClaimIsWatchful, WatchfulSteps DEF PickBest
  <2>13. CASE MissBest(w)
    BY <1>1, <2>13, WatchfulSteps DEF MissBest, Watchful, Busy, Watches, Goto, Rewind, Advance, TypeOK, shared, flags, progress
  <2>14. CASE Sweep(w)
    <3>1. CASE Claim(w, cursor[w], "sweep")
      BY <1>1, <3>1, ClaimIsWatchful, WatchfulSteps
    <3>2. CASE pc[w] = "sweep" /\ Advance(w) /\ UNCHANGED <<shared, pc>>
      BY <1>1, <3>2, WatchfulSteps DEF Watchful, Busy, Watches, Advance, TypeOK, shared, flags
    <3> QED BY <2>14, <3>1, <3>2 DEF Sweep
  <2>15. CASE SweepFindsNone(w)
    BY <1>1, <2>15, WatchfulSteps DEF SweepFindsNone, Watchful, Busy, Watches, Goto, Rewind, Advance, TypeOK, shared, flags, progress, NothingClaimed
  <2>16. CASE Idle(w)
    <3>1. CASE IsComplete(map)
      <4>1. \A i \in Pieces : map'[i] = "Done"
        BY <2>16, <3>1 DEF Idle, IsComplete, DonePieces, shared
      <4> QED BY <4>1 DEF Watched, Busy
    <3>2. CASE ~IsComplete(map)
      <4>1. pc' = [pc EXCEPT ![w] = "look"] /\ pc[w] = "idle" /\ cursor[w] = 0
        BY <1>1, <2>16, <3>2 DEF Idle, Goto, LooksFromStart
      <4> QED
        BY <1>1, <2>16, <4>1, WatchfulSteps DEF Idle, Watchful, Busy, Watches, TypeOK, Pieces, shared, flags, progress
    <3> QED BY <3>1, <3>2
  <2>17. CASE Look(w)
    <3>1. ~Busy(cursor[w])
      BY <2>17 DEF Look, Busy
    <3>2. \A v \in Workers, i \in Pieces : Watches(v, i) /\ Busy(i) => Watches(v, i)'
      BY <1>1, <2>17, <3>1 DEF Look, Watches, Advance, TypeOK, Pieces
    <3> QED BY <2>17, <3>2, WatchfulSteps DEF Look, Watchful, Busy, shared, flags
  <2>18. CASE Yield(w)
    BY <1>1, <2>18, WatchfulSteps DEF Yield, Watchful, Busy, Watches, Goto, Rewind, Advance, TypeOK, shared, flags, progress, AtEnd
  <2>19. CASE GiveUp(w)
    <3>1. pc[w] = "look" /\ \A i \in Pieces : ~Watches(w, i)
      BY <1>1, <2>19, PieceCountAssumption DEF GiveUp, Goto, AtEnd, Watches, Pieces, TypeOK
    <3>2. \A v \in Workers \ {w}, i \in Pieces : Watches(v, i) => Watches(v, i)'
      BY <1>1, <2>19 DEF GiveUp, Goto, Rewind, Watches, TypeOK
    <3> QED
      BY <1>1, <2>19, <3>1, <3>2, WatchfulSteps DEF GiveUp, Watchful, Busy, shared, flags
  <2>20. CASE SelectPeer(w)
    BY <1>1, <2>20, WatchfulSteps DEF SelectPeer, Watchful, Busy, Watches, Goto, Rewind, Advance, TypeOK, shared, flags, progress
  <2>21. CASE NoEligiblePeer(w)
    BY <1>1, <2>21, WatchfulSteps DEF NoEligiblePeer, Watchful, Busy, Watches, Goto, Rewind, Advance, TypeOK, shared, flags, progress, MarkedFailed
  <2>22. CASE FetchGood(w)
    BY <1>1, <2>22, WatchfulSteps DEF FetchGood, Watchful, Busy, Watches, Goto, Rewind, Advance, TypeOK, shared, flags, progress
  <2>23. CASE FetchBad(w)
    BY <1>1, <2>23, WatchfulSteps DEF FetchBad, Watchful, Busy, Watches, Goto, Rewind, Advance, TypeOK, shared, flags, progress, MarkedFailed
  <2>24. CASE WritePiece(w)
    BY <1>1, <2>24, WatchfulSteps DEF WritePiece, Watchful, Busy, Watches, Goto, Rewind, Advance, TypeOK, shared, flags, progress
  <2>25. CASE WriteFails(w)
    BY <1>1, <2>25, WatchfulSteps DEF WriteFails, Watchful, Busy, Watches, Goto, Rewind, Advance, TypeOK, shared, flags, progress
  <2>26. CASE RaiseCancel(w)
    BY <2>26 DEF RaiseCancel, Watched
  <2>27. CASE RecordFatal(w)
    BY <2>27 DEF RecordFatal, Watched
  <2>28. CASE MarkDone(w)
    BY <1>1, <2>28, WatchfulSteps DEF MarkDone, Watchful, Busy, Watches, Goto, Rewind, Advance, TypeOK, shared, flags, progress, MarkedDone
  <2>29. CASE HandleSuccess(w)
    BY <1>1, <2>29, WatchfulSteps DEF HandleSuccess, Watchful, Busy, Watches, Goto, Rewind, Advance, TypeOK, shared, flags, progress, Forget
  <2>30. CASE HandleFailure(w)
    BY <1>1, <2>30, WatchfulSteps DEF HandleFailure, Watchful, Busy, Watches, Goto, Rewind, Advance, TypeOK, shared, flags, progress, Forget
  <2> QED
    BY <1>1, <2>1, <2>2, <2>3, <2>4, <2>5, <2>6, <2>7, <2>8, <2>9, <2>10, <2>11, <2>12, <2>13, <2>14, <2>15, <2>16, <2>17, <2>18, <2>19, <2>20, <2>21, <2>22, <2>23, <2>24, <2>25, <2>26, <2>27, <2>28, <2>29, <2>30 DEF Work
<1>2. CASE Main
  BY <1>2, WatchfulSteps DEF Main, ReturnStorageError, ReturnCancelled, ReturnAllPeersFailed,
     FlushFails, ReturnOk, Return, Watchful, Busy, Watches, locals, flags, progress
<1>3. CASE Cancel
  BY <1>3 DEF Cancel, Watched
<1>4. ASSUME NEW p \in Peers, Elapse(p) PROVE Watched'
  BY <1>4, WatchfulSteps DEF Elapse, Watchful, Busy, Watches, locals, flags, progress
<1>5. CASE UNCHANGED vars
  BY <1>5, WatchfulSteps DEF vars, Watchful, Busy, Watches, shared, locals, flags, progress
<1> QED
  BY <1>1, <1>2, <1>3, <1>4, <1>5 DEF Next, Stopped
-----------------------------------------------------------------------------
(* Only a worker that has not left works, and no worker sets the outcome.   *)
LEMMA WorkersAtWork ==
    ASSUME NEW w \in Workers, Work(w)
    PROVE  pc[w] # "exit" /\ outcome' = outcome
<1>1. CASE Check(w)
  BY <1>1 DEF Check, Goto, shared
<1>2. CASE EnterReset(w)
  BY <1>2 DEF EnterReset, Goto, shared
<1>3. CASE ResetPiece(w)
  BY <1>3 DEF ResetPiece, Goto, shared
<1>4. CASE LeaveReset(w)
  BY <1>4 DEF LeaveReset, Goto, shared
<1>5. CASE Scan(w)
  BY <1>5 DEF Scan, Goto, shared
<1>6. CASE ScanFindsNone(w)
  BY <1>6 DEF ScanFindsNone, Goto, shared, NothingClaimed
<1>7. CASE TryClaim(w)
  BY <1>7 DEF TryClaim, Goto, shared, Claim
<1>8. CASE LoseRace(w)
  BY <1>8 DEF LoseRace, Goto, shared
<1>9. CASE LoseLastRace(w)
  BY <1>9 DEF LoseLastRace, Goto, shared, NothingClaimed
<1>10. CASE Snapshot(w)
  BY <1>10 DEF Snapshot, Goto, shared
<1>11. CASE SnapshotTaken(w)
  BY <1>11 DEF SnapshotTaken, Goto, shared, NothingClaimed
<1>12. CASE PickBest(w)
  BY <1>12 DEF PickBest, Goto, shared, Claim
<1>13. CASE MissBest(w)
  BY <1>13 DEF MissBest, Goto, shared
<1>14. CASE Sweep(w)
  BY <1>14 DEF Sweep, Goto, shared, Claim
<1>15. CASE SweepFindsNone(w)
  BY <1>15 DEF SweepFindsNone, Goto, shared, NothingClaimed
<1>16. CASE Idle(w)
  BY <1>16 DEF Idle, Goto, shared
<1>17. CASE Look(w)
  BY <1>17 DEF Look, Goto, shared
<1>18. CASE Yield(w)
  BY <1>18 DEF Yield, Goto, shared
<1>19. CASE GiveUp(w)
  BY <1>19 DEF GiveUp, Goto, shared
<1>20. CASE SelectPeer(w)
  BY <1>20 DEF SelectPeer, Goto, shared
<1>21. CASE NoEligiblePeer(w)
  BY <1>21 DEF NoEligiblePeer, Goto, shared
<1>22. CASE FetchGood(w)
  BY <1>22 DEF FetchGood, Goto, shared
<1>23. CASE FetchBad(w)
  BY <1>23 DEF FetchBad, Goto, shared
<1>24. CASE WritePiece(w)
  BY <1>24 DEF WritePiece, Goto, shared
<1>25. CASE WriteFails(w)
  BY <1>25 DEF WriteFails, Goto, shared
<1>26. CASE RaiseCancel(w)
  BY <1>26 DEF RaiseCancel, Goto, shared
<1>27. CASE RecordFatal(w)
  BY <1>27 DEF RecordFatal, Goto, shared
<1>28. CASE MarkDone(w)
  BY <1>28 DEF MarkDone, Goto, shared
<1>29. CASE HandleSuccess(w)
  BY <1>29 DEF HandleSuccess, Goto, shared
<1>30. CASE HandleFailure(w)
  BY <1>30 DEF HandleFailure, Goto, shared
<1> QED
  BY <1>1, <1>2, <1>3, <1>4, <1>5, <1>6, <1>7, <1>8, <1>9, <1>10, <1>11, <1>12, <1>13, <1>14, <1>15, <1>16, <1>17, <1>18, <1>19, <1>20, <1>21, <1>22, <1>23, <1>24, <1>25, <1>26, <1>27, <1>28, <1>29, <1>30 DEF Work

(* What run returned, it returned after every worker left.                  *)
Ended == outcome # "running" => Joined

LEMMA NextEnded == Ended /\ [Next]_vars => Ended'
<1> SUFFICES ASSUME Ended, [Next]_vars PROVE Ended'
  OBVIOUS
<1>1. ASSUME NEW w \in Workers, Work(w) PROVE Ended'
  BY <1>1, WorkersAtWork DEF Ended, Joined
<1>2. CASE Main
  BY <1>2 DEF Main, ReturnStorageError, ReturnCancelled, ReturnAllPeersFailed,
     FlushFails, ReturnOk, Return, Ended, Joined, locals
<1>3. CASE Cancel
  BY <1>3 DEF Cancel, Ended, Joined, locals
<1>4. ASSUME NEW p \in Peers, Elapse(p) PROVE Ended'
  BY <1>4 DEF Elapse, Ended, Joined, locals
<1>5. CASE UNCHANGED vars
  BY <1>5 DEF vars, Ended, Joined, shared, locals
<1> QED
  BY <1>1, <1>2, <1>3, <1>4, <1>5 DEF Next, Stopped

(* When everybody has left and nobody raised a flag, every piece is Done or *)
(* Failed: nobody watches any more, so nothing is busy.                     *)
LEMMA NothingLeftBehind ==
    ASSUME TypeOK, Watched, Joined, ~cancel, ~fatal, ~SomeFailed
    PROVE  IsComplete(map)
<1>1. \A i \in Pieces : ~Busy(i)
  BY DEF Watched, Watches, Joined
<1>2. \A i \in Pieces : map[i] = "Done"
  BY <1>1 DEF TypeOK, PieceState, Busy, SomeFailed
<1> QED BY <1>2 DEF IsComplete, DonePieces

LEMMA NextSuccess ==
    TypeOK /\ DoneIsWritten /\ Watched /\ Ended /\ SuccessIsComplete /\ [Next]_vars
        => SuccessIsComplete'
<1> SUFFICES ASSUME TypeOK, DoneIsWritten, Watched, Ended, SuccessIsComplete, [Next]_vars
             PROVE  SuccessIsComplete'
  OBVIOUS
<1>1. ASSUME NEW w \in Workers, Work(w) PROVE SuccessIsComplete'
  BY <1>1, WorkersAtWork DEF Ended, Joined, SuccessIsComplete
<1>2. CASE ReturnOk
  <2>1. IsComplete(map)
    BY <1>2, NothingLeftBehind DEF ReturnOk, Return
  <2>2. written = Pieces
    BY <2>1 DEF IsComplete, DoneIsWritten, TypeOK
  <2>3. UNCHANGED <<map, written>>
    BY <1>2 DEF ReturnOk, Return
  <2> QED BY <2>1, <2>2, <2>3 DEF SuccessIsComplete, IsComplete, DonePieces
<1>3. CASE ReturnStorageError \/ ReturnCancelled \/ ReturnAllPeersFailed \/ FlushFails
  BY <1>3 DEF ReturnStorageError, ReturnCancelled, ReturnAllPeersFailed,
     FlushFails, Return, SuccessIsComplete
<1>4. CASE UNCHANGED <<map, written, outcome>>
  BY <1>4 DEF SuccessIsComplete, IsComplete, DonePieces
<1>5. Cancel \/ (\E p \in Peers : Elapse(p)) \/ UNCHANGED vars
         => UNCHANGED <<map, written, outcome>>
  BY DEF Cancel, Elapse, vars, shared, file
<1> QED
  BY <1>1, <1>2, <1>3, <1>4, <1>5 DEF Next, Main, Stopped
-----------------------------------------------------------------------------
(* The inductive invariant: its parts lean on one another.                  *)
Inv == /\ TypeOK /\ OneHolder /\ DoneIsWritten /\ Stored
       /\ LooksFromStart /\ Watched /\ Ended /\ SuccessIsComplete

LEMMA InitInv == Init => Inv
<1> SUFFICES ASSUME Init PROVE Inv
  OBVIOUS
<1>1. LooksFromStart /\ Ended /\ SuccessIsComplete
  BY DEF Init, LooksFromStart, Ended, SuccessIsComplete
<1>2. Watched
  <2>1. PICK w \in Workers : TRUE
    BY CoordinatorAssumption
  <2>2. \A i \in Pieces : Watches(w, i)
    BY <2>1 DEF Init, Watches
  <2> QED BY <2>2 DEF Watched
<1> QED
  BY <1>1, <1>2, InitTypeOK, InitOneHolder, InitDoneIsWritten DEF Inv

LEMMA NextInv == Inv /\ [Next]_vars => Inv'
BY NextTypeOK, NextOneHolder, NextDoneIsWritten, NextLooksFromStart, NextWatched,
   NextEnded, NextSuccess DEF Inv

LEMMA Invariance == Spec => []Inv
BY InitInv, NextInv, PTL DEF Spec

(* run says Ok only of a complete file: no path through the worker loop     *)
(* leaves a piece Needed or InFlight behind unnoticed.                      *)
THEOREM SuccessIsTrue == Spec => []SuccessIsComplete
<1>1. Inv => SuccessIsComplete
  BY DEF Inv
<1> QED BY <1>1, Invariance, PTL
-----------------------------------------------------------------------------
(* Every step of a worker is a step of the lifecycle of one piece, or none. *)
LEMMA ClaimRefines ==
    ASSUME NEW w \in Workers, NEW i \in Pieces, NEW from, Claim(w, i, from)
    PROVE  Lifecycle!Claim(i)
BY DEF Claim, Lifecycle!Claim, Claimable, Lifecycle!Claimable, Claimed,
   Lifecycle!Claimed, Pieces, Lifecycle!Pieces, file

LEMMA WorkRefines ==
    ASSUME Inv, NEW w \in Workers, Work(w)
    PROVE  \/ \E i \in Pieces : Lifecycle!PieceStep(i)
           \/ UNCHANGED <<map, written, outcome>>
<1> USE DEF Lifecycle!PieceStep
<1>1. CASE Check(w)
  BY <1>1 DEF Check, shared, file
<1>2. CASE EnterReset(w)
  BY <1>2 DEF EnterReset, shared, file
<1>3. CASE ResetPiece(w)
  <2>1. cursor[w] \in Pieces
    BY <1>3, PieceCountAssumption DEF ResetPiece, AtEnd, Inv, TypeOK, Pieces
  <2>2. map' # map => Lifecycle!Retry(cursor[w])
    BY <1>3 DEF ResetPiece, RetryFailed, Lifecycle!Retry, Lifecycle!RetryFailed, file
  <2>3. UNCHANGED <<written, outcome>>
    BY <1>3 DEF ResetPiece, file
  <2> QED BY <2>1, <2>2, <2>3
<1>4. CASE LeaveReset(w)
  BY <1>4 DEF LeaveReset, shared, file
<1>5. CASE Scan(w)
  BY <1>5 DEF Scan, shared, file
<1>6. CASE ScanFindsNone(w)
  BY <1>6 DEF ScanFindsNone, shared, file, NothingClaimed
<1>7. CASE TryClaim(w)
  <2>1. cursor[w] \in Pieces
    BY <1>7 DEF TryClaim, Claim, Claimable
  <2> QED BY <1>7, <2>1, ClaimRefines DEF TryClaim
<1>8. CASE LoseRace(w)
  BY <1>8 DEF LoseRace, shared, file
<1>9. CASE LoseLastRace(w)
  BY <1>9 DEF LoseLastRace, shared, file, NothingClaimed
<1>10. CASE Snapshot(w)
  BY <1>10 DEF Snapshot, shared, file
<1>11. CASE SnapshotTaken(w)
  BY <1>11 DEF SnapshotTaken, shared, file, NothingClaimed
<1>12. CASE PickBest(w)
  BY <1>12, ClaimRefines DEF PickBest, Selectable, Inv, TypeOK
<1>13. CASE MissBest(w)
  BY <1>13 DEF MissBest, shared, file
<1>14. CASE Sweep(w)
  <2>1. cursor[w] \in needed[w] => cursor[w] \in Pieces
    BY DEF Inv, TypeOK
  <2> QED BY <1>14, <2>1, ClaimRefines DEF Sweep, shared, file
<1>15. CASE SweepFindsNone(w)
  BY <1>15 DEF SweepFindsNone, shared, file, NothingClaimed
<1>16. CASE Idle(w)
  BY <1>16 DEF Idle, shared, file
<1>17. CASE Look(w)
  BY <1>17 DEF Look, shared, file
<1>18. CASE Yield(w)
  BY <1>18 DEF Yield, shared, file
<1>19. CASE GiveUp(w)
  BY <1>19 DEF GiveUp, shared, file
<1>20. CASE SelectPeer(w)
  BY <1>20 DEF SelectPeer, shared, file
<1>21. CASE NoEligiblePeer(w)
  <2>1. piece[w] \in Pieces /\ map[piece[w]] = "InFlight"
    BY <1>21 DEF NoEligiblePeer, Goto, Inv, OneHolder, Holding
  <2>2. Lifecycle!Fail(piece[w])
    BY <1>21, <2>1 DEF NoEligiblePeer, MarkedFailed, Lifecycle!Fail, Lifecycle!MarkedFailed, file
  <2> QED BY <2>1, <2>2
<1>22. CASE FetchGood(w)
  BY <1>22 DEF FetchGood, shared, file
<1>23. CASE FetchBad(w)
  <2>1. piece[w] \in Pieces /\ map[piece[w]] = "InFlight"
    BY <1>23 DEF FetchBad, Goto, Inv, OneHolder, Holding
  <2>2. Lifecycle!Fail(piece[w])
    BY <1>23, <2>1 DEF FetchBad, MarkedFailed, Lifecycle!Fail, Lifecycle!MarkedFailed, file
  <2> QED BY <2>1, <2>2
<1>24. CASE WritePiece(w)
  <2>1. piece[w] \in Pieces /\ map[piece[w]] = "InFlight"
    BY <1>24 DEF WritePiece, Goto, Inv, OneHolder, Holding
  <2>2. Lifecycle!Store(piece[w])
    BY <1>24, <2>1 DEF WritePiece, Lifecycle!Store
  <2> QED BY <2>1, <2>2
<1>25. CASE WriteFails(w)
  BY <1>25 DEF WriteFails, shared, file
<1>26. CASE RaiseCancel(w)
  BY <1>26 DEF RaiseCancel, shared, file
<1>27. CASE RecordFatal(w)
  BY <1>27 DEF RecordFatal, shared, file
<1>28. CASE MarkDone(w)
  <2>1. piece[w] \in Pieces /\ map[piece[w]] = "InFlight" /\ piece[w] \in written
    BY <1>28 DEF MarkDone, Goto, Inv, OneHolder, Holding, Stored
  <2>2. Lifecycle!Complete(piece[w])
    BY <1>28, <2>1 DEF MarkDone, MarkedDone, Lifecycle!Complete, Lifecycle!MarkedDone, file
  <2> QED BY <2>1, <2>2
<1>29. CASE HandleSuccess(w)
  BY <1>29 DEF HandleSuccess, shared, file
<1>30. CASE HandleFailure(w)
  BY <1>30 DEF HandleFailure, shared, file
<1> QED
  BY <1>1, <1>2, <1>3, <1>4, <1>5, <1>6, <1>7, <1>8, <1>9, <1>10, <1>11, <1>12, <1>13, <1>14, <1>15, <1>16, <1>17, <1>18, <1>19, <1>20, <1>21, <1>22, <1>23, <1>24, <1>25, <1>26, <1>27, <1>28, <1>29, <1>30 DEF Work

LEMMA NextRefines == Inv /\ [Next]_vars => [Lifecycle!Next]_(Lifecycle!vars)
<1> SUFFICES ASSUME Inv, [Next]_vars PROVE [Lifecycle!Next]_(Lifecycle!vars)
  OBVIOUS
<1>1. CASE UNCHANGED <<map, written, outcome>>
  BY <1>1 DEF Lifecycle!vars
<1>2. ASSUME NEW w \in Workers, Work(w) PROVE [Lifecycle!Next]_(Lifecycle!vars)
  <2>1. outcome = "running"
    BY <1>2, WorkersAtWork DEF Inv, Ended, Joined
  <2> QED
    BY <1>1, <1>2, <2>1, WorkRefines DEF Lifecycle!Next, Pieces, Lifecycle!Pieces
<1>3. CASE Main
  <2>1. outcome = "running" /\ UNCHANGED <<map, written>>
    BY <1>3 DEF Main, ReturnStorageError, ReturnCancelled, ReturnAllPeersFailed,
       FlushFails, ReturnOk, Return
  <2>2. outcome' = "ok" => Lifecycle!IsComplete(map)
    <3>1. outcome' = "ok" => ReturnOk
      BY <1>3 DEF Main, ReturnStorageError, ReturnCancelled, ReturnAllPeersFailed,
         FlushFails, Return
    <3>2. ReturnOk => IsComplete(map)
      BY NothingLeftBehind DEF ReturnOk, Return, Inv
    <3> QED
      BY <3>1, <3>2 DEF IsComplete, DonePieces, Pieces, Lifecycle!IsComplete,
         Lifecycle!DonePieces, Lifecycle!Pieces
  <2>3. outcome' \in {"storage", "cancelled", "failed", "ok"}
    BY <1>3 DEF Main, ReturnStorageError, ReturnCancelled, ReturnAllPeersFailed,
       FlushFails, ReturnOk, Return
  <2>4. Lifecycle!Finish
    BY <2>1, <2>2, <2>3 DEF Lifecycle!Finish
  <2> QED BY <2>4 DEF Lifecycle!Next
<1>4. Cancel \/ (\E p \in Peers : Elapse(p)) \/ UNCHANGED vars
         => UNCHANGED <<map, written, outcome>>
  BY DEF Cancel, Elapse, vars, shared, file
<1> QED
  BY <1>1, <1>2, <1>3, <1>4 DEF Next, Stopped

LEMMA InitRefines == Init => Lifecycle!Init
BY DEF Init, Lifecycle!Init, FromVerified, Lifecycle!FromVerified, Pieces, Lifecycle!Pieces

(* The download implements PieceLifecycle.                                  *)
THEOREM Refinement == Spec => LifecycleSpec
BY Invariance, InitRefines, NextRefines, PTL DEF Spec, LifecycleSpec, Lifecycle!Spec
-----------------------------------------------------------------------------
(* The limits and the resume file: LimitsAreKept and RecordKeepsUp.         *)
(*                                                                         *)
(* Five things lag behind the state of a piece: the count of its failure,  *)
(* the blame of a peer, the next sweep, the blacklist and the resume file. *)
(* Each invariant below says which worker still owes which of them.        *)

(* The workers that are looking for a piece and touch nothing shared.       *)
Searching == {"scan", "cas", "snapshot", "pick", "sweep", "idle", "look"}

Searches(w) ==
    /\ pc[w] \in Searching
    /\ pc' = [pc EXCEPT ![w] = pc'[w]]
    /\ pc'[w] \in Searching \cup {"check", "exit"}
    /\ cursor' = [cursor EXCEPT ![w] = cursor'[w]]
    /\ pc'[w] = "check" => cursor'[w] = 0
    /\ UNCHANGED <<shared, job, limit>>
-----------------------------------------------------------------------------
(* Only the worker at the sweep has the mutex, with the limit it read: one  *)
(* of the two limits, and the one of the endgame only when it is in use or  *)
(* no piece is left.                                                        *)
SweeperHasMutex ==
    \A w \in Workers : mutex = w =>
        /\ pc[w] = "reset"
        /\ limit[w] <= MostRetries \/ IsComplete(map)

(* The cursor of a worker that is not in a scan is at the start.            *)
Rewound == \A w \in Workers :
    /\ pc[w] \in Holding \cup {"check", "success", "book"} => cursor[w] = 0
    /\ pc[w] = "reset" /\ mutex # w => cursor[w] = 0

(* A failure not counted yet is the failure of a piece.                     *)
BooksPieces == \A w \in Workers : pc[w] = "book" => piece[w] \in Pieces

(* A piece that may fail once more has room for it.                         *)
RoomToFail == \A i \in Pieces : Busy(i) => Failures(i) < MostFailures

(* A worker that has the whole sweep before it, and one that has the rest.  *)
WillSweep(w) == \/ pc[w] \in Holding \cup {"check", "success", "book"}
                \/ pc[w] = "reset" /\ mutex # w

IsSweeping(w, i) ==
    pc[w] = "reset" /\ mutex = w /\ cursor[w] <= i /\ limit[w] >= Limit

(* A Failed piece that has retries left will be seen by some sweep.         *)
SweptLater == \/ cancel \/ fatal
              \/ \A i \in Pieces : map[i] = "Failed" =>
                     \/ retries[i] >= Limit
                     \/ \E w \in Workers : WillSweep(w) \/ IsSweeping(w, i)

(* The workers whose mismatch peer p may still be blamed for.               *)
Serving(p) ==
    {w \in Workers : peer[w] = p /\ (\/ pc[w] = "fetch"
                                     \/ pc[w] = "book" /\ fault[w] = "corrupt")}

MismatchesBounded ==
    MaxPeerFailures > 0 =>
        \A p \in Peers :
            /\ tracker[p].failures + Cardinality(Serving(p))
                 < MaxPeerFailures + Cardinality(Workers)
            /\ tracker[p].failures >= MaxPeerFailures <=> tracker[p].blacklisted

(* While run runs and saves succeed, a Done piece is in the resume file or  *)
(* a worker is about to save it.                                            *)
SavedSoon == \/ SavesFail \/ outcome # "running"
             \/ DonePieces(map) \subseteq checkpoint
             \/ \E w \in Workers : pc[w] = "success"

LimitsInv == /\ SweeperHasMutex /\ Rewound /\ BooksPieces
             /\ FailuresBounded /\ RoomToFail /\ SweptLater
             /\ MismatchesBounded /\ SavedSoon /\ GiveUpIsExhausted
-----------------------------------------------------------------------------
(* What a worker can do, seen from the limits: search, claim a piece, or    *)
(* one of the steps that touch what is shared.                              *)
Claims(w) == \E i \in Pieces, from \in Searching : Claim(w, i, from)

LEMMA WorkCases ==
    ASSUME TypeOK, NEW w \in Workers, Work(w)
    PROVE  \/ Searches(w) \/ Claims(w)
           \/ Check(w) \/ EnterReset(w) \/ ResetPiece(w) \/ LeaveReset(w)
           \/ SelectPeer(w) \/ NoEligiblePeer(w) \/ FetchGood(w) \/ FetchBad(w)
           \/ WritePiece(w) \/ WriteFails(w) \/ RaiseCancel(w) \/ RecordFatal(w)
           \/ MarkDone(w) \/ HandleSuccess(w) \/ HandleFailure(w)
<1>1. Scan(w) => Searches(w)
  BY DEF Scan, Searches, Searching, TypeOK, Goto, Advance
<1>2. ScanFindsNone(w) => Searches(w)
  BY DEF ScanFindsNone, Searches, Searching, TypeOK, Goto, NothingClaimed, Rewind
<1>3. LoseRace(w) => Searches(w)
  BY DEF LoseRace, Searches, Searching, TypeOK, Goto, Rewind
<1>4. LoseLastRace(w) => Searches(w)
  BY DEF LoseLastRace, Searches, Searching, TypeOK, Goto, NothingClaimed, Rewind
<1>5. Snapshot(w) => Searches(w)
  BY DEF Snapshot, Searches, Searching, TypeOK, Goto, Advance
<1>6. SnapshotTaken(w) => Searches(w)
  BY DEF SnapshotTaken, Searches, Searching, TypeOK, Goto, NothingClaimed, Rewind
<1>7. MissBest(w) => Searches(w)
  BY DEF MissBest, Searches, Searching, TypeOK, Goto, progress
<1>8. SweepFindsNone(w) => Searches(w)
  BY DEF SweepFindsNone, Searches, Searching, TypeOK, Goto, NothingClaimed, Rewind
<1>9. Idle(w) => Searches(w)
  BY DEF Idle, Searches, Searching, TypeOK, Goto, progress
<1>10. Look(w) => Searches(w)
  BY DEF Look, Searches, Searching, TypeOK, Goto, Advance
<1>11. Yield(w) => Searches(w)
  BY DEF Yield, Searches, Searching, TypeOK, Goto, Rewind
<1>12. GiveUp(w) => Searches(w)
  BY DEF GiveUp, Searches, Searching, TypeOK, Goto, Rewind
<1>13. TryClaim(w) => Claims(w)
  BY DEF TryClaim, Claims, Claim, Claimable, Searching
<1>14. PickBest(w) => Claims(w)
  BY DEF PickBest, Selectable, Claims, Claim, Claimable, Searching
<1>15. Sweep(w) => Searches(w) \/ Claims(w)
  <2>1. Claim(w, cursor[w], "sweep") => Claims(w)
    BY DEF Claims, Claim, Claimable, Searching
  <2>2. pc[w] = "sweep" /\ Advance(w) /\ UNCHANGED <<shared, pc, job, limit>> => Searches(w)
    BY DEF Searches, Searching, TypeOK, Advance
  <2> QED BY <2>1, <2>2 DEF Sweep
<1> QED BY <1>1, <1>2, <1>3, <1>4, <1>5, <1>6, <1>7, <1>8, <1>9, <1>10, <1>11, <1>12, <1>13, <1>14, <1>15 DEF Work
-----------------------------------------------------------------------------
(* Steps that are not a worker's leave the pieces, the retries and the      *)
(* workers alone.                                                           *)
LEMMA OtherSteps ==
    Main \/ Cancel \/ (\E p \in Peers : Elapse(p)) \/ UNCHANGED vars
        => UNCHANGED <<map, mutex, retries, locals>> /\ (cancel => cancel') /\ (fatal => fatal')
BY DEF Main, ReturnStorageError, ReturnCancelled, ReturnAllPeersFailed, FlushFails,
   ReturnOk, Return, Cancel, Elapse, vars, shared, books, flags

(* A piece that is Done stays Done.                                         *)
LEMMA DoneStays == Inv /\ [Next]_vars => DonePieces(map) \subseteq DonePieces(map')
<1> SUFFICES ASSUME Inv, [Next]_vars PROVE DonePieces(map) \subseteq DonePieces(map')
  OBVIOUS
<1>1. ASSUME NEW w \in Workers, Work(w) PROVE DonePieces(map) \subseteq DonePieces(map')
  <2>1. ASSUME NEW i \in Pieces, Lifecycle!PieceStep(i)
        PROVE  DonePieces(map) \subseteq DonePieces(map')
    BY <2>1 DEF Lifecycle!PieceStep, Lifecycle!Claim, Lifecycle!Claimable, Lifecycle!Claimed,
       Lifecycle!Store, Lifecycle!Complete, Lifecycle!MarkedDone, Lifecycle!Fail,
       Lifecycle!MarkedFailed, Lifecycle!Retry, Lifecycle!RetryFailed, DonePieces, Inv, TypeOK
  <2> QED BY <1>1, <2>1, WorkRefines
<1>2. UNCHANGED map => DonePieces(map) \subseteq DonePieces(map')
  BY DEF DonePieces
<1> QED BY <1>1, <1>2, OtherSteps DEF Next, Stopped

LEMMA DoneCounts ==
    ASSUME NEW m
    PROVE  /\ IsFiniteSet(DonePieces(m))
           /\ DoneCount(m) \in 0 .. PieceCount
           /\ DoneCount(m) = PieceCount => IsComplete(m)
<1>1. IsFiniteSet(Pieces) /\ Cardinality(Pieces) = PieceCount
  BY FS_Interval, PieceCountAssumption DEF Pieces
<1>2. DonePieces(m) \subseteq Pieces
  BY DEF DonePieces
<1>3. /\ IsFiniteSet(DonePieces(m)) /\ Cardinality(DonePieces(m)) \in Nat
      /\ Cardinality(DonePieces(m)) <= Cardinality(Pieces)
      /\ Cardinality(DonePieces(m)) = Cardinality(Pieces) => DonePieces(m) = Pieces
  BY <1>1, <1>2, FS_Subset, FS_CardinalityType
<1> QED BY <1>1, <1>3, PieceCountAssumption DEF DoneCount, IsComplete

LEMMA MostRetriesType == MostRetries \in Nat
BY CoordinatorAssumption DEF MostRetries

(* The limit a sweep reads is one of the two, and the greater only in the   *)
(* endgame: without an endgame, only when every piece is Done.              *)
LEMMA LimitIsKnown == Limit \in Nat /\ (Limit <= MostRetries \/ IsComplete(map))
BY DoneCounts, CoordinatorAssumption, PieceCountAssumption
   DEF Limit, MostRetries, InEndgame, Remaining

(* The limit only grows while pieces are completed.                         *)
LEMMA LimitGrows ==
    ASSUME DonePieces(map) \subseteq DonePieces(map')
    PROVE  Limit <= Limit'
<1>1. DoneCount(map) <= DoneCount(map')
  BY DoneCounts, FS_Subset DEF DoneCount
<1>2. /\ DoneCount(map) \in 0 .. PieceCount /\ DoneCount(map') \in 0 .. PieceCount
      /\ DoneCount(map)' = DoneCount(map')
  BY DoneCounts DEF DoneCount, DonePieces
<1>3. InEndgame => InEndgame'
  BY <1>1, <1>2, PieceCountAssumption, CoordinatorAssumption DEF InEndgame, Remaining
<1> QED BY <1>3, CoordinatorAssumption DEF Limit
-----------------------------------------------------------------------------
LEMMA NextSweeper ==
    Inv /\ SweeperHasMutex /\ [Next]_vars => SweeperHasMutex'
<1> SUFFICES ASSUME Inv, SweeperHasMutex, [Next]_vars PROVE SweeperHasMutex'
  OBVIOUS
<1>1. IsComplete(map) => IsComplete(map')
  BY DoneStays DEF IsComplete, DonePieces
<1>2. IsComplete(map)' <=> IsComplete(map')
  BY DEF IsComplete, DonePieces
<1>3. TypeOK
  BY DEF Inv
<1>4. ASSUME NEW w \in Workers, Work(w) PROVE SweeperHasMutex'
  <2>1. CASE Searches(w)
    BY <1>1, <1>2, <1>3, <1>4, <2>1 DEF Searches, SweeperHasMutex, Holding,
       Searching, shared, flags, job, progress, Goto, TypeOK
  <2>2. CASE Claims(w)
    BY <1>1, <1>2, <1>3, <1>4, <2>2 DEF Claims, Claim, SweeperHasMutex,
       Holding, Searching, shared, flags, job, progress, Goto, TypeOK
  <2>3. CASE Check(w)
    BY <1>1, <1>2, <1>3, <1>4, <2>3 DEF Check, SweeperHasMutex, Holding,
       Searching, shared, flags, job, progress, Goto, TypeOK
  <2>4. CASE EnterReset(w)
    <3>1. limit'[w] = Limit /\ (Limit <= MostRetries \/ IsComplete(map))
      BY <1>3, <1>4, <2>4, LimitIsKnown DEF EnterReset, TypeOK
    <3>2. mutex' = w /\ pc' = pc /\ map' = map /\ pc[w] = "reset"
      BY <2>4 DEF EnterReset
    <3> QED BY <1>1, <1>2, <3>1, <3>2 DEF SweeperHasMutex, MostRetries
  <2>5. CASE ResetPiece(w)
    BY <1>1, <1>2, <1>3, <1>4, <2>5 DEF ResetPiece, MostRetries,
       SweeperHasMutex, MostRetries, Holding, Searching, shared, flags, job, progress,
       Goto, TypeOK
  <2>6. CASE LeaveReset(w)
    BY <1>1, <1>2, <1>3, <1>4, <2>6, CoordinatorAssumption DEF LeaveReset, Rewind, SweeperHasMutex,
       Holding, Searching, shared, flags, job, progress, Goto, TypeOK
  <2>7. CASE SelectPeer(w)
    BY <1>1, <1>2, <1>3, <1>4, <2>7 DEF SelectPeer, SweeperHasMutex, Holding,
       Searching, shared, flags, job, progress, Goto, TypeOK
  <2>8. CASE NoEligiblePeer(w)
    BY <1>1, <1>2, <1>3, <1>4, <2>8 DEF NoEligiblePeer, SweeperHasMutex,
       Holding, Searching, shared, flags, job, progress, Goto, TypeOK
  <2>9. CASE FetchGood(w)
    BY <1>1, <1>2, <1>3, <1>4, <2>9 DEF FetchGood, SweeperHasMutex, Holding,
       Searching, shared, flags, job, progress, Goto, TypeOK
  <2>10. CASE FetchBad(w)
    BY <1>1, <1>2, <1>3, <1>4, <2>10 DEF FetchBad, SweeperHasMutex, Holding,
       Searching, shared, flags, job, progress, Goto, TypeOK
  <2>11. CASE WritePiece(w)
    BY <1>1, <1>2, <1>3, <1>4, <2>11 DEF WritePiece, SweeperHasMutex, Holding,
       Searching, shared, flags, job, progress, Goto, TypeOK
  <2>12. CASE WriteFails(w)
    BY <1>1, <1>2, <1>3, <1>4, <2>12 DEF WriteFails, SweeperHasMutex, Holding,
       Searching, shared, flags, job, progress, Goto, TypeOK
  <2>13. CASE RaiseCancel(w)
    BY <1>1, <1>2, <1>3, <1>4, <2>13 DEF RaiseCancel, SweeperHasMutex,
       Holding, Searching, shared, flags, job, progress, Goto, TypeOK
  <2>14. CASE RecordFatal(w)
    BY <1>1, <1>2, <1>3, <1>4, <2>14 DEF RecordFatal, SweeperHasMutex,
       Holding, Searching, shared, flags, job, progress, Goto, TypeOK
  <2>15. CASE MarkDone(w)
    BY <1>1, <1>2, <1>3, <1>4, <2>15 DEF MarkDone, SweeperHasMutex, Holding,
       Searching, shared, flags, job, progress, Goto, TypeOK
  <2>16. CASE HandleSuccess(w)
    BY <1>1, <1>2, <1>3, <1>4, <2>16 DEF HandleSuccess, SweeperHasMutex,
       Holding, Searching, shared, flags, job, progress, Goto, TypeOK
  <2>17. CASE HandleFailure(w)
    BY <1>1, <1>2, <1>3, <1>4, <2>17 DEF HandleFailure, SweeperHasMutex,
       Holding, Searching, shared, flags, job, progress, Goto, TypeOK
  <2> QED BY <1>1, <1>2, <1>3, <1>4, <2>1, <2>2, <2>3, <2>4, <2>5, <2>6, <2>7,
      <2>8, <2>9, <2>10, <2>11, <2>12, <2>13, <2>14, <2>15, <2>16, <2>17,
      WorkCases
<1>5. CASE UNCHANGED <<map, mutex, locals>>
  BY <1>5 DEF SweeperHasMutex, MostRetries, IsComplete, DonePieces, locals, progress
<1> QED BY <1>4, <1>5, OtherSteps DEF Next, Stopped

LEMMA NextRewound ==
    TypeOK /\ SweeperHasMutex /\ Rewound /\ [Next]_vars => Rewound'
<1> SUFFICES ASSUME TypeOK, SweeperHasMutex, Rewound, [Next]_vars PROVE Rewound'
  OBVIOUS
<1>1. ASSUME NEW w \in Workers, Work(w) PROVE Rewound'
  <2>1. CASE Searches(w)
    BY <1>1, <2>1 DEF Searches, Rewound, SweeperHasMutex, Holding, Searching,
       Rewind, Advance, shared, flags, job, progress, Goto, TypeOK
  <2>2. CASE Claims(w)
    BY <1>1, <2>2 DEF Claims, Claim, Rewound, SweeperHasMutex, Holding,
       Searching, Rewind, Advance, shared, flags, job, progress, Goto, TypeOK
  <2>3. CASE Check(w)
    BY <1>1, <2>3 DEF Check, Rewound, SweeperHasMutex, Holding, Searching,
       Rewind, Advance, shared, flags, job, progress, Goto, TypeOK
  <2>4. CASE EnterReset(w)
    BY <1>1, <2>4, CoordinatorAssumption DEF EnterReset, Rewound, SweeperHasMutex, Holding,
       Searching, Rewind, Advance, shared, flags, job, progress, Goto, TypeOK
  <2>5. CASE ResetPiece(w)
    BY <1>1, <2>5 DEF ResetPiece, Rewound, SweeperHasMutex, Holding,
       Searching, Rewind, Advance, shared, flags, job, progress, Goto, TypeOK
  <2>6. CASE LeaveReset(w)
    BY <1>1, <2>6 DEF LeaveReset, Rewind, Rewound, SweeperHasMutex, Holding,
       Searching, Advance, shared, flags, job, progress, Goto, TypeOK
  <2>7. CASE SelectPeer(w)
    BY <1>1, <2>7 DEF SelectPeer, Rewound, SweeperHasMutex, Holding,
       Searching, Rewind, Advance, shared, flags, job, progress, Goto, TypeOK
  <2>8. CASE NoEligiblePeer(w)
    BY <1>1, <2>8 DEF NoEligiblePeer, Rewound, SweeperHasMutex, Holding,
       Searching, Rewind, Advance, shared, flags, job, progress, Goto, TypeOK
  <2>9. CASE FetchGood(w)
    BY <1>1, <2>9 DEF FetchGood, Rewound, SweeperHasMutex, Holding, Searching,
       Rewind, Advance, shared, flags, job, progress, Goto, TypeOK
  <2>10. CASE FetchBad(w)
    BY <1>1, <2>10 DEF FetchBad, Rewound, SweeperHasMutex, Holding, Searching,
       Rewind, Advance, shared, flags, job, progress, Goto, TypeOK
  <2>11. CASE WritePiece(w)
    BY <1>1, <2>11 DEF WritePiece, Rewound, SweeperHasMutex, Holding,
       Searching, Rewind, Advance, shared, flags, job, progress, Goto, TypeOK
  <2>12. CASE WriteFails(w)
    BY <1>1, <2>12 DEF WriteFails, Rewound, SweeperHasMutex, Holding,
       Searching, Rewind, Advance, shared, flags, job, progress, Goto, TypeOK
  <2>13. CASE RaiseCancel(w)
    BY <1>1, <2>13 DEF RaiseCancel, Rewound, SweeperHasMutex, Holding,
       Searching, Rewind, Advance, shared, flags, job, progress, Goto, TypeOK
  <2>14. CASE RecordFatal(w)
    BY <1>1, <2>14 DEF RecordFatal, Rewound, SweeperHasMutex, Holding,
       Searching, Rewind, Advance, shared, flags, job, progress, Goto, TypeOK
  <2>15. CASE MarkDone(w)
    BY <1>1, <2>15 DEF MarkDone, Rewound, SweeperHasMutex, Holding, Searching,
       Rewind, Advance, shared, flags, job, progress, Goto, TypeOK
  <2>16. CASE HandleSuccess(w)
    BY <1>1, <2>16 DEF HandleSuccess, Rewound, SweeperHasMutex, Holding,
       Searching, Rewind, Advance, shared, flags, job, progress, Goto, TypeOK
  <2>17. CASE HandleFailure(w)
    BY <1>1, <2>17 DEF HandleFailure, Rewound, SweeperHasMutex, Holding,
       Searching, Rewind, Advance, shared, flags, job, progress, Goto, TypeOK
  <2> QED BY <1>1, <2>1, <2>2, <2>3, <2>4, <2>5, <2>6, <2>7, <2>8, <2>9,
      <2>10, <2>11, <2>12, <2>13, <2>14, <2>15, <2>16, <2>17, WorkCases
<1>2. CASE UNCHANGED <<map, mutex, locals>>
  BY <1>2 DEF Rewound, locals, progress
<1> QED BY <1>1, <1>2, OtherSteps DEF Next, Stopped

LEMMA NextBooksPieces ==
    TypeOK /\ OneHolder /\ BooksPieces /\ [Next]_vars => BooksPieces'
<1> SUFFICES ASSUME TypeOK, OneHolder, BooksPieces, [Next]_vars PROVE BooksPieces'
  OBVIOUS
<1>1. ASSUME NEW w \in Workers, Work(w) PROVE BooksPieces'
  <2>1. CASE Searches(w)
    BY <1>1, <2>1 DEF Searches, BooksPieces, OneHolder, Holding, Searching,
       shared, flags, job, progress, Goto, TypeOK
  <2>2. CASE Claims(w)
    BY <1>1, <2>2 DEF Claims, Claim, BooksPieces, OneHolder, Holding,
       Searching, shared, flags, job, progress, Goto, TypeOK
  <2>3. CASE Check(w)
    BY <1>1, <2>3 DEF Check, BooksPieces, OneHolder, Holding, Searching,
       shared, flags, job, progress, Goto, TypeOK
  <2>4. CASE EnterReset(w)
    BY <1>1, <2>4 DEF EnterReset, BooksPieces, OneHolder, Holding, Searching,
       shared, flags, job, progress, Goto, TypeOK
  <2>5. CASE ResetPiece(w)
    BY <1>1, <2>5 DEF ResetPiece, BooksPieces, OneHolder, Holding, Searching,
       shared, flags, job, progress, Goto, TypeOK
  <2>6. CASE LeaveReset(w)
    BY <1>1, <2>6 DEF LeaveReset, Rewind, BooksPieces, OneHolder, Holding,
       Searching, shared, flags, job, progress, Goto, TypeOK
  <2>7. CASE SelectPeer(w)
    BY <1>1, <2>7 DEF SelectPeer, BooksPieces, OneHolder, Holding, Searching,
       shared, flags, job, progress, Goto, TypeOK
  <2>8. CASE NoEligiblePeer(w)
    BY <1>1, <2>8 DEF NoEligiblePeer, BooksPieces, OneHolder, Holding,
       Searching, shared, flags, job, progress, Goto, TypeOK
  <2>9. CASE FetchGood(w)
    BY <1>1, <2>9 DEF FetchGood, BooksPieces, OneHolder, Holding, Searching,
       shared, flags, job, progress, Goto, TypeOK
  <2>10. CASE FetchBad(w)
    BY <1>1, <2>10 DEF FetchBad, BooksPieces, OneHolder, Holding, Searching,
       shared, flags, job, progress, Goto, TypeOK
  <2>11. CASE WritePiece(w)
    BY <1>1, <2>11 DEF WritePiece, BooksPieces, OneHolder, Holding, Searching,
       shared, flags, job, progress, Goto, TypeOK
  <2>12. CASE WriteFails(w)
    BY <1>1, <2>12 DEF WriteFails, BooksPieces, OneHolder, Holding, Searching,
       shared, flags, job, progress, Goto, TypeOK
  <2>13. CASE RaiseCancel(w)
    BY <1>1, <2>13 DEF RaiseCancel, BooksPieces, OneHolder, Holding,
       Searching, shared, flags, job, progress, Goto, TypeOK
  <2>14. CASE RecordFatal(w)
    BY <1>1, <2>14 DEF RecordFatal, BooksPieces, OneHolder, Holding,
       Searching, shared, flags, job, progress, Goto, TypeOK
  <2>15. CASE MarkDone(w)
    BY <1>1, <2>15 DEF MarkDone, BooksPieces, OneHolder, Holding, Searching,
       shared, flags, job, progress, Goto, TypeOK
  <2>16. CASE HandleSuccess(w)
    BY <1>1, <2>16 DEF HandleSuccess, Forget, BooksPieces, OneHolder, Holding,
       Searching, shared, flags, job, progress, Goto, TypeOK
  <2>17. CASE HandleFailure(w)
    BY <1>1, <2>17 DEF HandleFailure, Forget, BooksPieces, OneHolder, Holding,
       Searching, shared, flags, job, progress, Goto, TypeOK
  <2> QED BY <1>1, <2>1, <2>2, <2>3, <2>4, <2>5, <2>6, <2>7, <2>8, <2>9,
      <2>10, <2>11, <2>12, <2>13, <2>14, <2>15, <2>16, <2>17, WorkCases
<1>2. CASE UNCHANGED <<map, mutex, locals>>
  BY <1>2 DEF BooksPieces, locals, job
<1> QED BY <1>1, <1>2, OtherSteps DEF Next, Stopped
-----------------------------------------------------------------------------
(* The failures of a piece, counted and not counted yet.                    *)
LEMMA BookingCounts ==
    ASSUME TypeOK, NEW i \in Pieces
    PROVE  /\ IsFiniteSet(Booking(i)) /\ Cardinality(Booking(i)) \in Nat
           /\ Failures(i) \in Nat
           /\ \A w \in Workers : pc[w] # "book" =>
                  Cardinality(Booking(i)) <= Cardinality(Workers) - 1
<1>1. Booking(i) \subseteq Workers
  BY DEF Booking
<1>2. IsFiniteSet(Booking(i)) /\ Cardinality(Booking(i)) \in Nat
  BY <1>1, FS_Subset, FS_CardinalityType, CoordinatorAssumption
<1>3. Failures(i) \in Nat
  BY <1>2 DEF Failures, TypeOK
<1>4. ASSUME NEW w \in Workers, pc[w] # "book"
      PROVE  Cardinality(Booking(i)) <= Cardinality(Workers) - 1
  <2>1. Booking(i) \subseteq Workers \ {w}
    BY <1>4 DEF Booking
  <2>2. IsFiniteSet(Workers \ {w}) /\ Cardinality(Workers \ {w}) = Cardinality(Workers) - 1
    BY FS_RemoveElement, CoordinatorAssumption
  <2> QED BY <2>1, <2>2, FS_Subset
<1> QED BY <1>2, <1>3, <1>4

LEMMA MostFailuresType == MostFailures \in Nat \ {0}
<1>1. Cardinality(Workers) \in Nat \ {0}
  BY CoordinatorAssumption, FS_CardinalityType, FS_EmptySet
<1> QED BY <1>1, MostRetriesType DEF MostFailures

(* A step that changes no failure of piece i and does not make it busy.     *)
Spares(i) == Failures(i)' = Failures(i) /\ (Busy(i)' => Busy(i))

LEMMA SparingSteps ==
    FailuresBounded /\ RoomToFail /\ (\A i \in Pieces : Spares(i))
        => FailuresBounded' /\ RoomToFail'
BY DEF FailuresBounded, RoomToFail, Spares, MostFailures

LEMMA SameBooking ==
    ASSUME NEW i,
           \A v \in Workers : (pc'[v] = "book" /\ piece'[v] = i)
                                  <=> (pc[v] = "book" /\ piece[v] = i)
    PROVE  Booking(i)' = Booking(i)
BY DEF Booking

LEMMA ClaimSpares ==
    ASSUME TypeOK, NEW w \in Workers, Claims(w)
    PROVE  \A i \in Pieces : Spares(i)
<1> SUFFICES ASSUME NEW i \in Pieces PROVE Spares(i)
  OBVIOUS
<1>1. PICK j \in Pieces, from \in Searching : Claim(w, j, from)
  BY DEF Claims
<1>2. Booking(i)' = Booking(i)
  BY <1>1, SameBooking DEF Claim, Goto, Searching, TypeOK
<1>3. map' = [map EXCEPT ![j] = "InFlight"] /\ map[j] = "Needed" /\ retries' = retries
  BY <1>1 DEF Claim, Claimed, Claimable, books
<1> QED BY <1>2, <1>3 DEF Spares, Failures, Busy, TypeOK

(* A worker whose fetch fails, or that finds no peer, fails its piece: the  *)
(* piece is not busy any more, and the failure is one not counted yet.      *)
LEMMA FailingSteps ==
    ASSUME TypeOK, FailuresBounded, RoomToFail, NEW w \in Workers, pc[w] # "book",
           piece[w] \in Pieces, map[piece[w]] = "InFlight",
           pc' = [pc EXCEPT ![w] = "book"], UNCHANGED <<retries, piece>>,
           map' = MarkedFailed(map, piece[w])
    PROVE  FailuresBounded' /\ RoomToFail'
<1>1. Booking(piece[w])' = Booking(piece[w]) \cup {w} /\ w \notin Booking(piece[w])
  BY DEF Booking, TypeOK
<1>2. Cardinality(Booking(piece[w]) \cup {w}) = Cardinality(Booking(piece[w])) + 1
  BY <1>1, BookingCounts, FS_AddElement
<1>3. Failures(piece[w]) + 1 <= MostFailures
  BY BookingCounts, MostFailuresType DEF RoomToFail, Busy
<1>4. retries[piece[w]] + (Cardinality(Booking(piece[w])) + 1) <= MostFailures
  BY <1>3, BookingCounts DEF Failures, TypeOK
<1>5. ASSUME NEW i \in Pieces
      PROVE  /\ Failures(i)' <= MostFailures
             /\ Busy(i)' => Busy(i) /\ Failures(i)' = Failures(i)
  <2>1. CASE i = piece[w]
    <3>1. ~Busy(i)'
      BY <2>1 DEF Busy, MarkedFailed, TypeOK
    <3>2. Failures(i)' = retries[piece[w]] + Cardinality(Booking(piece[w]) \cup {w})
      BY <1>1, <2>1 DEF Failures, Booking
    <3> QED BY <1>2, <1>4, <3>1, <3>2
  <2>2. CASE i # piece[w]
    <3>1. Booking(i)' = Booking(i)
      BY <2>2, SameBooking DEF TypeOK
    <3>2. Busy(i)' => Busy(i)
      BY <2>2 DEF Busy, MarkedFailed, TypeOK
    <3>3. Failures(i)' = Failures(i)
      BY <3>1 DEF Failures
    <3> QED BY <3>2, <3>3 DEF FailuresBounded
  <2> QED BY <2>1, <2>2
<1> QED BY <1>5 DEF FailuresBounded, RoomToFail, MostFailures

(* Counting a failure moves it from the workers to the books.               *)
LEMMA CountingSteps ==
    ASSUME TypeOK, BooksPieces, FailuresBounded, RoomToFail,
           NEW w \in Workers, HandleFailure(w)
    PROVE  FailuresBounded' /\ RoomToFail'
<1>1. PICK j \in Pieces : piece[w] = j
  BY DEF HandleFailure, Goto, BooksPieces
<1>2. /\ pc[w] = "book" /\ pc' = [pc EXCEPT ![w] = "check"]
      /\ piece' = [piece EXCEPT ![w] = 0] /\ map' = map
      /\ retries' = [retries EXCEPT ![j] = retries[j] + 1]
  BY <1>1 DEF HandleFailure, Goto, Forget
<1>3. Booking(j)' = Booking(j) \ {w} /\ w \in Booking(j)
  BY <1>1, <1>2 DEF Booking, TypeOK
<1>4. Cardinality(Booking(j) \ {w}) = Cardinality(Booking(j)) - 1
  BY <1>3, BookingCounts, FS_RemoveElement
<1>5. Failures(j)' = (retries[j] + 1) + (Cardinality(Booking(j)) - 1)
  BY <1>2, <1>3, <1>4 DEF Failures, TypeOK
<1>6. Failures(j)' = Failures(j)
  BY <1>5, BookingCounts DEF Failures, TypeOK
<1>7. ASSUME NEW i \in Pieces \ {j} PROVE Failures(i)' = Failures(i)
  <2>1. Booking(i)' = Booking(i)
    BY <1>1, <1>2, SameBooking DEF TypeOK
  <2> QED BY <1>2, <2>1 DEF Failures, TypeOK
<1>8. \A i \in Pieces : Busy(i)' => Busy(i)
  BY <1>2 DEF Busy
<1> QED BY <1>6, <1>7, <1>8, SparingSteps DEF Spares

(* A sweep retries a piece only below the limit, and the sweeper is not one *)
(* of those that have still to count a failure.                             *)
LEMMA RetryingSteps ==
    ASSUME TypeOK, SweeperHasMutex, FailuresBounded, RoomToFail,
           NEW w \in Workers, ResetPiece(w)
    PROVE  FailuresBounded' /\ RoomToFail'
<1>1. /\ pc[w] = "reset" /\ mutex = w /\ UNCHANGED <<pc, piece, retries>>
      /\ cursor[w] \in Pieces
      /\ map' = map \/ (/\ retries[cursor[w]] < limit[w]
                        /\ map' = RetryFailed(map, cursor[w]))
  BY PieceCountAssumption DEF ResetPiece, AtEnd, TypeOK, Pieces, books, job
<1>2. ASSUME NEW i \in Pieces PROVE Failures(i)' = Failures(i)
  BY <1>1, SameBooking DEF Failures
<1>3. CASE map' = map
  BY <1>2, <1>3, SparingSteps DEF Spares, Busy
<1>4. CASE map[cursor[w]] # "Failed" /\ map' = RetryFailed(map, cursor[w])
  BY <1>2, <1>4, SparingSteps DEF Spares, Busy, RetryFailed
<1>5. CASE /\ map[cursor[w]] = "Failed" /\ retries[cursor[w]] < limit[w]
           /\ map' = RetryFailed(map, cursor[w])
  <2>1. limit[w] <= MostRetries
    BY <1>1, <1>5 DEF SweeperHasMutex, IsComplete, DonePieces
  <2>2. /\ Cardinality(Booking(cursor[w])) \in Nat
        /\ Cardinality(Booking(cursor[w])) <= Cardinality(Workers) - 1
    BY <1>1, BookingCounts
  <2>3. Cardinality(Workers) \in Nat
    BY CoordinatorAssumption, FS_CardinalityType
  <2>4. retries[cursor[w]] \in Nat /\ limit[w] \in Nat
    BY <1>1 DEF TypeOK
  <2>5. MostFailures = MostRetries + Cardinality(Workers) - 1
    BY <1>5, <2>1, <2>4, MostRetriesType DEF MostFailures
  <2>6. Failures(cursor[w]) < MostFailures
    BY <1>5, <2>1, <2>2, <2>3, <2>4, <2>5, MostRetriesType DEF Failures
  <2>7. ASSUME NEW i \in Pieces, Busy(i)' PROVE Busy(i) \/ i = cursor[w]
    BY <1>1, <1>5, <2>7 DEF Busy, RetryFailed, TypeOK
  <2> QED
    BY <1>2, <2>6, <2>7 DEF FailuresBounded, RoomToFail, MostFailures
<1> QED BY <1>1, <1>3, <1>4, <1>5

LEMMA NextFailures ==
    TypeOK /\ OneHolder /\ SweeperHasMutex /\ BooksPieces
    /\ FailuresBounded /\ RoomToFail /\ [Next]_vars
        => FailuresBounded' /\ RoomToFail'
<1> SUFFICES ASSUME TypeOK, OneHolder, SweeperHasMutex, BooksPieces,
                    FailuresBounded, RoomToFail, [Next]_vars
             PROVE  FailuresBounded' /\ RoomToFail'
  OBVIOUS
<1>1. ASSUME NEW w \in Workers, Work(w) PROVE FailuresBounded' /\ RoomToFail'
  <2>1. CASE Searches(w)
    BY <1>1, SparingSteps, SameBooking, <2>1 DEF Searches, Searching, Spares,
       Failures, Busy, shared, books, job, Goto, TypeOK
  <2>2. CASE Claims(w)
    BY <1>1, <2>2, ClaimSpares, SparingSteps
  <2>3. CASE Check(w)
    BY <1>1, SparingSteps, SameBooking, <2>3 DEF Check, Spares, Failures,
       Busy, shared, books, job, Goto, TypeOK
  <2>4. CASE EnterReset(w)
    BY <1>1, SparingSteps, SameBooking, <2>4 DEF EnterReset, Spares, Failures,
       Busy, shared, books, job, Goto, TypeOK
  <2>5. CASE ResetPiece(w)
    BY <1>1, <2>5, RetryingSteps
  <2>6. CASE LeaveReset(w)
    BY <1>1, SparingSteps, SameBooking, <2>6 DEF LeaveReset, Rewind, Spares,
       Failures, Busy, shared, books, job, Goto, TypeOK
  <2>7. CASE SelectPeer(w)
    BY <1>1, SparingSteps, SameBooking, <2>7 DEF SelectPeer, Spares, Failures,
       Busy, shared, books, job, Goto, TypeOK
  <2>8. CASE NoEligiblePeer(w)
    <3>1. piece[w] \in Pieces /\ map[piece[w]] = "InFlight"
      BY <2>8 DEF NoEligiblePeer, OneHolder, Holding, Goto
    <3>2. /\ pc[w] # "book" /\ pc' = [pc EXCEPT ![w] = "book"]
          /\ UNCHANGED <<retries, piece>> /\ map' = MarkedFailed(map, piece[w])
      BY <2>8 DEF NoEligiblePeer, Goto, books
    <3> QED BY <3>1, <3>2, FailingSteps
  <2>9. CASE FetchGood(w)
    BY <1>1, SparingSteps, SameBooking, <2>9 DEF FetchGood, Spares, Failures,
       Busy, shared, books, job, Goto, TypeOK
  <2>10. CASE FetchBad(w)
    <3>1. piece[w] \in Pieces /\ map[piece[w]] = "InFlight"
      BY <2>10 DEF FetchBad, OneHolder, Holding, Goto
    <3>2. /\ pc[w] # "book" /\ pc' = [pc EXCEPT ![w] = "book"]
          /\ UNCHANGED <<retries, piece>> /\ map' = MarkedFailed(map, piece[w])
      BY <2>10 DEF FetchBad, Goto, books
    <3> QED BY <3>1, <3>2, FailingSteps
  <2>11. CASE WritePiece(w)
    BY <1>1, SparingSteps, SameBooking, <2>11 DEF WritePiece, Spares,
       Failures, Busy, shared, books, job, Goto, TypeOK
  <2>12. CASE WriteFails(w)
    BY <1>1, SparingSteps, SameBooking, <2>12 DEF WriteFails, Spares,
       Failures, Busy, shared, books, job, Goto, TypeOK
  <2>13. CASE RaiseCancel(w)
    BY <1>1, SparingSteps, SameBooking, <2>13 DEF RaiseCancel, Spares,
       Failures, Busy, shared, books, job, Goto, TypeOK
  <2>14. CASE RecordFatal(w)
    BY <1>1, SparingSteps, SameBooking, <2>14 DEF RecordFatal, Spares,
       Failures, Busy, shared, books, job, Goto, TypeOK
  <2>15. CASE MarkDone(w)
    BY <1>1, SparingSteps, SameBooking, <2>15 DEF MarkDone, MarkedDone, Spares, Failures,
       Busy, shared, books, job, Goto, TypeOK
  <2>16. CASE HandleSuccess(w)
    BY <1>1, SparingSteps, SameBooking, <2>16 DEF HandleSuccess, Forget,
       Spares, Failures, Busy, shared, books, job, Goto, TypeOK
  <2>17. CASE HandleFailure(w)
    BY <1>1, <2>17, CountingSteps
  <2> QED BY <1>1, SparingSteps, SameBooking, <2>1, <2>2, <2>3, <2>4, <2>5,
      <2>6, <2>7, <2>8, <2>9, <2>10, <2>11, <2>12, <2>13, <2>14, <2>15, <2>16,
      <2>17, WorkCases
<1>2. CASE UNCHANGED <<map, mutex, retries, locals>>
  BY <1>2, SparingSteps, SameBooking DEF Spares, Failures, Busy, locals, job
<1> QED BY <1>1, <1>2, OtherSteps DEF Next, Stopped
-----------------------------------------------------------------------------
LEMMA SameLimit == DonePieces(map)' = DonePieces(map) => Limit' = Limit
BY DEF Limit, InEndgame, Remaining, DoneCount, DonePieces

(* A worker that has the whole sweep before it covers every piece.          *)
LEMMA SweepAhead ==
    ASSUME NEW w \in Workers, WillSweep(w)'
    PROVE  SweptLater'
BY DEF SweptLater

(* A step that fails no piece, leaves the limit and ends no sweep early.    *)
Steady == /\ cancel => cancel'
          /\ fatal => fatal'
          /\ Limit' = Limit
          /\ UNCHANGED retries
          /\ \A i \in Pieces : map'[i] = "Failed" => map[i] = "Failed"
          /\ \A v \in Workers : WillSweep(v) => WillSweep(v)'
          /\ \A v \in Workers, i \in Pieces : IsSweeping(v, i) => IsSweeping(v, i)'

LEMMA SteadySteps == SweptLater /\ Steady => SweptLater'
BY DEF SweptLater, Steady

LEMMA NextSweptLater ==
    Inv /\ SweeperHasMutex /\ Rewound /\ SweptLater /\ [Next]_vars => SweptLater'
<1> SUFFICES ASSUME Inv, SweeperHasMutex, Rewound, SweptLater, [Next]_vars
             PROVE  SweptLater'
  OBVIOUS
<1>1. TypeOK
  BY DEF Inv
<1>2. ASSUME NEW w \in Workers, Work(w) PROVE SweptLater'
  <2>1. CASE Searches(w)
    <3>1. /\ UNCHANGED <<map, mutex, retries, cancel, fatal, limit>>
          /\ pc' = [pc EXCEPT ![w] = pc'[w]] /\ cursor' = [cursor EXCEPT ![w] = cursor'[w]]
          /\ ~WillSweep(w) /\ pc[w] # "reset"
      BY <2>1 DEF Searches, Searching, WillSweep, Holding, shared, books, flags
    <3>2. Limit' = Limit
      BY <3>1, SameLimit DEF DonePieces
    <3> QED
      BY <1>1, <3>1, <3>2, SteadySteps DEF Steady, WillSweep, IsSweeping, TypeOK
  <2>2. CASE Claims(w)
    <3>1. WillSweep(w)'
      BY <1>1, <1>2, <2>2 DEF Claims, Claim, WillSweep, Holding, TypeOK, Goto
    <3> QED BY <3>1, SweepAhead
  <2>3. CASE Check(w)
    <3>1. CASE cancel \/ fatal
      BY <2>3, <3>1 DEF Check, SweptLater, shared, flags
    <3>2. CASE IsComplete(map)
      BY <2>3, <3>2 DEF Check, SweptLater, IsComplete, DonePieces, shared
    <3>3. CASE ~(cancel \/ IsComplete(map) \/ fatal)
      <4>1. mutex' = mutex /\ mutex # w /\ pc'[w] = "reset"
        BY <1>1, <1>2, <2>3, <3>3 DEF Check, Goto, SweeperHasMutex, shared, TypeOK
      <4> QED BY <4>1, SweepAhead DEF WillSweep
    <3> QED BY <3>1, <3>2, <3>3
  <2>4. CASE EnterReset(w)
    <3>1. /\ pc'[w] = "reset" /\ mutex' = w /\ cursor'[w] = 0 /\ limit'[w] = Limit
          /\ map' = map
      BY <1>1, <1>2, <2>4, CoordinatorAssumption DEF EnterReset, Rewound, TypeOK
    <3>2. Limit' = Limit
      BY <3>1, SameLimit DEF DonePieces
    <3>3. \A i \in Pieces : IsSweeping(w, i)'
      BY <3>1, <3>2, LimitIsKnown DEF IsSweeping, Pieces
    <3> QED BY <3>3 DEF SweptLater
  <2>5. CASE ResetPiece(w)
    <3>1. /\ pc[w] = "reset" /\ mutex = w /\ UNCHANGED <<pc, mutex, retries, limit, flags>>
          /\ cursor' = [cursor EXCEPT ![w] = cursor[w] + 1] /\ cursor[w] \in Pieces
          /\ \/ retries[cursor[w]] < limit[w] /\ map' = RetryFailed(map, cursor[w])
             \/ retries[cursor[w]] >= limit[w] /\ map' = map
      BY <1>1, <1>2, <2>5, PieceCountAssumption
         DEF ResetPiece, AtEnd, Advance, TypeOK, Pieces, books
    <3>2. Limit' = Limit
      BY <1>1, <3>1, SameLimit DEF DonePieces, RetryFailed, TypeOK
    <3>3. CASE cancel \/ fatal
      BY <3>1, <3>3 DEF SweptLater, flags
    <3>4. CASE ~(cancel \/ fatal)
      <4>1. ASSUME NEW i \in Pieces, map'[i] = "Failed"
            PROVE  \/ retries[i] >= Limit
                   \/ \E v \in Workers : WillSweep(v)' \/ IsSweeping(v, i)'
        <5>1. map[i] = "Failed"
          BY <1>1, <3>1, <4>1 DEF RetryFailed, TypeOK
        <5>2. CASE retries[i] >= Limit
          BY <5>2
        <5>3. ASSUME NEW v \in Workers, WillSweep(v) PROVE WillSweep(v)'
          BY <3>1, <5>3 DEF WillSweep
        <5>4. ASSUME NEW v \in Workers, IsSweeping(v, i)
              PROVE  retries[i] >= Limit \/ IsSweeping(v, i)'
          <6>1. v = w
            BY <3>1, <5>4 DEF IsSweeping
          <6>2. CASE i = cursor[w]
            <7>1. retries[i] >= limit[w] /\ limit[w] >= Limit
              BY <1>1, <3>1, <4>1, <5>4, <6>1, <6>2 DEF RetryFailed, IsSweeping, TypeOK
            <7>2. retries[i] \in Nat /\ limit[w] \in Nat /\ Limit \in Nat
              BY <1>1, <1>2, LimitIsKnown DEF TypeOK
            <7> QED BY <7>1, <7>2
          <6>3. CASE i # cursor[w]
            <7>1. cursor[w] + 1 <= i /\ cursor'[w] = cursor[w] + 1
              BY <1>1, <1>2, <3>1, <5>4, <6>1, <6>3 DEF IsSweeping, TypeOK, Pieces
            <7> QED BY <3>1, <3>2, <5>4, <6>1, <7>1 DEF IsSweeping
          <6> QED BY <6>2, <6>3
        <5> QED BY <3>4, <5>1, <5>2, <5>3, <5>4 DEF SweptLater
      <4> QED BY <3>1, <3>2, <4>1 DEF SweptLater
    <3> QED BY <3>3, <3>4
  <2>6. CASE LeaveReset(w)
    <3>1. /\ pc[w] = "reset" /\ mutex = w /\ mutex' = NoWorker /\ cursor[w] = PieceCount
          /\ pc' = [pc EXCEPT ![w] = pc'[w]] /\ cursor' = [cursor EXCEPT ![w] = 0]
          /\ limit' = [limit EXCEPT ![w] = 0]
          /\ UNCHANGED <<map, retries, cancel, fatal>>
      BY <1>1, <2>6 DEF LeaveReset, Goto, AtEnd, Rewind, TypeOK, books, flags
    <3>2. Limit' = Limit
      BY <3>1, SameLimit DEF DonePieces
    <3>3. ~WillSweep(w)
      BY <3>1 DEF WillSweep, Holding
    <3>4. ASSUME NEW v \in Workers, NEW i \in Pieces, IsSweeping(v, i) PROVE FALSE
      <4>1. cursor[w] <= i
        BY <3>1, <3>4 DEF IsSweeping
      <4> QED BY <3>1, <4>1, PieceCountAssumption DEF Pieces
    <3>5. \A v \in Workers : WillSweep(v) => WillSweep(v)'
      BY <1>1, <3>1, <3>3, CoordinatorAssumption DEF WillSweep, TypeOK
    <3> QED BY <3>1, <3>2, <3>4, <3>5, SteadySteps DEF Steady
  <2>7. CASE SelectPeer(w)
    <3>1. WillSweep(w)'
      BY <1>1, <1>2, <2>7 DEF SelectPeer, WillSweep, Holding, TypeOK, Goto
    <3> QED BY <3>1, SweepAhead
  <2>8. CASE NoEligiblePeer(w)
    <3>1. WillSweep(w)'
      BY <1>1, <1>2, <2>8 DEF NoEligiblePeer, WillSweep, Holding, TypeOK, Goto
    <3> QED BY <3>1, SweepAhead
  <2>9. CASE FetchGood(w)
    <3>1. WillSweep(w)'
      BY <1>1, <1>2, <2>9 DEF FetchGood, WillSweep, Holding, TypeOK, Goto
    <3> QED BY <3>1, SweepAhead
  <2>10. CASE FetchBad(w)
    <3>1. WillSweep(w)'
      BY <1>1, <1>2, <2>10 DEF FetchBad, WillSweep, Holding, TypeOK, Goto
    <3> QED BY <3>1, SweepAhead
  <2>11. CASE WritePiece(w)
    <3>1. WillSweep(w)'
      BY <1>1, <1>2, <2>11 DEF WritePiece, WillSweep, Holding, TypeOK, Goto
    <3> QED BY <3>1, SweepAhead
  <2>12. CASE WriteFails(w)
    <3>1. WillSweep(w)'
      BY <1>1, <1>2, <2>12 DEF WriteFails, WillSweep, Holding, TypeOK, Goto
    <3> QED BY <3>1, SweepAhead
  <2>13. CASE RaiseCancel(w)
    <3>1. WillSweep(w)'
      BY <1>1, <1>2, <2>13 DEF RaiseCancel, WillSweep, Holding, TypeOK, Goto
    <3> QED BY <3>1, SweepAhead
  <2>14. CASE RecordFatal(w)
    BY <2>14 DEF RecordFatal, SweptLater
  <2>15. CASE MarkDone(w)
    <3>1. WillSweep(w)'
      BY <1>1, <1>2, <2>15 DEF MarkDone, WillSweep, Holding, TypeOK, Goto
    <3> QED BY <3>1, SweepAhead
  <2>16. CASE HandleSuccess(w)
    <3>1. WillSweep(w)'
      BY <1>1, <1>2, <2>16 DEF HandleSuccess, WillSweep, Holding, TypeOK, Goto
    <3> QED BY <3>1, SweepAhead
  <2>17. CASE HandleFailure(w)
    <3>1. WillSweep(w)'
      BY <1>1, <1>2, <2>17 DEF HandleFailure, WillSweep, Holding, TypeOK, Goto
    <3> QED BY <3>1, SweepAhead
  <2> QED BY <1>1, <1>2, <2>1, <2>2, <2>3, <2>4, <2>5, <2>6, <2>7, <2>8, <2>9,
      <2>10, <2>11, <2>12, <2>13, <2>14, <2>15, <2>16, <2>17, WorkCases
<1>3. CASE /\ UNCHANGED <<map, mutex, retries, locals>>
           /\ cancel => cancel'
           /\ fatal => fatal'
  <2>1. Limit' = Limit
    BY <1>3, SameLimit DEF DonePieces
  <2> QED
    BY <1>3, <2>1, SteadySteps DEF Steady, WillSweep, IsSweeping, locals, progress
<1> QED BY <1>2, <1>3, OtherSteps DEF Next, Stopped

LEMMA NextGiveUp ==
    Inv /\ SweptLater /\ SweeperHasMutex /\ GiveUpIsExhausted /\ [Next]_vars
        => GiveUpIsExhausted'
<1> SUFFICES ASSUME Inv, SweptLater, SweeperHasMutex, GiveUpIsExhausted, [Next]_vars
             PROVE  GiveUpIsExhausted'
  OBVIOUS
<1>1. ASSUME NEW w \in Workers, Work(w) PROVE GiveUpIsExhausted'
  BY <1>1, WorkersAtWork DEF Inv, Ended, Joined, GiveUpIsExhausted
<1>2. ASSUME UNCHANGED <<map, retries>>, outcome' = "failed" => outcome = "failed"
      PROVE  GiveUpIsExhausted'
  <2>1. Limit' = Limit
    BY <1>2, SameLimit DEF DonePieces
  <2> QED BY <1>2, <2>1 DEF GiveUpIsExhausted
<1>3. CASE ReturnAllPeersFailed
  <2>1. /\ ~fatal /\ ~cancel /\ Joined /\ UNCHANGED <<map, retries>>
    BY <1>3 DEF ReturnAllPeersFailed, Return, books
  <2>2. \A i \in Pieces : ~Busy(i)
    BY <2>1 DEF Inv, Watched, Watches, Joined
  <2>3. \A w \in Workers, i \in Pieces : ~WillSweep(w) /\ ~IsSweeping(w, i)
    BY <2>1 DEF Joined, WillSweep, IsSweeping, Holding
  <2>4. \A i \in Pieces : map[i] # "Done" => map[i] = "Failed" /\ retries[i] >= Limit
    BY <2>1, <2>2, <2>3 DEF SweptLater, Busy, Inv, TypeOK, PieceState
  <2>5. Limit' = Limit
    BY <2>1, SameLimit DEF DonePieces
  <2> QED BY <2>1, <2>4, <2>5 DEF GiveUpIsExhausted
<1>4. CASE ReturnStorageError \/ ReturnCancelled \/ FlushFails \/ ReturnOk
  BY <1>2, <1>4 DEF ReturnStorageError, ReturnCancelled, FlushFails, ReturnOk, Return, books
<1>5. CASE Cancel \/ (\E p \in Peers : Elapse(p)) \/ UNCHANGED vars
  BY <1>2, <1>5 DEF Cancel, Elapse, vars, shared, books
<1> QED BY <1>1, <1>3, <1>4, <1>5 DEF Next, Main, Stopped
-----------------------------------------------------------------------------
(* Blame.  A failure that is not a mismatch leaves the count of mismatches  *)
(* and the blacklist; a mismatch counts one more.                           *)
LEMMA FailingBlames ==
    ASSUME NEW t \in Tracked, NEW f
    PROVE  Failing(t, f).failures = t.failures /\ Failing(t, f).blacklisted = t.blacklisted
BY DEF Failing, Tracked

LEMMA CorruptingBlames ==
    ASSUME NEW t \in Tracked
    PROVE  /\ Corrupting(t).failures = t.failures + 1
           /\ Corrupting(t).blacklisted = (t.blacklisted
                 \/ (MaxPeerFailures > 0 /\ t.failures + 1 >= MaxPeerFailures))
<1>1. Failing(t, "corrupt") \in Tracked /\ Failing(t, "corrupt").blacklisted = t.blacklisted
  BY PeerRecords, FailingBlames
<1> HIDE DEF Failing
<1> QED BY <1>1 DEF Corrupting, Tracked

LEMMA ServingCounts ==
    ASSUME NEW S, S \subseteq Workers
    PROVE  /\ IsFiniteSet(S) /\ Cardinality(S) \in Nat
           /\ Cardinality(Workers) \in Nat /\ Cardinality(S) <= Cardinality(Workers)
BY FS_Subset, FS_CardinalityType, CoordinatorAssumption

LEMMA ServingTypes == \A p : Serving(p) \subseteq Workers /\ Serving(p)' \subseteq Workers
BY DEF Serving

(* A step that blames peer p no more and brings it no new request.          *)
Acquits(p) == /\ tracker'[p].failures = tracker[p].failures
              /\ tracker'[p].blacklisted = tracker[p].blacklisted
              /\ Serving(p)' \subseteq Serving(p)

Mismatches(p) ==
    /\ tracker[p].failures + Cardinality(Serving(p)) < MaxPeerFailures + Cardinality(Workers)
    /\ tracker[p].failures >= MaxPeerFailures <=> tracker[p].blacklisted

LEMMA AcquittingSteps ==
    ASSUME TypeOK, TypeOK', NEW p \in Peers, Mismatches(p), Acquits(p)
    PROVE  Mismatches(p)'
<1>1. /\ IsFiniteSet(Serving(p)) /\ Cardinality(Serving(p)) \in Nat
      /\ Cardinality(Serving(p)') \in Nat /\ Cardinality(Workers) \in Nat
  BY ServingCounts, ServingTypes
<1>2. Cardinality(Serving(p)') <= Cardinality(Serving(p))
  BY <1>1, FS_Subset DEF Acquits
<1>3. tracker[p].failures \in Nat
  BY DEF TypeOK, Tracked
<1>4. Cardinality(Serving(p))' = Cardinality(Serving(p)')
  BY DEF Serving
<1> HIDE DEF Serving
<1> QED
  BY <1>1, <1>2, <1>3, <1>4, CoordinatorAssumption DEF Mismatches, Acquits

LEMMA NextMismatches ==
    TypeOK /\ TypeOK' /\ MismatchesBounded /\ [Next]_vars => MismatchesBounded'
<1> SUFFICES ASSUME TypeOK, TypeOK', MismatchesBounded, [Next]_vars, MaxPeerFailures > 0,
                    NEW p \in Peers
             PROVE  Mismatches(p)'
  BY DEF MismatchesBounded, Mismatches
<1>1. Mismatches(p)
  BY DEF MismatchesBounded, Mismatches
<1>2. ASSUME NEW w \in Workers, Work(w) PROVE Mismatches(p)'
  <2>1. CASE Searches(w)
    BY <1>1, <1>2, <2>1, AcquittingSteps DEF Searches, Searching, Acquits,
       Serving, shared, books, job, Goto, TypeOK
  <2>2. CASE Claims(w)
    BY <1>1, <1>2, <2>2, AcquittingSteps DEF Claims, Claim, Searching, Acquits,
       Serving, shared, books, job, Goto, TypeOK
  <2>3. CASE Check(w)
    BY <1>1, <1>2, <2>3, AcquittingSteps DEF Check, Acquits, Serving, shared,
       books, job, Goto, TypeOK
  <2>4. CASE EnterReset(w)
    BY <1>1, <1>2, <2>4, AcquittingSteps DEF EnterReset, Acquits, Serving,
       shared, books, job, Goto, TypeOK
  <2>5. CASE ResetPiece(w)
    BY <1>1, <1>2, <2>5, AcquittingSteps DEF ResetPiece, Acquits, Serving,
       shared, books, job, Goto, TypeOK
  <2>6. CASE LeaveReset(w)
    BY <1>1, <1>2, <2>6, AcquittingSteps DEF LeaveReset, Acquits, Serving,
       shared, books, job, Goto, TypeOK
  <2>7. CASE SelectPeer(w)
    <3>1. PICK q \in Peers : /\ ~tracker[q].blacklisted
                             /\ peer' = [peer EXCEPT ![w] = q]
      BY <2>7, CoordinatorAssumption DEF SelectPeer, Eligible, Primary, Usable, Moods
    <3>2. tracker' = tracker /\ pc' = [pc EXCEPT ![w] = "fetch"] /\ pc[w] = "select"
             /\ fault' = fault
      BY <2>7 DEF SelectPeer, Goto, shared, books
    <3>3. CASE p = q
      <4>1. tracker[p].failures \in Nat /\ tracker[p].failures < MaxPeerFailures
        BY <1>1, <3>1, <3>3, CoordinatorAssumption DEF Mismatches, TypeOK, Tracked
      <4>2. /\ Cardinality(Serving(p)') <= Cardinality(Workers)
            /\ Cardinality(Serving(p)') \in Nat /\ Cardinality(Workers) \in Nat
        BY ServingTypes, ServingCounts
      <4>3. Cardinality(Serving(p))' = Cardinality(Serving(p)')
        BY DEF Serving
      <4> HIDE DEF Serving
      <4> QED
        BY <1>1, <3>2, <4>1, <4>2, <4>3, CoordinatorAssumption DEF Mismatches
    <3>4. CASE p # q
      <4>1. Serving(p)' \subseteq Serving(p)
        BY <3>1, <3>2, <3>4 DEF Serving, TypeOK
      <4> QED BY <1>1, <3>2, <4>1, AcquittingSteps DEF Acquits
    <3> QED BY <3>3, <3>4
  <2>8. CASE NoEligiblePeer(w)
    BY <1>1, <1>2, <2>8, AcquittingSteps DEF NoEligiblePeer, Acquits, Serving,
       shared, books, job, Goto, TypeOK
  <2>9. CASE FetchGood(w)
    BY <1>1, <1>2, <2>9, AcquittingSteps DEF FetchGood, Acquits, Serving, shared,
       books, job, Goto, TypeOK
  <2>10. CASE FetchBad(w)
    BY <1>1, <1>2, <2>10, AcquittingSteps DEF FetchBad, Acquits, Serving, shared,
       books, job, Goto, TypeOK
  <2>11. CASE WritePiece(w)
    BY <1>1, <1>2, <2>11, AcquittingSteps DEF WritePiece, Acquits, Serving,
       shared, books, job, Goto, TypeOK
  <2>12. CASE WriteFails(w)
    BY <1>1, <1>2, <2>12, AcquittingSteps DEF WriteFails, Acquits, Serving,
       shared, books, job, Goto, TypeOK
  <2>13. CASE RaiseCancel(w)
    BY <1>1, <1>2, <2>13, AcquittingSteps DEF RaiseCancel, Acquits, Serving,
       shared, books, job, Goto, TypeOK
  <2>14. CASE RecordFatal(w)
    BY <1>1, <1>2, <2>14, AcquittingSteps DEF RecordFatal, Acquits, Serving,
       shared, books, job, Goto, TypeOK
  <2>15. CASE MarkDone(w)
    BY <1>1, <1>2, <2>15, AcquittingSteps DEF MarkDone, Acquits, Serving, shared,
       books, job, Goto, TypeOK
  <2>16. CASE HandleSuccess(w)
    <3>1. tracker' = [tracker EXCEPT ![peer[w]].rejectedInRow = FALSE,
                                     ![peer[w]].backoff = FALSE]
      BY <2>16 DEF HandleSuccess
    <3>2. /\ tracker'[p].failures = tracker[p].failures
          /\ tracker'[p].blacklisted = tracker[p].blacklisted
      BY <3>1 DEF TypeOK, Tracked
    <3>3. Serving(p)' \subseteq Serving(p)
      BY <2>16 DEF HandleSuccess, Goto, Forget, Serving, TypeOK
    <3> QED BY <1>1, <3>2, <3>3, AcquittingSteps DEF Acquits
  <2>17. CASE HandleFailure(w)
    <3>1. /\ pc[w] = "book" /\ pc' = [pc EXCEPT ![w] = "check"]
          /\ \A v \in Workers \ {w} : peer'[v] = peer[v] /\ fault'[v] = fault[v]
      BY <2>17 DEF HandleFailure, Goto, Forget, TypeOK
    <3>2. Serving(p)' = Serving(p) \ {w}
      BY <1>2, <3>1 DEF Serving, TypeOK
    <3>3. CASE fault[w] # "corrupt" \/ peer[w] # p
      <4>1. CASE tracker' = tracker
        BY <1>1, <3>2, <4>1, AcquittingSteps DEF Acquits
      <4>2. CASE /\ peer[w] # p
                 /\ tracker' = [tracker EXCEPT ![peer[w]] =
                      IF fault[w] = "corrupt" THEN Corrupting(@) ELSE Failing(@, fault[w])]
        <5>1. tracker'[p] = tracker[p]
          BY <4>2 DEF TypeOK
        <5> QED BY <1>1, <3>2, <5>1, AcquittingSteps DEF Acquits
      <4>3. CASE /\ peer[w] = p /\ fault[w] # "corrupt"
                 /\ tracker' = [tracker EXCEPT ![peer[w]] =
                      IF fault[w] = "corrupt" THEN Corrupting(@) ELSE Failing(@, fault[w])]
        <5>1. tracker'[p] = Failing(tracker[p], fault[w])
          BY <4>3 DEF TypeOK
        <5>2. tracker[p] \in Tracked
          BY DEF TypeOK
        <5> QED BY <1>1, <3>2, <5>1, <5>2, FailingBlames, AcquittingSteps DEF Acquits
      <4> QED BY <3>3, <2>17, <4>1, <4>2, <4>3 DEF HandleFailure
    <3>4. CASE fault[w] = "corrupt" /\ peer[w] = p
      <4>1. tracker'[p] = Corrupting(tracker[p]) /\ tracker[p] \in Tracked
        <5>1. tracker' = [tracker EXCEPT ![p] = Corrupting(@)]
          BY <2>17, <3>4 DEF HandleFailure
        <5> QED BY <5>1 DEF TypeOK
      <4>2. /\ tracker'[p].failures = tracker[p].failures + 1
            /\ tracker'[p].blacklisted = (tracker[p].blacklisted
                  \/ tracker[p].failures + 1 >= MaxPeerFailures)
        BY <4>1, CorruptingBlames
      <4>3. w \in Serving(p)
        BY <1>2, <3>1, <3>4 DEF Serving
      <4>4. Cardinality(Serving(p) \ {w}) = Cardinality(Serving(p)) - 1
        BY <4>3, ServingTypes, ServingCounts, FS_RemoveElement
      <4>5. Cardinality(Serving(p))' = Cardinality(Serving(p)) - 1
        BY <3>2, <4>4 DEF Serving
      <4>6. Cardinality(Serving(p)) \in Nat /\ Cardinality(Workers) \in Nat
               /\ tracker[p].failures \in Nat
        BY ServingTypes, ServingCounts DEF TypeOK, Tracked
      <4> HIDE DEF Serving
      <4>7. tracker'[p].failures + Cardinality(Serving(p))'
              < MaxPeerFailures + Cardinality(Workers)
        BY <1>1, <4>2, <4>5, <4>6, CoordinatorAssumption DEF Mismatches
      <4>8. tracker'[p].failures >= MaxPeerFailures <=> tracker'[p].blacklisted
        <5>1. tracker[p].blacklisted \in BOOLEAN /\ tracker'[p].blacklisted \in BOOLEAN
          BY DEF TypeOK, Tracked
        <5>2. tracker[p].blacklisted => tracker[p].failures + 1 >= MaxPeerFailures
          BY <1>1, <4>6, CoordinatorAssumption DEF Mismatches
        <5>3. tracker'[p].blacklisted <=> tracker[p].failures + 1 >= MaxPeerFailures
          BY <4>2, <5>1, <5>2, Zenon
        <5> QED BY <4>2, <5>3
      <4> QED BY <4>7, <4>8 DEF Mismatches
    <3> QED BY <3>3, <3>4
  <2> QED BY <1>2, <2>1, <2>2, <2>3, <2>4, <2>5, <2>6, <2>7, <2>8, <2>9,
      <2>10, <2>11, <2>12, <2>13, <2>14, <2>15, <2>16, <2>17, WorkCases
<1>3. CASE UNCHANGED <<tracker, locals>>
  BY <1>1, <1>3, AcquittingSteps DEF Acquits, Serving, locals, job
<1>4. ASSUME NEW q \in Peers, Elapse(q) PROVE Mismatches(p)'
  <2>1. \/ tracker' = [tracker EXCEPT ![q].backoff = FALSE]
        \/ tracker' = [tracker EXCEPT ![q].excluded = FALSE]
    BY <1>4 DEF Elapse
  <2>2. /\ tracker'[p].failures = tracker[p].failures
        /\ tracker'[p].blacklisted = tracker[p].blacklisted
    BY <2>1 DEF TypeOK, Tracked
  <2>3. Serving(p)' \subseteq Serving(p)
    BY <1>4 DEF Elapse, Serving, locals, job
  <2> QED BY <1>1, <2>2, <2>3, AcquittingSteps DEF Acquits
<1>5. Main \/ Cancel \/ UNCHANGED vars => UNCHANGED <<tracker, locals>>
  BY DEF Main, ReturnStorageError, ReturnCancelled, ReturnAllPeersFailed, FlushFails,
     ReturnOk, Return, Cancel, vars, shared, books
<1> QED BY <1>2, <1>3, <1>4, <1>5 DEF Next, Stopped
-----------------------------------------------------------------------------
(* A step that completes no piece, saves nothing and leaves whoever is      *)
(* about to save.                                                           *)
Unsaved == /\ UNCHANGED <<checkpoint, outcome>>
           /\ DonePieces(map') \subseteq DonePieces(map)
           /\ \A v \in Workers : pc[v] = "success" => pc'[v] = "success"

LEMMA UnsavedSteps == SavedSoon /\ Unsaved => SavedSoon'
BY DEF SavedSoon, Unsaved, DonePieces

LEMMA NextSaved == Inv /\ SavedSoon /\ [Next]_vars => SavedSoon'
<1> SUFFICES ASSUME Inv, SavedSoon, [Next]_vars PROVE SavedSoon'
  OBVIOUS
<1>1. TypeOK
  BY DEF Inv
<1>2. ASSUME NEW w \in Workers, Work(w) PROVE SavedSoon'
  <2>1. CASE Searches(w)
    BY <1>1, <1>2, UnsavedSteps, <2>1 DEF Searches, Searching, Unsaved,
       DonePieces, shared, file, Goto, TypeOK
  <2>2. CASE Claims(w)
    BY <1>1, <1>2, UnsavedSteps, <2>2 DEF Claims, Claim, Claimed, Claimable,
       Searching, Unsaved, DonePieces, shared, file, Goto, TypeOK
  <2>3. CASE Check(w)
    BY <1>1, <1>2, UnsavedSteps, <2>3 DEF Check, Unsaved, DonePieces, shared,
       file, Goto, TypeOK
  <2>4. CASE EnterReset(w)
    BY <1>1, <1>2, UnsavedSteps, <2>4 DEF EnterReset, Unsaved, DonePieces,
       shared, file, Goto, TypeOK
  <2>5. CASE ResetPiece(w)
    BY <1>1, <1>2, UnsavedSteps, <2>5 DEF ResetPiece, RetryFailed, Unsaved,
       DonePieces, shared, file, Goto, TypeOK
  <2>6. CASE LeaveReset(w)
    BY <1>1, <1>2, UnsavedSteps, <2>6 DEF LeaveReset, Rewind, Unsaved,
       DonePieces, shared, file, Goto, TypeOK
  <2>7. CASE SelectPeer(w)
    BY <1>1, <1>2, UnsavedSteps, <2>7 DEF SelectPeer, Unsaved, DonePieces,
       shared, file, Goto, TypeOK
  <2>8. CASE NoEligiblePeer(w)
    BY <1>1, <1>2, UnsavedSteps, <2>8 DEF NoEligiblePeer, MarkedFailed,
       Unsaved, DonePieces, shared, file, Goto, TypeOK
  <2>9. CASE FetchGood(w)
    BY <1>1, <1>2, UnsavedSteps, <2>9 DEF FetchGood, Unsaved, DonePieces,
       shared, file, Goto, TypeOK
  <2>10. CASE FetchBad(w)
    BY <1>1, <1>2, UnsavedSteps, <2>10 DEF FetchBad, MarkedFailed, Unsaved,
       DonePieces, shared, file, Goto, TypeOK
  <2>11. CASE WritePiece(w)
    BY <1>1, <1>2, UnsavedSteps, <2>11 DEF WritePiece, Unsaved, DonePieces,
       shared, file, Goto, TypeOK
  <2>12. CASE WriteFails(w)
    BY <1>1, <1>2, UnsavedSteps, <2>12 DEF WriteFails, Unsaved, DonePieces,
       shared, file, Goto, TypeOK
  <2>13. CASE RaiseCancel(w)
    BY <1>1, <1>2, UnsavedSteps, <2>13 DEF RaiseCancel, Unsaved, DonePieces,
       shared, file, Goto, TypeOK
  <2>14. CASE RecordFatal(w)
    BY <1>1, <1>2, UnsavedSteps, <2>14 DEF RecordFatal, Unsaved, DonePieces,
       shared, file, Goto, TypeOK
  <2>15. CASE MarkDone(w)
    BY <1>1, <1>2, <2>15 DEF MarkDone, Goto, SavedSoon, TypeOK
  <2>16. CASE HandleSuccess(w)
    <3>1. checkpoint' = DonePieces(map) \/ SavesFail
      BY <2>16 DEF HandleSuccess
    <3>2. map' = map
      BY <2>16 DEF HandleSuccess
    <3> QED BY <3>1, <3>2 DEF SavedSoon, DonePieces
  <2>17. CASE HandleFailure(w)
    BY <1>1, <1>2, UnsavedSteps, <2>17 DEF HandleFailure, Unsaved, DonePieces,
       shared, file, Goto, TypeOK
  <2> QED BY <1>1, <1>2, UnsavedSteps, <2>1, <2>2, <2>3, <2>4, <2>5, <2>6,
      <2>7, <2>8, <2>9, <2>10, <2>11, <2>12, <2>13, <2>14, <2>15, <2>16,
      <2>17, WorkCases
<1>3. CASE Main
  BY <1>3 DEF Main, ReturnStorageError, ReturnCancelled, ReturnAllPeersFailed, FlushFails,
     ReturnOk, Return, SavedSoon
<1>4. Cancel \/ (\E p \in Peers : Elapse(p)) \/ UNCHANGED vars => Unsaved
  BY DEF Cancel, Elapse, Unsaved, vars, shared, file, locals
<1> QED BY <1>2, <1>3, <1>4, UnsavedSteps DEF Next, Stopped

(* A save keeps what the resume file had: it lists every Done piece.        *)
LEMMA SavesOnlyAdd ==
    Inv /\ [Next]_vars => checkpoint \subseteq checkpoint' \/ outcome' = "ok"
<1> SUFFICES ASSUME Inv, [Next]_vars PROVE checkpoint \subseteq checkpoint' \/ outcome' = "ok"
  OBVIOUS
<1>1. TypeOK
  BY DEF Inv
<1>2. ASSUME NEW w \in Workers, Work(w) PROVE checkpoint \subseteq checkpoint'
  <2>1. CASE Searches(w)
    BY <1>1, <1>2, <2>1 DEF Searches, shared, file
  <2>2. CASE Claims(w)
    BY <1>1, <1>2, <2>2 DEF Claims, Claim, shared, file
  <2>3. CASE Check(w)
    BY <1>1, <1>2, <2>3 DEF Check, shared, file
  <2>4. CASE EnterReset(w)
    BY <1>1, <1>2, <2>4 DEF EnterReset, shared, file
  <2>5. CASE ResetPiece(w)
    BY <1>1, <1>2, <2>5 DEF ResetPiece, shared, file
  <2>6. CASE LeaveReset(w)
    BY <1>1, <1>2, <2>6 DEF LeaveReset, Rewind, shared, file
  <2>7. CASE SelectPeer(w)
    BY <1>1, <1>2, <2>7 DEF SelectPeer, shared, file
  <2>8. CASE NoEligiblePeer(w)
    BY <1>1, <1>2, <2>8 DEF NoEligiblePeer, shared, file
  <2>9. CASE FetchGood(w)
    BY <1>1, <1>2, <2>9 DEF FetchGood, shared, file
  <2>10. CASE FetchBad(w)
    BY <1>1, <1>2, <2>10 DEF FetchBad, shared, file
  <2>11. CASE WritePiece(w)
    BY <1>1, <1>2, <2>11 DEF WritePiece, shared, file
  <2>12. CASE WriteFails(w)
    BY <1>1, <1>2, <2>12 DEF WriteFails, shared, file
  <2>13. CASE RaiseCancel(w)
    BY <1>1, <1>2, <2>13 DEF RaiseCancel, shared, file
  <2>14. CASE RecordFatal(w)
    BY <1>1, <1>2, <2>14 DEF RecordFatal, shared, file
  <2>15. CASE MarkDone(w)
    BY <1>1, <1>2, <2>15 DEF MarkDone, shared, file
  <2>16. CASE HandleSuccess(w)
    BY <2>16 DEF HandleSuccess, Inv, DoneIsWritten
  <2>17. CASE HandleFailure(w)
    BY <1>1, <1>2, <2>17 DEF HandleFailure, shared, file
  <2> QED BY <1>1, <1>2, <2>1, <2>2, <2>3, <2>4, <2>5, <2>6, <2>7, <2>8, <2>9,
      <2>10, <2>11, <2>12, <2>13, <2>14, <2>15, <2>16, <2>17, WorkCases
<1>3. Main \/ Cancel \/ (\E p \in Peers : Elapse(p)) \/ UNCHANGED vars
         => checkpoint' = checkpoint \/ outcome' = "ok"
  BY DEF Main, ReturnStorageError, ReturnCancelled, ReturnAllPeersFailed, FlushFails,
     ReturnOk, Return, Cancel, Elapse, vars, shared, file
<1> QED BY <1>2, <1>3 DEF Next, Stopped
-----------------------------------------------------------------------------
LEMMA InitLimits == Init => LimitsInv
<1> SUFFICES ASSUME Init PROVE LimitsInv
  OBVIOUS
<1>1. SweeperHasMutex /\ Rewound /\ BooksPieces /\ GiveUpIsExhausted
  BY CoordinatorAssumption DEF Init, SweeperHasMutex, Rewound, BooksPieces, GiveUpIsExhausted
<1>2. FailuresBounded /\ RoomToFail
  <2>1. \A i \in Pieces : Booking(i) = {}
    BY DEF Init, Booking
  <2>2. \A i \in Pieces : Failures(i) = 0
    <3>1. Cardinality({}) = 0
      BY FS_EmptySet
    <3>2. \A i \in Pieces : retries[i] = 0
      BY DEF Init
    <3> QED BY <2>1, <3>1, <3>2 DEF Failures
  <2> QED BY <2>2, MostFailuresType DEF FailuresBounded, RoomToFail
<1>3. SweptLater
  <2>1. \A w \in Workers : WillSweep(w)
    BY DEF Init, WillSweep
  <2> QED BY <2>1, CoordinatorAssumption DEF SweptLater
<1>4. MismatchesBounded
  <2>1. \A p \in Peers : Serving(p) = {}
    BY DEF Init, Serving
  <2>2. Cardinality(Workers) \in Nat \ {0}
    BY CoordinatorAssumption, FS_CardinalityType, FS_EmptySet
  <2>3. \A p \in Peers : tracker[p].failures = 0 /\ ~tracker[p].blacklisted
    BY DEF Init, NewPeer
  <2>4. Cardinality({}) = 0
    BY FS_EmptySet
  <2> HIDE DEF Serving
  <2>5. ASSUME MaxPeerFailures > 0, NEW p \in Peers PROVE Mismatches(p)
    <3>1. tracker[p].failures + Cardinality(Serving(p)) < MaxPeerFailures + Cardinality(Workers)
      <4>1. Cardinality(Serving(p)) = 0
        BY <2>1, <2>4
      <4> QED BY <2>2, <2>3, <2>5, <4>1, CoordinatorAssumption
    <3>2. ~(tracker[p].failures >= MaxPeerFailures) /\ ~tracker[p].blacklisted
      BY <2>3, <2>5, CoordinatorAssumption
    <3> QED BY <3>1, <3>2 DEF Mismatches
  <2> QED BY <2>5 DEF MismatchesBounded, Mismatches
<1>5. SavedSoon
  BY DEF Init, SavedSoon, FromVerified, DonePieces
<1> QED BY <1>1, <1>2, <1>3, <1>4, <1>5 DEF LimitsInv

LEMMA NextLimits == Inv /\ LimitsInv /\ [Next]_vars => LimitsInv'
BY NextInv, NextSweeper, NextRewound, NextBooksPieces, NextFailures, NextSweptLater,
   NextGiveUp, NextMismatches, NextSaved DEF Inv, LimitsInv

LEMMA LimitsInvariance == Spec => [](Inv /\ LimitsInv)
<1>1. Inv /\ LimitsInv /\ [Next]_vars => (Inv /\ LimitsInv)'
  BY NextInv, NextLimits
<1> QED BY <1>1, InitInv, InitLimits, PTL DEF Spec

(* Retries and mismatches keep their limits although the books lag behind   *)
(* the map (reset of failed pieces, record_failure), by at most one per     *)
(* other worker, and AllPeersFailed is returned only when every piece that  *)
(* is not Done is out of retries.                                           *)
THEOREM LimitsHold == Spec => []LimitsAreKept
<1>1. Inv /\ LimitsInv => LimitsAreKept
  <2> SUFFICES ASSUME Inv, LimitsInv PROVE CorruptionBounded
    BY DEF LimitsInv, LimitsAreKept
  <2>1. ASSUME MaxPeerFailures > 0, NEW p \in Peers
        PROVE  tracker[p].failures < MaxPeerFailures + Cardinality(Workers)
    <3>1. /\ Cardinality(Serving(p)) \in Nat /\ Cardinality(Workers) \in Nat
          /\ tracker[p].failures \in Nat
      BY <2>1, ServingTypes, ServingCounts DEF Inv, TypeOK, Tracked
    <3>2. tracker[p].failures + Cardinality(Serving(p)) < MaxPeerFailures + Cardinality(Workers)
      BY <2>1 DEF LimitsInv, MismatchesBounded
    <3> HIDE DEF Serving
    <3> QED BY <3>1, <3>2, CoordinatorAssumption
  <2> QED BY <2>1 DEF LimitsInv, MismatchesBounded, CorruptionBounded
<1> QED BY <1>1, LimitsInvariance, PTL

(* The resume file only gains pieces, whichever worker saves it, and when   *)
(* the workers have left it lists every Done piece.                         *)
THEOREM RecordHolds == Spec => RecordKeepsUp
<1>1. Inv /\ LimitsInv => CheckpointCatchesUp
  BY DEF Inv, LimitsInv, DoneIsWritten, SavedSoon, CheckpointCatchesUp, Joined
<1>2. (Inv /\ LimitsInv)' => CheckpointCatchesUp'
  BY <1>1, PTL
<1>3. Inv /\ (Inv /\ LimitsInv)' /\ [Next]_vars
         => [CheckpointCatchesUp' /\ (checkpoint \subseteq checkpoint' \/ outcome' = "ok")]_vars
  BY <1>2, SavesOnlyAdd
<1> QED BY <1>3, LimitsInvariance, PTL DEF Spec, RecordKeepsUp
=============================================================================
