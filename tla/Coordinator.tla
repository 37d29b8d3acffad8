---------------------------- MODULE Coordinator ----------------------------
(***************************************************************************)
(* PieceCoordinator::run (p2p-distribute, coordinator.rs): worker threads  *)
(* that share one lock-free piece map and one mutex, and fetch the pieces  *)
(* of a file from peers that fail, lie or refuse.                          *)
(*                                                                         *)
(* Each action is a step that other threads can fall between: a load or a  *)
(* compare-and-swap of the piece map, a critical section of the mutex, a   *)
(* fetch.  The endgame sweep loads the map piece by piece inside its       *)
(* critical section, so the mutex is a variable; the other critical        *)
(* sections touch nothing a lock-free step reads twice and are one action. *)
(*                                                                         *)
(* Abstracted: scores, speeds and choke state decide nothing but which     *)
(* eligible peer is taken, so selection is a choice; the clock appears as  *)
(* the moments at which a backoff or an exclusion elapses.                 *)
(***************************************************************************)
EXTENDS PieceMap

CONSTANTS
    Workers,          \* min(max_concurrent_pieces, peers), at least one
    Peers,
    NoPeer,           \* last_failed_peer's None
    NoWorker,         \* the mutex is free
    Has,              \* Has[p]: the pieces peer p has (Peer::has_piece)
    Answers,          \* Answers[p]: the outcomes a fetch from p can have
    Fluctuates,       \* peers whose choke state or speed varies
    Streaming,        \* DownloadMode: Streaming or Bulk
    MaxRetries,       \* max_retries_per_piece
    EndgameThreshold, \* endgame_threshold
    MaxPeerFailures,  \* max_peer_failures, 0 disables blacklisting
    StorageFails,     \* may a write or the final flush fail?
    SavesFail,        \* may a save of the resume file fail?
    MayCancel         \* may the caller raise the cancel flag?

(* What a fetch returns: the piece, wrong bytes, a network error or a       *)
(* timeout, or a rejection by its class (RejectionReason).                  *)
Rejections == {"transient", "permanent", "other"}
Outcomes == {"good", "corrupt", "broken"} \cup Rejections

ASSUME CoordinatorAssumption ==
    /\ IsFiniteSet(Workers) /\ Workers # {}
    /\ NoPeer \notin Peers /\ NoWorker \notin Workers
    /\ Has \in [Peers -> SUBSET Pieces]
    /\ Answers \in [Peers -> SUBSET Outcomes]
    /\ Fluctuates \subseteq Peers
    /\ {Streaming, StorageFails, SavesFail, MayCancel} \subseteq BOOLEAN
    /\ {MaxRetries, EndgameThreshold, MaxPeerFailures} \subseteq Nat

VARIABLES
    map,          \* the SharedPieceMap
    mutex,        \* the worker inside the endgame sweep, or NoWorker
    retries,      \* retry_counts
    lastFailed,   \* last_failed_peer
    tracker,      \* per peer: blame, blacklist, refusal, backoff, exclusion
    cancel,       \* cancel_flag
    fatal,        \* fatal_error is Some
    written,      \* pieces whose verified bytes the storage holds
    checkpoint,   \* the pieces the resume file marks done ({}: no file)
    outcome,      \* what run has returned
    pc, piece, peer, fault, cursor, tries, needed, limit  \* workers' locals

books == <<retries, lastFailed, tracker>>
flags == <<cancel, fatal>>
file == <<written, checkpoint>>
shared == <<map, mutex, books, flags, file, outcome>>
job == <<piece, peer, fault>>
progress == <<cursor, tries, needed, limit>>
locals == <<pc, job, progress>>
vars == <<shared, locals>>

(* The labels of the worker loop, and those at which a worker holds the     *)
(* piece it claimed.                                                        *)
Holding == {"select", "fetch", "write", "mark", "raise", "abort"}
Labels == Holding \cup {"check", "reset", "scan", "cas", "snapshot", "pick",
                        "sweep", "idle", "look", "success", "book", "exit"}

NewPeer == [failures |-> 0, blacklisted |-> FALSE, rejection |-> "none",
            rejectedInRow |-> FALSE, backoff |-> FALSE, excluded |-> FALSE]

(* Pieces restored by try_load_resume from a resume file that tells the     *)
(* truth (DurableDownload says when it does), or none.                      *)
Init ==
    /\ \E verified \in SUBSET Pieces :
          /\ map = FromVerified(verified)
          /\ written = verified
          /\ checkpoint = verified
    /\ mutex = NoWorker
    /\ retries = [i \in Pieces |-> 0]
    /\ lastFailed = [i \in Pieces |-> NoPeer]
    /\ tracker = [p \in Peers |-> NewPeer]
    /\ cancel \in {FALSE, MayCancel}
    /\ fatal = FALSE
    /\ outcome = "running"
    /\ pc = [w \in Workers |-> "check"]
    /\ piece = [w \in Workers |-> 0]
    /\ peer = [w \in Workers |-> NoPeer]
    /\ fault = [w \in Workers |-> "none"]
    /\ cursor = [w \in Workers |-> 0]
    /\ tries = [w \in Workers |-> 0]
    /\ needed = [w \in Workers |-> {}]
    /\ limit = [w \in Workers |-> 0]

Goto(w, from, to) == pc[w] = from /\ pc' = [pc EXCEPT ![w] = to]
AtEnd(w) == cursor[w] = PieceCount
Rewind(w) == cursor' = [cursor EXCEPT ![w] = 0]
Advance(w) == cursor' = [cursor EXCEPT ![w] = @ + 1]
-----------------------------------------------------------------------------
(* The head of the loop: the three reasons to stop.  All three only ever    *)
(* become true, so reading them in turn is reading them at once.            *)
Check(w) ==
    /\ Goto(w, "check", IF cancel \/ IsComplete(map) \/ fatal
                        THEN "exit" ELSE "reset")
    /\ UNCHANGED <<shared, job, progress>>

(* The endgame sweep: take the mutex, fix the retry limit from the number   *)
(* of pieces remaining, then re-queue each Failed piece below the limit.    *)
Remaining == PieceCount - DoneCount(map)
InEndgame == Remaining <= EndgameThreshold
Limit == IF InEndgame THEN 2 * MaxRetries ELSE MaxRetries

EnterReset(w) ==
    /\ pc[w] = "reset" /\ mutex = NoWorker
    /\ mutex' = w
    /\ limit' = [limit EXCEPT ![w] = Limit]
    /\ UNCHANGED <<map, books, flags, file, outcome, pc, job, cursor,
                   tries, needed>>

(* A fault to be caught: a piece is retried once more than its limit.       *)
ResetPieceOneMore(w) ==
    /\ pc[w] = "reset" /\ mutex = w /\ ~AtEnd(w)
    /\ map' = IF retries[cursor[w]] <= limit[w]
              THEN RetryFailed(map, cursor[w]) ELSE map
    /\ Advance(w)
    /\ UNCHANGED <<mutex, books, flags, file, outcome, pc, job, tries,
                   needed, limit>>

ResetPiece(w) ==
    /\ pc[w] = "reset" /\ mutex = w /\ ~AtEnd(w)
    /\ map' = IF retries[cursor[w]] < limit[w]
              THEN RetryFailed(map, cursor[w]) ELSE map
    /\ Advance(w)
    /\ UNCHANGED <<mutex, books, flags, file, outcome, pc, job, tries,
                   needed, limit>>

LeaveReset(w) ==
    /\ AtEnd(w) /\ mutex = w
    /\ Goto(w, "reset", IF Streaming THEN "snapshot" ELSE "scan")
    /\ mutex' = NoWorker
    /\ Rewind(w)
    /\ limit' = [limit EXCEPT ![w] = 0]
    /\ UNCHANGED <<map, books, flags, file, outcome, job, tries, needed>>
-----------------------------------------------------------------------------
(* Claiming i is the same compare-and-swap wherever it is tried.            *)
Claim(w, i, from) ==
    /\ Goto(w, from, "select")
    /\ Claimable(map, i)
    /\ map' = Claimed(map, i)
    /\ piece' = [piece EXCEPT ![w] = i]
    /\ Rewind(w)
    /\ tries' = [tries EXCEPT ![w] = 0]
    /\ needed' = [needed EXCEPT ![w] = {}]
    /\ UNCHANGED <<mutex, books, flags, file, outcome, peer, fault, limit>>

NothingClaimed(w, from) ==
    /\ Goto(w, from, "idle")
    /\ Rewind(w)
    /\ tries' = [tries EXCEPT ![w] = 0]
    /\ needed' = [needed EXCEPT ![w] = {}]
    /\ UNCHANGED <<shared, job, limit>>

(* claim_next_piece_bulk: next_needed loads the map in order and the first  *)
(* Needed piece is tried; a lost race starts the scan again, at most once   *)
(* per piece.                                                               *)
Scan(w) ==
    /\ ~AtEnd(w)
    /\ \/ /\ map[cursor[w]] = "Needed"
          /\ Goto(w, "scan", "cas")
          /\ UNCHANGED cursor
       \/ /\ pc[w] = "scan"
          /\ map[cursor[w]] # "Needed"
          /\ Advance(w)
          /\ UNCHANGED pc
    /\ UNCHANGED <<shared, job, tries, needed, limit>>

ScanFindsNone(w) == AtEnd(w) /\ NothingClaimed(w, "scan")

TryClaim(w) == Claim(w, cursor[w], "cas")

LoseRace(w) ==
    /\ Goto(w, "cas", "scan")
    /\ map[cursor[w]] # "Needed"
    /\ tries[w] + 1 < PieceCount
    /\ tries' = [tries EXCEPT ![w] = @ + 1]
    /\ Rewind(w)
    /\ UNCHANGED <<shared, job, needed, limit>>

LoseLastRace(w) ==
    /\ pc[w] = "cas"
    /\ map[cursor[w]] # "Needed"
    /\ tries[w] + 1 >= PieceCount
    /\ NothingClaimed(w, "cas")
-----------------------------------------------------------------------------
(* claim_next_piece_streaming: a snapshot of the Needed pieces, the best of *)
(* them by rarity and priority, and when that one is lost the others in     *)
(* order.  select_next_piece may find none (no peer has any).               *)
Snapshot(w) ==
    /\ pc[w] = "snapshot" /\ ~AtEnd(w)
    /\ needed' = IF map[cursor[w]] = "Needed"
                 THEN [needed EXCEPT ![w] = @ \cup {cursor[w]}] ELSE needed
    /\ Advance(w)
    /\ UNCHANGED <<shared, pc, job, tries, limit>>

SnapshotTaken(w) ==
    /\ AtEnd(w)
    /\ \/ needed[w] = {} /\ NothingClaimed(w, "snapshot")
       \/ /\ needed[w] # {}
          /\ Goto(w, "snapshot", "pick")
          /\ Rewind(w)
          /\ UNCHANGED <<shared, job, tries, needed, limit>>

Selectable(w) == {i \in needed[w] : \E p \in Peers : i \in Has[p]}

PickBest(w) == \E i \in Selectable(w) : Claim(w, i, "pick")

MissBest(w) ==
    /\ \/ Selectable(w) = {}
       \/ \E i \in Selectable(w) : ~Claimable(map, i)
    /\ Goto(w, "pick", "sweep")
    /\ UNCHANGED <<shared, job, progress>>

Sweep(w) ==
    /\ ~AtEnd(w)
    /\ \/ cursor[w] \in needed[w] /\ Claim(w, cursor[w], "sweep")
       \/ /\ pc[w] = "sweep"
          /\ cursor[w] \in needed[w] => ~Claimable(map, cursor[w])
          /\ Advance(w)
          /\ UNCHANGED <<shared, pc, job, tries, needed, limit>>

SweepFindsNone(w) == AtEnd(w) /\ NothingClaimed(w, "sweep")
-----------------------------------------------------------------------------
(* No piece to claim: stop when complete, or when a scan sees no piece      *)
(* Needed or InFlight; otherwise yield and start over.                      *)
Idle(w) ==
    /\ Goto(w, "idle", IF IsComplete(map) THEN "exit" ELSE "look")
    /\ UNCHANGED <<shared, job, progress>>

Look(w) ==
    /\ pc[w] = "look" /\ ~AtEnd(w)
    /\ map[cursor[w]] \notin {"Needed", "InFlight"}
    /\ Advance(w)
    /\ UNCHANGED <<shared, pc, job, tries, needed, limit>>

Yield(w) ==
    /\ ~AtEnd(w)
    /\ map[cursor[w]] \in {"Needed", "InFlight"}
    /\ Goto(w, "look", "check")
    /\ Rewind(w)
    /\ UNCHANGED <<shared, job, tries, needed, limit>>

GiveUp(w) ==
    /\ AtEnd(w)
    /\ Goto(w, "look", "exit")
    /\ Rewind(w)
    /\ UNCHANGED <<shared, job, tries, needed, limit>>
-----------------------------------------------------------------------------
(* select_peer_with_exclusion.  "open" are the peers not choked, "fast"     *)
(* those above min_peer_speed, at the moment they are asked.                *)
Usable(i, open) ==
    {p \in open : /\ i \in Has[p]
                  /\ ~tracker[p].blacklisted
                  /\ tracker[p].rejection # "permanent"
                  /\ ~tracker[p].excluded}

Primary(i, open, fast) ==
    {p \in Usable(i, open) : /\ p # lastFailed[i]
                             /\ p \in fast
                             /\ ~tracker[p].backoff}

(* The best primary peer, else the best usable one (the last that failed,   *)
(* a slow one or one in backoff), else none.                                *)
Eligible(i, open, fast) ==
    IF Primary(i, open, fast) # {} THEN Primary(i, open, fast)
                                   ELSE Usable(i, open)

Moods == {(Peers \ Fluctuates) \cup some : some \in SUBSET Fluctuates}

SelectPeer(w) ==
    /\ mutex = NoWorker
    /\ Goto(w, "select", "fetch")
    /\ \E open, fast \in Moods : \E p \in Eligible(piece[w], open, fast) :
          peer' = [peer EXCEPT ![w] = p]
    /\ UNCHANGED <<shared, piece, fault, progress>>

(* No eligible peer: the piece is marked Failed inside the critical section *)
(* and its retry is counted in the next one ("book").                       *)
NoEligiblePeer(w) ==
    /\ mutex = NoWorker
    /\ Goto(w, "select", "book")
    /\ \E open, fast \in Moods : Eligible(piece[w], open, fast) = {}
    /\ map' = MarkedFailed(map, piece[w])
    /\ fault' = [fault EXCEPT ![w] = "nopeer"]
    /\ UNCHANGED <<mutex, books, flags, file, outcome, piece, peer,
                   progress>>

(* A fault to be caught: the piece is marked before it is written.           *)
FetchGoodMarksFirst(w) ==
    /\ Goto(w, "fetch", "mark")
    /\ "good" \in Answers[peer[w]]
    /\ UNCHANGED <<shared, job, progress>>

(* peer.fetch_piece, with no lock held, and verify_piece on what it returns. *)
FetchGood(w) ==
    /\ Goto(w, "fetch", "write")
    /\ "good" \in Answers[peer[w]]
    /\ UNCHANGED <<shared, job, progress>>

(* Wrong bytes or an error: mark_failed before the lock is taken.            *)
FetchBad(w) ==
    /\ Goto(w, "fetch", "book")
    /\ \E f \in Outcomes \ {"good"} :
          f \in Answers[peer[w]] /\ fault' = [fault EXCEPT ![w] = f]
    /\ map' = MarkedFailed(map, piece[w])
    /\ UNCHANGED <<mutex, books, flags, file, outcome, piece, peer,
                   progress>>

(* storage.write_piece *)
WritePiece(w) ==
    /\ Goto(w, "write", "mark")
    /\ written' = written \cup {piece[w]}
    /\ UNCHANGED <<map, mutex, books, flags, checkpoint, outcome, job,
                   progress>>

(* A fault to be caught: a worker that fails to write just leaves.           *)
WriteFailsSilently(w) ==
    /\ StorageFails
    /\ Goto(w, "write", "exit")
    /\ UNCHANGED <<shared, job, progress>>

(* A storage error: the cancel flag, then fatal_error, then leave the loop  *)
(* with the piece still InFlight.                                           *)
WriteFails(w) ==
    /\ StorageFails
    /\ Goto(w, "write", "raise")
    /\ UNCHANGED <<shared, job, progress>>

RaiseCancel(w) ==
    /\ Goto(w, "raise", "abort")
    /\ cancel' = TRUE
    /\ UNCHANGED <<map, mutex, books, fatal, file, outcome, job, progress>>

RecordFatal(w) ==
    /\ Goto(w, "abort", "exit")
    /\ fatal' = TRUE
    /\ UNCHANGED <<map, mutex, books, cancel, file, outcome, job, progress>>

MarkDone(w) ==
    /\ Goto(w, "mark", "success")
    /\ map' = MarkedDone(map, piece[w])
    /\ UNCHANGED <<mutex, books, flags, file, outcome, job, progress>>
-----------------------------------------------------------------------------
(* The critical sections that end an iteration.                             *)
Forget(w) ==
    /\ piece' = [piece EXCEPT ![w] = 0]
    /\ peer' = [peer EXCEPT ![w] = NoPeer]
    /\ fault' = [fault EXCEPT ![w] = "none"]

(* A fault to be caught: the checkpoint lists this worker's piece alone.     *)
HandleSuccessSavesOwn(w) ==
    /\ mutex = NoWorker
    /\ Goto(w, "success", "check")
    /\ tracker' = [tracker EXCEPT ![peer[w]].rejectedInRow = FALSE,
                                  ![peer[w]].backoff = FALSE]
    /\ checkpoint' = {piece[w]}
    /\ Forget(w)
    /\ UNCHANGED <<map, mutex, retries, lastFailed, flags, written,
                   outcome, progress>>

(* handle_piece_success: record_success ends a run of rejections (and with  *)
(* it the backoff), and the checkpoint is saved from the map as it is now;  *)
(* an error in saving it is ignored.                                        *)
HandleSuccess(w) ==
    /\ mutex = NoWorker
    /\ Goto(w, "success", "check")
    /\ tracker' = [tracker EXCEPT ![peer[w]].rejectedInRow = FALSE,
                                  ![peer[w]].backoff = FALSE]
    /\ \/ checkpoint' = DonePieces(map)
       \/ SavesFail /\ UNCHANGED checkpoint
    /\ Forget(w)
    /\ UNCHANGED <<map, mutex, retries, lastFailed, flags, written,
                   outcome, progress>>

(* record_rejection keeps the last rejection and whether one was transient  *)
(* since the last success; every failure renews the moment the backoff      *)
(* counts from.                                                             *)
Failing(t, f) ==
    LET last == IF f \in Rejections THEN f ELSE t.rejection
        row  == t.rejectedInRow \/ f = "transient"
    IN [t EXCEPT !.rejection = last, !.rejectedInRow = row,
                 !.backoff = last = "transient" /\ row]

(* handle_hash_failure: the whole piece came from one peer, so blame        *)
(* analysis always escalates and the peer is excluded for a time; it is     *)
(* blacklisted for good at max_peer_failures.                               *)
Corrupting(t) ==
    LET n == t.failures + 1
    IN [Failing(t, "corrupt") EXCEPT
          !.failures = n,
          !.excluded = TRUE,
          !.blacklisted = @ \/ (MaxPeerFailures > 0 /\ n >= MaxPeerFailures)]

(* handle_hash_failure, handle_fetch_failure, and the count of a piece no   *)
(* peer could serve, which blames nobody.                                   *)
HandleFailure(w) ==
    /\ mutex = NoWorker
    /\ Goto(w, "book", "check")
    /\ retries' = [retries EXCEPT ![piece[w]] = @ + 1]
    /\ \/ fault[w] = "nopeer" /\ UNCHANGED <<lastFailed, tracker>>
       \/ /\ fault[w] # "nopeer"
          /\ lastFailed' = [lastFailed EXCEPT ![piece[w]] = peer[w]]
          /\ tracker' = [tracker EXCEPT ![peer[w]] =
                           IF fault[w] = "corrupt" THEN Corrupting(@)
                                                   ELSE Failing(@, fault[w])]
    /\ Forget(w)
    /\ UNCHANGED <<map, mutex, flags, file, outcome, progress>>
-----------------------------------------------------------------------------
(* The scope is left when every worker has exited; the rest of run decides  *)
(* what it returns, in the order of the code.                               *)
Joined == \A w \in Workers : pc[w] = "exit"

Return(result) ==
    /\ Joined /\ outcome = "running"
    /\ outcome' = result
    /\ UNCHANGED <<map, mutex, books, flags, written, locals>>

ReturnStorageError == fatal /\ Return("storage") /\ UNCHANGED checkpoint

ReturnCancelled == ~fatal /\ cancel /\ Return("cancelled") /\ UNCHANGED checkpoint

(* A piece is reported as failed only when one is Failed: a map that is     *)
(* neither complete nor has a Failed piece would go on to success.          *)
SomeFailed == \E i \in Pieces : map[i] = "Failed"

ReturnAllPeersFailed ==
    ~fatal /\ ~cancel /\ SomeFailed /\ Return("failed") /\ UNCHANGED checkpoint

FlushFails ==
    /\ ~fatal /\ ~cancel /\ ~SomeFailed /\ StorageFails
    /\ Return("storage") /\ UNCHANGED checkpoint

ReturnOk ==
    /\ ~fatal /\ ~cancel /\ ~SomeFailed
    /\ Return("ok")
    /\ checkpoint' = {}
-----------------------------------------------------------------------------
(* The environment: the caller, and the clock.                              *)
Cancel ==
    /\ MayCancel /\ ~cancel /\ outcome = "running"
    /\ cancel' = TRUE
    /\ UNCHANGED <<map, mutex, books, fatal, file, outcome, locals>>

(* A backoff or an exclusion of a peer runs out (should_back_off and         *)
(* is_excluded compare the clock with a deadline).                          *)
Elapse(p) ==
    /\ outcome = "running"
    /\ \/ tracker[p].backoff /\ tracker' = [tracker EXCEPT ![p].backoff = FALSE]
       \/ tracker[p].excluded /\ tracker' = [tracker EXCEPT ![p].excluded = FALSE]
    /\ UNCHANGED <<map, mutex, retries, lastFailed, flags, file,
                   outcome, locals>>

Work(w) ==
    \/ Check(w) \/ EnterReset(w) \/ ResetPiece(w) \/ LeaveReset(w)
    \/ Scan(w) \/ ScanFindsNone(w) \/ TryClaim(w) \/ LoseRace(w) \/ LoseLastRace(w)
    \/ Snapshot(w) \/ SnapshotTaken(w) \/ PickBest(w) \/ MissBest(w)
    \/ Sweep(w) \/ SweepFindsNone(w)
    \/ Idle(w) \/ Look(w) \/ Yield(w) \/ GiveUp(w)
    \/ SelectPeer(w) \/ NoEligiblePeer(w) \/ FetchGood(w) \/ FetchBad(w)
    \/ WritePiece(w) \/ WriteFails(w) \/ RaiseCancel(w) \/ RecordFatal(w)
    \/ MarkDone(w) \/ HandleSuccess(w) \/ HandleFailure(w)

Main == ReturnStorageError \/ ReturnCancelled \/ ReturnAllPeersFailed
        \/ FlushFails \/ ReturnOk

Stopped == outcome # "running" /\ UNCHANGED vars

Next ==
    \/ \E w \in Workers : Work(w)
    \/ Main
    \/ Cancel
    \/ \E p \in Peers : Elapse(p)
    \/ Stopped

Spec == Init /\ [][Next]_vars

(* Every thread is scheduled and a fetch returns (peers time out): a        *)
(* worker that can step does.  A worker waiting for the mutex gets it if it *)
(* is released again and again.  The caller and the clock owe nothing.      *)
Acquire(w) == EnterReset(w) \/ SelectPeer(w) \/ NoEligiblePeer(w)
              \/ HandleSuccess(w) \/ HandleFailure(w)

Fairness == /\ WF_vars(Main)
            /\ \A w \in Workers : WF_vars(Work(w)) /\ SF_vars(Acquire(w))

FairSpec == Spec /\ Fairness
-----------------------------------------------------------------------------
Tracked == [failures : Nat, blacklisted : BOOLEAN,
            rejection : Rejections \cup {"none"}, rejectedInRow : BOOLEAN,
            backoff : BOOLEAN, excluded : BOOLEAN]

(* Every variable has the shape the Rust types give it.                     *)
TypeOK ==
    /\ map \in [Pieces -> PieceState]
    /\ mutex \in Workers \cup {NoWorker}
    /\ retries \in [Pieces -> Nat]
    /\ lastFailed \in [Pieces -> Peers \cup {NoPeer}]
    /\ tracker \in [Peers -> Tracked]
    /\ cancel \in BOOLEAN /\ fatal \in BOOLEAN
    /\ written \in SUBSET Pieces /\ checkpoint \in SUBSET Pieces
    /\ outcome \in {"running", "storage", "cancelled", "failed", "ok"}
    /\ pc \in [Workers -> Labels]
    /\ piece \in [Workers -> Nat]
    /\ peer \in [Workers -> Peers \cup {NoPeer}]
    /\ fault \in [Workers -> Outcomes \cup {"none", "nopeer"}]
    /\ cursor \in [Workers -> 0 .. PieceCount]
    /\ tries \in [Workers -> Nat]
    /\ needed \in [Workers -> SUBSET Pieces]
    /\ limit \in [Workers -> Nat]

(* No two workers hold the same piece, and a piece stays InFlight for as    *)
(* long as it is held: the plain stores of mark_done and mark_failed never  *)
(* overwrite another worker's claim ("no two threads claim the same piece").*)
OneHolder ==
    \A w \in Workers : pc[w] \in Holding =>
        /\ piece[w] \in Pieces
        /\ map[piece[w]] = "InFlight"
        /\ \A v \in Workers \ {w} : pc[v] \in Holding => piece[v] # piece[w]

(* A piece is Done, or in the resume file, only after its verified bytes    *)
(* went to the storage; no interleaving of writes, marks and checkpoints    *)
(* makes the map or the file run ahead of the data.                         *)
DoneIsWritten == checkpoint \subseteq DonePieces(map) /\ DonePieces(map) \subseteq written

(* run returns Ok only with every piece Done and written, although its last *)
(* test looks for a Failed piece and would let an InFlight or Needed one    *)
(* left behind by an exiting worker go by.                                  *)
SuccessIsComplete == outcome = "ok" => IsComplete(map) /\ written = Pieces

(* AllPeersFailed is the truth: workers leave early when they see nothing   *)
(* Needed or InFlight, yet whoever leaves last has found every remaining    *)
(* piece out of retries, at the limit of the map as it was left.            *)
GiveUpIsExhausted ==
    outcome = "failed" =>
        \A i \in Pieces : map[i] # "Done" =>
            map[i] = "Failed" /\ retries[i] >= Limit

(* The failures a piece can meet are bounded although a worker marks the    *)
(* piece Failed before it counts the failure: those not counted yet are at  *)
(* most one per other worker.  Without retries there is no second attempt.  *)
Booking(i) == {w \in Workers : pc[w] = "book" /\ piece[w] = i}

MostRetries == IF EndgameThreshold = 0 THEN MaxRetries ELSE 2 * MaxRetries

MostFailures ==
    IF MostRetries = 0 THEN 1 ELSE MostRetries + Cardinality(Workers) - 1

Failures(i) == retries[i] + Cardinality(Booking(i))

FailuresBounded == \A i \in Pieces : Failures(i) <= MostFailures

(* A peer that serves corrupt pieces is cut off at max_peer_failures, with  *)
(* at most one more mismatch per worker that was already fetching from it.  *)
CorruptionBounded ==
    MaxPeerFailures > 0 =>
        \A p \in Peers :
            /\ tracker[p].failures < MaxPeerFailures + Cardinality(Workers)
            /\ tracker[p].failures >= MaxPeerFailures <=> tracker[p].blacklisted

(* The limits of retries and of bad peers mean what they say, although the  *)
(* books lag behind the map (reset of failed pieces, record_failure).       *)
LimitsAreKept == GiveUpIsExhausted /\ FailuresBounded /\ CorruptionBounded

(* When the workers have left, the resume file lists every Done piece (if   *)
(* no save failed): pieces are marked outside the mutex, but each save      *)
(* reads the map inside it and the last one sees all.                       *)
CheckpointCatchesUp ==
    Joined /\ outcome = "running" /\ ~SavesFail => checkpoint = DonePieces(map)

(* The resume file only gains pieces, whichever worker saves it, and has    *)
(* them all in the end.                                                     *)
RecordKeepsUp ==
    [][CheckpointCatchesUp' /\ (checkpoint \subseteq checkpoint' \/ outcome' = "ok")]_vars

(* The download is a PieceLifecycle: threads, peers and retries change      *)
(* nothing of what a piece goes through.                                    *)
Lifecycle == INSTANCE PieceLifecycle WITH
    outcome <- IF outcome \in {"running", "ok"} THEN outcome ELSE "error"
LifecycleSpec == Lifecycle!Spec

(* run returns: a cancelled download drains, a failing one gives up, and no *)
(* worker spins for ever on a piece nobody holds.                           *)
Returns == <>(outcome # "running")
=============================================================================
