------------------------------ MODULE PieceMap ------------------------------
(***************************************************************************)
(* The data type of p2p-distribute's piece_map.rs: one atomic state per    *)
(* piece, indexed from 0.  The operators are the values the methods of     *)
(* SharedPieceMap compute; the modules that own a map say which thread     *)
(* performs them and when.                                                 *)
(***************************************************************************)
EXTENDS Naturals, FiniteSets

CONSTANT PieceCount

ASSUME PieceCountAssumption == PieceCount \in Nat

Pieces == 0 .. PieceCount - 1

PieceState == {"Needed", "InFlight", "Done", "Failed"}

(* SharedPieceMap::from_verified: verified pieces start Done, the rest      *)
(* Needed (SharedPieceMap::new is the case of no verified piece).           *)
FromVerified(verified) ==
    [i \in Pieces |-> IF i \in verified THEN "Done" ELSE "Needed"]

DonePieces(map) == {i \in Pieces : map[i] = "Done"}

(* SharedPieceMap::done_count and is_complete.  A Done piece stays Done, so *)
(* the sequential scan of the code returns the count of some instant of it. *)
DoneCount(map) == Cardinality(DonePieces(map))

IsComplete(map) == DonePieces(map) = Pieces

(* A fault to be caught: a claim that is a plain store takes any piece that  *)
(* is not Done.                                                             *)
ClaimableByStore(map, i) == map[i] # "Done"

(* try_claim: the compare-and-swap Needed -> InFlight; it fails on an index *)
(* out of range.                                                            *)
Claimable(map, i) == i \in Pieces /\ map[i] = "Needed"
Claimed(map, i) == [map EXCEPT ![i] = "InFlight"]

(* mark_done and mark_failed are plain stores: they do not look at the      *)
(* state they overwrite.                                                    *)
MarkedDone(map, i) == [map EXCEPT ![i] = "Done"]
MarkedFailed(map, i) == [map EXCEPT ![i] = "Failed"]

(* retry_failed: the compare-and-swap Failed -> Needed.                     *)
RetryFailed(map, i) ==
    IF map[i] = "Failed" THEN [map EXCEPT ![i] = "Needed"] ELSE map
=============================================================================
