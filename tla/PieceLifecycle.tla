--------------------------- MODULE PieceLifecycle ---------------------------
(***************************************************************************)
(* What a piece download promises, without threads, peers or locks: a      *)
(* piece walks the diagram of PieceState (piece_map.rs)                     *)
(*                                                                         *)
(*     Needed -> InFlight -> Done                                          *)
(*                  |                                                      *)
(*                  +------> Failed -> Needed                              *)
(*                                                                         *)
(* its verified bytes are written while it is InFlight and before it is    *)
(* Done, and the download ends well only when every piece is Done.         *)
(***************************************************************************)
EXTENDS PieceMap

VARIABLES map,      \* the state of every piece
          written,  \* pieces whose verified bytes are in the output file
          outcome   \* "running", "ok" or "error"

vars == <<map, written, outcome>>

Init ==
    \E verified \in SUBSET Pieces :
        /\ map = FromVerified(verified)
        /\ written = verified
        /\ outcome = "running"

Claim(i) ==
    /\ Claimable(map, i)
    /\ map' = Claimed(map, i)
    /\ UNCHANGED <<written, outcome>>

Store(i) ==
    /\ map[i] = "InFlight"
    /\ written' = written \cup {i}
    /\ UNCHANGED <<map, outcome>>

Complete(i) ==
    /\ map[i] = "InFlight"
    /\ i \in written
    /\ map' = MarkedDone(map, i)
    /\ UNCHANGED <<written, outcome>>

Fail(i) ==
    /\ map[i] = "InFlight"
    /\ map' = MarkedFailed(map, i)
    /\ UNCHANGED <<written, outcome>>

Retry(i) ==
    /\ map[i] = "Failed"
    /\ map' = RetryFailed(map, i)
    /\ UNCHANGED <<written, outcome>>

(* A download may end with an error at any time (cancelled, a storage       *)
(* error, a piece out of retries), and well only when it is complete.       *)
Finish ==
    /\ outcome = "running"
    /\ \/ outcome' = "error"
       \/ IsComplete(map) /\ outcome' = "ok"
    /\ UNCHANGED <<map, written>>

PieceStep(i) == Claim(i) \/ Store(i) \/ Complete(i) \/ Fail(i) \/ Retry(i)

Next == Finish \/ \E i \in Pieces : outcome = "running" /\ PieceStep(i)

Spec == Init /\ [][Next]_vars
=============================================================================
