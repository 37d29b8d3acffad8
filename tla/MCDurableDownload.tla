------------------------- MODULE MCDurableDownload -------------------------
(***************************************************************************)
(* Instances of DurableDownload for TLC: which storage is used, what may   *)
(* go wrong, and a history variable for what a run took on trust.          *)
(***************************************************************************)
EXTENDS DurableDownload

OrdinaryTrouble == {"crash", "cancel", "error", "save"}
Anything == AllHazards
OnlyCancel == {"cancel"}
OnlyReverify == {"cancel", "reverify"}

(* The pieces that were Done when the run under way began.                  *)
VARIABLE trusted

TrustInit == Init /\ trusted = {}
TrustNext ==
    /\ Next
    /\ trusted' = IF session # "running" /\ session' = "running" THEN done' ELSE trusted
TrustSpec == TrustInit /\ [][TrustNext]_<<vars, trusted>>

(* Whatever happened before and however the writes were buffered: when run  *)
(* returns Ok, every piece it did not take over from the resume file or an  *)
(* earlier run is in the output file and synced (the final flush and        *)
(* CoalescingStorage's).                                                    *)
OwnPiecesAreDurable ==
    session = "ended" /\ result = "ok" =>
        Pieces \ trusted \subseteq output.seen \cap output.synced

(* What was downloaded is neither lost by a run that ends Ok nor, once on  *)
(* record, downloaded a second time (load_checkpoint).                     *)
WorkIsKept == [][OwnPiecesAreDurable']_<<vars, trusted>> /\ NothingTwice
=============================================================================
