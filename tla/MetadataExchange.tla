-------------------------- MODULE MetadataExchange --------------------------
(***************************************************************************)
(* MetadataExchange (p2p-distribute, metadata_exchange.rs): the metadata   *)
(* of a torrent is fetched block by block from peers that may lie, reject, *)
(* fall silent or answer late.  Sizes are counted in blocks; the hash is   *)
(* right when the size is and every block is.  No caller is in the code:   *)
(* the one here asks for the next block that is needed, gives a block up   *)
(* with handle_reject when its answer is an error or does not come in      *)
(* time, and verifies when all blocks are there.                           *)
(***************************************************************************)
EXTENDS Naturals, FiniteSetsExt

CONSTANTS
    TrueSize,           \* of the metadata
    Claims,             \* the sizes that peers claim
    MaxMetadataSize,    \* MAX_METADATA_SIZE
    Slots,              \* requests that may be under way at a time
    MaxMisdeeds         \* bound: wrong answers, rejections and silences

VARIABLES
    size,       \* metadata_size, 0 for None
    blocks,     \* status of every block
    buffer,     \* whether a block of the buffer is right
    verified,
    requests,   \* of every slot, the block asked for and whether it was given up
    misdeeds

metadataVars == <<size, blocks, buffer, verified, requests, misdeeds>>

Free == [piece |-> 0, late |-> FALSE]

ExchangeInit ==
    /\ size = 0 /\ blocks = <<>> /\ buffer = <<>>
    /\ verified = FALSE
    /\ requests = [s \in Slots |-> Free]
    /\ misdeeds = 0

Needed == {p \in DOMAIN blocks : blocks[p] = "Missing"}
AllReceived == size > 0 /\ \A p \in DOMAIN blocks : blocks[p] = "Received"

Misdeed == misdeeds < MaxMisdeeds /\ misdeeds' = misdeeds + 1
Done(s) == requests' = [requests EXCEPT ![s] = Free]

(* next_needed_block and mark_pending; before a size is known the first     *)
(* block is asked for.                                                      *)
Request(s) ==
    /\ requests[s] = Free /\ ~verified
    /\ \/ /\ size = 0
          /\ requests' = [requests EXCEPT ![s].piece = 1]
          /\ UNCHANGED blocks
       \/ /\ Needed # {}
          /\ requests' = [requests EXCEPT ![s].piece = Min(Needed)]
          /\ blocks' = [blocks EXCEPT ![Min(Needed)] = "Pending"]
    /\ UNCHANGED <<size, buffer, verified, misdeeds>>

(* handle_reject. *)
HandleReject(p) ==
    blocks' = [q \in DOMAIN blocks |->
                  IF q = p /\ blocks[q] = "Pending" THEN "Missing" ELSE blocks[q]]

(* set_metadata_size, by the first Data message.                            *)
Learns(claim) == size = 0 /\ claim \in 1 .. MaxMetadataSize
Known(claim) == IF Learns(claim) THEN claim ELSE size

(* receive_block: a block is taken whatever its status is.                  *)
Receive(p, claim, right) ==
    LET fresh == Learns(claim)
        known == Known(claim)
    IN  /\ claim = known /\ p <= known
        /\ size' = known
        /\ blocks' = [q \in 1 .. known |-> IF q = p THEN "Received"
                                           ELSE IF fresh THEN "Missing" ELSE blocks[q]]
        /\ buffer' = [q \in 1 .. known |-> IF q = p THEN right
                                           ELSE IF fresh THEN FALSE ELSE buffer[q]]

(* receive_block returns an error, for the size, the index or the length;   *)
(* what it learnt from the message before it keeps.                         *)
Refused(p, claim) ==
    IF Learns(claim)
    THEN /\ size' = claim
         /\ blocks' = [q \in 1 .. claim |-> "Missing"]
         /\ buffer' = [q \in 1 .. claim |-> FALSE]
    ELSE HandleReject(p) /\ UNCHANGED <<size, buffer>>

GoodData(s) ==
    LET p == requests[s].piece IN
    /\ p # 0
    /\ IF size \in {0, TrueSize} THEN Receive(p, TrueSize, TRUE) ELSE Refused(p, TrueSize)
    /\ Done(s)
    /\ UNCHANGED <<verified, misdeeds>>

(* Wrong bytes, or another size, or a length that is not the block's.       *)
BadData(s, claim) ==
    LET p == requests[s].piece IN
    /\ p # 0 /\ Misdeed
    /\ Receive(p, claim, FALSE) \/ Refused(p, claim)
    /\ Done(s)
    /\ UNCHANGED verified

Rejected(s) ==
    /\ requests[s].piece # 0 /\ Misdeed
    /\ HandleReject(requests[s].piece)
    /\ Done(s)
    /\ UNCHANGED <<size, buffer, verified>>

(* The answer does not come in time; it may come later, or not at all.      *)
TimesOut(s) ==
    /\ requests[s].piece # 0 /\ ~requests[s].late /\ Misdeed
    /\ HandleReject(requests[s].piece)
    /\ \/ Done(s)
       \/ requests' = [requests EXCEPT ![s].late = TRUE]
    /\ UNCHANGED <<size, buffer, verified>>

(* A slip: the blocks of metadata that is wrong stay as they are.           *)
VerifyKeepingBlocks ==
    /\ AllReceived /\ ~verified
    /\ verified' = (size = TrueSize /\ \A p \in DOMAIN buffer : buffer[p])
    /\ UNCHANGED <<size, blocks, buffer, requests, misdeeds>>

(* verify: when the hash is wrong every block is missing again.             *)
Verify ==
    /\ AllReceived /\ ~verified
    /\ verified' = (size = TrueSize /\ \A p \in DOMAIN buffer : buffer[p])
    /\ blocks' = IF verified' THEN blocks ELSE [p \in DOMAIN blocks |-> "Missing"]
    /\ UNCHANGED <<size, buffer, requests, misdeeds>>

Settled == verified /\ (\A s \in Slots : requests[s] = Free) /\ UNCHANGED metadataVars

ExchangeNext ==
    \/ \E s \in Slots : \/ Request(s) \/ GoodData(s) \/ Rejected(s) \/ TimesOut(s)
                        \/ \E claim \in Claims : BadData(s, claim)
    \/ Verify
    \/ Settled

(* The caller goes on, and every request has an end.                        *)
Progress(s) == Request(s) \/ GoodData(s)

ExchangeSpec ==
    /\ ExchangeInit /\ [][ExchangeNext]_metadataVars
    /\ WF_metadataVars(Verify)
    /\ \A s \in Slots : WF_metadataVars(Progress(s))
-----------------------------------------------------------------------------
(* Wrong blocks, rejections, silences and late answers delay the metadata   *)
(* and do not keep it away, if only the size that was claimed first is      *)
(* right: no block is left pending for ever, and wrong blocks go.           *)
MetadataArrives == <>(size \notin {0, TrueSize}) \/ <>verified
=============================================================================
