------------------------------ MODULE SuperSeed -----------------------------
(***************************************************************************)
(* SuperSeedState (p2p-distribute, superseeding.rs): the only seed shows   *)
(* every peer a few pieces, so that the swarm soon has them all.  The age  *)
(* of an offer stops growing when it has expired.                          *)
(***************************************************************************)
EXTENDS Naturals, FiniteSets, SequencesExt

CONSTANTS
    PieceCount,     \* piece_count
    SeedPeers,
    MaxSeedPeers,   \* MAX_SUPER_SEED_PEERS
    OfferAge,       \* OFFER_TIMEOUT
    SpreadAt,       \* PROPAGATION_THRESHOLD
    MaxOffers       \* bound: offers in the list

VARIABLES
    offers,         \* Vec<PieceOffer>
    propagation,    \* have-messages seen, per piece
    registered,     \* peers
    offeredPieces,  \* offered_pieces
    shown           \* history: the pieces ever offered

seedVars == <<offers, propagation, registered, offeredPieces, shown>>

SeedPieces == 0 .. PieceCount - 1

SeedInit ==
    /\ offers = <<>> /\ registered = {} /\ offeredPieces = {} /\ shown = {}
    /\ propagation = [p \in SeedPieces |-> 0]

IsExpired(o) == o.age > OfferAge

(* register_peer. *)
RegisterPeer(peer) ==
    /\ peer \notin registered /\ Cardinality(registered) < MaxSeedPeers
    /\ registered' = registered \cup {peer}
    /\ UNCHANGED <<offers, propagation, offeredPieces, shown>>

(* Vec::retain: the offers at these places stay, in their order.            *)
Retain(places) ==
    \E from \in [1 .. Cardinality(places) -> places] :
        /\ \A i, j \in DOMAIN from : i < j => from[i] < from[j]
        /\ offers' = [i \in 1 .. Cardinality(places) |-> offers[from[i]]]

(* A slip: what the peer was offered counts as never offered.               *)
RemovePeerForgetting(peer) ==
    /\ peer \in registered
    /\ registered' = registered \ {peer}
    /\ Retain({i \in DOMAIN offers : offers[i].peer # peer})
    /\ offeredPieces' = offeredPieces
          \ {o.piece : o \in {x \in ToSet(offers) : x.peer = peer /\ ~x.requested}}
    /\ UNCHANGED <<propagation, shown>>

(* remove_peer: its offers go, what it was offered stays offered.           *)
RemovePeer(peer) ==
    /\ peer \in registered
    /\ registered' = registered \ {peer}
    /\ Retain({i \in DOMAIN offers : offers[i].peer # peer})
    /\ UNCHANGED <<propagation, offeredPieces, shown>>

AlreadyOffered(peer) ==
    {o.piece : o \in {x \in ToSet(offers) : x.peer = peer /\ ~IsExpired(x)}}

(* The first piece with the least propagation that is not already offered.  *)
LeastSpread(peer) ==
    LET candidates == SeedPieces \ AlreadyOffered(peer)
    IN  {p \in candidates : \A q \in candidates :
            propagation[p] < propagation[q] \/ (propagation[p] = propagation[q] /\ p <= q)}

(* select_piece_for: the first piece nobody was offered, else the one that  *)
(* spread least.                                                            *)
SelectPieceFor(peer) ==
    LET fresh == SeedPieces \ offeredPieces
        first == {p \in fresh : \A q \in fresh : p <= q}
    IN  IF first # {} /\ first \cap AlreadyOffered(peer) = {} THEN first
        ELSE LeastSpread(peer)

(* record_offer. *)
Offer(peer) ==
    /\ peer \in registered /\ Len(offers) < MaxOffers
    /\ \E p \in SelectPieceFor(peer) :
          /\ offers' = Append(offers,
                [piece |-> p, peer |-> peer, age |-> 0, requested |-> FALSE])
          /\ offeredPieces' = offeredPieces \cup {p}
          /\ shown' = shown \cup {p}
    /\ UNCHANGED <<propagation, registered>>

(* mark_requested: the first such offer, expired or not.                    *)
MarkRequested(piece, peer) ==
    LET match == {i \in DOMAIN offers : offers[i].piece = piece /\ offers[i].peer = peer}
    IN  /\ \E i \in match : /\ \A j \in match : i <= j
                            /\ offers' = [offers EXCEPT ![i].requested = TRUE]
        /\ UNCHANGED <<propagation, registered, offeredPieces, shown>>

(* record_peer_has_piece counts messages; whose they are it is not told.    *)
RecordPeerHasPiece(piece, peer) ==
    /\ peer \in registered
    /\ propagation' = [propagation EXCEPT ![piece] = IF @ < SpreadAt THEN @ + 1 ELSE @]
    /\ UNCHANGED <<offers, registered, offeredPieces, shown>>

CleanupExpired ==
    /\ Retain({i \in DOMAIN offers : ~IsExpired(offers[i])})
    /\ UNCHANGED <<propagation, registered, offeredPieces, shown>>

SeedTick ==
    /\ offers' = [i \in DOMAIN offers |->
                     [offers[i] EXCEPT !.age = IF @ <= OfferAge THEN @ + 1 ELSE @]]
    /\ UNCHANGED <<propagation, registered, offeredPieces, shown>>

SeedNext ==
    \/ \E peer \in SeedPeers :
          \/ RegisterPeer(peer) \/ RemovePeer(peer) \/ Offer(peer)
          \/ \E p \in SeedPieces : MarkRequested(p, peer) \/ RecordPeerHasPiece(p, peer)
    \/ CleanupExpired \/ SeedTick

SeedSpec == SeedInit /\ [][SeedNext]_seedVars

-----------------------------------------------------------------------------
(* A piece is offered to a second peer only when every piece has been       *)
(* offered to one, and no peer is offered what it has an open offer for     *)
(* (select_piece_for, whatever peers come, go and let offers expire).       *)
DiversityFirst ==
    [][Len(offers') > Len(offers) =>
          LET new == offers'[Len(offers')]
          IN  /\ new.piece \notin AlreadyOffered(new.peer)
              /\ new.piece \in shown => shown = SeedPieces]_seedVars
=============================================================================
