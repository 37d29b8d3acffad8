------------------------------ MODULE Tiering -------------------------------
(***************************************************************************)
(* TieringStorage (p2p-distribute, tiering.rs): pieces on two storages,    *)
(* with callers that write, read and demote at the same time.  The state   *)
(* is locked when it is looked at and when it is changed, not in between,  *)
(* so that every access to a storage is a step of its own.  A storage      *)
(* holds, of a piece, the blocks that are there; what is written to a      *)
(* piece is always the same verified data.                                 *)
(***************************************************************************)
EXTENDS FiniteSets, Naturals

CONSTANTS
    TierPieces, Blocks,     \* the pieces and the blocks of one
    Users,                  \* threads
    MaxErrors               \* how many accesses to a storage fail

VARIABLES
    hot, cold,      \* of each piece, the blocks that are on that storage
    tiers,          \* TieringState.tiers, "none" where there is no entry
    op,             \* of each thread, what it does and knows
    errors,         \* accesses that failed
    answer          \* of each thread, what its last read was to bring and brought

tierVars == <<hot, cold, tiers, op, errors, answer>>

Idle == [pc |-> "idle", piece |-> 0, blocks |-> {}, data |-> {}]
NoAnswer == [asked |-> {}, got |-> {}]

TieringInit ==
    /\ hot = [p \in TierPieces |-> {}]
    /\ cold = [p \in TierPieces |-> {}]
    /\ tiers = [p \in TierPieces |-> "none"]
    /\ op = [u \in Users |-> Idle]
    /\ errors = 0
    /\ answer = [u \in Users |-> NoAnswer]

Goto(u, pc) == op' = [op EXCEPT ![u].pc = pc]
Return(u) == op' = [op EXCEPT ![u] = Idle]

(* The storage at hand returns an error, and so does the operation.         *)
Fails(u) ==
    /\ errors < MaxErrors
    /\ errors' = errors + 1
    /\ Return(u)
    /\ UNCHANGED <<hot, cold, tiers, answer>>
-----------------------------------------------------------------------------
(* write_piece: the hot storage, then the state.                            *)
WriteBegins(u, p) ==
    /\ op[u].pc = "idle"
    /\ op' = [op EXCEPT ![u] = [Idle EXCEPT !.pc = "write", !.piece = p]]
    /\ UNCHANGED <<hot, cold, tiers, errors, answer>>

WriteHot(u) ==
    /\ op[u].pc = "write"
    /\ \/ /\ hot' = [hot EXCEPT ![op[u].piece] = Blocks]
          /\ Goto(u, "written")
          /\ UNCHANGED <<cold, tiers, errors, answer>>
       \/ Fails(u)

WriteEnds(u) ==
    /\ op[u].pc = "written"
    /\ tiers' = [tiers EXCEPT ![op[u].piece] = "hot"]
    /\ Return(u)
    /\ UNCHANGED <<hot, cold, errors, answer>>
-----------------------------------------------------------------------------
(* demote, of a piece that coldest_pieces named while it was hot.           *)
DemoteBegins(u, p) ==
    /\ op[u].pc = "idle" /\ tiers[p] = "hot"
    /\ op' = [op EXCEPT ![u] = [Idle EXCEPT !.pc = "demote", !.piece = p]]
    /\ UNCHANGED <<hot, cold, tiers, errors, answer>>

DemoteReads(u) ==
    LET p == op[u].piece IN
    /\ op[u].pc = "demote"
    /\ IF tiers[p] = "cold" THEN Return(u)
       ELSE op' = [op EXCEPT ![u].pc = "copy"]
    /\ UNCHANGED <<hot, cold, tiers, errors, answer>>

DemoteCopies(u) ==
    /\ op[u].pc = "copy"
    /\ \/ /\ op' = [op EXCEPT ![u].pc = "move", ![u].data = hot[op[u].piece]]
          /\ UNCHANGED <<hot, cold, tiers, errors, answer>>
       \/ Fails(u)

(* A slip: the change of tier is recorded before the copy is on the cold    *)
(* storage.                                                                 *)
DemoteRecordsFirst(u) ==
    \/ /\ op[u].pc = "move" /\ tiers[op[u].piece] # "cold"
       /\ tiers' = [tiers EXCEPT ![op[u].piece] = "cold"]
       /\ UNCHANGED <<hot, cold, op, errors, answer>>
    \/ /\ op[u].pc = "move" /\ tiers[op[u].piece] = "cold"
       /\ cold' = [cold EXCEPT ![op[u].piece] = op[u].data]
       /\ Return(u)
       /\ UNCHANGED <<hot, tiers, errors, answer>>

DemoteMoves(u) ==
    /\ op[u].pc = "move"
    /\ \/ /\ cold' = [cold EXCEPT ![op[u].piece] = op[u].data]
          /\ Goto(u, "moved")
          /\ UNCHANGED <<hot, tiers, errors, answer>>
       \/ Fails(u)

DemoteEnds(u) ==
    /\ op[u].pc = "moved"
    /\ tiers' = [tiers EXCEPT ![op[u].piece] = "cold"]
    /\ Return(u)
    /\ UNCHANGED <<hot, cold, errors, answer>>
-----------------------------------------------------------------------------
(* read_piece, of a part of a piece that the state knows.                   *)
ReadBegins(u, p, bs) ==
    /\ op[u].pc = "idle" /\ tiers[p] # "none"
    /\ op' = [op EXCEPT ![u] = [pc |-> IF tiers[p] = "hot" THEN "readhot" ELSE "readcold",
                                piece |-> p, blocks |-> bs, data |-> {}]]
    /\ UNCHANGED <<hot, cold, tiers, errors, answer>>

Answered(u, data) == answer' = [answer EXCEPT ![u] = [asked |-> op[u].blocks, got |-> data]]

ReadHot(u) ==
    /\ op[u].pc = "readhot"
    /\ \/ /\ Answered(u, op[u].blocks \cap hot[op[u].piece])
          /\ Return(u)
          /\ UNCHANGED <<hot, cold, tiers, errors>>
       \/ Fails(u)

ReadCold(u) ==
    /\ op[u].pc = "readcold"
    /\ \/ /\ op' = [op EXCEPT ![u].pc = "promote", ![u].data = @ \cup
                                (op[u].blocks \cap cold[op[u].piece])]
          /\ UNCHANGED <<hot, cold, tiers, errors, answer>>
       \/ Fails(u)

(* The hot storage gets what was read; an error of it is ignored.           *)
Promote(u) ==
    LET p == op[u].piece IN
    /\ op[u].pc = "promote"
    /\ \/ /\ hot' = [hot EXCEPT ![p] = (@ \ op[u].blocks) \cup op[u].data]
          /\ UNCHANGED errors
       \/ /\ errors < MaxErrors /\ errors' = errors + 1
          /\ UNCHANGED hot
    /\ Goto(u, "promoted")
    /\ UNCHANGED <<cold, tiers, answer>>

PromoteEnds(u) ==
    /\ op[u].pc = "promoted"
    /\ tiers' = [tiers EXCEPT ![op[u].piece] = "hot"]
    /\ Answered(u, op[u].data)
    /\ Return(u)
    /\ UNCHANGED <<hot, cold, errors>>

TieringNext ==
    \E u \in Users :
        \/ \E p \in TierPieces : \/ WriteBegins(u, p) \/ DemoteBegins(u, p)
                                 \/ \E bs \in (SUBSET Blocks) \ {{}} : ReadBegins(u, p, bs)
        \/ WriteHot(u) \/ WriteEnds(u)
        \/ DemoteReads(u) \/ DemoteCopies(u) \/ DemoteMoves(u) \/ DemoteEnds(u)
        \/ ReadHot(u) \/ ReadCold(u) \/ Promote(u) \/ PromoteEnds(u)

TieringSpec == TieringInit /\ [][TieringNext]_tierVars
-----------------------------------------------------------------------------
(* Migration is invisible: whatever is written, demoted and read at the    *)
(* same time, and whichever access fails, a piece that the state knows is  *)
(* whole on the storage it is said to be on, and a read brings all it was  *)
(* asked for.                                                              *)
MigrationIsInvisible ==
    /\ \A p \in TierPieces : /\ tiers[p] = "hot" => hot[p] = Blocks
                             /\ tiers[p] = "cold" => cold[p] = Blocks
    /\ \A u \in Users : answer[u].got = answer[u].asked
=============================================================================
