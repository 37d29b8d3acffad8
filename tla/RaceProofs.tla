----------------------------- MODULE RaceProofs -----------------------------
(***************************************************************************)
(* Two races of threads that no lock decides, for any number of threads,   *)
(* the caches that stand behind a lock, and two queues for slots.          *)
(*                                                                         *)
(* Migration between the storages of a TieringStorage (Tiering, for the    *)
(* code tiering.rs) is invisible.  The argument is that nothing a thread   *)
(* relies on can become false under it: a piece that is whole on a storage *)
(* stays whole there, as the hot storage keeps what is demoted and a       *)
(* promotion writes only what is there already.                            *)
(*                                                                         *)
(* Work stealing (WorkStealing, for work_stealing.rs) divides a file       *)
(* exactly, for any number of bytes and any minimum.  What a task may      *)
(* still come to answer for is its territory: from its first start, which  *)
(* never changes, to its end, which only falls.  The compare-and-swap cuts *)
(* a haul off the top of one territory, wherever the owner is by then, so  *)
(* territories and hauls stay apart.  The ranges that tasks answer for lie *)
(* inside the territories.                                                 *)
(*                                                                         *)
(* The caches (PieceCaches, for piece_data_cache.rs and cache.rs; Bridge,  *)
(* which uses the second) stay exact.  While it makes room the adaptive    *)
(* cache may be over a lowered budget, but Sound: its lists are apart, the *)
(* first two are what it holds, and the count is theirs.  Every round      *)
(* keeps that and takes one piece off the lists, so that there is room, or *)
(* nothing left, after as many rounds as there are pieces.                 *)
(*                                                                         *)
(* The session (DownloadSession, for session_manager.rs) and the upload    *)
(* queue (UploadQueue, for upload_queue.rs) give their slots to whom they  *)
(* are due.  Each round of activation starts the first of those who wait,  *)
(* which leaves the others behind it; the upload queue is in the order in  *)
(* which its peers joined.                                                 *)
(***************************************************************************)
EXTENDS Tiering, WorkStealing, Bridge, DownloadSession, UploadQueue, FiniteSetTheorems,
        SequenceTheorems, WellFoundedInduction, TLAPS

Phases == {"idle", "write", "written", "demote", "copy", "move", "moved",
           "readhot", "readcold", "promote", "promoted"}

Ops == [pc : Phases, piece : TierPieces \cup {0}, blocks : SUBSET Blocks, data : SUBSET Blocks]

TieringTyped ==
    /\ hot \in [TierPieces -> SUBSET Blocks]
    /\ cold \in [TierPieces -> SUBSET Blocks]
    /\ tiers \in [TierPieces -> {"none", "hot", "cold"}]
    /\ op \in [Users -> Ops]
    /\ answer \in [Users -> [asked : SUBSET Blocks, got : SUBSET Blocks]]

(* What the state says of a piece is so, and the hot storage never lost it. *)
KnownIsWhole ==
    \A p \in TierPieces : /\ tiers[p] # "none" => hot[p] = Blocks
                          /\ tiers[p] = "cold" => cold[p] = Blocks

(* What a thread may rely on between two accesses.                          *)
Reliance(o) ==
    /\ o.pc # "idle" => o.piece \in TierPieces
    /\ o.pc \notin {"idle", "write"} => hot[o.piece] = Blocks
    /\ o.pc \in {"moved", "readcold"} => cold[o.piece] = Blocks
    /\ o.pc = "move" => o.data = Blocks
    /\ o.pc = "readcold" => o.data = {}
    /\ o.pc \in {"promote", "promoted"} => o.data = o.blocks

TieringInv ==
    /\ TieringTyped
    /\ KnownIsWhole
    /\ \A u \in Users : Reliance(op[u])
    /\ \A u \in Users : answer[u].got = answer[u].asked
-----------------------------------------------------------------------------
(* TieringStorage::new (tiering.rs) knows no piece.                         *)
LEMMA TieringInitHolds == TieringInit => TieringInv
<1> SUFFICES ASSUME TieringInit PROVE TieringInv
    OBVIOUS
<1>1. Idle \in Ops /\ NoAnswer \in [asked : SUBSET Blocks, got : SUBSET Blocks]
    BY DEF Idle, NoAnswer, Ops, Phases
<1>2. TieringTyped
    BY <1>1 DEF TieringInit, TieringTyped
<1>3. KnownIsWhole
    BY DEF TieringInit, KnownIsWhole
<1>4. \A u \in Users : Reliance(op[u])
    BY DEF TieringInit, Idle, Reliance
<1> QED
    BY <1>2, <1>3, <1>4 DEF TieringInit, TieringInv, NoAnswer

(* What one thread relies on, no step of another takes away, if storages    *)
(* only gain: the part of the argument that is the same for every step.     *)
StoragesGain ==
    \A p \in TierPieces : /\ hot[p] = Blocks => hot'[p] = Blocks
                          /\ cold[p] = Blocks => cold'[p] = Blocks

OneMoves(u, o) == op' = [op EXCEPT ![u] = o]

LEMMA OthersUndisturbed ==
    ASSUME TieringInv, StoragesGain, NEW u \in Users, NEW o \in Ops,
           OneMoves(u, o), Reliance(o)'
    PROVE  op' \in [Users -> Ops] /\ \A v \in Users : Reliance(op[v])'
<1>1. op' \in [Users -> Ops]
    BY DEF TieringInv, TieringTyped, OneMoves
<1>2. ASSUME NEW v \in Users PROVE Reliance(op[v])'
  <2>1. CASE v = u
      BY <2>1 DEF TieringInv, TieringTyped, OneMoves
  <2>2. CASE v # u
    <3>1. op'[v] = op[v] /\ Reliance(op[v])
        BY <2>2 DEF TieringInv, TieringTyped, OneMoves
    <3>2. op[v].pc # "idle" => op[v].piece \in TierPieces
        BY <3>1 DEF Reliance
    <3> QED
        BY <3>1, <3>2 DEF Reliance, StoragesGain
  <2> QED
      BY <2>1, <2>2
<1> QED
    BY <1>1, <1>2

(* A thread that returns relies on nothing.                                 *)
LEMMA IdleReliesOnNothing == Idle \in Ops /\ Reliance(Idle)'
BY DEF Idle, Ops, Phases, Reliance
-----------------------------------------------------------------------------
(* An access that fails ends the operation and changes no storage.          *)
LEMMA FailsKeeps ==
    ASSUME TieringInv, NEW u \in Users, Fails(u)
    PROVE  TieringInv'
<1>1. StoragesGain /\ OneMoves(u, Idle)
    BY DEF Fails, Return, StoragesGain, OneMoves
<1>2. op' \in [Users -> Ops] /\ \A v \in Users : Reliance(op[v])'
    BY <1>1, IdleReliesOnNothing, OthersUndisturbed
<1> QED
    BY <1>2 DEF Fails, TieringInv, TieringTyped, KnownIsWhole

(* write_piece: the data goes to the hot storage, then the state says so.   *)
LEMMA WriteKeeps ==
    ASSUME TieringInv, NEW u \in Users,
           \/ \E p \in TierPieces : WriteBegins(u, p)
           \/ WriteHot(u) \/ WriteEnds(u)
    PROVE  TieringInv'
<1>1. op[u] \in Ops /\ Reliance(op[u])
    BY DEF TieringInv, TieringTyped
<1>2. ASSUME NEW p \in TierPieces, WriteBegins(u, p) PROVE TieringInv'
  <2> PICK n : n = [Idle EXCEPT !.pc = "write", !.piece = p]
      OBVIOUS
  <2>1. n \in Ops /\ Reliance(n)'
      BY DEF Idle, Ops, Phases, Reliance
  <2>2. StoragesGain /\ OneMoves(u, n)
      BY <1>2 DEF WriteBegins, StoragesGain, OneMoves
  <2>3. op' \in [Users -> Ops] /\ \A v \in Users : Reliance(op[v])'
      BY <2>1, <2>2, OthersUndisturbed
  <2> QED
      BY <1>2, <2>3 DEF WriteBegins, TieringInv, TieringTyped, KnownIsWhole
<1>3. ASSUME WriteHot(u), ~Fails(u) PROVE TieringInv'
  <2> PICK o : o = op[u]
      OBVIOUS
  <2> PICK n : n = [o EXCEPT !.pc = "written"]
      OBVIOUS
  <2>1. /\ o \in Ops /\ o.piece \in TierPieces
        /\ hot' = [hot EXCEPT ![o.piece] = Blocks]
        /\ OneMoves(u, n)
        /\ UNCHANGED <<cold, tiers, answer>>
      BY <1>1, <1>3 DEF WriteHot, Goto, Reliance, OneMoves
  <2>2. StoragesGain /\ hot'[o.piece] = Blocks /\ hot' \in [TierPieces -> SUBSET Blocks]
      BY <2>1 DEF TieringInv, TieringTyped, StoragesGain
  <2>3. n \in Ops /\ Reliance(n)'
      BY <2>1, <2>2 DEF Ops, Phases, Reliance
  <2>4. op' \in [Users -> Ops] /\ \A v \in Users : Reliance(op[v])'
      BY <2>1, <2>2, <2>3, OthersUndisturbed
  <2> QED
      BY <2>1, <2>2, <2>4 DEF TieringInv, TieringTyped, KnownIsWhole, StoragesGain
<1>4. CASE WriteEnds(u)
  <2>1. StoragesGain /\ OneMoves(u, Idle)
      BY <1>4 DEF WriteEnds, Return, StoragesGain, OneMoves
  <2>2. op' \in [Users -> Ops] /\ \A v \in Users : Reliance(op[v])'
      BY <2>1, IdleReliesOnNothing, OthersUndisturbed
  <2> QED
      BY <1>1, <1>4, <2>2 DEF WriteEnds, TieringInv, TieringTyped, KnownIsWhole, Reliance
<1> QED
    BY <1>2, <1>3, <1>4, FailsKeeps

(* demote: look, read the hot storage, write the cold one, record it.       *)
LEMMA DemoteKeeps ==
    ASSUME TieringInv, NEW u \in Users,
           \/ \E p \in TierPieces : DemoteBegins(u, p)
           \/ DemoteReads(u) \/ DemoteCopies(u) \/ DemoteMoves(u) \/ DemoteEnds(u)
    PROVE  TieringInv'
<1> PICK o : o = op[u]
    OBVIOUS
<1>1. o \in Ops /\ Reliance(o)
    BY DEF TieringInv, TieringTyped
<1>2. ASSUME NEW p \in TierPieces, DemoteBegins(u, p) PROVE TieringInv'
  <2> PICK n : n = [Idle EXCEPT !.pc = "demote", !.piece = p]
      OBVIOUS
  <2>1. n \in Ops /\ Reliance(n)'
      BY <1>2 DEF DemoteBegins, Idle, Ops, Phases, Reliance, TieringInv, KnownIsWhole
  <2>2. StoragesGain /\ OneMoves(u, n)
      BY <1>2 DEF DemoteBegins, StoragesGain, OneMoves
  <2>3. op' \in [Users -> Ops] /\ \A v \in Users : Reliance(op[v])'
      BY <2>1, <2>2, OthersUndisturbed
  <2> QED
      BY <1>2, <2>3 DEF DemoteBegins, TieringInv, TieringTyped, KnownIsWhole
<1>3. CASE DemoteReads(u)
  <2> PICK n : n = IF tiers[o.piece] = "cold" THEN Idle ELSE [o EXCEPT !.pc = "copy"]
      OBVIOUS
  <2>1. StoragesGain /\ OneMoves(u, n)
      BY <1>3 DEF DemoteReads, Return, StoragesGain, OneMoves
  <2>2. n \in Ops /\ Reliance(n)'
      BY <1>1, <1>3, IdleReliesOnNothing DEF DemoteReads, Ops, Phases, Reliance
  <2>3. op' \in [Users -> Ops] /\ \A v \in Users : Reliance(op[v])'
      BY <2>1, <2>2, OthersUndisturbed
  <2> QED
      BY <1>3, <2>3 DEF DemoteReads, TieringInv, TieringTyped, KnownIsWhole
<1>4. ASSUME DemoteCopies(u), ~Fails(u) PROVE TieringInv'
  <2> PICK n : n = [o EXCEPT !.pc = "move", !.data = hot[o.piece]]
      OBVIOUS
  <2>1. StoragesGain /\ OneMoves(u, n)
      BY <1>4 DEF DemoteCopies, StoragesGain, OneMoves
  <2>2. n \in Ops /\ Reliance(n)'
      BY <1>1, <1>4 DEF DemoteCopies, Ops, Phases, Reliance
  <2>3. op' \in [Users -> Ops] /\ \A v \in Users : Reliance(op[v])'
      BY <2>1, <2>2, OthersUndisturbed
  <2> QED
      BY <1>4, <2>3 DEF DemoteCopies, TieringInv, TieringTyped, KnownIsWhole
<1>5. ASSUME DemoteMoves(u), ~Fails(u) PROVE TieringInv'
  <2> PICK n : n = [o EXCEPT !.pc = "moved"]
      OBVIOUS
  <2>1. /\ o.piece \in TierPieces /\ o.data = Blocks /\ hot[o.piece] = Blocks
        /\ cold' = [cold EXCEPT ![o.piece] = Blocks]
        /\ OneMoves(u, n)
        /\ UNCHANGED <<hot, tiers, answer>>
      BY <1>1, <1>5 DEF DemoteMoves, Goto, OneMoves, Reliance
  <2>2. StoragesGain /\ cold'[o.piece] = Blocks /\ cold' \in [TierPieces -> SUBSET Blocks]
      BY <2>1 DEF TieringInv, TieringTyped, StoragesGain
  <2>3. n \in Ops /\ Reliance(n)'
      BY <1>1, <2>1, <2>2 DEF Ops, Phases, Reliance
  <2>4. op' \in [Users -> Ops] /\ \A v \in Users : Reliance(op[v])'
      BY <2>1, <2>2, <2>3, OthersUndisturbed
  <2> QED
      BY <2>1, <2>2, <2>4 DEF TieringInv, TieringTyped, KnownIsWhole, StoragesGain
<1>6. CASE DemoteEnds(u)
  <2>1. StoragesGain /\ OneMoves(u, Idle)
      BY <1>6 DEF DemoteEnds, Return, StoragesGain, OneMoves
  <2>2. op' \in [Users -> Ops] /\ \A v \in Users : Reliance(op[v])'
      BY <2>1, IdleReliesOnNothing, OthersUndisturbed
  <2> QED
      BY <1>1, <1>6, <2>2 DEF DemoteEnds, TieringInv, TieringTyped, KnownIsWhole, Reliance
<1> QED
    BY <1>2, <1>3, <1>4, <1>5, <1>6, FailsKeeps DEF DemoteCopies, DemoteMoves

(* read_piece: from the hot storage, or from the cold one and then promoted.*)
LEMMA ReadKeeps ==
    ASSUME TieringInv, NEW u \in Users,
           \/ \E p \in TierPieces, bs \in SUBSET Blocks : ReadBegins(u, p, bs)
           \/ ReadHot(u) \/ ReadCold(u) \/ Promote(u) \/ PromoteEnds(u)
    PROVE  TieringInv'
<1> PICK o : o = op[u]
    OBVIOUS
<1>1. o \in Ops /\ Reliance(o)
    BY DEF TieringInv, TieringTyped
<1>2. ASSUME NEW p \in TierPieces, NEW bs \in SUBSET Blocks, ReadBegins(u, p, bs)
      PROVE  TieringInv'
  <2> PICK n : n = [pc |-> IF tiers[p] = "hot" THEN "readhot" ELSE "readcold",
                    piece |-> p, blocks |-> bs, data |-> {}]
      OBVIOUS
  <2>1. StoragesGain /\ OneMoves(u, n)
      BY <1>2 DEF ReadBegins, StoragesGain, OneMoves
  <2>2. n \in Ops
      BY DEF Ops, Phases
  <2>3. hot[p] = Blocks /\ (tiers[p] # "hot" => cold[p] = Blocks)
      BY <1>2 DEF ReadBegins, TieringInv, TieringTyped, KnownIsWhole
  <2>4. Reliance(n)'
      BY <1>2, <2>3 DEF ReadBegins, Reliance
  <2>5. op' \in [Users -> Ops] /\ \A v \in Users : Reliance(op[v])'
      BY <2>1, <2>2, <2>4, OthersUndisturbed
  <2> QED
      BY <1>2, <2>5 DEF ReadBegins, TieringInv, TieringTyped, KnownIsWhole
<1>3. ASSUME ReadHot(u), ~Fails(u) PROVE TieringInv'
  <2>1. StoragesGain /\ OneMoves(u, Idle)
      BY <1>3 DEF ReadHot, Return, StoragesGain, OneMoves
  <2>2. op' \in [Users -> Ops] /\ \A v \in Users : Reliance(op[v])'
      BY <2>1, IdleReliesOnNothing, OthersUndisturbed
  <2>3. o.blocks \in SUBSET Blocks /\ hot[o.piece] = Blocks
      BY <1>1, <1>3 DEF ReadHot, Reliance, Ops
  <2>4. answer' = [answer EXCEPT ![u] = [asked |-> o.blocks, got |-> o.blocks]]
      BY <1>3, <2>3 DEF ReadHot, Answered
  <2> QED
      BY <1>3, <2>2, <2>3, <2>4 DEF ReadHot, TieringInv, TieringTyped, KnownIsWhole
<1>4. ASSUME ReadCold(u), ~Fails(u) PROVE TieringInv'
  <2> PICK n : n = [o EXCEPT !.pc = "promote", !.data = o.blocks]
      OBVIOUS
  <2>1. /\ o.pc = "readcold" /\ o.data = {} /\ o.blocks \in SUBSET Blocks
        /\ cold[o.piece] = Blocks /\ hot[o.piece] = Blocks /\ o.piece \in TierPieces
      BY <1>1, <1>4 DEF ReadCold, Reliance, Ops
  <2>2. o.data \cup (o.blocks \cap cold[o.piece]) = o.blocks
      BY <2>1
  <2>3. StoragesGain /\ OneMoves(u, n) /\ hot' = hot
      BY <1>4, <2>2 DEF ReadCold, StoragesGain, OneMoves
  <2>4. n \in Ops /\ Reliance(n)'
      BY <1>1, <2>1, <2>3 DEF Ops, Phases, Reliance
  <2>5. op' \in [Users -> Ops] /\ \A v \in Users : Reliance(op[v])'
      BY <2>3, <2>4, OthersUndisturbed
  <2> QED
      BY <1>4, <2>5 DEF ReadCold, TieringInv, TieringTyped, KnownIsWhole
<1>5. CASE Promote(u)
  <2> PICK n : n = [o EXCEPT !.pc = "promoted"]
      OBVIOUS
  <2>1. /\ o.piece \in TierPieces /\ hot[o.piece] = Blocks /\ o.data = o.blocks
        /\ OneMoves(u, n)
        /\ UNCHANGED <<cold, tiers, answer>>
      BY <1>1, <1>5 DEF Promote, Goto, OneMoves, Reliance
  <2>2. hot' = hot
    <3>1. (hot[o.piece] \ o.blocks) \cup o.data = hot[o.piece]
        BY <1>1, <2>1 DEF Ops
    <3> QED
        BY <1>5, <3>1, ZenonT(30) DEF Promote, TieringInv, TieringTyped
  <2>3. StoragesGain
      BY <2>1, <2>2 DEF StoragesGain
  <2>4. n \in Ops /\ Reliance(n)'
      BY <1>1, <2>1, <2>2 DEF Ops, Phases, Reliance
  <2>5. op' \in [Users -> Ops] /\ \A v \in Users : Reliance(op[v])'
      BY <2>1, <2>3, <2>4, OthersUndisturbed
  <2> QED
      BY <2>1, <2>2, <2>5 DEF TieringInv, TieringTyped, KnownIsWhole
<1>6. CASE PromoteEnds(u)
  <2>1. StoragesGain /\ OneMoves(u, Idle)
      BY <1>6 DEF PromoteEnds, Return, StoragesGain, OneMoves
  <2>2. op' \in [Users -> Ops] /\ \A v \in Users : Reliance(op[v])'
      BY <2>1, IdleReliesOnNothing, OthersUndisturbed
  <2>3. /\ o.data = o.blocks /\ o.blocks \in SUBSET Blocks
        /\ o.piece \in TierPieces /\ hot[o.piece] = Blocks
      BY <1>1, <1>6 DEF PromoteEnds, Reliance, Ops
  <2>4. answer' = [answer EXCEPT ![u] = [asked |-> o.blocks, got |-> o.blocks]]
      BY <1>6, <2>3 DEF PromoteEnds, Answered
  <2>5. tiers' = [tiers EXCEPT ![o.piece] = "hot"] /\ UNCHANGED <<hot, cold>>
      BY <1>6 DEF PromoteEnds
  <2> QED
      BY <2>2, <2>3, <2>4, <2>5 DEF TieringInv, TieringTyped, KnownIsWhole
<1> QED
    BY <1>2, <1>3, <1>4, <1>5, <1>6, FailsKeeps

(* The invariant is inductive.                                              *)
LEMMA TieringStepHolds == TieringInv /\ [TieringNext]_tierVars => TieringInv'
<1> SUFFICES ASSUME TieringInv, [TieringNext]_tierVars PROVE TieringInv'
    OBVIOUS
<1>1. CASE UNCHANGED tierVars
    BY <1>1 DEF tierVars, TieringInv, TieringTyped, KnownIsWhole, Reliance
<1>2. ASSUME NEW u \in Users, NEW p \in TierPieces,
             \/ WriteBegins(u, p) \/ DemoteBegins(u, p)
             \/ \E bs \in (SUBSET Blocks) \ {{}} : ReadBegins(u, p, bs)
      PROVE  TieringInv'
    BY <1>2, WriteKeeps, DemoteKeeps, ReadKeeps
<1>3. ASSUME NEW u \in Users,
             \/ WriteHot(u) \/ WriteEnds(u)
             \/ DemoteReads(u) \/ DemoteCopies(u) \/ DemoteMoves(u) \/ DemoteEnds(u)
             \/ ReadHot(u) \/ ReadCold(u) \/ Promote(u) \/ PromoteEnds(u)
      PROVE  TieringInv'
    BY <1>3, WriteKeeps, DemoteKeeps, ReadKeeps
<1> QED
    BY <1>1, <1>2, <1>3 DEF TieringNext
-----------------------------------------------------------------------------
(* Whatever is written, demoted and read at the same time, and whichever    *)
(* access fails, TieringStorage (tiering.rs) finds a piece that it knows    *)
(* whole where it looks for it, and a read brings all it was asked for.     *)
THEOREM MigrationHolds == TieringSpec => []MigrationIsInvisible
<1>1. TieringInv => MigrationIsInvisible
    BY DEF TieringInv, TieringTyped, KnownIsWhole, MigrationIsInvisible
<1> QED
    BY <1>1, TieringInitHolds, TieringStepHolds, PTL DEF TieringSpec
-----------------------------------------------------------------------------
Owning == {"own", "write", "advance"}
Stealing == {"survey", "end", "start", "split"}
Places == Owning \cup Stealing \cup {"haul", "done"}

Territory(w) == Span(FirstStart(w), end[w])

StealTyped ==
    /\ start \in [Workers -> Int] /\ end \in [Workers -> Int]
    /\ threadPc \in [Workers -> Places]
    /\ todo \in [Workers -> Int \X Int] /\ seen \in [Workers -> Int \X Int]
    /\ victims \in [Workers -> Seq(Workers)]

(* Starts and ends stay in the file, and where they began.                  *)
InsideFile ==
    /\ fetched \subseteq File
    /\ \A w \in Workers : /\ FirstStart(w) <= start[w] /\ end[w] <= StealSize
                          /\ Hauled(w) \subseteq File

(* The owner is at its own start with what it downloads, and has left its   *)
(* task for good when nothing remained.                                     *)
OwnerAtStart ==
    \A w \in Workers :
        /\ threadPc[w] \in {"write", "advance"} =>
              /\ todo[w][1] = start[w] /\ todo[w][1] <= todo[w][2]
        /\ threadPc[w] = "write" => todo[w][2] <= StealSize
        /\ threadPc[w] = "advance" => Span(todo[w][1], todo[w][2]) \subseteq fetched
        /\ threadPc[w] \notin Owning => end[w] <= start[w]

(* A thief has read no start that lies before the first.                    *)
ThiefHasRead ==
    \A w \in Workers :
        /\ threadPc[w] \in {"start", "split"} => victims[w] # <<>>
        /\ threadPc[w] = "split" => FirstStart(Victim(w)) <= seen[w][1]

(* No byte is in two territories, two hauls, or one of each.                *)
NothingTwice ==
    \A w, v \in Workers :
        /\ Territory(w) \cap Hauled(v) = {}
        /\ w # v => Territory(w) \cap Territory(v) = {} /\ Hauled(w) \cap Hauled(v) = {}

StealInv ==
    StealTyped /\ InsideFile /\ OwnerAtStart /\ ThiefHasRead /\ NothingTwice /\ NothingLost
-----------------------------------------------------------------------------
(* The segments a scheduler begins with.                                    *)
LEMMA Numbers ==
    /\ Threads \in Nat \ {0} /\ StealSize \in Nat /\ MinChunk \in Nat /\ Chunk \in Nat
    /\ Workers \subseteq Nat /\ \A w \in Workers : w >= 1 /\ w <= Threads
BY StealingAssumption DEF Workers

LEMMA SegmentFacts ==
    /\ Effective \in Nat /\ 1 <= Effective /\ Effective <= Threads
    /\ Segment \in Nat /\ Effective * Segment <= StealSize
<1>1. Effective \in Nat /\ 1 <= Effective /\ Effective <= Threads
  <2>1. CASE MinChunk > 0 /\ StealSize > 0
    <3>1. StealSize \div MinChunk \in Int
      BY <2>1, Numbers
    <3> QED BY <2>1, <3>1, Numbers DEF Effective, Smaller, Larger
  <2>2. CASE ~(MinChunk > 0 /\ StealSize > 0)
    BY <2>2, Numbers DEF Effective
  <2> QED BY <2>1, <2>2
<1>2. CASE StealSize > 0
  <2>1. \A n, d \in Nat : d >= 1 => n \div d \in Nat /\ d * (n \div d) <= n
    OBVIOUS
  <2> QED BY <1>1, <1>2, <2>1, Numbers DEF Segment
<1>3. CASE StealSize = 0
  BY <1>1, <1>3, Numbers DEF Segment
<1> QED BY <1>1, <1>2, <1>3, Numbers

LEMMA FirstFacts ==
    \A w \in Workers :
        /\ FirstStart(w) \in Nat /\ FirstEnd(w) \in Nat /\ FirstEnd(w) <= StealSize
        /\ w > Effective => FirstEnd(w) = 0
<1> SUFFICES ASSUME NEW w \in Workers
             PROVE  /\ FirstStart(w) \in Nat /\ FirstEnd(w) \in Nat /\ FirstEnd(w) <= StealSize
                    /\ w > Effective => FirstEnd(w) = 0
  OBVIOUS
<1> DEFINE E == Effective
           S == Segment
<1>1. w \in Nat /\ w >= 1 /\ E \in Nat /\ S \in Nat /\ E * S <= StealSize /\ StealSize \in Nat
  BY Numbers, SegmentFacts
<1> HIDE DEF E, S
<1>2. \A a \in Nat : a * S \in Nat /\ (a <= E => a * S <= E * S)
  BY <1>1
<1>3. (w - 1) * S \in Nat /\ w * S \in Nat /\ (w < E => w * S <= StealSize)
  BY <1>1, <1>2
<1> QED BY <1>1, <1>3 DEF FirstStart, FirstEnd, E, S

LEMMA FirstApart ==
    \A w, v \in Workers :
        w # v => Span(FirstStart(w), FirstEnd(w)) \cap Span(FirstStart(v), FirstEnd(v)) = {}
<1> DEFINE E == Effective
           S == Segment
<1>1. E \in Nat /\ S \in Nat /\ E * S <= StealSize /\ StealSize \in Nat
  BY Numbers, SegmentFacts
<1>2. \A w, v \in Workers : w < v =>
         Span(FirstStart(w), FirstEnd(w)) \cap Span(FirstStart(v), FirstEnd(v)) = {}
  <2> SUFFICES ASSUME NEW w \in Workers, NEW v \in Workers, w < v
               PROVE  Span(FirstStart(w), FirstEnd(w)) \cap Span(FirstStart(v), FirstEnd(v)) = {}
    OBVIOUS
  <2>1. w \in Nat /\ v \in Nat /\ w >= 1
    BY Numbers
  <2>2. CASE v > E
    BY <2>2, FirstFacts, SegmentFacts DEF Span
  <2>3. CASE v <= E
    <3>1. w < E /\ FirstEnd(w) = w * S /\ FirstStart(v) = (v - 1) * S
      BY <1>1, <2>1, <2>3 DEF FirstEnd, FirstStart
    <3> HIDE DEF S
    <3>2. w * S \in Nat /\ (v - 1) * S \in Nat /\ w * S <= (v - 1) * S
      BY <1>1, <2>1
    <3> QED BY <3>1, <3>2, FirstFacts DEF Span
  <2> QED BY <1>1, <2>1, <2>2, <2>3
<1>3. \A w, v \in Workers : w # v => w < v \/ v < w
  BY Numbers
<1> QED BY <1>2, <1>3

LEMMA FirstCover ==
    \A b \in File : \E w \in Workers : b \in Span(FirstStart(w), FirstEnd(w))
<1> SUFFICES ASSUME NEW b \in File
             PROVE  \E w \in Workers : b \in Span(FirstStart(w), FirstEnd(w))
  OBVIOUS
<1> DEFINE E == Effective
           S == Segment
<1>1. /\ E \in Nat /\ 1 <= E /\ E <= Threads /\ S \in Nat /\ E * S <= StealSize
      /\ StealSize \in Nat /\ b \in Nat /\ b < StealSize
  BY Numbers, SegmentFacts DEF File
<1>2. E \in Workers /\ FirstStart(E) = (E - 1) * S /\ FirstEnd(E) = StealSize
  BY <1>1, Numbers DEF Workers, FirstStart, FirstEnd
<1>3. CASE b >= (E - 1) * S
  <2>1. (E - 1) * S \in Nat
    BY <1>2, FirstFacts
  <2> QED BY <1>1, <1>2, <1>3, <2>1 DEF Span
<1>4. CASE b < (E - 1) * S
  <2> DEFINE q == b \div S
  <2> HIDE DEF E, S
  <2>1. S > 0
    BY <1>1, <1>4
  <2>2. q \in Nat /\ q * S <= b /\ b < (q + 1) * S
    BY <1>1, <2>1
  <2> HIDE DEF q
  <2>3. q < E - 1
    <3> SUFFICES ASSUME q >= E - 1 PROVE FALSE
      BY <1>1, <2>2
    <3>1. (E - 1) * S <= q * S
      BY <1>1, <2>2
    <3> QED BY <1>1, <1>4, <2>2, <3>1
  <2>4. q + 1 \in Workers /\ q + 1 < E
    BY <1>1, <2>2, <2>3, Numbers DEF Workers
  <2>5. FirstStart(q + 1) = q * S /\ FirstEnd(q + 1) = (q + 1) * S
    BY <1>1, <2>2, <2>4 DEF FirstStart, FirstEnd, E, S
  <2>6. b \in Span(FirstStart(q + 1), FirstEnd(q + 1))
    BY <1>1, <2>2, <2>5 DEF Span
  <2> QED BY <2>4, <2>6
<1>5. (E - 1) * S \in Int
  BY <1>2, FirstFacts
<1> QED BY <1>1, <1>3, <1>4, <1>5

LEMMA StealInitHolds == StealInit => StealInv
<1> SUFFICES ASSUME StealInit PROVE StealInv
  OBVIOUS
<1> USE DEF StealInit
<1>1. StealTyped
  BY FirstFacts DEF StealTyped, Places, Owning
<1>2. \A w \in Workers : Hauled(w) = {} /\ Territory(w) = Span(FirstStart(w), FirstEnd(w))
  BY DEF Hauled, Territory
<1>3. InsideFile
  BY <1>2, FirstFacts, Numbers DEF InsideFile
<1>4. OwnerAtStart /\ ThiefHasRead
  BY DEF OwnerAtStart, ThiefHasRead, Owning
<1>5. NothingTwice
  BY <1>2, FirstApart DEF NothingTwice
<1>6. NothingLost
  BY FirstCover DEF NothingLost, Assigned
<1> QED BY <1>1, <1>3, <1>4, <1>5, <1>6 DEF StealInv

-----------------------------------------------------------------------------
(* Steps that move no byte from one to the other.                           *)
Quiet ==
    /\ UNCHANGED <<start, end, fetched>>
    /\ \A v \in Workers : Hauled(v)' = Hauled(v)

LEMMA QuietKeeps ==
    StealInv /\ Quiet => InsideFile' /\ NothingTwice' /\ NothingLost'
BY DEF StealInv, Quiet, InsideFile, NothingTwice, NothingLost, Territory, Assigned

LEMMA GoesQuietly ==
    \A w \in Workers, to \in Places \ {"haul"} :
        /\ StealTyped /\ threadPc[w] # "haul" /\ UNCHANGED <<start, end, fetched>>
        /\ threadPc' = [threadPc EXCEPT ![w] = to]
        /\ \A v \in Workers \ {w} : todo'[v] = todo[v]
        => Quiet
BY DEF StealTyped, Quiet, Hauled

LEMMA OwnQuiet ==
    ASSUME StealInv, NEW w \in Workers, TakeOwn(w) \/ OwnExhausted(w)
    PROVE  StealInv'
<1> USE DEF StealInv, ThreadGoes
<1>0. /\ start[w] \in Int /\ end[w] \in Int /\ threadPc[w] \in Places
      /\ end[w] <= StealSize /\ Chunk \in Nat
  BY Numbers DEF StealTyped, InsideFile
<1>1. CASE TakeOwn(w)
  <2> USE <1>1 DEF TakeOwn
  <2> DEFINE to == start[w] + Smaller(Chunk, Remaining(w))
  <2>1. to \in Int /\ start[w] <= to /\ to <= StealSize
    BY <1>0, Numbers DEF Remaining, Smaller, Larger
  <2> HIDE DEF to
  <2>2. todo' = [todo EXCEPT ![w] = <<start[w], to>>]
    BY DEF to
  <2>3. StealTyped'
    BY <1>0, <2>1, <2>2, SMTT(30) DEF StealTyped, Places, Owning
  <2>4. Quiet
    BY <2>2, GoesQuietly DEF StealTyped, Places, Owning
  <2>5. OwnerAtStart'
    BY <1>0, <2>1, <2>2, SMTT(30) DEF StealTyped, OwnerAtStart, Owning
  <2>6. ThiefHasRead'
    BY DEF StealTyped, ThiefHasRead, Victim
  <2> QED BY <2>3, <2>4, <2>5, <2>6, QuietKeeps
<1>2. CASE OwnExhausted(w)
  <2> USE <1>2 DEF OwnExhausted
  <2>1. end[w] <= start[w]
    BY <1>0 DEF Remaining, Larger
  <2>3. StealTyped'
    BY <1>0 DEF StealTyped, Places, Stealing
  <2>4. Quiet
    BY GoesQuietly DEF StealTyped, Places, Stealing
  <2>5. OwnerAtStart'
    BY <1>0, <2>1 DEF StealTyped, OwnerAtStart, Owning
  <2>6. ThiefHasRead'
    BY DEF StealTyped, ThiefHasRead, Victim
  <2> QED BY <2>3, <2>4, <2>5, <2>6, QuietKeeps
<1> QED BY <1>1, <1>2

LEMMA ThiefQuiet ==
    ASSUME StealInv, NEW w \in Workers,
           \/ Survey(w) \/ NoVictim(w) \/ LoadEnd(w) \/ LoadStart(w)
           \/ TooSmall(w) \/ StealRetries(w)
    PROVE  StealInv'
<1> USE DEF StealInv, ThreadGoes
<1>0. threadPc[w] \in Places /\ victims[w] \in Seq(Workers) /\ seen[w] \in Int \X Int
  BY DEF StealTyped
<1>1. \A to \in {"end", "done", "start", "split"} :
         threadPc' = [threadPc EXCEPT ![w] = to] /\ threadPc[w] \in Stealing
            /\ UNCHANGED <<start, end, todo, fetched>>
         => Quiet /\ OwnerAtStart'
  <2> SUFFICES ASSUME NEW to \in {"end", "done", "start", "split"},
                      threadPc' = [threadPc EXCEPT ![w] = to], threadPc[w] \in Stealing,
                      UNCHANGED <<start, end, todo, fetched>>
               PROVE  Quiet /\ OwnerAtStart'
    OBVIOUS
  <2>1. Quiet
    BY GoesQuietly DEF StealTyped, Places, Stealing
  <2>2. OwnerAtStart'
    BY DEF StealTyped, OwnerAtStart, Owning, Stealing
  <2> QED BY <2>1, <2>2
<1>2. CASE Survey(w)
  <2> USE <1>2 DEF Survey
  <2>1. PICK order \in [1 .. Cardinality(Candidates(w)) -> Candidates(w)] :
           victims' = [victims EXCEPT ![w] = order]
    OBVIOUS
  <2>2. order \in Seq(Workers)
    <3>1. Candidates(w) \subseteq Workers /\ IsFiniteSet(Candidates(w))
      <4>1. IsFiniteSet(Workers)
        BY Numbers, FS_Interval DEF Workers
      <4>2. Candidates(w) \subseteq Workers
        BY DEF Candidates
      <4> QED BY <4>1, <4>2, FS_Subset
    <3>2. Cardinality(Candidates(w)) \in Nat
      BY <3>1, FS_CardinalityType
    <3> QED BY <3>1, <3>2
  <2>3. StealTyped'
    BY <2>1, <2>2 DEF StealTyped, Places, Stealing
  <2>4. ThiefHasRead'
    BY <2>1 DEF StealTyped, ThiefHasRead, Victim
  <2> QED BY <1>1, <2>3, <2>4, QuietKeeps DEF Stealing
<1>3. CASE NoVictim(w)
  <2> USE <1>3 DEF NoVictim
  <2>3. StealTyped'
    BY DEF StealTyped, Places
  <2>4. ThiefHasRead'
    BY DEF StealTyped, ThiefHasRead, Victim
  <2> QED BY <1>1, <2>3, <2>4, QuietKeeps DEF Stealing
<1>4. CASE LoadEnd(w)
  <2> USE <1>4 DEF LoadEnd
  <2>1. Victim(w) \in Workers
    BY <1>0 DEF Victim
  <2> DEFINE read == <<seen[w][1], end[Victim(w)]>>
  <2>2. seen' = [seen EXCEPT ![w] = read] /\ read \in Int \X Int
    BY <1>0, <2>1 DEF StealTyped
  <2> HIDE DEF read
  <2>3. StealTyped'
    BY <1>0, <2>2, ZenonT(30) DEF StealTyped, Places, Stealing
  <2>4. ThiefHasRead'
    BY <2>2 DEF StealTyped, ThiefHasRead, Victim
  <2> QED BY <1>1, <2>3, <2>4, QuietKeeps DEF Stealing
<1>5. CASE LoadStart(w)
  <2> USE <1>5 DEF LoadStart
  <2>1. Victim(w) \in Workers /\ victims[w] # <<>>
    BY <1>0 DEF Victim, ThiefHasRead
  <2> DEFINE read == <<start[Victim(w)], seen[w][2]>>
  <2>2. /\ seen' = [seen EXCEPT ![w] = read] /\ read \in Int \X Int
        /\ FirstStart(Victim(w)) <= read[1]
    BY <1>0, <2>1 DEF StealTyped, InsideFile
  <2> HIDE DEF read
  <2>3. StealTyped'
    <3>1. threadPc' \in [Workers -> Places] /\ seen' \in [Workers -> Int \X Int]
      BY <2>2 DEF StealTyped, Places, Stealing
    <3> QED BY <3>1 DEF StealTyped
  <2>4. victims' = victims /\ seen'[w] = read /\ \A v \in Workers \ {w} : seen'[v] = seen[v]
    BY <2>2 DEF StealTyped
  <2>5. ThiefHasRead'
    BY <2>1, <2>2, <2>4 DEF StealTyped, ThiefHasRead, Victim
  <2> QED BY <1>1, <2>3, <2>5, QuietKeeps DEF Stealing
<1>6. CASE TooSmall(w)
  <2> USE <1>6 DEF TooSmall
  <2>1. victims[w] # <<>>
    BY DEF ThiefHasRead
  <2>2. Tail(victims[w]) \in Seq(Workers)
    BY <1>0, <2>1
  <2>3. StealTyped'
    BY <2>2 DEF StealTyped, Places, Stealing
  <2>4. ThiefHasRead'
    BY DEF StealTyped, ThiefHasRead, Victim
  <2> QED BY <1>1, <2>3, <2>4, QuietKeeps DEF Stealing
<1>7. CASE StealRetries(w)
  <2> USE <1>7 DEF StealRetries
  <2>3. StealTyped'
    BY DEF StealTyped, Places, Stealing
  <2>4. ThiefHasRead'
    BY DEF StealTyped, ThiefHasRead, Victim
  <2> QED BY <1>1, <2>3, <2>4, QuietKeeps DEF Stealing
<1> QED BY <1>2, <1>3, <1>4, <1>5, <1>6, <1>7

-----------------------------------------------------------------------------
(* The steps that do.                                                       *)
LEMMA WriteOwnKeeps ==
    ASSUME StealInv, NEW w \in Workers, WriteOwn(w)
    PROVE  StealInv'
<1> USE DEF StealInv, ThreadGoes, WriteOwn, Download
<1>0. /\ threadPc[w] = "write" /\ todo[w] \in Int \X Int /\ todo[w][1] = start[w]
      /\ FirstStart(w) <= start[w] /\ FirstStart(w) \in Nat /\ start[w] \in Int
      /\ todo[w][2] <= StealSize /\ StealSize \in Nat
  BY FirstFacts, Numbers DEF StealTyped, OwnerAtStart, InsideFile
<1>1. Span(todo[w][1], todo[w][2]) \subseteq File
  BY <1>0 DEF Span, File
<1>2. StealTyped'
  BY DEF StealTyped, Places, Owning
<1>3. \A v \in Workers : Hauled(v)' = Hauled(v)
  BY DEF StealTyped, Hauled
<1>4. InsideFile'
  BY <1>1, <1>3 DEF InsideFile
<1>5. OwnerAtStart'
  BY DEF StealTyped, OwnerAtStart, Owning
<1>6. ThiefHasRead'
  BY DEF StealTyped, ThiefHasRead, Victim
<1>7. NothingTwice'
  BY <1>3 DEF NothingTwice, Territory
<1>8. NothingLost'
  BY <1>3 DEF NothingLost, Assigned
<1> QED BY <1>2, <1>4, <1>5, <1>6, <1>7, <1>8

LEMMA AdvanceKeeps ==
    ASSUME StealInv, NEW w \in Workers, Advance(w)
    PROVE  StealInv'
<1> USE DEF StealInv, ThreadGoes, Advance
<1>0. /\ threadPc[w] = "advance" /\ todo[w] \in Int \X Int
      /\ todo[w][1] = start[w] /\ todo[w][1] <= todo[w][2]
      /\ FirstStart(w) <= start[w] /\ FirstStart(w) \in Nat
      /\ start[w] \in Int /\ end[w] \in Int
      /\ Span(todo[w][1], todo[w][2]) \subseteq fetched
  BY FirstFacts DEF StealTyped, OwnerAtStart, InsideFile
<1>1. start' = [start EXCEPT ![w] = todo[w][2]]
  <2>1. start[w] + (todo[w][2] - todo[w][1]) = todo[w][2]
    BY <1>0
  <2> QED BY <2>1
<1>2. StealTyped'
  BY <1>0, <1>1 DEF StealTyped, Places, Owning
<1>3. \A v \in Workers : Hauled(v)' = Hauled(v)
  BY DEF StealTyped, Hauled
<1>4. InsideFile'
  BY <1>0, <1>1, <1>3, SMTT(30) DEF StealTyped, InsideFile
<1>5. OwnerAtStart'
  BY <1>0, <1>1 DEF StealTyped, OwnerAtStart, Owning
<1>6. ThiefHasRead'
  BY DEF StealTyped, ThiefHasRead, Victim
<1>7. NothingTwice'
  BY <1>3 DEF NothingTwice, Territory
<1>8. NothingLost'
  <2>1. Assigned(w) \subseteq fetched \cup Assigned(w)'
    BY <1>0, <1>1 DEF StealTyped, Assigned, Span
  <2>2. \A v \in Workers \ {w} : Assigned(v)' = Assigned(v)
    BY <1>1 DEF StealTyped, Assigned
  <2> QED BY <1>3, <2>1, <2>2 DEF NothingLost
<1> QED BY <1>2, <1>4, <1>5, <1>6, <1>7, <1>8

(* The swap cuts the haul off the top of the victim's territory.            *)
LEMMA StealKeeps ==
    ASSUME StealInv, NEW w \in Workers, Steal(w)
    PROVE  StealInv'
<1> USE DEF StealInv, ThreadGoes, Steal
<1>1. /\ threadPc[w] = "split" /\ seen[w] \in Int \X Int
      /\ victims[w] \in Seq(Workers) /\ victims[w] # <<>>
  BY DEF StealTyped, ThiefHasRead
<1>2. PICK v \in Workers : v = Victim(w)
  BY <1>1 DEF Victim
<1>3. PICK s \in Int, e \in Int : s = seen[w][1] /\ e = seen[w][2]
  BY <1>1
<1> DEFINE m == MidPoint(s, e)
<1>4. /\ end[v] = e /\ FirstStart(v) <= s /\ FirstStart(v) \in Nat
      /\ e <= StealSize /\ StealSize \in Nat /\ threadPc[w] = "split"
  BY <1>1, <1>2, <1>3, FirstFacts, Numbers DEF ThiefHasRead, InsideFile
<1>5. s < m /\ m < e
  BY <1>3 DEF Splittable
<1>6. m \in Int
  <2>1. s + (e - s) \div 2 \in Int
    BY <1>4
  <2>2. CASE MinChunk = 0
    BY <2>1, <2>2 DEF MidPoint
  <2>3. CASE MinChunk # 0
    <3> DEFINE rounded == ((s + (e - s) \div 2 + MinChunk - 1) \div MinChunk) * MinChunk
    <3>1. (s + (e - s) \div 2 + MinChunk - 1) \div MinChunk \in Int
      BY <2>1, <2>3, Numbers
    <3>2. rounded \in Int
      BY <3>1, Numbers
    <3>3. m = Larger(Smaller(rounded, e - 1), s + 1)
      BY <2>3 DEF MidPoint
    <3> HIDE DEF rounded, m
    <3> QED BY <1>4, <3>2, <3>3 DEF Larger, Smaller
  <2> QED BY <2>2, <2>3
<1>7. end' = [end EXCEPT ![v] = m] /\ todo' = [todo EXCEPT ![w] = <<m, e>>]
  BY <1>2, <1>3
<1> HIDE DEF m
<1>8. StealTyped'
  <2>1. <<m, e>> \in Int \X Int
    BY <1>6
  <2>2. end' \in [Workers -> Int]
    BY <1>6, <1>7 DEF StealTyped
  <2>4. todo' \in [Workers -> Int \X Int]
    <3>1. todo \in [Workers -> Int \X Int]
      BY DEF StealTyped
    <3> DEFINE haul == <<m, e>>
    <3>2. todo' = [todo EXCEPT ![w] = haul] /\ haul \in Int \X Int
      BY <1>7, <2>1
    <3> HIDE DEF haul
    <3> QED BY <3>1, <3>2
  <2>3. threadPc' \in [Workers -> Places]
    BY DEF StealTyped, Places
  <2> QED BY <2>2, <2>3, <2>4 DEF StealTyped
<1>9. /\ Hauled(w)' = Span(m, e) /\ Hauled(w) = {}
      /\ \A u \in Workers \ {w} : Hauled(u)' = Hauled(u)
  BY <1>4, <1>7 DEF StealTyped, Hauled, Places
<1>10. /\ Territory(v)' = Span(FirstStart(v), m) /\ Territory(v) = Span(FirstStart(v), e)
      /\ \A u \in Workers \ {v} : Territory(u)' = Territory(u)
  BY <1>4, <1>7 DEF StealTyped, Territory
<1>11. /\ Territory(v)' \subseteq Territory(v) /\ Span(m, e) \subseteq Territory(v)
      /\ Territory(v)' \cap Span(m, e) = {} /\ Span(m, e) \subseteq File
  BY <1>4, <1>5, <1>6, <1>10 DEF Span, File
<1>12. \A u \in Workers : end'[u] <= end[u] /\ {end'[u], end[u], start[u]} \subseteq Int
  <2>1. end'[v] = m /\ \A u \in Workers \ {v} : end'[u] = end[u]
    BY <1>7 DEF StealTyped
  <2>2. \A u \in Workers : end[u] \in Int /\ start[u] \in Int
    BY DEF StealTyped
  <2> QED BY <1>4, <1>5, <1>6, <2>1, <2>2
<1>13. InsideFile'
  <2>1. \A u \in Workers : FirstStart(u) <= start'[u] /\ end'[u] <= StealSize
    BY <1>4, <1>12 DEF InsideFile
  <2>2. \A u \in Workers : Hauled(u)' \subseteq File
    BY <1>9, <1>11 DEF InsideFile
  <2> QED BY <2>1, <2>2 DEF InsideFile
<1>14. OwnerAtStart'
  <2>2. \A u \in Workers : threadPc[u] \notin Owning => end'[u] <= start'[u]
    BY <1>12 DEF OwnerAtStart
  <2>3. threadPc[w] \notin Owning
    BY <1>4 DEF Owning
  <2>4. \A u \in Workers \ {w} : threadPc'[u] = threadPc[u] /\ todo'[u] = todo[u]
    BY <1>7 DEF StealTyped
  <2>5. threadPc'[w] = "haul"
    BY DEF StealTyped
  <2> QED BY <2>2, <2>3, <2>4, <2>5 DEF OwnerAtStart, Owning
<1>15. ThiefHasRead'
  BY DEF StealTyped, ThiefHasRead, Victim
<1>16. NothingTwice'
  <2>1. \A u \in Workers : Territory(u)' \subseteq Territory(u)
    BY <1>10, <1>11
  <2>2. \A u, x \in Workers : u # x => Territory(u)' \cap Territory(x)' = {}
    BY <2>1 DEF NothingTwice
  <2>3. \A u \in Workers : Territory(u)' \cap Span(m, e) = {}
    BY <1>4, <1>10, <1>11 DEF NothingTwice
  <2>4. \A u, x \in Workers : Territory(u)' \cap Hauled(x)' = {}
    BY <1>9, <2>1, <2>3 DEF NothingTwice
  <2>5. \A x \in Workers : Span(m, e) \cap Hauled(x) = {}
    BY <1>4, <1>11 DEF NothingTwice
  <2>6. \A u, x \in Workers : u # x => Hauled(u)' \cap Hauled(x)' = {}
    BY <1>9, <2>5 DEF NothingTwice
  <2> QED BY <2>2, <2>4, <2>6 DEF NothingTwice
<1>17. NothingLost'
  <2>1. Assigned(v) \subseteq Assigned(v)' \cup Hauled(w)'
    BY <1>4, <1>5, <1>6, <1>7, <1>9 DEF StealTyped, Assigned, Span
  <2>2. \A u \in Workers \ {v} : Assigned(u)' = Assigned(u)
    BY <1>7 DEF StealTyped, Assigned
  <2> QED BY <1>4, <1>9, <2>1, <2>2 DEF NothingLost
<1> QED BY <1>8, <1>13, <1>14, <1>15, <1>16, <1>17

LEMMA HaulKeeps ==
    ASSUME StealInv, NEW w \in Workers, Haul(w)
    PROVE  StealInv'
<1> USE DEF StealInv, ThreadGoes, Haul, Download
<1>1. StealTyped'
  BY DEF StealTyped, Places, Stealing
<1>2. /\ fetched' = fetched \cup Hauled(w) /\ Hauled(w)' = {}
      /\ \A v \in Workers \ {w} : Hauled(v)' = Hauled(v)
  BY DEF StealTyped, Hauled
<1>3. InsideFile'
  BY <1>2 DEF InsideFile
<1>4. OwnerAtStart'
  BY DEF StealTyped, OwnerAtStart, Owning
<1>5. ThiefHasRead'
  BY DEF StealTyped, ThiefHasRead, Victim
<1>6. NothingTwice'
  BY <1>2 DEF NothingTwice, Territory
<1>7. NothingLost'
  BY <1>2 DEF NothingLost, Assigned
<1> QED BY <1>1, <1>3, <1>4, <1>5, <1>6, <1>7

LEMMA StealNextKeeps == StealInv /\ [StealNext]_stealVars => StealInv'
<1> SUFFICES ASSUME StealInv, [StealNext]_stealVars PROVE StealInv'
  OBVIOUS
<1>1. CASE UNCHANGED stealVars
  <2> USE <1>1 DEF stealVars, StealInv
  <2>1. \A w \in Workers : Hauled(w)' = Hauled(w)
    BY DEF Hauled
  <2>2. Quiet
    BY <2>1 DEF Quiet
  <2>3. StealTyped' /\ OwnerAtStart' /\ ThiefHasRead'
    BY DEF StealTyped, OwnerAtStart, ThiefHasRead, Victim
  <2> QED BY <2>2, <2>3, QuietKeeps
<1>2. CASE \E w \in Workers : Own(w)
  BY <1>2, OwnQuiet, WriteOwnKeeps, AdvanceKeeps DEF Own
<1>3. CASE \E w \in Workers : Thief(w)
  BY <1>3, ThiefQuiet, StealKeeps, HaulKeeps DEF Thief
<1> QED BY <1>1, <1>2, <1>3 DEF StealNext, Finished

LEMMA ExactWhenInv == StealInv => RangesAreExact
<1> SUFFICES ASSUME StealInv PROVE RangesAreExact
  OBVIOUS
<1> USE DEF StealInv
<1>1. \A w \in Workers : Assigned(w) \subseteq Territory(w)
  BY FirstFacts DEF StealTyped, InsideFile, Assigned, Territory, Span
<1>2. OneAnswers
  BY <1>1 DEF OneAnswers, NothingTwice
<1>3. StoppedIsWhole
  <2> SUFFICES ASSUME AllDone PROVE fetched = File
    BY DEF StoppedIsWhole
  <2>1. \A w \in Workers : /\ threadPc[w] = "done" /\ end[w] <= start[w]
                           /\ start[w] \in Int /\ end[w] \in Int
    BY DEF AllDone, StealTyped, OwnerAtStart, Owning
  <2>2. \A w \in Workers : Assigned(w) = {} /\ Hauled(w) = {}
    BY <2>1 DEF Assigned, Hauled, Span
  <2> QED BY <2>2 DEF NothingLost, InsideFile
<1> QED BY <1>2, <1>3 DEF RangesAreExact

(* However owners and thieves race on their ranges, no byte is lost, no two *)
(* threads answer for one, and the file is whole when all have stopped      *)
(* (advance, steal, steal_from_largest, WorkStealingScheduler::new).        *)
THEOREM RangesHold == StealSpec => []RangesAreExact
<1> QED BY StealInitHolds, StealNextKeeps, ExactWhenInv, PTL DEF StealSpec

-----------------------------------------------------------------------------
(* Lists of pieces, each in it once.                                        *)
IsList(s) == s \in Seq(ToSet(s)) /\ IsInjective(s)

LEMMA ListShape ==
    ASSUME NEW s, IsList(s)
    PROVE  Len(s) \in Nat /\ DOMAIN s = 1 .. Len(s) /\ ToSet(s) = {s[k] : k \in 1 .. Len(s)}
BY DEF IsList, ToSet

LEMMA EmptyList == IsList(<<>>) /\ ToSet(<<>>) = {}
BY DEF IsList, ToSet, IsInjective

LEMMA NothingListed ==
    ASSUME NEW s, IsList(s)
    PROVE  (s = <<>> <=> ToSet(s) = {}) /\ (s = <<>> <=> Len(s) = 0)
<1>1. s \in Seq(ToSet(s))
    BY DEF IsList
<1>2. s = <<>> <=> Len(s) = 0
    BY <1>1
<1>3. Len(s) \in Nat /\ ToSet(s) = {s[k] : k \in 1 .. Len(s)}
    BY ListShape
<1>4. Len(s) = 0 => ToSet(s) = {}
    BY <1>3
<1>5. Len(s) # 0 => s[1] \in ToSet(s)
    BY <1>3
<1> QED
    BY <1>2, <1>4, <1>5

LEMMA MakeList ==
    ASSUME NEW A, NEW s \in Seq(A), IsInjective(s)
    PROVE  IsList(s)
<1>1. s \in [1 .. Len(s) -> ToSet(s)] /\ Len(s) \in Nat
    BY DEF ToSet
<1>2. s \in Seq(ToSet(s))
    BY <1>1, SeqDef
<1> QED
    BY <1>2 DEF IsList

LEMMA PushFront ==
    ASSUME NEW s, IsList(s), NEW i, i \notin ToSet(s)
    PROVE  /\ IsList(<<i>> \o s) /\ ToSet(<<i>> \o s) = ToSet(s) \cup {i}
           /\ Len(<<i>> \o s) = Len(s) + 1
<1> DEFINE A == ToSet(s) \cup {i}
           r == <<i>> \o s
<1>1. s \in Seq(A) /\ <<i>> \in Seq(A)
    <2>1. s \in Seq(ToSet(s)) /\ ToSet(s) \subseteq A
        BY DEF IsList
    <2>2. s \in Seq(A)
        BY <2>1, SeqMonotonic
    <2>3. <<i>> \in Seq(A)
        OBVIOUS
    <2> QED
        BY <2>2, <2>3
<1> HIDE DEF A
<1>2. /\ r \in Seq(A) /\ Len(r) = Len(s) + 1
      /\ \A k \in 1 .. Len(s) + 1 : r[k] = IF k = 1 THEN i ELSE s[k - 1]
    BY <1>1
<1> HIDE DEF r
<1>3. Len(s) \in Nat /\ DOMAIN s = 1 .. Len(s) /\ ToSet(s) = {s[k] : k \in 1 .. Len(s)}
    BY ListShape
<1>4. DOMAIN r = 1 .. Len(s) + 1 /\ ToSet(r) = {r[k] : k \in 1 .. Len(s) + 1}
    BY <1>2, <1>3, SMTT(30) DEF ToSet
<1>5. ToSet(r) = ToSet(s) \cup {i}
    <2>1. ASSUME NEW x \in ToSet(r) PROVE x \in ToSet(s) \cup {i}
        <3>1. PICK k \in 1 .. Len(s) + 1 : x = r[k]
            BY <1>4
        <3>2. k = 1 \/ k - 1 \in 1 .. Len(s)
            BY <1>3
        <3> QED
            BY <1>2, <1>3, <3>1, <3>2
    <2>2. i \in ToSet(r)
        BY <1>2, <1>3, <1>4
    <2>3. ASSUME NEW x \in ToSet(s) PROVE x \in ToSet(r)
        <3>1. PICK k \in 1 .. Len(s) : x = s[k]
            BY <1>3
        <3>2. k + 1 \in 1 .. Len(s) + 1 /\ r[k + 1] = x
            BY <1>2, <1>3, <3>1
        <3> QED
            BY <1>4, <3>2
    <2> QED
        BY <2>1, <2>2, <2>3
<1>6. IsInjective(r)
    <2> SUFFICES ASSUME NEW k \in 1 .. Len(s) + 1, NEW l \in 1 .. Len(s) + 1, r[k] = r[l]
                 PROVE  k = l
        BY <1>4 DEF IsInjective
    <2>1. \A n \in 1 .. Len(s) + 1 : n # 1 => n - 1 \in 1 .. Len(s) /\ r[n] = s[n - 1] /\ r[n] # i
        BY <1>2, <1>3
    <2>2. r[1] = i
        BY <1>2, <1>3
    <2>3. CASE k = 1 \/ l = 1
        BY <2>1, <2>2, <2>3
    <2>4. CASE k # 1 /\ l # 1
        <3>1. k - 1 \in DOMAIN s /\ l - 1 \in DOMAIN s /\ s[k - 1] = s[l - 1]
            BY <1>3, <2>1, <2>4
        <3>2. k - 1 = l - 1
            BY <3>1 DEF IsList, IsInjective
        <3> QED
            BY <3>2
    <2> QED
        BY <2>3, <2>4
<1> QED
    BY <1>2, <1>5, <1>6, MakeList DEF r

(* A stretch of a list is one.                                              *)
LEMMA Stretch ==
    ASSUME NEW s, IsList(s), NEW n \in 0 .. Len(s)
    PROVE  /\ IsList(SubSeq(s, 1, n)) /\ Len(SubSeq(s, 1, n)) = n
           /\ ToSet(SubSeq(s, 1, n)) = {s[k] : k \in 1 .. n}
<1> DEFINE r == SubSeq(s, 1, n)
<1>1. s \in Seq(ToSet(s)) /\ Len(s) \in Nat /\ DOMAIN s = 1 .. Len(s)
    BY ListShape DEF IsList
<1>2. r \in Seq(ToSet(s)) /\ Len(r) = n /\ \A k \in 1 .. n : r[k] = s[k]
    BY <1>1
<1> HIDE DEF r
<1>3. DOMAIN r = 1 .. n
    BY <1>1, <1>2
<1>4. IsInjective(r)
    BY <1>1, <1>2, <1>3 DEF IsList, IsInjective
<1> QED
    BY <1>2, <1>3, <1>4, MakeList DEF r, ToSet

LEMMA PopBack ==
    ASSUME NEW s, IsList(s), s # <<>>
    PROVE  /\ IsList(Front(s)) /\ Last(s) \in ToSet(s)
           /\ ToSet(Front(s)) = ToSet(s) \ {Last(s)} /\ Len(Front(s)) = Len(s) - 1
<1>1. Len(s) \in Nat \ {0} /\ DOMAIN s = 1 .. Len(s) /\ ToSet(s) = {s[k] : k \in 1 .. Len(s)}
    BY ListShape, NothingListed
<1>2. PICK n : n = Len(s) - 1
    OBVIOUS
<1>3. n \in 0 .. Len(s)
    BY <1>1, <1>2
<1>4. /\ IsList(Front(s)) /\ Len(Front(s)) = n
      /\ ToSet(Front(s)) = {s[k] : k \in 1 .. n}
    BY <1>2, <1>3, Stretch DEF Front
<1>5. Last(s) = s[Len(s)] /\ Len(s) \in 1 .. Len(s)
    BY <1>1 DEF Last
<1>6. \A k \in 1 .. Len(s) : s[k] = s[Len(s)] => k = Len(s)
    BY <1>1, <1>5 DEF IsList, IsInjective
<1>7. {s[k] : k \in 1 .. n} = ToSet(s) \ {Last(s)}
    <2>1. ASSUME NEW k \in 1 .. n PROVE s[k] \in ToSet(s) \ {Last(s)}
        <3>1. n \in Int /\ Len(s) = n + 1
            BY <1>1, <1>2
        <3>2. k \in 1 .. Len(s) /\ k # Len(s)
            BY <3>1
        <3> QED
            BY <3>2, <1>1, <1>5, <1>6
    <2>2. ASSUME NEW x \in ToSet(s) \ {Last(s)} PROVE x \in {s[k] : k \in 1 .. n}
        <3>1. PICK k \in 1 .. Len(s) : x = s[k]
            BY <1>1
        <3>2. k \in 1 .. n
            BY <1>1, <1>2, <1>5, <3>1
        <3> QED
            BY <3>1, <3>2
    <2> QED
        BY <2>1, <2>2
<1> QED
    BY <1>1, <1>2, <1>4, <1>5, <1>7

(* What remove takes out of a list, and what a ghost list becomes.          *)
LEMMA TakeOut ==
    ASSUME NEW s, IsList(s), NEW i
    PROVE  /\ IsList(RemoveFirst(s, i)) /\ ToSet(RemoveFirst(s, i)) = ToSet(s) \ {i}
           /\ Len(RemoveFirst(s, i)) = IF i \in ToSet(s) THEN Len(s) - 1 ELSE Len(s)
<1>1. Len(s) \in Nat /\ DOMAIN s = 1 .. Len(s) /\ ToSet(s) = {s[k] : k \in 1 .. Len(s)}
    BY ListShape
<1>2. CASE i \notin ToSet(s)
    <2>1. ~ \E k \in 1 .. Len(s) : s[k] = i
        BY <1>1, <1>2
    <2> QED
        BY <1>2, <2>1 DEF RemoveFirst
<1>3. CASE i \in ToSet(s)
    <2>1. PICK at \in 1 .. Len(s) : s[at] = i
        BY <1>1, <1>3
    <2>2. \A k \in 1 .. Len(s) : s[k] = i <=> k = at
        BY <1>1, <2>1 DEF IsList, IsInjective
    <2>3. SelectInSeq(s, LAMBDA v : v = i) = at
        <3>1. {k \in 1 .. Len(s) : s[k] = i} = {at}
            BY <2>2
        <3>2. Min({at}) = at
            BY DEF Min
        <3>3. SelectInSeq(s, LAMBDA v : v = i) =
                  IF {k \in 1 .. Len(s) : s[k] = i} # {}
                  THEN Min({k \in 1 .. Len(s) : s[k] = i}) ELSE 0
            BY Zenon DEF SelectInSeq
        <3> QED
            BY <3>1, <3>2, <3>3
    <2>4. RemoveFirst(s, i) = SubSeq(s, 1, at - 1) \o SubSeq(s, at + 1, Len(s))
        BY <2>1, <2>3 DEF RemoveFirst, RemoveAt
    <2> DEFINE r == SubSeq(s, 1, at - 1) \o SubSeq(s, at + 1, Len(s))
    <2>5. /\ r \in Seq(ToSet(s)) /\ Len(r) = Len(s) - 1
          /\ \A k \in 1 .. Len(s) - 1 : r[k] = IF k < at THEN s[k] ELSE s[k + 1]
        <3>1. s \in Seq(ToSet(s))
            BY DEF IsList
        <3>2. PICK u : u = SubSeq(s, 1, at - 1)
            OBVIOUS
        <3>3. PICK v : v = SubSeq(s, at + 1, Len(s))
            OBVIOUS
        <3>4. u \in Seq(ToSet(s)) /\ Len(u) = at - 1 /\ \A k \in 1 .. at - 1 : u[k] = s[k]
            BY <1>1, <3>1, <3>2
        <3>5. v \in Seq(ToSet(s)) /\ Len(v) = Len(s) - at /\ \A k \in 1 .. Len(s) - at : v[k] = s[at + k]
            <4>1. \A k \in at + 1 .. Len(s) : s[k] \in ToSet(s)
                BY <1>1, <3>1
            <4>2. at + 1 \in Int /\ Len(s) \in Int
                BY <1>1
            <4>3. /\ v \in Seq(ToSet(s)) /\ Len(v) = IF at + 1 <= Len(s) THEN Len(s) - (at + 1) + 1 ELSE 0
                  /\ \A k \in 1 .. Len(s) - (at + 1) + 1 : v[k] = s[at + 1 + k - 1]
                BY <4>1, <4>2, <3>3, SubSeqProperties
            <4>4. Len(v) = Len(s) - at /\ Len(s) - (at + 1) + 1 = Len(s) - at
                <5>1. Len(v) = IF at + 1 <= Len(s) THEN Len(s) - (at + 1) + 1 ELSE 0
                    BY <4>3
                <5>2. Len(s) \in Nat /\ at \in 1 .. Len(s)
                    BY <1>1
                <5> QED
                    BY <5>1, <5>2
            <4>5. \A k \in 1 .. Len(s) - at : at + 1 + k - 1 = at + k
                BY <1>1
            <4> QED
                BY <4>3, <4>4, <4>5
        <3>6. r = u \o v
            BY <3>2, <3>3
        <3> HIDE DEF r
        <3>7. /\ r \in Seq(ToSet(s)) /\ Len(r) = Len(u) + Len(v)
              /\ \A k \in 1 .. Len(u) + Len(v) : r[k] = IF k <= Len(u) THEN u[k] ELSE v[k - Len(u)]
            BY <3>4, <3>5, <3>6, ConcatProperties
        <3>8. Len(u) + Len(v) = Len(s) - 1
            BY <3>4, <3>5, <1>1
        <3>9. ASSUME NEW k \in 1 .. Len(s) - 1
              PROVE  r[k] = IF k < at THEN s[k] ELSE s[k + 1]
            <4>1. r[k] = IF k <= Len(u) THEN u[k] ELSE v[k - Len(u)]
                BY <3>7, <3>8
            <4>2. CASE k < at
                <5>1. k \in 1 .. at - 1 /\ k <= Len(u)
                    BY <4>2, <3>4
                <5> QED
                    BY <4>1, <4>2, <5>1, <3>4
            <4>3. CASE ~(k < at)
                <5>1. k - (at - 1) \in 1 .. Len(s) - at /\ at + (k - (at - 1)) = k + 1 /\ ~(k <= at - 1)
                    BY <4>3, <1>1
                <5> QED
                    BY <4>1, <4>3, <5>1, <3>4, <3>5
            <4> QED
                BY <4>2, <4>3
        <3> QED
            BY <3>7, <3>8, <3>9
    <2> HIDE DEF r
    <2>6. DOMAIN r = 1 .. Len(s) - 1
        BY <1>1, <2>5
    <2>7. IsInjective(r)
        <3> SUFFICES ASSUME NEW k \in 1 .. Len(s) - 1, NEW l \in 1 .. Len(s) - 1, r[k] = r[l]
                     PROVE  k = l
            BY <2>6 DEF IsInjective
        <3>1. \A m, n \in 1 .. Len(s) : s[m] = s[n] => m = n
            BY <1>1 DEF IsList, IsInjective
        <3>2. \A m \in 1 .. Len(s) - 1 : m \in 1 .. Len(s) /\ m + 1 \in 1 .. Len(s)
            BY <1>1
        <3> QED
            BY <1>1, <2>5, <3>1, <3>2, SMTT(30)
    <2>8. ToSet(r) = ToSet(s) \ {i}
        <3>1. ToSet(r) = {r[k] : k \in 1 .. Len(s) - 1}
            BY <2>6 DEF ToSet
        <3>2. ASSUME NEW k \in 1 .. Len(s) - 1 PROVE r[k] \in ToSet(s) \ {i}
            <4>1. PICK m \in 1 .. Len(s) : m # at /\ r[k] = s[m]
                <5>1. CASE k < at
                    BY <5>1, <2>5, <1>1
                <5>2. CASE ~(k < at)
                    <6>1. k + 1 \in 1 .. Len(s) /\ k + 1 # at /\ r[k] = s[k + 1]
                        BY <5>2, <2>5, <1>1
                    <6> QED
                        BY <6>1
                <5> QED
                    BY <5>1, <5>2
            <4> QED
                BY <4>1, <2>2, <1>1
        <3>3. ASSUME NEW x \in ToSet(s) \ {i} PROVE \E k \in 1 .. Len(s) - 1 : x = r[k]
            <4>1. PICK m \in 1 .. Len(s) : x = s[m] /\ m # at
                BY <1>1, <2>1
            <4>2. CASE m < at
                <5>1. m \in 1 .. Len(s) - 1
                    BY <1>1, <4>2
                <5> QED
                    BY <5>1, <4>1, <4>2, <2>5
            <4>3. CASE ~(m < at)
                <5>1. m - 1 \in 1 .. Len(s) - 1 /\ ~(m - 1 < at) /\ (m - 1) + 1 = m
                    BY <1>1, <4>1, <4>3
                <5>2. r[m - 1] = s[m]
                    BY <5>1, <2>5
                <5> QED
                    BY <5>1, <5>2, <4>1
            <4> QED
                BY <4>2, <4>3
        <3> QED
            BY <3>1, <3>2, <3>3
    <2>9. IsList(r)
        BY <2>5, <2>7, MakeList
    <2>10. r = RemoveFirst(s, i)
        BY <2>4 DEF r
    <2> QED
        BY <1>3, <2>5, <2>8, <2>9, <2>10
<1> QED
    BY <1>2, <1>3

LEMMA Remember ==
    ASSUME NEW s, IsList(s), NEW i, i \notin ToSet(s), NEW cap \in Nat \ {0}
    PROVE  /\ IsList(Ghosts(s, cap, i)) /\ i \in ToSet(Ghosts(s, cap, i))
           /\ ToSet(Ghosts(s, cap, i)) \subseteq ToSet(s) \cup {i}
<1>1. PICK n : n = IF Len(s) < cap THEN Len(s) ELSE cap - 1
    OBVIOUS
<1>2. Len(s) \in Nat /\ DOMAIN s = 1 .. Len(s) /\ ToSet(s) = {s[k] : k \in 1 .. Len(s)}
    BY ListShape
<1>3. n \in 0 .. Len(s)
    BY <1>1, <1>2
<1>4. PICK r : r = SubSeq(s, 1, n)
    OBVIOUS
<1>5. IsList(r) /\ ToSet(r) = {s[k] : k \in 1 .. n}
    BY <1>3, <1>4, Stretch
<1>6. ToSet(r) \subseteq ToSet(s)
    <2>1. \A k \in 1 .. n : k \in 1 .. Len(s)
        BY <1>2, <1>3
    <2> QED
        BY <1>2, <1>5, <2>1
<1>7. Ghosts(s, cap, i) = <<i>> \o r
    BY <1>1, <1>4 DEF Ghosts
<1>8. IsList(<<i>> \o r) /\ ToSet(<<i>> \o r) = ToSet(r) \cup {i}
    BY <1>5, <1>6, PushFront
<1> QED
    BY <1>6, <1>7, <1>8
-----------------------------------------------------------------------------
(* The bridge's list of pieces: touch and insert keep it as it should be.   *)
ListsWhatItHas(list, held) ==
    /\ IsList(list) /\ ToSet(list) = held
    /\ IsFiniteSet(held) /\ Len(list) = Cardinality(held)
    /\ Cardinality(held) <= IF CacheCapacity = 0 THEN 1 ELSE CacheCapacity

LEMMA TouchedLists ==
    ASSUME NEW list, NEW held, ListsWhatItHas(list, held), NEW p \in held
    PROVE  ListsWhatItHas(<<p>> \o RemoveFirst(list, p), held)
<1>1. /\ IsList(list) /\ ToSet(list) = held /\ Len(list) = Cardinality(held)
      /\ Len(list) \in Nat
    BY ListShape DEF ListsWhatItHas
<1>2. PICK r : r = RemoveFirst(list, p)
    OBVIOUS
<1>3. IsList(r) /\ ToSet(r) = held \ {p} /\ Len(r) = Len(list) - 1
    BY <1>1, <1>2, TakeOut
<1>4. IsList(<<p>> \o r) /\ ToSet(<<p>> \o r) = ToSet(r) \cup {p} /\ Len(<<p>> \o r) = Len(r) + 1
    BY <1>3, PushFront
<1>5. ToSet(<<p>> \o r) = held
    <2>1. (held \ {p}) \cup {p} = held
        OBVIOUS
    <2> QED
        BY <1>3, <1>4, <2>1
<1>6. Len(<<p>> \o r) = Len(list)
    BY <1>1, <1>3, <1>4
<1> QED
    BY <1>1, <1>2, <1>4, <1>5, <1>6 DEF ListsWhatItHas

LEMMA InsertedLists ==
    ASSUME NEW list, NEW held, ListsWhatItHas(list, held), NEW p, p \notin held,
           NEW full, full = (Cardinality(held) >= CacheCapacity /\ list # <<>>)
    PROVE  ListsWhatItHas(<<p>> \o IF full THEN Front(list) ELSE list,
                          (IF full THEN held \ {Last(list)} ELSE held) \cup {p})
<1>1. /\ IsList(list) /\ ToSet(list) = held /\ Len(list) = Cardinality(held)
      /\ IsFiniteSet(held) /\ Cardinality(held) \in Nat /\ CacheCapacity \in Nat
      /\ Cardinality(held) <= IF CacheCapacity = 0 THEN 1 ELSE CacheCapacity
    BY FS_CardinalityType, CachesAssumption DEF ListsWhatItHas
<1>2. PICK r : r = IF full THEN Front(list) ELSE list
    OBVIOUS
<1>3. PICK h : h = IF full THEN held \ {Last(list)} ELSE held
    OBVIOUS
<1>4. /\ IsList(r) /\ ToSet(r) = h /\ IsFiniteSet(h) /\ Len(r) = Cardinality(h)
      /\ Cardinality(h) \in Nat
      /\ Cardinality(h) + 1 <= IF CacheCapacity = 0 THEN 1 ELSE CacheCapacity
    <2>1. CASE full
        <3>1. /\ IsList(r) /\ ToSet(r) = h /\ Len(r) = Len(list) - 1 /\ Last(list) \in held
            BY <1>1, <1>2, <1>3, <2>1, PopBack
        <3>2. IsFiniteSet(h) /\ Cardinality(h) = Cardinality(held) - 1
            <4>1. PICK last : last = Last(list)
                OBVIOUS
            <4>2. IsFiniteSet(held) /\ last \in held /\ h = held \ {last}
                BY <1>3, <2>1, <3>1, <4>1 DEF ListsWhatItHas
            <4> QED
                BY <4>2, FS_RemoveElement
        <3>3. Cardinality(h) \in Nat
            BY <3>2, FS_CardinalityType
        <3> QED
            BY <1>1, <3>1, <3>2, <3>3
    <2>2. CASE ~full
        <3>1. Cardinality(held) + 1 <= IF CacheCapacity = 0 THEN 1 ELSE CacheCapacity
            <4>1. CASE list = <<>>
                <5>1. Cardinality(held) = 0
                    BY <1>1, <4>1, NothingListed
                <5> QED
                    BY <1>1, <5>1
            <4>2. CASE list # <<>>
                <5>1. ~(Cardinality(held) >= CacheCapacity)
                    BY <2>2, <4>2, Zenon
                <5> QED
                    BY <1>1, <5>1
            <4> QED
                BY <4>1, <4>2
        <3> QED
            BY <1>1, <1>2, <1>3, <2>2, <3>1
    <2> QED
        BY <2>1, <2>2
<1>5. p \notin h
    BY <1>3
<1>6. /\ IsList(<<p>> \o r) /\ ToSet(<<p>> \o r) = h \cup {p}
      /\ Len(<<p>> \o r) = Cardinality(h) + 1
    BY <1>4, <1>5, PushFront
<1>7. IsFiniteSet(h \cup {p}) /\ Cardinality(h \cup {p}) = Cardinality(h) + 1
    BY <1>4, <1>5, FS_AddElement
<1>8. ListsWhatItHas(<<p>> \o r, h \cup {p})
    BY <1>4, <1>6, <1>7 DEF ListsWhatItHas
<1> QED
    BY <1>2, <1>3, <1>8

LruInv == ListsWhatItHas(lru, cached)

LEMMA TouchKeeps == ASSUME NEW p, LruInv, Touch(p) PROVE LruInv'
<1>1. CASE p \in cached
    <2>1. lru' = <<p>> \o RemoveFirst(lru, p) /\ cached' = cached
        BY <1>1 DEF Touch
    <2>2. ListsWhatItHas(<<p>> \o RemoveFirst(lru, p), cached)
        BY <1>1, TouchedLists DEF LruInv
    <2>3. ListsWhatItHas(lru', cached')
        BY <2>1, <2>2, Zenon
    <2> QED
        BY <2>3 DEF LruInv, ListsWhatItHas
<1>2. CASE p \notin cached
    BY <1>2 DEF Touch, LruInv, ListsWhatItHas
<1> QED
    BY <1>1, <1>2

LEMMA CacheInsertKeeps == ASSUME NEW p, LruInv, CacheInsert(p) PROVE LruInv'
<1>1. CASE p \in cached
    BY <1>1, TouchKeeps DEF CacheInsert
<1>2. CASE p \notin cached
    <2>1. PICK full : full = (Cardinality(cached) >= CacheCapacity /\ lru # <<>>)
        OBVIOUS
    <2>2. /\ cached' = (IF full THEN cached \ {Last(lru)} ELSE cached) \cup {p}
          /\ lru' = <<p>> \o IF full THEN Front(lru) ELSE lru
        BY <1>2, <2>1 DEF CacheInsert
    <2>3. ListsWhatItHas(<<p>> \o IF full THEN Front(lru) ELSE lru,
                          (IF full THEN cached \ {Last(lru)} ELSE cached) \cup {p})
        BY <1>2, <2>1, InsertedLists DEF LruInv
    <2>4. ListsWhatItHas(lru', cached')
        BY <2>2, <2>3, Zenon
    <2> QED
        BY <2>4 DEF LruInv, ListsWhatItHas
<1> QED
    BY <1>1, <1>2

LEMMA BridgeKeeps == LruInv /\ [BridgeNext]_bridgeVars => LruInv'
<1> SUFFICES ASSUME LruInv, [BridgeNext]_bridgeVars PROVE LruInv'
    OBVIOUS
<1>1. CASE UNCHANGED <<lru, cached>>
    BY <1>1 DEF LruInv, ListsWhatItHas
<1>2. ASSUME NEW c \in Callers, NEW p, RecordRequest(c, p) PROVE LruInv'
    BY <1>2, TouchKeeps DEF RecordRequest
<1>3. ASSUME NEW c \in Callers, MirrorAnswers(c) PROVE LruInv'
    BY <1>3, CacheInsertKeeps DEF MirrorAnswers
<1>4. ASSUME NEW c \in Callers, ChooseMirror(c) \/ MirrorFails(c) PROVE LruInv'
    BY <1>1, <1>4 DEF ChooseMirror, MirrorFails
<1>5. CASE BridgeTick
    BY <1>1, <1>5 DEF BridgeTick
<1>6. CASE UNCHANGED bridgeVars
    BY <1>1, <1>6 DEF bridgeVars
<1>7. CASE BridgeNext
    BY <1>2, <1>3, <1>4, <1>5, <1>7 DEF BridgeNext, FetchPiece, Prefetch
<1> QED
    BY <1>6, <1>7
-----------------------------------------------------------------------------
(* The bytes of pieces.                                                     *)
BytesAt(pieces) == UNION {{i} \X (1 .. PieceBytes[i]) : i \in pieces}
ByteCount(pieces, n) == IsFiniteSet(BytesAt(pieces)) /\ n = Cardinality(BytesAt(pieces))

LEMMA OnePiece ==
    ASSUME NEW i \in CachePieces
    PROVE  /\ PieceBytes[i] \in Nat
           /\ IsFiniteSet({i} \X (1 .. PieceBytes[i]))
           /\ Cardinality({i} \X (1 .. PieceBytes[i])) = PieceBytes[i]
<1>1. PICK b : b = PieceBytes[i]
    OBVIOUS
<1>2. b \in Nat
    BY <1>1, CachesAssumption
<1>3. IsFiniteSet(1 .. b) /\ Cardinality(1 .. b) = b
    <2>1. IsFiniteSet(1 .. b) /\ Cardinality(1 .. b) = IF 1 > b THEN 0 ELSE b - 1 + 1
        BY <1>2, FS_Interval
    <2> QED
        BY <1>2, <2>1
<1>4. IsFiniteSet({i}) /\ Cardinality({i}) = 1
    BY FS_Singleton
<1>5. /\ IsFiniteSet({i} \X (1 .. b))
      /\ Cardinality({i} \X (1 .. b)) = Cardinality({i}) * Cardinality(1 .. b)
    BY <1>3, <1>4, FS_Product
<1>6. 1 * b = b
    BY <1>2
<1> QED
    BY <1>1, <1>2, <1>3, <1>4, <1>5, <1>6

LEMMA NoBytes == ByteCount({}, 0) /\ \A n : ByteCount({}, n) => n = 0
<1>1. BytesAt({}) = {}
    BY DEF BytesAt
<1> QED
    BY <1>1, FS_EmptySet DEF ByteCount

LEMMA MoreBytes ==
    ASSUME NEW S \in SUBSET CachePieces, NEW n, ByteCount(S, n), NEW i \in CachePieces, i \notin S
    PROVE  n \in Nat /\ ByteCount(S \cup {i}, n + PieceBytes[i])
<1>1. PICK own : own = {i} \X (1 .. PieceBytes[i])
    OBVIOUS
<1>2. IsFiniteSet(own) /\ Cardinality(own) = PieceBytes[i] /\ PieceBytes[i] \in Nat
    BY <1>1, OnePiece
<1>3. BytesAt(S \cup {i}) = BytesAt(S) \cup own
    BY <1>1 DEF BytesAt
<1>4. BytesAt(S) \cap own = {}
    <2>1. ASSUME NEW x \in BytesAt(S) PROVE x[1] \in S
        BY DEF BytesAt
    <2>2. ASSUME NEW x \in own PROVE x[1] = i
        BY <1>1
    <2> QED
        BY <2>1, <2>2
<1>5. IsFiniteSet(BytesAt(S)) /\ n = Cardinality(BytesAt(S)) /\ n \in Nat
    BY FS_CardinalityType DEF ByteCount
<1>6. /\ IsFiniteSet(BytesAt(S) \cup own)
      /\ Cardinality(BytesAt(S) \cup own) =
             Cardinality(BytesAt(S)) + Cardinality(own) - Cardinality(BytesAt(S) \cap own)
    BY <1>2, <1>5, FS_Union
<1>7. Cardinality(BytesAt(S) \cap own) = 0
    BY <1>4, FS_EmptySet
<1>8. Cardinality(BytesAt(S) \cup own) = n + PieceBytes[i]
    BY <1>2, <1>5, <1>6, <1>7
<1> QED
    BY <1>3, <1>5, <1>6, <1>8 DEF ByteCount

LEMMA FewerBytes ==
    ASSUME NEW S \in SUBSET CachePieces, NEW n, ByteCount(S, n), NEW i \in S
    PROVE  n - PieceBytes[i] \in Nat /\ n \in Nat /\ ByteCount(S \ {i}, n - PieceBytes[i])
<1>1. PICK T : T = S \ {i}
    OBVIOUS
<1>2. T \subseteq CachePieces /\ i \notin T /\ i \in CachePieces /\ S = T \cup {i}
    BY <1>1
<1>3. IsFiniteSet(BytesAt(T))
    <2>1. BytesAt(T) \subseteq BytesAt(S)
        BY <1>1 DEF BytesAt
    <2> QED
        BY <2>1, FS_Subset DEF ByteCount
<1>4. PICK m : m = Cardinality(BytesAt(T))
    OBVIOUS
<1>5. m \in Nat /\ ByteCount(T, m)
    BY <1>3, <1>4, FS_CardinalityType DEF ByteCount
<1>6. ByteCount(T \cup {i}, m + PieceBytes[i])
    BY <1>2, <1>5, MoreBytes
<1>7. n = m + PieceBytes[i]
    BY <1>2, <1>6 DEF ByteCount
<1>8. PieceBytes[i] \in Nat
    BY <1>2, OnePiece
<1>9. n - PieceBytes[i] = m /\ n \in Nat
    BY <1>5, <1>7, <1>8
<1> QED
    BY <1>1, <1>5, <1>9

-----------------------------------------------------------------------------
(* The adaptive cache.  Sound is what it keeps while it makes room; Known   *)
(* are the pieces that it holds or remembers.                               *)
CacheRecord ==
    [t1 : Seq(CachePieces), t2 : Seq(CachePieces), b1 : Seq(CachePieces), b2 : Seq(CachePieces),
     entries : SUBSET CachePieces, current_bytes : Nat, max_bytes : Nat,
     ghost_cap : Nat \ {0}, p : Nat]

Apart(t1, t2, b1, b2, held) ==
    /\ IsList(t1) /\ IsList(t2) /\ IsList(b1) /\ IsList(b2)
    /\ ToSet(t1) \cup ToSet(t2) = held /\ ToSet(t1) \cap ToSet(t2) = {}
    /\ held \cap ToSet(b1) = {} /\ held \cap ToSet(b2) = {} /\ ToSet(b1) \cap ToSet(b2) = {}

Sound(c) ==
    /\ c \in CacheRecord
    /\ Apart(c.t1, c.t2, c.b1, c.b2, c.entries)
    /\ ByteCount(c.entries, c.current_bytes)
    /\ c.p <= c.ghost_cap

Known(c) == c.entries \cup ToSet(c.b1) \cup ToSet(c.b2)

SameLimits(c, d) == d.max_bytes = c.max_bytes /\ d.ghost_cap = c.ghost_cap /\ d.p = c.p

CacheInv(c) == Sound(c) /\ c.current_bytes <= c.max_bytes

LEMMA PiecesListed ==
    ASSUME NEW s, IsList(s)
    PROVE  s \in Seq(CachePieces) <=> ToSet(s) \subseteq CachePieces
<1>1. ToSet(s) \subseteq CachePieces => s \in Seq(CachePieces)
    BY SeqMonotonic DEF IsList
<1>2. s \in Seq(CachePieces) => ToSet(s) \subseteq CachePieces
    BY DEF ToSet
<1> QED
    BY <1>1, <1>2

LEMMA EvictT1Keeps ==
    ASSUME NEW c, Sound(c), c.t1 # <<>>
    PROVE  /\ Sound(EvictT1(c)) /\ Known(EvictT1(c)) \subseteq Known(c) /\ SameLimits(c, EvictT1(c))
           /\ Len(EvictT1(c).t1) = Len(c.t1) - 1 /\ EvictT1(c).t2 = c.t2
<1>1. PICK i : i = Last(c.t1)
    OBVIOUS
<1>2. PICK t1 : t1 = Front(c.t1)
    OBVIOUS
<1>3. PICK b1 : b1 = Ghosts(c.b1, c.ghost_cap, i)
    OBVIOUS
<1>4. PICK n : n = c.current_bytes - PieceBytes[i]
    OBVIOUS
<1>5. c \in CacheRecord /\ Apart(c.t1, c.t2, c.b1, c.b2, c.entries)
    BY DEF Sound
<1>6. PICK d : d = EvictT1(c)
    OBVIOUS
<1>7. d = [c EXCEPT !.t1 = t1, !.b1 = b1, !.entries = c.entries \ {i}, !.current_bytes = n]
    BY <1>1, <1>2, <1>3, <1>4, <1>6 DEF EvictT1
<1>8. /\ d.t1 = t1 /\ d.t2 = c.t2 /\ d.b1 = b1 /\ d.b2 = c.b2 /\ d.entries = c.entries \ {i}
      /\ d.current_bytes = n /\ d.max_bytes = c.max_bytes /\ d.ghost_cap = c.ghost_cap /\ d.p = c.p
    BY <1>5, <1>7 DEF CacheRecord
<1>9. /\ IsList(t1) /\ i \in ToSet(c.t1) /\ ToSet(t1) = ToSet(c.t1) \ {i}
      /\ Len(t1) = Len(c.t1) - 1
    BY <1>1, <1>2, <1>5, PopBack DEF Apart
<1>10. i \in c.entries /\ i \notin ToSet(c.b1) /\ i \notin ToSet(c.b2) /\ i \notin ToSet(c.t2)
    BY <1>5, <1>9 DEF Apart
<1>11. IsList(b1) /\ ToSet(b1) \subseteq ToSet(c.b1) \cup {i}
    BY <1>3, <1>5, <1>10, Remember DEF Apart, CacheRecord
<1>12. Apart(t1, c.t2, b1, c.b2, c.entries \ {i})
    BY <1>5, <1>9, <1>10, <1>11 DEF Apart
<1>13. n \in Nat /\ ByteCount(c.entries \ {i}, n)
    BY <1>4, <1>5, <1>10, FewerBytes DEF Sound, CacheRecord
<1>14. d \in CacheRecord
    <2>1. ToSet(t1) \subseteq CachePieces /\ ToSet(b1) \subseteq CachePieces
        <3>1. ToSet(c.t1) \subseteq CachePieces /\ ToSet(c.b1) \subseteq CachePieces
            BY <1>5, PiecesListed DEF Apart, CacheRecord
        <3> QED
            BY <3>1, <1>9, <1>11
    <2>2. t1 \in Seq(CachePieces) /\ b1 \in Seq(CachePieces)
        BY <2>1, <1>9, <1>11, PiecesListed
    <2> QED
        BY <1>5, <1>7, <1>13, <2>2 DEF CacheRecord
<1>15. Sound(d)
    BY <1>8, <1>12, <1>13, <1>14 DEF Sound
<1>16. Known(d) \subseteq Known(c) /\ SameLimits(c, d)
    BY <1>8, <1>10, <1>11 DEF Known, SameLimits
<1> QED
    BY <1>6, <1>8, <1>9, <1>15, <1>16

LEMMA EvictT2Keeps ==
    ASSUME NEW c, Sound(c), c.t2 # <<>>
    PROVE  /\ Sound(EvictT2(c)) /\ Known(EvictT2(c)) \subseteq Known(c) /\ SameLimits(c, EvictT2(c))
           /\ Len(EvictT2(c).t2) = Len(c.t2) - 1 /\ EvictT2(c).t1 = c.t1
<1>1. PICK i : i = Last(c.t2)
    OBVIOUS
<1>2. PICK t2 : t2 = Front(c.t2)
    OBVIOUS
<1>3. PICK b2 : b2 = Ghosts(c.b2, c.ghost_cap, i)
    OBVIOUS
<1>4. PICK n : n = c.current_bytes - PieceBytes[i]
    OBVIOUS
<1>5. c \in CacheRecord /\ Apart(c.t1, c.t2, c.b1, c.b2, c.entries)
    BY DEF Sound
<1>6. PICK d : d = EvictT2(c)
    OBVIOUS
<1>7. d = [c EXCEPT !.t2 = t2, !.b2 = b2, !.entries = c.entries \ {i}, !.current_bytes = n]
    BY <1>1, <1>2, <1>3, <1>4, <1>6 DEF EvictT2
<1>8. /\ d.t2 = t2 /\ d.t1 = c.t1 /\ d.b2 = b2 /\ d.b1 = c.b1 /\ d.entries = c.entries \ {i}
      /\ d.current_bytes = n /\ d.max_bytes = c.max_bytes /\ d.ghost_cap = c.ghost_cap /\ d.p = c.p
    BY <1>5, <1>7 DEF CacheRecord
<1>9. /\ IsList(t2) /\ i \in ToSet(c.t2) /\ ToSet(t2) = ToSet(c.t2) \ {i}
      /\ Len(t2) = Len(c.t2) - 1
    BY <1>1, <1>2, <1>5, PopBack DEF Apart
<1>10. i \in c.entries /\ i \notin ToSet(c.b2) /\ i \notin ToSet(c.b1) /\ i \notin ToSet(c.t1)
    BY <1>5, <1>9 DEF Apart
<1>11. IsList(b2) /\ ToSet(b2) \subseteq ToSet(c.b2) \cup {i}
    BY <1>3, <1>5, <1>10, Remember DEF Apart, CacheRecord
<1>12. Apart(c.t1, t2, c.b1, b2, c.entries \ {i})
    BY <1>5, <1>9, <1>10, <1>11 DEF Apart
<1>13. n \in Nat /\ ByteCount(c.entries \ {i}, n)
    BY <1>4, <1>5, <1>10, FewerBytes DEF Sound, CacheRecord
<1>14. d \in CacheRecord
    <2>1. ToSet(t2) \subseteq CachePieces /\ ToSet(b2) \subseteq CachePieces
        <3>1. ToSet(c.t2) \subseteq CachePieces /\ ToSet(c.b2) \subseteq CachePieces
            BY <1>5, PiecesListed DEF Apart, CacheRecord
        <3> QED
            BY <3>1, <1>9, <1>11
    <2>2. t2 \in Seq(CachePieces) /\ b2 \in Seq(CachePieces)
        BY <2>1, <1>9, <1>11, PiecesListed
    <2> QED
        BY <1>5, <1>7, <1>13, <2>2 DEF CacheRecord
<1>15. Sound(d)
    BY <1>8, <1>12, <1>13, <1>14 DEF Sound
<1>16. Known(d) \subseteq Known(c) /\ SameLimits(c, d)
    BY <1>8, <1>10, <1>11 DEF Known, SameLimits
<1> QED
    BY <1>6, <1>8, <1>9, <1>15, <1>16

LEMMA ReplaceKeeps ==
    ASSUME NEW c, Sound(c), ~(c.t1 = <<>> /\ c.t2 = <<>>)
    PROVE  /\ Sound(Replace(c)) /\ Known(Replace(c)) \subseteq Known(c) /\ SameLimits(c, Replace(c))
           /\ Len(Replace(c).t1) + Len(Replace(c).t2) = (Len(c.t1) + Len(c.t2)) - 1
<1>1. Len(c.t1) \in Nat /\ Len(c.t2) \in Nat
    BY DEF Sound, CacheRecord
<1>2. CASE c.t1 # <<>> /\ (c.t2 = <<>> \/ Len(c.t1) > c.p)
    <2>1. Replace(c) = EvictT1(c)
        BY <1>2, Zenon DEF Replace
    <2> QED
        <3>1. PICK d : d = EvictT1(c)
            OBVIOUS
        <3>2. /\ Sound(d) /\ Known(d) \subseteq Known(c) /\ SameLimits(c, d)
              /\ Len(d.t1) = Len(c.t1) - 1 /\ d.t2 = c.t2
            BY <1>2, <3>1, EvictT1Keeps
        <3>3. Len(d.t1) + Len(d.t2) = (Len(c.t1) + Len(c.t2)) - 1
            BY <1>1, <3>2
        <3> QED
            BY <2>1, <3>1, <3>2, <3>3
<1>3. CASE ~(c.t1 # <<>> /\ (c.t2 = <<>> \/ Len(c.t1) > c.p))
    <2>1. Replace(c) = EvictT2(c) /\ c.t2 # <<>>
        BY <1>3, Zenon DEF Replace
    <2> QED
        <3>1. PICK d : d = EvictT2(c)
            OBVIOUS
        <3>2. /\ Sound(d) /\ Known(d) \subseteq Known(c) /\ SameLimits(c, d)
              /\ Len(d.t2) = Len(c.t2) - 1 /\ d.t1 = c.t1
            BY <2>1, <3>1, EvictT2Keeps
        <3>3. Len(d.t1) + Len(d.t2) = (Len(c.t1) + Len(c.t2)) - 1
            BY <1>1, <3>2
        <3> QED
            BY <2>1, <3>1, <3>2, <3>3
<1> QED
    BY <1>2, <1>3

(* What is done again and again to a member of a set, without leaving it.   *)
LEMMA LeastNumber ==
    ASSUME NEW T, T \subseteq Nat, T # {}
    PROVE  \E x \in T : \A y \in T : x <= y
<1> DEFINE R == {ss \in Nat \X Nat : ss[1] < ss[2]}
<1>1. IsWellFoundedOn(R, Nat)
    BY NatLessThanWellFounded DEF OpToRel
<1>2. \A x, y \in Nat : <<y, x>> \in R <=> y < x
    OBVIOUS
<1> HIDE DEF R
<1>3. PICK x \in T : \A y \in T : ~(<<y, x>> \in R)
    BY <1>1, WFMin
<1>4. ASSUME NEW y \in T PROVE x <= y
    <2>1. x \in Nat /\ y \in Nat /\ ~(<<y, x>> \in R)
        BY <1>3
    <2>2. ~(y < x)
        BY <1>2, <2>1
    <2> QED
        BY <2>1, <2>2
<1> QED
    BY <1>3, <1>4

LEMMA ByNumber ==
    ASSUME NEW n \in Nat, NEW S, 0 \in S, \A i \in 1 .. n : i - 1 \in S => i \in S
    PROVE  \A i \in 0 .. n : i \in S
<1> DEFINE T == (0 .. n) \ S
<1>1. SUFFICES ASSUME T # {} PROVE FALSE
    OBVIOUS
<1>2. PICK x \in T : \A y \in T : x <= y
    <2>1. T \subseteq Nat
        OBVIOUS
    <2> QED
        BY <1>1, <2>1, LeastNumber
<1>3. x \in 1 .. n /\ x - 1 \in 0 .. n /\ ~(x <= x - 1)
    BY <1>2
<1>4. x - 1 \notin T
    BY <1>2, <1>3
<1> QED
    BY <1>2, <1>3, <1>4

IsRun(f, h, s, k) == f[0] = s /\ \A n \in 1 .. k : f[n] = h[f[n - 1]]

LEMMA Iterates ==
    ASSUME NEW A, NEW h \in [A -> A], NEW s \in A, NEW k \in Nat
    PROVE  \E f \in [0 .. k -> A] : IsRun(f, h, s, k)
<1> DEFINE Runs(m, f) == f[0] = s /\ \A n \in 1 .. m : f[n] = h[f[n - 1]]
           Good == {m \in 0 .. k : \E f \in [0 .. m -> A] : Runs(m, f)}
<1>1. 0 \in Good
    <2>1. PICK f : f = [i \in 0 .. 0 |-> s]
        OBVIOUS
    <2>2. f \in [0 .. 0 -> A] /\ f[0] = s /\ 1 .. 0 = {}
        BY <2>1
    <2> QED
        BY <2>2
<1>2. ASSUME NEW m \in 1 .. k, m - 1 \in Good PROVE m \in Good
    <2>1. PICK f \in [0 .. m - 1 -> A] : f[0] = s /\ \A n \in 1 .. m - 1 : f[n] = h[f[n - 1]]
        BY <1>2
    <2>2. PICK g : g = [n \in 0 .. m |-> IF n = m THEN h[f[m - 1]] ELSE f[n]]
        OBVIOUS
    <2>3. m - 1 \in 0 .. m - 1 /\ f[m - 1] \in A
        BY <2>1
    <2>4. h[f[m - 1]] \in A
        BY <2>3
    <2>5. \A n \in 0 .. m : n # m => n \in 0 .. m - 1 /\ f[n] \in A
        BY <2>1
    <2>6. g \in [0 .. m -> A]
        BY <2>2, <2>4, <2>5
    <2>7. g[m] = h[f[m - 1]] /\ \A n \in 0 .. m : n # m => g[n] = f[n]
        BY <2>2
    <2>8. g[0] = s
        BY <2>1, <2>7
    <2>9. ASSUME NEW n \in 1 .. m PROVE g[n] = h[g[n - 1]]
        <3>1. n - 1 \in 0 .. m /\ n - 1 # m /\ g[n - 1] = f[n - 1]
            BY <2>7
        <3>2. CASE n = m
            BY <3>1, <3>2, <2>7
        <3>3. CASE n # m
            <4>1. n \in 1 .. m - 1 /\ n \in 0 .. m
                BY <3>3
            <4> QED
                BY <3>1, <3>3, <4>1, <2>1, <2>7
        <3> QED
            BY <3>2, <3>3
    <2>10. Runs(m, g) /\ m \in 0 .. k
        BY <2>8, <2>9
    <2> QED
        BY <2>6, <2>10
<1> HIDE DEF Good
<1>3. k \in Good
    BY <1>1, <1>2, ByNumber
<1> QED
    BY <1>3 DEF Good, IsRun

(* One round of the loop. *)
Round(d, bytes) == IF HasRoom(d, bytes) THEN d ELSE Replace(d)
Size(d) == Len(d.t1) + Len(d.t2)

LEMMA RoundKeeps ==
    ASSUME NEW d, Sound(d), NEW bytes
    PROVE  /\ Sound(Round(d, bytes)) /\ Known(Round(d, bytes)) \subseteq Known(d)
           /\ SameLimits(d, Round(d, bytes)) /\ Size(d) \in Nat
           /\ HasRoom(d, bytes) => Round(d, bytes) = d
           /\ ~HasRoom(d, bytes) => Size(Round(d, bytes)) = Size(d) - 1
<1>1. Size(d) \in Nat
    BY DEF Sound, CacheRecord, Size
<1>2. CASE HasRoom(d, bytes)
    <2>1. Round(d, bytes) = d
        BY <1>2 DEF Round
    <2> QED
        BY <1>1, <1>2, <2>1 DEF SameLimits
<1>3. CASE ~HasRoom(d, bytes)
    <2>1. Round(d, bytes) = Replace(d) /\ ~(d.t1 = <<>> /\ d.t2 = <<>>)
        BY <1>3 DEF Round, HasRoom
    <2>2. Sound(Replace(d)) /\ Known(Replace(d)) \subseteq Known(d) /\ SameLimits(d, Replace(d))
        BY <2>1, ReplaceKeeps
    <2>3. Size(Replace(d)) = Size(d) - 1
        BY <2>1, ReplaceKeeps DEF Size
    <2> QED
        BY <1>1, <1>3, <2>1, <2>2, <2>3
<1> QED
    BY <1>2, <1>3

(* The rounds, one after the other.                                         *)
AreRounds(f, c, bytes, k) == f = [n \in 0 .. k |-> IF n = 0 THEN c ELSE Round(f[n - 1], bytes)]

LEMMA RoundsRun ==
    ASSUME NEW c, Sound(c), NEW bytes, NEW k \in Nat
    PROVE  \E f : AreRounds(f, c, bytes, k)
<1> DEFINE A == {d \in CacheRecord : Sound(d)}
<1>1. c \in A
    BY DEF Sound
<1>2. PICK h : h = [d \in A |-> Round(d, bytes)]
    OBVIOUS
<1>3. h \in [A -> A]
    <2>1. ASSUME NEW d \in A PROVE Round(d, bytes) \in A
        BY RoundKeeps DEF Sound
    <2> QED
        BY <1>2, <2>1
<1>4. \A d \in A : h[d] = Round(d, bytes)
    BY <1>2
<1> HIDE DEF A
<1>5. PICK f \in [0 .. k -> A] : IsRun(f, h, c, k)
    BY <1>1, <1>3, Iterates
<1>6. f[0] = c /\ \A n \in 1 .. k : f[n] = h[f[n - 1]]
    BY <1>5 DEF IsRun
<1>8. \A n \in 1 .. k : n - 1 \in 0 .. k /\ f[n - 1] \in A /\ f[n] = Round(f[n - 1], bytes)
    BY <1>4, <1>5, <1>6
<1>7. f = [n \in 0 .. k |-> IF n = 0 THEN c ELSE Round(f[n - 1], bytes)]
    <2>1. ASSUME NEW n \in 0 .. k PROVE f[n] = IF n = 0 THEN c ELSE Round(f[n - 1], bytes)
        <3>1. n = 0 \/ n \in 1 .. k
            OBVIOUS
        <3> QED
            BY <3>1, <1>6, <1>8
    <2> QED
        BY <1>5, <2>1
<1> QED
    BY <1>7, Zenon DEF AreRounds

LEMMA Unrolled ==
    ASSUME NEW c, NEW bytes, NEW k \in Nat, k = Size(c),
           NEW f, AreRounds(f, c, bytes, k)
    PROVE  \E after : AreRounds(after, c, bytes, k) /\ EnsureRoom(c, bytes) = after[k]
<1> DEFINE after[n \in 0 .. k] ==
               IF n = 0 THEN c
               ELSE IF HasRoom(after[n - 1], bytes) THEN after[n - 1] ELSE Replace(after[n - 1])
<1>1. EnsureRoom(c, bytes) = after[k]
    BY Zenon DEF EnsureRoom, Size
<1>2. f = [n \in 0 .. k |-> IF n = 0 THEN c
                          ELSE IF HasRoom(f[n - 1], bytes) THEN f[n - 1] ELSE Replace(f[n - 1])]
    BY Zenon DEF Round, AreRounds
<1>3. after = [n \in 0 .. k |-> IF n = 0 THEN c
                          ELSE IF HasRoom(after[n - 1], bytes) THEN after[n - 1] ELSE Replace(after[n - 1])]
    BY <1>2, Zenon
<1> HIDE DEF after
<1>4. AreRounds(after, c, bytes, k)
    BY <1>3, Zenon DEF Round, AreRounds
<1> QED
    BY <1>1, <1>4

(* ensure_room ends with room, and has touched nothing but what it evicted. *)
LEMMA RoomIsMade ==
    ASSUME NEW c, Sound(c), NEW bytes
    PROVE  /\ Sound(EnsureRoom(c, bytes)) /\ Known(EnsureRoom(c, bytes)) \subseteq Known(c)
           /\ SameLimits(c, EnsureRoom(c, bytes)) /\ HasRoom(EnsureRoom(c, bytes), bytes)
<1>1. PICK k : k = Size(c)
    OBVIOUS
<1>2. k \in Nat
    BY <1>1, RoundKeeps
<1>3. PICK f : AreRounds(f, c, bytes, k) /\ EnsureRoom(c, bytes) = f[k]
    BY <1>1, <1>2, RoundsRun, Unrolled
<1>4. f[0] = c /\ \A n \in 1 .. k : n - 1 \in 0 .. k /\ f[n] = Round(f[n - 1], bytes)
    BY <1>2, <1>3 DEF AreRounds
<1> DEFINE Fine(n) == /\ Sound(f[n]) /\ Known(f[n]) \subseteq Known(c) /\ SameLimits(c, f[n])
                      /\ HasRoom(f[n], bytes) \/ Size(f[n]) = k - n
           S == {n \in 0 .. k : Fine(n)}
<1>5. 0 \in S
    BY <1>1, <1>2, <1>4 DEF SameLimits
<1>6. ASSUME NEW n \in 1 .. k, n - 1 \in S PROVE n \in S
    <2>1. PICK d : d = f[n - 1]
        OBVIOUS
    <2>2. /\ Sound(d) /\ Known(d) \subseteq Known(c) /\ SameLimits(c, d)
          /\ HasRoom(d, bytes) \/ Size(d) = k - (n - 1)
        BY <1>6, <2>1
    <2>3. f[n] = Round(d, bytes)
        BY <1>4, <2>1
    <2>4. /\ Sound(f[n]) /\ Known(f[n]) \subseteq Known(c) /\ SameLimits(c, f[n])
        BY <2>2, <2>3, RoundKeeps DEF SameLimits
    <2>5. HasRoom(f[n], bytes) \/ Size(f[n]) = k - n
        <3>1. CASE HasRoom(d, bytes)
            BY <2>2, <2>3, <3>1, RoundKeeps
        <3>2. CASE ~HasRoom(d, bytes)
            <4>1. Size(f[n]) = Size(d) - 1 /\ Size(d) = k - (n - 1)
                BY <2>2, <2>3, <3>2, RoundKeeps
            <4> QED
                BY <1>2, <4>1
        <3> QED
            BY <3>1, <3>2
    <2> QED
        BY <2>4, <2>5, <1>2
<1> HIDE DEF S
<1>7. k \in S
    BY <1>2, <1>5, <1>6, ByNumber
<1>8. /\ Sound(f[k]) /\ Known(f[k]) \subseteq Known(c) /\ SameLimits(c, f[k])
      /\ HasRoom(f[k], bytes) \/ Size(f[k]) = k - k
    BY <1>7 DEF S
<1>9. HasRoom(f[k], bytes)
    <2>1. CASE Size(f[k]) = k - k
        <3>1. PICK d : d = f[k]
            OBVIOUS
        <3>2. d \in CacheRecord /\ IsList(d.t1) /\ IsList(d.t2)
            BY <1>8, <3>1 DEF Sound, Apart
        <3>3. PICK m, n : m = Len(d.t1) /\ n = Len(d.t2)
            OBVIOUS
        <3>4. m \in Nat /\ n \in Nat
            BY <3>2, <3>3 DEF CacheRecord
        <3>5. m + n = k - k
            BY <2>1, <3>1, <3>3, Zenon DEF Size
        <3>6. m = 0 /\ n = 0
            BY <1>2, <3>4, <3>5
        <3>7. d.t1 = <<>> /\ d.t2 = <<>>
            BY <3>2, <3>3, <3>6, NothingListed
        <3> QED
            BY <3>1, <3>7 DEF HasRoom
    <2> QED
        BY <1>8, <2>1
<1> QED
    BY <1>3, <1>8, <1>9

(* A cache put together from its parts.                                     *)
LEMMA Assembled ==
    ASSUME NEW t1, NEW t2, NEW b1, NEW b2, NEW held, NEW n \in Nat, NEW m \in Nat,
           NEW g \in Nat \ {0}, NEW p \in Nat,
           Apart(t1, t2, b1, b2, held), ByteCount(held, n), p <= g,
           held \subseteq CachePieces, ToSet(b1) \subseteq CachePieces, ToSet(b2) \subseteq CachePieces,
           NEW d, d = [t1 |-> t1, t2 |-> t2, b1 |-> b1, b2 |-> b2, entries |-> held,
                       current_bytes |-> n, max_bytes |-> m, ghost_cap |-> g, p |-> p]
    PROVE  Sound(d)
<1>1. /\ t1 \in Seq(CachePieces) /\ t2 \in Seq(CachePieces)
      /\ b1 \in Seq(CachePieces) /\ b2 \in Seq(CachePieces)
    <2>1. ToSet(t1) \subseteq CachePieces /\ ToSet(t2) \subseteq CachePieces
        BY DEF Apart
    <2> QED
        BY <2>1, PiecesListed DEF Apart
<1>2. d \in CacheRecord
    BY <1>1 DEF CacheRecord
<1> QED
    BY <1>2 DEF Sound

LEMMA Parts ==
    ASSUME NEW c, Sound(c)
    PROVE  /\ c \in CacheRecord /\ Apart(c.t1, c.t2, c.b1, c.b2, c.entries)
           /\ c = [t1 |-> c.t1, t2 |-> c.t2, b1 |-> c.b1, b2 |-> c.b2, entries |-> c.entries,
                   current_bytes |-> c.current_bytes, max_bytes |-> c.max_bytes,
                   ghost_cap |-> c.ghost_cap, p |-> c.p]
           /\ c.entries \subseteq CachePieces
           /\ ToSet(c.b1) \subseteq CachePieces /\ ToSet(c.b2) \subseteq CachePieces
           /\ c.current_bytes \in Nat /\ c.max_bytes \in Nat
           /\ c.ghost_cap \in Nat \ {0} /\ c.p \in Nat /\ c.p <= c.ghost_cap
           /\ ByteCount(c.entries, c.current_bytes)
<1>1. c \in CacheRecord /\ Apart(c.t1, c.t2, c.b1, c.b2, c.entries)
    BY DEF Sound
<1>2. ToSet(c.b1) \subseteq CachePieces /\ ToSet(c.b2) \subseteq CachePieces
    BY <1>1, PiecesListed DEF Apart, CacheRecord
<1>3. c = [t1 |-> c.t1, t2 |-> c.t2, b1 |-> c.b1, b2 |-> c.b2, entries |-> c.entries,
           current_bytes |-> c.current_bytes, max_bytes |-> c.max_bytes,
           ghost_cap |-> c.ghost_cap, p |-> c.p]
    BY <1>1 DEF CacheRecord
<1>4. /\ c.entries \subseteq CachePieces
      /\ c.current_bytes \in Nat /\ c.max_bytes \in Nat /\ c.ghost_cap \in Nat \ {0} /\ c.p \in Nat
    BY <1>1 DEF CacheRecord
<1> QED
    BY <1>1, <1>2, <1>3, <1>4 DEF Sound

(* The operations, one by one.                                              *)
LEMMA CapIsPositive ==
    ASSUME NEW b \in Budgets
    PROVE  GhostCap(b) \in Nat \ {0} /\ b \in Nat
<1>1. PICK u, m : u = GhostUnit /\ m = MinGhosts
    OBVIOUS
<1>2. u \in Nat \ {0} /\ m \in Nat \ {0} /\ b \in Nat
    BY <1>1, CachesAssumption
<1>3. b \div u \in Nat
    BY <1>2
<1> QED
    BY <1>1, <1>2, <1>3 DEF GhostCap

LEMMA EmptyCache ==
    ASSUME NEW m \in Nat, NEW g \in Nat \ {0}, NEW d,
           d = [t1 |-> <<>>, t2 |-> <<>>, b1 |-> <<>>, b2 |-> <<>>, entries |-> {},
                current_bytes |-> 0, max_bytes |-> m, ghost_cap |-> g, p |-> 0]
    PROVE  CacheInv(d)
<1>1. Apart(<<>>, <<>>, <<>>, <<>>, {})
    BY EmptyList DEF Apart
<1>2. Sound(d)
    <2>1. PICK e, h : e = <<>> /\ h = {}
        OBVIOUS
    <2>2. Apart(e, e, e, e, h) /\ ByteCount(h, 0) /\ ToSet(e) = {}
        BY <1>1, <2>1, EmptyList, NoBytes
    <2>3. /\ h \subseteq CachePieces /\ ToSet(e) \subseteq CachePieces /\ 0 \in Nat /\ 0 <= g
        BY <2>1, <2>2
    <2>4. d = [t1 |-> e, t2 |-> e, b1 |-> e, b2 |-> e, entries |-> h,
               current_bytes |-> 0, max_bytes |-> m, ghost_cap |-> g, p |-> 0]
        BY <2>1
    <2> QED
        BY <2>2, <2>3, <2>4, Assembled
<1>3. d.current_bytes = 0 /\ d.max_bytes = m
    OBVIOUS
<1> QED
    BY <1>2, <1>3 DEF CacheInv

LEMMA PromoteKeeps ==
    ASSUME NEW c, CacheInv(c), NEW i \in c.entries
    PROVE  CacheInv(PromoteToT2(c, i))
<1>0. Sound(c)
    BY DEF CacheInv
<1>1. PICK t1 : t1 = RemoveFirst(c.t1, i)
    OBVIOUS
<1>2. PICK r : r = IF i \in ToSet(c.t1) THEN c.t2 ELSE RemoveFirst(c.t2, i)
    OBVIOUS
<1>3. PICK d : d = PromoteToT2(c, i)
    OBVIOUS
<1>4. Apart(c.t1, c.t2, c.b1, c.b2, c.entries)
    BY <1>0, Parts
<1>5. IsList(t1) /\ ToSet(t1) = ToSet(c.t1) \ {i}
    BY <1>1, <1>4, TakeOut DEF Apart
<1>6. IsList(r) /\ ToSet(r) = ToSet(c.t2) \ {i}
    <2>1. CASE i \in ToSet(c.t1)
        BY <1>2, <1>4, <2>1 DEF Apart
    <2>2. CASE i \notin ToSet(c.t1)
        BY <1>2, <1>4, <2>2, TakeOut DEF Apart
    <2> QED
        BY <2>1, <2>2
<1>7. IsList(<<i>> \o r) /\ ToSet(<<i>> \o r) = ToSet(r) \cup {i}
    BY <1>6, PushFront
<1>8. PICK t2 : t2 = <<i>> \o r
    OBVIOUS
<1>9. Apart(t1, t2, c.b1, c.b2, c.entries)
    BY <1>4, <1>5, <1>6, <1>7, <1>8 DEF Apart
<1>10. d = [c EXCEPT !.t1 = t1, !.t2 = t2]
    BY <1>1, <1>2, <1>3, <1>8 DEF PromoteToT2
<1>11. d = [t1 |-> t1, t2 |-> t2, b1 |-> c.b1, b2 |-> c.b2, entries |-> c.entries,
           current_bytes |-> c.current_bytes, max_bytes |-> c.max_bytes,
           ghost_cap |-> c.ghost_cap, p |-> c.p]
    <2>1. c \in CacheRecord
        BY <1>0, Parts
    <2> QED
        BY <1>10, <2>1 DEF CacheRecord
<1>12. Sound(d)
    BY <1>0, <1>9, <1>11, Parts, Assembled
<1>13. d.current_bytes = c.current_bytes /\ d.max_bytes = c.max_bytes
    BY <1>11
<1> QED
    BY <1>3, <1>12, <1>13 DEF CacheInv

LEMMA AimKeeps ==
    ASSUME NEW c, Sound(c), NEW q \in Nat, q <= c.ghost_cap, NEW d, d = [c EXCEPT !.p = q]
    PROVE  /\ Sound(d) /\ Known(d) = Known(c) /\ d.max_bytes = c.max_bytes
           /\ d.b1 = c.b1 /\ d.b2 = c.b2 /\ d.entries = c.entries
<1>1. d = [t1 |-> c.t1, t2 |-> c.t2, b1 |-> c.b1, b2 |-> c.b2, entries |-> c.entries,
           current_bytes |-> c.current_bytes, max_bytes |-> c.max_bytes,
           ghost_cap |-> c.ghost_cap, p |-> q]
    <2>1. c \in CacheRecord
        BY Parts
    <2> QED
        BY <2>1 DEF CacheRecord
<1>2. Sound(d)
    BY <1>1, Parts, Assembled
<1> QED
    BY <1>1, <1>2 DEF Known

LEMMA ForgetB1Keeps ==
    ASSUME NEW c, Sound(c), NEW i
    PROVE  /\ Sound(ForgetB1(c, i)) /\ ForgetB1(c, i).max_bytes = c.max_bytes
           /\ ForgetB1(c, i).current_bytes = c.current_bytes
           /\ Known(ForgetB1(c, i)) = c.entries \cup (ToSet(c.b1) \ {i}) \cup ToSet(c.b2)
<1>1. PICK b1 : b1 = RemoveFirst(c.b1, i)
    OBVIOUS
<1>2. PICK d : d = ForgetB1(c, i)
    OBVIOUS
<1>3. Apart(c.t1, c.t2, c.b1, c.b2, c.entries) /\ c \in CacheRecord
    BY Parts
<1>4. IsList(b1) /\ ToSet(b1) = ToSet(c.b1) \ {i}
    BY <1>1, <1>3, TakeOut DEF Apart
<1>5. Apart(c.t1, c.t2, b1, c.b2, c.entries)
    BY <1>3, <1>4 DEF Apart
<1>6. d = [t1 |-> c.t1, t2 |-> c.t2, b1 |-> b1, b2 |-> c.b2, entries |-> c.entries,
           current_bytes |-> c.current_bytes, max_bytes |-> c.max_bytes,
           ghost_cap |-> c.ghost_cap, p |-> c.p]
    <2>1. d = [c EXCEPT !.b1 = b1]
        BY <1>1, <1>2 DEF ForgetB1
    <2> QED
        BY <1>3, <2>1 DEF CacheRecord
<1>7. Sound(d)
    <2>1. ToSet(b1) \subseteq CachePieces
        BY <1>4, Parts
    <2> QED
        BY <1>5, <1>6, <2>1, Parts, Assembled
<1>8. d.max_bytes = c.max_bytes /\ d.current_bytes = c.current_bytes /\ d.entries = c.entries
      /\ d.b1 = b1 /\ d.b2 = c.b2
    BY <1>6
<1> QED
    BY <1>2, <1>4, <1>7, <1>8 DEF Known

LEMMA ForgetB2Keeps ==
    ASSUME NEW c, Sound(c), NEW i
    PROVE  /\ Sound(ForgetB2(c, i)) /\ ForgetB2(c, i).max_bytes = c.max_bytes
           /\ ForgetB2(c, i).current_bytes = c.current_bytes
           /\ Known(ForgetB2(c, i)) = c.entries \cup ToSet(c.b1) \cup (ToSet(c.b2) \ {i})
<1>1. PICK b2 : b2 = RemoveFirst(c.b2, i)
    OBVIOUS
<1>2. PICK d : d = ForgetB2(c, i)
    OBVIOUS
<1>3. Apart(c.t1, c.t2, c.b1, c.b2, c.entries) /\ c \in CacheRecord
    BY Parts
<1>4. IsList(b2) /\ ToSet(b2) = ToSet(c.b2) \ {i}
    BY <1>1, <1>3, TakeOut DEF Apart
<1>5. Apart(c.t1, c.t2, c.b1, b2, c.entries)
    BY <1>3, <1>4 DEF Apart
<1>6. d = [t1 |-> c.t1, t2 |-> c.t2, b1 |-> c.b1, b2 |-> b2, entries |-> c.entries,
           current_bytes |-> c.current_bytes, max_bytes |-> c.max_bytes,
           ghost_cap |-> c.ghost_cap, p |-> c.p]
    <2>1. d = [c EXCEPT !.b2 = b2]
        BY <1>1, <1>2 DEF ForgetB2
    <2> QED
        BY <1>3, <2>1 DEF CacheRecord
<1>7. Sound(d)
    <2>1. ToSet(b2) \subseteq CachePieces
        BY <1>4, Parts
    <2> QED
        BY <1>5, <1>6, <2>1, Parts, Assembled
<1>8. d.max_bytes = c.max_bytes /\ d.current_bytes = c.current_bytes /\ d.entries = c.entries
      /\ d.b1 = c.b1 /\ d.b2 = b2
    BY <1>6
<1> QED
    BY <1>2, <1>4, <1>7, <1>8 DEF Known

(* A piece that is not known and could fit is let in, and the budget kept.  *)
LEMMA RoomFor ==
    ASSUME NEW e, Sound(e), NEW bytes \in Nat, HasRoom(e, bytes), bytes <= e.max_bytes
    PROVE  e.current_bytes + bytes <= e.max_bytes
<1>1. CASE e.t1 = <<>> /\ e.t2 = <<>>
    <2>1. e.entries = {}
        BY <1>1, EmptyList, Parts DEF Apart
    <2>2. e.current_bytes = 0
        BY <2>1, NoBytes, Parts
    <2> QED
        BY <2>2
<1> QED
    BY <1>1 DEF HasRoom

LEMMA AdmitKeeps ==
    ASSUME NEW c, Sound(c), NEW i \in CachePieces, i \notin Known(c), PieceBytes[i] <= c.max_bytes
    PROVE  CacheInv(AdmitToT1(c, i)) /\ CacheInv(AdmitToT2(c, i))
<1>1. PICK bytes : bytes = PieceBytes[i]
    OBVIOUS
<1>2. bytes \in Nat
    BY <1>1, OnePiece
<1>3. PICK e : e = EnsureRoom(c, bytes)
    OBVIOUS
<1>4. Sound(e) /\ Known(e) \subseteq Known(c) /\ e.max_bytes = c.max_bytes /\ HasRoom(e, bytes)
    BY <1>3, RoomIsMade DEF SameLimits
<1>5. /\ c \in CacheRecord /\ e \in CacheRecord /\ Apart(e.t1, e.t2, e.b1, e.b2, e.entries)
      /\ e.entries \subseteq CachePieces /\ ByteCount(e.entries, e.current_bytes)
    BY <1>4, Parts
<1>6. e.current_bytes + bytes <= e.max_bytes
    BY <1>1, <1>2, <1>4, RoomFor
<1>7. /\ i \notin e.entries /\ i \notin ToSet(e.b1) /\ i \notin ToSet(e.b2)
      /\ i \notin ToSet(e.t1) /\ i \notin ToSet(e.t2)
    BY <1>4, <1>5 DEF Known, Apart
<1>8. PICK n, held : n = e.current_bytes + bytes /\ held = e.entries \cup {i}
    OBVIOUS
<1>9. n \in Nat /\ ByteCount(held, n) /\ held \subseteq CachePieces
    <2>1. e.current_bytes \in Nat
        BY <1>5 DEF CacheRecord
    <2>2. ByteCount(held, n)
        BY <1>1, <1>5, <1>7, <1>8, MoreBytes
    <2> QED
        BY <1>2, <1>5, <1>8, <2>1, <2>2
<1>10. PICK a : a = Admit(c, i)
    OBVIOUS
<1>11. a = [e EXCEPT !.current_bytes = n, !.entries = held]
    BY <1>1, <1>3, <1>8, <1>10 DEF Admit
<1>12. a.t1 = e.t1 /\ a.t2 = e.t2
    BY <1>5, <1>11 DEF CacheRecord
<1>13. CacheInv(AdmitToT1(c, i))
    <2>1. PICK t1 : t1 = <<i>> \o e.t1
        OBVIOUS
    <2>2. IsList(t1) /\ ToSet(t1) = ToSet(e.t1) \cup {i}
        BY <1>5, <1>7, <2>1, PushFront DEF Apart
    <2>3. Apart(t1, e.t2, e.b1, e.b2, held)
        BY <1>5, <1>7, <1>8, <2>2 DEF Apart
    <2>4. PICK d : d = AdmitToT1(c, i)
        OBVIOUS
    <2>5. d = [a EXCEPT !.t1 = t1]
        BY <1>10, <1>12, <2>1, <2>4 DEF AdmitToT1
    <2>6. d = [t1 |-> t1, t2 |-> e.t2, b1 |-> e.b1, b2 |-> e.b2, entries |-> held,
               current_bytes |-> n, max_bytes |-> e.max_bytes, ghost_cap |-> e.ghost_cap, p |-> e.p]
        BY <1>5, <1>11, <2>5 DEF CacheRecord
    <2>7. Sound(d)
        BY <1>4, <1>9, <2>3, <2>6, Parts, Assembled
    <2> QED
        BY <1>6, <1>8, <2>4, <2>6, <2>7 DEF CacheInv
<1>14. CacheInv(AdmitToT2(c, i))
    <2>1. PICK t2 : t2 = <<i>> \o e.t2
        OBVIOUS
    <2>2. IsList(t2) /\ ToSet(t2) = ToSet(e.t2) \cup {i}
        BY <1>5, <1>7, <2>1, PushFront DEF Apart
    <2>3. Apart(e.t1, t2, e.b1, e.b2, held)
        BY <1>5, <1>7, <1>8, <2>2 DEF Apart
    <2>4. PICK d : d = AdmitToT2(c, i)
        OBVIOUS
    <2>5. d = [a EXCEPT !.t2 = t2]
        BY <1>10, <1>12, <2>1, <2>4 DEF AdmitToT2
    <2>6. d = [t1 |-> e.t1, t2 |-> t2, b1 |-> e.b1, b2 |-> e.b2, entries |-> held,
               current_bytes |-> n, max_bytes |-> e.max_bytes, ghost_cap |-> e.ghost_cap, p |-> e.p]
        BY <1>5, <1>11, <2>5 DEF CacheRecord
    <2>7. Sound(d)
        BY <1>4, <1>9, <2>3, <2>6, Parts, Assembled
    <2> QED
        BY <1>6, <1>8, <2>4, <2>6, <2>7 DEF CacheInv
<1> QED
    BY <1>13, <1>14

(* insert. *)
LEMMA AimsAreFair ==
    ASSUME NEW c, Sound(c)
    PROVE  /\ Raised(c) \in Nat /\ Raised(c) <= c.ghost_cap
           /\ Lowered(c) \in Nat /\ Lowered(c) <= c.ghost_cap
<1>1. PICK k, l, p, cap : k = Len(c.b1) /\ l = Len(c.b2) /\ p = c.p /\ cap = c.ghost_cap
    OBVIOUS
<1>2. k \in Nat /\ l \in Nat /\ p \in Nat /\ cap \in Nat /\ p <= cap
    BY <1>1, Parts DEF CacheRecord
<1>3. PICK q, r : q = AtLeastOne(l \div AtLeastOne(k)) /\ r = AtLeastOne(k \div AtLeastOne(l))
    OBVIOUS
<1>4. PICK a, b : a = AtLeastOne(k) /\ b = AtLeastOne(l)
    OBVIOUS
<1>5. a \in Nat \ {0} /\ b \in Nat \ {0}
    BY <1>2, <1>4 DEF AtLeastOne
<1>6. l \div a \in Nat /\ k \div b \in Nat
    BY <1>2, <1>5
<1>7. q \in Nat /\ r \in Nat
    BY <1>3, <1>4, <1>6 DEF AtLeastOne
<1>8. Raised(c) = IF p + q > cap THEN cap ELSE p + q
    BY <1>1, <1>3 DEF Raised
<1>9. Lowered(c) = IF r > p THEN 0 ELSE p - r
    BY <1>1, <1>3 DEF Lowered
<1> QED
    BY <1>1, <1>2, <1>7, <1>8, <1>9

LEMMA InsertKeeps ==
    ASSUME NEW c, CacheInv(c), NEW i \in CachePieces
    PROVE  CacheInv(Inserted(c, i))
<1>1. Sound(c) /\ Apart(c.t1, c.t2, c.b1, c.b2, c.entries)
    BY Parts DEF CacheInv
<1>2. CASE PieceBytes[i] > c.max_bytes
    BY <1>2 DEF Inserted
<1>3. CASE ~(PieceBytes[i] > c.max_bytes) /\ i \in c.entries
    BY <1>3, PromoteKeeps DEF Inserted
<1>4. PieceBytes[i] \in Nat /\ c.max_bytes \in Nat
    BY <1>1, OnePiece, Parts
<1>5. CASE ~(PieceBytes[i] > c.max_bytes) /\ i \notin c.entries /\ i \in ToSet(c.b1)
    <2>1. PICK q : q = Raised(c)
        OBVIOUS
    <2>2. PICK d : d = [c EXCEPT !.p = q]
        OBVIOUS
    <2>3. q \in Nat /\ q <= c.ghost_cap
        BY <1>1, <2>1, AimsAreFair
    <2>4. /\ Sound(d) /\ d.max_bytes = c.max_bytes
          /\ d.b1 = c.b1 /\ d.b2 = c.b2 /\ d.entries = c.entries
        BY <1>1, <2>2, <2>3, AimKeeps
    <2>5. PICK e : e = ForgetB1(d, i)
        OBVIOUS
    <2>6. /\ Sound(e) /\ e.max_bytes = d.max_bytes
          /\ Known(e) = d.entries \cup (ToSet(d.b1) \ {i}) \cup ToSet(d.b2)
        BY <2>4, <2>5, ForgetB1Keeps
    <2>7. i \notin Known(e)
        BY <1>1, <1>5, <2>4, <2>6 DEF Apart
    <2>8. CacheInv(AdmitToT2(e, i))
        BY <1>4, <1>5, <2>4, <2>6, <2>7, AdmitKeeps
    <2>9. Inserted(c, i) = AdmitToT2(e, i)
        BY <1>5, <2>1, <2>2, <2>5, Zenon DEF Inserted
    <2> QED
        BY <2>8, <2>9
<1>6. CASE ~(PieceBytes[i] > c.max_bytes) /\ i \notin c.entries /\ i \notin ToSet(c.b1)
           /\ i \in ToSet(c.b2)
    <2>1. PICK q : q = Lowered(c)
        OBVIOUS
    <2>2. PICK d : d = [c EXCEPT !.p = q]
        OBVIOUS
    <2>3. q \in Nat /\ q <= c.ghost_cap
        BY <1>1, <2>1, AimsAreFair
    <2>4. /\ Sound(d) /\ d.max_bytes = c.max_bytes
          /\ d.b1 = c.b1 /\ d.b2 = c.b2 /\ d.entries = c.entries
        BY <1>1, <2>2, <2>3, AimKeeps
    <2>5. PICK e : e = ForgetB2(d, i)
        OBVIOUS
    <2>6. /\ Sound(e) /\ e.max_bytes = d.max_bytes
          /\ Known(e) = d.entries \cup ToSet(d.b1) \cup (ToSet(d.b2) \ {i})
        BY <2>4, <2>5, ForgetB2Keeps
    <2>7. i \notin Known(e)
        BY <1>1, <1>6, <2>4, <2>6 DEF Apart
    <2>8. CacheInv(AdmitToT2(e, i))
        BY <1>4, <1>6, <2>4, <2>6, <2>7, AdmitKeeps
    <2>9. Inserted(c, i) = AdmitToT2(e, i)
        BY <1>6, <2>1, <2>2, <2>5, Zenon DEF Inserted
    <2> QED
        BY <2>8, <2>9
<1>7. CASE ~(PieceBytes[i] > c.max_bytes) /\ i \notin c.entries /\ i \notin ToSet(c.b1)
           /\ i \notin ToSet(c.b2)
    <2>1. i \notin Known(c)
        BY <1>7 DEF Known
    <2>2. CacheInv(AdmitToT1(c, i))
        BY <1>1, <1>4, <1>7, <2>1, AdmitKeeps
    <2>3. Inserted(c, i) = AdmitToT1(c, i)
        BY <1>7, Zenon DEF Inserted
    <2> QED
        BY <2>2, <2>3
<1> QED
    BY <1>2, <1>3, <1>5, <1>6, <1>7

LEMMA RemoveKeeps ==
    ASSUME NEW c, CacheInv(c), NEW i \in CachePieces
    PROVE  CacheInv(Removed(c, i))
<1>1. Sound(c) /\ c \in CacheRecord /\ Apart(c.t1, c.t2, c.b1, c.b2, c.entries)
    BY Parts DEF CacheInv
<1>2. CASE i \in c.entries
    <2>1. PICK d : d = Removed(c, i)
        OBVIOUS
    <2>2. PICK n, t1, t2 : /\ n = c.current_bytes - PieceBytes[i] /\ t1 = RemoveFirst(c.t1, i)
                           /\ t2 = IF i \in ToSet(c.t1) THEN c.t2 ELSE RemoveFirst(c.t2, i)
        OBVIOUS
    <2>3. d = [c EXCEPT !.entries = c.entries \ {i}, !.current_bytes = n, !.t1 = t1, !.t2 = t2]
        BY <1>2, <2>1, <2>2 DEF Removed
    <2>4. d = [t1 |-> t1, t2 |-> t2, b1 |-> c.b1, b2 |-> c.b2, entries |-> c.entries \ {i},
               current_bytes |-> n, max_bytes |-> c.max_bytes, ghost_cap |-> c.ghost_cap, p |-> c.p]
        BY <1>1, <2>3 DEF CacheRecord
    <2>5. n \in Nat /\ ByteCount(c.entries \ {i}, n) /\ n <= c.current_bytes
        <3>1. PieceBytes[i] \in Nat /\ c.current_bytes \in Nat
            BY <1>1, OnePiece DEF CacheRecord
        <3>2. n \in Nat /\ ByteCount(c.entries \ {i}, n)
            BY <1>1, <1>2, <2>2, FewerBytes, Parts
        <3> QED
            BY <2>2, <3>1, <3>2
    <2>6. IsList(t1) /\ ToSet(t1) = ToSet(c.t1) \ {i}
        BY <1>1, <2>2, TakeOut DEF Apart
    <2>7. IsList(t2) /\ ToSet(t2) = ToSet(c.t2) \ {i}
        <3>1. CASE i \in ToSet(c.t1)
            BY <1>1, <2>2, <3>1 DEF Apart
        <3>2. CASE i \notin ToSet(c.t1)
            BY <1>1, <2>2, <3>2, TakeOut DEF Apart
        <3> QED
            BY <3>1, <3>2
    <2>8. Apart(t1, t2, c.b1, c.b2, c.entries \ {i})
        BY <1>1, <2>6, <2>7 DEF Apart
    <2>9. Sound(d)
        <3>1. c.entries \ {i} \subseteq CachePieces
            BY <1>1 DEF CacheRecord
        <3> QED
            BY <1>1, <2>4, <2>5, <2>8, <3>1, Parts, Assembled
    <2>10. d.current_bytes = n /\ d.max_bytes = c.max_bytes
        BY <2>4
    <2>11. c.current_bytes \in Nat /\ c.max_bytes \in Nat /\ c.current_bytes <= c.max_bytes
        BY <1>1 DEF CacheInv, CacheRecord
    <2> QED
        BY <2>1, <2>5, <2>9, <2>10, <2>11 DEF CacheInv
<1>3. CASE i \notin c.entries
    <2>1. PICK d : d = ForgetB1(c, i)
        OBVIOUS
    <2>2. Sound(d) /\ d.max_bytes = c.max_bytes /\ d.current_bytes = c.current_bytes
        BY <1>1, <2>1, ForgetB1Keeps
    <2>3. /\ Sound(ForgetB2(d, i)) /\ ForgetB2(d, i).max_bytes = d.max_bytes
          /\ ForgetB2(d, i).current_bytes = d.current_bytes
        BY <2>2, ForgetB2Keeps
    <2>4. Removed(c, i) = ForgetB2(d, i)
        BY <1>3, <2>1, Zenon DEF Removed
    <2> QED
        BY <2>2, <2>3, <2>4 DEF CacheInv
<1> QED
    BY <1>2, <1>3

LEMMA BudgetKeeps ==
    ASSUME NEW c, Sound(c), NEW b \in Budgets
    PROVE  CacheInv(EnsureRoom(Budgeted(c, b), 0))
<1>1. PICK cap : cap = GhostCap(b)
    OBVIOUS
<1>2. cap \in Nat \ {0} /\ b \in Nat
    BY <1>1, CapIsPositive
<1>3. PICK q : q = IF c.p > cap THEN cap ELSE c.p
    OBVIOUS
<1>4. q \in Nat /\ q <= cap
    BY <1>2, <1>3, Parts
<1>5. PICK d : d = Budgeted(c, b)
    OBVIOUS
<1>6. d = [c EXCEPT !.max_bytes = b, !.ghost_cap = cap, !.p = q]
    BY <1>1, <1>3, <1>5 DEF Budgeted
<1>7. d = [t1 |-> c.t1, t2 |-> c.t2, b1 |-> c.b1, b2 |-> c.b2, entries |-> c.entries,
           current_bytes |-> c.current_bytes, max_bytes |-> b, ghost_cap |-> cap, p |-> q]
    <2>1. c \in CacheRecord
        BY Parts
    <2> QED
        BY <1>6, <2>1 DEF CacheRecord
<1>8. Sound(d)
    BY <1>2, <1>4, <1>7, Parts, Assembled
<1>9. PICK e : e = EnsureRoom(d, 0)
    OBVIOUS
<1>10. Sound(e) /\ e.max_bytes = d.max_bytes /\ HasRoom(e, 0)
    BY <1>8, <1>9, RoomIsMade DEF SameLimits
<1>11. e.current_bytes \in Nat /\ e.max_bytes \in Nat
    BY <1>10, Parts
<1>12. e.current_bytes + 0 <= e.max_bytes
    BY <1>10, <1>11, RoomFor
<1> QED
    BY <1>5, <1>9, <1>10, <1>11, <1>12 DEF CacheInv

-----------------------------------------------------------------------------
ArcInv == CacheInv(cache)

LEMMA ArcInit == CacheInit => ArcInv
<1> SUFFICES ASSUME NEW b \in Budgets, cache = NewCache(b) PROVE ArcInv
    BY DEF CacheInit
<1> QED
    BY CapIsPositive, EmptyCache DEF ArcInv, NewCache

LEMMA ArcKeeps == ArcInv /\ [CacheNext]_cache => ArcInv'
<1> SUFFICES ASSUME ArcInv, [CacheNext]_cache PROVE ArcInv'
    OBVIOUS
<1>1. PICK c : c = cache
    OBVIOUS
<1>2. CacheInv(c) /\ Sound(c)
    BY <1>1 DEF ArcInv, CacheInv
<1>3. CASE UNCHANGED cache
    BY <1>1, <1>2, <1>3 DEF ArcInv
<1>4. ASSUME NEW i \in CachePieces, InsertPiece(i) PROVE ArcInv'
    BY <1>1, <1>2, <1>4, InsertKeeps DEF InsertPiece, ArcInv
<1>5. ASSUME NEW i \in CachePieces, GetPiece(i) PROVE ArcInv'
    BY <1>1, <1>2, <1>5, PromoteKeeps DEF GetPiece, ArcInv
<1>6. ASSUME NEW i \in CachePieces, RemovePiece(i) PROVE ArcInv'
    BY <1>1, <1>2, <1>6, RemoveKeeps DEF RemovePiece, ArcInv
<1>7. CASE Clear
    <2>1. PICK m, g, d : m = c.max_bytes /\ g = c.ghost_cap /\ d = [NewCache(m) EXCEPT !.ghost_cap = g]
        OBVIOUS
    <2>2. m \in Nat /\ g \in Nat \ {0}
        BY <1>2, <2>1, Parts
    <2>3. d = [t1 |-> <<>>, t2 |-> <<>>, b1 |-> <<>>, b2 |-> <<>>, entries |-> {},
               current_bytes |-> 0, max_bytes |-> m, ghost_cap |-> g, p |-> 0]
        BY <2>1 DEF NewCache
    <2>4. CacheInv(d)
        BY <2>2, <2>3, EmptyCache
    <2>5. cache' = d
        BY <1>1, <1>7, <2>1 DEF Clear
    <2> QED
        BY <2>4, <2>5 DEF ArcInv
<1>8. ASSUME NEW b \in Budgets, SetMaxBytes(b) PROVE ArcInv'
    BY <1>1, <1>2, <1>8, BudgetKeeps DEF SetMaxBytes, ArcInv
<1> QED
    BY <1>3, <1>4, <1>5, <1>6, <1>7, <1>8 DEF CacheNext

LEMMA ArcIsExact == ArcInv => CacheIsExact
<1> SUFFICES ASSUME ArcInv PROVE CacheIsExact
    OBVIOUS
<1>1. PICK c : c = cache
    OBVIOUS
<1>2. Sound(c) /\ c.current_bytes <= c.max_bytes
    BY <1>1 DEF ArcInv, CacheInv
<1>3. /\ Apart(c.t1, c.t2, c.b1, c.b2, c.entries) /\ c.p \in 0 .. c.ghost_cap
      /\ ByteCount(c.entries, c.current_bytes)
    BY <1>2, Parts
<1>4. c.current_bytes = BytesOf(c.entries)
    BY <1>3, Zenon DEF ByteCount, BytesAt, BytesOf
<1>5. ToSet(c.t1) \cup ToSet(c.t2) = c.entries
    BY <1>3 DEF Apart
<1>6. PICK t1, t2, b1, b2 : t1 = c.t1 /\ t2 = c.t2 /\ b1 = c.b1 /\ b2 = c.b2
    OBVIOUS
<1>7. PICK lists : lists = <<t1, t2, b1, b2>>
    OBVIOUS
<1>8. lists[1] = t1 /\ lists[2] = t2 /\ lists[3] = b1 /\ lists[4] = b2
    BY <1>7
<1>9. IsInjective(t1) /\ IsInjective(t2) /\ IsInjective(b1) /\ IsInjective(b2)
    BY <1>3, <1>6 DEF Apart, IsList
<1>10. /\ ToSet(t2) \cap ToSet(t1) = {}
       /\ ToSet(b1) \cap ToSet(t1) = {} /\ ToSet(b1) \cap ToSet(t2) = {}
       /\ ToSet(b2) \cap ToSet(t1) = {} /\ ToSet(b2) \cap ToSet(t2) = {} /\ ToSet(b2) \cap ToSet(b1) = {}
    BY <1>3, <1>6 DEF Apart
<1>11. \A k \in 1 .. 4 : /\ IsInjective(lists[k])
                         /\ \A l \in 1 .. (k - 1) : ToSet(lists[k]) \cap ToSet(lists[l]) = {}
    <2> SUFFICES ASSUME NEW k \in 1 .. 4
                 PROVE  /\ IsInjective(lists[k])
                        /\ \A l \in 1 .. (k - 1) : ToSet(lists[k]) \cap ToSet(lists[l]) = {}
        OBVIOUS
    <2>1. k = 1 \/ k = 2 \/ k = 3 \/ k = 4
        OBVIOUS
    <2>2. IsInjective(lists[k])
        BY <1>8, <1>9, <2>1
    <2>3. ASSUME NEW l \in 1 .. (k - 1) PROVE ToSet(lists[k]) \cap ToSet(lists[l]) = {}
        <3>1. \/ k = 2 /\ l = 1
              \/ k = 3 /\ (l = 1 \/ l = 2)
              \/ k = 4 /\ (l = 1 \/ l = 2 \/ l = 3)
            BY <2>1
        <3> QED
            BY <1>8, <1>10, <3>1, Zenon
    <2> QED
        BY <2>2, <2>3
<1>12. lists = <<cache.t1, cache.t2, cache.b1, cache.b2>>
    BY <1>1, <1>6, <1>7
<1> QED
    BY <1>1, <1>2, <1>3, <1>4, <1>5, <1>11, <1>12, Zenon DEF CacheIsExact

LEMMA LruIsConsistent == LruInv => CacheIsConsistent
BY DEF LruInv, ListsWhatItHas, CacheIsConsistent

LEMMA LruInit == BridgeInit => LruInv
<1> SUFFICES ASSUME BridgeInit PROVE LruInv
    OBVIOUS
<1>1. lru = <<>> /\ cached = {}
    BY DEF BridgeInit
<1>2. IsFiniteSet(cached) /\ Cardinality(cached) = 0
    BY <1>1, FS_EmptySet
<1>3. Len(lru) = 0 /\ IsList(lru) /\ ToSet(lru) = {}
    BY <1>1, EmptyList
<1> QED
    BY <1>1, <1>2, <1>3, CachesAssumption DEF LruInv, ListsWhatItHas

(* What is held, listed, remembered and counted agrees in both caches, and  *)
(* neither outgrows its limit (CachesAreExact), for all pieces, lengths,    *)
(* budgets and capacities (piece_data_cache.rs, cache.rs).                  *)
THEOREM CachesHold == CachesSpec => []CachesAreExact
<1>1. CacheInit /\ BridgeInit => ArcInv /\ LruInv
    BY ArcInit, LruInit
<1>2. ArcInv /\ [CacheNext]_cache => ArcInv'
    BY ArcKeeps
<1>3. LruInv /\ [BridgeNext]_bridgeVars => LruInv'
    BY BridgeKeeps
<1>4. ArcInv /\ LruInv => CachesAreExact
    BY ArcIsExact, LruIsConsistent DEF CachesAreExact
<1> QED
    BY <1>1, <1>2, <1>3, <1>4, PTL DEF CachesSpec

-----------------------------------------------------------------------------
(* The session (DownloadSession, for session_manager.rs).  The limit and    *)
(* the priorities are numbers (usize and a ranked enum).                    *)
SessionNumbers == MaxActive \in Nat /\ Priorities \subseteq Int

SessionEntry == [handle : Nat, priority : Priorities,
                 state : {"queued", "downloading", "paused"}, added : Int]
SessionEvent == [event : {"added", "paused", "removed", "started"}, handle : Nat]

Told == [es : Seq(SessionEntry), ev : Seq(SessionEvent)]

LEMMA InStateFinite ==
    ASSUME NEW es \in Seq(SessionEntry), NEW s
    PROVE  /\ InState(es, s) \subseteq 1 .. Len(es) /\ IsFiniteSet(InState(es, s))
           /\ Cardinality(InState(es, s)) \in Nat /\ Cardinality(InState(es, s)) <= Len(es)
<1>1. InState(es, s) \subseteq 1 .. Len(es) /\ Len(es) \in Nat
    BY DEF InState
<1>2. IsFiniteSet(1 .. Len(es)) /\ Cardinality(1 .. Len(es)) = Len(es)
    <2>1. \A n \in Nat : IsFiniteSet(1 .. n) /\ Cardinality(1 .. n) = IF 1 > n THEN 0 ELSE n - 1 + 1
        BY FS_Interval
    <2>2. \A n \in Nat : (IF 1 > n THEN 0 ELSE n - 1 + 1) = n
        OBVIOUS
    <2> QED
        BY <1>1, <2>1, <2>2
<1> QED
    BY <1>1, <1>2, FS_Subset, FS_CardinalityType

(* Of the downloads that wait one comes before the others.                  *)
LEMMA FirstExists ==
    ASSUME SessionNumbers, NEW es \in Seq(SessionEntry), NEW Q, Q \subseteq 1 .. Len(es), Q # {}
    PROVE  \E i \in Q : \A j \in Q \ {i} : Before(es, i, j)
<1>1. PICK n \in Nat : n = Len(es)
    OBVIOUS
<1>2. \A i \in 1 .. n : es[i].priority \in Int /\ es[i].added \in Int
    <2>1. \A e \in SessionEntry : e.priority \in Int /\ e.added \in Int
        BY DEF SessionNumbers, SessionEntry
    <2>2. \A i \in 1 .. n : es[i] \in SessionEntry
        BY <1>1
    <2> QED
        BY <2>1, <2>2
<1>3. \A i, j \in 1 .. n : i # j => Before(es, i, j) \/ Before(es, j, i)
    BY <1>2 DEF Before
<1>4. \A i, j, k \in 1 .. n : Before(es, i, j) /\ Before(es, j, k) => Before(es, i, k)
    BY <1>2 DEF Before
<1> DEFINE Found(m) == Q \cap 1 .. m # {} =>
                          \E i \in Q \cap 1 .. m : \A j \in (Q \cap 1 .. m) \ {i} : Before(es, i, j)
           S == {m \in 0 .. n : Found(m)}
<1>5. 0 \in S
    <2>1. 1 .. 0 = {} /\ 0 \in 0 .. n
        OBVIOUS
    <2> QED
        BY <2>1
<1>6. ASSUME NEW m \in 1 .. n, m - 1 \in S PROVE m \in S
    <2>1. m \in 0 .. n /\ (\A x \in 1 .. m : x \in 1 .. m - 1 \/ x = m)
          /\ (\A x \in 1 .. m - 1 : x \in 1 .. m /\ x # m /\ x \in 1 .. n) /\ m \in 1 .. m
        OBVIOUS
    <2>2. Found(m - 1)
        BY <1>6
    <2>3. CASE m \notin Q
        <3>1. Q \cap 1 .. m = Q \cap 1 .. m - 1
            BY <2>1, <2>3
        <3> QED
            BY <2>1, <2>2, <3>1
    <2>4. CASE m \in Q /\ Q \cap 1 .. m - 1 = {}
        <3>1. Q \cap 1 .. m = {m}
            BY <2>1, <2>4
        <3> QED
            BY <2>1, <3>1
    <2>5. CASE m \in Q /\ Q \cap 1 .. m - 1 # {}
        <3>1. PICK i \in Q \cap 1 .. m - 1 : \A j \in (Q \cap 1 .. m - 1) \ {i} : Before(es, i, j)
            BY <2>2, <2>5
        <3>2. i \in 1 .. n /\ m \in 1 .. n /\ i # m /\ i \in Q \cap 1 .. m
            BY <2>1
        <3>3. CASE Before(es, i, m)
            <4>1. \A j \in (Q \cap 1 .. m) \ {i} : Before(es, i, j)
                BY <2>1, <3>1, <3>3
            <4> QED
                BY <2>1, <3>2, <4>1
        <3>4. CASE Before(es, m, i)
            <4>1. \A j \in (Q \cap 1 .. m) \ {m} : Before(es, m, j)
                BY <1>4, <2>1, <3>1, <3>2, <3>4
            <4>2. m \in Q \cap 1 .. m
                BY <2>1, <2>5
            <4> QED
                BY <2>1, <4>1, <4>2
        <3> QED
            BY <1>3, <3>2, <3>3, <3>4
    <2> QED
        BY <2>3, <2>4, <2>5
<1>7. n \in S
    <2> HIDE DEF S
    <2>1. \A m \in 0 .. n : m \in S
        BY <1>5, <1>6, ByNumber, ZenonT(30)
    <2> QED
        BY <2>1
<1>8. Q \cap 1 .. n = Q
    BY <1>1
<1> QED
    BY <1>7, <1>8

(* One round of activate_queued.                                            *)
Going(r) == ActiveCount(r.es) < MaxActive /\ InState(r.es, "queued") # {}

OneMore(r) ==
    IF Going(r)
    THEN [es |-> [r.es EXCEPT ![Candidate(r.es)].state = "downloading"],
          ev |-> Append(r.ev, [event |-> "started", handle |-> r.es[Candidate(r.es)].handle])]
    ELSE r

(* The first of the queue starts, and the events say so.                    *)
StartsOne(r, new, c) ==
    /\ c \in InState(r.es, "queued") /\ c \in 1 .. Len(r.es)
    /\ \A j \in InState(r.es, "queued") \ {c} : Before(r.es, c, j)
    /\ new \in Told
    /\ Len(new.es) = Len(r.es) /\ Len(new.ev) = Len(r.ev) + 1
    /\ new.es[c] = [r.es[c] EXCEPT !.state = "downloading"]
    /\ \A i \in 1 .. Len(r.es) : i # c => new.es[i] = r.es[i]
    /\ new.ev[Len(r.ev) + 1] = [event |-> "started", handle |-> r.es[c].handle]
    /\ \A i \in 1 .. Len(r.ev) : new.ev[i] = r.ev[i]

LEMMA OneMoreStarts ==
    ASSUME SessionNumbers, NEW r \in Told, Going(r), NEW c, c = Candidate(r.es)
    PROVE  StartsOne(r, OneMore(r), c)
<1>1. r.es \in Seq(SessionEntry) /\ r.ev \in Seq(SessionEvent)
    BY DEF Told
<1>2. /\ c \in InState(r.es, "queued") /\ c \in 1 .. Len(r.es)
      /\ \A j \in InState(r.es, "queued") \ {c} : Before(r.es, c, j)
    <2>1. InState(r.es, "queued") # {} /\ InState(r.es, "queued") \subseteq 1 .. Len(r.es)
        BY <1>1, InStateFinite DEF Going
    <2>2. \E i \in InState(r.es, "queued") :
              \A j \in InState(r.es, "queued") \ {i} : Before(r.es, i, j)
        BY <1>1, <2>1, FirstExists
    <2> QED
        BY <2>1, <2>2 DEF Candidate
<1>3. r.es[c] \in SessionEntry
    BY <1>1, <1>2
<1> DEFINE e == [r.es[c] EXCEPT !.state = "downloading"]
           said == [event |-> "started", handle |-> r.es[c].handle]
<1>4. e \in SessionEntry /\ said \in SessionEvent
    BY <1>3 DEF SessionEntry, SessionEvent
<1>5. OneMore(r) = [es |-> [r.es EXCEPT ![c] = e], ev |-> Append(r.ev, said)]
    BY DEF OneMore
<1> HIDE DEF e, said
<1>6. /\ [r.es EXCEPT ![c] = e] \in Seq(SessionEntry) /\ Len([r.es EXCEPT ![c] = e]) = Len(r.es)
      /\ [r.es EXCEPT ![c] = e][c] = e
      /\ \A i \in 1 .. Len(r.es) : i # c => [r.es EXCEPT ![c] = e][i] = r.es[i]
    BY <1>1, <1>2, <1>4
<1>7. /\ Append(r.ev, said) \in Seq(SessionEvent) /\ Len(Append(r.ev, said)) = Len(r.ev) + 1
      /\ Append(r.ev, said)[Len(r.ev) + 1] = said
      /\ \A i \in 1 .. Len(r.ev) : Append(r.ev, said)[i] = r.ev[i]
    BY <1>1, <1>4
<1>8. OneMore(r) \in Told /\ OneMore(r).es = [r.es EXCEPT ![c] = e]
      /\ OneMore(r).ev = Append(r.ev, said)
    BY <1>5, <1>6, <1>7 DEF Told
<1> QED
    BY <1>2, <1>6, <1>7, <1>8 DEF e, said, StartsOne

LEMMA OneMoreTold ==
    ASSUME SessionNumbers, NEW r \in Told
    PROVE  OneMore(r) \in Told
<1>1. CASE Going(r)
    BY <1>1, OneMoreStarts DEF StartsOne
<1>2. CASE ~Going(r)
    BY <1>2 DEF OneMore
<1> QED
    BY <1>1, <1>2

(* What starts goes before what waits: more important, or as important and  *)
(* not younger.                                                             *)
Ahead(e, f) == e.priority > f.priority \/ (e.priority = f.priority /\ e.added <= f.added)

StartedHere(es, r, i) == es[i].state = "queued" /\ r.es[i].state = "downloading"

SameButState(e, f) == e.handle = f.handle /\ e.priority = f.priority /\ e.added = f.added

Says(ev, h) == \E i \in 1 .. Len(ev) : ev[i].event = "started" /\ ev[i].handle = h

(* What the rounds so far have made of a list.                              *)
Activates(es, r) ==
    /\ r \in Told /\ Len(r.es) = Len(es) /\ ActiveCount(r.es) <= MaxActive
    /\ \A i \in 1 .. Len(es) : /\ SameButState(r.es[i], es[i])
                               /\ r.es[i].state = es[i].state \/ StartedHere(es, r, i)
    /\ \A i, j \in 1 .. Len(es) :
          StartedHere(es, r, i) /\ r.es[j].state = "queued" => Ahead(es[i], es[j])
    /\ \A h : Says(r.ev, h) <=> \E i \in 1 .. Len(es) : StartedHere(es, r, i) /\ es[i].handle = h

LEMMA OneMoreActivates ==
    ASSUME SessionNumbers, NEW es \in Seq(SessionEntry), NEW r, Activates(es, r)
    PROVE  /\ Activates(es, OneMore(r))
           /\ Going(r) => Cardinality(InState(OneMore(r).es, "queued"))
                             = Cardinality(InState(r.es, "queued")) - 1
           /\ ~Going(r) => OneMore(r) = r
<1>1. CASE ~Going(r)
    BY <1>1 DEF OneMore
<1>2. CASE Going(r)
    <2>1. PICK c : c = Candidate(r.es)
        OBVIOUS
    <2>2. PICK new : new = OneMore(r)
        OBVIOUS
    <2>3. r \in Told /\ r.es \in Seq(SessionEntry) /\ Len(r.es) = Len(es) /\ Len(es) \in Nat
          /\ r.ev \in Seq(SessionEvent) /\ Len(r.ev) \in Nat
        BY DEF Activates, Told
    <2>4. /\ c \in InState(r.es, "queued") /\ c \in 1 .. Len(es)
          /\ \A j \in InState(r.es, "queued") \ {c} : Before(r.es, c, j)
          /\ new \in Told /\ Len(new.es) = Len(es) /\ Len(new.ev) = Len(r.ev) + 1
          /\ new.es[c] = [r.es[c] EXCEPT !.state = "downloading"]
          /\ \A i \in 1 .. Len(es) : i # c => new.es[i] = r.es[i]
          /\ new.ev[Len(r.ev) + 1] = [event |-> "started", handle |-> r.es[c].handle]
          /\ \A i \in 1 .. Len(r.ev) : new.ev[i] = r.ev[i]
        <3>1. StartsOne(r, new, c)
            BY <1>2, <2>1, <2>2, <2>3, OneMoreStarts
        <3>2. Len(r.es) = Len(es)
            BY <2>3
        <3> QED
            BY <3>1, <3>2, ZenonT(30) DEF StartsOne
    <2>5. r.es[c].state = "queued" /\ r.es[c] \in SessionEntry
        BY <2>3, <2>4 DEF InState
    <2>6. /\ new.es[c].state = "downloading" /\ SameButState(new.es[c], r.es[c])
        BY <2>4, <2>5 DEF SameButState, SessionEntry
    <2>7. /\ DOMAIN r.es = 1 .. Len(es) /\ DOMAIN new.es = 1 .. Len(es)
        BY <2>3, <2>4 DEF Told
    <2>8. /\ InState(new.es, "queued") = InState(r.es, "queued") \ {c}
          /\ InState(new.es, "downloading") = InState(r.es, "downloading") \cup {c}
        <3>1. \A i \in 1 .. Len(es) : i # c => new.es[i].state = r.es[i].state
            BY <2>4
        <3>2. \A list, st : DOMAIN list = 1 .. Len(es) =>
                  InState(list, st) = {i \in 1 .. Len(es) : list[i].state = st}
            BY DEF InState
        <3>3. /\ {i \in 1 .. Len(es) : new.es[i].state = "queued"}
                    = {i \in 1 .. Len(es) : r.es[i].state = "queued"} \ {c}
              /\ {i \in 1 .. Len(es) : new.es[i].state = "downloading"}
                    = {i \in 1 .. Len(es) : r.es[i].state = "downloading"} \cup {c}
            <4>1. c \in 1 .. Len(es)
                BY <2>4
            <4> QED
                BY <2>5, <2>6, <3>1, <4>1
        <3> QED
            BY <2>7, <3>2, <3>3
    <2>9. Cardinality(InState(new.es, "queued")) = Cardinality(InState(r.es, "queued")) - 1
        <3>1. IsFiniteSet(InState(r.es, "queued")) /\ c \in InState(r.es, "queued")
            BY <2>3, <2>4, InStateFinite
        <3> QED
            BY <2>8, <3>1, FS_RemoveElement
    <2>10. ActiveCount(new.es) <= MaxActive
        <3>1. ActiveCount(r.es) \in Nat /\ ActiveCount(r.es) < MaxActive
            BY <1>2, <2>3, InStateFinite DEF Going, ActiveCount
        <3>2. ActiveCount(new.es) \in {ActiveCount(r.es), ActiveCount(r.es) + 1}
            BY <2>3, <2>8, InStateFinite, FS_AddElement DEF ActiveCount
        <3> QED
            BY <3>1, <3>2 DEF SessionNumbers
    <2>11. es[c].state = "queued" /\ ~StartedHere(es, r, c) /\ StartedHere(es, new, c)
           /\ \A i \in 1 .. Len(es) : i # c => (StartedHere(es, new, i) <=> StartedHere(es, r, i))
        BY <2>4, <2>5, <2>6 DEF Activates, StartedHere
    <2>12. \A i \in 1 .. Len(es) : /\ SameButState(new.es[i], es[i])
                                   /\ new.es[i].state = es[i].state \/ StartedHere(es, new, i)
        <3>1. ASSUME NEW i \in 1 .. Len(es)
              PROVE  /\ SameButState(new.es[i], es[i])
                     /\ new.es[i].state = es[i].state \/ StartedHere(es, new, i)
            <4>1. SameButState(r.es[i], es[i]) /\ (r.es[i].state = es[i].state \/ StartedHere(es, r, i))
                BY DEF Activates
            <4>2. CASE i = c
                BY <2>6, <2>11, <4>1, <4>2 DEF SameButState
            <4>3. CASE i # c
                BY <2>4, <2>11, <4>1, <4>3
            <4> QED
                BY <4>2, <4>3
        <3> QED
            BY <3>1
    <2>13. ASSUME NEW i \in 1 .. Len(es), NEW j \in 1 .. Len(es),
                  StartedHere(es, new, i), new.es[j].state = "queued"
           PROVE  Ahead(es[i], es[j])
        <3>1. j # c /\ r.es[j].state = "queued" /\ j \in InState(r.es, "queued") \ {c}
            BY <2>4, <2>6, <2>7, <2>13 DEF InState
        <3>2. CASE i # c
            BY <2>11, <2>13, <3>1, <3>2 DEF Activates
        <3>3. CASE i = c
            <4>1. Before(r.es, c, j) /\ SameButState(r.es[c], es[c]) /\ SameButState(r.es[j], es[j])
                BY <2>4, <3>1 DEF Activates
            <4>2. es[c] \in SessionEntry /\ es[j] \in SessionEntry
                BY <2>4
            <4> QED
                BY <3>3, <4>1, <4>2 DEF Before, SameButState, Ahead, SessionEntry, SessionNumbers
        <3> QED
            BY <3>2, <3>3
    <2>14. \A h : Says(new.ev, h) <=> Says(r.ev, h) \/ h = es[c].handle
        <3>1. r.es[c].handle = es[c].handle
            BY <2>4 DEF Activates, SameButState
        <3>2. Len(r.ev) + 1 \in 1 .. Len(new.ev)
              /\ (\A i \in 1 .. Len(new.ev) : i \in 1 .. Len(r.ev) \/ i = Len(r.ev) + 1)
              /\ \A i \in 1 .. Len(r.ev) : i \in 1 .. Len(new.ev)
            BY <2>3, <2>4
        <3>3. /\ new.ev[Len(r.ev) + 1].event = "started"
              /\ new.ev[Len(r.ev) + 1].handle = es[c].handle
            BY <2>4, <3>1
        <3> QED
            BY <2>4, <3>2, <3>3 DEF Says
    <2>15. \A h : Says(new.ev, h)
                    <=> \E i \in 1 .. Len(es) : StartedHere(es, new, i) /\ es[i].handle = h
        <3>1. \A h : Says(r.ev, h)
                       <=> \E i \in 1 .. Len(es) : StartedHere(es, r, i) /\ es[i].handle = h
            BY DEF Activates
        <3>2. \A h : (\E i \in 1 .. Len(es) : StartedHere(es, new, i) /\ es[i].handle = h)
                       <=> (\E i \in 1 .. Len(es) : StartedHere(es, r, i) /\ es[i].handle = h)
                              \/ h = es[c].handle
            BY <2>4, <2>11, Zenon
        <3> QED
            BY <2>14, <3>1, <3>2
    <2>16. Activates(es, new)
        BY <2>4, <2>10, <2>12, <2>13, <2>15 DEF Activates
    <2> QED
        BY <1>2, <2>2, <2>9, <2>16
<1> QED
    BY <1>1, <1>2

(* The loop.                                                                *)
LEMMA ActivationActivates ==
    ASSUME SessionNumbers, NEW es \in Seq(SessionEntry), NEW ev \in Seq(SessionEvent),
           ActiveCount(es) <= MaxActive, \A h : ~Says(ev, h)
    PROVE  Activates(es, Activation(es, ev)) /\ ~Going(Activation(es, ev))
<1>1. PICK k \in Nat : k = Len(es)
    OBVIOUS
<1> DEFINE s == [es |-> es, ev |-> ev]
           h == [r \in Told |-> OneMore(r)]
           step(f) == [n \in 0 .. k |->
                         IF n = 0 THEN s
                         ELSE LET r == f[n - 1]
                              IN  IF ActiveCount(r.es) < MaxActive /\ InState(r.es, "queued") # {}
                                  THEN LET c == Candidate(r.es)
                                       IN  [es |-> [r.es EXCEPT ![c].state = "downloading"],
                                            ev |-> Append(r.ev, [event |-> "started",
                                                                 handle |-> r.es[c].handle])]
                                  ELSE r]
           round == CHOOSE f : f = step(f)
<1>2. s \in Told
    BY DEF Told
<1>3. h \in [Told -> Told]
    BY OneMoreTold
<1>4. PICK f \in [0 .. k -> Told] : IsRun(f, h, s, k)
    <2> HIDE DEF s, h
    <2> QED
        BY <1>2, <1>3, Iterates
<1>5. f[0] = s /\ \A n \in 1 .. k : n - 1 \in 0 .. k /\ f[n] = OneMore(f[n - 1])
    <2>1. ASSUME NEW n \in 1 .. k PROVE n - 1 \in 0 .. k /\ f[n] = OneMore(f[n - 1])
        <3>1. n - 1 \in 0 .. k /\ f[n - 1] \in Told
            BY <1>4
        <3>2. f[n] = h[f[n - 1]]
            BY <1>4 DEF IsRun
        <3> QED
            BY <3>1, <3>2
    <2> QED
        BY <1>4, <2>1 DEF IsRun
<1> DEFINE rounds(f1) == [n \in 0 .. k |-> IF n = 0 THEN s ELSE OneMore(f1[n - 1])]
<1>6. \A f1 : step(f1) = rounds(f1)
    BY Zenon DEF OneMore, Going
<1>7. f = rounds(f)
    <2>1. ASSUME NEW n \in 0 .. k PROVE f[n] = IF n = 0 THEN s ELSE OneMore(f[n - 1])
        <3>1. n = 0 \/ n \in 1 .. k
            OBVIOUS
        <3> HIDE DEF s
        <3> QED
            BY <1>5, <3>1
    <2> HIDE DEF s
    <2> QED
        BY <1>4, <2>1
<1>8. Activation(es, ev) = round[k]
    BY <1>1, Zenon DEF Activation
<1>9. round = rounds(round)
    <2> HIDE DEF step, rounds
    <2>1. f = step(f)
        BY <1>6, <1>7
    <2>2. round = step(round)
        BY <2>1
    <2> QED
        BY <1>6, <2>2
<1> HIDE DEF round, step, h
<1>10. round[0] = s /\ \A n \in 1 .. k : round[n] = OneMore(round[n - 1])
    <2> HIDE DEF s
    <2>1. 0 \in 0 .. k /\ \A n \in 1 .. k : n \in 0 .. k /\ n # 0
        OBVIOUS
    <2> QED
        BY <1>9, <2>1
<1> DEFINE Waits(r) == Cardinality(InState(r.es, "queued"))
           Fine(n) == /\ Activates(es, round[n])
                      /\ ~Going(round[n]) \/ Waits(round[n]) = Waits(s) - n
           S == {n \in 0 .. k : Fine(n)}
<1> HIDE DEF rounds
<1>11. 0 \in S
    <2>1. Activates(es, s)
        <3>1. s.es = es /\ s.ev = ev
            OBVIOUS
        <3>2. \A i \in 1 .. Len(es) : SameButState(s.es[i], es[i]) /\ s.es[i].state = es[i].state
                                      /\ ~StartedHere(es, s, i)
            BY <3>1 DEF SameButState, StartedHere
        <3> HIDE DEF s
        <3> QED
            BY <1>2, <3>1, <3>2 DEF Activates
    <2>2. Waits(s) \in Nat /\ 0 \in 0 .. k
        BY InStateFinite
    <2> HIDE DEF s, Waits
    <2> QED
        BY <1>10, <2>1, <2>2
<1>12. ASSUME NEW n \in 1 .. k, n - 1 \in S PROVE n \in S
    <2>1. PICK r : r = round[n - 1]
        OBVIOUS
    <2>2. Activates(es, r) /\ (~Going(r) \/ Waits(r) = Waits(s) - (n - 1)) /\ round[n] = OneMore(r)
        BY <1>10, <1>12, <2>1
    <2>3. /\ Activates(es, round[n])
          /\ Going(r) => Waits(round[n]) = Waits(r) - 1
          /\ ~Going(r) => round[n] = r
        BY <2>2, OneMoreActivates
    <2>4. Waits(s) \in Nat /\ n \in 0 .. k
        BY InStateFinite
    <2>5. ~Going(round[n]) \/ Waits(round[n]) = Waits(s) - n
        <3> HIDE DEF Waits, s
        <3> QED
            BY <2>2, <2>3, <2>4
    <2> HIDE DEF Waits, s
    <2> QED
        BY <2>3, <2>4, <2>5
<1>13. k \in S
    <2> HIDE DEF S
    <2>1. \A n \in 0 .. k : n \in S
        BY <1>11, <1>12, ByNumber, ZenonT(30)
    <2> QED
        BY <2>1
<1>14. ~Going(round[k])
    <2>1. PICK r : r = round[k]
        OBVIOUS
    <2>2. Activates(es, r) /\ (~Going(r) \/ Waits(r) = Waits(s) - k)
        BY <1>13, <2>1
    <2>3. r.es \in Seq(SessionEntry)
        BY <2>2 DEF Activates, Told
    <2>4. Waits(s) \in Nat /\ Waits(s) <= k /\ Waits(r) \in Nat
        BY <1>1, <2>3, InStateFinite
    <2>5. Waits(r) = Waits(s) - k => InState(r.es, "queued") = {}
        <3>1. Waits(r) = Waits(s) - k => Waits(r) = 0
            <4> HIDE DEF Waits, s
            <4> QED
                BY <2>4
        <3> QED
            BY <2>3, <3>1, InStateFinite, FS_EmptySet
    <2> QED
        BY <2>1, <2>2, <2>5 DEF Going
<1> QED
    BY <1>8, <1>13, <1>14

-----------------------------------------------------------------------------
(* Nobody has two entries, nobody waits beside a free slot.                 *)
Named(es) == \A i, j \in 1 .. Len(es) : es[i].handle = es[j].handle => i = j

SessionInv ==
    /\ entries \in Seq(SessionEntry) /\ nextId \in Nat /\ clock \in Int
    /\ Named(entries) /\ \A i \in 1 .. Len(entries) : entries[i].handle < nextId
    /\ SlotsAreUsed

(* The list that an operation hands to activate_queued: nobody in it has a  *)
(* slot who had none, and nobody waits who has one.                         *)
Suits(es) ==
    /\ es \in Seq(SessionEntry) /\ Named(es) /\ ActiveCount(es) <= MaxActive
    /\ Active(es) \subseteq Active(entries) /\ Queued(es) \cap Active(entries) = {}

(* The entries of the list are some of the session's, and say who they are. *)
LEMMA Traced ==
    ASSUME SessionNumbers, SessionInv, NEW es \in Seq(SessionEntry),
           NEW at \in [1 .. Len(es) -> 1 .. Len(entries)],
           \A i, j \in 1 .. Len(es) : at[i] = at[j] => i = j,
           \A i \in 1 .. Len(es) :
               /\ es[i].handle = entries[at[i]].handle
               /\ es[i].state = "downloading" => entries[at[i]].state = "downloading"
               /\ es[i].state = "queued" => entries[at[i]].state # "downloading"
    PROVE  Suits(es) /\ \A i \in 1 .. Len(es) : es[i].handle < nextId
<1>1. /\ entries \in Seq(SessionEntry) /\ Named(entries) /\ DOMAIN entries = 1 .. Len(entries)
      /\ DOMAIN es = 1 .. Len(es) /\ \A i \in 1 .. Len(entries) : entries[i].handle < nextId
    BY DEF SessionInv
<1>2. Named(es)
    <2>1. ASSUME NEW i \in 1 .. Len(es), NEW j \in 1 .. Len(es), es[i].handle = es[j].handle
          PROVE  i = j
        <3>1. at[i] \in 1 .. Len(entries) /\ at[j] \in 1 .. Len(entries)
              /\ entries[at[i]].handle = entries[at[j]].handle
            BY <2>1
        <3>2. at[i] = at[j]
            BY <1>1, <3>1, Zenon DEF Named
        <3> QED
            BY <3>2
    <2> QED
        BY <2>1 DEF Named
<1>3. ActiveCount(es) <= MaxActive
    <2> DEFINE S == InState(es, "downloading")
               T == InState(entries, "downloading")
               f == [i \in S |-> at[i]]
    <2>1. S \subseteq 1 .. Len(es) /\ IsFiniteSet(T)
        BY <1>1, InStateFinite
    <2>2. \A i \in S : at[i] \in T
        BY <1>1, <2>1 DEF InState
    <2>3. f \in Injection(S, T)
        <3> HIDE DEF S, T
        <3>1. f \in [S -> T] /\ \A i, j \in S : f[i] = f[j] => i = j
            BY <2>1, <2>2
        <3> HIDE DEF f
        <3> QED
            BY <3>1 DEF Injection, IsInjective
    <2>4. Cardinality(S) <= Cardinality(T)
        <3> HIDE DEF S, T, f
        <3> QED
            BY <2>1, <2>3, FS_Injection
    <2>5. Cardinality(T) <= MaxActive /\ Cardinality(S) \in Nat /\ Cardinality(T) \in Nat
        BY <1>1, InStateFinite DEF SessionInv, SlotsAreUsed, ActiveCount
    <2>6. ActiveCount(es) = Cardinality(S)
        BY DEF ActiveCount
    <2> HIDE DEF S, T
    <2> QED
        BY <2>4, <2>5, <2>6 DEF SessionNumbers
<1>4. Active(es) \subseteq Active(entries)
    <2>1. ASSUME NEW i \in InState(es, "downloading") PROVE es[i].handle \in Active(entries)
        <3>1. i \in 1 .. Len(es) /\ es[i].state = "downloading"
            BY <1>1, <2>1 DEF InState
        <3>2. at[i] \in InState(entries, "downloading") /\ entries[at[i]].handle = es[i].handle
            BY <1>1, <3>1 DEF InState
        <3> QED
            BY <3>2 DEF Active
    <2> QED
        BY <2>1 DEF Active
<1>5. Queued(es) \cap Active(entries) = {}
    <2>1. ASSUME NEW i \in InState(es, "queued"), NEW j \in InState(entries, "downloading"),
                 es[i].handle = entries[j].handle
          PROVE  FALSE
        <3>1. i \in 1 .. Len(es) /\ es[i].state = "queued" /\ j \in 1 .. Len(entries)
              /\ entries[j].state = "downloading"
            BY <1>1, <2>1 DEF InState
        <3>2. at[i] \in 1 .. Len(entries) /\ entries[at[i]].handle = entries[j].handle
            BY <2>1, <3>1
        <3>3. at[i] = j
            BY <1>1, <3>1, <3>2, Zenon DEF Named
        <3> QED
            BY <3>1, <3>3
    <2> QED
        BY <2>1 DEF Queued, Active
<1>6. \A i \in 1 .. Len(es) : es[i].handle < nextId
    BY <1>1
<1> QED
    BY <1>2, <1>3, <1>4, <1>5, <1>6 DEF Suits

(* What a step of the session promises besides the slots.                   *)
TurnsAndEvents ==
    /\ \A h \in Started, q \in Queued(entries') :
          LET s == EntryOf(entries', h)
              w == EntryOf(entries', q)
          IN  \/ s.priority > w.priority
              \/ s.priority = w.priority /\ s.added <= w.added
    /\ Started = {events'[i].handle : i \in {j \in DOMAIN events' : events'[j].event = "started"}}

LEMMA EntryFound ==
    ASSUME NEW es \in Seq(SessionEntry), Named(es), NEW i \in 1 .. Len(es)
    PROVE  EntryOf(es, es[i].handle) = es[i]
<1>1. DOMAIN es = 1 .. Len(es)
    OBVIOUS
<1>2. \A k \in DOMAIN es : es[k].handle = es[i].handle <=> k = i
    BY <1>1 DEF Named
<1>3. (CHOOSE k \in DOMAIN es : es[k].handle = es[i].handle) = i
    BY <1>1, <1>2
<1> QED
    BY <1>3 DEF EntryOf

LEMMA Activated ==
    ASSUME SessionNumbers, SessionInv, NEW es, Suits(es), NEW ev \in Seq(SessionEvent),
           \A h : ~Says(ev, h), ActivateQueued(es, ev), nextId' \in Nat, clock' \in Int,
           \A i \in 1 .. Len(es) : es[i].handle < nextId'
    PROVE  SessionInv' /\ TurnsAndEvents
<1>1. PICK r : r = Activation(es, ev)
    OBVIOUS
<1>2. entries' = r.es /\ events' = r.ev
    BY <1>1 DEF ActivateQueued
<1>3. Activates(es, r) /\ ~Going(r)
    BY <1>1, ActivationActivates DEF Suits
<1>4. /\ r.es \in Seq(SessionEntry) /\ r.ev \in Seq(SessionEvent) /\ es \in Seq(SessionEntry)
      /\ Len(r.es) = Len(es) /\ Named(es)
      /\ DOMAIN r.es = 1 .. Len(es) /\ DOMAIN es = 1 .. Len(es) /\ DOMAIN r.ev = 1 .. Len(r.ev)
      /\ \A i \in 1 .. Len(es) : SameButState(r.es[i], es[i])
    <2>1. /\ r.es \in Seq(SessionEntry) /\ r.ev \in Seq(SessionEvent) /\ es \in Seq(SessionEntry)
          /\ Len(r.es) = Len(es) /\ Named(es)
          /\ \A i \in 1 .. Len(es) : SameButState(r.es[i], es[i])
        BY <1>3 DEF Activates, Told, Suits
    <2> QED
        BY <2>1
<1>5. Named(r.es) /\ \A i \in 1 .. Len(es) : r.es[i].handle < nextId'
    BY <1>4 DEF Named, SameButState
<1>6. SlotsAreUsed'
    <2>1. ActiveCount(r.es) \in Nat /\ ActiveCount(r.es) <= MaxActive
        BY <1>3, <1>4, InStateFinite DEF ActiveCount, Activates
    <2>2. InState(r.es, "queued") # {} => ActiveCount(r.es) = MaxActive
        BY <1>3, <2>1 DEF Going, SessionNumbers
    <2> QED
        BY <1>2, <2>1, <2>2 DEF SlotsAreUsed
<1>7. SessionInv'
    BY <1>2, <1>4, <1>5, <1>6 DEF SessionInv
<1>8. \A h : h \in Started <=> \E i \in 1 .. Len(es) : StartedHere(es, r, i) /\ es[i].handle = h
    <2>1. ASSUME NEW i \in 1 .. Len(es), r.es[i].state = "downloading",
                 r.es[i].handle \notin Active(entries)
          PROVE  StartedHere(es, r, i)
        <3>1. es[i].state = "downloading" => es[i].handle \in Active(entries)
            BY <1>4 DEF Suits, Active, InState
        <3> QED
            BY <1>3, <1>4, <2>1, <3>1 DEF Activates, SameButState
    <2>2. ASSUME NEW i \in 1 .. Len(es), StartedHere(es, r, i)
          PROVE  /\ es[i].handle \in Active(r.es) /\ es[i].handle \notin Active(entries)
        <3>1. es[i].handle \in Queued(es)
            BY <1>4, <2>2 DEF StartedHere, Queued, InState
        <3>2. r.es[i].handle = es[i].handle /\ i \in InState(r.es, "downloading")
            BY <1>4, <2>2 DEF SameButState, StartedHere, InState
        <3> QED
            BY <3>1, <3>2 DEF Suits, Active
    <2>3. \A h \in Active(r.es) : \E i \in 1 .. Len(es) : r.es[i].state = "downloading" /\ r.es[i].handle = h
        BY <1>4 DEF Active, InState
    <2>4. Started = Active(r.es) \ Active(entries)
        BY <1>2 DEF Started
    <2>5. \A i \in 1 .. Len(es) : r.es[i].handle = es[i].handle
        BY <1>4 DEF SameButState
    <2> QED
        BY <2>1, <2>2, <2>3, <2>4, <2>5
<1>9. Started = {events'[i].handle : i \in {j \in DOMAIN events' : events'[j].event = "started"}}
    <2>1. \A h : h \in {r.ev[i].handle : i \in {j \in DOMAIN r.ev : r.ev[j].event = "started"}}
                   <=> Says(r.ev, h)
        BY <1>4 DEF Says
    <2>2. \A h : Says(r.ev, h) <=> \E i \in 1 .. Len(es) : StartedHere(es, r, i) /\ es[i].handle = h
        BY <1>3 DEF Activates
    <2> DEFINE told == {r.ev[i].handle : i \in {j \in DOMAIN r.ev : r.ev[j].event = "started"}}
    <2>3. \A h : h \in Started <=> h \in told
        <3> HIDE DEF told
        <3> SUFFICES ASSUME NEW h PROVE h \in Started <=> h \in told
            OBVIOUS
        <3>1. h \in told <=> Says(r.ev, h)
            BY <2>1 DEF told
        <3> QED
            BY <1>8, <2>2, <3>1
    <2>4. Started = told
        <3> HIDE DEF told
        <3>1. \A S, T : (\A x : x \in S <=> x \in T) => S = T
            OBVIOUS
        <3> QED
            BY <2>3, <3>1
    <2> QED
        BY <1>2, <2>4
<1>10. ASSUME NEW h \in Started, NEW q \in Queued(entries')
       PROVE  LET s == EntryOf(entries', h)
                  w == EntryOf(entries', q)
              IN  s.priority > w.priority \/ (s.priority = w.priority /\ s.added <= w.added)
    <2>1. PICK i \in 1 .. Len(es) : StartedHere(es, r, i) /\ es[i].handle = h
        BY <1>8, <1>10
    <2>2. PICK j \in 1 .. Len(es) : r.es[j].state = "queued" /\ r.es[j].handle = q
        BY <1>2, <1>4, <1>10 DEF Queued, InState
    <2>3. Ahead(es[i], es[j])
        BY <1>3, <2>1, <2>2 DEF Activates
    <2>4. EntryOf(entries', h) = r.es[i] /\ EntryOf(entries', q) = r.es[j]
        BY <1>2, <1>4, <1>5, <2>1, <2>2, EntryFound DEF SameButState
    <2> QED
        BY <1>4, <2>3, <2>4 DEF Ahead, SameButState
<1> QED
    BY <1>7, <1>9, <1>10 DEF TurnsAndEvents

LEMMA IndexFound ==
    ASSUME SessionInv, NEW h \in Handles
    PROVE  Index(h) \in 1 .. Len(entries) /\ entries[Index(h)].handle = h
           /\ entries[Index(h)] \in SessionEntry
<1>1. entries \in Seq(SessionEntry) /\ DOMAIN entries = 1 .. Len(entries)
    BY DEF SessionInv
<1>2. Index(h) \in DOMAIN entries /\ entries[Index(h)].handle = h
    BY DEF Handles, Index
<1> QED
    BY <1>1, <1>2

(* A list without one of its entries, and with another in place of one.     *)
LEMMA ListWithout ==
    ASSUME NEW T, NEW list \in Seq(T), NEW k \in 1 .. Len(list)
    PROVE  /\ RemoveAt(list, k) \in Seq(T) /\ Len(RemoveAt(list, k)) = Len(list) - 1
           /\ \A j \in 1 .. Len(list) - 1 :
                 RemoveAt(list, k)[j] = IF j < k THEN list[j] ELSE list[j + 1]
<1> DEFINE left == SubSeq(list, 1, k - 1)
           right == SubSeq(list, k + 1, Len(list))
<1>1. PICK n \in Nat : n = Len(list) /\ k \in 1 .. n
    OBVIOUS
<1>2. \A j \in 1 .. n : list[j] \in T
    BY <1>1
<1>3. left \in Seq(T) /\ Len(left) = k - 1 /\ \A j \in 1 .. k - 1 : left[j] = list[j]
    <2>1. k - 1 \in Int /\ \A j \in 1 .. k - 1 : j \in 1 .. n
        BY <1>1
    <2>2. /\ left \in Seq(T) /\ Len(left) = IF 1 <= k - 1 THEN (k - 1) - 1 + 1 ELSE 0
          /\ \A j \in 1 .. (k - 1) - 1 + 1 : left[j] = list[1 + j - 1]
        BY <1>2, <2>1, SubSeqProperties
    <2> QED
        BY <1>1, <2>2
<1>4. right \in Seq(T) /\ Len(right) = n - k /\ \A j \in 1 .. n - k : right[j] = list[j + k]
    <2>1. k + 1 \in Int /\ n \in Int /\ \A j \in k + 1 .. n : j \in 1 .. n
        BY <1>1
    <2>2. /\ right \in Seq(T) /\ Len(right) = IF k + 1 <= n THEN n - (k + 1) + 1 ELSE 0
          /\ \A j \in 1 .. n - (k + 1) + 1 : right[j] = list[k + 1 + j - 1]
        BY <1>1, <1>2, <2>1, SubSeqProperties
    <2> QED
        BY <1>1, <2>2
<1> DEFINE rest == RemoveAt(list, k)
<1>5. /\ rest \in Seq(T) /\ Len(rest) = Len(left) + Len(right)
      /\ \A j \in 1 .. Len(left) + Len(right) :
             rest[j] = IF j <= Len(left) THEN left[j] ELSE right[j - Len(left)]
    <2>1. rest = left \o right
        BY <1>1 DEF RemoveAt
    <2> HIDE DEF rest, left, right
    <2> QED
        BY <1>3, <1>4, <2>1, ConcatProperties
<1> HIDE DEF rest, left, right
<1>6. Len(left) + Len(right) = n - 1
    BY <1>1, <1>3, <1>4
<1>7. ASSUME NEW j \in 1 .. n - 1
      PROVE  rest[j] = IF j < k THEN list[j] ELSE list[j + 1]
    <2>1. CASE j < k
        <3>1. j \in 1 .. k - 1 /\ j <= Len(left)
            BY <1>1, <1>3, <2>1
        <3> QED
            BY <1>3, <1>5, <1>6, <2>1, <3>1
    <2>2. CASE ~(j < k)
        <3>1. j - (k - 1) \in 1 .. n - k /\ (j - (k - 1)) + k = j + 1 /\ ~(j <= k - 1)
            BY <1>1, <2>2
        <3>2. right[j - (k - 1)] = list[j + 1]
            BY <1>4, <3>1
        <3> QED
            BY <1>3, <1>5, <1>6, <2>2, <3>1, <3>2
    <2> QED
        BY <2>1, <2>2
<1> QED
    BY <1>1, <1>5, <1>6, <1>7 DEF rest

LEMMA ListWith ==
    ASSUME SessionInv, NEW k \in 1 .. Len(entries), NEW e \in SessionEntry
    PROVE  LET es == [entries EXCEPT ![k] = e]
           IN  /\ es \in Seq(SessionEntry) /\ Len(es) = Len(entries) /\ es[k] = e
               /\ \A i \in 1 .. Len(entries) : i # k => es[i] = entries[i]
<1>1. entries \in Seq(SessionEntry)
    BY DEF SessionInv
<1> QED
    BY <1>1

(* An entry in another state that is not that of a download with a slot.    *)
LEMMA OtherState ==
    ASSUME SessionNumbers, SessionInv, NEW h \in Handles, NEW s \in {"queued", "paused"},
           s = "queued" => StateOf(h) = "paused"
    PROVE  /\ Suits([entries EXCEPT ![Index(h)].state = s])
           /\ \A i \in 1 .. Len([entries EXCEPT ![Index(h)].state = s]) :
                  [entries EXCEPT ![Index(h)].state = s][i].handle < nextId
<1>1. PICK k : k = Index(h) /\ k \in 1 .. Len(entries) /\ entries[k] \in SessionEntry
    BY IndexFound
<1>2. PICK e : e = [entries[k] EXCEPT !.state = s]
    OBVIOUS
<1>3. e \in SessionEntry /\ e.state = s /\ e.handle = entries[k].handle
    BY <1>1, <1>2 DEF SessionEntry
<1>4. PICK es : es = [entries EXCEPT ![k] = e]
    OBVIOUS
<1>5. es = [entries EXCEPT ![Index(h)].state = s]
    BY <1>1, <1>2, <1>4
<1>6. /\ es \in Seq(SessionEntry) /\ Len(es) = Len(entries) /\ es[k] = e
      /\ \A i \in 1 .. Len(entries) : i # k => es[i] = entries[i]
    BY <1>1, <1>3, <1>4, ListWith
<1>7. PICK at : at = [i \in 1 .. Len(es) |-> i]
    OBVIOUS
<1>8. /\ at \in [1 .. Len(es) -> 1 .. Len(entries)]
      /\ \A i, j \in 1 .. Len(es) : at[i] = at[j] => i = j
    BY <1>6, <1>7
<1>9. \A i \in 1 .. Len(es) :
          /\ es[i].handle = entries[at[i]].handle
          /\ es[i].state = "downloading" => entries[at[i]].state = "downloading"
          /\ es[i].state = "queued" => entries[at[i]].state # "downloading"
    <2>1. ASSUME NEW i \in 1 .. Len(es)
          PROVE  /\ es[i].handle = entries[i].handle
                 /\ es[i].state = "downloading" => entries[i].state = "downloading"
                 /\ es[i].state = "queued" => entries[i].state # "downloading"
        <3>1. CASE i = k
            <4>1. es[i] = e /\ (s = "queued" => entries[i].state = "paused")
                BY <1>1, <1>6, <3>1 DEF StateOf
            <4> QED
                BY <1>3, <3>1, <4>1
        <3>2. CASE i # k
            <4>1. es[i] = entries[i]
                BY <1>6, <3>2
            <4> QED
                BY <4>1
        <3> QED
            BY <3>1, <3>2
    <2> QED
        BY <1>7, <2>1
<1>10. Suits(es) /\ \A i \in 1 .. Len(es) : es[i].handle < nextId
    BY <1>6, <1>8, <1>9, Traced
<1> QED
    BY <1>5, <1>10

LEMMA NothingSaid ==
    /\ <<>> \in Seq(SessionEvent) /\ \A g : ~Says(<<>>, g)
    /\ \A h \in Nat, s \in {"added", "paused", "removed"} :
          Event(s, h) \in Seq(SessionEvent) /\ \A g : ~Says(Event(s, h), g)
BY DEF Says, Event, SessionEvent

LEMMA AddActivates ==
    ASSUME SessionNumbers, SessionInv, NEW p \in Priorities, AddDownload(p)
    PROVE  SessionInv' /\ TurnsAndEvents
<1> DEFINE e == [handle |-> nextId, priority |-> p, state |-> "queued", added |-> clock']
<1>1. PICK es : es = Append(entries, e)
    OBVIOUS
<1>2. /\ nextId \in Nat /\ nextId' = nextId + 1 /\ clock' \in Int
      /\ ActivateQueued(es, Event("added", nextId))
    BY <1>1 DEF AddDownload, SessionInv
<1>3. e \in SessionEntry /\ e.handle = nextId /\ e.state = "queued"
    BY <1>2 DEF SessionEntry
<1> HIDE DEF e
<1>4. /\ entries \in Seq(SessionEntry) /\ Named(entries) /\ DOMAIN entries = 1 .. Len(entries)
      /\ \A i \in 1 .. Len(entries) : entries[i].handle < nextId
    BY DEF SessionInv
<1>5. PICK n \in Nat : n = Len(entries)
    <2>1. entries \in Seq(SessionEntry)
        BY <1>4
    <2> QED
        BY <2>1
<1>6. /\ es \in Seq(SessionEntry) /\ Len(es) = n + 1 /\ DOMAIN es = 1 .. n + 1 /\ es[n + 1] = e
      /\ \A i \in 1 .. n : es[i] = entries[i]
      /\ \A i \in 1 .. n + 1 : i \in 1 .. n \/ i = n + 1
      /\ \A i \in 1 .. n : i \in 1 .. n + 1
    BY <1>1, <1>3, <1>4, <1>5
<1>7. \A i \in 1 .. n : entries[i].handle \in Nat /\ entries[i].handle < nextId
    <2>1. \A i \in 1 .. n : entries[i] \in SessionEntry
        BY <1>4, <1>5
    <2> QED
        BY <1>4, <1>5, <2>1 DEF SessionEntry
<1>8. \A i \in 1 .. n + 1 : es[i].handle < nextId'
    <2>1. ASSUME NEW i \in 1 .. n + 1 PROVE es[i].handle < nextId'
        BY <1>2, <1>3, <1>6, <1>7
    <2> QED
        BY <2>1
<1>9. Named(es)
    <2>1. ASSUME NEW i \in 1 .. n + 1, NEW j \in 1 .. n + 1, es[i].handle = es[j].handle
          PROVE  i = j
        <3>1. \A x \in 1 .. n : es[x].handle # nextId
            BY <1>2, <1>6, <1>7
        <3> QED
            BY <1>3, <1>4, <1>5, <1>6, <2>1, <3>1 DEF Named
    <2> QED
        BY <1>6, <2>1 DEF Named
<1>10. InState(es, "downloading") = InState(entries, "downloading")
    <2>1. \A i \in 1 .. n + 1 : es[i].state = "downloading"
                                    <=> i \in 1 .. n /\ entries[i].state = "downloading"
        BY <1>3, <1>6
    <2> QED
        BY <1>4, <1>5, <1>6, <2>1 DEF InState
<1>11. ActiveCount(es) <= MaxActive
    BY <1>10 DEF ActiveCount, SessionInv, SlotsAreUsed
<1>12. Active(es) = Active(entries)
    <2>1. \A i \in InState(entries, "downloading") : es[i].handle = entries[i].handle
        BY <1>4, <1>5, <1>6 DEF InState
    <2> QED
        BY <1>10, <2>1 DEF Active
<1>13. Queued(es) \cap Active(entries) = {}
    <2>1. ASSUME NEW i \in InState(es, "queued"), NEW j \in InState(entries, "downloading"),
                 es[i].handle = entries[j].handle
          PROVE  FALSE
        <3>1. i \in 1 .. n + 1 /\ es[i].state = "queued" /\ j \in 1 .. n
              /\ entries[j].state = "downloading"
            BY <1>4, <1>5, <1>6, <2>1 DEF InState
        <3>2. i = j
            BY <1>6, <1>9, <2>1, <3>1 DEF Named
        <3> QED
            BY <1>6, <3>1, <3>2
    <2> QED
        BY <2>1 DEF Queued, Active
<1>14. Suits(es)
    BY <1>6, <1>9, <1>11, <1>12, <1>13 DEF Suits
<1>15. PICK ev \in Seq(SessionEvent) : ev = Event("added", nextId) /\ \A g : ~Says(ev, g)
    BY <1>2, NothingSaid
<1>16. ActivateQueued(es, ev) /\ nextId' \in Nat /\ clock' \in Int
       /\ \A i \in 1 .. Len(es) : es[i].handle < nextId'
    BY <1>2, <1>6, <1>8, <1>15
<1> QED
    BY <1>14, <1>15, <1>16, Activated

LEMMA PauseActivates ==
    ASSUME SessionNumbers, SessionInv, NEW h \in Handles, Pause(h)
    PROVE  SessionInv' /\ TurnsAndEvents
<1>1. PICK es : es = [entries EXCEPT ![Index(h)].state = "paused"]
    OBVIOUS
<1>2. Suits(es) /\ \A i \in 1 .. Len(es) : es[i].handle < nextId
    BY <1>1, OtherState
<1>3. ActivateQueued(es, Event("paused", h)) /\ nextId' = nextId /\ clock' = clock
    BY <1>1 DEF Pause
<1>4. h \in Nat
    BY IndexFound DEF SessionEntry
<1>5. PICK ev \in Seq(SessionEvent) : ev = Event("paused", h) /\ \A g : ~Says(ev, g)
    BY <1>4, NothingSaid
<1>6. ActivateQueued(es, ev) /\ nextId' \in Nat /\ clock' \in Int
      /\ \A i \in 1 .. Len(es) : es[i].handle < nextId'
    BY <1>2, <1>3, <1>5 DEF SessionInv
<1> QED
    BY <1>2, <1>5, <1>6, Activated

LEMMA ResumeActivates ==
    ASSUME SessionNumbers, SessionInv, NEW h \in Handles, Resume(h)
    PROVE  SessionInv' /\ TurnsAndEvents
<1>1. PICK es : es = [entries EXCEPT ![Index(h)].state = "queued"]
    OBVIOUS
<1>2. Suits(es) /\ \A i \in 1 .. Len(es) : es[i].handle < nextId
    BY <1>1, OtherState DEF Resume
<1>3. ActivateQueued(es, <<>>) /\ nextId' = nextId /\ clock' = clock
    BY <1>1 DEF Resume
<1>4. PICK ev \in Seq(SessionEvent) : ev = <<>> /\ \A g : ~Says(ev, g)
    BY NothingSaid
<1>5. ActivateQueued(es, ev)
    BY <1>3, <1>4
<1>6. nextId' \in Nat /\ clock' \in Int /\ \A i \in 1 .. Len(es) : es[i].handle < nextId'
    BY <1>2, <1>3 DEF SessionInv
<1>7. Suits(es) /\ ev \in Seq(SessionEvent) /\ \A g : ~Says(ev, g)
    BY <1>2, <1>4
<1> QED
    BY <1>5, <1>6, <1>7, Activated

LEMMA RemoveActivates ==
    ASSUME SessionNumbers, SessionInv, NEW h \in Handles, RemoveDownload(h)
    PROVE  SessionInv' /\ TurnsAndEvents
<1>1. PICK k : k = Index(h) /\ k \in 1 .. Len(entries)
    BY IndexFound
<1>2. PICK es : es = RemoveAt(entries, k)
    OBVIOUS
<1>3. ActivateQueued(es, Event("removed", h)) /\ nextId' = nextId /\ clock' = clock
    BY <1>1, <1>2 DEF RemoveDownload
<1>4. PICK n \in Nat : n = Len(entries) /\ k \in 1 .. n
    BY <1>1 DEF SessionInv
<1>5. /\ es \in Seq(SessionEntry) /\ Len(es) = n - 1
      /\ \A j \in 1 .. n - 1 : es[j] = IF j < k THEN entries[j] ELSE entries[j + 1]
    BY <1>2, <1>4, ListWithout DEF SessionInv
<1>6. PICK at : at = [j \in 1 .. n - 1 |-> IF j < k THEN j ELSE j + 1]
    OBVIOUS
<1>7. /\ at \in [1 .. n - 1 -> 1 .. n]
      /\ \A i, j \in 1 .. n - 1 : at[i] = at[j] => i = j
      /\ \A i \in 1 .. n - 1 : es[i] = entries[at[i]]
    BY <1>4, <1>5, <1>6
<1>8. Suits(es) /\ \A i \in 1 .. Len(es) : es[i].handle < nextId
    <2>1. \A i \in 1 .. n - 1 :
              /\ es[i].handle = entries[at[i]].handle
              /\ es[i].state = "downloading" => entries[at[i]].state = "downloading"
              /\ es[i].state = "queued" => entries[at[i]].state # "downloading"
        BY <1>7
    <2>2. Len(es) = n - 1 /\ Len(entries) = n /\ es \in Seq(SessionEntry)
        BY <1>4, <1>5
    <2>3. /\ at \in [1 .. Len(es) -> 1 .. Len(entries)]
          /\ \A i, j \in 1 .. Len(es) : at[i] = at[j] => i = j
        BY <1>7, <2>2
    <2>4. \A i \in 1 .. Len(es) :
              /\ es[i].handle = entries[at[i]].handle
              /\ es[i].state = "downloading" => entries[at[i]].state = "downloading"
              /\ es[i].state = "queued" => entries[at[i]].state # "downloading"
        BY <2>1, <2>2
    <2> QED
        BY <2>2, <2>3, <2>4, Traced
<1>9. h \in Nat
    BY IndexFound DEF SessionEntry
<1>10. PICK ev \in Seq(SessionEvent) : ev = Event("removed", h) /\ \A g : ~Says(ev, g)
    BY <1>9, NothingSaid
<1>11. ActivateQueued(es, ev) /\ nextId' \in Nat /\ clock' \in Int
      /\ \A i \in 1 .. Len(es) : es[i].handle < nextId'
    BY <1>8, <1>3, <1>10 DEF SessionInv
<1> QED
    BY <1>8, <1>10, <1>11, Activated

LEMMA PriorityActivates ==
    ASSUME SessionNumbers, SessionInv, NEW h \in Handles, NEW p \in Priorities, SetPriority(h, p)
    PROVE  SessionInv' /\ TurnsAndEvents
<1>1. PICK k : k = Index(h) /\ k \in 1 .. Len(entries) /\ entries[k] \in SessionEntry
    BY IndexFound
<1>2. PICK e : e = [entries[k] EXCEPT !.priority = p]
    OBVIOUS
<1>3. e \in SessionEntry /\ e.state = entries[k].state /\ e.handle = entries[k].handle
    BY <1>1, <1>2 DEF SessionEntry
<1>4. /\ entries' = [entries EXCEPT ![k] = e] /\ events' = <<>>
      /\ nextId' = nextId /\ clock' = clock
    BY <1>1, <1>2 DEF SetPriority
<1>5. /\ entries' \in Seq(SessionEntry) /\ Len(entries') = Len(entries) /\ entries'[k] = e
      /\ \A i \in 1 .. Len(entries) : i # k => entries'[i] = entries[i]
    <2>1. LET es == [entries EXCEPT ![k] = e]
          IN  /\ es \in Seq(SessionEntry) /\ Len(es) = Len(entries) /\ es[k] = e
              /\ \A i \in 1 .. Len(entries) : i # k => es[i] = entries[i]
        BY <1>1, <1>3, ListWith
    <2> QED
        BY <1>4, <2>1
<1>6. /\ DOMAIN entries' = 1 .. Len(entries) /\ DOMAIN entries = 1 .. Len(entries)
      /\ \A i \in 1 .. Len(entries) : entries'[i].handle = entries[i].handle
                                      /\ entries'[i].state = entries[i].state
    <2>1. ASSUME NEW i \in 1 .. Len(entries)
          PROVE  entries'[i].handle = entries[i].handle /\ entries'[i].state = entries[i].state
        <3>1. CASE i = k
            BY <1>3, <1>5, <3>1
        <3>2. CASE i # k
            BY <1>5, <3>2
        <3> QED
            BY <3>1, <3>2
    <2>2. DOMAIN entries' = 1 .. Len(entries) /\ DOMAIN entries = 1 .. Len(entries)
        BY <1>5 DEF SessionInv
    <2> QED
        BY <2>1, <2>2
<1>7. \A s : InState(entries', s) = InState(entries, s)
    BY <1>6 DEF InState
<1>8. Active(entries') = Active(entries)
    <2>1. \A i \in InState(entries, "downloading") : entries'[i].handle = entries[i].handle
        BY <1>6 DEF InState
    <2> QED
        BY <1>7, <2>1 DEF Active
<1>9. SlotsAreUsed'
    <2>1. ActiveCount(entries') = ActiveCount(entries)
        BY <1>7 DEF ActiveCount
    <2> QED
        BY <1>7, <2>1 DEF SessionInv, SlotsAreUsed
<1>10. SessionInv'
    BY <1>4, <1>5, <1>6, <1>9 DEF SessionInv, Named
<1>11. Started = {} /\ DOMAIN events' = {}
    BY <1>4, <1>8 DEF Started
<1> QED
    BY <1>10, <1>11 DEF TurnsAndEvents

LEMMA SessionStep ==
    ASSUME SessionNumbers, SessionInv, SessionNext
    PROVE  SessionInv' /\ TurnsAndEvents
<1>1. CASE \E p \in Priorities : AddDownload(p)
    BY <1>1, AddActivates
<1>2. CASE \E h \in Handles : Pause(h)
    BY <1>2, PauseActivates
<1>3. CASE \E h \in Handles : Resume(h)
    BY <1>3, ResumeActivates
<1>4. CASE \E h \in Handles : RemoveDownload(h)
    BY <1>4, RemoveActivates
<1>5. CASE \E h \in Handles, p \in Priorities : SetPriority(h, p)
    BY <1>5, PriorityActivates
<1> QED
    BY <1>1, <1>2, <1>3, <1>4, <1>5 DEF SessionNext

LEMMA SessionStarts ==
    ASSUME SessionNumbers, SessionInit
    PROVE  SessionInv
<1>1. entries = <<>> /\ nextId = 1 /\ clock = 0 /\ DOMAIN entries = {} /\ Len(entries) = 0
    BY DEF SessionInit
<1>2. \A s : InState(entries, s) = {}
    BY <1>1 DEF InState
<1>3. ActiveCount(entries) = 0
    BY <1>2, FS_EmptySet DEF ActiveCount
<1>4. SlotsAreUsed
    BY <1>2, <1>3 DEF SlotsAreUsed, SessionNumbers
<1>5. 1 .. 0 = {} /\ entries \in Seq(SessionEntry)
    BY <1>1
<1> QED
    BY <1>1, <1>4, <1>5 DEF SessionInv, Named

(* The session is fair (ActivationIsFair, for BasicSession): whatever is    *)
(* added, paused, resumed, removed or given another priority, no slot is    *)
(* left while a download waits, what starts goes before what has to wait,   *)
(* and every start is announced, for any number of slots.                   *)
THEOREM SessionIsFair == SessionSpec => ActivationIsFair
<1> SUFFICES ASSUME SessionNumbers PROVE SessionSpec => ActivationIsFair
    BY SessionAssumption DEF SessionNumbers
<1>1. SessionInit => SessionInv
    BY SessionStarts
<1>2. SessionInv /\ [SessionNext]_sessionVars => SessionInv'
    <2>1. SessionInv /\ SessionNext => SessionInv'
        BY SessionStep
    <2>2. SessionInv /\ UNCHANGED sessionVars => SessionInv'
        BY Zenon DEF sessionVars, SessionInv, SlotsAreUsed, Named, ActiveCount, InState
    <2> QED
        BY <2>1, <2>2
<1>3. SessionInv /\ [SessionNext]_sessionVars => [SlotsAreUsed']_sessionVars
    BY <1>2 DEF SessionInv
<1>4. SessionInv /\ [SessionNext]_sessionVars =>
          [\A h \in Started, q \in Queued(entries') :
              LET s == EntryOf(entries', h)
                  w == EntryOf(entries', q)
              IN  \/ s.priority > w.priority
                  \/ s.priority = w.priority /\ s.added <= w.added]_sessionVars
    BY SessionStep DEF TurnsAndEvents
<1>5. SessionInv /\ [SessionNext]_sessionVars =>
          [Started = {events'[i].handle : i \in {j \in DOMAIN events' :
                                                    events'[j].event = "started"}}]_sessionVars
    BY SessionStep DEF TurnsAndEvents
<1> QED
    BY <1>1, <1>2, <1>3, <1>4, <1>5, PTL DEF SessionSpec, ActivationIsFair, PriorityFirst, EventsTellStarts

-----------------------------------------------------------------------------
(* The queue of upload slots (UploadQueue, for upload_queue.rs).  max_slots *)
(* is a usize.                                                              *)
QueueNumbers == MaxSlots \in Nat

QueuePlace == [peer : Peers, since : Nat]

(* No peer is twice in a list, and the queue is in the order of arrival.    *)
EachOnce(list) == \A i, j \in 1 .. Len(list) : list[i] = list[j] => i = j

InLine(queue) ==
    /\ \A i, j \in 1 .. Len(queue) : queue[i].peer = queue[j].peer => i = j
    /\ \A i, j \in 1 .. Len(queue) : i < j => queue[i].since <= queue[j].since
    /\ \A i \in 1 .. Len(queue) : queue[i].since <= now /\ queue[i].since = joined[queue[i].peer]

Strangers(holders, queue) ==
    \A i \in 1 .. Len(holders), j \in 1 .. Len(queue) : holders[i] # queue[j].peer

QueueInv ==
    /\ active \in Seq(Peers) /\ waiting \in Seq(QueuePlace)
    /\ now \in Nat /\ joined \in [Peers -> Nat]
    /\ Len(active) <= MaxSlots /\ EachOnce(active) /\ InLine(waiting) /\ Strangers(active, waiting)
    /\ NoIdleSlot

(* Who is in the queue has a place in it.                                   *)
LEMMA PlacesFound ==
    ASSUME QueueInv, NEW p
    PROVE  /\ p \in Holders <=> \E i \in 1 .. Len(active) : active[i] = p
           /\ p \in Waiters <=> \E i \in 1 .. Len(waiting) : waiting[i].peer = p
           /\ p \in Holders => SlotPosition(p) \in 1 .. Len(active) /\ active[SlotPosition(p)] = p
           /\ p \in Waiters => /\ QueuePosition(p) \in 1 .. Len(waiting)
                               /\ waiting[QueuePosition(p)].peer = p
<1>1. DOMAIN active = 1 .. Len(active) /\ DOMAIN waiting = 1 .. Len(waiting)
    BY DEF QueueInv
<1>2. p \in Holders <=> \E i \in 1 .. Len(active) : active[i] = p
    BY <1>1 DEF Holders, ToSet
<1>3. p \in Waiters <=> \E i \in 1 .. Len(waiting) : waiting[i].peer = p
    BY <1>1 DEF Waiters
<1>4. p \in Holders => SlotPosition(p) \in 1 .. Len(active) /\ active[SlotPosition(p)] = p
    BY <1>1, <1>2 DEF SlotPosition
<1>5. p \in Waiters => /\ QueuePosition(p) \in 1 .. Len(waiting)
                       /\ waiting[QueuePosition(p)].peer = p
    BY <1>1, <1>3 DEF QueuePosition
<1> QED
    BY <1>2, <1>3, <1>4, <1>5

(* A queue made of places of the queue, in their order.                     *)
LEMMA StaysInLine ==
    ASSUME QueueInv, NEW n \in Nat, NEW from \in [1 .. n -> 1 .. Len(waiting)],
           \A i, j \in 1 .. n : i < j => from[i] < from[j],
           NEW rest, Len(rest) = n, \A i \in 1 .. n : rest[i] = waiting[from[i]]
    PROVE  InLine(rest) /\ Strangers(active, rest)
<1>1. waiting \in Seq(QueuePlace) /\ InLine(waiting) /\ Strangers(active, waiting)
      /\ Len(waiting) \in Nat
    BY DEF QueueInv
<1>3. Len(rest) = n
      /\ \A i \in 1 .. n : rest[i] = waiting[from[i]] /\ from[i] \in 1 .. Len(waiting)
    OBVIOUS
<1>4. \A i, j \in 1 .. n : i <= j => from[i] <= from[j] /\ (from[i] = from[j] => i = j)
    <2>1. ASSUME NEW i \in 1 .. n, NEW j \in 1 .. n, i <= j
          PROVE  from[i] <= from[j] /\ (from[i] = from[j] => i = j)
        <3>1. i = j \/ i < j
            BY <2>1
        <3>2. from[i] \in Int /\ from[j] \in Int
            BY <1>1
        <3> QED
            BY <3>1, <3>2
    <2> QED
        BY <2>1
<1>5. ASSUME NEW i \in 1 .. n, NEW j \in 1 .. n, rest[i].peer = rest[j].peer
      PROVE  i = j
    <2>1. from[i] = from[j]
        <3>1. waiting[from[i]].peer = waiting[from[j]].peer
            BY <1>3, <1>5
        <3>2. \A k, l \in 1 .. Len(waiting) : waiting[k].peer = waiting[l].peer => k = l
            BY <1>1 DEF InLine
        <3> QED
            BY <1>3, <3>1, <3>2, ZenonT(30)
    <2>2. i <= j \/ j <= i
        OBVIOUS
    <2> QED
        BY <1>4, <2>1, <2>2
<1>6. ASSUME NEW i \in 1 .. n, NEW j \in 1 .. n, i < j
      PROVE  rest[i].since <= rest[j].since
    <2>1. from[i] < from[j]
        BY <1>6
    <2>2. waiting[from[i]].since <= waiting[from[j]].since
        BY <1>1, <2>1 DEF InLine
    <2> QED
        BY <1>3, <2>2
<1>7. \A i \in 1 .. n : rest[i].since <= now /\ rest[i].since = joined[rest[i].peer]
    BY <1>1, <1>3 DEF InLine
<1>8. InLine(rest)
    BY <1>3, <1>5, <1>6, <1>7 DEF InLine
<1>9. Strangers(active, rest)
    BY <1>1, <1>3 DEF Strangers
<1> QED
    BY <1>8, <1>9

(* What a step promises.                                                    *)
TheFirstIsServed ==
    \A p \in Waiters : p \in ToSet(active') /\ p \notin Holders =>
        \A q \in Waiters : joined[p] <= joined[q]

(* The holders have room, and the first in line is promoted if one waits.   *)
LEMMA PromotedServes ==
    ASSUME QueueNumbers, QueueInv, NEW holders \in Seq(Peers), Promoted(holders),
           EachOnce(holders), Len(holders) <= MaxSlots, Strangers(holders, waiting),
           Len(active) - 1 <= Len(holders),
           \A i \in 1 .. Len(holders) : holders[i] \in Holders,
           UNCHANGED <<now, joined>>
    PROVE  QueueInv' /\ TheFirstIsServed
<1>1. /\ waiting \in Seq(QueuePlace) /\ now' = now /\ joined' = joined
      /\ now \in Nat /\ joined \in [Peers -> Nat] /\ InLine(waiting)
      /\ waiting # <<>> => Len(active) = MaxSlots
    BY DEF QueueInv, NoIdleSlot
<1>2. CASE SlotFree(holders) /\ waiting # <<>>
    <2>1. PICK p : p = waiting[1].peer
        OBVIOUS
    <2>2. /\ active' = Append(holders, p) /\ waiting' = Tail(waiting)
          /\ Len(holders) < MaxSlots /\ Len(active) = MaxSlots
        BY <1>1, <1>2, <2>1 DEF Promoted, SlotFree
    <2>3. PICK m \in Nat : Len(waiting) = m + 1
        <3>1. Len(waiting) \in Nat /\ Len(waiting) # 0
            BY <1>1, <1>2
        <3>2. Len(waiting) - 1 \in Nat /\ Len(waiting) = (Len(waiting) - 1) + 1
            BY <3>1
        <3> QED
            BY <3>2
    <2>4. p \in Peers /\ 1 \in 1 .. Len(waiting) /\ waiting[1].since \in Nat
        <3>1. 1 \in 1 .. Len(waiting)
            BY <2>3
        <3>2. waiting[1] \in QueuePlace
            BY <1>1, <3>1
        <3> QED
            BY <2>1, <3>1, <3>2 DEF QueuePlace
    <2>5. PICK from : from = [i \in 1 .. m |-> i + 1]
        OBVIOUS
    <2>6. /\ from \in [1 .. m -> 1 .. Len(waiting)]
          /\ \A i, j \in 1 .. m : i < j => from[i] < from[j]
        BY <2>3, <2>5
    <2>7. waiting' \in Seq(QueuePlace) /\ Len(waiting') = m
          /\ \A i \in 1 .. m : waiting'[i] = waiting[i + 1] /\ i + 1 \in 1 .. Len(waiting)
        BY <1>1, <1>2, <2>2, <2>3, HeadTailProperties
    <2>8. InLine(waiting')
        <3>1. \A i \in 1 .. m : waiting'[i] = waiting[from[i]]
            BY <2>5, <2>7
        <3> QED
            BY <2>6, <2>7, <3>1, StaysInLine
    <2>9. PICK n \in Nat : n = Len(holders)
        OBVIOUS
    <2>10. /\ active' \in Seq(Peers) /\ Len(active') = n + 1 /\ active'[n + 1] = p
           /\ \A i \in 1 .. n : active'[i] = holders[i]
           /\ \A i \in 1 .. n + 1 : i \in 1 .. n \/ i = n + 1
        BY <2>2, <2>4, <2>9
    <2>11. \A i \in 1 .. n : holders[i] # p
        BY <2>1, <2>4, <2>9 DEF Strangers
    <2>12. EachOnce(active')
        BY <2>9, <2>10, <2>11 DEF EachOnce
    <2>13. ASSUME NEW i \in 1 .. n + 1, NEW j \in 1 .. m PROVE active'[i] # waiting'[j].peer
        <3>1. CASE i \in 1 .. n
            <4>1. holders[i] # waiting[j + 1].peer
                BY <2>7, <2>9, <3>1 DEF Strangers
            <4> QED
                BY <2>7, <2>10, <3>1, <4>1
        <3>2. CASE i = n + 1
            <4>1. waiting[j + 1].peer # waiting[1].peer
                BY <1>1, <2>4, <2>7 DEF InLine
            <4> QED
                BY <2>1, <2>7, <2>10, <3>2, <4>1
        <3> QED
            BY <2>10, <3>1, <3>2
    <2>14. Len(active') = MaxSlots
        BY <2>2, <2>9, <2>10 DEF QueueNumbers
    <2>15. QueueInv'
        <3>1. InLine(waiting)'
            BY <1>1, <2>7, <2>8 DEF InLine
        <3>2. Strangers(active', waiting')
            BY <2>7, <2>10, <2>13 DEF Strangers
        <3>3. Len(active') <= MaxSlots /\ NoIdleSlot'
            BY <2>14 DEF QueueNumbers, NoIdleSlot
        <3> QED
            BY <1>1, <2>7, <2>10, <2>12, <3>1, <3>2, <3>3 DEF QueueInv
    <2>16. ASSUME NEW q \in Waiters, q \in ToSet(active'), q \notin Holders, NEW o \in Waiters
           PROVE  joined[q] <= joined[o]
        <3>1. q = p
            <4>1. PICK i \in 1 .. n + 1 : active'[i] = q
                BY <2>10, <2>16 DEF ToSet
            <4> QED
                BY <2>9, <2>10, <2>16, <4>1
        <3>2. PICK i \in 1 .. Len(waiting) : waiting[i].peer = o
            BY PlacesFound
        <3>3. waiting[1].since <= waiting[i].since
            <4>1. i = 1 \/ 1 < i
                BY <3>2
            <4> QED
                BY <1>1, <2>4, <4>1 DEF InLine
        <3> QED
            BY <1>1, <2>1, <2>4, <3>1, <3>2, <3>3 DEF InLine
    <2> QED
        BY <2>15, <2>16 DEF TheFirstIsServed
<1>3. CASE ~(SlotFree(holders) /\ waiting # <<>>)
    <2>1. active' = holders /\ waiting' = waiting
        BY <1>3 DEF Promoted
    <2>2. waiting # <<>> => Len(holders) = MaxSlots
        BY <1>3 DEF SlotFree, QueueNumbers
    <2>3. QueueInv'
        BY <1>1, <2>1, <2>2 DEF QueueInv, NoIdleSlot, InLine
    <2>4. \A q : q \in ToSet(active') => q \in Holders
        <3>1. DOMAIN holders = 1 .. Len(holders)
            OBVIOUS
        <3> QED
            BY <2>1, <3>1 DEF ToSet
    <2> QED
        BY <2>3, <2>4 DEF TheFirstIsServed
<1> QED
    BY <1>2, <1>3

LEMMA NobodyIsPromoted ==
    ASSUME active' = active
    PROVE  TheFirstIsServed
BY DEF TheFirstIsServed, Holders

LEMMA RequestKeepsQueue ==
    ASSUME QueueNumbers, QueueInv, NEW p \in Peers, RequestSlot(p)
    PROVE  QueueInv' /\ TheFirstIsServed
<1>1. /\ active \in Seq(Peers) /\ waiting \in Seq(QueuePlace) /\ now' = now
      /\ now \in Nat /\ joined \in [Peers -> Nat] /\ InLine(waiting) /\ EachOnce(active)
      /\ Strangers(active, waiting) /\ Len(active) <= MaxSlots
      /\ waiting # <<>> => Len(active) = MaxSlots
    BY DEF QueueInv, NoIdleSlot, RequestSlot
<1>2. /\ \A i \in 1 .. Len(active) : active[i] # p
      /\ \A i \in 1 .. Len(waiting) : waiting[i].peer # p
    BY PlacesFound DEF RequestSlot
<1>3. PICK n \in Nat, m \in Nat : n = Len(active) /\ m = Len(waiting)
    BY <1>1
<1>4. CASE SlotFree(active) /\ active' = Append(active, p) /\ UNCHANGED <<waiting, joined>>
    <2>1. waiting = <<>> /\ waiting' = <<>> /\ n < MaxSlots /\ joined' = joined
        BY <1>1, <1>3, <1>4 DEF SlotFree, QueueNumbers
    <2>2. /\ active' \in Seq(Peers) /\ Len(active') = n + 1 /\ active'[n + 1] = p
          /\ \A i \in 1 .. n : active'[i] = active[i]
          /\ \A i \in 1 .. n + 1 : i \in 1 .. n \/ i = n + 1
        BY <1>1, <1>3, <1>4
    <2>3. EachOnce(active')
        <3>1. ASSUME NEW i \in 1 .. n + 1, NEW j \in 1 .. n + 1, active'[i] = active'[j]
              PROVE  i = j
            <4>1. \A k \in 1 .. n : active'[k] = active[k] /\ active[k] # p
                BY <1>2, <1>3, <2>2
            <4>2. CASE i \in 1 .. n /\ j \in 1 .. n
                BY <1>1, <1>3, <3>1, <4>1, <4>2 DEF EachOnce
            <4>3. CASE i = n + 1 \/ j = n + 1
                BY <2>2, <3>1, <4>1, <4>3
            <4> QED
                BY <2>2, <4>2, <4>3
        <3> QED
            BY <2>2, <3>1 DEF EachOnce
    <2>4. Len(active') <= MaxSlots
        BY <2>1, <2>2 DEF QueueNumbers
    <2>5. Strangers(active', waiting') /\ InLine(waiting)'
        <3>1. 1 .. Len(<<>>) = {}
            OBVIOUS
        <3> QED
            BY <2>1, <3>1 DEF Strangers, InLine
    <2>6. QueueInv'
        BY <1>1, <2>1, <2>2, <2>3, <2>4, <2>5 DEF QueueInv, NoIdleSlot
    <2>7. Waiters = {}
        <3>1. DOMAIN waiting = {}
            BY <2>1
        <3> QED
            BY <3>1 DEF Waiters
    <2> QED
        BY <2>6, <2>7 DEF TheFirstIsServed
<1>5. CASE /\ ~SlotFree(active) /\ waiting' = Append(waiting, NewEntry(p))
           /\ joined' = [joined EXCEPT ![p] = now] /\ UNCHANGED active
    <2>1. PICK e : e = NewEntry(p)
        OBVIOUS
    <2>2. e \in QueuePlace /\ e.peer = p /\ e.since = now
        BY <1>1, <2>1 DEF NewEntry, QueuePlace
    <2>3. /\ waiting' \in Seq(QueuePlace) /\ Len(waiting') = m + 1 /\ waiting'[m + 1] = e
          /\ \A i \in 1 .. m : waiting'[i] = waiting[i]
          /\ \A i \in 1 .. m + 1 : i \in 1 .. m \/ i = m + 1
        BY <1>1, <1>3, <1>5, <2>1, <2>2
    <2>4. joined' \in [Peers -> Nat] /\ joined'[p] = now
          /\ \A i \in 1 .. m : joined'[waiting[i].peer] = joined[waiting[i].peer]
        <3>1. \A i \in 1 .. m : waiting[i].peer \in Peers /\ waiting[i].peer # p
            <4>1. \A i \in 1 .. m : waiting[i] \in QueuePlace
                BY <1>1, <1>3
            <4> QED
                BY <1>2, <1>3, <4>1 DEF QueuePlace
        <3> QED
            BY <1>1, <1>5, <3>1
    <2>5. ASSUME NEW i \in 1 .. m + 1, NEW j \in 1 .. m + 1, waiting'[i].peer = waiting'[j].peer
          PROVE  i = j
        BY <1>1, <1>2, <1>3, <2>2, <2>3, <2>5 DEF InLine
    <2>6. \A i \in 1 .. m + 1 : waiting'[i].since <= now /\ waiting'[i].since = joined'[waiting'[i].peer]
        <3>1. ASSUME NEW i \in 1 .. m
              PROVE  waiting'[i].since <= now /\ waiting'[i].since = joined'[waiting'[i].peer]
            BY <1>1, <1>3, <2>3, <2>4 DEF InLine
        <3>2. waiting'[m + 1].since <= now /\ waiting'[m + 1].since = joined'[waiting'[m + 1].peer]
            BY <1>1, <2>2, <2>3, <2>4
        <3> QED
            BY <2>3, <3>1, <3>2
    <2>7. ASSUME NEW i \in 1 .. m + 1, NEW j \in 1 .. m + 1, i < j
          PROVE  waiting'[i].since <= waiting'[j].since
        <3>1. CASE j = m + 1
            BY <2>2, <2>3, <2>6, <3>1
        <3>2. CASE j # m + 1
            <4>1. i \in 1 .. m /\ j \in 1 .. m
                BY <2>7, <3>2
            <4> QED
                BY <1>1, <1>3, <2>3, <2>7, <4>1 DEF InLine
        <3> QED
            BY <3>1, <3>2
    <2>8. InLine(waiting)'
        BY <1>1, <2>3, <2>5, <2>6, <2>7 DEF InLine
    <2>9. Strangers(active', waiting')
        <3>1. ASSUME NEW i \in 1 .. n, NEW j \in 1 .. m + 1 PROVE active[i] # waiting'[j].peer
            <4>1. CASE j \in 1 .. m
                BY <1>1, <1>3, <2>3, <4>1 DEF Strangers
            <4>2. CASE j = m + 1
                BY <1>2, <1>3, <2>2, <2>3, <4>2
            <4> QED
                BY <2>3, <4>1, <4>2
        <3> QED
            BY <1>3, <1>5, <2>3, <3>1 DEF Strangers
    <2>10. Len(active') = MaxSlots
        BY <1>1, <1>3, <1>5 DEF SlotFree, QueueNumbers
    <2>11. QueueInv'
        BY <1>1, <1>5, <2>3, <2>4, <2>8, <2>9, <2>10 DEF QueueInv, NoIdleSlot
    <2> QED
        BY <1>5, <2>11, NobodyIsPromoted
<1> QED
    BY <1>4, <1>5 DEF RequestSlot

LEMMA ReleaseKeepsQueue ==
    ASSUME QueueNumbers, QueueInv, NEW p \in Peers, ReleaseSlot(p)
    PROVE  QueueInv' /\ TheFirstIsServed
<1>1. /\ active \in Seq(Peers) /\ EachOnce(active) /\ Strangers(active, waiting)
      /\ Len(active) <= MaxSlots /\ Len(active) \in Nat
      /\ \A i \in 1 .. Len(active) : active[i] \in Holders
      /\ UNCHANGED <<now, joined>>
    BY PlacesFound DEF QueueInv, ReleaseSlot
<1>2. CASE p \notin Holders
    <2>1. Promoted(active)
        BY <1>2 DEF ReleaseSlot
    <2>2. Len(active) - 1 <= Len(active)
        BY <1>1
    <2> QED
        BY <1>1, <2>1, <2>2, PromotedServes
<1>3. CASE p \in Holders
    <2>1. PICK k \in 1 .. Len(active) : k = SlotPosition(p)
        BY <1>3, PlacesFound
    <2>2. PICK holders : holders = RemoveAt(active, k)
        OBVIOUS
    <2>3. PICK n \in Nat : n = Len(active)
        BY <1>1
    <2>4. /\ holders \in Seq(Peers) /\ Len(holders) = n - 1
          /\ \A j \in 1 .. n - 1 : holders[j] = IF j < k THEN active[j] ELSE active[j + 1]
        BY <1>1, <2>1, <2>2, <2>3, ListWithout
    <2>5. PICK at : at = [j \in 1 .. n - 1 |-> IF j < k THEN j ELSE j + 1]
        OBVIOUS
    <2>6. /\ at \in [1 .. n - 1 -> 1 .. n]
          /\ \A i, j \in 1 .. n - 1 : at[i] = at[j] => i = j
          /\ \A i \in 1 .. n - 1 : holders[i] = active[at[i]]
        BY <2>1, <2>3, <2>4, <2>5
    <2>7. EachOnce(holders)
        <3>1. ASSUME NEW i \in 1 .. n - 1, NEW j \in 1 .. n - 1, holders[i] = holders[j]
              PROVE  i = j
            <4>1. at[i] \in 1 .. n /\ at[j] \in 1 .. n /\ active[at[i]] = active[at[j]]
                BY <2>6, <3>1
            <4>2. at[i] = at[j]
                BY <1>1, <2>3, <4>1, Zenon DEF EachOnce
            <4> QED
                BY <2>6, <4>2
        <3> QED
            BY <2>4, <3>1 DEF EachOnce
    <2>8. \A i \in 1 .. Len(holders) : holders[i] = active[at[i]] /\ at[i] \in 1 .. Len(active)
        BY <2>3, <2>4, <2>6
    <2>9. Strangers(holders, waiting) /\ \A i \in 1 .. Len(holders) : holders[i] \in Holders
        <3>1. Strangers(holders, waiting)
            <4>1. \A i \in 1 .. Len(active), j \in 1 .. Len(waiting) : active[i] # waiting[j].peer
                BY <1>1 DEF Strangers
            <4>2. ASSUME NEW i \in 1 .. Len(holders), NEW j \in 1 .. Len(waiting)
                  PROVE  holders[i] # waiting[j].peer
                <5>1. active[at[i]] # waiting[j].peer
                    BY <2>8, <4>1
                <5> QED
                    BY <2>8, <5>1
            <4> QED
                BY <4>2 DEF Strangers
        <3>2. \A i \in 1 .. Len(holders) : holders[i] \in Holders
            BY <1>1, <2>8
        <3> QED
            BY <3>1, <3>2
    <2>10. Len(holders) <= MaxSlots /\ Len(active) - 1 <= Len(holders)
        BY <1>1, <2>3, <2>4 DEF QueueNumbers
    <2>11. Promoted(holders)
        BY <1>3, <2>1, <2>2 DEF ReleaseSlot
    <2> QED
        BY <1>1, <2>4, <2>7, <2>9, <2>10, <2>11, PromotedServes
<1> QED
    BY <1>2, <1>3

(* The queue gets shorter, and that is all.                                 *)
LEMMA ShorterQueue ==
    ASSUME QueueNumbers, QueueInv, waiting' \in Seq(QueuePlace), InLine(waiting'),
           Strangers(active, waiting'), waiting = <<>> => waiting' = <<>>,
           UNCHANGED <<active, now, joined>>
    PROVE  QueueInv' /\ TheFirstIsServed
<1>1. InLine(waiting)'
    BY DEF InLine
<1>2. NoIdleSlot'
    BY DEF QueueInv, NoIdleSlot
<1>3. QueueInv'
    BY <1>1, <1>2 DEF QueueInv, Strangers
<1> QED
    BY <1>3, NobodyIsPromoted

LEMMA CancelKeepsQueue ==
    ASSUME QueueNumbers, QueueInv, NEW p \in Peers, CancelQueue(p)
    PROVE  QueueInv' /\ TheFirstIsServed
<1>1. PICK k \in 1 .. Len(waiting) : k = QueuePosition(p)
    BY PlacesFound DEF CancelQueue
<1>2. waiting' = RemoveAt(waiting, k) /\ UNCHANGED <<active, now, joined>>
    BY <1>1 DEF CancelQueue
<1>3. waiting \in Seq(QueuePlace) /\ Len(waiting) \in Nat
    BY DEF QueueInv
<1>4. PICK m \in Nat : Len(waiting) = m + 1
    <2>1. Len(waiting) - 1 \in Nat /\ Len(waiting) = (Len(waiting) - 1) + 1
        BY <1>1, <1>3
    <2> QED
        BY <2>1
<1>5. /\ waiting' \in Seq(QueuePlace) /\ Len(waiting') = m
      /\ \A j \in 1 .. m : waiting'[j] = IF j < k THEN waiting[j] ELSE waiting[j + 1]
    <2>1. Len(waiting) - 1 = m
        BY <1>4
    <2> QED
        BY <1>1, <1>2, <1>3, <2>1, ListWithout
<1>6. PICK from : from = [j \in 1 .. m |-> IF j < k THEN j ELSE j + 1]
    OBVIOUS
<1>7. /\ from \in [1 .. m -> 1 .. Len(waiting)]
      /\ \A i, j \in 1 .. m : i < j => from[i] < from[j]
      /\ \A i \in 1 .. m : waiting'[i] = waiting[from[i]]
    BY <1>1, <1>4, <1>5, <1>6
<1>8. InLine(waiting') /\ Strangers(active, waiting')
    BY <1>5, <1>7, StaysInLine
<1>9. waiting # <<>>
    BY <1>3, <1>4
<1> QED
    BY <1>2, <1>5, <1>8, <1>9, ShorterQueue

LEMMA EvictKeepsQueue ==
    ASSUME QueueNumbers, QueueInv, EvictStale
    PROVE  QueueInv' /\ TheFirstIsServed
<1>1. waiting \in Seq(QueuePlace) /\ DOMAIN waiting = 1 .. Len(waiting) /\ Len(waiting) \in Nat
    BY DEF QueueInv
<1>2. PICK places \in SUBSET (1 .. Len(waiting)) :
          \E from \in [1 .. Cardinality(places) -> places] :
              /\ \A i, j \in DOMAIN from : i < j => from[i] < from[j]
              /\ waiting' = [i \in 1 .. Cardinality(places) |-> waiting[from[i]]]
    BY <1>1 DEF EvictStale
<1>3. PICK n : n = Cardinality(places)
    OBVIOUS
<1>4. n \in Nat
    <2>1. IsFiniteSet(1 .. Len(waiting))
        BY <1>1, FS_Interval
    <2>2. IsFiniteSet(places)
        BY <1>2, <2>1, FS_Subset
    <2> QED
        BY <1>3, <2>2, FS_CardinalityType
<1>5. PICK from \in [1 .. n -> places] :
          /\ \A i, j \in 1 .. n : i < j => from[i] < from[j]
          /\ waiting' = [i \in 1 .. n |-> waiting[from[i]]]
    BY <1>2, <1>3
<1>6. from \in [1 .. n -> 1 .. Len(waiting)]
    BY <1>2
<1>7. \A i \in 1 .. n : waiting[from[i]] \in QueuePlace
    BY <1>1, <1>6
<1>8. /\ waiting' \in Seq(QueuePlace) /\ Len(waiting') = n
      /\ \A i \in 1 .. n : waiting'[i] = waiting[from[i]]
    BY <1>4, <1>5, <1>7
<1>9. InLine(waiting') /\ Strangers(active, waiting')
    BY <1>4, <1>5, <1>6, <1>8, StaysInLine
<1>10. waiting = <<>> => waiting' = <<>>
    <2>1. waiting = <<>> => 1 .. Len(waiting) = {}
        BY <1>1
    <2>2. waiting = <<>> => n = 0
        <3>1. waiting = <<>> => 1 \notin 1 .. n
            BY <1>6, <2>1
        <3> QED
            BY <1>4, <3>1
    <2> QED
        BY <1>8, <2>2
<1>11. UNCHANGED <<active, now, joined>>
    BY DEF EvictStale
<1> QED
    BY <1>8, <1>9, <1>10, <1>11, ShorterQueue

LEMMA QueueStep ==
    ASSUME QueueNumbers, QueueInv, QueueNext
    PROVE  QueueInv' /\ TheFirstIsServed
<1>1. CASE \E p \in Peers : RequestSlot(p)
    BY <1>1, RequestKeepsQueue
<1>2. CASE \E p \in Peers : RequestChangesNothing(p)
    <2>1. UNCHANGED queueVars
        BY <1>2 DEF RequestChangesNothing
    <2>2. active' = active /\ waiting' = waiting /\ now' = now /\ joined' = joined
        BY <2>1 DEF queueVars
    <2>3. QueueInv'
        BY <2>2 DEF QueueInv, InLine, NoIdleSlot
    <2> QED
        BY <2>2, <2>3, NobodyIsPromoted
<1>3. CASE \E p \in Peers : ReleaseSlot(p)
    BY <1>3, ReleaseKeepsQueue
<1>4. CASE \E p \in Peers : CancelQueue(p)
    BY <1>4, CancelKeepsQueue
<1>5. CASE EvictStale
    BY <1>5, EvictKeepsQueue
<1>6. CASE Tick
    <2>1. /\ active' = active /\ waiting' = waiting /\ joined' = joined /\ now' = now + 1
          /\ now \in Nat /\ waiting \in Seq(QueuePlace) /\ InLine(waiting)
        BY <1>6 DEF Tick, QueueInv
    <2>2. \A i \in 1 .. Len(waiting) : waiting[i].since \in Nat
        <3>1. \A i \in 1 .. Len(waiting) : waiting[i] \in QueuePlace
            BY <2>1
        <3> QED
            BY <3>1 DEF QueuePlace
    <2>3. \A i \in 1 .. Len(waiting) : waiting[i].since <= now + 1
        BY <2>1, <2>2 DEF InLine
    <2>4. InLine(waiting)'
        BY <2>1, <2>3 DEF InLine
    <2>5. QueueInv'
        BY <2>1, <2>4 DEF QueueInv, NoIdleSlot
    <2> QED
        BY <2>1, <2>5, NobodyIsPromoted
<1> QED
    BY <1>1, <1>2, <1>3, <1>4, <1>5, <1>6 DEF QueueNext

LEMMA QueueStarts ==
    ASSUME QueueNumbers, QueueInit
    PROVE  QueueInv
<1>1. active = <<>> /\ waiting = <<>> /\ now = 0 /\ 1 .. Len(<<>>) = {} /\ Len(<<>>) = 0
    BY DEF QueueInit
<1>2. joined \in [Peers -> Nat]
    BY DEF QueueInit
<1>3. EachOnce(active) /\ InLine(waiting) /\ Strangers(active, waiting) /\ NoIdleSlot
    BY <1>1 DEF EachOnce, InLine, Strangers, NoIdleSlot
<1>4. active \in Seq(Peers) /\ waiting \in Seq(QueuePlace) /\ now \in Nat
    BY <1>1
<1>5. Len(active) <= MaxSlots
    BY <1>1 DEF QueueNumbers
<1> QED
    BY <1>2, <1>3, <1>4, <1>5 DEF QueueInv

(* The queue is fair (QueueIsFair, for UploadQueue): no slot is idle while  *)
(* a peer waits, and nobody is promoted before one who waits longer,        *)
(* whoever asks twice, leaves, is evicted or never had a slot, for any      *)
(* number of peers and slots and any length of the queue.                   *)
THEOREM SlotsAreFair == QueueSpec => QueueIsFair
<1> SUFFICES ASSUME QueueNumbers PROVE QueueSpec => QueueIsFair
    BY QueueAssumption DEF QueueNumbers
<1>1. QueueInit => QueueInv
    BY QueueStarts
<1>2. QueueInv /\ [QueueNext]_queueVars => QueueInv'
    <2>1. QueueInv /\ QueueNext => QueueInv'
        BY QueueStep
    <2>2. QueueInv /\ UNCHANGED queueVars => QueueInv'
        BY Zenon DEF queueVars, QueueInv, NoIdleSlot, InLine, Strangers, EachOnce
    <2> QED
        BY <2>1, <2>2
<1>3. QueueInv /\ [QueueNext]_queueVars => [NoIdleSlot']_queueVars
    BY <1>2 DEF QueueInv
<1>4. QueueInv /\ [QueueNext]_queueVars =>
          [\A p \in Waiters :
              p \in ToSet(active') /\ p \notin Holders =>
                 \A q \in Waiters : joined[p] <= joined[q]]_queueVars
    BY QueueStep DEF TheFirstIsServed
<1> QED
    BY <1>1, <1>2, <1>3, <1>4, PTL DEF QueueSpec, QueueIsFair, FirstComeFirstServed
=============================================================================
