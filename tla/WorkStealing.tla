---------------------------- MODULE WorkStealing ----------------------------
(***************************************************************************)
(* StealableTask and WorkStealingScheduler (p2p-distribute,                *)
(* work_stealing.rs): threads download byte ranges of one file; a thread   *)
(* whose range is exhausted takes the upper half of somebody else's.  The  *)
(* two ends of a range are two atomics: the owner adds to the start, a     *)
(* thief swaps the end.                                                    *)
(*                                                                         *)
(* Each action is one atomic access, or one download between two.  The     *)
(* loads by which steal_from_largest ranks its victims are one action: a   *)
(* rank that is out of date only changes whom it tries first.              *)
(***************************************************************************)
EXTENDS Integers, FiniteSets, Sequences

CONSTANTS
    StealSize,  \* file_size
    Threads,    \* task_count: the threads are 1..Threads
    MinChunk,   \* min_chunk_size
    Chunk       \* the most bytes an owner writes between two advances

ASSUME StealingAssumption ==
    Threads \in Nat \ {0} /\ {StealSize, MinChunk, Chunk} \subseteq Nat

Workers == 1 .. Threads
File == 0 .. StealSize - 1
Span(from, to) == from .. to - 1
Smaller(a, b) == IF a <= b THEN a ELSE b
Larger(a, b) == IF a >= b THEN a ELSE b

VARIABLES
    start,    \* current_start of each task
    end,      \* end of each task
    threadPc, \* where each thread is
    todo,     \* a thread's download in progress, its own or stolen: <<from, to>>
    victims,  \* the tasks a thief has still to try, best first
    seen,     \* what the thief read of its victim: <<start, end>>
    fetched   \* history: the bytes that have been downloaded

stealVars == <<start, end, threadPc, todo, victims, seen, fetched>>

(* WorkStealingScheduler::new: equal segments, the last with the rest, none *)
(* below the minimum; surplus threads start empty.                          *)
Effective ==
    IF MinChunk > 0 /\ StealSize > 0
    THEN Smaller(Threads, Larger(StealSize \div MinChunk, 1))
    ELSE Threads

Segment == IF StealSize > 0 THEN StealSize \div Effective ELSE 0

FirstStart(w) == IF w <= Effective THEN (w - 1) * Segment ELSE 0

FirstEnd(w) == CASE w < Effective -> w * Segment
                 [] w = Effective -> StealSize
                 [] OTHER -> 0

StealInit ==
    /\ start = [w \in Workers |-> FirstStart(w)]
    /\ end = [w \in Workers |-> FirstEnd(w)]
    /\ threadPc = [w \in Workers |-> "own"]
    /\ todo = [w \in Workers |-> <<0, 0>>]
    /\ victims = [w \in Workers |-> <<>>]
    /\ seen = [w \in Workers |-> <<0, 0>>]
    /\ fetched = {}

Remaining(w) == Larger(end[w] - start[w], 0)

ThreadGoes(w, from, to) == threadPc[w] = from /\ threadPc' = [threadPc EXCEPT ![w] = to]

Download(w) ==
    fetched' = fetched \cup Span(todo[w][1], todo[w][2])

-----------------------------------------------------------------------------
(* The owner.                                                               *)

(* It reads what remains of its task and sets out to download the next part.*)
TakeOwn(w) ==
    /\ ThreadGoes(w, "own", "write")
    /\ Remaining(w) > 0
    /\ todo' = [todo EXCEPT ![w] = <<start[w], start[w] + Smaller(Chunk, Remaining(w))>>]
    /\ UNCHANGED <<start, end, victims, seen, fetched>>

OwnExhausted(w) ==
    /\ ThreadGoes(w, "own", "survey")
    /\ Remaining(w) = 0
    /\ UNCHANGED <<start, end, todo, victims, seen, fetched>>

WriteOwn(w) ==
    /\ ThreadGoes(w, "write", "advance")
    /\ Download(w)
    /\ UNCHANGED <<start, end, todo, victims, seen>>

(* advance: fetch_add on the start. *)
Advance(w) ==
    /\ ThreadGoes(w, "advance", "own")
    /\ start' = [start EXCEPT ![w] = @ + (todo[w][2] - todo[w][1])]
    /\ UNCHANGED <<end, todo, victims, seen, fetched>>

-----------------------------------------------------------------------------
(* The thief.                                                               *)

Candidates(w) == {v \in Workers \ {w} : Remaining(v) >= 2 * MinChunk}

(* sort_by_key: the one with most left first, the sort is stable.          *)
IsRanked(order) ==
    \A i, j \in DOMAIN order : i < j =>
        LET v == order[i]
            u == order[j]
        IN  Remaining(v) > Remaining(u) \/ (Remaining(v) = Remaining(u) /\ v < u)

Survey(w) ==
    /\ ThreadGoes(w, "survey", "end")
    /\ \E order \in [1 .. Cardinality(Candidates(w)) -> Candidates(w)] :
          IsRanked(order) /\ victims' = [victims EXCEPT ![w] = order]
    /\ UNCHANGED <<start, end, todo, seen, fetched>>

(* No victim left: steal_from_largest returns None and the thread stops. *)
NoVictim(w) ==
    /\ ThreadGoes(w, "end", "done")
    /\ victims[w] = <<>>
    /\ UNCHANGED <<start, end, todo, victims, seen, fetched>>

Victim(w) == Head(victims[w])

(* steal: it loads the end, then the start, ... *)
LoadEnd(w) ==
    /\ ThreadGoes(w, "end", "start")
    /\ victims[w] # <<>>
    /\ seen' = [seen EXCEPT ![w] = <<@[1], end[Victim(w)]>>]
    /\ UNCHANGED <<start, end, todo, victims, fetched>>

LoadStart(w) ==
    /\ ThreadGoes(w, "start", "split")
    /\ seen' = [seen EXCEPT ![w] = <<start[Victim(w)], @[2]>>]
    /\ UNCHANGED <<start, end, todo, victims, fetched>>

(* ... computes the midpoint from what it read, rounded up to a multiple of *)
(* the minimum, ...                                                         *)
MidPoint(s, e) ==
    LET middle == s + (e - s) \div 2
        rounded == ((middle + MinChunk - 1) \div MinChunk) * MinChunk
    IN  IF MinChunk = 0 THEN middle
        ELSE Larger(Smaller(rounded, e - 1), s + 1)

Splittable(s, e) ==
    /\ e - s >= Larger(2 * MinChunk, 2)
    /\ s < MidPoint(s, e) /\ MidPoint(s, e) < e

TooSmall(w) ==
    /\ ThreadGoes(w, "split", "end")
    /\ ~Splittable(seen[w][1], seen[w][2])
    /\ victims' = [victims EXCEPT ![w] = Tail(@)]
    /\ UNCHANGED <<start, end, todo, seen, fetched>>

(* A slip: the end is stored, not compared and swapped. *)
StealByStore(w) ==
    /\ ThreadGoes(w, "split", "haul")
    /\ Splittable(seen[w][1], seen[w][2])
    /\ LET middle == MidPoint(seen[w][1], seen[w][2])
       IN  /\ end' = [end EXCEPT ![Victim(w)] = middle]
           /\ todo' = [todo EXCEPT ![w] = <<middle, seen[w][2]>>]
    /\ UNCHANGED <<start, victims, seen, fetched>>

(* ... and swaps the end for it if the end is still the one it read. *)
Steal(w) ==
    /\ ThreadGoes(w, "split", "haul")
    /\ Splittable(seen[w][1], seen[w][2])
    /\ end[Victim(w)] = seen[w][2]
    /\ LET middle == MidPoint(seen[w][1], seen[w][2])
       IN  /\ end' = [end EXCEPT ![Victim(w)] = middle]
           /\ todo' = [todo EXCEPT ![w] = <<middle, seen[w][2]>>]
    /\ UNCHANGED <<start, victims, seen, fetched>>

StealRetries(w) ==
    /\ ThreadGoes(w, "split", "end")
    /\ Splittable(seen[w][1], seen[w][2])
    /\ end[Victim(w)] # seen[w][2]
    /\ UNCHANGED <<start, end, todo, victims, seen, fetched>>

(* The stolen range is the thread's alone: it is no task others can see.    *)
Haul(w) ==
    /\ ThreadGoes(w, "haul", "survey")
    /\ Download(w)
    /\ UNCHANGED <<start, end, todo, victims, seen>>

-----------------------------------------------------------------------------
Own(w) == TakeOwn(w) \/ OwnExhausted(w) \/ WriteOwn(w) \/ Advance(w)

Thief(w) ==
    \/ Survey(w) \/ NoVictim(w)
    \/ LoadEnd(w) \/ LoadStart(w)
    \/ TooSmall(w) \/ Steal(w) \/ StealRetries(w)
    \/ Haul(w)

AllDone == \A w \in Workers : threadPc[w] = "done"
Finished == AllDone /\ UNCHANGED stealVars

StealNext == (\E w \in Workers : Own(w) \/ Thief(w)) \/ Finished

StealSpec == StealInit /\ [][StealNext]_stealVars
FairStealSpec == StealSpec /\ \A w \in Workers : WF_stealVars(Own(w) \/ Thief(w))

-----------------------------------------------------------------------------
(* Properties.                                                              *)

(* What a task, or a thief on the way with its haul, still answers for. *)
Assigned(w) == Span(start[w], end[w])
Hauled(w) == IF threadPc[w] = "haul" THEN Span(todo[w][1], todo[w][2]) ELSE {}

(* No byte is lost, whatever races: it has been downloaded, or a task or a  *)
(* thief answers for it ("No byte range is ... lost during steals").        *)
NothingLost ==
    \A b \in File :
        b \in fetched \/ \E w \in Workers : b \in Assigned(w) \cup Hauled(w)

(* Two threads never answer for the same byte (the compare-and-swap of      *)
(* steal; test task_concurrent_steals_are_disjoint).                        *)
OneAnswers ==
    /\ \A w, v \in Workers : Assigned(w) \cap Hauled(v) = {}
    /\ \A w, v \in Workers :
          w # v => Assigned(w) \cap Assigned(v) = {} /\ Hauled(w) \cap Hauled(v) = {}

(* When every thread has stopped the file is there. *)
StoppedIsWhole == AllDone => fetched = File

(* However owner and thieves race on a range, every byte is answered for by *)
(* one thread until it is there (advance, steal, steal_from_largest).       *)
RangesAreExact == NothingLost /\ OneAnswers /\ StoppedIsWhole

(* The scheduler is free of livelock: every thread stops. *)
AllStop == <>AllDone
=============================================================================
