--------------------------- MODULE MirrorDownload ---------------------------
(***************************************************************************)
(* MirrorDownload (cnc-content, downloader/mod.rs `download_to_file`,      *)
(* mirror.rs, segmented.rs): one file fetched from HTTP mirrors, from one  *)
(* of them, by a race of all, or segment by segment from all at once.      *)
(*                                                                         *)
(* A file is a sequence of blocks of MIN_SEGMENT_SIZE bytes.  The mirrors  *)
(* hold the blocks 0 .. Size - 1; the block Size stands for wrong bytes.   *)
(* A hash is the sequence that was hashed.  Until it is complete a file    *)
(* that is being written is empty: nobody looks at less.                   *)
(***************************************************************************)
EXTENDS Naturals, Sequences, FiniteSets, Functions, FiniteSetsExt, SequencesExt

CONSTANTS
    Counts,       \* the values urls.len() may have
    Size,         \* blocks of the file
    Hints,        \* the values `size_hint` may have, 0 for unknown
    DiskErrors    \* file system errors of one download, at most

ASSUME MirrorAssumption ==
    /\ IsFiniteSet(Counts) /\ Counts # {} /\ Counts \subseteq Nat \ {0}
    /\ Size \in Nat \ {0}
    /\ Hints \subseteq Nat /\ DiskErrors \in Nat

VARIABLES
    world,    \* [count, sound, honest, ranged, hint]: urls.len(), mirrors that
              \* never fail, that never serve wrong bytes, that honour Range;
              \* size_hint
    disk,     \* the files that exist, name to content
    errors,   \* file system errors so far
    main,     \* where the calling thread is
    result,   \* what download_to_file returned
    sha,      \* the hash that will be compared
    th,       \* where the thread of each mirror or segment is
    hashed,   \* race: what each thread has hashed
    done,     \* race: the flag of the winner
    winner,   \* race: the thread whose Ok message is under way, or 0;
              \* messages of errors only carry their text and are left out
    next,     \* race: the temporary file to be removed next
    failed,   \* segments: the flag of a segment nobody could fetch
    tried     \* segments: the mirrors that each segment was asked of

racing == <<hashed, done, winner, next>>
splitting == <<failed, tried>>
vars == <<world, disk, errors, main, result, sha, th, racing, splitting>>

Dest == <<"dest", 0>>
Tmp(i) == <<"tmp", i>>
Seg(i) == <<"seg", i>>
Right == [b \in 1 .. Size |-> b - 1]
MirrorCount == world.count
Urls == 1 .. MirrorCount
Hint == world.hint
Sound(u) == u \in world.sound

(* The file system: create or overwrite, write to a file that may have     *)
(* been unlinked meanwhile, unlink.                                        *)
With(name, data) == [n \in DOMAIN disk \cup {name} |-> IF n = name THEN data ELSE disk[n]]
Written(name, data) == IF name \in DOMAIN disk THEN With(name, data) ELSE disk
Without(names) == Restrict(disk, DOMAIN disk \ names)

DiskFails == errors < DiskErrors /\ errors' = errors + 1
NoResponse(u) == ~Sound(u) /\ UNCHANGED errors

(* Who else honours Range matters only if the size is known and the first  *)
(* mirror does; a first mirror that fails the probe is one that does not;  *)
(* and to a race a wrong hint is no other than a right one.                *)
Worlds ==
    {w \in [count : Counts, sound : SUBSET (1 .. Max(Counts)), honest : SUBSET (1 .. Max(Counts)),
            ranged : SUBSET (1 .. Max(Counts)), hint : Hints] :
        /\ w.sound \subseteq w.honest /\ w.honest \cup w.ranged \subseteq 1 .. w.count
        /\ w.ranged # {} => 1 \in w.ranged /\ w.hint > 0 /\ w.count > 1
        /\ w.ranged = {} => w.hint \in {0, Size}}

Init ==
    /\ world \in Worlds
    /\ disk = <<>> /\ errors = 0
    /\ main = "start" /\ result = "none" /\ sha = <<>>
    /\ th = [u \in Urls |-> "unborn"]
    /\ hashed = [u \in Urls |-> <<>>] /\ done = FALSE /\ winner = 0 /\ next = 1
    /\ failed = FALSE /\ tried = [u \in Urls |-> {}]
-----------------------------------------------------------------------------
Bodies(u) == {Right} \cup (IF u \in world.honest THEN {} ELSE {<<Size>>})

(* One mirror: try_download writes straight to the destination.            *)
TrySingle ==
    /\ main = "start" /\ MirrorCount = 1
    /\ \/ /\ NoResponse(1) \/ DiskFails
          /\ disk' \in {disk, With(Dest, <<>>)}
          /\ main' = "failed"
          /\ UNCHANGED sha
       \/ \E body \in Bodies(1) :
            /\ disk' = With(Dest, body)
            /\ sha' = body
            /\ main' = "check"
            /\ UNCHANGED errors
    /\ UNCHANGED <<world, result, th, racing, splitting>>
-----------------------------------------------------------------------------
(* The race: parallel_download.                                            *)

StartRace ==
    /\ main' = "race"
    /\ th' = [u \in Urls |-> "begin"]
    /\ UNCHANGED <<world, disk, errors, result, sha, racing, splitting>>

Race ==
    /\ main = "start" /\ MirrorCount > 1 /\ Hint = 0
    /\ StartRace

Goto(i, at) == th' = [th EXCEPT ![i] = at]

RaceBegin(i) ==
    /\ th[i] = "begin"
    /\ Goto(i, IF done THEN "gone" ELSE "request")
    /\ UNCHANGED <<world, disk, errors, main, result, sha, racing, splitting>>

(* The request, then File::create.                                         *)
RaceRequest(i) ==
    /\ th[i] = "request"
    /\ \/ /\ NoResponse(i) \/ DiskFails
          /\ Goto(i, "erring")
          /\ UNCHANGED disk
       \/ /\ disk' = With(Tmp(i), <<>>)
          /\ Goto(i, "read")
          /\ UNCHANGED errors
    /\ UNCHANGED <<world, main, result, sha, racing, splitting>>

(* The flag is looked at before each read; after the last it is not.       *)
RaceLook(i) ==
    /\ th[i] = "read"
    /\ Goto(i, IF done THEN "erring" ELSE "tail")
    /\ UNCHANGED <<world, disk, errors, main, result, sha, racing, splitting>>

RaceRead(i) ==
    /\ th[i] = "tail"
    /\ \/ /\ NoResponse(i) \/ DiskFails
          /\ Goto(i, "erring")
          /\ UNCHANGED <<disk, hashed>>
       \/ \E body \in Bodies(i) :
            /\ disk' = Written(Tmp(i), body)
            /\ hashed' = [hashed EXCEPT ![i] = body]
            /\ Goto(i, "swap")
            /\ UNCHANGED errors
    /\ UNCHANGED <<world, main, result, sha, done, winner, next, splitting>>

(* done.swap(true): the first announces its file, the others remove        *)
(* theirs.                                                                 *)
RaceSwap(i) ==
    /\ th[i] = "swap"
    /\ Goto(i, "gone")
    /\ done' = TRUE
    /\ IF done
       THEN disk' = Without({Tmp(i)}) /\ UNCHANGED winner
       ELSE winner' = i /\ UNCHANGED disk
    /\ UNCHANGED <<world, errors, main, result, sha, hashed, next, splitting>>

RaceErr(i) ==
    /\ th[i] = "erring"
    /\ disk' = Without({Tmp(i)})
    /\ Goto(i, "gone")
    /\ UNCHANGED <<world, errors, main, result, sha, racing, splitting>>

(* A slip: the caller keeps a sender of its own.                           *)
RaceReceiveHoldingSender ==
    /\ main = "race"
    /\ winner # 0 /\ main' = "rename"
    /\ UNCHANGED <<world, disk, errors, result, sha, th, racing, splitting>>

(* The main thread: the winner's message ends its loop, and so does the    *)
(* end of all senders.                                                     *)
RaceReceive ==
    /\ main = "race"
    /\ \/ winner # 0 /\ main' = "rename"
       \/ winner = 0 /\ (\A u \in Urls : th[u] = "gone") /\ main' = "failed"
    /\ UNCHANGED <<world, disk, errors, result, sha, th, racing, splitting>>

(* A slip: an error of the copy is ignored.                                *)
RaceRenameBlind ==
    /\ main = "rename"
    /\ \/ DiskFails /\ disk' = Without({Tmp(winner)})
       \/ disk' = Restrict(With(Dest, disk[Tmp(winner)]), (DOMAIN disk \cup {Dest}) \ {Tmp(winner)})
          /\ UNCHANGED errors
    /\ sha' = hashed[winner]
    /\ main' = "clean"
    /\ UNCHANGED <<world, result, th, racing, splitting>>

(* rename, or else copy and remove.                                        *)
RaceRename ==
    /\ main = "rename"
    /\ LET moved(data) == [n \in (DOMAIN disk \cup {Dest}) \ {Tmp(winner)} |->
                               IF n = Dest THEN data ELSE disk[n]]
       IN \/ /\ DiskFails
             /\ disk' \in {Without({Tmp(winner)}), moved(<<>>)}
             /\ main' = "fail"
             /\ UNCHANGED sha
          \/ /\ disk' = moved(disk[Tmp(winner)])
             /\ sha' = hashed[winner]
             /\ main' = "clean"
             /\ UNCHANGED errors
    /\ UNCHANGED <<world, result, th, racing, splitting>>

RaceClean ==
    /\ main = "clean" /\ next \in Urls
    /\ disk' = Without({Tmp(next)})
    /\ next' = next + 1
    /\ UNCHANGED <<world, errors, main, result, sha, th, hashed, done, winner, splitting>>

(* The end of the scope waits for every thread.                            *)
RaceScopeEnds ==
    /\ main = "fail" \/ (main = "clean" /\ next \notin Urls)
    /\ \A u \in Urls : th[u] = "gone"
    /\ main' = IF main = "fail" THEN "failed" ELSE "check"
    /\ UNCHANGED <<world, disk, errors, result, sha, th, racing, splitting>>
-----------------------------------------------------------------------------
(* Segments: segmented_download.                                           *)

SegmentCount == IF Hint < MirrorCount THEN (IF Hint = 0 THEN 1 ELSE Hint) ELSE MirrorCount
Segments == 1 .. SegmentCount
SegmentSize == Hint \div SegmentCount
First(s) == (s - 1) * SegmentSize
LastOf(s) == IF s = SegmentCount THEN Hint - 1 ELSE s * SegmentSize - 1

(* probe_range_support asks the first mirror only.                         *)
Probe ==
    /\ main = "start" /\ MirrorCount > 1 /\ Hint > 0
    /\ \/ /\ 1 \in world.ranged
          /\ main' = "segments"
          /\ th' = [u \in Urls |-> IF u \in Segments THEN "fetch" ELSE "gone"]
          /\ UNCHANGED <<world, disk, errors, result, sha, racing, splitting>>
       \/ 1 \notin world.ranged /\ StartRace

(* The mirrors a segment is asked of: its own, then the others in order.   *)
NextUrl(s) == IF s \notin tried[s] THEN s ELSE Min(Urls \ tried[s])

Part(s, wrong) == [b \in 1 .. LastOf(s) - First(s) + 1 |-> IF wrong THEN Size ELSE First(s) + b - 1]
Parts(s, u) == {Part(s, FALSE)} \cup (IF u \in world.honest THEN {} ELSE {Part(s, TRUE)})

(* download_segment: no answer, no 206, an error on the way, fewer bytes   *)
(* than the range has; or the segment.  What a failed attempt leaves of    *)
(* its file is overwritten or removed, never read: it always leaves one    *)
(* here.                                                                   *)
Serves(u, s) == u \in world.ranged /\ (LastOf(s) < Size \/ u \notin world.honest)

SegmentFetch(s) ==
    /\ th[s] = "fetch" /\ tried[s] # Urls
    /\ tried[s] = {} \/ ~failed
    /\ LET u == NextUrl(s)
       IN \/ /\ (~Serves(u, s) /\ UNCHANGED errors) \/ NoResponse(u) \/ DiskFails
             /\ disk' = With(Seg(s), <<>>)
             /\ tried' = [tried EXCEPT ![s] = @ \cup {u}]
             /\ UNCHANGED th
          \/ \E part \in Parts(s, u) :
                /\ Serves(u, s)
                /\ disk' = With(Seg(s), part)
                /\ Goto(s, "ok")
                /\ UNCHANGED <<errors, tried>>
    /\ UNCHANGED <<world, main, result, sha, racing, failed>>

(* Nobody left to ask, or another segment has given up.                    *)
SegmentGivesUp(s) ==
    /\ th[s] = "fetch"
    /\ tried[s] = Urls \/ (tried[s] # {} /\ failed)
    /\ failed' = TRUE
    /\ Goto(s, "err")
    /\ UNCHANGED <<world, disk, errors, main, result, sha, racing, tried>>

SegmentFiles == {Seg(s) : s \in Segments}

(* The threads are joined in order; assemble_segments when all are well.   *)
JoinSegments ==
    /\ main = "segments"
    /\ \A s \in Segments : th[s] \in {"ok", "err"}
    /\ IF \E s \in Segments : th[s] = "err"
       THEN disk' = Without(SegmentFiles) /\ main' = "failed"
       ELSE main' = "assemble" /\ UNCHANGED disk
    /\ UNCHANGED <<world, errors, result, sha, th, racing, splitting>>

Assembled == FlattenSeq([s \in Segments |-> disk[Seg(s)]])

(* An error while assembling returns before the segment files are removed. *)
Assemble ==
    /\ main = "assemble"
    /\ \/ /\ DiskFails
          /\ disk' \in {disk, With(Dest, <<>>)}
          /\ main' = "failed"
          /\ UNCHANGED sha
       \/ /\ disk' = [n \in (DOMAIN disk \cup {Dest}) \ SegmentFiles |->
                        IF n = Dest THEN Assembled ELSE disk[n]]
          /\ sha' = Assembled
          /\ main' = "check"
          /\ UNCHANGED errors
    /\ UNCHANGED <<world, result, th, racing, splitting>>
-----------------------------------------------------------------------------
(* The end of download_to_file: check_sha1, if the package has a hash      *)
(* ("unchecked" is an Ok without), or the removal of what is there.        *)

Check ==
    /\ main = "check"
    /\ \/ sha = Right /\ result' = "ok" /\ UNCHANGED disk
       \/ sha # Right /\ result' = "mismatch" /\ disk' = Without({Dest})
       \/ result' = "unchecked" /\ UNCHANGED disk
    /\ main' = "returned"
    /\ UNCHANGED <<world, errors, sha, th, racing, splitting>>

Failed ==
    /\ main = "failed"
    /\ disk' = Without({Dest})
    /\ result' = "allfailed"
    /\ main' = "returned"
    /\ UNCHANGED <<world, errors, sha, th, racing, splitting>>

Returned == main = "returned" /\ UNCHANGED vars

Thread(i) ==
    \/ RaceBegin(i) \/ RaceRequest(i) \/ RaceLook(i) \/ RaceRead(i) \/ RaceSwap(i) \/ RaceErr(i)
    \/ SegmentFetch(i) \/ SegmentGivesUp(i)

Main ==
    \/ TrySingle \/ Race \/ Probe
    \/ RaceReceive \/ RaceRename \/ RaceClean \/ RaceScopeEnds
    \/ JoinSegments \/ Assemble
    \/ Check \/ Failed

Next == Main \/ Returned \/ \E i \in Urls : Thread(i)

Spec == Init /\ [][Next]_vars

(* Threads are scheduled and requests have a timeout of their own.         *)
FairSpec ==
    Spec /\ WF_vars(Main) /\ \A i \in 1 .. Max(Counts) : WF_vars(i \in Urls /\ Thread(i))
-----------------------------------------------------------------------------
Temporaries == {Tmp(u) : u \in Urls} \cup {Seg(u) : u \in Urls}
OnDisk(name) == name \in DOMAIN disk

(* When download_to_file returns Ok the destination holds what was hashed, *)
(* which is the file itself where its SHA-1 is known; when it returns an   *)
(* error there is no destination.                                          *)
ResultTellsTruth ==
    /\ result = "ok" => OnDisk(Dest) /\ disk[Dest] = Right
    /\ result = "unchecked" => OnDisk(Dest) /\ disk[Dest] = sha
    /\ result \in {"mismatch", "allfailed"} => ~OnDisk(Dest)

(* No temporary file of a race or a segment outlives the call, in whatever *)
(* order losers create and remove theirs and the caller sweeps; only an    *)
(* error while segments are assembled leaves files, the segments.          *)
NothingLeftBehind ==
    result # "none" =>
        \/ \A n \in Temporaries : ~OnDisk(n)
        \/ (result = "allfailed" /\ errors > 0 /\ \A u \in Urls : ~OnDisk(Tmp(u)))

Usable(u) == Sound(u) /\ (1 \in world.ranged => u \in world.ranged)
HintIsExact == Hint \in {0, Size}

(* Mirrors may be down, but as long as none serves wrong bytes and one is  *)
(* up, the file arrives: no race, fallback or flag of another segment      *)
(* makes the download fail (where the size is known exactly or not at all, *)
(* the disk works and the mirror that is up speaks Range if the first      *)
(* does).                                                                  *)
OneMirrorSuffices ==
    /\ HintIsExact /\ errors = 0 /\ world.honest = Urls
    /\ \E u \in Urls : Usable(u)
    => result # "allfailed" /\ result # "mismatch"

(* download_to_file ends cleanly, whoever wins or fails: an Ok is the file, *)
(* an error leaves none and is returned for a reason, temporary files go.   *)
EndsCleanly == ResultTellsTruth /\ NothingLeftBehind /\ OneMirrorSuffices

(* size_hint is the "approximate download size in bytes (for progress      *)
(* display, 0 if unknown)": with mirrors that all work, a hint that is not *)
(* the size does no harm.                                                  *)
AnApproximateHintSuffices ==
    errors = 0 /\ world.sound = Urls /\ world.ranged = Urls => result \in {"none", "ok", "unchecked"}

(* download_to_file returns, whatever mirrors and threads do.              *)
Returns == <>(result # "none")
=============================================================================
