----------------------------- MODULE ByteRanges -----------------------------
(***************************************************************************)
(* ByteRange and ByteRangeMap (p2p-distribute, streaming.rs): which bytes  *)
(* of a file have arrived, as the sorted list of half-open ranges that     *)
(* neither touch nor overlap.                                              *)
(***************************************************************************)
EXTENDS Integers, Sequences, SequencesExt

CONSTANT FileSize
ASSUME FileSizeAssumption == FileSize \in Nat

Offsets == 0 .. FileSize
Ranges == [start : Offsets, end : Offsets]

Bytes(r) == r.start .. r.end - 1
Available(ranges) == UNION {Bytes(ranges[i]) : i \in DOMAIN ranges}

IsEmpty(r) == r.end <= r.start
ContainsRange(r, other) == r.start <= other.start /\ r.end >= other.end

MergeableWith(r, other) == r.start <= other.end /\ other.start <= r.end
Least(a, b) == IF a <= b THEN a ELSE b
Greatest(a, b) == IF a >= b THEN a ELSE b
Merge(r, other) == [start |-> Least(r.start, other.start),
                    end   |-> Greatest(r.end, other.end)]

(* ByteRangeMap::insert.  One pass merges into the new range what it        *)
(* touches, the range growing as it goes; then it takes its sorted place.   *)
Absorb(acc, existing) ==
    IF MergeableWith(existing, acc.merged)
    THEN [acc EXCEPT !.merged = Merge(@, existing)]
    ELSE [acc EXCEPT !.kept = Append(@, existing)]

(* What the pass has merged and kept after n of the ranges.                 *)
Pass(ranges, range) ==
    LET after[n \in 0 .. Len(ranges)] ==
          IF n = 0 THEN [merged |-> range, kept |-> <<>>]
          ELSE Absorb(after[n - 1], ranges[n])
    IN  after

(* binary_search_by_key: how many of the sorted ranges start before.        *)
Place(kept, start) ==
    CHOOSE n \in 0 .. Len(kept) :
        \A i \in 1 .. Len(kept) : i <= n <=> kept[i].start < start

Insert(ranges, range) ==
    IF IsEmpty(range) THEN ranges
    ELSE LET pass == Pass(ranges, range)[Len(ranges)]
         IN  InsertAt(pass.kept, Place(pass.kept, pass.merged.start) + 1, pass.merged)

HasRange(ranges, start, len) ==
    len > 0 => \E i \in DOMAIN ranges :
                  ContainsRange(ranges[i], [start |-> start, end |-> start + len])

(* The range that holds an offset, if one does. *)
Around(ranges, offset) == {i \in DOMAIN ranges : offset \in Bytes(ranges[i])}

ContiguousFrom(ranges, offset) ==
    IF Around(ranges, offset) = {} THEN 0
    ELSE ranges[CHOOSE i \in Around(ranges, offset) : TRUE].end - offset

(* first_gap_from; NoGap is its None. *)
NoGap == -1
FirstGapFrom(ranges, offset) ==
    LET gap == offset + ContiguousFrom(ranges, offset)
    IN  IF gap >= FileSize THEN NoGap ELSE gap

IsComplete(ranges) ==
    Len(ranges) = 1 /\ ranges[1].start = 0 /\ ranges[1].end >= FileSize
=============================================================================
