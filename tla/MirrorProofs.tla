---------------------------- MODULE MirrorProofs ----------------------------
(***************************************************************************)
(* Theorems about MirrorDownload (cnc-content, downloader) for any number  *)
(* of mirrors, any size, any hint and any number of disk errors:           *)
(* download_to_file ends cleanly, whichever thread is where when another   *)
(* wins or fails.  And about the other mirrors, of a group's catalogue     *)
(* (GroupSync): for any paths, hashes, mirrors, policy, manifests and      *)
(* failed steps, the copies follow the manifests.                          *)
(***************************************************************************)
EXTENDS MirrorDownload, GroupSync, FiniteSetTheorems, SequenceTheorems,
        WellFoundedInduction, TLAPS

Single == main = "start"
Racing == main \in {"race", "rename", "clean", "fail"}
Splitting == main \in {"segments", "assemble"}
Over == main \in {"check", "failed", "returned"}

RacePlaces == {"begin", "request", "read", "tail", "swap", "erring", "gone"}
SegmentPlaces == {"fetch", "ok", "err"}

Typed ==
    /\ world \in Worlds /\ errors \in Nat /\ result \in {"none", "ok", "unchecked", "mismatch", "allfailed"}
    /\ main \in {"start", "race", "rename", "clean", "fail", "segments", "assemble",
                 "check", "failed", "returned"}
    /\ disk = [n \in DOMAIN disk |-> disk[n]]
    /\ hashed = [u \in Urls |-> hashed[u]]
    /\ tried \in [Urls -> SUBSET Urls]

(* Where threads are while the caller is where it is: when it leaves the    *)
(* scope of the race or has joined the segments, none is under way.         *)
ThreadsFit ==
    /\ DOMAIN th = Urls
    /\ Single => \A u \in Urls : th[u] = "unborn" /\ tried[u] = {}
    /\ Racing => \A u \in Urls : th[u] \in RacePlaces
    /\ Splitting => \A u \in Urls : IF u \in Segments THEN th[u] \in SegmentPlaces ELSE th[u] = "gone"
    /\ main = "assemble" => \A s \in Segments : th[s] = "ok"
    /\ Over => \A u \in Urls : th[u] \in {"unborn", "gone", "ok", "err"}

(* One thread wins, and has finished when it has.                           *)
WinnerFits ==
    /\ (Single \/ Splitting) => ~done
    /\ Single => ~failed
    /\ done \in BOOLEAN /\ winner \in Urls \cup {0}
    /\ done <=> winner # 0
    /\ (Racing /\ winner # 0) => th[winner] = "gone"
    /\ main \in {"rename", "clean", "fail"} => winner # 0

(* Whose temporary file there is.                                           *)
FilesFit ==
    /\ (Single \/ Splitting \/ Over) => \A u \in Urls : ~OnDisk(Tmp(u))
    /\ Racing => \A u \in Urls :
          /\ th[u] \in {"begin", "request"} => ~OnDisk(Tmp(u))
          /\ th[u] = "gone" =>
                ~OnDisk(Tmp(u)) \/ (winner = u /\ main \in {"race", "rename"})
    /\ (Single \/ Racing \/ main = "check") => \A u \in Urls : ~OnDisk(Seg(u))
    /\ Splitting => /\ main = "assemble" \/ main = "segments"
                    /\ \A u \in Urls : u \notin Segments => ~OnDisk(Seg(u))
                    /\ \A s \in Segments : th[s] = "ok" => OnDisk(Seg(s))
    /\ main = "failed" => (\A u \in Urls : ~OnDisk(Seg(u))) \/ errors > 0

(* What is in the files: what was hashed.                                   *)
ContentFits ==
    /\ main \in {"race", "rename"} => \A u \in Urls :
          /\ th[u] \in {"read", "tail"} => OnDisk(Tmp(u))
          /\ (th[u] = "swap" \/ winner = u) => OnDisk(Tmp(u)) /\ disk[Tmp(u)] = hashed[u]
    /\ Racing => \A u \in Urls : (th[u] = "swap" \/ winner = u) => hashed[u] \in Bodies(u)
    /\ main \in {"clean", "check"} => OnDisk(Dest) /\ disk[Dest] = sha

(* While nothing but mirrors fails, and none of them serves wrong bytes.    *)
Fine == errors = 0 /\ world.honest = Urls

FineContent ==
    Fine => /\ Splitting => \A s \in Segments : th[s] = "ok" => disk[Seg(s)] = Part(s, FALSE)
            /\ main \in {"clean", "check"} /\ HintIsExact => sha = Right

(* A mirror that can serve does: its thread is not done before another has  *)
(* won, and no segment has tried it in vain.                                *)
FineMirror ==
    Fine /\ HintIsExact => \A u \in Urls : Usable(u) =>
        /\ main \notin {"fail", "failed"}
        /\ Racing => (th[u] \in {"erring", "gone"} => done)
        /\ Splitting => ~failed /\ \A s \in Segments : u \notin tried[s] /\ th[s] # "err"

SplitsKnown == Splitting => MirrorCount > 1 /\ Hint > 0 /\ 1 \in world.ranged

MirrorInv ==
    /\ Typed /\ ThreadsFit /\ WinnerFits /\ FilesFit /\ ContentFits
    /\ FineContent /\ FineMirror /\ SplitsKnown
    /\ main # "returned" => result = "none"
    /\ EndsCleanly
-----------------------------------------------------------------------------
(* Induction over numbers, as a fact about sets of them.                    *)
LEMMA LeastNumber ==
    ASSUME NEW T, T \subseteq Nat, T # {}
    PROVE  \E x \in T : \A y \in T : x <= y
<1> DEFINE R == {ss \in Nat \X Nat : ss[1] < ss[2]}
<1>1. IsWellFoundedOn(R, Nat)
  BY NatLessThanWellFounded DEF OpToRel
<1>2. \A x, y \in Nat : <<y, x>> \in R <=> y < x
  OBVIOUS
<1> HIDE DEF R
<1>3. PICK x \in T : \A y \in T : ~ (<<y, x>> \in R)
  BY <1>1, WFMin
<1>4. ASSUME NEW y \in T PROVE x <= y
  <2>1. x \in Nat /\ y \in Nat /\ ~ (<<y, x>> \in R)
    BY <1>3
  <2>2. ~ (y < x)
    BY <1>2, <2>1
  <2> QED BY <2>1, <2>2
<1> QED BY <1>3, <1>4

LEMMA NumbersByInduction ==
    ASSUME NEW S \in SUBSET Nat, 0 \in S, \A n \in S : n + 1 \in S
    PROVE  S = Nat
<1> DEFINE T == Nat \ S
<1>1. SUFFICES ASSUME T # {} PROVE FALSE
  OBVIOUS
<1>2. PICK x \in T : \A y \in T : x <= y
  BY <1>1, LeastNumber
<1>3. x \in Nat /\ x # 0 /\ x - 1 \in Nat /\ x - 1 \notin T
  BY <1>2
<1>4. (x - 1) + 1 \in S /\ (x - 1) + 1 = x
  BY <1>3
<1> QED BY <1>4

(* Segments.                                                                *)
LEMMA WorldFacts ==
    ASSUME world \in Worlds
    PROVE  /\ MirrorCount \in Nat \ {0} /\ Hint \in Nat /\ Urls = 1 .. MirrorCount
           /\ Urls \subseteq Nat /\ 0 \notin Urls /\ 1 \in Urls
           /\ world.sound \subseteq Urls /\ world.honest \subseteq Urls
           /\ world.ranged # {} => Hint > 0 /\ MirrorCount > 1
           /\ Size \in Nat \ {0}
<1>1. /\ world.count \in Counts /\ world.hint \in Hints
      /\ world.sound \subseteq world.honest /\ world.honest \cup world.ranged \subseteq 1 .. world.count
      /\ world.ranged # {} => 1 \in world.ranged /\ world.hint > 0 /\ world.count > 1
  BY DEF Worlds
<1>2. world.count \in Nat \ {0} /\ world.hint \in Nat /\ Size \in Nat \ {0}
  BY <1>1, MirrorAssumption
<1>3. MirrorCount \in Nat \ {0} /\ Hint \in Nat /\ Urls = 1 .. MirrorCount
  BY <1>2 DEF MirrorCount, Hint, Urls
<1>4. world.sound \subseteq Urls /\ world.honest \subseteq Urls
  BY <1>1 DEF MirrorCount, Urls
<1>5. world.ranged # {} => 1 \in world.ranged /\ Hint > 0 /\ MirrorCount > 1
  BY <1>1 DEF MirrorCount, Hint
<1> QED BY <1>2, <1>3, <1>4, <1>5

LEMMA SegmentFacts ==
    ASSUME world \in Worlds, Hint > 0
    PROVE  /\ SegmentCount \in Nat \ {0} /\ SegmentCount <= Hint /\ SegmentCount <= MirrorCount
           /\ Segments = 1 .. SegmentCount /\ Segments \subseteq Urls
           /\ SegmentSize \in Nat \ {0} /\ SegmentCount * SegmentSize <= Hint
           /\ First(1) = 0 /\ LastOf(SegmentCount) = Hint - 1
           /\ \A s \in Segments : /\ First(s) \in Nat /\ LastOf(s) \in Nat
                                  /\ LastOf(s) < Hint /\ First(s) <= LastOf(s)
                                  /\ s # 1 => First(s) = LastOf(s - 1) + 1 /\ s - 1 \in Segments
<1>1. MirrorCount \in Nat \ {0} /\ Hint \in Nat /\ Urls = 1 .. MirrorCount
  BY WorldFacts
<1>2. SegmentCount \in Nat \ {0} /\ SegmentCount <= Hint /\ SegmentCount <= MirrorCount
  BY <1>1 DEF SegmentCount
<1>3. Segments = 1 .. SegmentCount /\ Segments \subseteq Urls
  BY <1>1, <1>2 DEF Segments
<1>4. PICK c \in Nat \ {0} : c = SegmentCount
  BY <1>2
<1>5. SegmentSize \in Nat \ {0} /\ c * SegmentSize <= Hint
  <2>1. Hint \div c \in Nat /\ c * (Hint \div c) <= Hint /\ Hint < c * (Hint \div c) + c
    BY <1>1, <1>4
  <2>2. Hint \div c # 0
    BY <1>1, <1>2, <1>4, <2>1
  <2> QED BY <1>4, <2>1, <2>2 DEF SegmentSize
<1>6. PICK z \in Nat \ {0} : z = SegmentSize
  BY <1>5
<1>7. c * z <= Hint /\ (c - 1) * z = c * z - z
  BY <1>1, <1>4, <1>5, <1>6
<1>8. ASSUME NEW s \in Segments
      PROVE  /\ First(s) \in Nat /\ LastOf(s) \in Nat /\ LastOf(s) < Hint /\ First(s) <= LastOf(s)
             /\ s # 1 => First(s) = LastOf(s - 1) + 1 /\ s - 1 \in Segments
  <2>1. s \in 1 .. c
    BY <1>3, <1>4
  <2>2. PICK d \in Nat : c = s + d
    BY <2>1
  <2>3. s * z \in Nat /\ d * z \in Nat /\ c * z = s * z + d * z /\ (s - 1) * z = s * z - z
    BY <2>1, <2>2
  <2>4. (s - 1) * z \in Nat
    BY <2>1
  <2>5. First(s) = s * z - z
    BY <1>6, <2>3 DEF First
  <2>6. LastOf(s) = IF s = c THEN Hint - 1 ELSE s * z - 1
    BY <1>4, <1>6 DEF LastOf
  <2>7. s # c => d * z >= z
    BY <2>1, <2>2
  <2>8. /\ First(s) \in Nat /\ LastOf(s) \in Nat /\ LastOf(s) < Hint /\ First(s) <= LastOf(s)
    BY <1>1, <1>7, <2>3, <2>4, <2>5, <2>6, <2>7
  <2>9. ASSUME s # 1 PROVE First(s) = LastOf(s - 1) + 1 /\ s - 1 \in Segments
    <3>1. s - 1 \in 1 .. c /\ s - 1 # c
      BY <2>1, <2>9
    <3>2. LastOf(s - 1) = (s - 1) * z - 1
      BY <1>4, <1>6, <3>1 DEF LastOf
    <3> QED BY <1>3, <1>4, <2>3, <2>5, <3>1, <3>2
  <2> QED BY <2>8, <2>9
<1>9. First(1) = 0 /\ LastOf(SegmentCount) = Hint - 1
  BY <1>6 DEF First, LastOf
<1> QED BY <1>2, <1>3, <1>4, <1>5, <1>8, <1>9

(* What satisfies the equation of FlattenSeq is its value.                  *)
LEMMA FlattenIs ==
    \A seqs, T : \A n \in Nat \ {0} : \A G \in [1 .. n -> T] :
        /\ Len(seqs) = n
        /\ \A i \in 1 .. n : G[i] = IF i = 1 THEN seqs[i] ELSE G[i - 1] \o seqs[i]
        => FlattenSeq(seqs) = G[n]
<1> SUFFICES ASSUME NEW seqs, NEW T, NEW n \in Nat \ {0}, NEW G \in [1 .. n -> T],
                    Len(seqs) = n,
                    \A i \in 1 .. n : G[i] = IF i = 1 THEN seqs[i] ELSE G[i - 1] \o seqs[i]
             PROVE  FlattenSeq(seqs) = G[n]
  OBVIOUS
<1> DEFINE Meets(f) == f = [i \in 1 .. n |-> IF i = 1 THEN seqs[i] ELSE f[i - 1] \o seqs[i]]
           F == CHOOSE f : Meets(f)
<1>1. FlattenSeq(seqs) = F[n]
  BY DEF FlattenSeq
<1>2. Meets(F)
  <2>1. Meets(G)
    OBVIOUS
  <2> HIDE DEF Meets
  <2> QED BY <2>1
<1> HIDE DEF F
<1> DEFINE S == {i \in Nat : i + 1 \in 1 .. n => F[i + 1] = G[i + 1]}
<1>3. 0 \in S
  <2>1. F[1] = seqs[1] /\ G[1] = seqs[1]
    BY <1>2
  <2> QED BY <2>1
<1>4. ASSUME NEW i \in S PROVE i + 1 \in S
  <2>1. CASE (i + 1) + 1 \in 1 .. n
    <3>1. PICK j \in 1 .. n : j = (i + 1) + 1
      BY <2>1
    <3>2. j # 1 /\ j - 1 = i + 1 /\ j - 1 \in 1 .. n
      BY <3>1
    <3>3. F[j] = F[j - 1] \o seqs[j] /\ G[j] = G[j - 1] \o seqs[j]
      BY <1>2, <3>2
    <3>4. F[j - 1] = G[j - 1]
      BY <3>2
    <3>5. F[j] = G[j]
      BY <3>3, <3>4
    <3>6. i + 1 \in Nat
      OBVIOUS
    <3> QED BY <3>1, <3>5, <3>6
  <2>2. CASE (i + 1) + 1 \notin 1 .. n
    BY <2>2
  <2> QED BY <2>1, <2>2
<1>5. S = Nat
  <2>1. S \in SUBSET Nat
    OBVIOUS
  <2> HIDE DEF S
  <2> QED BY <1>3, <1>4, <2>1, NumbersByInduction
<1>6. n - 1 \in Nat /\ (n - 1) + 1 = n /\ n \in 1 .. n
  OBVIOUS
<1>7. n - 1 \in S
  <2> HIDE DEF S
  <2> QED BY <1>5, <1>6
<1>8. F[n] = G[n]
  BY <1>6, <1>7
<1> QED BY <1>1, <1>8

LEMMA SeqIsFunction ==
    \A T : \A sq \in Seq(T) : sq \in [1 .. Len(sq) -> T]
OBVIOUS

(* Segments one after the other are the file.                               *)
LEMMA AssembledIsRight ==
    ASSUME world \in Worlds, Hint = Size,
           \A s \in Segments : disk[Seg(s)] = Part(s, FALSE)
    PROVE  Assembled = Right
<1>1. Hint > 0 /\ Hint \in Nat
  BY WorldFacts
<1>2. PICK n \in Nat \ {0} : n = SegmentCount /\ Segments = 1 .. n
  BY <1>1, SegmentFacts
<1> DEFINE seqs == [s \in Segments |-> disk[Seg(s)]]
           Upto(i) == [b \in 1 .. LastOf(i) + 1 |-> b - 1]
           G == [i \in 1 .. n |-> Upto(i)]
<1>3. Len(seqs) = n
  <2>1. DOMAIN seqs = 1 .. n
    BY <1>2
  <2> HIDE DEF seqs
  <2> QED BY <2>1
<1>4. ASSUME NEW i \in 1 .. n
      PROVE  Upto(i) = IF i = 1 THEN seqs[i] ELSE G[i - 1] \o seqs[i]
  <2>1. /\ First(i) \in Nat /\ LastOf(i) \in Nat /\ First(i) <= LastOf(i)
        /\ i # 1 => First(i) = LastOf(i - 1) + 1 /\ i - 1 \in 1 .. n /\ LastOf(i - 1) \in Nat
        /\ First(1) = 0
    BY <1>1, <1>2, SegmentFacts
  <2>2. seqs[i] = [b \in 1 .. LastOf(i) - First(i) + 1 |-> First(i) + b - 1]
    BY <1>2 DEF Part
  <2>3. CASE i = 1
    BY <2>1, <2>2, <2>3
  <2>4. CASE i # 1
    <3>1. PICK f \in Nat, l \in Nat : f = First(i) /\ l = LastOf(i)
      BY <2>1
    <3>2. seqs[i] = [b \in 1 .. l - f + 1 |-> f + b - 1] /\ f <= l
      BY <2>1, <2>2, <3>1
    <3>3. LastOf(i - 1) + 1 = f /\ i - 1 \in 1 .. n
      BY <2>1, <2>4, <3>1
    <3>4. G[i - 1] = [b \in 1 .. f |-> b - 1]
      BY <3>3
    <3> DEFINE p == [b \in 1 .. f |-> b - 1]
               q == [b \in 1 .. l - f + 1 |-> f + b - 1]
    <3>5. p \in Seq(Nat) /\ q \in Seq(Nat) /\ Len(p) = f /\ Len(q) = l - f + 1
      <4>1. \A b \in 1 .. f : b - 1 \in Nat
        OBVIOUS
      <4>2. \A b \in 1 .. l - f + 1 : f + b - 1 \in Nat
        OBVIOUS
      <4>3. l - f + 1 \in Nat
        BY <3>2
      <4> QED BY <4>1, <4>2, <4>3
    <3>6. p \o q = [b \in 1 .. l + 1 |-> b - 1]
      <4>1. p \o q \in Seq(Nat) /\ Len(p \o q) = l + 1
        BY <3>2, <3>5
      <4>2. ASSUME NEW b \in 1 .. l + 1 PROVE (p \o q)[b] = b - 1
        <5>1. CASE b <= f
          <6>1. (p \o q)[b] = p[b]
            BY <3>5, <4>1, <5>1
          <6> QED BY <5>1, <6>1
        <5>2. CASE b > f
          <6>1. (p \o q)[b] = q[b - f]
            BY <3>2, <3>5, <4>1, <5>2
          <6>2. b - f \in 1 .. l - f + 1
            BY <3>2, <5>2
          <6> QED BY <6>1, <6>2
        <5> QED BY <5>1, <5>2
      <4> DEFINE r == [b \in 1 .. l + 1 |-> b - 1]
      <4>3. DOMAIN (p \o q) = 1 .. l + 1 /\ p \o q = [b \in DOMAIN (p \o q) |-> (p \o q)[b]]
        <5>1. Len(p \o q) = l + 1 /\ p \o q \in [1 .. Len(p \o q) -> Nat]
          <6> HIDE DEF p, q
          <6> QED BY <4>1, SeqIsFunction
        <5> HIDE DEF p, q
        <5> QED BY <5>1
      <4> HIDE DEF p, q
      <4>4. p \o q = [b \in 1 .. l + 1 |-> (p \o q)[b]]
        BY <4>3
      <4> QED BY <4>2, <4>4
    <3> QED BY <2>4, <3>1, <3>2, <3>4, <3>6
  <2> QED BY <2>3, <2>4
<1>5. \A i \in 1 .. n : G[i] = IF i = 1 THEN seqs[i] ELSE G[i - 1] \o seqs[i]
  <2>1. \A i \in 1 .. n : G[i] = Upto(i)
    OBVIOUS
  <2> HIDE DEF G, seqs, Upto
  <2> QED BY <1>4, <2>1
<1>6. FlattenSeq(seqs) = G[n]
  <2> DEFINE T == {G[i] : i \in 1 .. n}
  <2>1. G \in [1 .. n -> T]
    OBVIOUS
  <2> HIDE DEF seqs, G, T
  <2>2. PICK sq, g, t : sq = seqs /\ g = G /\ t = T
    OBVIOUS
  <2>3. FlattenSeq(sq) = g[n]
    <3>1. Len(sq) = n /\ g \in [1 .. n -> t]
          /\ \A i \in 1 .. n : g[i] = IF i = 1 THEN sq[i] ELSE g[i - 1] \o sq[i]
      BY <1>3, <1>5, <2>1, <2>2
    <3> QED BY <3>1, FlattenIs
  <2> QED BY <2>2, <2>3
<1>7. G[n] = Right
  <2>1. LastOf(n) + 1 = Size
    BY <1>1, <1>2, SegmentFacts
  <2>2. G[n] = Upto(n)
    BY <1>2
  <2> QED BY <2>1, <2>2 DEF Right
<1> QED BY <1>6, <1>7 DEF Assembled
-----------------------------------------------------------------------------
(* The file system, and what does not change with the world.                *)
LEMMA Names ==
    /\ \A i : Tmp(i) # Dest /\ Seg(i) # Dest
    /\ \A i, j : Tmp(i) # Seg(j)
    /\ \A i, j : (Tmp(i) = Tmp(j) => i = j) /\ (Seg(i) = Seg(j) => i = j)
BY DEF Tmp, Seg, Dest

LEMMA AfterWithout ==
    \A S : disk' = Without(S) =>
        /\ DOMAIN disk' = DOMAIN disk \ S
        /\ \A m \in DOMAIN disk \ S : disk'[m] = disk[m]
        /\ disk' = [m \in DOMAIN disk' |-> disk'[m]]
BY DEF Without, Restrict

LEMMA WorldStays ==
    ASSUME world' = world
    PROVE  /\ Urls' = Urls /\ MirrorCount' = MirrorCount /\ Hint' = Hint
           /\ SegmentCount' = SegmentCount /\ Segments' = Segments /\ SegmentFiles' = SegmentFiles
           /\ HintIsExact' <=> HintIsExact
           /\ \A u : Bodies(u)' = Bodies(u) /\ (Usable(u)' <=> Usable(u))
           /\ \A s, w : Part(s, w)' = Part(s, w)
<1>1. Urls' = Urls /\ MirrorCount' = MirrorCount /\ Hint' = Hint /\ SegmentCount' = SegmentCount
      /\ Segments' = Segments /\ SegmentFiles' = SegmentFiles
  BY DEF Urls, MirrorCount, Hint, SegmentCount, Segments, SegmentFiles
<1>2. /\ HintIsExact' <=> HintIsExact
      /\ \A u : Bodies(u)' = Bodies(u) /\ (Usable(u)' <=> Usable(u))
  BY DEF Hint, HintIsExact, Bodies, Usable, Sound
<1>3. \A s, w : Part(s, w)' = Part(s, w)
  BY DEF Part, LastOf, First, SegmentSize, SegmentCount, Hint, MirrorCount
<1> QED BY <1>1, <1>2, <1>3

LEMMA NotYet ==
    result' = "none" => EndsCleanly'
BY DEF EndsCleanly, ResultTellsTruth, NothingLeftBehind, OneMirrorSuffices

(* Who is under way tells where the caller is.                              *)
LEMMA UnderWay ==
    ASSUME MirrorInv, NEW i \in Urls
    PROVE  /\ th[i] \in RacePlaces \ {"gone"} => Racing
           /\ th[i] = "fetch" => main = "segments" /\ i \in Segments
<1>1. Typed /\ ThreadsFit
  BY DEF MirrorInv
<1>2. Single \/ Racing \/ Splitting \/ Over
  BY <1>1 DEF Typed, Single, Racing, Splitting, Over
<1>3. Single => th[i] = "unborn"
  BY <1>1 DEF ThreadsFit
<1>4. Splitting => IF i \in Segments THEN th[i] \in SegmentPlaces ELSE th[i] = "gone"
  BY <1>1 DEF ThreadsFit
<1>5. Over => th[i] \in {"unborn", "gone", "ok", "err"}
  BY <1>1 DEF ThreadsFit
<1>6. Racing => th[i] \in RacePlaces
  BY <1>1 DEF ThreadsFit
<1>7. main = "assemble" => i \notin Segments \/ th[i] = "ok"
  BY <1>1 DEF ThreadsFit
<1> HIDE DEF Single, Racing, Over
<1>8. th[i] \in RacePlaces \ {"gone"} => Racing
  BY <1>2, <1>3, <1>4, <1>5 DEF RacePlaces, SegmentPlaces
<1>9. th[i] = "fetch" => Splitting /\ main # "assemble" /\ i \in Segments
  BY <1>2, <1>3, <1>4, <1>5, <1>6, <1>7 DEF RacePlaces, SegmentPlaces
<1> QED BY <1>8, <1>9 DEF Splitting

(* What a step of a thread of a race leaves as it was, and what it makes of *)
(* its own place, file and hash.                                            *)
RaceStep(i, at) ==
    /\ Racing /\ main' = main /\ i \in Urls /\ th[i] # "gone"
    /\ th' = [th EXCEPT ![i] = at]
    /\ world' = world /\ result' = result /\ sha' = sha
    /\ tried' = tried /\ failed' = failed
    /\ errors' \in Nat /\ errors' >= errors
    /\ disk' = [n \in DOMAIN disk' |-> disk'[n]] /\ hashed' = [u \in Urls |-> hashed'[u]]
    /\ \A n : n # Tmp(i) => (n \in DOMAIN disk' <=> n \in DOMAIN disk)
    /\ \A n \in DOMAIN disk : n # Tmp(i) => disk'[n] = disk[n]
    /\ \A u \in Urls : u # i => hashed'[u] = hashed[u]
    /\ \/ done' = done /\ winner' = winner
       \/ ~done /\ done' = TRUE /\ winner' = i /\ at = "gone"

OwnFile(i, at) ==
    /\ at \in RacePlaces \ {"begin"}
    /\ (at \in {"erring", "gone"} /\ Fine' /\ HintIsExact /\ Usable(i)) => done'
    /\ at = "request" => Tmp(i) \notin DOMAIN disk'
    /\ at = "gone" => Tmp(i) \notin DOMAIN disk' \/ (winner' = i /\ main \in {"race", "rename"})
    /\ (main \in {"race", "rename"} /\ at \in {"read", "tail"}) => Tmp(i) \in DOMAIN disk'
    /\ (main \in {"race", "rename"} /\ (at = "swap" \/ winner' = i)) =>
           Tmp(i) \in DOMAIN disk' /\ disk'[Tmp(i)] = hashed'[i]
    /\ (at = "swap" \/ winner' = i) => hashed'[i] \in Bodies(i)

LEMMA RaceStepKeeps ==
    ASSUME MirrorInv, NEW i, NEW at, RaceStep(i, at), OwnFile(i, at)
    PROVE  MirrorInv'
<1>1. Typed /\ ThreadsFit /\ WinnerFits /\ FilesFit /\ ContentFits /\ FineContent /\ FineMirror
      /\ (main # "returned" => result = "none") /\ 0 \notin Urls
  BY WorldFacts DEF MirrorInv, Typed
<1>2. th'[i] = at /\ (\A u \in Urls \ {i} : th'[u] = th[u]) /\ DOMAIN th' = Urls
      /\ Racing' /\ ~Single' /\ ~Splitting' /\ ~Over' /\ ~Single /\ ~Splitting /\ ~Over
  BY <1>1 DEF RaceStep, ThreadsFit, Single, Racing, Splitting, Over
<1>3. Urls' = Urls /\ (HintIsExact' <=> HintIsExact)
      /\ (\A u : Bodies(u)' = Bodies(u) /\ (Usable(u)' <=> Usable(u)))
      /\ i \in Urls /\ at \in RacePlaces /\ main' = main
  BY WorldStays DEF RaceStep, OwnFile
<1>4. Typed'
  BY <1>1, WorldStays DEF Typed, RaceStep
<1>5. ThreadsFit'
  <2>1. \A u \in Urls : th'[u] \in RacePlaces
    BY <1>1, <1>2, <1>3 DEF ThreadsFit, RaceStep
  <2>2. main' # "assemble"
    BY DEF RaceStep, Racing
  <2> QED BY <1>2, <1>3, <2>1, <2>2 DEF ThreadsFit
<1>6. WinnerFits'
  <2>1. /\ done' \in BOOLEAN /\ winner' \in Urls \cup {0}
        /\ done' <=> winner' # 0
    <3>1. done \in BOOLEAN /\ winner \in Urls \cup {0} /\ (done <=> winner # 0) /\ i \in Urls /\ i # 0
      BY <1>1, <1>3 DEF WinnerFits
    <3>2. CASE done' = done /\ winner' = winner
      BY <1>3, <3>1, <3>2, Zenon
    <3>3. CASE done' = TRUE /\ winner' = i
      BY <1>3, <3>1, <3>3
    <3> QED BY <3>2, <3>3 DEF RaceStep
  <2>2. winner' # 0 => th'[winner'] = "gone"
    BY <1>1, <1>2, <1>3 DEF WinnerFits, RaceStep
  <2>3. main' \in {"rename", "clean", "fail"} => winner' # 0
    BY <1>1, <1>3 DEF WinnerFits, RaceStep
  <2> QED BY <1>2, <1>3, <2>1, <2>2, <2>3 DEF WinnerFits
<1>7. \A u \in Urls \ {i} : Tmp(u) # Tmp(i) /\ (Tmp(u) \in DOMAIN disk' <=> Tmp(u) \in DOMAIN disk)
                            /\ (Tmp(u) \in DOMAIN disk => disk'[Tmp(u)] = disk[Tmp(u)])
  BY Names DEF RaceStep
<1> DEFINE Other(n) == (n \in DOMAIN disk' <=> n \in DOMAIN disk)
                       /\ (n \in DOMAIN disk => disk'[n] = disk[n])
<1>8. Other(Dest) /\ \A u \in Urls : Other(Seg(u))
  BY Names DEF RaceStep
<1>9. \A u \in Urls \ {i} : winner' = u => winner = u
  BY DEF RaceStep
<1>10. FilesFit'
  <2>1. ASSUME NEW u \in Urls
        PROVE  /\ th'[u] \in {"begin", "request"} => Tmp(u) \notin DOMAIN disk'
               /\ th'[u] = "gone" =>
                    Tmp(u) \notin DOMAIN disk' \/ (winner' = u /\ main \in {"race", "rename"})
               /\ Seg(u) \notin DOMAIN disk'
    <3>1. Seg(u) \notin DOMAIN disk'
      BY <1>1, <1>8 DEF FilesFit, OnDisk, RaceStep
    <3>2. CASE u = i
      BY <1>2, <3>2, <3>1 DEF OwnFile
    <3>3. CASE u # i
      <4>1. /\ th[u] \in {"begin", "request"} => Tmp(u) \notin DOMAIN disk
            /\ th[u] = "gone" =>
                  Tmp(u) \notin DOMAIN disk \/ (winner = u /\ main \in {"race", "rename"})
        BY <1>1, <1>2 DEF FilesFit, OnDisk, RaceStep
      <4>2. winner = u => winner' = u \/ ~done
        BY DEF RaceStep
      <4>3. winner = u => done
        BY <1>1 DEF WinnerFits
      <4>4. Other(Tmp(u)) /\ th'[u] = th[u]
        BY <1>2, <1>7, <3>3
      <4> QED BY <3>1, <4>1, <4>2, <4>3, <4>4
    <3> QED BY <3>2, <3>3
  <2>2. main' # "failed" /\ main' # "check"
    BY <1>2 DEF Over
  <2> QED BY <1>2, <1>3, <2>1, <2>2 DEF FilesFit, OnDisk
<1>11. ContentFits'
  <2>1. ASSUME NEW u \in Urls
        PROVE  /\ (th'[u] = "swap" \/ winner' = u) => hashed'[u] \in Bodies(u)
               /\ main \in {"race", "rename"} =>
                    /\ th'[u] \in {"read", "tail"} => Tmp(u) \in DOMAIN disk'
                    /\ (th'[u] = "swap" \/ winner' = u) =>
                          Tmp(u) \in DOMAIN disk' /\ disk'[Tmp(u)] = hashed'[u]
    <3>1. CASE u = i
      BY <1>2, <3>1 DEF OwnFile
    <3>2. CASE u # i
      <4>1. hashed'[u] = hashed[u]
        BY <3>2 DEF RaceStep
      <4>2. /\ (th[u] = "swap" \/ winner = u) => hashed[u] \in Bodies(u)
            /\ main \in {"race", "rename"} =>
                    /\ th[u] \in {"read", "tail"} => Tmp(u) \in DOMAIN disk
                    /\ (th[u] = "swap" \/ winner = u) =>
                          Tmp(u) \in DOMAIN disk /\ disk[Tmp(u)] = hashed[u]
        BY <1>1 DEF ContentFits, OnDisk, RaceStep
      <4>3. Other(Tmp(u)) /\ th'[u] = th[u] /\ (winner' = u => winner = u)
        BY <1>2, <1>7, <1>9, <3>2
      <4> QED BY <4>1, <4>2, <4>3
    <3> QED BY <3>1, <3>2
  <2>2. main' \in {"clean", "check"} => Dest \in DOMAIN disk' /\ disk'[Dest] = sha'
    BY <1>1, <1>8 DEF ContentFits, RaceStep, OnDisk
  <2> QED BY <1>2, <1>3, <2>1, <2>2 DEF ContentFits, OnDisk
<1>12. Fine' => Fine
  BY <1>1 DEF Fine, RaceStep, Typed, Urls, MirrorCount
<1>13. FineContent'
  <2>1. Fine' => (main' \in {"clean", "check"} /\ HintIsExact' => sha' = Right)
    BY <1>1, <1>3, <1>12 DEF FineContent, RaceStep
  <2> QED BY <1>2, <2>1 DEF FineContent
<1>14. FineMirror'
  <2>1. ASSUME Fine', HintIsExact', NEW u \in Urls, Usable(u)
        PROVE  main' \notin {"fail", "failed"} /\ (th'[u] \in {"erring", "gone"} => done')
    <3>1. main \notin {"fail", "failed"} /\ (th[u] \in {"erring", "gone"} => done)
      BY <1>1, <1>3, <1>12, <2>1 DEF FineMirror, RaceStep
    <3>2. done => done'
      BY DEF RaceStep
    <3>3. CASE u = i
      BY <1>2, <1>3, <2>1, <3>1, <3>3 DEF OwnFile
    <3>4. CASE u # i
      BY <1>2, <1>3, <3>1, <3>2, <3>4
    <3> QED BY <3>3, <3>4
  <2> QED BY <1>2, <1>3, <2>1 DEF FineMirror
<1>15. SplitsKnown'
  BY <1>2 DEF SplitsKnown
<1>16. result' = "none"
  BY <1>1, <1>2 DEF RaceStep, Over
<1>17. (main # "returned" => result = "none")' /\ EndsCleanly'
  BY <1>16, NotYet
<1> QED BY <1>4, <1>5, <1>6, <1>10, <1>11, <1>13, <1>14, <1>15, <1>17 DEF MirrorInv

(* Every step of a thread of a race is one of these.                        *)
LEMMA RaceThreadKeeps ==
    ASSUME MirrorInv, NEW i \in Urls,
           \/ RaceBegin(i) \/ RaceRequest(i) \/ RaceLook(i)
           \/ RaceRead(i) \/ RaceSwap(i) \/ RaceErr(i)
    PROVE  MirrorInv'
<1>1. Typed /\ ThreadsFit /\ WinnerFits /\ FilesFit /\ ContentFits
  BY DEF MirrorInv
<1>2. /\ disk = [n \in DOMAIN disk |-> disk[n]] /\ hashed = [u \in Urls |-> hashed[u]]
      /\ errors \in Nat /\ done \in BOOLEAN /\ winner \in Urls \cup {0} /\ (done <=> winner # 0)
      /\ (main \in {"rename", "clean", "fail"} => winner # 0)
  BY <1>1 DEF Typed, WinnerFits
<1>3. Racing /\ th[i] \in RacePlaces \ {"gone"}
  BY UnderWay DEF RaceBegin, RaceRequest, RaceLook, RaceRead, RaceSwap, RaceErr, RacePlaces
<1>4. winner # i
  BY <1>1, <1>3, WorldFacts DEF WinnerFits, Typed
<1>5. /\ th[i] \in {"begin", "request"} => Tmp(i) \notin DOMAIN disk
      /\ (main \in {"race", "rename"} /\ th[i] \in {"read", "tail"}) => Tmp(i) \in DOMAIN disk
      /\ (main \in {"race", "rename"} /\ th[i] = "swap") => Tmp(i) \in DOMAIN disk /\ disk[Tmp(i)] = hashed[i]
      /\ th[i] = "swap" => hashed[i] \in Bodies(i)
  BY <1>1, <1>3 DEF FilesFit, ContentFits, OnDisk
<1> DEFINE Steps(at) == RaceStep(i, at) /\ OwnFile(i, at)
<1>6. SUFFICES \E at : Steps(at)
  BY RaceStepKeeps
<1>7. CASE RaceBegin(i)
  <2>1. PICK at : at = IF done THEN "gone" ELSE "request"
    OBVIOUS
  <2>2. RaceStep(i, at)
    BY <1>2, <1>3, <1>7, <2>1 DEF RaceBegin, RaceStep, Goto, racing, splitting
  <2>3. OwnFile(i, at)
    BY <1>2, <1>4, <1>5, <1>7, <2>1 DEF RaceBegin, OwnFile, racing, RacePlaces
  <2> QED BY <2>2, <2>3
<1>8. CASE RaceLook(i)
  <2>1. PICK at : at = IF done THEN "erring" ELSE "tail"
    OBVIOUS
  <2>2. RaceStep(i, at)
    BY <1>2, <1>3, <1>8, <2>1 DEF RaceLook, RaceStep, Goto, racing, splitting
  <2>3. OwnFile(i, at)
    BY <1>2, <1>4, <1>5, <1>8, <2>1 DEF RaceLook, OwnFile, racing, RacePlaces
  <2> QED BY <2>2, <2>3
<1>9. CASE RaceRequest(i)
  <2>1. CASE (NoResponse(i) \/ DiskFails) /\ Goto(i, "erring") /\ UNCHANGED disk
    <3>1. RaceStep(i, "erring")
      BY <1>2, <1>3, <1>9, <2>1 DEF RaceRequest, RaceStep, Goto, racing, splitting, NoResponse, DiskFails
    <3>2. OwnFile(i, "erring")
      BY <1>2, <1>4, <1>9, <2>1 DEF RaceRequest, OwnFile, racing, RacePlaces, NoResponse, DiskFails, Usable, Fine
    <3> QED BY <3>1, <3>2
  <2>2. CASE disk' = With(Tmp(i), <<>>) /\ Goto(i, "read") /\ UNCHANGED errors
    <3>1. /\ DOMAIN disk' = DOMAIN disk \cup {Tmp(i)} /\ disk' = [m \in DOMAIN disk' |-> disk'[m]]
          /\ \A m \in DOMAIN disk : m # Tmp(i) => disk'[m] = disk[m]
      BY <1>2, <2>2 DEF With
    <3>2. RaceStep(i, "read")
      BY <1>2, <1>3, <1>9, <2>2, <3>1 DEF RaceRequest, RaceStep, Goto, racing, splitting
    <3>3. OwnFile(i, "read")
      BY <1>4, <1>9, <3>1 DEF RaceRequest, OwnFile, racing, RacePlaces
    <3> QED BY <3>2, <3>3
  <2> QED BY <1>9, <2>1, <2>2 DEF RaceRequest
<1>10. CASE RaceRead(i)
  <2>1. CASE (NoResponse(i) \/ DiskFails) /\ Goto(i, "erring") /\ UNCHANGED <<disk, hashed>>
    <3>1. RaceStep(i, "erring")
      BY <1>2, <1>3, <1>10, <2>1 DEF RaceRead, RaceStep, Goto, splitting, NoResponse, DiskFails
    <3>2. OwnFile(i, "erring")
      BY <1>2, <1>4, <1>10, <2>1 DEF RaceRead, OwnFile, RacePlaces, NoResponse, DiskFails, Usable, Fine
    <3> QED BY <3>1, <3>2
  <2>2. ASSUME NEW body \in Bodies(i), disk' = Written(Tmp(i), body),
               hashed' = [hashed EXCEPT ![i] = body], Goto(i, "swap"), UNCHANGED errors
        PROVE  \E at : Steps(at)
    <3>1. /\ DOMAIN disk' = DOMAIN disk /\ disk' = [m \in DOMAIN disk' |-> disk'[m]]
          /\ Tmp(i) \in DOMAIN disk => disk'[Tmp(i)] = body
          /\ \A m \in DOMAIN disk : m # Tmp(i) => disk'[m] = disk[m]
      BY <1>2, <2>2 DEF Written, With
    <3>2. hashed'[i] = body /\ (\A u \in Urls : u # i => hashed'[u] = hashed[u])
          /\ hashed' = [u \in Urls |-> hashed'[u]]
      BY <1>2, <2>2
    <3>3. RaceStep(i, "swap")
      BY <1>2, <1>3, <1>10, <2>2, <3>1, <3>2 DEF RaceRead, RaceStep, Goto, splitting
    <3>4. OwnFile(i, "swap")
      BY <1>4, <1>5, <1>10, <3>1, <3>2 DEF RaceRead, OwnFile, RacePlaces
    <3> QED BY <3>3, <3>4
  <2> QED BY <1>10, <2>1, <2>2 DEF RaceRead
<1>11. CASE RaceSwap(i)
  <2>1. CASE done /\ disk' = Without({Tmp(i)}) /\ UNCHANGED winner
    <3>1. /\ DOMAIN disk' = DOMAIN disk \ {Tmp(i)} /\ disk' = [m \in DOMAIN disk' |-> disk'[m]]
          /\ \A m \in DOMAIN disk : m # Tmp(i) => disk'[m] = disk[m]
      BY <1>2, <2>1 DEF Without, Restrict
    <3>2. RaceStep(i, "gone")
      BY <1>2, <1>3, <1>11, <2>1, <3>1 DEF RaceSwap, RaceStep, Goto, splitting
    <3>3. OwnFile(i, "gone")
      BY <1>4, <1>11, <2>1, <3>1 DEF RaceSwap, OwnFile, RacePlaces
    <3> QED BY <3>2, <3>3
  <2>2. CASE ~done /\ winner' = i /\ UNCHANGED disk
    <3>1. done' = TRUE /\ disk' = [n \in DOMAIN disk' |-> disk'[n]] /\ hashed' = [u \in Urls |-> hashed'[u]]
          /\ \A n \in DOMAIN disk : disk'[n] = disk[n]
      BY <1>2, <1>11, <2>2 DEF RaceSwap
    <3>2. ~done /\ done' = TRUE /\ winner' = i
      BY <2>2, <3>1
    <3>3. /\ main' = main /\ th' = [th EXCEPT ![i] = "gone"] /\ th[i] # "gone"
          /\ world' = world /\ result' = result /\ sha' = sha
          /\ tried' = tried /\ failed' = failed /\ errors' = errors
          /\ hashed' = hashed /\ disk' = disk
      BY <1>11, <2>2 DEF RaceSwap, Goto, splitting
    <3>4. RaceStep(i, "gone")
      <4>1. errors' \in Nat /\ errors' >= errors
        BY <1>2, <3>3
      <4>2. \A n : n # Tmp(i) => (n \in DOMAIN disk' <=> n \in DOMAIN disk)
        BY <3>3
      <4>3. \A n \in DOMAIN disk : n # Tmp(i) => disk'[n] = disk[n]
        BY <3>3
      <4>4. \A u \in Urls : u # i => hashed'[u] = hashed[u]
        BY <3>3
      <4>5. \/ done' = done /\ winner' = winner
            \/ ~done /\ done' = TRUE /\ winner' = i
        BY <3>2, Zenon
      <4> QED BY <1>3, <3>1, <3>3, <4>1, <4>2, <4>3, <4>4, <4>5, Zenon DEF RaceStep
    <3>5. main = "race"
      BY <1>2, <1>3, <2>2 DEF Racing
    <3>6. OwnFile(i, "gone")
      BY <1>5, <1>11, <2>2, <3>5 DEF RaceSwap, OwnFile, RacePlaces
    <3> QED BY <3>4, <3>6
  <2> QED BY <1>11, <2>1, <2>2 DEF RaceSwap
<1>12. CASE RaceErr(i)
  <2>1. /\ DOMAIN disk' = DOMAIN disk \ {Tmp(i)} /\ disk' = [m \in DOMAIN disk' |-> disk'[m]]
        /\ \A m \in DOMAIN disk : m # Tmp(i) => disk'[m] = disk[m]
    BY <1>2, <1>12 DEF Without, Restrict, RaceErr
  <2>2. RaceStep(i, "gone")
    BY <1>2, <1>3, <1>12, <2>1 DEF RaceErr, RaceStep, Goto, racing, splitting
  <2>3. Fine' /\ HintIsExact /\ Usable(i) => done
    BY <1>3, <1>12 DEF MirrorInv, FineMirror, Fine, Urls, MirrorCount, RaceErr
  <2>4. OwnFile(i, "gone")
    BY <1>4, <1>12, <2>1, <2>3 DEF RaceErr, OwnFile, racing, RacePlaces
  <2> QED BY <2>2, <2>4
<1> QED BY <1>7, <1>8, <1>9, <1>10, <1>11, <1>12

(* What a step of the caller of a race leaves as it was, and what it makes  *)
(* of the files.                                                            *)
CallerStep ==
    /\ Racing /\ main' \in {"race", "rename", "clean", "fail", "check", "failed"}
    /\ main' \in {"check", "failed"} => \A u \in Urls : th[u] = "gone"
    /\ world' = world /\ th' = th /\ result' = result
    /\ hashed' = hashed /\ done' = done /\ winner' = winner /\ tried' = tried /\ failed' = failed
    /\ errors' \in Nat /\ errors' >= errors
    /\ disk' = [n \in DOMAIN disk' |-> disk'[n]]

CallerFiles ==
    /\ main' \in {"rename", "clean", "fail"} => winner # 0
    /\ DOMAIN disk' \subseteq DOMAIN disk \cup {Dest}
    /\ \A u \in Urls : th[u] = "gone" =>
          Tmp(u) \notin DOMAIN disk' \/ (winner = u /\ main' \in {"race", "rename"})
    /\ main' \in {"race", "rename"} => main \in {"race", "rename"} /\ disk' = disk
    /\ main' \in {"clean", "check"} => Dest \in DOMAIN disk' /\ disk'[Dest] = sha'
    /\ (Fine' /\ HintIsExact /\ main' \in {"clean", "check"}) => sha' = Right
    /\ (Fine' /\ HintIsExact /\ \E u \in Urls : Usable(u)) => main' \notin {"fail", "failed"}

LEMMA CallerStepKeeps ==
    ASSUME MirrorInv, CallerStep, CallerFiles
    PROVE  MirrorInv'
<1>1. Typed /\ ThreadsFit /\ WinnerFits /\ FilesFit /\ ContentFits /\ FineContent /\ FineMirror
      /\ (main # "returned" => result = "none") /\ 0 \notin Urls
  BY WorldFacts DEF MirrorInv, Typed
<1>2. ~Single /\ ~Splitting /\ ~Over /\ ~Single' /\ ~Splitting' /\ main' # "assemble"
      /\ (Over' => main' \in {"check", "failed"}) /\ main # "returned" /\ main' # "returned"
  BY DEF CallerStep, Single, Racing, Splitting, Over
<1>3. Urls' = Urls /\ (HintIsExact' <=> HintIsExact)
      /\ (\A u : Bodies(u)' = Bodies(u) /\ (Usable(u)' <=> Usable(u)))
  BY WorldStays DEF CallerStep
<1>4. Typed'
  BY <1>1, <1>3 DEF Typed, CallerStep
<1>5. ThreadsFit'
  BY <1>1, <1>2, <1>3 DEF ThreadsFit, CallerStep
<1>6. WinnerFits'
  <2>1. winner' # 0 => th'[winner'] = "gone"
    BY <1>1 DEF WinnerFits, CallerStep
  <2>2. done' \in BOOLEAN /\ winner' \in Urls \cup {0} /\ (done' <=> winner' # 0)
    <3>1. done \in BOOLEAN /\ winner \in Urls \cup {0} /\ (done <=> winner # 0)
      BY <1>1 DEF WinnerFits
    <3>2. done' = done /\ winner' = winner
      BY DEF CallerStep
    <3> QED BY <3>1, <3>2, Zenon
  <2>3. main' \in {"rename", "clean", "fail"} => winner' # 0
    BY DEF CallerStep, CallerFiles
  <2> QED BY <1>2, <1>3, <2>1, <2>2, <2>3 DEF WinnerFits
<1>7. \A u \in Urls : /\ Tmp(u) \in DOMAIN disk' => Tmp(u) \in DOMAIN disk
                      /\ Seg(u) \notin DOMAIN disk'
  <2> TAKE u \in Urls
  <2>1. Tmp(u) # Dest /\ Seg(u) # Dest
    BY Names
  <2>2. Seg(u) \notin DOMAIN disk
    BY <1>1 DEF FilesFit, OnDisk, CallerStep
  <2> QED BY <2>1, <2>2 DEF CallerFiles
<1>8. FilesFit'
  <2>1. ASSUME Over', NEW u \in Urls PROVE Tmp(u) \notin DOMAIN disk'
    BY <1>2, <2>1 DEF CallerStep, CallerFiles
  <2>2. ASSUME Racing', NEW u \in Urls
        PROVE  /\ th'[u] \in {"begin", "request"} => Tmp(u) \notin DOMAIN disk'
               /\ th'[u] = "gone" => Tmp(u) \notin DOMAIN disk' \/ (winner' = u /\ main' \in {"race", "rename"})
    <3>1. th[u] \in {"begin", "request"} => Tmp(u) \notin DOMAIN disk
      BY <1>1 DEF FilesFit, OnDisk, CallerStep
    <3>2. th' = th /\ winner' = winner
      BY DEF CallerStep
    <3> QED BY <1>7, <3>1, <3>2 DEF CallerFiles
  <2> QED BY <1>2, <1>3, <1>7, <2>1, <2>2 DEF FilesFit, OnDisk
<1>9. ContentFits'
  <2>1. ASSUME NEW u \in Urls, th'[u] = "swap" \/ winner' = u PROVE hashed'[u] \in Bodies(u)
    BY <1>1, <2>1 DEF ContentFits, CallerStep
  <2>2. ASSUME NEW u \in Urls, main' \in {"race", "rename"}
        PROVE  /\ th'[u] \in {"read", "tail"} => Tmp(u) \in DOMAIN disk'
               /\ (th'[u] = "swap" \/ winner' = u) =>
                     Tmp(u) \in DOMAIN disk' /\ disk'[Tmp(u)] = hashed'[u]
    BY <1>1, <2>2 DEF ContentFits, OnDisk, CallerStep, CallerFiles
  <2>3. main' \in {"clean", "check"} => Dest \in DOMAIN disk' /\ disk'[Dest] = sha'
    BY DEF CallerFiles
  <2> QED BY <1>3, <2>1, <2>2, <2>3 DEF ContentFits, OnDisk
<1>10. FineContent'
  BY <1>2, <1>3 DEF FineContent, CallerFiles
<1>11. FineMirror'
  <2>1. Fine' => Fine
    BY <1>1 DEF Fine, CallerStep, Typed, Urls, MirrorCount
  <2>2. ASSUME Fine', HintIsExact', NEW u \in Urls, Usable(u)
        PROVE  main' \notin {"fail", "failed"} /\ (th'[u] \in {"erring", "gone"} => done')
    BY <1>1, <1>3, <2>1, <2>2 DEF FineMirror, CallerStep, CallerFiles
  <2> QED BY <1>2, <1>3, <2>2 DEF FineMirror
<1>12. result' = "none"
  BY <1>1, <1>2 DEF CallerStep
<1> QED BY <1>2, <1>4, <1>5, <1>6, <1>8, <1>9, <1>10, <1>11, <1>12, NotYet DEF MirrorInv, SplitsKnown

(* Every step of the caller between the start of a race and its end.        *)
LEMMA RaceCallerKeeps ==
    ASSUME MirrorInv, RaceReceive \/ RaceRename \/ RaceClean \/ RaceScopeEnds
    PROVE  MirrorInv'
<1>1. Typed /\ ThreadsFit /\ WinnerFits /\ FilesFit /\ ContentFits /\ FineContent /\ FineMirror
      /\ Urls \subseteq Nat /\ 0 \notin Urls
  BY WorldFacts DEF MirrorInv, Typed
<1>2. /\ disk = [n \in DOMAIN disk |-> disk[n]] /\ errors \in Nat
      /\ done \in BOOLEAN /\ winner \in Urls \cup {0} /\ (done <=> winner # 0)
      /\ (main \in {"rename", "clean", "fail"} => winner # 0)
  BY <1>1 DEF Typed, WinnerFits
<1>3. Racing
  BY DEF RaceReceive, RaceRename, RaceClean, RaceScopeEnds, Racing
<1>4. \A u \in Urls : th[u] = "gone" =>
          Tmp(u) \notin DOMAIN disk \/ (winner = u /\ main \in {"race", "rename"})
  BY <1>1, <1>3 DEF FilesFit, OnDisk
<1>5. \A u \in Urls : Fine /\ HintIsExact /\ Usable(u) =>
          main \notin {"fail", "failed"} /\ (th[u] \in {"erring", "gone"} => done)
  BY <1>1, <1>3 DEF FineMirror
<1>6. SUFFICES CallerStep /\ CallerFiles
  BY CallerStepKeeps
<1>7. CASE RaceReceive
  <2>1. main = "race" /\ disk' = disk /\ winner' = winner
    BY <1>7 DEF RaceReceive, racing
  <2>2. CallerStep
    BY <1>2, <1>3, <1>7 DEF RaceReceive, CallerStep, racing, splitting
  <2>3. Fine' => Fine
    BY <1>7 DEF Fine, RaceReceive, Urls, MirrorCount
  <2>4. CASE winner # 0 /\ main' = "rename"
    BY <1>4, <2>1, <2>2, <2>4 DEF CallerFiles
  <2>5. CASE winner = 0 /\ (\A u \in Urls : th[u] = "gone") /\ main' = "failed"
    <3>1. \A u \in Urls : Tmp(u) \notin DOMAIN disk'
      BY <1>1, <1>4, <2>1, <2>5
    <3>2. ~ (Fine' /\ HintIsExact /\ \E u \in Urls : Usable(u))
      BY <1>2, <1>5, <2>3, <2>5
    <3> QED BY <2>1, <2>2, <2>5, <3>1, <3>2 DEF CallerFiles
  <2> QED BY <1>7, <2>2, <2>4, <2>5 DEF RaceReceive
<1>8. CASE RaceRename
  <2>1. main = "rename" /\ winner \in Urls /\ winner # 0 /\ Tmp(winner) # Dest
        /\ \A u \in Urls : Tmp(u) # Dest /\ (u # winner => Tmp(u) # Tmp(winner))
    BY <1>2, <1>8, Names DEF RaceRename
  <2>2. /\ Tmp(winner) \in DOMAIN disk /\ disk[Tmp(winner)] = hashed[winner]
        /\ hashed[winner] \in Bodies(winner)
    BY <1>1, <1>3, <2>1 DEF ContentFits, OnDisk
  <2> DEFINE moved(data) == [n \in (DOMAIN disk \cup {Dest}) \ {Tmp(winner)} |->
                                 IF n = Dest THEN data ELSE disk[n]]
  <2>3. \A d : disk' = moved(d) =>
          /\ disk' = [n \in DOMAIN disk' |-> disk'[n]] /\ Dest \in DOMAIN disk' /\ disk'[Dest] = d
          /\ DOMAIN disk' = (DOMAIN disk \cup {Dest}) \ {Tmp(winner)}
    BY <2>1
  <2>4. disk' = Without({Tmp(winner)}) =>
          disk' = [n \in DOMAIN disk' |-> disk'[n]] /\ DOMAIN disk' = DOMAIN disk \ {Tmp(winner)}
    BY AfterWithout
  <2>5. /\ world' = world /\ th' = th /\ result' = result /\ hashed' = hashed /\ done' = done
        /\ winner' = winner /\ tried' = tried /\ failed' = failed
    BY <1>8 DEF RaceRename, racing, splitting
  <2>6. CASE DiskFails /\ disk' \in {Without({Tmp(winner)}), moved(<<>>)} /\ main' = "fail"
    <3>1. errors' = errors + 1 /\ errors' # 0 /\ ~Fine'
      BY <1>2, <2>6 DEF DiskFails, Fine
    <3>2. disk' = [n \in DOMAIN disk' |-> disk'[n]]
          /\ DOMAIN disk' \subseteq (DOMAIN disk \cup {Dest}) \ {Tmp(winner)}
      BY <2>1, <2>3, <2>4, <2>6
    <3> HIDE DEF moved
    <3>3. \A u \in Urls : th[u] = "gone" => Tmp(u) \notin DOMAIN disk'
      BY <1>4, <2>1, <3>2
    <3>4. CallerStep
      BY <1>2, <1>3, <2>5, <2>6, <3>1, <3>2 DEF CallerStep
    <3>5. CallerFiles
      BY <2>1, <2>6, <3>1, <3>2, <3>3 DEF CallerFiles
    <3> QED BY <3>4, <3>5
  <2>7. CASE disk' = moved(disk[Tmp(winner)]) /\ sha' = hashed[winner] /\ main' = "clean" /\ UNCHANGED errors
    <3>1. /\ disk' = [n \in DOMAIN disk' |-> disk'[n]] /\ Dest \in DOMAIN disk' /\ disk'[Dest] = sha'
          /\ DOMAIN disk' = (DOMAIN disk \cup {Dest}) \ {Tmp(winner)}
      BY <2>2, <2>3, <2>7
    <3> HIDE DEF moved
    <3>2. \A u \in Urls : th[u] = "gone" => Tmp(u) \notin DOMAIN disk'
      BY <1>4, <2>1, <3>1
    <3>3. Fine' => sha' = Right
      BY <2>1, <2>2, <2>5, <2>7 DEF Bodies, Fine, Urls, MirrorCount
    <3>4. CallerStep
      BY <1>2, <1>3, <2>5, <2>7, <3>1 DEF CallerStep
    <3>5. CallerFiles
      BY <2>1, <2>7, <3>1, <3>2, <3>3 DEF CallerFiles
    <3> QED BY <3>4, <3>5
  <2> QED BY <1>8, <2>6, <2>7 DEF RaceRename
<1>9. CASE RaceClean
  <2>1. /\ disk' = [n \in DOMAIN disk' |-> disk'[n]] /\ DOMAIN disk' = DOMAIN disk \ {Tmp(next)}
        /\ \A m \in DOMAIN disk \ {Tmp(next)} : disk'[m] = disk[m]
    BY <1>9, AfterWithout DEF RaceClean
  <2>2. main = "clean" /\ main' = "clean" /\ sha' = sha /\ errors' = errors /\ world' = world
    BY <1>9 DEF RaceClean
  <2>3. Dest \in DOMAIN disk' /\ disk'[Dest] = sha'
    BY <1>1, <2>1, <2>2, Names DEF ContentFits, OnDisk
  <2>4. CallerStep
    BY <1>2, <1>3, <1>9, <2>1, <2>2 DEF RaceClean, CallerStep, splitting
  <2>5. (Fine' => Fine) /\ (Fine /\ HintIsExact => sha = Right)
    BY <1>1, <2>2 DEF FineContent, Fine, Urls, MirrorCount
  <2>6. CallerFiles
    BY <1>2, <1>4, <2>1, <2>2, <2>3, <2>5 DEF CallerFiles
  <2> QED BY <2>4, <2>6
<1>10. CASE RaceScopeEnds
  <2>1. /\ main \in {"fail", "clean"} /\ \A u \in Urls : th[u] = "gone"
        /\ main' = IF main = "fail" THEN "failed" ELSE "check"
        /\ world' = world /\ disk' = disk /\ errors' = errors /\ sha' = sha
    BY <1>10 DEF RaceScopeEnds
  <2>2. CallerStep
    BY <1>2, <1>3, <1>10, <2>1 DEF RaceScopeEnds, CallerStep, racing, splitting
  <2>3. \A u \in Urls : Tmp(u) \notin DOMAIN disk'
    BY <1>4, <2>1
  <2>4. Fine' => Fine
    BY <2>1 DEF Fine, Urls, MirrorCount
  <2>5. main' = "check" => Dest \in DOMAIN disk' /\ disk'[Dest] = sha'
    BY <1>1, <2>1 DEF ContentFits, OnDisk
  <2>6. Fine /\ HintIsExact /\ main' = "check" => sha' = Right
    BY <1>1, <2>1 DEF FineContent
  <2>7. (Fine' /\ HintIsExact /\ \E u \in Urls : Usable(u)) => main' \notin {"fail", "failed"}
    BY <1>5, <2>1, <2>4
  <2>8. CallerFiles
    BY <2>1, <2>3, <2>4, <2>5, <2>6, <2>7 DEF CallerFiles
  <2> QED BY <2>2, <2>8
<1> QED BY <1>7, <1>8, <1>9, <1>10

(* The caller has the one mirror's answer, or the segments'.                *)
EndStep ==
    /\ Single \/ Splitting
    /\ main' \in {"check", "failed"}
    /\ \A u \in Urls : th[u] \in {"unborn", "gone", "ok", "err"}
    /\ world' = world /\ th' = th /\ result' = result
    /\ hashed' = hashed /\ done' = done /\ winner' = winner /\ tried' = tried /\ failed' = failed
    /\ errors' \in Nat
    /\ disk' = [n \in DOMAIN disk' |-> disk'[n]]

EndFiles ==
    /\ \A u \in Urls : Tmp(u) \notin DOMAIN disk'
    /\ main' = "check" => /\ \A u \in Urls : Seg(u) \notin DOMAIN disk'
                          /\ Dest \in DOMAIN disk' /\ disk'[Dest] = sha'
    /\ main' = "failed" => (\A u \in Urls : Seg(u) \notin DOMAIN disk') \/ errors' > 0
    /\ (Fine' /\ HintIsExact /\ main' = "check") => sha' = Right
    /\ (Fine' /\ HintIsExact /\ \E u \in Urls : Usable(u)) => main' # "failed"

LEMMA EndStepKeeps ==
    ASSUME MirrorInv, EndStep, EndFiles
    PROVE  MirrorInv'
<1>1. Typed /\ ThreadsFit /\ WinnerFits /\ (main # "returned" => result = "none")
  BY DEF MirrorInv
<1>2. ~Single' /\ ~Splitting' /\ ~Racing' /\ Over' /\ main # "returned" /\ main' # "returned"
      /\ main' \notin {"race", "rename", "clean", "fail", "assemble"}
  BY DEF EndStep, Single, Racing, Splitting, Over
<1>3. Urls' = Urls /\ (HintIsExact' <=> HintIsExact) /\ (\A u : Usable(u)' <=> Usable(u))
  BY WorldStays DEF EndStep
<1>4. Typed'
  BY <1>1, <1>3 DEF Typed, EndStep
<1>5. ThreadsFit'
  BY <1>1, <1>2, <1>3 DEF ThreadsFit, EndStep
<1>6. WinnerFits'
  <2>1. done \in BOOLEAN /\ winner \in Urls \cup {0} /\ (done <=> winner # 0)
    BY <1>1 DEF WinnerFits
  <2>2. done' = done /\ winner' = winner
    BY DEF EndStep
  <2>3. done' \in BOOLEAN /\ winner' \in Urls \cup {0} /\ (done' <=> winner' # 0)
    BY <2>1, <2>2, Zenon
  <2> QED BY <1>2, <1>3, <2>3 DEF WinnerFits
<1>7. FilesFit'
  BY <1>2, <1>3 DEF FilesFit, EndStep, EndFiles, OnDisk
<1>8. ContentFits'
  BY <1>2 DEF ContentFits, EndStep, EndFiles, OnDisk
<1>9. FineContent'
  BY <1>2, <1>3 DEF FineContent, EndStep, EndFiles
<1>10. FineMirror'
  BY <1>2, <1>3 DEF FineMirror, EndStep, EndFiles
<1>11. result' = "none"
  BY <1>1, <1>2 DEF EndStep
<1> QED BY <1>2, <1>4, <1>5, <1>6, <1>7, <1>8, <1>9, <1>10, <1>11, NotYet DEF MirrorInv, SplitsKnown

LEMMA TrySingleKeeps ==
    ASSUME MirrorInv, TrySingle
    PROVE  MirrorInv'
<1>1. Typed /\ ThreadsFit /\ FilesFit
  BY DEF MirrorInv
<1>2. /\ Single /\ Urls = {1}
      /\ world' = world /\ th' = th /\ result' = result /\ hashed' = hashed /\ done' = done
      /\ winner' = winner /\ tried' = tried /\ failed' = failed
  BY DEF TrySingle, Single, Urls, racing, splitting
<1>3. /\ \A u \in Urls : th[u] = "unborn" /\ Tmp(u) \notin DOMAIN disk /\ Seg(u) \notin DOMAIN disk
      /\ disk = [n \in DOMAIN disk |-> disk[n]] /\ errors \in Nat
  BY <1>1, <1>2 DEF ThreadsFit, FilesFit, OnDisk, Typed
<1>4. \A d : disk' = With(Dest, d) =>
          /\ disk' = [n \in DOMAIN disk' |-> disk'[n]] /\ Dest \in DOMAIN disk' /\ disk'[Dest] = d
          /\ \A u \in Urls : Tmp(u) \notin DOMAIN disk' /\ Seg(u) \notin DOMAIN disk'
  BY <1>3, Names DEF With
<1>5. CASE (NoResponse(1) \/ DiskFails) /\ disk' \in {disk, With(Dest, <<>>)} /\ main' = "failed"
  <2>1. errors' \in Nat /\ (Fine' => ~Sound(1))
    BY <1>3, <1>5 DEF NoResponse, DiskFails, Fine
  <2>2. disk' = [n \in DOMAIN disk' |-> disk'[n]]
        /\ \A u \in Urls : Tmp(u) \notin DOMAIN disk' /\ Seg(u) \notin DOMAIN disk'
    BY <1>3, <1>4, <1>5
  <2>3. EndStep
    BY <1>2, <1>3, <1>5, <2>1, <2>2 DEF EndStep
  <2>4. EndFiles
    BY <1>2, <1>5, <2>1, <2>2 DEF EndFiles, Usable
  <2> QED BY <2>3, <2>4, EndStepKeeps
<1>6. ASSUME NEW body \in Bodies(1), disk' = With(Dest, body), sha' = body, main' = "check", UNCHANGED errors
      PROVE  MirrorInv'
  <2>1. EndStep
    BY <1>2, <1>3, <1>4, <1>6 DEF EndStep
  <2>2. Fine' => sha' = Right
    BY <1>2, <1>6 DEF Fine, Bodies, Urls, MirrorCount
  <2>3. EndFiles
    BY <1>4, <1>6, <2>2 DEF EndFiles
  <2> QED BY <2>1, <2>3, EndStepKeeps
<1> QED BY <1>5, <1>6 DEF TrySingle

LEMMA StartKeeps ==
    ASSUME MirrorInv, Race \/ Probe
    PROVE  MirrorInv'
<1>1. Typed /\ ThreadsFit /\ WinnerFits /\ FilesFit /\ (main # "returned" => result = "none") /\ 0 \notin Urls
  BY WorldFacts DEF MirrorInv, Typed
<1>2. /\ Single /\ MirrorCount > 1
      /\ world' = world /\ disk' = disk /\ errors' = errors /\ result' = result /\ hashed' = hashed
      /\ done' = done /\ winner' = winner /\ tried' = tried /\ failed' = failed
  BY DEF Race, Probe, StartRace, Single, racing, splitting
<1>3. /\ \A u \in Urls : tried[u] = {} /\ Tmp(u) \notin DOMAIN disk /\ Seg(u) \notin DOMAIN disk
      /\ ~failed /\ ~done /\ winner = 0 /\ result = "none"
  BY <1>1, <1>2 DEF ThreadsFit, WinnerFits, FilesFit, OnDisk, Single
<1>4. Urls' = Urls /\ Segments' = Segments /\ MirrorCount' = MirrorCount /\ Hint' = Hint
  BY <1>2, WorldStays
<1>5. /\ ~done' /\ done' \in BOOLEAN /\ winner' = 0 /\ ~failed' /\ \A u \in Urls : tried'[u] = {}
  <2>1. done \in BOOLEAN
    BY <1>1 DEF WinnerFits
  <2> QED BY <1>2, <1>3, <2>1, Zenon
<1>6. CASE StartRace
  <2>1. Racing' /\ ~Single' /\ ~Splitting' /\ ~Over' /\ main' = "race"
        /\ \A u \in Urls : th'[u] = "begin"
    BY <1>6 DEF StartRace, Single, Racing, Splitting, Over
  <2>2. Typed' /\ ThreadsFit'
    BY <1>1, <1>2, <1>4, <1>6, <2>1 DEF Typed, ThreadsFit, StartRace, RacePlaces
  <2>3. WinnerFits'
    BY <1>5, <2>1 DEF WinnerFits
  <2>4. FilesFit' /\ ContentFits'
    BY <1>1, <1>2, <1>3, <1>4, <1>5, <2>1 DEF FilesFit, ContentFits, OnDisk
  <2>5. FineContent' /\ FineMirror' /\ SplitsKnown'
    BY <2>1, <1>4 DEF FineContent, FineMirror, SplitsKnown
  <2> QED BY <1>2, <1>3, <2>1, <2>2, <2>3, <2>4, <2>5, NotYet DEF MirrorInv
<1>7. CASE /\ Hint > 0 /\ 1 \in world.ranged /\ main' = "segments"
           /\ th' = [u \in Urls |-> IF u \in Segments THEN "fetch" ELSE "gone"]
  <2>1. ~Racing' /\ ~Single' /\ Splitting' /\ ~Over' /\ main' = "segments" /\ Segments \subseteq Urls
    BY <1>1, <1>7, SegmentFacts DEF Single, Racing, Splitting, Over, Typed
  <2>2. Typed' /\ ThreadsFit'
    BY <1>1, <1>2, <1>4, <1>7, <2>1 DEF Typed, ThreadsFit, SegmentPlaces
  <2>3. WinnerFits'
    BY <1>5, <2>1 DEF WinnerFits
  <2>4. FilesFit' /\ ContentFits'
    BY <1>2, <1>3, <1>4, <1>7, <2>1 DEF FilesFit, ContentFits, OnDisk
  <2>5. FineContent'
    BY <1>4, <1>7, <2>1 DEF FineContent
  <2>6. FineMirror' /\ SplitsKnown'
    BY <1>2, <1>4, <1>5, <1>7, <2>1 DEF FineMirror, SplitsKnown
  <2> QED BY <1>2, <1>3, <2>1, <2>2, <2>3, <2>4, <2>5, <2>6, NotYet DEF MirrorInv
<1> QED BY <1>6, <1>7 DEF Race, Probe

LEMMA NextUrlIsOne ==
    ASSUME Typed, Hint > 0, NEW s \in Segments, tried[s] # Urls
    PROVE  s \in Urls /\ NextUrl(s) \in Urls /\ tried[s] \subseteq Urls
<1>1. s \in Urls /\ Urls \subseteq Nat /\ tried[s] \subseteq Urls
  BY WorldFacts, SegmentFacts DEF Typed
<1>2. PICK T \in SUBSET Nat : T = Urls \ tried[s]
  BY <1>1
<1>3. T # {}
  BY <1>1, <1>2
<1>4. \E x \in T : \A y \in T : x <= y
  BY <1>3, LeastNumber
<1>5. Min(T) \in T
  BY <1>4 DEF Min
<1> QED BY <1>1, <1>2, <1>5 DEF NextUrl

(* What a step of the thread of a segment leaves as it was.                 *)
SegmentStep(s) ==
    /\ main = "segments" /\ main' = main /\ s \in Segments /\ th[s] = "fetch"
    /\ DOMAIN th' = Urls /\ th'[s] \in SegmentPlaces
    /\ \A v \in Urls : v # s => th'[v] = th[v]
    /\ world' = world /\ result' = result /\ hashed' = hashed /\ done' = done /\ winner' = winner
    /\ errors' \in Nat /\ errors' >= errors
    /\ tried' \in [Urls -> SUBSET Urls] /\ \A v \in Segments : v # s => tried'[v] = tried[v]
    /\ disk' = [n \in DOMAIN disk' |-> disk'[n]]
    /\ DOMAIN disk' \subseteq DOMAIN disk \cup {Seg(s)} /\ DOMAIN disk \subseteq DOMAIN disk'
    /\ \A n \in DOMAIN disk : n # Seg(s) => disk'[n] = disk[n]
    /\ th'[s] = "ok" => Seg(s) \in DOMAIN disk'

LEMMA SegmentStepKeeps ==
    ASSUME MirrorInv, NEW s, SegmentStep(s),
           (Fine' /\ th'[s] = "ok") => disk'[Seg(s)] = Part(s, FALSE),
           \A v \in Urls : (Fine' /\ HintIsExact /\ Usable(v)) =>
               ~failed' /\ v \notin tried'[s] /\ th'[s] # "err"
    PROVE  MirrorInv'
<1>1. Typed /\ ThreadsFit /\ WinnerFits /\ FilesFit /\ FineContent /\ FineMirror /\ SplitsKnown
      /\ (main # "returned" => result = "none")
  BY DEF MirrorInv
<1>2. ~Single /\ Splitting /\ ~Racing /\ ~Over /\ ~Single' /\ Splitting' /\ ~Racing' /\ ~Over'
      /\ main' = "segments"
  BY DEF SegmentStep, Single, Racing, Splitting, Over
<1>3. Urls' = Urls /\ Segments' = Segments /\ Hint' = Hint /\ MirrorCount' = MirrorCount
      /\ (HintIsExact' <=> HintIsExact) /\ (\A u : Usable(u)' <=> Usable(u))
      /\ (\A i, w : Part(i, w)' = Part(i, w))
  BY WorldStays DEF SegmentStep
<1>4. Segments \subseteq Urls
  BY <1>1, <1>2, SegmentFacts DEF Typed, SplitsKnown
<1>5. Typed'
  BY <1>1, <1>3 DEF Typed, SegmentStep
<1>6. ThreadsFit'
  <2>1. \A u \in Urls : IF u \in Segments THEN th'[u] \in SegmentPlaces ELSE th'[u] = "gone"
    BY <1>1, <1>2 DEF ThreadsFit, SegmentStep
  <2> QED BY <1>2, <1>3, <2>1 DEF ThreadsFit, SegmentStep
<1>7. WinnerFits'
  <2>1. ~done /\ done \in BOOLEAN /\ winner \in Urls \cup {0} /\ (done <=> winner # 0)
    BY <1>1, <1>2 DEF WinnerFits
  <2>2. done' = done /\ winner' = winner
    BY DEF SegmentStep
  <2>3. ~done' /\ done' \in BOOLEAN /\ winner' \in Urls \cup {0} /\ (done' <=> winner' # 0)
    BY <2>1, <2>2, Zenon
  <2> QED BY <1>2, <1>3, <2>3 DEF WinnerFits
<1>8. FilesFit'
  <2>1. ASSUME NEW u \in Urls PROVE Tmp(u) \notin DOMAIN disk'
    <3>1. Tmp(u) \notin DOMAIN disk /\ Tmp(u) # Seg(s)
      BY <1>1, <1>2, Names DEF FilesFit, OnDisk
    <3> QED BY <3>1 DEF SegmentStep
  <2>2. ASSUME NEW u \in Urls, u \notin Segments PROVE Seg(u) \notin DOMAIN disk'
    <3>1. Seg(u) \notin DOMAIN disk
      BY <1>1, <1>2, <2>2 DEF FilesFit, OnDisk
    <3>2. Seg(u) # Seg(s)
      BY <2>2, Names DEF SegmentStep
    <3> QED BY <3>1, <3>2 DEF SegmentStep
  <2>3. ASSUME NEW v \in Segments, th'[v] = "ok" PROVE Seg(v) \in DOMAIN disk'
    BY <1>1, <1>2, <1>4, <2>3 DEF FilesFit, OnDisk, SegmentStep
  <2> QED BY <1>2, <1>3, <2>1, <2>2, <2>3 DEF FilesFit, OnDisk
<1>9. ContentFits'
  BY <1>2 DEF ContentFits
<1>10. Fine' => Fine
  BY <1>1 DEF Fine, SegmentStep, Typed, Urls, MirrorCount
<1>11. FineContent'
  <2>1. ASSUME Fine', NEW v \in Segments, th'[v] = "ok" PROVE disk'[Seg(v)] = Part(v, FALSE)
    <3>1. CASE v = s
      BY <2>1, <3>1
    <3>2. CASE v # s
      <4>1. th[v] = "ok" /\ Seg(v) # Seg(s)
        BY <1>4, <2>1, <3>2, Names DEF SegmentStep
      <4>2. Seg(v) \in DOMAIN disk /\ disk[Seg(v)] = Part(v, FALSE)
        BY <1>1, <1>2, <1>10, <2>1, <4>1 DEF FilesFit, FineContent, OnDisk
      <4> QED BY <4>1, <4>2 DEF SegmentStep
    <3> QED BY <3>1, <3>2
  <2> QED BY <1>2, <1>3, <2>1 DEF FineContent
<1>12. FineMirror'
  <2>1. ASSUME Fine', HintIsExact, NEW u \in Urls, Usable(u), NEW v \in Segments
        PROVE  ~failed' /\ u \notin tried'[v] /\ th'[v] # "err"
    <3>1. u \notin tried[v] /\ th[v] # "err"
      BY <1>1, <1>2, <1>10, <2>1 DEF FineMirror
    <3>2. CASE v = s
      BY <2>1, <3>2
    <3>3. CASE v # s
      <4>1. th'[v] = th[v] /\ tried'[v] = tried[v] /\ ~failed'
        BY <1>4, <2>1, <3>3 DEF SegmentStep
      <4> QED BY <3>1, <4>1
    <3> QED BY <3>2, <3>3
  <2>2. s \in Segments
    BY DEF SegmentStep
  <2> QED BY <1>2, <1>3, <2>1, <2>2 DEF FineMirror
<1>13. SplitsKnown'
  BY <1>1, <1>2, <1>3 DEF SplitsKnown, SegmentStep
<1>14. result' = "none"
  BY <1>1, <1>2 DEF SegmentStep, Over
<1> QED BY <1>2, <1>5, <1>6, <1>7, <1>8, <1>9, <1>11, <1>12, <1>13, <1>14, NotYet DEF MirrorInv

LEMMA SegmentThreadKeeps ==
    ASSUME MirrorInv, NEW s \in Urls, SegmentFetch(s) \/ SegmentGivesUp(s)
    PROVE  MirrorInv'
<1>1. Typed /\ ThreadsFit /\ FineMirror /\ SplitsKnown
  BY DEF MirrorInv
<1>2. th[s] = "fetch" /\ main = "segments" /\ s \in Segments /\ Splitting
  BY UnderWay DEF SegmentFetch, SegmentGivesUp, Splitting
<1>3. /\ MirrorCount > 1 /\ Hint > 0 /\ 1 \in world.ranged /\ DOMAIN th = Urls /\ Segments \subseteq Urls
      /\ LastOf(s) < Hint
      /\ disk = [n \in DOMAIN disk |-> disk[n]] /\ errors \in Nat /\ tried \in [Urls -> SUBSET Urls]
  BY <1>1, <1>2, SegmentFacts DEF SplitsKnown, ThreadsFit, Typed
<1>4. ASSUME Fine, HintIsExact, NEW v \in Urls, Usable(v)
      PROVE  ~failed /\ v \notin tried[s] /\ Serves(v, s) /\ Sound(v)
  <2>1. ~failed /\ v \notin tried[s]
    BY <1>1, <1>2, <1>4 DEF FineMirror
  <2>2. v \in world.ranged /\ Sound(v)
    BY <1>3, <1>4 DEF Usable
  <2>3. Hint = Size
    BY <1>3, <1>4 DEF HintIsExact
  <2> QED BY <1>3, <2>1, <2>2, <2>3 DEF Serves
<1>5. CASE SegmentFetch(s)
  <2>1. PICK u : u = NextUrl(s)
    OBVIOUS
  <2>2. u \in Urls
    BY <1>1, <1>2, <1>3, <1>5, <2>1, NextUrlIsOne DEF SegmentFetch
  <2>3. /\ main' = main /\ world' = world /\ result' = result /\ failed' = failed
        /\ hashed' = hashed /\ done' = done /\ winner' = winner
    BY <1>5 DEF SegmentFetch, racing
  <2>4. \A d : disk' = With(Seg(s), d) =>
          /\ DOMAIN disk' = DOMAIN disk \cup {Seg(s)} /\ disk' = [n \in DOMAIN disk' |-> disk'[n]]
          /\ disk'[Seg(s)] = d /\ \A n \in DOMAIN disk : n # Seg(s) => disk'[n] = disk[n]
    BY DEF With
  <2>5. CASE /\ (~Serves(u, s) /\ UNCHANGED errors) \/ NoResponse(u) \/ DiskFails
             /\ disk' = With(Seg(s), <<>>)
             /\ tried' = [tried EXCEPT ![s] = @ \cup {u}]
             /\ UNCHANGED th
    <3>1. tried' \in [Urls -> SUBSET Urls] /\ tried'[s] = tried[s] \cup {u}
          /\ \A v \in Urls : v # s => tried'[v] = tried[v]
      BY <1>3, <2>2, <2>5
    <3>2. errors' \in Nat /\ errors' >= errors /\ (Fine' => Fine /\ (~Serves(u, s) \/ ~Sound(u)))
      BY <1>3, <2>3, <2>5 DEF NoResponse, DiskFails, Fine, Urls, MirrorCount
    <3>3. SegmentStep(s)
      BY <1>2, <1>3, <2>3, <2>4, <2>5, <3>1, <3>2 DEF SegmentStep, SegmentPlaces
    <3>4. ASSUME NEW v \in Urls, Fine', HintIsExact, Usable(v)
          PROVE  ~failed' /\ v \notin tried'[s] /\ th'[s] # "err"
      <4>1. ~failed /\ v \notin tried[s] /\ v # u
        BY <1>4, <3>2, <3>4
      <4> QED BY <1>2, <2>3, <2>5, <3>1, <4>1
    <3>5. th'[s] # "ok"
      BY <1>2, <2>5
    <3> QED BY <3>3, <3>4, <3>5, SegmentStepKeeps
  <2>6. ASSUME NEW part \in Parts(s, u), disk' = With(Seg(s), part), Goto(s, "ok"), UNCHANGED <<errors, tried>>
        PROVE  MirrorInv'
    <3>1. th'[s] = "ok" /\ DOMAIN th' = Urls /\ (\A v \in Urls : v # s => th'[v] = th[v])
      BY <1>2, <1>3, <2>6 DEF Goto
    <3>2. SegmentStep(s)
      BY <1>2, <1>3, <2>3, <2>4, <2>6, <3>1 DEF SegmentStep, SegmentPlaces
    <3>3. Fine' => Fine
      BY <2>3, <2>6 DEF Fine, Urls, MirrorCount
    <3>4. Fine => disk'[Seg(s)] = Part(s, FALSE)
      BY <2>2, <2>4, <2>6 DEF Fine, Parts
    <3>5. ASSUME NEW v \in Urls, Fine', HintIsExact, Usable(v)
          PROVE  ~failed' /\ v \notin tried'[s] /\ th'[s] # "err"
      <4>1. ~failed /\ v \notin tried[s]
        BY <1>4, <3>3, <3>5
      <4> QED BY <2>3, <2>6, <3>1, <4>1
    <3> QED BY <3>2, <3>3, <3>4, <3>5, SegmentStepKeeps
  <2> QED BY <1>5, <2>1, <2>5, <2>6 DEF SegmentFetch
<1>6. CASE SegmentGivesUp(s)
  <2>1. /\ main' = main /\ world' = world /\ result' = result /\ errors' = errors /\ disk' = disk
        /\ hashed' = hashed /\ done' = done /\ winner' = winner /\ tried' = tried
        /\ tried[s] = Urls \/ failed
    BY <1>6 DEF SegmentGivesUp, racing
  <2>2. th'[s] = "err" /\ DOMAIN th' = Urls /\ (\A v \in Urls : v # s => th'[v] = th[v])
    BY <1>2, <1>3, <1>6 DEF SegmentGivesUp, Goto
  <2>3. SegmentStep(s)
    BY <1>2, <1>3, <2>1, <2>2 DEF SegmentStep, SegmentPlaces
  <2>4. Fine' => Fine
    BY <2>1 DEF Fine, Urls, MirrorCount
  <2>5. \A v \in Urls : ~ (Fine' /\ HintIsExact /\ Usable(v))
    BY <1>4, <2>1, <2>4
  <2> QED BY <2>2, <2>3, <2>5, SegmentStepKeeps
<1> QED BY <1>5, <1>6

LEMMA JoinKeeps ==
    ASSUME MirrorInv, JoinSegments \/ Assemble
    PROVE  MirrorInv'
<1>1. Typed /\ ThreadsFit /\ WinnerFits /\ FilesFit /\ FineContent /\ FineMirror /\ SplitsKnown
      /\ (main # "returned" => result = "none")
  BY DEF MirrorInv
<1>2. Splitting /\ main \in {"segments", "assemble"}
  BY DEF JoinSegments, Assemble, Splitting
<1>3. /\ world' = world /\ th' = th /\ result' = result /\ hashed' = hashed /\ done' = done
      /\ winner' = winner /\ tried' = tried /\ failed' = failed
  BY DEF JoinSegments, Assemble, racing, splitting
<1>4. /\ Hint > 0 /\ Segments \subseteq Urls
      /\ disk = [n \in DOMAIN disk |-> disk[n]] /\ errors \in Nat
  BY <1>1, <1>2, SegmentFacts DEF SplitsKnown, Typed
<1>5. \A u \in Urls : /\ Tmp(u) \notin DOMAIN disk
                      /\ u \notin Segments => Seg(u) \notin DOMAIN disk /\ th[u] = "gone"
  BY <1>1, <1>2 DEF FilesFit, ThreadsFit, OnDisk
<1>6. errors' = errors => (Fine' => Fine)
  BY <1>3 DEF Fine, Urls, MirrorCount
<1>7. \A u \in Urls : u \in Segments => Seg(u) \in SegmentFiles
  BY DEF SegmentFiles
<1>8. Dest \notin SegmentFiles /\ \A u \in Urls : Tmp(u) \notin SegmentFiles /\ Tmp(u) # Dest /\ Seg(u) # Dest
  BY Names DEF SegmentFiles
<1>9. CASE JoinSegments
  <2>1. main = "segments" /\ errors' = errors /\ sha' = sha /\ \A s \in Segments : th[s] \in {"ok", "err"}
    BY <1>9 DEF JoinSegments
  <2>2. CASE /\ \E s \in Segments : th[s] = "err"
             /\ disk' = Without(SegmentFiles) /\ main' = "failed"
    <3>1. disk' = [n \in DOMAIN disk' |-> disk'[n]] /\ DOMAIN disk' = DOMAIN disk \ SegmentFiles
      BY <2>2 DEF Without, Restrict
    <3>2. EndStep
      BY <1>2, <1>3, <1>4, <1>5, <2>1, <2>2, <3>1 DEF EndStep
    <3>3. \A u \in Urls : Tmp(u) \notin DOMAIN disk' /\ Seg(u) \notin DOMAIN disk'
      BY <1>5, <1>7, <3>1
    <3>4. ~ (Fine' /\ HintIsExact /\ \E u \in Urls : Usable(u))
      BY <1>1, <1>2, <1>6, <2>1, <2>2 DEF FineMirror
    <3>5. EndFiles
      BY <2>2, <3>3, <3>4 DEF EndFiles
    <3> QED BY <3>2, <3>5, EndStepKeeps
  <2>3. CASE /\ ~ \E s \in Segments : th[s] = "err"
             /\ disk' = disk /\ main' = "assemble"
    <3>1. \A s \in Segments : th[s] = "ok"
      BY <2>1, <2>3
    <3>2. Urls' = Urls /\ Segments' = Segments /\ Hint' = Hint /\ MirrorCount' = MirrorCount
          /\ (HintIsExact' <=> HintIsExact) /\ (\A u : Usable(u)' <=> Usable(u))
          /\ (\A i, w : Part(i, w)' = Part(i, w))
      BY <1>3, WorldStays
    <3>3. ~Single' /\ Splitting' /\ ~Racing' /\ ~Over' /\ ~Single /\ ~Racing /\ ~Over
      BY <2>1, <2>3 DEF Single, Racing, Splitting, Over
    <3>4. Typed' /\ ThreadsFit'
      BY <1>1, <1>2, <1>3, <2>1, <2>3, <3>1, <3>2, <3>3 DEF Typed, ThreadsFit, SegmentPlaces
    <3>5. WinnerFits'
      <4>1. ~done /\ done \in BOOLEAN /\ winner \in Urls \cup {0} /\ (done <=> winner # 0)
        BY <1>1, <1>2 DEF WinnerFits
      <4>2. ~done' /\ done' \in BOOLEAN /\ winner' \in Urls \cup {0} /\ (done' <=> winner' # 0)
        BY <1>3, <4>1, Zenon
      <4> QED BY <2>3, <3>2, <3>3, <4>2 DEF WinnerFits
    <3>6. FilesFit' /\ ContentFits'
      BY <1>1, <1>2, <1>3, <2>3, <3>2, <3>3 DEF FilesFit, ContentFits, OnDisk
    <3>7. FineContent' /\ FineMirror' /\ SplitsKnown'
      BY <1>1, <1>2, <1>3, <1>6, <2>1, <2>3, <3>2, <3>3 DEF FineContent, FineMirror, SplitsKnown
    <3>8. result' = "none"
      BY <1>1, <1>3, <2>1
    <3> QED BY <3>4, <3>5, <3>6, <3>7, <3>8, NotYet DEF MirrorInv
  <2> QED BY <1>9, <2>2, <2>3 DEF JoinSegments
<1>10. CASE Assemble
  <2>1. main = "assemble" /\ \A s \in Segments : th[s] = "ok"
    BY <1>1, <1>2, <1>10 DEF Assemble, ThreadsFit
  <2>2. CASE DiskFails /\ disk' \in {disk, With(Dest, <<>>)} /\ main' = "failed"
    <3>1. errors' \in Nat /\ errors' > 0 /\ ~Fine'
      BY <1>4, <2>2 DEF DiskFails, Fine
    <3>2. disk' = [n \in DOMAIN disk' |-> disk'[n]] /\ DOMAIN disk' \subseteq DOMAIN disk \cup {Dest}
      BY <1>4, <2>2 DEF With
    <3>3. EndStep
      BY <1>2, <1>3, <1>5, <2>1, <2>2, <3>1, <3>2 DEF EndStep
    <3>4. EndFiles
      BY <1>5, <1>8, <2>2, <3>1, <3>2 DEF EndFiles
    <3> QED BY <3>3, <3>4, EndStepKeeps
  <2>3. CASE /\ disk' = [n \in (DOMAIN disk \cup {Dest}) \ SegmentFiles |->
                            IF n = Dest THEN Assembled ELSE disk[n]]
             /\ sha' = Assembled /\ main' = "check" /\ UNCHANGED errors
    <3>1. /\ disk' = [n \in DOMAIN disk' |-> disk'[n]] /\ Dest \in DOMAIN disk' /\ disk'[Dest] = sha'
          /\ DOMAIN disk' = (DOMAIN disk \cup {Dest}) \ SegmentFiles
      BY <1>8, <2>3
    <3>2. EndStep
      BY <1>2, <1>3, <1>4, <1>5, <2>1, <2>3, <3>1 DEF EndStep
    <3>3. \A u \in Urls : Tmp(u) \notin DOMAIN disk' /\ Seg(u) \notin DOMAIN disk'
      BY <1>5, <1>7, <1>8, <3>1
    <3>4. ASSUME Fine', HintIsExact PROVE sha' = Right
      <4>1. Hint = Size
        BY <1>4, <3>4 DEF HintIsExact
      <4>2. \A s \in Segments : disk[Seg(s)] = Part(s, FALSE)
        BY <1>1, <1>2, <1>6, <2>1, <2>3, <3>4 DEF FineContent
      <4> QED BY <1>1, <2>3, <4>1, <4>2, AssembledIsRight DEF Typed
    <3>5. EndFiles
      BY <2>3, <3>1, <3>3, <3>4 DEF EndFiles
    <3> QED BY <3>2, <3>5, EndStepKeeps
  <2> QED BY <1>10, <2>2, <2>3 DEF Assemble
<1> QED BY <1>9, <1>10

(* download_to_file returns.                                                *)
LEMMA ReturnKeeps ==
    ASSUME MirrorInv, Check \/ Failed
    PROVE  MirrorInv'
<1>1. Typed /\ ThreadsFit /\ WinnerFits /\ FilesFit /\ ContentFits /\ FineContent /\ FineMirror
  BY DEF MirrorInv
<1>2. Over /\ main \in {"check", "failed"} /\ main' = "returned"
      /\ ~Single' /\ ~Splitting' /\ ~Racing' /\ Over'
  BY DEF Check, Failed, Single, Racing, Splitting, Over
<1>3. /\ world' = world /\ th' = th /\ errors' = errors /\ sha' = sha /\ hashed' = hashed /\ done' = done
      /\ winner' = winner /\ tried' = tried /\ failed' = failed
  BY DEF Check, Failed, racing, splitting
<1>4. Urls' = Urls /\ (HintIsExact' <=> HintIsExact) /\ (\A u : Usable(u)' <=> Usable(u))
  BY <1>3, WorldStays
<1>5. /\ disk' = [n \in DOMAIN disk' |-> disk'[n]] /\ DOMAIN disk' \subseteq DOMAIN disk
      /\ disk' = Without({Dest}) => Dest \notin DOMAIN disk'
  <2>1. disk = [n \in DOMAIN disk |-> disk[n]]
    BY <1>1 DEF Typed
  <2>2. disk' = disk \/ disk' = Without({Dest})
    BY DEF Check, Failed
  <2>3. disk' = Without({Dest}) =>
          disk' = [n \in DOMAIN disk' |-> disk'[n]] /\ DOMAIN disk' = DOMAIN disk \ {Dest}
    BY DEF Without, Restrict
  <2> QED BY <2>1, <2>2, <2>3
<1>6. \A u \in Urls : Tmp(u) \notin DOMAIN disk'
  BY <1>1, <1>2, <1>5 DEF FilesFit, OnDisk
<1>7. Typed' /\ ThreadsFit' /\ FilesFit' /\ ContentFits' /\ FineContent' /\ FineMirror' /\ SplitsKnown'
  <2>1. result' \in {"ok", "unchecked", "mismatch", "allfailed"}
    BY DEF Check, Failed
  <2>2. Typed' /\ ThreadsFit'
    BY <1>1, <1>2, <1>3, <1>4, <1>5, <2>1 DEF Typed, ThreadsFit
  <2>3. FilesFit' /\ ContentFits'
    BY <1>2, <1>4, <1>6 DEF FilesFit, ContentFits, OnDisk
  <2>4. FineContent' /\ FineMirror' /\ SplitsKnown'
    BY <1>2 DEF FineContent, FineMirror, SplitsKnown
  <2> QED BY <2>2, <2>3, <2>4
<1>8. WinnerFits'
  <2>1. done \in BOOLEAN /\ winner \in Urls \cup {0} /\ (done <=> winner # 0)
    BY <1>1 DEF WinnerFits
  <2>2. done' \in BOOLEAN /\ winner' \in Urls \cup {0} /\ (done' <=> winner' # 0)
    BY <1>3, <2>1, Zenon
  <2> QED BY <1>2, <1>4, <2>2 DEF WinnerFits
<1>9. ResultTellsTruth'
  <2>1. CASE Check
    <3>1. OnDisk(Dest) /\ disk[Dest] = sha
      BY <1>1, <2>1 DEF Check, ContentFits
    <3>2. Right' = Right
      BY DEF Right
    <3> QED BY <1>3, <1>5, <2>1, <3>1, <3>2 DEF Check, ResultTellsTruth, OnDisk
  <2>2. CASE Failed
    BY <1>5, <2>2 DEF Failed, ResultTellsTruth, OnDisk
  <2> QED BY <2>1, <2>2
<1>10. NothingLeftBehind'
  <2>1. (\A u \in Urls : Seg(u) \notin DOMAIN disk') \/ (result' = "allfailed" /\ errors' > 0)
    BY <1>1, <1>3, <1>5 DEF Check, Failed, FilesFit, OnDisk
  <2> QED BY <1>4, <1>6, <2>1 DEF NothingLeftBehind, OnDisk, Temporaries
<1>11. OneMirrorSuffices'
  <2>1. SUFFICES ASSUME Fine, HintIsExact, NEW u \in Urls, Usable(u)
                 PROVE  result' \notin {"mismatch", "allfailed"}
    BY <1>3, <1>4 DEF OneMirrorSuffices, Fine
  <2>2. main # "failed"
    BY <1>1, <2>1 DEF FineMirror
  <2>3. main = "check" => sha = Right
    BY <1>1, <2>1 DEF FineContent
  <2> QED BY <1>2, <2>2, <2>3 DEF Check, Failed
<1> QED BY <1>2, <1>7, <1>8, <1>9, <1>10, <1>11 DEF MirrorInv, EndsCleanly
-----------------------------------------------------------------------------
LEMMA MirrorInit ==
    Init => MirrorInv
<1>1. SUFFICES ASSUME Init PROVE MirrorInv
  OBVIOUS
<1>2. Urls \subseteq Nat /\ 0 \notin Urls
  BY <1>1, WorldFacts DEF Init
<1>3. Single /\ ~Racing /\ ~Splitting /\ ~Over /\ DOMAIN disk = {} /\ ~done /\ done \in BOOLEAN /\ ~failed
  <2>1. main = "start" /\ disk = <<>> /\ done = FALSE /\ failed = FALSE
    BY <1>1 DEF Init
  <2>2. Single /\ ~Racing /\ ~Splitting /\ ~Over
    BY <2>1 DEF Single, Racing, Splitting, Over
  <2>3. DOMAIN disk = {}
    BY <2>1
  <2> QED BY <2>1, <2>2, <2>3
<1>4. Typed
  BY <1>1 DEF Init, Typed
<1>5. ThreadsFit /\ WinnerFits /\ FilesFit /\ ContentFits
  BY <1>1, <1>2, <1>3 DEF Init, ThreadsFit, WinnerFits, FilesFit, ContentFits, OnDisk
<1>6. FineContent /\ FineMirror /\ SplitsKnown
  BY <1>1, <1>3 DEF Init, FineContent, FineMirror, SplitsKnown
<1>7. EndsCleanly
  BY <1>1 DEF Init, EndsCleanly, ResultTellsTruth, NothingLeftBehind, OneMirrorSuffices
<1> QED BY <1>1, <1>4, <1>5, <1>6, <1>7 DEF MirrorInv, Init

LEMMA MirrorNext ==
    MirrorInv /\ [Next]_vars => MirrorInv'
<1>1. SUFFICES ASSUME MirrorInv, [Next]_vars PROVE MirrorInv'
  OBVIOUS
<1>2. CASE TrySingle
  BY <1>1, <1>2, TrySingleKeeps
<1>3. CASE Race \/ Probe
  BY <1>1, <1>3, StartKeeps
<1>4. CASE RaceReceive \/ RaceRename \/ RaceClean \/ RaceScopeEnds
  BY <1>1, <1>4, RaceCallerKeeps
<1>5. CASE JoinSegments \/ Assemble
  BY <1>1, <1>5, JoinKeeps
<1>6. CASE Check \/ Failed
  BY <1>1, <1>6, ReturnKeeps
<1>7. ASSUME NEW i \in Urls, Thread(i) PROVE MirrorInv'
  BY <1>1, <1>7, RaceThreadKeeps, SegmentThreadKeeps DEF Thread
<1>8. CASE Returned \/ UNCHANGED vars
  <2>1. UNCHANGED <<world, disk, errors, main, result, sha, th, hashed, done, winner, next, failed, tried>>
    BY <1>8 DEF Returned, vars, racing, splitting
  <2>2. Typed' /\ ThreadsFit' /\ WinnerFits' /\ FilesFit' /\ ContentFits'
    BY <1>1, <2>1, WorldStays DEF MirrorInv, Typed, ThreadsFit, WinnerFits, FilesFit, ContentFits,
       Single, Racing, Splitting, Over, OnDisk
  <2>3. FineContent' /\ FineMirror' /\ SplitsKnown'
    BY <1>1, <2>1, WorldStays DEF MirrorInv, FineContent, FineMirror, SplitsKnown, Fine,
       Racing, Splitting, Right
  <2>4. (main # "returned" => result = "none")' /\ EndsCleanly'
    BY <1>1, <2>1, WorldStays DEF MirrorInv, EndsCleanly, ResultTellsTruth, NothingLeftBehind,
       OneMirrorSuffices, OnDisk, Temporaries, Right
  <2> QED BY <2>2, <2>3, <2>4 DEF MirrorInv
<1> QED BY <1>1, <1>2, <1>3, <1>4, <1>5, <1>6, <1>7, <1>8 DEF Next, Main

(* For any number of mirrors, any size of the file, any size hint and any   *)
(* number of file system errors, parallel_download, segmented_download and  *)
(* download_to_file, which compares the hash, end cleanly: an Ok is the     *)
(* file, an error leaves none, temporary files go, and one mirror that is   *)
(* up suffices.                                                             *)
THEOREM DownloadsEndCleanly == Spec => []EndsCleanly
<1>1. MirrorInv => EndsCleanly
  BY DEF MirrorInv
<1> QED BY <1>1, MirrorInit, MirrorNext, PTL DEF Spec
-----------------------------------------------------------------------------
(* What is done again and again to a member of a set, without leaving it.   *)
LEMMA ByNumber ==
    ASSUME NEW n \in Nat, NEW S, 0 \in S, \A i \in 1 .. n : i - 1 \in S => i \in S
    PROVE  \A i \in 0 .. n : i \in S
<1> DEFINE T == (0 .. n) \ S
<1>1. SUFFICES ASSUME T # {} PROVE FALSE
    OBVIOUS
<1>2. PICK x \in T : \A y \in T : x <= y
    <2>1. T \subseteq Nat
        OBVIOUS
    <2> QED
        BY <1>1, <2>1, LeastNumber
<1>3. x \in 1 .. n /\ x - 1 \in 0 .. n /\ ~(x <= x - 1)
    BY <1>2
<1>4. x - 1 \notin T
    BY <1>2, <1>3
<1> QED
    BY <1>2, <1>3, <1>4

IsRun(f, h, s, k) == f[0] = s /\ \A n \in 1 .. k : f[n] = h[f[n - 1]]

LEMMA Iterates ==
    ASSUME NEW A, NEW h \in [A -> A], NEW s \in A, NEW k \in Nat
    PROVE  \E f \in [0 .. k -> A] : IsRun(f, h, s, k)
<1> DEFINE Runs(m, f) == f[0] = s /\ \A n \in 1 .. m : f[n] = h[f[n - 1]]
           Good == {m \in 0 .. k : \E f \in [0 .. m -> A] : Runs(m, f)}
<1>1. 0 \in Good
    <2>1. PICK f : f = [i \in 0 .. 0 |-> s]
        OBVIOUS
    <2>2. f \in [0 .. 0 -> A] /\ f[0] = s /\ 1 .. 0 = {}
        BY <2>1
    <2> QED
        BY <2>2
<1>2. ASSUME NEW m \in 1 .. k, m - 1 \in Good PROVE m \in Good
    <2>1. PICK f \in [0 .. m - 1 -> A] : f[0] = s /\ \A n \in 1 .. m - 1 : f[n] = h[f[n - 1]]
        BY <1>2
    <2>2. PICK g : g = [n \in 0 .. m |-> IF n = m THEN h[f[m - 1]] ELSE f[n]]
        OBVIOUS
    <2>3. m - 1 \in 0 .. m - 1 /\ f[m - 1] \in A
        BY <2>1
    <2>4. h[f[m - 1]] \in A
        BY <2>3
    <2>5. \A n \in 0 .. m : n # m => n \in 0 .. m - 1 /\ f[n] \in A
        BY <2>1
    <2>6. g \in [0 .. m -> A]
        BY <2>2, <2>4, <2>5
    <2>7. g[m] = h[f[m - 1]] /\ \A n \in 0 .. m : n # m => g[n] = f[n]
        BY <2>2
    <2>8. g[0] = s
        BY <2>1, <2>7
    <2>9. ASSUME NEW n \in 1 .. m PROVE g[n] = h[g[n - 1]]
        <3>1. n - 1 \in 0 .. m /\ n - 1 # m /\ g[n - 1] = f[n - 1]
            BY <2>7
        <3>2. CASE n = m
            BY <3>1, <3>2, <2>7
        <3>3. CASE n # m
            <4>1. n \in 1 .. m - 1 /\ n \in 0 .. m
                BY <3>3
            <4> QED
                BY <3>1, <3>3, <4>1, <2>1, <2>7
        <3> QED
            BY <3>2, <3>3
    <2>10. Runs(m, g) /\ m \in 0 .. k
        BY <2>8, <2>9
    <2> QED
        BY <2>6, <2>10
<1> HIDE DEF Good
<1>3. k \in Good
    BY <1>1, <1>2, ByNumber
<1> QED
    BY <1>3 DEF Good, IsRun

-----------------------------------------------------------------------------
(* The copies of a group's catalogue (GroupSync, for manifest.rs and        *)
(* catalog.rs).                                                             *)
GroupNumbers == NumPaths \in Nat

Ascending(list) == \A i, j \in 1 .. Len(list) : i < j => list[i].path < list[j].path

Lists(list, entries) ==
    /\ list \in [1 .. Cardinality(entries) -> entries] /\ Range(list) = entries
    /\ \A i, j \in DOMAIN list : i < j => list[i].path < list[j].path

(* Entries with a path each can be sorted.                                  *)
LEMMA SortedExists ==
    ASSUME GroupNumbers, NEW E \in SUBSET Entries, OnePerPath(E)
    PROVE  IsFiniteSet(E) /\ \E list : Lists(list, E)
<1> DEFINE Sortable(F) == IsFiniteSet(F) /\ \E list : Lists(list, F)
           S == {n \in 0 .. NumPaths : \A F \in SUBSET Entries :
                    OnePerPath(F) /\ (\A e \in F : e.path <= n) => Sortable(F)}
<1>1. \A e \in Entries : e.path \in 1 .. NumPaths
    BY DEF Entries, Paths
<1>2. 0 \in S
    <2>1. ASSUME NEW F \in SUBSET Entries, \A e \in F : e.path <= 0 PROVE Sortable(F)
        <3>1. F = {}
            BY <1>1, <2>1 DEF GroupNumbers
        <3>2. IsFiniteSet({}) /\ Cardinality({}) = 0
            BY FS_EmptySet
        <3>3. PICK list : list = [i \in 1 .. 0 |-> i]
            OBVIOUS
        <3>4. 1 .. 0 = {} /\ DOMAIN list = {}
            BY <3>3
        <3>5. list \in [1 .. 0 -> {}] /\ Range(list) = {}
            BY <3>3, <3>4 DEF Range
        <3> QED
            BY <3>1, <3>2, <3>4, <3>5 DEF Lists
    <2> QED
        BY <2>1 DEF GroupNumbers
<1>3. ASSUME NEW n \in 1 .. NumPaths, n - 1 \in S PROVE n \in S
    <2>1. SUFFICES ASSUME NEW F \in SUBSET Entries, OnePerPath(F), \A e \in F : e.path <= n
                   PROVE  Sortable(F)
        BY DEF GroupNumbers
    <2>2. \A G \in SUBSET Entries : OnePerPath(G) /\ (\A e \in G : e.path <= n - 1) => Sortable(G)
        BY <1>3
    <2>3. \A e \in F : e.path \in Int /\ (e.path # n => e.path <= n - 1)
        BY <1>1, <2>1 DEF GroupNumbers
    <2>4. CASE \A e \in F : e.path # n
        BY <2>1, <2>2, <2>3, <2>4
    <2>5. CASE \E e \in F : e.path = n
        <3>1. PICK e \in F : e.path = n
            BY <2>5
        <3>2. PICK G : G = F \ {e}
            OBVIOUS
        <3>3. OnePerPath(G) /\ G \in SUBSET Entries /\ \A g \in G : g.path <= n - 1
            BY <2>1, <2>3, <3>1, <3>2 DEF OnePerPath
        <3>4. IsFiniteSet(G) /\ \E list : Lists(list, G)
            <4>1. Sortable(G)
                BY <2>2, <3>3
            <4> QED
                BY <4>1
        <3>5. PICK m \in Nat : m = Cardinality(G)
            BY <3>4, FS_CardinalityType
        <3>6. F = G \cup {e} /\ e \notin G
            BY <3>1, <3>2
        <3>7. IsFiniteSet(F) /\ Cardinality(F) = m + 1
            BY <3>4, <3>5, <3>6, FS_AddElement
        <3>8. PICK list : list \in [1 .. m -> G] /\ Range(list) = G
                          /\ \A i, j \in 1 .. m : i < j => list[i].path < list[j].path
            BY <3>4, <3>5 DEF Lists
        <3>9. PICK longer : longer = [i \in 1 .. m + 1 |-> IF i = m + 1 THEN e ELSE list[i]]
            OBVIOUS
        <3>10. /\ DOMAIN longer = 1 .. m + 1 /\ longer[m + 1] = e
               /\ \A i \in 1 .. m : longer[i] = list[i]
               /\ \A i \in 1 .. m + 1 : i \in 1 .. m \/ i = m + 1
               /\ \A i \in 1 .. m : i \in 1 .. m + 1
            BY <3>9
        <3>11. longer \in [1 .. m + 1 -> F]
            BY <3>6, <3>8, <3>9
        <3>12. Range(longer) = F
            <4>1. \A x \in F : \E i \in 1 .. m + 1 : longer[i] = x
                <5>1. \A x \in G : \E i \in 1 .. m : list[i] = x
                    BY <3>8 DEF Range
                <5> QED
                    BY <3>6, <3>10, <5>1
            <4> QED
                BY <3>10, <3>11, <4>1 DEF Range
        <3>13. ASSUME NEW i \in 1 .. m + 1, NEW j \in 1 .. m + 1, i < j
               PROVE  longer[i].path < longer[j].path
            <4>1. i \in 1 .. m
                BY <3>13
            <4>2. CASE j = m + 1
                <5>1. list[i] \in G /\ n \in Int
                    BY <3>8, <4>1
                <5>2. list[i].path <= n - 1 /\ list[i].path \in Int
                    BY <2>3, <3>3, <3>6, <5>1
                <5> QED
                    BY <3>1, <3>10, <4>1, <4>2, <5>1, <5>2
            <4>3. CASE j \in 1 .. m
                BY <3>8, <3>10, <3>13, <4>1, <4>3
            <4> QED
                BY <3>10, <4>2, <4>3
        <3> QED
            BY <3>7, <3>10, <3>11, <3>12, <3>13 DEF Lists
    <2> QED
        BY <2>4, <2>5
<1>4. NumPaths \in S
    <2> HIDE DEF S
    <2>1. \A n \in 0 .. NumPaths : n \in S
        BY <1>2, <1>3, ByNumber, ZenonT(30) DEF GroupNumbers
    <2> QED
        BY <2>1 DEF GroupNumbers
<1>5. \A e \in E : e.path <= NumPaths
    BY <1>1 DEF GroupNumbers
<1> QED
    BY <1>4, <1>5

LEMMA InOrderIs ==
    ASSUME GroupNumbers, NEW E \in SUBSET Entries, OnePerPath(E)
    PROVE  InOrder(E) \in Seq(Entries) /\ Range(InOrder(E)) = E /\ Ascending(InOrder(E))
<1>1. PICK list : list = InOrder(E)
    OBVIOUS
<1>2. Lists(list, E)
    <2>1. \E l : Lists(l, E)
        BY SortedExists
    <2> QED
        BY <1>1, <2>1 DEF Lists, InOrder
<1>3. PICK n \in Nat : n = Cardinality(E)
    BY SortedExists, FS_CardinalityType
<1>4. list \in Seq(Entries) /\ Len(list) = n /\ DOMAIN list = 1 .. n
    <2>1. list \in [1 .. n -> Entries]
        BY <1>2, <1>3 DEF Lists
    <2> QED
        BY <2>1
<1>5. Ascending(list)
    BY <1>2, <1>4 DEF Lists, Ascending
<1> QED
    BY <1>1, <1>2, <1>4, <1>5 DEF Lists

(* What changes do to a set of entries, one after the other.                *)
Changes == [change : {"Added", "Removed", "Modified"}, entry : Entries]

Effect(from, changes, to) ==
    \E run \in [0 .. Len(changes) -> SUBSET Entries] :
        /\ run[0] = from /\ run[Len(changes)] = to
        /\ \A n \in 1 .. Len(changes) : run[n] = Apply(run[n - 1], changes[n])

LEMMA AppliedStays ==
    ASSUME NEW known \in SUBSET Entries, NEW c \in Changes
    PROVE  Apply(known, c) \in SUBSET Entries
BY DEF Apply, Changes

(* What a change does to the contents is up to the contents; and it leaves  *)
(* an entry to a path.                                                      *)
LEMMA AppliedContents ==
    ASSUME NEW A \in SUBSET Entries, NEW B \in SUBSET Entries, ContentsOf(A) = ContentsOf(B),
           NEW c \in Changes
    PROVE  ContentsOf(Apply(A, c)) = ContentsOf(Apply(B, c))
<1>1. ASSUME NEW X \in SUBSET Entries, NEW Y \in SUBSET Entries, ContentsOf(X) = ContentsOf(Y),
             NEW x \in Apply(X, c)
      PROVE  \E y \in Apply(Y, c) : y.path = x.path /\ y.hash = x.hash
    <2>1. CASE c.change # "Removed" /\ x = c.entry
        BY <2>1 DEF Apply
    <2>2. CASE x \in X /\ x.path # c.entry.path
        <3>1. PICK k : k = [path |-> x.path, hash |-> x.hash]
            OBVIOUS
        <3>2. k \in ContentsOf(X)
            BY <2>2, <3>1 DEF ContentsOf
        <3>3. PICK y \in Y : k = [path |-> y.path, hash |-> y.hash]
            BY <1>1, <3>2 DEF ContentsOf
        <3>4. y.path = x.path /\ y.hash = x.hash
            BY <3>1, <3>3
        <3> QED
            BY <2>2, <3>4 DEF Apply
    <2> QED
        BY <1>1, <2>1, <2>2 DEF Apply
<1>2. ASSUME NEW X \in SUBSET Entries, NEW Y \in SUBSET Entries, ContentsOf(X) = ContentsOf(Y)
      PROVE  ContentsOf(Apply(X, c)) \subseteq ContentsOf(Apply(Y, c))
    <2>1. ASSUME NEW k \in ContentsOf(Apply(X, c)) PROVE k \in ContentsOf(Apply(Y, c))
        <3>1. PICK x \in Apply(X, c) : k = [path |-> x.path, hash |-> x.hash]
            BY DEF ContentsOf
        <3>2. PICK y \in Apply(Y, c) : y.path = x.path /\ y.hash = x.hash
            BY <1>1, <1>2
        <3> QED
            BY <3>1, <3>2 DEF ContentsOf
    <2> QED
        BY <2>1
<1>3. /\ ContentsOf(Apply(A, c)) \subseteq ContentsOf(Apply(B, c))
      /\ ContentsOf(Apply(B, c)) \subseteq ContentsOf(Apply(A, c))
    BY <1>2, Zenon
<1> QED
    BY <1>3, Zenon

LEMMA AppliedOnce ==
    ASSUME NEW known, OnePerPath(known), NEW c
    PROVE  OnePerPath(Apply(known, c))
BY DEF OnePerPath, Apply

LEMMA EffectGrows ==
    ASSUME NEW from, NEW changes \in Seq(Changes), NEW to, Effect(from, changes, to),
           NEW c \in Changes
    PROVE  Effect(from, Append(changes, c), Apply(to, c))
<1>1. PICK n \in Nat : n = Len(changes)
    OBVIOUS
<1>2. PICK run \in [0 .. n -> SUBSET Entries] :
          /\ run[0] = from /\ run[n] = to
          /\ \A k \in 1 .. n : run[k] = Apply(run[k - 1], changes[k])
    BY <1>1 DEF Effect
<1>3. PICK longer : longer = Append(changes, c)
    OBVIOUS
<1>4. Len(longer) = n + 1 /\ longer[n + 1] = c /\ \A k \in 1 .. n : longer[k] = changes[k]
    BY <1>1, <1>3
<1>5. to \in SUBSET Entries /\ Apply(to, c) \in SUBSET Entries
    <2>1. to \in SUBSET Entries
        BY <1>2
    <2> QED
        BY <2>1, AppliedStays
<1>6. PICK on : on = [k \in 0 .. n + 1 |-> IF k = n + 1 THEN Apply(to, c) ELSE run[k]]
    OBVIOUS
<1>7. on \in [0 .. n + 1 -> SUBSET Entries]
    BY <1>2, <1>5, <1>6
<1>8. on[n + 1] = Apply(to, c) /\ on[0] = from /\ \A k \in 0 .. n : on[k] = run[k]
    BY <1>2, <1>6
<1>9. ASSUME NEW k \in 1 .. n + 1 PROVE on[k] = Apply(on[k - 1], longer[k])
    <2>1. k - 1 \in 0 .. n
        OBVIOUS
    <2>2. CASE k = n + 1
        <3>1. k - 1 = n
            BY <2>2
        <3> QED
            BY <1>2, <1>4, <1>8, <2>1, <2>2, <3>1
    <2>3. CASE k # n + 1
        <3>1. k \in 1 .. n /\ k \in 0 .. n
            BY <2>3
        <3> QED
            BY <1>2, <1>4, <1>8, <2>1, <3>1
    <2> QED
        BY <2>2, <2>3
<1>10. Effect(from, longer, Apply(to, c))
    BY <1>4, <1>7, <1>8, <1>9 DEF Effect
<1> QED
    BY <1>3, <1>10

(* The viewer's loop has that effect.                                       *)
LEMMA PatchedIs ==
    ASSUME NEW entries, NEW diff \in Seq(Changes), NEW to, Effect(Range(entries), diff, to)
    PROVE  Patched(entries, diff) = InOrder(to)
<1>1. PICK m \in Nat : m = Len(diff)
    OBVIOUS
<1> DEFINE rounds(f) == [n \in 0 .. m |->
                            IF n = 0 THEN Range(entries) ELSE Apply(f[n - 1], diff[n])]
           known == CHOOSE f : f = rounds(f)
<1>2. PICK run \in [0 .. m -> SUBSET Entries] :
          /\ run[0] = Range(entries) /\ run[m] = to
          /\ \A n \in 1 .. m : run[n] = Apply(run[n - 1], diff[n])
    BY <1>1 DEF Effect
<1>3. run = rounds(run)
    <2>1. \A n \in 0 .. m : n # 0 => n \in 1 .. m
        OBVIOUS
    <2> QED
        BY <1>2, <2>1
<1>4. known = rounds(known)
    <2> HIDE DEF rounds
    <2> QED
        BY <1>3
<1>5. Patched(entries, diff) = InOrder(known[m])
    BY <1>1, Zenon DEF Patched
<1> HIDE DEF known
<1> DEFINE S == {n \in 0 .. m : known[n] = run[n]}
<1>6. 0 \in S
    BY <1>2, <1>4
<1>7. ASSUME NEW n \in 1 .. m, n - 1 \in S PROVE n \in S
    <2>1. n \in 0 .. m /\ n # 0 /\ known[n - 1] = run[n - 1]
        BY <1>7
    <2>2. known[n] = Apply(known[n - 1], diff[n])
        BY <1>4, <2>1
    <2> QED
        BY <1>2, <2>1, <2>2
<1>8. m \in S
    <2> HIDE DEF S
    <2>1. \A n \in 0 .. m : n \in S
        BY <1>6, <1>7, ByNumber, ZenonT(30)
    <2> QED
        BY <2>1
<1> QED
    BY <1>2, <1>5, <1>8

(* Between two rounds: what the new list has before the place in it, and    *)
(* the old one from the place in it on.                                     *)
Mixed(old, new, i, j) == {new[l] : l \in 1 .. j - 1} \cup {old[k] : k \in i .. Len(old)}

Between(old, new, i, j) ==
    /\ \A k \in 1 .. i - 1, l \in j .. Len(new) : old[k].path < new[l].path
    /\ \A k \in i .. Len(old), l \in 1 .. j - 1 : new[l].path < old[k].path

Walks == [i : Nat, j : Nat, changes : Seq(Changes)]

(* The changes so far make something with the contents of a set.            *)
Makes(old, changes, contents) ==
    \E to \in SUBSET Entries : /\ Effect(Range(old), changes, to) /\ OnePerPath(to)
                               /\ ContentsOf(to) = ContentsOf(contents)

WalkFits(old, new, w) ==
    /\ w.i \in 1 .. Len(old) + 1 /\ w.j \in 1 .. Len(new) + 1
    /\ Between(old, new, w.i, w.j)
    /\ Makes(old, w.changes, Mixed(old, new, w.i, w.j))

Sorted(list) == list \in Seq(Entries) /\ Ascending(list)

LEMMA SortedFacts ==
    ASSUME GroupNumbers, NEW list, Sorted(list)
    PROVE  /\ Len(list) \in Nat /\ DOMAIN list = 1 .. Len(list)
           /\ \A k \in 1 .. Len(list) : list[k] \in Entries /\ list[k].path \in Int
           /\ \A k, l \in 1 .. Len(list) : k < l => list[k].path < list[l].path
<1>1. list \in Seq(Entries)
    BY DEF Sorted
<1>2. \A e \in Entries : e.path \in Int
    BY DEF Entries, Paths, GroupNumbers
<1>3. \A k \in 1 .. Len(list) : list[k] \in Entries
    BY <1>1
<1> QED
    BY <1>1, <1>2, <1>3 DEF Sorted, Ascending

LEMMA MixedEntries ==
    ASSUME GroupNumbers, NEW old, NEW new, Sorted(old), Sorted(new),
           NEW i \in 1 .. Len(old) + 1, NEW j \in 1 .. Len(new) + 1
    PROVE  Mixed(old, new, i, j) \in SUBSET Entries
<1>1. /\ Len(old) \in Nat /\ Len(new) \in Nat
      /\ \A k \in 1 .. Len(old) : old[k] \in Entries
      /\ \A k \in 1 .. Len(new) : new[k] \in Entries
    BY SortedFacts
<1>2. /\ \A k \in i .. Len(old) : k \in 1 .. Len(old)
      /\ \A l \in 1 .. j - 1 : l \in 1 .. Len(new)
    BY <1>1
<1> QED
    BY <1>1, <1>2 DEF Mixed

LEMMA MakesMore ==
    ASSUME NEW old, NEW changes \in Seq(Changes), NEW mixed \in SUBSET Entries,
           Makes(old, changes, mixed), NEW c \in Changes
    PROVE  Makes(old, Append(changes, c), Apply(mixed, c))
<1>1. PICK to \in SUBSET Entries : /\ Effect(Range(old), changes, to) /\ OnePerPath(to)
                                  /\ ContentsOf(to) = ContentsOf(mixed)
    BY DEF Makes
<1>2. Effect(Range(old), Append(changes, c), Apply(to, c))
    BY <1>1, EffectGrows
<1>3. Apply(to, c) \in SUBSET Entries
    BY AppliedStays
<1>4. OnePerPath(Apply(to, c))
    BY <1>1, AppliedOnce
<1>5. ContentsOf(Apply(to, c)) = ContentsOf(Apply(mixed, c))
    BY <1>1, AppliedContents
<1> QED
    BY <1>2, <1>3, <1>4, <1>5 DEF Makes

LEMMA RemovedRound ==
    ASSUME GroupNumbers, NEW old, NEW new, Sorted(old), Sorted(new),
           NEW i \in 1 .. Len(old), NEW j \in 1 .. Len(new) + 1, Between(old, new, i, j),
           j <= Len(new) => old[i].path < new[j].path
    PROVE  /\ Between(old, new, i + 1, j)
           /\ Apply(Mixed(old, new, i, j), RemovedEntry(old[i])) = Mixed(old, new, i + 1, j)
<1>1. /\ Len(old) \in Nat /\ Len(new) \in Nat
      /\ \A k \in 1 .. Len(old) : old[k].path \in Int
      /\ \A k \in 1 .. Len(new) : new[k].path \in Int
      /\ \A k, l \in 1 .. Len(old) : k < l => old[k].path < old[l].path
      /\ \A k, l \in 1 .. Len(new) : k < l => new[k].path < new[l].path
    BY SortedFacts
<1>2. ASSUME NEW k \in 1 .. (i + 1) - 1, NEW l \in j .. Len(new) PROVE old[k].path < new[l].path
    <2>1. CASE k = i
        <3>1. j \in 1 .. Len(new) /\ l \in 1 .. Len(new) /\ old[i].path < new[j].path
            BY <1>1
        <3>2. j = l \/ new[j].path < new[l].path
            BY <1>1, <3>1
        <3> QED
            BY <1>1, <2>1, <3>1, <3>2
    <2>2. CASE k # i
        <3>1. k \in 1 .. i - 1
            BY <2>2
        <3> QED
            BY <3>1 DEF Between
    <2> QED
        BY <2>1, <2>2
<1>3. ASSUME NEW k \in i + 1 .. Len(old), NEW l \in 1 .. j - 1 PROVE new[l].path < old[k].path
    <2>1. k \in i .. Len(old)
        BY <1>1
    <2> QED
        BY <2>1 DEF Between
<1>4. Between(old, new, i + 1, j)
    BY <1>2, <1>3 DEF Between
<1>5. \A l \in 1 .. j - 1 : new[l].path # old[i].path
    <2>1. i \in i .. Len(old)
        BY <1>1
    <2>2. \A l \in 1 .. j - 1 : l \in 1 .. Len(new) /\ new[l].path < old[i].path
        BY <1>1, <2>1 DEF Between
    <2> QED
        BY <1>1, <2>2
<1>6. \A k \in i + 1 .. Len(old) : k \in i .. Len(old) /\ old[k].path # old[i].path
    <2>1. \A k \in i + 1 .. Len(old) : k \in i .. Len(old) /\ k \in 1 .. Len(old) /\ i < k
        BY <1>1
    <2> QED
        BY <1>1, <2>1
<1>7. \A k \in i .. Len(old) : k = i \/ k \in i + 1 .. Len(old)
    BY <1>1
<1>8. \A known : Apply(known, RemovedEntry(old[i])) = {e \in known : e.path # old[i].path}
    BY DEF Apply, RemovedEntry
<1>9. {e \in Mixed(old, new, i, j) : e.path # old[i].path} = Mixed(old, new, i + 1, j)
    <2>1. ASSUME NEW e \in Mixed(old, new, i, j), e.path # old[i].path
          PROVE  e \in Mixed(old, new, i + 1, j)
        BY <1>7, <2>1 DEF Mixed
    <2>2. ASSUME NEW e \in Mixed(old, new, i + 1, j)
          PROVE  e \in Mixed(old, new, i, j) /\ e.path # old[i].path
        BY <1>5, <1>6, <2>2 DEF Mixed
    <2> QED
        BY <2>1, <2>2
<1> QED
    BY <1>4, <1>8, <1>9

(* The new list goes on by an entry that the old one has not, or has with   *)
(* another hash.                                                            *)
LEMMA AddedRound ==
    ASSUME GroupNumbers, NEW old, NEW new, Sorted(old), Sorted(new),
           NEW i \in 1 .. Len(old) + 1, NEW j \in 1 .. Len(new), Between(old, new, i, j),
           i <= Len(old) => new[j].path < old[i].path,
           NEW c, c.entry = new[j], c.change # "Removed"
    PROVE  /\ Between(old, new, i, j + 1)
           /\ Apply(Mixed(old, new, i, j), c) = Mixed(old, new, i, j + 1)
<1>1. /\ Len(old) \in Nat /\ Len(new) \in Nat
      /\ \A k \in 1 .. Len(old) : old[k].path \in Int
      /\ \A k \in 1 .. Len(new) : new[k].path \in Int
      /\ \A k, l \in 1 .. Len(old) : k < l => old[k].path < old[l].path
      /\ \A k, l \in 1 .. Len(new) : k < l => new[k].path < new[l].path
    BY SortedFacts
<1>2. ASSUME NEW k \in i .. Len(old), NEW l \in 1 .. (j + 1) - 1 PROVE new[l].path < old[k].path
    <2>1. CASE l = j
        <3>1. i \in 1 .. Len(old) /\ k \in 1 .. Len(old) /\ new[j].path < old[i].path
            BY <1>1
        <3>2. i = k \/ old[i].path < old[k].path
            BY <1>1, <3>1
        <3> QED
            BY <1>1, <2>1, <3>1, <3>2
    <2>2. CASE l # j
        <3>1. l \in 1 .. j - 1
            BY <2>2
        <3> QED
            BY <3>1 DEF Between
    <2> QED
        BY <2>1, <2>2
<1>3. ASSUME NEW k \in 1 .. i - 1, NEW l \in j + 1 .. Len(new) PROVE old[k].path < new[l].path
    <2>1. l \in j .. Len(new)
        BY <1>1
    <2> QED
        BY <2>1 DEF Between
<1>4. Between(old, new, i, j + 1)
    BY <1>2, <1>3 DEF Between
<1>5. \A l \in 1 .. j - 1 : l \in 1 .. (j + 1) - 1 /\ new[l].path # new[j].path
    <2>1. \A l \in 1 .. j - 1 : l \in 1 .. (j + 1) - 1 /\ l \in 1 .. Len(new) /\ l < j
        BY <1>1
    <2> QED
        BY <1>1, <2>1
<1>6. \A k \in i .. Len(old) : old[k].path # new[j].path
    <2>1. \A k \in i .. Len(old) : k \in 1 .. Len(old) /\ new[j].path < old[k].path
        <3>1. j \in 1 .. (j + 1) - 1
            BY <1>1
        <3> QED
            BY <1>1, <1>2, <3>1
    <2> QED
        BY <1>1, <2>1
<1>7. j \in 1 .. (j + 1) - 1 /\ \A l \in 1 .. (j + 1) - 1 : l = j \/ l \in 1 .. j - 1
    BY <1>1
<1>8. \A known : Apply(known, c) = {e \in known : e.path # new[j].path} \cup {new[j]}
    BY DEF Apply
<1>9. {e \in Mixed(old, new, i, j) : e.path # new[j].path} \cup {new[j]} = Mixed(old, new, i, j + 1)
    <2>1. ASSUME NEW e \in Mixed(old, new, i, j), e.path # new[j].path
          PROVE  e \in Mixed(old, new, i, j + 1)
        BY <1>5, <2>1 DEF Mixed
    <2>2. new[j] \in Mixed(old, new, i, j + 1)
        BY <1>7 DEF Mixed
    <2>3. ASSUME NEW e \in Mixed(old, new, i, j + 1), e # new[j]
          PROVE  e \in Mixed(old, new, i, j) /\ e.path # new[j].path
        BY <1>5, <1>6, <1>7, <2>3 DEF Mixed
    <2> QED
        BY <2>1, <2>2, <2>3
<1> QED
    BY <1>4, <1>8, <1>9

(* Both lists go on by an entry with the same path.                         *)
LEMMA CommonRound ==
    ASSUME GroupNumbers, NEW old, NEW new, Sorted(old), Sorted(new),
           NEW i \in 1 .. Len(old), NEW j \in 1 .. Len(new), Between(old, new, i, j),
           old[i].path = new[j].path
    PROVE  /\ Between(old, new, i + 1, j + 1)
           /\ Apply(Mixed(old, new, i, j), ModifiedEntry(new[j])) = Mixed(old, new, i + 1, j + 1)
           /\ old[i].hash = new[j].hash =>
                 ContentsOf(Mixed(old, new, i, j)) = ContentsOf(Mixed(old, new, i + 1, j + 1))
<1>1. /\ Len(old) \in Nat /\ Len(new) \in Nat
      /\ \A k \in 1 .. Len(old) : old[k].path \in Int
      /\ \A k \in 1 .. Len(new) : new[k].path \in Int
      /\ \A k, l \in 1 .. Len(old) : k < l => old[k].path < old[l].path
      /\ \A k, l \in 1 .. Len(new) : k < l => new[k].path < new[l].path
      /\ old[i] \in Entries /\ new[j] \in Entries
    BY SortedFacts
<1>2. ASSUME NEW k \in 1 .. (i + 1) - 1, NEW l \in j + 1 .. Len(new) PROVE old[k].path < new[l].path
    <2>1. CASE k = i
        <3>1. l \in 1 .. Len(new) /\ j < l
            BY <1>1
        <3> QED
            BY <1>1, <2>1, <3>1
    <2>2. CASE k # i
        <3>1. k \in 1 .. i - 1 /\ l \in j .. Len(new)
            BY <1>1, <2>2
        <3> QED
            BY <3>1 DEF Between
    <2> QED
        BY <2>1, <2>2
<1>3. ASSUME NEW k \in i + 1 .. Len(old), NEW l \in 1 .. (j + 1) - 1 PROVE new[l].path < old[k].path
    <2>1. CASE l = j
        <3>1. k \in 1 .. Len(old) /\ i < k
            BY <1>1
        <3> QED
            BY <1>1, <2>1, <3>1
    <2>2. CASE l # j
        <3>1. l \in 1 .. j - 1 /\ k \in i .. Len(old)
            BY <1>1, <2>2
        <3> QED
            BY <3>1 DEF Between
    <2> QED
        BY <2>1, <2>2
<1>4. Between(old, new, i + 1, j + 1)
    BY <1>2, <1>3 DEF Between
<1>5. \A l \in 1 .. j - 1 : l \in 1 .. (j + 1) - 1 /\ new[l].path # new[j].path
    <2>1. \A l \in 1 .. j - 1 : l \in 1 .. (j + 1) - 1 /\ l \in 1 .. Len(new) /\ l < j
        BY <1>1
    <2> QED
        BY <1>1, <2>1
<1>6. \A k \in i + 1 .. Len(old) : k \in i .. Len(old) /\ old[k].path # old[i].path
    <2>1. \A k \in i + 1 .. Len(old) : k \in i .. Len(old) /\ k \in 1 .. Len(old) /\ i < k
        BY <1>1
    <2> QED
        BY <1>1, <2>1
<1>7. /\ j \in 1 .. (j + 1) - 1 /\ \A l \in 1 .. (j + 1) - 1 : l = j \/ l \in 1 .. j - 1
      /\ i \in i .. Len(old) /\ \A k \in i .. Len(old) : k = i \/ k \in i + 1 .. Len(old)
    BY <1>1
<1>8. \A known : Apply(known, ModifiedEntry(new[j])) = {e \in known : e.path # new[j].path} \cup {new[j]}
    BY DEF Apply, ModifiedEntry
<1>9. {e \in Mixed(old, new, i, j) : e.path # new[j].path} \cup {new[j]}
          = Mixed(old, new, i + 1, j + 1)
    <2>1. ASSUME NEW e \in Mixed(old, new, i, j), e.path # new[j].path
          PROVE  e \in Mixed(old, new, i + 1, j + 1)
        BY <1>5, <1>7, <2>1 DEF Mixed
    <2>2. new[j] \in Mixed(old, new, i + 1, j + 1)
        BY <1>7 DEF Mixed
    <2>3. ASSUME NEW e \in Mixed(old, new, i + 1, j + 1), e # new[j]
          PROVE  e \in Mixed(old, new, i, j) /\ e.path # new[j].path
        BY <1>5, <1>6, <1>7, <2>3 DEF Mixed
    <2> QED
        BY <2>1, <2>2, <2>3
<1>10. ASSUME old[i].hash = new[j].hash
       PROVE  ContentsOf(Mixed(old, new, i, j)) = ContentsOf(Mixed(old, new, i + 1, j + 1))
    <2>1. ASSUME NEW e \in Mixed(old, new, i, j)
          PROVE  \E f \in Mixed(old, new, i + 1, j + 1) : f.path = e.path /\ f.hash = e.hash
        <3>1. CASE e = old[i]
            <4>1. new[j] \in Mixed(old, new, i + 1, j + 1)
                BY <1>7 DEF Mixed
            <4> QED
                BY <1>10, <3>1, <4>1
        <3>2. CASE e # old[i]
            <4>1. e \in Mixed(old, new, i + 1, j + 1)
                BY <1>5, <1>7, <2>1, <3>2 DEF Mixed
            <4> QED
                BY <4>1
        <3> QED
            BY <3>1, <3>2
    <2>2. ASSUME NEW e \in Mixed(old, new, i + 1, j + 1)
          PROVE  \E f \in Mixed(old, new, i, j) : f.path = e.path /\ f.hash = e.hash
        <3>1. CASE e = new[j]
            <4>1. old[i] \in Mixed(old, new, i, j)
                BY <1>7 DEF Mixed
            <4> QED
                BY <1>10, <3>1, <4>1
        <3>2. CASE e # new[j]
            <4>1. e \in Mixed(old, new, i, j)
                BY <1>6, <1>7, <2>2, <3>2 DEF Mixed
            <4> QED
                BY <4>1
        <3> QED
            BY <3>1, <3>2
    <2> QED
        BY <2>1, <2>2 DEF ContentsOf
<1> QED
    BY <1>4, <1>8, <1>9, <1>10

(* One round: the mix goes on to the next entries, until both lists are at  *)
(* their end.                                                               *)
WalkDone(old, new, w) == w.i = Len(old) + 1 /\ w.j = Len(new) + 1

LEMMA RoundFits ==
    ASSUME GroupNumbers, NEW old, NEW new, Sorted(old), Sorted(new),
           NEW w \in Walks, WalkFits(old, new, w)
    PROVE  /\ DiffRound(old, new, w) \in Walks /\ WalkFits(old, new, DiffRound(old, new, w))
           /\ ~WalkDone(old, new, w) =>
                 DiffRound(old, new, w).i + DiffRound(old, new, w).j > w.i + w.j
           /\ WalkDone(old, new, w) => DiffRound(old, new, w) = w
<1>1. PICK ahead : ahead = DiffRound(old, new, w)
    OBVIOUS
<1>2. PICK i, j, changes : i = w.i /\ j = w.j /\ changes = w.changes
    OBVIOUS
<1>3. /\ i \in 1 .. Len(old) + 1 /\ j \in 1 .. Len(new) + 1 /\ changes \in Seq(Changes)
      /\ Between(old, new, i, j) /\ Makes(old, changes, Mixed(old, new, i, j))
      /\ Mixed(old, new, i, j) \in SUBSET Entries
    BY <1>2, MixedEntries DEF WalkFits, Walks
<1>4. /\ Len(old) \in Nat /\ Len(new) \in Nat
      /\ \A k \in 1 .. Len(old) : old[k] \in Entries /\ old[k].path \in Int
      /\ \A k \in 1 .. Len(new) : new[k] \in Entries /\ new[k].path \in Int
    BY SortedFacts
<1>5. \A e \in Entries : {AddedEntry(e), RemovedEntry(e), ModifiedEntry(e)} \subseteq Changes
    BY DEF AddedEntry, RemovedEntry, ModifiedEntry, Changes
<1>6. ASSUME NEW ii \in 1 .. Len(old) + 1, NEW jj \in 1 .. Len(new) + 1,
             NEW ch \in Seq(Changes), ahead = [i |-> ii, j |-> jj, changes |-> ch],
             Between(old, new, ii, jj), Makes(old, ch, Mixed(old, new, ii, jj)),
             ii + jj > i + j
      PROVE  ahead \in Walks /\ WalkFits(old, new, ahead) /\ ahead.i + ahead.j > w.i + w.j
    <2>1. ii \in Nat /\ jj \in Nat
        BY <1>4
    <2>2. ahead.i = ii /\ ahead.j = jj /\ ahead.changes = ch /\ ahead \in Walks
        BY <1>6, <2>1 DEF Walks
    <2> QED
        BY <1>2, <1>6, <2>2 DEF WalkFits
<1>7. ASSUME i <= Len(old), j <= Len(new) => old[i].path < new[j].path
      PROVE  ahead \in Walks /\ WalkFits(old, new, ahead) /\ ahead.i + ahead.j > w.i + w.j
    <2>1. i \in 1 .. Len(old) /\ i + 1 \in 1 .. Len(old) + 1 /\ (i + 1) + j > i + j
        <3>1. i \in Int /\ j \in Int
            BY <1>3, <1>4
        <3>2. i \in 1 .. Len(old) /\ i + 1 \in 1 .. Len(old) + 1
            BY <1>3, <1>4, <1>7
        <3> QED
            BY <3>1, <3>2
    <2>2. ahead = [i |-> i + 1, j |-> j, changes |-> Append(changes, RemovedEntry(old[i]))]
        BY <1>1, <1>2, <1>7 DEF DiffRound
    <2>3. /\ Between(old, new, i + 1, j)
          /\ Apply(Mixed(old, new, i, j), RemovedEntry(old[i])) = Mixed(old, new, i + 1, j)
        BY <1>3, <1>7, <2>1, RemovedRound
    <2>4. RemovedEntry(old[i]) \in Changes
        BY <1>4, <1>5, <2>1
    <2>5. Makes(old, Append(changes, RemovedEntry(old[i])), Mixed(old, new, i + 1, j))
        BY <1>3, <2>3, <2>4, MakesMore
    <2>6. Append(changes, RemovedEntry(old[i])) \in Seq(Changes)
        BY <1>3, <2>4
    <2> QED
        BY <1>3, <1>6, <2>1, <2>2, <2>3, <2>5, <2>6
<1>8. ASSUME j <= Len(new), i <= Len(old) => new[j].path < old[i].path
      PROVE  ahead \in Walks /\ WalkFits(old, new, ahead) /\ ahead.i + ahead.j > w.i + w.j
    <2>1. j \in 1 .. Len(new) /\ j + 1 \in 1 .. Len(new) + 1 /\ i + (j + 1) > i + j
        <3>1. i \in Int /\ j \in Int
            BY <1>3, <1>4
        <3>2. j \in 1 .. Len(new) /\ j + 1 \in 1 .. Len(new) + 1
            BY <1>3, <1>4, <1>8
        <3> QED
            BY <3>1, <3>2
    <2>2. ahead = [i |-> i, j |-> j + 1, changes |-> Append(changes, AddedEntry(new[j]))]
        <3>1. ~(i <= Len(old) /\ (j <= Len(new) => old[i].path < new[j].path))
            <4>1. i <= Len(old) => old[i].path \in Int
                BY <1>3, <1>4
            <4>2. new[j].path \in Int
                BY <1>4, <2>1
            <4> QED
                BY <1>8, <4>1, <4>2
        <3> QED
            BY <1>1, <1>2, <1>8, <3>1 DEF DiffRound
    <2>3. /\ Between(old, new, i, j + 1)
          /\ Apply(Mixed(old, new, i, j), AddedEntry(new[j])) = Mixed(old, new, i, j + 1)
        <3>1. AddedEntry(new[j]).entry = new[j] /\ AddedEntry(new[j]).change # "Removed"
            BY DEF AddedEntry
        <3> QED
            BY <1>3, <1>8, <2>1, <3>1, AddedRound
    <2>4. AddedEntry(new[j]) \in Changes
        BY <1>4, <1>5, <2>1
    <2>5. Makes(old, Append(changes, AddedEntry(new[j])), Mixed(old, new, i, j + 1))
        BY <1>3, <2>3, <2>4, MakesMore
    <2>6. Append(changes, AddedEntry(new[j])) \in Seq(Changes)
        BY <1>3, <2>4
    <2> QED
        BY <1>3, <1>6, <2>1, <2>2, <2>3, <2>5, <2>6
<1>9. ASSUME i <= Len(old), j <= Len(new), old[i].path = new[j].path
      PROVE  ahead \in Walks /\ WalkFits(old, new, ahead) /\ ahead.i + ahead.j > w.i + w.j
    <2>1. /\ i \in 1 .. Len(old) /\ i + 1 \in 1 .. Len(old) + 1
          /\ j \in 1 .. Len(new) /\ j + 1 \in 1 .. Len(new) + 1 /\ (i + 1) + (j + 1) > i + j
        <3>1. /\ i \in 1 .. Len(old) /\ i + 1 \in 1 .. Len(old) + 1
              /\ j \in 1 .. Len(new) /\ j + 1 \in 1 .. Len(new) + 1
            BY <1>3, <1>4, <1>9
        <3>2. i \in Int /\ j \in Int
            BY <1>3, <1>4
        <3> QED
            BY <3>1, <3>2
    <2>2. PICK ch : ch = IF old[i].hash # new[j].hash
                         THEN Append(changes, ModifiedEntry(new[j])) ELSE changes
        OBVIOUS
    <2>3. ahead = [i |-> i + 1, j |-> j + 1, changes |-> ch]
        <3>1. ~(old[i].path < new[j].path) /\ ~(new[j].path < old[i].path)
            <4>1. old[i].path \in Int /\ new[j].path \in Int
                BY <1>4, <2>1
            <4> QED
                BY <1>9, <4>1
        <3> QED
            BY <1>1, <1>2, <1>9, <2>2, <3>1 DEF DiffRound
    <2>4. /\ Between(old, new, i + 1, j + 1)
          /\ Apply(Mixed(old, new, i, j), ModifiedEntry(new[j])) = Mixed(old, new, i + 1, j + 1)
          /\ old[i].hash = new[j].hash =>
                ContentsOf(Mixed(old, new, i, j)) = ContentsOf(Mixed(old, new, i + 1, j + 1))
        BY <1>3, <1>9, <2>1, CommonRound
    <2>5. ModifiedEntry(new[j]) \in Changes
        BY <1>4, <1>5, <2>1
    <2>6. Makes(old, Append(changes, ModifiedEntry(new[j])), Mixed(old, new, i + 1, j + 1))
        BY <1>3, <2>4, <2>5, MakesMore
    <2>7. ch \in Seq(Changes) /\ Makes(old, ch, Mixed(old, new, i + 1, j + 1))
        <3>1. CASE old[i].hash # new[j].hash
            BY <1>3, <2>2, <2>5, <2>6, <3>1
        <3>2. CASE old[i].hash = new[j].hash
            BY <1>3, <2>2, <2>4, <3>2 DEF Makes
        <3> QED
            BY <3>1, <3>2
    <2> QED
        BY <1>6, <2>1, <2>3, <2>4, <2>7
<1>10. CASE WalkDone(old, new, w)
    <2>1. ~(i <= Len(old)) /\ ~(j <= Len(new))
        BY <1>2, <1>4, <1>10 DEF WalkDone
    <2>2. ahead = w
        BY <1>1, <1>2, <2>1 DEF DiffRound
    <2> QED
        BY <1>1, <1>10, <2>2
<1>11. CASE ~WalkDone(old, new, w)
    <2>1. i <= Len(old) \/ j <= Len(new)
        BY <1>2, <1>3, <1>4, <1>11 DEF WalkDone
    <2>2. \/ i <= Len(old) /\ (j <= Len(new) => old[i].path < new[j].path)
          \/ j <= Len(new) /\ (i <= Len(old) => new[j].path < old[i].path)
          \/ i <= Len(old) /\ j <= Len(new) /\ old[i].path = new[j].path
        <3>1. i <= Len(old) => old[i].path \in Int
            BY <1>3, <1>4
        <3>2. j <= Len(new) => new[j].path \in Int
            BY <1>3, <1>4
        <3> QED
            BY <2>1, <3>1, <3>2
    <2> QED
        BY <1>1, <1>7, <1>8, <1>9, <1>11, <2>2
<1> QED
    BY <1>10, <1>11

(* The difference of two sorted lists makes the contents of the one out of  *)
(* the other.                                                               *)
LEMMA DiffWorks ==
    ASSUME GroupNumbers, NEW old, NEW new, Sorted(old), Sorted(new), OnePerPath(Range(old))
    PROVE  Diff(old, new) \in Seq(Changes) /\ Makes(old, Diff(old, new), Range(new))
<1>1. Len(old) \in Nat /\ Len(new) \in Nat /\ DOMAIN old = 1 .. Len(old)
      /\ DOMAIN new = 1 .. Len(new) /\ \A k \in 1 .. Len(old) : old[k] \in Entries
    BY SortedFacts
<1>2. PICK last \in Nat : last = Len(old) + Len(new)
    BY <1>1
<1> DEFINE s == [i |-> 1, j |-> 1, changes |-> <<>>]
           A == {w \in Walks : WalkFits(old, new, w)}
           h == [w \in A |-> DiffRound(old, new, w)]
           rounds(f) == [n \in 0 .. last |-> IF n = 0 THEN s ELSE DiffRound(old, new, f[n - 1])]
           walk == CHOOSE f : f = rounds(f)
<1>3. s \in A
    <2>1. s \in Walks /\ s.i = 1 /\ s.j = 1 /\ s.changes = <<>>
        BY DEF Walks
    <2>2. Between(old, new, 1, 1)
        BY <1>1 DEF Between
    <2>3. Mixed(old, new, 1, 1) = Range(old)
        <3>1. 1 .. 1 - 1 = {}
            OBVIOUS
        <3> QED
            BY <1>1, <3>1 DEF Mixed, Range
    <2>4. Range(old) \in SUBSET Entries
        BY <1>1 DEF Range
    <2>5. Effect(Range(old), <<>>, Range(old))
        <3>1. PICK run : run = [n \in 0 .. 0 |-> Range(old)]
            OBVIOUS
        <3>2. run \in [0 .. 0 -> SUBSET Entries] /\ run[0] = Range(old)
            BY <2>4, <3>1
        <3>3. Len(<<>>) = 0 /\ 1 .. 0 = {}
            OBVIOUS
        <3> QED
            BY <3>2, <3>3 DEF Effect
    <2>6. 1 \in 1 .. Len(old) + 1 /\ 1 \in 1 .. Len(new) + 1
        BY <1>1
    <2>7. Makes(old, <<>>, Range(old))
        BY <2>4, <2>5 DEF Makes
    <2> HIDE DEF s
    <2> QED
        BY <2>1, <2>2, <2>3, <2>6, <2>7 DEF WalkFits
<1>4. h \in [A -> A]
    <2>1. \A w \in A : DiffRound(old, new, w) \in A
        BY RoundFits
    <2> HIDE DEF A
    <2> QED
        BY <2>1
<1>5. PICK f \in [0 .. last -> A] : IsRun(f, h, s, last)
    <2> HIDE DEF s, h, A
    <2> QED
        BY <1>3, <1>4, Iterates
<1>6. f[0] = s /\ \A n \in 1 .. last : f[n] = DiffRound(old, new, f[n - 1])
    <2>1. ASSUME NEW n \in 1 .. last PROVE f[n] = DiffRound(old, new, f[n - 1])
        <3>1. n - 1 \in 0 .. last /\ f[n - 1] \in A
            BY <1>5
        <3>2. f[n] = h[f[n - 1]]
            BY <1>5 DEF IsRun
        <3> HIDE DEF A
        <3> QED
            BY <3>1, <3>2
    <2> QED
        BY <1>5, <2>1 DEF IsRun
<1>7. f = rounds(f)
    <2>1. ASSUME NEW n \in 0 .. last
          PROVE  f[n] = IF n = 0 THEN s ELSE DiffRound(old, new, f[n - 1])
        <3>1. n = 0 \/ n \in 1 .. last
            OBVIOUS
        <3> HIDE DEF s
        <3> QED
            BY <1>6, <3>1
    <2> HIDE DEF s, A
    <2> QED
        BY <1>5, <2>1
<1>8. Diff(old, new) = walk[last].changes
    BY <1>2, Zenon DEF Diff
<1>9. walk = rounds(walk)
    <2> HIDE DEF rounds
    <2> QED
        BY <1>7
<1> HIDE DEF walk, h
<1>10. walk[0] = s /\ \A n \in 1 .. last : walk[n] = DiffRound(old, new, walk[n - 1])
    <2> HIDE DEF s
    <2>1. 0 \in 0 .. last /\ \A n \in 1 .. last : n \in 0 .. last /\ n # 0
        OBVIOUS
    <2> QED
        BY <1>9, <2>1
<1> HIDE DEF rounds
<1> DEFINE Far(n) == /\ walk[n] \in A
                     /\ WalkDone(old, new, walk[n]) \/ walk[n].i + walk[n].j >= n + 2
           S == {n \in 0 .. last : Far(n)}
<1>11. 0 \in S
    <2>1. s.i = 1 /\ s.j = 1
        OBVIOUS
    <2> HIDE DEF s, A
    <2> QED
        BY <1>3, <1>10, <2>1
<1>12. ASSUME NEW n \in 1 .. last, n - 1 \in S PROVE n \in S
    <2>1. PICK w : w = walk[n - 1]
        OBVIOUS
    <2>2. w \in Walks /\ WalkFits(old, new, w) /\ walk[n] = DiffRound(old, new, w)
          /\ (WalkDone(old, new, w) \/ w.i + w.j >= (n - 1) + 2)
        BY <1>10, <1>12, <2>1
    <2>3. /\ walk[n] \in Walks /\ WalkFits(old, new, walk[n])
          /\ ~WalkDone(old, new, w) => walk[n].i + walk[n].j > w.i + w.j
          /\ WalkDone(old, new, w) => walk[n] = w
        BY <2>2, RoundFits
    <2>4. w.i \in Nat /\ w.j \in Nat /\ walk[n].i \in Nat /\ walk[n].j \in Nat
        BY <2>2, <2>3 DEF Walks
    <2>5. WalkDone(old, new, walk[n]) \/ walk[n].i + walk[n].j >= n + 2
        <3>1. CASE WalkDone(old, new, w)
            BY <2>3, <3>1
        <3>2. CASE ~WalkDone(old, new, w)
            BY <2>2, <2>3, <2>4, <3>2
        <3> QED
            BY <3>1, <3>2
    <2>6. n \in 0 .. last
        OBVIOUS
    <2> QED
        BY <2>3, <2>5, <2>6
<1>13. last \in S
    <2> HIDE DEF S
    <2>1. \A n \in 0 .. last : n \in S
        BY <1>11, <1>12, ByNumber, ZenonT(30)
    <2> QED
        BY <2>1
<1>14. PICK w : w = walk[last]
    OBVIOUS
<1>15. w \in Walks /\ WalkFits(old, new, w)
       /\ (WalkDone(old, new, w) \/ w.i + w.j >= last + 2)
    BY <1>13, <1>14
<1>16. w.i = Len(old) + 1 /\ w.j = Len(new) + 1 /\ w.changes \in Seq(Changes)
       /\ Makes(old, w.changes, Mixed(old, new, w.i, w.j))
    <2>1. w.i \in 1 .. Len(old) + 1 /\ w.j \in 1 .. Len(new) + 1
        BY <1>15 DEF WalkFits
    <2>2. w.i = Len(old) + 1 /\ w.j = Len(new) + 1
        BY <1>1, <1>2, <1>15, <2>1 DEF WalkDone
    <2> QED
        BY <1>15, <2>2 DEF Walks, WalkFits
<1>17. Mixed(old, new, w.i, w.j) = Range(new)
    <2>1. (Len(new) + 1) - 1 = Len(new) /\ (Len(old) + 1) .. Len(old) = {}
        BY <1>1
    <2> QED
        BY <1>1, <1>16, <2>1 DEF Mixed, Range
<1> QED
    BY <1>8, <1>14, <1>16, <1>17

(* What holds of the copies at any time.  The plan of a mirror is still a   *)
(* plan for its manifest: every file that matches the policy is as it says, *)
(* or a step is left that makes it so; and no step is about another file.   *)
Steps == [do : {"Download", "Delete"}, entry : Entries]

PlanTypes == [version : Nat, failed : BOOLEAN, actions : SUBSET Steps]

Published(list) == Sorted(list) /\ OnePerPath(Range(list))

PlanIsFor(files, broken, actions, entries) ==
    /\ \A a \in actions : /\ a.entry.path \in Prefix
                          /\ a.do = "Download" => a.entry \in entries
                          /\ a.do = "Delete" => a.entry.path \notin PathsOf(entries)
    /\ ~broken =>
          /\ \A e \in entries : e.path \in Prefix =>
                HasContent(files, e) \/ \E a \in actions : a.do = "Download" /\ a.entry = e
          /\ \A f \in files : f.path \in Prefix =>
                HasContent(entries, f) \/ \E a \in actions : a.entry.path = f.path

PlanFits(files, plan, published) ==
    \/ plan.version = 0 /\ plan.actions = {}
    \/ /\ plan.version \in 1 .. Len(published)
       /\ PlanIsFor(files, plan.failed, plan.actions, Range(published[plan.version]))

SyncSafe ==
    /\ manifests \in Seq(Seq(Entries)) /\ \A v \in 1 .. Len(manifests) : Published(manifests[v])
    /\ Published(view)
    /\ \/ viewed = 0
       \/ /\ viewed \in 1 .. Len(manifests)
          /\ ContentsOf(Range(view)) = ContentsOf(Range(manifests[viewed]))
    /\ local \in [GroupMirrors -> SUBSET Entries] /\ plans \in [GroupMirrors -> PlanTypes]
    /\ \A m \in GroupMirrors : /\ OnePerPath(local[m])
                               /\ PlanFits(local[m], plans[m], manifests)

LEMMA SyncStarts ==
    ASSUME GroupNumbers, SyncInit
    PROVE  SyncSafe
<1>1. /\ manifests = <<>> /\ view = <<>> /\ viewed = 0
      /\ plans = [m \in GroupMirrors |-> NoPlan]
      /\ local \in [GroupMirrors -> {files \in SUBSET Entries : OnePerPath(files)}]
    <2>1. local \in [GroupMirrors ->
              {files \in SUBSET {e \in Entries : e.info = NoTorrent} : OnePerPath(files)}]
        BY DEF SyncInit
    <2> QED
        BY <2>1 DEF SyncInit
<1>2. NoPlan \in PlanTypes /\ NoPlan.version = 0 /\ NoPlan.actions = {}
    BY DEF NoPlan, PlanTypes
<1>3. <<>> \in Seq(Seq(Entries)) /\ Len(<<>>) = 0 /\ 1 .. 0 = {}
    OBVIOUS
<1>4. \A m \in GroupMirrors : plans[m] = NoPlan /\ OnePerPath(local[m])
    BY <1>1
<1>5. local \in [GroupMirrors -> SUBSET Entries] /\ plans \in [GroupMirrors -> PlanTypes]
    BY <1>1, <1>2
<1>6. Published(view)
    <2>1. view \in Seq(Entries) /\ Len(view) = 0 /\ DOMAIN view = {}
        BY <1>1
    <2> QED
        BY <2>1 DEF Published, Sorted, Ascending, OnePerPath, Range
<1> QED
    BY <1>1, <1>2, <1>3, <1>4, <1>5, <1>6 DEF SyncSafe, PlanFits

LEMMA PublishStaysSafe ==
    ASSUME GroupNumbers, SyncSafe, NEW entries \in SUBSET Entries, PublishManifest(entries)
    PROVE  SyncSafe'
<1>1. PICK list : list = InOrder(entries)
    OBVIOUS
<1>2. /\ OnePerPath(entries) /\ manifests' = Append(manifests, list)
      /\ UNCHANGED <<local, plans, view, viewed>>
    BY <1>1 DEF PublishManifest
<1>3. list \in Seq(Entries) /\ Published(list)
    <2>1. list \in Seq(Entries) /\ Range(list) = entries /\ Ascending(list)
        BY <1>1, <1>2, InOrderIs
    <2> QED
        BY <1>1, <1>2, <2>1 DEF Published, Sorted
<1>4. manifests \in Seq(Seq(Entries)) /\ Len(manifests) \in Nat
    BY DEF SyncSafe
<1>5. /\ manifests' \in Seq(Seq(Entries)) /\ Len(manifests') = Len(manifests) + 1
      /\ \A v \in 1 .. Len(manifests) : manifests'[v] = manifests[v]
      /\ manifests'[Len(manifests) + 1] = list
    BY <1>2, <1>3, <1>4
<1>6. /\ \A v \in 1 .. Len(manifests) : v \in 1 .. Len(manifests')
      /\ \A v \in 1 .. Len(manifests') : v \in 1 .. Len(manifests) \/ v = Len(manifests) + 1
    BY <1>4, <1>5
<1>7. \A v \in 1 .. Len(manifests') : Published(manifests'[v])
    BY <1>3, <1>5, <1>6 DEF SyncSafe
<1>8. /\ Published(view')
      /\ \/ viewed' = 0
         \/ /\ viewed' \in 1 .. Len(manifests')
            /\ ContentsOf(Range(view')) = ContentsOf(Range(manifests'[viewed']))
    BY <1>2, <1>5, <1>6 DEF SyncSafe
<1>9. ASSUME NEW m \in GroupMirrors
      PROVE  OnePerPath(local'[m]) /\ PlanFits(local'[m], plans'[m], manifests')
    <2>1. OnePerPath(local[m]) /\ PlanFits(local[m], plans[m], manifests)
        BY DEF SyncSafe
    <2>2. PlanFits(local[m], plans[m], manifests')
        BY <1>5, <1>6, <2>1 DEF PlanFits
    <2> QED
        BY <1>2, <2>1, <2>2
<1> QED
    BY <1>2, <1>5, <1>7, <1>8, <1>9 DEF SyncSafe

LEMMA FollowStaysSafe ==
    ASSUME GroupNumbers, SyncSafe, NEW v, Follow(v)
    PROVE  SyncSafe'
<1>1. /\ v \in DOMAIN manifests /\ view' = Patched(view, Diff(view, manifests[v]))
      /\ viewed' = v /\ UNCHANGED <<manifests, local, plans>>
    BY DEF Follow
<1>2. v \in 1 .. Len(manifests)
    BY <1>1 DEF SyncSafe
<1>3. Published(manifests[v]) /\ Sorted(manifests[v])
    BY <1>2 DEF SyncSafe, Published
<1>4. Sorted(view) /\ OnePerPath(Range(view))
    BY DEF SyncSafe, Published
<1>5. PICK diff : diff = Diff(view, manifests[v])
    OBVIOUS
<1>6. diff \in Seq(Changes) /\ Makes(view, diff, Range(manifests[v]))
    BY <1>3, <1>4, <1>5, DiffWorks
<1>7. PICK to \in SUBSET Entries : /\ Effect(Range(view), diff, to) /\ OnePerPath(to)
                                  /\ ContentsOf(to) = ContentsOf(Range(manifests[v]))
    BY <1>6 DEF Makes
<1>8. view' = InOrder(to)
    BY <1>1, <1>5, <1>6, <1>7, PatchedIs
<1>9. Published(view') /\ ContentsOf(Range(view')) = ContentsOf(Range(manifests[v]))
    <2>1. InOrder(to) \in Seq(Entries) /\ Range(InOrder(to)) = to /\ Ascending(InOrder(to))
        BY <1>7, InOrderIs
    <2> QED
        BY <1>7, <1>8, <2>1 DEF Published, Sorted
<1> QED
    BY <1>1, <1>2, <1>9 DEF SyncSafe

(* The rest is about one mirror.                                            *)
LEMMA OneMirror ==
    ASSUME SyncSafe, NEW m \in GroupMirrors, NEW files \in SUBSET Entries, NEW plan \in PlanTypes,
           OnePerPath(files), PlanFits(files, plan, manifests),
           local' = [local EXCEPT ![m] = files], plans' = [plans EXCEPT ![m] = plan],
           UNCHANGED <<manifests, view, viewed>>
    PROVE  SyncSafe'
<1>1. /\ local \in [GroupMirrors -> SUBSET Entries] /\ plans \in [GroupMirrors -> PlanTypes]
    BY DEF SyncSafe
<1>2. /\ local' \in [GroupMirrors -> SUBSET Entries] /\ plans' \in [GroupMirrors -> PlanTypes]
      /\ local'[m] = files /\ plans'[m] = plan
      /\ \A k \in GroupMirrors : k # m => local'[k] = local[k] /\ plans'[k] = plans[k]
    BY <1>1
<1>3. ASSUME NEW k \in GroupMirrors
      PROVE  OnePerPath(local'[k]) /\ PlanFits(local'[k], plans'[k], manifests)
    <2>1. CASE k = m
        BY <1>2, <2>1
    <2>2. CASE k # m
        BY <1>2, <2>2 DEF SyncSafe
    <2> QED
        BY <2>1, <2>2
<1> QED
    BY <1>2, <1>3 DEF SyncSafe

(* A new plan is one for its manifest.                                      *)
LEMMA PlanSyncPlans ==
    ASSUME NEW files \in SUBSET Entries, NEW remote, Range(remote) \subseteq Entries,
           OnePerPath(files)
    PROVE  /\ PlanSync(files, remote) \in SUBSET Steps
           /\ PlanIsFor(files, FALSE, PlanSync(files, remote), Range(remote))
<1>1. PICK entries : entries = Range(remote)
    OBVIOUS
<1>2. PICK actions : actions = PlanSync(files, remote)
    OBVIOUS
<1>3. \A e \in Entries : /\ [do |-> "Download", entry |-> e] \in Steps
                         /\ [do |-> "Delete", entry |-> e] \in Steps
    BY DEF Steps
<1>4. \A a \in actions :
          \/ \E e \in entries : /\ a = [do |-> "Download", entry |-> e]
                                /\ e.path \in Prefix /\ ~HasContent(files, e)
          \/ \E e \in files : /\ a = [do |-> "Delete", entry |-> e]
                              /\ e.path \in Prefix /\ e.path \notin PathsOf(entries)
    BY <1>1, <1>2 DEF PlanSync
<1>5. \A e \in entries : e.path \in Prefix /\ ~HasContent(files, e) =>
          [do |-> "Download", entry |-> e] \in actions
    BY <1>1, <1>2 DEF PlanSync
<1>6. \A f \in files : f.path \in Prefix /\ f.path \notin PathsOf(entries) =>
          [do |-> "Delete", entry |-> f] \in actions
    BY <1>1, <1>2 DEF PlanSync
<1>7. actions \in SUBSET Steps
    <2>1. entries \subseteq Entries
        BY <1>1
    <2> QED
        BY <1>3, <1>4, <2>1
<1>8. ASSUME NEW a \in actions
      PROVE  /\ a.entry.path \in Prefix
             /\ a.do = "Download" => a.entry \in entries
             /\ a.do = "Delete" => a.entry.path \notin PathsOf(entries)
    BY <1>4
<1>9. ASSUME NEW e \in entries, e.path \in Prefix
      PROVE  HasContent(files, e) \/ \E a \in actions : a.do = "Download" /\ a.entry = e
    BY <1>5, <1>9
<1>10. ASSUME NEW f \in files, f.path \in Prefix
       PROVE  HasContent(entries, f) \/ \E a \in actions : a.entry.path = f.path
    <2>1. CASE f.path \notin PathsOf(entries)
        BY <1>6, <1>10, <2>1
    <2>2. CASE f.path \in PathsOf(entries)
        <3>1. PICK e \in entries : e.path = f.path
            BY <2>2 DEF PathsOf
        <3>2. CASE HasContent(files, e)
            BY <1>10, <3>1, <3>2 DEF HasContent, OnePerPath
        <3>3. CASE ~HasContent(files, e)
            BY <1>5, <1>10, <3>1, <3>3
        <3> QED
            BY <3>2, <3>3
    <2> QED
        BY <2>1, <2>2
<1>11. PlanIsFor(files, FALSE, actions, entries)
    BY <1>8, <1>9, <1>10 DEF PlanIsFor
<1> QED
    BY <1>1, <1>2, <1>7, <1>11

LEMMA PlanStaysSafe ==
    ASSUME GroupNumbers, SyncSafe, NEW m \in GroupMirrors, NEW v, Plan(m, v)
    PROVE  SyncSafe'
<1>1. PICK actions : actions = PlanSync(local[m], manifests[v])
    OBVIOUS
<1>2. PICK plan : plan = [version |-> v, failed |-> FALSE, actions |-> actions]
    OBVIOUS
<1>3. /\ v \in DOMAIN manifests /\ plans' = [plans EXCEPT ![m] = plan]
      /\ UNCHANGED <<manifests, local, view, viewed>>
    BY <1>1, <1>2 DEF Plan
<1>4. v \in 1 .. Len(manifests) /\ v \in Nat
    BY <1>3 DEF SyncSafe
<1>5. local[m] \in SUBSET Entries /\ OnePerPath(local[m]) /\ local' = [local EXCEPT ![m] = local[m]]
    <2>1. local \in [GroupMirrors -> SUBSET Entries] /\ OnePerPath(local[m])
        BY DEF SyncSafe
    <2> QED
        BY <1>3, <2>1
<1>6. Range(manifests[v]) \subseteq Entries
    <2>1. manifests[v] \in Seq(Entries)
        BY <1>4 DEF SyncSafe
    <2> QED
        BY <2>1 DEF Range
<1>7. /\ actions \in SUBSET Steps
      /\ PlanIsFor(local[m], FALSE, actions, Range(manifests[v]))
    BY <1>1, <1>5, <1>6, PlanSyncPlans
<1>8. plan \in PlanTypes /\ PlanFits(local[m], plan, manifests)
    <2>1. plan \in PlanTypes
        BY <1>2, <1>4, <1>7 DEF PlanTypes
    <2>2. plan.version = v /\ plan.failed = FALSE /\ plan.actions = actions
        BY <1>2
    <2> QED
        BY <1>4, <1>7, <2>1, <2>2 DEF PlanFits
<1> QED
    BY <1>3, <1>5, <1>8, OneMirror

LEMMA RestartStaysSafe ==
    ASSUME SyncSafe, NEW m \in GroupMirrors, MirrorRestarts(m)
    PROVE  SyncSafe'
<1>1. plans' = [plans EXCEPT ![m] = NoPlan] /\ UNCHANGED <<manifests, local, view, viewed>>
    BY DEF MirrorRestarts
<1>2. local[m] \in SUBSET Entries /\ OnePerPath(local[m]) /\ local' = [local EXCEPT ![m] = local[m]]
    <2>1. local \in [GroupMirrors -> SUBSET Entries] /\ OnePerPath(local[m])
        BY DEF SyncSafe
    <2> QED
        BY <1>1, <2>1
<1>3. NoPlan \in PlanTypes /\ PlanFits(local[m], NoPlan, manifests)
    BY DEF NoPlan, PlanTypes, PlanFits
<1> QED
    BY <1>1, <1>2, <1>3, OneMirror

(* What is known of the steps that are left.                                *)
LEMMA StepsLeft ==
    ASSUME SyncSafe, NEW m \in GroupMirrors, NEW a \in plans[m].actions
    PROVE  /\ plans[m] \in PlanTypes /\ a \in Steps
           /\ local[m] \in SUBSET Entries /\ OnePerPath(local[m])
           /\ plans[m].version \in 1 .. Len(manifests)
           /\ OnePerPath(Range(manifests[plans[m].version]))
           /\ PlanIsFor(local[m], plans[m].failed, plans[m].actions,
                        Range(manifests[plans[m].version]))
<1>1. plans[m] \in PlanTypes /\ local[m] \in SUBSET Entries
    BY DEF SyncSafe
<1>2. PlanFits(local[m], plans[m], manifests) /\ OnePerPath(local[m])
    BY DEF SyncSafe
<1>3. a \in Steps
    BY <1>1 DEF PlanTypes
<1>4. /\ plans[m].version \in 1 .. Len(manifests)
      /\ PlanIsFor(local[m], plans[m].failed, plans[m].actions,
                   Range(manifests[plans[m].version]))
    BY <1>2 DEF PlanFits
<1>5. OnePerPath(Range(manifests[plans[m].version]))
    BY <1>4 DEF SyncSafe, Published
<1> QED
    BY <1>1, <1>2, <1>3, <1>4, <1>5

(* A step carried out: what it was left for is done, and what others were   *)
(* left for is not undone.                                                  *)
After(files, a) == {e \in files : e.path # a.entry.path}
                      \cup (IF a.do = "Download" THEN {a.entry} ELSE {})

LEMMA CarriedOut ==
    ASSUME NEW files \in SUBSET Entries, OnePerPath(files), NEW actions, NEW broken,
           NEW entries, OnePerPath(entries), PlanIsFor(files, broken, actions, entries),
           NEW a \in actions, a \in Steps, NEW left, left = After(files, a)
    PROVE  /\ left \in SUBSET Entries /\ OnePerPath(left)
           /\ PlanIsFor(left, broken, actions \ {a}, entries)
           /\ {e \in left : e.path \notin Prefix} = {e \in files : e.path \notin Prefix}
<1>1. a.do \in {"Download", "Delete"} /\ a.entry \in Entries
    BY DEF Steps
<1>2. /\ a.entry.path \in Prefix /\ (a.do = "Download" => a.entry \in entries)
      /\ (a.do = "Delete" => a.entry.path \notin PathsOf(entries))
    BY DEF PlanIsFor
<1>3. /\ \A e : e \in left <=> \/ e \in files /\ e.path # a.entry.path
                               \/ a.do = "Download" /\ e = a.entry
    BY DEF After
<1>4. left \in SUBSET Entries /\ OnePerPath(left)
    BY <1>1, <1>3 DEF OnePerPath
<1>5. {e \in left : e.path \notin Prefix} = {e \in files : e.path \notin Prefix}
    BY <1>2, <1>3
<1>6. ASSUME ~broken, NEW e \in entries, e.path \in Prefix
      PROVE  HasContent(left, e) \/ \E b \in actions \ {a} : b.do = "Download" /\ b.entry = e
    <2>1. HasContent(files, e) \/ \E b \in actions : b.do = "Download" /\ b.entry = e
        BY <1>6 DEF PlanIsFor
    <2>2. CASE HasContent(files, e)
        <3>1. CASE e.path # a.entry.path
            BY <1>3, <2>2, <3>1 DEF HasContent
        <3>2. CASE e.path = a.entry.path
            <4>1. a.do = "Download"
                BY <1>1, <1>2, <3>2 DEF PathsOf
            <4>2. e = a.entry
                BY <1>2, <3>2, <4>1 DEF OnePerPath
            <4> QED
                BY <1>3, <4>1, <4>2 DEF HasContent
        <3> QED
            BY <3>1, <3>2
    <2>3. CASE \E b \in actions : b.do = "Download" /\ b.entry = e
        <3>1. PICK b \in actions : b.do = "Download" /\ b.entry = e
            BY <2>3
        <3>2. CASE b = a
            BY <1>3, <3>1, <3>2 DEF HasContent
        <3>3. CASE b # a
            BY <3>1, <3>3
        <3> QED
            BY <3>2, <3>3
    <2> QED
        BY <2>1, <2>2, <2>3
<1>7. ASSUME ~broken, NEW f \in left, f.path \in Prefix
      PROVE  HasContent(entries, f) \/ \E b \in actions \ {a} : b.entry.path = f.path
    <2>1. CASE a.do = "Download" /\ f = a.entry
        BY <1>2, <2>1 DEF HasContent
    <2>2. CASE f \in files /\ f.path # a.entry.path
        <3>1. HasContent(entries, f) \/ \E b \in actions : b.entry.path = f.path
            BY <1>7, <2>2 DEF PlanIsFor
        <3> QED
            BY <2>2, <3>1
    <2> QED
        BY <1>3, <2>1, <2>2
<1>8. PlanIsFor(left, broken, actions \ {a}, entries)
    BY <1>6, <1>7 DEF PlanIsFor
<1> QED
    BY <1>4, <1>5, <1>8

LEMMA CarryOutStaysSafe ==
    ASSUME SyncSafe, NEW m \in GroupMirrors, NEW a, CarryOut(m, a)
    PROVE  /\ SyncSafe'
           /\ \A k \in GroupMirrors : {e \in local[k] : e.path \notin Prefix}
                                        = {e \in local'[k] : e.path \notin Prefix}
<1>1. PICK left : left = After(local[m], a)
    OBVIOUS
<1>2. PICK plan : plan = [plans[m] EXCEPT !.actions = @ \ {a}]
    OBVIOUS
<1>3. local \in [GroupMirrors -> SUBSET Entries] /\ plans \in [GroupMirrors -> PlanTypes]
    BY DEF SyncSafe
<1>4. /\ a \in plans[m].actions /\ local' = [local EXCEPT ![m] = left]
      /\ plans' = [plans EXCEPT ![m] = plan] /\ UNCHANGED <<manifests, view, viewed>>
    <2>1. plans' = [plans EXCEPT ![m].actions = @ \ {a}]
        BY DEF CarryOut
    <2> QED
        BY <1>1, <1>2, <1>3, <2>1 DEF CarryOut, After
<1>5. /\ plans[m] \in PlanTypes /\ a \in Steps
      /\ local[m] \in SUBSET Entries /\ OnePerPath(local[m])
      /\ plans[m].version \in 1 .. Len(manifests)
      /\ OnePerPath(Range(manifests[plans[m].version]))
      /\ PlanIsFor(local[m], plans[m].failed, plans[m].actions,
                   Range(manifests[plans[m].version]))
    BY <1>4, StepsLeft
<1>6. plan \in PlanTypes /\ plan.version = plans[m].version /\ plan.failed = plans[m].failed
      /\ plan.actions = plans[m].actions \ {a}
    BY <1>2, <1>5 DEF PlanTypes
<1>7. /\ left \in SUBSET Entries /\ OnePerPath(left)
      /\ PlanIsFor(left, plans[m].failed, plans[m].actions \ {a},
                   Range(manifests[plans[m].version]))
      /\ {e \in left : e.path \notin Prefix} = {e \in local[m] : e.path \notin Prefix}
    <2>1. PICK files, broken, actions, entries :
              /\ files = local[m] /\ broken = plans[m].failed /\ actions = plans[m].actions
              /\ entries = Range(manifests[plans[m].version])
        OBVIOUS
    <2>2. /\ files \in SUBSET Entries /\ OnePerPath(files)
          /\ OnePerPath(entries) /\ PlanIsFor(files, broken, actions, entries)
          /\ a \in actions /\ a \in Steps /\ left = After(files, a)
        BY <1>1, <1>4, <1>5, <1>6, <2>1
    <2>3. /\ left \in SUBSET Entries /\ OnePerPath(left)
          /\ PlanIsFor(left, broken, actions \ {a}, entries)
          /\ {e \in left : e.path \notin Prefix} = {e \in files : e.path \notin Prefix}
        BY <2>2, CarriedOut
    <2> QED
        BY <2>1, <2>3
<1>8. PlanFits(left, plan, manifests)
    BY <1>5, <1>6, <1>7 DEF PlanFits
<1>9. SyncSafe'
    BY <1>4, <1>6, <1>7, <1>8, OneMirror
<1>10. ASSUME NEW k \in GroupMirrors
       PROVE  {e \in local[k] : e.path \notin Prefix} = {e \in local'[k] : e.path \notin Prefix}
    <2>1. local'[m] = left /\ (k # m => local'[k] = local[k])
        BY <1>3, <1>4
    <2> QED
        BY <1>7, <2>1
<1> QED
    BY <1>9, <1>10

LEMMA StepFailsStaysSafe ==
    ASSUME SyncSafe, NEW m \in GroupMirrors, NEW a, StepFails(m, a)
    PROVE  SyncSafe'
<1>1. PICK less : less = [plans[m] EXCEPT !.actions = @ \ {a}]
    OBVIOUS
<1>2. PICK plan : plan = [less EXCEPT !.failed = TRUE]
    OBVIOUS
<1>3. local \in [GroupMirrors -> SUBSET Entries] /\ plans \in [GroupMirrors -> PlanTypes]
    BY DEF SyncSafe
<1>4. a \in plans[m].actions /\ UNCHANGED <<manifests, local, view, viewed>>
      /\ plans' = [plans EXCEPT ![m] = plan]
    <2>1. plans' = [plans EXCEPT ![m].actions = @ \ {a}, ![m].failed = TRUE]
        BY DEF StepFails
    <2> QED
        BY <1>1, <1>2, <1>3, <2>1 DEF StepFails
<1>5. /\ plans[m] \in PlanTypes
      /\ local[m] \in SUBSET Entries /\ OnePerPath(local[m])
      /\ plans[m].version \in 1 .. Len(manifests)
      /\ PlanIsFor(local[m], plans[m].failed, plans[m].actions,
                   Range(manifests[plans[m].version]))
    BY <1>4, StepsLeft
<1>6. less \in PlanTypes /\ less.version = plans[m].version
      /\ less.actions = plans[m].actions \ {a}
    BY <1>1, <1>5 DEF PlanTypes
<1>7. plan \in PlanTypes /\ plan.version = plans[m].version /\ plan.failed = TRUE
      /\ plan.actions = plans[m].actions \ {a}
    BY <1>2, <1>6 DEF PlanTypes
<1>8. PlanFits(local[m], plan, manifests)
    <2>1. PlanIsFor(local[m], TRUE, plans[m].actions \ {a}, Range(manifests[plans[m].version]))
        BY <1>5 DEF PlanIsFor
    <2> QED
        BY <1>5, <1>7, <2>1 DEF PlanFits
<1>9. local' = [local EXCEPT ![m] = local[m]]
    BY <1>3, <1>4
<1> QED
    BY <1>4, <1>5, <1>7, <1>8, <1>9, OneMirror

LEMMA SafeCopiesAgree ==
    ASSUME SyncSafe
    PROVE  CopiesAgree
<1>1. viewed # 0 => /\ OnePerPath(Range(view))
                    /\ ContentsOf(Range(view)) = ContentsOf(Range(manifests[viewed]))
    BY DEF SyncSafe, Published
<1>2. ASSUME NEW m \in GroupMirrors,
             plans[m].version # 0, ~plans[m].failed, plans[m].actions = {}
      PROVE  ContentsOf({e \in local[m] : e.path \in Prefix})
                = ContentsOf({e \in Range(manifests[plans[m].version]) : e.path \in Prefix})
    <2>1. PlanIsFor(local[m], plans[m].failed, plans[m].actions,
                    Range(manifests[plans[m].version]))
        <3>1. PlanFits(local[m], plans[m], manifests)
            BY DEF SyncSafe
        <3> QED
            BY <1>2, <3>1 DEF PlanFits
    <2>2. PICK files, entries : files = local[m] /\ entries = Range(manifests[plans[m].version])
        OBVIOUS
    <2>3. /\ \A e \in entries : e.path \in Prefix => HasContent(files, e)
          /\ \A f \in files : f.path \in Prefix => HasContent(entries, f)
        BY <1>2, <2>1, <2>2 DEF PlanIsFor
    <2>4. ContentsOf({e \in files : e.path \in Prefix})
             = ContentsOf({e \in entries : e.path \in Prefix})
        BY <2>3 DEF ContentsOf, HasContent
    <2> QED
        BY <2>2, <2>4
<1> QED
    BY <1>1, <1>2 DEF CopiesAgree

LEMMA SyncStepsAreSafe ==
    ASSUME GroupNumbers, SyncSafe, [SyncNext]_syncVars
    PROVE  /\ SyncSafe'
           /\ \A m \in GroupMirrors : {e \in local[m] : e.path \notin Prefix}
                                        = {e \in local'[m] : e.path \notin Prefix}
<1>1. ASSUME NEW entries \in SUBSET Entries, PublishManifest(entries)
      PROVE  SyncSafe' /\ local' = local
    BY <1>1, PublishStaysSafe DEF PublishManifest
<1>2. ASSUME NEW v, Follow(v)
      PROVE  SyncSafe' /\ local' = local
    BY <1>2, FollowStaysSafe DEF Follow
<1>3. ASSUME NEW v, NEW m \in GroupMirrors, Plan(m, v)
      PROVE  SyncSafe' /\ local' = local
    BY <1>3, PlanStaysSafe DEF Plan
<1>4. ASSUME NEW m \in GroupMirrors, MirrorRestarts(m)
      PROVE  SyncSafe' /\ local' = local
    BY <1>4, RestartStaysSafe DEF MirrorRestarts
<1>5. ASSUME NEW m \in GroupMirrors, NEW a, StepFails(m, a)
      PROVE  SyncSafe' /\ local' = local
    BY <1>5, StepFailsStaysSafe DEF StepFails
<1>6. ASSUME NEW m \in GroupMirrors, NEW a, CarryOut(m, a)
      PROVE  /\ SyncSafe'
             /\ \A k \in GroupMirrors : {e \in local[k] : e.path \notin Prefix}
                                          = {e \in local'[k] : e.path \notin Prefix}
    BY <1>6, CarryOutStaysSafe
<1>7. CASE UNCHANGED syncVars
    BY <1>7 DEF syncVars, SyncSafe
<1>8. CASE SyncNext
    BY <1>1, <1>2, <1>3, <1>4, <1>5, <1>6, <1>8 DEF SyncNext
<1> QED
    BY <1>7, <1>8

(* The copies of a catalogue follow it: a plan that was carried out without *)
(* a failure has left what its manifest says of the files that match the    *)
(* policy, a viewer has the files of the manifest it went to, and a plan    *)
(* never touches a file of the user's own.  Info hashes are not compared,   *)
(* and may be those of an earlier manifest.                                 *)
THEOREM CopiesFollow == SyncSpec => FollowersAreFaithful
<1> SUFFICES ASSUME GroupNumbers PROVE SyncSpec => FollowersAreFaithful
    BY SyncAssumption DEF GroupNumbers
<1>1. SyncInit => SyncSafe
    BY SyncStarts
<1>2. SyncSafe /\ [SyncNext]_syncVars => SyncSafe'
    BY SyncStepsAreSafe
<1>3. SyncSafe => CopiesAgree
    BY SafeCopiesAgree
<1>4. SyncSafe /\ [SyncNext]_syncVars =>
          \A m \in GroupMirrors : {e \in local[m] : e.path \notin Prefix}
                                    = {e \in local'[m] : e.path \notin Prefix}
    BY SyncStepsAreSafe
<1>5. SyncSafe /\ SyncSafe' /\ [SyncNext]_syncVars /\ (SyncSafe' => CopiesAgree') =>
          [/\ CopiesAgree'
           /\ \A m \in GroupMirrors : {e \in local[m] : e.path \notin Prefix}
                                        = {e \in local'[m] : e.path \notin Prefix}]_syncVars
    BY <1>4
<1> QED
    BY <1>1, <1>2, <1>3, <1>5, PTL DEF SyncSpec, FollowersAreFaithful
=============================================================================
