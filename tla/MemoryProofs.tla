---------------------------- MODULE MemoryProofs ----------------------------
(***************************************************************************)
(* Theorems about what p2p-distribute remembers of others and of itself,   *)
(* for any people, mirrors, thresholds and times: GroupRoster (group.rs,   *)
(* credential.rs), PeerMemory (peer_stats.rs, resume.rs), MirrorHealth     *)
(* (mirror_health.rs) and DownloadStates (state.rs); about what a run of a *)
(* recipe leaves on the disk: RecipeRun (executor/mod.rs); and about what  *)
(* a player reads of a file that still arrives: ByteRanges (streaming.rs)  *)
(* and StreamingReader (reader.rs).                                        *)
(***************************************************************************)
EXTENDS GroupRoster, PeerMemory, MirrorHealth, DownloadStates, RecipeRun,
        StreamingReader, FiniteSetTheorems, SequenceTheorems, WellFoundedInduction, TLAPS

(* Of everyone, a role or none, and for how long.                           *)
RolesTyped ==
    /\ role \in [People -> Roles \cup {"None"}]
    /\ unchanged \in [People -> Nat]

Credential == [subject : People, role : Roles, left : Int]

(* A credential that shows a role its subject no longer has is older than   *)
(* the change.                                                              *)
OlderThanTheChange ==
    \A c \in credentials :
        /\ c \in Credential /\ c.left <= Lifetime
        /\ role[c.subject] = c.role \/ unchanged[c.subject] <= Lifetime - c.left

RosterInv == RolesTyped /\ OneMaster /\ OlderThanTheChange

(* The roles before and after a step, and what is remembered of them: a     *)
(* change starts the time afresh.                                           *)
RolesMove ==
    /\ role' \in [People -> Roles \cup {"None"}]
    /\ unchanged' \in [People -> Nat]
    /\ \A p \in People : \/ role'[p] = role[p] /\ unchanged'[p] = unchanged[p]
                         \/ unchanged'[p] = 0

-----------------------------------------------------------------------------
(* The initial group has its founder for master and no credentials.         *)
LEMMA RosterInitHolds == RosterInit => RosterInv
<1> SUFFICES ASSUME RosterInit PROVE RosterInv
    OBVIOUS
<1>1. LongAgo \in Nat
    BY RosterAssumption DEF LongAgo
<1>2. RolesTyped
    BY <1>1, RosterAssumption DEF RosterInit, RolesTyped, Roles
<1>3. OneMaster
    BY RosterAssumption DEF RosterInit, OneMaster
<1>4. OlderThanTheChange
    BY DEF RosterInit, OlderThanTheChange
<1> QED
    BY <1>2, <1>3, <1>4 DEF RosterInv

(* Every operation of GroupRoster (group.rs) keeps one master, and restarts *)
(* the clock of those whose role it changes.                                *)
LEMMA RoleSteps ==
    ASSUME RosterInv, NEW actor \in People, NEW p \in People,
           \/ RemoveMember(actor, p) \/ TransferMaster(actor, p)
           \/ \E r \in Roles : AddMember(actor, p, r) \/ ChangeRole(actor, p, r)
    PROVE  RolesMove /\ OneMaster' /\ UNCHANGED credentials
<1> USE DEF RosterInv, RolesTyped, RolesMove, OneMaster
<1>1. CASE RemoveMember(actor, p)
    BY <1>1 DEF RemoveMember
<1>2. CASE TransferMaster(actor, p)
    BY <1>2 DEF TransferMaster, Roles
<1>3. ASSUME NEW r \in Roles, AddMember(actor, p, r)
      PROVE  RolesMove /\ OneMaster' /\ UNCHANGED credentials
    BY <1>3 DEF AddMember, Members
<1>4. ASSUME NEW r \in Roles, ChangeRole(actor, p, r)
      PROVE  RolesMove /\ OneMaster' /\ UNCHANGED credentials
    BY <1>4 DEF ChangeRole
<1> QED
    BY <1>1, <1>2, <1>3, <1>4

(* What is issued shows the role its subject has.                           *)
LEMMA IssueStep ==
    ASSUME RosterInv, NEW p \in People, Issue(p)
    PROVE  RosterInv'
<1> DEFINE new == [subject |-> p, role |-> role[p], left |-> Lifetime]
<1>1. new \in Credential
    BY RosterAssumption DEF RosterInv, RolesTyped, Credential, Issue, Members
<1>2. OlderThanTheChange'
    BY <1>1, RosterAssumption DEF RosterInv, OlderThanTheChange, Issue
<1> QED
    BY <1>2 DEF RosterInv, RolesTyped, OneMaster, Issue

(* Credentials and the time since a change grow old together.               *)
LEMMA SecondStep ==
    ASSUME RosterInv, RosterSecond
    PROVE  RosterInv'
<1>1. LongAgo \in Nat
    BY RosterAssumption DEF LongAgo
<1>2. RolesTyped' /\ \A p \in People : unchanged'[p] <= unchanged[p] + 1
    BY <1>1 DEF RosterInv, RolesTyped, RosterSecond
<1>3. OlderThanTheChange'
  <2> SUFFICES ASSUME NEW c \in credentials'
               PROVE  /\ c \in Credential /\ c.left <= Lifetime
                      /\ role[c.subject] = c.role \/ unchanged'[c.subject] <= Lifetime - c.left
      BY DEF OlderThanTheChange, RosterSecond
  <2>1. PICK d \in credentials : c = [d EXCEPT !.left = @ - 1]
      BY DEF RosterSecond
  <2>2. /\ d \in Credential /\ d.left <= Lifetime
        /\ role[d.subject] = d.role \/ unchanged[d.subject] <= Lifetime - d.left
      BY DEF RosterInv, OlderThanTheChange
  <2>3. c = [subject |-> d.subject, role |-> d.role, left |-> d.left - 1]
      BY <2>1, <2>2 DEF Credential
  <2> QED
      BY <1>2, <2>2, <2>3, RosterAssumption DEF Credential, RosterInv, RolesTyped
<1> QED
    BY <1>2, <1>3 DEF RosterInv, OneMaster, RosterSecond

(* The invariant is inductive.                                              *)
LEMMA RosterStepHolds == RosterInv /\ [RosterNext]_rosterVars => RosterInv'
<1> SUFFICES ASSUME RosterInv, [RosterNext]_rosterVars PROVE RosterInv'
    OBVIOUS
<1>1. CASE UNCHANGED rosterVars
    BY <1>1 DEF rosterVars, RosterInv, RolesTyped, OneMaster, OlderThanTheChange
<1>2. ASSUME NEW actor \in People, NEW p \in People,
             \/ RemoveMember(actor, p) \/ TransferMaster(actor, p)
             \/ \E r \in Roles : AddMember(actor, p, r) \/ ChangeRole(actor, p, r)
      PROVE  RosterInv'
  <2>1. RolesMove /\ OneMaster' /\ UNCHANGED credentials
      BY <1>2, RoleSteps
  <2>2. OlderThanTheChange'
      BY <2>1, RosterAssumption
      DEF RosterInv, RolesTyped, OlderThanTheChange, RolesMove, Credential
  <2> QED
      BY <2>1, <2>2 DEF RosterInv, RolesTyped, RolesMove
<1>3. ASSUME NEW p \in People, Issue(p) PROVE RosterInv'
    BY <1>3, IssueStep
<1>4. CASE RosterSecond
    BY <1>4, SecondStep
<1> QED
    BY <1>1, <1>2, <1>3, <1>4 DEF RosterNext

-----------------------------------------------------------------------------
(* At every moment exactly one member is the master (group.rs), however the *)
(* calls of members follow each other, self-transfers included.             *)
THEOREM GroupsHaveOneMaster == RosterSpec => []OneMaster
<1>1. RosterInv => OneMaster
    BY DEF RosterInv
<1> QED
    BY <1>1, RosterInitHolds, RosterStepHolds, PTL DEF RosterSpec

(* A credential (credential.rs) shows a role for at most its lifetime and   *)
(* the skew of the clocks after the role was lost.                          *)
THEOREM RolesLapse == RosterSpec => []RightsLapse
<1>1. RosterInv => RightsLapse
  <2> SUFFICES ASSUME RosterInv, NEW c \in credentials, NEW drift \in -Skew .. Skew,
                      Verifies(c, drift), role[c.subject] # c.role
               PROVE  unchanged[c.subject] < LongAgo
      BY DEF RightsLapse
  <2>1. /\ c \in Credential /\ unchanged[c.subject] <= Lifetime - c.left
        /\ unchanged[c.subject] \in Nat
      BY DEF RosterInv, OlderThanTheChange, RolesTyped, Credential
  <2> QED
      BY <2>1, RosterAssumption DEF Verifies, LongAgo, Credential
<1> QED
    BY <1>1, RosterInitHolds, RosterStepHolds, PTL DEF RosterSpec

(* Roles are sound in both ways (group.rs, credential.rs).                  *)
THEOREM RolesHold == RosterSpec => []RolesAreSound
<1>1. OneMaster /\ RightsLapse => RolesAreSound
    BY DEF RolesAreSound
<1> QED
    BY <1>1, GroupsHaveOneMaster, RolesLapse, PTL
-----------------------------------------------------------------------------
(* The .peers file.  What a session has on record of a peer is what it was  *)
(* given and what it counted itself; the file is one such sum, of now or of *)
(* before, and a save in progress is the sum of now.                        *)
Kept == [trust_level : TrustLevels, lifetime_pieces_served : Nat,
         lifetime_corruption_count : Nat, banned : BOOLEAN]
Records == Kept \cup {NoReputation}
Files == Records \cup {NoFile}

OnRecord == prior.lifetime_corruption_count + stats.corruption_count

Exclusions == [until : Nat, backoff : 0 .. MaxExclusion, corroborations : Nat]

PeerStats == [pieces_served : Nat, pieces_requested : Nat, corruption_count : Nat,
              last_rejection : {"none", "transient", "permanent"}, transient : Nat,
              in_parole : BOOLEAN, exclusion : Exclusions]

MemoryInv ==
    /\ stats \in PeerStats /\ prior \in Records /\ {pastFile, saving} \subseteq Files
    /\ ticks \in Nat /\ session \in Nat
    /\ stats.exclusion.until <= ticks + stats.exclusion.backoff
    /\ pastFile.lifetime_corruption_count <= OnRecord
    /\ saving \in Kept => saving.lifetime_corruption_count = OnRecord
    /\ saving = NoReputation => ~known

LEMMA MemoryNumbers ==
    /\ EstablishedAt \in Nat /\ TrustedAt \in Nat /\ SharedAt \in Nat /\ SubnetAt \in Nat
    /\ BaseExclusion \in Nat /\ MaxExclusion \in Nat
    /\ 1 <= BaseExclusion /\ BaseExclusion <= MaxExclusion
BY MemoryAssumption

LEMMA RecordFacts ==
    /\ NoReputation \notin Kept /\ Torn \notin Kept /\ NoFile \notin Kept
    /\ Torn # NoReputation /\ NoFile # NoReputation /\ NoFile # Torn
    /\ NoReputation.lifetime_corruption_count = 0 /\ NoFile.lifetime_corruption_count = 0
    /\ \A r \in Files : r.lifetime_corruption_count \in Nat /\ r.lifetime_pieces_served \in Nat
    /\ NewStats \in PeerStats /\ NoExclusion \in Exclusions
    /\ NewStats.exclusion = NoExclusion /\ NewStats.corruption_count = 0
BY MemoryNumbers DEF NoReputation, Torn, NoFile, Reputation, Files, Records, Kept, TrustLevels, NewStats, PeerStats,
                     NoExclusion, Exclusions

LEMMA MemoryInitHolds == MemoryInit => MemoryInv
BY RecordFacts DEF MemoryInit, MemoryInv, OnRecord, NoExclusion, Records, Files

(* Excluded and the other events never shorten an exclusion that lasts.     *)
Lasts(s, t) ==
    IsExcluded(s) => /\ t.exclusion # NoExclusion
                     /\ t.exclusion.until >= s.exclusion.until
                     /\ t.exclusion.corroborations >= s.exclusion.corroborations

LEMMA RankGrows ==
    \A e, f \in Exclusions : f.corroborations >= e.corroborations => Rank(f) >= Rank(e)
BY MemoryNumbers DEF Rank, ExclusionScope, Exclusions

(* The statistics after an event of the session.                            *)
EventFits(t) ==
    /\ t \in PeerStats
    /\ t.exclusion.until <= ticks + t.exclusion.backoff
    /\ t.corruption_count >= stats.corruption_count
    /\ Lasts(stats, t)

(* What a step of PeerMemory must keep, apart from its own.                 *)
BlameKept ==
    /\ pastFile # NoFile =>
          /\ pastFile' \notin {NoFile, Torn}
          /\ \/ pastFile'.lifetime_corruption_count >= pastFile.lifetime_corruption_count
             \/ pastFile' = NoReputation /\ ~known
    /\ session' = session /\ IsExcluded(stats) =>
          /\ stats'.exclusion # NoExclusion
          /\ stats'.exclusion.until >= stats.exclusion.until
          /\ Rank(stats'.exclusion) >= Rank(stats.exclusion)

(* Where neither the file nor the exclusion changes, nothing is lost.       *)
LEMMA NothingMoves ==
    ASSUME MemoryInv, UNCHANGED pastFile, stats'.exclusion = stats.exclusion \/ session' # session
    PROVE  BlameKept
<1>1. /\ stats.exclusion \in Exclusions /\ stats.exclusion.until \in Nat
      /\ pastFile \in Files /\ pastFile.lifetime_corruption_count \in Nat
  BY RecordFacts DEF MemoryInv, PeerStats, Exclusions
<1>2. Rank(stats.exclusion) >= Rank(stats.exclusion)
  BY <1>1, RankGrows DEF Exclusions
<1>3. pastFile # NoFile => pastFile \notin {NoFile, Torn}
  BY <1>1, RecordFacts DEF Records, Files
<1> QED BY <1>1, <1>2, <1>3 DEF BlameKept, IsExcluded

LEMMA EventKeeps ==
    ASSUME MemoryInv, NEW t, EventFits(t), Event(t)
    PROVE  MemoryInv' /\ BlameKept
<1> USE DEF MemoryInv, EventFits, Event, Lasts
<1>1. stats \in PeerStats /\ t \in PeerStats /\ prior \in Records /\ {pastFile, saving} \subseteq Files
  OBVIOUS
<1>2. /\ stats.corruption_count \in Nat /\ t.corruption_count \in Nat
      /\ prior.lifetime_corruption_count \in Nat /\ pastFile.lifetime_corruption_count \in Nat
      /\ stats.exclusion \in Exclusions /\ t.exclusion \in Exclusions
  BY <1>1, RecordFacts DEF PeerStats, Files
<1>3. MemoryInv'
  BY <1>1, <1>2, RecordFacts DEF OnRecord
<1>4. pastFile # NoFile => pastFile' \notin {NoFile, Torn}
  BY <1>1, RecordFacts DEF Records, Files
<1> QED BY <1>1, <1>2, <1>3, <1>4, RankGrows DEF BlameKept

(* What an update of the statistics leaves alone.                           *)
LEMMA ExcludedStats ==
    \A s \in PeerStats : \A e \in Exclusions :
        LET c == [s EXCEPT !.exclusion = e]
        IN  c \in PeerStats /\ c.exclusion = e /\ c.corruption_count = s.corruption_count
BY DEF PeerStats

(* apply_exclusion ends no exclusion sooner: the time it adds is at least   *)
(* the time that the last one had when it began.                            *)
LEMMA ExclusionFits ==
    ASSUME MemoryInv
    PROVE  EventFits(Corrupted) /\ EventFits([Corrupted EXCEPT !.in_parole = TRUE])
           /\ EventFits(Excluded(Corrupted))
<1>1. /\ stats \in PeerStats /\ stats.exclusion \in Exclusions /\ ticks \in Nat
      /\ stats.exclusion.until \in Nat /\ stats.exclusion.backoff \in 0 .. MaxExclusion
      /\ stats.exclusion.corroborations \in Nat
      /\ stats.exclusion.until <= ticks + stats.exclusion.backoff
      /\ stats.corruption_count \in Nat /\ stats.pieces_requested \in Nat
  BY DEF MemoryInv, PeerStats, Exclusions
<1> DEFINE c == Corrupted
           p == [c EXCEPT !.in_parole = TRUE]
<1>2. /\ c \in PeerStats /\ c.exclusion = stats.exclusion
      /\ c.corruption_count = stats.corruption_count + 1
  <2> DEFINE a == stats.pieces_requested + 1
             b == stats.corruption_count + 1
  <2>1. a \in Nat /\ b \in Nat
    BY <1>1
  <2>2. c = [stats EXCEPT !.pieces_requested = a, !.corruption_count = b]
    BY DEF Corrupted
  <2>3. b = stats.corruption_count + 1
    OBVIOUS
  <2> HIDE DEF a, b, c
  <2> QED BY <1>1, <2>1, <2>2, <2>3 DEF PeerStats
<1> HIDE DEF c
<1>3. p \in PeerStats /\ p.exclusion = c.exclusion /\ p.corruption_count = c.corruption_count
  BY <1>2 DEF PeerStats
<1>4. EventFits(c) /\ EventFits(p)
  <2> HIDE DEF p
  <2> QED BY <1>1, <1>2, <1>3, MemoryNumbers DEF EventFits, Lasts, IsExcluded
<1>5. EventFits(Excluded(c))
  <2> DEFINE b == IF c.exclusion = NoExclusion THEN BaseExclusion
                  ELSE IF 2 * c.exclusion.backoff > MaxExclusion THEN MaxExclusion
                  ELSE 2 * c.exclusion.backoff
             u == ticks + b
             e == [c.exclusion EXCEPT !.until = u, !.backoff = b]
             x == Excluded(c)
  <2>1. b \in 0 .. MaxExclusion /\ (c.exclusion # NoExclusion => b >= c.exclusion.backoff)
    BY <1>1, <1>2, MemoryNumbers
  <2>2. x = [c EXCEPT !.exclusion = e]
    BY <1>1, <1>2 DEF Excluded, PeerStats
  <2> HIDE DEF b
  <2>3. u \in Nat /\ u >= ticks + b
    BY <1>1, <2>1, MemoryNumbers
  <2> HIDE DEF u
  <2>4. /\ e \in Exclusions /\ e.until = u /\ e.backoff = b
        /\ e.corroborations = c.exclusion.corroborations
    BY <1>1, <1>2, <2>1, <2>3 DEF Exclusions
  <2> HIDE DEF e
  <2>5. x \in PeerStats /\ x.exclusion = e /\ x.corruption_count = c.corruption_count
    BY <1>2, <2>2, <2>4, ExcludedStats
  <2> HIDE DEF x
  <2>6. Lasts(stats, x)
    <3> SUFFICES ASSUME IsExcluded(stats)
                 PROVE  /\ e # NoExclusion /\ u >= stats.exclusion.until
                        /\ e.corroborations >= stats.exclusion.corroborations
      BY <2>4, <2>5 DEF Lasts
    <3>1. c.exclusion # NoExclusion /\ ticks < stats.exclusion.until
      BY <1>2 DEF IsExcluded
    <3>2. u >= stats.exclusion.until /\ u > 0
      BY <1>1, <1>2, <2>1, <2>3, <3>1, MemoryNumbers
    <3>3. e # NoExclusion
      BY <2>4, <3>2 DEF NoExclusion
    <3> QED BY <1>1, <1>2, <2>4, <3>2, <3>3
  <2>7. x.exclusion.until <= ticks + x.exclusion.backoff
    BY <1>1, <2>1, <2>4, <2>5, MemoryNumbers DEF u
  <2> QED BY <1>1, <1>2, <2>5, <2>6, <2>7 DEF EventFits, x
<1> QED BY <1>4, <1>5 DEF c

LEMMA OtherEventsFit ==
    ASSUME MemoryInv
    PROVE  /\ EventFits([stats EXCEPT !.pieces_served = @ + 1, !.pieces_requested = @ + 1,
                                      !.transient = 0, !.in_parole = FALSE])
           /\ \A reason \in {"transient", "permanent"} :
                 EventFits([stats EXCEPT !.pieces_requested = @ + 1, !.last_rejection = reason,
                              !.transient = IF reason = "transient" THEN @ + 1 ELSE @])
           /\ EventFits([stats EXCEPT !.exclusion.corroborations = @ + 1])
<1>1. /\ stats \in PeerStats /\ stats.exclusion \in Exclusions /\ ticks \in Nat
      /\ stats.exclusion.until \in Nat /\ stats.exclusion.backoff \in 0 .. MaxExclusion
      /\ stats.exclusion.until <= ticks + stats.exclusion.backoff
      /\ stats.exclusion.corroborations \in Nat /\ stats.corruption_count \in Nat
      /\ stats.pieces_served \in Nat /\ stats.pieces_requested \in Nat /\ stats.transient \in Nat
  BY DEF MemoryInv, PeerStats, Exclusions
<1>2. \A t \in PeerStats :
         t.exclusion = stats.exclusion /\ t.corruption_count = stats.corruption_count
         => EventFits(t)
  BY <1>1 DEF EventFits, Lasts, IsExcluded
<1>3. EventFits([stats EXCEPT !.pieces_served = @ + 1, !.pieces_requested = @ + 1,
                              !.transient = 0, !.in_parole = FALSE])
  <2> DEFINE a == stats.pieces_served + 1
             b == stats.pieces_requested + 1
             t == [stats EXCEPT !.pieces_served = a, !.pieces_requested = b,
                                !.transient = 0, !.in_parole = FALSE]
  <2>1. a \in Nat /\ b \in Nat
    BY <1>1
  <2>2. t \in PeerStats /\ t.exclusion = stats.exclusion
        /\ t.corruption_count = stats.corruption_count
    <3> DEFINE half == [stats EXCEPT !.pieces_served = a, !.pieces_requested = b]
               whole == [half EXCEPT !.transient = 0, !.in_parole = FALSE]
    <3> HIDE DEF a, b
    <3>1. half \in PeerStats /\ half.exclusion = stats.exclusion
          /\ half.corruption_count = stats.corruption_count
      BY <1>1, <2>1 DEF PeerStats
    <3>2. t = whole
      BY <1>1 DEF PeerStats
    <3> HIDE DEF half, t
    <3>3. whole \in PeerStats /\ whole.exclusion = half.exclusion
          /\ whole.corruption_count = half.corruption_count
      BY <3>1 DEF PeerStats
    <3> QED BY <3>1, <3>2, <3>3
  <2> QED BY <1>2, <2>2
<1>4. ASSUME NEW reason \in {"transient", "permanent"}
      PROVE  EventFits([stats EXCEPT !.pieces_requested = @ + 1, !.last_rejection = reason,
                              !.transient = IF reason = "transient" THEN @ + 1 ELSE @])
  <2> DEFINE a == stats.pieces_requested + 1
             n == IF reason = "transient" THEN stats.transient + 1 ELSE stats.transient
             t == [stats EXCEPT !.pieces_requested = a, !.last_rejection = reason,
                                !.transient = n]
  <2>1. a \in Nat /\ n \in Nat
    BY <1>1
  <2>2. t \in PeerStats /\ t.exclusion = stats.exclusion
        /\ t.corruption_count = stats.corruption_count
    <3> HIDE DEF a, n
    <3> QED BY <1>1, <2>1 DEF PeerStats
  <2> QED BY <1>2, <2>2
<1>5. EventFits([stats EXCEPT !.exclusion.corroborations = @ + 1])
  <2> DEFINE n == stats.exclusion.corroborations + 1
             x == [stats.exclusion EXCEPT !.corroborations = n]
             t == [stats EXCEPT !.exclusion = x]
  <2>1. /\ x \in Exclusions /\ x.until = stats.exclusion.until
        /\ x.backoff = stats.exclusion.backoff
        /\ x.corroborations = stats.exclusion.corroborations + 1
    BY <1>1 DEF Exclusions
  <2>2. [stats EXCEPT !.exclusion.corroborations = @ + 1] = t
    BY <1>1 DEF PeerStats
  <2> HIDE DEF x
  <2>3. t \in PeerStats /\ t.exclusion = x /\ t.corruption_count = stats.corruption_count
    BY <1>1, <2>1, ExcludedStats
  <2>4. IsExcluded(stats) => x # NoExclusion
    BY <1>1, <2>1 DEF IsExcluded, NoExclusion
  <2> HIDE DEF t
  <2>5. EventFits(t)
    BY <1>1, <2>1, <2>3, <2>4 DEF EventFits, Lasts, IsExcluded
  <2> QED BY <2>2, <2>5
<1> QED BY <1>3, <1>4, <1>5


(* A snapshot is the sum of now, and has a trust level.                     *)
LEMMA SnapshotFits ==
    ASSUME MemoryInv
    PROVE  LET r == ToReputation(stats, prior)
           IN  r \in Kept /\ r.lifetime_corruption_count = OnRecord
<1> DEFINE level == TrustLevel(stats)
           pieces == prior.lifetime_pieces_served + stats.pieces_served
           banned == ShouldAvoidPermanently(stats)
           r == ToReputation(stats, prior)
<1>1. level \in TrustLevels
  BY DEF TrustLevel, TrustLevels
<1>2. pieces \in Nat /\ OnRecord \in Nat
  BY RecordFacts DEF MemoryInv, OnRecord, PeerStats, Files
<1>3. banned \in BOOLEAN
  BY DEF ShouldAvoidPermanently
<1>4. r = [trust_level |-> level, lifetime_pieces_served |-> pieces,
           lifetime_corruption_count |-> OnRecord, banned |-> banned]
  BY DEF ToReputation, Reputation, OnRecord
<1> HIDE DEF level, pieces, banned, r
<1> QED BY <1>1, <1>2, <1>3, <1>4 DEF Kept, r

(* register_identity does not touch an exclusion or a corruption count.     *)
LEMMA IdentityStep ==
    ASSUME MemoryInv, RegisterIdentity
    PROVE  MemoryInv' /\ BlameKept
<1>1. /\ stats \in PeerStats /\ prior \in Records /\ {pastFile, saving} \subseteq Files
      /\ ticks \in Nat /\ saving = NoFile /\ UNCHANGED <<prior, pastFile, saving, ticks, session>>
  BY DEF MemoryInv, RegisterIdentity
<1>2. prior # NoReputation => prior.trust_level \in TrustLevels
  BY <1>1 DEF Records, Kept
<1>3. /\ stats' \in PeerStats /\ stats'.exclusion = stats.exclusion
      /\ stats'.corruption_count = stats.corruption_count
  <2> DEFINE n == Threshold(prior.trust_level)
  <2>1. CASE prior = NoReputation
    BY <1>1, <2>1 DEF RegisterIdentity
  <2>2. CASE prior # NoReputation /\ prior.banned
    BY <1>1, <2>2 DEF RegisterIdentity, PeerStats
  <2>3. CASE prior # NoReputation /\ ~prior.banned
    <3>1. n \in Nat
      BY <1>2, <2>3, MemoryNumbers DEF Threshold, TrustLevels
    <3>2. stats' = [stats EXCEPT !.pieces_served = n]
      BY <2>3 DEF RegisterIdentity
    <3> HIDE DEF n
    <3> QED BY <1>1, <3>1, <3>2 DEF PeerStats
  <2> QED BY <2>1, <2>2, <2>3
<1>4. MemoryInv'
  BY <1>1, <1>3, RecordFacts DEF MemoryInv, OnRecord
<1> QED BY <1>1, <1>3, <1>4, NothingMoves

(* A crash between two steps of a save leaves the file as it was; the next  *)
(* session goes on from the corruption on record in it.                     *)
LEMMA MemoryStepHolds == MemoryInv /\ [MemoryNext]_memoryVars => MemoryInv' /\ [BlameKept]_memoryVars
<1> SUFFICES ASSUME MemoryInv, [MemoryNext]_memoryVars
             PROVE  MemoryInv' /\ [BlameKept]_memoryVars
  OBVIOUS
<1>1. /\ stats \in PeerStats /\ prior \in Records /\ {pastFile, saving} \subseteq Files
      /\ ticks \in Nat /\ session \in Nat /\ stats.exclusion \in Exclusions /\ stats.exclusion.until \in Nat
      /\ stats.exclusion.backoff \in 0 .. MaxExclusion /\ stats.corruption_count \in Nat
      /\ pastFile.lifetime_corruption_count \in Nat
      /\ prior.lifetime_corruption_count \in Nat /\ OnRecord \in Nat
  BY RecordFacts, MemoryNumbers DEF MemoryInv, PeerStats, Exclusions, OnRecord, Files
<1>2. CASE UNCHANGED memoryVars
  BY <1>2 DEF memoryVars, MemoryInv, OnRecord
<1>3. CASE RecordSuccess
  BY <1>3, OtherEventsFit, EventKeeps DEF RecordSuccess
<1>4. CASE RecordCorruption
  BY <1>4, ExclusionFits, EventKeeps DEF RecordCorruption
<1>5. CASE AddCorroboration
  BY <1>5, OtherEventsFit, EventKeeps DEF AddCorroboration
<1>6. ASSUME NEW reason \in {"transient", "permanent"}, RecordRejection(reason)
      PROVE  MemoryInv' /\ BlameKept
  BY <1>6, OtherEventsFit, EventKeeps DEF RecordRejection
<1>7. CASE MemoryTick
  <2>1. MemoryInv'
    BY <1>1, <1>7, MemoryNumbers DEF MemoryInv, MemoryTick, OnRecord
  <2> QED BY <1>7, <2>1, NothingMoves DEF MemoryTick
<1>8. CASE RegisterIdentity
  BY <1>8, IdentityStep
<1>9. CASE SnapshotAndSave
  <2>1. /\ saving' \in Files
        /\ saving' = NoReputation => ~known
        /\ saving' \in Kept => saving'.lifetime_corruption_count = OnRecord
    BY <1>9, SnapshotFits, RecordFacts DEF SnapshotAndSave, Records, Files
  <2>2. MemoryInv'
    BY <1>9, <2>1 DEF MemoryInv, SnapshotAndSave, WriteBeside, OnRecord
  <2> QED BY <1>9, <2>2, NothingMoves DEF SnapshotAndSave, WriteBeside
<1>10. CASE RenameOver
  <2>1. \/ saving \in Kept
        \/ saving = NoReputation /\ ~known
    <3>1. saving \in Files /\ saving # NoFile /\ (saving = NoReputation => ~known)
      BY <1>10 DEF MemoryInv, RenameOver
    <3> QED BY <3>1 DEF Files, Records
  <2>2. pastFile' = saving /\ saving' = NoFile /\ UNCHANGED <<stats, known, prior, ticks, session>>
    BY <1>10 DEF RenameOver
  <2>3. saving.lifetime_corruption_count = IF saving = NoReputation THEN 0 ELSE OnRecord
    BY <2>1, RecordFacts DEF MemoryInv
  <2>4. MemoryInv'
    BY <1>1, <2>1, <2>2, <2>3, RecordFacts DEF MemoryInv, OnRecord, Files
  <2>5. pastFile' \notin {NoFile, Torn}
    BY <2>1, <2>2, RecordFacts
  <2>6. \/ pastFile'.lifetime_corruption_count >= pastFile.lifetime_corruption_count
        \/ pastFile' = NoReputation /\ ~known
    BY <1>1, <2>1, <2>2, <2>3 DEF MemoryInv
  <2>7. Rank(stats.exclusion) >= Rank(stats.exclusion)
    BY <1>1, RankGrows DEF Exclusions
  <2> QED BY <1>1, <2>2, <2>4, <2>5, <2>6, <2>7 DEF BlameKept, IsExcluded
<1>12. CASE SaveFails
  <2>1. MemoryInv'
    BY <1>1, <1>12, RecordFacts DEF MemoryInv, SaveFails, OnRecord, Files
  <2> QED BY <1>12, <2>1, NothingMoves DEF SaveFails
<1>11. CASE NextSession
  <2>1. session' # session /\ session' \in Nat
    BY <1>1, <1>11 DEF NextSession
  <2>2. MemoryInv'
    <3>1. /\ prior' \in Records
          /\ prior'.lifetime_corruption_count = pastFile.lifetime_corruption_count
      BY <1>1, <1>11, RecordFacts DEF NextSession, Records, Files
    <3>2. /\ stats' \in PeerStats /\ stats'.corruption_count = 0 /\ ticks' = 0
          /\ stats'.exclusion.until <= ticks' + stats'.exclusion.backoff
      BY <1>11, RecordFacts DEF NextSession, NoExclusion
    <3>3. OnRecord' = pastFile.lifetime_corruption_count
      BY <1>1, <3>1, <3>2 DEF OnRecord
    <3> QED
      BY <1>1, <1>11, <2>1, <3>1, <3>2, <3>3, RecordFacts DEF MemoryInv, NextSession, Files
  <2> QED BY <1>11, <2>1, <2>2, NothingMoves DEF NextSession
<1> QED
  BY <1>2, <1>3, <1>4, <1>5, <1>6, <1>7, <1>8, <1>9, <1>10, <1>11, <1>12 DEF MemoryNext

(* What is held against a peer (peer_stats.rs, resume.rs) is not made less  *)
(* by a crash or an error in any step of a save, by the next session or by  *)
(* a shorter exclusion on top of a longer one; only the save of a session   *)
(* that never met the peer drops its record.                                *)
THEOREM BlameHolds == MemorySpec => BlameIsKept
<1>1. MemoryInv /\ [MemoryNext]_memoryVars => [BlameKept]_memoryVars
  BY MemoryStepHolds
<1>2. MemoryInv /\ [MemoryNext]_memoryVars => MemoryInv'
  BY MemoryStepHolds
<1> QED BY <1>1, <1>2, MemoryInitHolds, PTL DEF MemorySpec, BlameIsKept, BlameKept

-----------------------------------------------------------------------------
(* The phases of a download: what can be paused, and what a pause remembers. *)
Calm == {Plain(is) : is \in {"Queued", "Downloading", "Seeding", "Error", "Completed"}}
            \cup {Checking(progress) : progress \in 0 .. MaxProgress}

StatesInv ==
    /\ before \in Calm
    /\ \/ state = before
       \/ state = Paused(before) /\ ~IsOver(before)
    /\ before.is \in {"Downloading", "Seeding", "Completed"} => began

LEMMA PhaseFacts ==
    /\ \A s : Paused(s).is = "Paused" /\ Paused(s).previous = s
    /\ \A is : Plain(is).is = is
    /\ \A n : Checking(n).is = "Checking"
BY DEF Plain, Checking, Paused

LEMMA CalmFacts ==
    /\ \A s \in Calm : s.is # "Paused" /\ (s.is = "Downloading" => s = Plain("Downloading"))
    /\ \A n \in 0 .. MaxProgress : Checking(n) \in Calm
    /\ {Plain("Queued"), Plain("Downloading"), Plain("Seeding"),
        Plain("Error"), Plain("Completed")} \subseteq Calm
BY PhaseFacts DEF Calm

(* What a step of DownloadStates must keep, apart from its own.             *)
KeepsOrder ==
    /\ state.is = "Paused" /\ state'.is # "Paused" /\ ~IsOver(state') => state' = before
    /\ state'.is \in {"Seeding", "Completed"} => began
    /\ IsOver(state) => state'.is \in {state.is, "Error"}

LEMMA StatesInitHolds == StatesInit => StatesInv
BY CalmFacts, PhaseFacts DEF StatesInit, StatesInv

LEMMA StatesStepHolds == StatesInv /\ [StatesNext]_stateVars => StatesInv' /\ [KeepsOrder]_stateVars
<1> SUFFICES ASSUME StatesInv, [StatesNext]_stateVars
             PROVE  StatesInv' /\ [KeepsOrder]_stateVars
  OBVIOUS
<1> USE PhaseFacts, CalmFacts DEF StatesInv, KeepsOrder, Become, IsOver
<1>1. CASE UNCHANGED stateVars
  BY <1>1 DEF stateVars
<1>2. CASE StartChecking
  BY <1>2, ProgressAssumption DEF StartChecking
<1>3. CASE StartDownloading
  <2>1. /\ state' = Plain("Downloading") /\ before' = Plain("Downloading") /\ began'
        /\ state'.is = "Downloading"
    BY <1>3 DEF StartDownloading
  <2>2. ~IsOver(state) /\ (state.is = "Paused" => before = Plain("Downloading"))
    BY <1>3 DEF StartDownloading
  <2> QED BY <2>1, <2>2
<1>4. CASE StartSeeding
  BY <1>4 DEF StartSeeding
<1>5. ASSUME NEW progress \in 0 .. MaxProgress + 1, UpdateCheckingProgress(progress)
      PROVE  StatesInv' /\ KeepsOrder
  <2> DEFINE n == IF progress > MaxProgress THEN MaxProgress ELSE progress
  <2>1. n \in 0 .. MaxProgress
    BY ProgressAssumption
  <2> HIDE DEF n
  <2> QED BY <1>5, <2>1 DEF UpdateCheckingProgress, n
<1>6. CASE Pause
  BY <1>6 DEF Pause
<1>7. CASE Resume
  <2>1. state = Paused(before) /\ state.previous = before
    BY <1>7 DEF Resume
  <2>2. /\ state' = before /\ before' = before /\ state.is = "Paused"
        /\ began => began'
    BY <1>7, <2>1 DEF Resume
  <2> QED BY <2>1, <2>2
<1>8. CASE Fail
  BY <1>8 DEF Fail
<1>9. CASE Complete
  BY <1>9 DEF Complete
<1> QED
  BY <1>1, <1>2, <1>3, <1>4, <1>5, <1>6, <1>7, <1>8, <1>9 DEF StatesNext

(* A pause loses nothing, and what is over stays over (state.rs).           *)
THEOREM LifecycleHolds == StatesSpec => LifecycleIsOrderly
<1>1. StatesInv /\ [StatesNext]_stateVars => [KeepsOrder]_stateVars
  BY StatesStepHolds
<1>2. StatesInv /\ [StatesNext]_stateVars => StatesInv'
  BY StatesStepHolds
<1> QED BY <1>1, <1>2, StatesInitHolds, PTL DEF StatesSpec, LifecycleIsOrderly, KeepsOrder

-----------------------------------------------------------------------------
(* A mirror that was declared dead: how long ago is at least the time it    *)
(* has been left out and at most the time nothing was heard of it.          *)
Mirrors == [there : BOOLEAN, failures : Nat, heartbeats : 0 .. 3, dead : BOOLEAN,
            dead_at : -1 .. MaxMirrorAge]

DeathIsDated(e, left, quiet) ==
    /\ e.dead => /\ e.there /\ (e.failures >= MaxFailures \/ e.heartbeats = 3)
                 /\ left <= e.dead_at /\ e.dead_at <= quiet
    /\ e.there /\ ~e.dead => left = 0

HealthInv ==
    /\ entries \in [Addresses -> Mirrors]
    /\ leftOut \in [Addresses -> 0 .. ProbeInterval] /\ unheard \in [Addresses -> Nat]
    /\ \A u \in Addresses : DeathIsDated(entries[u], leftOut[u], unheard[u])

LEMMA HealthNumbers ==
    /\ ProbeInterval \in Nat /\ PruneAge \in Nat /\ MaxMirrorAge \in Nat /\ MaxFailures \in Nat
    /\ ProbeInterval < MaxMirrorAge /\ PruneAge < MaxMirrorAge /\ MaxFailures >= 1
BY HealthAssumption

LEMMA EntryFacts ==
    /\ NoEntry \in Mirrors /\ NewEntry \in Mirrors
    /\ ~NoEntry.there /\ ~NoEntry.dead /\ NewEntry.there /\ ~NewEntry.dead
<1>1. NoEntry \in Mirrors /\ ~NoEntry.there /\ ~NoEntry.dead
  BY HealthNumbers DEF NoEntry, Mirrors
<1>2. NewEntry \in Mirrors /\ NewEntry.there /\ NewEntry.dead = NoEntry.dead
  BY <1>1 DEF NewEntry, Mirrors
<1> QED BY <1>1, <1>2

LEMMA HealthInitHolds == HealthInit => HealthInv
BY EntryFacts, HealthNumbers DEF HealthInit, HealthInv, DeathIsDated

(* update_tier dates a death when it happens, and only then.                *)
LEMMA TierFacts ==
    \A e \in Mirrors, suspected \in BOOLEAN :
        LET f == UpdateTier(e, suspected)
        IN  /\ f \in Mirrors
            /\ f.there = e.there /\ f.failures = e.failures /\ f.heartbeats = e.heartbeats
            /\ f.dead <=> e.failures >= MaxFailures \/ suspected
            /\ f.dead /\ ~e.dead => f.dead_at = 0
            /\ ~f.dead \/ e.dead => f.dead_at = e.dead_at
<1> SUFFICES ASSUME NEW e \in Mirrors, NEW suspected \in BOOLEAN
             PROVE  LET f == UpdateTier(e, suspected)
                    IN  /\ f \in Mirrors
                        /\ f.there = e.there /\ f.failures = e.failures
                        /\ f.heartbeats = e.heartbeats
                        /\ f.dead <=> e.failures >= MaxFailures \/ suspected
                        /\ f.dead /\ ~e.dead => f.dead_at = 0
                        /\ ~f.dead \/ e.dead => f.dead_at = e.dead_at
  OBVIOUS
<1> DEFINE d == e.failures >= MaxFailures \/ suspected
           a == IF d /\ ~e.dead THEN 0 ELSE e.dead_at
           f == UpdateTier(e, suspected)
<1>1. f = [e EXCEPT !.dead = d, !.dead_at = a]
  BY DEF UpdateTier, Mirrors
<1>2. d \in BOOLEAN
  OBVIOUS
<1>3. a \in -1 .. MaxMirrorAge
  BY HealthNumbers DEF Mirrors
<1> HIDE DEF f, a, d
<1>4. /\ f \in Mirrors
      /\ f.there = e.there /\ f.failures = e.failures /\ f.heartbeats = e.heartbeats
      /\ f.dead = d /\ f.dead_at = a
  BY <1>1, <1>2, <1>3 DEF Mirrors
<1> QED BY <1>4 DEF d, a, f

(* An answer clears the failures; one more failure does not.                *)
LEMMA MarkFacts ==
    \A e \in Mirrors :
        /\ Heard(e) \in Mirrors /\ Heard(e).there = e.there /\ Heard(e).failures = 0
        /\ Failed(e) \in Mirrors /\ Failed(e).there = e.there
        /\ Failed(e).heartbeats = e.heartbeats
        /\ Failed(e).dead = e.dead /\ Failed(e).dead_at = e.dead_at
        /\ e.failures >= MaxFailures => Failed(e).failures >= MaxFailures
<1> SUFFICES ASSUME NEW e \in Mirrors
             PROVE  /\ Heard(e) \in Mirrors /\ Heard(e).there = e.there
                    /\ Heard(e).failures = 0
                    /\ Failed(e) \in Mirrors /\ Failed(e).there = e.there
                    /\ Failed(e).heartbeats = e.heartbeats
                    /\ Failed(e).dead = e.dead /\ Failed(e).dead_at = e.dead_at
                    /\ e.failures >= MaxFailures => Failed(e).failures >= MaxFailures
  OBVIOUS
<1> DEFINE h == Saturated(e.heartbeats, 3)
           n == Saturated(e.failures, MaxFailures)
<1>1. /\ h \in 0 .. 3
      /\ n \in Nat /\ (e.failures >= MaxFailures => n >= MaxFailures)
  BY HealthNumbers DEF Saturated, Mirrors
<1>2. Heard(e) = [e EXCEPT !.failures = 0, !.heartbeats = h]
  BY DEF Heard
<1>3. Failed(e) = [e EXCEPT !.failures = n]
  BY DEF Failed
<1> HIDE DEF h, n
<1>4. Heard(e) \in Mirrors /\ Heard(e).there = e.there /\ Heard(e).failures = 0
  <2>1. /\ e.there \in BOOLEAN /\ e.dead \in BOOLEAN /\ e.dead_at \in -1 .. MaxMirrorAge
        /\ Heard(e) = [there |-> e.there, failures |-> 0, heartbeats |-> h,
                       dead |-> e.dead, dead_at |-> e.dead_at]
    BY <1>2 DEF Mirrors
  <2> QED BY <1>1, <2>1 DEF Mirrors
<1>5. /\ Failed(e) \in Mirrors /\ Failed(e).there = e.there /\ Failed(e).failures = n
      /\ Failed(e).heartbeats = e.heartbeats
      /\ Failed(e).dead = e.dead /\ Failed(e).dead_at = e.dead_at
  BY <1>1, <1>3 DEF Mirrors
<1> QED BY <1>1, <1>4, <1>5

(* What a step of MirrorHealth must keep, apart from its own.               *)
OnlyLongDead == \A u \in Listed : entries'[u] = NoEntry => unheard[u] >= PruneAge

(* A result of the mirror u: the others stay as they are.                   *)
LEMMA ResultKeeps ==
    ASSUME HealthInv, NEW u \in Addresses, u \in Listed, NEW f \in Mirrors, f.there,
           entries' = [entries EXCEPT ![u] = f],
           leftOut' \in [Addresses -> 0 .. ProbeInterval], unheard' \in [Addresses -> Nat],
           \A w \in Addresses \ {u} : leftOut'[w] = leftOut[w] /\ unheard'[w] = unheard[w],
           DeathIsDated(f, leftOut'[u], unheard'[u])
    PROVE  HealthInv' /\ OnlyLongDead
<1>1. entries' \in [Addresses -> Mirrors]
      /\ \A w \in Addresses : entries'[w] = IF w = u THEN f ELSE entries[w]
  BY DEF HealthInv
<1>2. \A w \in Addresses : DeathIsDated(entries'[w], leftOut'[w], unheard'[w])
  BY <1>1 DEF HealthInv
<1>3. OnlyLongDead
  BY <1>1, EntryFacts DEF OnlyLongDead, Listed
<1> QED BY <1>1, <1>2, <1>3 DEF HealthInv

LEMMA SuccessStep ==
    ASSUME HealthInv, NEW u \in Addresses, RecordMirrorSuccess(u)
    PROVE  HealthInv' /\ OnlyLongDead
<1>1. CASE u \notin Listed
  BY <1>1, EntryFacts DEF RecordMirrorSuccess, HealthInv, OnlyLongDead, Listed
<1>2. CASE u \in Listed
  <2>1. PICK g : g = Heard(entries[u])
    OBVIOUS
  <2>2. PICK f : f = UpdateTier(g, FALSE)
    OBVIOUS
  <2>3. g \in Mirrors /\ g.there /\ g.failures = 0
    BY <1>2, <2>1, MarkFacts DEF HealthInv, Listed
  <2>4. FALSE \in BOOLEAN /\ ~(g.failures >= MaxFailures)
    BY <2>3, HealthNumbers
  <2>5. /\ f \in Mirrors /\ f.there = g.there
        /\ f.dead <=> g.failures >= MaxFailures \/ FALSE
    BY <2>2, <2>3, <2>4, TierFacts, Zenon
  <2>6. f \in Mirrors /\ f.there /\ ~f.dead
    BY <2>3, <2>4, <2>5
  <2>7. /\ entries' = [entries EXCEPT ![u] = f]
        /\ unheard' = [unheard EXCEPT ![u] = 0] /\ leftOut' = [leftOut EXCEPT ![u] = 0]
    BY <1>2, <2>1, <2>2 DEF RecordMirrorSuccess
  <2>8. DeathIsDated(f, leftOut'[u], unheard'[u])
    BY <2>6, <2>7 DEF DeathIsDated, HealthInv
  <2>9. leftOut' \in [Addresses -> 0 .. ProbeInterval] /\ unheard' \in [Addresses -> Nat]
    BY <2>7, HealthNumbers DEF HealthInv
  <2>10. \A w \in Addresses \ {u} : leftOut'[w] = leftOut[w] /\ unheard'[w] = unheard[w]
    BY <2>7 DEF HealthInv
  <2> QED BY <1>2, <2>6, <2>7, <2>8, <2>9, <2>10, ResultKeeps
<1> QED BY <1>1, <1>2

(* Failures of a dead mirror leave its date alone, and it stays dead.       *)
LEMMA FailureStep ==
    ASSUME HealthInv, NEW u \in Addresses, RecordMirrorFailure(u)
    PROVE  HealthInv' /\ OnlyLongDead
<1>1. CASE u \notin Listed
  BY <1>1, EntryFacts DEF RecordMirrorFailure, HealthInv, OnlyLongDead, Listed
<1>2. CASE u \in Listed
  <2>1. PICK e : e = entries[u]
    OBVIOUS
  <2>2. PICK suspected \in Suspicions(e) :
            entries' = [entries EXCEPT ![u] = UpdateTier(Failed(e), suspected)]
    BY <1>2, <2>1 DEF RecordMirrorFailure
  <2>3. PICK g : g = Failed(e)
    OBVIOUS
  <2>4. PICK f : f = UpdateTier(g, suspected)
    OBVIOUS
  <2>5. /\ e \in Mirrors /\ e.there
        /\ DeathIsDated(e, leftOut[u], unheard[u])
        /\ unheard[u] \in Nat /\ leftOut[u] \in Nat
    BY <1>2, <2>1, HealthNumbers DEF HealthInv, Listed
  <2>6. /\ suspected \in BOOLEAN /\ (e.dead /\ e.heartbeats = 3 => suspected)
        /\ suspected => e.heartbeats = 3
    <3>1. CASE e.heartbeats < 3
      BY <2>2, <2>5, <3>1 DEF Suspicions, Mirrors
    <3>2. CASE ~(e.heartbeats < 3)
      <4>1. e.heartbeats = 3
        BY <2>5, <3>2 DEF Mirrors
      <4>2. suspected \in IF e.dead THEN {TRUE} ELSE BOOLEAN
        BY <2>2, <3>2 DEF Suspicions
      <4> QED BY <4>1, <4>2
    <3> QED BY <3>1, <3>2
  <2>7. /\ g \in Mirrors /\ g.there /\ g.heartbeats = e.heartbeats
        /\ g.dead = e.dead /\ g.dead_at = e.dead_at
        /\ e.failures >= MaxFailures => g.failures >= MaxFailures
    BY <2>3, <2>5, MarkFacts
  <2>8. /\ f \in Mirrors /\ f.there = g.there /\ f.failures = g.failures
        /\ f.heartbeats = g.heartbeats
        /\ f.dead <=> g.failures >= MaxFailures \/ suspected
        /\ f.dead /\ ~g.dead => f.dead_at = 0
        /\ ~f.dead \/ g.dead => f.dead_at = g.dead_at
    BY <2>4, <2>6, <2>7, TierFacts, ZenonT(40)
  <2>9. DeathIsDated(f, leftOut[u], unheard[u])
    BY <2>5, <2>6, <2>7, <2>8 DEF DeathIsDated
  <2>10. entries' = [entries EXCEPT ![u] = f] /\ leftOut' = leftOut /\ unheard' = unheard
    BY <2>2, <2>3, <2>4 DEF RecordMirrorFailure
  <2>11. DeathIsDated(f, leftOut'[u], unheard'[u])
    BY <2>9, <2>10
  <2> QED BY <1>2, <2>7, <2>8, <2>10, <2>11, ResultKeeps DEF HealthInv
<1> QED BY <1>1, <1>2

(* Time passes for a mirror that is left out and for the date of its death  *)
(* alike; one that is due is offered.                                       *)
LEMMA MirrorTickStep ==
    ASSUME HealthInv, HealthTick
    PROVE  HealthInv' /\ OnlyLongDead
<1>1. ASSUME NEW u \in Addresses
      PROVE  /\ entries'[u] \in Mirrors /\ entries'[u].there = entries[u].there
             /\ leftOut'[u] \in 0 .. ProbeInterval /\ unheard'[u] \in Nat
             /\ DeathIsDated(entries'[u], leftOut'[u], unheard'[u])
  <2>1. PICK e : e = entries[u]
    OBVIOUS
  <2>2. PICK a : a = IF e.dead_at = -1 THEN -1 ELSE Older(e.dead_at)
    OBVIOUS
  <2>3. PICK left, quiet : left = leftOut[u] /\ quiet = unheard[u]
    OBVIOUS
  <2>4. /\ e \in Mirrors /\ DeathIsDated(e, left, quiet)
        /\ left \in 0 .. ProbeInterval /\ quiet \in Nat
        /\ e.dead_at \in -1 .. MaxMirrorAge
    BY <2>1, <2>3 DEF HealthInv, Mirrors
  <2>5. PICK f : f = [e EXCEPT !.dead_at = a]
    OBVIOUS
  <2>6. entries'[u] = f /\ unheard'[u] = Older(quiet)
    BY <2>1, <2>2, <2>3, <2>5 DEF HealthTick
  <2>7. leftOut'[u] = IF e.there /\ e.dead /\ ~(e.dead_at >= ProbeInterval)
                      THEN Older(left) ELSE 0
    BY <2>1, <2>3 DEF HealthTick, SelectBest, Listed, ShouldProbe
  <2>8. /\ a \in -1 .. MaxMirrorAge /\ (e.dead_at >= 0 => a = Older(e.dead_at))
    BY <2>2, <2>4, HealthNumbers DEF Older
  <2>9. /\ f \in Mirrors /\ f.there = e.there /\ f.dead = e.dead /\ f.dead_at = a
        /\ f.failures = e.failures /\ f.heartbeats = e.heartbeats
    BY <2>4, <2>5, <2>8 DEF Mirrors
  <2>10. Older(quiet) \in Nat /\ Older(left) \in Nat
    BY <2>4, HealthNumbers DEF Older
  <2>11. \A m, n \in Nat : m <= n => Older(m) <= Older(n)
    BY HealthNumbers DEF Older
  <2>12. CASE e.dead
    <3>1. /\ e.there /\ left <= e.dead_at /\ e.dead_at <= quiet /\ e.dead_at \in Nat
          /\ e.failures >= MaxFailures \/ e.heartbeats = 3
      BY <2>4, <2>12, HealthNumbers DEF DeathIsDated
    <3>2. Older(left) <= a /\ a <= Older(quiet) /\ a \in Nat
      <4>1. left \in Nat /\ quiet \in Nat /\ e.dead_at \in Nat /\ a = Older(e.dead_at)
        BY <2>4, <2>8, <3>1, HealthNumbers
      <4>2. Older(left) <= Older(e.dead_at) /\ Older(e.dead_at) <= Older(quiet)
        BY <2>11, <3>1, <4>1
      <4>3. Older(e.dead_at) \in Nat
        BY <4>1, HealthNumbers DEF Older
      <4> QED BY <4>1, <4>2, <4>3
    <3>3. e.dead_at < ProbeInterval => Older(left) <= ProbeInterval
      BY <2>4, <3>1, HealthNumbers DEF Older
    <3>4. leftOut'[u] \in 0 .. ProbeInterval /\ leftOut'[u] <= a
      BY <2>4, <2>7, <2>10, <3>1, <3>2, <3>3, HealthNumbers
    <3>5. DeathIsDated(f, leftOut'[u], Older(quiet))
      BY <2>9, <2>12, <3>1, <3>2, <3>4 DEF DeathIsDated
    <3> QED BY <2>1, <2>6, <2>9, <2>10, <3>4, <3>5
  <2>13. CASE ~e.dead
    <3>1. leftOut'[u] = 0
      BY <2>7, <2>13
    <3>2. DeathIsDated(f, leftOut'[u], Older(quiet))
      BY <2>9, <2>13, <3>1 DEF DeathIsDated
    <3> QED BY <2>1, <2>6, <2>9, <2>10, <3>1, <3>2, HealthNumbers
  <2> QED BY <2>12, <2>13
<1>2. /\ entries' \in [Addresses -> Mirrors] /\ leftOut' \in [Addresses -> 0 .. ProbeInterval]
      /\ unheard' \in [Addresses -> Nat]
  BY <1>1 DEF HealthTick
<1>3. OnlyLongDead
  BY <1>1, EntryFacts DEF OnlyLongDead, Listed
<1> QED BY <1>1, <1>2, <1>3 DEF HealthInv

LEMMA HealthStepHolds == HealthInv /\ [HealthNext]_healthVars => HealthInv' /\ [OnlyLongDead]_healthVars
<1> SUFFICES ASSUME HealthInv, [HealthNext]_healthVars
             PROVE  HealthInv' /\ [OnlyLongDead]_healthVars
  OBVIOUS
<1>1. CASE UNCHANGED healthVars
  BY <1>1 DEF healthVars, HealthInv
<1>2. ASSUME NEW u \in Addresses, Add(u)
      PROVE  HealthInv' /\ OnlyLongDead
  <2>1. PICK f : f = NewEntry
    OBVIOUS
  <2>2. /\ f \in Mirrors /\ f.there /\ ~f.dead
    BY <2>1, EntryFacts
  <2>3. /\ entries' = [entries EXCEPT ![u] = f] /\ unheard' = [unheard EXCEPT ![u] = 0]
        /\ leftOut' = [leftOut EXCEPT ![u] = 0] /\ u \notin Listed
    BY <1>2, <2>1 DEF Add
  <2>4. HealthInv'
    BY <2>2, <2>3, HealthNumbers DEF HealthInv, DeathIsDated
  <2>5. OnlyLongDead
    BY <2>3, EntryFacts DEF HealthInv, OnlyLongDead, Listed
  <2> QED BY <2>4, <2>5
<1>3. ASSUME NEW u \in Addresses, Ask(u)
      PROVE  HealthInv' /\ OnlyLongDead
  BY <1>3, EntryFacts DEF Ask, HealthInv, OnlyLongDead, Listed
<1>4. CASE PruneDead
  <2>1. \A u \in Addresses :
            entries'[u] = IF IsPruned(entries[u]) THEN NoEntry ELSE entries[u]
    BY <1>4 DEF PruneDead
  <2>2. entries' \in [Addresses -> Mirrors] /\ leftOut' = leftOut /\ unheard' = unheard
    BY <1>4, EntryFacts DEF PruneDead, HealthInv
  <2>3. \A u \in Addresses : DeathIsDated(entries'[u], leftOut[u], unheard[u])
    BY <2>1, EntryFacts DEF DeathIsDated, HealthInv
  <2>4. ASSUME NEW u \in Listed, entries'[u] = NoEntry
        PROVE  unheard[u] >= PruneAge
    <3>1. u \in Addresses /\ IsPruned(entries[u])
      BY <2>1, <2>4, EntryFacts DEF Listed
    <3>2. /\ entries[u].dead /\ entries[u].dead_at >= PruneAge /\ unheard[u] \in Nat
          /\ entries[u].dead_at \in -1 .. MaxMirrorAge
          /\ entries[u].dead_at <= unheard[u]
      BY <3>1 DEF IsPruned, HealthInv, DeathIsDated, Mirrors
    <3> QED BY <3>2, HealthNumbers
  <2> QED BY <2>2, <2>3, <2>4 DEF HealthInv, OnlyLongDead
<1> QED
  BY <1>1, <1>2, <1>3, <1>4, SuccessStep, FailureStep, MirrorTickStep DEF HealthNext

(* A mirror gets another chance (mirror_health.rs): it is not left out for  *)
(* longer than the probe interval, whatever results of requests that were   *)
(* under way still arrive, and not pruned before all of older_than.         *)
THEOREM MirrorsHaveAChance == HealthSpec => AnotherChance
<1>1. HealthInv' => \A u \in Addresses : leftOut'[u] <= ProbeInterval
  BY HealthNumbers DEF HealthInv
<1>2. HealthInv /\ [HealthNext]_healthVars => HealthInv'
  BY HealthStepHolds
<1>3. HealthInv /\ [HealthNext]_healthVars => [OnlyLongDead]_healthVars
  BY HealthStepHolds
<1>4. HealthInv /\ [HealthNext]_healthVars
      => [\A u \in Addresses : leftOut'[u] <= ProbeInterval]_healthVars
  BY <1>1, <1>2
<1> QED
  BY <1>2, <1>3, <1>4, HealthInitHolds, PTL DEF HealthSpec, AnotherChance, OnlyLongDead

-----------------------------------------------------------------------------
(* Installing.  Of the recipe that runs, what the actions so far wrote is   *)
(* there and what they deleted is gone; of the recipes before, everything,  *)
(* as long as there was no error.                                           *)
AllRecipes == UNION {recipes_for_source(s) : s \in DOMAIN ALL_RECIPES}

Jobs ==
    [path : Owned, source : DOMAIN ALL_RECIPES, todo : Seq(AllRecipes), step : Nat, errors : Nat,
     packages : SUBSET AllRecipes]
Reports == [source : DOMAIN ALL_RECIPES, packages : SUBSET AllRecipes, errors : Nat]

RecipeTyped ==
    /\ content \in [Groups -> {"none", "part", "whole"}]
    /\ job \in Jobs \cup {NoJob} /\ report \in Reports \cup {NoReport}
    /\ job # NoJob => report = NoReport

JobInOrder ==
    job # NoJob =>
        /\ job.todo # <<>>
        /\ \A i, j \in 1 .. Len(job.todo) : job.todo[i] = job.todo[j] => i = j
        /\ \A i \in 1 .. Len(job.todo) :
              job.todo[i] \in recipes_for_source(job.source) \ job.packages
        /\ job.packages \subseteq recipes_for_source(job.source)
        /\ job.step \in 1 .. Len(Recipe)

Through(s, p, n) ==
    LET r == ALL_RECIPES[s][p]
    IN  \A i \in 1 .. n : \A f \in r[i].writes :
            IF r[i].op = "Delete"
            THEN (\A j \in i + 1 .. n : f \notin r[j].writes) => content[f] = "none"
            ELSE f \notin Intermediates => content[f] = "whole"

SoFarSoGood ==
    job # NoJob /\ job.errors = 0 =>
        /\ \A p \in job.packages : Delivered(job.source, p)
        /\ Through(job.source, Package, job.step - 1)

RecipeInv == RecipeTyped /\ JobInOrder /\ SoFarSoGood /\ NoErrorMeansInstalled

-----------------------------------------------------------------------------
LEMMA RecipeShape ==
    ASSUME NEW s \in DOMAIN ALL_RECIPES, NEW p \in recipes_for_source(s)
    PROVE  /\ Len(ALL_RECIPES[s][p]) \in Nat \ {0}
           /\ DOMAIN ALL_RECIPES[s][p] = 1 .. Len(ALL_RECIPES[s][p])
           /\ \A i \in 1 .. Len(ALL_RECIPES[s][p]) :
                 /\ ALL_RECIPES[s][p][i].writes \subseteq Groups
                 /\ ALL_RECIPES[s][p][i].op = "Delete" =>
                       ALL_RECIPES[s][p][i].writes \subseteq Intermediates
<1> DEFINE r == ALL_RECIPES[s][p]
<1>1. WellMade(s, p)
  BY RecipesAssumption
<1>2. Len(r) \in Nat \ {0} /\ DOMAIN r = 1 .. Len(r)
  BY <1>1, Zenon DEF WellMade
<1>3. \A i \in DOMAIN r :
        /\ r[i].writes \subseteq Groups
        /\ r[i].op = "Delete" => r[i].writes \subseteq Intermediates
  BY <1>1, Zenon DEF WellMade
<1> QED BY <1>2, <1>3

LEMMA RecipeWrites ==
    ASSUME NEW s \in DOMAIN ALL_RECIPES, NEW p \in recipes_for_source(s)
    PROVE  /\ TestFiles(p) \subseteq Written(s, p) \ Intermediates
           /\ \A q \in recipes_for_source(s) \ {p} : Unpacked(s, p) \cap Written(s, q) = {}
<1>1. WellMade(s, p)
  BY RecipesAssumption
<1> QED BY <1>1, Zenon DEF WellMade

LEMMA RecipeCleans ==
    ASSUME NEW s \in DOMAIN ALL_RECIPES, NEW p \in recipes_for_source(s), NEW f \in Unpacked(s, p)
    PROVE  \E i \in 1 .. Len(ALL_RECIPES[s][p]) :
               /\ ALL_RECIPES[s][p][i].op = "Delete" /\ f \in ALL_RECIPES[s][p][i].writes
               /\ \A j \in i + 1 .. Len(ALL_RECIPES[s][p]) : f \notin ALL_RECIPES[s][p][j].writes
<1>1. WellMade(s, p)
  BY RecipesAssumption
<1>2. \E i \in DOMAIN ALL_RECIPES[s][p] :
               /\ ALL_RECIPES[s][p][i].op = "Delete" /\ f \in ALL_RECIPES[s][p][i].writes
               /\ \A j \in i + 1 .. Len(ALL_RECIPES[s][p]) : f \notin ALL_RECIPES[s][p][j].writes
  BY <1>1, Zenon DEF WellMade
<1>3. DOMAIN ALL_RECIPES[s][p] = 1 .. Len(ALL_RECIPES[s][p])
  BY RecipeShape
<1> QED BY <1>2, <1>3, Zenon

(* A recipe that has gone through has delivered its package.                *)
ThroughIsDelivered ==
    \A s \in DOMAIN ALL_RECIPES : \A p \in recipes_for_source(s) :
        Through(s, p, Len(ALL_RECIPES[s][p])) => Delivered(s, p)

LEMMA ThroughDelivers == ThroughIsDelivered
<1> SUFFICES ASSUME NEW s \in DOMAIN ALL_RECIPES, NEW p \in recipes_for_source(s),
                    Through(s, p, Len(ALL_RECIPES[s][p]))
             PROVE  Delivered(s, p)
  BY DEF ThroughIsDelivered
<1> DEFINE r == ALL_RECIPES[s][p]
<1>1. ASSUME NEW f \in TestFiles(p) PROVE content[f] = "whole"
  <2>1. f \in Written(s, p) /\ f \notin Intermediates
    BY RecipeWrites
  <2>2. PICK i \in 1 .. Len(r) : r[i].op # "Delete" /\ f \in r[i].writes
    BY <2>1, RecipeShape DEF Written
  <2> QED BY <2>1, <2>2 DEF Through
<1>2. ASSUME NEW f \in Unpacked(s, p) PROVE ~Exists(f)
  <2>1. PICK i \in 1 .. Len(r) :
          /\ r[i].op = "Delete" /\ f \in r[i].writes
          /\ \A j \in i + 1 .. Len(r) : f \notin r[j].writes
    BY RecipeCleans
  <2> QED BY <2>1 DEF Through, Exists
<1> QED BY <1>1, <1>2 DEF Delivered

LEMMA RecipeStart == RecipeInit => RecipeInv
BY DEF RecipeInit, RecipeInv, RecipeTyped, JobInOrder, SoFarSoGood, NoErrorMeansInstalled,
       NoReport

(* The packages of a command, in some order.                                *)
LEMMA Sequenced ==
    ASSUME NEW S, IsFiniteSet(S), S # {}
    PROVE  /\ SetToSeq(S) \in Seq(S) /\ SetToSeq(S) # <<>>
           /\ \A i, j \in 1 .. Len(SetToSeq(S)) : SetToSeq(S)[i] = SetToSeq(S)[j] => i = j
<1> DEFINE n == Cardinality(S)
<1>1. n \in Nat /\ n # 0
  BY FS_CardinalityType, FS_EmptySet
<1>2. PICK f : f \in Bijection(1 .. n, S)
  BY FS_CardinalityType DEF ExistsBijection
<1>3. f \in [1 .. n -> S] /\ IsInjective(f)
  BY <1>2 DEF Bijection, Injection
<1>4. SetToSeq(S) \in [1 .. n -> S] /\ IsInjective(SetToSeq(S))
  BY <1>3 DEF SetToSeq
<1> HIDE DEF n
<1>5. SetToSeq(S) \in Seq(S) /\ Len(SetToSeq(S)) = n
  BY <1>1, <1>4
<1>6. DOMAIN SetToSeq(S) = 1 .. n
  BY <1>4
<1>7. SetToSeq(S) # <<>>
  BY <1>1, <1>5
<1> QED BY <1>4, <1>5, <1>6, <1>7 DEF IsInjective

LEMMA InstallKeeps ==
    ASSUME RecipeInv, NEW path \in Owned, NEW s \in DOMAIN ALL_RECIPES,
           NEW packages \in SUBSET recipes_for_source(s), Install(path, s, packages)
    PROVE  RecipeInv'
<1>1. IsFiniteSet(packages) /\ packages # {}
  <2>1. IsFiniteSet(recipes_for_source(s)) /\ packages # {}
    BY RecipesAssumption DEF Install
  <2> QED BY <2>1, FS_Subset
<1> DEFINE todo == SetToSeq(packages)
           started == [path |-> path, source |-> s, todo |-> todo, step |-> 1, errors |-> 0,
                       packages |-> {}]
<1>2. /\ todo \in Seq(packages) /\ todo # <<>>
      /\ \A i, j \in 1 .. Len(todo) : todo[i] = todo[j] => i = j
  BY <1>1, Sequenced
<1> HIDE DEF todo
<1>3. job' = started /\ report' = NoReport /\ content' = content
  BY DEF Install, todo
<1>4. todo \in Seq(AllRecipes) /\ \A i \in 1 .. Len(todo) : todo[i] \in recipes_for_source(s)
  <2>1. \A i \in 1 .. Len(todo) : todo[i] \in packages
    BY <1>2, ElementOfSeq
  <2>2. packages \subseteq AllRecipes
    BY DEF AllRecipes
  <2> QED BY <1>2, <2>1, <2>2
<1>5. started \in Jobs
  BY <1>4 DEF Jobs
<1>6. Head(todo) \in recipes_for_source(s) /\ Head(todo) = todo[1]
  BY <1>2, <1>4
<1>7. RecipeTyped'
  BY <1>3, <1>5 DEF RecipeInv, RecipeTyped
<1>8. JobInOrder'
  <2>1. 1 \in 1 .. Len(ALL_RECIPES[s][Head(todo)])
    BY <1>6, RecipeShape
  <2> QED BY <1>2, <1>3, <1>4, <2>1 DEF JobInOrder, Recipe, Package
<1>9. SoFarSoGood' /\ NoErrorMeansInstalled'
  <2>1. Through(s, Head(todo), 0)'
    BY DEF Through
  <2> QED BY <1>3, <2>1 DEF SoFarSoGood, Package, NoErrorMeansInstalled, NoReport
<1> QED BY <1>7, <1>8, <1>9 DEF RecipeInv

(* The command goes on to its next recipe, or ends.                         *)
LEMMA NextRecipeKeeps ==
    ASSUME RecipeInv, job # NoJob, content' \in [Groups -> {"none", "part", "whole"}],
           NEW errors \in Nat, NextRecipe(errors), NEW s, s = job.source,
           NEW done, done = job.packages \cup {Package},
           errors = 0 => \A p \in done : Delivered(s, p)'
    PROVE  RecipeInv'
<1> DEFINE todo == job.todo
<1>1. /\ job \in Jobs /\ todo \in Seq(AllRecipes) /\ job.source \in DOMAIN ALL_RECIPES
      /\ job.packages \subseteq AllRecipes
  BY DEF RecipeInv, RecipeTyped, Jobs
<1>2. /\ todo # <<>>
      /\ \A i, j \in 1 .. Len(todo) : todo[i] = todo[j] => i = j
      /\ \A i \in 1 .. Len(todo) : todo[i] \in recipes_for_source(job.source) \ job.packages
      /\ job.packages \subseteq recipes_for_source(job.source)
  BY DEF RecipeInv, JobInOrder
<1>3. PICK n \in Nat : n = Len(todo) /\ n > 0 /\ Package = todo[1] /\ Package \in AllRecipes
                       /\ Package \in recipes_for_source(job.source)
  <2>1. Len(todo) \in Nat /\ Len(todo) # 0 /\ Head(todo) = todo[1]
    BY <1>1, <1>2
  <2>2. 1 \in 1 .. Len(todo)
    BY <2>1
  <2> QED BY <1>1, <1>2, <2>1, <2>2, ElementOfSeq DEF Package
<1>4. CASE n > 1
  <2> DEFINE next == [job EXCEPT !.todo = Tail(@), !.step = 1, !.errors = errors,
                                 !.packages = @ \cup {Package}]
             rest == Tail(todo)
  <2>1. job' = next /\ report' = NoReport
    BY <1>3, <1>4 DEF NextRecipe
  <2>2. /\ rest \in Seq(AllRecipes) /\ Len(rest) = n - 1
        /\ \A i \in 1 .. n - 1 : rest[i] = todo[i + 1]
    BY <1>1, <1>2, <1>3
  <2>3. /\ next \in Jobs /\ next.todo = rest /\ next.step = 1 /\ next.errors = errors
        /\ next.packages = job.packages \cup {Package} /\ next.source = job.source
    BY <1>1, <1>3, <2>2 DEF Jobs
  <2> HIDE DEF rest, next
  <2>4. /\ rest # <<>>
        /\ \A i, j \in 1 .. Len(rest) : rest[i] = rest[j] => i = j
        /\ \A i \in 1 .. Len(rest) :
              rest[i] \in recipes_for_source(job.source) \ (job.packages \cup {Package})
    <3>1. \A i \in 1 .. n - 1 : i + 1 \in 1 .. n /\ 1 \in 1 .. n /\ i + 1 # 1
      BY <1>3
    <3>2. \A i, j \in 1 .. n - 1 : rest[i] = rest[j] => i = j
      <4> SUFFICES ASSUME NEW i \in 1 .. n - 1, NEW j \in 1 .. n - 1, rest[i] = rest[j]
                   PROVE  i = j
        OBVIOUS
      <4>1. i + 1 = j + 1
        BY <1>2, <1>3, <2>2, <3>1
      <4> QED BY <4>1
    <3>3. ASSUME NEW i \in 1 .. n - 1
          PROVE  rest[i] \in recipes_for_source(job.source) \ (job.packages \cup {Package})
      <4>1. todo[i + 1] \in recipes_for_source(job.source) \ job.packages
        BY <1>2, <1>3, <3>1
      <4>2. todo[i + 1] # todo[1]
        BY <1>2, <1>3, <3>1
      <4> QED BY <1>3, <2>2, <4>1, <4>2
    <3>4. rest # <<>>
      BY <1>4, <2>2
    <3> QED BY <2>2, <3>2, <3>3, <3>4
  <2>5. Head(rest) \in recipes_for_source(job.source)
    <3>1. Head(rest) = rest[1] /\ 1 \in 1 .. Len(rest)
      BY <1>3, <1>4, <2>2, <2>4
    <3> QED BY <2>4, <3>1
  <2>6. RecipeTyped'
    BY <2>1, <2>3 DEF RecipeTyped
  <2>7. JobInOrder'
    <3>1. 1 \in 1 .. Len(ALL_RECIPES[job.source][Head(rest)])
      BY <1>1, <2>5, RecipeShape
    <3>2. job.packages \cup {Package} \subseteq recipes_for_source(job.source)
      BY <1>2, <1>3
    <3>3. Len(Recipe)' = Len(ALL_RECIPES[job.source][Head(rest)])
      BY <2>1, <2>3 DEF Recipe, Package
    <3> QED BY <2>1, <2>3, <2>4, <3>1, <3>2, <3>3 DEF JobInOrder
  <2>8. SoFarSoGood'
    <3>1. PICK first : first = Head(rest)
      OBVIOUS
    <3>2. Through(s, first, 0)'
      BY DEF Through
    <3>3. Package' = first /\ job'.source = s /\ job'.step = 1 /\ job'.packages = done
            /\ job'.errors = errors
      BY <2>1, <2>3, <3>1 DEF Package
    <3> QED BY <3>2, <3>3 DEF SoFarSoGood
  <2>9. NoErrorMeansInstalled'
    BY <2>1 DEF NoErrorMeansInstalled, NoReport
  <2> QED BY <2>6, <2>7, <2>8, <2>9 DEF RecipeInv
<1>5. CASE ~(n > 1)
  <2> DEFINE result == [source |-> job.source, packages |-> job.packages \cup {Package},
                        errors |-> errors]
  <2>1. job' = NoJob /\ report' = result
    BY <1>3, <1>5 DEF NextRecipe
  <2>2. result \in Reports
    BY <1>1, <1>3 DEF Reports
  <2>3. NoErrorMeansInstalled'
    <3>1. report'.source = s /\ report'.packages = done /\ report'.errors = errors
      BY <2>1
    <3> QED BY <3>1 DEF NoErrorMeansInstalled
  <2> QED BY <2>1, <2>2, <2>3 DEF RecipeInv, RecipeTyped, JobInOrder, SoFarSoGood
<1> QED BY <1>4, <1>5

(* What an action that succeeds adds to what is there.                      *)
LEMMA ActAdds ==
    ASSUME RecipeInv, Act, NEW s, s = job.source, NEW p, p = Package, NEW n, n = job.step
    PROVE  /\ content' \in [Groups -> {"none", "part", "whole"}]
           /\ \A f \in Groups :
                 content'[f] = IF f \notin ALL_RECIPES[s][p][n].writes THEN content[f]
                               ELSE IF ALL_RECIPES[s][p][n].op = "Delete" THEN "none" ELSE "whole"
           /\ s \in DOMAIN ALL_RECIPES /\ p \in recipes_for_source(s) \ job.packages
           /\ n \in 1 .. Len(ALL_RECIPES[s][p]) /\ job \in Jobs /\ job # NoJob
           /\ job.packages \subseteq recipes_for_source(s)
<1>1. job # NoJob /\ job \in Jobs /\ content \in [Groups -> {"none", "part", "whole"}]
  BY DEF Act, Running, RecipeInv, RecipeTyped
<1>2. s \in DOMAIN ALL_RECIPES /\ job.todo \in Seq(AllRecipes)
  BY <1>1 DEF Jobs
<1>3. p \in recipes_for_source(s) \ job.packages
  <2>1. Head(job.todo) = job.todo[1] /\ 1 \in 1 .. Len(job.todo)
    BY <1>1, <1>2 DEF RecipeInv, JobInOrder
  <2> QED BY <1>1, <2>1 DEF RecipeInv, JobInOrder, Package
<1>4. n \in 1 .. Len(ALL_RECIPES[s][p]) /\ job.packages \subseteq recipes_for_source(s)
  BY <1>1 DEF RecipeInv, JobInOrder, Recipe
<1> DEFINE a == ALL_RECIPES[s][p][n]
<1>5. Action = a
  BY DEF Action, Recipe
<1>6. content' = IF a.op = "Delete"
                 THEN [f \in Groups |-> IF f \in a.writes THEN "none" ELSE content[f]]
                 ELSE [f \in Groups |-> IF f \in a.writes THEN "whole" ELSE content[f]]
  BY <1>5 DEF Act, After
<1> HIDE DEF a
<1>7. /\ content' \in [Groups -> {"none", "part", "whole"}]
      /\ \A f \in Groups :
            content'[f] = IF f \notin a.writes THEN content[f]
                          ELSE IF a.op = "Delete" THEN "none" ELSE "whole"
  BY <1>1, <1>6
<1> QED BY <1>1, <1>2, <1>3, <1>4, <1>7 DEF a

LEMMA ActDelivers ==
    ASSUME RecipeInv, Act, job.errors = 0, NEW s, s = job.source, NEW p, p = Package,
           NEW n, n = job.step, NEW earlier, earlier = job.packages
    PROVE  /\ \A q \in earlier : Delivered(s, q)'
           /\ Through(s, p, n)'
<1> DEFINE r == ALL_RECIPES[s][p]
<1>1. /\ \A f \in Groups : content'[f] = IF f \notin r[n].writes THEN content[f]
                                         ELSE IF r[n].op = "Delete" THEN "none" ELSE "whole"
      /\ s \in DOMAIN ALL_RECIPES /\ p \in recipes_for_source(s) \ earlier
      /\ n \in 1 .. Len(r) /\ earlier \subseteq recipes_for_source(s)
      /\ job # NoJob
  BY ActAdds
<1>2. /\ \A q \in earlier : Delivered(s, q)
      /\ Through(s, p, n - 1)
  BY <1>1 DEF RecipeInv, SoFarSoGood
<1>3. /\ Len(r) \in Nat
      /\ \A i \in 1 .. Len(r) : r[i].op = "Delete" => r[i].writes \subseteq Intermediates
      /\ \A i \in 1 .. Len(r) : r[i].writes \subseteq Groups
      /\ \A i \in 1 .. Len(r) : r[i].op # "Delete" => r[i].writes \subseteq Written(s, p)
  BY <1>1, RecipeShape DEF Written
<1>4. \A q \in recipes_for_source(s) : Written(s, q) \subseteq Groups
  BY <1>1, RecipeShape DEF Written
<1>5. ASSUME NEW q \in earlier PROVE Delivered(s, q)'
  <2>1. q \in recipes_for_source(s) /\ p # q
    BY <1>1
  <2>2. ASSUME NEW f \in TestFiles(q) PROVE content'[f] = "whole"
    <3>1. f \in Groups /\ f \notin Intermediates /\ content[f] = "whole"
      BY <1>1, <1>2, <1>4, <2>1, RecipeWrites DEF Delivered
    <3> QED BY <1>1, <1>3, <3>1
  <2>3. ASSUME NEW f \in Unpacked(s, q) PROVE content'[f] = "none"
    <3>1. f \notin Written(s, p)
      BY <1>1, <2>1, RecipeWrites
    <3>2. content[f] = "none" /\ f \in Groups
      BY <1>2, <1>4, <2>1 DEF Delivered, Exists, Unpacked
    <3> QED BY <1>1, <1>3, <3>1, <3>2
  <2> QED BY <2>2, <2>3 DEF Delivered, Exists
<1>6. Through(s, p, n)'
  <2> SUFFICES ASSUME NEW i \in 1 .. n, NEW f \in r[i].writes
               PROVE  IF r[i].op = "Delete"
                      THEN (\A j \in i + 1 .. n : f \notin r[j].writes) => content'[f] = "none"
                      ELSE f \notin Intermediates => content'[f] = "whole"
    BY DEF Through
  <2>1. i \in 1 .. Len(r) /\ f \in Groups
    BY <1>1, <1>3
  <2>2. CASE i = n
    BY <1>1, <2>1, <2>2
  <2>3. CASE i # n
    <3>1. i \in 1 .. n - 1 /\ n \in i + 1 .. n
      BY <1>1, <1>3, <2>3
    <3>2. \A j \in i + 1 .. n - 1 : j \in i + 1 .. n
      BY <1>1, <1>3
    <3>3. IF r[i].op = "Delete"
          THEN (\A j \in i + 1 .. n - 1 : f \notin r[j].writes) => content[f] = "none"
          ELSE f \notin Intermediates => content[f] = "whole"
      BY <1>2, <3>1 DEF Through
    <3>4. CASE r[i].op = "Delete"
      <4> SUFFICES ASSUME \A j \in i + 1 .. n : f \notin r[j].writes
                   PROVE  content'[f] = "none"
        BY <3>4
      <4>1. f \notin r[n].writes /\ content[f] = "none"
        BY <3>1, <3>2, <3>3, <3>4
      <4> QED BY <1>1, <2>1, <4>1
    <3>5. CASE r[i].op # "Delete"
      <4> SUFFICES ASSUME f \notin Intermediates PROVE content'[f] = "whole"
        BY <3>5
      <4>1. content[f] = "whole" /\ (f \in r[n].writes => r[n].op # "Delete")
        BY <1>1, <1>3, <3>3, <3>5
      <4> QED BY <1>1, <2>1, <4>1
    <3> QED BY <3>4, <3>5
  <2> QED BY <2>2, <2>3
<1> QED BY <1>5, <1>6

LEMMA ActKeeps == ASSUME RecipeInv, Act PROVE RecipeInv'
<1>1. PICK s : s = job.source
  OBVIOUS
<1>2. PICK p : p = Package
  OBVIOUS
<1>3. PICK n : n = job.step
  OBVIOUS
<1>4. PICK earlier : earlier = job.packages
  OBVIOUS
<1> DEFINE r == ALL_RECIPES[s][p]
<1>5. /\ content' \in [Groups -> {"none", "part", "whole"}]
      /\ s \in DOMAIN ALL_RECIPES /\ p \in recipes_for_source(s) \ earlier
      /\ n \in 1 .. Len(r) /\ job \in Jobs /\ job # NoJob
  BY <1>1, <1>2, <1>3, <1>4, ActAdds
<1>6. Len(r) \in Nat /\ Recipe = r /\ job.errors \in Nat
  BY <1>1, <1>2, <1>5, RecipeShape DEF Recipe, Jobs
<1>7. job.errors = 0 => Through(s, p, n)' /\ \A q \in earlier : Delivered(s, q)'
  BY <1>1, <1>2, <1>3, <1>4, ActDelivers
<1>8. CASE n < Len(r)
  <2> DEFINE next == [job EXCEPT !.step = @ + 1]
  <2>1. job' = next /\ report' = report
    BY <1>3, <1>6, <1>8 DEF Act
  <2>2. /\ next \in Jobs /\ next.step = n + 1 /\ next.source = s /\ next.packages = earlier
        /\ next.todo = job.todo /\ next.errors = job.errors
    BY <1>1, <1>3, <1>4, <1>5, <1>6 DEF Jobs
  <2> HIDE DEF next
  <2>3. RecipeTyped'
    BY <1>5, <2>1, <2>2 DEF RecipeInv, RecipeTyped
  <2>4. Recipe' = r /\ Package' = p
    BY <1>2, <2>1, <2>2 DEF Recipe, Package
  <2>5. n + 1 \in 1 .. Len(r) /\ (n + 1) - 1 = n
    BY <1>5, <1>6, <1>8
  <2>6. JobInOrder'
    BY <1>1, <1>4, <1>5, <2>1, <2>2, <2>4, <2>5 DEF RecipeInv, JobInOrder
  <2>7. SoFarSoGood'
    BY <1>7, <2>1, <2>2, <2>4, <2>5 DEF SoFarSoGood
  <2>8. NoErrorMeansInstalled'
    BY <1>5, <2>1 DEF RecipeInv, RecipeTyped, NoErrorMeansInstalled, NoReport
  <2> QED BY <2>3, <2>6, <2>7, <2>8 DEF RecipeInv
<1>9. CASE ~(n < Len(r))
  <2>1. NextRecipe(job.errors) /\ n = Len(r)
    BY <1>3, <1>5, <1>6, <1>9 DEF Act
  <2>2. job.errors = 0 => Delivered(s, p)'
    <3>1. ThroughIsDelivered'
      BY ThroughDelivers, PTL
    <3>2. Through(s, p, Len(r))' => Delivered(s, p)'
      BY <1>5, <3>1 DEF ThroughIsDelivered
    <3> QED BY <1>7, <2>1, <3>2
  <2>3. PICK done : done = job.packages \cup {Package}
    OBVIOUS
  <2>4. job.errors = 0 => \A q \in done : Delivered(s, q)'
    BY <1>2, <1>4, <1>7, <2>2, <2>3
  <2> QED BY <1>1, <1>5, <1>6, <2>1, <2>3, <2>4, NextRecipeKeeps
<1> QED BY <1>8, <1>9

LEMMA BrokenTyped ==
    ASSUME content \in [Groups -> {"none", "part", "whole"}], Broken
    PROVE  content' \in [Groups -> {"none", "part", "whole"}]
<1>1. PICK done, cut : content' = IF Action.op = "Delete" THEN content ELSE After(done, cut)
  BY DEF Broken
<1>2. After(done, cut) \in [Groups -> {"none", "part", "whole"}]
  BY DEF After
<1> QED BY <1>1, <1>2

LEMMA ActFailsKeeps == ASSUME RecipeInv, ActFails PROVE RecipeInv'
<1>1. job # NoJob /\ job \in Jobs /\ content \in [Groups -> {"none", "part", "whole"}]
  BY DEF ActFails, Running, RecipeInv, RecipeTyped
<1>2. content' \in [Groups -> {"none", "part", "whole"}]
  BY <1>1, BrokenTyped DEF ActFails
<1>3. job.errors + 1 \in Nat /\ job.errors + 1 # 0 /\ NextRecipe(job.errors + 1)
  BY <1>1 DEF Jobs, ActFails
<1> QED BY <1>1, <1>2, <1>3, NextRecipeKeeps

LEMMA KilledKeeps == ASSUME RecipeInv, Killed PROVE RecipeInv'
<1>1. content' \in [Groups -> {"none", "part", "whole"}] /\ job' = NoJob /\ report' = NoReport
  BY BrokenTyped DEF Killed, RecipeInv, RecipeTyped
<1> QED
  BY <1>1 DEF RecipeInv, RecipeTyped, JobInOrder, SoFarSoGood, NoErrorMeansInstalled, NoReport

LEMMA RecipeStep == RecipeInv /\ [RecipeNext]_recipeVars => RecipeInv'
<1> SUFFICES ASSUME RecipeInv, [RecipeNext]_recipeVars PROVE RecipeInv'
  OBVIOUS
<1>1. CASE InstallAny
  <2>0. PICK path \in Owned : \E s \in SourcesAt(path) \ {None} :
          \/ Install(path, s, recipes_for_source(s))
          \/ \E p \in recipes_for_source(s) : Install(path, s, {p})
    BY <1>1 DEF InstallAny
  <2>1. PICK s \in SourcesAt(path) \ {None} :
          \/ Install(path, s, recipes_for_source(s))
          \/ \E p \in recipes_for_source(s) : Install(path, s, {p})
    BY <2>0
  <2>2. s \in DOMAIN ALL_RECIPES
    BY RecipesAssumption
  <2>3. PICK packages \in SUBSET recipes_for_source(s) : Install(path, s, packages)
    BY <2>1
  <2> QED BY <2>2, <2>3, InstallKeeps
<1>2. CASE UNCHANGED recipeVars
  BY <1>2 DEF recipeVars, RecipeInv, RecipeTyped, JobInOrder, SoFarSoGood, NoErrorMeansInstalled,
              Delivered, Through, Exists, Recipe, Package
<1> QED
  BY <1>1, <1>2, ActKeeps, ActFailsKeeps, KilledKeeps DEF RecipeNext, RecipeRest

(* Whatever sources a user has, wherever disk errors and crashes strike,    *)
(* and whatever earlier commands left half done, a command that reports no  *)
(* error has installed what it names (cmd_install, execute_recipe).         *)
THEOREM CommandsHold == RecipeSpec => []NoErrorMeansInstalled
<1>1. RecipeInv => NoErrorMeansInstalled
  BY DEF RecipeInv
<1> QED BY RecipeStart, RecipeStep, <1>1, PTL DEF RecipeSpec

-----------------------------------------------------------------------------
(* What has arrived of a file (ByteRanges), and who reads it while it does  *)
(* (StreamingReader).                                                       *)

(* The ranges of a map: not empty, in their order, and not even touching.   *)
Tidy(list) ==
    /\ list \in Seq(Ranges)
    /\ \A i \in 1 .. Len(list) : list[i].start < list[i].end
    /\ \A i, j \in 1 .. Len(list) : i < j => list[i].end < list[j].start

Covers(list, b) == \E i \in 1 .. Len(list) : b \in Bytes(list[i])

LEMMA LeastNumber ==
    ASSUME NEW T, T \subseteq Nat, T # {}
    PROVE  \E x \in T : \A y \in T : x <= y
<1> DEFINE R == OpToRel(<, Nat)
<1>1. IsWellFoundedOn(R, Nat)
    BY NatLessThanWellFounded
<1>2. \A ss \in Nat \X Nat : ss[1] < ss[2] => ss \in R
    BY DEF OpToRel
<1> HIDE DEF R
<1>3. PICK x \in T : \A y \in T : ~(<<y, x>> \in R)
    BY <1>1, WFMin
<1>4. \A y \in T : ~(y < x)
    BY <1>2, <1>3
<1> QED
    BY <1>4

LEMMA ByNumber ==
    ASSUME NEW n \in Nat, NEW S, 0 \in S, \A i \in 1 .. n : i - 1 \in S => i \in S
    PROVE  \A i \in 0 .. n : i \in S
<1> DEFINE T == (0 .. n) \ S
<1>1. SUFFICES ASSUME T # {} PROVE FALSE
    OBVIOUS
<1>2. PICK x \in T : \A y \in T : x <= y
    <2>1. T \subseteq Nat
        OBVIOUS
    <2> QED
        BY <1>1, <2>1, LeastNumber
<1>3. x \in 1 .. n /\ x - 1 \in 0 .. n /\ ~(x <= x - 1)
    BY <1>2
<1>4. x - 1 \notin T
    BY <1>2, <1>3
<1> QED
    BY <1>2, <1>3, <1>4

(* Steps taken one after the other, each by its own function.               *)
IsRun(f, h, s, k) == f[0] = s /\ \A n \in 1 .. k : f[n] = h[n][f[n - 1]]

LEMMA RunExists ==
    ASSUME NEW A, NEW k \in Nat, NEW h \in [1 .. k -> [A -> A]], NEW s \in A
    PROVE  \E f \in [0 .. k -> A] : IsRun(f, h, s, k)
<1> DEFINE Good == {m \in 0 .. k : \E f \in [0 .. m -> A] : IsRun(f, h, s, m)}
<1>1. 0 \in Good
    <2>1. PICK f : f = [i \in 0 .. 0 |-> s]
        OBVIOUS
    <2>2. f \in [0 .. 0 -> A] /\ f[0] = s /\ 1 .. 0 = {}
        BY <2>1
    <2> QED
        BY <2>2 DEF IsRun
<1>2. ASSUME NEW m \in 1 .. k, m - 1 \in Good PROVE m \in Good
    <2>1. PICK f \in [0 .. m - 1 -> A] : f[0] = s /\ \A n \in 1 .. m - 1 : f[n] = h[n][f[n - 1]]
        BY <1>2 DEF IsRun
    <2>2. PICK g : g = [n \in 0 .. m |-> IF n = m THEN h[m][f[m - 1]] ELSE f[n]]
        OBVIOUS
    <2>3. m - 1 \in 0 .. m - 1 /\ f[m - 1] \in A
        BY <2>1
    <2>4. h[m][f[m - 1]] \in A
        BY <2>3
    <2>5. \A n \in 0 .. m : n # m => n \in 0 .. m - 1 /\ f[n] \in A
        BY <2>1
    <2>6. g \in [0 .. m -> A]
        BY <2>2, <2>4, <2>5
    <2>7. g[m] = h[m][f[m - 1]] /\ \A n \in 0 .. m : n # m => g[n] = f[n]
        BY <2>2
    <2>8. g[0] = s
        BY <2>1, <2>7
    <2>9. ASSUME NEW n \in 1 .. m PROVE g[n] = h[n][g[n - 1]]
        <3>1. n - 1 \in 0 .. m /\ n - 1 # m /\ g[n - 1] = f[n - 1]
            BY <2>7
        <3>2. CASE n = m
            BY <3>1, <3>2, <2>7
        <3>3. CASE n # m
            <4>1. n \in 1 .. m - 1 /\ n \in 0 .. m
                BY <3>3
            <4> QED
                BY <3>1, <3>3, <4>1, <2>1, <2>7
        <3> QED
            BY <3>2, <3>3
    <2>10. IsRun(g, h, s, m) /\ m \in 0 .. k
        BY <2>8, <2>9 DEF IsRun
    <2> QED
        BY <2>6, <2>10
<1> HIDE DEF Good
<1>3. \A m \in 0 .. k : m \in Good
    BY <1>1, <1>2, ByNumber, ZenonT(30)
<1>4. k \in Good
    BY <1>3
<1> QED
    BY <1>4 DEF Good

(* What insert knows half-way: neither touches what the other has.          *)
Accs == [merged : Ranges, kept : Seq(Ranges)]

Clear(acc) ==
    /\ acc \in Accs /\ Tidy(acc.kept) /\ acc.merged.start < acc.merged.end
    /\ \A i \in 1 .. Len(acc.kept) :
          acc.kept[i].end < acc.merged.start \/ acc.merged.end < acc.kept[i].start

Below(list, x) == \A i \in 1 .. Len(list) : list[i].end < x

Holds(acc, b) == b \in Bytes(acc.merged) \/ Covers(acc.kept, b)

LEMMA AbsorbTyped ==
    ASSUME NEW acc \in Accs, NEW e \in Ranges
    PROVE  Absorb(acc, e) \in Accs
<1>1. acc.merged \in Ranges /\ acc.kept \in Seq(Ranges)
    BY DEF Accs
<1>2. Merge(e, acc.merged) \in Ranges /\ Merge(acc.merged, e) \in Ranges
    BY <1>1, FileSizeAssumption DEF Merge, Least, Greatest, Ranges, Offsets
<1>3. Append(acc.kept, e) \in Seq(Ranges)
    BY <1>1
<1> QED
    BY <1>1, <1>2, <1>3 DEF Absorb, Accs

(* One pass suffices although the new range grows in it: what was passed    *)
(* over ends before the rest begins, so that growth cannot reach it.        *)
LEMMA AbsorbClears ==
    ASSUME NEW acc, Clear(acc), NEW e \in Ranges, e.start < e.end, Below(acc.kept, e.start)
    PROVE  /\ Clear(Absorb(acc, e))
           /\ \A x \in Int : Below(acc.kept, x) /\ e.end < x => Below(Absorb(acc, e).kept, x)
           /\ \A b : Holds(Absorb(acc, e), b) <=> Holds(acc, b) \/ b \in Bytes(e)
<1> DEFINE new == Absorb(acc, e)
<1>1. /\ acc \in Accs /\ acc.merged \in Ranges /\ acc.kept \in Seq(Ranges)
      /\ acc.merged.start \in Int /\ acc.merged.end \in Int /\ e.start \in Int /\ e.end \in Int
      /\ Len(acc.kept) \in Nat
      /\ \A i \in 1 .. Len(acc.kept) :
            acc.kept[i] \in Ranges /\ acc.kept[i].start \in Int /\ acc.kept[i].end \in Int
    <2>1. acc \in Accs /\ acc.merged \in Ranges /\ acc.kept \in Seq(Ranges)
        BY DEF Clear, Accs
    <2>2. \A r \in Ranges : r.start \in Int /\ r.end \in Int
        BY DEF Ranges, Offsets
    <2>3. Len(acc.kept) \in Nat /\ \A i \in 1 .. Len(acc.kept) : acc.kept[i] \in Ranges
        BY <2>1
    <2> QED
        BY <2>1, <2>2, <2>3
<1>2. new \in Accs
    BY <1>1, AbsorbTyped
<1>3. CASE MergeableWith(e, acc.merged)
    <2>1. new.merged = Merge(acc.merged, e) /\ new.kept = acc.kept
        BY <1>1, <1>3 DEF Absorb, Accs
    <2>2. new.merged.start = Least(acc.merged.start, e.start)
          /\ new.merged.end = Greatest(acc.merged.end, e.end)
        BY <2>1 DEF Merge
    <2>3. e.start <= acc.merged.end /\ acc.merged.start <= e.end
        BY <1>3 DEF MergeableWith
    <2>4. \A i \in 1 .. Len(acc.kept) :
              acc.kept[i].end < e.start
              /\ (acc.kept[i].end < acc.merged.start \/ acc.merged.end < acc.kept[i].start)
              /\ acc.kept[i].start < acc.kept[i].end
        BY DEF Below, Clear, Tidy
    <2>5. ASSUME NEW i \in 1 .. Len(acc.kept)
          PROVE  acc.kept[i].end < new.merged.start
        <3>1. /\ acc.kept[i].end \in Int /\ acc.kept[i].start \in Int
              /\ acc.kept[i].end < e.start /\ acc.kept[i].start < acc.kept[i].end
              /\ acc.kept[i].end < acc.merged.start \/ acc.merged.end < acc.kept[i].start
            BY <1>1, <2>4
        <3>2. acc.kept[i].end < acc.merged.start
            BY <1>1, <2>3, <3>1
        <3>3. new.merged.start \in {acc.merged.start, e.start}
            BY <2>2 DEF Least
        <3> QED
            BY <3>1, <3>2, <3>3
    <2>6. new.merged.start < new.merged.end
        BY <1>1, <2>2, SMT DEF Least, Greatest, Clear
    <2>7. Clear(new)
        BY <1>2, <2>1, <2>5, <2>6 DEF Clear
    <2>8. \A b : b \in Bytes(new.merged) <=> b \in Bytes(acc.merged) \/ b \in Bytes(e)
        <3> TAKE b
        <3>1. /\ b \in Bytes(new.merged)
                     <=> b \in Int /\ new.merged.start <= b /\ b <= new.merged.end - 1
              /\ b \in Bytes(acc.merged)
                     <=> b \in Int /\ acc.merged.start <= b /\ b <= acc.merged.end - 1
              /\ b \in Bytes(e) <=> b \in Int /\ e.start <= b /\ b <= e.end - 1
            <4>1. new.merged.start \in Int /\ new.merged.end \in Int
                BY <1>1, <2>2 DEF Least, Greatest
            <4> QED
                BY <1>1, <4>1 DEF Bytes
        <3>2. acc.merged.start < acc.merged.end
            BY DEF Clear
        <3>3. /\ new.merged.start = IF acc.merged.start <= e.start THEN acc.merged.start ELSE e.start
              /\ new.merged.end = IF acc.merged.end >= e.end THEN acc.merged.end ELSE e.end
            BY <2>2 DEF Least, Greatest
        <3> HIDE DEF new
        <3> QED
            BY <1>1, <2>3, <3>1, <3>2, <3>3
    <2> QED
        BY <2>1, <2>7, <2>8 DEF Holds
<1>4. CASE ~MergeableWith(e, acc.merged)
    <2>1. new.merged = acc.merged /\ new.kept = Append(acc.kept, e)
        BY <1>1, <1>4 DEF Absorb, Accs
    <2>2. /\ Len(new.kept) = Len(acc.kept) + 1 /\ new.kept[Len(acc.kept) + 1] = e
          /\ \A i \in 1 .. Len(acc.kept) : new.kept[i] = acc.kept[i]
          /\ new.kept \in Seq(Ranges)
        BY <1>1, <2>1
    <2>3. \A i \in 1 .. Len(new.kept) : i \in 1 .. Len(acc.kept) \/ i = Len(acc.kept) + 1
        BY <1>1, <2>2
    <2>4. e.end < acc.merged.start \/ acc.merged.end < e.start
        BY <1>1, <1>4 DEF MergeableWith
    <2> HIDE DEF new
    <2>5. Tidy(new.kept)
        <3>1. \A i \in 1 .. Len(new.kept) : new.kept[i].start < new.kept[i].end
            BY <2>2, <2>3 DEF Clear, Tidy
        <3>2. ASSUME NEW i \in 1 .. Len(new.kept), NEW j \in 1 .. Len(new.kept), i < j
              PROVE  new.kept[i].end < new.kept[j].start
            <4>1. i \in 1 .. Len(acc.kept)
                BY <1>1, <2>2, <3>2
            <4>2. CASE j \in 1 .. Len(acc.kept)
                BY <2>2, <3>2, <4>1, <4>2 DEF Clear, Tidy
            <4>3. CASE j = Len(acc.kept) + 1
                BY <2>2, <4>1, <4>3 DEF Below
            <4> QED
                BY <2>3, <4>2, <4>3
        <3> QED
            BY <2>2, <3>1, <3>2 DEF Tidy
    <2>6. Clear(new)
        BY <1>2, <2>1, <2>2, <2>3, <2>4, <2>5 DEF Clear, new
    <2>7. \A x \in Int : Below(acc.kept, x) /\ e.end < x => Below(new.kept, x)
        BY <2>2, <2>3 DEF Below
    <2>8. \A b : Covers(new.kept, b) <=> Covers(acc.kept, b) \/ b \in Bytes(e)
        <3>1. Len(acc.kept) + 1 \in 1 .. Len(new.kept)
              /\ \A i \in 1 .. Len(acc.kept) : i \in 1 .. Len(new.kept)
            BY <1>1, <2>2
        <3> QED
            BY <2>2, <2>3, <3>1 DEF Covers
    <2> QED
        BY <2>1, <2>6, <2>7, <2>8 DEF Holds, new
<1> QED
    BY <1>3, <1>4

(* The pass of insert over all ranges there are.                            *)
LEMMA PassClears ==
    ASSUME NEW list, Tidy(list), NEW range \in Ranges, range.start < range.end
    PROVE  LET pass == Pass(list, range)[Len(list)]
           IN  /\ Clear(pass)
               /\ \A b : Holds(pass, b) <=> b \in Bytes(range) \/ Covers(list, b)
<1> DEFINE k == Len(list)
           s == [merged |-> range, kept |-> <<>>]
           h == [n \in 1 .. k |-> [a \in Accs |-> Absorb(a, list[n])]]
           f == Pass(list, range)
<1>1. k \in Nat /\ s \in Accs /\ \A n \in 1 .. k : list[n] \in Ranges
    BY DEF Tidy, Accs
<1>2. h \in [1 .. k -> [Accs -> Accs]]
    <2>1. ASSUME NEW n \in 1 .. k PROVE h[n] \in [Accs -> Accs]
        BY <1>1, AbsorbTyped
    <2> QED
        BY <2>1
<1>3. PICK g \in [0 .. k -> Accs] : IsRun(g, h, s, k)
    <2> HIDE DEF k, s, h
    <2> QED
        BY <1>1, <1>2, RunExists
<1>4. /\ g[0] = s
      /\ \A n \in 1 .. k : n - 1 \in 0 .. k /\ g[n] = Absorb(g[n - 1], list[n])
    <2>1. ASSUME NEW n \in 1 .. k PROVE n - 1 \in 0 .. k /\ g[n] = Absorb(g[n - 1], list[n])
        <3>1. n - 1 \in 0 .. k /\ g[n - 1] \in Accs
            BY <1>1, <1>3
        <3>2. g[n] = h[n][g[n - 1]]
            BY <1>3 DEF IsRun
        <3> QED
            BY <3>1, <3>2
    <2> QED
        BY <1>3, <2>1 DEF IsRun
<1> DEFINE step(r) == [n \in 0 .. k |-> IF n = 0 THEN s ELSE Absorb(r[n - 1], list[n])]
<1>5. g = step(g)
    <2>1. ASSUME NEW n \in 0 .. k PROVE g[n] = IF n = 0 THEN s ELSE Absorb(g[n - 1], list[n])
        <3>1. n = 0 \/ n \in 1 .. k
            BY <1>1
        <3> HIDE DEF s, k
        <3> QED
            BY <1>4, <3>1
    <2> HIDE DEF s, k
    <2> QED
        BY <1>3, <2>1
<1>6. f = CHOOSE r : r = step(r)
    BY DEF Pass
<1>7. f = step(f)
    <2> HIDE DEF f, step
    <2> QED
        BY <1>5, <1>6
<1>8. f[0] = s /\ \A n \in 1 .. k : f[n] = Absorb(f[n - 1], list[n])
    <2> HIDE DEF s, f
    <2>1. 0 \in 0 .. k /\ \A n \in 1 .. k : n \in 0 .. k /\ n # 0
        BY <1>1
    <2> QED
        BY <1>7, <2>1
<1> DEFINE Done(n) ==
             /\ Clear(f[n])
             /\ \A j \in n + 1 .. k : Below(f[n].kept, list[j].start)
             /\ \A b : Holds(f[n], b) <=>
                    b \in Bytes(range) \/ \E i \in 1 .. n : b \in Bytes(list[i])
           Good == {n \in 0 .. k : Done(n)}
<1> HIDE DEF f, h, step
<1>9. 0 \in Good
    <2>1. f[0].merged = range /\ f[0].kept = <<>> /\ Len(f[0].kept) = 0 /\ f[0] \in Accs
        BY <1>1, <1>8
    <2>2. Clear(f[0]) /\ \A x : Below(f[0].kept, x)
        BY <2>1 DEF Clear, Tidy, Below
    <2>3. \A b : Holds(f[0], b) <=> b \in Bytes(range)
        BY <2>1 DEF Holds, Covers
    <2> QED
        BY <1>1, <2>2, <2>3
<1>10. ASSUME NEW n \in 1 .. k, n - 1 \in Good PROVE n \in Good
    <2>1. PICK acc : acc = f[n - 1]
        OBVIOUS
    <2>2. PICK e : e = list[n]
        OBVIOUS
    <2>3. /\ Clear(acc) /\ Below(acc.kept, e.start)
          /\ \A j \in n + 1 .. k : Below(acc.kept, list[j].start)
          /\ \A b : Holds(acc, b) <=>
                  b \in Bytes(range) \/ \E i \in 1 .. n - 1 : b \in Bytes(list[i])
        <3>1. n \in (n - 1) + 1 .. k /\ \A j \in n + 1 .. k : j \in (n - 1) + 1 .. k
            BY <1>1
        <3>2. Done(n - 1)
            BY <1>10
        <3> QED
            BY <2>1, <2>2, <3>1, <3>2
    <2>4. e \in Ranges /\ e.start < e.end /\ f[n] = Absorb(acc, e)
        BY <1>1, <1>8, <2>1, <2>2 DEF Tidy
    <2>5. /\ Clear(f[n])
          /\ \A x \in Int : Below(acc.kept, x) /\ e.end < x => Below(f[n].kept, x)
          /\ \A b : Holds(f[n], b) <=> Holds(acc, b) \/ b \in Bytes(e)
        BY <2>3, <2>4, AbsorbClears
    <2>6. ASSUME NEW j \in n + 1 .. k PROVE Below(f[n].kept, list[j].start)
        <3>1. j \in 1 .. k /\ n < j
            BY <1>1
        <3>2. e.end < list[j].start /\ list[j].start \in Int
            BY <1>1, <2>2, <3>1 DEF Tidy, Ranges, Offsets
        <3> QED
            BY <2>3, <2>5, <2>6, <3>2
    <2>7. \A b : (\E i \in 1 .. n : b \in Bytes(list[i]))
                   <=> (\E i \in 1 .. n - 1 : b \in Bytes(list[i])) \/ b \in Bytes(e)
        <3>1. \A i \in 1 .. n : i \in 1 .. n - 1 \/ i = n
            BY <1>1
        <3>2. n \in 1 .. n /\ \A i \in 1 .. n - 1 : i \in 1 .. n
            BY <1>1
        <3> QED
            BY <2>2, <3>1, <3>2
    <2>8. n \in 0 .. k
        BY <1>1
    <2> QED
        BY <2>3, <2>5, <2>6, <2>7, <2>8
<1>11. k \in Good
    <2> HIDE DEF Good, k
    <2>1. \A n \in 0 .. k : n \in Good
        BY <1>1, <1>9, <1>10, ByNumber, ZenonT(30)
    <2> QED
        BY <1>1, <2>1
<1>12. Done(k)
    BY <1>11
<1> QED
    BY <1>12 DEF Covers, f

(* The place that a binary search finds in a sorted list.                   *)
LEMMA PlaceFound ==
    ASSUME NEW list, Tidy(list), NEW x \in Int
    PROVE  /\ Place(list, x) \in 0 .. Len(list)
           /\ \A i \in 1 .. Len(list) : i <= Place(list, x) <=> list[i].start < x
<1> DEFINE L == Len(list)
           T == {i \in 1 .. L : ~(list[i].start < x)}
<1>1. L \in Nat /\ \A i \in 1 .. L : list[i].start \in Int /\ list[i].end \in Int
    <2>1. \A i \in 1 .. L : list[i] \in Ranges
        BY DEF Tidy
    <2> QED
        BY <2>1 DEF Tidy, Ranges, Offsets
<1>2. \A i, j \in 1 .. L : i < j => list[i].start < list[j].start
    <2>1. ASSUME NEW i \in 1 .. L, NEW j \in 1 .. L, i < j
          PROVE  list[i].start < list[j].start
        <3>1. list[i].start < list[i].end /\ list[i].end < list[j].start
            BY <2>1 DEF Tidy
        <3> QED
            BY <1>1, <3>1
    <2> QED
        BY <2>1
<1>3. \E n \in 0 .. L : \A i \in 1 .. L : i <= n <=> list[i].start < x
    <2>1. CASE T = {}
        <3>1. L \in 0 .. L /\ \A i \in 1 .. L : i <= L /\ i \notin T
            BY <1>1, <2>1
        <3>2. \A i \in 1 .. L : i <= L /\ list[i].start < x
            BY <3>1
        <3> HIDE DEF T, L
        <3> QED
            BY <3>1, <3>2
    <2>2. CASE T # {}
        <3>1. PICK t \in T : \A y \in T : t <= y
            <4>1. T \subseteq Nat
                OBVIOUS
            <4> QED
                BY <2>2, <4>1, LeastNumber
        <3>2. t \in 1 .. L /\ ~(list[t].start < x) /\ t - 1 \in 0 .. L
            BY <1>1, <3>1
        <3>3. ASSUME NEW i \in 1 .. L PROVE i <= t - 1 <=> list[i].start < x
            <4>1. CASE i < t
                <5>1. i \notin T /\ i <= t - 1
                    BY <1>1, <3>1, <3>2, <4>1
                <5> QED
                    BY <5>1
            <4>2. CASE ~(i < t)
                <5>1. i = t \/ t < i
                    BY <3>2, <4>2
                <5>2. ~(list[i].start < x) /\ ~(i <= t - 1)
                    BY <1>1, <1>2, <3>2, <4>2, <5>1
                <5> QED
                    BY <5>2
            <4> QED
                BY <4>1, <4>2
        <3> HIDE DEF T, L
        <3> QED
            BY <3>2, <3>3, ZenonT(30)
    <2> QED
        BY <2>1, <2>2
<1> QED
    BY <1>3 DEF Place

(* insert leaves a tidy map of what there was and the range.                *)
LEMMA InsertKeeps ==
    ASSUME NEW list, Tidy(list), NEW range \in Ranges
    PROVE  /\ Tidy(Insert(list, range))
           /\ \A b : Covers(Insert(list, range), b) <=> Covers(list, b) \/ b \in Bytes(range)
<1>1. range.start \in Int /\ range.end \in Int
    BY DEF Ranges, Offsets
<1>2. CASE IsEmpty(range)
    <2>1. Bytes(range) = {} /\ Insert(list, range) = list
        BY <1>1, <1>2 DEF IsEmpty, Bytes, Insert
    <2> QED
        BY <2>1
<1>3. CASE ~IsEmpty(range)
    <2>1. range.start < range.end
        BY <1>1, <1>3 DEF IsEmpty
    <2>2. PICK pass : pass = Pass(list, range)[Len(list)]
        OBVIOUS
    <2>3. /\ Clear(pass)
          /\ \A b : Holds(pass, b) <=> b \in Bytes(range) \/ Covers(list, b)
        BY <2>1, <2>2, PassClears
    <2>4. PICK q : q = pass.kept
        OBVIOUS
    <2>5. PICK m : m = pass.merged
        OBVIOUS
    <2>6. PICK p : p = Place(q, m.start)
        OBVIOUS
    <2>7. PICK r : r = Insert(list, range)
        OBVIOUS
    <2>8. r = SubSeq(q, 1, p) \o <<m>> \o SubSeq(q, p + 1, Len(q))
        <3>1. r = SubSeq(q, 1, (p + 1) - 1) \o <<m>> \o SubSeq(q, p + 1, Len(q))
            BY <1>3, <2>2, <2>4, <2>5, <2>6, <2>7 DEF Insert, InsertAt
        <3>2. Tidy(q) /\ m.start \in Int
            BY <2>3, <2>4, <2>5 DEF Clear, Accs, Ranges, Offsets
        <3>3. p \in 0 .. Len(q)
            BY <2>6, <3>2, PlaceFound
        <3>4. (p + 1) - 1 = p
            BY <3>3
        <3> QED
            BY <3>1, <3>4, Zenon
    <2>9. /\ Tidy(q) /\ q \in Seq(Ranges) /\ m \in Ranges /\ m.start < m.end /\ Len(q) \in Nat
          /\ m.start \in Int /\ m.end \in Int
          /\ \A i \in 1 .. Len(q) : q[i].end < m.start \/ m.end < q[i].start
          /\ \A i \in 1 .. Len(q) : q[i].start < q[i].end
          /\ \A i, j \in 1 .. Len(q) : i < j => q[i].end < q[j].start
        <3>1. Tidy(q) /\ m \in Ranges
            BY <2>3, <2>4, <2>5 DEF Clear, Accs
        <3>2. q \in Seq(Ranges) /\ Len(q) \in Nat
            BY <3>1 DEF Tidy
        <3> QED
            BY <2>3, <2>4, <2>5, <3>1, <3>2 DEF Clear, Tidy, Ranges, Offsets
    <2>10. p \in 0 .. Len(q) /\ \A i \in 1 .. Len(q) : i <= p <=> q[i].start < m.start
        BY <2>6, <2>9, PlaceFound
    <2>11. \A i \in 1 .. Len(q) : q[i] \in Ranges /\ q[i].start \in Int /\ q[i].end \in Int
        <3>1. \A x \in Ranges : x.start \in Int /\ x.end \in Int
            BY DEF Ranges, Offsets
        <3>2. \A i \in 1 .. Len(q) : q[i] \in Ranges
            BY <2>9
        <3> QED
            BY <3>1, <3>2
    <2>12. ASSUME NEW i \in 1 .. Len(q)
           PROVE  /\ i <= p => q[i].end < m.start
                  /\ ~(i <= p) => m.end < q[i].start
        BY <2>9, <2>10, <2>11
    <2>13. /\ r \in Seq(Ranges) /\ Len(r) = Len(q) + 1 /\ r[p + 1] = m
           /\ \A i \in 1 .. p : r[i] = q[i]
           /\ \A i \in p + 2 .. Len(q) + 1 : r[i] = q[i - 1]
        <3>1. /\ SubSeq(q, 1, p) \in Seq(Ranges) /\ Len(SubSeq(q, 1, p)) = p
              /\ \A i \in 1 .. p : SubSeq(q, 1, p)[i] = q[i]
            BY <2>9, <2>10
        <3>2. /\ SubSeq(q, p + 1, Len(q)) \in Seq(Ranges)
              /\ Len(SubSeq(q, p + 1, Len(q))) = Len(q) - p
              /\ \A i \in 1 .. Len(q) - p : SubSeq(q, p + 1, Len(q))[i] = q[p + i]
            BY <2>9, <2>10
        <3>3. PICK u \in Seq(Ranges) : u = SubSeq(q, 1, p)
            BY <3>1
        <3>4. PICK v \in Seq(Ranges) : v = SubSeq(q, p + 1, Len(q))
            BY <3>2
        <3>5. r = u \o <<m>> \o v
            BY <2>8, <3>3, <3>4
        <3>6. PICK w \in Seq(Ranges) : /\ w = u \o <<m>> /\ Len(w) = p + 1 /\ w[p + 1] = m
                                       /\ \A i \in 1 .. p : w[i] = u[i]
            <4>1. <<m>> \in Seq(Ranges) /\ Len(<<m>>) = 1 /\ <<m>>[1] = m /\ Len(u) = p /\ p \in Nat
                BY <2>9, <2>10, <3>1, <3>3
            <4>2. PICK w : w = u \o <<m>>
                OBVIOUS
            <4>3. /\ w \in Seq(Ranges) /\ Len(w) = p + 1
                  /\ \A i \in 1 .. p + 1 : w[i] = IF i <= p THEN u[i] ELSE <<m>>[i - p]
                BY <3>3, <4>1, <4>2, ConcatProperties
            <4>4. w[p + 1] = m /\ \A i \in 1 .. p : w[i] = u[i]
                <5>1. p + 1 \in 1 .. p + 1 /\ ~(p + 1 <= p) /\ (p + 1) - p = 1
                      /\ \A i \in 1 .. p : i \in 1 .. p + 1 /\ i <= p
                    BY <4>1
                <5>2. w[p + 1] = <<m>>[(p + 1) - p]
                    BY <4>3, <5>1
                <5> QED
                    BY <4>1, <4>3, <5>1, <5>2
            <4> QED
                BY <4>2, <4>3, <4>4
        <3>7. r \in Seq(Ranges) /\ Len(r) = Len(q) + 1
              /\ (\A i \in 1 .. p + 1 : r[i] = w[i])
              /\ \A i \in p + 2 .. Len(q) + 1 : r[i] = v[i - (p + 1)]
            <4>1. r = w \o v /\ Len(w) = p + 1 /\ Len(v) = Len(q) - p /\ p \in Nat /\ Len(q) \in Nat
                BY <2>9, <2>10, <3>2, <3>4, <3>5, <3>6
            <4>2. /\ r \in Seq(Ranges) /\ Len(r) = (p + 1) + (Len(q) - p)
                  /\ \A i \in 1 .. (p + 1) + (Len(q) - p) :
                        r[i] = IF i <= p + 1 THEN w[i] ELSE v[i - (p + 1)]
                <5>1. /\ w \o v \in Seq(Ranges) /\ Len(w \o v) = Len(w) + Len(v)
                      /\ \A i \in 1 .. Len(w) + Len(v) :
                            (w \o v)[i] = IF i <= Len(w) THEN w[i] ELSE v[i - Len(w)]
                    BY <3>4, <3>6, ConcatProperties, SMTT(30)
                <5> QED
                    BY <4>1, <5>1, ZenonT(30)
            <4>3. (p + 1) + (Len(q) - p) = Len(q) + 1 /\ p <= Len(q)
                BY <2>10, <4>1
            <4>4. /\ \A i \in 1 .. p + 1 : i \in 1 .. Len(q) + 1 /\ i <= p + 1
                  /\ \A i \in p + 2 .. Len(q) + 1 : i \in 1 .. Len(q) + 1 /\ ~(i <= p + 1)
                BY <4>1, <4>3
            <4> QED
                BY <4>2, <4>3, <4>4
        <3>8. \A i \in p + 2 .. Len(q) + 1 : v[i - (p + 1)] = q[i - 1]
            <4>1. ASSUME NEW i \in p + 2 .. Len(q) + 1 PROVE v[i - (p + 1)] = q[i - 1]
                <5>1. i - (p + 1) \in 1 .. Len(q) - p /\ p + (i - (p + 1)) = i - 1
                    BY <2>9, <2>10
                <5> QED
                    BY <3>2, <3>4, <5>1
            <4> QED
                BY <4>1
        <3>9. p + 1 \in 1 .. p + 1 /\ \A i \in 1 .. p : i \in 1 .. p + 1 /\ r[i] = q[i]
            BY <2>10, <3>1, <3>3, <3>6, <3>7
        <3> QED
            BY <3>6, <3>7, <3>8, <3>9
    <2>14. \A i \in 1 .. Len(r) :
              \/ i \in 1 .. p /\ i \in 1 .. Len(q) /\ r[i] = q[i]
              \/ i = p + 1 /\ r[i] = m
              \/ i \in p + 2 .. Len(q) + 1 /\ i - 1 \in 1 .. Len(q) /\ ~(i - 1 <= p) /\ r[i] = q[i - 1]
        BY <2>9, <2>10, <2>13
    <2>15. \A i \in 1 .. Len(r) : r[i].start < r[i].end
        BY <2>9, <2>14
    <2>16. ASSUME NEW i \in 1 .. Len(r), NEW j \in 1 .. Len(r), i < j
           PROVE  r[i].end < r[j].start
        <3>1. CASE i \in 1 .. p /\ i \in 1 .. Len(q) /\ r[i] = q[i]
            <4>1. CASE j \in 1 .. p /\ j \in 1 .. Len(q) /\ r[j] = q[j]
                BY <2>9, <2>16, <3>1, <4>1
            <4>2. CASE j = p + 1 /\ r[j] = m
                BY <2>10, <2>12, <3>1, <4>2
            <4>3. CASE j \in p + 2 .. Len(q) + 1 /\ j - 1 \in 1 .. Len(q) /\ r[j] = q[j - 1]
                BY <2>9, <2>10, <3>1, <4>3
            <4> QED
                BY <2>14, <4>1, <4>2, <4>3
        <3>2. CASE i = p + 1 /\ r[i] = m
            <4>1. j \in p + 2 .. Len(q) + 1 /\ j - 1 \in 1 .. Len(q) /\ ~(j - 1 <= p) /\ r[j] = q[j - 1]
                BY <2>10, <2>14, <2>16, <3>2
            <4> QED
                BY <2>12, <3>2, <4>1
        <3>3. CASE i \in p + 2 .. Len(q) + 1 /\ i - 1 \in 1 .. Len(q) /\ r[i] = q[i - 1]
            <4>1. j \in p + 2 .. Len(q) + 1 /\ j - 1 \in 1 .. Len(q) /\ r[j] = q[j - 1]
                BY <2>10, <2>14, <2>16, <3>3
            <4> QED
                BY <2>9, <2>10, <2>16, <3>3, <4>1
        <3> QED
            BY <2>14, <3>1, <3>2, <3>3
    <2>17. \A b : Covers(r, b) <=> b \in Bytes(m) \/ Covers(q, b)
        <3>1. \A b : Covers(r, b) => b \in Bytes(m) \/ Covers(q, b)
            BY <2>14 DEF Covers
        <3>2. \A b : b \in Bytes(m) => Covers(r, b)
            <4>1. p + 1 \in 1 .. Len(r)
                BY <2>9, <2>10, <2>13
            <4> QED
                BY <2>13, <4>1 DEF Covers
        <3>3. \A b : Covers(q, b) => Covers(r, b)
            <4>1. ASSUME NEW i \in 1 .. Len(q) PROVE \E j \in 1 .. Len(r) : r[j] = q[i]
                <5>1. CASE i <= p
                    <6>1. i \in 1 .. p /\ i \in 1 .. Len(r)
                        BY <2>9, <2>10, <2>13, <5>1
                    <6> QED
                        BY <2>13, <6>1
                <5>2. CASE ~(i <= p)
                    <6>1. i + 1 \in p + 2 .. Len(q) + 1 /\ i + 1 \in 1 .. Len(r) /\ (i + 1) - 1 = i
                        BY <2>9, <2>10, <2>13, <5>2
                    <6> QED
                        BY <2>13, <6>1
                <5> QED
                    BY <5>1, <5>2
            <4> QED
                BY <4>1 DEF Covers
        <3> QED
            BY <3>1, <3>2, <3>3
    <2> QED
        BY <2>3, <2>4, <2>5, <2>7, <2>13, <2>15, <2>16, <2>17 DEF Tidy, Holds
<1> QED
    BY <1>2, <1>3

(* contiguous_from: it counts up to the next byte that is missing.          *)
LEMMA ContiguousCounts ==
    ASSUME NEW list, Tidy(list), NEW o \in Int, NEW n, n = ContiguousFrom(list, o)
    PROVE  /\ n \in Nat /\ (n = 0 <=> ~Covers(list, o))
           /\ \A b \in o .. o + n - 1 : Covers(list, b)
           /\ ~Covers(list, o + n)
           /\ n # 0 => o + n <= FileSize
<1>1. /\ DOMAIN list = 1 .. Len(list) /\ Len(list) \in Nat
      /\ \A i \in 1 .. Len(list) : list[i].start \in Int /\ list[i].end \in Int
                                   /\ list[i].end <= FileSize
    <2>1. \A r \in Ranges : r.start \in Int /\ r.end \in Int /\ r.end <= FileSize
        BY FileSizeAssumption DEF Ranges, Offsets
    <2>2. list \in Seq(Ranges)
        BY DEF Tidy
    <2>3. \A i \in 1 .. Len(list) : list[i] \in Ranges
        BY <2>2
    <2> QED
        BY <2>1, <2>2, <2>3
<1>2. \A i \in 1 .. Len(list) : \A b :
          b \in Bytes(list[i]) <=> b \in Int /\ list[i].start <= b /\ b < list[i].end
    BY <1>1 DEF Bytes
<1>3. CASE ~Covers(list, o)
    <2>1. Around(list, o) = {}
        BY <1>1, <1>3 DEF Around, Covers
    <2>2. n = 0
        BY <2>1 DEF ContiguousFrom
    <2> QED
        BY <1>3, <2>2
<1>4. CASE Covers(list, o)
    <2>1. Around(list, o) # {}
        BY <1>1, <1>4 DEF Around, Covers
    <2>2. PICK i : i \in Around(list, o) /\ n = list[i].end - o
        BY <2>1 DEF ContiguousFrom
    <2>3. i \in 1 .. Len(list) /\ list[i].start <= o /\ o < list[i].end
        BY <1>1, <1>2, <2>2 DEF Around
    <2>4. n \in Nat /\ n # 0 /\ o + n = list[i].end
        <3>1. PICK e \in Int : e = list[i].end
            BY <1>1, <2>3
        <3>2. n = e - o /\ o < e
            BY <2>2, <2>3, <3>1
        <3>3. n \in Nat /\ n # 0 /\ o + n = e
            BY <3>2
        <3> QED
            BY <3>1, <3>3
    <2>5. ASSUME NEW b \in o .. o + n - 1 PROVE Covers(list, b)
        <3>1. b \in Int /\ o <= b /\ b <= o + n - 1 /\ list[i].start \in Int /\ list[i].end \in Int
            BY <1>1, <2>3, <2>4
        <3>2. list[i].start <= b /\ b < list[i].end
            BY <2>3, <2>4, <3>1
        <3>3. b \in Bytes(list[i])
            BY <1>2, <2>3, <3>1, <3>2
        <3> QED
            BY <2>3, <3>3 DEF Covers
    <2>6. ASSUME NEW j \in 1 .. Len(list), o + n \in Bytes(list[j]) PROVE FALSE
        <3>1. list[j].start <= list[i].end /\ list[i].end < list[j].end
            BY <1>2, <2>4, <2>6
        <3>2. j # i /\ (i < j => list[i].end < list[j].start) /\ (j < i => list[j].end < list[i].start)
            BY <1>1, <2>3, <3>1 DEF Tidy
        <3>3. list[i].start < list[i].end
            BY <2>3 DEF Tidy
        <3> QED
            BY <1>1, <2>3, <3>1, <3>2, <3>3
    <2>7. o + n <= FileSize
        BY <1>1, <2>3, <2>4
    <2> QED
        BY <1>4, <2>4, <2>5, <2>6, <2>7 DEF Covers
<1> QED
    BY <1>3, <1>4

(* has_range: the bytes it answers for are there.                           *)
LEMMA HasRangeCovers ==
    ASSUME NEW list, Tidy(list), NEW o \in Int, NEW n \in Nat, n > 0, HasRange(list, o, n)
    PROVE  \A b \in o .. o + n - 1 : Covers(list, b)
<1>1. PICK i \in 1 .. Len(list) : list[i].start <= o /\ o + n <= list[i].end
    <2>1. DOMAIN list = 1 .. Len(list)
        BY DEF Tidy
    <2>2. PICK i \in 1 .. Len(list) : ContainsRange(list[i], [start |-> o, end |-> o + n])
        BY <2>1 DEF HasRange
    <2>3. list[i] \in Ranges
        BY DEF Tidy
    <2> QED
        BY <2>2, <2>3 DEF ContainsRange, Ranges, Offsets
<1>2. list[i] \in Ranges
    BY DEF Tidy
<1> QED
    BY <1>1, <1>2 DEF Covers, Bytes, Ranges, Offsets

(* A tidy map of what arrived answers every question about it.              *)
LEMMA TidyIsExact ==
    ASSUME Tidy(ranges), \A b : Covers(ranges, b) <=> b \in arrived
    PROVE  MapIsExact
<1>1. /\ ranges \in Seq(Ranges) /\ DOMAIN ranges = 1 .. Len(ranges) /\ Len(ranges) \in Nat
      /\ \A i \in 1 .. Len(ranges) :
            /\ ranges[i].start \in Nat /\ ranges[i].end \in Nat /\ ranges[i].end <= FileSize
            /\ ranges[i].start < ranges[i].end
    <2>1. \A r \in Ranges : r.start \in Nat /\ r.end \in Nat /\ r.end <= FileSize
        BY FileSizeAssumption DEF Ranges, Offsets
    <2>2. ranges \in Seq(Ranges)
        BY DEF Tidy
    <2>3. \A i \in 1 .. Len(ranges) : ranges[i] \in Ranges
        BY <2>2
    <2> QED
        BY <2>1, <2>2, <2>3 DEF Tidy
<1>2. \A i \in 1 .. Len(ranges) : \A b :
          b \in Bytes(ranges[i]) <=> b \in Int /\ ranges[i].start <= b /\ b < ranges[i].end
    BY <1>1 DEF Bytes
<1>3. \A i, j \in 1 .. Len(ranges) : i < j => ranges[i].end < ranges[j].start
    BY DEF Tidy
<1>4. Available(ranges) = arrived
    BY <1>1 DEF Available, Covers
<1>5. \A i \in DOMAIN ranges : ~IsEmpty(ranges[i])
    BY <1>1 DEF IsEmpty
<1>6. \A i \in 1 .. Len(ranges) - 1 : ranges[i].end < ranges[i + 1].start
    <2>1. \A i \in 1 .. Len(ranges) - 1 : i \in 1 .. Len(ranges) /\ i + 1 \in 1 .. Len(ranges) /\ i < i + 1
        BY <1>1
    <2> QED
        BY <1>3, <2>1
<1>7. ASSUME IsComplete(ranges)
      PROVE  FileSize > 0 /\ arrived = 0 .. FileSize - 1
    <2>1. Len(ranges) = 1 /\ 1 \in 1 .. Len(ranges) /\ ranges[1].start = 0 /\ ranges[1].end = FileSize
        BY <1>1, <1>7, FileSizeAssumption DEF IsComplete
    <2>2. \A b : b \in arrived <=> b \in Bytes(ranges[1])
        BY <2>1 DEF Covers
    <2> QED
        BY <1>1, <2>1, <2>2 DEF Bytes
<1>8. ASSUME FileSize > 0, arrived = 0 .. FileSize - 1
      PROVE  IsComplete(ranges)
    <2>1. PICK i \in 1 .. Len(ranges) : 0 \in Bytes(ranges[i])
        <3>1. 0 \in arrived
            BY <1>8, FileSizeAssumption
        <3> QED
            BY <3>1 DEF Covers
    <2>2. ranges[i].start = 0 /\ 0 < ranges[i].end
        BY <1>1, <1>2, <2>1
    <2>3. ASSUME ranges[i].end < FileSize PROVE FALSE
        <3>1. ranges[i].end \in arrived
            BY <1>1, <1>8, <2>3, FileSizeAssumption
        <3>2. PICK j \in 1 .. Len(ranges) : ranges[i].end \in Bytes(ranges[j])
            BY <3>1 DEF Covers
        <3>3. ranges[j].start <= ranges[i].end /\ ranges[i].end < ranges[j].end
            BY <1>2, <3>2
        <3> QED
            BY <1>1, <1>3, <2>2, <3>3
    <2>4. ranges[i].end = FileSize
        BY <1>1, <2>3, FileSizeAssumption
    <2>5. ASSUME NEW j \in 1 .. Len(ranges), j # i PROVE FALSE
        <3>1. i < j \/ j < i
            BY <2>5
        <3> QED
            BY <1>1, <1>3, <2>2, <2>4, <3>1, FileSizeAssumption
    <2>6. Len(ranges) = 1
        <3>1. 1 \in 1 .. Len(ranges) /\ Len(ranges) \in 1 .. Len(ranges)
            BY <1>1, <2>1
        <3>2. 1 = i /\ Len(ranges) = i
            BY <2>5, <3>1, Zenon
        <3> QED
            BY <3>2, Zenon
    <2> QED
        BY <2>1, <2>2, <2>4, <2>6, FileSizeAssumption DEF IsComplete
<1>9. ASSUME NEW o \in Offsets
      PROVE  LET missing == (o .. FileSize - 1) \ arrived
             IN  FirstGapFrom(ranges, o) = IF missing = {} THEN NoGap ELSE Min(missing)
    <2> DEFINE missing == (o .. FileSize - 1) \ arrived
    <2>1. PICK n : n = ContiguousFrom(ranges, o)
        OBVIOUS
    <2>2. /\ n \in Nat /\ ~Covers(ranges, o + n)
          /\ \A b \in o .. o + n - 1 : Covers(ranges, b)
        BY <2>1, ContiguousCounts DEF Offsets
    <2>3. FirstGapFrom(ranges, o) = IF o + n >= FileSize THEN NoGap ELSE o + n
        BY <2>1 DEF FirstGapFrom
    <2>4. o \in Nat /\ FileSize \in Nat
        BY FileSizeAssumption DEF Offsets
    <2>5. \A b \in missing : b \in Int /\ o <= b /\ b < FileSize /\ ~(b \in o .. o + n - 1)
        BY <2>2, <2>4
    <2>6. \A b \in missing : o + n <= b
        BY <2>2, <2>4, <2>5
    <2>7. CASE o + n >= FileSize
        <3>1. missing = {}
            BY <2>2, <2>4, <2>5, <2>6, <2>7
        <3> QED
            BY <2>3, <2>7, <3>1
    <2>8. CASE ~(o + n >= FileSize)
        <3>1. o + n \in missing
            BY <2>2, <2>4, <2>8
        <3>2. \A x \in missing : (\A y \in missing : x <= y) => x = o + n
            <4>1. ASSUME NEW x \in missing, \A y \in missing : x <= y PROVE x = o + n
                <5>1. x <= o + n /\ o + n <= x /\ x \in Int
                    BY <2>5, <2>6, <3>1, <4>1
                <5> QED
                    BY <2>2, <2>4, <5>1
            <4> QED
                BY <4>1
        <3>3. Min(missing) = o + n
            <4> HIDE DEF missing
            <4> QED
                BY <2>6, <3>1, <3>2 DEF Min
        <3>4. missing # {} /\ FirstGapFrom(ranges, o) = o + n
            BY <2>3, <2>8, <3>1
        <3> HIDE DEF missing
        <3> QED
            BY <3>3, <3>4 DEF missing
    <2> QED
        BY <2>7, <2>8
<1> QED
    BY <1>4, <1>5, <1>6, <1>7, <1>8, <1>9 DEF MapIsExact

-----------------------------------------------------------------------------
(* Between the evaluation of its condition and its sleep the reader holds   *)
(* the mutex, so that what it found is still so; and a flag that is set is  *)
(* set for good.                                                            *)
Waiting == {"test", "drowsy", "asleep", "awake", "timeout"}

ReaderTyped ==
    /\ Tidy(ranges) /\ \A b : Covers(ranges, b) <=> b \in arrived
    /\ position \in Offsets /\ len \in Nat /\ call \in {"read", "prebuffer"}
    /\ pc \in Waiting \cup {"idle", "fast", "disk"}

FoundStillSo ==
    ~cancelled => /\ pc = "awake" => ~KeepWaiting
                  /\ pc \in {"drowsy", "timeout"} => KeepWaiting
                  /\ pc = "asleep" /\ ~notified => KeepWaiting

LengthFits ==
    /\ pc = "fast" => call = "read"
    /\ pc \in Waiting \cup {"fast"} /\ call = "read" => len > 0
    /\ pc = "disk" => call = "read"

ReaderInv == ReaderTyped /\ FoundStillSo /\ LengthFits /\ ReadsArrivedBytes

(* The condition depends on these alone.                                    *)
LEMMA ConditionStays ==
    ASSUME ranges' = ranges, position' = position, call' = call, cancelled' = cancelled
    PROVE  KeepWaiting' <=> KeepWaiting
BY DEF KeepWaiting, Buffered, PlaybackReady

LEMMA ReaderStart == Init => ReaderInv
<1> SUFFICES ASSUME Init PROVE ReaderInv
    OBVIOUS
<1>1. Tidy(<<>>) /\ \A b : ~Covers(<<>>, b)
    BY DEF Tidy, Covers
<1>2. ReaderTyped
    BY <1>1, FileSizeAssumption DEF Init, ReaderTyped, Offsets, Waiting
<1> QED
    BY <1>2 DEF Init, ReaderInv, FoundStillSo, LengthFits, ReadsArrivedBytes, Waiting

LEMMA AnnounceKeeps ==
    ASSUME ReaderInv, NEW range \in Ranges, Announce(range)
    PROVE  ReaderInv'
<1>1. /\ ranges' = Insert(ranges, range) /\ arrived' = arrived \cup Bytes(range)
      /\ position' = position /\ pc' = pc /\ call' = call /\ len' = len /\ cancelled' = cancelled
      /\ pc \notin {"drowsy", "awake", "timeout"}
      /\ notified' = (notified \/ pc = "asleep")
    BY DEF Announce, Held, NotifyAll
<1>2. Tidy(ranges') /\ \A b : Covers(ranges', b) <=> b \in arrived'
    BY <1>1, InsertKeeps DEF ReaderInv, ReaderTyped
<1>3. ReaderTyped'
    BY <1>1, <1>2 DEF ReaderInv, ReaderTyped
<1>4. FoundStillSo'
    BY <1>1 DEF FoundStillSo
<1>5. LengthFits' /\ ReadsArrivedBytes'
    BY <1>1 DEF ReaderInv, LengthFits, ReadsArrivedBytes
<1> QED
    BY <1>3, <1>4, <1>5 DEF ReaderInv

(* What a step of the reader, and no announcement, leaves as it was.        *)
Quiet == ranges' = ranges /\ arrived' = arrived /\ cancelled' = cancelled

LEMMA CallsKeep ==
    ASSUME ReaderInv, Calls
    PROVE  ReaderInv'
<1> USE DEF ReaderInv
<1>1. position \in Nat /\ FileSize \in Nat /\ position <= FileSize /\ pc = "idle" /\ Quiet
    BY FileSizeAssumption DEF ReaderTyped, Offsets, Calls, Read, WaitForPrebuffer, Seek, Goto, Quiet
<1>2. ASSUME NEW n \in Lengths, Read(n) PROVE ReaderInv'
    <2>1. n \in Nat /\ n > 0
        BY StreamingAssumption
    <2>2. /\ position' = position /\ call' = "read" /\ len' = Least(n, FileSize - position)
          /\ (pc' = "idle" \/ (pc' = "fast" /\ position < FileSize))
        BY <1>1, <1>2 DEF Read, Goto
    <2>3. len' \in Nat /\ (pc' = "fast" => len' > 0)
        BY <1>1, <2>1, <2>2 DEF Least
    <2> QED
        BY <1>1, <2>2, <2>3 DEF Quiet, ReaderTyped, FoundStillSo, LengthFits, ReadsArrivedBytes, Waiting
<1>3. CASE WaitForPrebuffer
    BY <1>1, <1>3 DEF WaitForPrebuffer, Goto, Quiet, ReaderTyped, FoundStillSo, LengthFits,
        ReadsArrivedBytes, Waiting
<1>4. ASSUME NEW to \in Offsets \cup {FileSize + 1}, Seek(to) PROVE ReaderInv'
    <2>1. position' = Least(to, FileSize) /\ pc' = "idle" /\ call' = call /\ len' = len
        BY <1>4 DEF Seek, Goto
    <2>2. position' \in Offsets
        BY <1>1, <2>1 DEF Least, Offsets
    <2> QED
        BY <1>1, <2>1, <2>2 DEF Quiet, ReaderTyped, FoundStillSo, LengthFits, ReadsArrivedBytes, Waiting
<1> QED
    BY <1>2, <1>3, <1>4 DEF Calls

(* What was found there stays there while the disk is read.                 *)
LEMMA StepsKeep ==
    ASSUME ReaderInv, Steps
    PROVE  ReaderInv'
<1> USE DEF ReaderInv
<1>1. Quiet /\ position \in Nat /\ FileSize \in Nat
    BY FileSizeAssumption DEF ReaderTyped, Offsets, Steps, Quiet,
       FastPath, TestCondition, FallAsleep, WakeUp, AfterWait, ReadFromDisk
<1>2. CASE FastPath
    <2>1. /\ pc = "fast" /\ position' = position /\ call' = call /\ len' = len /\ notified' = notified
          /\ pc' = "test" \/ (pc' = "disk" /\ HasRange(ranges, position, len))
        BY <1>2 DEF FastPath, Goto
    <2>2. call = "read" /\ len > 0
        BY <2>1 DEF LengthFits, Waiting
    <2>3. HasRange(ranges, position, len) => position .. position + len - 1 \subseteq arrived
        BY <1>1, <2>2, HasRangeCovers DEF ReaderTyped
    <2> QED
        BY <1>1, <2>1, <2>2, <2>3 DEF Quiet, ReaderTyped, FoundStillSo, LengthFits, ReadsArrivedBytes, Waiting
<1>3. CASE TestCondition
    <2>1. /\ pc = "test" /\ position' = position /\ call' = call /\ len' = len
          /\ \/ ~KeepWaiting /\ pc' = "awake"
             \/ KeepWaiting /\ pc' \in {"drowsy", "timeout"}
        BY <1>3 DEF TestCondition, Goto
    <2>2. KeepWaiting' <=> KeepWaiting
        BY <1>1, <2>1, ConditionStays DEF Quiet
    <2> QED
        BY <1>1, <2>1, <2>2 DEF Quiet, ReaderTyped, FoundStillSo, LengthFits, ReadsArrivedBytes, Waiting
<1>4. CASE FallAsleep
    <2>1. pc = "drowsy" /\ pc' = "asleep" /\ position' = position /\ call' = call /\ len' = len
        BY <1>4 DEF FallAsleep, Goto
    <2>2. KeepWaiting' <=> KeepWaiting
        BY <1>1, <2>1, <1>4, ConditionStays DEF Quiet
    <2> QED
        BY <1>1, <2>1, <2>2 DEF Quiet, ReaderTyped, FoundStillSo, LengthFits, ReadsArrivedBytes, Waiting
<1>5. CASE WakeUp
    BY <1>1, <1>5 DEF WakeUp, Goto, Quiet, ReaderTyped, FoundStillSo, LengthFits, ReadsArrivedBytes, Waiting
<1>6. CASE AfterWait
    <2>1. /\ pc \in {"awake", "timeout"} /\ position' = position /\ call' = call
          /\ \/ pc' = "idle" /\ len' = len
             \/ pc = "awake" /\ pc' = "disk" /\ ~cancelled /\ call = "read" /\ len' = ReadLen
        BY <1>6 DEF AfterWait, Goto
    <2>2. CASE pc' = "idle" /\ len' = len
        BY <1>1, <2>1, <2>2 DEF Quiet, ReaderTyped, FoundStillSo, LengthFits, ReadsArrivedBytes, Waiting
    <2>3. CASE pc = "awake" /\ pc' = "disk" /\ ~cancelled /\ call = "read" /\ len' = ReadLen
        <3>1. Buffered # 0
            BY <2>3 DEF FoundStillSo, KeepWaiting
        <3>2. Buffered \in Nat /\ \A b \in position .. position + Buffered - 1 : b \in arrived
            BY <1>1, ContiguousCounts DEF Buffered, ReaderTyped
        <3>3. len > 0 /\ len \in Nat
            BY <2>3 DEF LengthFits, ReaderTyped, Waiting
        <3>4. len' \in Nat /\ len' > 0 /\ len' <= Buffered
            BY <2>3, <3>1, <3>2, <3>3 DEF ReadLen, Least
        <3>5. position .. position + len' - 1 \subseteq arrived
            <4>1. PICK m \in Nat, n \in Nat : m = len' /\ n = Buffered /\ m <= n
                BY <3>2, <3>4
            <4>2. \A b \in position .. position + m - 1 : b \in position .. position + n - 1
                <5>1. m <= n
                    BY <4>1
                <5> QED
                    BY <1>1, <5>1
            <4> QED
                BY <3>2, <4>1, <4>2
        <3> QED
            BY <1>1, <2>1, <2>3, <3>4, <3>5 DEF Quiet, ReaderTyped, FoundStillSo, LengthFits,
               ReadsArrivedBytes, Waiting
    <2> QED
        BY <2>1, <2>2, <2>3
<1>7. CASE ReadFromDisk
    <2>1. pc = "disk" /\ pc' = "idle" /\ position' = position + len /\ call' = call /\ len' = len
        BY <1>7 DEF ReadFromDisk, Goto
    <2>2. len \in Nat /\ len > 0 /\ position + len - 1 \in arrived
        BY <1>1, <2>1 DEF ReadsArrivedBytes, ReaderTyped
    <2>3. PICK i \in 1 .. Len(ranges) : position + len - 1 \in Bytes(ranges[i])
        BY <2>2 DEF ReaderTyped, Covers
    <2>4. ranges[i] \in Ranges
        BY DEF ReaderTyped, Tidy
    <2>5. position + len \in Offsets
        BY <1>1, <2>2, <2>3, <2>4 DEF Bytes, Ranges, Offsets
    <2> QED
        BY <1>1, <2>1, <2>5 DEF Quiet, ReaderTyped, FoundStillSo, LengthFits, ReadsArrivedBytes, Waiting
<1> QED
    BY <1>2, <1>3, <1>4, <1>5, <1>6, <1>7 DEF Steps

LEMMA CancelKeeps ==
    ASSUME ReaderInv, CancelStores \/ CancelNotifies \/ TimePasses \/ UNCHANGED vars
    PROVE  ReaderInv'
<1>1. /\ ranges' = ranges /\ arrived' = arrived /\ position' = position /\ pc' = pc
      /\ call' = call /\ len' = len
    BY DEF CancelStores, CancelNotifies, TimePasses, vars, reader
<1>2. ReaderTyped' /\ LengthFits' /\ ReadsArrivedBytes'
    BY <1>1 DEF ReaderInv, ReaderTyped, LengthFits, ReadsArrivedBytes
<1>3. \/ cancelled' = TRUE
      \/ cancelled' = cancelled /\ (notified' = notified \/ notified' = (notified \/ pc = "asleep"))
    BY DEF CancelStores, CancelNotifies, TimePasses, vars, reader, NotifyAll
<1>4. FoundStillSo'
    <2>1. CASE cancelled' = TRUE
        BY <2>1 DEF FoundStillSo
    <2>2. CASE cancelled' = cancelled /\ (notified' = notified \/ notified' = (notified \/ pc = "asleep"))
        <3>1. KeepWaiting' <=> KeepWaiting
            BY <1>1, <2>2, ConditionStays
        <3>2. pc' = "asleep" /\ ~notified' => ~notified
            BY <1>1, <2>2
        <3> QED
            BY <1>1, <2>2, <3>1, <3>2 DEF ReaderInv, FoundStillSo
    <2> QED
        BY <1>3, <2>1, <2>2
<1> QED
    BY <1>2, <1>4 DEF ReaderInv

LEMMA ReaderNext == ReaderInv /\ [Next]_vars => ReaderInv'
<1> SUFFICES ASSUME ReaderInv, [Next]_vars PROVE ReaderInv'
    OBVIOUS
<1>1. ASSUME PieceCompleted \/ MarkComplete PROVE ReaderInv'
    <2>1. [start |-> 0, end |-> FileSize] \in Ranges /\ Arrivals \subseteq Ranges
        BY FileSizeAssumption, StreamingAssumption DEF Ranges, Offsets
    <2> QED
        BY <1>1, <2>1, AnnounceKeeps DEF PieceCompleted, MarkComplete
<1> QED
    BY <1>1, CallsKeep, StepsKeep, CancelKeeps DEF Next, Notifiers

(* An answer is given with the mutex held since the condition was found.    *)
Fitting ==
    /\ outcome' = "timedout" /\ outcome # "timedout" => position \notin arrived
    /\ outcome' = "ready" /\ outcome # "ready" => PlaybackReady
    /\ outcome' = "notready" /\ outcome # "notready" => ~PlaybackReady

LEMMA BufferedTells ==
    ASSUME ReaderInv
    PROVE  Buffered = 0 <=> position \notin arrived
<1>1. position \in Int
    BY DEF ReaderInv, ReaderTyped, Offsets
<1> QED
    BY <1>1, ContiguousCounts DEF Buffered, ReaderInv, ReaderTyped

LEMMA AnswersAreFitting == ReaderInv /\ [Next]_vars => Fitting
<1> SUFFICES ASSUME ReaderInv, [Next]_vars PROVE Fitting
    OBVIOUS
<1>1. CASE AfterWait
    <2>1. \/ outcome' \in {"interrupted", outcome}
          \/ pc = "timeout" /\ ~cancelled /\ outcome' = IF call = "read" THEN "timedout" ELSE "notready"
          \/ pc = "awake" /\ ~cancelled /\ call = "prebuffer" /\ outcome' = "ready"
        BY <1>1 DEF AfterWait, Goto, Return
    <2>2. call \in {"read", "prebuffer"}
        BY DEF ReaderInv, ReaderTyped
    <2>3. CASE outcome' \in {"interrupted", outcome}
        BY <2>3 DEF Fitting
    <2>4. CASE pc = "timeout" /\ ~cancelled /\ outcome' = IF call = "read" THEN "timedout" ELSE "notready"
        <3>1. KeepWaiting
            BY <2>4 DEF ReaderInv, FoundStillSo
        <3>2. CASE call = "read"
            BY <2>4, <3>1, <3>2, BufferedTells DEF KeepWaiting, Fitting
        <3>3. CASE call = "prebuffer"
            BY <2>4, <3>1, <3>3 DEF KeepWaiting, Fitting
        <3> QED
            BY <2>2, <3>2, <3>3
    <2>5. CASE pc = "awake" /\ ~cancelled /\ call = "prebuffer" /\ outcome' = "ready"
        <3>1. ~KeepWaiting
            BY <2>5 DEF ReaderInv, FoundStillSo
        <3> QED
            BY <2>5, <3>1 DEF KeepWaiting, Fitting
    <2> QED
        BY <2>1, <2>3, <2>4, <2>5
<1>2. CASE ~AfterWait
    <2>1. outcome' \in {outcome, "eof", "none", "bytes"}
        BY <1>2 DEF Next, Notifiers, PieceCompleted, MarkComplete, Announce, CancelStores, CancelNotifies,
           Calls, Read, WaitForPrebuffer, Seek, Steps, FastPath, TestCondition, FallAsleep, WakeUp,
           ReadFromDisk, TimePasses, Return, Begin, vars, reader
    <2> QED
        BY <2>1 DEF Fitting
<1> QED
    BY <1>1, <1>2

(* For any file, any pieces, lengths and amounts to prebuffer: the map is   *)
(* exact, what is read has arrived, no announcement is slept over, and the  *)
(* answers fit (ByteRangeMap::insert, StreamingReader, StreamNotifier).     *)
THEOREM ReadsHold == Spec => ReadsAreSound
<1>1. ReaderInv => MapIsExact /\ ReadsArrivedBytes /\ SleeperLacksData
    <2> SUFFICES ASSUME ReaderInv PROVE MapIsExact /\ ReadsArrivedBytes /\ SleeperLacksData
        OBVIOUS
    <2>1. MapIsExact
        BY TidyIsExact DEF ReaderInv, ReaderTyped
    <2>2. SleeperLacksData
        <3>1. call \in {"read", "prebuffer"}
            BY DEF ReaderInv, ReaderTyped
        <3>2. pc = "asleep" /\ ~notified /\ ~cancelled => KeepWaiting
            BY DEF ReaderInv, FoundStillSo
        <3> QED
            BY <3>1, <3>2, BufferedTells DEF SleeperLacksData, KeepWaiting
    <2> QED
        BY <2>1, <2>2 DEF ReaderInv
<1>2. ReaderInv /\ [Next]_vars => [Fitting]_vars
    BY AnswersAreFitting
<1>3. Spec => []ReaderInv
    BY ReaderStart, ReaderNext, PTL DEF Spec
<1>4. Spec => [][Fitting]_vars
    BY <1>2, <1>3, PTL DEF Spec
<1> QED
    BY <1>1, <1>3, <1>4, PTL DEF ReadsAreSound, AnswersFit, Fitting
=============================================================================
