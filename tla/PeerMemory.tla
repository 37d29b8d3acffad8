----------------------------- MODULE PeerMemory ----------------------------
(***************************************************************************)
(* What is remembered of a peer (p2p-distribute): PeerStats in a session   *)
(* (peer_stats.rs), the PeerReputation a session leaves, and the .peers    *)
(* file that carries it over restarts and crashes (PeerState, resume.rs).  *)
(***************************************************************************)
EXTENDS Integers, Sequences

CONSTANTS
    EstablishedAt, TrustedAt,   \* ESTABLISHED_THRESHOLD, TRUSTED_THRESHOLD
    BaseExclusion, MaxExclusion,
    SharedAt, SubnetAt,         \* corroborations that widen an exclusion
    MaxEvents,                  \* bound: events of a session
    MaxSessions,                \* bound: sessions
    MaxTicks                    \* bound: the clock of a session

ASSUME MemoryAssumption ==
    /\ {EstablishedAt, TrustedAt, SharedAt, SubnetAt, MaxExclusion} \subseteq Nat
    /\ BaseExclusion \in 1 .. MaxExclusion

VARIABLES
    stats,      \* PeerStats of the one peer that is followed
    known,      \* its identity is registered in this session
    prior,      \* prior_reputations, as the session was given them
    pastFile,   \* the .peers file
    tmpFile,    \* its .tmp sibling
    saving,     \* what save() is writing of it, or NoFile
    session, events, ticks

memoryVars ==
    <<stats, known, prior, pastFile, tmpFile, saving, session, events, ticks>>

(* PeerReputation.  What a file has of the peer: its reputation, nothing,   *)
(* or there is no file, or one that does not load.  The exclusion counts    *)
(* beside it are numbers of the caller's that nothing reads back.           *)
Reputation(level, pieces, corruption, banned) ==
    [trust_level |-> level, lifetime_pieces_served |-> pieces,
     lifetime_corruption_count |-> corruption, banned |-> banned]
NoReputation == Reputation("none", 0, 0, FALSE)
Torn == Reputation("torn", 0, 0, FALSE)
NoFile == Reputation("absent", 0, 0, FALSE)

(* ExclusionEntry; without a backoff it is None. *)
NoExclusion == [until |-> 0, backoff |-> 0, corroborations |-> 0]

TrustLevels == {"Untested", "Probationary", "Established", "Trusted"}

(* trust_level. *)
TrustLevel(s) ==
    IF s.pieces_served >= TrustedAt THEN "Trusted"
    ELSE IF s.pieces_served >= EstablishedAt THEN "Established"
    ELSE IF s.pieces_served > 0 THEN "Probationary"
    ELSE "Untested"

NewStats ==
    [pieces_served |-> 0, pieces_requested |-> 0, corruption_count |-> 0,
     last_rejection |-> "none", transient |-> 0,
     in_parole |-> FALSE, exclusion |-> NoExclusion]

MemoryInit ==
    /\ stats = NewStats /\ known = FALSE
    /\ prior = NoReputation /\ pastFile = NoFile /\ tmpFile = NoFile
    /\ saving = NoFile
    /\ session = 1 /\ events = 0 /\ ticks = 0

Event(newStats) ==
    /\ events < MaxEvents /\ saving = NoFile
    /\ events' = events + 1
    /\ stats' = newStats
    /\ UNCHANGED <<known, prior, pastFile, tmpFile, saving, session, ticks>>

(* record_success, with record_parole_success: one whole piece is enough to *)
(* leave parole.                                                            *)
RecordSuccess ==
    Event([stats EXCEPT !.pieces_served = @ + 1, !.pieces_requested = @ + 1,
                        !.transient = 0, !.in_parole = FALSE])

(* record_corruption, and what the coordinator may make of it: parole, or   *)
(* an exclusion that is new or twice as long as the last (apply_exclusion). *)
Corrupted ==
    [stats EXCEPT !.pieces_requested = @ + 1, !.corruption_count = @ + 1]

Excluded(s) ==
    LET backoff == IF s.exclusion = NoExclusion THEN BaseExclusion
                   ELSE IF 2 * s.exclusion.backoff > MaxExclusion THEN MaxExclusion
                   ELSE 2 * s.exclusion.backoff
    IN  [s EXCEPT !.exclusion.until = ticks + backoff, !.exclusion.backoff = backoff]

RecordCorruption ==
    \/ Event(Corrupted)
    \/ Event([Corrupted EXCEPT !.in_parole = TRUE])
    \/ Event(Excluded(Corrupted))

(* record_rejection: the last reason is kept, whatever came before.         *)
RecordRejection(reason) ==
    Event([stats EXCEPT !.pieces_requested = @ + 1, !.last_rejection = reason,
                        !.transient = IF reason = "transient" THEN @ + 1 ELSE @])

(* add_corroboration: another source reports the peer.                      *)
AddCorroboration ==
    /\ stats.exclusion # NoExclusion
    /\ Event([stats EXCEPT !.exclusion.corroborations = @ + 1])

ExclusionScope(e) ==
    IF e.corroborations >= SubnetAt THEN "Subnet"
    ELSE IF e.corroborations >= SharedAt THEN "Shared"
    ELSE "Local"

IsExcluded(s) == s.exclusion # NoExclusion /\ ticks < s.exclusion.until

ShouldAvoidPermanently(s) == s.last_rejection = "permanent"

MemoryTick ==
    /\ ticks < MaxTicks /\ saving = NoFile
    /\ ticks' = ticks + 1
    /\ UNCHANGED <<stats, known, prior, pastFile, tmpFile, saving, session, events>>

-----------------------------------------------------------------------------
(* register_identity: a returning peer is given the pieces of its trust     *)
(* level, a banned one the rejection that bans it.                          *)
Threshold(level) ==
    CASE level = "Untested" -> 0
      [] level = "Probationary" -> 1
      [] level = "Established" -> EstablishedAt
      [] level = "Trusted" -> TrustedAt

RegisterIdentity ==
    /\ ~known /\ saving = NoFile
    /\ known' = TRUE
    /\ stats' =
          IF prior = NoReputation THEN stats
          ELSE IF prior.banned THEN [stats EXCEPT !.last_rejection = "permanent"]
          ELSE [stats EXCEPT !.pieces_served = Threshold(prior.trust_level)]
    /\ UNCHANGED <<prior, pastFile, tmpFile, saving, session, events, ticks>>

(* to_reputation: what the session counted is added to what was known.      *)
ToReputation(s, past) ==
    Reputation(TrustLevel(s),
               past.lifetime_pieces_served + s.pieces_served,
               past.lifetime_corruption_count + s.corruption_count,
               ShouldAvoidPermanently(s))

-----------------------------------------------------------------------------
(* A slip: the file is written in place. *)
WriteInPlace ==
    /\ pastFile' = Torn /\ UNCHANGED tmpFile

(* save writes a sibling file; until all is there it does not load.         *)
WriteBeside ==
    /\ tmpFile' = Torn /\ UNCHANGED pastFile

(* snapshot_reputations and save: the file has the peers whose identity was *)
(* registered in this session, and no other.                                *)
SnapshotAndSave ==
    /\ saving = NoFile
    /\ saving' = IF known THEN ToReputation(stats, prior) ELSE NoReputation
    /\ WriteBeside
    /\ UNCHANGED <<stats, known, prior, session, events, ticks>>

(* The rename: the file is the new one, all at once.  Or an error: what was *)
(* written stays beside it.                                                 *)
RenameOver ==
    /\ saving # NoFile
    /\ pastFile' = saving /\ tmpFile' = NoFile
    /\ saving' = NoFile
    /\ UNCHANGED <<stats, known, prior, session, events, ticks>>

SaveFails ==
    /\ saving # NoFile
    /\ saving' = NoFile
    /\ UNCHANGED <<stats, known, prior, pastFile, tmpFile, session, events, ticks>>

(* A session ends, in order or by a crash, and the next loads the file, or  *)
(* starts with nothing when there is none that loads.                       *)
NextSession ==
    /\ session < MaxSessions
    /\ session' = session + 1
    /\ prior' = IF pastFile \in {Torn, NoFile} THEN NoReputation ELSE pastFile
    /\ stats' = NewStats /\ known' = FALSE /\ saving' = NoFile
    /\ events' = 0 /\ ticks' = 0
    /\ UNCHANGED <<pastFile, tmpFile>>

MemoryNext ==
    \/ RecordSuccess \/ RecordCorruption \/ AddCorroboration
    \/ \E reason \in {"transient", "permanent"} : RecordRejection(reason)
    \/ MemoryTick \/ RegisterIdentity
    \/ SnapshotAndSave \/ RenameOver \/ SaveFails \/ NextSession

MemorySpec == MemoryInit /\ [][MemoryNext]_memoryVars
-----------------------------------------------------------------------------
(* The .peers file loads once there is one, whatever crash or error hits a  *)
(* save, and the corruption on record in it never gets less: the record is  *)
(* there and grows, or it is gone altogether because a session saved that   *)
(* never met the peer.  And while an exclusion lasts nothing ends it sooner *)
(* or narrows its scope within the session.                                 *)
Rank(e) == CASE ExclusionScope(e) = "Local" -> 0
             [] ExclusionScope(e) = "Shared" -> 1
             [] ExclusionScope(e) = "Subnet" -> 2
BlameIsKept ==
    [][/\ pastFile # NoFile =>
             /\ pastFile' \notin {NoFile, Torn}
             /\ \/ pastFile'.lifetime_corruption_count >= pastFile.lifetime_corruption_count
                \/ pastFile' = NoReputation /\ ~known
       /\ session' = session /\ IsExcluded(stats) =>
             /\ stats'.exclusion # NoExclusion
             /\ stats'.exclusion.until >= stats.exclusion.until
             /\ Rank(stats'.exclusion) >= Rank(stats.exclusion)]_memoryVars
=============================================================================
