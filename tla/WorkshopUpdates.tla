-------------------------- MODULE WorkshopUpdates --------------------------
(***************************************************************************)
(* Update discovery of the Workshop (workshop-core, update.rs).            *)
(* Publishers announce versions of their resources to the sources of a     *)
(* FailoverDiscovery; a client asks for the latest, or is told old news,   *)
(* and AnnouncementValidator judges what it hears, while the clock runs    *)
(* and publishers are revoked.                                             *)
(***************************************************************************)
EXTENDS Integers, Sequences, FiniteSets, SequencesExt

CONSTANTS
    Publishers, Resources,
    NumSources,     \* the discovery sources, asked in order
    MaxAnnouncements,      \* bound: announcements in all
    MaxDrift, MaxJump, MaxCount, Window,  \* the limits of the validator
    LastSecond      \* bound: the clock stops here

ASSUME UpdatesAssumption == {NumSources, MaxDrift, MaxJump, MaxCount, Window} \subseteq Nat

VARIABLES
    clock,
    issued,         \* the sequence number last used, per publisher and resource
    held,           \* per source, the announcements it has
    knownSequences,          \* known_sequences
    revoked,        \* revoked_publishers
    rateLog,        \* rate_limit_log
    accepted        \* history: every announcement let through, and when

updateVars == <<clock, issued, held, knownSequences, revoked, rateLog, accepted>>

Sources == 1..NumSources
StreamKeys == Publishers \X Resources

(* VersionAnnouncement.  Its version, blob and info hash are told apart by  *)
(* the sequence number; `signed` says that the signature is the publisher's *)
(* over the canonical bytes, which hold every other field.                  *)
Announcement(p, r, seq, time, signed) ==
    [publisher |-> p, resource |-> r, sequence |-> seq, timestamp |-> time, signed |-> signed]

UpdatesInit ==
    /\ clock = 0
    /\ issued = [k \in StreamKeys |-> 0]
    /\ held = [s \in Sources |-> {}]
    /\ knownSequences = [k \in StreamKeys |-> 0]
    /\ revoked = {}
    /\ rateLog = [p \in Publishers |-> <<>>]
    /\ accepted = <<>>

-----------------------------------------------------------------------------
(* The sources. *)

(* announce: every source is told, and one that takes it is enough; with    *)
(* all sources failing the announcement is lost, its number used up.        *)
AnnounceTo(a, takers) ==
    held' = [s \in Sources |-> IF s \in takers THEN held[s] \cup {a} ELSE held[s]]

(* A publisher issues its next version; or everyone hears one stamped by a  *)
(* clock that is ahead, or one that is not the publisher's at all.          *)
Publish(p, r) ==
    LET seq == issued[<<p, r>>] + 1
    IN  /\ FoldFunction(+, 0, issued) < MaxAnnouncements
        /\ issued' = [issued EXCEPT ![<<p, r>>] = seq]
        /\ \/ \E takers \in SUBSET Sources :
                 AnnounceTo(Announcement(p, r, seq, clock, TRUE), takers)
           \/ AnnounceTo(Announcement(p, r, seq, clock + MaxDrift + 1, TRUE), Sources)
           \/ AnnounceTo(Announcement(p, r, seq, clock, FALSE), Sources)
        /\ UNCHANGED <<clock, knownSequences, revoked, rateLog, accepted>>

(* all_versions of one source: those of the resource, whoever published it. *)
AllVersions(s, r) == {a \in held[s] : a.resource = r}

(* latest of FailoverDiscovery when `up` are the sources that answer: the   *)
(* first of them decides, even if it knows nothing or an old version.       *)
Latest(up, r) ==
    LET first == CHOOSE s \in up : \A q \in up : s <= q
        versions == AllVersions(first, r)
    IN  {a \in versions : \A b \in versions : b.sequence <= a.sequence}

-----------------------------------------------------------------------------
(* The validator. *)

(* retain: of a log, the times that are not before the start of a window.   *)
Retained(log, start) ==
    LET upTo[n \in 0 .. Len(log)] ==
          IF n = 0 THEN <<>>
          ELSE IF log[n] >= start THEN Append(upTo[n - 1], log[n])
          ELSE upTo[n - 1]
    IN  upTo[Len(log)]

(* A slip: the window is open at its far end. *)
RecentOpen(p) == Retained(rateLog[p], clock - Window + 1)

(* What the window leaves of a publisher's rate_limit_log. *)
Recent(p) == Retained(rateLog[p], clock - Window)

(* The checks of validate, all but the last. *)
Acceptable(a) ==
    LET k == <<a.publisher, a.resource>>
    IN  /\ a.publisher \notin revoked
        /\ a.timestamp <= clock + MaxDrift
        /\ a.signed
        /\ a.sequence > knownSequences[k]
        /\ knownSequences[k] > 0 => a.sequence - knownSequences[k] <= MaxJump

ValidateOk(a) ==
    LET p == a.publisher
    IN  /\ Acceptable(a) /\ Len(Recent(p)) < MaxCount
        /\ knownSequences' = [knownSequences EXCEPT ![<<p, a.resource>>] = a.sequence]
        /\ rateLog' = [rateLog EXCEPT ![p] = Append(Recent(p), clock)]
        /\ accepted' = Append(accepted, [a |-> a, at |-> clock])
        /\ UNCHANGED <<clock, issued, held, revoked>>

(* The rate limit comes last, and prunes the log even when it refuses.      *)
ValidateFails(a) ==
    /\ \/ ~Acceptable(a) /\ UNCHANGED rateLog
       \/ /\ Acceptable(a) /\ Len(Recent(a.publisher)) >= MaxCount
          /\ rateLog' = [rateLog EXCEPT ![a.publisher] = Recent(a.publisher)]
    /\ UNCHANGED <<clock, issued, held, knownSequences, revoked, accepted>>

Validate(a) == ValidateOk(a) \/ ValidateFails(a)

(* The client asks for the latest version of a resource while some sources  *)
(* are down, and judges the answer.                                         *)
Poll(r) ==
    \E up \in (SUBSET Sources) \ {{}} : \E a \in Latest(up, r) : Validate(a)

(* Gossip brings any announcement a peer still has, old ones again too.     *)
Gossip == \E s \in Sources : \E a \in held[s] : Validate(a)

RevokePublisher(p) ==
    /\ p \notin revoked
    /\ revoked' = revoked \cup {p}
    /\ UNCHANGED <<clock, issued, held, knownSequences, rateLog, accepted>>

Second ==
    /\ clock < LastSecond
    /\ clock' = clock + 1
    /\ UNCHANGED <<issued, held, knownSequences, revoked, rateLog, accepted>>

UpdatesNext ==
    \/ \E p \in Publishers, r \in Resources : Publish(p, r)
    \/ \E r \in Resources : Poll(r)
    \/ Gossip
    \/ \E p \in Publishers : RevokePublisher(p)
    \/ Second

UpdatesSpec == UpdatesInit /\ [][UpdatesNext]_updateVars
-----------------------------------------------------------------------------
(* What validate let through is a bounded and orderly stream, whatever was  *)
(* replayed, forged or post-dated: no more than MaxCount of a publisher in  *)
(* any window, over all its resources together, nothing twice or backwards, *)
(* and no leap after the first number heard.                                *)
AcceptedInBounds ==
    \A i \in DOMAIN accepted :
        LET x == accepted[i]
            near == {j \in DOMAIN accepted : /\ accepted[j].a.publisher = x.a.publisher
                                             /\ accepted[j].at \in (x.at - Window)..x.at}
            sooner == {j \in 1..(i - 1) : /\ accepted[j].a.publisher = x.a.publisher
                                          /\ accepted[j].a.resource = x.a.resource}
        IN  /\ Cardinality(near) <= MaxCount
            /\ x.a.signed /\ x.a.timestamp <= x.at + MaxDrift
            /\ \A j \in sooner : accepted[j].a.sequence < x.a.sequence
            /\ sooner # {} =>
                  \E j \in sooner : x.a.sequence - accepted[j].a.sequence <= MaxJump
=============================================================================
