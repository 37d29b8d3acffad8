---------------------------- MODULE GroupRoster ----------------------------
(***************************************************************************)
(* GroupRoster (p2p-distribute, group.rs): who belongs to a group, in      *)
(* which role, and who may change that; and the credentials                *)
(* (credential.rs) that tell other peers a member's role until they        *)
(* expire.  A credential keeps the time it has left; the clocks of those   *)
(* who check it differ from the issuer's by up to Skew.                    *)
(***************************************************************************)
EXTENDS Integers, FiniteSets

CONSTANTS
    People,
    Founder,        \* who creates the group
    MaxMembers,     \* MAX_GROUP_MEMBERS
    Lifetime,       \* expires_at - issued_at
    Skew,
    MaxSeq,         \* bound: next_seq
    MaxIssued       \* bound: credentials that have not lapsed

ASSUME RosterAssumption ==
    /\ Founder \in People /\ {MaxMembers, Lifetime, Skew, MaxSeq, MaxIssued} \subseteq Nat

VARIABLES
    role,           \* members: [People -> Roles or "None"]
    joined,         \* join_seq of the members
    nextSeq,
    credentials,    \* signed by the group's key
    unchanged       \* history: for how long everyone has had the role

rosterVars == <<role, joined, nextSeq, credentials, unchanged>>

Roles == {"Master", "Admin", "Mirror", "Reader"}

(* privilege_level.                                                         *)
Level(r) == CASE r = "Master" -> 3 [] r = "Admin" -> 2
              [] r = "Mirror" -> 1 [] r = "Reader" -> 0

CanManage(r, other) == r \in {"Master", "Admin"} /\ Level(r) > Level(other)

Members == {p \in People : role[p] # "None"}

LongAgo == Lifetime + Skew

RosterInit ==
    /\ role = [p \in People |-> IF p = Founder THEN "Master" ELSE "None"]
    /\ joined = [p \in People |-> 0]
    /\ nextSeq = 1
    /\ credentials = {}
    /\ unchanged = [p \in People |-> LongAgo]

AddMember(actor, p, r) ==
    /\ actor \in Members /\ r \in Roles \ {"Master"}
    /\ IF r = "Admin" THEN role[actor] = "Master" ELSE CanManage(role[actor], r)
    /\ p \notin Members /\ Cardinality(Members) < MaxMembers
    /\ nextSeq < MaxSeq
    /\ role' = [role EXCEPT ![p] = r]
    /\ joined' = [joined EXCEPT ![p] = nextSeq]
    /\ nextSeq' = nextSeq + 1
    /\ unchanged' = [unchanged EXCEPT ![p] = 0]
    /\ UNCHANGED credentials

RemoveMember(actor, p) ==
    /\ {actor, p} \subseteq Members /\ role[p] # "Master"
    /\ CanManage(role[actor], role[p])
    /\ role' = [role EXCEPT ![p] = "None"]
    /\ unchanged' = [unchanged EXCEPT ![p] = 0]
    /\ UNCHANGED <<joined, nextSeq, credentials>>

ChangeRole(actor, p, r) ==
    /\ {actor, p} \subseteq Members
    /\ role[p] # "Master" /\ r \in Roles \ {"Master"}
    /\ IF r = "Admin" THEN role[actor] = "Master"
       ELSE CanManage(role[actor], role[p]) \/ CanManage(role[actor], r)
    /\ role' = [role EXCEPT ![p] = r]
    /\ unchanged' = [unchanged EXCEPT ![p] = IF r = role[p] THEN @ ELSE 0]
    /\ UNCHANGED <<joined, nextSeq, credentials>>

(* A slip: the new master is promoted before the old one steps down. *)
TransferPromotingFirst(actor, p) ==
    /\ {actor, p} \subseteq Members /\ role[actor] = "Master"
    /\ role' = [[role EXCEPT ![p] = "Master"] EXCEPT ![actor] = "Admin"]
    /\ unchanged' = [q \in People |-> IF role'[q] = role[q] THEN unchanged[q] ELSE 0]
    /\ UNCHANGED <<joined, nextSeq, credentials>>

(* The old master becomes an admin, then the new one is promoted: the two   *)
(* may be the same.                                                         *)
TransferMaster(actor, p) ==
    /\ {actor, p} \subseteq Members /\ role[actor] = "Master"
    /\ role' = [[role EXCEPT ![actor] = "Admin"] EXCEPT ![p] = "Master"]
    /\ unchanged' = [q \in People |-> IF role'[q] = role[q] THEN unchanged[q] ELSE 0]
    /\ UNCHANGED <<joined, nextSeq, credentials>>

(* PeerCredential::new and sign, for a member.                              *)
Issue(p) ==
    /\ p \in Members /\ Cardinality(credentials) < MaxIssued
    /\ credentials' = credentials \cup {[subject |-> p, role |-> role[p], left |-> Lifetime]}
    /\ UNCHANGED <<role, joined, nextSeq, unchanged>>

(* verify, by a clock that is `drift` ahead of the issuer's: not expired,   *)
(* and valid already.                                                       *)
Verifies(c, drift) == c.left - drift > 0 /\ Lifetime - c.left + drift >= 0

(* Time passes; credentials that nobody accepts any more are left out.      *)
RosterSecond ==
    /\ credentials' = {[c EXCEPT !.left = @ - 1] : c \in {d \in credentials : d.left > - Skew}}
    /\ unchanged' = [p \in People |->
                        IF unchanged[p] < LongAgo THEN unchanged[p] + 1 ELSE LongAgo]
    /\ UNCHANGED <<role, joined, nextSeq>>

RosterNext ==
    \/ \E actor, p \in People :
          \/ RemoveMember(actor, p) \/ TransferMaster(actor, p)
          \/ \E r \in Roles : AddMember(actor, p, r) \/ ChangeRole(actor, p, r)
    \/ \E p \in People : Issue(p)
    \/ RosterSecond

RosterSpec == RosterInit /\ [][RosterNext]_rosterVars
-----------------------------------------------------------------------------
(* At every moment exactly one member is the master: master_id expects one  *)
(* whatever roles are changed, given away or removed.                       *)
OneMaster ==
    \E m \in People : \A p \in People : role[p] = "Master" <=> p = m

(* A role that was taken away can be shown for no longer than a credential  *)
(* lives, whatever the clocks of those who check it.                        *)
RightsLapse ==
    \A c \in credentials, drift \in -Skew .. Skew :
        Verifies(c, drift) => \/ role[c.subject] = c.role
                              \/ unchanged[c.subject] < LongAgo

(* A group has one master, and what a member once was ends in time.         *)
RolesAreSound == OneMaster /\ RightsLapse
=============================================================================
