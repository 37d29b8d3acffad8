----------------------------- MODULE GroupSync -----------------------------
(***************************************************************************)
(* How the mirrors of a group follow its catalogue (p2p-distribute,        *)
(* manifest.rs, catalog.rs, catalog_sign.rs).  The master publishes signed *)
(* manifests; a mirror gets any of them, late or never, plans what to      *)
(* download and to delete and carries the plan out step by step; a viewer  *)
(* brings its copy up to date with the difference of two manifests.  A     *)
(* path is its number in alphabetical order, an entry its path, content    *)
(* hash and info hash.  Size goes with the content hash.                   *)
(***************************************************************************)
EXTENDS Naturals, Sequences, SequencesExt, FiniteSets

CONSTANTS
    NumPaths,
    Hashes,
    Torrents,       \* info hashes, which no comparison looks at
    NoTorrent,
    GroupMirrors,
    Prefix,         \* the paths that the mirrors' policy matches
    MaxVersions,    \* bound: manifests published
    MaxFailedSteps  \* bound: steps of plans that fail

VARIABLES
    manifests,      \* the entries of the manifests, by version
    local,          \* files of every mirror: [mirror -> set of entries]
    plans,          \* [mirror -> [version, whether steps failed, actions]]
    view,           \* entries that the viewer knows
    viewed,         \* their version; 0: none yet
    syncFaults      \* how many steps failed

ASSUME SyncAssumption == NumPaths \in Nat

syncVars == <<manifests, local, plans, view, viewed, syncFaults>>

Paths == 1 .. NumPaths

Entries == [path : Paths, hash : Hashes, info : Torrents \cup {NoTorrent}]

(* What the comparisons of the code look at.                                *)
ContentsOf(entries) == {[path |-> e.path, hash |-> e.hash] : e \in entries}

(* A file that is there with the entry's content.                           *)
HasContent(files, e) == \E f \in files : f.path = e.path /\ f.hash = e.hash

PathsOf(entries) == {e.path : e \in entries}

OnePerPath(entries) == \A e, f \in entries : e.path = f.path => e = f

(* The list of the entries, sorted by path.                                 *)
InOrder(entries) ==
    CHOOSE list \in [1 .. Cardinality(entries) -> entries] :
        /\ Range(list) = entries
        /\ \A i, j \in DOMAIN list : i < j => list[i].path < list[j].path

NoPlan == [version |-> 0, failed |-> FALSE, actions |-> {}]

(* The files that a scan of a mirror's disk finds have no info hash.        *)
SyncInit ==
    /\ manifests = <<>>
    /\ local \in [GroupMirrors ->
                     {files \in SUBSET {e \in Entries : e.info = NoTorrent} : OnePerPath(files)}]
    /\ plans = [m \in GroupMirrors |-> NoPlan]
    /\ view = <<>> /\ viewed = 0
    /\ syncFaults = 0

(* ManifestBuilder::build refuses two entries with one path; the entries    *)
(* are sorted.  sign_manifest follows.                                      *)
PublishManifest(entries) ==
    /\ Len(manifests) < MaxVersions
    /\ OnePerPath(entries)
    /\ manifests' = Append(manifests, InOrder(entries))
    /\ UNCHANGED <<local, plans, view, viewed, syncFaults>>

(* A slip: the second pass forgets the mirror's policy. *)
PlanSyncDeletingAll(files, remote) ==
    {[do |-> "Download", entry |-> e] :
        e \in {f \in Range(remote) : f.path \in Prefix /\ ~HasContent(files, f)}}
    \cup
    {[do |-> "Delete", entry |-> e] :
        e \in {f \in files : f.path \notin PathsOf(Range(remote))}}

(* plan_sync: what matches the policy and is missing here or differs in its *)
(* content hash is downloaded, what matches it and is not in the manifest   *)
(* is deleted.                                                              *)
PlanSync(files, remote) ==
    {[do |-> "Download", entry |-> e] :
        e \in {f \in Range(remote) : f.path \in Prefix /\ ~HasContent(files, f)}}
    \cup
    {[do |-> "Delete", entry |-> e] :
        e \in {f \in files : f.path \in Prefix /\ f.path \notin PathsOf(Range(remote))}}

(* The mirror gets a manifest, newer or older, finds it signed and plans:   *)
(* what is left of an earlier plan is forgotten.                            *)
Plan(m, v) ==
    /\ v \in DOMAIN manifests
    /\ plans' = [plans EXCEPT ![m] =
                    [version |-> v, failed |-> FALSE,
                     actions |-> PlanSync(local[m], manifests[v])]]
    /\ UNCHANGED <<manifests, local, view, viewed, syncFaults>>

(* One step of the plan, by the caller: a file is replaced or deleted.      *)
CarryOut(m, a) ==
    /\ a \in plans[m].actions
    /\ plans' = [plans EXCEPT ![m].actions = @ \ {a}]
    /\ local' = [local EXCEPT ![m] =
          {e \in @ : e.path # a.entry.path}
             \cup (IF a.do = "Download" THEN {a.entry} ELSE {})]
    /\ UNCHANGED <<manifests, view, viewed, syncFaults>>

StepFails(m, a) ==
    /\ a \in plans[m].actions /\ syncFaults < MaxFailedSteps
    /\ plans' = [plans EXCEPT ![m].actions = @ \ {a}, ![m].failed = TRUE]
    /\ syncFaults' = syncFaults + 1
    /\ UNCHANGED <<manifests, local, view, viewed>>

(* A mirror that restarts has its files and no plan.                        *)
MirrorRestarts(m) ==
    /\ plans[m] # NoPlan
    /\ plans' = [plans EXCEPT ![m] = NoPlan]
    /\ UNCHANGED <<manifests, local, view, viewed, syncFaults>>

AddedEntry(e) == [change |-> "Added", entry |-> e]
RemovedEntry(e) == [change |-> "Removed", entry |-> e]
ModifiedEntry(e) == [change |-> "Modified", entry |-> e]

(* One round of diff_manifests: the two sorted lists are walked together,   *)
(* from the entries i and j on.                                             *)
DiffRound(old, new, w) ==
    LET a == old[w.i]
        b == new[w.j]
        inOld == w.i <= Len(old)
        inNew == w.j <= Len(new)
    IN  IF inOld /\ (inNew => a.path < b.path)
        THEN [i |-> w.i + 1, j |-> w.j, changes |-> Append(w.changes, RemovedEntry(a))]
        ELSE IF inNew /\ (inOld => b.path < a.path)
        THEN [i |-> w.i, j |-> w.j + 1, changes |-> Append(w.changes, AddedEntry(b))]
        ELSE IF inOld
        THEN [i |-> w.i + 1, j |-> w.j + 1,
              changes |-> IF a.hash # b.hash THEN Append(w.changes, ModifiedEntry(b)) ELSE w.changes]
        ELSE w

(* diff_manifests: after as many rounds as there are entries both lists are *)
(* at their end, and a round changes nothing.                               *)
Diff(old, new) ==
    LET last == Len(old) + Len(new)
        walk[n \in 0 .. last] ==
            IF n = 0 THEN [i |-> 1, j |-> 1, changes |-> <<>>]
            ELSE DiffRound(old, new, walk[n - 1])
    IN  walk[last].changes

(* A viewer applies a difference to its entries, change by change.          *)
Apply(known, c) ==
    {e \in known : e.path # c.entry.path}
       \cup (IF c.change = "Removed" THEN {} ELSE {c.entry})

Patched(entries, diff) ==
    LET known[n \in 0 .. Len(diff)] ==
            IF n = 0 THEN Range(entries) ELSE Apply(known[n - 1], diff[n])
    IN  InOrder(known[Len(diff)])

Follow(v) ==
    /\ v \in DOMAIN manifests /\ v # viewed
    /\ view' = Patched(view, Diff(view, manifests[v]))
    /\ viewed' = v
    /\ UNCHANGED <<manifests, local, plans, syncFaults>>

SyncNext ==
    \/ \E entries \in SUBSET Entries : PublishManifest(entries)
    \/ \E v \in 1 .. MaxVersions :
          Follow(v) \/ \E m \in GroupMirrors : Plan(m, v)
    \/ \E m \in GroupMirrors :
          \/ MirrorRestarts(m)
          \/ \E a \in plans[m].actions : CarryOut(m, a) \/ StepFails(m, a)

SyncSpec == SyncInit /\ [][SyncNext]_syncVars
-----------------------------------------------------------------------------
(* A plan carried out without a failure leaves exactly the manifest's       *)
(* files within the policy, though earlier plans stopped half-way or were   *)
(* for other manifests; and a viewer that followed differences has exactly  *)
(* the files of the manifest it went to.  Of an entry that is: its path and *)
(* content hash.  Its info hash may be that of an earlier manifest.         *)
CopiesAgree ==
    /\ \A m \in GroupMirrors :
          plans[m].version # 0 /\ ~plans[m].failed /\ plans[m].actions = {} =>
             ContentsOf({e \in local[m] : e.path \in Prefix})
                = ContentsOf({e \in Range(manifests[plans[m].version]) : e.path \in Prefix})
    /\ viewed # 0 => /\ OnePerPath(Range(view))
                     /\ ContentsOf(Range(view)) = ContentsOf(Range(manifests[viewed]))

(* The copies follow the manifests, and files outside a mirror's policy,    *)
(* which are its user's own, are never touched by a plan of plan_sync.      *)
FollowersAreFaithful ==
    [][/\ CopiesAgree'
       /\ \A m \in GroupMirrors : {e \in local[m] : e.path \notin Prefix}
                                    = {e \in local'[m] : e.path \notin Prefix}]_syncVars
=============================================================================
