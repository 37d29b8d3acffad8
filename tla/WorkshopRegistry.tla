-------------------------- MODULE WorkshopRegistry -------------------------
(***************************************************************************)
(* Packages and dependencies of the Workshop: build_package and            *)
(* validate_package (workshop-package), the registry's append-only entries *)
(* (workshop-registry), resolve and the lock file (workshop-resolver).     *)
(* Packages are released and yanked from and a mod's dependencies edited   *)
(* between resolve and the check of the lock file that --locked rests on.  *)
(***************************************************************************)
EXTENDS Integers, Sequences, FiniteSets, SequencesExt

CONSTANTS
    Packages,       \* publisher/name
    MaxVersion,     \* bound: versions are 1..MaxVersion, in their order
    MaxReleases,    \* bound: entries of all packages
    MaxEdits        \* bound: edits of the dependencies

VARIABLES
    registry,       \* MemoryRegistry: the entries of each package, oldest first
    deps,           \* the manifest: a sequence of DependencySpec
    lock,           \* LockFile.package, in order
    resolved,       \* the dependencies the lock file was made from
    edits

registryVars == <<registry, deps, lock, resolved, edits>>

Versions == 1..MaxVersion
NoVersion == 0      \* a version string that does not parse
NoReq == {}         \* a requirement that does not parse

(* RegistryEntry. *)
Entry(vers, yanked) == [vers |-> vers, yanked |-> yanked]

(* DependencySpec.  A requirement is the set of versions it admits; "local"  *)
(* stands for every source but the Workshop (a path, git, a url).           *)
Reqs == {{1}, Versions, NoReq}
DepSources == {"workshop", "local"}
Dep(pkg, req, source) == [package |-> pkg, req |-> req, source |-> source]

-----------------------------------------------------------------------------
(* A package file: its manifest lists path and hash, its assets hold data;  *)
(* data stands for its hash.  A path is [name, flaws], flaws being those    *)
(* validate_asset_path knows.                                               *)
PathFlaws == {"empty", "long", "nul", "backslash", "absolute", "drive", "parent", "reserved"}
ValidPath(path) == path.flaws \cap PathFlaws = {}

(* build_package refuses a bad path before it writes anything.              *)
CanBuild(files) == \A f \in files : ValidPath(f.path)
Built(files) ==
    [manifest |-> files,
     assets |-> [n \in {f.path.name : f \in files} |->
                    (CHOOSE f \in files : f.path.name = n).data]]

(* read_manifest: none, too large, not JSON or with a bad path: an error.   *)
ReadableManifest(archive) ==
    "manifest" \in DOMAIN archive /\ CanBuild(archive.manifest)

(* validate_package: what is listed must be there and match; what is there  *)
(* and not listed is not looked at.                                         *)
ValidatePackage(archive) ==
    IF ~ReadableManifest(archive) THEN "error"
    ELSE IF \E f \in archive.manifest : f.path.name \notin DOMAIN archive.assets THEN "error"
    ELSE IF \A f \in archive.manifest : archive.assets[f.path.name] = f.data THEN "valid"
    ELSE "mismatch"

-----------------------------------------------------------------------------
RegistryInit ==
    /\ registry = [p \in Packages |-> <<>>]
    /\ deps = <<>> /\ lock = <<>> /\ resolved = <<>>
    /\ edits = 0

(* A release is built, validated and added to the registry; its version may *)
(* be one that does not parse.                                              *)
AddEntry(p) ==
    /\ Cardinality(UNION {{q} \X DOMAIN registry[q] : q \in Packages}) < MaxReleases
    /\ \E v \in Versions \cup {NoVersion}, flaws \in SUBSET {"parent"} :
          LET files == {[path |-> [name |-> "rules", flaws |-> flaws], data |-> p]}
          IN  /\ CanBuild(files) /\ ValidatePackage(Built(files)) = "valid"
              /\ registry' = [registry EXCEPT ![p] = Append(@, Entry(v, FALSE))]
    /\ UNCHANGED <<deps, lock, resolved, edits>>

(* External: an entry is yanked where it stands.                            *)
Yank(p, i) ==
    /\ registry' = [registry EXCEPT ![p][i].yanked = TRUE]
    /\ UNCHANGED <<deps, lock, resolved, edits>>

(* The mod's author edits the dependencies: a package is named once; its    *)
(* requirement or its source may change.                                    *)
Edit ==
    /\ edits < MaxEdits /\ edits' = edits + 1
    /\ \/ \E p \in Packages, source \in DepSources, req \in Reqs :
             /\ \A i \in DOMAIN deps : deps[i].package # p
             /\ deps' = Append(deps, Dep(p, req, source))
       \/ \E i \in DOMAIN deps, source \in DepSources, req \in Reqs :
             deps' = [deps EXCEPT ![i] = Dep(@.package, req, source)]
       \/ \E i \in DOMAIN deps : deps' = RemoveAt(deps, i)
    /\ UNCHANGED <<registry, lock, resolved>>

-----------------------------------------------------------------------------
(* resolve. *)

(* A slip: the newest entry that parses will do. *)
MatchingAny(d) ==
    {i \in DOMAIN registry[d.package] :
        ~registry[d.package][i].yanked /\ registry[d.package][i].vers # NoVersion}

(* The entries that may answer a requirement. *)
MatchingEntries(d) ==
    {i \in DOMAIN registry[d.package] :
        ~registry[d.package][i].yanked /\ registry[d.package][i].vers \in d.req}

(* What stops resolve: an unknown package, a bad requirement, no match.     *)
Resolvable(d) ==
    registry[d.package] # <<>> /\ d.req # NoReq /\ MatchingEntries(d) # {}

(* Of those, the entry added last. *)
Chosen(d) ==
    LET i == CHOOSE i \in MatchingEntries(d) : \A j \in MatchingEntries(d) : j <= i
    IN  [name |-> d.package, version |-> registry[d.package][i].vers]

(* The loop over the manifest: what comes from elsewhere is skipped.        *)
FromWorkshop(d) == d.source = "workshop"

LockedUpTo(specs) ==
    LET upTo[n \in 0 .. Len(specs)] ==
          IF n = 0 THEN <<>>
          ELSE IF FromWorkshop(specs[n]) THEN Append(upTo[n - 1], Chosen(specs[n]))
          ELSE upTo[n - 1]
    IN  upTo

ResolveOk ==
    /\ \A d \in ToSet(deps) : FromWorkshop(d) => Resolvable(d)
    /\ lock' = LockedUpTo(deps)[Len(deps)]
    /\ resolved' = deps
    /\ UNCHANGED <<registry, deps, edits>>

ResolveFails ==
    /\ \E d \in ToSet(deps) : FromWorkshop(d) /\ ~Resolvable(d)
    /\ UNCHANGED registryVars

RegistryNext ==
    \/ \E p \in Packages : AddEntry(p) \/ \E i \in DOMAIN registry[p] : Yank(p, i)
    \/ Edit
    \/ ResolveOk \/ ResolveFails

RegistrySpec == RegistryInit /\ [][RegistryNext]_registryVars
-----------------------------------------------------------------------------
(* is_consistent_with. *)

LockedNames == {lock[i].name : i \in DOMAIN lock}
DepNames == {deps[i].package : i \in DOMAIN deps}

(* locked_version: the first of that name. *)
LockedVersion(name) ==
    lock[CHOOSE i \in DOMAIN lock : lock[i].name = name /\ \A j \in 1..(i - 1) : lock[j].name # name]

Added == {d \in ToSet(deps) : d.package \notin LockedNames}
Gone == LockedNames \ DepNames

(* A requirement that does not parse does not count as changed. *)
Changed ==
    {d \in ToSet(deps) : /\ d.package \in LockedNames /\ d.req # NoReq
                         /\ LockedVersion(d.package).version \notin d.req}

IsConsistent == Added = {} /\ Gone = {} /\ Changed = {}

(* A lock file that passes the check, whatever was edited, released or      *)
(* yanked since it was written, has one version of every dependency and     *)
(* none of anything else: one that was released, and that the requirement   *)
(* of now admits, if that parses.  Where the dependency comes from by now   *)
(* is not asked.  One just written passes, but for the dependencies that    *)
(* resolve leaves to others.                                                *)
WasReleased(locked) == \E e \in ToSet(registry[locked.name]) : e.vers = locked.version

LockIsSound ==
    /\ IsConsistent =>
          /\ Len(lock) = Len(deps)
          /\ \A i \in DOMAIN deps : \E j \in DOMAIN lock :
                /\ lock[j].name = deps[i].package /\ WasReleased(lock[j])
                /\ deps[i].req # NoReq => lock[j].version \in deps[i].req
    /\ deps = resolved =>
          Gone = {} /\ Changed = {} /\ Added = {d \in ToSet(deps) : ~FromWorkshop(d)}
=============================================================================
