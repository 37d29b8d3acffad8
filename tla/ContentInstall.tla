--------------------------- MODULE ContentInstall ---------------------------
(***************************************************************************)
(* ContentInstall (cnc-content: session, downloader/mod.rs,                *)
(* downloader/orchestrate.rs, downloader/extract.rs, executor, verify,     *)
(* query.rs and the commands install, download and clean): what            *)
(* happens to the content directory of a game, one operation at a time,    *)
(* with failures and crashes between any two steps.                        *)
(*                                                                         *)
(* A file is absent, cut (created or truncated, not yet filled), good, or  *)
(* bad (changed since it was good).  A digest is what was hashed.  How an  *)
(* archive is fetched is Coordinator's and MirrorDownload's business: here *)
(* a fetch gives a verified archive or an error.                           *)
(***************************************************************************)
EXTENDS Naturals, Sequences, FiniteSets, Functions, SequencesExt

CONSTANTS
    Files,
    PackageOrder,   \* ALL_PACKAGES
    Required,       \* packages without which the game does not start
    TestFiles,      \* of each package
    DownloadOf,     \* of each package, or None
    None,
    DownloadOrder,  \* the downloads of the game
    Plan,           \* what download_missing downloads
    Provides,       \* of each download
    Entries,        \* of each download: the files in its archive, in order
    Torrents,       \* downloads with an info_hash
    Zips,           \* downloads whose format is "zip"
    Images,         \* downloads whose torrent holds an image with recipes
    RecipeOrder,    \* recipes for the local source
    Actions,        \* of each recipe: [do, file, from]
    MaxCrashes, MaxDiskErrors, MaxDamages, MaxCleans

Packages == ToSet(PackageOrder)
Downloads == ToSet(DownloadOrder)
Recipes == ToSet(RecipeOrder)
Contents(d) == ToSet(Entries[d])

(* What the tables name is in the tables.  Two archives may hold the same  *)
(* file, and an archive need not hold the test files of what it is said to *)
(* provide: some are an image inside a zip, or fit no recipe.              *)
ASSUME InstallAssumption ==
    /\ PackageOrder \in Seq(Packages)
    /\ DownloadOrder \in Seq(Downloads) /\ Plan \in Seq(Downloads)
    /\ RecipeOrder \in Seq(Recipes)
    /\ Required \subseteq Packages /\ None \notin Downloads
    /\ TestFiles \in [Packages -> SUBSET Files]
    /\ DownloadOf \in [Packages -> Downloads \cup {None}]
    /\ Provides \in [Downloads -> SUBSET Packages]
    /\ Entries \in [Downloads -> Seq(Files)]
    /\ Actions \in [Recipes -> Seq([do : {"write", "unpack", "delete"},
                                    file : Files, from : Files \cup {None}])]
    /\ \A r \in Recipes : \A i \in DOMAIN Actions[r] :
          Actions[r][i].do = "unpack" => Actions[r][i].from \in Files

VARIABLES
    content,    \* of each file: "absent", "cut", "good" or "bad"
    manifest,   \* content-manifest.toml: [of, digests]; the archive is history
    temps,      \* ".download.zip.tmp", ".download.coordinated.tmp"
    queue,      \* what the running operation has still to do
    task,       \* what it is at: [what, item, strict]
    way,        \* how the archive comes: "p2p" or "http"
    step,       \* "idle", "pick", "fetch", "extract", "fill", "record",
                \* "write", "clean"
    entry,      \* the entry of the archive, or action of the recipe
    answer,     \* how the last operation ended
    did,        \* history: what the running operation installed, and no later
                \* download of it that failed may have cut
    mishaps     \* [crash, disk, damage, clean]: how many so far

vars == <<content, manifest, temps, queue, task, way, step, entry, answer, did, mishaps>>

(* Between two tasks nothing is left of the first.                         *)
NoTask == [what |-> "none", item |-> None, strict |-> TRUE]
Unreadable == [of |-> None, digests |-> <<>>]   \* absent, or torn

Init ==
    /\ content = [f \in Files |-> "absent"]
    /\ manifest = Unreadable /\ temps = {}
    /\ queue = <<>> /\ task = NoTask /\ way = "http" /\ step = "idle" /\ entry = 1
    /\ answer = "none" /\ did = {}
    /\ mishaps = [crash |-> 0, disk |-> 0, damage |-> 0, clean |-> 0]

Happens(what, limit) ==
    /\ mishaps[what] < limit
    /\ mishaps' = [mishaps EXCEPT ![what] = @ + 1]

DiskFails == Happens("disk", MaxDiskErrors)
-----------------------------------------------------------------------------
(* query.rs: a package is installed when its test files exist.             *)

Exists(f) == content[f] # "absent"
Installed(p) == \A f \in TestFiles[p] : Exists(f)
Missing(packages) == {p \in packages : ~Installed(p)}
Complete == Missing(Required) = {}

(* Those members of an order, as a filter lists them: there is one list.   *)
Precedes(order, x, y) ==
    \E i, j \in DOMAIN order : i < j /\ order[i] = x /\ order[j] = y
Listings(order, members) ==
    {list \in [1..Cardinality(members) -> members] :
        \A i, j \in DOMAIN list : i < j => Precedes(order, list[i], list[j])}

Tasks(what, items, strict) ==
    [i \in DOMAIN items |-> [what |-> what, item |-> items[i], strict |-> strict]]

(* Downloads that bring something optional.                                *)
Optional == {d \in Downloads : Provides[d] \ Required # {}}

Begin(tasks) ==
    /\ step = "idle"
    /\ queue' = tasks
    /\ step' = "pick" /\ answer' = "none"
    /\ UNCHANGED <<content, manifest, temps, did, task, way, entry, mishaps>>

MissingPlan == IF Complete THEN <<>> ELSE Tasks("download", Plan, TRUE)

Ensure(packages) ==
    \E list \in Listings(PackageOrder, Missing(packages)) : Begin(Tasks("package", list, TRUE))
EnsureRequired == Ensure(Required)
EnsureAll == Ensure(Packages)
DownloadMissing == Begin(MissingPlan)
DownloadAll ==
    \E list \in Listings(DownloadOrder, Optional) :
        Begin(MissingPlan \o Tasks("download", list, FALSE))
DownloadOne == \E d \in Downloads : Begin(Tasks("download", <<d>>, TRUE))
InstallAll == Begin(Tasks("recipe", RecipeOrder, FALSE))
InstallOne == \E r \in Recipes : Begin(Tasks("recipe", <<r>>, FALSE))

(* What ensure_packages and the optional part of a download pass over.     *)
Skipped(t) ==
    \/ t.what = "package" /\ (Installed(t.item) \/ DownloadOf[t.item] = None)
    \/ t.what = "download" /\ ~t.strict /\ \A p \in Provides[t.item] : Installed(p)

(* A slip: a package that cannot be downloaded ends the operation.         *)
SkipRest ==
    /\ step = "pick" /\ queue # <<>> /\ Skipped(Head(queue))
    /\ queue' = IF Head(queue).what = "package" /\ ~Installed(Head(queue).item)
                THEN <<>> ELSE Tail(queue)
    /\ UNCHANGED <<content, manifest, temps, task, way, step, entry, answer, did, mishaps>>

Skip ==
    /\ step = "pick" /\ queue # <<>> /\ Skipped(Head(queue))
    /\ queue' = Tail(queue)
    /\ UNCHANGED <<content, manifest, temps, task, way, step, entry, answer, did, mishaps>>

(* select_strategy: BitTorrent where there is an info_hash, unless the     *)
(* environment forbids it.                                                 *)
Strategies(d) == IF d \in Torrents THEN {"p2p", "http"} ELSE {"http"}

Pick ==
    /\ step = "pick" /\ queue # <<>> /\ ~Skipped(Head(queue))
    /\ queue' = Tail(queue)
    /\ LET t == Head(queue)
           d == IF t.what = "package" THEN DownloadOf[t.item] ELSE t.item
       IN IF t.what = "recipe"
          THEN task' = t /\ step' = "extract" /\ UNCHANGED way
          ELSE /\ task' = [what |-> "download", item |-> d, strict |-> t.strict]
               /\ step' = "fetch"
               /\ way' \in Strategies(d)
    /\ UNCHANGED <<content, manifest, temps, entry, answer, did, mishaps>>

Finish ==
    /\ step = "pick" /\ queue = <<>>
    /\ step' = "idle"
    /\ answer' = IF answer = "failed" THEN "error" ELSE "ok"
    /\ did' = {}
    /\ UNCHANGED <<content, manifest, temps, queue, task, way, entry, mishaps>>

EndTask == task' = NoTask /\ way' = "http" /\ entry' = 1

(* An error ends a strict operation; of the recipes it is counted, and of  *)
(* optional downloads it is a warning, whatever files of earlier archives  *)
(* they have cut.                                                          *)
TaskFails ==
    /\ EndTask
    /\ IF task.strict
       THEN step' = "idle" /\ queue' = <<>> /\ answer' = "error" /\ did' = {}
       ELSE /\ step' = "pick"
            /\ answer' = IF task.what = "recipe" THEN "failed" ELSE answer
            /\ did' = {d \in did : Contents(d) \cap Contents(task.item) = {}}
            /\ UNCHANGED queue
    /\ UNCHANGED <<content, manifest>>

FallBack ==
    /\ way' = "http" /\ step' = "fetch" /\ entry' = 1
    /\ UNCHANGED <<content, manifest, queue, task, answer, did>>
-----------------------------------------------------------------------------
(* The archive.                                                            *)

(* generate_manifest: the digests of the test files that exist.            *)
Digests(packages) ==
    LET files == {f \in UNION {TestFiles[p] : p \in packages} : Exists(f)}
    IN [f \in files |-> content[f]]

(* A slip: the manifest is begun when the archive has come.                *)
FetchOkRecords ==
    /\ step = "fetch"
    /\ temps' = temps \cup {way}
    /\ manifest' = [of |-> task.item, digests |-> Digests(Provides[task.item])]
    /\ step' = "extract"
    /\ UNCHANGED <<content, queue, task, way, entry, answer, did, mishaps>>

FetchOk ==
    /\ step = "fetch"
    /\ temps' = temps \cup {way}
    /\ step' = "extract"
    /\ UNCHANGED <<content, manifest, queue, task, way, entry, answer, did, mishaps>>

(* The peers' file is kept for resumption unless its hash is wrong; the    *)
(* mirrors' file is removed.                                               *)
FetchFails ==
    /\ step = "fetch"
    /\ \/ way = "p2p" /\ temps' \in {temps \ {way}, temps \cup {way}} /\ FallBack
       \/ way = "http" /\ temps' = temps \ {way} /\ TaskFails
    /\ UNCHANGED mishaps
-----------------------------------------------------------------------------
(* Extraction: extract_zip, extract_torrent_output, execute_recipe.        *)

Work ==
    IF task.what = "recipe" THEN Actions[task.item]
    ELSE [i \in DOMAIN Entries[task.item] |->
            [do |-> "write", file |-> Entries[task.item][i], from |-> None]]
Act == Work[entry]
Extracting == step = "extract" /\ entry <= Len(Work)
NotAnArchive == task.what = "download" /\ way = "http" /\ task.item \notin Zips

(* The recipes of an image that came as a torrent always fail: they are    *)
(* run with the image's file for their source directory.                   *)
IsAnImage == task.what = "download" /\ way = "p2p" /\ task.item \in Images
NoSource == Act.do = "unpack" /\ content[Act.from] \in {"absent", "cut"}
Filling == IF Act.do = "unpack" THEN content[Act.from] ELSE "good"

(* The file is created, or truncated, and then filled.                     *)
OpenEntry ==
    /\ Extracting /\ ~NotAnArchive /\ ~NoSource
    /\ Act.do \in {"write", "unpack"}
    /\ content' = [content EXCEPT ![Act.file] = "cut"]
    /\ step' = "fill"
    /\ UNCHANGED <<manifest, temps, queue, task, way, entry, answer, did, mishaps>>

FillEntry ==
    /\ step = "fill"
    /\ content' = [content EXCEPT ![Act.file] = Filling]
    /\ step' = "extract" /\ entry' = entry + 1
    /\ UNCHANGED <<manifest, temps, queue, task, way, answer, did, mishaps>>

DeleteEntry ==
    /\ Extracting /\ Act.do = "delete"
    /\ content' = [content EXCEPT ![Act.file] = "absent"]
    /\ entry' = entry + 1
    /\ UNCHANGED <<manifest, temps, queue, task, way, step, answer, did, mishaps>>

(* The archive is kept, and so is what was extracted of it.  Loose files   *)
(* beside an image are copied before or after it.                          *)
ExtractFails ==
    /\ \/ step = "extract" /\ (NotAnArchive \/ IsAnImage) /\ UNCHANGED mishaps
       \/ Extracting /\ NoSource /\ UNCHANGED mishaps
       \/ (Extracting \/ step = "fill") /\ DiskFails
    /\ IF task.what = "download" /\ way = "p2p" THEN FallBack ELSE TaskFails
    /\ UNCHANGED temps

ExtractEnds ==
    /\ step = "extract" /\ entry > Len(Work) /\ ~NotAnArchive /\ ~IsAnImage
    /\ IF task.what = "recipe"
       THEN step' = "pick" /\ EndTask
       ELSE step' = "record" /\ UNCHANGED <<task, way, entry>>
    /\ UNCHANGED <<content, manifest, temps, queue, answer, did, mishaps>>
-----------------------------------------------------------------------------
(* The manifest: write_content_manifest.                                   *)

(* Errors are ignored; fs::write truncates before it writes.               *)
RecordBegins ==
    /\ step = "record"
    /\ \/ manifest' = Unreadable /\ step' = "write" /\ UNCHANGED mishaps
       \/ DiskFails /\ step' = "clean" /\ UNCHANGED manifest
    /\ UNCHANGED <<content, temps, queue, task, way, entry, answer, did>>

RecordEnds ==
    /\ step = "write"
    /\ \/ /\ manifest' = [of |-> task.item, digests |-> Digests(Provides[task.item])]
          /\ UNCHANGED mishaps
       \/ DiskFails /\ UNCHANGED manifest
    /\ step' = "clean"
    /\ UNCHANGED <<content, temps, queue, task, way, entry, answer, did>>

(* The seeding policy decides whether librqbit's archive is kept; the      *)
(* others are removed.                                                     *)
Removable == IF way = "p2p" /\ task.item \notin Zips THEN {{}, {way}} ELSE {{way}}

RemoveArchive ==
    /\ step = "clean"
    /\ temps' \in {temps \ gone : gone \in Removable}
    /\ did' = did \cup {task.item}
    /\ step' = "pick" /\ EndTask
    /\ UNCHANGED <<content, manifest, queue, answer, mishaps>>
-----------------------------------------------------------------------------
(* Between operations, and in spite of them.                               *)

CleanCommand ==
    /\ step = "idle" /\ Happens("clean", MaxCleans)
    /\ content' = [f \in Files |-> "absent"] /\ manifest' = Unreadable /\ temps' = {}
    /\ UNCHANGED <<queue, task, way, step, entry, answer, did>>

Damage(f) ==
    /\ step = "idle" /\ content[f] = "good" /\ Happens("damage", MaxDamages)
    /\ content' = [content EXCEPT ![f] = "bad"]
    /\ UNCHANGED <<manifest, temps, queue, task, way, step, entry, answer, did>>

Crash ==
    /\ step # "idle" /\ Happens("crash", MaxCrashes)
    /\ temps' \in {temps} \cup (IF step = "fetch" THEN {temps \cup {way}} ELSE {})
    /\ EndTask /\ queue' = <<>> /\ step' = "idle" /\ answer' = "crash" /\ did' = {}
    /\ UNCHANGED <<content, manifest>>

Start ==
    \/ EnsureRequired \/ EnsureAll \/ DownloadMissing \/ DownloadAll \/ DownloadOne
    \/ InstallAll \/ InstallOne

Continue ==
    \/ Skip \/ Pick \/ Finish
    \/ FetchOk \/ FetchFails
    \/ OpenEntry \/ FillEntry \/ DeleteEntry \/ ExtractFails \/ ExtractEnds
    \/ RecordBegins \/ RecordEnds \/ RemoveArchive

Next ==
    \/ Start \/ Continue
    \/ CleanCommand \/ Crash
    \/ \E f \in Files : Damage(f)

Spec == Init /\ [][Next]_vars

(* An operation goes on, somebody asks for the required content again and  *)
(* again, and a download of a required package that is tried again and     *)
(* again is fetched in the end.                                            *)
Fairness ==
    /\ WF_vars(Continue)
    /\ SF_vars(EnsureRequired)
    /\ \A p \in Required : SF_vars(task.item = DownloadOf[p] /\ FetchOk)
FairSpec == Spec /\ Fairness
-----------------------------------------------------------------------------
(* Of the files that the archive held, content-manifest.toml never vouches *)
(* for one that was cut short or has changed: whatever failed or crashed   *)
(* before, it is written only when all of an archive has been extracted.   *)
ManifestIsTruthful ==
    manifest.of # None =>
        \A f \in DOMAIN manifest.digests \cap Contents(manifest.of) :
            manifest.digests[f] = "good"

(* An operation that ends well has left every file of every archive that   *)
(* it installed whole, also when the peers' archive broke off and the      *)
(* mirrors' was extracted over it; unless an optional archive that holds   *)
(* some of its files failed later.                                         *)
OkIsInstalled ==
    [][answer # "ok" /\ answer' = "ok" =>
          \A d \in did : \A f \in Contents(d) : content[f] = "good"]_vars

(* What the user is told holds: by the manifest, and by an Ok.             *)
InstallsAreTruthful == [][ManifestIsTruthful']_vars /\ OkIsInstalled

(* Who keeps asking gets the required content, in spite of failures,       *)
(* crashes and packages that cannot be downloaded.                         *)
AskingIsEnough == <>[](\A p \in Required : DownloadOf[p] # None => Installed(p))
=============================================================================
