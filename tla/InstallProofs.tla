--------------------------- MODULE InstallProofs ---------------------------
(***************************************************************************)
(* Theorems about ContentInstall (cnc-content: session, downloader,        *)
(* executor, verify) for any tables of packages, downloads and recipes,    *)
(* archives that share files among them, and any number of crashes, disk   *)
(* errors, damaged files and cleanings: the user is told the truth.        *)
(***************************************************************************)
EXTENDS ContentInstall, FiniteSetTheorems, SequenceTheorems, TLAPS

(* What waits in a queue: an operation of recipes has no other tasks.      *)
Fetches ==
    [what : {"package"}, item : Packages, strict : {TRUE}]
        \cup [what : {"download"}, item : Downloads, strict : BOOLEAN]
Replays == [what : {"recipe"}, item : Recipes, strict : {FALSE}]

Fetching == step \in {"fetch", "record", "write", "clean"}
Unpacking == step \in {"extract", "fill"}

Typed ==
    /\ content \in [Files -> {"absent", "cut", "good", "bad"}]
    /\ queue \in Seq(Fetches) \/ queue \in Seq(Replays)
    /\ step \in {"idle", "pick", "fetch", "extract", "fill", "record", "write", "clean"}
    /\ entry \in Nat \ {0}
    /\ did \subseteq Downloads
    /\ task \in {NoTask} \cup [what : {"download"}, item : Downloads, strict : BOOLEAN] \cup Replays

(* Which task there is, and that a recipe never follows a download.        *)
TaskFits ==
    /\ step \in {"idle", "pick"} => task = NoTask
    /\ Fetching => task.what = "download"
    /\ Unpacking => task.what \in {"download", "recipe"}
    /\ step \in {"idle", "pick", "fetch"} => entry = 1
    /\ step = "fill" => entry <= Len(Work)
    /\ step = "idle" => did = {} /\ queue = <<>>
    /\ (task.what = "recipe" \/ queue \notin Seq(Fetches)) => did = {}
    /\ task.what = "recipe" => queue \in Seq(Replays)
    /\ task.what = "download" => queue \in Seq(Fetches)

(* How far an archive has been extracted.                                  *)
ArchiveFits == task.what = "download" =>
    LET files == Entries[task.item]
    IN  /\ step = "extract" =>
              /\ entry <= Len(files) + 1
              /\ \A i \in 1 .. entry - 1 : content[files[i]] = "good"
        /\ step = "fill" =>
              /\ entry <= Len(files)
              /\ \A i \in 1 .. entry - 1 :
                    files[i] # files[entry] => content[files[i]] = "good"
        /\ step \in {"record", "write", "clean"} =>
              \A f \in Contents(task.item) : content[f] = "good"

(* What has been installed is whole, but for what the archive at hand is   *)
(* writing over.                                                           *)
AtWork(f) ==
    /\ task.what = "download" /\ step \in {"fetch", "extract", "fill"}
    /\ f \in Contents(task.item)
InstalledIsWhole ==
    \A d \in did : \A f \in Contents(d) : content[f] = "good" \/ AtWork(f)

InstallInv ==
    Typed /\ TaskFits /\ ArchiveFits /\ InstalledIsWhole /\ ManifestIsTruthful
-----------------------------------------------------------------------------
(* Sequences of tasks.                                                     *)

LEMMA ContentsOf ==
    ASSUME NEW d \in Downloads
    PROVE  /\ Entries[d] \in Seq(Files) /\ Len(Entries[d]) \in Nat
           /\ \A i \in 1 .. Len(Entries[d]) : Entries[d][i] \in Files
           /\ Contents(d) = {Entries[d][i] : i \in 1 .. Len(Entries[d])}
<1>1. Entries[d] \in Seq(Files)
  BY InstallAssumption DEF InstallAssumption
<1>2. DOMAIN Entries[d] = 1 .. Len(Entries[d])
  BY <1>1, LenProperties
<1> QED
  BY <1>1, <1>2, LenProperties, ElementOfSeq DEF Contents, ToSet

(* A list of the members of a finite set is a sequence of them.            *)
LEMMA ListsAreSequences ==
    ASSUME NEW order, NEW n \in Nat, order \in [1..n -> ToSet(order)],
           NEW members \in SUBSET ToSet(order), NEW list \in Listings(order, members)
    PROVE  list \in Seq(members)
<1>1. order \in Surjection(1..n, ToSet(order))
  BY DEF Surjection, ToSet
<1>2. IsFiniteSet(1..n)
  BY FS_Interval
<1>3. IsFiniteSet(ToSet(order))
  BY <1>1, <1>2, FS_Surjection
<1>4. Cardinality(members) \in Nat
  BY <1>3, FS_Subset, FS_CardinalityType
<1> QED
  BY <1>4 DEF Listings

LEMMA TasksAreTyped ==
    ASSUME NEW what, NEW strict, NEW S, NEW items \in Seq(S)
    PROVE  Tasks(what, items, strict) \in Seq([what : {what}, item : S, strict : {strict}])
<1>1. /\ Len(items) \in Nat /\ DOMAIN items = 1 .. Len(items)
      /\ \A i \in 1 .. Len(items) : items[i] \in S
  BY LenProperties, ElementOfSeq
<1> QED
  BY <1>1 DEF Tasks

LEMMA QueueSplits ==
    ASSUME Typed, queue # <<>>
    PROVE  /\ queue \in Seq(Fetches) => Head(queue) \in Fetches /\ Tail(queue) \in Seq(Fetches)
           /\ queue \in Seq(Replays) => Head(queue) \in Replays /\ Tail(queue) \in Seq(Replays)
BY HeadTailProperties DEF Typed

(* What an archive's entry is to do.                                       *)
LEMMA WorkOfAnArchive ==
    ASSUME Typed, task.what = "download"
    PROVE  /\ task \in [what : {"download"}, item : Downloads, strict : BOOLEAN]
           /\ task.item \in Downloads
           /\ Len(Work) = Len(Entries[task.item])
           /\ entry \in 1 .. Len(Work) =>
                 Act = [do |-> "write", file |-> Entries[task.item][entry], from |-> None]
<1>1. task \in [what : {"download"}, item : Downloads, strict : BOOLEAN]
  <2>1. task # NoTask
    BY DEF NoTask
  <2>2. task \notin Replays
    BY DEF Replays
  <2> QED
    BY <2>1, <2>2 DEF Typed
<1>2. task.item \in Downloads
  BY <1>1
<1>3. DOMAIN Entries[task.item] = 1 .. Len(Entries[task.item])
  BY <1>2, ContentsOf, LenProperties
<1>4. Work = [i \in 1 .. Len(Entries[task.item]) |->
                [do |-> "write", file |-> Entries[task.item][i], from |-> None]]
  BY <1>3 DEF Work
<1>5. Len(Work) = Len(Entries[task.item])
  BY <1>2, <1>4, ContentsOf
<1> QED
  BY <1>1, <1>2, <1>4, <1>5, ContentsOf DEF Act
-----------------------------------------------------------------------------
(* An operation begins.                                                    *)

LEMMA BeginKeeps ==
    ASSUME InstallInv, NEW tasks \in Seq(Fetches) \cup Seq(Replays), Begin(tasks)
    PROVE  InstallInv'
<1> USE DEF InstallInv, Begin
<1>1. Typed'
  BY DEF Typed
<1>2. TaskFits' /\ ArchiveFits'
  BY DEF TaskFits, ArchiveFits, Fetching, Unpacking, NoTask
<1>3. InstalledIsWhole'
  BY DEF InstalledIsWhole, TaskFits
<1>4. ManifestIsTruthful'
  BY DEF ManifestIsTruthful
<1> QED
  BY <1>1, <1>2, <1>3, <1>4

LEMMA StartKeeps ==
    ASSUME InstallInv, Start
    PROVE  InstallInv'
<1>1. ASSUME NEW list \in Seq(Packages)
      PROVE  Tasks("package", list, TRUE) \in Seq(Fetches)
  <2>1. Tasks("package", list, TRUE) \in Seq([what : {"package"}, item : Packages, strict : {TRUE}])
    BY TasksAreTyped
  <2>2. [what : {"package"}, item : Packages, strict : {TRUE}] \subseteq Fetches
    BY DEF Fetches
  <2> QED
    BY <2>1, <2>2, SeqMonotonic
<1>2. ASSUME NEW list \in Seq(Downloads), NEW strict \in BOOLEAN
      PROVE  Tasks("download", list, strict) \in Seq(Fetches)
  <2>1. Tasks("download", list, strict) \in Seq([what : {"download"}, item : Downloads, strict : {strict}])
    BY TasksAreTyped
  <2>2. [what : {"download"}, item : Downloads, strict : {strict}] \subseteq Fetches
    BY DEF Fetches
  <2> QED
    BY <2>1, <2>2, SeqMonotonic
<1>3. ASSUME NEW list \in Seq(Recipes)
      PROVE  Tasks("recipe", list, FALSE) \in Seq(Replays)
  BY TasksAreTyped DEF Replays
<1>4. MissingPlan \in Seq(Fetches)
  BY <1>2, InstallAssumption, EmptySeq DEF MissingPlan, InstallAssumption
<1>5. ASSUME NEW packages \in SUBSET Packages, Ensure(packages)
      PROVE  InstallInv'
  <2>1. PICK list \in Listings(PackageOrder, Missing(packages)) :
              Begin(Tasks("package", list, TRUE))
    BY <1>5 DEF Ensure
  <2>2. PackageOrder \in [1 .. Len(PackageOrder) -> Packages] /\ Len(PackageOrder) \in Nat
    BY InstallAssumption, LenProperties DEF InstallAssumption
  <2>3. Missing(packages) \in SUBSET Packages
    BY DEF Missing
  <2>4. list \in Seq(Missing(packages))
    BY <2>2, <2>3, ListsAreSequences DEF Packages
  <2>5. list \in Seq(Packages)
    BY <2>3, <2>4, SeqMonotonic
  <2> QED
    BY <1>1, <2>1, <2>5, BeginKeeps
<1>6. CASE EnsureRequired
  BY <1>5, <1>6, InstallAssumption DEF EnsureRequired, InstallAssumption
<1>7. CASE EnsureAll
  BY <1>5, <1>7 DEF EnsureAll
<1>8. CASE DownloadMissing
  BY <1>4, <1>8, BeginKeeps DEF DownloadMissing
<1>9. CASE DownloadAll
  <2>1. PICK list \in Listings(DownloadOrder, Optional) :
              Begin(MissingPlan \o Tasks("download", list, FALSE))
    BY <1>9 DEF DownloadAll
  <2>2. DownloadOrder \in [1 .. Len(DownloadOrder) -> Downloads] /\ Len(DownloadOrder) \in Nat
    BY InstallAssumption, LenProperties DEF InstallAssumption
  <2>3. Optional \in SUBSET Downloads
    BY DEF Optional
  <2>4. list \in Seq(Optional)
    BY <2>2, <2>3, ListsAreSequences DEF Downloads
  <2>5. list \in Seq(Downloads)
    BY <2>3, <2>4, SeqMonotonic
  <2>6. MissingPlan \o Tasks("download", list, FALSE) \in Seq(Fetches)
    BY <1>2, <1>4, <2>5, ConcatProperties
  <2> QED
    BY <2>1, <2>6, BeginKeeps
<1>10. CASE DownloadOne
  <2>1. PICK d \in Downloads : Begin(Tasks("download", <<d>>, TRUE))
    BY <1>10 DEF DownloadOne
  <2>2. <<d>> \in Seq(Downloads)
    OBVIOUS
  <2> QED
    BY <1>2, <2>1, <2>2, BeginKeeps
<1>11. CASE InstallAll
  BY <1>3, <1>11, BeginKeeps, InstallAssumption DEF InstallAll, InstallAssumption
<1>12. CASE InstallOne
  <2>1. PICK r \in Recipes : Begin(Tasks("recipe", <<r>>, FALSE))
    BY <1>12 DEF InstallOne
  <2>2. <<r>> \in Seq(Recipes)
    OBVIOUS
  <2> QED
    BY <1>3, <2>1, <2>2, BeginKeeps
<1> QED
  BY <1>6, <1>7, <1>8, <1>9, <1>10, <1>11, <1>12 DEF Start
-----------------------------------------------------------------------------
(* How a task ends.                                                        *)

LEMMA TaskFailsKeeps ==
    ASSUME InstallInv, TaskFails, step \in {"fetch", "extract", "fill"},
           UNCHANGED manifest
    PROVE  InstallInv'
<1> USE DEF InstallInv
<1>1. /\ task' = NoTask /\ entry' = 1 /\ content' = content /\ manifest' = manifest
      /\ step' \in {"idle", "pick"}
      /\ \/ step' = "idle" /\ queue' = <<>> /\ did' = {}
         \/ /\ step' = "pick" /\ queue' = queue
            /\ did' = {d \in did : Contents(d) \cap Contents(task.item) = {}}
  BY DEF TaskFails, EndTask
<1>2. did' \subseteq did
  BY <1>1
<1>3. Typed'
  <2>1. queue' \in Seq(Fetches) \/ queue' \in Seq(Replays)
    BY <1>1, EmptySeq DEF Typed
  <2>2. did' \subseteq Downloads
    BY <1>2 DEF Typed
  <2> QED
    BY <1>1, <2>1, <2>2 DEF Typed
<1>4. did = {} => did' = {}
  BY <1>2
<1>5. TaskFits'
  <2>1. queue' \notin Seq(Fetches) => did' = {}
    BY <1>1, <1>4, EmptySeq DEF TaskFits
  <2> QED
    BY <1>1, <2>1 DEF TaskFits, Fetching, Unpacking, NoTask
<1>6. ArchiveFits'
  BY <1>1 DEF ArchiveFits, NoTask
<1>7. InstalledIsWhole'
  <2>1. ASSUME NEW d \in did', NEW f \in Contents(d)
        PROVE  content[f] = "good"
    <3>1. d \in did /\ Contents(d) \cap Contents(task.item) = {}
      BY <1>1, <2>1
    <3> QED
      BY <2>1, <3>1 DEF InstalledIsWhole, AtWork
  <2> QED
    BY <1>1, <2>1 DEF InstalledIsWhole
<1>8. ManifestIsTruthful'
  BY <1>1 DEF ManifestIsTruthful
<1> QED
  BY <1>3, <1>5, <1>6, <1>7, <1>8

LEMMA FallBackKeeps ==
    ASSUME InstallInv, FallBack, task.what = "download",
           step \in {"fetch", "extract", "fill"}
    PROVE  InstallInv'
<1> USE DEF InstallInv, FallBack
<1>1. Typed'
  BY DEF Typed
<1>2. TaskFits' /\ ArchiveFits'
  BY DEF TaskFits, ArchiveFits, Fetching, Unpacking
<1>3. InstalledIsWhole'
  BY DEF InstalledIsWhole, AtWork
<1>4. ManifestIsTruthful'
  BY DEF ManifestIsTruthful
<1> QED
  BY <1>1, <1>2, <1>3, <1>4
-----------------------------------------------------------------------------
(* The queue.                                                              *)

LEMMA SkipKeeps ==
    ASSUME InstallInv, Skip
    PROVE  InstallInv'
<1> USE DEF InstallInv, Skip
<1>1. /\ queue \in Seq(Fetches) => Tail(queue) \in Seq(Fetches)
      /\ queue \in Seq(Replays) => Tail(queue) \in Seq(Replays)
  BY QueueSplits
<1>2. Typed'
  BY <1>1 DEF Typed
<1>3. TaskFits' /\ ArchiveFits'
  BY <1>1 DEF TaskFits, ArchiveFits, Fetching, Unpacking, NoTask
<1>4. InstalledIsWhole'
  BY DEF InstalledIsWhole, AtWork
<1>5. ManifestIsTruthful'
  BY DEF ManifestIsTruthful
<1> QED
  BY <1>2, <1>3, <1>4, <1>5

LEMMA PickKeeps ==
    ASSUME InstallInv, Pick
    PROVE  InstallInv'
<1> DEFINE t == Head(queue)
           d == IF t.what = "package" THEN DownloadOf[t.item] ELSE t.item
<1> USE DEF InstallInv
<1>1. /\ step = "pick" /\ queue # <<>> /\ ~Skipped(t) /\ queue' = Tail(queue)
      /\ UNCHANGED <<content, manifest, entry, did>>
      /\ task = NoTask /\ entry = 1
  BY DEF Pick, TaskFits
<1>2. \A x \in did : \A f \in Contents(x) : content[f] = "good"
  BY <1>1 DEF InstalledIsWhole, AtWork, NoTask
<1>3. ManifestIsTruthful'
  BY <1>1 DEF ManifestIsTruthful
<1>4. InstalledIsWhole'
  BY <1>1, <1>2 DEF InstalledIsWhole
<1>5. CASE t.what = "recipe"
  <2>1. task' = t /\ step' = "extract"
    BY <1>5 DEF Pick
  <2>2. t \notin Fetches
    BY <1>5 DEF Fetches
  <2>3. queue \in Seq(Replays) /\ queue \notin Seq(Fetches)
    BY <1>1, <2>2, QueueSplits DEF Typed
  <2>4. t \in Replays /\ queue' \in Seq(Replays) /\ did = {}
    BY <1>1, <2>3, QueueSplits DEF TaskFits
  <2>5. Typed'
    BY <1>1, <2>1, <2>4 DEF Typed
  <2>6. TaskFits' /\ ArchiveFits'
    BY <1>1, <1>5, <2>1, <2>4 DEF TaskFits, ArchiveFits, Fetching, Unpacking
  <2> QED
    BY <1>3, <1>4, <2>5, <2>6
<1>6. CASE t.what # "recipe"
  <2>1. task' = [what |-> "download", item |-> d, strict |-> t.strict] /\ step' = "fetch"
    BY <1>6 DEF Pick
  <2>2. t \notin Replays
    BY <1>6 DEF Replays
  <2>3. queue \in Seq(Fetches)
    BY <1>1, <2>2, QueueSplits DEF Typed
  <2>4. t \in Fetches /\ queue' \in Seq(Fetches)
    BY <1>1, <2>3, QueueSplits
  <2>5. d \in Downloads /\ t.strict \in BOOLEAN
    <3>1. CASE t.what = "package"
      <4>1. t.item \in Packages /\ t.strict \in BOOLEAN
        BY <2>4, <3>1 DEF Fetches
      <4>2. DownloadOf[t.item] # None
        BY <1>1, <3>1 DEF Skipped
      <4> QED
        BY <3>1, <4>1, <4>2, InstallAssumption DEF InstallAssumption
    <3>2. CASE t.what # "package"
      BY <2>4, <3>2 DEF Fetches
    <3> QED
      BY <3>1, <3>2
  <2>6. Typed'
    BY <1>1, <2>1, <2>4, <2>5 DEF Typed
  <2>7. TaskFits' /\ ArchiveFits'
    BY <1>1, <2>1, <2>4 DEF TaskFits, ArchiveFits, Fetching, Unpacking
  <2> QED
    BY <1>3, <1>4, <2>6, <2>7
<1> QED
  BY <1>5, <1>6

LEMMA FinishKeeps ==
    ASSUME InstallInv, Finish
    PROVE  InstallInv'
<1> USE DEF InstallInv, Finish
<1>1. Typed'
  BY DEF Typed
<1>2. TaskFits' /\ ArchiveFits'
  BY DEF TaskFits, ArchiveFits, Fetching, Unpacking, NoTask
<1>3. InstalledIsWhole' /\ ManifestIsTruthful'
  BY DEF InstalledIsWhole, ManifestIsTruthful
<1> QED
  BY <1>1, <1>2, <1>3
-----------------------------------------------------------------------------
(* The archive, file by file.                                              *)

LEMMA FetchOkKeeps ==
    ASSUME InstallInv, FetchOk
    PROVE  InstallInv'
<1> USE DEF InstallInv, FetchOk
<1>1. task.what = "download" /\ entry = 1
  BY DEF TaskFits, Fetching
<1>2. Typed'
  BY DEF Typed
<1>3. TaskFits'
  BY <1>1 DEF TaskFits, Fetching, Unpacking
<1>4. ArchiveFits'
  BY <1>1, WorkOfAnArchive, ContentsOf DEF ArchiveFits
<1>5. InstalledIsWhole'
  BY <1>1 DEF InstalledIsWhole, AtWork
<1>6. ManifestIsTruthful'
  BY DEF ManifestIsTruthful
<1> QED
  BY <1>2, <1>3, <1>4, <1>5, <1>6

LEMMA FetchFailsKeeps ==
    ASSUME InstallInv, FetchFails
    PROVE  InstallInv'
<1>1. task.what = "download" /\ step = "fetch"
  BY DEF InstallInv, TaskFits, Fetching, FetchFails
<1>2. CASE FallBack
  BY <1>1, <1>2, FallBackKeeps
<1>3. CASE TaskFails
  BY <1>1, <1>3, TaskFailsKeeps DEF TaskFails
<1> QED
  BY <1>2, <1>3 DEF FetchFails

LEMMA ExtractFailsKeeps ==
    ASSUME InstallInv, ExtractFails
    PROVE  InstallInv'
<1>1. step \in {"extract", "fill"}
  BY DEF ExtractFails, Extracting
<1>2. CASE task.what = "download" /\ way = "p2p"
  BY <1>1, <1>2, FallBackKeeps DEF ExtractFails
<1>3. CASE ~(task.what = "download" /\ way = "p2p")
  <2>1. TaskFails
    BY <1>3 DEF ExtractFails
  <2> QED
    BY <1>1, <2>1, TaskFailsKeeps DEF TaskFails
<1> QED
  BY <1>2, <1>3

(* A recipe runs while nothing has been installed by the operation.        *)
LEMMA RecipeKeeps ==
    ASSUME InstallInv, task.what = "recipe", UNCHANGED <<manifest, queue, task, did>>,
           content' \in [Files -> {"absent", "cut", "good", "bad"}],
           step' \in {"extract", "fill"}, entry' \in Nat \ {0},
           step' = "fill" => entry' <= Len(Work)
    PROVE  InstallInv'
<1> USE DEF InstallInv
<1>1. did = {}
  BY DEF TaskFits
<1>2. Typed'
  BY DEF Typed
<1>3. TaskFits' /\ ArchiveFits'
  BY DEF TaskFits, ArchiveFits, Fetching, Unpacking, Work
<1>4. InstalledIsWhole' /\ ManifestIsTruthful'
  BY <1>1 DEF InstalledIsWhole, ManifestIsTruthful
<1> QED
  BY <1>2, <1>3, <1>4

(* What an action writes is one of the four conditions of a file.          *)
LEMMA RecipeWork ==
    ASSUME InstallInv, task.what = "recipe"
    PROVE  /\ Len(Work) \in Nat
           /\ entry \in 1 .. Len(Work) => /\ Act.file \in Files
                                          /\ Act.do = "unpack" => Act.from \in Files
<1>1. task \in Replays
  <2>1. task # NoTask /\ task \notin [what : {"download"}, item : Downloads, strict : BOOLEAN]
    BY DEF NoTask
  <2> QED
    BY <2>1 DEF InstallInv, Typed
<1>2. task.item \in Recipes
  BY <1>1 DEF Replays
<1> DEFINE Steps == [do : {"write", "unpack", "delete"}, file : Files, from : Files \cup {None}]
<1>3. Work \in Seq(Steps) /\ Work = Actions[task.item]
  BY <1>2, InstallAssumption DEF Work, InstallAssumption
<1>4. Len(Work) \in Nat /\ DOMAIN Work = 1 .. Len(Work)
  BY <1>3, LenProperties
<1>5. entry \in 1 .. Len(Work) => Act \in Steps
  BY <1>3, ElementOfSeq DEF Act
<1>6. entry \in 1 .. Len(Work) => (Act.do = "unpack" => Act.from \in Files)
  BY <1>2, <1>3, <1>4, InstallAssumption DEF Act, InstallAssumption
<1> QED
  BY <1>4, <1>5, <1>6

LEMMA OpenEntryKeeps ==
    ASSUME InstallInv, OpenEntry
    PROVE  InstallInv'
<1> USE DEF InstallInv
<1>1. /\ step = "extract" /\ entry <= Len(Work) /\ step' = "fill"
      /\ content' = [content EXCEPT ![Act.file] = "cut"]
      /\ UNCHANGED <<manifest, queue, task, entry, did>>
      /\ content' \in [Files -> {"absent", "cut", "good", "bad"}]
  BY DEF OpenEntry, Extracting, Typed
<1>2. task.what \in {"download", "recipe"} /\ entry \in Nat \ {0}
  BY <1>1 DEF TaskFits, Typed, Unpacking
<1>3. CASE task.what = "recipe"
  BY <1>1, <1>2, <1>3, RecipeKeeps
<1>4. CASE task.what = "download"
  <2> DEFINE files == Entries[task.item]
  <2>1. /\ task.item \in Downloads /\ Len(Work) = Len(files) /\ Len(files) \in Nat
        /\ entry \in 1 .. Len(files)
    BY <1>1, <1>2, <1>4, WorkOfAnArchive, ContentsOf
  <2>2. Act.file = files[entry] /\ files[entry] \in Contents(task.item)
    BY <1>4, <2>1, WorkOfAnArchive, ContentsOf
  <2>3. \A i \in 1 .. Len(files) : files[i] \in Files
    BY <2>1, ContentsOf
  <2>4. \A f \in Files : f # files[entry] => content'[f] = content[f]
    BY <1>1, <2>2 DEF Typed
  <2>5. Typed'
    BY <1>1 DEF Typed
  <2>6. TaskFits'
    BY <1>1, <1>4 DEF TaskFits, Fetching, Unpacking, Work
  <2>7. ArchiveFits'
    <3>1. ASSUME NEW i \in 1 .. entry - 1, files[i] # files[entry]
          PROVE  content'[files[i]] = "good"
      <4>1. content[files[i]] = "good"
        BY <1>1, <1>4, <3>1 DEF ArchiveFits
      <4>2. files[i] \in Files
        BY <2>1, <2>3, <3>1
      <4> QED
        BY <2>4, <3>1, <4>1, <4>2
    <3> QED
      BY <1>1, <2>1, <3>1 DEF ArchiveFits
  <2>8. InstalledIsWhole'
    <3>1. ASSUME NEW x \in did, NEW f \in Contents(x)
          PROVE  content'[f] = "good" \/ f \in Contents(task.item)
      <4>1. f \in Files
        BY <3>1, ContentsOf DEF Typed
      <4>2. content[f] = "good" \/ f \in Contents(task.item)
        BY <3>1 DEF InstalledIsWhole, AtWork
      <4> QED
        BY <2>2, <2>4, <4>1, <4>2
    <3> QED
      BY <1>1, <1>4, <3>1 DEF InstalledIsWhole, AtWork
  <2>9. ManifestIsTruthful'
    BY <1>1 DEF ManifestIsTruthful
  <2> QED
    BY <2>5, <2>6, <2>7, <2>8, <2>9
<1> QED
  BY <1>2, <1>3, <1>4

LEMMA FillEntryKeeps ==
    ASSUME InstallInv, FillEntry
    PROVE  InstallInv'
<1> USE DEF InstallInv
<1>1. /\ step = "fill" /\ step' = "extract" /\ entry' = entry + 1
      /\ content' = [content EXCEPT ![Act.file] = Filling]
      /\ UNCHANGED <<manifest, queue, task, did>>
  BY DEF FillEntry
<1>2. /\ task.what \in {"download", "recipe"}
      /\ entry \in Nat \ {0} /\ entry <= Len(Work)
  BY <1>1 DEF TaskFits, Typed, Unpacking
<1>3. CASE task.what = "recipe"
  <2>1. Len(Work) \in Nat /\ (Act.do = "unpack" => Act.from \in Files)
    BY <1>2, <1>3, RecipeWork
  <2>2. Filling \in {"absent", "cut", "good", "bad"}
    BY <2>1 DEF Filling, Typed
  <2>3. content' \in [Files -> {"absent", "cut", "good", "bad"}]
    BY <1>1, <2>2 DEF Typed
  <2> QED
    BY <1>1, <1>2, <1>3, <2>3, RecipeKeeps
<1>4. CASE task.what = "download"
  <2> DEFINE files == Entries[task.item]
  <2>1. /\ task.item \in Downloads /\ Len(Work) = Len(files) /\ Len(files) \in Nat
        /\ entry \in 1 .. Len(files)
        /\ \A i \in 1 .. Len(files) : files[i] \in Files
    BY <1>2, <1>4, WorkOfAnArchive, ContentsOf
  <2>2. Act.file = files[entry] /\ Filling = "good" /\ files[entry] \in Files
    BY <1>4, <2>1, WorkOfAnArchive DEF Filling
  <2>3. content' \in [Files -> {"absent", "cut", "good", "bad"}]
    BY <1>1, <2>2 DEF Typed
  <2>4. \A f \in Files : content'[f] = IF f = files[entry] THEN "good" ELSE content[f]
    BY <1>1, <2>2 DEF Typed
  <2>5. Typed'
    BY <1>1, <1>2, <2>3 DEF Typed
  <2>6. TaskFits'
    BY <1>1, <1>4 DEF TaskFits, Fetching, Unpacking
  <2>7. ArchiveFits'
    <3>1. ASSUME NEW i \in 1 .. entry
          PROVE  content'[files[i]] = "good"
      <4>1. files[i] \in Files
        BY <2>1, <3>1
      <4>2. files[i] # files[entry] => content[files[i]] = "good"
        BY <1>1, <1>4, <2>1, <3>1 DEF ArchiveFits
      <4> QED
        BY <2>4, <4>1, <4>2
    <3>2. entry' - 1 = entry /\ entry' <= Len(files) + 1
      BY <1>1, <2>1
    <3> QED
      BY <1>1, <3>1, <3>2 DEF ArchiveFits
  <2>8. InstalledIsWhole'
    <3>1. ASSUME NEW x \in did, NEW f \in Contents(x)
          PROVE  content'[f] = "good" \/ f \in Contents(task.item)
      <4>1. f \in Files
        BY <3>1, ContentsOf DEF Typed
      <4>2. content[f] = "good" \/ f \in Contents(task.item)
        BY <3>1 DEF InstalledIsWhole, AtWork
      <4> QED
        BY <2>4, <4>1, <4>2
    <3> QED
      BY <1>1, <1>4, <3>1 DEF InstalledIsWhole, AtWork
  <2>9. ManifestIsTruthful'
    BY <1>1 DEF ManifestIsTruthful
  <2> QED
    BY <2>5, <2>6, <2>7, <2>8, <2>9
<1> QED
  BY <1>2, <1>3, <1>4

LEMMA DeleteEntryKeeps ==
    ASSUME InstallInv, DeleteEntry
    PROVE  InstallInv'
<1> USE DEF InstallInv
<1>1. /\ step = "extract" /\ entry <= Len(Work) /\ Act.do = "delete"
      /\ step' = step /\ entry' = entry + 1
      /\ content' = [content EXCEPT ![Act.file] = "absent"]
      /\ UNCHANGED <<manifest, queue, task, did>>
  BY DEF DeleteEntry, Extracting
<1>2. task.what \in {"download", "recipe"} /\ entry \in Nat \ {0}
  BY <1>1 DEF TaskFits, Typed, Unpacking
<1>3. task.what # "download"
  <2>1. SUFFICES ASSUME task.what = "download" PROVE FALSE
    OBVIOUS
  <2>2. entry \in 1 .. Len(Work)
    BY <1>1, <1>2, <2>1, WorkOfAnArchive, ContentsOf
  <2> QED
    BY <1>1, <2>1, <2>2, WorkOfAnArchive
<1>4. content' \in [Files -> {"absent", "cut", "good", "bad"}]
  BY <1>1 DEF Typed
<1> QED
  BY <1>1, <1>2, <1>3, <1>4, RecipeKeeps

LEMMA ExtractEndsKeeps ==
    ASSUME InstallInv, ExtractEnds
    PROVE  InstallInv'
<1> USE DEF InstallInv
<1>1. /\ step = "extract" /\ entry > Len(Work)
      /\ UNCHANGED <<content, manifest, queue, did>>
      /\ task.what \in {"download", "recipe"} /\ entry \in Nat \ {0}
  BY DEF ExtractEnds, TaskFits, Typed, Unpacking
<1>2. ManifestIsTruthful'
  BY <1>1 DEF ManifestIsTruthful
<1>3. CASE task.what = "recipe"
  <2>1. step' = "pick" /\ task' = NoTask /\ entry' = 1
    BY <1>3 DEF ExtractEnds, EndTask
  <2>2. did = {}
    BY <1>3 DEF TaskFits
  <2>3. Typed'
    BY <1>1, <2>1 DEF Typed
  <2>4. TaskFits' /\ ArchiveFits'
    BY <1>1, <2>1, <2>2 DEF TaskFits, ArchiveFits, Fetching, Unpacking, NoTask
  <2>5. InstalledIsWhole'
    BY <1>1, <2>2 DEF InstalledIsWhole
  <2> QED
    BY <1>2, <2>3, <2>4, <2>5
<1>4. CASE task.what = "download"
  <2> DEFINE files == Entries[task.item]
  <2>1. step' = "record" /\ UNCHANGED <<task, entry>>
    BY <1>4 DEF ExtractEnds
  <2>2. /\ task.item \in Downloads /\ Len(Work) = Len(files) /\ Len(files) \in Nat
        /\ Contents(task.item) = {files[i] : i \in 1 .. Len(files)}
    BY <1>4, WorkOfAnArchive, ContentsOf
  <2>3. \A f \in Contents(task.item) : content[f] = "good"
    BY <1>1, <1>4, <2>2 DEF ArchiveFits
  <2>4. Typed'
    BY <1>1, <2>1 DEF Typed
  <2>5. TaskFits' /\ ArchiveFits'
    BY <1>1, <1>4, <2>1, <2>3 DEF TaskFits, ArchiveFits, Fetching, Unpacking
  <2>6. InstalledIsWhole'
    BY <1>1, <2>3 DEF InstalledIsWhole, AtWork
  <2> QED
    BY <1>2, <2>4, <2>5, <2>6
<1> QED
  BY <1>1, <1>3, <1>4
-----------------------------------------------------------------------------
(* The manifest, and the archive afterwards.                               *)

LEMMA RecordBeginsKeeps ==
    ASSUME InstallInv, RecordBegins
    PROVE  InstallInv'
<1> USE DEF InstallInv
<1>1. /\ step = "record" /\ step' \in {"write", "clean"}
      /\ UNCHANGED <<content, queue, task, entry, did>>
      /\ manifest' \in {manifest, Unreadable}
  BY DEF RecordBegins
<1>2. Typed'
  BY <1>1 DEF Typed
<1>3. TaskFits' /\ ArchiveFits'
  BY <1>1 DEF TaskFits, ArchiveFits, Fetching, Unpacking
<1>4. InstalledIsWhole'
  BY <1>1 DEF InstalledIsWhole, AtWork
<1>5. ManifestIsTruthful'
  BY <1>1 DEF ManifestIsTruthful, Unreadable
<1> QED
  BY <1>2, <1>3, <1>4, <1>5

LEMMA RecordEndsKeeps ==
    ASSUME InstallInv, RecordEnds
    PROVE  InstallInv'
<1> USE DEF InstallInv
<1>1. /\ step = "write" /\ step' = "clean" /\ task.what = "download"
      /\ UNCHANGED <<content, queue, task, entry, did>>
      /\ \/ manifest' = manifest
         \/ manifest' = [of |-> task.item, digests |-> Digests(Provides[task.item])]
  BY DEF RecordEnds, TaskFits, Fetching
<1>2. Typed'
  BY <1>1 DEF Typed
<1>3. TaskFits' /\ ArchiveFits'
  BY <1>1 DEF TaskFits, ArchiveFits, Fetching, Unpacking
<1>4. InstalledIsWhole'
  BY <1>1 DEF InstalledIsWhole, AtWork
<1>5. \A f \in Contents(task.item) : content[f] = "good"
  BY <1>1 DEF ArchiveFits
<1>6. \A f \in DOMAIN Digests(Provides[task.item]) :
         Digests(Provides[task.item])[f] = content[f]
  BY DEF Digests
<1>7. ManifestIsTruthful'
  BY <1>1, <1>5, <1>6 DEF ManifestIsTruthful
<1> QED
  BY <1>2, <1>3, <1>4, <1>7

LEMMA RemoveArchiveKeeps ==
    ASSUME InstallInv, RemoveArchive
    PROVE  InstallInv'
<1> USE DEF InstallInv
<1>1. /\ step = "clean" /\ step' = "pick" /\ task' = NoTask /\ entry' = 1
      /\ did' = did \cup {task.item}
      /\ UNCHANGED <<content, manifest, queue>>
      /\ task.what = "download"
  BY DEF RemoveArchive, EndTask, TaskFits, Fetching
<1>2. task.item \in Downloads /\ queue \in Seq(Fetches)
  BY <1>1, WorkOfAnArchive DEF TaskFits
<1>3. Typed'
  BY <1>1, <1>2 DEF Typed
<1>4. TaskFits' /\ ArchiveFits'
  BY <1>1, <1>2 DEF TaskFits, ArchiveFits, Fetching, Unpacking, NoTask
<1>5. InstalledIsWhole'
  BY <1>1 DEF InstalledIsWhole, AtWork, ArchiveFits
<1>6. ManifestIsTruthful'
  BY <1>1 DEF ManifestIsTruthful
<1> QED
  BY <1>3, <1>4, <1>5, <1>6
-----------------------------------------------------------------------------
(* Between operations.                                                     *)

LEMMA MishapsKeep ==
    ASSUME InstallInv, CleanCommand \/ Crash \/ \E f \in Files : Damage(f)
    PROVE  InstallInv'
<1> USE DEF InstallInv
<1>1. CASE Crash
  <2>1. /\ task' = NoTask /\ entry' = 1 /\ queue' = <<>> /\ step' = "idle" /\ did' = {}
        /\ UNCHANGED <<content, manifest>>
    BY <1>1 DEF Crash, EndTask
  <2>2. Typed'
    BY <2>1, EmptySeq DEF Typed
  <2>3. TaskFits' /\ ArchiveFits'
    BY <2>1, EmptySeq DEF TaskFits, ArchiveFits, Fetching, Unpacking, NoTask
  <2>4. InstalledIsWhole' /\ ManifestIsTruthful'
    BY <2>1 DEF InstalledIsWhole, ManifestIsTruthful
  <2> QED
    BY <2>2, <2>3, <2>4
<1>2. CASE CleanCommand \/ \E f \in Files : Damage(f)
  <2>1. /\ step = "idle" /\ UNCHANGED <<queue, task, step, entry, did>>
        /\ manifest' \in {manifest, Unreadable}
        /\ content' \in [Files -> {"absent", "cut", "good", "bad"}]
    BY <1>2 DEF CleanCommand, Damage, Typed
  <2>2. task = NoTask /\ did = {}
    BY <2>1 DEF TaskFits
  <2>3. Typed'
    BY <2>1 DEF Typed
  <2>4. TaskFits' /\ ArchiveFits'
    BY <2>1, <2>2 DEF TaskFits, ArchiveFits, Fetching, Unpacking, NoTask
  <2>5. InstalledIsWhole' /\ ManifestIsTruthful'
    BY <2>1, <2>2 DEF InstalledIsWhole, ManifestIsTruthful, Unreadable
  <2> QED
    BY <2>3, <2>4, <2>5
<1> QED
  BY <1>1, <1>2
-----------------------------------------------------------------------------
(* Every step of every operation, and every mishap, keeps the invariant.   *)
LEMMA InstallStep ==
    ASSUME InstallInv, [Next]_vars
    PROVE  InstallInv'
<1>1. CASE Next
  <2>1. CASE Continue
    BY <2>1, SkipKeeps, PickKeeps, FinishKeeps, FetchOkKeeps, FetchFailsKeeps,
       OpenEntryKeeps, FillEntryKeeps, DeleteEntryKeeps, ExtractFailsKeeps,
       ExtractEndsKeeps, RecordBeginsKeeps, RecordEndsKeeps, RemoveArchiveKeeps
       DEF Continue
  <2> QED
    BY <1>1, <2>1, StartKeeps, MishapsKeep DEF Next
<1>2. CASE UNCHANGED vars
  BY <1>2 DEF InstallInv, Typed, TaskFits, ArchiveFits, InstalledIsWhole, AtWork,
     ManifestIsTruthful, Fetching, Unpacking, Work, vars
<1> QED
  BY <1>1, <1>2

LEMMA InstallStart ==
    ASSUME Init
    PROVE  InstallInv
<1>1. Typed
  BY EmptySeq DEF Init, Typed
<1>2. TaskFits /\ ArchiveFits
  BY EmptySeq DEF Init, TaskFits, ArchiveFits, Fetching, Unpacking, NoTask
<1>3. InstalledIsWhole /\ ManifestIsTruthful
  BY DEF Init, InstalledIsWhole, ManifestIsTruthful, Unreadable
<1> QED
  BY <1>1, <1>2, <1>3 DEF InstallInv

(* Only an operation that has come to its end says Ok.                     *)
LEMMA OkIsEarned ==
    ASSUME InstallInv, [Next]_vars, answer # "ok", answer' = "ok"
    PROVE  \A d \in did : \A f \in Contents(d) : content[f] = "good"
<1>1. Finish
  BY DEF vars, Next, Start, Continue, EnsureRequired, EnsureAll, Ensure, DownloadMissing,
     DownloadAll, DownloadOne, InstallAll, InstallOne, Begin, Skip, Pick, Finish, FetchOk,
     FetchFails, OpenEntry, FillEntry, DeleteEntry, ExtractFails, ExtractEnds, TaskFails,
     FallBack, RecordBegins, RecordEnds, RemoveArchive, CleanCommand, Crash, Damage
<1> QED
  BY <1>1 DEF InstallInv, InstalledIsWhole, AtWork, Finish

(* The manifest vouches for no file of its archive that was cut short or   *)
(* had changed, and an operation that says Ok has left whole what it       *)
(* installed, wherever a crash, a disk error, a damaged file or a failed   *)
(* archive came between the steps of download_and_install,                 *)
(* execute_recipe and write_content_manifest.                              *)
THEOREM InstallsHold == Spec => InstallsAreTruthful
<1>1. Init => InstallInv
  BY InstallStart
<1>2. InstallInv /\ [Next]_vars => InstallInv'
  BY InstallStep
<1>3. InstallInv /\ InstallInv' /\ [Next]_vars => [ManifestIsTruthful']_vars
  BY DEF InstallInv
<1>4. InstallInv /\ [Next]_vars =>
         [answer # "ok" /\ answer' = "ok" =>
             \A d \in did : \A f \in Contents(d) : content[f] = "good"]_vars
  BY OkIsEarned
<1> QED
  BY <1>1, <1>2, <1>3, <1>4, PTL DEF Spec, InstallsAreTruthful, OkIsInstalled
=============================================================================
