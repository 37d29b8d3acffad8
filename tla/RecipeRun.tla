----------------------------- MODULE RecipeRun -----------------------------
(***************************************************************************)
(* Installing from a local source: a command identifies what lies at a     *)
(* path and runs the recipes of that source, action by action, into the    *)
(* content directory.  An action may fail or the process may die at any    *)
(* point; a recipe that fails is counted and the next one is run.          *)
(***************************************************************************)
EXTENDS ContentCatalog, SequencesExt

CONSTANTS
    Owned,          \* the products the user has
    MaxCommands,    \* bound: how often something is installed
    MaxFaults       \* bound: disk errors and crashes together

VARIABLES
    content,   \* the files of the content directory: none, part or whole
    job,       \* the command that runs, or NoJob
    report,    \* what the last command that ended said, or NoReport
    commands, recipeFaults

recipeVars == <<content, job, report, commands, recipeFaults>>

NoJob == [path |-> None]
NoReport == [errors |-> 99]

Intermediates == {"movies1.mix", "movies2.mix"}
Groups == UNION {TestFiles(p) : p \in PackageNames} \cup Intermediates

Exists(f) == content[f] # "none"

(* What the recipe of a package writes, and what of that is no part of it. *)
Written(s, p) ==
    UNION {ALL_RECIPES[s][p][i].writes :
           i \in {j \in DOMAIN ALL_RECIPES[s][p] : ALL_RECIPES[s][p][j].op # "Delete"}}
Unpacked(s, p) == Written(s, p) \cap Intermediates

-----------------------------------------------------------------------------
Running == job # NoJob
Package == Head(job.todo)
Recipe == ALL_RECIPES[job.source][Package]
Action == Recipe[job.step]

(* What the action would read is there, in the source or in the content.   *)
Readable ==
    IF Action.op = "ExtractMixFromContent"
    THEN \A f \in Action.reads : content[f] = "whole"
    ELSE Action.reads \subseteq HeldBy[job.path]

(* What the action can write: what it finds its own place of.              *)
Obtainable ==
    IF Action.op = "ExtractMixFromContent" THEN {f \in Action.writes : Readable}
    ELSE {f \in Action.writes : \E r \in Action.reads \cap HeldBy[job.path] : r[2] = f}

After(done, cut) ==
    [f \in Groups |-> IF f \in cut THEN "part" ELSE IF f \in done THEN "whole"
                      ELSE content[f]]

(* A slip: the errors of a recipe are forgotten when the next begins.      *)
ForgetsErrors(errors) ==
    IF Len(job.todo) > 1
    THEN /\ job' = [job EXCEPT !.todo = Tail(@), !.step = 1, !.errors = 0,
                               !.packages = @ \cup {Package}]
         /\ report' = NoReport
    ELSE /\ job' = NoJob
         /\ report' = [source |-> job.source, packages |-> job.packages \cup {Package},
                       errors |-> errors]

(* Leave the recipe: the next of the command, or the command ends.         *)
NextRecipe(errors) ==
    IF Len(job.todo) > 1
    THEN /\ job' = [job EXCEPT !.todo = Tail(@), !.step = 1, !.errors = errors,
                               !.packages = @ \cup {Package}]
         /\ report' = NoReport
    ELSE /\ job' = NoJob
         /\ report' = [source |-> job.source, packages |-> job.packages \cup {Package},
                       errors |-> errors]

-----------------------------------------------------------------------------
RecipeInit ==
    /\ content = [f \in Groups |-> "none"]
    /\ job = NoJob /\ report = NoReport
    /\ commands = 0 /\ recipeFaults = 0

(* cmd_install: the source is the first of the table that the path         *)
(* matches; without a filter all its recipes are run.  A client of the     *)
(* library may instead run the recipes of the source that a probe found.   *)
Install(path, source, packages) ==
    /\ ~Running /\ commands < MaxCommands
    /\ packages # {}
    /\ job' = [path |-> path, source |-> source, todo |-> SetToSeq(packages),
               step |-> 1, errors |-> 0, packages |-> {}]
    /\ report' = NoReport
    /\ commands' = commands + 1
    /\ UNCHANGED <<content, recipeFaults>>

SourcesAt(path) ==
    {identify_source(IdFilesOf[path])}
    \cup {s \in ProductSources[path] :
            \E i \in 1 .. Len(Matching(AnyType, IdFilesOf[path])) :
                Matching(AnyType, IdFilesOf[path])[i].id = s}

(* What the tables promise: a recipe writes the files of its package and   *)
(* deletes none of any; what it unpacks on the way it deletes, and no other *)
(* recipe of that source touches it.                                       *)
WellMade(s, p) ==
    LET r == ALL_RECIPES[s][p]
    IN  /\ Len(r) \in Nat \ {0} /\ DOMAIN r = 1 .. Len(r)
        /\ \A i \in DOMAIN r :
              /\ r[i].writes \subseteq Groups
              /\ r[i].op = "Delete" => r[i].writes \subseteq Intermediates
        /\ TestFiles(p) \subseteq Written(s, p) \ Intermediates
        /\ \A f \in Unpacked(s, p) :
              \E i \in DOMAIN r :
                 /\ r[i].op = "Delete" /\ f \in r[i].writes
                 /\ \A j \in i + 1 .. Len(r) : f \notin r[j].writes
        /\ \A q \in recipes_for_source(s) \ {p} : Unpacked(s, p) \cap Written(s, q) = {}

ASSUME RecipesAssumption ==
    /\ \A path \in Owned : SourcesAt(path) \ {None} \subseteq DOMAIN ALL_RECIPES
    /\ \A s \in DOMAIN ALL_RECIPES :
          /\ IsFiniteSet(recipes_for_source(s))
          /\ \A p \in recipes_for_source(s) : WellMade(s, p)

InstallAny ==
    \E path \in Owned : \E s \in SourcesAt(path) \ {None} :
        \/ Install(path, s, recipes_for_source(s))
        \/ \E p \in recipes_for_source(s) : Install(path, s, {p})

(* An action that succeeds; the last one ends the recipe.                  *)
Act ==
    /\ Running /\ Readable
    /\ content' = IF Action.op = "Delete"
                  THEN [f \in Groups |-> IF f \in Action.writes THEN "none" ELSE content[f]]
                  ELSE After(Action.writes, {})
    /\ IF job.step < Len(Recipe)
       THEN job' = [job EXCEPT !.step = @ + 1] /\ UNCHANGED report
       ELSE NextRecipe(job.errors)
    /\ UNCHANGED <<commands, recipeFaults>>

(* What an action that breaks off may leave: some files written, one of    *)
(* them perhaps cut short.                                                 *)
Broken ==
    \E done \in SUBSET Obtainable : \E cut \in {{}} \cup {{f} : f \in Obtainable \ done} :
        content' = IF Action.op = "Delete" THEN content ELSE After(done, cut)

(* An action that fails, because of the disk or because a file is missing, *)
(* after it wrote some of the others: the rest of the recipe is left, and  *)
(* the error is counted.                                                   *)
ActFails ==
    /\ Running /\ (~Readable \/ recipeFaults < MaxFaults)
    /\ recipeFaults' = IF Readable THEN recipeFaults + 1 ELSE recipeFaults
    /\ Broken
    /\ NextRecipe(job.errors + 1)
    /\ UNCHANGED commands

(* The process dies in the middle of an action.                            *)
Killed ==
    /\ Running /\ recipeFaults < MaxFaults
    /\ recipeFaults' = recipeFaults + 1
    /\ Broken
    /\ job' = NoJob /\ report' = NoReport
    /\ UNCHANGED commands

RecipeRest == ~Running /\ commands = MaxCommands /\ UNCHANGED recipeVars

RecipeNext == InstallAny \/ Act \/ ActFails \/ Killed \/ RecipeRest

RecipeSpec == RecipeInit /\ [][RecipeNext]_recipeVars

-----------------------------------------------------------------------------
(* A command without errors has installed each of its packages: all files  *)
(* are whole, whatever earlier commands left half done, and the archives   *)
(* that were unpacked on the way are gone.                                 *)
Delivered(s, p) ==
    /\ \A f \in TestFiles(p) : content[f] = "whole"
    /\ \A f \in Unpacked(s, p) : ~Exists(f)

NoErrorMeansInstalled ==
    report.errors = 0 => \A p \in report.packages : Delivered(report.source, p)
=============================================================================
