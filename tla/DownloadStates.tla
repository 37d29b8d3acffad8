--------------------------- MODULE DownloadStates ---------------------------
(***************************************************************************)
(* DownloadStateMachine (p2p-distribute, state.rs): the phases of one      *)
(* download.  A caller may call anything at any time; a call that is not   *)
(* allowed returns an error and changes nothing.                           *)
(***************************************************************************)
EXTENDS Naturals

CONSTANT MaxProgress    \* 100 per cent
ASSUME ProgressAssumption == MaxProgress \in Nat

VARIABLES
    state,      \* DownloadState: [is, progress], and of a paused one what it was
    before,     \* history: the state when it was not paused last
    began       \* history: it has been downloading

stateVars == <<state, before, began>>

Plain(is) == [is |-> is, progress |-> 0]
Checking(progress) == [is |-> "Checking", progress |-> progress]
Paused(previous) == [is |-> "Paused", previous |-> previous]

StatesInit ==
    /\ state = Plain("Queued")
    /\ before = Plain("Queued")
    /\ began = FALSE

Become(s) ==
    /\ state' = s
    /\ before' = IF s.is = "Paused" THEN before ELSE s
    /\ began' = (began \/ s.is = "Downloading")
-----------------------------------------------------------------------------
StartChecking == state.is = "Queued" /\ Become(Checking(0))

(* update_checking_progress. *)
UpdateCheckingProgress(progress) ==
    /\ state.is = "Checking"
    /\ Become(Checking(IF progress > MaxProgress THEN MaxProgress ELSE progress))

(* A paused download may be started without a resume.                       *)
StartDownloading ==
    /\ \/ state.is \in {"Queued", "Checking"}
       \/ state.is = "Paused" /\ state.previous.is = "Downloading"
    /\ Become(Plain("Downloading"))

StartSeeding == state.is = "Downloading" /\ Become(Plain("Seeding"))

(* A slip: the placeholder that takes the place of the state is recorded.   *)
PausePlaceholder ==
    /\ state.is \in {"Queued", "Checking", "Downloading", "Seeding"}
    /\ Become(Paused(Plain("Queued")))

Pause ==
    /\ state.is \in {"Queued", "Checking", "Downloading", "Seeding"}
    /\ Become(Paused(state))

Resume == state.is = "Paused" /\ Become(state.previous)

(* fail, in every state.                                                    *)
Fail == Become(Plain("Error"))

Complete == state.is \in {"Downloading", "Seeding"} /\ Become(Plain("Completed"))

StatesNext ==
    \/ StartChecking \/ StartDownloading \/ StartSeeding
    \/ \E progress \in 0 .. MaxProgress + 1 : UpdateCheckingProgress(progress)
    \/ Pause \/ Resume \/ Fail \/ Complete

StatesSpec == StatesInit /\ [][StatesNext]_stateVars
-----------------------------------------------------------------------------
IsOver(s) == s.is \in {"Error", "Completed"}

(* Whatever is called in whatever order, a pause loses nothing: the         *)
(* download goes on in the state it was paused in, with the progress of its *)
(* check, unless it fails.  Nothing is seeded or completed that was not     *)
(* downloaded, and what is over does not begin again.                       *)
LifecycleIsOrderly ==
    [][/\ state.is = "Paused" /\ state'.is # "Paused" /\ ~IsOver(state') => state' = before
       /\ state'.is \in {"Seeding", "Completed"} => began
       /\ IsOver(state) => state'.is \in {state.is, "Error"}]_stateVars
=============================================================================
