---------------------------- MODULE MCComponents ----------------------------
(***************************************************************************)
(* Components that share nothing, explored side by side by TLC: a          *)
(* behaviour is one of the component that `part` names; the others stay as *)
(* they begin.                                                             *)
(***************************************************************************)
EXTENDS PeerPool, GroupRoster, Connections, Tiering, Relay, RateLimits, LocalDiscovery,
        PeerMemory, MirrorHealth, DownloadStates, WorkshopUpdates,
        WorkshopRegistry, RecipeRun, Choking, Dht, Bridge,
        SuperSeed, GroupSync

VARIABLES
    part,
    machine, probe, detected

(* The last connection is to another peer than the rest; one relay takes    *)
(* one circuit, the others two, and is in another region; the node with the *)
(* lowest bit alone belongs to another network; the first piece is longer.  *)
LastToAnother == [c \in 1 .. 3 |-> IF c = 3 THEN "q" ELSE "p"]
FirstTakesOne == [r \in {"a", "b"} |-> IF r = "a" THEN 1 ELSE 2]
OneBitForeign == [n \in SUBSET {0, 1, 2} |-> IF n = {0} THEN "b" ELSE "a"]
FirstIsLarge == [i \in 1 .. 4 |-> IF i = 1 THEN 2 ELSE 1]
FirstAbroad == [r \in {"a", "b"} |-> IF r = "a" THEN "eu" ELSE "us"]

detectPart == <<machine, probe, detected>>

allVars == <<part, poolVars, rosterVars, relayVars, bridgeVars, chokingVars, seedVars, lanVars,
             dhtVars, syncVars, cache, memoryVars, updateVars, registryVars, detectPart, recipeVars,
             limitVars, connectionVars, tierVars, healthVars, stateVars>>

Detect == INSTANCE SourceDetection

Parts == {"pool", "roster", "relay", "bridge", "choking", "seed", "lan", "dht", "sync", "arc",
          "memory", "updates", "registry", "detect", "recipe", "limits", "links",
          "tiers", "health", "states"}

ComponentsInit ==
    /\ part \in Parts
    /\ PoolInit /\ RosterInit /\ RelayInit /\ BridgeInit /\ LanInit
    /\ SeedInit /\ DhtInit /\ MemoryInit
    /\ UpdatesInit /\ RegistryInit /\ RecipeInit
    /\ ConnectionsInit /\ TieringInit /\ HealthInit /\ StatesInit
    /\ LimitsInit /\ (part # "limits" => throttle.rate = 0)
    /\ ChokingInit
    /\ part # "choking" => autoScale /\ \A p \in 1 .. PeerCount : speed[p - 1] = 0
    /\ CacheInit /\ (part # "arc" => cache.max_bytes = 0)
    /\ SyncInit /\ (part # "sync" => \A m \in GroupMirrors : local[m] = {})
    /\ IF part = "detect" THEN Detect!DetectInit
       ELSE machine = {} /\ probe = 0 /\ detected = <<>>

(* Only the part p moves.                                                   *)
Only(p) ==
    /\ part = p /\ UNCHANGED part
    /\ p # "pool" => UNCHANGED poolVars
    /\ p # "roster" => UNCHANGED rosterVars
    /\ p # "relay" => UNCHANGED relayVars
    /\ p # "bridge" => UNCHANGED bridgeVars
    /\ p # "choking" => UNCHANGED chokingVars
    /\ p # "seed" => UNCHANGED seedVars
    /\ p # "lan" => UNCHANGED lanVars
    /\ p # "dht" => UNCHANGED dhtVars
    /\ p # "sync" => UNCHANGED syncVars
    /\ p # "arc" => UNCHANGED cache
    /\ p # "memory" => UNCHANGED memoryVars
    /\ p # "updates" => UNCHANGED updateVars
    /\ p # "registry" => UNCHANGED registryVars
    /\ p # "detect" => UNCHANGED detectPart
    /\ p # "recipe" => UNCHANGED recipeVars
    /\ p # "limits" => UNCHANGED limitVars
    /\ p # "links" => UNCHANGED connectionVars
    /\ p # "tiers" => UNCHANGED tierVars
    /\ p # "health" => UNCHANGED healthVars
    /\ p # "states" => UNCHANGED stateVars

(* When the bounds are used up there may be nothing left to do.             *)
Rest ==
    /\ \/ part = "updates" /\ clock = LastSecond
       \/ part = "registry" /\ edits = MaxEdits
       \/ part = "memory" /\ events = MaxEvents
    /\ UNCHANGED allVars

ComponentsNext ==
    \/ Only("pool") /\ PoolNext
    \/ Only("roster") /\ RosterNext
    \/ Only("relay") /\ RelayNext
    \/ Only("bridge") /\ BridgeNext
    \/ Only("choking") /\ ChokingNext
    \/ Only("seed") /\ SeedNext
    \/ Only("lan") /\ LanNext
    \/ Only("dht") /\ DhtNext
    \/ Only("sync") /\ SyncNext
    \/ Only("arc") /\ CacheNext
    \/ Only("memory") /\ MemoryNext
    \/ Only("updates") /\ UpdatesNext
    \/ Only("registry") /\ RegistryNext
    \/ Only("detect") /\ Detect!DetectNext
    \/ Only("recipe") /\ RecipeNext
    \/ Only("limits") /\ LimitsNext
    \/ Only("links") /\ ConnectionsNext
    \/ Only("tiers") /\ TieringNext
    \/ Only("health") /\ HealthNext
    \/ Only("states") /\ StatesNext
    \/ Rest
-----------------------------------------------------------------------------
(* A store's own installation is not eclipsed by a look-alike directory     *)
(* (detect_all).                                                            *)
StoreIsNotEclipsed == part = "detect" => Detect!StoreIsNotEclipsed
=============================================================================
