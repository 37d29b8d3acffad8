-------------------------- MODULE SourceDetection --------------------------
(***************************************************************************)
(* detect_all: the probes that look for game content on a machine, one     *)
(* after the other.  A source that an earlier probe found is not taken     *)
(* again from a later one.                                                 *)
(***************************************************************************)
EXTENDS ContentCatalog, SequencesExt

VARIABLES
    machine,   \* what the user has where
    probe,     \* the next probe of detect_all, by its number
    detected   \* the sources found: [source_id, path, packages]

detectVars == <<machine, probe, detected>>

DetectedSource(s, path, packages) ==
    [source_id |-> s, path |-> path, packages |-> packages]

-----------------------------------------------------------------------------
(* Machines: products installed by a store, discs in drives, a directory   *)
(* of OpenRA and CnCNet's one for each of its games, with packages in them. *)

SteamApps == <<"steamTuc", "steamCnc", "steamRemastered", "steamRa2">>
OriginGames ==
    <<"originTuc", "originCnc95", "originRemastered", "originCncGold", "originRa2">>
Discs == {"allied", "soviet", "decade", "cnc95", "gdi", "nod", "covert"}

CNCNET_GAMES ==
    <<[subdir |-> "Red_Alert", source |-> "SteamTuc"],
      [subdir |-> "Tiberian_Dawn", source |-> "Cnc95"],
      [subdir |-> "Tiberian_Sun", source |-> "TsSteamTuc"],
      [subdir |-> "Dune_2000", source |-> "Dune2000Disc"]>>

CnCNetGames(ra, td, ts, dune) ==
    [Red_Alert |-> ra, Tiberian_Dawn |-> td, Tiberian_Sun |-> ts, Dune_2000 |-> dune]

Machines ==
    [steam : {{}, {"steamTuc"}, {"steamCnc"}, {"steamTuc", "steamRa2"}, Range(SteamApps)},
     origin : {{}, {"originTuc", "originCnc95"}, {"originCncGold", "originRa2"},
               {"originRemastered"}},
     gog : {{}, {"gogDune2"}},
     openra : {{}, {"RaBase"}, {"RaBase", "RaAftermathBase", "RaMusic"}},
     cncnet : {CnCNetGames({}, {}, {}, {}),
               CnCNetGames({"RaBase", "RaMusic"}, {}, {"TsMusic"}, {}),
               CnCNetGames({"RaMusic"}, {"RaCncDesert"}, {}, {"Dune2000Base"})},
     drives : {<<>>, <<"soviet", "gdi">>, <<"nod", "gdi">>} \cup {<<d>> : d \in Discs}]

-----------------------------------------------------------------------------
(* What each probe finds, in order.                                        *)

(* The sources of one type that a product matches, each with that path.    *)
FoundAt(type, path) ==
    LET m == Matching({type}, IdFilesOf[path]) IN
    [i \in 1 .. Len(m) |-> DetectedSource(m[i].id, path, packages_for_source(m[i].id))]

(* What a probe finds at the paths, one after the other.                   *)
FoundAmong(type, paths, present) ==
    LET here == SelectSeq(paths, LAMBDA d : d \in present) IN
    FlattenSeq([i \in 1 .. Len(here) |-> FoundAt(type, here[i])])

(* Steam takes every source of its type that names the application: both   *)
(* games of one application are found.                                     *)
Steam == FoundAmong("Steam", SteamApps, machine.steam)

Origin == FoundAmong("Origin", OriginGames, machine.origin)

Gog == FoundAmong("Gog", <<"gogDune2">>, machine.gog)

(* No source of the table is of type Registry.                             *)
Registry == FoundAmong("Registry", <<>>, {})

(* OpenRA's directory is scanned for packages whose test files are there,  *)
(* and passes for the Ultimate Collection of Steam.                        *)
InstalledIn(packages) ==
    LET files == UNION {TestFiles(p) : p \in packages}
    IN  {p \in PackageNames : TestFiles(p) \subseteq files}

OpenRA ==
    IF machine.openra = {} THEN <<>>
    ELSE <<DetectedSource("SteamTuc", "openra", InstalledIn(machine.openra))>>

(* CnCNet's directory of a game counts when one of the packages of the      *)
(* source it passes for is there, and then all of them are reported.       *)
CnCNetGame(game) ==
    IF \E p \in packages_for_source(game.source) :
           TestFiles(p) \subseteq UNION {TestFiles(q) : q \in machine.cncnet[game.subdir]}
    THEN <<DetectedSource(game.source, game.subdir, packages_for_source(game.source))>>
    ELSE <<>>

CnCNet == FlattenSeq([i \in DOMAIN CNCNET_GAMES |-> CnCNetGame(CNCNET_GAMES[i])])

(* A drive is one source: the first disc of the table that matches.        *)
FirstDisc(d) ==
    LET found == FoundAt("Disc", d) IN IF found = <<>> THEN <<>> ELSE <<found[1]>>

DiscProbe ==
    LET at(i) == IF i > Len(machine.drives) THEN <<>>
                 ELSE FirstDisc(machine.drives[i])
    IN  at(1) \o at(2)

(* A slip: OpenRA's directory is looked at before the stores.              *)
ProbesOpenRAFirst == <<OpenRA, Steam, Origin, Gog, Registry, CnCNet, DiscProbe>>
Probes == <<Steam, Origin, Gog, Registry, OpenRA, CnCNet, DiscProbe>>

Ids(ds) == {ds[i].source_id : i \in DOMAIN ds}

(* The sources already found keep their place; of the others the first of  *)
(* each is added.                                                          *)
Merged(seen, found) ==
    FoldLeft(LAMBDA ds, d : IF d.source_id \in Ids(ds) THEN ds ELSE Append(ds, d),
             seen, found)

-----------------------------------------------------------------------------
DetectInit == machine \in Machines /\ probe = 1 /\ detected = <<>>

RunProbe ==
    /\ probe <= Len(Probes)
    /\ detected' = Merged(detected, Probes[probe])
    /\ probe' = probe + 1
    /\ UNCHANGED machine

DetectDone == probe > Len(Probes) /\ UNCHANGED detectVars

DetectNext == RunProbe \/ DetectDone

-----------------------------------------------------------------------------
(* A store's own installation is never eclipsed: whatever else the machine *)
(* has, a product of a store that matches one of its sources is reported   *)
(* under that source with its own path, not with a look-alike directory's. *)
StoreIsNotEclipsed ==
    probe > Len(Probes) =>
        \A d \in machine.steam \cup machine.origin : \A s \in ProductSources[d] :
            \E i \in DOMAIN detected : detected[i].source_id = s /\ detected[i].path = d
=============================================================================
