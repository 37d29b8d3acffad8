--------------------------- MODULE ContentCatalog ---------------------------
(***************************************************************************)
(* The tables of cnc-content: what each package consists of, by which      *)
(* files each source is recognised, and by which actions a package is      *)
(* installed from a source.                                                *)
(*                                                                         *)
(* Files that no table tells apart are one group: a group is the set of    *)
(* files that every table of a game names together: each game has a        *)
(* content directory of its own (default_content_root_for_game), so that   *)
(* "scores.mix" of two games is two files.  A place in a source is a pair  *)
(* <<directory or archive, group>>.                                        *)
(***************************************************************************)
EXTENDS Naturals, Sequences, TLC

-----------------------------------------------------------------------------
(* Packages: what must exist for one to be installed, whether the game     *)
(* needs it, and the sources said to provide it.                           *)

Pkg(game, required, files, sources) ==
    [game |-> game, required |-> required, test_files |-> files,
     sources |-> sources]

Tuc == {"SteamTuc", "OriginTuc"}
Remastered == {"SteamRemastered", "OriginRemastered"}

RedAlertPackages ==
    [RaBase |-> Pkg("RedAlert", TRUE, {"ra base"},
        {"AlliedDisc", "SovietDisc", "TheFirstDecade"} \cup Tuc \cup Remastered),
     RaAftermathBase |-> Pkg("RedAlert", TRUE, {"ra aftermath"},
        {"AftermathDisc", "TheFirstDecade"} \cup Tuc \cup Remastered),
     RaCncDesert |-> Pkg("RedAlert", TRUE, {"cnc desert"},
        {"TheFirstDecade", "Cnc95", "SteamCnc", "OriginCnc"} \cup Remastered),
     RaMusic |-> Pkg("RedAlert", FALSE, {"ra scores"},
        {"AlliedDisc", "SovietDisc", "TheFirstDecade"} \cup Tuc \cup Remastered)]

(* Twelve movies belong to both campaigns.                                 *)
RedAlertMovies ==
    [RaMoviesAllied |-> Pkg("RedAlert", FALSE, {"allied movies", "ra movies"},
        {"AlliedDisc", "TheFirstDecade"} \cup Tuc \cup Remastered),
     RaMoviesSoviet |-> Pkg("RedAlert", FALSE, {"soviet movies", "ra movies"},
        {"SovietDisc", "TheFirstDecade"} \cup Tuc \cup Remastered)]

RedAlertExpansionMusic ==
    [RaMusicCounterstrike |-> Pkg("RedAlert", FALSE, {"counterstrike music"},
        {"CounterstrikeDisc"} \cup Tuc \cup Remastered),
     RaMusicAftermath |-> Pkg("RedAlert", FALSE, {"aftermath music"},
        {"AftermathDisc"} \cup Tuc \cup Remastered)]

(* The score file is one of the base files too.                            *)
TiberianDawnPackages ==
    LET both == {"TdGdiDisc", "TdNodDisc"} IN
    [TdBase |-> Pkg("TiberianDawn", TRUE, {"td base", "td scores"},
        both \cup {"TdSteamCnc", "TdSteamRemastered", "TdOriginCnc"}),
     TdCovertOps |-> Pkg("TiberianDawn", FALSE, {"covert ops"},
        {"TdCovertOpsDisc", "TdSteamCnc", "TdOriginCnc"}),
     TdMusic |-> Pkg("TiberianDawn", FALSE, {"td scores"},
        both \cup {"TdSteamCnc", "TdOriginCnc"}),
     TdMoviesGdi |-> Pkg("TiberianDawn", FALSE, {"gdi movies", "logo"},
        {"TdGdiDisc", "TdSteamCnc", "TdOriginCnc"}),
     TdMoviesNod |-> Pkg("TiberianDawn", FALSE, {"nod movies", "logo"},
        {"TdNodDisc", "TdSteamCnc", "TdOriginCnc"})]

DunePackages ==
    [Dune2Base |-> Pkg("Dune2", TRUE, {"dune2"}, {"Dune2Disc", "GogDune2"}),
     Dune2000Base |-> Pkg("Dune2000", TRUE, {"dune2000"},
        {"Dune2000Disc", "GogDune2000"})]

TiberianSunPackages ==
    LET tuc == {"TsSteamTuc", "TsOriginTuc"} IN
    [TsBase |-> Pkg("TiberianSun", TRUE, {"ts base"}, {"TsDisc"} \cup tuc),
     TsFirestorm |-> Pkg("TiberianSun", FALSE, {"firestorm"}, {"TsFirestormDisc"} \cup tuc),
     TsMusic |-> Pkg("TiberianSun", FALSE, {"ts scores"}, {"TsDisc"} \cup tuc),
     TsMovies |-> Pkg("TiberianSun", FALSE, {"ts movies"}, {"TsDisc"} \cup tuc)]

RedAlert2Packages ==
    LET tuc == {"Ra2TheFirstDecade", "Ra2SteamTuc", "Ra2OriginTuc"} IN
    [Ra2Base |-> Pkg("RedAlert2", TRUE, {"ra2"}, {"Ra2Disc"} \cup tuc),
     Ra2YurisRevenge |-> Pkg("RedAlert2", FALSE, {"yuri"}, {"Ra2YrDisc"} \cup tuc),
     Ra2Music |-> Pkg("RedAlert2", FALSE, {"ra2 theme"}, {"Ra2Disc"} \cup tuc),
     Ra2Movies |-> Pkg("RedAlert2", FALSE, {"ra2 movies"}, {"Ra2Disc"} \cup tuc)]

GeneralsPackages ==
    [GenBase |-> Pkg("Generals", TRUE, {"generals"},
        {"GenDisc", "GenSteamTuc", "GenOriginTuc"}),
     GenZeroHour |-> Pkg("Generals", FALSE, {"zero hour"}, {"GenZhDisc"})]

ALL_PACKAGES ==
    RedAlertPackages @@ RedAlertMovies @@ RedAlertExpansionMusic
    @@ TiberianDawnPackages @@ DunePackages @@ TiberianSunPackages
    @@ RedAlert2Packages @@ GeneralsPackages

PackageNames == DOMAIN ALL_PACKAGES
TestFiles(p) == ALL_PACKAGES[p].test_files

packages_for_source(s) == {p \in PackageNames : s \in ALL_PACKAGES[p].sources}

-----------------------------------------------------------------------------
(* Install actions, and the arrays of file mappings they carry.            *)

Copy(dir, files) ==
    [op |-> "Copy", reads |-> {<<dir, f>> : f \in files}, writes |-> files]

ExtractMix(mix, files) ==
    [op |-> "ExtractMix", reads |-> {<<mix, f>> : f \in files}, writes |-> files]

ExtractIscab(files) ==
    [op |-> "ExtractIscab", reads |-> {<<"data1", f>> : f \in files},
     writes |-> files]

ExtractMixFromContent(mix, files) ==
    [op |-> "ExtractMixFromContent", reads |-> {mix}, writes |-> files]

Delete(f) == [op |-> "Delete", reads |-> {}, writes |-> {f}]

Root == "."
RaCd1 == "Data/CNCDATA/RED_ALERT/CD1"
RaMainMix == "MAIN.MIX"
RemasteredMainMix == "Data/CNCDATA/RED_ALERT/CD1/MAIN.MIX"

BASE_DIRECT_COPY == <<Copy(Root, {"ra base"})>>
BASE_FROM_REDALERT_MIX == <<ExtractMix("INSTALL/REDALERT.MIX", {"ra base"})>>
AFTERMATH_EXPAND_COPY == <<Copy("expand", {"ra aftermath"})>>
CS_MUSIC_COPY == <<Copy("expand", {"counterstrike music"})>>
AM_MUSIC_COPY == <<Copy("expand", {"aftermath music"})>>
REMASTERED_BASE_COPY == <<Copy(RaCd1, {"ra base"})>>
REMASTERED_AFTERMATH_COPY ==
    <<Copy("Data/CNCDATA/RED_ALERT/AFTERMATH", {"ra aftermath"})>>
REMASTERED_CS_MUSIC_COPY ==
    <<Copy("Data/CNCDATA/RED_ALERT/COUNTERSTRIKE", {"counterstrike music"})>>
REMASTERED_AM_MUSIC_COPY ==
    <<Copy("Data/CNCDATA/RED_ALERT/AFTERMATH", {"aftermath music"})>>

(* Movies lie in an archive inside MAIN.MIX, which is unpacked first and   *)
(* deleted afterwards.                                                     *)
MOVIES_ALLIED_VQA_ENTRIES == {"allied movies", "ra movies"}
MOVIES_SOVIET_VQA_ENTRIES == {"soviet movies", "ra movies"}

Movies(mix, inner, entries) ==
    <<ExtractMix(mix, {inner}), ExtractMixFromContent(inner, entries),
      Delete(inner)>>

MOVIES_ALLIED_FROM_MAIN_MIX == Movies(RaMainMix, "movies1.mix", MOVIES_ALLIED_VQA_ENTRIES)
MOVIES_SOVIET_FROM_MAIN_MIX == Movies(RaMainMix, "movies2.mix", MOVIES_SOVIET_VQA_ENTRIES)
MOVIES_ALLIED_FROM_REMASTERED_MIX ==
    Movies(RemasteredMainMix, "movies1.mix", MOVIES_ALLIED_VQA_ENTRIES)
MOVIES_SOVIET_FROM_REMASTERED_MIX ==
    Movies(RemasteredMainMix, "movies2.mix", MOVIES_SOVIET_VQA_ENTRIES)

(* One of the base files is the desert tileset that Red Alert borrows.     *)
TdCd1 == "Data/CNCDATA/TIBERIAN_DAWN/CD1"
WithDesert(dir) ==
    <<[Copy(dir, {"td base", "td scores"}) EXCEPT
        !.reads = @ \cup {<<dir, "cnc desert">>}]>>

TD_BASE_COPY == WithDesert(Root)
TD_REMASTERED_BASE_COPY == WithDesert(TdCd1)
TD_COVERT_OPS_COPY == <<Copy(Root, {"covert ops"})>>
TD_MUSIC_COPY == <<Copy(Root, {"td scores"})>>
TD_MOVIES_GDI_DISC_COPY == <<Copy(Root, {"gdi movies", "logo"})>>
TD_MOVIES_NOD_DISC_COPY == <<Copy(Root, {"nod movies", "logo"})>>
TD_MOVIES_GDI_STEAM_COPY == <<Copy("MOVIES", {"gdi movies", "logo"})>>
TD_MOVIES_NOD_STEAM_COPY == <<Copy("MOVIES", {"nod movies", "logo"})>>

-----------------------------------------------------------------------------
(* Recipes: for each source, what is done to install a package from it.    *)

(* The Ultimate Collection of Steam and Origin have one layout.            *)
RaTucRecipes ==
    [RaBase |-> BASE_DIRECT_COPY, RaAftermathBase |-> AFTERMATH_EXPAND_COPY,
     RaMusic |-> <<ExtractMix(RaMainMix, {"ra scores"})>>,
     RaMoviesAllied |-> MOVIES_ALLIED_FROM_MAIN_MIX,
     RaMoviesSoviet |-> MOVIES_SOVIET_FROM_MAIN_MIX,
     RaMusicCounterstrike |-> CS_MUSIC_COPY, RaMusicAftermath |-> AM_MUSIC_COPY]

RaRemasteredRecipes ==
    [RaBase |-> REMASTERED_BASE_COPY, RaAftermathBase |-> REMASTERED_AFTERMATH_COPY,
     RaCncDesert |-> <<Copy(TdCd1, {"cnc desert"})>>,
     RaMusic |-> <<ExtractMix(RemasteredMainMix, {"ra scores"})>>,
     RaMusicCounterstrike |-> REMASTERED_CS_MUSIC_COPY,
     RaMusicAftermath |-> REMASTERED_AM_MUSIC_COPY,
     RaMoviesAllied |-> MOVIES_ALLIED_FROM_REMASTERED_MIX,
     RaMoviesSoviet |-> MOVIES_SOVIET_FROM_REMASTERED_MIX]

DesertRecipe == [RaCncDesert |-> <<Copy(Root, {"cnc desert"})>>]

RaOriginRecipes ==
    [OriginTuc |-> RaTucRecipes, OriginCnc |-> DesertRecipe,
     OriginRemastered |-> RaRemasteredRecipes]

RaDiscRecipes ==
    [AlliedDisc |->
        [RaBase |-> BASE_FROM_REDALERT_MIX,
         RaMusic |-> <<ExtractMix(RaMainMix, {"ra scores"})>>,
         RaMoviesAllied |-> MOVIES_ALLIED_FROM_MAIN_MIX],
     SovietDisc |->
        [RaBase |-> BASE_FROM_REDALERT_MIX,
         RaMusic |-> <<ExtractMix(RaMainMix, {"ra scores"})>>,
         RaMoviesSoviet |-> MOVIES_SOVIET_FROM_MAIN_MIX],
     AftermathDisc |->
        [RaAftermathBase |-> AFTERMATH_EXPAND_COPY, RaMusicAftermath |-> AM_MUSIC_COPY],
     CounterstrikeDisc |-> [RaMusicCounterstrike |-> CS_MUSIC_COPY]]

FirstDecadeRecipes ==
    [RaBase |-> <<ExtractIscab({"ra base"})>>,
     RaCncDesert |-> <<ExtractIscab({"cnc desert"})>>,
     RaAftermathBase |-> <<ExtractIscab({"ra aftermath"})>>,
     RaMusic |-> <<ExtractIscab({"ra scores"})>>,
     RaMoviesAllied |-> <<ExtractIscab(MOVIES_ALLIED_VQA_ENTRIES)>>,
     RaMoviesSoviet |-> <<ExtractIscab(MOVIES_SOVIET_VQA_ENTRIES)>>]

TdDiscRecipes ==
    [TdGdiDisc |-> [TdBase |-> TD_BASE_COPY, TdMusic |-> TD_MUSIC_COPY,
                    TdMoviesGdi |-> TD_MOVIES_GDI_DISC_COPY],
     TdNodDisc |-> [TdBase |-> TD_BASE_COPY, TdMusic |-> TD_MUSIC_COPY,
                    TdMoviesNod |-> TD_MOVIES_NOD_DISC_COPY],
     TdCovertOpsDisc |-> [TdCovertOps |-> TD_COVERT_OPS_COPY]]

TdCncRecipes ==
    [TdBase |-> TD_BASE_COPY, TdCovertOps |-> TD_COVERT_OPS_COPY,
     TdMusic |-> TD_MUSIC_COPY, TdMoviesGdi |-> TD_MOVIES_GDI_STEAM_COPY,
     TdMoviesNod |-> TD_MOVIES_NOD_STEAM_COPY]

(* Tiberian Sun, Dune, Red Alert 2 and Generals: files copied from where   *)
(* the source has them, from the root of the source.                       *)
Copies(packages) ==
    [p \in packages |-> <<Copy(Root, TestFiles(p))>>]

TsDuneRecipes ==
    LET all == {"TsBase", "TsFirestorm", "TsMusic", "TsMovies"} IN
    [TsDisc |-> Copies(all \ {"TsFirestorm"}), TsFirestormDisc |-> Copies({"TsFirestorm"}),
     TsSteamTuc |-> Copies(all), TsOriginTuc |-> Copies(all),
     Dune2Disc |-> Copies({"Dune2Base"}), GogDune2 |-> Copies({"Dune2Base"}),
     Dune2000Disc |-> Copies({"Dune2000Base"}), GogDune2000 |-> Copies({"Dune2000Base"})]

Ra2GenRecipes ==
    LET all == {"Ra2Base", "Ra2YurisRevenge", "Ra2Music", "Ra2Movies"} IN
    [Ra2Disc |-> Copies(all \ {"Ra2YurisRevenge"}), Ra2YrDisc |-> Copies({"Ra2YurisRevenge"}),
     Ra2TheFirstDecade |-> Copies(all), Ra2SteamTuc |-> Copies(all),
     Ra2OriginTuc |-> Copies(all),
     GenSteamTuc |-> Copies({"GenBase"}), GenOriginTuc |-> Copies({"GenBase"}),
     GenDisc |-> Copies({"GenBase"}), GenZhDisc |-> Copies({"GenZeroHour"})]

ALL_RECIPES ==
    [SteamTuc |-> RaTucRecipes, SteamRemastered |-> RaRemasteredRecipes,
     SteamCnc |-> DesertRecipe, Cnc95 |-> DesertRecipe,
     TheFirstDecade |-> FirstDecadeRecipes,
     TdSteamCnc |-> TdCncRecipes, TdOriginCnc |-> TdCncRecipes,
     TdSteamRemastered |-> [TdBase |-> TD_REMASTERED_BASE_COPY]]
    @@ RaOriginRecipes @@ RaDiscRecipes @@ TdDiscRecipes @@ TsDuneRecipes @@ Ra2GenRecipes

(* recipes_for_source(s), in any order: a set of packages.                 *)
recipes_for_source(s) == DOMAIN ALL_RECIPES[s]
-----------------------------------------------------------------------------
(* Sources, in the order of the table: how each is found and the files by  *)
(* whose digests it is recognised.  A digest is named by its first digits; *)
(* "0000" stands for the digests still to be filled in, which no file has. *)

Src(id, type, files) == [id |-> id, source_type |-> type, id_files |-> files]
Unconfirmed(path) == {<<path, "0000">>}

Conquer95 == {<<"CONQUER.MIX", "833e">>}
ConquerGold == {<<"CONQUER.MIX", "713b">>}
RaMix(dir) == <<dir, "0e58">>

RedAlertSources ==
    <<Src("AlliedDisc", "Disc", {<<"MAIN.MIX", "20eb">>, RaMix("INSTALL/REDALERT.MIX")}),
      Src("SovietDisc", "Disc", {<<"MAIN.MIX", "9d10">>, RaMix("INSTALL/REDALERT.MIX")}),
      Src("CounterstrikeDisc", "Disc", {<<"README.TXT", "0efe">>, <<"CSTRIKE.RTP", "fae8">>}),
      Src("AftermathDisc", "Disc", {<<"README.TXT", "9902">>, <<"PATCH.RTP", "5bce">>}),
      Src("TheFirstDecade", "Disc", {<<"data1.hdr", "bef3">>, <<"data1.cab", "12ad">>}),
      Src("Cnc95", "Disc", Conquer95),
      Src("SteamTuc", "Steam", {RaMix("REDALERT.MIX")}),
      Src("SteamCnc", "Steam", ConquerGold),
      Src("SteamRemastered", "Steam", {RaMix(RaCd1)})>>

RedAlertOriginSources ==
    <<Src("OriginTuc", "Origin", {RaMix("REDALERT.MIX")}),
      Src("OriginCnc", "Origin", Conquer95),
      Src("OriginRemastered", "Origin", {RaMix(RaCd1)})>>

TiberianDawnSources ==
    <<Src("TdGdiDisc", "Disc", ConquerGold), Src("TdNodDisc", "Disc", ConquerGold),
      Src("TdCovertOpsDisc", "Disc", Unconfirmed("SC-000.MIX")),
      Src("TdSteamCnc", "Steam", ConquerGold),
      Src("TdSteamRemastered", "Steam", {<<TdCd1, "713b">>}),
      Src("TdOriginCnc", "Origin", ConquerGold)>>

DuneTiberianSunSources ==
    <<Src("Dune2Disc", "Disc", Unconfirmed("DUNE2.EXE")),
      Src("GogDune2", "Gog", Unconfirmed("DUNE2.EXE")),
      Src("Dune2000Disc", "Disc", Unconfirmed("DUNE2000.EXE")),
      Src("GogDune2000", "Gog", Unconfirmed("DUNE2000.EXE")),
      Src("TsDisc", "Disc", Unconfirmed("TIBSUN.MIX")),
      Src("TsFirestormDisc", "Disc", Unconfirmed("E01SC01.MIX")),
      Src("TsSteamTuc", "Manual", Unconfirmed("TIBSUN.MIX")),
      Src("TsOriginTuc", "Origin", Unconfirmed("TIBSUN.MIX"))>>

RedAlert2GeneralsSources ==
    <<Src("Ra2Disc", "Disc", Unconfirmed("RA2.MIX")),
      Src("Ra2YrDisc", "Disc", Unconfirmed("RA2MD.MIX")),
      Src("Ra2TheFirstDecade", "Disc", Unconfirmed("RA2.MIX")),
      Src("Ra2SteamTuc", "Steam", {<<"ra2.mix", "3bd9">>}),
      Src("Ra2OriginTuc", "Origin", {<<"ra2.mix", "3bd9">>}),
      Src("GenDisc", "Disc", Unconfirmed("INI.big")),
      Src("GenZhDisc", "Disc", Unconfirmed("INIZH.big")),
      Src("GenSteamTuc", "Steam", {<<"INI.big", "3f19">>}),
      Src("GenOriginTuc", "Origin", {<<"INI.big", "3f19">>})>>

ALL_SOURCES ==
    RedAlertSources \o RedAlertOriginSources \o TiberianDawnSources
    \o DuneTiberianSunSources \o RedAlert2GeneralsSources

(* The sources among s whose files are all present, in the table's order.  *)
Matching(type, present) ==
    SelectSeq(ALL_SOURCES, LAMBDA s : s.source_type \in type /\ s.id_files \subseteq present)

AnyType == {"Disc", "Steam", "Origin", "Gog", "Registry", "Manual"}
None == "none"

(* The first source of the table that matches.                             *)
identify_source(present) ==
    LET m == Matching(AnyType, present) IN IF m = <<>> THEN None ELSE m[1].id

-----------------------------------------------------------------------------
(* The products people own, and the sources each of them really is.  What  *)
(* lies on one is what the recipes of those sources read, and its files    *)
(* have the digests the table gives.                                       *)

ProductSources ==
    [allied |-> {"AlliedDisc"}, soviet |-> {"SovietDisc"},
     counterstrike |-> {"CounterstrikeDisc"}, aftermath |-> {"AftermathDisc"},
     decade |-> {"TheFirstDecade"}, cnc95 |-> {"Cnc95"},
     gdi |-> {"TdGdiDisc"}, nod |-> {"TdNodDisc"}, covert |-> {"TdCovertOpsDisc"},
     steamTuc |-> {"SteamTuc"}, steamCnc |-> {"SteamCnc", "TdSteamCnc"},
     steamRemastered |-> {"SteamRemastered", "TdSteamRemastered"},
     steamRa2 |-> {"Ra2SteamTuc"}, originTuc |-> {"OriginTuc"},
     originCnc95 |-> {"OriginCnc"}, originCncGold |-> {"TdOriginCnc"},
     originRemastered |-> {"OriginRemastered"}, originRa2 |-> {"Ra2OriginTuc"},
     gogDune2 |-> {"GogDune2"}]

Products == DOMAIN ProductSources

(* What the recipes of source s read from the source itself.               *)
ReadsOf(s) ==
    UNION {UNION {IF ALL_RECIPES[s][p][i].op = "ExtractMixFromContent" THEN {}
                  ELSE ALL_RECIPES[s][p][i].reads : i \in 1 .. Len(ALL_RECIPES[s][p])}
           : p \in recipes_for_source(s)}

ReadsOfSources == [s \in DOMAIN ALL_RECIPES |-> ReadsOf(s)]

HeldBy == [d \in Products |-> UNION {ReadsOfSources[s] : s \in ProductSources[d]}]

IdFilesOf == [d \in Products |->
    UNION {ALL_SOURCES[i].id_files :
           i \in {j \in 1 .. Len(ALL_SOURCES) : ALL_SOURCES[j].id \in ProductSources[d]}}
    \ {f \in UNION {ALL_SOURCES[j].id_files : j \in 1 .. Len(ALL_SOURCES)} : f[2] = "0000"}]
=============================================================================
