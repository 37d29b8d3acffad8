-------------------------- MODULE MCContentInstall --------------------------
(***************************************************************************)
(* A game for TLC: a required base package, an optional one whose torrent  *)
(* of loose files brings some of the base files too, a disc image that is  *)
(* said to provide both, and a required package that only a local source   *)
(* has, whose recipe copies an archive, unpacks it and deletes it.         *)
(***************************************************************************)
EXTENDS ContentInstall

GameFiles == {"conquer", "temperat", "scores", "speech", "unpacked"}
GamePackages == <<"local", "base", "music">>
GameTestFiles == [p \in {"local", "base", "music"} |->
    CASE p = "base" -> {"conquer", "temperat"}
      [] p = "music" -> {"scores"}
      [] p = "local" -> {"unpacked"}]
GameDownloadOf == [p \in {"local", "base", "music"} |->
    CASE p = "base" -> "quick" [] p = "music" -> "tracks" [] p = "local" -> "nothing"]
GameDownloads == <<"quick", "tracks", "set">>
GamePlan == <<"quick">>
GameProvides == [d \in {"quick", "tracks", "set"} |-> IF d = "quick" THEN {"base"} ELSE {"base", "music"}]
GameEntries == [d \in {"quick", "tracks", "set"} |->
    CASE d = "quick" -> <<"conquer", "temperat">>
      [] d = "tracks" -> <<"scores", "temperat">>
      [] d = "set" -> <<>>]
GameRecipes == <<"unpack", "copy">>
GameActions == [r \in {"unpack", "copy"} |->
    IF r = "copy" THEN <<[do |-> "write", file |-> "conquer", from |-> "nothing"]>>
    ELSE << [do |-> "write", file |-> "speech", from |-> "nothing"],
            [do |-> "unpack", file |-> "unpacked", from |-> "speech"],
            [do |-> "delete", file |-> "speech", from |-> "nothing"] >>]
GameRequired == {"local", "base"}
GameTorrents == {"quick", "tracks", "set"}
GameZips == {"quick"}
GameImages == {"set"}
=============================================================================
