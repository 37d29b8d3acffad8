SPECIFICATION FairSpec
CONSTANTS
  Files <- GameFiles
  PackageOrder <- GamePackages
  Required <- GameRequired
  TestFiles <- GameTestFiles
  DownloadOf <- GameDownloadOf
  None = "nothing"
  DownloadOrder <- GameDownloads
  Plan <- GamePlan
  Provides <- GameProvides
  Entries <- GameEntries
  Torrents <- GameTorrents
  Zips <- GameZips
  Images <- GameImages
  RecipeOrder <- GameRecipes
  Actions <- GameActions
  MaxCrashes = 1
  MaxDiskErrors = 1
  MaxDamages = 1
  MaxCleans = 1
PROPERTIES
  InstallsAreTruthful
  AskingIsEnough
