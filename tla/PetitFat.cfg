SPECIFICATION Spec
CONSTANTS
  Volumes <- mcVolumes
  Cards = {"SDHC", "SD2", "SD1", "MMC", "none"}
  Paths <- mcPaths
  Sfn <- mcSfn
  Lengths = {1, 4, 5}
INVARIANTS ReadsContent ListsDirectory
