SPECIFICATION Spec
CONSTANTS
  NoFile = NoFile
  Scripts <- Failing
  Files <- FilesOf
  Modified <- ModifiedFiles
  Added <- AddedFiles
  Versions <- AllVersions
  Patch <- Installed
  Marked <- Markers
  InitialTrees <- Foreign
  CopiesMayFail = TRUE
INVARIANTS
  ApplyInstallsPatch
