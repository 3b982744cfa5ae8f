SPECIFICATION Spec
CONSTANTS
  NoFile = NoFile
  Scripts <- Apart
  Files <- FilesOf
  Modified <- ModifiedFiles
  Added <- AddedFiles
  Versions <- AllVersions
  Patch <- Installed
  Marked <- Markers
  InitialTrees <- Pristine
  CopiesMayFail = FALSE
INVARIANTS
  OriginalRecoverable
  RevertRestoresOriginal
