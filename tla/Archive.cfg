CONSTANTS
    Dirs <- MCDirs
    Files <- MCFiles
    Links <- MCLinks
    RootLists <- MCRootLists
    Sharings <- MCSharings
    Destination <- MCDestination
    MaxErrors = 2
SPECIFICATION Spec
CHECK_DEADLOCK FALSE
INVARIANTS BackupAccounts RestoreAccounts HealthyRestore
