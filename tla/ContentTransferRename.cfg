SPECIFICATION Spec
CONSTANTS
    Versions <- MCVersions
    Listed = "listed"
    Size <- MCSize
    Cuts <- MCCuts
    MaxRetries = 2
    MaxFaults = 2
    Faults <- RenameFaults
    OldFile = OldFile
    OldDirectory = OldDirectory
    Remains = Remains
    NoFile = NoFile
INVARIANTS
    NowItExists
