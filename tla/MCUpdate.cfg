CONSTANTS
 Procs = {p1, p2}
 Manifests <- MCManifests
 Bytes <- MCBytes
 Platform = "here"
 FirstVersion <- MCFirst
 OldMarkers <- MCMarkers
 MaxEpoch = 2000000000
 MaxCommands = 3
 MaxCrashes = 1
 NoRelease = NoRelease
 NoHash = NoHash
 NoNotice = NoNotice
 Free = Free
SPECIFICATION Spec
INVARIANTS TypeOK FloorKept OneManifestPerEpoch InstalledIsVerified
SYMMETRY Symmetry
CHECK_DEADLOCK FALSE
