CONSTANTS External <- MCExternal
 RevealTicks = 2
 ClipTicks = 1
 IdleTicks = 2
SPECIFICATION Spec
INVARIANTS TypeOK WorkspaceNeedsIdentity SecretCopyIsTimed UnattendedLocks
