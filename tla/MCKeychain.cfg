CONSTANTS
 r1 = r1
 r2 = r2
 u1 = u1
 u2 = u2
 Procs = {p1, p2}
 Roots = {r1, r2}
 Users = {u1, u2}
 Nobody = Nobody
 Free = Free
 NoFile = NoFile
 Starts <- MCStarts
 OldSeals = 3
 MaxSeals = 1
 MaxCrashes = 1
SPECIFICATION Spec
INVARIANTS TypeOK OnlyLatest IdentityNeverLost
PROPERTIES MigrationNotWedged
SYMMETRY Symmetry
