SPECIFICATION FairSpec
CONSTANTS
  r1 = r1
  r2 = r2
  Replicas = {r1, r2}
  Ids = {i1}
  NoId = NoId
  MaxVersion = 3
  Starts <- MCStarts
INVARIANTS TypeOK
PROPERTIES RatchetMonotone ForeignUntouched Settles
