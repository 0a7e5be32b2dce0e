SPECIFICATION FairSpec
CONSTANTS
  r1 = r1
  r2 = r2
  d1 = d1
  d2 = d2
  h1 = h1
  h2 = h2
  Record = {r1, r2}
  Data = {d1, d2}
  Call <- Calls
  Handler = {h1, h2}
  MaxRevision = 3
INVARIANTS TypeOK RevisionsConsecutive EveryRevisionIsAudited KeepsWhatWasNotAsked
PROPERTIES DeletedStaysDeleted ImplementsContract CallsFinish
CHECK_DEADLOCK FALSE
