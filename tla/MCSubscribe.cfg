SPECIFICATION FairSpec
CONSTANTS
  s1 = s1
  s2 = s2
  s3 = s3
  Stream = {s1, s2, s3}
  MaxSubscriptions = 2
INVARIANT TypeOK
INVARIANT SpotsHeld
INVARIANT SyncedWasAnswered
PROPERTY StreamIsAnswered
PROPERTY LeavingFreesSpot
CHECK_DEADLOCK FALSE
