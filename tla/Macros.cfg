SPECIFICATION Spec
CONSTANTS
  Inputs <- MCInputs
  Rounds = 3
  Keys <- MCKeys
  Values <- MCValues
  BucketCount = 2
  Bucket <- MCBucket
INVARIANTS TextExpanded ConditionValue FailuresKnown
PROPERTY MapSpec
