SPECIFICATION FairSpec
CONSTANTS
  Absent = Absent
  Failed = Failed
  Skip = Skip
  Remove = Remove
  Drift = Drift
  Versions = {1, 2}
  Scenes <- LivenessScenes
PROPERTIES  PasswordArrives
CHECK_DEADLOCK FALSE
