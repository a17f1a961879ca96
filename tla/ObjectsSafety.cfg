SPECIFICATION Spec
CONSTANTS
  Absent = Absent
  Failed = Failed
  Skip = Skip
  Remove = Remove
  Drift = Drift
  Versions = {1, 2}
  Scenes <- SafetyScenes
INVARIANTS TypeOK   TemplatesFollow
PROPERTIES HostKeysStable
CHECK_DEADLOCK FALSE
