\* Every non-empty combination of eleven flags, on 5.7 and 8.0 targets.
CONSTANTS
  Flags <- MCFlags
  Majors <- MCMajors
SPECIFICATION Spec
INVARIANT PredictionMatchesSpec
