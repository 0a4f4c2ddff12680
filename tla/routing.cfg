SPECIFICATION Spec
CONSTANTS
  McaRecords <- McaAll
  ArmRecords <- Arm
  HisiRecords <- Hisi
  Lines <- Written
  Configs <- AnyConfig
INVARIANTS OneDomain NoneFallsBetween  NeverPastPoison InjectionMirrors
CHECK_DEADLOCK FALSE
