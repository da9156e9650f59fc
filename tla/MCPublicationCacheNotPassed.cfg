SPECIFICATION Spec
CONSTANTS
  en = en
  zhTW = zhTW
  MaxVersion = 3
  Locales = {en, zhTW}
  Routes <- RoutesOfP2L
  Previous <- PreviousOfP2L
  Cacheless = {"rollback"}
  MaxAudits = 5
INVARIANT OnlyTargetServed
CHECK_DEADLOCK FALSE
