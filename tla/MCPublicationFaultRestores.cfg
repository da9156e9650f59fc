SPECIFICATION Spec
CONSTANTS
  en = en
  zhTW = zhTW
  MaxVersion = 3
  Locales = {en, zhTW}
  Routes <- RoutesOfP2L
  Previous <- PreviousOfP2L
  Cacheless = {}
  MaxAudits = 5
PROPERTY FaultRestoresStore
CHECK_DEADLOCK FALSE
