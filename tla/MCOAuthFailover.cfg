SPECIFICATION AuthSpec
CONSTANTS
  Thread = {t1, t2}
  Static = Static
  Fallback = Fallback
  NoToken = NoToken
  CooldownSeconds = 2
  ProbeSeconds = 1
  MaxLogin = 2
  MaxWrites = 3
  MaxClock = 2
SYMMETRY MCSymmetry
INVARIANT AsTheFile
PROPERTIES NeverExtended NewLoginIsTried
