CONSTANTS
  Runs = {r1, r2, r3}
  PreferredPort = p8008
  AnyPorts = {p1}
  NoPort = NoPort
  Other = Other
  Nobody = Nobody
  MaxTexts = 1
SPECIFICATION Spec
INVARIANTS
  TypeOK
  PreferredPortFirst
  WindowFindsItsRun
  OneServer
  EarlyTextsKept
