CONSTANTS
  Runs = {r1, r2}
  PreferredPort = p8008
  AnyPorts = {p1}
  NoPort = NoPort
  Other = Other
  Nobody = Nobody
  MaxTexts = 2
SPECIFICATION FairSpec
PROPERTIES
  TextsReachSession
  StartsOrEnds
