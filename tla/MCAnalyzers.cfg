SPECIFICATION AnalyzersSpec
CONSTANTS
  Zones = {z1}
  IntrusionZones = {z1}
  MaxAge = 1
  MinHits = 3
  ZoneStale = 3
  CounterStale = 3
  Cooldown = 3
  Margin = 1
  Steps = {1, 2}
  MaxTracks = 1
  MaxCount = 2
PROPERTIES ZoneEventsAlternate CrossingsAlternate CooldownHolds
