SPECIFICATION FairSpec
CONSTANTS
  Chars = {1, 2}
  Located = {1}
  Stations = {11}
  Structures = {21, 22}
  Systems = {1, 2, 3}
  ConstellationOf <- MCConstellationOf
  RegionOf <- MCRegionOf
  Positions <- MCPositions
  Homes <- MCHomes
  Belongings <- MCBelongings
  Guests <- MCGuests
  Ids = {31, 32}
  CategoryOf <- MCCategoryOf
  NestedIn = {"idle", "structure"}
  MaxEvents = 2
INVARIANTS
  TypeOK
  NamesMatchIds
  PlacesNest
  CacheTrue
PROPERTIES
  KnownStays
  LocationReached
CHECK_DEADLOCK FALSE
