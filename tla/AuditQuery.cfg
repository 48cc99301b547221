\* A client pages through the trail while rows come and go.
CONSTANTS
  allow = allow  block = block
  Kinds = {allow, block}
  AnyKind = AnyKind
  NoBound = NoBound
  Unparsable = Unparsable
  Zones <- MCZones
  MaxTime = 2
  MaxRows = 3
  Requests <- MCRequests
  DefaultLimit = 2
SPECIFICATION Spec
INVARIANTS
  TypeOK
  NothingSkipped
  RepeatsAreInsertions
  RangeExactInOneZone
PROPERTIES
  PagesGoBack
