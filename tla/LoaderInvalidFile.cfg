\* Whether one bad file keeps the others out.
CONSTANTS
  Files = {1, 2}
  Specs <- MCSpecs
  Garbage = Garbage
  Absent = Absent
  UnitLength <- MCUnitLength
  Half = 128
  MaxEdits = 0
SPECIFICATION Spec
INVARIANTS ValidFilesStillLoad
