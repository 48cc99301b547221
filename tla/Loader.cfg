\* The server loads two files and somebody validates them, while they are edited.
CONSTANTS
  Files = {1, 2}
  Specs <- MCSpecs
  Garbage = Garbage
  Absent = Absent
  UnitLength <- MCUnitLength
  Half = 128
  MaxEdits = 2
SPECIFICATION Spec
INVARIANTS
  TypeOK
  SteadyLoadIsSound
  OnlyEditedFilesAreDoubtful
  CLIPredictsServer
