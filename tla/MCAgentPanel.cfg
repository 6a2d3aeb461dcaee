SPECIFICATION Spec
CONSTANTS
  s1 = s1
  s2 = s2
  s3 = s3
  None = None
  MaxRuns = 2
  Ids <- MCIds
  Known <- MCKnown
  Home = s1
  Default = s1
  MaxMoves = 2
INVARIANTS TypeOK QuietHistory ListHonest BuriedStays TitleKept QuestionShown
CHECK_DEADLOCK FALSE
