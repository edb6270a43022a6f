SPECIFICATION Spec
CONSTANTS
  bases <- const_bases
  Ignored = {"Assertion"}
  CatchAll = "CatchAll"
  NoBody = NoBody
  MaxTraceLevel = 20
  Sources <- const_Sources
  NameOf <- const_NameOf
  Header = "x.h"
  Outside = "Outside"
  NoFile = NoFile
  NoCaller = NoCaller
  BatchSize = 2
  MightThrow <- MightThrowAt
INVARIANTS
  TypeOK
  StatementsHaveRows
  ListingsFollowSource
  MightThrowIsRight
CHECK_DEADLOCK FALSE
