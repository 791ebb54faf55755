SPECIFICATION MCSpec
CONSTANTS
  UserTop = 7
  UserSizes = {1, 2, 3}
  Objects = 5
  CallsAfter = 2
  SmallPages = {p1, p2}
  ClassSize <- MCSize
  PageSize = 12
  NoClass = NoClass
  SmallSizes = {3, 4, 6}
INVARIANTS PagesConserved BlocksAccountedFor
PROPERTIES FitsCustom
CHECK_DEADLOCK FALSE
