SPECIFICATION InfoFairSpec
CONSTANTS
  NaN = NaN
  NoText = ""
  Absent = Absent
  Ks <- SomeKs
  SearchPages <- SomeSearchPages
  BookPaths <- SomeBookPaths
  BookPages <- SomeBookPages
  QuotesPages <- SomeQuotesPages
INVARIANTS
  InfoTypeOK
  SearchIsPrefix
  PageOfFirstMatch
  BookAsShown
PROPERTIES
  ServersClose
CHECK_DEADLOCK FALSE
