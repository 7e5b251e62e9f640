SPECIFICATION Spec
CONSTANTS
  w1 = w1
  a = a
  b = b
  t = t
  u = u
  NoName = NoName
  Workers <- OneWorker
  Labels <- TwoLabels
  Tokens <- TwoTokens
  Documents <- SomeDocuments
  Rates <- TwoRates
  DefaultRate <- OneDefault
  Dates <- ThreeDates
  Weekday <- DayNames
  Festive <- OneHoliday
  Calendars <- SomeCalendars
  DefaultOffs <- Weekend
  FixedDays = 30
INVARIANTS
  TypeOK TokensLand ReopenShowsChoices
PROPERTIES
  SavesOnlyItsOwn
