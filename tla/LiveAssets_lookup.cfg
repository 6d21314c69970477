SPECIFICATION FairSpec
CONSTANTS
  Null = Null
  Keys = {k1, k2}
  Callers = {c1, c2}
  Tasks = {t1, t2}
  Slots = 1
  CacheMax = 1
  TTL = 1
  MaxClock = 2
INVARIANTS
  TypeOK
  SlotsConserved
  SingleFlight
  NoFreshEntryBesideLookup
  AnswersAreFresh
PROPERTIES
  CallersAnswered
