SPECIFICATION Spec
VIEW View
CONSTANTS
  Runs = {r1,r2}
  Capped = {r1}
  Fetchers = {r1,f1}
  Forced = {f1}
  Readers = {l1}
  TTL = 1
  Lag = 1
  MaxTime = 3
  MaxFaults = 1
  MaxEvents = 2
  LastStart = 1
CHECK_DEADLOCK FALSE
INVARIANTS TypeOK NoPricesIsNeverCached EventsKept ListingIsComplete RowsAreTrue
PROPERTY PricesAreRecent
