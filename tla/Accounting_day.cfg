\* Two providers, two requests at a time, over the end of a day and a reload.
SPECIFICATION FairSpec
CONSTANTS
  groq = groq
  cerebras = cerebras
  priced7b = priced7b
  preview = preview
  c1 = c1
  c2 = c2
  Providers = {groq, cerebras}
  Clients = {c1, c2}
  Files <- ConfigFiles
  FirstFile <- Daily
  Day = 2
  Hour = 1
  Minute = 1
  DefaultTimeout = 5
  MaxTime = 5
  MaxReloads = 1
  Models = {priced7b, preview}
  Prices <- PriceList
  Jobs <- Answers
  Quoted <- Backends
  Restored <- Earlier
  Latencies = {3}
  LatencyBuckets <- Bounds
  MaxAttempts = 2
INVARIANTS NoSilentDay OncePerWindow PostsHaveTime BillNamesEveryRequest BillIsNeverShort ScrapeAddsUp
PROPERTY AlertsNeverInTheWay
CHECK_DEADLOCK FALSE
