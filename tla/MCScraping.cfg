CONSTANTS
  thread = thread
  stub = stub
  bare = bare
  ad = ad
  tweet = tweet
  quote = quote
  Posts = {thread, stub, bare, ad, tweet, quote}
  Noise = {ad}
  Linked = {thread, ad, tweet}
  Targets <- MCTargets
  Shows <- MCShows
  MaxPosts = 2
  MaxRetries = 2
  MaxScrolls = 2
  MaxRuns = 4
SPECIFICATION FairSpec
INVARIANTS
  TypeOK
  StoredOnce
  CollectedIsStored
  FallbackTried
PROPERTIES
  ImplementsHarvest
  EveryScrapeEnds
CHECK_DEADLOCK FALSE
