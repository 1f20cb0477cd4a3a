CONSTANTS
  cron = cron
  sched = sched
  blurb = blurb
  rant = rant
  praise = praise
  search = search
  reddit = reddit
  all = all
  Workers = {sched}
  Posts = {rant}
  Short = {}
  Targets = {search}
  Platform <- MCPlatform
  Scopes = {all}
  FetchLimit = 2
  NoAlert = NoAlert
  Start = 3
  End = 4
  Hour = 2
  Day = 4
  RuleWindow = 0
  Suppression = 2
  RawAge = 0
  AlertAge = 1
SPECIFICATION FairSpec
PROPERTY
  AlertsKeepBeingEvaluated
