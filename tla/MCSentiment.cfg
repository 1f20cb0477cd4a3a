CONSTANTS
  cron = cron
  sched = sched
  blurb = blurb
  rant = rant
  praise = praise
  search = search
  reddit = reddit
  all = all
  Workers = {cron, sched}
  Posts = {blurb, rant}
  Short = {blurb}
  Targets = {search}
  Platform <- MCPlatform
  Scopes = {}
  FetchLimit = 2
  NoAlert = NoAlert
  Start = 3
  End = 5
  Hour = 2
  Day = 4
  RuleWindow = 0
  Suppression = 2
  RawAge = 0
  AlertAge = 1
SPECIFICATION Spec
INVARIANTS
  TypeOK
  References
  OneNotification
SYMMETRY Symmetry
