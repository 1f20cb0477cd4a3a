# TLA+ specifications of the y_eet platform

The repository holds three programs: the platform API (`src/src`, TypeScript on
Fastify and PostgreSQL), a synthetic traffic generator (`src/y_eet-synth`, Go)
and a social sentiment pipeline (`src/social-sentiment`, Python on SQLite). The
modules here model their core logic as it is written, check it with TLC on small
instances and prove their main safety properties, from the wallet and the betting
flow to the scrape stage and the alerts, with TLAPS for every instance.
`PROJECT.json` maps each definition to the lines it stands for.

    tlc -workers 2 -config MCWallet.cfg MCWallet     # any MC*.cfg with its module
    tlapm WalletProofs.tla                           # any *Proofs.tla

## 1. The system

### Platform API

| Component | State | Operations | What is hard |
|---|---|---|---|
| Wallet and ledger (`WalletService`, `WalletRepository`, `db/pool`) | `wallet_accounts` (balance, reserved), `wallet_transactions` with a UNIQUE idempotency key | deposit, withdraw, reserve, settle win, settle loss, void: each one SERIALIZABLE transaction | concurrent calls of one wallet, retries, a commit whose answer is lost, 40001 |
| Bets (`BetService`, `BetRepository`) | `bets` (status, payout, UNIQUE key) | `placeBet` in eight steps, `settleBet`, `voidBet` | nothing spans the wallet and the bets table: failures between statements, settlements and voids that race |
| Idempotency store (`middleware/idempotency`, `IdempotencyRepository`) | `idempotency_keys` with a TTL | the guard before a handler, the onSend hook after it | two attempts in flight, failed lookups and stores, expiry |
| Auth and sessions (`AuthService`) | `users`, `sessions` (used_at, revoked_at), the connection pool | register, login, refresh, revoke, validate | a client is held while others are asked for; rotation and logout race |
| Game sessions (`GameSessionService`) | `game_sessions` (status, expiry, seed) | create, heartbeat, close, reveal, validate | a check and its UPDATE are apart, a heartbeat ignores the expiry, a session closes and reveals its seed while a placement is in flight |
| Risk engine (`RiskService`) | `user_risk_profiles`, a circuit breaker | evaluate, ingest a signal | scores only grow and are written blindly; a late evaluation after a timeout; breaker states |
| Feature flags (`ConfigService`) | a 30 s cache over `feature_flags`, one per service instance | get, set | a write clears the cache of another instance than the one the bets read |
| HTTP surface, migrations, telemetry (`app`, `server`, `db/migrate`) | none of its own | mapping of errors to statuses, start-up, shutdown | two instances migrate at once |

`POST /bets/place` is where they meet: the guard looks the key up, `placeBet`
asks for the game session and the risk score, reserves the stake in the wallet,
inserts the bet and, for an instant game, settles it; the hook stores the answer.

### Synthetic traffic

| Component | State | Operations | What is hard |
|---|---|---|---|
| Token pool (`token/pool`) | users with access and refresh tokens | seed, select, refresh | goroutines that refresh one single-use token at once |
| Runner (`runner`) | a token bucket, a semaphore, a wait group | run, burst, set the rate, drain | the rate after a burst, shutdown while workers run |
| Evaluator, metrics, chaos, client | samples per scenario | record, snapshot, judge, inject faults | percentiles of small samples, verdicts with warnings |
| Scenarios, profiles, mesh, reporter | none | scripts of requests, tables, formatting | nothing |

### Social sentiment

| Component | State | Operations | What is hard |
|---|---|---|---|
| Ingest and storage (`pipeline/ingest`, `storage/db`) | SQLite tables, each helper a transaction of its own | scrape, store, normalise, classify, purge | the scheduler, cron and the purge interleave between helpers; foreign keys |
| Aggregation and alerts (`pipeline/aggregate`, `alerts`) | `hourly_aggregates`, `alert_events` | roll up, evaluate rules, suppress, notify | two evaluators at once, the clock hour in the key, times compared as text, counting and storing in two transactions |
| Demo seeder (`scripts/seed_demo`) | posts, results and aggregates of its own making | seed, seed with `--force` | it runs beside the pipeline, in many transactions, and may stop between them |
| Scrapers (`scraper`) | browser, pages, the ids seen | load, retry, scroll, extract, fall back | pages that never load, posts shown again under other ids, exceptions after some posts |
| Classifiers, dashboard, metrics exporter | none | text scoring, reading, drawing | inputs and readers of the pipeline |

### What makes each component correct

- Wallet: a balance is the sum of its ledger; a key is posted at most once; no
  balance is negative; every call ends and gives its row lock back.
- Bets: what is reserved is the stake of the unresolved bets; a row never says
  more than the wallet did; a bet is paid what it records; what a caller was told
  stays true; a final status is final.
- Idempotency: a client that waits for its answers never hears a refusal of a bet
  that exists, and after an acceptance nothing else but a 500, for good.
- Sessions: one successor per refresh token; no token accepted after a logout; who got
  tokens from a registration has a wallet and a profile; the pool recovers.
- Sentiment: a normalised post has the raw post it was made of; one notification
  per rule and hour; rules go on being evaluated and see what they should.
- Game sessions: no placement that begins after the seed was revealed passes. Risk:
  an unavailable score is a refusal; a blocked account stays blocked. Flags: a
  change reaches the bets.
- Scrapers: what is collected under an id is stored once, as what it is; the other
  page is tried; every scrape ends. Seeder: never adds its posts twice unless forced,
  and never over computed rows. Rules: the mention rule fires on an hour that towers
  over the others and on every such hour.
  Aggregates: never more than the results hold.
- Token pool: a token is spent once and replaced. Runner: the rate holds after a
  burst and shutdown drains.

`PROJECT.json` lists the hazards, each at the line where it bites, with the
properties that would catch it.

## 2. The modules

    WalletOps ── WalletRequests ── Ledger        (abstract: indivisible posts)
        │              └────────── Wallet  ── MCWallet, WalletProofs
        └── Betting ── MCBetting, BettingProofs
               └── Gateway ── MCGateway, GatewayProofs
    Sessions  ── MCSessions, SessionsProofs
    GameSessions, Flags, Risk ── Placement ── MCPlacement, PlacementProofs
    Sentiment ── MCSentiment, SentimentProofs
    Harvest (abstract) ── Scraping ── MCScraping, ScrapingProofs
    Rollup ── MCRollup, RollupProofs

**WalletOps, WalletRequests** hold the arithmetic of one mutation (`Covered`,
`NewAccount`, the cut-off `Release` of `Math.max(0, …)`) and the ledger rows.
Money is whole cents; the routes admit two decimals and `NUMERIC(15,2)` stays
below 2^53 cents, so the code's floating point is exact on it.

**Ledger** is what the wallet promises: each key is posted in one step, at most
once, and an answer is true when it is given. **Wallet** is `debit` and `credit`
as the database runs them. A worker is one call: `Begin`, `LookUp` (the snapshot
is taken), `LockRow` or `SerializationFailure` (the row changed after the
snapshot), `InsufficientFunds` or `Write`, `Commit`, `Reply`, and `Fail` anywhere,
before the commit or after it. The two writes of a transaction are one step, as
nobody sees them before the commit.

**Betting** takes each wallet call as one step, which the refinement of `Ledger`
justifies, and everything else statement by statement. `Place … ReadBalance` are
the steps of `_placeBetInternal`; `ReadBet`, `Credit`, `Mark` and their conflicts
are those of `settleBet` and `voidBet`, which an instant game's placement shares.
Eligibility, limits, session and risk are `Admit` or `Reject`: state that others
change, so that any attempt may pass or not; `Placement` opens that step. A bet stands for one client key; its
wallet keys are derived from it as in the code. Assumed of the environment: a
key is used for one payload, and bettors have wallets.

**Gateway** extends Betting with the guard (`Receive`, `Replay`, and `LookupFails`,
which answers 500 as the code catches nothing there) and the hook (`Respond`,
`Store`) around placements, with failed stores and `Expire`. `accepted` is a history
variable: the bets ever answered with 202. No guard reads it.

**Sessions** models the four operations of AuthService and the pool. A call that
holds a client across statements (`register`, `refresh`, a waiting `revoke`) is
in `holds`; a query through the pool needs a free client for its step
(`ClientFree`) and gives up with `ConnectionTimeout` when there is none. `refresh`
returns `issueTokens(user)` without awaiting it, so its `finally` gives the client
back as soon as the user was read (`ReadUser`): the profile read and the INSERT of
the new session run without it, and an error of theirs meets no ROLLBACK.
Passwords, hashes, expiry and account status are nondeterministic refusals.

**GameSessions**, **Flags** and **Risk** are the services steps 4 and 5 of `placeBet`
ask, each with its own state; **Placement** composes them. `GameSessions` keeps the
rows of one user with the time left to `expires_at`; a heartbeat that has checked
the status and not yet updated is in `beats`. `Flags` has the row of
`risk_eval_enabled` and the cache `BetService` reads it through; the cache that a PUT
clears belongs to the config routes' own `ConfigService` (`BetService.ts:62`,
`routes/config/index.ts:13`) and no placement sees it. `Risk` has the stored score,
the evaluations in flight and the breaker. An evaluation loads the score, rates and
writes, without being waited for; one whose caller timed out goes on by itself
(`RateAlone`). The breaker library is external: `Trip` may or must open it, `Heal`
closes it, `Reset` lets one call probe it. In `Placement` a call notes when it begins
whether its session's seed was already handed out (`known`) and whether its user
was blocked for good (`blocked`); no guard reads either note.

**Sentiment** models a run of the pipeline as the sequence of its transactions,
any number of processes, the purge and the clock. Times are the insertion times
the code stores; `Before` compares them the way the SQL does, as text, which
decides by the day. A raw post's id is AUTOINCREMENT, so its insertion time names
it. `FinishScrape` keeps, of each platform's runs, the last success and the last
failure, the only thing the health rule looks at. Aggregates and results do
not occur: `ClassifyRaises` is why. How a run gets its posts is one step here and
the module Scraping.

**Harvest** is what the scrape stage promises the rest: a run is opened and ended
once, rows are stored for the open run only and neither changed nor doubled.
**Scraping** is the loop over the targets of `run_ingest_pipeline` with the
scrapers of Reddit (JSON first, then the rendered page) and Twitter (one page,
scrolled). `open` holds the browser and its pages, `posts` is `ScrapeResult.posts`.
A post id (`Keys`) is the site's own, the rendered element's, the second of the
reading for a tweet without a link, or '' for a Reddit post that the JSON gives
without an id or the page without an id and a permalink (`JsonIds`, `RenderedIds`,
`TweetIds`). All posts with '' share one key, and INSERT OR IGNORE keeps the first of
them for good. `ScrapeRaises` is an exception that leaves
`scrape()`, `Raise` one of the recording around it, `Crash` the end of the process.

**Rollup** is what happens once there are results: the seeder as the transactions
it is made of (`StartSeed`, `SeedPosts`, a `SeedAggregate` per row), and passes that
compute and store an aggregate per scope in two transactions (`Compute`, `Upsert`)
and then evaluate the rules. `Window` compares bucket texts by the day, as the SQL
does. With a scraped post in the database no run aggregates (Sentiment), so the
results are the seeder's; seeders run one after the other. Scraped posts matter to
`has_data` alone, which counts `raw_posts`: `scraped` is one bit, and `Scrape` may set
it at any time, also between `has_data` and the demo posts.

## 3. What is checked

Passing runs:

| Run | Instance | Shows | States |
|---|---|---|---|
| `wallet` | 2 workers; 5 keys: a deposit, a withdrawal and a reserve that exceed it together, a win that releases more than is held, a key of a user without a wallet | `TypeOK` (nothing negative), `LedgerExplainsBalance`, `PostedOnce`, `LockedReadIsCurrent`, `ImplementsLedger`, `EveryCallEnds` | 93,061 |
| `betting` | 2 calls; 3 bets of 2 users: an instant game that wins, a bet that loses, one that operators settle for 0 and for 3 and void | `ReservedIsOutstanding`, `MoneyBehindStatus`, `PaidAsRecorded`, `SuccessIsDurable`, `FinalStatus` | 1,066,153 |
| `gateway` | 2 calls; 2 bets: one client waits for its answers, one retries while an attempt runs | `RefusalIsTrue`, `AcceptedStaysAccepted` | 5,487,629 |
| `sessions` | 3 calls on a pool of 2; a member with a session and a newcomer; 3 session ids | `OneSuccessor`, `RegisterIsComplete`, `RevokedIsRefused`, `PoolRecovers` | 572,956 |
| `placement` | 1 call, 1 session, 2 evaluations, scores 0..2 with the block at 2, times of 1 tick | `NoBetAfterReveal`, `FailClosed`, `BlockedIsRefused`, `FlagReachesBets` | 520,232 |
| `sentiment` | 2 processes, 1 target, 2 posts of which 1 is too short, 3 ticks around the change of hour and day | `References`, `OneNotification` | 1,780,919 |
| `scraping` | 4 runs over two Reddit and two Twitter targets; 6 posts: a Reddit post with an id and two without, one per target, a tweet with a link, one without that both Twitter targets show, and noise; quota, retries and scrolls of 2 | `StoredOnce`, `CollectedIsStored`, `FallbackTried`, `ImplementsHarvest`, `EveryScrapeEnds` | 1,935,217 |
| `rollup` | 1 process, 2 seedings, a scrape, Reddit and ALL, a quiet and a busy hour to invent, 2 hours | `NeverOverstates`, `ScopesAgree`, `SeededOnce`, `ComputedStays`, `SpikeIsUnusual` | 2,032,144 |

Runs that violate what the repository says (section 6): `two_resolutions`,
`stored_refusal`, `blackout`, `masked_failure`.

Why these bounds are enough to be of use:

- Two workers, calls or processes are the smallest number that races. Retries are
  not bounded: a key may be used again at any time, and a call may fail at any
  step, so "a third attempt" is the second one failing and coming back.
- Funds are chosen so that the order of calls decides who is refused: in `wallet`
  the deposit covers the withdrawal or the reserve, in `betting` ann's funds cover
  one of her two stakes until one is won.
- The pool has two clients instead of twenty; three calls are enough to hold all
  of it while a third asks. `IdsLeft` stops new calls when the session ids could
  run out, so what is bounded is the number of sessions and not the interleaving.
- In `sentiment` an hour is two ticks and a day four, and the three ticks modelled
  straddle the change of both. Retention is scaled the same way (raw posts of an
  earlier day, alerts of the day before a tick ago). `Prompt` is the one
  assumption on time: at most a tick passes between the key of an alert and
  its row, where the code has two statements. In the passing run `Scopes` is
  empty, that is, no absence-of-data rule is evaluated: its path is the same as
  the scraper rule's, which is, and the state space with both is five times as
  large; the `blackout` and `masked_failure` runs evaluate it. The two processes
  are interchangeable, hence the symmetry, used in this run only, which has no
  liveness property.

- In `placement` two evaluations are needed for one to be late: the call's own, after
  its timeout, beside the next one. One call, over and over, meets every state the
  others could leave behind, for calls share nothing but the services, and with
  two evaluations at most one can be waited for while another writes. A score of
  0..2 has an open, a raised and a blocked account.
- In `scraping` a quota of two posts is reached by JSON and rendered page together
  and not by either alone. Each
  Reddit target shows one post without an id, which a run may read twice, from the
  JSON and rendered, so '' meets itself in a run and another post's '' in the next.
- In `rollup` two processes are out of TLC's reach (over ten million states); the
  proofs cover any number. The rules' thresholds are scaled to hours of at most
  four posts.

`CHECK_DEADLOCK` is on everywhere but in `scraping`, where the runs modelled are
used up in the end: a client may always send another request and a process may
always start another run.

### Fairness

- `Wallet`: strong fairness of each worker's step. The driver sends the next
  statement when the last was answered, and PostgreSQL queues the waiters of a
  row lock, so a lock that is free again and again is obtained. Nothing is
  assumed of clients or failures. `EveryCallEnds`.
- `Sessions`: weak fairness of each call's step or its connection timeout: a call
  that can go on does, and the pool's timer fires. `PoolRecovers` would fail
  without `connectionTimeoutMillis` (its mutant): two calls that hold the pool
  and ask for a third client wait for each other.
- `Placement`: time passes, and each call's query is answered or fails. Nothing is
  assumed of evaluations nobody waits for, of the breaker's reset or of the other
  users of the services. `FlagReachesBets`.
- `Scraping`: a run that has begun goes on: every page call has a timeout and every
  sleep is finite (`base.py`). Nothing is assumed of the sites. `EveryScrapeEnds`.
- `Sentiment`, `blackout` only: `ReliableNext` leaves failures out, and each
  process starts runs and goes on with them. That makes the violation stronger:
  nothing needs to go wrong for the alerts to stop.

## 4. What is proved

For every number of users, keys, workers, bets, sessions and calls, every size of
the pool and all amounts:

- `WalletProofs`: `TypeCorrect`, `LedgerCorrect`, `PostedOnceCorrect`,
  `LockedReadCorrect`, and `WalletImplementsLedger`, that every step of the
  transactions is a post, an answer or a stutter of `Ledger`.

  The properties are not inductive. `IInv` adds that a worker past the lock holds
  it (`LocksHeld`), that its snapshot is not ahead of the ledger (`SnapshotPast`)
  and that a key its snapshot did not have can only have been posted by a row
  after the snapshot (`SnapshotInv`): so when `LockRow` finds the ledger as long
  as in the snapshot, the lookup is still current, and with the lock it stays so.
  That is the argument why SERIALIZABLE matters here: in READ COMMITTED the
  lookup before the wait is stale. `RowsOfOwner` puts a key's row with its user,
  `CommitCovered` and `ReplyPosted` carry what `check` and `commit` established.

  `CallsGoDownCorrect` and `NobodyIsStuckCorrect` are the part of `EveryCallEnds` that
  is not fairness. The statements left of a call (`Remaining`) only become fewer, and
  a call that cannot go on waits for a row lock whose holder can: a locked row is in
  use (`LocksInUse`), its user is past `lock`, and a call locks one row only.
- `BettingProofs`: `TypeCorrect`, `MoneyCorrect`, `PaidCorrect`, `ReservedCorrect`,
  `BalanceCorrect`, `SuccessCorrect`, `FinalCorrect`.
  `IInv` adds what a call knows at each step (`CallFacts`: past `reserve` the
  stake is reserved, at `mark` the movement is posted) and what its answer says
  (`Told`). These facts survive other calls since postings are never removed and
  a row, once final, is never changed (lemma `Forward`), which is why
  they hold even for operators who contradict each other. `PaidCorrect` needs
  `PayInv` besides: what is posted for a bet and what its row says were asked for
  (`PostedAsAsked`, `SettledAsAsked`), so when one thing was asked they agree.

  `ReservedCorrect` and `BalanceCorrect` are about sums. `ReservedIsOutstanding` is not
  inductive, as a release is cut off at zero (`Math.max(0, …)`); `HeldInv` says of a
  user without disputes that the reserve is the stakes outstanding and that a bet is
  resolved only after it was reserved, so that a release never reaches the cut-off.
  `BalanceIsExplained` holds of all users, disputed or not: the balance is `Funds` and
  the sum of what was posted, so two operators who contradict each other distort the
  reserve, and add a movement each, but lose none. The sums themselves take an
  induction over finite sets. It is done once, by a set of least size on which the
  sum would not be defined (`SmallestSubset`, `TotalExists`, `TotalUnique`);
  `TotalAdd` and `TotalRemove` are what the steps use.
- `GatewayProofs`: `GatewayImplementsBetting`, `GatewayTypeCorrect`, `RefusalCorrect`,
  `AcceptedCorrect`. Every step of the gateway is one of the handlers or leaves them
  alone (`GatewayRefines`), so the theorems of `BettingProofs` hold behind it too. `GInv` adds that the attempts of a client that waits come
  one after another (`OneAttempt`), so that what one has read of its bet nobody
  else changes (`Attempts`), and that none is under way while a refusal is kept
  (`RefusedIsQuiet`); an expired record is never renewed, hence stays out of the way.
  `AcceptedStaysAccepted` is an invariant over the history: once a bet was answered
  with 202 its last answer is 202 or a 500, for ever, since an accepted bet has its
  row and every later attempt finds it.
- `SessionsProofs`: `TypeCorrect` (with the bound of the pool), `OneSuccessorCorrect`,
  `RegisterCorrect`, `RevokedCorrect`, `ResourcesCorrect`, `LockWaitsEndCorrect`.
  `IInv` adds that between `LockSession` and `Rotate` a call holds the row lock and
  its copy of the row is current (`CheckedIsCurrent`), since nobody writes a locked
  row; and that a call which has used a session up is the only one about to insert
  its successor, and nobody has inserted one (`OneRotation`). The second follows
  from the first: the row was unused, and a row that has a successor is used
  (`RowFacts`). `Registered` carries what a registration has inserted so far.

  `ResourcesInUse` says that a client is held, and a row locked, only by a call between
  the statements that the code holds it for, on every path of refusal, failure and
  timeout: `refresh` up to the read of the user and not while it issues tokens.
  `LockWaitsEnd` follows: who waits for a row lock waits for a call that asks for neither
  a lock nor a client. Circles of waiting are made of clients alone, then, and those
  `connectionTimeoutMillis` breaks, which is what `PoolRecovers` rests on.
- `PlacementProofs`: `TypeCorrect`, `RevealCorrect`, `FailClosedCorrect`, `BlockedCorrect`,
  `NewsSpreadsCorrect`.
  `IInv` adds that a revealed session is closed, which no heartbeat undoes, since its
  UPDATE asks for the status again; that a call which knew the seed began on a
  revealed session, so it can only be refused at the gate (`KnownIsRevealed`); that an
  evaluation which started from a blocked score ends in one (`ScoreCarriesOn`); and that
  `BlockedForGood`, the stored score and everything about to overwrite it being blocked,
  is stable (`BlockedStays`). `NewsSpreads` is `FlagReachesBets` without its fairness: an
  old value of the flag is in the placements about to cache it, in the cache, or in
  those that act on it, and while the flag is left alone the first empty for good,
  then the second, then the third.
- `ScrapingProofs`: `TypeCorrect`, `StoredOnceCorrect`, `CollectedIsStoredCorrect`,
  `FallbackCorrect`, `RunsGoDownCorrect`, `LowerIsWellFounded` and
  `Refinement`, that every step is an `Open`, `Store` or `End` of `Harvest` or a stutter.
  What INSERT OR IGNORE skips must be the post itself, unless its key is '': `Named`
  says that an id names one post, and `Fresh` that a moment standing in for an id is
  later than every stored one, because a run starts after the last one and stores
  once; within a run `Moments` keeps two tweets of one moment apart, for the second is
  `Seen`. A key that was brought twice is stored by the first to bring it (`LeastOf`). `FallbackCorrect`
  needs that the pages are tried in their order (`PagesInOrder`).

  `RunsGoDown` says that no run can go on for ever: each of its steps is a step down in
  the lexicographic order of the parts of the run still ahead, the loads and scrolls
  left in this one, and the posts of the page unread (`Measure`). A retry takes a turn,
  a scroll that shows new posts takes one as well, and a post read takes neither. The
  order is well founded, which makes this the part of `EveryScrapeEnds` that is not
  fairness, for every quota and every number of retries, scrolls and posts.
- `RollupProofs`: `TypeCorrect`, `NeverOverstatesCorrect`, `ScopesAgreeCorrect`,
  `SeededOnceCorrect`, `ComputedStaysCorrect`, `SpikeCorrect`. Results only grow, so a count made in one transaction is
  still covered when another stores it (`RowsSupported`, lemma `GrowthSupports`); an
  unforced seeding is under way on a database without demo posts only (`EmptyBefore`),
  since only the seeder adds those, whatever a scrape adds beside it; and what a process is about to store is computed (`OwnRow`).
  `ScopesAgree` needs the order of the loop: the list of a pass stands in the order of
  `Scopes` (`ListInOrder`), so ALL is counted after the platforms, over results that
  were only added to. `SpikeIsUnusual` is the median, in both directions: of any number
  of rows more than half are at or below it and no more than half below
  (`MedianFacts`), so the bound that the last hour reaches or misses has fewer, or at
  least, half of the other hours above it (`AboveFacts`), and the median is zero
  exactly when more than half are (`SilentFacts`).
- `SentimentProofs`: `TypeCorrect`, `ReferencesCorrect`, `OneNotificationCorrect`. Who is
  at `send` is the only one that inserted its alert's row (`OneSender`), and once
  inserted, an alert stays `Taken`: its row is there, or its hour is past for every
  process. The purge does not undo that, because it takes rows of an earlier day
  than `AlertAge` before now; days are made of hours, so their hour ended before the
  last tick (lemma `EarlierDay`), and whoever is about to insert has a key of the
  hour of now or a tick ago (`InsertInTime`, from `Prompt`).

Assumptions, all named in the modules and evaluated by TLC: `WalletAssumption`
(every key has one well-formed request), `WorkerAssumption` (the free lock has no
holder), `BettingAssumption` (stakes, funds and payouts are naturals) and
`SessionsAssumption` (the placeholders are no session and no call; the pool has
a client; finitely many calls), `GameSessionsAssumption` and `FlagsAssumption` (times
are positive), `RiskAssumption` (raises are naturals, the block is in the range),
`ScrapingAssumption` (limits are positive, each target shows known posts),
`RollupAssumption` (finitely many posts, the seeder's scopes are among those rolled
up, ALL comes after the platforms, an hour has no more negative posts than posts, the
mention rule wants more than one row, four in the code), `SentimentAssumption` (a day is a
number of hours, alerts are kept for some time) and `GatewayAssumption`: no operator
resolves the instant-game bet of a client that waits. The last one is needed: an
operator who settles such a bet between its INSERT and its own settlement makes
`settleBet` refuse with 409, and the client is told so of a bet it has placed.

Only model-checked: `EveryCallEnds`, `PoolRecovers`, `FlagReachesBets` and
`EveryScrapeEnds`. The prover has no rule for fairness, as it cannot reason about
`ENABLED`. The safety each of the four rests on is proved: `CallsGoDownCorrect` and
`NobodyIsStuckCorrect`, `ResourcesCorrect` and `LockWaitsEndCorrect`, `NewsSpreadsCorrect`,
`RunsGoDownCorrect`. The four runs that end in a violation are instances and need no
proof. The library's induction theorems take an operator as a parameter, which no
installed backend instantiates: where induction was needed, over finite sets, it is an
argument from a smallest counterexample.

## 5. What is not modelled

- Reads that change nothing: balances, histories, `validateSession`, health, the
  dashboard and the metrics exporter.
- The traffic generator: a client of the platform that paces and samples requests.
- The breaker of the `/risk` routes and the cache of the config routes, which no bet
  passes through; fraud signals, which are inserted and never read by the code
  modelled; a user's betting limits and eligibility (`Admit`, `Reject` in Betting).
- Migrations: one statement per instance at start-up. Telemetry, logging,
  formatting, text scoring, infrastructure: no state of the properties.
- In Sentiment: the removal of a corrupt database file. In Scraping: what a browser
  launch that fails halfway leaves running. In Rollup: the rules over derived labels,
  weighted scores and top themes, and two seeders at once.
- The same idempotency guard around the wallet and session routes.

## 6. Where the code and its documents disagree

1. `two_resolutions`: a settlement and a void (or a win and a loss) of one bet at
   the same time both reach the wallet. `settleBet` and `voidBet` check the status
   without a lock and use different keys. `src/src/README.md:105`: "concurrent
   double-executions are impossible".
2. `stored_refusal`: of two attempts in flight the refusal of one is stored and
   repeated although the other placed the bet. `src/README.md:256`: "stores key →
   response before the handler executes"; `src/src/README.md:84`.
3. `blackout`: from the first normalised post on, every run of the pipeline raises
   while it stores results, for they refer to a classifier run nobody inserts. No
   aggregate and no alert follows. `run_pipeline.sh:4`: "ingest → aggregate → alert
   evaluation".
4. `masked_failure`: `started_at` has a T where `datetime('now', …)` has a blank, so
   the two-hour window is a day and an old success masks failures.
   `src/social-sentiment/README.md:240`: "no success in the last 2 hours".

Shown by the models without a run of their own:

- A placement that fails between the reservation and the INSERT leaves the stake
  reserved without a bet, although `BetService.ts:154` speaks of "a single logical
  operation". A session that closes after its check does not stop the placement in
  flight. A settlement repeated with another payout may record what was not paid.
- A lookup of the idempotency store that fails ends the request with 500 before the
  handler (`idempotency.ts:39`, `LookupFails`). `src/src/README.md:196`: "If the store
  is unavailable, requests proceed without idempotency protection". The same line has
  the key stored before the handler runs, which is point 2.
- Placements lock the wallet's row (`SELECT … FOR UPDATE`, `WalletRepository.ts:81`,
  `LockRow`). `src/README.md:258`: "No row-level locks on the hot path".
- A refresh that fails after its COMMIT consumes the token, and one that is past its
  rotation when the logout comes still gets a new session. A registration that fails
  half way leaves a user who can log in without a wallet and whose email is taken.
- Reddit's JSON is asked first and the rendered page only when that leaves the quota
  open (`reddit.py:54`, `reddit.py:61`, `FallbackTried`). The file's heading says the
  opposite, `reddit.py:9`: "Falls back to JSON fallback endpoint (old.reddit.com +
  .json) if DOM scrape fails".
- Reddit posts without an id get '' (`reddit.py:99`, `reddit.py:157`), share one key,
  and all but the first ever are dropped as duplicates. `reddit.py:10`: "Validates
  minimum field presence before yielding". A Reddit post read from the JSON and from
  the rendered page has two rows.
- The seeder without `--force` adds the demo posts to a database with data when a
  scrape stores posts after `has_data` (`seed_demo.py:218`, `seed_demo.py:225`).
  `src/social-sentiment/README.md:81`: "skips if data already exists".
- Every threshold is inclusive in the code (`evaluator.py`, `>=`): the rules fire at
  exactly 40 and 65 percent, at the counts of the label rules and at exactly three
  times the median (`evaluator.py:232`, `SpikeIsUnusual`). The documents have them
  exclusive: `src/social-sentiment/README.md:235` to `239`, `evaluator.py:11` to `15`
  ("mentions > 3× 7d median") and `aggregate.py:13`.
- An alert repeats after the change of the clock hour and not after the time set, as
  the hour is part of its key (`evaluator.py:57`, `OneNotification`): two may be a
  minute apart. `src/social-sentiment/README.md:117`: "Minimum minutes between
  duplicate alerts".
- The daily purge rolls back as soon as one old raw post was normalised. An alert
  recorded before a crash is never sent.

## 7. Plan

Done: wallet and ledger, betting, gateway, sessions, sentiment, game sessions, risk
and flags composed in the placement's gates, scraping, aggregation and seeding, each
with proofs. What is left, in this order:

1. An instant game's bet that was created and never settled, as a liveness property
   of Betting with the session's end.
2. `TokenPool` and `Runner` of the traffic generator: concurrent refresh of a
   single-use token, composed with the promise of `Sessions` (`OneSuccessor`); the
   bucket's rate after a burst, the semaphore and the drain.
3. Proofs: that a run of the pipeline, a handler of a bet and an evaluation come to
   their end, the way `RunsGoDown` says it of a scrape; the wallet's balance as the sum
   of its ledger, the way `BalanceIsExplained` says it of the bets.
