------------------------------ MODULE Rollup -------------------------------
(***************************************************************************)
(* Results, hourly aggregates and the alert rules that read them, with the *)
(* demo seeder at work beside the pipeline processes (scripts/demo.sh runs *)
(* it in the scheduler's container).                                       *)
(*                                                                         *)
(* A scraped post never gets a result: the run that finds one raises and   *)
(* aggregates nothing (Sentiment).  So the results are the seeder's, all   *)
(* relevant, labelled, of Reddit and of the first brand query, and the     *)
(* passes here are of runs with nothing to classify.  A scraped post is    *)
(* counted by has_data alone, so of all of them one bit is kept.  The      *)
(* seeder runs once at a time.  A ratio is in percent; the rules over      *)
(* derived labels are left out; recording and delivering an alert is one   *)
(* step here and several in Sentiment.                                     *)
(***************************************************************************)
EXTENDS Integers, FiniteSets, Sequences

CONSTANTS
  Pipelines,    \* processes that aggregate and evaluate
  DemoPosts,    \* DEMO_POSTS
  Negative,     \* those labelled negative
  Scopes,       \* the (brand, platform) pairs, in the order of the loops
  Covered,      \* the pairs the demo posts count for
  Draws,        \* the pairs of random counts of an hour the seeder invents
  Start, End,   \* the time modelled, in hours
  Day,          \* its length in hours
  Spread,       \* demo posts lie this many hours back at most
  SeedHours,    \* hours the seeder invents aggregates for
  RuleWindow, Week,      \* hours=2 and hours=24*7
  SpikePct, SpikeMin,    \* 40 percent of at least 3 posts
  CriticalPct, CriticalMin,  \* 65 percent of at least 5 posts
  Multiplier, MinRows,   \* of the mention rule: 3, 4
  MaxSeeds      \* bound: runs of the seeder

ScopeSet == {Scopes[i] : i \in DOMAIN Scopes}

ASSUME RollupAssumption ==
  /\ IsFiniteSet(DemoPosts) /\ Negative \subseteq DemoPosts
  /\ Scopes # <<>> /\ Scopes \in Seq(ScopeSet) /\ Covered \subseteq ScopeSet
  /\ \A i, j \in DOMAIN Scopes :  \* platforms + ["ALL"]
       Scopes[i].platform # "ALL" /\ Scopes[j] = [Scopes[i] EXCEPT !.platform = "ALL"]
         => i < j
  /\ \A p \in {"reddit", "ALL"} :
       [brand |-> Scopes[1].brand, platform |-> p] \in ScopeSet
  /\ \A d \in Draws : d.negative <= d.relevant
  /\ Draws \subseteq [relevant: Nat \ {0}, negative: Nat]
  /\ {Day, SeedHours, SpikeMin, CriticalMin} \subseteq Nat \ {0}
  /\ MinRows \in Nat /\ MinRows > 1
  /\ {Start, End, Spread, RuleWindow, Week, MaxSeeds, Multiplier} \subseteq Nat
  /\ Spread <= SeedHours /\ SeedHours <= Start /\ Start <= End

VARIABLES
  clock,
  results,      \* the sentiment_results rows
  scraped,      \* whether raw_posts has a row that a scrape stored
  aggregates,   \* the hourly_aggregates rows
  seed,         \* the seeder: where it is and its locals
  pc, at,       \* of each pipeline process: stage and position in Scopes
  row,          \* the aggregate it computed and has not stored yet
  list,         \* the aggregates it computed in this pass
  alert         \* what the rule it evaluated last has fired

seedVars == <<results, scraped, seed>>
runVars == <<pc, at, row, list, alert>>
vars == <<clock, results, scraped, aggregates, seed, runVars>>

Hours == (Start - SeedHours)..End
Rules == {"critical", "spike", "mention", "nodata"}
Stages == {"idle", "aggregate", "upsert", "sentiment", "mention", "nodata"}
None == [hour |-> -1]

Result == [run: 1..MaxSeeds, forced: BOOLEAN, post: DemoPosts, hour: Hours]
Aggregate == [scope: ScopeSet, hour: Hours, relevant: Nat, ratio: 0..100,
              by: {"pipeline", "seeder"}]
Quiet == "none"
Idle == [pc |-> "idle"]

TypeOK ==
  /\ clock \in Start..End
  /\ results \subseteq Result
  /\ scraped \in BOOLEAN
  /\ aggregates \subseteq Aggregate
  /\ \A a, b \in aggregates : a.scope = b.scope /\ a.hour = b.hour => a = b
  /\ seed.pc \in {"idle", "posts", "fill"}
  /\ pc \in [Pipelines -> Stages]
  /\ at \in [Pipelines -> DOMAIN Scopes]
  /\ \A w \in Pipelines : row[w] \in Aggregate \cup {None}
  /\ \A w \in Pipelines : list[w] \subseteq Aggregate
  /\ alert \in [Pipelines -> Rules \cup {Quiet}]

Init ==
  /\ clock = Start
  /\ results = {} /\ aggregates = {} /\ scraped = FALSE
  /\ seed = Idle
  /\ pc = [w \in Pipelines |-> "idle"]
  /\ at = [w \in Pipelines |-> 1]
  /\ row = [w \in Pipelines |-> None]
  /\ list = [w \in Pipelines |-> {}]
  /\ alert = [w \in Pipelines |-> Quiet]

Tick ==
  /\ clock < End
  /\ clock' = clock + 1
  /\ UNCHANGED <<seedVars, aggregates, runVars>>

\* A scrape of another process commits its first raw posts; no retention
\* deletes any within the hours modelled.
Scrape ==
  /\ ~scraped
  /\ scraped' = TRUE
  /\ UNCHANGED <<clock, results, aggregates, seed, runVars>>

Percent(part, whole) == IF whole = 0 THEN 0 ELSE (100 * part) \div whole
Row(scope, hour) == {a \in aggregates : a.scope = scope /\ a.hour = hour}

-----------------------------------------------------------------------------
\* The seeder.
Seeds == {r.run : r \in results}

\* Mutant of HasData: the first thing one would look at in a dashboard.
HasAggregates == aggregates # {}

\* Every demo post has its raw post and its result from one transaction.
HasData == scraped \/ results # {}

\* has_data is a transaction of its own, so a scrape may store posts between
\* it and the demo posts; --force skips it.
StartSeed ==
  /\ seed.pc = "idle"
  /\ Cardinality(Seeds) < MaxSeeds
  /\ \E force \in BOOLEAN :
       /\ force \/ ~HasData
       /\ seed' = [pc |-> "posts", forced |-> force, now |-> clock]
  /\ UNCHANGED <<clock, results, scraped, aggregates, runVars>>

\* One transaction: a scrape run, a classifier run and, for every demo post,
\* its raw, normalized and result rows.
SeedPosts ==
  /\ seed.pc = "posts"
  /\ \E back \in [DemoPosts -> 0..Spread] :
       results' = results \cup
         {[run |-> Cardinality(Seeds) + 1, forced |-> seed.forced,
           post |-> p, hour |-> seed.now - back[p]] : p \in DemoPosts}
  /\ \E d \in Draws :
       seed' = [pc |-> "fill", now |-> seed.now, draw |-> d,
                back |-> SeedHours - 1, platform |-> "reddit"]
  /\ UNCHANGED <<clock, scraped, aggregates, runVars>>

Halved(n) == IF n \div 2 > 1 THEN n \div 2 ELSE 1

\* The row the seeder invents: both platforms get the ratio of the draw.
Invented ==
  [scope |-> [brand |-> Scopes[1].brand, platform |-> seed.platform],
   hour |-> seed.now - seed.back,
   relevant |-> IF seed.platform = "ALL" THEN seed.draw.relevant
                                         ELSE Halved(seed.draw.relevant),
   ratio |-> Percent(seed.draw.negative, seed.draw.relevant),
   by |-> "seeder"]

\* Mutant of Insert: INSERT OR REPLACE.
InsertOrReplace(a) ==
  aggregates' = (aggregates \ Row(a.scope, a.hour)) \cup {a}

\* Mutant of Insert: the table has no key.
InsertBlindly(a) == aggregates' = aggregates \cup {a}

\* INSERT OR IGNORE on the key (hour, platform, brand).
Insert(a) ==
  aggregates' = IF Row(a.scope, a.hour) = {} THEN aggregates \cup {a}
                                             ELSE aggregates

\* _seed_hourly_aggregates, a transaction per row, oldest hour first.
SeedAggregate ==
  /\ seed.pc = "fill"
  /\ Insert(Invented)
  /\ IF seed.platform = "reddit"
       THEN seed' = [seed EXCEPT !.platform = "ALL"]
       ELSE IF seed.back = 0
         THEN seed' = Idle
         ELSE \E d \in Draws :
                seed' = [seed EXCEPT !.platform = "reddit", !.draw = d,
                                     !.back = @ - 1]
  /\ UNCHANGED <<clock, results, scraped, runVars>>

SeedFails ==
  /\ seed.pc # "idle"
  /\ seed' = Idle
  /\ UNCHANGED <<clock, results, scraped, aggregates, runVars>>

-----------------------------------------------------------------------------
\* run_aggregation: a transaction that reads and one that stores, per scope.
\* Mutant of InHour: the hour has no end.
Since(r, hour) == r.hour >= hour

InHour(r, hour) == r.hour = hour

Counted(scope, hour) ==
  IF scope \in Covered THEN {r \in results : InHour(r, hour)} ELSE {}

\* aggregate_hour: None when there is no result.
Summary(scope, hour) ==
  LET relevant == Counted(scope, hour)
      negative == {r \in relevant : r.post \in Negative}
  IN [scope |-> scope, hour |-> hour, relevant |-> Cardinality(relevant),
      ratio |-> Percent(Cardinality(negative), Cardinality(relevant)),
      by |-> "pipeline"]

StartPass(w) ==
  /\ pc[w] = "idle"
  /\ pc' = [pc EXCEPT ![w] = "aggregate"]
  /\ UNCHANGED <<clock, seedVars, aggregates, at, row, list, alert>>

\* On to the next scope, or to the next stage after the last one.
Advance(w, next, after) ==
  IF at[w] < Len(Scopes)
    THEN at' = [at EXCEPT ![w] = @ + 1] /\ pc' = [pc EXCEPT ![w] = next]
    ELSE at' = [at EXCEPT ![w] = 1] /\ pc' = [pc EXCEPT ![w] = after]

\* Mutant of Compute: the platforms together are read before each of them.
ComputeBackwards(w) ==
  LET scope == Scopes[Len(Scopes) + 1 - at[w]]  hour == clock - 1 IN
  /\ pc[w] = "aggregate"
  /\ IF Counted(scope, hour) = {}
       THEN /\ Advance(w, "aggregate", "sentiment")
            /\ UNCHANGED <<row, list>>
       ELSE /\ row' = [row EXCEPT ![w] = Summary(scope, hour)]
            /\ list' = [list EXCEPT ![w] = @ \cup {row'[w]}]
            /\ pc' = [pc EXCEPT ![w] = "upsert"]
            /\ UNCHANGED at
  /\ UNCHANGED <<clock, seedVars, aggregates, alert>>

\* The previous hour is read off the clock for every scope anew.
Compute(w) ==
  LET scope == Scopes[at[w]]  hour == clock - 1 IN
  /\ pc[w] = "aggregate"
  /\ IF Counted(scope, hour) = {}
       THEN /\ Advance(w, "aggregate", "sentiment")
            /\ UNCHANGED <<row, list>>
       ELSE /\ row' = [row EXCEPT ![w] = Summary(scope, hour)]
            /\ list' = [list EXCEPT ![w] = @ \cup {row'[w]}]
            /\ pc' = [pc EXCEPT ![w] = "upsert"]
            /\ UNCHANGED at
  /\ UNCHANGED <<clock, seedVars, aggregates, alert>>

\* ON CONFLICT DO UPDATE.
Upsert(w) ==
  /\ pc[w] = "upsert"
  /\ aggregates' = (aggregates \ Row(row[w].scope, row[w].hour)) \cup {row[w]}
  /\ row' = [row EXCEPT ![w] = None]
  /\ Advance(w, "aggregate", "sentiment")
  /\ UNCHANGED <<clock, seedVars, list, alert>>

-----------------------------------------------------------------------------
\* The rules.  An hour bucket has a "T" where the bound has a blank, so on
\* the bound's own day every bucket is in the window.
DayOf(hour) == hour \div Day
Window(scope, hours) ==
  {a \in aggregates : a.scope = scope /\ DayOf(a.hour) >= DayOf(clock - hours)}
LastOf(rows) == CHOOSE a \in rows : \A b \in rows : b.hour <= a.hour

\* _fire.
Fire(w, rule) == alert' = [alert EXCEPT ![w] = rule]

Sentiment(w) ==
  LET rows == Window(Scopes[at[w]], RuleWindow)
      last == LastOf(rows)
      IsCritical == last.ratio >= CriticalPct /\ last.relevant >= CriticalMin
      IsSpike == last.ratio >= SpikePct /\ last.relevant >= SpikeMin
  IN
  /\ pc[w] = "sentiment"
  /\ Fire(w, CASE rows # {} /\ IsCritical -> "critical"
               [] rows # {} /\ ~IsCritical /\ IsSpike -> "spike"
               [] OTHER -> Quiet)
  /\ pc' = [pc EXCEPT ![w] = "mention"]
  /\ UNCHANGED <<clock, seedVars, aggregates, at, row, list>>

\* Mutant of Median: one place too low.
MedianBelow(rows) ==
  LET Rank(m) == Cardinality({a \in rows : a.relevant <= m})
      k == Cardinality(rows) \div 2 - 1
  IN CHOOSE m \in {a.relevant : a \in rows} :
       /\ Rank(m) > k
       /\ Cardinality({a \in rows : a.relevant < m}) <= k

\* sorted(counts)[len(counts) // 2]
Median(rows) ==
  LET Rank(m) == Cardinality({a \in rows : a.relevant <= m})
      k == Cardinality(rows) \div 2
  IN CHOOSE m \in {a.relevant : a \in rows} :
       /\ Rank(m) > k
       /\ Cardinality({a \in rows : a.relevant < m}) <= k

Mention(w) ==
  LET rows == Window(Scopes[at[w]], Week)
      last == LastOf(rows)
      baseline == Median(rows \ {last})
      IsHigh == baseline > 0 /\ last.relevant >= Multiplier * baseline
  IN
  /\ pc[w] = "mention"
  /\ Fire(w, IF Cardinality(rows) >= MinRows /\ IsHigh THEN "mention" ELSE Quiet)
  /\ pc' = [pc EXCEPT ![w] = "nodata"]
  /\ UNCHANGED <<clock, seedVars, aggregates, at, row, list>>

\* The pass is over: its list is returned and dropped.
EndPass(w) ==
  /\ row' = [row EXCEPT ![w] = None]
  /\ list' = [list EXCEPT ![w] = {}]

NoData(w) ==
  /\ pc[w] = "nodata"
  /\ Fire(w, IF Window(Scopes[at[w]], RuleWindow) = {} THEN "nodata" ELSE Quiet)
  /\ Advance(w, "sentiment", "idle")
  /\ IF at[w] = Len(Scopes) THEN EndPass(w) ELSE UNCHANGED <<row, list>>
  /\ UNCHANGED <<clock, seedVars, aggregates>>

\* An exception, or the end of the process.
PassFails(w) ==
  /\ pc[w] # "idle"
  /\ pc' = [pc EXCEPT ![w] = "idle"]
  /\ at' = [at EXCEPT ![w] = 1]
  /\ EndPass(w)
  /\ Fire(w, Quiet)
  /\ UNCHANGED <<clock, seedVars, aggregates>>

Seeder == StartSeed \/ SeedPosts \/ SeedAggregate \/ SeedFails

Pass(w) ==
  \/ StartPass(w) \/ Compute(w) \/ Upsert(w)
  \/ Sentiment(w) \/ Mention(w) \/ NoData(w) \/ PassFails(w)

Next == Tick \/ Scrape \/ Seeder \/ \E w \in Pipelines : Pass(w)

Spec == Init /\ [][Next]_vars

-----------------------------------------------------------------------------
\* An aggregate the pipeline stored never claims more posts than the results
\* of its hour hold, although it is stored after the transaction that
\* counted, over whatever another process stored meanwhile.
NeverOverstates ==
  \A a \in aggregates : a.by = "pipeline" =>
    a.relevant <= Cardinality({r \in results : r.hour = a.hour})

\* Within a pass "ALL" counts at least what Reddit alone counts for the same
\* hour, although the two are read in different transactions while posts are
\* being seeded: the loop reads the platforms before it reads them together.
ScopesAgree ==
  \A w \in Pipelines : \A a, b \in list[w] :
    a.scope.platform # "ALL" /\ b.scope = [a.scope EXCEPT !.platform = "ALL"]
      /\ a.hour = b.hour
    => a.relevant <= b.relevant

\* However often the seeder is run and wherever it stopped before, without
\* --force it never adds the demo posts to a database that has demo posts,
\* whether or not a scrape stored posts meanwhile.  That it "skips if data
\* already exists" (README) is more, and not so: posts scraped between
\* has_data and the insert are not seen.
SeededOnce ==
  \A r, s \in results : ~r.forced => r.run <= s.run

\* Seeding beside a running pipeline never replaces an aggregate that was
\* computed from posts by an invented one.
ComputedStays ==
  [][\A a \in aggregates : a.by = "pipeline" =>
       \E b \in aggregates' :
         b.scope = a.scope /\ b.hour = a.hour /\ b.by = "pipeline"]_vars

\* The mention rule fires when, and only when, the last hour towers over the
\* typical hour: enough hours have a row; of the others fewer than half have
\* more than a Multiplier-th of its mentions, and no more than half have
\* none.  At exactly Multiplier times the code fires (>=), although its
\* comments and the README say "more than".
SpikeIsUnusual ==
  [][\A w \in Pipelines : pc[w] = "mention" /\ pc'[w] = "nodata" =>
       LET rows == Window(Scopes[at[w]], Week)
           last == LastOf(rows)
           others == rows \ {last}
           above == {a \in others : Multiplier * a.relevant > last.relevant}
           silent == {a \in others : a.relevant = 0}
       IN alert'[w] = "mention" <=>
            /\ Cardinality(rows) >= MinRows
            /\ 2 * Cardinality(above) < Cardinality(others)
            /\ 2 * Cardinality(silent) <= Cardinality(others)]_vars
=============================================================================
