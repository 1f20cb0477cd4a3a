---------------------------- MODULE RollupProofs ----------------------------
(***************************************************************************)
(* The seeder and the aggregation, proved for every number of pipeline     *)
(* processes, posts, scopes and hours.                                     *)
(*                                                                         *)
(* An unforced seeding is under way only while there are no demo posts:    *)
(* has_data looked, and nothing but a seeding adds any; a scrape may store *)
(* posts of its own meanwhile.  Results are never taken away, so a count   *)
(* made in one transaction is still covered when it is stored by another.  *)
(***************************************************************************)
EXTENDS Rollup, FiniteSetTheorems, TLAPS

Seeding ==
  {Idle} \cup [pc: {"posts"}, forced: BOOLEAN, now: Start..End]
  \cup [pc: {"fill"}, now: Start..End, draw: Draws, back: 0..SeedHours - 1,
        platform: {"reddit", "ALL"}]

\* No two rows of the same scope and hour: the table's key.
KeyHolds ==
  \A a, b \in aggregates : a.scope = b.scope /\ a.hour = b.hour => a = b

Typed ==
  /\ clock \in Start..End
  /\ results \subseteq Result /\ IsFiniteSet(results)
  /\ scraped \in BOOLEAN
  /\ aggregates \subseteq Aggregate
  /\ seed \in Seeding
  /\ pc \in [Pipelines -> Stages]
  /\ at \in [Pipelines -> DOMAIN Scopes]
  /\ row \in [Pipelines -> Aggregate \cup {None}]
  /\ list \in [Pipelines -> SUBSET Aggregate]
  /\ alert \in [Pipelines -> Rules \cup {Quiet}]

\* The room the seeder found is there until it uses it.
RoomLeft == seed.pc = "posts" => Cardinality(Seeds) < MaxSeeds

\* An unforced seeding is under way on a database without demo posts only.
EmptyBefore == seed.pc = "posts" /\ ~seed.forced => results = {}

FirstRun == \A r \in results : ~r.forced => r.run = 1

\* What a process is about to store is its own work.
OwnRow ==
  \A w \in Pipelines :
    pc[w] = "upsert" => row[w] \in Aggregate /\ row[w].by = "pipeline"

Supported(a) ==
  a.by = "pipeline" =>
    a.relevant <= Cardinality({r \in results : r.hour = a.hour})

RowsSupported ==
  \A w \in Pipelines : row[w] \in Aggregate => Supported(row[w])

IInv ==
  /\ Typed
  /\ KeyHolds
  /\ RoomLeft
  /\ EmptyBefore
  /\ FirstRun
  /\ OwnRow
  /\ RowsSupported
  /\ NeverOverstates
-----------------------------------------------------------------------------
LEMMA Numbers ==
  /\ Start \in Nat /\ End \in Nat /\ SeedHours \in Nat \ {0}
  /\ Spread \in Nat /\ MaxSeeds \in Nat
  /\ Spread <= SeedHours /\ SeedHours <= Start /\ Start <= End
BY RollupAssumption

LEMMA ScopeFacts ==
  /\ \A i \in DOMAIN Scopes : Scopes[i] \in ScopeSet
  /\ 1 \in DOMAIN Scopes
  /\ \A i \in DOMAIN Scopes : i < Len(Scopes) => i + 1 \in DOMAIN Scopes
<1>1. Scopes \in Seq(ScopeSet) /\ Scopes # <<>>
  BY RollupAssumption
<1>2. DOMAIN Scopes = 1..Len(Scopes) /\ Len(Scopes) \in Nat \ {0}
  BY <1>1
<1>3. \A i \in DOMAIN Scopes : Scopes[i] \in ScopeSet
  BY DEF ScopeSet
<1> QED
  BY <1>2, <1>3

LEMMA PercentType ==
  ASSUME NEW part \in Nat, NEW whole \in Nat, part <= whole
  PROVE  Percent(part, whole) \in 0..100
<1>1. CASE whole = 0
  BY <1>1 DEF Percent
<1>2. CASE whole > 0
  <2> DEFINE q == (100 * part) \div whole
  <2>1. q \in Int /\ whole * q <= 100 * part /\ 100 * part < whole * (q + 1)
    BY <1>2
  <2>2. q <= 100
    BY <1>2, <2>1
  <2>3. q >= 0
    BY <1>2, <2>1
  <2> QED
    BY <1>2, <2>1, <2>2, <2>3 DEF Percent
<1> QED
  BY <1>1, <1>2

\* A count of results is a natural number, and never falls as they grow.
LEMMA CountFacts ==
  ASSUME NEW S, NEW T, IsFiniteSet(T), S \subseteq T
  PROVE  /\ IsFiniteSet(S)
         /\ Cardinality(S) \in Nat
         /\ Cardinality(S) <= Cardinality(T)
BY FS_Subset, FS_CardinalityType

LEMMA SummaryFacts ==
  ASSUME Typed, NEW i \in DOMAIN Scopes
  PROVE  LET a == Summary(Scopes[i], clock - 1) IN
         /\ a \in Aggregate
         /\ a.by = "pipeline" /\ Supported(a)
<1> DEFINE hour == clock - 1
           counted == Counted(Scopes[i], hour)
           negative == {r \in counted : r.post \in Negative}
           known == {r \in results : r.hour = hour}
<1>1. IsFiniteSet(known)
  BY CountFacts DEF Typed
<1>2. counted \subseteq known
  BY DEF Counted, InHour
<1>3. IsFiniteSet(counted) /\ Cardinality(counted) \in Nat
        /\ Cardinality(counted) <= Cardinality(known)
  BY <1>1, <1>2, CountFacts
<1>4. Cardinality(negative) \in Nat /\ Cardinality(negative) <= Cardinality(counted)
  BY <1>3, CountFacts
<1>5. Percent(Cardinality(negative), Cardinality(counted)) \in 0..100
  BY <1>3, <1>4, PercentType
<1>6. hour \in Hours
  BY Numbers DEF Typed, Hours
<1>7. Scopes[i] \in ScopeSet
  BY ScopeFacts
<1> HIDE DEF hour, counted, negative, known
<1>8. Summary(Scopes[i], hour) =
        [scope |-> Scopes[i], hour |-> hour, relevant |-> Cardinality(counted),
         ratio |-> Percent(Cardinality(negative), Cardinality(counted)),
         by |-> "pipeline"]
  BY DEF Summary, counted, negative
<1>9. Summary(Scopes[i], hour) \in Aggregate
  BY <1>3, <1>5, <1>6, <1>7, <1>8 DEF Aggregate
<1>10. Supported(Summary(Scopes[i], hour))
  BY <1>3, <1>8 DEF Supported, known
<1> QED
  BY <1>8, <1>9, <1>10 DEF hour

LEMMA InventedType ==
  ASSUME Typed, seed.pc = "fill"
  PROVE  Invented \in Aggregate /\ Invented.by = "seeder"
<1>1. seed \in [pc: {"fill"}, now: Start..End, draw: Draws,
                back: 0..SeedHours - 1, platform: {"reddit", "ALL"}]
  BY DEF Typed, Seeding, Idle
<1>2. seed.draw.relevant \in Nat /\ seed.draw.negative \in Nat
        /\ seed.draw.negative <= seed.draw.relevant
  BY <1>1, RollupAssumption
<1>3. Percent(seed.draw.negative, seed.draw.relevant) \in 0..100
  BY <1>2, PercentType
<1>4. Halved(seed.draw.relevant) \in Nat
  BY <1>2 DEF Halved
<1>5. seed.now - seed.back \in Hours
  BY <1>1, Numbers DEF Hours
<1>6. [brand |-> Scopes[1].brand, platform |-> seed.platform] \in ScopeSet
  BY <1>1, RollupAssumption
<1> QED
  BY <1>2, <1>3, <1>4, <1>5, <1>6 DEF Invented, Aggregate

-----------------------------------------------------------------------------
LEMMA InitInv == Init => IInv
<1> SUFFICES ASSUME Init PROVE IInv
  OBVIOUS
<1> USE DEF Init
<1>1. Typed
  <2>1. clock \in Start..End /\ results = {} /\ IsFiniteSet(results)
    BY Numbers, FS_EmptySet
  <2>2. seed \in Seeding /\ scraped \in BOOLEAN
    BY DEF Seeding
  <2>3. pc \in [Pipelines -> Stages] /\ at \in [Pipelines -> DOMAIN Scopes]
    BY ScopeFacts DEF Stages
  <2> QED
    BY <2>1, <2>2, <2>3 DEF Typed
<1> QED
  BY <1>1 DEF IInv, KeyHolds, RoomLeft, EmptyBefore, FirstRun, OwnRow, Idle,
       RowsSupported, NeverOverstates, Aggregate, None
-----------------------------------------------------------------------------
\* Nothing takes a result away: what was counted stays covered.
LEMMA GrowthSupports ==
  ASSUME Typed, IsFiniteSet(results'), results \subseteq results',
         NEW a \in Aggregate, Supported(a)
  PROVE  Supported(a)'
<1> DEFINE before == {r \in results : r.hour = a.hour}
           after == {r \in results' : r.hour = a.hour}
<1>1. before \subseteq after /\ after \subseteq results' /\ before \subseteq results
  OBVIOUS
<1>2. Cardinality(before) <= Cardinality(after)
        /\ Cardinality(before) \in Nat /\ Cardinality(after) \in Nat
  BY <1>1, CountFacts
<1> QED
  BY <1>2 DEF Supported, Aggregate

-----------------------------------------------------------------------------
\* The seeder's transactions.  The ones that leave the results alone:
LEMMA SeederType ==
  ASSUME IInv, StartSeed \/ SeedAggregate \/ SeedFails
  PROVE  Typed' /\ KeyHolds' /\ RoomLeft' /\ EmptyBefore'
<1> USE DEF IInv
<1>1. CASE StartSeed
  <2>1. PICK force \in BOOLEAN :
          /\ force \/ ~HasData
          /\ seed' = [pc |-> "posts", forced |-> force, now |-> clock]
    BY <1>1 DEF StartSeed
  <2>2. seed' \in Seeding
    BY <2>1 DEF Seeding, Typed
  <2> QED
    BY <1>1, <2>1, <2>2 DEF StartSeed, Typed, KeyHolds, RoomLeft, EmptyBefore,
         HasData, runVars, Seeds
<1>2. CASE SeedAggregate
  <2>1. seed \in [pc: {"fill"}, now: Start..End, draw: Draws,
                  back: 0..SeedHours - 1, platform: {"reddit", "ALL"}]
    <3>1. seed.pc = "fill" /\ seed \in Seeding
      BY <1>2 DEF SeedAggregate, Typed
    <3> QED
      BY <3>1 DEF Seeding, Idle
  <2>2. seed' \in Seeding /\ seed'.pc # "posts"
    <3>1. CASE seed.platform = "reddit"
      BY <1>2, <2>1, <3>1 DEF SeedAggregate, Seeding
    <3>2. CASE seed.platform # "reddit" /\ seed.back = 0
      BY <1>2, <3>2 DEF SeedAggregate, Seeding, Idle
    <3>3. CASE seed.platform # "reddit" /\ seed.back # 0
      <4>1. PICK d \in Draws :
              seed' = [seed EXCEPT !.platform = "reddit", !.draw = d,
                                   !.back = @ - 1]
        BY <1>2, <3>3 DEF SeedAggregate
      <4>2. seed.back - 1 \in 0..SeedHours - 1
        BY <2>1, <3>3, Numbers
      <4> QED
        BY <2>1, <4>1, <4>2 DEF Seeding
    <3> QED
      BY <3>1, <3>2, <3>3
  <2>3. Invented \in Aggregate /\ Invented.by = "seeder"
    BY <1>2, InventedType DEF SeedAggregate
  <2>4. aggregates' \subseteq Aggregate /\ KeyHolds'
    BY <1>2, <2>3 DEF SeedAggregate, Insert, Row, KeyHolds, Typed
  <2> QED
    BY <1>2, <2>2, <2>4 DEF SeedAggregate, Typed, RoomLeft, EmptyBefore, runVars
<1>3. CASE SeedFails
  BY <1>3 DEF SeedFails, Typed, Seeding, KeyHolds, RoomLeft, EmptyBefore, Idle,
       runVars
<1> QED
  BY <1>1, <1>2, <1>3

\* And the one that adds to them.
LEMMA PostsFacts ==
  ASSUME IInv, SeedPosts
  PROVE  /\ Typed' /\ KeyHolds' /\ RoomLeft' /\ EmptyBefore' /\ FirstRun'
         /\ results \subseteq results'
<1> USE DEF IInv
<1> DEFINE run == Cardinality(Seeds) + 1
<1>1. PICK back \in [DemoPosts -> 0..Spread] :
        results' = results \cup
          {[run |-> run, forced |-> seed.forced, post |-> p,
            hour |-> seed.now - back[p]] : p \in DemoPosts}
  BY DEF SeedPosts
<1>2. seed \in [pc: {"posts"}, forced: BOOLEAN, now: Start..End]
  BY DEF SeedPosts, Typed, Seeding, Idle
<1>3. Cardinality(Seeds) \in Nat /\ IsFiniteSet(Seeds)
  <2>1. IsFiniteSet(Seeds)
    <3>1. Seeds \subseteq 1..MaxSeeds
      BY DEF Seeds, Typed, Result
    <3>2. IsFiniteSet(1..MaxSeeds)
      BY Numbers, FS_Interval
    <3> QED
      BY <3>1, <3>2, FS_Subset
  <2> QED
    BY <2>1, FS_CardinalityType
<1>4. run \in 1..MaxSeeds
  BY <1>2, <1>3, Numbers DEF RoomLeft
<1> HIDE DEF run
<1>5. \A p \in DemoPosts : seed.now - back[p] \in Hours
  <2> TAKE p \in DemoPosts
  <2>1. back[p] \in 0..Spread
    OBVIOUS
  <2> QED
    BY <1>2, <2>1, Numbers DEF Hours
<1>6. results' \subseteq Result
  BY <1>1, <1>2, <1>4, <1>5 DEF Result, Typed
<1> DEFINE New(p) == [run |-> run, forced |-> seed.forced, post |-> p,
                      hour |-> seed.now - back[p]]
           added == {New(p) : p \in DemoPosts}
<1>7. IsFiniteSet(results')
  <2>1. IsFiniteSet(added)
    <3> DEFINE f == [p \in DemoPosts |-> New(p)]
    <3>1. f \in Surjection(DemoPosts, added)
      BY DEF Surjection
    <3> QED
      BY <3>1, FS_Surjection, RollupAssumption
  <2> QED
    BY <1>1, <2>1, FS_Union DEF Typed
<1>8. seed' \in Seeding /\ seed'.pc = "fill"
  <2>1. PICK d \in Draws :
          seed' = [pc |-> "fill", now |-> seed.now, draw |-> d,
                   back |-> SeedHours - 1, platform |-> "reddit"]
    BY DEF SeedPosts
  <2>2. SeedHours - 1 \in 0..SeedHours - 1
    BY Numbers
  <2> QED
    BY <1>2, <2>1, <2>2 DEF Seeding
<1>9. FirstRun'
  <2>1. CASE seed.forced
    BY <1>1, <2>1 DEF FirstRun
  <2>2. CASE ~seed.forced
    <3>1. results = {}
      BY <1>2, <2>2 DEF EmptyBefore
    <3>2. Seeds = {}
      BY <3>1 DEF Seeds
    <3>3. run = 1
      BY <3>2, FS_EmptySet DEF run
    <3> QED
      BY <1>1, <3>1, <3>3 DEF FirstRun
  <2> QED
    BY <2>1, <2>2
<1> QED
  BY <1>1, <1>6, <1>7, <1>8, <1>9 DEF SeedPosts, Typed, KeyHolds, RoomLeft,
       EmptyBefore, runVars

\* The seeder never touches what a process is about to store, and adds no
\* row that claims to be computed.
LEMMA SeederInv ==
  ASSUME IInv, Seeder
  PROVE  IInv'
<1> USE DEF IInv
<1>1. /\ Typed' /\ KeyHolds' /\ RoomLeft' /\ EmptyBefore' /\ FirstRun'
      /\ results \subseteq results'
  <2>1. CASE SeedPosts
    BY <2>1, PostsFacts
  <2>2. CASE StartSeed \/ SeedAggregate \/ SeedFails
    BY <2>2, SeederType DEF StartSeed, SeedAggregate, SeedFails, FirstRun
  <2> QED
    BY <2>1, <2>2 DEF Seeder
<1>2. UNCHANGED runVars
  BY DEF Seeder, StartSeed, SeedPosts, SeedAggregate, SeedFails
<1>3. \A a \in aggregates' : a \in aggregates \/ a.by = "seeder"
  BY InventedType DEF Seeder, StartSeed, SeedPosts, SeedAggregate, SeedFails, Insert
<1>4. \A a \in Aggregate : Supported(a) => Supported(a)'
  BY <1>1, GrowthSupports DEF Typed
<1>5. \A a \in aggregates : Supported(a)
  BY DEF NeverOverstates, Supported
<1>6. NeverOverstates'
  <2> SUFFICES ASSUME NEW a \in aggregates', a.by = "pipeline"
               PROVE  a.relevant <= Cardinality({r \in results' : r.hour = a.hour})
    BY DEF NeverOverstates
  <2>1. a \in aggregates /\ a \in Aggregate
    BY <1>3 DEF Typed
  <2>2. Supported(a)'
    BY <1>4, <1>5, <2>1
  <2> QED
    BY <2>2 DEF Supported
<1>7. OwnRow' /\ RowsSupported'
  BY <1>2, <1>4 DEF runVars, OwnRow, RowsSupported, Typed
<1> QED
  BY <1>1, <1>6, <1>7

-----------------------------------------------------------------------------
\* The position in the loops over the scopes.
LEMMA AdvanceFacts ==
  ASSUME Typed, NEW w \in Pipelines, NEW next \in Stages, NEW after \in Stages,
         Advance(w, next, after)
  PROVE  /\ at' \in [Pipelines -> DOMAIN Scopes]
         /\ pc' \in [Pipelines -> Stages]
         /\ pc'[w] \in {next, after}
         /\ \A x \in Pipelines : x # w => pc'[x] = pc[x]
<1>1. CASE at[w] < Len(Scopes)
  <2>1. at[w] + 1 \in DOMAIN Scopes
    BY <1>1, ScopeFacts DEF Typed
  <2> QED
    BY <1>1, <2>1 DEF Advance, Typed
<1>2. CASE ~(at[w] < Len(Scopes))
  BY <1>2, ScopeFacts DEF Advance, Typed
<1> QED
  BY <1>1, <1>2

\* A pass and the clock leave the results alone.
LEMMA QuietSteps ==
  ASSUME IInv, UNCHANGED seedVars
  PROVE  /\ results' \subseteq Result /\ IsFiniteSet(results') /\ seed' \in Seeding
         /\ scraped' \in BOOLEAN
         /\ RoomLeft' /\ EmptyBefore' /\ FirstRun'
         /\ \A a : Supported(a) <=> Supported(a)'
BY DEF IInv, Typed, seedVars, RoomLeft, EmptyBefore, FirstRun, Supported, Seeds

LEMMA ComputeInv ==
  ASSUME IInv, NEW w \in Pipelines, Compute(w)
  PROVE  IInv'
<1> USE DEF IInv
<1> DEFINE a == Summary(Scopes[at[w]], clock - 1)
<1>1. a \in Aggregate /\ a.by = "pipeline" /\ Supported(a)
  BY SummaryFacts DEF Typed
<1> HIDE DEF a
<1>2. CASE /\ row' = [row EXCEPT ![w] = a]
           /\ list' = [list EXCEPT ![w] = @ \cup {row'[w]}]
           /\ pc' = [pc EXCEPT ![w] = "upsert"]
           /\ UNCHANGED at
  <2>1. row' \in [Pipelines -> Aggregate \cup {None}] /\ row'[w] = a
    BY <1>1, <1>2 DEF Typed
  <2>2. list' \in [Pipelines -> SUBSET Aggregate]
    BY <1>1, <1>2, <2>1 DEF Typed
  <2>3. Typed'
    BY <1>2, <2>1, <2>2, QuietSteps DEF Compute, Typed, Stages
  <2>4. OwnRow' /\ RowsSupported'
    BY <1>1, <1>2, QuietSteps DEF Compute, Typed, OwnRow, RowsSupported
  <2> QED
    BY <2>3, <2>4, QuietSteps DEF Compute, KeyHolds, NeverOverstates, seedVars
<1>3. CASE Advance(w, "aggregate", "sentiment") /\ UNCHANGED <<row, list>>
  <2>1. Typed'
    BY <1>3, AdvanceFacts, QuietSteps DEF Compute, Typed, Stages
  <2>2. OwnRow' /\ RowsSupported'
    BY <1>3, AdvanceFacts, QuietSteps DEF Compute, OwnRow, RowsSupported, Stages
  <2> QED
    BY <2>1, <2>2, QuietSteps DEF Compute, KeyHolds, NeverOverstates, seedVars
<1> QED
  BY <1>2, <1>3 DEF Compute, a

LEMMA UpsertInv ==
  ASSUME IInv, NEW w \in Pipelines, Upsert(w)
  PROVE  IInv'
<1> USE DEF IInv
<1>1. row[w] \in Aggregate /\ row[w].by = "pipeline" /\ Supported(row[w])
  BY DEF Upsert, OwnRow, RowsSupported
<1>2. aggregates' \subseteq Aggregate /\ KeyHolds'
  BY <1>1 DEF Upsert, Row, KeyHolds, Typed
<1>3. row' \in [Pipelines -> Aggregate \cup {None}]
  BY DEF Upsert, Typed
<1>4. None \notin Aggregate
  BY DEF None, Aggregate
<1>5. Typed'
  BY <1>2, <1>3, AdvanceFacts, QuietSteps DEF Upsert, Typed, Stages
<1>6. OwnRow' /\ RowsSupported'
  BY <1>4, AdvanceFacts, QuietSteps
  DEF Upsert, OwnRow, RowsSupported, Typed, Stages
<1>7. NeverOverstates'
  BY <1>1, QuietSteps DEF Upsert, NeverOverstates, Supported, seedVars
<1> QED
  BY <1>2, <1>5, <1>6, <1>7, QuietSteps DEF Upsert

\* The other steps of a pass store nothing and compute nothing.
LEMMA PassInv ==
  ASSUME IInv, NEW w \in Pipelines, Pass(w)
  PROVE  IInv'
<1> USE DEF IInv
<1>1. CASE StartPass(w) \/ Sentiment(w) \/ Mention(w) \/ NoData(w) \/ PassFails(w)
  <2>1. UNCHANGED <<seedVars, aggregates, clock>>
    BY <1>1 DEF StartPass, Sentiment, Mention, NoData, PassFails
  <2>2. /\ pc' \in [Pipelines -> Stages]
        /\ \A x \in Pipelines : pc'[x] = "upsert" => x # w /\ pc[x] = "upsert"
        /\ at' \in [Pipelines -> DOMAIN Scopes]
    <3>1. CASE NoData(w)
      BY <3>1, AdvanceFacts DEF NoData, Stages
    <3>2. CASE StartPass(w) \/ Sentiment(w) \/ Mention(w) \/ PassFails(w)
      BY <3>2, ScopeFacts DEF StartPass, Sentiment, Mention, PassFails, Typed, Stages
    <3> QED
      BY <1>1, <3>1, <3>2
  <2>3. \/ UNCHANGED <<row, list>>
        \/ EndPass(w)
    BY <1>1 DEF StartPass, Sentiment, Mention, NoData, PassFails
  <2>4. /\ row' \in [Pipelines -> Aggregate \cup {None}]
        /\ list' \in [Pipelines -> SUBSET Aggregate]
        /\ \A x \in Pipelines : row'[x] = None \/ row'[x] = row[x]
        /\ \A x \in Pipelines : x # w => row'[x] = row[x]
    BY <2>3 DEF EndPass, Typed
  <2>5. alert' \in [Pipelines -> Rules \cup {Quiet}]
    <3>1. \A rule : Fire(w, rule) /\ rule \in Rules \cup {Quiet}
                      => alert' \in [Pipelines -> Rules \cup {Quiet}]
      BY DEF Fire, Typed
    <3>2. CASE StartPass(w)
      BY <3>2 DEF StartPass, Typed
    <3>3. CASE Sentiment(w)
      <4>1. \E rule \in {"critical", "spike", Quiet} : Fire(w, rule)
        BY <3>3 DEF Sentiment
      <4> QED
        BY <3>1, <4>1 DEF Rules
    <3>4. CASE Mention(w)
      <4>1. \E rule \in {"mention", Quiet} : Fire(w, rule)
        BY <3>4 DEF Mention
      <4> QED
        BY <3>1, <4>1 DEF Rules
    <3>5. CASE NoData(w) \/ PassFails(w)
      <4>1. \E rule \in {"nodata", Quiet} : Fire(w, rule)
        BY <3>5 DEF NoData, PassFails
      <4> QED
        BY <3>1, <4>1 DEF Rules
    <3> QED
      BY <1>1, <3>2, <3>3, <3>4, <3>5
  <2>6. Typed'
    BY <2>1, <2>2, <2>4, <2>5, QuietSteps DEF Typed
  <2>7. OwnRow' /\ RowsSupported'
    <3>1. None \notin Aggregate
      BY DEF None, Aggregate
    <3> QED
      BY <2>1, <2>2, <2>4, <3>1, QuietSteps DEF OwnRow, RowsSupported
  <2> QED
    BY <2>1, <2>6, <2>7, QuietSteps DEF KeyHolds, NeverOverstates, seedVars
<1> QED
  BY <1>1, ComputeInv, UpsertInv DEF Pass

LEMMA Inductive == IInv /\ [Next]_vars => IInv'
<1> SUFFICES ASSUME IInv, [Next]_vars PROVE IInv'
  OBVIOUS
<1> USE DEF IInv
<1>1. CASE Tick \/ UNCHANGED vars
  <2>1. clock' \in Start..End
    BY <1>1, Numbers DEF Tick, vars, Typed
  <2>2. UNCHANGED <<seedVars, aggregates, runVars>>
    BY <1>1 DEF Tick, vars, seedVars, runVars
  <2> QED
    BY <2>1, <2>2, QuietSteps DEF Typed, KeyHolds, OwnRow, RowsSupported,
         NeverOverstates, runVars, seedVars
<1>2. CASE Scrape
  BY <1>2 DEF Scrape, Typed, KeyHolds, RoomLeft, Seeds, EmptyBefore, FirstRun,
       OwnRow, RowsSupported, Supported, NeverOverstates, runVars
<1> QED
  BY <1>1, <1>2, SeederInv, PassInv DEF Next

LEMMA Inductively == Spec => []IInv
BY InitInv, Inductive, PTL DEF Spec

-----------------------------------------------------------------------------
\* The stored and the computed aggregates are well formed and no hour has
\* two rows of one scope (the UNIQUE key of hourly_aggregates).
THEOREM TypeCorrect == Spec => []TypeOK
<1>1. IInv => TypeOK
  BY DEF IInv, TypeOK, Typed, KeyHolds, Seeding, Idle
<1> QED
  BY <1>1, Inductively, PTL

\* What the pipeline stored is covered by the results of its hour, however
\* its two transactions interleave with the seeder's and with other passes.
THEOREM NeverOverstatesCorrect == Spec => []NeverOverstates
BY Inductively, PTL DEF IInv

\* Without --force the demo posts are added to a database without demo posts
\* only: has_data is a transaction of its own, but of all that may happen
\* before the insert nothing adds demo posts.  A scrape may add others.
THEOREM SeededOnceCorrect == Spec => []SeededOnce
<1>1. IInv => SeededOnce
  BY DEF IInv, FirstRun, SeededOnce, Typed, Result
<1> QED
  BY <1>1, Inductively, PTL

\* A computed aggregate is only ever replaced by another computed one.
THEOREM ComputedStaysCorrect == Spec => ComputedStays
<1> DEFINE Stays == \A a \in aggregates : a.by = "pipeline" =>
                      \E b \in aggregates' :
                        b.scope = a.scope /\ b.hour = a.hour /\ b.by = "pipeline"
<1>1. IInv /\ [Next]_vars => [Stays]_vars
  <2> SUFFICES ASSUME IInv, [Next]_vars PROVE Stays \/ UNCHANGED vars
    OBVIOUS
  <2>1. CASE aggregates \subseteq aggregates'
    BY <2>1
  <2>2. ASSUME NEW w \in Pipelines, Upsert(w) PROVE Stays
    BY <2>2 DEF Upsert, Row, IInv, OwnRow
  <2>3. Next => \/ aggregates \subseteq aggregates'
                \/ \E w \in Pipelines : Upsert(w)
    BY DEF Next, Tick, Scrape, Seeder, StartSeed, SeedPosts, SeedAggregate,
         SeedFails, Insert, Pass, StartPass, Compute, Sentiment, Mention,
         NoData, PassFails
  <2> QED
    BY <2>1, <2>2, <2>3
<1> QED
  BY <1>1, Inductively, PTL DEF Spec, ComputedStays
-----------------------------------------------------------------------------
\* A family of subsets of a finite set has one that contains no other: what
\* an induction over a finite set comes down to.
LEMMA SmallestSubset ==
  ASSUME NEW S, IsFiniteSet(S), NEW F, F \subseteq SUBSET S, F # {}
  PROVE  \E T \in F : \A U \in F : U \subseteq T => U = T
<1> DEFINE Smaller == StrictSubsetOrdering(S)
<1>1. IsWellFoundedOn(Smaller, FiniteSubsetsOf(S))
  BY FS_StrictSubsetOrderingWellFounded
<1>2. FiniteSubsetsOf(S) = SUBSET S
  BY FS_FiniteSubsetsOfFinite
<1> HIDE DEF Smaller
<1>3. PICK T \in F : \A U \in F : <<U, T>> \notin Smaller
  BY <1>1, <1>2, WFMin
<1>4. \A U \in F : U \subseteq T => U = T
  <2> SUFFICES ASSUME NEW U \in F, U \subseteq T, U # T
               PROVE  FALSE
    OBVIOUS
  <2>1. <<U, T>> \in Smaller
    BY DEF Smaller, StrictSubsetOrdering
  <2> QED
    BY <1>3, <2>1
<1> QED
  BY <1>4

\* A finite set that is not empty has a greatest element by any measure.
LEMMA GreatestExists ==
  ASSUME NEW S, IsFiniteSet(S), S # {}, NEW f \in [S -> Int]
  PROVE  \E a \in S : \A b \in S : f[b] <= f[a]
<1> DEFINE Has(T) == \E a \in T : \A b \in T : f[b] <= f[a]
           F == {T \in SUBSET S : T # {} /\ ~Has(T)}
<1> SUFFICES F = {}
  OBVIOUS
<1> SUFFICES ASSUME F # {} PROVE FALSE
  OBVIOUS
<1>1. PICK T \in F : \A U \in F : U \subseteq T => U = T
  <2>1. F \subseteq SUBSET S
    OBVIOUS
  <2> HIDE DEF F
  <2> QED
    BY <2>1, SmallestSubset
<1>2. PICK x \in T : TRUE
  OBVIOUS
<1>3. T \ {x} \notin F
  BY <1>1, <1>2
<1>4. CASE T \ {x} = {}
  <2>1. T = {x}
    BY <1>2, <1>4
  <2>2. x \in S /\ f[x] \in Int
    BY <1>2
  <2> QED
    BY <2>1, <2>2
<1>5. CASE Has(T \ {x})
  <2>1. PICK y \in T \ {x} : \A b \in T \ {x} : f[b] <= f[y]
    BY <1>5
  <2>2. \A b \in T : b \in S /\ f[b] \in Int
    OBVIOUS
  <2>3. CASE f[x] <= f[y]
    BY <2>1, <2>2, <2>3
  <2>4. CASE f[y] < f[x]
    <3>1. \A b \in T : f[b] <= f[x]
      BY <1>2, <2>1, <2>2, <2>4
    <3> QED
      BY <1>2, <3>1
  <2> QED
    BY <1>2, <2>1, <2>2, <2>3, <2>4
<1> QED
  BY <1>3, <1>4, <1>5

\* The mirror image: a nonempty finite set has a member of least value.
LEMMA LeastExists ==
  ASSUME NEW S, IsFiniteSet(S), S # {}, NEW f \in [S -> Int]
  PROVE  \E a \in S : \A b \in S : f[a] <= f[b]
<1> DEFINE g == [a \in S |-> -f[a]]
<1>1. g \in [S -> Int] /\ \A a \in S : f[a] \in Int /\ g[a] = -f[a]
  OBVIOUS
<1> HIDE DEF g
<1>2. PICK a \in S : \A b \in S : g[b] <= g[a]
  BY <1>1, GreatestExists
<1> QED
  BY <1>1, <1>2

\* sorted(counts)[len(counts) // 2] exists: more than half of the rows have
\* at most that count, and no more than half have less.  It is the least
\* count with that many rows up to it, so the rows below it are those up to the next lower count.
LEMMA MedianFacts ==
  ASSUME NEW rows, IsFiniteSet(rows), rows # {},
         \A a \in rows : a.relevant \in Nat
  PROVE  /\ Median(rows) \in Nat
         /\ 2 * Cardinality({a \in rows : a.relevant <= Median(rows)})
              > Cardinality(rows)
         /\ 2 * Cardinality({a \in rows : a.relevant < Median(rows)})
              <= Cardinality(rows)
<1> DEFINE UpTo(m) == {a \in rows : a.relevant <= m}
           Below(m) == {a \in rows : a.relevant < m}
           k == Cardinality(rows) \div 2
           f == [a \in rows |-> a.relevant]
           High == {a \in rows : Cardinality(UpTo(a.relevant)) > k}
<1>1. f \in [rows -> Int] /\ \A a \in rows : f[a] = a.relevant /\ f[a] \in Nat
  OBVIOUS
<1>2. Cardinality(rows) \in Nat /\ Cardinality(rows) # 0
  BY FS_CardinalityType, FS_EmptySet
<1>3. /\ k \in Nat /\ k < Cardinality(rows)
      /\ 2 * k <= Cardinality(rows) /\ Cardinality(rows) <= 2 * k + 1
  BY <1>2
<1> HIDE DEF f, k
<1>4. \A m \in Nat : /\ Cardinality(UpTo(m)) \in Nat
                     /\ Cardinality(Below(m)) \in Nat
  <2> TAKE m \in Nat
  <2>1. UpTo(m) \subseteq rows /\ Below(m) \subseteq rows
    OBVIOUS
  <2> HIDE DEF UpTo, Below
  <2> QED
    BY <2>1, CountFacts
<1>5. High # {} /\ IsFiniteSet(High) /\ High \subseteq rows
  <2>1. PICK a \in rows : \A b \in rows : f[b] <= f[a]
    BY <1>1, GreatestExists
  <2>2. UpTo(a.relevant) = rows
    BY <1>1, <2>1
  <2>3. a \in High
    BY <1>3, <2>2
  <2>4. High \subseteq rows
    OBVIOUS
  <2> HIDE DEF High
  <2> QED
    BY <2>3, <2>4, CountFacts
<1>6. PICK a \in High : \A b \in High : f[a] <= f[b]
  <2> DEFINE g == [b \in High |-> f[b]]
  <2>1. g \in [High -> Int] /\ \A b \in High : g[b] = f[b]
    BY <1>1, <1>5
  <2> HIDE DEF g, High
  <2>2. PICK a \in High : \A b \in High : g[a] <= g[b]
    BY <1>5, <2>1, LeastExists
  <2> QED
    BY <2>1, <2>2
<1>7. a \in rows /\ a.relevant \in Nat /\ Cardinality(UpTo(a.relevant)) > k
  OBVIOUS
<1>8. Cardinality(Below(a.relevant)) <= k
  <2>1. CASE Below(a.relevant) = {}
    <3> HIDE DEF Below
    <3> QED
      BY <1>3, <2>1, FS_EmptySet
  <2>2. CASE Below(a.relevant) # {}
    <3> DEFINE B == Below(a.relevant)
               g == [b \in B |-> f[b]]
    <3>1. B \subseteq rows /\ g \in [B -> Int] /\ \A b \in B : g[b] = b.relevant
      BY <1>1
    <3>2. IsFiniteSet(B)
      <4> HIDE DEF B, g
      <4> QED
        BY <3>1, CountFacts
    <3>3. PICK b \in B : \A c \in B : g[c] <= g[b]
      <4> HIDE DEF B, g
      <4> QED
        BY <2>2, <3>1, <3>2, GreatestExists DEF B
    <3>4. b \in rows /\ b.relevant < a.relevant /\ b.relevant \in Nat
      BY <3>3
    <3>5. B = UpTo(b.relevant)
      <4>1. \A c \in B : c.relevant <= b.relevant
        BY <3>1, <3>3
      <4>2. \A c \in rows : c.relevant <= b.relevant => c.relevant < a.relevant
        BY <1>7, <3>4
      <4> QED
        BY <4>1, <4>2
    <3>6. b \notin High
      BY <1>1, <1>6, <1>7, <3>4
    <3>7. ~(Cardinality(UpTo(b.relevant)) > k)
      BY <3>4, <3>6
    <3>8. Cardinality(UpTo(b.relevant)) \in Nat
      BY <1>4, <3>4
    <3>9. Cardinality(Below(a.relevant)) = Cardinality(UpTo(b.relevant))
      BY <3>5
    <3> HIDE DEF UpTo, Below, B
    <3> QED
      BY <1>3, <3>7, <3>8, <3>9
  <2> QED
    BY <2>1, <2>2
<1>9. \E m \in {b.relevant : b \in rows} :
        Cardinality(UpTo(m)) > k /\ Cardinality(Below(m)) <= k
  BY <1>7, <1>8
<1>10. Median(rows) = CHOOSE m \in {b.relevant : b \in rows} :
                        Cardinality(UpTo(m)) > k /\ Cardinality(Below(m)) <= k
  BY DEF Median, k
<1>11. /\ Median(rows) \in Nat
       /\ Cardinality(UpTo(Median(rows))) > k
       /\ Cardinality(Below(Median(rows))) <= k
  BY <1>9, <1>10
<1>12. PICK n \in Nat : n = Cardinality(UpTo(Median(rows)))
  BY <1>4, <1>11
<1>13. PICK less \in Nat : less = Cardinality(Below(Median(rows)))
  BY <1>4, <1>11
<1>14. PICK whole \in Nat : whole = Cardinality(rows)
  BY <1>2
<1>15. 2 * n > whole /\ 2 * less <= whole
  BY <1>3, <1>11, <1>12, <1>13, <1>14
<1> QED
  BY <1>11, <1>12, <1>13, <1>14, <1>15

\* The rows of a window can be counted.
FiniteTable == IsFiniteSet(aggregates)

LEMMA FiniteTableStep ==
  ASSUME IInv, FiniteTable, [Next]_vars
  PROVE  FiniteTable'
<1>1. CASE UNCHANGED aggregates
  BY <1>1 DEF FiniteTable
<1>2. CASE \E a : Insert(a)
  BY <1>2, FS_AddElement DEF FiniteTable, Insert
<1>3. ASSUME NEW w \in Pipelines, Upsert(w)
      PROVE  FiniteTable'
  <2>1. IsFiniteSet(aggregates \ Row(row[w].scope, row[w].hour))
    BY FS_Difference DEF FiniteTable
  <2> QED
    BY <1>3, <2>1, FS_AddElement DEF Upsert, FiniteTable
<1>4. \/ UNCHANGED aggregates \/ \E a : Insert(a)
      \/ \E w \in Pipelines : Upsert(w)
  BY DEF Next, Tick, Scrape, Seeder, StartSeed, SeedPosts, SeedAggregate,
       SeedFails, Pass, StartPass, Compute, Sentiment, Mention, NoData,
       PassFails, vars
<1> QED
  BY <1>1, <1>2, <1>3, <1>4

\* A step of one process leaves the others where they are.
LEMMA OthersStay ==
  ASSUME IInv, NEW w \in Pipelines, Pass(w), NEW x \in Pipelines, x # w
  PROVE  pc'[x] = pc[x]
<1>1. CASE StartPass(w) \/ Sentiment(w) \/ Mention(w) \/ PassFails(w)
  BY <1>1 DEF StartPass, Sentiment, Mention, PassFails, IInv, Typed
<1>2. CASE Compute(w)
  BY <1>2, AdvanceFacts DEF Compute, IInv, Typed, Stages
<1>3. CASE Upsert(w)
  BY <1>3, AdvanceFacts DEF Upsert, IInv, Stages
<1>4. CASE NoData(w)
  BY <1>4, AdvanceFacts DEF NoData, IInv, Stages
<1> QED
  BY <1>1, <1>2, <1>3, <1>4 DEF Pass

\* Scaling keeps the order of counts.
LEMMA Scaled ==
  ASSUME NEW m \in Nat, NEW x \in Nat, NEW y \in Nat
  PROVE  /\ m * x \in Nat
         /\ x <= y => m * x <= m * y
OBVIOUS

\* Of the rows of a window other than the last, fewer than half lie above a
\* bound that Multiplier times the median keeps, and at least half above one
\* that it exceeds.
LEMMA AboveFacts ==
  ASSUME NEW others, IsFiniteSet(others), others # {},
         \A a \in others : a.relevant \in Nat,
         NEW bound \in Nat
  PROVE  LET above == {a \in others : Multiplier * a.relevant > bound}
             n == Cardinality(others)
         IN /\ bound >= Multiplier * Median(others)
                 => 2 * Cardinality(above) < n
            /\ bound < Multiplier * Median(others)
                 => 2 * Cardinality(above) >= n
<1> DEFINE above == {a \in others : Multiplier * a.relevant > bound}
           median == Median(others)
           lower == {a \in others : a.relevant <= median}
           upper == others \ {a \in others : a.relevant < median}
           below == {a \in others : a.relevant < median}
<1>1. /\ median \in Nat
      /\ 2 * Cardinality(lower) > Cardinality(others)
      /\ 2 * Cardinality(below) <= Cardinality(others)
  BY MedianFacts
<1>2. Multiplier \in Nat
  BY RollupAssumption
<1> HIDE DEF median
<1>3. /\ lower \subseteq others /\ below \subseteq others /\ upper \subseteq others
      /\ above \subseteq others /\ upper = others \ below
  OBVIOUS
<1>4. bound >= Multiplier * median => above \subseteq others \ lower
  <2> SUFFICES ASSUME bound >= Multiplier * median, NEW a \in above
               PROVE  ~(a.relevant <= median)
    OBVIOUS
  <2>1. a.relevant \in Nat /\ Multiplier * a.relevant > bound
    OBVIOUS
  <2>2. /\ Multiplier * a.relevant \in Nat /\ Multiplier * median \in Nat
        /\ a.relevant <= median => Multiplier * a.relevant <= Multiplier * median
    BY <1>1, <1>2, <2>1, Scaled
  <2> QED
    BY <2>1, <2>2
<1>5. bound < Multiplier * median => upper \subseteq above
  <2> SUFFICES ASSUME bound < Multiplier * median,
                      NEW a \in others, ~(a.relevant < median)
               PROVE  Multiplier * a.relevant > bound
    OBVIOUS
  <2>1. a.relevant \in Nat /\ median <= a.relevant
    BY <1>1
  <2>2. /\ Multiplier * a.relevant \in Nat /\ Multiplier * median \in Nat
        /\ Multiplier * median <= Multiplier * a.relevant
    BY <1>1, <1>2, <2>1, Scaled
  <2> QED
    BY <2>2
<1> HIDE DEF above, lower, below, upper
<1>6. /\ Cardinality(above) \in Nat /\ Cardinality(others) \in Nat
      /\ Cardinality(lower) \in Nat /\ Cardinality(below) \in Nat
      /\ IsFiniteSet(above) /\ IsFiniteSet(lower) /\ IsFiniteSet(below)
  BY <1>3, CountFacts, FS_CardinalityType
<1>7. /\ IsFiniteSet(others \ lower)
      /\ Cardinality(others \ lower) = Cardinality(others) - Cardinality(lower)
  <2>1. others \cap lower = lower
    BY <1>3
  <2> QED
    BY <2>1, FS_Difference
<1>8. Cardinality(upper) = Cardinality(others) - Cardinality(below)
  <2>1. others \cap below = below
    BY <1>3
  <2> QED
    BY <1>3, <2>1, FS_Difference
<1>9. bound >= Multiplier * median => 2 * Cardinality(above) < Cardinality(others)
  <2> SUFFICES ASSUME bound >= Multiplier * median
               PROVE  2 * Cardinality(above) < Cardinality(others)
    OBVIOUS
  <2>1. Cardinality(above) <= Cardinality(others \ lower)
    BY <1>4, <1>7, CountFacts
  <2> QED
    BY <1>1, <1>6, <1>7, <2>1
<1>10. bound < Multiplier * median => 2 * Cardinality(above) >= Cardinality(others)
  <2> SUFFICES ASSUME bound < Multiplier * median
               PROVE  2 * Cardinality(above) >= Cardinality(others)
    OBVIOUS
  <2>1. Cardinality(upper) <= Cardinality(above)
    BY <1>5, <1>6, CountFacts
  <2> QED
    BY <1>1, <1>6, <1>8, <2>1
<1> QED
  BY <1>9, <1>10 DEF above, median

\* The median is not zero just when no more than half of the rows are.
LEMMA SilentFacts ==
  ASSUME NEW others, IsFiniteSet(others), others # {},
         \A a \in others : a.relevant \in Nat
  PROVE  LET silent == {a \in others : a.relevant = 0} IN
         Median(others) > 0 <=> 2 * Cardinality(silent) <= Cardinality(others)
<1> DEFINE silent == {a \in others : a.relevant = 0}
           median == Median(others)
           lower == {a \in others : a.relevant <= median}
           below == {a \in others : a.relevant < median}
<1>1. /\ median \in Nat
      /\ 2 * Cardinality(lower) > Cardinality(others)
      /\ 2 * Cardinality(below) <= Cardinality(others)
  BY MedianFacts
<1> HIDE DEF median
<1>2. Cardinality(others) \in Nat
  BY FS_CardinalityType
<1>3. CASE median = 0
  <2>1. silent = lower
    BY <1>3
  <2> HIDE DEF silent, lower
  <2>2. Cardinality(lower) \in Nat
    <3>1. lower \subseteq others
      BY DEF lower
    <3> QED
      BY <3>1, CountFacts
  <2> QED
    BY <1>1, <1>2, <1>3, <2>1, <2>2 DEF median, silent
<1>4. CASE median > 0
  <2>1. silent \subseteq below /\ below \subseteq others
    BY <1>1, <1>4
  <2> HIDE DEF silent, below
  <2>2. /\ Cardinality(silent) \in Nat /\ Cardinality(below) \in Nat
        /\ Cardinality(silent) <= Cardinality(below)
    BY <2>1, CountFacts
  <2> QED
    BY <1>1, <1>2, <1>4, <2>2 DEF median, silent
<1> QED
  BY <1>1, <1>3, <1>4

\* What the rule decides by the median is what the counts say of the hours.
LEMMA MentionFacts ==
  ASSUME IInv, FiniteTable, NEW w \in Pipelines, Mention(w)
  PROVE  LET rows == Window(Scopes[at[w]], Week)
             last == LastOf(rows)
             others == rows \ {last}
             above == {a \in others : Multiplier * a.relevant > last.relevant}
             silent == {a \in others : a.relevant = 0}
         IN alert'[w] = "mention" <=>
              /\ Cardinality(rows) >= MinRows
              /\ 2 * Cardinality(above) < Cardinality(others)
              /\ 2 * Cardinality(silent) <= Cardinality(others)
<1> DEFINE rows == Window(Scopes[at[w]], Week)
           last == LastOf(rows)
           others == rows \ {last}
           baseline == Median(others)
           above == {a \in others : Multiplier * a.relevant > last.relevant}
           silent == {a \in others : a.relevant = 0}
           typical == /\ 2 * Cardinality(above) < Cardinality(others)
                      /\ 2 * Cardinality(silent) <= Cardinality(others)
<1>1. alert'[w] = "mention" <=>
        /\ Cardinality(rows) >= MinRows
        /\ baseline > 0 /\ last.relevant >= Multiplier * baseline
  <2> DEFINE fires == /\ Cardinality(rows) >= MinRows
                      /\ baseline > 0 /\ last.relevant >= Multiplier * baseline
  <2>1. alert' = [alert EXCEPT ![w] = IF fires THEN "mention" ELSE Quiet]
    BY DEF Mention, Fire
  <2> HIDE DEF fires
  <2>2. alert'[w] = "mention" <=> fires
    BY <2>1 DEF IInv, Typed, Quiet
  <2> QED
    BY <2>2 DEF fires
<1>2. rows \subseteq aggregates /\ rows \subseteq Aggregate
  BY DEF Window, IInv, Typed
<1>3. \A a \in rows : a.relevant \in Nat /\ a.hour \in Int
  BY <1>2, Numbers DEF Aggregate, Hours
<1>4. IsFiniteSet(rows) /\ Cardinality(rows) \in Nat
  <2> HIDE DEF rows
  <2> QED
    BY <1>2, CountFacts DEF FiniteTable
<1>5. MinRows \in Nat /\ MinRows > 1 /\ Multiplier \in Nat
  BY RollupAssumption
<1> HIDE DEF rows
<1>6. Cardinality(rows) >= MinRows =>
        ((baseline > 0 /\ last.relevant >= Multiplier * baseline) <=> typical)
  <2> SUFFICES ASSUME Cardinality(rows) >= MinRows
               PROVE  (baseline > 0 /\ last.relevant >= Multiplier * baseline)
                        <=> typical
    OBVIOUS
  <2>1. last \in rows
    <3> DEFINE f == [a \in rows |-> a.hour]
    <3>1. rows # {}
      BY <1>4, <1>5, FS_EmptySet
    <3>2. f \in [rows -> Int] /\ \A a \in rows : f[a] = a.hour
      BY <1>3
    <3> HIDE DEF f
    <3>3. PICK a \in rows : \A b \in rows : f[b] <= f[a]
      BY <1>4, <3>1, <3>2, GreatestExists
    <3>4. \A b \in rows : b.hour <= a.hour
      BY <3>2, <3>3
    <3> QED
      BY <3>4 DEF LastOf
  <2> HIDE DEF last
  <2>2. IsFiniteSet(others) /\ Cardinality(others) = Cardinality(rows) - 1
    BY <1>4, <2>1, FS_RemoveElement
  <2>3. others # {}
    BY <1>4, <1>5, <2>2, FS_EmptySet
  <2>4. last.relevant \in Nat /\ \A a \in others : a.relevant \in Nat
    BY <1>3, <2>1
  <2> HIDE DEF others
  <2>5. baseline > 0 <=> 2 * Cardinality(silent) <= Cardinality(others)
    BY <2>2, <2>3, <2>4, SilentFacts
  <2>6. /\ last.relevant >= Multiplier * baseline
             => 2 * Cardinality(above) < Cardinality(others)
        /\ last.relevant < Multiplier * baseline
             => 2 * Cardinality(above) >= Cardinality(others)
    BY <2>2, <2>3, <2>4, AboveFacts
  <2>7. Multiplier * baseline \in Nat
    <3>1. baseline \in Nat
      BY <2>2, <2>3, <2>4, MedianFacts
    <3> HIDE DEF baseline
    <3> QED
      BY <1>5, <3>1, Scaled
  <2>8. Cardinality(above) \in Nat /\ Cardinality(others) \in Nat
    <3>1. above \subseteq others
      OBVIOUS
    <3> HIDE DEF above
    <3> QED
      BY <2>2, <3>1, CountFacts, FS_CardinalityType
  <2> HIDE DEF above, silent, baseline
  <2> QED
    BY <2>4, <2>5, <2>6, <2>7, <2>8
<1> QED
  BY <1>1, <1>6 DEF rows

\* When the mention rule fires, and only then, the last hour has at least
\* Multiplier times the mentions of the typical hour before it: the rule's
\* median is a statement about how many hours lie above, for every window.
THEOREM SpikeCorrect == Spec => SpikeIsUnusual
<1> DEFINE Unusual ==
      \A w \in Pipelines : pc[w] = "mention" /\ pc'[w] = "nodata" =>
        LET rows == Window(Scopes[at[w]], Week)
            last == LastOf(rows)
            others == rows \ {last}
            above == {a \in others : Multiplier * a.relevant > last.relevant}
            silent == {a \in others : a.relevant = 0}
        IN alert'[w] = "mention" <=>
             /\ Cardinality(rows) >= MinRows
             /\ 2 * Cardinality(above) < Cardinality(others)
             /\ 2 * Cardinality(silent) <= Cardinality(others)
<1>1. Init => FiniteTable
  BY FS_EmptySet DEF Init, FiniteTable
<1>2. IInv /\ FiniteTable /\ [Next]_vars => [Unusual]_vars
  <2> SUFFICES ASSUME IInv, FiniteTable, Next,
                      NEW w \in Pipelines, pc[w] = "mention", pc'[w] = "nodata"
               PROVE  Mention(w)
    BY MentionFacts
  <2>1. ASSUME NEW x \in Pipelines, Pass(x)
        PROVE  Mention(w)
    <3>1. CASE x # w
      <4>1. pc'[w] = pc[w]
        BY <2>1, <3>1, OthersStay
      <4> QED
        BY <4>1
    <3>2. CASE x = w
      <4>1. ~PassFails(w)
        BY DEF PassFails, IInv, Typed
      <4> QED
        BY <2>1, <3>2, <4>1
        DEF Pass, StartPass, Compute, Upsert, Sentiment, NoData
    <3> QED
      BY <3>1, <3>2
  <2>2. UNCHANGED pc \/ \E x \in Pipelines : Pass(x)
    BY DEF Next, Tick, Scrape, Seeder, StartSeed, SeedPosts, SeedAggregate,
         SeedFails, runVars
  <2> QED
    BY <2>1, <2>2
<1> QED
  BY <1>1, <1>2, FiniteTableStep, Inductively, PTL DEF Spec, SpikeIsUnusual

-----------------------------------------------------------------------------
\* The rows of a pass are computed in the order of the scopes, and each is
\* still covered by the results of its hour.
InOrder(w) ==
  /\ pc[w] = "idle" => list[w] = {}
  /\ \A a \in list[w] :
       /\ a.relevant <= Cardinality({r \in results : r.hour = a.hour})
       /\ pc[w] = "aggregate" =>
            \E i \in DOMAIN Scopes : a.scope = Scopes[i] /\ i < at[w]
       /\ pc[w] = "upsert" =>
            \E i \in DOMAIN Scopes : a.scope = Scopes[i] /\ i <= at[w]

ListInOrder == \A w \in Pipelines : InOrder(w)

\* The counts only grow: what a list holds stays covered in every step.
LEMMA ListCovered ==
  ASSUME IInv, ListInOrder, [Next]_vars
  PROVE  \A w \in Pipelines : \A a \in list[w] :
           a.relevant <= Cardinality({r \in results' : r.hour = a.hour})
<1> SUFFICES ASSUME NEW w \in Pipelines, NEW a \in list[w]
             PROVE  a.relevant <= Cardinality({r \in results' : r.hour = a.hour})
  OBVIOUS
<1> DEFINE before == {r \in results : r.hour = a.hour}
           after == {r \in results' : r.hour = a.hour}
<1>1. a.relevant \in Nat
  BY DEF IInv, Typed, Aggregate
<1>2. results \subseteq results'
  BY DEF Next, Tick, Scrape, Seeder, StartSeed, SeedPosts, SeedAggregate,
       SeedFails, Pass, StartPass, Compute, Upsert, Sentiment, Mention,
       NoData, PassFails, vars,
       seedVars
<1>3. IsFiniteSet(results')
  BY Inductive DEF IInv, Typed
<1>4. before \subseteq after /\ after \subseteq results'
  BY <1>2
<1>5. a.relevant <= Cardinality(before)
  BY DEF ListInOrder, InOrder
<1> HIDE DEF before, after
<1>6. IsFiniteSet(after) /\ Cardinality(after) \in Nat
  BY <1>3, <1>4, CountFacts
<1>7. Cardinality(before) \in Nat /\ Cardinality(before) <= Cardinality(after)
  BY <1>4, <1>6, CountFacts
<1>8. a.relevant <= Cardinality(after)
  BY <1>1, <1>5, <1>6, <1>7
<1> QED
  BY <1>8 DEF after

LEMMA PositionFacts ==
  ASSUME Typed, NEW w \in Pipelines, NEW next, NEW after,
         Advance(w, next, after)
  PROVE  /\ at[w] \in Nat /\ \A i \in DOMAIN Scopes : i \in Nat /\ i <= Len(Scopes)
         /\ \A x \in Pipelines : x # w => pc'[x] = pc[x] /\ at'[x] = at[x]
         /\ \/ pc'[w] = next /\ at'[w] = at[w] + 1
            \/ pc'[w] = after /\ at[w] = Len(Scopes)
<1>1. Scopes \in Seq(ScopeSet)
  BY RollupAssumption
<1>2. at[w] \in 1..Len(Scopes) /\ Len(Scopes) \in Nat
  BY <1>1 DEF Typed
<1>3. \A i \in DOMAIN Scopes : i \in Nat /\ i <= Len(Scopes)
  BY <1>1
<1> QED
  BY <1>2, <1>3 DEF Advance, Typed

\* A row joins the list with its own scope, counted in this very step.
LEMMA ComputeOrder ==
  ASSUME IInv, ListInOrder, NEW w \in Pipelines, Compute(w)
  PROVE  InOrder(w)'
<1> USE DEF IInv
<1> DEFINE a == Summary(Scopes[at[w]], clock - 1)
<1>1. /\ pc[w] = "aggregate" /\ UNCHANGED results
      /\ \A b \in list[w] :
           /\ b.relevant <= Cardinality({r \in results : r.hour = b.hour})
           /\ \E i \in DOMAIN Scopes : b.scope = Scopes[i] /\ i < at[w]
  BY DEF Compute, ListInOrder, InOrder, seedVars
<1>2. at[w] \in DOMAIN Scopes /\ DOMAIN Scopes \subseteq Nat
  BY RollupAssumption DEF Typed
<1>3. CASE Advance(w, "aggregate", "sentiment") /\ UNCHANGED list
  <2>1. \/ pc'[w] = "aggregate" /\ at'[w] = at[w] + 1
        \/ pc'[w] = "sentiment"
    BY <1>3, PositionFacts
  <2>2. \A i \in DOMAIN Scopes : i < at[w] => i < at[w] + 1
    BY <1>2
  <2> QED
    BY <1>1, <1>3, <2>1, <2>2 DEF InOrder
<1>4. CASE /\ list' = [list EXCEPT ![w] = @ \cup {a}]
           /\ pc' = [pc EXCEPT ![w] = "upsert"] /\ UNCHANGED at
  <2>1. a.scope = Scopes[at[w]] /\ Supported(a) /\ a.by = "pipeline"
    <3>1. a.scope = Scopes[at[w]]
      BY DEF Summary
    <3> QED
      BY <3>1, SummaryFacts DEF Typed
  <2> HIDE DEF a
  <2>2. list'[w] = list[w] \cup {a} /\ pc'[w] = "upsert"
    BY <1>4 DEF Typed
  <2>3. \A b \in list'[w] :
          /\ b.relevant <= Cardinality({r \in results : r.hour = b.hour})
          /\ \E i \in DOMAIN Scopes : b.scope = Scopes[i] /\ i <= at[w]
    <3> TAKE b \in list'[w]
    <3>1. CASE b = a
      BY <1>2, <2>1, <3>1 DEF Supported
    <3>2. CASE b \in list[w]
      <4>1. PICK i \in DOMAIN Scopes : b.scope = Scopes[i] /\ i < at[w]
        BY <1>1, <3>2
      <4>2. i <= at[w]
        BY <1>2, <4>1
      <4> QED
        BY <1>1, <3>2, <4>1, <4>2
    <3> QED
      BY <2>2, <3>1, <3>2
  <2> QED
    BY <1>1, <1>4, <2>2, <2>3 DEF InOrder
<1> QED
  BY <1>3, <1>4 DEF Compute, Typed

LEMMA ListInOrderStep ==
  ASSUME IInv, ListInOrder, [Next]_vars
  PROVE  ListInOrder'
<1> USE DEF IInv
<1>1. \A w \in Pipelines : \A a \in list[w] :
        a.relevant <= Cardinality({r \in results' : r.hour = a.hour})
  BY ListCovered
<1>2. CASE UNCHANGED <<pc, at, list>>
  BY <1>1, <1>2 DEF ListInOrder, InOrder
<1>3. ASSUME NEW w \in Pipelines, Pass(w)
      PROVE  ListInOrder'
  <2>1. ASSUME NEW x \in Pipelines, x # w
        PROVE  InOrder(x)'
    <3>1. pc'[x] = pc[x] /\ at'[x] = at[x] /\ list'[x] = list[x]
      <4>1. list'[x] = list[x]
        BY <1>3, <2>1 DEF Pass, StartPass, Compute, Upsert, Sentiment, Mention,
             NoData, PassFails, EndPass, Typed
      <4>2. CASE StartPass(w) \/ Sentiment(w) \/ Mention(w)
        <5>1. UNCHANGED at /\ \E stage : pc' = [pc EXCEPT ![w] = stage]
          BY <4>2 DEF StartPass, Sentiment, Mention
        <5> QED
          BY <2>1, <4>1, <5>1 DEF Typed
      <4>3. CASE PassFails(w)
        BY <2>1, <4>1, <4>3 DEF PassFails, Typed
      <4>4. CASE Compute(w)
        <5>1. CASE Advance(w, "aggregate", "sentiment")
          BY <2>1, <4>1, <5>1, PositionFacts
        <5>2. CASE UNCHANGED at /\ pc' = [pc EXCEPT ![w] = "upsert"]
          BY <2>1, <4>1, <5>2 DEF Typed
        <5> QED
          BY <4>4, <5>1, <5>2 DEF Compute
      <4>5. CASE Upsert(w)
        BY <2>1, <4>1, <4>5, PositionFacts DEF Upsert
      <4>6. CASE NoData(w)
        BY <2>1, <4>1, <4>6, PositionFacts DEF NoData
      <4> QED
        BY <1>3, <4>1, <4>2, <4>3, <4>4, <4>5, <4>6 DEF Pass
    <3>2. InOrder(x)
      BY DEF ListInOrder
    <3>3. \A a \in list[x] :
            a.relevant <= Cardinality({r \in results' : r.hour = a.hour})
      BY <1>1
    <3> QED
      BY <3>1, <3>2, <3>3 DEF InOrder
  <2>2. InOrder(w)'
    <3>1. CASE StartPass(w)
      BY <3>1 DEF StartPass, Typed, ListInOrder, InOrder
    <3>2. CASE Compute(w)
      BY <3>2, ComputeOrder
    <3>3. CASE Upsert(w)
      <4>1. pc[w] = "upsert" /\ UNCHANGED list
        BY <3>3 DEF Upsert
      <4>2. /\ at[w] \in Nat
            /\ \/ pc'[w] = "aggregate" /\ at'[w] = at[w] + 1
               \/ pc'[w] = "sentiment"
        BY <3>3, PositionFacts DEF Upsert
      <4>3. \A i \in DOMAIN Scopes : i <= at[w] => i < at[w] + 1
        BY <4>2, RollupAssumption
      <4> QED
        BY <1>1, <4>1, <4>2, <4>3 DEF ListInOrder, InOrder
    <3>4. CASE Sentiment(w) \/ Mention(w)
      BY <1>1, <3>4 DEF Sentiment, Mention, Typed, InOrder
    <3>5. CASE NoData(w)
      <4>1. CASE at[w] = Len(Scopes)
        BY <3>5, <4>1, RollupAssumption DEF NoData, EndPass, Typed, InOrder
      <4>2. CASE at[w] # Len(Scopes)
        <5>1. pc'[w] = "sentiment" /\ UNCHANGED list
          BY <3>5, <4>2, PositionFacts DEF NoData
        <5> QED
          BY <1>1, <5>1 DEF InOrder
      <4> QED
        BY <4>1, <4>2
    <3>6. CASE PassFails(w)
      BY <3>6 DEF PassFails, EndPass, Typed, InOrder
    <3> QED
      BY <1>3, <3>1, <3>2, <3>3, <3>4, <3>5, <3>6 DEF Pass
  <2> QED
    BY <2>1, <2>2 DEF ListInOrder
<1>4. UNCHANGED <<pc, at, list>> \/ \E w \in Pipelines : Pass(w)
  BY DEF Next, Tick, Scrape, Seeder, StartSeed, SeedPosts, SeedAggregate,
       SeedFails, vars, runVars
<1> QED
  BY <1>2, <1>3, <1>4

\* Steps that compute nothing leave the list as it is or drop it.
LEMMA ScopesAgreeStep ==
  ASSUME IInv, ListInOrder, ScopesAgree, [Next]_vars
  PROVE  ScopesAgree'
<1> USE DEF IInv
<1>1. ASSUME NEW w \in Pipelines, Compute(w)
      PROVE  ScopesAgree'
  <2> DEFINE c == Summary(Scopes[at[w]], clock - 1)
             held == {r \in results : r.hour = clock - 1}
  <2>1. CASE UNCHANGED list
    BY <2>1 DEF ScopesAgree
  <2>2. CASE list' = [list EXCEPT ![w] = @ \cup {c}]
               /\ Counted(Scopes[at[w]], clock - 1) # {}
    <3>1. c.scope = Scopes[at[w]] /\ c.hour = clock - 1
            /\ c.relevant = Cardinality(held)
      BY <2>2 DEF Summary, Counted, InHour
    <3>2. IsFiniteSet(held) /\ c.relevant \in Nat
      BY <3>1, CountFacts DEF Typed
    <3>3. /\ at[w] \in DOMAIN Scopes /\ DOMAIN Scopes \subseteq Nat
          /\ pc[w] = "aggregate"
      BY <1>1, RollupAssumption DEF Typed, Compute
    <3> HIDE DEF c
    <3>4. \A x \in Pipelines :
            list'[x] = IF x = w THEN list[w] \cup {c} ELSE list[x]
      BY <2>2 DEF Typed
    <3>5. ASSUME NEW x \in Pipelines, NEW a \in list'[x], NEW b \in list'[x],
                 a.scope.platform # "ALL",
                 b.scope = [a.scope EXCEPT !.platform = "ALL"], a.hour = b.hour
          PROVE  a.relevant <= b.relevant
      <4>1. CASE a \in list[x] /\ b \in list[x]
        BY <3>5, <4>1 DEF ScopesAgree
      <4>2. CASE x = w /\ a \in list[w] /\ b = c
        BY <3>1, <3>5, <4>2 DEF ListInOrder, InOrder
      <4>3. CASE x = w /\ a = c /\ b \in list[w]
        <5>1. PICK j \in DOMAIN Scopes : b.scope = Scopes[j] /\ j < at[w]
          BY <3>3, <4>3 DEF ListInOrder, InOrder
        <5>2. at[w] < j
          BY <3>1, <3>3, <3>5, <4>3, <5>1, RollupAssumption
        <5> QED
          BY <3>3, <5>1, <5>2
      <4>4. CASE a = c /\ b = c
        BY <3>2, <4>4
      <4> QED
        BY <3>4, <4>1, <4>2, <4>3, <4>4
    <3> QED
      BY <3>5 DEF ScopesAgree
  <2> QED
    BY <1>1, <2>1, <2>2 DEF Compute, Typed
<1>2. CASE UNCHANGED list
  BY <1>2 DEF ScopesAgree
<1>3. ASSUME NEW w \in Pipelines, EndPass(w)
      PROVE  ScopesAgree'
  BY <1>3 DEF EndPass, ScopesAgree, Typed
<1>4. \/ UNCHANGED list
      \/ \E w \in Pipelines : Compute(w) \/ EndPass(w)
  BY DEF Next, Tick, Scrape, Seeder, StartSeed, SeedPosts, SeedAggregate,
       SeedFails, Pass, StartPass, Upsert, Sentiment, Mention, NoData,
       PassFails, vars, runVars
<1> QED
  BY <1>1, <1>2, <1>3, <1>4

\* Within a pass the platforms together never count less than one of them:
\* the counts grow, and "ALL" is read after the platforms.
THEOREM ScopesAgreeCorrect == Spec => []ScopesAgree
<1>1. Init => ListInOrder /\ ScopesAgree
  BY DEF Init, ListInOrder, InOrder, ScopesAgree
<1> QED
  BY <1>1, ListInOrderStep, ScopesAgreeStep, Inductively, PTL DEF Spec

=============================================================================
