--------------------------- MODULE ScrapingProofs ---------------------------
(***************************************************************************)
(* For every set of posts, list of targets and limits: what the scrape     *)
(* stage stores, and that it implements the abstract Harvest.              *)
(*                                                                         *)
(* A key that is not blank determines its post: an id names one post, and  *)
(* a moment that stands for an id is later than every moment stored before *)
(* the run began, and than those of the tweets seen in it.  So a row that  *)
(* is already there under such a key is the post's own, and INSERT OR      *)
(* IGNORE loses only posts without an id.                                  *)
(***************************************************************************)
EXTENDS Scraping, FiniteSetTheorems, TLAPS

Typed ==
  /\ status \in [Runs -> {"none", "running", "success", "failed"}]
  /\ rows \subseteq [key: Keys, post: Posts, run: Runs]
  /\ pc \in {"idle", "launch", "page", "load", "collect", "exit", "store",
             "finish", "raised"}
  /\ run \in Runs \cup {0}
  /\ target \in 0..Len(Targets)
  /\ source \in Pages /\ tried \subseteq Pages
  /\ attempts \in 0..(MaxRetries - 1)
  /\ shown \subseteq Posts
  /\ scrolls \in 0..(MaxScrolls - 1)
  /\ posts \in Seq([key: Keys, post: Posts])
  /\ error \in BOOLEAN
  /\ clock \in Nat

\* One page is open at a time, and none while the next is to be opened.
OnePage ==
  /\ open \subseteq {"browser", source}
  /\ pc \in {"idle", "launch", "page"} => open \subseteq {"browser"}

InQuota ==
  /\ Len(posts) <= MaxPosts
  /\ pc \in {"launch", "page", "load", "collect"} => Len(posts) < MaxPosts

\* The run under way, and those to come.
RunOpen ==
  /\ pc # "idle" => run \in Runs /\ target \in DOMAIN Targets
                    /\ status[run] = "running"
  /\ \A r \in Runs : run < r => status[r] = "none"
  /\ pc = "idle" => posts = <<>> /\ ~error

\* An id names its post.
Names(x) ==
  /\ x.key.kind \in {"native", "element"} => x.key.of = x.post
  /\ x.key.kind = "clock" => x.post \notin Linked /\ x.key.of <= clock

Named ==
  /\ \A r \in rows : Names(r)
  /\ \A i \in DOMAIN posts : Names(posts[i])

\* No row has the key of a post of this run that is not stored yet.
Fresh ==
  pc \notin {"idle", "finish", "raised"} =>
    \A r \in rows : r.key.kind = "clock" =>
      /\ r.key.of < clock
      /\ \A i \in DOMAIN posts :
           posts[i].key.kind = "clock" => r.key.of < posts[i].key.of

\* No two tweets of a run are named after the same moment: a clock is given by
\* the search alone, and seen_ids drops the second.
Moments ==
  \A i, j \in DOMAIN posts :
    posts[i].key.kind = "clock" /\ posts[i].key = posts[j].key => i = j

Unique == \A a, b \in rows : a.key = b.key => a = b

IInv ==
  /\ Typed /\ OnePage /\ InQuota /\ RunOpen
  /\ Named /\ Fresh /\ Moments /\ Unique
  /\ CollectedIsStored
-----------------------------------------------------------------------------
LEMMA Numbers ==
  /\ MaxPosts \in Nat \ {0} /\ MaxRetries \in Nat \ {0}
  /\ MaxScrolls \in Nat \ {0} /\ MaxRuns \in Nat \ {0}
  /\ 0 \in 0..MaxRetries - 1 /\ 0 \in 0..MaxScrolls - 1
<1>1. /\ MaxPosts \in Nat \ {0} /\ MaxRetries \in Nat \ {0}
      /\ MaxScrolls \in Nat \ {0} /\ MaxRuns \in Nat \ {0}
  BY ScrapingAssumption
<1> QED
  BY <1>1

LEMMA TargetFacts ==
  /\ DOMAIN Targets = 1..Len(Targets) /\ Len(Targets) \in Nat \ {0}
  /\ \A t \in 0..Len(Targets) : (t % Len(Targets)) + 1 \in DOMAIN Targets
  /\ \A i \in DOMAIN Targets : Shows[i] \subseteq Posts
<1>1. Targets \in Seq({"reddit", "twitter"}) /\ Targets # <<>>
        /\ Shows \in [DOMAIN Targets -> SUBSET Posts]
  BY ScrapingAssumption
<1>2. DOMAIN Targets = 1..Len(Targets) /\ Len(Targets) \in Nat \ {0}
  BY <1>1
<1>3. ASSUME NEW t \in 0..Len(Targets)
      PROVE  t % Len(Targets) \in 0..Len(Targets) - 1
  BY <1>2
<1>4. \A t \in 0..Len(Targets) : (t % Len(Targets)) + 1 \in 1..Len(Targets)
  BY <1>2, <1>3
<1> QED
  BY <1>1, <1>2, <1>4

LEMMA KeyFacts ==
  ASSUME Typed, NEW p \in Posts
  PROVE  \A key \in KeysOf(p) :
           /\ key \in Keys
           /\ Names([key |-> key, post |-> p])
           /\ key.kind = "clock" => key.of = clock /\ source = "search"
<1>1. \/ KeysOf(p) = JsonIds(p)
      \/ KeysOf(p) = RenderedIds(p)
      \/ KeysOf(p) = TweetIds(p) /\ source = "search"
  BY DEF Typed, Pages, KeysOf
<1> QED
  BY <1>1
  DEF Typed, JsonIds, RenderedIds, TweetIds, IdOr, Blank, Keys, Names

LEMMA PostFacts ==
  /\ <<>> \in Seq([key: Keys, post: Posts])
  /\ Typed => /\ DOMAIN posts = 1..Len(posts) /\ Len(posts) \in Nat
              /\ \A i \in DOMAIN posts :
                   posts[i].key \in Keys /\ posts[i].post \in Posts
<1> DEFINE Post == [key: Keys, post: Posts]
<1>1. ASSUME NEW i \in DOMAIN posts, posts \in Seq(Post)
      PROVE  posts[i] \in Post
  <2> HIDE DEF Post
  <2> QED
    BY <1>1
<1>2. <<>> \in Seq(Post)
  OBVIOUS
<1>3. posts \in Seq(Post) => DOMAIN posts = 1..Len(posts) /\ Len(posts) \in Nat
  <2> HIDE DEF Post
  <2> QED
    OBVIOUS
<1> QED
  BY <1>1, <1>2, <1>3 DEF Typed

LEMMA RunFacts ==
  ASSUME Typed
  PROVE  /\ run \in Runs \cup {0} /\ target \in 0..Len(Targets)
         /\ clock \in Nat
BY DEF Typed

LEMMA InitInv == Init => IInv
<1> SUFFICES ASSUME Init PROVE IInv
  OBVIOUS
<1> USE DEF Init, H!Init
<1>1. Typed
  <2>1. status \in [Runs -> {"none", "running", "success", "failed"}]
    OBVIOUS
  <2>2. target \in 0..Len(Targets)
    BY TargetFacts
  <2> QED
    BY <2>1, <2>2, Numbers, PostFacts DEF Typed, Pages
<1>2. InQuota
  BY Numbers DEF InQuota
<1> QED
  BY <1>1, <1>2 DEF IInv, OnePage, RunOpen, Named, Fresh, Moments, Unique,
                    CollectedIsStored

-----------------------------------------------------------------------------
\* Steps that collect nothing and store nothing: the posts and the rows are
\* as before, or dropped with the run.
StillInv ==
  /\ Named' /\ Unique' /\ Fresh' /\ Moments' /\ CollectedIsStored' /\ InQuota'

LEMMA StillFacts ==
  ASSUME IInv, Typed', UNCHANGED <<rows, posts>>, clock <= clock',
         pc' # "finish",
         pc' \in {"idle", "raised"} \/ pc \notin {"idle", "finish", "raised"},
         pc' \in {"page", "load", "collect", "launch"} =>
           pc \in {"page", "load", "collect", "launch"}
  PROVE  StillInv
<1> USE DEF IInv
<1>1. clock \in Nat /\ clock' \in Nat
  BY DEF Typed
<1>2. /\ \A r \in rows : r.key.kind = "clock" => r.key.of \in Nat
      /\ \A i \in DOMAIN posts :
           posts[i].key.kind = "clock" => posts[i].key.of \in Nat
  BY PostFacts DEF Typed, Keys
<1>3. Named'
  BY <1>1, <1>2 DEF Named, Names
<1>4. Fresh'
  BY <1>1, <1>2 DEF Fresh
<1> QED
  BY <1>3, <1>4 DEF StillInv, Moments, Unique, CollectedIsStored, InQuota

\* The end of a run, whatever became of its row.
LEMMA EndRunFacts ==
  ASSUME IInv, EndRun, UNCHANGED rows, Typed'
  PROVE  StillInv /\ OnePage' /\ posts' = <<>> /\ ~error'
BY Numbers DEF EndRun, IInv, StillInv, OnePage, Named, Names, Moments, Unique,
     Fresh, CollectedIsStored, InQuota

LEMMA EndRunType ==
  ASSUME Typed, EndRun, UNCHANGED rows, target' \in 0..Len(Targets),
         status' \in [Runs -> {"none", "running", "success", "failed"}]
  PROVE  Typed'
BY Numbers, PostFacts DEF Typed, EndRun, Pages
-----------------------------------------------------------------------------
\* insert_scrape_run: the clock moves past every stored moment.
LEMMA StartRunInv == IInv /\ StartRun => IInv'
<1> SUFFICES ASSUME IInv, StartRun PROVE IInv'
  OBVIOUS
<1> USE DEF IInv
<1>1. run' \in Runs /\ run' = run + 1 /\ target' \in DOMAIN Targets
  <2>1. target' \in DOMAIN Targets
    BY TargetFacts, RunFacts DEF StartRun
  <2>2. run' = run + 1 /\ run < MaxRuns
    BY DEF StartRun
  <2>3. run' \in Runs
    BY <2>2, Numbers, RunFacts DEF Runs, Typed
  <2> QED
    BY <2>1, <2>2, <2>3
<1>2. /\ status[run'] = "none" /\ UNCHANGED rows
      /\ status' = [status EXCEPT ![run'] = "running"]
  BY DEF StartRun, H!Open
<1>3. Typed'
  <2>1. target' \in 0..Len(Targets) /\ clock' \in Nat
    <3>1. clock \in Nat /\ clock' = clock + 1
      BY DEF StartRun, Typed
    <3>2. target' \in 1..Len(Targets) /\ Len(Targets) \in Nat
      BY <1>1, TargetFacts
    <3> QED
      BY <3>1, <3>2
  <2>2. status' \in [Runs -> {"none", "running", "success", "failed"}]
    BY <1>2 DEF Typed
  <2>3. source' \in Pages
    BY DEF StartRun, Pages
  <2> QED
    BY <1>1, <1>2, <2>1, <2>2, <2>3 DEF StartRun, Typed, resultVars
<1>4. posts = <<>> /\ ~error /\ UNCHANGED <<posts, error>>
  BY DEF StartRun, RunOpen, resultVars
<1>5. RunOpen'
  BY <1>1, <1>2, <1>4 DEF StartRun, RunOpen, Typed, Runs
<1>6. clock \in Nat /\ clock' = clock + 1
  BY DEF Typed, StartRun
<1>7. Named' /\ Fresh'
  <2>1. \A r \in rows : r.key.kind = "clock" => r.key.of \in Nat
    BY DEF Typed, Keys
  <2> QED
    BY <1>2, <1>4, <1>6, <2>1 DEF Named, Names, Fresh
<1>8. OnePage' /\ Moments' /\ Unique' /\ CollectedIsStored'
  BY <1>2, <1>4 DEF StartRun, OnePage, Moments, Unique, CollectedIsStored
<1>9. InQuota'
  BY <1>4, Numbers DEF InQuota
<1> QED
  BY <1>3, <1>5, <1>7, <1>8, <1>9

\* The pages, up to the posts they show.
LEMMA PageInv ==
  ASSUME IInv,
         \/ Launch \/ LaunchRaises \/ OpenPage \/ LoadAgain \/ LoadIsUseless
         \/ Loaded \/ PageDone \/ Scroll \/ SearchDone \/ ScrapeRaises
         \/ Exit \/ Raise
  PROVE  IInv'
<1> USE DEF IInv
<1>1. UNCHANGED <<runVars, posts>>
  BY DEF Launch, LaunchRaises, OpenPage, LoadAgain, LoadIsUseless, Loaded,
       PageDone, Scroll, SearchDone, ScrapeRaises, Exit, Raise, resultVars, pageVars
<1>2. UNCHANGED <<status, rows, run, target>>
  BY <1>1 DEF runVars, dbVars
<1>3. /\ clock' \in Nat /\ clock <= clock'
      /\ error' \in BOOLEAN
      /\ attempts' \in 0..MaxRetries - 1 /\ scrolls' \in 0..MaxScrolls - 1
  <2>1. /\ UNCHANGED clock \/ clock' = clock + 1
        /\ error' \in BOOLEAN
        /\ UNCHANGED attempts \/ attempts' = 0 \/
             (attempts' = attempts + 1 /\ attempts + 1 < MaxRetries)
        /\ UNCHANGED scrolls \/
             (scrolls' = scrolls + 1 /\ scrolls + 1 < MaxScrolls)
    BY DEF Launch, LaunchRaises, OpenPage, LoadAgain, LoadIsUseless, Loaded,
           PageDone, Scroll, SearchDone, ScrapeRaises, Exit, Raise, resultVars,
           pageVars, Typed
  <2>2. clock \in Nat /\ attempts \in 0..MaxRetries - 1 /\ scrolls \in 0..MaxScrolls - 1
    BY DEF Typed
  <2> QED
    BY <2>1, <2>2, Numbers
<1>4. shown' \subseteq Posts
  <2>1. pc # "idle" => Visible \subseteq Posts
    BY TargetFacts DEF Visible, RunOpen
  <2> QED
    BY <2>1
    DEF Launch, LaunchRaises, OpenPage, LoadAgain, LoadIsUseless, Loaded,
        PageDone, Scroll, SearchDone, ScrapeRaises, Exit, Raise, pageVars, Typed
<1>5. /\ pc \notin {"idle"} /\ pc' # "idle"
      /\ pc' \in {"page", "load", "collect", "exit", "store", "raised"}
      /\ source' \in Pages /\ tried' \subseteq Pages
      /\ pc \in {"finish", "raised"} => pc' = "raised"
      /\ pc' \in {"page", "load", "collect", "launch"} =>
           pc \in {"page", "load", "collect", "launch"}
  BY DEF Launch, LaunchRaises, OpenPage, LoadAgain, LoadIsUseless, Loaded, Onward,
         PageDone, Scroll, SearchDone, ScrapeRaises, Exit, Raise, pageVars, Typed,
         Pages
<1>6. Typed'
  BY <1>1, <1>2, <1>3, <1>4, <1>5 DEF Typed
<1>7. OnePage'
  BY DEF OnePage, Launch, LaunchRaises, OpenPage, LoadAgain, LoadIsUseless, Loaded,
         Onward, PageDone, Scroll, SearchDone, ScrapeRaises, Exit, Raise, pageVars
<1>8. RunOpen'
  BY <1>2, <1>5 DEF RunOpen
<1>9. StillInv
  BY <1>1, <1>2, <1>3, <1>5, <1>6, StillFacts
<1> QED
  BY <1>6, <1>7, <1>8, <1>9 DEF StillInv

\* A post is looked at.
LEMMA YieldInv == ASSUME IInv, NEW p \in Posts, Yield(p) PROVE IInv'
<1> USE DEF IInv
<1>1. PICK key \in KeysOf(p) :
        /\ pc = "collect" /\ ~Seen(key)
        /\ posts' = Append(posts, [key |-> key, post |-> p])
        /\ pc' = IF Len(posts') >= MaxPosts THEN "exit" ELSE "collect"
        /\ shown' = shown \ {p}
        /\ UNCHANGED <<runVars, source, tried, open, attempts, scrolls, error, clock>>
  BY DEF Yield
<1> DEFINE x == [key |-> key, post |-> p]
<1>2. /\ x \in [key: Keys, post: Posts] /\ Names(x)
      /\ x.key = key
      /\ x.key.kind = "clock" => x.key.of = clock /\ source = "search"
  BY KeyFacts
<1>3. posts' = Append(posts, x) /\ posts \in Seq([key: Keys, post: Posts])
  BY <1>1 DEF Typed
<1> HIDE DEF x
<1>4. /\ posts' \in Seq([key: Keys, post: Posts])
      /\ Len(posts) \in Nat /\ Len(posts') = Len(posts) + 1
      /\ DOMAIN posts = 1..Len(posts) /\ DOMAIN posts' = 1..(Len(posts) + 1)
      /\ \A i \in DOMAIN posts : posts'[i] = posts[i]
      /\ posts'[Len(posts) + 1] = x
      /\ \A i \in DOMAIN posts' : i \in DOMAIN posts \/ i = Len(posts) + 1
  BY <1>2, <1>3
<1>5. UNCHANGED <<status, rows, run, target>>
  BY <1>1 DEF runVars, dbVars
<1>6. Typed'
  BY <1>1, <1>4, <1>5 DEF Typed
<1>7. InQuota'
  BY <1>1, <1>4, Numbers DEF InQuota
<1>8. Named'
  BY <1>1, <1>2, <1>4, <1>5 DEF Named, Names
<1>9. Fresh'
  BY <1>1, <1>2, <1>4, <1>5 DEF Fresh
<1>10. Moments'
  <2>1. x.key.kind = "clock" => \A i \in DOMAIN posts : posts[i].key # x.key
    BY <1>1, <1>2 DEF Seen
  <2> QED
    BY <1>4, <2>1 DEF Moments
<1>11. OnePage' /\ RunOpen' /\ Unique' /\ CollectedIsStored'
  BY <1>1, <1>5 DEF OnePage, RunOpen, Unique, CollectedIsStored
<1> QED
  BY <1>6, <1>7, <1>8, <1>9, <1>10, <1>11

LEMMA SkipInv == ASSUME IInv, NEW p \in Posts, Skip(p) PROVE IInv'
<1> USE DEF IInv
<1>1. Typed'
  BY DEF Skip, Typed, runVars, dbVars, resultVars
<1>2. StillInv
  BY <1>1, StillFacts DEF Skip, runVars, dbVars, resultVars, Typed
<1> QED
  BY <1>1, <1>2
  DEF Skip, StillInv, OnePage, RunOpen, runVars, dbVars, resultVars

\* A set of numbers that is not empty has a least one.
LEMMA LeastOf ==
  ASSUME NEW S \in SUBSET Nat, NEW n \in S
  PROVE  \E k \in S : \A j \in S : k <= j
<1>1. IsWellFoundedOn(OpToRel(<, Nat), Nat)
  BY NatLessThanWellFounded
<1>2. PICK k \in S : \A j \in S : <<j, k>> \notin OpToRel(<, Nat)
  BY <1>1, WFMin
<1>3. \A j \in S : ~(j < k) /\ j \in Nat /\ k \in Nat
  BY <1>2 DEF OpToRel
<1> QED
  BY <1>3

\* INSERT OR IGNORE of everything that was yielded.
LEMMA StoreFacts ==
  ASSUME IInv, Store
  PROVE  /\ rows' \subseteq [key: Keys, post: Posts, run: Runs]
         /\ CollectedIsStored' /\ Named' /\ Unique'
         /\ H!Store(run)
<1> USE DEF IInv
<1>1. /\ pc = "store" /\ pc' = "finish" /\ rows' = rows \cup NewRows
      /\ UNCHANGED <<status, run, posts, clock>>
  BY DEF Store, resultVars
<1>2. run \in Runs /\ status[run] = "running"
  BY <1>1 DEF RunOpen
<1>3. \A i \in DOMAIN posts :
        /\ posts[i].key \in Keys /\ posts[i].post \in Posts
        /\ RowOf(i) \in [key: Keys, post: Posts, run: Runs]
        /\ RowOf(i).key = posts[i].key /\ RowOf(i).post = posts[i].post
        /\ RowOf(i).run = run
  BY <1>2, PostFacts DEF RowOf, IInv
<1>4. \A a \in NewRows :
        /\ a \in [key: Keys, post: Posts, run: Runs] /\ a.run = run
        /\ ~Stored(a.key) /\ Names(a)
        /\ \E i \in DOMAIN posts : a = RowOf(i) /\ BringsKey(i)
  BY <1>3 DEF NewRows, BringsKey, Named, Names
<1>5. \A a, b \in rows' : a.key = b.key => a = b
  <2>1. ASSUME NEW a \in NewRows, NEW b \in NewRows, a.key = b.key
        PROVE  a = b
    <3>1. PICK i \in DOMAIN posts : a = RowOf(i) /\ BringsKey(i)
      BY <1>4
    <3>2. PICK j \in DOMAIN posts : b = RowOf(j) /\ BringsKey(j)
      BY <1>4
    <3>3. posts[i].key = posts[j].key
      BY <1>3, <2>1, <3>1, <3>2
    <3>4. i \in 1..Len(posts) /\ j \in 1..Len(posts) /\ Len(posts) \in Nat
      BY DEF Typed
    <3>5. ~(i < j) /\ ~(j < i)
      BY <3>1, <3>2, <3>3, <3>4 DEF BringsKey
    <3> QED
      BY <3>1, <3>2, <3>4, <3>5
  <2>2. \A a \in NewRows, b \in rows : a.key # b.key
    BY <1>4 DEF Stored
  <2> QED
    BY <1>1, <2>1, <2>2 DEF Unique
<1>6. ASSUME NEW i \in DOMAIN posts
      PROVE  \E r \in rows' : /\ r.key = posts[i].key
                              /\ posts[i].key # Blank => r.post = posts[i].post
  <2>1. \E r \in rows' : r.key = posts[i].key
    <3>1. CASE Stored(posts[i].key)
      BY <1>1, <3>1 DEF Stored
    <3>2. CASE ~Stored(posts[i].key)
      <4> DEFINE Same == {j \in 1..i : posts[j].key = posts[i].key}
      <4>1. i \in 1..Len(posts) /\ Len(posts) \in Nat /\ DOMAIN posts = 1..Len(posts)
        BY DEF Typed
      <4>2. PICK k \in Same : \A j \in Same : k <= j
        <5>1. i \in Same
          BY <4>1
        <5>2. Same \subseteq Nat
          BY <4>1
        <5> HIDE DEF Same
        <5> QED
          BY <5>1, <5>2, LeastOf
      <4>3. k \in DOMAIN posts /\ BringsKey(k) /\ posts[k].key = posts[i].key
        BY <3>2, <4>1, <4>2 DEF BringsKey
      <4>4. RowOf(k) \in NewRows
        BY <4>3 DEF NewRows
      <4> QED
        BY <1>1, <1>3, <4>3, <4>4
    <3> QED
      BY <3>1, <3>2
  <2>2. PICK r \in rows' : r.key = posts[i].key
    BY <2>1
  <2>3. posts[i].key \in Keys /\ Names(posts[i])
    BY <1>3 DEF Named
  <2>4. CASE r.key.kind \in {"native", "element"}
    <3>1. Names(r)
      BY <1>1, <1>4 DEF Named
    <3> QED
      BY <2>2, <2>3, <2>4, <3>1 DEF Names
  <2>5. CASE r.key.kind = "clock"
    <3>1. r \notin rows
      <4> SUFFICES ASSUME r \in rows PROVE FALSE
        OBVIOUS
      <4>1. r.key.of < posts[i].key.of /\ posts[i].key.of \in Nat
        BY <1>1, <2>2, <2>3, <2>5 DEF Fresh, Keys
      <4> QED
        BY <2>2, <4>1
    <3>2. PICK j \in DOMAIN posts : r = RowOf(j)
      BY <1>1, <1>4, <3>1
    <3>3. i = j
      BY <1>3, <2>2, <2>5, <3>2 DEF Moments
    <3> QED
      BY <1>3, <2>2, <3>2, <3>3
  <2>6. CASE r.key.kind = "blank"
    BY <2>2, <2>3, <2>6 DEF Keys, Blank
  <2> QED
    BY <2>2, <2>3, <2>4, <2>5, <2>6 DEF Keys
<1>7. Named'
  BY <1>1, <1>4 DEF Named, Names
<1>8. Unique'
  BY <1>1, <1>5 DEF Unique
<1>9. H!Store(run)
  BY <1>1, <1>2, <1>4, <1>5 DEF H!Store
<1>10. CollectedIsStored'
  BY <1>1, <1>6 DEF CollectedIsStored
<1> QED
  BY <1>1, <1>4, <1>7, <1>8, <1>9, <1>10 DEF Typed

LEMMA StoreInv == IInv /\ Store => IInv'
<1> SUFFICES ASSUME IInv, Store PROVE IInv'
  OBVIOUS
<1>1. Typed'
  BY StoreFacts DEF Store, IInv, Typed, pageVars, resultVars
<1> QED
  BY <1>1, StoreFacts DEF IInv, Store, OnePage, InQuota, RunOpen, Fresh,
       Moments, pageVars, resultVars

LEMMA FinishInv == IInv /\ (Finish \/ FinishRaised \/ Crash) => IInv'
<1> SUFFICES ASSUME IInv, Finish \/ FinishRaised \/ Crash PROVE IInv'
  OBVIOUS
<1>1. EndRun /\ UNCHANGED rows
  BY DEF Finish, FinishRaised, Crash, dbVars
<1>2. target' \in 0..Len(Targets)
  <2>1. target' = target \/ target' = 0
    BY DEF Finish, FinishRaised, Crash
  <2>2. target \in 0..Len(Targets) /\ 0 \in 0..Len(Targets)
    BY TargetFacts, RunFacts DEF IInv
  <2> QED
    BY <2>1, <2>2
<1>3. \/ UNCHANGED status
      \/ \E s \in {"success", "failed"} : status' = [status EXCEPT ![run] = s]
  BY DEF Finish, FinishRaised, Crash, dbVars
<1>4. status' \in [Runs -> {"none", "running", "success", "failed"}]
  BY <1>3 DEF IInv, Typed
<1>5. Typed'
  BY <1>1, <1>2, <1>4, EndRunType DEF IInv
<1>6. \A r \in Runs : r # run => status'[r] = status[r]
  BY <1>3 DEF IInv, Typed
<1>7. StillInv /\ OnePage' /\ posts' = <<>> /\ ~error'
  BY <1>1, <1>5, EndRunFacts
<1>8. RunOpen'
  BY <1>1, <1>6, <1>7 DEF EndRun, RunOpen, IInv, Typed, Runs
<1> QED
  BY <1>5, <1>7, <1>8 DEF IInv, StillInv

LEMMA Inductive == IInv /\ [Next]_vars => IInv'
<1> SUFFICES ASSUME IInv, [Next]_vars PROVE IInv'
  OBVIOUS
<1>1. CASE UNCHANGED vars
  BY <1>1 DEF vars, dbVars, pageVars, resultVars, IInv, Typed, OnePage, InQuota,
       RunOpen, Named, Names, Fresh, Moments, Unique, CollectedIsStored
<1>2. CASE Next
  BY <1>2, StartRunInv, PageInv, YieldInv, SkipInv, StoreInv, FinishInv
  DEF Next, Scrape, Record
<1> QED
  BY <1>1, <1>2

LEMMA Inductively == Spec => []IInv
BY InitInv, Inductive, PTL DEF Spec

-----------------------------------------------------------------------------
\* What is collected stays within the quota, and one page is open at most.
THEOREM TypeCorrect == Spec => []TypeOK
<1>1. IInv => TypeOK
  <2> SUFFICES ASSUME IInv PROVE TypeOK
    OBVIOUS
  <2>1. open \subseteq {"browser", source} /\ source \in Pages
    BY DEF IInv, OnePage, Typed
  <2>2. Cardinality(open) <= 2
    <3>1. IsFiniteSet({"browser"}) /\ Cardinality({"browser"}) = 1
      BY FS_Singleton
    <3>2. source # "browser"
      BY <2>1 DEF Pages
    <3>3. {"browser"} \cup {source} = {"browser", source}
      OBVIOUS
    <3>4. /\ IsFiniteSet({"browser", source})
          /\ Cardinality({"browser", source}) = 2
      BY <3>1, <3>2, <3>3, FS_AddElement
    <3>5. Cardinality(open) <= Cardinality({"browser", source})
      BY <2>1, <3>4, FS_Subset
    <3> QED
      BY <3>4, <3>5
  <2> QED
    BY <2>1, <2>2 DEF IInv, TypeOK, Typed, InQuota
<1> QED
  BY <1>1, Inductively, PTL

\* A post that has an id, or any Reddit post, has one row per way it was read.
THEOREM StoredOnceCorrect == Spec => []StoredOnce
<1>1. IInv => StoredOnce
  <2> SUFFICES ASSUME IInv, NEW a \in rows, NEW b \in rows,
                      a.post = b.post, a.key.kind = b.key.kind,
                      a.post \in Linked \/ a.key.kind # "clock"
               PROVE  a = b
    BY DEF StoredOnce
  <2>1. a.key.kind # "clock"
    BY DEF IInv, Named, Names
  <2>2. a.key.of = b.key.of
    BY <2>1 DEF IInv, Named, Names, Typed, Keys
  <2>3. a.key = b.key
    BY <2>1, <2>2 DEF IInv, Typed, Keys
  <2> QED
    BY <2>3 DEF IInv, Unique
<1> QED
  BY <1>1, Inductively, PTL

\* Everything a run collected under an id is stored as what it is when the
\* run ends, and what it collected without one has the row of the first such
\* post (INSERT OR IGNORE with UNIQUE(platform, post_id)).
THEOREM CollectedIsStoredCorrect == Spec => []CollectedIsStored
BY Inductively, PTL DEF IInv

\* A Reddit run opens the JSON page first and the rendered one after it.  It
\* leaves them at the quota, with an exception, or when both were opened.
PagesInOrder ==
  /\ pc = "idle" => tried = {}
  /\ pc # "idle" /\ Platform = "reddit" =>
       /\ pc = "launch" => source = "json" /\ tried = {}
       /\ pc = "page" =>
            \/ source = "json" /\ tried = {}
            \/ source = "dom" /\ tried = {"json"}
       /\ pc \in {"load", "collect"} =>
            \/ source = "json" /\ tried = {"json"}
            \/ source = "dom" /\ tried = {"json", "dom"}
       /\ pc \in {"exit", "store", "finish"} /\ ~error
            /\ Len(posts) < MaxPosts => tried = {"json", "dom"}

LEMMA PagesInOrderStep ==
  ASSUME IInv, IInv', PagesInOrder, [Next]_vars
  PROVE  PagesInOrder'
<1> USE DEF PagesInOrder, Platform
<1>1. CASE UNCHANGED vars
  BY <1>1 DEF vars, runVars, dbVars, pageVars, resultVars
<1>2. CASE StartRun
  BY <1>2 DEF StartRun
<1>3. CASE Launch \/ LaunchRaises \/ OpenPage
  <2>1. CASE Launch
    BY <2>1 DEF Launch, runVars, resultVars
  <2>2. CASE LaunchRaises
    BY <2>2 DEF LaunchRaises, runVars, pageVars
  <2>3. CASE OpenPage
    <3>1. UNCHANGED target
      BY <2>3 DEF OpenPage, runVars
    <3> QED
      BY <2>3, <3>1 DEF OpenPage
  <2> QED
    BY <1>3, <2>1, <2>2, <2>3
<1>4. CASE LoadAgain \/ LoadIsUseless \/ Loaded
  BY <1>4 DEF LoadAgain, LoadIsUseless, Loaded, Onward, runVars, resultVars
<1>5. ASSUME NEW p \in Posts, Yield(p)
      PROVE  PagesInOrder'
  <2>1. Len(posts') \in Nat /\ MaxPosts \in Nat
    BY Numbers DEF IInv, Typed
  <2>2. pc' = "exit" => ~(Len(posts') < MaxPosts)
    BY <1>5, <2>1 DEF Yield
  <2> QED
    BY <1>5, <2>2 DEF Yield, runVars
<1>6. ASSUME NEW p \in Posts, Skip(p)
      PROVE  PagesInOrder'
  BY <1>6 DEF Skip, runVars, resultVars
<1>7. CASE PageDone \/ Scroll \/ SearchDone \/ ScrapeRaises
  BY <1>7 DEF PageDone, Scroll, SearchDone, ScrapeRaises, Onward, runVars, resultVars
<1>8. CASE Exit \/ Store \/ Raise
  BY <1>8 DEF Exit, Store, Raise, runVars, pageVars, resultVars
<1>9. CASE Finish \/ FinishRaised \/ Crash
  BY <1>9 DEF Finish, FinishRaised, Crash, EndRun
<1> QED
  BY <1>1, <1>2, <1>3, <1>4, <1>5, <1>6, <1>7, <1>8, <1>9 DEF Next, Scrape, Record

\* A Reddit scrape that ends without an exception and below its quota has
\* tried the JSON and the rendered page.
THEOREM FallbackCorrect == Spec => []FallbackTried
<1>1. Init => PagesInOrder
  BY DEF Init, PagesInOrder
<1>2. PagesInOrder => FallbackTried
  BY DEF PagesInOrder, FallbackTried
<1> QED
  BY <1>1, <1>2, PagesInOrderStep, Inductively, PTL DEF Spec

\* The scrape stage implements Harvest: its transactions are Open, Store and
\* End, and all that happens in the browser is a stutter.
THEOREM Refinement == Spec => ImplementsHarvest
<1>1. Init => H!Init
  BY DEF Init
<1>2. IInv /\ [Next]_vars => [H!Next]_(H!vars)
  <2> SUFFICES ASSUME IInv, [Next]_vars
               PROVE  (\E r \in Runs : H!Open(r) \/ H!Store(r) \/ H!End(r))
                        \/ UNCHANGED <<status, rows>>
    BY DEF H!Next, H!vars
  <2>1. CASE StartRun
    BY <2>1, Numbers DEF StartRun, IInv, Typed, Runs
  <2>2. CASE Store
    BY <2>2, StoreFacts DEF Store, IInv, RunOpen
  <2>3. CASE Finish \/ FinishRaised
    BY <2>3 DEF Finish, FinishRaised, IInv, RunOpen, H!End
  <2>4. CASE ~(StartRun \/ Store \/ Finish \/ FinishRaised)
    BY <2>4 DEF Next, Scrape, Record, Launch, LaunchRaises, OpenPage, LoadAgain,
         LoadIsUseless, Loaded, Yield, Skip, PageDone, Scroll, SearchDone,
         ScrapeRaises, Exit, Raise, Crash, vars, runVars, dbVars
  <2> QED
    BY <2>1, <2>2, <2>3, <2>4
<1> QED
  BY <1>1, <1>2, Inductively, PTL DEF Spec, ImplementsHarvest, H!Spec
-----------------------------------------------------------------------------
(***************************************************************************)
(* Why a run ends: what is ahead of it, in the order of importance the     *)
(* statements to come, the attempts or scrolls left at this one, and the   *)
(* posts that are shown and were not looked at.                            *)
(***************************************************************************)
Ahead ==
  CASE pc = "idle"    -> 0
    [] pc = "raised"  -> 1
    [] pc = "finish"  -> 2
    [] pc = "store"   -> 3
    [] pc = "exit"    -> 4
    [] pc = "collect" -> IF source = "json" THEN 8 ELSE 5
    [] pc = "load"    -> IF source = "json" THEN 9 ELSE 6
    [] pc = "page"    -> IF source = "json" THEN 10 ELSE 7
    [] pc = "launch"  -> 11

Turns ==
  IF pc = "load" THEN MaxRetries - attempts
  ELSE IF pc = "collect" THEN MaxScrolls - scrolls ELSE 0

Unread == Cardinality(shown)

\* The lexicographic order of these triples.
Measures == Nat \X (Nat \X Nat)
Before == OpToRel(<, Nat)
Lower == LexPairOrdering(Before, LexPairOrdering(Before, Before, Nat, Nat),
                         Nat, Nat \X Nat)

Measure == <<Ahead, <<Turns, Unread>>>>

LEMMA MeasureType ==
  ASSUME IInv
  PROVE  Ahead \in Nat /\ Turns \in Nat /\ Unread \in Nat /\ IsFiniteSet(shown)
<1>1. IsFiniteSet(shown) /\ Unread \in Nat
  BY ScrapingAssumption, FS_Subset, FS_CardinalityType DEF IInv, Typed, Unread
<1>2. Ahead \in Nat
  BY DEF IInv, Typed, Ahead
<1>3. Turns \in Nat
  BY Numbers DEF IInv, Typed, Turns
<1> QED
  BY <1>1, <1>2, <1>3

LEMMA LowerBy ==
  ASSUME NEW a \in Nat, NEW b \in Nat, NEW c \in Nat,
         NEW x \in Nat, NEW y \in Nat, NEW z \in Nat,
         a < x \/ (a = x /\ (b < y \/ (b = y /\ c < z)))
  PROVE  <<<<a, <<b, c>>>>, <<x, <<y, z>>>>>> \in Lower
BY DEF Lower, LexPairOrdering, Before, OpToRel

\* A post that was looked at is one less.
LEMMA ReadOne ==
  ASSUME IInv, NEW p \in shown, shown' = shown \ {p}
  PROVE  Unread' < Unread
<1>1. IsFiniteSet(shown)
  BY MeasureType
<1>2. Cardinality(shown \ {p}) = Cardinality(shown) - 1 /\ Cardinality(shown) \in Nat
  BY <1>1, FS_RemoveElement, FS_CardinalityType
<1> QED
  BY <1>2 DEF Unread

\* Every step of a run gets closer to its end, a crash at once.
LEMMA GoesDown ==
  ASSUME IInv, IInv', Next, pc # "idle"
  PROVE  \/ Ahead' < Ahead
         \/ Ahead' = Ahead /\ Turns' < Turns
         \/ Ahead' = Ahead /\ Turns' = Turns /\ Unread' < Unread
<1> USE DEF Ahead
<1>1. CASE Launch \/ LaunchRaises \/ OpenPage
  <2>1. pc \in {"launch", "page"} /\ source' = source
    BY <1>1 DEF Launch, LaunchRaises, OpenPage, pageVars
  <2>2. \/ pc = "launch" /\ pc' \in {"page", "raised"}
        \/ pc = "page" /\ pc' = "load"
    BY <1>1 DEF Launch, LaunchRaises, OpenPage
  <2> QED
    BY <2>1, <2>2
<1>2. CASE LoadAgain
  <2>1. Turns' < Turns
    BY <1>2, Numbers DEF LoadAgain, Turns, IInv, Typed
  <2> QED
    BY <1>2, <2>1 DEF LoadAgain
<1>3. CASE LoadIsUseless \/ PageDone
  <2>1. pc \in {"load", "collect"} /\ Onward
    BY <1>3 DEF LoadIsUseless, PageDone
  <2> QED
    BY <2>1 DEF Onward
<1>4. CASE Loaded
  BY <1>4 DEF Loaded
<1>5. ASSUME NEW p \in Posts, Yield(p) \/ Skip(p)
      PROVE  \/ Ahead' < Ahead
             \/ Ahead' = Ahead /\ Turns' < Turns
             \/ Ahead' = Ahead /\ Turns' = Turns /\ Unread' < Unread
  <2>1. /\ pc = "collect" /\ pc' \in {"collect", "exit"}
        /\ source' = source /\ scrolls' = scrolls
        /\ p \in shown /\ shown' = shown \ {p}
    BY <1>5 DEF Yield, Skip
  <2>2. Unread' < Unread
    BY <2>1, ReadOne
  <2>3. pc' = "collect" => Ahead' = Ahead /\ Turns' = Turns
    BY <2>1 DEF Turns
  <2>4. pc' = "exit" => Ahead' < Ahead
    BY <2>1
  <2> QED
    BY <2>1, <2>2, <2>3, <2>4
<1>6. CASE Scroll
  <2>1. Turns' < Turns
    BY <1>6, Numbers DEF Scroll, Turns, IInv, Typed
  <2> QED
    BY <1>6, <2>1 DEF Scroll
<1>7. CASE SearchDone \/ ScrapeRaises
  <2>1. pc \in {"page", "load", "collect"} /\ pc' = "exit"
    BY <1>7 DEF SearchDone, ScrapeRaises
  <2> QED
    BY <2>1
<1>8. CASE Exit \/ Store \/ Raise
  <2>1. \/ pc = "exit" /\ pc' = "store"
        \/ pc = "store" /\ pc' = "finish"
        \/ pc \in {"exit", "store", "finish"} /\ pc' = "raised"
    BY <1>8 DEF Exit, Store, Raise
  <2> QED
    BY <2>1
<1>9. CASE Finish \/ FinishRaised \/ Crash
  <2>1. pc' = "idle"
    BY <1>9 DEF Finish, FinishRaised, Crash, EndRun
  <2> QED
    BY <2>1 DEF IInv, Typed
<1>10. ~StartRun
  BY DEF StartRun
<1> QED
  BY <1>1, <1>2, <1>3, <1>4, <1>5, <1>6, <1>7, <1>8, <1>9, <1>10
  DEF Next, Scrape, Record

\* A run cannot go on for ever, whatever the sites show: every step of it, a
\* load that fails and is tried again, a post read, a scroll that shows new
\* ones, an exception, is a step down in an order that has no infinite
\* descent (_with_retry, the quota, the bound on scrolls in scrapers/).
RunsGoDown == [][pc # "idle" => <<Measure', Measure>> \in Lower]_vars

\* Every step of a run is a step down, and the measure keeps its type.
THEOREM RunsGoDownCorrect ==
  Spec => []( Measure \in Measures ) /\ RunsGoDown
<1>1. IInv => Measure \in Measures
  BY MeasureType DEF Measure, Measures
<1>2. IInv /\ IInv' /\ (Measure \in Measures)' /\ [Next]_vars =>
        [pc # "idle" => <<Measure', Measure>> \in Lower]_vars
  <2> SUFFICES ASSUME IInv, IInv', (Measure \in Measures)', Next, pc # "idle"
               PROVE  <<Measure', Measure>> \in Lower
    OBVIOUS
  <2>1. Ahead \in Nat /\ Turns \in Nat /\ Unread \in Nat
    BY MeasureType
  <2>2. Ahead' \in Nat /\ Turns' \in Nat /\ Unread' \in Nat
    BY DEF Measure, Measures
  <2> QED
    BY <2>1, <2>2, GoesDown, LowerBy DEF Measure
<1> QED
  BY <1>1, <1>2, Inductively, PTL DEF Spec, RunsGoDown

\* The order of RunsGoDown is well founded.
THEOREM LowerIsWellFounded == IsWellFoundedOn(Lower, Measures)
BY NatLessThanWellFounded, WFLexPairOrdering DEF Lower, Measures, Before
=============================================================================
