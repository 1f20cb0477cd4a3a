----------------------------- MODULE Scraping ------------------------------
(***************************************************************************)
(* The scrape stage of one pipeline process: for every target a scrape     *)
(* run, a browser, the pages of the platform's scraper, the posts it       *)
(* yields, and their rows in raw_posts.  Reddit is asked for JSON first    *)
(* and for the rendered page when that leaves the quota open; Twitter is   *)
(* one page that is scrolled.  A page that cannot be loaded is logged and  *)
(* the run goes on, so it ends in "success" with what there is; only an    *)
(* exception that leaves scrape() makes a run fail.                        *)
(*                                                                         *)
(* What a page shows, which load fails, which element cannot be read and   *)
(* where the process dies is the environment's choice.  What a launch that *)
(* fails halfway leaves running is outside the model.                      *)
(***************************************************************************)
EXTENDS Integers, FiniteSets, Sequences

CONSTANTS
  Posts,       \* the posts on the platforms
  Noise,       \* those _noise_filter drops: too short, or promotional
  Linked,      \* those whose id the site gives: in the JSON, in a permalink
  Targets,     \* the (platform, query) pairs, in the order of the loops
  Shows,       \* Shows[i]: the posts a search for target i can show
  MaxPosts,    \* SCRAPER_MAX_POSTS_PER_RUN
  MaxRetries,  \* SCRAPER_MAX_RETRIES
  MaxScrolls,  \* max(5, max_posts // 20)
  MaxRuns      \* bound: scrape runs modelled

ASSUME ScrapingAssumption ==
  /\ IsFiniteSet(Posts) /\ Noise \subseteq Posts /\ Linked \subseteq Posts
  /\ Targets \in Seq({"reddit", "twitter"}) /\ Targets # <<>>
  /\ Shows \in [DOMAIN Targets -> SUBSET Posts]
  /\ {MaxPosts, MaxRetries, MaxScrolls, MaxRuns} \subseteq Nat \ {0}

VARIABLES
  status, rows,   \* as in Harvest
  pc,
  run,            \* the current run, or the last one
  target,         \* its position in Targets; 0 before the first
  source,         \* the page in use: "json", "dom" or "search"
  tried,          \* the pages opened in this run
  open,           \* what the scraper holds open: "browser" and pages
  attempts,       \* loads of the current page that failed
  shown,          \* what it shows and was not looked at yet
  scrolls,
  posts,          \* result.posts: the list yielded, with the post_ids
  error,          \* result.error is set
  clock           \* in seconds

dbVars == <<status, rows>>
runVars == <<dbVars, run, target>>
pageVars == <<source, tried, open, attempts, shown, scrolls>>
resultVars == <<posts, error>>
vars == <<dbVars, pc, run, target, pageVars, resultVars, clock>>

Runs == 1..MaxRuns
Pages == {"json", "dom", "search"}

\* A post_id: the site's, as in "abc"; the id of the element that renders the
\* post, "t3_abc"; the second in which a tweet was read; or ''.
Keys == [kind: {"native", "element"}, of: Posts] \cup [kind: {"clock"}, of: Nat]
          \cup [kind: {"blank"}, of: {0}]

TypeOK ==
  /\ status \in [Runs -> {"none", "running", "success", "failed"}]
  /\ rows \subseteq [key: Keys, post: Posts, run: Runs]
  /\ pc \in {"idle", "launch", "page", "load", "collect", "exit", "store",
             "finish", "raised"}
  /\ run \in Runs \cup {0}
  /\ target \in 0..Len(Targets)
  /\ source \in Pages /\ tried \subseteq Pages
  /\ open \subseteq {"browser"} \cup Pages
  /\ Cardinality(open) <= 2
  /\ attempts \in 0..(MaxRetries - 1)
  /\ shown \subseteq Posts
  /\ scrolls \in 0..(MaxScrolls - 1)
  /\ posts \in Seq([key: Keys, post: Posts]) /\ Len(posts) <= MaxPosts
  /\ error \in BOOLEAN
  /\ clock \in Nat

H == INSTANCE Harvest WITH status <- status, rows <- rows, Runs <- Runs

Init ==
  /\ H!Init
  /\ pc = "idle" /\ run = 0 /\ target = 0
  /\ source = "json" /\ tried = {} /\ open = {} /\ attempts = 0
  /\ shown = {} /\ scrolls = 0
  /\ posts = <<>> /\ error = FALSE
  /\ clock = 0

Platform == Targets[target]
Visible == Shows[target]

-----------------------------------------------------------------------------
\* The loop over the targets, again and again: insert_scrape_run, then the
\* scraper's browser.
StartRun ==
  /\ pc = "idle"
  /\ run < MaxRuns
  /\ run' = run + 1
  /\ target' = (target % Len(Targets)) + 1
  /\ H!Open(run')
  /\ source' = IF Targets[target'] = "reddit" THEN "json" ELSE "search"
  /\ clock' = clock + 1
  /\ pc' = "launch"
  /\ UNCHANGED <<tried, open, attempts, shown, scrolls, resultVars>>

Launch ==
  /\ pc = "launch"
  /\ open' = {"browser"}
  /\ pc' = "page"
  /\ UNCHANGED <<runVars, source, tried, attempts, shown, scrolls,
                 resultVars, clock>>

LaunchRaises ==
  /\ pc = "launch"
  /\ pc' = "raised"
  /\ UNCHANGED <<runVars, pageVars, resultVars, clock>>

OpenPage ==
  /\ pc = "page"
  /\ open' = open \cup {source}
  /\ tried' = tried \cup {source}
  /\ attempts' = 0
  /\ pc' = "load"
  /\ UNCHANGED <<runVars, source, shown, scrolls, resultVars, clock>>

\* Mutant of LoadAgain: a loop that does not count its attempts.
LoadForEver ==
  /\ pc = "load"
  /\ UNCHANGED <<runVars, source, tried, open, shown, scrolls, pc,
                 resultVars, clock>>
  /\ attempts' = 1 - attempts

\* _with_retry: another attempt after one that raised.
LoadAgain ==
  /\ pc = "load"
  /\ attempts + 1 < MaxRetries
  /\ attempts' = attempts + 1
  /\ UNCHANGED <<runVars, source, tried, open, shown, scrolls, pc,
                 resultVars, clock>>

\* Mutant of Onward: what JSON did not give is not looked for elsewhere.
OnwardNowhere ==
  /\ pc' = "exit"
  /\ UNCHANGED source

\* The page yields no more: after Reddit's JSON comes the rendered page.
Onward ==
  IF source = "json"
    THEN pc' = "page" /\ source' = "dom"
    ELSE pc' = "exit" /\ UNCHANGED source

\* The attempts are used up, the answer holds no JSON, no post is rendered
\* in time, or there is a login wall: a warning, and the page is closed.
LoadIsUseless ==
  /\ pc = "load"
  /\ open' = open \ {source}
  /\ Onward
  /\ UNCHANGED <<runVars, tried, attempts, shown, scrolls, resultVars, clock>>

\* The JSON page is closed before its posts are looked at.
Loaded ==
  /\ pc = "load"
  /\ shown' \in SUBSET Visible
  /\ open' = IF source = "json" THEN open \ {source} ELSE open
  /\ pc' = "collect"
  /\ UNCHANGED <<runVars, source, tried, attempts, scrolls, resultVars, clock>>

-----------------------------------------------------------------------------
\* Mutant of KeysOf: a post is named after the moment it was read.
KeysOfReading(p) == {[kind |-> "clock", of |-> clock]}

Blank == [kind |-> "blank", of |-> 0]

IdOr(p, substitute) ==
  IF p \in Linked THEN [kind |-> "native", of |-> p] ELSE substitute

\* post.get("id", "").
JsonIds(p) == {IdOr(p, Blank)}

\* The element's id, or the permalink's if it has none, or ''.
RenderedIds(p) == {[kind |-> "element", of |-> p], IdOr(p, Blank)}

\* The link's id, or the time.
TweetIds(p) == {IdOr(p, [kind |-> "clock", of |-> clock])}

KeysOf(p) ==
  CASE source = "json" -> JsonIds(p)
    [] source = "dom" -> RenderedIds(p)
    [] source = "search" -> TweetIds(p)

\* seen_ids of the Twitter scraper; Reddit's has none, so a post may be listed
\* twice, from the JSON and from the rendered page.
Seen(key) == source = "search" /\ \E i \in DOMAIN posts : posts[i].key = key

\* Mutant of Yield: one post too many.
YieldPastQuota(p) ==
  \E key \in KeysOf(p) :
    /\ pc = "collect"
    /\ p \in shown \ Noise
    /\ ~Seen(key)
    /\ shown' = shown \ {p}
    /\ posts' = Append(posts, [key |-> key, post |-> p])
    /\ pc' = IF Len(posts') > MaxPosts THEN "exit" ELSE "collect"
    /\ UNCHANGED <<runVars, source, tried, open, attempts, scrolls, error, clock>>

\* A post is yielded and appended; at the quota scrape_all stops, and the
\* page that is still open is closed with the browser.
Yield(p) ==
  \E key \in KeysOf(p) :
    /\ pc = "collect"
    /\ p \in shown \ Noise
    /\ ~Seen(key)
    /\ shown' = shown \ {p}
    /\ posts' = Append(posts, [key |-> key, post |-> p])
    /\ pc' = IF Len(posts') >= MaxPosts THEN "exit" ELSE "collect"
    /\ UNCHANGED <<runVars, source, tried, open, attempts, scrolls, error, clock>>

\* Noise, a tweet seen before, or an element that could not be read, of which
\* only JSON's end the scrape.
Skip(p) ==
  /\ pc = "collect"
  /\ p \in shown
  /\ p \in Noise \/ source # "json"
  /\ shown' = shown \ {p}
  /\ UNCHANGED <<runVars, source, tried, open, attempts, scrolls, pc,
                 resultVars, clock>>

PageDone ==
  /\ pc = "collect"
  /\ source # "search"
  /\ shown = {}
  /\ open' = open \ {source}
  /\ Onward
  /\ UNCHANGED <<runVars, tried, attempts, shown, scrolls, resultVars, clock>>

\* Scroll, wait out the rate limit, look again: posts shown before may be
\* shown again.
Scroll ==
  /\ pc = "collect"
  /\ source = "search"
  /\ shown = {}
  /\ scrolls + 1 < MaxScrolls
  /\ scrolls' = scrolls + 1
  /\ shown' \in SUBSET Visible
  /\ clock' = clock + 1
  /\ UNCHANGED <<runVars, source, tried, open, attempts, pc, resultVars>>

\* The last scroll, or an exception, which the Twitter scraper logs.
SearchDone ==
  /\ pc = "collect"
  /\ source = "search"
  /\ open' = open \ {source}
  /\ shown' = {}
  /\ pc' = "exit"
  /\ UNCHANGED <<runVars, source, tried, attempts, scrolls, resultVars, clock>>

\* What leaves scrape(): no page could be had, Twitter's could not be
\* prepared and stays open, Reddit's rendered page could not be searched, or
\* a child of the JSON lacks a number.  The posts yielded before are kept.
ScrapeRaises ==
  /\ \/ pc = "page"
     \/ pc = "load" /\ source # "json" /\ (source = "search" => attempts = 0)
     \/ pc = "collect" /\ source = "json" /\ shown # {}
  /\ open' = IF source = "dom" THEN open \ {source} ELSE open
  /\ error' = TRUE
  /\ shown' = {}
  /\ pc' = "exit"
  /\ UNCHANGED <<runVars, source, tried, attempts, scrolls, posts,
                 clock>>

-----------------------------------------------------------------------------
\* __aexit__ closes the context, with its pages, and the browser.
Exit ==
  /\ pc = "exit"
  /\ open' = {}
  /\ shown' = {}
  /\ pc' = "store"
  /\ UNCHANGED <<runVars, source, tried, attempts, scrolls, resultVars, clock>>

\* INSERT OR IGNORE with UNIQUE(platform, post_id), one post after another:
\* the first to bring a key keeps it.
Stored(key) == \E r \in rows : r.key = key
RowOf(i) == [key |-> posts[i].key, post |-> posts[i].post, run |-> run]
BringsKey(i) ==
  /\ ~Stored(posts[i].key)
  /\ \A j \in 1..(i - 1) : posts[j].key # posts[i].key
NewRows == {RowOf(i) : i \in {j \in DOMAIN posts : BringsKey(j)}}

\* Mutant of Store: INSERT OR REPLACE, a known post moves to this run.
StoreReplacing ==
  /\ pc = "store"
  /\ rows' = {r \in rows : \A i \in DOMAIN posts : posts[i].key # r.key}
             \cup {RowOf(i) : i \in DOMAIN posts}
  /\ pc' = "finish"
  /\ UNCHANGED <<status, run, target, pageVars, resultVars, clock>>

\* Mutant of Store: a failed scrape is not stored.
StoreUnlessFailed ==
  /\ pc = "store"
  /\ rows' = IF error THEN rows ELSE rows \cup NewRows
  /\ pc' = "finish"
  /\ UNCHANGED <<status, run, target, pageVars, resultVars, clock>>

Store ==
  /\ pc = "store"
  /\ rows' = rows \cup NewRows
  /\ pc' = "finish"
  /\ UNCHANGED <<status, run, target, pageVars, resultVars, clock>>

\* The run is over: its locals are gone.
EndRun ==
  /\ pc' = "idle"
  /\ source' = "json" /\ tried' = {} /\ open' = {} /\ attempts' = 0
  /\ shown' = {} /\ scrolls' = 0
  /\ posts' = <<>> /\ error' = FALSE
  /\ UNCHANGED <<run, clock>>

Finish ==
  /\ pc = "finish"
  /\ status' = [status EXCEPT ![run] = IF error THEN "failed" ELSE "success"]
  /\ EndRun
  /\ UNCHANGED <<rows, target>>

\* An exception outside scrape_all: closing, storing or finishing raised.
Raise ==
  /\ pc \in {"exit", "store", "finish"}
  /\ pc' = "raised"
  /\ UNCHANGED <<runVars, pageVars, resultVars, clock>>

FinishRaised ==
  /\ pc = "raised"
  /\ status' = [status EXCEPT ![run] = "failed"]
  /\ EndRun
  /\ UNCHANGED <<rows, target>>

\* The process ends, or its database is gone: the run stays "running", and
\* the next one is for the first target again.
Crash ==
  /\ pc # "idle"
  /\ target' = 0
  /\ EndRun
  /\ UNCHANGED dbVars

Scrape ==
  \/ Launch \/ LaunchRaises \/ OpenPage \/ LoadAgain \/ LoadIsUseless \/ Loaded
  \/ \E p \in Posts : Yield(p) \/ Skip(p)
  \/ PageDone \/ Scroll \/ SearchDone \/ ScrapeRaises

Record == Exit \/ Store \/ Finish \/ Raise \/ FinishRaised

Next == StartRun \/ Scrape \/ Record \/ Crash

Spec == Init /\ [][Next]_vars

\* Every page call times out and the sleeps are finite, so a run that has
\* begun goes on.
FairSpec == Spec /\ WF_vars(Scrape \/ Record)

-----------------------------------------------------------------------------
\* A post has at most one row per way it was read, however often scrolls,
\* queries and runs show it again (README: "Deduplication is enforced at the
\* database level").  A tweet without a link is not covered, and a Reddit
\* post whose id was read once from the JSON or its permalink and once from
\* the rendered element has two rows.
StoredOnce ==
  \A a, b \in rows :
    /\ a.post = b.post /\ a.key.kind = b.key.kind
    /\ a.post \in Linked \/ a.key.kind # "clock"
    => a = b

\* When a run is about to be finished every post its scraper yielded under an
\* id has a row, and that row is this post's and no other's: also when the
\* scraper failed after it had yielded some.  Of the Reddit posts that come
\* without an id, which all are '', only the first one ever has a row.
CollectedIsStored ==
  pc = "finish" =>
    \A i \in DOMAIN posts : \E r \in rows :
      r.key = posts[i].key /\ (posts[i].key # Blank => r.post = posts[i].post)

\* "Try JSON endpoint first", "If JSON didn't fill quota, try DOM scrape"
\* (reddit.py, in scrape): a Reddit scrape that ends without an exception and
\* below its quota has opened both pages, whichever of them was useless.
\* (The file's own heading has the JSON as the fallback of the rendered page.)
FallbackTried ==
  pc \in {"store", "finish"} /\ Platform = "reddit" /\ ~error
    /\ Len(posts) < MaxPosts
  => tried = {"json", "dom"}

\* The stage keeps what Harvest promises.
ImplementsHarvest == H!Spec

\* No site keeps a scrape from ending: loads that fail, posts that never
\* stop coming, scrolls that show nothing new.
EveryScrapeEnds == (pc # "idle") ~> (pc = "idle")
=============================================================================
