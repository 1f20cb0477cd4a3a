----------------------------- MODULE Sentiment -----------------------------
(***************************************************************************)
(* The social sentiment pipeline: scrape, normalise, classify, aggregate,  *)
(* evaluate the alert rules, and the daily purge, over one SQLite file.    *)
(* A worker is a process that runs the pipeline: the scheduler, and the    *)
(* cron script or an operator beside it.  Each helper of storage/db.py is  *)
(* a transaction of its own, so workers interleave between helpers and a   *)
(* run that stops leaves behind what its transactions committed.           *)
(*                                                                         *)
(* Every sentiment_results row refers to a classifier run, foreign keys    *)
(* are enforced and nothing in the pipeline writes classifier_runs: a run  *)
(* that has a post to classify raises.  So there is never a result and     *)
(* never an aggregate, and of the rules that read aggregates only the one  *)
(* that reports their absence can hold.                                    *)
(***************************************************************************)
EXTENDS Integers, FiniteSets

CONSTANTS
  Workers,      \* processes that run the pipeline
  Posts,        \* what the platforms show, one value per (platform, post_id)
  Short,        \* the posts whose normalised text has under five characters
  Targets,      \* (platform, query) pairs
  Platform,     \* Platform[t]: its platform
  Scopes,       \* (brand, platform) pairs whose aggregates are evaluated
  FetchLimit,   \* raw posts normalised per run
  NoAlert,      \* stands where a worker fires no alert
  Start, End,   \* the time modelled, in ticks
  Hour, Day,    \* their length in ticks
  RuleWindow,   \* "the last 2 hours" of the scraper rule
  Suppression,  \* ALERT_SUPPRESSION_MINUTES
  RawAge, AlertAge  \* retention of raw_posts and alert_events

ASSUME SentimentAssumption ==
  /\ Short \subseteq Posts
  /\ IsFiniteSet(Posts)
  /\ {FetchLimit, Hour, Day} \subseteq Nat \ {0}
  /\ {Start, End, RuleWindow, Suppression, RawAge, AlertAge} \subseteq Nat
  /\ Start <= End /\ AlertAge > 0 /\ Day % Hour = 0

VARIABLES
  clock,
  raw,          \* raw[p]: when p's raw_posts row was inserted, which names it
  normalized,   \* normalized[p]: the raw_posts row p's normalized row refers to
  success, failure,  \* of each platform: start of its last such scrape run
  events,       \* the alert_events rows
  calls,        \* calls[a]: how often alert a was handed to Telegram
  pc,
  todo,         \* what is left of the loop the worker is in
  started,      \* when its current scrape run began
  batch,        \* the raw posts it fetched
  alert, sent   \* the alert it is firing and what Telegram answered

dbVars == <<raw, normalized, success, failure, events>>
worldVars == <<clock, calls>>
callVars == <<pc, todo, started, batch, alert, sent>>
vars == <<dbVars, worldVars, callVars>>

Never == -1
Times == Start..End
Platforms == {Platform[t] : t \in Targets}
Rules == {[name |-> "no_data", of |-> s] : s \in Scopes}
         \cup {[name |-> "scrape_failure", of |-> p] : p \in Platforms}

\* Mutant of HourOf: the bucket of the hour to come.
NextHourOf(time) == time \div Hour + 1

HourOf(time) == time \div Hour

\* An alert_id: the rule and the clock hour it is computed in.
Alerts == [rule: Rules, hour: 0..(End \div Hour)]

Steps == {"idle", "scrape", "store", "finish", "fetch", "normalize",
          "classify", "rules", "health", "insert", "send", "mark"}

TypeOK ==
  /\ clock \in Times
  /\ raw \in [Posts -> Times \cup {Never}]
  /\ normalized \in [Posts -> Times \cup {Never}]
  /\ success \in [Platforms -> Times \cup {Never}]
  /\ failure \in [Platforms -> Times \cup {Never}]
  /\ events \subseteq [id: Alerts, at: Times, sent: BOOLEAN]
  /\ calls \in [Alerts -> Nat]
  /\ pc \in [Workers -> Steps]
  /\ todo \in [Workers -> SUBSET (Targets \cup Rules)]
  /\ started \in [Workers -> Times \cup {Never}]
  /\ batch \in [Workers -> [Posts -> Times \cup {Never}]]
  /\ alert \in [Workers -> Alerts \cup {NoAlert}]
  /\ sent \in [Workers -> BOOLEAN]

Empty == [p \in Posts |-> Never]

Init ==
  /\ clock = Start
  /\ raw = Empty /\ normalized = Empty
  /\ success = [p \in Platforms |-> Never]
  /\ failure = [p \in Platforms |-> Never]
  /\ events = {} /\ calls = [a \in Alerts |-> 0]
  /\ pc = [w \in Workers |-> "idle"]
  /\ todo = [w \in Workers |-> {}]
  /\ started = [w \in Workers |-> Never]
  /\ batch = [w \in Workers |-> Empty]
  /\ alert = [w \in Workers |-> NoAlert]
  /\ sent = [w \in Workers |-> FALSE]

Goto(w, step) == pc' = [pc EXCEPT ![w] = step]

\* The run is over, or raised: its locals are gone.
EndRun(w) ==
  /\ Goto(w, "idle")
  /\ todo' = [todo EXCEPT ![w] = {}]
  /\ started' = [started EXCEPT ![w] = Never]
  /\ batch' = [batch EXCEPT ![w] = Empty]
  /\ alert' = [alert EXCEPT ![w] = NoAlert]
  /\ sent' = [sent EXCEPT ![w] = FALSE]

-----------------------------------------------------------------------------
\* Time.  A stored time is text with a "T", the bound it is compared with is
\* text with a blank, so on the bound's own day every stored time is later.
DayOf(time) == time \div Day
Before(time, bound) == DayOf(time) < DayOf(bound)

\* The two statements between an alert's key and its row take no hour.
Prompt == \A w \in Workers : pc[w] = "insert" => alert[w].hour = HourOf(clock)

Tick ==
  /\ clock < End
  /\ Prompt
  /\ clock' = clock + 1
  /\ UNCHANGED <<dbVars, calls, callVars>>

-----------------------------------------------------------------------------
\* Ingest: insert_scrape_run and the scraper, for every target.
StartRun(w) ==
  /\ pc[w] = "idle"
  /\ Goto(w, "scrape")
  /\ todo' = [todo EXCEPT ![w] = Targets]
  /\ UNCHANGED <<dbVars, worldVars, started, batch, alert, sent>>

Scrape(w) ==
  /\ pc[w] = "scrape"
  /\ todo[w] # {}
  /\ started' = [started EXCEPT ![w] = clock]
  /\ Goto(w, "store")
  /\ UNCHANGED <<dbVars, worldVars, todo, batch, alert, sent>>

\* insert_raw_posts: INSERT OR IGNORE, so a known post stays as it is.
StoreRaw(w) ==
  /\ pc[w] = "store"
  /\ \E found \in SUBSET Posts :
       raw' = [p \in Posts |->
                 IF p \in found /\ raw[p] = Never THEN clock ELSE raw[p]]
  /\ Goto(w, "finish")
  /\ UNCHANGED <<normalized, success, failure, events, worldVars,
                 todo, started, batch, alert, sent>>

Later(a, b) == IF a > b THEN a ELSE b

\* finish_scrape_run: failed if the scraper reported an error or raised,
\* whatever posts were stored before.
FinishScrape(w) ==
  /\ pc[w] = "finish"
  /\ \E t \in todo[w] :
       LET p == Platform[t] IN
       /\ todo' = [todo EXCEPT ![w] = @ \ {t}]
       /\ \/ /\ success' = [success EXCEPT ![p] = Later(@, started[w])]
             /\ UNCHANGED failure
          \/ /\ failure' = [failure EXCEPT ![p] = Later(@, started[w])]
             /\ UNCHANGED success
  /\ started' = [started EXCEPT ![w] = Never]
  /\ Goto(w, "scrape")
  /\ UNCHANGED <<raw, normalized, events, worldVars, batch, alert, sent>>

Unprocessed == {p \in Posts : raw[p] # Never /\ normalized[p] = Never}

\* fetch_unprocessed_raw_posts: the oldest ones, up to the limit.
FetchRaw(w) ==
  /\ pc[w] = "scrape"
  /\ todo[w] = {}
  /\ \E S \in SUBSET Unprocessed :
       /\ Cardinality(S) <= FetchLimit
       /\ S # Unprocessed => Cardinality(S) = FetchLimit
       /\ \A p \in S, q \in Unprocessed \ S : raw[p] <= raw[q]
       /\ batch' = [batch EXCEPT ![w] =
                      [p \in Posts |-> IF p \in S THEN raw[p] ELSE Never]]
  /\ Goto(w, "normalize")
  /\ UNCHANGED <<dbVars, worldVars, todo, started, alert, sent>>

\* The rows insert_normalized_posts adds: INSERT OR IGNORE, and a post that
\* is too short is skipped and stays unprocessed.
NewRows(w) ==
  {p \in Posts \ Short : batch[w][p] # Never /\ normalized[p] = Never}

\* Mutant of Intact: PRAGMA foreign_keys is off.
Unenforced(w) == TRUE

\* REFERENCES raw_posts(id): the row that was fetched is still there.
Intact(w) == \A p \in NewRows(w) : raw[p] = batch[w][p]

Normalize(w) ==
  /\ pc[w] = "normalize"
  /\ Intact(w)
  /\ normalized' = [p \in Posts |->
       IF p \in NewRows(w) THEN batch[w][p] ELSE normalized[p]]
  /\ batch' = [batch EXCEPT ![w] = Empty]
  /\ Goto(w, "classify")
  /\ UNCHANGED <<raw, success, failure, events, worldVars,
                 todo, started, alert, sent>>

\* A row of the batch was purged meanwhile: the whole insert rolls back.
NormalizeRaises(w) ==
  /\ pc[w] = "normalize"
  /\ ~Intact(w)
  /\ EndRun(w)
  /\ UNCHANGED <<dbVars, worldVars>>

Unclassified == {p \in Posts : normalized[p] # Never}

\* upsert_sentiment_results with a classifier_run_id that was never
\* inserted: FOREIGN KEY constraint failed.
ClassifyRaises(w) ==
  /\ pc[w] = "classify"
  /\ Unclassified # {}
  /\ EndRun(w)
  /\ UNCHANGED <<dbVars, worldVars>>

\* Nothing to classify; run_aggregation finds no results to roll up.
Aggregate(w) ==
  /\ pc[w] = "classify"
  /\ Unclassified = {}
  /\ Goto(w, "rules")
  /\ todo' = [todo EXCEPT ![w] = {r \in Rules : r.name = "no_data"}]
  /\ UNCHANGED <<dbVars, worldVars, started, batch, alert, sent>>

-----------------------------------------------------------------------------
\* Alerts.
Recent(time) == time # Never /\ ~Before(time, clock - RuleWindow)

Failing == {p \in Platforms : Recent(failure[p]) /\ ~Recent(success[p])}

\* evaluate_scraper_health reads the scrape runs once, after the rules over
\* aggregates were evaluated; then it fires for every failing platform.
Health(w) ==
  /\ pc[w] = "rules"
  /\ todo[w] = {}
  /\ Goto(w, "health")
  /\ todo' = [todo EXCEPT ![w] =
                {[name |-> "scrape_failure", of |-> p] : p \in Failing}]
  /\ UNCHANGED <<dbVars, worldVars, started, batch, alert, sent>>

Row(a) == {e \in events : e.id = a}
Suppressed(a) == \E e \in Row(a) : clock - e.at < Suppression

\* _dedup_key and _is_suppressed.
Fire(w) ==
  /\ pc[w] \in {"rules", "health"}
  /\ \E r \in todo[w] :
       LET a == [rule |-> r, hour |-> HourOf(clock)] IN
       IF Suppressed(a)
         THEN /\ todo' = [todo EXCEPT ![w] = @ \ {r}]
              /\ UNCHANGED <<pc, alert>>
         ELSE /\ alert' = [alert EXCEPT ![w] = a]
              /\ Goto(w, "insert")
              /\ UNCHANGED todo
  /\ UNCHANGED <<dbVars, worldVars, started, batch, sent>>

\* On with the next rule.
NextRule(w) ==
  LET r == alert[w].rule IN
  /\ Goto(w, IF r.name = "no_data" THEN "rules" ELSE "health")
  /\ todo' = [todo EXCEPT ![w] = @ \ {r}]
  /\ alert' = [alert EXCEPT ![w] = NoAlert]
  /\ sent' = [sent EXCEPT ![w] = FALSE]

\* Mutant of InsertAlert: rowcount is not looked at.
InsertAlertBlindly(w) ==
  /\ pc[w] = "insert"
  /\ events' = events \cup
       (IF Row(alert[w]) = {} THEN {[id |-> alert[w], at |-> clock, sent |-> FALSE]}
                              ELSE {})
  /\ Goto(w, "send")
  /\ UNCHANGED <<raw, normalized, success, failure, worldVars,
                 todo, started, batch, alert, sent>>

\* INSERT OR IGNORE INTO alert_events: one worker wins the row and sends.
InsertAlert(w) ==
  /\ pc[w] = "insert"
  /\ Row(alert[w]) = {}
  /\ events' = events \cup {[id |-> alert[w], at |-> clock, sent |-> FALSE]}
  /\ Goto(w, "send")
  /\ UNCHANGED <<raw, normalized, success, failure, worldVars,
                 todo, started, batch, alert, sent>>

AlreadyFired(w) ==
  /\ pc[w] = "insert"
  /\ Row(alert[w]) # {}
  /\ NextRule(w)
  /\ UNCHANGED <<dbVars, worldVars, started, batch>>

\* send_telegram_alert, its three attempts together.
Send(w) ==
  /\ pc[w] = "send"
  /\ calls' = [calls EXCEPT ![alert[w]] = @ + 1]
  /\ \E ok \in BOOLEAN : sent' = [sent EXCEPT ![w] = ok]
  /\ Goto(w, "mark")
  /\ UNCHANGED <<dbVars, clock, todo, started, batch, alert>>

\* mark_alert_sent, by alert_id.
MarkSent(w) ==
  /\ pc[w] = "mark"
  /\ events' = {IF e.id = alert[w] THEN [e EXCEPT !.sent = sent[w]] ELSE e :
                  e \in events}
  /\ NextRule(w)
  /\ UNCHANGED <<raw, normalized, success, failure, worldVars, started, batch>>

Finish(w) ==
  /\ pc[w] = "health"
  /\ todo[w] = {}
  /\ EndRun(w)
  /\ UNCHANGED <<dbVars, worldVars>>

-----------------------------------------------------------------------------
\* An exception, which the scheduler logs, or the end of the process.
Fail(w) ==
  /\ pc[w] # "idle"
  /\ EndRun(w)
  /\ UNCHANGED <<dbVars, worldVars>>

OldRaw == {p \in Posts : raw[p] # Never /\ Before(raw[p], clock - RawAge)}
OldEvents == {e \in events : Before(e.at, clock - AlertAge)}

\* purge_old_data, one transaction.  With a normalized row that refers to an
\* old raw post it raises, and the alerts stay too.
Purge ==
  /\ \A p \in OldRaw : normalized[p] = Never
  /\ raw' = [p \in Posts |-> IF p \in OldRaw THEN Never ELSE raw[p]]
  /\ events' = events \ OldEvents
  /\ UNCHANGED <<normalized, success, failure, worldVars, callVars>>

Ingest(w) ==
  \/ Scrape(w) \/ StoreRaw(w) \/ FinishScrape(w) \/ FetchRaw(w)
  \/ Normalize(w) \/ NormalizeRaises(w) \/ ClassifyRaises(w) \/ Aggregate(w)

Evaluate(w) ==
  \/ Health(w) \/ Fire(w) \/ InsertAlert(w) \/ AlreadyFired(w)
  \/ Send(w) \/ MarkSent(w) \/ Finish(w)

Next ==
  \/ Tick
  \/ Purge
  \/ \E w \in Workers : StartRun(w) \/ Ingest(w) \/ Evaluate(w) \/ Fail(w)

Spec == Init /\ [][Next]_vars

\* The pipeline when nothing goes wrong: the scheduler starts a run every
\* half hour and every run goes on until it ends.
ReliableNext ==
  \/ Tick
  \/ Purge
  \/ \E w \in Workers : StartRun(w) \/ Ingest(w) \/ Evaluate(w)

FairSpec ==
  /\ Init /\ [][ReliableNext]_vars
  /\ \A w \in Workers : WF_vars(StartRun(w)) /\ WF_vars(Ingest(w) \/ Evaluate(w))

-----------------------------------------------------------------------------
\* A normalized post refers to a raw post that exists and is the one whose
\* text was normalized, although another process may purge and scrape it
\* again between the SELECT and the INSERT of a run.
References ==
  \A p \in Posts : normalized[p] # Never => raw[p] = normalized[p]

\* Of all runs of all processes that find a rule violated within one clock
\* hour, at most one notifies: the others lose the alert's row to it.
OneNotification == \A a \in Alerts : calls[a] <= 1

\* The pipeline runs "ingest -> aggregate -> alert evaluation" every half
\* hour (cron entry point, README): alerts go on being evaluated.
AlertsKeepBeingEvaluated == []<>(\E w \in Workers : pc[w] = "health")

\* ScrapeFailure: "All runs failed with no success in the last 2 hours"
\* (README): a platform of which that is true when the evaluator looks is
\* among those it fires for.
Lately(time) == time # Never /\ clock - time <= RuleWindow

FailureIsReported ==
  [][\A w \in Workers : pc[w] = "rules" /\ pc'[w] = "health" =>
       \A p \in Platforms : Lately(failure[p]) /\ ~Lately(success[p]) =>
         [name |-> "scrape_failure", of |-> p] \in todo'[w]]_vars
=============================================================================
