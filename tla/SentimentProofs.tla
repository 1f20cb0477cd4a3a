-------------------------- MODULE SentimentProofs ---------------------------
(***************************************************************************)
(* For every number of processes, posts, targets and rules: a normalized   *)
(* post refers to the raw post it was made of, and a rule notifies once    *)
(* per clock hour.                                                         *)
(*                                                                         *)
(* The row of an alert decides who sends it.  Once a process has it, the   *)
(* row stays as long as any process may still try to insert it: what the   *)
(* purge removes belongs to an hour that is past for all of them.          *)
(***************************************************************************)
EXTENDS Sentiment, TLAPS

Firing(w) == pc[w] \in {"insert", "send", "mark"}

\* What the loop of each stage runs over.
Loops ==
  \A w \in Workers :
    /\ pc[w] \in {"scrape", "store", "finish"} => todo[w] \subseteq Targets
    /\ pc[w] \in {"rules", "health", "insert", "send", "mark"} =>
         todo[w] \subseteq Rules
    /\ Firing(w) => alert[w] \in Alerts

\* A row is not older than the hour in its key.
RowInHour == \A e \in events : e.id.hour <= HourOf(e.at)

\* The alert somebody tries to insert is of the hour of now or a tick ago.
InsertInTime ==
  \A w \in Workers : pc[w] = "insert" =>
    HourOf(clock - 1) <= alert[w].hour /\ alert[w].hour <= HourOf(clock)

Past(a) ==
  /\ a.hour < HourOf(clock)
  /\ \A w \in Workers : pc[w] = "insert" => alert[w] # a

\* Nobody can win the alert any more.
Taken(a) == Row(a) # {} \/ Past(a)

OneSender ==
  \A w \in Workers : pc[w] = "send" =>
    /\ Taken(alert[w]) /\ calls[alert[w]] = 0
    /\ \A v \in Workers : pc[v] = "send" /\ alert[v] = alert[w] => v = w

SentIsTaken == \A a \in Alerts : calls[a] # 0 => Taken(a)

Alerting ==
  /\ RowInHour
  /\ InsertInTime
  /\ OneSender
  /\ SentIsTaken
  /\ OneNotification

IInv ==
  /\ TypeOK
  /\ Loops
  /\ Alerting
  /\ References
-----------------------------------------------------------------------------
LEMMA Numbers ==
  /\ Hour \in Nat \ {0} /\ Day \in Nat \ {0}
  /\ Start \in Nat /\ End \in Nat /\ AlertAge \in Nat \ {0} /\ RawAge \in Nat
  /\ Start <= End
BY SentimentAssumption

LEMMA DivMonotone ==
  ASSUME NEW n \in Nat \ {0}, NEW a \in Int, NEW b \in Int, a <= b
  PROVE  a \div n \in Int /\ b \div n \in Int /\ a \div n <= b \div n
<1> DEFINE q == a \div n
           r == b \div n
<1>1. q \in Int /\ n * q <= a /\ a < n * (q + 1)
  OBVIOUS
<1>2. r \in Int /\ n * r <= b /\ b < n * (r + 1)
  OBVIOUS
<1>3. n * q < n * (r + 1)
  <2>1. n * q \in Int /\ n * (r + 1) \in Int
    BY <1>1, <1>2
  <2> QED
    BY <1>1, <1>2, <2>1
<1> HIDE DEF q, r
<1>4. q < r + 1
  BY <1>1, <1>2, <1>3
<1>5. q <= r
  BY <1>1, <1>2, <1>4
<1> QED
  BY <1>1, <1>2, <1>5 DEF q, r

LEMMA HourMonotone ==
  ASSUME NEW a \in Int, NEW b \in Int, a <= b
  PROVE  HourOf(a) \in Int /\ HourOf(b) \in Int /\ HourOf(a) <= HourOf(b)
BY Numbers, DivMonotone DEF HourOf

LEMMA HourType ==
  ASSUME NEW time \in Times
  PROVE  time \in Nat /\ HourOf(time) \in 0..(End \div Hour)
<1>1. 0 <= time /\ time <= End /\ time \in Nat
  BY Numbers DEF Times
<1>2. 0 \div Hour = 0
  BY Numbers
<1>3. 0 \div Hour <= time \div Hour
  BY <1>1, Numbers, DivMonotone
<1>4. time \div Hour <= End \div Hour
  BY <1>1, Numbers, DivMonotone
<1>5. time \div Hour \in Int /\ End \div Hour \in Int
  BY <1>1, Numbers
<1> QED
  BY <1>1, <1>2, <1>3, <1>4, <1>5 DEF HourOf

\* Days are made of hours: what lies a day before another lies an hour
\* before it too.
LEMMA EarlierDay ==
  ASSUME NEW a \in Int, NEW b \in Int, Before(a, b)
  PROVE  HourOf(a) < HourOf(b)
<1> DEFINE k == Day \div Hour
           d == DayOf(b)
           m == d * k
<1>1. k \in Nat /\ Day = Hour * k
  BY SentimentAssumption
<1>2. d \in Int /\ Day * d <= b
  BY Numbers DEF DayOf
<1>3. a < Day * (DayOf(a) + 1) /\ DayOf(a) \in Int /\ DayOf(a) + 1 <= d
  BY Numbers DEF DayOf, Before
<1> HIDE DEF k, d
<1>4. a < Day * d
  <2> DEFINE c == DayOf(a) + 1
  <2>1. c \in Int /\ c <= d /\ a < Day * c
    BY <1>3
  <2> HIDE DEF c
  <2>2. Day * c <= Day * d
    BY <1>2, <2>1, Numbers
  <2> QED
    BY <1>2, <2>1, <2>2, Numbers
<1>5. m \in Int /\ Day * d = Hour * m
  BY <1>1, <1>2, Numbers
<1> HIDE DEF m
<1>6. a < Hour * m /\ Hour * m <= b
  BY <1>2, <1>4, <1>5
<1>7. HourOf(b) \in Int /\ m <= HourOf(b)
  <2>1. m = (Hour * m) \div Hour
    BY <1>5, Numbers
  <2>2. Hour * m \in Int
    BY <1>5, Numbers
  <2> QED
    BY <1>6, <2>1, <2>2, HourMonotone DEF HourOf
<1>8. HourOf(a) \in Int /\ HourOf(a) < m
  <2> DEFINE q == HourOf(a)
  <2>1. q \in Int /\ Hour * q <= a
    BY Numbers DEF HourOf
  <2> HIDE DEF q
  <2>2. Hour * q < Hour * m
    BY <1>5, <1>6, <2>1, Numbers
  <2>3. q < m
    BY <1>5, <2>1, <2>2, Numbers
  <2> QED
    BY <2>1, <2>3 DEF q
<1> QED
  BY <1>5, <1>7, <1>8
-----------------------------------------------------------------------------
LEMMA EndRunType ==
  ASSUME TypeOK, Loops, NEW w \in Workers, EndRun(w),
         UNCHANGED <<dbVars, worldVars>>
  PROVE  TypeOK' /\ Loops'
<1>1. Empty \in [Posts -> Times \cup {Never}]
  BY DEF Empty
<1>2. TypeOK'
  BY <1>1 DEF TypeOK, EndRun, Goto, dbVars, worldVars, Steps
<1>3. Loops'
  BY DEF TypeOK, Loops, Firing, EndRun, Goto, dbVars, worldVars, Steps
<1> QED
  BY <1>2, <1>3

LEMMA NextRuleType ==
  ASSUME TypeOK, Loops, NEW w \in Workers, NextRule(w), Firing(w)
  PROVE  /\ pc' \in [Workers -> Steps]
         /\ todo' \in [Workers -> SUBSET (Targets \cup Rules)]
         /\ alert' \in [Workers -> Alerts \cup {NoAlert}]
         /\ sent' \in [Workers -> BOOLEAN]
         /\ Loops'
<1>1. /\ pc' \in [Workers -> Steps]
      /\ todo' \in [Workers -> SUBSET (Targets \cup Rules)]
      /\ alert' \in [Workers -> Alerts \cup {NoAlert}]
      /\ sent' \in [Workers -> BOOLEAN]
  BY DEF TypeOK, NextRule, Goto, Steps
<1>2. Loops'
  <2>1. todo[w] \subseteq Rules
    BY DEF Loops, Firing
  <2>2. todo'[w] \subseteq Rules /\ pc'[w] \in {"rules", "health"}
    BY <2>1 DEF TypeOK, NextRule, Goto
  <2>3. \A v \in Workers : v # w =>
          pc'[v] = pc[v] /\ todo'[v] = todo[v] /\ alert'[v] = alert[v]
    BY DEF TypeOK, NextRule, Goto
  <2> QED
    BY <2>2, <2>3 DEF Loops, Firing
<1> QED
  BY <1>1, <1>2

LEMMA IngestType ==
  ASSUME TypeOK, Loops, NEW w \in Workers, StartRun(w) \/ Ingest(w)
  PROVE  TypeOK' /\ Loops'
<1>1. CASE StartRun(w)
  BY <1>1 DEF TypeOK, Loops, Firing, StartRun, Goto, dbVars, worldVars, Steps
<1>2. CASE Scrape(w)
  BY <1>2 DEF TypeOK, Loops, Firing, Scrape, Goto, dbVars, worldVars, Steps
<1>3. CASE StoreRaw(w)
  BY <1>3 DEF TypeOK, Loops, Firing, StoreRaw, Goto, worldVars, Steps
<1>4. CASE FinishScrape(w)
  <2>1. PICK t \in todo[w] :
          /\ todo' = [todo EXCEPT ![w] = @ \ {t}]
          /\ \/ /\ success' = [success EXCEPT ![Platform[t]] = Later(@, started[w])]
                /\ UNCHANGED failure
             \/ /\ failure' = [failure EXCEPT ![Platform[t]] = Later(@, started[w])]
                /\ UNCHANGED success
    BY <1>4 DEF FinishScrape
  <2>2. Platform[t] \in Platforms
    BY <1>4 DEF Loops, FinishScrape, Platforms
  <2>3. /\ success' \in [Platforms -> Times \cup {Never}]
        /\ failure' \in [Platforms -> Times \cup {Never}]
    BY <2>1, <2>2 DEF TypeOK, Later
  <2>4. TypeOK'
    BY <1>4, <2>1, <2>3 DEF TypeOK, FinishScrape, Goto, worldVars, Steps
  <2>5. Loops'
    BY <1>4, <2>1 DEF TypeOK, Loops, Firing, FinishScrape, Goto
  <2> QED
    BY <2>4, <2>5
<1>5. CASE FetchRaw(w)
  <2>1. \A S \in SUBSET Unprocessed :
          [p \in Posts |-> IF p \in S THEN raw[p] ELSE Never]
            \in [Posts -> Times \cup {Never}]
    BY DEF TypeOK
  <2>2. batch' \in [Workers -> [Posts -> Times \cup {Never}]]
    BY <1>5, <2>1 DEF TypeOK, FetchRaw
  <2> QED
    BY <1>5, <2>2
    DEF TypeOK, Loops, Firing, FetchRaw, Goto, dbVars, worldVars, Steps
<1>6. CASE Normalize(w)
  <2>1. Empty \in [Posts -> Times \cup {Never}]
    BY DEF Empty
  <2>2. normalized' \in [Posts -> Times \cup {Never}]
    BY <1>6 DEF TypeOK, Normalize, NewRows
  <2> QED
    BY <1>6, <2>1, <2>2
    DEF TypeOK, Loops, Firing, Normalize, Goto, worldVars, Steps
<1>7. CASE NormalizeRaises(w) \/ ClassifyRaises(w)
  BY <1>7, EndRunType DEF NormalizeRaises, ClassifyRaises
<1>8. CASE Aggregate(w)
  BY <1>8 DEF TypeOK, Loops, Firing, Aggregate, Goto, dbVars, worldVars, Steps
<1> QED
  BY <1>1, <1>2, <1>3, <1>4, <1>5, <1>6, <1>7, <1>8 DEF Ingest

LEMMA EvaluateType ==
  ASSUME TypeOK, Loops, NEW w \in Workers, Evaluate(w) \/ Fail(w)
  PROVE  TypeOK' /\ Loops'
<1>1. CASE Health(w)
  <2>1. Failing \subseteq Platforms
    BY DEF Failing
  <2>2. {[name |-> "scrape_failure", of |-> p] : p \in Failing} \subseteq Rules
    BY <2>1 DEF Rules
  <2> QED
    BY <1>1, <2>2
    DEF TypeOK, Loops, Firing, Health, Goto, dbVars, worldVars, Steps
<1>2. CASE Fire(w)
  <2>1. PICK r \in todo[w] :
          LET a == [rule |-> r, hour |-> HourOf(clock)] IN
          IF Suppressed(a)
            THEN /\ todo' = [todo EXCEPT ![w] = @ \ {r}]
                 /\ UNCHANGED <<pc, alert>>
            ELSE /\ alert' = [alert EXCEPT ![w] = a]
                 /\ Goto(w, "insert")
                 /\ UNCHANGED todo
    BY <1>2 DEF Fire
  <2>2. [rule |-> r, hour |-> HourOf(clock)] \in Alerts
    BY <1>2, HourType DEF Fire, Loops, Alerts, TypeOK
  <2> DEFINE a == [rule |-> r, hour |-> HourOf(clock)]
  <2> HIDE DEF a
  <2>3. CASE Suppressed(a)
    <3>1. todo' = [todo EXCEPT ![w] = @ \ {r}] /\ UNCHANGED <<pc, alert>>
      BY <2>1, <2>3 DEF a
    <3>2. UNCHANGED <<dbVars, worldVars, started, batch, sent>>
      BY <1>2 DEF Fire
    <3>3. TypeOK'
      BY <3>1, <3>2 DEF TypeOK, dbVars, worldVars
    <3>4. Loops'
      BY <3>1, <3>2 DEF TypeOK, Loops, Firing
    <3> QED
      BY <3>3, <3>4
  <2>4. CASE ~Suppressed(a)
    <3>1. /\ alert' = [alert EXCEPT ![w] = a]
          /\ pc' = [pc EXCEPT ![w] = "insert"]
          /\ UNCHANGED todo
      BY <2>1, <2>4 DEF a, Goto
    <3>2. a \in Alerts /\ todo[w] \subseteq Rules
      BY <1>2, <2>2 DEF a, Fire, Loops
    <3> QED
      BY <1>2, <3>1, <3>2 DEF TypeOK, Loops, Firing, Fire, dbVars, worldVars, Steps
  <2> QED
    BY <2>3, <2>4
<1>3. CASE InsertAlert(w)
  <2>1. [id |-> alert[w], at |-> clock, sent |-> FALSE]
          \in [id: Alerts, at: Times, sent: BOOLEAN]
    BY <1>3 DEF InsertAlert, TypeOK, Loops, Firing
  <2> QED
    BY <1>3, <2>1 DEF TypeOK, Loops, Firing, InsertAlert, Goto, worldVars, Steps
<1>4. CASE AlreadyFired(w)
  <2>1. Firing(w)
    BY <1>4 DEF AlreadyFired, Firing
  <2> QED
    BY <1>4, <2>1, NextRuleType DEF TypeOK, AlreadyFired, dbVars, worldVars
<1>5. CASE Send(w)
  <2>1. alert[w] \in Alerts
    BY <1>5 DEF Send, Loops, Firing
  <2> QED
    BY <1>5, <2>1 DEF TypeOK, Loops, Firing, Send, Goto, dbVars, Steps
<1>6. CASE MarkSent(w)
  <2>1. Firing(w)
    BY <1>6 DEF MarkSent, Firing
  <2>2. events' \subseteq [id: Alerts, at: Times, sent: BOOLEAN]
    <3>1. \A e \in events : [e EXCEPT !.sent = sent[w]]
            \in [id: Alerts, at: Times, sent: BOOLEAN]
      BY DEF TypeOK
    <3> QED
      BY <1>6, <3>1 DEF MarkSent, TypeOK
  <2> QED
    BY <1>6, <2>1, <2>2, NextRuleType DEF TypeOK, MarkSent, worldVars
<1>7. CASE Finish(w) \/ Fail(w)
  BY <1>7, EndRunType DEF Finish, Fail
<1> QED
  BY <1>1, <1>2, <1>3, <1>4, <1>5, <1>6, <1>7 DEF Evaluate

LEMMA TypeStep ==
  ASSUME TypeOK, Loops, [Next]_vars
  PROVE  TypeOK' /\ Loops'
<1>1. CASE Tick
  BY <1>1, Numbers
  DEF Tick, TypeOK, Loops, Firing, Times, dbVars, callVars
<1>2. CASE Purge
  <2>1. raw' \in [Posts -> Times \cup {Never}]
    BY <1>2 DEF Purge, TypeOK
  <2> QED
    BY <1>2, <2>1 DEF Purge, TypeOK, Loops, Firing, worldVars, callVars
<1>3. CASE UNCHANGED vars
  BY <1>3 DEF TypeOK, Loops, Firing, vars, dbVars, worldVars, callVars
<1>4. ASSUME NEW w \in Workers, StartRun(w) \/ Ingest(w) \/ Evaluate(w) \/ Fail(w)
      PROVE  TypeOK' /\ Loops'
  BY <1>4, IngestType, EvaluateType
<1> QED
  BY <1>1, <1>2, <1>3, <1>4 DEF Next
-----------------------------------------------------------------------------
\* A normalized row is only made of a raw row that is still there, and the
\* purge leaves raw rows that have one.
LEMMA ReferencesStep ==
  ASSUME TypeOK, References, [Next]_vars
  PROVE  References'
<1>1. CASE UNCHANGED <<raw, normalized>>
  BY <1>1 DEF References
<1>2. CASE Purge
  BY <1>2 DEF Purge, References, TypeOK, OldRaw
<1>3. ASSUME NEW w \in Workers, StoreRaw(w)
      PROVE  References'
  BY <1>3 DEF StoreRaw, References, TypeOK, Never, worldVars
<1>4. ASSUME NEW w \in Workers, Normalize(w)
      PROVE  References'
  <2>1. UNCHANGED raw /\ \A p \in NewRows(w) : raw[p] = batch[w][p]
    BY <1>4 DEF Normalize, Intact
  <2>2. \A p \in Posts :
          normalized'[p] = IF p \in NewRows(w) THEN batch[w][p] ELSE normalized[p]
    BY <1>4 DEF Normalize, TypeOK
  <2> QED
    BY <2>1, <2>2 DEF References
<1>5. ASSUME NEW w \in Workers, StartRun(w) \/ Ingest(w) \/ Evaluate(w) \/ Fail(w)
      PROVE  References'
  <2>1. CASE StoreRaw(w) \/ Normalize(w)
    BY <2>1, <1>3, <1>4
  <2>2. CASE ~(StoreRaw(w) \/ Normalize(w))
    BY <2>2, <1>5, <1>1
    DEF StartRun, Ingest, Evaluate, Fail, Scrape, FinishScrape, FetchRaw,
        NormalizeRaises, ClassifyRaises, Aggregate, Health, Fire, InsertAlert,
        AlreadyFired, Send, MarkSent, Finish, dbVars
  <2> QED
    BY <2>1, <2>2
<1>6. CASE Tick \/ UNCHANGED vars
  BY <1>6, <1>1 DEF Tick, vars, dbVars
<1> QED
  BY <1>2, <1>5, <1>6 DEF Next
-----------------------------------------------------------------------------
\* Steps that neither enter the insert nor the sending of an alert.
LEMMA QuietStep ==
  ASSUME Alerting, NEW w \in Workers,
         \A v \in Workers : v # w => pc'[v] = pc[v] /\ alert'[v] = alert[v],
         pc'[w] \notin {"insert", "send"},
         UNCHANGED <<clock, events, calls>>
  PROVE  Alerting'
<1>1. RowInHour' /\ OneNotification'
  BY DEF Alerting, RowInHour, OneNotification, HourOf
<1>2. InsertInTime'
  BY DEF Alerting, InsertInTime, HourOf
<1>3. \A a : Taken(a) => Taken(a)'
  BY DEF Taken, Past, Row, HourOf
<1>4. OneSender'
  BY <1>3 DEF Alerting, OneSender
<1>5. SentIsTaken'
  BY <1>3 DEF Alerting, SentIsTaken
<1> QED
  BY <1>1, <1>2, <1>4, <1>5 DEF Alerting

LEMMA QuietIngest ==
  ASSUME TypeOK, Alerting, NEW w \in Workers, StartRun(w) \/ Ingest(w)
  PROVE  Alerting'
<1>1. UNCHANGED <<clock, events, calls>>
  BY DEF StartRun, Ingest, Scrape, StoreRaw, FinishScrape, FetchRaw, Normalize,
         NormalizeRaises, ClassifyRaises, Aggregate, dbVars, worldVars
<1>2. PICK s \in Steps \ {"insert", "send"} : Goto(w, s)
  BY DEF StartRun, Ingest, Scrape, StoreRaw, FinishScrape, FetchRaw, Normalize,
         NormalizeRaises, ClassifyRaises, Aggregate, EndRun, Steps
<1>3. \A v \in Workers : v # w => alert'[v] = alert[v]
  BY DEF StartRun, Ingest, Scrape, StoreRaw, FinishScrape, FetchRaw, Normalize,
         NormalizeRaises, ClassifyRaises, Aggregate, EndRun, TypeOK
<1>4. \A v \in Workers : pc'[v] = IF v = w THEN s ELSE pc[v]
  BY <1>2 DEF Goto, TypeOK
<1> QED
  BY <1>1, <1>2, <1>3, <1>4, QuietStep

LEMMA TickAlerting ==
  ASSUME TypeOK, Loops, Alerting, Tick
  PROVE  Alerting'
<1>1. clock \in Nat /\ clock' = clock + 1 /\ Prompt
      /\ UNCHANGED <<events, calls, pc, alert>>
  BY HourType DEF Tick, TypeOK, dbVars, callVars
<1>2. HourOf(clock) \in Int /\ HourOf(clock') \in Int
      /\ HourOf(clock) <= HourOf(clock')
  BY <1>1, HourMonotone
<1>3. RowInHour' /\ OneNotification'
  BY <1>1 DEF Alerting, RowInHour, OneNotification, HourOf
<1>4. InsertInTime'
  <2>1. clock' - 1 = clock
    BY <1>1
  <2> SUFFICES ASSUME NEW w \in Workers, pc[w] = "insert"
               PROVE  HourOf(clock) <= alert[w].hour /\ alert[w].hour <= HourOf(clock')
    BY <1>1, <2>1 DEF InsertInTime, HourOf
  <2> QED
    BY <1>1, <1>2 DEF Prompt
<1>5. \A a \in Alerts : Taken(a) => Taken(a)'
  <2> SUFFICES ASSUME NEW a \in Alerts, Past(a)
               PROVE  Past(a)'
    BY <1>1 DEF Taken, Row
  <2>1. a.hour < HourOf(clock) /\ a.hour \in Int
    BY DEF Past, Alerts
  <2>2. a.hour < HourOf(clock')
    BY <1>2, <2>1
  <2>3. HourOf(clock)' = HourOf(clock')
    BY DEF HourOf
  <2> QED
    BY <1>1, <2>2, <2>3 DEF Past
<1>6. SentIsTaken'
  BY <1>1, <1>5 DEF Alerting, SentIsTaken
<1>7. OneSender'
  BY <1>1, <1>5 DEF Alerting, OneSender, Loops, Firing
<1> QED
  BY <1>3, <1>4, <1>6, <1>7 DEF Alerting

\* What the purge takes belongs to an hour nobody inserts into any more.
LEMMA PurgeAlerting ==
  ASSUME TypeOK, Loops, Alerting, Purge
  PROVE  Alerting'
<1>1. /\ events' = events \ OldEvents
      /\ UNCHANGED <<clock, calls, pc, alert>>
  BY DEF Purge, worldVars, callVars
<1>2. clock \in Nat
  BY HourType DEF TypeOK
<1>3. RowInHour' /\ InsertInTime' /\ OneNotification'
  BY <1>1 DEF Alerting, RowInHour, InsertInTime, OneNotification, HourOf
<1>4. \A e \in OldEvents : Past(e.id)
  <2> SUFFICES ASSUME NEW e \in OldEvents
               PROVE  Past(e.id)
    OBVIOUS
  <2>1. /\ e \in events /\ e.at \in Int /\ e.id \in Alerts
        /\ Before(e.at, clock - AlertAge)
    BY HourType DEF OldEvents, TypeOK
  <2>2. clock - AlertAge \in Int /\ clock - AlertAge <= clock - 1
        /\ clock - 1 \in Int /\ clock - 1 <= clock
    BY <1>2, Numbers
  <2>3. HourOf(e.at) < HourOf(clock - AlertAge)
    BY <2>1, <2>2, EarlierDay
  <2>4. HourOf(e.at) \in Int /\ HourOf(clock - AlertAge) \in Int
        /\ HourOf(clock - 1) \in Int /\ HourOf(clock) \in Int
        /\ HourOf(clock - AlertAge) <= HourOf(clock - 1)
        /\ HourOf(clock - 1) <= HourOf(clock)
    BY <1>2, <2>1, <2>2, HourMonotone
  <2>5. e.id.hour \in Int /\ e.id.hour <= HourOf(e.at)
    BY <2>1 DEF Alerting, RowInHour, Alerts
  <2>6. e.id.hour < HourOf(clock - 1) /\ e.id.hour < HourOf(clock)
    BY <2>3, <2>4, <2>5
  <2>7. \A w \in Workers : pc[w] = "insert" => alert[w] # e.id
    BY <2>4, <2>5, <2>6 DEF Alerting, InsertInTime
  <2> QED
    BY <2>6, <2>7 DEF Past
<1>5. \A a : Past(a) => Past(a)'
  BY <1>1 DEF Past, HourOf
<1>6. \A a : Taken(a) => Taken(a)'
  <2> SUFFICES ASSUME NEW a, Row(a) # {}, Row(a)' = {}
               PROVE  Past(a)
    BY <1>5 DEF Taken
  <2>1. PICK e \in events : e.id = a
    BY DEF Row
  <2>2. e \in OldEvents
    BY <1>1, <2>1 DEF Row
  <2> QED
    BY <1>4, <2>1, <2>2
<1>7. SentIsTaken' /\ OneSender'
  BY <1>1, <1>6 DEF Alerting, SentIsTaken, OneSender
<1> QED
  BY <1>3, <1>7 DEF Alerting

LEMMA FireAlerting ==
  ASSUME TypeOK, Loops, Alerting, NEW w \in Workers, Fire(w)
  PROVE  Alerting'
<1>1. UNCHANGED <<clock, events, calls>> /\ pc[w] \in {"rules", "health"}
  BY DEF Fire, dbVars, worldVars
<1>2. PICK r \in todo[w] :
        \/ UNCHANGED <<pc, alert>>
        \/ /\ alert' = [alert EXCEPT ![w] = [rule |-> r, hour |-> HourOf(clock)]]
           /\ pc' = [pc EXCEPT ![w] = "insert"]
  BY DEF Fire, Goto
<1>3. CASE UNCHANGED <<pc, alert>>
  BY <1>1, <1>3, QuietStep
<1>4. CASE /\ alert' = [alert EXCEPT ![w] = [rule |-> r, hour |-> HourOf(clock)]]
           /\ pc' = [pc EXCEPT ![w] = "insert"]
  <2> DEFINE a == [rule |-> r, hour |-> HourOf(clock)]
  <2>1. a.hour = HourOf(clock)
    OBVIOUS
  <2> HIDE DEF a
  <2>2. /\ \A v \in Workers : v # w => pc'[v] = pc[v] /\ alert'[v] = alert[v]
        /\ pc'[w] = "insert" /\ alert'[w] = a
    BY <1>4 DEF TypeOK, a
  <2>3. clock \in Nat
    BY HourType DEF TypeOK
  <2>4. HourOf(clock - 1) \in Int /\ HourOf(clock) \in Int
        /\ HourOf(clock - 1) <= HourOf(clock)
    BY <2>3, HourMonotone
  <2>5. RowInHour' /\ OneNotification'
    BY <1>1 DEF Alerting, RowInHour, OneNotification, HourOf
  <2>6. InsertInTime'
    <3>1. \A v \in Workers : pc'[v] = "insert" =>
            HourOf(clock - 1) <= alert'[v].hour /\ alert'[v].hour <= HourOf(clock)
      BY <2>1, <2>2, <2>4 DEF Alerting, InsertInTime
    <3> QED
      BY <1>1, <3>1 DEF InsertInTime, HourOf
  <2>7. \A b \in Alerts : Past(b) => Past(b)'
    <3> SUFFICES ASSUME NEW b \in Alerts, Past(b)
                 PROVE  Past(b)'
      OBVIOUS
    <3>1. b.hour < HourOf(clock) /\ b.hour \in Int
      BY DEF Past, Alerts
    <3>2. b # a
      BY <2>1, <2>4, <3>1
    <3>3. b.hour < HourOf(clock)'
      BY <1>1, <3>1 DEF HourOf
    <3> QED
      BY <2>2, <3>2, <3>3 DEF Past
  <2>8. \A b \in Alerts : Taken(b) => Taken(b)'
    BY <1>1, <2>7 DEF Taken, Row
  <2>9. SentIsTaken' /\ OneSender'
    BY <1>1, <2>2, <2>8 DEF Alerting, SentIsTaken, OneSender, Loops, Firing
  <2> QED
    BY <2>5, <2>6, <2>9 DEF Alerting
<1> QED
  BY <1>2, <1>3, <1>4

\* Who inserts the row is the only one that ever did.
LEMMA InsertAlerting ==
  ASSUME TypeOK, Loops, Alerting, NEW w \in Workers, InsertAlert(w)
  PROVE  Alerting'
<1>1. PICK a \in Alerts : a = alert[w]
  BY DEF InsertAlert, Loops, Firing
<1>2. PICK e \in [id: {a}, at: {clock}, sent: {FALSE}] :
        events' = events \cup {e}
  BY <1>1 DEF InsertAlert
<1>3. /\ pc[w] = "insert" /\ Row(a) = {}
      /\ e.id = a /\ e.at = clock
      /\ UNCHANGED <<clock, calls, alert>>
      /\ \A v \in Workers : pc'[v] = IF v = w THEN "send" ELSE pc[v]
  BY <1>1, <1>2 DEF InsertAlert, Goto, worldVars, TypeOK
<1>4. ~Taken(a)
  BY <1>1, <1>3 DEF Taken, Past
<1>5. calls[a] = 0
  BY <1>4 DEF Alerting, SentIsTaken
<1>6. \A v \in Workers : pc[v] = "send" => alert[v] # a
  BY <1>4 DEF Alerting, OneSender
<1>7. \A b : Taken(b) => Taken(b)'
  BY <1>2, <1>3 DEF Taken, Past, Row, HourOf
<1>8. Taken(a)'
  BY <1>2, <1>3 DEF Taken, Row
<1>9. RowInHour'
  <2>1. a.hour <= HourOf(clock)
    BY <1>1, <1>3 DEF Alerting, InsertInTime
  <2> QED
    BY <1>2, <1>3, <2>1 DEF Alerting, RowInHour, HourOf
<1>10. InsertInTime' /\ OneNotification'
  BY <1>3 DEF Alerting, InsertInTime, OneNotification, HourOf
<1>11. SentIsTaken'
  BY <1>3, <1>7 DEF Alerting, SentIsTaken
<1>12. OneSender'
  BY <1>1, <1>3, <1>5, <1>6, <1>7, <1>8 DEF Alerting, OneSender
<1> QED
  BY <1>9, <1>10, <1>11, <1>12 DEF Alerting

LEMMA SendAlerting ==
  ASSUME TypeOK, Loops, Alerting, NEW w \in Workers, Send(w)
  PROVE  Alerting'
<1>1. PICK a \in Alerts : a = alert[w]
  BY DEF Send, Loops, Firing
<1>2. /\ pc[w] = "send"
      /\ UNCHANGED <<clock, events, alert>>
      /\ \A v \in Workers : pc'[v] = IF v = w THEN "mark" ELSE pc[v]
      /\ \A b \in Alerts : calls'[b] = IF b = a THEN calls[b] + 1 ELSE calls[b]
  BY <1>1 DEF Send, Goto, dbVars, TypeOK
<1>3. /\ Taken(a) /\ calls[a] = 0
      /\ \A v \in Workers : pc[v] = "send" /\ alert[v] = a => v = w
  BY <1>1, <1>2 DEF Alerting, OneSender
<1>4. \A b : Taken(b) => Taken(b)'
  BY <1>2 DEF Taken, Past, Row, HourOf
<1>5. RowInHour' /\ InsertInTime'
  BY <1>2 DEF Alerting, RowInHour, InsertInTime, HourOf
<1>6. OneNotification'
  BY <1>2, <1>3 DEF Alerting, OneNotification
<1>7. SentIsTaken'
  BY <1>2, <1>3, <1>4 DEF Alerting, SentIsTaken
<1>8. OneSender'
  <2> SUFFICES ASSUME NEW v \in Workers, pc'[v] = "send"
               PROVE  /\ Taken(alert[v])' /\ calls'[alert[v]] = 0
                      /\ \A u \in Workers :
                           pc'[u] = "send" /\ alert[u] = alert[v] => u = v
    BY <1>2 DEF OneSender
  <2>1. v # w /\ pc[v] = "send" /\ alert[v] \in Alerts /\ alert[v] # a
    BY <1>2, <1>3 DEF Loops, Firing
  <2> QED
    BY <1>2, <1>4, <2>1 DEF Alerting, OneSender
<1> QED
  BY <1>5, <1>6, <1>7, <1>8 DEF Alerting

\* Marking changes whether an alert was delivered, not which rows there are.
LEMMA MarkAlerting ==
  ASSUME TypeOK, Loops, Alerting, NEW w \in Workers, MarkSent(w)
  PROVE  Alerting'
<1>1. /\ events' = {IF e.id = alert[w] THEN [e EXCEPT !.sent = sent[w]] ELSE e :
                      e \in events}
      /\ UNCHANGED <<clock, calls>>
      /\ \A v \in Workers : v # w => pc'[v] = pc[v] /\ alert'[v] = alert[v]
      /\ pc'[w] \in {"rules", "health"}
  BY DEF MarkSent, NextRule, Goto, worldVars, TypeOK
<1>2. \A e \in events : LET f == [e EXCEPT !.sent = sent[w]] IN
        f.id = e.id /\ f.at = e.at
  BY DEF TypeOK
<1>3. /\ \A e \in events : \E f \in events' : f.id = e.id /\ f.at = e.at
      /\ \A f \in events' : \E e \in events : f.id = e.id /\ f.at = e.at
  <2> DEFINE marked(e) == IF e.id = alert[w] THEN [e EXCEPT !.sent = sent[w]] ELSE e
  <2>1. events' = {marked(e) : e \in events}
    BY <1>1
  <2>2. \A e \in events : marked(e).id = e.id /\ marked(e).at = e.at
    BY <1>2
  <2> HIDE DEF marked
  <2> QED
    BY <2>1, <2>2
<1>4. \A b : Taken(b) => Taken(b)'
  <2>1. \A b : Row(b) # {} => Row(b)' # {}
    BY <1>3 DEF Row
  <2>2. \A b : Past(b) => Past(b)'
    BY <1>1 DEF Past, HourOf
  <2> QED
    BY <2>1, <2>2 DEF Taken
<1>5. RowInHour'
  BY <1>1, <1>3 DEF Alerting, RowInHour, HourOf
<1>6. InsertInTime' /\ OneNotification'
  BY <1>1 DEF Alerting, InsertInTime, OneNotification, HourOf
<1>7. SentIsTaken' /\ OneSender'
  BY <1>1, <1>4 DEF Alerting, SentIsTaken, OneSender
<1> QED
  BY <1>5, <1>6, <1>7 DEF Alerting

LEMMA QuietEvaluate ==
  ASSUME TypeOK, Alerting, NEW w \in Workers,
         Health(w) \/ AlreadyFired(w) \/ Finish(w) \/ Fail(w)
  PROVE  Alerting'
<1>1. UNCHANGED <<clock, events, calls>>
  BY DEF Health, AlreadyFired, Finish, Fail, dbVars, worldVars
<1>2. PICK s \in {"rules", "health", "idle"} : Goto(w, s)
  BY DEF Health, AlreadyFired, Finish, Fail, NextRule, EndRun
<1>3. \A v \in Workers : v # w => alert'[v] = alert[v]
  BY DEF Health, AlreadyFired, Finish, Fail, NextRule, EndRun, TypeOK
<1>4. \A v \in Workers : pc'[v] = IF v = w THEN s ELSE pc[v]
  BY <1>2 DEF Goto, TypeOK
<1> QED
  BY <1>1, <1>2, <1>3, <1>4, QuietStep

LEMMA AlertingStep ==
  ASSUME TypeOK, Loops, Alerting, [Next]_vars
  PROVE  Alerting'
<1>1. CASE Tick \/ Purge
  BY <1>1, TickAlerting, PurgeAlerting
<1>2. ASSUME NEW w \in Workers, StartRun(w) \/ Ingest(w) \/ Evaluate(w) \/ Fail(w)
      PROVE  Alerting'
  BY <1>2, QuietIngest, QuietEvaluate, FireAlerting, InsertAlerting,
     SendAlerting, MarkAlerting DEF Evaluate
<1>3. CASE UNCHANGED vars
  <2>1. UNCHANGED <<clock, events, calls, pc, alert>>
    BY <1>3 DEF vars, dbVars, worldVars, callVars
  <2> QED
    BY <2>1 DEF Alerting, RowInHour, InsertInTime, OneSender, SentIsTaken,
                OneNotification, Taken, Past, Row, HourOf
<1> QED
  BY <1>1, <1>2, <1>3 DEF Next
-----------------------------------------------------------------------------
LEMMA InitInv == Init => IInv
<1> SUFFICES ASSUME Init PROVE IInv
  OBVIOUS
<1>1. Empty \in [Posts -> Times \cup {Never}] /\ Start \in Times
  BY Numbers DEF Empty, Times
<1>2. TypeOK
  BY <1>1 DEF Init, TypeOK, Steps
<1>3. Loops /\ Alerting
  BY DEF Init, Loops, Firing, Alerting, RowInHour, InsertInTime, OneSender,
         SentIsTaken, OneNotification
<1>4. References
  BY DEF Init, References, Empty
<1> QED
  BY <1>2, <1>3, <1>4 DEF IInv

LEMMA StepInv == IInv /\ [Next]_vars => IInv'
BY TypeStep, AlertingStep, ReferencesStep DEF IInv

LEMMA Invariance == Spec => []IInv
BY InitInv, StepInv, PTL DEF Spec

\* The rows and the state of every process keep the shape the pipeline
\* writes (storage/db.py).
THEOREM TypeCorrect == Spec => []TypeOK
<1>1. IInv => TypeOK
  BY DEF IInv
<1> QED
  BY <1>1, Invariance, PTL

\* However many processes run and whenever the purge does, a normalized post
\* refers to the raw post that was normalized (insert_normalized_posts and
\* purge_old_data in storage/db.py, with foreign keys enforced).
THEOREM ReferencesCorrect == Spec => []References
<1>1. IInv => References
  BY DEF IInv
<1> QED
  BY <1>1, Invariance, PTL

\* However many processes find a rule violated in one clock hour, at most one
\* notifies, also across the purge of the alerts (_fire in alerts/evaluator.py
\* and insert_alert_event in storage/db.py).
THEOREM OneNotificationCorrect == Spec => []OneNotification
<1>1. IInv => OneNotification
  BY DEF IInv, Alerting
<1> QED
  BY <1>1, Invariance, PTL
=============================================================================
