--------------------------- MODULE DeviceFeedsProofs ---------------------------
(***************************************************************************)
(* Proofs about DeviceFeeds for every interval, grace and set of alerts.   *)
(* Each half has an invariant of its own: FastInv ties the clocks to the   *)
(* timer, FeedInv the watermark to what was fired.                         *)
(***************************************************************************)
EXTENDS DeviceFeeds, FiniteSetTheorems, TLAPS

\* A step as the fast half sees it.
FastNext == FastStep \/ \E v \in Views: PollSucceeds(v)

\* A step as the feed sees it.
Requested == RequestFetch /\ UNCHANGED <<cloud, fetch, seen, news, feed, storyVars>>
FeedNext == FeedStep \/ Requested

(* Every step of the system is a step or a stutter of each half. *)
LEMMA Halves ==
  ASSUME Next
  PROVE  (FastNext \/ UNCHANGED fastVars) /\ (FeedNext \/ UNCHANGED feedVars)
<1>1. CASE GenuinePoll
  <2>1. PICK v \in Answers:
          /\ PollSucceeds(v)
          /\ RequestFetch \/ UNCHANGED due
          /\ UNCHANGED <<cloud, fetch, seen, news, feed, storyVars>>
    BY <1>1 DEF GenuinePoll
  <2>2. FastNext
    BY <2>1 DEF FastNext, Answers
  <2>3. FeedNext \/ UNCHANGED feedVars
    BY <2>1 DEF FeedNext, Requested, feedVars, storyVars
  <2>4. QED BY <2>2, <2>3
<1>2. CASE FastOther
  BY <1>2 DEF FastOther, FastNext
<1>3. CASE FeedOther
  BY <1>3 DEF FeedOther, FeedNext
<1>4. QED BY <1>1, <1>2, <1>3 DEF Next

-----------------------------------------------------------------------------
(* The fast coordinator.                                                   *)

(* The attempt clock is the poll's own, but for a slot a push has claimed; *)
(* the scheduled poll comes no sooner than an interval and sooner than two *)
(* after the one before; what the debounce has sighted was really polled.  *)
PaceInv ==
  /\ owed.answer => since.poll = 0 /\ owed.refresh # "push"
  /\ owed.refresh # "push" =>
       since.attempt = IF since.poll < Interval THEN since.poll ELSE Interval
  /\ owed.refresh = "push" => since.poll >= Interval
  /\ timer # Off /\ ~owed.answer /\ owed.refresh # "push" =>
       Interval <= timer + since.poll /\ timer + since.poll < 2 * Interval

SightInv ==
  /\ view.key => streak >= 1
  /\ debounce.sighted >= 1 => view.key /\ ~debounce.known

(* A sighting keeps the debounce's type and counts only views with the key. *)
LEMMA SightTyping ==
  ASSUME debounce \in [known: BOOLEAN, sighted: 0..Debounce - 1],
         NEW key \in BOOLEAN, Sight(key)
  PROVE  /\ debounce' \in [known: BOOLEAN, sighted: 0..Debounce - 1]
         /\ debounce.known => debounce' = debounce
         /\ ~debounce.known /\ debounce'.sighted >= 1 => key /\ ~debounce'.known
         /\ debounce'.known /\ ~debounce.known => key /\ debounce.sighted + 1 >= Debounce
<1> USE PaceAssumption
<1>1. CASE debounce.known
  BY <1>1 DEF Sight
<1>2. CASE ~debounce.known /\ ~key
  BY <1>2 DEF Sight
<1>3. CASE ~debounce.known /\ key /\ debounce.sighted + 1 >= Debounce
  BY <1>3 DEF Sight, Enough
<1>4. CASE ~debounce.known /\ key /\ ~(debounce.sighted + 1 >= Debounce)
  <2>1. debounce' = [debounce EXCEPT !.sighted = @ + 1]
    BY <1>4 DEF Sight, Enough
  <2>2. QED BY <1>4, <2>1
<1>5. QED BY <1>1, <1>2, <1>3, <1>4

LEMMA FastInit_Inv ==
  ASSUME FastInit
  PROVE  FastTypeOK /\ PaceInv /\ SightInv
<1> USE PaceAssumption
<1>1. FastTypeOK
  BY DEF FastInit, FastTypeOK, Views, Off
<1>2. PaceInv
  BY DEF FastInit, PaceInv, Off
<1>3. SightInv
  BY DEF FastInit, SightInv
<1>4. QED BY <1>1, <1>2, <1>3

LEMMA FastTypeStep ==
  ASSUME FastTypeOK, FastNext
  PROVE  FastTypeOK'
<1> USE PaceAssumption
<1>1. CASE StartPoll
  <2>1. timer' \in {Off} \cup 0..Interval
    BY <1>1 DEF StartPoll, FastTypeOK, Off
  <2>2. since' \in [attempt: 0..Interval, good: 0..StaleFor, poll: 0..2 * Interval]
    <3>1. since' = [since EXCEPT !.attempt = 0, !.poll = 0]
      BY <1>1 DEF StartPoll
    <3>2. 0 \in 0..Interval /\ 0 \in 0..2 * Interval
      OBVIOUS
    <3>3. since \in [attempt: 0..Interval, good: 0..StaleFor, poll: 0..2 * Interval]
      BY DEF FastTypeOK
    <3>4. QED BY ONLY <3>1, <3>2, <3>3
  <2>3. owed' \in [answer: BOOLEAN, refresh: {"no", "push", "hand"}]
    BY <1>1 DEF StartPoll, FastTypeOK
  <2>4. view' \in Views /\ health' \in [ok: BOOLEAN, stale: BOOLEAN]
    BY <1>1 DEF StartPoll, FastTypeOK
  <2>5. debounce' \in [known: BOOLEAN, sighted: 0..Debounce - 1]
    BY <1>1 DEF StartPoll, FastTypeOK
  <2>6. streak' \in 0..Debounce
    BY <1>1 DEF StartPoll, FastTypeOK
  <2>7. QED BY <2>1, <2>2, <2>3, <2>4, <2>5, <2>6 DEF FastTypeOK
<1>2. CASE DropRefresh
  BY <1>2 DEF DropRefresh, FastTypeOK, Off
<1>3. CASE ServeStale
  <2>1. timer' \in {Off} \cup 0..Interval
    BY <1>3 DEF ServeStale, Answered, Unobserved, FastTypeOK, Off
  <2>2. since' \in [attempt: 0..Interval, good: 0..StaleFor, poll: 0..2 * Interval]
    BY <1>3 DEF ServeStale, Answered, Unobserved, FastTypeOK
  <2>3. owed' \in [answer: BOOLEAN, refresh: {"no", "push", "hand"}]
    BY <1>3 DEF ServeStale, Answered, Unobserved, FastTypeOK
  <2>4. view' \in Views /\ health' \in [ok: BOOLEAN, stale: BOOLEAN]
    BY <1>3 DEF ServeStale, Answered, Unobserved, FastTypeOK
  <2>5. debounce' \in [known: BOOLEAN, sighted: 0..Debounce - 1]
    BY <1>3 DEF ServeStale, Answered, Unobserved, FastTypeOK
  <2>6. streak' \in 0..Debounce
    BY <1>3 DEF ServeStale, Answered, Unobserved, FastTypeOK
  <2>7. QED BY <2>1, <2>2, <2>3, <2>4, <2>5, <2>6 DEF FastTypeOK
<1>4. CASE Push
  <2>1. timer' \in {Off} \cup 0..Interval
    BY <1>4 DEF Push, FloorPassed, FastTypeOK, Off
  <2>2. since' \in [attempt: 0..Interval, good: 0..StaleFor, poll: 0..2 * Interval]
    BY <1>4 DEF Push, FloorPassed, FastTypeOK
  <2>3. owed' \in [answer: BOOLEAN, refresh: {"no", "push", "hand"}]
    BY <1>4 DEF Push, FloorPassed, FastTypeOK
  <2>4. view' \in Views /\ health' \in [ok: BOOLEAN, stale: BOOLEAN]
    BY <1>4 DEF Push, FloorPassed, FastTypeOK
  <2>5. debounce' \in [known: BOOLEAN, sighted: 0..Debounce - 1]
    BY <1>4 DEF Push, FloorPassed, FastTypeOK
  <2>6. streak' \in 0..Debounce
    BY <1>4 DEF Push, FloorPassed, FastTypeOK
  <2>7. QED BY <2>1, <2>2, <2>3, <2>4, <2>5, <2>6 DEF FastTypeOK
<1>5. CASE AskByHand
  BY <1>5 DEF AskByHand, FastTypeOK, Off
<1>6. CASE Tick
  BY <1>6 DEF Tick, Later, FastTypeOK, Off
<1>7. ASSUME NEW how \in Failures, PollFails(how)
      PROVE  FastTypeOK'
  <2>1. timer' \in {Off} \cup 0..Interval
    BY <1>7 DEF PollFails, Answered, FastTypeOK, Off
  <2>2. since' \in [attempt: 0..Interval, good: 0..StaleFor, poll: 0..2 * Interval]
    BY <1>7 DEF PollFails, Answered, FastTypeOK
  <2>3. owed' \in [answer: BOOLEAN, refresh: {"no", "push", "hand"}]
    BY <1>7 DEF PollFails, Answered, FastTypeOK
  <2>4. view' \in Views /\ health' \in [ok: BOOLEAN, stale: BOOLEAN]
    BY <1>7 DEF PollFails, Answered, FastTypeOK
  <2>5. debounce' \in [known: BOOLEAN, sighted: 0..Debounce - 1]
    BY <1>7, SightTyping DEF PollFails, Answered, FastTypeOK, Views
  <2>6. streak' \in 0..Debounce
    BY <1>7 DEF PollFails, Answered, FastTypeOK
  <2>7. QED BY <2>1, <2>2, <2>3, <2>4, <2>5, <2>6 DEF FastTypeOK
<1>8. ASSUME NEW v \in Views, PollSucceeds(v)
      PROVE  FastTypeOK'
  <2>1. timer' \in {Off} \cup 0..Interval
    BY <1>8 DEF PollSucceeds, Answered, FastTypeOK, Off
  <2>2. since' \in [attempt: 0..Interval, good: 0..StaleFor, poll: 0..2 * Interval]
    BY <1>8 DEF PollSucceeds, Answered, FastTypeOK
  <2>3. owed' \in [answer: BOOLEAN, refresh: {"no", "push", "hand"}]
    BY <1>8 DEF PollSucceeds, Answered, FastTypeOK
  <2>4. view' \in Views /\ health' \in [ok: BOOLEAN, stale: BOOLEAN]
    BY <1>8 DEF PollSucceeds, Answered, FastTypeOK
  <2>5. debounce' \in [known: BOOLEAN, sighted: 0..Debounce - 1]
    BY <1>8, SightTyping DEF PollSucceeds, Answered, FastTypeOK, Views
  <2>6. streak' \in 0..Debounce
    BY <1>8 DEF PollSucceeds, Answered, FastTypeOK, Later
  <2>7. QED BY <2>1, <2>2, <2>3, <2>4, <2>5, <2>6 DEF FastTypeOK
<1>9. QED BY <1>1, <1>2, <1>3, <1>4, <1>5, <1>6, <1>7, <1>8 DEF FastNext, FastStep

LEMMA PaceStep ==
  ASSUME FastTypeOK, PaceInv, FastNext
  PROVE  PaceInv'
<1> USE PaceAssumption
<1>1. CASE StartPoll
  BY <1>1 DEF StartPoll, FastTypeOK, PaceInv, Off
<1>2. CASE DropRefresh
  BY <1>2 DEF DropRefresh, FastTypeOK, PaceInv, Off
<1>3. CASE ServeStale
  BY <1>3 DEF ServeStale, Answered, FastTypeOK, PaceInv, Off
<1>4. CASE Push
  BY <1>4 DEF Push, FloorPassed, FastTypeOK, PaceInv, Off
<1>5. CASE AskByHand
  BY <1>5 DEF AskByHand, FastTypeOK, PaceInv, Off
<1>6. CASE Tick
  BY <1>6 DEF Tick, Later, FastTypeOK, PaceInv, Off
<1>7. CASE \E how \in Failures: PollFails(how)
  BY <1>7 DEF PollFails, Answered, FastTypeOK, PaceInv, Off
<1>8. CASE \E v \in Views: PollSucceeds(v)
  BY <1>8 DEF PollSucceeds, Answered, FastTypeOK, PaceInv, Off
<1>9. QED BY <1>1, <1>2, <1>3, <1>4, <1>5, <1>6, <1>7, <1>8 DEF FastNext, FastStep

LEMMA SightStep ==
  ASSUME FastTypeOK, SightInv, FastNext
  PROVE  SightInv'
<1> USE PaceAssumption
<1>1. CASE StartPoll \/ DropRefresh \/ Push \/ AskByHand \/ Tick \/ ServeStale
  BY <1>1 DEF StartPoll, DropRefresh, Push, AskByHand, Tick, ServeStale, Unobserved, SightInv
<1>2. ASSUME NEW how \in Failures, PollFails(how)
      PROVE  SightInv'
  <2>1. UNCHANGED <<view, streak>> /\ (Sight(view.key) \/ UNCHANGED debounce)
    BY <1>2 DEF PollFails
  <2>2. CASE Sight(view.key)
    BY <2>1, <2>2, SightTyping DEF SightInv, FastTypeOK, Views
  <2>3. CASE UNCHANGED debounce
    BY <2>1, <2>3 DEF SightInv
  <2>4. QED BY <2>1, <2>2, <2>3
<1>3. ASSUME NEW v \in Views, PollSucceeds(v)
      PROVE  SightInv'
  <2>1. /\ view' = v /\ Sight(v.key) /\ v.key \in BOOLEAN
        /\ streak' = IF v.key THEN Later(streak, Debounce) ELSE 0
    BY <1>3 DEF PollSucceeds, Views
  <2>2. v.key => streak' >= 1
    BY <2>1 DEF Later, FastTypeOK
  <2>3. debounce'.sighted >= 1 => v.key /\ ~debounce'.known
    <3>1. debounce \in [known: BOOLEAN, sighted: 0..Debounce - 1]
      BY DEF FastTypeOK
    <3>2. debounce.known => debounce' = debounce
      BY <2>1, <3>1, SightTyping
    <3>3. ~debounce.known /\ debounce'.sighted >= 1 => v.key /\ ~debounce'.known
      BY <2>1, <3>1, SightTyping
    <3>4. debounce.known => ~(debounce.sighted >= 1)
      BY DEF SightInv
    <3>5. QED BY <3>2, <3>3, <3>4
  <2>4. QED BY <2>1, <2>2, <2>3 DEF SightInv
<1>4. QED BY <1>1, <1>2, <1>3 DEF FastNext, FastStep

-----------------------------------------------------------------------------
(* The activity feed.                                                      *)

(* What the bus heard is the watermark without the backlog, and the        *)
(* backlog is part of the watermark from the first page on.                *)
StoryInv ==
  /\ AlertsAreHeardOnce
  /\ IF seen = None THEN backlog = {} ELSE backlog \subseteq seen

(* Counting keeps the type and leaves everything alone when nothing is new. *)
LEMMA CountedTyping ==
  ASSUME NEW n \in [Alerts -> 0..2], NEW S
  PROVE  /\ Counted(n, S) \in [Alerts -> 0..2]
         /\ S \cap Alerts = {} => Counted(n, S) = n
         /\ \A a \in Alerts: Counted(n, S)[a] =
              IF a \in S /\ n[a] < 2 THEN n[a] + 1 ELSE n[a]
BY DEF Counted

(* The watermark is a set of alerts, never the sentinel it starts from. *)
LEMMA WatermarkTyping ==
  ASSUME FeedTypeOK
  PROVE  LET page == fetch.page IN
         /\ page \subseteq Alerts
         /\ Watermark(page) \subseteq Alerts
         /\ Watermark(page) # None
         /\ Unseen(page) \subseteq Alerts
<1>1. fetch.page \subseteq Alerts
  BY DEF FeedTypeOK
<1>2. seen # None => seen \subseteq Alerts
  BY DEF FeedTypeOK
<1>3. Watermark(fetch.page) \subseteq Alerts
  BY <1>1, <1>2 DEF Watermark
<1>4. Watermark(fetch.page) # None
  BY <1>3, NoneAssumption
<1>5. Unseen(fetch.page) \subseteq Alerts
  BY <1>1 DEF Unseen
<1>6. QED BY <1>1, <1>3, <1>4, <1>5

LEMMA FeedInit_Inv ==
  ASSUME FeedInit
  PROVE  FeedTypeOK /\ StoryInv
<1>1. FeedTypeOK
  <2>1. /\ cloud \in [raised: SUBSET Alerts, unread: SUBSET Alerts]
        /\ fetch \in [at: {"idle", "alerts", "events"}, page: SUBSET Alerts]
        /\ due \in [timer: BOOLEAN, asked: BOOLEAN]
    BY DEF FeedInit, Idle
  <2>2. /\ seen \in (SUBSET Alerts) \cup {None}
        /\ backlog \in SUBSET Alerts
        /\ news \in SUBSET Alerts
    BY <2>1 DEF FeedInit
  <2>3. feed \in [ok: BOOLEAN, stale: BOOLEAN, good: Ages]
    <3>1. CASE feed = [ok |-> TRUE, stale |-> FALSE, good |-> "recent"]
      BY <3>1 DEF Ages
    <3>2. CASE feed = [ok |-> FALSE, stale |-> FALSE, good |-> "never"]
      BY <3>2 DEF Ages
    <3>3. QED BY <3>1, <3>2 DEF FeedInit
  <2>4. heard \in [Alerts -> 0..2] /\ shown \in [Alerts -> 0..2]
    BY DEF FeedInit, NotYet
  <2>5. QED BY <2>1, <2>2, <2>3, <2>4 DEF FeedTypeOK
<1>2. StoryInv
  BY NoneAssumption DEF FeedInit, StoryInv, AlertsAreHeardOnce, NotYet
<1>3. QED BY <1>1, <1>2

LEMMA FeedTypeStep ==
  ASSUME FeedTypeOK, FeedNext
  PROVE  FeedTypeOK'
<1> USE DEF FeedTypeOK, Ages, storyVars
<1>1. CASE StartFetch
  BY <1>1 DEF StartFetch, Idle
<1>2. CASE EventsPage
  <2>1. Counted(heard, Unseen(fetch.page)) \in [Alerts -> 0..2]
    BY CountedTyping
  <2>2. Counted(shown, Unseen(fetch.page)) \in [Alerts -> 0..2]
    BY CountedTyping
  <2>3. Watermark(fetch.page) \in SUBSET Alerts /\ Unseen(fetch.page) \in SUBSET Alerts
    BY WatermarkTyping
  <2>4. QED BY <1>2, <2>1, <2>2, <2>3 DEF EventsPage, Notify, Idle
<1>3. CASE ServeStaleFeed
  BY <1>3, CountedTyping DEF ServeStaleFeed, Notify, Idle, ReservedNews
<1>4. CASE GraceEnds
  BY <1>4 DEF GraceEnds
<1>5. CASE Dismiss
  BY <1>5 DEF Dismiss
<1>6. CASE \E page \in SUBSET cloud.raised: AlertsPage(page)
  BY <1>6 DEF AlertsPage
<1>7. ASSUME NEW how \in FetchFailures, FetchFails(how)
      PROVE  FeedTypeOK'
  <2>1. shown' \in [Alerts -> 0..2]
    BY <1>7, CountedTyping DEF FetchFails, Notify
  <2>2. due' \in [timer: BOOLEAN, asked: BOOLEAN]
    BY <1>7 DEF FetchFails
  <2>3. feed' \in [ok: BOOLEAN, stale: BOOLEAN, good: Ages]
    BY <1>7 DEF FetchFails
  <2>4. QED BY <1>7, <2>1, <2>2, <2>3 DEF FetchFails, Idle
<1>8. CASE \E a \in Alerts: Raise(a)
  BY <1>8 DEF Raise
<1>9. CASE Requested
  BY <1>9 DEF Requested, RequestFetch
<1>10. QED
  BY <1>1, <1>2, <1>3, <1>4, <1>5, <1>6, <1>7, <1>8, <1>9 DEF FeedNext, FeedStep

LEMMA StoryStep ==
  ASSUME FeedTypeOK, StoryInv, FeedNext
  PROVE  StoryInv'
<1>1. CASE EventsPage
  <2>1. /\ seen' = Watermark(fetch.page)
        /\ backlog' = IF seen = None THEN fetch.page ELSE backlog
        /\ heard' = Counted(heard, Unseen(fetch.page))
    BY <1>1 DEF EventsPage
  <2>2. /\ seen' # None
        /\ seen' = IF seen = None THEN fetch.page ELSE seen \cup fetch.page
    BY <2>1, WatermarkTyping DEF Watermark
  <2>3. backlog' \subseteq seen'
    BY <2>1, <2>2 DEF StoryInv
  <2>4. ASSUME NEW a \in Alerts
        PROVE  heard'[a] = IF a \in seen' \ backlog' THEN 1 ELSE 0
    <3>1. heard[a] = IF seen # None /\ a \in seen \ backlog THEN 1 ELSE 0
      BY DEF StoryInv, AlertsAreHeardOnce
    <3>2. heard'[a] = IF a \in Unseen(fetch.page) /\ heard[a] < 2
                      THEN heard[a] + 1 ELSE heard[a]
      BY <2>1, CountedTyping DEF FeedTypeOK
    <3>3. CASE seen = None
      BY <2>1, <2>2, <3>1, <3>2, <3>3 DEF Unseen
    <3>4. CASE seen # None
      BY <2>1, <2>2, <3>1, <3>2, <3>4 DEF Unseen, StoryInv
    <3>5. QED BY <3>3, <3>4
  <2>5. QED BY <2>2, <2>3, <2>4 DEF StoryInv, AlertsAreHeardOnce
<1>2. CASE UNCHANGED <<seen, backlog, heard>>
  BY <1>2 DEF StoryInv, AlertsAreHeardOnce
<1>3. QED
  BY <1>1, <1>2 DEF FeedNext, FeedStep, StartFetch, ServeStaleFeed, GraceEnds, Dismiss,
    AlertsPage, FetchFails, Raise, Requested, storyVars

LEMMA EntityStep ==
  ASSUME FeedTypeOK, StoryInv, FeedNext, shown' # shown
  PROVE  heard' # heard \/ (feed.ok /\ ~feed'.ok)
<1>1. CASE EventsPage
  <2>1. Counted(shown, Unseen(fetch.page)) # shown
    BY <1>1 DEF EventsPage, Notify
  <2>2. PICK a \in Alerts: a \in Unseen(fetch.page)
    BY <2>1, CountedTyping DEF FeedTypeOK
  <2>3. heard[a] = 0
    BY <2>2 DEF StoryInv, AlertsAreHeardOnce, Unseen
  <2>4. Counted(heard, Unseen(fetch.page))[a] = 1
    BY <2>2, <2>3, CountedTyping DEF FeedTypeOK
  <2>5. heard'[a] # heard[a]
    BY <1>1, <2>3, <2>4 DEF EventsPage
  <2>6. QED BY <2>5
<1>2. CASE ServeStaleFeed
  BY <1>2, CountedTyping DEF ServeStaleFeed, Notify, ReservedNews, FeedTypeOK
<1>3. CASE \E how \in FetchFailures: FetchFails(how)
  BY <1>3 DEF FetchFails, FeedTypeOK
<1>4. CASE UNCHANGED shown
  BY <1>4
<1>5. QED
  BY <1>1, <1>2, <1>3, <1>4 DEF FeedNext, FeedStep, StartFetch, GraceEnds, Dismiss,
    AlertsPage, Raise, Requested, storyVars

-----------------------------------------------------------------------------
(* The two together.                                                       *)

(* Until an alert is raised, the badge the fast view shows is as high as   *)
(* the cloud's.                                                            *)
BadgeInv ==
  ~raisedSince /\ view.badge # Unknown => Cardinality(cloud.unread) <= view.badge

Inv == TypeOK /\ PaceInv /\ SightInv /\ StoryInv /\ BadgeInv

LEMMA Init_Inv ==
  ASSUME Init
  PROVE  Inv
<1>1. FastTypeOK /\ PaceInv /\ SightInv
  BY FastInit_Inv DEF Init
<1>2. FeedTypeOK /\ StoryInv
  BY FeedInit_Inv DEF Init
<1>3. BadgeInv
  <2>1. view.badge # Unknown => view.badge = Cardinality(cloud.unread) /\ view.badge \in Nat
    BY UnreadAssumption DEF Init, Answers, Views
  <2>2. QED BY <2>1 DEF BadgeInv
<1>4. raisedSince \in BOOLEAN
  BY DEF Init
<1>5. QED BY <1>1, <1>2, <1>3, <1>4 DEF Inv, TypeOK

LEMMA BadgeStep ==
  ASSUME FastTypeOK, FeedTypeOK, BadgeInv, Next
  PROVE  BadgeInv' /\ (due'.asked /\ ~due.asked => raisedSince \/ view'.regen # view.regen)
<1>1. CASE GenuinePoll
  <2>1. PICK v \in Answers:
          /\ view' = v
          /\ IF BadgeRose(v) \/ TileFlipped(v) THEN RequestFetch ELSE UNCHANGED due
          /\ UNCHANGED cloud
    BY <1>1 DEF GenuinePoll, PollSucceeds
  <2>2. v.badge # Unknown => v.badge = Cardinality(cloud.unread) /\ v.badge \in Nat
    BY UnreadAssumption DEF Answers, Views
  <2>3. BadgeInv'
    BY <2>1, <2>2 DEF BadgeInv
  <2>4. ASSUME due'.asked, ~due.asked
        PROVE  raisedSince \/ view'.regen # view.regen
    <3>1. BadgeRose(v) \/ TileFlipped(v)
      BY <2>1, <2>4
    <3>2. CASE BadgeRose(v)
      <4>1. view.badge # Unknown /\ view.badge \in Nat
        BY <3>2, UnreadAssumption DEF BadgeRose, FastTypeOK, Views
      <4>2. v.badge # Unknown /\ v.badge > view.badge
        BY <3>2 DEF BadgeRose
      <4>3. ~(Cardinality(cloud.unread) <= view.badge)
        BY <2>2, <4>1, <4>2
      <4>4. QED BY <4>1, <4>3 DEF BadgeInv
    <3>3. CASE TileFlipped(v)
      BY <2>1, <3>3 DEF TileFlipped
    <3>4. QED BY <3>1, <3>2, <3>3
  <2>5. QED BY <2>3, <2>4
<1>2. CASE FastOther
  BY <1>2 DEF FastOther, FastStep, StartPoll, DropRefresh, ServeStale, Push, AskByHand,
    Tick, PollFails, feedVars, BadgeInv
<1>3. CASE FeedOther
  <2>1. UNCHANGED view /\ raisedSince' = (raisedSince \/ cloud'.raised # cloud.raised)
    BY <1>3 DEF FeedOther, fastVars
  <2>2. ~(due'.asked /\ ~due.asked)
    BY <1>3 DEF FeedOther, FeedStep, StartFetch, EventsPage, ServeStaleFeed, GraceEnds,
      Dismiss, AlertsPage, FetchFails, Raise, FeedTypeOK
  <2>3. CASE UNCHANGED cloud
    BY <2>1, <2>2, <2>3 DEF BadgeInv
  <2>4. CASE Dismiss
    <3>1. Cardinality(cloud'.unread) = 0 /\ cloud'.raised = cloud.raised
      BY <2>4, FS_EmptySet DEF Dismiss, FeedTypeOK
    <3>2. view.badge # Unknown => view.badge \in Nat
      BY UnreadAssumption DEF FastTypeOK, Views
    <3>3. view.badge # Unknown => 0 <= view.badge
      BY <3>2
    <3>4. QED BY <2>1, <2>2, <3>1, <3>3 DEF BadgeInv
  <2>5. ASSUME NEW a \in Alerts, Raise(a)
        PROVE  BadgeInv'
    <3>1. cloud'.raised # cloud.raised
      BY <2>5 DEF Raise, FeedTypeOK
    <3>2. QED BY <2>1, <3>1 DEF BadgeInv
  <2>6. QED
    BY <1>3, <2>2, <2>3, <2>4, <2>5 DEF FeedOther, FeedStep, StartFetch, EventsPage,
      ServeStaleFeed, GraceEnds, AlertsPage, FetchFails
<1>4. QED BY <1>1, <1>2, <1>3 DEF Next

LEMMA Next_Inv ==
  ASSUME Inv, [Next]_vars
  PROVE  Inv'
<1>1. CASE Next
  <2>1. FastTypeOK' /\ PaceInv' /\ SightInv'
    <3>1. CASE FastNext
      BY <3>1, FastTypeStep, PaceStep, SightStep DEF Inv, TypeOK
    <3>2. CASE UNCHANGED fastVars
      BY <3>2 DEF fastVars, Inv, TypeOK, FastTypeOK, PaceInv, SightInv
    <3>3. QED BY <1>1, <3>1, <3>2, Halves
  <2>2. FeedTypeOK' /\ StoryInv'
    <3>1. CASE FeedNext
      BY <3>1, FeedTypeStep, StoryStep DEF Inv, TypeOK
    <3>2. CASE UNCHANGED feedVars
      BY <3>2 DEF feedVars, Inv, TypeOK, FeedTypeOK, StoryInv, AlertsAreHeardOnce
    <3>3. QED BY <1>1, <3>1, <3>2, Halves
  <2>3. BadgeInv'
    BY <1>1, BadgeStep DEF Inv, TypeOK
  <2>4. raisedSince' \in BOOLEAN
    BY <1>1 DEF Next, GenuinePoll, FastOther, FeedOther, Inv, TypeOK
  <2>5. QED BY <2>1, <2>2, <2>3, <2>4 DEF Inv, TypeOK
<1>2. CASE UNCHANGED vars
  BY <1>2 DEF vars, fastVars, feedVars, Inv, TypeOK, FastTypeOK, FeedTypeOK, PaceInv, SightInv,
    StoryInv, AlertsAreHeardOnce, BadgeInv
<1>3. QED BY <1>1, <1>2

LEMMA Always == Spec => []Inv
BY Init_Inv, Next_Inv, PTL DEF Spec

(* Every variable of the two coordinators keeps the shape the code gives it. *)
THEOREM FeedsTyping == Spec => []TypeOK
BY Always, PTL DEF Inv

(* The docstring of async_apply_live_update, for every interval: pushes    *)
(* cannot postpone the poll to two intervals after the last one.           *)
THEOREM StreamNeverStarvesThePoll == Spec => []StreamKeepsPolling
<1>1. Inv => StreamKeepsPolling
  BY PaceAssumption DEF Inv, TypeOK, FastTypeOK, PaceInv, StreamKeepsPolling, Off
<1>2. QED BY Always, <1>1, PTL

(* Nor do pushes add polls: the floor is keyed to attempts, so a poll that *)
(* fails is repeated an interval later and no sooner.                      *)
THEOREM PushesAddNoPolls == Spec => PollsKeepTheirPace
<1>1. Inv /\ [Next]_vars => [owed'.answer /\ ~owed.answer =>
        since.poll >= Interval \/ owed.refresh = "hand"]_fastVars
  <2> SUFFICES ASSUME Inv, [Next]_vars, owed'.answer, ~owed.answer
               PROVE  since.poll >= Interval \/ owed.refresh = "hand"
    OBVIOUS
  <2>1. owed \in [answer: BOOLEAN, refresh: {"no", "push", "hand"}]
    BY DEF Inv, TypeOK, FastTypeOK
  <2>2. CASE StartPoll
    BY <2>2, PaceAssumption DEF StartPoll, Inv, TypeOK, FastTypeOK, PaceInv, Off
  <2>3. CASE FastNext /\ ~StartPoll
    BY <2>1, <2>3 DEF FastNext, FastStep, DropRefresh, ServeStale, Push, AskByHand, Tick,
      PollFails, PollSucceeds, Answered
  <2>4. CASE UNCHANGED owed
    BY <2>4
  <2>5. QED BY <2>2, <2>3, <2>4, Halves DEF vars, fastVars
<1>2. QED BY Always, <1>1, PTL DEF Spec, PollsKeepTheirPace

(* An entity is created only for a key that the debounce's number of       *)
(* genuine polls carried in a row, or by a failure's notification.         *)
THEOREM EntitiesNeedGenuinePolls == Spec => SightingsAreGenuine
<1>1. Inv /\ [Next]_vars => [debounce'.known /\ ~debounce.known =>
        streak' >= Debounce \/ (health.ok /\ ~health'.ok)]_fastVars
  <2> SUFFICES ASSUME Inv, [Next]_vars, debounce'.known, ~debounce.known
               PROVE  streak' >= Debounce \/ (health.ok /\ ~health'.ok)
    OBVIOUS
  <2>1. debounce \in [known: BOOLEAN, sighted: 0..Debounce - 1]
    BY DEF Inv, TypeOK, FastTypeOK
  <2>2. ASSUME NEW v \in Views, PollSucceeds(v)
        PROVE  streak' >= Debounce
    <3>1. v.key /\ debounce.sighted + 1 >= Debounce
      BY <2>1, <2>2, SightTyping DEF PollSucceeds, Views
    <3>2. streak' = Later(streak, Debounce)
      BY <2>2, <3>1 DEF PollSucceeds
    <3>3. debounce.sighted >= 1 => streak >= 1
      BY DEF Inv, SightInv
    <3>4. streak \in 0..Debounce /\ debounce.sighted \in 0..Debounce - 1
      BY <2>1 DEF Inv, TypeOK, FastTypeOK
    <3>5. QED BY <3>1, <3>2, <3>3, <3>4, PaceAssumption DEF Later
  <2>3. ASSUME NEW how \in Failures, PollFails(how)
        PROVE  health.ok /\ ~health'.ok
    <3>1. health.ok
      BY <2>3 DEF PollFails
    <3>2. health' = [health EXCEPT !.ok = FALSE] /\ health \in [ok: BOOLEAN, stale: BOOLEAN]
      BY <2>3 DEF PollFails, Inv, TypeOK, FastTypeOK
    <3>3. QED BY <3>1, <3>2
  <2>4. CASE UNCHANGED debounce
    BY <2>4
  <2>5. QED
    BY <2>2, <2>3, <2>4, Halves DEF vars, fastVars, FastNext, FastStep, StartPoll, DropRefresh,
      ServeStale, Unobserved, Push, AskByHand, Tick
<1>2. QED BY Always, <1>1, PTL DEF Spec, SightingsAreGenuine

(* For every set of alerts: the bus hears of each new one exactly once,    *)
(* through shrunk pages, stale re-serves and failures between two pages.   *)
THEOREM EachAlertIsHeardOnce == Spec => []AlertsAreHeardOnce
<1>1. Inv => AlertsAreHeardOnce
  BY DEF Inv, StoryInv
<1>2. QED BY Always, <1>1, PTL

(* The alert entity fires with the bus, but for a failure's notification.  *)
THEOREM EntityFiresWithTheBus == Spec => EntityFollowsTheBus
<1>1. Inv /\ [Next]_vars =>
        [shown' # shown => heard' # heard \/ (feed.ok /\ ~feed'.ok)]_feedVars
  <2> SUFFICES ASSUME Inv, [Next]_vars, shown' # shown
               PROVE  heard' # heard \/ (feed.ok /\ ~feed'.ok)
    OBVIOUS
  <2>1. CASE FeedNext
    BY <2>1, EntityStep DEF Inv, TypeOK
  <2>2. CASE UNCHANGED feedVars
    BY <2>2 DEF feedVars
  <2>3. QED BY <2>1, <2>2, Halves DEF vars, feedVars
<1>2. QED BY Always, <1>1, PTL DEF Spec, EntityFollowsTheBus

(* The feed's gentle cadence is broken only for a new alert or a flip of   *)
(* the regeneration tile.                                                  *)
THEOREM EarlyRefreshesAreEarned == Spec => EarlyRefreshIsEarned
<1>1. Inv /\ [Next]_vars =>
        [due'.asked /\ ~due.asked => raisedSince \/ view'.regen # view.regen]_vars
  BY BadgeStep DEF Inv, TypeOK
<1>2. QED BY Always, <1>1, PTL DEF Spec, EarlyRefreshIsEarned
=============================================================================
