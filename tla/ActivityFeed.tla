----------------------------- MODULE ActivityFeed -----------------------------
(***************************************************************************)
(* The activity coordinator of one device (AquaHomeActivityCoordinator in  *)
(* coordinator.py) and the alert entity that listens to it (event.py).  A  *)
(* refresh reads a page of alerts, then a page of regenerations; the alerts *)
(* outside the watermark of seen ids are fired on the bus and handed to    *)
(* the entity.  A page may be any part of what the cloud has raised, for   *)
(* the code expects glitched, shrunk and empty ones.                       *)
(*                                                                         *)
(* The base class's rules are those of FastView.  The half-hour timer is   *)
(* armed or not; when it is, it may fire.                                  *)
(***************************************************************************)
EXTENDS Integers, FiniteSets

CONSTANTS
  Alerts,     \* alert ids the cloud may raise
  None

ASSUME NoneAssumption == \A S \in SUBSET Alerts: S # None

VARIABLES
  cloud,      \* external: the alerts raised, and those the badge counts
  fetch,      \* the refresh under way, and the alerts page it holds
  due,        \* the timer is armed; a requested refresh waits
  seen,       \* _seen_alert_ids
  news,       \* new_alerts of the published activity
  feed,       \* last_update_success, _serving_stale and the age of _last_good
  backlog,    \* history: the page that set the watermark up
  heard,      \* history: times each alert was fired on the bus, up to 2
  shown       \* history: times the entity fired it, up to 2

feedVars == <<cloud, fetch, due, seen, news, feed, backlog, heard, shown>>
storyVars == <<backlog, heard, shown>>

Ages == {"never", "recent", "past"}
Idle == [at |-> "idle", page |-> {}]

Counted(n, S) == [a \in Alerts |-> IF a \in S /\ n[a] < 2 THEN n[a] + 1 ELSE n[a]]
NotYet == [a \in Alerts |-> 0]

\* Setup refreshes once and goes on whatever came of it.
FeedInit ==
  /\ cloud \in {c \in [raised: SUBSET Alerts, unread: SUBSET Alerts]: c.unread \subseteq c.raised}
  /\ fetch = Idle
  /\ due = [timer |-> TRUE, asked |-> FALSE]
  /\ news = {}
  /\ \/ /\ seen \in SUBSET cloud.raised
        /\ feed = [ok |-> TRUE, stale |-> FALSE, good |-> "recent"]
     \/ /\ seen = None
        /\ feed = [ok |-> FALSE, stale |-> FALSE, good |-> "never"]
  /\ backlog = IF seen = None THEN {} ELSE seen
  /\ heard = NotYet
  /\ shown = NotYet

-----------------------------------------------------------------------------
(* The refresh.                                                            *)

\* Starting replaces both the timer and a waiting request.
StartFetch ==
  /\ fetch = Idle
  /\ due.timer \/ due.asked
  /\ fetch' = [Idle EXCEPT !.at = "alerts"]
  /\ due' = [timer |-> FALSE, asked |-> FALSE]
  /\ UNCHANGED <<cloud, seen, news, feed, storyVars>>

AlertsPage(page) ==
  /\ fetch.at = "alerts"
  /\ page \subseteq cloud.raised
  /\ fetch' = [at |-> "events", page |-> page]
  /\ UNCHANGED <<cloud, due, seen, news, feed, storyVars>>

\* _handle_coordinator_update of the event entity: it fires what it finds.
Notify(found) == shown' = Counted(shown, found)

\* Mutant of Watermark: replaced by the current page.
CurrentPage(page) == page

\* _diff_new_alerts: ids accumulate.
Watermark(page) == (IF seen = None THEN {} ELSE seen) \cup page

Unseen(page) == IF seen = None THEN {} ELSE page \ seen

EventsPage ==
  /\ fetch.at = "events"
  /\ fetch' = Idle
  /\ due' = [due EXCEPT !.timer = TRUE]
  /\ seen' = Watermark(fetch.page)
  /\ news' = Unseen(fetch.page)
  /\ feed' = [ok |-> TRUE, stale |-> FALSE, good |-> "recent"]
  /\ backlog' = IF seen = None THEN fetch.page ELSE backlog
  /\ heard' = Counted(heard, Unseen(fetch.page))
  /\ Notify(Unseen(fetch.page))
  /\ UNCHANGED cloud

\* Mutant of ReservedNews: the previous news are served again.
SameNews == news

ReservedNews == {}

ServeStaleFeed ==
  /\ fetch # Idle
  /\ feed.good = "recent"
  /\ fetch' = Idle
  /\ due' = [due EXCEPT !.timer = TRUE]
  /\ news' = ReservedNews
  /\ feed' = [feed EXCEPT !.ok = TRUE, !.stale = TRUE]
  /\ Notify(ReservedNews)
  /\ UNCHANGED <<cloud, seen, backlog, heard>>

\* The published activity stays, news included, and after a success the
\* listeners are notified of the failure.
FetchFails(how) ==
  /\ fetch # Idle
  /\ how = "transient" => feed.good # "recent"
  /\ fetch' = Idle
  /\ due' = [due EXCEPT !.timer = how # "auth"]
  /\ feed' = [feed EXCEPT !.ok = FALSE]
  /\ IF feed.ok THEN Notify(news) ELSE UNCHANGED shown
  /\ UNCHANGED <<cloud, seen, news, backlog, heard>>

FetchFailures == {"transient", "refused", "auth"}

\* async_request_refresh: dropped while a refresh is under way.
RequestFetch == due' = [due EXCEPT !.asked = @ \/ fetch = Idle]

-----------------------------------------------------------------------------
(* The cloud and the clock.                                                *)

GraceEnds ==
  /\ feed.good = "recent"
  /\ feed' = [feed EXCEPT !.good = "past"]
  /\ UNCHANGED <<cloud, fetch, due, seen, news, storyVars>>

Raise(a) ==
  /\ a \notin cloud.raised
  /\ cloud' = [raised |-> cloud.raised \cup {a}, unread |-> cloud.unread \cup {a}]
  /\ UNCHANGED <<fetch, due, seen, news, feed, storyVars>>

\* The owner reads the alerts in the vendor's app.
Dismiss ==
  /\ cloud.unread # {}
  /\ cloud' = [cloud EXCEPT !.unread = {}]
  /\ UNCHANGED <<fetch, due, seen, news, feed, storyVars>>

FeedStep ==
  \/ StartFetch \/ EventsPage \/ ServeStaleFeed \/ GraceEnds \/ Dismiss
  \/ \E page \in SUBSET cloud.raised: AlertsPage(page)
  \/ \E how \in FetchFailures: FetchFails(how)
  \/ \E a \in Alerts: Raise(a)

-----------------------------------------------------------------------------
FeedTypeOK ==
  /\ cloud \in [raised: SUBSET Alerts, unread: SUBSET Alerts]
  /\ fetch \in [at: {"idle", "alerts", "events"}, page: SUBSET Alerts]
  /\ due \in [timer: BOOLEAN, asked: BOOLEAN]
  /\ seen \in (SUBSET Alerts) \cup {None}
  /\ news \in SUBSET Alerts
  /\ feed \in [ok: BOOLEAN, stale: BOOLEAN, good: Ages]
  /\ backlog \in SUBSET Alerts
  /\ heard \in [Alerts -> 0..2]
  /\ shown \in [Alerts -> 0..2]

(* The bus hears of an alert once and only once: of everything any refresh *)
(* has seen and the first one did not, whatever pages shrank or failed in  *)
(* between; and the watermark never runs ahead of what was fired.          *)
AlertsAreHeardOnce ==
  \A a \in Alerts:
    heard[a] = IF seen # None /\ a \in seen \ backlog THEN 1 ELSE 0

(* The entity fires together with the bus, never for a re-served activity: *)
(* only a failure reported after a success can make it fire on its own.    *)
EntityFollowsTheBus ==
  [][shown' # shown => heard' # heard \/ (feed.ok /\ ~feed'.ok)]_feedVars

(* The alert entity "fires once for every new alert the cloud raises"      *)
(* (docs/entities.md).  The code refires the last news when the refresh    *)
(* after it fails outright.                                                *)
EntityFiresOnce == \A a \in Alerts: shown[a] <= 1
=============================================================================
