------------------------------ MODULE DeviceFeeds ------------------------------
(***************************************************************************)
(* The two polls of one device together (_async_wire_activity_triggers in  *)
(* __init__.py): a genuine poll whose alert badge rose or whose            *)
(* regeneration tile flipped asks for an early refresh of the activity     *)
(* feed.  The values the trigger remembers are those of the published      *)
(* view: a push carries them verbatim and is skipped, and every other      *)
(* update stores what the view says.                                       *)
(***************************************************************************)
EXTENDS FastView, ActivityFeed

VARIABLE raisedSince  \* history: an alert was raised since the last genuine poll

vars == <<fastVars, feedVars, raisedSince>>

ASSUME BadgeAssumption == 0..Cardinality(Alerts) \subseteq Unread

\* What the cloud may answer: the badge of the moment, or no enriched block.
Answers == {v \in Views: v.badge \in {Unknown, Cardinality(cloud.unread)}}

Init ==
  /\ FastInit
  /\ FeedInit
  /\ view \in Answers
  /\ raisedSince = FALSE

BadgeRose(v) == v.badge # Unknown /\ view.badge # Unknown /\ v.badge > view.badge

TileFlipped(v) == v.regen # Unknown /\ view.regen # Unknown /\ v.regen # view.regen

GenuinePoll ==
  \E v \in Answers:
    /\ PollSucceeds(v)
    /\ raisedSince' = FALSE
    /\ IF BadgeRose(v) \/ TileFlipped(v) THEN RequestFetch ELSE UNCHANGED due
    /\ UNCHANGED <<cloud, fetch, seen, news, feed, storyVars>>

FastOther == FastStep /\ UNCHANGED <<feedVars, raisedSince>>

FeedOther ==
  /\ FeedStep
  /\ raisedSince' = (raisedSince \/ cloud'.raised # cloud.raised)
  /\ UNCHANGED fastVars

Next == GenuinePoll \/ FastOther \/ FeedOther

Spec == Init /\ [][Next]_vars

-----------------------------------------------------------------------------
TypeOK == FastTypeOK /\ FeedTypeOK /\ raisedSince \in BOOLEAN

(* The gentle cadence of the feed is broken only for news: an early refresh *)
(* is asked for only when an alert was raised since the last genuine poll, *)
(* or the regeneration tile flipped, whatever was pushed, re-served or     *)
(* dismissed in between.                                                   *)
EarlyRefreshIsEarned ==
  [][due'.asked /\ ~due.asked => raisedSince \/ view'.regen # view.regen]_vars
=============================================================================
