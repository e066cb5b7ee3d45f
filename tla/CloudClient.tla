------------------------------ MODULE CloudClient ------------------------------
(***************************************************************************)
(* The client of one account (api/auth.py, api/client.py) and the setup     *)
(* that creates it (__init__.py): tasks send requests concurrently, one     *)
(* token manager rotates the token pair under a lock, a 401 is answered     *)
(* with one refresh and one retry, and throttling is kept per domain.       *)
(*                                                                         *)
(* Pairs of tokens are numbered in the order the cloud issues them.  The    *)
(* refresh token of a pair can be spent once; only the newest pair's is     *)
(* good.  Access tokens expire in the order of issue, for the client (too   *)
(* close to exp to be used) and for the cloud (answered with a 401).        *)
(* An action is what one task does between two awaits.                      *)
(***************************************************************************)
EXTENDS Naturals

CONSTANTS
  Callers,      \* the tasks that send requests, one at a time each
  LiveCallers,  \* those that ask for live tickets
  Cancellable,  \* those that may be cancelled in the middle of a request
  Lister,       \* the task that lists the devices at setup, and later polls
  Coordinators, \* those whose authentication failure opens a reauth flow
  Losses,       \* answers get lost, the cloud forgets, reloads and crashes cut in
  MaxPairs      \* nothing gets worse once this many pairs were issued

ASSUME CallersAssumption ==
  /\ LiveCallers \subseteq Callers /\ Cancellable \subseteq Callers
  /\ Coordinators \subseteq Callers \ LiveCallers
  /\ Lister \in Coordinators
ASSUME CloudBounds == MaxPairs \in Nat /\ Losses \in BOOLEAN

VARIABLES
  at,       \* at[c]: where the request of c stands
  again,    \* again[c]: it has had its 401
  carries,  \* carries[c]: the pair its POST or its bearer header is made from
  held,     \* the pair of AuthManager
  entry,    \* the pair in the config entry's data
  disk,     \* the pair a crash would leave
  latest,   \* the newest pair the cloud has issued
  stale,    \* pairs up to this one are too old for the client
  dead,     \* pairs up to this one get a 401
  stray,    \* a refresh the client gave up may yet reach the cloud
  lost,     \* the newest pair never reached the client, or did not survive
  backoff,  \* _backoff_until lies ahead
  floor,    \* _last_live_ticket_at: the interval is over, a ticket, its retry
  mode,     \* where the setup of the entry stands
  healed,   \* this setup has logged in again
  halted    \* the coordinators that stopped for a reauth flow

requests == <<at, again, carries>>
pairs == <<held, entry, disk>>
cloud == <<latest, stale, dead, stray>>
gates == <<backoff, floor>>
setup == <<mode, healed, halted>>
vars == <<requests, pairs, cloud, lost, gates, setup>>

Waiting == {"queued", "forced"}
Places == {"idle", "posting", "sent", "login"} \cup Waiting
Modes == {"listing", "retry", "up", "failed"}

-----------------------------------------------------------------------------
(* Requests and the lock around the refresh.                               *)

\* Mutant of LockTaken: there is no lock.
NoLock == FALSE

\* The lock is held, or its waiters come first.
LockTaken == \E c \in Callers : at[c] \in Waiting \cup {"posting"}

Put(c, place, pair) ==
  /\ at' = [at EXCEPT ![c] = place]
  /\ carries' = [carries EXCEPT ![c] = pair]

\* async_get_access_token, and the request that carries what it returns.
Send(c) ==
  IF held > stale THEN Put(c, "sent", held)
  ELSE IF LockTaken THEN Put(c, "queued", 0)
  ELSE Put(c, "posting", held)

\* async_refresh, after a 401.
Refresh(c) == IF LockTaken THEN Put(c, "forced", 0) ELSE Put(c, "posting", held)

\* _store_tokens with the callback that updates the config entry.
StoreTokens(pair) == held' = pair /\ entry' = pair

\* Mutant of ListingFailsAuth: an authentication failure is retried like any other.
RetriesAuth(c) == Put(c, "idle", 0) /\ mode' = "retry"

\* _async_list_devices: a first authentication failure is answered with one login.
ListingFailsAuth(c) ==
  \/ ~healed /\ Put(c, "login", 0) /\ UNCHANGED mode
  \/ healed /\ Put(c, "idle", 0) /\ mode' = "failed"

\* ConfigEntryAuthFailed: Home Assistant opens a reauth flow and stops the polls of
\* this coordinator; a command or a live session only fails.
AsksUser(c, outcome) == mode = "up" /\ outcome = "auth" /\ c \in Coordinators

\* The request of c ends, and whoever awaited it reacts.
Ended(c, outcome) ==
  /\ again' = [again EXCEPT ![c] = FALSE]
  /\ \/ mode = "listing" /\ outcome = "auth" /\ ListingFailsAuth(c)
     \/ /\ mode # "listing" \/ outcome # "auth"
        /\ Put(c, "idle", 0)
        /\ mode' = IF mode # "listing" THEN mode
                   ELSE IF outcome = "ok" THEN "up" ELSE "retry"
  /\ halted' = IF AsksUser(c, outcome) THEN halted \cup {c} ELSE halted
  /\ UNCHANGED healed

MayAsk(c) ==
  /\ at[c] = "idle"
  /\ \/ mode = "listing" /\ c = Lister
     \/ mode = "up" /\ c \notin halted

\* A request of the REST domain that passes _enforce_backoff.
Ask(c) ==
  /\ MayAsk(c) /\ c \notin LiveCallers
  /\ ~backoff
  /\ Send(c)
  /\ UNCHANGED <<again, pairs, cloud, lost, gates, setup>>

\* async_get_live_ticket, past its own floor, and its one retry.
AskTicket(c) ==
  /\ MayAsk(c) /\ c \in LiveCallers
  /\ \/ floor = "over" /\ floor' = "ticket"
     \/ floor = "ticket" /\ floor' = "retried"
  /\ Send(c)
  /\ UNCHANGED <<again, pairs, cloud, lost, backoff, setup>>

\* Mutant of LockGranted: a waiter refreshes without looking at the token again.
GrantedBlindly(c) ==
  /\ at[c] \in Waiting
  /\ \A d \in Callers : at[d] # "posting"
  /\ Put(c, "posting", held)
  /\ UNCHANGED <<again, pairs, cloud, lost, gates, setup>>

\* A waiter gets the lock; async_get_access_token looks again under it.
LockGranted(c) ==
  /\ at[c] \in Waiting
  /\ \A d \in Callers : at[d] # "posting"
  /\ IF at[c] = "queued" /\ held > stale THEN Put(c, "sent", held)
                                         ELSE Put(c, "posting", held)
  /\ UNCHANGED <<again, pairs, cloud, lost, gates, setup>>

-----------------------------------------------------------------------------
(* The refresh POST.                                                       *)

NewPair ==
  /\ latest' = latest + 1
  /\ stray' = FALSE
  /\ UNCHANGED <<stale, dead>>

\* The answers to the posted pairs are not read: the cloud has rotated the pair, it
\* may still do so, or neither.
Unread(posted, acted, forgotten) ==
  LET rotated == acted /\ latest \in posted
  IN /\ latest' = IF rotated THEN latest + 1 ELSE latest
     /\ stray' = (~rotated /\ (stray \/ latest \in posted))
     /\ lost' = (lost \/ rotated \/ forgotten)
     /\ UNCHANGED <<stale, dead>>

RefreshAccepted(c) ==
  /\ at[c] = "posting" /\ carries[c] = latest
  /\ NewPair
  /\ StoreTokens(latest + 1)
  /\ Put(c, "sent", latest + 1)
  /\ UNCHANGED <<again, disk, lost, gates, setup>>

RefreshRefused(c) ==
  /\ at[c] = "posting" /\ carries[c] # latest
  /\ Ended(c, "auth")
  /\ UNCHANGED <<pairs, cloud, lost, gates>>

\* Mutant of RefreshFails: the POST has no timeout.
RefreshHangs(c, acted) == FALSE

\* No usable answer within the timeout, or an error that is no refusal.
RefreshFails(c, acted) ==
  /\ at[c] = "posting"
  /\ acted => Losses
  /\ Ended(c, "down")
  /\ Unread({carries[c]}, acted, FALSE)
  /\ UNCHANGED <<pairs, gates>>

\* The cloud rotates the pair, the body of its answer is no pair of tokens.
RefreshGarbled(c) ==
  /\ Losses
  /\ at[c] = "posting" /\ carries[c] = latest
  /\ Ended(c, "auth")
  /\ Unread({carries[c]}, TRUE, FALSE)
  /\ UNCHANGED <<pairs, gates>>

-----------------------------------------------------------------------------
(* The request itself.                                                     *)

\* Mutant of Rejected: the first 401 is final.
RejectedAtOnce(c) ==
  /\ at[c] = "sent" /\ carries[c] <= dead
  /\ Ended(c, "auth")
  /\ UNCHANGED <<pairs, cloud, lost, gates>>

\* A 401: refresh and retry once, then give up.
Rejected(c) ==
  /\ at[c] = "sent" /\ carries[c] <= dead
  /\ \/ /\ ~again[c]
        /\ again' = [again EXCEPT ![c] = TRUE]
        /\ Refresh(c)
        /\ UNCHANGED setup
     \/ again[c] /\ Ended(c, "auth")
  /\ UNCHANGED <<pairs, cloud, lost, gates>>

Succeeds(c) ==
  /\ at[c] = "sent" /\ carries[c] > dead
  /\ Ended(c, "ok")
  /\ UNCHANGED <<pairs, cloud, lost, gates>>

\* A 5xx, a network error or the timeout.
Fails(c) ==
  /\ at[c] = "sent"
  /\ Ended(c, "down")
  /\ UNCHANGED <<pairs, cloud, lost, gates>>

ArmsBackoff(c) == c \notin LiveCallers

\* A 429, with _begin_backoff.
Throttled(c) ==
  /\ at[c] = "sent"
  /\ Ended(c, "limited")
  /\ backoff' = (backoff \/ ArmsBackoff(c))
  /\ UNCHANGED <<pairs, cloud, lost, floor>>

\* The task is cancelled wherever its request stands: a live session that is
\* switched off, for one.
Cancel(c, acted) ==
  /\ c \in Cancellable /\ mode = "up" /\ at[c] # "idle"
  /\ Put(c, "idle", 0)
  /\ again' = [again EXCEPT ![c] = FALSE]
  /\ Unread(IF at[c] = "posting" THEN {carries[c]} ELSE {}, acted, FALSE)
  /\ UNCHANGED <<pairs, gates, setup>>

-----------------------------------------------------------------------------
(* Setup, reload, crash and reauthentication.                              *)

\* The login of _async_list_devices; the list is asked for again at once.
LoginAccepted(c) ==
  /\ at[c] = "login"
  /\ NewPair
  /\ StoreTokens(latest + 1)
  /\ lost' = FALSE
  /\ Put(c, "sent", latest + 1)
  /\ healed' = TRUE
  /\ UNCHANGED <<again, disk, gates, mode, halted>>

LoginFails(c, refused) ==
  /\ at[c] = "login"
  /\ Put(c, "idle", 0)
  /\ mode' = IF refused THEN "failed" ELSE "retry"
  /\ UNCHANGED <<again, pairs, cloud, lost, gates, healed, halted>>

\* async_setup_entry: a new AuthManager, given the saved pair, and a new client.
Fresh(saved) ==
  /\ at' = [c \in Callers |-> "idle"]
  /\ again' = [c \in Callers |-> FALSE]
  /\ carries' = [c \in Callers |-> 0]
  /\ held' = saved
  /\ backoff' = FALSE /\ floor' = "over"
  /\ mode' = "listing" /\ healed' = FALSE /\ halted' = {}

\* ConfigEntryNotReady: Home Assistant tries again.
SetupRetries ==
  /\ mode = "retry"
  /\ Fresh(entry)
  /\ UNCHANGED <<entry, disk, cloud, lost>>

Posted == {carries[c] : c \in {d \in Callers : at[d] = "posting"}}

Worsens == latest < MaxPairs

\* Every task of the entry is cancelled or done before it is set up again.
Reload(acted) ==
  /\ mode = "up"
  /\ acted => Losses
  /\ Unread(Posted, acted, FALSE)
  /\ Fresh(entry)
  /\ UNCHANGED <<entry, disk>>

\* Home Assistant writes the entry to disk a moment after it changed.
Crash(acted) ==
  /\ Losses /\ Worsens
  /\ Unread(Posted, acted, disk # entry)
  /\ Fresh(disk)
  /\ entry' = disk
  /\ UNCHANGED disk

Flush ==
  /\ disk # entry
  /\ disk' = entry
  /\ UNCHANGED <<requests, held, entry, cloud, lost, gates, setup>>

\* The user signs in again; the flow stores the new pair and reloads the entry.
Reauthenticate ==
  /\ mode = "failed" \/ halted # {}
  /\ NewPair
  /\ lost' = FALSE
  /\ entry' = latest + 1
  /\ Fresh(latest + 1)
  /\ UNCHANGED disk

-----------------------------------------------------------------------------
(* Time, and the cloud on its own.                                         *)

Passes(change) ==
  /\ change
  /\ UNCHANGED <<requests, pairs, setup>>

AccessAges ==
  Passes(/\ Worsens /\ stale < latest
         /\ stale' \in stale + 1..latest
         /\ UNCHANGED <<latest, dead, stray, lost, gates>>)

AccessDies ==
  Passes(/\ Worsens /\ dead < latest
         /\ dead' \in dead + 1..latest
         /\ UNCHANGED <<latest, stale, stray, lost, gates>>)

\* The refresh token expires, or the account signs every client out.
PairLapses ==
  Passes(/\ Losses /\ Worsens
         /\ NewPair
         /\ lost' = TRUE
         /\ UNCHANGED gates)

StrayArrives ==
  Passes(/\ Losses /\ stray
         /\ NewPair
         /\ lost' = TRUE
         /\ UNCHANGED gates)

BackoffEnds == Passes(backoff /\ backoff' = FALSE /\ UNCHANGED <<cloud, lost, floor>>)

FloorEnds ==
  Passes(floor # "over" /\ floor' = "over" /\ UNCHANGED <<cloud, lost, backoff>>)

-----------------------------------------------------------------------------
Init ==
  /\ at = [c \in Callers |-> "idle"]
  /\ again = [c \in Callers |-> FALSE]
  /\ carries = [c \in Callers |-> 0]
  /\ held = 1 /\ entry = 1 /\ disk = 1
  /\ latest = 1 /\ stale = 0 /\ dead = 0 /\ stray = FALSE
  /\ lost = FALSE
  /\ backoff = FALSE /\ floor = "over"
  /\ mode = "listing" /\ healed = FALSE /\ halted = {}

RequestStep(c) ==
  \/ Ask(c) \/ AskTicket(c) \/ LockGranted(c)
  \/ RefreshAccepted(c) \/ RefreshRefused(c) \/ RefreshGarbled(c)
  \/ Rejected(c) \/ Succeeds(c) \/ Fails(c) \/ Throttled(c)
  \/ LoginAccepted(c) \/ \E refused \in BOOLEAN : LoginFails(c, refused)
  \/ \E acted \in BOOLEAN : RefreshFails(c, acted) \/ Cancel(c, acted)

SetupStep ==
  \/ SetupRetries \/ Flush \/ Reauthenticate
  \/ \E acted \in BOOLEAN : Reload(acted) \/ Crash(acted)

TimeStep ==
  \/ AccessAges \/ AccessDies \/ PairLapses \/ StrayArrives
  \/ BackoffEnds \/ FloorEnds

Next == (\E c \in Callers : RequestStep(c)) \/ SetupStep \/ TimeStep

Spec == Init /\ [][Next]_vars

-----------------------------------------------------------------------------
(* Properties.                                                             *)

\* Every variable stays in its type.
TypeOK ==
  /\ at \in [Callers -> Places]
  /\ again \in [Callers -> BOOLEAN]
  /\ carries \in [Callers -> Nat]
  /\ held \in Nat /\ entry \in Nat /\ disk \in Nat
  /\ latest \in Nat /\ stale \in Nat /\ dead \in Nat
  /\ stray \in BOOLEAN /\ lost \in BOOLEAN
  /\ backoff \in BOOLEAN /\ floor \in {"over", "ticket", "retried"}
  /\ mode \in Modes /\ healed \in BOOLEAN
  /\ halted \subseteq Coordinators

\* async_refresh: "each rotation uses the latest refresh token".  However requests,
\* 401s and expiries interleave, only a pair lost on its way makes a refresh fail.
RefreshesAreCurrent ==
  \A c \in Callers : at[c] = "posting" /\ ~lost => carries[c] = latest

\* What the entry would be set up from again is the pair the cloud will accept:
\* every rotation that reached the client is in the entry's data in the same step.
EntryIsCurrent == ~lost => entry = latest

\* async_get_access_token: concurrent callers that find the token stale post one
\* refresh; whoever waited for it uses its result.
OneRefreshPerExpiry ==
  \A c \in Callers : at[c] = "posting" /\ ~again[c] => carries[c] <= stale

\* A coordinator stops and asks the user to sign in only when the pair is gone, or
\* when the cloud rejects the token it issued after the request's first 401.
NoNeedlessReauth ==
  [][halted' \subseteq halted
     \/ lost'
     \/ \E c \in halted' \ halted :
          at[c] = "sent" /\ again[c] /\ carries[c] <= dead]_vars

\* A throttled /live never holds the polls back: the shared backoff opens only on an
\* answer to a request of the REST domain.
LiveThrottleStaysApart ==
  [][~backoff /\ backoff' =>
       \E c \in Callers \ LiveCallers : at[c] = "sent" /\ at'[c] = "idle"]_backoff

-----------------------------------------------------------------------------
(* What the documentation says of the program, and the code does not do.   *)

\* async_refresh (auth.py:175): "each rotation uses the latest refresh token"; nothing
\* is lost here but by a task that is cancelled.
RotationUsesLatest == \A c \in Callers : at[c] = "posting" => carries[c] = latest

-----------------------------------------------------------------------------
(* Liveness.                                                               *)

\* Timeouts end what the cloud does not answer, asyncio.Lock is first come first
\* served, windows pass, Home Assistant retries a setup, and a cloud that is asked
\* again and again answers a list, a refresh or a login in the end.
TimesOut(c) ==
  \/ Fails(c) \/ \E acted \in BOOLEAN : RefreshFails(c, acted) \/ LoginFails(c, FALSE)

ClientIsFair ==
  /\ \A c \in Callers : WF_vars(TimesOut(c)) /\ SF_vars(LockGranted(c))
  /\ WF_vars(Ask(Lister)) /\ WF_vars(SetupRetries) /\ WF_vars(BackoffEnds)
  /\ SF_vars(Succeeds(Lister) \/ Rejected(Lister))
  /\ SF_vars(RefreshAccepted(Lister) \/ RefreshRefused(Lister))
  /\ SF_vars(LoginAccepted(Lister))

FairSpec == Spec /\ ClientIsFair

\* Every request ends: one stalled refresh does not block the others for ever.
RequestsEnd == \A c \in Callers : at[c] # "idle" ~> at[c] = "idle"

\* A setup comes up, or is told that the credentials are wrong; a spent refresh token
\* found after a long downtime never keeps it in retries (_async_list_devices).
SetupSettles == mode \in {"listing", "retry"} ~> mode \in {"up", "failed"}

=============================================================================
