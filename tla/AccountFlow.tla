----------------------------- MODULE AccountFlow -----------------------------
(***************************************************************************)
(* Signing in (config_flow.py, api/auth.py): an account lives on one of    *)
(* several hosts and may be migrated from one to another at any time.  A   *)
(* flow takes a password, probes the hosts in order, clears the challenge  *)
(* of an unverified account, and creates a config entry or, as a reauth    *)
(* flow, updates the one that asked for it.  The entry is set up from what *)
(* the flow stored (__init__.py), while a token refresh of an earlier      *)
(* setup may still write to it.                                            *)
(*                                                                         *)
(* An action is what a flow does between two awaits.  The tokens of an     *)
(* entry are told apart by the host that issued them; CloudClient has how  *)
(* they rotate.  Bounds: MaxPassword changes of the password, one refresh  *)
(* in flight for each entry.                                               *)
(***************************************************************************)
EXTENDS Naturals, Sequences

CONSTANTS
  ProbeHosts,   \* _PROBE_HOSTS, in order
  Flows,        \* the flows that may be open at once
  Identities,   \* the user ids the email may have on the hosts: [host -> id]
  MaxPassword,  \* the last password the account gets
  None

ASSUME ProbeAssumption ==
  /\ ProbeHosts \in Seq({ProbeHosts[i] : i \in DOMAIN ProbeHosts}) /\ ProbeHosts # <<>>
  /\ MaxPassword \in Nat

Hosts == {ProbeHosts[i] : i \in DOMAIN ProbeHosts}

\* None is no host and no verdict of a probe, and every host knows the email by
\* one user id.
ASSUME IdentityAssumption ==
  /\ \A known \in Identities : known \in [Hosts -> {known[h] : h \in Hosts}]
  /\ None \notin Hosts \cup {"user", "other", "invalid_auth", "auth", "down"}

VARIABLES
  ids,       \* ids[h]: the user id a login on h returns
  account,   \* account[h]: "none", "empty" or "devices"
  password,  \* the password of the account
  verified,  \* the account's email is confirmed
  flows,     \* the sign-in flows
  entries    \* the config entries

flowCloud == <<ids, account, password, verified>>
flowVars == <<flowCloud, flows, entries>>

(***************************************************************************)
(* The cloud                                                               *)
(***************************************************************************)
Accepts(host, typed) == account[host] # "none" /\ typed = password

\* The account moves on to a later host; the earlier one forgets it or keeps it
\* without devices.
Migrates(change) ==
  \E from, to \in DOMAIN ProbeHosts :
    /\ from < to /\ account[ProbeHosts[from]] = "devices"
    /\ \E left \in {"none", "empty"} :
         change = [account EXCEPT ![ProbeHosts[from]] = left, ![ProbeHosts[to]] = "devices"]
LosesDevices(change) ==
  \E h \in Hosts : account[h] = "devices" /\ change = [account EXCEPT ![h] = "empty"]

\* A probe that is under way asks a cloud that has changed meanwhile.
Probing(fl) == fl.step \in {"login", "list"}
Noticed == [f \in Flows |-> [flows[f] EXCEPT !.changed = @ \/ Probing(flows[f])]]

AccountMoves ==
  /\ \E change \in [Hosts -> {"none", "empty", "devices"}] :
       /\ Migrates(change) \/ LosesDevices(change)
       /\ account' = change
  /\ flows' = Noticed
  /\ UNCHANGED <<ids, password, verified, entries>>

PasswordChanges ==
  /\ password < MaxPassword
  /\ password' = password + 1
  /\ flows' = Noticed
  /\ UNCHANGED <<ids, account, verified, entries>>

(***************************************************************************)
(* Flows                                                                   *)
(***************************************************************************)
\* What a flow holds.  source: "user", or the id of the entry it signs in
\* again; origin: the form an error is shown on; auth, conn and empty: what
\* _async_probe_account has recorded; changed: the cloud moved under the probe.
\* Of the errors only the one that blames the password is told from the others.
Closed ==
  [source |-> None, step |-> "closed", typed |-> 0, origin |-> "form", error |-> None,
   at |-> 0, auth |-> FALSE, conn |-> None, empty |-> None, changed |-> FALSE]

Blank(fl) == [Closed EXCEPT !.source = fl.source, !.typed = fl.typed]

\* _async_show_form; the first form takes a password anew.
Shown(fl, step, error) ==
  [Blank(fl) EXCEPT !.step = step, !.error = error,
                    !.typed = IF step = "form" THEN 0 ELSE @]
Redrawn(fl, error) == Shown(fl, fl.origin, error)

Start(fl, origin) == [Blank(fl) EXCEPT !.step = "login", !.at = 1, !.origin = origin]

Becomes(f, fl) == flows' = [flows EXCEPT ![f] = fl]

\* async_step_user, async_step_reauth: the form.
OpenFlow(f) ==
  /\ flows[f].step = "closed"
  /\ \E source \in {"user"} \cup {e.id : e \in {x \in entries : x.mode = "asking"}} :
       /\ source # "user" => \A g \in Flows : flows[g].source # source
       /\ Becomes(f, Shown([Closed EXCEPT !.source = source], "form", None))
  /\ UNCHANGED <<flowCloud, entries>>

\* The password is typed: the right one or an older one.
Submit(f) ==
  /\ flows[f].step = "form"
  /\ \E p \in 1..password : Becomes(f, Start([flows[f] EXCEPT !.typed = p], "form"))
  /\ UNCHANGED <<flowCloud, entries>>

CloseFlow(f) ==
  /\ flows[f].step \in {"form", "verify"}
  /\ Becomes(f, Closed)
  /\ UNCHANGED <<flowCloud, entries>>

(***************************************************************************)
(* Finishing (_async_finish)                                               *)
(***************************************************************************)
\* _abort_if_unique_id_configured
Configured(id) == \E e \in entries : e.id = id

\* Mutant of SameAccount: whoever signs in takes the entry.
AnyAccount(fl, host) == TRUE

SameAccount(fl, host) == ids[host] = fl.source

NewEntry(fl, host) ==
  [id |-> ids[host], host |-> host, password |-> fl.typed, pair |-> host,
   mode |-> "setup", served |-> None, refresh |-> None]

FinishUser(f, fl, host, found) ==
  IF ~found
    THEN Becomes(f, Redrawn(fl, "other")) /\ UNCHANGED entries
  ELSE /\ Becomes(f, Closed)
       /\ entries' = IF Configured(ids[host]) THEN entries ELSE entries \cup {NewEntry(fl, host)}

\* async_update_reload_and_abort: the entry is set up again from what the flow
\* stores; a refresh of the setup before may still be on its way.
FinishReauth(f, fl, host) ==
  IF ~SameAccount(fl, host)
    THEN Becomes(f, Redrawn(fl, "other")) /\ UNCHANGED entries
  ELSE /\ Becomes(f, Closed)
       /\ entries' = {IF e.id # fl.source THEN e
                      ELSE [e EXCEPT !.password = fl.typed, !.host = host, !.pair = host,
                                     !.mode = "setup", !.served = None] : e \in entries}

\* found: the host listed devices when it was asked.
Finish(f, fl, host, found) ==
  IF fl.source = "user" THEN FinishUser(f, fl, host, found) ELSE FinishReauth(f, fl, host)

(***************************************************************************)
(* The probe (_async_probe_account)                                        *)
(***************************************************************************)
\* Mutant of Failure: a host that refuses outweighs one that was not reached.
RefusalFirst(fl) ==
  IF fl.auth \/ fl.conn = "auth" THEN "invalid_auth" ELSE "other"

\* The failure that is told, when no host had the account: an unreachable host
\* may be its home.  A list refused as unauthorised is such a failure too, and
\* is told as what it is.
Failure(fl) ==
  IF fl.conn = "down" THEN "other" ELSE "invalid_auth"

AskingNext(fl) == [fl EXCEPT !.at = @ + 1, !.step = "login"]

\* The next host, or the verdict.
Continue(f, fl) ==
  IF fl.at < Len(ProbeHosts) THEN Becomes(f, AskingNext(fl)) /\ UNCHANGED entries
  ELSE IF fl.empty # None THEN Finish(f, fl, fl.empty, FALSE)
  ELSE Becomes(f, Redrawn(fl, Failure(fl))) /\ UNCHANGED entries

Asked(f) == ProbeHosts[flows[f].at]

\* async_login on the host that is asked
LoginPasses(f) ==
  /\ flows[f].step = "login" /\ Accepts(Asked(f), flows[f].typed) /\ verified
  /\ Becomes(f, [flows[f] EXCEPT !.step = "list"])
  /\ UNCHANGED <<flowCloud, entries>>

LoginChallenged(f) ==
  /\ flows[f].step = "login" /\ Accepts(Asked(f), flows[f].typed) /\ ~verified
  /\ Becomes(f, [flows[f] EXCEPT !.step = "resending"])
  /\ UNCHANGED <<flowCloud, entries>>

LoginRefused(f) ==
  /\ flows[f].step = "login" /\ ~Accepts(Asked(f), flows[f].typed)
  /\ Continue(f, [flows[f] EXCEPT !.auth = TRUE])
  /\ UNCHANGED flowCloud

\* No answer, or an error that is no refusal, from the login or from the list.
HostFails(f) ==
  /\ Probing(flows[f])
  /\ Continue(f, [flows[f] EXCEPT !.conn = "down"])
  /\ UNCHANGED flowCloud

\* A 429 ends the probe: the next host is not asked.
HostThrottles(f) ==
  /\ Probing(flows[f])
  /\ Becomes(f, Redrawn(flows[f], "other"))
  /\ UNCHANGED <<flowCloud, entries>>

\* async_get_devices with the tokens of that login
ListFound(f) ==
  /\ flows[f].step = "list" /\ account[Asked(f)] = "devices"
  /\ Finish(f, flows[f], Asked(f), TRUE)
  /\ UNCHANGED flowCloud

ListEmpty(f) ==
  /\ flows[f].step = "list" /\ account[Asked(f)] = "empty"
  /\ Continue(f, [flows[f] EXCEPT !.empty = IF @ = None THEN Asked(f) ELSE @])
  /\ UNCHANGED flowCloud

ListRefused(f) ==
  /\ flows[f].step = "list" /\ ~Accepts(Asked(f), flows[f].typed)
  /\ Continue(f, [flows[f] EXCEPT !.conn = "auth"])
  /\ UNCHANGED flowCloud

(***************************************************************************)
(* The challenge (async_step_verify)                                       *)
(***************************************************************************)
\* _async_request_verification_code: whatever comes of it, the form is shown.
CodeRequested(f) ==
  /\ flows[f].step = "resending"
  /\ Becomes(f, Shown(flows[f], "verify", None))
  /\ UNCHANGED <<flowCloud, entries>>

EnterCode(f) ==
  /\ flows[f].step = "verify"
  /\ Becomes(f, [Blank(flows[f]) EXCEPT !.step = "validating"])
  /\ UNCHANGED <<flowCloud, entries>>

\* The account is verified for every flow, and this one probes again.
CodeAccepted(f) ==
  /\ flows[f].step = "validating"
  /\ verified' = TRUE
  /\ flows' = [Noticed EXCEPT ![f] = Start(flows[f], "verify")]
  /\ UNCHANGED <<ids, account, password, entries>>

CodeFails(f) ==
  /\ flows[f].step = "validating"
  /\ Becomes(f, Shown(flows[f], "verify", "other"))
  /\ UNCHANGED <<flowCloud, entries>>

(***************************************************************************)
(* Entries                                                                 *)
(***************************************************************************)
EntryBecomes(e, new) ==
  /\ entries' = (entries \ {e}) \cup {new}
  /\ UNCHANGED <<flowCloud, flows>>

LogsIn(e) == Accepts(e.host, e.password) /\ verified
TokensWork(e) == e.pair = e.host /\ account[e.host] # "none"

\* Mutant of Recovers: stored tokens that are refused are not replaced.
OnlyTokens(e) == TokensWork(e)

\* _async_list_devices: tokens that are refused are answered with one login.
Recovers(e) == LogsIn(e)

EntryLoads(e) ==
  /\ e.mode = "setup" /\ (TokensWork(e) \/ Recovers(e))
  /\ EntryBecomes(e, [e EXCEPT !.mode = "loaded", !.served = e.host, !.pair = e.host])

\* ConfigEntryAuthFailed at setup: a reauth flow is opened.
EntryRefused(e) ==
  /\ e.mode = "setup" /\ ~Recovers(e)
  /\ EntryBecomes(e, [e EXCEPT !.mode = "asking"])

\* ... or from a coordinator, while the rest of this setup runs on.
PollRefused(e) ==
  /\ e.mode = "loaded" /\ ~LogsIn(e)
  /\ EntryBecomes(e, [e EXCEPT !.mode = "asking"])

\* A task of this setup rotates the tokens; one that a service call started
\* outlives it.
RefreshStarts(e) ==
  /\ e.served # None /\ e.refresh = None
  /\ EntryBecomes(e, [e EXCEPT !.refresh = e.served])

\* _persist_tokens: into the data the entry has now.
RefreshEnds(e) ==
  /\ e.refresh # None
  /\ \E pair \in {e.pair} \cup {h \in {e.refresh} : account[h] # "none"} :
       EntryBecomes(e, [e EXCEPT !.refresh = None, !.pair = pair])

Restart ==
  /\ entries' = {[e EXCEPT !.mode = "setup", !.served = None, !.refresh = None] : e \in entries}
  /\ flows' = [f \in Flows |-> Closed]
  /\ UNCHANGED flowCloud

-----------------------------------------------------------------------------
FlowInit ==
  /\ ids \in Identities
  /\ \E home \in Hosts : account = [h \in Hosts |-> IF h = home THEN "devices" ELSE "none"]
  /\ password = 1 /\ verified \in BOOLEAN
  /\ flows = [f \in Flows |-> Closed]
  /\ entries = {}

FlowStep(f) ==
  \/ OpenFlow(f) \/ Submit(f) \/ CloseFlow(f)
  \/ LoginPasses(f) \/ LoginChallenged(f) \/ LoginRefused(f)
  \/ HostFails(f) \/ HostThrottles(f)
  \/ ListFound(f) \/ ListEmpty(f) \/ ListRefused(f)
  \/ CodeRequested(f) \/ EnterCode(f) \/ CodeAccepted(f) \/ CodeFails(f)

EntryStep(e) ==
  \/ EntryLoads(e) \/ EntryRefused(e) \/ PollRefused(e) \/ RefreshStarts(e) \/ RefreshEnds(e)

FlowNext ==
  \/ AccountMoves \/ PasswordChanges \/ Restart
  \/ \E f \in Flows : FlowStep(f)
  \/ \E e \in entries : EntryStep(e)

FlowSpec == FlowInit /\ [][FlowNext]_flowVars

-----------------------------------------------------------------------------
(* Properties.                                                             *)

Ids == UNION {{known[h] : h \in Hosts} : known \in Identities}

FlowRecords ==
  [source : Ids \cup {"user", None},
   step : {"closed", "form", "login", "list", "resending", "verify", "validating"},
   typed : Nat, origin : {"form", "verify"}, error : {None, "other", "invalid_auth"},
   at : Nat, auth : BOOLEAN, conn : {None, "auth", "down"}, empty : Hosts \cup {None},
   changed : BOOLEAN]

EntryRecords ==
  [id : Ids, host : Hosts, password : Nat, pair : Hosts, mode : {"setup", "loaded", "asking"},
   served : Hosts \cup {None}, refresh : Hosts \cup {None}]

\* Every variable stays in its type; a probe asks one of the hosts, and shows no
\* error of an earlier one.
FlowTypeOK ==
  /\ ids \in Identities
  /\ account \in [Hosts -> {"none", "empty", "devices"}]
  /\ password \in Nat /\ verified \in BOOLEAN
  /\ flows \in [Flows -> FlowRecords]
  /\ \A f \in Flows : Probing(flows[f]) =>
       flows[f].at \in DOMAIN ProbeHosts /\ flows[f].error = None
  /\ entries \subseteq EntryRecords

\* A user who types the right password is never told that it is wrong, whichever
\* host answers or not, unless the account changed while it was probed
\* (_async_probe_account: cannot_connect beats invalid_auth in the mixed case).
RightPasswordIsNeverCalledWrong ==
  [][\A f \in Flows :
       (/\ Probing(flows[f]) /\ flows'[f].error = "invalid_auth"
        /\ flows[f].typed = password)
       => flows[f].changed \/ \A h \in Hosts : account[h] = "none"]_flowVars

\* An entry belongs to one user id for good: the host it is set up from knows the
\* account by that id, however often the account moved and was signed in again
\* (_async_finish: wrong_account).
EntryStaysWithItsAccount == \A e \in entries : ids[e.host] = e.id

\* One account has one entry, however flows overlap (_abort_if_unique_id_configured).
OneEntryPerAccount == \A e, d \in entries : e.id = d.id => e = d

\* The user is asked to sign in again only when the stored credentials do not work
\* any more: not because a refresh of an earlier setup wrote its tokens over those
\* the last sign-in stored (_async_list_devices, _persist_tokens).
AskedOnlyForCause ==
  [][\A e \in entries, d \in entries' :
       (d.id = e.id /\ e.mode # "asking" /\ d.mode = "asking") => ~LogsIn(e)]_flowVars

-----------------------------------------------------------------------------
(* What the documentation says of the program, and the code does not do.   *)

\* README.md:115: a re-authentication silently re-probes, which is what heals an
\* account that gets migrated later.
ReauthHealsMigration ==
  [][\A e \in entries, d \in entries' :
       (d.id = e.id /\ e.mode = "asking" /\ d.mode = "setup" /\ e.password # d.password)
       => account[d.host] = "devices" \/ \A h \in Hosts : account[h] # "devices"]_flowVars

\* config_flow.py:72: an unverified-account challenge always originates at the
\* first host, where the fresh code is requested.
ChallengeComesFirst ==
  [][\A f \in Flows : flows[f].step = "login" /\ flows'[f].step = "resending"
       => flows[f].at = 1]_flowVars

=============================================================================
