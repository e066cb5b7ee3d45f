----------------------------- MODULE SignInProofs -----------------------------
(***************************************************************************)
(* Signing in and staying signed in: theorems about AccountFlow, for any   *)
(* hosts in any order, any number of flows, whichever user ids the hosts   *)
(* know the email by, and about CloudClient, for any number of callers and *)
(* token pairs.                                                            *)
(***************************************************************************)
EXTENDS AccountFlow, CloudClient, TLAPS

(***************************************************************************)
(* Signing in (AccountFlow)                                                *)
(***************************************************************************)

-----------------------------------------------------------------------------
(* What the helpers return.                                                *)

LEMMA HostsAreAsked ==
  /\ DOMAIN ProbeHosts = 1..Len(ProbeHosts) /\ Len(ProbeHosts) \in Nat \ {0}
  /\ \A i \in 1..Len(ProbeHosts) : ProbeHosts[i] \in Hosts
  <1>1. ProbeHosts \in Seq({ProbeHosts[i] : i \in DOMAIN ProbeHosts}) /\ ProbeHosts # <<>>
    BY ProbeAssumption
  <1>2. DOMAIN ProbeHosts = 1..Len(ProbeHosts) /\ Len(ProbeHosts) \in Nat \ {0}
    BY <1>1
  <1>3. QED
    BY <1>2 DEF Hosts

LEMMA IdsAreIds ==
  ASSUME ids \in Identities, NEW h \in Hosts
  PROVE  ids[h] \in Ids
  BY DEF Ids

LEMMA ClosedTyped == Closed \in FlowRecords
  BY DEF Closed, FlowRecords

LEMMA BlankTyped ==
  ASSUME NEW fl \in FlowRecords
  PROVE  Blank(fl) \in FlowRecords /\ Blank(fl).error = None
  BY DEF Blank, Closed, FlowRecords

LEMMA ShownTyped ==
  ASSUME NEW fl \in FlowRecords, NEW step \in {"form", "verify"},
         NEW error \in {None, "other", "invalid_auth"}
  PROVE  Shown(fl, step, error) \in FlowRecords /\ ~Probing(Shown(fl, step, error))
  <1> DEFINE typed == IF step = "form" THEN 0 ELSE Blank(fl).typed
  <1>1. Blank(fl) \in FlowRecords
    BY BlankTyped
  <1>2. typed \in Nat
    BY <1>1 DEF FlowRecords
  <1>3. Shown(fl, step, error) = [Blank(fl) EXCEPT !.step = step, !.error = error, !.typed = typed]
    BY DEF Shown
  <1> HIDE DEF typed
  <1>4. QED
    BY <1>1, <1>2, <1>3 DEF FlowRecords, Probing

LEMMA RedrawnTyped ==
  ASSUME NEW fl \in FlowRecords, NEW error \in {None, "other", "invalid_auth"}
  PROVE  /\ Redrawn(fl, error) \in FlowRecords
         /\ ~Probing(Redrawn(fl, error))
         /\ Redrawn(fl, error).error = error
  <1>1. fl.origin \in {"form", "verify"}
    BY DEF FlowRecords
  <1>2. Redrawn(fl, error).error = error
    BY DEF Redrawn, Shown, Blank, Closed
  <1>3. QED
    BY <1>1, <1>2, ShownTyped DEF Redrawn

LEMMA StartTyped ==
  ASSUME NEW fl \in FlowRecords, NEW origin \in {"form", "verify"}
  PROVE  /\ Start(fl, origin) \in FlowRecords
         /\ Start(fl, origin).step = "login" /\ Start(fl, origin).at = 1
         /\ Start(fl, origin).error = None
         /\ Start(fl, origin).typed = fl.typed
  BY DEF Start, Blank, Closed, FlowRecords

LEMMA AskingNextTyped ==
  ASSUME NEW fl \in FlowRecords
  PROVE  /\ AskingNext(fl) \in FlowRecords
         /\ AskingNext(fl).at = fl.at + 1 /\ AskingNext(fl).step = "login"
         /\ AskingNext(fl).error = fl.error /\ AskingNext(fl).changed = fl.changed
         /\ AskingNext(fl).conn = fl.conn /\ AskingNext(fl).empty = fl.empty
         /\ AskingNext(fl).typed = fl.typed
  <1> DEFINE next == fl.at + 1
  <1>1. next \in Nat /\ AskingNext(fl) = [fl EXCEPT !.at = next, !.step = "login"]
    BY DEF AskingNext, FlowRecords
  <1> HIDE DEF next
  <1>2. AskingNext(fl) \in FlowRecords
    BY <1>1 DEF FlowRecords
  <1>3. QED
    BY <1>1, <1>2 DEF FlowRecords, next

-----------------------------------------------------------------------------
(* The probe.  The last host's answer decides what is shown, so a verdict  *)
(* on the password needs what the record of the probe says of every host   *)
(* asked before it.                                                        *)

\* The account is not on this host, or the record shows why that is not known.
Explained(fl, host) ==
  account[host] = "none" \/ fl.conn = "down" \/ fl.empty # None

\* The cloud is the one the probe set out to ask, with its password.
Undisturbed(fl) == ~fl.changed /\ fl.typed = password

Informed(fl) ==
  Undisturbed(fl) =>
    /\ \A i \in 1..(fl.at - 1) : Explained(fl, ProbeHosts[i])
    /\ fl.step = "list" => account[ProbeHosts[fl.at]] # "none"

Proper(fl) ==
  /\ fl \in FlowRecords
  /\ Probing(fl) => /\ fl.at \in 1..Len(ProbeHosts) /\ fl.error = None
                    /\ Informed(fl)

ProbesAreInformed == \A f \in Flows : Probing(flows[f]) => Informed(flows[f])

\* A password is called wrong only if it is, or no host knows the account.
JustlyShown(was, is) ==
  (is.error = "invalid_auth" /\ was.typed = password) =>
    was.changed \/ \A h \in Hosts : account[h] = "none"

LEMMA FlowIsProper ==
  ASSUME FlowTypeOK, ProbesAreInformed, NEW f \in Flows
  PROVE  Proper(flows[f])
  BY HostsAreAsked DEF FlowTypeOK, ProbesAreInformed, Proper

LEMMA RestingIsProper ==
  ASSUME NEW fl \in FlowRecords, ~Probing(fl)
  PROVE  Proper(fl)
  BY DEF Proper

LEMMA StartIsProper ==
  ASSUME NEW fl \in FlowRecords, NEW origin \in {"form", "verify"}
  PROVE  Proper(Start(fl, origin)) /\ Start(fl, origin).error = None
  <1> DEFINE new == Start(fl, origin)
  <1>1. new \in FlowRecords /\ new.step = "login" /\ new.at = 1 /\ new.error = None
    BY StartTyped
  <1> HIDE DEF new
  <1>2. 1 \in 1..Len(ProbeHosts)
    BY HostsAreAsked
  <1>3. Informed(new)
    BY <1>1 DEF Informed
  <1>4. QED
    BY <1>1, <1>2, <1>3 DEF Proper, new

\* How a flow ends, once a host listed the account or all were asked.
LEMMA FinishTurns ==
  ASSUME NEW f \in Flows, NEW fl \in FlowRecords, NEW host, NEW found,
         Finish(f, fl, host, found)
  PROVE  \E new : Becomes(f, new) /\ Proper(new) /\ new.error # "invalid_auth"
  <1>1. None # "invalid_auth"
    BY IdentityAssumption
  <1>2. Proper(Closed) /\ Closed.error # "invalid_auth"
    BY <1>1, ClosedTyped, RestingIsProper DEF Closed, Probing
  <1>3. Proper(Redrawn(fl, "other")) /\ Redrawn(fl, "other").error # "invalid_auth"
    BY RedrawnTyped, RestingIsProper
  <1>4. Becomes(f, Closed) \/ Becomes(f, Redrawn(fl, "other"))
    BY DEF Finish, FinishUser, FinishReauth
  <1>5. QED
    BY <1>2, <1>3, <1>4

\* The next host is asked, or the verdict is told.
LEMMA ContinueTurns ==
  ASSUME NEW f \in Flows, NEW fl \in FlowRecords, Continue(f, fl),
         fl.at \in 1..Len(ProbeHosts), fl.error = None,
         Undisturbed(fl) => \A i \in 1..fl.at : Explained(fl, ProbeHosts[i])
  PROVE  \E new : Becomes(f, new) /\ Proper(new) /\ JustlyShown(fl, new)
  <1>1. CASE fl.at < Len(ProbeHosts)
    <2> DEFINE new == AskingNext(fl)
    <2>1. Becomes(f, new)
      BY <1>1 DEF Continue
    <2>2. /\ new \in FlowRecords
          /\ new.at = fl.at + 1 /\ new.step = "login" /\ new.error = None
          /\ new.conn = fl.conn /\ new.empty = fl.empty
          /\ new.changed = fl.changed /\ new.typed = fl.typed
      BY AskingNextTyped
    <2> HIDE DEF new
    <2>3. new.at \in 1..Len(ProbeHosts) /\ new.at - 1 = fl.at
      BY <1>1, <2>2, HostsAreAsked
    <2>4. Informed(new)
      BY <2>2, <2>3 DEF Informed, Undisturbed, Explained
    <2>5. Proper(new)
      BY <2>2, <2>3, <2>4 DEF Proper
    <2>6. JustlyShown(fl, new)
      BY <2>2, IdentityAssumption DEF JustlyShown
    <2>7. QED
      BY <2>1, <2>5, <2>6
  <1>2. CASE fl.at >= Len(ProbeHosts) /\ fl.empty # None
    <2>1. ~(fl.at < Len(ProbeHosts))
      BY <1>2, HostsAreAsked
    <2>2. Finish(f, fl, fl.empty, FALSE)
      BY <1>2, <2>1, Zenon DEF Continue
    <2>3. QED
      BY <2>2, FinishTurns DEF JustlyShown
  <1>3. CASE fl.at >= Len(ProbeHosts) /\ fl.empty = None
    <2> DEFINE new == Redrawn(fl, Failure(fl))
    <2>1. Becomes(f, new)
      BY <1>3, HostsAreAsked DEF Continue
    <2>2. Failure(fl) \in {None, "other", "invalid_auth"}
      BY DEF Failure
    <2>3. Proper(new) /\ new.error = Failure(fl)
      BY <2>2, RedrawnTyped, RestingIsProper
    <2>4. JustlyShown(fl, new)
      <3>1. SUFFICES ASSUME Failure(fl) = "invalid_auth", fl.typed = password, ~fl.changed,
                            NEW h \in Hosts
                     PROVE  account[h] = "none"
        BY <2>3 DEF JustlyShown
      <3>2. PICK i \in 1..Len(ProbeHosts) : h = ProbeHosts[i]
        BY HostsAreAsked DEF Hosts
      <3>3. fl.conn # "down"
        BY <3>1 DEF Failure
      <3>4. fl.at = Len(ProbeHosts)
        BY <1>3, HostsAreAsked
      <3>5. QED
        BY <1>3, <3>1, <3>2, <3>3, <3>4 DEF Undisturbed, Explained
    <2>5. QED
      BY <2>1, <2>3, <2>4
  <1>4. QED
    BY <1>1, <1>2, <1>3, HostsAreAsked

\* What a probe is told keeps its record true.
LEMMA ProbeTurns ==
  ASSUME FlowTypeOK, ProbesAreInformed, NEW f \in Flows, Probing(flows[f]),
         \/ LoginPasses(f) \/ LoginChallenged(f) \/ LoginRefused(f)
         \/ HostFails(f) \/ HostThrottles(f)
         \/ ListFound(f) \/ ListEmpty(f) \/ ListRefused(f)
  PROVE  \E new : Becomes(f, new) /\ Proper(new) /\ JustlyShown(flows[f], new)
  <1> DEFINE fl == flows[f]
  <1>1. /\ fl \in FlowRecords /\ fl.at \in 1..Len(ProbeHosts) /\ fl.error = None
        /\ Informed(fl)
    BY FlowIsProper DEF Proper
  <1>2. Asked(f) = ProbeHosts[fl.at] /\ Asked(f) \in Hosts
    BY <1>1, HostsAreAsked DEF Asked
  <1>3. None # "invalid_auth" /\ None \notin Hosts
    BY IdentityAssumption
  \* An answer that is recorded: it explains the host that gave it, and what
  \* explained the hosts before it is kept.
  <1>4. ASSUME NEW told \in FlowRecords, Continue(f, told),
               told.at = fl.at, told.error = None, told.typed = fl.typed,
               told.changed = fl.changed,
               Undisturbed(fl) =>
                 /\ Explained(told, Asked(f))
                 /\ fl.conn = "down" => told.conn = "down"
                 /\ fl.empty # None => told.empty # None
        PROVE  \E new : Becomes(f, new) /\ Proper(new) /\ JustlyShown(fl, new)
    <2>1. Undisturbed(told) => \A i \in 1..told.at : Explained(told, ProbeHosts[i])
      <3>1. SUFFICES ASSUME Undisturbed(told), NEW i \in 1..fl.at
                     PROVE  Explained(told, ProbeHosts[i])
        BY <1>4
      <3>2. Undisturbed(fl)
        BY <1>4, <3>1 DEF Undisturbed
      <3>3. CASE i = fl.at
        BY <1>2, <1>4, <3>2, <3>3
      <3>4. CASE i # fl.at
        <4>1. i \in 1..(fl.at - 1)
          BY <1>1, <3>4
        <4>2. Explained(fl, ProbeHosts[i])
          BY <1>1, <3>2, <4>1 DEF Informed
        <4>3. QED
          BY <1>4, <3>2, <4>2 DEF Explained
      <3>5. QED
        BY <3>3, <3>4
    <2>2. PICK new : Becomes(f, new) /\ Proper(new) /\ JustlyShown(told, new)
      BY <1>1, <1>4, <2>1, ContinueTurns
    <2>3. JustlyShown(fl, new)
      BY <1>4, <2>2 DEF JustlyShown
    <2>4. QED
      BY <2>2, <2>3
  <1> HIDE DEF fl
  <1>5. CASE LoginPasses(f)
    <2> DEFINE new == [fl EXCEPT !.step = "list"]
    <2>1. Becomes(f, new) /\ Accepts(Asked(f), fl.typed)
      BY <1>5 DEF LoginPasses, fl
    <2>2. /\ new \in FlowRecords /\ new.step = "list" /\ new.at = fl.at /\ new.error = None
          /\ new.changed = fl.changed /\ new.typed = fl.typed
          /\ new.conn = fl.conn /\ new.empty = fl.empty
      BY <1>1 DEF FlowRecords
    <2> HIDE DEF new
    <2>3. Informed(new)
      BY <1>1, <1>2, <2>1, <2>2 DEF Informed, Undisturbed, Explained, Accepts
    <2>4. Proper(new) /\ JustlyShown(fl, new)
      BY <1>1, <1>3, <2>2, <2>3 DEF Proper, JustlyShown
    <2>5. QED
      BY <2>1, <2>4 DEF fl
  <1>6. CASE LoginChallenged(f)
    <2> DEFINE new == [fl EXCEPT !.step = "resending"]
    <2>1. Becomes(f, new)
      BY <1>6 DEF LoginChallenged, fl
    <2>2. new \in FlowRecords /\ ~Probing(new) /\ new.error = None
      BY <1>1 DEF FlowRecords, Probing
    <2> HIDE DEF new
    <2>3. Proper(new) /\ JustlyShown(fl, new)
      BY <1>3, <2>2, RestingIsProper DEF JustlyShown
    <2>4. QED
      BY <2>1, <2>3 DEF fl
  <1>7. CASE LoginRefused(f)
    <2> DEFINE told == [fl EXCEPT !.auth = TRUE]
    <2>1. Continue(f, told) /\ ~Accepts(Asked(f), fl.typed)
      BY <1>7 DEF LoginRefused, fl
    <2>2. /\ told \in FlowRecords /\ told.at = fl.at /\ told.error = None
          /\ told.typed = fl.typed /\ told.changed = fl.changed
          /\ told.conn = fl.conn /\ told.empty = fl.empty
      BY <1>1 DEF FlowRecords
    <2> HIDE DEF told
    <2>3. Undisturbed(fl) => Explained(told, Asked(f))
      BY <2>1 DEF Undisturbed, Explained, Accepts
    <2>4. QED
      BY <1>4, <2>1, <2>2, <2>3 DEF fl
  <1>8. CASE HostFails(f)
    <2> DEFINE told == [fl EXCEPT !.conn = "down"]
    <2>1. Continue(f, told)
      BY <1>8 DEF HostFails, fl
    <2>2. /\ told \in FlowRecords /\ told.at = fl.at /\ told.error = None
          /\ told.typed = fl.typed /\ told.changed = fl.changed
          /\ told.conn = "down" /\ told.empty = fl.empty
      BY <1>1 DEF FlowRecords
    <2> HIDE DEF told
    <2>3. Explained(told, Asked(f))
      BY <2>2 DEF Explained
    <2>4. QED
      BY <1>4, <2>1, <2>2, <2>3 DEF fl
  <1>9. CASE HostThrottles(f)
    <2>1. Becomes(f, Redrawn(fl, "other"))
      BY <1>9 DEF HostThrottles, fl
    <2>2. /\ Proper(Redrawn(fl, "other")) /\ JustlyShown(fl, Redrawn(fl, "other"))
      BY <1>1, RedrawnTyped, RestingIsProper DEF JustlyShown
    <2>3. QED
      BY <2>1, <2>2 DEF fl
  <1>10. CASE ListFound(f)
    <2>1. Finish(f, fl, Asked(f), TRUE)
      BY <1>10 DEF ListFound, fl
    <2>2. QED
      BY <1>1, <2>1, FinishTurns DEF JustlyShown, fl
  <1>11. CASE ListEmpty(f)
    <2> DEFINE host == IF fl.empty = None THEN Asked(f) ELSE fl.empty
               told == [fl EXCEPT !.empty = host]
    <2>1. Continue(f, told)
      BY <1>11 DEF ListEmpty, fl
    <2>2. host \in Hosts
      BY <1>1, <1>2 DEF FlowRecords
    <2> HIDE DEF host
    <2>3. /\ told \in FlowRecords /\ told.at = fl.at /\ told.error = None
          /\ told.typed = fl.typed /\ told.changed = fl.changed
          /\ told.conn = fl.conn /\ told.empty = host
      BY <1>1, <2>2 DEF FlowRecords
    <2> HIDE DEF told
    <2>4. Explained(told, Asked(f))
      BY <1>3, <2>2, <2>3 DEF Explained
    <2>5. QED
      BY <1>3, <1>4, <2>1, <2>2, <2>3, <2>4 DEF fl
  <1>12. CASE ListRefused(f)
    <2> DEFINE told == [fl EXCEPT !.conn = "auth"]
    <2>1. Continue(f, told) /\ fl.step = "list" /\ ~Accepts(Asked(f), fl.typed)
      BY <1>12 DEF ListRefused, fl
    <2>2. /\ told \in FlowRecords /\ told.at = fl.at /\ told.error = None
          /\ told.typed = fl.typed /\ told.changed = fl.changed
      BY <1>1 DEF FlowRecords
    <2> HIDE DEF told
    <2>3. ~Undisturbed(fl)
      BY <1>1, <1>2, <2>1 DEF Informed, Undisturbed, Accepts
    <2>4. QED
      BY <1>4, <2>1, <2>2, <2>3 DEF fl
  <1>13. QED
    BY <1>5, <1>6, <1>7, <1>8, <1>9, <1>10, <1>11, <1>12 DEF fl

\* A step of a flow that is not asking a host.
LEMMA FormTurns ==
  ASSUME FlowTypeOK, NEW f \in Flows,
         OpenFlow(f) \/ Submit(f) \/ CloseFlow(f) \/ CodeRequested(f) \/ EnterCode(f) \/ CodeFails(f)
  PROVE  /\ \E new : Becomes(f, new) /\ Proper(new)
         /\ ~Probing(flows[f])
  <1>1. flows[f] \in FlowRecords
    BY DEF FlowTypeOK
  <1>2. CASE OpenFlow(f)
    <2>1. PICK source \in {"user"} \cup {e.id : e \in {x \in entries : x.mode = "asking"}} :
            Becomes(f, Shown([Closed EXCEPT !.source = source], "form", None))
      BY <1>2 DEF OpenFlow
    <2>2. source \in Ids \cup {"user", None}
      BY <2>1 DEF FlowTypeOK, EntryRecords
    <2>3. [Closed EXCEPT !.source = source] \in FlowRecords
      BY <2>2, ClosedTyped DEF FlowRecords
    <2>4. QED
      BY <1>2, <2>1, <2>3, ShownTyped, RestingIsProper DEF OpenFlow, Probing
  <1>3. CASE Submit(f)
    <2>1. PICK p \in 1..password : Becomes(f, Start([flows[f] EXCEPT !.typed = p], "form"))
      BY <1>3 DEF Submit
    <2>2. [flows[f] EXCEPT !.typed = p] \in FlowRecords
      BY <1>1 DEF FlowTypeOK, FlowRecords
    <2>3. QED
      BY <1>3, <2>1, <2>2, StartIsProper DEF Submit, Probing
  <1>4. CASE CloseFlow(f)
    BY <1>4, ClosedTyped, RestingIsProper DEF CloseFlow, Closed, Probing
  <1>5. CASE CodeRequested(f)
    BY <1>1, <1>5, ShownTyped, RestingIsProper DEF CodeRequested, Probing
  <1>6. CASE CodeFails(f)
    BY <1>1, <1>6, ShownTyped, RestingIsProper DEF CodeFails, Probing
  <1>7. CASE EnterCode(f)
    <2> DEFINE new == [Blank(flows[f]) EXCEPT !.step = "validating"]
    <2>1. Becomes(f, new) /\ ~Probing(flows[f])
      BY <1>7 DEF EnterCode, Probing
    <2>2. new \in FlowRecords /\ ~Probing(new)
      BY <1>1, BlankTyped DEF FlowRecords, Probing
    <2>3. QED
      BY <2>1, <2>2, RestingIsProper
  <1>8. QED
    BY <1>2, <1>3, <1>4, <1>5, <1>6, <1>7

-----------------------------------------------------------------------------
(* The entries.  What a step may do to them, whoever takes it.             *)

\* What a re-authentication stores.
SignedIn(e, fl, host) ==
  [e EXCEPT !.password = fl.typed, !.host = host, !.pair = host,
            !.mode = "setup", !.served = None]

Restarted(e) == [e EXCEPT !.mode = "setup", !.served = None, !.refresh = None]

\* The same entry after a step of its own setup.
Follows(e, new) ==
  /\ new \in EntryRecords
  /\ new.id = e.id /\ new.host = e.host
  /\ (e.mode # "asking" /\ new.mode = "asking") => ~LogsIn(e)

\* Nothing; a new entry of an account that has none; a sign-in by the account the
\* entry belongs to; a step of an entry; a restart of them all.
EntriesAfter ==
  \/ entries' = entries
  \/ \E fl \in FlowRecords, host \in Hosts :
       /\ ~Configured(ids[host])
       /\ entries' = entries \cup {NewEntry(fl, host)}
  \/ \E fl \in FlowRecords, host \in Hosts :
       /\ ids[host] = fl.source
       /\ entries' = {IF e.id # fl.source THEN e ELSE SignedIn(e, fl, host) : e \in entries}
  \/ \E e \in entries, new \in EntryRecords : Follows(e, new) /\ entries' = (entries \ {e}) \cup {new}
  \/ entries' = {Restarted(e) : e \in entries}

LEMMA NewEntryTyped ==
  ASSUME ids \in Identities, NEW fl \in FlowRecords, NEW host \in Hosts
  PROVE  /\ NewEntry(fl, host) \in EntryRecords
         /\ NewEntry(fl, host).id = ids[host] /\ NewEntry(fl, host).host = host
         /\ NewEntry(fl, host).mode = "setup"
  BY IdsAreIds DEF NewEntry, FlowRecords, EntryRecords

LEMMA SignedInTyped ==
  ASSUME NEW e \in EntryRecords, NEW fl \in FlowRecords, NEW host \in Hosts
  PROVE  /\ SignedIn(e, fl, host) \in EntryRecords
         /\ SignedIn(e, fl, host).id = e.id /\ SignedIn(e, fl, host).host = host
         /\ SignedIn(e, fl, host).mode = "setup"
  BY DEF SignedIn, FlowRecords, EntryRecords

LEMMA RestartedTyped ==
  ASSUME NEW e \in EntryRecords
  PROVE  /\ Restarted(e) \in EntryRecords
         /\ Restarted(e).id = e.id /\ Restarted(e).host = e.host
         /\ Restarted(e).mode = "setup"
  BY DEF Restarted, EntryRecords

LEMMA FinishEntries ==
  ASSUME NEW f, NEW fl \in FlowRecords, NEW host \in Hosts, NEW found,
         Finish(f, fl, host, found)
  PROVE  EntriesAfter
  <1>1. CASE FinishUser(f, fl, host, found)
    <2>1. CASE entries' = entries
      BY <2>1 DEF EntriesAfter
    <2>2. CASE ~Configured(ids[host]) /\ entries' = entries \cup {NewEntry(fl, host)}
      BY <2>2 DEF EntriesAfter
    <2>3. QED
      BY <1>1, <2>1, <2>2 DEF FinishUser
  <1>2. CASE FinishReauth(f, fl, host)
    <2>1. CASE entries' = entries
      BY <2>1 DEF EntriesAfter
    <2>2. CASE SameAccount(fl, host) /\ entries' # entries
      <3>1. entries' = {IF e.id # fl.source THEN e ELSE SignedIn(e, fl, host) : e \in entries}
        BY <1>2, <2>2 DEF FinishReauth, SignedIn
      <3>2. QED
        BY <2>2, <3>1 DEF EntriesAfter, SameAccount
    <2>3. QED
      BY <1>2, <2>1, <2>2 DEF FinishReauth
  <1>3. QED
    BY <1>1, <1>2 DEF Finish

LEMMA ContinueEntries ==
  ASSUME NEW f, NEW fl \in FlowRecords, Continue(f, fl)
  PROVE  EntriesAfter
  <1>1. CASE fl.empty # None /\ Finish(f, fl, fl.empty, FALSE)
    BY <1>1, FinishEntries DEF FlowRecords
  <1>2. CASE entries' = entries
    BY <1>2 DEF EntriesAfter
  <1>3. QED
    BY <1>1, <1>2 DEF Continue

LEMMA ProbeEntries ==
  ASSUME FlowTypeOK, ProbesAreInformed, NEW f \in Flows, Probing(flows[f]),
         LoginRefused(f) \/ HostFails(f) \/ ListFound(f) \/ ListEmpty(f) \/ ListRefused(f)
  PROVE  EntriesAfter
  <1>1. flows[f] \in FlowRecords /\ Asked(f) \in Hosts
    BY FlowIsProper, HostsAreAsked DEF Proper, Asked
  <1>2. CASE LoginRefused(f)
    <2>1. [flows[f] EXCEPT !.auth = TRUE] \in FlowRecords
      BY <1>1 DEF FlowRecords
    <2>2. QED
      BY <1>2, <2>1, ContinueEntries DEF LoginRefused
  <1>3. CASE HostFails(f)
    <2>1. [flows[f] EXCEPT !.conn = "down"] \in FlowRecords
      BY <1>1 DEF FlowRecords
    <2>2. QED
      BY <1>3, <2>1, ContinueEntries DEF HostFails
  <1>4. CASE ListFound(f)
    BY <1>1, <1>4, FinishEntries DEF ListFound
  <1>5. CASE ListEmpty(f)
    <2> DEFINE host == IF flows[f].empty = None THEN Asked(f) ELSE flows[f].empty
    <2>1. host \in Hosts \cup {None}
      BY <1>1 DEF FlowRecords
    <2>2. Continue(f, [flows[f] EXCEPT !.empty = host])
      BY <1>5 DEF ListEmpty
    <2> HIDE DEF host
    <2>3. [flows[f] EXCEPT !.empty = host] \in FlowRecords
      BY <1>1, <2>1 DEF FlowRecords
    <2>4. QED
      BY <2>2, <2>3, ContinueEntries
  <1>6. CASE ListRefused(f)
    <2>1. [flows[f] EXCEPT !.conn = "auth"] \in FlowRecords
      BY <1>1 DEF FlowRecords
    <2>2. QED
      BY <1>6, <2>1, ContinueEntries DEF ListRefused
  <1>7. QED
    BY <1>2, <1>3, <1>4, <1>5, <1>6

LEMMA EntryStepEntries ==
  ASSUME FlowTypeOK, NEW e \in entries, EntryStep(e)
  PROVE  EntriesAfter
  <1>1. e \in EntryRecords
    BY DEF FlowTypeOK
  <1>2. SUFFICES \E new : Follows(e, new) /\ EntryBecomes(e, new)
    BY DEF EntryBecomes, EntriesAfter, Follows
  <1>3. CASE EntryLoads(e)
    <2> DEFINE new == [e EXCEPT !.mode = "loaded", !.served = e.host, !.pair = e.host]
    <2>1. Follows(e, new)
      BY <1>1 DEF Follows, EntryRecords
    <2>2. QED
      BY <1>3, <2>1 DEF EntryLoads
  <1>4. CASE EntryRefused(e) \/ PollRefused(e)
    <2> DEFINE new == [e EXCEPT !.mode = "asking"]
    <2>1. ~LogsIn(e) /\ EntryBecomes(e, new)
      BY <1>4 DEF EntryRefused, PollRefused, Recovers
    <2>2. Follows(e, new)
      BY <1>1, <2>1 DEF Follows, EntryRecords
    <2>3. QED
      BY <2>1, <2>2
  <1>5. CASE RefreshStarts(e)
    <2> DEFINE new == [e EXCEPT !.refresh = e.served]
    <2>1. Follows(e, new)
      BY <1>1 DEF Follows, EntryRecords
    <2>2. QED
      BY <1>5, <2>1 DEF RefreshStarts
  <1>6. CASE RefreshEnds(e)
    <2>1. PICK pair \in {e.pair} \cup {e.refresh} :
            e.refresh # None /\ EntryBecomes(e, [e EXCEPT !.refresh = None, !.pair = pair])
      BY <1>6 DEF RefreshEnds
    <2>2. pair \in Hosts
      BY <1>1, <2>1 DEF EntryRecords
    <2>3. Follows(e, [e EXCEPT !.refresh = None, !.pair = pair])
      BY <1>1, <2>2 DEF Follows, EntryRecords
    <2>4. QED
      BY <2>1, <2>3
  <1>7. QED
    BY <1>3, <1>4, <1>5, <1>6 DEF EntryStep

\* Under a step of the entries the account's entry stays the account's.
AskedForCause ==
  \A e \in entries, d \in entries' :
    (d.id = e.id /\ e.mode # "asking" /\ d.mode = "asking") => ~LogsIn(e)

LEMMA EntriesKeep ==
  ASSUME ids \in Identities, UNCHANGED ids, EntriesAfter, entries \subseteq EntryRecords,
         EntryStaysWithItsAccount, OneEntryPerAccount
  PROVE  /\ entries' \subseteq EntryRecords
         /\ EntryStaysWithItsAccount'
         /\ OneEntryPerAccount'
         /\ AskedForCause
  <1> USE DEF EntryStaysWithItsAccount, OneEntryPerAccount, AskedForCause
  <1>1. CASE entries' = entries
    BY <1>1
  <1>2. ASSUME NEW fl \in FlowRecords, NEW host \in Hosts, ~Configured(ids[host]),
               entries' = entries \cup {NewEntry(fl, host)}
        PROVE  /\ entries' \subseteq EntryRecords
               /\ EntryStaysWithItsAccount' /\ OneEntryPerAccount' /\ AskedForCause
    <2> DEFINE new == NewEntry(fl, host)
    <2>1. new \in EntryRecords /\ new.id = ids[host] /\ new.host = host /\ new.mode = "setup"
      BY NewEntryTyped
    <2>2. \A e \in entries : e.id # new.id
      BY <1>2, <2>1 DEF Configured
    <2> HIDE DEF new
    <2>3. entries' = entries \cup {new}
      BY <1>2 DEF new
    <2>4. QED
      BY <2>1, <2>2, <2>3
  <1>3. ASSUME NEW fl \in FlowRecords, NEW host \in Hosts, ids[host] = fl.source,
               entries' = {IF e.id # fl.source THEN e ELSE SignedIn(e, fl, host) : e \in entries}
        PROVE  /\ entries' \subseteq EntryRecords
               /\ EntryStaysWithItsAccount' /\ OneEntryPerAccount' /\ AskedForCause
    <2> DEFINE After(e) == IF e.id # fl.source THEN e ELSE SignedIn(e, fl, host)
    <2>1. ASSUME NEW e \in entries
          PROVE  /\ After(e) \in EntryRecords /\ After(e).id = e.id
                 /\ ids[After(e).host] = e.id
                 /\ After(e).mode = "asking" => e.mode = "asking"
      <3>1. e \in EntryRecords
        OBVIOUS
      <3>2. CASE e.id # fl.source
        BY <3>1, <3>2
      <3>3. CASE e.id = fl.source
        BY <1>3, <3>1, <3>3, SignedInTyped
      <3>4. QED
        BY <3>2, <3>3
    <2>2. entries' = {After(e) : e \in entries}
      BY <1>3
    <2> HIDE DEF After
    <2>3. QED
      BY <2>1, <2>2
  <1>4. ASSUME NEW e \in entries, NEW new, Follows(e, new),
               entries' = (entries \ {e}) \cup {new}
        PROVE  /\ entries' \subseteq EntryRecords
               /\ EntryStaysWithItsAccount' /\ OneEntryPerAccount' /\ AskedForCause
    <2>1. /\ new \in EntryRecords /\ new.id = e.id /\ new.host = e.host
          /\ (e.mode # "asking" /\ new.mode = "asking") => ~LogsIn(e)
      BY <1>4 DEF Follows
    <2>2. \A d \in entries : d.id = e.id => d = e
      OBVIOUS
    <2>3. QED
      BY <1>4, <2>1, <2>2
  <1>5. CASE entries' = {Restarted(e) : e \in entries}
    <2>1. \A e \in entries :
            /\ Restarted(e) \in EntryRecords
            /\ Restarted(e).id = e.id /\ Restarted(e).host = e.host
            /\ Restarted(e).mode = "setup"
      BY RestartedTyped
    <2>2. QED
      BY <1>5, <2>1
  <1>6. QED
    BY <1>1, <1>2, <1>3, <1>4, <1>5 DEF EntriesAfter

-----------------------------------------------------------------------------
(* One step of everything.                                                 *)

FlowsSound ==
  /\ FlowTypeOK /\ ProbesAreInformed
  /\ EntryStaysWithItsAccount /\ OneEntryPerAccount

\* What a step shows on the form of a flow that was probing.
JustlyShownAll ==
  \A f \in Flows : Probing(flows[f]) => JustlyShown(flows[f], flows'[f])

LEMMA NoticedTyped ==
  ASSUME FlowTypeOK, NEW f \in Flows
  PROVE  /\ Noticed[f] \in FlowRecords
         /\ Noticed[f].step = flows[f].step /\ Noticed[f].at = flows[f].at
         /\ Noticed[f].error = flows[f].error /\ Noticed[f].typed = flows[f].typed
         /\ Probing(flows[f]) => Noticed[f].changed
  <1> DEFINE changed == flows[f].changed \/ Probing(flows[f])
  <1>1. flows[f] \in FlowRecords /\ Noticed[f] = [flows[f] EXCEPT !.changed = changed]
    BY DEF FlowTypeOK, Noticed
  <1>2. changed \in BOOLEAN
    BY <1>1 DEF FlowRecords, Probing
  <1>3. Probing(flows[f]) => changed = TRUE
    BY DEF Probing
  <1> HIDE DEF changed
  <1>4. QED
    BY <1>1, <1>2, <1>3 DEF FlowRecords

\* The cloud changed under the probes: none of them claims anything any more.
LEMMA NoticedKeeps ==
  ASSUME FlowTypeOK, NEW f \in Flows
  PROVE  /\ Noticed[f] \in FlowRecords
         /\ Probing(Noticed[f]) =>
              /\ Noticed[f].at \in 1..Len(ProbeHosts) /\ Noticed[f].error = None
              /\ Noticed[f].changed
         /\ Probing(flows[f]) => Noticed[f].error # "invalid_auth"
  BY NoticedTyped, HostsAreAsked, IdentityAssumption DEF FlowTypeOK, Probing

\* A step of one flow that leaves the cloud alone.
LEMMA OneFlowTurns ==
  ASSUME FlowsSound, NEW f \in Flows, UNCHANGED flowCloud, EntriesAfter,
         NEW new, Becomes(f, new), Proper(new),
         Probing(flows[f]) => JustlyShown(flows[f], new)
  PROVE  FlowsSound' /\ AskedForCause /\ JustlyShownAll
  <1> USE DEF FlowsSound, flowCloud
  <1>1. /\ entries' \subseteq EntryRecords
        /\ EntryStaysWithItsAccount' /\ OneEntryPerAccount' /\ AskedForCause
    BY EntriesKeep DEF FlowTypeOK
  <1>2. \A g \in Flows : flows'[g] = IF g = f THEN new ELSE flows[g]
    BY DEF Becomes, FlowTypeOK
  <1>3. flows' \in [Flows -> FlowRecords]
    BY DEF Becomes, FlowTypeOK, Proper
  <1>4. \A g \in Flows : Proper(flows'[g])
    BY <1>2, FlowIsProper
  <1>5. FlowTypeOK'
    BY <1>1, <1>3, <1>4, HostsAreAsked DEF FlowTypeOK, Proper
  <1>6. ProbesAreInformed'
    BY <1>4 DEF ProbesAreInformed, Proper, Informed, Undisturbed, Explained
  <1>7. JustlyShownAll
    <2>1. SUFFICES ASSUME NEW g \in Flows, Probing(flows[g])
                   PROVE  JustlyShown(flows[g], flows'[g])
      BY DEF JustlyShownAll
    <2>2. CASE g = f
      BY <1>2, <2>1, <2>2
    <2>3. CASE g # f
      BY <1>2, <2>1, <2>3, IdentityAssumption DEF FlowTypeOK, JustlyShown
    <2>4. QED
      BY <2>2, <2>3
  <1>8. QED
    BY <1>1, <1>5, <1>6, <1>7

\* A step that leaves the entries alone.
LEMMA EntriesUntouched ==
  ASSUME FlowsSound, UNCHANGED <<ids, entries>>
  PROVE  entries' \subseteq EntryRecords /\ EntryStaysWithItsAccount' /\ OneEntryPerAccount' /\ AskedForCause
  BY EntriesKeep DEF FlowsSound, FlowTypeOK, EntriesAfter

LEMMA FlowStepKeeps ==
  ASSUME FlowsSound, NEW f \in Flows, FlowStep(f)
  PROVE  FlowsSound' /\ AskedForCause /\ JustlyShownAll
  <1>1. CASE OpenFlow(f) \/ Submit(f) \/ CloseFlow(f) \/ CodeRequested(f) \/ EnterCode(f) \/ CodeFails(f)
    <2>1. PICK new : Becomes(f, new) /\ Proper(new)
      BY <1>1, FormTurns DEF FlowsSound
    <2>2. ~Probing(flows[f])
      BY <1>1, FormTurns DEF FlowsSound
    <2>3. UNCHANGED flowCloud /\ EntriesAfter
      BY <1>1 DEF OpenFlow, Submit, CloseFlow, CodeRequested, EnterCode, CodeFails, EntriesAfter
    <2>4. QED
      BY <2>1, <2>2, <2>3, OneFlowTurns
  <1>2. CASE \/ LoginPasses(f) \/ LoginChallenged(f) \/ LoginRefused(f)
             \/ HostFails(f) \/ HostThrottles(f)
             \/ ListFound(f) \/ ListEmpty(f) \/ ListRefused(f)
    <2>1. Probing(flows[f])
      BY <1>2 DEF LoginPasses, LoginChallenged, LoginRefused, HostFails, HostThrottles,
                  ListFound, ListEmpty, ListRefused, Probing
    <2>2. PICK new : Becomes(f, new) /\ Proper(new) /\ JustlyShown(flows[f], new)
      BY <1>2, <2>1, ProbeTurns DEF FlowsSound
    <2>3. EntriesAfter
      <3>1. CASE LoginPasses(f) \/ LoginChallenged(f) \/ HostThrottles(f)
        BY <3>1 DEF LoginPasses, LoginChallenged, HostThrottles, EntriesAfter
      <3>2. QED
        BY <1>2, <2>1, <3>1, ProbeEntries DEF FlowsSound
    <2>4. UNCHANGED flowCloud
      BY <1>2 DEF LoginPasses, LoginChallenged, LoginRefused, HostFails, HostThrottles,
                  ListFound, ListEmpty, ListRefused
    <2>5. QED
      BY <2>2, <2>3, <2>4, OneFlowTurns
  <1>3. CASE CodeAccepted(f)
    <2> DEFINE new == Start(flows[f], "verify")
    <2>1. /\ flows' = [Noticed EXCEPT ![f] = new]
          /\ verified' = TRUE /\ UNCHANGED <<ids, account, password, entries>>
          /\ ~Probing(flows[f])
      BY <1>3 DEF CodeAccepted, Probing
    <2>2. Proper(new) /\ new.error = None
      BY StartIsProper DEF FlowsSound, FlowTypeOK
    <2> HIDE DEF new
    <2>3. \A g \in Flows : flows'[g] = IF g = f THEN new ELSE Noticed[g]
      BY <2>1 DEF Noticed
    <2>4. \A g \in Flows : Proper(flows'[g])
      BY <2>2, <2>3, NoticedKeeps DEF FlowsSound, Proper, Informed, Undisturbed
    <2>5. flows' \in [Flows -> FlowRecords]
      BY <2>1, <2>3, <2>4 DEF Noticed, Proper
    <2>6. FlowTypeOK'
      BY <2>1, <2>4, <2>5, EntriesUntouched, HostsAreAsked DEF FlowsSound, FlowTypeOK, Proper
    <2>7. ProbesAreInformed'
      BY <2>1, <2>4 DEF ProbesAreInformed, Proper, Informed, Undisturbed, Explained
    <2>8. JustlyShownAll
      BY <2>1, <2>3, NoticedKeeps DEF FlowsSound, JustlyShownAll, JustlyShown
    <2>9. QED
      BY <2>1, <2>6, <2>7, <2>8, EntriesUntouched DEF FlowsSound
  <1>4. QED
    BY <1>1, <1>2, <1>3 DEF FlowStep

\* The account moves, or gets another password, under the probes.
LEMMA CloudStepKeeps ==
  ASSUME FlowsSound, AccountMoves \/ PasswordChanges
  PROVE  FlowsSound' /\ AskedForCause /\ JustlyShownAll
  <1>1. /\ flows' = Noticed /\ UNCHANGED <<ids, verified, entries>>
        /\ account' \in [Hosts -> {"none", "empty", "devices"}] /\ password' \in Nat
    BY DEF AccountMoves, PasswordChanges, FlowsSound, FlowTypeOK
  <1>2. flows' \in [Flows -> FlowRecords]
    BY <1>1, NoticedKeeps DEF FlowsSound, Noticed
  <1>3. \A f \in Flows : Probing(flows'[f]) =>
          /\ flows'[f].at \in DOMAIN ProbeHosts /\ flows'[f].error = None /\ flows'[f].changed
    BY <1>1, NoticedKeeps, HostsAreAsked DEF FlowsSound
  <1>4. FlowTypeOK'
    BY <1>1, <1>2, <1>3, EntriesUntouched DEF FlowsSound, FlowTypeOK
  <1>5. ProbesAreInformed'
    BY <1>3 DEF ProbesAreInformed, Informed, Undisturbed
  <1>6. JustlyShownAll
    BY <1>1, NoticedKeeps DEF FlowsSound, JustlyShownAll, JustlyShown
  <1>7. QED
    BY <1>1, <1>4, <1>5, <1>6, EntriesUntouched DEF FlowsSound

LEMMA RestartKeeps ==
  ASSUME FlowsSound, Restart
  PROVE  FlowsSound' /\ AskedForCause /\ JustlyShownAll
  <1>1. EntriesAfter
    BY DEF Restart, EntriesAfter, Restarted
  <1>2. UNCHANGED flowCloud /\ flows' = [f \in Flows |-> Closed]
    BY DEF Restart
  <1>3. /\ entries' \subseteq EntryRecords
        /\ EntryStaysWithItsAccount' /\ OneEntryPerAccount' /\ AskedForCause
    BY <1>1, <1>2, EntriesKeep DEF FlowsSound, FlowTypeOK, flowCloud
  <1>4. ~Probing(Closed) /\ Closed.error # "invalid_auth"
    BY IdentityAssumption DEF Closed, Probing
  <1>5. FlowTypeOK' /\ ProbesAreInformed' /\ JustlyShownAll
    BY <1>2, <1>3, <1>4, ClosedTyped
       DEF FlowsSound, FlowTypeOK, flowCloud, ProbesAreInformed, JustlyShownAll, JustlyShown
  <1>6. QED
    BY <1>3, <1>5 DEF FlowsSound

LEMMA EntryStepKeeps ==
  ASSUME FlowsSound, NEW e \in entries, EntryStep(e)
  PROVE  FlowsSound' /\ AskedForCause /\ JustlyShownAll
  <1>1. EntriesAfter
    BY EntryStepEntries DEF FlowsSound
  <1>2. UNCHANGED <<flowCloud, flows>>
    BY DEF EntryStep, EntryLoads, EntryRefused, PollRefused, RefreshStarts, RefreshEnds,
           EntryBecomes
  <1>3. /\ entries' \subseteq EntryRecords
        /\ EntryStaysWithItsAccount' /\ OneEntryPerAccount' /\ AskedForCause
    BY <1>1, <1>2, EntriesKeep DEF FlowsSound, FlowTypeOK, flowCloud
  <1>4. FlowTypeOK' /\ ProbesAreInformed'
    BY <1>2, <1>3 DEF FlowsSound, FlowTypeOK, flowCloud, ProbesAreInformed, Informed, Undisturbed, Explained
  <1>5. JustlyShownAll
    BY <1>2, IdentityAssumption DEF FlowsSound, FlowTypeOK, JustlyShownAll, JustlyShown
  <1>6. QED
    BY <1>3, <1>4, <1>5 DEF FlowsSound

LEMMA StillKeeps ==
  ASSUME FlowsSound, UNCHANGED flowVars
  PROVE  FlowsSound' /\ AskedForCause /\ JustlyShownAll
  <1>1. UNCHANGED <<ids, account, password, verified, flows, entries>>
    BY DEF flowVars, flowCloud
  <1>2. FlowTypeOK' /\ ProbesAreInformed'
    BY <1>1 DEF FlowsSound, FlowTypeOK, ProbesAreInformed, Informed, Undisturbed, Explained
  <1>3. JustlyShownAll
    BY <1>1, IdentityAssumption DEF FlowsSound, FlowTypeOK, JustlyShownAll, JustlyShown
  <1>4. QED
    BY <1>1, <1>2, <1>3, EntriesUntouched DEF FlowsSound

LEMMA SoundStep ==
  ASSUME FlowsSound, [FlowNext]_flowVars
  PROVE  FlowsSound' /\ AskedForCause /\ JustlyShownAll
  BY FlowStepKeeps, CloudStepKeeps, RestartKeeps, EntryStepKeeps, StillKeeps DEF FlowNext

LEMMA SoundInit == FlowInit => FlowsSound
  <1> SUFFICES ASSUME FlowInit PROVE FlowsSound
    OBVIOUS
  <1>1. flows \in [Flows -> FlowRecords] /\ \A f \in Flows : ~Probing(flows[f])
    BY ClosedTyped DEF FlowInit, Closed, Probing
  <1>2. account \in [Hosts -> {"none", "empty", "devices"}]
    BY DEF FlowInit
  <1>3. FlowTypeOK
    BY <1>1, <1>2 DEF FlowInit, FlowTypeOK
  <1>4. QED
    BY <1>1, <1>3 DEF FlowInit, FlowsSound, ProbesAreInformed, EntryStaysWithItsAccount, OneEntryPerAccount

LEMMA SoundAlways == FlowSpec => []FlowsSound
  <1>1. FlowsSound /\ [FlowNext]_flowVars => FlowsSound'
    BY SoundStep
  <1>2. QED
    BY <1>1, SoundInit, PTL DEF FlowSpec

\* Every variable stays in its type; a probe always asks one of the hosts.
THEOREM AccountTyping == FlowSpec => []FlowTypeOK
  <1>1. FlowsSound => FlowTypeOK
    BY DEF FlowsSound
  <1>2. QED
    BY <1>1, SoundAlways, PTL

\* An entry belongs to one user id for good (_async_finish: wrong_account), however
\* many hosts know the email and by whatever ids.
THEOREM EntriesStayWithTheirAccount == FlowSpec => []EntryStaysWithItsAccount
  <1>1. FlowsSound => EntryStaysWithItsAccount
    BY DEF FlowsSound
  <1>2. QED
    BY <1>1, SoundAlways, PTL

\* However many flows overlap, one account gets one entry
\* (_abort_if_unique_id_configured).
THEOREM AccountsHaveOneEntry == FlowSpec => []OneEntryPerAccount
  <1>1. FlowsSound => OneEntryPerAccount
    BY DEF FlowsSound
  <1>2. QED
    BY <1>1, SoundAlways, PTL

\* The right password is never called wrong, whatever order the hosts are asked in
\* and whichever of them answer (_async_probe_account).
THEOREM RightPasswordsAreBelieved == FlowSpec => RightPasswordIsNeverCalledWrong
  <1>1. FlowsSound /\ [FlowNext]_flowVars =>
          [\A f \in Flows :
             (/\ Probing(flows[f]) /\ flows'[f].error = "invalid_auth"
              /\ flows[f].typed = password)
             => flows[f].changed \/ \A h \in Hosts : account[h] = "none"]_flowVars
    BY SoundStep DEF JustlyShownAll, JustlyShown
  <1>2. QED
    BY <1>1, SoundAlways, PTL DEF FlowSpec, RightPasswordIsNeverCalledWrong

\* The user is asked to sign in again only while the stored credentials do not log
\* in, whatever an older refresh wrote over the entry's tokens
\* (_async_list_devices, _persist_tokens).
THEOREM SignInsAreNeeded == FlowSpec => AskedOnlyForCause
  <1>1. FlowsSound /\ [FlowNext]_flowVars =>
          [\A e \in entries, d \in entries' :
             (d.id = e.id /\ e.mode # "asking" /\ d.mode = "asking") => ~LogsIn(e)]_flowVars
    BY SoundStep DEF AskedForCause
  <1>2. QED
    BY <1>1, SoundAlways, PTL DEF FlowSpec, AskedOnlyForCause

(***************************************************************************)
(* Staying signed in (CloudClient): the lock lets one refresh out at a time *)
(* (OnePost), so the pair it carries is still the one AuthManager holds    *)
(* (PostsHeld), and that pair is the newest one unless an answer was lost  *)
(* (Current).  A login happens only while nobody but the lister sends      *)
(* requests (Alone).                                                       *)
(***************************************************************************)

OnePost ==
  \A c, d \in Callers : at[c] = "posting" /\ at[d] = "posting" => c = d

PostsHeld == \A c \in Callers : at[c] = "posting" => carries[c] = held

Current == ~lost => held = latest /\ entry = latest

\* A forced refresh follows a 401, any other one an aged token.
PostsHaveReason ==
  \A c \in Callers :
    /\ at[c] = "forced" => again[c]
    /\ at[c] = "posting" /\ ~again[c] => carries[c] <= stale

\* Until the entry is up only its lister sends requests.
Alone ==
  /\ \A c \in Callers : at[c] = "login" => mode = "listing"
  /\ mode # "up" => \A c \in Callers \ {Lister} : at[c] = "idle"

\* What is left of Sound when only the requests are looked at.
Requested == OnePost /\ PostsHeld /\ PostsHaveReason /\ Alone

Sound == TypeOK /\ Requested /\ Current

-----------------------------------------------------------------------------
(* The helpers.                                                            *)

\* What Put changes.
LEMMA PutEffect ==
  ASSUME NEW c \in Callers, NEW place \in Places, NEW pair \in Nat, TypeOK,
         Put(c, place, pair)
  PROVE  /\ at' \in [Callers -> Places]
         /\ carries' \in [Callers -> Nat]
         /\ at'[c] = place /\ carries'[c] = pair
         /\ \A d \in Callers \ {c} : at'[d] = at[d] /\ carries'[d] = carries[d]
  BY DEF Put, TypeOK

\* What Fresh changes, given what it restores.
LEMMA FreshEffect ==
  ASSUME NEW saved \in Nat, Fresh(saved)
  PROVE  /\ at' \in [Callers -> Places] /\ carries' \in [Callers -> Nat]
         /\ again' \in [Callers -> BOOLEAN]
         /\ \A c \in Callers : at'[c] = "idle"
         /\ held' = saved
         /\ backoff' = FALSE /\ floor' = "over"
         /\ mode' = "listing" /\ healed' = FALSE /\ halted' = {}
  BY DEF Fresh, Places

\* A request that ends posts nothing any more.
LEMMA EndedEffect ==
  ASSUME NEW c \in Callers, NEW outcome, TypeOK, Ended(c, outcome)
  PROVE  /\ at' \in [Callers -> Places] /\ carries' \in [Callers -> Nat]
         /\ again' \in [Callers -> BOOLEAN]
         /\ at'[c] \in {"idle", "login"}
         /\ \A d \in Callers \ {c} :
              at'[d] = at[d] /\ carries'[d] = carries[d] /\ again'[d] = again[d]
         /\ mode' \in Modes /\ healed' = healed
         /\ mode' = "up" /\ mode # "up" => mode = "listing"
         /\ mode = "up" => mode' = "up"
         /\ at'[c] = "login" => mode' = "listing"
         /\ halted' \subseteq Coordinators
         /\ halted' # halted => outcome = "auth" /\ halted' = halted \cup {c}
  <1>1. PICK place \in {"idle", "login"} : Put(c, place, 0)
    BY DEF Ended, ListingFailsAuth
  <1>2. place \in Places
    BY DEF Places
  <1>3. /\ at' \in [Callers -> Places] /\ carries' \in [Callers -> Nat]
        /\ at'[c] \in {"idle", "login"}
        /\ \A d \in Callers \ {c} : at'[d] = at[d] /\ carries'[d] = carries[d]
    BY <1>1, <1>2, PutEffect
  <1>4. /\ again' \in [Callers -> BOOLEAN]
        /\ \A d \in Callers \ {c} : again'[d] = again[d]
    BY DEF Ended, TypeOK
  <1>5. /\ mode' \in Modes /\ healed' = healed
        /\ mode' = "up" /\ mode # "up" => mode = "listing"
        /\ mode = "up" => mode' = "up"
        /\ at'[c] = "login" => mode' = "listing"
    BY DEF Ended, ListingFailsAuth, TypeOK, Modes, Put
  <1>6. /\ halted' \subseteq Coordinators
        /\ halted' # halted => outcome = "auth" /\ halted' = halted \cup {c}
    BY DEF Ended, AsksUser, TypeOK
  <1> QED
    BY <1>3, <1>4, <1>5, <1>6

\* An unread answer leaves the newest pair where it was, or loses it.
LEMMA UnreadEffect ==
  ASSUME NEW posted, NEW acted \in BOOLEAN, NEW forgotten \in BOOLEAN, TypeOK,
         Unread(posted, acted, forgotten)
  PROVE  /\ latest' \in Nat /\ stale' = stale /\ dead' = dead
         /\ stray' \in BOOLEAN /\ lost' \in BOOLEAN
         /\ lost => lost'
         /\ forgotten => lost'
         /\ ~lost' => latest' = latest
  BY DEF Unread, TypeOK

\* One caller moves while the tokens stay: the conditions on where it goes.
LEMMA Moves ==
  ASSUME NEW c \in Callers, NEW place \in Places \ {"login"}, NEW pair \in Nat, Sound,
         Put(c, place, pair), held' = held, stale' = stale, mode' = mode,
         mode # "up" => c = Lister,
         again' \in [Callers -> BOOLEAN],
         \A d \in Callers \ {c} : again'[d] = again[d],
         place = "forced" => again'[c],
         place = "posting" =>
           /\ pair = held
           /\ \A d \in Callers \ {c} : at[d] # "posting"
           /\ ~again'[c] => pair <= stale
  PROVE  Requested'
  <1>1. TypeOK /\ OnePost /\ PostsHeld /\ PostsHaveReason /\ Alone
    BY DEF Sound, Requested
  <1>2. /\ at'[c] = place /\ carries'[c] = pair
        /\ \A d \in Callers \ {c} : at'[d] = at[d] /\ carries'[d] = carries[d]
    BY <1>1, PutEffect
  <1>3. OnePost'
    BY <1>1, <1>2 DEF OnePost
  <1>4. PostsHeld'
    BY <1>1, <1>2 DEF PostsHeld
  <1>5. PostsHaveReason'
    BY <1>1, <1>2 DEF PostsHaveReason
  <1>6. Alone'
    BY <1>1, <1>2 DEF Alone
  <1> QED
    BY <1>3, <1>4, <1>5, <1>6 DEF Requested

\* A request that ends leaves the others as they were.
LEMMA EndedSound ==
  ASSUME NEW c \in Callers, NEW outcome, Sound, Ended(c, outcome), at[c] # "idle",
         held' = held, stale' = stale
  PROVE  Requested'
  <1>1. TypeOK /\ OnePost /\ PostsHeld /\ PostsHaveReason /\ Alone
    BY DEF Sound, Requested
  <1>2. /\ at'[c] \in {"idle", "login"}
        /\ \A d \in Callers \ {c} :
             at'[d] = at[d] /\ carries'[d] = carries[d] /\ again'[d] = again[d]
        /\ at'[c] = "login" => mode' = "listing"
        /\ mode = "up" => mode' = "up"
    BY <1>1, EndedEffect
  <1>3. OnePost' /\ PostsHeld' /\ PostsHaveReason'
    BY <1>1, <1>2 DEF OnePost, PostsHeld, PostsHaveReason
  <1>4. mode # "up" => c = Lister
    BY <1>1 DEF Alone
  <1>5. Alone'
    <2>1. \A d \in Callers \ {c} : at[d] = "login" => d = Lister \/ mode = "up"
      BY <1>1 DEF Alone
    <2> QED
      BY <1>1, <1>2, <1>4, <2>1 DEF Alone
  <1> QED
    BY <1>3, <1>5 DEF Requested

\* async_get_access_token and its request.
LEMMA SendSound ==
  ASSUME NEW c \in Callers, Sound, at[c] = "idle", Send(c),
         mode # "up" => c = Lister,
         UNCHANGED <<again, held, stale, mode>>
  PROVE  /\ at' \in [Callers -> Places] /\ carries' \in [Callers -> Nat]
         /\ Requested'
  <1>1. TypeOK
    BY DEF Sound
  <1>2. again' \in [Callers -> BOOLEAN] /\ again' = again
    BY <1>1 DEF TypeOK
  <1>3. /\ {"sent", "queued", "posting"} \subseteq Places \ {"login"}
        /\ held \in Nat /\ 0 \in Nat
    BY <1>1 DEF Places, Waiting, TypeOK
  <1>4. CASE held > stale
    <2>1. Put(c, "sent", held)
      BY <1>4 DEF Send
    <2> QED
      BY <1>1, <1>2, <1>3, <2>1, PutEffect, Moves
  <1>5. CASE ~(held > stale) /\ LockTaken
    <2>1. Put(c, "queued", 0)
      BY <1>5 DEF Send
    <2> QED
      BY <1>1, <1>2, <1>3, <2>1, PutEffect, Moves
  <1>6. CASE ~(held > stale) /\ ~LockTaken
    <2>1. Put(c, "posting", held)
      BY <1>6 DEF Send
    <2>2. \A d \in Callers \ {c} : at[d] # "posting"
      BY <1>6 DEF LockTaken
    <2>3. held <= stale
      BY <1>1, <1>6 DEF TypeOK
    <2> QED
      BY <1>1, <1>2, <1>3, <2>1, <2>2, <2>3, PutEffect, Moves
  <1> QED
    BY <1>4, <1>5, <1>6

\* Everything of the entry is new: nothing is posted.
LEMMA FreshSound ==
  ASSUME NEW saved \in Nat, Fresh(saved)
  PROVE  Requested'
  <1>1. \A c \in Callers : at'[c] = "idle"
    BY FreshEffect
  <1> QED
    BY <1>1 DEF Requested, OnePost, PostsHeld, PostsHaveReason, Alone

-----------------------------------------------------------------------------
(* One lemma per kind of step.                                             *)

\* The parts of Sound a step of the requests leaves to look at.
LEMMA SoundFrom ==
  ASSUME TypeOK', Requested', Current'
  PROVE  Sound'
  BY DEF Sound

LEMMA AskSound ==
  ASSUME NEW c \in Callers, Sound, Ask(c) \/ AskTicket(c)
  PROVE  Sound'
  <1>1. /\ at[c] = "idle" /\ Send(c) /\ (mode # "up" => c = Lister)
        /\ UNCHANGED <<again, held, entry, disk, latest, stale, dead, stray, lost,
                       backoff, mode, healed, halted>>
        /\ floor' \in {"over", "ticket", "retried"}
    BY DEF Ask, AskTicket, MayAsk, pairs, cloud, gates, setup, Sound, TypeOK
  <1>2. at' \in [Callers -> Places] /\ carries' \in [Callers -> Nat] /\ Requested'
    BY <1>1, SendSound
  <1>3. TypeOK'
    BY <1>1, <1>2 DEF Sound, TypeOK
  <1>4. Current'
    BY <1>1 DEF Sound, Current
  <1> QED
    BY <1>2, <1>3, <1>4, SoundFrom

\* Past the lock, or past a 401: the caller moves, nothing else does.
LEMMA GrantSound ==
  ASSUME NEW c \in Callers, Sound, LockGranted(c)
  PROVE  Sound'
  <1>1. /\ at[c] \in Waiting
        /\ \A d \in Callers : at[d] # "posting"
        /\ UNCHANGED <<again, held, entry, disk, latest, stale, dead, stray, lost,
                       backoff, floor, mode, healed, halted>>
    BY DEF LockGranted, pairs, cloud, gates, setup
  <1>2. /\ {"sent", "posting"} \subseteq Places \ {"login"} /\ held \in Nat /\ TypeOK
        /\ mode # "up" => c = Lister
    BY <1>1 DEF Places, Waiting, Sound, TypeOK, Requested, Alone
  <1>3. again' \in [Callers -> BOOLEAN] /\ again' = again
    BY <1>1, <1>2 DEF TypeOK
  <1>4. at' \in [Callers -> Places] /\ carries' \in [Callers -> Nat] /\ Requested'
    <2>1. CASE at[c] = "queued" /\ held > stale
      <3>1. Put(c, "sent", held)
        BY <2>1 DEF LockGranted
      <3> QED
        BY <1>1, <1>2, <1>3, <3>1, PutEffect, Moves
    <2>2. CASE ~(at[c] = "queued" /\ held > stale)
      <3>1. Put(c, "posting", held)
        BY <2>2 DEF LockGranted
      <3>2. ~again'[c] => held <= stale
        BY <1>1, <1>2, <2>2 DEF Waiting, Sound, Requested, PostsHaveReason, TypeOK
      <3> QED
        BY <1>1, <1>2, <1>3, <3>1, <3>2, PutEffect, Moves
    <2> QED
      BY <2>1, <2>2
  <1>5. TypeOK'
    BY <1>1, <1>3, <1>4, <1>2 DEF TypeOK
  <1>6. Current'
    BY <1>1 DEF Sound, Current
  <1> QED
    BY <1>4, <1>5, <1>6, SoundFrom

LEMMA RejectedSound ==
  ASSUME NEW c \in Callers, Sound, Rejected(c), ~again[c]
  PROVE  Sound'
  <1>1. /\ at[c] = "sent"
        /\ again' = [again EXCEPT ![c] = TRUE]
        /\ Refresh(c)
        /\ UNCHANGED <<held, entry, disk, latest, stale, dead, stray, lost, backoff,
                       floor, mode, healed, halted>>
    BY DEF Rejected, pairs, cloud, gates, setup
  <1>2. /\ {"forced", "posting"} \subseteq Places \ {"login"}
        /\ held \in Nat /\ 0 \in Nat /\ TypeOK
        /\ mode # "up" => c = Lister
    BY <1>1 DEF Places, Waiting, Sound, TypeOK, Requested, Alone
  <1>3. /\ again' \in [Callers -> BOOLEAN] /\ again'[c]
        /\ \A d \in Callers \ {c} : again'[d] = again[d]
    BY <1>1, <1>2 DEF TypeOK
  <1>4. at' \in [Callers -> Places] /\ carries' \in [Callers -> Nat] /\ Requested'
    <2>1. CASE LockTaken
      <3>1. Put(c, "forced", 0)
        BY <1>1, <2>1 DEF Refresh
      <3> QED
        BY <1>1, <1>2, <1>3, <3>1, PutEffect, Moves
    <2>2. CASE ~LockTaken
      <3>1. Put(c, "posting", held)
        BY <1>1, <2>2 DEF Refresh
      <3>2. \A d \in Callers \ {c} : at[d] # "posting"
        BY <2>2 DEF LockTaken
      <3> QED
        BY <1>1, <1>2, <1>3, <3>1, <3>2, PutEffect, Moves
    <2> QED
      BY <2>1, <2>2
  <1>5. TypeOK'
    BY <1>1, <1>2, <1>3, <1>4 DEF TypeOK
  <1>6. Current'
    BY <1>1 DEF Sound, Current
  <1> QED
    BY <1>4, <1>5, <1>6, SoundFrom

\* The request ends, whatever the answer was, and the tokens stay.
LEMMA AnswerSound ==
  ASSUME NEW c \in Callers, Sound,
         \/ RefreshRefused(c) \/ Succeeds(c) \/ Fails(c) \/ Throttled(c)
         \/ Rejected(c) /\ again[c]
  PROVE  Sound'
  <1>1. at[c] # "idle" /\ \E outcome \in {"auth", "ok", "down", "limited"} : Ended(c, outcome)
    BY DEF RefreshRefused, Succeeds, Fails, Throttled, Rejected
  <1>2. /\ UNCHANGED <<held, entry, disk, latest, stale, dead, stray, lost, floor>>
        /\ backoff' \in BOOLEAN
    BY DEF RefreshRefused, Succeeds, Fails, Throttled, Rejected, pairs, cloud, gates,
           Sound, TypeOK, ArmsBackoff
  <1>3. TypeOK
    BY DEF Sound
  <1>4. TypeOK'
    BY <1>1, <1>2, <1>3, EndedEffect DEF TypeOK
  <1>5. Requested'
    BY <1>1, <1>2, EndedSound
  <1>6. Current'
    BY <1>2 DEF Sound, Current
  <1> QED
    BY <1>4, <1>5, <1>6, SoundFrom

\* The POST ends without an answer the client can use: the newest pair stays the one
\* it holds, or is lost.
LEMMA UnansweredSound ==
  ASSUME NEW c \in Callers, Sound,
         \/ \E acted \in BOOLEAN : RefreshFails(c, acted)
         \/ RefreshGarbled(c)
  PROVE  Sound'
  <1>1. PICK outcome \in {"auth", "down"}, acted \in BOOLEAN :
          Ended(c, outcome) /\ Unread({carries[c]}, acted, FALSE) /\ at[c] # "idle"
    BY DEF RefreshFails, RefreshGarbled
  <1>2. UNCHANGED <<held, entry, disk, backoff, floor>>
    BY DEF RefreshFails, RefreshGarbled, pairs, gates
  <1>3. TypeOK
    BY DEF Sound
  <1>4. /\ latest' \in Nat /\ stale' = stale /\ dead' = dead
        /\ stray' \in BOOLEAN /\ lost' \in BOOLEAN
        /\ lost => lost'
        /\ ~lost' => latest' = latest
    BY <1>1, <1>3, UnreadEffect
  <1>5. TypeOK'
    BY <1>1, <1>2, <1>3, <1>4, EndedEffect DEF TypeOK
  <1>6. Requested'
    BY <1>1, <1>2, <1>4, EndedSound
  <1>7. Current'
    BY <1>2, <1>4 DEF Sound, Current
  <1> QED
    BY <1>5, <1>6, <1>7, SoundFrom

LEMMA CancelSound ==
  ASSUME NEW c \in Callers, NEW acted \in BOOLEAN, Sound, Cancel(c, acted)
  PROVE  Sound'
  <1>1. PICK posted : Unread(posted, acted, FALSE)
    BY DEF Cancel
  <1>2. /\ Put(c, "idle", 0) /\ mode = "up"
        /\ again' = [again EXCEPT ![c] = FALSE]
        /\ UNCHANGED <<held, entry, disk, backoff, floor, mode, healed, halted>>
    BY DEF Cancel, pairs, gates, setup
  <1>3. TypeOK /\ "idle" \in Places \ {"login"} /\ 0 \in Nat
    BY DEF Sound, Places
  <1>4. /\ latest' \in Nat /\ stale' = stale /\ dead' = dead
        /\ stray' \in BOOLEAN /\ lost' \in BOOLEAN
        /\ lost => lost'
        /\ ~lost' => latest' = latest
    BY <1>1, <1>3, UnreadEffect
  <1>5. /\ again' \in [Callers -> BOOLEAN]
        /\ \A d \in Callers \ {c} : again'[d] = again[d]
    BY <1>2, <1>3 DEF TypeOK
  <1>6. at' \in [Callers -> Places] /\ carries' \in [Callers -> Nat] /\ Requested'
    BY <1>2, <1>3, <1>4, <1>5, PutEffect, Moves
  <1>7. TypeOK'
    BY <1>2, <1>3, <1>4, <1>5, <1>6 DEF TypeOK
  <1>8. Current'
    BY <1>2, <1>4 DEF Sound, Current
  <1> QED
    BY <1>6, <1>7, <1>8, SoundFrom

\* A new pair reaches the client: by the one refresh that was posted, or by a login,
\* while nobody else posts.
LEMMA NewPairSound ==
  ASSUME NEW c \in Callers, Sound, RefreshAccepted(c) \/ LoginAccepted(c)
  PROVE  Sound'
  <1>1. /\ NewPair /\ StoreTokens(latest + 1)
        /\ Put(c, "sent", latest + 1)
        /\ lost' \in {lost, FALSE} /\ healed' \in {healed, TRUE}
        /\ UNCHANGED <<again, disk, backoff, floor, mode, halted>>
    BY DEF RefreshAccepted, LoginAccepted, gates, setup
  <1>2. TypeOK /\ "sent" \in Places /\ latest + 1 \in Nat
    BY DEF Sound, TypeOK, Places
  <1>3. /\ held' = latest + 1 /\ entry' = latest + 1 /\ latest' = latest + 1
        /\ stray' = FALSE /\ stale' = stale /\ dead' = dead
    BY <1>1 DEF NewPair, StoreTokens
  <1>4. /\ at' \in [Callers -> Places] /\ carries' \in [Callers -> Nat]
        /\ at'[c] = "sent"
        /\ \A d \in Callers \ {c} : at'[d] = at[d] /\ carries'[d] = carries[d]
    BY <1>1, <1>2, PutEffect
  <1>5. TypeOK'
    BY <1>1, <1>2, <1>3, <1>4 DEF TypeOK
  <1>6. Current'
    BY <1>3 DEF Current
  <1>7. /\ \A d \in Callers : at'[d] # "posting"
        /\ \A d \in Callers \ {c} : at[d] = "login" => mode # "up"
        /\ mode # "up" => c = Lister
    <2>1. OnePost /\ Alone
      BY DEF Sound, Requested
    <2>2. CASE RefreshAccepted(c)
      BY <1>4, <2>1, <2>2 DEF OnePost, Alone, RefreshAccepted
    <2>3. CASE LoginAccepted(c)
      <3>1. mode = "listing" /\ c = Lister
        BY <2>1, <2>3 DEF Alone, LoginAccepted
      <3> QED
        BY <1>4, <2>1, <3>1 DEF Alone
    <2> QED
      BY <2>2, <2>3
  <1>8. Requested'
    BY <1>1, <1>4, <1>7 DEF Sound, Requested, OnePost, PostsHeld, PostsHaveReason, Alone
  <1> QED
    BY <1>5, <1>6, <1>8, SoundFrom

LEMMA LoginFailsSound ==
  ASSUME NEW c \in Callers, NEW refused \in BOOLEAN, Sound, LoginFails(c, refused)
  PROVE  Sound'
  <1>1. /\ at[c] = "login" /\ Put(c, "idle", 0)
        /\ mode' \in {"failed", "retry"}
        /\ UNCHANGED <<again, held, entry, disk, latest, stale, dead, stray, lost,
                       backoff, floor, healed, halted>>
    BY DEF LoginFails, pairs, cloud, gates
  <1>2. TypeOK /\ OnePost /\ PostsHeld /\ PostsHaveReason /\ Alone
    BY DEF Sound, Requested
  <1>3. mode = "listing" /\ c = Lister
    BY <1>1, <1>2 DEF Alone
  <1>4. /\ at' \in [Callers -> Places] /\ carries' \in [Callers -> Nat]
        /\ at'[c] = "idle" /\ carries'[c] = 0
        /\ \A d \in Callers \ {c} : at'[d] = at[d] /\ carries'[d] = carries[d]
    BY <1>1, <1>2, PutEffect DEF Places
  <1>5. TypeOK'
    BY <1>1, <1>2, <1>4 DEF TypeOK, Modes
  <1>6. Requested'
    BY <1>1, <1>2, <1>3, <1>4
       DEF Requested, OnePost, PostsHeld, PostsHaveReason, Alone
  <1>7. Current'
    BY <1>1 DEF Sound, Current
  <1> QED
    BY <1>5, <1>6, <1>7, SoundFrom

\* The entry is set up again: from its data, from the disk, or from a new login.
LEMMA SetupSound ==
  ASSUME Sound, SetupStep
  PROVE  Sound'
  <1>1. TypeOK /\ Requested /\ Current
    BY DEF Sound
  <1>2. CASE SetupRetries
    <2>1. /\ Fresh(entry) /\ entry \in Nat
          /\ UNCHANGED <<entry, disk, latest, stale, dead, stray, lost>>
      BY <1>1, <1>2 DEF SetupRetries, cloud, TypeOK
    <2>2. Requested'
      BY <2>1, FreshSound
    <2>3. TypeOK' /\ Current'
      BY <1>1, <2>1, FreshEffect DEF TypeOK, Modes, Current
    <2> QED
      BY <2>2, <2>3, SoundFrom
  <1>3. CASE Flush
    <2>1. /\ disk' = entry
          /\ UNCHANGED <<at, again, carries, held, entry, latest, stale, dead, stray,
                         lost, backoff, floor, mode, healed, halted>>
      BY <1>3 DEF Flush, requests, cloud, gates, setup
    <2>2. TypeOK' /\ Current'
      BY <1>1, <2>1 DEF TypeOK, Current
    <2>3. Requested'
      BY <1>1, <2>1 DEF Requested, OnePost, PostsHeld, PostsHaveReason, Alone
    <2> QED
      BY <2>2, <2>3, SoundFrom
  <1>4. CASE Reauthenticate
    <2>1. /\ Fresh(latest + 1) /\ latest + 1 \in Nat
          /\ entry' = latest + 1 /\ latest' = latest + 1
          /\ stray' = FALSE /\ lost' = FALSE
          /\ UNCHANGED <<disk, stale, dead>>
      BY <1>1, <1>4 DEF Reauthenticate, NewPair, TypeOK
    <2>2. Requested'
      BY <2>1, FreshSound
    <2>3. TypeOK' /\ Current'
      BY <1>1, <2>1, FreshEffect DEF TypeOK, Modes, Current
    <2> QED
      BY <2>2, <2>3, SoundFrom
  <1>5. ASSUME NEW acted \in BOOLEAN, Reload(acted) PROVE Sound'
    <2>1. /\ Unread(Posted, acted, FALSE) /\ Fresh(entry) /\ entry \in Nat
          /\ UNCHANGED <<entry, disk>>
      BY <1>1, <1>5 DEF Reload, TypeOK
    <2>2. /\ latest' \in Nat /\ stale' = stale /\ dead' = dead
          /\ stray' \in BOOLEAN /\ lost' \in BOOLEAN
          /\ lost => lost'
          /\ ~lost' => latest' = latest
      BY <1>1, <2>1, UnreadEffect
    <2>3. Requested'
      BY <2>1, FreshSound
    <2>4. TypeOK' /\ Current'
      BY <1>1, <2>1, <2>2, FreshEffect DEF TypeOK, Modes, Current
    <2> QED
      BY <2>3, <2>4, SoundFrom
  <1>6. ASSUME NEW acted \in BOOLEAN, Crash(acted) PROVE Sound'
    <2>1. /\ Unread(Posted, acted, disk # entry) /\ Fresh(disk) /\ disk \in Nat
          /\ entry' = disk /\ disk' = disk
      BY <1>1, <1>6 DEF Crash, TypeOK
    <2>2. /\ latest' \in Nat /\ stale' = stale /\ dead' = dead
          /\ stray' \in BOOLEAN /\ lost' \in BOOLEAN
          /\ lost => lost'
          /\ disk # entry => lost'
          /\ ~lost' => latest' = latest
      BY <1>1, <2>1, UnreadEffect
    <2>3. Requested'
      BY <2>1, FreshSound
    <2>4. TypeOK' /\ Current'
      BY <1>1, <2>1, <2>2, FreshEffect DEF TypeOK, Modes, Current
    <2> QED
      BY <2>3, <2>4, SoundFrom
  <1> QED
    BY <1>2, <1>3, <1>4, <1>5, <1>6 DEF SetupStep

\* Tokens only age, and what the cloud does on its own loses the pair.
LEMMA TimeSound ==
  ASSUME Sound, TimeStep
  PROVE  Sound'
  <1>1. TypeOK /\ Requested /\ Current
    BY DEF Sound
  <1>2. /\ UNCHANGED <<at, again, carries, held, entry, disk, mode, healed, halted>>
        /\ stale' \in Nat /\ stale' >= stale /\ dead' \in Nat
        /\ latest' \in Nat /\ stray' \in BOOLEAN /\ lost' \in BOOLEAN
        /\ backoff' \in BOOLEAN /\ floor' \in {"over", "ticket", "retried"}
        /\ \/ lost' = lost /\ latest' = latest
           \/ lost' = TRUE
    <2>1. CASE AccessAges
      BY <1>1, <2>1 DEF AccessAges, Passes, requests, pairs, setup, gates, TypeOK
    <2>2. CASE AccessDies
      <3>1. /\ dead' \in dead + 1..latest
            /\ UNCHANGED <<latest, stale, stray, lost, backoff, floor>>
            /\ UNCHANGED <<at, again, carries, held, entry, disk, mode, healed, halted>>
        BY <2>2 DEF AccessDies, Passes, requests, pairs, setup, gates
      <3> QED
        BY <1>1, <3>1 DEF TypeOK
    <2>3. CASE PairLapses \/ StrayArrives
      <3>1. /\ NewPair /\ lost' = TRUE /\ UNCHANGED gates
            /\ UNCHANGED <<requests, pairs, setup>>
        BY <2>3 DEF PairLapses, StrayArrives, Passes
      <3>2. /\ UNCHANGED <<backoff, floor>>
            /\ UNCHANGED <<at, again, carries, held, entry, disk, mode, healed, halted>>
        BY <3>1 DEF requests, pairs, setup, gates
      <3>3. latest' = latest + 1 /\ stray' = FALSE /\ stale' = stale /\ dead' = dead
        BY <3>1 DEF NewPair
      <3>4. stale' \in Nat /\ stale' >= stale /\ dead' \in Nat /\ latest' \in Nat
        BY <1>1, <3>3 DEF TypeOK
      <3>5. stray' \in BOOLEAN /\ lost' \in BOOLEAN
        BY <3>1, <3>3
      <3>6. backoff' \in BOOLEAN /\ floor' \in {"over", "ticket", "retried"}
        BY <1>1, <3>2 DEF TypeOK
      <3> QED
        BY <3>1, <3>2, <3>4, <3>5, <3>6
    <2>4. CASE BackoffEnds \/ FloorEnds
      <3>1. /\ UNCHANGED <<cloud, lost>> /\ UNCHANGED <<requests, pairs, setup>>
            /\ \/ backoff' = FALSE /\ floor' = floor
               \/ backoff' = backoff /\ floor' = "over"
        BY <2>4 DEF BackoffEnds, FloorEnds, Passes
      <3>2. /\ UNCHANGED <<latest, stale, dead, stray, lost>>
            /\ UNCHANGED <<at, again, carries, held, entry, disk, mode, healed, halted>>
        BY <3>1 DEF requests, pairs, setup, cloud
      <3>3. stale' \in Nat /\ stale' >= stale /\ dead' \in Nat /\ latest' \in Nat
        BY <1>1, <3>2 DEF TypeOK
      <3>4. stray' \in BOOLEAN /\ lost' \in BOOLEAN
        BY <1>1, <3>2 DEF TypeOK
      <3>5. backoff' \in BOOLEAN /\ floor' \in {"over", "ticket", "retried"}
        BY <1>1, <3>1 DEF TypeOK
      <3> QED
        BY <3>2, <3>3, <3>4, <3>5
    <2> QED
      BY <2>1, <2>2, <2>3, <2>4 DEF TimeStep
  <1>3. TypeOK'
    BY <1>1, <1>2 DEF TypeOK
  <1>4. Current'
    BY <1>1, <1>2 DEF Current
  <1>5. \A c \in Callers : carries[c] <= stale => carries[c] <= stale'
    BY <1>1, <1>2 DEF TypeOK
  <1>6. Requested'
    BY <1>1, <1>2, <1>5 DEF Requested, OnePost, PostsHeld, PostsHaveReason, Alone
  <1> QED
    BY <1>3, <1>4, <1>6, SoundFrom

-----------------------------------------------------------------------------
(* The theorems.                                                           *)

LEMMA InitSound == Init => Sound
  <1> SUFFICES ASSUME Init PROVE Sound
    OBVIOUS
  <1>1. TypeOK
    BY DEF Init, TypeOK, Places, Modes
  <1>2. Requested /\ Current
    BY DEF Init, Requested, OnePost, PostsHeld, PostsHaveReason, Alone, Current
  <1> QED
    BY <1>1, <1>2 DEF Sound

LEMMA StepSound ==
  ASSUME Sound, [Next]_vars
  PROVE  Sound'
  <1>1. ASSUME NEW c \in Callers, RequestStep(c) PROVE Sound'
    <2>1. CASE Ask(c) \/ AskTicket(c)
      BY <2>1, AskSound
    <2>2. CASE LockGranted(c)
      BY <2>2, GrantSound
    <2>3. CASE Rejected(c)
      BY <2>3, RejectedSound, AnswerSound
    <2>4. CASE RefreshRefused(c) \/ Succeeds(c) \/ Fails(c) \/ Throttled(c)
      BY <2>4, AnswerSound
    <2>5. CASE RefreshGarbled(c) \/ \E acted \in BOOLEAN : RefreshFails(c, acted)
      BY <2>5, UnansweredSound
    <2>6. CASE \E acted \in BOOLEAN : Cancel(c, acted)
      BY <2>6, CancelSound
    <2>7. CASE RefreshAccepted(c) \/ LoginAccepted(c)
      BY <2>7, NewPairSound
    <2>8. CASE \E refused \in BOOLEAN : LoginFails(c, refused)
      BY <2>8, LoginFailsSound
    <2> QED
      BY <1>1, <2>1, <2>2, <2>3, <2>4, <2>5, <2>6, <2>7, <2>8 DEF RequestStep
  <1>2. CASE UNCHANGED vars
    BY <1>2 DEF vars, requests, pairs, cloud, gates, setup, Sound, TypeOK, Requested,
                OnePost, PostsHeld, PostsHaveReason, Alone, Current
  <1> QED
    BY <1>1, <1>2, SetupSound, TimeSound DEF Next

\* The inductive invariant holds throughout.
THEOREM AlwaysSound == Spec => []Sound
  BY InitSound, StepSound, PTL DEF Spec

\* Every variable of the client stays in its type, whatever is lost and however many
\* callers and pairs there are.
THEOREM ClientTyping == Spec => []TypeOK
  <1>1. Sound => TypeOK
    BY DEF Sound
  <1> QED
    BY <1>1, AlwaysSound, PTL

\* Any number of concurrent requests, 401s and expiries never post a spent refresh
\* token: only an answer that was lost makes the cloud refuse one.
THEOREM RefreshesUseTheNewestPair == Spec => []RefreshesAreCurrent
  <1>1. Sound => RefreshesAreCurrent
    BY DEF Sound, Requested, PostsHeld, Current, RefreshesAreCurrent
  <1> QED
    BY <1>1, AlwaysSound, PTL

\* The config entry always holds the newest pair that reached the client.
THEOREM EntryFollowsTheCloud == Spec => []EntryIsCurrent
  <1>1. Sound => EntryIsCurrent
    BY DEF Sound, Current, EntryIsCurrent
  <1> QED
    BY <1>1, AlwaysSound, PTL

\* Concurrent callers that find the token stale post one refresh between them.
THEOREM StaleTokenIsRefreshedOnce == Spec => []OneRefreshPerExpiry
  <1>1. Sound => OneRefreshPerExpiry
    BY DEF Sound, Requested, PostsHaveReason, OneRefreshPerExpiry
  <1> QED
    BY <1>1, AlwaysSound, PTL

\* Who asks the user: a coordinator whose request ends in an authentication failure.
LEMMA EndedAsks ==
  ASSUME NEW c \in Callers, NEW outcome, Ended(c, outcome)
  PROVE  /\ halted' \subseteq halted \cup {c}
         /\ outcome # "auth" => halted' = halted
  BY DEF Ended, AsksUser

LEMMA StepAsksRightly ==
  ASSUME Sound, [Next]_vars
  PROVE  \/ halted' \subseteq halted
         \/ lost'
         \/ \E c \in halted' \ halted : at[c] = "sent" /\ again[c] /\ carries[c] <= dead
  <1> DEFINE Justified ==
        \/ halted' \subseteq halted
        \/ lost'
        \/ \E c \in halted' \ halted : at[c] = "sent" /\ again[c] /\ carries[c] <= dead
  <1>1. ASSUME NEW c \in Callers, RequestStep(c) PROVE Justified
    <2>1. CASE Ask(c) \/ AskTicket(c) \/ LockGranted(c)
      BY <2>1 DEF Ask, AskTicket, LockGranted, setup
    <2>2. CASE Rejected(c)
      <3>1. CASE again[c]
        BY <2>2, <3>1, EndedAsks DEF Rejected
      <3>2. CASE ~again[c]
        BY <2>2, <3>2 DEF Rejected, setup
      <3> QED
        BY <3>1, <3>2
    <2>3. CASE RefreshRefused(c)
      <3>1. lost /\ lost' = lost
        BY <2>3 DEF RefreshRefused, Sound, Requested, PostsHeld, Current
      <3> QED
        BY <3>1
    <2>4. CASE RefreshGarbled(c)
      <3>1. latest \in {carries[c]} /\ Unread({carries[c]}, TRUE, FALSE)
        BY <2>4 DEF RefreshGarbled
      <3>2. lost'
        BY <3>1 DEF Unread
      <3> QED
        BY <3>2
    <2>5. CASE \/ Succeeds(c) \/ Fails(c) \/ Throttled(c)
               \/ \E acted \in BOOLEAN : RefreshFails(c, acted)
      <3>1. PICK outcome \in {"ok", "down", "limited"} : Ended(c, outcome)
        BY <2>5 DEF Succeeds, Fails, Throttled, RefreshFails
      <3> QED
        BY <3>1, EndedAsks
    <2>6. CASE \/ RefreshAccepted(c) \/ LoginAccepted(c)
               \/ \E refused \in BOOLEAN : LoginFails(c, refused)
               \/ \E acted \in BOOLEAN : Cancel(c, acted)
      BY <2>6 DEF RefreshAccepted, LoginAccepted, LoginFails, Cancel, setup
    <2> QED
      BY <1>1, <2>1, <2>2, <2>3, <2>4, <2>5, <2>6 DEF RequestStep
  <1>2. CASE SetupStep
    BY <1>2 DEF SetupStep, SetupRetries, Flush, Reauthenticate, Reload, Crash, Fresh, setup
  <1>3. CASE TimeStep
    BY <1>3 DEF TimeStep, AccessAges, AccessDies, PairLapses, StrayArrives, BackoffEnds,
                FloorEnds, Passes, setup
  <1>4. CASE UNCHANGED vars
    BY <1>4 DEF vars, setup
  <1> QED
    BY <1>1, <1>2, <1>3, <1>4 DEF Next

\* The user is asked to sign in again only when the pair is gone, or when the cloud
\* rejects the very token it issued after the request's first 401.
THEOREM ReauthIsNeeded == Spec => NoNeedlessReauth
  <1>1. Sound /\ [Next]_vars =>
          [halted' \subseteq halted
           \/ lost'
           \/ \E c \in halted' \ halted :
                at[c] = "sent" /\ again[c] /\ carries[c] <= dead]_vars
    BY StepAsksRightly
  <1> QED
    BY <1>1, AlwaysSound, PTL DEF Spec, NoNeedlessReauth

-----------------------------------------------------------------------------
(* Two throttles.                                                          *)

\* A throttled request of c ends it; nothing else touches the backoff but what
\* clears it.
LEMMA StepThrottles ==
  ASSUME Sound, [Next]_vars, ~backoff, backoff'
  PROVE  \E c \in Callers \ LiveCallers : at[c] = "sent" /\ at'[c] = "idle"
  <1>1. PICK c \in Callers : RequestStep(c)
    <2>1. ~SetupStep
      BY DEF SetupStep, SetupRetries, Flush, Reauthenticate, Reload, Crash, Fresh, gates
    <2>2. ~TimeStep
      BY DEF TimeStep, AccessAges, AccessDies, PairLapses, StrayArrives, BackoffEnds,
             FloorEnds, Passes, gates
    <2> QED
      BY <2>1, <2>2 DEF Next, vars, gates
  <1>2. Throttled(c)
    BY <1>1 DEF RequestStep, Ask, AskTicket, LockGranted, RefreshAccepted, RefreshRefused,
         RefreshGarbled, RefreshFails, Rejected, Succeeds, Fails, LoginAccepted,
         LoginFails, Cancel, gates
  <1>3. at[c] = "sent" /\ c \notin LiveCallers /\ Put(c, "idle", 0)
    BY <1>2 DEF Throttled, ArmsBackoff, Ended
  <1>4. at'[c] = "idle"
    BY <1>3 DEF Put, Sound, TypeOK
  <1> QED
    BY <1>3, <1>4

\* The backoff the polls obey is armed by the answer to a request of the REST domain
\* only: a throttled /live never holds them back (_raise_for_status, _begin_backoff).
THEOREM LiveThrottlesStayApart == Spec => LiveThrottleStaysApart
  <1>1. Sound /\ [Next]_vars =>
          [~backoff /\ backoff' =>
             \E c \in Callers \ LiveCallers : at[c] = "sent" /\ at'[c] = "idle"]_backoff
    BY StepThrottles
  <1> QED
    BY <1>1, AlwaysSound, PTL DEF Spec, LiveThrottleStaysApart

=============================================================================
