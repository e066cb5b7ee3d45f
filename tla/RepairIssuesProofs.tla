-------------------------- MODULE RepairIssuesProofs --------------------------
(***************************************************************************)
(* Theorems about RepairIssues, for any thresholds, any candidate hours    *)
(* and any readings, verdicts, flags and settings the coordinators may     *)
(* publish: typing, what the registry holds of a leak, an escalation and a *)
(* proposal, and what becomes of an ignored issue.                         *)
(***************************************************************************)
EXTENDS RepairIssues, WellFoundedInduction, TLAPS

-----------------------------------------------------------------------------
(* The registry.                                                           *)

LEMMA DeleteEffect ==
  ASSUME NEW g, RegistryTyped(g), NEW i \in Issues
  PROVE  /\ RegistryTyped(Delete(g, i))
         /\ Delete(g, i)[i] = None
         /\ \A j \in Issues \ {i} : Delete(g, i)[j] = g[j]
  BY DEF RegistryTyped, Delete

LEMMA CreateEffect ==
  ASSUME NEW g, RegistryTyped(g), NEW i \in Issues, NEW about \in About(i)
  PROVE  /\ RegistryTyped(Create(g, i, about))
         /\ Create(g, i, about)[i] \in Filings(i)
         /\ Create(g, i, about)[i].active
         /\ Create(g, i, about)[i].about = about
         /\ Create(g, i, about)[i].ignored = Ignored(g, i)
         /\ \A j \in Issues \ {i} : Create(g, i, about)[j] = g[j]
  <1> DEFINE filed == [active |-> TRUE, ignored |-> Ignored(g, i), about |-> about]
  <1>1. Ignored(g, i) \in BOOLEAN
    BY DEF RegistryTyped, Ignored, Filed, Filings
  <1>2. filed \in Filings(i)
    BY <1>1 DEF Filings
  <1>3. Create(g, i, about) = [g EXCEPT ![i] = filed]
    BY DEF Create
  <1>4. filed.active /\ filed.about = about /\ filed.ignored = Ignored(g, i)
    OBVIOUS
  <1> HIDE DEF filed
  <1>5. RegistryTyped([g EXCEPT ![i] = filed])
    BY <1>2 DEF RegistryTyped
  <1>6. /\ [g EXCEPT ![i] = filed][i] = filed
        /\ \A j \in Issues \ {i} : [g EXCEPT ![i] = filed][j] = g[j]
    BY DEF RegistryTyped
  <1>7. QED
    BY <1>2, <1>3, <1>4, <1>5, <1>6

LEMMA IgnoreEffect ==
  ASSUME NEW g, RegistryTyped(g), NEW i \in Issues, Filed(g, i)
  PROVE  /\ RegistryTyped(Ignore(g, i))
         /\ Filed(Ignore(g, i), i)
         /\ Ignore(g, i)[i].active = g[i].active
         /\ Ignore(g, i)[i].about = g[i].about
         /\ Ignore(g, i)[i].ignored
         /\ \A j \in Issues \ {i} : Ignore(g, i)[j] = g[j]
  <1> DEFINE filed == [g[i] EXCEPT !.ignored = TRUE]
  <1>1. g[i] \in Filings(i)
    BY DEF RegistryTyped, Filed
  <1>2. /\ filed \in Filings(i) /\ filed.active = g[i].active
        /\ filed.about = g[i].about /\ filed.ignored
    BY <1>1 DEF Filings
  <1>3. Ignore(g, i) = [g EXCEPT ![i] = filed]
    BY DEF Ignore, RegistryTyped
  <1> HIDE DEF filed
  <1>4. /\ RegistryTyped([g EXCEPT ![i] = filed])
        /\ [g EXCEPT ![i] = filed][i] = filed
        /\ \A j \in Issues \ {i} : [g EXCEPT ![i] = filed][j] = g[j]
    BY <1>2 DEF RegistryTyped
  <1>5. filed # None
    BY <1>2, NoneAssumption
  <1>6. QED
    BY <1>2, <1>3, <1>4, <1>5 DEF Filed

LEMMA RestartEffect ==
  ASSUME NEW g, RegistryTyped(g)
  PROVE  /\ RegistryTyped(Restarted(g))
         /\ \A i \in Issues : /\ ~Standing(Restarted(g), i)
                              /\ Filed(Restarted(g), i) <=> Filed(g, i)
                              /\ Ignored(Restarted(g), i) = Ignored(g, i)
  <1>1. ASSUME NEW i \in Issues
        PROVE  /\ Restarted(g)[i] \in Filings(i) \cup {None}
               /\ ~Standing(Restarted(g), i)
               /\ Filed(Restarted(g), i) <=> Filed(g, i)
               /\ Ignored(Restarted(g), i) = Ignored(g, i)
    <2>1. CASE g[i] = None
      BY <2>1 DEF Restarted, Filed, Standing, Ignored
    <2>2. CASE g[i] # None
      <3> DEFINE filed == [g[i] EXCEPT !.active = FALSE]
      <3>1. g[i] \in Filings(i)
        BY <2>2 DEF RegistryTyped
      <3>2. filed \in Filings(i) /\ ~filed.active /\ filed.ignored = g[i].ignored
        BY <3>1 DEF Filings
      <3>3. Restarted(g)[i] = filed
        BY <2>2 DEF Restarted, Filed
      <3> HIDE DEF filed
      <3>4. filed # None
        BY <3>2, NoneAssumption
      <3>5. QED
        BY <2>2, <3>2, <3>3, <3>4 DEF Filed, Standing, Ignored
    <2>3. QED
      BY <2>1, <2>2
  <1>2. Restarted(g) = [i \in Issues |-> Restarted(g)[i]]
    BY DEF Restarted
  <1>3. QED
    BY <1>1, <1>2 DEF RegistryTyped

-----------------------------------------------------------------------------
(* The proposal: the nearest candidate exists, so it is a free candidate.  *)

LEMMA LeastElement ==
  ASSUME NEW S, S \subseteq Nat, S # {}
  PROVE  \E n \in S : \A m \in S : n =< m
  <1> DEFINE less == {p \in Nat \X Nat : p[1] < p[2]}
  <1>1. IsWellFoundedOn(less, Nat)
    BY NatLessThanWellFounded DEF OpToRel
  <1> HIDE DEF less
  <1>2. PICK n \in S : \A m \in S : <<m, n>> \notin less
    BY <1>1, WFMin
  <1>3. \A m \in S : ~(m < n)
    BY <1>2 DEF less
  <1>4. QED
    BY <1>2, <1>3

LEMMA DistanceTyped ==
  ASSUME NEW a \in Hours, NEW b \in Hours
  PROVE  HourDistance(a, b) \in Nat
  <1> DEFINE gap == IF a < b THEN b - a ELSE a - b
  <1>1. gap \in Nat /\ DayHours - gap \in Nat
    BY WatcherAssumption DEF Hours
  <1> HIDE DEF gap
  <1>2. \E x \in {gap, DayHours - gap} : \A y \in {gap, DayHours - gap} : x =< y
    BY <1>1
  <1>3. Min({gap, DayHours - gap}) \in {gap, DayHours - gap}
    BY <1>2 DEF Min
  <1>4. HourDistance(a, b) = Min({gap, DayHours - gap})
    BY DEF HourDistance, gap
  <1>5. QED
    BY <1>1, <1>3, <1>4

\* best is what the source's order of candidates puts first.
First(best, free, near) ==
  \A other \in free : \/ near[best] < near[other]
                      \/ near[best] = near[other] /\ best =< other

LEMMA FirstExists ==
  ASSUME NEW free, free \subseteq Nat, free # {}, NEW near \in [free -> Nat]
  PROVE  \E best \in free : First(best, free, near)
  <1> DEFINE distances == {near[h] : h \in free}
  <1>1. distances \subseteq Nat /\ distances # {}
    OBVIOUS
  <1>2. PICK d \in distances : \A e \in distances : d =< e
    <2> HIDE DEF distances
    <2>1. QED
      BY <1>1, LeastElement
  <1> DEFINE nearest == {h \in free : near[h] = d}
  <1>3. nearest \subseteq Nat /\ nearest # {}
    BY <1>2
  <1>4. PICK best \in nearest : \A h \in nearest : best =< h
    <2> HIDE DEF nearest
    <2>1. QED
      BY <1>3, LeastElement
  <1>5. ASSUME NEW other \in free
        PROVE  near[best] < near[other] \/ (near[best] = near[other] /\ best =< other)
    <2>1. near[other] \in Nat /\ d \in Nat /\ near[best] = d
      BY <1>1, <1>2, <1>4
    <2>2. d =< near[other]
      BY <1>2
    <2>3. near[other] = d => best =< other
      BY <1>4
    <2>4. QED
      BY <2>1, <2>2, <2>3
  <1>6. QED
    BY <1>4, <1>5 DEF First

\* The hour proposed is a candidate no weekday of the grid uses, and none such is
\* nearer to the hour the device regenerates in (_proposed_quiet_hour).
THEOREM ProposalIsFree ==
  ASSUME NEW r \in Results, NEW hour \in Hours, QuietHours(r) # {}
  PROVE  /\ ProposedQuietHour(r, hour) \in CandidateHours \ r.busy
         /\ \A other \in QuietHours(r) :
              HourDistance(ProposedQuietHour(r, hour), hour) =< HourDistance(other, hour)
  <1> DEFINE free == QuietHours(r)
             near == [h \in free |-> HourDistance(h, hour)]
             proposed == ProposedQuietHour(r, hour)
  <1>1. CandidateHours \subseteq Hours /\ Hours \subseteq Nat
    BY WatcherAssumption DEF Hours
  <1>2. free \subseteq Hours /\ free \subseteq Nat
    BY <1>1 DEF QuietHours
  <1>3. near \in [free -> Nat]
    BY <1>2, DistanceTyped
  <1>4. PICK best \in free : First(best, free, near)
    <2> HIDE DEF free, near
    <2>1. free # {}
      BY DEF free
    <2>2. QED
      BY <1>2, <1>3, <2>1, FirstExists
  <1>5. \A b \in free : First(b, free, near) <=>
          \A other \in free :
            \/ HourDistance(b, hour) < HourDistance(other, hour)
            \/ HourDistance(b, hour) = HourDistance(other, hour) /\ b =< other
    BY DEF First
  <1>6. proposed = CHOOSE b \in free :
          \A other \in free :
            \/ HourDistance(b, hour) < HourDistance(other, hour)
            \/ HourDistance(b, hour) = HourDistance(other, hour) /\ b =< other
    BY DEF ProposedQuietHour
  <1> HIDE DEF free, near, proposed
  <1>7. /\ proposed \in free
        /\ \A other \in free :
             \/ HourDistance(proposed, hour) < HourDistance(other, hour)
             \/ HourDistance(proposed, hour) = HourDistance(other, hour) /\ proposed =< other
    BY <1>4, <1>5, <1>6
  <1>8. \A h \in free : HourDistance(h, hour) \in Nat
    BY <1>2, DistanceTyped
  <1>9. \A other \in free : HourDistance(proposed, hour) =< HourDistance(other, hour)
    BY <1>7, <1>8
  <1>10. QED
    BY <1>7, <1>9 DEF proposed, free, QuietHours

-----------------------------------------------------------------------------
(* The watchers.  Each writes the registry entry and the memory of its own *)
(* issue.                                                                  *)

\* v differs from w in what is filed and remembered of issue i at most.
Elsewhere(w, v, i) ==
  /\ \A j \in Issues \ {i} : v.registry[j] = w.registry[j]
  /\ i # "salt" => v.memory.salt = w.memory.salt
  /\ i # "urgent" => v.memory.urgent = w.memory.urgent
  /\ i # "away" => v.memory.away = w.memory.away
  /\ i # "defer" => v.memory.defer = w.memory.defer
  /\ i # "quiet" => v.memory.quiet = w.memory.quiet

\* An ignored issue speaks again.
Spoken(g, h, i) == Ignored(g, i) /\ ~Ignored(h, i)

SaltWritten(w, g, m) ==
  [registry |-> g, memory |-> [w.memory EXCEPT !.salt = m], told |-> w.told]

LEMMA SaltUpdate ==
  ASSUME NEW w, WatchTyped(w), NEW g, RegistryTyped(g),
         NEW m \in [tier : {"none", "warning", "critical"}, days : Nat \cup {None}]
  PROVE  /\ WatchTyped(SaltWritten(w, g, m))
         /\ SaltWritten(w, g, m).registry = g
         /\ SaltWritten(w, g, m).memory.salt = m
         /\ SaltWritten(w, g, m).told = w.told
         /\ SaltWritten(w, g, m).memory.urgent = w.memory.urgent
         /\ SaltWritten(w, g, m).memory.away = w.memory.away
         /\ SaltWritten(w, g, m).memory.defer = w.memory.defer
         /\ SaltWritten(w, g, m).memory.quiet = w.memory.quiet
  <1>1. w.memory \in Memories /\ w.told \in Nat
    BY DEF WatchTyped
  <1>2. [w.memory EXCEPT !.salt = m] \in Memories
    BY <1>1 DEF Memories
  <1>3. QED
    BY <1>1, <1>2 DEF WatchTyped, SaltWritten, Memories

Counts == Nat \cup {None}

UrgentWritten(w, g, m) ==
  [registry |-> g, memory |-> [w.memory EXCEPT !.urgent = m], told |-> w.told]

LEMMA UrgentUpdate ==
  ASSUME NEW w, WatchTyped(w), NEW g, RegistryTyped(g),
         NEW m \in Counts
  PROVE  /\ WatchTyped(UrgentWritten(w, g, m))
         /\ UrgentWritten(w, g, m).registry = g
         /\ UrgentWritten(w, g, m).memory.urgent = m
         /\ UrgentWritten(w, g, m).told = w.told
         /\ UrgentWritten(w, g, m).memory.salt = w.memory.salt
         /\ UrgentWritten(w, g, m).memory.away = w.memory.away
         /\ UrgentWritten(w, g, m).memory.defer = w.memory.defer
         /\ UrgentWritten(w, g, m).memory.quiet = w.memory.quiet
  <1>1. w.memory \in Memories /\ w.told \in Nat
    BY DEF WatchTyped
  <1>2. [w.memory EXCEPT !.urgent = m] \in Memories
    BY <1>1 DEF Memories, Counts
  <1>3. QED
    BY <1>1, <1>2 DEF WatchTyped, UrgentWritten, Memories

AwayWritten(w, g, m, t) ==
  [registry |-> g, memory |-> [w.memory EXCEPT !.away = m], told |-> t]

LEMMA AwayUpdate ==
  ASSUME NEW w, WatchTyped(w), NEW g, RegistryTyped(g), NEW t \in Nat,
         NEW m \in [reported : About("away") \cup {None}, announced : BOOLEAN]
  PROVE  /\ WatchTyped(AwayWritten(w, g, m, t))
         /\ AwayWritten(w, g, m, t).registry = g
         /\ AwayWritten(w, g, m, t).memory.away = m
         /\ AwayWritten(w, g, m, t).told = t
         /\ AwayWritten(w, g, m, t).memory.salt = w.memory.salt
         /\ AwayWritten(w, g, m, t).memory.urgent = w.memory.urgent
         /\ AwayWritten(w, g, m, t).memory.defer = w.memory.defer
         /\ AwayWritten(w, g, m, t).memory.quiet = w.memory.quiet
  <1>1. w.memory \in Memories /\ w.told \in Nat
    BY DEF WatchTyped
  <1>2. [w.memory EXCEPT !.away = m] \in Memories
    BY <1>1 DEF Memories
  <1>3. QED
    BY <1>1, <1>2 DEF WatchTyped, AwayWritten, Memories

DeferWritten(w, g, m) ==
  [registry |-> g, memory |-> [w.memory EXCEPT !.defer = m], told |-> w.told]

LEMMA DeferUpdate ==
  ASSUME NEW w, WatchTyped(w), NEW g, RegistryTyped(g),
         NEW m \in Counts
  PROVE  /\ WatchTyped(DeferWritten(w, g, m))
         /\ DeferWritten(w, g, m).registry = g
         /\ DeferWritten(w, g, m).memory.defer = m
         /\ DeferWritten(w, g, m).told = w.told
         /\ DeferWritten(w, g, m).memory.salt = w.memory.salt
         /\ DeferWritten(w, g, m).memory.urgent = w.memory.urgent
         /\ DeferWritten(w, g, m).memory.away = w.memory.away
         /\ DeferWritten(w, g, m).memory.quiet = w.memory.quiet
  <1>1. w.memory \in Memories /\ w.told \in Nat
    BY DEF WatchTyped
  <1>2. [w.memory EXCEPT !.defer = m] \in Memories
    BY <1>1 DEF Memories, Counts
  <1>3. QED
    BY <1>1, <1>2 DEF WatchTyped, DeferWritten, Memories

QuietWritten(w, g, m) ==
  [registry |-> g, memory |-> [w.memory EXCEPT !.quiet = m], told |-> w.told]

LEMMA QuietUpdate ==
  ASSUME NEW w, WatchTyped(w), NEW g, RegistryTyped(g),
         NEW m \in About("quiet") \cup {None}
  PROVE  /\ WatchTyped(QuietWritten(w, g, m))
         /\ QuietWritten(w, g, m).registry = g
         /\ QuietWritten(w, g, m).memory.quiet = m
         /\ QuietWritten(w, g, m).told = w.told
         /\ QuietWritten(w, g, m).memory.salt = w.memory.salt
         /\ QuietWritten(w, g, m).memory.urgent = w.memory.urgent
         /\ QuietWritten(w, g, m).memory.away = w.memory.away
         /\ QuietWritten(w, g, m).memory.defer = w.memory.defer
  <1>1. w.memory \in Memories /\ w.told \in Nat
    BY DEF WatchTyped
  <1>2. [w.memory EXCEPT !.quiet = m] \in Memories
    BY <1>1 DEF Memories
  <1>3. QED
    BY <1>1, <1>2 DEF WatchTyped, QuietWritten, Memories

LEMMA TierTyped ==
  ASSUME NEW tier \in {"none", "warning", "critical"}, NEW d \in Nat \cup {None}
  PROVE  /\ NextTier(tier, d) \in {"none", "warning", "critical"}
         /\ NextTier(tier, d) # "none" => d \in Nat
         /\ NextTier(tier, d) = "warning" => d > CriticalDays
         /\ NextTier(tier, d) = "none" => d = None \/ d > WarningDays
         /\ NextTier(tier, d) = "critical" /\ tier # "critical" => d =< CriticalDays
         /\ d # None /\ d =< CriticalDays => NextTier(tier, d) = "critical"
         /\ d # None /\ d > CriticalDays + Hysteresis /\ d =< WarningDays
              => NextTier(tier, d) = "warning"
  BY WatcherAssumption, NoneAssumption DEF NextTier

LEMMA SaltEffect ==
  ASSUME NEW w, WatchTyped(w), NEW d \in Nat \cup {None}, NEW v, v = WatchSalt(w, d)
  PROVE  /\ WatchTyped(v)
         /\ Elsewhere(w, v, "salt")
         /\ v.told = w.told
         /\ v.memory.salt.tier = NextTier(w.memory.salt.tier, d)
         /\ Spoken(w.registry, v.registry, "salt")
              => \/ NextTier(w.memory.salt.tier, d) = "none"
                 \/ Escalates(w.memory.salt.tier, NextTier(w.memory.salt.tier, d))
         /\ Escalates(w.memory.salt.tier, NextTier(w.memory.salt.tier, d))
              => Standing(v.registry, "salt") /\ ~Ignored(v.registry, "salt")
  <1> DEFINE tier == w.memory.salt.tier
             new == NextTier(tier, d)
             seen == [tier |-> new, days |-> d]
             base == IF Escalates(tier, new) THEN Delete(w.registry, "salt") ELSE w.registry
             gone == Delete(w.registry, "salt")
             filed == Create(base, "salt", seen)
  <1>1. /\ RegistryTyped(w.registry) /\ "salt" \in Issues
        /\ tier \in {"none", "warning", "critical"}
    BY IssueAssumption DEF WatchTyped, Memories
  <1>2. new \in {"none", "warning", "critical"} /\ (new # "none" => d \in Nat)
    BY <1>1, TierTyped
  <1>3. RegistryTyped(gone) /\ gone["salt"] = None
        /\ \A j \in Issues \ {"salt"} : gone[j] = w.registry[j]
    BY <1>1, DeleteEffect
  <1>4. CASE new = "none"
    <2>1. v = SaltWritten(w, gone, NoMemory.salt)
      BY <1>4 DEF WatchSalt, SaltWritten, WatchTyped
    <2>2. /\ NoMemory.salt \in [tier : {"none", "warning", "critical"}, days : Nat \cup {None}]
          /\ NoMemory.salt.tier = "none"
      BY DEF NoMemory
    <2>3. ~Escalates(tier, new)
      BY <1>4 DEF Escalates
    <2> HIDE DEF gone
    <2>4. QED
      BY <1>3, <1>4, <2>1, <2>2, <2>3, SaltUpdate DEF Elsewhere
  <1>5. CASE new # "none" /\ w.memory.salt = seen
    <2>1. v = w
      BY <1>5 DEF WatchSalt
    <2>2. tier = new
      BY <1>5
    <2>3. ~Escalates(tier, new)
      BY <2>2 DEF Escalates
    <2>4. QED
      BY <2>1, <2>2, <2>3 DEF Elsewhere, Spoken
  <1>6. CASE new # "none" /\ w.memory.salt # seen
    <2>1. v = SaltWritten(w, filed, seen)
      BY <1>6 DEF WatchSalt, SaltWritten, WatchTyped
    <2>2. RegistryTyped(base) /\ \A j \in Issues \ {"salt"} : base[j] = w.registry[j]
      BY <1>1, <1>3
    <2>3. seen \in About("salt") /\ seen.tier = new
          /\ seen \in [tier : {"none", "warning", "critical"}, days : Nat \cup {None}]
      BY <1>2, <1>6 DEF About
    <2>4. Ignored(base, "salt") = (~Escalates(tier, new) /\ Ignored(w.registry, "salt"))
      BY <1>3 DEF Ignored, Filed
    <2> HIDE DEF base, seen
    <2>5. /\ RegistryTyped(filed) /\ filed["salt"] \in Filings("salt") /\ filed["salt"].active
          /\ filed["salt"].ignored = Ignored(base, "salt")
          /\ \A j \in Issues \ {"salt"} : filed[j] = w.registry[j]
      BY <1>1, <2>2, <2>3, CreateEffect
    <2>6. /\ Standing(filed, "salt")
          /\ Ignored(filed, "salt") = Ignored(base, "salt")
      BY <1>1, <2>5, NoneAssumption DEF Standing, Ignored, Filed
    <2> HIDE DEF filed
    <2>7. /\ WatchTyped(v) /\ v.registry = filed /\ v.told = w.told
          /\ v.memory.salt.tier = new /\ Elsewhere(w, v, "salt")
      BY <2>1, <2>3, <2>5, SaltUpdate DEF Elsewhere
    <2>8. QED
      BY <2>4, <2>6, <2>7 DEF Spoken
  <1>7. QED
    BY <1>4, <1>5, <1>6

\* What ends the urgent issue, and the suggestion to defer.
UrgentOver(r, f) == LeakKnown(r) /\ (r.leak = FALSE \/ Away(r, f))
DeferOver(r, f) == f.auto \/ f.deferral \/ (r # None /\ r.vacation = FALSE)

LEMMA UrgentEffect ==
  ASSUME NEW w, WatchTyped(w), NEW r \in Results \cup {None}, NEW f \in Flags,
         NEW v, v = WatchUrgentLeak(w, r, f)
  PROVE  /\ WatchTyped(v)
         /\ Elsewhere(w, v, "urgent")
         /\ v.told = w.told
         /\ Spoken(w.registry, v.registry, "urgent") => UrgentOver(r, f)
         /\ LeakKnown(r) /\ Away(r, f) => ~Standing(v.registry, "urgent")
         /\ ~LeakKnown(r) => v = w
  <1> DEFINE gone == Delete(w.registry, "urgent")
             filed == Create(w.registry, "urgent", r.litres)
  <1>1. RegistryTyped(w.registry) /\ "urgent" \in Issues
    BY IssueAssumption DEF WatchTyped
  <1>2. CASE v = w /\ ~(LeakKnown(r) /\ Away(r, f))
    BY <1>2 DEF Elsewhere, Spoken
  <1>3. CASE /\ LeakKnown(r) /\ ~Away(r, f)
             /\ v = UrgentWritten(w, filed, r.litres)
    <2>1. r.litres \in Counts /\ r.litres \in About("urgent")
      BY <1>3 DEF LeakKnown, Results, About, Counts
    <2>2. /\ RegistryTyped(filed) /\ filed["urgent"] \in Filings("urgent")
          /\ filed["urgent"].ignored = Ignored(w.registry, "urgent")
          /\ \A j \in Issues \ {"urgent"} : filed[j] = w.registry[j]
      BY <1>1, <2>1, CreateEffect
    <2>3. Ignored(filed, "urgent") = Ignored(w.registry, "urgent")
      BY <1>1, <2>2, NoneAssumption DEF Ignored, Filed
    <2> HIDE DEF filed
    <2>4. QED
      BY <1>3, <2>1, <2>2, <2>3, UrgentUpdate DEF Elsewhere, Spoken
  <1>4. CASE /\ UrgentOver(r, f)
             /\ v = UrgentWritten(w, gone, None)
    <2>1. /\ RegistryTyped(gone) /\ gone["urgent"] = None
          /\ \A j \in Issues \ {"urgent"} : gone[j] = w.registry[j]
      BY <1>1, DeleteEffect
    <2> HIDE DEF gone
    <2>2. v = UrgentWritten(w, gone, None) /\ None \in Counts
      BY <1>4 DEF Counts
    <2>3. /\ WatchTyped(v) /\ v.registry = gone /\ v.told = w.told
          /\ v.memory.salt = w.memory.salt /\ v.memory.defer = w.memory.defer
          /\ v.memory.away = w.memory.away /\ v.memory.quiet = w.memory.quiet
      BY <2>1, <2>2, UrgentUpdate
    <2>4. ~Standing(v.registry, "urgent")
      BY <2>1, <2>3 DEF Standing, Filed
    <2>5. Elsewhere(w, v, "urgent")
      BY <2>1, <2>3 DEF Elsewhere
    <2>6. QED
      BY <1>4, <2>3, <2>4, <2>5 DEF UrgentOver
  <1>5. QED
    BY <1>2, <1>3, <1>4 DEF WatchUrgentLeak, UrgentLeak, UrgentOver, UrgentWritten, WatchTyped

LEMMA DeferEffect ==
  ASSUME NEW w, WatchTyped(w), NEW r \in Results \cup {None}, NEW f \in Flags,
         NEW v, v = WatchVacationDefer(w, r, f)
  PROVE  /\ WatchTyped(v)
         /\ Elsewhere(w, v, "defer")
         /\ v.told = w.told
         /\ Spoken(w.registry, v.registry, "defer") => DeferOver(r, f)
  <1> DEFINE gone == Delete(w.registry, "defer")
             filed == Create(w.registry, "defer", r.days)
  <1>1. RegistryTyped(w.registry) /\ "defer" \in Issues
    BY IssueAssumption DEF WatchTyped
  <1>2. CASE v = w
    BY <1>2 DEF Elsewhere, Spoken
  <1>3. CASE /\ r # None
             /\ v = DeferWritten(w, filed, r.days)
    <2>1. r.days \in Counts /\ r.days \in About("defer")
      BY <1>3 DEF Results, About, Counts
    <2>2. /\ RegistryTyped(filed) /\ filed["defer"] \in Filings("defer")
          /\ filed["defer"].ignored = Ignored(w.registry, "defer")
          /\ \A j \in Issues \ {"defer"} : filed[j] = w.registry[j]
      BY <1>1, <2>1, CreateEffect
    <2>3. Ignored(filed, "defer") = Ignored(w.registry, "defer")
      BY <1>1, <2>2, NoneAssumption DEF Ignored, Filed
    <2> HIDE DEF filed
    <2>4. QED
      BY <1>3, <2>1, <2>2, <2>3, DeferUpdate DEF Elsewhere, Spoken
  <1>4. CASE /\ DeferOver(r, f)
             /\ v = DeferWritten(w, gone, None)
    <2>1. RegistryTyped(gone) /\ \A j \in Issues \ {"defer"} : gone[j] = w.registry[j]
      BY <1>1, DeleteEffect
    <2> HIDE DEF gone
    <2>2. v = DeferWritten(w, gone, None) /\ None \in Counts
      BY <1>4 DEF Counts
    <2>3. /\ WatchTyped(v) /\ v.registry = gone /\ v.told = w.told
          /\ v.memory.salt = w.memory.salt /\ v.memory.urgent = w.memory.urgent
          /\ v.memory.away = w.memory.away /\ v.memory.quiet = w.memory.quiet
      BY <2>1, <2>2, DeferUpdate
    <2>4. QED
      BY <1>4, <2>1, <2>3 DEF Elsewhere
  <1>5. QED
    BY <1>2, <1>3, <1>4 DEF WatchVacationDefer, DeferOver, DeferWritten, WatchTyped

\* What the leak-while-away watcher has reported is filed.
AwayHeld(w) == w.memory.away.reported # None => Standing(w.registry, "away")

\* The leak is known, runs, and nobody is home.
RunsUnseen(r, f) == LeakKnown(r) /\ r.leak # FALSE /\ Away(r, f)

\* The leak is over, or somebody is home.
LeakSettled(r, f) == LeakKnown(r) /\ (r.leak = FALSE \/ ~Away(r, f))

LEMMA AwayEffect ==
  ASSUME NEW w, WatchTyped(w), NEW r \in Results \cup {None}, NEW f \in Flags,
         NEW v, v = WatchLeakAway(w, r, f)
  PROVE  /\ WatchTyped(v)
         /\ Elsewhere(w, v, "away")
         /\ AwayHeld(w) => AwayHeld(v)
         /\ Spoken(w.registry, v.registry, "away") => LeakSettled(r, f)
         /\ RunsUnseen(r, f) => /\ v.memory.away.announced
                                /\ v.memory.away.reported # None
                                /\ v.told = IF w.memory.away.announced THEN w.told ELSE w.told + 1
         /\ LeakSettled(r, f) => ~v.memory.away.announced /\ ~Standing(v.registry, "away")
         /\ ~LeakKnown(r) => v = w
  <1> DEFINE gone == Delete(w.registry, "away")
             reported == <<r.litres, IF r.tier = None THEN "info" ELSE r.tier>>
             seen == Rendered(w.memory.away, reported)
             filed == IF reported = w.memory.away.reported THEN w.registry
                      ELSE Create(w.registry, "away", reported)
             remembered == [seen EXCEPT !.announced = TRUE]
             told == IF seen.announced THEN w.told ELSE w.told + 1
  <1>1. /\ RegistryTyped(w.registry) /\ "away" \in Issues /\ w.told \in Nat
        /\ w.memory.away \in [reported : About("away") \cup {None}, announced : BOOLEAN]
    BY IssueAssumption DEF WatchTyped, Memories
  <1>2. CASE ~LeakKnown(r)
    <2>1. v = w
      BY <1>2 DEF WatchLeakAway
    <2>2. QED
      BY <1>2, <2>1 DEF Elsewhere, Spoken, RunsUnseen, LeakSettled
  <1>3. CASE LeakSettled(r, f)
    <2>1. v = AwayWritten(w, gone, NoMemory.away, w.told)
      BY <1>3 DEF LeakSettled, WatchLeakAway, AwayWritten, WatchTyped
    <2>2. /\ RegistryTyped(gone) /\ gone["away"] = None
          /\ \A j \in Issues \ {"away"} : gone[j] = w.registry[j]
      BY <1>1, DeleteEffect
    <2>3. /\ NoMemory.away \in [reported : About("away") \cup {None}, announced : BOOLEAN]
          /\ NoMemory.away.reported = None /\ ~NoMemory.away.announced
      BY DEF NoMemory
    <2> HIDE DEF gone
    <2>4. /\ WatchTyped(v) /\ v.registry = gone /\ v.memory.away = NoMemory.away
          /\ Elsewhere(w, v, "away")
      BY <1>1, <2>1, <2>2, <2>3, AwayUpdate DEF Elsewhere
    <2>5. QED
      BY <1>3, <2>2, <2>3, <2>4 DEF AwayHeld, LeakSettled, RunsUnseen, Standing, Filed
  <1>4. CASE RunsUnseen(r, f)
    <2>1. v = AwayWritten(w, filed, remembered, told)
      BY <1>4 DEF RunsUnseen, WatchLeakAway, AwayWritten, WatchTyped
    <2>2. /\ reported \in About("away") /\ reported # None
      BY <1>4, <1>1, NoneAssumption DEF RunsUnseen, LeakKnown, Results, LeakTiers, About
    <2> HIDE DEF reported
    <2>3. /\ seen.announced = w.memory.away.announced
          /\ remembered \in [reported : About("away") \cup {None}, announced : BOOLEAN]
          /\ remembered.reported = reported /\ remembered.announced
      BY <1>1, <2>2 DEF Rendered
    <2> HIDE DEF seen
    <2>4. told \in Nat /\ told = IF w.memory.away.announced THEN w.told ELSE w.told + 1
      BY <1>1, <2>3
    <2>5. /\ RegistryTyped(filed)
          /\ AwayHeld(w) => Standing(filed, "away")
          /\ Ignored(filed, "away") = Ignored(w.registry, "away")
          /\ \A j \in Issues \ {"away"} : filed[j] = w.registry[j]
      <3>1. CASE reported = w.memory.away.reported
        BY <1>1, <2>2, <3>1 DEF AwayHeld
      <3>2. CASE reported # w.memory.away.reported
        <4> DEFINE created == Create(w.registry, "away", reported)
        <4>1. filed = created
          BY <3>2
        <4>2. /\ RegistryTyped(created) /\ created["away"] \in Filings("away")
              /\ created["away"].active
              /\ created["away"].ignored = Ignored(w.registry, "away")
              /\ \A j \in Issues \ {"away"} : created[j] = w.registry[j]
          BY <1>1, <2>2, CreateEffect
        <4> HIDE DEF created
        <4>3. QED
          BY <1>1, <4>1, <4>2, NoneAssumption DEF Standing, Ignored, Filed
      <3>3. QED
        BY <3>1, <3>2
    <2> HIDE DEF filed, remembered, told
    <2>6. /\ WatchTyped(v) /\ v.registry = filed /\ v.memory.away = remembered
          /\ v.told = told /\ Elsewhere(w, v, "away")
      BY <2>1, <2>3, <2>4, <2>5, AwayUpdate DEF Elsewhere
    <2>7. ~LeakSettled(r, f) /\ LeakKnown(r)
      BY <1>4 DEF RunsUnseen, LeakSettled
    <2>8. QED
      BY <1>4, <2>2, <2>3, <2>4, <2>5, <2>6, <2>7 DEF AwayHeld, Spoken
  <1>5. QED
    BY <1>2, <1>3, <1>4 DEF LeakSettled, RunsUnseen

\* A proposal this load filed and that still stands is the one it remembers.
QuietHeld(w) ==
  w.memory.quiet # None /\ Standing(w.registry, "quiet")
    => w.registry["quiet"].about = w.memory.quiet

\* AdviceIsCurrent of a registry, a result, flags and a document's hour.
Advised(g, r, f, hour) ==
  Standing(g, "quiet") /\ r # None /\ hour # None
    => \/ r.busy = None
       \/ /\ f.smart /\ hour \in r.busy
          /\ g["quiet"].about = <<hour, ProposedQuietHour(r, hour)>>

LEMMA QuietEffect ==
  ASSUME NEW w, WatchTyped(w), NEW r \in Results \cup {None}, NEW f \in Flags,
         NEW hour \in Hours \cup {None}, NEW v, v = WatchRegenTime(w, r, f, hour)
  PROVE  /\ WatchTyped(v)
         /\ Elsewhere(w, v, "quiet")
         /\ v.told = w.told
         /\ QuietHeld(w) => QuietHeld(v) /\ Advised(v.registry, r, f, hour)
  <1> DEFINE gone == Delete(w.registry, "quiet")
             proposal == <<hour, ProposedQuietHour(r, hour)>>
             filed == Create(gone, "quiet", proposal)
             judged == f.smart /\ r # None /\ hour # None /\ r.busy # None
             clear == ~f.smart \/ (judged /\ (hour \notin r.busy \/ QuietHours(r) = {}))
  <1>1. RegistryTyped(w.registry) /\ "quiet" \in Issues
    BY IssueAssumption DEF WatchTyped
  <1>2. /\ RegistryTyped(gone) /\ gone["quiet"] = None
        /\ \A j \in Issues \ {"quiet"} : gone[j] = w.registry[j]
    BY <1>1, DeleteEffect
  <1>3. CASE clear
    <2>1. v = QuietWritten(w, gone, None)
      BY <1>3 DEF WatchRegenTime, ClearQuiet, QuietWritten, WatchTyped
    <2> HIDE DEF gone
    <2>2. /\ WatchTyped(v) /\ v.registry = gone /\ v.told = w.told
          /\ v.memory.quiet = None /\ Elsewhere(w, v, "quiet")
      BY <1>2, <2>1, QuietUpdate DEF Elsewhere
    <2>3. ~Standing(v.registry, "quiet")
      BY <1>2, <2>2 DEF Standing, Filed
    <2>4. QED
      BY <2>2, <2>3 DEF QuietHeld, Advised
  <1>4. CASE f.smart /\ ~judged
    <2>1. v = w
      BY <1>4 DEF WatchRegenTime
    <2>2. QED
      BY <1>4, <2>1 DEF Elsewhere, Advised
  <1>5. CASE judged /\ hour \in r.busy /\ QuietHours(r) # {}
    <2>1. r \in Results /\ hour \in Hours
      BY <1>5
    <2>2. ProposedQuietHour(r, hour) \in Hours
      <3>1. CandidateHours \subseteq Hours
        BY WatcherAssumption DEF Hours
      <3>2. QED
        BY <1>5, <2>1, <3>1, ProposalIsFree
    <2>3. proposal \in About("quiet")
      BY <2>1, <2>2 DEF About
    <2>4. proposal # None
      BY <1>1, <2>3, NoneAssumption
    <2>5. v = IF w.memory.quiet = proposal THEN w ELSE QuietWritten(w, filed, proposal)
      <3>1. v = IF w.memory.quiet = proposal THEN w
                ELSE [w EXCEPT !.registry = filed, !.memory.quiet = proposal]
        BY <1>5 DEF WatchRegenTime
      <3> HIDE DEF filed, proposal
      <3>2. QED
        BY <3>1 DEF QuietWritten, WatchTyped
    <2>6. \A g : Standing(g, "quiet") /\ g["quiet"].about = proposal => Advised(g, r, f, hour)
      BY <1>5 DEF Advised
    <2> HIDE DEF gone, proposal
    <2>7. CASE w.memory.quiet = proposal
      <3>1. v = w
        BY <2>5, <2>7
      <3>2. ~Standing(w.registry, "quiet") => Advised(w.registry, r, f, hour)
        BY DEF Advised
      <3>3. QED
        BY <2>4, <2>6, <2>7, <3>1, <3>2 DEF Elsewhere, QuietHeld
    <2>8. CASE w.memory.quiet # proposal
      <3>1. /\ RegistryTyped(filed) /\ filed["quiet"] \in Filings("quiet")
            /\ filed["quiet"].active /\ filed["quiet"].about = proposal
            /\ \A j \in Issues \ {"quiet"} : filed[j] = gone[j]
        BY <1>1, <1>2, <2>3, CreateEffect
      <3>2. Standing(filed, "quiet")
        BY <1>1, <3>1, NoneAssumption DEF Standing, Filed
      <3>3. v = QuietWritten(w, filed, proposal)
        BY <2>5, <2>8
      <3> HIDE DEF filed
      <3>4. /\ WatchTyped(v) /\ v.registry = filed /\ v.told = w.told
            /\ v.memory.quiet = proposal /\ Elsewhere(w, v, "quiet")
        BY <1>2, <2>3, <3>1, <3>3, QuietUpdate DEF Elsewhere
      <3>5. QED
        BY <2>6, <3>1, <3>2, <3>4 DEF QuietHeld
    <2>9. QED
      BY <2>7, <2>8
  <1>6. QED
    BY <1>3, <1>4, <1>5

-----------------------------------------------------------------------------
(* The notifications: what the watchers do together.                       *)

\* The event has been fired exactly for what the watcher calls announced.
Told(w) == w.told = IF w.memory.away.announced THEN 1 ELSE 0

SaidOnce(g) == ~(Standing(g, "urgent") /\ Standing(g, "away"))

\* What the watchers agree on, whoever notified them last.
Held(w) == Told(w) /\ AwayHeld(w) /\ QuietHeld(w) /\ SaidOnce(w.registry)

\* No ignored issue speaks again without the reason the source gives.
KeepsIgnores(g, h, r, f) ==
  /\ Spoken(g, h, "urgent") => UrgentOver(r, f)
  /\ Spoken(g, h, "away") => LeakSettled(r, f)
  /\ Spoken(g, h, "defer") => DeferOver(r, f)

LEMMA EngineEffect ==
  ASSUME NEW w, WatchTyped(w), NEW r \in Results \cup {None}, NEW f \in Flags,
         NEW hour \in Hours \cup {None}, NEW v, v = EngineNotifies(w, r, f, hour)
  PROVE  /\ WatchTyped(v)
         /\ v.registry["salt"] = w.registry["salt"] /\ v.memory.salt = w.memory.salt
         /\ KeepsIgnores(w.registry, v.registry, r, f)
         /\ AwayHeld(w) => AwayHeld(v)
         /\ SaidOnce(w.registry) => SaidOnce(v.registry)
         /\ RunsUnseen(r, f) => /\ v.memory.away.announced
                                /\ v.memory.away.reported # None
                                /\ v.told = IF w.memory.away.announced THEN w.told ELSE w.told + 1
         /\ LeakSettled(r, f) => ~v.memory.away.announced
         /\ ~LeakKnown(r) => v.memory.away = w.memory.away /\ v.told = w.told
         /\ QuietHeld(w) => QuietHeld(v) /\ Advised(v.registry, r, f, hour)
  <1> DEFINE w1 == WatchUrgentLeak(w, r, f)
             w2 == WatchLeakAway(w1, r, f)
             w3 == WatchVacationDefer(w2, r, f)
  <1>1. /\ w1 = WatchUrgentLeak(w, r, f) /\ w2 = WatchLeakAway(w1, r, f)
        /\ w3 = WatchVacationDefer(w2, r, f) /\ v = WatchRegenTime(w3, r, f, hour)
    BY DEF EngineNotifies
  <1> HIDE DEF w1, w2, w3
  <1>2. /\ WatchTyped(w1) /\ Elsewhere(w, w1, "urgent") /\ w1.told = w.told
        /\ Spoken(w.registry, w1.registry, "urgent") => UrgentOver(r, f)
        /\ LeakKnown(r) /\ Away(r, f) => ~Standing(w1.registry, "urgent")
        /\ ~LeakKnown(r) => w1 = w
    BY <1>1, UrgentEffect
  <1>3. /\ WatchTyped(w2) /\ Elsewhere(w1, w2, "away")
        /\ AwayHeld(w1) => AwayHeld(w2)
        /\ Spoken(w1.registry, w2.registry, "away") => LeakSettled(r, f)
        /\ RunsUnseen(r, f) => /\ w2.memory.away.announced
                               /\ w2.memory.away.reported # None
                               /\ w2.told = IF w1.memory.away.announced THEN w1.told ELSE w1.told + 1
        /\ LeakSettled(r, f) => ~w2.memory.away.announced /\ ~Standing(w2.registry, "away")
        /\ ~LeakKnown(r) => w2 = w1
    BY <1>1, <1>2, AwayEffect
  <1>4. /\ WatchTyped(w3) /\ Elsewhere(w2, w3, "defer") /\ w3.told = w2.told
        /\ Spoken(w2.registry, w3.registry, "defer") => DeferOver(r, f)
    BY <1>1, <1>3, DeferEffect
  <1>5. /\ WatchTyped(v) /\ Elsewhere(w3, v, "quiet") /\ v.told = w3.told
        /\ QuietHeld(w3) => QuietHeld(v) /\ Advised(v.registry, r, f, hour)
    BY <1>1, <1>4, QuietEffect
  <1>6. /\ v.registry["salt"] = w.registry["salt"] /\ v.memory.salt = w.memory.salt
        /\ v.registry["urgent"] = w1.registry["urgent"]
        /\ v.registry["away"] = w2.registry["away"] /\ v.memory.away = w2.memory.away
        /\ w1.registry["away"] = w.registry["away"] /\ w1.memory.away = w.memory.away
        /\ w2.registry["defer"] = w.registry["defer"]
        /\ v.registry["defer"] = w3.registry["defer"]
        /\ w3.registry["quiet"] = w.registry["quiet"] /\ w3.memory.quiet = w.memory.quiet
    BY <1>2, <1>3, <1>4, <1>5, IssueAssumption DEF Elsewhere
  <1>7. KeepsIgnores(w.registry, v.registry, r, f)
    BY <1>2, <1>3, <1>4, <1>6 DEF KeepsIgnores, Spoken, Ignored, Filed
  <1>8. AwayHeld(w) => AwayHeld(v)
    BY <1>3, <1>6 DEF AwayHeld, Standing, Filed
  <1>9. SaidOnce(w.registry) => SaidOnce(v.registry)
    <2>1. CASE ~LeakKnown(r)
      BY <1>2, <1>3, <1>6, <2>1 DEF SaidOnce, Standing, Filed
    <2>2. CASE LeakKnown(r) /\ Away(r, f)
      BY <1>2, <1>6, <2>2 DEF SaidOnce, Standing, Filed
    <2>3. CASE LeakKnown(r) /\ ~Away(r, f)
      BY <1>3, <1>6, <2>3 DEF SaidOnce, Standing, Filed, LeakSettled
    <2>4. QED
      BY <2>1, <2>2, <2>3
  <1>10. QuietHeld(w) => QuietHeld(w3)
    BY <1>6 DEF QuietHeld, Standing, Filed
  <1>11. v.told = w2.told /\ w1.told = w.told
    BY <1>2, <1>4, <1>5
  <1>12. QED
    BY <1>2, <1>3, <1>5, <1>6, <1>7, <1>8, <1>9, <1>10, <1>11

LEMMA PublishedEffect ==
  ASSUME NEW w, WatchTyped(w), Held(w), NEW r \in Results \cup {None}, NEW f \in Flags,
         NEW hour \in Hours \cup {None}, NEW v, v = Settled(EngineNotifies(w, r, f, hour), r, f)
  PROVE  /\ WatchTyped(v) /\ Held(v)
         /\ v.registry["salt"] = w.registry["salt"] /\ v.memory.salt = w.memory.salt
         /\ KeepsIgnores(w.registry, v.registry, r, f)
         /\ RunsUnseen(r, f) => v.memory.away.announced /\ v.memory.away.reported # None
         /\ Advised(v.registry, r, f, hour)
  <1> DEFINE x == EngineNotifies(w, r, f, hour)
  <1>1. /\ WatchTyped(x)
        /\ x.registry["salt"] = w.registry["salt"] /\ x.memory.salt = w.memory.salt
        /\ KeepsIgnores(w.registry, x.registry, r, f)
        /\ AwayHeld(x) /\ SaidOnce(x.registry)
        /\ RunsUnseen(r, f) => /\ x.memory.away.announced
                               /\ x.memory.away.reported # None
                               /\ x.told = IF w.memory.away.announced THEN w.told ELSE w.told + 1
        /\ LeakSettled(r, f) => ~x.memory.away.announced
        /\ ~LeakKnown(r) => x.memory.away = w.memory.away /\ x.told = w.told
        /\ QuietHeld(x) /\ Advised(x.registry, r, f, hour)
    BY EngineEffect DEF Held
  <1>2. v = IF LeakSettled(r, f) THEN [x EXCEPT !.told = 0] ELSE x
    BY DEF Settled, LeakSettled
  <1> HIDE DEF x
  <1>3. /\ WatchTyped(v) /\ v.registry = x.registry /\ v.memory = x.memory
        /\ v.told = IF LeakSettled(r, f) THEN 0 ELSE x.told
    BY <1>1, <1>2 DEF WatchTyped
  <1>4. Told(v)
    <2>1. CASE LeakSettled(r, f)
      BY <1>1, <1>3, <2>1 DEF Told
    <2>2. CASE RunsUnseen(r, f)
      <3>1. ~LeakSettled(r, f)
        BY <2>2 DEF RunsUnseen, LeakSettled
      <3>2. QED
        BY <1>1, <1>3, <2>2, <3>1 DEF Told, Held
    <2>3. CASE ~LeakKnown(r)
      <3>1. ~LeakSettled(r, f)
        BY <2>3 DEF LeakSettled
      <3>2. QED
        BY <1>1, <1>3, <2>3, <3>1 DEF Told, Held
    <2>4. QED
      BY <2>1, <2>2, <2>3 DEF RunsUnseen, LeakSettled
  <1>5. QED
    BY <1>1, <1>3, <1>4 DEF Held, AwayHeld, QuietHeld

LEMMA SetUpEffect ==
  ASSUME NEW g, RegistryTyped(g), SaidOnce(g), NEW d \in Nat \cup {None}, NEW f \in Flags,
         NEW hour \in Hours \cup {None}, NEW v, v = SetUp(g, d, f, hour)
  PROVE  /\ WatchTyped(v) /\ Held(v)
         /\ v.memory.salt.tier = NextTier("none", d)
         /\ Spoken(g, v.registry, "salt") => NextTier("none", d) = "none"
         /\ KeepsIgnores(g, v.registry, None, f)
  <1> DEFINE w == [registry |-> g, memory |-> NoMemory, told |-> 0]
             x == WatchSalt(w, d)
  <1>1. NoMemory \in Memories /\ NoMemory.salt.tier = "none" /\ NoMemory.quiet = None
        /\ NoMemory.away.reported = None /\ ~NoMemory.away.announced
    BY DEF NoMemory, Memories
  <1>2. /\ WatchTyped(w) /\ w.registry = g /\ w.memory = NoMemory /\ w.told = 0
    BY <1>1 DEF WatchTyped
  <1>3. v = EngineNotifies(x, None, f, hour) /\ x = WatchSalt(w, d)
    BY DEF SetUp
  <1> HIDE DEF w, x
  <1>4. ~Escalates(w.memory.salt.tier, NextTier(w.memory.salt.tier, d))
    BY <1>1, <1>2 DEF Escalates
  <1>5. /\ WatchTyped(x) /\ Elsewhere(w, x, "salt") /\ x.told = w.told
        /\ x.memory.salt.tier = NextTier("none", d)
        /\ Spoken(w.registry, x.registry, "salt") => NextTier("none", d) = "none"
    <2>1. x = WatchSalt(w, d) /\ WatchTyped(w) /\ w.memory.salt.tier = "none"
      BY <1>1, <1>2, <1>3
    <2>2. /\ WatchTyped(x) /\ Elsewhere(w, x, "salt") /\ x.told = w.told
          /\ x.memory.salt.tier = NextTier(w.memory.salt.tier, d)
          /\ Spoken(w.registry, x.registry, "salt")
               => \/ NextTier(w.memory.salt.tier, d) = "none"
                  \/ Escalates(w.memory.salt.tier, NextTier(w.memory.salt.tier, d))
      BY <2>1, SaltEffect
    <2>3. QED
      BY <1>4, <2>1, <2>2
  <1>6. /\ x.registry["urgent"] = g["urgent"] /\ x.registry["away"] = g["away"]
        /\ x.registry["defer"] = g["defer"] /\ x.memory.quiet = None
        /\ x.memory.away.reported = None /\ ~x.memory.away.announced /\ x.told = 0
    <2>1. x.memory.quiet = w.memory.quiet /\ x.memory.away = w.memory.away
      BY <1>5 DEF Elsewhere
    <2>2. \A i \in {"urgent", "away", "defer"} : x.registry[i] = w.registry[i]
      BY <1>5, IssueAssumption DEF Elsewhere
    <2>3. QED
      BY <1>1, <1>2, <1>5, <2>1, <2>2
  <1>7. ~LeakKnown(None)
    BY DEF LeakKnown
  <1>8. AwayHeld(x) /\ QuietHeld(x) /\ SaidOnce(x.registry)
    BY <1>6 DEF AwayHeld, QuietHeld, SaidOnce, Standing, Filed
  <1>9. /\ WatchTyped(v)
        /\ v.registry["salt"] = x.registry["salt"] /\ v.memory.salt = x.memory.salt
        /\ KeepsIgnores(x.registry, v.registry, None, f)
        /\ AwayHeld(v) /\ SaidOnce(v.registry) /\ QuietHeld(v)
        /\ v.memory.away = x.memory.away /\ v.told = x.told
    BY <1>3, <1>5, <1>7, <1>8, EngineEffect
  <1>10. Told(v)
    BY <1>6, <1>9 DEF Told
  <1>11. KeepsIgnores(g, v.registry, None, f)
    BY <1>6, <1>9 DEF KeepsIgnores, Spoken, Ignored, Filed
  <1>12. Spoken(g, v.registry, "salt") => NextTier("none", d) = "none"
    BY <1>2, <1>5, <1>9 DEF Spoken, Ignored, Filed
  <1>13. QED
    BY <1>5, <1>9, <1>10, <1>11, <1>12 DEF Held

-----------------------------------------------------------------------------
(* What else writes the registry.                                          *)

LEMMA SettingsEffect ==
  ASSUME NEW w, WatchTyped(w), Held(w), NEW r \in Results \cup {None}, NEW f \in Flags,
         NEW hour \in Hours \cup {None}, NEW v, v = WatchRegenTime(w, r, f, hour)
  PROVE  /\ WatchTyped(v) /\ Held(v)
         /\ \A i \in Issues \ {"quiet"} : v.registry[i] = w.registry[i]
         /\ v.memory.salt = w.memory.salt /\ v.memory.away = w.memory.away
         /\ Advised(v.registry, r, f, hour)
  <1>1. /\ WatchTyped(v) /\ Elsewhere(w, v, "quiet") /\ v.told = w.told
        /\ QuietHeld(v) /\ Advised(v.registry, r, f, hour)
    <2>1. QuietHeld(w)
      BY DEF Held
    <2>2. QED
      BY <2>1, QuietEffect
  <1>2. /\ \A i \in Issues \ {"quiet"} : v.registry[i] = w.registry[i]
        /\ v.registry["urgent"] = w.registry["urgent"] /\ v.registry["away"] = w.registry["away"]
        /\ v.memory.salt = w.memory.salt /\ v.memory.away = w.memory.away
    BY <1>1, IssueAssumption DEF Elsewhere
  <1>3. Told(v) /\ AwayHeld(v) /\ SaidOnce(v.registry)
    BY <1>1, <1>2 DEF Held, Told, AwayHeld, SaidOnce, Standing, Filed
  <1>4. QED
    BY <1>1, <1>2, <1>3 DEF Held

LEMMA ClosedEffect ==
  ASSUME NEW w, WatchTyped(w), Held(w), NEW i \in {"defer", "quiet"}, NEW v, v = Closed(w, i)
  PROVE  /\ WatchTyped(v) /\ Held(v) /\ v.memory = w.memory
         /\ v.registry = Delete(w.registry, i)
         /\ v.registry[i] = None
         /\ \A j \in Issues \ {i} : v.registry[j] = w.registry[j]
  <1> DEFINE gone == Delete(w.registry, i)
  <1>1. /\ RegistryTyped(gone) /\ gone[i] = None
        /\ \A j \in Issues \ {i} : gone[j] = w.registry[j]
    BY DeleteEffect, IssueAssumption DEF WatchTyped
  <1>2. v = [w EXCEPT !.registry = gone]
    BY DEF Closed
  <1>3. v.registry = gone
    BY <1>2 DEF WatchTyped
  <1> HIDE DEF gone
  <1>4. WatchTyped(v) /\ v.registry = gone /\ v.memory = w.memory /\ v.told = w.told
    BY <1>1, <1>2 DEF WatchTyped
  <1>5. /\ gone["urgent"] = w.registry["urgent"] /\ gone["away"] = w.registry["away"]
        /\ gone["quiet"] \in {None, w.registry["quiet"]}
    BY <1>1, IssueAssumption
  <1>6. Held(v)
    BY <1>4, <1>5 DEF Held, Told, AwayHeld, QuietHeld, SaidOnce, Standing, Filed
  <1>7. QED
    BY <1>1, <1>4, <1>6 DEF gone

LEMMA ForgottenEffect ==
  ASSUME NEW w, WatchTyped(w), SaidOnce(w.registry)
  PROVE  /\ WatchTyped(Forgotten(w)) /\ Held(Forgotten(w))
         /\ Forgotten(w).registry = w.registry
  <1>1. /\ NoMemory \in Memories /\ NoMemory.quiet = None
        /\ NoMemory.away.reported = None /\ ~NoMemory.away.announced
    BY DEF NoMemory, Memories
  <1>2. /\ WatchTyped(Forgotten(w)) /\ Forgotten(w).registry = w.registry
        /\ Forgotten(w).memory = NoMemory /\ Forgotten(w).told = 0
    BY <1>1 DEF Forgotten, WatchTyped
  <1>3. QED
    BY <1>1, <1>2 DEF Held, Told, AwayHeld, QuietHeld

Hushed(w, i) == [w EXCEPT !.registry = Ignore(@, i)]

LEMMA IgnoredEffect ==
  ASSUME NEW w, WatchTyped(w), Held(w), NEW i \in Issues, Filed(w.registry, i),
         NEW v, v = Hushed(w, i)
  PROVE  /\ WatchTyped(v) /\ Held(v) /\ v.memory = w.memory
         /\ \A j \in Issues : /\ Filed(v.registry, j) <=> Filed(w.registry, j)
                              /\ Standing(v.registry, j) <=> Standing(w.registry, j)
                              /\ Ignored(w.registry, j) => Ignored(v.registry, j)
                              /\ Standing(w.registry, j) => v.registry[j].about = w.registry[j].about
  <1> DEFINE kept == Ignore(w.registry, i)
  <1>1. /\ RegistryTyped(kept) /\ Filed(kept, i) /\ kept[i].ignored
        /\ kept[i].active = w.registry[i].active /\ kept[i].about = w.registry[i].about
        /\ \A j \in Issues \ {i} : kept[j] = w.registry[j]
    BY IgnoreEffect DEF WatchTyped
  <1>2. v = [w EXCEPT !.registry = kept]
    BY DEF Hushed
  <1> HIDE DEF kept
  <1>3. WatchTyped(v) /\ v.registry = kept /\ v.memory = w.memory /\ v.told = w.told
    BY <1>1, <1>2 DEF WatchTyped
  <1>4. ASSUME NEW j \in Issues
        PROVE  /\ Filed(kept, j) <=> Filed(w.registry, j)
               /\ Standing(kept, j) <=> Standing(w.registry, j)
               /\ Ignored(w.registry, j) => Ignored(kept, j)
               /\ Standing(w.registry, j) => kept[j].about = w.registry[j].about
    <2>1. CASE j = i
      BY <1>1, <2>1 DEF Standing, Ignored
    <2>2. CASE j # i
      BY <1>1, <2>2 DEF Standing, Ignored, Filed
    <2>3. QED
      BY <2>1, <2>2
  <1>5. {"urgent", "away", "quiet"} \subseteq Issues
    BY IssueAssumption
  <1>6. Held(v)
    BY <1>3, <1>4, <1>5 DEF Held, Told, AwayHeld, QuietHeld, SaidOnce
  <1>7. QED
    BY <1>3, <1>4, <1>6

LEMMA RestartedEffect ==
  ASSUME NEW w, WatchTyped(w), NEW v, v = [Forgotten(w) EXCEPT !.registry = Restarted(@)]
  PROVE  /\ WatchTyped(v) /\ Held(v)
         /\ \A i \in Issues : Ignored(v.registry, i) = Ignored(w.registry, i)
  <1> DEFINE g == Restarted(w.registry)
  <1>1. /\ RegistryTyped(g)
        /\ \A i \in Issues : ~Standing(g, i) /\ Ignored(g, i) = Ignored(w.registry, i)
    BY RestartEffect DEF WatchTyped
  <1>2. /\ NoMemory \in Memories /\ NoMemory.quiet = None
        /\ NoMemory.away.reported = None /\ ~NoMemory.away.announced
    BY DEF NoMemory, Memories
  <1>3. v = [registry |-> g, memory |-> NoMemory, told |-> 0]
    BY DEF Forgotten, WatchTyped
  <1> HIDE DEF g
  <1>4. WatchTyped(v) /\ v.registry = g /\ v.memory = NoMemory /\ v.told = 0
    <2>1. v.registry = g /\ v.memory = NoMemory /\ v.told = 0
      BY <1>3
    <2>2. [registry |-> g, memory |-> NoMemory, told |-> 0]
             \in [registry : {g}, memory : Memories, told : Nat]
      BY <1>2
    <2>3. v \in [registry : {v.registry}, memory : Memories, told : Nat]
      BY <1>3, <2>1, <2>2, Zenon
    <2>4. QED
      BY <1>1, <2>1, <2>3 DEF WatchTyped
  <1>5. Held(v)
    BY <1>1, <1>2, <1>4, IssueAssumption DEF Held, Told, AwayHeld, QuietHeld, SaidOnce
  <1>6. QED
    BY <1>1, <1>4, <1>5

LEMMA RemovedEffect ==
  ASSUME NEW w, WatchTyped(w), Held(w), w.memory = NoMemory,
         NEW v, v = [w EXCEPT !.registry = RemoveIssues(@)]
  PROVE  WatchTyped(v) /\ Held(v) /\ v.registry = NoIssues
  <1>1. RegistryTyped(w.registry)
    BY DEF WatchTyped
  <1>2. RegistryTyped(NoIssues)
    BY DEF RegistryTyped, NoIssues
  <1>3. RemoveIssues(w.registry) = NoIssues
    BY <1>1, IssueAssumption DEF RegistryTyped, RemoveIssues, Delete, NoIssues
  <1>4. WatchTyped(v) /\ v.registry = NoIssues /\ v.memory = w.memory /\ v.told = w.told
    BY <1>2, <1>3 DEF WatchTyped
  <1>5. \A i \in Issues : ~Standing(NoIssues, i)
    BY DEF NoIssues, Standing, Filed
  <1>6. NoMemory.away.reported = None
    BY DEF NoMemory
  <1>7. QED
    BY <1>4, <1>5, <1>6, IssueAssumption DEF Held, Told, AwayHeld, QuietHeld, SaidOnce

-----------------------------------------------------------------------------
(* The inductive invariant.                                                *)

\* What a load remembers of the salt is the tier of the countdown it last saw.
Salted ==
  LET tier == watch.memory.salt.tier
  IN Loaded => /\ tier = "warning" => days # None /\ days > CriticalDays
               /\ days # None /\ days > CriticalDays + Hysteresis /\ days =< WarningDays
                    => tier = "warning"

\* A load that knows of a leak in an empty house has reported and announced it.
OnsetReported ==
  Loaded /\ RunsUnseen(result, flags)
    => watch.memory.away.announced /\ watch.memory.away.reported # None

\* The memory goes with the load.
NothingRemembered == ~Loaded => watch.memory = NoMemory

Inv ==
  /\ TypeOK
  /\ Held(watch)
  /\ Salted
  /\ OnsetReported
  /\ NothingRemembered
  /\ AdviceIsCurrent
  /\ RemovedEntryLeavesNothing

-----------------------------------------------------------------------------
(* The steps.  SpeaksForCause is what IgnoredStaysIgnored says of a step.  *)

SpeaksForCause ==
  \A i \in Issues \ {"quiet"} :
    Spoken(watch.registry, watch'.registry, i)
      => \/ ReasonGone(i)'
         \/ i = "salt" /\ Loaded /\ days' < days /\ days' =< CriticalDays

LEMMA ScenarioTyped ==
  ASSUME TypeOK
  PROVE  /\ scenario.readings \subseteq Nat \cup {None}
         /\ scenario.results \subseteq Results
         /\ scenario.flags \subseteq Flags
         /\ scenario.hours \subseteq Hours
  BY ScenarioAssumption DEF TypeOK

LEMMA InitInv == Init => Inv
  <1> SUFFICES ASSUME Init PROVE Inv
    OBVIOUS
  <1>1. /\ watch.registry = NoIssues /\ watch.memory = NoMemory /\ watch.told = 0
        /\ watch \in [registry : {watch.registry}, memory : Memories, told : Nat]
    <2>1. NoMemory \in Memories
      BY DEF NoMemory, Memories
    <2>2. QED
      BY <2>1 DEF Init
  <1>2. RegistryTyped(NoIssues) /\ \A i \in Issues : ~Standing(NoIssues, i)
    BY DEF RegistryTyped, NoIssues, Standing, Filed
  <1>3. NoMemory.quiet = None /\ NoMemory.away.reported = None /\ ~NoMemory.away.announced
    BY DEF NoMemory
  <1>4. TypeOK
    BY <1>1, <1>2, ScenarioAssumption DEF Init, TypeOK, WatchTyped, Loaded
  <1>5. Held(watch)
    BY <1>1, <1>2, <1>3, IssueAssumption DEF Held, Told, AwayHeld, QuietHeld, SaidOnce
  <1>6. ~Loaded /\ entry # "removed"
    BY DEF Init, Loaded
  <1>7. QED
    BY <1>1, <1>4, <1>5, <1>6
    DEF Inv, Salted, OnsetReported, NothingRemembered, AdviceIsCurrent, RemovedEntryLeavesNothing

\* A step that disturbs nothing the watchers read or write.
LEMMA UndisturbedStep ==
  ASSUME Inv, TypeOK', UNCHANGED <<watch, entry, days, result, flags, doc>>
  PROVE  Inv' /\ SpeaksForCause
  <1>1. Inv'
    <2>1. Held(watch')
      BY DEF Inv
    <2>2. Salted'
      BY DEF Inv, Salted, Loaded
    <2>3. OnsetReported'
      BY DEF Inv, OnsetReported, Loaded
    <2>4. NothingRemembered'
      BY DEF Inv, NothingRemembered, Loaded
    <2>5. AdviceIsCurrent'
      BY DEF Inv, AdviceIsCurrent, Loaded
    <2>6. RemovedEntryLeavesNothing'
      BY DEF Inv, RemovedEntryLeavesNothing
    <2>7. QED
      BY <2>1, <2>2, <2>3, <2>4, <2>5, <2>6 DEF Inv
  <1>2. SpeaksForCause
    BY DEF SpeaksForCause, Spoken
  <1>3. QED
    BY <1>1, <1>2

LEMMA SaltStep ==
  ASSUME Inv, SaltPoll
  PROVE  Inv' /\ SpeaksForCause
  <1>1. PICK d \in Nat \cup {None} : days' = d /\ watch' = WatchSalt(watch, d)
    BY ScenarioTyped DEF SaltPoll, Inv
  <1>2. /\ Loaded /\ Loaded'
        /\ UNCHANGED <<scenario, entry, result, flags, device, doc, poll, write, dialog>>
    BY DEF SaltPoll, documents, Loaded
  <1> DEFINE tier == watch.memory.salt.tier
             new == NextTier(tier, d)
  <1>3. WatchTyped(watch) /\ tier \in {"none", "warning", "critical"}
    BY DEF Inv, TypeOK, WatchTyped, Memories
  <1>4. /\ WatchTyped(watch') /\ Elsewhere(watch, watch', "salt")
        /\ watch'.told = watch.told /\ watch'.memory.salt.tier = new
        /\ Spoken(watch.registry, watch'.registry, "salt") => new = "none" \/ Escalates(tier, new)
    BY <1>1, <1>3, SaltEffect
  <1>5. /\ new = "warning" => d # None /\ d > CriticalDays
        /\ new = "none" => d = None \/ d > WarningDays
        /\ new = "critical" /\ tier # "critical" => d =< CriticalDays
        /\ d # None /\ d > CriticalDays + Hysteresis /\ d =< WarningDays => new = "warning"
    BY <1>3, TierTyped, NoneAssumption
  <1> HIDE DEF new
  <1>6. /\ \A i \in Issues \ {"salt"} : watch'.registry[i] = watch.registry[i]
        /\ watch'.memory.away = watch.memory.away /\ watch'.memory.quiet = watch.memory.quiet
        /\ {"urgent", "away", "quiet"} \subseteq Issues \ {"salt"}
    BY <1>4, IssueAssumption DEF Elsewhere
  <1>7. TypeOK'
    BY <1>1, <1>2, <1>4 DEF Inv, TypeOK
  <1>8. Held(watch')
    BY <1>4, <1>6 DEF Inv, Held, Told, AwayHeld, QuietHeld, SaidOnce, Standing, Filed
  <1>9. Salted'
    BY <1>1, <1>4, <1>5 DEF Salted
  <1>10. OnsetReported'
    BY <1>2, <1>6 DEF Inv, OnsetReported, RunsUnseen
  <1>11. AdviceIsCurrent'
    BY <1>2, <1>6 DEF Inv, AdviceIsCurrent, Standing, Filed
  <1>12. Inv'
    BY <1>2, <1>7, <1>8, <1>9, <1>10, <1>11
    DEF Inv, NothingRemembered, RemovedEntryLeavesNothing, Loaded
  <1>13. ASSUME Spoken(watch.registry, watch'.registry, "salt")
         PROVE  \/ days' = None \/ days' > WarningDays
                \/ days' < days /\ days' =< CriticalDays
    <2>1. CASE new = "none"
      BY <1>1, <1>5, <2>1
    <2>2. CASE Escalates(tier, new)
      <3>1. tier = "warning" /\ new = "critical"
        BY <2>2 DEF Escalates
      <3>2. days \in Nat /\ days > CriticalDays
        BY <1>2, <3>1 DEF Inv, Salted, TypeOK
      <3>3. days' = d /\ d =< CriticalDays
        BY <1>1, <1>5, <3>1
      <3>4. QED
        BY <3>2, <3>3, WatcherAssumption
    <2>3. QED
      BY <1>4, <1>13, <2>1, <2>2
  <1>14. ReasonGone("salt")' <=> entry' = "removed" \/ days' = None \/ days' > WarningDays
    BY DEF ReasonGone
  <1>15. \A i \in Issues \ {"salt"} : ~Spoken(watch.registry, watch'.registry, i)
    BY <1>6 DEF Spoken, Ignored, Filed
  <1>16. SpeaksForCause
    BY <1>2, <1>13, <1>14, <1>15 DEF SpeaksForCause
  <1>17. QED
    BY <1>12, <1>16

\* What a step of a loaded entry owes the invariant, and one that leaves it not loaded.
LEMMA LoadedStep ==
  ASSUME Inv, TypeOK', Loaded, Loaded', UNCHANGED days, Held(watch'),
         watch'.memory.salt = watch.memory.salt,
         RunsUnseen(result', flags')
           => watch'.memory.away.announced /\ watch'.memory.away.reported # None,
         Advised(watch'.registry, result', flags', doc')
  PROVE  Inv'
  <1>1. Salted'
    BY DEF Inv, Salted
  <1>2. OnsetReported'
    BY DEF OnsetReported
  <1>3. AdviceIsCurrent'
    BY DEF AdviceIsCurrent, Advised
  <1>4. QED
    BY <1>1, <1>2, <1>3 DEF Inv, NothingRemembered, RemovedEntryLeavesNothing, Loaded

LEMMA UnloadedStep ==
  ASSUME TypeOK', ~Loaded', Held(watch'), watch'.memory = NoMemory,
         entry' = "removed" => watch'.registry = NoIssues
  PROVE  Inv'
  <1>1. Salted' /\ OnsetReported' /\ AdviceIsCurrent'
    BY DEF Salted, OnsetReported, AdviceIsCurrent
  <1>2. QED
    BY <1>1 DEF Inv, NothingRemembered, RemovedEntryLeavesNothing

LEMMA KeepsCause ==
  ASSUME Spoken(watch.registry, watch'.registry, "salt") => ReasonGone("salt")',
         KeepsIgnores(watch.registry, watch'.registry, result', flags')
  PROVE  SpeaksForCause
  <1>1. Spoken(watch.registry, watch'.registry, "urgent") => ReasonGone("urgent")'
    BY DEF KeepsIgnores, UrgentOver, LeakKnown, ReasonGone
  <1>2. Spoken(watch.registry, watch'.registry, "away") => ReasonGone("away")'
    BY DEF KeepsIgnores, LeakSettled, LeakKnown, ReasonGone
  <1>3. Spoken(watch.registry, watch'.registry, "defer") => ReasonGone("defer")'
    BY DEF KeepsIgnores, DeferOver, ReasonGone
  <1>4. QED
    BY <1>1, <1>2, <1>3, IssueAssumption DEF SpeaksForCause

LEMMA SilentCause ==
  ASSUME \A i \in Issues \ {"quiet"} : Ignored(watch.registry, i) => Ignored(watch'.registry, i)
  PROVE  SpeaksForCause
  BY DEF SpeaksForCause, Spoken

\* What Inv says of the watchers' state, in the words of the effects.
LEMMA WatchFacts ==
  ASSUME Inv
  PROVE  /\ WatchTyped(watch) /\ Held(watch)
         /\ result \in Results \cup {None} /\ flags \in Flags
         /\ device \in Hours /\ doc \in Hours \cup {None}
         /\ Loaded => Advised(watch.registry, result, flags, doc)
         /\ Loaded /\ RunsUnseen(result, flags)
              => watch.memory.away.announced /\ watch.memory.away.reported # None
         /\ ~Loaded => watch.memory = NoMemory
  BY DEF Inv, TypeOK, AdviceIsCurrent, Advised, OnsetReported, NothingRemembered

LEMMA PublishedStep ==
  ASSUME Inv, Loaded, EnginePass \/ FlagsChange
  PROVE  Inv' /\ SpeaksForCause
  <1>1. /\ result' \in Results \cup {None} /\ flags' \in Flags
        /\ watch' = Settled(EngineNotifies(watch, result', flags', doc), result', flags')
    <2>1. CASE EnginePass
      BY <2>1, ScenarioTyped, WatchFacts DEF EnginePass, Published, Inv
    <2>2. CASE FlagsChange
      BY <2>2, ScenarioTyped, WatchFacts DEF FlagsChange, Published, Inv
    <2>3. QED
      BY <2>1, <2>2
  <1>2. UNCHANGED <<scenario, entry, days, device, doc, poll, write, dialog>>
    BY DEF EnginePass, FlagsChange, documents
  <1>3. /\ WatchTyped(watch') /\ Held(watch')
        /\ watch'.registry["salt"] = watch.registry["salt"]
        /\ watch'.memory.salt = watch.memory.salt
        /\ KeepsIgnores(watch.registry, watch'.registry, result', flags')
        /\ RunsUnseen(result', flags')
             => watch'.memory.away.announced /\ watch'.memory.away.reported # None
        /\ Advised(watch'.registry, result', flags', doc)
    <2>1. WatchTyped(watch) /\ Held(watch) /\ doc \in Hours \cup {None}
      BY WatchFacts
    <2>2. QED
      BY <1>1, <2>1, PublishedEffect
  <1>4. TypeOK' /\ Loaded'
    BY <1>1, <1>2, <1>3 DEF Inv, TypeOK, Loaded
  <1>5. Inv'
    BY <1>2, <1>3, <1>4, LoadedStep
  <1>6. ~Spoken(watch.registry, watch'.registry, "salt")
    BY <1>3 DEF Spoken, Ignored, Filed
  <1>7. QED
    BY <1>3, <1>5, <1>6, KeepsCause

LEMMA ConfirmDeferStep ==
  ASSUME Inv, ConfirmDefer
  PROVE  Inv' /\ SpeaksForCause
  <1> DEFINE x == Settled(EngineNotifies(watch, result, flags', doc), result, flags')
  <1>1. /\ flags' \in Flags /\ flags'.deferral /\ Loaded /\ Loaded'
        /\ UNCHANGED <<scenario, entry, days, result, device, doc, poll, write>>
        /\ dialog' = None
    BY WatchFacts DEF ConfirmDefer, documents, Loaded, Flags
  <1>2. watch' = Closed(x, "defer") /\ x = Settled(EngineNotifies(watch, result, flags', doc), result, flags')
    BY DEF ConfirmDefer, Published
  <1> HIDE DEF x
  <1>3. /\ WatchTyped(x) /\ Held(x)
        /\ x.registry["salt"] = watch.registry["salt"]
        /\ x.memory.salt = watch.memory.salt
        /\ KeepsIgnores(watch.registry, x.registry, result, flags')
        /\ RunsUnseen(result, flags')
             => x.memory.away.announced /\ x.memory.away.reported # None
        /\ Advised(x.registry, result, flags', doc)
    <2>1. /\ WatchTyped(watch) /\ Held(watch) /\ doc \in Hours \cup {None}
          /\ result \in Results \cup {None}
      BY WatchFacts
    <2>2. QED
      BY <1>1, <1>2, <2>1, PublishedEffect
  <1>4. /\ WatchTyped(watch') /\ Held(watch') /\ watch'.memory = x.memory
        /\ \A j \in Issues \ {"defer"} : watch'.registry[j] = x.registry[j]
    BY <1>2, <1>3, ClosedEffect
  <1>5. /\ watch'.registry["salt"] = watch.registry["salt"]
        /\ watch'.registry["urgent"] = x.registry["urgent"]
        /\ watch'.registry["away"] = x.registry["away"]
        /\ watch'.registry["quiet"] = x.registry["quiet"]
    BY <1>3, <1>4, IssueAssumption
  <1>6. TypeOK'
    BY <1>1, <1>4 DEF Inv, TypeOK, Loaded
  <1>7. Advised(watch'.registry, result', flags', doc')
    BY <1>1, <1>3, <1>5 DEF Advised, Standing, Filed
  <1>8. Inv'
    BY <1>1, <1>3, <1>4, <1>6, <1>7, LoadedStep
  <1>9. ~Spoken(watch.registry, watch'.registry, "salt")
    BY <1>5 DEF Spoken, Ignored, Filed
  <1>10. KeepsIgnores(watch.registry, watch'.registry, result', flags')
    BY <1>1, <1>3, <1>5 DEF KeepsIgnores, DeferOver, Spoken, Ignored, Filed
  <1>11. QED
    BY <1>8, <1>9, <1>10, KeepsCause

LEMMA HeardStep ==
  ASSUME Inv, Loaded, PollEnds \/ PollFails
  PROVE  Inv' /\ SpeaksForCause
  <1>1. /\ doc' \in Hours \cup {None} /\ poll' = None
        /\ watch' = WatchRegenTime(watch, result, flags, doc')
    <2>1. CASE PollEnds
      BY <2>1 DEF PollEnds, SettingsNotify, Inv, TypeOK
    <2>2. CASE PollFails
      BY <2>2 DEF PollFails, SettingsNotify, Inv, TypeOK
    <2>3. QED
      BY <2>1, <2>2
  <1>2. UNCHANGED <<scenario, entry, days, result, flags, device, write, dialog>>
    BY DEF PollEnds, PollFails
  <1>3. /\ WatchTyped(watch') /\ Held(watch')
        /\ \A i \in Issues \ {"quiet"} : watch'.registry[i] = watch.registry[i]
        /\ watch'.memory.salt = watch.memory.salt /\ watch'.memory.away = watch.memory.away
        /\ Advised(watch'.registry, result, flags, doc')
    BY <1>1, WatchFacts, SettingsEffect
  <1>4. TypeOK' /\ Loaded'
    BY <1>1, <1>2, <1>3 DEF Inv, TypeOK, Loaded
  <1>5. Inv'
    BY <1>2, <1>3, <1>4, WatchFacts, LoadedStep
  <1>6. QED
    BY <1>3, <1>5, SilentCause DEF Ignored, Filed

LEMMA AnsweredStep ==
  ASSUME Inv, WriteAnswers
  PROVE  Inv' /\ SpeaksForCause
  <1> DEFINE heard == IF Loaded THEN WatchRegenTime(watch, result, flags, write.hour) ELSE watch
  <1>1. /\ write \in Writes /\ write.hour \in Hours /\ write' = None /\ device' = write.hour
        /\ doc' = IF Loaded THEN write.hour ELSE doc
        /\ dialog' \in {None, dialog}
        /\ UNCHANGED <<scenario, entry, days, result, flags, poll>>
    BY DEF WriteAnswers, Inv, TypeOK, Writes
  <1>2. watch' = IF write.fix THEN Closed(heard, "quiet") ELSE heard
    BY DEF WriteAnswers, SettingsNotify
  <1>3. Loaded => heard = WatchRegenTime(watch, result, flags, write.hour)
    OBVIOUS
  <1>4. ~Loaded => heard = watch
    OBVIOUS
  <1> HIDE DEF heard
  <1>5. /\ WatchTyped(heard) /\ Held(heard)
        /\ \A i \in Issues \ {"quiet"} : heard.registry[i] = watch.registry[i]
        /\ heard.memory.salt = watch.memory.salt /\ heard.memory.away = watch.memory.away
        /\ Loaded => Advised(heard.registry, result, flags, doc')
    <2>1. CASE Loaded
      <3>1. doc' = write.hour
        BY <1>1, <2>1
      <3>2. QED
        <4>1. PICK hour \in Hours \cup {None} : hour = write.hour
          BY <1>1
        <4>2. /\ WatchTyped(watch) /\ Held(watch)
              /\ result \in Results \cup {None} /\ flags \in Flags
              /\ heard = WatchRegenTime(watch, result, flags, hour)
          BY <1>3, <2>1, <4>1, WatchFacts
        <4>3. /\ WatchTyped(heard) /\ Held(heard)
              /\ \A i \in Issues \ {"quiet"} : heard.registry[i] = watch.registry[i]
              /\ heard.memory.salt = watch.memory.salt
              /\ heard.memory.away = watch.memory.away
              /\ Advised(heard.registry, result, flags, hour)
          BY <4>2, SettingsEffect
        <4>4. QED
          BY <3>1, <4>1, <4>3
    <2>2. CASE ~Loaded
      BY <1>4, <2>2, WatchFacts
    <2>3. QED
      BY <2>1, <2>2
  <1>6. /\ WatchTyped(watch') /\ Held(watch') /\ watch'.memory = heard.memory
        /\ \A i \in Issues \ {"quiet"} : watch'.registry[i] = heard.registry[i]
        /\ watch'.registry = heard.registry \/ watch'.registry["quiet"] = None
        /\ watch'.registry \in {heard.registry, Delete(heard.registry, "quiet")}
    <2>1. CASE write.fix
      BY <1>2, <1>5, <2>1, ClosedEffect
    <2>2. CASE ~write.fix
      BY <1>2, <1>5, <2>2
    <2>3. QED
      BY <2>1, <2>2
  <1>7. TypeOK'
    BY <1>1, <1>6 DEF Inv, TypeOK, Loaded
  <1>8. CASE Loaded
    <2>1. Loaded'
      BY <1>1, <1>8 DEF Loaded
    <2>2. Advised(watch'.registry, result', flags', doc')
      BY <1>1, <1>5, <1>6, <1>8 DEF Advised, Standing, Filed
    <2>3. RunsUnseen(result', flags')
            => watch'.memory.away.announced /\ watch'.memory.away.reported # None
      BY <1>1, <1>5, <1>6, <1>8, WatchFacts
    <2>4. Inv'
      BY <1>1, <1>5, <1>6, <1>7, <1>8, <2>1, <2>2, <2>3, LoadedStep
    <2>5. QED
      BY <1>5, <1>6, <2>4, SilentCause DEF Ignored, Filed
  <1>9. CASE ~Loaded
    <2>1. ~Loaded' /\ entry' = entry
      BY <1>1, <1>9 DEF Loaded
    <2>2. watch'.memory = NoMemory
      BY <1>4, <1>6, <1>9, WatchFacts
    <2>3. entry = "removed" => watch'.registry = NoIssues
      BY <1>4, <1>6, <1>9, IssueAssumption DEF Inv, RemovedEntryLeavesNothing, Delete, NoIssues
    <2>4. Inv'
      BY <1>6, <1>7, <2>1, <2>2, <2>3, UnloadedStep
    <2>5. QED
      BY <1>5, <1>6, <2>4, SilentCause DEF Ignored, Filed
  <1>10. QED
    BY <1>8, <1>9

LEMMA FrameStep ==
  ASSUME Inv, \/ PollStarts \/ UserWrites \/ WriteFails
              \/ OpenDialog \/ LeaveDialog \/ ConfirmQuiet
              \/ UNCHANGED vars
  PROVE  Inv' /\ SpeaksForCause
  <1>1. UNCHANGED <<scenario, watch, entry, days, result, flags, doc>>
    BY DEF PollStarts, UserWrites, WriteFails, OpenDialog, LeaveDialog, ConfirmQuiet, vars,
           documents
  <1>2. device' \in Hours
    BY DEF PollStarts, UserWrites, WriteFails, OpenDialog, LeaveDialog, ConfirmQuiet, vars,
           documents, Inv, TypeOK, Writes
  <1>3. poll' \in Hours \cup {None} /\ (~Loaded => poll' = None)
    BY DEF PollStarts, UserWrites, WriteFails, OpenDialog, LeaveDialog, ConfirmQuiet, vars,
           documents, Inv, TypeOK
  <1>4. write' \in Writes \cup {None}
    <2>1. CASE UserWrites
      BY <2>1, ScenarioTyped DEF UserWrites, Writes, Inv
    <2>2. CASE ConfirmQuiet
      <3>1. DialogTyped(dialog) /\ dialog.issue = "quiet"
        BY <2>2 DEF ConfirmQuiet, Confirming, Inv, TypeOK
      <3>2. dialog.about \in Hours \X Hours
        BY <3>1 DEF DialogTyped, About
      <3>3. QED
        BY <2>2, <3>2 DEF ConfirmQuiet, Writes
    <2>3. CASE PollStarts \/ WriteFails \/ OpenDialog \/ LeaveDialog \/ UNCHANGED vars
      BY <2>3 DEF PollStarts, WriteFails, OpenDialog, LeaveDialog, vars, documents, Inv, TypeOK
    <2>4. QED
      BY <2>1, <2>2, <2>3
  <1>5. dialog' # None => DialogTyped(dialog')
    <2>1. CASE OpenDialog
      <3>1. PICK i \in {"defer", "quiet"} :
              /\ Standing(watch.registry, i)
              /\ dialog' = [issue |-> i, about |-> watch.registry[i].about, sent |-> FALSE]
        BY <2>1 DEF OpenDialog
      <3>2. watch.registry[i] \in Filings(i)
        BY <3>1, WatchFacts, IssueAssumption DEF WatchTyped, RegistryTyped, Standing, Filed
      <3>3. watch.registry[i].about \in About(i)
        BY <3>2 DEF Filings
      <3>4. QED
        BY <3>1, <3>3 DEF DialogTyped
    <2>2. CASE ConfirmQuiet
      <3>1. DialogTyped(dialog)
        BY <2>2 DEF ConfirmQuiet, Confirming, Inv, TypeOK
      <3>2. PICK i, a, t : /\ dialog = [issue |-> i, about |-> a, sent |-> t]
                           /\ i \in {"defer", "quiet"} /\ a \in About(i)
        BY <3>1 DEF DialogTyped
      <3>3. dialog' = [issue |-> i, about |-> a, sent |-> TRUE]
        BY <2>2, <3>2 DEF ConfirmQuiet
      <3>4. QED
        BY <3>2, <3>3 DEF DialogTyped
    <2>3. CASE PollStarts \/ UserWrites \/ WriteFails \/ LeaveDialog \/ UNCHANGED vars
      BY <2>3 DEF PollStarts, UserWrites, WriteFails, LeaveDialog, vars, Inv, TypeOK
    <2>4. QED
      BY <2>1, <2>2, <2>3
  <1>6. TypeOK'
    BY <1>1, <1>2, <1>3, <1>4, <1>5 DEF Inv, TypeOK, Loaded
  <1>7. QED
    BY <1>1, <1>6, UndisturbedStep

LEMMA IgnoreStep ==
  ASSUME Inv, IgnoreIssue
  PROVE  Inv' /\ SpeaksForCause
  <1>1. PICK i \in Issues : /\ Standing(watch.registry, i)
                           /\ watch' = [watch EXCEPT !.registry = Ignore(@, i)]
    BY DEF IgnoreIssue
  <1>2. UNCHANGED <<scenario, entry, days, result, flags, device, doc, poll, write, dialog>>
    BY DEF IgnoreIssue, documents
  <1>3. /\ Filed(watch.registry, i) /\ WatchTyped(watch) /\ Held(watch)
        /\ watch' = Hushed(watch, i)
    BY <1>1, WatchFacts DEF Standing, Hushed
  <1>4. /\ WatchTyped(watch') /\ Held(watch') /\ watch'.memory = watch.memory
        /\ \A j \in Issues :
             /\ Filed(watch'.registry, j) <=> Filed(watch.registry, j)
             /\ Standing(watch'.registry, j) <=> Standing(watch.registry, j)
             /\ Ignored(watch.registry, j) => Ignored(watch'.registry, j)
             /\ Standing(watch.registry, j)
                  => watch'.registry[j].about = watch.registry[j].about
    BY <1>3, IgnoredEffect
  <1>5. TypeOK'
    BY <1>2, <1>4 DEF Inv, TypeOK, Loaded
  <1>6. SpeaksForCause
    BY <1>4, SilentCause
  <1>7. CASE Loaded
    <2>1. Advised(watch.registry, result, flags, doc)
      BY <1>7, WatchFacts
    <2>2. Advised(watch'.registry, result', flags', doc')
      BY <1>2, <1>4, <2>1, IssueAssumption DEF Advised
    <2>3. Loaded'
      BY <1>2, <1>7 DEF Loaded
    <2>4. Inv'
      BY <1>2, <1>4, <1>5, <1>7, <2>2, <2>3, WatchFacts, LoadedStep
    <2>5. QED
      BY <1>6, <2>4
  <1>8. CASE ~Loaded
    <2>1. entry # "removed"
      BY <1>1 DEF Inv, RemovedEntryLeavesNothing, NoIssues, Standing, Filed
    <2>2. ~Loaded' /\ entry' # "removed" /\ watch'.memory = NoMemory
      BY <1>2, <1>4, <1>8, <2>1, WatchFacts DEF Loaded
    <2>3. Inv'
      BY <1>4, <1>5, <2>2, UnloadedStep
    <2>4. QED
      BY <1>6, <2>3
  <1>9. QED
    BY <1>7, <1>8

LEMMA UnloadStep ==
  ASSUME Inv, Unload \/ Restart
  PROVE  Inv' /\ SpeaksForCause
  <1>1. /\ entry' = "unloaded" /\ poll' = None /\ result' = None
        /\ device' \in Hours
        /\ write' \in Writes \cup {None} /\ (dialog' # None => DialogTyped(dialog'))
        /\ UNCHANGED <<scenario, days, flags, doc>>
    BY DEF Unload, Restart, Inv, TypeOK, Writes
  <1>2. WatchTyped(watch) /\ SaidOnce(watch.registry)
    BY WatchFacts DEF Held
  <1>3. /\ WatchTyped(watch') /\ Held(watch') /\ watch'.memory = NoMemory
        /\ \A i \in Issues : Ignored(watch.registry, i) => Ignored(watch'.registry, i)
    <2>1. CASE Unload
      <3>1. watch' = Forgotten(watch)
        BY <2>1 DEF Unload
      <3>2. watch'.memory = NoMemory
        BY <1>2, <3>1 DEF Forgotten, WatchTyped
      <3>3. QED
        BY <1>2, <3>1, <3>2, ForgottenEffect
    <2>2. CASE Restart
      <3>1. watch' = [Forgotten(watch) EXCEPT !.registry = Restarted(@)]
        BY <2>2 DEF Restart
      <3>2. watch'.memory = NoMemory
        BY <1>2, <3>1 DEF Forgotten, WatchTyped
      <3>3. QED
        BY <1>2, <3>1, <3>2, RestartedEffect
    <2>3. QED
      BY <2>1, <2>2
  <1>4. TypeOK'
    BY <1>1, <1>3 DEF Inv, TypeOK
  <1>5. ~Loaded'
    BY <1>1 DEF Loaded
  <1>6. Inv'
    BY <1>1, <1>3, <1>4, <1>5, UnloadedStep
  <1>7. QED
    BY <1>3, <1>6, SilentCause

LEMMA SetUpStep ==
  ASSUME Inv, SetUpEntry
  PROVE  Inv' /\ SpeaksForCause
  <1>1. PICK d \in Nat \cup {None}, h \in Hours \cup {None} :
          /\ days' = d /\ doc' = h
          /\ watch' = SetUp(watch.registry, d, flags, h)
    <2>1. scenario.readings \subseteq Nat \cup {None}
      BY ScenarioTyped DEF Inv
    <2>2. FirstSettings \subseteq Hours \cup {None}
      BY WatchFacts DEF FirstSettings
    <2>3. QED
      BY <2>1, <2>2 DEF SetUpEntry
  <1>2. /\ entry = "unloaded" /\ entry' = "loaded"
        /\ UNCHANGED <<scenario, result, flags, device, poll, write, dialog>>
    BY DEF SetUpEntry
  <1>3. result = None /\ ~LeakKnown(result)
    BY <1>2 DEF Inv, TypeOK, Loaded, LeakKnown
  <1> DEFINE g == watch.registry
  <1>4. RegistryTyped(g) /\ SaidOnce(g) /\ flags \in Flags
    BY WatchFacts DEF WatchTyped, Held
  <1>5. watch' = SetUp(g, d, flags, h)
    BY <1>1
  <1> HIDE DEF g
  <1>6. /\ WatchTyped(watch') /\ Held(watch')
        /\ watch'.memory.salt.tier = NextTier("none", d)
        /\ Spoken(g, watch'.registry, "salt") => NextTier("none", d) = "none"
        /\ KeepsIgnores(g, watch'.registry, None, flags)
    BY <1>4, <1>5, SetUpEffect
  <1>7. TypeOK'
    BY <1>1, <1>2, <1>6 DEF Inv, TypeOK, Loaded
  <1> DEFINE tier == NextTier("none", d)
  <1>8. /\ tier = "warning" => d # None /\ d > CriticalDays
        /\ d # None /\ d > CriticalDays + Hysteresis /\ d =< WarningDays => tier = "warning"
        /\ tier = "none" => d = None \/ d > WarningDays
    BY TierTyped, NoneAssumption
  <1> HIDE DEF tier
  <1>9. Salted'
    BY <1>1, <1>6, <1>8 DEF Salted, tier
  <1>10. OnsetReported' /\ AdviceIsCurrent'
    BY <1>2, <1>3 DEF OnsetReported, RunsUnseen, LeakKnown, AdviceIsCurrent
  <1>11. Inv'
    BY <1>2, <1>6, <1>7, <1>9, <1>10
    DEF Inv, NothingRemembered, RemovedEntryLeavesNothing, Loaded
  <1>12. Spoken(g, watch'.registry, "salt") => ReasonGone("salt")'
    BY <1>1, <1>6, <1>8 DEF ReasonGone, tier
  <1>13. KeepsIgnores(watch.registry, watch'.registry, result', flags')
    BY <1>2, <1>3, <1>6 DEF g
  <1>14. SpeaksForCause
    BY <1>12, <1>13, KeepsCause DEF g
  <1>15. QED
    BY <1>11, <1>14

LEMMA RemoveStep ==
  ASSUME Inv, RemoveEntry
  PROVE  Inv' /\ SpeaksForCause
  <1>1. /\ entry = "unloaded" /\ entry' = "removed" /\ ~Loaded /\ ~Loaded'
        /\ watch' = [watch EXCEPT !.registry = RemoveIssues(@)]
        /\ UNCHANGED <<scenario, days, result, flags, device, doc, poll, write, dialog>>
    BY DEF RemoveEntry, documents, Loaded
  <1>2. WatchTyped(watch) /\ Held(watch) /\ watch.memory = NoMemory
    BY <1>1, WatchFacts
  <1>3. WatchTyped(watch') /\ Held(watch') /\ watch'.registry = NoIssues
    BY <1>1, <1>2, RemovedEffect
  <1>4. watch'.memory = NoMemory
    BY <1>1, <1>2 DEF WatchTyped
  <1>5. TypeOK'
    BY <1>1, <1>3 DEF Inv, TypeOK
  <1>6. Inv'
    BY <1>1, <1>3, <1>4, <1>5, UnloadedStep
  <1>7. SpeaksForCause
    BY <1>1 DEF SpeaksForCause, ReasonGone
  <1>8. QED
    BY <1>6, <1>7

-----------------------------------------------------------------------------
(* The theorems.                                                           *)

LEMMA IssueStep ==
  ASSUME Inv, [Next]_vars
  PROVE  Inv' /\ SpeaksForCause
  <1>1. CASE SaltPoll
    BY <1>1, SaltStep
  <1>2. CASE EnginePass \/ FlagsChange
    BY <1>2, PublishedStep DEF EnginePass, FlagsChange
  <1>3. CASE PollEnds \/ PollFails
    <2>1. Loaded
      BY <1>3 DEF PollEnds, PollFails, Inv, TypeOK
    <2>2. QED
      BY <1>3, <2>1, HeardStep
  <1>4. CASE WriteAnswers
    BY <1>4, AnsweredStep
  <1>5. CASE \/ PollStarts \/ UserWrites \/ WriteFails
             \/ OpenDialog \/ LeaveDialog \/ ConfirmQuiet
             \/ UNCHANGED vars
    BY <1>5, FrameStep
  <1>6. CASE IgnoreIssue
    BY <1>6, IgnoreStep
  <1>7. CASE ConfirmDefer
    BY <1>7, ConfirmDeferStep
  <1>8. CASE Unload \/ Restart
    BY <1>8, UnloadStep
  <1>9. CASE SetUpEntry
    BY <1>9, SetUpStep
  <1>10. CASE RemoveEntry
    BY <1>10, RemoveStep
  <1>11. QED
    BY <1>1, <1>2, <1>3, <1>4, <1>5, <1>6, <1>7, <1>8, <1>9, <1>10 DEF Next

LEMMA EscalationStep ==
  ASSUME Inv, [Next]_vars, Loaded, Loaded',
         days # None, days > CriticalDays + Hysteresis, days =< WarningDays,
         days' # None, days' =< CriticalDays
  PROVE  Standing(watch'.registry, "salt") /\ ~Ignored(watch'.registry, "salt")
  <1>1. days \in Nat /\ days' # days
    BY WatcherAssumption DEF Inv, TypeOK
  <1>2. SaltPoll
    <2>1. ~SetUpEntry
      BY DEF SetUpEntry, Loaded
    <2>2. QED
      BY <1>1, <2>1
      DEF Next, vars, documents, EnginePass, FlagsChange, PollStarts, PollEnds, PollFails,
          UserWrites, WriteAnswers, WriteFails, IgnoreIssue, OpenDialog, LeaveDialog,
          ConfirmDefer, ConfirmQuiet, Unload, Restart, RemoveEntry
  <1>3. PICK d \in Nat \cup {None} : days' = d /\ watch' = WatchSalt(watch, d)
    BY <1>2, ScenarioTyped DEF SaltPoll, Inv
  <1> DEFINE tier == watch.memory.salt.tier
             new == NextTier(tier, d)
  <1>4. WatchTyped(watch) /\ tier = "warning"
    BY WatchFacts DEF Inv, Salted
  <1>5. new = "critical"
    BY <1>3, <1>4, TierTyped
  <1>6. Escalates(tier, new)
    BY <1>4, <1>5 DEF Escalates
  <1>7. QED
    BY <1>3, <1>4, <1>6, SaltEffect

\* The invariant Inv holds of every behaviour.
LEMMA InvHolds == Spec => []Inv
  <1>1. Init => Inv
    BY InitInv
  <1>2. Inv /\ [Next]_vars => Inv'
    BY IssueStep
  <1>3. QED
    BY <1>1, <1>2, PTL DEF Spec

\* What the watchers, the coordinators and the dialogs hold keeps its type, over
\* reloads, restarts and the removal of the entry (issues.py, repairs.py).
THEOREM RepairsTyping == Spec => []TypeOK
  <1>1. Inv => TypeOK
    BY DEF Inv
  <1>2. QED
    BY <1>1, InvHolds, PTL

\* While a load knows of water running through an empty house, the issue stands
\* and its event has been fired for this onset exactly once, however often the
\* engine and the scheduler notify (async_setup_leak_away_issues).
THEOREM EmptyHouseLeaksAreTold == Spec => []AwayLeakIsToldOnce
  <1>1. Inv => AwayLeakIsToldOnce
    <2> SUFFICES ASSUME Inv PROVE AwayLeakIsToldOnce
      OBVIOUS
    <2>1. Told(watch) /\ AwayHeld(watch)
      BY DEF Inv, Held
    <2>2. watch.told =< 1
      BY <2>1 DEF Told
    <2>3. ASSUME Loaded, LeakKnown(result), result.leak = TRUE, Away(result, flags)
          PROVE  watch.told = 1 /\ Standing(watch.registry, "away")
      <3>1. RunsUnseen(result, flags)
        BY <2>3 DEF RunsUnseen
      <3>2. QED
        BY <2>1, <2>3, <3>1, WatchFacts DEF Told, AwayHeld
    <2>4. QED
      BY <2>2, <2>3 DEF AwayLeakIsToldOnce
  <1>2. QED
    BY <1>1, InvHolds, PTL

\* A proposal the integration can judge is today's: the document's hour, which the
\* grid calls busy, and the nearest free candidate (async_setup_regen_time_issues).
THEOREM ProposalsAreToday == Spec => []AdviceIsCurrent
  <1>1. Inv => AdviceIsCurrent
    BY DEF Inv
  <1>2. QED
    BY <1>1, InvHolds, PTL

\* The urgent issue and the one for an empty house never stand together, not even
\* between a reload and the first result after it (async_setup_leak_issues,
\* async_setup_leak_away_issues).
THEOREM OneLeakOneIssue == Spec => []LeakIsSaidOnce
  <1>1. Inv => LeakIsSaidOnce
    BY DEF Inv, Held, SaidOnce, LeakIsSaidOnce
  <1>2. QED
    BY <1>1, InvHolds, PTL

\* Whatever dialog or write is still open when the entry is removed, and whatever
\* becomes of it, no issue of the device is filed afterwards (async_remove_entry).
THEOREM RemovalIsClean == Spec => []RemovedEntryLeavesNothing
  <1>1. Inv => RemovedEntryLeavesNothing
    BY DEF Inv
  <1>2. QED
    BY <1>1, InvHolds, PTL

\* Salt that falls below the critical threshold while the integration watches is
\* shown, although the warning may have been ignored (async_setup_salt_issues).
THEOREM EscalationsAreShown == Spec => EscalationReachesTheUser
  <1>1. Inv /\ [Next]_vars
         => [(/\ Loaded /\ Loaded'
              /\ days # None /\ days > CriticalDays + Hysteresis /\ days =< WarningDays
              /\ days' # None /\ days' =< CriticalDays)
             => Standing(watch.registry', "salt") /\ ~Ignored(watch.registry', "salt")]_vars
    BY EscalationStep
  <1>2. QED
    BY <1>1, InvHolds, PTL DEF Spec, EscalationReachesTheUser

\* An issue the user ignored speaks again only when its reason is gone or the
\* salt escalates, over reloads, restarts and dialogs (issues.py).
THEOREM IgnoresAreRespected == Spec => IgnoredStaysIgnored
  <1>1. Inv /\ [Next]_vars
         => [\A i \in Issues \ {"quiet"} :
               Ignored(watch.registry, i) /\ ~Ignored(watch.registry', i)
                 => \/ ReasonGone(i)'
                    \/ i = "salt" /\ Loaded /\ days' < days /\ days' =< CriticalDays]_vars
    BY IssueStep DEF SpeaksForCause, Spoken
  <1>2. QED
    BY <1>1, InvHolds, PTL DEF Spec, IgnoredStaysIgnored
=============================================================================
