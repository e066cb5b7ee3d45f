---------------------------- MODULE IssueRegistry ----------------------------
(***************************************************************************)
(* Home Assistant's issue registry as issues.py uses it.  An issue is      *)
(* None, or what is filed under its id: whether it is shown, whether the   *)
(* user ignored it, and what it is about.  Creating updates in place and   *)
(* keeps an ignore, deleting forgets it, and a restart keeps it although   *)
(* the issue itself is only shown again when it is created again.          *)
(***************************************************************************)
CONSTANTS None, Issues

NoIssues == [i \in Issues |-> None]

Filed(registry, i) == registry[i] # None
Standing(registry, i) == Filed(registry, i) /\ registry[i].active
Ignored(registry, i) == Filed(registry, i) /\ registry[i].ignored

Create(registry, i, about) ==
  [registry EXCEPT ![i] = [active |-> TRUE, ignored |-> Ignored(registry, i), about |-> about]]
Delete(registry, i) == [registry EXCEPT ![i] = None]
Ignore(registry, i) == [registry EXCEPT ![i].ignored = TRUE]
Restarted(registry) ==
  [i \in Issues |-> IF Filed(registry, i) THEN [registry[i] EXCEPT !.active = FALSE] ELSE None]

=============================================================================
