----------------------------- MODULE Reservation -----------------------------
(***************************************************************************)
(* What the group of processes promises about reserved addresses, without  *)
(* log, locks or threads: a new range is proposed by one member, accepted  *)
(* by each of the others in its own time, and becomes available when all   *)
(* the members hold it.  A newcomer holds what is available from the       *)
(* start; a member leaves only when it has accepted what is pending.       *)
(***************************************************************************)
EXTENDS Integers

CONSTANTS Procs

VARIABLES
  group,      \* the members
  pending,    \* the range under way, 0 if none
  available,  \* the ranges that anybody may use
  held        \* the ranges each process has mapped

rvars == <<group, pending, available, held>>

RInit ==
  /\ group \in SUBSET Procs
  /\ pending = 0
  /\ available = {}
  /\ held = [p \in Procs |-> {}]

Propose(p) ==
  /\ p \in group
  /\ pending = 0
  /\ pending' \in Nat \ (available \cup {0})
  /\ held' = [held EXCEPT ![p] = @ \cup {pending'}]
  /\ UNCHANGED <<group, available>>

Accept(p) ==
  /\ p \in group
  /\ pending # 0
  /\ pending \notin held[p]
  /\ held' = [held EXCEPT ![p] = @ \cup {pending}]
  /\ UNCHANGED <<group, pending, available>>

Publish ==
  /\ pending # 0
  /\ \A p \in group : pending \in held[p]
  /\ available' = available \cup {pending}
  /\ pending' = 0
  /\ UNCHANGED <<group, held>>

Enter(p) ==
  /\ p \notin group
  /\ pending = 0
  /\ group' = group \cup {p}
  /\ held' = [held EXCEPT ![p] = available]
  /\ UNCHANGED <<pending, available>>

Leave(p) ==
  /\ p \in group
  /\ pending = 0 \/ pending \in held[p]
  /\ group' = group \ {p}
  /\ UNCHANGED <<pending, available, held>>

RNext ==
  \/ Publish
  \/ \E p \in Procs : Propose(p) \/ Accept(p) \/ Enter(p) \/ Leave(p)

RSpec == RInit /\ [][RNext]_rvars

\* Every member holds every available range: "all processes agree" on them.
Agreed == \A p \in group : available \subseteq held[p]
=============================================================================
