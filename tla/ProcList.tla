------------------------------ MODULE ProcList ------------------------------
(***************************************************************************)
(* The list of the processes of a group: sc_join hangs an sc_process at    *)
(* its head, sc_killLocalProc climbs down the list, lock by lock, to take  *)
(* its own entry out (subcontexts_core.c).  Module CleanupLog makes one    *)
(* step of this climb; here every access to a pointer that another process *)
(* may change is a step.                                                   *)
(*                                                                         *)
(* An entry is named after its process; Root stands for the root control   *)
(* struct, whose proc_list is next[Root] and whose lock is lock[Root].     *)
(* sc_free leaves the pid and the next pointer of an entry as they are and *)
(* zeroes its lock (the pages field of the list node lies there), so a     *)
(* process that still has a pointer to a freed entry goes on with it.      *)
(***************************************************************************)
EXTENDS Integers, FiniteSets

CONSTANTS
  Procs,
  Creator,    \* the process that called sc_init
  Root,
  Nil         \* NULL; as the owner of a lock: nobody

ASSUME ProcListAssumption ==
  /\ IsFiniteSet(Procs)
  /\ Creator \in Procs
  /\ Root \notin Procs
  /\ Nil \notin Procs \cup {Root}

VARIABLES
  next,         \* proc_list and the next pointers
  lock,         \* who holds the lock of an entry, or of the root struct
  proc_count,
  freed,        \* the entries that have been passed to sc_free
  pc,           \* where a process is
  prev,         \* prevProc and prevLock of sc_killLocalProc: the entry they are in
  cur,          \* curProc
  \* history
  age,          \* when an entry was put on the list
  stray,        \* somebody locked or changed a freed entry, or had it locked
  raced         \* somebody used a pointer that a leaver was about to change

vars == <<next, lock, proc_count, freed, pc, prev, cur, age, stray, raced>>

Entries == Procs \cup {Root}

Init ==
  /\ next = [e \in Entries |-> IF e = Root THEN Creator ELSE Nil]
  /\ lock = [e \in Entries |-> Nil]
  /\ proc_count = 1
  /\ freed = {}
  /\ pc = [p \in Procs |-> IF p = Creator THEN "member" ELSE "outside"]
  /\ prev = [p \in Procs |-> Root]
  /\ cur = [p \in Procs |-> Nil]
  /\ age = [e \in Entries |-> IF e = Creator THEN 1 ELSE 0]
  /\ stray = FALSE
  /\ raced = FALSE

\* A leaver has found itself and given up the lock of the entry before; the
\* pointer in that entry is still to be changed.
Window(p) == pc[p] = "look" /\ cur[p] = p
Exposed(e, self) == \E q \in Procs \ {self} : Window(q) /\ prev[q] = e

-----------------------------------------------------------------------------

\* sc_join enters the list, at its head.
MUT_Register_second(p) ==
  LET head == next[Root]
  IN /\ pc[p] = "outside"
     /\ lock[Root] = Nil
     /\ proc_count' = proc_count + 1
     /\ next' = IF head = Nil THEN [next EXCEPT ![Root] = p]
                ELSE [next EXCEPT ![head] = p, ![p] = next[head]]
     /\ age' = [age EXCEPT ![p] = Cardinality({q \in Procs : pc[q] # "outside"}) + 1]
     /\ raced' = (raced \/ Exposed(Root, p))
     /\ pc' = [pc EXCEPT ![p] = "member"]
     /\ UNCHANGED <<lock, freed, prev, cur, stray>>

MUT_Register_alone(p) ==
  /\ pc[p] = "outside"
  /\ lock[Root] = Nil
  /\ proc_count' = proc_count + 1
  /\ next' = [next EXCEPT ![Root] = p]
  /\ age' = [age EXCEPT ![p] = Cardinality({q \in Procs : pc[q] # "outside"}) + 1]
  /\ raced' = (raced \/ Exposed(Root, p))
  /\ pc' = [pc EXCEPT ![p] = "member"]
  /\ UNCHANGED <<lock, freed, prev, cur, stray>>

Register(p) ==
  /\ pc[p] = "outside"
  /\ lock[Root] = Nil
  /\ proc_count' = proc_count + 1
  /\ next' = [next EXCEPT ![p] = next[Root], ![Root] = p]
  /\ age' = [age EXCEPT ![p] = Cardinality({q \in Procs : pc[q] # "outside"}) + 1]
  /\ raced' = (raced \/ Exposed(Root, p))
  /\ pc' = [pc EXCEPT ![p] = "member"]
  /\ UNCHANGED <<lock, freed, prev, cur, stray>>

-----------------------------------------------------------------------------
(* sc_killLocalProc                                                        *)

\* The next entry is curProc: climb to it, or give up at the end of the list.
GoTo(p, entry) ==
  /\ cur' = [cur EXCEPT ![p] = entry]
  /\ pc' = [pc EXCEPT ![p] = IF entry = Nil THEN "missing" ELSE "climb"]

\* Lock the root struct (when the cleanup log is flushed, see CleanupLog).
LeaveStart(p) ==
  /\ pc[p] = "member"
  /\ lock[Root] = Nil
  /\ lock' = [lock EXCEPT ![Root] = p]
  /\ proc_count' = proc_count - 1
  /\ prev' = [prev EXCEPT ![p] = Root]
  /\ GoTo(p, next[Root])
  /\ raced' = (raced \/ Exposed(Root, p))
  /\ UNCHANGED <<next, freed, age, stray>>

\* Lock curProc, and unlock what is before it.
Climb(p) ==
  /\ pc[p] = "climb"
  /\ lock[cur[p]] = Nil
  /\ lock' = [lock EXCEPT ![cur[p]] = p, ![prev[p]] = Nil]
  /\ stray' = (stray \/ cur[p] \in freed)
  /\ pc' = [pc EXCEPT ![p] = "look"]
  /\ UNCHANGED <<next, proc_count, freed, prev, cur, age, raced>>

\* It is the entry of another process: go on.
Look(p) ==
  /\ pc[p] = "look"
  /\ cur[p] # p
  /\ prev' = [prev EXCEPT ![p] = cur[p]]
  /\ GoTo(p, next[cur[p]])
  /\ raced' = (raced \/ Exposed(cur[p], p))
  /\ UNCHANGED <<next, lock, proc_count, freed, age, stray>>

\* It is this process's own: change the pointer in the entry before.
Unlink(p) ==
  /\ Window(p)
  /\ next' = [next EXCEPT ![prev[p]] = next[p]]
  /\ stray' = (stray \/ prev[p] \in freed)
  /\ raced' = (raced \/ Exposed(p, p))
  /\ pc' = [pc EXCEPT ![p] = "unlock"]
  /\ UNCHANGED <<lock, proc_count, freed, prev, cur, age>>

\* Unlock the entry.
MUT_Unlock_decrement(p) ==
  /\ pc[p] = "unlock"
  /\ lock' = [lock EXCEPT ![p] = Nil]
  /\ proc_count' = proc_count - 1
  /\ pc' = [pc EXCEPT ![p] = "free"]
  /\ UNCHANGED <<next, freed, prev, cur, age, stray, raced>>

Unlock(p) ==
  /\ pc[p] = "unlock"
  /\ lock' = [lock EXCEPT ![p] = Nil]
  /\ pc' = [pc EXCEPT ![p] = "free"]
  /\ UNCHANGED <<next, proc_count, freed, prev, cur, age, stray, raced>>

\* sc_free the entry: its lock is zero, whoever may have taken it meanwhile.
Free(p) ==
  /\ pc[p] = "free"
  /\ lock' = [lock EXCEPT ![p] = Nil]
  /\ freed' = freed \cup {p}
  /\ stray' = (stray \/ lock[p] # Nil)
  /\ pc' = [pc EXCEPT ![p] = "gone"]
  /\ UNCHANGED <<next, proc_count, prev, cur, age, raced>>

\* "Could not find my process ID in the process list": nothing is freed.
MUT_Missing_keep(p) ==
  /\ pc[p] = "missing"
  /\ pc' = [pc EXCEPT ![p] = "gone"]
  /\ UNCHANGED <<next, lock, proc_count, freed, prev, cur, age, stray, raced>>

Missing(p) ==
  /\ pc[p] = "missing"
  /\ lock' = [lock EXCEPT ![prev[p]] = Nil]
  /\ pc' = [pc EXCEPT ![p] = "gone"]
  /\ UNCHANGED <<next, proc_count, freed, prev, cur, age, stray, raced>>

Leaving(p) == Climb(p) \/ Look(p) \/ Unlink(p) \/ Unlock(p) \/ Free(p) \/ Missing(p)

Next == \E p \in Procs : Register(p) \/ LeaveStart(p) \/ Leaving(p)

\* A process that is leaving runs on until it has left: it is in a signal handler.
Spec == Init /\ [][Next]_vars /\ \A p \in Procs : WF_vars(Leaving(p))

-----------------------------------------------------------------------------

\* The variables have their types.
TypeOK ==
  /\ next \in [Entries -> Procs \cup {Nil}]
  /\ lock \in [Entries -> Procs \cup {Nil}]
  /\ proc_count \in 0 .. Cardinality(Procs)
  /\ freed \in SUBSET Procs
  /\ pc \in [Procs -> {"outside", "member", "climb", "look", "unlock", "free",
                       "missing", "gone"}]
  /\ prev \in [Procs -> Entries]
  /\ cur \in [Procs -> Procs \cup {Nil}]
  /\ age \in [Entries -> Nat]
  /\ stray \in BOOLEAN
  /\ raced \in BOOLEAN

\* Whatever leavers and joiners do to each other, freed entries included, a pointer
\* leads only to an older entry.  So there is no cycle in the list, no climb goes on
\* for ever, and locks are always taken in the same order.
Descending ==
  \A p \in Procs :
    /\ next[p] # Nil => age[next[p]] < age[p]
    /\ pc[p] \in {"climb", "look"} /\ prev[p] # Root => age[cur[p]] < age[prev[p]]

\* Every leaver comes to an end, its locks released, even when its own entry or the
\* entries before it are no longer where the list was.
LeaversEnd == \A p \in Procs : pc[p] = "climb" ~> pc[p] = "gone"

\* Which entries a walk from the head meets.
Listed ==
  {p \in Procs : \A met \in SUBSET Procs :
     /\ next[Root] \in met \cup {Nil}
     /\ \A e \in met : next[e] \in met \cup {Nil}
     => p \in met}

\* "A linked list, containing metadata for all of the active processes."
ListsActive == \A p \in Procs : pc[p] = "member" => p \in Listed

\* All that can go wrong goes wrong through a pointer that a leaver changes without
\* the lock of the entry it is in: as long as nobody has used such a pointer in
\* between, the list has the members and those who are leaving, no freed entry is
\* on it or is used, and every leaver finds itself.
SoundUnlessRaced ==
  ~ raced =>
    /\ ListsActive
    /\ Listed \cap freed = {}
    /\ ~ stray
    /\ \A p \in Procs : pc[p] # "missing"
=============================================================================
