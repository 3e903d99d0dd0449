------------------------------- MODULE Paging -------------------------------
(***************************************************************************)
(* Who has mapped what of a subcontext (subcontexts_core.c): sc_join walks *)
(* the lists of regions and maps them, sc_mmap turns reserved addresses    *)
(* into an active region that nobody has mapped yet, and the SIGSEGV       *)
(* handler maps a region when a thread first touches it.                   *)
(*                                                                         *)
(* Addresses are page numbers, page 0 is the first page of the subcontext. *)
(* A shared lock is the set of the threads that hold it; the set outlives  *)
(* a thread that dies with the lock.  The exclusive lock of a region is    *)
(* only taken for one assignment, with the root lock held, so it shows     *)
(* in the guard of that step alone.  The locks of reserved regions are     *)
(* only ever taken in shared mode, and are left out.                       *)
(***************************************************************************)
EXTENDS Integers, Sequences, FiniteSets

CONSTANTS
  Procs,
  Creator,        \* the process that called sc_init
  Threads,
  Owner,          \* the process of a thread
  Nil,
  Reserved,       \* the reserved regions, in the order of the list
  MmapPages,      \* the lengths that are asked of sc_mmap
  MaxRegions      \* a bound of the model: how many active regions there are

ASSUME PagingAssumption ==
  /\ Creator \in Procs
  /\ Owner \in [Threads -> Procs]
  /\ Nil \notin Threads
  /\ Reserved \in Seq([vaddr : Nat \ {0, 1}, len : Nat \ {0}, prot : {"none"}])
  /\ Reserved # << >>
  /\ MmapPages \subseteq Nat \ {0}
  /\ MaxRegions \in Nat /\ MaxRegions >= 2

VARIABLES
  \* the root control struct and the region structs, in the first page
  active_regions,
  reserved_regions,
  prealloc,       \* prealloc_proc is not NULL
  rootExclusive,  \* who has the root lock in exclusive mode
  rootShared,     \* and who in shared mode
  activeShared,   \* who has the lock of the i-th active region, in shared mode
  \* each process
  status,
  mapped,         \* the pages that show the backing file
  held,           \* the pages that are mapped with PROT_NONE
  prev_vaddr,     \* the static variable of the handler
  \* each thread
  pc,
  pos,            \* the region it has come to
  region,         \* the region that it adds, or has read
  fault,          \* the access that it is in the handler for
  \* history
  moved           \* what sc_mmap took from the reserved pages during a join

root == <<active_regions, reserved_regions, prealloc>>
locks == <<rootExclusive, rootShared, activeShared>>
maps == <<mapped, held>>
local == <<pos, region, fault>>
vars == <<root, locks, status, maps, prev_vaddr, pc, local, moved>>

Pages(r) == r.vaddr .. r.vaddr + r.len - 1
PagesOf(list) == UNION {Pages(list[i]) : i \in DOMAIN list}
ActivePages == PagesOf(active_regions)
Agreed == ActivePages \cup PagesOf(reserved_regions)

NoRegion == [vaddr |-> 0, len |-> 0, prot |-> "none"]
NoFault == [vaddr |-> 0, isWrite |-> FALSE]

\* sc_init, with the first call of sc_malloc.
Init ==
  /\ active_regions = <<[vaddr |-> 0, len |-> 1, prot |-> "rw"],
                        [vaddr |-> 1, len |-> 1, prot |-> "rw"]>>
  /\ reserved_regions = Reserved
  /\ prealloc = TRUE
  /\ rootExclusive = Nil
  /\ rootShared = {}
  /\ activeShared = [i \in 1 .. MaxRegions |-> {}]
  /\ status = [p \in Procs |-> IF p = Creator THEN "member" ELSE "outside"]
  /\ mapped = [p \in Procs |-> IF p = Creator THEN {0, 1} ELSE {}]
  /\ held = [p \in Procs |-> IF p = Creator THEN PagesOf(reserved_regions) ELSE {}]
  /\ prev_vaddr = [p \in Procs |-> 0]
  /\ pc = [t \in Threads |-> "run"]
  /\ pos = [t \in Threads |-> 0]
  /\ region = [t \in Threads |-> NoRegion]
  /\ fault = [t \in Threads |-> NoFault]
  /\ moved = [p \in Procs |-> {}]

At(t, label) == pc[t] = label /\ status[Owner[t]] \in {"member", "joining"}
Goto(t, label) == pc' = [pc EXCEPT ![t] = label]
Enter(t, how) == status' = [status EXCEPT ![Owner[t]] = how]

\* The process ends, or is left without the subcontext; nothing unlocks its locks.
End(t, how) ==
  LET p == Owner[t]
      Reset(f, value) == [u \in Threads |-> IF Owner[u] = p THEN value ELSE f[u]]
  IN /\ status' = [status EXCEPT ![p] = how]
     /\ mapped' = [mapped EXCEPT ![p] = {}]
     /\ held' = [held EXCEPT ![p] = {}]
     /\ prev_vaddr' = [prev_vaddr EXCEPT ![p] = 0]
     /\ pc' = Reset(pc, "run")
     /\ pos' = Reset(pos, 0)
     /\ region' = Reset(region, NoRegion)
     /\ fault' = Reset(fault, NoFault)
     /\ moved' = [moved EXCEPT ![p] = {}]

RootNotExclusive == rootExclusive = Nil
RootFree == rootExclusive = Nil /\ rootShared = {}

-----------------------------------------------------------------------------
(* sc_mmap (what else can fail in it is in module ScMemory)                *)

\* With the root lock: the pages come off the first reserved region.  The lock of
\* that region is not taken.
MUT_MmapTake_nocheck(t, len, prot) ==
  LET first == reserved_regions[1]
  IN /\ At(t, "run") /\ status[Owner[t]] = "member"
     /\ RootFree
     /\ Len(active_regions) < MaxRegions
     /\ rootExclusive' = t
     /\ region' = [region EXCEPT ![t] = [vaddr |-> first.vaddr, len |-> len, prot |-> prot]]
     /\ reserved_regions' =
          [reserved_regions EXCEPT ![1].vaddr = @ + len, ![1].len = @ - len]
     /\ Goto(t, "append")
     /\ UNCHANGED <<active_regions, prealloc, rootShared, activeShared,
                    status, maps, prev_vaddr, pos, fault, moved>>

MmapTake(t, len, prot) ==
  LET first == reserved_regions[1]
  IN /\ At(t, "run") /\ status[Owner[t]] = "member"
     /\ RootFree
     /\ Len(active_regions) < MaxRegions
     /\ first.len > len
     /\ rootExclusive' = t
     /\ region' = [region EXCEPT ![t] = [vaddr |-> first.vaddr, len |-> len, prot |-> prot]]
     /\ reserved_regions' =
          [reserved_regions EXCEPT ![1].vaddr = @ + len, ![1].len = @ - len]
     /\ moved' = [p \in Procs |->
          IF status[p] = "joining"
          THEN moved[p] \cup (first.vaddr .. first.vaddr + len - 1) ELSE moved[p]]
     /\ Goto(t, "append")
     /\ UNCHANGED <<active_regions, prealloc, rootShared, activeShared,
                    status, maps, prev_vaddr, pos, fault>>

\* With the lock of the last active region: hang the new one behind it.
MmapAppend(t) ==
  /\ At(t, "append")
  /\ activeShared[Len(active_regions)] = {}
  /\ active_regions' = Append(active_regions, region[t])
  /\ rootExclusive' = Nil
  /\ region' = [region EXCEPT ![t] = NoRegion]
  /\ Goto(t, "run")
  /\ UNCHANGED <<reserved_regions, prealloc, rootShared, activeShared,
                 status, maps, prev_vaddr, pos, fault, moved>>

-----------------------------------------------------------------------------
(* sc_join                                                                 *)

\* The subcontext is already mapped: return NULL, without unlocking the root.
JoinAgain(t) ==
  /\ At(t, "run") /\ status[Owner[t]] = "member"
  /\ RootNotExclusive
  /\ t \notin rootShared
  /\ rootShared' = rootShared \cup {t}
  /\ UNCHANGED <<root, rootExclusive, activeShared, status, maps,
                 prev_vaddr, pc, local, moved>>

\* The root struct cannot be mapped at its address, or prealloc_proc is NULL.
JoinFails(t) ==
  /\ pc[t] = "run" /\ status[Owner[t]] = "outside"
  /\ RootNotExclusive
  /\ End(t, "failed")
  /\ UNCHANGED <<root, locks>>

\* Claim prealloc_proc; lock the second active and the first reserved region, then
\* unlock the root.
JoinClaim(t) ==
  /\ pc[t] = "run" /\ status[Owner[t]] = "outside"
  /\ RootFree
  /\ prealloc
  /\ prealloc' = FALSE
  /\ Enter(t, "joining")
  /\ mapped' = [mapped EXCEPT ![Owner[t]] = {0}]
  /\ activeShared' = [activeShared EXCEPT ![2] = @ \cup {t}]
  /\ pos' = [pos EXCEPT ![t] = 2]
  /\ Goto(t, "walk_active")
  /\ UNCHANGED <<active_regions, reserved_regions, rootExclusive, rootShared, held,
                 prev_vaddr, region, fault, moved>>

\* Map an active region; lock the next, if there is one, and unlock this one.
MUT_WalkActive_early(t) ==
  LET i == pos[t]
      last == i >= Len(active_regions) - 1
  IN /\ At(t, "walk_active")
     /\ mapped' = [mapped EXCEPT ![Owner[t]] = @ \cup Pages(active_regions[i])]
     /\ activeShared' = IF last THEN [activeShared EXCEPT ![i] = @ \ {t}]
                        ELSE [activeShared EXCEPT ![i] = @ \ {t}, ![i + 1] = @ \cup {t}]
     /\ pos' = [pos EXCEPT ![t] = IF last THEN 1 ELSE i + 1]
     /\ Goto(t, IF last THEN "read_reserved" ELSE "walk_active")
     /\ UNCHANGED <<root, rootExclusive, rootShared, status, held,
                    prev_vaddr, region, fault, moved>>

MUT_WalkActive_keep(t) ==
  LET i == pos[t]
      last == i = Len(active_regions)
  IN /\ At(t, "walk_active")
     /\ mapped' = [mapped EXCEPT ![Owner[t]] = @ \cup Pages(active_regions[i])]
     /\ activeShared' = IF last THEN activeShared
                        ELSE [activeShared EXCEPT ![i] = @ \ {t}, ![i + 1] = @ \cup {t}]
     /\ pos' = [pos EXCEPT ![t] = IF last THEN 1 ELSE i + 1]
     /\ Goto(t, IF last THEN "read_reserved" ELSE "walk_active")
     /\ UNCHANGED <<root, rootExclusive, rootShared, status, held,
                    prev_vaddr, region, fault, moved>>

WalkActive(t) ==
  LET i == pos[t]
      last == i = Len(active_regions)
  IN /\ At(t, "walk_active")
     /\ mapped' = [mapped EXCEPT ![Owner[t]] = @ \cup Pages(active_regions[i])]
     /\ activeShared' = IF last THEN [activeShared EXCEPT ![i] = @ \ {t}]
                        ELSE [activeShared EXCEPT ![i] = @ \ {t}, ![i + 1] = @ \cup {t}]
     /\ pos' = [pos EXCEPT ![t] = IF last THEN 1 ELSE i + 1]
     /\ Goto(t, IF last THEN "read_reserved" ELSE "walk_active")
     /\ UNCHANGED <<root, rootExclusive, rootShared, status, held,
                    prev_vaddr, region, fault, moved>>

\* The addresses are in use for something else: return NULL, with the locks of this
\* region and of the first reserved one, and with the prealloc_proc.
WalkFails(t) ==
  /\ At(t, "walk_active") \/ At(t, "map_reserved")
  /\ End(t, "failed")
  /\ UNCHANGED <<root, locks>>

\* Hold the addresses of a reserved region.  Its fields are read as sc_mmap changes
\* them: the arguments of mmap() may be old or new, one by one; the result is
\* compared with the vaddr of now.
ReadReserved(t) ==
  /\ At(t, "read_reserved")
  /\ region' = [region EXCEPT ![t] = reserved_regions[pos[t]]]
  /\ Goto(t, "map_reserved")
  /\ UNCHANGED <<root, locks, status, maps, prev_vaddr, pos, fault, moved>>

MapReserved(t) ==
  LET i == pos[t]
      last == i = Len(reserved_regions)
      now == reserved_regions[i]
  IN /\ At(t, "map_reserved")
     /\ \E len \in {region[t].len, now.len} :
          held' = [held EXCEPT ![Owner[t]] = @ \cup (now.vaddr .. now.vaddr + len - 1)]
     /\ region' = [region EXCEPT ![t] = NoRegion]
     /\ pos' = [pos EXCEPT ![t] = IF last THEN 0 ELSE i + 1]
     /\ Goto(t, IF last THEN "register" ELSE "read_reserved")
     /\ UNCHANGED <<root, rootExclusive, rootShared, activeShared, status, mapped,
                    prev_vaddr, fault, moved>>

MapReservedOld(t) ==
  /\ At(t, "map_reserved")
  /\ region[t].vaddr # reserved_regions[pos[t]].vaddr
  /\ End(t, "failed")
  /\ UNCHANGED <<root, locks>>

\* Enter the group (module CleanupLog) and allocate the next prealloc_proc.
JoinDone(t) ==
  /\ At(t, "register")
  /\ RootFree
  /\ prealloc' = TRUE
  /\ Enter(t, "member")
  /\ Goto(t, "run")
  /\ UNCHANGED <<active_regions, reserved_regions, locks, maps, prev_vaddr, local, moved>>

-----------------------------------------------------------------------------
(* sc_signal_handler_SEGV                                                  *)

\* The handler gives up at once: NULL (TODO() ends here), an address that is not
\* mapped to anything, or an error code that makes no sense.
TouchWild(t) ==
  /\ At(t, "run") /\ status[Owner[t]] = "member"
  /\ Goto(t, "kill")
  /\ UNCHANGED <<root, locks, status, maps, prev_vaddr, local, moved>>

\* A page that is mapped with PROT_NONE, or a write to a region that is read-only.
Faults(p, vaddr, isWrite) ==
  \/ vaddr \in held[p]
  \/ /\ vaddr \in mapped[p]
     /\ isWrite
     /\ \E i \in DOMAIN active_regions :
          vaddr \in Pages(active_regions[i]) /\ active_regions[i].prot = "r"

\* A "recursive page fault": exit(3), without leaving the group.
TouchAgain(t, vaddr, isWrite) ==
  /\ At(t, "run") /\ status[Owner[t]] = "member"
  /\ Faults(Owner[t], vaddr, isWrite)
  /\ prev_vaddr[Owner[t]] = vaddr
  /\ End(t, "exited")
  /\ UNCHANGED <<root, locks>>

Touch(t, vaddr, isWrite) ==
  /\ At(t, "run") /\ status[Owner[t]] = "member"
  /\ Faults(Owner[t], vaddr, isWrite)
  /\ prev_vaddr[Owner[t]] # vaddr
  /\ prev_vaddr' = [prev_vaddr EXCEPT ![Owner[t]] = vaddr]
  /\ fault' = [fault EXCEPT ![t] = [vaddr |-> vaddr, isWrite |-> isWrite]]
  /\ Goto(t, "fault")
  /\ UNCHANGED <<root, locks, status, maps, pos, region, moved>>

\* Lock the root, lock the first region, unlock the root.
FaultStart(t) ==
  /\ At(t, "fault")
  /\ RootNotExclusive
  /\ activeShared' = [activeShared EXCEPT ![1] = @ \cup {t}]
  /\ pos' = [pos EXCEPT ![t] = 1]
  /\ Goto(t, "search")
  /\ UNCHANGED <<root, rootExclusive, rootShared, status, maps,
                 prev_vaddr, region, fault, moved>>

Here(t) == fault[t].vaddr \in Pages(active_regions[pos[t]])
Allowed(t) == fault[t].isWrite => active_regions[pos[t]].prot = "rw"

\* Not this region: leapfrog to the next.
SearchOn(t) ==
  /\ At(t, "search")
  /\ ~ Here(t)
  /\ pos[t] < Len(active_regions)
  /\ activeShared' = [activeShared EXCEPT ![pos[t]] = @ \ {t}, ![pos[t] + 1] = @ \cup {t}]
  /\ pos' = [pos EXCEPT ![t] = @ + 1]
  /\ UNCHANGED <<root, rootExclusive, rootShared, status, maps,
                 prev_vaddr, pc, region, fault, moved>>

\* The list ends: an address that is only reserved.  Unlock, and kill the process.
SearchEnds(t) ==
  /\ At(t, "search")
  /\ ~ Here(t)
  /\ pos[t] = Len(active_regions)
  /\ activeShared' = [activeShared EXCEPT ![pos[t]] = @ \ {t}]
  /\ pos' = [pos EXCEPT ![t] = 0]
  /\ Goto(t, "kill")
  /\ UNCHANGED <<root, rootExclusive, rootShared, status, maps,
                 prev_vaddr, region, fault, moved>>

\* The region does not allow the access: kill the process, with the lock.
SearchDenied(t) ==
  /\ At(t, "search")
  /\ Here(t)
  /\ ~ Allowed(t)
  /\ Goto(t, "kill")
  /\ UNCHANGED <<root, locks, status, maps, prev_vaddr, local, moved>>

\* Map the whole region over what is there, and unlock it.
SearchMaps(t) ==
  LET found == Pages(active_regions[pos[t]])
  IN /\ At(t, "search")
     /\ Here(t)
     /\ Allowed(t)
     /\ mapped' = [mapped EXCEPT ![Owner[t]] = @ \cup found]
     /\ held' = [held EXCEPT ![Owner[t]] = @ \ found]
     /\ activeShared' = [activeShared EXCEPT ![pos[t]] = @ \ {t}]
     /\ pos' = [pos EXCEPT ![t] = 0]
     /\ Goto(t, "return")
     /\ UNCHANGED <<root, rootExclusive, rootShared, status,
                    prev_vaddr, region, fault, moved>>

\* mmap() fails: exit(3), with the lock and without leaving the group.
SearchExits(t) ==
  /\ At(t, "search")
  /\ Here(t)
  /\ Allowed(t)
  /\ End(t, "exited")
  /\ UNCHANGED <<root, locks>>

\* The handler returns.
MUT_FaultReturns_keep(t) ==
  /\ At(t, "return")
  /\ fault' = [fault EXCEPT ![t] = NoFault]
  /\ Goto(t, "run")
  /\ UNCHANGED <<root, locks, status, maps, prev_vaddr, pos, region, moved>>

FaultReturns(t) ==
  /\ At(t, "return")
  /\ prev_vaddr' = [prev_vaddr EXCEPT ![Owner[t]] = 0]
  /\ fault' = [fault EXCEPT ![t] = NoFault]
  /\ Goto(t, "run")
  /\ UNCHANGED <<root, locks, status, maps, pos, region, moved>>

\* sc_killLocalProc: leave the group, under the root lock, and exit.
Kill(t) ==
  /\ At(t, "kill")
  /\ RootFree
  /\ End(t, "killed")
  /\ UNCHANGED <<root, locks>>

-----------------------------------------------------------------------------

\* What a thread does by itself once it is in one of the three functions.
Proceed(t) ==
  \/ MmapAppend(t)
  \/ WalkActive(t) \/ ReadReserved(t) \/ MapReserved(t) \/ JoinDone(t)
  \/ FaultStart(t) \/ SearchOn(t) \/ SearchEnds(t) \/ SearchDenied(t) \/ SearchMaps(t)
  \/ FaultReturns(t) \/ Kill(t)

Next ==
  \E t \in Threads :
    \/ \E len \in MmapPages, prot \in {"r", "rw"} : MmapTake(t, len, prot)
    \/ JoinAgain(t) \/ JoinFails(t) \/ JoinClaim(t) \/ WalkFails(t) \/ MapReservedOld(t)
    \/ TouchWild(t) \/ SearchExits(t)
    \/ \E vaddr \in Agreed, isWrite \in BOOLEAN :
         TouchAgain(t, vaddr, isWrite) \/ Touch(t, vaddr, isWrite)
    \/ Proceed(t)

\* Every thread that is not waiting for a lock runs on.
Spec == Init /\ [][Next]_vars /\ \A t \in Threads : WF_vars(Proceed(t))

-----------------------------------------------------------------------------

Region == [vaddr : Nat, len : Nat, prot : {"r", "rw", "none"}]

\* The variables have their types.
TypeOK ==
  /\ active_regions \in Seq(Region)
  /\ reserved_regions \in Seq(Region)
  /\ prealloc \in BOOLEAN
  /\ rootExclusive \in Threads \cup {Nil}
  /\ rootShared \in SUBSET Threads
  /\ activeShared \in [1 .. MaxRegions -> SUBSET Threads]
  /\ status \in [Procs -> {"outside", "joining", "member", "failed", "exited", "killed"}]
  /\ mapped \in [Procs -> SUBSET Nat]
  /\ held \in [Procs -> SUBSET Nat]
  /\ prev_vaddr \in [Procs -> Nat]
  /\ pc \in [Threads -> {"run", "append", "walk_active", "read_reserved", "map_reserved",
                         "register", "fault", "search", "return", "kill"}]
  /\ pos \in [Threads -> Nat]
  /\ region \in [Threads -> Region]
  /\ fault \in [Threads -> [vaddr : Nat, isWrite : BOOLEAN]]
  /\ moved \in [Procs -> SUBSET Nat]

Members == {p \in Procs : status[p] = "member"}
Has(p) == mapped[p] \cup held[p]

\* "We need to hold page maps at all of the virtual addresses which the rest of the
\* processes are already using": a member holds every active and every reserved
\* page, also what became active after it had walked the lists, but for what
\* sc_mmap moved from the one list to the other during the walk.
HoldsAllUnlessMoved == \A p \in Members : Agreed \ Has(p) \subseteq moved[p]

InHandler(t) == pc[t] \in {"fault", "search", "return", "kill"}

\* prev_vaddr is the address of a fault that is being handled, or 0: so what is
\* called a recursive fault is one of two threads of the process at the same
\* address, and never an address whose fault was handled before.
RecursionIsReal ==
  \A p \in Members : prev_vaddr[p] # 0 =>
    \E t \in Threads : Owner[t] = p /\ InHandler(t) /\ fault[t].vaddr = prev_vaddr[p]

\* A lock that somebody waits for is never released: the root lock or that of the
\* last active region was kept by a failed join, an exit in the handler, a denied
\* access, or a second join of the same subcontext.
Dead == {"failed", "exited", "killed"}
LockLost ==
  \/ rootShared # {}
  \/ \E t \in activeShared[Len(active_regions)] \cup ({rootExclusive} \ {Nil}) :
       status[Owner[t]] \in Dead \/ pc[t] = "kill"

\* Unless such a lock is lost, sc_mmap and the handler come to an end: walkers with
\* shared locks and sc_mmap, which waits for them with the root lock, do not wait
\* for each other.
EndsUnlessLockLost ==
  \A t \in Threads :
    (pc[t] \in {"append", "fault", "search"}) ~>
      (pc[t] \in {"run", "kill"} \/ LockLost)
=============================================================================
