---------------------------- MODULE PagingProofs ----------------------------
(***************************************************************************)
(* Proofs about module Paging, for any processes and threads, any lists of *)
(* regions and any requests of sc_mmap.                                    *)
(***************************************************************************)
EXTENDS Paging, TLAPS

Walking == {"walk_active", "read_reserved", "map_reserved", "register"}

\* A process that joins does so in one thread; the other functions are for members.
PlaceInv ==
  /\ \A t \in Threads : pc[t] \in Walking => status[Owner[t]] = "joining"
  /\ \A t \in Threads : pc[t] \notin Walking \cup {"run"} => status[Owner[t]] = "member"
  /\ \A t, u \in Threads :
       pc[t] \in Walking /\ pc[u] \in Walking /\ Owner[t] = Owner[u] => t = u
  /\ \A p \in Procs : status[p] # "member" => prev_vaddr[p] = 0

\* Who is about to append has the root lock; whoever walks a list is in it.
ListInv ==
  /\ Len(active_regions) \in 2 .. MaxRegions
  /\ Pages(active_regions[1]) = {0}
  /\ Len(reserved_regions) = Len(Reserved)
  /\ \A t \in Threads :
       /\ pc[t] = "append" => rootExclusive = t /\ Len(active_regions) < MaxRegions
       /\ pc[t] = "walk_active" => pos[t] \in 2 .. Len(active_regions)
       /\ pc[t] = "search" => pos[t] \in 1 .. Len(active_regions)
       /\ pc[t] \in {"read_reserved", "map_reserved"} => pos[t] \in 1 .. Len(reserved_regions)

\* All that a walk has passed is mapped or held, unless it was moved; and nothing was
\* about to be appended when the walk began.
WalkInv(t, p) ==
  /\ \A u \in Threads : pc[u] = "append" => Pages(region[u]) \subseteq moved[p]
  /\ \A j \in 1 .. Len(active_regions) : pc[t] # "walk_active" \/ j < pos[t] =>
       Pages(active_regions[j]) \subseteq mapped[p] \cup moved[p]
  /\ \A j \in 1 .. Len(reserved_regions) :
       pc[t] = "register" \/ (pc[t] \in {"read_reserved", "map_reserved"} /\ j < pos[t]) =>
         Pages(reserved_regions[j]) \subseteq held[p] \cup moved[p]
  /\ pc[t] = "map_reserved" => region[t].len >= reserved_regions[pos[t]].len

JoinInv == \A t \in Threads, p \in Procs : pc[t] \in Walking /\ p = Owner[t] => WalkInv(t, p)

\* The pages that sc_mmap has taken from one list and not yet put into the other are
\* still held.
MemberInv ==
  \A p \in Procs : status[p] = "member" =>
    /\ \A j \in 1 .. Len(active_regions) : Pages(active_regions[j]) \subseteq Has(p) \cup moved[p]
    /\ \A j \in 1 .. Len(reserved_regions) : Pages(reserved_regions[j]) \subseteq Has(p) \cup moved[p]
    /\ \A u \in Threads : pc[u] = "append" => Pages(region[u]) \subseteq Has(p) \cup moved[p]

PagingInv == TypeOK /\ PlaceInv /\ ListInv /\ JoinInv /\ MemberInv /\ RecursionIsReal

-----------------------------------------------------------------------------

LEMMA ThreadFacts ==
  ASSUME TypeOK, ListInv
  PROVE  /\ \A t \in Threads : Owner[t] \in Procs /\ t # Nil
         /\ Len(active_regions) \in Nat /\ Len(reserved_regions) \in Nat
         /\ MaxRegions \in Nat /\ 1 <= Len(reserved_regions)
         /\ \A j \in 1 .. Len(active_regions) : active_regions[j] \in Region
         /\ \A j \in 1 .. Len(reserved_regions) : reserved_regions[j] \in Region
<1>1. Len(Reserved) \in Nat /\ 1 <= Len(Reserved)
  BY PagingAssumption
<1> QED
  BY <1>1, PagingAssumption DEF TypeOK, ListInv

\* Steps of a member that leave both lists alone and map at most more.
LEMMA QuietStep ==
  ASSUME PagingInv, NEW t \in Threads, status[Owner[t]] = "member",
         NEW label \in {"run", "fault", "search", "return", "kill"},
         pc[t] \notin Walking, pc[t] # "append",
         \A u \in Threads : pc'[u] = IF u = t THEN label ELSE pc[u],
         \A u \in Threads : u # t => pos'[u] = pos[u],
         label = "search" => pos'[t] \in 1 .. Len(active_regions),
         UNCHANGED <<active_regions, reserved_regions, rootExclusive, status, region, moved>>,
         \A p \in Procs : p # Owner[t] => UNCHANGED <<mapped[p], held[p], prev_vaddr[p]>>,
         Has(Owner[t]) \subseteq mapped'[Owner[t]] \cup held'[Owner[t]]
  PROVE  PlaceInv' /\ ListInv' /\ JoinInv' /\ MemberInv'
<1>0. TypeOK /\ PlaceInv /\ ListInv /\ JoinInv /\ MemberInv
  BY DEF PagingInv
<1>1. /\ \A u \in Threads : Owner[u] \in Procs
      /\ \A u \in Threads : pc'[u] \in Walking => u # t /\ pc'[u] = pc[u] /\ Owner[u] # Owner[t]
      /\ \A u \in Threads : pc'[u] = "append" => u # t /\ pc'[u] = pc[u]
  BY <1>0, ThreadFacts DEF PlaceInv, Walking
<1>2. PlaceInv'
  BY <1>0, <1>1 DEF PlaceInv, Walking
<1>3. ListInv'
  BY <1>0, <1>1 DEF ListInv, Pages, Walking
<1>4. JoinInv'
  <2> SUFFICES ASSUME NEW u \in Threads, NEW p \in Procs, pc'[u] \in Walking, p = Owner[u]
               PROVE  WalkInv(u, p)'
    BY DEF JoinInv
  <2>1. u # t /\ pc'[u] = pc[u] /\ p # Owner[t] /\ mapped'[p] = mapped[p] /\ held'[p] = held[p]
        /\ pos'[u] = pos[u]
    BY <1>1
  <2>2. WalkInv(u, p)
    BY <1>0, <2>1 DEF JoinInv
  <2> QED
    BY <1>1, <2>1, <2>2 DEF WalkInv, Pages
<1>5. MemberInv'
  <2>1. \A p \in Procs : Has(p) \subseteq Has(p)'
    BY DEF Has
  <2> QED
    BY <1>0, <1>1, <2>1 DEF MemberInv, Pages
<1> QED
  BY <1>2, <1>3, <1>4, <1>5

\* The address of a fault that is being handled stays, until its handler returns.
LEMMA FaultKept ==
  ASSUME PagingInv, UNCHANGED <<status, prev_vaddr>>,
         \A u \in Threads : InHandler(u) => InHandler(u)' /\ fault'[u] = fault[u]
  PROVE  RecursionIsReal'
<1> SUFFICES ASSUME NEW p \in Members', prev_vaddr'[p] # 0
             PROVE  \E u \in Threads : Owner[u] = p /\ InHandler(u)' /\ fault'[u].vaddr = prev_vaddr'[p]
  BY DEF RecursionIsReal
<1>1. p \in Members /\ prev_vaddr[p] # 0
  BY DEF Members
<1>2. PICK u \in Threads : Owner[u] = p /\ InHandler(u) /\ fault[u].vaddr = prev_vaddr[p]
  BY <1>1 DEF PagingInv, RecursionIsReal
<1> QED
  BY <1>2

-----------------------------------------------------------------------------
(* The handler, and the steps that lead to it                              *)

LEMMA TouchStep ==
  ASSUME PagingInv, NEW t \in Threads, NEW vaddr \in Nat, NEW isWrite \in BOOLEAN,
         Touch(t, vaddr, isWrite)
  PROVE  PagingInv'
<1>0. TypeOK /\ Owner[t] \in Procs
  BY ThreadFacts DEF PagingInv
<1>1. /\ pc[t] = "run" /\ status[Owner[t]] = "member"
      /\ prev_vaddr' = [prev_vaddr EXCEPT ![Owner[t]] = vaddr]
      /\ fault' = [fault EXCEPT ![t] = [vaddr |-> vaddr, isWrite |-> isWrite]]
      /\ pc' = [pc EXCEPT ![t] = "fault"]
      /\ UNCHANGED <<root, locks, status, mapped, held, pos, region, moved>>
  BY DEF Touch, At, Goto, maps
<1>2. \A u \in Threads : pc'[u] = IF u = t THEN "fault" ELSE pc[u]
  BY <1>0, <1>1 DEF TypeOK
<1>3. \A p \in Procs : p # Owner[t] => prev_vaddr'[p] = prev_vaddr[p]
  BY <1>0, <1>1 DEF TypeOK
<1>4. TypeOK'
  <2>1. [vaddr |-> vaddr, isWrite |-> isWrite] \in [vaddr : Nat, isWrite : BOOLEAN]
    OBVIOUS
  <2>2. fault' \in [Threads -> [vaddr : Nat, isWrite : BOOLEAN]]
    BY <1>0, <1>1, <2>1 DEF TypeOK
  <2> QED
    BY <1>0, <1>1, <2>2 DEF TypeOK, root, locks
<1>5. PlaceInv' /\ ListInv' /\ JoinInv' /\ MemberInv'
  <2>1. UNCHANGED <<active_regions, reserved_regions, rootExclusive, status, region, moved, mapped, held, pos>>
    BY <1>1 DEF root, locks
  <2> QED
    BY <1>1, <1>2, <1>3, <2>1, QuietStep DEF Has, Walking
<1>6. RecursionIsReal'
  <2> SUFFICES ASSUME NEW p \in Members', prev_vaddr'[p] # 0
               PROVE  \E u \in Threads : Owner[u] = p /\ InHandler(u)' /\ fault'[u].vaddr = prev_vaddr'[p]
    BY DEF RecursionIsReal
  <2>1. CASE p = Owner[t]
    <3>1. InHandler(t)' /\ fault'[t].vaddr = vaddr /\ prev_vaddr'[p] = vaddr
      BY <1>0, <1>1, <1>2, <2>1 DEF InHandler, TypeOK
    <3> QED
      BY <2>1, <3>1
  <2>2. CASE p # Owner[t]
    <3>1. p \in Members /\ p \in Procs /\ prev_vaddr'[p] = prev_vaddr[p]
      BY <1>1, <1>3, <2>2 DEF Members
    <3>2. PICK u \in Threads : Owner[u] = p /\ InHandler(u) /\ fault[u].vaddr = prev_vaddr[p]
      BY <3>1 DEF PagingInv, RecursionIsReal
    <3>3. u # t /\ pc'[u] = pc[u] /\ fault'[u] = fault[u]
      BY <1>0, <1>1, <1>2, <2>2, <3>2 DEF TypeOK
    <3> QED
      BY <3>1, <3>2, <3>3 DEF InHandler
  <2> QED
    BY <2>1, <2>2
<1> QED
  BY <1>4, <1>5, <1>6 DEF PagingInv

\* The region that contains the address is looked for, and mapped over what held its
\* addresses.
LEMMA SearchStep ==
  ASSUME PagingInv, NEW t \in Threads,
         \/ FaultStart(t) \/ SearchOn(t) \/ SearchEnds(t) \/ SearchDenied(t) \/ SearchMaps(t)
  PROVE  PagingInv'
<1>0. TypeOK /\ Owner[t] \in Procs /\ PlaceInv /\ ListInv /\ MaxRegions \in Nat
      /\ Len(active_regions) \in Nat /\ Len(active_regions) <= MaxRegions
  BY ThreadFacts DEF PagingInv, ListInv
<1>1. /\ pc[t] \in {"fault", "search"}
      /\ UNCHANGED <<active_regions, reserved_regions, prealloc, rootExclusive, rootShared, status,
                     prev_vaddr, region, fault, moved>>
  BY DEF FaultStart, SearchOn, SearchEnds, SearchDenied, SearchMaps, At, root, locks, local
<1>2. status[Owner[t]] = "member" /\ pc[t] \notin Walking /\ pc[t] # "append"
  BY <1>0, <1>1 DEF PlaceInv, Walking
<1>3. PICK label \in {"search", "return", "kill"} :
        /\ pc' = [pc EXCEPT ![t] = label]
        /\ pos' = pos \/ \E i \in 0 .. Len(active_regions) : pos' = [pos EXCEPT ![t] = i]
        /\ label = "search" => pos'[t] \in 1 .. Len(active_regions)
  <2>1. CASE FaultStart(t)
    <3>1. 1 \in 1 .. Len(active_regions) /\ 1 \in 0 .. Len(active_regions)
      BY <1>0 DEF ListInv
    <3> QED
      BY <1>0, <2>1, <3>1 DEF FaultStart, Goto, TypeOK
  <2>2. CASE SearchOn(t)
    <3>1. pc[t] = "search" /\ pos[t] < Len(active_regions) /\ pos[t] \in 1 .. Len(active_regions)
      BY <1>0, <2>2 DEF SearchOn, At, ListInv
    <3>2. /\ pos[t] + 1 \in 1 .. Len(active_regions) /\ pos[t] + 1 \in 0 .. Len(active_regions)
      BY <1>0, <3>1
    <3>3. pc' = [pc EXCEPT ![t] = "search"]
      BY <1>0, <2>2, <3>1 DEF SearchOn, TypeOK
    <3>4. pos' = [pos EXCEPT ![t] = pos[t] + 1]
      BY <2>2 DEF SearchOn
    <3>5. pos'[t] = pos[t] + 1
      BY <1>0, <3>4 DEF TypeOK
    <3> QED
      BY <3>2, <3>3, <3>4, <3>5
  <2>3. CASE SearchEnds(t) \/ SearchMaps(t)
    <3>1. pos' = [pos EXCEPT ![t] = 0] /\ 0 \in 0 .. Len(active_regions)
      BY <1>0, <2>3 DEF SearchEnds, SearchMaps
    <3>2. \E label \in {"return", "kill"} : pc' = [pc EXCEPT ![t] = label]
      BY <2>3 DEF SearchEnds, SearchMaps, Goto
    <3> QED
      BY <3>1, <3>2
  <2>4. CASE SearchDenied(t)
    BY <2>4 DEF SearchDenied, Goto, local
  <2> QED
    BY <2>1, <2>2, <2>3, <2>4
<1>4. /\ \A u \in Threads : pc'[u] = IF u = t THEN label ELSE pc[u]
      /\ \A u \in Threads : u # t => pos'[u] = pos[u]
      /\ pos' \in [Threads -> Nat]
  BY <1>0, <1>3 DEF TypeOK
<1>5. /\ mapped' \in [Procs -> SUBSET Nat] /\ held' \in [Procs -> SUBSET Nat]
      /\ \A p \in Procs : p # Owner[t] => mapped'[p] = mapped[p] /\ held'[p] = held[p]
      /\ Has(Owner[t]) \subseteq mapped'[Owner[t]] \cup held'[Owner[t]]
  <2>1. CASE SearchMaps(t)
    <3> DEFINE found == Pages(active_regions[pos[t]])
    <3>1. /\ mapped' = [mapped EXCEPT ![Owner[t]] = @ \cup found]
          /\ held' = [held EXCEPT ![Owner[t]] = @ \ found]
          /\ pc[t] = "search"
      BY <2>1 DEF SearchMaps, At
    <3>2. found \in SUBSET Nat
      <4>1. active_regions[pos[t]] \in Region
        BY <1>0, <3>1, ThreadFacts DEF ListInv
      <4> QED
        BY <4>1 DEF Pages, Region
    <3> HIDE DEF found
    <3> QED
      BY <1>0, <3>1, <3>2 DEF TypeOK, Has
  <2>2. CASE ~ SearchMaps(t)
    <3>1. UNCHANGED <<mapped, held>>
      BY <2>2 DEF FaultStart, SearchOn, SearchEnds, SearchDenied, maps
    <3> QED
      BY <1>0, <3>1 DEF TypeOK, Has
  <2> QED
    BY <2>1, <2>2
<1>6. activeShared' \in [1 .. MaxRegions -> SUBSET Threads]
  <2>1. activeShared \in [1 .. MaxRegions -> SUBSET Threads]
    BY <1>0 DEF TypeOK
  <2>2. CASE FaultStart(t) \/ SearchEnds(t) \/ SearchMaps(t)
    <3>1. \E i, S : /\ activeShared' = [activeShared EXCEPT ![i] = S]
                    /\ S = activeShared[i] \cup {t} \/ S = activeShared[i] \ {t}
      BY <2>2 DEF FaultStart, SearchEnds, SearchMaps
    <3> QED
      BY <2>1, <3>1
  <2>3. CASE SearchOn(t)
    BY <2>1, <2>3 DEF SearchOn
  <2>4. CASE SearchDenied(t)
    BY <2>1, <2>4 DEF SearchDenied, locks
  <2> QED
    BY <2>2, <2>3, <2>4
<1>7. TypeOK'
  <2>1. pc' \in [Threads -> {"run", "append", "walk_active", "read_reserved", "map_reserved",
                             "register", "fault", "search", "return", "kill"}]
    BY <1>0, <1>3 DEF TypeOK
  <2> QED
    BY <1>0, <1>1, <1>4, <1>5, <1>6, <2>1 DEF TypeOK
<1>8. PlaceInv' /\ ListInv' /\ JoinInv' /\ MemberInv'
  BY <1>1, <1>2, <1>3, <1>4, <1>5, QuietStep
<1>9. RecursionIsReal'
  BY <1>1, <1>3, <1>4, FaultKept DEF InHandler
<1> QED
  BY <1>7, <1>8, <1>9 DEF PagingInv

LEMMA ReturnStep ==
  ASSUME PagingInv, NEW t \in Threads, FaultReturns(t)
  PROVE  PagingInv'
<1>0. TypeOK /\ Owner[t] \in Procs /\ PlaceInv
  BY ThreadFacts DEF PagingInv
<1>1. /\ pc[t] = "return"
      /\ prev_vaddr' = [prev_vaddr EXCEPT ![Owner[t]] = 0]
      /\ fault' = [fault EXCEPT ![t] = NoFault]
      /\ pc' = [pc EXCEPT ![t] = "run"]
      /\ UNCHANGED <<root, locks, status, mapped, held, pos, region, moved>>
  BY DEF FaultReturns, At, Goto, maps
<1>2. \A u \in Threads : pc'[u] = IF u = t THEN "run" ELSE pc[u]
  BY <1>0, <1>1 DEF TypeOK
<1>3. prev_vaddr'[Owner[t]] = 0 /\ \A p \in Procs : p # Owner[t] => prev_vaddr'[p] = prev_vaddr[p]
  BY <1>0, <1>1 DEF TypeOK
<1>4. TypeOK'
  <2>1. NoFault \in [vaddr : Nat, isWrite : BOOLEAN]
    BY DEF NoFault
  <2>2. fault' \in [Threads -> [vaddr : Nat, isWrite : BOOLEAN]]
    BY <1>0, <1>1, <2>1 DEF TypeOK
  <2> QED
    BY <1>0, <1>1, <2>2 DEF TypeOK, root, locks
<1>5. PlaceInv' /\ ListInv' /\ JoinInv' /\ MemberInv'
  <2>1. UNCHANGED <<active_regions, reserved_regions, rootExclusive, status, region, moved, mapped, held, pos>>
    BY <1>1 DEF root, locks
  <2>2. status[Owner[t]] = "member" /\ pc[t] \notin Walking
    BY <1>0, <1>1 DEF PlaceInv, Walking
  <2> QED
    BY <1>1, <1>2, <1>3, <2>1, <2>2, QuietStep DEF Has
<1>6. RecursionIsReal'
  <2> SUFFICES ASSUME NEW p \in Members', prev_vaddr'[p] # 0
               PROVE  \E u \in Threads : Owner[u] = p /\ InHandler(u)' /\ fault'[u].vaddr = prev_vaddr'[p]
    BY DEF RecursionIsReal
  <2>1. p # Owner[t] /\ p \in Members /\ p \in Procs /\ prev_vaddr'[p] = prev_vaddr[p]
    BY <1>1, <1>3 DEF Members
  <2>2. PICK u \in Threads : Owner[u] = p /\ InHandler(u) /\ fault[u].vaddr = prev_vaddr[p]
    BY <2>1 DEF PagingInv, RecursionIsReal
  <2>3. u # t /\ pc'[u] = pc[u] /\ fault'[u] = fault[u]
    BY <1>0, <1>1, <1>2, <2>1, <2>2 DEF TypeOK
  <2> QED
    BY <2>1, <2>2, <2>3 DEF InHandler
<1> QED
  BY <1>4, <1>5, <1>6 DEF PagingInv

\* A second join of a member, and the accesses that the handler gives up on.
LEMMA IdleStep ==
  ASSUME PagingInv, NEW t \in Threads, JoinAgain(t) \/ TouchWild(t)
  PROVE  PagingInv'
<1>0. TypeOK /\ Owner[t] \in Procs
  BY ThreadFacts DEF PagingInv
<1>1. /\ pc[t] = "run" /\ status[Owner[t]] = "member"
      /\ UNCHANGED <<root, rootExclusive, activeShared, status, mapped, held, prev_vaddr, pos, region,
                     fault, moved>>
      /\ rootShared' \in SUBSET Threads
  BY <1>0 DEF JoinAgain, TouchWild, At, TypeOK, maps, local, locks
<1>2. PICK label \in {"run", "kill"} : \A u \in Threads : pc'[u] = IF u = t THEN label ELSE pc[u]
  BY <1>0, <1>1 DEF JoinAgain, TouchWild, Goto, TypeOK
<1>3. TypeOK'
  <2>1. pc' \in [Threads -> {"run", "append", "walk_active", "read_reserved", "map_reserved",
                             "register", "fault", "search", "return", "kill"}]
    BY <1>0 DEF JoinAgain, TouchWild, Goto, TypeOK
  <2> QED
    BY <1>0, <1>1, <2>1 DEF TypeOK, root
<1>4. PlaceInv' /\ ListInv' /\ JoinInv' /\ MemberInv'
  <2>1. UNCHANGED <<active_regions, reserved_regions>>
    BY <1>1 DEF root
  <2> QED
    BY <1>1, <1>2, <2>1, QuietStep DEF Has, Walking
<1>5. RecursionIsReal'
  BY <1>1, <1>2, FaultKept DEF InHandler
<1> QED
  BY <1>3, <1>4, <1>5 DEF PagingInv

-----------------------------------------------------------------------------
(* A process ends                                                          *)

LEMMA EndStep ==
  ASSUME PagingInv, NEW t \in Threads, NEW how \in {"failed", "exited", "killed"},
         End(t, how), UNCHANGED <<root, locks>>
  PROVE  PagingInv'
<1> DEFINE q == Owner[t]
<1>0. TypeOK /\ q \in Procs /\ PlaceInv /\ ListInv /\ JoinInv /\ MemberInv /\ \A u \in Threads : Owner[u] \in Procs
  BY ThreadFacts DEF PagingInv
<1>1. /\ status' = [status EXCEPT ![q] = how]
      /\ mapped' = [mapped EXCEPT ![q] = {}]
      /\ held' = [held EXCEPT ![q] = {}]
      /\ prev_vaddr' = [prev_vaddr EXCEPT ![q] = 0]
      /\ moved' = [moved EXCEPT ![q] = {}]
      /\ pc' = [u \in Threads |-> IF Owner[u] = q THEN "run" ELSE pc[u]]
      /\ pos' = [u \in Threads |-> IF Owner[u] = q THEN 0 ELSE pos[u]]
      /\ region' = [u \in Threads |-> IF Owner[u] = q THEN NoRegion ELSE region[u]]
      /\ fault' = [u \in Threads |-> IF Owner[u] = q THEN NoFault ELSE fault[u]]
      /\ UNCHANGED <<active_regions, reserved_regions, prealloc, rootExclusive, rootShared, activeShared>>
  BY DEF End, root, locks
<1> HIDE DEF q
<1>2. /\ \A p \in Procs : p # q => /\ status'[p] = status[p] /\ mapped'[p] = mapped[p]
                                   /\ held'[p] = held[p] /\ moved'[p] = moved[p]
                                   /\ prev_vaddr'[p] = prev_vaddr[p]
      /\ status'[q] = how /\ prev_vaddr'[q] = 0
  BY <1>0, <1>1 DEF TypeOK
<1>3. /\ \A u \in Threads : Owner[u] = q => pc'[u] = "run"
      /\ \A u \in Threads : Owner[u] # q => /\ pc'[u] = pc[u] /\ pos'[u] = pos[u]
                                            /\ region'[u] = region[u] /\ fault'[u] = fault[u]
  BY <1>1
<1>4. TypeOK'
  <2>1. /\ NoRegion \in Region /\ NoFault \in [vaddr : Nat, isWrite : BOOLEAN]
    BY DEF NoRegion, NoFault, Region
  <2>2. region' \in [Threads -> Region] /\ fault' \in [Threads -> [vaddr : Nat, isWrite : BOOLEAN]]
    BY <1>0, <1>1, <2>1 DEF TypeOK
  <2>3. pc' \in [Threads -> {"run", "append", "walk_active", "read_reserved", "map_reserved",
                             "register", "fault", "search", "return", "kill"}]
        /\ pos' \in [Threads -> Nat]
    BY <1>0, <1>1 DEF TypeOK
  <2>4. /\ status' \in [Procs -> {"outside", "joining", "member", "failed", "exited", "killed"}]
        /\ mapped' \in [Procs -> SUBSET Nat] /\ held' \in [Procs -> SUBSET Nat]
        /\ prev_vaddr' \in [Procs -> Nat] /\ moved' \in [Procs -> SUBSET Nat]
    BY <1>0, <1>1 DEF TypeOK
  <2> QED
    BY <1>0, <1>1, <2>2, <2>3, <2>4 DEF TypeOK
<1>5. PlaceInv'
  <2>1. \A u \in Threads : pc'[u] # "run" => Owner[u] # q
    BY <1>3
  <2>2. \A u \in Threads : pc'[u] \in Walking => status'[Owner[u]] = "joining"
    BY <1>0, <1>2, <1>3, <2>1 DEF PlaceInv, Walking
  <2>3. \A u \in Threads : pc'[u] \notin Walking \cup {"run"} => status'[Owner[u]] = "member"
    BY <1>0, <1>2, <1>3, <2>1 DEF PlaceInv
  <2>4. \A u, v \in Threads : pc'[u] \in Walking /\ pc'[v] \in Walking /\ Owner[u] = Owner[v] => u = v
    BY <1>0, <1>3, <2>1 DEF PlaceInv, Walking
  <2>5. \A p \in Procs : status'[p] # "member" => prev_vaddr'[p] = 0
    BY <1>0, <1>2 DEF PlaceInv
  <2> QED
    BY <2>2, <2>3, <2>4, <2>5 DEF PlaceInv
<1>6. ListInv'
  BY <1>0, <1>1, <1>3 DEF ListInv, Pages
<1>7. JoinInv'
  <2> SUFFICES ASSUME NEW u \in Threads, NEW p \in Procs, pc'[u] \in Walking, p = Owner[u]
               PROVE  WalkInv(u, p)'
    BY DEF JoinInv
  <2>1. p # q
    BY <1>3 DEF Walking
  <2>2. pc[u] \in Walking
    BY <1>3, <2>1
  <2>3. WalkInv(u, p)
    BY <1>0, <2>2 DEF JoinInv
  <2>4. \A v \in Threads : pc'[v] = "append" => pc[v] = "append" /\ region'[v] = region[v]
    BY <1>3
  <2> QED
    BY <1>1, <1>2, <1>3, <2>1, <2>3, <2>4 DEF WalkInv, Pages
<1>8. MemberInv'
  <2> SUFFICES ASSUME NEW p \in Procs, status'[p] = "member"
               PROVE  /\ \A j \in 1 .. Len(active_regions) : Pages(active_regions[j]) \subseteq Has(p)' \cup moved'[p]
                      /\ \A j \in 1 .. Len(reserved_regions) : Pages(reserved_regions[j]) \subseteq Has(p)' \cup moved'[p]
                      /\ \A u \in Threads : pc'[u] = "append" => Pages(region'[u]) \subseteq Has(p)' \cup moved'[p]
    BY <1>1 DEF MemberInv, Pages
  <2>1. p # q /\ status[p] = "member" /\ Has(p)' = Has(p) /\ moved'[p] = moved[p]
    BY <1>2 DEF Has
  <2>2. \A v \in Threads : pc'[v] = "append" => pc[v] = "append" /\ region'[v] = region[v]
    BY <1>3
  <2> QED
    BY <1>0, <2>1, <2>2 DEF MemberInv
<1>9. RecursionIsReal'
  <2> SUFFICES ASSUME NEW p \in Members', prev_vaddr'[p] # 0
               PROVE  \E u \in Threads : Owner[u] = p /\ InHandler(u)' /\ fault'[u].vaddr = prev_vaddr'[p]
    BY DEF RecursionIsReal
  <2>1. p # q /\ p \in Members /\ p \in Procs /\ prev_vaddr'[p] = prev_vaddr[p]
    BY <1>2 DEF Members
  <2>2. PICK u \in Threads : Owner[u] = p /\ InHandler(u) /\ fault[u].vaddr = prev_vaddr[p]
    BY <2>1 DEF PagingInv, RecursionIsReal
  <2>3. pc'[u] = pc[u] /\ fault'[u] = fault[u]
    BY <1>3, <2>1, <2>2
  <2> QED
    BY <2>1, <2>2, <2>3 DEF InHandler
<1> QED
  BY <1>4, <1>5, <1>6, <1>7, <1>8, <1>9 DEF PagingInv

-----------------------------------------------------------------------------
(* sc_mmap                                                                 *)

LEMMA MmapTakeStep ==
  ASSUME PagingInv, NEW t \in Threads, NEW len \in MmapPages, NEW prot \in {"r", "rw"},
         MmapTake(t, len, prot)
  PROVE  PagingInv'
<1> DEFINE first == reserved_regions[1]
<1> DEFINE new == [vaddr |-> first.vaddr, len |-> len, prot |-> prot]
<1> DEFINE rest == [first EXCEPT !.vaddr = @ + len, !.len = @ - len]
<1>0. /\ TypeOK /\ Owner[t] \in Procs /\ PlaceInv /\ ListInv /\ JoinInv /\ MemberInv /\ t # Nil
      /\ len \in Nat /\ Len(reserved_regions) \in Nat /\ 1 \in 1 .. Len(reserved_regions)
      /\ \A u \in Threads : Owner[u] \in Procs /\ u # Nil
  BY ThreadFacts, PagingAssumption DEF PagingInv
<1>1. /\ pc[t] = "run" /\ status[Owner[t]] = "member" /\ rootExclusive = Nil
      /\ Len(active_regions) < MaxRegions
      /\ first.len > len
      /\ rootExclusive' = t
      /\ region' = [region EXCEPT ![t] = new]
      /\ moved' = [p \in Procs |-> IF status[p] = "joining"
                                   THEN moved[p] \cup (first.vaddr .. first.vaddr + len - 1) ELSE moved[p]]
      /\ pc' = [pc EXCEPT ![t] = "append"]
      /\ UNCHANGED <<active_regions, prealloc, rootShared, activeShared, status, mapped, held,
                     prev_vaddr, pos, fault>>
  BY DEF MmapTake, At, RootFree, Goto, maps
<1>2. reserved_regions' = [reserved_regions EXCEPT ![1] = rest]
  BY DEF MmapTake
<1>3. first \in Region /\ first.vaddr \in Nat /\ first.len \in Nat
  <2>1. first \in Region
    BY <1>0, ThreadFacts
  <2> QED
    BY <2>1 DEF Region
<1>4. /\ new \in Region /\ rest \in Region
      /\ rest.vaddr = first.vaddr + len /\ rest.len = first.len - len
  <2>1. first.len - len \in Nat /\ first.vaddr + len \in Nat
    BY <1>0, <1>1, <1>3
  <2> QED
    BY <1>0, <1>3, <2>1 DEF Region
<1>5. /\ Pages(rest) \subseteq Pages(first)
      /\ Pages(new) \subseteq Pages(first)
      /\ Pages(new) = first.vaddr .. first.vaddr + len - 1
  <2>1. Pages(new) = first.vaddr .. first.vaddr + len - 1
    BY DEF Pages
  <2>2. Pages(rest) = first.vaddr + len .. first.vaddr + len + (first.len - len) - 1
    BY <1>4 DEF Pages
  <2>3. Pages(first) = first.vaddr .. first.vaddr + first.len - 1
    BY DEF Pages
  <2>4. ASSUME NEW v \in Nat, NEW l \in Nat, NEW n \in Nat, l > n
        PROVE  /\ v .. v + n - 1 \subseteq v .. v + l - 1
               /\ v + n .. v + n + (l - n) - 1 \subseteq v .. v + l - 1
    <3>1. ASSUME NEW i \in v .. v + n - 1 PROVE i \in v .. v + l - 1
      BY <2>4
    <3>2. ASSUME NEW i \in v + n .. v + n + (l - n) - 1 PROVE i \in v .. v + l - 1
      BY <2>4
    <3> QED
      BY <3>1, <3>2
  <2> HIDE DEF new, rest, first
  <2>5. /\ first.vaddr .. first.vaddr + len - 1 \subseteq first.vaddr .. first.vaddr + first.len - 1
        /\ first.vaddr + len .. first.vaddr + len + (first.len - len) - 1
             \subseteq first.vaddr .. first.vaddr + first.len - 1
    BY <1>0, <1>1, <1>3, <2>4
  <2> QED
    BY <2>1, <2>2, <2>3, <2>5
<1> HIDE DEF new, rest
<1>6. /\ reserved_regions' \in Seq(Region)
      /\ Len(reserved_regions') = Len(reserved_regions)
      /\ \A j \in 1 .. Len(reserved_regions) :
           reserved_regions'[j] = IF j = 1 THEN rest ELSE reserved_regions[j]
  BY <1>0, <1>2, <1>4 DEF TypeOK
<1>7. /\ \A u \in Threads : pc'[u] = IF u = t THEN "append" ELSE pc[u]
      /\ \A u \in Threads : region'[u] = IF u = t THEN new ELSE region[u]
      /\ \A u \in Threads : pc[u] # "append"
  BY <1>0, <1>1 DEF TypeOK, ListInv
<1>8. \A p \in Procs : /\ moved[p] \subseteq moved'[p]
                       /\ status[p] = "joining" => Pages(new) \subseteq moved'[p]
  BY <1>1, <1>5
<1>9. \A j \in 1 .. Len(reserved_regions) :
        /\ Pages(reserved_regions'[j]) \subseteq Pages(reserved_regions[j])
        /\ reserved_regions'[j].len <= reserved_regions[j].len
        /\ reserved_regions'[j].len \in Nat /\ reserved_regions[j].len \in Nat
  <2> TAKE j \in 1 .. Len(reserved_regions)
  <2>1. CASE j = 1
    BY <1>0, <1>1, <1>3, <1>4, <1>5, <1>6, <2>1
  <2>2. CASE j # 1
    <3>1. reserved_regions'[j] = reserved_regions[j] /\ reserved_regions[j] \in Region
      BY <1>0, <1>6, <2>2 DEF TypeOK
    <3> QED
      BY <3>1 DEF Region
  <2> QED
    BY <2>1, <2>2
<1>10. TypeOK'
  <2>1. moved' \in [Procs -> SUBSET Nat]
    <3>1. first.vaddr .. first.vaddr + len - 1 \subseteq Nat
      BY <1>0, <1>3
    <3> QED
      BY <1>0, <1>1, <3>1 DEF TypeOK
  <2>2. region' \in [Threads -> Region]
    BY <1>0, <1>1, <1>4 DEF TypeOK
  <2>3. pc' \in [Threads -> {"run", "append", "walk_active", "read_reserved", "map_reserved",
                             "register", "fault", "search", "return", "kill"}]
    BY <1>0, <1>1 DEF TypeOK
  <2> QED
    BY <1>0, <1>1, <1>6, <2>1, <2>2, <2>3 DEF TypeOK
<1>11. PlaceInv'
  BY <1>0, <1>1, <1>7 DEF PlaceInv, Walking
<1>12. ListInv'
  BY <1>0, <1>1, <1>6, <1>7 DEF ListInv, Pages
<1>13. JoinInv'
  <2> SUFFICES ASSUME NEW u \in Threads, NEW p \in Procs, pc'[u] \in Walking, p = Owner[u]
               PROVE  WalkInv(u, p)'
    BY DEF JoinInv
  <2>1. u # t /\ pc'[u] = pc[u] /\ region'[u] = region[u] /\ pos'[u] = pos[u]
    BY <1>1, <1>7 DEF Walking
  <2>2. WalkInv(u, p) /\ status[p] = "joining"
    BY <1>0, <2>1 DEF JoinInv, PlaceInv
  <2>3. \A v \in Threads : pc'[v] = "append" => Pages(region'[v]) \subseteq moved'[p]
    BY <1>7, <1>8, <2>2
  <2>4. \A j \in 1 .. Len(active_regions) : pc'[u] # "walk_active" \/ j < pos'[u] =>
          Pages(active_regions[j]) \subseteq mapped[p] \cup moved'[p]
    BY <1>8, <2>1, <2>2 DEF WalkInv
  <2>5. \A j \in 1 .. Len(reserved_regions) :
          pc'[u] = "register" \/ (pc'[u] \in {"read_reserved", "map_reserved"} /\ j < pos'[u]) =>
            Pages(reserved_regions'[j]) \subseteq held[p] \cup moved'[p]
    BY <1>8, <1>9, <2>1, <2>2 DEF WalkInv
  <2>6. ASSUME pc'[u] = "map_reserved" PROVE region'[u].len >= reserved_regions'[pos'[u]].len
    <3>1. pos[u] \in 1 .. Len(reserved_regions)
      BY <1>0, <2>1, <2>6 DEF ListInv
    <3>2. region[u].len \in Nat
      BY <1>0 DEF TypeOK, Region
    <3>3. region[u].len >= reserved_regions[pos[u]].len
      BY <2>1, <2>2, <2>6 DEF WalkInv
    <3> QED
      BY <1>9, <2>1, <3>1, <3>2, <3>3
  <2> QED
    BY <1>1, <1>6, <2>3, <2>4, <2>5, <2>6 DEF WalkInv, Pages
<1>14. MemberInv'
  <2> SUFFICES ASSUME NEW p \in Procs, status[p] = "member"
               PROVE  /\ \A j \in 1 .. Len(active_regions) : Pages(active_regions[j]) \subseteq Has(p) \cup moved'[p]
                      /\ \A j \in 1 .. Len(reserved_regions) : Pages(reserved_regions'[j]) \subseteq Has(p) \cup moved'[p]
                      /\ \A u \in Threads : pc'[u] = "append" => Pages(region'[u]) \subseteq Has(p) \cup moved'[p]
    BY <1>1, <1>6 DEF MemberInv, Has, Pages
  <2>1. \A j \in 1 .. Len(active_regions) : Pages(active_regions[j]) \subseteq Has(p) \cup moved'[p]
    BY <1>0, <1>8 DEF MemberInv
  <2>2. \A j \in 1 .. Len(reserved_regions) : Pages(reserved_regions[j]) \subseteq Has(p) \cup moved'[p]
    BY <1>0, <1>8 DEF MemberInv
  <2> QED
    BY <1>0, <1>5, <1>7, <1>9, <2>1, <2>2
<1>15. RecursionIsReal'
  BY <1>1, <1>7, FaultKept DEF InHandler
<1> QED
  BY <1>10, <1>11, <1>12, <1>13, <1>14, <1>15 DEF PagingInv

LEMMA MmapAppendStep ==
  ASSUME PagingInv, NEW t \in Threads, MmapAppend(t)
  PROVE  PagingInv'
<1> DEFINE n == Len(active_regions)
<1>0. /\ TypeOK /\ PlaceInv /\ ListInv /\ JoinInv /\ MemberInv
      /\ n \in Nat /\ n \in 2 .. MaxRegions /\ MaxRegions \in Nat
      /\ \A u \in Threads : Owner[u] \in Procs
  BY ThreadFacts DEF PagingInv, ListInv
<1>1. /\ pc[t] = "append"
      /\ active_regions' = Append(active_regions, region[t])
      /\ rootExclusive' = Nil
      /\ region' = [region EXCEPT ![t] = NoRegion]
      /\ pc' = [pc EXCEPT ![t] = "run"]
      /\ UNCHANGED <<reserved_regions, prealloc, rootShared, activeShared, status, mapped, held,
                     prev_vaddr, pos, fault, moved>>
  BY DEF MmapAppend, At, Goto, maps
<1>2. region[t] \in Region /\ NoRegion \in Region
  BY <1>0 DEF TypeOK, NoRegion, Region
<1>3. /\ active_regions' \in Seq(Region) /\ Len(active_regions') = n + 1
      /\ \A j \in 1 .. n : active_regions'[j] = active_regions[j]
      /\ active_regions'[n + 1] = region[t]
  BY <1>0, <1>1, <1>2 DEF TypeOK
<1>4. /\ \A u \in Threads : pc'[u] = IF u = t THEN "run" ELSE pc[u]
      /\ \A u \in Threads : u # t => region'[u] = region[u] /\ pc[u] # "append"
      /\ n < MaxRegions
  BY <1>0, <1>1 DEF TypeOK, ListInv
<1>5. TypeOK'
  <2>1. region' \in [Threads -> Region]
    BY <1>0, <1>1, <1>2 DEF TypeOK
  <2>2. pc' \in [Threads -> {"run", "append", "walk_active", "read_reserved", "map_reserved",
                             "register", "fault", "search", "return", "kill"}]
    BY <1>0, <1>1 DEF TypeOK
  <2> QED
    BY <1>0, <1>1, <1>3, <2>1, <2>2 DEF TypeOK
<1>6. PlaceInv'
  BY <1>0, <1>1, <1>4 DEF PlaceInv, Walking
<1>7. ListInv'
  <2>1. n + 1 \in 2 .. MaxRegions /\ 1 \in 1 .. n
    BY <1>0, <1>4
  <2>2. Pages(active_regions'[1]) = {0}
    BY <1>0, <1>3, <2>1 DEF ListInv
  <2>3. \A u \in Threads : /\ pc'[u] # "append"
                           /\ pc'[u] = "walk_active" => pos[u] \in 2 .. n
                           /\ pc'[u] = "search" => pos[u] \in 1 .. n
                           /\ pc'[u] \in {"read_reserved", "map_reserved"} =>
                                pos[u] \in 1 .. Len(reserved_regions)
    BY <1>0, <1>4 DEF ListInv
  <2>4. \A i : (i \in 2 .. n => i \in 2 .. n + 1) /\ (i \in 1 .. n => i \in 1 .. n + 1)
    BY <1>0
  <2>5. Len(reserved_regions) = Len(Reserved)
    BY <1>0 DEF ListInv
  <2> HIDE DEF n
  <2> QED
    BY <1>1, <1>3, <2>1, <2>2, <2>3, <2>4, <2>5 DEF ListInv, Pages
<1>8. \A j \in 1 .. Len(active_regions') : j \in 1 .. n \/ j = n + 1
  BY <1>0, <1>3
<1>9. JoinInv'
  <2> SUFFICES ASSUME NEW u \in Threads, NEW p \in Procs, pc'[u] \in Walking, p = Owner[u]
               PROVE  WalkInv(u, p)'
    BY DEF JoinInv
  <2>1. u # t /\ pc'[u] = pc[u] /\ region'[u] = region[u] /\ pos'[u] = pos[u]
    BY <1>1, <1>4 DEF Walking
  <2>2. WalkInv(u, p) /\ Pages(region[t]) \subseteq moved[p]
    BY <1>0, <1>1, <2>1 DEF JoinInv, WalkInv
  <2>3. \A j \in 1 .. n : pc'[u] # "walk_active" \/ j < pos'[u] =>
          Pages(active_regions'[j]) \subseteq mapped[p] \cup moved[p]
    BY <1>3, <2>1, <2>2 DEF WalkInv
  <2>4. \A j \in 1 .. Len(active_regions') : pc'[u] # "walk_active" \/ j < pos'[u] =>
          Pages(active_regions'[j]) \subseteq mapped[p] \cup moved[p]
    BY <1>3, <1>8, <2>2, <2>3
  <2>5. \A v \in Threads : pc'[v] # "append"
    BY <1>4
  <2> QED
    BY <1>1, <2>1, <2>2, <2>4, <2>5 DEF WalkInv, Pages
<1>10. MemberInv'
  <2> SUFFICES ASSUME NEW p \in Procs, status[p] = "member"
               PROVE  /\ \A j \in 1 .. Len(active_regions') : Pages(active_regions'[j]) \subseteq Has(p) \cup moved[p]
                      /\ \A j \in 1 .. Len(reserved_regions) : Pages(reserved_regions[j]) \subseteq Has(p) \cup moved[p]
                      /\ \A u \in Threads : pc'[u] # "append"
    BY <1>1 DEF MemberInv, Has, Pages
  <2>1. Pages(region[t]) \subseteq Has(p) \cup moved[p]
    BY <1>0, <1>1 DEF MemberInv
  <2>2. \A j \in 1 .. n : Pages(active_regions'[j]) \subseteq Has(p) \cup moved[p]
    BY <1>0, <1>3 DEF MemberInv
  <2>3. \A j \in 1 .. Len(reserved_regions) : Pages(reserved_regions[j]) \subseteq Has(p) \cup moved[p]
    BY <1>0 DEF MemberInv
  <2> QED
    BY <1>3, <1>4, <1>8, <2>1, <2>2, <2>3
<1>11. RecursionIsReal'
  BY <1>1, <1>4, FaultKept DEF InHandler
<1> QED
  BY <1>5, <1>6, <1>7, <1>9, <1>10, <1>11 DEF PagingInv

-----------------------------------------------------------------------------
(* sc_join                                                                 *)

LEMMA JoinClaimStep ==
  ASSUME PagingInv, NEW t \in Threads, JoinClaim(t)
  PROVE  PagingInv'
<1> DEFINE q == Owner[t]
<1>0. /\ TypeOK /\ q \in Procs /\ PlaceInv /\ ListInv /\ JoinInv /\ MemberInv
      /\ MaxRegions \in Nat /\ MaxRegions >= 2
      /\ \A u \in Threads : Owner[u] \in Procs /\ u # Nil
  BY ThreadFacts, PagingAssumption DEF PagingInv
<1>1. /\ pc[t] = "run" /\ status[q] = "outside" /\ rootExclusive = Nil
      /\ prealloc' = FALSE
      /\ status' = [status EXCEPT ![q] = "joining"]
      /\ mapped' = [mapped EXCEPT ![q] = {0}]
      /\ activeShared' = [activeShared EXCEPT ![2] = @ \cup {t}]
      /\ pos' = [pos EXCEPT ![t] = 2]
      /\ pc' = [pc EXCEPT ![t] = "walk_active"]
      /\ UNCHANGED <<active_regions, reserved_regions, rootExclusive, rootShared, held, prev_vaddr,
                     region, fault, moved>>
  BY DEF JoinClaim, RootFree, Enter, Goto
<1>2. /\ \A p \in Procs : p # q => status'[p] = status[p] /\ mapped'[p] = mapped[p]
      /\ status'[q] = "joining" /\ mapped'[q] = {0}
  BY <1>0, <1>1 DEF TypeOK
<1>3. /\ \A u \in Threads : u # t => pc'[u] = pc[u] /\ pos'[u] = pos[u]
      /\ pc'[t] = "walk_active" /\ pos'[t] = 2
  BY <1>0, <1>1 DEF TypeOK
<1>4. /\ \A u \in Threads : pc[u] # "append"
      /\ \A u \in Threads : Owner[u] = q => pc[u] = "run"
  BY <1>0, <1>1 DEF ListInv, PlaceInv, Walking, TypeOK
<1> HIDE DEF q
<1>5. TypeOK'
  <2>1. /\ status' \in [Procs -> {"outside", "joining", "member", "failed", "exited", "killed"}]
        /\ mapped' \in [Procs -> SUBSET Nat]
    BY <1>0, <1>1 DEF TypeOK
  <2>2. pc' \in [Threads -> {"run", "append", "walk_active", "read_reserved", "map_reserved",
                             "register", "fault", "search", "return", "kill"}]
        /\ pos' \in [Threads -> Nat]
    BY <1>0, <1>1 DEF TypeOK
  <2>3. activeShared' \in [1 .. MaxRegions -> SUBSET Threads]
    BY <1>0, <1>1 DEF TypeOK
  <2> QED
    BY <1>0, <1>1, <2>1, <2>2, <2>3 DEF TypeOK
<1>6. \A u \in Threads : pc'[u] # "run" /\ u # t => Owner[u] # q /\ pc'[u] = pc[u]
  BY <1>3, <1>4
<1>7. PlaceInv'
  <2>1. \A u \in Threads : pc'[u] \in Walking => status'[Owner[u]] = "joining"
    BY <1>0, <1>2, <1>3, <1>6 DEF PlaceInv, Walking, q
  <2>2. \A u \in Threads : pc'[u] \notin Walking \cup {"run"} => status'[Owner[u]] = "member"
    BY <1>0, <1>2, <1>3, <1>6 DEF PlaceInv, Walking
  <2>3. \A u, v \in Threads : pc'[u] \in Walking /\ pc'[v] \in Walking /\ Owner[u] = Owner[v] => u = v
    <3>1. \A u \in Threads : pc'[u] \in Walking /\ Owner[u] = q => u = t
      BY <1>6 DEF Walking
    <3> QED
      BY <1>0, <1>6, <3>1 DEF PlaceInv, Walking, q
  <2>4. \A p \in Procs : status'[p] # "member" => prev_vaddr'[p] = 0
    BY <1>0, <1>1, <1>2 DEF PlaceInv
  <2> QED
    BY <2>1, <2>2, <2>3, <2>4 DEF PlaceInv
<1>8. ListInv'
  <2>1. 2 \in 2 .. Len(active_regions)
    BY <1>0 DEF ListInv
  <2>2. \A u \in Threads : pc'[u] # "append"
    BY <1>3, <1>4
  <2> QED
    BY <1>0, <1>1, <1>3, <2>1, <2>2 DEF ListInv, Pages
<1>9. JoinInv'
  <2> SUFFICES ASSUME NEW u \in Threads, NEW p \in Procs, pc'[u] \in Walking, p = Owner[u]
               PROVE  WalkInv(u, p)'
    BY DEF JoinInv
  <2>0. \A v \in Threads : pc'[v] # "append"
    BY <1>3, <1>4
  <2>1. CASE u = t
    <3>1. pc'[u] = "walk_active" /\ pos'[u] = 2 /\ mapped'[p] = {0}
      BY <1>2, <1>3, <2>1 DEF q
    <3>2. \A j \in 1 .. Len(active_regions) : j < 2 => Pages(active_regions[j]) = {0}
      <4>1. \A j \in 1 .. Len(active_regions) : j < 2 => j = 1
        BY <1>0 DEF ListInv
      <4> QED
        BY <1>0, <4>1 DEF ListInv
    <3> QED
      BY <1>1, <2>0, <3>1, <3>2 DEF WalkInv, Pages
  <2>2. CASE u # t
    <3>1. p # q /\ pc'[u] = pc[u] /\ pos'[u] = pos[u] /\ mapped'[p] = mapped[p]
      BY <1>2, <1>3, <1>6, <2>2 DEF Walking
    <3>2. WalkInv(u, p)
      BY <1>0, <3>1 DEF JoinInv
    <3> QED
      BY <1>1, <2>0, <3>1, <3>2 DEF WalkInv, Pages
  <2> QED
    BY <2>1, <2>2
<1>10. MemberInv'
  <2> SUFFICES ASSUME NEW p \in Procs, status'[p] = "member"
               PROVE  /\ \A j \in 1 .. Len(active_regions) : Pages(active_regions[j]) \subseteq Has(p)' \cup moved[p]
                      /\ \A j \in 1 .. Len(reserved_regions) : Pages(reserved_regions[j]) \subseteq Has(p)' \cup moved[p]
                      /\ \A u \in Threads : pc'[u] # "append"
    BY <1>1 DEF MemberInv, Pages
  <2>1. p # q /\ status[p] = "member" /\ Has(p)' = Has(p)
    BY <1>1, <1>2 DEF Has
  <2> QED
    BY <1>0, <1>3, <1>4, <2>1 DEF MemberInv
<1>11. RecursionIsReal'
  <2> SUFFICES ASSUME NEW p \in Members', prev_vaddr'[p] # 0
               PROVE  \E u \in Threads : Owner[u] = p /\ InHandler(u)' /\ fault'[u].vaddr = prev_vaddr'[p]
    BY DEF RecursionIsReal
  <2>1. p \in Members /\ prev_vaddr'[p] = prev_vaddr[p]
    BY <1>1, <1>2 DEF Members
  <2>2. PICK u \in Threads : Owner[u] = p /\ InHandler(u) /\ fault[u].vaddr = prev_vaddr[p]
    BY <2>1 DEF PagingInv, RecursionIsReal
  <2>3. u # t
    BY <1>1, <2>2 DEF InHandler
  <2> QED
    BY <1>1, <1>3, <2>1, <2>2, <2>3 DEF InHandler
<1> QED
  BY <1>5, <1>7, <1>8, <1>9, <1>10, <1>11 DEF PagingInv

\* A step of a walk: it remains to show what the walk itself has passed.
LEMMA WalkStep ==
  ASSUME PagingInv, NEW t \in Threads, pc[t] \in Walking,
         NEW label \in Walking, NEW i \in Nat, NEW r \in Region,
         pc' = [pc EXCEPT ![t] = label],
         pos' = [pos EXCEPT ![t] = i],
         region' = [region EXCEPT ![t] = r],
         label = "walk_active" => i \in 2 .. Len(active_regions),
         label \in {"read_reserved", "map_reserved"} => i \in 1 .. Len(reserved_regions),
         UNCHANGED <<active_regions, reserved_regions, prealloc, rootExclusive, rootShared, status,
                     prev_vaddr, fault, moved>>,
         activeShared' \in [1 .. MaxRegions -> SUBSET Threads],
         mapped' \in [Procs -> SUBSET Nat], held' \in [Procs -> SUBSET Nat],
         \A p \in Procs : p # Owner[t] => mapped'[p] = mapped[p] /\ held'[p] = held[p],
         \A p \in Procs : p = Owner[t] => WalkInv(t, p)'
  PROVE  PagingInv'
<1>0. /\ TypeOK /\ PlaceInv /\ ListInv /\ JoinInv /\ MemberInv
      /\ \A u \in Threads : Owner[u] \in Procs
  BY ThreadFacts DEF PagingInv
<1>1. /\ pc'[t] = label /\ pos'[t] = i /\ region'[t] = r
      /\ \A u \in Threads : u # t => pc'[u] = pc[u] /\ pos'[u] = pos[u] /\ region'[u] = region[u]
  BY <1>0 DEF TypeOK
<1>2. TypeOK'
  <2>1. region' \in [Threads -> Region] /\ pos' \in [Threads -> Nat]
    BY <1>0 DEF TypeOK
  <2>2. pc' \in [Threads -> {"run", "append", "walk_active", "read_reserved", "map_reserved",
                             "register", "fault", "search", "return", "kill"}]
    BY <1>0 DEF TypeOK, Walking
  <2> QED
    BY <1>0, <2>1, <2>2 DEF TypeOK
<1>3. PlaceInv'
  BY <1>0, <1>1 DEF PlaceInv, Walking
<1>4. ListInv'
  BY <1>0, <1>1 DEF ListInv, Pages, Walking
<1>5. JoinInv'
  <2> SUFFICES ASSUME NEW u \in Threads, NEW p \in Procs, pc'[u] \in Walking, p = Owner[u], u # t
               PROVE  WalkInv(u, p)'
    BY DEF JoinInv
  <2>1. p # Owner[t]
    BY <1>0, <1>1 DEF PlaceInv
  <2>2. WalkInv(u, p)
    BY <1>0, <1>1 DEF JoinInv
  <2>3. \A v \in Threads : pc'[v] = "append" => pc[v] = "append" /\ region'[v] = region[v]
    BY <1>1 DEF Walking
  <2> QED
    BY <1>1, <2>1, <2>2, <2>3 DEF WalkInv, Pages
<1>6. MemberInv'
  <2> SUFFICES ASSUME NEW p \in Procs, status[p] = "member"
               PROVE  /\ \A j \in 1 .. Len(active_regions) : Pages(active_regions[j]) \subseteq Has(p)' \cup moved[p]
                      /\ \A j \in 1 .. Len(reserved_regions) : Pages(reserved_regions[j]) \subseteq Has(p)' \cup moved[p]
                      /\ \A u \in Threads : pc'[u] = "append" => Pages(region'[u]) \subseteq Has(p)' \cup moved[p]
    BY DEF MemberInv, Pages
  <2>1. p # Owner[t] /\ Has(p)' = Has(p)
    BY <1>0 DEF PlaceInv, Has
  <2>2. \A v \in Threads : pc'[v] = "append" => pc[v] = "append" /\ region'[v] = region[v]
    BY <1>1 DEF Walking
  <2> QED
    BY <1>0, <2>1, <2>2 DEF MemberInv
<1>7. RecursionIsReal'
  BY <1>1, FaultKept DEF InHandler, Walking
<1> QED
  BY <1>2, <1>3, <1>4, <1>5, <1>6, <1>7 DEF PagingInv

LEMMA WalkActiveStep ==
  ASSUME PagingInv, NEW t \in Threads, WalkActive(t)
  PROVE  PagingInv'
<1> DEFINE i == pos[t]
<1> DEFINE n == Len(active_regions)
<1> DEFINE last == i = n
<1> DEFINE label == IF last THEN "read_reserved" ELSE "walk_active"
<1> DEFINE k == IF last THEN 1 ELSE i + 1
<1> DEFINE found == Pages(active_regions[i])
<1>0. /\ TypeOK /\ Owner[t] \in Procs /\ ListInv /\ JoinInv
      /\ MaxRegions \in Nat /\ n \in Nat /\ 1 <= Len(reserved_regions) /\ Len(reserved_regions) \in Nat
  BY ThreadFacts DEF PagingInv
<1>1. /\ pc[t] = "walk_active"
      /\ mapped' = [mapped EXCEPT ![Owner[t]] = @ \cup found]
      /\ activeShared' = IF last THEN [activeShared EXCEPT ![i] = @ \ {t}]
                         ELSE [activeShared EXCEPT ![i] = @ \ {t}, ![i + 1] = @ \cup {t}]
      /\ pos' = [pos EXCEPT ![t] = k]
      /\ pc' = [pc EXCEPT ![t] = label]
      /\ UNCHANGED <<active_regions, reserved_regions, prealloc, rootExclusive, rootShared, status, held,
                     prev_vaddr, region, fault, moved>>
  BY DEF WalkActive, At, Goto, root
<1>2. i \in 2 .. n /\ i \in Nat /\ i \in 1 .. n
  BY <1>0, <1>1 DEF ListInv
<1>3. /\ label \in Walking /\ k \in Nat
      /\ label = "walk_active" => k \in 2 .. n
      /\ label \in {"read_reserved", "map_reserved"} => k \in 1 .. Len(reserved_regions)
      /\ label # "map_reserved" /\ label # "register" /\ label # "append"
  BY <1>0, <1>2 DEF Walking
<1>4. found \in SUBSET Nat
  <2>1. active_regions[i] \in Region
    BY <1>0, <1>2 DEF TypeOK
  <2> QED
    BY <2>1 DEF Pages, Region
<1>5. region[t] \in Region /\ region' = [region EXCEPT ![t] = region[t]]
  BY <1>0, <1>1 DEF TypeOK
<1> HIDE DEF found
<1>6. /\ mapped' \in [Procs -> SUBSET Nat] /\ held' \in [Procs -> SUBSET Nat]
      /\ \A p \in Procs : p # Owner[t] => mapped'[p] = mapped[p] /\ held'[p] = held[p]
      /\ mapped'[Owner[t]] = mapped[Owner[t]] \cup found
  BY <1>0, <1>1, <1>4 DEF TypeOK
<1>7. activeShared' \in [1 .. MaxRegions -> SUBSET Threads]
  <2>1. activeShared \in [1 .. MaxRegions -> SUBSET Threads]
    BY <1>0 DEF TypeOK
  <2>2. CASE last
    BY <1>1, <2>1, <2>2
  <2>3. CASE ~ last
    BY <1>1, <2>1, <2>3
  <2> QED
    BY <2>2, <2>3
<1>8. ASSUME NEW p \in Procs, p = Owner[t] PROVE WalkInv(t, p)'
  <2>1. pc'[t] = label /\ pos'[t] = k
    BY <1>0, <1>1 DEF TypeOK
  <2>2. WalkInv(t, p)
    BY <1>0, <1>1, <1>8 DEF JoinInv, Walking
  <2>3. \A u \in Threads : pc'[u] = "append" => pc[u] = "append"
    BY <1>0, <1>1, <1>3 DEF TypeOK
  <2>4. \A j \in 1 .. n : label # "walk_active" \/ j < k => j < i \/ j = i
    BY <1>0, <1>2
  <2>5. \A j \in 1 .. n : j < i \/ j = i => Pages(active_regions[j]) \subseteq mapped'[p] \cup moved[p]
    BY <1>1, <1>6, <1>8, <2>2 DEF WalkInv, found
  <2>6. \A j \in 1 .. Len(reserved_regions) : ~ (label = "register" \/ (label \in {"read_reserved", "map_reserved"} /\ j < k))
    BY <1>0, <1>3
  <2> HIDE DEF label, k, n, i
  <2>7. \A u \in Threads : pc'[u] = "append" => Pages(region[u]) \subseteq moved[p]
    BY <2>2, <2>3 DEF WalkInv
  <2>8. \A j \in 1 .. n : label # "walk_active" \/ j < k => Pages(active_regions[j]) \subseteq mapped'[p] \cup moved[p]
    BY <2>4, <2>5
  <2> QED
    BY <1>1, <1>3, <2>1, <2>6, <2>7, <2>8 DEF WalkInv, Pages, n
<1>9. pc[t] \in Walking
  BY <1>1 DEF Walking
<1> HIDE DEF label, k, i
<1> QED
  BY <1>1, <1>3, <1>5, <1>6, <1>7, <1>8, <1>9, WalkStep DEF n

LEMMA ReadReservedStep ==
  ASSUME PagingInv, NEW t \in Threads, ReadReserved(t)
  PROVE  PagingInv'
<1> DEFINE i == pos[t]
<1> DEFINE r == reserved_regions[i]
<1>0. TypeOK /\ Owner[t] \in Procs /\ ListInv /\ JoinInv
  BY ThreadFacts DEF PagingInv
<1>1. /\ pc[t] = "read_reserved"
      /\ region' = [region EXCEPT ![t] = r]
      /\ pc' = [pc EXCEPT ![t] = "map_reserved"]
      /\ UNCHANGED <<active_regions, reserved_regions, prealloc, rootExclusive, rootShared, activeShared,
                     status, mapped, held, prev_vaddr, pos, fault, moved>>
  BY DEF ReadReserved, At, Goto, root, locks, maps
<1>2. i \in Nat /\ i \in 1 .. Len(reserved_regions) /\ pos' = [pos EXCEPT ![t] = i]
  BY <1>0, <1>1 DEF ListInv, TypeOK
<1>3. r \in Region /\ r.len \in Nat
  <2>1. r \in Region
    BY <1>0, <1>2 DEF TypeOK
  <2> QED
    BY <2>1 DEF Region
<1>4. ASSUME NEW p \in Procs, p = Owner[t] PROVE WalkInv(t, p)'
  <2>1. pc'[t] = "map_reserved" /\ pos'[t] = i /\ region'[t] = r
    BY <1>0, <1>1 DEF TypeOK
  <2>2. WalkInv(t, p)
    BY <1>0, <1>1, <1>4 DEF JoinInv, Walking
  <2>3. \A u \in Threads : pc'[u] = "append" => pc[u] = "append" /\ region'[u] = region[u]
    BY <1>0, <1>1 DEF TypeOK
  <2>4. \A u \in Threads : pc'[u] = "append" => Pages(region'[u]) \subseteq moved[p]
    BY <2>2, <2>3 DEF WalkInv
  <2>5. r.len >= reserved_regions[i].len
    BY <1>3
  <2> QED
    BY <1>1, <2>1, <2>2, <2>4, <2>5 DEF WalkInv, Pages
<1>5. mapped' \in [Procs -> SUBSET Nat] /\ held' \in [Procs -> SUBSET Nat]
      /\ activeShared' \in [1 .. MaxRegions -> SUBSET Threads]
  BY <1>0, <1>1 DEF TypeOK
<1> HIDE DEF i, r
<1> QED
  BY <1>1, <1>2, <1>3, <1>4, <1>5, WalkStep DEF Walking

LEMMA MapReservedStep ==
  ASSUME PagingInv, NEW t \in Threads, MapReserved(t)
  PROVE  PagingInv'
<1> DEFINE i == pos[t]
<1> DEFINE n == Len(reserved_regions)
<1> DEFINE now == reserved_regions[i]
<1> DEFINE label == IF i = n THEN "register" ELSE "read_reserved"
<1> DEFINE k == IF i = n THEN 0 ELSE i + 1
<1>0. TypeOK /\ Owner[t] \in Procs /\ ListInv /\ JoinInv /\ n \in Nat
  BY ThreadFacts DEF PagingInv
<1>1. /\ pc[t] = "map_reserved"
      /\ region' = [region EXCEPT ![t] = NoRegion]
      /\ pos' = [pos EXCEPT ![t] = k]
      /\ pc' = [pc EXCEPT ![t] = label]
      /\ UNCHANGED <<active_regions, reserved_regions, prealloc, rootExclusive, rootShared, activeShared,
                     status, mapped, prev_vaddr, fault, moved>>
  BY DEF MapReserved, At, Goto, root
<1>2. PICK len \in {region[t].len, now.len} :
        held' = [held EXCEPT ![Owner[t]] = @ \cup (now.vaddr .. now.vaddr + len - 1)]
  BY DEF MapReserved
<1> DEFINE found == now.vaddr .. now.vaddr + len - 1
<1>3. i \in 1 .. n /\ i \in Nat
  BY <1>0, <1>1 DEF ListInv
<1>4. /\ label \in Walking /\ k \in Nat
      /\ label \in {"read_reserved", "map_reserved"} => k \in 1 .. n
      /\ label # "walk_active" /\ label # "map_reserved" /\ label # "append"
  BY <1>0, <1>3 DEF Walking
<1>5. now \in Region /\ now.vaddr \in Nat /\ now.len \in Nat
  <2>1. now \in Region
    BY <1>0, <1>3 DEF TypeOK
  <2> QED
    BY <2>1 DEF Region
<1>6. region[t].len \in Nat /\ NoRegion \in Region
  BY <1>0 DEF TypeOK, NoRegion, Region
<1>7. len \in Nat /\ len >= now.len
  <2>1. \A p \in Procs : p = Owner[t] => region[t].len >= now.len
    BY <1>0, <1>1 DEF JoinInv, WalkInv, Walking
  <2> QED
    BY <1>0, <1>2, <1>5, <1>6, <2>1
<1>8. found \in SUBSET Nat /\ Pages(now) \subseteq found
  BY <1>5, <1>7 DEF Pages
<1> HIDE DEF found
<1>9. /\ mapped' \in [Procs -> SUBSET Nat] /\ held' \in [Procs -> SUBSET Nat]
      /\ activeShared' \in [1 .. MaxRegions -> SUBSET Threads]
      /\ \A p \in Procs : p # Owner[t] => mapped'[p] = mapped[p] /\ held'[p] = held[p]
      /\ held'[Owner[t]] = held[Owner[t]] \cup found
  BY <1>0, <1>1, <1>2, <1>8 DEF TypeOK, found
<1>10. ASSUME NEW p \in Procs, p = Owner[t] PROVE WalkInv(t, p)'
  <2>1. pc'[t] = label /\ pos'[t] = k
    BY <1>0, <1>1 DEF TypeOK
  <2>2. WalkInv(t, p)
    BY <1>0, <1>1, <1>10 DEF JoinInv, Walking
  <2>3. \A u \in Threads : pc'[u] = "append" => pc[u] = "append" /\ region'[u] = region[u]
    BY <1>0, <1>1, <1>4 DEF TypeOK
  <2>4. \A j \in 1 .. n : label = "register" \/ (label \in {"read_reserved", "map_reserved"} /\ j < k) =>
          j < i \/ j = i
    BY <1>0, <1>3
  <2>5. \A j \in 1 .. n : j < i \/ j = i => Pages(reserved_regions[j]) \subseteq held'[p] \cup moved[p]
    BY <1>1, <1>8, <1>9, <1>10, <2>2 DEF WalkInv
  <2>6. \A j \in 1 .. Len(active_regions) : Pages(active_regions[j]) \subseteq mapped[p] \cup moved[p]
    BY <1>1, <2>2 DEF WalkInv
  <2> HIDE DEF label, k, n, i
  <2>7. \A u \in Threads : pc'[u] = "append" => Pages(region'[u]) \subseteq moved[p]
    BY <2>2, <2>3 DEF WalkInv
  <2>8. \A j \in 1 .. n : label = "register" \/ (label \in {"read_reserved", "map_reserved"} /\ j < k) =>
          Pages(reserved_regions[j]) \subseteq held'[p] \cup moved[p]
    BY <2>4, <2>5
  <2> QED
    BY <1>1, <1>4, <2>1, <2>6, <2>7, <2>8 DEF WalkInv, Pages, n
<1>11. pc[t] \in Walking
  BY <1>1 DEF Walking
<1> HIDE DEF label, k, i
<1> QED
  BY <1>1, <1>4, <1>6, <1>9, <1>10, <1>11, WalkStep DEF n

LEMMA JoinDoneStep ==
  ASSUME PagingInv, NEW t \in Threads, JoinDone(t)
  PROVE  PagingInv'
<1> DEFINE q == Owner[t]
<1>0. /\ TypeOK /\ q \in Procs /\ PlaceInv /\ ListInv /\ JoinInv /\ MemberInv
      /\ \A u \in Threads : Owner[u] \in Procs
  BY ThreadFacts DEF PagingInv
<1>1. /\ pc[t] = "register"
      /\ prealloc' = TRUE
      /\ status' = [status EXCEPT ![q] = "member"]
      /\ pc' = [pc EXCEPT ![t] = "run"]
      /\ UNCHANGED <<active_regions, reserved_regions, rootExclusive, rootShared, activeShared, mapped, held,
                     prev_vaddr, pos, region, fault, moved>>
  BY DEF JoinDone, At, Enter, Goto, locks, maps, local
<1>2. (\A p \in Procs : p # q => status'[p] = status[p]) /\ status'[q] = "member"
  BY <1>0, <1>1 DEF TypeOK
<1>3. (\A u \in Threads : u # t => pc'[u] = pc[u]) /\ pc'[t] = "run"
  BY <1>0, <1>1 DEF TypeOK
<1>4. /\ status[q] = "joining" /\ prev_vaddr[q] = 0 /\ WalkInv(t, q)
      /\ \A u \in Threads : u # t /\ Owner[u] = q => pc[u] = "run"
  BY <1>0, <1>1 DEF PlaceInv, JoinInv, Walking
<1> HIDE DEF q
<1>5. TypeOK'
  <2>1. status' \in [Procs -> {"outside", "joining", "member", "failed", "exited", "killed"}]
    BY <1>0, <1>1 DEF TypeOK
  <2>2. pc' \in [Threads -> {"run", "append", "walk_active", "read_reserved", "map_reserved",
                             "register", "fault", "search", "return", "kill"}]
    BY <1>0, <1>1 DEF TypeOK
  <2> QED
    BY <1>0, <1>1, <2>1, <2>2 DEF TypeOK
<1>6. \A u \in Threads : pc'[u] # "run" => u # t /\ Owner[u] # q /\ pc'[u] = pc[u]
  BY <1>3, <1>4
<1>7. PlaceInv'
  <2>1. \A u \in Threads : pc'[u] \in Walking => status'[Owner[u]] = "joining"
    BY <1>0, <1>2, <1>6 DEF PlaceInv, Walking
  <2>2. \A u \in Threads : pc'[u] \notin Walking \cup {"run"} => status'[Owner[u]] = "member"
    BY <1>0, <1>2, <1>6 DEF PlaceInv
  <2>3. \A u, v \in Threads : pc'[u] \in Walking /\ pc'[v] \in Walking /\ Owner[u] = Owner[v] => u = v
    BY <1>0, <1>6 DEF PlaceInv, Walking
  <2>4. \A p \in Procs : status'[p] # "member" => prev_vaddr'[p] = 0
    BY <1>0, <1>1, <1>2 DEF PlaceInv
  <2> QED
    BY <2>1, <2>2, <2>3, <2>4 DEF PlaceInv
<1>8. ListInv'
  BY <1>0, <1>1, <1>6 DEF ListInv, Pages
<1>9. JoinInv'
  <2> SUFFICES ASSUME NEW u \in Threads, NEW p \in Procs, pc'[u] \in Walking, p = Owner[u]
               PROVE  WalkInv(u, p)'
    BY DEF JoinInv
  <2>1. pc'[u] = pc[u] /\ WalkInv(u, p)
    BY <1>0, <1>6 DEF JoinInv, Walking
  <2>2. \A v \in Threads : pc'[v] = "append" => pc[v] = "append"
    BY <1>6
  <2> QED
    BY <1>1, <2>1, <2>2 DEF WalkInv, Pages
<1>10. MemberInv'
  <2> SUFFICES ASSUME NEW p \in Procs, status'[p] = "member"
               PROVE  /\ \A j \in 1 .. Len(active_regions) : Pages(active_regions[j]) \subseteq Has(p) \cup moved[p]
                      /\ \A j \in 1 .. Len(reserved_regions) : Pages(reserved_regions[j]) \subseteq Has(p) \cup moved[p]
                      /\ \A u \in Threads : pc[u] = "append" => Pages(region[u]) \subseteq Has(p) \cup moved[p]
    BY <1>1, <1>6 DEF MemberInv, Pages, Has
  <2>1. CASE p = q
    BY <1>1, <1>4, <2>1 DEF WalkInv, Has
  <2>2. CASE p # q
    BY <1>0, <1>2, <2>2 DEF MemberInv
  <2> QED
    BY <2>1, <2>2
<1>11. RecursionIsReal'
  <2> SUFFICES ASSUME NEW p \in Members', prev_vaddr'[p] # 0
               PROVE  \E u \in Threads : Owner[u] = p /\ InHandler(u)' /\ fault'[u].vaddr = prev_vaddr'[p]
    BY DEF RecursionIsReal
  <2>1. p # q /\ p \in Members /\ prev_vaddr'[p] = prev_vaddr[p]
    BY <1>1, <1>2, <1>4 DEF Members
  <2>2. PICK u \in Threads : Owner[u] = p /\ InHandler(u) /\ fault[u].vaddr = prev_vaddr[p]
    BY <2>1 DEF PagingInv, RecursionIsReal
  <2>3. u # t
    BY <1>1, <2>2 DEF InHandler
  <2> QED
    BY <1>1, <1>3, <2>1, <2>2, <2>3 DEF InHandler
<1> QED
  BY <1>5, <1>7, <1>8, <1>9, <1>10, <1>11 DEF PagingInv

-----------------------------------------------------------------------------

LEMMA PagingInit ==
  ASSUME Init
  PROVE  PagingInv
<1> USE PagingAssumption
<1> DEFINE first == [vaddr |-> 0, len |-> 1, prot |-> "rw"]
<1> DEFINE second == [vaddr |-> 1, len |-> 1, prot |-> "rw"]
<1>1. active_regions = <<first, second>> /\ first \in Region /\ second \in Region
  BY DEF Init, Region
<1>2. /\ active_regions \in Seq(Region) /\ Len(active_regions) = 2
      /\ active_regions[1] = first /\ active_regions[2] = second
  BY <1>1
<1>3. Pages(active_regions[1]) = {0} /\ Pages(active_regions[2]) = {1}
  BY <1>2 DEF Pages
<1>4. /\ reserved_regions = Reserved /\ Reserved \in Seq(Region) /\ Len(Reserved) \in Nat
      /\ DOMAIN Reserved = 1 .. Len(Reserved)
  <2> DEFINE First == [vaddr : Nat \ {0, 1}, len : Nat \ {0}, prot : {"none"}]
  <2>1. \A r \in First : r \in Region
    BY DEF Region
  <2>0. Reserved \in Seq(First)
    OBVIOUS
  <2> HIDE DEF First
  <2>2. Len(Reserved) \in Nat /\ DOMAIN Reserved = 1 .. Len(Reserved)
    OBVIOUS
  <2>3. \A j \in 1 .. Len(Reserved) : Reserved[j] \in Region
    BY <2>0, <2>1, <2>2
  <2>4. Reserved \in Seq(Region)
    BY <2>2, <2>3
  <2> QED
    BY <2>2, <2>4 DEF Init
<1>5. /\ \A j \in 1 .. Len(reserved_regions) : Pages(reserved_regions[j]) \subseteq PagesOf(reserved_regions)
      /\ PagesOf(reserved_regions) \subseteq Nat
  <2>1. \A j \in 1 .. Len(Reserved) : Reserved[j] \in Region
    BY <1>4
  <2>2. \A j \in 1 .. Len(Reserved) : Pages(Reserved[j]) \subseteq Nat
    BY <2>1 DEF Pages, Region
  <2> QED
    BY <1>4, <2>2 DEF PagesOf
<1> HIDE DEF first, second
<1>6. TypeOK
  <2>1. NoRegion \in Region /\ NoFault \in [vaddr : Nat, isWrite : BOOLEAN]
    BY DEF NoRegion, NoFault, Region
  <2>2. region \in [Threads -> Region] /\ fault \in [Threads -> [vaddr : Nat, isWrite : BOOLEAN]]
    BY <2>1 DEF Init
  <2>3. held \in [Procs -> SUBSET Nat] /\ mapped \in [Procs -> SUBSET Nat]
    BY <1>5 DEF Init
  <2>4. /\ status \in [Procs -> {"outside", "joining", "member", "failed", "exited", "killed"}]
        /\ prev_vaddr \in [Procs -> Nat] /\ moved \in [Procs -> SUBSET Nat]
        /\ pos \in [Threads -> Nat]
        /\ activeShared \in [1 .. MaxRegions -> SUBSET Threads]
        /\ pc \in [Threads -> {"run", "append", "walk_active", "read_reserved", "map_reserved",
                               "register", "fault", "search", "return", "kill"}]
    BY DEF Init
  <2>5. prealloc \in BOOLEAN /\ rootExclusive \in Threads \cup {Nil} /\ rootShared \in SUBSET Threads
    BY DEF Init
  <2> QED
    BY <1>2, <1>4, <2>2, <2>3, <2>4, <2>5 DEF TypeOK
<1>7. \A t \in Threads : pc[t] = "run"
  BY DEF Init
<1>8. PlaceInv
  BY <1>7 DEF PlaceInv, Walking, Init
<1>9. ListInv
  BY <1>2, <1>3, <1>4, <1>7 DEF ListInv
<1>10. JoinInv
  BY <1>7 DEF JoinInv, Walking
<1>11. MemberInv
  <2> SUFFICES ASSUME NEW p \in Procs, status[p] = "member"
               PROVE  /\ \A j \in 1 .. Len(active_regions) : Pages(active_regions[j]) \subseteq Has(p) \cup moved[p]
                      /\ \A j \in 1 .. Len(reserved_regions) : Pages(reserved_regions[j]) \subseteq Has(p) \cup moved[p]
    BY <1>7 DEF MemberInv
  <2>1. p = Creator
    BY DEF Init
  <2>2. mapped[p] = {0, 1} /\ held[p] = PagesOf(reserved_regions)
    BY <2>1 DEF Init
  <2>3. \A j \in 1 .. Len(active_regions) : j = 1 \/ j = 2
    BY <1>2
  <2>4. \A j \in 1 .. Len(active_regions) : Pages(active_regions[j]) \subseteq {0, 1}
    BY <1>3, <2>3
  <2>5. Has(p) = {0, 1} \cup PagesOf(reserved_regions)
    BY <2>2 DEF Has
  <2> HIDE DEF PagingAssumption
  <2> QED
    BY <1>5, <2>4, <2>5, Zenon
<1>12. RecursionIsReal
  BY DEF RecursionIsReal, Members, Init
<1> QED
  BY <1>6, <1>8, <1>9, <1>10, <1>11, <1>12 DEF PagingInv

\* Every address of a region is a page number.
LEMMA AgreedPages ==
  ASSUME TypeOK
  PROVE  Agreed \subseteq Nat
<1>1. \A r \in Region : Pages(r) \subseteq Nat
  BY DEF Pages, Region
<1>2. \A list \in Seq(Region) : PagesOf(list) \subseteq Nat
  <2> SUFFICES ASSUME NEW list \in Seq(Region), NEW i \in DOMAIN list PROVE Pages(list[i]) \subseteq Nat
    BY DEF PagesOf
  <2> QED
    BY <1>1
<1> QED
  BY <1>2 DEF TypeOK, Agreed, ActivePages

LEMMA PagingNext ==
  ASSUME PagingInv, [Next]_vars
  PROVE  PagingInv'
<1>1. CASE UNCHANGED vars
  BY <1>1, SMTT(30) DEF vars, root, locks, maps, local, PagingInv, TypeOK, PlaceInv, ListInv, JoinInv, WalkInv, MemberInv,
              RecursionIsReal, Members, Has, InHandler, Pages
<1>2. ASSUME NEW t \in Threads,
             \/ JoinFails(t) \/ WalkFails(t) \/ MapReservedOld(t) \/ SearchExits(t) \/ Kill(t)
             \/ \E vaddr \in Agreed, isWrite \in BOOLEAN : TouchAgain(t, vaddr, isWrite)
      PROVE  PagingInv'
  <2>1. \E how \in {"failed", "exited", "killed"} : End(t, how) /\ UNCHANGED <<root, locks>>
    BY <1>2 DEF JoinFails, WalkFails, MapReservedOld, SearchExits, Kill, TouchAgain
  <2> QED
    BY <2>1, EndStep
<1>3. ASSUME NEW t \in Threads,
             \E vaddr \in Agreed, isWrite \in BOOLEAN : Touch(t, vaddr, isWrite)
      PROVE  PagingInv'
  <2>1. Agreed \subseteq Nat
    BY AgreedPages DEF PagingInv
  <2> QED
    BY <1>3, <2>1, TouchStep
<1>4. CASE Next
  BY <1>2, <1>3, <1>4, MmapTakeStep, MmapAppendStep, JoinClaimStep, WalkActiveStep, ReadReservedStep,
     MapReservedStep, JoinDoneStep, SearchStep, ReturnStep, IdleStep DEF Next, Proceed
<1> QED
  BY <1>1, <1>4

-----------------------------------------------------------------------------

\* The structs, locks and maps always have their types, whatever runs at the same time.
THEOREM TypeCorrect == Spec => []TypeOK
<1>1. PagingInv => TypeOK
  BY DEF PagingInv
<1> QED
  BY <1>1, PagingInit, PagingNext, PTL DEF Spec

\* sc_join, sc_mmap and the handler leave every member with all the pages of both
\* lists, whatever their interleaving, but for those that sc_mmap moved during a join.
THEOREM HoldsAllUnlessMovedHolds == Spec => []HoldsAllUnlessMoved
<1>1. ASSUME PagingInv PROVE HoldsAllUnlessMoved
  <2> SUFFICES ASSUME NEW p \in Members, NEW a \in Agreed
               PROVE  a \in Has(p) \cup moved[p]
    BY DEF HoldsAllUnlessMoved
  <2>0. p \in Procs /\ status[p] = "member"
    BY DEF Members
  <2>1. MemberInv /\ DOMAIN active_regions = 1 .. Len(active_regions)
        /\ DOMAIN reserved_regions = 1 .. Len(reserved_regions)
    BY <1>1 DEF PagingInv, TypeOK
  <2>2. \/ \E j \in 1 .. Len(active_regions) : a \in Pages(active_regions[j])
        \/ \E j \in 1 .. Len(reserved_regions) : a \in Pages(reserved_regions[j])
    BY <2>1 DEF Agreed, ActivePages, PagesOf
  <2> QED
    BY <2>0, <2>1, <2>2 DEF MemberInv
<1> QED
  BY <1>1, PagingInit, PagingNext, PTL DEF Spec

\* The handler calls a fault recursive only while another thread of the process is in
\* the handler for the same address.
THEOREM RecursionIsRealHolds == Spec => []RecursionIsReal
<1>1. PagingInv => RecursionIsReal
  BY DEF PagingInv
<1> QED
  BY <1>1, PagingInit, PagingNext, PTL DEF Spec
=============================================================================
