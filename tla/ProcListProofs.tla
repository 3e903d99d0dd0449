--------------------------- MODULE ProcListProofs ---------------------------
(***************************************************************************)
(* Pointers of the process list lead only to older entries, for any finite *)
(* set of processes, whatever races there are; and as long as nobody has   *)
(* used a pointer within the window, the list holds exactly the processes  *)
(* that are in the group: TypeOK, Descending and SoundUnlessRaced of       *)
(* module ProcList are invariants.                                         *)
(***************************************************************************)
EXTENDS ProcList, FiniteSetTheorems, WellFoundedInduction, TLAPS

Entered == {p \in Procs : pc[p] # "outside"}
Present == {p \in Procs : pc[p] = "member"}

\* proc_count is the number of the processes that are neither outside nor leaving.
CountInv == proc_count = Cardinality(Present)

\* All pointers are to entries that have been on the list, and the entry of a
\* process that has not joined has no pointer yet.
PointerInv ==
  /\ \A e \in Entries : next[e] # Nil => next[e] \in Entered
  /\ \A p \in Procs : next[p] # Nil => p \in Entered
  /\ \A p \in Procs : prev[p] # Root => prev[p] \in Entered
  /\ \A p \in Procs : cur[p] # Nil => cur[p] \in Entered
  /\ \A p \in Procs : pc[p] \in {"climb", "look"} => cur[p] # Nil

\* An entry is at most as old as the number of entries that there have been.
AgeInv == \A p \in Entered : age[p] <= Cardinality(Entered)

ListInv == TypeOK /\ CountInv /\ PointerInv /\ AgeInv /\ Descending

-----------------------------------------------------------------------------

LEMMA EnteredFinite ==
  ASSUME TypeOK
  PROVE  /\ IsFiniteSet(Entered) /\ Cardinality(Entered) \in Nat
         /\ IsFiniteSet(Present) /\ Cardinality(Present) \in Nat
         /\ Cardinality(Present) <= Cardinality(Procs)
         /\ Cardinality(Procs) \in Nat
<1>1. Entered \subseteq Procs /\ Present \subseteq Procs BY DEF Entered, Present
<1>2. QED BY <1>1, FS_Subset, FS_CardinalityType, ProcListAssumption

LEMMA InitInv == Init => ListInv
<1> SUFFICES ASSUME Init PROVE ListInv OBVIOUS
<1>1. Present = {Creator} /\ Entered = {Creator}
  BY ProcListAssumption DEF Init, Present, Entered
<1>2. Cardinality({Creator}) = 1 BY FS_Singleton
<1>3. Cardinality(Procs) \in Nat /\ 1 <= Cardinality(Procs)
  <2>1. {Creator} \subseteq Procs BY ProcListAssumption
  <2>2. QED BY <2>1, <1>2, FS_Subset, FS_CardinalityType, ProcListAssumption
<1>4. TypeOK
  <2>1. proc_count \in 0 .. Cardinality(Procs) BY <1>3 DEF Init
  <2>2. /\ next \in [Entries -> Procs \cup {Nil}]
        /\ age \in [Entries -> Nat]
    BY ProcListAssumption DEF Init, Entries
  <2>3. QED BY <2>1, <2>2, ProcListAssumption DEF Init, TypeOK, Entries
<1>5. CountInv BY <1>1, <1>2 DEF Init, CountInv
<1>6. PointerInv BY <1>1, ProcListAssumption DEF Init, PointerInv, Entries
<1>7. AgeInv BY <1>1, <1>2, ProcListAssumption DEF Init, AgeInv, Entries
<1>8. Descending BY ProcListAssumption DEF Init, Descending, Entries
<1>9. QED BY <1>4, <1>5, <1>6, <1>7, <1>8 DEF ListInv

\* A process joins: its entry is younger than all others, and nobody has a pointer
\* to it.
LEMMA RegisterInv ==
  ASSUME ListInv, NEW p \in Procs, Register(p)
  PROVE  ListInv'
<1> USE DEF ListInv
<1>1. Present' = Present \cup {p} /\ p \notin Present
  BY DEF Register, Present, TypeOK
<1>2. Entered' = Entered \cup {p} /\ p \notin Entered
  BY DEF Register, Entered, TypeOK
<1>3. /\ Cardinality(Present') = Cardinality(Present) + 1
      /\ Cardinality(Entered') = Cardinality(Entered) + 1
  BY <1>1, <1>2, EnteredFinite, FS_AddElement
<1>4. Present' \subseteq Procs BY DEF Present
<1>5. Cardinality(Present') <= Cardinality(Procs)
  BY <1>4, FS_Subset, ProcListAssumption
<1>6. age' = [age EXCEPT ![p] = Cardinality(Entered) + 1]
  BY DEF Register, Entered
<1>7. TypeOK'
  <2>1. proc_count' \in 0 .. Cardinality(Procs)
    BY <1>3, <1>5, EnteredFinite DEF CountInv, Register
  <2>2. age' \in [Entries -> Nat]
    <3>1. Cardinality(Entered) + 1 \in Nat BY EnteredFinite
    <3>2. age \in [Entries -> Nat] BY DEF TypeOK
    <3>3. QED BY <1>6, <3>1, <3>2
  <2>3. raced' \in BOOLEAN /\ stray' \in BOOLEAN
    BY DEF Register, TypeOK
  <2>4. next' \in [Entries -> Procs \cup {Nil}] BY DEF Register, TypeOK, Entries
  <2>5. pc' \in [Procs -> {"outside", "member", "climb", "look", "unlock", "free",
                           "missing", "gone"}]
    BY DEF Register, TypeOK
  <2>6. QED BY <2>1, <2>2, <2>3, <2>4, <2>5 DEF Register, TypeOK
<1>8. CountInv' BY <1>3 DEF CountInv, Register
<1>9. PointerInv'
  BY <1>2, ProcListAssumption DEF PointerInv, Register, TypeOK, Entries
<1>10. AgeInv'
  <2> SUFFICES ASSUME NEW q \in Entered' PROVE age'[q] <= Cardinality(Entered')
    BY DEF AgeInv
  <2>1. CASE q = p BY <2>1, <1>3, <1>6, EnteredFinite DEF TypeOK, Entries
  <2>2. CASE q # p
    <3>1. q \in Entered /\ age'[q] = age[q] /\ age[q] \in Nat
      BY <2>2, <1>2, <1>6 DEF TypeOK, Entries, Entered
    <3>2. QED BY <3>1, <1>3, EnteredFinite DEF AgeInv
  <2>3. QED BY <2>1, <2>2
<1>11. Descending'
  <2>1. \A q \in Entered : q \in Procs /\ q # p /\ age'[q] = age[q] /\ age[q] \in Nat
    BY <1>2, <1>6 DEF TypeOK, Entries, Entered
  <2>2. age'[p] = Cardinality(Entered) + 1 BY <1>6 DEF TypeOK, Entries
  <2> SUFFICES ASSUME NEW q \in Procs
               PROVE  /\ next'[q] # Nil => age'[next'[q]] < age'[q]
                      /\ pc'[q] \in {"climb", "look"} /\ prev'[q] # Root =>
                           age'[cur'[q]] < age'[prev'[q]]
    BY DEF Descending
  <2>3. CASE q = p
    <3>1. pc'[q] = "member" BY <2>3 DEF Register, TypeOK
    <3>2. next'[q] = next[Root]
      BY <2>3, ProcListAssumption DEF Register, TypeOK, Entries
    <3>3. next[Root] # Nil => next[Root] \in Entered BY DEF PointerInv, Entries
    <3>4. next[Root] # Nil => age'[next[Root]] <= Cardinality(Entered)
      BY <3>3, <2>1 DEF AgeInv
    <3>5. next[Root] # Nil => age'[next[Root]] \in Nat BY <3>3, <2>1
    <3>6. QED BY <2>3, <3>1, <3>2, <3>4, <3>5, <2>2, EnteredFinite
  <2>4. CASE q # p
    <3>1. /\ next'[q] = next[q] /\ pc'[q] = pc[q] /\ prev'[q] = prev[q]
          /\ cur'[q] = cur[q]
      BY <2>4, ProcListAssumption DEF Register, TypeOK, Entries
    <3>2. next[q] # Nil => next[q] \in Entered /\ q \in Entered
      BY DEF PointerInv, Entries
    <3>3. prev[q] # Root => prev[q] \in Entered BY DEF PointerInv
    <3>4. pc[q] \in {"climb", "look"} => cur[q] \in Entered BY DEF PointerInv
    <3>5. QED BY <3>1, <3>2, <3>3, <3>4, <2>1 DEF Descending
  <2>5. QED BY <2>3, <2>4
<1>12. QED BY <1>7, <1>8, <1>9, <1>10, <1>11

\* A process goes on to an entry that it has read a pointer to: at the start of its
\* climb, and along the list.
LEMMA LeaveStartInv ==
  ASSUME ListInv, NEW p \in Procs, LeaveStart(p)
  PROVE  ListInv'
<1> USE DEF ListInv
<1>1. Present' = Present \ {p} /\ p \in Present
  BY DEF LeaveStart, GoTo, Present, TypeOK
<1>2. Entered' = Entered BY DEF LeaveStart, GoTo, Entered, TypeOK
<1>3. Cardinality(Present') = Cardinality(Present) - 1
  BY <1>1, EnteredFinite, FS_RemoveElement
<1>4. IsFiniteSet(Present') BY <1>1, EnteredFinite, FS_RemoveElement
<1>5. Cardinality(Present') \in Nat BY <1>4, FS_CardinalityType
<1>6. TypeOK'
  <2>1. proc_count' \in 0 .. Cardinality(Procs)
    BY <1>3, <1>5, EnteredFinite DEF CountInv, LeaveStart
  <2>2. /\ raced' \in BOOLEAN
        /\ cur' \in [Procs -> Procs \cup {Nil}]
        /\ lock' \in [Entries -> Procs \cup {Nil}]
        /\ prev' \in [Procs -> Entries]
    BY DEF LeaveStart, GoTo, TypeOK, Entries
  <2>3. pc' \in [Procs -> {"outside", "member", "climb", "look", "unlock", "free",
                           "missing", "gone"}]
    BY DEF LeaveStart, GoTo, TypeOK
  <2>4. QED BY <2>1, <2>2, <2>3 DEF LeaveStart, TypeOK
<1>7. CountInv' BY <1>3 DEF CountInv, LeaveStart
<1>8. PointerInv'
  BY <1>2, ProcListAssumption DEF PointerInv, LeaveStart, GoTo, TypeOK, Entries
<1>9. AgeInv' BY <1>2 DEF AgeInv, LeaveStart
<1>10. Descending' BY DEF Descending, LeaveStart, GoTo, TypeOK
<1>11. QED BY <1>6, <1>7, <1>8, <1>9, <1>10

\* The other steps leave the count alone.
LEMMA LookInv ==
  ASSUME ListInv, NEW p \in Procs, Look(p)
  PROVE  ListInv'
<1> USE DEF ListInv
<1>1. Present' = Present /\ Entered' = Entered
  BY DEF Look, GoTo, Present, Entered, TypeOK
<1>2. cur[p] \in Entered /\ cur[p] \in Procs
  BY DEF Look, PointerInv, Entered
<1>3. TypeOK'
  <2>1. /\ raced' \in BOOLEAN
        /\ cur' \in [Procs -> Procs \cup {Nil}]
        /\ prev' \in [Procs -> Entries]
    BY <1>2 DEF Look, GoTo, TypeOK, Entries
  <2>2. pc' \in [Procs -> {"outside", "member", "climb", "look", "unlock", "free",
                           "missing", "gone"}]
    BY DEF Look, GoTo, TypeOK
  <2>3. QED BY <2>1, <2>2 DEF Look, TypeOK
<1>4. CountInv' BY <1>1 DEF CountInv, Look
<1>5. PointerInv' BY <1>1, <1>2 DEF PointerInv, Look, GoTo, TypeOK, Entries
<1>6. AgeInv' BY <1>1 DEF AgeInv, Look
<1>7. Descending' BY <1>2 DEF Descending, Look, GoTo, TypeOK
<1>8. QED BY <1>3, <1>4, <1>5, <1>6, <1>7

\* What the pointer is changed to is older than the entry that is taken out, which
\* is older than the entry before.
LEMMA UnlinkInv ==
  ASSUME ListInv, NEW p \in Procs, Unlink(p)
  PROVE  ListInv'
<1> USE DEF ListInv
<1>1. Present' = Present /\ Entered' = Entered
  BY DEF Unlink, Window, Present, Entered, TypeOK
<1>2. pc[p] = "look" /\ cur[p] = p /\ p \in Entered
  BY DEF Unlink, Window, Entered
<1>3. prev[p] \in Entries /\ (prev[p] # Root => prev[p] \in Entered /\ prev[p] \in Procs)
  BY DEF PointerInv, TypeOK, Entered
<1>4. TypeOK'
  <2>1. next' \in [Entries -> Procs \cup {Nil}]
    BY DEF Unlink, TypeOK, Entries
  <2>2. raced' \in BOOLEAN /\ stray' \in BOOLEAN BY DEF Unlink, TypeOK
  <2>3. pc' \in [Procs -> {"outside", "member", "climb", "look", "unlock", "free",
                           "missing", "gone"}]
    BY DEF Unlink, TypeOK
  <2>4. QED BY <2>1, <2>2, <2>3 DEF Unlink, TypeOK
<1>5. CountInv' BY <1>1 DEF CountInv, Unlink
<1>6. PointerInv'
  BY <1>1, <1>2, <1>3, ProcListAssumption DEF PointerInv, Unlink, TypeOK, Entries
<1>7. AgeInv' BY <1>1 DEF AgeInv, Unlink
<1>8. Descending'
  <2> SUFFICES ASSUME NEW q \in Procs
               PROVE  /\ next'[q] # Nil => age[next'[q]] < age[q]
                      /\ pc'[q] \in {"climb", "look"} /\ prev[q] # Root =>
                           age[cur[q]] < age[prev[q]]
    BY DEF Descending, Unlink
  <2>1. pc'[q] \in {"climb", "look"} /\ prev[q] # Root => age[cur[q]] < age[prev[q]]
    BY DEF Descending, Unlink, TypeOK
  <2>2. CASE q = prev[p]
    <3>1. next'[q] = next[p] BY <2>2 DEF Unlink, TypeOK, Entries
    <3>2. q # Root BY ProcListAssumption
    <3>3. age[p] < age[q] BY <1>2, <2>2, <3>2 DEF Descending
    <3>4. next[p] # Nil => age[next[p]] < age[p] BY DEF Descending
    <3>5. age[p] \in Nat /\ age[q] \in Nat BY DEF TypeOK, Entries
    <3>6. next[p] # Nil => age[next[p]] \in Nat BY DEF TypeOK, Entries
    <3>7. QED BY <2>1, <3>1, <3>3, <3>4, <3>5, <3>6
  <2>3. CASE q # prev[p]
    <3>1. next'[q] = next[q] BY <2>3 DEF Unlink, TypeOK, Entries
    <3>2. QED BY <2>1, <3>1 DEF Descending
  <2>4. QED BY <2>2, <2>3
<1>9. QED BY <1>4, <1>5, <1>6, <1>7, <1>8

LEMMA OtherInv ==
  ASSUME ListInv, NEW p \in Procs, Climb(p) \/ Unlock(p) \/ Free(p) \/ Missing(p)
  PROVE  ListInv'
<1> USE DEF ListInv
<1>1. Present' = Present /\ Entered' = Entered
  BY DEF Climb, Unlock, Free, Missing, Present, Entered, TypeOK
<1>2. TypeOK'
  <2>1. lock' \in [Entries -> Procs \cup {Nil}]
    BY DEF Climb, Unlock, Free, Missing, TypeOK, Entries
  <2>2. freed' \in SUBSET Procs /\ stray' \in BOOLEAN
    BY DEF Climb, Unlock, Free, Missing, TypeOK
  <2>3. pc' \in [Procs -> {"outside", "member", "climb", "look", "unlock", "free",
                           "missing", "gone"}]
    BY DEF Climb, Unlock, Free, Missing, TypeOK
  <2>4. QED BY <2>1, <2>2, <2>3 DEF Climb, Unlock, Free, Missing, TypeOK
<1>3. CountInv' BY <1>1 DEF CountInv, Climb, Unlock, Free, Missing
<1>4. PointerInv'
  BY <1>1 DEF PointerInv, Climb, Unlock, Free, Missing, TypeOK
<1>5. AgeInv' BY <1>1 DEF AgeInv, Climb, Unlock, Free, Missing
<1>6. Descending' BY DEF Descending, Climb, Unlock, Free, Missing, TypeOK
<1>7. QED BY <1>2, <1>3, <1>4, <1>5, <1>6

LEMMA StepInv == ListInv /\ [Next]_vars => ListInv'
<1> SUFFICES ASSUME ListInv, [Next]_vars PROVE ListInv' OBVIOUS
<1>1. CASE UNCHANGED vars
  BY <1>1 DEF vars, ListInv, TypeOK, CountInv, PointerInv, AgeInv, Descending, Entered,
              Present
<1>2. ASSUME NEW p \in Procs, Register(p) \/ LeaveStart(p) \/ Leaving(p)
      PROVE  ListInv'
  BY <1>2, RegisterInv, LeaveStartInv, LookInv, UnlinkInv, OtherInv DEF Leaving
<1>3. QED BY <1>1, <1>2 DEF Next

LEMMA ListInvHolds == Spec => []ListInv
BY InitInv, StepInv, PTL DEF Spec

\* The list is well typed for any finite set of processes; in particular
\* proc_count, which sc_join increments and sc_killLocalProc decrements, stays
\* between 0 and the number of processes.
THEOREM ListTypeCorrect == Spec => []TypeOK
<1>1. ListInv => TypeOK BY DEF ListInv
<1>2. QED BY <1>1, ListInvHolds, PTL

\* A pointer leads only to an older entry, whatever leavers and joiners do to each
\* other between releasing a lock and changing the pointer: there is never a cycle,
\* and no two leavers take their locks in different orders.
THEOREM DescendingHolds == Spec => []Descending
<1>1. ListInv => Descending BY DEF ListInv
<1>2. QED BY <1>1, ListInvHolds, PTL

-----------------------------------------------------------------------------
(* The list without a race                                                 *)

\* The entries that no one has taken out yet, and the places that point to them.
InList == {p \in Procs : pc[p] \in {"member", "climb", "look"}}
Places == InList \cup {Root}
Before(e, p) == e = Root \/ age[p] < age[e]

DistinctInv == \A p, q \in Entered : age[p] = age[q] => p = q

\* A pointer in the list leads to the youngest of the older entries.
LinkInv ==
  \A e \in Places :
    /\ next[e] = Nil => \A p \in InList : ~ Before(e, p)
    /\ \A q \in Procs : next[e] = q =>
         /\ q \in InList /\ Before(e, q)
         /\ \A p \in InList : Before(e, p) => age[p] <= age[q]

\* A leaver has the lock of the place whose pointer it has read, is still to come to
\* its own entry, and what it has read is still there: nobody is about to change it.
ClimbingInv ==
  \A p \in Procs, e \in Entries : pc[p] = "climb" /\ prev[p] = e =>
    /\ e \in Places /\ Before(e, p)
    /\ lock[e] = p /\ next[e] = cur[p]
    /\ \A q \in Procs : Window(q) => prev[q] # e

LookingInv ==
  \A p, d \in Procs : pc[p] = "look" /\ cur[p] = d =>
    /\ d \in InList /\ lock[d] = p
    /\ d # p => Before(d, p)

\* A leaver that has found itself has gone without the lock of the place before, which
\* still points to it.
WindowInv ==
  \A p \in Procs, e \in Entries : Window(p) /\ prev[p] = e => e \in Places /\ next[e] = p

\* What has been taken out is locked by its own process only.
EndInv ==
  \A p \in Procs :
    /\ pc[p] # "missing"
    /\ p \in freed => pc[p] = "gone"
    /\ p \notin InList /\ pc[p] # "unlock" => lock[p] = Nil

CleanInv ==
  DistinctInv /\ LinkInv /\ ClimbingInv /\ LookingInv /\ WindowInv /\ EndInv /\ ~ stray

SoundInv == ~ raced => CleanInv

\* A set of numbers has a smallest one.
LEMMA LeastAge ==
  ASSUME NEW T \in SUBSET Nat, T # {}
  PROVE  \E m \in T : \A k \in T : m <= k
<1> DEFINE R == {pair \in Nat \X Nat : pair[1] < pair[2]}
<1>1. IsWellFoundedOn(R, Nat) BY NatLessThanWellFounded DEF OpToRel
<1>2. PICK m \in T : \A k \in T : ~ (<<k, m>> \in R)
  <2> HIDE DEF R
  <2>1. QED BY <1>1, WFMin
<1>3. ASSUME NEW k \in T PROVE m <= k
  <2>1. ~ (k < m) BY <1>2
  <2>2. QED BY <2>1
<1>4. QED BY <1>3

LEMMA CleanFacts ==
  ASSUME ListInv, CleanInv
  PROVE  /\ \A p \in InList : /\ p \in Procs /\ p \in Entered /\ p \in Entries /\ age[p] \in Nat
                              /\ p # Root /\ p # Nil /\ p \notin freed
         /\ Root \in Entries /\ Root \in Places /\ Root # Nil
         /\ \A e \in Places : e \in Entries
         /\ \A e \in Places, p \in InList : Before(e, p) =>
              next[e] \in InList /\ (next[e] = p \/ Before(next[e], p))
         /\ \A e \in Places : next[e] \in Procs => next[e] \in InList /\ Before(e, next[e])
<1>1. \A p \in InList : /\ p \in Procs /\ p \in Entered /\ p \in Entries /\ age[p] \in Nat
                        /\ p # Root /\ p # Nil /\ p \notin freed
  BY ProcListAssumption DEF InList, Entered, Entries, ListInv, TypeOK, CleanInv, EndInv
<1>2. Root \in Entries /\ Root \in Places /\ Root # Nil
  BY ProcListAssumption DEF Entries, Places
<1>3. \A e \in Places : e \in Entries BY <1>1, <1>2 DEF Places
<1>4. ASSUME NEW e \in Places, NEW p \in InList, Before(e, p)
      PROVE  next[e] \in InList /\ (next[e] = p \/ Before(next[e], p))
  <2>1. next[e] \in Procs BY <1>3, <1>4 DEF CleanInv, LinkInv, ListInv, TypeOK
  <2>2. next[e] \in InList /\ age[p] <= age[next[e]] BY <1>4, <2>1 DEF CleanInv, LinkInv
  <2>3. age[p] = age[next[e]] => p = next[e] BY <1>1, <2>2 DEF CleanInv, DistinctInv
  <2>4. QED BY <1>1, <2>2, <2>3 DEF Before
<1>5. \A e \in Places : next[e] \in Procs => next[e] \in InList /\ Before(e, next[e])
  BY DEF CleanInv, LinkInv
<1>6. QED BY <1>1, <1>2, <1>3, <1>4, <1>5

\* Only one place points to an entry.
LEMMA OnePointer ==
  ASSUME ListInv, CleanInv, NEW d \in Places, NEW e \in Places, next[d] = next[e],
         next[d] \in Procs
  PROVE  d = e
<1> SUFFICES ASSUME d # e PROVE FALSE OBVIOUS
<1>1. next[d] \in InList /\ Before(d, next[d]) /\ Before(e, next[d]) BY CleanFacts
<1>2. \/ e \in InList /\ Before(d, e)
      \/ d \in InList /\ Before(e, d)
  BY CleanFacts DEF Places, Before, CleanInv, DistinctInv
<1>3. CASE e \in InList /\ Before(d, e)
  BY <1>1, <1>3, CleanFacts DEF Before
<1>4. CASE d \in InList /\ Before(e, d)
  BY <1>1, <1>4, CleanFacts DEF Before
<1>5. QED BY <1>2, <1>3, <1>4

\* A walk from the head meets exactly the entries that have not been taken out.
LEMMA ListedAll ==
  ASSUME ListInv, CleanInv
  PROVE  Listed = InList
<1>1. Listed \subseteq InList
  <2>1. InList \in SUBSET Procs BY CleanFacts
  <2>2. \A e \in Places : next[e] \in InList \cup {Nil}
    BY CleanFacts DEF ListInv, TypeOK
  <2>3. next[Root] \in InList \cup {Nil} /\ \A e \in InList : next[e] \in InList \cup {Nil}
    BY <2>2 DEF Places
  <2>4. QED BY <2>1, <2>3 DEF Listed
<1>2. ASSUME NEW p \in InList PROVE p \in Listed
  <2> SUFFICES ASSUME NEW met \in SUBSET Procs, next[Root] \in met \cup {Nil},
                      \A e \in met : next[e] \in met \cup {Nil},
                      p \notin met
               PROVE  FALSE
    BY CleanFacts DEF Listed
  <2> DEFINE Left == {e \in met \cap InList : Before(e, p)}
             T == {age[e] : e \in Left}
  <2>1. T \in SUBSET Nat BY CleanFacts
  <2>2. next[Root] \in Left
    <3>1. next[Root] \in InList /\ (next[Root] = p \/ Before(next[Root], p))
      BY CleanFacts DEF Before
    <3>2. QED BY <3>1, CleanFacts
  <2>3. T # {} BY <2>2
  <2>4. PICK m \in T : \A k \in T : m <= k
    <3> HIDE DEF T
    <3>1. QED BY <2>1, <2>3, LeastAge
  <2>5. PICK e \in Left : m = age[e] BY <2>4
  <2>6. next[e] \in InList /\ (next[e] = p \/ Before(next[e], p)) /\ Before(e, next[e])
    BY <2>5, CleanFacts DEF Places
  <2>7. next[e] \in Left BY <2>5, <2>6, CleanFacts
  <2>8. age[next[e]] < age[e] BY <2>5, <2>6, CleanFacts DEF Before
  <2>9. age[next[e]] \in T BY <2>7
  <2>10. QED BY <2>4, <2>5, <2>6, <2>8, <2>9, CleanFacts
<1>3. QED BY <1>1, <1>2

LEMMA CleanInit == Init => SoundInv
<1> SUFFICES ASSUME Init PROVE CleanInv BY DEF SoundInv
<1>1. /\ InList = {Creator} /\ Entered = {Creator}
      /\ \A p \in Procs : pc[p] \notin {"climb", "look", "missing", "unlock"}
  BY ProcListAssumption DEF Init, InList, Entered
<1>2. /\ next[Root] = Creator /\ next[Creator] = Nil /\ age[Creator] = 1
      /\ \A p \in Procs : lock[p] = Nil
  BY ProcListAssumption DEF Init, Entries
<1>3. LinkInv
  BY <1>1, <1>2, ProcListAssumption DEF LinkInv, Places, Before
<1>4. DistinctInv BY <1>1 DEF DistinctInv
<1>5. ClimbingInv /\ LookingInv /\ WindowInv /\ EndInv
  BY <1>1, <1>2 DEF ClimbingInv, LookingInv, WindowInv, EndInv, Window, Init
<1>6. QED BY <1>3, <1>4, <1>5 DEF CleanInv, Init

\* A process joins without a race: no leaver has read the head of the list.
LEMMA RegisterClean ==
  ASSUME ListInv, CleanInv, NEW p \in Procs, Register(p), ~ raced'
  PROVE  CleanInv'
<1>0. TypeOK /\ AgeInv BY DEF ListInv
<1>1. /\ pc[p] = "outside" /\ lock[Root] = Nil /\ ~ Exposed(Root, p)
      /\ age' = [age EXCEPT ![p] = Cardinality(Entered) + 1]
      /\ next' = [next EXCEPT ![p] = next[Root], ![Root] = p]
      /\ pc' = [pc EXCEPT ![p] = "member"]
      /\ UNCHANGED <<lock, freed, prev, cur, stray>>
  BY DEF Register, Entered
<1>2. /\ InList' = InList \cup {p} /\ p \notin InList
      /\ Entered' = Entered \cup {p} /\ p \notin Entered
      /\ \A q \in Procs \ {p} : pc'[q] = pc[q]
      /\ pc'[p] = "member"
  BY <1>0, <1>1 DEF InList, Entered, TypeOK
<1>3. /\ p # Root /\ p \in Entries /\ Root \in Entries /\ p # Nil
      /\ next'[p] = next[Root] /\ next'[Root] = p
      /\ \A e \in Entries \ {p, Root} : next'[e] = next[e]
  BY <1>0, <1>1, ProcListAssumption DEF TypeOK, Entries
<1>4. /\ \A q \in Entered : /\ age'[q] = age[q] /\ age[q] \in Nat /\ age[q] < age'[p]
                            /\ q \in Procs /\ q # p
      /\ age'[p] \in Nat
  <2>1. Cardinality(Entered) \in Nat BY <1>0, EnteredFinite
  <2>2. age'[p] = Cardinality(Entered) + 1 BY <1>0, <1>1, <1>3 DEF TypeOK
  <2>3. ASSUME NEW q \in Entered
        PROVE  age'[q] = age[q] /\ age[q] \in Nat /\ q \in Procs /\ q # p
    BY <1>0, <1>1, <1>2 DEF TypeOK, Entries, Entered
  <2>4. \A q \in Entered : age[q] <= Cardinality(Entered) BY <1>0 DEF AgeInv
  <2>5. QED BY <2>1, <2>2, <2>3, <2>4
<1>5. /\ \A q \in InList : q \in Entered /\ q \in Entries \ {p, Root}
      /\ \A q \in InList : ~ Before(q, p)' /\ Before(p, q)'
      /\ \A e \in Places, q \in InList : Before(e, q)' <=> Before(e, q)
  BY <1>2, <1>3, <1>4, CleanFacts DEF Before, Places
<1>6. DistinctInv'
  BY <1>2, <1>4 DEF DistinctInv, CleanInv
<1>7. LinkInv'
  <2> SUFFICES ASSUME NEW e \in Places'
               PROVE  /\ next'[e] = Nil => \A q \in InList' : ~ Before(e, q)'
                      /\ \A q \in Procs : next'[e] = q =>
                           /\ q \in InList' /\ Before(e, q)'
                           /\ \A r \in InList' : Before(e, r)' => age'[r] <= age'[q]
    BY DEF LinkInv
  <2>1. CASE e = Root
    BY <1>2, <1>3, <1>4, <1>5, <2>1 DEF Before
  <2>2. CASE e = p
    <3>0. \A q \in InList : Before(Root, q) BY DEF Before
    <3>1. ASSUME next[Root] = Nil PROVE InList = {}
      BY <3>0, <3>1, CleanFacts DEF CleanInv, LinkInv
    <3>2. ASSUME NEW q \in Procs, next[Root] = q
          PROVE  q \in InList /\ \A r \in InList : age[r] <= age[q]
      BY <3>0, <3>2, CleanFacts DEF CleanInv, LinkInv
    <3>3. ~ Before(p, p)' BY <1>3, <1>4 DEF Before
    <3>4. next'[e] = Nil => \A q \in InList' : ~ Before(e, q)'
      BY <1>2, <1>3, <2>2, <3>1, <3>3
    <3>5. ASSUME NEW q \in Procs, next'[e] = q
          PROVE  /\ q \in InList' /\ Before(e, q)'
                 /\ \A r \in InList' : Before(e, r)' => age'[r] <= age'[q]
      <4>1. q \in InList /\ \A r \in InList : age[r] <= age[q]
        BY <1>3, <2>2, <3>2, <3>5
      <4>2. QED BY <1>2, <1>4, <1>5, <2>2, <3>3, <4>1
    <3>6. QED BY <3>4, <3>5
  <2>3. CASE e \in InList
    <3>1. e \in Places /\ next'[e] = next[e] /\ ~ Before(e, p)'
      BY <1>3, <1>5, <2>3 DEF Places
    <3>2. \A q \in InList : Before(e, q)' <=> Before(e, q) BY <1>5, <3>1
    <3>3. next'[e] = Nil => \A q \in InList' : ~ Before(e, q)'
      BY <1>2, <3>1, <3>2 DEF CleanInv, LinkInv
    <3>4. ASSUME NEW q \in Procs, next'[e] = q
          PROVE  /\ q \in InList' /\ Before(e, q)'
                 /\ \A r \in InList' : Before(e, r)' => age'[r] <= age'[q]
      <4>1. /\ q \in InList /\ Before(e, q)
            /\ \A r \in InList : Before(e, r) => age[r] <= age[q]
        BY <3>1, <3>4 DEF CleanInv, LinkInv
      <4>2. QED BY <1>2, <1>4, <1>5, <3>1, <3>2, <4>1
    <3>5. QED BY <3>3, <3>4
  <2>4. QED BY <1>2, <2>1, <2>2, <2>3 DEF Places
<1>8. \A q \in Procs : /\ Window(q)' <=> Window(q)
                       /\ Window(q) => prev[q] # Root
  BY <1>1, <1>2 DEF Window, Exposed
<1>9. ClimbingInv'
  <2> SUFFICES ASSUME NEW q \in Procs, NEW e \in Entries, pc'[q] = "climb", prev'[q] = e
               PROVE  /\ e \in Places' /\ Before(e, q)'
                      /\ lock'[e] = q /\ next'[e] = cur'[q]
                      /\ \A r \in Procs : Window(r)' => prev'[r] # e
    BY DEF ClimbingInv
  <2>1. q # p /\ pc[q] = "climb" /\ prev[q] = e /\ q \in InList
    BY <1>1, <1>2 DEF InList
  <2>2. /\ e \in Places /\ Before(e, q) /\ lock[e] = q /\ next[e] = cur[q]
        /\ \A r \in Procs : Window(r) => prev[r] # e
    BY <2>1 DEF CleanInv, ClimbingInv
  <2>3. e # Root /\ e \in InList BY <1>1, <2>1, <2>2, CleanFacts DEF Places
  <2>4. next'[e] = next[e] /\ e \in Places' BY <1>2, <1>3, <1>5, <2>3 DEF Places
  <2>5. QED BY <1>1, <1>5, <1>8, <2>1, <2>2, <2>4
<1>10. LookingInv'
  <2> SUFFICES ASSUME NEW q \in Procs, NEW d \in Procs, pc'[q] = "look", cur'[q] = d
               PROVE  /\ d \in InList' /\ lock'[d] = q
                      /\ d # q => Before(d, q)'
    BY DEF LookingInv
  <2>1. q # p /\ pc[q] = "look" /\ cur[q] = d /\ q \in InList
    BY <1>1, <1>2 DEF InList
  <2>2. d \in InList /\ lock[d] = q /\ (d # q => Before(d, q))
    BY <2>1 DEF CleanInv, LookingInv
  <2>3. QED BY <1>1, <1>2, <1>5, <2>1, <2>2 DEF Places
<1>11. WindowInv'
  <2> SUFFICES ASSUME NEW q \in Procs, NEW e \in Entries, Window(q)', prev'[q] = e
               PROVE  e \in Places' /\ next'[e] = q
    BY DEF WindowInv
  <2>1. e \in Places /\ next[e] = q /\ e # Root BY <1>1, <1>8 DEF CleanInv, WindowInv
  <2>2. QED BY <1>2, <1>3, <1>5, <2>1 DEF Places
<1>12. EndInv' BY <1>1, <1>2 DEF EndInv, CleanInv
<1>13. QED BY <1>1, <1>6, <1>7, <1>9, <1>10, <1>11, <1>12 DEF CleanInv

\* Steps that leave the list and its entries alone.
LEMMA LinksKept ==
  ASSUME ListInv, CleanInv, UNCHANGED <<next, age>>, InList' = InList, Entered' = Entered
  PROVE  DistinctInv' /\ LinkInv' /\ Places' = Places /\ \A e, q : Before(e, q)' <=> Before(e, q)
BY DEF CleanInv, DistinctInv, LinkInv, Places, Before

\* A leaver goes on to the next entry, at the start and along the list: there is one,
\* because its own is still ahead.
LEMMA GoOnClean ==
  ASSUME ListInv, CleanInv, NEW p \in Procs, NEW e \in Places, ~ Exposed(e, p),
         p \in InList, Before(e, p), lock'[e] = p, \A d \in Entries : d # e => lock'[d] = lock[d],
         lock[e] \in {p, Nil}, pc[p] # "climb", ~ Window(p),
         prev' = [prev EXCEPT ![p] = e], GoTo(p, next[e]),
         UNCHANGED <<next, freed, age, stray>>
  PROVE  CleanInv'
<1>0. TypeOK BY DEF ListInv
<1>1. next[e] \in InList /\ (next[e] = p \/ Before(next[e], p)) /\ next[e] # Nil
  BY CleanFacts
<1>2. /\ cur' = [cur EXCEPT ![p] = next[e]] /\ pc' = [pc EXCEPT ![p] = "climb"]
  BY <1>1 DEF GoTo
<1>3. /\ pc'[p] = "climb" /\ cur'[p] = next[e] /\ prev'[p] = e
      /\ \A q \in Procs \ {p} : pc'[q] = pc[q] /\ cur'[q] = cur[q] /\ prev'[q] = prev[q]
  BY <1>0, <1>2 DEF TypeOK
<1>4. InList' = InList /\ Entered' = Entered
  BY <1>3 DEF InList, Entered
<1>5. DistinctInv' /\ LinkInv' /\ Places' = Places /\ \A d, q : Before(d, q)' <=> Before(d, q)
  BY <1>4, LinksKept
<1>6. \A q \in Procs : Window(q)' <=> Window(q)
  BY <1>3 DEF Window
<1>7. \A q \in Procs : Window(q) => prev[q] # e /\ q # p BY DEF Exposed
<1>8. ClimbingInv'
  <2> SUFFICES ASSUME NEW q \in Procs, NEW d \in Entries, pc'[q] = "climb", prev'[q] = d
               PROVE  /\ d \in Places' /\ Before(d, q)'
                      /\ lock'[d] = q /\ next'[d] = cur'[q]
                      /\ \A r \in Procs : Window(r)' => prev'[r] # d
    BY DEF ClimbingInv
  <2>1. CASE q = p BY <1>3, <1>5, <1>6, <1>7, <2>1
  <2>2. CASE q # p
    <3>1. /\ d \in Places /\ Before(d, q) /\ lock[d] = q /\ next[d] = cur[q]
          /\ \A r \in Procs : Window(r) => prev[r] # d
      BY <1>3, <2>2 DEF CleanInv, ClimbingInv
    <3>2. d # e /\ lock'[d] = lock[d] BY <2>2, <3>1, CleanFacts, ProcListAssumption
    <3>3. QED BY <1>3, <1>5, <1>6, <1>7, <2>2, <3>1, <3>2
  <2>3. QED BY <2>1, <2>2
<1>9. LookingInv'
  <2> SUFFICES ASSUME NEW q \in Procs, NEW d \in Procs, pc'[q] = "look", cur'[q] = d
               PROVE  /\ d \in InList' /\ lock'[d] = q
                      /\ d # q => Before(d, q)'
    BY DEF LookingInv
  <2>1. q # p /\ pc[q] = "look" /\ cur[q] = d BY <1>3
  <2>2. d \in InList /\ lock[d] = q /\ (d # q => Before(d, q))
    BY <2>1 DEF CleanInv, LookingInv
  <2>3. d # e /\ lock'[d] = lock[d] BY <2>1, <2>2, CleanFacts, ProcListAssumption
  <2>4. QED BY <1>4, <1>5, <2>2, <2>3
<1>10. WindowInv'
  <2> SUFFICES ASSUME NEW q \in Procs, NEW d \in Entries, Window(q)', prev'[q] = d
               PROVE  d \in Places' /\ next'[d] = q
    BY DEF WindowInv
  <2>1. q # p /\ Window(q) /\ prev[q] = d BY <1>3, <1>6, <1>7
  <2>2. QED BY <1>5, <2>1 DEF CleanInv, WindowInv
<1>11. EndInv'
  <2>1. \A q \in Procs : q \notin InList => lock'[q] = lock[q]
    BY ProcListAssumption DEF Places, Entries
  <2>2. QED BY <1>3, <1>4, <2>1, CleanFacts DEF CleanInv, EndInv
<1>12. QED BY <1>5, <1>8, <1>9, <1>10, <1>11 DEF CleanInv

LEMMA LeaveStartClean ==
  ASSUME ListInv, CleanInv, NEW p \in Procs, LeaveStart(p), ~ raced'
  PROVE  CleanInv'
<1>0. TypeOK BY DEF ListInv
<1>1. /\ pc[p] = "member" /\ lock[Root] = Nil /\ ~ Exposed(Root, p)
      /\ lock' = [lock EXCEPT ![Root] = p]
      /\ prev' = [prev EXCEPT ![p] = Root] /\ GoTo(p, next[Root])
      /\ UNCHANGED <<next, freed, age, stray>>
  BY DEF LeaveStart
<1>2. p \in InList /\ Before(Root, p) /\ ~ Window(p) /\ pc[p] # "climb"
  BY <1>1 DEF InList, Before, Window
<1>3. lock'[Root] = p /\ \A d \in Entries : d # Root => lock'[d] = lock[d]
  BY <1>0, <1>1 DEF TypeOK, Entries
<1>4. Root \in Places BY DEF Places
<1>5. QED BY <1>1, <1>2, <1>3, <1>4, GoOnClean

LEMMA LookClean ==
  ASSUME ListInv, CleanInv, NEW p \in Procs, Look(p), ~ raced'
  PROVE  CleanInv'
<1>0. TypeOK BY DEF ListInv
<1>1. /\ pc[p] = "look" /\ cur[p] # p /\ ~ Exposed(cur[p], p)
      /\ prev' = [prev EXCEPT ![p] = cur[p]] /\ GoTo(p, next[cur[p]])
      /\ UNCHANGED <<next, lock, freed, age, stray>>
  BY DEF Look
<1>2. p \in InList /\ ~ Window(p) /\ pc[p] # "climb" BY <1>1 DEF InList, Window
<1>3. cur[p] \in Procs BY <1>1, ProcListAssumption DEF ListInv, PointerInv, TypeOK
<1>4. cur[p] \in InList /\ lock[cur[p]] = p /\ Before(cur[p], p)
  BY <1>1, <1>3 DEF CleanInv, LookingInv
<1>5. cur[p] \in Places BY <1>4 DEF Places
<1>6. QED BY <1>1, <1>2, <1>4, <1>5, GoOnClean

LEMMA ClimbClean ==
  ASSUME ListInv, CleanInv, NEW p \in Procs, Climb(p)
  PROVE  CleanInv'
<1> DEFINE e == prev[p]
           c == cur[p]
<1>0. TypeOK BY DEF ListInv
<1>1. /\ pc[p] = "climb" /\ lock[c] = Nil /\ lock' = [lock EXCEPT ![c] = p, ![e] = Nil]
      /\ stray' = (stray \/ c \in freed) /\ pc' = [pc EXCEPT ![p] = "look"]
      /\ UNCHANGED <<next, freed, prev, cur, age>>
  BY DEF Climb
<1>2. /\ e \in Places /\ Before(e, p) /\ lock[e] = p /\ next[e] = c /\ p \in InList
      /\ \A q \in Procs : Window(q) => prev[q] # e
  BY <1>0, <1>1 DEF CleanInv, ClimbingInv, TypeOK, InList
<1>3. /\ c \in InList /\ c \in Procs /\ (c = p \/ Before(c, p)) /\ Before(e, c) /\ c # e
      /\ c \notin freed /\ c \in Entries /\ e \in Entries
  <2>1. c \in InList /\ (c = p \/ Before(c, p)) BY <1>2, CleanFacts
  <2>2. Before(e, c) BY <1>2, <2>1, CleanFacts
  <2>3. c # e BY <2>1, <2>2, CleanFacts DEF Before
  <2>4. QED BY <1>2, <2>1, <2>2, <2>3, CleanFacts
<1>4. /\ pc'[p] = "look" /\ \A q \in Procs \ {p} : pc'[q] = pc[q]
      /\ lock'[c] = p /\ lock'[e] = Nil /\ \A d \in Entries \ {c, e} : lock'[d] = lock[d]
  BY <1>0, <1>1, <1>3 DEF TypeOK
<1>5. InList' = InList /\ Entered' = Entered
  BY <1>1, <1>4 DEF InList, Entered
<1>6. DistinctInv' /\ LinkInv' /\ Places' = Places /\ \A d, q : Before(d, q)' <=> Before(d, q)
  BY <1>1, <1>5, LinksKept
<1>7. \A q \in Procs : Window(q)' => Window(q) \/ (q = p /\ c = p)
  BY <1>1, <1>4 DEF Window
<1>8. ClimbingInv'
  <2> SUFFICES ASSUME NEW q \in Procs, NEW d \in Entries, pc'[q] = "climb", prev'[q] = d
               PROVE  /\ d \in Places' /\ Before(d, q)'
                      /\ lock'[d] = q /\ next'[d] = cur'[q]
                      /\ \A r \in Procs : Window(r)' => prev'[r] # d
    BY DEF ClimbingInv
  <2>1. q # p /\ pc[q] = "climb" /\ prev[q] = d BY <1>1, <1>4
  <2>2. /\ d \in Places /\ Before(d, q) /\ lock[d] = q /\ next[d] = cur[q]
        /\ \A r \in Procs : Window(r) => prev[r] # d
    BY <2>1 DEF CleanInv, ClimbingInv
  <2>3. d # e /\ d # c BY <1>1, <1>2, <2>1, <2>2, ProcListAssumption
  <2>4. \A r \in Procs : Window(r)' => prev'[r] # d BY <1>1, <1>7, <2>2, <2>3
  <2>5. lock'[d] = q BY <1>4, <2>2, <2>3
  <2>6. next'[d] = cur'[q] BY <1>1, <2>2
  <2>7. QED BY <1>6, <2>2, <2>4, <2>5, <2>6
<1>9. LookingInv'
  <2> SUFFICES ASSUME NEW q \in Procs, NEW d \in Procs, pc'[q] = "look", cur'[q] = d
               PROVE  /\ d \in InList' /\ lock'[d] = q
                      /\ d # q => Before(d, q)'
    BY DEF LookingInv
  <2>1. CASE q = p BY <1>1, <1>3, <1>4, <1>5, <1>6, <2>1
  <2>2. CASE q # p
    <3>1. pc[q] = "look" /\ cur[q] = d BY <1>1, <1>4, <2>2
    <3>2. d \in InList /\ lock[d] = q /\ (d # q => Before(d, q))
      BY <3>1 DEF CleanInv, LookingInv
    <3>3. d # e /\ d # c BY <1>1, <1>2, <2>2, <3>2, ProcListAssumption
    <3>4. QED BY <1>4, <1>5, <1>6, <3>2, <3>3, CleanFacts
  <2>3. QED BY <2>1, <2>2
<1>10. WindowInv'
  <2> SUFFICES ASSUME NEW q \in Procs, NEW d \in Entries, Window(q)', prev'[q] = d
               PROVE  d \in Places' /\ next'[d] = q
    BY DEF WindowInv
  <2>1. CASE Window(q) BY <1>1, <1>6, <2>1 DEF CleanInv, WindowInv
  <2>2. CASE q = p /\ c = p BY <1>1, <1>2, <1>6, <2>2
  <2>3. QED BY <1>7, <2>1, <2>2
<1>11. EndInv'
  <2>1. \A q \in Procs : q \notin InList => lock'[q] = lock[q]
    BY <1>2, <1>3, <1>4, ProcListAssumption DEF Places, Entries
  <2>2. QED BY <1>1, <1>4, <1>5, <2>1 DEF CleanInv, EndInv
<1>12. QED BY <1>1, <1>3, <1>6, <1>8, <1>9, <1>10, <1>11 DEF CleanInv

\* A leaver takes its entry out: whoever else could have read the pointer to it would
\* have raced.
LEMMA UnlinkClean ==
  ASSUME ListInv, CleanInv, NEW p \in Procs, Unlink(p), ~ raced'
  PROVE  CleanInv'
<1> DEFINE e == prev[p]
<1>0. TypeOK BY DEF ListInv
<1>1. /\ Window(p) /\ pc[p] = "look" /\ cur[p] = p /\ ~ Exposed(p, p)
      /\ next' = [next EXCEPT ![e] = next[p]]
      /\ stray' = (stray \/ e \in freed) /\ pc' = [pc EXCEPT ![p] = "unlock"]
      /\ UNCHANGED <<lock, freed, prev, cur, age>>
  BY DEF Unlink, Window
<1>2. /\ e \in Places /\ next[e] = p /\ p \in InList /\ lock[p] = p /\ Before(e, p) /\ e # p
      /\ e \in Entries /\ p \in Entries /\ p \in Places
  <2>1. e \in Entries BY <1>0 DEF TypeOK
  <2>2. e \in Places /\ next[e] = p BY <1>1, <2>1 DEF CleanInv, WindowInv
  <2>3. p \in InList /\ lock[p] = p BY <1>1 DEF CleanInv, LookingInv
  <2>4. Before(e, p) BY <2>2, CleanFacts
  <2>5. e # p BY <2>3, <2>4, CleanFacts DEF Before
  <2>6. QED BY <2>1, <2>2, <2>3, <2>4, <2>5, CleanFacts DEF Places
<1>3. /\ pc'[p] = "unlock" /\ \A q \in Procs \ {p} : pc'[q] = pc[q]
      /\ next'[e] = next[p] /\ \A d \in Entries \ {e} : next'[d] = next[d]
  BY <1>0, <1>1, <1>2 DEF TypeOK
<1>4. InList' = InList \ {p} /\ Places' = Places \ {p} /\ Entered' = Entered
  BY <1>1, <1>2, <1>3, CleanFacts DEF InList, Places, Entered
<1>5. \A d, q : Before(d, q)' <=> Before(d, q) BY <1>1 DEF Before
<1>6. DistinctInv' BY <1>1, <1>4 DEF CleanInv, DistinctInv
<1>7. LinkInv'
  <2> SUFFICES ASSUME NEW d \in Places \ {p}
               PROVE  /\ next'[d] = Nil => \A q \in InList \ {p} : ~ Before(d, q)
                      /\ \A q \in Procs : next'[d] = q =>
                           /\ q \in InList \ {p} /\ Before(d, q)
                           /\ \A r \in InList \ {p} : Before(d, r) => age[r] <= age[q]
    BY <1>1, <1>4, <1>5 DEF LinkInv
  <2>1. CASE d = e
    \* All that comes after e without p comes after p.
    <3>1. \A q \in InList \ {p} : Before(e, q) => Before(p, q)
      BY <1>2, CleanFacts
    <3>2. \A q \in InList : Before(p, q) => Before(e, q) /\ q # p
      BY <1>2, CleanFacts DEF Before, Places
    <3>3. next'[d] = Nil => \A q \in InList \ {p} : ~ Before(d, q)
      BY <1>2, <1>3, <2>1, <3>1 DEF CleanInv, LinkInv
    <3>4. ASSUME NEW q \in Procs, next'[d] = q
          PROVE  /\ q \in InList \ {p} /\ Before(d, q)
                 /\ \A r \in InList \ {p} : Before(d, r) => age[r] <= age[q]
      <4>1. /\ q \in InList /\ Before(p, q)
            /\ \A r \in InList : Before(p, r) => age[r] <= age[q]
        BY <1>2, <1>3, <2>1, <3>4 DEF CleanInv, LinkInv
      <4>2. QED BY <2>1, <3>1, <3>2, <4>1
    <3>5. QED BY <3>3, <3>4
  <2>2. CASE d # e
    <3>1. next'[d] = next[d] BY <1>3, <2>2, CleanFacts
    <3>2. next[d] # p BY <1>2, <2>2, OnePointer
    <3>3. QED BY <3>1, <3>2 DEF CleanInv, LinkInv
  <2>3. QED BY <2>1, <2>2
<1>8. \A q \in Procs : /\ Window(q)' <=> Window(q) /\ q # p
                       /\ Window(q) /\ q # p => prev[q] # p
  BY <1>1, <1>3 DEF Window, Exposed
<1>9. ClimbingInv'
  <2> SUFFICES ASSUME NEW q \in Procs, NEW d \in Entries, pc'[q] = "climb", prev'[q] = d
               PROVE  /\ d \in Places' /\ Before(d, q)'
                      /\ lock'[d] = q /\ next'[d] = cur'[q]
                      /\ \A r \in Procs : Window(r)' => prev'[r] # d
    BY DEF ClimbingInv
  <2>1. q # p /\ pc[q] = "climb" /\ prev[q] = d BY <1>1, <1>3
  <2>2. /\ d \in Places /\ Before(d, q) /\ lock[d] = q /\ next[d] = cur[q]
        /\ \A r \in Procs : Window(r) => prev[r] # d
    BY <2>1 DEF CleanInv, ClimbingInv
  <2>3. d # p /\ d # e BY <1>1, <1>2, <2>1, <2>2
  <2>4. QED BY <1>1, <1>3, <1>4, <1>5, <1>8, <2>2, <2>3
<1>10. LookingInv'
  <2> SUFFICES ASSUME NEW q \in Procs, NEW d \in Procs, pc'[q] = "look", cur'[q] = d
               PROVE  /\ d \in InList' /\ lock'[d] = q
                      /\ d # q => Before(d, q)'
    BY DEF LookingInv
  <2>1. q # p /\ pc[q] = "look" /\ cur[q] = d BY <1>1, <1>3
  <2>2. d \in InList /\ lock[d] = q /\ (d # q => Before(d, q))
    BY <2>1 DEF CleanInv, LookingInv
  <2>3. d # p BY <1>2, <2>1, <2>2
  <2>4. QED BY <1>1, <1>4, <1>5, <2>2, <2>3
<1>11. WindowInv'
  <2> SUFFICES ASSUME NEW q \in Procs, NEW d \in Entries, Window(q)', prev'[q] = d
               PROVE  d \in Places' /\ next'[d] = q
    BY DEF WindowInv
  <2>1. q # p /\ Window(q) /\ prev[q] = d /\ d # p BY <1>1, <1>8
  <2>2. d \in Places /\ next[d] = q BY <2>1 DEF CleanInv, WindowInv
  <2>3. d # e BY <1>2, <2>1, <2>2
  <2>4. QED BY <1>3, <1>4, <2>1, <2>2, <2>3
<1>12. EndInv'
  BY <1>1, <1>2, <1>3, <1>4, CleanFacts DEF CleanInv, EndInv
<1>13. e \notin freed BY <1>2, CleanFacts, ProcListAssumption DEF Places, ListInv, TypeOK
<1>14. QED BY <1>1, <1>6, <1>7, <1>9, <1>10, <1>11, <1>12, <1>13 DEF CleanInv

LEMMA LeftClean ==
  ASSUME ListInv, CleanInv, NEW p \in Procs, Unlock(p) \/ Free(p)
  PROVE  CleanInv'
<1>0. TypeOK BY DEF ListInv
<1>1. /\ pc[p] \in {"unlock", "free"} /\ lock' = [lock EXCEPT ![p] = Nil]
      /\ pc' = [pc EXCEPT ![p] = IF pc[p] = "unlock" THEN "free" ELSE "gone"]
      /\ UNCHANGED <<next, prev, cur, age>>
      /\ freed' = IF pc[p] = "unlock" THEN freed ELSE freed \cup {p}
  BY DEF Unlock, Free
<1>2. /\ pc'[p] = (IF pc[p] = "unlock" THEN "free" ELSE "gone")
      /\ \A q \in Procs \ {p} : pc'[q] = pc[q]
      /\ lock'[p] = Nil /\ p \in Entries /\ \A d \in Entries \ {p} : lock'[d] = lock[d]
  BY <1>0, <1>1 DEF TypeOK, Entries
<1>3. InList' = InList /\ Entered' = Entered /\ p \notin InList /\ p \notin Places
  BY <1>1, <1>2, ProcListAssumption DEF InList, Entered, Places
<1>4. DistinctInv' /\ LinkInv' /\ Places' = Places /\ \A d, q : Before(d, q)' <=> Before(d, q)
  BY <1>1, <1>3, LinksKept
<1>5. ~ stray'
  BY <1>3 DEF CleanInv, EndInv, Unlock, Free
<1>6. \A q \in Procs : Window(q)' <=> Window(q) BY <1>1, <1>2 DEF Window
<1>7. ClimbingInv'
  <2> SUFFICES ASSUME NEW q \in Procs, NEW d \in Entries, pc'[q] = "climb", prev'[q] = d
               PROVE  /\ d \in Places' /\ Before(d, q)'
                      /\ lock'[d] = q /\ next'[d] = cur'[q]
                      /\ \A r \in Procs : Window(r)' => prev'[r] # d
    BY DEF ClimbingInv
  <2>1. pc[q] = "climb" /\ prev[q] = d BY <1>1, <1>2
  <2>2. /\ d \in Places /\ Before(d, q) /\ lock[d] = q /\ next[d] = cur[q]
        /\ \A r \in Procs : Window(r) => prev[r] # d
    BY <2>1 DEF CleanInv, ClimbingInv
  <2>3. lock'[d] = lock[d] BY <1>2, <1>3, <2>2
  <2>4. QED BY <1>1, <1>4, <1>6, <2>2, <2>3
<1>8. LookingInv'
  <2> SUFFICES ASSUME NEW q \in Procs, NEW d \in Procs, pc'[q] = "look", cur'[q] = d
               PROVE  /\ d \in InList' /\ lock'[d] = q
                      /\ d # q => Before(d, q)'
    BY DEF LookingInv
  <2>1. pc[q] = "look" /\ cur[q] = d BY <1>1, <1>2
  <2>2. d \in InList /\ lock[d] = q /\ (d # q => Before(d, q))
    BY <2>1 DEF CleanInv, LookingInv
  <2>3. lock'[d] = lock[d] BY <1>2, <1>3, <2>2, CleanFacts
  <2>4. QED BY <1>3, <1>4, <2>2, <2>3
<1>9. WindowInv' BY <1>1, <1>4, <1>6 DEF CleanInv, WindowInv
<1>10. EndInv'
  BY <1>1, <1>2, <1>3 DEF CleanInv, EndInv, Entries
<1>11. QED BY <1>4, <1>5, <1>7, <1>8, <1>9, <1>10 DEF CleanInv

LEMMA SoundStep == ListInv /\ SoundInv /\ [Next]_vars => SoundInv'
<1> SUFFICES ASSUME ListInv, SoundInv, [Next]_vars, ~ raced' PROVE CleanInv' BY DEF SoundInv
<1>1. ASSUME NEW p \in Procs, Register(p) \/ LeaveStart(p) \/ Leaving(p)
      PROVE  CleanInv'
  <2>1. ~ raced
    BY <1>1 DEF Register, LeaveStart, Leaving, Climb, Look, Unlink, Unlock, Free, Missing
  <2>2. CleanInv BY <2>1 DEF SoundInv
  <2>3. ~ Missing(p) BY <2>2 DEF Missing, CleanInv, EndInv
  <2>4. QED
    BY <1>1, <2>2, <2>3, RegisterClean, LeaveStartClean, ClimbClean, LookClean, UnlinkClean,
       LeftClean DEF Leaving
<1>2. CASE UNCHANGED vars
  <2>1. CleanInv BY <1>2 DEF vars, SoundInv
  <2>2. UNCHANGED <<next, lock, freed, pc, prev, cur, age, stray>> BY <1>2 DEF vars
  <2>3. \A q : Window(q)' <=> Window(q) BY <2>2 DEF Window
  <2>4. InList' = InList /\ Entered' = Entered BY <2>2 DEF InList, Entered
  <2>5. DistinctInv' /\ LinkInv' /\ Places' = Places /\ \A d, q : Before(d, q)' <=> Before(d, q)
    BY <2>1, <2>2, <2>4, LinksKept
  <2>6. QED
    BY <2>1, <2>2, <2>3, <2>4, <2>5 DEF CleanInv, ClimbingInv, LookingInv, WindowInv, EndInv
<1>3. QED BY <1>1, <1>2 DEF Next

\* As long as nobody has used a pointer that a leaver was about to change, the list has
\* all members, no freed entry is on it or is touched, and every leaver finds itself:
\* the window between unlocking the entry before and changing its pointer is the only
\* thing that is wrong with sc_killLocalProc.
THEOREM SoundUnlessRacedHolds == Spec => []SoundUnlessRaced
<1>1. ListInv /\ SoundInv => SoundUnlessRaced
  <2> SUFFICES ASSUME ListInv, CleanInv
               PROVE  /\ ListsActive /\ Listed \cap freed = {} /\ ~ stray
                      /\ \A p \in Procs : pc[p] # "missing"
    BY DEF SoundInv, SoundUnlessRaced
  <2>1. Listed = InList BY ListedAll
  <2>2. ListsActive BY <2>1 DEF ListsActive, InList
  <2>3. Listed \cap freed = {} BY <2>1, CleanFacts
  <2>4. QED BY <2>2, <2>3 DEF CleanInv, EndInv
<1>2. Spec => [](ListInv /\ SoundInv)
  BY InitInv, StepInv, CleanInit, SoundStep, PTL DEF Spec
<1>3. QED BY <1>1, <1>2, PTL
=============================================================================
