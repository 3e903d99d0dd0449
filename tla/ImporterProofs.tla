--------------------------- MODULE ImporterProofs ---------------------------
(***************************************************************************)
(* Proofs about module Importer, for any layout of the address space, any  *)
(* number of region structs and any number of new maps.                    *)
(***************************************************************************)
EXTENDS Importer, FiniteSetTheorems, SequenceTheorems, TLAPS

Filling == pc \in {"fill", "fill_none"}
IsSet(i) == active_regions[i].prot # "unset"

\* The steps of main, and the lock: while a region is filled in, nobody enters the
\* group, and whoever walks has it among the regions that pass it by.
PhaseInv ==
  /\ pc \in {"load", "init"} =>
       active_regions = << >> /\ ~ rw_p_only /\ line = 1 /\ importCount = 0
  /\ pc \in {"scan", "fill", "fill_none", "app", "stuck"} => active_regions # << >>
  /\ active_regions = << >> => joiner = "outside" /\ proc_count = 0 /\ reserved = {}
  /\ active_regions # << >> =>
       /\ Len(active_regions) >= 2
       /\ proc_count = IF joiner = "member" THEN 2 ELSE 1
  /\ active_regionsTail = Len(active_regions)
  /\ importCount < line
  /\ pc = "fill" => Line \in {"ro", "rw"}
  /\ pc = "fill_none" => Line = "none"
  /\ Filling =>
       /\ rootHeld /\ joiner # "member" /\ line \in Ranges /\ ~ Skipped
       /\ joiner \in {"walking", "walked"} => line \in passedBy

\* The regions of the list: only the one that is being filled in has no fields yet.
StructInv ==
  /\ \A i \in 1 .. Len(active_regions) :
       /\ ~ IsSet(i) => active_regions[i].range = 0
       /\ ~ IsSet(i) <=> (pc = "fill" /\ i = Len(active_regions)) \/ (pc = "fill_none" /\ i = 2)
       /\ IsSet(i) =>
            /\ active_regions[i].range \in Ranges \ reserved
            /\ active_regions[i].offset \in -1 .. tmpfile_size - 1
  /\ \A i, j \in 1 .. Len(active_regions) : IsSet(i) /\ IsSet(j) /\ i # j =>
       /\ active_regions[i].range # active_regions[j].range
       /\ active_regions[i].offset # NoOffset => active_regions[i].offset # active_regions[j].offset
  /\ pc # "returned" => file_size = tmpfile_size

\* What the scan has passed is imported, and what is imported the scan has passed.
ScanInv ==
  /\ \A r \in Ranges : maps[r] = "absent" => before[r] = "absent"
  /\ \A r \in Ranges : before[r] = "none" => maps[r] = "none"
  /\ \A r \in reserved : maps[r] = "none" /\ before[r] = "absent"
  /\ pc # "returned" => \A i \in 1 .. Len(active_regions) : IsSet(i) =>
       /\ maps[active_regions[i].range] \in {"backing", "none"}
       /\ rw_p_only \/ active_regions[i].range < line \/ before[active_regions[i].range] = "absent"
  /\ \A r \in Ranges : (rw_p_only \/ r < line) /\ before[r] \in {"none", "ro", "rw"} =>
       \E i \in 1 .. Len(active_regions) : active_regions[i].range = r
  /\ rw_p_only /\ importCount = 0 => \A r \in Ranges : r < line /\ maps[r] = "rw" => r \in late
  /\ pc = "app" => rw_p_only /\ importCount = 0 /\ line \notin Ranges

\* The joiner has what it has walked over, or it was linked meanwhile.
WalkInv ==
  /\ joiner \in {"walking", "walked", "member"} =>
       \A i \in 1 .. Len(active_regions) :
         (joiner = "walking" => i <= walked) /\ IsSet(i) =>
           active_regions[i].range \in joinerMaps \cup passedBy

ImporterInv == TypeOK /\ PhaseInv /\ StructInv /\ ScanInv /\ WalkInv

-----------------------------------------------------------------------------

LEMMA LayoutFacts == Len(Layout) \in Nat /\ Ranges = 1 .. Len(Layout)
BY ImporterAssumption DEF Ranges

LEMMA RegionFacts ==
  ASSUME TypeOK
  PROVE  /\ Len(active_regions) \in Nat
         /\ \A i \in 1 .. Len(active_regions) :
              /\ active_regions[i] \in Region
              /\ active_regions[i].range \in Ranges \cup {0}
              /\ active_regions[i].offset \in Int
<1>1. Len(active_regions) \in Nat /\ \A i \in 1 .. Len(active_regions) : active_regions[i] \in Region
  BY DEF TypeOK
<1> QED
  BY <1>1 DEF Region

\* Four ranges, none of them twice.
LEMMA FourApart ==
  ASSUME NEW a, NEW b, NEW c, NEW d, Cardinality({a, b, c, d}) = 4
  PROVE  a # b /\ a # c /\ a # d /\ b # c /\ b # d /\ c # d
<1>1. ASSUME NEW x, NEW y, NEW z PROVE Cardinality({x, y, z}) # 4
  <2>1. IsFiniteSet({x}) /\ Cardinality({x}) = 1
    BY FS_Singleton
  <2>2. IsFiniteSet({x} \cup {y}) /\ Cardinality({x} \cup {y}) \in {1, 2}
    BY <2>1, FS_AddElement
  <2>3. Cardinality(({x} \cup {y}) \cup {z}) \in {1, 2, 3}
    BY <2>2, FS_AddElement
  <2>4. {x, y, z} = ({x} \cup {y}) \cup {z}
    OBVIOUS
  <2> QED
    BY <2>3, <2>4
<1>2. /\ a = b => {a, b, c, d} = {b, c, d}
      /\ a = c => {a, b, c, d} = {b, c, d}
      /\ a = d => {a, b, c, d} = {b, c, d}
      /\ b = c => {a, b, c, d} = {a, c, d}
      /\ b = d => {a, b, c, d} = {a, c, d}
      /\ c = d => {a, b, c, d} = {a, b, d}
  OBVIOUS
<1> QED
  BY <1>1, <1>2

-----------------------------------------------------------------------------
(* The process that joins                                                  *)

LEMMA JoinerStep ==
  ASSUME ImporterInv, JoinClaim \/ JoinWalk \/ JoinFails \/ JoinWalked \/ JoinRegister
  PROVE  ImporterInv'
<1> DEFINE n == Len(active_regions)
<1>0. TypeOK /\ PhaseInv /\ StructInv /\ ScanInv /\ WalkInv /\ n \in Nat
  BY RegionFacts DEF ImporterInv
<1>1. /\ UNCHANGED <<pc, maps, before, rw_p_only, line, importCount, active_regions, active_regionsTail,
                     free_structs, tmpfile_size, file_size, rootHeld, newMaps, reserved, late, passedBy>>
      /\ UNCHANGED <<Line, Skipped, Filling>>
  BY DEF JoinClaim, JoinWalk, JoinFails, JoinWalked, JoinRegister, scan, regions, file, Line, Skipped, Filling
<1>2. \A i \in 1 .. n : IsSet(i)' <=> IsSet(i)
  BY <1>1 DEF IsSet
<1>3. StructInv' /\ ScanInv'
  BY <1>0, <1>1, <1>2 DEF StructInv, ScanInv, IsSet
<1>4. CASE JoinClaim
  <2>1. /\ joiner = "outside" /\ joiner' = "walking" /\ walked' = 1
        /\ joinerMaps' = {active_regions[1].range}
        /\ ~ rootHeld /\ active_regions # << >> /\ proc_count' = proc_count
    BY <1>4 DEF JoinClaim
  <2>2. n >= 2 /\ 1 \in 1 .. n /\ ~ Filling
    BY <1>0, <2>1 DEF PhaseInv
  <2>3. IsSet(1) /\ active_regions[1].range \in Ranges
    BY <1>0, <2>2 DEF StructInv, Filling
  <2>4. TypeOK'
    <3>1. 1 \in 0 .. n
      BY <2>2
    <3> QED
      BY <1>0, <1>1, <2>1, <2>3, <3>1 DEF TypeOK
  <2>5. PhaseInv'
    BY <1>0, <1>1, <2>1, <2>2 DEF PhaseInv
  <2>6. WalkInv'
    <3>1. \A i \in 1 .. n : i <= 1 => i = 1
      BY <1>0
    <3> QED
      BY <1>1, <2>1, <3>1 DEF WalkInv, IsSet
  <2> QED
    BY <1>3, <2>4, <2>5, <2>6 DEF ImporterInv
<1>5. CASE JoinWalk
  <2>1. /\ joiner = "walking" /\ joiner' = joiner /\ walked' = walked + 1 /\ walked < n
        /\ active_regions[walked + 1].prot # "unset"
        /\ joinerMaps' = joinerMaps \cup {active_regions[walked + 1].range}
        /\ proc_count' = proc_count
    BY <1>5 DEF JoinWalk
  <2>2. walked \in Nat /\ walked + 1 \in 1 .. n /\ walked + 1 \in 0 .. n
    BY <1>0, <2>1 DEF TypeOK
  <2>3. active_regions[walked + 1].range \in Ranges
    BY <1>0, <2>1, <2>2 DEF StructInv, IsSet
  <2>4. TypeOK'
    BY <1>0, <1>1, <2>1, <2>2, <2>3 DEF TypeOK
  <2>5. PhaseInv'
    BY <1>0, <1>1, <2>1 DEF PhaseInv
  <2>6. WalkInv'
    <3>1. \A i \in 1 .. n : i <= walked + 1 => i <= walked \/ i = walked + 1
      BY <2>2
    <3>2. \A i \in 1 .. n : i <= walked /\ IsSet(i) => active_regions[i].range \in joinerMaps \cup passedBy
      BY <1>0, <2>1 DEF WalkInv
    <3>3. \A i \in 1 .. n : i <= walked + 1 /\ IsSet(i) => active_regions[i].range \in joinerMaps' \cup passedBy
      BY <2>1, <3>1, <3>2
    <3> QED
      BY <1>1, <2>1, <3>3 DEF WalkInv, IsSet
  <2> QED
    BY <1>3, <2>4, <2>5, <2>6 DEF ImporterInv
<1>6. CASE JoinFails \/ JoinWalked
  <2>1. /\ joiner = "walking" /\ UNCHANGED <<walked, joinerMaps, proc_count>>
        /\ joiner' = "failed" \/ (joiner' = "walked" /\ walked = n)
    BY <1>6 DEF JoinFails, JoinWalked
  <2>2. TypeOK'
    BY <1>0, <1>1, <2>1 DEF TypeOK
  <2>3. PhaseInv'
    BY <1>0, <1>1, <2>1 DEF PhaseInv
  <2>4. WalkInv'
    <3>1. \A i \in 1 .. n : walked = n => i <= walked
      BY <1>0
    <3>2. walked = n => \A i \in 1 .. n : IsSet(i) => active_regions[i].range \in joinerMaps \cup passedBy
      BY <1>0, <2>1, <3>1 DEF WalkInv
    <3> QED
      BY <1>1, <2>1, <3>2 DEF WalkInv, IsSet
  <2> QED
    BY <1>3, <2>2, <2>3, <2>4 DEF ImporterInv
<1>7. CASE JoinRegister
  <2>1. /\ joiner = "walked" /\ joiner' = "member" /\ ~ rootHeld /\ proc_count' = proc_count + 1
        /\ UNCHANGED <<walked, joinerMaps>>
    BY <1>7 DEF JoinRegister
  <2>2. active_regions # << >> /\ proc_count = 1 /\ ~ Filling
    BY <1>0, <2>1 DEF PhaseInv
  <2>3. TypeOK'
    BY <1>0, <1>1, <2>1, <2>2 DEF TypeOK
  <2>4. PhaseInv'
    BY <1>0, <1>1, <2>1, <2>2 DEF PhaseInv
  <2>5. WalkInv'
    BY <1>0, <1>1, <2>1 DEF WalkInv, IsSet
  <2> QED
    BY <1>3, <2>3, <2>4, <2>5 DEF ImporterInv
<1> QED
  BY <1>4, <1>5, <1>6, <1>7

-----------------------------------------------------------------------------
(* The scan, as long as it links nothing                                   *)

LEMMA MainStep ==
  ASSUME ImporterInv, LoadFails \/ ReadMaps \/ ImportCrowded \/ ImportNoStruct
  PROVE  ImporterInv'
<1> DEFINE n == Len(active_regions)
<1>0. TypeOK /\ PhaseInv /\ StructInv /\ ScanInv /\ WalkInv /\ n \in Nat
  BY RegionFacts DEF ImporterInv
<1>1. /\ UNCHANGED <<maps, rw_p_only, line, importCount, active_regions, active_regionsTail,
                     free_structs, tmpfile_size, file_size, newMaps, reserved, late, joiner, walked, joinerMaps,
                     passedBy, proc_count>>
      /\ pc \in {"load", "scan"}
  BY DEF LoadFails, ReadMaps, ImportCrowded, ImportNoStruct, Importing, scan, regions, file, group
<1>2. \/ pc' \in {"returned", "stuck"} /\ before' = before
      \/ pc = "load" /\ pc' = "init" /\ before' = maps /\ active_regions = << >>
  BY <1>0 DEF LoadFails, ReadMaps, ImportCrowded, ImportNoStruct, scan, PhaseInv
<1>3. /\ pc' = "returned" => rootHeld' = rootHeld
      /\ pc' = "stuck" => rootHeld' = TRUE /\ pc = "scan"
      /\ pc' = "init" => rootHeld' = rootHeld
  BY DEF LoadFails, ReadMaps, ImportCrowded, ImportNoStruct, Importing
<1>4. TypeOK'
  BY <1>0, <1>1, <1>2, <1>3 DEF TypeOK
<1>5. PhaseInv'
  BY <1>0, <1>1, <1>2, <1>3 DEF PhaseInv, Filling
<1>6. StructInv'
  BY <1>0, <1>1, <1>2 DEF StructInv, IsSet
<1>7. ScanInv'
  <2>1. CASE before' = before
    BY <1>0, <1>1, <1>2, <2>1 DEF ScanInv, IsSet
  <2>2. CASE before' # before
    <3>1. /\ pc = "load" /\ pc' = "init" /\ before' = maps /\ active_regions = << >> /\ ~ rw_p_only
          /\ line = 1 /\ reserved = {} /\ n = 0
      BY <1>0, <1>2, <2>2 DEF PhaseInv
    <3>2. \A r \in Ranges : ~ (r < 1)
      BY LayoutFacts
    <3>3. 1 .. n = {}
      BY <3>1
    <3> QED
      BY <1>1, <3>1, <3>2, <3>3 DEF ScanInv
  <2> QED
    BY <2>1, <2>2
<1>8. WalkInv'
  BY <1>0, <1>1 DEF WalkInv, IsSet
<1> QED
  BY <1>4, <1>5, <1>6, <1>7, <1>8 DEF ImporterInv

LEMMA SkipStep ==
  ASSUME ImporterInv, Skip
  PROVE  ImporterInv'
<1> DEFINE n == Len(active_regions)
<1>0. TypeOK /\ PhaseInv /\ StructInv /\ ScanInv /\ WalkInv /\ n \in Nat
  BY RegionFacts DEF ImporterInv
<1>1. /\ pc = "scan" /\ line \in Ranges /\ Skipped /\ line' = line + 1
      /\ UNCHANGED <<pc, maps, before, rw_p_only, importCount, active_regions, active_regionsTail,
                     free_structs, tmpfile_size, file_size, rootHeld, newMaps, reserved, late, joiner, walked,
                     joinerMaps, passedBy, proc_count>>
  BY DEF Skip, regions, file, group
<1>2. /\ line \in Nat /\ line + 1 \in 1 .. Len(Layout) + 1 /\ importCount \in Nat
      /\ \A r \in Ranges : r \in Nat /\ (r < line + 1 => r < line \/ r = line)
      /\ \A r \in Ranges : r < line => r < line + 1
  BY <1>0, <1>1, LayoutFacts DEF TypeOK
<1>3. /\ ~ rw_p_only => before[line] \notin {"none", "ro", "rw"}
      /\ rw_p_only => maps[line] # "rw"
  BY <1>1 DEF Skipped, Line
<1>4. TypeOK'
  BY <1>0, <1>1, <1>2 DEF TypeOK
<1>5. PhaseInv'
  BY <1>0, <1>1, <1>2 DEF PhaseInv, Filling
<1>6. StructInv'
  BY <1>0, <1>1 DEF StructInv, IsSet
<1>7. ScanInv'
  <2>1. \A i \in 1 .. n : IsSet(i) =>
          /\ maps[active_regions[i].range] \in {"backing", "none"}
          /\ rw_p_only \/ active_regions[i].range < line + 1 \/ before[active_regions[i].range] = "absent"
    BY <1>0, <1>1, <1>2 DEF ScanInv, StructInv
  <2>2. \A r \in Ranges : (rw_p_only \/ r < line + 1) /\ before[r] \in {"none", "ro", "rw"} =>
          \E i \in 1 .. n : active_regions[i].range = r
    BY <1>0, <1>2, <1>3 DEF ScanInv
  <2>3. rw_p_only /\ importCount = 0 => \A r \in Ranges : r < line + 1 /\ maps[r] = "rw" => r \in late
    BY <1>0, <1>2, <1>3 DEF ScanInv
  <2> QED
    BY <1>0, <1>1, <2>1, <2>2, <2>3 DEF ScanInv, IsSet
<1>8. WalkInv'
  BY <1>0, <1>1 DEF WalkInv, IsSet
<1> QED
  BY <1>4, <1>5, <1>6, <1>7, <1>8 DEF ImporterInv

LEMMA PassEndsStep ==
  ASSUME ImporterInv, PassEnds
  PROVE  ImporterInv'
<1> DEFINE n == Len(active_regions)
<1>0. TypeOK /\ PhaseInv /\ StructInv /\ ScanInv /\ WalkInv /\ n \in Nat
  BY RegionFacts DEF ImporterInv
<1>1. /\ pc = "scan" /\ line \notin Ranges
      /\ UNCHANGED <<maps, before, active_regions, active_regionsTail,
                     free_structs, tmpfile_size, file_size, rootHeld, newMaps, reserved, late, joiner, walked,
                     joinerMaps, passedBy, proc_count>>
      /\ \/ pc' = "app" /\ rw_p_only /\ importCount = 0 /\ UNCHANGED <<rw_p_only, line, importCount>>
         \/ rw_p_only' = TRUE /\ importCount' = 0 /\ line' = 1 /\ pc' = "scan"
  BY DEF PassEnds, scan, regions, file, group
<1>2. \A r \in Ranges : r < line /\ ~ (r < 1)
  BY <1>0, <1>1, LayoutFacts DEF TypeOK
<1>3. TypeOK'
  <2>1. pc' \in {"scan", "app"} /\ rw_p_only' \in BOOLEAN
    BY <1>0, <1>1 DEF TypeOK
  <2>2. 1 \in 1 .. Len(Layout) + 1 /\ 0 \in 0 .. Len(Layout)
    BY LayoutFacts
  <2>3. line \in 1 .. Len(Layout) + 1 /\ importCount \in 0 .. Len(Layout)
    BY <1>0 DEF TypeOK
  <2>4. line' \in 1 .. Len(Layout) + 1 /\ importCount' \in 0 .. Len(Layout)
    BY <1>1, <2>2, <2>3, Zenon
  <2> QED
    BY <1>0, <1>1, <2>1, <2>4 DEF TypeOK
<1>4. PhaseInv'
  BY <1>0, <1>1 DEF PhaseInv, Filling
<1>5. StructInv'
  BY <1>0, <1>1 DEF StructInv, IsSet
<1>6. ScanInv'
  <2>1. CASE pc' = "app"
    <3>1. UNCHANGED <<rw_p_only, line, importCount>> /\ rw_p_only /\ importCount = 0
      BY <1>1, <2>1
    <3> QED
      BY <1>0, <1>1, <2>1, <3>1 DEF ScanInv, IsSet
  <2>2. CASE pc' = "scan"
    <3>1. rw_p_only' = TRUE /\ importCount' = 0 /\ line' = 1
      BY <1>1, <2>2
    <3>2. \A r \in Ranges : before[r] \in {"none", "ro", "rw"} => \E i \in 1 .. n : active_regions[i].range = r
      BY <1>0, <1>2 DEF ScanInv
    <3> QED
      BY <1>0, <1>1, <1>2, <2>2, <3>1, <3>2 DEF ScanInv, IsSet
  <2> QED
    BY <1>1, <2>1, <2>2
<1>7. WalkInv'
  BY <1>0, <1>1 DEF WalkInv, IsSet
<1> QED
  BY <1>3, <1>4, <1>5, <1>6, <1>7 DEF ImporterInv

LEMMA NewMapStep ==
  ASSUME ImporterInv, NEW m \in Ranges, NewMap(m)
  PROVE  ImporterInv'
<1> DEFINE n == Len(active_regions)
<1>0. TypeOK /\ PhaseInv /\ StructInv /\ ScanInv /\ WalkInv /\ n \in Nat
  BY RegionFacts DEF ImporterInv
<1>1. /\ pc \in {"init", "scan", "fill", "fill_none"} /\ newMaps < MaxNewMaps /\ maps[m] = "absent"
      /\ maps' = [maps EXCEPT ![m] = "rw"]
      /\ newMaps' = newMaps + 1
      /\ late' = IF rw_p_only /\ m < line THEN late \cup {m} ELSE late
      /\ UNCHANGED <<pc, before, rw_p_only, line, importCount, active_regions, active_regionsTail,
                     free_structs, tmpfile_size, file_size, rootHeld, reserved, joiner, walked,
                     joinerMaps, passedBy, proc_count>>
  BY DEF NewMap, Absent, scan, regions, file, group
<1>2. maps'[m] = "rw" /\ \A r \in Ranges : r # m => maps'[r] = maps[r]
  BY <1>0, <1>1 DEF TypeOK
<1>3. TypeOK'
  <2>1. maps' \in [Ranges -> Kinds \cup {"backing"}]
    BY <1>0, <1>1 DEF TypeOK, Kinds
  <2>2. newMaps + 1 \in 0 .. MaxNewMaps
    BY <1>0, <1>1, ImporterAssumption DEF TypeOK
  <2>3. late' \in SUBSET Ranges
    BY <1>0, <1>1 DEF TypeOK
  <2> QED
    BY <1>0, <1>1, <2>1, <2>2, <2>3 DEF TypeOK
<1>4. PhaseInv'
  <2>1. Filling => Line' = Line
    <3>1. CASE Filling
      <4>1. line \in Ranges /\ ~ Skipped
        BY <1>0, <3>1 DEF PhaseInv
      <4>2. rw_p_only => m # line
        BY <1>1, <4>1 DEF Skipped, Line
      <4> QED
        BY <1>1, <1>2, <4>1, <4>2 DEF Line
    <3> QED
      BY <3>1
  <2>2. Filling => (Skipped' <=> Skipped)
    BY <1>1, <2>1 DEF Skipped
  <2>3. Filling' <=> Filling
    BY <1>1 DEF Filling
  <2> QED
    BY <1>0, <1>1, <2>1, <2>2, <2>3 DEF PhaseInv, Filling
<1>5. StructInv'
  BY <1>0, <1>1 DEF StructInv, IsSet
<1>6. ScanInv'
  <2>1. \A r \in Ranges : maps'[r] = "absent" => before[r] = "absent"
    BY <1>0, <1>2 DEF ScanInv
  <2>2. \A r \in reserved : maps'[r] = "none" /\ before[r] = "absent"
    <3>1. reserved \subseteq Ranges
      BY <1>0 DEF TypeOK
    <3> QED
      BY <1>0, <1>1, <1>2, <3>1 DEF ScanInv
  <2>3. \A i \in 1 .. n : IsSet(i) =>
          /\ maps'[active_regions[i].range] \in {"backing", "none"}
          /\ rw_p_only \/ active_regions[i].range < line \/ before[active_regions[i].range] = "absent"
    <3> SUFFICES ASSUME NEW i \in 1 .. n, IsSet(i)
                 PROVE  /\ maps'[active_regions[i].range] \in {"backing", "none"}
                        /\ rw_p_only \/ active_regions[i].range < line \/ before[active_regions[i].range] = "absent"
      OBVIOUS
    <3>1. active_regions[i].range \in Ranges
      BY <1>0 DEF StructInv
    <3>2. /\ maps[active_regions[i].range] \in {"backing", "none"}
          /\ rw_p_only \/ active_regions[i].range < line \/ before[active_regions[i].range] = "absent"
      BY <1>0, <1>1 DEF ScanInv
    <3> QED
      BY <1>1, <1>2, <3>1, <3>2
  <2>4. rw_p_only /\ importCount = 0 => \A r \in Ranges : r < line /\ maps'[r] = "rw" => r \in late'
    BY <1>0, <1>1, <1>2 DEF ScanInv
  <2> QED
    BY <1>0, <1>1, <2>1, <2>2, <2>3, <2>4 DEF ScanInv, IsSet
<1>7. WalkInv'
  BY <1>0, <1>1 DEF WalkInv, IsSet
<1> QED
  BY <1>3, <1>4, <1>5, <1>6, <1>7 DEF ImporterInv

LEMMA ScInitStep ==
  ASSUME ImporterInv, ScInit
  PROVE  ImporterInv'
<1>0. TypeOK /\ PhaseInv /\ StructInv /\ ScanInv /\ WalkInv
  BY DEF ImporterInv
<1>1. PICK page, page2, res, stack \in Absent : Inited(page, page2, res, stack)
  BY DEF ScInit
<1> DEFINE first == [range |-> page, prot |-> "rw", offset |-> 0]
<1> DEFINE second == [range |-> page2, prot |-> "rw", offset |-> 1]
<1>2. /\ pc = "init" /\ Cardinality({page, page2, res, stack}) = 4
      /\ maps' = [maps EXCEPT ![page] = "backing", ![page2] = "backing", ![res] = "none", ![stack] = "rw"]
      /\ active_regions' = <<first, second>>
      /\ active_regionsTail' = 2 /\ reserved' = {res} /\ tmpfile_size' = 2 /\ file_size' = 2
      /\ proc_count' = 1 /\ pc' = "scan"
      /\ UNCHANGED <<before, rw_p_only, line, importCount, free_structs, rootHeld, joiner, walked, joinerMaps,
                     passedBy, newMaps, late>>
  BY <1>1 DEF Inited, ScInit
<1>3. /\ active_regions = << >> /\ ~ rw_p_only /\ line = 1 /\ importCount = 0 /\ joiner = "outside"
      /\ Len(active_regions) = 0
  BY <1>0, <1>2 DEF PhaseInv
<1>4. page # page2 /\ page # res /\ page # stack /\ page2 # res /\ page2 # stack /\ res # stack
  BY <1>2, FourApart
<1>5. /\ page \in Ranges /\ page2 \in Ranges /\ res \in Ranges /\ stack \in Ranges
      /\ before[page] = "absent" /\ before[page2] = "absent" /\ before[res] = "absent"
      /\ before[stack] = "absent"
  BY <1>0 DEF Absent, ScanInv
<1>6. /\ maps'[page] = "backing" /\ maps'[page2] = "backing" /\ maps'[res] = "none" /\ maps'[stack] = "rw"
      /\ \A r \in Ranges \ {page, page2, res, stack} : maps'[r] = maps[r]
      /\ maps' \in [Ranges -> Kinds \cup {"backing"}]
  BY <1>0, <1>2, <1>4, <1>5 DEF TypeOK, Kinds
<1>7. first \in Region /\ second \in Region
  BY <1>5 DEF Region
<1>8. /\ active_regions' \in Seq(Region) /\ Len(active_regions') = 2
      /\ active_regions'[1] = first /\ active_regions'[2] = second
      /\ \A i \in 1 .. 2 : i = 1 \/ i = 2
  BY <1>2, <1>7
<1>9. /\ first.range = page /\ first.prot = "rw" /\ first.offset = 0
      /\ second.range = page2 /\ second.prot = "rw" /\ second.offset = 1
  OBVIOUS
<1> HIDE DEF first, second
<1>10. TypeOK'
  <2>1. walked = 0
    BY <1>0, <1>3 DEF TypeOK
  <2>2. /\ 2 \in 0 .. Len(active_regions') /\ walked' \in 0 .. Len(active_regions')
        /\ 1 \in 0 .. 2 /\ 2 \in Nat
    BY <1>2, <1>8, <2>1
  <2> QED
    BY <1>0, <1>2, <1>5, <1>6, <1>8, <2>2 DEF TypeOK
<1>11. PhaseInv'
  BY <1>2, <1>3, <1>8 DEF PhaseInv, Filling
<1>12. \A i \in 1 .. 2 : /\ active_regions'[i].prot # "unset"
                         /\ active_regions'[i].range \in {page, page2}
                         /\ active_regions'[i].offset \in {0, 1}
  BY <1>8, <1>9
<1>13. StructInv'
  <2>1. \A i \in 1 .. 2 : /\ active_regions'[i].range \in Ranges \ {res}
                          /\ active_regions'[i].offset \in -1 .. 2 - 1
    BY <1>4, <1>5, <1>12
  <2>2. \A i, j \in 1 .. 2 : i # j => /\ active_regions'[i].range # active_regions'[j].range
                                      /\ active_regions'[i].offset # active_regions'[j].offset
    BY <1>4, <1>8, <1>9
  <2> QED
    BY <1>2, <1>8, <1>12, <2>1, <2>2 DEF StructInv, IsSet
<1>14. ScanInv'
  <2>1. \A r \in Ranges : maps'[r] = "absent" => before[r] = "absent"
    BY <1>0, <1>6 DEF ScanInv
  <2>2. \A i \in 1 .. 2 : /\ maps'[active_regions'[i].range] = "backing"
                          /\ before[active_regions'[i].range] = "absent"
    BY <1>5, <1>6, <1>12
  <2>3. \A r \in Ranges : ~ (r < 1)
    BY LayoutFacts
  <2>4. \A r \in Ranges : before[r] = "none" => maps'[r] = "none"
    BY <1>0, <1>5, <1>6 DEF ScanInv
  <2> QED
    BY <1>2, <1>3, <1>5, <1>6, <1>8, <2>1, <2>2, <2>3, <2>4 DEF ScanInv
<1>15. WalkInv'
  BY <1>2, <1>3 DEF WalkInv
<1> QED
  BY <1>10, <1>11, <1>13, <1>14, <1>15 DEF ImporterInv

-----------------------------------------------------------------------------
(* sc_import and sc_import_protNone                                        *)

\* A struct that is linked moves the ones behind its place, and none in front.
LEMMA LinkStep ==
  ASSUME ImporterInv, CanLink({"none", "ro", "rw"}), Link,
         NEW at \in 1 .. Len(active_regions) + 1,
         \/ pc' = "fill" /\ at = Len(active_regions) + 1 /\ Line \in {"ro", "rw"}
         \/ pc' = "fill_none" /\ at = 2 /\ Line = "none",
         active_regions' \in Seq(Region), Len(active_regions') = Len(active_regions) + 1,
         \A i \in 1 .. Len(active_regions) + 1 :
           active_regions'[i] = IF i < at THEN active_regions[i]
                                ELSE IF i = at THEN NewRegion ELSE active_regions[i - 1],
         active_regionsTail' = Len(active_regions'),
         walked' = IF walked >= at THEN walked + 1 ELSE walked
  PROVE  ImporterInv'
<1> DEFINE n == Len(active_regions)
<1> DEFINE old(i) == IF i < at THEN i ELSE i - 1
<1> DEFINE new(i) == IF i < at THEN i ELSE i + 1
<1>0. TypeOK /\ PhaseInv /\ StructInv /\ ScanInv /\ WalkInv /\ n \in Nat /\ walked \in 0 .. n
  BY RegionFacts DEF ImporterInv, TypeOK
<1>1. /\ pc = "scan" /\ line \in Ranges /\ ~ Skipped /\ ~ rootHeld /\ proc_count = 1 /\ free_structs > 1
      /\ free_structs' = free_structs - 1 /\ rootHeld' = TRUE
      /\ passedBy' = IF joiner \in {"walking", "walked"} THEN passedBy \cup {line} ELSE passedBy
      /\ UNCHANGED <<maps, before, rw_p_only, line, importCount, tmpfile_size, file_size, joiner, joinerMaps,
                     proc_count, newMaps, reserved, late>>
  BY DEF CanLink, Importing, Link, scan, file
<1>2. active_regions # << >> /\ n >= 2 /\ joiner # "member" /\ at \in Nat /\ at >= 2
  BY <1>0, <1>1 DEF PhaseInv
<1>3. \A i \in 1 .. n + 1 : i # at =>
        /\ old(i) \in 1 .. n /\ active_regions'[i] = active_regions[old(i)]
        /\ \A j \in 1 .. n + 1 : i # j /\ j # at => old(i) # old(j)
  BY <1>0, <1>2
<1>4. \A i \in 1 .. n : new(i) \in 1 .. n + 1 /\ active_regions'[new(i)] = active_regions[i]
  BY <1>0, <1>2
<1>5. \A i \in 1 .. n + 1 : i # at /\ i <= walked' => old(i) <= walked
  BY <1>0, <1>2
<1> HIDE DEF old, new
<1>6. active_regions'[at] = NewRegion /\ NewRegion.prot = "unset" /\ NewRegion.range = 0
  <2>1. at \in 1 .. n + 1 /\ ~ (at < at)
    BY <1>2
  <2> QED
    BY <2>1 DEF NewRegion
<1>7. \A i \in 1 .. n : IsSet(i)
  BY <1>0, <1>1 DEF StructInv
<1>8. /\ \A i \in 1 .. n + 1 : IsSet(i)' <=> i # at
      /\ active_regions' # << >> /\ Len(active_regions') = n + 1 /\ Len(active_regions') >= 2
  <2>1. \A i \in 1 .. n + 1 : i # at => active_regions'[i].prot # "unset"
    BY <1>3, <1>7 DEF IsSet
  <2>2. Len(active_regions') = n + 1 /\ Len(active_regions') >= 2 /\ active_regions' # << >>
    BY <1>0, <1>2
  <2> QED
    BY <1>6, <2>1, <2>2 DEF IsSet
<1>9. TypeOK'
  <2>1. free_structs - 1 \in 1 .. RegionStructs
    BY <1>0, <1>1, ImporterAssumption DEF TypeOK
  <2>2. walked' \in 0 .. Len(active_regions') /\ active_regionsTail' \in 0 .. Len(active_regions')
    BY <1>0, <1>2
  <2>3. passedBy' \in SUBSET Ranges
    BY <1>0, <1>1 DEF TypeOK
  <2>4. pc' \in {"fill", "fill_none"}
    OBVIOUS
  <2> QED
    BY <1>0, <1>1, <2>1, <2>2, <2>3, <2>4 DEF TypeOK
<1>10. PhaseInv'
  <2>1. Line' = Line /\ (Skipped' <=> Skipped)
    BY <1>1 DEF Line, Skipped
  <2> QED
    BY <1>0, <1>1, <1>2, <1>8, <2>1 DEF PhaseInv, Filling
<1>11. StructInv'
  <2>1. \A i \in 1 .. n + 1 : i # at <=> ~ ((pc' = "fill" /\ i = n + 1) \/ (pc' = "fill_none" /\ i = 2))
    BY <1>0
  <2>2. \A i \in 1 .. n + 1 : i # at => /\ active_regions'[i].range \in Ranges \ reserved
                                        /\ active_regions'[i].offset \in -1 .. tmpfile_size - 1
    BY <1>0, <1>3, <1>7 DEF StructInv
  <2>3. \A i, j \in 1 .. n + 1 : i # at /\ j # at /\ i # j =>
          /\ active_regions'[i].range # active_regions'[j].range
          /\ active_regions'[i].offset # NoOffset => active_regions'[i].offset # active_regions'[j].offset
    <3> SUFFICES ASSUME NEW i \in 1 .. n + 1, NEW j \in 1 .. n + 1, i # at, j # at, i # j
                 PROVE  /\ active_regions'[i].range # active_regions'[j].range
                        /\ active_regions'[i].offset # NoOffset =>
                             active_regions'[i].offset # active_regions'[j].offset
      OBVIOUS
    <3>1. /\ old(i) \in 1 .. n /\ old(j) \in 1 .. n /\ old(i) # old(j)
          /\ active_regions'[i] = active_regions[old(i)] /\ active_regions'[j] = active_regions[old(j)]
      BY <1>3
    <3>2. IsSet(old(i)) /\ IsSet(old(j))
      BY <1>7, <3>1
    <3> QED
      BY <1>0, <3>1, <3>2 DEF StructInv
  <2>4. file_size' = tmpfile_size'
    BY <1>0, <1>1 DEF StructInv
  <2> QED
    BY <1>1, <1>6, <1>8, <2>1, <2>2, <2>3, <2>4 DEF StructInv, NoOffset
<1>12. ScanInv'
  <2>1. \A i \in 1 .. n + 1 : i # at =>
          /\ maps[active_regions'[i].range] \in {"backing", "none"}
          /\ \/ rw_p_only \/ active_regions'[i].range < line
             \/ before[active_regions'[i].range] = "absent"
    <3> SUFFICES ASSUME NEW i \in 1 .. n + 1, i # at
                 PROVE  /\ maps[active_regions'[i].range] \in {"backing", "none"}
                        /\ \/ rw_p_only \/ active_regions'[i].range < line
                           \/ before[active_regions'[i].range] = "absent"
      OBVIOUS
    <3>1. old(i) \in 1 .. n /\ active_regions'[i] = active_regions[old(i)]
      BY <1>3
    <3>2. IsSet(old(i))
      BY <1>7, <3>1
    <3> QED
      BY <1>0, <1>1, <3>1, <3>2 DEF ScanInv
  <2>2. \A r \in Ranges : (rw_p_only \/ r < line) /\ before[r] \in {"none", "ro", "rw"} =>
          \E i \in 1 .. n + 1 : active_regions'[i].range = r
    <3>1. \A r \in Ranges : (rw_p_only \/ r < line) /\ before[r] \in {"none", "ro", "rw"} =>
            \E i \in 1 .. n : active_regions[i].range = r
      BY <1>0 DEF ScanInv
    <3> QED
      BY <1>4, <3>1
  <2>3. pc' # "app"
    OBVIOUS
  <2> QED
    BY <1>0, <1>1, <1>8, <2>1, <2>2, <2>3 DEF ScanInv
<1>13. WalkInv'
  <2>1. CASE joiner \in {"walking", "walked"}
    <3>1. \A i \in 1 .. n : (joiner = "walking" => i <= walked) =>
            active_regions[i].range \in joinerMaps \cup passedBy
      BY <1>0, <1>7, <2>1 DEF WalkInv
    <3>2. \A i \in 1 .. n + 1 : i # at /\ (joiner = "walking" => i <= walked') =>
            active_regions'[i].range \in joinerMaps \cup passedBy
      BY <1>3, <1>5, <3>1
    <3> QED
      BY <1>1, <1>8, <2>1, <3>2 DEF WalkInv
  <2>2. CASE joiner \notin {"walking", "walked"}
    BY <1>1, <1>2, <2>2 DEF WalkInv
  <2> QED
    BY <2>1, <2>2
<1> QED
  BY <1>9, <1>10, <1>11, <1>12, <1>13 DEF ImporterInv

LEMMA ImportLinkStep ==
  ASSUME ImporterInv, ImportLink
  PROVE  ImporterInv'
<1> DEFINE n == Len(active_regions)
<1>0. TypeOK /\ PhaseInv /\ n \in Nat /\ walked \in 0 .. n
  BY RegionFacts DEF ImporterInv, TypeOK
<1>1. /\ CanLink({"ro", "rw"}) /\ Link /\ pc' = "fill"
      /\ active_regions' = Append(SubSeq(active_regions, 1, active_regionsTail), NewRegion)
      /\ active_regionsTail' = active_regionsTail + 1
      /\ walked' = walked /\ active_regionsTail = n
  BY <1>0 DEF ImportLink, PhaseInv
<1>2. CanLink({"none", "ro", "rw"}) /\ Line \in {"ro", "rw"}
  BY <1>1 DEF CanLink, Importing
<1>3. NewRegion \in Region
  BY DEF NewRegion, Region, NoOffset
<1>4. active_regions \in Seq(Region)
  BY <1>0 DEF TypeOK
<1>5. SubSeq(active_regions, 1, n) = active_regions
  BY <1>4
<1>6. /\ active_regions' = Append(active_regions, NewRegion)
      /\ active_regions' \in Seq(Region) /\ Len(active_regions') = n + 1
      /\ \A i \in 1 .. n : active_regions'[i] = active_regions[i]
      /\ active_regions'[n + 1] = NewRegion
  BY <1>1, <1>3, <1>4, <1>5
<1>7. /\ n + 1 \in 1 .. n + 1
      /\ \A i \in 1 .. n + 1 : (i < n + 1 => i \in 1 .. n) /\ (~ (i < n + 1) => i = n + 1)
      /\ ~ (walked >= n + 1)
  BY <1>0
<1>8. \A i \in 1 .. n + 1 :
        active_regions'[i] = IF i < n + 1 THEN active_regions[i]
                             ELSE IF i = n + 1 THEN NewRegion ELSE active_regions[i - 1]
  BY <1>6, <1>7
<1> QED
  BY <1>1, <1>2, <1>6, <1>7, <1>8, LinkStep

LEMMA ProtNoneLinkStep ==
  ASSUME ImporterInv, ProtNoneLink
  PROVE  ImporterInv'
<1> DEFINE n == Len(active_regions)
<1>0. TypeOK /\ PhaseInv /\ n \in Nat /\ walked \in 0 .. n
  BY RegionFacts DEF ImporterInv, TypeOK
<1>1. /\ CanLink({"none"}) /\ Link /\ pc' = "fill_none"
      /\ active_regions' = InsertAt(active_regions, 2, NewRegion)
      /\ active_regionsTail' = IF active_regionsTail = 1 THEN 1 ELSE active_regionsTail + 1
      /\ walked' = IF walked >= 2 THEN walked + 1 ELSE walked
  BY DEF ProtNoneLink
<1>2. CanLink({"none", "ro", "rw"}) /\ Line = "none" /\ pc = "scan"
  BY <1>1 DEF CanLink, Importing
<1>3. n >= 2 /\ active_regionsTail = n
  BY <1>0, <1>2 DEF PhaseInv
<1>4. NewRegion \in Region
  BY DEF NewRegion, Region, NoOffset
<1>5. active_regions \in Seq(Region)
  BY <1>0 DEF TypeOK
<1> DEFINE head == SubSeq(active_regions, 1, 1)
<1> DEFINE tail == SubSeq(active_regions, 2, n)
<1>6. /\ head \in Seq(Region) /\ Len(head) = 1 /\ head[1] = active_regions[1]
      /\ tail \in Seq(Region) /\ Len(tail) = n - 1
      /\ \A i \in 1 .. n - 1 : tail[i] = active_regions[i + 1]
  BY <1>0, <1>3, <1>5
<1>7. active_regions' = head \o <<NewRegion>> \o tail
  BY <1>1 DEF InsertAt
<1> HIDE DEF head, tail
<1> DEFINE front == head \o <<NewRegion>>
<1>8. front \in Seq(Region) /\ Len(front) = 2 /\ front[1] = active_regions[1] /\ front[2] = NewRegion
  <2>1. <<NewRegion>> \in Seq(Region) /\ Len(<<NewRegion>>) = 1 /\ <<NewRegion>>[1] = NewRegion
    BY <1>4
  <2>2. /\ front \in Seq(Region) /\ Len(front) = Len(head) + Len(<<NewRegion>>)
        /\ \A i \in 1 .. Len(head) + Len(<<NewRegion>>) :
             front[i] = IF i <= Len(head) THEN head[i] ELSE <<NewRegion>>[i - Len(head)]
    BY <1>6, <2>1, ConcatProperties
  <2> HIDE DEF front
  <2> QED
    BY <1>6, <2>1, <2>2
<1>9. active_regions' = front \o tail
  BY <1>7
<1> HIDE DEF front
<1>10. /\ active_regions' \in Seq(Region) /\ Len(active_regions') = Len(front) + Len(tail)
      /\ \A i \in 1 .. Len(front) + Len(tail) :
           active_regions'[i] = IF i <= Len(front) THEN front[i] ELSE tail[i - Len(front)]
  <2>1. front \in Seq(Region) /\ tail \in Seq(Region)
    BY <1>6, <1>8
  <2>2. /\ front \o tail \in Seq(Region) /\ Len(front \o tail) = Len(front) + Len(tail)
        /\ \A i \in 1 .. Len(front) + Len(tail) :
             (front \o tail)[i] = IF i <= Len(front) THEN front[i] ELSE tail[i - Len(front)]
    BY <2>1, ConcatProperties
  <2> QED
    BY <1>9, <2>2
<1>11. Len(front) = 2 /\ Len(tail) = n - 1
  BY <1>6, <1>8
<1>12. /\ active_regions' \in Seq(Region) /\ Len(active_regions') = n + 1
       /\ active_regions'[1] = active_regions[1] /\ active_regions'[2] = NewRegion
  BY <1>0, <1>3, <1>8, <1>10, <1>11
<1>13. \A i \in 3 .. n + 1 : active_regions'[i] = active_regions[i - 1]
  <2> TAKE i \in 3 .. n + 1
  <2>1. i - 2 \in 1 .. n - 1 /\ (i - 2) + 1 = i - 1 /\ i \in 1 .. n + 1 /\ ~ (i <= 2)
    BY <1>0
  <2>2. active_regions'[i] = tail[i - 2]
    BY <1>0, <1>3, <1>10, <1>11, <2>1
  <2> QED
    BY <1>6, <2>1, <2>2
<1>14. \A i \in 1 .. n + 1 :
         active_regions'[i] = IF i < 2 THEN active_regions[i]
                              ELSE IF i = 2 THEN NewRegion ELSE active_regions[i - 1]
  <2>1. \A i \in 1 .. n + 1 : (i < 2 => i = 1) /\ (~ (i < 2) /\ i # 2 => i \in 3 .. n + 1)
    BY <1>0
  <2> QED
    BY <1>12, <1>13, <2>1
<1>15. 2 \in 1 .. n + 1 /\ active_regionsTail' = Len(active_regions')
  BY <1>0, <1>1, <1>3, <1>12
<1> QED
  BY <1>1, <1>2, <1>12, <1>14, <1>15, LinkStep

\* The region that was linked gets its fields; the scan goes on behind it, or main
\* returns.
LEMMA FillStep ==
  ASSUME ImporterInv, Filling,
         NEW k \in 1 .. Len(active_regions), NEW offset \in Int,
         k = IF pc = "fill" THEN Len(active_regions) ELSE 2,
         active_regions' = [active_regions EXCEPT ![k] = [range |-> line, prot |-> Line, offset |-> offset]],
         \/ offset = NoOffset /\ tmpfile_size' = tmpfile_size
         \/ offset = tmpfile_size /\ tmpfile_size' = tmpfile_size + 1,
         maps' \in [Ranges -> Kinds \cup {"backing"}],
         \A r \in Ranges : r # line => maps'[r] = maps[r],
         maps'[line] = maps[line] \/ (maps'[line] = "backing" /\ Line # "none"),
         UNCHANGED <<before, rw_p_only, active_regionsTail, free_structs, joiner, walked, joinerMaps, passedBy,
                     proc_count, newMaps, reserved>>,
         file_size' \in Nat, rootHeld' \in BOOLEAN, late' \in SUBSET Ranges,
         \/ /\ pc' = "returned" /\ UNCHANGED <<line, importCount, maps, late>>
         \/ /\ pc' = "scan" /\ line' = line + 1 /\ importCount' = importCount + 1
            /\ maps'[line] \in {"backing", "none"} /\ file_size' = tmpfile_size'
  PROVE  ImporterInv'
<1> DEFINE n == Len(active_regions)
<1> DEFINE new == [range |-> line, prot |-> Line, offset |-> offset]
<1>0. TypeOK /\ PhaseInv /\ StructInv /\ ScanInv /\ WalkInv /\ n \in Nat /\ tmpfile_size \in Nat
  BY RegionFacts DEF ImporterInv, TypeOK
<1>1. /\ line \in Ranges /\ ~ Skipped /\ Line \in {"none", "ro", "rw"} /\ joiner # "member"
      /\ joiner \in {"walking", "walked"} => line \in passedBy
      /\ n >= 2 /\ active_regions # << >>
  BY <1>0 DEF PhaseInv, Filling
<1>2. new \in Region
  BY <1>1 DEF Region
<1>3. /\ active_regions' \in Seq(Region) /\ Len(active_regions') = n
      /\ active_regions'[k] = new
      /\ \A i \in 1 .. n : i # k => active_regions'[i] = active_regions[i]
  BY <1>0, <1>2 DEF TypeOK
<1>4. new.range = line /\ new.offset = offset /\ new.prot # "unset"
  BY <1>1
<1> HIDE DEF new
<1>5. /\ \A i \in 1 .. n : IsSet(i) <=> i # k
      /\ \A i \in 1 .. n : IsSet(i)'
  <2>1. \A i \in 1 .. n : IsSet(i) <=> i # k
    BY <1>0 DEF StructInv, Filling
  <2>2. \A i \in 1 .. n : active_regions'[i].prot # "unset"
    BY <1>3, <1>4, <2>1 DEF IsSet
  <2> QED
    BY <2>1, <2>2 DEF IsSet
<1>6. /\ line \in Nat /\ line + 1 \in 1 .. Len(Layout) + 1 /\ importCount \in Nat
      /\ importCount < line /\ importCount + 1 \in 0 .. Len(Layout) /\ importCount + 1 # 0
      /\ \A r \in Ranges : r \in Nat /\ (r < line + 1 => r < line \/ r = line) /\ (r <= line => r < line + 1)
      /\ line < line + 1
  BY <1>0, <1>1, LayoutFacts DEF TypeOK, PhaseInv
<1>7. \A i \in 1 .. n : i # k =>
        /\ active_regions[i].range \in Ranges \ reserved
        /\ active_regions[i].offset \in -1 .. tmpfile_size - 1
        /\ maps[active_regions[i].range] \in {"backing", "none"}
        /\ rw_p_only \/ active_regions[i].range < line \/ before[active_regions[i].range] = "absent"
  BY <1>0, <1>5 DEF StructInv, ScanInv, Filling
<1>8. \A i \in 1 .. n : i # k => active_regions[i].range # line
  <2> SUFFICES ASSUME NEW i \in 1 .. n, i # k, active_regions[i].range = line PROVE FALSE
    OBVIOUS
  <2>1. CASE rw_p_only
    <3>1. maps[line] = "rw"
      BY <1>1, <2>1 DEF Skipped, Line
    <3> QED
      BY <1>7, <3>1
  <2>2. CASE ~ rw_p_only
    <3>1. before[line] \in {"none", "ro", "rw"}
      BY <1>1, <2>2 DEF Line
    <3>2. ~ (line < line)
      BY <1>6
    <3> QED
      BY <1>7, <2>2, <3>1, <3>2
  <2> QED
    BY <2>1, <2>2
<1>9. line \notin reserved
  <2>1. CASE rw_p_only
    BY <1>0, <1>1, <2>1 DEF Skipped, Line, ScanInv
  <2>2. CASE ~ rw_p_only
    BY <1>0, <1>1, <2>2 DEF Line, ScanInv
  <2> QED
    BY <2>1, <2>2
<1>10. TypeOK'
  <2>1. line' \in 1 .. Len(Layout) + 1 /\ importCount' \in 0 .. Len(Layout)
    BY <1>0, <1>6 DEF TypeOK
  <2>2. tmpfile_size' \in Nat
    BY <1>0
  <2>3. active_regionsTail' \in 0 .. Len(active_regions') /\ walked' \in 0 .. Len(active_regions')
    BY <1>0, <1>3 DEF TypeOK
  <2> QED
    BY <1>0, <1>3, <2>1, <2>2, <2>3 DEF TypeOK
<1>11. PhaseInv'
  <2>0. importCount + 1 < line + 1
    BY <1>6
  <2>1. importCount' < line'
    BY <1>6, <2>0
  <2>3. Len(active_regions') >= 2 /\ active_regions' # << >>
    <3>1. Len(active_regions') >= 2
      BY <1>1, <1>3
    <3>2. \A list \in Seq(Region) : Len(list) >= 2 => list # << >>
      OBVIOUS
    <3> QED
      BY <1>3, <3>1, <3>2
  <2>2. pc' \in {"scan", "returned"}
    OBVIOUS
  <2> QED
    BY <1>0, <1>1, <1>3, <2>1, <2>2, <2>3 DEF PhaseInv, Filling
<1>12. StructInv'
  <2>1. /\ offset \in -1 .. tmpfile_size' - 1
        /\ -1 .. tmpfile_size - 1 \subseteq -1 .. tmpfile_size' - 1
        /\ offset # NoOffset => offset \notin -1 .. tmpfile_size - 1
    BY <1>0 DEF NoOffset
  <2>2. \A i \in 1 .. n : /\ active_regions'[i].range \in Ranges \ reserved
                          /\ active_regions'[i].offset \in -1 .. tmpfile_size' - 1
    <3> TAKE i \in 1 .. n
    <3>1. CASE i = k
      <4>1. active_regions'[i].range = line /\ active_regions'[i].offset = offset
        BY <1>3, <1>4, <3>1
      <4>2. line \in Ranges \ reserved
        BY <1>1, <1>9
      <4> QED
        BY <2>1, <4>1, <4>2
    <3>2. CASE i # k
      BY <1>3, <1>7, <2>1, <3>2
    <3> QED
      BY <3>1, <3>2
  <2>3. \A i, j \in 1 .. n : i # j =>
          /\ active_regions'[i].range # active_regions'[j].range
          /\ active_regions'[i].offset # NoOffset => active_regions'[i].offset # active_regions'[j].offset
    <3> SUFFICES ASSUME NEW i \in 1 .. n, NEW j \in 1 .. n, i # j
                 PROVE  /\ active_regions'[i].range # active_regions'[j].range
                        /\ active_regions'[i].offset # NoOffset =>
                             active_regions'[i].offset # active_regions'[j].offset
      OBVIOUS
    <3>1. CASE i = k
      <4>1. /\ active_regions'[i].range = line /\ active_regions'[i].offset = offset
            /\ active_regions'[j] = active_regions[j] /\ j # k
        BY <1>3, <1>4, <3>1
      <4> QED
        BY <1>7, <1>8, <2>1, <4>1
    <3>2. CASE j = k
      <4>1. /\ active_regions'[j].range = line /\ active_regions'[j].offset = offset
            /\ active_regions'[i] = active_regions[i] /\ i # k
        BY <1>3, <1>4, <3>2
      <4> QED
        BY <1>7, <1>8, <2>1, <4>1
    <3>3. CASE i # k /\ j # k
      <4>1. IsSet(i) /\ IsSet(j)
        BY <1>5, <3>3
      <4>2. active_regions'[i] = active_regions[i] /\ active_regions'[j] = active_regions[j]
        BY <1>3, <3>3
      <4> QED
        BY <1>0, <4>1, <4>2 DEF StructInv
    <3> QED
      BY <3>1, <3>2, <3>3
  <2>4. pc' # "returned" => file_size' = tmpfile_size'
    OBVIOUS
  <2>5. pc' \notin {"fill", "fill_none"}
    OBVIOUS
  <2>6. NoOffset' = NoOffset /\ reserved' = reserved
    BY DEF NoOffset
  <2> HIDE DEF n
  <2> QED
    BY <1>3, <1>5, <2>2, <2>3, <2>4, <2>5, <2>6 DEF StructInv
<1>13. ScanInv'
  <2>1. \A r \in Ranges : maps'[r] = "absent" => before[r] = "absent"
    BY <1>0 DEF ScanInv
  <2>0. \A r \in Ranges : before[r] = "none" => maps'[r] = "none"
    <3>1. CASE rw_p_only
      <4>1. maps[line] = "rw"
        BY <1>1, <3>1 DEF Skipped, Line
      <4> QED
        BY <1>0, <1>1, <4>1 DEF ScanInv
    <3>2. CASE ~ rw_p_only
      BY <1>0, <3>2 DEF ScanInv, Line
    <3> QED
      BY <3>1, <3>2
  <2>2. \A r \in reserved : maps'[r] = "none" /\ before[r] = "absent"
    <3>1. reserved \subseteq Ranges
      BY <1>0 DEF TypeOK
    <3> QED
      BY <1>0, <1>9, <3>1 DEF ScanInv
  <2>3. pc' # "returned" => \A i \in 1 .. n :
          /\ maps'[active_regions'[i].range] \in {"backing", "none"}
          /\ \/ rw_p_only \/ active_regions'[i].range < line'
             \/ before[active_regions'[i].range] = "absent"
    <3> SUFFICES ASSUME pc' # "returned", NEW i \in 1 .. n
                 PROVE  /\ maps'[active_regions'[i].range] \in {"backing", "none"}
                        /\ \/ rw_p_only \/ active_regions'[i].range < line'
                           \/ before[active_regions'[i].range] = "absent"
      OBVIOUS
    <3>1. CASE i = k
      BY <1>3, <1>4, <1>6, <3>1
    <3>2. CASE i # k
      <4>1. /\ active_regions'[i] = active_regions[i] /\ active_regions[i].range # line
            /\ active_regions[i].range \in Ranges /\ line' = line + 1
        BY <1>3, <1>7, <1>8, <3>2
      <4>2. active_regions[i].range < line => active_regions[i].range < line'
        BY <1>6, <4>1
      <4> QED
        BY <1>7, <3>2, <4>1, <4>2
    <3> QED
      BY <3>1, <3>2
  <2>4. \A r \in Ranges : (rw_p_only \/ r < line') /\ before[r] \in {"none", "ro", "rw"} =>
          \E i \in 1 .. n : active_regions'[i].range = r
    <3> SUFFICES ASSUME NEW r \in Ranges, rw_p_only \/ r < line', before[r] \in {"none", "ro", "rw"}
                 PROVE  \E i \in 1 .. n : active_regions'[i].range = r
      OBVIOUS
    <3>1. CASE r = line
      BY <1>3, <1>4, <3>1
    <3>2. CASE r # line
      <4>1. rw_p_only \/ r < line
        BY <1>6, <3>2
      <4>2. PICK i \in 1 .. n : active_regions[i].range = r
        BY <1>0, <4>1 DEF ScanInv
      <4>3. CASE i = k
        <5>1. active_regions[k].range = 0 /\ r \in Ranges
          BY <1>0, <1>5 DEF StructInv
        <5>2. \A x \in Ranges : x # 0
          BY LayoutFacts
        <5> QED
          BY <4>2, <4>3, <5>1, <5>2
      <4>4. CASE i # k
        BY <1>3, <4>2, <4>4
      <4> QED
        BY <4>3, <4>4
    <3> QED
      BY <3>1, <3>2
  <2>5. rw_p_only /\ importCount' = 0 => \A r \in Ranges : r < line' /\ maps'[r] = "rw" => r \in late'
    BY <1>0, <1>6 DEF ScanInv
  <2>6. pc' # "app"
    OBVIOUS
  <2> HIDE DEF n
  <2> QED
    BY <1>3, <2>0, <2>1, <2>2, <2>3, <2>4, <2>5, <2>6 DEF ScanInv
<1>14. WalkInv'
  <2> SUFFICES ASSUME joiner \in {"walking", "walked"}, NEW i \in 1 .. n, joiner = "walking" => i <= walked
               PROVE  active_regions'[i].range \in joinerMaps \cup passedBy
    BY <1>1, <1>3 DEF WalkInv
  <2>1. CASE i = k
    BY <1>1, <1>3, <1>4, <2>1
  <2>2. CASE i # k
    BY <1>0, <1>3, <1>5, <2>2 DEF WalkInv
  <2> QED
    BY <2>1, <2>2
<1> QED
  BY <1>10, <1>11, <1>12, <1>13, <1>14 DEF ImporterInv

LEMMA ImportFillStep ==
  ASSUME ImporterInv, ImportFill \/ ImportNoFile \/ ImportNoMap
  PROVE  ImporterInv'
<1> DEFINE n == Len(active_regions)
<1>0. /\ TypeOK /\ PhaseInv /\ StructInv /\ ScanInv /\ n \in Nat /\ tmpfile_size \in Nat
  BY RegionFacts DEF ImporterInv, TypeOK
<1>1. /\ pc = "fill"
      /\ active_regions' = [active_regions EXCEPT ![active_regionsTail] =
                              [range |-> line, prot |-> Line, offset |-> tmpfile_size]]
      /\ tmpfile_size' = tmpfile_size + 1
      /\ UNCHANGED <<before, rw_p_only, active_regionsTail, free_structs, joiner, walked, joinerMaps, passedBy,
                     proc_count, newMaps, reserved>>
  BY DEF ImportFill, ImportNoFile, ImportNoMap, Filled, Imported, scan, group
<1>2. n \in 1 .. n /\ active_regionsTail = n /\ line \in Ranges /\ Filling
  BY <1>0, <1>1 DEF PhaseInv, Filling
<1>3. file_size' \in Nat /\ file_size' \in {file_size, tmpfile_size'} /\ tmpfile_size \in Int
      /\ (file_size' = tmpfile_size' \/ ImportNoFile)
  BY <1>0, <1>1 DEF ImportFill, ImportNoFile, ImportNoMap, TypeOK
<1>4. rootHeld' \in BOOLEAN
  BY <1>0 DEF ImportFill, ImportNoFile, ImportNoMap, Imported, TypeOK
<1>5. CASE ImportFill
  <2>1. /\ maps' = [maps EXCEPT ![line] = "backing"] /\ pc' = "scan" /\ line' = line + 1
        /\ importCount' = importCount + 1 /\ late' = {} /\ file_size' = tmpfile_size + 1
    BY <1>5 DEF ImportFill, Imported
  <2>2. /\ maps' \in [Ranges -> Kinds \cup {"backing"}] /\ maps'[line] = "backing"
        /\ \A r \in Ranges : r # line => maps'[r] = maps[r]
    BY <1>0, <1>2, <2>1 DEF TypeOK
  <2>3. file_size' = tmpfile_size' /\ late' \in SUBSET Ranges
    BY <1>1, <2>1
  <2>4. Line # "none"
    BY <1>0, <1>1 DEF PhaseInv
  <2> QED
    BY <1>1, <1>2, <1>3, <1>4, <2>1, <2>2, <2>3, <2>4, FillStep
<1>6. CASE ImportNoFile \/ ImportNoMap
  <2>1. pc' = "returned" /\ UNCHANGED <<line, importCount, maps, late>>
    BY <1>6 DEF ImportNoFile, ImportNoMap, scan
  <2>2. late' \in SUBSET Ranges /\ maps' \in [Ranges -> Kinds \cup {"backing"}]
    BY <1>0, <2>1 DEF TypeOK
  <2> QED
    BY <1>1, <1>2, <1>3, <1>4, <2>1, <2>2, FillStep
<1> QED
  BY <1>5, <1>6

LEMMA ProtNoneFillStep ==
  ASSUME ImporterInv, ProtNoneFill \/ ProtNoneNoMap
  PROVE  ImporterInv'
<1> DEFINE n == Len(active_regions)
<1>0. /\ TypeOK /\ PhaseInv /\ StructInv /\ ScanInv /\ n \in Nat /\ NoOffset \in Int
  BY RegionFacts DEF ImporterInv, TypeOK, NoOffset
<1>1. /\ pc = "fill_none"
      /\ active_regions' = [active_regions EXCEPT ![2] = [range |-> line, prot |-> "none", offset |-> NoOffset]]
      /\ UNCHANGED <<maps, before, rw_p_only, active_regionsTail, free_structs, joiner, walked, joinerMaps, passedBy,
                     proc_count, newMaps, reserved, tmpfile_size, file_size>>
  BY DEF ProtNoneFill, ProtNoneNoMap, Filled, Imported, scan, group, file
<1>2. 2 \in 1 .. n /\ line \in Ranges /\ Line = "none" /\ ~ Skipped /\ Filling
  BY <1>0, <1>1 DEF PhaseInv, Filling
<1>3. rootHeld' \in BOOLEAN /\ late' \in SUBSET Ranges /\ maps' \in [Ranges -> Kinds \cup {"backing"}]
      /\ file_size' \in Nat
  BY <1>0, <1>1 DEF ProtNoneFill, ProtNoneNoMap, Imported, TypeOK
<1>4. file_size' = tmpfile_size'
  BY <1>0, <1>1 DEF StructInv
<1>5. maps[line] = "none"
  <2>1. ~ rw_p_only /\ before[line] = "none"
    BY <1>2 DEF Skipped, Line
  <2> QED
    BY <1>0, <1>2, <2>1 DEF ScanInv
<1>6. CASE ProtNoneFill
  <2>1. pc' = "scan" /\ line' = line + 1 /\ importCount' = importCount + 1
    BY <1>6 DEF ProtNoneFill, Imported
  <2> QED
    BY <1>0, <1>1, <1>2, <1>3, <1>4, <1>5, <2>1, FillStep
<1>7. CASE ProtNoneNoMap
  <2>1. pc' = "returned" /\ UNCHANGED <<line, importCount, maps, late>>
    BY <1>7 DEF ProtNoneNoMap, scan
  <2> QED
    BY <1>0, <1>1, <1>2, <1>3, <2>1, FillStep
<1> QED
  BY <1>6, <1>7

-----------------------------------------------------------------------------

LEMMA ImporterInit ==
  ASSUME Init
  PROVE  ImporterInv
<1>1. active_regions = << >> /\ Len(active_regions) = 0 /\ 1 .. Len(active_regions) = {}
  BY DEF Init
<1>2. Layout \in [Ranges -> Kinds \cup {"backing"}]
  BY ImporterAssumption DEF Ranges
<1>3. TypeOK
  <2>1. /\ 1 \in 1 .. Len(Layout) + 1 /\ 0 \in 0 .. Len(Layout) /\ 0 \in 0 .. Len(active_regions)
        /\ RegionStructs \in 1 .. RegionStructs /\ 0 \in 0 .. MaxNewMaps /\ 0 \in 0 .. 2 /\ 0 \in Nat
    BY <1>1, LayoutFacts, ImporterAssumption
  <2>2. active_regions \in Seq(Region)
    BY <1>1
  <2> QED
    BY <1>2, <2>1, <2>2 DEF TypeOK, Init
<1>4. PhaseInv
  BY <1>1 DEF PhaseInv, Filling, Init
<1>5. StructInv
  BY <1>1 DEF StructInv, Init
<1>6. ScanInv
  <2>1. \A r \in Ranges : ~ (r < 1)
    BY LayoutFacts
  <2> QED
    BY <1>1, <2>1 DEF ScanInv, Init
<1>7. WalkInv
  BY DEF WalkInv, Init
<1> QED
  BY <1>3, <1>4, <1>5, <1>6, <1>7 DEF ImporterInv

LEMMA ImporterNext ==
  ASSUME ImporterInv, [Next]_vars
  PROVE  ImporterInv'
<1>1. CASE UNCHANGED vars
  <2>1. /\ UNCHANGED <<pc, maps, before, rw_p_only, line, importCount, active_regions, active_regionsTail,
                       free_structs, tmpfile_size, file_size, rootHeld, newMaps, reserved, late, joiner, walked,
                       joinerMaps, passedBy, proc_count>>
        /\ UNCHANGED <<Line, Skipped, Filling>>
    BY <1>1 DEF vars, scan, regions, file, group, Line, Skipped, Filling
  <2>2. TypeOK' /\ PhaseInv'
    BY <2>1 DEF ImporterInv, TypeOK, PhaseInv
  <2>3. StructInv' /\ ScanInv' /\ WalkInv'
    BY <2>1 DEF ImporterInv, StructInv, ScanInv, WalkInv, IsSet
  <2> QED
    BY <2>2, <2>3 DEF ImporterInv
<1>2. CASE Next
  BY <1>2, JoinerStep, MainStep, SkipStep, PassEndsStep, NewMapStep, ScInitStep, ImportLinkStep,
     ProtNoneLinkStep, ImportFillStep, ProtNoneFillStep DEF Next, Run
<1> QED
  BY <1>1, <1>2

-----------------------------------------------------------------------------

\* The control struct, the list, the scan and the counters always have their types:
\* the last struct is never handed out, and no region is ever counted twice in a pass.
THEOREM TypeCorrect == Spec => []TypeOK
<1>1. ImporterInv => TypeOK
  BY DEF ImporterInv
<1> QED
  BY <1>1, ImporterInit, ImporterNext, PTL DEF Spec

\* No pass of subcontexts_init imports a range twice, a range that sc_init reserved,
\* or two ranges to one place of the file, whatever glibc maps meanwhile.
THEOREM ImportsApartHolds == Spec => []ImportsApart
<1>1. ASSUME ImporterInv PROVE ImportsApart
  <2>0. TypeOK /\ StructInv /\ DOMAIN active_regions = 1 .. Len(active_regions) /\ tmpfile_size \in Nat
    BY <1>1 DEF ImporterInv, TypeOK
  <2> DEFINE A == {i \in DOMAIN active_regions : active_regions[i].prot # "unset"}
  <2>1. \A i \in A : active_regions[i].range \notin reserved
    BY <2>0 DEF StructInv, IsSet
  <2>2. \A i, j \in A : i # j =>
          /\ active_regions[i].range # active_regions[j].range
          /\ active_regions[i].offset # NoOffset => active_regions[i].offset # active_regions[j].offset
    BY <2>0 DEF StructInv, IsSet
  <2>3. pc # "returned" => \A i \in A : active_regions[i].offset < file_size
    <3>1. \A x \in -1 .. tmpfile_size - 1 : x < tmpfile_size
      BY <2>0
    <3> QED
      BY <2>0, <3>1 DEF StructInv, IsSet
  <2> QED
    BY <2>1, <2>2, <2>3 DEF ImportsApart
<1> QED
  BY <1>1, ImporterInit, ImporterNext, PTL DEF Spec

\* When the passes are over, subcontexts_init has imported all that it has to.
THEOREM AllImportedHolds == Spec => []AllImported
<1>1. ASSUME ImporterInv, pc = "app"
      PROVE  /\ \A r \in Ranges : maps[r] = "rw" => r \in late
             /\ \A r \in Ranges : before[r] \in {"none", "ro", "rw"} => r \in ActiveRanges
  <2>0. TypeOK /\ ScanInv /\ DOMAIN active_regions = 1 .. Len(active_regions)
    BY <1>1 DEF ImporterInv, TypeOK
  <2>1. rw_p_only /\ importCount = 0 /\ line \notin Ranges
    BY <1>1, <2>0 DEF ScanInv
  <2>2. \A r \in Ranges : r < line
    BY <2>0, <2>1, LayoutFacts DEF TypeOK
  <2> QED
    BY <2>0, <2>1, <2>2 DEF ScanInv, ActiveRanges
<1>2. ImporterInv => AllImported
  BY <1>1 DEF AllImported
<1> QED
  BY <1>2, ImporterInit, ImporterNext, PTL DEF Spec

\* A process that joins during the import misses only what is linked during its walk.
THEOREM JoinerHasAllHolds == Spec => []JoinerHasAll
<1>1. ASSUME ImporterInv, joiner = "member", pc \in {"scan", "app"}
      PROVE  ActiveRanges \subseteq joinerMaps \cup passedBy
  <2>0. StructInv /\ WalkInv /\ DOMAIN active_regions = 1 .. Len(active_regions)
    BY <1>1 DEF ImporterInv, TypeOK
  <2>1. \A i \in 1 .. Len(active_regions) : IsSet(i)
    BY <1>1, <2>0 DEF StructInv
  <2> QED
    BY <1>1, <2>0, <2>1 DEF WalkInv, ActiveRanges
<1>2. ImporterInv => JoinerHasAll
  BY <1>1 DEF JoinerHasAll
<1> QED
  BY <1>2, ImporterInit, ImporterNext, PTL DEF Spec
=============================================================================
