--------------------------- MODULE ScMemoryProofs ---------------------------
(***************************************************************************)
(* Proofs about module ScMemory, for every page size, all requests and any *)
(* number of regions: regions do not overlap, and within the pages that    *)
(* sc_malloc has got every byte is in exactly one buffer or list node.     *)
(***************************************************************************)
EXTENDS ScMemory, SequenceTheorems, WellFoundedInduction, TLAPS

-----------------------------------------------------------------------------
(* Arithmetic                                                              *)

\* Rounding up to a multiple of eight, as sc_malloc does with alloc_size.
LEMMA RoundUpEight ==
  ASSUME NEW n \in Nat
  PROVE  /\ RoundUp(n, 8) \in Nat /\ RoundUp(n, 8) % 8 = 0
         /\ n <= RoundUp(n, 8) /\ RoundUp(n, 8) < n + 8
BY DEF RoundUp

LEMMA DivMod ==
  ASSUME NEW n \in Nat, NEW p \in Nat \ {0}
  PROVE  /\ n \div p \in Nat
         /\ (n \div p) * p <= n /\ n < (n \div p) * p + p
OBVIOUS

LEMMA DivTimes ==
  ASSUME NEW q \in Nat, NEW p \in Nat \ {0}
  PROVE  (q * p) \div p = q
OBVIOUS

\* Rounding up to whole pages, as sc_malloc does with what it asks of sc_mmap.
LEMMA RoundUpPages ==
  ASSUME NEW n \in Nat
  PROVE  \E q \in Nat : /\ RoundUp(n, PageSize) = q * PageSize
                        /\ RoundUp(n, PageSize) \div PageSize = q
                        /\ n <= q * PageSize
<1>1. PageSize \in Nat \ {0} /\ n + PageSize - 1 \in Nat
  BY MemoryAssumption
<1> DEFINE q == (n + PageSize - 1) \div PageSize
<1>2. /\ q \in Nat
      /\ q * PageSize <= n + PageSize - 1 /\ n + PageSize - 1 < q * PageSize + PageSize
  BY <1>1, DivMod
<1>3. RoundUp(n, PageSize) = q * PageSize
  BY DEF RoundUp
<1>4. n <= q * PageSize
  <2> HIDE DEF q
  <2>1. q * PageSize \in Nat
    BY <1>1, <1>2
  <2> QED
    BY <1>1, <1>2, <2>1
<1>5. (q * PageSize) \div PageSize = q
  BY <1>1, <1>2, DivTimes
<1> QED
  BY <1>2, <1>3, <1>4, <1>5

\* Whole pages are multiples of eight bytes.
LEMMA PagesByEight ==
  ASSUME NEW q \in Nat
  PROVE  q * PageSize \in Nat /\ (q * PageSize) % 8 = 0
<1>1. PICK k \in Nat : PageSize = 8 * k
  <2>1. PageSize \div 8 \in Nat /\ PageSize = 8 * (PageSize \div 8)
    BY MemoryAssumption
  <2> QED
    BY <2>1
<1>2. q * PageSize = 8 * (q * k) /\ q * k \in Nat
  BY <1>1
<1> QED
  BY <1>2

LEMMA EightSum ==
  ASSUME NEW a \in Nat, NEW b \in Nat, a % 8 = 0, b % 8 = 0
  PROVE  (a + b) % 8 = 0 /\ (b <= a => a - b \in Nat /\ (a - b) % 8 = 0)
OBVIOUS

\* A range can be cut in two, and both parts are apart from what it was apart from.
LEMMA ApartParts ==
  ASSUME NEW a \in Nat, NEW l \in Nat, NEW s \in Nat, NEW m \in Nat, NEW k \in Nat, k <= m
  PROVE  /\ Apart(s, k, s + k, m - k)
         /\ Apart(a, l, s, m) \/ Apart(s, m, a, l) =>
              /\ Apart(a, l, s, k) /\ Apart(s, k, a, l)
              /\ Apart(a, l, s + k, m - k) /\ Apart(s + k, m - k, a, l)
BY DEF Apart

\* A set of numbers has a smallest one.
LEMMA LeastNumber ==
  ASSUME NEW T \in SUBSET Nat, T # {}
  PROVE  \E m \in T : \A k \in T : m <= k
<1> DEFINE R == {pair \in Nat \X Nat : pair[1] < pair[2]}
<1>1. IsWellFoundedOn(R, Nat)
  BY NatLessThanWellFounded DEF OpToRel
<1>2. PICK m \in T : \A k \in T : ~ (<<k, m>> \in R)
  <2> HIDE DEF R
  <2> QED
    BY <1>1, WFMin
<1>3. ASSUME NEW k \in T PROVE m <= k
  <2>1. ~ (k < m)
    BY <1>2
  <2> QED
    BY <2>1
<1> QED
  BY <1>3

\* A set of numbers that has a bound has a largest one.
LEMMA MaxIsBound ==
  ASSUME NEW T \in SUBSET Nat, T # {}, NEW b \in Nat, \A x \in T : x <= b
  PROVE  Max(T) \in T /\ \A x \in T : x <= Max(T)
<1> DEFINE Bounds == {c \in Nat : \A x \in T : x <= c}
<1>1. PICK m \in Bounds : \A c \in Bounds : m <= c
  <2>1. b \in Bounds
    OBVIOUS
  <2> HIDE DEF Bounds
  <2>2. Bounds \in SUBSET Nat
    BY DEF Bounds
  <2> QED
    BY <2>1, <2>2, LeastNumber
<1>2. m \in T
  <2> SUFFICES ASSUME m \notin T PROVE FALSE
    OBVIOUS
  <2>1. m \in Nat /\ \A x \in T : x \in Nat /\ x <= m /\ x # m
    OBVIOUS
  <2>2. m - 1 \in Nat /\ \A x \in T : x <= m - 1
    <3>1. PICK y \in T : TRUE
      OBVIOUS
    <3>2. m # 0
      BY <2>1, <3>1
    <3> QED
      BY <2>1, <3>2
  <2>3. m - 1 \in Bounds
    BY <2>2
  <2>4. m <= m - 1
    BY <1>1, <2>3
  <2> QED
    BY <2>1, <2>4
<1>3. \E y \in T : \A x \in T : y >= x
  BY <1>2
<1>4. Max(T) \in T /\ \A x \in T : Max(T) >= x
  BY <1>3 DEF Max
<1> QED
  BY <1>4

-----------------------------------------------------------------------------
(* Regions                                                                 *)

RegionType ==
  /\ active_regions \in Seq(Region)
  /\ reserved_regions \in Seq(Reserved)
  /\ free_structs \in Nat \ {0}
  /\ tmpfile_size \in Nat
  /\ file_size \in Nat
  /\ rootHeld \in BOOLEAN

\* Regions begin and end at multiples of eight.
RegionsAligned ==
  /\ \A i \in DOMAIN active_regions :
       active_regions[i].vaddr % 8 = 0 /\ active_regions[i].len % 8 = 0
  /\ \A i \in DOMAIN reserved_regions :
       reserved_regions[i].vaddr % 8 = 0 /\ reserved_regions[i].len % 8 = 0

\* There is an end to the addresses in use, so that Reserve finds some behind it.
Bounded == \E b \in Nat : \A x \in AddressesUsed : x <= b

\* What ftruncate() has made of the file is never ahead of tmpfile_size, where the
\* next region will lie.
RegionInv ==
  /\ RegionType
  /\ reserved_regions # << >>
  /\ file_size <= tmpfile_size
  /\ RegionsAligned
  /\ Bounded
  /\ RegionsApart

LEMMA RegionFacts ==
  ASSUME RegionType
  PROVE  /\ Len(active_regions) \in Nat /\ DOMAIN active_regions = 1 .. Len(active_regions)
         /\ Len(reserved_regions) \in Nat /\ DOMAIN reserved_regions = 1 .. Len(reserved_regions)
         /\ \A i \in DOMAIN active_regions :
              /\ active_regions[i].vaddr \in Nat /\ active_regions[i].len \in Nat
              /\ active_regions[i].tmpfile_offset \in Nat
         /\ \A i \in DOMAIN reserved_regions :
              reserved_regions[i].vaddr \in Nat /\ reserved_regions[i].len \in Nat
<1>1. /\ Len(active_regions) \in Nat /\ DOMAIN active_regions = 1 .. Len(active_regions)
      /\ Len(reserved_regions) \in Nat /\ DOMAIN reserved_regions = 1 .. Len(reserved_regions)
      /\ \A i \in DOMAIN active_regions : active_regions[i] \in Region
      /\ \A i \in DOMAIN reserved_regions : reserved_regions[i] \in Reserved
  BY DEF RegionType
<1> QED
  BY <1>1 DEF Region, Reserved

\* What sc_mmap takes off the first reserved region.
LEMMA ConsumeEffect ==
  ASSUME RegionType, reserved_regions # << >>, NEW len \in Nat, len <= First.len, Consume(len)
  PROVE  /\ reserved_regions' \in Seq(Reserved)
         /\ Len(reserved_regions') = Len(reserved_regions)
         /\ 1 \in DOMAIN reserved_regions
         /\ reserved_regions'[1] = [vaddr |-> First.vaddr + len, len |-> First.len - len]
         /\ \A i \in DOMAIN reserved_regions : i # 1 => reserved_regions'[i] = reserved_regions[i]
<1>1. /\ reserved_regions \in Seq(Reserved) /\ Len(reserved_regions) \in Nat
      /\ DOMAIN reserved_regions = 1 .. Len(reserved_regions) /\ Len(reserved_regions) # 0
  BY EmptySeq DEF RegionType
<1>2. First.vaddr \in Nat /\ First.len \in Nat /\ 1 \in DOMAIN reserved_regions
  BY <1>1, RegionFacts DEF First
<1>3. [vaddr |-> First.vaddr + len, len |-> First.len - len] \in Reserved
  BY <1>2 DEF Reserved
<1> QED
  BY <1>1, <1>2, <1>3 DEF Consume, First

\* A new region lies at the front of the first reserved one and behind the end of
\* the file.
LEMMA MapRegionStep ==
  ASSUME RegionInv, NEW len \in Nat, len % 8 = 0, MapRegion(len)
  PROVE  RegionInv'
<1> DEFINE n == Len(active_regions)
           new == [vaddr |-> First.vaddr, len |-> len, tmpfile_offset |-> tmpfile_size]
<1>1. /\ RegionType /\ reserved_regions # << >> /\ file_size <= tmpfile_size
      /\ free_structs > 1 /\ First.len > len
      /\ tmpfile_size' = tmpfile_size + len /\ file_size' = tmpfile_size + len
      /\ free_structs' = free_structs - 1 /\ rootHeld' = rootHeld
      /\ active_regions' = Append(active_regions, new)
      /\ Consume(len)
  BY DEF RegionInv, MapRegion, Extend
<1>2. /\ n \in Nat /\ DOMAIN active_regions = 1 .. n
      /\ Len(reserved_regions) \in Nat /\ DOMAIN reserved_regions = 1 .. Len(reserved_regions)
      /\ \A i \in DOMAIN active_regions :
           /\ active_regions[i].vaddr \in Nat /\ active_regions[i].len \in Nat
           /\ active_regions[i].tmpfile_offset \in Nat
      /\ \A i \in DOMAIN reserved_regions :
           reserved_regions[i].vaddr \in Nat /\ reserved_regions[i].len \in Nat
      /\ tmpfile_size \in Nat /\ file_size \in Nat /\ free_structs \in Nat
  BY <1>1, RegionFacts DEF RegionType
<1>3. First.vaddr \in Nat /\ First.len \in Nat /\ 1 \in DOMAIN reserved_regions
  <2>1. Len(reserved_regions) # 0
    BY <1>1, EmptySeq DEF RegionType
  <2> QED
    BY <1>2, <2>1 DEF First
<1>4. /\ reserved_regions' \in Seq(Reserved)
      /\ Len(reserved_regions') = Len(reserved_regions)
      /\ reserved_regions'[1] = [vaddr |-> First.vaddr + len, len |-> First.len - len]
      /\ \A i \in DOMAIN reserved_regions : i # 1 => reserved_regions'[i] = reserved_regions[i]
  <2>1. len <= First.len
    BY <1>1, <1>3
  <2> QED
    BY <1>1, <2>1, ConsumeEffect
<1>5. DOMAIN reserved_regions' = DOMAIN reserved_regions
  BY <1>2, <1>4
<1>6. /\ active_regions' \in Seq(Region)
      /\ Len(active_regions') = n + 1
      /\ \A i \in 1 .. n : active_regions'[i] = active_regions[i]
      /\ active_regions'[n + 1] = new
  <2>1. new \in Region
    BY <1>2, <1>3 DEF Region
  <2> QED
    BY <1>1, <2>1, AppendProperties DEF RegionType
<1>7. DOMAIN active_regions' = 1 .. n + 1
  BY <1>2, <1>6
<1>8. RegionType'
  BY <1>1, <1>2, <1>4, <1>6 DEF RegionType
<1>9. reserved_regions' # << >>
  BY <1>1, <1>2, <1>3, <1>4, EmptySeq
<1>10. RegionsAligned'
  <2>1. RegionsAligned
    BY DEF RegionInv
  <2>2. First.vaddr % 8 = 0 /\ First.len % 8 = 0
    BY <1>3, <2>1 DEF RegionsAligned, First
  <2>3. (First.vaddr + len) % 8 = 0 /\ (First.len - len) % 8 = 0
    <3>1. len <= First.len
      BY <1>1, <1>3
    <3> QED
      BY <1>3, <2>2, <3>1, EightSum
  <2>4. \A i \in 1 .. n + 1 : active_regions'[i].vaddr % 8 = 0 /\ active_regions'[i].len % 8 = 0
    BY <1>2, <1>6, <2>1, <2>2 DEF RegionsAligned
  <2>5. \A i \in DOMAIN reserved_regions :
          reserved_regions'[i].vaddr % 8 = 0 /\ reserved_regions'[i].len % 8 = 0
    BY <1>4, <2>1, <2>3 DEF RegionsAligned
  <2> QED
    BY <1>5, <1>7, <2>4, <2>5 DEF RegionsAligned
<1>11. Bounded'
  <2>1. PICK b \in Nat : \A x \in AddressesUsed : x <= b
    BY DEF RegionInv, Bounded
  <2>2. \A i \in DOMAIN active_regions : active_regions[i].vaddr + active_regions[i].len <= b
    BY <2>1 DEF AddressesUsed
  <2>3. \A i \in DOMAIN reserved_regions : reserved_regions[i].vaddr + reserved_regions[i].len <= b
    BY <2>1 DEF AddressesUsed
  <2>4. First.vaddr + First.len <= b
    BY <1>3, <2>3 DEF First
  <2>5. \A i \in 1 .. n + 1 : active_regions'[i].vaddr + active_regions'[i].len <= b
    BY <1>1, <1>2, <1>3, <1>6, <2>2, <2>4
  <2>6. \A i \in DOMAIN reserved_regions :
          reserved_regions'[i].vaddr + reserved_regions'[i].len <= b
    <3>1. (First.vaddr + len) + (First.len - len) <= b
      BY <1>1, <1>3, <2>4
    <3> QED
      BY <1>4, <2>3, <3>1
  <2>7. \A x \in AddressesUsed' : x <= b
    BY <1>5, <1>7, <2>5, <2>6 DEF AddressesUsed
  <2> QED
    BY <2>7 DEF Bounded
<1>12. RegionsApart'
  <2>1. /\ \A i, j \in DOMAIN active_regions : i # j =>
             /\ Apart(active_regions[i].vaddr, active_regions[i].len,
                      active_regions[j].vaddr, active_regions[j].len)
             /\ Apart(active_regions[i].tmpfile_offset, active_regions[i].len,
                      active_regions[j].tmpfile_offset, active_regions[j].len)
        /\ \A i \in DOMAIN active_regions, j \in DOMAIN reserved_regions :
             Apart(active_regions[i].vaddr, active_regions[i].len,
                   reserved_regions[j].vaddr, reserved_regions[j].len)
        /\ \A i, j \in DOMAIN reserved_regions : i # j =>
             Apart(reserved_regions[i].vaddr, reserved_regions[i].len,
                   reserved_regions[j].vaddr, reserved_regions[j].len)
        /\ \A i \in DOMAIN active_regions :
             active_regions[i].tmpfile_offset + active_regions[i].len <= file_size
    BY DEF RegionInv, RegionsApart
  <2>a. /\ len <= First.len
        /\ \A i \in DOMAIN active_regions :
             Apart(active_regions[i].vaddr, active_regions[i].len, First.vaddr, First.len)
        /\ \A i \in DOMAIN reserved_regions : i # 1 =>
             Apart(reserved_regions[i].vaddr, reserved_regions[i].len, First.vaddr, First.len)
    BY <1>1, <1>3, <2>1 DEF First
  <2>b. \A i \in DOMAIN active_regions :
          /\ Apart(active_regions[i].vaddr, active_regions[i].len, First.vaddr, len)
          /\ Apart(First.vaddr, len, active_regions[i].vaddr, active_regions[i].len)
          /\ Apart(active_regions[i].vaddr, active_regions[i].len, First.vaddr + len, First.len - len)
          /\ Apart(active_regions[i].tmpfile_offset, active_regions[i].len, tmpfile_size, len)
          /\ Apart(tmpfile_size, len, active_regions[i].tmpfile_offset, active_regions[i].len)
    <3> SUFFICES ASSUME NEW i \in DOMAIN active_regions
                 PROVE  /\ Apart(active_regions[i].vaddr, active_regions[i].len, First.vaddr, len)
                        /\ Apart(First.vaddr, len, active_regions[i].vaddr, active_regions[i].len)
                        /\ Apart(active_regions[i].vaddr, active_regions[i].len,
                                 First.vaddr + len, First.len - len)
                        /\ Apart(active_regions[i].tmpfile_offset, active_regions[i].len,
                                 tmpfile_size, len)
                        /\ Apart(tmpfile_size, len,
                                 active_regions[i].tmpfile_offset, active_regions[i].len)
      OBVIOUS
    <3>1. active_regions[i].tmpfile_offset + active_regions[i].len <= tmpfile_size
      BY <1>1, <1>2, <2>1
    <3> QED
      BY <1>2, <1>3, <2>a, <3>1, ApartParts DEF Apart
  <2>c. \A i \in DOMAIN reserved_regions : i # 1 =>
          /\ Apart(reserved_regions[i].vaddr, reserved_regions[i].len, First.vaddr, len)
          /\ Apart(First.vaddr, len, reserved_regions[i].vaddr, reserved_regions[i].len)
          /\ Apart(reserved_regions[i].vaddr, reserved_regions[i].len, First.vaddr + len, First.len - len)
          /\ Apart(First.vaddr + len, First.len - len, reserved_regions[i].vaddr, reserved_regions[i].len)
    BY <1>2, <1>3, <2>a, ApartParts
  <2>d. Apart(First.vaddr, len, First.vaddr + len, First.len - len)
    BY <1>3, <2>a, ApartParts
  <2>e. \A i \in DOMAIN active_regions' :
          \/ i \in DOMAIN active_regions /\ active_regions'[i] = active_regions[i]
          \/ i = n + 1 /\ active_regions'[i] = new
    BY <1>2, <1>6, <1>7
  <2>2. ASSUME NEW i \in DOMAIN active_regions', NEW j \in DOMAIN active_regions', i # j
        PROVE  /\ Apart(active_regions'[i].vaddr, active_regions'[i].len,
                        active_regions'[j].vaddr, active_regions'[j].len)
               /\ Apart(active_regions'[i].tmpfile_offset, active_regions'[i].len,
                        active_regions'[j].tmpfile_offset, active_regions'[j].len)
    BY <2>1, <2>2, <2>b, <2>e
  <2>3. ASSUME NEW i \in DOMAIN active_regions', NEW j \in DOMAIN reserved_regions
        PROVE  Apart(active_regions'[i].vaddr, active_regions'[i].len,
                     reserved_regions'[j].vaddr, reserved_regions'[j].len)
    BY <1>4, <2>1, <2>3, <2>b, <2>c, <2>d, <2>e
  <2>4. ASSUME NEW i \in DOMAIN reserved_regions, NEW j \in DOMAIN reserved_regions, i # j
        PROVE  Apart(reserved_regions'[i].vaddr, reserved_regions'[i].len,
                     reserved_regions'[j].vaddr, reserved_regions'[j].len)
    BY <1>4, <2>1, <2>4, <2>c
  <2>5. ASSUME NEW i \in DOMAIN active_regions'
        PROVE  active_regions'[i].tmpfile_offset + active_regions'[i].len <= file_size'
    BY <1>1, <1>2, <1>6, <1>7, <2>1, <2>5
  <2> QED
    BY <1>5, <2>2, <2>3, <2>4, <2>5 DEF RegionsApart
<1> QED
  BY <1>1, <1>2, <1>8, <1>9, <1>10, <1>11, <1>12 DEF RegionInv

\* Nothing is mapped; the first reserved region may be used up, and the file may grow.
LEMMA NoRegionStep ==
  ASSUME RegionInv, NEW len \in Nat, len % 8 = 0,
         active_regions' = active_regions,
         \/ reserved_regions' = reserved_regions
         \/ Consume(len) /\ First.len = len,
         free_structs' \in Nat \ {0}, rootHeld' \in BOOLEAN,
         tmpfile_size' \in Nat, file_size' \in Nat,
         file_size <= file_size', file_size' <= tmpfile_size'
  PROVE  RegionInv'
<1>1. /\ RegionType /\ reserved_regions # << >> /\ file_size \in Nat
      /\ RegionsAligned /\ Bounded /\ RegionsApart
  BY DEF RegionInv, RegionType
<1>2. /\ DOMAIN active_regions = 1 .. Len(active_regions)
      /\ Len(reserved_regions) \in Nat /\ DOMAIN reserved_regions = 1 .. Len(reserved_regions)
      /\ \A i \in DOMAIN active_regions :
           /\ active_regions[i].vaddr \in Nat /\ active_regions[i].len \in Nat
           /\ active_regions[i].tmpfile_offset \in Nat
      /\ \A i \in DOMAIN reserved_regions :
           reserved_regions[i].vaddr \in Nat /\ reserved_regions[i].len \in Nat
  BY <1>1, RegionFacts
<1>3. First.vaddr \in Nat /\ First.len \in Nat /\ 1 \in DOMAIN reserved_regions
  <2>1. Len(reserved_regions) # 0
    BY <1>1, EmptySeq DEF RegionType
  <2> QED
    BY <1>2, <2>1 DEF First
<1>4. \A i \in DOMAIN active_regions :
        active_regions[i].tmpfile_offset + active_regions[i].len <= file_size'
  BY <1>1, <1>2 DEF RegionsApart
<1>5. CASE reserved_regions' = reserved_regions
  <2>1. AddressesUsed' = AddressesUsed
    BY <1>5 DEF AddressesUsed
  <2> QED
    BY <1>1, <1>4, <1>5, <2>1 DEF RegionInv, RegionType, RegionsAligned, Bounded, RegionsApart
<1>6. CASE Consume(len) /\ First.len = len
  <2>1. /\ reserved_regions' \in Seq(Reserved)
        /\ Len(reserved_regions') = Len(reserved_regions)
        /\ reserved_regions'[1] = [vaddr |-> First.vaddr + len, len |-> First.len - len]
        /\ \A i \in DOMAIN reserved_regions : i # 1 => reserved_regions'[i] = reserved_regions[i]
    BY <1>1, <1>3, <1>6, ConsumeEffect
  <2>2. DOMAIN reserved_regions' = DOMAIN reserved_regions /\ reserved_regions' # << >>
    BY <1>2, <1>3, <2>1, EmptySeq
  <2>3. RegionsAligned'
    <3>1. First.vaddr % 8 = 0
      BY <1>1, <1>3 DEF RegionsAligned, First
    <3>2. (First.vaddr + len) % 8 = 0 /\ (First.len - len) % 8 = 0
      BY <1>3, <1>6, <3>1, EightSum
    <3>3. \A i \in DOMAIN reserved_regions :
            reserved_regions'[i].vaddr % 8 = 0 /\ reserved_regions'[i].len % 8 = 0
      BY <1>1, <2>1, <3>2 DEF RegionsAligned
    <3> QED
      BY <1>1, <2>2, <3>3 DEF RegionsAligned
  <2>4. Bounded'
    <3>1. PICK b \in Nat : \A x \in AddressesUsed : x <= b
      BY <1>1 DEF Bounded
    <3>2. \A i \in DOMAIN active_regions : active_regions[i].vaddr + active_regions[i].len <= b
      BY <3>1 DEF AddressesUsed
    <3>3. \A i \in DOMAIN reserved_regions : reserved_regions[i].vaddr + reserved_regions[i].len <= b
      BY <3>1 DEF AddressesUsed
    <3>4. (First.vaddr + len) + (First.len - len) <= b
      BY <1>3, <3>3 DEF First
    <3>5. \A i \in DOMAIN reserved_regions :
            reserved_regions'[i].vaddr + reserved_regions'[i].len <= b
      BY <2>1, <3>3, <3>4
    <3>6. \A x \in AddressesUsed' : x <= b
      BY <2>2, <3>2, <3>5 DEF AddressesUsed
    <3> QED
      BY <3>6 DEF Bounded
  <2>5. /\ \A i \in DOMAIN active_regions :
             Apart(active_regions[i].vaddr, active_regions[i].len, First.vaddr, First.len)
        /\ \A i \in DOMAIN reserved_regions : i # 1 =>
             Apart(reserved_regions[i].vaddr, reserved_regions[i].len, First.vaddr, First.len)
    BY <1>1, <1>3 DEF First, RegionsApart
  <2>6. /\ \A i \in DOMAIN active_regions :
             Apart(active_regions[i].vaddr, active_regions[i].len, First.vaddr + len, First.len - len)
        /\ \A i \in DOMAIN reserved_regions : i # 1 =>
             /\ Apart(reserved_regions[i].vaddr, reserved_regions[i].len,
                      First.vaddr + len, First.len - len)
             /\ Apart(First.vaddr + len, First.len - len,
                      reserved_regions[i].vaddr, reserved_regions[i].len)
    <3>1. len <= First.len
      BY <1>3, <1>6
    <3> QED
      BY <1>2, <1>3, <2>5, <3>1, ApartParts
  <2>7. RegionsApart'
    BY <1>1, <1>4, <2>1, <2>2, <2>6 DEF RegionsApart
  <2> QED
    BY <1>1, <2>1, <2>2, <2>3, <2>4, <2>7 DEF RegionInv, RegionType
<1> QED
  BY <1>5, <1>6

LEMMA MapRefusedStep ==
  ASSUME RegionInv, NEW len \in Nat, len % 8 = 0, MapRefused(len)
  PROVE  RegionInv'
<1>1. /\ UNCHANGED <<active_regions, reserved_regions, free_structs, file_size, rootHeld>>
      /\ tmpfile_size' = tmpfile_size \/ tmpfile_size' = tmpfile_size + len
  BY DEF MapRefused, regions
<1>2. /\ tmpfile_size \in Nat /\ file_size \in Nat /\ file_size <= tmpfile_size
      /\ free_structs \in Nat \ {0} /\ rootHeld \in BOOLEAN
  BY DEF RegionInv, RegionType
<1>3. tmpfile_size' \in Nat /\ file_size' <= tmpfile_size'
  BY <1>1, <1>2
<1> QED
  BY <1>1, <1>2, <1>3, NoRegionStep

LEMMA MapDiesStep ==
  ASSUME RegionInv, NEW len \in Nat, len % 8 = 0, MapDies(len)
  PROVE  RegionInv'
<1>1. /\ tmpfile_size \in Nat /\ file_size \in Nat /\ file_size <= tmpfile_size
      /\ free_structs \in Nat \ {0}
  BY DEF RegionInv, RegionType
<1>2. /\ active_regions' = active_regions /\ rootHeld' = TRUE
      /\ reserved_regions' = reserved_regions \/ (Consume(len) /\ First.len = len)
      /\ free_structs' = free_structs \/ (free_structs > 1 /\ free_structs' = free_structs - 1)
      /\ UNCHANGED <<tmpfile_size, file_size>> \/ Extend(len)
  BY DEF MapDies, file
<1>3. /\ tmpfile_size' \in Nat /\ file_size' \in Nat
      /\ file_size <= file_size' /\ file_size' <= tmpfile_size'
      /\ free_structs' \in Nat \ {0}
  BY <1>1, <1>2 DEF Extend
<1> QED
  BY <1>2, <1>3, NoRegionStep

\* What is put in front of a sequence is its first element.
LEMMA PushProperties ==
  ASSUME NEW S, NEW s \in Seq(S), NEW e \in S
  PROVE  /\ <<e>> \o s \in Seq(S)
         /\ Len(<<e>> \o s) = Len(s) + 1
         /\ DOMAIN (<<e>> \o s) = 1 .. Len(s) + 1
         /\ (<<e>> \o s)[1] = e
         /\ \A i \in 2 .. Len(s) + 1 : i - 1 \in DOMAIN s /\ (<<e>> \o s)[i] = s[i - 1]
<1>1. <<e>> \in Seq(S) /\ Len(<<e>>) = 1 /\ <<e>>[1] = e /\ Len(s) \in Nat
  OBVIOUS
<1>2. /\ <<e>> \o s \in Seq(S)
      /\ Len(<<e>> \o s) = 1 + Len(s)
      /\ \A i \in 1 .. 1 + Len(s) : (<<e>> \o s)[i] = IF i <= 1 THEN <<e>>[i] ELSE s[i - 1]
  BY <1>1, ConcatProperties
<1>3. DOMAIN (<<e>> \o s) = 1 .. Len(<<e>> \o s)
  BY <1>2
<1>4. 1 \in 1 .. 1 + Len(s) /\ \A i \in 2 .. Len(s) + 1 : i \in 1 .. 1 + Len(s) /\ ~ (i <= 1)
  BY <1>1
<1>5. \A i \in 2 .. Len(s) + 1 : i - 1 \in DOMAIN s
  BY <1>1
<1> QED
  BY <1>1, <1>2, <1>3, <1>4, <1>5

\* The range of a reservation lies behind all that is in use.
LEMMA ReserveStep ==
  ASSUME RegionInv, NEW pages \in NewPages, Reserve(pages)
  PROVE  RegionInv'
<1> DEFINE top == Max(AddressesUsed)
           new == [vaddr |-> top + PageSize, len |-> pages * PageSize]
           n == Len(reserved_regions)
<1>1. /\ RegionType /\ reserved_regions # << >> /\ RegionsAligned /\ Bounded /\ RegionsApart
      /\ file_size <= tmpfile_size
      /\ free_structs > 1 /\ free_structs' = free_structs - 1
      /\ reserved_regions' = <<new>> \o reserved_regions
      /\ UNCHANGED <<active_regions, tmpfile_size, file_size, rootHeld>>
  BY DEF RegionInv, Reserve, file
<1>2. /\ DOMAIN active_regions = 1 .. Len(active_regions)
      /\ n \in Nat /\ DOMAIN reserved_regions = 1 .. n
      /\ \A i \in DOMAIN active_regions :
           active_regions[i].vaddr \in Nat /\ active_regions[i].len \in Nat
      /\ \A i \in DOMAIN reserved_regions :
           reserved_regions[i].vaddr \in Nat /\ reserved_regions[i].len \in Nat
  BY <1>1, RegionFacts
<1>3. 1 \in DOMAIN reserved_regions
  <2>1. n # 0
    BY <1>1, EmptySeq DEF RegionType
  <2> QED
    BY <1>2, <2>1
<1>4. PageSize \in Nat /\ PageSize % 8 = 0 /\ pages * PageSize \in Nat /\ (pages * PageSize) % 8 = 0
  BY MemoryAssumption, PagesByEight
<1>5. /\ \A i \in DOMAIN active_regions :
           active_regions[i].vaddr + active_regions[i].len \in AddressesUsed
      /\ \A i \in DOMAIN reserved_regions :
           reserved_regions[i].vaddr + reserved_regions[i].len \in AddressesUsed
  BY DEF AddressesUsed
<1>6. \A x \in AddressesUsed :
        \/ \E i \in DOMAIN active_regions : x = active_regions[i].vaddr + active_regions[i].len
        \/ \E i \in DOMAIN reserved_regions : x = reserved_regions[i].vaddr + reserved_regions[i].len
  BY DEF AddressesUsed
<1>7. \A x \in AddressesUsed : x \in Nat /\ x % 8 = 0
  <2> SUFFICES ASSUME NEW x \in AddressesUsed PROVE x \in Nat /\ x % 8 = 0
    OBVIOUS
  <2>1. CASE \E i \in DOMAIN active_regions : x = active_regions[i].vaddr + active_regions[i].len
    <3>1. PICK i \in DOMAIN active_regions : x = active_regions[i].vaddr + active_regions[i].len
      BY <2>1
    <3>2. /\ active_regions[i].vaddr \in Nat /\ active_regions[i].vaddr % 8 = 0
          /\ active_regions[i].len \in Nat /\ active_regions[i].len % 8 = 0
      BY <1>1, <1>2 DEF RegionsAligned
    <3>3. (active_regions[i].vaddr + active_regions[i].len) % 8 = 0
      BY <3>2, EightSum
    <3> QED
      BY <3>1, <3>2, <3>3
  <2>2. CASE \E i \in DOMAIN reserved_regions : x = reserved_regions[i].vaddr + reserved_regions[i].len
    <3>1. PICK i \in DOMAIN reserved_regions : x = reserved_regions[i].vaddr + reserved_regions[i].len
      BY <2>2
    <3>2. /\ reserved_regions[i].vaddr \in Nat /\ reserved_regions[i].vaddr % 8 = 0
          /\ reserved_regions[i].len \in Nat /\ reserved_regions[i].len % 8 = 0
      BY <1>1, <1>2 DEF RegionsAligned
    <3>3. (reserved_regions[i].vaddr + reserved_regions[i].len) % 8 = 0
      BY <3>2, EightSum
    <3> QED
      BY <3>1, <3>2, <3>3
  <2> QED
    BY <1>6, <2>1, <2>2
<1>8. top \in Nat /\ top % 8 = 0 /\ \A x \in AddressesUsed : x <= top
  <2>1. PICK b \in Nat : \A x \in AddressesUsed : x <= b
    BY <1>1 DEF Bounded
  <2>2. AddressesUsed \in SUBSET Nat /\ AddressesUsed # {}
    BY <1>3, <1>5, <1>7
  <2> QED
    BY <1>7, <2>1, <2>2, MaxIsBound
<1> HIDE DEF top
<1>9. new \in Reserved /\ new.vaddr % 8 = 0 /\ new.len % 8 = 0
  <2>1. top + PageSize \in Nat /\ (top + PageSize) % 8 = 0
    BY <1>4, <1>8, EightSum
  <2> QED
    BY <1>4, <2>1 DEF Reserved
<1>10. /\ reserved_regions' \in Seq(Reserved)
       /\ DOMAIN reserved_regions' = 1 .. n + 1
       /\ reserved_regions'[1] = new
       /\ \A i \in 2 .. n + 1 : /\ i - 1 \in DOMAIN reserved_regions
                                /\ reserved_regions'[i] = reserved_regions[i - 1]
  <2> HIDE DEF new
  <2> QED
    BY <1>1, <1>9, PushProperties DEF RegionType
<1>11. RegionType' /\ reserved_regions' # << >>
  <2>1. reserved_regions' # << >>
    BY <1>2, <1>10
  <2> QED
    BY <1>1, <1>10, <2>1 DEF RegionType
<1>12. \A i \in DOMAIN reserved_regions' :
         \/ i = 1 /\ reserved_regions'[i] = new
         \/ /\ i # 1 /\ i - 1 \in DOMAIN reserved_regions
            /\ reserved_regions'[i] = reserved_regions[i - 1]
  BY <1>2, <1>10
<1>13. RegionsAligned'
  BY <1>1, <1>9, <1>12 DEF RegionsAligned
<1>14. Bounded'
  <2> DEFINE b == top + PageSize + pages * PageSize
  <2>1. b \in Nat /\ top <= b
    BY <1>4, <1>8
  <2>2. \A x \in AddressesUsed' :
          \/ \E i \in DOMAIN active_regions : x = active_regions[i].vaddr + active_regions[i].len
          \/ \E i \in DOMAIN reserved_regions' :
               x = reserved_regions'[i].vaddr + reserved_regions'[i].len
    BY <1>1 DEF AddressesUsed
  <2>3. \A x \in AddressesUsed' : x \in AddressesUsed \/ x = b
    BY <1>5, <1>12, <2>2
  <2>4. \A x \in AddressesUsed' : x <= b
    BY <1>7, <1>8, <2>1, <2>3
  <2> QED
    BY <2>1, <2>4 DEF Bounded
<1>15. /\ \A i \in DOMAIN active_regions :
            Apart(active_regions[i].vaddr, active_regions[i].len, new.vaddr, new.len)
       /\ \A i \in DOMAIN reserved_regions :
            /\ Apart(reserved_regions[i].vaddr, reserved_regions[i].len, new.vaddr, new.len)
            /\ Apart(new.vaddr, new.len, reserved_regions[i].vaddr, reserved_regions[i].len)
  <2>1. \A x \in AddressesUsed : x <= new.vaddr
    BY <1>4, <1>7, <1>8
  <2> QED
    BY <1>5, <2>1 DEF Apart
<1>16. RegionsApart'
  <2> HIDE DEF new
  <2>1. ASSUME NEW i \in DOMAIN reserved_regions', NEW j \in DOMAIN reserved_regions', i # j
        PROVE  Apart(reserved_regions'[i].vaddr, reserved_regions'[i].len,
                     reserved_regions'[j].vaddr, reserved_regions'[j].len)
    <3>1. i - 1 # j - 1
      BY <1>10, <2>1
    <3> QED
      BY <1>1, <1>12, <1>15, <2>1, <3>1 DEF RegionsApart
  <2>2. ASSUME NEW i \in DOMAIN active_regions, NEW j \in DOMAIN reserved_regions'
        PROVE  Apart(active_regions[i].vaddr, active_regions[i].len,
                     reserved_regions'[j].vaddr, reserved_regions'[j].len)
    BY <1>1, <1>12, <1>15, <2>2 DEF RegionsApart
  <2> QED
    BY <1>1, <2>1, <2>2 DEF RegionsApart
<1> QED
  BY <1>1, <1>11, <1>13, <1>14, <1>16 DEF RegionInv

LEMMA RegionInit ==
  ASSUME Init
  PROVE  RegionInv
<1> DEFINE act == [vaddr |-> 0, len |-> PageSize, tmpfile_offset |-> 0]
           res == [vaddr |-> 2 * PageSize, len |-> ReservedPages * PageSize]
<1>1. /\ PageSize \in Nat /\ PageSize % 8 = 0 /\ 2 * PageSize \in Nat /\ (2 * PageSize) % 8 = 0
      /\ ReservedPages * PageSize \in Nat /\ (ReservedPages * PageSize) % 8 = 0
  BY MemoryAssumption, PagesByEight
<1>2. /\ act \in Region /\ res \in Reserved
      /\ active_regions = <<act>> /\ reserved_regions = <<res>>
      /\ free_structs \in Nat \ {0} /\ tmpfile_size = PageSize /\ file_size = PageSize
      /\ rootHeld = FALSE
  BY <1>1, MemoryAssumption DEF Init, Region, Reserved
<1>3. /\ active_regions \in Seq(Region) /\ DOMAIN active_regions = {1} /\ active_regions[1] = act
      /\ reserved_regions \in Seq(Reserved) /\ DOMAIN reserved_regions = {1}
      /\ reserved_regions[1] = res /\ reserved_regions # << >>
  <2> HIDE DEF act, res
  <2> QED
    BY <1>2
<1>4. RegionType
  BY <1>1, <1>2, <1>3 DEF RegionType
<1>5. RegionsAligned
  BY <1>1, <1>3 DEF RegionsAligned
<1>6. Bounded
  <2> DEFINE b == 2 * PageSize + ReservedPages * PageSize
  <2>1. \A x \in AddressesUsed : x = PageSize \/ x = b
    <3>1. \A x \in AddressesUsed : x = act.vaddr + act.len \/ x = res.vaddr + res.len
      <4> HIDE DEF act, res
      <4> QED
        BY <1>3 DEF AddressesUsed
    <3> QED
      BY <1>1, <3>1
  <2>2. b \in Nat /\ PageSize <= b
    BY <1>1
  <2> HIDE DEF b
  <2>3. \A x \in AddressesUsed : x <= b
    BY <2>1, <2>2
  <2> QED
    BY <2>2, <2>3 DEF Bounded
<1>7. RegionsApart
  BY <1>1, <1>2, <1>3 DEF RegionsApart, Apart
<1> QED
  BY <1>1, <1>2, <1>3, <1>4, <1>5, <1>6, <1>7 DEF RegionInv

\* What sc_malloc asks for: header and footer, rounded up to eight, and pages.
LEMMA SizeFacts ==
  ASSUME NEW size \in Nat
  PROVE  /\ AllocSize(size) \in Nat /\ AllocSize(size) % 8 = 0
         /\ Header + size + Footer <= AllocSize(size)
         /\ AllocSize(size) < Header + size + Footer + 8
         /\ SplitSize(size) = AllocSize(size) + 24
<1>1. Header + size \in Nat
  BY DEF Header
<1>2. /\ RoundUp(Header + size, 8) \in Nat /\ RoundUp(Header + size, 8) % 8 = 0
      /\ Header + size <= RoundUp(Header + size, 8) /\ RoundUp(Header + size, 8) < Header + size + 8
  BY <1>1, RoundUpEight
<1>3. AllocSize(size) = RoundUp(Header + size, 8) + 8
  BY DEF AllocSize, Footer
<1> QED
  BY <1>1, <1>2, <1>3 DEF SplitSize, ListNode, Footer

LEMMA GrowFacts ==
  ASSUME request \in Nat
  PROVE  /\ GrowLen \in Nat /\ GrowLen % 8 = 0 /\ SplitSize(request) <= GrowLen
         /\ GrowLen \div PageSize \in Nat /\ (GrowLen \div PageSize) * PageSize = GrowLen
<1>1. SplitSize(request) \in Nat
  BY SizeFacts
<1>2. PICK q \in Nat : /\ GrowLen = q * PageSize
                       /\ GrowLen \div PageSize = q
                       /\ SplitSize(request) <= q * PageSize
  BY <1>1, RoundUpPages DEF GrowLen
<1> QED
  BY <1>2, PagesByEight

LEMMA RegionStep ==
  ASSUME RegionInv, request \in Sizes \cup {NoRequest}, [Next]_vars
  PROVE  RegionInv'
<1>1. ASSUME NEW len \in Nat, len % 8 = 0, MapRegion(len) \/ MapRefused(len) \/ MapDies(len)
      PROVE  RegionInv'
  BY <1>1, MapRegionStep, MapRefusedStep, MapDiesStep
<1>2. ASSUME UNCHANGED <<regions, file, rootHeld>>
      PROVE  RegionInv'
  <2>1. UNCHANGED <<active_regions, reserved_regions, free_structs, tmpfile_size, file_size, rootHeld>>
    BY <1>2 DEF regions, file
  <2>2. AddressesUsed' = AddressesUsed
    BY <2>1 DEF AddressesUsed
  <2> QED
    BY <2>1, <2>2 DEF RegionInv, RegionType, RegionsAligned, Bounded, RegionsApart
<1>3. ASSUME NEW size \in Sizes, Malloc(size) \/ MallocSearchFails(size)
      PROVE  RegionInv'
  BY <1>2, <1>3 DEF Malloc, MallocSearchFails
<1>4. CASE MallocGrows \/ MallocFails \/ MallocDies
  <2>1. request \in Nat
    BY <1>4, MemoryAssumption DEF MallocGrows, MallocFails, MallocDies
  <2>2. GrowLen \in Nat /\ GrowLen % 8 = 0
    BY <2>1, GrowFacts
  <2> QED
    BY <1>1, <1>4, <2>2 DEF MallocGrows, MallocFails, MallocDies
<1>5. ASSUME NEW block \in blocks, Free(block)
      PROVE  RegionInv'
  BY <1>2, <1>5 DEF Free
<1>6. ASSUME NEW n \in MmapPages, Mmap(n * PageSize)
      PROVE  RegionInv'
  <2>1. n * PageSize \in Nat /\ (n * PageSize) % 8 = 0
    BY MemoryAssumption, PagesByEight
  <2> QED
    BY <1>1, <1>6, <2>1 DEF Mmap
<1>7. ASSUME NEW n \in NewPages, Reserve(n)
      PROVE  RegionInv'
  BY <1>7, ReserveStep
<1>8. CASE UNCHANGED vars
  BY <1>2, <1>8 DEF vars
<1> QED
  BY <1>3, <1>4, <1>5, <1>6, <1>7, <1>8 DEF Next

-----------------------------------------------------------------------------
(* The free list and the buffers, as sets                                  *)

ApartFrom(x, y) == Apart(x.addr, x.len, y.addr, y.len)
Within(x, r) == r.addr <= x.addr /\ x.addr + x.len <= r.addr + r.pages * PageSize
Run == [addr : Nat, pages : Nat]

Fitting(b) ==
  /\ b.addr % 8 = 0 /\ b.len % 8 = 0
  /\ Header + b.size + Footer <= b.len
  /\ b.len < Header + b.size + Footer + 8 + ListNode

\* What holds of the nodes N, the buffers B, the runs of pages R and the addresses H
\* that were ever handed out.
HeapTyped(N, B, R, H) ==
  /\ \A n \in N : n \in Node /\ n.addr % 8 = 0 /\ n.len % 8 = 0 /\ n.len >= 24
  /\ \A b \in B : b \in Block /\ Fitting(b) /\ b.len >= 24
  /\ R \in SUBSET Run /\ \A r \in R : r.pages # 0
  /\ H \in SUBSET Nat

HeapApart(N, B) ==
  /\ \A x, y \in N : x # y => ApartFrom(x, y)
  /\ \A b \in B, n \in N : ApartFrom(b, n)
  /\ \A b, c \in B : b # c => ApartFrom(b, c)

HeapCovers(N, B, R) ==
  /\ \A x \in N \cup B : \E r \in R : Within(x, r)
  /\ \A r \in R : \A a \in Nat : r.addr <= a /\ a < r.addr + r.pages * PageSize =>
       \E x \in N \cup B : x.addr <= a /\ a < x.addr + x.len
  /\ \A r \in R : \E n \in N : n.addr = r.addr /\ n.pages = r.pages

HeapHanded(N, B, H) ==
  \A h \in H : (\A b \in B : b.addr # h) <=> (\E n \in N : n.addr = h)

HeapSound(N, B, R, H) ==
  /\ HeapTyped(N, B, R, H)
  /\ HeapApart(N, B)
  /\ HeapCovers(N, B, R)
  /\ HeapHanded(N, B, H)

HeadSet(node) == IF node.pages # 0 THEN {[node EXCEPT !.len = ListNode]} ELSE {}
RestNode(node, size) ==
  [addr |-> node.addr + HeadLen(node) + AllocSize(size),
   len |-> node.len - HeadLen(node) - AllocSize(size), pages |-> 0]
RestSet(node, size) == IF IsSplit(node, size) THEN {RestNode(node, size)} ELSE {}

\* A node that fits is cut into a list node of its own if it heads a run of pages, a
\* buffer that is large enough and not too large, and a list node if there is room.
LEMMA CutFacts ==
  ASSUME NEW node \in Node, node.addr % 8 = 0, node.len % 8 = 0,
         NEW size \in Nat, Fits(node, size)
  PROVE  LET h == HeadLen(node)
             b == Buffer(node, size)
         IN /\ h \in Nat /\ node.addr \in Nat /\ node.len \in Nat
            /\ h = IF node.pages # 0 THEN 24 ELSE 0
            /\ b \in Block /\ Fitting(b) /\ b.len >= 24
            /\ b.addr = node.addr + h /\ h + b.len <= node.len
            /\ \A x \in HeadSet(node) :
                 /\ x \in Node /\ x.addr = node.addr /\ x.len = 24 /\ x.pages = node.pages
                 /\ h = 24
            /\ h = 24 => HeadSet(node) # {}
            /\ \A x \in RestSet(node, size) :
                 /\ x \in Node /\ x.addr = b.addr + b.len /\ x.len = node.len - h - b.len
                 /\ x.pages = 0 /\ x.addr % 8 = 0 /\ x.len % 8 = 0 /\ x.len >= 24
            /\ RestSet(node, size) = {} => h + b.len = node.len
<1> DEFINE h == HeadLen(node)
           b == Buffer(node, size)
           s == AllocSize(size)
<1>1. node.addr \in Nat /\ node.len \in Nat /\ node.pages \in Nat
  BY DEF Node
<1>2. /\ s \in Nat /\ s % 8 = 0 /\ 16 + size + 8 <= s /\ s < 16 + size + 8 + 8
      /\ SplitSize(size) = s + 24
  BY SizeFacts DEF Header, Footer
<1>3. h = IF node.pages # 0 THEN 24 ELSE 0
  BY DEF HeadLen, ListNode
<1>4. node.len >= s + 24 \/ (node.len >= s /\ node.pages = 0)
  BY <1>2 DEF Fits
<1>5. IsSplit(node, size) <=> node.len - h >= s + 24
  BY <1>2 DEF IsSplit
<1>6. /\ b.addr = node.addr + h /\ b.size = size
      /\ b.len = IF IsSplit(node, size) THEN s ELSE node.len - h
  BY DEF Buffer, BufferLen
<1>7. b = [addr |-> node.addr + h, len |-> b.len, size |-> size]
  BY DEF Buffer
<1> HIDE DEF h, s
<1>8. /\ h \in Nat /\ h % 8 = 0 /\ node.len - h \in Nat /\ (node.len - h) % 8 = 0
      /\ (node.addr + h) % 8 = 0 /\ s <= node.len - h
  <2>1. h \in Nat /\ h % 8 = 0 /\ s <= node.len - h /\ h <= node.len
    <3>1. CASE node.pages # 0
      BY <1>1, <1>2, <1>3, <1>4, <3>1
    <3>2. CASE node.pages = 0
      <4>1. h = 0 /\ node.len >= s
        BY <1>1, <1>2, <1>3, <1>4, <3>2
      <4> QED
        BY <1>1, <1>2, <4>1
    <3> QED
      BY <3>1, <3>2
  <2> QED
    BY <1>1, <2>1, EightSum
<1>9. /\ b.len \in Nat /\ b.len % 8 = 0 /\ s <= b.len /\ b.len < s + 24
      /\ h + b.len <= node.len
      /\ ~ IsSplit(node, size) => h + b.len = node.len
      /\ IsSplit(node, size) => b.len = s
  <2>1. CASE IsSplit(node, size)
    BY <1>1, <1>2, <1>5, <1>6, <1>8, <2>1
  <2>2. CASE ~ IsSplit(node, size)
    BY <1>1, <1>2, <1>5, <1>6, <1>8, <2>2
  <2> QED
    BY <2>1, <2>2
<1> HIDE DEF b
<1>10. b \in Block /\ Fitting(b) /\ b.len >= 24
  <2>1. node.addr + h \in Nat
    BY <1>1, <1>8
  <2>2. b \in Block
    BY <1>7, <1>9, <2>1 DEF Block
  <2>3. Fitting(b)
    BY <1>2, <1>6, <1>8, <1>9 DEF Fitting, Header, Footer, ListNode
  <2> QED
    BY <1>2, <1>9, <2>2, <2>3
<1>11. ASSUME NEW x \in HeadSet(node)
       PROVE  /\ x \in Node /\ x.addr = node.addr /\ x.len = 24 /\ x.pages = node.pages
              /\ h = 24
  BY <1>3, <1>11 DEF HeadSet, Node, ListNode
<1>12. h = 24 => HeadSet(node) # {}
  <2>1. h = 24 => node.pages # 0
    BY <1>3
  <2> QED
    BY <2>1 DEF HeadSet
<1>13. ASSUME NEW x \in RestSet(node, size)
       PROVE  /\ x \in Node /\ x.addr = b.addr + b.len /\ x.len = node.len - h - b.len
              /\ x.pages = 0 /\ x.addr % 8 = 0 /\ x.len % 8 = 0 /\ x.len >= 24
  <2>1. IsSplit(node, size) /\ x = RestNode(node, size)
    BY <1>13 DEF RestSet
  <2>2. x = [addr |-> node.addr + h + s, len |-> node.len - h - s, pages |-> 0]
    BY <2>1 DEF RestNode, h, s
  <2>3. /\ node.addr + h + s \in Nat /\ (node.addr + h + s) % 8 = 0
        /\ node.len - h - s \in Nat /\ (node.len - h - s) % 8 = 0 /\ node.len - h - s >= 24
    <3>1. s + 24 <= node.len - h
      BY <1>1, <1>2, <1>5, <1>8, <2>1
    <3>2. (node.addr + h + s) % 8 = 0 /\ node.addr + h \in Nat
      BY <1>1, <1>2, <1>8, EightSum
    <3>3. node.len - h - s \in Nat /\ (node.len - h - s) % 8 = 0
      <4>1. s <= node.len - h
        BY <1>8
      <4> QED
        BY <1>2, <1>8, <4>1, EightSum
    <3> QED
      BY <1>2, <1>8, <3>1, <3>2, <3>3
  <2>4. b.len = s
    BY <1>9, <2>1
  <2> QED
    BY <1>6, <2>2, <2>3, <2>4 DEF Node
<1>14. RestSet(node, size) = {} => h + b.len = node.len
  BY <1>9 DEF RestSet
<1> QED
  BY <1>1, <1>3, <1>6, <1>8, <1>9, <1>10, <1>11, <1>12, <1>13, <1>14 DEF h, b

\* Cutting a buffer from a node keeps all of this.
LEMMA CutSound ==
  ASSUME NEW O, NEW node \in Node, NEW B, NEW R, NEW H, NEW size \in Nat,
         HeapSound(O \cup {node}, B, R, H),
         \A x \in O : ApartFrom(x, node),
         Fits(node, size)
  PROVE  LET b == Buffer(node, size)
             X == HeadSet(node) \cup RestSet(node, size)
         IN /\ HeapSound(O \cup X, B \cup {b}, R, H \cup {b.addr})
            /\ \A x \in O, y \in X : ApartFrom(x, y)
<1> DEFINE b == Buffer(node, size)
           h == HeadLen(node)
           X == HeadSet(node) \cup RestSet(node, size)
<1>1. /\ HeapTyped(O \cup {node}, B, R, H) /\ HeapApart(O \cup {node}, B)
      /\ HeapCovers(O \cup {node}, B, R) /\ HeapHanded(O \cup {node}, B, H)
  BY DEF HeapSound
<1>2. /\ \A n \in O : n \in Node /\ n.addr % 8 = 0 /\ n.len % 8 = 0 /\ n.len >= 24
      /\ node.addr % 8 = 0 /\ node.len % 8 = 0 /\ node.len >= 24
      /\ \A c \in B : c \in Block /\ Fitting(c) /\ c.len >= 24
      /\ R \in SUBSET Run /\ H \in SUBSET Nat
      /\ \A r \in R : r.pages # 0
  BY <1>1 DEF HeapTyped
<1>3. /\ h \in Nat /\ node.addr \in Nat /\ node.len \in Nat
      /\ h = IF node.pages # 0 THEN 24 ELSE 0
      /\ b \in Block /\ Fitting(b) /\ b.len >= 24
      /\ b.addr = node.addr + h /\ h + b.len <= node.len
      /\ \A x \in HeadSet(node) :
           /\ x \in Node /\ x.addr = node.addr /\ x.len = 24 /\ x.pages = node.pages
           /\ h = 24
      /\ h = 24 => HeadSet(node) # {}
      /\ \A x \in RestSet(node, size) :
           /\ x \in Node /\ x.addr = b.addr + b.len /\ x.len = node.len - h - b.len
           /\ x.pages = 0 /\ x.addr % 8 = 0 /\ x.len % 8 = 0 /\ x.len >= 24
      /\ RestSet(node, size) = {} => h + b.len = node.len
  BY <1>2, CutFacts
<1> HIDE DEF b, h
<1>4. b.addr \in Nat /\ b.len \in Nat
  BY <1>3 DEF Block
<1>5. \A x \in X \cup {b} :
        /\ x.addr \in Nat /\ x.len \in Nat /\ x.len >= 24
        /\ node.addr <= x.addr /\ x.addr + x.len <= node.addr + node.len
  <2> SUFFICES ASSUME NEW x \in X \cup {b}
               PROVE  /\ x.addr \in Nat /\ x.len \in Nat /\ x.len >= 24
                      /\ node.addr <= x.addr /\ x.addr + x.len <= node.addr + node.len
    OBVIOUS
  <2>1. CASE x = b
    BY <1>3, <1>4, <2>1
  <2>2. CASE x \in HeadSet(node)
    BY <1>2, <1>3, <2>2
  <2>3. CASE x \in RestSet(node, size)
    <3>1. /\ x.addr = node.addr + h + b.len /\ x.len = node.len - h - b.len /\ x.len >= 24
      BY <1>3, <2>3
    <3> QED
      BY <1>3, <1>4, <3>1
  <2> QED
    BY <2>1, <2>2, <2>3
<1>6. \A x \in X, y \in X : x # y => ApartFrom(x, y)
  <2>1. \A x \in HeadSet(node), y \in HeadSet(node) : x = y
    BY DEF HeadSet
  <2>2. \A x \in RestSet(node, size), y \in RestSet(node, size) : x = y
    BY DEF RestSet
  <2>3. ASSUME NEW x \in HeadSet(node), NEW y \in RestSet(node, size)
        PROVE  ApartFrom(x, y) /\ ApartFrom(y, x)
    <3>1. x.addr = node.addr /\ x.len = 24 /\ h = 24 /\ y.addr = node.addr + h + b.len
      BY <1>3, <2>3
    <3>2. x.addr + x.len <= y.addr
      BY <1>3, <1>4, <3>1
    <3> QED
      BY <3>2 DEF ApartFrom, Apart
  <2> QED
    BY <2>1, <2>2, <2>3
<1>7. \A x \in X : ApartFrom(b, x)
  <2>1. ASSUME NEW x \in HeadSet(node) PROVE ApartFrom(b, x)
    <3>1. x.addr + x.len <= b.addr
      BY <1>3, <2>1
    <3> QED
      BY <3>1 DEF ApartFrom, Apart
  <2>2. ASSUME NEW x \in RestSet(node, size) PROVE ApartFrom(b, x)
    <3>1. b.addr + b.len <= x.addr
      BY <1>3, <1>4, <2>2
    <3> QED
      BY <3>1 DEF ApartFrom, Apart
  <2> QED
    BY <2>1, <2>2
\* Whatever was apart from the node is apart from its parts.
<1>8. ASSUME NEW y, y.addr \in Nat, y.len \in Nat, y.len >= 24,
             ApartFrom(y, node) \/ ApartFrom(node, y)
      PROVE  \A x \in X \cup {b} : ApartFrom(x, y) /\ ApartFrom(y, x) /\ y.addr # x.addr
  <2> SUFFICES ASSUME NEW x \in X \cup {b}
               PROVE  ApartFrom(x, y) /\ ApartFrom(y, x) /\ y.addr # x.addr
    OBVIOUS
  <2>1. /\ x.addr \in Nat /\ x.len \in Nat /\ x.len >= 24
        /\ node.addr <= x.addr /\ x.addr + x.len <= node.addr + node.len
    BY <1>5
  <2>2. y.addr + y.len <= node.addr \/ node.addr + node.len <= y.addr
    BY <1>8 DEF ApartFrom, Apart
  <2>3. y.addr + y.len <= x.addr \/ x.addr + x.len <= y.addr
    BY <1>3, <1>8, <2>1, <2>2
  <2> QED
    BY <1>8, <2>1, <2>3 DEF ApartFrom, Apart
<1>9. \A x \in X : x.addr # b.addr
  <2>1. ASSUME NEW x \in HeadSet(node) PROVE x.addr # b.addr
    BY <1>3, <2>1
  <2>2. ASSUME NEW x \in RestSet(node, size) PROVE x.addr # b.addr
    BY <1>3, <1>4, <2>2
  <2> QED
    BY <2>1, <2>2
<1>10. \A x \in O \cup B : /\ x.addr \in Nat /\ x.len \in Nat /\ x.len >= 24
                           /\ ApartFrom(x, node) \/ ApartFrom(node, x)
  <2>1. \A x \in O : x.addr \in Nat /\ x.len \in Nat /\ x.len >= 24
    BY <1>2 DEF Node
  <2>2. \A x \in B : x.addr \in Nat /\ x.len \in Nat /\ x.len >= 24
    BY <1>2 DEF Block
  <2>3. \A x \in B : ApartFrom(x, node)
    BY <1>1 DEF HeapApart
  <2> QED
    BY <2>1, <2>2, <2>3
<1>11. \A y \in O \cup B, x \in X \cup {b} :
         ApartFrom(x, y) /\ ApartFrom(y, x) /\ y.addr # x.addr
  BY <1>8, <1>10
<1>12. HeapTyped(O \cup X, B \cup {b}, R, H \cup {b.addr})
  <2>1. ASSUME NEW n \in X
        PROVE  n \in Node /\ n.addr % 8 = 0 /\ n.len % 8 = 0 /\ n.len >= 24
    BY <1>2, <1>3, <2>1
  <2> QED
    BY <1>2, <1>3, <1>4, <2>1 DEF HeapTyped
<1>13. HeapApart(O \cup X, B \cup {b})
  <2>1. /\ \A x, y \in O : x # y => ApartFrom(x, y)
        /\ \A c \in B, n \in O : ApartFrom(c, n)
        /\ \A c, d \in B : c # d => ApartFrom(c, d)
    BY <1>1 DEF HeapApart
  <2> HIDE DEF X
  <2>2. \A x, y \in O \cup X : x # y => ApartFrom(x, y)
    BY <1>6, <1>11, <2>1
  <2>3. \A c \in B \cup {b}, n \in O \cup X : ApartFrom(c, n)
    BY <1>7, <1>11, <2>1
  <2>4. \A c, d \in B \cup {b} : c # d => ApartFrom(c, d)
    BY <1>11, <2>1
  <2> QED
    BY <2>2, <2>3, <2>4 DEF HeapApart
<1>14. HeapCovers(O \cup X, B \cup {b}, R)
  <2>1. /\ \A x \in (O \cup {node}) \cup B : \E r \in R : Within(x, r)
        /\ \A r \in R : \A a \in Nat : r.addr <= a /\ a < r.addr + r.pages * PageSize =>
             \E x \in (O \cup {node}) \cup B : x.addr <= a /\ a < x.addr + x.len
        /\ \A r \in R : \E n \in O \cup {node} : n.addr = r.addr /\ n.pages = r.pages
    BY <1>1 DEF HeapCovers
  <2>2. ASSUME NEW x \in X \cup {b} PROVE \E r \in R : Within(x, r)
    <3>1. PICK r \in R : Within(node, r)
      BY <2>1
    <3>2. r.addr \in Nat /\ r.pages * PageSize \in Nat
      <4>1. r.pages \in Nat /\ r.addr \in Nat
        BY <1>2 DEF Run
      <4> QED
        BY <4>1, PagesByEight
    <3>3. /\ r.addr <= node.addr /\ node.addr + node.len <= r.addr + r.pages * PageSize
      BY <3>1 DEF Within
    <3>4. /\ x.addr \in Nat /\ x.len \in Nat
          /\ node.addr <= x.addr /\ x.addr + x.len <= node.addr + node.len
      BY <1>5
    <3>5. r.addr <= x.addr /\ x.addr + x.len <= r.addr + r.pages * PageSize
      BY <1>3, <3>2, <3>3, <3>4
    <3> QED
      BY <3>5 DEF Within
  <2>3. ASSUME NEW a \in Nat, node.addr <= a, a < node.addr + node.len
        PROVE  \E x \in X \cup {b} : x.addr <= a /\ a < x.addr + x.len
    <3>1. CASE a < b.addr
      <4>1. h = 24 /\ a < node.addr + 24
        BY <1>3, <2>3, <3>1
      <4>2. PICK x \in HeadSet(node) : TRUE
        BY <1>3, <4>1
      <4> QED
        BY <1>3, <2>3, <4>1, <4>2
    <3>2. CASE b.addr <= a /\ a < b.addr + b.len
      BY <3>2
    <3>3. CASE b.addr + b.len <= a
      <4>1. h + b.len # node.len
        BY <1>3, <1>4, <2>3, <3>3
      <4>2. PICK x \in RestSet(node, size) : TRUE
        BY <1>3, <4>1
      <4>3. x.addr = b.addr + b.len /\ x.len = node.len - h - b.len
        BY <1>3, <4>2
      <4>4. x.addr + x.len = node.addr + node.len
        <5>1. /\ h \in Nat /\ node.addr \in Nat /\ node.len \in Nat /\ b.len \in Nat
              /\ b.addr = node.addr + h
          BY <1>3, <1>4
        <5> QED
          BY <4>3, <5>1
      <4> QED
        BY <2>3, <3>3, <4>3, <4>4
    <3> QED
      BY <1>4, <3>1, <3>2, <3>3
  <2>4. ASSUME NEW r \in R, NEW a \in Nat, r.addr <= a, a < r.addr + r.pages * PageSize
        PROVE  \E x \in (O \cup X) \cup (B \cup {b}) : x.addr <= a /\ a < x.addr + x.len
    <3>1. PICK x \in (O \cup {node}) \cup B : x.addr <= a /\ a < x.addr + x.len
      BY <2>1, <2>4
    <3>2. CASE x = node
      BY <2>3, <3>1, <3>2
    <3>3. CASE x \in O \cup B
      BY <3>1, <3>3
    <3> QED
      BY <3>2, <3>3
  <2>5. ASSUME NEW r \in R
        PROVE  \E n \in O \cup X : n.addr = r.addr /\ n.pages = r.pages
    <3>1. PICK n \in O \cup {node} : n.addr = r.addr /\ n.pages = r.pages
      BY <2>1
    <3>2. CASE n = node
      <4>1. h = 24
        BY <1>2, <1>3, <3>1, <3>2
      <4>2. PICK x \in HeadSet(node) : TRUE
        BY <1>3, <4>1
      <4> QED
        BY <1>3, <3>1, <3>2, <4>2
    <3> QED
      BY <3>1, <3>2
  <2>6. \A x \in (O \cup X) \cup (B \cup {b}) : \E r \in R : Within(x, r)
    BY <2>1, <2>2
  <2> HIDE DEF X
  <2> QED
    BY <2>4, <2>5, <2>6 DEF HeapCovers
<1>15. HeapHanded(O \cup X, B \cup {b}, H \cup {b.addr})
  <2> SUFFICES ASSUME NEW g \in H \cup {b.addr}
               PROVE  (\A c \in B \cup {b} : c.addr # g) <=> (\E n \in O \cup X : n.addr = g)
    BY DEF HeapHanded
  <2>1. CASE g = b.addr
    <3>1. \A n \in O \cup X : n.addr # g
      BY <1>9, <1>11, <2>1
    <3> QED
      BY <2>1, <3>1
  <2>2. CASE g \in H /\ \E c \in B : c.addr = g
    <3>1. PICK c \in B : c.addr = g
      BY <2>2
    <3>2. \A n \in O : n.addr # g
      BY <1>1, <2>2 DEF HeapHanded
    <3>3. \A n \in X : n.addr # g
      BY <1>11, <3>1
    <3> QED
      BY <3>1, <3>2, <3>3
  <2>3. CASE g \in H /\ (\A c \in B : c.addr # g) /\ \E n \in O : n.addr = g
    <3>1. b.addr # g
      BY <1>11, <2>3
    <3> QED
      BY <2>3, <3>1
  <2>4. CASE g \in H /\ (\A c \in B : c.addr # g) /\ \A n \in O : n.addr # g
    <3>1. node.addr = g
      BY <1>1, <2>4 DEF HeapHanded
    <3>2. CASE h = 24
      <4>1. PICK x \in HeadSet(node) : x.addr = g
        BY <1>3, <3>1, <3>2
      <4>2. b.addr # g
        BY <1>3, <3>1, <3>2
      <4> QED
        BY <2>4, <4>1, <4>2
    <3>3. CASE h # 24
      <4>1. b.addr = g
        BY <1>3, <3>1, <3>3
      <4>2. \A n \in X : n.addr # g
        BY <1>9, <4>1
      <4> QED
        BY <2>4, <4>1, <4>2
    <3> QED
      BY <3>2, <3>3
  <2> QED
    BY <2>1, <2>2, <2>3, <2>4
<1> QED
  BY <1>11, <1>12, <1>13, <1>14, <1>15 DEF HeapSound, b

\* New pages, apart from all others, become a node.
LEMMA GrowSound ==
  ASSUME NEW N, NEW B, NEW R, NEW H, HeapSound(N, B, R, H),
         NEW node \in Node, node.addr % 8 = 0, node.len % 8 = 0, node.len >= 24,
         node.pages * PageSize = node.len,
         \A r \in R : Apart(r.addr, r.pages * PageSize, node.addr, node.len)
  PROVE  /\ HeapSound(N \cup {node}, B, R \cup {[addr |-> node.addr, pages |-> node.pages]}, H)
         /\ \A x \in N : ApartFrom(x, node)
<1> DEFINE run == [addr |-> node.addr, pages |-> node.pages]
<1>1. HeapTyped(N, B, R, H) /\ HeapApart(N, B) /\ HeapCovers(N, B, R) /\ HeapHanded(N, B, H)
  BY DEF HeapSound
<1>2. node.addr \in Nat /\ node.len \in Nat /\ node.pages \in Nat
  BY DEF Node
<1>3. node.pages # 0
  BY <1>2, MemoryAssumption
<1>4. run \in Run /\ run.addr = node.addr /\ run.pages = node.pages /\ Within(node, run)
  BY <1>2 DEF Run, Within
<1>5. \A x \in N \cup B : x.addr \in Nat /\ x.len \in Nat /\ x.len >= 24
  <2>1. \A x \in N : x.addr \in Nat /\ x.len \in Nat /\ x.len >= 24
    BY <1>1 DEF HeapTyped, Node
  <2>2. \A x \in B : x.addr \in Nat /\ x.len \in Nat /\ x.len >= 24
    BY <1>1 DEF HeapTyped, Block
  <2> QED
    BY <2>1, <2>2
<1>6. ASSUME NEW x \in N \cup B
      PROVE  ApartFrom(x, node) /\ ApartFrom(node, x) /\ x.addr # node.addr
  <2>1. PICK r \in R : Within(x, r)
    BY <1>1 DEF HeapCovers
  <2>2. r.addr \in Nat /\ r.pages * PageSize \in Nat
    <3>1. r.pages \in Nat /\ r.addr \in Nat
      BY <1>1 DEF HeapTyped, Run
    <3> QED
      BY <3>1, PagesByEight
  <2>3. /\ r.addr <= x.addr /\ x.addr + x.len <= r.addr + r.pages * PageSize
        /\ \/ r.addr + r.pages * PageSize <= node.addr
           \/ node.addr + node.len <= r.addr
    BY <2>1 DEF Within, Apart
  <2>4. x.addr \in Nat /\ x.len \in Nat /\ x.len >= 24
    BY <1>5
  <2>5. x.addr + x.len <= node.addr \/ node.addr + node.len <= x.addr
    BY <1>2, <2>2, <2>3, <2>4
  <2> QED
    BY <1>2, <2>4, <2>5 DEF ApartFrom, Apart
<1>7. HeapTyped(N \cup {node}, B, R \cup {run}, H)
  BY <1>1, <1>3, <1>4 DEF HeapTyped
<1>8. HeapApart(N \cup {node}, B)
  BY <1>1, <1>6 DEF HeapApart
<1>9. HeapCovers(N \cup {node}, B, R \cup {run})
  <2>1. \A x \in (N \cup {node}) \cup B : \E r \in R \cup {run} : Within(x, r)
    BY <1>1, <1>4 DEF HeapCovers
  <2>2. ASSUME NEW r \in R \cup {run}, NEW a \in Nat,
               r.addr <= a, a < r.addr + r.pages * PageSize
        PROVE  \E x \in (N \cup {node}) \cup B : x.addr <= a /\ a < x.addr + x.len
    <3>1. CASE r \in R
      BY <1>1, <2>2, <3>1 DEF HeapCovers
    <3>2. CASE r = run
      BY <1>4, <2>2, <3>2
    <3> QED
      BY <3>1, <3>2
  <2>3. \A r \in R \cup {run} : \E n \in N \cup {node} : n.addr = r.addr /\ n.pages = r.pages
    BY <1>1, <1>4 DEF HeapCovers
  <2> HIDE DEF run
  <2> QED
    BY <2>1, <2>2, <2>3 DEF HeapCovers
\* No buffer was ever handed out at the address of the new pages.
<1>10. HeapHanded(N \cup {node}, B, H)
  <2> SUFFICES ASSUME NEW g \in H
               PROVE  (\A c \in B : c.addr # g) <=> (\E n \in N \cup {node} : n.addr = g)
    BY DEF HeapHanded
  <2>1. (\A c \in B : c.addr # g) <=> (\E n \in N : n.addr = g)
    BY <1>1 DEF HeapHanded
  <2>2. node.addr # g
    BY <1>6, <2>1
  <2> QED
    BY <2>1, <2>2
<1> QED
  BY <1>6, <1>7, <1>8, <1>9, <1>10 DEF HeapSound

\* A buffer that is freed becomes a node.
LEMMA FreeSound ==
  ASSUME NEW N, NEW B, NEW R, NEW H, HeapSound(N, B, R, H), NEW b \in B
  PROVE  LET node == [addr |-> b.addr, len |-> b.len, pages |-> 0]
         IN /\ HeapSound(N \cup {node}, B \ {b}, R, H)
            /\ node \in Node
            /\ \A x \in N : ApartFrom(node, x)
<1> DEFINE node == [addr |-> b.addr, len |-> b.len, pages |-> 0]
<1>1. HeapTyped(N, B, R, H) /\ HeapApart(N, B) /\ HeapCovers(N, B, R) /\ HeapHanded(N, B, H)
  BY DEF HeapSound
<1>2. b.addr \in Nat /\ b.len \in Nat /\ b.addr % 8 = 0 /\ b.len % 8 = 0 /\ b.len >= 24
  BY <1>1 DEF HeapTyped, Block, Fitting
<1>3. node \in Node /\ node.addr = b.addr /\ node.len = b.len
  BY <1>2 DEF Node
<1> HIDE DEF node
<1>4. /\ \A x \in N : ApartFrom(node, x) /\ ApartFrom(x, node)
      /\ \A x \in B \ {b} : ApartFrom(x, node)
  BY <1>1, <1>3 DEF HeapApart, ApartFrom, Apart
<1>5. HeapTyped(N \cup {node}, B \ {b}, R, H)
  BY <1>1, <1>2, <1>3 DEF HeapTyped
<1>6. HeapApart(N \cup {node}, B \ {b})
  BY <1>1, <1>4 DEF HeapApart
<1>7. HeapCovers(N \cup {node}, B \ {b}, R)
  <2>1. \A r \in R : Within(b, r) => Within(node, r)
    BY <1>3 DEF Within
  <2>2. \A x \in (N \cup {node}) \cup (B \ {b}) : \E r \in R : Within(x, r)
    BY <1>1, <2>1 DEF HeapCovers
  <2>3. \A r \in R : \A a \in Nat : r.addr <= a /\ a < r.addr + r.pages * PageSize =>
          \E x \in (N \cup {node}) \cup (B \ {b}) : x.addr <= a /\ a < x.addr + x.len
    <3> SUFFICES ASSUME NEW r \in R, NEW a \in Nat, r.addr <= a, a < r.addr + r.pages * PageSize
                 PROVE  \E x \in (N \cup {node}) \cup (B \ {b}) : x.addr <= a /\ a < x.addr + x.len
      OBVIOUS
    <3>1. PICK x \in N \cup B : x.addr <= a /\ a < x.addr + x.len
      BY <1>1 DEF HeapCovers
    <3>2. CASE x = b
      BY <1>3, <3>1, <3>2
    <3> QED
      BY <3>1, <3>2
  <2> QED
    BY <1>1, <2>2, <2>3 DEF HeapCovers
<1>8. HeapHanded(N \cup {node}, B \ {b}, H)
  <2> SUFFICES ASSUME NEW g \in H
               PROVE  (\A c \in B \ {b} : c.addr # g) <=> (\E n \in N \cup {node} : n.addr = g)
    BY DEF HeapHanded
  <2>1. (\A c \in B : c.addr # g) <=> (\E n \in N : n.addr = g)
    BY <1>1 DEF HeapHanded
  <2>2. ASSUME NEW c \in B \ {b} PROVE c.addr # b.addr
    <3>1. ApartFrom(c, b) /\ c.addr \in Nat /\ c.len \in Nat /\ c.len >= 24
      BY <1>1 DEF HeapApart, HeapTyped, Block
    <3> QED
      BY <1>2, <3>1 DEF ApartFrom, Apart
  <2> QED
    BY <1>3, <2>1, <2>2
<1> QED
  BY <1>3, <1>4, <1>5, <1>6, <1>7, <1>8 DEF HeapSound, node

-----------------------------------------------------------------------------
(* The free list as a sequence                                             *)

SeqApart(s) == \A i, j \in DOMAIN s : i # j => ApartFrom(s[i], s[j])

LEMMA ConcatRange ==
  ASSUME NEW s \in Seq(Node), NEW t \in Seq(Node)
  PROVE  s \o t \in Seq(Node) /\ Range(s \o t) = Range(s) \cup Range(t)
<1>1. /\ s \o t \in Seq(Node) /\ Len(s \o t) = Len(s) + Len(t)
      /\ \A i \in 1 .. Len(s) + Len(t) : (s \o t)[i] = IF i <= Len(s) THEN s[i] ELSE t[i - Len(s)]
  BY ConcatProperties
<1>2. /\ Len(s) \in Nat /\ Len(t) \in Nat
      /\ DOMAIN s = 1 .. Len(s) /\ DOMAIN t = 1 .. Len(t)
      /\ DOMAIN (s \o t) = 1 .. Len(s) + Len(t)
  BY <1>1
<1>3. ASSUME NEW i \in DOMAIN (s \o t) PROVE (s \o t)[i] \in Range(s) \cup Range(t)
  <2>1. CASE i <= Len(s)
    BY <1>1, <1>2, <1>3, <2>1 DEF Range
  <2>2. CASE ~ (i <= Len(s))
    <3>1. i - Len(s) \in DOMAIN t /\ (s \o t)[i] = t[i - Len(s)]
      BY <1>1, <1>2, <1>3, <2>2
    <3> QED
      BY <3>1 DEF Range
  <2> QED
    BY <2>1, <2>2
<1>4. ASSUME NEW i \in DOMAIN s PROVE s[i] \in Range(s \o t)
  <2>1. i \in DOMAIN (s \o t) /\ (s \o t)[i] = s[i]
    BY <1>1, <1>2, <1>4
  <2> QED
    BY <2>1 DEF Range
<1>5. ASSUME NEW i \in DOMAIN t PROVE t[i] \in Range(s \o t)
  <2>1. i + Len(s) \in DOMAIN (s \o t) /\ ~ (i + Len(s) <= Len(s)) /\ (i + Len(s)) - Len(s) = i
    BY <1>2, <1>5
  <2>2. (s \o t)[i + Len(s)] = t[i]
    BY <1>1, <1>2, <2>1
  <2> QED
    BY <2>1, <2>2 DEF Range
<1> QED
  BY <1>1, <1>3, <1>4, <1>5 DEF Range

LEMMA ConcatApart ==
  ASSUME NEW s \in Seq(Node), NEW t \in Seq(Node), SeqApart(s), SeqApart(t),
         \A x \in Range(s), y \in Range(t) : ApartFrom(x, y)
  PROVE  SeqApart(s \o t)
<1>1. /\ Len(s \o t) = Len(s) + Len(t) /\ s \o t \in Seq(Node)
      /\ \A i \in 1 .. Len(s) + Len(t) : (s \o t)[i] = IF i <= Len(s) THEN s[i] ELSE t[i - Len(s)]
  BY ConcatProperties
<1>2. /\ Len(s) \in Nat /\ Len(t) \in Nat
      /\ DOMAIN s = 1 .. Len(s) /\ DOMAIN t = 1 .. Len(t)
      /\ DOMAIN (s \o t) = 1 .. Len(s) + Len(t)
  BY <1>1
<1>3. \A i \in DOMAIN (s \o t) :
        \/ i \in DOMAIN s /\ (s \o t)[i] = s[i]
        \/ i - Len(s) \in DOMAIN t /\ (s \o t)[i] = t[i - Len(s)]
  <2> SUFFICES ASSUME NEW i \in DOMAIN (s \o t)
               PROVE  \/ i \in DOMAIN s /\ (s \o t)[i] = s[i]
                      \/ i - Len(s) \in DOMAIN t /\ (s \o t)[i] = t[i - Len(s)]
    OBVIOUS
  <2>1. CASE i <= Len(s)
    BY <1>1, <1>2, <2>1
  <2>2. CASE ~ (i <= Len(s))
    BY <1>1, <1>2, <2>2
  <2> QED
    BY <2>1, <2>2
<1>4. \A x \in Range(s), y \in Range(t) : ApartFrom(y, x)
  BY DEF ApartFrom, Apart
<1>5. (\A i \in DOMAIN s : s[i] \in Range(s)) /\ (\A i \in DOMAIN t : t[i] \in Range(t))
  BY DEF Range
<1> SUFFICES ASSUME NEW i \in DOMAIN (s \o t), NEW j \in DOMAIN (s \o t), i # j
             PROVE  ApartFrom((s \o t)[i], (s \o t)[j])
  BY DEF SeqApart
<1>6. i \in Nat /\ j \in Nat /\ i - Len(s) # j - Len(s)
  BY <1>2
<1> QED
  BY <1>3, <1>4, <1>5, <1>6 DEF SeqApart

\* A list is what is before a node, the node, and what is after it.
LEMMA ListAround ==
  ASSUME NEW s \in Seq(Node), NEW k \in DOMAIN s, SeqApart(s)
  PROVE  LET before == SubSeq(s, 1, k - 1)
             after == SubSeq(s, k + 1, Len(s))
         IN /\ before \in Seq(Node) /\ after \in Seq(Node)
            /\ SeqApart(before) /\ SeqApart(after)
            /\ Range(s) = (Range(before) \cup Range(after)) \cup {s[k]}
            /\ \A x \in Range(before), y \in Range(after) : ApartFrom(x, y)
            /\ \A x \in Range(before) \cup Range(after) : ApartFrom(x, s[k])
<1> DEFINE before == SubSeq(s, 1, k - 1)
           after == SubSeq(s, k + 1, Len(s))
<1>1. /\ Len(s) \in Nat /\ DOMAIN s = 1 .. Len(s) /\ k \in 1 .. Len(s)
      /\ \A i \in 1 .. Len(s) : s[i] \in Node
  OBVIOUS
<1>2. /\ before \in Seq(Node) /\ Len(before) = k - 1
      /\ \A i \in 1 .. k - 1 : before[i] = s[i]
  <2>1. \A i \in 1 .. k - 1 : s[i] \in Node
    BY <1>1
  <2>2. /\ before \in Seq(Node)
        /\ Len(before) = IF 1 <= k - 1 THEN k - 1 - 1 + 1 ELSE 0
        /\ \A i \in 1 .. k - 1 - 1 + 1 : before[i] = s[1 + i - 1]
    BY <1>1, <2>1, SubSeqProperties
  <2> HIDE DEF before
  <2> QED
    BY <1>1, <2>2
<1>3. /\ after \in Seq(Node) /\ Len(after) = Len(s) - k
      /\ \A i \in 1 .. Len(s) - k : after[i] = s[k + i]
  <2>1. \A i \in k + 1 .. Len(s) : s[i] \in Node
    BY <1>1
  <2>2. /\ after \in Seq(Node)
        /\ Len(after) = IF k + 1 <= Len(s) THEN Len(s) - (k + 1) + 1 ELSE 0
        /\ \A i \in 1 .. Len(s) - (k + 1) + 1 : after[i] = s[k + 1 + i - 1]
    BY <1>1, <2>1, SubSeqProperties
  <2> HIDE DEF after
  <2>3. \A i \in 1 .. Len(s) - k : i \in 1 .. Len(s) - (k + 1) + 1 /\ k + 1 + i - 1 = k + i
    BY <1>1
  <2> QED
    BY <1>1, <2>2, <2>3
<1> HIDE DEF before, after
<1>4. DOMAIN before = 1 .. k - 1 /\ DOMAIN after = 1 .. Len(s) - k
  BY <1>1, <1>2, <1>3
<1>5. \A i \in DOMAIN before : i \in DOMAIN s /\ i < k /\ before[i] = s[i]
  BY <1>1, <1>2, <1>4
<1>6. \A i \in DOMAIN after : k + i \in DOMAIN s /\ k + i > k /\ after[i] = s[k + i]
  BY <1>1, <1>3, <1>4
<1>7. \A x \in Range(before) : \E i \in DOMAIN s : i < k /\ x = s[i]
  BY <1>5 DEF Range
<1>8. \A x \in Range(after) : \E i \in DOMAIN s : i > k /\ x = s[i]
  BY <1>6 DEF Range
<1>9. ASSUME NEW i \in DOMAIN s, i # k PROVE s[i] \in Range(before) \cup Range(after)
  <2>1. CASE i < k
    <3>1. i \in DOMAIN before
      BY <1>1, <1>4, <2>1
    <3> QED
      BY <1>5, <3>1 DEF Range
  <2>2. CASE i > k
    <3>1. i - k \in DOMAIN after /\ k + (i - k) = i
      BY <1>1, <1>4, <2>2
    <3> QED
      BY <1>6, <3>1 DEF Range
  <2> QED
    BY <1>1, <1>9, <2>1, <2>2
<1>10. Range(s) = (Range(before) \cup Range(after)) \cup {s[k]}
  <2>1. \A x : x \in Range(s) <=> \E i \in DOMAIN s : x = s[i]
    BY DEF Range
  <2> QED
    BY <1>7, <1>8, <1>9, <2>1
<1>11. SeqApart(before)
  BY <1>5 DEF SeqApart
<1>12. SeqApart(after)
  <2> SUFFICES ASSUME NEW i \in DOMAIN after, NEW j \in DOMAIN after, i # j
               PROVE  ApartFrom(after[i], after[j])
    BY DEF SeqApart
  <2>1. k + i # k + j
    BY <1>1, <1>4
  <2> QED
    BY <1>6, <2>1 DEF SeqApart
<1>13. ASSUME NEW i \in DOMAIN s, NEW j \in DOMAIN s, i < j
       PROVE  ApartFrom(s[i], s[j]) /\ ApartFrom(s[j], s[i])
  <2>1. i # j
    BY <1>1, <1>13
  <2> QED
    BY <2>1 DEF SeqApart
<1>14. \A i, j \in DOMAIN s : i < k /\ j > k => i < j
  BY <1>1
<1> QED
  BY <1>2, <1>3, <1>7, <1>8, <1>10, <1>11, <1>12, <1>13, <1>14 DEF before, after

\* What is left of a node.
LEMMA Remains ==
  ASSUME NEW node \in Node, NEW size \in Nat, node.addr % 8 = 0, node.len % 8 = 0,
         Fits(node, size)
  PROVE  LET X == PageHead(node) \o Rest(node, size)
         IN /\ X \in Seq(Node)
            /\ Range(X) = HeadSet(node) \cup RestSet(node, size)
            /\ SeqApart(X)
<1> DEFINE h == HeadLen(node)
           b == Buffer(node, size)
<1>1. /\ h \in Nat /\ node.addr \in Nat
      /\ b \in Block /\ b.addr = node.addr + h
      /\ \A x \in HeadSet(node) : x \in Node /\ x.addr = node.addr /\ x.len = 24 /\ h = 24
      /\ \A x \in RestSet(node, size) : x \in Node /\ x.addr = b.addr + b.len
  BY CutFacts
<1>2. PageHead(node) \in Seq(Node) /\ Range(PageHead(node)) = HeadSet(node) /\ SeqApart(PageHead(node))
  <2>1. CASE node.pages # 0
    <3> DEFINE x == [node EXCEPT !.len = ListNode]
    <3>1. PageHead(node) = <<x>> /\ HeadSet(node) = {x} /\ x \in Node
      BY <1>1, <2>1 DEF PageHead, HeadSet
    <3> HIDE DEF x
    <3> QED
      BY <3>1 DEF Range, SeqApart
  <2>2. CASE node.pages = 0
    <3>1. PageHead(node) = << >> /\ HeadSet(node) = {}
      BY <2>2 DEF PageHead, HeadSet
    <3> QED
      BY <3>1 DEF Range, SeqApart
  <2> QED
    BY <2>1, <2>2
<1>3. /\ Rest(node, size) \in Seq(Node) /\ Range(Rest(node, size)) = RestSet(node, size)
      /\ SeqApart(Rest(node, size))
  <2>1. CASE IsSplit(node, size)
    <3>1. /\ Rest(node, size) = <<RestNode(node, size)>>
          /\ RestSet(node, size) = {RestNode(node, size)} /\ RestNode(node, size) \in Node
      BY <1>1, <2>1 DEF Rest, RestSet, RestNode
    <3> QED
      BY <3>1 DEF Range, SeqApart
  <2>2. CASE ~ IsSplit(node, size)
    <3>1. Rest(node, size) = << >> /\ RestSet(node, size) = {}
      BY <2>2 DEF Rest, RestSet
    <3> QED
      BY <3>1 DEF Range, SeqApart
  <2> QED
    BY <2>1, <2>2
<1>4. ASSUME NEW x \in HeadSet(node), NEW y \in RestSet(node, size) PROVE ApartFrom(x, y)
  <2>1. b.len \in Nat
    BY <1>1 DEF Block
  <2>2. x.addr + x.len <= y.addr
    <3> HIDE DEF b, h
    <3>1. x.addr = node.addr /\ x.len = 24 /\ h = 24 /\ y.addr = b.addr + b.len /\ b.addr = node.addr + h
      BY <1>1, <1>4
    <3> QED
      BY <1>1, <2>1, <3>1
  <2> QED
    BY <2>2 DEF ApartFrom, Apart
<1> QED
  BY <1>2, <1>3, <1>4, ConcatRange, ConcatApart

-----------------------------------------------------------------------------
(* The steps of sc_malloc and sc_free                                      *)

\* Every run of pages is an active region of its own.
RunsActive ==
  \A r \in runs : \E i \in DOMAIN active_regions :
    active_regions[i].vaddr = r.addr /\ active_regions[i].len = r.pages * PageSize

HeapInv ==
  /\ freeList \in Seq(Node) /\ SeqApart(freeList)
  /\ request \in Sizes \cup {NoRequest}
  /\ HeapSound(Range(freeList), blocks, runs, handed)
  /\ RunsActive

\* A buffer is cut from a node in the midst of the list.
LEMMA CutStep ==
  ASSUME NEW before \in Seq(Node), NEW after \in Seq(Node), NEW node \in Node,
         NEW size \in Nat, NEW R,
         SeqApart(before), SeqApart(after),
         \A x \in Range(before), y \in Range(after) : ApartFrom(x, y),
         \A x \in Range(before) \cup Range(after) : ApartFrom(x, node),
         HeapSound((Range(before) \cup Range(after)) \cup {node}, blocks, R, handed),
         Fits(node, size),
         Cut(before, node, after, size)
  PROVE  /\ freeList' \in Seq(Node) /\ SeqApart(freeList')
         /\ HeapSound(Range(freeList'), blocks', R, handed')
<1> DEFINE X == PageHead(node) \o Rest(node, size)
           O == Range(before) \cup Range(after)
           XS == HeadSet(node) \cup RestSet(node, size)
<1>1. node.addr % 8 = 0 /\ node.len % 8 = 0
  BY DEF HeapSound, HeapTyped
<1>2. X \in Seq(Node) /\ Range(X) = XS /\ SeqApart(X)
  BY <1>1, Remains
<1>3. /\ HeapSound(O \cup XS, blocks \cup {Buffer(node, size)}, R,
                   handed \cup {Buffer(node, size).addr})
      /\ \A x \in O, y \in XS : ApartFrom(x, y)
  <2> HIDE DEF O
  <2>1. HeapSound(O \cup {node}, blocks, R, handed) /\ \A x \in O : ApartFrom(x, node)
    BY DEF O
  <2> QED
    BY <2>1, CutSound
<1>4. /\ freeList' = (before \o X) \o after
      /\ blocks' = blocks \cup {Buffer(node, size)}
      /\ handed' = handed \cup {Buffer(node, size).addr}
  BY DEF Cut
<1> HIDE DEF X, XS
<1>5. before \o X \in Seq(Node) /\ Range(before \o X) = Range(before) \cup XS
  BY <1>2, ConcatRange
<1>6. SeqApart(before \o X)
  BY <1>2, <1>3, ConcatApart
<1>7. freeList' \in Seq(Node) /\ Range(freeList') = O \cup XS
  <2>1. freeList' \in Seq(Node) /\ Range(freeList') = (Range(before) \cup XS) \cup Range(after)
    <3>1. /\ (before \o X) \o after \in Seq(Node)
          /\ Range((before \o X) \o after) = Range(before \o X) \cup Range(after)
      BY <1>5, ConcatRange
    <3> QED
      BY <1>4, <1>5, <3>1
  <2> QED
    BY <2>1
<1>8. SeqApart(freeList')
  <2>1. \A x \in XS, y \in Range(after) : ApartFrom(x, y)
    BY <1>3 DEF ApartFrom, Apart
  <2>2. \A x \in Range(before \o X), y \in Range(after) : ApartFrom(x, y)
    BY <1>5, <2>1
  <2> QED
    BY <1>4, <1>5, <1>6, <2>2, ConcatApart
<1> QED
  BY <1>3, <1>4, <1>7, <1>8

LEMMA MallocStep ==
  ASSUME HeapInv, NEW size \in Sizes, Malloc(size)
  PROVE  HeapInv'
<1>1. PICK k \in DOMAIN freeList :
        /\ Fits(freeList[k], size)
        /\ Cut(SubSeq(freeList, 1, k - 1), freeList[k],
               SubSeq(freeList, k + 1, Len(freeList)), size)
  BY DEF Malloc, FirstFit
<1>2. /\ freeList \in Seq(Node) /\ SeqApart(freeList) /\ freeList[k] \in Node
      /\ HeapSound(Range(freeList), blocks, runs, handed) /\ size \in Nat
  BY MemoryAssumption DEF HeapInv
<1> DEFINE before == SubSeq(freeList, 1, k - 1)
           after == SubSeq(freeList, k + 1, Len(freeList))
<1>3. /\ before \in Seq(Node) /\ after \in Seq(Node)
      /\ SeqApart(before) /\ SeqApart(after)
      /\ Range(freeList) = (Range(before) \cup Range(after)) \cup {freeList[k]}
      /\ \A x \in Range(before), y \in Range(after) : ApartFrom(x, y)
      /\ \A x \in Range(before) \cup Range(after) : ApartFrom(x, freeList[k])
  BY <1>2, ListAround
<1>4. Cut(before, freeList[k], after, size)
  BY <1>1
<1> HIDE DEF before, after
<1>5. HeapSound((Range(before) \cup Range(after)) \cup {freeList[k]}, blocks, runs, handed)
  BY <1>2, <1>3
<1>6. /\ freeList' \in Seq(Node) /\ SeqApart(freeList')
      /\ HeapSound(Range(freeList'), blocks', runs, handed')
  BY <1>1, <1>2, <1>3, <1>4, <1>5, CutStep
<1>7. UNCHANGED <<request, runs, active_regions>>
  BY DEF Malloc, regions
<1> QED
  BY <1>6, <1>7 DEF HeapInv, RunsActive

LEMMA FreeStep ==
  ASSUME HeapInv, NEW block \in blocks, Free(block)
  PROVE  HeapInv'
<1> DEFINE node == [addr |-> block.addr, len |-> block.len, pages |-> 0]
<1>1. /\ freeList \in Seq(Node) /\ SeqApart(freeList)
      /\ HeapSound(Range(freeList), blocks, runs, handed)
  BY DEF HeapInv
<1>2. /\ HeapSound(Range(freeList) \cup {node}, blocks \ {block}, runs, handed)
      /\ node \in Node
      /\ \A x \in Range(freeList) : ApartFrom(node, x)
  BY <1>1, FreeSound
<1>3. /\ freeList' = <<node>> \o freeList /\ blocks' = blocks \ {block}
      /\ UNCHANGED <<request, runs, handed, active_regions>>
  BY DEF Free, regions
<1> HIDE DEF node
<1>4. <<node>> \in Seq(Node) /\ Range(<<node>>) = {node} /\ SeqApart(<<node>>)
  BY <1>2 DEF Range, SeqApart
<1>5. freeList' \in Seq(Node) /\ Range(freeList') = Range(freeList) \cup {node} /\ SeqApart(freeList')
  <2>1. freeList' \in Seq(Node) /\ Range(freeList') = {node} \cup Range(freeList)
    <3>1. /\ <<node>> \o freeList \in Seq(Node)
          /\ Range(<<node>> \o freeList) = Range(<<node>>) \cup Range(freeList)
      BY <1>1, <1>4, ConcatRange
    <3> QED
      BY <1>3, <1>4, <3>1
  <2>2. SeqApart(freeList')
    BY <1>1, <1>2, <1>3, <1>4, ConcatApart
  <2> QED
    BY <2>1, <2>2
<1> QED
  BY <1>2, <1>3, <1>5 DEF HeapInv, RunsActive

\* The active list only grows at its end.
LEMMA RunsStay ==
  ASSUME RegionType, RunsActive, runs' = runs,
         \/ active_regions' = active_regions
         \/ \E new \in Region : active_regions' = Append(active_regions, new)
  PROVE  RunsActive'
<1>1. CASE active_regions' = active_regions
  BY <1>1 DEF RunsActive
<1>2. CASE \E new \in Region : active_regions' = Append(active_regions, new)
  <2>1. PICK new \in Region : active_regions' = Append(active_regions, new)
    BY <1>2
  <2>2. \A i \in DOMAIN active_regions :
          i \in DOMAIN active_regions' /\ active_regions'[i] = active_regions[i]
    BY <2>1, AppendProperties DEF RegionType
  <2> QED
    BY <2>2 DEF RunsActive
<1> QED
  BY <1>1, <1>2

\* The new pages were reserved until now, so they are apart from all other pages.
LEMMA GrowStep ==
  ASSUME RegionInv, HeapInv, MallocGrows
  PROVE  HeapInv'
<1> DEFINE node == [addr |-> First.vaddr, len |-> GrowLen, pages |-> GrowLen \div PageSize]
           run == [addr |-> node.addr, pages |-> node.pages]
           new == [vaddr |-> First.vaddr, len |-> GrowLen, tmpfile_offset |-> tmpfile_size]
<1>1. /\ request \in Nat /\ MapRegion(GrowLen)
      /\ Cut(<< >>, node, freeList, request)
      /\ runs' = runs \cup {run} /\ request' = NoRequest
  BY MemoryAssumption DEF MallocGrows, HeapInv
<1>2. /\ GrowLen \in Nat /\ GrowLen % 8 = 0 /\ SplitSize(request) <= GrowLen
      /\ GrowLen \div PageSize \in Nat /\ (GrowLen \div PageSize) * PageSize = GrowLen
  BY <1>1, GrowFacts
<1>3. /\ First.vaddr \in Nat /\ First.len \in Nat /\ First.vaddr % 8 = 0
      /\ 1 \in DOMAIN reserved_regions
  <2>1. RegionType /\ reserved_regions # << >> /\ RegionsAligned
    BY DEF RegionInv
  <2>2. 1 \in DOMAIN reserved_regions
    BY <2>1, EmptySeq DEF RegionType
  <2> QED
    BY <2>1, <2>2, RegionFacts DEF RegionsAligned, First
<1>4. First.len > GrowLen /\ active_regions' = Append(active_regions, new)
  BY <1>1 DEF MapRegion
<1>5. /\ node \in Node /\ node.addr = First.vaddr /\ node.len = GrowLen
      /\ node.pages = GrowLen \div PageSize
  BY <1>2, <1>3 DEF Node
<1>6. node.len >= SplitSize(request) /\ node.len >= 24 /\ Fits(node, request)
  <2>1. SplitSize(request) \in Nat /\ SplitSize(request) >= 24
    <3>1. /\ AllocSize(request) \in Nat /\ 16 + request + 8 <= AllocSize(request)
          /\ SplitSize(request) = AllocSize(request) + 24
      BY <1>1, SizeFacts DEF Header, Footer
    <3> QED
      BY <1>1, <3>1
  <2> QED
    BY <1>2, <1>5, <2>1 DEF Fits
<1>7. ASSUME NEW r \in runs
      PROVE  Apart(r.addr, r.pages * PageSize, node.addr, node.len)
  <2>1. PICK i \in DOMAIN active_regions :
          active_regions[i].vaddr = r.addr /\ active_regions[i].len = r.pages * PageSize
    BY DEF HeapInv, RunsActive
  <2>2. Apart(active_regions[i].vaddr, active_regions[i].len, First.vaddr, First.len)
    BY <1>3 DEF RegionInv, RegionsApart, First
  <2>3. active_regions[i].vaddr \in Nat /\ active_regions[i].len \in Nat
    BY RegionFacts DEF RegionInv
  <2>4. GrowLen <= First.len
    <3>1. First.len > GrowLen
      BY <1>4
    <3> QED
      BY <1>2, <1>3, <3>1
  <2>5. Apart(active_regions[i].vaddr, active_regions[i].len, First.vaddr, GrowLen)
    BY <1>2, <1>3, <2>2, <2>3, <2>4, ApartParts
  <2> QED
    BY <1>5, <2>1, <2>5
<1>8. /\ freeList \in Seq(Node) /\ SeqApart(freeList)
      /\ HeapSound(Range(freeList), blocks, runs, handed)
  BY DEF HeapInv
<1>9. node.addr % 8 = 0 /\ node.len % 8 = 0 /\ node.pages * PageSize = node.len
  BY <1>2, <1>3, <1>5
<1> HIDE DEF node
<1>10. /\ HeapSound(Range(freeList) \cup {node}, blocks, runs \cup {run}, handed)
       /\ \A x \in Range(freeList) : ApartFrom(x, node)
  BY <1>5, <1>6, <1>7, <1>8, <1>9, GrowSound
<1> HIDE DEF run
<1>11. << >> \in Seq(Node) /\ Range(<< >>) = {} /\ SeqApart(<< >>)
  BY DEF Range, SeqApart
<1>12. (Range(<< >>) \cup Range(freeList)) \cup {node} = Range(freeList) \cup {node}
  BY <1>11
<1>13. /\ freeList' \in Seq(Node) /\ SeqApart(freeList')
       /\ HeapSound(Range(freeList'), blocks', runs \cup {run}, handed')
  <2>1. HeapSound((Range(<< >>) \cup Range(freeList)) \cup {node}, blocks, runs \cup {run}, handed)
    BY <1>10, <1>12
  <2>2. \A x \in Range(<< >>) \cup Range(freeList) : ApartFrom(x, node)
    BY <1>10, <1>11
  <2>3. \A x \in Range(<< >>), y \in Range(freeList) : ApartFrom(x, y)
    BY <1>11
  <2> QED
    BY <1>1, <1>5, <1>6, <1>8, <1>11, <2>1, <2>2, <2>3, CutStep
<1>14. RunsActive'
  <2>1. new \in Region
    BY <1>2, <1>3 DEF RegionInv, RegionType, Region
  <2>2. /\ \A i \in DOMAIN active_regions :
             i \in DOMAIN active_regions' /\ active_regions'[i] = active_regions[i]
        /\ Len(active_regions) + 1 \in DOMAIN active_regions'
        /\ active_regions'[Len(active_regions) + 1] = new
    <3> HIDE DEF new
    <3> QED
      BY <1>4, <2>1, AppendProperties DEF RegionInv, RegionType
  <2>3. new.vaddr = run.addr /\ new.len = run.pages * PageSize
    BY <1>5, <1>9 DEF run
  <2> HIDE DEF new
  <2> QED
    BY <1>1, <2>2, <2>3 DEF HeapInv, RunsActive
<1> QED
  BY <1>1, <1>13, <1>14 DEF HeapInv

LEMMA HeapInit ==
  ASSUME Init
  PROVE  HeapInv
<1>1. freeList = << >> /\ request = NoRequest /\ blocks = {} /\ runs = {} /\ handed = {}
  BY DEF Init
<1>2. freeList \in Seq(Node) /\ Range(freeList) = {} /\ SeqApart(freeList)
  BY <1>1 DEF Range, SeqApart
<1>3. HeapSound({}, {}, {}, {})
  BY DEF HeapSound, HeapTyped, HeapApart, HeapCovers, HeapHanded
<1> QED
  BY <1>1, <1>2, <1>3 DEF HeapInv, RunsActive

LEMMA HeapStep ==
  ASSUME RegionInv, HeapInv, [Next]_vars
  PROVE  HeapInv'
<1>0. RegionType
  BY DEF RegionInv
\* What does not touch the free list and the buffers.
<1>1. ASSUME UNCHANGED <<freeList, blocks, runs, handed>>, request' \in Sizes \cup {NoRequest},
             \/ active_regions' = active_regions
             \/ \E new \in Region : active_regions' = Append(active_regions, new)
      PROVE  HeapInv'
  <2>1. RunsActive'
    BY <1>0, <1>1, RunsStay DEF HeapInv
  <2> QED
    BY <1>1, <2>1 DEF HeapInv
<1>2. ASSUME NEW len \in Nat, MapRegion(len)
      PROVE  \E new \in Region : active_regions' = Append(active_regions, new)
  <2> DEFINE new == [vaddr |-> First.vaddr, len |-> len, tmpfile_offset |-> tmpfile_size]
  <2>1. 1 \in DOMAIN reserved_regions /\ tmpfile_size \in Nat
    BY EmptySeq DEF RegionInv, RegionType
  <2>2. First.vaddr \in Nat
    BY <1>0, <2>1, RegionFacts DEF First
  <2>3. new \in Region
    BY <2>1, <2>2 DEF Region
  <2>4. active_regions' = Append(active_regions, new)
    BY <1>2 DEF MapRegion
  <2> QED
    BY <2>3, <2>4
<1>3. ASSUME NEW len, MapRefused(len) \/ MapDies(len)
      PROVE  active_regions' = active_regions
  BY <1>3 DEF MapRefused, MapDies, regions
<1>4. request \in Sizes \cup {NoRequest}
  BY DEF HeapInv
<1>5. ASSUME NEW size \in Sizes, Malloc(size) \/ MallocSearchFails(size)
      PROVE  HeapInv'
  <2>1. CASE Malloc(size)
    BY <2>1, MallocStep
  <2>2. CASE MallocSearchFails(size)
    BY <1>1, <2>2 DEF MallocSearchFails, regions
  <2> QED
    BY <1>5, <2>1, <2>2
<1>6. CASE MallocGrows
  BY <1>6, GrowStep
<1>7. CASE MallocFails \/ MallocDies
  <2>1. active_regions' = active_regions
    BY <1>3, <1>7 DEF MallocFails, MallocDies
  <2> QED
    BY <1>1, <1>4, <1>7, <2>1 DEF MallocFails, MallocDies, malloc
<1>8. ASSUME NEW block \in blocks, Free(block)
      PROVE  HeapInv'
  BY <1>8, FreeStep
<1>9. ASSUME NEW n \in MmapPages, Mmap(n * PageSize)
      PROVE  HeapInv'
  <2>1. n * PageSize \in Nat
    BY MemoryAssumption, PagesByEight
  <2>2. \/ active_regions' = active_regions
        \/ \E new \in Region : active_regions' = Append(active_regions, new)
    BY <1>2, <1>3, <1>9, <2>1 DEF Mmap
  <2> QED
    BY <1>1, <1>4, <1>9, <2>2 DEF Mmap, malloc
<1>10. ASSUME NEW n \in NewPages, Reserve(n)
       PROVE  HeapInv'
  BY <1>1, <1>4, <1>10 DEF Reserve, malloc
<1>11. CASE UNCHANGED vars
  BY <1>1, <1>4, <1>11 DEF vars, malloc, regions
<1> QED
  BY <1>5, <1>6, <1>7, <1>8, <1>9, <1>10, <1>11 DEF Next

MemoryInv == RegionInv /\ HeapInv

LEMMA MemoryAlways == Spec => []MemoryInv
<1>1. Init => MemoryInv
  BY RegionInit, HeapInit DEF MemoryInv
<1>2. MemoryInv /\ [Next]_vars => MemoryInv'
  <2> SUFFICES ASSUME MemoryInv, [Next]_vars PROVE MemoryInv'
    OBVIOUS
  <2>1. request \in Sizes \cup {NoRequest}
    BY DEF MemoryInv, HeapInv
  <2> QED
    BY <2>1, RegionStep, HeapStep DEF MemoryInv
<1> QED
  BY <1>1, <1>2, PTL DEF Spec

-----------------------------------------------------------------------------

\* Nodes and runs as the properties speak of them.
LEMMA HeapFacts ==
  ASSUME HeapInv
  PROVE  /\ Nodes = Range(freeList)
         /\ HeapTyped(Nodes, blocks, runs, handed) /\ HeapApart(Nodes, blocks)
         /\ HeapCovers(Nodes, blocks, runs) /\ HeapHanded(Nodes, blocks, handed)
<1>1. Nodes = Range(freeList)
  BY DEF Nodes, Range
<1> QED
  BY <1>1 DEF HeapInv, HeapSound

\* The variables of sc_mmap, sc_malloc and sc_free keep their types: no length becomes
\* negative when a reserved region is consumed or a node is cut, and sc_getFreeRegion
\* never takes the last struct.
THEOREM TypeCorrect == Spec => []TypeOK
<1>1. ASSUME MemoryInv PROVE TypeOK
  <2>1. RegionType /\ HeapInv
    BY <1>1 DEF MemoryInv, RegionInv
  <2>2. (\A b \in blocks : b \in Block) /\ runs \in SUBSET Run /\ handed \in SUBSET Nat
    BY <2>1, HeapFacts DEF HeapTyped
  <2> QED
    BY <2>1, <2>2 DEF TypeOK, RegionType, HeapInv, Run
<1> QED
  BY <1>1, MemoryAlways, PTL

\* sc_mmap and the reservations keep regions apart: no address is active twice or both
\* active and reserved, no byte of the backing file is in two regions, and every active
\* region lies within the file, whatever ftruncate() calls have failed.
THEOREM RegionsApartHolds == Spec => []RegionsApart
<1>1. MemoryInv => RegionsApart
  BY DEF MemoryInv, RegionInv
<1> QED
  BY <1>1, MemoryAlways, PTL

\* sc_malloc hands out no byte twice: buffers and nodes of the free list do not overlap.
THEOREM NoOverlapHolds == Spec => []NoOverlap
<1>1. ASSUME MemoryInv PROVE NoOverlap
  <2>1. HeapInv
    BY <1>1 DEF MemoryInv
  <2>2. SeqApart(freeList) /\ HeapApart(Nodes, blocks)
    BY <2>1, HeapFacts DEF HeapInv
  <2> QED
    BY <2>2 DEF NoOverlap, SeqApart, HeapApart, ApartFrom
<1> QED
  BY <1>1, MemoryAlways, PTL

\* sc_malloc loses no byte of the pages that it gets from sc_mmap, and uses no other.
THEOREM NoLeakHolds == Spec => []NoLeak
<1>1. ASSUME MemoryInv PROVE NoLeak
  <2>1. HeapTyped(Nodes, blocks, runs, handed) /\ HeapCovers(Nodes, blocks, runs)
    BY <1>1, HeapFacts DEF MemoryInv
  <2>2. \A x \in Nodes \cup blocks : InRun(x.addr, x.len)
    BY <2>1 DEF HeapCovers, Within, InRun
  <2>3. ASSUME NEW r \in runs, NEW a \in r.addr .. r.addr + r.pages * PageSize - 1
        PROVE  \E x \in Nodes \cup blocks : a \in x.addr .. x.addr + x.len - 1
    <3>1. r.addr \in Nat /\ r.pages * PageSize \in Nat
      <4>1. r.addr \in Nat /\ r.pages \in Nat
        BY <2>1 DEF HeapTyped, Run
      <4> QED
        BY <4>1, PagesByEight
    <3>2. a \in Nat /\ r.addr <= a /\ a < r.addr + r.pages * PageSize
      BY <2>3, <3>1
    <3>3. PICK x \in Nodes \cup blocks : x.addr <= a /\ a < x.addr + x.len
      BY <2>1, <3>2 DEF HeapCovers
    <3>4. x.addr \in Nat /\ x.len \in Nat
      BY <2>1, <3>3 DEF HeapTyped, Node, Block
    <3>5. a \in x.addr .. x.addr + x.len - 1
      BY <3>2, <3>3, <3>4
    <3> QED
      BY <3>3, <3>5
  <2> QED
    BY <2>2, <2>3 DEF NoLeak
<1> QED
  BY <1>1, MemoryAlways, PTL

\* "This metadata must be preserved": however a run of pages is cut up, the list node at
\* its beginning stays on the free list with the number of the pages.
THEOREM PageHeadsKeptHolds == Spec => []PageHeadsKept
<1>1. ASSUME MemoryInv PROVE PageHeadsKept
  BY <1>1, HeapFacts DEF MemoryInv, HeapCovers, PageHeadsKept
<1> QED
  BY <1>1, MemoryAlways, PTL

\* Every buffer of sc_malloc has room for header, contents and footer, wastes less than a
\* list node and eight bytes, and can become a list node again.
THEOREM BlocksFitHolds == Spec => []BlocksFit
<1>1. ASSUME MemoryInv PROVE BlocksFit
  <2>1. HeapTyped(Nodes, blocks, runs, handed)
    BY <1>1, HeapFacts DEF MemoryInv
  <2> QED
    BY <2>1 DEF HeapTyped, Fitting, BlocksFit, ListNode
<1> QED
  BY <1>1, MemoryAlways, PTL

\* A buffer that was freed and not handed out again begins a node of the free list: a
\* second sc_free() of it is detected, however the memory around it has been cut since.
THEOREM StaleFreeDetectedHolds == Spec => []StaleFreeDetected
<1>1. ASSUME MemoryInv PROVE StaleFreeDetected
  <2>1. \A g \in handed : (\A b \in blocks : b.addr # g) <=> (\E n \in Nodes : n.addr = g)
    BY <1>1, HeapFacts DEF MemoryInv, HeapHanded
  <2> QED
    BY <2>1 DEF StaleFreeDetected
<1> QED
  BY <1>1, MemoryAlways, PTL
=============================================================================
