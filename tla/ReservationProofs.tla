-------------------------- MODULE ReservationProofs --------------------------
(***************************************************************************)
(* What the abstract specification gives its users: every member of the    *)
(* group holds every range that is available.                              *)
(***************************************************************************)
EXTENDS Reservation, TLAPS

RType ==
  /\ pending \in Nat
  /\ group \in SUBSET Procs
  /\ held \in [Procs -> SUBSET Nat]
  /\ available \in SUBSET Nat

LEMMA RTypeStep == RType /\ [RNext]_rvars => RType'
<1> SUFFICES ASSUME RType, [RNext]_rvars PROVE RType'
  OBVIOUS
<1> USE DEF RType
<1>1. CASE Publish
  BY <1>1 DEF Publish
<1>2. ASSUME NEW p \in Procs, Propose(p) PROVE RType'
  BY <1>2 DEF Propose
<1>3. ASSUME NEW p \in Procs, Accept(p) PROVE RType'
  BY <1>3 DEF Accept
<1>4. ASSUME NEW p \in Procs, Enter(p) PROVE RType'
  BY <1>4 DEF Enter
<1>5. ASSUME NEW p \in Procs, Leave(p) PROVE RType'
  BY <1>5 DEF Leave
<1>6. CASE UNCHANGED rvars
  BY <1>6 DEF rvars
<1> QED
  BY <1>1, <1>2, <1>3, <1>4, <1>5, <1>6 DEF RNext

\* No step takes a range away from a member that holds it, a range is published
\* only when all hold it, and a newcomer starts with all of them.
LEMMA AgreedStep == RType /\ Agreed /\ [RNext]_rvars => Agreed'
<1> SUFFICES ASSUME RType, Agreed, [RNext]_rvars PROVE Agreed'
  OBVIOUS
<1> USE DEF RType, Agreed
<1>1. CASE Publish
  BY <1>1 DEF Publish
<1>2. ASSUME NEW p \in Procs, Propose(p) PROVE Agreed'
  BY <1>2 DEF Propose
<1>3. ASSUME NEW p \in Procs, Accept(p) PROVE Agreed'
  BY <1>3 DEF Accept
<1>4. ASSUME NEW p \in Procs, Enter(p) PROVE Agreed'
  BY <1>4 DEF Enter
<1>5. ASSUME NEW p \in Procs, Leave(p) PROVE Agreed'
  BY <1>5 DEF Leave
<1>6. CASE UNCHANGED rvars
  BY <1>6 DEF rvars
<1> QED
  BY <1>1, <1>2, <1>3, <1>4, <1>5, <1>6 DEF RNext

\* The promise of subcontexts_control.h:88-91, "which all processes agree are not
\* in use": whatever implements Reservation has every range of reserved_regions
\* mapped in every process of the group.
THEOREM AgreedHolds == RSpec => []Agreed
<1>1. RInit => RType /\ Agreed
  BY DEF RInit, RType, Agreed
<1>2. RType /\ Agreed /\ [RNext]_rvars => (RType /\ Agreed)'
  BY RTypeStep, AgreedStep
<1> QED
  BY <1>1, <1>2, PTL DEF RSpec
=============================================================================
