-------------------------- MODULE CleanupLogProofs --------------------------
(***************************************************************************)
(* Proofs about module CleanupLog, for any finite set of processes, any of *)
(* which may join, post, be killed, lag, or meet a conflict.               *)
(***************************************************************************)
EXTENDS CleanupLog, FiniteSetTheorems, TLAPS

\* A background thread runs only in a process that has got that far in sc_join
\* and has not ended.
BgRuns(p) == bg[p] \notin {"none", "dead", "cut"}

ThreadInv ==
  \A p \in Procs : BgRuns(p) =>
    main[p] \in {"starting", "user", "grow", "ctlWait", "ctlSleep", "posted", "kill",
                 "leaving", "stuck"}

\* Who holds the root lock.
RootLockInv ==
  /\ rootEx # NoProc => rootSh = {}
  /\ \A p \in Procs : bg[p] = "haveRoot" => p \in rootSh
  /\ \A p \in Procs : bg[p] = "cleaning" => rootEx = p

\* Sequence numbers start at 1 and nobody is ahead of the log.
SeqInv ==
  /\ cleanupLog_lastSeqNum > 0
  /\ cleanupLog # << >> => cleanupLog[1].seqNum > 0
  /\ \A p \in Procs : flush[p] <= cleanupLog_lastSeqNum

\* proc_count counts.
CountInv == proc_count = Cardinality(Counted)

LockInv == TypeOK /\ CountInv /\ ThreadInv /\ RootLockInv /\ SeqInv
           /\ OneReservation /\ NoUseAfterFree /\ OneCleaner /\ OneClaim

-----------------------------------------------------------------------------
(* Lemmas about the log and about counting                                 *)

\* A log with an entry has a first step.
LEMMA FirstStep ==
  ASSUME NEW s \in Seq(Step), s # << >>
  PROVE  Len(s) \in Nat /\ Len(s) >= 1 /\ 1 \in DOMAIN s /\ s[1] \in Step
OBVIOUS

\* Changing the first step leaves a log of the same length.
LEMMA ChangeFirst ==
  ASSUME NEW s \in Seq(Step), s # << >>, NEW t \in Step
  PROVE  /\ [s EXCEPT ![1] = t] \in Seq(Step)
         /\ [s EXCEPT ![1] = t] # << >>
         /\ [s EXCEPT ![1] = t][1] = t
         /\ Len([s EXCEPT ![1] = t]) = Len(s)
OBVIOUS

\* A first step is appended to an empty log.
LEMMA AppendFirst ==
  ASSUME NEW t \in Step
  PROVE  /\ Append(<< >>, t) \in Seq(Step)
         /\ Append(<< >>, t) # << >>
         /\ Append(<< >>, t)[1] = t
         /\ Len(Append(<< >>, t)) = 1
OBVIOUS

\* The only step is taken off the log.
LEMMA TailOfOne ==
  ASSUME NEW s \in Seq(Step), s # << >>, Len(s) <= 1
  PROVE  Tail(s) = << >> /\ Tail(s) \in Seq(Step)
OBVIOUS

\* The sets of processes that are counted are finite.
LEMMA CountedFinite ==
  ASSUME NEW S \in SUBSET Procs
  PROVE  IsFiniteSet(S) /\ Cardinality(S) \in Nat
BY ProcsAssumption, FS_Subset, FS_CardinalityType

\* A process that enters adds one.
LEMMA CountAdd ==
  ASSUME NEW S \in SUBSET Procs, NEW p \in Procs, p \notin S
  PROVE  Cardinality(S \cup {p}) = Cardinality(S) + 1
BY CountedFinite, FS_AddElement

\* A process that leaves takes one away.
LEMMA CountRemove ==
  ASSUME NEW S \in SUBSET Procs, NEW p \in S
  PROVE  Cardinality(S) > 0 /\ Cardinality(S \ {p}) = Cardinality(S) - 1
<1>1. Cardinality(S \ {p}) = Cardinality(S) - 1
  BY CountedFinite, FS_RemoveElement
<1>2. Cardinality(S \ {p}) \in Nat /\ Cardinality(S) \in Nat
  BY CountedFinite
<1> QED
  BY <1>1, <1>2

-----------------------------------------------------------------------------
(* What the actions that change the log do to it                           *)

\* BgLockStep changes the lock of the first step only.
LEMMA BgLockStepLog ==
  ASSUME LockInv, NEW p \in Procs, BgLockStep(p)
  PROVE  /\ cleanupLog # << >> /\ cleanupLog' # << >>
         /\ cleanupLog' \in Seq(Step) /\ Len(cleanupLog') = Len(cleanupLog)
         /\ cleanupLog'[1].seqNum = cleanupLog[1].seqNum
         /\ cleanupLog'[1].ack_targ = cleanupLog[1].ack_targ
         /\ cleanupLog'[1].ack_count = cleanupLog[1].ack_count
         /\ cleanupLog'[1].lock = p
<1> DEFINE t == [cleanupLog[1] EXCEPT !.lock = p]
<1>1. cleanupLog \in Seq(Step) /\ cleanupLog # << >>
  BY DEF LockInv, TypeOK, NoUseAfterFree, BgLockStep
<1>2. cleanupLog[1] \in Step
  BY <1>1, FirstStep
<1>3. t \in Step
  BY <1>2 DEF Step
<1>4. cleanupLog' = [cleanupLog EXCEPT ![1] = t]
  BY DEF BgLockStep
<1>5. cleanupLog'[1] = t /\ cleanupLog' # << >> /\ cleanupLog' \in Seq(Step)
      /\ Len(cleanupLog') = Len(cleanupLog)
  BY <1>1, <1>3, <1>4, ChangeFirst
<1> QED
  BY <1>1, <1>2, <1>5 DEF Step

\* BgUnlockStep changes the lock of the first step only.
LEMMA BgUnlockStepLog ==
  ASSUME LockInv, NEW p \in Procs, BgUnlockStep(p)
  PROVE  /\ cleanupLog # << >> /\ cleanupLog' # << >>
         /\ cleanupLog' \in Seq(Step) /\ Len(cleanupLog') = Len(cleanupLog)
         /\ cleanupLog'[1].seqNum = cleanupLog[1].seqNum
         /\ cleanupLog'[1].ack_targ = cleanupLog[1].ack_targ
         /\ cleanupLog'[1].ack_count = cleanupLog[1].ack_count
         /\ cleanupLog[1].lock = p
<1> DEFINE t == [cleanupLog[1] EXCEPT !.lock = NoProc]
<1>1. cleanupLog \in Seq(Step) /\ cleanupLog # << >> /\ cleanupLog[1].lock = p
  BY DEF LockInv, TypeOK, NoUseAfterFree, HoldsStep, BgUnlockStep
<1>2. cleanupLog[1] \in Step
  BY <1>1, FirstStep
<1>3. t \in Step
  BY <1>2 DEF Step
<1>4. cleanupLog' = [cleanupLog EXCEPT ![1] = t]
  BY DEF BgUnlockStep
<1>5. cleanupLog'[1] = t /\ cleanupLog' # << >> /\ cleanupLog' \in Seq(Step)
      /\ Len(cleanupLog') = Len(cleanupLog)
  BY <1>1, <1>3, <1>4, ChangeFirst
<1> QED
  BY <1>1, <1>2, <1>5 DEF Step

\* BgAck adds one to ack_count; the step it acknowledges is the newest one.
LEMMA BgAckLog ==
  ASSUME LockInv, NEW p \in Procs, BgAck(p)
  PROVE  /\ cleanupLog # << >> /\ cleanupLog' # << >>
         /\ cleanupLog' \in Seq(Step) /\ Len(cleanupLog') = Len(cleanupLog)
         /\ cleanupLog[1].ack_targ \in Nat /\ cleanupLog[1].ack_count \in Nat
         /\ cleanupLog'[1].seqNum = cleanupLog[1].seqNum
         /\ cleanupLog'[1].ack_targ = cleanupLog[1].ack_targ
         /\ cleanupLog'[1].ack_count = cleanupLog[1].ack_count + 1
         /\ cleanupLog'[1].lock = p /\ cleanupLog[1].lock = p
         /\ cleanupLog[1].seqNum = cleanupLog_lastSeqNum
<1> DEFINE t == [cleanupLog[1] EXCEPT !.ack_count = @ + 1]
<1>1. cleanupLog \in Seq(Step) /\ cleanupLog # << >> /\ cleanupLog[1].lock = p
  BY DEF LockInv, TypeOK, NoUseAfterFree, HoldsStep, BgAck
<1>2. cleanupLog[1] \in Step
  BY <1>1, FirstStep
<1>3. t \in Step
  BY <1>2 DEF Step
<1>4. cleanupLog' = [cleanupLog EXCEPT ![1] = t]
  BY DEF BgAck
<1>5. cleanupLog'[1] = t /\ cleanupLog' # << >> /\ cleanupLog' \in Seq(Step)
      /\ Len(cleanupLog') = Len(cleanupLog)
  BY <1>1, <1>3, <1>4, ChangeFirst
<1>6. cleanupLog[1].seqNum = cleanupLog_lastSeqNum
  BY <1>1, <1>2 DEF LockInv, OneReservation, SeqInv, Step
<1> QED
  BY <1>1, <1>2, <1>5, <1>6 DEF Step

\* A step is posted only to an empty log.
LEMMA PostLog ==
  ASSUME LockInv, NEW p \in Procs, Post(p)
  PROVE  /\ cleanupLog = << >> /\ cleanupLog' # << >>
         /\ cleanupLog' \in Seq(Step) /\ Len(cleanupLog') = 1
         /\ cleanupLog'[1].seqNum = cleanupLog_lastSeqNum + 1
         /\ cleanupLog'[1].ack_targ = proc_count
         /\ cleanupLog'[1].ack_count = 1
         /\ cleanupLog'[1].lock = NoProc
<1>1. cleanupLog = << >>
  BY FirstStep DEF LockInv, TypeOK, OneReservation, SeqInv, Step, Post, CanPost
<1>2. NewStep(p) \in Step
  BY DEF NewStep, Step, LockInv, TypeOK
<1>3. cleanupLog' = Append(<< >>, NewStep(p))
  BY <1>1 DEF Post
<1>4. cleanupLog'[1] = NewStep(p) /\ cleanupLog' # << >> /\ cleanupLog' \in
   Seq(Step)
      /\ Len(cleanupLog') = 1
  BY <1>2, <1>3, AppendFirst
<1> QED
  BY <1>1, <1>4 DEF NewStep

\* The cleaner never aborts; it leaves an empty log that nobody else looks at.
LEMMA BgCleanupLog ==
  ASSUME LockInv, NEW p \in Procs, BgCleanup(p)
  PROVE  /\ CleanupIsSound /\ rootEx = p /\ rootSh = {}
         /\ cleanupLog[1].lock = NoProc
         /\ cleanupLog' = << >> /\ cleanupLog' \in Seq(Step)
         /\ pending_reservation' = 0
         /\ reserved_regions' = reserved_regions \cup {pending_reservation}
         /\ rootEx' = NoProc /\ rootSh' = {} /\ mallocLock' = mallocLock
         /\ bg' = [bg EXCEPT ![p] = "check"]
         /\ UNCHANGED <<proc_count, prealloc_proc, cleanupLog_lastSeqNum, local, main>>
<1>1. CleanupIsSound
  BY DEF LockInv, OneCleaner, Cleaner, BgCleanup
<1>2. rootEx = p /\ rootSh = {}
  BY ProcsAssumption DEF LockInv, RootLockInv, BgCleanup
<1>3. cleanupLog # << >> /\ cleanupLog \in Seq(Step) /\ Len(cleanupLog) <= 1
  BY <1>1 DEF LockInv, TypeOK, OneReservation, CleanupIsSound
<1>4. Tail(cleanupLog) = << >> /\ Tail(cleanupLog) \in Seq(Step)
  BY <1>3, TailOfOne
<1> QED
  BY <1>1, <1>2, <1>3, <1>4 DEF BgCleanup

-----------------------------------------------------------------------------
(* The inductive step, one lemma per part of the invariant                 *)

\* Types are kept; that proc_count stays a natural number rests on CountInv.
LEMMA TypeOKStep ==
  ASSUME LockInv, NEW p \in Procs, BgNext(p) \/ MainNext(p)
  PROVE TypeOK'
<1>0. TypeOK /\ CountInv /\ ThreadInv /\ RootLockInv /\ SeqInv
      /\ OneReservation /\ NoUseAfterFree /\ OneCleaner /\ OneClaim
  BY DEF LockInv
<1> USE <1>0 DEF TypeOK, MainStates, BgStates, flush, locks, root, log, local
<1>1. CASE BgFutex(p) \/ BgNothingNew(p) \/ BgConflict(p) \/ BgCleanupLock(p)
  BY <1>1 DEF BgFutex, BgNothingNew, BgConflict, BgCleanupLock, RootFree, StepIsNext
<1>2. CASE BgLockRoot(p) \/ BgStepAssertFails(p)
  BY <1>2 DEF BgLockRoot, BgStepAssertFails, Abort, EndOf, StepIsNext, StepWantsAck
<1>3. CASE BgLockStep(p)
  BY <1>3, BgLockStepLog DEF BgLockStep
<1>4. CASE BgUnlockStep(p)
  BY <1>4, BgUnlockStepLog DEF BgUnlockStep
<1>5. CASE BgAck(p)
  <2>1. cleanupLog[1].seqNum \in Nat /\ cleanupLog' \in Seq(Step)
    BY <1>5, BgAckLog
  <2>2. mapped' \in [Procs -> SUBSET Nat]
    BY <1>5, <2>1 DEF BgAck
  <2>3. local_cleanupLog_flushPoint' \in [Procs -> Nat]
    BY <1>5, SMTT(20) DEF BgAck
  <2>4. bg' \in [Procs -> BgStates]
    BY <1>5 DEF BgAck
  <2> QED
    BY <1>5, <2>1, <2>2, <2>3, <2>4 DEF BgAck
<1>6. CASE BgCleanup(p)
  <2>1. cleanupLog' \in Seq(Step) /\ pending_reservation' = 0 /\ rootEx' = NoProc /\ rootSh' = {}
        /\ UNCHANGED <<mallocLock, proc_count, prealloc_proc, cleanupLog_lastSeqNum, local, main>>
    BY <1>6, BgCleanupLog
  <2>2. bg' \in [Procs -> BgStates]
    BY <1>6, BgCleanupLog
  <2>3. reserved_regions' \in SUBSET Nat
    BY <1>6, BgCleanupLog
  <2> QED
    BY <2>1, <2>2, <2>3
<1>7. CASE CtlWait(p)
  BY <1>7 DEF CtlWait, CtlRuns
<1>8. CASE CtlFutex(p)
  BY <1>8 DEF CtlFutex
<1>9. CASE PostFails(p)
  BY <1>9 DEF PostFails, CanPost, CtlRuns
<1>10. CASE PostAlone(p) \/ PostStuck(p)
  BY <1>10 DEF PostAlone, PostStuck, Abort, CtlRuns, EndOf, RootFree
<1>11. CASE Post(p)
  <2>1. cleanupLog' \in Seq(Step)
    BY <1>11, PostLog
  <2>2. mapped' \in [Procs -> SUBSET Nat] /\ local_cleanupLog_flushPoint' \in [Procs -> Nat]
    BY <1>11 DEF Post
  <2>3. bg' \in [Procs -> BgStates]
    BY <1>11 DEF Post, Wake
  <2>4. main' \in [Procs -> MainStates]
    BY <1>11 DEF Post
  <2> QED
    BY <1>11, <2>1, <2>2, <2>3, <2>4 DEF Post
<1>12. CASE \/ KillStart(p) \/ JoinFails(p) \/ JoinDone(p)
           \/ GrowStart(p) \/ Grow(p) \/ GrowStuck(p)
  BY <1>12 DEF KillStart, JoinFails, JoinDone, GrowStart, Grow,
     GrowStuck, RootFree
<1>13. CASE KillExit(p) \/ JoinLeaks(p)
  BY <1>13 DEF KillExit, JoinLeaks, EndOf
<1>14. CASE KillLeave(p)
  <2>1. p \in Counted /\ Counted \in SUBSET Procs
    BY <1>14 DEF KillLeave, Counted, Uncounted
  <2>2. proc_count - 1 \in Nat
    BY <2>1, CountRemove, CountedFinite DEF CountInv
  <2> QED
    BY <1>14, <2>2 DEF KillLeave, EndOf
<1>15. CASE JoinClaim(p) \/ JoinStart(p)
  BY <1>15 DEF JoinClaim, JoinStart, RootFree
<1>16. CASE JoinRegister(p)
  <2>1. local_cleanupLog_flushPoint' \in [Procs -> Nat] /\ joinedAt' \in [Procs -> Nat]
    BY <1>16 DEF JoinRegister
  <2>2. main' \in [Procs -> MainStates]
    BY <1>16 DEF JoinRegister
  <2>3. proc_count' \in Nat
    BY <1>16 DEF JoinRegister
  <2>4. UNCHANGED <<locks, prealloc_proc, pending_reservation, reserved_regions, log,
                    mapped, ctlSaw, bg>>
    BY <1>16 DEF JoinRegister
  <2> QED
    BY <2>1, <2>2, <2>3, <2>4
<1> QED
  BY <1>1, <1>2, <1>3, <1>4, <1>5, <1>6, <1>7, <1>8, <1>9, <1>10, <1>11, <1>12,
     <1>13, <1>14, <1>15, <1>16 DEF BgNext, MainNext

\* proc_count follows the processes that enter and leave.
LEMMA CountInvStep ==
  ASSUME LockInv, NEW p \in Procs, BgNext(p) \/ MainNext(p)
  PROVE CountInv'
<1>0. TypeOK /\ CountInv /\ ThreadInv /\ RootLockInv /\ SeqInv
      /\ OneReservation /\ NoUseAfterFree /\ OneCleaner /\ OneClaim
  BY DEF LockInv
<1> USE <1>0 DEF TypeOK, CountInv, Counted, Uncounted, MainStates, flush, locks,
   root, log, local
<1>1. CASE BgFutex(p) \/ BgNothingNew(p) \/ BgConflict(p) \/ BgCleanupLock(p)
  BY <1>1 DEF BgFutex, BgNothingNew, BgConflict, BgCleanupLock, RootFree, StepIsNext
<1>2. CASE BgLockRoot(p)
  <2>1. Counted' = Counted
    BY <1>2 DEF BgLockRoot, Abort, ThreadInv, BgRuns
  <2> QED
    BY <1>2, <2>1 DEF BgLockRoot, Abort
<1>3. CASE BgStepAssertFails(p)
  <2>1. Counted' = Counted
    BY <1>3 DEF BgStepAssertFails, Abort, ThreadInv, BgRuns
  <2> QED
    BY <1>3, <2>1 DEF BgStepAssertFails, Abort
<1>4. CASE BgLockStep(p) \/ BgUnlockStep(p)
  BY <1>4, BgLockStepLog, BgUnlockStepLog DEF BgLockStep, BgUnlockStep
<1>5. CASE BgAck(p)
  BY <1>5, BgAckLog DEF BgAck, StepIsNext, StepWantsAck
<1>6. CASE BgCleanup(p)
  BY <1>6, BgCleanupLog DEF CleanupIsSound, BgCleanup
<1>7. CASE CtlWait(p) \/ CtlFutex(p) \/ PostFails(p)
  BY <1>7 DEF CtlWait, CtlFutex, PostFails, CanPost, CtlRuns
<1>8. CASE PostAlone(p) \/ PostStuck(p)
  BY <1>8 DEF PostAlone, PostStuck, Abort, CtlRuns, EndOf, RootFree, ThreadInv,
     BgRuns
<1>9. CASE Post(p)
  BY <1>9, PostLog DEF Post, CanPost, CtlRuns, NewStep, RootFree, Sleepers, Wake
<1>10. CASE \/ KillStart(p) \/ JoinFails(p) \/ JoinDone(p)
           \/ GrowStart(p) \/ Grow(p) \/ GrowStuck(p)
  BY <1>10 DEF KillStart, JoinFails, JoinDone, GrowStart, Grow,
     GrowStuck, RootFree
<1>11. CASE KillLeave(p)
  <2>1. p \in Counted /\ Counted \in SUBSET Procs /\ Counted' = Counted \ {p}
    BY <1>11 DEF KillLeave
  <2>2. proc_count' = proc_count - 1
    BY <1>11 DEF KillLeave
  <2> HIDE DEF Counted
  <2> QED
    BY <2>1, <2>2, CountRemove
<1>12. CASE KillExit(p)
  BY <1>12 DEF KillExit, EndOf
<1>13. CASE JoinLeaks(p)
  BY <1>13 DEF JoinLeaks, EndOf
<1>14. CASE JoinClaim(p) \/ JoinStart(p)
  BY <1>14 DEF JoinClaim, JoinStart, RootFree
<1>15. CASE JoinRegister(p)
  <2>1. p \in Procs \ Counted /\ Counted \in SUBSET Procs /\ Counted' = Counted \cup {p}
    BY <1>15 DEF JoinRegister
  <2>2. proc_count' = proc_count + 1
    BY <1>15 DEF JoinRegister
  <2> HIDE DEF Counted
  <2> QED
    BY <2>1, <2>2, CountAdd
<1> QED
  BY <1>1, <1>2, <1>3, <1>4, <1>5, <1>6, <1>7, <1>8, <1>9, <1>10, <1>11, <1>12,
     <1>13, <1>14, <1>15 DEF BgNext, MainNext

\* A background thread ends with its process.
LEMMA ThreadInvStep ==
  ASSUME LockInv, NEW p \in Procs, BgNext(p) \/ MainNext(p)
  PROVE ThreadInv'
<1>0. TypeOK /\ CountInv /\ ThreadInv /\ RootLockInv /\ SeqInv
      /\ OneReservation /\ NoUseAfterFree /\ OneCleaner /\ OneClaim
  BY DEF LockInv
<1> USE <1>0 DEF TypeOK, ThreadInv, BgRuns, MainStates, BgStates, flush, locks,
   root, log, local
<1>1. CASE BgFutex(p) \/ BgNothingNew(p) \/ BgConflict(p) \/ BgCleanupLock(p)
  BY <1>1 DEF BgFutex, BgNothingNew, BgConflict, BgCleanupLock, RootFree, StepIsNext
<1>2. CASE BgLockRoot(p) \/ BgStepAssertFails(p)
  <2>1. CASE Abort(p)
    BY <2>1 DEF Abort, EndOf
  <2>2. CASE bg' = [bg EXCEPT ![p] = "haveRoot"] /\ bg[p] = "lock" /\ main' = main
    BY <2>2
  <2> QED
    BY <1>2, <2>1, <2>2 DEF BgLockRoot, BgStepAssertFails
<1>3. CASE BgLockStep(p) \/ BgUnlockStep(p)
  <2>1. BgRuns(p) /\ main' = main /\ \A q \in Procs : q # p => bg'[q] = bg[q]
    BY <1>3 DEF BgLockStep, BgUnlockStep
  <2> QED
    BY <2>1
<1>4. CASE BgAck(p)
  BY <1>4, BgAckLog DEF BgAck, StepIsNext, StepWantsAck
<1>5. CASE BgCleanup(p)
  BY <1>5, BgCleanupLog DEF CleanupIsSound, BgCleanup
<1>6. CASE CtlWait(p) \/ CtlFutex(p) \/ PostFails(p)
  BY <1>6 DEF CtlWait, CtlFutex, PostFails, CanPost, CtlRuns
<1>7. CASE PostAlone(p) \/ PostStuck(p)
  BY <1>7 DEF PostAlone, PostStuck, Abort, CtlRuns, EndOf, RootFree, ThreadInv,
     BgRuns
<1>8. CASE Post(p)
  BY <1>8, PostLog DEF Post, CanPost, CtlRuns, NewStep, RootFree, Sleepers, Wake
<1>9. CASE \/ KillStart(p) \/ JoinFails(p) \/ JoinDone(p)
           \/ GrowStart(p) \/ Grow(p) \/ GrowStuck(p)
  BY <1>9 DEF KillStart, JoinFails, JoinDone, GrowStart, Grow,
     GrowStuck, RootFree
<1>10. CASE KillLeave(p) \/ KillExit(p) \/ JoinLeaks(p)
  BY <1>10 DEF KillLeave, KillExit, JoinLeaks, EndOf, RootFree
<1>11. CASE JoinClaim(p) \/ JoinRegister(p) \/ JoinStart(p)
  BY <1>11 DEF JoinClaim, JoinRegister, JoinStart, RootFree
<1> QED
  BY <1>1, <1>2, <1>3, <1>4, <1>5, <1>6, <1>7, <1>8, <1>9, <1>10, <1>11 DEF
     BgNext, MainNext

\* The root lock is taken and released by those who hold it.
LEMMA RootLockInvStep ==
  ASSUME LockInv, NEW p \in Procs, BgNext(p) \/ MainNext(p)
  PROVE RootLockInv'
<1>0. TypeOK /\ CountInv /\ ThreadInv /\ RootLockInv /\ SeqInv
      /\ OneReservation /\ NoUseAfterFree /\ OneCleaner /\ OneClaim
  BY DEF LockInv
<1> USE <1>0 DEF TypeOK, RootLockInv, BgStates, flush, locks, root, log, local
<1>1. CASE BgFutex(p) \/ BgNothingNew(p) \/ BgConflict(p) \/ BgCleanupLock(p)
  BY <1>1, ProcsAssumption DEF BgFutex, BgNothingNew, BgConflict, BgCleanupLock,
     RootFree, StepIsNext
<1>2. CASE BgLockRoot(p) \/ BgStepAssertFails(p)
  BY <1>2, ProcsAssumption DEF BgLockRoot, BgStepAssertFails, Abort, EndOf,
     StepIsNext, StepWantsAck
<1>3. CASE BgLockStep(p)
  BY <1>3, BgLockStepLog, ProcsAssumption DEF BgLockStep
<1>4. CASE BgUnlockStep(p)
  BY <1>4, BgUnlockStepLog, ProcsAssumption DEF BgUnlockStep
<1>5. CASE BgAck(p)
  <2>1. /\ UNCHANGED <<rootEx, rootSh>>
        /\ \A q \in Procs : bg'[q] \in {"haveRoot", "cleaning"} => bg[q] = bg'[q]
    BY <1>5 DEF BgAck
  <2> QED
    BY <2>1
<1>6. CASE BgCleanup(p)
  <2>1. rootEx' = NoProc /\ rootSh' = rootSh /\ bg' = [bg EXCEPT ![p] = "check"]
    BY <1>6, BgCleanupLog DEF BgCleanup
  <2>2. bg[p] = "cleaning" /\ rootEx = p /\ p # NoProc
    BY <1>6, ProcsAssumption DEF BgCleanup
  <2>3. ASSUME NEW q \in Procs, bg'[q] = "cleaning" PROVE FALSE
    BY <2>1, <2>2, <2>3, ProcsAssumption
  <2>4. ASSUME NEW q \in Procs, bg'[q] = "haveRoot" PROVE q \in rootSh'
    BY <2>1, <2>4
  <2> QED
    BY <2>1, <2>3, <2>4
<1>7. CASE CtlWait(p) \/ CtlFutex(p) \/ PostFails(p)
  BY <1>7, ProcsAssumption DEF CtlWait, CtlFutex, PostFails, CanPost, CtlRuns
<1>8. CASE PostAlone(p) \/ PostStuck(p)
  BY <1>8, ProcsAssumption DEF PostAlone, PostStuck, Abort, CtlRuns, EndOf, RootFree
<1>9. CASE Post(p)
  BY <1>9, PostLog, ProcsAssumption DEF Post, CanPost, CtlRuns, NewStep, RootFree,
     Sleepers, Wake
<1>10. CASE \/ KillStart(p) \/ JoinFails(p) \/ JoinDone(p)
           \/ GrowStart(p) \/ Grow(p) \/ GrowStuck(p)
  BY <1>10, ProcsAssumption DEF KillStart, JoinFails, JoinDone, GrowStart, Grow,
     GrowStuck, RootFree
<1>11. CASE KillLeave(p) \/ KillExit(p) \/ JoinLeaks(p)
  BY <1>11, ProcsAssumption DEF KillLeave, KillExit, JoinLeaks, EndOf, RootFree
<1>12. CASE JoinClaim(p) \/ JoinRegister(p) \/ JoinStart(p)
  BY <1>12, ProcsAssumption DEF JoinClaim, JoinRegister, JoinStart, RootFree
<1> QED
  BY <1>1, <1>2, <1>3, <1>4, <1>5, <1>6, <1>7, <1>8, <1>9, <1>10, <1>11, <1>12 DEF
     BgNext, MainNext

\* The flush points never pass the log.
LEMMA SeqInvStep ==
  ASSUME LockInv, NEW p \in Procs, BgNext(p) \/ MainNext(p)
  PROVE SeqInv'
<1>0. TypeOK /\ CountInv /\ ThreadInv /\ RootLockInv /\ SeqInv
      /\ OneReservation /\ NoUseAfterFree /\ OneCleaner /\ OneClaim
  BY DEF LockInv
<1> USE <1>0 DEF TypeOK, SeqInv, flush, locks, root, log, local
<1>1. CASE BgFutex(p) \/ BgNothingNew(p) \/ BgConflict(p) \/ BgCleanupLock(p)
  BY <1>1 DEF BgFutex, BgNothingNew, BgConflict, BgCleanupLock, RootFree, StepIsNext
<1>2. CASE BgLockRoot(p) \/ BgStepAssertFails(p)
  BY <1>2 DEF BgLockRoot, BgStepAssertFails, Abort, EndOf, StepIsNext, StepWantsAck
<1>3. CASE BgLockStep(p)
  BY <1>3, BgLockStepLog DEF BgLockStep
<1>4. CASE BgUnlockStep(p)
  BY <1>4, BgUnlockStepLog DEF BgUnlockStep
<1>5. CASE BgAck(p)
  <2>1. flush[p] + 1 = cleanupLog_lastSeqNum /\ cleanupLog'[1].seqNum = cleanupLog_lastSeqNum
    BY <1>5, BgAckLog DEF BgAck, StepIsNext
  <2>2. \A q \in Procs : local_cleanupLog_flushPoint'[q] =
          IF q = p THEN flush[p] + 1 ELSE flush[q]
    BY <1>5 DEF BgAck
  <2> QED
    BY <1>5, <2>1, <2>2 DEF BgAck
<1>6. CASE BgCleanup(p)
  <2>1. cleanupLog' = << >> /\ UNCHANGED <<cleanupLog_lastSeqNum, local>>
    BY <1>6, BgCleanupLog
  <2> QED
    BY <2>1
<1>7. CASE CtlWait(p) \/ CtlFutex(p) \/ PostFails(p)
  BY <1>7 DEF CtlWait, CtlFutex, PostFails, CanPost, CtlRuns
<1>8. CASE PostAlone(p) \/ PostStuck(p)
  BY <1>8 DEF PostAlone, PostStuck, Abort, CtlRuns, EndOf, RootFree
<1>9. CASE Post(p)
  BY <1>9, PostLog DEF Post, CanPost, CtlRuns, NewStep, RootFree, Sleepers, Wake
<1>10. CASE \/ KillStart(p) \/ JoinFails(p) \/ JoinDone(p)
           \/ GrowStart(p) \/ Grow(p) \/ GrowStuck(p)
  BY <1>10 DEF KillStart, JoinFails, JoinDone, GrowStart, Grow,
     GrowStuck, RootFree
<1>11. CASE KillLeave(p) \/ KillExit(p) \/ JoinLeaks(p)
  BY <1>11 DEF KillLeave, KillExit, JoinLeaks, EndOf, RootFree
<1>12. CASE JoinClaim(p) \/ JoinStart(p)
  BY <1>12 DEF JoinClaim, JoinStart, RootFree
<1>13. CASE JoinRegister(p)
  <2>1. \A q \in Procs : local_cleanupLog_flushPoint'[q] \in {flush[q], cleanupLog_lastSeqNum}
    BY <1>13 DEF JoinRegister
  <2>2. UNCHANGED <<cleanupLog, cleanupLog_lastSeqNum>>
    BY <1>13 DEF JoinRegister
  <2>3. \A q \in Procs : flush[q] <= cleanupLog_lastSeqNum
    OBVIOUS
  <2>4. cleanupLog_lastSeqNum <= cleanupLog_lastSeqNum
    OBVIOUS
  <2>5. \A q \in Procs : local_cleanupLog_flushPoint'[q] <= cleanupLog_lastSeqNum
    <3> HIDE <1>0
    <3> QED
      BY <2>1, <2>3, <2>4
  <2> QED
    BY <2>2, <2>5
<1> QED
  BY <1>1, <1>2, <1>3, <1>4, <1>5, <1>6, <1>7, <1>8, <1>9, <1>10, <1>11, <1>12,
     <1>13 DEF BgNext, MainNext

\* A step is posted only when none is pending, and both go at once.
LEMMA OneReservationStep ==
  ASSUME LockInv, NEW p \in Procs, BgNext(p) \/ MainNext(p)
  PROVE OneReservation'
<1>0. TypeOK /\ CountInv /\ ThreadInv /\ RootLockInv /\ SeqInv
      /\ OneReservation /\ NoUseAfterFree /\ OneCleaner /\ OneClaim
  BY DEF LockInv
<1> USE <1>0 DEF TypeOK, OneReservation, flush, locks, root, log, local
<1>1. CASE BgFutex(p) \/ BgNothingNew(p) \/ BgConflict(p) \/ BgCleanupLock(p)
  BY <1>1 DEF BgFutex, BgNothingNew, BgConflict, BgCleanupLock, RootFree, StepIsNext
<1>2. CASE BgLockRoot(p) \/ BgStepAssertFails(p)
  BY <1>2 DEF BgLockRoot, BgStepAssertFails, Abort, EndOf, StepIsNext, StepWantsAck
<1>3. CASE BgLockStep(p)
  BY <1>3, BgLockStepLog DEF BgLockStep
<1>4. CASE BgUnlockStep(p)
  BY <1>4, BgUnlockStepLog DEF BgUnlockStep
<1>5. CASE BgAck(p)
  BY <1>5, BgAckLog DEF BgAck, StepIsNext, StepWantsAck
<1>6. CASE BgCleanup(p)
  BY <1>6, BgCleanupLog DEF CleanupIsSound, BgCleanup
<1>7. CASE CtlWait(p) \/ CtlFutex(p) \/ PostFails(p)
  BY <1>7 DEF CtlWait, CtlFutex, PostFails, CanPost, CtlRuns
<1>8. CASE PostAlone(p) \/ PostStuck(p)
  BY <1>8 DEF PostAlone, PostStuck, Abort, CtlRuns, EndOf, RootFree
<1>9. CASE Post(p)
  <2>1. Len(cleanupLog') = 1 /\ cleanupLog' # << >>
        /\ cleanupLog'[1].seqNum = cleanupLog_lastSeqNum + 1
    BY <1>9, PostLog
  <2> QED
    BY <1>9, <2>1 DEF Post
<1>10. CASE \/ KillStart(p) \/ JoinFails(p) \/ JoinDone(p)
           \/ GrowStart(p) \/ Grow(p) \/ GrowStuck(p)
  BY <1>10 DEF KillStart, JoinFails, JoinDone, GrowStart, Grow,
     GrowStuck, RootFree
<1>11. CASE KillLeave(p) \/ KillExit(p) \/ JoinLeaks(p)
  BY <1>11 DEF KillLeave, KillExit, JoinLeaks, EndOf, RootFree
<1>12. CASE JoinClaim(p) \/ JoinRegister(p) \/ JoinStart(p)
  BY <1>12 DEF JoinClaim, JoinRegister, JoinStart, RootFree
<1> QED
  BY <1>1, <1>2, <1>3, <1>4, <1>5, <1>6, <1>7, <1>8, <1>9, <1>10, <1>11, <1>12 DEF
     BgNext, MainNext

\* The cleaner frees the step only when nobody waits for it or holds it.
LEMMA NoUseAfterFreeStep ==
  ASSUME LockInv, NEW p \in Procs, BgNext(p) \/ MainNext(p)
  PROVE NoUseAfterFree'
<1>0. TypeOK /\ CountInv /\ ThreadInv /\ RootLockInv /\ SeqInv
      /\ OneReservation /\ NoUseAfterFree /\ OneCleaner /\ OneClaim
  BY DEF LockInv
<1> USE <1>0 DEF TypeOK, NoUseAfterFree, HoldsStep, BgStates, RootLockInv, flush,
   locks, root, log, local
<1>1. CASE BgFutex(p) \/ BgNothingNew(p) \/ BgConflict(p) \/ BgCleanupLock(p)
  BY <1>1, ProcsAssumption, SMTT(20) DEF BgFutex, BgNothingNew, BgConflict, BgCleanupLock,
     RootFree, StepIsNext
<1>2. CASE BgLockRoot(p) \/ BgStepAssertFails(p)
  BY <1>2, ProcsAssumption, SMTT(20) DEF BgLockRoot, BgStepAssertFails, Abort, EndOf,
     StepIsNext, StepWantsAck
<1>3. CASE BgLockStep(p)
  BY <1>3, BgLockStepLog, ProcsAssumption DEF BgLockStep
<1>4. CASE BgUnlockStep(p)
  BY <1>4, BgUnlockStepLog, ProcsAssumption DEF BgUnlockStep
<1>5. CASE BgAck(p)
  BY <1>5, BgAckLog, ProcsAssumption DEF BgAck, StepIsNext, StepWantsAck
<1>6. CASE BgCleanup(p)
  <2>1. cleanupLog[1].lock = NoProc /\ rootSh = {} /\ bg' = [bg EXCEPT ![p] = "check"]
    BY <1>6, BgCleanupLog
  <2>2. \A q \in Procs : bg[q] # "haveRoot" /\ ~ HoldsStep(q)
    BY <2>1, ProcsAssumption
  <2> QED
    BY <2>1, <2>2
<1>7. CASE CtlWait(p) \/ CtlFutex(p) \/ PostFails(p)
  BY <1>7, ProcsAssumption DEF CtlWait, CtlFutex, PostFails, CanPost, CtlRuns
<1>8. CASE PostAlone(p) \/ PostStuck(p)
  BY <1>8, ProcsAssumption DEF PostAlone, PostStuck, Abort, CtlRuns, EndOf, RootFree
<1>9. CASE Post(p)
  BY <1>9, PostLog, ProcsAssumption DEF Post, CanPost, CtlRuns, NewStep, RootFree,
     Sleepers, Wake
<1>10. CASE \/ KillStart(p) \/ JoinFails(p) \/ JoinDone(p)
           \/ GrowStart(p) \/ Grow(p) \/ GrowStuck(p)
  BY <1>10, ProcsAssumption DEF KillStart, JoinFails, JoinDone, GrowStart, Grow,
     GrowStuck, RootFree
<1>11. CASE KillLeave(p) \/ KillExit(p) \/ JoinLeaks(p)
  BY <1>11, ProcsAssumption DEF KillLeave, KillExit, JoinLeaks, EndOf, RootFree
<1>12. CASE JoinClaim(p) \/ JoinRegister(p) \/ JoinStart(p)
  BY <1>12, ProcsAssumption DEF JoinClaim, JoinRegister, JoinStart, RootFree
<1> QED
  BY <1>1, <1>2, <1>3, <1>4, <1>5, <1>6, <1>7, <1>8, <1>9, <1>10, <1>11, <1>12 DEF
     BgNext, MainNext

\* Only the thread that brings ack_count to ack_targ becomes the cleaner.
LEMMA OneCleanerStep ==
  ASSUME LockInv, NEW p \in Procs, BgNext(p) \/ MainNext(p)
  PROVE OneCleaner'
<1>0. TypeOK /\ CountInv /\ ThreadInv /\ RootLockInv /\ SeqInv
      /\ OneReservation /\ NoUseAfterFree /\ OneCleaner /\ OneClaim
  BY DEF LockInv
<1> USE <1>0 DEF TypeOK, OneCleaner, Cleaner, CleanupIsSound, BgStates, flush,
   locks, root, log, local
<1>a. ASSUME UNCHANGED <<cleanupLog, pending_reservation>>,
             \A q \in Procs : Cleaner(q)' => Cleaner(q)
      PROVE  OneCleaner'
  BY <1>a
<1>1. CASE BgFutex(p) \/ BgNothingNew(p) \/ BgConflict(p)
  <2>1. /\ UNCHANGED <<cleanupLog, pending_reservation>>
        /\ \A q \in Procs : Cleaner(q)' => Cleaner(q)
    BY <1>1 DEF BgFutex, BgNothingNew, BgConflict
  <2> QED
    BY <1>a, <2>1
<1>2. CASE BgCleanupLock(p)
  BY <1>2 DEF BgCleanupLock, RootFree
<1>3. CASE BgLockRoot(p) \/ BgStepAssertFails(p)
  <2>1. CASE Abort(p)
    <3>1. /\ UNCHANGED <<cleanupLog, pending_reservation>>
          /\ \A q \in Procs : Cleaner(q)' => Cleaner(q)
      BY <2>1 DEF Abort, EndOf
    <3> QED
      BY <1>a, <3>1
  <2>2. CASE bg' = [bg EXCEPT ![p] = "haveRoot"] /\ UNCHANGED <<root, log>>
    <3>1. \A q \in Procs : Cleaner(q)' => Cleaner(q)
      BY <2>2
    <3> QED
      BY <1>a, <2>2, <3>1
  <2> QED
    BY <1>3, <2>1, <2>2 DEF BgLockRoot, BgStepAssertFails
<1>4. CASE BgLockStep(p)
  BY <1>4, BgLockStepLog DEF BgLockStep
<1>5. CASE BgUnlockStep(p)
  BY <1>5, BgUnlockStepLog DEF BgUnlockStep
<1>6. CASE BgAck(p)
  <2>0. /\ cleanupLog[1].ack_count < cleanupLog[1].ack_targ
        /\ cleanupLog[1].ack_count \in Nat /\ cleanupLog[1].ack_targ \in Nat
    BY <1>6, BgAckLog DEF BgAck, StepWantsAck
  <2>1. \A q \in Procs : ~ Cleaner(q)
    BY <2>0, SMTT(20)
  <2>2. \A q \in Procs : Cleaner(q)' => q = p /\ cleanupLog[1].ack_count + 1 = cleanupLog[1].ack_targ
    BY <1>6, <2>1 DEF BgAck
  <2>3. pending_reservation' = cleanupLog'[1].seqNum
    BY <1>6, BgAckLog DEF BgAck, OneReservation
  <2> QED
    BY <1>6, <2>2, <2>3, BgAckLog
<1>7. CASE BgCleanup(p)
  <2>1. Cleaner(p) /\ bg' = [bg EXCEPT ![p] = "check"]
    BY <1>7, BgCleanupLog DEF BgCleanup
  <2>2. \A q \in Procs : ~ Cleaner(q)'
    BY <2>1
  <2> QED
    BY <2>2
<1>8. CASE CtlWait(p) \/ CtlFutex(p) \/ PostFails(p)
  BY <1>8 DEF CtlWait, CtlFutex, PostFails, CanPost, CtlRuns
<1>9. CASE PostAlone(p) \/ PostStuck(p)
  BY <1>9 DEF PostAlone, PostStuck, Abort, CtlRuns, EndOf, RootFree
<1>10. CASE Post(p)
  BY <1>10, PostLog DEF Post, CanPost, CtlRuns, NewStep, RootFree, Sleepers, Wake
<1>11. CASE \/ KillStart(p) \/ JoinFails(p) \/ JoinDone(p)
           \/ GrowStart(p) \/ Grow(p) \/ GrowStuck(p)
  BY <1>11 DEF KillStart, JoinFails, JoinDone, GrowStart, Grow,
     GrowStuck, RootFree
<1>12. CASE KillExit(p)
  BY <1>12 DEF KillExit, EndOf
<1>13. CASE KillLeave(p)
  BY <1>13 DEF KillLeave, EndOf, RootFree
<1>14. CASE JoinLeaks(p)
  BY <1>14 DEF JoinLeaks, EndOf
<1>15. CASE JoinClaim(p) \/ JoinRegister(p) \/ JoinStart(p)
  BY <1>15, SMTT(20) DEF JoinClaim, JoinRegister, JoinStart, RootFree
<1> QED
  BY <1>1, <1>2, <1>3, <1>4, <1>5, <1>6, <1>7, <1>8, <1>9, <1>10, <1>11, <1>12,
     <1>13, <1>14, <1>15 DEF BgNext, MainNext

\* prealloc_proc is claimed by one process at a time.
LEMMA OneClaimStep ==
  ASSUME LockInv, NEW p \in Procs, BgNext(p) \/ MainNext(p)
  PROVE OneClaim'
<1>0. TypeOK /\ CountInv /\ ThreadInv /\ RootLockInv /\ SeqInv
      /\ OneReservation /\ NoUseAfterFree /\ OneCleaner /\ OneClaim
  BY DEF LockInv
<1> USE <1>0 DEF TypeOK, OneClaim, Claims, MainStates, flush, locks, root, log,
   local
<1>1. CASE BgFutex(p) \/ BgNothingNew(p) \/ BgConflict(p) \/ BgCleanupLock(p)
  BY <1>1 DEF BgFutex, BgNothingNew, BgConflict, BgCleanupLock, RootFree, StepIsNext
<1>2. CASE BgLockRoot(p) \/ BgStepAssertFails(p)
  BY <1>2 DEF BgLockRoot, BgStepAssertFails, Abort, EndOf, StepIsNext, StepWantsAck
<1>3. CASE BgLockStep(p) \/ BgUnlockStep(p)
  BY <1>3, BgLockStepLog, BgUnlockStepLog DEF BgLockStep, BgUnlockStep
<1>4. CASE BgAck(p)
  BY <1>4, BgAckLog DEF BgAck, StepIsNext, StepWantsAck
<1>5. CASE BgCleanup(p)
  BY <1>5, BgCleanupLog DEF CleanupIsSound, BgCleanup
<1>6. CASE CtlWait(p) \/ CtlFutex(p) \/ PostFails(p)
  BY <1>6 DEF CtlWait, CtlFutex, PostFails, CanPost, CtlRuns
<1>7. CASE PostAlone(p) \/ PostStuck(p)
  BY <1>7 DEF PostAlone, PostStuck, Abort, CtlRuns, EndOf, RootFree
<1>8. CASE Post(p)
  BY <1>8, PostLog DEF Post, CanPost, CtlRuns, NewStep, RootFree, Sleepers, Wake
<1>9. CASE \/ KillStart(p) \/ JoinFails(p) \/ JoinDone(p)
           \/ GrowStart(p) \/ Grow(p) \/ GrowStuck(p)
  BY <1>9 DEF KillStart, JoinFails, JoinDone, GrowStart, Grow,
     GrowStuck, RootFree
<1>10. CASE KillExit(p)
  BY <1>10 DEF KillExit, EndOf
<1>11. CASE KillLeave(p)
  BY <1>11 DEF KillLeave, EndOf, RootFree
<1>12. CASE JoinLeaks(p)
  BY <1>12 DEF JoinLeaks, EndOf
<1>13. CASE JoinClaim(p) \/ JoinRegister(p) \/ JoinStart(p)
  BY <1>13 DEF JoinClaim, JoinRegister, JoinStart, RootFree
<1> QED
  BY <1>1, <1>2, <1>3, <1>4, <1>5, <1>6, <1>7, <1>8, <1>9, <1>10, <1>11, <1>12,
     <1>13 DEF BgNext, MainNext

\* The invariant holds at the start.
LEMMA LockInvInit == Init => LockInv
<1> SUFFICES ASSUME Init PROVE LockInv
  OBVIOUS
<1>1. Counted = Founders
  BY ProcsAssumption DEF Init, Counted, Uncounted
<1>2. proc_count = Cardinality(Counted) /\ proc_count \in Nat
  BY <1>1, ProcsAssumption, CountedFinite DEF Init
<1>3. TypeOK
  BY <1>2, ProcsAssumption DEF Init, TypeOK, MainStates, BgStates
<1>4. ThreadInv /\ RootLockInv /\ NoUseAfterFree /\ OneCleaner
  BY DEF Init, ThreadInv, BgRuns, RootLockInv, NoUseAfterFree, HoldsStep, OneCleaner, Cleaner
<1>5. SeqInv /\ OneReservation /\ OneClaim
  BY DEF Init, SeqInv, flush, OneReservation, OneClaim, Claims
<1> QED
  BY <1>2, <1>3, <1>4, <1>5 DEF LockInv, CountInv

\* Every step keeps the invariant.
LEMMA LockInvNext == LockInv /\ [Next]_vars => LockInv'
<1> SUFFICES ASSUME LockInv, [Next]_vars PROVE LockInv'
  OBVIOUS
<1>1. CASE Next
  <2>1. PICK p \in Procs : BgNext(p) \/ MainNext(p)
    BY <1>1 DEF Next
  <2> QED
    BY <2>1, TypeOKStep, CountInvStep, ThreadInvStep, RootLockInvStep, SeqInvStep,
       OneReservationStep, NoUseAfterFreeStep, OneCleanerStep, OneClaimStep DEF LockInv
<1>2. CASE UNCHANGED vars
  BY <1>2 DEF vars, locks, root, log, local, LockInv, TypeOK, CountInv, Counted, ThreadInv,
     BgRuns, RootLockInv, SeqInv, flush, OneReservation, NoUseAfterFree, HoldsStep,
     OneCleaner, Cleaner, CleanupIsSound, OneClaim, Claims
<1> QED
  BY <1>1, <1>2

\* The invariant holds always.
LEMMA LockInvAlways == Spec => []LockInv
BY LockInvInit, LockInvNext, PTL DEF Spec

-----------------------------------------------------------------------------
(* The theorems that need nothing else                                     *)

\* The state of the subcontext and of its processes is well typed; in particular
\* proc_count never drops below zero, whoever leaves or fails.
THEOREM TypeCorrect == Spec => []TypeOK
<1>1. LockInv => TypeOK
  BY DEF LockInv
<1> QED
  BY <1>1, LockInvAlways, PTL

\* The log never has two steps, and pending_reservation names the one it has.
THEOREM OneReservationHolds == Spec => []OneReservation
<1>1. LockInv => OneReservation
  BY DEF LockInv
<1> QED
  BY <1>1, LockInvAlways, PTL

\* A step is never freed while a background thread waits for it or holds it.
THEOREM NoUseAfterFreeHolds == Spec => []NoUseAfterFree
<1>1. LockInv => NoUseAfterFree
  BY DEF LockInv
<1> QED
  BY <1>1, LockInvAlways, PTL

\* At most one thread cleans up, and what it asserts is true.
THEOREM OneCleanerHolds == Spec => []OneCleaner
<1>1. LockInv => OneCleaner
  BY DEF LockInv
<1> QED
  BY <1>1, LockInvAlways, PTL

\* No two joiners claim the same sc_process.
THEOREM OneClaimHolds == Spec => []OneClaim
<1>1. LockInv => OneClaim
  BY DEF LockInv
<1> QED
  BY <1>1, LockInvAlways, PTL

-----------------------------------------------------------------------------
(* Acknowledgements: nobody waits for a process that has left (always),    *)
(* and nobody publishes a range that a member has not mapped (if a process *)
(* that leaves the group ends at once).  Both count processes.             *)

\* The processes that the group counts and that have not flushed the step.
Owed == {q \in Counted : flush[q] < cleanupLog[1].seqNum}

\* A larger set of processes has at least as many.
LEMMA CountSubset ==
  ASSUME NEW T \in SUBSET Procs, NEW S \in SUBSET T
  PROVE  Cardinality(S) <= Cardinality(T)
BY CountedFinite, FS_Subset

\* Every step keeps the acknowledgements that are missing within those owed.
LEMMA NoLostAckStep ==
  ASSUME LockInv, NoLostAck, NEW p \in Procs, BgNext(p) \/ MainNext(p)
  PROVE  NoLostAck'
<1>0. TypeOK /\ CountInv /\ ThreadInv /\ SeqInv /\ OneReservation
  BY DEF LockInv
<1>a. NoLostAck <=> (cleanupLog # << >> =>
        cleanupLog[1].ack_targ - cleanupLog[1].ack_count <= Cardinality(Owed))
  BY DEF NoLostAck, Owed
<1>b. NoLostAck' <=> (cleanupLog' # << >> =>
        cleanupLog'[1].ack_targ - cleanupLog'[1].ack_count <= Cardinality(Owed'))
  BY DEF NoLostAck, Owed
<1>c. Owed \in SUBSET Procs /\ Owed' \in SUBSET Procs
  BY DEF Owed, Counted
\* Steps that change neither who is counted nor the log.
<1>1. CASE \/ BgFutex(p) \/ BgNothingNew(p) \/ BgConflict(p) \/ BgCleanupLock(p)
           \/ CtlWait(p) \/ CtlFutex(p) \/ PostFails(p) \/ PostStuck(p)
           \/ KillStart(p) \/ JoinStart(p) \/ JoinDone(p)
           \/ GrowStart(p) \/ Grow(p) \/ GrowStuck(p)
  <2>1. cleanupLog' = cleanupLog /\ flush' = flush
    BY <1>1 DEF BgFutex, BgNothingNew, BgConflict, BgCleanupLock, CtlWait, CtlFutex,
       PostFails, PostStuck, KillStart, JoinStart, JoinDone, GrowStart, Grow, GrowStuck,
       flush, log, local
  <2>2. Counted' = Counted
    BY <1>0, <1>1 DEF BgFutex, BgNothingNew, BgConflict, BgCleanupLock, CtlWait, CtlFutex,
       PostFails, CanPost, CtlRuns, PostStuck, KillStart, JoinStart, JoinDone,
       GrowStart, Grow, GrowStuck, Counted,
       Uncounted, TypeOK
  <2>3. Owed' = Owed
    BY <2>1, <2>2 DEF Owed, flush
  <2> QED
    BY <1>a, <1>b, <2>1, <2>3
<1>2. CASE BgLockRoot(p) \/ BgStepAssertFails(p) \/ PostAlone(p)
  <2>1. cleanupLog' = cleanupLog /\ flush' = flush
    BY <1>2 DEF BgLockRoot, BgStepAssertFails, PostAlone, Abort, flush, log, local
  <2>2. Counted' = Counted
    BY <1>0, <1>2 DEF BgLockRoot, BgStepAssertFails, PostAlone, CtlRuns, Abort, Counted,
       Uncounted, TypeOK, ThreadInv, BgRuns
  <2>3. Owed' = Owed
    BY <2>1, <2>2 DEF Owed, flush
  <2> QED
    BY <1>a, <1>b, <2>1, <2>3
<1>3. CASE KillExit(p) \/ JoinClaim(p) \/ JoinFails(p) \/ JoinLeaks(p)
  <2>1. cleanupLog' = cleanupLog /\ flush' = flush
    BY <1>3 DEF KillExit, JoinClaim, JoinFails, JoinLeaks, flush, log, local
  <2>2. Counted' = Counted
    BY <1>0, <1>3 DEF KillExit, JoinClaim, JoinFails, JoinLeaks, Counted, Uncounted, TypeOK
  <2>3. Owed' = Owed
    BY <2>1, <2>2 DEF Owed, flush
  <2> QED
    BY <1>a, <1>b, <2>1, <2>3
<1>4. CASE BgLockStep(p) \/ BgUnlockStep(p)
  <2>1. /\ cleanupLog # << >>
        /\ cleanupLog'[1].seqNum = cleanupLog[1].seqNum
        /\ cleanupLog'[1].ack_targ = cleanupLog[1].ack_targ
        /\ cleanupLog'[1].ack_count = cleanupLog[1].ack_count
    BY <1>4, BgLockStepLog, BgUnlockStepLog
  <2>2. main' = main /\ flush' = flush
    BY <1>4 DEF BgLockStep, BgUnlockStep, flush, local
  <2>3. Owed' = Owed
    BY <2>1, <2>2 DEF Owed, Counted, flush
  <2> QED
    BY <1>a, <1>b, <2>1, <2>3
\* An acknowledgement takes its process off those that owe one.
<1>5. CASE BgAck(p)
  <2>1. /\ cleanupLog # << >>
        /\ cleanupLog[1].ack_targ \in Nat /\ cleanupLog[1].ack_count \in Nat
        /\ cleanupLog'[1].seqNum = cleanupLog[1].seqNum
        /\ cleanupLog'[1].ack_targ = cleanupLog[1].ack_targ
        /\ cleanupLog'[1].ack_count = cleanupLog[1].ack_count + 1
    BY <1>5, BgAckLog
  <2>2. Counted' = Counted /\ \A q \in Procs \ {p} : flush'[q] = flush[q]
    BY <1>0, <1>5 DEF BgAck, Counted, TypeOK, flush
  <2>3. Owed \ {p} \subseteq Owed'
    BY <2>1, <2>2 DEF Owed, Counted, flush
  <2>4. Cardinality(Owed \ {p}) <= Cardinality(Owed')
    BY <2>3, <1>c, CountSubset
  <2>5. Cardinality(Owed) - 1 <= Cardinality(Owed \ {p})
    <3>1. CASE p \in Owed
      BY <3>1, <1>c, CountRemove, CountedFinite
    <3>2. CASE p \notin Owed
      <4>1. Owed \ {p} = Owed
        BY <3>2
      <4> QED
        BY <4>1, <1>c, CountedFinite
    <3> QED
      BY <3>1, <3>2
  <2>6. Cardinality(Owed) \in Nat /\ Cardinality(Owed') \in Nat /\ Cardinality(Owed \ {p}) \in Nat
    BY <1>c, CountedFinite
  <2> QED
    BY <1>a, <1>b, <2>1, <2>4, <2>5, <2>6
<1>6. CASE BgCleanup(p)
  BY <1>6, <1>b, BgCleanupLog
\* A new step is owed by everybody but its poster.
<1>7. CASE Post(p)
  <2>1. /\ cleanupLog'[1].seqNum = cleanupLog_lastSeqNum + 1
        /\ cleanupLog'[1].ack_targ = proc_count
        /\ cleanupLog'[1].ack_count = 1
    BY <1>7, PostLog
  <2>2. p \in Counted /\ Counted' = Counted /\ \A q \in Procs \ {p} : flush'[q] = flush[q]
    BY <1>0, <1>7 DEF Post, CanPost, CtlRuns, Counted, Uncounted, TypeOK, flush
  <2>3. \A q \in Procs : flush[q] < cleanupLog_lastSeqNum + 1
    BY <1>0 DEF SeqInv, TypeOK, flush
  <2>4. Counted \in SUBSET Procs
    BY DEF Counted
  <2>5. Counted \ {p} \subseteq Owed'
    BY <2>1, <2>2, <2>3, <2>4 DEF Owed, flush
  <2>6. Cardinality(Counted \ {p}) = proc_count - 1
    BY <2>2, <2>4, <1>0, CountRemove DEF CountInv
  <2>7. Cardinality(Counted \ {p}) <= Cardinality(Owed')
    BY <2>5, <1>c, CountSubset
  <2> QED
    BY <1>b, <2>1, <2>6, <2>7
\* A process leaves when it owes nothing.
<1>8. CASE KillLeave(p)
  <2>1. cleanupLog' = cleanupLog /\ flush' = flush /\ flush[p] = cleanupLog_lastSeqNum
    BY <1>8 DEF KillLeave, flush, log, local
  <2>2. Counted \ {p} \subseteq Counted'
    BY <1>0, <1>8 DEF KillLeave, Counted, Uncounted, TypeOK
  <2>3. cleanupLog # << >> => ~ (flush[p] < cleanupLog[1].seqNum)
    BY <1>0, <2>1, FirstStep DEF OneReservation, SeqInv, TypeOK, Step
  <2>4. cleanupLog # << >> => Owed \subseteq Owed'
    BY <2>1, <2>2, <2>3 DEF Owed, flush
  <2>5. cleanupLog # << >> => Cardinality(Owed) <= Cardinality(Owed')
    BY <2>4, <1>c, CountSubset
  <2>6. cleanupLog # << >> => cleanupLog[1].ack_targ \in Nat /\ cleanupLog[1].ack_count \in Nat
    BY <1>0, FirstStep DEF TypeOK, Step
  <2>7. Cardinality(Owed) \in Nat /\ Cardinality(Owed') \in Nat
    BY <1>c, CountedFinite
  <2> QED
    BY <1>a, <1>b, <2>1, <2>5, <2>6, <2>7
<1>9. CASE JoinRegister(p)
  <2>1. cleanupLog' = cleanupLog /\ (cleanupLog # << >> => flush' = flush)
    BY <1>0, <1>9, FirstStep DEF JoinRegister, flush, log, OneReservation, SeqInv, TypeOK, Step
  <2>2. Counted \subseteq Counted'
    BY <1>0, <1>9 DEF JoinRegister, Counted, Uncounted, TypeOK
  <2>3. cleanupLog # << >> => Owed \subseteq Owed'
    BY <2>1, <2>2 DEF Owed, flush
  <2>4. cleanupLog # << >> => Cardinality(Owed) <= Cardinality(Owed')
    BY <2>3, <1>c, CountSubset
  <2>5. cleanupLog # << >> => cleanupLog[1].ack_targ \in Nat /\ cleanupLog[1].ack_count \in Nat
    BY <1>0, FirstStep DEF TypeOK, Step
  <2>6. Cardinality(Owed) \in Nat /\ Cardinality(Owed') \in Nat
    BY <1>c, CountedFinite
  <2> QED
    BY <1>a, <1>b, <2>1, <2>4, <2>5, <2>6
<1> QED
  BY <1>1, <1>2, <1>3, <1>4, <1>5, <1>6, <1>7, <1>8, <1>9 DEF BgNext, MainNext

\* A step never waits for the acknowledgement of a process that has left.
THEOREM NoLostAckHolds == Spec => []NoLostAck
<1>1. Init => NoLostAck
  BY DEF Init, NoLostAck
<1>2. LockInv /\ NoLostAck /\ [Next]_vars => NoLostAck'
  <2> SUFFICES ASSUME LockInv, NoLostAck, [Next]_vars PROVE NoLostAck'
    OBVIOUS
  <2>1. CASE Next
    BY <2>1, NoLostAckStep DEF Next
  <2>2. CASE UNCHANGED vars
    BY <2>2 DEF vars, log, local, NoLostAck, Counted, flush
  <2> QED
    BY <2>1, <2>2
<1> QED
  BY <1>1, <1>2, LockInvAlways, PTL DEF Spec

-----------------------------------------------------------------------------
(* The promptness argument: nobody acknowledges on behalf of another       *)

\* The members that have not flushed the step.
Behind == {q \in Members : flush[q] < cleanupLog[1].seqNum}

\* No member is more than one step behind, and between two steps none is.
FlushInv ==
  /\ \A q \in Members : flush[q] + 1 >= cleanupLog_lastSeqNum
  /\ cleanupLog = << >> => \A q \in Members : flush[q] = cleanupLog_lastSeqNum

\* A thread that goes for the step has not flushed it.
WorkInv ==
  \A q \in Procs : bg[q] \in {"haveRoot", "locked"} => flush[q] < cleanupLog_lastSeqNum

\* Members behind are still waited for.
AckInv ==
  cleanupLog # << >> =>
    Cardinality(Behind) <= cleanupLog[1].ack_targ - cleanupLog[1].ack_count

\* What a member has flushed since it joined it has mapped, and what is published
\* has been posted and is no longer pending.
MapInv ==
  /\ \A q \in Members : \A r \in Nat : joinedAt[q] < r /\ r <= flush[q] => r \in mapped[q]
  /\ \A r \in reserved_regions :
       r <= cleanupLog_lastSeqNum /\ (cleanupLog # << >> => r < cleanupLog_lastSeqNum)

NoneLeaving == \A q \in Procs : main[q] # "leaving"

PromptInv == NoneLeaving /\ FlushInv /\ WorkInv /\ AckInv /\ MapInv

\* A step that no member sees as progress: nobody enters, the log and the flush
\* points stay as they are, and what members have mapped does too.
Quiet ==
  /\ Members' \subseteq Members
  /\ UNCHANGED <<local_cleanupLog_flushPoint, cleanupLog_lastSeqNum, reserved_regions, joinedAt>>
  /\ \A q \in Members' : mapped'[q] = mapped[q]
  /\ cleanupLog' = << >> <=> cleanupLog = << >>
  /\ cleanupLog # << >> =>
       /\ cleanupLog'[1].seqNum = cleanupLog[1].seqNum
       /\ cleanupLog'[1].ack_targ = cleanupLog[1].ack_targ
       /\ cleanupLog'[1].ack_count = cleanupLog[1].ack_count

QuietNext(p) ==
  \/ BgFutex(p) \/ BgNothingNew(p) \/ BgConflict(p) \/ BgCleanupLock(p)
  \/ BgLockRoot(p) \/ BgStepAssertFails(p) \/ BgLockStep(p) \/ BgUnlockStep(p)
  \/ CtlWait(p) \/ CtlFutex(p) \/ PostFails(p) \/ PostStuck(p) \/ PostAlone(p)
  \/ GrowStart(p) \/ Grow(p) \/ GrowStuck(p)
  \/ KillStart(p) \/ KillLeave(p) \/ KillExit(p)
  \/ JoinClaim(p) \/ JoinFails(p) \/ JoinStart(p) \/ JoinDone(p) \/ JoinLeaks(p)

\* All steps but posting, acknowledging, cleaning up and registering are quiet.
LEMMA QuietSteps ==
  ASSUME LockInv, NEW p \in Procs, QuietNext(p)
  PROVE  Quiet
<1>0. TypeOK /\ ThreadInv
  BY DEF LockInv
<1> USE DEF locks, root, log, local, Members, Uncounted
<1>1. CASE BgFutex(p) \/ BgNothingNew(p) \/ BgConflict(p) \/ BgCleanupLock(p)
  BY <1>1 DEF Quiet, BgFutex, BgNothingNew, BgConflict, BgCleanupLock
<1>2. CASE BgLockRoot(p) \/ BgStepAssertFails(p) \/ PostAlone(p)
  BY <1>0, <1>2 DEF Quiet, BgLockRoot, BgStepAssertFails, PostAlone, Abort, TypeOK
<1>3. CASE BgLockStep(p) \/ BgUnlockStep(p)
  <2>1. cleanupLog # << >> /\ cleanupLog' # << >>
        /\ cleanupLog'[1].seqNum = cleanupLog[1].seqNum
        /\ cleanupLog'[1].ack_targ = cleanupLog[1].ack_targ
        /\ cleanupLog'[1].ack_count = cleanupLog[1].ack_count
    BY <1>3, BgLockStepLog, BgUnlockStepLog
  <2> QED
    BY <1>3, <2>1 DEF Quiet, BgLockStep, BgUnlockStep
<1>4. CASE CtlWait(p) \/ CtlFutex(p) \/ PostFails(p) \/ PostStuck(p)
  BY <1>0, <1>4 DEF Quiet, CtlWait, CtlFutex, PostFails, CanPost, PostStuck, CtlRuns, TypeOK
<1>5. CASE KillStart(p) \/ KillLeave(p) \/ KillExit(p)
  BY <1>0, <1>5 DEF Quiet, KillStart, KillLeave, KillExit, TypeOK
<1>6. CASE JoinClaim(p) \/ JoinFails(p)
  BY <1>0, <1>6 DEF Quiet, JoinClaim, JoinFails, TypeOK
<1>7. CASE JoinStart(p) \/ JoinDone(p) \/ JoinLeaks(p)
  BY <1>0, <1>7 DEF Quiet, JoinStart, JoinDone, JoinLeaks, TypeOK
<1>8. CASE GrowStart(p) \/ Grow(p) \/ GrowStuck(p)
  BY <1>0, <1>8 DEF Quiet, GrowStart, Grow, GrowStuck, TypeOK
<1> QED
  BY <1>1, <1>2, <1>3, <1>4, <1>5, <1>6, <1>7, <1>8 DEF QuietNext

\* Quiet steps keep what is said of flush points, acknowledgements and maps.
LEMMA QuietKeeps ==
  ASSUME LockInv, LockInv', FlushInv, AckInv, MapInv, Quiet
  PROVE  FlushInv' /\ AckInv' /\ MapInv'
<1>1. FlushInv'
  BY DEF FlushInv, Quiet, flush
<1>2. AckInv'
  <2> SUFFICES ASSUME cleanupLog # << >>
               PROVE  Cardinality(Behind') <= cleanupLog[1].ack_targ - cleanupLog[1].ack_count
    BY DEF AckInv, Quiet
  <2>1. Behind' \subseteq Behind
    BY DEF Behind, Quiet, flush
  <2>2. Behind \in SUBSET Procs
    BY DEF Behind, Members
  <2>3. Cardinality(Behind') <= Cardinality(Behind)
    BY <2>1, <2>2, CountSubset
  <2>4. Cardinality(Behind') \in Nat /\ Cardinality(Behind) \in Nat
    BY <2>1, <2>2, CountedFinite
  <2>5. cleanupLog[1].ack_targ \in Nat /\ cleanupLog[1].ack_count \in Nat
    BY FirstStep DEF LockInv, TypeOK, Step
  <2> QED
    BY <2>3, <2>4, <2>5 DEF AckInv
<1>3. MapInv'
  BY DEF MapInv, Quiet, flush
<1> QED
  BY <1>1, <1>2, <1>3

\* A process whose background thread runs is a member when nobody is leaving.
LEMMA RunningIsMember ==
  ASSUME LockInv, NoneLeaving, NEW p \in Procs, BgRuns(p)
  PROVE  p \in Members
BY DEF LockInv, ThreadInv, NoneLeaving, Members, Uncounted

\* An acknowledgement is that of a member which is behind, and takes it up.
LEMMA PromptAck ==
  ASSUME LockInv, PromptInv, NEW p \in Procs, BgAck(p)
  PROVE  FlushInv' /\ AckInv' /\ MapInv'
<1>0. TypeOK /\ SeqInv /\ FlushInv /\ AckInv /\ MapInv
  BY DEF LockInv, PromptInv
<1>1. /\ cleanupLog # << >> /\ cleanupLog' # << >>
      /\ cleanupLog[1].ack_targ \in Nat /\ cleanupLog[1].ack_count \in Nat
      /\ cleanupLog'[1].seqNum = cleanupLog[1].seqNum
      /\ cleanupLog'[1].ack_targ = cleanupLog[1].ack_targ
      /\ cleanupLog'[1].ack_count = cleanupLog[1].ack_count + 1
      /\ cleanupLog[1].seqNum = cleanupLog_lastSeqNum
  BY BgAckLog
<1>2. p \in Members /\ Members' = Members /\ Members \in SUBSET Procs
  <2>1. BgRuns(p)
    BY DEF BgAck, BgRuns
  <2> QED
    BY <2>1, RunningIsMember DEF PromptInv, BgAck, Members
<1>3. flush[p] + 1 = cleanupLog_lastSeqNum /\ flush[p] \in Nat /\ cleanupLog_lastSeqNum \in Nat
  BY <1>0, <1>1 DEF BgAck, StepIsNext, TypeOK, flush
<1>4. /\ \A q \in Procs : flush'[q] = IF q = p THEN cleanupLog_lastSeqNum ELSE flush[q]
      /\ cleanupLog_lastSeqNum' = cleanupLog_lastSeqNum
  BY <1>0, <1>3 DEF BgAck, TypeOK, flush
<1>5. FlushInv'
  BY <1>0, <1>1, <1>2, <1>3, <1>4 DEF FlushInv, flush
<1>6. AckInv'
  <2>1. Behind \in SUBSET Procs
    BY DEF Behind, Members
  <2>2. p \in Behind
    BY <1>1, <1>2, <1>3 DEF Behind, flush
  <2>3. Behind' = Behind \ {p}
    BY <1>1, <1>2, <1>3, <1>4 DEF Behind, flush
  <2>4. Cardinality(Behind') = Cardinality(Behind) - 1
    BY <2>1, <2>2, <2>3, CountRemove
  <2>5. Cardinality(Behind) \in Nat
    BY <2>1, CountedFinite
  <2> QED
    BY <1>0, <1>1, <2>4, <2>5 DEF AckInv
<1>7. MapInv'
  <2>1. /\ \A q \in Procs : mapped'[q] =
             IF q = p THEN mapped[p] \cup {cleanupLog_lastSeqNum} ELSE mapped[q]
        /\ UNCHANGED <<joinedAt, reserved_regions>>
    BY <1>0, <1>1 DEF BgAck, TypeOK, root
  <2> SUFFICES ASSUME NEW q \in Members, NEW r \in Nat, joinedAt[q] < r, r <= flush'[q]
               PROVE  r \in mapped'[q]
    BY <1>0, <1>1, <1>2, <1>4, <2>1 DEF MapInv, flush
  <2>2. CASE q = p /\ r = cleanupLog_lastSeqNum
    BY <2>1, <2>2
  <2>3. CASE q = p /\ r # cleanupLog_lastSeqNum
    <3>1. r <= flush[p]
      BY <1>3, <1>4, <2>3
    <3> QED
      BY <1>0, <2>1, <2>3, <3>1 DEF MapInv
  <2>4. CASE q # p
    <3>1. q \in Procs /\ flush'[q] = flush[q]
      BY <1>2, <1>4, <2>4
    <3> QED
      BY <1>0, <2>1, <2>4, <3>1 DEF MapInv
  <2> QED
    BY <2>2, <2>3, <2>4
<1> QED
  BY <1>5, <1>6, <1>7

\* When the last acknowledgement is in, no member is behind.
LEMMA NobodyBehind ==
  ASSUME LockInv, PromptInv, NEW p \in Procs, BgCleanup(p)
  PROVE  \A q \in Members : flush[q] = cleanupLog_lastSeqNum
<1>0. TypeOK /\ SeqInv /\ OneReservation /\ AckInv
  BY DEF LockInv, PromptInv
<1>1. /\ cleanupLog # << >>
      /\ cleanupLog[1].ack_count = cleanupLog[1].ack_targ
      /\ pending_reservation = cleanupLog[1].seqNum
  BY BgCleanupLog DEF CleanupIsSound
<1>2. cleanupLog[1].ack_targ \in Nat /\ cleanupLog[1].seqNum = cleanupLog_lastSeqNum
  <2>1. cleanupLog[1] \in Step
    BY <1>0, <1>1, FirstStep DEF TypeOK
  <2>2. cleanupLog[1].seqNum \in Nat /\ cleanupLog[1].seqNum > 0
    BY <1>0, <1>1, <2>1 DEF SeqInv, Step
  <2> QED
    BY <1>0, <1>1, <2>1, <2>2 DEF OneReservation, Step
<1>3. Behind = {}
  <2>1. Behind \in SUBSET Procs
    BY DEF Behind, Members
  <2>2. Cardinality(Behind) <= 0
    BY <1>0, <1>1, <1>2 DEF AckInv
  <2>3. ASSUME NEW q \in Behind PROVE FALSE
    <3>1. Cardinality(Behind) > 0
      BY <2>1, <2>3, CountRemove
    <3>2. Cardinality(Behind) \in Nat
      BY <2>1, CountedFinite
    <3> QED
      BY <2>2, <3>1, <3>2
  <2> QED
    BY <2>3
<1>4. \A q \in Members : flush[q] = cleanupLog_lastSeqNum
  <2> SUFFICES ASSUME NEW q \in Members PROVE flush[q] = cleanupLog_lastSeqNum
    OBVIOUS
  <2>1. ~ (flush[q] < cleanupLog_lastSeqNum)
    BY <1>2, <1>3 DEF Behind
  <2>2. q \in Procs /\ flush[q] \in Nat /\ cleanupLog_lastSeqNum \in Nat
    BY <1>0 DEF TypeOK, flush, Members
  <2> QED
    BY <1>0, <2>1, <2>2 DEF SeqInv
<1> QED
  BY <1>4

\* Cleaning up publishes what no member is behind of.
LEMMA PromptCleanup ==
  ASSUME LockInv, PromptInv, NEW p \in Procs, BgCleanup(p)
  PROVE  FlushInv' /\ AckInv' /\ MapInv'
<1>0. TypeOK /\ SeqInv /\ OneReservation /\ FlushInv /\ AckInv /\ MapInv
  BY DEF LockInv, PromptInv
<1>1. /\ cleanupLog # << >> /\ cleanupLog' = << >>
      /\ cleanupLog[1].ack_count = cleanupLog[1].ack_targ
      /\ pending_reservation = cleanupLog[1].seqNum
      /\ reserved_regions' = reserved_regions \cup {pending_reservation}
      /\ UNCHANGED <<cleanupLog_lastSeqNum, local, main>>
  BY BgCleanupLog DEF CleanupIsSound
<1>2. cleanupLog[1].ack_targ \in Nat /\ cleanupLog[1].seqNum = cleanupLog_lastSeqNum
  <2>1. cleanupLog[1] \in Step
    BY <1>0, <1>1, FirstStep DEF TypeOK
  <2>2. cleanupLog[1].seqNum \in Nat /\ cleanupLog[1].seqNum > 0
    BY <1>0, <1>1, <2>1 DEF SeqInv, Step
  <2> QED
    BY <1>0, <1>1, <2>1, <2>2 DEF OneReservation, Step
<1>4. \A q \in Members : flush[q] = cleanupLog_lastSeqNum
  BY NobodyBehind
<1>5. UNCHANGED <<local_cleanupLog_flushPoint, mapped, joinedAt>> /\ Members' = Members
  BY <1>1 DEF local, Members
<1>6. FlushInv'
  BY <1>0, <1>1, <1>4, <1>5 DEF FlushInv, flush, TypeOK
<1>7. AckInv'
  BY <1>1 DEF AckInv
<1>8. MapInv'
  <2>1. \A q \in Members' : \A r \in Nat :
          joinedAt'[q] < r /\ r <= flush'[q] => r \in mapped'[q]
    BY <1>0, <1>5 DEF MapInv, flush
  <2>2. ASSUME NEW r \in reserved_regions' PROVE r <= cleanupLog_lastSeqNum'
    <3>1. cleanupLog_lastSeqNum \in Nat /\ cleanupLog_lastSeqNum' = cleanupLog_lastSeqNum
      BY <1>0, <1>1 DEF TypeOK
    <3>2. CASE r \in reserved_regions
      BY <1>0, <3>1, <3>2 DEF MapInv
    <3>3. CASE r = pending_reservation
      BY <1>1, <1>2, <3>1, <3>3
    <3> QED
      BY <1>1, <2>2, <3>2, <3>3
  <2> QED
    BY <1>1, <2>1, <2>2 DEF MapInv
<1> QED
  BY <1>6, <1>7, <1>8

\* A step is posted when nobody is behind, and counts at least the members.
LEMMA PromptPost ==
  ASSUME LockInv, PromptInv, NEW p \in Procs, Post(p)
  PROVE  FlushInv' /\ AckInv' /\ MapInv'
<1>0. TypeOK /\ SeqInv /\ CountInv /\ FlushInv /\ MapInv
  BY DEF LockInv, PromptInv
<1>1. /\ cleanupLog = << >> /\ cleanupLog' # << >>
      /\ cleanupLog'[1].seqNum = cleanupLog_lastSeqNum + 1
      /\ cleanupLog'[1].ack_targ = proc_count
      /\ cleanupLog'[1].ack_count = 1
  BY PostLog
<1>2. p \in Members /\ Members' = Members /\ Members \in SUBSET Procs
  BY <1>0 DEF Post, CanPost, CtlRuns, Members, Uncounted, TypeOK
<1>3. \A q \in Members : flush[q] = cleanupLog_lastSeqNum
  BY <1>0, <1>1 DEF FlushInv
<1>4. /\ \A q \in Procs : flush'[q] = IF q = p THEN flush[p] + 1 ELSE flush[q]
      /\ \A q \in Procs : mapped'[q] =
           IF q = p THEN mapped[p] \cup {cleanupLog_lastSeqNum + 1} ELSE mapped[q]
      /\ cleanupLog_lastSeqNum' = cleanupLog_lastSeqNum + 1
      /\ UNCHANGED <<joinedAt, reserved_regions>>
      /\ cleanupLog_lastSeqNum \in Nat
  BY <1>0 DEF Post, TypeOK, flush
<1>5. FlushInv'
  BY <1>1, <1>2, <1>3, <1>4 DEF FlushInv, flush
<1>6. AckInv'
  <2>1. Counted \in SUBSET Procs /\ p \in Counted /\ Members \subseteq Counted
    BY <1>2 DEF Counted, Members
  <2>2. Behind' \subseteq Counted \ {p}
    BY <1>1, <1>2, <1>3, <1>4, <2>1 DEF Behind, flush
  <2>3. Cardinality(Behind') <= Cardinality(Counted \ {p})
    BY <2>1, <2>2, CountSubset
  <2>4. Cardinality(Counted \ {p}) = proc_count - 1
    BY <1>0, <2>1, CountRemove DEF CountInv
  <2> QED
    BY <1>1, <2>3, <2>4 DEF AckInv
<1>7. MapInv'
  <2>1. \A r \in reserved_regions : r <= cleanupLog_lastSeqNum /\ r \in Nat
    BY <1>0 DEF MapInv, TypeOK
  <2> SUFFICES ASSUME NEW q \in Members, NEW r \in Nat, joinedAt[q] < r, r <= flush'[q]
               PROVE  r \in mapped'[q]
    BY <1>1, <1>2, <1>4, <2>1 DEF MapInv, flush
  <2>2. q \in Procs /\ flush[q] = cleanupLog_lastSeqNum
    BY <1>2, <1>3
  <2>3. CASE q = p /\ r = cleanupLog_lastSeqNum + 1
    BY <1>4, <2>3
  <2>4. CASE r <= cleanupLog_lastSeqNum
    <3>1. r \in mapped[q]
      BY <1>0, <2>2, <2>4 DEF MapInv
    <3> QED
      BY <1>4, <2>2, <3>1
  <2> QED
    BY <1>4, <2>2, <2>3, <2>4
<1> QED
  BY <1>5, <1>6, <1>7

\* A process registers between two steps, or leaks out at once.
LEMMA PromptRegister ==
  ASSUME LockInv, PromptInv, NEW p \in Procs, JoinRegister(p)
  PROVE  FlushInv' /\ AckInv' /\ MapInv'
<1>0. TypeOK /\ SeqInv /\ OneReservation /\ FlushInv /\ AckInv /\ MapInv
  BY DEF LockInv, PromptInv
<1>1. UNCHANGED <<cleanupLog, cleanupLog_lastSeqNum, reserved_regions, mapped>>
  BY DEF JoinRegister, log
<1>2. p \notin Members
  BY DEF JoinRegister, Members, Uncounted
<1>3. CASE cleanupLog # << >>
  <2>1. pending_reservation # 0
    BY <1>0, <1>3, FirstStep DEF OneReservation, SeqInv, TypeOK, Step
  <2>2. Members' = Members /\ UNCHANGED <<local_cleanupLog_flushPoint, joinedAt>>
    BY <1>0, <2>1 DEF JoinRegister, Members, Uncounted, TypeOK
  <2> QED
    BY <1>0, <1>1, <2>2 DEF FlushInv, AckInv, Behind, MapInv, flush
<1>4. CASE cleanupLog = << >>
  <2>1. pending_reservation = 0
    BY <1>0, <1>4 DEF OneReservation
  <2>2. Members' \subseteq Members \cup {p}
    BY <1>0 DEF JoinRegister, Members, Uncounted, TypeOK
  <2>3. /\ \A q \in Procs : flush'[q] = IF q = p THEN cleanupLog_lastSeqNum ELSE flush[q]
        /\ \A q \in Procs : joinedAt'[q] = IF q = p THEN cleanupLog_lastSeqNum ELSE joinedAt[q]
        /\ cleanupLog_lastSeqNum \in Nat
    BY <1>0, <2>1 DEF JoinRegister, TypeOK, flush
  <2>4. Members \in SUBSET Procs
    BY DEF Members
  <2>5. FlushInv'
    BY <1>0, <1>1, <1>4, <2>2, <2>3, <2>4 DEF FlushInv, flush
  <2>6. AckInv'
    BY <1>1, <1>4 DEF AckInv
  <2>7. MapInv'
    <3> SUFFICES ASSUME NEW q \in Members \cup {p}, NEW r \in Nat, joinedAt'[q] < r, r <= flush'[q]
                 PROVE  r \in mapped[q]
      BY <1>0, <1>1, <2>2 DEF MapInv, flush
    <3>1. q # p
      BY <2>3
    <3> QED
      BY <1>0, <2>3, <2>4, <3>1 DEF MapInv
  <2> QED
    BY <2>5, <2>6, <2>7
<1> QED
  BY <1>3, <1>4

\* If nobody lags, every step keeps the promptness invariant.
LEMMA PromptStep ==
  ASSUME Lagging = {}, LockInv, LockInv', PromptInv, NEW p \in Procs, BgNext(p) \/ MainNext(p)
  PROVE  PromptInv'
<1>0. TypeOK /\ SeqInv /\ NoneLeaving /\ FlushInv /\ WorkInv /\ AckInv /\ MapInv
  BY DEF LockInv, PromptInv
<1>1. FlushInv' /\ AckInv' /\ MapInv'
  <2>1. CASE QuietNext(p)
    BY <1>0, <2>1, QuietSteps, QuietKeeps
  <2>2. CASE BgAck(p) \/ BgCleanup(p) \/ Post(p) \/ JoinRegister(p)
    BY <2>2, PromptAck, PromptCleanup, PromptPost, PromptRegister
  <2> QED
    BY <2>1, <2>2 DEF QuietNext, BgNext, MainNext
<1>2. NoneLeaving'
  <2>1. CASE KillLeave(p)
    BY <1>0, <2>1 DEF KillLeave, NoneLeaving, TypeOK
  <2>2. CASE BgNext(p)
    BY <1>0, <2>2 DEF BgNext, BgFutex, BgNothingNew, BgLockRoot, BgLockStep,
       BgStepAssertFails, BgAck, BgConflict, BgUnlockStep, BgCleanupLock, BgCleanup,
       Abort, local, NoneLeaving, TypeOK
  <2>3. CASE \/ CtlWait(p) \/ CtlFutex(p) \/ Post(p) \/ PostFails(p) \/ PostAlone(p)
             \/ PostStuck(p) \/ KillStart(p) \/ KillExit(p)
    BY <1>0, <2>3 DEF CtlWait, CtlFutex, Post, PostFails, PostAlone, Abort, PostStuck,
       KillStart, KillExit, NoneLeaving, TypeOK
  <2>4. CASE \/ JoinClaim(p) \/ JoinFails(p) \/ JoinRegister(p) \/ JoinStart(p)
             \/ JoinDone(p) \/ JoinLeaks(p) \/ GrowStart(p) \/ Grow(p) \/ GrowStuck(p)
    BY <1>0, <2>4 DEF JoinClaim, JoinFails, JoinRegister, JoinStart, JoinDone, JoinLeaks,
       GrowStart, Grow, GrowStuck, NoneLeaving, TypeOK
  <2> QED
    BY <2>1, <2>2, <2>3, <2>4 DEF MainNext
<1>3. WorkInv'
  <2>1. CASE BgLockRoot(p)
    <3>1. flush[p] \in Nat /\ cleanupLog_lastSeqNum \in Nat /\ flush[p] <= cleanupLog_lastSeqNum
      BY <1>0 DEF TypeOK, SeqInv, flush
    <3>2. flush[p] < cleanupLog_lastSeqNum
      BY <2>1, <3>1 DEF BgLockRoot
    <3>3. UNCHANGED <<local_cleanupLog_flushPoint, cleanupLog_lastSeqNum>>
          /\ \A q \in Procs \ {p} : bg'[q] = bg[q]
      BY <1>0, <2>1 DEF BgLockRoot, Abort, local, log, TypeOK
    <3> QED
      BY <1>0, <3>2, <3>3 DEF WorkInv, flush
  <2>2. CASE \/ BgFutex(p) \/ BgNothingNew(p) \/ BgLockStep(p) \/ BgStepAssertFails(p)
             \/ BgConflict(p) \/ BgUnlockStep(p) \/ BgCleanupLock(p)
    <3>1. UNCHANGED <<local_cleanupLog_flushPoint, cleanupLog_lastSeqNum>>
      BY <2>2 DEF BgFutex, BgNothingNew, BgLockStep, BgStepAssertFails, Abort, BgConflict,
         BgUnlockStep, BgCleanupLock, local, log
    <3>2. \A q \in Procs : bg'[q] \in {"haveRoot", "locked"} => bg[q] \in {"haveRoot", "locked"}
      BY <1>0, <2>2 DEF BgFutex, BgNothingNew, BgLockStep, BgStepAssertFails, Abort, EndOf,
         BgConflict, BgUnlockStep, BgCleanupLock, TypeOK
    <3> QED
      BY <1>0, <3>1, <3>2 DEF WorkInv, flush
  <2>3. CASE BgAck(p)
    <3>1. /\ cleanupLog_lastSeqNum' = cleanupLog_lastSeqNum
          /\ bg'[p] \notin {"haveRoot", "locked"}
          /\ \A q \in Procs \ {p} : bg'[q] = bg[q] /\ flush'[q] = flush[q]
      BY <1>0, <2>3 DEF BgAck, TypeOK, flush
    <3> QED
      BY <1>0, <3>1 DEF WorkInv, flush
  <2>4. CASE BgCleanup(p)
    <3>1. UNCHANGED <<local_cleanupLog_flushPoint, cleanupLog_lastSeqNum>>
          /\ bg' = [bg EXCEPT ![p] = "check"]
      BY <2>4, BgCleanupLog DEF local
    <3> QED
      BY <1>0, <3>1 DEF WorkInv, flush, TypeOK
  <2>5. CASE Post(p)
    <3>1. \A q \in Procs : bg[q] \notin {"haveRoot", "locked"}
      BY <2>5, PostLog DEF LockInv, NoUseAfterFree, HoldsStep
    <3>2. \A q \in Procs : bg'[q] \notin {"haveRoot", "locked"}
      BY <2>5, <3>1 DEF Post, Wake
    <3> QED
      BY <3>2 DEF WorkInv
  <2>6. CASE JoinRegister(p)
    <3>1. bg' = bg /\ cleanupLog_lastSeqNum' = cleanupLog_lastSeqNum
          /\ \A q \in Procs \ {p} : flush'[q] = flush[q]
      BY <1>0, <2>6 DEF JoinRegister, log, TypeOK, flush
    <3>2. bg[p] \notin {"haveRoot", "locked"}
      BY <2>6 DEF JoinRegister, LockInv, ThreadInv, BgRuns
    <3> QED
      BY <1>0, <3>1, <3>2 DEF WorkInv, flush
  <2>7. CASE \/ CtlWait(p) \/ CtlFutex(p) \/ PostFails(p) \/ PostAlone(p) \/ PostStuck(p)
             \/ KillStart(p) \/ KillLeave(p) \/ KillExit(p)
    <3>1. UNCHANGED <<local_cleanupLog_flushPoint, cleanupLog_lastSeqNum>>
      BY <2>7 DEF CtlWait, CtlFutex, PostFails, PostAlone, Abort, PostStuck, KillStart,
         KillLeave, KillExit, local, log
    <3>2. \A q \in Procs : bg'[q] \in {"haveRoot", "locked"} => bg[q] \in {"haveRoot", "locked"}
      BY <1>0, <2>7 DEF CtlWait, CtlFutex, PostFails, PostAlone, Abort, EndOf, PostStuck,
         KillStart, KillLeave, KillExit, TypeOK
    <3> QED
      BY <1>0, <3>1, <3>2 DEF WorkInv, flush
  <2>8. CASE \/ JoinClaim(p) \/ JoinFails(p) \/ JoinStart(p) \/ JoinDone(p) \/ JoinLeaks(p)
             \/ GrowStart(p) \/ Grow(p) \/ GrowStuck(p)
    <3>1. UNCHANGED <<local_cleanupLog_flushPoint, cleanupLog_lastSeqNum>>
      BY <2>8 DEF JoinClaim, JoinFails, JoinStart, JoinDone, JoinLeaks, GrowStart, Grow,
         GrowStuck, local, log
    <3>2. \A q \in Procs : bg'[q] \in {"haveRoot", "locked"} => bg[q] \in {"haveRoot", "locked"}
      BY <1>0, <2>8 DEF JoinClaim, JoinFails, JoinStart, JoinDone, JoinLeaks, GrowStart,
         Grow, GrowStuck, EndOf, TypeOK
    <3> QED
      BY <1>0, <3>1, <3>2 DEF WorkInv, flush
  <2> QED
    BY <2>1, <2>2, <2>3, <2>4, <2>5, <2>6, <2>7, <2>8 DEF BgNext, MainNext
<1> QED
  BY <1>1, <1>2, <1>3 DEF PromptInv

\* The promptness invariant holds at the start.
LEMMA PromptInit == Init => PromptInv
<1> SUFFICES ASSUME Init PROVE PromptInv
  OBVIOUS
<1>1. \A q \in Members : flush[q] = 1 /\ joinedAt[q] = 1
  BY DEF Init, Members, Uncounted, flush
<1>2. cleanupLog_lastSeqNum = 1 /\ reserved_regions = {}
  BY DEF Init
<1>3. FlushInv
  BY <1>1, <1>2 DEF FlushInv
<1>4. MapInv
  BY <1>1, <1>2 DEF MapInv
<1>5. NoneLeaving /\ WorkInv /\ AckInv
  BY DEF Init, NoneLeaving, WorkInv, AckInv
<1> QED
  BY <1>3, <1>4, <1>5 DEF PromptInv

\* If nobody lags, the promptness invariant holds always.
LEMMA PromptAlways ==
  ASSUME Lagging = {}
  PROVE  Spec => [](LockInv /\ PromptInv)
<1>1. Init => LockInv /\ PromptInv
  BY LockInvInit, PromptInit
<1>2. LockInv /\ PromptInv /\ [Next]_vars => LockInv' /\ PromptInv'
  <2> SUFFICES ASSUME LockInv, PromptInv, [Next]_vars PROVE LockInv' /\ PromptInv'
    OBVIOUS
  <2>1. LockInv'
    BY LockInvNext
  <2>2. CASE Next
    BY <2>1, <2>2, PromptStep DEF Next
  <2>3. CASE UNCHANGED vars
    BY <2>1, <2>3 DEF vars, locks, root, log, local, PromptInv, NoneLeaving, FlushInv, WorkInv,
       AckInv, Behind, MapInv, Members, flush
  <2> QED
    BY <2>1, <2>2, <2>3
<1> QED
  BY <1>1, <1>2, PTL DEF Spec

\* If a process that leaves the group ends at once, every member has mapped every
\* published range that was posted since it joined.
THEOREM ReservedSinceJoinHolds ==
  ASSUME Lagging = {}
  PROVE  Spec => []ReservedSinceJoin
<1>1. LockInv /\ PromptInv => ReservedSinceJoin
  <2> SUFFICES ASSUME LockInv, PromptInv, NEW p \in Members, NEW r \in reserved_regions,
                      r > joinedAt[p]
               PROVE  r \in mapped[p]
    BY DEF ReservedSinceJoin
  <2>1. TypeOK /\ MapInv /\ FlushInv
    BY DEF LockInv, PromptInv
  <2>2. p \in Procs /\ r \in Nat /\ flush[p] \in Nat /\ cleanupLog_lastSeqNum \in Nat
        /\ joinedAt[p] \in Nat
    BY <2>1 DEF Members, TypeOK, flush
  <2>3. r <= flush[p]
    BY <2>1, <2>2 DEF MapInv, FlushInv
  <2> QED
    BY <2>1, <2>2, <2>3 DEF MapInv
<1> QED
  BY <1>1, PromptAlways, PTL

\* A thread that has work to do finds the step, next for its process and not complete.
LEMMA PromptAsserts == LockInv /\ PromptInv => AssertionsHold
<1> SUFFICES ASSUME LockInv, PromptInv, NEW p \in Procs
             PROVE  /\ bg[p] = "lock" /\ cleanupLog_lastSeqNum # flush[p] => cleanupLog # << >>
                    /\ bg[p] = "locked" => StepIsNext(p) /\ StepWantsAck
  BY DEF AssertionsHold
<1>0. TypeOK /\ SeqInv /\ OneReservation /\ NoUseAfterFree /\ FlushInv /\ WorkInv /\ AckInv
  BY DEF LockInv, PromptInv
<1>1. bg[p] \in {"lock", "locked"} => p \in Members
  BY RunningIsMember DEF PromptInv, BgRuns
<1>2. bg[p] = "lock" /\ cleanupLog_lastSeqNum # flush[p] => cleanupLog # << >>
  BY <1>0, <1>1 DEF FlushInv
<1>3. ASSUME bg[p] = "locked" PROVE StepIsNext(p) /\ StepWantsAck
  <2>1. cleanupLog # << >> /\ cleanupLog[1] \in Step
    BY <1>0, <1>3, FirstStep DEF NoUseAfterFree, HoldsStep, TypeOK
  <2>2. cleanupLog[1].seqNum = cleanupLog_lastSeqNum
    BY <1>0, <2>1 DEF OneReservation, SeqInv, Step
  <2>3. flush[p] < cleanupLog_lastSeqNum /\ flush[p] + 1 >= cleanupLog_lastSeqNum
    BY <1>0, <1>1, <1>3 DEF WorkInv, FlushInv
  <2>4. flush[p] \in Nat /\ cleanupLog_lastSeqNum \in Nat
    BY <1>0 DEF TypeOK, flush
  <2>5. StepIsNext(p)
    BY <2>2, <2>3, <2>4 DEF StepIsNext
  <2>6. p \in Behind /\ Behind \in SUBSET Procs
    BY <1>1, <1>3, <2>2, <2>3 DEF Behind, Members
  <2>7. Cardinality(Behind) > 0 /\ Cardinality(Behind) \in Nat
    BY <2>6, CountRemove, CountedFinite
  <2>8. cleanupLog[1].ack_targ \in Nat /\ cleanupLog[1].ack_count \in Nat
    BY <2>1 DEF Step
  <2>9. StepWantsAck
    BY <1>0, <2>1, <2>7, <2>8 DEF AckInv, StepWantsAck
  <2> QED
    BY <2>5, <2>9
<1> QED
  BY <1>2, <1>3

\* If a process that leaves the group ends at once, no assertion of a background
\* thread fails.
THEOREM AssertionsHoldAlways ==
  ASSUME Lagging = {}
  PROVE  Spec => []AssertionsHold
BY PromptAsserts, PromptAlways, PTL

-----------------------------------------------------------------------------
(* The log implements module Reservation                                   *)

\* Everybody was in the group from the start.
FounderInv ==
  /\ \A q \in Procs :
       /\ main[q] \notin {"out", "joining", "failed", "registered", "starting", "leaked"}
       /\ joinedAt[q] = 1
  /\ pending_reservation # 0 => pending_reservation > 1

LEMMA FounderInit ==
  ASSUME Founders = Procs, Init
  PROVE  FounderInv
BY DEF Init, FounderInv

\* Who is in the group does not go through sc_join again.
LEMMA FounderStep ==
  ASSUME LockInv, FounderInv, NEW p \in Procs, BgNext(p) \/ MainNext(p)
  PROVE  FounderInv'
<1>0. TypeOK /\ SeqInv
  BY DEF LockInv
<1> USE DEF FounderInv, TypeOK, root, log, local
<1>1. CASE \/ BgFutex(p) \/ BgNothingNew(p) \/ BgLockStep(p) \/ BgAck(p) \/ BgConflict(p)
           \/ BgUnlockStep(p) \/ BgCleanupLock(p)
  BY <1>1 DEF BgFutex, BgNothingNew, BgLockStep, BgAck, BgConflict, BgUnlockStep, BgCleanupLock
<1>2. CASE BgLockRoot(p) \/ BgStepAssertFails(p) \/ PostAlone(p)
  BY <1>0, <1>2 DEF BgLockRoot, BgStepAssertFails, PostAlone, Abort
<1>3. CASE BgCleanup(p)
  BY <1>3, BgCleanupLog
<1>4. CASE \/ CtlWait(p) \/ CtlFutex(p) \/ PostFails(p) \/ PostStuck(p)
           \/ GrowStart(p) \/ Grow(p) \/ GrowStuck(p)
  BY <1>0, <1>4 DEF CtlWait, CtlFutex, PostFails, PostStuck, GrowStart, Grow, GrowStuck
<1>5. CASE Post(p)
  BY <1>0, <1>5 DEF Post, SeqInv
<1>6. CASE KillStart(p) \/ KillLeave(p) \/ KillExit(p)
  BY <1>0, <1>6 DEF KillStart, KillLeave, KillExit
<1>7. CASE \/ JoinClaim(p) \/ JoinFails(p) \/ JoinRegister(p) \/ JoinStart(p) \/ JoinDone(p)
           \/ JoinLeaks(p)
  BY <1>7 DEF JoinClaim, JoinFails, JoinRegister, JoinStart, JoinDone, JoinLeaks
<1> QED
  BY <1>1, <1>2, <1>3, <1>4, <1>5, <1>6, <1>7 DEF BgNext, MainNext

\* Every step of the log is one of the promise, or none.
LEMMA RefineStep ==
  ASSUME LockInv, PromptInv, FounderInv, Lagging = {}, NEW p \in Procs, BgNext(p) \/ MainNext(p)
  PROVE  [Promise!RNext]_(Promise!rvars)
<1>0. TypeOK /\ SeqInv /\ OneReservation /\ FlushInv /\ AckInv /\ MapInv
  BY DEF LockInv, PromptInv
<1>a. UNCHANGED <<Members, pending_reservation, reserved_regions, mapped>>
        => [Promise!RNext]_(Promise!rvars)
  BY DEF Promise!rvars
\* A member holds what it has flushed.
<1>b. ASSUME NEW q \in Members, pending_reservation # 0, flush[q] = cleanupLog_lastSeqNum
      PROVE  pending_reservation \in mapped[q]
  <2>1. q \in Procs /\ pending_reservation \in Nat /\ pending_reservation = cleanupLog_lastSeqNum
    BY <1>0, <1>b DEF Members, TypeOK, OneReservation
  <2>2. joinedAt[q] < pending_reservation
    BY <1>b, <2>1 DEF FounderInv
  <2> QED
    BY <1>0, <1>b, <2>1, <2>2 DEF MapInv
<1>1. CASE \/ BgFutex(p) \/ BgNothingNew(p) \/ BgLockStep(p) \/ BgConflict(p)
           \/ BgUnlockStep(p) \/ BgCleanupLock(p)
  BY <1>1, <1>a DEF BgFutex, BgNothingNew, BgLockStep, BgConflict, BgUnlockStep, BgCleanupLock,
     Members, root, local
\* No assertion of the background thread fails.
<1>2. CASE BgLockRoot(p) \/ BgStepAssertFails(p)
  <2>1. AssertionsHold
    BY PromptAsserts
  <2>2. BgLockRoot(p) /\ cleanupLog # << >>
    BY <1>2, <2>1 DEF AssertionsHold, BgLockRoot, BgStepAssertFails
  <2> QED
    BY <1>a, <2>2 DEF BgLockRoot, Members, root, local
\* Accept, or a range that it has anyway.
<1>3. CASE BgAck(p)
  <2>1. p \in Members /\ Members' = Members
    <3>1. BgRuns(p)
      BY <1>3 DEF BgAck, BgRuns
    <3> QED
      BY <1>3, <3>1, RunningIsMember DEF PromptInv, BgAck, Members
  <2>2. cleanupLog # << >> /\ cleanupLog[1].seqNum = cleanupLog_lastSeqNum
    BY <1>3, BgAckLog
  <2>3. pending_reservation = cleanupLog[1].seqNum /\ pending_reservation # 0
    BY <1>0, <2>2 DEF OneReservation, SeqInv, TypeOK
  <2>4. /\ UNCHANGED <<pending_reservation, reserved_regions>>
        /\ mapped' = [mapped EXCEPT ![p] = @ \cup {pending_reservation}]
    BY <1>3, <2>3 DEF BgAck, root
  <2>5. CASE pending_reservation \notin mapped[p]
    <3>1. Promise!Accept(p)
      BY <2>1, <2>3, <2>4, <2>5 DEF Promise!Accept
    <3> QED
      BY <3>1 DEF Promise!RNext
  <2>6. CASE pending_reservation \in mapped[p]
    <3>1. mapped' = mapped
      BY <1>0, <2>4, <2>6 DEF TypeOK
    <3> QED
      BY <1>a, <2>1, <2>4, <3>1
  <2> QED
    BY <2>5, <2>6
\* Publish: the last acknowledgement is in.
<1>4. CASE BgCleanup(p)
  <2>1. /\ cleanupLog # << >>
        /\ pending_reservation = cleanupLog[1].seqNum
        /\ pending_reservation' = 0
        /\ reserved_regions' = reserved_regions \cup {pending_reservation}
        /\ mapped' = mapped /\ Members' = Members
    BY <1>4, BgCleanupLog DEF CleanupIsSound, local, Members
  <2>2. pending_reservation # 0
    BY <1>0, <2>1, FirstStep DEF SeqInv, TypeOK, Step
  <2>3. \A q \in Members : flush[q] = cleanupLog_lastSeqNum
    BY <1>4, NobodyBehind
  <2>4. \A q \in Members : pending_reservation \in mapped[q]
    BY <1>b, <2>2, <2>3
  <2>5. Promise!Publish
    BY <2>1, <2>2, <2>4 DEF Promise!Publish
  <2> QED
    BY <2>5 DEF Promise!RNext
\* Propose: a range that was never proposed before.
<1>5. CASE Post(p)
  <2>1. p \in Members /\ Members' = Members
    BY <1>0, <1>5 DEF Post, CanPost, CtlRuns, Members, Uncounted, TypeOK
  <2>2. cleanupLog_lastSeqNum + 1 \in Nat \ (reserved_regions \cup {0})
    BY <1>0 DEF MapInv, TypeOK
  <2>3. /\ pending_reservation = 0 /\ pending_reservation' = cleanupLog_lastSeqNum + 1
        /\ mapped' = [mapped EXCEPT ![p] = @ \cup {cleanupLog_lastSeqNum + 1}]
        /\ reserved_regions' = reserved_regions
    BY <1>5 DEF Post, CanPost
  <2>4. Promise!Propose(p)
    BY <2>1, <2>2, <2>3 DEF Promise!Propose
  <2> QED
    BY <2>4 DEF Promise!RNext
\* Leave: with everything flushed, or (the assertion on proc_count) with nothing pending.
<1>6. CASE KillLeave(p) \/ PostAlone(p)
  <2>1. p \in Members /\ Members' = Members \ {p}
    BY <1>0, <1>6 DEF KillLeave, PostAlone, CtlRuns, Abort, Members, Uncounted, TypeOK
  <2>2. UNCHANGED <<pending_reservation, reserved_regions, mapped>>
    BY <1>6 DEF KillLeave, PostAlone, Abort, root, local
  <2>3. pending_reservation = 0 \/ pending_reservation \in mapped[p]
    BY <1>6, <1>b, <2>1 DEF KillLeave, PostAlone
  <2>4. Promise!Leave(p)
    BY <2>1, <2>2, <2>3 DEF Promise!Leave
  <2> QED
    BY <2>4 DEF Promise!RNext
<1>7. CASE \/ CtlWait(p) \/ CtlFutex(p) \/ PostFails(p) \/ PostStuck(p)
           \/ GrowStart(p) \/ Grow(p) \/ GrowStuck(p) \/ KillStart(p)
  <2>1. Members' = Members
    BY <1>0, <1>7 DEF CtlWait, CtlFutex, PostFails, CanPost, PostStuck, CtlRuns, GrowStart, Grow,
       GrowStuck, KillStart, Members, Uncounted, TypeOK
  <2>2. UNCHANGED <<pending_reservation, reserved_regions, mapped>>
    BY <1>7 DEF CtlWait, CtlFutex, PostFails, PostStuck, GrowStart, Grow, GrowStuck, KillStart,
       root, local
  <2> QED
    BY <1>a, <2>1, <2>2
\* Nobody is leaving or outside.
<1>8. CASE \/ KillExit(p) \/ JoinClaim(p) \/ JoinFails(p) \/ JoinRegister(p) \/ JoinStart(p)
           \/ JoinDone(p) \/ JoinLeaks(p)
  BY <1>8 DEF KillExit, JoinClaim, JoinFails, JoinRegister, JoinStart, JoinDone, JoinLeaks,
     FounderInv, PromptInv, NoneLeaving
<1> QED
  BY <1>1, <1>2, <1>3, <1>4, <1>5, <1>6, <1>7, <1>8 DEF BgNext, MainNext

\* The log keeps the promise of module Reservation, whoever acknowledges, cleans up,
\* leaves or fails in between: if nobody joins, and a process that leaves the group
\* ends at once.  (With a joiner it does not: see the run of ReservedEverywhere.)
THEOREM ImplementsReservationHolds ==
  ASSUME Lagging = {}, Founders = Procs
  PROVE  Spec => ImplementsReservation
<1>1. Init => Promise!RInit
  BY DEF Init, Promise!RInit, Members
<1>2. Init => FounderInv
  BY FounderInit
<1>3. LockInv /\ FounderInv /\ [Next]_vars => FounderInv'
  <2> SUFFICES ASSUME LockInv, FounderInv, [Next]_vars PROVE FounderInv'
    OBVIOUS
  <2>1. CASE Next
    BY <2>1, FounderStep DEF Next
  <2>2. CASE UNCHANGED vars
    BY <2>2 DEF vars, root, local, FounderInv
  <2> QED
    BY <2>1, <2>2
<1>4. LockInv /\ PromptInv /\ FounderInv /\ [Next]_vars => [Promise!RNext]_(Promise!rvars)
  <2> SUFFICES ASSUME LockInv, PromptInv, FounderInv, [Next]_vars
               PROVE  [Promise!RNext]_(Promise!rvars)
    OBVIOUS
  <2>1. CASE Next
    BY <2>1, RefineStep DEF Next
  <2>2. CASE UNCHANGED vars
    BY <2>2 DEF vars, root, local, Members, Promise!rvars
  <2> QED
    BY <2>1, <2>2
<1> QED
  BY <1>1, <1>2, <1>3, <1>4, PromptAlways, PTL DEF Spec, ImplementsReservation, Promise!RSpec

Kept == INSTANCE ReservationProofs WITH
  group <- Members, pending <- pending_reservation,
  available <- reserved_regions, held <- mapped

\* So without joiners "all processes agree" on the addresses in reserved_regions
\* (subcontexts_control.h:88-91): what is proved of the promise holds of the log.
THEOREM ReservedEverywhereHolds ==
  ASSUME Lagging = {}, Founders = Procs
  PROVE  Spec => []ReservedEverywhere
<1>1. Promise!RSpec => []Promise!Agreed
  BY Kept!AgreedHolds DEF Promise!RSpec, Promise!RInit, Promise!RNext, Promise!rvars,
     Promise!Publish, Promise!Propose, Promise!Accept, Promise!Enter, Promise!Leave,
     Promise!Agreed, Kept!RSpec, Kept!RInit, Kept!RNext, Kept!rvars,
     Kept!Publish, Kept!Propose, Kept!Accept, Kept!Enter, Kept!Leave, Kept!Agreed
<1>2. Promise!Agreed => ReservedEverywhere
  BY DEF Promise!Agreed, ReservedEverywhere
<1> QED
  BY <1>1, <1>2, ImplementsReservationHolds, PTL DEF ImplementsReservation
=============================================================================
