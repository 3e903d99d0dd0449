----------------------------- MODULE CleanupLog -----------------------------
(***************************************************************************)
(* The cleanup log of one subcontext: how a group of processes agrees on a *)
(* new range of reserved virtual addresses (subcontexts_core.c).           *)
(*                                                                         *)
(* subcontexts_ctl posts a SC_CLS_RESERVE_MEMORY step to the log in shared *)
(* memory; the background thread of every other process maps the range and *)
(* acknowledges the step; the thread that gives the last acknowledgement   *)
(* moves the range to reserved_regions and frees the step.  Meanwhile      *)
(* processes join the group, leave it, are interrupted or abort.           *)
(*                                                                         *)
(* Every process has two threads.  main[p] is where the main thread is,    *)
(* bg[p] where the background thread is.  A critical section under the     *)
(* exclusive root lock that ends in the same function is one action; a     *)
(* lock that survives an action is in the state.                           *)
(*                                                                         *)
(* A range of addresses is named by the sequence number of the step that   *)
(* reserved it; 0 is the null pointer.                                     *)
(***************************************************************************)
EXTENDS Integers, Sequences, FiniteSets

CONSTANTS
  Procs,     \* the processes that ever use the subcontext
  Founders,  \* those that are in the group when the model starts
  Ctl,       \* those that run subcontexts_ctl --addReserved, then exit
  Killable,  \* those that may get a SIGINT, or whose sc_join may fail half way
  Lagging,   \* those that may be scheduled out between leaving the group in
             \* sc_killLocalProc and the end of exit()
  Growers,   \* those that call sc_malloc when its free list has no room
  NoRoom,    \* those whose address space may be in conflict with a new range,
             \* or that may run out of memory when they post one
  NoProc     \* nobody: the holder of a free lock

ASSUME ProcsAssumption ==
  /\ IsFiniteSet(Procs)
  /\ Founders \subseteq Procs
  /\ Ctl \subseteq Procs
  /\ Killable \subseteq Procs
  /\ Lagging \subseteq Procs
  /\ Growers \subseteq Procs
  /\ NoRoom \subseteq Procs
  /\ NoProc \notin Procs

VARIABLES
  \* the root control struct, in shared memory
  rootEx,                \* who holds sc->lock exclusive between two actions
  rootSh,                \* the background threads that hold sc->lock shared
  mallocLock,            \* who holds sc->malloc_md->lock between two actions
  proc_count,
  prealloc_proc,         \* is there an sc_process for the next joiner?
  pending_reservation,
  reserved_regions,
  cleanupLog,
  cleanupLog_lastSeqNum,
  \* the private memory of each process
  local_cleanupLog_flushPoint,
  mapped,                \* the posted ranges it holds an mmap() of
  joinedAt,              \* history: lastSeqNum when it entered the group
  ctlSaw,                \* the local "pending" of subcontexts_ctl's wait loop
  main,
  bg

flush == local_cleanupLog_flushPoint

root == <<proc_count, prealloc_proc, pending_reservation, reserved_regions>>
log == <<cleanupLog, cleanupLog_lastSeqNum>>
locks == <<rootEx, rootSh, mallocLock>>
local == <<local_cleanupLog_flushPoint, mapped, joinedAt, ctlSaw>>
vars == <<locks, root, log, local, main, bg>>

(***************************************************************************)
(* Main thread: out of the group; joining (sc_join, before line 691);      *)
(* failed to join; registered (counted, no handlers yet); starting (its    *)
(* background thread runs, it is not yet in sc_local_list); user; grow: in *)
(* sc_malloc, about to call sc_mmap; the states of subcontexts_ctl:        *)
(* ctlWait, ctlSleep, posted; kill and leaving in sc_killLocalProc; dead.  *)
(* leaked: gone without leaving the group.  aborted: an assertion failed.  *)
(* stuck: waits, with the root lock, for a lock that never comes free.     *)
(***************************************************************************)
MainStates == {"out", "joining", "failed", "registered", "starting", "leaked",
               "user", "grow", "ctlWait", "ctlSleep", "posted", "kill", "leaving",
               "dead", "aborted", "stuck"}

\* The processes that proc_count counts.
Uncounted == {"out", "joining", "failed", "leaving", "dead"}
Counted == {p \in Procs : main[p] \notin Uncounted}

\* The processes that are counted and still run.
Members == {p \in Procs : main[p] \notin Uncounted \cup {"leaked", "aborted"}}

(***************************************************************************)
(* Background thread: check and asleep in the futex wait of line 2136;     *)
(* lock: about to take the root lock; haveRoot: holds it shared; locked:   *)
(* holds the lock of a step; done and doneLast: has acknowledged it, not   *)
(* yet unlocked it; cleanup: needListCleanup is set; cleaning: holds the   *)
(* root lock exclusive; dying: hit the TODO() of line 2487; dead, or cut   *)
(* off by the end of the process while it held a lock or had to clean up.  *)
(***************************************************************************)
BgStates == {"none", "check", "asleep", "lock", "haveRoot", "locked", "done",
             "doneLast", "cleanup", "cleaning", "dying", "dead", "cut"}

HoldsStep(p) == bg[p] \in {"locked", "done", "doneLast", "dying"}
Cleaner(p) == bg[p] \in {"doneLast", "cleanup", "cleaning"}

Step == [seqNum : Nat, ack_targ : Nat, ack_count : Nat,
         lock : Procs \cup {NoProc}]

RootFree == rootEx = NoProc /\ rootSh = {}

Init ==
  /\ rootEx = NoProc
  /\ rootSh = {}
  /\ mallocLock = NoProc
  /\ proc_count = Cardinality(Founders)
  /\ prealloc_proc = TRUE
  /\ pending_reservation = 0
  /\ reserved_regions = {}
  /\ cleanupLog = << >>
  /\ cleanupLog_lastSeqNum = 1
  /\ local_cleanupLog_flushPoint = [p \in Procs |-> IF p \in Founders THEN 1 ELSE 0]
  /\ mapped = [p \in Procs |-> {}]
  /\ joinedAt = [p \in Procs |-> IF p \in Founders THEN 1 ELSE 0]
  /\ ctlSaw = [p \in Procs |-> 0]
  /\ main = [p \in Procs |-> IF p \in Founders THEN "user" ELSE "out"]
  /\ bg = [p \in Procs |-> IF p \in Founders THEN "check" ELSE "none"]

-----------------------------------------------------------------------------
(* What several operations share                                           *)

\* The background thread ends with its process, wherever it is.
EndOf(state) ==
  IF state \in {"haveRoot", "locked", "done", "doneLast", "cleanup", "cleaning", "dying"}
  THEN "cut" ELSE "dead"

\* A failed assert() in thread code of p: the process dies where it stands,
\* the locks it holds in shared memory stay held, the group still counts it.
Abort(p) ==
  /\ main' = [main EXCEPT ![p] = IF @ = "leaving" THEN "dead" ELSE "aborted"]
  /\ bg' = [bg EXCEPT ![p] = EndOf(@)]
  /\ UNCHANGED <<root, log, local>>

\* russ_futex_wakeup64 on cleanupLog_lastSeqNum: wake at most 2 * proc_count of
\* the background threads that sleep there, whichever the kernel picks.
Sleepers == {p \in Procs : bg[p] = "asleep"}

MUT_Wake_one ==
  \E w \in SUBSET Sleepers :
    /\ Cardinality(w) <= 1
    /\ w = Sleepers \/ Cardinality(w) = 1
    /\ bg' = [p \in Procs |-> IF p \in w THEN "lock" ELSE bg[p]]

Wake ==
  \E w \in SUBSET Sleepers :
    /\ Cardinality(w) <= 2 * proc_count
    /\ w = Sleepers \/ Cardinality(w) = 2 * proc_count
    /\ bg' = [p \in Procs |-> IF p \in w THEN "lock" ELSE bg[p]]

-----------------------------------------------------------------------------
(* sc_postNewReservation, called by subcontexts_ctl                        *)

CtlRuns(p) ==
  /\ p \in Ctl
  /\ main[p] = "user"
  /\ RootFree

\* A reservation is pending: remember the pointer, unlock, and wait for it.
CtlWait(p) ==
  /\ CtlRuns(p)
  /\ pending_reservation # 0
  /\ main' = [main EXCEPT ![p] = "ctlWait"]
  /\ ctlSaw' = [ctlSaw EXCEPT ![p] = pending_reservation]
  /\ UNCHANGED <<locks, root, log, local_cleanupLog_flushPoint, mapped, joinedAt, bg>>

\* The futex call on pending_reservation: sleep if it still has the value seen,
\* else go back and take the lock.  Nothing ever wakes this futex.
CtlFutex(p) ==
  /\ main[p] = "ctlWait"
  /\ main' = [main EXCEPT ![p] =
                IF pending_reservation = ctlSaw[p] THEN "ctlSleep" ELSE "user"]
  /\ UNCHANGED <<locks, root, log, local, bg>>

\* The checks at the head of sc_postNewReservation have passed.
MUT_CanPost_pending(p) ==
  /\ CtlRuns(p)
  /\ proc_count > 1
  /\ flush[p] = cleanupLog_lastSeqNum

CanPost(p) ==
  /\ CtlRuns(p)
  /\ pending_reservation = 0
  /\ proc_count > 1
  /\ flush[p] = cleanupLog_lastSeqNum

NewStep(p) == [seqNum |-> cleanupLog_lastSeqNum + 1, ack_targ |-> proc_count,
               ack_count |-> 1, lock |-> NoProc]

Post(p) ==
  /\ CanPost(p)
  /\ mallocLock = NoProc
  /\ cleanupLog' = Append(cleanupLog, NewStep(p))
  /\ cleanupLog_lastSeqNum' = cleanupLog_lastSeqNum + 1
  /\ pending_reservation' = cleanupLog_lastSeqNum + 1
  /\ local_cleanupLog_flushPoint' = [flush EXCEPT ![p] = @ + 1]
  /\ mapped' = [mapped EXCEPT ![p] = @ \cup {cleanupLog_lastSeqNum + 1}]
  /\ Wake
  /\ main' = [main EXCEPT ![p] = "posted"]
  /\ UNCHANGED <<locks, proc_count, prealloc_proc, reserved_regions, joinedAt, ctlSaw>>

\* sc_malloc or sc_getFreeRegion returned NULL: nothing was posted.
PostFails(p) ==
  /\ CanPost(p)
  /\ mallocLock = NoProc
  /\ p \in NoRoom
  /\ main' = [main EXCEPT ![p] = "posted"]
  /\ UNCHANGED <<locks, root, log, local, bg>>

\* assert(proc_count > 1): nobody else is in the group.
PostAlone(p) ==
  /\ CtlRuns(p)
  /\ pending_reservation = 0
  /\ proc_count <= 1
  /\ rootEx' = p
  /\ UNCHANGED <<rootSh, mallocLock>>
  /\ Abort(p)

\* A TODO() or a SIGINT while the root lock is held: sc_killLocalProc waits for
\* the lock of its own thread.  The TODO()s are the one for unflushed entries
\* and the ones for a failed mmap() or an exhausted pool of regions.  sc_malloc
\* waits for the root lock of its own thread too when it has to call sc_mmap;
\* and it waits for ever for a malloc lock whose holder wants the root lock.
PostStuck(p) ==
  /\ CtlRuns(p)
  /\ \/ p \in Killable
     \/ /\ pending_reservation = 0
        /\ proc_count > 1
        /\ \/ flush[p] # cleanupLog_lastSeqNum
           \/ p \in NoRoom \cup Growers
           \/ mallocLock # NoProc
  /\ rootEx' = p
  /\ main' = [main EXCEPT ![p] = "stuck"]
  /\ UNCHANGED <<rootSh, mallocLock, root, log, local, bg>>

-----------------------------------------------------------------------------
(* sc_malloc, when it has to call sc_mmap (module ScMemory has the rest)   *)

\* Nothing on the free list is large enough: go on to sc_mmap with the lock.
GrowStart(p) ==
  /\ p \in Growers
  /\ main[p] = "user"
  /\ mallocLock = NoProc
  /\ mallocLock' = p
  /\ main' = [main EXCEPT ![p] = "grow"]
  /\ UNCHANGED <<rootEx, rootSh, root, log, local, bg>>

\* sc_mmap under the root lock; then the rest of sc_malloc.
Grow(p) ==
  /\ main[p] = "grow"
  /\ RootFree
  /\ cleanupLog = << >>
  /\ mallocLock' = NoProc
  /\ main' = [main EXCEPT ![p] = "user"]
  /\ UNCHANGED <<rootEx, rootSh, root, log, local, bg>>

\* The log has a step: TODO() in sc_mmap, with both locks held.
GrowStuck(p) ==
  /\ main[p] = "grow"
  /\ RootFree
  /\ cleanupLog # << >>
  /\ rootEx' = p
  /\ main' = [main EXCEPT ![p] = "stuck"]
  /\ UNCHANGED <<rootSh, mallocLock, root, log, local, bg>>

-----------------------------------------------------------------------------
(* sc_backgroundThread                                                     *)

\* The futex on cleanupLog_lastSeqNum, read without a lock.
BgFutex(p) ==
  /\ bg[p] = "check"
  /\ bg' = [bg EXCEPT ![p] =
              IF cleanupLog_lastSeqNum = flush[p] THEN "asleep" ELSE "lock"]
  /\ UNCHANGED <<locks, root, log, local, main>>

\* Take the root lock shared.  Somebody may have flushed the step meanwhile:
\* then unlock and wait again.
BgNothingNew(p) ==
  /\ bg[p] = "lock"
  /\ rootEx = NoProc
  /\ cleanupLog_lastSeqNum = flush[p]
  /\ bg' = [bg EXCEPT ![p] = "check"]
  /\ UNCHANGED <<locks, root, log, local, main>>

\* There is something new: assert that the log has an entry, and keep the lock.
BgLockRoot(p) ==
  /\ bg[p] = "lock"
  /\ rootEx = NoProc
  /\ cleanupLog_lastSeqNum # flush[p]
  /\ rootSh' = rootSh \cup {p}
  /\ UNCHANGED <<rootEx, mallocLock>>
  /\ IF cleanupLog = << >>
     THEN Abort(p)
     ELSE /\ bg' = [bg EXCEPT ![p] = "haveRoot"]
          /\ UNCHANGED <<root, log, local, main>>

\* Lock the first step, then let the root go.
BgLockStep(p) ==
  /\ bg[p] = "haveRoot"
  /\ cleanupLog[1].lock = NoProc
  /\ cleanupLog' = [cleanupLog EXCEPT ![1].lock = p]
  /\ rootSh' = rootSh \ {p}
  /\ bg' = [bg EXCEPT ![p] = "locked"]
  /\ UNCHANGED <<rootEx, mallocLock, root, cleanupLog_lastSeqNum, local, main>>

\* The assertions on the locked step, before and after the mmap(): it is the
\* next one for this process, and it still wants an acknowledgement.  (A log
\* with several steps would be walked from the first one to seqNum flush + 1;
\* OneReservation says that the log never has several.)
StepIsNext(p) == cleanupLog[1].seqNum = flush[p] + 1
StepWantsAck == cleanupLog[1].ack_count < cleanupLog[1].ack_targ

BgStepAssertFails(p) ==
  /\ bg[p] = "locked"
  /\ ~ (StepIsNext(p) /\ StepWantsAck)
  /\ Abort(p)
  /\ UNCHANGED locks

\* sc_handleCleanupLogStep maps the range; then acknowledge the step and record
\* that it is flushed.
MUT_BgAck_unmapped(p) ==
  /\ bg[p] = "locked"
  /\ StepIsNext(p) /\ StepWantsAck
  /\ cleanupLog' = [cleanupLog EXCEPT ![1].ack_count = @ + 1]
  /\ local_cleanupLog_flushPoint' = [flush EXCEPT ![p] = @ + 1]
  /\ bg' = [bg EXCEPT ![p] =
              IF cleanupLog[1].ack_count + 1 = cleanupLog[1].ack_targ
              THEN "doneLast" ELSE "done"]
  /\ UNCHANGED <<locks, root, cleanupLog_lastSeqNum, mapped, joinedAt, ctlSaw, main>>

MUT_BgAck_last(p) ==
  /\ bg[p] = "locked"
  /\ StepIsNext(p) /\ StepWantsAck
  /\ mapped' = [mapped EXCEPT ![p] = @ \cup {cleanupLog[1].seqNum}]
  /\ cleanupLog' = [cleanupLog EXCEPT ![1].ack_count = @ + 1]
  /\ local_cleanupLog_flushPoint' = [flush EXCEPT ![p] = @ + 1]
  /\ bg' = [bg EXCEPT ![p] =
              IF cleanupLog[1].ack_count + 2 >= cleanupLog[1].ack_targ
              THEN "doneLast" ELSE "done"]
  /\ UNCHANGED <<locks, root, cleanupLog_lastSeqNum, joinedAt, ctlSaw, main>>

BgAck(p) ==
  /\ bg[p] = "locked"
  /\ StepIsNext(p) /\ StepWantsAck
  /\ mapped' = [mapped EXCEPT ![p] = @ \cup {cleanupLog[1].seqNum}]
  /\ cleanupLog' = [cleanupLog EXCEPT ![1].ack_count = @ + 1]
  /\ local_cleanupLog_flushPoint' = [flush EXCEPT ![p] = @ + 1]
  /\ bg' = [bg EXCEPT ![p] =
              IF cleanupLog[1].ack_count + 1 = cleanupLog[1].ack_targ
              THEN "doneLast" ELSE "done"]
  /\ UNCHANGED <<locks, root, cleanupLog_lastSeqNum, joinedAt, ctlSaw, main>>

\* The range is taken in this process: TODO().  The SEGV handler calls
\* sc_killLocalProc on the background thread, which waits there for itself.
BgConflict(p) ==
  /\ bg[p] = "locked"
  /\ StepIsNext(p)
  /\ p \in NoRoom
  /\ bg' = [bg EXCEPT ![p] = "dying"]
  /\ UNCHANGED <<locks, root, log, local, main>>

BgUnlockStep(p) ==
  /\ bg[p] \in {"done", "doneLast"}
  /\ cleanupLog' = [cleanupLog EXCEPT ![1].lock = NoProc]
  /\ bg' = [bg EXCEPT ![p] = IF @ = "done" THEN "check" ELSE "cleanup"]
  /\ UNCHANGED <<locks, root, cleanupLog_lastSeqNum, local, main>>

\* needListCleanup: take the root lock exclusive and keep it ...
MUT_BgCleanupLock_shared(p) ==
  /\ bg[p] = "cleanup"
  /\ rootEx = NoProc
  /\ rootEx' = p
  /\ bg' = [bg EXCEPT ![p] = "cleaning"]
  /\ UNCHANGED <<rootSh, mallocLock, root, log, local, main>>

BgCleanupLock(p) ==
  /\ bg[p] = "cleanup"
  /\ RootFree
  /\ rootEx' = p
  /\ bg' = [bg EXCEPT ![p] = "cleaning"]
  /\ UNCHANGED <<rootSh, mallocLock, root, log, local, main>>

\* ... lock the first step, publish its range and sc_free() it.  The assertions
\* say that there is a step, that it is complete, and that it belongs to the
\* pending reservation.
CleanupIsSound ==
  /\ cleanupLog # << >>
  /\ cleanupLog[1].ack_count = cleanupLog[1].ack_targ
  /\ pending_reservation = cleanupLog[1].seqNum

BgCleanup(p) ==
  /\ bg[p] = "cleaning"
  /\ cleanupLog = << >> \/ cleanupLog[1].lock = NoProc
  /\ IF CleanupIsSound
     THEN /\ mallocLock = NoProc
          /\ reserved_regions' = reserved_regions \cup {pending_reservation}
          /\ pending_reservation' = 0
          /\ cleanupLog' = Tail(cleanupLog)
          /\ rootEx' = NoProc
          /\ bg' = [bg EXCEPT ![p] = "check"]
          /\ UNCHANGED <<rootSh, mallocLock, proc_count, prealloc_proc,
                         cleanupLog_lastSeqNum, local, main>>
     ELSE Abort(p) /\ UNCHANGED locks

-----------------------------------------------------------------------------
(* sc_killLocalProc                                                        *)

\* A SIGINT in the main thread (outside sc_malloc), or the TODO() that ends
\* subcontexts_ctl.
KillStart(p) ==
  /\ \/ main[p] = "posted"
     \/ main[p] \in {"user", "ctlWait", "ctlSleep"} /\ p \in Killable
  /\ main' = [main EXCEPT ![p] = "kill"]
  /\ UNCHANGED <<locks, root, log, local, bg>>

\* The wait loop ends when the background thread has flushed the log; then leave
\* the group.  Unless the process lags, the sc_free() of its sc_process and
\* exit() follow at once and end both threads; a lock of the background thread
\* stays held.
MUT_KillLeave_nowait(p) ==
  /\ main[p] = "kill"
  /\ RootFree
  /\ proc_count' = proc_count - 1
  /\ main' = [main EXCEPT ![p] = IF p \in Lagging THEN "leaving" ELSE "dead"]
  /\ bg' = [bg EXCEPT ![p] = IF p \in Lagging THEN @ ELSE EndOf(@)]
  /\ UNCHANGED <<locks, prealloc_proc, pending_reservation, reserved_regions, log, local>>

KillLeave(p) ==
  /\ main[p] = "kill"
  /\ RootFree
  /\ flush[p] = cleanupLog_lastSeqNum
  /\ p \in Lagging \/ mallocLock = NoProc
  /\ proc_count' = proc_count - 1
  /\ main' = [main EXCEPT ![p] = IF p \in Lagging THEN "leaving" ELSE "dead"]
  /\ bg' = [bg EXCEPT ![p] = IF p \in Lagging THEN @ ELSE EndOf(@)]
  /\ UNCHANGED <<locks, prealloc_proc, pending_reservation, reserved_regions, log, local>>

MUT_KillExit_decrement(p) ==
  /\ main[p] = "leaving"
  /\ proc_count' = proc_count - 1
  /\ main' = [main EXCEPT ![p] = "dead"]
  /\ bg' = [bg EXCEPT ![p] = EndOf(@)]
  /\ UNCHANGED <<locks, prealloc_proc, pending_reservation, reserved_regions, log, local>>

KillExit(p) ==
  /\ main[p] = "leaving"
  /\ mallocLock = NoProc
  /\ main' = [main EXCEPT ![p] = "dead"]
  /\ bg' = [bg EXCEPT ![p] = EndOf(@)]
  /\ UNCHANGED <<locks, root, log, local>>

-----------------------------------------------------------------------------
(* sc_join                                                                 *)

\* Claim prealloc_proc, save the heads of the region lists, map what they hold.
MUT_JoinClaim_keep(p) ==
  /\ main[p] = "out"
  /\ RootFree
  /\ prealloc_proc
  /\ mapped' = [mapped EXCEPT ![p] = reserved_regions]
  /\ main' = [main EXCEPT ![p] = "joining"]
  /\ UNCHANGED <<locks, root, log, local_cleanupLog_flushPoint, joinedAt, ctlSaw, bg>>

JoinClaim(p) ==
  /\ main[p] = "out"
  /\ RootFree
  /\ prealloc_proc
  /\ prealloc_proc' = FALSE
  /\ mapped' = [mapped EXCEPT ![p] = reserved_regions]
  /\ main' = [main EXCEPT ![p] = "joining"]
  /\ UNCHANGED <<locks, proc_count, pending_reservation, reserved_regions, log,
                 local_cleanupLog_flushPoint, joinedAt, ctlSaw, bg>>

\* prealloc_proc is NULL, or (once it is claimed) a range cannot be mapped, or
\* the process is interrupted: sc_join gives up and gives nothing back.
JoinFails(p) ==
  /\ \/ main[p] = "out" /\ RootFree /\ ~ prealloc_proc
     \/ main[p] = "joining" /\ p \in NoRoom \cup Killable
  /\ main' = [main EXCEPT ![p] = "failed"]
  /\ UNCHANGED <<locks, root, log, local, bg>>

\* Enter the group.  TODO() if a reservation is pending: the sc_local is not in the
\* list of the process yet, so the handler finds nothing to leave, and the process
\* ends counted.
MUT_JoinRegister_flush(p) ==
  /\ main[p] = "joining"
  /\ RootFree
  /\ proc_count' = proc_count + 1
  /\ main' = [main EXCEPT ![p] = IF pending_reservation # 0 THEN "leaked" ELSE "registered"]
  /\ UNCHANGED <<locks, prealloc_proc, pending_reservation, reserved_regions, log,
                 local, bg>>

JoinRegister(p) ==
  /\ main[p] = "joining"
  /\ RootFree
  /\ proc_count' = proc_count + 1
  /\ IF pending_reservation # 0
     THEN /\ main' = [main EXCEPT ![p] = "leaked"]
          /\ UNCHANGED <<local_cleanupLog_flushPoint, joinedAt>>
     ELSE /\ main' = [main EXCEPT ![p] = "registered"]
          /\ local_cleanupLog_flushPoint' = [flush EXCEPT ![p] = cleanupLog_lastSeqNum]
          /\ joinedAt' = [joinedAt EXCEPT ![p] = cleanupLog_lastSeqNum]
  /\ UNCHANGED <<locks, prealloc_proc, pending_reservation, reserved_regions, log,
                 mapped, ctlSaw, bg>>

\* scInit_setup_procListEntry hangs a new prealloc_proc in the root struct, and
\* scInit_setup_backgroundThread starts the thread.
JoinStart(p) ==
  /\ main[p] = "registered"
  /\ RootFree
  /\ mallocLock = NoProc
  /\ prealloc_proc' = TRUE
  /\ main' = [main EXCEPT ![p] = "starting"]
  /\ bg' = [bg EXCEPT ![p] = "check"]
  /\ UNCHANGED <<locks, proc_count, pending_reservation, reserved_regions, log, local>>

JoinDone(p) ==
  /\ main[p] = "starting"
  /\ main' = [main EXCEPT ![p] = "user"]
  /\ UNCHANGED <<locks, root, log, local, bg>>

\* A SIGINT before the process is in sc_local_list, or a setup function that
\* fails: sc_killLocalProc does not find the subcontext, the process just exits.
JoinLeaks(p) ==
  /\ main[p] \in {"registered", "starting"}
  /\ p \in Killable
  /\ main' = [main EXCEPT ![p] = "leaked"]
  /\ bg' = [bg EXCEPT ![p] = EndOf(@)]
  /\ UNCHANGED <<locks, root, log, local>>

-----------------------------------------------------------------------------

BgNext(p) ==
  \/ BgFutex(p) \/ BgNothingNew(p) \/ BgLockRoot(p) \/ BgLockStep(p)
  \/ BgStepAssertFails(p) \/ BgAck(p) \/ BgConflict(p) \/ BgUnlockStep(p)
  \/ BgCleanupLock(p) \/ BgCleanup(p)

MainNext(p) ==
  \/ CtlWait(p) \/ CtlFutex(p) \/ Post(p) \/ PostFails(p) \/ PostAlone(p) \/ PostStuck(p)
  \/ GrowStart(p) \/ Grow(p) \/ GrowStuck(p)
  \/ KillStart(p) \/ KillLeave(p) \/ KillExit(p)
  \/ JoinClaim(p) \/ JoinFails(p) \/ JoinRegister(p) \/ JoinStart(p) \/ JoinDone(p)
  \/ JoinLeaks(p)

Next == \E p \in Procs : BgNext(p) \/ MainNext(p)

\* Background threads run on whenever they can, and so does a main thread that
\* has entered the group in sc_join or has a lock in sc_malloc; nothing makes
\* another main thread act.
Fairness ==
  \A p \in Procs : /\ WF_vars(BgNext(p))
                   /\ WF_vars(JoinStart(p) \/ JoinDone(p))
                   /\ WF_vars(Grow(p) \/ GrowStuck(p))

Spec == Init /\ [][Next]_vars /\ Fairness

-----------------------------------------------------------------------------
(* Properties that hold whatever the processes do                          *)

\* The variables have their types: counters are naturals, the log is a sequence
\* of steps, and every thread is in one of its states.
TypeOK ==
  /\ rootEx \in Procs \cup {NoProc}
  /\ rootSh \in SUBSET Procs
  /\ mallocLock \in Procs \cup {NoProc}
  /\ proc_count \in Nat
  /\ prealloc_proc \in BOOLEAN
  /\ pending_reservation \in Nat
  /\ reserved_regions \in SUBSET Nat
  /\ cleanupLog \in Seq(Step)
  /\ cleanupLog_lastSeqNum \in Nat
  /\ local_cleanupLog_flushPoint \in [Procs -> Nat]
  /\ mapped \in [Procs -> SUBSET Nat]
  /\ joinedAt \in [Procs -> Nat]
  /\ ctlSaw \in [Procs -> Nat]
  /\ main \in [Procs -> MainStates]
  /\ bg \in [Procs -> BgStates]

\* "Only one in-progress reservation is allowed at any time": the log never has
\* two steps, pending_reservation is set exactly while it has one, and then the
\* two name the same range.  So the hop code of sc_backgroundThread and its
\* loop over further steps never run.
OneReservation ==
  /\ Len(cleanupLog) <= 1
  /\ pending_reservation = IF cleanupLog = << >> THEN 0 ELSE cleanupLog[1].seqNum
  /\ pending_reservation # 0 => pending_reservation = cleanupLog_lastSeqNum

\* sc_free() of a step never takes it from under a background thread that has
\* read sc->cleanupLog and waits for the step's lock, or that holds that lock.
NoUseAfterFree ==
  \A p \in Procs :
    /\ bg[p] = "haveRoot" => cleanupLog # << >>
    /\ HoldsStep(p) => cleanupLog # << >> /\ cleanupLog[1].lock = p

\* "It is impossible for two different threads to both be doing cleanup at the
\* same time"; and what the one that does it asserts under its locks is true
\* from the moment it gives the last acknowledgement.
OneCleaner ==
  \A p \in Procs : Cleaner(p) =>
    /\ CleanupIsSound
    /\ \A q \in Procs : Cleaner(q) => q = p

\* A process leaves the group only after it has flushed the log, so a step never
\* waits for the acknowledgement of a process that has left: whatever is still
\* missing is owed by processes that are counted and have not flushed the step.
NoLostAck ==
  cleanupLog # << >> =>
    cleanupLog[1].ack_targ - cleanupLog[1].ack_count
      <= Cardinality({p \in Counted : flush[p] < cleanupLog[1].seqNum})

\* Two racing joiners never claim the same sc_process: between the claim and the
\* new prealloc_proc there is none to claim, as scInit_setup_procListEntry asserts.
Claims(p) == main[p] \in {"joining", "registered"}

OneClaim ==
  \A p \in Procs : Claims(p) =>
    /\ ~ prealloc_proc
    /\ \A q \in Procs : Claims(q) => q = p

-----------------------------------------------------------------------------
(* Properties that need the end of a process to follow at once when it has *)
(* left the group (Lagging = {})                                           *)

\* Every range in reserved_regions that was posted since a process entered the
\* group is mapped by that process.
ReservedSinceJoin ==
  \A p \in Members : \A r \in reserved_regions : r > joinedAt[p] => r \in mapped[p]

\* The assertions of sc_backgroundThread hold: a thread that has work to do finds
\* a step in the log, the step is the next one for its process, and it still
\* wants an acknowledgement.
AssertionsHold ==
  \A p \in Procs :
    /\ bg[p] = "lock" /\ cleanupLog_lastSeqNum # flush[p] => cleanupLog # << >>
    /\ bg[p] = "locked" => StepIsNext(p) /\ StepWantsAck

\* The log implements the promise of module Reservation: a range is published
\* only when every member has mapped it, whoever acknowledges, cleans up, leaves
\* or fails in between.  (Without joiners: see ReservedEverywhere.)
Promise == INSTANCE Reservation WITH
  group <- Members, pending <- pending_reservation,
  available <- reserved_regions, held <- mapped

ImplementsReservation == Promise!RSpec

-----------------------------------------------------------------------------
(* Liveness                                                                *)

\* A posted reservation is completed, and its step freed, unless a process of
\* the group is broken: its background thread was cut off at work or hit the
\* TODO() for a conflict, or it leaked out of the group, aborted, or waits for
\* itself; or unless the thread that cleans up has the root lock and wants the
\* malloc lock while a process in sc_malloc has that one and wants the root
\* lock.  No wake-up of a background thread is lost, and there is no other
\* deadlock.
Broken(p) == bg[p] \in {"cut", "dying"} \/ main[p] \in {"leaked", "aborted", "stuck"}
Embrace == \E p, q \in Procs : bg[p] = "cleaning" /\ main[q] = "grow"

CompletesUnlessBroken ==
  pending_reservation # 0 ~>
    pending_reservation = 0 \/ Embrace \/ \E p \in Procs : Broken(p)

-----------------------------------------------------------------------------
(* What the comments promise and some schedules break                      *)

\* "All processes agree" that the addresses in reserved_regions are not in use:
\* every process of the group has them mapped (subcontexts_control.h:88-91).
ReservedEverywhere == \A p \in Members : reserved_regions \subseteq mapped[p]
=============================================================================
