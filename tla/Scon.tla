-------------------------------- MODULE Scon --------------------------------
(***************************************************************************)
(* Subcontexts within one process (src/scon.c, src/_scbtable.c and         *)
(* src/mem/map.c): scon_create opens a library and takes all access to the *)
(* areas of memory that this added to /proc/self/maps; the SIGSEGV handler *)
(* gives access back, area by area, when a function called by scon_callf   *)
(* touches them; scon_callf takes it away again when the function returns. *)
(*                                                                         *)
(* The program has one thread.  Its stack is a sequence of calls into      *)
(* libraries: functions called by scon_callf and constructors run by       *)
(* dlopen.  Code of the program itself runs when the stack is empty.  An   *)
(* area of memory is a pair <<start, end>>.  The loader (external) maps a  *)
(* library at the addresses that AreasOf gives.                            *)
(***************************************************************************)
EXTENDS Integers, Sequences, FiniteSets

CONSTANTS
  Libs,        \* the libraries
  AreasOf,     \* the areas that a library occupies, with what it depends on
  Reopened,    \* the libraries that are opened again while they are loaded
  CtorLibs,    \* the libraries whose constructors use subcontexts themselves
  HeapEnds,    \* the ends of the heap, which starts at 0, as it grows
  Capacity,    \* the first capacity of the table, 10 in the code
  MaxScons,    \* bounds of the model: how many subcontexts are created,
  MaxDepth     \* and how deep the stack is

ASSUME SconAssumption ==
  /\ AreasOf \in [Libs -> SUBSET (Nat \X Nat)]
  /\ Reopened \subseteq Libs
  /\ CtorLibs \subseteq Libs
  /\ HeapEnds \subseteq Nat \ {0} /\ HeapEnds # {}
  /\ Capacity \in Nat \ {0}
  /\ MaxScons \in Nat
  /\ \A l \in Libs : \A a \in AreasOf[l] : \A e \in HeapEnds : a[1] >= e

VARIABLES
  scb_table,   \* a sequence of scbs
  capacity,
  loaded,      \* the loader's count of dlopen()s for each library
  noAccess,    \* the areas that are PROT_NONE
  heapEnd,
  stack,
  status       \* running, exited by exit(1), or killed by a second SIGSEGV

vars == <<scb_table, capacity, loaded, noAccess, heapEnd, stack, status>>

Area == Nat \X Nat

\* An scb: its memmap is NULL until scon_create has made it, and points to freed
\* memory after scon_close.
Scb == [lib : Libs, memmap : SUBSET Area, state : {"null", "open", "freed"}]

\* A call into a library, with the pointer that scon_create or scon_callf keeps to
\* the scb: it is stale when realloc() has moved the table since.
Frame == [kind : {"call", "ctor"}, scon : Nat, before : SUBSET Area, stale : BOOLEAN]

Handles == 1 .. Len(scb_table)
Open == {h \in Handles : scb_table[h].state = "open"}

\* /proc/self/maps, as Map_parse reads it.
Heap == <<0, heapEnd>>
LibAreas(count) == UNION {AreasOf[l] : l \in {m \in Libs : count[m] > 0}}
Maps == {Heap} \cup LibAreas(loaded)

\* What is in "after" and not in "before"; two entries are the same if they start
\* and end at the same addresses.
MapEntry_equal(a, b) == a = b

MUT_Map_diff_all(before, after) == after \ {Heap}

Map_diff(before, after) ==
  {a \in after : \A b \in before : ~ MapEntry_equal(b, a)}

Init ==
  /\ scb_table = << >>
  /\ capacity = Capacity
  /\ loaded = [l \in Libs |-> 0]
  /\ noAccess = {}
  /\ heapEnd \in {e \in HeapEnds : \A f \in HeapEnds : e <= f}
  /\ stack = << >>
  /\ status = "running"

Top == stack[Len(stack)]
Pop == SubSeq(stack, 1, Len(stack) - 1)

\* Whose code runs: the program's or that of a constructor that knows of
\* subcontexts may call this library; so may any function, of another subcontext.
MayCall ==
  /\ status = "running"
  /\ Len(stack) < MaxDepth
  /\ stack # << >> /\ Top.kind = "ctor" => scb_table[Top.scon].lib \in CtorLibs

-----------------------------------------------------------------------------

\* allocate_scb: realloc() a table that is half full; it may move.
Grows == Len(scb_table) + 1 >= capacity \div 2
Moved(frames) == [i \in DOMAIN frames |-> [frames[i] EXCEPT !.stale = TRUE]]

\* scon_create: allocate_scb, which clears the scb; read the maps; dlopen, which
\* runs the constructors of a library that was not loaded.  Meanwhile the heap may
\* grow.  (dlopen fails: exit.)
CreateBegin(lib) ==
  /\ MayCall
  /\ Len(scb_table) < MaxScons
  /\ lib \in Reopened \/ loaded[lib] = 0
  /\ scb_table' = Append(scb_table, [lib |-> lib, memmap |-> {}, state |-> "null"])
  /\ capacity' = IF Grows THEN 2 * capacity ELSE capacity
  /\ \E frames \in {stack} \cup (IF Grows THEN {Moved(stack)} ELSE {}) :
       stack' = Append(frames, [kind |-> "ctor", scon |-> Len(scb_table) + 1,
                                before |-> Maps, stale |-> FALSE])
  /\ loaded' = [loaded EXCEPT ![lib] = @ + 1]
  /\ heapEnd' \in {e \in HeapEnds : e >= heapEnd}
  /\ UNCHANGED <<noAccess, status>>

CreateFails ==
  /\ MayCall
  /\ status' = "exited"
  /\ UNCHANGED <<scb_table, capacity, loaded, noAccess, heapEnd, stack>>

\* Read the maps again, keep the difference and protect it.  If the heap is in it
\* the loop faults on its own list, and the handler faults on the table.  A stale
\* pointer takes libhandle and memmap to where the table was: the scb stays empty.
CreateEnd ==
  /\ status = "running"
  /\ stack # << >>
  /\ Top.kind = "ctor"
  /\ LET added == Map_diff(Top.before, Maps)
     IN /\ scb_table' = IF Top.stale THEN scb_table
                        ELSE [scb_table EXCEPT ![Top.scon].memmap = added,
                                               ![Top.scon].state = "open"]
        /\ noAccess' = noAccess \cup added
        /\ status' = IF Heap \in added THEN "killed" ELSE "running"
  /\ stack' = Pop
  /\ UNCHANGED <<capacity, loaded, heapEnd>>

\* The subcontexts whose scb stayed empty.
Lost ==
  {h \in Handles : scb_table[h].state = "null" /\ \A i \in DOMAIN stack : stack[i].scon # h}

\* scon_callf: dlsym and the call; the function is missing (dlsym returns NULL and
\* NULL is called: the handler exits).
Call(h) ==
  /\ MayCall
  /\ h \in Open
  /\ stack' = Append(stack, [kind |-> "call", scon |-> h, before |-> {},
                           stale |-> FALSE])
  /\ UNCHANGED <<scb_table, capacity, loaded, noAccess, heapEnd, status>>

CallMissing(h) ==
  /\ MayCall
  /\ h \in Open
  /\ status' = "exited"
  /\ UNCHANGED <<scb_table, capacity, loaded, noAccess, heapEnd, stack>>

\* A call through an empty scb, or its scon_close, follows a memmap that is NULL.
UseLost(h) ==
  /\ MayCall
  /\ h \in Lost
  /\ status' = "killed"
  /\ UNCHANGED <<scb_table, capacity, loaded, noAccess, heapEnd, stack>>

\* A function returns to a scon_callf whose pointer is stale, and something else is
\* there now.
ReturnStale ==
  /\ status = "running"
  /\ stack # << >>
  /\ Top.kind = "call"
  /\ Top.stale
  /\ status' = "killed"
  /\ UNCHANGED <<scb_table, capacity, loaded, noAccess, heapEnd, stack>>

\* The function returns; scon_callf takes the access to the subcontext away.
MUT_Return_keep ==
  /\ status = "running"
  /\ stack # << >>
  /\ Top.kind = "call"
  /\ noAccess' = IF Len(stack) > 1 THEN noAccess
                 ELSE noAccess \cup scb_table[Top.scon].memmap
  /\ stack' = Pop
  /\ UNCHANGED <<scb_table, capacity, loaded, heapEnd, status>>

Return ==
  /\ status = "running"
  /\ stack # << >>
  /\ Top.kind = "call"
  /\ noAccess' = noAccess \cup scb_table[Top.scon].memmap
  /\ stack' = Pop
  /\ UNCHANGED <<scb_table, capacity, loaded, heapEnd, status>>

-----------------------------------------------------------------------------
(* sigsegv_handler                                                         *)

\* The running library touches an area that it may not access.  The handler scans
\* the table: an scb before the one that has the area is read through its memmap.
Touches(area) ==
  /\ status = "running"
  /\ stack # << >>
  /\ area \in noAccess \cap AreasOf[scb_table[Top.scon].lib]

Scanned(area) ==
  {h \in Handles : \A g \in 1 .. h - 1 : ~ (g \in Open /\ area \in scb_table[g].memmap)}

Found(area) == \E h \in Open : area \in scb_table[h].memmap

\* It gives access to the whole area.  A freed memmap may read as an empty one.
FaultHandled(area) ==
  /\ Touches(area)
  /\ Found(area)
  /\ \A h \in Scanned(area) : scb_table[h].state # "null"
  /\ noAccess' = noAccess \ {area}
  /\ UNCHANGED <<scb_table, capacity, loaded, heapEnd, stack, status>>

\* It follows a NULL or a freed memmap, and faults itself.
FaultKills(area) ==
  /\ Touches(area)
  /\ \E h \in Scanned(area) : scb_table[h].state # "open"
  /\ status' = "killed"
  /\ UNCHANGED <<scb_table, capacity, loaded, noAccess, heapEnd, stack>>

-----------------------------------------------------------------------------

\* scon_close of a subcontext in which nobody runs: give access back, dlclose,
\* and free the memmap.  The scb stays in the table.
Active(h) == \E i \in DOMAIN stack : stack[i].scon = h

MUT_Close_protected(h) ==
  /\ MayCall
  /\ h \in Open
  /\ ~ Active(h)
  /\ loaded' = [loaded EXCEPT ![scb_table[h].lib] = @ - 1]
  /\ noAccess' = noAccess \cap LibAreas(loaded')
  /\ scb_table' = [scb_table EXCEPT ![h].state = "freed", ![h].memmap = {}]
  /\ UNCHANGED <<capacity, heapEnd, stack, status>>

MUT_Close_again(h) ==
  /\ MayCall
  /\ h \in Open
  /\ ~ Active(h)
  /\ loaded' = [loaded EXCEPT ![scb_table[h].lib] = @ - 1]
  /\ noAccess' = noAccess \ scb_table[h].memmap
  /\ UNCHANGED <<scb_table, capacity, heapEnd, stack, status>>

Close(h) ==
  /\ MayCall
  /\ h \in Open
  /\ ~ Active(h)
  /\ loaded' = [loaded EXCEPT ![scb_table[h].lib] = @ - 1]
  /\ noAccess' = (noAccess \ scb_table[h].memmap) \cap LibAreas(loaded')
  /\ scb_table' = [scb_table EXCEPT ![h].state = "freed", ![h].memmap = {}]
  /\ UNCHANGED <<capacity, heapEnd, stack, status>>

Next ==
  \/ \E l \in Libs : CreateBegin(l)
  \/ CreateFails \/ CreateEnd \/ Return \/ ReturnStale
  \/ \E h \in Handles : Call(h) \/ CallMissing(h) \/ UseLost(h) \/ Close(h)
  \/ \E a \in noAccess : FaultHandled(a) \/ FaultKills(a)

Spec == Init /\ [][Next]_vars

-----------------------------------------------------------------------------

\* The variables have their types; the loader's counts never go below zero, and the
\* table has room for all its scbs.
TypeOK ==
  /\ scb_table \in Seq(Scb) /\ Len(scb_table) <= capacity
  /\ capacity \in Nat
  /\ loaded \in [Libs -> Nat]
  /\ noAccess \in SUBSET Area
  /\ heapEnd \in HeapEnds
  /\ stack \in Seq(Frame)
  /\ status \in {"running", "exited", "killed"}

\* Whatever has been taken away can be given back: every area without access is in
\* the live memmap of a subcontext, so the handler finds it and a function that
\* touches it does not end in "scon segmentation fault"; unless the memmap of a
\* subcontext has gone astray because its constructor moved the table.
FaultsAreFound == status = "running" /\ Lost = {} => \A a \in noAccess : Found(a)

\* A library that has nothing in common with another and is opened once at a time.
OnItsOwn(lib) ==
  /\ lib \notin Reopened
  /\ \A l \in Libs \ {lib} : AreasOf[l] \cap AreasOf[lib] = {}

\* "After function call is made, turn off memory permission": when a function
\* returns, nothing of its library is accessible, if the library is on its own.  (A
\* second subcontext of a library has an empty memmap, and protects nothing.)
ReturnProtects ==
  [][Return /\ OnItsOwn(scb_table[Top.scon].lib)
       => AreasOf[scb_table[Top.scon].lib] \subseteq noAccess']_vars

\* The difference of the maps shows "what pages got added" by dlopen: a memmap has
\* nothing but areas of its library, and none that is in another live memmap.  (Two
\* exceptions: what a constructor opens is in the difference of its library too, and
\* so is a heap that grew meanwhile, which scon_create does not survive.)
MemmapsApart ==
  LET Plain == {h \in Open : scb_table[h].lib \notin CtorLibs}
  IN status = "running" =>
       \A h \in Plain :
         /\ scb_table[h].memmap \subseteq AreasOf[scb_table[h].lib]
         /\ \A g \in Plain \ {h} : scb_table[g].memmap \cap scb_table[h].memmap = {}

\* A function of an open subcontext can be called: no fault in it kills the
\* process, whatever other subcontexts were closed or are being created.
CallsSurvive == status # "killed"
=============================================================================
