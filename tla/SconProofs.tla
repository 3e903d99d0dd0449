----------------------------- MODULE SconProofs -----------------------------
(***************************************************************************)
(* Proofs about module Scon, for any libraries, any areas of memory, any   *)
(* capacity of the table and any depth of the calls.                       *)
(***************************************************************************)
EXTENDS Scon, FiniteSetTheorems, SequenceTheorems, TLAPS

StateOf(h) == scb_table[h].state
LibOf(h) == scb_table[h].lib

\* The loader counts the subcontexts of a library that are not closed.
Refs(lib) == {h \in Handles : LibOf(h) = lib /\ StateOf(h) # "freed"}
CountInv == \A lib \in Libs : loaded[lib] = Cardinality(Refs(lib))

\* A function runs in an open subcontext, a constructor in one of its own that is not
\* yet open.
FrameInv ==
  /\ \A i \in 1 .. Len(stack) :
       /\ stack[i].scon \in Handles
       /\ stack[i].kind = "call" => StateOf(stack[i].scon) = "open"
       /\ stack[i].kind = "ctor" => StateOf(stack[i].scon) = "null"
  /\ \A i, j \in 1 .. Len(stack) :
       stack[i].kind = "ctor" /\ stack[j].kind = "ctor" /\ stack[i].scon = stack[j].scon => i = j

\* The constructor of a library that does not use subcontexts runs alone: its library
\* is all that is mapped meanwhile, besides the heap.
PlainCtor(i, h) ==
  stack[i].kind = "ctor" /\ h = stack[i].scon /\ LibOf(h) \notin CtorLibs
PlainInv ==
  \A i \in 1 .. Len(stack) : \A h \in Handles : PlainCtor(i, h) =>
    /\ i = Len(stack)
    /\ Map_diff(stack[i].before, Maps) \subseteq {Heap} \cup AreasOf[LibOf(h)]
    /\ \A g \in Handles : StateOf(g) = "open" /\ LibOf(g) \notin CtorLibs =>
         scb_table[g].memmap \subseteq stack[i].before

\* All of a library that is on its own is new while it is opened, and in its memmap
\* afterwards.
OwnInv ==
  /\ \A i \in 1 .. Len(stack) : \A h \in Handles :
       stack[i].kind = "ctor" /\ h = stack[i].scon /\ OnItsOwn(LibOf(h)) =>
         AreasOf[LibOf(h)] \cap stack[i].before = {}
  /\ \A h \in Handles : StateOf(h) = "open" /\ OnItsOwn(LibOf(h)) =>
       AreasOf[LibOf(h)] \subseteq scb_table[h].memmap

SconInv == TypeOK /\ capacity > 0 /\ CountInv /\ FrameInv /\ PlainInv /\ OwnInv /\ FaultsAreFound /\ MemmapsApart

-----------------------------------------------------------------------------

LEMMA TableFacts ==
  ASSUME TypeOK
  PROVE  /\ Len(scb_table) \in Nat /\ Len(stack) \in Nat
         /\ DOMAIN stack = 1 .. Len(stack)
         /\ \A h \in Handles : /\ scb_table[h] \in Scb /\ LibOf(h) \in Libs
                               /\ scb_table[h].memmap \in SUBSET Area
                               /\ StateOf(h) \in {"null", "open", "freed"}
         /\ \A i \in 1 .. Len(stack) : /\ stack[i] \in Frame /\ stack[i].scon \in Nat
                                       /\ stack[i].kind \in {"call", "ctor"}
<1>1. /\ Len(scb_table) \in Nat /\ Len(stack) \in Nat /\ DOMAIN stack = 1 .. Len(stack)
      /\ \A h \in Handles : scb_table[h] \in Scb
      /\ \A i \in 1 .. Len(stack) : stack[i] \in Frame
  BY DEF TypeOK, Handles
<1> QED
  BY <1>1 DEF Scb, Frame, LibOf, StateOf

\* A subcontext that is not closed keeps its library loaded.
LEMMA RefFacts ==
  ASSUME TypeOK, CountInv, NEW lib \in Libs
  PROVE  /\ IsFiniteSet(Refs(lib)) /\ Cardinality(Refs(lib)) \in Nat
         /\ \A h \in Handles : LibOf(h) = lib /\ StateOf(h) # "freed" => loaded[lib] > 0
<1>1. IsFiniteSet(Handles)
  BY TableFacts, FS_Interval DEF Handles
<1>2. IsFiniteSet(Refs(lib))
  BY <1>1, FS_Subset DEF Refs
<1>3. Cardinality(Refs(lib)) \in Nat
  BY <1>2, FS_CardinalityType
<1>4. ASSUME NEW h \in Handles, LibOf(h) = lib, StateOf(h) # "freed" PROVE loaded[lib] > 0
  <2>1. Refs(lib) # {}
    BY <1>4 DEF Refs
  <2>2. Cardinality(Refs(lib)) # 0
    BY <1>2, <2>1, FS_EmptySet
  <2> QED
    BY <1>3, <2>2 DEF CountInv
<1> QED
  BY <1>2, <1>3, <1>4

LEMMA MapsFacts ==
  ASSUME TypeOK
  PROVE  /\ Maps \subseteq Area /\ Heap \in Area
         /\ \A lib \in Libs : AreasOf[lib] \subseteq Area /\ Heap \notin AreasOf[lib]
         /\ \A lib \in Libs : loaded[lib] > 0 => AreasOf[lib] \subseteq Maps
<1>1. heapEnd \in Nat /\ heapEnd \in HeapEnds /\ heapEnd > 0
  BY SconAssumption DEF TypeOK
<1>2. Heap \in Area /\ Heap[1] = 0
  BY <1>1 DEF Heap, Area
<1>3. \A lib \in Libs : AreasOf[lib] \subseteq Area /\ Heap \notin AreasOf[lib]
  <2> TAKE lib \in Libs
  <2>1. AreasOf[lib] \subseteq Area /\ \A a \in AreasOf[lib] : a[1] >= heapEnd
    BY <1>1, SconAssumption DEF Area
  <2>2. ~ (0 >= heapEnd)
    BY <1>1
  <2> QED
    BY <1>2, <2>1, <2>2
<1>4. Maps \subseteq Area /\ \A lib \in Libs : loaded[lib] > 0 => AreasOf[lib] \subseteq Maps
  BY <1>2, <1>3 DEF Maps, LibAreas
<1> QED
  BY <1>2, <1>3, <1>4

LEMMA TopFacts ==
  ASSUME TypeOK, stack # << >>
  PROVE  /\ Len(stack) \in 1 .. Len(stack) /\ Top = stack[Len(stack)] /\ Top \in Frame
         /\ Pop \in Seq(Frame) /\ Len(Pop) = Len(stack) - 1
         /\ \A i \in 1 .. Len(stack) - 1 : i \in 1 .. Len(stack) /\ i # Len(stack) /\ Pop[i] = stack[i]
<1>1. stack \in Seq(Frame) /\ Len(stack) \in Nat /\ Len(stack) >= 1
  BY DEF TypeOK
<1>2. Len(stack) \in 1 .. Len(stack) /\ stack[Len(stack)] \in Frame
  BY <1>1
<1>3. \A i \in 1 .. Len(stack) - 1 : i \in 1 .. Len(stack) /\ i # Len(stack)
  BY <1>1
<1>4. /\ SubSeq(stack, 1, Len(stack) - 1) \in Seq(Frame)
      /\ Len(SubSeq(stack, 1, Len(stack) - 1)) = Len(stack) - 1
      /\ \A i \in 1 .. Len(stack) - 1 : SubSeq(stack, 1, Len(stack) - 1)[i] = stack[i]
  <2> DEFINE m == Len(stack) - 1
  <2>1. m \in Nat /\ m \in Int /\ 1 \in Int
    BY <1>1
  <2>2. \A i \in 1 .. m : stack[i] \in Frame
    BY <1>1, <1>3
  <2> HIDE DEF m
  <2>3. /\ SubSeq(stack, 1, m) \in Seq(Frame)
        /\ Len(SubSeq(stack, 1, m)) = IF 1 <= m THEN m - 1 + 1 ELSE 0
        /\ \A i \in 1 .. m - 1 + 1 : SubSeq(stack, 1, m)[i] = stack[1 + i - 1]
    BY <2>1, <2>2, SubSeqProperties
  <2>4. m - 1 + 1 = m /\ (~ (1 <= m) => m = 0) /\ \A i \in 1 .. m : 1 + i - 1 = i
    BY <2>1
  <2>5. Len(SubSeq(stack, 1, m)) = m /\ \A i \in 1 .. m : SubSeq(stack, 1, m)[i] = stack[i]
    BY <2>3, <2>4
  <2> QED
    BY <2>3, <2>5 DEF m
<1> QED
  BY <1>2, <1>3, <1>4 DEF Top, Pop

\* While such a constructor runs, nobody else calls the library.
LEMMA NoPlainCtor ==
  ASSUME SconInv, MayCall, NEW i \in 1 .. Len(stack), NEW h \in Handles
  PROVE  ~ PlainCtor(i, h)
<1> SUFFICES ASSUME PlainCtor(i, h) PROVE FALSE
  OBVIOUS
<1>1. i = Len(stack) /\ stack # << >>
  <2>1. i = Len(stack)
    BY DEF SconInv, PlainInv
  <2>2. 1 .. Len(stack) # {}
    OBVIOUS
  <2>3. stack = << >> => 1 .. Len(stack) = {}
    OBVIOUS
  <2> QED
    BY <2>1, <2>2, <2>3
<1> QED
  BY <1>1 DEF MayCall, Top, PlainCtor, LibOf

-----------------------------------------------------------------------------
(* One step per action                                                     *)

LEMMA StopStep ==
  ASSUME SconInv, UNCHANGED <<scb_table, capacity, loaded, noAccess, heapEnd, stack>>,
         status' \in {"exited", "killed"}
  PROVE  SconInv'
<1>1. TypeOK' /\ capacity' > 0 /\ CountInv' /\ FrameInv' /\ FaultsAreFound' /\ MemmapsApart'
  BY DEF SconInv, TypeOK, CountInv, Refs, Handles, FrameInv, StateOf, LibOf, FaultsAreFound, MemmapsApart
<1>2. PlainInv' /\ OwnInv'
  BY SMTT(30) DEF SconInv, PlainInv, PlainCtor, OwnInv, Handles, StateOf, LibOf, Maps, LibAreas, Heap, Map_diff,
         MapEntry_equal, OnItsOwn
<1> QED
  BY <1>1, <1>2 DEF SconInv

LEMMA FaultStep ==
  ASSUME SconInv, NEW area \in noAccess, FaultHandled(area)
  PROVE  SconInv'
<1>1. /\ noAccess' = noAccess \ {area}
      /\ UNCHANGED <<scb_table, capacity, loaded, heapEnd, stack, status>>
  BY DEF FaultHandled
<1>2. TypeOK' /\ capacity' > 0 /\ CountInv' /\ FrameInv'
  BY <1>1 DEF SconInv, TypeOK, CountInv, Refs, Handles, FrameInv, StateOf, LibOf
<1>3. PlainInv' /\ OwnInv'
  BY <1>1 DEF SconInv, PlainInv, PlainCtor, OwnInv, Handles, StateOf, LibOf, Maps, LibAreas, Heap, Map_diff,
              MapEntry_equal, OnItsOwn
<1>4. FaultsAreFound' /\ MemmapsApart'
  BY <1>1 DEF SconInv, FaultsAreFound, Lost, Found, Open, Handles, MemmapsApart
<1> QED
  BY <1>2, <1>3, <1>4 DEF SconInv

LEMMA CallStep ==
  ASSUME SconInv, NEW h \in Handles, Call(h)
  PROVE  SconInv'
<1> DEFINE n == Len(stack)
<1> DEFINE new == [kind |-> "call", scon |-> h, before |-> {}, stale |-> FALSE]
<1>0. TypeOK /\ FrameInv /\ n \in Nat /\ h \in Nat
  BY TableFacts DEF SconInv, Handles
<1>1. /\ MayCall /\ h \in Open /\ stack' = Append(stack, new) /\ status = "running"
      /\ UNCHANGED <<scb_table, capacity, loaded, noAccess, heapEnd, status>>
  BY DEF Call, MayCall
<1>2. new \in Frame /\ StateOf(h) = "open"
  BY <1>0, <1>1 DEF Frame, Open, StateOf
<1>3. /\ stack' \in Seq(Frame) /\ Len(stack') = n + 1
      /\ \A i \in 1 .. n : stack'[i] = stack[i]
      /\ stack'[n + 1] = new /\ new.kind = "call" /\ new.scon = h
      /\ \A i \in 1 .. n + 1 : i \in 1 .. n \/ i = n + 1
      /\ DOMAIN stack' = 1 .. n + 1 /\ DOMAIN stack = 1 .. n
      /\ \A i \in 1 .. n : i \in 1 .. n + 1
  BY <1>0, <1>1, <1>2 DEF TypeOK
<1> HIDE DEF new
<1>4. TypeOK' /\ capacity' > 0 /\ CountInv'
  BY <1>1, <1>3 DEF SconInv, TypeOK, CountInv, Refs, Handles, StateOf, LibOf
<1>5. FrameInv'
  <2>1. \A i \in 1 .. n + 1 :
          /\ stack'[i].scon \in Handles
          /\ stack'[i].kind = "call" => StateOf(stack'[i].scon) = "open"
          /\ stack'[i].kind = "ctor" => StateOf(stack'[i].scon) = "null" /\ i \in 1 .. n
    BY <1>0, <1>2, <1>3 DEF FrameInv
  <2>2. \A i, j \in 1 .. n + 1 :
          stack'[i].kind = "ctor" /\ stack'[j].kind = "ctor" /\ stack'[i].scon = stack'[j].scon => i = j
    BY <1>0, <1>3, <2>1 DEF FrameInv
  <2> QED
    BY <1>1, <1>3, <2>1, <2>2 DEF FrameInv, Handles, StateOf
<1>6. PlainInv'
  <2>1. \A i \in 1 .. n + 1 : \A g \in Handles : ~ PlainCtor(i, g)'
    <3> SUFFICES ASSUME NEW i \in 1 .. n + 1, NEW g \in Handles, PlainCtor(i, g)' PROVE FALSE
      OBVIOUS
    <3>1. i \in 1 .. n
      BY <1>3 DEF PlainCtor
    <3>2. PlainCtor(i, g)
      BY <1>1, <1>3, <3>1 DEF PlainCtor, LibOf
    <3> QED
      BY <1>1, <3>1, <3>2, NoPlainCtor
  <2> QED
    BY <1>1, <1>3, <2>1 DEF PlainInv, Handles
<1>7. OwnInv'
  <2>1. \A i \in 1 .. n + 1 : stack'[i].kind = "ctor" => i \in 1 .. n /\ stack'[i] = stack[i]
    BY <1>3
  <2> QED
    BY <1>1, <1>3, <2>1 DEF SconInv, OwnInv, Handles, StateOf, LibOf, OnItsOwn
<1>8. FaultsAreFound'
  <2>1. Lost \subseteq Lost'
    BY <1>1, <1>2, <1>3 DEF Lost, Handles, StateOf
  <2> QED
    BY <1>1, <2>1 DEF SconInv, FaultsAreFound, Found, Open, Handles
<1>9. MemmapsApart'
  BY <1>1 DEF SconInv, MemmapsApart, Open, Handles
<1> QED
  BY <1>4, <1>5, <1>6, <1>7, <1>8, <1>9 DEF SconInv

LEMMA ReturnStep ==
  ASSUME SconInv, Return
  PROVE  SconInv'
<1> DEFINE n == Len(stack)
<1> DEFINE k == stack[Len(stack)].scon
<1>0. TypeOK /\ FrameInv /\ n \in Nat
  BY TableFacts DEF SconInv
<1>1. /\ status = "running" /\ stack # << >> /\ stack[n].kind = "call" /\ stack' = Pop
      /\ noAccess' = noAccess \cup scb_table[k].memmap
      /\ UNCHANGED <<scb_table, capacity, loaded, heapEnd, status>>
  BY DEF Return, Top
<1>2. /\ stack' \in Seq(Frame) /\ Len(stack') = n - 1 /\ n \in 1 .. n
      /\ \A i \in 1 .. n - 1 : i \in 1 .. n /\ i # n /\ stack'[i] = stack[i]
      /\ DOMAIN stack' = 1 .. n - 1 /\ DOMAIN stack = 1 .. n
      /\ \A i \in 1 .. n : i # n => i \in 1 .. n - 1
  <2>1. /\ stack' \in Seq(Frame) /\ Len(stack') = n - 1 /\ n \in 1 .. n
        /\ \A i \in 1 .. n - 1 : i \in 1 .. n /\ i # n /\ stack'[i] = stack[i]
    BY <1>0, <1>1, TopFacts
  <2>2. DOMAIN stack' = 1 .. n - 1 /\ DOMAIN stack = 1 .. n
    BY <1>0, <2>1, TableFacts
  <2>3. \A i \in 1 .. n : i # n => i \in 1 .. n - 1
    BY <1>0
  <2> QED
    BY <2>1, <2>2, <2>3
<1>3. k \in Handles /\ StateOf(k) = "open" /\ scb_table[k].memmap \in SUBSET Area
  BY <1>0, <1>1, <1>2, TableFacts DEF FrameInv
<1> HIDE DEF k
<1>4. TypeOK' /\ capacity' > 0 /\ CountInv'
  BY <1>1, <1>2, <1>3 DEF SconInv, TypeOK, CountInv, Refs, Handles, StateOf, LibOf
<1>5. FrameInv'
  <2>1. \A i \in 1 .. n - 1 :
          /\ stack'[i].scon \in Handles
          /\ stack'[i].kind = "call" => StateOf(stack'[i].scon) = "open"
          /\ stack'[i].kind = "ctor" => StateOf(stack'[i].scon) = "null"
    BY <1>0, <1>2 DEF FrameInv
  <2>2. \A i, j \in 1 .. n - 1 :
          stack'[i].kind = "ctor" /\ stack'[j].kind = "ctor" /\ stack'[i].scon = stack'[j].scon => i = j
    BY <1>0, <1>2 DEF FrameInv
  <2> HIDE DEF n
  <2> QED
    BY <1>1, <1>2, <2>1, <2>2 DEF FrameInv, Handles, StateOf
<1>6. PlainInv'
  <2>1. \A i \in 1 .. n - 1 : \A g \in Handles : ~ PlainCtor(i, g)'
    <3> SUFFICES ASSUME NEW i \in 1 .. n - 1, NEW g \in Handles, PlainCtor(i, g)' PROVE FALSE
      OBVIOUS
    <3>1. PlainCtor(i, g) /\ i # n
      BY <1>1, <1>2 DEF PlainCtor, LibOf
    <3> QED
      BY <1>2, <3>1 DEF SconInv, PlainInv
  <2> QED
    BY <1>1, <1>2, <2>1 DEF PlainInv, Handles
<1>7. OwnInv'
  <2>1. \A i \in 1 .. n - 1 : \A h \in Handles :
          stack'[i].kind = "ctor" /\ h = stack'[i].scon /\ OnItsOwn(LibOf(h)) =>
            AreasOf[LibOf(h)] \cap stack'[i].before = {}
    BY <1>2 DEF SconInv, OwnInv
  <2>2. \A h \in Handles : StateOf(h) = "open" /\ OnItsOwn(LibOf(h)) => AreasOf[LibOf(h)] \subseteq scb_table[h].memmap
    BY DEF SconInv, OwnInv
  <2> HIDE DEF n
  <2> QED
    BY <1>1, <1>2, <2>1, <2>2 DEF OwnInv, Handles, StateOf, LibOf, OnItsOwn
<1>8. FaultsAreFound'
  <2>1. Lost \subseteq Lost'
    BY <1>1, <1>2 DEF Lost, Handles
  <2>2. \A a \in scb_table[k].memmap : Found(a)
    BY <1>3 DEF Found, Open, StateOf
  <2>3. \A a : Found(a)' <=> Found(a)
    BY <1>1 DEF Found, Open, Handles
  <2> QED
    BY <1>1, <2>1, <2>2, <2>3 DEF SconInv, FaultsAreFound
<1>9. MemmapsApart'
  BY <1>1 DEF SconInv, MemmapsApart, Open, Handles
<1> QED
  BY <1>4, <1>5, <1>6, <1>7, <1>8, <1>9 DEF SconInv

LEMMA CloseStep ==
  ASSUME SconInv, NEW h \in Handles, Close(h)
  PROVE  SconInv'
<1> DEFINE n == Len(scb_table)
<1> DEFINE lib == LibOf(h)
<1> DEFINE new == [scb_table[h] EXCEPT !.state = "freed", !.memmap = {}]
<1>0. /\ TypeOK /\ FrameInv /\ CountInv /\ n \in Nat /\ lib \in Libs /\ Handles = 1 .. n
      /\ scb_table[h] \in Scb /\ DOMAIN stack = 1 .. Len(stack)
  BY TableFacts DEF SconInv, Handles
<1>1. /\ MayCall /\ status = "running" /\ StateOf(h) = "open"
      /\ \A i \in 1 .. Len(stack) : stack[i].scon # h
      /\ loaded' = [loaded EXCEPT ![lib] = @ - 1]
      /\ noAccess' = (noAccess \ scb_table[h].memmap) \cap LibAreas(loaded')
      /\ scb_table' = [scb_table EXCEPT ![h] = new]
      /\ UNCHANGED <<capacity, heapEnd, stack, status>>
  BY <1>0 DEF Close, MayCall, Open, Active, StateOf, LibOf
<1>2. new \in Scb /\ new.lib = lib /\ new.state = "freed"
  BY <1>0 DEF Scb, LibOf
<1> HIDE DEF new
<1>3. /\ scb_table' \in Seq(Scb) /\ Len(scb_table') = n /\ Handles' = Handles
      /\ scb_table'[h] = new
      /\ \A g \in Handles : g # h => scb_table'[g] = scb_table[g]
  BY <1>0, <1>1, <1>2 DEF TypeOK, Handles
<1>4. /\ \A g \in Handles : LibOf(g)' = LibOf(g)
      /\ StateOf(h)' = "freed"
      /\ \A g \in Handles : g # h => StateOf(g)' = StateOf(g) /\ scb_table'[g].memmap = scb_table[g].memmap
  BY <1>2, <1>3 DEF LibOf, StateOf
<1>5. Open' = Open \ {h} /\ h \in Open
  BY <1>1, <1>3, <1>4 DEF Open, StateOf
<1>6. loaded[lib] > 0 /\ loaded[lib] \in Nat
  BY <1>0, <1>1, RefFacts DEF TypeOK
<1>7. TypeOK' /\ capacity' > 0
  <2>1. loaded[lib] - 1 \in Nat
    BY <1>6
  <2>2. loaded' \in [Libs -> Nat]
    BY <1>0, <1>1, <2>1 DEF TypeOK
  <2> QED
    BY <1>0, <1>1, <1>3, <2>2 DEF SconInv, TypeOK
<1>8. CountInv'
  <2> SUFFICES ASSUME NEW l \in Libs PROVE loaded'[l] = Cardinality(Refs(l)')
    BY DEF CountInv
  <2>1. loaded[l] = Cardinality(Refs(l)) /\ IsFiniteSet(Refs(l)) /\ Cardinality(Refs(l)) \in Nat
    BY <1>0, RefFacts DEF CountInv
  <2>2. Refs(l)' = Refs(l) \ {h}
    BY <1>3, <1>4 DEF Refs
  <2>3. h \in Refs(l) <=> l = lib
    BY <1>1 DEF Refs
  <2>4. Cardinality(Refs(l)') = IF l = lib THEN Cardinality(Refs(l)) - 1 ELSE Cardinality(Refs(l))
    BY <2>1, <2>2, <2>3, FS_RemoveElement
  <2>5. loaded'[l] = IF l = lib THEN loaded[l] - 1 ELSE loaded[l]
    BY <1>0, <1>1 DEF TypeOK
  <2> QED
    BY <2>1, <2>4, <2>5
<1>9. FrameInv'
  <2>1. \A i \in 1 .. Len(stack) :
          /\ stack[i].scon \in Handles /\ stack[i].scon # h
          /\ stack[i].kind = "call" => StateOf(stack[i].scon) = "open"
          /\ stack[i].kind = "ctor" => StateOf(stack[i].scon) = "null"
    BY <1>0, <1>1 DEF FrameInv
  <2>2. \A i \in 1 .. Len(stack) : scb_table'[stack[i].scon] = scb_table[stack[i].scon]
    BY <1>3, <2>1
  <2>3. \A i, j \in 1 .. Len(stack) :
          stack[i].kind = "ctor" /\ stack[j].kind = "ctor" /\ stack[i].scon = stack[j].scon => i = j
    BY <1>0 DEF FrameInv
  <2> QED
    BY <1>1, <1>3, <2>1, <2>2, <2>3 DEF FrameInv, StateOf
<1>10. PlainInv'
  <2>1. \A i \in 1 .. Len(stack) : \A g \in Handles : ~ PlainCtor(i, g)'
    <3> SUFFICES ASSUME NEW i \in 1 .. Len(stack), NEW g \in Handles, PlainCtor(i, g)' PROVE FALSE
      OBVIOUS
    <3>1. PlainCtor(i, g)
      BY <1>1, <1>4 DEF PlainCtor
    <3> QED
      BY <1>1, <3>1, NoPlainCtor
  <2> QED
    BY <1>1, <1>3, <2>1 DEF PlainInv
<1>11. OwnInv'
  <2>1. \A i \in 1 .. Len(stack) : \A g \in Handles :
          stack[i].kind = "ctor" /\ g = stack[i].scon /\ OnItsOwn(LibOf(g)) =>
            AreasOf[LibOf(g)] \cap stack[i].before = {}
    BY DEF SconInv, OwnInv
  <2>2. \A g \in Handles : StateOf(g)' = "open" /\ OnItsOwn(LibOf(g)) =>
          AreasOf[LibOf(g)] \subseteq scb_table'[g].memmap
    BY <1>4 DEF SconInv, OwnInv
  <2>3. \A l : OnItsOwn(l)' <=> OnItsOwn(l)
    BY DEF OnItsOwn
  <2> QED
    BY <1>1, <1>3, <1>4, <2>1, <2>2, <2>3 DEF OwnInv, OnItsOwn
<1>12. FaultsAreFound'
  <2>1. Lost \subseteq Lost'
    BY <1>1, <1>3 DEF Lost, StateOf
  <2> SUFFICES ASSUME Lost' = {}, NEW a \in noAccess' PROVE Found(a)'
    BY DEF FaultsAreFound
  <2>2. a \in noAccess /\ a \notin scb_table[h].memmap /\ Lost = {}
    BY <1>1, <2>1
  <2>3. PICK g \in Open : a \in scb_table[g].memmap
    BY <1>1, <2>2 DEF SconInv, FaultsAreFound, Found
  <2>4. g # h /\ g \in Open' /\ g \in Handles
    BY <1>5, <2>2, <2>3 DEF Open
  <2> QED
    BY <1>4, <2>3, <2>4 DEF Found
<1>13. MemmapsApart'
  BY <1>1, <1>3, <1>5 DEF SconInv, MemmapsApart, Open
<1> QED
  BY <1>7, <1>8, <1>9, <1>10, <1>11, <1>12, <1>13 DEF SconInv

LEMMA CreateBeginStep ==
  ASSUME SconInv, NEW lib \in Libs, CreateBegin(lib)
  PROVE  SconInv'
<1> DEFINE n == Len(scb_table)
<1> DEFINE m == Len(stack)
<1> DEFINE scb == [lib |-> lib, memmap |-> {}, state |-> "null"]
<1> DEFINE new == [kind |-> "ctor", scon |-> n + 1, before |-> Maps, stale |-> FALSE]
<1>0. /\ TypeOK /\ FrameInv /\ CountInv /\ n \in Nat /\ m \in Nat /\ Handles = 1 .. n
      /\ DOMAIN stack = 1 .. m /\ capacity \in Nat /\ capacity > 0 /\ n <= capacity
  BY TableFacts DEF SconInv, Handles, TypeOK
<1>1. /\ MayCall /\ status = "running"
      /\ lib \in Reopened \/ loaded[lib] = 0
      /\ scb_table' = Append(scb_table, scb)
      /\ capacity' = IF n + 1 >= capacity \div 2 THEN 2 * capacity ELSE capacity
      /\ loaded' = [loaded EXCEPT ![lib] = @ + 1]
      /\ heapEnd' \in HeapEnds
      /\ UNCHANGED <<noAccess, status>>
  BY DEF CreateBegin, MayCall, Grows
<1>2. PICK frames \in {stack, Moved(stack)} : stack' = Append(frames, new)
  BY DEF CreateBegin
<1>3. /\ frames \in Seq(Frame) /\ Len(frames) = m
      /\ \A i \in 1 .. m : /\ frames[i].kind = stack[i].kind /\ frames[i].scon = stack[i].scon
                           /\ frames[i].before = stack[i].before
  <2>1. \A i \in 1 .. m : stack[i] \in Frame /\ [stack[i] EXCEPT !.stale = TRUE] \in Frame
    BY <1>0, TableFacts DEF Frame
  <2>2. CASE frames = stack
    BY <1>0, <2>2 DEF TypeOK
  <2>3. CASE frames = Moved(stack)
    <3>1. frames = [i \in 1 .. m |-> [stack[i] EXCEPT !.stale = TRUE]]
      BY <1>0, <2>3 DEF Moved
    <3>2. frames \in [1 .. m -> Frame]
      BY <2>1, <3>1
    <3>3. frames \in Seq(Frame) /\ Len(frames) = m
      BY <1>0, <3>2
    <3>4. \A i \in 1 .. m : frames[i] = [stack[i] EXCEPT !.stale = TRUE]
      BY <3>1
    <3> QED
      BY <2>1, <3>3, <3>4 DEF Frame
  <2> QED
    BY <2>2, <2>3
<1>4. scb \in Scb /\ new \in Frame
  BY <1>0, MapsFacts DEF Scb, Frame
<1>5. /\ scb_table' \in Seq(Scb) /\ Len(scb_table') = n + 1
      /\ \A g \in 1 .. n : g \in 1 .. n + 1 /\ g # n + 1 /\ scb_table'[g] = scb_table[g]
      /\ \A g \in 1 .. n + 1 : g \in 1 .. n \/ g = n + 1
      /\ n + 1 \in 1 .. n + 1 /\ n + 1 \notin 1 .. n
  <2>1. scb_table' \in Seq(Scb) /\ Len(scb_table') = n + 1 /\ \A g \in 1 .. n : scb_table'[g] = scb_table[g]
    BY <1>0, <1>1, <1>4 DEF TypeOK
  <2> HIDE DEF n
  <2> QED
    BY <1>0, <2>1
<1>6. /\ scb_table'[n + 1].lib = lib /\ scb_table'[n + 1].state = "null" /\ scb_table'[n + 1].memmap = {}
  <2>1. scb_table'[n + 1] = scb
    BY <1>0, <1>1, <1>4 DEF TypeOK
  <2> QED
    BY <2>1
<1>7. /\ stack' \in Seq(Frame) /\ Len(stack') = m + 1
      /\ \A i \in 1 .. m : /\ stack'[i].kind = stack[i].kind /\ stack'[i].scon = stack[i].scon
                           /\ stack'[i].before = stack[i].before
      /\ \A i \in 1 .. m + 1 : i \in 1 .. m \/ i = m + 1
      /\ m + 1 \in 1 .. m + 1 /\ DOMAIN stack' = 1 .. m + 1
      /\ stack'[m + 1].kind = "ctor" /\ stack'[m + 1].scon = n + 1 /\ stack'[m + 1].before = Maps
  <2>1. /\ stack' \in Seq(Frame) /\ Len(stack') = m + 1 /\ DOMAIN stack' = 1 .. m + 1
        /\ \A i \in 1 .. m : stack'[i] = frames[i]
        /\ stack'[m + 1] = new
    BY <1>0, <1>2, <1>3, <1>4
  <2>2. (\A i \in 1 .. m + 1 : i \in 1 .. m \/ i = m + 1) /\ m + 1 \in 1 .. m + 1
    BY <1>0
  <2>3. new.kind = "ctor" /\ new.scon = n + 1 /\ new.before = Maps
    OBVIOUS
  <2> HIDE DEF new
  <2> QED
    BY <1>3, <2>1, <2>2, <2>3
<1> HIDE DEF scb, new
<1>8. Handles' = 1 .. n + 1
  BY <1>5 DEF Handles
<1>9. /\ \A g \in 1 .. n : LibOf(g)' = LibOf(g) /\ StateOf(g)' = StateOf(g)
      /\ \A g \in 1 .. n + 1 : g = n + 1 => LibOf(g)' = lib /\ StateOf(g)' = "null"
  BY <1>5, <1>6 DEF LibOf, StateOf
<1>10. TypeOK' /\ capacity' > 0
  <2>1. capacity' \in Nat /\ capacity' > 0 /\ n + 1 <= capacity'
    <3>1. CASE n + 1 >= capacity \div 2
      BY <1>0, <1>1, <3>1
    <3>2. CASE ~ (n + 1 >= capacity \div 2)
      BY <1>0, <1>1, <3>2
    <3> QED
      BY <3>1, <3>2
  <2>2. loaded' \in [Libs -> Nat]
    BY <1>0, <1>1 DEF TypeOK
  <2> QED
    BY <1>0, <1>1, <1>5, <1>7, <2>1, <2>2 DEF TypeOK
<1>11. CountInv'
  <2> SUFFICES ASSUME NEW l \in Libs PROVE loaded'[l] = Cardinality(Refs(l)')
    BY DEF CountInv
  <2>1. loaded[l] = Cardinality(Refs(l)) /\ IsFiniteSet(Refs(l)) /\ Cardinality(Refs(l)) \in Nat
    BY <1>0, RefFacts DEF CountInv
  <2>2. n + 1 \notin Refs(l)
    BY <1>0, <1>5 DEF Refs
  <2>3. CASE l = lib
    <3>1. Refs(l)' = Refs(l) \cup {n + 1}
      BY <1>0, <1>5, <1>8, <1>9, <2>3 DEF Refs
    <3>2. Cardinality(Refs(l)') = Cardinality(Refs(l)) + 1
      BY <2>1, <2>2, <3>1, FS_AddElement
    <3> QED
      BY <1>0, <1>1, <2>1, <2>3, <3>2 DEF TypeOK
  <2>4. CASE l # lib
    <3>1. Refs(l)' = Refs(l)
      BY <1>0, <1>5, <1>8, <1>9, <2>4 DEF Refs
    <3> QED
      BY <1>0, <1>1, <2>1, <2>4, <3>1 DEF TypeOK
  <2> QED
    BY <2>3, <2>4
<1>12. FrameInv'
  <2>1. \A i \in 1 .. m : /\ stack'[i].scon \in 1 .. n
                          /\ stack'[i].kind = "call" => scb_table'[stack'[i].scon].state = "open"
                          /\ stack'[i].kind = "ctor" => scb_table'[stack'[i].scon].state = "null"
    <3>1. \A i \in 1 .. m : /\ stack[i].scon \in 1 .. n
                            /\ stack[i].kind = "call" => scb_table[stack[i].scon].state = "open"
                            /\ stack[i].kind = "ctor" => scb_table[stack[i].scon].state = "null"
      BY <1>0 DEF FrameInv, StateOf
    <3> HIDE DEF n, m
    <3> QED
      BY <1>5, <1>7, <3>1
  <2>2. \A i \in 1 .. m + 1 : /\ stack'[i].scon \in 1 .. n + 1
                              /\ stack'[i].kind = "call" => scb_table'[stack'[i].scon].state = "open"
                              /\ stack'[i].kind = "ctor" => scb_table'[stack'[i].scon].state = "null"
                              /\ stack'[i].scon = n + 1 <=> i = m + 1
    BY <1>5, <1>6, <1>7, <2>1
  <2>3. \A i, j \in 1 .. m + 1 :
          stack'[i].kind = "ctor" /\ stack'[j].kind = "ctor" /\ stack'[i].scon = stack'[j].scon => i = j
    <3>1. \A i, j \in 1 .. m :
            stack'[i].kind = "ctor" /\ stack'[j].kind = "ctor" /\ stack'[i].scon = stack'[j].scon => i = j
      BY <1>0, <1>7 DEF FrameInv
    <3> QED
      BY <1>7, <2>2, <3>1
  <2> HIDE DEF n, m
  <2> QED
    BY <1>7, <1>8, <2>2, <2>3 DEF FrameInv, StateOf
<1>13. PlainInv'
  <2> SUFFICES ASSUME NEW i \in 1 .. m + 1, NEW h \in 1 .. n + 1, PlainCtor(i, h)'
               PROVE  /\ i = m + 1
                      /\ Map_diff(stack'[i].before, Maps') \subseteq {Heap'} \cup AreasOf[LibOf(h)']
                      /\ \A g \in 1 .. n + 1 : StateOf(g)' = "open" /\ LibOf(g)' \notin CtorLibs =>
                           scb_table'[g].memmap \subseteq stack'[i].before
    BY <1>7, <1>8 DEF PlainInv, Map_diff, MapEntry_equal
  <2>1. i = m + 1
    <3> SUFFICES ASSUME i \in 1 .. m PROVE FALSE
      BY <1>7
    <3>1. stack'[i].scon = stack[i].scon /\ h = stack[i].scon /\ h \in 1 .. n /\ stack[i].kind = "ctor"
      BY <1>0, <1>7 DEF PlainCtor, FrameInv
    <3>2. PlainCtor(i, h)
      BY <1>9, <3>1 DEF PlainCtor
    <3> QED
      BY <1>0, <1>1, <3>1, <3>2, NoPlainCtor
  <2>2. stack'[i].before = Maps /\ h = n + 1 /\ LibOf(h)' = lib
    BY <1>7, <1>9, <2>1 DEF PlainCtor
  <2>3. LibAreas(loaded)' \subseteq LibAreas(loaded) \cup AreasOf[lib]
    <3>1. \A l \in Libs : l # lib => loaded'[l] = loaded[l]
      BY <1>0, <1>1 DEF TypeOK
    <3> QED
      BY <3>1 DEF LibAreas
  <2>4. Map_diff(Maps, Maps') \subseteq {Heap'} \cup AreasOf[lib]
    BY <2>3 DEF Map_diff, MapEntry_equal, Maps
  <2>5. \A g \in 1 .. n + 1 : StateOf(g)' = "open" /\ LibOf(g)' \notin CtorLibs => scb_table'[g].memmap \subseteq Maps
    <3> SUFFICES ASSUME NEW g \in 1 .. n + 1, StateOf(g)' = "open", LibOf(g)' \notin CtorLibs
                 PROVE  scb_table'[g].memmap \subseteq Maps
      OBVIOUS
    <3>1. /\ g \in 1 .. n /\ g \in Handles /\ scb_table'[g] = scb_table[g]
          /\ StateOf(g) = "open" /\ LibOf(g) \notin CtorLibs /\ LibOf(g) \in Libs
      BY <1>0, <1>5, <1>9, TableFacts
    <3>2. scb_table[g].memmap \subseteq AreasOf[LibOf(g)]
      BY <1>1, <3>1 DEF SconInv, MemmapsApart, Open, StateOf, LibOf
    <3>3. AreasOf[LibOf(g)] \subseteq Maps
      BY <1>0, <3>1, RefFacts, MapsFacts
    <3> QED
      BY <3>1, <3>2, <3>3
  <2> QED
    BY <2>1, <2>2, <2>4, <2>5
<1>14. OwnInv'
  <2>0. \A l : OnItsOwn(l)' <=> OnItsOwn(l)
    BY DEF OnItsOwn
  <2>1. ASSUME NEW i \in 1 .. m + 1, NEW h \in 1 .. n + 1, stack'[i].kind = "ctor", h = stack'[i].scon,
               OnItsOwn(LibOf(h)')
        PROVE  AreasOf[LibOf(h)'] \cap stack'[i].before = {}
    <3>1. CASE i = m + 1
      <4>1. h = n + 1 /\ LibOf(h)' = lib /\ stack'[i].before = Maps
        BY <1>7, <1>9, <2>1, <3>1
      <4>2. lib \notin Reopened /\ \A l \in Libs \ {lib} : AreasOf[l] \cap AreasOf[lib] = {}
        BY <2>1, <4>1 DEF OnItsOwn
      <4>3. loaded[lib] = 0
        BY <1>1, <4>2
      <4>4. LibAreas(loaded) \cap AreasOf[lib] = {}
        BY <4>2, <4>3 DEF LibAreas
      <4>5. Heap \notin AreasOf[lib]
        BY <1>0, MapsFacts
      <4> QED
        BY <4>1, <4>4, <4>5 DEF Maps
    <3>2. CASE i # m + 1
      <4>1. /\ i \in 1 .. m /\ h = stack[i].scon /\ stack[i].kind = "ctor" /\ stack'[i].before = stack[i].before
        BY <1>7, <2>1, <3>2
      <4>2. h \in 1 .. n
        BY <1>0, <4>1 DEF FrameInv
      <4>3. LibOf(h)' = LibOf(h)
        BY <1>9, <4>2
      <4> QED
        BY <1>0, <2>1, <4>1, <4>2, <4>3 DEF SconInv, OwnInv
    <3> QED
      BY <3>1, <3>2
  <2>2. ASSUME NEW h \in 1 .. n + 1, StateOf(h)' = "open", OnItsOwn(LibOf(h)')
        PROVE  AreasOf[LibOf(h)'] \subseteq scb_table'[h].memmap
    <3>1. h \in 1 .. n /\ LibOf(h)' = LibOf(h) /\ StateOf(h)' = StateOf(h) /\ scb_table'[h] = scb_table[h]
      BY <1>5, <1>9, <2>2
    <3> QED
      BY <1>0, <2>2, <3>1 DEF SconInv, OwnInv
  <2> QED
    BY <1>7, <1>8, <2>1, <2>2 DEF OwnInv, OnItsOwn
<1>15. FaultsAreFound'
  <2>1. Lost \subseteq Lost'
    <3> SUFFICES ASSUME NEW h \in Lost PROVE h \in Lost'
      OBVIOUS
    <3>1. h \in 1 .. n /\ scb_table[h].state = "null" /\ \A i \in 1 .. m : stack[i].scon # h
      BY <1>0 DEF Lost
    <3>2. h \in 1 .. n + 1 /\ h # n + 1 /\ scb_table'[h].state = "null"
      BY <1>5, <3>1
    <3>3. \A i \in 1 .. m + 1 : stack'[i].scon # h
      BY <1>7, <3>1, <3>2
    <3> QED
      BY <1>7, <1>8, <3>2, <3>3 DEF Lost
  <2>2. \A a : Found(a) => Found(a)'
    BY <1>0, <1>5, <1>8 DEF Found, Open
  <2> QED
    BY <1>1, <2>1, <2>2 DEF SconInv, FaultsAreFound
<1>16. MemmapsApart'
  <2>1. Open' = Open /\ \A g \in Open : scb_table'[g] = scb_table[g]
    BY <1>0, <1>5, <1>6, <1>8 DEF Open
  <2> QED
    BY <1>1, <2>1 DEF SconInv, MemmapsApart
<1> QED
  BY <1>10, <1>11, <1>12, <1>13, <1>14, <1>15, <1>16 DEF SconInv

LEMMA CreateEndStep ==
  ASSUME SconInv, CreateEnd
  PROVE  SconInv'
<1> DEFINE n == Len(scb_table)
<1> DEFINE m == Len(stack)
<1> DEFINE h == stack[Len(stack)].scon
<1> DEFINE before == stack[Len(stack)].before
<1> DEFINE added == Map_diff(before, Maps)
<1> DEFINE stale == stack[Len(stack)].stale
<1> DEFINE new == [scb_table[h] EXCEPT !.memmap = added, !.state = "open"]
<1>0. /\ TypeOK /\ FrameInv /\ CountInv /\ n \in Nat /\ m \in Nat /\ Handles = 1 .. n
      /\ DOMAIN stack = 1 .. m
  BY TableFacts DEF SconInv, Handles
<1>1. /\ status = "running" /\ stack # << >> /\ stack[m].kind = "ctor" /\ stack' = Pop
      /\ scb_table' = IF stale THEN scb_table ELSE [scb_table EXCEPT ![h] = new]
      /\ noAccess' = noAccess \cup added
      /\ status' = IF Heap \in added THEN "killed" ELSE "running"
      /\ UNCHANGED <<capacity, loaded, heapEnd>>
  BY DEF CreateEnd, Top
<1>2. /\ stack' \in Seq(Frame) /\ Len(stack') = m - 1 /\ m \in 1 .. m
      /\ \A i \in 1 .. m - 1 : i \in 1 .. m /\ i # m /\ stack'[i] = stack[i]
      /\ DOMAIN stack' = 1 .. m - 1
      /\ \A i \in 1 .. m : i # m => i \in 1 .. m - 1
  <2>1. /\ stack' \in Seq(Frame) /\ Len(stack') = m - 1 /\ m \in 1 .. m
        /\ \A i \in 1 .. m - 1 : i \in 1 .. m /\ i # m /\ stack'[i] = stack[i]
    BY <1>0, <1>1, TopFacts
  <2>2. DOMAIN stack' = 1 .. m - 1
    <3>1. \A frames \in Seq(Frame) : DOMAIN frames = 1 .. Len(frames)
      OBVIOUS
    <3> QED
      BY <2>1, <3>1
  <2>3. \A i \in 1 .. m : i # m => i \in 1 .. m - 1
    <3>1. \A k \in Nat : \A i \in 1 .. k : i # k => i \in 1 .. k - 1
      OBVIOUS
    <3> QED
      BY <1>0, <3>1
  <2> QED
    BY <2>1, <2>2, <2>3
<1>3. /\ h \in Handles /\ StateOf(h) = "null" /\ scb_table[h] \in Scb /\ LibOf(h) \in Libs
      /\ \A i \in 1 .. m - 1 : stack[i].scon # h
  <2>1. h \in Handles /\ StateOf(h) = "null"
    BY <1>0, <1>1, <1>2 DEF FrameInv
  <2>2. \A i \in 1 .. m : /\ stack[i].kind \in {"call", "ctor"}
                          /\ stack[i].kind = "call" => StateOf(stack[i].scon) = "open"
                          /\ stack[i].kind = "ctor" /\ stack[i].scon = h => i = m
    BY <1>0, <1>1, <1>2, TableFacts DEF FrameInv
  <2> QED
    BY <1>0, <1>2, <2>1, <2>2, TableFacts
<1>4. added \subseteq Maps /\ added \subseteq Area /\ added \cap before = {}
  BY <1>0, MapsFacts DEF Map_diff, MapEntry_equal
<1>5. new \in Scb /\ new.lib = LibOf(h) /\ new.state = "open" /\ new.memmap = added
  BY <1>3, <1>4 DEF Scb, LibOf
<1> HIDE DEF new, added, before
<1>6. /\ scb_table' \in Seq(Scb) /\ Len(scb_table') = n /\ Handles' = Handles
      /\ \A g \in Handles : g # h => scb_table'[g] = scb_table[g]
      /\ stale => scb_table'[h] = scb_table[h]
      /\ ~ stale => scb_table'[h] = new
  <2>1. CASE stale
    BY <1>0, <1>1, <2>1 DEF TypeOK, Handles
  <2>2. CASE ~ stale
    BY <1>0, <1>1, <1>3, <1>5, <2>2 DEF TypeOK, Handles
  <2> QED
    BY <2>1, <2>2
<1> HIDE DEF stale, h
<1>7. /\ \A g \in Handles : LibOf(g)' = LibOf(g) /\ (StateOf(g)' = "freed" <=> StateOf(g) = "freed")
      /\ \A g \in Handles : g # h => StateOf(g)' = StateOf(g) /\ scb_table'[g].memmap = scb_table[g].memmap
      /\ \A g \in Handles : g = h => IF stale THEN StateOf(g)' = "null"
                                     ELSE StateOf(g)' = "open" /\ scb_table'[g].memmap = added
  BY <1>3, <1>5, <1>6 DEF LibOf, StateOf
<1>8. TypeOK' /\ capacity' > 0
  BY <1>0, <1>1, <1>2, <1>4, <1>6 DEF SconInv, TypeOK
<1>9. CountInv'
  <2>1. \A l \in Libs : Refs(l)' = Refs(l)
    BY <1>6, <1>7 DEF Refs
  <2> QED
    BY <1>0, <1>1, <2>1 DEF CountInv
<1>10. FrameInv'
  <2>1. \A i \in 1 .. m - 1 : /\ stack'[i].scon \in Handles /\ stack'[i].scon # h
                              /\ stack'[i].kind = "call" => StateOf(stack'[i].scon) = "open"
                              /\ stack'[i].kind = "ctor" => StateOf(stack'[i].scon) = "null"
    BY <1>0, <1>2, <1>3 DEF FrameInv
  <2>2. \A i \in 1 .. m - 1 : scb_table'[stack'[i].scon] = scb_table[stack'[i].scon]
    BY <1>6, <2>1
  <2>3. \A i, j \in 1 .. m - 1 :
          stack'[i].kind = "ctor" /\ stack'[j].kind = "ctor" /\ stack'[i].scon = stack'[j].scon => i = j
    BY <1>0, <1>2 DEF FrameInv
  <2> HIDE DEF m
  <2> QED
    BY <1>2, <1>6, <2>1, <2>2, <2>3 DEF FrameInv, StateOf
<1>11. PlainInv'
  <2>1. \A i \in 1 .. m - 1 : \A g \in Handles : ~ PlainCtor(i, g)'
    <3> SUFFICES ASSUME NEW i \in 1 .. m - 1, NEW g \in Handles, PlainCtor(i, g)' PROVE FALSE
      OBVIOUS
    <3>1. PlainCtor(i, g) /\ i # m /\ i \in 1 .. m
      BY <1>2, <1>7 DEF PlainCtor
    <3> QED
      BY <3>1 DEF SconInv, PlainInv
  <2> QED
    BY <1>2, <1>6, <2>1 DEF PlainInv
<1>12. OwnInv'
  <2>1. \A i \in 1 .. m - 1 : \A g \in Handles :
          stack'[i].kind = "ctor" /\ g = stack'[i].scon /\ OnItsOwn(LibOf(g)) =>
            AreasOf[LibOf(g)] \cap stack'[i].before = {}
    BY <1>2 DEF SconInv, OwnInv
  <2>2. ASSUME NEW g \in Handles, StateOf(g)' = "open", OnItsOwn(LibOf(g))
        PROVE  AreasOf[LibOf(g)] \subseteq scb_table'[g].memmap
    <3>1. CASE g # h
      BY <1>7, <2>2, <3>1 DEF SconInv, OwnInv
    <3>2. CASE g = h
      <4>1. scb_table'[g].memmap = added
        BY <1>7, <2>2, <3>2
      <4>2. AreasOf[LibOf(g)] \cap before = {}
        BY <1>1, <1>2, <2>2, <3>2 DEF SconInv, OwnInv, h, before
      <4>3. loaded[LibOf(g)] > 0
        BY <1>0, <1>3, <3>2, RefFacts
      <4>4. AreasOf[LibOf(g)] \subseteq Maps
        BY <1>0, <1>3, <3>2, <4>3, MapsFacts
      <4> QED
        BY <4>1, <4>2, <4>4 DEF added, Map_diff, MapEntry_equal
    <3> QED
      BY <3>1, <3>2
  <2> HIDE DEF m
  <2> QED
    BY <1>2, <1>6, <1>7, <2>1, <2>2 DEF OwnInv, OnItsOwn
<1>13. FaultsAreFound'
  <2> SUFFICES ASSUME Lost' = {}, NEW a \in noAccess' PROVE Found(a)'
    BY DEF FaultsAreFound
  <2>1. ~ stale
    <3> SUFFICES ASSUME stale PROVE h \in Lost'
      OBVIOUS
    <3>1. h \in Handles' /\ scb_table'[h].state = "null"
      BY <1>3, <1>6 DEF StateOf
    <3>2. \A i \in DOMAIN stack' : stack'[i].scon # h
      BY <1>2, <1>3
    <3> QED
      BY <3>1, <3>2 DEF Lost
  <2>2. Lost = {}
    <3> SUFFICES ASSUME NEW g \in Lost PROVE g \in Lost'
      OBVIOUS
    <3>1. g \in Handles /\ scb_table[g].state = "null" /\ \A i \in 1 .. m : stack[i].scon # g
      BY <1>0 DEF Lost
    <3>2. g # h
      BY <1>2, <3>1 DEF h
    <3>3. \A i \in DOMAIN stack' : stack'[i].scon # g
      BY <1>2, <3>1
    <3> QED
      BY <1>6, <3>1, <3>2, <3>3 DEF Lost
  <2>3. CASE a \in noAccess
    <3>1. PICK g \in Open : a \in scb_table[g].memmap
      BY <1>1, <2>2, <2>3 DEF SconInv, FaultsAreFound, Found
    <3>2. g # h /\ g \in Handles
      BY <1>3, <3>1 DEF Open, StateOf
    <3> QED
      BY <1>6, <3>1, <3>2 DEF Found, Open
  <2>4. CASE a \in added
    <3>1. h \in Handles' /\ scb_table'[h].state = "open" /\ a \in scb_table'[h].memmap
      BY <1>3, <1>6, <1>7, <2>1, <2>4 DEF StateOf
    <3> QED
      BY <3>1 DEF Found, Open
  <2> QED
    BY <1>1, <2>3, <2>4
<1>14. MemmapsApart'
  <2> SUFFICES ASSUME status' = "running",
                      NEW x \in Handles, StateOf(x)' = "open", LibOf(x) \notin CtorLibs
               PROVE  /\ scb_table'[x].memmap \subseteq AreasOf[LibOf(x)]
                      /\ \A g \in Handles : g # x /\ StateOf(g)' = "open" /\ LibOf(g) \notin CtorLibs =>
                           scb_table'[g].memmap \cap scb_table'[x].memmap = {}
    BY <1>6, <1>7 DEF MemmapsApart, Open, LibOf, StateOf
  <2>1. Heap \notin added
    BY <1>1
  <2>2. \A g \in Handles : g # h /\ StateOf(g) = "open" /\ LibOf(g) \notin CtorLibs =>
          /\ scb_table[g].memmap \subseteq AreasOf[LibOf(g)]
          /\ \A f \in Handles : f # g /\ StateOf(f) = "open" /\ LibOf(f) \notin CtorLibs =>
               scb_table[f].memmap \cap scb_table[g].memmap = {}
    BY <1>1 DEF SconInv, MemmapsApart, Open, LibOf, StateOf
  <2>3. LibOf(h) \notin CtorLibs =>
          /\ added \subseteq AreasOf[LibOf(h)]
          /\ \A g \in Handles : StateOf(g) = "open" /\ LibOf(g) \notin CtorLibs =>
               scb_table[g].memmap \cap added = {}
    <3> SUFFICES ASSUME LibOf(h) \notin CtorLibs
                 PROVE  /\ added \subseteq AreasOf[LibOf(h)]
                        /\ \A g \in Handles : StateOf(g) = "open" /\ LibOf(g) \notin CtorLibs =>
                             scb_table[g].memmap \cap added = {}
      OBVIOUS
    <3>1. PlainCtor(m, h)
      BY <1>1 DEF PlainCtor, h
    <3>2. /\ added \subseteq {Heap} \cup AreasOf[LibOf(h)]
          /\ \A g \in Handles : StateOf(g) = "open" /\ LibOf(g) \notin CtorLibs =>
               scb_table[g].memmap \subseteq before
      BY <1>2, <1>3, <3>1 DEF SconInv, PlainInv, added, before
    <3> QED
      BY <1>4, <2>1, <3>2
  <2>4. CASE x = h
    <3>1. scb_table'[x].memmap = added
      BY <1>7, <2>4
    <3> QED
      BY <1>7, <2>3, <2>4, <3>1
  <2>5. CASE x # h
    <3>1. /\ StateOf(x) = "open" /\ scb_table'[x].memmap = scb_table[x].memmap
          /\ scb_table[x].memmap \subseteq AreasOf[LibOf(x)]
      BY <1>7, <2>2, <2>5
    <3>2. ASSUME NEW g \in Handles, g # x, StateOf(g)' = "open", LibOf(g) \notin CtorLibs
          PROVE  scb_table'[g].memmap \cap scb_table'[x].memmap = {}
      <4>1. CASE g = h
        <5>1. scb_table'[g].memmap = added
          BY <1>7, <3>2, <4>1
        <5>2. scb_table[x].memmap \cap added = {}
          BY <2>3, <3>1, <3>2, <4>1
        <5> QED
          BY <3>1, <5>1, <5>2
      <4>2. CASE g # h
        <5>1. StateOf(g) = "open" /\ scb_table'[g].memmap = scb_table[g].memmap
          BY <1>7, <3>2, <4>2
        <5> QED
          BY <2>2, <2>5, <3>1, <3>2, <5>1
      <4> QED
        BY <4>1, <4>2
    <3> QED
      BY <3>1, <3>2
  <2> QED
    BY <2>4, <2>5
<1> QED
  BY <1>8, <1>9, <1>10, <1>11, <1>12, <1>13, <1>14 DEF SconInv

-----------------------------------------------------------------------------

LEMMA SconInit ==
  ASSUME Init
  PROVE  SconInv
<1>1. /\ scb_table = << >> /\ stack = << >> /\ Len(scb_table) = 0 /\ Len(stack) = 0
      /\ Handles = {} /\ 1 .. Len(stack) = {} /\ noAccess = {}
  BY DEF Init, Handles
<1>2. TypeOK /\ capacity > 0
  <2>1. scb_table \in Seq(Scb) /\ stack \in Seq(Frame)
    BY <1>1
  <2>2. capacity \in Nat /\ capacity > 0 /\ Len(scb_table) <= capacity
    BY <1>1, SconAssumption DEF Init
  <2>3. loaded \in [Libs -> Nat] /\ noAccess \in SUBSET Area /\ heapEnd \in HeapEnds /\ status = "running"
    BY DEF Init
  <2> QED
    BY <2>1, <2>2, <2>3 DEF TypeOK
<1>3. CountInv
  <2>1. \A lib \in Libs : Refs(lib) = {}
    BY <1>1 DEF Refs
  <2> QED
    BY <2>1, FS_EmptySet DEF CountInv, Init
<1>4. FrameInv /\ PlainInv /\ OwnInv /\ FaultsAreFound /\ MemmapsApart
  BY <1>1 DEF FrameInv, PlainInv, OwnInv, FaultsAreFound, MemmapsApart, Open
<1> QED
  BY <1>2, <1>3, <1>4 DEF SconInv

LEMMA SconNext ==
  ASSUME SconInv, [Next]_vars
  PROVE  SconInv'
<1>1. CASE UNCHANGED vars
  <2>1. UNCHANGED <<scb_table, capacity, loaded, noAccess, heapEnd, stack, status>>
    BY <1>1 DEF vars
  <2>2. TypeOK' /\ capacity' > 0 /\ CountInv' /\ FrameInv' /\ FaultsAreFound' /\ MemmapsApart'
    BY <2>1, SMTT(30) DEF SconInv, TypeOK, CountInv, Refs, Handles, FrameInv, StateOf, LibOf, FaultsAreFound, Lost,
                Found, Open, MemmapsApart
  <2>3. PlainInv' /\ OwnInv'
    BY <2>1 DEF SconInv, PlainInv, PlainCtor, OwnInv, Handles, StateOf, LibOf, Maps, LibAreas, Heap, Map_diff,
                MapEntry_equal, OnItsOwn
  <2> QED
    BY <2>2, <2>3 DEF SconInv
<1>2. CASE CreateFails \/ ReturnStale
  BY <1>2, StopStep DEF CreateFails, ReturnStale
<1>3. ASSUME NEW h \in Handles, CallMissing(h) \/ UseLost(h) PROVE SconInv'
  BY <1>3, StopStep DEF CallMissing, UseLost
<1>4. ASSUME NEW a \in noAccess, FaultKills(a) PROVE SconInv'
  BY <1>4, StopStep DEF FaultKills
<1>5. CASE Next
  BY <1>2, <1>3, <1>4, <1>5, FaultStep, CallStep, ReturnStep, CloseStep, CreateBeginStep, CreateEndStep DEF Next
<1> QED
  BY <1>1, <1>5

-----------------------------------------------------------------------------

\* The table always has room for all its scbs, and scon_close never takes the
\* loader's count of a library below zero.
THEOREM TypeCorrect == Spec => []TypeOK
<1>1. SconInv => TypeOK
  BY DEF SconInv
<1> QED
  BY <1>1, SconInit, SconNext, PTL DEF Spec

\* sigsegv_handler finds every area that scon_create or scon_callf has protected,
\* unless a constructor has moved the table under the scon_create that ran it.
THEOREM FaultsAreFoundHolds == Spec => []FaultsAreFound
<1>1. SconInv => FaultsAreFound
  BY DEF SconInv
<1> QED
  BY <1>1, SconInit, SconNext, PTL DEF Spec

\* The memmap that scon_create keeps is that of its library alone.
THEOREM MemmapsApartHolds == Spec => []MemmapsApart
<1>1. SconInv => MemmapsApart
  BY DEF SconInv
<1> QED
  BY <1>1, SconInit, SconNext, PTL DEF Spec

\* scon_callf leaves nothing of a library accessible that is on its own.
THEOREM ReturnProtectsHolds == Spec => ReturnProtects
<1> DEFINE Protects == Return /\ OnItsOwn(scb_table[Top.scon].lib)
                         => AreasOf[scb_table[Top.scon].lib] \subseteq noAccess'
<1>1. ASSUME SconInv PROVE Protects
  <2> SUFFICES ASSUME Return, OnItsOwn(scb_table[Top.scon].lib)
               PROVE  AreasOf[scb_table[Top.scon].lib] \subseteq noAccess'
    OBVIOUS
  <2>0. TypeOK /\ FrameInv /\ OwnInv
    BY <1>1 DEF SconInv
  <2>1. /\ stack # << >> /\ Top.kind = "call" /\ noAccess' = noAccess \cup scb_table[Top.scon].memmap
    BY DEF Return
  <2>2. Top.scon \in Handles /\ scb_table[Top.scon].state = "open"
    BY <2>0, <2>1, TopFacts DEF FrameInv, StateOf
  <2>3. AreasOf[scb_table[Top.scon].lib] \subseteq scb_table[Top.scon].memmap
    BY <2>0, <2>2 DEF OwnInv, StateOf, LibOf
  <2> QED
    BY <2>1, <2>3
<1>2. SconInv => [Protects]_vars
  BY <1>1
<1> QED
  BY <1>2, SconInit, SconNext, PTL DEF Spec, ReturnProtects
=============================================================================
