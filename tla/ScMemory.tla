------------------------------ MODULE ScMemory ------------------------------
(***************************************************************************)
(* The memory of one subcontext: sc_mmap, which turns reserved addresses   *)
(* into active regions of the backing file, and sc_malloc and sc_free,     *)
(* which cut regions into buffers (subcontexts_core.c).                    *)
(*                                                                         *)
(* Addresses and lengths are numbers of bytes, the sizes of the structs    *)
(* are the real ones; only the page is small.  Any process may call any    *)
(* operation: all of this state is shared.  sc_malloc holds the malloc     *)
(* lock while it calls sc_mmap, which takes the root lock: other processes *)
(* may call sc_mmap and post reservations in between.  A TODO() or a       *)
(* failed assertion under the root lock leaves that lock held for ever.    *)
(***************************************************************************)
EXTENDS Integers, Sequences, FiniteSets, FiniteSetsExt

CONSTANTS
  PageSize,
  Sizes,          \* the sizes that processes ask of sc_malloc
  MmapPages,      \* the numbers of pages that they ask of sc_mmap
  ReservedPages,  \* the length of the first reserved region, in pages
  NewPages,       \* the length of the regions that subcontexts_ctl reserves
  RegionStructs,  \* how many sc_regions the first page has left
  MaxFilePages    \* a bound of the model: ftruncate() fails below this size only

ASSUME MemoryAssumption ==
  /\ PageSize \in Nat /\ PageSize > 0 /\ PageSize % 8 = 0
  /\ Sizes \subseteq Nat
  /\ MmapPages \subseteq Nat \ {0}
  /\ ReservedPages \in Nat \ {0}
  /\ NewPages \subseteq Nat \ {0}
  /\ RegionStructs \in Nat \ {0}
  /\ MaxFilePages \in Nat

VARIABLES
  \* sc_malloc_metadata
  freeList,          \* a sequence of sc_malloc_listNodes
  request,           \* what the holder of the malloc lock calls sc_mmap for
  \* the root control struct
  active_regions,
  reserved_regions,
  free_structs,      \* how many there are
  tmpfile_size,
  rootHeld,          \* somebody has died with the root lock
  \* the backing file
  file_size,
  \* what the callers have
  blocks,            \* the buffers in use
  \* history
  runs,              \* the pages that sc_malloc got from sc_mmap
  handed             \* the addresses of all buffers that sc_malloc ever returned

malloc == <<freeList, request, blocks, runs, handed>>
regions == <<active_regions, reserved_regions, free_structs>>
file == <<tmpfile_size, file_size>>
vars == <<malloc, regions, file, rootHeld>>

\* sizeof(sc_malloc_header), sizeof(sc_malloc_footer), sizeof(sc_malloc_listNode)
Header == 16
Footer == 8
ListNode == 24

NoRequest == -1

Node == [addr : Nat, len : Nat, pages : Nat]
Block == [addr : Nat, len : Nat, size : Nat]
Region == [vaddr : Nat, len : Nat, tmpfile_offset : Nat]
Reserved == [vaddr : Nat, len : Nat]

RoundUp(n, unit) == ((n + unit - 1) \div unit) * unit

\* alloc_size and split_size of sc_malloc: the buffer with its header and footer,
\* and with room for the list node of what is left over as well.
MUT_AllocSize_nofooter(size) == RoundUp(Header + size, 8)

AllocSize(size) == RoundUp(Header + size, 8) + Footer
SplitSize(size) == AllocSize(size) + ListNode

\* The state that sc_init leaves: the first page is an active region, the next
\* addresses are reserved, and the free list of sc_malloc is empty.
Init ==
  /\ freeList = << >>
  /\ request = NoRequest
  /\ active_regions = <<[vaddr |-> 0, len |-> PageSize, tmpfile_offset |-> 0]>>
  /\ reserved_regions = <<[vaddr |-> 2 * PageSize, len |-> ReservedPages * PageSize]>>
  /\ free_structs = RegionStructs
  /\ tmpfile_size = PageSize
  /\ file_size = PageSize
  /\ rootHeld = FALSE
  /\ blocks = {}
  /\ runs = {}
  /\ handed = {}

-----------------------------------------------------------------------------
(* sc_mmap and sc_getFreeRegion                                            *)

First == reserved_regions[1]

\* tmpfile_size is increased before ftruncate() is tried.
MUT_Extend_file(len) ==
  /\ tmpfile_size' = tmpfile_size + len
  /\ file_size' = file_size + len

Extend(len) ==
  /\ tmpfile_size' = tmpfile_size + len
  /\ file_size' = tmpfile_size + len

\* The pages come off the front of the first reserved region.
Consume(len) ==
  reserved_regions' =
    [reserved_regions EXCEPT ![1] = [vaddr |-> @.vaddr + len, len |-> @.len - len]]

\* All goes well: the new region is hung at the tail of the active list.
MUT_MapRegion_nocheck(len) ==
  /\ ~ rootHeld
  /\ free_structs > 1
  /\ First.len # len
  /\ Extend(len)
  /\ Consume(len)
  /\ free_structs' = free_structs - 1
  /\ active_regions' = Append(active_regions,
       [vaddr |-> First.vaddr, len |-> len, tmpfile_offset |-> tmpfile_size])
  /\ UNCHANGED rootHeld

MapRegion(len) ==
  /\ ~ rootHeld
  /\ free_structs > 1
  /\ First.len > len
  /\ Extend(len)
  /\ Consume(len)
  /\ free_structs' = free_structs - 1
  /\ active_regions' = Append(active_regions,
       [vaddr |-> First.vaddr, len |-> len, tmpfile_offset |-> tmpfile_size])
  /\ UNCHANGED rootHeld

\* MAP_FAILED: the process does not find its sc_local, or ftruncate() fails.
MapRefused(len) ==
  /\ ~ rootHeld
  /\ \/ UNCHANGED tmpfile_size
     \/ /\ tmpfile_size + len <= MaxFilePages * PageSize
        /\ tmpfile_size' = tmpfile_size + len
  /\ UNCHANGED <<file_size, regions, rootHeld>>

\* The root lock is lost: TODO() for a step in the cleanup log, TODO() for the
\* last free struct, the assertion that the first reserved region is long
\* enough, and TODO() when it has been used up.
MapDies(len) ==
  /\ ~ rootHeld
  /\ rootHeld' = TRUE
  /\ UNCHANGED active_regions
  /\ \/ UNCHANGED <<file, reserved_regions, free_structs>>
     \/ /\ free_structs = 1
        /\ Extend(len)
        /\ UNCHANGED <<reserved_regions, free_structs>>
     \/ /\ free_structs > 1
        /\ First.len <= len
        /\ Extend(len)
        /\ free_structs' = free_structs - 1
        /\ IF First.len = len THEN Consume(len) ELSE UNCHANGED reserved_regions

\* A process calls sc_mmap itself.
Mmap(len) == (MapRegion(len) \/ MapRefused(len) \/ MapDies(len)) /\ UNCHANGED malloc

-----------------------------------------------------------------------------
(* sc_malloc                                                               *)

\* A list node that a page run begins with is never used up.
Fits(node, size) ==
  \/ node.len >= SplitSize(size)
  \/ node.len >= AllocSize(size) /\ node.pages = 0

FirstFit(i, size) ==
  /\ i \in DOMAIN freeList
  /\ Fits(freeList[i], size)
  /\ \A j \in 1 .. i - 1 : ~ Fits(freeList[j], size)

\* A node is cut in up to three: the list node that heads its pages, the buffer,
\* and the node of what is left over.
HeadLen(node) == IF node.pages # 0 THEN ListNode ELSE 0
IsSplit(node, size) == node.len - HeadLen(node) >= SplitSize(size)

BufferLen(node, size) ==
  IF IsSplit(node, size) THEN AllocSize(size) ELSE node.len - HeadLen(node)

MUT_PageHead_pages(node) ==
  IF node.pages # 0 THEN <<[node EXCEPT !.len = ListNode, !.pages = 0]>> ELSE << >>

PageHead(node) ==
  IF node.pages # 0 THEN <<[node EXCEPT !.len = ListNode]>> ELSE << >>

Buffer(node, size) ==
  [addr |-> node.addr + HeadLen(node), len |-> BufferLen(node, size), size |-> size]

MUT_Rest_footer(node, size) ==
  IF IsSplit(node, size)
  THEN <<[addr |-> node.addr + HeadLen(node) + AllocSize(size) - Footer,
          len |-> node.len - HeadLen(node) - AllocSize(size), pages |-> 0]>>
  ELSE << >>

MUT_Rest_drop(node, size) ==
  IF IsSplit(node, size) /\ node.pages = 0
  THEN <<[addr |-> node.addr + HeadLen(node) + AllocSize(size),
          len |-> node.len - HeadLen(node) - AllocSize(size), pages |-> 0]>>
  ELSE << >>

Rest(node, size) ==
  IF IsSplit(node, size)
  THEN <<[addr |-> node.addr + HeadLen(node) + AllocSize(size),
          len |-> node.len - HeadLen(node) - AllocSize(size), pages |-> 0]>>
  ELSE << >>

\* The buffer is cut from the node between the lists before and after.
Cut(before, node, after, size) ==
  /\ freeList' = before \o (PageHead(node) \o Rest(node, size)) \o after
  /\ blocks' = blocks \cup {Buffer(node, size)}
  /\ handed' = handed \cup {Buffer(node, size).addr}

Malloc(size) ==
  /\ request = NoRequest
  /\ \E i \in DOMAIN freeList :
       /\ FirstFit(i, size)
       /\ Cut(SubSeq(freeList, 1, i - 1), freeList[i],
              SubSeq(freeList, i + 1, Len(freeList)), size)
  /\ UNCHANGED <<request, runs, regions, file, rootHeld>>

\* No node is large enough: call sc_mmap, with the malloc lock.
MallocSearchFails(size) ==
  /\ request = NoRequest
  /\ \A i \in DOMAIN freeList : ~ Fits(freeList[i], size)
  /\ request' = size
  /\ UNCHANGED <<freeList, blocks, runs, handed, regions, file, rootHeld>>

GrowLen == RoundUp(SplitSize(request), PageSize)

\* The new pages become one node at the front of the list, which is then cut.
MallocGrows ==
  /\ request # NoRequest
  /\ MapRegion(GrowLen)
  /\ LET node == [addr |-> First.vaddr, len |-> GrowLen, pages |-> GrowLen \div PageSize]
     IN /\ Cut(<< >>, node, freeList, request)
        /\ runs' = runs \cup {[addr |-> node.addr, pages |-> node.pages]}
  /\ request' = NoRequest

\* sc_malloc returns NULL.
MallocFails ==
  /\ request # NoRequest
  /\ MapRefused(GrowLen)
  /\ request' = NoRequest
  /\ UNCHANGED <<freeList, blocks, runs, handed>>

\* Both locks are lost.
MallocDies ==
  /\ request # NoRequest
  /\ MapDies(GrowLen)
  /\ UNCHANGED malloc

-----------------------------------------------------------------------------

\* sc_free: the buffer becomes the first node of the free list.  Nothing is ever
\* joined.
MUT_Free_join(block) ==
  LET Next1 == {i \in DOMAIN freeList : freeList[i].addr = block.addr + block.len
                                         /\ freeList[i].pages = 0}
  IN /\ request = NoRequest
     /\ blocks' = blocks \ {block}
     /\ freeList' =
          IF Next1 = {} THEN <<[addr |-> block.addr, len |-> block.len, pages |-> 0]>> \o freeList
          ELSE LET i == CHOOSE j \in Next1 : TRUE
               IN [freeList EXCEPT ![i] = [addr |-> block.addr, len |-> block.len + @.len,
                                           pages |-> 0]]
     /\ UNCHANGED <<request, runs, handed, regions, file, rootHeld>>

Free(block) ==
  /\ request = NoRequest
  /\ blocks' = blocks \ {block}
  /\ freeList' = <<[addr |-> block.addr, len |-> block.len, pages |-> 0]>> \o freeList
  /\ UNCHANGED <<request, runs, handed, regions, file, rootHeld>>

\* A reservation posted by sc_postNewReservation is complete (module CleanupLog):
\* its region, with addresses that mmap() found unused, becomes the first one.
\* (The thread that publishes it frees the step under the root lock, so it does
\* not get past a sc_malloc that holds the malloc lock.)
AddressesUsed ==
  {r.vaddr + r.len : r \in {active_regions[i] : i \in DOMAIN active_regions}
                        \cup {reserved_regions[i] : i \in DOMAIN reserved_regions}}

Reserve(pages) ==
  /\ ~ rootHeld
  /\ request = NoRequest
  /\ free_structs > 1
  /\ free_structs' = free_structs - 1
  /\ reserved_regions' =
       <<[vaddr |-> Max(AddressesUsed) + PageSize, len |-> pages * PageSize]>> \o reserved_regions
  /\ UNCHANGED <<malloc, active_regions, file, rootHeld>>

Next ==
  \/ \E size \in Sizes : Malloc(size) \/ MallocSearchFails(size)
  \/ MallocGrows \/ MallocFails \/ MallocDies
  \/ \E block \in blocks : Free(block)
  \/ \E n \in MmapPages : Mmap(n * PageSize)
  \/ \E n \in NewPages : Reserve(n)

Spec == Init /\ [][Next]_vars

-----------------------------------------------------------------------------

\* The variables have their types; lengths never become negative, and the pool of
\* region structs "can never be empty".
TypeOK ==
  /\ freeList \in Seq(Node)
  /\ request \in Sizes \cup {NoRequest}
  /\ active_regions \in Seq(Region)
  /\ reserved_regions \in Seq(Reserved)
  /\ free_structs \in Nat \ {0}
  /\ tmpfile_size \in Nat
  /\ file_size \in Nat
  /\ rootHeld \in BOOLEAN
  /\ blocks \in SUBSET Block
  /\ runs \in SUBSET [addr : Nat, pages : Nat]
  /\ handed \in SUBSET Nat

Apart(start1, len1, start2, len2) ==
  start1 + len1 <= start2 \/ start2 + len2 <= start1

Nodes == {freeList[i] : i \in DOMAIN freeList}

\* No two buffers share a byte, no buffer shares one with a node of the free list,
\* and no two nodes of the list do: whatever is cut, freed and cut again.
NoOverlap ==
  /\ \A i, j \in DOMAIN freeList : i # j =>
       Apart(freeList[i].addr, freeList[i].len, freeList[j].addr, freeList[j].len)
  /\ \A b \in blocks : \A n \in Nodes : Apart(b.addr, b.len, n.addr, n.len)
  /\ \A b, c \in blocks : b # c => Apart(b.addr, b.len, c.addr, c.len)

\* sc_malloc loses no memory: every byte of the pages it got from sc_mmap belongs
\* to a buffer in use or to a node of the free list, which lie in those pages.
InRun(addr, len) ==
  \E r \in runs : r.addr <= addr /\ addr + len <= r.addr + r.pages * PageSize

NoLeak ==
  /\ \A x \in Nodes \cup blocks : InRun(x.addr, x.len)
  /\ \A r \in runs : \A a \in r.addr .. r.addr + r.pages * PageSize - 1 :
       \E x \in Nodes \cup blocks : a \in x.addr .. x.addr + x.len - 1

\* The list node that heads a run of pages stays on the free list, with the
\* number of pages, as long as the run exists ("this metadata must be preserved").
PageHeadsKept ==
  \A r \in runs : \E n \in Nodes : n.addr = r.addr /\ n.pages = r.pages

\* Every buffer has room for its header, for what was asked for and for its
\* footer, and is not longer than split_size; it can become a list node again.
\* So can every node of the free list be one.
BlocksFit ==
  /\ \A b \in blocks :
       /\ b.addr % 8 = 0 /\ b.len % 8 = 0
       /\ Header + b.size + Footer <= b.len
       /\ b.len < Header + b.size + Footer + 8 + ListNode
       /\ ListNode <= b.len
  /\ \A n \in Nodes : n.len >= ListNode /\ n.len % 8 = 0

\* A buffer that was freed and not handed out again begins a node of the free
\* list, whose next pointer lies where the header's magic value was: so sc_free
\* tells a second sc_free() of it from a first one.
StaleFreeDetected == handed \ {b.addr : b \in blocks} = handed \cap {n.addr : n \in Nodes}

\* No address is both active and reserved, or active twice; no byte of the backing
\* file is in two active regions; and every active region lies within the file,
\* though tmpfile_size runs ahead of it when ftruncate() fails.
RegionsApart ==
  LET A == DOMAIN active_regions
      R == DOMAIN reserved_regions
      Act(i) == active_regions[i]
      Res(i) == reserved_regions[i]
  IN /\ \A i, j \in A : i # j =>
          /\ Apart(Act(i).vaddr, Act(i).len, Act(j).vaddr, Act(j).len)
          /\ Apart(Act(i).tmpfile_offset, Act(i).len, Act(j).tmpfile_offset, Act(j).len)
     /\ \A i \in A, j \in R : Apart(Act(i).vaddr, Act(i).len, Res(j).vaddr, Res(j).len)
     /\ \A i, j \in R : i # j => Apart(Res(i).vaddr, Res(i).len, Res(j).vaddr, Res(j).len)
     /\ \A i \in A : Act(i).tmpfile_offset + Act(i).len <= file_size
=============================================================================
