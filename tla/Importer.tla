------------------------------ MODULE Importer ------------------------------
(***************************************************************************)
(* subcontexts_init: it loads an application as a shared library, creates  *)
(* a subcontext, and imports what its own process has mapped into it,      *)
(* range by range, with sc_import and sc_import_protNone                   *)
(* (subcontexts_init.c, subcontexts_core.c).  The first pass goes over     *)
(* the maps as they were before sc_init, the others over the maps as they  *)
(* are, until nothing is left to import.  A process that joins meanwhile   *)
(* walks the active regions (module Paging has this walk lock by lock).    *)
(*                                                                         *)
(* The address space is a row of ranges; Layout says what the loader and   *)
(* the libraries have mapped there.  All ranges have the same length, which *)
(* is the unit of the offsets in the backing file.                         *)
(***************************************************************************)
EXTENDS Integers, Sequences, FiniteSets, SequencesExt

CONSTANTS
  Layout,         \* what is mapped at each range when the library is loaded
  RegionStructs,  \* how many sc_regions the first page has left
  MaxNewMaps      \* a bound of the model: how often glibc maps a new range

Kinds == {"absent", "exe", "special", "none", "ro", "rw"}

ASSUME ImporterAssumption ==
  /\ Layout \in Seq(Kinds)
  /\ RegionStructs \in Nat \ {0}
  /\ MaxNewMaps \in Nat

VARIABLES
  pc,
  maps,           \* /proc/self/maps; "backing" is a range of the backing file
  before,         \* the copy of the maps that the first pass goes over
  rw_p_only,      \* a later pass
  line,           \* the range that the scan has come to
  importCount,
  \* the root control struct
  active_regions, \* the list, as a sequence of regions
  active_regionsTail, \* the place in it that the tail pointer points to
  free_structs,
  tmpfile_size,
  proc_count,
  rootHeld,
  \* others
  file_size,      \* the backing file
  joiner,         \* how far another process has joined,
  walked,         \* the region it has come to, and what it has mapped
  joinerMaps,
  newMaps,        \* how often glibc has mapped a new range
  \* history
  reserved,       \* the ranges that sc_init reserved
  late,           \* mapped after the last import, where the pass had already been
  passedBy        \* linked while the joiner walked

scan == <<before, rw_p_only, line, importCount>>
regions == <<active_regions, active_regionsTail, free_structs>>
file == <<tmpfile_size, file_size>>
group == <<joiner, walked, joinerMaps, passedBy, proc_count>>
vars == <<pc, maps, scan, regions, file, rootHeld, group, newMaps, reserved, late>>

Ranges == DOMAIN Layout
Absent == {r \in Ranges : maps[r] = "absent"}
NoOffset == -1
Region == [range : Ranges \cup {0}, prot : {"none", "ro", "rw", "unset"}, offset : Int]
ActiveRanges == {active_regions[i].range : i \in DOMAIN active_regions}

Init ==
  /\ pc = "load"
  /\ maps = Layout
  /\ before = Layout
  /\ rw_p_only = FALSE
  /\ line = 1
  /\ importCount = 0
  /\ active_regions = << >>
  /\ active_regionsTail = 0
  /\ free_structs = RegionStructs
  /\ tmpfile_size = 0
  /\ file_size = 0
  /\ proc_count = 0
  /\ rootHeld = FALSE
  /\ joiner = "outside"
  /\ walked = 0
  /\ joinerMaps = {}
  /\ newMaps = 0
  /\ reserved = {}
  /\ late = {}
  /\ passedBy = {}

-----------------------------------------------------------------------------
(* main                                                                    *)

\* dlopen fails, or the application has no subcontext_main.
LoadFails ==
  /\ pc = "load"
  /\ pc' = "returned"
  /\ UNCHANGED <<maps, scan, regions, file, rootHeld, group,
                 newMaps, reserved, late>>

\* Read all of /proc/self/maps.
ReadMaps ==
  /\ pc = "load"
  /\ before' = maps
  /\ pc' = "init"
  /\ UNCHANGED <<maps, rw_p_only, line, importCount, regions, file,
                 rootHeld, group, newMaps, reserved, late>>

\* sc_init (modules ScMemory and CleanupLog): the first page, a reserved range, the
\* page that the first sc_malloc takes from it, and the stack of the background
\* thread, wherever there is room.
Inited(page, page2, res, stack) ==
  /\ pc = "init"
  /\ Cardinality({page, page2, res, stack}) = 4
  /\ maps' = [maps EXCEPT ![page] = "backing", ![page2] = "backing",
                          ![res] = "none", ![stack] = "rw"]
  /\ active_regions' = <<[range |-> page, prot |-> "rw", offset |-> 0],
                         [range |-> page2, prot |-> "rw", offset |-> 1]>>
  /\ active_regionsTail' = 2
  /\ reserved' = {res}
  /\ tmpfile_size' = 2
  /\ file_size' = 2
  /\ proc_count' = 1
  /\ pc' = "scan"
  /\ UNCHANGED <<rw_p_only, line, importCount, free_structs, rootHeld, joiner, walked,
                 joinerMaps, passedBy, newMaps, late>>

MUT_ScInit_reread ==
  /\ \E page, page2, res, stack \in Absent : Inited(page, page2, res, stack)
  /\ before' = maps'

ScInit ==
  /\ \E page, page2, res, stack \in Absent : Inited(page, page2, res, stack)
  /\ UNCHANGED before

\* The line of the maps that the scan has come to: an old one in the first pass.
Line == IF rw_p_only THEN maps[line] ELSE before[line]

\* mapScanCallback skips the loader, the backing file, what is in brackets and, in
\* the later passes, all that is not rw-p.
Skipped ==
  \/ Line \in {"absent", "exe", "backing", "special"}
  \/ rw_p_only /\ Line # "rw"

Skip ==
  /\ pc = "scan"
  /\ line \in Ranges
  /\ Skipped
  /\ line' = line + 1
  /\ UNCHANGED <<pc, maps, before, rw_p_only, importCount, regions, file, rootHeld, group, newMaps, reserved, late>>

\* The end of a pass: another one, as long as something was imported; after that
\* the main function of the application.
MUT_PassEnds_once ==
  /\ pc = "scan"
  /\ line \notin Ranges
  /\ IF rw_p_only
     THEN pc' = "app" /\ UNCHANGED scan
     ELSE /\ rw_p_only' = TRUE
          /\ importCount' = 0
          /\ line' = 1
          /\ UNCHANGED <<pc, before>>
  /\ UNCHANGED <<maps, regions, file, rootHeld, group, newMaps, reserved, late>>

MUT_PassEnds_keep ==
  /\ pc = "scan"
  /\ line \notin Ranges
  /\ IF rw_p_only /\ importCount = 0
     THEN pc' = "app" /\ UNCHANGED scan
     ELSE /\ rw_p_only' = TRUE
          /\ line' = 1
          /\ UNCHANGED <<pc, before, importCount>>
  /\ UNCHANGED <<maps, regions, file, rootHeld, group, newMaps, reserved, late>>

PassEnds ==
  /\ pc = "scan"
  /\ line \notin Ranges
  /\ IF rw_p_only /\ importCount = 0
     THEN pc' = "app" /\ UNCHANGED scan
     ELSE /\ rw_p_only' = TRUE
          /\ importCount' = 0
          /\ line' = 1
          /\ UNCHANGED <<pc, before>>
  /\ UNCHANGED <<maps, regions, file, rootHeld, group, newMaps, reserved, late>>

-----------------------------------------------------------------------------
(* sc_import and sc_import_protNone                                        *)

Importing(kinds) ==
  /\ pc = "scan"
  /\ line \in Ranges
  /\ ~ Skipped
  /\ Line \in kinds
  /\ ~ rootHeld

\* Somebody else has joined: unlock, fail, and main returns, a member for ever.
ImportCrowded ==
  /\ Importing({"none", "ro", "rw"})
  /\ proc_count # 1
  /\ pc' = "returned"
  /\ UNCHANGED <<maps, scan, regions, file, rootHeld, group, newMaps, reserved, late>>

\* sc_getFreeRegion: TODO() for the last struct, with the root lock.  The handler
\* wants to leave the group, and waits for that lock.
ImportNoStruct ==
  /\ Importing({"none", "ro", "rw"})
  /\ proc_count = 1
  /\ free_structs = 1
  /\ rootHeld' = TRUE
  /\ pc' = "stuck"
  /\ UNCHANGED <<maps, scan, regions, file, group, newMaps, reserved, late>>

\* A region struct is linked into the active list, before it is filled in: that of
\* an unreadable range behind the first one, any other at the tail.
MUT_CanLink_crowd(kinds) ==
  /\ Importing(kinds)
  /\ free_structs > 1

MUT_CanLink_last(kinds) ==
  /\ Importing(kinds)
  /\ proc_count = 1
  /\ free_structs > 0

CanLink(kinds) ==
  /\ Importing(kinds)
  /\ proc_count = 1
  /\ free_structs > 1

NewRegion == [range |-> 0, prot |-> "unset", offset |-> NoOffset]

Link ==
  /\ free_structs' = free_structs - 1
  /\ rootHeld' = TRUE
  /\ passedBy' = IF joiner \in {"walking", "walked"} THEN passedBy \cup {line} ELSE passedBy
  /\ UNCHANGED <<maps, scan, file, joiner, joinerMaps, proc_count, newMaps, reserved, late>>

ImportLink ==
  /\ CanLink({"ro", "rw"})
  /\ active_regions' = Append(SubSeq(active_regions, 1, active_regionsTail), NewRegion)
  /\ active_regionsTail' = active_regionsTail + 1
  /\ pc' = "fill"
  /\ Link
  /\ UNCHANGED walked

\* The list holds two regions since sc_init, so that the tail stays the tail.
ProtNoneLink ==
  /\ CanLink({"none"})
  /\ active_regions' = InsertAt(active_regions, 2, NewRegion)
  /\ active_regionsTail' = IF active_regionsTail = 1 THEN 1 ELSE active_regionsTail + 1
  /\ walked' = IF walked >= 2 THEN walked + 1 ELSE walked
  /\ pc' = "fill_none"
  /\ Link

\* The fields are filled in, under the root lock.
Filled(i, prot, offset) ==
  active_regions' = [active_regions EXCEPT ![i] =
                       [range |-> line, prot |-> prot, offset |-> offset]]

Imported ==
  /\ rootHeld' = FALSE
  /\ importCount' = importCount + 1
  /\ line' = line + 1
  /\ late' = {}
  /\ pc' = "scan"
  /\ UNCHANGED <<before, rw_p_only>>

\* The file grows, takes a copy of the range, and is mapped over the range.
ImportFill ==
  /\ pc = "fill"
  /\ Filled(active_regionsTail, Line, tmpfile_size)
  /\ tmpfile_size' = tmpfile_size + 1
  /\ file_size' = tmpfile_size + 1
  /\ maps' = [maps EXCEPT ![line] = "backing"]
  /\ Imported
  /\ UNCHANGED <<active_regionsTail, free_structs, group, newMaps, reserved>>

\* ftruncate() fails: the region stays in the list, outside of the file.
ImportNoFile ==
  /\ pc = "fill"
  /\ Filled(active_regionsTail, Line, tmpfile_size)
  /\ tmpfile_size' = tmpfile_size + 1
  /\ rootHeld' = FALSE
  /\ pc' = "returned"
  /\ UNCHANGED <<maps, scan, active_regionsTail, free_structs, file_size, group, newMaps, reserved, late>>

\* The file cannot be mapped: fail, without unlocking the root.
ImportNoMap ==
  /\ pc = "fill"
  /\ Filled(active_regionsTail, Line, tmpfile_size)
  /\ tmpfile_size' = tmpfile_size + 1
  /\ file_size' = tmpfile_size + 1
  /\ pc' = "returned"
  /\ UNCHANGED <<maps, scan, active_regionsTail, free_structs, rootHeld, group, newMaps, reserved, late>>

ProtNoneFill ==
  /\ pc = "fill_none"
  /\ Filled(2, "none", NoOffset)
  /\ Imported
  /\ UNCHANGED <<maps, active_regionsTail, free_structs, file, group, newMaps, reserved>>

ProtNoneNoMap ==
  /\ pc = "fill_none"
  /\ Filled(2, "none", NoOffset)
  /\ pc' = "returned"
  /\ UNCHANGED <<maps, scan, active_regionsTail, free_structs, file, rootHeld, group,
                 newMaps, reserved, late>>

-----------------------------------------------------------------------------
(* Meanwhile                                                               *)

\* glibc maps memory for itself ("such as for file buffers").
NewMap(r) ==
  /\ pc \in {"init", "scan", "fill", "fill_none"}
  /\ newMaps < MaxNewMaps
  /\ r \in Absent
  /\ maps' = [maps EXCEPT ![r] = "rw"]
  /\ newMaps' = newMaps + 1
  /\ late' = IF rw_p_only /\ r < line THEN late \cup {r} ELSE late
  /\ UNCHANGED <<pc, scan, regions, file, rootHeld, group, reserved>>

\* Another process joins: it claims its sc_process, with the root lock, walks the
\* list without it, and enters the group with the lock again.
JoinClaim ==
  /\ joiner = "outside"
  /\ active_regions # << >>
  /\ ~ rootHeld
  /\ joiner' = "walking"
  /\ walked' = 1
  /\ joinerMaps' = {active_regions[1].range}
  /\ UNCHANGED <<pc, maps, scan, regions, file, rootHeld, proc_count,
                 newMaps, reserved, late, passedBy>>

JoinWalk ==
  /\ joiner = "walking"
  /\ walked < Len(active_regions)
  /\ active_regions[walked + 1].prot # "unset"
  /\ walked' = walked + 1
  /\ joinerMaps' = joinerMaps \cup {active_regions[walked + 1].range}
  /\ UNCHANGED <<pc, maps, scan, regions, file, rootHeld, joiner,
                 proc_count, newMaps, reserved, late, passedBy>>

\* A region that is not filled in cannot be mapped; or its addresses are in use.
JoinFails ==
  /\ joiner = "walking"
  /\ walked < Len(active_regions)
  /\ joiner' = "failed"
  /\ UNCHANGED <<pc, maps, scan, regions, file, rootHeld, walked,
                 joinerMaps, proc_count, newMaps, reserved, late, passedBy>>

JoinWalked ==
  /\ joiner = "walking"
  /\ walked = Len(active_regions)
  /\ joiner' = "walked"
  /\ UNCHANGED <<pc, maps, scan, regions, file, rootHeld, walked,
                 joinerMaps, proc_count, newMaps, reserved, late, passedBy>>

JoinRegister ==
  /\ joiner = "walked"
  /\ ~ rootHeld
  /\ joiner' = "member"
  /\ proc_count' = proc_count + 1
  /\ UNCHANGED <<pc, maps, scan, regions, file, rootHeld, walked,
                 joinerMaps, newMaps, reserved, late, passedBy>>

-----------------------------------------------------------------------------

Run ==
  \/ LoadFails \/ ReadMaps \/ ScInit \/ Skip \/ PassEnds
  \/ ImportCrowded \/ ImportNoStruct
  \/ ImportLink \/ ImportFill \/ ImportNoFile \/ ImportNoMap
  \/ ProtNoneLink \/ ProtNoneFill \/ ProtNoneNoMap

Next ==
  \/ Run
  \/ \E r \in Ranges : NewMap(r)
  \/ JoinClaim \/ JoinWalk \/ JoinFails \/ JoinWalked \/ JoinRegister

Spec == Init /\ [][Next]_vars /\ WF_vars(Run)

-----------------------------------------------------------------------------

\* The variables have their types.
TypeOK ==
  /\ pc \in {"load", "init", "scan", "fill", "fill_none", "app", "returned", "stuck"}
  /\ maps \in [Ranges -> Kinds \cup {"backing"}]
  /\ before \in [Ranges -> Kinds \cup {"backing"}]
  /\ rw_p_only \in BOOLEAN
  /\ line \in 1 .. Len(Layout) + 1
  /\ importCount \in 0 .. Len(Layout)
  /\ active_regions \in Seq(Region)
  /\ active_regionsTail \in 0 .. Len(active_regions)
  /\ free_structs \in 1 .. RegionStructs
  /\ tmpfile_size \in Nat
  /\ file_size \in Nat
  /\ proc_count \in 0 .. 2
  /\ rootHeld \in BOOLEAN
  /\ joiner \in {"outside", "walking", "failed", "walked", "member"}
  /\ walked \in 0 .. Len(active_regions)
  /\ joinerMaps \in SUBSET Ranges
  /\ newMaps \in 0 .. MaxNewMaps
  /\ reserved \in SUBSET Ranges
  /\ late \in SUBSET Ranges
  /\ passedBy \in SUBSET Ranges

\* No range is active twice, none is both active and reserved ("this caused us to
\* have conflicting regions: reserved regions, and active regions with PROT_NONE"),
\* and what is active lies within the file, each at a place of its own, unless the
\* import has failed.
ImportsApart ==
  LET A == {i \in DOMAIN active_regions : active_regions[i].prot # "unset"}
      Act(i) == active_regions[i]
  IN /\ \A i \in A : Act(i).range \notin reserved
     /\ \A i, j \in A : i # j =>
          /\ Act(i).range # Act(j).range
          /\ Act(i).offset # NoOffset => Act(i).offset # Act(j).offset
     /\ pc # "returned" => \A i \in A : Act(i).offset < file_size

\* When the application starts, all the memory that its library can reach is in
\* the subcontext: what was mapped at first except for the loader and what is in
\* brackets, the stack of the background thread, and whatever glibc mapped before
\* the last import, on whichever side of the scan.
AllImported ==
  pc = "app" =>
    /\ \A r \in Ranges : maps[r] = "rw" => r \in late
    /\ \A r \in Ranges : before[r] \in {"none", "ro", "rw"} => r \in ActiveRanges

\* A process that joins before the import is over has every active region, but for
\* those that were linked during its walk: afterwards it is counted, and nothing
\* more can be imported.
JoinerHasAll ==
  joiner = "member" /\ pc \in {"scan", "app"} =>
    ActiveRanges \subseteq joinerMaps \cup passedBy

\* The passes come to an end, although every import may make glibc map more; or the
\* region structs run out, and the importer waits for its own lock.
ImportEnds == <>(pc \in {"app", "returned", "stuck"})
=============================================================================
