---------------------------- MODULE KernelProofs ----------------------------
(***************************************************************************)
(* Proofs about the kernel for every number of slots, frames, directories  *)
(* and pids.  KernelInv is the inductive invariant; the properties MCKernel*)
(* checks on a small instance follow from it.                              *)
(***************************************************************************)
EXTENDS Kernel, Lemmas, FiniteSetTheorems, TLAPS

-----------------------------------------------------------------------------
(* Lemmas on the operators the model is built from. *)

\* Least picks an element of any nonempty set of slots or directories.
LEMMA LeastInSet ==
  ASSUME NEW S \in SUBSET Nat, S # {}
  PROVE  Least(S) \in S
BY LeastElement DEF Least

\* The loop of the scheduler stops at one of the slots it looks for.
LEMMA NearestInSet ==
  ASSUME NEW S \in SUBSET Slots, S # {}, FirstSlot \in Int
  PROVE  Nearest(S) \in S
<1> DEFINE D == {Distance(i) : i \in S}
<1>1. \A i \in S : Distance(i) \in Nat
  BY ProcessAssumption DEF Distance, Slots
<1>2. PICK x \in D : \A y \in D : x <= y
  <2>1. D \in SUBSET Nat /\ D # {}
    BY <1>1
  <2> HIDE DEF D
  <2> QED
    BY <2>1, LeastElement
<1>3. PICK i \in S : x = Distance(i)
  OBVIOUS
<1>4. \A j \in S : Distance(i) <= Distance(j)
  BY <1>2, <1>3
<1> QED
  BY <1>3, <1>4 DEF Nearest

\* The allocation loop ends with a frame or just past the memory, and any frame
\* it ends with was free.
LEMMA NthFreeFrameType ==
  ASSUME NEW map, NEW k
  PROVE  /\ NthFreeFrame(map, k) \in Frames \cup {BeyondMemory}
         /\ NthFreeFrame(map, k) \in Frames => ~map[NthFreeFrame(map, k)]
<1> DEFINE fits == {f \in FreeFrames(map) : Cardinality({g \in FreeFrames(map) : g < f}) = k}
<1>1. NthFreeFrame(map, k) = IF fits = {} THEN BeyondMemory ELSE CHOOSE f \in fits : TRUE
  BY DEF NthFreeFrame
<1>2. fits \subseteq FreeFrames(map)
  OBVIOUS
<1> HIDE DEF fits
<1>3. CASE fits = {}
  BY <1>1, <1>3, PagingAssumption DEF BeyondMemory, Frames
<1>4. CASE fits # {}
  BY <1>1, <1>2, <1>4 DEF FreeFrames
<1> QED
  BY <1>3, <1>4

\* Mapping pages into a directory in use keeps the page manager's type.
LEMMA AllocateType ==
  ASSUME NEW pg \in PagingType, NEW d \in Directories, NEW n \in Nat
  PROVE  paging_allocate_user_page_frames(pg, d, n) \in PagingType
<1> DEFINE found == {k \in 0 .. n - 1 : NthFreeFrame(pg.page_frame_map, k) # BeyondMemory}
           taken == {NthFreeFrame(pg.page_frame_map, k) : k \in found}
           pages == [p \in UserPages |->
                       IF p < n - 1 THEN NthFreeFrame(pg.page_frame_map, p)
                       ELSE IF p = StackPage THEN NthFreeFrame(pg.page_frame_map, n - 1)
                       ELSE pg.user[d][p]]
           map   == [f \in Frames |-> pg.page_frame_map[f] \/ f \in taken]
<1>1. Cardinality(found) \in Nat
  <2>1. IsFiniteSet(0 .. n - 1)
    BY FS_Interval
  <2>2. found \in SUBSET (0 .. n - 1)
    OBVIOUS
  <2> HIDE DEF found
  <2> QED
    BY <2>1, <2>2, FS_Subset, FS_CardinalityType
<1>2. pages \in [UserPages -> Frames \cup {Unmapped, BeyondMemory}]
  BY NthFreeFrameType DEF PagingType
<1>3. map \in [Frames -> BOOLEAN]
  BY DEF PagingType
<1>4. paging_allocate_user_page_frames(pg, d, n)
        = [pg EXCEPT !.page_frame_map = map,
                     !.free_page_frame_count = @ - Cardinality(found),
                     !.user[d] = pages]
  BY DEF paging_allocate_user_page_frames
<1> HIDE DEF found, map, pages
<1>5. [pg.user EXCEPT ![d] = pages]
        \in [Directories -> [UserPages -> Frames \cup {Unmapped, BeyondMemory}]]
  BY <1>2 DEF PagingType
<1>6. pg.free_page_frame_count - Cardinality(found) \in Int
  BY <1>1 DEF PagingType
<1> QED
  BY <1>3, <1>4, <1>5, <1>6 DEF PagingType

\* Freeing frames keeps the page manager's type, the counter grows.
LEMMA FreeFramesType ==
  ASSUME NEW pg \in PagingType, NEW entry, NEW n \in Nat
  PROVE  paging_free_user_page_frames(pg, entry, n) \in PagingType
<1> DEFINE map == [f \in Frames |->
                     pg.page_frame_map[f] /\ ~(n > 0 /\ f = physical_index(entry))]
<1>1. map \in [Frames -> BOOLEAN]
  BY DEF PagingType
<1>2. paging_free_user_page_frames(pg, entry, n)
        = [pg EXCEPT !.page_frame_map = map, !.free_page_frame_count = @ + n]
  BY DEF paging_free_user_page_frames
<1> HIDE DEF map
<1>3. pg.free_page_frame_count + n \in Int
  BY DEF PagingType
<1> QED
  BY <1>1, <1>2, <1>3 DEF PagingType

\* So do creating and freeing a directory.
LEMMA DirectoryType ==
  ASSUME NEW pg \in PagingType, NEW d \in Directories
  PROVE  /\ paging_create_new_page_directory(pg, d) \in PagingType
         /\ paging_free_page_directory(pg, d) \in PagingType
BY DEF paging_create_new_page_directory, paging_free_page_directory, PagingType

\* The frame index freed is 0 whatever frame the entry names: a frame number is
\* divided by the size of a frame in bytes.
LEMMA PhysicalIndexZero ==
  ASSUME NEW entry \in 0 .. PAGE_FRAME_MAX_COUNT
  PROVE  physical_index(entry) = 0
BY PagingAssumption DEF physical_index

-----------------------------------------------------------------------------
(* KernelInv is inductive. *)

\* The invariant holds initially.
LEMMA KernelInit == Init => KernelInv
<1> SUFFICES ASSUME Init PROVE KernelInv
  OBVIOUS
<1> USE DEF Init, ProcessInit, SchedulerInit
<1>1. TypeOK
  <2>1. paging \in PagingType
    BY PagingAssumption DEF page_manager_state_init, PagingType, Frames, Directories, UserPages,
       Unmapped, BeyondMemory
  <2>2. process_list \in [Slots -> PCBType]
    BY DEF FreePCB, PCBType, States, Flags, Garbage
  <2> QED
    BY <2>1, <2>2, SchedulerAssumption DEF TypeOK, KernelDirectory, Modes, Flags
<1>2. RunningIsCurrent /\ FreeSlotsHaveNoDirectory /\ OwnDirectory /\ RunningInOwnSpace
  BY DEF RunningIsCurrent, Running, FreeSlotsHaveNoDirectory, OwnDirectory, RunningInOwnSpace,
     Live, FreePCB
<1>3. DistinctPids
  BY DEF DistinctPids, FreePCB
<1>4. \A d \in Directories, f \in Frames \ {0} : ~Maps(d, f)
  BY DEF Maps, page_manager_state_init, Unmapped, Frames
<1> QED
  BY <1>1, <1>2, <1>3, <1>4 DEF KernelInv, MappedFramesMarked, UserFramesPrivate

-----------------------------------------------------------------------------
(* What the operations of the page manager do to the rest of its state. *)

MapsIn(pg, d, f) == \E p \in UserPages : pg.user[d][p] = f

\* Freeing frames only ever clears the mark of frame 0.
LEMMA FreeFramesEffect ==
  ASSUME NEW pg \in PagingType, NEW entry \in 0 .. PAGE_FRAME_MAX_COUNT, NEW n \in Nat
  PROVE  LET r == paging_free_user_page_frames(pg, entry, n)
         IN  /\ r.page_directory_used = pg.page_directory_used
             /\ r.kernel_present = pg.kernel_present
             /\ r.user = pg.user
             /\ \A f \in Frames \ {0} : r.page_frame_map[f] = pg.page_frame_map[f]
<1>1. physical_index(entry) = 0
  BY PhysicalIndexZero
<1> QED
  BY <1>1 DEF paging_free_user_page_frames, PagingType

\* Freeing a directory unmaps it and touches no other.
LEMMA FreeDirectoryEffect ==
  ASSUME NEW pg \in PagingType, NEW d \in Directories
  PROVE  LET r == paging_free_page_directory(pg, d)
         IN  /\ r.page_frame_map = pg.page_frame_map
             /\ \A f \in Frames : ~MapsIn(r, d, f)
             /\ \A e \in Directories \ {d} : /\ r.page_directory_used[e] = pg.page_directory_used[e]
                                             /\ r.kernel_present[e] = pg.kernel_present[e]
                                             /\ r.user[e] = pg.user[e]
BY DEF paging_free_page_directory, PagingType, MapsIn, Unmapped, Frames

\* Creating a directory touches no other.
LEMMA CreateDirectoryEffect ==
  ASSUME NEW pg \in PagingType, NEW d \in Directories
  PROVE  LET r == paging_create_new_page_directory(pg, d)
         IN  /\ r.page_frame_map = pg.page_frame_map
             /\ r.page_directory_used[d] /\ r.kernel_present[d]
             /\ \A p \in UserPages : r.user[d][p] = Unmapped
             /\ \A e \in Directories \ {d} : /\ r.page_directory_used[e] = pg.page_directory_used[e]
                                             /\ r.kernel_present[e] = pg.kernel_present[e]
                                             /\ r.user[e] = pg.user[e]
BY DEF paging_create_new_page_directory, PagingType

\* The address space of a new process: its directory is in use with the kernel
\* mapped, its frames were free before and are marked now, other directories
\* are left alone and no mark is cleared.
LEMMA AddressSpaceEffect ==
  ASSUME paging \in PagingType, NEW d \in Directories, NEW n \in Nat \ {0}
  PROVE  LET r == AddressSpace(d, n)
         IN  /\ r \in PagingType
             /\ r.page_directory_used[d] /\ r.kernel_present[d]
             /\ \A e \in Directories \ {d} : /\ r.page_directory_used[e] = paging.page_directory_used[e]
                                             /\ r.kernel_present[e] = paging.kernel_present[e]
                                             /\ r.user[e] = paging.user[e]
             /\ \A f \in Frames : paging.page_frame_map[f] => r.page_frame_map[f]
             /\ \A f \in Frames : MapsIn(r, d, f) => ~paging.page_frame_map[f] /\ r.page_frame_map[f]
<1> DEFINE pg == paging_create_new_page_directory(paging, d)
           r  == AddressSpace(d, n)
           nth(k) == NthFreeFrame(pg.page_frame_map, k)
           found == {k \in 0 .. n - 1 : nth(k) # BeyondMemory}
           taken == {nth(k) : k \in found}
           pages == [p \in UserPages |->
                       IF p < n - 1 THEN nth(p)
                       ELSE IF p = StackPage THEN nth(n - 1)
                       ELSE pg.user[d][p]]
           map   == [f \in Frames |-> pg.page_frame_map[f] \/ f \in taken]
<1>1. /\ pg \in PagingType
      /\ pg.page_frame_map = paging.page_frame_map
      /\ pg.page_directory_used[d] /\ pg.kernel_present[d]
      /\ \A p \in UserPages : pg.user[d][p] = Unmapped
      /\ \A e \in Directories \ {d} : /\ pg.page_directory_used[e] = paging.page_directory_used[e]
                                      /\ pg.kernel_present[e] = paging.kernel_present[e]
                                      /\ pg.user[e] = paging.user[e]
  BY DirectoryType, CreateDirectoryEffect
<1>2. r = [pg EXCEPT !.page_frame_map = map,
                     !.free_page_frame_count = @ - Cardinality(found),
                     !.user[d] = pages]
  BY DEF AddressSpace, paging_allocate_user_page_frames
<1>3. r \in PagingType
  BY <1>1, AllocateType DEF AddressSpace
<1>4. \A p \in UserPages : pages[p] \in Frames
        => ~pg.page_frame_map[pages[p]] /\ pages[p] \in taken
  <2> SUFFICES ASSUME NEW p \in UserPages, pages[p] \in Frames
               PROVE  ~pg.page_frame_map[pages[p]] /\ pages[p] \in taken
    OBVIOUS
  <2>1. PICK k \in 0 .. n - 1 : pages[p] = nth(k)
    <3>1. Unmapped \notin Frames
      BY DEF Unmapped, Frames
    <3>2. pg.user[d][p] = Unmapped
      BY <1>1
    <3>3. CASE p < n - 1
      BY <3>3 DEF UserPages
    <3>4. CASE ~(p < n - 1) /\ p = StackPage
      BY <3>4
    <3> QED
      BY <3>1, <3>2, <3>3, <3>4
  <2>2. nth(k) # BeyondMemory
    BY <2>1, PagingAssumption DEF BeyondMemory, Frames
  <2> QED
    BY <2>1, <2>2, NthFreeFrameType
<1> HIDE DEF pg, found, pages, taken, map, r
<1>5. r.page_frame_map = map /\ r.user[d] = pages
  BY <1>1, <1>2 DEF PagingType
<1>6. \A f \in Frames : MapsIn(r, d, f) => ~pg.page_frame_map[f] /\ f \in taken
  BY <1>4, <1>5 DEF MapsIn
<1>7. \A f \in Frames : map[f] = (pg.page_frame_map[f] \/ f \in taken)
  BY DEF map
<1>8. /\ r.page_directory_used = pg.page_directory_used
      /\ r.kernel_present = pg.kernel_present
      /\ \A e \in Directories \ {d} : r.user[e] = pg.user[e]
  BY <1>1, <1>2 DEF PagingType
<1> QED
  BY <1>1, <1>3, <1>5, <1>6, <1>7, <1>8 DEF r

\* The parts of the invariant process creation and destruction can disturb.
TablesInv ==
  /\ paging \in PagingType
  /\ process_list \in [Slots -> PCBType]
  /\ active_process_count \in Int
  /\ next_pid \in Nat \ {0}
  /\ RunningIsCurrent
  /\ DistinctPids
  /\ FreeSlotsHaveNoDirectory
  /\ OwnDirectory
  /\ RunningInOwnSpace
  /\ MappedFramesMarked
  /\ UserFramesPrivate

\* The frame read for address 0 is a frame number.
LEMMA EntryZeroType ==
  ASSUME NEW pg \in PagingType, NEW d
  PROVE  EntryZero(pg, d) \in 0 .. PAGE_FRAME_MAX_COUNT
<1>1. 0 \in UserPages
  BY PagingAssumption DEF UserPages
<1>2. CASE d \in Directories /\ pg.user[d][0] # Unmapped
  <2>1. pg.user[d][0] \in Frames \cup {Unmapped, BeyondMemory}
    BY <1>1, <1>2 DEF PagingType
  <2> QED
    BY <1>2, <2>1, PagingAssumption DEF EntryZero, Frames, BeyondMemory
<1>3. CASE ~(d \in Directories /\ pg.user[d][0] # Unmapped)
  BY <1>3, PagingAssumption DEF EntryZero
<1> QED
  BY <1>2, <1>3

\* The slot, wiped.
LEMMA FreePCBType == FreePCB \in PCBType
BY DEF FreePCB, PCBType, States, Flags, Garbage

\* Destroying a process with its directory: the slot is wiped, its directory
\* and mappings go, everybody else's stay.
LEMMA DestroySlotStep ==
  ASSUME TablesInv, NEW i \in Slots, Live(i), DestroySlot(i),
         UNCHANGED <<cr3, next_pid, current_process_list_id>>
  PROVE  TablesInv'
<1> DEFINE pcb == process_list[i]
           d   == pcb.dir
           pg1 == paging_free_user_page_frames(paging, EntryZero(paging, d), pcb.frames)
<1> USE DEF TablesInv
<1>1. /\ d \in Directories
      /\ paging' = paging_free_page_directory(pg1, d)
      /\ process_list' = [process_list EXCEPT ![i] = FreePCB]
      /\ active_process_count' = active_process_count - 1
  BY DEF DestroySlot
<1>2. pcb \in PCBType /\ pcb.frames \in Nat
  BY DEF PCBType
<1>3. EntryZero(paging, d) \in 0 .. PAGE_FRAME_MAX_COUNT
  BY EntryZeroType
<1>4. /\ pg1 \in PagingType
      /\ pg1.page_directory_used = paging.page_directory_used
      /\ pg1.kernel_present = paging.kernel_present
      /\ pg1.user = paging.user
      /\ \A f \in Frames \ {0} : pg1.page_frame_map[f] = paging.page_frame_map[f]
  BY <1>2, <1>3, FreeFramesType, FreeFramesEffect
<1> HIDE DEF pg1
<1>5. /\ paging' \in PagingType
      /\ \A f \in Frames \ {0} : paging'.page_frame_map[f] = paging.page_frame_map[f]
      /\ \A f \in Frames : ~MapsIn(paging', d, f)
      /\ \A e \in Directories \ {d} :
           /\ paging'.page_directory_used[e] = paging.page_directory_used[e]
           /\ paging'.kernel_present[e] = paging.kernel_present[e]
           /\ paging'.user[e] = paging.user[e]
  <2> DEFINE r == paging_free_page_directory(pg1, d)
  <2>1. r \in PagingType
    BY <1>1, <1>4, DirectoryType
  <2>2. /\ r.page_frame_map = pg1.page_frame_map
        /\ \A f \in Frames : ~MapsIn(r, d, f)
        /\ \A e \in Directories \ {d} : /\ r.page_directory_used[e] = pg1.page_directory_used[e]
                                        /\ r.kernel_present[e] = pg1.kernel_present[e]
                                        /\ r.user[e] = pg1.user[e]
    BY <1>1, <1>4, FreeDirectoryEffect
  <2>3. paging' = r
    BY <1>1
  <2> HIDE DEF r, d
  <2> QED
    BY <1>4, <2>1, <2>2, <2>3
<1>6. /\ process_list' \in [Slots -> PCBType]
      /\ process_list'[i] = FreePCB
      /\ \A j \in Slots \ {i} : process_list'[j] = process_list[j]
  BY <1>1, FreePCBType
<1>7. \A j \in Slots : Live(j)' => j # i /\ Live(j)
  BY <1>6 DEF Live, FreePCB
<1>8. \A e \in Directories, f \in Frames : Maps(e, f)' => e # d /\ Maps(e, f)
  BY <1>5 DEF Maps, MapsIn
<1> HIDE DEF d, pcb
<1>9. Running' \subseteq Running \ {i}
  BY <1>6, <1>7 DEF Running, Live
<1>10. RunningIsCurrent' /\ RunningInOwnSpace'
  BY <1>6, <1>9 DEF RunningIsCurrent, RunningInOwnSpace, Running
<1>11. DistinctPids'
  <2>1. process_list'[i].pid = 0
    BY <1>6 DEF FreePCB
  <2> QED
    BY <1>6, <2>1 DEF DistinctPids
<1>12. FreeSlotsHaveNoDirectory'
  BY <1>6 DEF FreeSlotsHaveNoDirectory, Live, FreePCB
<1>13. OwnDirectory'
  <2> SUFFICES ASSUME NEW j \in Slots, Live(j)', process_list'[j].dir # Garbage
               PROVE  LET e == process_list'[j].dir
                      IN  /\ paging'.page_directory_used[e] /\ paging'.kernel_present[e]
                          /\ \A k \in Slots \ {j} : Live(k)' => process_list'[k].dir # e
    BY DEF OwnDirectory
  <2>1. j # i /\ Live(j) /\ process_list'[j] = process_list[j]
    BY <1>6, <1>7
  <2>2. process_list[j].dir \in Directories
    BY <2>1 DEF PCBType
  <2>3. process_list[j].dir # d
    BY <2>1 DEF OwnDirectory, d, pcb
  <2> QED
    BY <1>5, <1>6, <1>7, <2>1, <2>2, <2>3 DEF OwnDirectory
<1>14. MappedFramesMarked'
  BY <1>5, <1>8 DEF MappedFramesMarked
<1>15. UserFramesPrivate'
  BY <1>8 DEF UserFramesPrivate
<1> QED
  BY <1>1, <1>5, <1>6, <1>10, <1>11, <1>12, <1>13, <1>14, <1>15

\* A destruction that cannot find the directory only ends the process.
LEMMA DestroyLostSlotStep ==
  ASSUME TablesInv, NEW i \in Slots, DestroyLostSlot(i),
         UNCHANGED <<cr3, next_pid, current_process_list_id>>
  PROVE  TablesInv'
<1> USE DEF TablesInv
<1>1. /\ process_list[i].dir = Garbage
      /\ paging' = paging_free_user_page_frames(paging, 0, process_list[i].frames)
      /\ process_list' = [process_list EXCEPT ![i].state = "TERMINATED"]
      /\ active_process_count' = active_process_count
  BY DEF DestroyLostSlot
<1>2. process_list[i].frames \in Nat
  BY DEF PCBType
<1>3. 0 \in 0 .. PAGE_FRAME_MAX_COUNT
  BY PagingAssumption
<1>4. /\ paging' \in PagingType
      /\ paging'.page_directory_used = paging.page_directory_used
      /\ paging'.kernel_present = paging.kernel_present
      /\ paging'.user = paging.user
      /\ \A f \in Frames \ {0} : paging'.page_frame_map[f] = paging.page_frame_map[f]
  BY <1>1, <1>2, <1>3, FreeFramesType, FreeFramesEffect
<1>5. process_list' \in [Slots -> PCBType]
  BY <1>1 DEF PCBType, States
<1>6. \A j \in Slots : /\ process_list'[j].pid = process_list[j].pid
                       /\ process_list'[j].dir = process_list[j].dir
                       /\ process_list'[j].state
                            = IF j = i THEN "TERMINATED" ELSE process_list[j].state
  BY <1>1 DEF PCBType
<1>7. \A j \in Slots : Live(j)' => j # i /\ Live(j)
  BY <1>6 DEF Live
<1>8. Running' \subseteq Running
  BY <1>6 DEF Running
<1>9. \A d \in Directories, f \in Frames : Maps(d, f)' => Maps(d, f)
  BY <1>4 DEF Maps
<1>10. RunningIsCurrent' /\ RunningInOwnSpace'
  BY <1>6, <1>8 DEF RunningIsCurrent, RunningInOwnSpace, Running
<1>11. DistinctPids'
  BY <1>6 DEF DistinctPids
<1>12. FreeSlotsHaveNoDirectory'
  BY <1>1, <1>6 DEF FreeSlotsHaveNoDirectory, Live
<1>13. OwnDirectory'
  BY <1>4, <1>6, <1>7 DEF OwnDirectory
<1>14. MappedFramesMarked' /\ UserFramesPrivate'
  BY <1>4, <1>9 DEF MappedFramesMarked, UserFramesPrivate
<1> QED
  BY <1>1, <1>4, <1>5, <1>10, <1>11, <1>12, <1>13, <1>14

\* process_destroy, whichever slot it finds.
LEMMA DestroyStep ==
  ASSUME TablesInv, NEW pid, NEW found, process_destroy(pid, found),
         UNCHANGED <<cr3, next_pid, current_process_list_id>>
  PROVE  TablesInv'
<1>1. CASE Matching(pid) = {}
  <2>1. UNCHANGED <<paging, process_list, active_process_count, cr3, next_pid,
                    current_process_list_id>>
    BY <1>1 DEF process_destroy
  <2> QED
    BY <2>1 DEF TablesInv, RunningIsCurrent, DistinctPids, FreeSlotsHaveNoDirectory, OwnDirectory,
       RunningInOwnSpace, MappedFramesMarked, UserFramesPrivate, Maps, Live, Running
<1>2. CASE Matching(pid) # {}
  <2> DEFINE i == Least(Matching(pid))
  <2>1. Matching(pid) \in SUBSET Nat
    BY DEF Matching, Slots
  <2>2. i \in Matching(pid)
    BY <1>2, <2>1, LeastInSet
  <2>3. i \in Slots /\ Live(i)
    BY <2>2 DEF Matching
  <2>4. DestroySlot(i) \/ DestroyLostSlot(i)
    BY <1>2 DEF process_destroy
  <2> HIDE DEF i
  <2> QED
    BY <2>3, <2>4, DestroySlotStep, DestroyLostSlotStep
<1> QED
  BY <1>1, <1>2

\* Creation picks a directory that is not in use and a slot that is not.
LEMMA CreationPicks ==
  /\ UnusedDirectories(paging) # {} =>
       LET d == Least(UnusedDirectories(paging))
       IN  d \in Directories /\ ~paging.page_directory_used[d]
  /\ Inactive # {} => Least(Inactive) \in Slots /\ ~Live(Least(Inactive))
<1>1. UnusedDirectories(paging) \in SUBSET Nat /\ Inactive \in SUBSET Nat
  BY DEF UnusedDirectories, Directories, Inactive, Slots
<1>2. UnusedDirectories(paging) # {} => Least(UnusedDirectories(paging)) \in UnusedDirectories(paging)
  BY <1>1, LeastInSet
<1>3. Inactive # {} => Least(Inactive) \in Inactive
  BY <1>1, LeastInSet
<1> QED
  BY <1>2, <1>3 DEF UnusedDirectories, Inactive

\* A step that gives directory d and slot i, both unused, to a new process, or
\* that gives d to nobody, keeps the tables consistent.  pg is the page manager
\* afterwards; it may have unmapped d again.
LEMMA TakeDirectory ==
  ASSUME TablesInv, NEW d \in Directories, ~paging.page_directory_used[d],
         paging' \in PagingType,
         \A e \in Directories \ {d} : /\ paging'.page_directory_used[e] = paging.page_directory_used[e]
                                      /\ paging'.kernel_present[e] = paging.kernel_present[e]
                                      /\ paging'.user[e] = paging.user[e],
         \A f \in Frames \ {0} : paging.page_frame_map[f] => paging'.page_frame_map[f],
         \A f \in Frames \ {0} :
           MapsIn(paging', d, f) => ~paging.page_frame_map[f] /\ paging'.page_frame_map[f]
  PROVE  /\ \A j \in Slots : Live(j) => process_list[j].dir # d
         /\ \A j \in Slots : Live(j) /\ process_list[j].dir # Garbage =>
              LET e == process_list[j].dir
              IN  paging'.page_directory_used[e] /\ paging'.kernel_present[e]
         /\ MappedFramesMarked'
         /\ UserFramesPrivate'
<1> USE DEF TablesInv
<1>1. \A j \in Slots : Live(j) => process_list[j].dir # d
  BY DEF OwnDirectory, Garbage, Directories
<1>2. \A j \in Slots : Live(j) /\ process_list[j].dir # Garbage =>
        LET e == process_list[j].dir
        IN  paging'.page_directory_used[e] /\ paging'.kernel_present[e]
  <2> SUFFICES ASSUME NEW j \in Slots, Live(j), process_list[j].dir # Garbage
               PROVE  LET e == process_list[j].dir
                      IN  paging'.page_directory_used[e] /\ paging'.kernel_present[e]
    OBVIOUS
  <2>1. process_list[j].dir \in Directories \ {d}
    BY <1>1 DEF PCBType
  <2> QED
    BY <2>1 DEF OwnDirectory
<1>3. \A e \in Directories \ {d}, f \in Frames : Maps(e, f)' <=> Maps(e, f)
  BY DEF Maps
<1>4. \A f \in Frames \ {0} : Maps(d, f)' => ~paging.page_frame_map[f] /\ paging'.page_frame_map[f]
  BY DEF Maps, MapsIn
<1>5. MappedFramesMarked'
  BY <1>3, <1>4 DEF MappedFramesMarked
<1>6. UserFramesPrivate'
  <2> SUFFICES ASSUME NEW a \in Directories, NEW b \in Directories, NEW f \in Frames \ {0},
                      Maps(a, f)', Maps(b, f)'
               PROVE  a = b
    BY DEF UserFramesPrivate
  <2>1. CASE a # d /\ b # d
    BY <1>3, <2>1 DEF UserFramesPrivate
  <2>2. CASE a = d /\ b # d
    BY <1>3, <1>4, <2>2 DEF MappedFramesMarked
  <2>3. CASE a # d /\ b = d
    BY <1>3, <1>4, <2>3 DEF MappedFramesMarked
  <2> QED
    BY <2>1, <2>2, <2>3
<1> QED
  BY <1>1, <1>2, <1>5, <1>6

\* A creation that succeeds.
LEMMA CreateSucceedsStep ==
  ASSUME TablesInv, NEW rq, rq.needed \in Nat \ {0}, NEW ret, NEW alive, CreateSucceeds(rq, ret, alive),
         UNCHANGED current_process_list_id
  PROVE  TablesInv'
<1> DEFINE d == Least(UnusedDirectories(paging))
           i == Least(Inactive)
           n == rq.needed
<1> USE DEF TablesInv
<1>1. /\ paging' = AddressSpace(d, n)
      /\ process_list' = [process_list EXCEPT ![i] = NewPCB(i, d, n)]
      /\ next_pid' = next_pid + 1
      /\ active_process_count' = active_process_count + 1
      /\ cr3' = cr3
  BY DEF CreateSucceeds
<1>2. d \in Directories /\ ~paging.page_directory_used[d] /\ i \in Slots /\ ~Live(i)
  BY CreationPicks DEF CreateSucceeds
<1>3. n \in Nat \ {0}
  OBVIOUS
<1> HIDE DEF d, i, n
<1>4. /\ paging' \in PagingType
      /\ paging'.page_directory_used[d] /\ paging'.kernel_present[d]
      /\ \A e \in Directories \ {d} : /\ paging'.page_directory_used[e] = paging.page_directory_used[e]
                                      /\ paging'.kernel_present[e] = paging.kernel_present[e]
                                      /\ paging'.user[e] = paging.user[e]
      /\ \A f \in Frames : paging.page_frame_map[f] => paging'.page_frame_map[f]
      /\ \A f \in Frames :
           MapsIn(paging', d, f) => ~paging.page_frame_map[f] /\ paging'.page_frame_map[f]
  BY <1>1, <1>2, <1>3, AddressSpaceEffect
<1>5. /\ \A j \in Slots : Live(j) => process_list[j].dir # d
      /\ \A j \in Slots : Live(j) /\ process_list[j].dir # Garbage =>
           LET e == process_list[j].dir
           IN  paging'.page_directory_used[e] /\ paging'.kernel_present[e]
      /\ MappedFramesMarked'
      /\ UserFramesPrivate'
  BY <1>2, <1>4, TakeDirectory
<1>6. /\ NewPCB(i, d, n) \in PCBType
      /\ NewPCB(i, d, n).pid = next_pid
      /\ NewPCB(i, d, n).dir = d
      /\ NewPCB(i, d, n).state = "NEW"
  BY <1>2, <1>3 DEF NewPCB, PCBType, States, Flags
<1>7. /\ process_list' \in [Slots -> PCBType]
      /\ process_list'[i] = NewPCB(i, d, n)
      /\ \A j \in Slots \ {i} : process_list'[j] = process_list[j]
  BY <1>1, <1>2, <1>6
<1>8. \A j \in Slots : Live(j)' <=> j = i \/ Live(j)
  BY <1>6, <1>7 DEF Live
<1>9. Running' = Running
  BY <1>2, <1>6, <1>7 DEF Running, Live
<1>10. RunningIsCurrent' /\ RunningInOwnSpace'
  BY <1>1, <1>2, <1>7, <1>9 DEF RunningIsCurrent, RunningInOwnSpace, Running, Live
<1>11. DistinctPids'
  BY <1>1, <1>6, <1>7 DEF DistinctPids, PCBType
<1>12. FreeSlotsHaveNoDirectory'
  BY <1>7, <1>8 DEF FreeSlotsHaveNoDirectory
<1>13. OwnDirectory'
  BY <1>2, <1>4, <1>5, <1>6, <1>7, <1>8 DEF OwnDirectory
<1> QED
  BY <1>1, <1>4, <1>5, <1>7, <1>10, <1>11, <1>12, <1>13

\* A creation undone because the executable cannot be read.
LEMMA CreateReadFailsStep ==
  ASSUME TablesInv, NEW rq, rq.needed \in Nat \ {0}, NEW ret, NEW alive, CreateReadFails(rq, ret, alive),
         UNCHANGED current_process_list_id
  PROVE  TablesInv'
<1> DEFINE d  == Least(UnusedDirectories(paging))
           i  == Least(Inactive)
           n  == rq.needed
           pg == AddressSpace(d, n)
           fr == paging_free_user_page_frames(pg, EntryZero(pg, d), n)
<1> USE DEF TablesInv
<1>1. /\ paging' = paging_free_page_directory(fr, d)
      /\ process_list' = [process_list EXCEPT ![i] = FreePCB]
      /\ next_pid' = next_pid + 1
      /\ active_process_count' = active_process_count - 1
      /\ cr3' = cr3
  BY DEF CreateReadFails
<1>2. d \in Directories /\ ~paging.page_directory_used[d] /\ i \in Slots /\ ~Live(i)
  BY CreationPicks DEF CreateReadFails
<1>3. n \in Nat \ {0}
  OBVIOUS
<1>4. /\ pg \in PagingType
      /\ \A e \in Directories \ {d} : /\ pg.page_directory_used[e] = paging.page_directory_used[e]
                                      /\ pg.kernel_present[e] = paging.kernel_present[e]
                                      /\ pg.user[e] = paging.user[e]
      /\ \A f \in Frames : paging.page_frame_map[f] => pg.page_frame_map[f]
  <2> HIDE DEF d, n
  <2> QED
    BY <1>2, <1>3, AddressSpaceEffect
<1> HIDE DEF pg
<1>5. /\ fr \in PagingType
      /\ fr.page_directory_used = pg.page_directory_used
      /\ fr.kernel_present = pg.kernel_present
      /\ fr.user = pg.user
      /\ \A f \in Frames \ {0} : fr.page_frame_map[f] = pg.page_frame_map[f]
  <2>1. EntryZero(pg, d) \in 0 .. PAGE_FRAME_MAX_COUNT
    BY <1>4, EntryZeroType
  <2> HIDE DEF d, n
  <2> QED
    BY <1>3, <1>4, <2>1, FreeFramesType, FreeFramesEffect
<1> HIDE DEF fr, d, i, n
<1>6. /\ paging' \in PagingType
      /\ paging'.page_frame_map = fr.page_frame_map
      /\ \A f \in Frames : ~MapsIn(paging', d, f)
      /\ \A e \in Directories \ {d} : /\ paging'.page_directory_used[e] = fr.page_directory_used[e]
                                      /\ paging'.kernel_present[e] = fr.kernel_present[e]
                                      /\ paging'.user[e] = fr.user[e]
  BY <1>1, <1>2, <1>5, DirectoryType, FreeDirectoryEffect
<1>7. /\ \A j \in Slots : Live(j) => process_list[j].dir # d
      /\ \A j \in Slots : Live(j) /\ process_list[j].dir # Garbage =>
           LET e == process_list[j].dir
           IN  paging'.page_directory_used[e] /\ paging'.kernel_present[e]
      /\ MappedFramesMarked'
      /\ UserFramesPrivate'
  <2>1. \A e \in Directories \ {d} : /\ paging'.page_directory_used[e] = paging.page_directory_used[e]
                                     /\ paging'.kernel_present[e] = paging.kernel_present[e]
                                     /\ paging'.user[e] = paging.user[e]
    BY <1>4, <1>5, <1>6
  <2>2. \A f \in Frames \ {0} : paging.page_frame_map[f] => paging'.page_frame_map[f]
    BY <1>4, <1>5, <1>6
  <2> QED
    BY <1>2, <1>6, <2>1, <2>2, TakeDirectory
<1>8. /\ process_list' \in [Slots -> PCBType]
      /\ process_list'[i] = FreePCB
      /\ \A j \in Slots \ {i} : process_list'[j] = process_list[j]
  BY <1>1, <1>2, FreePCBType
<1>9. \A j \in Slots : Live(j)' <=> Live(j)
  BY <1>2, <1>8 DEF Live, FreePCB
<1>10. Running' = Running
  BY <1>2, <1>8 DEF Running, Live, FreePCB
<1>11. RunningIsCurrent' /\ RunningInOwnSpace'
  BY <1>1, <1>2, <1>8, <1>10 DEF RunningIsCurrent, RunningInOwnSpace, Running, Live
<1>12. DistinctPids'
  <2>1. process_list'[i].pid = 0
    BY <1>8 DEF FreePCB
  <2> QED
    BY <1>1, <1>8, <2>1 DEF DistinctPids, PCBType
<1>13. FreeSlotsHaveNoDirectory'
  BY <1>8, <1>9 DEF FreeSlotsHaveNoDirectory, FreePCB
<1>14. OwnDirectory'
  BY <1>2, <1>7, <1>8, <1>9 DEF OwnDirectory
<1> QED
  BY <1>1, <1>6, <1>7, <1>8, <1>11, <1>12, <1>13, <1>14

\* A creation that finds no slot: the directory it took belongs to nobody.
LEMMA CreateOutsideListStep ==
  ASSUME TablesInv, NEW rq, rq.needed \in Nat \ {0}, NEW ret, NEW alive, CreateOutsideList(rq, ret, alive),
         UNCHANGED current_process_list_id
  PROVE  TablesInv'
<1> DEFINE d == Least(UnusedDirectories(paging))
           n == rq.needed
<1> USE DEF TablesInv
<1>1. /\ paging' = AddressSpace(d, n)
      /\ next_pid' = next_pid + 1
      /\ active_process_count' = IF rq.readable THEN n + 1 ELSE n
      /\ cr3' = cr3 /\ process_list' = process_list
  BY DEF CreateOutsideList
<1>2. d \in Directories /\ ~paging.page_directory_used[d]
  BY CreationPicks DEF CreateOutsideList
<1>3. n \in Nat \ {0}
  OBVIOUS
<1> HIDE DEF d, n
<1>4. /\ paging' \in PagingType
      /\ \A e \in Directories \ {d} : /\ paging'.page_directory_used[e] = paging.page_directory_used[e]
                                      /\ paging'.kernel_present[e] = paging.kernel_present[e]
                                      /\ paging'.user[e] = paging.user[e]
      /\ \A f \in Frames : paging.page_frame_map[f] => paging'.page_frame_map[f]
      /\ \A f \in Frames :
           MapsIn(paging', d, f) => ~paging.page_frame_map[f] /\ paging'.page_frame_map[f]
  BY <1>1, <1>2, <1>3, AddressSpaceEffect
<1>5. /\ \A j \in Slots : Live(j) /\ process_list[j].dir # Garbage =>
           LET e == process_list[j].dir
           IN  paging'.page_directory_used[e] /\ paging'.kernel_present[e]
      /\ MappedFramesMarked'
      /\ UserFramesPrivate'
  BY <1>2, <1>4, TakeDirectory
<1>6. RunningIsCurrent' /\ RunningInOwnSpace' /\ FreeSlotsHaveNoDirectory'
  BY <1>1 DEF RunningIsCurrent, RunningInOwnSpace, FreeSlotsHaveNoDirectory, Running, Live
<1>7. DistinctPids'
  BY <1>1 DEF DistinctPids, PCBType
<1>8. OwnDirectory'
  BY <1>1, <1>5 DEF OwnDirectory, Live
<1>9. active_process_count' \in Int
  BY <1>1, <1>3
<1> QED
  BY <1>1, <1>4, <1>5, <1>6, <1>7, <1>8, <1>9

\* Nothing the tables consist of changes.
LEMMA TablesUnchanged ==
  ASSUME TablesInv,
         UNCHANGED <<paging, cr3, process_list, active_process_count, next_pid,
                     current_process_list_id>>
  PROVE  TablesInv'
BY DEF TablesInv, RunningIsCurrent, DistinctPids, FreeSlotsHaveNoDirectory, OwnDirectory,
   RunningInOwnSpace, MappedFramesMarked, UserFramesPrivate, Maps, Live, Running

\* process_create_user_process, on every path.
LEMMA CreateStep ==
  ASSUME TablesInv, NEW rq, rq.needed \in Nat \ {0}, NEW ret, NEW alive,
         process_create_user_process(rq, ret, alive),
         UNCHANGED current_process_list_id
  PROVE  TablesInv' /\ cr3' = cr3
<1>1. CASE CreateRefused(rq, ret, alive)
  BY <1>1, TablesUnchanged DEF CreateRefused
<1>2. CASE CreateSucceeds(rq, ret, alive)
  BY <1>2, CreateSucceedsStep DEF CreateSucceeds
<1>3. CASE CreateReadFails(rq, ret, alive)
  BY <1>3, CreateReadFailsStep DEF CreateReadFails
<1>4. CASE CreateOutsideList(rq, ret, alive)
  BY <1>4, CreateOutsideListStep DEF CreateOutsideList
<1>5. CASE CreateWithoutDirectory(rq, ret, alive)
  BY <1>5, TablesUnchanged DEF CreateWithoutDirectory
<1> QED
  BY <1>1, <1>2, <1>3, <1>4, <1>5 DEF process_create_user_process

-----------------------------------------------------------------------------
(* The scheduler. *)

\* What a context save may do to the process list: pids and states stay, a
\* directory stays or is lost.
Saves(saved) ==
  /\ saved \in [Slots -> PCBType]
  /\ \A j \in Slots : /\ saved[j].pid = process_list[j].pid
                      /\ saved[j].state = process_list[j].state
                      /\ saved[j].dir \in {process_list[j].dir, Garbage}

CPUInv ==
  /\ current_process_list_id \in Slots \cup {-1}
  /\ cr3 \in Directories \cup {KernelDirectory, Garbage}
  /\ cpu \in [of : Nat, eflags : Flags]
  /\ mode \in Modes

\* The running process yields: no slot is RUNNING until the next is dispatched.
LEMMA YieldedList ==
  ASSUME TablesInv, CPUInv, NEW saved, Saves(saved)
  PROVE  /\ Yielded(saved) \in [Slots -> PCBType]
         /\ \A j \in Slots : /\ Yielded(saved)[j].pid = process_list[j].pid
                             /\ Yielded(saved)[j].dir \in {process_list[j].dir, Garbage}
                             /\ Yielded(saved)[j].state # "RUNNING"
                             /\ Yielded(saved)[j].state = "TERMINATED" => ~Live(j)
<1>1. CASE current_process_list_id = -1
  BY <1>1 DEF Yielded, Saves, TablesInv, RunningIsCurrent, Running, Live, Slots
<1>2. CASE current_process_list_id \in Slots
  <2> DEFINE c == current_process_list_id
  <2>1. Yielded(saved) = [saved EXCEPT ![c].state = "READY"]
    BY <1>2 DEF Yielded, Slots
  <2>2. Yielded(saved) \in [Slots -> PCBType]
    BY <2>1 DEF Saves, PCBType, States
  <2>3. \A j \in Slots : /\ Yielded(saved)[j].pid = saved[j].pid
                         /\ Yielded(saved)[j].dir = saved[j].dir
                         /\ Yielded(saved)[j].state = IF j = c THEN "READY" ELSE saved[j].state
    BY <2>1 DEF Saves, PCBType
  <2> QED
    BY <2>2, <2>3 DEF Saves, TablesInv, RunningIsCurrent, Running, Live
<1> QED
  BY <1>1, <1>2 DEF CPUInv

\* A process list with the pids of the present one, whose directories are the
\* present ones or lost, and whose only RUNNING slot is the current one, on its
\* directory, is as consistent as the present one.
LEMMA SameProcesses ==
  ASSUME TablesInv, UNCHANGED <<paging, active_process_count, next_pid>>,
         process_list' \in [Slots -> PCBType],
         \A j \in Slots : /\ process_list'[j].pid = process_list[j].pid
                          /\ process_list'[j].dir \in {process_list[j].dir, Garbage}
                          /\ process_list'[j].state = "TERMINATED" => ~Live(j)
                          /\ process_list'[j].state = "RUNNING" =>
                               j = current_process_list_id' /\ cr3' = process_list'[j].dir
  PROVE  TablesInv'
<1> USE DEF TablesInv
<1>1. RunningIsCurrent' /\ RunningInOwnSpace'
  BY DEF RunningIsCurrent, RunningInOwnSpace, Running
<1>2. DistinctPids'
  BY DEF DistinctPids
<1>3. FreeSlotsHaveNoDirectory'
  BY DEF FreeSlotsHaveNoDirectory, Live
<1>4. \A j \in Slots : process_list'[j].dir # Garbage
                         => Live(j) /\ process_list'[j].dir = process_list[j].dir
  BY DEF FreeSlotsHaveNoDirectory
<1>5. OwnDirectory'
  BY <1>4 DEF OwnDirectory
<1>6. MappedFramesMarked' /\ UserFramesPrivate'
  BY DEF MappedFramesMarked, UserFramesPrivate, Maps
<1> QED
  BY <1>1, <1>2, <1>3, <1>5, <1>6

\* scheduler_switch_to_next_process keeps everything consistent, whichever slot
\* it dispatches and also when it spins or leaves the list.
LEMMA SwitchStep ==
  ASSUME TablesInv, CPUInv, NEW saved, Saves(saved),
         UNCHANGED <<paging, active_process_count, next_pid>>,
         scheduler_switch_to_next_process(saved) \/ SwitchOutsideList(saved)
  PROVE  TablesInv' /\ CPUInv'
<1> DEFINE list == Yielded(saved)
<1>1. /\ list \in [Slots -> PCBType]
      /\ \A j \in Slots : /\ list[j].pid = process_list[j].pid
                          /\ list[j].dir \in {process_list[j].dir, Garbage}
                          /\ list[j].state # "RUNNING"
                          /\ list[j].state = "TERMINATED" => ~Live(j)
  BY YieldedList
<1>2. CASE process_list' = list /\ UNCHANGED <<cr3, cpu, current_process_list_id>>
           /\ mode' \in {"hung", "crashed"}
  <2> HIDE DEF list
  <2>1. TablesInv'
    BY <1>1, <1>2, SameProcesses
  <2> QED
    BY <1>2, <2>1 DEF CPUInv, Modes
<1>3. CASE scheduler_switch_to_next_process(saved) /\ Candidates(list) # {}
  <2> DEFINE target == Nearest(Candidates(list))
  <2>1. /\ process_list' = Switched(list, target)
        /\ current_process_list_id' = target
        /\ process_context_switch(list, target)
    BY <1>3 DEF scheduler_switch_to_next_process
  <2>2. target \in Slots
    <3>1. Candidates(list) \in SUBSET Slots
      BY DEF Candidates, InState
    <3>2. FirstSlot \in Int
      BY DEF FirstSlot, CPUInv, Slots
    <3> HIDE DEF list
    <3> QED
      BY <1>3, <3>1, <3>2, NearestInSet
  <2> HIDE DEF target, list
  <2>3. \A j \in Slots : /\ process_list'[j].pid = list[j].pid
                         /\ process_list'[j].dir = list[j].dir
                         /\ process_list'[j].state = "TERMINATED" => list[j].state = "TERMINATED"
                         /\ process_list'[j].state = "RUNNING" => j = target
                         /\ process_list'[j] \in PCBType
    BY <1>1, <2>1 DEF Switched, PCBType, States
  <2>4. process_list' \in [Slots -> PCBType]
    BY <2>1, <2>3 DEF Switched
  <2>5. cr3' = list[target].dir /\ process_list'[target].dir = list[target].dir
    BY <2>1, <2>2, <2>3 DEF process_context_switch
  <2>6. TablesInv'
    BY <1>1, <2>1, <2>3, <2>4, <2>5, SameProcesses
  <2>7. CPUInv'
    BY <1>1, <2>1, <2>2 DEF CPUInv, process_context_switch, PCBType, Modes
  <2> QED
    BY <2>6, <2>7
<1> QED
  BY <1>2, <1>3 DEF scheduler_switch_to_next_process, SwitchOutsideList

\* Saving a context in the slot the scheduler remembers.
LEMMA SavedSaves ==
  ASSUME TablesInv, CPUInv, NEW ctx \in PCBType,
         current_process_list_id \in Slots =>
           ctx.dir \in {process_list[current_process_list_id].dir, Garbage}
  PROVE  Saves(Saved(ctx))
<1> DEFINE c == current_process_list_id
<1>1. CASE c \in Slots
  BY <1>1 DEF TablesInv, Saved, Saves, PCBType
<1>2. CASE c = -1
  <2>1. Saved(ctx) = process_list
    BY <1>2 DEF TablesInv, Saved, Slots
  <2> QED
    BY <2>1 DEF TablesInv, Saves
<1> QED
  BY <1>1, <1>2 DEF CPUInv

ClockInv ==
  /\ tick_counter \in 0 .. TICKS_PER_SECOND - 1
  /\ second_counter \in 0 .. SECONDS - 1

\* The clock stays in its range.
LEMMA AdvanceClockStep == ClockInv /\ AdvanceClock => ClockInv'
BY SchedulerAssumption DEF ClockInv, AdvanceClock

\* The timer interrupt.
LEMMA TimerStep ==
  ASSUME TablesInv, CPUInv, ClockInv, timer_isr
  PROVE  TablesInv' /\ CPUInv' /\ ClockInv' /\ reply' = reply
<1>1. ClockInv'
  BY AdvanceClockStep DEF timer_isr, Tick, Preempt, PreemptWithoutRunning
<1>2. CASE Tick
  BY <1>1, <1>2, TablesUnchanged DEF Tick, processVars, CPUInv
<1>3. CASE Preempt
  <2> DEFINE r == Least(Running)
             ctx == SavedContext(process_list[r])
  <2>1. r \in Running
    <3>1. Running \in SUBSET Nat /\ Running # {}
      BY <1>3 DEF Running, Slots, Preempt
    <3> QED
      BY <3>1, LeastInSet
  <2>2. r = current_process_list_id /\ r \in Slots
    BY <2>1 DEF TablesInv, RunningIsCurrent, Running
  <2>3. ctx \in PCBType /\ ctx.dir = process_list[r].dir
    <3> HIDE DEF r
    <3> QED
      BY <2>2 DEF SavedContext, TablesInv, CPUInv, PCBType
  <2> HIDE DEF r, ctx
  <2>4. Saves(Saved(ctx))
    BY <2>2, <2>3, SavedSaves
  <2>5. /\ scheduler_switch_to_next_process(Saved(ctx)) \/ SwitchOutsideList(Saved(ctx))
        /\ UNCHANGED <<paging, active_process_count, next_pid, reply>>
    BY <1>3 DEF Preempt, ctx, r
  <2> QED
    BY <1>1, <2>4, <2>5, SwitchStep
<1>4. CASE PreemptWithoutRunning
  <2>1. UNCHANGED <<paging, active_process_count, next_pid, reply>>
    BY <1>4 DEF PreemptWithoutRunning
  <2>2. CASE mode' = "hung" /\ UNCHANGED <<cr3, cpu, process_list, current_process_list_id>>
    BY <1>1, <2>1, <2>2, TablesUnchanged DEF CPUInv, Modes
  <2>3. ASSUME NEW flags \in Flags,
               LET saved == Saved(SavedContext([FreePCB EXCEPT !.eflags = flags]))
               IN  scheduler_switch_to_next_process(saved) \/ SwitchOutsideList(saved)
        PROVE  TablesInv' /\ CPUInv'
    <3> DEFINE ctx == SavedContext([FreePCB EXCEPT !.eflags = flags])
    <3>1. ctx \in PCBType /\ ctx.dir = Garbage
      BY FreePCBType DEF FreePCB, SavedContext, CPUInv, PCBType
    <3>2. scheduler_switch_to_next_process(Saved(ctx)) \/ SwitchOutsideList(Saved(ctx))
      BY <2>3
    <3> HIDE DEF ctx
    <3>3. Saves(Saved(ctx))
      BY <3>1, SavedSaves
    <3> QED
      BY <2>1, <3>2, <3>3, SwitchStep
  <2> QED
    BY <1>1, <1>4, <2>1, <2>2, <2>3 DEF PreemptWithoutRunning
<1> QED
  BY <1>2, <1>3, <1>4 DEF timer_isr

ReplyInv == reply \in [ret : 0 .. 4, edx : 0 .. 4]

\* The invariant in the parts the steps are proved for.
LEMMA KernelInvParts == KernelInv <=> TablesInv /\ CPUInv /\ ClockInv /\ ReplyInv
BY DEF KernelInv, TypeOK, TablesInv, CPUInv, ClockInv, ReplyInv

\* Every step of the kernel preserves the invariant.
LEMMA KernelStep == KernelInv /\ [Next]_vars => KernelInv'
<1> SUFFICES ASSUME TablesInv, CPUInv, ClockInv, ReplyInv, [Next]_vars
             PROVE  TablesInv' /\ CPUInv' /\ ClockInv' /\ ReplyInv'
  BY KernelInvParts DEF KernelInv, TypeOK, TablesInv, CPUInv, ClockInv, ReplyInv
<1>1. ASSUME NEW readable \in BOOLEAN, CreateInitProcess(readable)
      PROVE  TablesInv' /\ CPUInv' /\ ClockInv' /\ ReplyInv'
  <2> DEFINE rq == InitRequest(readable)
  <2>1. PICK ret \in 0 .. 4, alive \in BOOLEAN :
          /\ process_create_user_process(rq, ret, alive)
          /\ mode' = IF alive THEN "init" ELSE "crashed"
    BY <1>1 DEF CreateInitProcess
  <2>2. UNCHANGED <<cpu, reply, current_process_list_id, tick_counter, second_counter>>
    BY <1>1 DEF CreateInitProcess
  <2>3. rq.needed \in Nat \ {0}
    BY DEF InitRequest
  <2> HIDE DEF rq
  <2>4. TablesInv' /\ cr3' = cr3
    BY <2>1, <2>2, <2>3, CreateStep
  <2> QED
    BY <2>1, <2>2, <2>4 DEF CPUInv, ClockInv, ReplyInv, Modes
<1>2. CASE StartScheduler
  <2>1. Saves(process_list)
    BY DEF Saves, TablesInv
  <2>2. /\ scheduler_switch_to_next_process(process_list)
        /\ UNCHANGED <<paging, active_process_count, next_pid, reply, tick_counter, second_counter>>
    BY <1>2 DEF StartScheduler
  <2> QED
    BY <2>1, <2>2, SwitchStep DEF ClockInv, ReplyInv
<1>3. ASSUME NEW pid \in 0 .. MaxPid, SyscallDestroy(pid)
      PROVE  TablesInv' /\ CPUInv' /\ ClockInv' /\ ReplyInv'
  <2>1. PICK found \in BOOLEAN :
          /\ process_destroy(pid, found)
          /\ LET bool == IF found THEN 1 ELSE 0 IN reply' = [ret |-> bool, edx |-> bool]
    BY <1>3 DEF SyscallDestroy
  <2>2. UNCHANGED <<cr3, next_pid, mode, cpu, clockVars>>
    BY <1>3 DEF SyscallDestroy
  <2>3. TablesInv'
    BY <2>1, <2>2, DestroyStep DEF clockVars
  <2> QED
    BY <2>1, <2>2, <2>3 DEF CPUInv, ClockInv, ReplyInv, clockVars
<1>4. ASSUME NEW rq \in Requests, SyscallCreate(rq)
      PROVE  TablesInv' /\ CPUInv' /\ ClockInv' /\ ReplyInv'
  <2>1. PICK ret \in 0 .. 4, alive \in BOOLEAN :
          /\ process_create_user_process(rq, ret, alive)
          /\ mode' = IF alive THEN "user" ELSE "crashed"
          /\ reply' = [ret |-> ret, edx |-> 0]
    BY <1>4 DEF SyscallCreate
  <2>2. UNCHANGED <<cpu, clockVars>>
    BY <1>4 DEF SyscallCreate
  <2>3. rq.needed \in Nat \ {0}
    BY ProcessAssumption DEF Requests
  <2>4. TablesInv' /\ cr3' = cr3
    BY <2>1, <2>2, <2>3, CreateStep DEF clockVars
  <2> QED
    BY <2>1, <2>2, <2>4 DEF CPUInv, ClockInv, ReplyInv, Modes, clockVars
<1>5. CASE SyscallExit
  <2>1. PICK found \in BOOLEAN : process_destroy(current_process_list_id, found)
    BY <1>5 DEF SyscallExit
  <2>2. UNCHANGED <<cr3, next_pid, mode, cpu, reply, clockVars>>
    BY <1>5 DEF SyscallExit
  <2>3. TablesInv'
    BY <2>1, <2>2, DestroyStep DEF clockVars
  <2> QED
    BY <2>2, <2>3 DEF CPUInv, ClockInv, ReplyInv, clockVars
<1>6. CASE UserSetsFlags
  BY <1>6, TablesUnchanged DEF UserSetsFlags, clockVars, CPUInv, ClockInv, ReplyInv, Flags
<1>7. CASE UserLosesKernel
  BY <1>7, TablesUnchanged DEF UserLosesKernel, clockVars, CPUInv, ClockInv, ReplyInv, Modes
<1>8. CASE timer_isr
  BY <1>8, TimerStep DEF ReplyInv
<1>9. CASE UNCHANGED vars
  BY <1>9, TablesUnchanged DEF vars, processVars, CPUInv, ClockInv, ReplyInv
<1> QED
  BY <1>1, <1>2, <1>3, <1>4, <1>5, <1>6, <1>7, <1>8, <1>9 DEF Next

-----------------------------------------------------------------------------
(* The theorems. *)

\* KernelInv holds in every state of every execution: it is inductive.
THEOREM KernelInvariant == Spec => []KernelInv
BY KernelInit, KernelStep, PTL DEF Spec

\* Type correctness, for every value of the constants.
THEOREM KernelTypeOK == Spec => []TypeOK
<1>1. KernelInv => TypeOK
  BY DEF KernelInv
<1> QED
  BY <1>1, KernelInvariant, PTL

\* Whatever is created, destroyed, preempted or left half-done, the only slot in
\* state RUNNING is the one the scheduler remembers: timer_isr saves a context
\* into the slot it took it from, and there is never a second running process.
THEOREM KernelRunningIsCurrent == Spec => []RunningIsCurrent
<1>1. KernelInv => RunningIsCurrent
  BY DEF KernelInv
<1> QED
  BY <1>1, KernelInvariant, PTL

\* No two processes ever have the same pid, and a pid is never handed out again.
THEOREM KernelLivePidsUnique == Spec => []LivePidsUnique
<1>1. KernelInv => LivePidsUnique
  BY DEF KernelInv, DistinctPids, LivePidsUnique, Named
<1> QED
  BY <1>1, KernelInvariant, PTL

\* Every process keeps a page directory of its own, marked used and with the
\* kernel mapped, through every sequence of creations and destructions.
THEOREM KernelOwnDirectory == Spec => []OwnDirectory
<1>1. KernelInv => OwnDirectory
  BY DEF KernelInv
<1> QED
  BY <1>1, KernelInvariant, PTL

\* The running process always runs on its own page directory.
THEOREM KernelRunningInOwnSpace == Spec => []RunningInOwnSpace
<1>1. KernelInv => RunningInOwnSpace
  BY DEF KernelInv
<1> QED
  BY <1>1, KernelInvariant, PTL

\* No frame of memory other than frame 0 is ever mapped by two directories.
THEOREM KernelUserFramesPrivate == Spec => []UserFramesPrivate
<1>1. KernelInv => UserFramesPrivate
  BY DEF KernelInv
<1> QED
  BY <1>1, KernelInvariant, PTL

-----------------------------------------------------------------------------
(* Mappings. *)

\* Creation leaves the mappings of every live process alone.
LEMMA CreateKeepsMappings ==
  ASSUME TablesInv, NEW rq, rq.needed \in Nat \ {0}, NEW ret, NEW alive,
         process_create_user_process(rq, ret, alive),
         NEW i \in Slots, Live(i), process_list[i].dir # Garbage
  PROVE  paging'.user[process_list[i].dir] = paging.user[process_list[i].dir]
<1> DEFINE d  == Least(UnusedDirectories(paging))
           e  == process_list[i].dir
           pg == AddressSpace(d, rq.needed)
           fr == paging_free_user_page_frames(pg, EntryZero(pg, d), rq.needed)
<1> USE DEF TablesInv
<1>1. CASE paging' = paging
  BY <1>1
<1>2. ASSUME UnusedDirectories(paging) # {}
      PROVE  /\ d \in Directories /\ e \in Directories \ {d}
             /\ pg \in PagingType /\ pg.user[e] = paging.user[e]
  <2>1. d \in Directories /\ ~paging.page_directory_used[d]
    BY <1>2, CreationPicks
  <2>2. e \in Directories /\ paging.page_directory_used[e]
    BY DEF OwnDirectory, PCBType
  <2> HIDE DEF d, e
  <2> QED
    BY <2>1, <2>2, AddressSpaceEffect
<1>3. CASE UnusedDirectories(paging) # {} /\ paging' = pg
  BY <1>2, <1>3
<1>4. CASE UnusedDirectories(paging) # {} /\ paging' = paging_free_page_directory(fr, d)
  <2>1. /\ d \in Directories /\ e \in Directories \ {d}
        /\ pg \in PagingType /\ pg.user[e] = paging.user[e]
    BY <1>2, <1>4
  <2>2. EntryZero(pg, d) \in 0 .. PAGE_FRAME_MAX_COUNT
    BY <2>1, EntryZeroType
  <2> HIDE DEF pg
  <2>3. fr \in PagingType /\ fr.user = pg.user
    BY <2>1, <2>2, FreeFramesType, FreeFramesEffect
  <2> HIDE DEF d, e, fr
  <2>4. paging'.user[e] = fr.user[e]
    BY <1>4, <2>1, <2>3, FreeDirectoryEffect
  <2> QED
    BY <2>1, <2>3, <2>4 DEF e
<1> QED
  BY <1>1, <1>3, <1>4
  DEF process_create_user_process, CreateRefused, CreateSucceeds, CreateReadFails,
      CreateOutsideList, CreateWithoutDirectory

\* Destruction leaves alone the mappings of everybody but its victim.
LEMMA DestroyKeepsMappings ==
  ASSUME TablesInv, NEW pid, NEW found, process_destroy(pid, found),
         NEW i \in Slots, Live(i), process_list[i].dir # Garbage, Live(i)'
  PROVE  paging'.user[process_list[i].dir] = paging.user[process_list[i].dir]
<1> USE DEF TablesInv
<1>1. CASE Matching(pid) = {}
  BY <1>1 DEF process_destroy
<1>2. CASE Matching(pid) # {}
  <2> DEFINE v   == Least(Matching(pid))
             pcb == process_list[v]
             pg1 == paging_free_user_page_frames(paging, EntryZero(paging, pcb.dir), pcb.frames)
             e   == process_list[i].dir
  <2>1. v \in Slots /\ Live(v)
    <3>1. Matching(pid) \in SUBSET Nat
      BY DEF Matching, Slots
    <3>2. v \in Matching(pid)
      BY <1>2, <3>1, LeastInSet
    <3> QED
      BY <3>2 DEF Matching
  <2>2. DestroySlot(v) \/ DestroyLostSlot(v)
    BY <1>2 DEF process_destroy
  <2> HIDE DEF v
  <2>3. pcb \in PCBType /\ pcb.frames \in Nat /\ e \in Directories
    BY <2>1 DEF PCBType
  <2>4. CASE DestroySlot(v)
    <3>1. /\ pcb.dir \in Directories
          /\ paging' = paging_free_page_directory(pg1, pcb.dir)
          /\ process_list' = [process_list EXCEPT ![v] = FreePCB]
      BY <2>4 DEF DestroySlot
    <3>2. pg1 \in PagingType /\ pg1.user = paging.user
      BY <2>3, EntryZeroType, FreeFramesType, FreeFramesEffect
    <3>3. i # v
      BY <2>1, <3>1 DEF Live, FreePCB
    <3>4. e # pcb.dir
      BY <2>1, <3>3 DEF OwnDirectory
    <3> HIDE DEF pg1, pcb, e
    <3>5. paging'.user[e] = pg1.user[e]
      BY <2>3, <3>1, <3>2, <3>4, FreeDirectoryEffect
    <3> QED
      BY <3>2, <3>5 DEF e
  <2>5. CASE DestroyLostSlot(v)
    <3>1. paging' = paging_free_user_page_frames(paging, 0, pcb.frames)
      BY <2>5 DEF DestroyLostSlot
    <3>2. 0 \in 0 .. PAGE_FRAME_MAX_COUNT
      BY PagingAssumption
    <3> QED
      BY <2>3, <3>1, <3>2, FreeFramesEffect
  <2> QED
    BY <2>2, <2>4, <2>5
<1> QED
  BY <1>1, <1>2

\* A process that lives on keeps its directory's mappings in every step.
LEMMA MappingsStep ==
  ASSUME TablesInv, Next, NEW i \in Slots, Live(i), process_list[i].dir # Garbage, Live(i)'
  PROVE  paging'.user[process_list[i].dir] = paging.user[process_list[i].dir]
<1>1. ASSUME NEW readable \in BOOLEAN, CreateInitProcess(readable)
      PROVE  paging'.user[process_list[i].dir] = paging.user[process_list[i].dir]
  <2>1. InitRequest(readable).needed \in Nat \ {0}
    BY DEF InitRequest
  <2> QED
    BY <1>1, <2>1, CreateKeepsMappings DEF CreateInitProcess
<1>2. ASSUME NEW pid \in 0 .. MaxPid, SyscallDestroy(pid)
      PROVE  paging'.user[process_list[i].dir] = paging.user[process_list[i].dir]
  BY <1>2, DestroyKeepsMappings DEF SyscallDestroy
<1>3. ASSUME NEW rq \in Requests, SyscallCreate(rq)
      PROVE  paging'.user[process_list[i].dir] = paging.user[process_list[i].dir]
  <2>1. rq.needed \in Nat \ {0}
    BY ProcessAssumption DEF Requests
  <2> QED
    BY <1>3, <2>1, CreateKeepsMappings DEF SyscallCreate
<1>4. CASE SyscallExit
  BY <1>4, DestroyKeepsMappings DEF SyscallExit
<1>5. CASE StartScheduler \/ UserSetsFlags \/ UserLosesKernel \/ timer_isr
  BY <1>5 DEF StartScheduler, UserSetsFlags, UserLosesKernel, timer_isr, Tick, Preempt,
              PreemptWithoutRunning, processVars
<1> QED
  BY <1>1, <1>2, <1>3, <1>4, <1>5 DEF Next

\* Whatever is created or destroyed, a process that goes on living on its directory
\* keeps every page it has mapped: nobody else's creation or end reaches into it.
THEOREM KernelMappingsStable == Spec => MappingsStable
<1>1. KernelInv /\ [Next]_vars =>
        [\A i \in Slots :
           Named(i) /\ process_list[i].dir # Garbage
             /\ Live(i)' /\ process_list'[i].pid = process_list[i].pid
             /\ process_list'[i].dir = process_list[i].dir
           => paging'.user[process_list[i].dir] = paging.user[process_list[i].dir]]_vars
  BY KernelInvParts, MappingsStep DEF Named
<1> QED
  BY <1>1, KernelInvariant, PTL DEF Spec, MappingsStable
-----------------------------------------------------------------------------
(* The process table that clients see, as operators of a process list. *)

InUse(list)       == {i \in Slots : list[i].state # "TERMINATED" /\ list[i].pid # 0}
PidsIn(list)      == {list[i].pid : i \in InUse(list)}
SlotIn(list, pid) == CHOOSE i \in Slots : list[i].state # "TERMINATED" /\ list[i].pid = pid
SpaceIn(list)     == [pid \in PidsIn(list) |-> list[SlotIn(list, pid)].dir]
RunningSlots(list) == {i \in Slots : list[i].state = "RUNNING"}
RunningIn(list)   == IF RunningSlots(list) = {} THEN 0 ELSE list[Least(RunningSlots(list))].pid

\* pids differ in all slots.
Distinct(list) ==
  \A i, j \in Slots : list[i].pid # 0 /\ i # j => list[i].pid # list[j].pid

\* A pid in use leads back to its slot.
LEMMA SlotOfPid ==
  ASSUME NEW list, Distinct(list), NEW i \in InUse(list)
  PROVE  SlotIn(list, list[i].pid) = i
<1> DEFINE OfPid(j) == j \in Slots /\ list[j].state # "TERMINATED" /\ list[j].pid = list[i].pid
<1>1. OfPid(i)
  BY DEF InUse
<1>2. OfPid(SlotIn(list, list[i].pid))
  BY <1>1 DEF SlotIn
<1> QED
  BY <1>1, <1>2 DEF Distinct, InUse

\* The address space of a pid in use is its slot's directory.
LEMMA SpaceOfPid ==
  ASSUME NEW list, Distinct(list), NEW i \in InUse(list)
  PROVE  list[i].pid \in PidsIn(list) /\ SpaceIn(list)[list[i].pid] = list[i].dir
BY SlotOfPid DEF SpaceIn, PidsIn

\* Two lists with the same processes show the same table.
LEMMA SameSpace ==
  ASSUME NEW old, NEW new, Distinct(old), Distinct(new),
         InUse(new) = InUse(old),
         \A i \in InUse(old) : new[i].pid = old[i].pid /\ new[i].dir = old[i].dir
  PROVE  SpaceIn(new) = SpaceIn(old)
<1>1. PidsIn(new) = PidsIn(old)
  BY DEF PidsIn
<1>2. ASSUME NEW p \in PidsIn(old)
      PROVE  new[SlotIn(new, p)].dir = old[SlotIn(old, p)].dir
  <2>1. PICK i \in InUse(old) : p = old[i].pid
    BY DEF PidsIn
  <2>2. SlotIn(old, p) = i /\ SlotIn(new, p) = i
    BY <2>1, SlotOfPid
  <2> QED
    BY <2>1, <2>2
<1> QED
  BY <1>1, <1>2 DEF SpaceIn

\* A table without the process in slot i.
LEMMA SpaceWithout ==
  ASSUME NEW old, NEW new, Distinct(old), Distinct(new), NEW i \in InUse(old),
         InUse(new) = InUse(old) \ {i},
         \A j \in InUse(new) : new[j].pid = old[j].pid /\ new[j].dir = old[j].dir
  PROVE  SpaceIn(new) = [p \in PidsIn(old) \ {old[i].pid} |-> SpaceIn(old)[p]]
<1>1. PidsIn(new) = PidsIn(old) \ {old[i].pid}
  BY DEF PidsIn, Distinct, InUse
<1>2. ASSUME NEW p \in PidsIn(new)
      PROVE  new[SlotIn(new, p)].dir = SpaceIn(old)[p]
  <2>1. PICK j \in InUse(new) : p = new[j].pid
    BY DEF PidsIn
  <2>2. SlotIn(new, p) = j
    BY <2>1, SlotOfPid
  <2>3. j \in InUse(old) /\ p = old[j].pid
    BY <2>1
  <2>4. SpaceIn(old)[p] = old[j].dir
    BY <2>3, SpaceOfPid
  <2> QED
    BY <2>1, <2>2, <2>4
<1> QED
  BY <1>1, <1>2 DEF SpaceIn

\* A table with one more process, in slot i.
LEMMA SpaceWith ==
  ASSUME NEW old, NEW new, Distinct(old), Distinct(new), NEW i \in InUse(new),
         i \notin InUse(old),
         InUse(new) = InUse(old) \cup {i},
         \A j \in InUse(old) : new[j].pid = old[j].pid /\ new[j].dir = old[j].dir
  PROVE  SpaceIn(new) = [p \in PidsIn(old) \cup {new[i].pid} |->
                           IF p = new[i].pid THEN new[i].dir ELSE SpaceIn(old)[p]]
<1>1. PidsIn(new) = PidsIn(old) \cup {new[i].pid}
  BY DEF PidsIn
<1>2. ASSUME NEW p \in PidsIn(new)
      PROVE  new[SlotIn(new, p)].dir = IF p = new[i].pid THEN new[i].dir ELSE SpaceIn(old)[p]
  <2>1. PICK j \in InUse(new) : p = new[j].pid
    BY DEF PidsIn
  <2>2. SlotIn(new, p) = j
    BY <2>1, SlotOfPid
  <2>3. CASE j = i
    BY <2>1, <2>2, <2>3
  <2>4. CASE j # i
    <3>1. j \in InUse(old) /\ p = old[j].pid /\ new[j].dir = old[j].dir
      BY <2>1, <2>4
    <3>2. SpaceIn(old)[p] = old[j].dir
      BY <3>1, SpaceOfPid
    <3>3. p # new[i].pid
      BY <2>1, <2>4 DEF Distinct, InUse
    <3> QED
      BY <2>2, <3>1, <3>2, <3>3
  <2> QED
    BY <2>3, <2>4
<1>3. [p \in PidsIn(new) |-> new[SlotIn(new, p)].dir]
        = [p \in PidsIn(new) |-> IF p = new[i].pid THEN new[i].dir ELSE SpaceIn(old)[p]]
  BY <1>2
<1> QED
  BY <1>1, <1>3 DEF SpaceIn

\* A table in which the process in slot i has lost its address space.
LEMMA SpaceExcept ==
  ASSUME NEW old, NEW new, Distinct(old), Distinct(new), NEW i \in InUse(old),
         InUse(new) = InUse(old), new[i].pid = old[i].pid,
         \A j \in InUse(old) \ {i} : new[j].pid = old[j].pid /\ new[j].dir = old[j].dir
  PROVE  SpaceIn(new) = [SpaceIn(old) EXCEPT ![old[i].pid] = new[i].dir]
<1>1. PidsIn(new) = PidsIn(old)
  BY DEF PidsIn
<1>2. ASSUME NEW p \in PidsIn(old)
      PROVE  new[SlotIn(new, p)].dir = IF p = old[i].pid THEN new[i].dir ELSE SpaceIn(old)[p]
  <2>1. PICK j \in InUse(old) : p = old[j].pid
    BY DEF PidsIn
  <2>2. SlotIn(new, p) = j
    <3>1. new[j].pid = p /\ j \in InUse(new)
      BY <2>1
    <3> QED
      BY <3>1, SlotOfPid
  <2>3. CASE j = i
    BY <2>1, <2>2, <2>3
  <2>4. CASE j # i
    <3>1. SpaceIn(old)[p] = old[j].dir
      BY <2>1, SpaceOfPid
    <3>2. p # old[i].pid
      BY <2>1, <2>4 DEF Distinct, InUse
    <3> QED
      BY <2>1, <2>2, <2>4, <3>1, <3>2
  <2> QED
    BY <2>3, <2>4
<1> QED
  BY <1>1, <1>2 DEF SpaceIn

\* The pid on the CPU is that of the RUNNING slot, of which there is one at most.
LEMMA RunningOfList ==
  ASSUME NEW list, NEW c, \A i \in RunningSlots(list) : i = c
  PROVE  /\ \A i \in RunningSlots(list) : RunningIn(list) = list[i].pid
         /\ RunningSlots(list) = {} => RunningIn(list) = 0
         /\ RunningIn(list) \in PidsIn(list) \cup {0}
<1>1. ASSUME NEW i \in RunningSlots(list) PROVE RunningIn(list) = list[i].pid
  <2>1. RunningSlots(list) \in SUBSET Nat /\ RunningSlots(list) # {}
    BY <1>1 DEF RunningSlots, Slots
  <2>2. Least(RunningSlots(list)) \in RunningSlots(list)
    BY <2>1, LeastInSet
  <2>3. Least(RunningSlots(list)) = i
    BY <1>1, <2>2
  <2> QED
    BY <2>1, <2>3 DEF RunningIn
<1>2. RunningSlots(list) = {} => RunningIn(list) = 0
  BY DEF RunningIn
<1>3. ASSUME NEW i \in RunningSlots(list), list[i].pid # 0 PROVE list[i].pid \in PidsIn(list)
  BY <1>3 DEF PidsIn, InUse, RunningSlots
<1> QED
  BY <1>1, <1>2, <1>3

-----------------------------------------------------------------------------
(* Steps of the abstract table, in terms of the process list. *)

\* The table of the refinement mapping is that of the process list.
LEMMA TableOfList ==
  /\ TableSpace = SpaceIn(process_list) /\ TableSpace' = SpaceIn(process_list')
  /\ TableRunning = RunningIn(process_list) /\ TableRunning' = RunningIn(process_list')
  /\ DOMAIN TableSpace = PidsIn(process_list)
BY DEF SpaceIn, PidsIn, SlotIn, InUse, RunningIn, RunningSlots, TableSpace, TableRunning,
       LiveSlot, Named, Live, Running

\* The steps of the table, as what they do to the process list: the processes and
\* their spaces stay and the one on the CPU may change;
LEMMA TableDispatch ==
  ASSUME SpaceIn(process_list') = SpaceIn(process_list),
         RunningIn(process_list') \in PidsIn(process_list) \cup {0},
         UNCHANGED next_pid
  PROVE  Table!Dispatch
BY TableOfList DEF Table!Dispatch, Table!Processes

\* nothing changes;
LEMMA TableStutter ==
  ASSUME SpaceIn(process_list') = SpaceIn(process_list),
         RunningIn(process_list') = RunningIn(process_list),
         UNCHANGED next_pid
  PROVE  UNCHANGED Table!tableVars
BY TableOfList DEF Table!tableVars

\* only a pid is used up;
LEMMA TableFailToCreate ==
  ASSUME SpaceIn(process_list') = SpaceIn(process_list),
         RunningIn(process_list') = RunningIn(process_list),
         next_pid \in Nat, next_pid' = next_pid + 1
  PROVE  Table!FailToCreate
<1>1. next_pid' - 1 = next_pid - 1 + 1
  OBVIOUS
<1> QED
  BY <1>1, TableOfList DEF Table!FailToCreate

\* a process with the next pid and a space of its own appears;
LEMMA TableCreate ==
  ASSUME next_pid \in Nat, next_pid' = next_pid + 1,
         NEW d \in Directories, \A p \in PidsIn(process_list) : SpaceIn(process_list)[p] # d,
         SpaceIn(process_list') = [p \in PidsIn(process_list) \cup {next_pid} |->
                                     IF p = next_pid THEN d ELSE SpaceIn(process_list)[p]],
         RunningIn(process_list') = RunningIn(process_list)
  PROVE  Table!Create
<1>1. next_pid' - 1 = next_pid - 1 + 1 /\ next_pid - 1 + 1 = next_pid
  OBVIOUS
<1>2. d \in Directories \ {TableSpace[p] : p \in PidsIn(process_list)}
  BY TableOfList
<1>3. TableSpace' = [p \in PidsIn(process_list) \cup {next_pid - 1 + 1} |->
                       IF p = next_pid - 1 + 1 THEN d ELSE TableSpace[p]]
  <2>1. SpaceIn(process_list) = TableSpace /\ TableSpace' = SpaceIn(process_list')
    BY TableOfList
  <2> QED
    BY <1>1, <2>1
<1> QED
  BY <1>1, <1>2, <1>3, TableOfList DEF Table!Create, Table!Processes

\* a process goes, and the CPU with it if it had it;
LEMMA TableDestroy ==
  ASSUME NEW pid,
         SpaceIn(process_list') = [p \in PidsIn(process_list) \ {pid} |-> SpaceIn(process_list)[p]],
         RunningIn(process_list') = IF RunningIn(process_list) = pid THEN 0 ELSE RunningIn(process_list),
         UNCHANGED next_pid
  PROVE  Table!Destroy(pid)
<1>1. TableSpace' = [p \in PidsIn(process_list) \ {pid} |-> TableSpace[p]]
  BY TableOfList
<1>2. TableRunning' = IF TableRunning = pid THEN 0 ELSE TableRunning
  BY TableOfList
<1> QED
  BY <1>1, <1>2, TableOfList DEF Table!Destroy, Table!Processes

\* a process loses its space while nobody has the CPU.
LEMMA TableClobber ==
  ASSUME NEW pid \in PidsIn(process_list), RunningIn(process_list) = 0,
         SpaceIn(process_list') = [SpaceIn(process_list) EXCEPT ![pid] = Garbage],
         RunningIn(process_list') \in PidsIn(process_list) \cup {0},
         UNCHANGED next_pid
  PROVE  Table!Clobber
<1>1. TableSpace' = [TableSpace EXCEPT ![pid] = Garbage]
  BY TableOfList
<1> QED
  BY <1>1, TableOfList DEF Table!Clobber, Table!Processes

-----------------------------------------------------------------------------
(* The slot the scheduler remembers.  A preemption makes it READY whatever it *)
(* was, so a process that is gone would come back with the pid it still has.  *)

\* It holds no pid if its process is gone, and no lost directory if it is not.
CurrentOK ==
  current_process_list_id # -1 =>
    /\ process_list[current_process_list_id].state # "TERMINATED"
         => process_list[current_process_list_id].dir # Garbage
    /\ process_list[current_process_list_id].state = "TERMINATED"
         => process_list[current_process_list_id].pid = 0

\* So it is while the machine can take an interrupt.
CurrentInv == mode \in {"setup", "init", "user"} => CurrentOK

\* What the invariant says of the process list, now and after a step.
LEMMA ListFacts ==
  /\ TablesInv => /\ Distinct(process_list)
                  /\ \A i \in RunningSlots(process_list) : i = current_process_list_id
  /\ TablesInv' => /\ Distinct(process_list')
                   /\ \A i \in RunningSlots(process_list') : i = current_process_list_id'
BY DEF TablesInv, DistinctPids, Distinct, RunningIsCurrent, Running, RunningSlots

\* A step that ends the process in a slot, and only that, destroys it in the table.
LEMMA EndOfProcess ==
  ASSUME TablesInv, TablesInv', NEW i \in Slots, Live(i),
         process_list'[i].state = "TERMINATED",
         \A j \in Slots \ {i} : process_list'[j] = process_list[j],
         UNCHANGED next_pid
  PROVE  \/ \E p \in Table!Processes : Table!Destroy(p)
         \/ UNCHANGED Table!tableVars
<1> DEFINE old == process_list
           new == process_list'
           pid == old[i].pid
<1>1. /\ Distinct(old) /\ Distinct(new)
      /\ \A j \in RunningSlots(old) : j = current_process_list_id
      /\ \A j \in RunningSlots(new) : j = current_process_list_id'
  BY ListFacts
<1>2. InUse(new) = InUse(old) \ {i}
  BY DEF InUse
<1>3. RunningSlots(new) = RunningSlots(old) \ {i}
  BY DEF RunningSlots
<1>4. /\ \A j \in RunningSlots(old) : RunningIn(old) = old[j].pid
      /\ RunningSlots(old) = {} => RunningIn(old) = 0
      /\ \A j \in RunningSlots(new) : RunningIn(new) = new[j].pid
      /\ RunningSlots(new) = {} => RunningIn(new) = 0
  <2> HIDE DEF old, new
  <2> QED
    BY <1>1, RunningOfList
<1>5. CASE pid # 0
  <2>1. i \in InUse(old)
    BY <1>5 DEF InUse, Live
  <2>2. SpaceIn(new) = [p \in PidsIn(old) \ {pid} |-> SpaceIn(old)[p]]
    <3>1. \A j \in InUse(new) : new[j].pid = old[j].pid /\ new[j].dir = old[j].dir
      BY <1>2 DEF InUse
    <3> HIDE DEF old, new
    <3> QED
      BY <1>1, <1>2, <2>1, <3>1, SpaceWithout
  <2>3. RunningIn(new) = IF RunningIn(old) = pid THEN 0 ELSE RunningIn(old)
    <3>1. CASE i \in RunningSlots(old)
      <4>1. RunningSlots(new) = {}
        BY <1>1, <1>3, <3>1
      <4> QED
        BY <1>4, <3>1, <4>1
    <3>2. CASE i \notin RunningSlots(old) /\ RunningSlots(old) = {}
      BY <1>3, <1>4, <3>2
    <3>3. CASE i \notin RunningSlots(old) /\ RunningSlots(old) # {}
      <4>1. PICK r \in RunningSlots(old) : TRUE
        BY <3>3
      <4>2. r \in Slots \ {i} /\ r \in RunningSlots(new)
        BY <1>3, <3>3, <4>1 DEF RunningSlots
      <4>3. RunningIn(old) = old[r].pid /\ RunningIn(new) = old[r].pid
        BY <1>4, <4>2
      <4>4. old[r].pid # pid
        BY <1>1, <1>5, <4>2 DEF Distinct
      <4> QED
        BY <4>3, <4>4
    <3> QED
      BY <3>1, <3>2, <3>3
  <2>4. Table!Destroy(pid)
    BY <2>2, <2>3, TableDestroy
  <2>5. pid \in PidsIn(old)
    BY <2>1 DEF PidsIn
  <2>6. pid \in Table!Processes
    BY <2>5, TableOfList DEF Table!Processes
  <2> QED
    BY <2>4, <2>6
<1>6. CASE pid = 0
  <2>1. InUse(new) = InUse(old)
    BY <1>2, <1>6 DEF InUse
  <2>2. SpaceIn(new) = SpaceIn(old)
    <3>1. \A j \in InUse(old) : new[j].pid = old[j].pid /\ new[j].dir = old[j].dir
      BY <1>2, <2>1 DEF InUse
    <3> HIDE DEF old, new
    <3> QED
      BY <1>1, <2>1, <3>1, SameSpace
  <2>3. RunningIn(new) = RunningIn(old)
    <3>1. CASE i \in RunningSlots(old)
      <4>1. RunningSlots(new) = {}
        BY <1>1, <1>3, <3>1
      <4> QED
        BY <1>4, <1>6, <3>1, <4>1
    <3>2. CASE i \notin RunningSlots(old) /\ RunningSlots(old) = {}
      BY <1>3, <1>4, <3>2
    <3>3. CASE i \notin RunningSlots(old) /\ RunningSlots(old) # {}
      <4>1. PICK r \in RunningSlots(old) : TRUE
        BY <3>3
      <4>2. r \in Slots \ {i} /\ r \in RunningSlots(new)
        BY <1>3, <3>3, <4>1 DEF RunningSlots
      <4> QED
        BY <1>4, <4>2
    <3> QED
      BY <3>1, <3>2, <3>3
  <2> QED
    BY <2>2, <2>3, TableStutter
<1> QED
  BY <1>5, <1>6

\* process_destroy destroys one process of the table, or nothing.
LEMMA DestroyImplements ==
  ASSUME TablesInv, TablesInv', CPUInv, CurrentOK, NEW pid, NEW found, process_destroy(pid, found),
         UNCHANGED <<next_pid, current_process_list_id>>
  PROVE  /\ \/ \E p \in Table!Processes : Table!Destroy(p)
            \/ UNCHANGED Table!tableVars
         /\ CurrentOK'
<1>1. CASE Matching(pid) = {}
  <2>1. process_list' = process_list
    BY <1>1 DEF process_destroy
  <2> QED
    BY <2>1, TableStutter DEF CurrentOK
<1>2. CASE Matching(pid) # {}
  <2> DEFINE i == Least(Matching(pid))
  <2>1. i \in Slots /\ Live(i)
    <3>1. Matching(pid) \in SUBSET Nat
      BY DEF Matching, Slots
    <3>2. i \in Matching(pid)
      BY <1>2, <3>1, LeastInSet
    <3> QED
      BY <3>2 DEF Matching
  <2>2. DestroySlot(i) \/ DestroyLostSlot(i)
    BY <1>2 DEF process_destroy
  <2> HIDE DEF i
  <2>3. process_list \in [Slots -> PCBType]
    BY DEF TablesInv
  <2>4. CASE DestroySlot(i)
    <3>1. /\ process_list'[i] = FreePCB
          /\ \A j \in Slots \ {i} : process_list'[j] = process_list[j]
      BY <2>1, <2>3, <2>4 DEF DestroySlot
    <3>2. FreePCB.state = "TERMINATED" /\ FreePCB.pid = 0
      BY DEF FreePCB
    <3>3. CurrentOK'
      BY <3>1, <3>2 DEF CurrentOK, CPUInv
    <3> QED
      BY <2>1, <3>1, <3>2, <3>3, EndOfProcess
  <2>5. CASE DestroyLostSlot(i)
    <3>1. /\ process_list[i].dir = Garbage
          /\ process_list'[i].state = "TERMINATED"
          /\ \A j \in Slots \ {i} : process_list'[j] = process_list[j]
      BY <2>1, <2>3, <2>5 DEF DestroyLostSlot, PCBType
    <3>2. i # current_process_list_id
      BY <2>1, <3>1 DEF CurrentOK, Live, Slots
    <3>3. CurrentOK'
      BY <3>1, <3>2 DEF CurrentOK, CPUInv
    <3> QED
      BY <2>1, <3>1, <3>3, EndOfProcess
  <2> QED
    BY <2>2, <2>4, <2>5
<1> QED
  BY <1>1, <1>2

\* A step after which the same slots hold the same processes.
LEMMA SameTable ==
  ASSUME TablesInv, TablesInv',
         \A j \in Slots : process_list'[j].state = process_list[j].state,
         \A j \in Slots : Live(j) => process_list'[j] = process_list[j]
  PROVE  /\ SpaceIn(process_list') = SpaceIn(process_list)
         /\ RunningIn(process_list') = RunningIn(process_list)
<1> DEFINE old == process_list
           new == process_list'
<1>1. /\ Distinct(old) /\ Distinct(new)
      /\ \A j \in RunningSlots(old) : j = current_process_list_id
      /\ \A j \in RunningSlots(new) : j = current_process_list_id'
  BY ListFacts
<1>2. RunningSlots(new) = RunningSlots(old) /\ \A j \in RunningSlots(old) : new[j].pid = old[j].pid
  BY DEF RunningSlots, Live
<1>3. RunningIn(new) = RunningIn(old)
  <2> HIDE DEF old, new
  <2> QED
    BY <1>1, <1>2, RunningOfList
<1>4. InUse(new) = InUse(old) /\ \A j \in InUse(old) : new[j].pid = old[j].pid /\ new[j].dir = old[j].dir
  BY DEF InUse, Live
<1>5. SpaceIn(new) = SpaceIn(old)
  <2> HIDE DEF old, new
  <2> QED
    BY <1>1, <1>4, SameSpace
<1> QED
  BY <1>3, <1>5

\* process_create_user_process adds one process to the table, uses up a pid, or does
\* nothing that clients see.
LEMMA CreateImplements ==
  ASSUME TablesInv, TablesInv', CPUInv, CurrentOK, NEW rq, rq.needed \in Nat \ {0}, NEW ret, NEW alive,
         process_create_user_process(rq, ret, alive), UNCHANGED current_process_list_id
  PROVE  /\ Table!Create \/ Table!FailToCreate \/ UNCHANGED Table!tableVars
         /\ CurrentOK'
<1> DEFINE old == process_list
           new == process_list'
           d   == Least(UnusedDirectories(paging))
           i   == Least(Inactive)
<1>1. /\ old \in [Slots -> PCBType] /\ next_pid \in Nat
      /\ Distinct(old) /\ Distinct(new)
      /\ \A j \in RunningSlots(old) : j = current_process_list_id
      /\ \A j \in RunningSlots(new) : j = current_process_list_id'
  BY ListFacts DEF TablesInv
<1>2. CASE new = old /\ next_pid' = next_pid
  BY <1>2, TableStutter DEF CurrentOK
<1>3. CASE new = old /\ next_pid' = next_pid + 1
  BY <1>1, <1>3, TableFailToCreate DEF CurrentOK
<1>4. CASE CreateReadFails(rq, ret, alive)
  <2>1. i \in Slots /\ ~Live(i) /\ next_pid' = next_pid + 1
    BY <1>4, CreationPicks DEF CreateReadFails
  <2>2. new = [old EXCEPT ![i] = FreePCB]
    BY <1>4 DEF CreateReadFails
  <2> HIDE DEF i
  <2>3. new[i] = FreePCB /\ \A j \in Slots \ {i} : new[j] = old[j]
    BY <1>1, <2>1, <2>2
  <2>4. FreePCB.state = "TERMINATED" /\ FreePCB.pid = 0
    BY DEF FreePCB
  <2>5. SpaceIn(new) = SpaceIn(old) /\ RunningIn(new) = RunningIn(old)
    <3>1. /\ \A j \in Slots : new[j].state = old[j].state
          /\ \A j \in Slots : Live(j) => new[j] = old[j]
      BY <2>1, <2>3, <2>4 DEF Live
    <3> QED
      BY <3>1, SameTable
  <2>6. CurrentOK'
    BY <2>1, <2>3, <2>4 DEF CurrentOK, CPUInv
  <2> QED
    BY <1>1, <2>1, <2>5, <2>6, TableFailToCreate
<1>5. CASE CreateSucceeds(rq, ret, alive)
  <2>1. /\ i \in Slots /\ ~Live(i) /\ next_pid' = next_pid + 1
        /\ d \in Directories /\ ~paging.page_directory_used[d]
    BY <1>5, CreationPicks DEF CreateSucceeds
  <2>2. new = [old EXCEPT ![i] = NewPCB(i, d, rq.needed)]
    BY <1>5 DEF CreateSucceeds
  <2> HIDE DEF i, d
  <2>3. /\ new[i].pid = next_pid /\ new[i].dir = d /\ new[i].state = "NEW"
        /\ \A j \in Slots \ {i} : new[j] = old[j]
    BY <1>1, <2>1, <2>2 DEF NewPCB, PCBType
  <2>4. /\ i \notin InUse(old) /\ i \in InUse(new) /\ InUse(new) = InUse(old) \cup {i}
        /\ \A j \in InUse(old) : new[j].pid = old[j].pid /\ new[j].dir = old[j].dir
    <3>1. next_pid # 0
      BY DEF TablesInv
    <3> QED
      BY <2>1, <2>3, <3>1 DEF InUse, Live
  <2>5. SpaceIn(new) = [p \in PidsIn(old) \cup {next_pid} |->
                          IF p = next_pid THEN d ELSE SpaceIn(old)[p]]
    <3> HIDE DEF old, new
    <3> QED
      BY <1>1, <2>3, <2>4, SpaceWith
  <2>6. \A p \in PidsIn(old) : SpaceIn(old)[p] # d
    <3>1. \A j \in InUse(old) : SpaceIn(old)[old[j].pid] = old[j].dir
      <4> HIDE DEF old
      <4> QED
        BY <1>1, SpaceOfPid
    <3>2. \A j \in InUse(old) : old[j].dir # d
      BY <2>1 DEF TablesInv, OwnDirectory, InUse, Live, Garbage, Directories
    <3> QED
      BY <3>1, <3>2 DEF PidsIn
  <2>7. RunningIn(new) = RunningIn(old)
    <3>1. RunningSlots(new) = RunningSlots(old) /\ \A j \in RunningSlots(old) : new[j].pid = old[j].pid
      BY <2>1, <2>3 DEF RunningSlots, Live
    <3> HIDE DEF old, new
    <3> QED
      BY <1>1, <3>1, RunningOfList
  <2>8. CurrentOK'
    BY <2>1, <2>3 DEF CurrentOK, CPUInv, Garbage, Directories
  <2> QED
    BY <1>1, <2>1, <2>5, <2>6, <2>7, <2>8, TableCreate
<1> QED
  BY <1>2, <1>3, <1>4, <1>5
  DEF process_create_user_process, CreateRefused, CreateOutsideList, CreateWithoutDirectory

-----------------------------------------------------------------------------
(* Dispatching. *)

\* What a switch leaves of the list that was saved and yielded: pids, directories and
\* who lives.  A machine that goes on runs a process that has its directory.
LEMMA SwitchKeepsList ==
  ASSUME TablesInv, CPUInv, NEW saved, Saves(saved),
         scheduler_switch_to_next_process(saved) \/ SwitchOutsideList(saved)
  PROVE  /\ \A j \in Slots : /\ process_list'[j].pid = Yielded(saved)[j].pid
                             /\ process_list'[j].dir = Yielded(saved)[j].dir
                             /\ process_list'[j].state = "TERMINATED"
                                  <=> Yielded(saved)[j].state = "TERMINATED"
         /\ CurrentInv'
<1> DEFINE list == Yielded(saved)
<1>1. list \in [Slots -> PCBType]
  BY YieldedList
<1>2. CASE process_list' = list /\ mode' \in {"hung", "crashed"}
  BY <1>2 DEF CurrentInv
<1>3. CASE scheduler_switch_to_next_process(saved) /\ Candidates(list) # {}
  <2> DEFINE target == Nearest(Candidates(list))
  <2>1. /\ process_list' = Switched(list, target)
        /\ current_process_list_id' = target
        /\ process_context_switch(list, target)
    BY <1>3 DEF scheduler_switch_to_next_process
  <2>2. target \in Slots /\ list[target].state \in {"READY", "NEW"}
    <3>1. Candidates(list) \in SUBSET Slots
      BY DEF Candidates, InState
    <3>2. FirstSlot \in Int
      BY DEF FirstSlot, CPUInv, Slots
    <3>3. target \in Candidates(list)
      <4> HIDE DEF list
      <4> QED
        BY <1>3, <3>1, <3>2, NearestInSet
    <3> HIDE DEF list, target
    <3> QED
      BY <3>3 DEF Candidates, InState
  <2> HIDE DEF target, list
  <2>3. \A j \in Slots : /\ process_list'[j].pid = list[j].pid
                         /\ process_list'[j].dir = list[j].dir
                         /\ process_list'[j].state = "TERMINATED" <=> list[j].state = "TERMINATED"
    BY <1>1, <2>1, <2>2 DEF Switched, PCBType, States
  <2>4. process_list'[target].state = "RUNNING"
    BY <1>1, <2>1, <2>2 DEF Switched, PCBType
  <2>5. CurrentInv'
    BY <2>1, <2>2, <2>3, <2>4 DEF CurrentInv, CurrentOK, process_context_switch
  <2> QED
    BY <2>3, <2>5 DEF list
<1> QED
  BY <1>2, <1>3 DEF scheduler_switch_to_next_process, SwitchOutsideList

\* The list the switch starts from has the processes there are: the slot made READY
\* held one, or holds no pid.
LEMMA YieldedKeepsProcesses ==
  ASSUME TablesInv, CPUInv, CurrentOK, NEW saved, Saves(saved)
  PROVE  /\ InUse(Yielded(saved)) = InUse(process_list)
         /\ \A j \in Slots : /\ Yielded(saved)[j].pid = process_list[j].pid
                             /\ Yielded(saved)[j].dir = saved[j].dir
<1>1. CASE current_process_list_id = -1
  BY <1>1 DEF Yielded, Saves, InUse
<1>2. CASE current_process_list_id \in Slots
  <2> DEFINE c == current_process_list_id
  <2>1. Yielded(saved) = [saved EXCEPT ![c].state = "READY"]
    BY <1>2 DEF Yielded, Slots
  <2>2. \A j \in Slots : /\ Yielded(saved)[j].pid = saved[j].pid
                         /\ Yielded(saved)[j].dir = saved[j].dir
                         /\ Yielded(saved)[j].state = IF j = c THEN "READY" ELSE saved[j].state
    BY <2>1 DEF Saves, PCBType
  <2>3. process_list[c].pid # 0 => process_list[c].state # "TERMINATED"
    BY <1>2 DEF CurrentOK, Slots
  <2> QED
    BY <2>2, <2>3 DEF Saves, InUse
<1> QED
  BY <1>1, <1>2 DEF CPUInv

\* A switch dispatches a process or none; if the save before it lost a directory while
\* no process was RUNNING, it clobbers the process in the slot remembered.
LEMMA SwitchImplements ==
  ASSUME TablesInv, TablesInv', CPUInv, CurrentOK, NEW saved, Saves(saved),
         scheduler_switch_to_next_process(saved) \/ SwitchOutsideList(saved),
         \/ \A j \in Slots : saved[j].dir = process_list[j].dir
         \/ /\ RunningSlots(process_list) = {}
            /\ current_process_list_id \in Slots
            /\ saved[current_process_list_id].dir = Garbage
            /\ \A j \in Slots \ {current_process_list_id} : saved[j].dir = process_list[j].dir,
         UNCHANGED next_pid
  PROVE  Table!Dispatch \/ Table!Clobber
<1> DEFINE old == process_list
           new == process_list'
           c   == current_process_list_id
<1>1. /\ Distinct(old) /\ Distinct(new)
      /\ \A j \in RunningSlots(old) : j = current_process_list_id
      /\ \A j \in RunningSlots(new) : j = current_process_list_id'
  BY ListFacts
<1>2. /\ InUse(new) = InUse(old)
      /\ \A j \in Slots : new[j].pid = old[j].pid /\ new[j].dir = saved[j].dir
  BY SwitchKeepsList, YieldedKeepsProcesses DEF InUse
<1>3. PidsIn(new) = PidsIn(old)
  BY <1>2 DEF PidsIn, InUse
<1>4. RunningIn(new) \in PidsIn(old) \cup {0}
  <2> HIDE DEF old, new
  <2> QED
    BY <1>1, <1>3, RunningOfList
<1>5. CASE \A j \in InUse(old) : saved[j].dir = old[j].dir
  <2>1. \A j \in InUse(old) : new[j].pid = old[j].pid /\ new[j].dir = old[j].dir
    BY <1>2, <1>5 DEF InUse
  <2>2. SpaceIn(new) = SpaceIn(old)
    <3> HIDE DEF old, new
    <3> QED
      BY <1>1, <1>2, <2>1, SameSpace
  <2> QED
    BY <1>4, <2>2, TableDispatch
<1>6. CASE /\ RunningSlots(old) = {} /\ c \in InUse(old) /\ saved[c].dir = Garbage
           /\ \A j \in Slots \ {c} : saved[j].dir = old[j].dir
  <2>1. /\ new[c].pid = old[c].pid /\ new[c].dir = Garbage
        /\ \A j \in InUse(old) \ {c} : new[j].pid = old[j].pid /\ new[j].dir = old[j].dir
    BY <1>2, <1>6 DEF InUse
  <2>2. SpaceIn(new) = [SpaceIn(old) EXCEPT ![old[c].pid] = Garbage]
    <3> HIDE DEF old, new, c
    <3> QED
      BY <1>1, <1>2, <1>6, <2>1, SpaceExcept
  <2>3. old[c].pid \in PidsIn(old) /\ RunningIn(old) = 0
    BY <1>6 DEF PidsIn, RunningIn
  <2> QED
    BY <1>4, <2>2, <2>3, TableClobber
<1> QED
  BY <1>5, <1>6 DEF InUse

\* The timer dispatches, clobbers, or shows nothing to clients.
LEMMA TimerImplements ==
  ASSUME TablesInv, TablesInv', CPUInv, CurrentInv, timer_isr
  PROVE  /\ Table!Dispatch \/ Table!Clobber \/ UNCHANGED Table!tableVars
         /\ CurrentInv'
<1>1. mode \in {"setup", "init", "user"} /\ next_pid' = next_pid
  BY DEF timer_isr, Tick, Preempt, PreemptWithoutRunning, processVars
<1>2. CurrentOK
  BY <1>1 DEF CurrentInv
<1>3. CASE Tick
  <2>1. UNCHANGED <<process_list, mode, current_process_list_id>>
    BY <1>3 DEF Tick, processVars
  <2> QED
    BY <1>1, <2>1, TableStutter DEF CurrentInv, CurrentOK
<1>4. CASE Preempt
  <2> DEFINE r   == Least(Running)
             ctx == SavedContext(process_list[r])
  <2>1. r \in Running
    <3>1. Running \in SUBSET Nat /\ Running # {}
      BY <1>4 DEF Running, Slots, Preempt
    <3> QED
      BY <3>1, LeastInSet
  <2>2. r = current_process_list_id /\ r \in Slots
    BY <2>1 DEF TablesInv, RunningIsCurrent, Running
  <2> HIDE DEF r
  <2>3. ctx \in PCBType /\ ctx.dir = process_list[r].dir
    BY <2>2 DEF SavedContext, TablesInv, CPUInv, PCBType
  <2> HIDE DEF ctx
  <2>4. Saves(Saved(ctx))
    BY <2>2, <2>3, SavedSaves
  <2>5. \A j \in Slots : Saved(ctx)[j].dir = process_list[j].dir
    BY <2>2, <2>3 DEF Saved, TablesInv, PCBType
  <2>6. scheduler_switch_to_next_process(Saved(ctx)) \/ SwitchOutsideList(Saved(ctx))
    BY <1>4 DEF Preempt, ctx, r
  <2> QED
    BY <1>1, <1>2, <2>4, <2>5, <2>6, SwitchImplements, SwitchKeepsList
<1>5. CASE PreemptWithoutRunning
  <2>1. CASE mode' = "hung" /\ process_list' = process_list
    BY <1>1, <2>1, TableStutter DEF CurrentInv
  <2>2. ASSUME NEW flags \in Flags,
               LET saved == Saved(SavedContext([FreePCB EXCEPT !.eflags = flags]))
               IN  scheduler_switch_to_next_process(saved) \/ SwitchOutsideList(saved)
        PROVE  (Table!Dispatch \/ Table!Clobber) /\ CurrentInv'
    <3> DEFINE ctx == SavedContext([FreePCB EXCEPT !.eflags = flags])
               c   == current_process_list_id
    <3>1. ctx \in PCBType /\ ctx.dir = Garbage
      BY FreePCBType DEF FreePCB, SavedContext, CPUInv, PCBType
    <3>2. scheduler_switch_to_next_process(Saved(ctx)) \/ SwitchOutsideList(Saved(ctx))
      BY <2>2
    <3> HIDE DEF ctx
    <3>3. Saves(Saved(ctx))
      BY <3>1, SavedSaves
    <3>4. RunningSlots(process_list) = {}
      BY <1>5 DEF PreemptWithoutRunning, Running, RunningSlots
    <3>5. CASE c = -1
      <4>1. \A j \in Slots : Saved(ctx)[j].dir = process_list[j].dir
        BY <3>5 DEF Saved, TablesInv, Slots
      <4> QED
        BY <1>1, <1>2, <3>2, <3>3, <4>1, SwitchImplements, SwitchKeepsList
    <3>6. CASE c \in Slots
      <4>1. /\ Saved(ctx)[c].dir = Garbage
            /\ \A j \in Slots \ {c} : Saved(ctx)[j].dir = process_list[j].dir
        BY <3>1, <3>6 DEF Saved, TablesInv, PCBType
      <4> QED
        BY <1>1, <1>2, <3>2, <3>3, <3>4, <3>6, <4>1, SwitchImplements, SwitchKeepsList
    <3> QED
      BY <3>5, <3>6 DEF CPUInv
  <2> QED
    BY <1>5, <2>1, <2>2 DEF PreemptWithoutRunning
<1> QED
  BY <1>3, <1>4, <1>5 DEF timer_isr

\* The kernel starts with an empty table.
LEMMA InitImplements == Init => Table!Init /\ CurrentInv
<1> SUFFICES ASSUME Init PROVE Table!Init /\ CurrentInv
  OBVIOUS
<1>1. /\ \A i \in Slots : process_list[i].state = "TERMINATED"
      /\ next_pid = 1 /\ current_process_list_id = -1
  BY DEF Init, ProcessInit, SchedulerInit, FreePCB
<1>2. PidsIn(process_list) = {} /\ RunningSlots(process_list) = {}
  BY <1>1 DEF PidsIn, InUse, RunningSlots
<1>3. TableSpace = [p \in {} |-> Garbage] /\ TableRunning = 0
  BY <1>2, TableOfList DEF SpaceIn, RunningIn
<1>4. next_pid - 1 = 0
  BY <1>1
<1> QED
  BY <1>1, <1>3, <1>4 DEF Table!Init, CurrentInv, CurrentOK

\* Every step of the kernel is one of the table, or none.
LEMMA StepImplements ==
  ASSUME KernelInv, KernelInv', CurrentInv, [Next]_vars
  PROVE  [Table!Next]_Table!tableVars /\ CurrentInv'
<1> DEFINE Goal == [Table!Next]_Table!tableVars /\ CurrentInv'
<1>1. TablesInv /\ CPUInv /\ TablesInv'
  BY KernelInvParts DEF KernelInv, TypeOK, TablesInv
<1>2. mode = "user" => CurrentOK
  BY DEF CurrentInv
<1>3. ASSUME NEW readable \in BOOLEAN, CreateInitProcess(readable) PROVE Goal
  <2>1. PICK ret \in 0 .. 4, alive \in BOOLEAN :
          process_create_user_process(InitRequest(readable), ret, alive)
    BY <1>3 DEF CreateInitProcess
  <2>2. mode = "setup" /\ current_process_list_id' = current_process_list_id
    BY <1>3 DEF CreateInitProcess
  <2>3. InitRequest(readable).needed \in Nat \ {0}
    BY DEF InitRequest
  <2> QED
    BY <1>1, <2>1, <2>2, <2>3, CreateImplements DEF CurrentInv, Table!Next
<1>4. CASE StartScheduler
  <2>1. Saves(process_list) /\ \A j \in Slots : process_list[j].dir = process_list[j].dir
    BY <1>1 DEF Saves, TablesInv
  <2>2. CurrentOK /\ scheduler_switch_to_next_process(process_list) /\ next_pid' = next_pid
    BY <1>4 DEF StartScheduler, CurrentInv
  <2> QED
    BY <1>1, <2>1, <2>2, SwitchImplements, SwitchKeepsList DEF Table!Next
<1>5. ASSUME NEW pid \in 0 .. MaxPid, SyscallDestroy(pid) PROVE Goal
  <2>1. PICK found \in BOOLEAN : process_destroy(pid, found)
    BY <1>5 DEF SyscallDestroy
  <2>2. mode = "user" /\ UNCHANGED <<next_pid, current_process_list_id>>
    BY <1>5 DEF SyscallDestroy, clockVars
  <2> QED
    BY <1>1, <1>2, <2>1, <2>2, DestroyImplements DEF CurrentInv, Table!Next
<1>6. ASSUME NEW rq \in Requests, SyscallCreate(rq) PROVE Goal
  <2>1. PICK ret \in 0 .. 4, alive \in BOOLEAN : process_create_user_process(rq, ret, alive)
    BY <1>6 DEF SyscallCreate
  <2>2. mode = "user" /\ current_process_list_id' = current_process_list_id
    BY <1>6 DEF SyscallCreate, clockVars
  <2>3. rq.needed \in Nat \ {0}
    BY ProcessAssumption DEF Requests
  <2> QED
    BY <1>1, <1>2, <2>1, <2>2, <2>3, CreateImplements DEF CurrentInv, Table!Next
<1>7. CASE SyscallExit
  <2>1. PICK found \in BOOLEAN : process_destroy(current_process_list_id, found)
    BY <1>7 DEF SyscallExit
  <2>2. mode = "user" /\ UNCHANGED <<next_pid, current_process_list_id>>
    BY <1>7 DEF SyscallExit, clockVars
  <2> QED
    BY <1>1, <1>2, <2>1, <2>2, DestroyImplements DEF CurrentInv, Table!Next
<1>8. CASE UserSetsFlags \/ UserLosesKernel \/ UNCHANGED vars
  <2>1. /\ UNCHANGED <<process_list, next_pid, current_process_list_id>>
        /\ mode' \in {mode, "crashed"}
    BY <1>8 DEF UserSetsFlags, UserLosesKernel, vars, processVars, clockVars
  <2> QED
    BY <2>1, TableStutter DEF CurrentInv, CurrentOK
<1>9. CASE timer_isr
  BY <1>1, <1>9, TimerImplements DEF Table!Next
<1> QED
  BY <1>3, <1>4, <1>5, <1>6, <1>7, <1>8, <1>9 DEF Next

\* Whatever happens to slots, counters and page tables, through failing creations and
\* destructions of the process that runs, clients see a table in which a process has a
\* fresh pid and an address space that nobody has, and only its own end takes it away.
THEOREM KernelImplementsProcessTable == Spec => ImplementsProcessTable
<1>1. Init => Table!Init /\ CurrentInv
  BY InitImplements
<1>2. KernelInv /\ KernelInv' /\ CurrentInv /\ [Next]_vars
        => [Table!Next]_Table!tableVars /\ CurrentInv'
  BY StepImplements
<1> QED
  BY <1>1, <1>2, KernelInvariant, PTL DEF Spec, ImplementsProcessTable, Table!Spec

-----------------------------------------------------------------------------
(* What holds of the kernel holds of orderly workloads. *)

\* An orderly step is one of the kernel's.
LEMMA OrderlyStepIsStep == [OrderlyNext]_vars => [Next]_vars
BY DEF OrderlyNext, Next

\* KernelInv holds in orderly workloads as it does in all.
LEMMA OrderlyKernelInv == OrderlySpec => []KernelInv
BY KernelInit, KernelStep, OrderlyStepIsStep, PTL DEF OrderlySpec

-----------------------------------------------------------------------------
(* The invariant of orderly workloads. *)

\* A live slot holds a process with an address space, whose context is its own; one
\* that is not is wiped.
SlotsOrderly ==
  \A i \in Slots :
    /\ Live(i) => /\ process_list[i].pid # 0 /\ process_list[i].dir # Garbage
                  /\ process_list[i].eip \in {0, process_list[i].pid}
    /\ ~Live(i) => process_list[i].pid = 0 /\ process_list[i].eip = 0

\* Before the scheduler starts nobody runs and nothing is preempted; then somebody
\* always does.
CPUOrderly ==
  /\ mode = "setup" => active_process_count = 0 /\ \A i \in Slots : ~Live(i)
  /\ mode = "init" => active_process_count <= 1
  /\ mode \in {"setup", "init"} => current_process_list_id = -1
  /\ mode = "user" => /\ current_process_list_id \in Running
                      /\ cpu.of = process_list[current_process_list_id].pid

OrderlyInv == SlotsOrderly /\ CPUOrderly

\* The invariant holds initially.
LEMMA OrderlyInit == Init => OrderlyInv
BY DEF Init, ProcessInit, SchedulerInit, FreePCB, OrderlyInv, SlotsOrderly, CPUOrderly, Live

\* What creation does to the list: nothing, a slot wiped again, or a new process in a
\* slot that was free.
LEMMA CreateList ==
  ASSUME TablesInv, NEW rq, rq.needed \in Nat \ {0}, NEW ret, NEW alive,
         process_create_user_process(rq, ret, alive)
  PROVE  \/ process_list' = process_list
         \/ \E i \in Slots :
              /\ ~Live(i)
              /\ \A j \in Slots \ {i} : process_list'[j] = process_list[j]
              /\ \/ process_list'[i] = FreePCB
                 \/ /\ process_list'[i].pid = next_pid
                    /\ process_list'[i].state = "NEW"
                    /\ process_list'[i].dir \in Directories
                    /\ process_list'[i].eip = process_list[i].eip
<1> DEFINE d == Least(UnusedDirectories(paging))
           i == Least(Inactive)
<1>1. process_list \in [Slots -> PCBType]
  BY DEF TablesInv
<1>2. CASE CreateReadFails(rq, ret, alive)
  <2>1. i \in Slots /\ ~Live(i) /\ process_list' = [process_list EXCEPT ![i] = FreePCB]
    BY <1>2, CreationPicks DEF CreateReadFails
  <2> HIDE DEF i
  <2> QED
    BY <1>1, <2>1
<1>3. CASE CreateSucceeds(rq, ret, alive)
  <2>1. /\ i \in Slots /\ ~Live(i) /\ d \in Directories
        /\ process_list' = [process_list EXCEPT ![i] = NewPCB(i, d, rq.needed)]
    BY <1>3, CreationPicks DEF CreateSucceeds
  <2> HIDE DEF i, d
  <2> QED
    BY <1>1, <2>1 DEF NewPCB, PCBType
<1> QED
  BY <1>2, <1>3 DEF process_create_user_process, CreateRefused, CreateOutsideList,
                    CreateWithoutDirectory

\* Creation keeps the slots orderly and does not touch those in use.
LEMMA CreateOrderly ==
  ASSUME TablesInv, SlotsOrderly, NEW rq, rq.needed \in Nat \ {0}, NEW ret, NEW alive,
         process_create_user_process(rq, ret, alive)
  PROVE  /\ SlotsOrderly'
         /\ \A i \in Slots : Live(i) => process_list'[i] = process_list[i]
<1>1. next_pid \in Nat \ {0}
  BY DEF TablesInv
<1>2. CASE process_list' = process_list
  BY <1>2 DEF SlotsOrderly, Live
<1>3. ASSUME NEW i \in Slots, ~Live(i),
             \A j \in Slots \ {i} : process_list'[j] = process_list[j],
             \/ process_list'[i] = FreePCB
             \/ /\ process_list'[i].pid = next_pid
                /\ process_list'[i].state = "NEW"
                /\ process_list'[i].dir \in Directories
                /\ process_list'[i].eip = process_list[i].eip
      PROVE  /\ SlotsOrderly'
             /\ \A j \in Slots : Live(j) => process_list'[j] = process_list[j]
  <2>1. FreePCB.pid = 0 /\ FreePCB.eip = 0 /\ FreePCB.state = "TERMINATED"
    BY DEF FreePCB
  <2>2. Garbage \notin Directories
    BY DEF Garbage, Directories
  <2> QED
    BY <1>1, <1>3, <2>1, <2>2 DEF SlotsOrderly, Live
<1> QED
  BY <1>2, <1>3, CreateList

\* Destruction wipes the victim's slot and touches no other.
LEMMA DestroyOrderly ==
  ASSUME TablesInv, SlotsOrderly, NEW pid, NEW found, process_destroy(pid, found)
  PROVE  /\ SlotsOrderly'
         /\ \/ /\ Matching(pid) = {} /\ found = FALSE
               /\ UNCHANGED <<paging, process_list>>
            \/ \E i \in Matching(pid) :
                 /\ found = TRUE /\ DestroySlot(i)
                 /\ process_list'[i] = FreePCB
                 /\ \A j \in Slots \ {i} : process_list'[j] = process_list[j]
<1>1. CASE Matching(pid) = {}
  BY <1>1 DEF process_destroy, SlotsOrderly, Live
<1>2. CASE Matching(pid) # {}
  <2> DEFINE i == Least(Matching(pid))
  <2>1. i \in Matching(pid)
    <3>1. Matching(pid) \in SUBSET Nat
      BY DEF Matching, Slots
    <3> QED
      BY <1>2, <3>1, LeastInSet
  <2>2. (found = TRUE /\ DestroySlot(i)) \/ (found = FALSE /\ DestroyLostSlot(i))
    BY <1>2 DEF process_destroy
  <2> HIDE DEF i
  <2>3. i \in Slots /\ Live(i) /\ process_list[i].dir # Garbage
    BY <2>1 DEF Matching, SlotsOrderly
  <2>4. found = TRUE /\ DestroySlot(i)
    BY <2>2, <2>3 DEF DestroyLostSlot
  <2>5. process_list'[i] = FreePCB /\ \A j \in Slots \ {i} : process_list'[j] = process_list[j]
    BY <2>3, <2>4 DEF DestroySlot, TablesInv
  <2>6. SlotsOrderly'
    BY <2>3, <2>5 DEF SlotsOrderly, Live, FreePCB
  <2> QED
    BY <2>1, <2>4, <2>5, <2>6
<1> QED
  BY <1>1, <1>2

\* A switch from an orderly list dispatches a process to its own code, with its own
\* directory, unless there is none to dispatch.
LEMMA SwitchOrderly ==
  ASSUME TablesInv, CPUInv, SlotsOrderly, NEW saved, Saves(saved),
         \A j \in Slots : /\ saved[j].dir = process_list[j].dir
                          /\ Live(j) => saved[j].eip \in {0, process_list[j].pid}
                          /\ ~Live(j) => saved[j].eip = 0,
         current_process_list_id # -1 => Live(current_process_list_id),
         scheduler_switch_to_next_process(saved) \/ SwitchOutsideList(saved)
  PROVE  /\ OrderlyInv'
         /\ \A j \in Slots : (Live(j)' <=> Live(j)) /\ process_list'[j].dir = process_list[j].dir
<1> DEFINE list == Yielded(saved)
<1>1. list \in [Slots -> PCBType]
  BY YieldedList
<1>2. \A j \in Slots : /\ list[j].pid = process_list[j].pid
                       /\ list[j].dir = process_list[j].dir
                       /\ list[j].eip = saved[j].eip
                       /\ list[j].state = "TERMINATED" <=> ~Live(j)
  <2>1. CASE current_process_list_id = -1
    BY <2>1 DEF Yielded, Saves, Live
  <2>2. CASE current_process_list_id \in Slots
    <3> DEFINE c == current_process_list_id
    <3>1. list = [saved EXCEPT ![c].state = "READY"]
      BY <2>2 DEF Yielded, Slots
    <3>2. \A j \in Slots : /\ list[j].pid = saved[j].pid
                           /\ list[j].dir = saved[j].dir
                           /\ list[j].eip = saved[j].eip
                           /\ list[j].state = IF j = c THEN "READY" ELSE saved[j].state
      BY <3>1 DEF Saves, PCBType
    <3>3. Live(c)
      BY <2>2 DEF Slots
    <3> HIDE DEF list
    <3> QED
      BY <3>2, <3>3 DEF Saves, Live
  <2> QED
    BY <2>1, <2>2 DEF CPUInv
<1>3. \A j \in Slots : /\ Live(j) => list[j].pid # 0 /\ list[j].dir # Garbage
                                       /\ list[j].eip \in {0, list[j].pid}
                       /\ ~Live(j) => list[j].pid = 0 /\ list[j].eip = 0
  BY <1>2 DEF SlotsOrderly
<1>4. CASE process_list' = list /\ mode' \in {"hung", "crashed"}
  <2>1. \A j \in Slots : Live(j)' <=> Live(j)
    BY <1>2, <1>4 DEF Live
  <2>2. SlotsOrderly'
    BY <1>3, <1>4, <2>1 DEF SlotsOrderly
  <2>3. CPUOrderly'
    BY <1>4 DEF CPUOrderly
  <2> QED
    BY <1>2, <1>4, <2>1, <2>2, <2>3 DEF OrderlyInv
<1>5. CASE scheduler_switch_to_next_process(saved) /\ Candidates(list) # {}
  <2> DEFINE target == Nearest(Candidates(list))
  <2>1. /\ process_list' = Switched(list, target)
        /\ current_process_list_id' = target
        /\ process_context_switch(list, target)
    BY <1>5 DEF scheduler_switch_to_next_process
  <2>2. target \in Slots /\ list[target].state \in {"READY", "NEW"}
    <3>1. Candidates(list) \in SUBSET Slots
      BY DEF Candidates, InState
    <3>2. FirstSlot \in Int
      BY DEF FirstSlot, CPUInv, Slots
    <3>3. target \in Candidates(list)
      <4> HIDE DEF list
      <4> QED
        BY <1>5, <3>1, <3>2, NearestInSet
    <3> HIDE DEF list, target
    <3> QED
      BY <3>3 DEF Candidates, InState
  <2> HIDE DEF target, list
  <2>3. \A j \in Slots : /\ process_list'[j].pid = list[j].pid
                         /\ process_list'[j].dir = list[j].dir
                         /\ process_list'[j].eip = list[j].eip
                         /\ process_list'[j].state = "TERMINATED" <=> list[j].state = "TERMINATED"
    BY <1>1, <2>1, <2>2 DEF Switched, PCBType, States
  <2>4. process_list'[target].state = "RUNNING"
    BY <1>1, <2>1, <2>2 DEF Switched, PCBType
  <2>5. \A j \in Slots : Live(j)' <=> Live(j)
    BY <1>2, <2>3 DEF Live
  <2>6. SlotsOrderly'
    BY <1>3, <2>3, <2>5 DEF SlotsOrderly
  <2>7. CPUOrderly'
    <3>1. Live(target)
      BY <2>2, <1>2
    <3>2. list[target].dir # Garbage /\ list[target].eip \in {0, list[target].pid}
      BY <1>3, <2>2, <3>1
    <3>3. mode' = "user" /\ cpu'.of = list[target].pid
      BY <2>1, <3>2 DEF process_context_switch
    <3> QED
      BY <2>1, <2>2, <2>3, <2>4, <3>3 DEF CPUOrderly, Running
  <2> QED
    BY <1>2, <2>3, <2>5, <2>6, <2>7 DEF OrderlyInv
<1> QED
  BY <1>4, <1>5 DEF scheduler_switch_to_next_process, SwitchOutsideList

\* The timer in an orderly workload: it preempts the process that runs, or nobody.
LEMMA TimerOrderly ==
  ASSUME TablesInv, CPUInv, OrderlyInv, timer_isr
  PROVE  /\ OrderlyInv'
         /\ \A j \in Slots : (Live(j)' <=> Live(j)) /\ process_list'[j].dir = process_list[j].dir
<1> USE DEF OrderlyInv
<1>1. CASE Tick
  BY <1>1 DEF Tick, processVars, SlotsOrderly, CPUOrderly, Live, Running
<1>2. CASE PreemptWithoutRunning
  <2>1. mode = "user" \/ (active_process_count \in Int /\ active_process_count <= 1)
    BY <1>2 DEF PreemptWithoutRunning, CPUOrderly, TablesInv
  <2>2. active_process_count > 1 /\ Running = {}
    BY <1>2 DEF PreemptWithoutRunning, Preempts
  <2>3. mode # "user"
    BY <2>2 DEF CPUOrderly
  <2> QED
    BY <2>1, <2>2, <2>3
<1>3. CASE Preempt
  <2> DEFINE r   == Least(Running)
             ctx == SavedContext(process_list[r])
  <2>1. r \in Running
    <3>1. Running \in SUBSET Nat /\ Running # {}
      BY <1>3 DEF Running, Slots, Preempt
    <3> QED
      BY <3>1, LeastInSet
  <2>2. r = current_process_list_id /\ r \in Slots /\ Live(r)
    BY <2>1 DEF TablesInv, RunningIsCurrent, Running, Live
  <2>3. cpu.of = process_list[r].pid
    <3>1. current_process_list_id # -1
      BY <2>2 DEF Slots
    <3>2. mode = "user"
      BY <1>3, <3>1 DEF Preempt, CPUOrderly
    <3> QED
      BY <2>2, <3>2 DEF CPUOrderly
  <2> HIDE DEF r
  <2>4. ctx \in PCBType /\ ctx.dir = process_list[r].dir /\ ctx.eip = process_list[r].pid
    BY <2>2, <2>3 DEF SavedContext, TablesInv, CPUInv, PCBType
  <2> HIDE DEF ctx
  <2>5. Saves(Saved(ctx))
    BY <2>2, <2>4, SavedSaves
  <2>6. \A j \in Slots : /\ Saved(ctx)[j].dir = process_list[j].dir
                         /\ Live(j) => Saved(ctx)[j].eip \in {0, process_list[j].pid}
                         /\ ~Live(j) => Saved(ctx)[j].eip = 0
    <3>1. \A j \in Slots : /\ Saved(ctx)[j].dir = process_list[j].dir
                           /\ Saved(ctx)[j].eip = IF j = r THEN process_list[r].pid
                                                  ELSE process_list[j].eip
      BY <2>2, <2>4 DEF Saved, TablesInv, PCBType
    <3> QED
      BY <2>2, <3>1 DEF SlotsOrderly
  <2>7. scheduler_switch_to_next_process(Saved(ctx)) \/ SwitchOutsideList(Saved(ctx))
    BY <1>3 DEF Preempt, ctx, r
  <2> QED
    BY <2>2, <2>5, <2>6, <2>7, SwitchOrderly
<1> QED
  BY <1>1, <1>2, <1>3 DEF timer_isr

-----------------------------------------------------------------------------
(* Every orderly step keeps the slots and the CPU orderly. *)

\* The process that runs and its slot are untouched, and so is the CPU.
LEMMA CPUStays ==
  ASSUME CPUOrderly, mode = "user", process_list'[current_process_list_id] = process_list[current_process_list_id],
         current_process_list_id' = current_process_list_id, cpu'.of = cpu.of,
         mode' \in {"user", "crashed"}
  PROVE  CPUOrderly'
BY DEF CPUOrderly, Running

\* A destruction that hits anybody but the running process leaves it on the CPU.
LEMMA VictimsOrderly ==
  ASSUME TablesInv, OrderlyInv, mode = "user",
         NEW pid, pid \notin {process_list[i].pid : i \in Running},
         NEW found, process_destroy(pid, found),
         UNCHANGED <<mode, cpu, current_process_list_id>>
  PROVE  OrderlyInv'
<1> DEFINE c == current_process_list_id
<1>1. c \in Running /\ c \in Slots
  BY DEF OrderlyInv, CPUOrderly, Running
<1>2. c \notin Matching(pid)
  BY <1>1 DEF Matching
<1>3. SlotsOrderly' /\ process_list'[c] = process_list[c]
  BY <1>1, <1>2, DestroyOrderly DEF OrderlyInv
<1>4. CPUOrderly'
  BY <1>3, CPUStays DEF OrderlyInv
<1> QED
  BY <1>3, <1>4 DEF OrderlyInv

\* The creation of the init process leaves at most one process counted.
LEMMA InitProcessOrderly ==
  ASSUME TablesInv, OrderlyInv, NEW readable \in BOOLEAN, CreateInitProcess(readable)
  PROVE  OrderlyInv'
<1> DEFINE rq == InitRequest(readable)
<1>1. rq.needed \in Nat \ {0}
  BY DEF InitRequest
<1>2. PICK ret \in 0 .. 4, alive \in BOOLEAN :
        /\ process_create_user_process(rq, ret, alive)
        /\ mode' = IF alive THEN "init" ELSE "crashed"
  BY DEF CreateInitProcess
<1> HIDE DEF rq
<1>3. SlotsOrderly'
  BY <1>1, <1>2, CreateOrderly DEF OrderlyInv
<1>4. mode = "setup" /\ current_process_list_id' = current_process_list_id
  BY DEF CreateInitProcess
<1>5. active_process_count = 0 /\ Inactive # {} /\ current_process_list_id = -1
  <2>1. 0 \in Slots
    BY ProcessAssumption DEF Slots
  <2> QED
    BY <1>4, <2>1 DEF OrderlyInv, CPUOrderly, Inactive
<1>6. active_process_count' \in {-1, 0, 1}
  BY <1>2, <1>5 DEF process_create_user_process, CreateRefused, CreateSucceeds, CreateReadFails,
                    CreateOutsideList, CreateWithoutDirectory
<1>7. CPUOrderly'
  BY <1>2, <1>4, <1>5, <1>6 DEF CPUOrderly
<1> QED
  BY <1>3, <1>7 DEF OrderlyInv

\* The scheduler starts from the list creation left, with nobody to preempt.
LEMMA StartOrderly ==
  ASSUME TablesInv, CPUInv, OrderlyInv, StartScheduler
  PROVE  /\ OrderlyInv'
         /\ \A j \in Slots : (Live(j)' <=> Live(j)) /\ process_list'[j].dir = process_list[j].dir
<1>1. current_process_list_id = -1
  BY DEF StartScheduler, OrderlyInv, CPUOrderly
<1>2. Saves(process_list)
  BY DEF Saves, TablesInv
<1>3. \A j \in Slots : /\ Live(j) => process_list[j].eip \in {0, process_list[j].pid}
                       /\ ~Live(j) => process_list[j].eip = 0
  BY DEF OrderlyInv, SlotsOrderly
<1>4. scheduler_switch_to_next_process(process_list)
  BY DEF StartScheduler
<1> QED
  BY <1>1, <1>2, <1>3, <1>4, SwitchOrderly DEF OrderlyInv

\* A creation asked for by the running process leaves it on the CPU.
LEMMA CreationOrderly ==
  ASSUME TablesInv, OrderlyInv, NEW rq \in Requests, SyscallCreate(rq)
  PROVE  OrderlyInv'
<1> DEFINE c == current_process_list_id
<1>1. rq.needed \in Nat \ {0}
  BY ProcessAssumption DEF Requests
<1>2. PICK ret \in 0 .. 4, alive \in BOOLEAN :
        /\ process_create_user_process(rq, ret, alive)
        /\ mode' = IF alive THEN "user" ELSE "crashed"
  BY DEF SyscallCreate
<1>3. mode = "user" /\ cpu' = cpu /\ current_process_list_id' = current_process_list_id
  BY DEF SyscallCreate, clockVars
<1>4. c \in Slots /\ Live(c)
  BY <1>3 DEF OrderlyInv, CPUOrderly, Running, Live
<1>5. SlotsOrderly' /\ process_list'[c] = process_list[c]
  BY <1>1, <1>2, <1>4, CreateOrderly DEF OrderlyInv
<1>6. CPUOrderly'
  BY <1>2, <1>3, <1>5, CPUStays DEF OrderlyInv
<1> QED
  BY <1>5, <1>6 DEF OrderlyInv

\* Every step of an orderly workload preserves the invariant.
LEMMA OrderlyStep == KernelInv /\ OrderlyInv /\ [OrderlyNext]_vars => OrderlyInv'
<1> SUFFICES ASSUME KernelInv, OrderlyInv, [OrderlyNext]_vars PROVE OrderlyInv'
  OBVIOUS
<1>0. TablesInv /\ CPUInv
  BY KernelInvParts
<1>1. ASSUME NEW readable \in BOOLEAN, CreateInitProcess(readable) PROVE OrderlyInv'
  BY <1>0, <1>1, InitProcessOrderly
<1>2. CASE StartScheduler
  BY <1>0, <1>2, StartOrderly
<1>3. ASSUME NEW pid \in (0 .. MaxPid) \ {process_list[i].pid : i \in Running}, SyscallDestroy(pid)
      PROVE  OrderlyInv'
  BY <1>0, <1>3, VictimsOrderly DEF SyscallDestroy, clockVars
<1>4. ASSUME NEW rq \in Requests, SyscallCreate(rq) PROVE OrderlyInv'
  BY <1>0, <1>4, CreationOrderly
<1>5. CASE current_process_list_id \notin {process_list[i].pid : i \in Running} /\ SyscallExit
  BY <1>0, <1>5, VictimsOrderly DEF SyscallExit, clockVars
<1>6. CASE UserSetsFlags
  <2>1. /\ cpu'.of = cpu.of
        /\ UNCHANGED <<process_list, active_process_count, mode, current_process_list_id>>
    BY <1>0, <1>6 DEF UserSetsFlags, clockVars, CPUInv
  <2> QED
    BY <2>1 DEF OrderlyInv, SlotsOrderly, CPUOrderly, Live, Running
<1>7. CASE timer_isr
  BY <1>0, <1>7, TimerOrderly
<1>8. CASE UNCHANGED vars
  BY <1>8 DEF vars, processVars, OrderlyInv, SlotsOrderly, CPUOrderly, Live, Running
<1> QED
  BY <1>1, <1>2, <1>3, <1>4, <1>5, <1>6, <1>7, <1>8 DEF OrderlyNext

\* The invariant of orderly workloads, for every value of the constants.
THEOREM OrderlyInvariant == OrderlySpec => [](KernelInv /\ OrderlyInv)
BY OrderlyKernelInv, KernelInit, OrderlyInit, OrderlyStep, PTL DEF OrderlySpec

-----------------------------------------------------------------------------
(* What follows from it. *)

\* While nobody destroys the running process, the CPU runs the code of the process
\* marked RUNNING and every saved context is that of the slot's own process: a
\* process that gets the slot of a dead one never inherits its registers.
THEOREM OrderlyContextsOwn == OrderlySpec => []ContextsOwn
<1>1. OrderlyInv => ContextsOwn
  BY DEF OrderlyInv, SlotsOrderly, CPUOrderly, ContextsOwn
<1> QED
  BY <1>1, OrderlyInvariant, PTL

\* ps shows no process that is not there, and all of those before the first free slot,
\* although it looks at the state of slot 0 only.
THEOREM OrderlyPsShowsTruth == OrderlySpec => []PsShowsTruth
<1>1. OrderlyInv => PsShowsTruth
  <2> SUFFICES ASSUME OrderlyInv PROVE PsShowsTruth
    OBVIOUS
  <2> DEFINE info == process_get_processes_info
             Shown(j) == \A k \in 0 .. j : info[k].pid # 0
  <2>1. 0 \in Slots /\ \A j \in Slots : 0 \in 0 .. j /\ j \in 0 .. j /\ 0 .. j \subseteq Slots
    BY ProcessAssumption DEF Slots
  <2>2. ps = {info[j] : j \in {j \in Slots : Shown(j)}}
    BY DEF ps
  <2>3. \A j \in Slots : info[j].pid = IF Live(0) THEN process_list[j].pid ELSE 0
    BY DEF process_get_processes_info
  <2> HIDE DEF info
  <2>4. ASSUME NEW shown \in ps PROVE shown.pid \in Pids
    <3>1. PICK j \in Slots : Shown(j) /\ shown = info[j]
      BY <2>2
    <3>2. info[j].pid # 0
      BY <2>1, <3>1
    <3>3. shown.pid = process_list[j].pid /\ process_list[j].pid # 0
      BY <2>3, <3>1, <3>2
    <3>4. Live(j)
      BY <3>3 DEF OrderlyInv, SlotsOrderly
    <3> QED
      BY <3>3, <3>4 DEF Pids, Named
  <2>5. ASSUME NEW i \in Slots, \A k \in 0 .. i : Live(k)
        PROVE  \E shown \in ps : shown.pid = process_list[i].pid
    <3>1. Live(0)
      BY <2>1, <2>5
    <3>2. \A k \in 0 .. i : info[k].pid # 0
      BY <2>1, <2>3, <2>5, <3>1 DEF OrderlyInv, SlotsOrderly
    <3>3. info[i] \in ps /\ info[i].pid = process_list[i].pid
      BY <2>2, <2>3, <3>1, <3>2
    <3> QED
      BY <3>3
  <2> QED
    BY <2>4, <2>5 DEF PsShowsTruth
<1> QED
  BY <1>1, OrderlyInvariant, PTL

-----------------------------------------------------------------------------
(* kill tells the truth. *)

\* The pid a process was killed by is gone from the table, and no other pid is.
LEMMA KillRemoves ==
  ASSUME KernelInv, OrderlyInv, NEW pid \in 0 .. MaxPid, SyscallDestroy(pid)
  PROVE  /\ kill' = 0 <=> pid \in Pids
         /\ Pids' = Pids \ {pid}
<1>1. TablesInv /\ SlotsOrderly
  BY KernelInvParts DEF OrderlyInv
<1>2. PICK found \in BOOLEAN :
        /\ process_destroy(pid, found)
        /\ reply'.edx = IF found THEN 1 ELSE 0
  BY DEF SyscallDestroy
<1>3. kill' = IF found THEN 0 ELSE 1
  BY <1>2 DEF kill
<1>4. \A p : p \in Pids <=> \E i \in Slots : Live(i) /\ process_list[i].pid = p
  BY <1>1 DEF Pids, Named, SlotsOrderly
<1>5. \A p : p \in Pids' <=> \E i \in Slots : Live(i)' /\ process_list'[i].pid = p
  <2>1. SlotsOrderly'
    BY <1>1, <1>2, DestroyOrderly
  <2> QED
    BY <2>1 DEF Pids, Named, SlotsOrderly
<1>6. pid \in Pids <=> Matching(pid) # {}
  BY <1>4 DEF Matching
<1>7. CASE Matching(pid) = {}
  <2>1. found = FALSE /\ process_list' = process_list
    BY <1>2, <1>7 DEF process_destroy
  <2>2. Pids' = Pids
    BY <2>1, <1>4, <1>5 DEF Live
  <2> QED
    BY <1>3, <1>6, <1>7, <2>1, <2>2
<1>8. CASE Matching(pid) # {}
  <2>1. PICK i \in Matching(pid) : /\ found = TRUE
                                   /\ process_list'[i] = FreePCB
                                   /\ \A j \in Slots \ {i} : process_list'[j] = process_list[j]
    BY <1>1, <1>2, <1>8, DestroyOrderly
  <2>2. i \in Slots /\ Live(i) /\ process_list[i].pid = pid
    BY DEF Matching
  <2>3. process_list[i].pid # 0 /\ \A j \in Slots \ {i} : process_list[j].pid # pid
    BY <1>1, <2>2 DEF SlotsOrderly, TablesInv, DistinctPids
  <2>4. \A j \in Slots : Live(j)' <=> Live(j) /\ j # i
    BY <2>1 DEF Live, FreePCB
  <2>5. \A p : p \in Pids' <=> p \in Pids /\ p # pid
    BY <1>4, <1>5, <2>1, <2>2, <2>3, <2>4
  <2> QED
    BY <1>3, <1>6, <1>8, <2>1, <2>5
<1> QED
  BY <1>7, <1>8

\* What kill prints of its victim is what happened to it, in every orderly workload:
\* exactly the process of that pid is gone, or there was none.
THEOREM OrderlyKillTellsTruth == OrderlySpec => KillTellsTruth
<1>1. KernelInv /\ OrderlyInv =>
        [\A pid \in 0 .. MaxPid :
           SyscallDestroy(pid) => /\ kill' = 0 <=> pid \in Pids
                                  /\ Pids' = Pids \ {pid}]_vars
  BY KillRemoves
<1> QED
  BY <1>1, OrderlyInvariant, PTL DEF KillTellsTruth

-----------------------------------------------------------------------------
(* Directories come back. *)

\* The directories that live processes have.
Held == {process_list[i].dir : i \in {j \in Slots : Live(j)}}

\* Leaked are those marked used and not held.
LEMMA LeakedAreNotHeld ==
  /\ LeakedDirectories = {d \in Directories : paging.page_directory_used[d]} \ Held
  /\ LeakedDirectories' = {d \in Directories : paging'.page_directory_used[d]} \ Held'
BY DEF LeakedDirectories, Held

\* Steps that leave the marks and the live slots' directories alone leak nothing.
LEMMA NothingLeaks ==
  ASSUME paging' = paging,
         \A j \in Slots : (Live(j)' <=> Live(j)) /\ process_list'[j].dir = process_list[j].dir
  PROVE  LeakedDirectories' = LeakedDirectories
<1>1. Held' = Held
  BY DEF Held
<1> QED
  BY <1>1, LeakedAreNotHeld

\* Creation leaks a directory only when no slot is left for the process.
LEMMA CreateLeaks ==
  ASSUME TablesInv, Inactive # {}, NEW rq, rq.needed \in Nat \ {0}, NEW ret, NEW alive,
         process_create_user_process(rq, ret, alive)
  PROVE  LeakedDirectories' = LeakedDirectories
<1> DEFINE d  == Least(UnusedDirectories(paging))
           i  == Least(Inactive)
           pg == AddressSpace(d, rq.needed)
           fr == paging_free_user_page_frames(pg, EntryZero(pg, d), rq.needed)
<1>1. paging \in PagingType /\ process_list \in [Slots -> PCBType]
  BY DEF TablesInv
<1>2. CASE CreateRefused(rq, ret, alive) \/ CreateWithoutDirectory(rq, ret, alive)
  <2>1. paging' = paging /\ process_list' = process_list
    BY <1>2 DEF CreateRefused, CreateWithoutDirectory
  <2> QED
    BY <2>1, NothingLeaks DEF Live
<1>3. CASE CreateSucceeds(rq, ret, alive)
  <2>1. /\ i \in Slots /\ ~Live(i) /\ d \in Directories /\ ~paging.page_directory_used[d]
        /\ paging' = pg
        /\ process_list' = [process_list EXCEPT ![i] = NewPCB(i, d, rq.needed)]
    BY <1>3, CreationPicks DEF CreateSucceeds
  <2>2. /\ pg.page_directory_used[d]
        /\ \A e \in Directories \ {d} : pg.page_directory_used[e] = paging.page_directory_used[e]
    BY <1>1, <2>1, AddressSpaceEffect
  <2> HIDE DEF i, d, pg
  <2>3. /\ process_list'[i].state # "TERMINATED" /\ process_list'[i].dir = d
        /\ \A j \in Slots \ {i} : (Live(j)' <=> Live(j)) /\ process_list'[j].dir = process_list[j].dir
    BY <1>1, <2>1 DEF NewPCB, PCBType, Live
  <2>4. Held' = Held \cup {d}
    BY <2>1, <2>3 DEF Held, Live
  <2> QED
    BY <2>1, <2>2, <2>4, LeakedAreNotHeld
<1>4. CASE CreateReadFails(rq, ret, alive)
  <2>1. /\ i \in Slots /\ ~Live(i) /\ d \in Directories /\ ~paging.page_directory_used[d]
        /\ paging' = paging_free_page_directory(fr, d)
        /\ process_list' = [process_list EXCEPT ![i] = FreePCB]
    BY <1>4, CreationPicks DEF CreateReadFails
  <2>2. /\ pg \in PagingType
        /\ \A e \in Directories \ {d} : pg.page_directory_used[e] = paging.page_directory_used[e]
    BY <1>1, <2>1, AddressSpaceEffect
  <2>3. fr \in PagingType /\ fr.page_directory_used = pg.page_directory_used
    BY <2>2, FreeFramesType, FreeFramesEffect, EntryZeroType
  <2>4. /\ ~paging'.page_directory_used[d]
        /\ \A e \in Directories \ {d} : paging'.page_directory_used[e] = fr.page_directory_used[e]
    <3> HIDE DEF fr, d
    <3> QED
      BY <2>1, <2>3 DEF paging_free_page_directory, PagingType
  <2>5. \A e \in Directories : paging'.page_directory_used[e] <=> paging.page_directory_used[e]
    <3> HIDE DEF fr, pg, d
    <3> QED
      BY <2>1, <2>2, <2>3, <2>4
  <2> HIDE DEF i, d, fr, pg
  <2>6. \A j \in Slots : (Live(j)' <=> Live(j)) /\ (Live(j) => process_list'[j].dir = process_list[j].dir)
    BY <1>1, <2>1 DEF FreePCB, Live
  <2>7. Held' = Held
    BY <2>6 DEF Held
  <2> QED
    BY <2>5, <2>7, LeakedAreNotHeld
<1> QED
  BY <1>2, <1>3, <1>4 DEF process_create_user_process, CreateOutsideList

\* Destruction gives the victim's directory back and nobody else's.
LEMMA DestroyLeaks ==
  ASSUME TablesInv, SlotsOrderly, NEW pid, NEW found, process_destroy(pid, found)
  PROVE  LeakedDirectories' = LeakedDirectories
<1>1. CASE UNCHANGED <<paging, process_list>>
  BY <1>1, NothingLeaks DEF Live
<1>2. ASSUME NEW i \in Matching(pid), DestroySlot(i), process_list'[i] = FreePCB,
             \A j \in Slots \ {i} : process_list'[j] = process_list[j]
      PROVE  LeakedDirectories' = LeakedDirectories
  <2> DEFINE d  == process_list[i].dir
             fr == paging_free_user_page_frames(paging, EntryZero(paging, d), process_list[i].frames)
  <2>1. i \in Slots /\ Live(i) /\ d \in Directories /\ paging' = paging_free_page_directory(fr, d)
    BY <1>2 DEF Matching, DestroySlot
  <2>2. process_list[i].frames \in Nat
    BY <2>1 DEF TablesInv, PCBType
  <2>3. fr \in PagingType /\ fr.page_directory_used = paging.page_directory_used
    BY <2>2, FreeFramesType, FreeFramesEffect, EntryZeroType DEF TablesInv
  <2> HIDE DEF fr
  <2>4. /\ ~paging'.page_directory_used[d]
        /\ \A e \in Directories \ {d} : paging'.page_directory_used[e] = paging.page_directory_used[e]
    BY <2>1, <2>3 DEF paging_free_page_directory, PagingType
  <2>5. \A j \in Slots \ {i} : Live(j) => process_list[j].dir # d
    BY <2>1 DEF TablesInv, OwnDirectory, Directories, Garbage
  <2>6. \A j \in Slots : Live(j)' <=> Live(j) /\ j # i
    BY <1>2 DEF Live, FreePCB
  <2> HIDE DEF d
  <2>7. Held' = Held \ {d} /\ d \in Held
    BY <1>2, <2>1, <2>5, <2>6 DEF Held, d
  <2> QED
    BY <2>1, <2>4, <2>7, LeakedAreNotHeld
<1> QED
  BY <1>1, <1>2, DestroyOrderly

\* In an orderly workload only a creation that finds no slot loses a page directory.
LEMMA DirectoriesStep ==
  ASSUME KernelInv, OrderlyInv, [OrderlyNext]_vars, Inactive # {}
  PROVE  LeakedDirectories' = LeakedDirectories
<1>0. TablesInv /\ CPUInv /\ SlotsOrderly
  BY KernelInvParts DEF OrderlyInv
<1>1. ASSUME NEW readable \in BOOLEAN, CreateInitProcess(readable)
      PROVE  LeakedDirectories' = LeakedDirectories
  <2>1. InitRequest(readable).needed \in Nat \ {0}
    BY DEF InitRequest
  <2> QED
    BY <1>0, <1>1, <2>1, CreateLeaks DEF CreateInitProcess
<1>2. CASE StartScheduler
  BY <1>0, <1>2, StartOrderly, NothingLeaks DEF StartScheduler
<1>3. ASSUME NEW pid \in 0 .. MaxPid, SyscallDestroy(pid)
      PROVE  LeakedDirectories' = LeakedDirectories
  BY <1>0, <1>3, DestroyLeaks DEF SyscallDestroy
<1>4. ASSUME NEW rq \in Requests, SyscallCreate(rq)
      PROVE  LeakedDirectories' = LeakedDirectories
  <2>1. rq.needed \in Nat \ {0}
    BY ProcessAssumption DEF Requests
  <2> QED
    BY <1>0, <1>4, <2>1, CreateLeaks DEF SyscallCreate
<1>5. CASE SyscallExit
  BY <1>0, <1>5, DestroyLeaks DEF SyscallExit
<1>6. CASE UserSetsFlags
  BY <1>6, NothingLeaks DEF UserSetsFlags, Live
<1>7. CASE timer_isr
  <2>1. paging' = paging
    BY <1>7 DEF timer_isr, Tick, Preempt, PreemptWithoutRunning, processVars
  <2> QED
    BY <1>0, <1>7, <2>1, TimerOrderly, NothingLeaks
<1>8. CASE UNCHANGED vars
  BY <1>8, NothingLeaks DEF vars, processVars, Live
<1> QED
  BY <1>1, <1>2, <1>3, <1>4, <1>5, <1>6, <1>7, <1>8 DEF OrderlyNext

\* Destroying a process and undoing a creation that failed give back the directory
\* that creation took: the set of directories marked used that nobody has changes
\* only when a process is created with no slot left for it.
THEOREM OrderlyDirectoriesReleased == OrderlySpec => DirectoriesReleased
<1>1. KernelInv /\ OrderlyInv /\ [OrderlyNext]_vars
        => [LeakedDirectories' # LeakedDirectories => Inactive = {}]_vars
  BY DirectoriesStep
<1> QED
  BY <1>1, OrderlyInvariant, PTL DEF OrderlySpec, DirectoriesReleased
=============================================================================
