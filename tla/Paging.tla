------------------------------- MODULE Paging -------------------------------
(***************************************************************************)
(* The page manager of paging.c: the physical frame map with its free      *)
(* counter, and the pool of page directories.  The state is one record     *)
(* `paging' that the process manager owns; each operator below is one      *)
(* function of paging.c applied to such a record.                          *)
(*                                                                         *)
(* A directory is reduced to what the kernel writes in it: whether the     *)
(* kernel's entries (0x300, 0x301, 0x3F4-0x3F6) are present, and which     *)
(* frame each user page maps.  User pages are numbered 0, 1, ... from the  *)
(* entry point (request.buf is 0 for every program) and the last one,      *)
(* StackPage, stands for 0xBFF00000.                                       *)
(***************************************************************************)
EXTENDS Integers, FiniteSets

CONSTANTS PAGE_FRAME_MAX_COUNT,             \* 32 in the build
          PAGING_DIRECTORY_TABLE_MAX_COUNT, \* 32
          PROCESS_PAGE_FRAME_COUNT_MAX,     \* 8
          PAGE_FRAME_SIZE                   \* 2^22

ASSUME PagingAssumption ==
  /\ PAGE_FRAME_MAX_COUNT \in Nat /\ PAGE_FRAME_MAX_COUNT >= 2
  /\ PAGING_DIRECTORY_TABLE_MAX_COUNT \in Nat \ {0}
  /\ PROCESS_PAGE_FRAME_COUNT_MAX \in Nat /\ PROCESS_PAGE_FRAME_COUNT_MAX >= 2
  /\ PAGE_FRAME_SIZE \in Nat /\ PAGE_FRAME_SIZE > PAGE_FRAME_MAX_COUNT

Frames      == 0 .. PAGE_FRAME_MAX_COUNT - 1
Directories == 0 .. PAGING_DIRECTORY_TABLE_MAX_COUNT - 1
UserPages   == 0 .. PROCESS_PAGE_FRAME_COUNT_MAX - 1
StackPage   == PROCESS_PAGE_FRAME_COUNT_MAX - 1

\* A user page whose present bit is 0.
Unmapped == -1

\* The frame number the allocation loop ends with when it finds nothing: the
\* first one past the machine's memory.
BeyondMemory == PAGE_FRAME_MAX_COUNT

PagingType ==
  [page_frame_map        : [Frames -> BOOLEAN],
   free_page_frame_count : Int,
   page_directory_used   : [Directories -> BOOLEAN],
   kernel_present        : [Directories -> BOOLEAN],
   user                  : [Directories -> [UserPages -> Frames \cup {Unmapped, BeyondMemory}]]]

page_manager_state_init ==
  [page_frame_map        |-> [f \in Frames |-> f = 0],
   free_page_frame_count |-> PAGE_FRAME_MAX_COUNT - 1,
   page_directory_used   |-> [d \in Directories |-> FALSE],
   kernel_present        |-> [d \in Directories |-> FALSE],
   user                  |-> [d \in Directories |-> [p \in UserPages |-> Unmapped]]]

-----------------------------------------------------------------------------
paging_allocate_check(pg, amount) == pg.free_page_frame_count >= amount

FreeFrames(map) == {f \in Frames : ~map[f]}

\* The frame that call number k (from 0) of a run of allocations finds: each
\* call takes the lowest free frame, so the k-th finds the one with k free
\* frames below it, and runs off the end of the map when there is none.
NthFreeFrame(map, k) ==
  LET fits == {f \in FreeFrames(map) : Cardinality({g \in FreeFrames(map) : g < f}) = k}
  IN  IF fits = {} THEN BeyondMemory ELSE CHOOSE f \in fits : TRUE

\* Seeded fault: the frame found is mapped but not marked in page_frame_map.
paging_allocate_unmarked(pg, d, n) ==
  [pg EXCEPT !.free_page_frame_count = @ - n,
             !.user[d] = [p \in UserPages |->
                            IF p < n - 1 THEN NthFreeFrame(pg.page_frame_map, p)
                            ELSE IF p = StackPage THEN NthFreeFrame(pg.page_frame_map, n - 1)
                            ELSE pg.user[d][p]]]

\* n calls of paging_allocate_user_page_frame on directory d: n - 1 pages from
\* the entry point, then the stack page.  A call that finds no free frame
\* still maps the page, to BeyondMemory, and leaves the counter alone.
paging_allocate_user_page_frames(pg, d, n) ==
  LET found == {k \in 0 .. n - 1 : NthFreeFrame(pg.page_frame_map, k) # BeyondMemory}
      taken == {NthFreeFrame(pg.page_frame_map, k) : k \in found}
  IN  [pg EXCEPT
         !.page_frame_map = [f \in Frames |-> pg.page_frame_map[f] \/ f \in taken],
         !.free_page_frame_count = @ - Cardinality(found),
         !.user[d] = [p \in UserPages |->
                        IF p < n - 1 THEN NthFreeFrame(pg.page_frame_map, p)
                        ELSE IF p = StackPage THEN NthFreeFrame(pg.page_frame_map, n - 1)
                        ELSE pg.user[d][p]]]

\* The index paging_free_user_page_frame clears for the frame number (the
\* entry's 10-bit lower_address) it finds in the directory.
physical_index(lower_address) == lower_address \div PAGE_FRAME_SIZE

\* n calls of paging_free_user_page_frame(dir, 0): process_destroy passes
\* virtual_addr_used[j], which nothing ever writes.  `entry' is the frame number
\* in the entry of page 0; the entry itself is not cleared.
paging_free_user_page_frames(pg, entry, n) ==
  [pg EXCEPT !.page_frame_map =
               [f \in Frames |-> pg.page_frame_map[f] /\ ~(n > 0 /\ f = physical_index(entry))],
             !.free_page_frame_count = @ + n]

\* Seeded fault: page_directory_used is not looked at.
AnyDirectory(pg) == Directories

UnusedDirectories(pg) == {d \in Directories : ~pg.page_directory_used[d]}

\* Seeded fault: page_directory_used is not set.
paging_create_unmarked(pg, d) ==
  [pg EXCEPT !.kernel_present[d] = TRUE,
             !.user[d] = [p \in UserPages |-> Unmapped]]

\* paging_create_new_page_directory for the directory d it finds first.
paging_create_new_page_directory(pg, d) ==
  [pg EXCEPT !.page_directory_used[d] = TRUE,
             !.kernel_present[d] = TRUE,
             !.user[d] = [p \in UserPages |-> Unmapped]]

\* Seeded fault: page_directory_used is not reset.
paging_free_still_used(pg, d) ==
  [pg EXCEPT !.kernel_present[d] = FALSE,
             !.user[d] = [p \in UserPages |-> Unmapped]]

\* Clears every present bit of the directory, the kernel's included.
paging_free_page_directory(pg, d) ==
  [pg EXCEPT !.page_directory_used[d] = FALSE,
             !.kernel_present[d] = FALSE,
             !.user[d] = [p \in UserPages |-> Unmapped]]
=============================================================================
