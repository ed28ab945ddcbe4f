-------------------------------- MODULE Exec --------------------------------
(***************************************************************************)
(* Address spaces: the page directories of userprog/pagedir.c, the loader  *)
(* of userprog/process.c that fills them from an executable, and the steps *)
(* of process_exit that give them back, for several processes on one CPU.  *)
(*                                                                         *)
(* Addresses are bytes; a page has PGSIZE of them and a page table PtSize  *)
(* entries.  Frame 0 is the null pointer.  Memory may run out at every     *)
(* allocation: a job chooses the sizes of the two pools.  A context switch *)
(* may come between any two steps.                                         *)
(***************************************************************************)
EXTENDS Integers, Sequences, FiniteSets, FiniteSetsExt, CLang

CONSTANTS Proc,       \* processes
          PGSIZE,     \* bytes of a page
          PtSize,     \* entries of a page table
          UserPages,  \* pages below PHYS_BASE, a multiple of PtSize
          Word,       \* 2^32, the modulus of addresses
          Jobs        \* records [image, kpool, upool]: an image per process and
                      \* the frames of the kernel and of the user pool

(* An image is [present, good, length, phdrs, args]: whether filesys_open  *)
(* finds it, whether its header passes the tests, the file's length, its   *)
(* program headers and the bytes its arguments take on the stack.  A       *)
(* program header is [type, offset, vaddr, filesz, memsz, writable].       *)

\* What the numbers of the machine and of an executable can be: the fields of a
\* program header have 32 bits, user memory ends within the address space, and
\* the arguments, which come from one page of command line, fit user memory.
Header == [type : {"load", "ignored", "refused"}, offset : 0..Word - 1, vaddr : 0..Word - 1,
           filesz : 0..Word - 1, memsz : 0..Word - 1, writable : BOOLEAN]
Executable == [present : BOOLEAN, good : BOOLEAN, length : Nat, phdrs : Seq(Header),
               args : 0..UserPages * PGSIZE]

ExecConstants ==
  /\ PGSIZE \in Nat \ {0} /\ PtSize \in Nat \ {0} /\ Word \in Nat
  /\ UserPages \in Nat \ {0} /\ UserPages % PtSize = 0 /\ UserPages * PGSIZE <= Word
  /\ \A j \in Jobs : /\ j.kpool \in Nat /\ j.upool \in Nat /\ DOMAIN j.image \subseteq Proc
                     /\ \A p \in DOMAIN j.image : j.image[p] \in Executable

VARIABLES job,
          kfree, ufree,  \* free frames of the pools of palloc.c
          pd,            \* pagedir of each process, a frame or NULL
          pds, pts,      \* directories and tables, by the frame they are in
          mem,           \* bytes of the user frames
          cur, active,   \* the running process; the directory in CR3
          th,            \* what each process is doing
          panic

vars == <<job, kfree, ufree, pd, pds, pts, mem, cur, active, th, panic>>

Base == -1                             \* init_page_dir
PHYS_BASE == UserPages * PGSIZE
Frames == 1..(job.kpool + job.upool)
Kernel == 1..job.kpool
User == Frames \ Kernel
NoEntry == [frame |-> NULL, writable |-> FALSE]

pg_no(a) == a \div PGSIZE
pg_ofs(a) == a % PGSIZE
pd_no(page) == page \div PtSize
pt_no(page) == page % PtSize
is_user_vaddr(a) == a < PHYS_BASE

\* palloc_get_page takes the first free page of the pool.
First(pool) == Min(pool)

Goto(p, pc) == th' = [th EXCEPT ![p].pc = pc]

-----------------------------------------------------------------------------
(* pagedir.c                                                               *)

\* pagedir_get_page, for a whole page.
pagedir_get_page(d, page) ==
  IF pds[d][pd_no(page)] = NULL THEN NULL ELSE pts[pds[d][pd_no(page)]][pt_no(page)].frame

\* install_page: the page must not be mapped.  pagedir_set_page makes the page
\* table it needs (lookup_page with CREATE), which may fail.
install_page(d, page, frame, writable) ==
  LET table == pds[d][pd_no(page)]
  IN  IF pagedir_get_page(d, page) # NULL \/ (table = NULL /\ kfree = {})
      THEN [ok |-> FALSE, kfree |-> kfree, pds |-> pds, pts |-> pts]
      ELSE LET pt == IF table = NULL THEN First(kfree) ELSE table
               old == IF table = NULL THEN [e \in 0..PtSize - 1 |-> NoEntry] ELSE pts[pt]
           IN  [ok    |-> TRUE,
                kfree |-> kfree \ {pt},
                pds   |-> [pds EXCEPT ![d][pd_no(page)] = pt],
                pts   |-> [pts EXCEPT ![pt] = [old EXCEPT ![pt_no(page)] =
                             [frame |-> frame, writable |-> writable]]]]

\* The page tables of directory d and the frames they map.
Tables(d) == {pds[d][i] : i \in 0..pd_no(UserPages) - 1} \ {NULL}
Mapped(d) == (UNION {{pts[t][i].frame : i \in 0..PtSize - 1} : t \in Tables(d)}) \ {NULL}

pagedir_destroy(d) ==
  /\ kfree' = kfree \cup {d} \cup Tables(d)
  /\ ufree' = ufree \cup Mapped(d)

-----------------------------------------------------------------------------
(* load and its helpers                                                    *)

\* load returns false, for want of memory or because of the file.
Fail(p, why) ==
  /\ th' = [th EXCEPT ![p].pc = "exit", ![p].why = why]
  /\ UNCHANGED <<kfree, ufree, pd, pds, pts, mem, active>>

\* palloc_get_page (PAL_USER): the page is zeroed, or holds what it last held
\* until it is filled.
palloc_get_page(p, then) ==
  IF ufree = {}
  THEN Fail(p, "memory")
  ELSE /\ ufree' = ufree \ {First(ufree)}
       /\ th' = [th EXCEPT ![p].pc = then, ![p].kpage = First(ufree)]
       /\ mem' = IF then = "install stack"
                 THEN [mem EXCEPT ![First(ufree)] = [i \in 0..PGSIZE - 1 |-> 0]]
                 ELSE mem
       /\ UNCHANGED <<kfree, pd, pds, pts, active>>

\* The page the process holds is mapped, or is to be given back.
Install(p, page, writable, then, seg) ==
  LET r == install_page(pd[p], page, th[p].kpage, writable)
      why == IF pagedir_get_page(pd[p], page) = NULL THEN "memory" ELSE "file"
  IN  /\ kfree' = r.kfree /\ pds' = r.pds /\ pts' = r.pts
      /\ th' = [th EXCEPT ![p] = IF r.ok
                                 THEN [@ EXCEPT !.pc = then, !.seg = seg, !.kpage = NULL]
                                 ELSE [@ EXCEPT !.pc = "give back", !.why = why]]
      /\ UNCHANGED <<job, ufree, pd, mem, cur, active, panic>>

\* The start of load: a page directory, activated at once.
pagedir_create(p) ==
  /\ cur = p /\ th[p].pc = "load" /\ UNCHANGED <<job, cur, panic>>
  /\ IF kfree = {}
     THEN Fail(p, "memory")
     ELSE LET d == First(kfree)
          IN  /\ kfree' = kfree \ {d}
              /\ pd' = [pd EXCEPT ![p] = d] /\ active' = d
              /\ pds' = [pds EXCEPT ![d] = [i \in 0..pd_no(UserPages) - 1 |-> NULL]]
              /\ Goto(p, "open")
              /\ UNCHANGED <<ufree, pts, mem>>

\* Opening the executable and checking its header.
OpenExecutable(p) ==
  /\ cur = p /\ th[p].pc = "open" /\ UNCHANGED <<job, cur, panic>>
  /\ IF job.image[p].present /\ job.image[p].good
     THEN Goto(p, "phdr") /\ UNCHANGED <<kfree, ufree, pd, pds, pts, mem, active>>
     ELSE Fail(p, "file")

validate_segment(h, length) ==
  LET end == (h.vaddr + h.memsz) % Word
  IN  /\ pg_ofs(h.offset) = pg_ofs(h.vaddr)
      /\ h.offset <= length
      /\ h.memsz >= h.filesz /\ h.memsz # 0
      /\ is_user_vaddr(h.vaddr) /\ is_user_vaddr(end)
      /\ end >= h.vaddr
      /\ h.vaddr >= PGSIZE

\* Mutant of SegmentOf: the page offset is left out of the bytes to read.
SegmentOfShort(h) ==
  LET end == ROUND_UP(pg_ofs(h.vaddr) + h.memsz, PGSIZE)
      read == h.filesz
  IN  [ofs |-> ROUND_DOWN(h.offset, PGSIZE), page |-> pg_no(h.vaddr), read |-> read,
       zero |-> end - read, writable |-> h.writable]

\* The arguments load computes for load_segment.
SegmentOf(h) ==
  LET end == ROUND_UP(pg_ofs(h.vaddr) + h.memsz, PGSIZE)
      read == IF h.filesz > 0 THEN pg_ofs(h.vaddr) + h.filesz ELSE 0
  IN  [ofs |-> ROUND_DOWN(h.offset, PGSIZE), page |-> pg_no(h.vaddr), read |-> read,
       zero |-> end - read, writable |-> h.writable]

\* The loop over the program headers.
NextHeader(p) ==
  /\ cur = p /\ th[p].pc = "phdr" /\ UNCHANGED <<job, cur, panic>>
  /\ LET im == job.image[p]
         n == th[p].n + 1
         h == im.phdrs[n]
     IN  IF n > Len(im.phdrs)
         THEN Goto(p, "stack") /\ UNCHANGED <<kfree, ufree, pd, pds, pts, mem, active>>
         ELSE IF h.type = "ignored"
         THEN /\ th' = [th EXCEPT ![p].n = n]
              /\ UNCHANGED <<kfree, ufree, pd, pds, pts, mem, active>>
         ELSE IF h.type = "load" /\ validate_segment(h, im.length)
         THEN /\ th' = [th EXCEPT ![p] = [@ EXCEPT !.n = n, !.pc = "segment", !.seg = SegmentOf(h)]]
              /\ UNCHANGED <<kfree, ufree, pd, pds, pts, mem, active>>
         ELSE Fail(p, "file")

\* The file's byte at an offset; every byte differs from 0.
FileByte(ofs) == ofs + 1

\* One page of load_segment: a user page is allocated, or the segment is done ...
load_segment(p) ==
  /\ cur = p /\ th[p].pc = "segment" /\ UNCHANGED <<job, cur, panic>>
  /\ IF th[p].seg.read = 0 /\ th[p].seg.zero = 0
     THEN Goto(p, "phdr") /\ UNCHANGED <<kfree, ufree, pd, pds, pts, mem, active>>
     ELSE palloc_get_page(p, "read")

page_read_bytes(s) == Min({s.read, PGSIZE})

\* ... filled from the file, whose length may be too short, and with zeros ...
load_segment_read(p) ==
  /\ cur = p /\ th[p].pc = "read"
  /\ LET s == th[p].seg
         n == page_read_bytes(s)
     IN  IF s.ofs + n > Max({s.ofs, job.image[p].length})
         THEN /\ th' = [th EXCEPT ![p].pc = "give back", ![p].why = "file"]
              /\ mem' = mem
         ELSE /\ mem' = [mem EXCEPT ![th[p].kpage] =
                          [i \in 0..PGSIZE - 1 |-> IF i < n THEN FileByte(s.ofs + i) ELSE 0]]
              /\ Goto(p, "install")
  /\ UNCHANGED <<job, kfree, ufree, pd, pds, pts, cur, active, panic>>

\* ... and mapped.
load_segment_install(p) ==
  /\ cur = p /\ th[p].pc = "install"
  /\ LET s == th[p].seg
         n == page_read_bytes(s)
     IN  Install(p, s.page, s.writable, "segment",
                 [s EXCEPT !.ofs = @ + n, !.page = @ + 1,
                           !.read = @ - n, !.zero = @ - (PGSIZE - n)])

\* setup_stack: a zeroed page is allocated and mapped below PHYS_BASE.
setup_stack(p) ==
  /\ cur = p /\ th[p].pc = "stack" /\ UNCHANGED <<job, cur, panic>>
  /\ palloc_get_page(p, "install stack")

setup_stack_install(p) ==
  /\ cur = p /\ th[p].pc = "install stack"
  /\ Install(p, UserPages - 1, TRUE, "args", th[p].seg)

\* Mutant of palloc_free_page: the page of a failed load is kept.
palloc_free_page_kept(p) ==
  /\ cur = p /\ th[p].pc = "give back"
  /\ th' = [th EXCEPT ![p].pc = "exit", ![p].kpage = NULL]
  /\ UNCHANGED <<job, kfree, ufree, pd, pds, pts, mem, cur, active, panic>>

\* The error paths of both give the page back before load fails.
palloc_free_page(p) ==
  /\ cur = p /\ th[p].pc = "give back"
  /\ ufree' = ufree \cup {th[p].kpage}
  /\ th' = [th EXCEPT ![p].pc = "exit", ![p].kpage = NULL]
  /\ UNCHANGED <<job, kfree, pd, pds, pts, mem, cur, active, panic>>

\* load_arguments_to_stack writes from PHYS_BASE down; its test for having gone
\* too far compares with the address of its own parameter, which lies in the
\* kernel, so it never fails.  Below the stack page the kernel faults, or
\* overwrites what is mapped there.
load_arguments(p) ==
  /\ cur = p /\ th[p].pc = "args" /\ UNCHANGED <<job, cur>>
  /\ LET pages == {pg_no(PHYS_BASE - i) : i \in 1..job.image[p].args}
     IN  /\ panic' = \E g \in pages : pagedir_get_page(pd[p], g) = NULL
         /\ mem' = [f \in DOMAIN mem |->
                      IF \E g \in pages \ {UserPages - 1} : pagedir_get_page(pd[p], g) = f
                      THEN [i \in 0..PGSIZE - 1 |-> -1] ELSE mem[f]]
  /\ Goto(p, "user")
  /\ UNCHANGED <<kfree, ufree, pd, pds, pts, active>>

-----------------------------------------------------------------------------
(* The process runs and ends                                               *)

\* A fault in user mode (page_fault, kill) or the exit system call.
kill(p) ==
  /\ cur = p /\ th[p].pc = "user"
  /\ Goto(p, "exit")
  /\ UNCHANGED <<job, kfree, ufree, pd, pds, pts, mem, cur, active, panic>>

\* Mutant of ForgetPagedir: the pointer stays until the directory is freed.
ForgetPagedirLate(p) ==
  /\ cur = p /\ th[p].pc = "exit"
  /\ th' = [th EXCEPT ![p].pc = IF pd[p] = NULL THEN "dead" ELSE "deactivate", ![p].old = pd[p]]
  /\ UNCHANGED <<job, kfree, ufree, pd, pds, pts, mem, cur, active, panic>>

\* process_exit: first the pointer is cleared, so that no context switch brings
\* the directory back ...
ForgetPagedir(p) ==
  /\ cur = p /\ th[p].pc = "exit"
  /\ th' = [th EXCEPT ![p].pc = IF pd[p] = NULL THEN "dead" ELSE "deactivate", ![p].old = pd[p]]
  /\ pd' = [pd EXCEPT ![p] = NULL]
  /\ UNCHANGED <<job, kfree, ufree, pds, pts, mem, cur, active, panic>>

\* ... then the kernel's own directory is activated ...
ActivateBase(p) ==
  /\ cur = p /\ th[p].pc = "deactivate"
  /\ active' = Base /\ Goto(p, "destroy")
  /\ UNCHANGED <<job, kfree, ufree, pd, pds, pts, mem, cur, panic>>

\* ... and then the process's is destroyed.
DestroyPagedir(p) ==
  /\ cur = p /\ th[p].pc = "destroy"
  /\ pagedir_destroy(th[p].old)
  /\ th' = [th EXCEPT ![p].pc = "dead", ![p].old = NULL]
  /\ UNCHANGED <<job, pd, pds, pts, mem, cur, active, panic>>

\* A context switch ends in process_activate of the next thread.
process_activate(p) ==
  /\ cur # p /\ th[p].pc # "dead"
  /\ cur' = p
  /\ active' = IF pd[p] = NULL THEN Base ELSE pd[p]
  /\ UNCHANGED <<job, kfree, ufree, pd, pds, pts, mem, th, panic>>

-----------------------------------------------------------------------------
NoSegment == [ofs |-> 0, page |-> 0, read |-> 0, zero |-> 0, writable |-> FALSE]

Init ==
  /\ job \in Jobs
  /\ kfree = Kernel /\ ufree = User
  /\ pd = [p \in Proc |-> NULL]
  /\ pds = [f \in Kernel |-> [i \in 0..pd_no(UserPages) - 1 |-> NULL]]
  /\ pts = [f \in Kernel |-> [e \in 0..PtSize - 1 |-> NoEntry]]
  /\ mem = [f \in User |-> [i \in 0..PGSIZE - 1 |-> 0]]
  /\ cur \in Proc /\ active = Base
  /\ th = [p \in Proc |-> [pc |-> IF p \in DOMAIN job.image THEN "load" ELSE "dead",
                           n |-> 0, seg |-> NoSegment, kpage |-> NULL, old |-> NULL, why |-> ""]]
  /\ th[cur].pc = "load"
  /\ panic = FALSE

Step(p) ==
  \/ pagedir_create(p) \/ OpenExecutable(p) \/ NextHeader(p) \/ load_segment(p)
  \/ load_segment_read(p) \/ load_segment_install(p) \/ setup_stack(p) \/ setup_stack_install(p)
  \/ palloc_free_page(p) \/ load_arguments(p) \/ kill(p)
  \/ ForgetPagedir(p) \/ ActivateBase(p) \/ DestroyPagedir(p)

Next == ~panic /\ \E p \in Proc : Step(p) \/ process_activate(p)

ExecSpec == Init /\ [][Next]_vars

-----------------------------------------------------------------------------
Dir(p) == IF pd[p] # NULL THEN pd[p] ELSE th[p].old
Live == {p \in Proc : Dir(p) # NULL}
Held(p) == {th[p].kpage} \ {NULL}
Owns(p) == {Dir(p)} \cup Tables(Dir(p)) \cup Mapped(Dir(p)) \cup Held(p)

\* No frame is lost and none has two uses, in the middle of a failed load as in
\* the middle of process_exit: every frame is free or belongs to one process,
\* as its directory, a page table, a mapped page or the page being filled, and
\* those are different frames.  When all processes are dead every frame is free again.
FramesAccounted ==
  /\ Kernel \cup User = kfree \cup ufree \cup UNION {Owns(p) : p \in Live}
  /\ \A p \in Live :
       /\ Owns(p) \cap (kfree \cup ufree) = {}
       /\ \A q \in Live \ {p} : Owns(p) \cap Owns(q) = {}
       /\ Held(p) \cap Mapped(Dir(p)) = {}
       /\ Cardinality(Mapped(Dir(p))) =
            Cardinality({g \in 0..UserPages - 1 : pagedir_get_page(Dir(p), g) # NULL})

\* Whatever the context switches, the directory in CR3 is never one that has
\* been freed, and a process that runs user code runs on its own.
ActiveDirectory ==
  /\ active # Base => active \notin kfree
  /\ th[cur].pc = "user" => active = pd[cur]

-----------------------------------------------------------------------------
(* What loading should give, from the program headers alone                *)

LoadHeaders(im) == {i \in 1..Len(im.phdrs) : im.phdrs[i].type = "load"}
PagesOf(h) == pg_no(h.vaddr)..pg_no(h.vaddr + h.memsz - 1)

\* A segment lies in user memory above page 0, congruent to its place in the
\* file, which holds its bytes.
Sound(h, length) ==
  /\ h.memsz >= 1 /\ h.filesz <= h.memsz
  /\ h.vaddr >= PGSIZE /\ h.vaddr + h.memsz < PHYS_BASE
  /\ (h.vaddr - h.offset) % PGSIZE = 0
  /\ IF h.filesz = 0 THEN h.offset <= length ELSE h.offset + h.filesz <= length

Loadable(im) ==
  /\ im.present /\ im.good
  /\ \A i \in 1..Len(im.phdrs) : im.phdrs[i].type # "refused"
  /\ \A i \in LoadHeaders(im) : /\ Sound(im.phdrs[i], im.length)
                          /\ UserPages - 1 \notin PagesOf(im.phdrs[i])
  /\ \A i, j \in LoadHeaders(im) : i # j => PagesOf(im.phdrs[i]) \cap PagesOf(im.phdrs[j]) = {}

\* What byte a of the address space holds, given the segment it is in.
Expected(h, a) ==
  IF h.filesz > 0 /\ a < h.vaddr + h.filesz THEN FileByte(h.offset + (a - h.vaddr)) ELSE 0

\* A process that reaches user code has exactly the pages its segments and its
\* stack need, each byte from the file or zero as its header says, writable
\* where it says so; that happens only for a loadable file, and a loadable file
\* fails to load only when a pool has run out.  Arguments that fit the stack's
\* page disturb nothing and never fault.
ImageLoaded ==
  /\ panic => job.image[cur].args > PGSIZE
  /\ \A p \in DOMAIN job.image :
       LET im == job.image[p]
           within(g) == {i \in LoadHeaders(im) : g \in PagesOf(im.phdrs[i])}
           byte(a) == mem[pagedir_get_page(pd[p], pg_no(a))][pg_ofs(a)]
       IN  /\ th[p].pc = "user" /\ im.args <= PGSIZE =>
                /\ Loadable(im)
                /\ \A g \in 0..UserPages - 1 :
                     IF within(g) = {}
                     THEN (pagedir_get_page(pd[p], g) # NULL) = (g = UserPages - 1)
                     ELSE /\ pagedir_get_page(pd[p], g) # NULL
                          /\ LET h == im.phdrs[CHOOSE i \in within(g) : TRUE]
                             IN  /\ pts[pds[pd[p]][pd_no(g)]][pt_no(g)].writable = h.writable
                                 /\ \A a \in g * PGSIZE..g * PGSIZE + PGSIZE - 1 :
                                      byte(a) = Expected(h, a)
           /\ Loadable(im) => th[p].why # "file"
=============================================================================
