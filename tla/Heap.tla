-------------------------------- MODULE Heap --------------------------------
(***************************************************************************)
(* Kernel memory: the page allocator of threads/palloc.c, with its pool    *)
(* for the kernel and its pool for user pages, and on top of it malloc,    *)
(* calloc, realloc and free of threads/malloc.c.  Every operation runs     *)
(* under palloc_lock or its descriptor's lock and is one step.  Addresses  *)
(* are integers; page p begins at p * PGSIZE.                              *)
(***************************************************************************)
EXTENDS Integers, Sequences, SequencesExt, FiniteSets, Bitmap

CONSTANTS
  PGSIZE,          \* 4096
  ArenaSize,       \* sizeof (struct arena)
  BitmapSize,      \* sizeof (struct bitmap)
  MinBlock,        \* the smallest block_size, 16
  SizeMod,         \* 2^32: size_t arithmetic wraps
  FirstPage, RamPages, UserLimit,   \* free memory, -ul option
  Requests,        \* sizes asked of malloc and realloc
  Factors,         \* pairs asked of calloc
  MaxLive          \* bound: blocks and page groups in use at a time

ASSUME HeapAssumption ==
  /\ {PGSIZE, ArenaSize, MinBlock, SizeMod} \subseteq Nat \ {0}
  /\ ArenaSize + MinBlock <= PGSIZE /\ PGSIZE < SizeMod
  \* calloc clears what it asked for: a size for which BigPages wraps is left out.
  /\ \A f \in Factors : ((f[1] * f[2]) % SizeMod) + ArenaSize < SizeMod

pg_ofs(a) == a % PGSIZE
pg_no(a) == a \div PGSIZE
pg_round_down(a) == a - pg_ofs(a)

VARIABLES
  heap,       \* what the allocators keep in memory:
              \*   pool: "kernel" and "user" -> [base (a page number), used_map]
              \*   free_list: block size -> sequence of free block addresses
              \*   arena: address -> [desc (a block size, 0: big block), free_cnt]
              \*   ok: no ASSERT has failed
  live        \* what callers hold: [at, size], and want, the bytes they asked for

heapVars == <<heap, live>>

\* malloc_init: the descriptors' block sizes.
BlockSizes == {MinBlock * 2^k : k \in {j \in 0..10 : MinBlock * 2^j < PGSIZE \div 2}}
blocks_per_arena(d) == (PGSIZE - ArenaSize) \div d

init_pool(base, page_cnt) ==
  LET bytes == BitmapSize + elems_for(page_cnt) * (ELEM_BITS \div 8)
      bm_pages == DIV_ROUND_UP(bytes, PGSIZE)
  IN  [base |-> base + bm_pages, used_map |-> bitmap_create(page_cnt - bm_pages)]

palloc_init ==
  LET free_pages == RamPages - FirstPage
      user_pages == Min({free_pages \div 2, UserLimit})
      kernel_pages == free_pages - user_pages
  IN  [kernel |-> init_pool(FirstPage, kernel_pages),
       user |-> init_pool(FirstPage + kernel_pages, user_pages)]

page_from_pool(p, page) == page >= p.base /\ page < p.base + p.used_map.bit_cnt

\* The address palloc_get_multiple returns, NULL for none, and the heap after.
PagesAt(h, which, cnt) ==
  LET idx == bitmap_scan(h.pool[which].used_map, 0, cnt, FALSE)
  IN  IF cnt = 0 \/ idx = BITMAP_ERROR THEN NULL ELSE (h.pool[which].base + idx) * PGSIZE
palloc_get_multiple(h, which, cnt) ==
  IF cnt = 0 THEN h
  ELSE [h EXCEPT !.pool[which].used_map = bitmap_scan_and_flip(@, 0, cnt, FALSE)]

palloc_free_multiple(h, pages, cnt) ==
  LET which == IF page_from_pool(h.pool.kernel, pg_no(pages)) THEN "kernel" ELSE "user"
      idx == pg_no(pages) - h.pool[which].base
  IN  [h EXCEPT !.ok = @ /\ page_from_pool(h.pool[which], pg_no(pages))
                         /\ bitmap_all(h.pool[which].used_map, idx, cnt),
                !.pool[which].used_map = bitmap_set_multiple(@, idx, cnt, FALSE)]

block_to_arena(b) == pg_round_down(b)
\* Its ASSERTs: the magic number, and the alignment of the block.
IsBlock(h, b) ==
  LET a == block_to_arena(b) IN
  /\ a \in DOMAIN h.arena
  /\ IF h.arena[a].desc = 0 THEN pg_ofs(b) = ArenaSize
     ELSE (pg_ofs(b) - ArenaSize) % h.arena[a].desc = 0
arena_to_block(a, d, idx) == a + ArenaSize + idx * d
ArenaBlocks(a, d) == [i \in 1..blocks_per_arena(d) |-> arena_to_block(a, d, i - 1)]

NewArena(h, a, d, cnt) ==
  [h EXCEPT !.arena = [x \in DOMAIN @ \cup {a} |->
                         IF x = a THEN [desc |-> d, free_cnt |-> cnt] ELSE @[x]]]

\* Pages of a block that is too big for any descriptor, in size_t: both sums wrap.
BigPages(size) == ((((size + ArenaSize) % SizeMod) + PGSIZE - 1) % SizeMod) \div PGSIZE

\* The block malloc returns and the heap after the call.
malloc(h, size) ==
  LET fits == {x \in BlockSizes : x >= size}
      d == Min(fits)
      page_cnt == BigPages(size)
      big == PagesAt(h, "kernel", page_cnt)
      page == PagesAt(h, "kernel", 1)
      g == IF h.free_list[d] # <<>> THEN h      \* with a nonempty free list
           ELSE [NewArena(palloc_get_multiple(h, "kernel", 1), page, d, blocks_per_arena(d))
                   EXCEPT !.free_list[d] = ArenaBlocks(page, d)]
      b == Head(g.free_list[d])
  IN  CASE size = 0 -> [b |-> NULL, heap |-> h]
        [] size > 0 /\ fits = {} /\ big = NULL -> [b |-> NULL, heap |-> h]
        [] size > 0 /\ fits = {} /\ big # NULL ->
             [b |-> big + ArenaSize,
              heap |-> NewArena(palloc_get_multiple(h, "kernel", page_cnt), big, 0, page_cnt)]
        [] size > 0 /\ fits # {} /\ h.free_list[d] = <<>> /\ page = NULL -> [b |-> NULL, heap |-> h]
        [] OTHER ->
             [b |-> b, heap |-> [g EXCEPT !.free_list[d] = Tail(@),
                                          !.arena[block_to_arena(b)].free_cnt = @ - 1]]

\* Mutant of free: an arena that is all free goes back with its blocks listed.
free_keeping_blocks(h, b) ==
  LET a == block_to_arena(b)
      d == h.arena[a].desc
      g == [h EXCEPT !.ok = @ /\ IsBlock(h, b)]
      pushed == [g EXCEPT !.free_list[d] = <<b>> \o @, !.arena[a].free_cnt = @ + 1]
      gone == [x \in DOMAIN h.arena \ {a} |-> h.arena[x]]
  IN  IF b = NULL THEN h
      ELSE IF d = 0 THEN palloc_free_multiple([g EXCEPT !.arena = gone], a, h.arena[a].free_cnt)
      ELSE IF h.arena[a].free_cnt + 1 < blocks_per_arena(d) THEN pushed
      ELSE palloc_free_multiple([pushed EXCEPT !.arena = gone], a, 1)

\* The heap after free(b).
free(h, b) ==
  LET a == block_to_arena(b)
      d == h.arena[a].desc
      g == [h EXCEPT !.ok = @ /\ IsBlock(h, b)]
      pushed == [g EXCEPT !.free_list[d] = <<b>> \o @, !.arena[a].free_cnt = @ + 1]
      gone == [x \in DOMAIN h.arena \ {a} |-> h.arena[x]]
  IN  IF b = NULL THEN h
      ELSE IF d = 0 THEN palloc_free_multiple([g EXCEPT !.arena = gone], a, h.arena[a].free_cnt)
      ELSE IF h.arena[a].free_cnt + 1 < blocks_per_arena(d) THEN pushed
      ELSE palloc_free_multiple(
             [pushed EXCEPT !.arena = gone,
                !.free_list[d] = SelectSeq(@, LAMBDA x : block_to_arena(x) # a)], a, 1)

block_size(h, b) ==
  LET a == h.arena[block_to_arena(b)]
  IN  IF a.desc # 0 THEN a.desc ELSE PGSIZE * a.free_cnt - pg_ofs(b)
-----------------------------------------------------------------------------
HeapInit ==
  /\ heap = [pool |-> palloc_init, free_list |-> [d \in BlockSizes |-> <<>>],
             arena |-> <<>>, ok |-> TRUE]
  /\ live = {}

Held(b, size, want) == IF b = NULL THEN {} ELSE {[at |-> b, size |-> size, want |-> want]}

Malloc ==
  \E size \in Requests :
    LET r == malloc(heap, size)
    IN  heap' = r.heap /\ live' = live \cup Held(r.b, size, size)

\* The product is computed in size_t; size < a || size < b is its only check.
calloc ==
  \E f \in Factors :
    LET size == (f[1] * f[2]) % SizeMod
        r == malloc(heap, size)
    IN  IF size < f[1] \/ size < f[2] THEN UNCHANGED heapVars
        ELSE heap' = r.heap /\ live' = live \cup Held(r.b, size, f[1] * f[2])

\* o: the old block; a null old block is Malloc.
realloc ==
  \E o \in live, size \in Requests \cup {0} :
    LET r == malloc(heap, size) IN
    /\ o.size > 0
    /\ IF size = 0 THEN heap' = free(heap, o.at) /\ live' = live \ {o}
       ELSE IF r.b = NULL THEN heap' = r.heap /\ UNCHANGED live
       ELSE heap' = free(r.heap, o.at) /\ live' = (live \ {o}) \cup Held(r.b, size, size)

Free == \E o \in live : o.size > 0 /\ heap' = free(heap, o.at) /\ live' = live \ {o}

\* Pages held directly have size 0 and their number in want.
GetPages ==
  \E which \in {"kernel", "user"}, cnt \in 0..2 :
    LET p == PagesAt(heap, which, cnt)
    IN  heap' = palloc_get_multiple(heap, which, cnt) /\ live' = live \cup Held(p, 0, cnt)

FreePages ==
  \E o \in live : o.size = 0 /\ heap' = palloc_free_multiple(heap, o.at, o.want) /\ live' = live \ {o}

HeapNext ==
  \/ Cardinality(live) < MaxLive /\ (Malloc \/ calloc \/ GetPages)
  \/ realloc \/ Free \/ FreePages

HeapSpecification == HeapInit /\ [][HeapNext]_heapVars
-----------------------------------------------------------------------------
Extent(o) == o.at..o.at + (IF o.size = 0 THEN o.want * PGSIZE
                           ELSE Min({o.size, block_size(heap, o.at)})) - 1
FreeBlocks(d) == Range(heap.free_list[d])
ArenaPages(a) == IF heap.arena[a].desc = 0 THEN heap.arena[a].free_cnt ELSE 1

\* What malloc, calloc, realloc and palloc have handed out is never handed out
\* again while it is held: the bytes of two live objects are disjoint, and so
\* are they from the arena headers and from the blocks on the free lists, where
\* the allocator keeps its links.  A block is too small for what was asked for
\* exactly when size_t could not hold that with an arena's header: malloc's page
\* count wraps to one page (malloc.c:109), calloc's product to a value no smaller
\* than either factor (malloc.c:166).
NoOverlap ==
  /\ \A o \in live : \A p \in live \ {o} : Extent(o) \cap Extent(p) = {}
  /\ \A o \in live, a \in DOMAIN heap.arena : Extent(o) \cap (a..a + ArenaSize - 1) = {}
  /\ \A o \in live, d \in BlockSizes : \A b \in FreeBlocks(d) : Extent(o) \cap (b..b + d - 1) = {}
  /\ \A o \in live : o.size > 0 =>
       (block_size(heap, o.at) < o.want <=> o.want + ArenaSize >= SizeMod)

\* The books of both allocators agree with each other and with what is handed out,
\* none of which overlaps (NoOverlap): an arena's free_cnt counts its blocks on
\* the free list, no block is listed twice, an arena without a block in use is
\* given back, the pages marked in the pools are those of the arenas and of the
\* page groups in use, and no ASSERT has failed.
MemoryAccounted ==
  /\ heap.ok
  /\ NoOverlap
  /\ \A d \in BlockSizes :
       /\ IsInjective(heap.free_list[d])
       /\ \A b \in FreeBlocks(d) : IsBlock(heap, b) /\ heap.arena[block_to_arena(b)].desc = d
  /\ \A a \in DOMAIN heap.arena : heap.arena[a].desc # 0 =>
       /\ heap.arena[a].free_cnt = Cardinality({b \in FreeBlocks(heap.arena[a].desc) : block_to_arena(b) = a})
       /\ heap.arena[a].free_cnt < blocks_per_arena(heap.arena[a].desc)
  /\ UNION {{heap.pool[w].base + x[1] * ELEM_BITS + x[2] : x \in heap.pool[w].used_map.bits} :
             w \in {"kernel", "user"}}
     = UNION {pg_no(a)..pg_no(a) + ArenaPages(a) - 1 : a \in DOMAIN heap.arena}
       \cup UNION {pg_no(o.at)..pg_no(o.at) + o.want - 1 : o \in {p \in live : p.size = 0}}
=============================================================================
