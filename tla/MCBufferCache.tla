--------------------------- MODULE MCBufferCache ---------------------------
(***************************************************************************)
(* Two threads, a flusher, three sectors and a cache smaller than the      *)
(* disk: each thread can be evicting what the other one is waiting for.    *)
(***************************************************************************)
EXTENDS BufferCache
=============================================================================
