------------------------------- MODULE RWLock -------------------------------
(***************************************************************************)
(* What the per-inode monitor of filesys/inode.c promises its callers      *)
(* (inode_read_at, inode_write_at, inode_reopen, inode_close, ...):        *)
(* between reader_checkin and reader_checkout a thread shares the inode    *)
(* with readers only, between writer_checkin and writer_checkout it has    *)
(* the inode to itself.  How threads queue up is not part of the promise.  *)
(***************************************************************************)
CONSTANT Thread

VARIABLES readers,  \* threads between reader_checkin and reader_checkout
          writers   \* threads between writer_checkin and writer_checkout

rwVars == <<readers, writers>>

Init == readers = {} /\ writers = {}

BeginRead(t) ==
  /\ t \notin readers
  /\ writers = {}
  /\ readers' = readers \cup {t}
  /\ UNCHANGED writers

EndRead(t) ==
  /\ t \in readers
  /\ readers' = readers \ {t}
  /\ UNCHANGED writers

BeginWrite(t) ==
  /\ readers = {} /\ writers = {}
  /\ writers' = {t}
  /\ UNCHANGED readers

EndWrite(t) ==
  /\ t \in writers
  /\ writers' = writers \ {t}
  /\ UNCHANGED readers

Next == \E t \in Thread : BeginRead(t) \/ EndRead(t) \/ BeginWrite(t) \/ EndWrite(t)

Spec == Init /\ [][Next]_rwVars
=============================================================================
