------------------------------ MODULE MCInode ------------------------------
(***************************************************************************)
(* The monitor of an inode and the files that grow under it.  A behaviour  *)
(* is of one of them, which part says; the other stays as it begins.       *)
(*                                                                         *)
(* The monitor: four threads, two check-ins each.  Growth: two threads and *)
(* two files on a disk that cannot hold both at their full size, so that   *)
(* extensions, creations and removals compete for the last sectors; files  *)
(* are also created empty.                                                 *)
(***************************************************************************)
EXTENDS InodeMonitor, FiniteSetsExt

CONSTANTS Grower, Files, Sectors, NUM_POINTERS, BLOCK_SECTOR_SIZE, Ends, FirstLength,
          MaxCalls, None                                                  \* FileGrowth

VARIABLES part,
          free_map, block, inode, exists, readers, writer, place, op, resize, denies, calls,
          panic, dangling                                                 \* FileGrowth

growth == <<free_map, block, inode, exists, readers, writer, place, op, resize, denies, calls,
            panic, dangling>>
all == <<part, vars, growth>>

G == INSTANCE FileGrowth WITH Thread <- Grower, MaxOps <- MaxCalls, pc <- place, ops <- calls

ASSUME GrowthAssumption == G!GrowthConstants

MCInit == part \in {"monitor", "growth"} /\ Init /\ G!Init

MCNext ==
  \/ part = "monitor" /\ Next /\ UNCHANGED <<part, growth>>
  \/ part = "growth" /\ G!Next /\ UNCHANGED <<part, vars>>

\* The fairness of InodeMonitor and FileGrowth.
MCFairness ==
  /\ \A t \in Thread : WF_all(part = "monitor" /\ Run(t) /\ UNCHANGED <<part, growth>>)
  /\ \A t \in Grower : WF_all(part = "growth" /\ G!Run(t) /\ UNCHANGED <<part, vars>>)

MCSpec == MCInit /\ [][MCNext]_all /\ MCFairness

\* FileGrowth: every byte of a file has a sector of its own (byte_to_sector).
BytesHaveSectors == G!BytesHaveSectors

\* FileGrowth: no sector is free or of two files (inode_resize, free-map.c).
NoSharedSector == G!NoSharedSector

\* FileGrowth: inode_create, inode_write_at, inode_read_at and inode_close return.
OperationsReturn == G!OperationsReturn

\* FileGrowth: inode_write_at never makes a file shorter.
NeverShrinks == [][G!NoneShrinks]_all

\* FileGrowth: inode_resize rolls back when an allocation fails.
RollsBack == G!RollsBack
=============================================================================
