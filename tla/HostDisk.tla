------------------------------ MODULE HostDisk ------------------------------
(***************************************************************************)
(* What the drive promises to its host: a disk.  A write takes effect at   *)
(* once, a read returns the last data written to its LBA, and nothing else *)
(* the host can call (flush, garbage collection, setting the wear-leveling *)
(* interval) changes what it reads.                                        *)
(***************************************************************************)
CONSTANTS
  LBA,        \* logical addresses
  Data,       \* the values a host may store
  Unmapped    \* the answer for an address that was never written

VARIABLES
  disk,       \* disk[l]: the last data written to l
  answer      \* what the last read returned

DiskInit == disk = [l \in LBA |-> Unmapped] /\ answer = Unmapped

DiskWrite(l, d) == disk' = [disk EXCEPT ![l] = d] /\ UNCHANGED answer

DiskRead(l) == answer' = disk[l] /\ UNCHANGED disk

DiskNext == \E l \in LBA : DiskRead(l) \/ \E d \in Data : DiskWrite(l, d)

DiskSpec == DiskInit /\ [][DiskNext]_<<disk, answer>>

=============================================================================
