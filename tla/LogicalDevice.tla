--------------------------- MODULE LogicalDevice ---------------------------
(***************************************************************************)
(* What the NAND side of the drive promises to whoever writes to it: a     *)
(* store that a write changes in one indivisible step, at its own address  *)
(* only.  Blocks, pages, the mapping table, garbage collection and wear    *)
(* leveling are invisible.                                                 *)
(*                                                                         *)
(* A full drive may drop a write; the store then keeps the old value.      *)
(***************************************************************************)
CONSTANTS
  LBA,        \* logical addresses
  Data,       \* the values a host may store
  Unmapped,   \* content of an address that was never written
  NoWrite,    \* no write in progress
  MayDrop     \* whether the drive may drop a write

VARIABLES
  store,      \* store[l]: what a read of l returns
  inFlight    \* the write in progress, or NoWrite

deviceVars == <<store, inFlight>>

DeviceInit == store = [l \in LBA |-> Unmapped] /\ inFlight = NoWrite

Accept(l, d) ==
  /\ inFlight = NoWrite
  /\ inFlight' = [lba |-> l, data |-> d]
  /\ UNCHANGED store

Commit ==
  /\ inFlight # NoWrite
  /\ store' = [store EXCEPT ![inFlight.lba] = inFlight.data]
  /\ inFlight' = NoWrite

Drop ==
  /\ MayDrop
  /\ inFlight # NoWrite
  /\ inFlight' = NoWrite
  /\ UNCHANGED store

DeviceNext ==
  \/ \E l \in LBA, d \in Data : Accept(l, d)
  \/ Commit
  \/ Drop

DeviceSpec == DeviceInit /\ [][DeviceNext]_deviceVars

DeviceFairSpec == DeviceSpec /\ WF_deviceVars(Commit \/ Drop)

=============================================================================
