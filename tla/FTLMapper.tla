----------------------------- MODULE FTLMapper -----------------------------
(***************************************************************************)
(* The flash translation layer's mapping table, LBA -> physical address.   *)
(***************************************************************************)
EXTENDS FlashMemory

CONSTANTS
  LBA,       \* the logical addresses the host uses: ints in the code
  Unmapped   \* marks an LBA with no entry in the table

\* The value findLogicalAddress returns when no LBA maps to the page.
NoLBA == -1

ASSUME UnmappedAssumption == Unmapped \notin Address

VARIABLE mappingTable

MappingTypeOK == mappingTable \in [LBA -> Address \cup {Unmapped}]

MappingInit == mappingTable = [l \in LBA |-> Unmapped]

HasMapping(l) == mappingTable[l] # Unmapped

\* mapLogicalToPhysical(l, a), after a removeMapping(l) or without one.
Remapped(l, a) == [mappingTable EXCEPT ![l] = a]

\* The values findLogicalAddress(a) may return: it scans an unordered_map, so
\* with several entries for one page any of them may come first.
FindLogicalAddress(a) ==
  LET owners == {l \in LBA : mappingTable[l] = a}
  IN  IF owners = {} THEN {NoLBA} ELSE owners

-----------------------------------------------------------------------------

\* Every entry of the table names a page that holds valid data, and no page is
\* the entry of two LBAs: GC and wear leveling never erase or reuse a page the
\* host can still reach.
MappingIntegrity ==
  /\ \A l \in LBA : HasMapping(l) => pageState[mappingTable[l]] = "valid"
  /\ \A k, l \in LBA : HasMapping(k) /\ mappingTable[k] = mappingTable[l] => k = l

=============================================================================
