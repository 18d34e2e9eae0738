----------------------------- MODULE PageCache -----------------------------
(***************************************************************************)
(* The LRU list of PageCache, front (position 1) = most recently used.     *)
(* The code's index_ maps each LBA to its list node; every method updates  *)
(* the two together, so the list alone is the state.                       *)
(*                                                                         *)
(* The operators return the list a method leaves behind, or the dirty      *)
(* entry it hands back to its caller.                                      *)
(***************************************************************************)
EXTENDS Integers, SequencesExt

CONSTANT CacheSize   \* capacity_: how many entries fit; 0 disables the cache

ASSUME CacheSizeAssumption == CacheSize \in Nat

IsEnabled(capacity) == capacity > 0

Entry(l, d, dirty) == [lba |-> l, data |-> d, dirty |-> dirty]

Positions(list, l) == {i \in DOMAIN list : list[i].lba = l}
Cached(list, l) == Positions(list, l) # {}
Position(list, l) == CHOOSE i \in Positions(list, l) : TRUE
CachedEntry(list, l) == list[Position(list, l)]

FaultyToFront(list, l, e) == <<e>> \o list

\* The entry of l is rewritten to e and becomes the most recently used.
ToFront(list, l, e) == <<e>> \o RemoveAt(list, Position(list, l))

\* evictIfFull: what stays in the list, and the entry handed back if the one
\* that leaves is dirty.
FaultyIsFull(list) == Len(list) > CacheSize

IsFull(list) == Len(list) >= CacheSize

Evicted(list) == IF IsFull(list) THEN Front(list) ELSE list

FaultyDirtyVictim(list) == <<>>

DirtyVictim(list) == IF IsFull(list) /\ Last(list).dirty THEN <<Last(list)>> ELSE <<>>

FaultyWritten(list, l, d) ==
  Entry(l, d, IF Cached(list, l) THEN CachedEntry(list, l).dirty ELSE TRUE)

\* The entry write(l, d) leaves in the cache: on a hit, too, it is dirty.
Written(list, l, d) == Entry(l, d, TRUE)

\* A miss in write (dirty) or in insert (clean).
Inserted(list, e) == <<e>> \o Evicted(list)

\* flush() returns the dirty entries, most recently used first.
DirtyEntries(list) ==
  LET dirty[n \in 0 .. Len(list)] ==
        IF n = 0 THEN <<>>
        ELSE IF list[n].dirty THEN Append(dirty[n - 1], list[n])
        ELSE dirty[n - 1]
  IN  dirty[Len(list)]

=============================================================================
