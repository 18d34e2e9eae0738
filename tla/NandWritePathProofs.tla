------------------------ MODULE NandWritePathProofs ------------------------
(***************************************************************************)
(* Proofs about NandWritePath for any geometry, any set of LBAs, any       *)
(* watermark and any bound on the erase counts.                            *)
(***************************************************************************)
EXTENDS NandWritePath, FiniteSetTheorems, TLAPS

\* The state of array and table that every step preserves.
DataOK ==
  /\ FlashTypeOK
  /\ MappingTypeOK
  /\ MappingIntegrity
  /\ ProgrammedInOrder

\* A nandWrite is under way, in the caller's code or in a collection it called.
Busy == IF pc \in GCPhases THEN returnTo # "idle" ELSE pc # "idle"

ControlOK == IF Busy THEN writing \in Write ELSE writing = NoWrite

\* The loops leave nothing behind: what is still mapped into src is on a page
\* they have not reached.
BehindCursorEmpty ==
  \A l \in LBA :
    HasMapping(l) /\ mappingTable[l][1] = src => mappingTable[l][2] >= cursor

LoopsOK ==
  /\ pc \in {"migrate", "move"} => src \in Block /\ BehindCursorEmpty
  /\ pc = "move" =>
       /\ dst \in Block /\ dst # src
       /\ \A q \in PageIndex : q >= cursor => pageState[<<dst, q>>] = "free"

IInv ==
  /\ DataOK
  /\ GCTypeOK
  /\ ControlOK
  /\ LoopsOK

-----------------------------------------------------------------------------
(* What the three ways of changing the array do to DataOK. *)

\* A page that is programmed is free, so no LBA maps to it, and it is the
\* first free page of its block.
LEMMA FirstFreeFacts ==
  ASSUME DataOK, NEW b \in Block, NEW p \in PageIndex, FirstFreePage(b, p)
  PROVE  /\ pageState[<<b, p>>] = "free"
         /\ \A q \in PageIndex : q < p => pageState[<<b, q>>] # "free"
         /\ \A l \in LBA : mappingTable[l] # <<b, p>>
<1> USE DEF DataOK, FirstFreePage, FreePages, PagesIn
<1>1. pageState[<<b, p>>] = "free"
  OBVIOUS
<1>2. \A q \in PageIndex : q < p => pageState[<<b, q>>] # "free"
  BY DEF PageIndex
<1>3. <<b, p>> # Unmapped
  BY UnmappedAssumption DEF Address
<1>4. \A l \in LBA : mappingTable[l] # <<b, p>>
  BY <1>1, <1>3 DEF MappingIntegrity, HasMapping
<1> QED
  BY <1>1, <1>2, <1>4

\* Copying a live page to the first free page of another place and remapping
\* its LBA.
LEMMA CopyPageData ==
  ASSUME DataOK, NEW lba \in LBA, NEW from \in Address,
         NEW b \in Block, NEW p \in PageIndex,
         mappingTable[lba] = from, FirstFreePage(b, p),
         CopyPage(lba, from, <<b, p>>)
  PROVE  DataOK'
<1> DEFINE to == <<b, p>>
<1>0. to \in Address
  BY DEF Address
<1>1. /\ pageState' = [pageState EXCEPT ![to] = "valid"]
      /\ pageData' = [pageData EXCEPT ![to] = pageData[from]]
      /\ eraseCount' = eraseCount
      /\ mappingTable' = [mappingTable EXCEPT ![lba] = to]
  BY DEF CopyPage, ProgramPage, Programmed, Remapped
<1>2. /\ pageState[to] = "free"
      /\ \A q \in PageIndex : q < p => pageState[<<b, q>>] # "free"
      /\ \A l \in LBA : mappingTable[l] # to
  BY FirstFreeFacts
<1>3. FlashTypeOK'
  BY <1>0, <1>1 DEF DataOK, FlashTypeOK
<1>4. MappingTypeOK'
  BY <1>0, <1>1 DEF DataOK, MappingTypeOK
<1>5. MappingIntegrity'
  <2>1. ASSUME NEW l \in LBA, HasMapping(l)'
        PROVE  pageState'[mappingTable'[l]] = "valid"
    BY <1>0, <1>1, <1>2, <2>1
    DEF DataOK, MappingTypeOK, FlashTypeOK, MappingIntegrity, HasMapping
  <2>2. ASSUME NEW k \in LBA, NEW l \in LBA,
               HasMapping(k)', mappingTable'[k] = mappingTable'[l]
        PROVE  k = l
    BY <1>0, <1>1, <1>2, <2>2
    DEF DataOK, MappingTypeOK, MappingIntegrity, HasMapping
  <2> QED
    BY <2>1, <2>2 DEF MappingIntegrity
<1>6. ProgrammedInOrder'
  BY <1>0, <1>1, <1>2
  DEF DataOK, FlashTypeOK, ProgrammedInOrder, Address, PageIndex
<1> QED
  BY <1>3, <1>4, <1>5, <1>6 DEF DataOK

\* Erasing a block no LBA maps into.
LEMMA EraseBlockData ==
  ASSUME DataOK, NEW b \in Block, EraseBlock(b), UNCHANGED mappingTable,
         \A l \in LBA : HasMapping(l) => mappingTable[l][1] # b
  PROVE  DataOK'
<1>1. FlashTypeOK'
  BY DEF DataOK, FlashTypeOK, EraseBlock
<1>2. MappingTypeOK'
  BY DEF DataOK, MappingTypeOK
<1>3. MappingIntegrity'
  BY DEF DataOK, MappingTypeOK, MappingIntegrity, HasMapping, EraseBlock
<1>4. ProgrammedInOrder'
  BY DEF DataOK, FlashTypeOK, ProgrammedInOrder, EraseBlock, Address, PageIndex
<1> QED
  BY <1>1, <1>2, <1>3, <1>4 DEF DataOK

\* nandWrite's last part: program, invalidate the old copy, remap.
LEMMA ProgramData ==
  ASSUME DataOK, writing \in Write, Program
  PROVE  DataOK'
<1>1. PICK b \in Block, p \in PageIndex :
        /\ FirstFreePage(b, p)
        /\ LET l == writing.lba
               programmed == Programmed(pageState, <<b, p>>)
           IN  /\ pageState' = IF HasMapping(l)
                               THEN Invalidated(programmed, mappingTable[l])
                               ELSE programmed
               /\ pageData' = [pageData EXCEPT ![<<b, p>>] = writing.data]
               /\ mappingTable' = Remapped(l, <<b, p>>)
  BY DEF Program
<1>2. eraseCount' = eraseCount
  BY DEF Program
<1> DEFINE l0 == writing.lba
           new == <<b, p>>
           old == mappingTable[l0]
<1>3. l0 \in LBA /\ writing.data \in Data
  BY DEF Write
<1>4. new \in Address
  BY DEF Address
<1>5. /\ pageState[new] = "free"
      /\ \A q \in PageIndex : q < p => pageState[<<b, q>>] # "free"
      /\ \A l \in LBA : mappingTable[l] # new
  BY <1>1, FirstFreeFacts
<1>6. HasMapping(l0) => old \in Address /\ old # new /\ pageState[old] = "valid"
  BY <1>3, <1>5 DEF DataOK, MappingTypeOK, MappingIntegrity, HasMapping
<1>7. mappingTable' = [mappingTable EXCEPT ![l0] = new]
  BY <1>1 DEF Remapped
<1>8. pageState' = [a \in Address |->
                      IF a = new THEN "valid"
                      ELSE IF HasMapping(l0) /\ a = old THEN "invalid"
                      ELSE pageState[a]]
  BY <1>1, <1>4, <1>5, <1>6 DEF DataOK, FlashTypeOK, Programmed, Invalidated
<1>9. FlashTypeOK'
  <2>1. pageState' \in [Address -> {"free", "valid", "invalid"}]
    BY <1>8 DEF DataOK, FlashTypeOK
  <2>2. pageData' \in [Address -> Data \cup {Blank}]
    BY <1>1, <1>3, <1>4 DEF DataOK, FlashTypeOK
  <2>3. \A a \in Address : pageState'[a] = "free" => pageData'[a] = Blank
    BY <1>1, <1>4, <1>8 DEF DataOK, FlashTypeOK
  <2> QED
    BY <1>2, <2>1, <2>2, <2>3 DEF DataOK, FlashTypeOK
<1>10. MappingTypeOK'
  BY <1>3, <1>4, <1>7 DEF DataOK, MappingTypeOK
<1>11. MappingIntegrity'
  <2>1. ASSUME NEW l \in LBA, HasMapping(l)'
        PROVE  pageState'[mappingTable'[l]] = "valid"
    <3>1. CASE l = l0
      BY <1>3, <1>4, <1>7, <1>8, <3>1 DEF DataOK, MappingTypeOK
    <3>2. CASE l # l0
      <4>1. mappingTable'[l] = mappingTable[l]
        BY <1>3, <1>7, <3>2 DEF DataOK, MappingTypeOK
      <4>2. mappingTable[l] \in Address /\ pageState[mappingTable[l]] = "valid"
        BY <2>1, <4>1 DEF DataOK, MappingTypeOK, MappingIntegrity, HasMapping
      <4>3. HasMapping(l0) => mappingTable[l] # old
        BY <1>3, <3>2 DEF DataOK, MappingIntegrity, HasMapping
      <4> QED
        BY <1>8, <4>1, <4>2, <4>3
    <3> QED
      BY <3>1, <3>2
  <2>2. ASSUME NEW k \in LBA, NEW l \in LBA,
               HasMapping(k)', mappingTable'[k] = mappingTable'[l]
        PROVE  k = l
    BY <1>3, <1>5, <1>7, <2>2
    DEF DataOK, MappingTypeOK, MappingIntegrity, HasMapping
  <2> QED
    BY <2>1, <2>2 DEF MappingIntegrity
<1>12. ProgrammedInOrder'
  <2> SUFFICES ASSUME NEW c \in Block, NEW i \in PageIndex, NEW j \in PageIndex,
                      i < j, pageState'[<<c, i>>] = "free"
               PROVE  pageState'[<<c, j>>] = "free"
    BY DEF ProgrammedInOrder
  <2>1. <<c, i>> \in Address /\ <<c, j>> \in Address
    BY DEF Address
  <2>2. pageState[<<c, i>>] = "free" /\ <<c, i>> # new
    BY <1>8, <2>1
  <2>3. pageState[<<c, j>>] = "free"
    BY <2>2 DEF DataOK, ProgrammedInOrder
  <2>4. <<c, j>> # new
    BY <1>5, <2>2 DEF PageIndex
  <2> QED
    BY <1>6, <1>8, <2>1, <2>3, <2>4
<1> QED
  BY <1>9, <1>10, <1>11, <1>12 DEF DataOK

-----------------------------------------------------------------------------
(* The initial states and the steps. *)

LEMMA InitIInv == Init => IInv
<1> SUFFICES ASSUME Init PROVE IInv
  OBVIOUS
<1> USE DEF Init, FlashInit, MappingInit, GCInit
<1>1. DataOK
  BY DEF DataOK, FlashTypeOK, MappingTypeOK, MappingIntegrity, HasMapping,
         ProgrammedInOrder, Address
<1>2. GCTypeOK
  BY GeometryAssumption DEF GCTypeOK, GCPhases, CallerPhases
<1>3. ControlOK /\ LoopsOK
  BY DEF ControlOK, Busy, LoopsOK, GCPhases
<1> QED
  BY <1>1, <1>2, <1>3 DEF IInv

\* Every step that leaves array and table alone keeps DataOK.
LEMMA SameData ==
  ASSUME DataOK, UNCHANGED <<flashVars, mappingTable>>
  PROVE  DataOK'
BY DEF DataOK, flashVars, FlashTypeOK, MappingTypeOK, MappingIntegrity,
       HasMapping, ProgrammedInOrder

\* A nandWrite starts, for the host or for an entry the cache hands over.
LEMMA BeginInv ==
  ASSUME IInv, pc = "idle", NEW l \in LBA, NEW d \in Data, BeginNandWrite(l, d)
  PROVE  IInv'
<1> USE DEF IInv, BeginNandWrite
<1>1. DataOK'
  BY SameData
<1>2. GCTypeOK'
  BY DEF GCTypeOK, GCPhases, CallerPhases, CallGC, loopVars
<1>3. ControlOK' /\ LoopsOK'
  BY DEF ControlOK, Busy, LoopsOK, GCPhases, CallGC, Write
<1> QED
  BY <1>1, <1>2, <1>3

\* The host's calls and the steps of nandWrite.
LEMMA HostInv ==
  ASSUME IInv, Host
  PROVE  IInv'
<1>1. ASSUME NEW l \in LBA, NEW d \in Data, HostWrite(l, d)
      PROVE  IInv'
  BY <1>1, BeginInv DEF HostWrite, Idle
<1> USE DEF IInv
<1>2. ASSUME HostCollect
      PROVE  IInv'
  <2> USE <1>2 DEF HostCollect, Idle, CallGC
  <2>1. DataOK'
    BY SameData
  <2>2. GCTypeOK'
    BY DEF GCTypeOK, GCPhases, CallerPhases, loopVars
  <2>3. ControlOK' /\ LoopsOK'
    BY DEF ControlOK, Busy, LoopsOK, GCPhases
  <2> QED
    BY <2>1, <2>2, <2>3
<1>3. ASSUME NEW n \in Intervals, HostSetInterval(n)
      PROVE  IInv'
  <2> USE <1>3 DEF HostSetInterval
  <2>1. DataOK'
    BY SameData
  <2>2. GCTypeOK'
    BY HostAssumption DEF GCTypeOK, GCPhases, CallerPhases, loopVars
  <2>3. ControlOK' /\ LoopsOK'
    BY DEF ControlOK, Busy, LoopsOK, GCPhases, loopVars
  <2> QED
    BY <2>1, <2>2, <2>3
<1> QED
  BY <1>1, <1>2, <1>3 DEF Host

LEMMA NandWriteInv ==
  ASSUME IInv, Program \/ ForceGC \/ DropWrite
  PROVE  IInv'
<1> USE DEF IInv
<1>1. CASE Program
  <2>1. writing \in Write
    BY <1>1 DEF Program, ControlOK, Busy, GCPhases
  <2>2. DataOK'
    BY <1>1, <2>1, ProgramData
  <2>3. GCTypeOK'
    BY <1>1 DEF Program, Finish, GCTypeOK, GCPhases, CallerPhases, loopVars
  <2>4. ControlOK' /\ LoopsOK'
    BY <1>1 DEF Program, Finish, ControlOK, Busy, LoopsOK, GCPhases
  <2> QED
    BY <2>2, <2>3, <2>4
<1>2. CASE ForceGC
  <2> USE <1>2 DEF ForceGC, CallGC
  <2>1. DataOK'
    BY SameData
  <2>2. GCTypeOK'
    BY DEF GCTypeOK, GCPhases, CallerPhases, loopVars
  <2>3. ControlOK' /\ LoopsOK'
    BY DEF ControlOK, Busy, LoopsOK, GCPhases
  <2> QED
    BY <2>1, <2>2, <2>3
<1>3. CASE DropWrite
  <2> USE <1>3 DEF DropWrite, Finish
  <2>1. DataOK'
    BY SameData
  <2>2. GCTypeOK'
    BY DEF GCTypeOK, GCPhases, CallerPhases, loopVars
  <2>3. ControlOK' /\ LoopsOK'
    BY DEF ControlOK, Busy, LoopsOK, GCPhases
  <2> QED
    BY <2>1, <2>2, <2>3
<1> QED
  BY <1>1, <1>2, <1>3

-----------------------------------------------------------------------------
(* The steps of a collection.  From here on -1 is not an LBA, so that        *)
(* findLogicalAddress answers -1 only for pages nobody maps to.              *)

LEMMA FindFacts ==
  ASSUME DataOK, NoLBA \notin LBA, NEW from \in Address,
         NEW lba \in FindLogicalAddress(from)
  PROVE  /\ Skips(from, lba) => \A l \in LBA : mappingTable[l] # from
         /\ ~ Skips(from, lba) => lba \in LBA /\ mappingTable[lba] = from
<1>1. from # Unmapped
  BY UnmappedAssumption
<1>2. CASE \E l \in LBA : mappingTable[l] = from
  BY <1>1, <1>2
  DEF FindLogicalAddress, Skips, DataOK, MappingIntegrity, HasMapping
<1>3. CASE ~ \E l \in LBA : mappingTable[l] = from
  BY <1>3 DEF FindLogicalAddress, Skips
<1> QED
  BY <1>2, <1>3

\* A page nobody maps to is passed over.
LEMMA PassPage ==
  ASSUME IInv, pc \in {"migrate", "move"}, cursor < PagesPerBlock,
         \A l \in LBA : mappingTable[l] # <<src, cursor>>,
         cursor' = cursor + 1, UNCHANGED <<mappingTable, src>>
  PROVE  BehindCursorEmpty'
<1> SUFFICES ASSUME NEW l \in LBA, HasMapping(l), mappingTable[l][1] = src
             PROVE  mappingTable[l][2] >= cursor + 1
  BY DEF BehindCursorEmpty, HasMapping
<1>1. mappingTable[l] \in Address
  BY DEF IInv, DataOK, MappingTypeOK, HasMapping
<1>2. PICK b \in Block, p \in PageIndex : mappingTable[l] = <<b, p>>
  BY <1>1 DEF Address
<1>3. b = src /\ mappingTable[l][2] = p
  BY <1>2
<1>4. p # cursor
  BY <1>2, <1>3
<1>5. p >= cursor
  BY <1>3 DEF IInv, LoopsOK, BehindCursorEmpty
<1> QED
  BY <1>3, <1>4, <1>5 DEF IInv, GCTypeOK, PageIndex

\* The page under the cursor is moved out of the block.
LEMMA MovePage ==
  ASSUME IInv, pc \in {"migrate", "move"}, cursor < PagesPerBlock,
         NEW lba \in LBA, mappingTable[lba] = <<src, cursor>>,
         NEW b \in Block, b # src, NEW p \in PageIndex, FirstFreePage(b, p),
         CopyPage(lba, <<src, cursor>>, <<b, p>>), NextPage, UNCHANGED src
  PROVE  /\ DataOK'
         /\ BehindCursorEmpty'
         /\ \A a \in Address : a # <<b, p>> => pageState'[a] = pageState[a]
<1>1. cursor \in PageIndex /\ cursor \in Nat
  BY GeometryAssumption DEF IInv, GCTypeOK, PageIndex
<1>2. src \in Block /\ <<src, cursor>> \in Address /\ <<b, p>> \in Address
  BY <1>1 DEF IInv, LoopsOK, Address
<1>3. DataOK'
  BY <1>2, CopyPageData DEF IInv
<1>4. mappingTable' = [mappingTable EXCEPT ![lba] = <<b, p>>]
  BY DEF CopyPage, Remapped
<1>5. BehindCursorEmpty'
  <2> SUFFICES ASSUME NEW l \in LBA, HasMapping(l)', mappingTable'[l][1] = src
               PROVE  mappingTable'[l][2] >= cursor + 1
    BY DEF BehindCursorEmpty, NextPage
  <2>1. l # lba /\ mappingTable'[l] = mappingTable[l]
    BY <1>4 DEF IInv, DataOK, MappingTypeOK
  <2>2. HasMapping(l)
    BY <2>1 DEF HasMapping
  <2>3. mappingTable[l] # <<src, cursor>>
    BY <2>1, <2>2 DEF IInv, DataOK, MappingIntegrity, HasMapping
  <2>4. PICK c \in Block, q \in PageIndex : mappingTable[l] = <<c, q>>
    BY <2>2 DEF IInv, DataOK, MappingTypeOK, HasMapping, Address
  <2>5. c = src /\ q # cursor /\ q >= cursor
    BY <2>1, <2>2, <2>3, <2>4 DEF IInv, LoopsOK, BehindCursorEmpty
  <2> QED
    BY <1>1, <2>1, <2>4, <2>5 DEF PageIndex
<1>6. \A a \in Address : a # <<b, p>> => pageState'[a] = pageState[a]
  BY <1>2 DEF CopyPage, ProgramPage, Programmed, IInv, DataOK, FlashTypeOK
<1> QED
  BY <1>3, <1>5, <1>6

\* When the loop has ended no LBA maps into src.
LEMMA SourceEmptied ==
  ASSUME IInv, pc \in {"migrate", "move"}, cursor = PagesPerBlock
  PROVE  \A l \in LBA : HasMapping(l) => mappingTable[l][1] # src
<1> SUFFICES ASSUME NEW l \in LBA, HasMapping(l), mappingTable[l][1] = src
             PROVE  FALSE
  OBVIOUS
<1>1. PICK b \in Block, p \in PageIndex : mappingTable[l] = <<b, p>>
  BY DEF IInv, DataOK, MappingTypeOK, HasMapping, Address
<1>2. p >= cursor
  BY <1>1 DEF IInv, LoopsOK, BehindCursorEmpty
<1> QED
  BY <1>2, GeometryAssumption DEF PageIndex

\* What leaving runOneCycle does to the control state.
LEMMA ReturnControl ==
  ASSUME IInv, pc \in GCPhases, Return, UNCHANGED writing,
         gcCyclesRun' \in Nat, UNCHANGED wearLevelInterval
  PROVE  GCTypeOK' /\ ControlOK' /\ LoopsOK'
<1>1. GCTypeOK'
  BY GeometryAssumption DEF IInv, Return, GCTypeOK, GCPhases, CallerPhases
<1>2. ControlOK'
  BY DEF IInv, Return, ControlOK, Busy, GCTypeOK, GCPhases, CallerPhases
<1>3. LoopsOK'
  BY DEF IInv, Return, LoopsOK, GCTypeOK, CallerPhases
<1> QED
  BY <1>1, <1>2, <1>3

LEMMA SelectInv ==
  ASSUME IInv, GCSelect \/ WLSelect, UNCHANGED writing
  PROVE  IInv'
<1>1. DataOK'
  BY SameData DEF IInv, GCSelect, WLSelect
<1>2. CASE Return
  <2>1. pc \in GCPhases /\ gcCyclesRun' \in Nat /\ UNCHANGED wearLevelInterval
    BY DEF GCSelect, WLSelect, GCPhases, IInv, GCTypeOK
  <2> QED
    BY <1>1, <1>2, <2>1, ReturnControl DEF IInv
<1>3. ASSUME NEW b \in Block, pc = "select", src' = b, cursor' = 0,
             pc' = "migrate", UNCHANGED <<returnTo, dst>>,
             UNCHANGED <<mappingTable, gcCyclesRun, wearLevelInterval>>
      PROVE  IInv'
  <2>1. GCTypeOK'
    BY <1>3, GeometryAssumption DEF IInv, GCTypeOK, GCPhases, CallerPhases
  <2>2. ControlOK'
    BY <1>3 DEF IInv, ControlOK, Busy, GCPhases
  <2>3. BehindCursorEmpty'
    BY <1>1, <1>3
    DEF BehindCursorEmpty, DataOK, MappingTypeOK, HasMapping, Address, PageIndex
  <2>4. LoopsOK'
    BY <1>3, <2>3 DEF LoopsOK
  <2> QED
    BY <1>1, <2>1, <2>2, <2>4 DEF IInv
<1>4. ASSUME NEW s \in Block, NEW d \in Block, WearLevelPair(s, d),
             pc = "wear", src' = s, dst' = d, cursor' = 0,
             pc' = "move", UNCHANGED returnTo,
             UNCHANGED <<flashVars, mappingTable, gcCyclesRun, wearLevelInterval>>
      PROVE  IInv'
  <2>1. GCTypeOK'
    BY <1>4, GeometryAssumption DEF IInv, GCTypeOK, GCPhases, CallerPhases
  <2>2. ControlOK'
    BY <1>4 DEF IInv, ControlOK, Busy, GCPhases
  <2>3. BehindCursorEmpty'
    BY <1>1, <1>4
    DEF BehindCursorEmpty, DataOK, MappingTypeOK, HasMapping, Address, PageIndex
  <2>4. FullyFree(d) /\ ~ FullyFree(s)
    BY <1>4
    DEF WearLevelPair, LeastWornDataBlock, MostWornFreeBlock, FirstMost, FirstLeast,
        DataBlocks, FullyFreeBlocks
  <2>5. d # s
    BY <2>4
  <2>6. \A q \in PageIndex : pageState[<<d, q>>] = "free"
    BY <2>4 DEF FullyFree, FreePages, PagesIn
  <2>7. LoopsOK'
    BY <1>4, <2>3, <2>5, <2>6 DEF LoopsOK, flashVars
  <2> QED
    BY <1>1, <2>1, <2>2, <2>7 DEF IInv
<1> QED
  BY <1>2, <1>3, <1>4 DEF GCSelect, WLSelect

LEMMA MigrateInv ==
  ASSUME IInv, NoLBA \notin LBA, GCMigrate, UNCHANGED writing
  PROVE  IInv'
<1> DEFINE from == <<src, cursor>>
<1>1. /\ pc = "migrate" /\ cursor < PagesPerBlock
      /\ src \in Block /\ cursor \in PageIndex /\ cursor + 1 \in 0 .. PagesPerBlock
      /\ UNCHANGED <<gcCyclesRun, wearLevelInterval>>
  BY GeometryAssumption DEF GCMigrate, IInv, LoopsOK, GCTypeOK, PageIndex
<1>2. from \in Address
  BY <1>1 DEF Address
<1>3. ASSUME NextPage, DataOK', BehindCursorEmpty', UNCHANGED <<pc, returnTo, src, dst>>
      PROVE  IInv'
  <2>1. GCTypeOK'
    BY <1>1, <1>3 DEF IInv, GCTypeOK, NextPage
  <2>2. ControlOK'
    BY <1>3 DEF IInv, ControlOK, Busy
  <2>3. LoopsOK'
    BY <1>1, <1>3 DEF LoopsOK
  <2> QED
    BY <1>3, <2>1, <2>2, <2>3 DEF IInv
<1>4. PICK lba \in FindLogicalAddress(from) :
        \/ /\ Skips(from, lba)
           /\ NextPage
           /\ UNCHANGED <<flashVars, mappingTable, pc, returnTo, src, dst>>
        \/ /\ ~ Skips(from, lba)
           /\ \E to \in Address : FreeSlot(src, to) /\ CopyPage(lba, from, to)
           /\ NextPage
           /\ UNCHANGED <<pc, returnTo, src, dst>>
        \/ /\ ~ Skips(from, lba)
           /\ NoFreeSlot(src)
           /\ AbortCycle
           /\ UNCHANGED <<flashVars, mappingTable>>
  BY DEF GCMigrate
<1>5. /\ Skips(from, lba) => \A l \in LBA : mappingTable[l] # from
      /\ ~ Skips(from, lba) => lba \in LBA /\ mappingTable[lba] = from
  BY <1>2, FindFacts DEF IInv
<1>6. CASE /\ Skips(from, lba)
           /\ NextPage
           /\ UNCHANGED <<flashVars, mappingTable, pc, returnTo, src, dst>>
  <2>1. DataOK'
    BY <1>6, SameData DEF IInv
  <2>2. BehindCursorEmpty'
    BY <1>1, <1>5, <1>6, PassPage DEF NextPage
  <2> QED
    BY <1>3, <1>6, <2>1, <2>2
<1>7. CASE /\ ~ Skips(from, lba)
           /\ \E to \in Address : FreeSlot(src, to) /\ CopyPage(lba, from, to)
           /\ NextPage
           /\ UNCHANGED <<pc, returnTo, src, dst>>
  <2>1. PICK b \in Block, p \in PageIndex :
          FreeSlot(src, <<b, p>>) /\ CopyPage(lba, from, <<b, p>>)
    BY <1>7 DEF Address
  <2>2. b # src /\ FirstFreePage(b, p)
    BY <2>1 DEF FreeSlot
  <2>3. DataOK' /\ BehindCursorEmpty'
    BY <1>1, <1>5, <1>7, <2>1, <2>2, MovePage
  <2> QED
    BY <1>3, <1>7, <2>3
<1>8. CASE AbortCycle /\ UNCHANGED <<flashVars, mappingTable>>
  <2>1. DataOK'
    BY <1>8, SameData DEF IInv
  <2>2. pc \in GCPhases /\ gcCyclesRun' \in Nat
    BY <1>1 DEF GCPhases, IInv, GCTypeOK
  <2> QED
    BY <1>1, <1>8, <2>1, <2>2, ReturnControl DEF IInv, AbortCycle
<1> QED
  BY <1>4, <1>6, <1>7, <1>8

\* The break on a full destination is dead: the page of dst under the cursor
\* is free.
LEMMA MoveInv ==
  ASSUME IInv, NoLBA \notin LBA, WLMove, UNCHANGED writing
  PROVE  IInv'
<1> DEFINE from == <<src, cursor>>
<1>1. /\ pc = "move" /\ cursor < PagesPerBlock
      /\ src \in Block /\ cursor \in PageIndex /\ cursor + 1 \in 0 .. PagesPerBlock
      /\ dst \in Block /\ dst # src
      /\ UNCHANGED <<gcCyclesRun, wearLevelInterval, pc, returnTo, src, dst>>
  BY GeometryAssumption DEF WLMove, IInv, LoopsOK, GCTypeOK, PageIndex
<1>2. from \in Address
  BY <1>1 DEF Address
<1>3. \A q \in PageIndex : q >= cursor => pageState[<<dst, q>>] = "free"
  BY <1>1 DEF IInv, LoopsOK
<1>4. ASSUME NextPage, DataOK', BehindCursorEmpty',
             \A q \in PageIndex : q > cursor => pageState'[<<dst, q>>] = "free"
      PROVE  IInv'
  <2>1. GCTypeOK'
    BY <1>1, <1>4 DEF IInv, GCTypeOK, NextPage
  <2>2. ControlOK'
    BY <1>1 DEF IInv, ControlOK, Busy
  <2>3. \A q \in PageIndex : q >= cursor' => pageState'[<<dst, q>>] = "free"
    BY <1>1, <1>4 DEF NextPage, PageIndex
  <2>4. LoopsOK'
    BY <1>1, <1>4, <2>3 DEF LoopsOK
  <2> QED
    BY <1>4, <2>1, <2>2, <2>4 DEF IInv
<1>5. cursor \in FreePages(dst) /\ HasFreePage(dst)
  <2>1. cursor >= cursor
    BY <1>1 DEF PageIndex
  <2>2. cursor \in FreePages(dst)
    BY <1>1, <1>3, <2>1 DEF FreePages, PagesIn
  <2> QED
    BY <2>2 DEF HasFreePage
<1>6. PICK lba \in FindLogicalAddress(from) :
        \/ /\ Skips(from, lba)
           /\ NextPage
           /\ UNCHANGED <<flashVars, mappingTable>>
        \/ /\ ~ Skips(from, lba)
           /\ \E p \in PageIndex :
                FirstFreePage(dst, p) /\ CopyPage(lba, from, <<dst, p>>)
           /\ NextPage
  BY <1>5 DEF WLMove
<1>7. /\ Skips(from, lba) => \A l \in LBA : mappingTable[l] # from
      /\ ~ Skips(from, lba) => lba \in LBA /\ mappingTable[lba] = from
  BY <1>2, FindFacts DEF IInv
<1>8. CASE /\ Skips(from, lba)
           /\ NextPage
           /\ UNCHANGED <<flashVars, mappingTable>>
  <2>1. DataOK'
    BY <1>8, SameData DEF IInv
  <2>2. BehindCursorEmpty'
    BY <1>1, <1>7, <1>8, PassPage DEF NextPage
  <2>3. \A q \in PageIndex : q > cursor => pageState'[<<dst, q>>] = "free"
    BY <1>1, <1>3, <1>8 DEF flashVars, PageIndex
  <2> QED
    BY <1>4, <1>8, <2>1, <2>2, <2>3
<1>9. CASE /\ ~ Skips(from, lba)
           /\ \E p \in PageIndex :
                FirstFreePage(dst, p) /\ CopyPage(lba, from, <<dst, p>>)
           /\ NextPage
  <2>1. PICK p \in PageIndex :
          FirstFreePage(dst, p) /\ CopyPage(lba, from, <<dst, p>>)
    BY <1>9
  <2>2. /\ DataOK' /\ BehindCursorEmpty'
        /\ \A a \in Address : a # <<dst, p>> => pageState'[a] = pageState[a]
    BY <1>1, <1>7, <1>9, <2>1, MovePage
  <2>3. p <= cursor
    BY <1>5, <2>1 DEF FirstFreePage
  <2>4. \A q \in PageIndex : q > cursor => pageState'[<<dst, q>>] = "free"
    BY <1>1, <1>3, <2>2, <2>3 DEF Address, PageIndex
  <2> QED
    BY <1>4, <1>9, <2>2, <2>4
<1> QED
  BY <1>6, <1>8, <1>9

LEMMA EraseInv ==
  ASSUME IInv, GCErase \/ WLErase, UNCHANGED writing
  PROVE  IInv'
<1>1. /\ pc \in {"migrate", "move"} /\ cursor = PagesPerBlock /\ src \in Block
      /\ EraseBlock(src) /\ UNCHANGED <<mappingTable, wearLevelInterval>>
  BY DEF GCErase, WLErase, IInv, LoopsOK
<1>2. DataOK'
  BY <1>1, SourceEmptied, EraseBlockData DEF IInv
<1>3. gcCyclesRun' \in Nat
  BY DEF GCErase, WLErase, IInv, GCTypeOK
<1>4. CASE Return
  BY <1>1, <1>2, <1>3, <1>4, ReturnControl DEF IInv, GCPhases
<1>5. CASE GCErase /\ pc' = "wear" /\ src' = NoBlock /\ cursor' = 0
           /\ UNCHANGED <<returnTo, dst>>
  <2>1. GCTypeOK'
    BY <1>1, <1>3, <1>5, GeometryAssumption
    DEF IInv, GCTypeOK, GCPhases, CallerPhases
  <2>2. ControlOK'
    BY <1>1, <1>5 DEF IInv, ControlOK, Busy, GCPhases
  <2>3. LoopsOK'
    BY <1>5 DEF LoopsOK
  <2> QED
    BY <1>2, <2>1, <2>2, <2>3 DEF IInv
<1> QED
  BY <1>4, <1>5 DEF GCErase, WLErase

-----------------------------------------------------------------------------
(* The theorems. *)

LEMMA NextIInv ==
  ASSUME NoLBA \notin LBA, IInv, [Next]_vars
  PROVE  IInv'
<1>1. CASE Host
  BY <1>1, HostInv
<1>2. CASE Program \/ ForceGC \/ DropWrite
  BY <1>2, NandWriteInv
<1>3. CASE Collect
  BY <1>3, SelectInv, MigrateInv, MoveInv, EraseInv DEF Collect, GCStep
<1>4. CASE UNCHANGED vars
  <2>1. DataOK'
    BY <1>4, SameData DEF IInv, vars
  <2>2. GCTypeOK' /\ ControlOK'
    BY <1>4 DEF IInv, vars, gcVars, GCTypeOK, ControlOK, Busy
  <2>3. LoopsOK'
    BY <1>4 DEF IInv, vars, gcVars, flashVars, LoopsOK, BehindCursorEmpty, HasMapping
  <2> QED
    BY <2>1, <2>2, <2>3 DEF IInv
<1> QED
  BY <1>1, <1>2, <1>3, <1>4 DEF Next, Controller

THEOREM Invariance ==
  ASSUME NoLBA \notin LBA
  PROVE  Spec => []IInv
<1>1. IInv /\ [Next]_vars => IInv'
  BY NextIInv
<1> QED
  BY InitIInv, <1>1, PTL DEF Spec

\* Types, in every reachable state of every drive whose host keeps clear of -1.
THEOREM TypeCorrectness ==
  ASSUME NoLBA \notin LBA
  PROVE  Spec => []TypeOK
<1>1. IInv => TypeOK
  BY DEF IInv, DataOK, ControlOK, TypeOK
<1> QED
  BY Invariance, <1>1, PTL

\* No collection, forced collection, aborted collection or wear-leveling pass
\* ever leaves a table entry that names a free or stale page, or two entries
\* that name one page, whatever the geometry and however full the drive is.
THEOREM MappingNeverDangles ==
  ASSUME NoLBA \notin LBA
  PROVE  Spec => []MappingIntegrity
<1>1. IInv => MappingIntegrity
  BY DEF IInv, DataOK
<1> QED
  BY Invariance, <1>1, PTL

\* Pages of a block are programmed in ascending order between two erases.
THEOREM PagesProgrammedInOrder ==
  ASSUME NoLBA \notin LBA
  PROVE  Spec => []ProgrammedInOrder
<1>1. IInv => ProgrammedInOrder
  BY DEF IInv, DataOK
<1> QED
  BY Invariance, <1>1, PTL

-----------------------------------------------------------------------------
(* Implementation of LogicalDevice. *)

\* A copied page reads as before, through the new table.
LEMMA CopyPageStore ==
  ASSUME DataOK, NEW lba \in LBA, NEW from \in Address,
         NEW b \in Block, NEW p \in PageIndex,
         mappingTable[lba] = from, FirstFreePage(b, p),
         CopyPage(lba, from, <<b, p>>)
  PROVE  Store' = Store
<1> DEFINE to == <<b, p>>
<1>1. /\ pageData' = [pageData EXCEPT ![to] = pageData[from]]
      /\ mappingTable' = [mappingTable EXCEPT ![lba] = to]
  BY DEF CopyPage, ProgramPage, Remapped
<1>2. /\ to \in Address /\ to # Unmapped /\ from # Unmapped
      /\ \A l \in LBA : mappingTable[l] # to
  BY FirstFreeFacts, UnmappedAssumption DEF Address
<1>3. ASSUME NEW l \in LBA
      PROVE  (IF HasMapping(l) THEN pageData[mappingTable[l]] ELSE Unmapped)'
               = IF HasMapping(l) THEN pageData[mappingTable[l]] ELSE Unmapped
  BY <1>1, <1>2 DEF DataOK, FlashTypeOK, MappingTypeOK, HasMapping
<1> QED
  BY <1>3 DEF Store

\* A collection or a wear-leveling pass is invisible.
LEMMA CollectStore ==
  ASSUME IInv, NoLBA \notin LBA, GCStep
  PROVE  Store' = Store
<1>1. CASE UNCHANGED <<flashVars, mappingTable>>
  BY <1>1 DEF Store, HasMapping, flashVars
<1>2. CASE GCMigrate \/ WLMove
  <2>1. /\ src \in Block /\ <<src, cursor>> \in Address
    BY <1>2, GeometryAssumption
    DEF GCMigrate, WLMove, IInv, LoopsOK, GCTypeOK, Address, PageIndex
  <2>2. CASE ~ UNCHANGED <<flashVars, mappingTable>>
    <3>1. PICK lba \in FindLogicalAddress(<<src, cursor>>),
               b \in Block, p \in PageIndex :
            /\ ~ Skips(<<src, cursor>>, lba)
            /\ FirstFreePage(b, p)
            /\ CopyPage(lba, <<src, cursor>>, <<b, p>>)
      <4>1. CASE GCMigrate
        BY <2>2, <4>1 DEF GCMigrate, FreeSlot, Address
      <4>2. CASE WLMove
        <5>1. dst \in Block
          BY <4>2 DEF WLMove, IInv, LoopsOK
        <5> QED
          BY <2>2, <4>2, <5>1 DEF WLMove
      <4> QED
        BY <1>2, <4>1, <4>2
    <3>2. lba \in LBA /\ mappingTable[lba] = <<src, cursor>>
      BY <2>1, <3>1, FindFacts DEF IInv
    <3> QED
      BY <2>1, <3>1, <3>2, CopyPageStore DEF IInv
  <2> QED
    BY <1>1, <2>2
<1>3. CASE GCErase \/ WLErase
  <2>1. /\ pc \in {"migrate", "move"} /\ cursor = PagesPerBlock /\ src \in Block
        /\ EraseBlock(src) /\ UNCHANGED mappingTable
    BY <1>3 DEF GCErase, WLErase, IInv, LoopsOK
  <2>2. \A l \in LBA : HasMapping(l) => mappingTable[l][1] # src
    BY <2>1, SourceEmptied
  <2>3. ASSUME NEW l \in LBA
        PROVE  (IF HasMapping(l) THEN pageData[mappingTable[l]] ELSE Unmapped)'
                 = IF HasMapping(l) THEN pageData[mappingTable[l]] ELSE Unmapped
    BY <2>1, <2>2 DEF IInv, DataOK, MappingTypeOK, HasMapping, EraseBlock
  <2> QED
    BY <2>3 DEF Store
<1> QED
  BY <1>1, <1>2, <1>3 DEF GCStep, GCSelect, WLSelect

\* The new page is what its LBA reads as from now on; no other LBA notices.
LEMMA ProgramStore ==
  ASSUME IInv, Program
  PROVE  /\ writing \in Write
         /\ Store' = [Store EXCEPT ![writing.lba] = writing.data]
<1>1. writing \in Write
  BY DEF IInv, Program, ControlOK, Busy, GCPhases
<1>2. PICK b \in Block, p \in PageIndex :
        /\ FirstFreePage(b, p)
        /\ pageData' = [pageData EXCEPT ![<<b, p>>] = writing.data]
        /\ mappingTable' = [mappingTable EXCEPT ![writing.lba] = <<b, p>>]
  BY DEF Program, Remapped
<1> DEFINE new == <<b, p>>
<1>3. writing.lba \in LBA /\ new \in Address /\ new # Unmapped
  BY <1>1, UnmappedAssumption DEF Write, Address
<1>4. \A l \in LBA : mappingTable[l] # new
  BY <1>2, FirstFreeFacts DEF IInv
<1>5. ASSUME NEW l \in LBA
      PROVE  (IF HasMapping(l) THEN pageData[mappingTable[l]] ELSE Unmapped)'
               = IF l = writing.lba THEN writing.data
                 ELSE IF HasMapping(l) THEN pageData[mappingTable[l]] ELSE Unmapped
  BY <1>2, <1>3, <1>4
  DEF IInv, DataOK, FlashTypeOK, MappingTypeOK, HasMapping
<1>6. Store' = [Store EXCEPT ![writing.lba] = writing.data]
  BY <1>5 DEF Store
<1> QED
  BY <1>1, <1>6

\* A nandWrite that starts changes nothing a read can see.
LEMMA BeginStore ==
  ASSUME IInv, pc = "idle", NEW l \in LBA, NEW d \in Data, BeginNandWrite(l, d)
  PROVE  writing = NoWrite /\ writing' = [lba |-> l, data |-> d] /\ Store' = Store
<1>1. writing = NoWrite
  BY DEF IInv, ControlOK, Busy, GCPhases
<1>2. Store' = Store
  BY DEF BeginNandWrite, Store, HasMapping, flashVars
<1> QED
  BY <1>1, <1>2 DEF BeginNandWrite

\* Every step of the code accepts a write, commits it, drops it on a full drive
\* or leaves the store alone.
LEMMA StepOfStore ==
  ASSUME IInv, NoLBA \notin LBA, [Next]_vars
  PROVE  \/ \E l \in LBA, d \in Data : Lossy!Accept(l, d)
         \/ Lossy!Commit
         \/ DropWrite /\ Lossy!Drop
         \/ UNCHANGED Lossy!deviceVars
<1> USE DEF Lossy!deviceVars
<1>1. ASSUME NEW l \in LBA, NEW d \in Data, HostWrite(l, d)
      PROVE  Lossy!Accept(l, d)
  BY <1>1, BeginStore DEF HostWrite, Idle, Lossy!Accept
<1>2. CASE HostCollect \/ (\E n \in Intervals : HostSetInterval(n)) \/ ForceGC
  BY <1>2 DEF HostCollect, HostSetInterval, ForceGC, Store, HasMapping, flashVars
<1>3. CASE Program
  <2>1. writing # NoWrite
    BY <1>3, ProgramStore, HostAssumption
  <2> QED
    BY <1>3, <2>1, ProgramStore DEF Program, Finish, Lossy!Commit
<1>4. CASE DropWrite
  <2>1. writing \in Write
    BY <1>4 DEF DropWrite, IInv, ControlOK, Busy, GCPhases
  <2>2. Store' = Store
    BY <1>4 DEF DropWrite, Store, HasMapping, flashVars
  <2> QED
    BY <1>4, <2>1, <2>2, HostAssumption DEF DropWrite, Finish, Lossy!Drop
<1>5. CASE Collect
  BY <1>5, CollectStore DEF Collect
<1>6. CASE UNCHANGED vars
  BY <1>6 DEF vars, Store, HasMapping, flashVars
<1> QED
  BY <1>1, <1>2, <1>3, <1>4, <1>5, <1>6 DEF Next, Host, Controller

LEMMA InitOfStore == Init => Lossy!DeviceInit
BY DEF Init, MappingInit, Lossy!DeviceInit, Store, HasMapping

\* Together, nandWrite, garbage collection and wear leveling are an atomic
\* store: each step of the code is one step of LogicalDevice or no step.
THEOREM ImplementsLogicalDevice ==
  ASSUME NoLBA \notin LBA
  PROVE  Spec => AtomicStore
<1>1. IInv /\ [Next]_vars => [Lossy!DeviceNext]_(Lossy!deviceVars)
  BY StepOfStore DEF Lossy!DeviceNext
<1> QED
  BY Invariance, InitOfStore, <1>1, PTL DEF Spec, AtomicStore, Lossy!DeviceSpec

-----------------------------------------------------------------------------
(* Wear leveling and the out-of-place writes. *)

\* While a pass moves pages one by one, its blocks stay as far apart in wear
\* as they were when it chose them.
WearGap ==
  pc = "move" => eraseCount[dst] - eraseCount[src] >= WEAR_LEVEL_THRESHOLD

\* Only staticWearLevel starts moving, and its loop erases nothing.
LEMMA WearGapStep ==
  ASSUME IInv, WearGap, [Next]_vars
  PROVE  WearGap'
<1>1. CASE WLSelect
  BY <1>1 DEF WLSelect, WearLevelPair, WearGap, Return, flashVars, IInv, GCTypeOK, CallerPhases
<1>2. CASE WLMove
  BY <1>2 DEF WLMove, CopyPage, ProgramPage, WearGap, flashVars
<1>3. CASE UNCHANGED vars
  BY <1>3 DEF vars, gcVars, flashVars, WearGap
<1>4. CASE GCSelect \/ GCMigrate \/ GCErase \/ WLErase
  <2>1. pc' # "move"
    BY <1>4 DEF GCSelect, GCMigrate, GCErase, WLErase, AbortCycle, Return,
                IInv, GCTypeOK, CallerPhases
  <2> QED
    BY <2>1 DEF WearGap
<1>5. CASE Host \/ Program \/ ForceGC \/ DropWrite
  <2>1. pc' # "move"
    BY <1>5 DEF Host, HostWrite, Idle, BeginNandWrite, HostCollect, HostSetInterval,
                CallGC, Program, ForceGC, DropWrite, Finish
  <2> QED
    BY <2>1 DEF WearGap
<1> QED
  BY <1>1, <1>2, <1>3, <1>4, <1>5 DEF Next, Controller, Collect, GCStep

LEMMA WearGapAlways ==
  ASSUME NoLBA \notin LBA
  PROVE  Spec => [](IInv /\ WearGap)
<1>1. Init => WearGap
  BY DEF Init, GCInit, WearGap
<1>2. WearGap /\ IInv /\ [Next]_vars => WearGap'
  BY WearGapStep
<1> QED
  BY Invariance, <1>1, <1>2, PTL DEF Spec

\* The block a wear-leveling pass erases ends up less worn than its destination:
\* whatever the geometry, a pass never raises the highest erase count.
THEOREM PeakWearKept ==
  ASSUME NoLBA \notin LBA
  PROVE  Spec => WearPeakNotRaised
<1>1. IInv /\ WearGap /\ [Next]_vars
        => [WLErase => \E b \in Block : eraseCount'[src] < eraseCount[b]]_vars
  <2> SUFFICES ASSUME IInv, WearGap, WLErase
               PROVE  \E b \in Block : eraseCount'[src] < eraseCount[b]
    OBVIOUS
  <2>1. /\ pc = "move" /\ src \in Block /\ dst \in Block
        /\ eraseCount \in [Block -> Nat]
    BY DEF WLErase, IInv, LoopsOK, DataOK, FlashTypeOK
  <2>2. eraseCount'[src] = eraseCount[src] + 1
    BY <2>1 DEF WLErase, EraseBlock
  <2>3. eraseCount[dst] - eraseCount[src] >= 3
    BY <2>1 DEF WearGap, WEAR_LEVEL_THRESHOLD
  <2> QED
    BY <2>1, <2>2, <2>3
<1> QED
  BY WearGapAlways, <1>1, PTL DEF Spec, WearPeakNotRaised

-----------------------------------------------------------------------------
(* The destination of a pass. *)

\* A wear-leveling pass always fits its destination, so that it never erases a
\* source with live pages left in it.
THEOREM PassFitsDestination ==
  ASSUME NoLBA \notin LBA
  PROVE  Spec => []WearLevelFits
<1>1. IInv => WearLevelFits
  <2> SUFFICES ASSUME IInv, pc = "move"
               PROVE  Cardinality(FreePages(dst)) >= PagesPerBlock - cursor
    BY DEF WearLevelFits
  <2> DEFINE ahead == cursor .. PagesPerBlock - 1
  <2>1. /\ cursor \in Nat /\ cursor <= PagesPerBlock /\ PagesPerBlock \in Nat
        /\ \A q \in PageIndex : q >= cursor => pageState[<<dst, q>>] = "free"
    BY GeometryAssumption DEF IInv, GCTypeOK, LoopsOK
  <2>2. IsFiniteSet(FreePages(dst))
    <3>1. IsFiniteSet(PageIndex)
      BY <2>1, FS_Interval DEF PageIndex
    <3>2. FreePages(dst) \in SUBSET PageIndex
      BY DEF FreePages, PagesIn
    <3> QED
      BY <3>1, <3>2, FS_Subset
  <2>3. ahead \in SUBSET FreePages(dst)
    BY <2>1 DEF FreePages, PagesIn, PageIndex
  <2>4. Cardinality(ahead) <= Cardinality(FreePages(dst))
    BY <2>2, <2>3, FS_Subset
  <2>5. Cardinality(ahead) = PagesPerBlock - cursor
    <3>1. cursor \in Int /\ PagesPerBlock - 1 \in Int
      BY <2>1
    <3>2. Cardinality(ahead)
            = IF cursor > PagesPerBlock - 1 THEN 0 ELSE PagesPerBlock - 1 - cursor + 1
      BY <3>1, FS_Interval
    <3> QED
      BY <2>1, <3>2
  <2>6. Cardinality(FreePages(dst)) \in Nat
    BY <2>2, FS_CardinalityType
  <2>7. Cardinality(ahead) \in Int
    BY <2>1, <2>5
  <2> HIDE DEF ahead
  <2> QED
    BY <2>1, <2>4, <2>5, <2>6, <2>7
<1> QED
  BY Invariance, <1>1, PTL

-----------------------------------------------------------------------------
(* Out-of-place writes. *)

\* The page a copy goes to was free.
LEMMA CopiesToFreePage ==
  ASSUME NEW lba, NEW from, NEW b, NEW p, FirstFreePage(b, p),
         CopyPage(lba, from, <<b, p>>), pageData \in [Address -> Data \cup {Blank}],
         NEW a \in Address, pageState[a] # "free"
  PROVE  pageData'[a] = pageData[a]
<1>1. pageState[<<b, p>>] = "free"
  BY DEF FirstFreePage, FreePages, PagesIn
<1>2. pageData' = [pageData EXCEPT ![<<b, p>>] = pageData[from]]
  BY DEF CopyPage, ProgramPage
<1> QED
  BY <1>1, <1>2

\* No step of any host call, collection or wear-leveling pass changes what a
\* used page holds, other than by erasing its whole block.
THEOREM OutOfPlaceWrites ==
  ASSUME NoLBA \notin LBA
  PROVE  Spec => EraseBeforeWrite
<1> DEFINE A == \A a \in Address :
                  pageState[a] # "free" /\ pageData'[a] # pageData[a]
                    => /\ FullyFree(a[1])'
                       /\ eraseCount'[a[1]] = eraseCount[a[1]] + 1
<1>1. IInv /\ [Next]_vars => [A]_flashVars
  <2> SUFFICES ASSUME IInv, [Next]_vars, NEW a \in Address,
                      pageState[a] # "free", pageData'[a] # pageData[a]
               PROVE  /\ FullyFree(a[1])'
                      /\ eraseCount'[a[1]] = eraseCount[a[1]] + 1
    OBVIOUS
  <2>0. ~ UNCHANGED <<flashVars, mappingTable>>
    BY DEF flashVars
  <2>1. pageData \in [Address -> Data \cup {Blank}] /\ eraseCount \in [Block -> Nat]
        /\ pageState \in [Address -> {"free", "valid", "invalid"}]
    BY DEF IInv, DataOK, FlashTypeOK
  <2>2. ASSUME NEW lba, NEW from, NEW b \in Block, NEW p \in PageIndex,
               FirstFreePage(b, p), CopyPage(lba, from, <<b, p>>)
        PROVE  FALSE
    BY <2>1, <2>2, CopiesToFreePage
  <2>3. ~ GCMigrate
    <3> SUFFICES ASSUME GCMigrate PROVE FALSE
      OBVIOUS
    <3>1. PICK lba \in FindLogicalAddress(<<src, cursor>>), to \in Address :
            FreeSlot(src, to) /\ CopyPage(lba, <<src, cursor>>, to)
      BY <2>0 DEF GCMigrate
    <3>2. PICK b \in Block, p \in PageIndex : to = <<b, p>>
      BY DEF Address
    <3> QED
      BY <2>2, <3>1, <3>2 DEF FreeSlot
  <2>4. ~ WLMove
    <3> SUFFICES ASSUME WLMove PROVE FALSE
      OBVIOUS
    <3>1. dst \in Block
      BY DEF WLMove, IInv, LoopsOK
    <3>2. PICK lba \in FindLogicalAddress(<<src, cursor>>), p \in PageIndex :
            FirstFreePage(dst, p) /\ CopyPage(lba, <<src, cursor>>, <<dst, p>>)
      BY <2>0 DEF WLMove
    <3> QED
      BY <2>2, <3>1, <3>2
  <2>5. ~ Program
    BY <2>1 DEF Program, FirstFreePage, FreePages, PagesIn
  <2>6. GCErase \/ WLErase
    BY <2>3, <2>4, <2>5 DEF Next, Host, Controller, Collect, GCStep, HostWrite,
         BeginNandWrite, HostCollect, HostSetInterval, ForceGC, DropWrite, GCSelect,
         WLSelect, vars, flashVars
  <2>7. PICK b \in Block : b = src /\ EraseBlock(b)
    BY <2>6 DEF GCErase, WLErase, IInv, LoopsOK
  <2>8. a[1] = b
    BY <2>1, <2>7 DEF EraseBlock
  <2>9. FullyFree(b)'
    BY <2>1, <2>7 DEF EraseBlock, FullyFree, FreePages, PagesIn, Address
  <2>10. eraseCount'[b] = eraseCount[b] + 1
    BY <2>1, <2>7 DEF EraseBlock
  <2> QED
    BY <2>8, <2>9, <2>10
<1> QED
  BY Invariance, <1>1, PTL DEF Spec, EraseBeforeWrite

-----------------------------------------------------------------------------
(***************************************************************************)
(* The capacity of the drive: what a spare block and a watermark of a      *)
(* block or more (OverProvisioned) buy, and why the forced second          *)
(* collection of nandWrite never helps.                                    *)
(***************************************************************************)

-----------------------------------------------------------------------------
(* Counting pages. *)

PagesOf(b) == {a \in Address : a[1] = b}

\* Sets of pages are finite, and a smaller set has no more pages.
LEMMA PageCounting ==
  /\ IsFiniteSet(Address)
  /\ Cardinality(Address) = NumBlocks * PagesPerBlock
  /\ \A S \in SUBSET Address : IsFiniteSet(S) /\ Cardinality(S) \in Nat
  /\ \A S \in SUBSET Address : \A T \in SUBSET S : Cardinality(T) <= Cardinality(S)
<1>1. /\ IsFiniteSet(Block) /\ Cardinality(Block) = NumBlocks
      /\ IsFiniteSet(PageIndex) /\ Cardinality(PageIndex) = PagesPerBlock
  <2>1. ASSUME NEW n \in Nat
        PROVE  IsFiniteSet(0 .. n - 1) /\ Cardinality(0 .. n - 1) = n
    <3>1. 0 \in Int /\ n - 1 \in Int
      OBVIOUS
    <3>2. /\ IsFiniteSet(0 .. n - 1)
          /\ Cardinality(0 .. n - 1) = IF 0 > n - 1 THEN 0 ELSE n - 1 - 0 + 1
      BY <3>1, FS_Interval
    <3> QED
      BY <3>2
  <2> QED
    BY <2>1, GeometryAssumption DEF Block, PageIndex
<1>2. IsFiniteSet(Address) /\ Cardinality(Address) = NumBlocks * PagesPerBlock
  BY <1>1, FS_Product DEF Address
<1>3. ASSUME NEW S \in SUBSET Address
      PROVE  IsFiniteSet(S) /\ Cardinality(S) \in Nat
  BY <1>2, FS_Subset, FS_CardinalityType
<1>4. ASSUME NEW S \in SUBSET Address, NEW T \in SUBSET S
      PROVE  Cardinality(T) <= Cardinality(S)
  BY <1>3, FS_Subset
<1> QED
  BY <1>2, <1>3, <1>4

\* Two sets of pages that do not meet.
LEMMA DisjointPages ==
  ASSUME NEW S \in SUBSET Address, NEW T \in SUBSET Address, S \cap T = {}
  PROVE  Cardinality(S \cup T) = Cardinality(S) + Cardinality(T)
<1>1. IsFiniteSet(S) /\ IsFiniteSet(T)
  BY PageCounting
<1>2. Cardinality(S) \in Nat /\ Cardinality(T) \in Nat
  BY PageCounting
<1>3. Cardinality(S \cup T) = Cardinality(S) + Cardinality(T) - Cardinality(S \cap T)
  BY <1>1, FS_Union
<1>4. Cardinality(S \cap T) = 0
  BY FS_EmptySet
<1> QED
  BY <1>2, <1>3, <1>4

\* A block has PagesPerBlock pages.
LEMMA BlockSize ==
  ASSUME NEW b \in Block
  PROVE  /\ PagesOf(b) \in SUBSET Address
         /\ Cardinality(PagesOf(b)) = PagesPerBlock
<1>1. PagesOf(b) = {b} \X PageIndex
  BY DEF PagesOf, Address
<1>2. IsFiniteSet({b}) /\ Cardinality({b}) = 1
  BY FS_Singleton
<1>3. IsFiniteSet(PageIndex) /\ Cardinality(PageIndex) = PagesPerBlock
  <2>1. 0 \in Int /\ PagesPerBlock - 1 \in Int
    BY GeometryAssumption
  <2>2. /\ IsFiniteSet(PageIndex)
        /\ Cardinality(PageIndex)
             = IF 0 > PagesPerBlock - 1 THEN 0 ELSE PagesPerBlock - 1 - 0 + 1
    BY <2>1, FS_Interval DEF PageIndex
  <2> QED
    BY <2>2, GeometryAssumption
<1>4. Cardinality(PagesOf(b)) = 1 * PagesPerBlock
  BY <1>1, <1>2, <1>3, FS_Product
<1> QED
  BY <1>4, GeometryAssumption DEF PagesOf

-----------------------------------------------------------------------------
(* The inductive invariant of an over-provisioned drive. *)

\* The only valid pages nobody maps to are the copies a collection or a pass
\* has already moved out of the block it is about to erase.
OrphansBehindCursor ==
  \A a \in Address :
    pageState[a] = "valid" /\ ~ Live(a)
      => pc \in {"migrate", "move"} /\ a[1] = src /\ a[2] < cursor

ToMove == {a \in PagesOf(src) : a[2] >= cursor /\ pageState[a] = "valid"}
FreeElsewhere == FreeAddresses \ PagesOf(src)

\* How many pages are free in each phase.  A collection leaves a whole free
\* block, a nandWrite takes one page of it; the migration always has room for
\* what is still ahead of its cursor, so nothing aborts and nothing is forced.
ReserveOK ==
  /\ pc \in {"idle", "select"} => Cardinality(FreeAddresses) >= PagesPerBlock - 1
  /\ pc \in {"program", "wear"} => Cardinality(FreeAddresses) >= PagesPerBlock
  /\ pc = "migrate" => Cardinality(ToMove) <= Cardinality(FreeElsewhere)
  /\ pc # "retry" /\ returnTo # "retry"

CapacityInv == OrphansBehindCursor /\ ReserveOK

LEMMA FreeCounting ==
  /\ FreeAddresses \in SUBSET Address
  /\ Cardinality(FreeAddresses) \in Nat
BY PageCounting DEF FreeAddresses

\* A step that leaves array and table alone.
LEMMA SamePages ==
  ASSUME UNCHANGED <<flashVars, mappingTable>>
  PROVE  /\ FreeAddresses' = FreeAddresses
         /\ \A a \in Address : Live(a)' <=> Live(a)
BY DEF FreeAddresses, Live, flashVars

\* Such a step, taken outside the loops or passing over a page in one of them,
\* makes no orphan.
LEMMA SameOrphans ==
  ASSUME UNCHANGED <<flashVars, mappingTable>>, OrphansBehindCursor,
         \/ pc \notin {"migrate", "move"}
         \/ pc' = pc /\ src' = src /\ cursor \in Int /\ cursor' = cursor + 1
  PROVE  OrphansBehindCursor'
<1> SUFFICES ASSUME NEW a \in Address, pageState'[a] = "valid", ~ Live(a)'
             PROVE  pc' \in {"migrate", "move"} /\ a[1] = src' /\ a[2] < cursor'
  BY DEF OrphansBehindCursor
<1>1. pageState[a] = "valid" /\ ~ Live(a)
  BY SamePages DEF flashVars
<1>2. pc \in {"migrate", "move"} /\ a[1] = src /\ a[2] < cursor
  BY <1>1 DEF OrphansBehindCursor
<1>3. a[2] \in Int
  BY DEF Address, PageIndex
<1> QED
  BY <1>2, <1>3

\* Every page is free, invalid or valid, and outside the two loops a valid page
\* is the page of an LBA: with a spare block there are a block's worth of free
\* and invalid pages.
LEMMA SpareBlock ==
  ASSUME IInv, OrphansBehindCursor, IsFiniteSet(LBA), OverProvisioned,
         pc \notin {"migrate", "move"}, Reclaimable = {}
  PROVE  Cardinality(FreeAddresses) >= PagesPerBlock
<1> DEFINE used == {a \in Address : pageState[a] = "valid"}
           mapped == {l \in LBA : HasMapping(l)}
           page == [l \in mapped |-> mappingTable[l]]
<1>1. \A a \in Address : pageState[a] # "invalid"
  <2> SUFFICES ASSUME NEW b \in Block, NEW p \in PageIndex, pageState[<<b, p>>] = "invalid"
               PROVE  FALSE
    BY DEF Address
  <2> QED
    BY DEF Reclaimable, InvalidPages, PagesIn
<1>2. Address = FreeAddresses \cup used /\ FreeAddresses \cap used = {}
  BY <1>1 DEF FreeAddresses, IInv, DataOK, FlashTypeOK
<1>3. Cardinality(used) <= Cardinality(LBA)
  <2>1. page \in Surjection(mapped, used)
    <3>1. ASSUME NEW l \in mapped
          PROVE  page[l] \in used
      BY DEF IInv, DataOK, MappingTypeOK, MappingIntegrity, HasMapping
    <3>2. ASSUME NEW a \in used
          PROVE  \E l \in mapped : page[l] = a
      <4>1. PICK l \in LBA : mappingTable[l] = a
        BY DEF OrphansBehindCursor, Live
      <4>2. l \in mapped
        BY <4>1, UnmappedAssumption DEF HasMapping
      <4> QED
        BY <4>1, <4>2
    <3> QED
      BY <3>1, <3>2 DEF Surjection
  <2>2. mapped \in SUBSET LBA
    OBVIOUS
  <2>3. /\ IsFiniteSet(mapped)
        /\ Cardinality(mapped) <= Cardinality(LBA)
    BY <2>2, FS_Subset
  <2>4. Cardinality(used) <= Cardinality(mapped)
    BY <2>1, <2>3, FS_Surjection
  <2>5. /\ Cardinality(mapped) \in Nat /\ Cardinality(LBA) \in Nat
        /\ Cardinality(used) \in Nat
    BY <2>3, FS_CardinalityType, PageCounting
  <2> HIDE DEF used, mapped
  <2> QED
    BY <2>3, <2>4, <2>5
<1>4. used \in SUBSET Address /\ Cardinality(used) \in Nat /\ Cardinality(LBA) \in Nat
  BY PageCounting, FS_CardinalityType
<1> HIDE DEF used
<1>5. Cardinality(Address) = Cardinality(FreeAddresses) + Cardinality(used)
  BY <1>2, <1>4, FreeCounting, DisjointPages
<1>6. Cardinality(LBA) + PagesPerBlock <= Cardinality(Address)
  BY PageCounting DEF OverProvisioned
<1> QED
  BY <1>3, <1>4, <1>5, <1>6, FreeCounting, GeometryAssumption

\* A block with a page to reclaim has fewer valid pages than there are free
\* pages in the other blocks.
LEMMA VictimFits ==
  ASSUME DataOK, Cardinality(FreeAddresses) >= PagesPerBlock - 1,
         NEW b \in Reclaimable
  PROVE  Cardinality({a \in PagesOf(b) : pageState[a] = "valid"})
           <= Cardinality(FreeAddresses \ PagesOf(b))
<1> DEFINE live == {a \in PagesOf(b) : pageState[a] = "valid"}
           freeHere == FreeAddresses \cap PagesOf(b)
           freeThere == FreeAddresses \ PagesOf(b)
<1>1. PICK p \in PageIndex : pageState[<<b, p>>] = "invalid"
  BY DEF Reclaimable, InvalidPages, PagesIn
<1>2. b \in Block /\ <<b, p>> \in PagesOf(b)
  BY DEF Reclaimable, PagesOf, Address
<1>3. /\ PagesOf(b) \in SUBSET Address
      /\ live \in SUBSET Address /\ freeHere \in SUBSET Address
      /\ freeThere \in SUBSET Address
      /\ live \cup freeHere \in SUBSET PagesOf(b)
  BY FreeCounting DEF PagesOf
<1>4. live \cap freeHere = {} /\ freeThere \cap freeHere = {}
      /\ freeThere \cup freeHere = FreeAddresses
  BY DEF FreeAddresses
<1>5. <<b, p>> \notin live \cup freeHere
  BY <1>1 DEF FreeAddresses
<1>6. /\ Cardinality(live) \in Nat /\ Cardinality(freeHere) \in Nat
      /\ Cardinality(freeThere) \in Nat
  BY <1>3, PageCounting
<1>7. Cardinality(live) + Cardinality(freeHere) <= PagesPerBlock - 1
  <2>1. Cardinality(live \cup freeHere) = Cardinality(live) + Cardinality(freeHere)
    BY <1>3, <1>4, DisjointPages
  <2>2. live \cup freeHere \in SUBSET (PagesOf(b) \ {<<b, p>>})
    BY <1>3, <1>5
  <2>3. Cardinality(live \cup freeHere) <= Cardinality(PagesOf(b) \ {<<b, p>>})
    <3>1. PagesOf(b) \ {<<b, p>>} \in SUBSET Address
      BY <1>3
    <3> HIDE DEF live, freeHere
    <3> QED
      BY <2>2, <3>1, PageCounting
  <2>4. Cardinality(PagesOf(b) \ {<<b, p>>}) = PagesPerBlock - 1
    <3>1. IsFiniteSet(PagesOf(b))
      BY <1>3, PageCounting
    <3>2. Cardinality(PagesOf(b)) = PagesPerBlock
      BY <1>2, BlockSize
    <3> QED
      BY <1>2, <3>1, <3>2, FS_RemoveElement
  <2> HIDE DEF live, freeHere
  <2> QED
    BY <2>1, <2>3, <2>4
<1>8. Cardinality(FreeAddresses) = Cardinality(freeThere) + Cardinality(freeHere)
  BY <1>3, <1>4, DisjointPages
<1> HIDE DEF live, freeHere, freeThere
<1>9. Cardinality(live) <= Cardinality(freeThere)
  BY <1>6, <1>7, <1>8, FreeCounting, GeometryAssumption
<1> QED
  BY <1>9 DEF live, freeThere

-----------------------------------------------------------------------------
(* The steps that preserve it. *)

\* A page copied out of src: one free page fewer, and the only page that loses
\* its LBA is the one under the cursor.
LEMMA CopiedPage ==
  ASSUME IInv, OrphansBehindCursor, pc \in {"migrate", "move"},
         cursor < PagesPerBlock,
         NEW lba \in LBA, mappingTable[lba] = <<src, cursor>>,
         NEW b \in Block, b # src, NEW p \in PageIndex, FirstFreePage(b, p),
         CopyPage(lba, <<src, cursor>>, <<b, p>>), NextPage, UNCHANGED <<src, pc>>
  PROVE  /\ OrphansBehindCursor'
         /\ FreeAddresses' = FreeAddresses \ {<<b, p>>}
         /\ <<b, p>> \in FreeAddresses
         /\ ToMove' = ToMove \ {<<src, cursor>>}
         /\ <<src, cursor>> \in ToMove
<1>1. /\ cursor \in PageIndex /\ cursor \in Nat /\ src \in Block
      /\ <<src, cursor>> \in Address /\ <<b, p>> \in Address
  BY GeometryAssumption DEF IInv, GCTypeOK, LoopsOK, PageIndex, Address
<1>2. /\ pageState' = [pageState EXCEPT ![<<b, p>>] = "valid"]
      /\ mappingTable' = [mappingTable EXCEPT ![lba] = <<b, p>>]
      /\ cursor' = cursor + 1
  BY DEF CopyPage, ProgramPage, Programmed, Remapped, NextPage
<1>3. pageState[<<b, p>>] = "free"
  BY FirstFreeFacts DEF IInv
<1>4. pageState[<<src, cursor>>] = "valid"
  BY <1>1, UnmappedAssumption DEF IInv, DataOK, MappingIntegrity, HasMapping
<1>5. \A a \in Address :
        pageState'[a] = IF a = <<b, p>> THEN "valid" ELSE pageState[a]
  BY <1>1, <1>2 DEF IInv, DataOK, FlashTypeOK
<1>6. OrphansBehindCursor'
  <2> SUFFICES ASSUME NEW a \in Address, pageState'[a] = "valid", ~ Live(a)'
               PROVE  a[1] = src /\ a[2] < cursor + 1
    BY <1>2 DEF OrphansBehindCursor
  <2>1. Live(<<b, p>>)'
    BY <1>2 DEF Live, IInv, DataOK, MappingTypeOK
  <2>2. a # <<b, p>> /\ pageState[a] = "valid"
    BY <1>5, <2>1
  <2>3. CASE Live(a)
    <3>1. PICK l \in LBA : mappingTable[l] = a
      BY <2>3 DEF Live
    <3>2. l = lba
      BY <1>2, <3>1 DEF Live, IInv, DataOK, MappingTypeOK
    <3> QED
      BY <1>1, <3>1, <3>2
  <2>4. CASE ~ Live(a)
    <3>1. a[1] = src /\ a[2] < cursor
      BY <2>2, <2>4 DEF OrphansBehindCursor
    <3>2. a[2] \in Int
      BY DEF Address, PageIndex
    <3> QED
      BY <1>1, <3>1, <3>2
  <2> QED
    BY <2>3, <2>4
<1>7. FreeAddresses' = FreeAddresses \ {<<b, p>>} /\ <<b, p>> \in FreeAddresses
  BY <1>1, <1>3, <1>5 DEF FreeAddresses
<1>8. ToMove' = ToMove \ {<<src, cursor>>}
  <2>1. \A a \in PagesOf(src) : a # <<b, p>>
    BY DEF PagesOf
  <2>2. \A a \in PagesOf(src) : a[2] \in Int /\ (a[2] = cursor <=> a = <<src, cursor>>)
    BY <1>1 DEF PagesOf, Address, PageIndex
  <2>3. \A a \in PagesOf(src) : a[2] >= cursor + 1 <=> a[2] >= cursor /\ a # <<src, cursor>>
    BY <1>1, <2>2
  <2>4. \A a \in PagesOf(src) : pageState'[a] = pageState[a]
    BY <1>5, <2>1 DEF PagesOf
  <2> QED
    BY <1>2, <2>3, <2>4 DEF ToMove, PagesOf
<1>9. <<src, cursor>> \in ToMove
  BY <1>1, <1>4 DEF ToMove, PagesOf
<1> QED
  BY <1>6, <1>7, <1>8, <1>9

\* After the erase no orphan is left, and at least the erased block is free.
LEMMA ErasedBlock ==
  ASSUME IInv, OrphansBehindCursor, pc \in {"migrate", "move"},
         cursor = PagesPerBlock, EraseBlock(src), UNCHANGED mappingTable
  PROVE  OrphansBehindCursor' /\ Cardinality(FreeAddresses') >= PagesPerBlock
<1>1. src \in Block
  BY DEF IInv, LoopsOK
<1>2. \A a \in Address :
        pageState'[a] = IF a[1] = src THEN "free" ELSE pageState[a]
  BY DEF EraseBlock
<1>3. OrphansBehindCursor'
  <2> SUFFICES ASSUME NEW a \in Address, pageState'[a] = "valid"
               PROVE  Live(a)'
    BY DEF OrphansBehindCursor
  <2>1. pageState[a] = "valid" /\ a[1] # src
    BY <1>2
  <2>2. Live(a)
    BY <2>1 DEF OrphansBehindCursor
  <2> QED
    BY <2>2 DEF Live
<1>4. PagesOf(src) \in SUBSET FreeAddresses'
  BY <1>2 DEF PagesOf, FreeAddresses
<1>5. FreeAddresses' \in SUBSET Address
  BY DEF FreeAddresses
<1>6. Cardinality(PagesOf(src)) <= Cardinality(FreeAddresses')
  BY <1>4, <1>5, PageCounting
<1>7. Cardinality(PagesOf(src)) = PagesPerBlock
  BY <1>1, BlockSize
<1> QED
  BY <1>3, <1>6, <1>7

\* nandWrite turns one free page into the page of its LBA and leaves the old
\* copy for the collector.
LEMMA ProgrammedPage ==
  ASSUME IInv, OrphansBehindCursor, Program
  PROVE  /\ OrphansBehindCursor'
         /\ \E a \in FreeAddresses : FreeAddresses' = FreeAddresses \ {a}
<1> DEFINE l0 == writing.lba
           old == mappingTable[l0]
<1>1. l0 \in LBA /\ pc \notin {"migrate", "move"}
  BY DEF IInv, ControlOK, Busy, GCPhases, Program, Write
<1>2. PICK b \in Block, p \in PageIndex :
        /\ FirstFreePage(b, p)
        /\ pageState' = IF HasMapping(l0)
                        THEN Invalidated(Programmed(pageState, <<b, p>>), old)
                        ELSE Programmed(pageState, <<b, p>>)
        /\ mappingTable' = [mappingTable EXCEPT ![l0] = <<b, p>>]
  BY DEF Program, Remapped
<1> DEFINE new == <<b, p>>
<1>3. new \in Address /\ pageState[new] = "free" /\ \A l \in LBA : mappingTable[l] # new
  BY <1>2, FirstFreeFacts DEF Address, IInv
<1>4. HasMapping(l0) => old \in Address /\ old # new /\ pageState[old] = "valid"
  BY <1>1, <1>3 DEF IInv, DataOK, MappingTypeOK, MappingIntegrity, HasMapping
<1>5. \A a \in Address :
        pageState'[a] = IF a = new THEN "valid"
                        ELSE IF HasMapping(l0) /\ a = old THEN "invalid"
                        ELSE pageState[a]
  BY <1>2, <1>3, <1>4 DEF IInv, DataOK, FlashTypeOK, Programmed, Invalidated
<1>6. OrphansBehindCursor'
  <2> SUFFICES ASSUME NEW a \in Address, pageState'[a] = "valid"
               PROVE  Live(a)'
    BY DEF OrphansBehindCursor
  <2>1. CASE a = new
    BY <1>1, <1>2, <2>1 DEF Live, IInv, DataOK, MappingTypeOK
  <2>2. CASE a # new
    <3>1. pageState[a] = "valid" /\ ~ (HasMapping(l0) /\ a = old)
      BY <1>5, <2>2
    <3>2. PICK l \in LBA : mappingTable[l] = a
      BY <1>1, <3>1 DEF OrphansBehindCursor, Live
    <3>3. l # l0
      BY <3>1, <3>2, UnmappedAssumption DEF HasMapping
    <3>4. mappingTable'[l] = a
      BY <1>2, <3>2, <3>3 DEF IInv, DataOK, MappingTypeOK
    <3> QED
      BY <3>4 DEF Live
  <2> QED
    BY <2>1, <2>2
<1>7. FreeAddresses' = FreeAddresses \ {new} /\ new \in FreeAddresses
  BY <1>3, <1>4, <1>5 DEF FreeAddresses
<1> QED
  BY <1>6, <1>7

\* With a watermark of at least a block, a nandWrite that does not collect first
\* finds a block's worth of free pages.
LEMMA WatermarkIsABlock ==
  ASSUME OverProvisioned, ~ ShouldTrigger(LowWatermark)
  PROVE  Cardinality(FreeAddresses) >= PagesPerBlock
<1> DEFINE free == Cardinality(FreeAddresses)
<1>1. /\ NumBlocks \in Nat /\ PagesPerBlock \in Nat /\ LowWatermark \in Int
      /\ free \in Nat
      /\ LowWatermark * NumBlocks >= 100
      /\ Cardinality(Address) = NumBlocks * PagesPerBlock
  BY GeometryAssumption, HostAssumption, FreeCounting, PageCounting DEF OverProvisioned
<1>2. CASE Address = {}
  <2>1. NumBlocks * PagesPerBlock = 0
    BY <1>1, <1>2, FS_EmptySet
  <2>2. NumBlocks # 0
    BY <1>1
  <2>3. PagesPerBlock = 0
    BY <1>1, <2>1, <2>2
  <2> QED
    BY <1>1, <2>3
<1>3. CASE Address # {}
  <2>1. free * 100 >= LowWatermark * (NumBlocks * PagesPerBlock)
    <3> DEFINE bound == LowWatermark * Cardinality(Address)
    <3>1. ~ (free * 100 < bound)
      BY <1>3 DEF ShouldTrigger
    <3>2. bound \in Int
      BY <1>1
    <3> QED
      BY <1>1, <3>1, <3>2
  <2>2. LowWatermark * (NumBlocks * PagesPerBlock)
          = (LowWatermark * NumBlocks) * PagesPerBlock
    BY <1>1
  <2>3. ASSUME NEW w \in Int, w >= 100
        PROVE  w * PagesPerBlock >= 100 * PagesPerBlock
    BY <1>1, <2>3
  <2>4. (LowWatermark * NumBlocks) * PagesPerBlock >= 100 * PagesPerBlock
    BY <1>1, <2>3
  <2>5. free * 100 >= 100 * PagesPerBlock
    BY <1>1, <2>1, <2>2, <2>4
  <2> QED
    BY <1>1, <2>5
<1> QED
  BY <1>2, <1>3

\* While a nandWrite is under way there is an LBA, so a block has a page: the
\* page it is about to program is free.
LEMMA NothingForced ==
  ASSUME IInv, ReserveOK, OverProvisioned, IsFiniteSet(LBA), pc = "program"
  PROVE  ~ NoFreeBlock
<1>1. LBA # {}
  BY DEF IInv, ControlOK, Busy, GCPhases, Write
<1>2. PagesPerBlock > 0
  <2>1. Cardinality(LBA) \in Nat /\ Cardinality(LBA) # 0
    BY <1>1, FS_CardinalityType, FS_EmptySet
  <2>2. Cardinality(LBA) + PagesPerBlock <= NumBlocks * PagesPerBlock
    BY DEF OverProvisioned
  <2>3. PagesPerBlock # 0
    BY <2>1, <2>2, GeometryAssumption
  <2> QED
    BY <2>3, GeometryAssumption
<1>3. FreeAddresses # {}
  BY <1>2, FS_EmptySet, FreeCounting, GeometryAssumption DEF ReserveOK
<1>4. PICK b \in Block, p \in PageIndex : pageState[<<b, p>>] = "free"
  BY <1>3 DEF FreeAddresses, Address
<1> QED
  BY <1>4 DEF NoFreeBlock, HasFreePage, FreePages, PagesIn

\* An empty drive has at least a block of free pages.
LEMMA AllPages ==
  ASSUME OverProvisioned
  PROVE  Cardinality(Address) >= PagesPerBlock
<1>1. NumBlocks \in Nat /\ NumBlocks # 0 /\ PagesPerBlock \in Nat
  BY GeometryAssumption, HostAssumption DEF OverProvisioned
<1>2. NumBlocks * PagesPerBlock = PagesPerBlock + (NumBlocks - 1) * PagesPerBlock
  BY <1>1
<1>3. (NumBlocks - 1) * PagesPerBlock >= 0
  BY <1>1
<1>4. (NumBlocks - 1) * PagesPerBlock \in Int
  BY <1>1
<1> QED
  BY <1>1, <1>2, <1>3, <1>4, PageCounting

LEMMA CapacityInit ==
  ASSUME OverProvisioned, Init
  PROVE  CapacityInv
<1>1. OrphansBehindCursor
  BY DEF OrphansBehindCursor, Init, FlashInit
<1>2. FreeAddresses = Address
  BY DEF FreeAddresses, Init, FlashInit
<1>3. ReserveOK
  BY <1>2, AllPages, FreeCounting, GeometryAssumption DEF ReserveOK, Init, GCInit
<1> QED
  BY <1>1, <1>3 DEF CapacityInv

\* A nandWrite starts: above the watermark a block's worth of pages is free.
LEMMA CapacityBegin ==
  ASSUME OverProvisioned, IsFiniteSet(LBA), IInv, CapacityInv,
         pc = "idle", NEW l \in LBA, NEW d \in Data, BeginNandWrite(l, d)
  PROVE  CapacityInv'
<1> USE DEF CapacityInv
<1>1. /\ Cardinality(FreeAddresses) \in Nat /\ PagesPerBlock \in Nat
      /\ pc # "retry" /\ returnTo # "retry"
  BY FreeCounting, GeometryAssumption DEF ReserveOK
<1>2. UNCHANGED <<flashVars, mappingTable>> /\ FreeAddresses' = FreeAddresses
  BY SamePages DEF BeginNandWrite
<1>3. OrphansBehindCursor'
  BY <1>2, SameOrphans
<1>4. CASE ShouldTrigger(LowWatermark)
  BY <1>1, <1>2, <1>3, <1>4 DEF BeginNandWrite, CallGC, ReserveOK
<1>5. CASE ~ ShouldTrigger(LowWatermark)
  <2>1. Cardinality(FreeAddresses) >= PagesPerBlock
    BY <1>5, WatermarkIsABlock
  <2> QED
    BY <1>1, <1>2, <1>3, <1>5, <2>1 DEF BeginNandWrite, ReserveOK
<1> QED
  BY <1>4, <1>5


\* The host's calls and nandWrite.
LEMMA CapacityWrite ==
  ASSUME OverProvisioned, IsFiniteSet(LBA), IInv, CapacityInv,
         Host \/ Program \/ ForceGC \/ DropWrite
  PROVE  CapacityInv'
<1> USE DEF CapacityInv
<1>1. /\ Cardinality(FreeAddresses) \in Nat /\ PagesPerBlock \in Nat
      /\ pc # "retry" /\ returnTo # "retry"
  BY FreeCounting, GeometryAssumption DEF ReserveOK
<1>2. ASSUME NEW l \in LBA, NEW d \in Data, HostWrite(l, d)
      PROVE  CapacityInv'
  BY <1>2, CapacityBegin DEF HostWrite, Idle
<1>3. CASE HostCollect \/ \E n \in Intervals : HostSetInterval(n)
  <2>1. /\ UNCHANGED <<flashVars, mappingTable>> /\ pc = "idle"
        /\ pc' \in {"idle", "select"} /\ returnTo' # "retry"
    BY <1>1, <1>3 DEF HostCollect, HostSetInterval, CallGC, Idle
  <2>2. OrphansBehindCursor' /\ FreeAddresses' = FreeAddresses
    BY <2>1, SamePages, SameOrphans
  <2> QED
    BY <2>1, <2>2 DEF ReserveOK
<1>4. CASE Program
  <2>1. /\ pc = "program" /\ pc' = "idle" /\ UNCHANGED returnTo
    BY <1>1, <1>4 DEF Program, Finish
  <2>2. PICK a \in FreeAddresses :
          OrphansBehindCursor' /\ FreeAddresses' = FreeAddresses \ {a}
    BY <1>4, ProgrammedPage
  <2>3. IsFiniteSet(FreeAddresses)
    BY FreeCounting, PageCounting
  <2>4. Cardinality(FreeAddresses') = Cardinality(FreeAddresses) - 1
    BY <2>2, <2>3, FS_RemoveElement
  <2> QED
    BY <1>1, <2>1, <2>2, <2>4 DEF ReserveOK
<1>5. CASE ForceGC
  BY <1>5, NothingForced DEF ForceGC
<1>6. CASE DropWrite
  BY <1>1, <1>6 DEF DropWrite
<1> QED
  BY <1>2, <1>3, <1>4, <1>5, <1>6 DEF Host

\* What leaving runOneCycle needs.
LEMMA CapacityReturn ==
  ASSUME ReserveOK, GCTypeOK, Return, OrphansBehindCursor',
         Cardinality(FreeAddresses') >= PagesPerBlock
  PROVE  CapacityInv'
<1>1. /\ pc' \in {"idle", "program"} /\ returnTo' = "idle"
  BY DEF Return, ReserveOK, GCTypeOK, CallerPhases
<1>2. FreeAddresses' \in SUBSET Address
  BY DEF FreeAddresses
<1>3. Cardinality(FreeAddresses') \in Nat
  BY <1>2, PageCounting
<1> QED
  BY <1>1, <1>3, GeometryAssumption DEF CapacityInv, ReserveOK

LEMMA CapacitySelect ==
  ASSUME OverProvisioned, IsFiniteSet(LBA), IInv, CapacityInv, GCSelect \/ WLSelect
  PROVE  CapacityInv'
<1>1. /\ UNCHANGED <<flashVars, mappingTable>> /\ FreeAddresses' = FreeAddresses
      /\ pc \in {"select", "wear"} /\ OrphansBehindCursor'
  BY SamePages, SameOrphans DEF GCSelect, WLSelect, CapacityInv
<1>2. CASE GCSelect /\ Reclaimable = {} /\ Return
  BY <1>1, <1>2, SpareBlock, CapacityReturn DEF CapacityInv, IInv
<1>3. ASSUME GCSelect, NEW b \in Block, VictimBlock(b),
             src' = b, cursor' = 0, pc' = "migrate", UNCHANGED returnTo
      PROVE  CapacityInv'
  <2>1. b \in Reclaimable
    BY <1>3 DEF VictimBlock, FirstMost, FirstLeast
  <2>2. Cardinality(FreeAddresses) >= PagesPerBlock - 1
    BY <1>3 DEF GCSelect, CapacityInv, ReserveOK
  <2>3. Cardinality({a \in PagesOf(b) : pageState[a] = "valid"})
          <= Cardinality(FreeAddresses \ PagesOf(b))
    BY <2>1, <2>2, VictimFits DEF IInv
  <2>4. ToMove' = {a \in PagesOf(b) : pageState[a] = "valid"}
    BY <1>1, <1>3 DEF ToMove, PagesOf, Address, PageIndex, flashVars
  <2>5. FreeElsewhere' = FreeAddresses \ PagesOf(b)
    BY <1>1, <1>3 DEF FreeElsewhere, PagesOf
  <2> QED
    BY <1>1, <1>3, <2>3, <2>4, <2>5 DEF CapacityInv, ReserveOK
<1>4. CASE WLSelect /\ Return
  <2>1. Cardinality(FreeAddresses) >= PagesPerBlock
    BY <1>4 DEF WLSelect, CapacityInv, ReserveOK
  <2> QED
    BY <1>1, <1>4, <2>1, CapacityReturn DEF CapacityInv, IInv
<1>5. CASE WLSelect /\ pc' = "move" /\ UNCHANGED returnTo
  BY <1>1, <1>5 DEF CapacityInv, ReserveOK
<1> QED
  BY <1>2, <1>3, <1>4, <1>5 DEF GCSelect, WLSelect

\* The migration never aborts: while there is a page to move there is a free
\* page in another block.
LEMMA CapacityMigrate ==
  ASSUME NoLBA \notin LBA, IInv, CapacityInv, GCMigrate
  PROVE  CapacityInv'
<1> DEFINE from == <<src, cursor>>
<1>1. /\ pc = "migrate" /\ cursor < PagesPerBlock /\ cursor \in PageIndex
      /\ src \in Block /\ from \in Address /\ cursor \in Int
      /\ Cardinality(ToMove) <= Cardinality(FreeElsewhere)
  BY GeometryAssumption
  DEF GCMigrate, IInv, LoopsOK, GCTypeOK, PageIndex, Address, CapacityInv, ReserveOK
<1>2. /\ ToMove \in SUBSET Address /\ FreeElsewhere \in SUBSET Address
      /\ IsFiniteSet(ToMove) /\ Cardinality(ToMove) \in Nat
      /\ IsFiniteSet(FreeElsewhere) /\ Cardinality(FreeElsewhere) \in Nat
  BY PageCounting DEF ToMove, FreeElsewhere, FreeAddresses, PagesOf
<1>3. PICK lba \in FindLogicalAddress(from) :
        \/ /\ Skips(from, lba)
           /\ NextPage
           /\ UNCHANGED <<flashVars, mappingTable, pc, returnTo, src, dst>>
        \/ /\ ~ Skips(from, lba)
           /\ \E to \in Address : FreeSlot(src, to) /\ CopyPage(lba, from, to)
           /\ NextPage
           /\ UNCHANGED <<pc, returnTo, src, dst>>
        \/ ~ Skips(from, lba) /\ NoFreeSlot(src)
  BY DEF GCMigrate
<1>4. ~ Skips(from, lba) =>
        /\ lba \in LBA /\ mappingTable[lba] = from
        /\ from \in ToMove
  <2>1. cursor >= cursor
    BY <1>1
  <2> QED
    BY <1>1, <2>1, FindFacts DEF IInv, Skips, ToMove, PagesOf
<1>5. CASE Skips(from, lba) /\ NextPage
           /\ UNCHANGED <<flashVars, mappingTable, pc, returnTo, src, dst>>
  <2>1. OrphansBehindCursor'
    BY <1>1, <1>5, SameOrphans DEF CapacityInv, NextPage
  <2>2. ToMove' \in SUBSET ToMove /\ FreeElsewhere' = FreeElsewhere
    BY <1>1, <1>5, SamePages
    DEF NextPage, ToMove, FreeElsewhere, PagesOf, Address, PageIndex, flashVars
  <2>3. Cardinality(ToMove') <= Cardinality(ToMove)
    BY <1>2, <2>2, PageCounting
  <2>4. Cardinality(ToMove') \in Nat
    BY <1>2, <2>2, PageCounting
  <2> QED
    BY <1>1, <1>2, <1>5, <2>1, <2>2, <2>3, <2>4 DEF CapacityInv, ReserveOK
<1>6. CASE /\ ~ Skips(from, lba)
           /\ \E to \in Address : FreeSlot(src, to) /\ CopyPage(lba, from, to)
           /\ NextPage
           /\ UNCHANGED <<pc, returnTo, src, dst>>
  <2>1. PICK b \in Block, p \in PageIndex :
          FreeSlot(src, <<b, p>>) /\ CopyPage(lba, from, <<b, p>>)
    BY <1>6 DEF Address
  <2>2. b # src /\ FirstFreePage(b, p)
    BY <2>1 DEF FreeSlot
  <2>3. /\ OrphansBehindCursor'
        /\ FreeAddresses' = FreeAddresses \ {<<b, p>>}
        /\ <<b, p>> \in FreeAddresses
        /\ ToMove' = ToMove \ {from}
    BY <1>1, <1>4, <1>6, <2>1, <2>2, CopiedPage DEF CapacityInv
  <2>4. FreeElsewhere' = FreeElsewhere \ {<<b, p>>} /\ <<b, p>> \in FreeElsewhere
    BY <1>6, <2>2, <2>3 DEF FreeElsewhere, PagesOf
  <2>5. /\ Cardinality(ToMove') = Cardinality(ToMove) - 1
        /\ Cardinality(FreeElsewhere') = Cardinality(FreeElsewhere) - 1
    <3>1. Cardinality(ToMove \ {from}) = Cardinality(ToMove) - 1
      BY <1>2, <1>4, <1>6, FS_RemoveElement
    <3>2. Cardinality(FreeElsewhere \ {<<b, p>>}) = Cardinality(FreeElsewhere) - 1
      BY <1>2, <2>4, FS_RemoveElement
    <3> QED
      BY <2>3, <2>4, <3>1, <3>2
  <2> QED
    BY <1>1, <1>2, <1>6, <2>3, <2>5 DEF CapacityInv, ReserveOK
<1>7. CASE ~ Skips(from, lba) /\ NoFreeSlot(src)
  <2>1. Cardinality(ToMove) # 0
    BY <1>2, <1>4, <1>7, FS_EmptySet
  <2>2. FreeElsewhere # {}
    BY <1>1, <1>2, <2>1, FS_EmptySet
  <2>3. PICK b \in Block, p \in PageIndex : b # src /\ pageState[<<b, p>>] = "free"
    BY <2>2 DEF FreeElsewhere, FreeAddresses, PagesOf, Address
  <2> QED
    BY <1>7, <2>3 DEF NoFreeSlot, HasFreePage, FreePages, PagesIn
<1> QED
  BY <1>3, <1>5, <1>6, <1>7

LEMMA CapacityMove ==
  ASSUME NoLBA \notin LBA, IInv, CapacityInv, WLMove
  PROVE  CapacityInv'
<1> DEFINE from == <<src, cursor>>
<1>1. /\ pc = "move" /\ cursor < PagesPerBlock /\ cursor \in PageIndex
      /\ src \in Block /\ from \in Address /\ cursor \in Int
      /\ dst \in Block /\ dst # src
      /\ UNCHANGED <<pc, returnTo, src, dst>>
  BY GeometryAssumption
  DEF WLMove, IInv, LoopsOK, GCTypeOK, PageIndex, Address
<1>2. ReserveOK'
  BY <1>1 DEF CapacityInv, ReserveOK
<1>3. HasFreePage(dst)
  <2>1. cursor >= cursor
    BY <1>1
  <2> QED
    BY <1>1, <2>1 DEF IInv, LoopsOK, HasFreePage, FreePages, PagesIn
<1>4. PICK lba \in FindLogicalAddress(from) :
        \/ NextPage /\ UNCHANGED <<flashVars, mappingTable>>
        \/ /\ ~ Skips(from, lba)
           /\ \E p \in PageIndex :
                FirstFreePage(dst, p) /\ CopyPage(lba, from, <<dst, p>>)
           /\ NextPage
  BY <1>3 DEF WLMove
<1>5. CASE NextPage /\ UNCHANGED <<flashVars, mappingTable>>
  BY <1>1, <1>2, <1>5, SameOrphans DEF CapacityInv, NextPage
<1>6. CASE /\ ~ Skips(from, lba)
           /\ \E p \in PageIndex :
                FirstFreePage(dst, p) /\ CopyPage(lba, from, <<dst, p>>)
           /\ NextPage
  <2>1. PICK p \in PageIndex :
          FirstFreePage(dst, p) /\ CopyPage(lba, from, <<dst, p>>)
    BY <1>6
  <2>2. lba \in LBA /\ mappingTable[lba] = from
    BY <1>1, <1>6, FindFacts DEF IInv
  <2>3. OrphansBehindCursor'
    BY <1>1, <1>6, <2>1, <2>2, CopiedPage DEF CapacityInv
  <2> QED
    BY <1>2, <2>3 DEF CapacityInv
<1> QED
  BY <1>4, <1>5, <1>6

LEMMA CapacityErase ==
  ASSUME IInv, CapacityInv, GCErase \/ WLErase
  PROVE  CapacityInv'
<1>1. /\ pc \in {"migrate", "move"} /\ cursor = PagesPerBlock
      /\ EraseBlock(src) /\ UNCHANGED mappingTable
  BY DEF GCErase, WLErase
<1>2. OrphansBehindCursor' /\ Cardinality(FreeAddresses') >= PagesPerBlock
  BY <1>1, ErasedBlock DEF CapacityInv
<1>3. CASE Return
  BY <1>2, <1>3, CapacityReturn DEF CapacityInv, IInv
<1>4. CASE pc' = "wear" /\ UNCHANGED returnTo
  BY <1>2, <1>4 DEF CapacityInv, ReserveOK
<1> QED
  BY <1>3, <1>4 DEF GCErase, WLErase

LEMMA CapacityNext ==
  ASSUME OverProvisioned, IsFiniteSet(LBA), NoLBA \notin LBA,
         IInv, CapacityInv, [Next]_vars
  PROVE  CapacityInv'
<1>1. CASE Host \/ Program \/ ForceGC \/ DropWrite
  BY <1>1, CapacityWrite
<1>2. CASE Collect
  BY <1>2, CapacitySelect, CapacityMigrate, CapacityMove, CapacityErase
  DEF Collect, GCStep
<1>3. CASE UNCHANGED vars
  <2>1. /\ UNCHANGED <<flashVars, mappingTable>>
        /\ UNCHANGED <<pc, returnTo, src, cursor>>
    BY <1>3 DEF vars, gcVars
  <2>2. ReserveOK'
    BY <2>1 DEF CapacityInv, ReserveOK, FreeElsewhere, ToMove, FreeAddresses,
                PagesOf, flashVars
  <2>3. OrphansBehindCursor'
    BY <2>1 DEF CapacityInv, OrphansBehindCursor, Live, flashVars
  <2> QED
    BY <2>2, <2>3 DEF CapacityInv
<1> QED
  BY <1>1, <1>2, <1>3 DEF Next, Controller

LEMMA CapacityAlways ==
  ASSUME OverProvisioned, IsFiniteSet(LBA), NoLBA \notin LBA
  PROVE  Spec => [](IInv /\ CapacityInv)
<1>1. Init => CapacityInv
  BY CapacityInit
<1>2. IInv /\ CapacityInv /\ [Next]_vars => CapacityInv'
  BY CapacityNext
<1> QED
  BY Invariance, <1>1, <1>2, PTL DEF Spec

-----------------------------------------------------------------------------
(* What an over-provisioned drive promises. *)

\* Between host calls every valid page is the current copy of some LBA: with a
\* spare block no collection aborts, so none leaves a copied page behind.
THEOREM NoPageLeaks ==
  ASSUME OverProvisioned, IsFiniteSet(LBA), NoLBA \notin LBA
  PROVE  Spec => []NoOrphan
<1>1. CapacityInv => NoOrphan
  BY DEF CapacityInv, OrphansBehindCursor, NoOrphan
<1> QED
  BY CapacityAlways, <1>1, PTL

\* The reserve every collection needs is there whenever the host calls.
THEOREM ReserveKept ==
  ASSUME OverProvisioned, IsFiniteSet(LBA), NoLBA \notin LBA
  PROVE  Spec => []FreeReserve
<1>1. CapacityInv => FreeReserve
  BY DEF CapacityInv, ReserveOK, FreeReserve
<1> QED
  BY CapacityAlways, <1>1, PTL

\* A drive with a spare block and a watermark of a block or more never drops a
\* write: it implements the store that has no Drop.
THEOREM ImplementsLosslessDevice ==
  ASSUME OverProvisioned, IsFiniteSet(LBA), NoLBA \notin LBA
  PROVE  Spec => LosslessStore
<1>1. Init => Lossless!DeviceInit
  BY InitOfStore DEF Lossy!DeviceInit, Lossless!DeviceInit
<1>2. IInv /\ CapacityInv /\ [Next]_vars => [Lossless!DeviceNext]_(Lossless!deviceVars)
  <2> SUFFICES ASSUME IInv, CapacityInv, [Next]_vars
               PROVE  [Lossless!DeviceNext]_(Lossless!deviceVars)
    OBVIOUS
  <2>1. ~ DropWrite
    BY DEF CapacityInv, ReserveOK, DropWrite
  <2> QED
    BY <2>1, StepOfStore
    DEF Lossless!DeviceNext, Lossless!Accept, Lossless!Commit, Lossless!deviceVars,
        Lossy!Accept, Lossy!Commit, Lossy!deviceVars
<1> QED
  BY CapacityAlways, <1>1, <1>2, PTL
  DEF Spec, LosslessStore, Lossless!DeviceSpec

-----------------------------------------------------------------------------
(* The inductive invariant about the forced collection. *)

\* No page is free, and the victim of any collection has a live page, which
\* cannot move.
Stuck ==
  /\ NoFreeBlock
  /\ \A v \in Block : VictimBlock(v) => \E p \in PageIndex : Live(<<v, p>>)

FutileInv ==
  /\ pc = "program" /\ NoFreeBlock => Stuck
  /\ pc = "select" /\ returnTo = "retry" => Stuck
  /\ pc = "migrate" => VictimBlock(src)
  /\ pc = "migrate" /\ returnTo = "retry" =>
       NoFreeBlock /\ \E p \in PageIndex : Live(<<src, p>>)
  /\ pc \in {"wear", "move"} => returnTo # "retry"
  /\ pc = "wear" /\ PagesPerBlock > 0 => ~ NoFreeBlock
  /\ pc = "retry" => NoFreeBlock

\* A collection has one possible victim.
LEMMA OneVictim ==
  ASSUME NEW u \in Block, VictimBlock(u), NEW v \in Block, VictimBlock(v)
  PROVE  u = v
<1>1. \A c \in Block : Cardinality(InvalidPages(c)) \in Nat
  <2>1. 0 \in Int /\ PagesPerBlock - 1 \in Int
    BY GeometryAssumption
  <2>2. IsFiniteSet(PageIndex)
    BY <2>1, FS_Interval DEF PageIndex
  <2>3. \A c \in Block : InvalidPages(c) \in SUBSET PageIndex
    BY DEF InvalidPages, PagesIn
  <2> QED
    BY <2>2, <2>3, FS_Subset, FS_CardinalityType
<1> DEFINE count(c) == Cardinality(InvalidPages(c))
<1>2. u \in Reclaimable /\ v \in Reclaimable /\ Reclaimable \subseteq Block
  BY DEF VictimBlock, FirstMost, FirstLeast, Reclaimable
<1>3. /\ - count(u) < - count(v) \/ (- count(u) = - count(v) /\ u <= v)
      /\ - count(v) < - count(u) \/ (- count(v) = - count(u) /\ v <= u)
  BY <1>2 DEF VictimBlock, FirstMost, FirstLeast
<1>4. count(u) \in Nat /\ count(v) \in Nat /\ u \in Int /\ v \in Int
  BY <1>1 DEF Block
<1> HIDE DEF count
<1> QED
  BY <1>3, <1>4

LEMMA SameVictim ==
  ASSUME UNCHANGED <<flashVars, mappingTable>>
  PROVE  /\ \A v \in Block : VictimBlock(v)' <=> VictimBlock(v)
         /\ NoFreeBlock' <=> NoFreeBlock
         /\ Stuck' <=> Stuck
<1>1. \A c : InvalidPages(c)' = InvalidPages(c)
  BY DEF InvalidPages, PagesIn, flashVars
<1>2. \A v \in Block : VictimBlock(v)' <=> VictimBlock(v)
  BY <1>1 DEF VictimBlock, FirstMost, FirstLeast, Reclaimable
<1>3. NoFreeBlock' <=> NoFreeBlock
  BY DEF NoFreeBlock, HasFreePage, FreePages, PagesIn, flashVars
<1>4. \A a : Live(a)' <=> Live(a)
  BY DEF Live
<1> QED
  BY <1>2, <1>3, <1>4 DEF Stuck

\* Nothing can be reclaimed.
LEMMA StuckWithoutVictim ==
  ASSUME NoFreeBlock, Reclaimable = {} \/ PagesPerBlock = 0
  PROVE  Stuck
<1>1. ASSUME PagesPerBlock = 0 PROVE PageIndex = {}
  BY <1>1 DEF PageIndex
<1>2. Reclaimable = {}
  BY <1>1 DEF Reclaimable, InvalidPages, PagesIn
<1> QED
  BY <1>2 DEF Stuck, VictimBlock, FirstMost, FirstLeast

\* A nandWrite that does not collect first has a free page, if there are pages.
LEMMA AboveWatermark ==
  ASSUME LowWatermark > 0, ~ ShouldTrigger(LowWatermark), NoFreeBlock
  PROVE  Stuck
<1>1. FreeAddresses = {}
  BY DEF NoFreeBlock, HasFreePage, FreePages, PagesIn, FreeAddresses, Address
<1>2. Address = {}
  <2> SUFFICES ASSUME Address # {} PROVE FALSE
    OBVIOUS
  <2>1. Cardinality(FreeAddresses) = 0
    BY <1>1, FS_EmptySet
  <2>2. ~ (0 * 100 < LowWatermark * Cardinality(Address))
    BY <2>1 DEF ShouldTrigger
  <2>3. Cardinality(Address) \in Nat /\ Cardinality(Address) # 0
    BY PageCounting, FS_EmptySet
  <2>4. ASSUME NEW w \in Int, w > 0, NEW n \in Nat, n # 0
        PROVE  w * n > 0
    BY <2>4
  <2>5. LowWatermark * Cardinality(Address) > 0
    BY <2>3, <2>4, HostAssumption
  <2>6. LowWatermark * Cardinality(Address) \in Int
    BY <2>3, HostAssumption
  <2> QED
    BY <2>2, <2>5, <2>6
<1>3. Reclaimable = {}
  <2>1. ~ \E b \in Block, p \in PageIndex : <<b, p>> \in Address
    BY <1>2
  <2> QED
    BY <2>1 DEF Address, Reclaimable, InvalidPages, PagesIn
<1> QED
  BY <1>3, StuckWithoutVictim

\* An erased block has a free page, if blocks have pages.
LEMMA FreeAfterErase ==
  ASSUME IInv, EraseBlock(src), src \in Block, PagesPerBlock > 0
  PROVE  ~ NoFreeBlock'
<1>1. 0 \in PageIndex /\ <<src, 0>> \in Address
  BY GeometryAssumption DEF PageIndex, Address
<1>2. pageState'[<<src, 0>>] = "free"
  BY <1>1 DEF EraseBlock
<1> QED
  BY <1>1, <1>2 DEF NoFreeBlock, HasFreePage, FreePages, PagesIn

\* What leaving runOneCycle needs.
LEMMA FutileReturn ==
  ASSUME GCTypeOK, Return,
         returnTo = "program" /\ NoFreeBlock' => Stuck',
         returnTo = "retry" => NoFreeBlock'
  PROVE  FutileInv'
BY DEF Return, GCTypeOK, CallerPhases, FutileInv

LEMMA FutileWrite ==
  ASSUME LowWatermark > 0, IInv, FutileInv, Host \/ Program \/ ForceGC \/ DropWrite
  PROVE  FutileInv'
<1> USE DEF FutileInv
<1>1. ASSUME NEW l \in LBA, NEW d \in Data, HostWrite(l, d)
      PROVE  FutileInv'
  <2>1. UNCHANGED <<flashVars, mappingTable>>
    BY <1>1 DEF HostWrite, BeginNandWrite
  <2>2. CASE ShouldTrigger(LowWatermark)
    BY <1>1, <2>2 DEF HostWrite, BeginNandWrite, CallGC
  <2>3. CASE ~ ShouldTrigger(LowWatermark)
    <3>1. NoFreeBlock => Stuck
      BY <2>3, AboveWatermark
    <3>2. NoFreeBlock' => Stuck'
      BY <2>1, <3>1, SameVictim
    <3> QED
      BY <1>1, <2>3, <3>2 DEF HostWrite, BeginNandWrite
  <2> QED
    BY <2>2, <2>3
<1>2. CASE HostCollect \/ Program \/ DropWrite
  BY <1>2 DEF HostCollect, CallGC, Program, DropWrite, Finish
<1>3. ASSUME NEW n \in Intervals, HostSetInterval(n)
      PROVE  FutileInv'
  BY <1>3 DEF HostSetInterval
<1>4. CASE ForceGC
  <2>1. Stuck'
    BY <1>4, SameVictim DEF ForceGC
  <2> QED
    BY <1>4, <2>1 DEF ForceGC, CallGC
<1> QED
  BY <1>1, <1>2, <1>3, <1>4 DEF Host

LEMMA FutileSelect ==
  ASSUME IInv, FutileInv, GCSelect \/ WLSelect
  PROVE  FutileInv'
<1>1. /\ UNCHANGED <<flashVars, mappingTable>> /\ GCTypeOK
      /\ \A v \in Block : VictimBlock(v)' <=> VictimBlock(v)
      /\ NoFreeBlock' <=> NoFreeBlock
      /\ Stuck' <=> Stuck
  BY SameVictim DEF GCSelect, WLSelect, IInv
<1>2. CASE GCSelect /\ Reclaimable = {} /\ Return
  <2>1. NoFreeBlock => Stuck
    BY <1>2, StuckWithoutVictim
  <2>2. returnTo = "retry" => NoFreeBlock
    BY <1>2 DEF GCSelect, FutileInv, Stuck
  <2> QED
    BY <1>1, <1>2, <2>1, <2>2, FutileReturn
<1>3. ASSUME GCSelect, NEW b \in Block, VictimBlock(b),
             src' = b, pc' = "migrate", UNCHANGED returnTo
      PROVE  FutileInv'
  <2>1. VictimBlock(b)'
    BY <1>1, <1>3
  <2>2. returnTo = "retry" => NoFreeBlock /\ \E p \in PageIndex : Live(<<b, p>>)
    BY <1>3 DEF GCSelect, FutileInv, Stuck
  <2>3. VictimBlock(src)'
    BY <1>3, <2>1 DEF VictimBlock
  <2>4. returnTo = "retry" => (\E p \in PageIndex : Live(<<src, p>>))'
    BY <1>1, <1>3, <2>2 DEF Live
  <2> QED
    BY <1>1, <1>3, <2>2, <2>3, <2>4 DEF FutileInv
<1>4. CASE WLSelect /\ Return
  <2>1. returnTo # "retry" /\ (NoFreeBlock => PagesPerBlock = 0)
    BY <1>4, GeometryAssumption DEF WLSelect, FutileInv
  <2>2. NoFreeBlock => Stuck
    BY <2>1, StuckWithoutVictim
  <2> QED
    BY <1>1, <1>4, <2>1, <2>2, FutileReturn
<1>5. CASE WLSelect /\ pc' = "move" /\ UNCHANGED returnTo
  BY <1>5 DEF WLSelect, FutileInv
<1> QED
  BY <1>2, <1>3, <1>4, <1>5 DEF GCSelect, WLSelect

\* A migration does not touch the invalid pages, so the victim stays the
\* victim, also when the cycle aborts on one of its live pages.
LEMMA FutileMigrate ==
  ASSUME NoLBA \notin LBA, IInv, FutileInv, GCMigrate
  PROVE  FutileInv'
<1> DEFINE from == <<src, cursor>>
<1>1. /\ pc = "migrate" /\ cursor \in PageIndex /\ src \in Block
      /\ from \in Address /\ VictimBlock(src)
      /\ (returnTo = "retry" => NoFreeBlock /\ \E p \in PageIndex : Live(<<src, p>>))
  BY GeometryAssumption
  DEF GCMigrate, IInv, LoopsOK, GCTypeOK, PageIndex, Address, FutileInv
<1>2. PICK lba \in FindLogicalAddress(from) :
        \/ /\ NextPage
           /\ UNCHANGED <<flashVars, mappingTable, pc, returnTo, src, dst>>
        \/ /\ \E to \in Address : FreeSlot(src, to) /\ CopyPage(lba, from, to)
           /\ NextPage
           /\ UNCHANGED <<pc, returnTo, src, dst>>
        \/ /\ ~ Skips(from, lba)
           /\ NoFreeSlot(src)
           /\ AbortCycle
           /\ UNCHANGED <<flashVars, mappingTable>>
  BY DEF GCMigrate
<1>3. CASE UNCHANGED <<flashVars, mappingTable, pc, returnTo, src>>
  <2>1. VictimBlock(src)' <=> VictimBlock(src)
    BY <1>3 DEF VictimBlock, FirstMost, FirstLeast, Reclaimable, InvalidPages,
                PagesIn, flashVars
  <2>2. (\E p \in PageIndex : Live(<<src, p>>))' <=> \E p \in PageIndex : Live(<<src, p>>)
    BY <1>3 DEF Live
  <2>3. NoFreeBlock' <=> NoFreeBlock
    BY <1>3, SameVictim
  <2> QED
    BY <1>1, <1>3, <2>1, <2>2, <2>3 DEF FutileInv
<1>4. ASSUME NEW to \in Address, FreeSlot(src, to), CopyPage(lba, from, to),
             UNCHANGED <<pc, returnTo, src>>
      PROVE  FutileInv'
  <2>1. PICK b \in Block, p \in PageIndex :
          to = <<b, p>> /\ pageState[<<b, p>>] = "free"
    BY <1>4 DEF FreeSlot, FirstFreePage, FreePages, PagesIn, Address
  <2>2. returnTo # "retry"
    BY <1>1, <2>1 DEF NoFreeBlock, HasFreePage, FreePages, PagesIn
  <2>3. \A c \in Block : InvalidPages(c)' = InvalidPages(c)
    <3>1. \A a \in Address : pageState'[a] = "invalid" <=> pageState[a] = "invalid"
      BY <1>4, <2>1
      DEF CopyPage, ProgramPage, Programmed, IInv, DataOK, FlashTypeOK
    <3> QED
      BY <3>1 DEF InvalidPages, PagesIn, Address
  <2>4. VictimBlock(src)'
    <3>1. Reclaimable' = Reclaimable
      BY <2>3 DEF Reclaimable
    <3>2. [c \in Block |-> Cardinality(InvalidPages(c))]'
            = [c \in Block |-> Cardinality(InvalidPages(c))]
      BY <2>3
    <3> QED
      BY <1>1, <1>4, <3>1, <3>2 DEF VictimBlock, FirstMost, FirstLeast
  <2> QED
    BY <1>1, <1>4, <2>2, <2>4 DEF FutileInv
<1>5. CASE /\ ~ Skips(from, lba)
           /\ NoFreeSlot(src)
           /\ AbortCycle
           /\ UNCHANGED <<flashVars, mappingTable>>
  <2>1. Live(from)
    BY <1>1, <1>5, FindFacts DEF IInv, Live
  <2>2. NoFreeBlock => Stuck
    BY <1>1, <2>1, OneVictim DEF Stuck
  <2> QED
    BY <1>1, <1>5, <2>2, SameVictim, FutileReturn DEF AbortCycle, IInv
<1> QED
  BY <1>2, <1>3, <1>4, <1>5

LEMMA FutileErase ==
  ASSUME IInv, FutileInv, GCErase \/ WLErase
  PROVE  FutileInv'
<1>1. /\ pc \in {"migrate", "move"} /\ cursor = PagesPerBlock /\ src \in Block
      /\ EraseBlock(src)
  BY DEF GCErase, WLErase, IInv, LoopsOK
<1>2. returnTo # "retry"
  <2>1. CASE pc = "migrate"
    <3> SUFFICES ASSUME NEW p \in PageIndex, NEW l \in LBA, mappingTable[l] = <<src, p>>
                 PROVE  FALSE
      BY <2>1 DEF FutileInv, Live
    <3>1. HasMapping(l)
      BY <1>1, UnmappedAssumption DEF HasMapping, Address
    <3> QED
      BY <1>1, <3>1, SourceEmptied
  <2>2. CASE pc = "move"
    BY <2>2 DEF FutileInv
  <2> QED
    BY <1>1, <2>1, <2>2
<1>3. PagesPerBlock > 0 => ~ NoFreeBlock'
  BY <1>1, FreeAfterErase
<1>4. NoFreeBlock' => Stuck'
  <2> SUFFICES ASSUME NoFreeBlock' PROVE Stuck'
    OBVIOUS
  <2>1. PageIndex = {}
    BY <1>3, GeometryAssumption DEF PageIndex
  <2> QED
    BY <2>1 DEF Stuck, VictimBlock, FirstMost, FirstLeast, Reclaimable, InvalidPages, PagesIn
<1>5. CASE Return
  BY <1>2, <1>4, <1>5, FutileReturn DEF IInv
<1>6. CASE pc' = "wear" /\ UNCHANGED returnTo
  BY <1>2, <1>3, <1>6 DEF FutileInv
<1> QED
  BY <1>5, <1>6 DEF GCErase, WLErase

LEMMA FutileNext ==
  ASSUME LowWatermark > 0, NoLBA \notin LBA, IInv, FutileInv, [Next]_vars
  PROVE  FutileInv'
<1>1. CASE Host \/ Program \/ ForceGC \/ DropWrite
  BY <1>1, FutileWrite
<1>2. CASE WLMove
  BY <1>2 DEF WLMove, FutileInv
<1>3. CASE UNCHANGED vars
  <2>1. UNCHANGED <<flashVars, mappingTable>> /\ UNCHANGED <<pc, returnTo, src>>
    BY <1>3 DEF vars, gcVars
  <2>2. VictimBlock(src)' <=> VictimBlock(src)
    BY <2>1 DEF VictimBlock, FirstMost, FirstLeast, Reclaimable, InvalidPages,
                PagesIn, flashVars
  <2>3. (\E p \in PageIndex : Live(<<src, p>>))' <=> \E p \in PageIndex : Live(<<src, p>>)
    BY <2>1 DEF Live
  <2> QED
    BY <2>1, <2>2, <2>3, SameVictim DEF FutileInv
<1> QED
  BY <1>1, <1>2, <1>3, FutileSelect, FutileMigrate, FutileErase
  DEF Next, Controller, Collect, GCStep

\* The extra cycle nandWrite forces when it finds no free block frees no page,
\* on any drive with a positive watermark: it picks the victim the first cycle
\* gave up on and stops at the same page.
THEOREM ForcedCycleNeverHelps ==
  ASSUME NoLBA \notin LBA
  PROVE  Spec => []ForcedCycleFutile
<1>1. CASE LowWatermark > 0
  <2>1. Init => FutileInv
    BY DEF Init, GCInit, FutileInv
  <2>2. IInv /\ FutileInv /\ [Next]_vars => FutileInv'
    BY <1>1, FutileNext
  <2>3. FutileInv => ForcedCycleFutile
    BY DEF FutileInv, ForcedCycleFutile
  <2> QED
    BY Invariance, <2>1, <2>2, <2>3, PTL DEF Spec
<1>2. CASE ~ (LowWatermark > 0)
  <2>1. ForcedCycleFutile
    BY <1>2 DEF ForcedCycleFutile
  <2> QED
    BY <2>1, PTL
<1> QED
  BY <1>1, <1>2

=============================================================================
