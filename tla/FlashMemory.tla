---------------------------- MODULE FlashMemory ----------------------------
(***************************************************************************)
(* The physical NAND array: Page, Block and FlashMemory.                   *)
(*                                                                         *)
(* A page is a (block, page) address.  The code keeps two flags per page,  *)
(* isFree and isValid; the constructor sets (TRUE, FALSE), writeData       *)
(* (FALSE, TRUE), and invalidate clears isValid, so the three reachable    *)
(* combinations are the three values of pageState.                         *)
(*                                                                         *)
(* An operator whose name starts with Faulty is not part of the model: it  *)
(* is what the definition after it would be with a plausible bug, kept to  *)
(* show that the properties notice.                                        *)
(***************************************************************************)
EXTENDS Integers, FiniteSets

CONSTANTS
  NumBlocks,      \* erase blocks in the array
  PagesPerBlock,  \* pages in a block
  PE_LIMIT,       \* P/E cycles a block endures
  Data,           \* the values a host may store in a page
  Blank           \* what an erased page reads as (the empty string)

ASSUME GeometryAssumption ==
  /\ NumBlocks \in Nat
  /\ PagesPerBlock \in Nat
  /\ PE_LIMIT \in Int

VARIABLES
  pageState,   \* pageState[<<b, p>>]: free, valid or invalid
  pageData,    \* pageData[<<b, p>>]: what readData returns
  eraseCount   \* eraseCount[b]: how often the block was erased

flashVars == <<pageState, pageData, eraseCount>>

Block     == 0 .. NumBlocks - 1
PageIndex == 0 .. PagesPerBlock - 1
Address   == Block \X PageIndex

\* Types; and a free page holds nothing.
FlashTypeOK ==
  /\ pageState \in [Address -> {"free", "valid", "invalid"}]
  /\ pageData \in [Address -> Data \cup {Blank}]
  /\ eraseCount \in [Block -> Nat]
  /\ \A a \in Address : pageState[a] = "free" => pageData[a] = Blank

FlashInit ==
  /\ pageState = [a \in Address |-> "free"]
  /\ pageData = [a \in Address |-> Blank]
  /\ eraseCount = [b \in Block |-> 0]

-----------------------------------------------------------------------------
(* Block and array queries. *)

PagesIn(b, s) == {p \in PageIndex : pageState[<<b, p>>] = s}

FaultyFreePages(b) == PagesIn(b, "free") \cup PagesIn(b, "invalid")

FreePages(b)    == PagesIn(b, "free")
ValidPages(b)   == PagesIn(b, "valid")
InvalidPages(b) == PagesIn(b, "invalid")
FreeAddresses   == {a \in Address : pageState[a] = "free"}

FaultyFirstFreePage(b, p) ==
  /\ p \in FreePages(b)
  /\ \A q \in FreePages(b) : q <= p

\* getFreePageIndex() returns p.
FirstFreePage(b, p) ==
  /\ p \in FreePages(b)
  /\ \A q \in FreePages(b) : p <= q

\* getFreePageIndex() returns something other than -1.
HasFreePage(b) == FreePages(b) # {}

FullyFree(b) == FreePages(b) = PageIndex

\* A scan by ascending index with a strict comparison stops at b: no other
\* candidate has a smaller measure, no earlier one the same measure.
FirstLeast(b, candidates, measure) ==
  /\ b \in candidates
  /\ \A c \in candidates :
       measure[b] < measure[c] \/ (measure[b] = measure[c] /\ b <= c)

FirstMost(b, candidates, measure) ==
  FirstLeast(b, candidates, [c \in candidates |-> -measure[c]])

\* findLeastUsedFreeBlock() returns b.
LeastUsedFreeBlock(b) ==
  FirstLeast(b, {c \in Block : HasFreePage(c)}, eraseCount)

\* findLeastUsedFreeBlock() returns -1.
NoFreeBlock == \A b \in Block : ~ HasFreePage(b)

\* findFreeSlot(excluded) returns a: the first free page of the first other
\* block that has one.
FreeSlot(excluded, a) ==
  /\ a \in Address
  /\ a[1] # excluded
  /\ FirstFreePage(a[1], a[2])
  /\ \A b \in Block \ {excluded} : HasFreePage(b) => a[1] <= b

\* findFreeSlot(excluded) returns (-1, -1).
NoFreeSlot(excluded) == \A b \in Block \ {excluded} : ~ HasFreePage(b)

FaultyFullyFreeBlocks == {b \in Block : HasFreePage(b)}

\* findMostWornFreeBlock() returns b, or -1.
FullyFreeBlocks == {b \in Block : FullyFree(b)}
MostWornFreeBlock(b) == FirstMost(b, FullyFreeBlocks, eraseCount)

\* findLeastWornDataBlock() returns b, or -1.
DataBlocks == {b \in Block : ValidPages(b) # {} /\ ~ FullyFree(b)}
LeastWornDataBlock(b) == FirstLeast(b, DataBlocks, eraseCount)

\* isWornOut(): read by the reports only.
WornOut(b) == eraseCount[b] >= PE_LIMIT

-----------------------------------------------------------------------------
(* What writeData, invalidate and eraseBlock do to the page states; the    *)
(* callers chain them in the order the code calls them.                    *)

Programmed(states, a) == [states EXCEPT ![a] = "valid"]

FaultyInvalidated(states, a) == states

Invalidated(states, a) ==
  [states EXCEPT ![a] = IF @ = "free" THEN "free" ELSE "invalid"]

\* writeData(d) on page a, and nothing else.
ProgramPage(a, d) ==
  /\ pageState' = Programmed(pageState, a)
  /\ pageData' = [pageData EXCEPT ![a] = d]
  /\ UNCHANGED eraseCount

FaultyEraseBlock(b) ==
  /\ pageState' = [a \in Address |-> IF a[1] = b THEN "free" ELSE pageState[a]]
  /\ eraseCount' = [eraseCount EXCEPT ![b] = @ + 1]
  /\ UNCHANGED pageData

\* eraseBlock().
EraseBlock(b) ==
  /\ pageState' = [a \in Address |-> IF a[1] = b THEN "free" ELSE pageState[a]]
  /\ pageData' = [a \in Address |-> IF a[1] = b THEN Blank ELSE pageData[a]]
  /\ eraseCount' = [eraseCount EXCEPT ![b] = @ + 1]

-----------------------------------------------------------------------------

\* In every block the free pages come last: pages are programmed in order
\* between two erases, the constraint NAND puts on a block and that
\* getFreePageIndex and the wear leveller's destination scan rely on.
ProgrammedInOrder ==
  \A b \in Block : \A p, q \in PageIndex :
    p < q /\ pageState[<<b, p>>] = "free" => pageState[<<b, q>>] = "free"

\* Out-of-place writes (Page and Block): a used page keeps its content until
\* its whole block is erased in one step, which eraseCount counts.
EraseBeforeWrite ==
  [][\A a \in Address :
       pageState[a] # "free" /\ pageData'[a] # pageData[a]
         => /\ FullyFree(a[1])'
            /\ eraseCount'[a[1]] = eraseCount[a[1]] + 1]_flashVars

=============================================================================
