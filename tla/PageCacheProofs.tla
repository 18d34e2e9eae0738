--------------------------- MODULE PageCacheProofs --------------------------
(***************************************************************************)
(* What the operators of PageCache do to the set of cached entries, for a  *)
(* list of any length over any set of entries.  The lemmas are about       *)
(* Range(list), the entries the cache holds whatever their order: that is  *)
(* what the controller's correctness depends on.                           *)
(***************************************************************************)
EXTENDS PageCache, SequenceTheorems, WellFoundedInduction, TLAPS

\* index_ has one node per LBA.
OneEntryPerLBA(list) ==
  \A i, j \in DOMAIN list : list[i].lba = list[j].lba => i = j

LEMMA CachedInRange ==
  ASSUME NEW list, NEW l
  PROVE  Cached(list, l) <=> \E x \in Range(list) : x.lba = l
BY DEF Cached, Positions, Range

\* The entry of l, if there is one, is the entry read and write find.
LEMMA CachedFacts ==
  ASSUME NEW S, NEW list \in Seq(S), OneEntryPerLBA(list)
  PROVE  /\ \A x \in Range(list) : Cached(list, x.lba) /\ CachedEntry(list, x.lba) = x
         /\ \A l : Cached(list, l) =>
              /\ Position(list, l) \in 1 .. Len(list)
              /\ CachedEntry(list, l) \in Range(list)
              /\ CachedEntry(list, l).lba = l
<1>1. DOMAIN list = 1 .. Len(list) /\ Len(list) \in Nat
  BY LenProperties
<1>2. ASSUME NEW l, Cached(list, l)
      PROVE  /\ Position(list, l) \in DOMAIN list
             /\ list[Position(list, l)].lba = l
  BY <1>2 DEF Cached, Position, Positions
<1>3. ASSUME NEW i \in DOMAIN list
      PROVE  /\ Cached(list, list[i].lba)
             /\ CachedEntry(list, list[i].lba) = list[i]
  <2>1. Cached(list, list[i].lba)
    BY DEF Cached, Positions
  <2>2. Position(list, list[i].lba) = i
    BY <1>2, <2>1 DEF OneEntryPerLBA
  <2> QED
    BY <2>1, <2>2 DEF CachedEntry
<1> QED
  BY <1>1, <1>2, <1>3 DEF CachedEntry, Range

\* A hit moves one entry to the front, rewritten, and keeps the others.
LEMMA ToFrontFacts ==
  ASSUME NEW S, NEW list \in Seq(S), OneEntryPerLBA(list),
         NEW l, Cached(list, l), NEW e \in S, e.lba = l
  PROVE  /\ ToFront(list, l, e) \in Seq(S)
         /\ Len(ToFront(list, l, e)) = Len(list)
         /\ OneEntryPerLBA(ToFront(list, l, e))
         /\ Range(ToFront(list, l, e)) = {e} \cup {x \in Range(list) : x.lba # l}
<1> DEFINE pos == Position(list, l)
           before == SubSeq(list, 1, pos - 1)
           after == SubSeq(list, pos + 1, Len(list))
           new == ToFront(list, l, e)
<1>1. /\ DOMAIN list = 1 .. Len(list) /\ Len(list) \in Nat
      /\ \A i \in 1 .. Len(list) : list[i] \in S
  BY LenProperties, ElementOfSeq
<1>2. pos \in 1 .. Len(list) /\ list[pos].lba = l
  BY CachedFacts DEF CachedEntry
<1>3. /\ before \in Seq(S) /\ Len(before) = pos - 1
      /\ \A i \in 1 .. pos - 1 : before[i] = list[i]
  <2>1. 1 \in Int /\ pos - 1 \in Int /\ \A i \in 1 .. pos - 1 : list[i] \in S
    BY <1>1, <1>2
  <2> HIDE DEF pos
  <2>2. /\ SubSeq(list, 1, pos - 1) \in Seq(S)
        /\ Len(SubSeq(list, 1, pos - 1)) = IF 1 <= pos - 1 THEN pos - 1 - 1 + 1 ELSE 0
        /\ \A i \in 1 .. pos - 1 - 1 + 1 : SubSeq(list, 1, pos - 1)[i] = list[1 + i - 1]
    BY <2>1, SubSeqProperties
  <2> QED
    BY <1>2, <2>2
<1>4. /\ after \in Seq(S) /\ Len(after) = Len(list) - pos
      /\ \A i \in 1 .. Len(list) - pos : after[i] = list[pos + i]
  <2>1. pos + 1 \in Int /\ Len(list) \in Int /\ \A i \in pos + 1 .. Len(list) : list[i] \in S
    BY <1>1, <1>2
  <2> HIDE DEF pos
  <2>2. /\ SubSeq(list, pos + 1, Len(list)) \in Seq(S)
        /\ Len(SubSeq(list, pos + 1, Len(list)))
             = IF pos + 1 <= Len(list) THEN Len(list) - (pos + 1) + 1 ELSE 0
        /\ \A i \in 1 .. Len(list) - (pos + 1) + 1 :
             SubSeq(list, pos + 1, Len(list))[i] = list[pos + 1 + i - 1]
    BY <2>1, SubSeqProperties
  <2>3. Len(list) - (pos + 1) + 1 = Len(list) - pos
    BY <1>1, <1>2
  <2>4. ASSUME NEW i \in 1 .. Len(list) - pos
        PROVE  after[i] = list[pos + i]
    <3>1. pos + 1 + i - 1 = pos + i
      BY <1>1, <1>2
    <3> QED
      BY <2>2, <2>3, <3>1
  <2>5. Len(after) = Len(list) - pos
    BY <1>1, <1>2, <2>2
  <2> QED
    BY <2>2, <2>4, <2>5
<1>5. new = <<e>> \o (before \o after)
  BY DEF ToFront, RemoveAt
<1> HIDE DEF pos, before, after, new
<1>6. /\ before \o after \in Seq(S) /\ Len(before \o after) = Len(list) - 1
      /\ \A i \in 1 .. Len(list) - 1 :
           (before \o after)[i] = IF i < pos THEN list[i] ELSE list[i + 1]
  <2>1. /\ before \o after \in Seq(S)
        /\ Len(before \o after) = Len(before) + Len(after)
        /\ \A i \in 1 .. Len(before) + Len(after) :
             (before \o after)[i] = IF i <= Len(before) THEN before[i]
                                    ELSE after[i - Len(before)]
    BY <1>3, <1>4, ConcatProperties
  <2>2. Len(before) + Len(after) = Len(list) - 1
    BY <1>1, <1>2, <1>3, <1>4
  <2>3. ASSUME NEW i \in 1 .. Len(list) - 1, i < pos
        PROVE  (before \o after)[i] = list[i]
    <3>1. i \in 1 .. pos - 1 /\ i <= Len(before)
      BY <1>1, <1>2, <1>3, <2>3
    <3> QED
      BY <1>3, <2>1, <2>2, <3>1
  <2>4. ASSUME NEW i \in 1 .. Len(list) - 1, ~ (i < pos)
        PROVE  (before \o after)[i] = list[i + 1]
    <3>1. /\ ~ (i <= Len(before)) /\ i - Len(before) \in 1 .. Len(list) - pos
          /\ pos + (i - Len(before)) = i + 1
      BY <1>1, <1>2, <1>3, <2>4
    <3> QED
      BY <1>4, <2>1, <2>2, <3>1
  <2> QED
    BY <2>1, <2>2, <2>3, <2>4
<1>7. /\ new \in Seq(S) /\ Len(new) = Len(list)
      /\ new[1] = e
      /\ \A i \in 2 .. Len(list) :
           new[i] = IF i <= pos THEN list[i - 1] ELSE list[i]
  <2>1. <<e>> \in Seq(S) /\ Len(<<e>>) = 1 /\ <<e>>[1] = e
    OBVIOUS
  <2>2. /\ new \in Seq(S)
        /\ Len(new) = 1 + Len(before \o after)
        /\ \A i \in 1 .. 1 + Len(before \o after) :
             new[i] = IF i <= 1 THEN <<e>>[i] ELSE (before \o after)[i - 1]
    BY <1>5, <1>6, <2>1, ConcatProperties
  <2>3. Len(new) = Len(list)
    BY <1>1, <1>6, <2>2
  <2>4. new[1] = e
    BY <1>1, <1>2, <1>6, <2>1, <2>2
  <2>5. ASSUME NEW i \in 2 .. Len(list)
        PROVE  new[i] = IF i <= pos THEN list[i - 1] ELSE list[i]
    <3>1. /\ i \in 1 .. Len(new) /\ ~ (i <= 1) /\ i - 1 \in 1 .. Len(list) - 1
          /\ i - 1 < pos <=> i <= pos
          /\ (i - 1) + 1 = i
      BY <1>1, <1>2, <2>3
    <3>2. new[i] = (before \o after)[i - 1]
      BY <2>2, <3>1
    <3> QED
      BY <1>6, <3>1, <3>2
  <2> QED
    BY <2>2, <2>3, <2>4, <2>5
<1>8. DOMAIN new = 1 .. Len(list)
  BY <1>7, LenProperties
<1> DEFINE from(i) == IF i <= pos THEN i - 1 ELSE i
<1>9. ASSUME NEW i \in 2 .. Len(list)
      PROVE  from(i) \in 1 .. Len(list) /\ from(i) # pos /\ new[i] = list[from(i)]
  BY <1>1, <1>2, <1>7
<1>10. ASSUME NEW i \in 2 .. Len(list), NEW j \in 2 .. Len(list), from(i) = from(j)
       PROVE  i = j
  BY <1>2, <1>10
<1>11. ASSUME NEW k \in 1 .. Len(list), k # pos
       PROVE  \E i \in 2 .. Len(list) : from(i) = k
  <2>1. CASE k < pos
    <3>1. k + 1 \in 2 .. Len(list) /\ from(k + 1) = k
      BY <1>1, <1>2, <2>1
    <3> QED
      BY <3>1
  <2>2. CASE k > pos
    <3>1. k \in 2 .. Len(list) /\ from(k) = k
      BY <1>1, <1>2, <2>2
    <3> QED
      BY <3>1
  <2> QED
    BY <1>2, <1>11, <2>1, <2>2
<1> HIDE DEF from
<1>12. ASSUME NEW i \in 2 .. Len(list)
       PROVE  new[i] \in Range(list) /\ new[i].lba # l
  BY <1>1, <1>2, <1>9 DEF OneEntryPerLBA, Range
<1>13. OneEntryPerLBA(new)
  <2>1. SUFFICES ASSUME NEW i \in 1 .. Len(list), NEW j \in 1 .. Len(list),
                        new[i].lba = new[j].lba
                 PROVE  i = j
    BY <1>8 DEF OneEntryPerLBA
  <2>2. i = 1 \/ i \in 2 .. Len(list)
    BY <1>1
  <2>3. j = 1 \/ j \in 2 .. Len(list)
    BY <1>1
  <2>4. CASE i = 1 \/ j = 1
    BY <1>7, <1>12, <2>1, <2>2, <2>3, <2>4
  <2>5. CASE i \in 2 .. Len(list) /\ j \in 2 .. Len(list)
    <3>1. from(i) = from(j)
      BY <1>1, <1>9, <2>1, <2>5 DEF OneEntryPerLBA
    <3> QED
      BY <1>10, <2>5, <3>1
  <2> QED
    BY <2>2, <2>3, <2>4, <2>5
<1>14. Range(new) = {e} \cup {x \in Range(list) : x.lba # l}
  <2>1. ASSUME NEW i \in DOMAIN new
        PROVE  new[i] \in {e} \cup {x \in Range(list) : x.lba # l}
    <3>1. i = 1 \/ i \in 2 .. Len(list)
      BY <1>1, <1>8
    <3> QED
      BY <1>7, <1>12, <3>1
  <2>2. ASSUME NEW k \in DOMAIN list, list[k].lba # l
        PROVE  list[k] \in Range(new)
    <3>1. PICK i \in 2 .. Len(list) : from(i) = k
      BY <1>1, <1>2, <1>11, <2>2
    <3>2. i \in DOMAIN new
      BY <1>1, <1>8
    <3> QED
      BY <1>9, <3>1, <3>2 DEF Range
  <2>3. e \in Range(new)
    BY <1>1, <1>2, <1>7, <1>8 DEF Range
  <2> QED
    BY <2>1, <2>2, <2>3 DEF Range
<1> QED
  BY <1>7, <1>13, <1>14 DEF new

\* What stays in the list when a new entry needs room, and what leaves it.
LEMMA EvictedFacts ==
  ASSUME NEW S, NEW list \in Seq(S), OneEntryPerLBA(list),
         CacheSize > 0, Len(list) <= CacheSize
  PROVE  /\ Evicted(list) \in Seq(S)
         /\ Len(Evicted(list)) < CacheSize
         /\ OneEntryPerLBA(Evicted(list))
         /\ Range(Evicted(list)) \subseteq Range(list)
         /\ ~ IsFull(list) => Range(Evicted(list)) = Range(list)
         /\ IsFull(list) =>
              /\ Last(list) \in Range(list) /\ Last(list) \in S
              /\ Range(Evicted(list)) = {x \in Range(list) : x.lba # Last(list).lba}
<1>0. Len(list) \in Nat
  BY LenProperties
<1>1. /\ DOMAIN list = 1 .. Len(list)
      /\ \A i \in 1 .. Len(list) : list[i] \in S
  BY LenProperties, ElementOfSeq
<1>2. CASE ~ IsFull(list)
  BY <1>0, <1>1, <1>2, CacheSizeAssumption DEF Evicted, IsFull
<1>3. CASE IsFull(list)
  <2> DEFINE rest == Evicted(list)
  <2>1. rest = SubSeq(list, 1, Len(list) - 1)
    BY <1>3 DEF Evicted, Front
  <2>2. Len(list) = CacheSize /\ Len(list) > 0
    BY <1>0, <1>3, CacheSizeAssumption DEF IsFull
  <2> HIDE DEF rest
  <2>3. 1 \in Int /\ Len(list) - 1 \in Int /\ \A i \in 1 .. Len(list) - 1 : list[i] \in S
    BY <1>0, <1>1
  <2>4. /\ rest \in Seq(S)
        /\ Len(rest) = IF 1 <= Len(list) - 1 THEN Len(list) - 1 - 1 + 1 ELSE 0
        /\ \A i \in 1 .. Len(list) - 1 - 1 + 1 : rest[i] = list[1 + i - 1]
    BY <2>1, <2>3, SubSeqProperties
  <2>5. Len(rest) = Len(list) - 1 /\ \A i \in 1 .. Len(list) - 1 : rest[i] = list[i]
    BY <1>0, <1>1, <2>2, <2>4
  <2>6. DOMAIN rest = 1 .. Len(list) - 1
    BY <2>4, <2>5, LenProperties
  <2>7. Len(list) \in 1 .. Len(list) /\ Last(list) = list[Len(list)]
    BY <1>0, <1>1, <2>2 DEF Last
  <2>8. OneEntryPerLBA(rest)
    BY <1>0, <1>1, <2>5, <2>6 DEF OneEntryPerLBA
  <2>9. ASSUME NEW x \in Range(rest)
        PROVE  x \in Range(list) /\ x.lba # Last(list).lba
    <3>1. PICK i \in 1 .. Len(list) - 1 : x = list[i]
      BY <2>5, <2>6 DEF Range
    <3>2. i \in 1 .. Len(list) /\ i # Len(list)
      BY <1>0
    <3> QED
      BY <1>0, <1>1, <2>7, <3>1, <3>2 DEF OneEntryPerLBA, Range
  <2>10. ASSUME NEW x \in Range(list), x.lba # Last(list).lba
         PROVE  x \in Range(rest)
    <3>1. PICK i \in 1 .. Len(list) : x = list[i]
      BY <1>1 DEF Range
    <3>2. i \in 1 .. Len(list) - 1
      BY <1>0, <1>1, <2>7, <2>10, <3>1
    <3> QED
      BY <2>5, <2>6, <3>1, <3>2 DEF Range
  <2>11. Last(list) \in Range(list) /\ Last(list) \in S
    BY <1>0, <1>1, <2>7 DEF Range
  <2>12. Len(rest) < CacheSize
    BY <1>0, <1>1, <2>2, <2>5
  <2> QED
    BY <1>3, <2>4, <2>8, <2>9, <2>10, <2>11, <2>12 DEF rest
<1> QED
  BY <1>2, <1>3

\* What is handed back is what left the list, if it was dirty.
LEMMA DirtyVictimFacts ==
  ASSUME NEW S, NEW list \in Seq(S), OneEntryPerLBA(list),
         CacheSize > 0, Len(list) <= CacheSize
  PROVE  /\ DirtyVictim(list) \in Seq({x \in S : x.dirty})
         /\ Len(DirtyVictim(list)) <= 1 /\ Len(DirtyVictim(list)) <= Len(list)
         /\ OneEntryPerLBA(DirtyVictim(list))
         /\ Range(DirtyVictim(list))
              = {x \in Range(list) : x \notin Range(Evicted(list)) /\ x.dirty}
         /\ \A x \in Range(DirtyVictim(list)) : ~ Cached(Evicted(list), x.lba)
<1>1. /\ DOMAIN list = 1 .. Len(list) /\ Len(list) \in Nat
      /\ \A i \in 1 .. Len(list) : list[i] \in S
  BY LenProperties, ElementOfSeq
<1> DEFINE victim == DirtyVictim(list)
<1>2. CASE ~ (IsFull(list) /\ Last(list).dirty)
  <2>1. victim = <<>>
    BY <1>2 DEF DirtyVictim
  <2>2. DOMAIN victim = {} /\ Range(victim) = {} /\ Len(victim) = 0
    BY <2>1 DEF Range
  <2>3. ASSUME NEW x \in Range(list), x \notin Range(Evicted(list)), x.dirty
        PROVE  FALSE
    <3>1. IsFull(list) /\ x.lba = Last(list).lba /\ Last(list) \in Range(list)
      BY <2>3, EvictedFacts
    <3>2. x = Last(list)
      BY <3>1, CachedFacts
    <3> QED
      BY <1>2, <2>3, <3>1, <3>2
  <2> QED
    BY <1>1, <2>1, <2>2, <2>3 DEF OneEntryPerLBA
<1>3. CASE IsFull(list) /\ Last(list).dirty
  <2>1. victim = <<Last(list)>>
    BY <1>3 DEF DirtyVictim
  <2>2. DOMAIN victim = {1} /\ Range(victim) = {Last(list)} /\ Len(victim) = 1
    BY <2>1 DEF Range
  <2>3. /\ Last(list) \in Range(list) /\ Last(list) \in S
        /\ Range(Evicted(list)) = {x \in Range(list) : x.lba # Last(list).lba}
    BY <1>3, EvictedFacts
  <2>4. ASSUME NEW x \in Range(list), x \notin Range(Evicted(list))
        PROVE  x = Last(list)
    BY <2>3, <2>4, CachedFacts
  <2>5. ~ Cached(Evicted(list), Last(list).lba)
    <3>1. SUFFICES ASSUME NEW i \in DOMAIN Evicted(list),
                          Evicted(list)[i].lba = Last(list).lba
                   PROVE  FALSE
      BY DEF Cached, Positions
    <3>2. Evicted(list)[i] \in Range(Evicted(list))
      BY DEF Range
    <3> QED
      BY <2>3, <3>1, <3>2
  <2>6. victim \in Seq({x \in S : x.dirty})
    BY <1>3, <2>1, <2>3
  <2>7. 1 <= Len(list)
    BY <1>1, <1>3, CacheSizeAssumption DEF IsFull
  <2> HIDE DEF victim
  <2>8. OneEntryPerLBA(victim)
    BY <2>2 DEF OneEntryPerLBA
  <2>9. Range(victim) = {x \in Range(list) : x \notin Range(Evicted(list)) /\ x.dirty}
    BY <1>3, <2>2, <2>3, <2>4
  <2> QED
    BY <2>2, <2>5, <2>6, <2>7, <2>8, <2>9 DEF victim
<1> QED
  BY <1>2, <1>3

\* A miss puts one entry in front of what stays.
LEMMA InsertedFacts ==
  ASSUME NEW S, NEW list \in Seq(S), OneEntryPerLBA(list),
         CacheSize > 0, Len(list) <= CacheSize,
         NEW e \in S, ~ Cached(list, e.lba)
  PROVE  /\ Inserted(list, e) \in Seq(S)
         /\ Len(Inserted(list, e)) <= CacheSize
         /\ OneEntryPerLBA(Inserted(list, e))
         /\ Range(Inserted(list, e)) = {e} \cup Range(Evicted(list))
<1> DEFINE rest == Evicted(list)
           new == Inserted(list, e)
<1>1. /\ rest \in Seq(S) /\ Len(rest) < CacheSize /\ OneEntryPerLBA(rest)
      /\ Range(rest) \subseteq Range(list)
  BY EvictedFacts
<1>2. new = <<e>> \o rest
  BY DEF Inserted
<1>3. \A x \in Range(list) : x.lba # e.lba
  BY DEF Cached, Positions, Range
<1> HIDE DEF rest, new
<1>4. DOMAIN rest = 1 .. Len(rest) /\ Len(rest) \in Nat
  BY <1>1, LenProperties
<1>5. <<e>> \in Seq(S) /\ Len(<<e>>) = 1 /\ <<e>>[1] = e
  OBVIOUS
<1>6. /\ new \in Seq(S) /\ Len(new) = 1 + Len(rest)
      /\ \A i \in 1 .. 1 + Len(rest) : new[i] = IF i <= 1 THEN <<e>>[i] ELSE rest[i - 1]
  BY <1>1, <1>2, <1>5, ConcatProperties
<1>7. DOMAIN new = 1 .. 1 + Len(rest)
  BY <1>6, LenProperties
<1>8. new[1] = e /\ 1 \in DOMAIN new
  BY <1>4, <1>5, <1>6, <1>7
<1>9. ASSUME NEW i \in DOMAIN new, i # 1
      PROVE  i - 1 \in DOMAIN rest /\ new[i] = rest[i - 1]
  BY <1>4, <1>6, <1>7, <1>9
<1>10. ASSUME NEW k \in DOMAIN rest
       PROVE  k + 1 \in DOMAIN new /\ new[k + 1] = rest[k]
  <2>1. k + 1 \in DOMAIN new /\ k + 1 # 1 /\ (k + 1) - 1 = k
    BY <1>4, <1>7
  <2> QED
    BY <1>9, <2>1
<1>11. Range(new) = {e} \cup Range(rest)
  BY <1>8, <1>9, <1>10 DEF Range
<1>12. OneEntryPerLBA(new)
  <2>1. SUFFICES ASSUME NEW i \in DOMAIN new, NEW j \in DOMAIN new,
                        new[i].lba = new[j].lba
                 PROVE  i = j
    BY DEF OneEntryPerLBA
  <2>2. ASSUME NEW k \in DOMAIN new, k # 1
        PROVE  new[k].lba # e.lba
    BY <1>1, <1>3, <1>9, <2>2 DEF Range
  <2>3. CASE i = 1 \/ j = 1
    BY <1>8, <2>1, <2>2, <2>3
  <2>4. CASE i # 1 /\ j # 1
    <3>1. i - 1 = j - 1
      BY <1>1, <1>9, <2>1, <2>4 DEF OneEntryPerLBA
    <3> QED
      BY <1>7, <3>1
  <2> QED
    BY <2>3, <2>4
<1>13. Len(new) <= CacheSize
  BY <1>1, <1>4, <1>6, CacheSizeAssumption
<1> QED
  BY <1>6, <1>11, <1>12, <1>13 DEF new, rest

\* The list of evicted or flushed entries loses its first one.
LEMMA TailFacts ==
  ASSUME NEW S, NEW list \in Seq(S), OneEntryPerLBA(list), list # <<>>
  PROVE  /\ Head(list) \in S /\ Head(list) \in Range(list)
         /\ Tail(list) \in Seq(S)
         /\ Len(list) \in Nat /\ Len(Tail(list)) = Len(list) - 1
         /\ OneEntryPerLBA(Tail(list))
         /\ Range(Tail(list)) = {x \in Range(list) : x.lba # Head(list).lba}
<1>1. DOMAIN list = 1 .. Len(list) /\ Len(list) \in Nat \ {0}
  BY LenProperties, EmptySeq
<1>2. Head(list) = list[1] /\ 1 \in DOMAIN list
  BY <1>1
<1> DEFINE rest == Tail(list)
<1>3. /\ rest \in Seq(S) /\ Head(list) \in S
      /\ Len(rest) = Len(list) - 1
      /\ \A i \in 1 .. Len(rest) : rest[i] = list[i + 1]
  BY HeadTailProperties
<1> HIDE DEF rest
<1>4. DOMAIN rest = 1 .. Len(list) - 1
  BY <1>3, LenProperties
<1>5. ASSUME NEW k \in DOMAIN rest
      PROVE  k + 1 \in DOMAIN list /\ k + 1 # 1 /\ rest[k] = list[k + 1]
  BY <1>1, <1>3, <1>4
<1>6. ASSUME NEW i \in DOMAIN list, i # 1
      PROVE  i - 1 \in DOMAIN rest /\ rest[i - 1] = list[i]
  <2>1. i - 1 \in DOMAIN rest /\ (i - 1) + 1 = i
    BY <1>1, <1>4, <1>6
  <2> QED
    BY <1>5, <2>1
<1>7. OneEntryPerLBA(rest)
  <2>1. SUFFICES ASSUME NEW i \in DOMAIN rest, NEW j \in DOMAIN rest,
                        rest[i].lba = rest[j].lba
                 PROVE  i = j
    BY DEF OneEntryPerLBA
  <2>2. i + 1 = j + 1
    BY <1>5, <2>1 DEF OneEntryPerLBA
  <2> QED
    BY <1>4, <2>2
<1>8. Range(rest) = {x \in Range(list) : x.lba # Head(list).lba}
  <2>1. ASSUME NEW k \in DOMAIN rest
        PROVE  rest[k] \in Range(list) /\ rest[k].lba # Head(list).lba
    BY <1>2, <1>5 DEF OneEntryPerLBA, Range
  <2>2. ASSUME NEW i \in DOMAIN list, list[i].lba # Head(list).lba
        PROVE  list[i] \in Range(rest)
    BY <1>2, <1>6, <2>2 DEF Range
  <2> QED
    BY <2>1, <2>2 DEF Range
<1>9. Head(list) \in Range(list)
  BY <1>2 DEF Range
<1> QED
  BY <1>1, <1>3, <1>7, <1>8, <1>9 DEF rest

\* Induction over the natural numbers, as a fact about a set of them.
LEMMA SetInduction ==
  ASSUME NEW T \in SUBSET Nat, 0 \in T, \A n \in T : n + 1 \in T
  PROVE  T = Nat
<1>1. SUFFICES ASSUME Nat \ T # {} PROVE FALSE
  OBVIOUS
<1>2. \E x \in Nat \ T : \A y \in Nat \ T : ~ (<<y, x>> \in OpToRel(<, Nat))
  BY <1>1, NatLessThanWellFounded, WFMin
<1>3. PICK x \in Nat \ T : \A y \in Nat \ T : ~ (y < x)
  BY <1>2 DEF OpToRel
<1>4. x - 1 \in Nat \ T
  BY <1>3
<1> QED
  BY <1>3, <1>4

\* flush hands back every dirty entry once, and nothing else.
LEMMA DirtyEntriesFacts ==
  ASSUME NEW S, NEW list \in Seq(S), OneEntryPerLBA(list)
  PROVE  /\ DirtyEntries(list) \in Seq({x \in S : x.dirty})
         /\ Len(DirtyEntries(list)) <= Len(list)
         /\ OneEntryPerLBA(DirtyEntries(list))
         /\ Range(DirtyEntries(list)) = {x \in Range(list) : x.dirty}
<1> DEFINE D == {x \in S : x.dirty}
           after(old, n) == IF list[n].dirty THEN Append(old, list[n]) ELSE old
           Is(f, n) == f = [k \in 0 .. n |-> IF k = 0 THEN <<>> ELSE after(f[k - 1], k)]
<1>0. Len(list) \in Nat
  BY LenProperties
<1>1. /\ DOMAIN list = 1 .. Len(list)
      /\ \A i \in 1 .. Len(list) : list[i] \in S
  BY LenProperties, ElementOfSeq
<1>2. \E f : Is(f, Len(list))
  <2> DEFINE T == {n \in Nat : \E f : Is(f, n)}
  <2>1. 0 \in T
    <3> DEFINE f == [k \in 0 .. 0 |-> <<>>]
    <3>1. f = [k \in 0 .. 0 |-> IF k = 0 THEN <<>> ELSE after(f[k - 1], k)]
      OBVIOUS
    <3> QED
      BY <3>1
  <2>2. ASSUME NEW n \in T
        PROVE  n + 1 \in T
    <3>1. PICK f : Is(f, n)
      BY <2>2
    <3> HIDE DEF after
    <3> DEFINE g == [k \in 0 .. n + 1 |-> IF k = n + 1 THEN after(f[n], n + 1) ELSE f[k]]
    <3>2. ASSUME NEW k \in 0 .. n + 1
          PROVE  g[k] = IF k = 0 THEN <<>> ELSE after(g[k - 1], k)
      <4>1. CASE k = n + 1
        <5>1. k - 1 = n /\ n \in 0 .. n + 1 /\ n # n + 1 /\ k # 0
          BY <2>2, <4>1
        <5> QED
          BY <4>1, <5>1
      <4>2. CASE k \in 0 .. n
        <5>1. g[k] = f[k] /\ (k # 0 => k - 1 \in 0 .. n + 1 /\ g[k - 1] = f[k - 1])
          BY <2>2, <4>2
        <5> QED
          BY <3>1, <4>2, <5>1
      <4> QED
        BY <2>2, <4>1, <4>2
    <3>3. Is(g, n + 1)
      BY <3>2
    <3> HIDE DEF g, Is
    <3>4. \E h : Is(h, n + 1)
      BY <3>3
    <3> QED
      BY <2>2, <3>4
  <2> HIDE DEF T
  <2>3. T = Nat
    BY <2>1, <2>2, SetInduction DEF T
  <2> QED
    BY <1>0, <2>3 DEF T
<1>3. PICK dirty : Is(dirty, Len(list)) /\ DirtyEntries(list) = dirty[Len(list)]
  BY <1>2 DEF DirtyEntries
<1> HIDE DEF after
<1>4. /\ dirty[0] = <<>>
      /\ \A n \in 1 .. Len(list) : dirty[n] = after(dirty[n - 1], n)
  <2>1. \A n \in 0 .. Len(list) :
          dirty[n] = IF n = 0 THEN <<>> ELSE after(dirty[n - 1], n)
    BY <1>3
  <2>2. 0 \in 0 .. Len(list) /\ \A n \in 1 .. Len(list) : n \in 0 .. Len(list) /\ n # 0
    BY <1>0
  <2> QED
    BY <2>1, <2>2
<1> USE DEF after
<1> HIDE DEF Is
<1> DEFINE Upto(n) == {x \in D : \E i \in 1 .. n : x = list[i]}
           Good(n) ==
             /\ dirty[n] \in Seq(D) /\ Len(dirty[n]) <= n
             /\ OneEntryPerLBA(dirty[n])
             /\ Range(dirty[n]) = Upto(n)
<1>5. Good(Len(list))
  <2> DEFINE T == {n \in Nat : n <= Len(list) => Good(n)}
  <2>1. 0 \in T
    <3>1. Good(0)
      BY <1>4 DEF OneEntryPerLBA, Range
    <3> QED
      BY <3>1
  <2>2. ASSUME NEW n \in T, n + 1 <= Len(list)
        PROVE  Good(n + 1)
    <3>1. n \in Nat /\ n <= Len(list) /\ n + 1 \in 1 .. Len(list) /\ (n + 1) - 1 = n
      BY <1>0, <2>2
    <3>2. Good(n)
      BY <2>2, <3>1
    <3> DEFINE x == list[n + 1]
               old == dirty[n]
               new == dirty[n + 1]
    <3>3. new = IF x.dirty THEN Append(old, x) ELSE old
      BY <1>4, <3>1
    <3>4. x \in S
      BY <1>1, <3>1
    <3>5. \A i \in 1 .. n + 1 : i \in 1 .. n \/ i = n + 1
      BY <3>1
    <3>6. \A i \in 1 .. n : i \in 1 .. n + 1 /\ i \in 1 .. Len(list) /\ i # n + 1
      BY <1>0, <3>1
    <3>7. n + 1 \in 1 .. n + 1
      BY <3>1
    <3>8. CASE ~ x.dirty
      <4>1. Upto(n + 1) = Upto(n)
        BY <3>5, <3>6, <3>8
      <4>2. new = old /\ Len(old) <= n + 1
        BY <3>1, <3>2, <3>3, <3>8, LenProperties
      <4> QED
        BY <3>2, <4>1, <4>2
    <3>9. CASE x.dirty
      <4>1. x \in D
        BY <3>4, <3>9
      <4>2. Upto(n + 1) = Upto(n) \cup {x}
        BY <3>5, <3>6, <3>7, <4>1
      <4>3. new = Append(old, x)
        BY <3>3, <3>9
      <4>4. old \in Seq(D) /\ Len(old) <= n /\ OneEntryPerLBA(old) /\ Range(old) = Upto(n)
        BY <3>2
      <4> HIDE DEF x, old, new, Upto, D
      <4>5. /\ new \in Seq(D) /\ Len(new) = Len(old) + 1
            /\ \A i \in 1 .. Len(old) : new[i] = old[i]
            /\ new[Len(old) + 1] = x
        BY <4>1, <4>3, <4>4, AppendProperties
      <4>6. Len(old) \in Nat /\ DOMAIN old = 1 .. Len(old)
        BY <4>4, LenProperties
      <4>7. DOMAIN new = 1 .. Len(old) + 1
        BY <4>5, LenProperties
      <4>8. DOMAIN new = DOMAIN old \cup {Len(old) + 1}
        BY <4>6, <4>7
      <4>9. Range(new) = Upto(n + 1)
        BY <4>2, <4>4, <4>5, <4>6, <4>8 DEF Range
      <4>10. \A i \in DOMAIN old : old[i].lba # x.lba
        <5>1. ASSUME NEW i \in DOMAIN old, old[i].lba = x.lba
              PROVE  FALSE
          <6>1. old[i] \in Upto(n)
            BY <4>4 DEF Range
          <6>2. PICK j \in 1 .. n : old[i] = list[j]
            BY <6>1 DEF Upto
          <6>3. j = n + 1
            BY <1>1, <3>1, <3>6, <5>1, <6>2 DEF x, OneEntryPerLBA
          <6> QED
            BY <3>6, <6>3
        <5> QED
          BY <5>1
      <4>11. OneEntryPerLBA(new)
        BY <4>4, <4>5, <4>6, <4>8, <4>10 DEF OneEntryPerLBA
      <4>12. Len(new) <= n + 1
        BY <3>1, <4>4, <4>5, <4>6
      <4> QED
        BY <4>5, <4>9, <4>11, <4>12 DEF new
    <3> QED
      BY <3>8, <3>9
  <2> HIDE DEF Good
  <2>3. T = Nat
    <3>1. ASSUME NEW n \in T
          PROVE  n + 1 \in T
      BY <2>2
    <3> HIDE DEF T
    <3> QED
      BY <2>1, <3>1, SetInduction DEF T
  <2> QED
    BY <1>0, <2>3
<1>6. Upto(Len(list)) = {x \in Range(list) : x.dirty}
  BY <1>1 DEF Range
<1> QED
  BY <1>3, <1>5, <1>6

=============================================================================
