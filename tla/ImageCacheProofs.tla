--------------------------- MODULE ImageCacheProofs ---------------------------
(***************************************************************************)
(* The session cache, for any images, limits, browsers, timer threads and     *)
(* requests: its index and count of bytes, its files, and its flush timers.    *)
(***************************************************************************)
EXTENDS ImageCache, SequenceTheorems, FiniteSetTheorems, TLAPS

--------------------------------------------------------------------------------
(* The flush timers *)

\* What the hooks know: they hold a timer only while nobody is connected.
HooksInv ==
  /\ conn \in Nat
  /\ held # NoTimer => conn = 0

LEMMA InitHooks == Init => HooksInv
  BY DEF Init, HooksInv

LEMMA StepHooks == HooksInv /\ [Next]_vars => HooksInv'
  <1> SUFFICES ASSUME HooksInv, [Next]_vars PROVE HooksInv'
    OBVIOUS
  <1> USE DEF HooksInv
  <1>1. CASE Put
    BY <1>1 DEF Put, PutWrite, PutIndex, busVars
  <1>2. ASSUME NEW r \in Requests, Get(r) PROVE HooksInv'
    BY <1>2 DEF Get, GetLookup, Proceed, GetRead, GetGone, busVars
  <1>3. CASE Subscribe
    \* The first browser makes the hooks let go; a later one finds nothing held.
    BY <1>3, BrowserAssumption DEF Subscribe, AfterFirst
  <1>4. CASE Unsubscribe
    <2>1. CASE LastLeaves
      BY <1>4, <2>1 DEF Unsubscribe, LastLeaves
    <2>2. CASE ~LastLeaves
      BY <1>4, <2>2 DEF Unsubscribe, LastLeaves
    <2> QED BY <2>1, <2>2
  <1>5. ASSUME NEW i \in Timers, Flush(i) PROVE HooksInv'
    BY <1>5 DEF Flush, Fire, ClearIndex, RemoveTree, ForgetTimer, busVars
  <1>6. CASE UNCHANGED vars
    BY <1>6 DEF vars
  <1> QED BY <1>1, <1>2, <1>3, <1>4, <1>5, <1>6 DEF Next, Bus

\* A timer that the hooks hold never runs beside a connected browser (lifespan.py,
\* _on_first_subscribe, _on_last_unsubscribe).
THEOREM ReconnectIsSafe == Spec => []HeldTimerIsAlone
  <1>1. HooksInv => HeldTimerIsAlone
    BY DEF HooksInv, HeldTimerIsAlone
  <1> QED BY <1>1, InitHooks, StepHooks, PTL DEF Spec

--------------------------------------------------------------------------------
(* Bytes of entries *)

LEMMA EntryIs ==
  /\ \A e \in Entry : e.key \in Keys /\ e.size \in SizesOf(e.key) /\ e.size \in Nat \ {0} /\ e.name \in Files
  /\ \A f \in Files : \A k \in Keys : \A n \in SizesOf(k) : [name |-> f, key |-> k, size |-> n] \in Entry
  /\ NoFile \notin Entry
<1>1. ASSUME NEW e \in Entry
      PROVE  e.key \in Keys /\ e.size \in SizesOf(e.key) /\ e.name \in Files /\ "key" \in DOMAIN e
  <2>1. PICK k \in Keys : e \in [name : Files, key : {k}, size : SizesOf(k)]
    BY DEF Entry
  <2>2. QED
    BY <2>1
<1>2. ASSUME NEW e \in Entry
      PROVE  e.size \in Nat \ {0}
  BY <1>1, SizeAssumption
<1>3. ASSUME NEW f \in Files, NEW k \in Keys, NEW n \in SizesOf(k)
      PROVE  [name |-> f, key |-> k, size |-> n] \in Entry
  <2>1. [name |-> f, key |-> k, size |-> n] \in [name : Files, key : {k}, size : SizesOf(k)]
    OBVIOUS
  <2>2. QED
    BY <2>1 DEF Entry
<1>4. NoFile \notin Entry
  <2>1. "key" \notin DOMAIN NoFile
    BY DEF NoFile
  <2>2. QED
    BY <2>1, <1>1
<1>5. QED
  BY <1>1, <1>2, <1>3, <1>4

\* Finitely many entries have finitely many bytes, those of one entry are its size, and
\* those of disjoint sets add up.
Cells(S) == UNION {BytesOf(e) : e \in S}

LEMMA CellsFinite ==
  ASSUME NEW S \in SUBSET Entry, IsFiniteSet(S)
  PROVE  IsFiniteSet(Cells(S)) /\ Total(S) \in Nat
<1> DEFINE f == [e \in S |-> BytesOf(e)]
           T == {BytesOf(e) : e \in S}
<1>1. f \in Surjection(S, T)
  BY DEF Surjection
<1>2. IsFiniteSet(T)
  <2> HIDE DEF f, T
  <2> QED
    BY <1>1, FS_Surjection
<1>3. ASSUME NEW e \in S
      PROVE  IsFiniteSet(BytesOf(e))
  <2>0. 1 \in Int /\ e.size \in Int
    BY EntryIs
  <2>1. IsFiniteSet({e}) /\ IsFiniteSet(1..e.size)
    BY <2>0, FS_Singleton, FS_Interval
  <2>2. QED
    BY <2>1, FS_Product DEF BytesOf
<1>4. IsFiniteSet(UNION T)
  BY <1>2, <1>3, FS_UNION
<1>5. QED
  BY <1>4, FS_CardinalityType DEF Cells, Total

LEMMA TotalEmpty == Total({}) = 0
<1>1. UNION {BytesOf(e) : e \in {}} = {}
  OBVIOUS
<1>2. QED
  BY <1>1, FS_EmptySet DEF Total

LEMMA TotalOne ==
  ASSUME NEW e \in Entry
  PROVE  Total({e}) = e.size
<1>1. UNION {BytesOf(d) : d \in {e}} = {e} \X (1..e.size)
  BY DEF BytesOf
<1>2. e.size \in Nat \ {0} /\ 1 \in Int
  BY EntryIs
<1>3. IsFiniteSet(1..e.size) /\ Cardinality(1..e.size) = e.size
  BY <1>2, FS_Interval
<1>4. IsFiniteSet({e}) /\ Cardinality({e}) = 1
  BY FS_Singleton
<1>5. Cardinality({e} \X (1..e.size)) = 1 * e.size
  BY <1>3, <1>4, FS_Product
<1>6. QED
  BY <1>1, <1>2, <1>5 DEF Total

LEMMA TotalUnion ==
  ASSUME NEW S \in SUBSET Entry, NEW T \in SUBSET Entry, IsFiniteSet(S), IsFiniteSet(T), S \cap T = {}
  PROVE  Total(S \cup T) = Total(S) + Total(T)
<1>1. Cells(S \cup T) = Cells(S) \cup Cells(T)
  BY DEF Cells
<1>2. Cells(S) \cap Cells(T) = {}
  BY DEF Cells, BytesOf
<1>3. /\ IsFiniteSet(Cells(S)) /\ IsFiniteSet(Cells(T))
      /\ Cardinality(Cells(S)) \in Nat /\ Cardinality(Cells(T)) \in Nat
  BY CellsFinite, FS_CardinalityType
<1>4. Cardinality(Cells(S) \cup Cells(T)) = Cardinality(Cells(S)) + Cardinality(Cells(T)) - Cardinality({})
  BY <1>2, <1>3, FS_Union
<1>5. \A U : Total(U) = Cardinality(Cells(U))
  BY DEF Total, Cells
<1>6. Total(S \cup T) = Cardinality(Cells(S) \cup Cells(T))
  BY <1>1, <1>5
<1>7. QED
  BY <1>3, <1>4, <1>5, <1>6, FS_EmptySet

--------------------------------------------------------------------------------
(* Sequences of entries, one for each key *)

OnePerKey(s) == \A i, j \in 1..Len(s) : s[i].key = s[j].key => i = j
Queue == {s \in Seq(Entry) : OnePerKey(s)}

LEMMA QueueRange ==
  ASSUME NEW s \in Queue
  PROVE  /\ s \in Seq(Entry) /\ Len(s) \in Nat /\ DOMAIN s = 1..Len(s)
         /\ Range(s) \in SUBSET Entry /\ IsFiniteSet(Range(s))
         /\ Range(s) = {s[i] : i \in 1..Len(s)}
         /\ \A i \in 1..Len(s) : s[i] \in Entry
<1>1. s \in Seq(Entry) /\ Len(s) \in Nat /\ DOMAIN s = 1..Len(s) /\ s \in [1..Len(s) -> Entry]
  BY LenProperties DEF Queue
<1>2. Range(s) = {s[i] : i \in 1..Len(s)}
  BY <1>1, RangeEquality
<1>3. s \in Surjection(1..Len(s), Range(s))
  BY <1>1, <1>2 DEF Surjection
<1>4. IsFiniteSet(1..Len(s))
  BY <1>1, FS_Interval
<1>5. IsFiniteSet(Range(s))
  BY <1>3, <1>4, FS_Surjection
<1>6. QED
  BY <1>1, <1>2, <1>5

\* The oldest i and the rest share no entry.
LEMMA Cut ==
  ASSUME NEW s \in Queue, NEW i \in 0..Len(s)
  PROVE  /\ SubSeq(s, i + 1, Len(s)) \in Queue
         /\ Len(SubSeq(s, i + 1, Len(s))) = Len(s) - i
         /\ Oldest(s, i) \in SUBSET Entry /\ IsFiniteSet(Oldest(s, i))
         /\ Range(s) = Oldest(s, i) \cup Range(SubSeq(s, i + 1, Len(s)))
         /\ Oldest(s, i) \cap Range(SubSeq(s, i + 1, Len(s))) = {}
         /\ Total(Range(s)) = Total(Oldest(s, i)) + Total(Range(SubSeq(s, i + 1, Len(s))))
         /\ Total(Oldest(s, i)) \in Nat /\ Total(Range(SubSeq(s, i + 1, Len(s)))) \in Nat
<1> DEFINE old == SubSeq(s, 1, i)
           new == SubSeq(s, i + 1, Len(s))
<1>0. s \in Seq(Entry) /\ Len(s) \in Nat /\ OnePerKey(s) /\ i \in Nat /\ i <= Len(s)
  BY QueueRange DEF Queue
<1>1. /\ old \in Seq(Entry) /\ Len(old) = i
      /\ \A j \in 1..i : old[j] = s[j]
  BY <1>0, SubSeqProperties
<1>2. /\ new \in Seq(Entry) /\ Len(new) = Len(s) - i
      /\ \A j \in 1..(Len(s) - i) : new[j] = s[i + j]
  BY <1>0, SubSeqProperties
<1> HIDE DEF old, new
<1>3. old \in Queue
  <2>1. ASSUME NEW j \in 1..i, NEW k \in 1..i, old[j].key = old[k].key
        PROVE  j = k
    <3>1. j \in 1..Len(s) /\ k \in 1..Len(s) /\ s[j].key = s[k].key
      BY <1>0, <1>1, <2>1
    <3>2. QED
      BY <1>0, <3>1 DEF OnePerKey
  <2>2. QED
    BY <1>1, <2>1 DEF Queue, OnePerKey
<1>4. new \in Queue
  <2>1. ASSUME NEW j \in 1..(Len(s) - i), NEW k \in 1..(Len(s) - i), new[j].key = new[k].key
        PROVE  j = k
    <3>1. s[i + j].key = s[i + k].key
      BY <1>2, <2>1
    <3>2. i + j \in 1..Len(s) /\ i + k \in 1..Len(s)
      BY <1>0
    <3>3. QED
      BY <1>0, <3>1, <3>2 DEF OnePerKey
  <2>2. QED
    BY <1>2, <2>1 DEF Queue, OnePerKey
<1>5. /\ Range(s) = {s[j] : j \in 1..Len(s)}
      /\ Range(old) = {old[j] : j \in 1..i}
      /\ Range(new) = {new[j] : j \in 1..(Len(s) - i)}
  BY <1>1, <1>2, <1>3, <1>4, QueueRange
<1>6. Range(old) \cap Range(new) = {}
  <2>1. ASSUME NEW j \in 1..i, NEW k \in 1..(Len(s) - i), old[j] = new[k]
        PROVE  FALSE
    <3>1. j \in 1..Len(s) /\ i + k \in 1..Len(s) /\ j # i + k /\ s[j] = s[i + k]
      BY <1>0, <1>1, <1>2, <2>1
    <3>2. QED
      BY <1>0, <3>1 DEF OnePerKey
  <2>2. QED
    BY <1>5, <2>1
<1>7. Range(s) = Range(old) \cup Range(new)
  <2>1. ASSUME NEW j \in 1..Len(s)
        PROVE  s[j] \in Range(old) \cup Range(new)
    <3>1. CASE j <= i
      BY <1>0, <1>1, <1>5, <3>1
    <3>2. CASE j > i
      <4>1. j - i \in 1..(Len(s) - i) /\ s[j] = s[i + (j - i)]
        BY <1>0, <3>2
      <4>2. s[j] = new[j - i]
        BY <1>2, <4>1
      <4>3. QED
        BY <1>5, <4>1, <4>2
    <3>3. QED
      BY <1>0, <3>1, <3>2
  <2>2. Range(old) \subseteq Range(s)
    BY <1>0, <1>1, <1>5
  <2>3. Range(new) \subseteq Range(s)
    BY <1>0, <1>2, <1>5
  <2>4. QED
    BY <1>5, <2>1, <2>2, <2>3
<1>8. /\ Range(old) \in SUBSET Entry /\ IsFiniteSet(Range(old))
      /\ Range(new) \in SUBSET Entry /\ IsFiniteSet(Range(new))
  BY <1>3, <1>4, QueueRange
<1>9. Total(Range(s)) = Total(Range(old)) + Total(Range(new))
  BY <1>6, <1>7, <1>8, TotalUnion
<1>10. Total(Range(old)) \in Nat /\ Total(Range(new)) \in Nat
  BY <1>8, CellsFinite
<1>11. QED
  BY <1>2, <1>4, <1>6, <1>7, <1>8, <1>9, <1>10 DEF Oldest, old, new

\* The sequence without the element at p.
LEMMA RemoveAtIs ==
  ASSUME NEW S, NEW s \in Seq(S), NEW p \in 1..Len(s)
  PROVE  /\ RemoveAt(s, p) \in Seq(S) /\ Len(RemoveAt(s, p)) = Len(s) - 1
         /\ \A i \in 1..(Len(s) - 1) : RemoveAt(s, p)[i] = IF i < p THEN s[i] ELSE s[i + 1]
<1> DEFINE front == SubSeq(s, 1, p - 1)
           back  == SubSeq(s, p + 1, Len(s))
<1>0. /\ Len(s) \in Nat /\ p \in Nat /\ p >= 1 /\ p <= Len(s)
      /\ \A i \in 1..Len(s) : s[i] \in S
  BY LenProperties, ElementOfSeq
<1>1. /\ front \in Seq(S) /\ Len(front) = p - 1
      /\ \A i \in 1..(p - 1) : front[i] = s[i]
  <2>1. 1 \in Int /\ p - 1 \in Int /\ \A i \in 1..(p - 1) : s[i] \in S
    BY <1>0
  <2>2. /\ front \in Seq(S)
        /\ Len(front) = IF 1 <= p - 1 THEN (p - 1) - 1 + 1 ELSE 0
        /\ \A i \in 1..((p - 1) - 1 + 1) : front[i] = s[1 + i - 1]
    BY <2>1, SubSeqProperties
  <2> HIDE DEF front
  <2>3. QED
    BY <1>0, <2>2
<1>2. /\ back \in Seq(S) /\ Len(back) = Len(s) - p
      /\ \A i \in 1..(Len(s) - p) : back[i] = s[p + i]
  <2>1. p + 1 \in Int /\ Len(s) \in Int /\ \A i \in (p + 1)..Len(s) : s[i] \in S
    BY <1>0
  <2>2. /\ back \in Seq(S)
        /\ Len(back) = IF p + 1 <= Len(s) THEN Len(s) - (p + 1) + 1 ELSE 0
        /\ \A i \in 1..(Len(s) - (p + 1) + 1) : back[i] = s[(p + 1) + i - 1]
    BY <2>1, SubSeqProperties
  <2> HIDE DEF back
  <2>3. QED
    BY <1>0, <2>2
<1>3. RemoveAt(s, p) = front \o back
  BY DEF RemoveAt
<1> HIDE DEF front, back
<1>4. /\ front \o back \in Seq(S) /\ Len(front \o back) = Len(front) + Len(back)
      /\ \A i \in 1..(Len(front) + Len(back)) :
           (front \o back)[i] = IF i <= Len(front) THEN front[i] ELSE back[i - Len(front)]
  BY <1>1, <1>2, ConcatProperties
<1>5. Len(front) = p - 1 /\ Len(front) + Len(back) = Len(s) - 1
  BY <1>0, <1>1, <1>2
<1>6. ASSUME NEW i \in 1..(Len(s) - 1)
      PROVE  (front \o back)[i] = IF i < p THEN s[i] ELSE s[i + 1]
  <2>1. CASE i < p
    BY <1>0, <1>1, <1>4, <1>5, <2>1
  <2>2. CASE ~(i < p)
    <3>1. i - (p - 1) \in 1..(Len(s) - p) /\ p + (i - (p - 1)) = i + 1 /\ ~(i <= p - 1)
      BY <1>0, <2>2
    <3>2. (front \o back)[i] = back[i - (p - 1)]
      BY <1>4, <1>5, <3>1
    <3>3. QED
      BY <1>2, <2>2, <3>1, <3>2
  <2>3. QED
    BY <2>1, <2>2
<1>7. QED
  BY <1>3, <1>4, <1>5, <1>6

\* pop(key): what is left has no entry of the key, and all the others.
LEMMA Pop ==
  ASSUME index \in Queue, NEW k
  PROVE  /\ Without(k) \in Queue
         /\ Range(Without(k)) = Range(index) \ Keyed(k)
         /\ Keyed(k) = {} => Without(k) = index
         /\ Keyed(k) # {} => Len(Without(k)) = Len(index) - 1
         /\ Keyed(k) \in SUBSET Entry /\ IsFiniteSet(Keyed(k))
         /\ \A e \in Keyed(k) : e \in Entry /\ e.key = k /\ Keyed(k) = {e}
<1>0. /\ index \in Seq(Entry) /\ Len(index) \in Nat /\ DOMAIN index = 1..Len(index) /\ OnePerKey(index)
      /\ Range(index) = {index[i] : i \in 1..Len(index)}
      /\ Range(index) \in SUBSET Entry /\ IsFiniteSet(Range(index))
  BY QueueRange DEF Queue
<1>1. Keyed(k) \in SUBSET Range(index)
  BY DEF Keyed
<1>2. Keyed(k) \in SUBSET Entry /\ IsFiniteSet(Keyed(k))
  BY <1>0, <1>1, FS_Subset
<1>3. ASSUME NEW e \in Keyed(k)
      PROVE  e \in Entry /\ e.key = k /\ Keyed(k) = {e}
  BY <1>0, <1>2 DEF Keyed, OnePerKey
<1>4. CASE Keyed(k) = {}
  BY <1>0, <1>2, <1>4 DEF Without
<1>5. CASE Keyed(k) # {}
  <2> DEFINE p == Position(k)
  <2>1. p \in 1..Len(index) /\ index[p].key = k
    <3>1. \E i \in DOMAIN index : index[i].key = k
      BY <1>0, <1>5 DEF Keyed
    <3>2. QED
      BY <1>0, <3>1 DEF Position
  <2>2. Without(k) = RemoveAt(index, p)
    BY <1>5 DEF Without
  <2> HIDE DEF p
  <2>5. /\ Without(k) \in Seq(Entry) /\ Len(Without(k)) = Len(index) - 1
        /\ \A i \in 1..(Len(index) - 1) : Without(k)[i] = IF i < p THEN index[i] ELSE index[i + 1]
    BY <1>0, <2>1, <2>2, RemoveAtIs
  <2>6. ASSUME NEW i \in 1..(Len(index) - 1)
        PROVE  /\ i < p => i \in 1..Len(index) /\ Without(k)[i] = index[i]
               /\ i >= p => i + 1 \in 1..Len(index) /\ Without(k)[i] = index[i + 1]
    BY <1>0, <2>1, <2>5
  <2>7. ASSUME NEW i \in 1..(Len(index) - 1), NEW j \in 1..(Len(index) - 1),
               Without(k)[i].key = Without(k)[j].key
        PROVE  i = j
    BY <1>0, <2>1, <2>6, <2>7 DEF OnePerKey
  <2>8. Without(k) \in Queue
    BY <2>5, <2>7 DEF Queue, OnePerKey
  <2>9. Range(Without(k)) = {Without(k)[i] : i \in 1..(Len(index) - 1)}
    BY <2>5, <2>8, QueueRange
  <2>10. ASSUME NEW e \in Range(Without(k))
         PROVE  e \in Range(index) \ Keyed(k)
    <3>1. PICK i \in 1..(Len(index) - 1) : e = Without(k)[i]
      BY <2>9
    <3>2. PICK j \in 1..Len(index) : e = index[j] /\ j # p
      BY <1>0, <2>1, <2>6, <3>1
    <3>3. e.key # k
      BY <1>0, <2>1, <3>2 DEF OnePerKey
    <3>4. QED
      BY <1>0, <3>2, <3>3 DEF Keyed
  <2>11. ASSUME NEW e \in Range(index) \ Keyed(k)
         PROVE  e \in Range(Without(k))
    <3>1. PICK j \in 1..Len(index) : e = index[j]
      BY <1>0
    <3>2. j # p
      BY <2>1, <3>1, <2>11 DEF Keyed
    <3>3. CASE j < p
      <4>1. j \in 1..(Len(index) - 1)
        BY <1>0, <2>1, <3>3
      <4>2. QED
        BY <2>6, <2>9, <3>1, <3>3, <4>1
    <3>4. CASE j > p
      <4>1. j - 1 \in 1..(Len(index) - 1) /\ j - 1 >= p /\ j - 1 + 1 = j
        BY <1>0, <2>1, <3>4
      <4>2. Without(k)[j - 1] = index[j]
        BY <2>6, <4>1
      <4>3. QED
        BY <2>9, <3>1, <4>1, <4>2
    <3>5. QED
      BY <1>0, <2>1, <3>2, <3>3, <3>4
  <2>12. QED
    BY <1>2, <1>3, <1>5, <2>5, <2>8, <2>10, <2>11
<1>6. QED
  BY <1>4, <1>5

\* index[key] = entry, for a key that is not in the queue.
LEMMA Push ==
  ASSUME NEW s \in Queue, NEW e \in Entry, \A d \in Range(s) : d.key # e.key
  PROVE  /\ Append(s, e) \in Queue /\ Len(Append(s, e)) = Len(s) + 1
         /\ Range(Append(s, e)) = Range(s) \cup {e}
         /\ Total(Range(Append(s, e))) = Total(Range(s)) + e.size
<1>0. /\ s \in Seq(Entry) /\ Len(s) \in Nat /\ OnePerKey(s)
      /\ Range(s) = {s[i] : i \in 1..Len(s)}
      /\ Range(s) \in SUBSET Entry /\ IsFiniteSet(Range(s))
  BY QueueRange DEF Queue
<1>1. /\ Append(s, e) \in Seq(Entry) /\ Len(Append(s, e)) = Len(s) + 1
      /\ \A i \in 1..Len(s) : Append(s, e)[i] = s[i]
      /\ Append(s, e)[Len(s) + 1] = e
  BY <1>0, AppendProperties
<1>2. ASSUME NEW i \in 1..(Len(s) + 1), NEW j \in 1..(Len(s) + 1),
             Append(s, e)[i].key = Append(s, e)[j].key
      PROVE  i = j
  <2>1. CASE i <= Len(s) /\ j <= Len(s)
    BY <1>0, <1>1, <1>2, <2>1 DEF OnePerKey
  <2>2. \A m \in 1..Len(s) : Append(s, e)[m].key # e.key
    BY <1>0, <1>1
  <2>3. QED
    BY <1>0, <1>1, <1>2, <2>1, <2>2
<1>3. Append(s, e) \in Queue
  BY <1>1, <1>2 DEF Queue, OnePerKey
<1>4. Range(Append(s, e)) = {Append(s, e)[i] : i \in 1..(Len(s) + 1)}
  BY <1>1, <1>3, QueueRange
<1>5. Range(Append(s, e)) = Range(s) \cup {e}
  BY <1>0, <1>1, <1>4
<1>6. Range(s) \cap {e} = {} /\ IsFiniteSet({e})
  BY FS_Singleton
<1>7. Total(Range(s) \cup {e}) = Total(Range(s)) + Total({e})
  BY <1>0, <1>6, TotalUnion
<1>8. QED
  BY <1>1, <1>3, <1>5, <1>7, TotalOne

\* Evicting ends: with everything gone there is enough room.
LEMMA ExcessIs ==
  ASSUME NEW s \in Queue, NEW n \in Int
  PROVE  Excess(s, n) \in 0..Len(s) /\ Enough(s, n, Excess(s, n))
<1> DEFINE T == {i \in 0..Len(s) : Enough(s, n, i)}
<1>1. Len(s) \in Nat
  BY QueueRange
<1>2. T \subseteq Nat /\ Len(s) \in T
  BY <1>1 DEF Enough
<1>3. PICK i \in T : \A j \in T : <<j, i>> \notin OpToRel(<, Nat)
  <2> HIDE DEF T
  <2> QED
    BY <1>2, WFMin, NatLessThanWellFounded
<1>4. \A j \in 0..(i - 1) : ~Enough(s, n, j)
  <2>1. SUFFICES ASSUME NEW j \in 0..(i - 1), Enough(s, n, j)
                 PROVE  FALSE
    OBVIOUS
  <2>2. j \in T /\ j < i /\ j \in Nat /\ i \in Nat
    BY <1>1, <2>1
  <2>3. <<j, i>> \in OpToRel(<, Nat)
    BY <2>2 DEF OpToRel
  <2>4. QED
    BY <1>3, <2>2, <2>3
<1>5. QED
  BY <1>4 DEF Excess

--------------------------------------------------------------------------------
(* The invariant: the types, and the cap of bytes as far as the count goes *)

\* Either the count is within its cap, or nothing is left to evict.
Capped == bytes <= MaxBytes \/ index = <<>>

CacheInv == CacheTypeOK /\ Capped

LEMMA TypesOfCache ==
  ASSUME CacheTypeOK
  PROVE  /\ index \in Queue /\ Len(index) \in Nat /\ Len(index) <= MaxCount /\ bytes \in Int
         /\ Total(Range(index)) \in Nat
         /\ NoFile \notin disk
         /\ put # NoFile => put \in Entry
         /\ \A r \in Requests : get[r] # NoFile => get[r] \in Entry
<1>1. index \in Queue
  BY LenProperties DEF CacheTypeOK, Queue, OnePerKey
<1>2. Range(index) \in SUBSET Entry /\ IsFiniteSet(Range(index)) /\ Len(index) \in Nat
  BY <1>1, QueueRange
<1>3. QED
  BY <1>1, <1>2, CellsFinite, EntryIs DEF CacheTypeOK

\* The index as a queue is all there is to its type.
LEMMA IndexTyped ==
  ASSUME NEW s \in Queue
  PROVE  s \in Seq(Entry) /\ \A i, j \in DOMAIN s : s[i].key = s[j].key => i = j
BY QueueRange DEF Queue, OnePerKey

LEMMA InitCache == Init => CacheInv
<1> SUFFICES ASSUME Init
             PROVE  CacheInv
  OBVIOUS
<1>1. <<>> \in Seq(Entry) /\ Len(<<>>) = 0 /\ DOMAIN <<>> = {}
  BY EmptySeq
<1>2. CacheTypeOK
  BY <1>1, LimitAssumption, BrowserAssumption DEF Init, CacheTypeOK
<1>3. QED
  BY <1>2 DEF Init, CacheInv, Capped

\* put: the write of the file.
LEMMA WriteIs ==
  ASSUME CacheTypeOK, NEW k \in Keys, NEW size \in SizesOf(k), PutWrite(k, size)
  PROVE  /\ put' \in Entry /\ put = NoFile
         /\ disk' = disk \cup {put'}
         /\ UNCHANGED <<index, bytes, get, conn, held, timer>>
<1>1. (CHOOSE f \in Files : f \notin NamesInUse) \in Files
  BY DEF PutWrite
<1>2. put' \in Entry
  BY <1>1, EntryIs DEF PutWrite
<1>3. QED
  BY <1>2 DEF PutWrite, busVars

\* What is put in and what goes leave the difference of count and sum alone.
LEMMA Balance ==
  ASSUME NEW b \in Int, NEW old \in Int, NEW new \in Int, NEW out \in Int, NEW t \in Int, NEW u \in Int,
         t + new = u + out + old
  PROVE  ((b - old + new) - out) - u = b - t
OBVIOUS

\* put: the entry that was there is replaced, and the oldest give way until the limits
\* are met; the count follows.
LEMMA IndexIs ==
  ASSUME CacheTypeOK, PutIndex
  PROVE  /\ put \in Entry /\ put' = NoFile
         /\ index' \in Queue /\ Len(index') <= MaxCount
         /\ bytes' \in Int /\ Drift' = Drift
         /\ bytes' <= MaxBytes \/ index' = <<>>
         /\ disk' \subseteq disk
         /\ \A e \in disk' : e \in Range(index) \cup {put} => e \in Range(index')
         /\ UNCHANGED <<get, conn, held, timer>>
<1> DEFINE s == Append(Without(put.key), put)
           n == bytes - OldSize(put.key) + put.size
           x == Excess(s, n)
<1>0. /\ put \in Entry /\ put' = NoFile
      /\ index' = SubSeq(s, x + 1, Len(s))
      /\ bytes' = n - Total(Oldest(s, x))
      /\ disk' = disk \ (Replaced(put.key) \cup Oldest(s, x))
      /\ UNCHANGED <<get, conn, held, timer>>
  BY TypesOfCache DEF PutIndex, busVars
<1>1. /\ index \in Queue /\ bytes \in Int /\ put.size \in Nat
      /\ Range(index) \in SUBSET Entry /\ IsFiniteSet(Range(index))
  BY <1>0, TypesOfCache, QueueRange, EntryIs
<1>2. /\ Without(put.key) \in Queue
      /\ Range(Without(put.key)) = Range(index) \ Keyed(put.key)
      /\ Keyed(put.key) \in SUBSET Entry /\ IsFiniteSet(Keyed(put.key))
  BY <1>1, Pop
<1>3. \A d \in Range(Without(put.key)) : d.key # put.key
  BY <1>2 DEF Keyed
<1>4. /\ s \in Queue
      /\ Range(s) = Range(Without(put.key)) \cup {put}
      /\ Total(Range(s)) = Total(Range(Without(put.key))) + put.size
  BY <1>0, <1>2, <1>3, Push
<1>5. /\ Total(Range(index)) = Total(Range(Without(put.key))) + OldSize(put.key)
      /\ OldSize(put.key) \in Nat /\ Total(Range(Without(put.key))) \in Nat
  <2>1. Range(Without(put.key)) \in SUBSET Entry /\ IsFiniteSet(Range(Without(put.key)))
    BY <1>2, QueueRange
  <2>2. Range(index) = Range(Without(put.key)) \cup Keyed(put.key)
    BY <1>2 DEF Keyed
  <2>3. Range(Without(put.key)) \cap Keyed(put.key) = {}
    BY <1>2
  <2>4. QED
    BY <1>2, <2>1, <2>2, <2>3, TotalUnion, CellsFinite DEF OldSize
<1> HIDE DEF s
<1>6. n \in Int
  BY <1>1, <1>5
<1> HIDE DEF n
<1>7. x \in 0..Len(s) /\ Enough(s, n, x)
  BY <1>4, <1>6, ExcessIs
<1> HIDE DEF x
<1>8. /\ index' \in Queue
      /\ Len(index') = Len(s) - x
      /\ Range(s) = Oldest(s, x) \cup Range(index')
      /\ Total(Range(s)) = Total(Oldest(s, x)) + Total(Range(index'))
      /\ Total(Oldest(s, x)) \in Nat /\ Total(Range(index')) \in Nat
      /\ Len(s) \in Nat /\ index' \in Seq(Entry)
  BY <1>0, <1>4, <1>7, Cut, QueueRange
<1>9. bytes' \in Int /\ Drift' = Drift
  <2>1. bytes' = (bytes - OldSize(put.key) + put.size) - Total(Oldest(s, x))
    BY <1>0 DEF n
  <2>2. Total(Range(index)) + put.size = Total(Range(index')) + Total(Oldest(s, x)) + OldSize(put.key)
    BY <1>1, <1>4, <1>5, <1>8
  <2>3. bytes' - Total(Range(index')) = bytes - Total(Range(index))
    <3>1. /\ OldSize(put.key) \in Int /\ put.size \in Int /\ Total(Oldest(s, x)) \in Int /\ bytes \in Int
          /\ Total(Range(index)) \in Int /\ Total(Range(index')) \in Int
      BY <1>1, <1>5, <1>8
    <3>2. ((bytes - OldSize(put.key) + put.size) - Total(Oldest(s, x))) - Total(Range(index'))
            = bytes - Total(Range(index))
      BY <2>2, <3>1, Balance
    <3>3. QED
      BY <2>1, <3>2
  <2>4. QED
    BY <1>1, <1>5, <1>8, <2>1, <2>3 DEF Drift
<1>10. Len(index') <= MaxCount /\ (bytes' <= MaxBytes \/ index' = <<>>)
  <2>1. CASE x = Len(s)
    <3>1. Len(index') = 0
      BY <1>8, <2>1
    <3>2. index' = <<>>
      BY <1>8, <3>1, EmptySeq
    <3>3. QED
      BY <3>1, <3>2, LimitAssumption
  <2>2. CASE x # Len(s)
    BY <1>0, <1>7, <2>2 DEF Enough, Fits
  <2>3. QED
    BY <2>1, <2>2
<1>11. ASSUME NEW e \in disk', e \in Range(index) \cup {put}
       PROVE  e \in Range(index')
  <2>1. e \notin Keyed(put.key) /\ e \notin Oldest(s, x)
    BY <1>0 DEF Replaced
  <2>2. e \in Range(s)
    BY <1>2, <1>4, <1>11, <2>1
  <2>3. QED
    BY <1>8, <2>1, <2>2
<1>12. QED
  BY <1>0, <1>8, <1>9, <1>10, <1>11

\* get: the entry becomes the youngest.
LEMMA LookupIs ==
  ASSUME CacheTypeOK, NEW r \in Requests, NEW k \in Keys, GetLookup(r, k)
  PROVE  /\ index' \in Queue /\ Len(index') = Len(index) /\ Range(index') = Range(index)
         /\ Drift' = Drift /\ index # <<>>
         /\ get' \in [Requests -> Entry \cup {NoFile}] /\ get[r] = NoFile
         /\ UNCHANGED <<bytes, disk, put, conn, held, timer>>
<1>1. PICK e \in Keyed(k) : /\ index' = Append(Without(k), e)
                            /\ get' = [get EXCEPT ![r] = e]
  BY DEF GetLookup
<1>2. index \in Queue /\ Len(index) \in Nat
  BY TypesOfCache
<1>3. /\ Without(k) \in Queue /\ Range(Without(k)) = Range(index) \ Keyed(k)
      /\ Len(Without(k)) = Len(index) - 1
      /\ e \in Entry /\ e.key = k /\ Keyed(k) = {e}
  BY <1>1, <1>2, Pop
<1>4. \A d \in Range(Without(k)) : d.key # e.key
  BY <1>3 DEF Keyed
<1>5. /\ index' \in Queue /\ Len(index') = Len(Without(k)) + 1
      /\ Range(index') = Range(Without(k)) \cup {e}
  BY <1>1, <1>3, <1>4, Push
<1>6. Range(index') = Range(index)
  BY <1>3, <1>5 DEF Keyed
<1>7. Len(index') = Len(index)
  BY <1>2, <1>3, <1>5
<1>8. index # <<>>
  BY <1>2, <1>3, <1>5, EmptySeq, QueueRange
<1>9. UNCHANGED <<bytes, disk, put, conn, held, timer>> /\ get[r] = NoFile
  BY DEF GetLookup, busVars
<1>10. get' \in [Requests -> Entry \cup {NoFile}]
  BY <1>1, <1>3 DEF CacheTypeOK
<1>11. QED
  BY <1>5, <1>6, <1>7, <1>8, <1>9, <1>10 DEF Drift

\* get: the file is gone.  The count follows if the entry is the one looked up.
LEMMA GoneIs ==
  ASSUME CacheTypeOK, NEW r \in Requests, GetGone(r)
  PROVE  /\ index' \in Queue /\ Len(index') <= Len(index)
         /\ Range(index') = Range(index) \ Keyed(get[r].key)
         /\ bytes' \in Int /\ bytes' <= bytes
         /\ get[r] \in Range(index) => Drift' = Drift
         /\ index = <<>> => index' = <<>>
         /\ get[r] # NoFile /\ get'[r] = NoFile /\ get[r] \notin disk
         /\ get' \in [Requests -> Entry \cup {NoFile}]
         /\ UNCHANGED <<disk, put, conn, held, timer>>
<1>0. /\ get[r] # NoFile /\ get[r] \in Entry /\ get[r] \notin disk
      /\ index' = Without(get[r].key) /\ bytes' = bytes - get[r].size
      /\ get' = [get EXCEPT ![r] = NoFile]
      /\ UNCHANGED <<disk, put, conn, held, timer>>
  BY TypesOfCache DEF GetGone, busVars
<1>1. /\ index \in Queue /\ Len(index) \in Nat /\ bytes \in Int /\ get[r].size \in Nat
      /\ Range(index) \in SUBSET Entry /\ IsFiniteSet(Range(index))
  BY <1>0, TypesOfCache, QueueRange, EntryIs
<1>2. /\ index' \in Queue /\ Range(index') = Range(index) \ Keyed(get[r].key)
      /\ Keyed(get[r].key) = {} => index' = index
      /\ Keyed(get[r].key) # {} => Len(index') = Len(index) - 1
      /\ \A e \in Keyed(get[r].key) : Keyed(get[r].key) = {e}
  BY <1>0, <1>1, Pop
<1>3. Len(index') <= Len(index)
  BY <1>1, <1>2
<1>4. ASSUME get[r] \in Range(index)
      PROVE  Drift' = Drift
  <2>1. Keyed(get[r].key) = {get[r]}
    BY <1>2, <1>4 DEF Keyed
  <2>2. Range(index') \in SUBSET Entry /\ IsFiniteSet(Range(index')) /\ IsFiniteSet({get[r]})
    BY <1>2, QueueRange, FS_Singleton
  <2>3. Range(index) = Range(index') \cup {get[r]} /\ Range(index') \cap {get[r]} = {}
    BY <1>2, <1>4, <2>1
  <2>4. Total(Range(index)) = Total(Range(index')) + get[r].size /\ Total(Range(index')) \in Nat
    BY <1>0, <2>2, <2>3, TotalUnion, TotalOne, CellsFinite
  <2>5. QED
    BY <1>0, <1>1, <2>4 DEF Drift
<1>5. ASSUME index = <<>>
      PROVE  index' = <<>>
  <2>1. Len(index) = 0
    BY <1>5
  <2>2. Len(index') = 0 /\ index' \in Seq(Entry)
    BY <1>1, <1>2, <1>3, <2>1, QueueRange
  <2>3. QED
    BY <2>2, EmptySeq
<1>6. get' \in [Requests -> Entry \cup {NoFile}] /\ get'[r] = NoFile
  BY <1>0 DEF CacheTypeOK
<1>7. bytes' \in Int /\ bytes' <= bytes
  BY <1>0, <1>1
<1>8. QED
  BY <1>0, <1>2, <1>3, <1>4, <1>5, <1>6, <1>7

\* What the event loop and the timer threads do to the hooks and timers.
LEMMA HooksTyped ==
  ASSUME CacheTypeOK, Bus \/ \E i \in Timers : Flush(i)
  PROVE  /\ conn' \in 0..MaxConn /\ held' \in Timers \cup {NoTimer}
         /\ timer' \in [Timers -> {"free", "waiting", "clear", "rmtree", "reset"}]
         /\ UNCHANGED <<put, get>>
<1> DEFINE Pcs == {"free", "waiting", "clear", "rmtree", "reset"}
<1>0. conn \in 0..MaxConn /\ MaxConn \in Nat /\ held \in Timers \cup {NoTimer} /\ timer \in [Timers -> Pcs]
  BY BrowserAssumption DEF CacheTypeOK
<1>1. CASE Subscribe
  BY <1>0, <1>1 DEF Subscribe, AfterFirst, cacheVars, threadVars
<1>2. CASE Unsubscribe
  <2>1. conn' \in 0..MaxConn /\ UNCHANGED <<put, get>>
    BY <1>0, <1>2 DEF Unsubscribe, threadVars
  <2>2. CASE LastLeaves /\ held = NoTimer
    <3>1. held' \in Timers /\ timer' = [timer EXCEPT ![held'] = "waiting"]
      BY <1>2, <2>2 DEF Unsubscribe
    <3>2. QED
      BY <1>0, <2>1, <3>1
  <2>3. CASE ~(LastLeaves /\ held = NoTimer)
    BY <1>0, <1>2, <2>1, <2>3 DEF Unsubscribe
  <2>4. QED
    BY <2>2, <2>3
<1>3. ASSUME NEW i \in Timers, Flush(i)
      PROVE  /\ conn' \in 0..MaxConn /\ held' \in Timers \cup {NoTimer}
             /\ timer' \in [Timers -> Pcs] /\ UNCHANGED <<put, get>>
  BY <1>0, <1>3 DEF Flush, Fire, ClearIndex, RemoveTree, ForgetTimer, Goto, busVars, threadVars
<1>4. QED
  BY <1>1, <1>2, <1>3 DEF Bus

\* What they do to the cache: nothing, or they empty the index, or the directory.
LEMMA FlushIs ==
  ASSUME CacheTypeOK, Bus \/ \E i \in Timers : Flush(i)
  PROVE  \/ UNCHANGED <<index, bytes, disk>>
         \/ /\ index' = <<>> /\ bytes' = 0 /\ disk' = disk
            /\ \E i \in Timers : timer'[i] = "rmtree"
         \/ UNCHANGED <<index, bytes>> /\ disk' = {}
<1>1. CASE Bus
  BY <1>1 DEF Bus, Subscribe, Unsubscribe, cacheVars
<1>2. ASSUME NEW i \in Timers, ClearIndex(i)
      PROVE  index' = <<>> /\ bytes' = 0 /\ disk' = disk /\ timer'[i] = "rmtree"
  BY <1>2 DEF ClearIndex, Goto, CacheTypeOK
<1>3. ASSUME NEW i \in Timers, Flush(i), ~ClearIndex(i)
      PROVE  \/ UNCHANGED <<index, bytes, disk>>
             \/ UNCHANGED <<index, bytes>> /\ disk' = {}
  <2>1. CASE Fire(i) \/ ForgetTimer(i)
    BY <2>1 DEF Fire, ForgetTimer, cacheVars
  <2>2. CASE RemoveTree(i)
    BY <2>2 DEF RemoveTree
  <2>3. QED
    BY <1>3, <2>1, <2>2 DEF Flush
<1>4. QED
  BY <1>1, <1>2, <1>3

LEMMA EmptyIndex == <<>> \in Queue /\ Len(<<>>) = 0 /\ Total(Range(<<>>)) = 0
<1>1. <<>> \in Seq(Entry) /\ Len(<<>>) = 0
  BY EmptySeq
<1>2. <<>> \in Queue
  BY <1>1 DEF Queue, OnePerKey
<1>3. Range(<<>>) = {}
  BY <1>1, <1>2, QueueRange
<1>4. QED
  BY <1>1, <1>2, <1>3, TotalEmpty

LEMMA StepCache == CacheInv /\ [Next]_vars => CacheInv'
<1> SUFFICES ASSUME CacheInv, [Next]_vars
             PROVE  CacheInv'
  OBVIOUS
<1>0. /\ CacheTypeOK /\ Capped
      /\ index \in Queue /\ Len(index) \in Nat /\ Len(index) <= MaxCount /\ bytes \in Int
      /\ MaxCount \in Nat /\ MaxBytes \in Nat
      /\ disk \subseteq Entry /\ put \in Entry \cup {NoFile} /\ get \in [Requests -> Entry \cup {NoFile}]
      /\ conn \in 0..MaxConn /\ held \in Timers \cup {NoTimer}
      /\ timer \in [Timers -> {"free", "waiting", "clear", "rmtree", "reset"}]
  BY TypesOfCache, LimitAssumption DEF CacheInv, CacheTypeOK
<1>a. ASSUME index' \in Queue, Len(index') <= MaxCount, bytes' \in Int, disk' \subseteq Entry,
             put' \in Entry \cup {NoFile}, get' \in [Requests -> Entry \cup {NoFile}],
             conn' \in 0..MaxConn, held' \in Timers \cup {NoTimer},
             timer' \in [Timers -> {"free", "waiting", "clear", "rmtree", "reset"}],
             bytes' <= MaxBytes \/ index' = <<>>
      PROVE  CacheInv'
  BY <1>a, IndexTyped DEF CacheInv, CacheTypeOK, Capped
<1>1. ASSUME NEW k \in Keys, NEW size \in SizesOf(k), PutWrite(k, size)
      PROVE  CacheInv'
  BY <1>0, <1>1, <1>a, WriteIs DEF Capped
<1>2. CASE PutIndex
  BY <1>0, <1>2, <1>a, IndexIs
<1>3. ASSUME NEW r \in Requests, NEW k \in Keys, GetLookup(r, k)
      PROVE  CacheInv'
  <2>1. /\ index' \in Queue /\ Len(index') = Len(index) /\ index # <<>>
        /\ get' \in [Requests -> Entry \cup {NoFile}]
        /\ UNCHANGED <<bytes, disk, put, conn, held, timer>>
    BY <1>0, <1>3, LookupIs
  <2>2. QED
    BY <1>0, <1>a, <2>1 DEF Capped
<1>4. ASSUME NEW r \in Requests, GetRead(r)
      PROVE  CacheInv'
  <2>1. /\ UNCHANGED <<index, bytes, disk, put, conn, held, timer>>
        /\ get' \in [Requests -> Entry \cup {NoFile}]
    BY <1>0, <1>4 DEF GetRead, cacheVars, busVars
  <2>2. QED
    BY <1>0, <1>a, <2>1 DEF Capped
<1>5. ASSUME NEW r \in Requests, GetGone(r)
      PROVE  CacheInv'
  <2>1. /\ index' \in Queue /\ Len(index') <= Len(index) /\ bytes' \in Int /\ bytes' <= bytes
        /\ index = <<>> => index' = <<>>
        /\ get' \in [Requests -> Entry \cup {NoFile}]
        /\ UNCHANGED <<disk, put, conn, held, timer>>
    BY <1>0, <1>5, GoneIs
  <2>2. Len(index') \in Nat
    BY <2>1, QueueRange
  <2>3. Len(index') <= MaxCount /\ (bytes' <= MaxBytes \/ index' = <<>>)
    BY <1>0, <2>1, <2>2 DEF Capped
  <2>4. QED
    BY <1>0, <1>a, <2>1, <2>3
<1>6. CASE Bus \/ \E i \in Timers : Flush(i)
  <2>1. /\ conn' \in 0..MaxConn /\ held' \in Timers \cup {NoTimer}
        /\ timer' \in [Timers -> {"free", "waiting", "clear", "rmtree", "reset"}]
        /\ UNCHANGED <<put, get>>
    BY <1>0, <1>6, HooksTyped
  <2>2. /\ index' \in Queue /\ Len(index') <= MaxCount /\ bytes' \in Int /\ disk' \subseteq Entry
        /\ bytes' <= MaxBytes \/ index' = <<>>
    BY <1>0, <1>6, FlushIs, EmptyIndex DEF Capped
  <2>3. QED
    BY <1>0, <1>a, <2>1, <2>2
<1>7. CASE UNCHANGED vars
  BY <1>0, <1>7, <1>a DEF vars, Capped
<1>8. QED
  BY <1>1, <1>2, <1>3, <1>4, <1>5, <1>6, <1>7 DEF Next, Put, Get, Proceed

\* The index is a queue of at most max_count images with one entry for each key, whatever
\* readers, writers and flushes do to it (disk_cache.py, put, get_image, clear_all).
THEOREM CacheTypes == Spec => []CacheTypeOK
<1>1. CacheInv => CacheTypeOK
  BY DEF CacheInv
<1>2. QED
  BY <1>1, InitCache, StepCache, PTL DEF Spec

\* While the count of bytes is right the images are within max_bytes
\* (_enforce_limits_locked).
THEOREM BytesWithin == Spec => []WithinBytes
<1>1. CacheInv => WithinBytes
  <2> SUFFICES ASSUME CacheInv, Drift = 0
               PROVE  Total(Range(index)) <= MaxBytes
    BY DEF WithinBytes
  <2>1. bytes \in Int /\ Total(Range(index)) \in Nat /\ MaxBytes \in Nat
    BY TypesOfCache, LimitAssumption DEF CacheInv
  <2>2. bytes = Total(Range(index))
    BY <2>1 DEF Drift
  <2>3. QED
    BY <2>1, <2>2, EmptyIndex DEF CacheInv, Capped
<1>2. QED
  BY <1>1, InitCache, StepCache, PTL DEF Spec

\* Only a read of an image whose entry another thread has dropped falsifies the count
\* (get_image); every other step keeps its difference to the sizes, or a flush clears it.
THEOREM DriftOfLostReads == Spec => OnlyLostReadsDrift
<1>1. ASSUME CacheInv, [Next]_vars
      PROVE  [Drift' \in {0, Drift} \/ \E r \in Requests :
               get[r] # NoFile /\ get'[r] = NoFile /\ get[r] \notin disk /\ get[r] \notin Range(index)]_vars
  <2>0. CacheTypeOK
    BY <1>1 DEF CacheInv
  <2>1. ASSUME NEW k \in Keys, NEW size \in SizesOf(k), PutWrite(k, size)
        PROVE  Drift' = Drift
    BY <2>0, <2>1, WriteIs DEF Drift
  <2>2. CASE PutIndex
    BY <2>0, <2>2, IndexIs
  <2>3. ASSUME NEW r \in Requests, NEW k \in Keys, GetLookup(r, k)
        PROVE  Drift' = Drift
    BY <2>0, <2>3, LookupIs
  <2>4. ASSUME NEW r \in Requests, GetRead(r)
        PROVE  Drift' = Drift
    BY <2>4 DEF GetRead, cacheVars, Drift
  <2>5. ASSUME NEW r \in Requests, GetGone(r)
        PROVE  \/ Drift' = Drift
               \/ get[r] # NoFile /\ get'[r] = NoFile /\ get[r] \notin disk /\ get[r] \notin Range(index)
    BY <2>0, <2>5, GoneIs
  <2>6. CASE Bus \/ \E i \in Timers : Flush(i)
    BY <2>0, <2>6, FlushIs, EmptyIndex DEF Drift
  <2>7. QED
    BY <1>1, <2>1, <2>2, <2>3, <2>4, <2>5, <2>6 DEF Next, Put, Get, Proceed
<1>2. QED
  BY <1>1, InitCache, StepCache, PTL DEF Spec, OnlyLostReadsDrift

\* No file outlives its entry, but for what a flush is about to remove and the newer
\* entry that a lost read drops (put, clear_all, get_image).
THEOREM NoStrays == Spec => NothingLeftBehind
<1>1. ASSUME CacheInv, [Next]_vars
      PROVE  [\A e \in Stray' \ Stray :
               \/ \E i \in Timers : timer'[i] = "rmtree"
               \/ \E r \in Requests : get[r] # NoFile /\ get'[r] = NoFile /\ get[r] \notin disk /\ get[r].key = e.key]_vars
  <2>0. CacheTypeOK
    BY <1>1 DEF CacheInv
  <2>1. ASSUME NEW k \in Keys, NEW size \in SizesOf(k), PutWrite(k, size)
        PROVE  Stray' \subseteq Stray
    BY <2>0, <2>1, WriteIs, TypesOfCache DEF Stray
  <2>2. CASE PutIndex
    BY <2>0, <2>2, IndexIs DEF Stray
  <2>3. ASSUME NEW r \in Requests, NEW k \in Keys, GetLookup(r, k)
        PROVE  Stray' \subseteq Stray
    BY <2>0, <2>3, LookupIs DEF Stray
  <2>4. ASSUME NEW r \in Requests, GetRead(r)
        PROVE  Stray' \subseteq Stray
    BY <2>4 DEF GetRead, cacheVars, Stray
  <2>5. ASSUME NEW r \in Requests, GetGone(r), NEW e \in Stray' \ Stray
        PROVE  get[r] # NoFile /\ get'[r] = NoFile /\ get[r] \notin disk /\ get[r].key = e.key
    BY <2>0, <2>5, GoneIs DEF Stray, Keyed
  <2>6. CASE Bus \/ \E i \in Timers : Flush(i)
    <3>1. put' = put
      BY <2>0, <2>6, HooksTyped
    <3>2. QED
      BY <2>0, <2>6, <3>1, FlushIs DEF Stray
  <2>7. CASE UNCHANGED vars
    BY <2>7
  <2>8. QED
    BY <1>1, <2>1, <2>2, <2>3, <2>4, <2>5, <2>6, <2>7 DEF Next, Put, Get, Proceed, Stray
<1>2. QED
  BY <1>1, InitCache, StepCache, PTL DEF Spec, NothingLeftBehind
================================================================================
