-------------------------- MODULE TraceBufferProofs --------------------------
(***************************************************************************)
(* Theorems about TraceBuffer.tla, for buffers and pages of any size and   *)
(* any number of entries and requests.                                     *)
(***************************************************************************)
EXTENDS TraceBuffer, FoldProofs

-----------------------------------------------------------------------------
(***************************************************************************)
(* The buffer.                                                             *)
(***************************************************************************)

(* The entries that are kept are the last ones that were added, none       *)
(* missing.                                                                *)
BufferInv ==
  /\ nextID \in 0..MaxAdds
  /\ entries \in Seq(Entries) /\ Len(entries) <= Limit /\ Len(entries) <= nextID
  /\ \A i \in 1..Len(entries) : entries[i].id = (nextID - Len(entries)) + i

(* The newest INVITE is where its number says, and no later entry is one.  *)
NewestInv ==
  /\ newest \in Entries \cup {NoEntry}
  /\ newest.id <= nextID
  /\ \A i \in 1..Len(entries) : entries[i].callID \in Invites => entries[i].id <= newest.id
  /\ newest.id > 0 =>
       /\ newest.callID \in Invites
       /\ nextID - newest.id < Limit =>
            /\ nextID - newest.id < Len(entries)
            /\ entries[Len(entries) - (nextID - newest.id)] = newest

LEMMA Sizes == Limit \in Nat /\ Limit > 0 /\ PageLimit \in Nat /\ PageLimit > 0
               /\ MaxAdds \in Nat /\ MaxReads \in Nat
BY TraceAssumption

(* What is left of a sequence that is cut to its newest n elements. *)
LEMMA NewestCut ==
  ASSUME NEW S, NEW s \in Seq(S), NEW n \in Nat
  PROVE  /\ Newest(s, n) \in Seq(S)
         /\ Len(Newest(s, n)) = IF Len(s) <= n THEN Len(s) ELSE n
         /\ \A i \in 1..Len(Newest(s, n)) :
              Newest(s, n)[i] = s[(Len(s) - Len(Newest(s, n))) + i]
<1>1. Len(s) \in Nat
  OBVIOUS
<1>2. CASE Len(s) <= n
  BY <1>1, <1>2 DEF Newest
<1>3. CASE Len(s) > n
  <2>1. Newest(s, n) = SubSeq(s, Len(s) - n + 1, Len(s))
    BY <1>1, <1>3 DEF Newest
  <2>2. (Len(s) - n) + 1 \in 1..(Len(s) + 1) /\ Len(s) \in ((Len(s) - n) + 1 - 1)..Len(s)
    BY <1>1, <1>3
  <2>3. /\ Newest(s, n) \in Seq(S) /\ Len(Newest(s, n)) = n
        /\ \A i \in 1..n : Newest(s, n)[i] = s[(Len(s) - n) + i]
    BY <1>1, <1>3, <2>1, <2>2, SubSeqProperties
  <2>4. QED
    BY <1>1, <1>3, <2>3
<1>4. QED
  BY <1>1, <1>2, <1>3

(* Where an entry was before one more was added to l of them: m are kept.  *)
LEMMA Shift ==
  ASSUME NEW l \in Nat, NEW m \in Nat, l <= Limit,
         m = IF l + 1 <= Limit THEN l + 1 ELSE Limit
  PROVE  /\ m \in 1..(l + 1) /\ m <= Limit
         /\ \A i \in 1..m : i # m => i \in 1..(m - 1) /\ (l + 1 - m) + i \in 1..l
         /\ \A d \in Nat : d < l /\ d + 1 < Limit =>
              /\ d + 1 < m /\ m - (d + 1) \in 1..(m - 1)
              /\ (l + 1 - m) + (m - (d + 1)) = l - d
BY Sizes

LEMMA AddBuffer ==
  ASSUME BufferInv, NEW c \in Calls, Add(c)
  PROVE  /\ BufferInv'
         /\ nextID' = nextID + 1
         /\ Len(entries') \in 1..Limit
         /\ Len(entries') = IF Len(entries) + 1 <= Limit THEN Len(entries) + 1 ELSE Limit
         /\ entries'[Len(entries')] = [id |-> nextID + 1, callID |-> c]
         /\ \A i \in 1..(Len(entries') - 1) :
              entries'[i] = entries[(Len(entries) + 1 - Len(entries')) + i]
<1> DEFINE e == [id |-> nextID + 1, callID |-> c]
           all == Append(entries, e)
<1>1. nextID \in Nat /\ nextID + 1 \in 1..MaxAdds /\ Len(entries) \in Nat /\ entries \in Seq(Entries)
  BY Sizes DEF Add, BufferInv
<1>2. e \in Entries /\ e.id = nextID + 1
  BY <1>1 DEF Entries
<1>3. nextID' = nextID + 1 /\ entries' = Newest(all, Limit)
  BY DEF Add
<1> HIDE DEF e
<1>4. /\ all \in Seq(Entries) /\ Len(all) = Len(entries) + 1
      /\ all[Len(entries) + 1] = e
      /\ \A i \in 1..Len(entries) : all[i] = entries[i]
  BY <1>1, <1>2
<1> HIDE DEF all
<1>5. /\ entries' \in Seq(Entries)
      /\ Len(entries') = IF Len(entries) + 1 <= Limit THEN Len(entries) + 1 ELSE Limit
      /\ \A i \in 1..Len(entries') : entries'[i] = all[(Len(entries) + 1 - Len(entries')) + i]
  <2>1. Limit \in Nat /\ Len(all) \in Nat
    BY <1>4, Sizes
  <2>2. /\ Newest(all, Limit) \in Seq(Entries)
        /\ Len(Newest(all, Limit)) = IF Len(all) <= Limit THEN Len(all) ELSE Limit
        /\ \A i \in 1..Len(Newest(all, Limit)) :
              Newest(all, Limit)[i] = all[(Len(all) - Len(Newest(all, Limit))) + i]
    BY <1>4, <2>1, NewestCut
  <2>3. /\ entries' \in Seq(Entries)
        /\ Len(entries') = IF Len(all) <= Limit THEN Len(all) ELSE Limit
        /\ \A i \in 1..Len(entries') : entries'[i] = all[(Len(all) - Len(entries')) + i]
    BY <1>3, <2>2, Zenon
  <2>4. Len(all) = Len(entries) + 1
    BY <1>4
  <2>5. QED
    BY <2>3, <2>4
<1>6. Len(entries') \in 1..Limit /\ Len(entries') <= Len(entries) + 1
  BY <1>1, <1>5, Sizes
<1>7. entries'[Len(entries')] = e
  <2>1. (Len(entries) + 1 - Len(entries')) + Len(entries') = Len(entries) + 1
    BY <1>1, <1>6
  <2>2. QED
    BY <1>4, <1>5, <1>6, <2>1
<1>8. ASSUME NEW i \in 1..(Len(entries') - 1)
      PROVE  /\ (Len(entries) + 1 - Len(entries')) + i \in 1..Len(entries)
             /\ entries'[i] = entries[(Len(entries) + 1 - Len(entries')) + i]
  <2>1. (Len(entries) + 1 - Len(entries')) + i \in 1..Len(entries) /\ i \in 1..Len(entries')
    BY <1>1, <1>6
  <2>2. QED
    BY <1>4, <1>5, <2>1
<1>9. ASSUME NEW i \in 1..Len(entries')
      PROVE  entries'[i].id = (nextID' - Len(entries')) + i
  <2>1. CASE i = Len(entries')
    BY <1>1, <1>2, <1>3, <1>6, <1>7, <2>1
  <2>2. CASE i # Len(entries')
    <3>1. i \in 1..(Len(entries') - 1)
      BY <1>6, <2>2
    <3>2. entries'[i].id = (nextID - Len(entries)) + ((Len(entries) + 1 - Len(entries')) + i)
      BY <1>8, <3>1 DEF BufferInv
    <3>3. QED
      BY <1>1, <1>3, <1>6, <3>2
  <2>3. QED
    BY <2>1, <2>2
<1>10. BufferInv'
  BY <1>1, <1>3, <1>5, <1>6, <1>9, Sizes DEF BufferInv
<1>11. QED
  BY <1>3, <1>5, <1>6, <1>7, <1>8, <1>10 DEF e

LEMMA ClearedBuffer == ASSUME BufferInv, Cleared PROVE BufferInv'
<1>1. entries' = <<>> /\ nextID' = nextID /\ <<>> \in Seq(Entries) /\ Len(<<>>) = 0
  BY DEF Cleared
<1>2. nextID \in Nat /\ 0 <= nextID
  BY Sizes DEF BufferInv
<1>3. QED
  BY <1>1, <1>2, Sizes DEF BufferInv

LEMMA BufferStep ==
  ASSUME BufferInv, [Next]_vars
  PROVE  /\ BufferInv'
         /\ \/ UNCHANGED <<entries, nextID, newest>>
            \/ Cleared /\ newest' = NoEntry
            \/ \E c \in Calls : Add(c)
<1>1. \/ UNCHANGED <<entries, nextID, newest>>
      \/ Cleared /\ newest' = NoEntry
      \/ \E c \in Calls : Add(c)
  BY DEF Next, vars, OpenHistory, OtherClears, Poll, OpenTrace, CloseTrace, ClearTrace,
         Handle, Receive
<1>2. CASE UNCHANGED <<entries, nextID, newest>>
  BY <1>2 DEF BufferInv
<1>3. QED
  BY <1>1, <1>2, AddBuffer, ClearedBuffer

LEMMA NewestStep == ASSUME BufferInv, NewestInv, [Next]_vars PROVE NewestInv'
<1>1. CASE UNCHANGED <<entries, nextID, newest>>
  BY <1>1 DEF NewestInv
<1>2. CASE Cleared /\ newest' = NoEntry
  <2>1. newest'.id = 0 /\ Len(entries') = 0 /\ nextID' = nextID /\ 0 <= nextID
    BY <1>2, Sizes DEF Cleared, NoEntry, BufferInv
  <2>2. QED
    BY <1>2, <2>1 DEF NewestInv
<1>3. ASSUME NEW c \in Calls, Add(c) PROVE NewestInv'
  <2>0. nextID \in Nat /\ Len(entries) \in Nat /\ Len(entries) <= Limit
    BY Sizes DEF BufferInv
  <2>1. /\ nextID' = nextID + 1 /\ Len(entries') \in 1..Limit
        /\ Len(entries') = IF Len(entries) + 1 <= Limit THEN Len(entries) + 1 ELSE Limit
        /\ entries'[Len(entries')] = [id |-> nextID + 1, callID |-> c]
        /\ \A i \in 1..(Len(entries') - 1) :
              entries'[i] = entries[(Len(entries) + 1 - Len(entries')) + i]
        /\ \A i \in 1..Len(entries') : entries'[i].id = (nextID' - Len(entries')) + i
    BY <1>3, AddBuffer DEF BufferInv
  <2>2. newest.id \in Nat /\ newest.id <= nextID
    BY Sizes DEF NewestInv, Entries, NoEntry
  <2>3. /\ Len(entries') \in Nat
        /\ Len(entries') = IF Len(entries) + 1 <= Limit THEN Len(entries) + 1 ELSE Limit
    BY <2>1, Sizes
  <2>4. CASE c \in Invites
    <3>1. newest' = [id |-> nextID + 1, callID |-> c]
      BY <1>3, <2>4 DEF Add
    <3>2. newest'.id = nextID + 1 /\ newest'.callID = c /\ nextID' - newest'.id = 0
      BY <2>0, <2>1, <3>1
    <3>3. newest' \in Entries
      BY <1>3, <2>0, <3>1, Sizes DEF Add, Entries
    <3>4. \A i \in 1..Len(entries') : entries'[i].id <= newest'.id
      BY <2>0, <2>1, <3>2
    <3>5. entries'[Len(entries') - (nextID' - newest'.id)] = newest'
      <4>1. Len(entries') - 0 = Len(entries')
        BY <2>1, Sizes
      <4>2. QED
        BY <2>1, <3>1, <3>2, <4>1
    <3>6. newest'.id <= nextID' /\ 0 < Len(entries')
      BY <2>0, <2>1, <3>2
    <3>7. QED
      BY <2>4, <3>2, <3>3, <3>4, <3>5, <3>6 DEF NewestInv
  <2>5. CASE c \notin Invites
    <3>1. newest' = newest
      BY <1>3, <2>5 DEF Add
    <3>2. ASSUME NEW i \in 1..Len(entries'), entries'[i].callID \in Invites
          PROVE  entries'[i].id <= newest.id
      <4>1. i # Len(entries')
        BY <2>1, <2>5, <3>2
      <4>2. i \in 1..(Len(entries') - 1) /\ (Len(entries) + 1 - Len(entries')) + i \in 1..Len(entries)
        BY <2>0, <2>1, <2>3, <4>1, Shift
      <4>3. QED
        BY <2>1, <3>2, <4>2 DEF NewestInv
    <3>3. ASSUME newest.id > 0, nextID' - newest.id < Limit
          PROVE  /\ nextID' - newest.id < Len(entries')
                 /\ entries'[Len(entries') - (nextID' - newest.id)] = newest
      <4>1. /\ nextID - newest.id < Len(entries)
            /\ entries[Len(entries) - (nextID - newest.id)] = newest
        BY <2>0, <2>1, <2>2, <3>3, Sizes DEF NewestInv
      <4>2. /\ nextID' - newest.id < Len(entries')
            /\ Len(entries') - (nextID' - newest.id) \in 1..(Len(entries') - 1)
            /\ (Len(entries) + 1 - Len(entries')) + (Len(entries') - (nextID' - newest.id))
               = Len(entries) - (nextID - newest.id)
        <5> DEFINE d == nextID - newest.id
        <5>1. nextID' = nextID + 1
          BY <2>1
        <5>2. d \in Nat /\ d + 1 < Limit /\ nextID' - newest.id = d + 1
          BY <2>0, <2>2, <3>3, <5>1, Sizes
        <5>3. d < Len(entries)
          BY <4>1
        <5> HIDE DEF d
        <5>4. /\ d + 1 < Len(entries') /\ Len(entries') - (d + 1) \in 1..(Len(entries') - 1)
              /\ (Len(entries) + 1 - Len(entries')) + (Len(entries') - (d + 1)) = Len(entries) - d
          <6>1. Len(entries) \in Nat /\ Len(entries) <= Limit
            BY <2>0
          <6>2. QED
            BY <2>3, <5>2, <5>3, <6>1, Shift
        <5>5. QED
          BY <5>2, <5>4 DEF d
      <4>3. QED
        BY <2>1, <4>1, <4>2
    <3>4. newest.id <= nextID'
      BY <2>0, <2>1, <2>2
    <3>5. QED
      BY <3>1, <3>2, <3>3, <3>4 DEF NewestInv
  <2>6. QED
    BY <2>4, <2>5
<1>4. QED
  BY <1>1, <1>2, <1>3, BufferStep

LEMMA BufferInit == Init => BufferInv /\ NewestInv
<1>1. ASSUME Init PROVE BufferInv /\ NewestInv
  <2>1. nextID = 0 /\ entries = <<>> /\ newest = NoEntry /\ newest.id = 0
    BY <1>1 DEF Init, NoEntry
  <2>2. entries \in Seq(Entries) /\ Len(entries) = 0
    BY <2>1
  <2>3. QED
    BY <2>1, <2>2, Sizes DEF BufferInv, NewestInv
<1>2. QED
  BY <1>1

(* LatestCallID, which names a failed call in the log of the gateway,      *)
(* finds the newest INVITE unless it was cleared or Limit entries came     *)
(* after it, and never an older one in its place.                          *)
THEOREM LatestFound == Spec => []LatestIsNewest
<1>1. ASSUME BufferInv, NewestInv PROVE LatestIsNewest
  <2> DEFINE I == {i \in 1..Len(entries) : entries[i].callID \in Invites}
             at == Len(entries) - (nextID - newest.id)
  <2>0. /\ nextID \in Nat /\ Len(entries) \in Nat /\ Len(entries) <= Limit
        /\ newest.id \in Nat /\ newest.id <= nextID
    BY <1>1, Sizes DEF BufferInv, NewestInv, Entries, NoEntry
  <2>1. LatestCallID = IF I # {} THEN (IF Max(I) = 0 THEN NoCall ELSE entries[Max(I)].callID)
                                 ELSE NoCall
    BY DEF LatestCallID, SelectLastInSeq
  <2>2. CASE newest.id > 0 /\ nextID - newest.id < Limit
    <3>1. at \in 1..Len(entries) /\ entries[at] = newest /\ newest.callID \in Invites
      BY <1>1, <2>0, <2>2 DEF NewestInv
    <3>2. at \in I /\ \A i \in I : i <= at
      <4>1. ASSUME NEW i \in I PROVE i <= at
        <5>1. i \in 1..Len(entries) /\ entries[i].id <= newest.id
          BY <1>1 DEF NewestInv
        <5>2. entries[i].id = (nextID - Len(entries)) + i
          BY <1>1, <5>1 DEF BufferInv
        <5>3. QED
          BY <2>0, <5>1, <5>2
      <4>2. QED
        BY <3>1, <4>1
    <3>3. Max(I) = at
      <4>1. Max(I) \in I /\ \A i \in I : Max(I) >= i
        BY <3>2 DEF Max
      <4>2. QED
        BY <3>1, <3>2, <4>1
    <3>4. QED
      BY <2>1, <2>2, <3>1, <3>2, <3>3 DEF LatestIsNewest
  <2>3. CASE ~(newest.id > 0 /\ nextID - newest.id < Limit)
    <3>1. ASSUME NEW i \in 1..Len(entries), entries[i].callID \in Invites PROVE FALSE
      <4>1. entries[i].id <= newest.id /\ entries[i].id = (nextID - Len(entries)) + i
        BY <1>1, <3>1 DEF NewestInv, BufferInv
      <4>2. Len(entries) <= nextID
        BY <1>1 DEF BufferInv
      <4>3. QED
        BY <2>0, <2>3, <4>1, <4>2, Sizes
    <3>2. I = {}
      BY <3>1
    <3>3. QED
      BY <2>1, <2>3, <3>2 DEF LatestIsNewest
  <2>4. QED
    BY <2>2, <2>3
<1>2. BufferInv /\ NewestInv /\ [Next]_vars => BufferInv' /\ NewestInv'
  BY BufferStep, NewestStep
<1>3. QED
  BY <1>1, <1>2, BufferInit, PTL DEF Spec

-----------------------------------------------------------------------------
(***************************************************************************)
(* What an answer holds.  Query takes the positions it wants in ascending  *)
(* order; that they have one is proved by induction over their bound.      *)
(***************************************************************************)
LEMMA RisingExists ==
  ASSUME NEW n \in Nat, NEW W \in SUBSET (1..n)
  PROVE  /\ IsFiniteSet(W) /\ Cardinality(W) \in Nat /\ Cardinality(W) <= n
         /\ \E f \in [1..Cardinality(W) -> W] : Rising(f)
<1>1. \A m \in Nat : \A V \in SUBSET (1..m) :
        IsFiniteSet(V) /\ Cardinality(V) \in Nat /\ Cardinality(V) <= m
  <2>1. SUFFICES ASSUME NEW m \in Nat, NEW V \in SUBSET (1..m)
                 PROVE  IsFiniteSet(V) /\ Cardinality(V) \in Nat /\ Cardinality(V) <= m
    OBVIOUS
  <2>2. IsFiniteSet(1..m) /\ Cardinality(1..m) = m
    BY FS_Interval
  <2>3. QED
    BY <2>2, FS_Subset, FS_CardinalityType
<1> DEFINE Enumerable(V) == \E f \in [1..Cardinality(V) -> V] : Rising(f)
           T == {m \in Nat : \A V \in SUBSET (1..m) : Enumerable(V)}
<1>2. 0 \in T
  <2>1. \A V \in SUBSET (1..0) : V = {}
    OBVIOUS
  <2>2. Enumerable({})
    <3>1. <<>> \in [1..0 -> {}] /\ Rising(<<>>)
      BY DEF Rising
    <3>2. QED
      BY <3>1, FS_EmptySet
  <2>3. QED
    BY <2>1, <2>2
<1>3. ASSUME NEW m \in T PROVE m + 1 \in T
  <2>1. SUFFICES ASSUME NEW V \in SUBSET (1..(m + 1)) PROVE Enumerable(V)
    OBVIOUS
  <2>2. CASE m + 1 \notin V
    <3>1. V \in SUBSET (1..m)
      BY <2>2
    <3>2. QED
      BY <3>1
  <2>3. CASE m + 1 \in V
    <3> DEFINE U == V \ {m + 1}
               k == Cardinality(U)
    <3>1. U \in SUBSET (1..m)
      OBVIOUS
    <3>2. PICK f \in [1..k -> U] : Rising(f)
      BY <3>1
    <3>3. k \in Nat /\ Cardinality(V) = k + 1
      <4>1. m \in Nat /\ m + 1 \in Nat
        OBVIOUS
      <4>2. IsFiniteSet(V) /\ Cardinality(V) \in Nat
        BY <1>1, <2>1, <4>1
      <4>3. k \in Nat
        BY <1>1, <3>1, <4>1
      <4>4. k = Cardinality(V) - 1
        BY <2>3, <4>2, FS_RemoveElement
      <4>5. QED
        BY <4>2, <4>3, <4>4
    <3> DEFINE g == [i \in 1..(k + 1) |-> IF i = k + 1 THEN m + 1 ELSE f[i]]
    <3> HIDE DEF k
    <3>4. g \in [1..(k + 1) -> V]
      BY <2>3, <3>2, <3>3
    <3>5. Rising(g)
      <4>1. SUFFICES ASSUME NEW i \in 1..(k + 1), NEW j \in 1..(k + 1), i < j
                     PROVE  g[i] < g[j]
        BY DEF Rising
      <4>2. i \in 1..k /\ i # k + 1
        BY <3>3, <4>1
      <4>3. g[i] = f[i] /\ f[i] \in U /\ f[i] \in 1..m
        BY <3>1, <3>2, <4>2
      <4>4. CASE j = k + 1
        <5>1. g[j] = m + 1
          BY <4>4
        <5>2. QED
          BY <4>3, <5>1
      <4>5. CASE j # k + 1
        <5>1. j \in 1..k /\ g[j] = f[j]
          BY <3>3, <4>5
        <5>2. QED
          BY <3>2, <4>1, <4>2, <4>3, <5>1 DEF Rising
      <4>6. QED
        BY <4>4, <4>5
    <3>6. QED
      BY <3>3, <3>4, <3>5
  <2>4. QED
    BY <2>2, <2>3
<1>4. T = Nat
  <2>1. T \subseteq Nat
    OBVIOUS
  <2> HIDE DEF T
  <2>2. QED
    BY <1>2, <1>3, <2>1, NatSets
<1>5. Enumerable(W)
  BY <1>4
<1>6. QED
  BY <1>1, <1>5

(* A set of positions has an ascending order, with each of them once. *)
LEMMA InOrder ==
  ASSUME NEW n \in Nat, NEW W \in SUBSET (1..n)
  PROVE  \E s \in SetToSeqs(W) : Rising(s)
<1> DEFINE k == Cardinality(W)
<1>1. k \in Nat /\ k = Cardinality(W)
  BY RisingExists
<1>2. PICK t \in [1..k -> W] : Rising(t)
  BY RisingExists
<1> HIDE DEF k
<1>3. \A i, j \in 1..k : i # j => t[i] # t[j]
  <2>1. SUFFICES ASSUME NEW i \in 1..k, NEW j \in 1..k, i # j PROVE t[i] # t[j]
    OBVIOUS
  <2>2. t[i] \in Nat /\ t[j] \in Nat /\ (i < j \/ j < i)
    <3>1. W \subseteq Nat /\ t[i] \in W /\ t[j] \in W
      BY <2>1
    <3>2. i < j \/ j < i
      BY <1>1, <2>1
    <3>3. QED
      BY <3>1, <3>2
  <2>3. (i < j => t[i] < t[j]) /\ (j < i => t[j] < t[i])
    BY <1>2 DEF Rising
  <2>4. QED
    BY <2>2, <2>3
<1>4. QED
  BY <1>2, <1>3 DEF SetToSeqs, k

LEMMA OrderOnto ==
  ASSUME NEW n \in Nat, NEW W \in SUBSET (1..n), NEW s \in SetToSeqs(W), Rising(s)
  PROVE  /\ Cardinality(W) \in Nat /\ Cardinality(W) <= n
         /\ s \in [1..Cardinality(W) -> W]
         /\ \A i, j \in 1..Cardinality(W) : i < j => s[i] < s[j]
         /\ \A w \in W : \E i \in 1..Cardinality(W) : s[i] = w
<1> DEFINE k == Cardinality(W)
<1>1. k \in Nat /\ k <= n /\ k = Cardinality(W) /\ IsFiniteSet(W)
  BY RisingExists
<1> HIDE DEF k
<1>2. s \in [1..k -> W] /\ \A i, j \in 1..k : i # j => s[i] # s[j]
  BY DEF SetToSeqs, k
<1>3. \A i, j \in 1..k : i < j => s[i] < s[j]
  BY <1>2 DEF Rising
<1>4. s \in Surjection(1..k, W)
  <2>1. IsFiniteSet(1..k) /\ Cardinality(1..k) = k
    BY <1>1, FS_Interval
  <2>2. s \in Injection(1..k, W)
    BY <1>2 DEF Injection, IsInjective
  <2>3. QED
    BY <1>1, <2>1, <2>2, FS_Injection DEF k
<1>5. QED
  BY <1>1, <1>2, <1>3, <1>4 DEF Surjection, k

Ascends(s) == \A i, j \in 1..Len(s) : i < j => s[i].id < s[j].id

(* What Query answers: the kept entries it was asked for, no other, each   *)
(* once and in the order of the trace.                                     *)
LEMMA QueryAnswer ==
  ASSUME BufferInv, NEW after \in Nat, NEW c
  PROVE  LET q == Query(after, c) IN
         /\ q \in Seq(Entries) /\ Len(q) <= Limit /\ Ascends(q)
         /\ \A i \in 1..Len(q) : q[i].id > after /\ q[i].id <= nextID
         /\ \A i \in 1..Len(entries) :
              entries[i].id > after /\ c \in {NoCall, entries[i].callID} => Contains(q, entries[i])
<1> DEFINE W == {i \in 1..Len(entries) : entries[i].id > after /\ c \in {NoCall, entries[i].callID}}
           s == CHOOSE t \in SetToSeqs(W) : Rising(t)
           k == Cardinality(W)
           q == Query(after, c)
<1>1. /\ Len(entries) \in Nat /\ Len(entries) <= Limit /\ entries \in Seq(Entries)
      /\ DOMAIN entries = 1..Len(entries) /\ nextID \in Nat
  BY Sizes DEF BufferInv
<1>2. W \in SUBSET (1..Len(entries))
  OBVIOUS
<1>3. q = [n \in DOMAIN s |-> entries[s[n]]]
  BY <1>1 DEF Query, After
<1> HIDE DEF W, q, s
<1>4. s \in SetToSeqs(W) /\ Rising(s)
  BY <1>1, <1>2, InOrder DEF s
<1>5. /\ k \in Nat /\ k <= Len(entries) /\ s \in [1..k -> W]
      /\ \A i, j \in 1..k : i < j => s[i] < s[j]
      /\ \A w \in W : \E i \in 1..k : s[i] = w
  BY <1>1, <1>2, <1>4, OrderOnto
<1> HIDE DEF k
<1>6. \A i \in 1..k : /\ s[i] \in 1..Len(entries) /\ entries[s[i]].id > after
                       /\ entries[s[i]] \in Entries
  BY <1>1, <1>5 DEF W
<1>7. q \in [1..k -> Entries] /\ \A i \in 1..k : q[i] = entries[s[i]]
  BY <1>3, <1>5, <1>6
<1>8. q \in Seq(Entries) /\ Len(q) = k
  BY <1>5, <1>7, FunctionIsSeq
<1>9. \A i, j \in 1..Len(entries) : i < j => entries[i].id < entries[j].id
  <2>1. \A i \in 1..Len(entries) : entries[i].id = (nextID - Len(entries)) + i
    BY DEF BufferInv
  <2>2. QED
    BY <1>1, <2>1
<1>10. \A i \in 1..Len(entries) : entries[i].id <= nextID
  <2>1. \A i \in 1..Len(entries) : entries[i].id = (nextID - Len(entries)) + i
    BY DEF BufferInv
  <2>2. QED
    BY <1>1, <2>1
<1>11. Ascends(q)
  <2>1. SUFFICES ASSUME NEW i \in 1..k, NEW j \in 1..k, i < j PROVE q[i].id < q[j].id
    BY <1>8 DEF Ascends
  <2>2. s[i] < s[j] /\ s[i] \in 1..Len(entries) /\ s[j] \in 1..Len(entries)
    BY <1>5, <1>6, <2>1
  <2>3. QED
    BY <1>7, <1>9, <2>2
<1>12. \A i \in 1..k : q[i].id > after /\ q[i].id <= nextID
  BY <1>6, <1>7, <1>10
<1>13. ASSUME NEW i \in W PROVE Contains(q, entries[i])
  <2>1. PICK n \in 1..k : s[n] = i
    BY <1>5
  <2>2. q[n] = entries[i]
    BY <1>7, <2>1
  <2>3. QED
    BY <1>8, <2>1, <2>2 DEF Contains
<1>14. Len(q) <= Limit
  BY <1>1, <1>5, <1>8, Sizes
<1>15. QED
  BY <1>8, <1>11, <1>12, <1>13, <1>14 DEF q, W

-----------------------------------------------------------------------------
(***************************************************************************)
(* The page and its requests.                                              *)
(***************************************************************************)
ShownMax == IF PageLimit > Limit THEN PageLimit ELSE Limit
Shown == {s \in Seq(Entries) : Len(s) <= ShownMax}
Answers == {s \in Seq(Entries) : Len(s) <= Limit /\ \A i \in 1..Len(s) : s[i].id <= nextID}

PageRecord == [shown : Shown, lastID : 0..nextID, history : Calls \cup {NoCall},
               open : BOOLEAN]
ReadRecord == [kind : {"poll", "history", "clear"}, after : 0..nextID,
               callID : Calls \cup {NoCall},
               answer : [answered : BOOLEAN, entries : Answers]]

(* Nothing on the page or under way is newer than the buffer. *)
PageInv ==
  /\ page \in PageRecord
  /\ mixed \in BOOLEAN
  /\ reads \in Seq(ReadRecord)

(* What a live page has, and what it may still miss. *)
Followed ==
  /\ \A i \in 1..Len(page.shown) : page.shown[i].id <= page.lastID
  /\ \A i \in 1..Len(entries) :
       \/ entries[i].id > page.lastID
       \/ Contains(page.shown, entries[i])
       \/ Len(page.shown) = PageLimit

(* An answer that is under way goes on where the page ends, and holds all  *)
(* that is kept up to its own last entry.                                  *)
GoesOn(q) ==
  /\ \A i \in 1..Len(q) : q[i].id > page.lastID
  /\ \A i \in 1..Len(entries) : \A n \in 1..Len(q) :
       page.lastID < entries[i].id /\ entries[i].id <= q[n].id => Contains(q, entries[i])

(* While requests never overlapped there is at most one, made by the page  *)
(* as it is now.                                                           *)
FollowInv ==
  ~mixed =>
    /\ Ascends(page.shown)
    /\ Live => Followed
    /\ Len(reads) <= 1
    /\ Len(reads) = 1 =>
         /\ Ascends(reads[1].answer.entries)
         /\ reads[1].kind = "history" <=> ~Live
         /\ reads[1].kind = "poll" => /\ reads[1].after = page.lastID /\ reads[1].callID = NoCall
                                      /\ GoesOn(reads[1].answer.entries)

LEMMA EmptyTypes == ASSUME BufferInv
  PROVE  /\ <<>> \in Answers /\ <<>> \in Shown /\ Len(<<>>) = 0 /\ Ascends(<<>>)
         /\ 0 \in 0..nextID /\ Blank \in PageRecord
         /\ Blank.shown = <<>> /\ Blank.lastID = 0 /\ Blank.history = NoCall
<1>1. <<>> \in Seq(Entries) /\ Len(<<>>) = 0 /\ ShownMax \in Nat /\ 0 \in 0..nextID
  BY Sizes DEF ShownMax, BufferInv
<1>2. <<>> \in Answers /\ <<>> \in Shown /\ Ascends(<<>>)
  BY <1>1, Sizes DEF Answers, Shown, Ascends
<1>3. QED
  BY <1>1, <1>2 DEF Blank, PageRecord

(* The numbers only grow. *)
LEMMA Grows ==
  ASSUME BufferInv, [Next]_vars
  PROVE  nextID \in Nat /\ nextID' \in Nat /\ nextID <= nextID'
         /\ Answers \subseteq Answers' /\ ReadRecord \subseteq ReadRecord'
         /\ PageRecord \subseteq PageRecord'
<1>1. nextID \in Nat /\ nextID' \in Nat /\ nextID <= nextID'
  <2>1. \/ nextID' = nextID
        \/ nextID' = nextID + 1
    BY BufferStep DEF Add, Cleared
  <2>2. QED
    BY <2>1 DEF BufferInv
<1>2. Answers \subseteq Answers'
  <2>1. ASSUME NEW s \in Answers PROVE s \in Answers'
    <3>1. s \in Seq(Entries) /\ Len(s) <= Limit /\ \A i \in 1..Len(s) : s[i].id <= nextID
      BY DEF Answers
    <3>2. \A i \in 1..Len(s) : s[i] \in Entries
      BY <3>1
    <3>3. \A i \in 1..Len(s) : s[i].id \in Nat
      BY <3>2 DEF Entries
    <3>4. \A i \in 1..Len(s) : s[i].id <= nextID'
      BY <1>1, <3>1, <3>3
    <3>5. QED
      BY <3>1, <3>4 DEF Answers
  <2>2. QED
    BY <2>1
<1>3. 0..nextID \subseteq 0..nextID'
  BY <1>1
<1>4. QED
  BY <1>1, <1>2, <1>3 DEF ReadRecord, PageRecord, Shown, ShownMax

(* A request is sent; it has no answer yet. *)
LEMMA SendType ==
  ASSUME BufferInv, PageInv, NEW kind \in {"poll", "history", "clear"},
         NEW c \in Calls \cup {NoCall}, Send(kind, c)
  PROVE  /\ reads' \in Seq(ReadRecord) /\ Len(reads') = Len(reads) + 1
         /\ reads'[Len(reads) + 1].kind = kind /\ reads'[Len(reads) + 1].callID = c
         /\ kind = "poll" => reads'[Len(reads) + 1].after = page.lastID
         /\ reads'[Len(reads) + 1].answer.entries = <<>>
<1> DEFINE r == [kind |-> kind, after |-> IF kind = "poll" THEN page.lastID ELSE 0,
                 callID |-> c, answer |-> Unanswered]
<1>1. (IF kind = "poll" THEN page.lastID ELSE 0) \in 0..nextID
  BY EmptyTypes DEF PageInv, PageRecord
<1>2. Unanswered \in [answered : BOOLEAN, entries : Answers] /\ Unanswered.entries = <<>>
  BY EmptyTypes DEF Unanswered
<1>3. r \in ReadRecord
  BY <1>1, <1>2 DEF ReadRecord
<1>4. /\ r.kind = kind /\ r.callID = c /\ (kind = "poll" => r.after = page.lastID)
      /\ r.answer.entries = <<>>
  BY <1>2
<1> HIDE DEF r
<1>5. reads' = Append(reads, r) /\ reads \in Seq(ReadRecord)
  BY DEF Send, PageInv, r
<1>6. /\ reads' \in Seq(ReadRecord) /\ Len(reads') = Len(reads) + 1
      /\ reads'[Len(reads) + 1] = r
  BY <1>3, <1>5, AppendProperties
<1>7. QED
  BY <1>4, <1>6

(* What a request is that was answered. *)
LEMMA HandleFacts ==
  ASSUME BufferInv, PageInv, NEW i \in DOMAIN reads, Handle(i)
  PROVE  /\ i \in 1..Len(reads) /\ reads[i] \in ReadRecord
         /\ reads' \in Seq(ReadRecord) /\ Len(reads') = Len(reads)
         /\ reads'[i].kind = reads[i].kind /\ reads'[i].after = reads[i].after
         /\ reads'[i].callID = reads[i].callID
         /\ reads'[i].answer.entries = Query(reads[i].after, reads[i].callID)
<1> DEFINE q == Query(reads[i].after, reads[i].callID)
           a == [answered |-> TRUE, entries |-> q]
           r == [reads[i] EXCEPT !.answer = a]
<1>1. i \in 1..Len(reads) /\ reads[i] \in ReadRecord /\ reads \in Seq(ReadRecord)
  BY DEF PageInv
<1>2. reads[i].after \in Nat
  BY <1>1 DEF ReadRecord, BufferInv
<1>3. q \in Answers
  <2>1. /\ q \in Seq(Entries) /\ Len(q) <= Limit
        /\ \A n \in 1..Len(q) : q[n].id <= nextID
    BY <1>2, QueryAnswer
  <2>2. QED
    BY <2>1 DEF Answers
<1> HIDE DEF q
<1>4. a \in [answered : BOOLEAN, entries : Answers] /\ a.entries = q
  BY <1>3
<1> HIDE DEF a
<1>5. /\ r \in ReadRecord /\ r.answer.entries = q /\ r.kind = reads[i].kind
      /\ r.after = reads[i].after /\ r.callID = reads[i].callID
  BY <1>1, <1>4 DEF ReadRecord
<1>6. reads' = [reads EXCEPT ![i] = r]
  BY DEF Handle, q, a
<1> HIDE DEF r
<1>7. reads' \in Seq(ReadRecord) /\ Len(reads') = Len(reads) /\ reads'[i] = r
  BY <1>1, <1>5, <1>6, ExceptSeq
<1>8. QED
  BY <1>1, <1>5, <1>7 DEF q

LEMMA RemoveAtFacts ==
  ASSUME NEW S, NEW s \in Seq(S), NEW i \in 1..Len(s)
  PROVE  RemoveAt(s, i) \in Seq(S) /\ Len(RemoveAt(s, i)) = Len(s) - 1
<1>1. Len(s) \in Nat /\ i \in Int /\ i - 1 \in Int /\ i + 1 \in Int /\ 1 \in Int
      /\ \A n \in 1..Len(s) : s[n] \in S
  OBVIOUS
<1>2. /\ SubSeq(s, 1, i - 1) \in Seq(S)
      /\ Len(SubSeq(s, 1, i - 1)) = IF 1 <= i - 1 THEN (i - 1) - 1 + 1 ELSE 0
  <2>1. \A n \in 1..(i - 1) : s[n] \in S
    BY <1>1
  <2>2. QED
    BY <1>1, <2>1, SubSeqProperties
<1>3. /\ SubSeq(s, i + 1, Len(s)) \in Seq(S)
      /\ Len(SubSeq(s, i + 1, Len(s))) = IF i + 1 <= Len(s) THEN Len(s) - (i + 1) + 1 ELSE 0
  <2>1. \A n \in (i + 1)..Len(s) : s[n] \in S
    BY <1>1
  <2>2. QED
    BY <1>1, <2>1, SubSeqProperties
<1>4. Len(SubSeq(s, 1, i - 1)) = i - 1 /\ Len(SubSeq(s, i + 1, Len(s))) = Len(s) - i
  BY <1>1, <1>2, <1>3
<1> DEFINE a == SubSeq(s, 1, i - 1)
           b == SubSeq(s, i + 1, Len(s))
<1>5. RemoveAt(s, i) = a \o b
  BY DEF RemoveAt
<1>6. a \in Seq(S) /\ b \in Seq(S) /\ Len(a) = i - 1 /\ Len(b) = Len(s) - i
  BY <1>2, <1>3, <1>4
<1> HIDE DEF a, b
<1>7. a \o b \in Seq(S) /\ Len(a \o b) = Len(a) + Len(b)
  BY <1>6, ConcatProperties
<1>8. QED
  BY <1>1, <1>5, <1>6, <1>7

(* What a page makes of an answer to a poll that is not empty. *)
LEMMA ExtendedFacts ==
  ASSUME BufferInv, PageInv, NEW q \in Answers, q # <<>>
  PROVE  /\ Extended(page, q) \in PageRecord
         /\ Extended(page, q).history = page.history
         /\ Len(q) \in Nat /\ Len(q) > 0
         /\ Extended(page, q).lastID = q[Len(q)].id
         /\ Extended(page, q).shown = Newest(page.shown \o q, PageLimit)
<1> DEFINE conc == page.shown \o q
           all == Newest(conc, PageLimit)
<1>1. /\ page.shown \in Seq(Entries) /\ q \in Seq(Entries) /\ Len(page.shown) \in Nat
      /\ Len(q) \in Nat /\ Len(q) > 0
      /\ q[Len(q)].id \in 0..nextID
  <2>1. page.shown \in Seq(Entries) /\ q \in Seq(Entries)
    BY DEF PageInv, PageRecord, Shown, Answers
  <2>2. Len(page.shown) \in Nat /\ Len(q) \in Nat /\ Len(q) > 0
    BY <2>1, EmptySeq
  <2>3. q[Len(q)] \in Entries /\ q[Len(q)].id <= nextID
    BY <2>1, <2>2 DEF Answers
  <2>4. QED
    BY <2>1, <2>2, <2>3 DEF Entries, BufferInv
<1>2. /\ conc \in Seq(Entries) /\ Len(conc) = Len(page.shown) + Len(q)
      /\ conc[Len(conc)] = q[Len(q)]
  <2>1. /\ conc \in Seq(Entries) /\ Len(conc) = Len(page.shown) + Len(q)
        /\ \A i \in 1..(Len(page.shown) + Len(q)) :
             conc[i] = IF i <= Len(page.shown) THEN page.shown[i] ELSE q[i - Len(page.shown)]
    BY <1>1, ConcatProperties
  <2> HIDE DEF conc
  <2>2. /\ Len(conc) \in 1..(Len(page.shown) + Len(q)) /\ ~(Len(conc) <= Len(page.shown))
        /\ Len(conc) - Len(page.shown) = Len(q)
    BY <1>1, <2>1
  <2>3. QED
    BY <2>1, <2>2
<1> HIDE DEF conc
<1>3. /\ all \in Seq(Entries) /\ Len(all) \in Nat /\ Len(all) > 0 /\ Len(all) <= PageLimit
      /\ all[Len(all)] = q[Len(q)]
  <2>1. /\ all \in Seq(Entries)
        /\ Len(all) = IF Len(conc) <= PageLimit THEN Len(conc) ELSE PageLimit
        /\ \A i \in 1..Len(all) : all[i] = conc[(Len(conc) - Len(all)) + i]
    BY <1>2, NewestCut, Sizes
  <2> HIDE DEF all
  <2>2. /\ Len(all) \in 1..Len(all) /\ Len(all) <= PageLimit
        /\ (Len(conc) - Len(all)) + Len(all) = Len(conc)
    BY <1>1, <1>2, <2>1, Sizes
  <2>3. all[Len(all)] = conc[(Len(conc) - Len(all)) + Len(all)]
    BY <2>1, <2>2
  <2>4. Len(all) \in Nat /\ Len(all) > 0
    BY <2>1, <2>2
  <2>5. QED
    BY <1>2, <2>1, <2>2, <2>3, <2>4
<1>4. Extended(page, q) = [page EXCEPT !.shown = all, !.lastID = Last(all).id]
  BY DEF Extended, conc
<1>5. Last(all).id = q[Len(q)].id
  BY <1>3 DEF Last
<1>6. all = Newest(page.shown \o q, PageLimit)
  BY DEF conc
<1> HIDE DEF all
<1>7. all \in Shown
  BY <1>3, Sizes DEF Shown, ShownMax
<1>8. QED
  BY <1>1, <1>4, <1>5, <1>6, <1>7 DEF PageInv, PageRecord

LEMMA PageStep == ASSUME BufferInv, PageInv, [Next]_vars PROVE PageInv'
<1>0. /\ page \in PageRecord /\ reads \in Seq(ReadRecord) /\ mixed \in BOOLEAN
      /\ ReadRecord \subseteq ReadRecord' /\ PageRecord \subseteq PageRecord'
      /\ \A r : r \in Seq(ReadRecord) => r \in Seq(ReadRecord')
  <2>1. ReadRecord \subseteq ReadRecord'
    BY Grows
  <2>2. Seq(ReadRecord) \subseteq Seq(ReadRecord')
    BY <2>1, SeqMonotonic
  <2>3. QED
    BY <2>1, <2>2, Grows DEF PageInv
<1>1. SUFFICES page' \in PageRecord /\ reads' \in Seq(ReadRecord) /\ mixed' \in BOOLEAN
  BY <1>0 DEF PageInv
<1>2. CASE UNCHANGED vars \/ OtherClears \/ \E c \in Calls : Add(c)
  BY <1>0, <1>2 DEF vars, OtherClears, Add
<1>3. CASE Poll
  BY <1>0, <1>3, SendType DEF Poll
<1>4. ASSUME NEW c \in Calls, OpenHistory(c)
      PROVE  page' \in PageRecord /\ reads' \in Seq(ReadRecord) /\ mixed' \in BOOLEAN
  <2>1. page' \in PageRecord
    BY <1>0, <1>4 DEF OpenHistory, PageRecord
  <2>2. QED
    BY <1>4, <2>1, SendType DEF OpenHistory
<1>5. CASE OpenTrace
  BY <1>0, <1>5 DEF OpenTrace, PageRecord
<1>6. CASE CloseTrace
  <2>1. [page EXCEPT !.open = FALSE] \in PageRecord
    BY <1>0 DEF PageRecord
  <2>2. QED
    BY <1>0, <1>6, <2>1, EmptyTypes DEF CloseTrace
<1>7. CASE ClearTrace
  <2>1. [Blank EXCEPT !.open = TRUE] \in PageRecord
    BY EmptyTypes DEF PageRecord
  <2>2. QED
    BY <1>0, <1>7, <2>1, SendType DEF ClearTrace
<1>8. ASSUME NEW i \in DOMAIN reads, Handle(i)
      PROVE  page' \in PageRecord /\ reads' \in Seq(ReadRecord) /\ mixed' \in BOOLEAN
  BY <1>0, <1>8, HandleFacts DEF Handle
<1>9. ASSUME NEW i \in DOMAIN reads, Receive(i)
      PROVE  page' \in PageRecord /\ reads' \in Seq(ReadRecord) /\ mixed' \in BOOLEAN
  <2>1. i \in 1..Len(reads) /\ reads[i] \in ReadRecord
    BY <1>0
  <2>2. reads[i].answer.entries \in Answers /\ reads[i].answer.entries \in Shown
    <3>1. Answers \subseteq Shown
      <4>1. ASSUME NEW a \in Answers PROVE Len(a) <= ShownMax
        BY Sizes DEF Answers, ShownMax
      <4>2. QED
        BY <4>1 DEF Answers, Shown
    <3>2. QED
      BY <2>1, <3>1 DEF ReadRecord
  <2>3. page' \in PageRecord
    <3>1. CASE reads[i].kind = "poll"
      <4>1. page' = Extended(page, reads[i].answer.entries)
        BY <1>9, <3>1 DEF Receive, Shows
      <4>2. reads[i].answer.entries = <<>> => page' = page
        BY <4>1 DEF Extended
      <4>3. QED
        BY <1>0, <2>2, <4>1, <4>2, ExtendedFacts
    <3>2. CASE reads[i].kind = "history"
      <4>1. page' = [page EXCEPT !.shown = reads[i].answer.entries, !.open = TRUE]
        BY <1>9, <3>2 DEF Receive, Shows
      <4>2. QED
        BY <1>0, <2>2, <4>1 DEF PageRecord
    <3>3. CASE reads[i].kind \notin {"poll", "history"}
      <4>1. page' = [page EXCEPT !.shown = <<>>, !.lastID = 0]
        BY <1>9, <3>3 DEF Receive, Shows
      <4>2. QED
        BY <1>0, <4>1, EmptyTypes DEF PageRecord
    <3>4. QED
      BY <3>1, <3>2, <3>3
  <2>4. QED
    BY <1>0, <1>9, <2>1, <2>3, RemoveAtFacts DEF Receive
<1>10. QED
  BY <1>2, <1>3, <1>4, <1>5, <1>6, <1>7, <1>8, <1>9 DEF Next

(* A page goes on with the answer to its poll, which goes on where it ends. *)
LEMMA PollReceived ==
  ASSUME BufferInv, PageInv, Ascends(page.shown), Followed,
         NEW q \in Answers, Ascends(q), GoesOn(q), q # <<>>,
         page' = Extended(page, q), entries' = entries
  PROVE  Ascends(page.shown)' /\ Followed'
<1> DEFINE shown == page.shown
           conc == shown \o q
           all == page'.shown
<1>1. /\ shown \in Seq(Entries) /\ q \in Seq(Entries) /\ Len(shown) \in Nat
      /\ Len(q) \in Nat /\ Len(q) > 0 /\ page.lastID \in Nat
      /\ entries \in Seq(Entries)
      /\ page'.lastID = q[Len(q)].id /\ all = Newest(conc, PageLimit)
  BY ExtendedFacts DEF PageInv, PageRecord, Shown, Answers, BufferInv
<1>2. /\ conc \in Seq(Entries) /\ Len(conc) = Len(shown) + Len(q)
      /\ \A i \in 1..(Len(shown) + Len(q)) :
           conc[i] = IF i <= Len(shown) THEN shown[i] ELSE q[i - Len(shown)]
  BY <1>1, ConcatProperties
<1>3. /\ all \in Seq(Entries)
      /\ Len(all) = IF Len(conc) <= PageLimit THEN Len(conc) ELSE PageLimit
      /\ \A i \in 1..Len(all) : all[i] = conc[(Len(conc) - Len(all)) + i]
  <2>1. all = Newest(conc, PageLimit)
    BY <1>1
  <2> HIDE DEF conc, all
  <2>2. QED
    BY <1>2, <2>1, NewestCut, Sizes
<1>4. /\ \A i \in 1..Len(shown) : shown[i].id \in Nat /\ shown[i].id <= page.lastID
      /\ \A i \in 1..Len(q) : q[i].id \in Nat /\ q[i].id > page.lastID
  <2>1. /\ \A i \in 1..Len(shown) : shown[i] \in Entries
        /\ \A i \in 1..Len(q) : q[i] \in Entries
    BY <1>1
  <2>2. QED
    BY <2>1 DEF Followed, GoesOn, Entries
<1> HIDE DEF conc, all, shown
<1>5. ASSUME NEW i \in 1..Len(conc), NEW j \in 1..Len(conc), i < j
      PROVE  conc[i].id < conc[j].id
  <2>1. i \in 1..(Len(shown) + Len(q)) /\ j \in 1..(Len(shown) + Len(q))
    BY <1>2
  <2>2. CASE j <= Len(shown)
    <3>1. i \in 1..Len(shown) /\ j \in 1..Len(shown) /\ i <= Len(shown)
      BY <1>1, <1>5, <2>1, <2>2
    <3>2. conc[i] = shown[i] /\ conc[j] = shown[j]
      BY <1>2, <2>1, <2>2, <3>1
    <3>3. QED
      BY <1>5, <3>1, <3>2 DEF Ascends, shown
  <2>3. CASE ~(i <= Len(shown))
    <3>1. /\ i - Len(shown) \in 1..Len(q) /\ j - Len(shown) \in 1..Len(q)
          /\ i - Len(shown) < j - Len(shown) /\ ~(j <= Len(shown))
      BY <1>1, <1>5, <2>1, <2>3
    <3>2. conc[i] = q[i - Len(shown)] /\ conc[j] = q[j - Len(shown)]
      BY <1>2, <2>1, <2>3, <3>1
    <3>3. QED
      BY <3>1, <3>2 DEF Ascends
  <2>4. CASE i <= Len(shown) /\ ~(j <= Len(shown))
    <3>1. i \in 1..Len(shown) /\ j - Len(shown) \in 1..Len(q)
      BY <1>1, <2>1, <2>4
    <3>2. conc[i] = shown[i] /\ conc[j] = q[j - Len(shown)]
      BY <1>2, <2>1, <2>4
    <3>3. /\ shown[i].id \in Nat /\ shown[i].id <= page.lastID
          /\ q[j - Len(shown)].id \in Nat /\ q[j - Len(shown)].id > page.lastID
      BY <1>4, <3>1
    <3>4. QED
      BY <1>1, <3>2, <3>3
  <2>5. QED
    BY <2>2, <2>3, <2>4
<1>6. Len(all) \in Nat /\ Len(conc) \in Nat /\ Len(all) <= Len(conc) /\ Len(all) > 0
  BY <1>1, <1>2, <1>3, Sizes
<1>7. ASSUME NEW i \in 1..Len(all), NEW j \in 1..Len(all), i < j
      PROVE  all[i].id < all[j].id
  <2>1. /\ (Len(conc) - Len(all)) + i \in 1..Len(conc)
        /\ (Len(conc) - Len(all)) + j \in 1..Len(conc)
        /\ (Len(conc) - Len(all)) + i < (Len(conc) - Len(all)) + j
    BY <1>6, <1>7
  <2>2. /\ all[i] = conc[(Len(conc) - Len(all)) + i]
        /\ all[j] = conc[(Len(conc) - Len(all)) + j]
    BY <1>3
  <2>3. QED
    BY <1>5, <2>1, <2>2
<1>8. conc[Len(conc)] = q[Len(q)] /\ q[Len(q)].id \in Nat /\ q[Len(q)].id > page.lastID
  <2>1. /\ Len(conc) \in 1..(Len(shown) + Len(q)) /\ ~(Len(conc) <= Len(shown))
        /\ Len(conc) - Len(shown) = Len(q) /\ Len(q) \in 1..Len(q)
    BY <1>1, <1>2
  <2>2. QED
    BY <1>2, <1>4, <2>1
<1>9. ASSUME NEW i \in 1..Len(all) PROVE all[i].id <= page'.lastID
  <2>1. /\ (Len(conc) - Len(all)) + i \in 1..Len(conc) /\ Len(conc) \in 1..Len(conc)
        /\ (Len(conc) - Len(all)) + i = Len(conc) \/ (Len(conc) - Len(all)) + i < Len(conc)
    BY <1>6
  <2>2. conc[(Len(conc) - Len(all)) + i] \in Entries
    BY <1>2, <2>1
  <2>3. conc[(Len(conc) - Len(all)) + i].id \in Nat
    BY <2>2 DEF Entries
  <2>4. conc[(Len(conc) - Len(all)) + i].id <= q[Len(q)].id
    <3>1. CASE (Len(conc) - Len(all)) + i = Len(conc)
      BY <1>8, <3>1
    <3>2. CASE (Len(conc) - Len(all)) + i < Len(conc)
      <4>1. conc[(Len(conc) - Len(all)) + i].id < conc[Len(conc)].id
        BY <1>5, <2>1, <3>2
      <4>2. QED
        BY <1>8, <2>3, <4>1
    <3>3. QED
      BY <2>1, <3>1, <3>2
  <2>5. QED
    BY <1>1, <1>3, <1>8, <2>3, <2>4
<1>10. ASSUME NEW i \in 1..Len(entries), ~(entries[i].id > page'.lastID), Len(all) # PageLimit
       PROVE  Contains(all, entries[i])
  <2>1. Len(conc) <= PageLimit /\ Len(all) = Len(conc)
    BY <1>3, <1>10
  <2>2. \A n \in 1..Len(conc) : all[n] = conc[n]
    <3>1. SUFFICES ASSUME NEW n \in 1..Len(conc) PROVE all[n] = conc[n]
      OBVIOUS
    <3>2. n \in 1..Len(all) /\ (Len(conc) - Len(all)) + n = n
      BY <1>6, <2>1
    <3>3. QED
      BY <1>3, <3>2
  <2>3. Len(shown) # PageLimit
    BY <1>1, <1>2, <2>1, Sizes
  <2>4. entries[i].id \in Nat
    <3>1. entries[i] \in Entries
      BY <1>1
    <3>2. QED
      BY <3>1 DEF Entries
  <2>5. CASE Contains(shown, entries[i])
    <3>1. PICK n \in 1..Len(shown) : shown[n] = entries[i]
      BY <2>5 DEF Contains
    <3>2. n \in 1..(Len(shown) + Len(q)) /\ n <= Len(shown)
      BY <1>1
    <3>3. conc[n] = entries[i] /\ n \in 1..Len(conc)
      BY <1>2, <3>1, <3>2
    <3>4. QED
      BY <2>1, <2>2, <3>3 DEF Contains
  <2>6. CASE ~Contains(shown, entries[i])
    <3>1. entries[i].id > page.lastID
      BY <2>3, <2>6 DEF Followed, shown
    <3>2. page.lastID < entries[i].id /\ entries[i].id <= q[Len(q)].id /\ Len(q) \in 1..Len(q)
      BY <1>1, <1>8, <1>10, <2>4, <3>1
    <3>3. Contains(q, entries[i])
      BY <3>2 DEF GoesOn
    <3>4. PICK n \in 1..Len(q) : q[n] = entries[i]
      BY <3>3 DEF Contains
    <3>5. /\ Len(shown) + n \in 1..(Len(shown) + Len(q)) /\ ~(Len(shown) + n <= Len(shown))
          /\ (Len(shown) + n) - Len(shown) = n
      BY <1>1
    <3>6. conc[Len(shown) + n] = entries[i] /\ Len(shown) + n \in 1..Len(conc)
      BY <1>2, <3>4, <3>5
    <3>7. QED
      BY <2>1, <2>2, <3>6 DEF Contains
  <2>7. QED
    BY <2>5, <2>6
<1>11. QED
  BY <1>7, <1>9, <1>10 DEF Ascends, Followed, all

(* A new entry is after everything on the page and under way. *)
LEMMA AddFollowed ==
  ASSUME BufferInv, PageInv, NEW c \in Calls, Add(c)
  PROVE  /\ Followed => Followed'
         /\ \A q \in Answers : GoesOn(q) => GoesOn(q)'
<1>1. /\ page' = page /\ nextID \in Nat /\ page.lastID \in Nat /\ page.lastID <= nextID
      /\ Len(entries) \in Nat /\ entries \in Seq(Entries)
  BY Sizes DEF Add, BufferInv, PageInv, PageRecord
<1>2. \A i \in 1..Len(entries') :
        entries'[i].id = nextID + 1 \/ \E j \in 1..Len(entries) : entries'[i] = entries[j]
  <2>1. /\ Len(entries') \in 1..Limit
        /\ Len(entries') = IF Len(entries) + 1 <= Limit THEN Len(entries) + 1 ELSE Limit
        /\ entries'[Len(entries')] = [id |-> nextID + 1, callID |-> c]
        /\ \A i \in 1..(Len(entries') - 1) :
              entries'[i] = entries[(Len(entries) + 1 - Len(entries')) + i]
    BY AddBuffer
  <2>2. SUFFICES ASSUME NEW i \in 1..Len(entries'), i # Len(entries')
                 PROVE  \E j \in 1..Len(entries) : entries'[i] = entries[j]
    BY <2>1
  <2>3. Len(entries') \in Nat /\ Len(entries) <= Limit
    BY <2>1, Sizes DEF BufferInv
  <2>4. i \in 1..(Len(entries') - 1) /\ (Len(entries) + 1 - Len(entries')) + i \in 1..Len(entries)
    BY <1>1, <2>1, <2>2, <2>3, Shift
  <2>5. QED
    BY <2>1, <2>4
<1>3. ASSUME Followed PROVE Followed'
  <2>1. ASSUME NEW i \in 1..Len(entries')
        PROVE  \/ entries'[i].id > page.lastID
               \/ Contains(page.shown, entries'[i])
               \/ Len(page.shown) = PageLimit
    <3>1. CASE entries'[i].id = nextID + 1
      BY <1>1, <3>1
    <3>2. CASE \E j \in 1..Len(entries) : entries'[i] = entries[j]
      BY <1>3, <3>2 DEF Followed
    <3>3. QED
      BY <1>2, <3>1, <3>2
  <2>2. QED
    BY <1>1, <1>3, <2>1 DEF Followed
<1>4. ASSUME NEW q \in Answers, GoesOn(q) PROVE GoesOn(q)'
  <2>1. \A n \in 1..Len(q) : q[n].id \in Nat /\ q[n].id <= nextID
    <3>1. \A n \in 1..Len(q) : q[n] \in Entries /\ q[n].id <= nextID
      BY DEF Answers
    <3>2. QED
      BY <3>1 DEF Entries
  <2>2. ASSUME NEW i \in 1..Len(entries'), NEW n \in 1..Len(q),
               page.lastID < entries'[i].id, entries'[i].id <= q[n].id
        PROVE  Contains(q, entries'[i])
    <3>1. entries'[i].id # nextID + 1
      BY <1>1, <2>1, <2>2
    <3>2. PICK j \in 1..Len(entries) : entries'[i] = entries[j]
      BY <1>2, <3>1
    <3>3. QED
      BY <1>4, <2>2, <3>2 DEF GoesOn
  <2>3. QED
    BY <1>1, <1>4, <2>2 DEF GoesOn
<1>5. QED
  BY <1>3, <1>4

(* An empty page is behind everything, and no answer is before nothing. *)
LEMMA EntriesNumbered ==
  ASSUME BufferInv
  PROVE  \A i \in 1..Len(entries) : entries[i].id > 0
<1>1. \A i \in 1..Len(entries) : entries[i] \in Entries
  BY DEF BufferInv
<1>2. QED
  BY <1>1, Sizes DEF Entries

LEMMA BlankFollowed ==
  ASSUME BufferInv, page.shown = <<>>, page.lastID = 0
  PROVE  Followed
<1>1. Len(<<>>) = 0
  OBVIOUS
<1>2. QED
  BY <1>1, EntriesNumbered DEF Followed

LEMMA FollowStep ==
  ASSUME BufferInv, PageInv, BufferInv', PageInv', FollowInv, [Next]_vars
  PROVE  FollowInv'
<1>0. /\ page \in PageRecord /\ reads \in Seq(ReadRecord) /\ Len(reads) \in Nat
      /\ DOMAIN reads = 1..Len(reads)
      /\ \A i \in 1..Len(reads) : reads[i] \in ReadRecord
  BY DEF PageInv
<1>1. SUFFICES ASSUME ~mixed' PROVE FollowInv'
  BY DEF FollowInv
<1>2. CASE UNCHANGED vars
  BY <1>2 DEF vars, FollowInv, Followed, GoesOn, Live
<1>3. ASSUME NEW c \in Calls, Add(c) PROVE FollowInv'
  <2>1. UNCHANGED <<page, reads, mixed>>
    BY <1>3 DEF Add
  <2>2. Len(reads) = 1 => reads[1].answer.entries \in Answers
    BY <1>0 DEF ReadRecord
  <2>3. QED
    BY <1>1, <1>3, <2>1, <2>2, AddFollowed DEF FollowInv, Live
<1>4. CASE OtherClears
  <2>1. UNCHANGED <<page, reads, mixed>> /\ entries' = <<>> /\ Len(<<>>) = 0
    BY <1>4 DEF OtherClears, Cleared
  <2>2. Followed => Followed'
    BY <2>1 DEF Followed
  <2>3. \A q : GoesOn(q) => GoesOn(q)'
    BY <2>1 DEF GoesOn
  <2>4. QED
    BY <1>1, <2>1, <2>2, <2>3 DEF FollowInv, Live
<1>5. ASSUME NEW kind \in {"poll", "history", "clear"}, NEW c \in Calls \cup {NoCall},
             Send(kind, c), reads = <<>>, entries' = entries, ~mixed,
             page'.shown = page.shown, page'.lastID = page.lastID,
             Live' => Live, kind = "history" <=> ~Live', kind = "poll" => c = NoCall
      PROVE  FollowInv'
  <2>1. /\ Len(reads') = 1 /\ reads'[1].kind = kind /\ reads'[1].callID = c
        /\ kind = "poll" => reads'[1].after = page.lastID
        /\ reads'[1].answer.entries = <<>>
    <3>1. Len(reads) = 0
      BY <1>5
    <3>2. /\ Len(reads') = 0 + 1 /\ reads'[0 + 1].kind = kind /\ reads'[0 + 1].callID = c
          /\ kind = "poll" => reads'[0 + 1].after = page.lastID
          /\ reads'[0 + 1].answer.entries = <<>>
      BY <1>5, <3>1, SendType
    <3>3. 0 + 1 = 1
      OBVIOUS
    <3>4. QED
      BY <3>2, <3>3
  <2>2. Followed => Followed'
    BY <1>5 DEF Followed
  <2>3. GoesOn(<<>>)' /\ Ascends(<<>>)
    BY DEF GoesOn, Ascends
  <2>4. QED
    BY <1>1, <1>5, <2>1, <2>2, <2>3 DEF FollowInv
<1>6. CASE Poll
  <2>1. /\ Live /\ Send("poll", NoCall) /\ reads = <<>> /\ ~mixed
        /\ UNCHANGED <<nextID, entries, page>>
    BY <1>1, <1>6 DEF Poll
  <2>2. Live'
    BY <2>1 DEF Live
  <2>3. QED
    BY <1>5, <2>1, <2>2
<1>7. ASSUME NEW c \in Calls, OpenHistory(c) PROVE FollowInv'
  <2>1. /\ Send("history", c) /\ reads = <<>> /\ ~mixed /\ entries' = entries
        /\ page'.shown = page.shown /\ page'.lastID = page.lastID /\ page'.history = c
    BY <1>0, <1>1, <1>7 DEF OpenHistory, PageRecord
  <2>2. ~Live'
    BY <2>1, TraceAssumption DEF Live
  <2>3. QED
    BY <1>5, <2>1, <2>2
<1>8. ASSUME UNCHANGED <<entries, reads>>, ~mixed, page'.shown = page.shown,
             page'.lastID = page.lastID, page'.history = page.history
      PROVE  FollowInv'
  BY <1>1, <1>8 DEF FollowInv, Followed, GoesOn, Live
<1>9. ASSUME UNCHANGED entries, Len(reads') = 0, page'.shown = <<>>, page'.lastID = 0
      PROVE  FollowInv'
  <2>1. \A i \in 1..Len(entries) : entries[i].id > 0
    BY EntriesNumbered
  <2>2. Len(<<>>) = 0
    OBVIOUS
  <2>3. Followed'
    BY <1>9, <2>1, <2>2 DEF Followed
  <2>4. Ascends(page'.shown)
    BY <1>9, <2>2 DEF Ascends
  <2>5. QED
    BY <1>1, <1>9, <2>3, <2>4 DEF FollowInv
<1>10. CASE OpenTrace
  <2>1. UNCHANGED <<entries, reads>> /\ ~mixed /\ page' = [page EXCEPT !.open = TRUE]
    BY <1>1, <1>10 DEF OpenTrace
  <2>2. QED
    BY <1>0, <1>8, <2>1 DEF PageRecord
<1>11. CASE CloseTrace
  <2>1. UNCHANGED <<entries, reads>> /\ ~mixed
    BY <1>1, <1>11 DEF CloseTrace
  <2>2. CASE Live
    <3>1. page' = [page EXCEPT !.open = FALSE]
      BY <1>11, <2>2 DEF CloseTrace
    <3>2. QED
      BY <1>0, <1>8, <2>1, <3>1 DEF PageRecord
  <2>3. CASE ~Live
    <3>1. page' = Blank /\ reads = <<>>
      BY <1>1, <1>11, <2>3 DEF CloseTrace
    <3>2. QED
      BY <1>9, <2>1, <3>1, EmptyTypes
  <2>4. QED
    BY <2>2, <2>3
<1>12. CASE ClearTrace
  <2>1. entries' = entries /\ ~mixed /\ reads = <<>>
    BY <1>1, <1>12 DEF ClearTrace
  <2>2. CASE Live
    <3>1. Send("clear", NoCall) /\ page' = page
      BY <1>12, <2>2 DEF ClearTrace
    <3>2. Live'
      BY <2>2, <3>1 DEF Live
    <3>3. QED
      BY <1>5, <2>1, <2>2, <3>1, <3>2
  <2>3. CASE ~Live
    <3>1. page' = [Blank EXCEPT !.open = TRUE] /\ reads' = reads
      BY <1>12, <2>3 DEF ClearTrace
    <3>2. page'.shown = <<>> /\ page'.lastID = 0
      BY <3>1, EmptyTypes DEF PageRecord
    <3>3. QED
      BY <1>9, <2>1, <3>1, <3>2
  <2>4. QED
    BY <2>2, <2>3
<1>13. ASSUME NEW i \in DOMAIN reads, Handle(i) PROVE FollowInv'
  <2>1. ~mixed /\ page' = page /\ i = 1 /\ Len(reads) = 1
    <3>1. ~mixed /\ page' = page /\ i \in 1..Len(reads)
      BY <1>0, <1>1, <1>13 DEF Handle
    <3>2. Len(reads) <= 1
      BY <3>1 DEF FollowInv
    <3>3. QED
      BY <1>0, <3>1, <3>2
  <2>2. /\ Len(reads') = 1 /\ reads'[1].kind = reads[1].kind
        /\ reads'[1].after = reads[1].after /\ reads'[1].callID = reads[1].callID
        /\ reads'[1].answer.entries = Query(reads[1].after, reads[1].callID)
    BY <1>13, <2>1, HandleFacts
  <2>3. /\ Ascends(page.shown) /\ (Live => Followed)
        /\ reads[1].kind = "history" <=> ~Live
        /\ reads[1].kind = "poll" => reads[1].after = page.lastID /\ reads[1].callID = NoCall
        /\ reads[1].after \in Nat
    BY <1>0, <2>1 DEF FollowInv, ReadRecord, BufferInv
  <2>4. Ascends(reads'[1].answer.entries)
    BY <2>2, <2>3, QueryAnswer
  <2>5. Live' <=> Live
    BY <2>1 DEF Live
  <2>6. Followed => Followed'
    <3>1. entries' = entries \/ entries' = <<>>
      BY <1>13 DEF Handle, Cleared
    <3>2. Len(<<>>) = 0
      OBVIOUS
    <3>3. QED
      BY <2>1, <3>1, <3>2 DEF Followed
  <2>7. ASSUME reads[1].kind = "poll"
        PROVE  /\ \A n \in 1..Len(reads'[1].answer.entries) :
                    reads'[1].answer.entries[n].id > page'.lastID
               /\ \A m \in 1..Len(entries') : page'.lastID < entries'[m].id =>
                    Contains(reads'[1].answer.entries, entries'[m])
    <3>1. /\ entries' = entries
          /\ reads'[1].answer.entries = Query(page.lastID, NoCall) /\ page.lastID \in Nat
      BY <1>13, <2>1, <2>2, <2>3, <2>7 DEF Handle
    <3>2. /\ \A n \in 1..Len(Query(page.lastID, NoCall)) :
               Query(page.lastID, NoCall)[n].id > page.lastID
          /\ \A n \in 1..Len(entries) :
               entries[n].id > page.lastID => Contains(Query(page.lastID, NoCall), entries[n])
      BY <3>1, QueryAnswer
    <3>3. \A n \in 1..Len(entries) : entries[n].id \in Nat
      <4>1. \A n \in 1..Len(entries) : entries[n] \in Entries
        BY DEF BufferInv
      <4>2. QED
        BY <4>1 DEF Entries
    <3>4. \A n \in 1..Len(entries) : page.lastID < entries[n].id => entries[n].id > page.lastID
      BY <3>1, <3>3
    <3>5. QED
      BY <2>1, <3>1, <3>2, <3>4
  <2>8. QED
    <3>1. Ascends(page'.shown) /\ (Live' => Followed')
      BY <2>1, <2>3, <2>5, <2>6
    <3>2. reads'[1].kind = "history" <=> ~Live'
      BY <2>2, <2>3, <2>5
    <3>3. reads'[1].kind = "poll" => reads'[1].after = page'.lastID /\ reads'[1].callID = NoCall
      BY <2>1, <2>2, <2>3
    <3>4. reads'[1].kind = "poll" => GoesOn(reads[1].answer.entries)'
      BY <2>2, <2>7 DEF GoesOn
    <3>5. QED
      BY <1>1, <2>2, <2>4, <3>1, <3>2, <3>3, <3>4 DEF FollowInv
<1>14. ASSUME NEW i \in DOMAIN reads, Receive(i) PROVE FollowInv'
  <2>1. ~mixed /\ entries' = entries /\ i = 1 /\ Len(reads) = 1
    <3>1. ~mixed /\ entries' = entries /\ i \in 1..Len(reads)
      BY <1>0, <1>1, <1>14 DEF Receive
    <3>2. Len(reads) <= 1
      BY <3>1 DEF FollowInv
    <3>3. QED
      BY <1>0, <3>1, <3>2
  <2>2. Len(reads') = 0
    <3>1. reads' = RemoveAt(reads, 1) /\ 1 \in 1..Len(reads)
      BY <1>14, <2>1 DEF Receive
    <3>2. Len(reads') = Len(reads) - 1
      BY <1>0, <3>1, RemoveAtFacts
    <3>3. QED
      BY <2>1, <3>2
  <2>3. /\ Ascends(page.shown) /\ (Live => Followed)
        /\ reads[1].kind = "history" <=> ~Live
        /\ Ascends(reads[1].answer.entries) /\ reads[1].answer.entries \in Answers
        /\ reads[1].kind = "poll" => GoesOn(reads[1].answer.entries)
        /\ reads[1].kind \in {"poll", "history", "clear"}
    BY <1>0, <2>1 DEF FollowInv, ReadRecord
  <2>4. CASE reads[1].kind = "poll"
    <3>1. page' = Extended(page, reads[1].answer.entries) /\ Live /\ Followed
      BY <1>14, <2>1, <2>3, <2>4 DEF Receive, Shows
    <3>2. CASE reads[1].answer.entries = <<>>
      <4>1. page' = page
        BY <3>1, <3>2 DEF Extended
      <4>2. QED
        BY <1>1, <2>1, <2>2, <2>3, <4>1 DEF FollowInv, Followed, Live
    <3>3. CASE reads[1].answer.entries # <<>>
      <4>1. Ascends(page.shown)' /\ Followed'
        BY <2>1, <2>3, <2>4, <3>1, <3>3, PollReceived
      <4>2. QED
        BY <1>1, <2>2, <4>1 DEF FollowInv
    <3>4. QED
      BY <3>2, <3>3
  <2>5. CASE reads[1].kind = "history"
    <3>1. page' = [page EXCEPT !.shown = reads[1].answer.entries, !.open = TRUE] /\ ~Live
      BY <1>14, <2>1, <2>3, <2>5 DEF Receive, Shows
    <3>2. page'.shown = reads[1].answer.entries /\ page'.history = page.history
      BY <1>0, <3>1 DEF PageRecord
    <3>3. QED
      BY <1>1, <2>2, <2>3, <3>1, <3>2 DEF FollowInv, Live
  <2>6. CASE reads[1].kind = "clear"
    <3>1. page' = [page EXCEPT !.shown = <<>>, !.lastID = 0]
      BY <1>14, <2>1, <2>6 DEF Receive, Shows
    <3>2. page'.shown = <<>> /\ page'.lastID = 0
      BY <1>0, <3>1 DEF PageRecord
    <3>3. QED
      BY <1>9, <2>1, <2>2, <3>2
  <2>7. QED
    BY <2>3, <2>4, <2>5, <2>6
<1>15. QED
  BY <1>2, <1>3, <1>4, <1>6, <1>7, <1>10, <1>11, <1>12, <1>13, <1>14 DEF Next

-----------------------------------------------------------------------------
LEMMA PageInit == Init => PageInv /\ FollowInv
<1>1. SUFFICES ASSUME Init PROVE PageInv /\ FollowInv
  OBVIOUS
<1>2. page = Blank /\ reads = <<>> /\ Len(<<>>) = 0 /\ mixed = FALSE /\ BufferInv
  BY <1>1, BufferInit DEF Init
<1>3. PageInv
  BY <1>2, EmptyTypes, EmptySeq DEF PageInv
<1>4. FollowInv
  BY <1>2, EmptyTypes, BlankFollowed DEF FollowInv
<1>5. QED
  BY <1>3, <1>4

LEMMA TraceInvariant == Spec => [](BufferInv /\ NewestInv /\ PageInv /\ FollowInv)
<1>1. /\ BufferInv /\ NewestInv /\ PageInv /\ FollowInv /\ [Next]_vars
      => BufferInv' /\ NewestInv' /\ PageInv' /\ FollowInv'
  BY BufferStep, NewestStep, PageStep, FollowStep
<1>2. QED
  BY <1>1, BufferInit, PageInit, PTL DEF Spec

(* The buffer never keeps more than its limit, a page never more than its  *)
(* own or one answer, and no number is ahead of the buffer's.              *)
THEOREM TypeCorrect == Spec => []TypeOK
<1>1. ASSUME NEW S, NEW n \in Nat, NEW s \in Seq(S), Len(s) <= n PROVE s \in BoundedSeq(S, n)
  <2>1. s \in [1..Len(s) -> S] /\ Len(s) \in 0..n
    BY <1>1, LenProperties
  <2>2. QED
    BY <2>1 DEF BoundedSeq, SeqOf
<1>2. ASSUME BufferInv, NewestInv, PageInv PROVE TypeOK
  <2>1. entries \in BoundedSeq(Entries, Limit)
    BY <1>1, <1>2, Sizes DEF BufferInv
  <2>2. ShownMax \in Nat /\ nextID \in 0..MaxAdds
    BY <1>2, Sizes DEF ShownMax, BufferInv
  <2>3. \A s \in Shown : s \in BoundedSeq(Entries, ShownMax)
    BY <1>1, <2>2 DEF Shown
  <2>4. 0..nextID \subseteq 0..MaxAdds
    BY <2>2, Sizes
  <2>5. page \in [shown : BoundedSeq(Entries, ShownMax), lastID : 0..MaxAdds,
                 history : Calls \cup {NoCall}, open : BOOLEAN]
    BY <1>2, <2>3, <2>4 DEF PageInv, PageRecord
  <2>6. QED
    BY <1>2, <2>1, <2>2, <2>5 DEF TypeOK, ShownMax, NewestInv, PageInv
<1>3. QED
  BY <1>2, TraceInvariant, PTL

(* A page that polls for what is after its last entry shows every entry    *)
(* once and in order and misses none that is kept, however often the trace *)
(* is trimmed and cleared between its polls.                               *)
THEOREM TraceIsFollowed == Spec => []TraceFollowed
<1>1. ASSUME BufferInv, FollowInv PROVE TraceFollowed
  <2>1. ASSUME ~mixed PROVE IsSorted(page.shown, LAMBDA a, b : a.id < b.id)
    BY <1>1, <2>1 DEF FollowInv, Ascends, IsSorted
  <2>2. DOMAIN entries = 1..Len(entries)
    BY <1>1 DEF BufferInv
  <2>3. ASSUME ~mixed, Live, NEW i \in DOMAIN entries
        PROVE  \/ entries[i].id > page.lastID
               \/ Contains(page.shown, entries[i])
               \/ Len(page.shown) = PageLimit
    BY <1>1, <2>2, <2>3 DEF FollowInv, Followed
  <2>4. QED
    BY <2>1, <2>3 DEF TraceFollowed
<1>2. QED
  BY <1>1, TraceInvariant, PTL
=============================================================================
