------------------------- MODULE AnnounceFeed_proofs -------------------------
(***************************************************************************)
(* The ring of announces, for any sizes, packets and filters: it is the    *)
(* newest records, and the reports of one packet are one of them.  Then    *)
(* the stream, whose batches leave none of them out.  Last the page: what  *)
(* its list, the stream and the answer it waits for hold together.         *)
(***************************************************************************)
EXTENDS AnnounceFeed, FiniteSetTheorems, SequenceTheorems, TLAPS

Record == [packet : Packets, hops : HopCounts, born : HopCounts]

\* RingIsNewest says which ids the ring holds, OneRecordPerPacket what their
\* records are; neither needs anything of the stream or of the page.
RingInv ==
    /\ records \in Seq(Record) /\ ring \in Seq(Nat)
    /\ RingIsNewest
    /\ OneRecordPerPacket

\* The ids of the ring are ids of records.
LEMMA RingIds ==
    ASSUME RingInv
    PROVE  Ids(ring) \subseteq DOMAIN records
<1>1. SUFFICES ASSUME NEW i \in DOMAIN ring
               PROVE  ring[i] \in DOMAIN records
    BY DEF Ids
<1>2. Len(ring) <= Len(records) /\ i \in 1 .. Len(ring) /\ Len(records) \in Nat
    BY FeedAssumption DEF RingInv, RingIsNewest
<1>3. ring[i] = Len(records) - Len(ring) + i
    BY DEF RingInv, RingIsNewest
<1> QED
    BY <1>2, <1>3 DEF RingInv

\* r is s with id at its end, cut at the front to size.
IsEndOf(r, s, id, size) ==
    /\ r \in Seq(Nat)
    /\ Len(r) = IF Len(s) < size THEN Len(s) + 1 ELSE size
    /\ \A i \in 1 .. Len(r) : r[i] = Append(s, id)[i + Len(s) + 1 - Len(r)]

\* What LastOf keeps of a sequence that is longer by one than it may be.
LEMMA LastOfAppend ==
    ASSUME NEW s \in Seq(Nat), NEW id \in Nat, NEW size \in Nat \ {0}, Len(s) <= size
    PROVE  IsEndOf(LastOf(Append(s, id), size), s, id, size)
<1> DEFINE a == Append(s, id)
           first == IF Len(a) < size THEN 1 ELSE Len(a) - size + 1
           r == LastOf(a, size)
<1>1. a \in Seq(Nat) /\ Len(a) = Len(s) + 1 /\ Len(s) \in Nat
    OBVIOUS
<1>2. r = SubSeq(a, first, Len(a))
    BY DEF LastOf
<1>3. first = IF Len(s) < size THEN 1 ELSE Len(s) + 1 - size + 1
    BY <1>1
<1> HIDE DEF a, first, r
<1>4. first \in 1 .. Len(a) /\ first \in Int /\ Len(a) \in Int
    BY <1>1, <1>3
<1>5. /\ r \in Seq(Nat) /\ Len(r) = Len(a) - first + 1
      /\ \A i \in 1 .. Len(r) : r[i] = a[first + i - 1]
    <2>1. \A i \in first .. Len(a) : a[i] \in Nat
        BY <1>1, <1>4, ElementOfSeq
    <2>2. SubSeq(a, first, Len(a)) \in Seq(Nat)
        BY <1>1, <1>4, <2>1
    <2> QED
        <3>1. /\ Len(SubSeq(a, first, Len(a))) =
                     IF first <= Len(a) THEN Len(a) - first + 1 ELSE 0
              /\ \A i \in 1 .. Len(a) - first + 1 : SubSeq(a, first, Len(a))[i] = a[first + i - 1]
            BY <1>4, <2>1, SubSeqProperties
        <3>2. first <= Len(a)
            BY <1>4
        <3> QED
            BY <1>2, <2>2, <3>1, <3>2
<1>6. Len(r) = IF Len(s) < size THEN Len(s) + 1 ELSE size
    BY <1>1, <1>3, <1>5
<1>7. \A i \in 1 .. Len(r) : first + i - 1 = i + Len(s) + 1 - Len(r)
    BY <1>1, <1>4, <1>5
<1>8. \A i \in 1 .. Len(r) : r[i] = a[i + Len(s) + 1 - Len(r)]
    BY <1>5, <1>7
<1> QED
    BY <1>5, <1>6, <1>8 DEF a, r, IsEndOf
-----------------------------------------------------------------------------
\* A report that is merged changes the hop count of one record of the ring.
LEMMA MergeKeeps ==
    ASSUME RingInv, NEW p \in Packets, NEW hops \in HopCounts, NEW id \in Duplicates(p),
           records' = [records EXCEPT ![id].hops =
                           IF records[id].hops = Unknown THEN hops ELSE records[id].hops],
           UNCHANGED ring
    PROVE  RingInv'
<1>1. id \in DOMAIN records
    BY RingIds DEF Duplicates
<1>2. /\ records' \in Seq(Record) /\ Len(records') = Len(records)
      /\ \A i \in DOMAIN records : records'[i].packet = records[i].packet
    <2>1. records \in Seq(Record)
        BY DEF RingInv
    <2>2. \A i \in DOMAIN records : records[i] \in Record
        BY <2>1
    <2>3. [records[id] EXCEPT !.hops = IF records[id].hops = Unknown THEN hops ELSE records[id].hops]
              \in Record
        BY <1>1, <2>2 DEF Record
    <2>4. records' = [records EXCEPT ![id] =
              [records[id] EXCEPT !.hops = IF records[id].hops = Unknown THEN hops ELSE records[id].hops]]
        BY <1>1
    <2>5. records' \in Seq(Record) /\ Len(records') = Len(records)
        BY <1>1, <2>1, <2>3, <2>4
    <2>6. \A i \in DOMAIN records : records'[i].packet = records[i].packet
        BY <1>1, <2>2, <2>4 DEF Record
    <2> QED
        BY <2>5, <2>6
<1>3. RingIsNewest'
    BY <1>2 DEF RingInv, RingIsNewest
<1>4. OneRecordPerPacket'
    <2>1. Ids(ring') = Ids(ring)
        OBVIOUS
    <2>2. \A i \in Ids(ring) : records'[i].packet = records[i].packet
        BY <1>2, RingIds
    <2> QED
        BY <2>1, <2>2 DEF RingInv, OneRecordPerPacket
<1> QED
    BY <1>2, <1>3, <1>4 DEF RingInv

\* A report that is not merged becomes the newest record and the end of the ring.
LEMMA AppendKeeps ==
    ASSUME RingInv, NEW p \in Packets, NEW hops \in HopCounts, Duplicates(p) = {},
           records' = Append(records, NewRecord(p, hops)),
           ring' = LastOf(Append(ring, Len(records) + 1), RingSize)
    PROVE  RingInv'
<1> DEFINE n == Len(records)
<1>1. /\ records \in Seq(Record) /\ n \in Nat /\ NewRecord(p, hops) \in Record
      /\ ring \in Seq(Nat) /\ Len(ring) \in Nat
    BY DEF RingInv, NewRecord, Record
<1>2. RingSize \in Nat \ {0}
    BY FeedAssumption
<1>3. /\ records' \in Seq(Record) /\ Len(records') = n + 1
      /\ records'[n + 1] = NewRecord(p, hops)
      /\ \A i \in 1 .. n : records'[i] = records[i]
    BY <1>1
<1>4. Len(ring) <= RingSize /\ Len(ring) = IF n < RingSize THEN n ELSE RingSize
    BY <1>1, <1>2 DEF RingInv, RingIsNewest
<1>5. /\ ring' \in Seq(Nat)
      /\ Len(ring') = IF Len(ring) < RingSize THEN Len(ring) + 1 ELSE RingSize
      /\ \A i \in 1 .. Len(ring') :
             ring'[i] = Append(ring, n + 1)[i + Len(ring) + 1 - Len(ring')]
    <2>1. IsEndOf(LastOf(Append(ring, n + 1), RingSize), ring, n + 1, RingSize)
        BY <1>1, <1>2, <1>4, LastOfAppend
    <2> QED
        BY <2>1 DEF IsEndOf
<1> DEFINE m == Len(ring)
           new == Len(ring')
<1>0. /\ n \in Nat /\ m \in Nat /\ new \in Nat
      /\ m = IF n < RingSize THEN n ELSE RingSize
      /\ new = IF m < RingSize THEN m + 1 ELSE RingSize
    BY <1>1, <1>2, <1>4, <1>5
<1>6. ASSUME NEW j \in 1 .. Len(ring) + 1
      PROVE  Append(ring, n + 1)[j] = n - Len(ring) + j
    <2>1. CASE j \in 1 .. Len(ring)
        BY <1>1, <2>1 DEF RingInv, RingIsNewest
    <2>2. CASE j = Len(ring) + 1
        BY <1>1, <2>2
    <2> QED
        BY <1>1, <2>1, <2>2
<1> HIDE DEF n, m, new
<1>7. \A i \in 1 .. Len(ring') : ring'[i] = n + 1 - Len(ring') + i
    <2> SUFFICES ASSUME NEW i \in 1 .. Len(ring')
                 PROVE  ring'[i] = n + 1 - Len(ring') + i
        OBVIOUS
    <2> DEFINE j == i + m + 1 - new
    <2>1. j \in 1 .. m + 1 /\ i \in 1 .. new /\ n - m + j = n + 1 - new + i
        BY <1>0, <1>2 DEF new
    <2>2. ring'[i] = Append(ring, n + 1)[j]
        BY <1>5 DEF m, new
    <2>3. Append(ring, n + 1)[j] = n - m + j
        BY <1>6, <2>1 DEF m
    <2> QED
        BY <2>1, <2>2, <2>3 DEF new
<1>8. RingIsNewest'
    <2>1. Len(ring') = IF n + 1 < RingSize THEN n + 1 ELSE RingSize
        BY <1>0, <1>2 DEF new
    <2>2. DOMAIN ring' = 1 .. Len(ring')
        BY <1>5
    <2>3. Len(records') = n + 1
        BY <1>3 DEF n
    <2>4. \A i \in DOMAIN ring' : ring'[i] = Len(records') - Len(ring') + i
        <3> SUFFICES ASSUME NEW i \in DOMAIN ring'
                     PROVE  ring'[i] = Len(records') - Len(ring') + i
            OBVIOUS
        <3>1. ring'[i] = n + 1 - new + i
            BY <1>7, <2>2 DEF new
        <3> QED
            BY <1>0, <2>2, <2>3, <3>1 DEF new
    <2> QED
        BY <2>1, <2>3, <2>4 DEF RingIsNewest
<1>9. ASSUME NEW i \in Ids(ring') PROVE i = n + 1 \/ i \in Ids(ring)
    <2>1. PICK j \in 1 .. new : i = n + 1 - new + j
        <3>1. PICK j \in DOMAIN ring' : ring'[j] = i
            BY DEF Ids
        <3>2. j \in 1 .. new
            BY <1>5 DEF new
        <3> QED
            BY <1>7, <3>1, <3>2 DEF new
    <2>2. CASE j = new
        BY <1>0, <2>1, <2>2
    <2>3. CASE j # new
        <3> DEFINE k == j + m + 1 - new
        <3>1. k \in 1 .. m /\ n - m + k = i
            BY <1>0, <1>2, <2>1, <2>3
        <3>2. ring[k] = n - m + k /\ k \in DOMAIN ring
            BY <1>1, <3>1 DEF RingInv, RingIsNewest, n, m
        <3> QED
            BY <3>1, <3>2 DEF Ids
    <2> QED
        BY <2>2, <2>3
<1>10. OneRecordPerPacket'
    <2> SUFFICES ASSUME NEW i \in Ids(ring'), NEW j \in Ids(ring'), i # j,
                        records'[i].packet = records'[j].packet
                 PROVE  records'[i].packet \in Unhashed
        BY DEF OneRecordPerPacket
    <2>1. ASSUME NEW x \in Ids(ring) PROVE records'[x] = records[x]
        BY <1>1, <1>3, RingIds
    <2>2. ASSUME NEW x \in Ids(ring), records[x].packet = p PROVE p \in Unhashed
        BY <2>2 DEF Duplicates
    <2>3. records'[n + 1].packet = p
        BY <1>3 DEF NewRecord
    <2>4. CASE i \in Ids(ring) /\ j \in Ids(ring)
        BY <2>1, <2>4 DEF RingInv, OneRecordPerPacket
    <2>5. CASE i = n + 1 /\ j \in Ids(ring)
        BY <2>1, <2>2, <2>3, <2>5
    <2>6. CASE j = n + 1 /\ i \in Ids(ring)
        BY <2>1, <2>2, <2>3, <2>6
    <2> QED
        BY <1>9, <2>4, <2>5, <2>6
<1> QED
    BY <1>3, <1>5, <1>8, <1>10 DEF RingInv
-----------------------------------------------------------------------------
LEMMA RingStep == RingInv /\ [Next]_vars => RingInv'
<1> SUFFICES ASSUME RingInv, [Next]_vars PROVE RingInv'
    OBVIOUS
<1>1. ASSUME NEW p \in Packets, NEW hops \in HopCounts, Report(p, hops) PROVE RingInv'
    <2>1. CASE Duplicates(p) # {}
        BY <1>1, <2>1, MergeKeeps DEF Report
    <2>2. CASE Duplicates(p) = {}
        BY <1>1, <2>2, AppendKeeps DEF Report
    <2> QED
        BY <2>1, <2>2
<1>2. ASSUME UNCHANGED <<records, ring>> PROVE RingInv'
    BY <1>2 DEF RingInv, RingIsNewest, OneRecordPerPacket, Ids
<1>3. CASE StreamStep \/ Disconnect \/ Dispatch
    BY <1>2, <1>3 DEF StreamStep, Connect, StreamTake, StreamSend, Disconnect, Dispatch
<1>4. CASE (\E f \in Filters : Apply(f)) \/ PollStatus \/ RequestFails
    BY <1>2, <1>4 DEF Apply, PollStatus, RequestFails
<1>5. CASE \E r \in Routes : Serve(r) \/ Arrive(r)
    BY <1>2, <1>5 DEF Serve, Arrive
<1>6. CASE UNCHANGED vars
    BY <1>2, <1>6 DEF vars
<1> QED
    BY <1>1, <1>3, <1>4, <1>5, <1>6 DEF Next

LEMMA RingAlways == Spec => []RingInv
<1>1. Init => RingInv
    BY FeedAssumption DEF Init, RingInv, RingIsNewest, OneRecordPerPacket, Ids
<1> QED
    BY <1>1, RingStep, PTL DEF Spec

\* What a full ring drops is always the oldest (StateCache.append_announce),
\* so a stream that knows its last id knows what it has missed.
THEOREM RingCorrect == Spec => []RingIsNewest
<1>1. RingInv => RingIsNewest
    BY DEF RingInv
<1> QED
    BY <1>1, RingAlways, PTL

\* _find_duplicate_announce never leaves two records of one hashed packet in
\* the ring, whatever was reported in between.
THEOREM PacketsOnce == Spec => []OneRecordPerPacket
<1>1. RingInv => OneRecordPerPacket
    BY DEF RingInv
<1> QED
    BY <1>1, RingAlways, PTL
-----------------------------------------------------------------------------
\* How many positions of P are not behind k.
Rank(P, k) == Cardinality({j \in P : j <= k})

\* Positions can be put in order: each takes the place of its rank.
LEMMA OrderOfPositions ==
    ASSUME NEW m \in Nat, NEW P \in SUBSET (1 .. m)
    PROVE  LET f == InOrder(P)
               size == Cardinality(P)
           IN  /\ size \in Nat /\ f \in [1 .. size -> P]
               /\ \A i, j \in 1 .. size : i < j => f[i] < f[j]
               /\ \A k \in P : \E i \in 1 .. size : f[i] = k
<1> DEFINE size == Cardinality(P)
<1>1. IsFiniteSet(P) /\ size \in Nat
    <2>1. IsFiniteSet(1 .. m) /\ P \subseteq 1 .. m
        BY FS_Interval
    <2>2. IsFiniteSet(P)
        BY <2>1, FS_Subset
    <2> QED
        BY <2>2, FS_CardinalityType
<1>2. \A k \in P : k \in Int
    OBVIOUS
<1>3. ASSUME NEW k \in P PROVE Rank(P, k) \in 1 .. size
    <2> DEFINE Q == {j \in P : j <= k}
    <2>1. IsFiniteSet(Q) /\ Cardinality(Q) \in Nat /\ Cardinality(Q) <= size
        BY <1>1, FS_Subset, FS_CardinalityType
    <2>2. Q # {}
        BY <1>2
    <2>3. Cardinality(Q) # 0
        BY <2>1, <2>2, FS_EmptySet
    <2> QED
        BY <1>1, <2>1, <2>3 DEF Rank
<1>4. ASSUME NEW j \in P, NEW k \in P, j < k PROVE Rank(P, j) < Rank(P, k)
    <2> DEFINE J == {i \in P : i <= j}
               K == {i \in P : i <= k}
    <2>0. K \subseteq P /\ J \subseteq K
        <3>1. \A i \in P : i <= j => i <= k
            BY <1>2, <1>4
        <3> QED
            BY <3>1
    <2> HIDE DEF J, K
    <2>1. IsFiniteSet(K) /\ J \subseteq K
        BY <1>1, <2>0, FS_Subset
    <2>2. k \in K /\ k \notin J
        BY <1>2, <1>4 DEF J, K
    <2>3. IsFiniteSet(J) /\ Cardinality(J) \in Nat /\ Cardinality(K) \in Nat
        BY <2>1, FS_Subset, FS_CardinalityType
    <2>4. Cardinality(J) <= Cardinality(K) /\ (Cardinality(J) = Cardinality(K) => J = K)
        BY <2>1, FS_Subset
    <2>5. Cardinality(J) # Cardinality(K)
        BY <2>2, <2>4
    <2>6. Cardinality(J) < Cardinality(K)
        BY <2>3, <2>4, <2>5
    <2> QED
        BY <2>6 DEF Rank, J, K
<1> DEFINE r == [k \in P |-> Rank(P, k)]
<1>5. r \in Injection(P, 1 .. size)
    <2>1. \A j, k \in P : j # k => j < k \/ k < j
        BY <1>2
    <2>2. \A j, k \in P : r[j] = r[k] => j = k
        BY <1>3, <1>4, <2>1
    <2>3. r \in [P -> 1 .. size]
        BY <1>3
    <2> QED
        BY <2>2, <2>3 DEF Injection, IsInjective
<1>6. r \in Surjection(P, 1 .. size)
    <2>1. IsFiniteSet(1 .. size) /\ Cardinality(1 .. size) = Cardinality(P)
        BY <1>1, FS_Interval
    <2> QED
        BY <1>1, <1>5, <2>1, FS_Injection
<1>7. \A i \in 1 .. size : \E k \in P : r[k] = i
    BY <1>6 DEF Surjection
<1> DEFINE g == InOrder(P)
<1>8. \A i \in 1 .. size : g[i] \in P /\ Rank(P, g[i]) = i
    <2>1. \A i \in 1 .. size : \E k \in P : Cardinality({j \in P : j <= k}) = i
        BY <1>7 DEF Rank
    <2> QED
        BY <2>1 DEF InOrder, Rank
<1>9. g \in [1 .. size -> P] /\ \A i, j \in 1 .. size : i < j => g[i] < g[j]
    <2>1. ASSUME NEW i \in 1 .. size, NEW j \in 1 .. size, i < j, ~(g[i] < g[j]) PROVE FALSE
        <3>1. g[i] \in Int /\ g[j] \in Int /\ g[i] \in P /\ g[j] \in P
            BY <1>2, <1>8, <2>1
        <3> HIDE DEF g, r
        <3>2. g[i] = g[j] \/ g[j] < g[i]
            BY <2>1, <3>1
        <3>3. Rank(P, g[i]) = i /\ Rank(P, g[j]) = j
            BY <1>8, <2>1 DEF g
        <3>4. i \in Int /\ j \in Int
            BY <1>1
        <3>5. CASE g[i] = g[j]
            BY <2>1, <3>3, <3>4, <3>5
        <3>6. CASE g[j] < g[i]
            <4>1. j < i
                BY <1>4, <3>1, <3>3, <3>6
            <4> QED
                BY <2>1, <3>4, <4>1
        <3> QED
            BY <3>2, <3>5, <3>6
    <2>2. g = [i \in 1 .. size |-> g[i]]
        BY DEF InOrder
    <2> HIDE DEF g
    <2> QED
        BY <1>8, <2>1, <2>2
<1> HIDE DEF r
<1>10. /\ InOrder(P) \in [1 .. size -> P]
       /\ \A i, j \in 1 .. size : i < j => InOrder(P)[i] < InOrder(P)[j]
    BY <1>9
<1>11. InOrder(P) \in Injection(1 .. size, P)
    <2>1. \A i, j \in 1 .. size : i # j => i < j \/ j < i
        BY <1>1
    <2>2. ASSUME NEW i \in 1 .. size, NEW j \in 1 .. size, InOrder(P)[i] = InOrder(P)[j]
          PROVE  i = j
        <3>1. InOrder(P)[i] \in Int /\ InOrder(P)[j] \in Int
            BY <1>2, <1>10
        <3> QED
            BY <1>10, <2>1, <2>2, <3>1
    <2> QED
        BY <1>10, <2>2 DEF Injection, IsInjective
<1>12. InOrder(P) \in Surjection(1 .. size, P)
    <2>1. IsFiniteSet(1 .. size) /\ Cardinality(1 .. size) = Cardinality(P)
        BY <1>1, FS_Interval
    <2> QED
        BY <1>1, <1>11, <2>1, FS_Injection
<1> QED
    BY <1>1, <1>10, <1>12 DEF Surjection
-----------------------------------------------------------------------------
LEMMA SeqGrows ==
    ASSUME NEW S, NEW T, S \subseteq T, NEW s \in Seq(S)
    PROVE  s \in Seq(T)
<1>1. \A i \in 1 .. Len(s) : s[i] \in T
    BY ElementOfSeq
<1> QED
    BY <1>1

LEMMA FirstOfKeeps ==
    ASSUME NEW S, NEW s \in Seq(S), NEW n \in Nat
    PROVE  /\ FirstOf(s, n) \in Seq(S)
           /\ Len(FirstOf(s, n)) = IF Len(s) < n THEN Len(s) ELSE n
           /\ \A i \in 1 .. Len(FirstOf(s, n)) : FirstOf(s, n)[i] = s[i]
<1> DEFINE m == IF Len(s) < n THEN Len(s) ELSE n
<1>1. m \in Nat /\ m <= Len(s) /\ Len(s) \in Nat
    OBVIOUS
<1> HIDE DEF m
<1>2. \A i \in 1 .. m : s[i] \in S
    BY <1>1, ElementOfSeq
<1>3. /\ SubSeq(s, 1, m) \in Seq(S)
      /\ Len(SubSeq(s, 1, m)) = IF 1 <= m THEN m - 1 + 1 ELSE 0
      /\ \A i \in 1 .. m - 1 + 1 : SubSeq(s, 1, m)[i] = s[1 + i - 1]
    BY <1>1, <1>2, SubSeqProperties
<1>4. Len(SubSeq(s, 1, m)) = m
    BY <1>1, <1>3
<1>5. \A i \in 1 .. m : SubSeq(s, 1, m)[i] = s[i]
    BY <1>1, <1>3
<1>6. FirstOf(s, n) = SubSeq(s, 1, m)
    BY DEF FirstOf, m
<1> QED
    BY <1>3, <1>4, <1>5, <1>6 DEF m

LEMMA LastOfKeeps ==
    ASSUME NEW S, NEW s \in Seq(S), NEW n \in Nat \ {0}
    PROVE  /\ LastOf(s, n) \in Seq(S)
           /\ Len(LastOf(s, n)) = IF Len(s) < n THEN Len(s) ELSE n
           /\ \A i \in 1 .. Len(LastOf(s, n)) :
                  LastOf(s, n)[i] = s[i + Len(s) - Len(LastOf(s, n))]
<1> DEFINE first == IF Len(s) < n THEN 1 ELSE Len(s) - n + 1
           len == Len(s)
           size == IF len < n THEN len ELSE n
<1>1. /\ first \in Int /\ 1 <= first /\ len \in Nat /\ size \in Nat
      /\ size = len - first + 1 /\ (first <= len \/ size = 0)
    OBVIOUS
<1>2. \A i \in first .. len : s[i] \in S
    <2>1. \A i \in first .. len : i \in 1 .. len
        BY <1>1
    <2> QED
        BY <2>1, ElementOfSeq
<1>0. LastOf(s, n) = SubSeq(s, first, len)
    BY DEF LastOf
<1> HIDE DEF first, len, size
<1>3. /\ SubSeq(s, first, len) \in Seq(S)
      /\ Len(SubSeq(s, first, len)) = IF first <= len THEN len - first + 1 ELSE 0
      /\ \A i \in 1 .. len - first + 1 : SubSeq(s, first, len)[i] = s[first + i - 1]
    BY <1>1, <1>2, SubSeqProperties
<1>4. Len(SubSeq(s, first, len)) = size
    BY <1>1, <1>3
<1>5. \A i \in 1 .. size : SubSeq(s, first, len)[i] = s[i + len - size]
    <2> SUFFICES ASSUME NEW i \in 1 .. size PROVE SubSeq(s, first, len)[i] = s[i + len - size]
        OBVIOUS
    <2>1. i \in 1 .. len - first + 1 /\ first + i - 1 = i + len - size
        BY <1>1
    <2> QED
        BY <1>3, <2>1
<1> QED
    BY <1>0, <1>3, <1>4, <1>5 DEF len, size

\* The rows at some positions of the ring, in order and complete.
LEMMA RowsInOrder ==
    ASSUME RingInv, NEW P \in SUBSET DOMAIN ring
    PROVE  LET rows == RowsAt(P)
           IN  /\ rows \in Seq(DOMAIN records)
               /\ \A i, j \in DOMAIN rows : i < j => rows[i] < rows[j]
               /\ \A k \in P : \E i \in DOMAIN rows : rows[i] = ring[k]
               /\ \A i \in DOMAIN rows : \E k \in P : rows[i] = ring[k]
<1> DEFINE f == InOrder(P)
           size == Cardinality(P)
           rows == RowsAt(P)
<1>1. Len(ring) \in Nat /\ P \in SUBSET (1 .. Len(ring))
    BY DEF RingInv
<1>2. /\ size \in Nat /\ f \in [1 .. size -> P]
      /\ \A i, j \in 1 .. size : i < j => f[i] < f[j]
      /\ \A k \in P : \E i \in 1 .. size : f[i] = k
    BY <1>1, OrderOfPositions
<1> HIDE DEF f, size
<1>3. rows = [n \in 1 .. size |-> ring[f[n]]]
    BY DEF RowsAt, f, size
<1> HIDE DEF rows
<1>4. ASSUME NEW k \in P PROVE ring[k] \in DOMAIN records /\ ring[k] \in Int /\ k \in Int
    <2>1. ring[k] \in Ids(ring) /\ k \in DOMAIN ring
        BY DEF Ids
    <2>2. DOMAIN records = 1 .. Len(records)
        BY DEF RingInv
    <2> QED
        BY <1>1, <2>1, <2>2, RingIds
<1>5. ASSUME NEW k \in P, NEW l \in P, k < l PROVE ring[k] < ring[l]
    <2>1. ring[k] = Len(records) - Len(ring) + k /\ ring[l] = Len(records) - Len(ring) + l
        BY DEF RingInv, RingIsNewest
    <2>2. Len(records) \in Nat
        BY DEF RingInv
    <2> QED
        BY <1>1, <1>4, <1>5, <2>1, <2>2
<1>6. rows \in Seq(DOMAIN records) /\ DOMAIN rows = 1 .. size
    BY <1>2, <1>3, <1>4
<1>7. \A i, j \in DOMAIN rows : i < j => rows[i] < rows[j]
    <2> SUFFICES ASSUME NEW i \in 1 .. size, NEW j \in 1 .. size, i < j
                 PROVE  rows[i] < rows[j]
        BY <1>6
    <2>1. f[i] \in P /\ f[j] \in P /\ f[i] < f[j]
        BY <1>2
    <2>2. rows[i] = ring[f[i]] /\ rows[j] = ring[f[j]]
        BY <1>3
    <2> QED
        BY <1>5, <2>1, <2>2
<1>8. \A k \in P : \E i \in DOMAIN rows : rows[i] = ring[k]
    BY <1>2, <1>3, <1>6
<1>9. \A i \in DOMAIN rows : \E k \in P : rows[i] = ring[k]
    BY <1>2, <1>3, <1>6
<1> QED
    BY <1>6, <1>7, <1>8, <1>9 DEF rows

\* A batch is in order, starts behind the last id and leaves no match out.
LEMMA BatchIsFirst ==
    ASSUME RingInv, NEW f, NEW after \in Nat
    PROVE  LET b == Batch(f, after)
           IN  /\ b \in Seq(DOMAIN records) /\ Len(b) <= Limit
               /\ \A i, j \in DOMAIN b : i < j => b[i] < b[j]
               /\ \A i \in DOMAIN b : after < b[i]
               /\ \A i \in DOMAIN b : b[i] \in Ids(ring) /\ Matches(b[i], f)
               /\ \A id \in Ids(ring), i \in DOMAIN b :
                      after < id /\ Matches(id, f) /\ id <= b[i] => id \in Ids(b)
               /\ \A id \in Ids(ring) : after < id /\ Matches(id, f) => b # <<>>
<1> DEFINE P == {k \in DOMAIN ring : ring[k] > after /\ Matches(ring[k], f)}
           rows == RowsAt(P)
           b == Batch(f, after)
<1>1. /\ rows \in Seq(DOMAIN records)
      /\ \A i, j \in DOMAIN rows : i < j => rows[i] < rows[j]
      /\ \A k \in P : \E i \in DOMAIN rows : rows[i] = ring[k]
      /\ \A i \in DOMAIN rows : \E k \in P : rows[i] = ring[k]
    BY RowsInOrder
<1>2. b = FirstOf(rows, Limit)
    BY DEF Batch, DueAfter
<1>3. \A i \in DOMAIN rows : after < rows[i] /\ rows[i] \in Int
    <2>1. DOMAIN records = 1 .. Len(records)
        BY DEF RingInv
    <2> SUFFICES ASSUME NEW i \in DOMAIN rows PROVE after < rows[i] /\ rows[i] \in Int
        OBVIOUS
    <2>2. rows[i] \in 1 .. Len(records)
        BY <1>1, <2>1
    <2>3. rows[i] > after
        BY <1>1
    <2> QED
        BY <2>2, <2>3
<1>4. \A id \in Ids(ring) : after < id /\ Matches(id, f) => \E i \in DOMAIN rows : rows[i] = id
    <2> SUFFICES ASSUME NEW id \in Ids(ring), after < id, Matches(id, f)
                 PROVE  \E i \in DOMAIN rows : rows[i] = id
        OBVIOUS
    <2>1. PICK k \in DOMAIN ring : ring[k] = id
        BY DEF Ids
    <2>2. k \in P
        BY <2>1, RingIds DEF RingInv
    <2> QED
        BY <1>1, <2>1, <2>2
<1>0. \A i \in DOMAIN rows : rows[i] \in Ids(ring) /\ Matches(rows[i], f)
    BY <1>1 DEF Ids
<1> HIDE DEF P, rows, b
<1>5. Limit \in Nat /\ Limit # 0
    BY FeedAssumption
<1>6. /\ b \in Seq(DOMAIN records)
      /\ Len(b) = IF Len(rows) < Limit THEN Len(rows) ELSE Limit
      /\ \A i \in 1 .. Len(b) : b[i] = rows[i]
    BY <1>1, <1>2, <1>5, FirstOfKeeps
<1>7. /\ Len(rows) \in Nat /\ DOMAIN rows = 1 .. Len(rows)
      /\ DOMAIN b = 1 .. Len(b) /\ Len(b) \in Nat /\ Len(b) <= Len(rows) /\ Len(b) <= Limit
    BY <1>1, <1>5, <1>6
<1>8. \A i \in DOMAIN b : i \in DOMAIN rows /\ b[i] = rows[i]
    BY <1>6, <1>7
<1>9. ASSUME NEW id \in Ids(ring), NEW i \in DOMAIN b, after < id, Matches(id, f), id <= b[i]
      PROVE  id \in Ids(b)
    <2>1. PICK j \in DOMAIN rows : rows[j] = id
        BY <1>4, <1>9
    <2>2. ~(i < j)
        <3>1. i < j => rows[i] < rows[j]
            BY <1>1, <1>8
        <3>2. b[i] = rows[i] /\ rows[i] \in Int /\ rows[j] \in Int
            BY <1>3, <1>8
        <3> QED
            BY <1>9, <2>1, <3>1, <3>2
    <2>3. j \in DOMAIN b
        BY <1>7, <2>2
    <2> QED
        BY <1>8, <2>1, <2>3 DEF Ids
<1>10. ASSUME NEW id \in Ids(ring), after < id, Matches(id, f) PROVE b # <<>>
    <2>1. PICK j \in DOMAIN rows : rows[j] = id
        BY <1>4, <1>10
    <2>2. 1 <= Len(rows)
        BY <1>7, <2>1
    <2>3. Len(b) # 0
        BY <1>5, <1>6, <1>7, <2>2
    <2> QED
        BY <1>6, <2>3
<1> QED
    BY <1>0, <1>1, <1>3, <1>6, <1>7, <1>8, <1>9, <1>10 DEF b
-----------------------------------------------------------------------------
\* TypeOK with the fields of the stream; an answer has at most Limit rows, and a
\* thread that sends has something to send.
Streams == [at : {"closed", "waiting", "sending"}, last : 0 .. Len(records),
            batch : Seq(DOMAIN records)]
Requests == [at : {"none", "asked", "served"}, filter : Filters,
             rows : {s \in Seq(DOMAIN records) : Len(s) <= Limit}]
FeedType ==
    /\ RingInv /\ TypeOK
    /\ stream \in Streams /\ request \in [Routes -> Requests]
    /\ stream.at = "sending" => stream.batch # <<>>

LEMMA NoRequestIsOne == NoRequest \in Requests
    BY FeedAssumption DEF NoRequest, Requests

\* What the page and the stream hold stays well typed when records are added.
LEMMA HeldStays ==
    ASSUME FeedType, RingInv', Len(records) <= Len(records'), gap' \in BOOLEAN,
           UNCHANGED <<stream, sent, channel, url, request, wanted, list, turns>>
    PROVE  FeedType'
<1>1. /\ records \in Seq(Record) /\ Len(records) \in Nat /\ DOMAIN records = 1 .. Len(records)
      /\ records' \in Seq(Record) /\ Len(records') \in Nat /\ DOMAIN records' = 1 .. Len(records')
    BY DEF FeedType, RingInv
<1>2. DOMAIN records \subseteq DOMAIN records' /\ 0 .. Len(records) \subseteq 0 .. Len(records')
    BY <1>1
<1>3. \A s \in Seq(DOMAIN records) : s \in Seq(DOMAIN records')
    BY <1>2, SeqGrows
<1>4. stream' = stream /\ sent' = sent /\ channel' = channel /\ url' = url /\ request' = request
      /\ wanted' = wanted /\ list' = list /\ turns' = turns
    OBVIOUS
<1>5. Len(ring') <= RingSize /\ ring' \in Seq(DOMAIN records')
    <2>1. /\ ring' \in Seq(Nat)
          /\ Len(ring') = IF Len(records') < RingSize THEN Len(records') ELSE RingSize
        BY DEF RingInv, RingIsNewest
    <2>2. RingSize \in Nat
        BY FeedAssumption
    <2>3. Len(ring') \in Nat /\ Len(ring') <= Len(records') /\ Len(ring') <= RingSize
        BY <1>1, <2>1, <2>2
    <2>4. \A i \in 1 .. Len(ring') : ring'[i] \in DOMAIN records'
        <3> SUFFICES ASSUME NEW i \in 1 .. Len(ring') PROVE ring'[i] \in DOMAIN records'
            OBVIOUS
        <3>1. ring'[i] = Len(records') - Len(ring') + i
            BY <2>1 DEF RingInv, RingIsNewest
        <3> QED
            BY <1>1, <2>3, <3>1
    <2> QED
        BY <2>1, <2>3, <2>4
<1>6. records' \in Seq([packet : Packets, hops : HopCounts, born : HopCounts])
    BY <1>1 DEF Record
<1>7. stream' \in Streams'
    BY <1>2, <1>3, <1>4 DEF FeedType, Streams
<1>8. url' \in [filter : Filters, after : 0 .. Len(records')]
    BY <1>2, <1>4 DEF FeedType, TypeOK
<1>9. request' \in [Routes -> Requests'] /\ request' \in
          [Routes -> [at : {"none", "asked", "served"}, filter : Filters, rows : Seq(DOMAIN records')]]
    BY <1>3, <1>4 DEF FeedType, Requests
<1>10. /\ channel' \in Seq(DOMAIN records') /\ list' \in Seq(DOMAIN records')
       /\ stream'.batch \in Seq(DOMAIN records') /\ stream'.last \in 0 .. Len(records')
    BY <1>3, <1>4, <1>7 DEF FeedType, TypeOK, Streams
<1>11. sent' \subseteq DOMAIN records'
    BY <1>2, <1>4 DEF FeedType, TypeOK
<1>12. TypeOK'
    BY <1>4, <1>5, <1>6, <1>8, <1>9, <1>10, <1>11 DEF FeedType, TypeOK
<1> QED
    BY <1>4, <1>7, <1>9, <1>12 DEF FeedType

LEMMA ReportKeepsTypes ==
    ASSUME FeedType, RingInv', NEW p \in Packets, NEW hops \in HopCounts, Report(p, hops)
    PROVE  FeedType'
<1>1. records \in Seq(Record) /\ Len(records) \in Nat
    BY DEF FeedType, RingInv
<1>2. Len(records) <= Len(records')
    <2>1. CASE Duplicates(p) # {}
        <3>1. PICK id \in Duplicates(p) : records' = [records EXCEPT ![id].hops =
                          IF records[id].hops = Unknown THEN hops ELSE records[id].hops]
            BY <2>1 DEF Report
        <3>2. Len(records') = Len(records)
            BY <1>1, <3>1
        <3> QED
            BY <1>1, <3>2
    <2>2. CASE Duplicates(p) = {}
        <3>1. records' = Append(records, NewRecord(p, hops))
            BY <2>2 DEF Report
        <3>2. NewRecord(p, hops) \in Record
            BY DEF NewRecord, Record
        <3>3. Len(records') = Len(records) + 1
            BY <1>1, <3>1, <3>2
        <3> QED
            BY <1>1, <3>3
    <2> QED
        BY <2>1, <2>2
<1>3. UNCHANGED <<stream, sent, channel, url, request, wanted, list, turns>>
    BY DEF Report
<1>4. gap' \in BOOLEAN
    BY DEF Report, FeedType, TypeOK
<1> QED
    BY <1>2, <1>3, <1>4, HeldStays

LEMMA LastIdIsId ==
    ASSUME NEW n \in Nat, NEW s \in Seq(1 .. n)
    PROVE  /\ LastId(s) \in 0 .. n
           /\ \A id \in Ids(s) : id <= LastId(s)
           /\ s # <<>> => LastId(s) \in Ids(s)
<1>1. CASE s = <<>>
    BY <1>1 DEF LastId, Ids
<1>2. CASE s # <<>>
    <2> DEFINE P == Ids(s)
               f == InOrder(P)
               size == Cardinality(P)
    <2>1. P \in SUBSET (1 .. n) /\ P # {}
        BY <1>2, ElementOfSeq DEF Ids
    <2>2. /\ size \in Nat /\ f \in [1 .. size -> P]
          /\ \A i, j \in 1 .. size : i < j => f[i] < f[j]
          /\ \A k \in P : \E i \in 1 .. size : f[i] = k
        BY <2>1, OrderOfPositions
    <2> HIDE DEF P, f, size
    <2>3. 1 <= size /\ size \in 1 .. size
        <3>1. PICK i \in 1 .. size : TRUE
            BY <2>1, <2>2
        <3> QED
            BY <2>2, <3>1
    <2>4. \A k \in P : k \in Int
        BY <2>1
    <2>5. \A k \in P : k <= f[size]
        <3> SUFFICES ASSUME NEW k \in P PROVE k <= f[size]
            OBVIOUS
        <3>1. PICK i \in 1 .. size : f[i] = k
            BY <2>2
        <3>2. i < size \/ i = size
            BY <2>2
        <3>3. f[size] \in P /\ (i < size => f[i] < f[size])
            BY <2>2, <2>3
        <3> QED
            BY <2>4, <3>1, <3>2, <3>3
    <2>6. \E m \in P : \A id \in P : id <= m
        BY <2>2, <2>3, <2>5
    <2>7. LastId(s) \in P /\ \A id \in P : id <= LastId(s)
        BY <1>2, <2>6 DEF LastId, P
    <2>8. 1 .. n \subseteq 0 .. n
        OBVIOUS
    <2> QED
        BY <2>1, <2>7, <2>8 DEF P
<1> QED
    BY <1>1, <1>2
-----------------------------------------------------------------------------
\* One step per action: what each assigns is of its type.
LEMMA ConnectKeepsTypes == FeedType /\ Connect => FeedType'
<1> SUFFICES ASSUME FeedType, Connect PROVE FeedType'
    OBVIOUS
<1>1. /\ stream' = [at |-> "waiting", last |-> url.after, batch |-> <<>>] /\ sent' = {}
      /\ UNCHANGED <<records, ring, pageVars>>
    BY DEF Connect, AfterOf
<1>2. stream' \in Streams /\ Len(stream'.batch) = 0
    BY <1>1 DEF FeedType, TypeOK, Streams
<1>3. RingInv'
    BY <1>1 DEF FeedType, RingInv, RingIsNewest, OneRecordPerPacket, Ids
<1>4. TypeOK'
    BY <1>1, <1>2, FeedAssumption DEF FeedType, TypeOK, Streams, pageVars
<1> QED
    BY <1>1, <1>2, <1>3, <1>4 DEF FeedType, Streams, Requests, pageVars

LEMMA TakeKeepsTypes == FeedType /\ StreamTake => FeedType'
<1> SUFFICES ASSUME FeedType, StreamTake PROVE FeedType'
    OBVIOUS
<1> DEFINE b == Batch(url.filter, stream.last)
<1>1. /\ stream' = [at |-> "sending", last |-> stream.last, batch |-> b] /\ b # <<>>
      /\ UNCHANGED <<records, ring, sent, pageVars>>
    BY DEF StreamTake, FeedType, Streams
<1>2. stream.last \in Nat /\ RingInv
    BY DEF FeedType, TypeOK
<1>3. b \in Seq(DOMAIN records) /\ Len(b) <= Limit
    BY <1>2, BatchIsFirst
<1> HIDE DEF b
<1>4. stream' \in Streams
    BY <1>1, <1>3 DEF FeedType, Streams
<1>5. RingInv'
    BY <1>1 DEF FeedType, RingInv, RingIsNewest, OneRecordPerPacket, Ids
<1>6. TypeOK'
    BY <1>1, <1>3, <1>4 DEF FeedType, TypeOK, Streams, pageVars
<1> QED
    BY <1>1, <1>4, <1>5, <1>6 DEF FeedType, Streams, Requests, pageVars

LEMMA SendKeepsTypes == FeedType /\ StreamSend => FeedType'
<1> SUFFICES ASSUME FeedType, StreamSend PROVE FeedType'
    OBVIOUS
<1> DEFINE b == stream.batch
           id == Head(b)
<1>1. /\ channel' = Append(channel, id) /\ sent' = sent \cup {id}
      /\ stream' = [at |-> IF Len(b) = 1 THEN "waiting" ELSE "sending",
                    last |-> IF id > stream.last THEN id ELSE stream.last, batch |-> Tail(b)]
      /\ UNCHANGED <<records, ring, url, request, wanted, list, turns, gap>>
    BY DEF StreamSend
<1>2. b \in Seq(DOMAIN records) /\ b # <<>> /\ Len(b) <= Limit /\ Limit \in Nat
    BY FeedAssumption DEF StreamSend, FeedType, TypeOK, Streams
<1>3. /\ id \in DOMAIN records /\ Tail(b) \in Seq(DOMAIN records)
      /\ Len(Tail(b)) = Len(b) - 1 /\ Len(b) \in Nat
    <2>1. \A D : \A q \in Seq(D) : q # <<>> =>
              /\ Head(q) \in D /\ Tail(q) \in Seq(D) /\ Len(Tail(q)) = Len(q) - 1
        BY HeadTailProperties
    <2>2. Len(b) \in Nat
        BY <1>2
    <2> QED
        BY <1>2, <2>1, <2>2
<1>4. DOMAIN records = 1 .. Len(records) /\ Len(records) \in Nat
    BY DEF FeedType, RingInv
<1> HIDE DEF b, id
<1>5. stream' \in Streams
    BY <1>1, <1>3, <1>4 DEF FeedType, TypeOK, Streams
<1>6. channel' \in Seq(DOMAIN records') /\ sent' \subseteq DOMAIN records'
    BY <1>1, <1>3 DEF FeedType, TypeOK
<1>7. RingInv'
    BY <1>1 DEF FeedType, RingInv, RingIsNewest, OneRecordPerPacket, Ids
<1>8. Len(stream'.batch) <= Limit
    BY <1>1, <1>2, <1>3
<1>9. stream'.at = "sending" => stream'.batch # <<>>
    <2>0. Len(<<>>) = 0
        OBVIOUS
    <2>1. Tail(b) = <<>> => Len(Tail(b)) = 0
        BY <2>0, Zenon
    <2>2. Len(b) # 1 => Tail(b) # <<>>
        BY <1>3, <2>1
    <2> QED
        BY <1>1, <2>2
<1>10. TypeOK'
    BY <1>1, <1>5, <1>6, <1>8 DEF FeedType, TypeOK, Streams
<1>11. stream' \in Streams'
    BY <1>1, <1>5 DEF Streams
<1> QED
    BY <1>1, <1>7, <1>9, <1>10, <1>11 DEF FeedType, Requests

LEMMA ApplyKeepsTypes == ASSUME FeedType, NEW f \in Filters, Apply(f) PROVE FeedType'
<1>1. /\ turns < MaxTurns /\ turns' = turns + 1 /\ wanted' = f
      /\ url' = [filter |-> f, after |-> LastId(list)]
      /\ stream' = Closed /\ channel' = <<>> /\ sent' = {}
      /\ request' = IF request["announces"].at # "none" THEN request
                    ELSE [request EXCEPT !["announces"] = Asked(f)]
      /\ gap' = (gap \/ request'["announces"] # Asked(f))
      /\ UNCHANGED <<records, ring, list>>
    BY DEF Apply
<1>0. Asked(f) \in Requests
    BY NoRequestIsOne DEF Asked, Requests
<1>2. DOMAIN records = 1 .. Len(records) /\ Len(records) \in Nat
    BY DEF FeedType, RingInv
<1>3. LastId(list) \in 0 .. Len(records)
    BY <1>2, LastIdIsId DEF FeedType, TypeOK
<1>4. request' \in [Routes -> Requests] /\ gap' \in BOOLEAN
    <2>1. request \in [Routes -> Requests]
        BY DEF FeedType
    <2>2. [request EXCEPT !["announces"] = Asked(f)] \in [Routes -> Requests]
        BY <1>0, <2>1 DEF Routes
    <2>3. (gap \/ request'["announces"] # Asked(f)) \in BOOLEAN
        OBVIOUS
    <2> QED
        BY <1>1, <2>1, <2>2, <2>3, Zenon
<1>5. stream' \in Streams /\ Len(stream'.batch) = 0
    BY <1>1, <1>2 DEF Closed, Streams
<1>6. RingInv'
    BY <1>1 DEF FeedType, RingInv, RingIsNewest, OneRecordPerPacket, Ids
<1>7. turns' \in 0 .. MaxTurns
    BY <1>1, FeedAssumption DEF FeedType, TypeOK
<1>8. TypeOK'
    <2>1. url' \in [filter : Filters, after : 0 .. Len(records)]
        BY <1>1, <1>3
    <2>2. /\ channel' \in Seq(DOMAIN records) /\ sent' = {} /\ wanted' \in Filters
          /\ UNCHANGED <<records, ring, list>>
        BY <1>1
    <2>3. stream'.at \in {"closed", "waiting", "sending"} /\ stream'.last \in 0 .. Len(records)
          /\ stream'.batch \in Seq(DOMAIN records) /\ Len(stream'.batch) <= Limit
        BY <1>5, FeedAssumption DEF Streams
    <2> QED
        BY <1>4, <1>7, <2>1, <2>2, <2>3 DEF FeedType, TypeOK, Requests
<1> QED
    BY <1>1, <1>4, <1>5, <1>6, <1>8 DEF FeedType, Closed, Streams, Requests

LEMMA RequestsKeepTypes ==
    ASSUME FeedType, request' \in [Routes -> Requests], gap' \in BOOLEAN,
           turns' \in 0 .. MaxTurns, list' \in Seq(DOMAIN records), Len(list') <= Limit,
           UNCHANGED <<records, ring, stream, sent, channel, url, wanted>>
    PROVE  FeedType'
<1>1. RingInv'
    BY DEF FeedType, RingInv, RingIsNewest, OneRecordPerPacket, Ids
<1>2. TypeOK'
    BY DEF FeedType, TypeOK, Requests
<1> QED
    BY <1>1, <1>2 DEF FeedType, Streams, Requests

LEMMA PollKeepsTypes == FeedType /\ PollStatus => FeedType'
<1> SUFFICES ASSUME FeedType, PollStatus PROVE FeedType'
    OBVIOUS
<1>1. request \in [Routes -> Requests] /\ list \in Seq(DOMAIN records) /\ Len(list) <= Limit
      /\ gap \in BOOLEAN
    BY DEF FeedType, TypeOK, Requests
<1>2. [NoRequest EXCEPT !.at = "asked"] \in Requests
    BY NoRequestIsOne DEF Requests
<1>3. request' \in [Routes -> Requests]
    BY <1>1, <1>2 DEF PollStatus, Routes
<1>4. turns' \in 0 .. MaxTurns
    BY FeedAssumption DEF PollStatus, FeedType, TypeOK
<1> QED
    BY <1>1, <1>3, <1>4, RequestsKeepTypes DEF PollStatus

LEMMA ServeKeepsTypes == ASSUME FeedType, NEW r \in Routes, Serve(r) PROVE FeedType'
<1>1. request \in [Routes -> Requests] /\ list \in Seq(DOMAIN records) /\ Len(list) <= Limit
      /\ gap \in BOOLEAN /\ turns \in 0 .. MaxTurns
    BY DEF FeedType, TypeOK, Requests
<1> DEFINE q == request[r]
           rows == Snapshot(q.filter)
<1>2. rows \in Seq(DOMAIN records) /\ Len(rows) <= Limit
    <2> DEFINE P == {k \in DOMAIN ring : Matches(ring[k], q.filter)}
    <2>1. RowsAt(P) \in Seq(DOMAIN records)
        BY RowsInOrder DEF FeedType
    <2>2. Limit \in Nat \ {0}
        BY FeedAssumption
    <2>3. rows = LastOf(RowsAt(P), Limit)
        BY DEF Snapshot, MatchesFilter
    <2> HIDE DEF P, rows
    <2> QED
        BY <2>1, <2>2, <2>3, LastOfKeeps
<1>3. request' = [request EXCEPT ![r] = [q EXCEPT !.at = "served", !.rows = rows]]
    BY <1>1 DEF Serve
<1> HIDE DEF q, rows
<1>4. [q EXCEPT !.at = "served", !.rows = rows] \in Requests
    BY <1>1, <1>2 DEF q, Requests
<1>5. request' \in [Routes -> Requests]
    BY <1>1, <1>3, <1>4
<1> QED
    BY <1>1, <1>5, RequestsKeepTypes DEF Serve

LEMMA FailKeepsTypes == FeedType /\ RequestFails => FeedType'
<1> SUFFICES ASSUME FeedType, RequestFails PROVE FeedType'
    OBVIOUS
<1>1. request \in [Routes -> Requests] /\ list \in Seq(DOMAIN records) /\ Len(list) <= Limit
    BY DEF FeedType, TypeOK, Requests
<1>2. request' \in [Routes -> Requests]
    BY <1>1, NoRequestIsOne DEF RequestFails, Routes
<1>3. turns' \in 0 .. MaxTurns
    BY FeedAssumption DEF RequestFails, FeedType, TypeOK
<1> QED
    BY <1>1, <1>2, <1>3, RequestsKeepTypes DEF RequestFails


LEMMA ArriveKeepsTypes == ASSUME FeedType, NEW r \in Routes, Arrive(r) PROVE FeedType'
<1>1. request \in [Routes -> Requests] /\ turns \in 0 .. MaxTurns
    BY DEF FeedType, TypeOK
<1>2. list' \in Seq(DOMAIN records) /\ Len(list') <= Limit
    BY <1>1 DEF Arrive, Requests
<1>3. request' \in [Routes -> Requests]
    BY <1>1, NoRequestIsOne DEF Arrive
<1>4. gap' \in BOOLEAN /\ turns' = turns
    BY DEF Arrive
<1> QED
    BY <1>1, <1>2, <1>3, <1>4, RequestsKeepTypes DEF Arrive

\* Only the stream and what is on its way change.
LEMMA StreamKeepsTypes ==
    ASSUME FeedType, stream' \in Streams, Len(stream'.batch) <= Limit,
           stream'.at = "sending" => stream'.batch # <<>>,
           channel' \in Seq(DOMAIN records), list' \in Seq(DOMAIN records), Len(list') <= Limit,
           sent' \subseteq DOMAIN records, turns' \in 0 .. MaxTurns, gap' \in BOOLEAN,
           UNCHANGED <<records, ring, url, request, wanted>>
    PROVE  FeedType'
<1>1. RingInv'
    BY DEF FeedType, RingInv, RingIsNewest, OneRecordPerPacket, Ids
<1>2. TypeOK'
    BY DEF FeedType, TypeOK, Streams
<1> QED
    BY <1>1, <1>2 DEF FeedType, Streams, Requests

LEMMA LossKeepsTypes == FeedType /\ Disconnect => FeedType'
<1> SUFFICES ASSUME FeedType, Disconnect PROVE FeedType'
    OBVIOUS
<1>1. Closed \in Streams /\ Len(Closed.batch) <= Limit /\ Closed.at # "sending"
    BY FeedAssumption DEF Closed, Streams, FeedType, RingInv
<1>2. turns' \in 0 .. MaxTurns
    BY FeedAssumption DEF Disconnect, FeedType, TypeOK
<1>3. list \in Seq(DOMAIN records) /\ Len(list) <= Limit /\ gap' \in BOOLEAN
    BY DEF Disconnect, FeedType, TypeOK
<1> QED
    BY <1>1, <1>2, <1>3, StreamKeepsTypes DEF Disconnect

LEMMA DispatchKeepsTypes == FeedType /\ Dispatch => FeedType'
<1> SUFFICES ASSUME FeedType, Dispatch PROVE FeedType'
    OBVIOUS
<1>1. channel \in Seq(DOMAIN records) /\ channel # <<>>
      /\ list \in Seq(DOMAIN records) /\ Len(list) <= Limit /\ Limit \in Nat \ {0}
    BY FeedAssumption DEF Dispatch, FeedType, TypeOK
<1>2. Head(channel) \in DOMAIN records /\ Tail(channel) \in Seq(DOMAIN records)
    BY <1>1
<1>3. list' \in Seq(DOMAIN records) /\ Len(list') <= Limit
    <2> DEFINE a == Append(list, Head(channel))
    <2>1. a \in Seq(DOMAIN records)
        BY <1>1, <1>2
    <2>2. list' = list \/ list' = LastOf(a, Limit)
        BY DEF Dispatch, WithRow
    <2> HIDE DEF a
    <2>3. /\ LastOf(a, Limit) \in Seq(DOMAIN records)
          /\ Len(LastOf(a, Limit)) = IF Len(a) < Limit THEN Len(a) ELSE Limit
        BY <1>1, <2>1, LastOfKeeps
    <2>4. Len(a) \in Nat
        BY <2>1
    <2> QED
        BY <1>1, <2>2, <2>3, <2>4
<1>4. /\ stream \in Streams /\ Len(stream.batch) <= Limit
      /\ (stream.at = "sending" => stream.batch # <<>>)
      /\ sent \subseteq DOMAIN records /\ turns \in 0 .. MaxTurns /\ gap \in BOOLEAN
    BY DEF FeedType, TypeOK
<1> QED
    BY <1>2, <1>3, <1>4, StreamKeepsTypes DEF Dispatch

LEMMA FeedTypeStep == FeedType /\ [Next]_vars => FeedType'
<1> SUFFICES ASSUME FeedType, [Next]_vars PROVE FeedType'
    OBVIOUS
<1>1. CASE UNCHANGED vars
    BY <1>1 DEF vars, pageVars, FeedType, TypeOK, Streams, Requests, RingInv, RingIsNewest,
                OneRecordPerPacket, Ids
<1>2. RingInv'
    BY RingStep DEF FeedType
<1>3. ASSUME NEW p \in Packets, NEW hops \in HopCounts, Report(p, hops) PROVE FeedType'
    BY <1>2, <1>3, ReportKeepsTypes
<1>4. ASSUME NEW f \in Filters, Apply(f) PROVE FeedType'
    BY <1>4, ApplyKeepsTypes
<1>5. ASSUME NEW r \in Routes, Serve(r) \/ Arrive(r) PROVE FeedType'
    BY <1>5, ServeKeepsTypes, ArriveKeepsTypes
<1> QED
    BY <1>1, <1>3, <1>4, <1>5, ConnectKeepsTypes, TakeKeepsTypes, SendKeepsTypes, LossKeepsTypes,
       DispatchKeepsTypes, PollKeepsTypes, FailKeepsTypes DEF Next, StreamStep

LEMMA FeedTypeAlways == Spec => []FeedType
<1>1. Init => FeedType
    <2> SUFFICES ASSUME Init PROVE FeedType
        OBVIOUS
    <2>1. RingInv
        BY FeedAssumption DEF Init, RingInv, RingIsNewest, OneRecordPerPacket, Ids
    <2>2. stream \in Streams /\ stream.at = "closed" /\ Len(stream.batch) = 0
        BY DEF Init, Closed, Streams
    <2>3. request \in [Routes -> Requests]
        BY NoRequestIsOne DEF Init
    <2>4. TypeOK
        <3>1. /\ records = <<>> /\ ring = <<>> /\ list = <<>> /\ channel = <<>> /\ stream.batch = <<>>
              /\ stream.last = 0 /\ sent = {} /\ url = [filter |-> 0, after |-> 0]
              /\ wanted = 0 /\ gap = FALSE /\ turns = 0 /\ Len(records) = 0 /\ Len(ring) = 0
              /\ Len(list) = 0
            BY DEF Init, Closed
        <3>2. /\ records \in Seq([packet : Packets, hops : HopCounts, born : HopCounts])
              /\ \A s \in {ring, stream.batch, channel, list} : s \in Seq(DOMAIN records)
            BY <3>1
        <3>3. /\ wanted \in Filters /\ url \in [filter : Filters, after : 0 .. Len(records)]
              /\ Len(ring) <= RingSize /\ Len(list) <= Limit /\ turns \in 0 .. MaxTurns
            BY <3>1, FeedAssumption
        <3>4. request \in [Routes -> [at : {"none", "asked", "served"}, filter : Filters,
                                      rows : Seq(DOMAIN records)]]
            BY <2>3 DEF Requests
        <3>5. Len(stream.batch) <= Limit
            BY <2>2, FeedAssumption
        <3>6. stream.last \in 0 .. Len(records)
            BY <3>1
        <3> QED
            BY <2>2, <3>1, <3>2, <3>3, <3>4, <3>5, <3>6 DEF TypeOK
    <2> QED
        BY <2>1, <2>2, <2>3, <2>4 DEF FeedType
<1> QED
    BY <1>1, FeedTypeStep, PTL DEF Spec

\* Rows, batches and answers are ids of records, and no longer than their limits.
THEOREM FeedTypeCorrect == Spec => []TypeOK
<1>1. FeedType => TypeOK
    BY DEF FeedType
<1> QED
    BY <1>1, FeedTypeAlways, PTL
-----------------------------------------------------------------------------
\* A report fills in a hop count once; the one a record was born with stays.
BornStays == \A id \in DOMAIN records : records[id].born # Unknown => records[id].hops = records[id].born

\* Of the matches between last and a row of the batch none is missing in the batch:
\* the ids come in order, and what the filter let through it lets through since.
BatchInOrder ==
    /\ \A i, j \in DOMAIN stream.batch : i < j => stream.batch[i] < stream.batch[j]
    /\ \A i \in DOMAIN stream.batch : stream.last < stream.batch[i]
BatchComplete ==
    stream.at # "closed" =>
        \A id \in Ids(ring), i \in DOMAIN stream.batch :
            stream.last < id /\ id <= stream.batch[i] /\ HopsMatch(records[id].born, url.filter)
                => id \in Ids(stream.batch)
StreamInv == FeedType /\ BornStays /\ StreamSkipsNothing /\ BatchInOrder /\ BatchComplete

\* What matched when it was reported matches.
LEMMA BornMatches ==
    ASSUME BornStays, NEW id \in DOMAIN records, NEW f, HopsMatch(records[id].born, f)
    PROVE  Matches(id, f)
    BY DEF BornStays, HopsMatch, Matches

\* Ids are integers.
LEMMA Numbers ==
    ASSUME FeedType
    PROVE  /\ Len(records) \in Nat /\ DOMAIN records = 1 .. Len(records)
           /\ \A id \in DOMAIN records : id \in Int
           /\ stream.last \in Int /\ stream.last <= Len(records)
           /\ DOMAIN stream.batch = 1 .. Len(stream.batch) /\ Len(stream.batch) \in Nat
           /\ \A i \in DOMAIN stream.batch : stream.batch[i] \in DOMAIN records
           /\ Ids(ring) \subseteq DOMAIN records
<1>1. Len(records) \in Nat /\ DOMAIN records = 1 .. Len(records)
    BY DEF FeedType, RingInv
<1>2. stream.last \in 0 .. Len(records) /\ stream.batch \in Seq(DOMAIN records)
    BY DEF FeedType, Streams
<1>3. \A i \in 1 .. Len(stream.batch) : stream.batch[i] \in DOMAIN records
    BY <1>2, ElementOfSeq
<1>4. Ids(ring) \subseteq DOMAIN records
    BY RingIds DEF FeedType
<1> QED
    BY <1>1, <1>2, <1>3, <1>4

\* What a report may do to the records: fill in a hop count, or add one record.
Filled ==
    /\ Len(records') = Len(records) /\ ring' = ring
    /\ \A id \in DOMAIN records :
           /\ records'[id].born = records[id].born
           /\ records[id].hops # Unknown => records'[id].hops = records[id].hops
Added ==
    /\ Len(records') = Len(records) + 1
    /\ \A id \in DOMAIN records : records'[id] = records[id]
    /\ records'[Len(records) + 1].hops = records'[Len(records) + 1].born
    /\ \A id \in Ids(ring') : id = Len(records) + 1 \/ id \in Ids(ring)

LEMMA ReportIsReported ==
    ASSUME FeedType, FeedType', NEW p \in Packets, NEW hops \in HopCounts, Report(p, hops)
    PROVE  Filled \/ Added
<1>1. /\ records \in Seq(Record) /\ Len(records) \in Nat /\ DOMAIN records = 1 .. Len(records)
      /\ \A id \in DOMAIN records : records[id] \in Record
    BY ElementOfSeq DEF FeedType, RingInv
<1>2. CASE Duplicates(p) # {}
    <2>1. PICK id \in Duplicates(p) : records' = [records EXCEPT ![id].hops =
                      IF records[id].hops = Unknown THEN hops ELSE records[id].hops]
        BY <1>2 DEF Report
    <2>2. Len(records') = Len(records) /\ ring' = ring
        BY <1>1, <1>2, <2>1 DEF Report
    <2>3. ASSUME NEW x \in DOMAIN records
          PROVE  /\ records'[x].born = records[x].born
                 /\ records[x].hops # Unknown => records'[x].hops = records[x].hops
        BY <1>1, <2>1 DEF Record
    <2> QED
        BY <2>2, <2>3 DEF Filled
<1>3. CASE Duplicates(p) = {}
    <2>1. records' = Append(records, NewRecord(p, hops))
        BY <1>3 DEF Report
    <2>2. NewRecord(p, hops) \in Record /\ NewRecord(p, hops).hops = NewRecord(p, hops).born
        BY DEF NewRecord, Record
    <2>3. /\ Len(records') = Len(records) + 1
          /\ \A id \in DOMAIN records : records'[id] = records[id]
          /\ records'[Len(records) + 1] = NewRecord(p, hops)
        BY <1>1, <2>1, <2>2
    <2>4. ASSUME NEW id \in Ids(ring') PROVE id = Len(records) + 1 \/ id \in Ids(ring)
        <3>1. /\ Len(ring) = IF Len(records) < RingSize THEN Len(records) ELSE RingSize
              /\ Len(ring') = IF Len(records') < RingSize THEN Len(records') ELSE RingSize
              /\ DOMAIN ring = 1 .. Len(ring) /\ DOMAIN ring' = 1 .. Len(ring')
              /\ Len(ring) \in Nat /\ Len(ring') \in Nat /\ RingSize \in Nat
            BY FeedAssumption DEF FeedType, RingInv, RingIsNewest
        <3>2. PICK j \in DOMAIN ring' : ring'[j] = id
            BY DEF Ids
        <3>3. id = Len(records) + 1 - Len(ring') + j
            BY <2>3, <3>2 DEF FeedType, RingInv, RingIsNewest
        <3> DEFINE k == id - Len(records) + Len(ring)
        <3>4. id # Len(records) + 1 => k \in 1 .. Len(ring)
            BY <1>1, <2>3, <3>1, <3>2, <3>3
        <3>5. ASSUME k \in 1 .. Len(ring) PROVE id \in Ids(ring)
            <4>1. ring[k] = Len(records) - Len(ring) + k
                BY <3>1, <3>5 DEF FeedType, RingInv, RingIsNewest
            <4>0. id \in Int
                <5>1. j \in 1 .. Len(ring') /\ Len(ring') \in Nat
                    BY <3>1, <3>2
                <5> QED
                    BY <1>1, <3>3, <5>1
            <4>2. ring[k] = id
                <5>1. Len(ring) \in Nat
                    BY <3>1
                <5> QED
                    BY <1>1, <4>0, <4>1, <5>1
            <4> QED
                BY <3>1, <3>5, <4>2 DEF Ids
        <3> QED
            BY <3>4, <3>5
    <2> QED
        BY <2>2, <2>3, <2>4 DEF Added
<1> QED
    BY <1>2, <1>3

LEMMA ReportKeepsStream ==
    ASSUME StreamInv, FeedType', Filled \/ Added, UNCHANGED <<stream, sent, url>>
    PROVE  StreamInv'
<1>1. /\ Len(records) \in Nat /\ DOMAIN records = 1 .. Len(records)
      /\ \A id \in DOMAIN records : id \in Int
      /\ stream.last \in Int /\ stream.last <= Len(records)
      /\ \A i \in DOMAIN stream.batch : stream.batch[i] \in DOMAIN records
      /\ Ids(ring) \subseteq DOMAIN records
    BY Numbers DEF StreamInv
<1>2. Len(records') \in Nat /\ DOMAIN records' = 1 .. Len(records')
    BY DEF FeedType, RingInv
<1>0. ASSUME NEW id \in Ids(ring') PROVE id \in DOMAIN records' /\ id \in Int
    <2>1. ring' \in Seq(DOMAIN records')
        BY DEF FeedType, TypeOK
    <2>2. Ids(ring') \subseteq DOMAIN records'
        BY <2>1, ElementOfSeq DEF Ids
    <2> QED
        BY <1>2, <2>2
<1>3. ASSUME NEW id \in Ids(ring'), id <= Len(records)
      PROVE  id \in Ids(ring) /\ records'[id].born = records[id].born
    <2>1. CASE Filled
        <3>1. id \in Ids(ring)
            BY <2>1 DEF Filled, Ids
        <3> QED
            BY <1>1, <2>1, <3>1 DEF Filled
    <2>2. CASE Added
        <3>1. id # Len(records) + 1
            BY <1>0, <1>1, <1>3
        <3>2. id \in Ids(ring)
            BY <2>2, <3>1 DEF Added
        <3> QED
            BY <1>1, <2>2, <3>2 DEF Added
    <2> QED
        BY <2>1, <2>2
<1>4. BornStays'
    <2>1. CASE Filled
        BY <1>1, <1>2, <2>1 DEF Filled, StreamInv, BornStays
    <2>2. CASE Added
        <3>1. \A id \in DOMAIN records' : id \in DOMAIN records \/ id = Len(records) + 1
            BY <1>1, <1>2, <2>2 DEF Added
        <3>2. /\ \A id \in DOMAIN records : records'[id] = records[id]
              /\ records'[Len(records) + 1].hops = records'[Len(records) + 1].born
            BY <2>2 DEF Added
        <3> QED
            BY <3>1, <3>2 DEF StreamInv, BornStays
    <2> QED
        BY <2>1, <2>2
<1>5. StreamSkipsNothing'
    <2> SUFFICES ASSUME stream.at # "closed", NEW id \in Ids(ring'), url.after < id,
                        id <= stream.last, HopsMatch(records'[id].born, url.filter)
                 PROVE  id \in sent
        BY DEF StreamSkipsNothing
    <2>2. id <= Len(records)
        BY <1>0, <1>1
    <2> QED
        BY <1>3, <2>2 DEF StreamInv, StreamSkipsNothing
<1>6. ASSUME stream.at # "closed", NEW id \in Ids(ring'), NEW i \in DOMAIN stream.batch,
             stream.last < id, id <= stream.batch[i], HopsMatch(records'[id].born, url.filter)
      PROVE  id \in Ids(stream.batch)
    <2>1. id \in Int /\ stream.batch[i] \in Int /\ stream.batch[i] <= Len(records)
        BY <1>0, <1>1
    <2>2. id <= Len(records)
        BY <1>1, <1>6, <2>1
    <2> QED
        BY <1>3, <1>6, <2>2 DEF StreamInv, BatchComplete
<1> QED
    <2>1. BatchInOrder'
        BY DEF StreamInv, BatchInOrder
    <2>2. BatchComplete'
        <3>1. stream' = stream /\ url' = url
            OBVIOUS
        <3> QED
            BY <1>6, <3>1 DEF BatchComplete
    <2> QED
        BY <1>4, <1>5, <2>1, <2>2 DEF StreamInv

\* A connection that starts has sent nothing and skipped nothing.
LEMMA FreshStream ==
    ASSUME StreamInv, FeedType', UNCHANGED <<records, ring>>, stream'.batch = <<>>,
           stream'.at = "closed" \/ stream'.last = url'.after
    PROVE  StreamInv'
<1>1. BornStays'
    BY DEF StreamInv, BornStays
<1>2. DOMAIN stream'.batch = {} /\ Ids(stream'.batch) = {}
    BY DEF Ids
<1>3. StreamSkipsNothing'
    <2> SUFFICES ASSUME stream'.at # "closed", NEW id \in Ids(ring'), url'.after < id, id <= stream'.last
                 PROVE  FALSE
        BY DEF StreamSkipsNothing
    <2>1. stream'.last = url'.after
        OBVIOUS
    <2>2. id \in DOMAIN records /\ Len(records) \in Nat /\ DOMAIN records = 1 .. Len(records)
        BY RingIds DEF StreamInv, FeedType, RingInv, Ids
    <2>3. url'.after \in 0 .. Len(records')
        BY DEF FeedType, TypeOK
    <2> QED
        BY <2>1, <2>2, <2>3
<1> QED
    BY <1>1, <1>2, <1>3 DEF StreamInv, BatchInOrder, BatchComplete

LEMMA TakeKeepsStream == ASSUME StreamInv, FeedType', StreamTake PROVE StreamInv'
<1> DEFINE b == Batch(url.filter, stream.last)
<1>1. /\ stream' = [at |-> "sending", last |-> stream.last, batch |-> b]
      /\ stream.at = "waiting" /\ UNCHANGED <<records, ring, sent, url>>
    BY DEF StreamTake, StreamInv, FeedType, Streams, pageVars
<1>2. stream.last \in Nat /\ RingInv
    BY DEF StreamInv, FeedType, TypeOK
<1>3. /\ \A i, j \in DOMAIN b : i < j => b[i] < b[j]
      /\ \A i \in DOMAIN b : stream.last < b[i]
      /\ \A id \in Ids(ring), i \in DOMAIN b :
             stream.last < id /\ Matches(id, url.filter) /\ id <= b[i] => id \in Ids(b)
    BY <1>2, BatchIsFirst
<1> HIDE DEF b
<1>4. BornStays' /\ StreamSkipsNothing'
    BY <1>1 DEF StreamInv, BornStays, StreamSkipsNothing, Ids
<1>5. ASSUME NEW id \in Ids(ring), HopsMatch(records[id].born, url.filter)
      PROVE  Matches(id, url.filter)
    BY <1>2, <1>5, RingIds, BornMatches DEF StreamInv
<1>6. ASSUME NEW id \in Ids(ring'), NEW i \in DOMAIN b, stream.last < id, id <= b[i],
             HopsMatch(records'[id].born, url.filter)
      PROVE  id \in Ids(b)
    <2>1. id \in Ids(ring) /\ records' = records
        BY <1>1 DEF Ids
    <2> QED
        BY <1>3, <1>5, <1>6, <2>1
<1> QED
    <2>1. BatchInOrder'
        BY <1>1, <1>3 DEF BatchInOrder
    <2>2. stream'.batch = b /\ stream'.last = stream.last /\ url' = url
        BY <1>1
    <2>3. BatchComplete'
        BY <1>6, <2>2 DEF BatchComplete
    <2> QED
        BY <1>4, <2>1, <2>3 DEF StreamInv

LEMMA SendKeepsStream == ASSUME StreamInv, FeedType', StreamSend PROVE StreamInv'
<1> DEFINE b == stream.batch
           id == Head(b)
           rest == Tail(b)
<1>1. /\ stream.at = "sending" /\ sent' = sent \cup {id}
      /\ stream'.last = (IF id > stream.last THEN id ELSE stream.last)
      /\ stream'.batch = rest /\ UNCHANGED <<records, ring, url>>
    BY DEF StreamSend
<1>2. /\ Len(records) \in Nat /\ DOMAIN records = 1 .. Len(records)
      /\ \A x \in DOMAIN records : x \in Int
      /\ stream.last \in Int /\ DOMAIN b = 1 .. Len(b) /\ Len(b) \in Nat
      /\ \A i \in DOMAIN b : b[i] \in DOMAIN records
      /\ Ids(ring) \subseteq DOMAIN records
    BY Numbers DEF StreamInv
<1>3. b \in Seq(DOMAIN records) /\ b # <<>>
    BY <1>1 DEF StreamInv, FeedType, Streams
<1>4. /\ id = b[1] /\ 1 \in DOMAIN b /\ DOMAIN rest = 1 .. Len(b) - 1
      /\ \A i \in DOMAIN rest : i + 1 \in DOMAIN b /\ rest[i] = b[i + 1]
    <2>1. Len(b) \in Nat /\ Len(b) # 0
        BY <1>3
    <2>2. rest \in Seq(DOMAIN records) /\ Len(rest) = Len(b) - 1
          /\ \A i \in 1 .. Len(rest) : rest[i] = b[i + 1]
        <3>1. \A D : \A q \in Seq(D) : q # <<>> =>
                  /\ Tail(q) \in Seq(D) /\ Len(Tail(q)) = Len(q) - 1
                  /\ \A i \in 1 .. Len(Tail(q)) : Tail(q)[i] = q[i + 1]
            BY HeadTailProperties
        <3> QED
            BY <1>3, <3>1
    <2>3. DOMAIN rest = 1 .. Len(rest)
        BY <2>2
    <2> QED
        BY <1>2, <2>1, <2>2, <2>3
<1>5. /\ \A i, j \in DOMAIN b : i < j => b[i] < b[j]
      /\ \A i \in DOMAIN b : stream.last < b[i]
      /\ \A x \in Ids(ring), i \in DOMAIN b :
             /\ stream.last < x /\ x <= b[i] /\ HopsMatch(records[x].born, url.filter) => x \in Ids(b)
    BY <1>1 DEF StreamInv, BatchInOrder, BatchComplete
<1> HIDE DEF b, id, rest
<1>6. stream.last < id /\ id \in Int /\ stream'.last = id
    BY <1>1, <1>2, <1>4, <1>5
<1>7. BornStays'
    BY <1>1 DEF StreamInv, BornStays
<1>8. ASSUME NEW x \in Ids(b), x <= id PROVE x = id
    <2>1. PICK i \in DOMAIN b : b[i] = x
        BY DEF Ids
    <2>2. 1 < i => id < x
        BY <1>4, <1>5, <2>1
    <2> QED
        BY <1>2, <1>4, <1>6, <1>8, <2>1, <2>2
<1>9. StreamSkipsNothing'
    <2> SUFFICES ASSUME NEW x \in Ids(ring'), url.after < x, x <= id,
                        HopsMatch(records[x].born, url.filter)
                 PROVE  x \in sent'
        BY <1>1, <1>6 DEF StreamSkipsNothing
    <2>1. x \in Ids(ring) /\ x \in Int
        BY <1>1, <1>2 DEF Ids
    <2>2. CASE x <= stream.last
        BY <1>1, <2>1, <2>2 DEF StreamInv, StreamSkipsNothing
    <2>3. CASE stream.last < x
        BY <1>1, <1>4, <1>5, <1>8, <2>1, <2>3
    <2> QED
        BY <1>2, <2>1, <2>2, <2>3
<1>10. ASSUME NEW i \in DOMAIN rest, NEW j \in DOMAIN rest, i < j PROVE rest[i] < rest[j]
    <2>1. i + 1 \in DOMAIN b /\ j + 1 \in DOMAIN b /\ i + 1 < j + 1
        BY <1>2, <1>4, <1>10
    <2> QED
        BY <1>4, <1>5, <2>1
<1>11. ASSUME NEW i \in DOMAIN rest PROVE id < rest[i]
    <2>1. i + 1 \in DOMAIN b /\ 1 < i + 1
        BY <1>2, <1>4
    <2> QED
        BY <1>4, <1>5, <2>1
<1>12. ASSUME NEW x \in Ids(ring'), NEW i \in DOMAIN rest, id < x, x <= rest[i],
              HopsMatch(records[x].born, url.filter)
       PROVE  x \in Ids(rest)
    <2>1. x \in Ids(ring) /\ x \in Int
        BY <1>1, <1>2 DEF Ids
    <2>2. stream.last < x
        BY <1>2, <1>6, <1>12, <2>1
    <2>3. x \in Ids(b)
        BY <1>4, <1>5, <1>12, <2>1, <2>2
    <2>4. PICK k \in DOMAIN b : b[k] = x
        BY <2>3 DEF Ids
    <2>5. k # 1 /\ k \in 1 .. Len(b)
        BY <1>2, <1>4, <1>6, <1>12, <2>1, <2>4
    <2>6. k - 1 \in DOMAIN rest /\ (k - 1) + 1 = k
        BY <1>2, <1>4, <2>5
    <2>7. rest[k - 1] = x
        BY <1>4, <2>4, <2>6
    <2> QED
        BY <2>6, <2>7 DEF Ids
<1> QED
    <2>1. records' = records /\ url' = url /\ stream'.batch = rest /\ stream'.last = id
        BY <1>1, <1>6
    <2>2. BatchInOrder'
        BY <1>10, <1>11, <2>1 DEF BatchInOrder
    <2>3. BatchComplete'
        BY <1>12, <2>1 DEF BatchComplete
    <2> QED
        BY <1>7, <1>9, <2>2, <2>3 DEF StreamInv

\* Neither the stream nor what it reads changes.
LEMMA StreamStays ==
    ASSUME StreamInv, FeedType', UNCHANGED <<records, ring, stream, sent, url>>
    PROVE  StreamInv'
    BY DEF StreamInv, BornStays, StreamSkipsNothing, BatchInOrder, BatchComplete, Ids

LEMMA StreamNext == StreamInv /\ [Next]_vars => StreamInv'
<1> SUFFICES ASSUME StreamInv, [Next]_vars PROVE StreamInv'
    OBVIOUS
<1>0. FeedType /\ FeedType'
    BY FeedTypeStep DEF StreamInv
<1>1. CASE UNCHANGED vars
    BY <1>0, <1>1, StreamStays DEF vars, pageVars
<1>2. ASSUME NEW p \in Packets, NEW hops \in HopCounts, Report(p, hops) PROVE StreamInv'
    <2>1. UNCHANGED <<stream, sent, url>>
        BY <1>2 DEF Report, pageVars
    <2> QED
        BY <1>0, <1>2, <2>1, ReportIsReported, ReportKeepsStream
<1>3. CASE Connect
    BY <1>0, <1>3, FreshStream DEF Connect, AfterOf, pageVars
<1>4. CASE Disconnect
    BY <1>0, <1>4, FreshStream DEF Disconnect, Closed
<1>5. ASSUME NEW f \in Filters, Apply(f) PROVE StreamInv'
    BY <1>0, <1>5, FreshStream DEF Apply, Closed
<1>6. CASE PollStatus \/ RequestFails \/ Dispatch
    BY <1>0, <1>6, StreamStays DEF PollStatus, RequestFails, Dispatch
<1>7. ASSUME NEW r \in Routes, Serve(r) \/ Arrive(r) PROVE StreamInv'
    BY <1>0, <1>7, StreamStays DEF Serve, Arrive
<1> QED
    BY <1>0, <1>1, <1>2, <1>3, <1>4, <1>5, <1>6, <1>7, TakeKeepsStream, SendKeepsStream
       DEF Next, StreamStep

\* A thread of _serve_announce_stream that takes the oldest matches in batches
\* leaves out none that matched when it was reported, up to the id it has
\* reached, whatever is reported or merged while it sends.
THEOREM StreamComplete == Spec => []StreamSkipsNothing
<1>1. Init /\ FeedType => StreamInv
    <2> SUFFICES ASSUME Init, FeedType PROVE StreamInv
        OBVIOUS
    <2>1. /\ DOMAIN records = {} /\ stream.at = "closed" /\ stream.batch = <<>>
          /\ DOMAIN stream.batch = {}
        BY DEF Init, Closed
    <2> QED
        BY <2>1 DEF StreamInv, BornStays, StreamSkipsNothing, BatchInOrder, BatchComplete
<1>2. StreamInv => StreamSkipsNothing
    BY DEF StreamInv
<1> QED
    BY <1>1, <1>2, StreamNext, FeedTypeAlways, PTL DEF Spec
-----------------------------------------------------------------------------
Ascends(s) == \A i, j \in DOMAIN s : i < j => s[i] < s[j]

\* The ids of a sequence, and what its ends have to do with them.
LEMMA SeqIds ==
    ASSUME NEW n \in Nat, NEW s \in Seq(1 .. n)
    PROVE  /\ DOMAIN s = 1 .. Len(s) /\ Len(s) \in Nat
           /\ \A id \in Ids(s) : id \in 1 .. n /\ id \in Int
           /\ \A i \in DOMAIN s : s[i] \in Ids(s) /\ s[i] \in Int
           /\ s = <<>> <=> Ids(s) = {}
<1>1. DOMAIN s = 1 .. Len(s) /\ Len(s) \in Nat
    OBVIOUS
<1>2. \A i \in DOMAIN s : s[i] \in 1 .. n
    BY <1>1, ElementOfSeq
<1>3. \A id \in Ids(s) : id \in 1 .. n /\ id \in Int
    BY <1>2 DEF Ids
<1>4. \A i \in DOMAIN s : s[i] \in Ids(s)
    BY DEF Ids
<1>5. s # <<>> => Ids(s) # {}
    <2>1. s # <<>> => 1 \in DOMAIN s
        BY <1>1
    <2> QED
        BY <1>4, <2>1
<1>6. s = <<>> => Ids(s) = {}
    BY DEF Ids
<1> QED
    BY <1>1, <1>2, <1>3, <1>4, <1>5, <1>6

LEMMA AppendIds ==
    ASSUME NEW n \in Nat, NEW s \in Seq(1 .. n), NEW id \in 1 .. n
    PROVE  /\ Ids(Append(s, id)) = Ids(s) \cup {id}
           /\ Ascends(s) /\ (\A e \in Ids(s) : e < id) => Ascends(Append(s, id))
<1> DEFINE a == Append(s, id)
<1>1. /\ DOMAIN s = 1 .. Len(s) /\ Len(s) \in Nat /\ DOMAIN a = 1 .. Len(s) + 1
      /\ \A i \in 1 .. Len(s) : a[i] = s[i]
      /\ a[Len(s) + 1] = id
    OBVIOUS
<1>2. \A i \in DOMAIN a : i \in DOMAIN s \/ i = Len(s) + 1
    BY <1>1
<1>3. DOMAIN s \subseteq DOMAIN a /\ Len(s) + 1 \in DOMAIN a
    BY <1>1
<1> HIDE DEF a
<1>4. Ids(a) = Ids(s) \cup {id}
    BY <1>1, <1>2, <1>3 DEF Ids
<1>5. ASSUME Ascends(s), \A e \in Ids(s) : e < id PROVE Ascends(a)
    <2> SUFFICES ASSUME NEW i \in DOMAIN a, NEW j \in DOMAIN a, i < j PROVE a[i] < a[j]
        BY DEF Ascends
    <2>1. i \in DOMAIN s
        BY <1>1
    <2>2. CASE j \in DOMAIN s
        BY <1>1, <1>5, <2>1, <2>2 DEF Ascends
    <2>3. CASE j = Len(s) + 1
        BY <1>1, <1>5, <2>1, <2>3 DEF Ids
    <2> QED
        BY <1>2, <2>2, <2>3
<1> QED
    BY <1>4, <1>5 DEF a

LEMMA TailIds ==
    ASSUME NEW n \in Nat, NEW s \in Seq(1 .. n), s # <<>>
    PROVE  /\ Head(s) \in 1 .. n /\ Tail(s) \in Seq(1 .. n)
           /\ Len(s) = 1 => Tail(s) = <<>>
           /\ Ids(s) = {Head(s)} \cup Ids(Tail(s))
           /\ Ascends(s) => Ascends(Tail(s)) /\ \A e \in Ids(Tail(s)) : Head(s) < e
<1> DEFINE t == Tail(s)
<1>1. /\ Head(s) = s[1] /\ Head(s) \in 1 .. n /\ t \in Seq(1 .. n)
      /\ Len(s) \in Nat /\ DOMAIN s = 1 .. Len(s) /\ 1 \in DOMAIN s
      /\ DOMAIN t = 1 .. Len(s) - 1 /\ Len(t) = Len(s) - 1
      /\ \A i \in 1 .. Len(s) - 1 : t[i] = s[i + 1]
    OBVIOUS
<1> HIDE DEF t
<1>0. Len(s) = 1 => t = <<>>
    <2>1. Len(s) = 1 => Len(t) = 0
        BY <1>1
    <2> QED
        BY <1>1, <2>1
<1>2. \A i \in DOMAIN t : i + 1 \in DOMAIN s /\ t[i] = s[i + 1] /\ 1 < i + 1
    BY <1>1
<1>3. \A i \in DOMAIN s : i = 1 \/ (i - 1 \in DOMAIN t /\ t[i - 1] = s[i])
    BY <1>1
<1>4. Ids(s) = {Head(s)} \cup Ids(t)
    <2>1. ASSUME NEW i \in DOMAIN s PROVE s[i] = Head(s) \/ s[i] \in Ids(t)
        BY <1>1, <1>3 DEF Ids
    <2>2. ASSUME NEW i \in DOMAIN t PROVE t[i] \in Ids(s)
        BY <1>2 DEF Ids
    <2>3. Head(s) \in Ids(s)
        BY <1>1 DEF Ids
    <2>4. Ids(s) \subseteq {Head(s)} \cup Ids(t)
        BY <2>1 DEF Ids
    <2>5. Ids(t) \subseteq Ids(s)
        BY <2>2 DEF Ids
    <2> QED
        BY <2>3, <2>4, <2>5
<1>5. ASSUME Ascends(s) PROVE Ascends(t) /\ \A e \in Ids(t) : Head(s) < e
    <2>1. \A i \in DOMAIN t : Head(s) < t[i]
        BY <1>1, <1>2, <1>5 DEF Ascends
    <2>2. ASSUME NEW i \in DOMAIN t, NEW j \in DOMAIN t, i < j PROVE t[i] < t[j]
        <3>1. i + 1 < j + 1
            BY <1>1, <2>2
        <3> QED
            BY <1>2, <1>5, <3>1 DEF Ascends
    <2> QED
        BY <2>1, <2>2 DEF Ascends, Ids
<1> QED
    BY <1>0, <1>1, <1>4, <1>5 DEF t

\* Cut to the limit, a list with one more row at its end lacks its first row or none.
LEMMA PushedRows ==
    ASSUME NEW n \in Nat, NEW s \in Seq(1 .. n), NEW id \in 1 .. n, Len(s) <= Limit
    PROVE  LET r == LastOf(Append(s, id), Limit)
               d == IF Len(s) < Limit THEN 0 ELSE 1
           IN  /\ r \in Seq(1 .. n) /\ Len(r) = Len(s) + 1 - d
               /\ r[Len(r)] = id
               /\ \A i \in 1 .. Len(s) - d : r[i] = s[i + d]
<1> DEFINE a == Append(s, id)
           r == LastOf(a, Limit)
           d == IF Len(s) < Limit THEN 0 ELSE 1
<1>1. /\ a \in Seq(1 .. n) /\ Len(a) = Len(s) + 1 /\ Len(s) \in Nat /\ a[Len(s) + 1] = id
      /\ \A i \in 1 .. Len(s) : a[i] = s[i]
    OBVIOUS
<1>2. Limit \in Nat \ {0}
    BY FeedAssumption
<1> HIDE DEF a
<1>0. \A S : a \in Seq(S) =>
          /\ r \in Seq(S) /\ Len(r) = IF Len(a) < Limit THEN Len(a) ELSE Limit
          /\ \A i \in 1 .. Len(r) : r[i] = a[i + Len(a) - Len(r)]
    BY <1>2, LastOfKeeps
<1> HIDE DEF r
<1>3. /\ r \in Seq(1 .. n) /\ Len(r) = IF Len(a) < Limit THEN Len(a) ELSE Limit
      /\ \A i \in 1 .. Len(r) : r[i] = a[i + Len(a) - Len(r)]
    BY <1>0, <1>1
<1>4. Len(r) = Len(s) + 1 - d /\ d \in {0, 1} /\ (d = 1 => Len(s) = Limit) /\ 1 <= Len(r)
    <2>1. Len(a) = Len(s) + 1 /\ Len(s) \in Nat /\ Len(s) <= Limit
        BY <1>1
    <2>2. Len(r) = IF Len(a) < Limit THEN Len(a) ELSE Limit
        BY <1>3
    <2>3. d = IF Len(s) < Limit THEN 0 ELSE 1
        OBVIOUS
    <2> HIDE DEF d
    <2>4. CASE Len(s) < Limit
        <3>1. d = 0 /\ Len(r) = Len(s) + 1
            BY <1>2, <2>1, <2>2, <2>3, <2>4
        <3> QED
            BY <2>1, <3>1
    <2>5. CASE Len(s) = Limit
        <3>1. d = 1 /\ Len(r) = Limit
            BY <1>2, <2>1, <2>2, <2>3, <2>5
        <3> QED
            BY <1>2, <2>1, <2>5, <3>1
    <2> QED
        BY <1>2, <2>1, <2>4, <2>5
<1> HIDE DEF d
<1>5. r[Len(r)] = id
    <2>1. Len(r) \in 1 .. Len(r) /\ Len(r) + Len(a) - Len(r) = Len(s) + 1
        BY <1>1, <1>4
    <2> QED
        BY <1>1, <1>3, <2>1
<1>6. ASSUME NEW i \in 1 .. Len(s) - d PROVE r[i] = s[i + d]
    <2>1. i \in 1 .. Len(r) /\ i + Len(a) - Len(r) = i + d /\ i + d \in 1 .. Len(s)
        BY <1>1, <1>4
    <2> QED
        BY <1>1, <1>3, <2>1
<1> QED
    BY <1>3, <1>4, <1>5, <1>6 DEF a, r, d
-----------------------------------------------------------------------------
\* The page and the stream hold ids of records.
LEMMA Held ==
    ASSUME FeedType
    PROVE  /\ Len(records) \in Nat /\ DOMAIN records = 1 .. Len(records)
           /\ \A s \in {channel, stream.batch, list} : s \in Seq(1 .. Len(records))
           /\ \A id \in Ids(channel) \cup Ids(stream.batch) \cup Ids(list) \cup Ids(ring) \cup sent :
                  id \in DOMAIN records /\ id \in Int
           /\ url.after \in Int /\ url.after <= Len(records)
           /\ stream.last \in Int /\ stream.last <= Len(records)
<1>1. Len(records) \in Nat /\ DOMAIN records = 1 .. Len(records)
    BY DEF FeedType, RingInv
<1>2. \A s \in {channel, stream.batch, list} : s \in Seq(1 .. Len(records))
    BY <1>1 DEF FeedType, TypeOK
<1>3. ASSUME NEW s \in {channel, stream.batch, list}
      PROVE  \A id \in Ids(s) : id \in 1 .. Len(records) /\ id \in Int
    <2>1. s \in Seq(1 .. Len(records))
        BY <1>2
    <2> QED
        BY <1>1, <2>1, SeqIds
<1>4. \A id \in Ids(ring) \cup sent : id \in DOMAIN records /\ id \in Int
    BY <1>1, Numbers DEF FeedType, TypeOK
<1>5. url.after \in 0 .. Len(records) /\ stream.last \in 0 .. Len(records)
    BY DEF FeedType, TypeOK
<1> QED
    BY <1>1, <1>2, <1>3, <1>4, <1>5

\* The ring holds what is newer than one of its rows.
LEMMA RingUp ==
    ASSUME FeedType, NEW id \in Ids(ring), NEW k \in DOMAIN records, id <= k
    PROVE  k \in Ids(ring)
<1> DEFINE n == Len(records)
           m == Len(ring)
<1>1. /\ n \in Nat /\ m \in Nat /\ DOMAIN records = 1 .. n /\ DOMAIN ring = 1 .. m
      /\ \A i \in 1 .. m : ring[i] = n - m + i
    BY DEF FeedType, RingInv, RingIsNewest
<1>2. PICK i \in 1 .. m : ring[i] = id
    BY <1>1 DEF Ids
<1> HIDE DEF n, m
<1>3. id = n - m + i /\ k \in 1 .. n
    BY <1>1, <1>2
<1>4. k - n + m \in 1 .. m
    BY <1>1, <1>2, <1>3
<1>5. ring[k - n + m] = k
    BY <1>1, <1>3, <1>4
<1> QED
    BY <1>1, <1>4, <1>5 DEF Ids

\* s is full with rows newer than id.
Older(id, s) == Len(s) = Limit /\ \A e \in Ids(s) : id < e

\* A snapshot is in order, and leaves a match of the ring out only if it is full.
LEMMA SnapshotRows ==
    ASSUME FeedType, NEW f
    PROVE  LET s == Snapshot(f)
           IN  /\ s \in Seq(1 .. Len(records)) /\ Ascends(s) /\ Len(s) <= Limit
               /\ \A e \in Ids(s) : e \in Ids(ring) /\ Matches(e, f)
               /\ \A id \in Ids(ring) : Matches(id, f) => id \in Ids(s) \/ Older(id, s)
<1> DEFINE P == {k \in DOMAIN ring : Matches(ring[k], f)}
           a == RowsAt(P)
           s == Snapshot(f)
           n == Len(records)
<1>1. /\ a \in Seq(DOMAIN records)
      /\ \A i, j \in DOMAIN a : i < j => a[i] < a[j]
      /\ \A k \in P : \E i \in DOMAIN a : a[i] = ring[k]
      /\ \A i \in DOMAIN a : \E k \in P : a[i] = ring[k]
    BY RowsInOrder DEF FeedType
<1>2. \A i \in DOMAIN a : a[i] \in Ids(ring) /\ Matches(a[i], f)
    BY <1>1 DEF Ids
<1>3. ASSUME NEW id \in Ids(ring), Matches(id, f) PROVE \E i \in DOMAIN a : a[i] = id
    <2>1. PICK k \in DOMAIN ring : ring[k] = id
        BY DEF Ids
    <2>2. k \in P
        BY <1>3, <2>1
    <2> QED
        BY <1>1, <2>1, <2>2
<1>4. s = LastOf(a, Limit)
    BY DEF Snapshot, MatchesFilter
<1> HIDE DEF P, a, s
<1>5. n \in Nat /\ DOMAIN records = 1 .. n /\ Limit \in Nat \ {0}
    BY FeedAssumption DEF FeedType, RingInv
<1>6. /\ s \in Seq(DOMAIN records)
      /\ Len(s) = IF Len(a) < Limit THEN Len(a) ELSE Limit
      /\ \A i \in 1 .. Len(s) : s[i] = a[i + Len(a) - Len(s)]
    BY <1>1, <1>4, <1>5, LastOfKeeps
<1>7. /\ Len(a) \in Nat /\ DOMAIN a = 1 .. Len(a)
      /\ DOMAIN s = 1 .. Len(s) /\ Len(s) \in Nat /\ Len(s) <= Len(a) /\ Len(s) <= Limit
      /\ Len(s) # Limit => Len(s) = Len(a)
    BY <1>1, <1>5, <1>6
<1> DEFINE la == Len(a)
           ls == Len(s)
           d == la - ls
<1>0. la \in Nat /\ ls \in Nat /\ ls <= la /\ (ls # Limit => ls = la)
    BY <1>7
<1>8. /\ d \in Nat /\ Len(a) = Len(s) + d
      /\ \A i \in DOMAIN s : i + d \in DOMAIN a /\ s[i] = a[i + d] /\ i \in Int
    <2>1. d \in Nat /\ Len(a) = Len(s) + d
        <3> HIDE DEF la, ls
        <3>1. d \in Nat /\ la = ls + d
            BY <1>0
        <3> QED
            BY <3>1 DEF la, ls
    <2>2. ASSUME NEW i \in DOMAIN s PROVE i + d \in DOMAIN a /\ s[i] = a[i + d] /\ i \in Int
        <3>0. i \in 1 .. ls
            BY <1>7
        <3> HIDE DEF la, ls
        <3>1. i + la - ls = i + d /\ i + d \in 1 .. la /\ i \in Int
            BY <1>0, <3>0
        <3> QED
            BY <1>6, <1>7, <3>0, <3>1 DEF la, ls
    <2> QED
        BY <2>1, <2>2
<1> HIDE DEF d, la, ls
<1>13. d \in Nat /\ la = ls + d /\ DOMAIN a = 1 .. la /\ DOMAIN s = 1 .. ls
    BY <1>7, <1>8 DEF la, ls
<1>9. Ascends(s)
    <2> SUFFICES ASSUME NEW i \in DOMAIN s, NEW j \in DOMAIN s, i < j PROVE s[i] < s[j]
        BY DEF Ascends
    <2>1. i + d < j + d
        BY <1>8
    <2> QED
        BY <1>1, <1>8, <2>1
<1>10. \A e \in Ids(s) : e \in Ids(ring) /\ Matches(e, f)
    BY <1>2, <1>8 DEF Ids
<1>11. ASSUME NEW id \in Ids(ring), Matches(id, f), id \notin Ids(s) PROVE Older(id, s)
    <2>1. PICK i \in DOMAIN a : a[i] = id
        BY <1>3, <1>11
    <2>2. ~(d < i)
        <3>1. ASSUME d < i PROVE id \in Ids(s)
            <4>1. i - d \in DOMAIN s /\ (i - d) + d = i
                BY <1>0, <1>13, <3>1
            <4>2. s[i - d] = id
                BY <1>8, <2>1, <4>1
            <4> QED
                BY <4>1, <4>2 DEF Ids
        <3> QED
            BY <1>11, <3>1
    <2>5. i \in Int /\ 1 <= i /\ i <= d
        BY <1>0, <1>13, <2>2
    <2>3. Len(s) = Limit
        <3>1. ls # la
            BY <1>0, <1>13, <2>5
        <3> QED
            BY <1>0, <3>1 DEF ls
    <2>4. ASSUME NEW k \in DOMAIN s PROVE id < s[k]
        <3>1. i < k + d
            BY <1>0, <1>13, <2>5
        <3> QED
            BY <1>1, <1>8, <2>1, <3>1
    <2> QED
        BY <2>3, <2>4 DEF Older, Ids
<1>12. s \in Seq(1 .. n)
    BY <1>5, <1>6
<1> QED
    BY <1>7, <1>9, <1>10, <1>11, <1>12 DEF s

\* NoLateMatch, of any filter.
NoLate(f) == \A id \in DOMAIN records : Matches(id, f) => HopsMatch(records[id].born, f)

\* A report makes no row stop matching, and one that makes none match late
\* leaves every filter's matches as they were.
LEMMA ReportMatches ==
    ASSUME StreamInv, Filled \/ Added, FeedType', NEW f
    PROVE  /\ \A id \in DOMAIN records : id \in DOMAIN records' /\ (Matches(id, f) => Matches(id, f)')
           /\ NoLate(f)' => NoLate(f) /\ \A id \in DOMAIN records : Matches(id, f)' => Matches(id, f)
<1>1. /\ Len(records) \in Nat /\ DOMAIN records = 1 .. Len(records) /\ FeedType /\ BornStays
      /\ Len(records') \in Nat /\ DOMAIN records' = 1 .. Len(records')
    BY DEF StreamInv, FeedType, RingInv
<1>2. ASSUME NEW id \in DOMAIN records
      PROVE  /\ id \in DOMAIN records' /\ (Matches(id, f) => Matches(id, f)')
             /\ records'[id].born = records[id].born
    <2>1. CASE Filled
        <3>1. id \in DOMAIN records' /\ records'[id].born = records[id].born
            BY <1>1, <2>1 DEF Filled
        <3>2. records[id].hops # Unknown => records'[id].hops = records[id].hops
            BY <2>1 DEF Filled
        <3> QED
            BY <3>1, <3>2 DEF Matches, HopsMatch
    <2>2. CASE Added
        <3>1. id \in DOMAIN records' /\ records'[id] = records[id]
            BY <1>1, <2>2 DEF Added
        <3> QED
            BY <3>1 DEF Matches
    <2> QED
        BY <2>1, <2>2
<1>3. ASSUME NoLate(f)', NEW id \in DOMAIN records, Matches(id, f)'
      PROVE  HopsMatch(records[id].born, f) /\ Matches(id, f)
    <2>1. id \in DOMAIN records' /\ records'[id].born = records[id].born
        BY <1>2
    <2>2. HopsMatch(records'[id].born, f)
        BY <1>3, <2>1 DEF NoLate
    <2> QED
        BY <1>1, <2>1, <2>2, BornMatches
<1> QED
    BY <1>2, <1>3 DEF NoLate

\* What is sent on a connection: matches, in order and behind where it started;
\* what is dispatched of them comes before what is not.
FlowInv ==
    /\ url.filter = wanted
    /\ Ascends(channel) /\ Ids(channel) \subseteq sent
    /\ \A s \in sent \ Ids(channel), c \in Ids(channel) : s < c
    /\ \A s \in sent : url.after < s /\ s <= stream.last
    /\ \A s \in sent \cup Ids(stream.batch) : Matches(s, url.filter)
    /\ stream.at # "closed" => url.after <= stream.last
    /\ stream.at = "closed" => channel = <<>> /\ sent = {}
    /\ stream.at # "sending" => stream.batch = <<>>

\* Nothing is sent or to be sent.
LEMMA FreshFlow ==
    ASSUME url'.filter = wanted', channel' = <<>>, sent' = {}, stream'.batch = <<>>,
           stream'.at # "closed" => url'.after <= stream'.last
    PROVE  FlowInv'
<1>1. DOMAIN channel' = {} /\ Ids(channel') = {} /\ Ids(stream'.batch) = {}
    BY DEF Ids
<1> QED
    BY <1>1 DEF FlowInv, Ascends

LEMMA FlowStays ==
    ASSUME StreamInv, FlowInv, UNCHANGED <<stream, sent, channel, url, wanted>>,
           \A id \in DOMAIN records : Matches(id, wanted) => Matches(id, wanted)'
    PROVE  FlowInv'
<1>1. \A s \in sent \cup Ids(stream.batch) : s \in DOMAIN records
    BY Held DEF StreamInv
<1>2. ASSUME NEW s \in sent \cup Ids(stream.batch) PROVE Matches(s, url.filter)'
    BY <1>1 DEF FlowInv
<1>3. \A s \in sent' \cup Ids(stream'.batch) : Matches(s, url.filter)'
    <2>1. sent' = sent /\ Ids(stream'.batch) = Ids(stream.batch)
        BY DEF Ids
    <2> QED
        BY <1>2, <2>1
<1>4. Ascends(channel') /\ Ids(channel') = Ids(channel)
    BY DEF FlowInv, Ascends, Ids
<1> QED
    BY <1>3, <1>4 DEF FlowInv

LEMMA FlowTake ==
    ASSUME StreamInv, FlowInv, StreamTake
    PROVE  FlowInv'
<1> DEFINE b == Batch(url.filter, stream.last)
<1>1. /\ stream' = [at |-> "sending", last |-> stream.last, batch |-> b]
      /\ stream.at = "waiting" /\ UNCHANGED <<records, sent, channel, url, wanted>>
    BY DEF StreamTake, StreamInv, FeedType, Streams, pageVars
<1>2. stream.last \in Nat /\ RingInv
    BY DEF StreamInv, FeedType, TypeOK
<1>3. \A i \in DOMAIN b : Matches(b[i], url.filter)
    BY <1>2, BatchIsFirst
<1> HIDE DEF b
<1>4. \A s \in Ids(stream'.batch) : Matches(s, url.filter)'
    <2>1. stream'.batch = b /\ url' = url /\ records' = records
        BY <1>1
    <2> QED
        BY <1>3, <2>1 DEF Ids, Matches
<1>5. \A s \in sent' : Matches(s, url.filter)'
    BY <1>1 DEF FlowInv, Matches
<1>6. Ascends(channel') /\ Ids(channel') = Ids(channel)
    BY <1>1 DEF FlowInv, Ascends, Ids
<1> QED
    BY <1>1, <1>4, <1>5, <1>6 DEF FlowInv

\* The first of a batch is newer than what was sent; it is moved to the channel.
LEMMA SendMoves ==
    ASSUME StreamInv, StreamSend
    PROVE  LET id == Head(stream.batch)
           IN  /\ id \in Ids(stream.batch) /\ stream.last < id
               /\ Ids(stream.batch) = {id} \cup Ids(stream'.batch)
               /\ Ids(channel') = Ids(channel) \cup {id}
               /\ Ascends(channel) /\ (\A e \in Ids(channel) : e < id) => Ascends(channel')
               /\ sent' = sent \cup {id} /\ stream'.last = id /\ stream'.at # "closed"
               /\ stream'.at # "sending" => stream'.batch = <<>>
               /\ \A k \in Ids(ring) : stream.last < k /\ k <= id
                      /\ HopsMatch(records[k].born, url.filter) => k \in Ids(stream.batch)
               /\ UNCHANGED <<records, ring, url, request, wanted, list, turns, gap>>
<1> DEFINE b == stream.batch
           id == Head(b)
           n == Len(records)
<1>1. /\ channel' = Append(channel, id) /\ sent' = sent \cup {id} /\ stream.at = "sending"
      /\ stream' = [at |-> IF Len(b) = 1 THEN "waiting" ELSE "sending",
                    last |-> IF id > stream.last THEN id ELSE stream.last, batch |-> Tail(b)]
      /\ UNCHANGED <<records, ring, url, request, wanted, list, turns, gap>>
    BY DEF StreamSend
<1>2. n \in Nat /\ DOMAIN records = 1 .. n /\ b \in Seq(1 .. n) /\ channel \in Seq(1 .. n)
      /\ stream.last \in Int
    BY Held DEF StreamInv
<1>3. b # <<>>
    BY <1>1 DEF StreamInv, FeedType
<1>4. /\ id \in 1 .. n /\ Tail(b) \in Seq(1 .. n) /\ Ids(b) = {id} \cup Ids(Tail(b))
    BY <1>2, <1>3, TailIds
<1>5. Ids(channel') = Ids(channel) \cup {id}
      /\ (Ascends(channel) /\ (\A e \in Ids(channel) : e < id) => Ascends(channel'))
    BY <1>1, <1>2, <1>4, AppendIds
<1>6. 1 \in DOMAIN b /\ id = b[1] /\ Len(b) \in Nat
    BY <1>2, <1>3
<1>7. stream.last < id
    BY <1>6 DEF StreamInv, BatchInOrder
<1>8. stream'.at # "sending" => stream'.batch = <<>>
    <2>1. Len(b) = 1 => Tail(b) = <<>>
        BY <1>2, <1>3, TailIds
    <2> HIDE DEF b
    <2> QED
        BY <1>1, <2>1
<1>9. \A k \in Ids(ring) : stream.last < k /\ k <= id /\ HopsMatch(records[k].born, url.filter)
          => k \in Ids(b)
    BY <1>1, <1>6 DEF StreamInv, BatchComplete
<1> HIDE DEF b, id, n
<1>10. id > stream.last
    BY <1>2, <1>4, <1>7
<1>11. stream'.last = id /\ stream'.at # "closed" /\ stream'.batch = Tail(b)
    BY <1>1, <1>10
<1>12. id \in Ids(b) /\ Ids(b) = {id} \cup Ids(stream'.batch)
    BY <1>4, <1>11
<1> QED
    BY <1>1, <1>5, <1>7, <1>8, <1>9, <1>11, <1>12 DEF b, id

LEMMA FlowSend ==
    ASSUME StreamInv, FlowInv, StreamSend
    PROVE  FlowInv'
<1> DEFINE id == Head(stream.batch)
<1>1. /\ id \in Ids(stream.batch) /\ stream.last < id
      /\ Ids(stream.batch) = {id} \cup Ids(stream'.batch)
      /\ Ids(channel') = Ids(channel) \cup {id}
      /\ Ascends(channel) /\ (\A e \in Ids(channel) : e < id) => Ascends(channel')
      /\ sent' = sent \cup {id} /\ stream'.last = id /\ stream'.at # "closed"
      /\ stream'.at # "sending" => stream'.batch = <<>>
      /\ UNCHANGED <<records, url, wanted>>
    BY SendMoves
<1> HIDE DEF id
<1>2. /\ \A s \in Ids(stream.batch) \cup sent : s \in Int
      /\ url.after \in Int /\ stream.last \in Int
    BY Held DEF StreamInv
<1>3. id \in Int /\ \A s \in sent : s < id /\ url.after < s
    BY <1>1, <1>2 DEF FlowInv
<1>4. url.after < id
    BY <1>1, <1>2, <1>3 DEF FlowInv
<1>5. Ascends(channel') /\ Ids(channel') \subseteq sent'
    BY <1>1, <1>3 DEF FlowInv
<1>6. \A s \in sent' \ Ids(channel'), c \in Ids(channel') : s < c
    BY <1>1, <1>3 DEF FlowInv
<1>7. \A s \in sent' : url'.after < s /\ s <= stream'.last
    BY <1>1, <1>2, <1>3, <1>4
<1>8. \A s \in sent' \cup Ids(stream'.batch) : Matches(s, url.filter)'
    BY <1>1 DEF FlowInv, Matches
<1>9. url'.after <= stream'.last
    BY <1>1, <1>2, <1>3, <1>4
<1> QED
    BY <1>1, <1>5, <1>6, <1>7, <1>8, <1>9 DEF FlowInv

\* The first of the channel is the oldest there, and newer than what was dispatched.
LEMMA DispatchMoves ==
    ASSUME StreamInv, FlowInv, Dispatch
    PROVE  LET h == Head(channel)
           IN  /\ h \in Ids(channel) /\ Ids(channel) = {h} \cup Ids(channel')
               /\ Ascends(channel') /\ h \notin Ids(channel')
               /\ \A c \in Ids(channel') : h < c
               /\ list' = WithRow(list, h) /\ stream.at # "closed"
               /\ UNCHANGED <<records, ring, stream, sent, url, request, wanted, turns, gap>>
<1> DEFINE h == Head(channel)
           n == Len(records)
<1>1. /\ channel # <<>> /\ channel' = Tail(channel) /\ list' = WithRow(list, h)
      /\ UNCHANGED <<records, ring, stream, sent, url, request, wanted, turns, gap>>
    BY DEF Dispatch
<1>2. n \in Nat /\ channel \in Seq(1 .. n)
    BY Held DEF StreamInv
<1>3. /\ h \in 1 .. n /\ Ids(channel) = {h} \cup Ids(channel')
      /\ Ascends(channel') /\ \A e \in Ids(channel') : h < e
    BY <1>1, <1>2, TailIds DEF FlowInv
<1>4. h \notin Ids(channel') /\ h \in Ids(channel)
    BY <1>2, <1>3
<1> QED
    BY <1>1, <1>3, <1>4 DEF FlowInv

LEMMA FlowDispatch ==
    ASSUME StreamInv, FlowInv, Dispatch
    PROVE  FlowInv'
<1> DEFINE h == Head(channel)
<1>1. /\ h \in Ids(channel) /\ Ids(channel) = {h} \cup Ids(channel')
      /\ Ascends(channel') /\ h \notin Ids(channel')
      /\ \A c \in Ids(channel') : h < c
      /\ stream.at # "closed"
      /\ UNCHANGED <<records, stream, sent, url, wanted>>
    BY DispatchMoves
<1> HIDE DEF h
<1>2. \A s \in sent' \ Ids(channel'), c \in Ids(channel') : s < c
    BY <1>1 DEF FlowInv
<1>3. \A s \in sent' \cup Ids(stream'.batch) : Matches(s, url.filter)'
    BY <1>1 DEF FlowInv, Matches
<1>4. Ids(channel') \subseteq sent'
    BY <1>1 DEF FlowInv
<1> QED
    BY <1>1, <1>2, <1>3, <1>4 DEF FlowInv
-----------------------------------------------------------------------------
LEMMA FlowNext == StreamInv /\ FlowInv /\ [Next]_vars => FlowInv'
<1> SUFFICES ASSUME StreamInv, FlowInv, [Next]_vars PROVE FlowInv'
    OBVIOUS
<1>0. FeedType /\ FeedType'
    BY FeedTypeStep DEF StreamInv
<1>1. ASSUME UNCHANGED <<records, stream, sent, channel, url, wanted>> PROVE FlowInv'
    BY <1>1, FlowStays DEF Matches
<1>2. CASE UNCHANGED vars
    BY <1>1, <1>2 DEF vars, pageVars
<1>3. ASSUME NEW p \in Packets, NEW hops \in HopCounts, Report(p, hops) PROVE FlowInv'
    <2>1. UNCHANGED <<stream, sent, channel, url, wanted>>
        BY <1>3 DEF Report
    <2>2. \A id \in DOMAIN records : Matches(id, wanted) => Matches(id, wanted)'
        BY <1>0, <1>3, <2>1, ReportIsReported, ReportMatches
    <2> QED
        BY <2>1, <2>2, FlowStays
<1>4. CASE Connect
    <2>1. /\ stream' = [at |-> "waiting", last |-> url.after, batch |-> <<>>] /\ sent' = {}
          /\ channel' = channel /\ url' = url /\ wanted' = wanted /\ stream.at = "closed"
        BY <1>4 DEF Connect, AfterOf, pageVars
    <2>2. channel = <<>> /\ url.filter = wanted /\ url.after <= url.after
        BY <1>0, <2>1, Held DEF FlowInv
    <2> QED
        BY <2>1, <2>2, FreshFlow
<1>5. CASE Disconnect
    <2>1. /\ stream' = Closed /\ sent' = {} /\ channel' = <<>> /\ url' = url /\ wanted' = wanted
        BY <1>5 DEF Disconnect
    <2> QED
        BY <2>1, FreshFlow DEF Closed, FlowInv
<1>6. ASSUME NEW f \in Filters, Apply(f) PROVE FlowInv'
    <2>1. /\ stream' = Closed /\ sent' = {} /\ channel' = <<>> /\ url'.filter = f /\ wanted' = f
        BY <1>6 DEF Apply
    <2> QED
        BY <2>1, FreshFlow DEF Closed
<1>7. CASE PollStatus \/ RequestFails
    BY <1>1, <1>7 DEF PollStatus, RequestFails
<1>8. ASSUME NEW r \in Routes, Serve(r) \/ Arrive(r) PROVE FlowInv'
    BY <1>1, <1>8 DEF Serve, Arrive
<1> QED
    BY <1>2, <1>3, <1>4, <1>5, <1>6, <1>7, <1>8, FlowTake, FlowSend, FlowDispatch DEF Next, StreamStep
-----------------------------------------------------------------------------
\* What was a snapshot leaves no match out below its last row, later ones apart.
IsAnswer(s, f) ==
    /\ Ascends(s)
    /\ \A e \in Ids(s) : Matches(e, f)
    /\ NoLate(f) => \A id \in Ids(ring), e \in Ids(s) :
           Matches(id, f) /\ id < e => id \in Ids(s) \/ Older(id, s)

AnswerInv ==
    \A r \in Routes : request[r].at = "served" => IsAnswer(request[r].rows, request[r].filter)

LEMMA AnswerRows ==
    ASSUME FeedType, NEW r \in Routes
    PROVE  /\ request[r].rows \in Seq(1 .. Len(records)) /\ Len(request[r].rows) <= Limit
           /\ \A e \in Ids(request[r].rows) : e \in DOMAIN records /\ e \in Int
<1>1. Len(records) \in Nat /\ DOMAIN records = 1 .. Len(records)
    BY Held
<1>2. request[r].rows \in Seq(1 .. Len(records)) /\ Len(request[r].rows) <= Limit
    BY <1>1 DEF FeedType, Requests
<1> QED
    BY <1>1, <1>2, SeqIds

\* A new record comes behind every answer there is.
LEMMA AnswerReported ==
    ASSUME StreamInv, FeedType', Filled \/ Added, NEW s \in Seq(1 .. Len(records)), NEW f,
           IsAnswer(s, f)
    PROVE  IsAnswer(s, f)'
<1>1. /\ Len(records) \in Nat /\ DOMAIN records = 1 .. Len(records) /\ FeedType
      /\ \A id \in Ids(ring) : id \in DOMAIN records
    BY Held DEF StreamInv
<1>2. \A e \in Ids(s) : e \in DOMAIN records /\ e \in Int
    BY <1>1, SeqIds
<1>3. \A e \in Ids(s) : Matches(e, f)'
    BY <1>2, ReportMatches DEF IsAnswer
<1>4. ASSUME NoLate(f)', NEW id \in Ids(ring'), NEW e \in Ids(s), Matches(id, f)', id < e
      PROVE  id \in Ids(s) \/ Older(id, s)
    <2>1. id \in Ids(ring) \/ id = Len(records) + 1
        BY DEF Filled, Added, Ids
    <2>2. e <= Len(records)
        BY <1>1, <1>2
    <2>3. id # Len(records) + 1
        BY <1>1, <1>2, <1>4, <2>2
    <2>4. id \in Ids(ring) /\ NoLate(f) /\ Matches(id, f)
        BY <1>1, <1>4, <2>1, <2>3, ReportMatches
    <2> QED
        BY <1>4, <2>4 DEF IsAnswer
<1>5. Ascends(s)
    BY DEF IsAnswer
<1> QED
    BY <1>3, <1>4, <1>5 DEF IsAnswer, Older

LEMMA AnswerNext == StreamInv /\ AnswerInv /\ [Next]_vars => AnswerInv'
<1> SUFFICES ASSUME StreamInv, AnswerInv, [Next]_vars PROVE AnswerInv'
    OBVIOUS
<1>0. FeedType /\ FeedType' /\ request \in [Routes -> Requests]
    BY FeedTypeStep DEF StreamInv, FeedType
<1>1. ASSUME UNCHANGED <<records, ring>>, NEW s, NEW f, IsAnswer(s, f) PROVE IsAnswer(s, f)'
    BY <1>1 DEF IsAnswer, NoLate, Matches, Older, Ids
<1>2. ASSUME UNCHANGED <<records, ring>>,
             \A r \in Routes : request'[r].at = "served" => request'[r] = request[r]
      PROVE  AnswerInv'
    BY <1>1, <1>2 DEF AnswerInv
<1>3. CASE UNCHANGED vars
    BY <1>2, <1>3 DEF vars, pageVars
<1>4. ASSUME NEW p \in Packets, NEW hops \in HopCounts, Report(p, hops) PROVE AnswerInv'
    <2>1. (Filled \/ Added) /\ request' = request
        BY <1>0, <1>4, ReportIsReported DEF Report
    <2>2. ASSUME NEW r \in Routes, request[r].at = "served"
          PROVE  IsAnswer(request[r].rows, request[r].filter)'
        <3>1. IsAnswer(request[r].rows, request[r].filter)
            BY <2>2 DEF AnswerInv
        <3>2. request[r].rows \in Seq(1 .. Len(records))
            BY <1>0, AnswerRows
        <3> QED
            BY <1>0, <2>1, <3>1, <3>2, AnswerReported
    <2> QED
        BY <2>1, <2>2 DEF AnswerInv
<1>5. CASE StreamStep \/ Disconnect \/ Dispatch
    BY <1>2, <1>5 DEF StreamStep, Connect, StreamTake, StreamSend, Disconnect, Dispatch, pageVars
<1>6. ASSUME NEW f \in Filters, Apply(f) PROVE AnswerInv'
    <2>1. UNCHANGED <<records, ring>> /\ request' = IF request["announces"].at # "none" THEN request
                      ELSE [request EXCEPT !["announces"] = Asked(f)]
        BY <1>6 DEF Apply
    <2>2. Asked(f).at = "asked"
        BY DEF Asked, NoRequest
    <2>3. ASSUME NEW r \in Routes, request'[r].at = "served" PROVE request'[r] = request[r]
        BY <1>0, <2>1, <2>2, <2>3
    <2> QED
        BY <1>2, <2>1, <2>3
<1>7. CASE PollStatus \/ RequestFails
    <2>1. UNCHANGED <<records, ring>>
        BY <1>7 DEF PollStatus, RequestFails
    <2>2. \E r \in Routes : \E q : q.at # "served" /\ request' = [request EXCEPT ![r] = q]
        BY <1>7 DEF PollStatus, RequestFails, NoRequest, Routes
    <2>3. ASSUME NEW r \in Routes, request'[r].at = "served" PROVE request'[r] = request[r]
        BY <1>0, <2>2, <2>3
    <2> QED
        BY <1>2, <2>1, <2>3
<1>8. ASSUME NEW r \in Routes, Serve(r) PROVE AnswerInv'
    <2>1. PICK q, s : /\ q = request[r] /\ s = Snapshot(q.filter) /\ IsAnswer(s, q.filter)
        BY <1>0, SnapshotRows DEF IsAnswer
    <2>2. /\ UNCHANGED <<records, ring>> /\ q \in Requests
          /\ request' = [request EXCEPT ![r] = [q EXCEPT !.at = "served", !.rows = s]]
        BY <1>0, <1>8, <2>1 DEF Serve
    <2>3. IsAnswer(s, q.filter)'
        BY <1>1, <2>1, <2>2
    <2>4. request'[r].rows = s /\ request'[r].filter = q.filter
        BY <1>0, <2>2 DEF Requests
    <2>5. ASSUME NEW t \in Routes, request'[t].at = "served"
          PROVE  IsAnswer(request[t].rows, request[t].filter)'
        <3>1. CASE t = r
            BY <2>3, <2>4, <3>1
        <3>2. CASE t # r
            <4>1. request'[t] = request[t]
                BY <1>0, <2>2, <3>2
            <4>2. IsAnswer(request[t].rows, request[t].filter)
                BY <2>5, <4>1 DEF AnswerInv
            <4> QED
                BY <1>1, <2>2, <4>1, <4>2
        <3> QED
            BY <3>1, <3>2
    <2> QED
        BY <2>5 DEF AnswerInv
<1>9. ASSUME NEW r \in Routes, Arrive(r) PROVE AnswerInv'
    <2>1. UNCHANGED <<records, ring>> /\ request' = [request EXCEPT ![r] = NoRequest]
        BY <1>9 DEF Arrive
    <2>2. NoRequest.at # "served"
        BY DEF NoRequest
    <2>3. ASSUME NEW t \in Routes, request'[t].at = "served" PROVE request'[t] = request[t]
        BY <1>0, <2>1, <2>2, <2>3
    <2> QED
        BY <1>2, <2>1, <2>3
<1> QED
    BY <1>3, <1>4, <1>5, <1>6, <1>7, <1>8, <1>9 DEF Next
-----------------------------------------------------------------------------
\* The matches the ring holds.
Hits == {id \in Ids(ring) : Matches(id, wanted)}

LEMMA HitsAreIds ==
    ASSUME FeedType
    PROVE  \A id \in Hits : id \in Ids(ring) /\ id \in DOMAIN records /\ id \in Int /\ Matches(id, wanted)
    BY Held DEF Hits

\* What is due comes behind where the connection starts.
LEMMA DueAbove ==
    ASSUME StreamInv, FlowInv, NEW id \in Int, Due(id)
    PROVE  url.after < id
<1>1. url.after \in Int /\ stream.last \in Int
    BY Held DEF StreamInv
<1>2. CASE id \in Ids(channel)
    BY <1>2 DEF FlowInv
<1>3. CASE id \in Ids(stream.batch)
    <2>1. PICK i \in DOMAIN stream.batch : stream.batch[i] = id
        BY <1>3 DEF Ids
    <2>2. stream.last < id
        BY <2>1 DEF StreamInv, BatchInOrder
    <2>3. stream.batch # <<>>
        BY <2>1
    <2>4. url.after <= stream.last
        BY <2>3 DEF FlowInv
    <2> QED
        BY <1>1, <2>2, <2>4
<1>4. CASE IF stream.at = "closed" THEN url.after < id ELSE stream.last < id
    BY <1>1, <1>4 DEF FlowInv
<1> QED
    BY <1>2, <1>3, <1>4 DEF Due, OnItsWay

\* A match behind the start of the connection that is not due was dispatched.
LEMMA NotDueIsDone ==
    ASSUME StreamInv, FlowInv, NoLate(wanted), NEW k \in Hits, url.after < k, ~Due(k)
    PROVE  stream.at # "closed" /\ k <= stream.last /\ k \in sent \ Ids(channel)
<1>1. stream.at # "closed" /\ ~(stream.last < k) /\ k \notin Ids(channel)
    BY DEF Due, OnItsWay
<1>2. k \in Ids(ring) /\ k \in DOMAIN records /\ k \in Int /\ stream.last \in Int
    BY HitsAreIds, Held DEF StreamInv
<1>3. HopsMatch(records[k].born, url.filter)
    BY <1>2, HitsAreIds DEF StreamInv, NoLate, FlowInv
<1> QED
    BY <1>1, <1>2, <1>3 DEF StreamInv, StreamSkipsNothing

\* With a match every newer match is due.
LEMMA DueUp ==
    ASSUME StreamInv, FlowInv, NoLate(wanted), NEW m \in Hits, Due(m), NEW k \in Hits, m <= k
    PROVE  Due(k)
<1>1. m \in Int /\ k \in Int /\ url.after \in Int /\ stream.last \in Int
    BY HitsAreIds, Held DEF StreamInv
<1>2. url.after < m
    BY <1>1, DueAbove
<1>3. url.after < k
    BY <1>1, <1>2
<1> SUFFICES ASSUME ~Due(k) PROVE FALSE
    OBVIOUS
<1>4. stream.at # "closed" /\ k <= stream.last /\ k \in sent \ Ids(channel)
    BY <1>3, NotDueIsDone
<1>5. CASE m \in Ids(channel)
    BY <1>1, <1>4, <1>5 DEF FlowInv
<1>6. CASE m \in Ids(stream.batch)
    <2>1. PICK i \in DOMAIN stream.batch : stream.batch[i] = m
        BY <1>6 DEF Ids
    <2>2. stream.last < m
        BY <2>1 DEF StreamInv, BatchInOrder
    <2> QED
        BY <1>1, <1>4, <2>2
<1>7. CASE stream.last < m
    BY <1>1, <1>4, <1>7
<1> QED
    BY <1>4, <1>5, <1>6, <1>7 DEF Due, OnItsWay

Fetching == request["announces"].at # "none"

\* While a snapshot is fetched, the page accounts for what the stream brings.
Here(id) == ~Fetching \/ url.after < id

\* Order of the list, and what it may lack: nothing older than a row, or, after
\* a row that an answer had put too far to the front, at most what is to come.
Sorted == \A i, j \in DOMAIN list : i < j /\ Here(list[i]) => list[i] < list[j]
Whole ==
    \A id \in Hits, e \in Ids(list) : Here(id) /\ id < e /\ id \notin Ids(list) => Older(id, list)
Rotated ==
    /\ Len(list) = Limit
    /\ list[Len(list)] \in sent \ Ids(channel)
    /\ \E c \in 1 .. Len(list) - 1 :
           \A i, j \in DOMAIN list : i < j /\ (j <= c \/ c < i) => list[i] < list[j]
    /\ \E m \in Hits : Due(m) /\ m \notin Ids(list) /\ list[Len(list)] < m /\ m < list[1]

Asks == Fetching => request["announces"].filter = wanted
Covered ==
    request["announces"].at = "served" =>
        \A id \in Hits : id <= url.after =>
            id \in Ids(request["announces"].rows) \/ Older(id, request["announces"].rows)
Wants == \A e \in Ids(list) : Matches(e, wanted) \/ (Fetching /\ e <= url.after)
Kept == OnItsWay \subseteq Ids(ring)
Shown == \A id \in Hits : Here(id) => id \in Ids(list) \/ Due(id) \/ Older(id, list)
PageFits == Asks /\ Covered /\ Wants /\ Kept /\ Shown /\ ((Sorted /\ Whole) \/ Rotated)
Fits == ~gap /\ NoLate(wanted) => PageFits

FeedInv == StreamInv /\ FlowInv /\ AnswerInv /\ Fits

\* The page has what it had, and what was due or is new is due.
LEMMA PageStays ==
    ASSUME FeedType, FeedType', PageFits, Covered', UNCHANGED <<url, wanted, list>>,
           Fetching' = Fetching, request'["announces"].filter = request["announces"].filter,
           \A id \in Hits' : id \in Hits \/ (Due(id)' /\ id = Len(records) + 1),
           \A id \in Hits : Due(id) => id \in Hits' /\ Due(id)',
           Rotated => list[Len(list)] \in sent' \ Ids(channel'),
           OnItsWay' \subseteq Ids(ring'),
           \A id \in DOMAIN records : Matches(id, wanted) => Matches(id, wanted)'
    PROVE  PageFits'
<1>1. /\ list' = list /\ url' = url /\ wanted' = wanted
      /\ \A e \in Ids(list) : e \in DOMAIN records /\ e \in Int
      /\ Len(records) \in Nat /\ DOMAIN records = 1 .. Len(records)
    BY Held
<1>2. Ids(list') = Ids(list) /\ \A id : Older(id, list)' <=> Older(id, list)
    BY <1>1 DEF Ids, Older
<1>3. \A id : Here(id)' <=> Here(id)
    BY <1>1 DEF Here
<1>4. Asks'
    BY <1>1 DEF PageFits, Asks
<1>5. Wants'
    BY <1>1, <1>2 DEF PageFits, Wants
<1>6. Kept'
    BY DEF Kept
<1>7. Shown'
    <2> SUFFICES ASSUME NEW id \in Hits', Here(id)
                 PROVE  id \in Ids(list) \/ Due(id)' \/ Older(id, list)
        BY <1>2, <1>3 DEF Shown
    <2>1. id \in Hits => id \in Ids(list) \/ Due(id) \/ Older(id, list)
        BY DEF PageFits, Shown
    <2> QED
        BY <2>1
<1>8. Sorted => Sorted'
    BY <1>1, <1>3 DEF Sorted
<1>9. Whole => Whole'
    <2> SUFFICES ASSUME Whole, NEW id \in Hits', NEW e \in Ids(list), Here(id), id < e,
                        id \notin Ids(list)
                 PROVE  Older(id, list)
        BY <1>2, <1>3 DEF Whole
    <2>1. id \in Hits
        BY <1>1, HitsAreIds
    <2> QED
        BY <2>1 DEF Whole
<1>10. Rotated => Rotated'
    <2> SUFFICES ASSUME Rotated PROVE Rotated'
        OBVIOUS
    <2>1. PICK m \in Hits : Due(m) /\ m \notin Ids(list) /\ list[Len(list)] < m /\ m < list[1]
        BY DEF Rotated
    <2>2. m \in Hits' /\ Due(m)'
        BY <2>1
    <2>3. PICK c \in 1 .. Len(list) - 1 :
              \A i, j \in DOMAIN list : i < j /\ (j <= c \/ c < i) => list[i] < list[j]
        BY DEF Rotated
    <2>4. list[Len(list)] \in sent' \ Ids(channel')
        OBVIOUS
    <2> QED
        BY <1>1, <1>2, <2>1, <2>2, <2>3, <2>4 DEF Rotated
<1> QED
    BY <1>4, <1>5, <1>6, <1>7, <1>8, <1>9, <1>10 DEF PageFits

LEMMA CoveredStays ==
    ASSUME FeedType, Covered, request'["announces"] = request["announces"], UNCHANGED url,
           \A id \in Hits' : id \in Hits \/ id = Len(records) + 1
    PROVE  Covered'
<1>1. url.after \in Int /\ url.after <= Len(records) /\ Len(records) \in Nat
    BY Held
<1>2. \A id \in Hits' : id <= url.after => id \in Hits
    BY <1>1
<1> QED
    BY <1>2 DEF Covered, Older

\* The page keeps its list and its request, and the matches stay the same.
LEMMA FitsStays ==
    ASSUME FeedType, FeedType', PageFits, UNCHANGED <<records, ring, url, wanted, list, request>>,
           \A id \in Hits : Due(id) => Due(id)',
           Rotated => list[Len(list)] \in sent' \ Ids(channel'),
           OnItsWay' \subseteq Ids(ring)
    PROVE  PageFits'
<1>1. Hits' = Hits /\ Ids(ring') = Ids(ring) /\ \A id : Matches(id, wanted)' <=> Matches(id, wanted)
    BY DEF Hits, Matches, Ids
<1>2. Covered'
    BY <1>1, CoveredStays DEF PageFits
<1>3. Fetching' = Fetching /\ request'["announces"].filter = request["announces"].filter
    BY DEF Fetching
<1> QED
    BY <1>1, <1>2, <1>3, PageStays

LEMMA ReportFits ==
    ASSUME FeedInv, FeedType', NEW p \in Packets, NEW hops \in HopCounts, Report(p, hops)
    PROVE  Fits'
<1> SUFFICES ASSUME ~gap', NoLate(wanted)' PROVE PageFits'
    BY DEF Fits
<1>1. UNCHANGED <<stream, sent, channel, url, request, wanted, list>>
    BY DEF Report
<1>2. Filled \/ Added
    BY ReportIsReported DEF FeedInv, StreamInv
<1>3. /\ ~gap
      /\ \A id \in Ids(ring) : Matches(id, wanted) /\ Due(id) => id \in Ids(ring')
    <2>1. CASE Duplicates(p) # {}
        BY <2>1 DEF Report, Ids
    <2>2. CASE Duplicates(p) = {}
        BY <2>2 DEF Report
    <2> QED
        BY <2>1, <2>2
<1>4. /\ \A id \in DOMAIN records : id \in DOMAIN records' /\ (Matches(id, wanted) => Matches(id, wanted)')
      /\ NoLate(wanted) /\ \A id \in DOMAIN records : Matches(id, wanted)' => Matches(id, wanted)
    <2> DEFINE w == wanted
    <2>1. w' = w
        BY <1>1
    <2>2. \A f : /\ \A id \in DOMAIN records : id \in DOMAIN records' /\ (Matches(id, f) => Matches(id, f)')
                 /\ NoLate(f)' => NoLate(f) /\ \A id \in DOMAIN records : Matches(id, f)' => Matches(id, f)
        BY <1>2, ReportMatches DEF FeedInv
    <2> QED
        BY <2>1, <2>2
<1>5. PageFits /\ FeedType /\ FlowInv
    BY <1>3, <1>4 DEF FeedInv, Fits, StreamInv
<1>6. \A id : Due(id)' <=> Due(id)
    BY <1>1 DEF Due, OnItsWay, Ids
<1>7. /\ Len(records) \in Nat /\ stream.last <= Len(records) /\ url.after <= Len(records)
      /\ stream.last \in Int /\ url.after \in Int
      /\ \A id \in Ids(ring) : id \in DOMAIN records
      /\ \A id \in OnItsWay : id \in DOMAIN records
    BY <1>5, Held DEF OnItsWay
<1>8. Due(Len(records) + 1)
    BY <1>7 DEF Due
<1>9. ASSUME NEW id \in Hits' PROVE id \in Hits \/ (Due(id)' /\ id = Len(records) + 1)
    <2>1. id \in Ids(ring') /\ Matches(id, wanted)'
        BY DEF Hits
    <2>2. id \in Ids(ring) \/ id = Len(records) + 1
        BY <1>2, <2>1 DEF Filled, Added, Ids
    <2> QED
        BY <1>4, <1>6, <1>7, <1>8, <2>1, <2>2 DEF Hits
<1>10. ASSUME NEW id \in Hits, Due(id) PROVE id \in Hits' /\ Due(id)'
    <2>1. id \in Ids(ring) /\ Matches(id, wanted)
        BY DEF Hits
    <2>2. id \in Ids(ring') /\ Matches(id, wanted)'
        BY <1>3, <1>4, <1>7, <1>10, <2>1
    <2> QED
        BY <1>6, <1>10, <2>2 DEF Hits
<1>11. OnItsWay' \subseteq Ids(ring')
    <2>1. OnItsWay' = OnItsWay
        BY <1>1 DEF OnItsWay, Ids
    <2>2. ASSUME NEW id \in OnItsWay PROVE id \in Ids(ring) /\ Matches(id, wanted) /\ Due(id)
        BY <1>5 DEF PageFits, Kept, FlowInv, OnItsWay, Due
    <2> QED
        BY <1>3, <2>1, <2>2
<1>12. Covered'
    BY <1>1, <1>5, <1>9, CoveredStays DEF PageFits
<1>13. Fetching' = Fetching /\ request'["announces"].filter = request["announces"].filter
    BY <1>1 DEF Fetching
<1>14. Rotated => list[Len(list)] \in sent' \ Ids(channel')
    <2>1. sent' = sent /\ Ids(channel') = Ids(channel)
        BY <1>1 DEF Ids
    <2> QED
        BY <2>1 DEF Rotated
<1> QED
    BY <1>1, <1>4, <1>5, <1>9, <1>10, <1>11, <1>12, <1>13, <1>14, PageStays

LEMMA ConnectFits == ASSUME FeedInv, FeedType', Connect PROVE Fits'
<1>1. /\ stream.at = "closed" /\ sent' = {}
      /\ stream' = [at |-> "waiting", last |-> url.after, batch |-> <<>>]
      /\ UNCHANGED <<records, ring, url, wanted, list, request, channel, gap>>
    BY DEF Connect, AfterOf, pageVars
<1> SUFFICES ASSUME ~gap', NoLate(wanted)' PROVE PageFits'
    BY DEF Fits
<1>2. PageFits /\ FeedType
    BY <1>1 DEF FeedInv, Fits, StreamInv, NoLate, Matches
<1>3. channel = <<>> /\ sent = {} /\ stream.batch = <<>>
    BY <1>1 DEF FeedInv, FlowInv
<1>4. Ids(channel) = {} /\ Ids(channel') = {} /\ Ids(stream.batch) = {} /\ Ids(stream'.batch) = {}
    BY <1>1, <1>3 DEF Ids
<1>5. \A id : Due(id) => Due(id)'
    BY <1>1, <1>4 DEF Due, OnItsWay
<1>6. ~Rotated
    BY <1>3 DEF Rotated
<1>7. OnItsWay' \subseteq Ids(ring)
    BY <1>4 DEF OnItsWay
<1> QED
    BY <1>1, <1>2, <1>5, <1>6, <1>7, FitsStays

LEMMA TakeFits == ASSUME FeedInv, FeedType', StreamTake PROVE Fits'
<1> DEFINE b == Batch(url.filter, stream.last)
<1>1. /\ stream' = [at |-> "sending", last |-> stream.last, batch |-> b]
      /\ stream.at = "waiting" /\ UNCHANGED <<records, ring, url, wanted, list, request, channel, sent, gap>>
    BY DEF StreamTake, FeedInv, StreamInv, FeedType, Streams, pageVars
<1>2. stream.last \in Nat /\ RingInv
    BY DEF FeedInv, StreamInv, FeedType, TypeOK
<1>3. \A i \in DOMAIN b : b[i] \in Ids(ring)
    BY <1>2, BatchIsFirst
<1> HIDE DEF b
<1> SUFFICES ASSUME ~gap', NoLate(wanted)' PROVE PageFits'
    BY DEF Fits
<1>4. PageFits /\ FeedType
    BY <1>1 DEF FeedInv, Fits, StreamInv, NoLate, Matches
<1>5. Ids(stream.batch) = {}
    <2>1. stream.batch = <<>>
        BY <1>1 DEF FeedInv, FlowInv
    <2> QED
        BY <2>1 DEF Ids
<1>6. Ids(channel') = Ids(channel) /\ Ids(stream'.batch) = Ids(b) /\ Ids(b) \subseteq Ids(ring)
    BY <1>1, <1>3 DEF Ids
<1>7. \A id : Due(id) => Due(id)'
    BY <1>1, <1>5, <1>6 DEF Due, OnItsWay
<1>8. Rotated => list[Len(list)] \in sent' \ Ids(channel')
    BY <1>1, <1>6 DEF Rotated
<1>9. OnItsWay' \subseteq Ids(ring)
    BY <1>4, <1>6 DEF OnItsWay, PageFits, Kept
<1> QED
    BY <1>1, <1>4, <1>7, <1>8, <1>9, FitsStays

LEMMA SendFits == ASSUME FeedInv, FeedType', StreamSend PROVE Fits'
<1> DEFINE id == Head(stream.batch)
<1>1. /\ id \in Ids(stream.batch) /\ stream.last < id
      /\ Ids(stream.batch) = {id} \cup Ids(stream'.batch)
      /\ Ids(channel') = Ids(channel) \cup {id}
      /\ sent' = sent \cup {id} /\ stream'.last = id /\ stream'.at # "closed"
      /\ \A k \in Ids(ring) : stream.last < k /\ k <= id
             /\ HopsMatch(records[k].born, url.filter) => k \in Ids(stream.batch)
      /\ UNCHANGED <<records, ring, url, request, wanted, list, gap>>
    BY SendMoves DEF FeedInv
<1>0. stream.at = "sending"
    BY DEF StreamSend
<1> HIDE DEF id
<1> SUFFICES ASSUME ~gap', NoLate(wanted)' PROVE PageFits'
    BY DEF Fits
<1>2. PageFits /\ FeedType /\ NoLate(wanted)
    BY <1>1 DEF FeedInv, Fits, StreamInv, NoLate, Matches
<1>3. OnItsWay' = OnItsWay
    BY <1>1 DEF OnItsWay
<1>4. \A k \in Ids(stream.batch) \cup sent : k \in Int
    BY <1>2, Held
<1>5. stream.last \in Int
    BY <1>2, Held
<1>6. ASSUME NEW k \in Hits, Due(k) PROVE Due(k)'
    <2>1. k \in Ids(ring) /\ k \in Int /\ HopsMatch(records[k].born, url.filter)
        BY <1>2, HitsAreIds DEF NoLate, FeedInv, FlowInv
    <2>2. CASE k \in OnItsWay
        BY <1>3, <2>2 DEF Due
    <2>3. CASE stream.last < k /\ k <= id
        <3>1. k \in OnItsWay
            BY <1>1, <2>1, <2>3 DEF OnItsWay
        <3> QED
            BY <1>3, <3>1 DEF Due
    <2>4. CASE id < k
        BY <1>1, <2>4 DEF Due
    <2>5. k \in OnItsWay \/ stream.last < k
        BY <1>0, <1>6 DEF Due
    <2>6. id \in Int
        BY <1>1, <1>4
    <2> QED
        BY <2>1, <2>2, <2>3, <2>4, <2>5, <2>6
<1>7. id \notin sent
    BY <1>1, <1>4, <1>5 DEF FeedInv, FlowInv
<1>8. Rotated => list[Len(list)] \in sent' \ Ids(channel')
    BY <1>1, <1>7 DEF Rotated
<1>9. OnItsWay' \subseteq Ids(ring)
    BY <1>2, <1>3 DEF PageFits, Kept
<1> QED
    BY <1>1, <1>2, <1>6, <1>8, <1>9, FitsStays

LEMMA LossFits == ASSUME FeedInv, FeedType', Disconnect PROVE Fits'
<1>1. /\ stream' = Closed /\ channel' = <<>> /\ sent' = {}
      /\ gap' = (gap \/ \E i, j \in DOMAIN list : i < j /\ list[j] < list[i])
      /\ UNCHANGED <<records, ring, url, request, wanted, list>>
    BY DEF Disconnect
<1> SUFFICES ASSUME ~gap', NoLate(wanted)' PROVE PageFits'
    BY DEF Fits
<1>2. PageFits /\ FeedType
    BY <1>1 DEF FeedInv, Fits, StreamInv, NoLate, Matches
<1>3. Ids(channel') = {} /\ Ids(stream'.batch) = {}
    BY <1>1 DEF Ids, Closed
<1>4. ASSUME NEW k \in Hits, Due(k) PROVE Due(k)'
    <2>1. url.after < k
        BY <1>2, <1>4, DueAbove, HitsAreIds DEF FeedInv
    <2> QED
        BY <1>1, <2>1 DEF Due, Closed
<1>5. ~Rotated
    <2> SUFFICES ASSUME Rotated PROVE FALSE
        OBVIOUS
    <2>1. PICK m \in Hits : list[Len(list)] < m /\ m < list[1]
        BY DEF Rotated
    <2>2. PICK c \in 1 .. Len(list) - 1 : TRUE
        BY DEF Rotated
    <2>3. list \in Seq(1 .. Len(records)) /\ Len(records) \in Nat /\ m \in Int
        BY <1>2, Held, HitsAreIds
    <2>4. /\ DOMAIN list = 1 .. Len(list) /\ Len(list) \in Nat
          /\ \A i \in DOMAIN list : list[i] \in Int
        BY <2>3, SeqIds
    <2>5. 1 \in DOMAIN list /\ Len(list) \in DOMAIN list /\ 1 < Len(list)
        BY <2>2, <2>4
    <2>6. list[Len(list)] < list[1]
        BY <2>1, <2>3, <2>4, <2>5
    <2> QED
        BY <1>1, <2>5, <2>6
<1>6. OnItsWay' \subseteq Ids(ring)
    BY <1>3 DEF OnItsWay
<1> QED
    BY <1>1, <1>2, <1>4, <1>5, <1>6, FitsStays

\* Only the requests change, and what is fetched stays.
LEMMA RequestFits ==
    ASSUME FeedType, FeedType', PageFits, Covered', Fetching' = Fetching,
           request'["announces"].filter = request["announces"].filter,
           UNCHANGED <<records, ring, stream, sent, channel, url, wanted, list>>
    PROVE  PageFits'
<1>1. /\ Hits' = Hits /\ Ids(ring') = Ids(ring) /\ OnItsWay' = OnItsWay
      /\ \A id : Matches(id, wanted)' <=> Matches(id, wanted)
      /\ \A id : Due(id)' <=> Due(id)
    BY DEF Hits, Matches, Ids, OnItsWay, Due
<1>2. Rotated => list[Len(list)] \in sent' \ Ids(channel')
    BY DEF Rotated, Ids
<1>3. OnItsWay' \subseteq Ids(ring')
    BY <1>1 DEF PageFits, Kept
<1> QED
    BY <1>1, <1>2, <1>3, PageStays

LEMMA PollFits == ASSUME FeedInv, FeedType', PollStatus PROVE Fits'
<1>1. /\ request' = [request EXCEPT !["status"] = [NoRequest EXCEPT !.at = "asked"]]
      /\ UNCHANGED <<records, ring, stream, sent, channel, url, wanted, list, gap>>
    BY DEF PollStatus
<1> SUFFICES ASSUME ~gap', NoLate(wanted)' PROVE PageFits'
    BY DEF Fits
<1>2. PageFits /\ FeedType
    BY <1>1 DEF FeedInv, Fits, StreamInv, NoLate, Matches
<1>3. request'["announces"] = request["announces"]
    BY <1>1, <1>2 DEF FeedType, Routes
<1>4. Covered'
    <2>1. Hits' = Hits
        BY <1>1 DEF Hits, Matches, Ids
    <2> QED
        BY <1>1, <1>2, <1>3, <2>1, CoveredStays DEF PageFits
<1> QED
    BY <1>1, <1>2, <1>3, <1>4, RequestFits DEF Fetching

LEMMA ServeFits == ASSUME FeedInv, FeedType', NEW r \in Routes, Serve(r) PROVE Fits'
<1>1. /\ request[r].at = "asked"
      /\ UNCHANGED <<records, ring, stream, sent, channel, url, wanted, list, gap>>
    BY DEF Serve
<1> SUFFICES ASSUME ~gap', NoLate(wanted)' PROVE PageFits'
    BY DEF Fits
<1>2. PageFits /\ FeedType /\ request \in [Routes -> Requests]
    BY <1>1 DEF FeedInv, Fits, StreamInv, NoLate, Matches, FeedType
<1>3. PICK q, s : q = request[r] /\ s = Snapshot(q.filter)
    OBVIOUS
<1>4. q \in Requests /\ request' = [request EXCEPT ![r] = [q EXCEPT !.at = "served", !.rows = s]]
    BY <1>2, <1>3 DEF Serve
<1>5. Hits' = Hits
    BY <1>1 DEF Hits, Matches, Ids
<1>6. Covered' /\ Fetching' = Fetching /\ request'["announces"].filter = request["announces"].filter
    <2>1. CASE r = "announces"
        <3>1. /\ request'["announces"].at = "served" /\ request'["announces"].filter = q.filter
              /\ request'["announces"].rows = s
            BY <1>2, <1>4, <2>1 DEF Requests
        <3>2. Fetching /\ Fetching'
            BY <1>1, <2>1, <3>1 DEF Fetching
        <3>3. q.filter = wanted
            BY <1>2, <1>3, <2>1, <3>2 DEF PageFits, Asks
        <3>4. \A id \in Ids(ring) : Matches(id, q.filter) => id \in Ids(s) \/ Older(id, s)
            BY <1>2, <1>3, SnapshotRows
        <3>5. \A id \in Hits : id \in Ids(s) \/ Older(id, s)
            BY <3>3, <3>4 DEF Hits
        <3>6. Covered'
            BY <1>5, <3>1, <3>5 DEF Covered, Older
        <3> QED
            BY <1>3, <2>1, <3>1, <3>2, <3>6
    <2>2. CASE r # "announces"
        <3>1. request'["announces"] = request["announces"]
            BY <1>2, <1>4, <2>2 DEF Routes
        <3> QED
            BY <1>1, <1>2, <1>5, <3>1, CoveredStays DEF PageFits, Fetching
    <2> QED
        BY <2>1, <2>2
<1> QED
    BY <1>1, <1>2, <1>6, RequestFits

LEMMA FailFits == ASSUME RequestFails PROVE Fits'
    BY DEF RequestFails, Fits

\* The page accounts for nothing but the snapshot it waits for and the new stream.
LEMMA ApplyFits == ASSUME FeedInv, FeedType', NEW f \in Filters, Apply(f) PROVE Fits'
<1>1. /\ wanted' = f /\ url' = [filter |-> f, after |-> LastId(list)]
      /\ stream' = Closed /\ channel' = <<>> /\ sent' = {}
      /\ gap' = (gap \/ request'["announces"] # Asked(f))
      /\ UNCHANGED <<records, ring, list>>
    BY DEF Apply
<1> SUFFICES ASSUME ~gap' PROVE PageFits'
    BY DEF Fits
<1>2. request'["announces"].at = "asked" /\ request'["announces"].filter = f
    BY <1>1 DEF Asked, NoRequest
<1>3. Fetching' /\ FeedType
    BY <1>2 DEF Fetching, FeedInv, StreamInv
<1>4. /\ list \in Seq(1 .. Len(records)) /\ Len(records) \in Nat
      /\ \A e \in Ids(list) : e \in Int
    BY <1>3, Held
<1>5. \A e \in Ids(list) : e <= LastId(list)
    BY <1>4, LastIdIsId
<1>6. url'.after = LastId(list) /\ LastId(list) \in Int
    BY <1>1, <1>4, LastIdIsId
<1>7. Ids(list') = Ids(list)
    BY <1>1 DEF Ids
<1>8. Asks' /\ Covered'
    BY <1>1, <1>2 DEF Asks, Covered
<1>9. Wants'
    BY <1>3, <1>5, <1>6, <1>7 DEF Wants
<1>10. Kept'
    BY <1>1 DEF Kept, OnItsWay, Closed, Ids
<1>11. \A id : Here(id)' => url'.after < id
    BY <1>3 DEF Here
<1>12. Shown'
    <2>1. \A id : url'.after < id => Due(id)'
        BY <1>1 DEF Due, Closed
    <2> QED
        BY <1>11, <2>1 DEF Shown
<1>13. Sorted'
    <2>1. ASSUME NEW i \in DOMAIN list PROVE ~(url'.after < list[i])
        <3>1. list[i] \in Ids(list)
            BY DEF Ids
        <3>2. list[i] \in Int /\ list[i] <= LastId(list)
            BY <1>4, <1>5, <3>1
        <3> QED
            BY <1>6, <3>2
    <2>2. list' = list
        BY <1>1
    <2> QED
        BY <1>11, <2>1, <2>2 DEF Sorted
<1>14. Whole'
    <2>1. Hits' \subseteq Int
        <3>1. Ids(ring') \subseteq Int
            BY <1>1, <1>3, Held DEF Ids
        <3> QED
            BY <3>1 DEF Hits
    <2>2. \A id \in Int, e \in Ids(list) : url'.after < id => ~(id < e)
        BY <1>4, <1>5, <1>6
    <2> QED
        BY <1>7, <1>11, <2>1, <2>2 DEF Whole
<1> QED
    BY <1>8, <1>9, <1>10, <1>12, <1>13, <1>14 DEF PageFits

\* An answer that lacks nothing the stream will not bring is as good as a list.
LEMMA ArriveFits == ASSUME FeedInv, FeedType', NEW r \in Routes, Arrive(r) PROVE Fits'
<1> SUFFICES ASSUME ~gap', NoLate(wanted)' PROVE PageFits'
    BY DEF Fits
<1>1. PICK s : s = request[r].rows
    OBVIOUS
<1>2. /\ request[r].at = "served" /\ list' = s
      /\ request' = [request EXCEPT ![r] = NoRequest]
      /\ Overtaken(s) = {} /\ request[r].filter = wanted /\ OnItsWay \subseteq Ids(ring)
      /\ (r = "status" => ~gap)
      /\ UNCHANGED <<records, ring, stream, sent, channel, url, wanted>>
    BY <1>1 DEF Arrive
<1>3. FeedType /\ NoLate(wanted) /\ request \in [Routes -> Requests] /\ StreamInv /\ FlowInv
    BY <1>2 DEF FeedInv, Fits, StreamInv, NoLate, Matches, FeedType
<1>4. /\ s \in Seq(1 .. Len(records)) /\ Len(records) \in Nat
      /\ \A e \in Ids(s) : e \in Int
    BY <1>1, <1>3, AnswerRows, Held
<1>5. IsAnswer(s, wanted)
    BY <1>1, <1>2 DEF FeedInv, AnswerInv
<1>6. /\ Hits' = Hits /\ Ids(ring') = Ids(ring) /\ OnItsWay' = OnItsWay
      /\ \A id : Matches(id, wanted)' <=> Matches(id, wanted)
      /\ \A id : Due(id)' <=> Due(id)
      /\ Ids(list') = Ids(s)
    BY <1>2 DEF Hits, Matches, Ids, OnItsWay, Due
<1>7. Asks' /\ Covered' /\ \A id : Here(id)' <=> ~Fetching' \/ url.after < id
    <2>1. CASE r = "announces"
        <3>1. request'["announces"].at = "none"
            BY <1>2, <1>3, <2>1 DEF NoRequest
        <3> QED
            BY <1>2, <3>1 DEF Asks, Covered, Fetching, Here
    <2>2. CASE r = "status"
        <3>1. request'["announces"] = request["announces"]
            BY <1>2, <1>3, <2>2
        <3>2. PageFits
            BY <1>2, <1>3, <2>2 DEF FeedInv, Fits
        <3> QED
            BY <1>2, <1>3, <1>6, <3>1, <3>2, CoveredStays DEF PageFits, Asks, Fetching, Here
    <2> QED
        BY <2>1, <2>2 DEF Routes
<1>8. Wants'
    BY <1>5, <1>6 DEF Wants, IsAnswer
<1>9. Kept'
    BY <1>2, <1>6 DEF Kept
<1>10. ASSUME NEW id \in Hits PROVE id \in Ids(s) \/ Due(id) \/ Older(id, s)
    <2>0. /\ id \in Ids(ring) /\ id \in Int /\ Matches(id, wanted) /\ 1 <= id
          /\ LastId(s) \in Int /\ url.after \in Int
        BY <1>3, <1>4, HitsAreIds, Held, LastIdIsId
    <2>1. CASE LastId(s) < id
        <3>1. id \notin sent \ Ids(channel) /\ id \notin 1 .. url.after
            BY <1>2, <2>0, <2>1 DEF Overtaken
        <3>2. url.after < id
            BY <2>0, <3>1
        <3> QED
            BY <1>3, <3>1, <3>2, NotDueIsDone
    <2>2. CASE id <= LastId(s)
        <3>1. s # <<>>
            BY <2>0, <2>2 DEF LastId
        <3>2. LastId(s) \in Ids(s)
            BY <1>4, <3>1, LastIdIsId
        <3>3. id = LastId(s) \/ id < LastId(s)
            BY <2>0, <2>2
        <3> QED
            BY <1>3, <1>5, <2>0, <3>2, <3>3 DEF IsAnswer
    <2> QED
        BY <2>0, <2>1, <2>2
<1>11. Shown'
    BY <1>2, <1>6, <1>10 DEF Shown, Older
<1>12. Sorted'
    BY <1>2, <1>5 DEF Sorted, IsAnswer, Ascends
<1>13. Whole'
    <2>1. ASSUME NEW id \in Hits, NEW e \in Ids(s), id < e, id \notin Ids(s) PROVE Older(id, s)
        BY <1>3, <1>5, <2>1 DEF IsAnswer, Hits
    <2> QED
        BY <1>2, <1>6, <2>1 DEF Whole, Older
<1> QED
    BY <1>7, <1>8, <1>9, <1>11, <1>12, <1>13 DEF PageFits
-----------------------------------------------------------------------------
\* A row that is new to the list comes last; a full list loses its first row (d = 1).
Pushed(h, d) ==
    /\ DOMAIN list = 1 .. Len(list) /\ Len(list) \in Nat
    /\ \A i \in DOMAIN list : list[i] \in Ids(list) /\ list[i] \in Int
    /\ list' \in Seq(1 .. Len(records)) /\ DOMAIN list' = 1 .. Len(list')
    /\ d \in {0, 1} /\ (d = 1 <=> Len(list) = Limit) /\ Len(list') = Len(list) + 1 - d
    /\ list'[Len(list')] = h
    /\ \A i \in DOMAIN list' :
           i # Len(list') => i + d \in DOMAIN list /\ list'[i] = list[i + d]
    /\ h \in Ids(list') /\ Ids(list') \subseteq Ids(list) \cup {h}
    /\ \A e \in Ids(list) : e \notin Ids(list') => e = list[1] /\ d = 1
    /\ Len(list) # 0 => list[1] \in Ids(list)
    /\ \A id : Older(id, list) /\ id < h => Older(id, list)'

LEMMA PushedList ==
    ASSUME FeedType, NEW h \in DOMAIN records, h \notin Ids(list), list' = WithRow(list, h)
    PROVE  Pushed(h, IF Len(list) < Limit THEN 0 ELSE 1)
<1> DEFINE n == Len(records)
           a == list
           r == list'
           d == IF Len(a) < Limit THEN 0 ELSE 1
<1>1. n \in Nat /\ a \in Seq(1 .. n) /\ h \in 1 .. n /\ Len(a) <= Limit /\ Limit \in Nat \ {0}
    BY Held, FeedAssumption DEF FeedType, TypeOK
<1>2. r = LastOf(Append(a, h), Limit)
    BY DEF WithRow
<1>3. r \in Seq(1 .. n) /\ Len(r) = Len(a) + 1 - d /\ r[Len(r)] = h
      /\ \A i \in 1 .. Len(a) - d : r[i] = a[i + d]
    BY <1>1, <1>2, PushedRows
<1>4. d \in {0, 1} /\ (d = 1 <=> Len(a) = Limit)
    BY <1>1
<1>5. DOMAIN a = 1 .. Len(a) /\ Len(a) \in Nat /\ DOMAIN r = 1 .. Len(r) /\ Len(r) \in Nat
      /\ \A i \in DOMAIN a : a[i] \in Ids(a) /\ a[i] \in Int
    BY <1>1, <1>3, SeqIds
<1> HIDE DEF a, r, d, n
<1>6. ASSUME NEW i \in DOMAIN r, i # Len(r) PROVE i + d \in DOMAIN a /\ r[i] = a[i + d]
    <2>1. i \in 1 .. Len(a) - d /\ i + d \in 1 .. Len(a)
        BY <1>3, <1>4, <1>5, <1>6
    <2> QED
        BY <1>3, <1>5, <2>1
<1>7. ASSUME NEW i \in DOMAIN a, i - d \in DOMAIN r, i - d # Len(r) PROVE a[i] \in Ids(r)
    <2>1. (i - d) + d = i
        BY <1>4, <1>5
    <2>2. r[i - d] = a[i]
        BY <1>6, <1>7, <2>1
    <2> QED
        BY <1>7, <2>2 DEF Ids
<1>8. ASSUME NEW e \in Ids(a), e \notin Ids(r) PROVE e = a[1] /\ d = 1
    <2>1. PICK i \in DOMAIN a : a[i] = e
        BY DEF Ids
    <2>2. d = 0 \/ d = 1
        BY <1>4
    <2>3. (i - d \in DOMAIN r /\ i - d # Len(r)) \/ (i = 1 /\ d = 1)
        <3>1. i \in 1 .. Len(a) /\ DOMAIN r = 1 .. Len(a) + 1 - d
            BY <1>3, <1>5
        <3> QED
            BY <1>3, <1>5, <2>2, <3>1
    <2> QED
        BY <1>7, <1>8, <2>1, <2>3
<1>9. h \in Ids(r)
    <2>0. 1 <= Len(r)
        <3>1. Len(r) = Len(a) + 1 - d /\ Len(a) \in Nat /\ Limit \in Nat \ {0}
            BY <1>1, <1>3, <1>5
        <3>2. CASE d = 0
            BY <3>1, <3>2
        <3>3. CASE d = 1
            <4>1. Len(a) = Limit
                BY <1>4, <3>3
            <4> QED
                BY <3>1, <3>3, <4>1
        <3> QED
            BY <1>4, <3>2, <3>3
    <2>1. Len(r) \in DOMAIN r
        BY <1>5, <2>0
    <2> QED
        BY <1>3, <2>1 DEF Ids
<1>10. Ids(r) \subseteq Ids(a) \cup {h}
    BY <1>3, <1>5, <1>6 DEF Ids
<1>11. ASSUME NEW id, Older(id, a), id < h PROVE Len(r) = Limit /\ \A e \in Ids(r) : id < e
    <2>1. Len(a) = Limit /\ d = 1
        BY <1>4, <1>11 DEF Older
    <2>2. Len(r) = Limit
        BY <1>1, <1>3, <2>1
    <2> QED
        BY <1>10, <1>11, <2>2 DEF Older
<1>12. \A id : Older(id, a) /\ id < h => Older(id, list)'
    BY <1>11 DEF Older, r
<1>13. Len(a) # 0 => a[1] \in Ids(a)
    BY <1>5
<1> QED
    BY <1>3, <1>4, <1>5, <1>6, <1>8, <1>9, <1>10, <1>12, <1>13 DEF a, r, d, n, Pushed

\* What is dispatched is due, and the first of what is due.
Foremost(h) ==
    /\ h \in Hits /\ h \in Int /\ h \in DOMAIN records /\ Due(h)
    /\ url.after < h /\ url.after \in Int
    /\ \A k \in Hits : (Due(k) <=> h <= k) /\ (h < k => Due(k)')
    /\ sent' \ Ids(channel') = (sent \ Ids(channel)) \cup {h}
    /\ \A s \in sent \ Ids(channel) : s < h
    /\ Hits' = Hits /\ OnItsWay' \subseteq OnItsWay /\ Fetching' = Fetching
    /\ \A id : Matches(id, wanted)' <=> Matches(id, wanted)
    /\ \A id : Here(id)' <=> Here(id)
    /\ \A id \in Int : url.after < id => Here(id)
    /\ list' = WithRow(list, h)
    /\ Asks' /\ Covered' /\ Kept'
    /\ UNCHANGED <<records, ring, stream, url, wanted>>

LEMMA HeadFirst ==
    ASSUME FeedInv, FeedType', Dispatch, NoLate(wanted), PageFits
    PROVE  Foremost(Head(channel))
<1> DEFINE h == Head(channel)
<1>1. /\ h \in Ids(channel) /\ Ids(channel) = {h} \cup Ids(channel')
      /\ h \notin Ids(channel') /\ \A c \in Ids(channel') : h < c
      /\ list' = WithRow(list, h) /\ stream.at # "closed"
      /\ UNCHANGED <<records, ring, stream, sent, url, request, wanted, turns, gap>>
    BY DispatchMoves DEF FeedInv
<1> HIDE DEF h
<1>2. StreamInv /\ FlowInv /\ FeedType
    BY DEF FeedInv, StreamInv
<1>3. /\ \A id \in Ids(channel) \cup Ids(ring) \cup Ids(stream.batch) : id \in DOMAIN records /\ id \in Int
      /\ url.after \in Int /\ stream.last \in Int
    BY <1>2, Held
<1>4. h \in Hits /\ h \in Int /\ h \in DOMAIN records /\ Due(h) /\ url.after < h /\ h <= stream.last
    <2>1. h \in OnItsWay /\ h \in sent
        BY <1>1, <1>2 DEF OnItsWay, FlowInv
    <2>2. h \in Ids(ring) /\ Due(h)
        BY <2>1 DEF PageFits, Kept, Due
    <2>3. Matches(h, wanted) /\ url.after < h /\ h <= stream.last
        BY <1>2, <2>1 DEF FlowInv
    <2> QED
        BY <1>3, <2>2, <2>3 DEF Hits
<1>5. ASSUME NEW k \in Hits, Due(k) PROVE h <= k /\ (k # h => Due(k)')
    <2>0. k \in Int
        BY <1>2, HitsAreIds
    <2>1. CASE k \in Ids(channel)
        <3>1. k = h \/ (h < k /\ k \in Ids(channel'))
            BY <1>1, <2>1
        <3> QED
            BY <1>4, <2>0, <3>1 DEF Due, OnItsWay
    <2>2. CASE k \in Ids(stream.batch)
        <3>1. PICK i \in DOMAIN stream.batch : stream.batch[i] = k
            BY <2>2 DEF Ids
        <3>2. stream.last < k
            BY <1>2, <3>1 DEF StreamInv, BatchInOrder
        <3>3. k \in Ids(stream'.batch)
            BY <1>1, <2>2
        <3>4. Due(k)'
            BY <3>3 DEF Due, OnItsWay
        <3> QED
            BY <1>3, <1>4, <2>0, <3>2, <3>4
    <2>3. CASE stream.last < k
        <3>1. Due(k)'
            BY <1>1, <2>3 DEF Due
        <3> QED
            BY <1>3, <1>4, <2>0, <2>3, <3>1
    <2> QED
        BY <1>1, <1>5, <2>1, <2>2, <2>3 DEF Due, OnItsWay
<1>12. ASSUME NEW k \in Hits PROVE (Due(k) <=> h <= k) /\ (h < k => Due(k)')
    <2>1. h <= k => Due(k)
        BY <1>2, <1>4, DueUp
    <2>2. k \in Int
        BY <1>2, HitsAreIds
    <2>3. h < k => h <= k /\ k # h
        BY <1>4, <2>2
    <2> QED
        BY <1>5, <2>1, <2>3
<1>6. /\ sent' \ Ids(channel') = (sent \ Ids(channel)) \cup {h}
      /\ \A s \in sent \ Ids(channel) : s < h
    <2>1. h \in sent
        BY <1>1, <1>2 DEF FlowInv
    <2> QED
        BY <1>1, <1>2, <2>1 DEF FlowInv
<1>7. /\ Hits' = Hits /\ Fetching' = Fetching
      /\ \A id : Matches(id, wanted)' <=> Matches(id, wanted)
      /\ \A id : Here(id)' <=> Here(id)
      /\ \A id \in Int : url.after < id => Here(id)
    BY <1>1 DEF Hits, Fetching, Matches, Here, Ids
<1>8. OnItsWay' \subseteq OnItsWay
    BY <1>1 DEF OnItsWay
<1>9. Ids(ring') = Ids(ring)
    BY <1>1 DEF Ids
<1>10. Asks' /\ Kept'
    BY <1>1, <1>7, <1>8, <1>9 DEF PageFits, Asks, Kept
<1>11. Covered'
    BY <1>1, <1>2, <1>7, CoveredStays DEF PageFits
<1> QED
    BY <1>1, <1>3, <1>4, <1>6, <1>7, <1>8, <1>12, <1>10, <1>11 DEF h, Foremost

\* A match that is shown stays shown, unless the list dropped it.
LEMMA PushShows ==
    ASSUME PageFits, NEW h, NEW d, Foremost(h), Pushed(h, d), NEW id \in Hits, Here(id), id \in Int,
           id \notin Ids(list')
    PROVE  (id = list[1] /\ id \in Ids(list) /\ d = 1) \/ Due(id)' \/ Older(id, list)'
<1>1. id \in Ids(list) \/ Due(id) \/ Older(id, list)
    BY DEF PageFits, Shown
<1>2. CASE id \in Ids(list)
    BY <1>2 DEF Pushed
<1>3. CASE Due(id)
    <2>1. h <= id /\ id # h /\ h \in Int
        BY <1>3 DEF Foremost, Pushed
    <2>2. h < id
        BY <2>1
    <2> QED
        BY <2>2 DEF Foremost
<1>4. CASE Older(id, list) /\ ~Due(id)
    <2>1. ~(h <= id) /\ h \in Int
        BY <1>4 DEF Foremost
    <2>2. id < h
        BY <2>1
    <2> QED
        BY <1>4, <2>2 DEF Pushed
<1> QED
    BY <1>1, <1>2, <1>3, <1>4

\* The row is there already.
LEMMA RowKnown ==
    ASSUME FeedType, PageFits, NEW h, Foremost(h), h \in Ids(list)
    PROVE  Shown' /\ ((Sorted' /\ Whole') \/ Rotated')
<1>1. list' = list /\ Ids(list') = Ids(list) /\ \A id : Older(id, list)' <=> Older(id, list)
    BY DEF Foremost, WithRow, Ids, Older
<1>2. /\ Hits' = Hits /\ \A id : Here(id)' <=> Here(id)
      /\ sent \ Ids(channel) \subseteq sent' \ Ids(channel')
    BY DEF Foremost
<1>6. ASSUME NEW k \in Hits, Due(k), k # h PROVE Due(k)'
    <2>1. k \in Int /\ h \in Int /\ h <= k
        BY <1>6, HitsAreIds DEF Foremost
    <2>2. h < k
        BY <1>6, <2>1
    <2> QED
        BY <2>2 DEF Foremost
<1>3. Shown'
    BY <1>1, <1>2, <1>6 DEF PageFits, Shown
<1>4. (Sorted => Sorted') /\ (Whole => Whole')
    BY <1>1, <1>2 DEF Sorted, Whole
<1>5. ASSUME Rotated PROVE Rotated'
    <2>1. PICK m \in Hits : Due(m) /\ m \notin Ids(list) /\ list[Len(list)] < m /\ m < list[1]
        BY <1>5 DEF Rotated
    <2>2. m \in Hits' /\ Due(m)'
        BY <1>2, <1>6, <2>1
    <2>3. list[Len(list)] \in sent' \ Ids(channel') /\ Len(list) = Limit
        BY <1>2, <1>5 DEF Rotated
    <2>4. \E c \in 1 .. Len(list) - 1 :
              \A i, j \in DOMAIN list : i < j /\ (j <= c \/ c < i) => list[i] < list[j]
        BY <1>5 DEF Rotated
    <2> QED
        BY <1>1, <2>1, <2>2, <2>3, <2>4 DEF Rotated
<1> QED
    BY <1>3, <1>4, <1>5 DEF PageFits

\* The row is newer than the whole list.
LEMMA RowNewest ==
    ASSUME FeedType, PageFits, NEW h, NEW d, Foremost(h), Pushed(h, d), Sorted, Whole,
           \A e \in Ids(list) : e < h
    PROVE  Shown' /\ Sorted' /\ Whole'
<1>1. /\ Hits' = Hits /\ \A id : Here(id)' <=> Here(id)
      /\ \A id \in Hits : Due(id) => h <= id
      /\ h \in Int
    BY DEF Foremost
<1>2. /\ DOMAIN list = 1 .. Len(list) /\ Len(list) \in Nat
      /\ \A i \in DOMAIN list : list[i] \in Ids(list) /\ list[i] \in Int
      /\ DOMAIN list' = 1 .. Len(list')
      /\ d \in {0, 1} /\ (d = 1 <=> Len(list) = Limit) /\ Len(list') = Len(list) + 1 - d
      /\ list'[Len(list')] = h
      /\ \A i \in DOMAIN list' :
             i # Len(list') => i + d \in DOMAIN list /\ list'[i] = list[i + d]
      /\ h \in Ids(list') /\ Ids(list') \subseteq Ids(list) \cup {h}
      /\ \A e \in Ids(list) : e \notin Ids(list') => e = list[1] /\ d = 1
      /\ Len(list) # 0 => list[1] \in Ids(list)
      /\ \A id : Older(id, list) /\ id < h => Older(id, list)'
    BY DEF Pushed
<1>3. \A id \in Hits : id \in Int
    BY HitsAreIds
<1>4. ASSUME NEW id \in Ids(list), Here(id), id \notin Ids(list') PROVE Older(id, list)'
    <2>1. id = list[1] /\ d = 1 /\ Len(list') = Limit /\ Len(list') = Len(list)
        BY <1>2, <1>4
    <2>2. ASSUME NEW i \in DOMAIN list' PROVE id < list'[i]
        <3>1. CASE i = Len(list')
            BY <1>2, <3>1
        <3>2. CASE i # Len(list')
            <4>1. i + 1 \in DOMAIN list /\ list'[i] = list[i + 1] /\ 1 \in DOMAIN list /\ 1 < i + 1
                BY <1>2, <2>1, <3>2
            <4> QED
                BY <1>4, <2>1, <4>1 DEF Sorted
        <3> QED
            BY <3>1, <3>2
    <2> QED
        BY <2>1, <2>2 DEF Older, Ids
<1>5. Shown'
    <2> SUFFICES ASSUME NEW id \in Hits, Here(id), id \notin Ids(list')
                 PROVE  Due(id)' \/ Older(id, list)'
        BY <1>1 DEF Shown
    <2>1. (id = list[1] /\ id \in Ids(list) /\ d = 1) \/ Due(id)' \/ Older(id, list)'
        BY <1>2, <1>3, PushShows
    <2> QED
        BY <1>4, <2>1
<1>6. Sorted'
    <2> SUFFICES ASSUME NEW i \in DOMAIN list', NEW j \in DOMAIN list', i < j, Here(list'[i])
                 PROVE  list'[i] < list'[j]
        BY <1>1 DEF Sorted
    <2>1. i # Len(list') /\ i + d \in DOMAIN list /\ list'[i] = list[i + d]
        BY <1>2
    <2>2. CASE j = Len(list')
        BY <1>2, <2>1, <2>2
    <2>3. CASE j # Len(list')
        <3>1. j + d \in DOMAIN list /\ list'[j] = list[j + d] /\ i + d < j + d
            BY <1>2, <2>3
        <3> QED
            BY <2>1, <3>1 DEF Sorted
    <2> QED
        BY <2>2, <2>3
<1>7. Whole'
    <2> SUFFICES ASSUME NEW id \in Hits, NEW e \in Ids(list'), Here(id), id < e, id \notin Ids(list')
                 PROVE  Older(id, list)'
        BY <1>1 DEF Whole
    <2>1. CASE id \in Ids(list)
        BY <1>4, <2>1
    <2>2. CASE id \notin Ids(list) /\ e \in Ids(list)
        <3>1. Older(id, list)
            BY <2>2 DEF Whole
        <3>2. e < h /\ e \in Int /\ id \in Int
            BY <1>2, <1>3, <2>2 DEF Ids
        <3>3. id < h
            BY <1>1, <3>2
        <3> QED
            BY <1>2, <3>1, <3>3
    <2>3. CASE id \notin Ids(list) /\ e = h
        <3>1. ~Due(id)
            BY <1>1, <1>3, <2>3
        <3>2. Older(id, list)
            BY <2>3, <3>1 DEF PageFits, Shown
        <3> QED
            BY <1>2, <2>3, <3>2
    <2> QED
        BY <1>2, <2>1, <2>2, <2>3
<1> QED
    BY <1>5, <1>6, <1>7

\* A row of the list that is newer than what is dispatched will come again.
LEMMA NewerIsDue ==
    ASSUME FeedType, PageFits, NEW h, Foremost(h), NEW e \in Ids(list), h < e
    PROVE  e \in Hits /\ Due(e)' /\ Here(e)
<1>1. e \in Int /\ e \in DOMAIN records
    BY Held
<1>2. h \in Ids(ring) /\ h \in Int /\ url.after < h /\ url.after \in Int
    BY HitsAreIds DEF Foremost
<1>3. e \in Ids(ring)
    BY <1>1, <1>2, RingUp
<1>4. url.after < e
    BY <1>1, <1>2
<1>5. Matches(e, wanted)
    BY <1>1, <1>2, <1>4 DEF PageFits, Wants
<1>6. e \in Hits
    BY <1>3, <1>5 DEF Hits
<1>7. Here(e)
    BY <1>4 DEF Here
<1> QED
    BY <1>6, <1>7 DEF Foremost

\* The row is older than one of the list, hence than all.
LEMMA RowOld ==
    ASSUME FeedType, PageFits, NEW h, NEW d, Foremost(h), Pushed(h, d), Sorted, Whole,
           h \notin Ids(list), \E e \in Ids(list) : h < e
    PROVE  Shown' /\ ((Sorted' /\ Whole') \/ Rotated')
<1>1. /\ Hits' = Hits /\ \A id : Here(id)' <=> Here(id)
      /\ h \in Hits /\ h \in Int /\ Here(h)
      /\ h \in sent' \ Ids(channel')
    <2>1. Here(h)
        BY DEF Foremost, Here
    <2> QED
        BY <2>1 DEF Foremost
<1>2. /\ DOMAIN list = 1 .. Len(list) /\ Len(list) \in Nat
      /\ \A i \in DOMAIN list : list[i] \in Ids(list) /\ list[i] \in Int
      /\ DOMAIN list' = 1 .. Len(list') /\ list'[Len(list')] = h
      /\ h \in Ids(list') /\ Ids(list') \subseteq Ids(list) \cup {h}
      /\ \A id : Older(id, list) /\ id < h => Older(id, list)'
      /\ (d = 1 <=> Len(list) = Limit) /\ Len(list') = Len(list) + 1 - d
      /\ \A i \in DOMAIN list' :
             i # Len(list') => i + d \in DOMAIN list /\ list'[i] = list[i + d]
    BY DEF Pushed
<1>3. Older(h, list)
    BY <1>1 DEF Whole
<1>4. /\ Len(list) = Limit /\ Len(list') = Limit /\ d = 1 /\ Limit \in Nat \ {0}
      /\ \A e \in Ids(list) : h < e /\ e \in Hits /\ Due(e)' /\ Here(e)
    BY <1>2, <1>3, NewerIsDue, FeedAssumption DEF Older
<1>5. /\ \A i \in DOMAIN list' : i # Limit => i + 1 \in DOMAIN list /\ list'[i] = list[i + 1]
      /\ list'[Limit] = h /\ DOMAIN list' = 1 .. Limit /\ DOMAIN list = 1 .. Limit
    BY <1>2, <1>4
<1>6. \A i, j \in DOMAIN list : i < j => list[i] < list[j]
    BY <1>2, <1>4 DEF Sorted
<1>7. 1 \in DOMAIN list /\ list[1] \in Ids(list) /\ h < list[1] /\ list[1] \in Int
    BY <1>2, <1>4, <1>5
<1>8. \A id \in Hits : id \in Int
    BY HitsAreIds
<1>9. Shown'
    <2> SUFFICES ASSUME NEW id \in Hits, Here(id), id \notin Ids(list')
                 PROVE  Due(id)' \/ Older(id, list)'
        BY <1>1 DEF Shown
    <2>1. (id = list[1] /\ id \in Ids(list) /\ d = 1) \/ Due(id)' \/ Older(id, list)'
        BY <1>8, PushShows
    <2> QED
        BY <1>4, <2>1
<1>10. CASE Limit = 1
    <2>1. Sorted'
        BY <1>5, <1>10 DEF Sorted
    <2>2. Ids(list') = {h}
        BY <1>5, <1>10 DEF Ids
    <2>3. Whole'
        BY <1>4, <2>2 DEF Whole, Older
    <2> QED
        BY <1>9, <2>1, <2>3
<1>11. CASE Limit # 1
    <2>1. Limit - 1 \in 1 .. Limit - 1 /\ 1 \in DOMAIN list' /\ 2 \in DOMAIN list /\ 1 # Limit
        BY <1>4, <1>5, <1>11
    <2>2. ASSUME NEW i \in DOMAIN list', NEW j \in DOMAIN list', i < j, j <= Limit - 1 \/ Limit - 1 < i
          PROVE  list'[i] < list'[j]
        <3>1. i # Limit /\ j # Limit /\ i + 1 < j + 1
            BY <1>4, <1>5, <2>2
        <3> QED
            BY <1>5, <1>6, <3>1
    <2>3. list[1] < list'[1]
        BY <1>5, <1>6, <1>7, <2>1
    <2>4. list[1] \notin Ids(list')
        <3>1. ASSUME NEW i \in DOMAIN list' PROVE list'[i] # list[1]
            <4>1. CASE i = Limit
                BY <1>5, <1>7, <4>1
            <4>2. CASE i # Limit
                <5>1. 1 < i + 1 /\ i + 1 \in DOMAIN list /\ list'[i] = list[i + 1]
                    BY <1>5, <4>2
                <5>2. list[1] < list[i + 1] /\ list[i + 1] \in Int
                    BY <1>2, <1>6, <1>7, <5>1
                <5> QED
                    BY <1>7, <5>1, <5>2
            <4> QED
                BY <4>1, <4>2
        <3> QED
            BY <3>1 DEF Ids
    <2>5. PICK m : m = list[1]
        OBVIOUS
    <2>6. m \in Hits' /\ Due(m)'
        BY <1>1, <1>4, <1>7, <2>5
    <2>7. list'[Limit] < list[1]
        BY <1>5, <1>7
    <2>8. m \in Hits' /\ Due(m)' /\ m \notin Ids(list') /\ list'[Limit] < m /\ m < list'[1]
        BY <2>3, <2>4, <2>5, <2>6, <2>7
    <2>9. \E c \in 1 .. Limit - 1 :
              \A i, j \in DOMAIN list' : i < j /\ (j <= c \/ c < i) => list'[i] < list'[j]
        BY <2>1, <2>2
    <2>10. Rotated'
        BY <1>1, <1>4, <1>5, <2>8, <2>9 DEF Rotated
    <2> QED
        BY <1>9, <2>10
<1> QED
    BY <1>10, <1>11

\* The list starts with rows that will come again: this one comes before them.
LEMMA RowNext ==
    ASSUME FeedType, PageFits, StreamInv, FlowInv, NoLate(wanted), NEW h, NEW d,
           Foremost(h), Pushed(h, d), Rotated
    PROVE  Shown' /\ ((Sorted' /\ Whole') \/ Rotated')
<1>1. /\ Hits' = Hits /\ \A id : Here(id)' <=> Here(id)
      /\ h \in Hits /\ h \in Int
      /\ h \in sent' \ Ids(channel')
      /\ \A k \in Hits : (Due(k) <=> h <= k)
      /\ \A s \in sent \ Ids(channel) : s < h
    BY DEF Foremost
<1>2. /\ DOMAIN list = 1 .. Len(list) /\ Len(list) \in Nat
      /\ \A i \in DOMAIN list : list[i] \in Ids(list) /\ list[i] \in Int
      /\ DOMAIN list' = 1 .. Len(list') /\ list'[Len(list')] = h
      /\ h \in Ids(list') /\ Ids(list') \subseteq Ids(list) \cup {h}
      /\ \A e \in Ids(list) : e \notin Ids(list') => e = list[1] /\ d = 1
      /\ \A id : Older(id, list) /\ id < h => Older(id, list)'
      /\ (d = 1 <=> Len(list) = Limit) /\ Len(list') = Len(list) + 1 - d
      /\ \A i \in DOMAIN list' :
             i # Len(list') => i + d \in DOMAIN list /\ list'[i] = list[i + d]
    BY DEF Pushed
<1>3. /\ Len(list) = Limit /\ Len(list') = Limit /\ d = 1 /\ Limit \in Nat
    BY <1>2 DEF Rotated
<1>5. /\ \A i \in DOMAIN list' : i # Limit => i + 1 \in DOMAIN list /\ list'[i] = list[i + 1]
      /\ list'[Limit] = h /\ DOMAIN list' = 1 .. Limit /\ DOMAIN list = 1 .. Limit
    BY <1>2, <1>3
<1>4. PICK c \in 1 .. Limit - 1 :
          \A i, j \in DOMAIN list : i < j /\ (j <= c \/ c < i) => list[i] < list[j]
    BY <1>3 DEF Rotated
<1>0. PICK first, last : first = list[1] /\ last = list[Limit]
    OBVIOUS
<1>6. c \in Int /\ 1 <= c /\ c < Limit /\ 1 \in DOMAIN list /\ Limit \in DOMAIN list
    BY <1>3, <1>4, <1>5
<1>7. /\ first \in Int /\ last \in Int /\ first \in Ids(list) /\ last < h
    BY <1>0, <1>1, <1>2, <1>3, <1>6 DEF Rotated
<1>8. h < first
    <2>1. PICK m \in Hits : Due(m) /\ m < first
        BY <1>0 DEF Rotated
    <2>2. h <= m /\ m \in Int
        BY <1>1, <2>1, HitsAreIds
    <2> QED
        BY <1>1, <1>7, <2>1, <2>2
<1>9. first \in Hits /\ Due(first)'
    BY <1>7, <1>8, NewerIsDue
<1>10. ASSUME NEW i \in DOMAIN list, c < i PROVE list[i] < h
    <2>1. list[i] < last \/ i = Limit
        BY <1>0, <1>4, <1>5, <1>6, <1>10
    <2> QED
        BY <1>0, <1>1, <1>2, <1>7, <2>1
<1>11. ASSUME NEW i \in DOMAIN list, 1 < i PROVE list[i] # first
    <2>1. CASE i <= c
        BY <1>0, <1>2, <1>4, <1>6, <1>7, <1>11, <2>1
    <2>2. CASE c < i
        BY <1>1, <1>2, <1>7, <1>8, <1>10, <2>2
    <2> QED
        BY <1>5, <1>6, <2>1, <2>2
<1>12. first \notin Ids(list')
    <2>1. ASSUME NEW i \in DOMAIN list' PROVE list'[i] # first
        <3>1. CASE i = Limit
            BY <1>1, <1>5, <1>7, <1>8, <3>1
        <3>2. CASE i # Limit
            <4>1. 1 < i + 1 /\ i + 1 \in DOMAIN list /\ list'[i] = list[i + 1]
                BY <1>5, <3>2
            <4> QED
                BY <1>11, <4>1
        <3> QED
            BY <3>1, <3>2
    <2> QED
        BY <2>1 DEF Ids
<1>13. Shown'
    <2> SUFFICES ASSUME NEW id \in Hits, Here(id), id \notin Ids(list')
                 PROVE  Due(id)' \/ Older(id, list)'
        BY <1>1 DEF Shown
    <2>1. (id = first /\ id \in Ids(list) /\ d = 1) \/ Due(id)' \/ Older(id, list)'
        BY <1>0, HitsAreIds, PushShows
    <2> QED
        BY <1>9, <2>1
<1>14. ASSUME NEW i \in DOMAIN list', NEW j \in DOMAIN list', i < j, j <= c - 1 \/ c - 1 < i
       PROVE  list'[i] < list'[j]
    <2>1. i # Limit /\ i + 1 \in DOMAIN list /\ list'[i] = list[i + 1]
        BY <1>3, <1>5, <1>14
    <2>2. CASE j = Limit
        <3>1. c < i + 1
            BY <1>3, <1>5, <1>6, <1>14, <2>2
        <3> QED
            BY <1>5, <1>10, <2>1, <2>2, <3>1
    <2>3. CASE j # Limit
        <3>1. j + 1 \in DOMAIN list /\ list'[j] = list[j + 1] /\ i + 1 < j + 1
            BY <1>5, <1>14, <2>3
        <3>2. j + 1 <= c \/ c < i + 1
            BY <1>5, <1>6, <1>14
        <3> QED
            BY <1>4, <2>1, <3>1, <3>2
    <2> QED
        BY <2>2, <2>3
<1>15. CASE c = 1
    <2>1. \A i, j \in DOMAIN list' : i < j => list'[i] < list'[j]
        BY <1>5, <1>14, <1>15
    <2>2. Sorted'
        BY <2>1 DEF Sorted
    <2>3. ASSUME NEW e \in Ids(list') PROVE e = h \/ (e < h /\ e \in Int)
        <3>1. PICK i \in DOMAIN list' : list'[i] = e
            BY DEF Ids
        <3>2. CASE i = Limit
            BY <1>5, <3>1, <3>2
        <3>3. CASE i # Limit
            <4>1. i + 1 \in DOMAIN list /\ e = list[i + 1] /\ c < i + 1
                BY <1>5, <1>15, <3>1, <3>3
            <4> QED
                BY <1>2, <1>10, <4>1
        <3> QED
            BY <3>2, <3>3
    <2>4. ASSUME NEW id \in Hits, NEW e \in Ids(list'), Here(id), id < e, id \notin Ids(list')
          PROVE  Older(id, list)'
        <3>1. id < h /\ id \in Int
            BY <1>1, <2>3, <2>4, HitsAreIds
        <3>2. ~Due(id)
            BY <1>1, <3>1
        <3>3. id # first
            BY <1>1, <1>7, <1>8, <3>1
        <3>4. id \notin Ids(list)
            BY <1>0, <1>2, <2>4, <3>3
        <3>5. Older(id, list)
            BY <2>4, <3>2, <3>4 DEF PageFits, Shown
        <3> QED
            BY <1>2, <3>1, <3>5
    <2>5. Whole'
        BY <1>1, <2>4 DEF Whole
    <2> QED
        BY <1>13, <2>2, <2>5
<1>16. CASE c # 1
    <2>1. c - 1 \in 1 .. Limit - 1 /\ 1 \in DOMAIN list' /\ 1 # Limit /\ 2 \in DOMAIN list /\ 2 <= c
        BY <1>3, <1>5, <1>6, <1>16
    <2>2. \E k \in 1 .. Limit - 1 :
              \A i, j \in DOMAIN list' : i < j /\ (j <= k \/ k < i) => list'[i] < list'[j]
        BY <1>14, <2>1
    <2>3. first < list'[1]
        BY <1>0, <1>4, <1>5, <1>6, <2>1
    <2>4. /\ first \in Hits' /\ Due(first)' /\ first \notin Ids(list')
          /\ list'[Limit] < first /\ first < list'[1]
        BY <1>1, <1>5, <1>8, <1>9, <1>12, <2>3
    <2>5. Rotated'
        BY <1>1, <1>3, <1>5, <2>2, <2>4 DEF Rotated
    <2> QED
        BY <1>13, <2>5
<1> QED
    BY <1>15, <1>16

LEMMA DispatchFits == ASSUME FeedInv, FeedType', Dispatch PROVE Fits'
<1> SUFFICES ASSUME ~gap', NoLate(wanted)' PROVE PageFits'
    BY DEF Fits
<1>1. ~gap /\ NoLate(wanted)
    BY DEF Dispatch, NoLate, Matches
<1>2. PageFits /\ FeedType /\ StreamInv /\ FlowInv
    BY <1>1 DEF FeedInv, Fits, StreamInv
<1>3. PICK h : h = Head(channel) /\ Foremost(h)
    BY <1>1, <1>2, HeadFirst
<1>4. Asks' /\ Covered' /\ Kept'
    BY <1>3 DEF Foremost
<1>5. Wants' /\ Shown' /\ ((Sorted' /\ Whole') \/ Rotated')
    <2>1. CASE h \in Ids(list)
        <3>1. Ids(list') = Ids(list)
            BY <1>3, <2>1 DEF Foremost, WithRow, Ids
        <3>2. Wants'
            BY <1>2, <1>3, <3>1 DEF Foremost, PageFits, Wants
        <3> QED
            BY <1>2, <1>3, <2>1, <3>2, RowKnown
    <2>2. CASE h \notin Ids(list)
        <3>1. h \in DOMAIN records /\ h \in Int /\ list' = WithRow(list, h) /\ Matches(h, wanted)
            BY <1>2, <1>3, HitsAreIds DEF Foremost
        <3>2. PICK d : Pushed(h, d)
            BY <1>2, <2>2, <3>1, PushedList
        <3>3. Wants'
            <4>1. Ids(list') \subseteq Ids(list) \cup {h}
                BY <3>2 DEF Pushed
            <4>2. /\ Fetching' = Fetching /\ url' = url
                  /\ \A e : Matches(e, wanted)' <=> Matches(e, wanted)
                BY <1>3 DEF Foremost
            <4>3. \A e \in Ids(list) \cup {h} : Matches(e, wanted) \/ (Fetching /\ e <= url.after)
                BY <1>2, <3>1 DEF PageFits, Wants
            <4> QED
                BY <4>1, <4>2, <4>3 DEF Wants
        <3>4. CASE Rotated
            BY <1>1, <1>2, <1>3, <3>2, <3>3, <3>4, RowNext
        <3>5. CASE Sorted /\ Whole /\ \E e \in Ids(list) : h < e
            BY <1>2, <1>3, <2>2, <3>2, <3>3, <3>5, RowOld
        <3>6. CASE Sorted /\ Whole /\ ~\E e \in Ids(list) : h < e
            <4>1. \A e \in Ids(list) : e \in Int /\ e # h
                BY <1>2, <2>2, Held
            <4>2. \A e \in Ids(list) : e < h
                BY <3>1, <3>6, <4>1
            <4> QED
                BY <1>2, <1>3, <3>2, <3>3, <3>6, <4>2, RowNewest
        <3> QED
            BY <1>2, <3>4, <3>5, <3>6 DEF PageFits
    <2> QED
        BY <2>1, <2>2
<1> QED
    BY <1>4, <1>5 DEF PageFits

LEMMA FeedNext == FeedInv /\ [Next]_vars => FeedInv'
<1> SUFFICES ASSUME FeedInv, [Next]_vars PROVE FeedInv'
    OBVIOUS
<1>1. StreamInv' /\ FlowInv' /\ AnswerInv' /\ FeedType'
    BY StreamNext, FlowNext, AnswerNext DEF FeedInv, StreamInv
<1>3. ASSUME NEW p \in Packets, NEW hops \in HopCounts, Report(p, hops) PROVE Fits'
    BY <1>1, <1>3, ReportFits
<1>4. ASSUME NEW f \in Filters, Apply(f) PROVE Fits'
    BY <1>1, <1>4, ApplyFits
<1>5. ASSUME NEW r \in Routes, Serve(r) \/ Arrive(r) PROVE Fits'
    BY <1>1, <1>5, ServeFits, ArriveFits
<1>6. ASSUME Next PROVE Fits'
    BY <1>1, <1>3, <1>4, <1>5, <1>6, ConnectFits, TakeFits, SendFits, LossFits, DispatchFits, PollFits,
       FailFits DEF Next, StreamStep
<1>7. ASSUME UNCHANGED vars PROVE Fits'
    <2>1. /\ UNCHANGED <<records, ring, url, wanted, list, request, sent, channel, stream, gap>>
        BY <1>7 DEF vars, pageVars
    <2> SUFFICES ASSUME ~gap', NoLate(wanted)' PROVE PageFits'
        BY DEF Fits
    <2>2. PageFits /\ FeedType
        BY <2>1 DEF FeedInv, Fits, StreamInv, NoLate, Matches
    <2>3. \A id : Due(id) => Due(id)'
        BY <2>1 DEF Due, OnItsWay, Ids
    <2>4. Rotated => list[Len(list)] \in sent' \ Ids(channel')
        BY <2>1 DEF Rotated, Ids
    <2>5. OnItsWay' \subseteq Ids(ring)
        BY <2>1, <2>2 DEF OnItsWay, PageFits, Kept, Ids
    <2> QED
        BY <1>1, <2>1, <2>2, <2>3, <2>4, <2>5, FitsStays
<1> QED
    BY <1>1, <1>6, <1>7 DEF FeedInv

LEMMA FeedInit == Init /\ StreamInv => FeedInv
<1> SUFFICES ASSUME Init, StreamInv PROVE FeedInv
    OBVIOUS
<1>1. /\ channel = <<>> /\ list = <<>> /\ ring = <<>> /\ sent = {} /\ wanted = 0
      /\ stream.at = "closed" /\ stream.batch = <<>> /\ url = [filter |-> 0, after |-> 0]
      /\ request = [r \in Routes |-> NoRequest]
    BY DEF Init, Closed
<1>2. Ids(channel) = {} /\ Ids(list) = {} /\ Ids(ring) = {} /\ Ids(stream.batch) = {}
    BY <1>1 DEF Ids
<1>3. FlowInv
    BY <1>1, <1>2 DEF FlowInv, Ascends
<1>4. \A r \in Routes : request[r].at = "none"
    BY <1>1 DEF NoRequest
<1>5. AnswerInv /\ Asks /\ Covered
    BY <1>4 DEF AnswerInv, Asks, Covered, Fetching, Routes
<1>6. Wants /\ Kept /\ Shown /\ Sorted /\ Whole
    BY <1>1, <1>2 DEF Wants, Kept, OnItsWay, Shown, Hits, Sorted, Whole
<1> QED
    BY <1>3, <1>5, <1>6 DEF FeedInv, Fits, PageFits

LEMMA FeedAlways == Spec => []FeedInv
<1>1. Init /\ FeedType => FeedInv
    <2> SUFFICES ASSUME Init, FeedType PROVE FeedInv
        OBVIOUS
    <2>1. /\ DOMAIN records = {} /\ stream.at = "closed" /\ stream.batch = <<>>
          /\ DOMAIN stream.batch = {}
        BY DEF Init, Closed
    <2>2. StreamInv
        BY <2>1 DEF StreamInv, BornStays, StreamSkipsNothing, BatchInOrder, BatchComplete
    <2> QED
        BY <2>2, FeedInit
<1> QED
    BY <1>1, FeedNext, FeedTypeAlways, PTL DEF Spec

\* A snapshot has no row that Limit other matches are newer than.
LEMMA NotOlder ==
    ASSUME FeedType, NEW f, NEW s \in Seq(1 .. Len(records)),
           \A i, j \in DOMAIN s : i # j => s[i] # s[j],
           \A e \in Ids(s) : Matches(e, f),
           NEW id \in Ids(Snapshot(f)), Older(id, s)
    PROVE  FALSE
<1> DEFINE rows == Snapshot(f)
<1>1. /\ Len(records) \in Nat /\ DOMAIN records = 1 .. Len(records) /\ Limit \in Nat
    BY Held, FeedAssumption
<1>2. /\ rows \in Seq(1 .. Len(records)) /\ Len(rows) <= Limit
      /\ \A e \in Ids(rows) : e \in Ids(ring)
      /\ \A k \in Ids(ring) : Matches(k, f) => k \in Ids(rows) \/ Older(k, rows)
    BY SnapshotRows
<1>3. id \in Ids(rows)
    OBVIOUS
<1> HIDE DEF rows
<1>4. /\ DOMAIN rows = 1 .. Len(rows) /\ Len(rows) \in Nat /\ DOMAIN s = 1 .. Limit
      /\ \A e \in Ids(rows) \cup Ids(s) : e \in Int /\ e \in DOMAIN records
    BY <1>1, <1>2, SeqIds DEF Older
<1>5. ASSUME NEW e \in Ids(s) PROVE e \in Ids(rows) /\ id < e
    <2>1. id < e /\ id \in Int /\ e \in Int
        BY <1>3, <1>4 DEF Older
    <2>2. e \in Ids(ring)
        <3>1. id <= e
            BY <2>1
        <3> QED
            BY <1>2, <1>3, <1>4, <3>1, RingUp
    <2>3. ~Older(e, rows)
        <3>1. ~(e < id)
            BY <2>1
        <3> QED
            BY <1>3, <3>1 DEF Older
    <2> QED
        BY <1>2, <2>1, <2>2, <2>3
<1> DEFINE row(i) == IF i \in DOMAIN s THEN s[i] ELSE id
           at == [i \in 1 .. Limit + 1 |-> CHOOSE k \in DOMAIN rows : rows[k] = row(i)]
<1>6. \A i \in 1 .. Limit + 1 : row(i) \in Ids(rows)
    BY <1>3, <1>5 DEF Ids
<1> HIDE DEF row
<1>7. \A i \in 1 .. Limit + 1 : at[i] \in DOMAIN rows /\ rows[at[i]] = row(i)
    BY <1>6 DEF Ids
<1>8. at \in [1 .. Limit + 1 -> 1 .. Len(rows)]
    BY <1>4, <1>7
<1> HIDE DEF at
<1>9. PICK x, y \in 1 .. Limit + 1 : x # y /\ at[x] = at[y]
    <2>1. /\ IsFiniteSet(1 .. Limit + 1) /\ IsFiniteSet(1 .. Len(rows))
          /\ Cardinality(1 .. Limit + 1) = Limit + 1 /\ Cardinality(1 .. Len(rows)) = Len(rows)
        <3>1. \A n \in Nat : IsFiniteSet(1 .. n) /\ Cardinality(1 .. n) = n
            BY FS_Interval
        <3>2. Limit + 1 \in Nat /\ Len(rows) \in Nat
            BY <1>1, <1>4
        <3> QED
            BY <3>1, <3>2
    <2>2. Cardinality(1 .. Len(rows)) < Cardinality(1 .. Limit + 1)
        BY <1>1, <1>2, <1>4, <2>1
    <2> QED
        BY <1>8, <2>1, <2>2, FS_PigeonHole
<1>10. row(x) = row(y)
    BY <1>7, <1>9
<1>11. \A i \in DOMAIN s : s[i] \in Ids(s) /\ id # s[i]
    <2>1. \A i \in DOMAIN s : s[i] \in Ids(s)
        BY DEF Ids
    <2>2. \A e \in Ids(s) : id # e
        BY <1>3, <1>4, <1>5
    <2> QED
        BY <2>1, <2>2
<1>12. \A i \in 1 .. Limit + 1 : i \in DOMAIN s \/ i = Limit + 1
    BY <1>1, <1>4
<1> QED
    BY <1>9, <1>10, <1>11, <1>12 DEF row

\* Rows that are all newer than an id the page accounts for are different matches.
LEMMA NewerDiffer ==
    ASSUME FeedType, PageFits, NEW id \in Int, Here(id), Older(id, list)
    PROVE  /\ \A i, j \in DOMAIN list : i # j => list[i] # list[j]
           /\ \A e \in Ids(list) : Matches(e, wanted)
<1>1. /\ list \in Seq(1 .. Len(records)) /\ Len(records) \in Nat /\ url.after \in Int
    BY Held
<1>2. /\ DOMAIN list = 1 .. Len(list) /\ Len(list) \in Nat
      /\ \A i \in DOMAIN list : list[i] \in Ids(list) /\ list[i] \in Int
      /\ \A e \in Ids(list) : e \in Int
    BY <1>1, SeqIds
<1>3. \A e \in Ids(list) : Here(e) /\ (Fetching => url.after < e)
    BY <1>1, <1>2 DEF Here, Older
<1>4. \A e \in Ids(list) : Matches(e, wanted)
    <2>1. \A e \in Ids(list) : ~(Fetching /\ e <= url.after)
        BY <1>1, <1>2, <1>3
    <2> QED
        BY <2>1 DEF PageFits, Wants
<1>5. ASSUME NEW i \in DOMAIN list, NEW j \in DOMAIN list, i < j PROVE list[i] # list[j]
    <2>1. CASE Sorted
        BY <1>2, <1>3, <1>5, <2>1 DEF Sorted
    <2>2. CASE Rotated
        <3>1. PICK c \in 1 .. Len(list) - 1 :
                  \A k, l \in DOMAIN list : k < l /\ (l <= c \/ c < k) => list[k] < list[l]
            BY <2>2 DEF Rotated
        <3>2. PICK m \in Hits : list[Len(list)] < m /\ m < list[1]
            BY <2>2 DEF Rotated
        <3>3. m \in Int /\ 1 \in DOMAIN list /\ Len(list) \in DOMAIN list
            BY <1>2, <3>1, HitsAreIds
        <3>4. CASE j <= c \/ c < i
            BY <1>2, <1>5, <3>1, <3>4
        <3>5. CASE i <= c /\ c < j
            <4>1. list[1] <= list[i]
                BY <1>2, <3>1, <3>3, <3>5
            <4>2. list[j] <= list[Len(list)]
                BY <1>2, <3>1, <3>3, <3>5
            <4> QED
                BY <1>2, <3>2, <3>3, <4>1, <4>2
        <3> QED
            BY <1>2, <3>1, <3>4, <3>5
    <2> QED
        BY <2>1, <2>2 DEF PageFits
<1>6. \A i, j \in DOMAIN list : i # j => i < j \/ j < i
    BY <1>2
<1> QED
    BY <1>4, <1>5, <1>6

LEMMA FeedShows == FeedInv => RowShownOrComing
<1> SUFFICES ASSUME FeedInv, ~gap, NoLateMatch, NEW id \in Ids(Snapshot(wanted)), id \notin Ids(list)
             PROVE  Coming(id)
    BY DEF RowShownOrComing
<1>1. PageFits /\ FeedType
    BY DEF FeedInv, Fits, StreamInv, NoLate, NoLateMatch
<1>2. id \in Hits /\ id \in Int
    BY <1>1, SnapshotRows, Held DEF Hits
<1>3. CASE Here(id)
    <2>1. ~Older(id, list)
        <3>1. list \in Seq(1 .. Len(records))
            BY <1>1, Held
        <3> QED
            BY <1>1, <1>2, <1>3, <3>1, NewerDiffer, NotOlder
    <2> QED
        BY <1>1, <1>2, <1>3, <2>1 DEF PageFits, Shown, Coming
<1>4. CASE ~Here(id)
    <2> DEFINE q == request["announces"]
    <2>1. Fetching /\ id <= url.after
        BY <1>1, <1>2, <1>4, Held DEF Here
    <2>2. q.at # "none" /\ q.filter = wanted
        BY <1>1, <2>1 DEF PageFits, Asks, Fetching
    <2>3. ASSUME q.at = "served" PROVE id \in Ids(q.rows)
        <3>1. id \in Ids(q.rows) \/ Older(id, q.rows)
            BY <1>1, <1>2, <2>1, <2>3 DEF PageFits, Covered
        <3>2. q.rows \in Seq(1 .. Len(records)) /\ Len(records) \in Nat
            BY <1>1, AnswerRows, Held DEF Routes
        <3>3. Ascends(q.rows) /\ \A e \in Ids(q.rows) : Matches(e, wanted)
            BY <2>2, <2>3 DEF FeedInv, AnswerInv, IsAnswer, Routes
        <3>4. \A i, j \in DOMAIN q.rows : i # j => q.rows[i] # q.rows[j]
            <4>1. PICK s : s = q.rows
                OBVIOUS
            <4>2. /\ DOMAIN s = 1 .. Len(s) /\ Len(s) \in Nat
                  /\ \A i \in DOMAIN s : s[i] \in Int
                BY <3>2, <4>1, SeqIds
            <4>3. \A i, j \in DOMAIN s : i # j => i < j \/ j < i
                BY <4>2
            <4>4. \A i, j \in DOMAIN s : i < j => s[i] < s[j]
                BY <3>3, <4>1 DEF Ascends
            <4>5. \A i, j \in DOMAIN s : i # j => s[i] # s[j]
                BY <4>2, <4>3, <4>4
            <4> QED
                BY <4>1, <4>5
        <3> HIDE DEF q
        <3>5. ~Older(id, q.rows)
            BY <1>1, <3>2, <3>3, <3>4, NotOlder
        <3> QED
            BY <3>1, <3>5
    <2> QED
        BY <2>2, <2>3 DEF Coming
<1> QED
    BY <1>3, <1>4

\* The page and the server (startAnnounceUpdates, fetchAnnounces,
\* appendAnnounceFromStream; snapshot_announces, wait_for_announces) lose no row
\* between them: of the newest matches each is in the list, on the stream or in
\* the answer that is coming, for any limits and number of records.
THEOREM RowsComing == Spec => []RowShownOrComing
<1> QED
    BY FeedShows, FeedAlways, PTL

LEMMA FeedSettles == FeedInv => SettledListInOrder
<1> SUFFICES ASSUME FeedInv, ~gap, NoLateMatch, Settled,
                    NEW i \in DOMAIN list, NEW j \in DOMAIN list, i < j
             PROVE  list[i] < list[j]
    BY DEF SettledListInOrder
<1>1. PageFits /\ FeedType /\ RingInv
    BY DEF FeedInv, Fits, StreamInv, FeedType, NoLate, NoLateMatch
<1>2. ~Fetching /\ \A id : Here(id)
    BY DEF Settled, Fetching, Here, Routes
<1>3. ~Rotated
    <2> SUFFICES ASSUME NEW m \in Hits, Due(m) PROVE FALSE
        BY DEF Rotated
    <2>1. stream.at = "waiting" /\ channel = <<>> /\ stream.batch = <<>>
        BY DEF Settled, FeedInv, FlowInv
    <2>2. OnItsWay = {}
        BY <2>1 DEF OnItsWay, Ids
    <2>3. stream.last < m /\ m \in Ids(ring) /\ Matches(m, url.filter)
        BY <2>1, <2>2 DEF Due, Hits, FeedInv, FlowInv
    <2>4. stream.last \in Nat
        BY <1>1 DEF FeedType, TypeOK
    <2>5. Batch(url.filter, stream.last) # <<>>
        BY <1>1, <2>3, <2>4, BatchIsFirst
    <2> QED
        BY <2>5 DEF Settled
<1> QED
    BY <1>1, <1>2, <1>3 DEF PageFits, Sorted

\* When nothing is under way, the rows the page has put together of snapshots
\* and streams are in the order of their ids, and none is there twice.
THEOREM ListSettles == Spec => []SettledListInOrder
<1> QED
    BY FeedSettles, FeedAlways, PTL
=============================================================================
