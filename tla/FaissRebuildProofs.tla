------------------------- MODULE FaissRebuildProofs -------------------------
(***************************************************************************)
(* Proofs about FaissRebuild beside its process, for any faces, callers,   *)
(* page size and number of scripts: a rebuild or a migration that nobody   *)
(* disturbs leaves files a restart may trust, and a process that starts on *)
(* them keeps them so.                                                     *)
(***************************************************************************)
EXTENDS ServicesProofs, FaissIndexProofs

-----------------------------------------------------------------------------
(* Tables in the order of their ids.                                       *)
Ascending(s) == \A i, j \in DOMAIN s : i < j => s[i] < s[j]

(* All ids of S up to one that s lists are in s.                           *)
DownClosed(s, S) == \A g \in S : \A j \in DOMAIN s : g <= s[j] => g \in Range(s)

(* Where all smaller ids are listed, the place of an id is its rank.       *)
LEMMA PlaceIsRank ==
  ASSUME NEW S \in SUBSET Nat, NEW n \in Nat, NEW q \in [1..n -> S],
         Ascending(q), DownClosed(q, S), NEW i \in 1..n
  PROVE  Cardinality({g \in S : g <= q[i]}) = i
  <1> DEFINE B == {g \in S : g <= q[i]}
             e == [k \in 1..i |-> q[k]]
  <1>1. \A k \in 1..i : k \in 1..n /\ q[k] \in S /\ q[k] <= q[i]
    <2> SUFFICES ASSUME NEW k \in 1..i PROVE k \in 1..n /\ q[k] \in S /\ q[k] <= q[i]
      OBVIOUS
    <2>1. k \in 1..n /\ k \in Nat /\ i \in Nat /\ k <= i
      OBVIOUS
    <2>2. q[k] \in S /\ q[i] \in S
      BY <2>1
    <2>3. q[k] \in Nat /\ q[i] \in Nat
      BY <2>2
    <2>4. k = i \/ q[k] < q[i]
      BY <2>1 DEF Ascending
    <2> QED BY <2>1, <2>2, <2>3, <2>4
  <1>2. e \in [1..i -> B]
    BY <1>1
  <1>3. \A k, l \in 1..i : e[k] = e[l] => k = l
    <2> SUFFICES ASSUME NEW k \in 1..i, NEW l \in 1..i, k # l PROVE q[k] # q[l]
      OBVIOUS
    <2>1. k \in 1..n /\ l \in 1..n /\ (k < l \/ l < k)
      OBVIOUS
    <2>2. q[k] \in Nat /\ q[l] \in Nat
      BY <2>1
    <2> QED BY <2>1, <2>2 DEF Ascending
  <1>4. ASSUME NEW g \in B PROVE \E k \in 1..i : e[k] = g
    <2>1. g \in Range(q)
      BY <1>4 DEF DownClosed
    <2>2. PICK k \in 1..n : q[k] = g
      BY <2>1 DEF Range
    <2>3. ~(i < k)
      <3>1. q[k] \in Nat /\ q[i] \in Nat /\ q[k] <= q[i]
        BY <2>2
      <3> QED BY <3>1 DEF Ascending
    <2>4. k \in 1..i
      BY <2>3
    <2> QED BY <2>2, <2>4
  <1>5. e \in Bijection(1..i, B)
    <2> HIDE DEF e, B
    <2> QED BY <1>2, <1>3, <1>4 DEF Bijection, Injection, Surjection, IsInjective
  <1>6. ExistsBijection(1..i, B)
    BY <1>5 DEF ExistsBijection
  <1>7. Cardinality(B) = i
    <2> HIDE DEF e, B
    <2> QED BY <1>6, FS_CountingElements
  <1> QED BY <1>7

(* A finite table can be listed in the order of its ids, each id once.     *)
LEMMA TableLists ==
  ASSUME NEW S \in SUBSET Nat, IsFiniteSet(S)
  PROVE  /\ Table(S) \in Seq(S)
         /\ Len(Table(S)) = Cardinality(S)
         /\ Ascending(Table(S))
         /\ Range(Table(S)) = S
  <1> DEFINE n == Cardinality(S)
             upto(x) == {g \in S : g <= x}
             rank == [x \in S |-> Cardinality(upto(x))]
             t == [i \in 1..n |-> CHOOSE x \in S : rank[x] = i]
  <1>1. n \in Nat
    BY FS_CardinalityType
  <1>2. \A x \in S : upto(x) \in SUBSET S /\ IsFiniteSet(upto(x)) /\ Cardinality(upto(x)) \in Nat
                     /\ Cardinality(upto(x)) <= n
    BY FS_Subset, FS_CardinalityType
  <1>3. ASSUME NEW x \in S PROVE Cardinality(upto(x)) >= 1
    <2>1. x \in upto(x)
      OBVIOUS
    <2>2. Cardinality(upto(x)) # 0
      <3> HIDE DEF upto
      <3> QED BY <1>2, <2>1, FS_EmptySet
    <2> QED BY <1>2, <2>2
  <1>4. ASSUME NEW x \in S, NEW y \in S, x < y PROVE Cardinality(upto(x)) < Cardinality(upto(y))
    <2>1. upto(x) \in SUBSET upto(y) /\ upto(x) # upto(y)
      <3>1. y \in upto(y) /\ y \notin upto(x)
        BY <1>4
      <3>2. \A l \in S : l <= x => l <= y
        BY <1>4
      <3> QED BY <3>1, <3>2
    <2> HIDE DEF upto
    <2> QED BY <1>2, <2>1, FS_Subset
  <1>5. rank \in [S -> 1..n]
    <2> HIDE DEF upto, n
    <2> QED BY <1>1, <1>2, <1>3
  <1>6. \A x, y \in S : x < y => rank[x] < rank[y]
    BY <1>4
  <1>7. \A x, y \in S : rank[x] = rank[y] => x = y
    <2> HIDE DEF rank, n
    <2>1. \A x, y \in S : x # y => (x < y \/ y < x)
      OBVIOUS
    <2>2. \A x \in S : rank[x] \in Nat
      BY <1>5
    <2> QED BY <1>6, <2>1, <2>2
  <1>8. rank \in Injection(S, 1..n)
    <2> HIDE DEF rank, n
    <2> QED BY <1>5, <1>7 DEF Injection, IsInjective
  <1>9. IsFiniteSet(1..n) /\ Cardinality(1..n) = n
    <2> HIDE DEF n
    <2> QED BY <1>1, FS_Interval
  <1>10. rank \in Surjection(S, 1..n)
    <2> HIDE DEF rank
    <2> QED BY <1>8, <1>9, FS_Injection
  <1>11. \A i \in 1..n : t[i] \in S /\ rank[t[i]] = i
    <2>1. \A i \in 1..n : \E x \in S : rank[x] = i
      <3> HIDE DEF rank, n
      <3> QED BY <1>10 DEF Surjection
    <2> HIDE DEF rank, n
    <2> QED BY <2>1
  <1>12. t \in [1..n -> S]
    <2> HIDE DEF rank, n
    <2> QED BY <1>11
  <1>13. \A i, j \in 1..n : i < j => t[i] < t[j]
    <2> SUFFICES ASSUME NEW i \in 1..n, NEW j \in 1..n, i < j PROVE t[i] < t[j]
      OBVIOUS
    <2> HIDE DEF rank, t, n
    <2>1. t[i] \in S /\ t[j] \in S /\ rank[t[i]] = i /\ rank[t[j]] = j
      BY <1>11
    <2>2. t[j] < t[i] => j < i
      BY <2>1, <1>6
    <2>3. t[i] \in Nat /\ t[j] \in Nat
      BY <2>1
    <2>4. ~(j < i) /\ i # j
      BY <1>1
    <2> QED BY <2>1, <2>2, <2>3, <2>4
  <1>14. \E s \in [1..n -> S] : \A i, j \in DOMAIN s : i < j => s[i] < s[j]
    <2> HIDE DEF t, n
    <2> QED BY <1>12, <1>13
  <1> DEFINE T == Table(S)
  <1>15. T \in [1..n -> S] /\ \A i, j \in DOMAIN T : i < j => T[i] < T[j]
    BY <1>14 DEF Table
  <1> HIDE DEF t, n, T, rank, upto
  <1>16. T \in Seq(S) /\ Len(T) = n
    BY <1>1, <1>15, SeqOfFunction
  <1>17. \A i, j \in 1..n : T[i] = T[j] => i = j
    <2> SUFFICES ASSUME NEW i \in 1..n, NEW j \in 1..n, i # j PROVE T[i] # T[j]
      OBVIOUS
    <2>1. i < j \/ j < i
      BY <1>1
    <2>2. T[i] \in Nat /\ T[j] \in Nat /\ DOMAIN T = 1..n
      BY <1>15
    <2> QED BY <1>15, <2>1, <2>2
  <1>18. T \in Injection(1..n, S)
    BY <1>15, <1>17 DEF Injection, IsInjective
  <1>19. T \in Surjection(1..n, S)
    BY <1>9, <1>18, FS_Injection DEF n
  <1>20. Range(T) = S
    BY <1>15, <1>19 DEF Surjection, Range
  <1> QED BY <1>15, <1>16, <1>20 DEF Ascending, T, n

(* What is fetched in the order of the ids, and of the smallest ids, is    *)
(* the beginning of the table.                                             *)
LEMMA FetchedIsPrefix ==
  ASSUME NEW S \in SUBSET Nat, IsFiniteSet(S), NEW s \in Seq(S),
         Ascending(s), DownClosed(s, S)
  PROVE  /\ Len(s) <= Len(Table(S))
         /\ \A i \in 1..Len(s) : s[i] = Table(S)[i]
  <1> DEFINE T == Table(S)
             n == Len(s)
             m == Len(T)
  <1>1. n \in Nat /\ s \in [1..n -> S] /\ DOMAIN s = 1..n
    BY LenProperties
  <1>2. m \in Nat /\ T \in [1..m -> S] /\ DOMAIN T = 1..m /\ Ascending(T) /\ Range(T) = S
    BY TableLists, LenProperties
  <1>3. DownClosed(T, S)
    BY <1>2 DEF DownClosed
  <1> HIDE DEF T, n, m
  <1>4. ASSUME NEW i \in 1..n PROVE i <= m /\ s[i] = T[i]
    <2>1. Cardinality({g \in S : g <= s[i]}) = i
      BY <1>1, PlaceIsRank
    <2>2. s[i] \in Range(T)
      BY <1>1, <1>2
    <2>3. PICK k \in 1..m : T[k] = s[i]
      BY <1>2, <2>2 DEF Range
    <2>4. Cardinality({g \in S : g <= T[k]}) = k
      BY <1>2, <1>3, PlaceIsRank
    <2>5. k = i
      BY <2>1, <2>3, <2>4
    <2>6. i <= m
      BY <2>5, <1>2
    <2> QED BY <2>3, <2>5, <2>6
  <1>5. n <= m
    <2>1. CASE n = 0
      BY <2>1, <1>2
    <2>2. CASE n # 0
      <3>1. n \in 1..n
        BY <1>1, <2>2
      <3> QED BY <3>1, <1>4
    <2> QED BY <2>1, <2>2
  <1>6. \A i \in 1..n : s[i] = T[i]
    BY <1>4
  <1> QED BY <1>5, <1>6 DEF n, m, T

(* The beginning of the table, from another length on, is one again.       *)
LEMMA PageExtends ==
  ASSUME NEW S \in SUBSET Nat, IsFiniteSet(S), NEW s \in Seq(S),
         Ascending(s), DownClosed(s, S),
         NEW m \in Nat, Len(s) <= m, m <= Len(Table(S))
  PROVE  LET r == s \o SubSeq(Table(S), Len(s) + 1, m) IN
         /\ r \in Seq(S) /\ Len(r) = m
         /\ Ascending(r) /\ DownClosed(r, S)
  <1> DEFINE T == Table(S)
             n == Len(s)
             q == SubSeq(T, n + 1, m)
             r == s \o q
  <1>1. n \in Nat /\ DOMAIN s = 1..n
    BY LenProperties
  <1>2. /\ T \in Seq(S) /\ Len(T) \in Nat /\ DOMAIN T = 1..Len(T)
        /\ T \in [1..Len(T) -> S] /\ Ascending(T) /\ Range(T) = S
    BY TableLists, LenProperties
  <1>3. \A i \in 1..n : s[i] = T[i]
    BY FetchedIsPrefix
  <1>4. m <= Len(T)
    OBVIOUS
  <1> HIDE DEF T
  <1>5. \A i \in n + 1..m : T[i] \in S
    <2> SUFFICES ASSUME NEW i \in n + 1..m PROVE T[i] \in S
      OBVIOUS
    <2>1. i \in 1..Len(T)
      <3> HIDE DEF n
      <3> QED BY <1>1, <1>2, <1>4
    <2> QED BY <2>1, <1>2
  <1>6. q \in Seq(S) /\ Len(q) = m - n /\ \A i \in 1..m - n : q[i] = T[n + i]
    <2>0. n <= m
      OBVIOUS
    <2> HIDE DEF n
    <2>1. /\ q \in Seq(S) /\ Len(q) = IF n + 1 <= m THEN m - (n + 1) + 1 ELSE 0
          /\ \A i \in 1..m - (n + 1) + 1 : q[i] = T[n + 1 + i - 1]
      BY <1>1, <1>5, SubSeqProperties
    <2>2. m - (n + 1) + 1 = m - n /\ \A i \in 1..m - n : n + 1 + i - 1 = n + i
      BY <1>1
    <2>3. \A i \in 1..m - n : q[i] = T[n + i]
      BY <2>1, <2>2
    <2> HIDE DEF q
    <2>4. Len(q) = m - n
      BY <1>1, <2>0, <2>1
    <2> QED BY <2>1, <2>3, <2>4
  <1>7. n <= m
    OBVIOUS
  <1> HIDE DEF n, q
  <1>8. /\ r \in Seq(S) /\ Len(r) = m
        /\ \A i \in 1..m : r[i] = IF i <= n THEN s[i] ELSE q[i - n]
    <2>1. /\ r \in Seq(S) /\ Len(r) = n + Len(q)
          /\ \A i \in 1..n + Len(q) : r[i] = IF i <= n THEN s[i] ELSE q[i - n]
      BY <1>6, ConcatProperties DEF n
    <2>2. n + Len(q) = m
      BY <1>1, <1>6, <1>7
    <2> QED BY <2>1, <2>2
  <1>9. ASSUME NEW i \in 1..m PROVE r[i] = T[i]
    <2>1. CASE i <= n
      <3>1. i \in 1..n
        BY <2>1, <1>1
      <3> QED BY <3>1, <2>1, <1>3, <1>8
    <2>2. CASE ~(i <= n)
      <3>1. i - n \in 1..m - n /\ n + (i - n) = i
        BY <2>2, <1>1
      <3> HIDE DEF r
      <3> QED BY <3>1, <2>2, <1>6, <1>8
    <2> QED BY <2>1, <2>2
  <1>10. DOMAIN r = 1..m /\ \A i \in 1..m : i \in 1..Len(T)
    <2>1. DOMAIN r = 1..m
      BY <1>8, LenProperties
    <2> QED BY <2>1, <1>2, <1>4
  <1> HIDE DEF r
  <1>11. Ascending(r)
    BY <1>2, <1>9, <1>10 DEF Ascending
  <1>12. DownClosed(r, S)
    <2> SUFFICES ASSUME NEW g \in S, NEW j \in 1..m, g <= r[j] PROVE g \in Range(r)
      BY <1>10 DEF DownClosed
    <2>1. PICK k \in 1..Len(T) : T[k] = g
      BY <1>2 DEF Range
    <2>2. ~(j < k)
      <3>1. j \in 1..Len(T) /\ T[k] <= T[j]
        BY <1>9, <1>10, <2>1
      <3>2. T[k] \in S /\ T[j] \in S
        BY <1>2, <3>1
      <3>3. ~(T[j] < T[k])
        <4>1. T[k] \in Nat /\ T[j] \in Nat
          BY <3>2
        <4> QED BY <3>1, <4>1
      <3> QED BY <3>1, <3>3, <1>2 DEF Ascending
    <2>3. k \in 1..m
      BY <2>2
    <2>4. r[k] = g
      BY <2>1, <2>3, <1>9
    <2> QED BY <2>3, <2>4, <1>10 DEF Range
  <1> QED BY <1>8, <1>11, <1>12 DEF r, q, n, T

(* Each row of the table, and none of them twice.                          *)
Repaired(s, S) == IsInjective(s) /\ S \subseteq Range(s)

(* A beginning as long as the table is the table.                          *)
LEMMA FetchedAll ==
  ASSUME NEW S \in SUBSET Nat, IsFiniteSet(S), NEW s \in Seq(S),
         Ascending(s), DownClosed(s, S), Len(s) >= Cardinality(S)
  PROVE  Repaired(s, S)
  <1> DEFINE T == Table(S)
             n == Len(s)
  <1>1. n \in Nat /\ DOMAIN s = 1..n /\ s \in [1..n -> S]
    BY LenProperties
  <1>2. Len(T) = n /\ \A i \in 1..n : s[i] = T[i]
    <2>1. Len(s) <= Len(T) /\ Len(T) = Cardinality(S)
      BY TableLists, FetchedIsPrefix
    <2>2. Len(T) = n
      BY <1>1, <2>1
    <2> QED BY <2>2, FetchedIsPrefix
  <1>3. T \in Seq(S) /\ Range(T) = S /\ DOMAIN T = 1..n
    BY <1>2, TableLists, LenProperties
  <1> HIDE DEF T, n
  <1>4. S \subseteq Range(s)
    BY <1>1, <1>2, <1>3 DEF Range
  <1>5. \A i, j \in 1..n : s[i] = s[j] => i = j
    <2> SUFFICES ASSUME NEW i \in 1..n, NEW j \in 1..n, i # j PROVE s[i] # s[j]
      OBVIOUS
    <2>1. i < j \/ j < i
      BY <1>1
    <2>2. s[i] \in Nat /\ s[j] \in Nat
      BY <1>1
    <2> QED BY <1>1, <2>1, <2>2 DEF Ascending
  <1> QED BY <1>1, <1>4, <1>5 DEF Repaired, IsInjective

-----------------------------------------------------------------------------
(* Type correctness.                                                       *)

(* Inductive: whatever is in memory, on disk or on its way there is a list *)
(* of rows of the table.                                                   *)
RowsOnly ==
  /\ IsFiniteSet(faces)
  /\ live_index \in Seq(faces) /\ live_ids \in Seq(faces) /\ staging \in Seq(faces)
  /\ disk_index \in Seq(faces) /\ disk_ids \in Seq(faces)

RebuildTypes == RebuildTypeOK /\ RowsOnly

(* A page of a finite table is a list of its rows, and ends a page size    *)
(* further or with the table.                                              *)
LEMMA PageIsOfRows ==
  ASSUME NEW S \in SUBSET Nat, IsFiniteSet(S), NEW o \in Nat
  PROVE  LET end == Min({o + Page, Len(Table(S))}) IN
         /\ end \in Nat /\ end <= Len(Table(S)) /\ end <= o + Page
         /\ end = o + Page \/ end = Len(Table(S))
         /\ SubSeq(Table(S), o + 1, end) \in Seq(S)
         /\ SubSeq(Table(S), o + 1, end) = <<>> => Len(Table(S)) <= o
  <1> DEFINE T == Table(S)
             end == Min({o + Page, Len(T)})
             q == SubSeq(T, o + 1, end)
  <1>1. T \in Seq(S) /\ Len(T) \in Nat /\ T \in [1..Len(T) -> S]
    BY TableLists, LenProperties
  <1> HIDE DEF T
  <1>2. o + Page \in Nat /\ o + Page > o
    BY FaissRebuildAssumption
  <1>3. \E x \in {o + Page, Len(T)} : \A y \in {o + Page, Len(T)} : x <= y
    BY <1>1, <1>2
  <1>4. end \in {o + Page, Len(T)} /\ end <= o + Page /\ end <= Len(T)
    BY <1>3 DEF Min
  <1> HIDE DEF end
  <1>5. end \in Nat
    BY <1>1, <1>2, <1>4
  <1>6. \A i \in o + 1..end : T[i] \in S
    <2> SUFFICES ASSUME NEW i \in o + 1..end PROVE T[i] \in S
      OBVIOUS
    <2>1. i \in Nat /\ i >= 1 /\ i <= end
      BY <1>5
    <2>2. i <= Len(T)
      <3> DEFINE l == Len(T)
      <3>1. l \in Nat /\ end <= l
        BY <1>1, <1>4
      <3> HIDE DEF l
      <3>2. i <= l
        BY <1>5, <2>1, <3>1
      <3> QED BY <3>2 DEF l
    <2>3. i \in 1..Len(T)
      BY <1>1, <2>1, <2>2
    <2> QED BY <2>3, <1>1
  <1>7. q \in Seq(S) /\ Len(q) = IF o + 1 <= end THEN end - (o + 1) + 1 ELSE 0
    BY <1>5, <1>6, SubSeqProperties
  <1>8. q = <<>> => Len(T) <= o
    <2>1. q = <<>> => Len(q) = 0
      BY EmptySeq
    <2> HIDE DEF q
    <2>2. Len(q) = 0 => end <= o
      BY <1>5, <1>7
    <2>3. end = Len(T) \/ end > o
      BY <1>2, <1>4
    <2> QED BY <2>1, <2>2, <2>3, <1>5
  <1> QED BY <1>4, <1>5, <1>7, <1>8 DEF q, end, T

(* What a load makes of lists of rows.                                     *)
LEMMA RestoredIsOfRows ==
  ASSUME NEW S, disk_index \in Seq(S), disk_ids \in Seq(S)
  PROVE  RestoredIds \in Seq(S)
  <1>1. CASE Len(disk_ids) > Len(disk_index)
    <2>1. Len(disk_index) \in Nat /\ Len(disk_ids) \in Nat
      BY LenProperties
    <2>2. \A i \in 1..Len(disk_index) : disk_ids[i] \in S
      BY <1>1, <2>1, ElementOfSeq
    <2> QED BY <1>1, <2>1, <2>2, SubSeqProperties DEF RestoredIds
  <1>2. CASE ~(Len(disk_ids) > Len(disk_index))
    BY <1>2 DEF RestoredIds
  <1> QED BY <1>1, <1>2

(* The process is down over a table and what is left of its files.         *)
LEMMA RebuildTypesInit == RebuildInit => RebuildTypes
  <1> SUFFICES ASSUME RebuildInit PROVE RebuildTypes
    OBVIOUS
  <1>1. faces \in SUBSET Nat /\ faces \subseteq Face /\ IsFiniteSet(faces)
    BY FaissRebuildAssumption DEF RebuildInit
  <1>2. Table(faces) \in Seq(faces) /\ <<>> \in Seq(faces) /\ <<>> \in Seq(Face)
    BY <1>1, TableLists, EmptySeq
  <1>3. RowsOnly
    BY <1>1, <1>2 DEF RebuildInit, RowsOnly
  <1>4. disk_index \in Seq(Face) /\ disk_ids \in Seq(Face)
    BY <1>1, <1>3, SeqMonotonic DEF RowsOnly
  <1>5. TypeOK
    <2>1. up \in BOOLEAN /\ trained \in BOOLEAN /\ tainted \in BOOLEAN
      BY DEF RebuildInit
    <2> QED BY <1>2, <1>4, <2>1, FaissIndexAssumption DEF RebuildInit, TypeOK, Stages
  <1>6. /\ covered \subseteq faces /\ scripts \in 0..MaxScripts
        /\ temp \in [DiskFile -> Seq(faces)]
    BY <1>2, FaissRebuildAssumption DEF RebuildInit, NoTemp, DiskFile
  <1>7. wrote \in BOOLEAN /\ sound \in [files : BOOLEAN, memory : BOOLEAN]
    BY DEF RebuildInit
  <1>8. script \in [stage : {"idle", "fetch", "write_index", "write_ids", "index", "ids",
                             "ivf_index", "ivf_ids"},
                    rows : Seq(faces), table : SUBSET faces, offset : Nat, clean : BOOLEAN]
    BY <1>2 DEF RebuildInit, NoScript
  <1>9. siblings \in [index : Seq(faces), ids : Seq(faces), table : SUBSET faces]
    BY <1>2 DEF RebuildInit, NoSibling
  <1> QED BY <1>1, <1>3, <1>5, <1>6, <1>7, <1>8, <1>9 DEF RebuildTypes, RebuildTypeOK

(* A list of rows stays one when a row is committed.                       *)
LEMMA RowsStay ==
  ASSUME NEW f
  PROVE  /\ \A s \in Seq(faces) : s \in Seq(faces \union {f})
  BY SeqMonotonic

ScriptsOf(S) ==
  [stage : {"idle", "fetch", "write_index", "write_ids", "index", "ids",
            "ivf_index", "ivf_ids"},
   rows : Seq(S), table : SUBSET S, offset : Nat, clean : BOOLEAN]
SiblingsOf(S) == [index : Seq(S), ids : Seq(S), table : SUBSET S]
TempsOf(S)    == [DiskFile -> Seq(S)]

(* What the types are, the index's own and those of the scripts.           *)
LEMMA RebuildTypesAre ==
  RebuildTypes <=> /\ TypeOK /\ RowsOnly /\ faces \subseteq Face /\ covered \subseteq faces
                   /\ temp \in TempsOf(faces) /\ wrote \in BOOLEAN
                   /\ script \in ScriptsOf(faces) /\ siblings \in SiblingsOf(faces)
                   /\ sound \in [files : BOOLEAN, memory : BOOLEAN]
                   /\ scripts \in 0..MaxScripts
  BY DEF RebuildTypes, RebuildTypeOK, TempsOf, ScriptsOf, SiblingsOf

(* The same of the state after a step.                                     *)
LEMMA RebuildTypesWillBe ==
  RebuildTypes' <=> /\ TypeOK' /\ RowsOnly' /\ faces' \subseteq Face /\ covered' \subseteq faces'
                    /\ temp' \in TempsOf(faces') /\ wrote' \in BOOLEAN
                    /\ script' \in ScriptsOf(faces') /\ siblings' \in SiblingsOf(faces')
                    /\ sound' \in [files : BOOLEAN, memory : BOOLEAN]
                    /\ scripts' \in 0..MaxScripts
  BY DEF RebuildTypes, RebuildTypeOK, TempsOf, ScriptsOf, SiblingsOf

(* Nothing read, nothing written.                                          *)
LEMMA EmptyTypes ==
  ASSUME NEW S
  PROVE  /\ <<>> \in Seq(S) /\ NoTemp \in TempsOf(S) /\ NoScript \in ScriptsOf(S)
         /\ NoSibling \in SiblingsOf(S)
  BY EmptySeq DEF NoTemp, TempsOf, DiskFile, NoScript, ScriptsOf, NoSibling, SiblingsOf

(* A step of the process as FaissIndex has it, over the rows it knows.     *)
LEMMA IndexRowsStep ==
  ASSUME RebuildTypes, NEW c \in Callers, UNCHANGED faces,
         (\E f \in faces : Add(c, f)) \/ ForceMerge(c) \/ MergeSkips(c) \/ MergeRaises(c)
           \/ Catch(c) \/ Publish(c) \/ MergeBegins(c) \/ SaveFails(c)
  PROVE  TypeOK' /\ RowsOnly'
  <1>0. /\ TypeOK /\ RowsOnly /\ faces \subseteq Face /\ <<>> \in Seq(faces)
        /\ live_ids \o staging \in Seq(faces) /\ live_index \o staging \in Seq(faces)
    BY EmptySeq, ConcatProperties DEF RebuildTypes, RebuildTypeOK, RowsOnly
  <1>1. TypeOK'
    BY <1>0, TypeStep DEF NextIndex, MergeStep
  <1>2. RowsOnly'
    <2> USE <1>0 DEF RowsOnly, disk, memory
    <2>1. ASSUME NEW f \in faces, Add(c, f) PROVE RowsOnly'
      <3>1. Staged(staging, f) \in Seq(faces)
        BY AppendProperties DEF Staged
      <3> QED BY <2>1, <3>1 DEF Add, Buffer
    <2>2. CASE ForceMerge(c) \/ MergeSkips(c) \/ MergeRaises(c) \/ Catch(c) \/ SaveFails(c)
      BY <2>2 DEF ForceMerge, MergeSkips, MergeRaises, Catch, SaveFails
    <2>3. CASE Publish(c)
      BY <2>3 DEF Publish
    <2>4. CASE MergeBegins(c)
      BY <2>4 DEF MergeBegins
    <2> QED BY <2>1, <2>2, <2>3, <2>4
  <1> QED BY <1>1, <1>2

(* So are the process's loads and its death.                               *)
LEMMA LoadRows ==
  ASSUME RebuildTypes, UNCHANGED faces, Start \/ StartUnreadable \/ Crash
  PROVE  TypeOK' /\ RowsOnly'
  <1>0. TypeOK /\ RowsOnly /\ <<>> \in Seq(faces)
    BY EmptySeq DEF RebuildTypes, RebuildTypeOK
  <1>1. TypeOK'
    BY <1>0, TypeStep DEF NextIndex
  <1>2. CASE Start
    BY <1>0, <1>1, <1>2, RestoredIsOfRows DEF Start, RowsOnly, disk
  <1>3. CASE StartUnreadable \/ Crash
    BY <1>0, <1>1, <1>3 DEF StartUnreadable, Crash, RowsOnly, disk
  <1> QED BY <1>2, <1>3

(* The process keeps the types.                                            *)
LEMMA ProcessTypes ==
  ASSUME RebuildTypes, Process
  PROVE  RebuildTypes'
  <1>0. /\ TypeOK /\ RowsOnly /\ faces \subseteq Face /\ covered \subseteq faces
        /\ temp \in TempsOf(faces) /\ wrote \in BOOLEAN
        /\ script \in ScriptsOf(faces) /\ siblings \in SiblingsOf(faces)
        /\ sound \in [files : BOOLEAN, memory : BOOLEAN]
        /\ scripts \in 0..MaxScripts
        /\ IsFiniteSet(faces) /\ <<>> \in Seq(faces) /\ NoTemp \in TempsOf(faces)
    BY RebuildTypesAre, EmptyTypes DEF RowsOnly
  <1>1. ASSUME NEW f \in Face, Commit(f) PROVE RebuildTypes'
    <2>1. faces' = faces \union {f} /\ IsFiniteSet(faces') /\ faces' \subseteq Face
      BY <1>0, <1>1, FS_AddElement DEF Commit
    <2>2. \A s \in Seq(faces) : s \in Seq(faces')
      BY <2>1, RowsStay
    <2>3. RowsOnly'
      BY <1>0, <1>1, <2>1, <2>2 DEF Commit, indexVars, memory, disk, RowsOnly
    <2>4. TypeOK'
      BY <1>0, <1>1 DEF Commit, indexVars, memory, disk, faults, TypeOK
    <2>5. (temp \in TempsOf(faces))'
      BY <1>0, <1>1, <2>2 DEF Commit, TempsOf
    <2>6. (script \in ScriptsOf(faces))'
      <3>1. script'.clean \in BOOLEAN /\ script' = [script EXCEPT !.clean = script'.clean]
        BY <1>0, <1>1 DEF Commit, ScriptsOf
      <3> QED BY <1>0, <2>1, <2>2, <3>1 DEF ScriptsOf
    <2>7. (siblings \in SiblingsOf(faces))'
      BY <1>0, <1>1, <2>1, <2>2 DEF Commit, SiblingsOf
    <2>8. covered' \subseteq faces' /\ UNCHANGED <<wrote, sound, scripts>>
      BY <1>0, <1>1, <2>1 DEF Commit
    <2> QED BY <1>0, <2>1, <2>3, <2>4, <2>5, <2>6, <2>7, <2>8, RebuildTypesWillBe
  <1>2. Touched => script' \in ScriptsOf(faces)
    <2> SUFFICES ASSUME Touched PROVE script' \in ScriptsOf(faces)
      OBVIOUS
    <2>1. script'.clean \in BOOLEAN /\ script' = [script EXCEPT !.clean = script'.clean]
      BY <1>0 DEF Touched, ScriptsOf
    <2> QED BY <1>0, <2>1 DEF ScriptsOf
  <1>3. ASSUME NEW c \in Callers, Write(c) PROVE RebuildTypes'
    <2>1. Saved(c) \in Seq(faces)
      BY <1>0, ConcatProperties DEF Saved, RowsOnly
    <2>2. temp' \in TempsOf(faces) /\ wrote' \in BOOLEAN
      BY <1>0, <1>3, <2>1 DEF Write, Mine, DiskFile, TempsOf
    <2>3. UNCHANGED <<indexVars, faces, siblings, covered, sound, scripts>>
      BY <1>3 DEF Write
    <2>4. TypeOK' /\ RowsOnly'
      BY <1>0, <2>3 DEF indexVars, memory, disk, faults, TypeOK, RowsOnly
    <2>5. script' \in ScriptsOf(faces)
      BY <1>2, <1>3 DEF Write
    <2> QED BY <1>0, <2>2, <2>3, <2>4, <2>5, RebuildTypesWillBe
  <1>4. ASSUME NEW c \in Callers, Rename(c) PROVE RebuildTypes'
    <2>1. temp.ids \in Seq(faces) /\ temp.index \in Seq(faces)
      BY <1>0 DEF TempsOf, DiskFile
    <2>2. temp.ids \in Seq(Face) /\ temp.index \in Seq(Face)
      BY <1>0, <2>1, SeqMonotonic
    <2>3. temp' \in TempsOf(faces)
      BY <1>0, <1>4 DEF Rename, Mine, DiskFile, TempsOf
    <2>4. sound' \in [files : BOOLEAN, memory : BOOLEAN]
      <3>1. sound'.files \in BOOLEAN /\ sound' = [sound EXCEPT !.files = sound'.files]
        BY <1>0, <1>4 DEF Rename
      <3> QED BY <1>0, <3>1
    <2>5. /\ UNCHANGED <<up, lock, memory, faults, tainted, faces, siblings, covered, scripts>>
          /\ script' \in ScriptsOf(faces) /\ wrote' \in BOOLEAN
      BY <1>2, <1>4 DEF Rename
    <2>6. /\ disk_ids' \in {disk_ids, temp.ids} /\ disk_index' \in {disk_index, temp.index}
          /\ pc' \in [Callers -> Stages]
      BY <1>0, <1>4 DEF Rename, Goto, Stages, TypeOK
    <2>7. RowsOnly'
      BY <1>0, <2>1, <2>5, <2>6 DEF memory, RowsOnly
    <2>8. TypeOK'
      BY <1>0, <2>2, <2>5, <2>6 DEF memory, faults, TypeOK
    <2> QED BY <1>0, <2>3, <2>4, <2>5, <2>7, <2>8, RebuildTypesWillBe
  <1>5. ASSUME NEW c \in Callers, RenameFails(c) PROVE RebuildTypes'
    <2>1. UNCHANGED <<faces, siblings, covered, sound, scripts>>
      BY <1>5 DEF RenameFails
    <2>2. temp' \in TempsOf(faces) /\ wrote' \in BOOLEAN
      BY <1>0, <1>5 DEF RenameFails, Mine, DiskFile, TempsOf
    <2>3. TypeOK' /\ RowsOnly'
      <3>1. CASE SaveFails(c)
        BY <2>1, <3>1, IndexRowsStep
      <3>2. CASE /\ lock' = NoCaller /\ Goto(c, "idle")
                 /\ UNCHANGED <<up, memory, disk, faults, tainted>>
        BY <1>0, <2>1, <3>2 DEF memory, disk, faults, Goto, Stages, TypeOK, RowsOnly
      <3> QED BY <1>5, <3>1, <3>2 DEF RenameFails
    <2>4. script' \in ScriptsOf(faces)
      BY <1>2, <1>5 DEF RenameFails
    <2> QED BY <1>0, <2>1, <2>2, <2>3, <2>4, RebuildTypesWillBe
  <1>6. ASSUME NEW c \in Callers, Merge(c) PROVE RebuildTypes'
    <2>1. UNCHANGED <<temp, wrote, faces, script, siblings, covered, scripts>>
      BY <1>6 DEF Merge
    <2>2. TypeOK' /\ RowsOnly'
      BY <1>6, <2>1, IndexRowsStep DEF Merge
    <2>3. sound' \in [files : BOOLEAN, memory : BOOLEAN]
      <3>1. sound'.memory \in BOOLEAN /\ sound' = [sound EXCEPT !.memory = sound'.memory]
        BY <1>0, <1>6 DEF Merge
      <3> QED BY <1>0, <3>1
    <2> QED BY <1>0, <2>1, <2>2, <2>3, RebuildTypesWillBe
  <1>7. ASSUME NEW c \in Callers, Serve(c) PROVE RebuildTypes'
    <2>1. UNCHANGED <<temp, wrote, faces, script, siblings, covered, sound, scripts>>
      BY <1>7 DEF Serve, maintenance
    <2>2. TypeOK' /\ RowsOnly'
      BY <1>7, <2>1, IndexRowsStep DEF Serve
    <2> QED BY <1>0, <2>1, <2>2, RebuildTypesWillBe
  <1>8. CASE Load
    <2>1. UNCHANGED <<faces, script, siblings, covered, scripts>>
      BY <1>8 DEF Load
    <2>2. TypeOK' /\ RowsOnly'
      BY <1>8, <2>1, LoadRows DEF Load
    <2>3. temp' \in TempsOf(faces) /\ wrote' \in BOOLEAN
      BY <1>0, <1>8 DEF Load
    <2>4. sound' \in [files : BOOLEAN, memory : BOOLEAN]
      <3>1. sound'.memory \in BOOLEAN /\ sound' = [sound EXCEPT !.memory = sound'.memory]
        BY <1>0, <1>8 DEF Load
      <3> QED BY <1>0, <3>1
    <2> QED BY <1>0, <2>1, <2>2, <2>3, <2>4, RebuildTypesWillBe
  <1> QED BY <1>1, <1>3, <1>4, <1>5, <1>6, <1>7, <1>8 DEF Process

(* So do the scripts and the operator.                                     *)
LEMMA ScriptTypes ==
  ASSUME RebuildTypes, Rebuild \/ ScriptEnds \/ Migrate
  PROVE  RebuildTypes'
  <1>0. /\ TypeOK /\ RowsOnly /\ faces \subseteq Face /\ covered \subseteq faces
        /\ temp \in TempsOf(faces) /\ wrote \in BOOLEAN
        /\ script \in ScriptsOf(faces) /\ siblings \in SiblingsOf(faces)
        /\ sound \in [files : BOOLEAN, memory : BOOLEAN]
        /\ scripts \in 0..MaxScripts
        /\ IsFiniteSet(faces) /\ <<>> \in Seq(faces) /\ NoTemp \in TempsOf(faces)
        /\ NoScript \in ScriptsOf(faces) /\ NoSibling \in SiblingsOf(faces)
    BY RebuildTypesAre, EmptyTypes DEF RowsOnly
  <1>1. ASSUME UNCHANGED <<indexVars, faces, covered, wrote, sound>> PROVE
          TypeOK' /\ RowsOnly' /\ faces' \subseteq Face /\ covered' \subseteq faces'
          /\ wrote' \in BOOLEAN /\ sound' \in [files : BOOLEAN, memory : BOOLEAN]
    BY <1>0, <1>1 DEF indexVars, memory, disk, faults, TypeOK, RowsOnly
  <1>2. Begins => scripts' \in 0..MaxScripts
    BY <1>0, FaissRebuildAssumption DEF Begins
  <1>3. CASE RebuildBegins
    <2>1. script' \in ScriptsOf(faces)
      BY <1>0, <1>3 DEF RebuildBegins, ScriptsOf
    <2> QED BY <1>0, <1>1, <1>2, <1>3, <2>1, RebuildTypesWillBe DEF RebuildBegins
  <1>4. CASE FetchPage
    <2> DEFINE end == Min({script.offset + Page, Len(Table(faces))})
               page == SubSeq(Table(faces), script.offset + 1, end)
               rows == script.rows \o page
    <2>1. faces \in SUBSET Nat /\ script.offset \in Nat /\ script.rows \in Seq(faces)
      BY <1>0, FaissRebuildAssumption DEF ScriptsOf
    <2>2. page \in Seq(faces)
      BY <1>0, <2>1, PageIsOfRows
    <2>3. rows \in Seq(faces) /\ NextOffset(script.offset) \in Nat
      <3> HIDE DEF page
      <3> QED BY <2>1, <2>2, ConcatProperties, FaissRebuildAssumption DEF NextOffset
    <2>4. script' \in {[script EXCEPT !.rows = rows, !.offset = NextOffset(script.offset)],
                       NoScript, [script EXCEPT !.stage = "write_index", !.table = faces]}
      BY <1>4 DEF FetchPage
    <2> HIDE DEF rows
    <2>5. script' \in ScriptsOf(faces)
      BY <1>0, <2>3, <2>4 DEF ScriptsOf
    <2>6. UNCHANGED <<indexVars, temp, wrote, faces, siblings, covered, sound, scripts>>
      BY <1>4 DEF FetchPage
    <2> QED BY <1>0, <1>1, <2>5, <2>6, RebuildTypesWillBe
  <1>5. ASSUME NEW file \in DiskFile, NEW stage, NEW next \in {"write_ids", "index"},
               WriteTemp(file, stage, next)
        PROVE  RebuildTypes'
    <2>1. script' \in ScriptsOf(faces)
      BY <1>0, <1>5 DEF WriteTemp, ScriptsOf
    <2>2. temp' \in TempsOf(faces)
      BY <1>0, <1>5 DEF WriteTemp, ScriptsOf, TempsOf
    <2> QED BY <1>0, <1>1, <1>5, <2>1, <2>2, RebuildTypesWillBe DEF WriteTemp
  <1>6. CASE RenameIndex \/ RenameIds
    <2>1. temp.ids \in Seq(faces) /\ temp.index \in Seq(faces)
      BY <1>0 DEF TempsOf, DiskFile
    <2>2. temp.ids \in Seq(Face) /\ temp.index \in Seq(Face)
      BY <1>0, <2>1, SeqMonotonic
    <2>3. temp' \in TempsOf(faces)
      BY <1>0, <1>6 DEF RenameIndex, RenameIds, DiskFile, TempsOf
    <2>4. script' \in ScriptsOf(faces)
      BY <1>0, <1>6 DEF RenameIndex, RenameIds, ScriptsOf
    <2>5. sound' \in [files : BOOLEAN, memory : BOOLEAN]
      <3>1. script.clean \in BOOLEAN
        BY <1>0 DEF ScriptsOf
      <3>2. sound' = [sound EXCEPT !.files = FALSE] \/ sound' = [files |-> script.clean, memory |-> FALSE]
        BY <1>6 DEF RenameIndex, RenameIds
      <3>3. [sound EXCEPT !.files = FALSE] \in [files : BOOLEAN, memory : BOOLEAN]
        BY <1>0
      <3>4. [files |-> script.clean, memory |-> FALSE] \in [files : BOOLEAN, memory : BOOLEAN]
        BY <3>1
      <3> QED BY <3>2, <3>3, <3>4
    <2>6. UNCHANGED <<up, lock, pc, memory, faults, tainted, wrote, faces, siblings, scripts>>
      BY <1>6 DEF RenameIndex, RenameIds
    <2>7. /\ disk_ids' \in {disk_ids, temp.ids} /\ disk_index' \in {disk_index, temp.index}
          /\ covered' \in {covered, script.table}
      BY <1>6 DEF RenameIndex, RenameIds
    <2>8. RowsOnly' /\ covered' \subseteq faces
      BY <1>0, <2>1, <2>6, <2>7 DEF memory, RowsOnly, ScriptsOf
    <2>9. TypeOK'
      BY <1>0, <2>2, <2>6, <2>7 DEF memory, faults, TypeOK
    <2> QED BY <1>0, <2>3, <2>4, <2>5, <2>6, <2>8, <2>9, RebuildTypesWillBe
  <1>7. CASE ScriptEnds
    BY <1>0, <1>1, <1>7, RebuildTypesWillBe DEF ScriptEnds
  <1>8. CASE MigrateQuery
    <2>1. PICK rows \in SetToSeqs(faces) :
            script' = [NoScript EXCEPT !.stage = "ivf_index", !.rows = rows, !.table = faces]
      BY <1>8 DEF MigrateQuery
    <2>2. Cardinality(faces) \in Nat /\ rows \in [1..Cardinality(faces) -> faces]
      BY <1>0, FS_CardinalityType DEF SetToSeqs
    <2>3. rows \in Seq(faces)
      BY <2>2
    <2>4. script' \in ScriptsOf(faces)
      BY <1>0, <2>1, <2>3 DEF ScriptsOf
    <2> QED BY <1>0, <1>1, <1>2, <1>8, <2>4, RebuildTypesWillBe DEF MigrateQuery
  <1>9. CASE MigrateIndex
    <2>1. script' \in ScriptsOf(faces) /\ siblings' \in SiblingsOf(faces)
      BY <1>0, <1>9 DEF MigrateIndex, ScriptsOf, SiblingsOf
    <2> QED BY <1>0, <1>1, <1>9, <2>1, RebuildTypesWillBe DEF MigrateIndex
  <1>10. CASE MigrateIds
    <2>1. script' \in ScriptsOf(faces)
      BY <1>0, <1>10 DEF MigrateIds
    <2>2. siblings' \in SiblingsOf(faces)
      BY <1>0, <1>10 DEF MigrateIds, ScriptsOf, SiblingsOf
    <2> QED BY <1>0, <1>1, <1>10, <2>1, <2>2, RebuildTypesWillBe DEF MigrateIds
  <1>11. CASE SwapIn
    <2>1. siblings.index \in Seq(faces) /\ siblings.ids \in Seq(faces) /\ siblings.table \subseteq faces
      BY <1>0 DEF SiblingsOf
    <2>2. siblings.index \in Seq(Face) /\ siblings.ids \in Seq(Face)
      BY <1>0, <2>1, SeqMonotonic
    <2>3. RowsOnly' /\ TypeOK'
      BY <1>0, <1>11, <2>1, <2>2 DEF SwapIn, RowsOnly, TypeOK, memory, faults
    <2> QED BY <1>0, <1>11, <2>1, <2>3, RebuildTypesWillBe DEF SwapIn
  <1>12. CASE RemoveSiblings
    BY <1>0, <1>1, <1>12, RebuildTypesWillBe DEF RemoveSiblings
  <1>13. WriteTemp("index", "write_index", "write_ids") \/ WriteTemp("ids", "write_ids", "index")
         => RebuildTypes'
    BY <1>5 DEF DiskFile
  <1> QED BY <1>3, <1>4, <1>6, <1>7, <1>8, <1>9, <1>10, <1>11, <1>12, <1>13 DEF Rebuild, Migrate

(* Every step keeps the types.                                             *)
LEMMA RebuildTypesStep ==
  ASSUME RebuildTypes, RebuildStep \/ UNCHANGED rebuildVars
  PROVE  RebuildTypes'
  <1>1. CASE UNCHANGED rebuildVars
    BY <1>1 DEF rebuildVars, indexVars, maintenance, memory, disk, faults, RebuildTypes,
       RebuildTypeOK, RowsOnly, TypeOK
  <1> QED BY <1>1, ProcessTypes, ScriptTypes DEF RebuildStep

-----------------------------------------------------------------------------
(* The process: merge_lock, and an empty memory when it is down.           *)
ProcessInv ==
  /\ LockInv
  /\ ~up => live_index = <<>> /\ live_ids = <<>> /\ staging = <<>>

(* Where a step leaves a caller outside the merge, the lock is as it was.  *)
LEMMA LockOutside ==
  ASSUME TypeOK, LockInv, NEW c \in Callers, up, pc[c] \notin InMerge,
         Goto(c, "idle") \/ Goto(c, "merge") \/ Goto(c, "raised"), UNCHANGED <<up, lock>>
  PROVE  LockInv'
  BY DEF TypeOK, LockInv, Goto, InMerge

(* Where it ends a merge, the lock is free.                                *)
LEMMA LockFreed ==
  ASSUME TypeOK, LockInv, NEW c \in Callers, pc[c] \in InMerge,
         Goto(c, "idle"), lock' = NoCaller, UNCHANGED up
  PROVE  LockInv'
  <1>1. up /\ lock = c
    BY DEF LockInv, InMerge
  <1>2. \A d \in Callers \ {c} : pc[d] \notin InMerge /\ pc'[d] = pc[d]
    BY <1>1 DEF LockInv, Goto, TypeOK
  <1> QED BY <1>1, <1>2, FaissIndexAssumption DEF LockInv, Goto, TypeOK, InMerge

(* Where it goes on with a merge, or begins one, the lock is held.         *)
LEMMA LockTaken ==
  ASSUME TypeOK, LockInv, NEW c \in Callers, lock' = c, up, UNCHANGED up,
         lock = c \/ lock = NoCaller, NEW stage \in InMerge, Goto(c, stage)
  PROVE  LockInv'
  <1>1. \A d \in Callers \ {c} : pc[d] \notin InMerge /\ pc'[d] = pc[d]
    BY FaissIndexAssumption DEF LockInv, Goto, TypeOK
  <1>2. pc'[c] = stage
    BY DEF Goto, TypeOK
  <1> QED BY <1>1, <1>2 DEF LockInv

(* Every step keeps the lock and the memory of a process that is down.     *)
LEMMA ProcessInvStep ==
  ASSUME RebuildTypes, ProcessInv, RebuildStep \/ UNCHANGED rebuildVars
  PROVE  ProcessInv'
  <1>0. TypeOK /\ LockInv /\ (\A c \in Callers : pc[c] # "idle" => up)
    BY DEF RebuildTypes, RebuildTypeOK, ProcessInv, LockInv
  <1>1. ASSUME UNCHANGED <<up, lock, pc, live_index, live_ids, staging>> PROVE ProcessInv'
    BY <1>1 DEF ProcessInv, LockInv
  <1>2. ASSUME NEW c \in Callers, Rename(c) PROVE ProcessInv'
    <2>1. pc[c] \in {"save_ids", "save_index"} /\ up /\ lock = c /\ lock' = c /\ up'
          /\ (Goto(c, "save_index") \/ Goto(c, "publish"))
      BY <1>0, <1>2 DEF Rename, Saving, LockInv, InMerge
    <2>2. LockInv'
      BY <1>0, <2>1, LockTaken DEF InMerge
    <2> QED BY <2>1, <2>2 DEF ProcessInv
  <1>3. ASSUME NEW c \in Callers, RenameFails(c) PROVE ProcessInv'
    <2>1. pc[c] \in {"save_ids", "save_index"} /\ up /\ lock' = NoCaller /\ up'
          /\ Goto(c, "idle") /\ UNCHANGED up
      BY <1>0, <1>3 DEF RenameFails, Saving, SaveFails
    <2>2. LockInv'
      BY <1>0, <2>1, LockFreed DEF InMerge
    <2> QED BY <2>1, <2>2 DEF ProcessInv
  <1>4. ASSUME NEW c \in Callers, Merge(c) PROVE ProcessInv'
    <2>1. up /\ up' = up /\ lock = NoCaller /\ lock' = c /\ Goto(c, "save_ids")
      BY <1>0, <1>4 DEF Merge, MergeBegins
    <2>2. LockInv'
      BY <1>0, <2>1, LockTaken DEF InMerge
    <2> QED BY <2>1, <2>2 DEF ProcessInv
  <1>5. ASSUME NEW c \in Callers, Serve(c) PROVE ProcessInv'
    <2>1. ASSUME NEW f \in faces, Add(c, f) PROVE ProcessInv'
      <3>1. up /\ up' = up /\ UNCHANGED lock /\ pc[c] = "idle"
            /\ (Goto(c, "idle") \/ Goto(c, "merge"))
        BY <2>1 DEF Add, Buffer
      <3>2. LockInv'
        BY <1>0, <3>1, LockOutside DEF InMerge
      <3> QED BY <3>1, <3>2 DEF ProcessInv
    <2>2. CASE ForceMerge(c) \/ MergeSkips(c) \/ MergeRaises(c) \/ Catch(c)
      <3>1. up /\ UNCHANGED up /\ UNCHANGED lock /\ pc[c] \in {"idle", "merge", "raised"}
            /\ (Goto(c, "idle") \/ Goto(c, "merge") \/ Goto(c, "raised"))
        BY <1>0, <2>2 DEF ForceMerge, MergeSkips, MergeRaises, Catch
      <3>2. LockInv'
        BY <1>0, <3>1, LockOutside DEF InMerge
      <3> QED BY <3>1, <3>2 DEF ProcessInv
    <2>3. CASE Publish(c)
      <3>1. pc[c] = "publish" /\ up /\ lock' = NoCaller /\ UNCHANGED up /\ Goto(c, "idle")
        BY <1>0, <2>3 DEF Publish
      <3>2. LockInv'
        BY <1>0, <3>1, LockFreed DEF InMerge
      <3> QED BY <3>1, <3>2 DEF ProcessInv
    <2> QED BY <1>5, <2>1, <2>2, <2>3 DEF Serve
  <1>6. CASE Load
    <2>1. CASE Start \/ StartUnreadable
      <3>1. ~up /\ up' /\ UNCHANGED <<lock, pc>>
        BY <2>1 DEF Start, StartUnreadable
      <3> QED BY <3>1, <1>0 DEF ProcessInv, LockInv
    <2>2. CASE Crash
      BY <2>2, FaissIndexAssumption DEF Crash, ProcessInv, LockInv, InMerge
    <2> QED BY <1>6, <2>1, <2>2 DEF Load
  <1>7. CASE \E c \in Callers : Write(c)
    BY <1>1, <1>7 DEF Write, indexVars, memory
  <1>8. CASE \E f \in Face : Commit(f)
    BY <1>1, <1>8 DEF Commit, indexVars, memory
  <1>9. CASE Rebuild \/ ScriptEnds \/ Migrate
    BY <1>1, <1>9 DEF Rebuild, RebuildBegins, FetchPage, WriteTemp, RenameIndex, RenameIds,
       ScriptEnds, Migrate, MigrateQuery, MigrateIndex, MigrateIds, SwapIn, RemoveSiblings,
       indexVars, memory
  <1>10. CASE UNCHANGED rebuildVars
    BY <1>1, <1>10 DEF rebuildVars, indexVars, memory
  <1> QED BY <1>2, <1>3, <1>4, <1>5, <1>6, <1>7, <1>8, <1>9, <1>10 DEF RebuildStep, Process

-----------------------------------------------------------------------------
(* Memory and files, while their histories are sound.  As in IInv of       *)
(* FaissIndexProofs memory and files are initial segments of one list; but *)
(* nothing is known of either alone before a script has written, or a      *)
(* process read, what a script wrote.                                      *)
Served == live_ids \o staging

MemoryFits ==
  sound.memory =>
    /\ AlignedUpTo(live_ids, live_index)
    /\ AlignedUpTo(live_index, Served)
    /\ lock = NoCaller \/ live_index = Served
    /\ IsInjective(Served)
    /\ covered \subseteq Range(live_ids)

FilesFit ==
  sound.files => AlignedUpTo(disk_index, disk_ids) /\ Repaired(disk_index, covered)

BothFit ==
  sound.files /\ sound.memory =>
    /\ AlignedUpTo(disk_index, Served)
    /\ \A c \in Callers : pc[c] = "save_index" => disk_ids = Served

Fits == MemoryFits /\ FilesFit /\ BothFit

(* What an initial segment lists the whole lists too.                      *)
LEMMA AlignedRange ==
  ASSUME NEW s \in Seq(Face), NEW t \in Seq(Face), AlignedUpTo(s, t)
  PROVE  Range(s) \subseteq Range(t)
  <1>1. /\ DOMAIN s = 1..Len(s) /\ DOMAIN t = 1..Len(t) /\ Len(s) \in Nat /\ Len(t) \in Nat
        /\ \A i \in 1..Len(s) : i \in 1..Len(t)
    BY LenProperties DEF AlignedUpTo
  <1> QED BY <1>1 DEF AlignedUpTo, Range

(* The lists are of faces.                                                 *)
LEMMA ListsOfFaces ==
  ASSUME RebuildTypes
  PROVE  /\ live_index \in Seq(Face) /\ live_ids \in Seq(Face) /\ staging \in Seq(Face)
         /\ disk_index \in Seq(Face) /\ disk_ids \in Seq(Face)
         /\ temp.index \in Seq(Face) /\ temp.ids \in Seq(Face)
         /\ script.rows \in Seq(Face)
         /\ siblings.index \in Seq(Face) /\ siblings.ids \in Seq(Face)
         /\ Served \in Seq(Face) /\ AlignedUpTo(live_ids, Served) /\ AlignedUpTo(Served, Served)
         /\ lock \in Callers \union {NoCaller} /\ pc \in [Callers -> Stages]
  <1>1. TypeOK /\ faces \subseteq Face
    BY RebuildTypesAre
  <1>2. /\ temp.index \in Seq(faces) /\ temp.ids \in Seq(faces) /\ script.rows \in Seq(faces)
        /\ siblings.index \in Seq(faces) /\ siblings.ids \in Seq(faces)
    BY RebuildTypesAre DEF TempsOf, DiskFile, ScriptsOf, SiblingsOf
  <1>3. \A s \in Seq(faces) : s \in Seq(Face)
    BY <1>1, SeqMonotonic
  <1>4. Served \in Seq(Face) /\ AlignedUpTo(live_ids, Served) /\ AlignedUpTo(Served, Served)
    BY <1>1, AlignedConcat DEF Served, TypeOK
  <1> QED BY <1>1, <1>2, <1>3, <1>4 DEF TypeOK

(* A step that leaves lists and files alone, and may end a merge or give   *)
(* up a history.                                                           *)
LEMMA FitsFrame ==
  ASSUME Fits, UNCHANGED <<live_index, live_ids, staging, disk, covered>>,
         lock' \in {lock, NoCaller},
         \A c \in Callers : pc'[c] = "save_index" => pc[c] = "save_index",
         sound'.memory => sound.memory, sound'.files => sound.files
  PROVE  Fits'
  BY DEF Fits, MemoryFits, FilesFit, BothFit, Served, disk

(* A caller goes elsewhere than to the second rename.                      *)
LEMMA GotoElsewhere ==
  ASSUME TypeOK, NEW c \in Callers, NEW stage \in Stages, stage # "save_index", Goto(c, stage)
  PROVE  \A d \in Callers : pc'[d] = "save_index" => pc[d] = "save_index"
  BY DEF TypeOK, Goto

(* add() to a sound memory.                                                *)
LEMMA FitsAdd ==
  ASSUME RebuildTypes, ProcessInv, Fits, NEW c \in Callers, NEW f \in faces, Add(c, f),
         UNCHANGED <<covered, sound>>
  PROVE  Fits'
  <1>0. TypeOK /\ f \in Face
    BY RebuildTypesAre
  <1>1. /\ lock = NoCaller /\ lock' = NoCaller /\ staging' = Staged(staging, f)
        /\ UNCHANGED <<live_index, live_ids, disk>>
        /\ \A d \in Callers : pc'[d] # "save_index"
    <2>1. pc[c] = "idle" /\ (Goto(c, "merge") \/ Goto(c, "idle"))
      BY DEF Add, Buffer
    <2>2. /\ lock = NoCaller /\ lock' = NoCaller /\ staging' = Staged(staging, f)
          /\ UNCHANGED <<live_index, live_ids, disk>>
      BY DEF Add, Buffer
    <2>3. \A d \in Callers : pc[d] # "save_index"
      BY <2>2, FaissIndexAssumption DEF ProcessInv, LockInv, InMerge
    <2> QED BY <1>0, <2>1, <2>2, <2>3, GotoElsewhere DEF Stages
  <1>2. CASE sound.memory
    <2>1. /\ Staged(staging, f) \in Seq(Face)
          /\ IsInjective(Served') /\ AlignedUpTo(Served, Served')
      BY <1>0, <1>1, <1>2, StagedExtends DEF Fits, MemoryFits, Served, TypeOK
    <2>2. Served' \in Seq(Face)
      BY <1>0, <1>1, <2>1, ConcatProperties DEF Served, TypeOK
    <2>3. AlignedUpTo(live_index, Served')
      BY <1>2, <2>1, <2>2, ListsOfFaces, AlignedTransitive DEF Fits, MemoryFits
    <2>4. MemoryFits'
      BY <1>1, <1>2, <2>1, <2>3 DEF Fits, MemoryFits
    <2>5. sound.files => AlignedUpTo(disk_index, Served')
      BY <1>2, <2>1, <2>2, ListsOfFaces, AlignedTransitive DEF Fits, BothFit
    <2>6. FilesFit' /\ BothFit'
      BY <1>1, <2>5 DEF Fits, FilesFit, BothFit, disk
    <2> QED BY <2>4, <2>6 DEF Fits
  <1>3. CASE ~sound.memory
    BY <1>1, <1>3 DEF Fits, MemoryFits, FilesFit, BothFit, disk
  <1> QED BY <1>2, <1>3

(* live_index.add() to a sound memory whose index has no lead.             *)
LEMMA FitsMerge ==
  ASSUME RebuildTypes, ProcessInv, Fits, NEW c \in Callers, Merge(c)
  PROVE  Fits'
  <1>0. TypeOK
    BY RebuildTypesAre
  <1>1. /\ UNCHANGED <<live_ids, staging, disk, covered>> /\ live_index' = live_index \o staging
        /\ Goto(c, "save_ids")
        /\ sound' = [sound EXCEPT !.memory = @ /\ Len(live_ids) = Len(live_index)]
    BY DEF Merge, MergeBegins
  <1>2. \A d \in Callers : pc'[d] = "save_index" => pc[d] = "save_index"
    BY <1>0, <1>1, GotoElsewhere DEF Stages
  <1>3. /\ sound'.files = sound.files
        /\ sound'.memory = (sound.memory /\ Len(live_ids) = Len(live_index))
    BY <1>1, RebuildTypesAre
  <1>4. CASE sound'.memory
    <2>1. live_ids = live_index
      BY <1>3, <1>4, ListsOfFaces, AlignedEqual DEF Fits, MemoryFits
    <2>2. live_index' = Served /\ Served' = Served
      BY <1>1, <2>1 DEF Served
    <2>3. MemoryFits'
      BY <1>1, <1>3, <1>4, <2>2, ListsOfFaces DEF Fits, MemoryFits
    <2> QED BY <1>1, <1>2, <1>3, <2>2, <2>3 DEF Fits, FilesFit, BothFit, disk
  <1>5. CASE ~sound'.memory
    BY <1>1, <1>3, <1>5 DEF Fits, MemoryFits, FilesFit, BothFit, disk
  <1> QED BY <1>4, <1>5

(* The merge publishes.                                                    *)
LEMMA FitsPublish ==
  ASSUME RebuildTypes, ProcessInv, Fits, NEW c \in Callers, Publish(c), UNCHANGED <<covered, sound>>
  PROVE  Fits'
  <1>0. TypeOK /\ <<>> \in Seq(Face)
    BY RebuildTypesAre, EmptySeq
  <1>1. /\ UNCHANGED <<live_index, disk>> /\ live_ids' = Served /\ staging' = <<>>
        /\ Goto(c, "idle") /\ lock' = NoCaller /\ lock = c
    BY DEF Publish, Served, ProcessInv, LockInv, InMerge
  <1>2. Served' = Served
    BY <1>1, ListsOfFaces, ConcatEmptySeq DEF Served
  <1>3. \A d \in Callers : pc'[d] = "save_index" => pc[d] = "save_index"
    BY <1>0, <1>1, GotoElsewhere DEF Stages
  <1>4. CASE sound.memory
    <2>1. live_index = Served /\ covered \subseteq Range(Served)
      BY <1>1, <1>4, FaissIndexAssumption, ListsOfFaces, AlignedRange DEF Fits, MemoryFits
    <2>2. MemoryFits'
      BY <1>1, <1>2, <1>4, <2>1, ListsOfFaces DEF Fits, MemoryFits
    <2> QED BY <1>1, <1>2, <1>3, <2>2 DEF Fits, FilesFit, BothFit, disk
  <1>5. CASE ~sound.memory
    BY <1>1, <1>5 DEF Fits, MemoryFits, FilesFit, BothFit, disk
  <1> QED BY <1>4, <1>5

(* A merge renames what it wrote, or the files are sound no longer.        *)
LEMMA FitsRename ==
  ASSUME RebuildTypes, ProcessInv, Fits, NEW c \in Callers, Rename(c)
  PROVE  Fits'
  <1>0. TypeOK
    BY RebuildTypesAre
  <1>1. /\ UNCHANGED <<lock, live_index, live_ids, staging, covered>>
        /\ Served' = Served /\ lock = c /\ lock # NoCaller
        /\ pc[c] \in {"save_ids", "save_index"}
        /\ \A d \in Callers \ {c} : pc[d] \notin InMerge
    BY FaissIndexAssumption DEF Rename, memory, Served, Saving, ProcessInv, LockInv, InMerge
  <1>2. /\ sound'.memory = sound.memory
        /\ sound'.files = (sound.files /\ sound.memory /\ temp[Mine(c)] = Saved(c))
    BY RebuildTypesAre DEF Rename
  <1>3. MemoryFits'
    BY <1>1, <1>2 DEF Fits, MemoryFits
  <1>4. CASE ~sound'.files
    BY <1>3, <1>4 DEF Fits, FilesFit, BothFit
  <1>5. CASE sound'.files
    <2>1. /\ sound.files /\ sound.memory /\ temp[Mine(c)] = Saved(c)
          /\ live_index = Served /\ IsInjective(Served) /\ covered \subseteq Range(Served)
      BY <1>1, <1>2, <1>5, ListsOfFaces, AlignedRange DEF Fits, MemoryFits
    <2>2. CASE pc[c] = "save_ids"
      <3>1. disk_ids' = Served /\ UNCHANGED disk_index
        BY <2>1, <2>2 DEF Rename, Mine, Saved, Served
      <3> QED BY <1>1, <1>3, <2>1, <3>1 DEF Fits, FilesFit, BothFit
    <2>3. CASE pc[c] = "save_index"
      <3>1. disk_index' = Served /\ UNCHANGED disk_ids /\ disk_ids = Served
        BY <2>1, <2>3 DEF Rename, Mine, Saved, Fits, BothFit
      <3>2. \A d \in Callers : pc'[d] # "save_index"
        BY <1>0, <1>1, <2>3 DEF Rename, Mine, Goto, TypeOK, InMerge
      <3> QED BY <1>1, <1>3, <2>1, <3>1, <3>2, ListsOfFaces
              DEF Fits, FilesFit, BothFit, Repaired
    <2> QED BY <1>1, <2>2, <2>3
  <1> QED BY <1>4, <1>5

(* A process starts on the files, whatever they are worth.                 *)
LEMMA FitsStart ==
  ASSUME RebuildTypes, ProcessInv, Fits, Start, sound' = [sound EXCEPT !.memory = sound.files],
         UNCHANGED covered
  PROVE  Fits'
  <1>0. TypeOK /\ <<>> \in Seq(Face)
    BY RebuildTypesAre, EmptySeq
  <1>1. /\ live_index' = disk_index /\ live_ids' = RestoredIds /\ staging' = <<>>
        /\ UNCHANGED <<lock, pc, disk>> /\ lock = NoCaller
        /\ \A c \in Callers : pc[c] # "save_index"
    BY <1>0 DEF Start, ProcessInv, LockInv, InMerge, TypeOK
  <1>2. sound'.files = sound.files /\ sound'.memory = sound.files
    BY RebuildTypesAre
  <1>3. CASE sound.files
    <2>1. RestoredIds = disk_index
      BY <1>0, <1>3, RestoredAligned DEF Fits, FilesFit, DiskInv
    <2>2. Served' = disk_index
      BY <1>1, <2>1, ListsOfFaces, ConcatEmptySeq DEF Served
    <2>3. AlignedUpTo(disk_index, disk_index)
      BY ListsOfFaces, <1>0, AlignedConcat
    <2> QED BY <1>1, <1>2, <1>3, <2>1, <2>2, <2>3
            DEF Fits, MemoryFits, FilesFit, BothFit, Repaired, disk
  <1>4. CASE ~sound.files
    BY <1>1, <1>2, <1>4 DEF Fits, MemoryFits, FilesFit, BothFit
  <1> QED BY <1>3, <1>4

-----------------------------------------------------------------------------
(* The scripts, while nobody disturbs them.                                *)

(* The pages fetched so far are the table up to an id, and the offset is   *)
(* their number until a page was not full.                                 *)
FetchFits ==
  script.stage = "fetch" /\ script.clean =>
    /\ Ascending(script.rows) /\ DownClosed(script.rows, faces)
    /\ script.offset = Len(script.rows) \/ Len(script.rows) >= Cardinality(faces)
    /\ script.offset >= Len(script.rows)

(* What was fetched is the table, and is in each file from the step that   *)
(* writes it to the one that renames it.                                   *)
ScriptFits ==
  script.clean =>
    /\ script.stage \in {"write_index", "write_ids", "index", "ids"} =>
         Repaired(script.rows, script.table)
    /\ script.stage \in {"write_ids", "index"} => temp.index = script.rows
    /\ script.stage \in {"index", "ids"} => temp.ids = script.rows
    /\ script.stage = "ids" => disk_index = script.rows

(* So is what the migration read, in the files it writes.                  *)
SiblingsFit ==
  /\ script.stage = "ivf_index" =>
       Repaired(script.rows, script.table) /\ siblings = NoSibling
  /\ script.stage = "ivf_ids" =>
       /\ Repaired(script.rows, script.table)
       /\ siblings.index = script.rows /\ siblings.ids = <<>>
  /\ siblings.ids # <<>> =>
       siblings.index = siblings.ids /\ Repaired(siblings.index, siblings.table)

RebuildInv == RebuildTypes /\ ProcessInv /\ Fits /\ FetchFits /\ ScriptFits /\ SiblingsFit

(* Nothing is disturbed while nothing runs.                                *)
LEMMA NothingRuns ==
  ASSUME script' = NoScript
  PROVE  FetchFits' /\ ScriptFits'
  BY DEF NoScript, FetchFits, ScriptFits

(* Where the process touches the files, an exposed script is disturbed.    *)
LEMMA TouchedFits ==
  ASSUME RebuildTypes, FetchFits, ScriptFits, SiblingsFit, Touched, UNCHANGED <<faces, siblings>>
  PROVE  FetchFits' /\ ScriptFits' /\ SiblingsFit'
  <1>1. /\ script'.stage = script.stage /\ script'.rows = script.rows
        /\ script'.table = script.table /\ script'.offset = script.offset
        /\ script'.clean = (script.clean /\ ~Exposed)
    BY RebuildTypesAre DEF Touched, ScriptsOf
  <1>2. FetchFits' /\ SiblingsFit'
    BY <1>1 DEF FetchFits, SiblingsFit
  <1>3. ScriptFits'
    BY <1>1 DEF ScriptFits, Exposed
  <1> QED BY <1>2, <1>3

(* The process keeps what the scripts rely on.                             *)
LEMMA ProcessKeepsScripts ==
  ASSUME RebuildTypes, FetchFits, ScriptFits, SiblingsFit, Process
  PROVE  FetchFits' /\ ScriptFits' /\ SiblingsFit'
  <1>1. ASSUME NEW f \in Face, Commit(f) PROVE FetchFits' /\ ScriptFits' /\ SiblingsFit'
    <2>1. /\ script'.stage = script.stage /\ script'.rows = script.rows
          /\ script'.table = script.table /\ script'.offset = script.offset
          /\ script'.clean = (script.clean /\ (script.stage = "fetch" => Awaited(f)))
          /\ UNCHANGED <<temp, siblings, disk_index>> /\ faces' = faces \union {f}
      BY <1>1, RebuildTypesAre DEF Commit, ScriptsOf, indexVars, disk
    <2>2. ScriptFits' /\ SiblingsFit'
      BY <2>1 DEF ScriptFits, SiblingsFit
    <2>3. ASSUME script.stage = "fetch", script'.clean PROVE DownClosed(script.rows, faces \union {f})
      <3>1. script.rows \in Seq(faces) /\ faces \in SUBSET Nat /\ f \in Nat
        BY FaissRebuildAssumption, RebuildTypesAre DEF ScriptsOf
      <3>2. DownClosed(script.rows, faces) /\ \A g \in Range(script.rows) : g < f
        BY <2>1, <2>3 DEF FetchFits, Awaited
      <3>3. \A j \in DOMAIN script.rows : script.rows[j] \in Nat /\ ~(f <= script.rows[j])
        <4> SUFFICES ASSUME NEW j \in DOMAIN script.rows
                     PROVE  script.rows[j] \in Nat /\ ~(f <= script.rows[j])
          OBVIOUS
        <4>1. script.rows[j] \in Nat
          BY <3>1, LenProperties
        <4>2. script.rows[j] < f
          BY <3>2 DEF Range
        <4> QED BY <3>1, <4>1, <4>2
      <3> QED BY <3>2, <3>3 DEF DownClosed
    <2>4. FetchFits'
      BY <2>1, <2>3 DEF FetchFits, Awaited
    <2> QED BY <2>2, <2>4
  <1>2. ASSUME NEW c \in Callers, Write(c) \/ Rename(c) \/ RenameFails(c)
        PROVE  FetchFits' /\ ScriptFits' /\ SiblingsFit'
    BY <1>2, TouchedFits DEF Write, Rename, RenameFails
  <1>3. ASSUME UNCHANGED <<faces, script, siblings, disk_index>>,
               script.stage \in {"write_ids", "index", "ids"} => UNCHANGED temp
        PROVE  FetchFits' /\ ScriptFits' /\ SiblingsFit'
    BY <1>3 DEF FetchFits, ScriptFits, SiblingsFit
  <1>4. ASSUME NEW c \in Callers, Merge(c) \/ Serve(c)
        PROVE  FetchFits' /\ ScriptFits' /\ SiblingsFit'
    <2>1. UNCHANGED <<temp, faces, script, siblings>>
      BY <1>4 DEF Merge, Serve, maintenance
    <2>2. UNCHANGED disk_index
      BY <1>4 DEF Merge, Serve, MergeBegins, Add, Buffer, ForceMerge, MergeSkips, MergeRaises,
         Catch, Publish, disk
    <2> QED BY <1>3, <2>1, <2>2
  <1>5. CASE Load
    <2>1. /\ UNCHANGED <<faces, script, siblings, disk_index>>
          /\ script.stage \in {"write_ids", "index", "ids"} => UNCHANGED temp
      BY <1>5 DEF Load, Start, StartUnreadable, Crash, disk, Exposed
    <2> QED BY <1>3, <2>1
  <1> QED BY <1>1, <1>2, <1>4, <1>5 DEF Process

(* A page more, or the last: FetchFits goes over into ScriptFits.          *)
LEMMA FetchPageFits ==
  ASSUME RebuildTypes, FetchFits, ScriptFits, SiblingsFit, FetchPage
  PROVE  FetchFits' /\ ScriptFits' /\ SiblingsFit'
  <1> DEFINE T == Table(faces)
             o == script.offset
             s == script.rows
             n == Len(s)
             end == Min({o + Page, Len(T)})
             page == SubSeq(T, o + 1, end)
             rows == s \o page
  <1>0. /\ faces \in SUBSET Nat /\ IsFiniteSet(faces) /\ s \in Seq(faces) /\ o \in Nat
        /\ n \in Nat /\ Len(T) = Cardinality(faces) /\ Cardinality(faces) \in Nat
    <2>1. /\ faces \in SUBSET Nat /\ IsFiniteSet(faces) /\ s \in Seq(faces) /\ o \in Nat
      BY FaissRebuildAssumption, RebuildTypesAre DEF ScriptsOf, RowsOnly
    <2> QED BY <2>1, TableLists, LenProperties, FS_CardinalityType
  <1>1. /\ end \in Nat /\ end <= Len(T) /\ end <= o + Page
        /\ end = o + Page \/ end = Len(T)
        /\ page \in Seq(faces)
        /\ page = <<>> => Len(T) <= o
    BY <1>0, PageIsOfRows
  <1>2. /\ script.stage = "fetch"
        /\ script' = IF page # <<>>
                     THEN [script EXCEPT !.rows = rows, !.offset = o + Page]
                     ELSE IF rows = <<>> THEN NoScript
                     ELSE [script EXCEPT !.stage = "write_index", !.table = faces]
        /\ UNCHANGED <<temp, faces, siblings, disk_index>>
    BY DEF FetchPage, NextOffset, indexVars, disk
  <1>3. script \in ScriptsOf(faces)
    BY RebuildTypesAre
  <1>4. SiblingsFit'
    BY <1>2, <1>3 DEF SiblingsFit, ScriptsOf, NoScript
  <1>5. CASE ~script.clean /\ script' # NoScript
    BY <1>2, <1>3, <1>4, <1>5 DEF ScriptsOf, FetchFits, ScriptFits
  <1>6. CASE script.clean /\ page # <<>>
    <2>1. /\ Ascending(s) /\ DownClosed(s, faces) /\ o >= n
          /\ o = n \/ n >= Len(T)
      BY <1>0, <1>2, <1>6 DEF FetchFits
    <2>2. o < end
      <3>1. ~(o + 1 > end)
        <4> SUFFICES ASSUME o + 1 > end PROVE page = <<>>
          BY <1>6
        <4> HIDE DEF end, o, T
        <4>1. end \in Int /\ o + 1 \in Int /\ end < o + 1
          BY <1>0, <1>1
        <4> QED BY <4>1, SubSeqEmpty
      <3> HIDE DEF end, o
      <3> QED BY <1>0, <1>1, <3>1
    <2>3. o = n
      <3> HIDE DEF end, o, n, T
      <3> QED BY <1>0, <1>1, <2>1, <2>2
    <2>4. /\ rows \in Seq(faces) /\ Len(rows) = end
          /\ Ascending(rows) /\ DownClosed(rows, faces)
      <3>1. Len(s) <= end /\ end <= Len(Table(faces)) /\ page = SubSeq(Table(faces), Len(s) + 1, end)
        <4>1. page = SubSeq(T, n + 1, end)
          BY <2>3
        <4>2. n <= end
          <5> HIDE DEF end, o, n
          <5> QED BY <1>0, <1>1, <2>2, <2>3
        <4> QED BY <1>1, <4>1, <4>2
      <3> HIDE DEF page, end
      <3> QED BY <1>0, <1>1, <2>1, <3>1, PageExtends
    <2>5. /\ o + Page = Len(rows) \/ Len(rows) >= Cardinality(faces)
          /\ o + Page >= Len(rows)
      <3> HIDE DEF end, o, T, rows, n
      <3>1. o + Page = end \/ end >= Cardinality(faces)
        BY <1>0, <1>1
      <3>2. o + Page >= end
        BY <1>0, <1>1, FaissRebuildAssumption
      <3> QED BY <2>4, <3>1, <3>2
    <2> HIDE DEF rows, page, o
    <2>6. script'.stage = "fetch" /\ script'.rows = rows /\ script'.offset = o + Page
      BY <1>2, <1>3, <1>6 DEF ScriptsOf
    <2>7. FetchFits'
      BY <1>2, <2>4, <2>5, <2>6 DEF FetchFits
    <2>8. ScriptFits'
      BY <2>6 DEF ScriptFits
    <2> QED BY <1>4, <2>7, <2>8
  <1>7. CASE script.clean /\ page = <<>> /\ script' # NoScript
    <2>1. /\ Ascending(s) /\ DownClosed(s, faces)
          /\ o = n \/ n >= Len(T)
      BY <1>0, <1>2, <1>7 DEF FetchFits
    <2>2. n >= Cardinality(faces)
      <3>1. Len(T) <= o
        BY <1>1, <1>7
      <3> HIDE DEF o, n, T
      <3> QED BY <1>0, <2>1, <3>1
    <2>3. Repaired(s, faces)
      BY <1>0, <2>1, <2>2, FetchedAll
    <2> HIDE DEF rows, page
    <2>4. script'.stage = "write_index" /\ script'.rows = s /\ script'.table = faces
      BY <1>2, <1>3, <1>7 DEF ScriptsOf
    <2>5. ScriptFits' /\ FetchFits'
      BY <2>3, <2>4 DEF ScriptFits, FetchFits
    <2> QED BY <1>4, <2>5
  <1>8. CASE script' = NoScript
    BY <1>4, <1>8, NothingRuns
  <1>9. script.clean \in BOOLEAN
    BY <1>3 DEF ScriptsOf
  <1> QED BY <1>5, <1>6, <1>7, <1>8, <1>9

(* The other steps of the rebuild, and its end.                            *)
LEMMA RebuildKeepsScripts ==
  ASSUME RebuildTypes, FetchFits, ScriptFits, SiblingsFit, Rebuild \/ ScriptEnds
  PROVE  FetchFits' /\ ScriptFits' /\ SiblingsFit'
  <1>0. /\ script \in ScriptsOf(faces) /\ temp \in TempsOf(faces) /\ faces \in SUBSET Nat
        /\ \A s \in SUBSET Nat : DownClosed(<<>>, s)
        /\ Ascending(<<>>)
    <2>1. DOMAIN <<>> = {}
      OBVIOUS
    <2>2. \A s \in SUBSET Nat : DownClosed(<<>>, s)
      BY <2>1 DEF DownClosed
    <2>3. Ascending(<<>>)
      BY <2>1 DEF Ascending
    <2> QED BY <2>2, <2>3, RebuildTypesAre, FaissRebuildAssumption
  <1>1. CASE RebuildBegins
    <2>1. /\ script'.stage = "fetch" /\ script'.rows = <<>> /\ script'.offset = 0
          /\ UNCHANGED <<faces, siblings>>
      BY <1>1 DEF RebuildBegins, NoScript
    <2>2. Len(<<>>) = 0
      BY EmptySeq
    <2>3. FetchFits'
      BY <1>0, <2>1, <2>2 DEF FetchFits
    <2> QED BY <2>1, <2>3 DEF ScriptFits, SiblingsFit
  <1>2. CASE FetchPage
    BY <1>2, FetchPageFits
  <1>3. CASE WriteTemp("index", "write_index", "write_ids")
    <2>1. /\ script.stage = "write_index" /\ script'.stage = "write_ids"
          /\ script'.rows = script.rows /\ script'.table = script.table
          /\ script'.clean = script.clean /\ temp'.index = script.rows
          /\ UNCHANGED siblings
      BY <1>0, <1>3 DEF WriteTemp, ScriptsOf, TempsOf, DiskFile
    <2> QED BY <2>1 DEF FetchFits, ScriptFits, SiblingsFit
  <1>4. CASE WriteTemp("ids", "write_ids", "index")
    <2>1. /\ script.stage = "write_ids" /\ script'.stage = "index"
          /\ script'.rows = script.rows /\ script'.table = script.table
          /\ script'.clean = script.clean /\ temp'.ids = script.rows /\ temp'.index = temp.index
          /\ UNCHANGED siblings
      BY <1>0, <1>4 DEF WriteTemp, ScriptsOf, TempsOf, DiskFile
    <2> QED BY <2>1 DEF FetchFits, ScriptFits, SiblingsFit
  <1>5. CASE RenameIndex
    <2>1. /\ script.stage = "index" /\ script'.stage = "ids"
          /\ script'.rows = script.rows /\ script'.table = script.table
          /\ script'.clean = script.clean /\ temp'.ids = temp.ids /\ disk_index' = temp.index
          /\ UNCHANGED siblings
      BY <1>0, <1>5 DEF RenameIndex, ScriptsOf, TempsOf, DiskFile
    <2> QED BY <2>1 DEF FetchFits, ScriptFits, SiblingsFit
  <1>6. CASE RenameIds \/ ScriptEnds
    <2>1. script' = NoScript /\ UNCHANGED siblings
      BY <1>6 DEF RenameIds, ScriptEnds
    <2>2. SiblingsFit'
      BY <2>1 DEF SiblingsFit, NoScript
    <2> QED BY <2>1, <2>2, NothingRuns
  <1> QED BY <1>1, <1>2, <1>3, <1>4, <1>5, <1>6 DEF Rebuild

(* The migration, and the operator.                                        *)
LEMMA MigrateKeepsScripts ==
  ASSUME RebuildTypes, FetchFits, ScriptFits, SiblingsFit, Migrate
  PROVE  FetchFits' /\ ScriptFits' /\ SiblingsFit'
  <1>0. script \in ScriptsOf(faces) /\ siblings \in SiblingsOf(faces) /\ IsFiniteSet(faces)
    BY RebuildTypesAre DEF RowsOnly
  <1>1. CASE MigrateQuery
    <2>1. PICK rows \in SetToSeqs(faces) :
            script' = [NoScript EXCEPT !.stage = "ivf_index", !.rows = rows, !.table = faces]
      BY <1>1 DEF MigrateQuery
    <2>2. /\ Cardinality(faces) \in Nat /\ rows \in [1..Cardinality(faces) -> faces]
          /\ \A i, j \in 1..Cardinality(faces) : i # j => rows[i] # rows[j]
      BY <1>0, FS_CardinalityType DEF SetToSeqs
    <2>3. IsInjective(rows)
      BY <2>2 DEF IsInjective
    <2>4. Repaired(rows, faces)
      <3> DEFINE k == Cardinality(faces)
      <3>1. IsFiniteSet(1..k) /\ Cardinality(1..k) = k
        <4>1. k \in Nat
          BY <2>2
        <4> HIDE DEF k
        <4> QED BY <4>1, FS_Interval
      <3>2. rows \in Injection(1..k, faces)
        BY <2>2, <2>3 DEF Injection
      <3>3. rows \in Surjection(1..k, faces)
        BY <1>0, <3>1, <3>2, FS_Injection
      <3>4. faces \subseteq Range(rows)
        BY <3>3 DEF Surjection, Range
      <3> QED BY <2>3, <3>4 DEF Repaired
    <2>5. /\ script'.stage = "ivf_index" /\ script'.rows = rows /\ script'.table = faces
          /\ siblings = NoSibling /\ siblings' = siblings
      BY <1>1, <2>1 DEF MigrateQuery, NoScript
    <2>6. SiblingsFit'
      BY <2>4, <2>5 DEF SiblingsFit, NoSibling
    <2> QED BY <2>5, <2>6 DEF FetchFits, ScriptFits
  <1>2. CASE MigrateIndex
    <2>1. /\ script.stage = "ivf_index" /\ script'.stage = "ivf_ids"
          /\ script'.rows = script.rows /\ script'.table = script.table
          /\ siblings' = [siblings EXCEPT !.index = script.rows]
      BY <1>0, <1>2 DEF MigrateIndex, ScriptsOf
    <2>2. siblings.ids = <<>> /\ Repaired(script.rows, script.table)
      BY <2>1 DEF SiblingsFit, NoSibling
    <2>3. siblings'.index = script.rows /\ siblings'.ids = <<>>
      BY <1>0, <2>1, <2>2 DEF SiblingsOf
    <2> QED BY <2>1, <2>2, <2>3 DEF FetchFits, ScriptFits, SiblingsFit
  <1>3. CASE MigrateIds
    <2>1. /\ script.stage = "ivf_ids" /\ script' = NoScript
          /\ siblings' = [siblings EXCEPT !.ids = script.rows, !.table = script.table]
      BY <1>3 DEF MigrateIds
    <2>2. siblings.index = script.rows /\ Repaired(script.rows, script.table)
      BY <2>1 DEF SiblingsFit
    <2>3. /\ siblings'.index = script.rows /\ siblings'.ids = script.rows
          /\ siblings'.table = script.table
      BY <1>0, <2>1, <2>2 DEF SiblingsOf
    <2>4. SiblingsFit'
      BY <2>1, <2>2, <2>3 DEF SiblingsFit, NoScript
    <2> QED BY <2>1, <2>4, NothingRuns
  <1>4. CASE SwapIn \/ RemoveSiblings
    <2>1. script = NoScript /\ script' = NoScript /\ siblings' = NoSibling
      BY <1>4 DEF SwapIn, RemoveSiblings
    <2>2. SiblingsFit'
      BY <2>1 DEF SiblingsFit, NoScript, NoSibling
    <2> QED BY <2>1, <2>2, NothingRuns
  <1> QED BY <1>1, <1>2, <1>3, <1>4 DEF Migrate

-----------------------------------------------------------------------------
(* All together.                                                           *)

(* Every step keeps what histories say of memory and files.                *)
LEMMA FitsStep ==
  ASSUME RebuildTypes, ProcessInv, Fits, ScriptFits, SiblingsFit, RebuildStep
  PROVE  Fits'
  <1>0. /\ TypeOK /\ sound \in [files : BOOLEAN, memory : BOOLEAN]
        /\ script \in ScriptsOf(faces)
    BY RebuildTypesAre
  <1>1. ASSUME UNCHANGED <<indexVars, covered, sound>> PROVE Fits'
    BY <1>0, <1>1, FitsFrame DEF indexVars, memory
  <1>2. ASSUME NEW c \in Callers, RenameFails(c) PROVE Fits'
    <2>1. /\ UNCHANGED <<live_index, live_ids, staging, disk, covered, sound>>
          /\ lock' = NoCaller /\ Goto(c, "idle")
      BY <1>2 DEF RenameFails, SaveFails, memory
    <2> QED BY <1>0, <2>1, GotoElsewhere, FitsFrame DEF Stages
  <1>3. ASSUME NEW c \in Callers, Serve(c) PROVE Fits'
    <2>1. UNCHANGED <<covered, sound>>
      BY <1>3 DEF Serve, maintenance
    <2>2. CASE ForceMerge(c) \/ MergeSkips(c) \/ MergeRaises(c) \/ Catch(c)
      <3>1. /\ UNCHANGED <<lock, live_index, live_ids, staging, disk>>
            /\ Goto(c, "idle") \/ Goto(c, "merge") \/ Goto(c, "raised")
        BY <2>2 DEF ForceMerge, MergeSkips, MergeRaises, Catch, memory
      <3>2. \A d \in Callers : pc'[d] = "save_index" => pc[d] = "save_index"
        BY <1>0, <3>1, GotoElsewhere DEF Stages
      <3> QED BY <2>1, <3>1, <3>2, FitsFrame
    <2> QED BY <1>3, <2>1, <2>2, FitsAdd, FitsPublish DEF Serve
  <1>4. CASE Load
    <2>1. UNCHANGED covered
      BY <1>4 DEF Load
    <2>2. CASE Start /\ sound' = [sound EXCEPT !.memory = sound.files]
      BY <2>1, <2>2, FitsStart
    <2>3. CASE (StartUnreadable \/ Crash) /\ sound' = [sound EXCEPT !.memory = FALSE]
      <3>1. UNCHANGED disk /\ sound'.files = sound.files /\ ~sound'.memory
        BY <1>0, <2>3 DEF StartUnreadable, Crash
      <3> QED BY <2>1, <3>1 DEF Fits, MemoryFits, FilesFit, BothFit, disk
    <2> QED BY <1>4, <2>2, <2>3 DEF Load
  <1>5. CASE \E f \in Face : Commit(f)
    BY <1>1, <1>5 DEF Commit
  <1>6. CASE \E c \in Callers : Write(c)
    BY <1>1, <1>6 DEF Write
  <1>7. CASE Process
    BY <1>2, <1>3, <1>4, <1>5, <1>6, <1>7, FitsMerge, FitsRename DEF Process
  <1>8. CASE RenameIndex
    <2>1. /\ UNCHANGED <<lock, pc, live_index, live_ids, staging, covered>>
          /\ ~sound'.files /\ sound'.memory = sound.memory
      BY <1>0, <1>8 DEF RenameIndex, memory
    <2> QED BY <2>1 DEF Fits, MemoryFits, FilesFit, BothFit, Served
  <1>9. CASE RenameIds
    <2>1. /\ script.stage = "ids" /\ UNCHANGED disk_index /\ disk_ids' = temp.ids
          /\ sound'.files = script.clean /\ ~sound'.memory /\ covered' = script.table
      BY <1>9 DEF RenameIds
    <2>2. script.clean => /\ disk_index = script.rows /\ temp.ids = script.rows
                          /\ Repaired(script.rows, script.table)
      BY <2>1 DEF ScriptFits
    <2>3. AlignedUpTo(script.rows, script.rows)
      BY <1>0, ListsOfFaces, AlignedConcat DEF TypeOK
    <2> QED BY <2>1, <2>2, <2>3 DEF Fits, MemoryFits, FilesFit, BothFit
  <1>10. CASE SwapIn
    <2>1. /\ disk_index' = siblings.index /\ disk_ids' = siblings.ids
          /\ covered' = siblings.table /\ ~sound'.memory /\ siblings.ids # <<>>
      BY <1>10 DEF SwapIn
    <2>2. siblings.index = siblings.ids /\ Repaired(siblings.index, siblings.table)
      BY <2>1 DEF SiblingsFit
    <2>3. AlignedUpTo(siblings.index, siblings.index)
      BY <1>0, ListsOfFaces, AlignedConcat DEF TypeOK
    <2> QED BY <2>1, <2>2, <2>3 DEF Fits, MemoryFits, FilesFit, BothFit
  <1>11. CASE RebuildBegins \/ FetchPage \/ ScriptEnds \/ MigrateQuery \/ MigrateIndex
              \/ MigrateIds \/ RemoveSiblings
    BY <1>1, <1>11 DEF RebuildBegins, FetchPage, ScriptEnds, MigrateQuery, MigrateIndex,
       MigrateIds, RemoveSiblings
  <1>12. CASE WriteTemp("index", "write_index", "write_ids") \/ WriteTemp("ids", "write_ids", "index")
    BY <1>1, <1>12 DEF WriteTemp
  <1> QED BY <1>7, <1>8, <1>9, <1>10, <1>11, <1>12 DEF RebuildStep, Rebuild, Migrate

(* The start: nothing is known of the files.                               *)
LEMMA RebuildInvInit == RebuildInit => RebuildInv
  <1> SUFFICES ASSUME RebuildInit PROVE RebuildInv
    OBVIOUS
  <1>1. ProcessInv
    BY FaissIndexAssumption DEF RebuildInit, ProcessInv, LockInv, InMerge
  <1>2. Fits
    BY DEF RebuildInit, Fits, MemoryFits, FilesFit, BothFit
  <1>3. FetchFits /\ ScriptFits /\ SiblingsFit
    BY DEF RebuildInit, NoScript, NoSibling, FetchFits, ScriptFits, SiblingsFit
  <1> QED BY <1>1, <1>2, <1>3, RebuildTypesInit DEF RebuildInv

(* The invariant is inductive.                                             *)
LEMMA RebuildInvStep ==
  ASSUME RebuildInv, RebuildStep \/ UNCHANGED rebuildVars
  PROVE  RebuildInv'
  <1>0. RebuildTypes /\ ProcessInv /\ Fits /\ FetchFits /\ ScriptFits /\ SiblingsFit
    BY DEF RebuildInv
  <1>1. RebuildTypes' /\ ProcessInv'
    BY <1>0, RebuildTypesStep, ProcessInvStep
  <1>2. CASE UNCHANGED rebuildVars
    <2>1. Fits'
      BY <1>0, <1>2 DEF rebuildVars, indexVars, maintenance, memory, disk, Fits, MemoryFits,
         FilesFit, BothFit, Served
    <2>2. FetchFits' /\ ScriptFits' /\ SiblingsFit'
      BY <1>0, <1>2 DEF rebuildVars, indexVars, maintenance, disk, FetchFits, ScriptFits, SiblingsFit
    <2> QED BY <1>1, <2>1, <2>2 DEF RebuildInv
  <1>3. CASE RebuildStep
    <2>1. FetchFits' /\ ScriptFits' /\ SiblingsFit'
      BY <1>0, <1>3, ProcessKeepsScripts, RebuildKeepsScripts, MigrateKeepsScripts DEF RebuildStep
    <2> QED BY <1>0, <1>1, <1>3, <2>1, FitsStep DEF RebuildInv
  <1> QED BY <1>2, <1>3

(* After a rebuild that nobody disturbed, or a migration, a restart finds  *)
(* the face of each vector, no face twice and none missing; and a process  *)
(* that starts on it keeps it so (save_atomically of the rebuild,          *)
(* _merge_staging_to_live of the index).                                   *)
THEOREM RebuildsRepair == Spec => []RebuildRepairs
  <1>1. Init => RebuildInv
    BY RebuildInvInit DEF Init
  <1>2. RebuildInv /\ [Next]_vars => RebuildInv'
    BY OnePartMoves, RebuildInvStep
  <1>3. RebuildInv => RebuildRepairs
    <2> SUFFICES ASSUME RebuildInv PROVE RebuildRepairs
      OBVIOUS
    <2>1. RebuildTypes /\ TypeOK /\ MemoryFits /\ FilesFit
      BY RebuildTypesAre DEF RebuildInv, Fits
    <2>2. sound.files => RestoredIds = disk_index
      BY <2>1, RestoredAligned DEF FilesFit, DiskInv
    <2>3. sound.memory => IsInjective(live_ids)
      BY <2>1, ListsOfFaces, AlignedInjective DEF MemoryFits
    <2> QED BY <2>1, <2>2, <2>3 DEF RebuildRepairs, MemoryFits, FilesFit, Repaired
  <1> QED BY <1>1, <1>2, <1>3, PTL DEF Spec

-----------------------------------------------------------------------------
(* The invariants of the eight parts, or what of them their types need.    *)
PartsTyped ==
  /\ part \in Parts
  /\ ScanInv /\ WatchTypes /\ VerificationInv /\ DashboardInv
  /\ EvictTypes /\ CountersInv /\ WhispersInv /\ RebuildTypes

(* ServicesTypeOK: every part keeps its types and bounds: record_queue and *)
(* the batch their sizes, the sentinels the number of drives, the scripts  *)
(* their batches (scanner.py, onedrive_evict.ps1, onedrive_audit.ps1 and   *)
(* the others).                                                            *)
THEOREM ServicesTyped == Spec => []ServicesTypeOK
  <1>1. Init => PartsTyped
    BY ScanInit, WatchTypesInit, AccountsInit, ConnectionsInit, EvictTypesInit, CountersInit,
       WhispersInvInit, RebuildTypesInit DEF Init, PartsTyped
  <1>2. PartsTyped /\ [Next]_vars => PartsTyped'
    <2> SUFFICES ASSUME PartsTyped, [Next]_vars PROVE PartsTyped'
      OBVIOUS
    <2>1. part' \in Parts
      BY OnePartMoves DEF PartsTyped
    <2>2. (ScanInv /\ WatchTypes /\ VerificationInv /\ DashboardInv)'
      BY OnePartMoves, ScanStep, WatchTypesStep, AccountsStep, ConnectionsStep DEF PartsTyped
    <2>3. (EvictTypes /\ CountersInv /\ WhispersInv /\ RebuildTypes)'
      BY OnePartMoves, EvictTypesStep, CountersStep, WhispersInvStep, RebuildTypesStep DEF PartsTyped
    <2> QED BY <2>1, <2>2, <2>3 DEF PartsTyped
  <1>3. PartsTyped => ServicesTypeOK
    BY ScanTyped, EvictTyped DEF PartsTyped, WatchTypes, VerificationInv, DashboardInv,
       CountersInv, WhispersInv, RebuildTypes, ServicesTypeOK
  <1> QED BY <1>1, <1>2, <1>3, PTL DEF Spec
=============================================================================
