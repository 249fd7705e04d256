----------------------------- MODULE DataLemmas -----------------------------
(***************************************************************************)
(* Lemmas about the two operators that the models count and join bytes     *)
(* with: Bytes of a family of lengths, with the bytes in flight that it    *)
(* counts, and Joined of a sequence of chunks.                             *)
(* What a recursive function computes is shown by looking at               *)
(* the least argument at which it would fail.                              *)
(***************************************************************************)
EXTENDS Transmissions, Sequences, FiniteSetTheorems, SequenceTheorems,
        WellFoundedInduction, TLAPS

\* A nonempty set of naturals has a least element.
LEMMA LeastElement ==
  ASSUME NEW T, T \subseteq Nat, T # {}
  PROVE  \E x \in T : \A y \in T : x <= y
<1>1. PICK x \in T : \A y \in T : ~(<<y, x>> \in OpToRel(<, Nat))
  BY WFMin, NatLessThanWellFounded, Zenon
<1>2. \A y \in T : ~(y < x)
  BY <1>1, T \subseteq Nat, Zenon DEF OpToRel
<1> QED
  BY <1>2, T \subseteq Nat

-----------------------------------------------------------------------------
(* Counting bytes.                                                         *)

\* A family of lengths whose bytes can be counted.
Lengths(len) == IsFiniteSet(DOMAIN len) /\ \A s \in DOMAIN len : len[s] \in Nat

\* Finitely many items of finite length occupy finitely many cells.
LEMMA CellsFinite ==
  ASSUME NEW len, Lengths(len)
  PROVE  IsFiniteSet(Cells(len))
<1> DEFINE f == [s \in DOMAIN len |-> {s} \X (1..len[s])]
           R == {{s} \X (1..len[s]) : s \in DOMAIN len}
<1>1. f \in Surjection(DOMAIN len, R)
  BY Zenon DEF Surjection
<1>2. IsFiniteSet(R)
  BY <1>1, FS_Surjection DEF Lengths
<1>3. ASSUME NEW s \in DOMAIN len
      PROVE  IsFiniteSet({s} \X (1..len[s]))
  <2>1. len[s] \in Int /\ 1 \in Int
    BY DEF Lengths
  <2>2. IsFiniteSet({s}) /\ IsFiniteSet(1..len[s])
    BY <2>1, FS_Singleton, FS_Interval, Zenon
  <2> QED
    BY <2>2, FS_Product, Zenon
<1>4. IsFiniteSet(UNION R)
  BY <1>2, <1>3, FS_UNION, Zenon
<1> QED
  BY <1>4 DEF Cells

\* The byte count of a finite family of lengths is a natural number.
LEMMA BytesType ==
  ASSUME NEW len, Lengths(len)
  PROVE  Bytes(len) \in Nat
BY CellsFinite, FS_CardinalityType DEF Bytes

\* No items, no bytes.
LEMMA BytesEmpty ==
  ASSUME NEW len, DOMAIN len = {}
  PROVE  Bytes(len) = 0
<1>1. Cells(len) = {}
  BY DEF Cells
<1> QED
  BY <1>1, FS_EmptySet DEF Bytes

\* A single item counts its own length.
LEMMA BytesSingle ==
  ASSUME NEW len, NEW s, DOMAIN len = {s}, len[s] \in Nat
  PROVE  Bytes(len) = len[s]
<1>1. Cells(len) = {s} \X (1..len[s])
  BY DEF Cells
<1>2. IsFiniteSet({s}) /\ Cardinality({s}) = 1
  BY FS_Singleton, Zenon
<1>3. len[s] \in Int /\ 1 \in Int
  OBVIOUS
<1>4. IsFiniteSet(1..len[s]) /\ Cardinality(1..len[s]) = len[s]
  BY <1>3, FS_Interval
<1>5. Cardinality({s} \X (1..len[s])) = Cardinality({s}) * Cardinality(1..len[s])
  BY ONLY <1>2, <1>4, FS_Product, Zenon
<1>6. Cardinality({s}) * Cardinality(1..len[s]) = len[s]
  BY <1>2, <1>4
<1> QED
  BY <1>1, <1>5, <1>6 DEF Bytes

\* The bytes of a family are those of a part plus those of the rest.
LEMMA BytesSplit ==
  ASSUME NEW len, Lengths(len), NEW a, NEW b,
         DOMAIN a \cup DOMAIN b = DOMAIN len, DOMAIN a \cap DOMAIN b = {},
         \A s \in DOMAIN a : a[s] = len[s], \A s \in DOMAIN b : b[s] = len[s]
  PROVE  Bytes(len) = Bytes(a) + Bytes(b)
<1>1. Lengths(a) /\ Lengths(b)
  <2>1. DOMAIN a \in SUBSET DOMAIN len /\ DOMAIN b \in SUBSET DOMAIN len
    OBVIOUS
  <2>2. IsFiniteSet(DOMAIN a) /\ IsFiniteSet(DOMAIN b)
    BY <2>1, FS_Subset DEF Lengths
  <2> QED
    BY <2>1, <2>2 DEF Lengths
<1>2. IsFiniteSet(Cells(a)) /\ IsFiniteSet(Cells(b))
  BY <1>1, CellsFinite
<1>3. Cells(len) = Cells(a) \cup Cells(b)
  BY DEF Cells
<1>4. Cells(a) \cap Cells(b) = {}
  BY DEF Cells
<1>5. Cardinality(Cells(a) \cup Cells(b)) =
        Cardinality(Cells(a)) + Cardinality(Cells(b)) - Cardinality(Cells(a) \cap Cells(b))
  BY <1>2, FS_Union
<1>6. Cardinality(Cells(a)) \in Nat /\ Cardinality(Cells(b)) \in Nat
  BY <1>2, FS_CardinalityType
<1>7. Cardinality(Cells(a) \cap Cells(b)) = 0
  BY <1>4, FS_EmptySet
<1> QED
  BY <1>3, <1>5, <1>6, <1>7 DEF Bytes
-----------------------------------------------------------------------------
(* Bytes in flight.                                                        *)

TxMap(tx) == IsFiniteSet(DOMAIN tx) /\ tx \in [DOMAIN tx -> packetRecord]

\* The lengths of the unacknowledged members of S.
Family(tx, S) == [s \in {u \in S : ~tx[u].Acked} |-> tx[s].SizeBytes]

\* The unacknowledged packets of a set form a finite family of lengths.
LEMMA FamilyLengths ==
  ASSUME NEW tx, TxMap(tx), NEW S, S \subseteq DOMAIN tx
  PROVE  Lengths(Family(tx, S)) /\ InFlight(tx, S) = Bytes(Family(tx, S))
         /\ InFlight(tx, S) \in Nat
<1>1. {u \in S : ~tx[u].Acked} \in SUBSET DOMAIN tx
  OBVIOUS
<1>2. IsFiniteSet({u \in S : ~tx[u].Acked})
  BY <1>1, FS_Subset DEF TxMap
<1>3. Lengths(Family(tx, S))
  BY <1>2 DEF Family, Lengths, TxMap, packetRecord
<1>4. InFlight(tx, S) = Bytes(Family(tx, S))
  BY DEF InFlight, Family
<1> QED
  BY <1>3, <1>4, BytesType

\* t is tx and one more packet s of length len.
OneMore(t, tx, s, len) ==
  /\ TxMap(tx) /\ s \notin DOMAIN tx /\ len \in Nat
  /\ DOMAIN t = DOMAIN tx \cup {s} /\ (\A u \in DOMAIN tx : t[u] = tx[u])
  /\ t \in [DOMAIN t -> packetRecord] /\ t[s].SizeBytes = len /\ t[s].Acked = FALSE

\* A packet added to the map adds its length.
LEMMA InFlightAdd ==
  ASSUME NEW t, NEW tx, NEW s, NEW len, OneMore(t, tx, s, len)
  PROVE  InFlight(t, DOMAIN t) = InFlight(tx, DOMAIN tx) + len
<1> USE DEF OneMore
<1> DEFINE F == Family(t, DOMAIN t)
           A == Family(tx, DOMAIN tx)
           B == [u \in {s} |-> len]
<1>1. TxMap(t)
  <2>1. IsFiniteSet(DOMAIN t)
    BY FS_AddElement DEF TxMap
  <2> QED
    BY <2>1 DEF TxMap
<1>2. Lengths(F) /\ InFlight(t, DOMAIN t) = Bytes(F) /\ InFlight(tx, DOMAIN tx) = Bytes(A)
  BY <1>1, FamilyLengths
<1>3. DOMAIN A \cup DOMAIN B = DOMAIN F /\ DOMAIN A \cap DOMAIN B = {}
  BY DEF Family
<1>4. (\A u \in DOMAIN A : A[u] = F[u]) /\ (\A u \in DOMAIN B : B[u] = F[u])
  BY DEF Family
<1>5. DOMAIN B = {s} /\ B[s] = len
  OBVIOUS
<1> HIDE DEF F, A, B
<1>6. Bytes(F) = Bytes(A) + Bytes(B)
  BY <1>2, <1>3, <1>4, BytesSplit
<1>7. Bytes(B) = len
  BY <1>5, BytesSingle
<1> QED
  BY <1>2, <1>6, <1>7

\* Acknowledging the members of S takes their bytes, and only theirs, away.
LEMMA InFlightAck ==
  ASSUME NEW tx, TxMap(tx), NEW S, S \subseteq DOMAIN tx, NEW t, DOMAIN t = DOMAIN tx,
         t \in [DOMAIN t -> packetRecord],
         \A u \in DOMAIN tx : t[u].SizeBytes = tx[u].SizeBytes,
         \A u \in DOMAIN tx : t[u].Acked = (tx[u].Acked \/ u \in S)
  PROVE  InFlight(tx, DOMAIN tx) = InFlight(tx, S) + InFlight(t, DOMAIN t)
<1> DEFINE F == Family(tx, DOMAIN tx)
           A == Family(tx, S)
           B == Family(t, DOMAIN t)
<1>1. TxMap(t)
  BY DEF TxMap
<1>2. /\ Lengths(F) /\ InFlight(tx, DOMAIN tx) = Bytes(F)
      /\ InFlight(tx, S) = Bytes(A) /\ InFlight(t, DOMAIN t) = Bytes(B)
  BY <1>1, FamilyLengths
<1>3. DOMAIN A \cup DOMAIN B = DOMAIN F /\ DOMAIN A \cap DOMAIN B = {}
  BY DEF Family, TxMap, packetRecord
<1>4. (\A u \in DOMAIN A : A[u] = F[u]) /\ (\A u \in DOMAIN B : B[u] = F[u])
  BY DEF Family, TxMap, packetRecord
<1> HIDE DEF F, A, B
<1>5. Bytes(F) = Bytes(A) + Bytes(B)
  BY <1>2, <1>3, <1>4, BytesSplit
<1> QED
  BY <1>2, <1>5

\* A change that touches neither lengths nor acknowledgements changes nothing.
LEMMA InFlightSame ==
  ASSUME NEW tx, NEW t, DOMAIN t = DOMAIN tx,
         \A u \in DOMAIN tx : t[u].SizeBytes = tx[u].SizeBytes /\ t[u].Acked = tx[u].Acked
  PROVE  InFlight(t, DOMAIN t) = InFlight(tx, DOMAIN tx)
<1>1. Family(t, DOMAIN t) = Family(tx, DOMAIN tx)
  BY DEF Family
<1> QED
  BY <1>1 DEF InFlight, Family

-----------------------------------------------------------------------------
(* Joining payloads.                                                       *)

\* g holds the concatenations of the first 1, 2, ..., k members of s.
Joins(g, s, k) == g = [i \in 1..k |-> IF i = 1 THEN s[i] ELSE g[i - 1] \o s[i]]

\* The recursion of Joined has a solution of every length.
LEMMA JoinsExist ==
  ASSUME NEW s, NEW k \in Nat \ {0}
  PROVE  \E g : Joins(g, s, k)
<1> DEFINE T == {n \in Nat \ {0} : ~ \E g : Joins(g, s, n)}
<1> SUFFICES T = {}
  OBVIOUS
<1> SUFFICES ASSUME T # {} PROVE FALSE
  OBVIOUS
<1>0. T \subseteq Nat
  OBVIOUS
<1>1. PICK n \in T : \A m \in T : n <= m
  BY <1>0, LeastElement, Zenon
<1>a. /\ n \in Nat \ {0} /\ ~ \E g : Joins(g, s, n)
      /\ \A m \in Nat \ {0} : m < n => \E g : Joins(g, s, m)
  BY <1>1
<1> HIDE DEF T
<1>2. CASE n = 1
  <2> DEFINE h == [i \in 1..1 |-> s[i]]
  <2>1. h = [i \in 1..1 |-> IF i = 1 THEN s[i] ELSE h[i - 1] \o s[i]]
    OBVIOUS
  <2> QED
    BY <1>2, <1>a, <2>1, Zenon DEF Joins
<1>3. CASE n # 1
  <2>1. n - 1 \in Nat \ {0} /\ n - 1 < n /\ n - 1 \in 1..n
    BY <1>a, <1>3
  <2>2. PICK g : Joins(g, s, n - 1)
    BY <1>a, <2>1
  <2> DEFINE h == [i \in 1..n |-> IF i = n THEN g[n - 1] \o s[n] ELSE g[i]]
  <2>3. ASSUME NEW i \in 1..n
        PROVE  h[i] = IF i = 1 THEN s[i] ELSE h[i - 1] \o s[i]
    <3>1. CASE i = n
      BY <1>a, <1>3, <2>1, <3>1, Zenon
    <3>2. CASE i # n
      <4>1. i \in 1..(n - 1)
        BY <1>a, <3>2
      <4>2. g[i] = IF i = 1 THEN s[i] ELSE g[i - 1] \o s[i]
        BY <2>2, <4>1, Zenon DEF Joins
      <4>3. i # 1 => i - 1 \in 1..n /\ i - 1 # n
        BY <1>a, <4>1
      <4> QED
        BY <3>2, <4>2, <4>3
    <3> QED
      BY <3>1, <3>2
  <2>4. Joins(h, s, n)
    BY <2>3, Zenon DEF Joins
  <2> QED
    BY <1>a, <2>4
<1> QED
  BY <1>2, <1>3

\* Two solutions agree on what the members joined so far determine.
LEMMA JoinsUnique ==
  ASSUME NEW s, NEW t, NEW j \in Nat, NEW k \in Nat, NEW g, NEW h,
         Joins(g, s, j), Joins(h, t, k), NEW m \in 1..j, m <= k,
         \A i \in 1..m : s[i] = t[i]
  PROVE  g[m] = h[m]
<1> DEFINE T == {n \in 1..m : g[n] # h[n]}
<1> SUFFICES ASSUME T # {} PROVE FALSE
  OBVIOUS
<1>0. T \subseteq Nat
  OBVIOUS
<1>1. PICK n \in T : \A i \in T : n <= i
  BY <1>0, LeastElement, Zenon
<1>a. n \in 1..m /\ n \in 1..j /\ n \in 1..k /\ g[n] # h[n]
  BY <1>1
<1>2. /\ g[n] = IF n = 1 THEN s[n] ELSE g[n - 1] \o s[n]
      /\ h[n] = IF n = 1 THEN t[n] ELSE h[n - 1] \o t[n]
  BY <1>a, Zenon DEF Joins
<1>3. n # 1 => g[n - 1] = h[n - 1]
  <2>1. n # 1 => n - 1 \in 1..m /\ ~(n <= n - 1)
    BY <1>a
  <2> QED
    BY <1>1, <2>1
<1>4. s[n] = t[n]
  BY <1>a
<1> QED
  BY <1>a, <1>2, <1>3, <1>4, Zenon

\* Joined is the last member of any such solution.
LEMMA JoinedIsJoin ==
  ASSUME NEW s, Len(s) \in Nat \ {0}, NEW g, Joins(g, s, Len(s))
  PROVE  Joined(s) = g[Len(s)]
<1> DEFINE f == CHOOSE h : Joins(h, s, Len(s))
<1>1. Joins(f, s, Len(s))
  OBVIOUS
<1>2. Joined(s) = f[Len(s)]
  BY DEF Joined, Joins
<1>3. Len(s) \in Nat /\ Len(s) \in 1..Len(s) /\ Len(s) <= Len(s)
  OBVIOUS
<1> HIDE DEF f
<1>4. f[Len(s)] = g[Len(s)]
  BY <1>1, <1>3, JoinsUnique
<1> QED
  BY <1>2, <1>4, Zenon

\* Nothing to join.
LEMMA JoinedEmpty == Joined(<< >>) = << >>
BY DEF Joined

\* One more payload at the end is joined last.
LEMMA JoinedAppend ==
  ASSUME NEW S, NEW s \in Seq(Seq(S)), NEW x \in Seq(S)
  PROVE  Joined(Append(s, x)) = Joined(s) \o x
<1> DEFINE t == Append(s, x)
           n == Len(s)
<1>1. /\ n \in Nat /\ Len(t) = n + 1 /\ t[n + 1] = x
      /\ \A i \in 1..n : t[i] = s[i]
  BY AppendProperties, LenProperties
<1>a. n + 1 \in Nat \ {0}
  BY <1>1
<1>2. PICK h : Joins(h, t, n + 1)
  BY <1>a, JoinsExist, Zenon
<1>3. Joined(t) = h[n + 1]
  <2> HIDE DEF t, n
  <2> QED
    BY <1>1, <1>a, <1>2, JoinedIsJoin
<1>4. h[n + 1] = IF n + 1 = 1 THEN t[n + 1] ELSE h[n] \o t[n + 1]
  <2>1. n + 1 \in 1..(n + 1) /\ (n + 1) - 1 = n
    BY <1>1
  <2> HIDE DEF t, n
  <2> QED
    BY <1>2, <2>1, Zenon DEF Joins
<1>5. CASE n = 0
  <2>1. s = << >>
    BY <1>5, EmptySeq
  <2>2. Joined(s) \o x = x
    BY <2>1, JoinedEmpty, ConcatEmptySeq
  <2> HIDE DEF t, n
  <2> QED
    BY <1>1, <1>3, <1>4, <1>5, <2>2 DEF t
<1>6. CASE n # 0
  <2>1. n \in Nat \ {0} /\ n \in 1..n /\ n <= n + 1 /\ n + 1 \in Nat
    BY <1>1, <1>6
  <2>2. PICK g : Joins(g, s, n)
    BY <2>1, JoinsExist, Zenon
  <2>3. Joined(s) = g[n]
    BY <2>1, <2>2, JoinedIsJoin
  <2> HIDE DEF t, n
  <2>4. g[n] = h[n]
    BY <1>1, <1>2, <2>1, <2>2, JoinsUnique
  <2> QED
    BY <1>1, <1>3, <1>4, <2>1, <2>3, <2>4 DEF t
<1> QED
  BY <1>5, <1>6

\* Payloads of bytes join to bytes.
LEMMA JoinedType ==
  ASSUME NEW S, NEW s \in Seq(Seq(S))
  PROVE  Joined(s) \in Seq(S)
<1> DEFINE Bad(t) == t \in Seq(Seq(S)) /\ Joined(t) \notin Seq(S)
           T == {n \in Nat : \E t : Bad(t) /\ Len(t) = n}
<1> SUFFICES ASSUME Bad(s) PROVE FALSE
  OBVIOUS
<1>1. Len(s) \in T /\ T \subseteq Nat
  BY LenProperties
<1>2. PICK n \in T : \A m \in T : n <= m
  BY <1>1, LeastElement, Zenon
<1>3. PICK t : Bad(t) /\ Len(t) = n
  BY <1>2
<1>4. t # << >>
  BY <1>3, JoinedEmpty, EmptySeq
<1>5. PICK u \in Seq(Seq(S)), x \in Seq(S) : t = Append(u, x)
  BY <1>3, <1>4, SequenceEmptyOrAppend, Zenon
<1>6. Len(u) \in Nat /\ n = Len(u) + 1
  BY <1>3, <1>5, AppendProperties, LenProperties
<1>7. Len(u) \notin T
  <2>1. n \in Nat /\ ~(n <= Len(u))
    BY <1>6
  <2> QED
    BY <1>2, <2>1, Zenon
<1>8. Joined(u) \in Seq(S)
  BY <1>5, <1>6, <1>7
<1>9. Joined(t) = Joined(u) \o x
  BY <1>5, JoinedAppend
<1> QED
  BY <1>3, <1>8, <1>9, ConcatProperties

\* Concatenation is associative.
LEMMA ConcatAssoc ==
  ASSUME NEW S, NEW a \in Seq(S), NEW b \in Seq(S), NEW c \in Seq(S)
  PROVE  (a \o b) \o c = a \o (b \o c)
OBVIOUS

\* One more payload after two runs is one more after the second.
LEMMA ConcatAppend ==
  ASSUME NEW S, NEW a \in Seq(S), NEW b \in Seq(S), NEW x \in S
  PROVE  a \o b \in Seq(S) /\ a \o Append(b, x) = Append(a \o b, x)
OBVIOUS

\* ... and joined last.
LEMMA JoinedConcatAppend ==
  ASSUME NEW S, NEW s \in Seq(Seq(S)), NEW u \in Seq(Seq(S)), NEW x \in Seq(S),
         Joined(s \o u) = Joined(s) \o Joined(u)
  PROVE  Joined(s \o Append(u, x)) = Joined(s) \o Joined(Append(u, x))
<1>1. s \o u \in Seq(Seq(S)) /\ s \o Append(u, x) = Append(s \o u, x)
  <2> DEFINE U == Seq(S)
  <2>1. s \in Seq(U) /\ u \in Seq(U) /\ x \in U
    OBVIOUS
  <2> HIDE DEF U
  <2>2. s \o u \in Seq(U) /\ s \o Append(u, x) = Append(s \o u, x)
    BY <2>1, ConcatAppend
  <2> QED
    BY <2>2 DEF U
<1>2. Joined(Append(s \o u, x)) = Joined(s \o u) \o x
  BY <1>1, JoinedAppend, Zenon
<1>3. Joined(Append(u, x)) = Joined(u) \o x
  BY JoinedAppend
<1>4. Joined(s) \in Seq(S) /\ Joined(u) \in Seq(S)
  BY JoinedType
<1>5. (Joined(s) \o Joined(u)) \o x = Joined(s) \o (Joined(u) \o x)
  BY <1>4, ConcatAssoc
<1> QED
  BY <1>1, <1>2, <1>3, <1>5

\* The payloads of two runs join to the join of the runs.
LEMMA JoinedConcat ==
  ASSUME NEW S, NEW s \in Seq(Seq(S)), NEW r \in Seq(Seq(S))
  PROVE  Joined(s \o r) = Joined(s) \o Joined(r)
<1> DEFINE Bad(t) == /\ t \in Seq(Seq(S))
                     /\ Joined(s \o t) # Joined(s) \o Joined(t)
           T == {n \in Nat : \E t : Bad(t) /\ Len(t) = n}
<1> SUFFICES ASSUME Bad(r) PROVE FALSE
  OBVIOUS
<1>1. Len(r) \in T /\ T \subseteq Nat
  BY LenProperties
<1>2. PICK n \in T : \A m \in T : n <= m
  BY <1>1, LeastElement, Zenon
<1>3. PICK t : Bad(t) /\ Len(t) = n
  BY <1>2
<1>4. t # << >>
  <2>1. s \o << >> = s /\ Joined(s) \o << >> = Joined(s)
    BY JoinedType, ConcatEmptySeq
  <2> QED
    BY <1>3, <2>1, JoinedEmpty, Zenon
<1>5. PICK u \in Seq(Seq(S)), x \in Seq(S) : t = Append(u, x)
  BY <1>3, <1>4, SequenceEmptyOrAppend, Zenon
<1>6. Len(u) \in Nat /\ n = Len(u) + 1
  BY <1>3, <1>5, AppendProperties, LenProperties
<1>7. Len(u) \notin T
  <2>1. n \in Nat /\ ~(n <= Len(u))
    BY <1>6
  <2> QED
    BY <1>2, <2>1, Zenon
<1>8. Joined(s \o u) = Joined(s) \o Joined(u)
  BY <1>5, <1>6, <1>7
<1> QED
  BY <1>3, <1>5, <1>8, JoinedConcatAppend, ZenonT(30)

\* The first payload comes first.
LEMMA JoinedHead ==
  ASSUME NEW S, NEW s \in Seq(Seq(S)), s # << >>
  PROVE  Joined(s) = Head(s) \o Joined(Tail(s))
<1>1. Head(s) \in Seq(S) /\ Tail(s) \in Seq(Seq(S))
  BY HeadTailProperties
<1>2. <<Head(s)>> \in Seq(Seq(S)) /\ s = <<Head(s)>> \o Tail(s)
  <2>1. <<Head(s)>> \in Seq(Seq(S))
    BY <1>1
  <2>2. /\ Len(s) \in Nat \ {0} /\ Len(Tail(s)) = Len(s) - 1 /\ s[1] = Head(s)
        /\ \A i \in 1..Len(Tail(s)) : Tail(s)[i] = s[i + 1]
    BY HeadTailProperties, EmptySeq
  <2>3. /\ <<Head(s)>> \o Tail(s) \in Seq(Seq(S))
        /\ Len(<<Head(s)>> \o Tail(s)) = 1 + Len(Tail(s))
        /\ \A i \in 1..(1 + Len(Tail(s))) : (<<Head(s)>> \o Tail(s))[i] =
             IF i <= 1 THEN <<Head(s)>>[i] ELSE Tail(s)[i - 1]
    BY <1>1, <2>1, ConcatProperties
  <2>4. \A i \in 1..Len(s) : s[i] = (<<Head(s)>> \o Tail(s))[i]
    BY <2>2, <2>3
  <2> QED
    BY <2>1, <2>2, <2>3, <2>4, SeqEqual
<1>3. Joined(<<Head(s)>>) = Head(s)
  <2>1. << >> \in Seq(Seq(S)) /\ Append(<< >>, Head(s)) = <<Head(s)>>
    BY <1>1
  <2>2. << >> \o Head(s) = Head(s)
    BY <1>1, ConcatEmptySeq
  <2> QED
    BY <1>1, <2>1, <2>2, JoinedAppend, JoinedEmpty, Zenon
<1> QED
  BY <1>1, <1>2, <1>3, JoinedConcat, Zenon

-----------------------------------------------------------------------------
(* Cutting sequences.                                                      *)

\* The part of a sequence after its first o members.
From(q, o) == SubSeq(q, o + 1, Len(q))

\* What it consists of.
LEMMA FromProperties ==
  ASSUME NEW S, NEW q \in Seq(S), NEW o \in 0..Len(q)
  PROVE  /\ From(q, o) \in Seq(S)
         /\ Len(From(q, o)) = Len(q) - o
         /\ \A i \in 1..(Len(q) - o) : From(q, o)[i] = q[o + i]
BY LenProperties DEF From

\* A prefix, and its members.
LEMMA PrefixProperties ==
  ASSUME NEW S, NEW q \in Seq(S), NEW a \in 1..(Len(q) + 1), NEW b \in (a - 1)..Len(q)
  PROVE  /\ SubSeq(q, a, b) \in Seq(S)
         /\ Len(SubSeq(q, a, b)) = b - a + 1
         /\ \A i \in 1..(b - a + 1) : SubSeq(q, a, b)[i] = q[a + i - 1]
BY LenProperties

\* What is appended comes after the rest of what was there.
LEMMA FromConcat ==
  ASSUME NEW S, NEW q \in Seq(S), NEW d \in Seq(S), NEW o \in 0..Len(q)
  PROVE  From(q \o d, o) = From(q, o) \o d
<1>1. /\ q \o d \in Seq(S) /\ Len(q \o d) = Len(q) + Len(d)
      /\ Len(q) \in Nat /\ Len(d) \in Nat /\ o \in 0..Len(q \o d)
      /\ \A i \in 1..(Len(q) + Len(d)) : (q \o d)[i] = IF i <= Len(q) THEN q[i] ELSE d[i - Len(q)]
  BY ConcatProperties, LenProperties
<1>2. /\ From(q, o) \in Seq(S) /\ Len(From(q, o)) = Len(q) - o
      /\ \A i \in 1..(Len(q) - o) : From(q, o)[i] = q[o + i]
  BY FromProperties
<1>3. /\ From(q \o d, o) \in Seq(S) /\ Len(From(q \o d, o)) = Len(q \o d) - o
      /\ \A i \in 1..(Len(q \o d) - o) : From(q \o d, o)[i] = (q \o d)[o + i]
  BY <1>1, FromProperties, ZenonT(30)
<1>4. /\ From(q, o) \o d \in Seq(S) /\ Len(From(q, o) \o d) = Len(From(q, o)) + Len(d)
      /\ \A i \in 1..(Len(From(q, o)) + Len(d)) : (From(q, o) \o d)[i] =
           IF i <= Len(From(q, o)) THEN From(q, o)[i] ELSE d[i - Len(From(q, o))]
  BY <1>2, ConcatProperties, Zenon
<1> DEFINE a == From(q \o d, o)
           b == From(q, o) \o d
           c == q \o d
           f == From(q, o)
<1> HIDE DEF a, b, c, f
<1>5. /\ Len(c) = Len(q) + Len(d) /\ Len(q) \in Nat /\ Len(d) \in Nat
      /\ \A i \in 1..(Len(q) + Len(d)) : c[i] = IF i <= Len(q) THEN q[i] ELSE d[i - Len(q)]
  BY <1>1 DEF c
<1>6. Len(f) = Len(q) - o /\ \A i \in 1..(Len(q) - o) : f[i] = q[o + i]
  BY <1>2 DEF f
<1>7. a \in Seq(S) /\ Len(a) = Len(c) - o /\ \A i \in 1..(Len(c) - o) : a[i] = c[o + i]
  BY <1>3 DEF a, c
<1>8. /\ b \in Seq(S) /\ Len(b) = Len(f) + Len(d)
      /\ \A i \in 1..(Len(f) + Len(d)) : b[i] = IF i <= Len(f) THEN f[i] ELSE d[i - Len(f)]
  BY <1>4 DEF b, f
<1>9. Len(a) = Len(b) /\ \A i \in 1..Len(a) : a[i] = b[i]
  <2>1. Len(a) = Len(b) /\ Len(a) = Len(q) + Len(d) - o
    BY <1>5, <1>6, <1>7, <1>8
  <2>2. ASSUME NEW i \in 1..Len(a) PROVE a[i] = b[i]
    <3>1. i \in Nat /\ i >= 1 /\ i <= Len(q) + Len(d) - o /\ o + i \in 1..(Len(q) + Len(d))
      BY <1>5, <2>1
    <3>2. a[i] = IF o + i <= Len(q) THEN q[o + i] ELSE d[o + i - Len(q)]
      <4>1. a[i] = c[o + i]
        BY <1>5, <1>7, <3>1
      <4> QED
        BY <1>5, <3>1, <4>1
    <3>3. b[i] = IF i <= Len(f) THEN f[i] ELSE d[i - Len(f)]
      BY <1>5, <1>6, <1>8, <3>1
    <3>4. CASE o + i <= Len(q)
      <4>1. i <= Len(f) /\ i \in 1..(Len(q) - o)
        BY <1>5, <1>6, <3>1, <3>4
      <4> QED
        BY <1>6, <3>2, <3>3, <3>4, <4>1
    <3>5. CASE ~(o + i <= Len(q))
      <4>1. ~(i <= Len(f)) /\ i - Len(f) = o + i - Len(q)
        BY <1>5, <1>6, <3>1, <3>5
      <4> QED
        BY <3>2, <3>3, <3>5, <4>1, SMTT(30)
    <3> QED
      BY <3>4, <3>5
  <2> QED
    BY <2>1, <2>2
<1>10. a = b
  BY <1>7, <1>8, <1>9, SeqEqual
<1> QED
  BY <1>10 DEF a, b

\* Cutting twice.
LEMMA FromFrom ==
  ASSUME NEW S, NEW q \in Seq(S), NEW o \in 0..Len(q), NEW k \in 0..(Len(q) - o)
  PROVE  From(From(q, o), k) = From(q, o + k)
<1>1. Len(q) \in Nat /\ o + k \in 0..Len(q)
  BY LenProperties
<1>2. /\ From(q, o) \in Seq(S) /\ Len(From(q, o)) = Len(q) - o
      /\ \A i \in 1..(Len(q) - o) : From(q, o)[i] = q[o + i]
  BY FromProperties, Zenon
<1>3. /\ From(q, o + k) \in Seq(S) /\ Len(From(q, o + k)) = Len(q) - (o + k)
      /\ \A i \in 1..(Len(q) - (o + k)) : From(q, o + k)[i] = q[o + k + i]
  BY <1>1, FromProperties
<1>4. /\ From(From(q, o), k) \in Seq(S) /\ Len(From(From(q, o), k)) = Len(q) - o - k
      /\ \A i \in 1..(Len(q) - o - k) : From(From(q, o), k)[i] = From(q, o)[k + i]
  BY <1>2, FromProperties
<1>5. \A i \in 1..Len(From(q, o + k)) : From(From(q, o), k)[i] = From(q, o + k)[i]
  BY SMTT(30), <1>1, <1>2, <1>3, <1>4
<1> QED
  BY <1>1, <1>3, <1>4, <1>5, SeqEqual

\* The first k members after the first o of them.
LEMMA PrefixOfFrom ==
  ASSUME NEW S, NEW h \in Seq(S), NEW r \in Seq(S),
         NEW o \in 0..Len(h), NEW k \in 0..(Len(h) - o)
  PROVE  SubSeq(From(h \o r, o), 1, k) = SubSeq(h, o + 1, o + k)
<1>1. /\ h \o r \in Seq(S) /\ Len(h \o r) = Len(h) + Len(r)
      /\ Len(h) \in Nat /\ Len(r) \in Nat /\ o \in 0..Len(h \o r)
      /\ \A i \in 1..(Len(h) + Len(r)) : (h \o r)[i] = IF i <= Len(h) THEN h[i] ELSE r[i - Len(h)]
  BY ConcatProperties, LenProperties
<1>2. /\ From(h \o r, o) \in Seq(S) /\ Len(From(h \o r, o)) = Len(h \o r) - o
      /\ \A i \in 1..(Len(h \o r) - o) : From(h \o r, o)[i] = (h \o r)[o + i]
  BY <1>1, FromProperties, ZenonT(30)
<1> DEFINE a == SubSeq(From(h \o r, o), 1, k)
           b == SubSeq(h, o + 1, o + k)
<1>3. a \in Seq(S) /\ Len(a) = k /\ \A i \in 1..k : a[i] = From(h \o r, o)[i]
  <2>1. 1 \in 1..(Len(From(h \o r, o)) + 1) /\ k \in (1 - 1)..Len(From(h \o r, o))
    BY <1>1, <1>2
  <2>2. /\ a \in Seq(S) /\ Len(a) = k - 1 + 1
        /\ \A i \in 1..(k - 1 + 1) : a[i] = From(h \o r, o)[1 + i - 1]
    BY <1>2, <2>1, PrefixProperties
  <2> QED
    BY <2>2
<1>4. b \in Seq(S) /\ Len(b) = k /\ \A i \in 1..k : b[i] = h[o + i]
  <2>1. o + 1 \in 1..(Len(h) + 1) /\ o + k \in ((o + 1) - 1)..Len(h)
    BY <1>1
  <2>2. /\ b \in Seq(S) /\ Len(b) = (o + k) - (o + 1) + 1
        /\ \A i \in 1..((o + k) - (o + 1) + 1) : b[i] = h[(o + 1) + i - 1]
    BY <2>1, PrefixProperties, Zenon
  <2> QED
    BY <1>1, <2>2
<1> HIDE DEF a, b
<1>5. ASSUME NEW i \in 1..k PROVE a[i] = b[i]
  <2>1. /\ i \in 1..(Len(h \o r) - o) /\ o + i \in 1..(Len(h) + Len(r))
        /\ o + i <= Len(h)
    BY <1>1
  <2>2. From(h \o r, o)[i] = h[o + i]
    BY <1>1, <1>2, <2>1
  <2> QED
    BY <1>3, <1>4, <2>2, Zenon
<1> QED
  BY <1>3, <1>4, <1>5, SeqEqual DEF a, b

\* All of one sequence taken off leaves the other.
LEMMA FromAll ==
  ASSUME NEW S, NEW h \in Seq(S), NEW r \in Seq(S)
  PROVE  From(h \o r, Len(h)) = r
<1>1. Len(h) \in 0..Len(h) /\ Len(h) \in Nat
  BY LenProperties
<1>2. From(h \o r, Len(h)) = From(h, Len(h)) \o r
  BY <1>1, FromConcat
<1>3. From(h, Len(h)) = << >>
  BY <1>1, SubSeqEmpty DEF From
<1> QED
  BY <1>2, <1>3, ConcatEmptySeq

\* The two parts of a cut are the whole.
LEMMA PrefixFrom ==
  ASSUME NEW S, NEW q \in Seq(S), NEW k \in 0..Len(q)
  PROVE  SubSeq(q, 1, k) \o From(q, k) = q
<1>1. /\ Len(q) \in Nat /\ 1 \in 1..(Len(q) + 1) /\ k \in (1 - 1)..Len(q)
      /\ Len(q) \in k..Len(q)
  BY LenProperties
<1>2. SubSeq(q, 1, k) \o SubSeq(q, k + 1, Len(q)) = SubSeq(q, 1, Len(q))
  BY <1>1, ConcatAdjacentSubSeq, Zenon
<1> QED
  BY <1>2, SubSeqFull, Zenon DEF From
=============================================================================
