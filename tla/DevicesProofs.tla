--------------------------- MODULE DevicesProofs ---------------------------
(***************************************************************************)
(* Theorems about what main talks to on the board (module MCDevices): the  *)
(* file system, the WebUSB channel, pins and the serial line, the shell    *)
(* behind the web IDE, the terminal and the lines edited on it, and        *)
(* buffers, for every value of the constants.                              *)
(***************************************************************************)
EXTENDS MCDevices, SequenceTheorems, WellFoundedInduction, TLAPS

-----------------------------------------------------------------------------
(***************************************************************************)
(* Numbers and sequences.                                                  *)
(***************************************************************************)
\* A set of numbers has a least one.
LEMMA LeastNumber ==
  ASSUME NEW T, T \subseteq Nat, T # {}
  PROVE  Min(T) \in T /\ \A y \in T : Min(T) <= y
<1> DEFINE R == {ss \in Nat \X Nat : ss[1] < ss[2]}
<1>1. IsWellFoundedOn(R, Nat)
  BY NatLessThanWellFounded DEF OpToRel
<1>2. \E x \in T : \A y \in T : <<y, x>> \notin R
  BY <1>1, WFMin, Zenon
<1>3. \A x, y \in Nat : <<y, x>> \notin R => x <= y
  OBVIOUS
<1>4. \E x \in T : \A y \in T : x <= y
  BY <1>2, <1>3
<1> QED
  BY <1>4 DEF Min

LEMMA OfTwo ==
  ASSUME NEW a \in Int, NEW b \in Int
  PROVE  /\ Max({a, b}) = IF a >= b THEN a ELSE b
         /\ Min({a, b}) = IF a <= b THEN a ELSE b
  BY DEF Max, Min

LEMMA ConstantSeq ==
  ASSUME NEW n \in Nat, NEW f \in [1 .. n -> Int]
  PROVE  f \in Seq(Int) /\ Len(f) = n
<1>1. f \in Seq(Int)
  BY SeqDef
<1> QED
  BY <1>1, LenProperties

\* What stands where in a concatenation of sequences whose lengths are known.
LEMMA ConcatIs ==
  ASSUME NEW S, NEW a, NEW b, a \in Seq(S), b \in Seq(S), NEW m, NEW n, Len(a) = m, Len(b) = n
  PROVE  /\ a \o b \in Seq(S) /\ Len(a \o b) = m + n
         /\ \A i \in 1 .. m + n : (a \o b)[i] = IF i <= m THEN a[i] ELSE b[i - m]
<1>1. /\ a \o b \in Seq(S) /\ Len(a \o b) = Len(a) + Len(b)
      /\ \A i \in 1 .. Len(a) + Len(b) : (a \o b)[i] = IF i <= Len(a) THEN a[i] ELSE b[i - Len(a)]
  BY ConcatProperties, Zenon
<1> QED
  BY <1>1, Zenon

LEMMA Concat3 ==
  ASSUME NEW S, NEW a, NEW b, NEW c, a \in Seq(S), b \in Seq(S), c \in Seq(S)
  PROVE  a \o (b \o c) = (a \o b) \o c
<1>1. a \in Seq(S) /\ b \in Seq(S) /\ c \in Seq(S)
  OBVIOUS
<1> QED
  BY ONLY <1>1, ConcatAssociative

LEMMA Removed ==
  ASSUME NEW S, NEW s \in Seq(S), NEW h \in DOMAIN s
  PROVE  /\ RemoveAt(s, h) \in Seq(S) /\ Len(RemoveAt(s, h)) = Len(s) - 1
         /\ \A i \in 1 .. Len(s) - 1 : RemoveAt(s, h)[i] = IF i < h THEN s[i] ELSE s[i + 1]
<1> DEFINE a == SubSeq(s, 1, h - 1)
           b == SubSeq(s, h + 1, Len(s))
<1>1. Len(s) \in Nat /\ h \in 1 .. Len(s) /\ \A i \in 1 .. Len(s) : s[i] \in S
  BY LenProperties
<1>2. a \in Seq(S) /\ Len(a) = h - 1 /\ \A i \in 1 .. h - 1 : a[i] = s[i]
  BY <1>1, SubSeqProperties
<1>3. b \in Seq(S) /\ Len(b) = Len(s) - h /\ \A i \in 1 .. Len(s) - h : b[i] = s[h + i]
  <2>1. \A i \in h + 1 .. Len(s) : s[i] \in S
    BY <1>1
  <2>2. /\ b \in Seq(S) /\ Len(b) = IF h + 1 <= Len(s) THEN Len(s) - (h + 1) + 1 ELSE 0
        /\ \A i \in 1 .. Len(s) - (h + 1) + 1 : b[i] = s[(h + 1) + i - 1]
    BY <1>1, <2>1, SubSeqProperties
  <2> QED
    BY <1>1, <2>2
<1>4. RemoveAt(s, h) = a \o b
  BY DEF RemoveAt
<1>5. /\ a \o b \in Seq(S) /\ Len(a \o b) = Len(a) + Len(b)
      /\ \A i \in 1 .. Len(a) + Len(b) : (a \o b)[i] = IF i <= Len(a) THEN a[i] ELSE b[i - Len(a)]
  BY <1>2, <1>3, ConcatProperties
<1> HIDE DEF a, b
<1>6. Len(a) + Len(b) = Len(s) - 1
  BY <1>1, <1>2, <1>3
<1>7. ASSUME NEW i \in 1 .. Len(s) - 1
      PROVE  (a \o b)[i] = IF i < h THEN s[i] ELSE s[i + 1]
  <2>0. /\ i \in Int /\ h \in Int /\ 1 <= i /\ i <= Len(s) - 1 /\ 1 <= h /\ Len(s) \in Nat
        /\ (a \o b)[i] = IF i <= h - 1 THEN a[i] ELSE b[i - (h - 1)]
    <3>1. i \in Int /\ h \in Int /\ 1 <= i /\ i <= Len(s) - 1 /\ 1 <= h /\ Len(s) \in Nat
      BY <1>1
    <3>2. i \in 1 .. Len(a) + Len(b) /\ Len(a) = h - 1
      BY <1>2, <1>6
    <3> QED
      BY <1>5, <3>1, <3>2
  <2>1. CASE i < h
    <3>1. (a \o b)[i] = a[i] /\ i \in 1 .. h - 1
      BY <2>0, <2>1
    <3> QED
      BY <1>2, <2>1, <3>1
  <2>2. CASE i >= h
    <3> DEFINE k == i - (h - 1)
    <3>1. (a \o b)[i] = b[k] /\ k \in 1 .. Len(s) - h /\ h + k = i + 1
      BY <2>0, <2>2
    <3> HIDE DEF k
    <3>2. b[k] = s[h + k]
      BY <1>3, <3>1
    <3>3. ~(i < h)
      BY <2>0, <2>2
    <3> QED
      BY ONLY <3>1, <3>2, <3>3
  <2> QED
    BY <2>0, <2>1, <2>2
<1> QED
  BY <1>4, <1>5, <1>6, <1>7

-----------------------------------------------------------------------------
(***************************************************************************)
(* Flattened sequences.                                                    *)
(***************************************************************************)
\* The function FlattenSeq is made from: what the first i sequences amount to.
Flattens(f, s, k) == f = [i \in 1 .. k |-> IF i = 1 THEN s[i] ELSE f[i - 1] \o s[i]]

\* It exists for as many of the sequences as there are.
LEMMA FlattensExists ==
  ASSUME NEW s, NEW n \in Nat
  PROVE  \E f : Flattens(f, s, n)
<1> DEFINE Bad == {k \in Nat : ~\E f : Flattens(f, s, k)}
           k == Min(Bad)
<1> SUFFICES ASSUME Bad # {}
             PROVE  FALSE
  OBVIOUS
<1>1. k \in Bad /\ \A j \in Bad : k <= j
  <2> HIDE DEF Bad
  <2>1. Bad \subseteq Nat
    BY DEF Bad
  <2> QED
    BY <2>1, LeastNumber
<1> HIDE DEF k
<1>2. k \in Nat /\ ~\E f : Flattens(f, s, k)
  BY <1>1
<1>3. k # 0
  <2>1. Flattens([i \in 1 .. 0 |-> 0], s, 0)
    BY DEF Flattens
  <2> QED
    BY <1>2, <2>1
<1>4. k - 1 \in Nat /\ k - 1 \notin Bad
  BY <1>1, <1>2, <1>3
<1>5. PICK g : Flattens(g, s, k - 1)
  BY <1>4
<1> DEFINE f == [i \in 1 .. k |-> IF i = 1 THEN s[i] ELSE g[i - 1] \o s[i]]
<1>6. g = [i \in 1 .. k - 1 |-> IF i = 1 THEN s[i] ELSE g[i - 1] \o s[i]]
  BY <1>5 DEF Flattens
<1>7. \A i \in 1 .. k - 1 : f[i] = g[i]
  <2> SUFFICES ASSUME NEW i \in 1 .. k - 1 PROVE f[i] = g[i]
    OBVIOUS
  <2>1. i \in 1 .. k
    BY <1>2
  <2>2. f[i] = IF i = 1 THEN s[i] ELSE g[i - 1] \o s[i]
    BY <2>1
  <2>3. g[i] = IF i = 1 THEN s[i] ELSE g[i - 1] \o s[i]
    BY <1>6, Zenon
  <2> QED
    BY <2>2, <2>3
<1>8. f = [i \in 1 .. k |-> IF i = 1 THEN s[i] ELSE f[i - 1] \o s[i]]
  <2>1. \A i \in 1 .. k : i # 1 => f[i - 1] = g[i - 1]
    <3> HIDE DEF f
    <3>1. \A i \in 1 .. k : i # 1 => i - 1 \in 1 .. k - 1
      BY <1>2
    <3> QED
      BY <1>7, <3>1
  <2> QED
    BY <2>1
<1>9. Flattens(f, s, k)
  BY <1>8 DEF Flattens
<1> QED
  BY <1>2, <1>9

LEMMA FlattensIs ==
  ASSUME NEW f, NEW s, NEW n, Flattens(f, s, n), NEW i, i \in 1 .. n
  PROVE  f[i] = IF i = 1 THEN s[i] ELSE f[i - 1] \o s[i]
<1>1. f = [j \in 1 .. n |-> IF j = 1 THEN s[j] ELSE f[j - 1] \o s[j]]
  BY DEF Flattens
<1> QED
  BY <1>1, Zenon

\* What is flattened are sequences again, and the flattened sequence is the last of them.
LEMMA FlattensType ==
  ASSUME NEW S, NEW s \in Seq(Seq(S)), NEW n, n \in Nat, n <= Len(s), NEW f, Flattens(f, s, n)
  PROVE  \A i \in 1 .. n : f[i] \in Seq(S)
<1> DEFINE Bad == {i \in 1 .. n : f[i] \notin Seq(S)}
           k == Min(Bad)
<1> SUFFICES ASSUME Bad # {}
             PROVE  FALSE
  OBVIOUS
<1>1. k \in Bad /\ \A j \in Bad : k <= j
  <2> HIDE DEF Bad
  <2>1. Bad \subseteq Nat
    BY DEF Bad
  <2> QED
    BY <2>1, LeastNumber
<1> HIDE DEF k
<1>2. k \in 1 .. n /\ f[k] \notin Seq(S)
  BY <1>1
<1>3. s[k] \in Seq(S)
  <2>1. k \in 1 .. Len(s)
    BY <1>2, LenProperties
  <2> QED
    BY ONLY <2>1, s \in Seq(Seq(S)), ElementOfSeq
<1>4. f[k] = IF k = 1 THEN s[k] ELSE f[k - 1] \o s[k]
  BY ONLY <1>2, Flattens(f, s, n), FlattensIs
<1>5. k # 1
  BY <1>2, <1>3, <1>4
<1>6. k - 1 \in 1 .. n /\ ~(k <= k - 1)
  BY <1>2, <1>5
<1>7. f[k - 1] \in Seq(S)
  BY <1>1, <1>6
<1>8. f[k - 1] \o s[k] \in Seq(S)
  BY <1>3, <1>7, ConcatProperties
<1> QED
  BY <1>2, <1>4, <1>5, <1>8

LEMMA FlattenIs ==
  ASSUME NEW S, NEW s \in Seq(Seq(S))
  PROVE  \/ s = <<>> /\ FlattenSeq(s) = <<>>
         \/ \E f : Flattens(f, s, Len(s)) /\ FlattenSeq(s) = f[Len(s)] /\ Len(s) > 0
<1>0. Len(s) \in Nat
  BY LenProperties
<1>1. CASE Len(s) = 0
  BY <1>1, EmptySeq DEF FlattenSeq
<1>2. CASE Len(s) # 0
  <2> DEFINE g == CHOOSE f : f = [i \in 1 .. Len(s) |-> IF i = 1 THEN s[i] ELSE f[i - 1] \o s[i]]
  <2>1. FlattenSeq(s) = g[Len(s)]
    BY <1>2 DEF FlattenSeq
  <2>2. \E f : f = [i \in 1 .. Len(s) |-> IF i = 1 THEN s[i] ELSE f[i - 1] \o s[i]]
    BY <1>0, FlattensExists DEF Flattens
  <2>3. g = [i \in 1 .. Len(s) |-> IF i = 1 THEN s[i] ELSE g[i - 1] \o s[i]]
    BY <2>2, Zenon
  <2> HIDE DEF g
  <2>4. Flattens(g, s, Len(s))
    BY <2>3 DEF Flattens
  <2> QED
    BY <1>0, <1>2, <2>1, <2>4
<1> QED
  BY <1>1, <1>2

LEMMA FlattenType ==
  ASSUME NEW S, NEW s \in Seq(Seq(S))
  PROVE  FlattenSeq(s) \in Seq(S)
<1>0. Len(s) \in Nat
  BY LenProperties
<1>1. CASE s = <<>> /\ FlattenSeq(s) = <<>>
  BY <1>1, EmptySeq
<1>2. CASE \E f : Flattens(f, s, Len(s)) /\ FlattenSeq(s) = f[Len(s)] /\ Len(s) > 0
  <2>1. PICK f : Flattens(f, s, Len(s)) /\ FlattenSeq(s) = f[Len(s)] /\ Len(s) > 0
    BY <1>2
  <2>2. \A i \in 1 .. Len(s) : f[i] \in Seq(S)
    <3>1. Len(s) <= Len(s)
      BY <1>0
    <3> QED
      BY <1>0, <2>1, <3>1, FlattensType
  <2> QED
    BY <1>0, <2>1, <2>2
<1> QED
  BY <1>1, <1>2, FlattenIs

\* Sequences that agree flatten alike.
Agree(s, t, m) == \A i \in 1 .. m : s[i] = t[i]

LEMMA FlattensAgree ==
  ASSUME NEW s, NEW t, NEW m \in Nat, NEW n \in Nat, NEW f, NEW g, m <= n,
         Agree(s, t, m), Flattens(f, s, m), Flattens(g, t, n)
  PROVE  Agree(f, g, m)
<1> DEFINE Bad == {i \in 1 .. m : f[i] # g[i]}
           k == Min(Bad)
<1> SUFFICES ASSUME Bad # {}
             PROVE  FALSE
  BY DEF Agree
<1>1. k \in Bad /\ \A j \in Bad : k <= j
  <2> HIDE DEF Bad
  <2>1. Bad \subseteq Nat
    BY DEF Bad
  <2> QED
    BY <2>1, LeastNumber
<1> HIDE DEF k
<1>2. k \in 1 .. m /\ k \in 1 .. n /\ f[k] # g[k]
  BY <1>1
<1>3. f[k] = IF k = 1 THEN s[k] ELSE f[k - 1] \o s[k]
  BY <1>2, FlattensIs
<1>4. g[k] = IF k = 1 THEN t[k] ELSE g[k - 1] \o t[k]
  BY <1>2, FlattensIs
<1>5. s[k] = t[k]
  BY <1>2 DEF Agree
<1>6. k # 1
  BY <1>2, <1>3, <1>4, <1>5
<1>7. k - 1 \in 1 .. m /\ ~(k <= k - 1)
  BY <1>2, <1>6
<1>8. f[k - 1] = g[k - 1]
  BY <1>1, <1>7
<1> QED
  BY <1>2, <1>3, <1>4, <1>5, <1>6, <1>8

\* One more sequence at the end.
LEMMA FlattenAppend ==
  ASSUME NEW S, NEW s \in Seq(Seq(S)), NEW e \in Seq(S)
  PROVE  FlattenSeq(Append(s, e)) = FlattenSeq(s) \o e
<1> DEFINE t == Append(s, e)
           n == Len(s)
           l == Len(t)
<1>1. /\ t \in Seq(Seq(S)) /\ l = n + 1 /\ t # <<>>
      /\ \A i \in 1 .. n : s[i] = t[i]
      /\ t[n + 1] = e
  BY AppendProperties
<1>2. n \in Nat /\ l \in Nat /\ n <= l
  BY <1>1, LenProperties
<1>4. l \in 1 .. l /\ l - 1 = n /\ t[l] = e /\ l = Len(t)
  BY <1>1, <1>2
<1> HIDE DEF t, n, l
<1>3. PICK g : Flattens(g, t, l) /\ FlattenSeq(t) = g[l]
  BY <1>1, <1>4, FlattenIs
<1>5. g[l] = IF l = 1 THEN e ELSE g[n] \o e
  <2>1. g[l] = IF l = 1 THEN t[l] ELSE g[l - 1] \o t[l]
    BY ONLY <1>3, <1>4, FlattensIs
  <2> QED
    BY ONLY <1>4, <2>1
<1>6. CASE s = <<>>
  <2>1. n = 0 /\ l = 1 /\ FlattenSeq(s) = <<>>
    BY <1>1, <1>6, EmptySeq DEF FlattenSeq, n
  <2>2. <<>> \o e = e
    BY ConcatEmptySeq
  <2>3. FlattenSeq(t) = e
    BY <1>3, <1>5, <2>1
  <2> QED
    BY <2>1, <2>2, <2>3 DEF t
<1>7. CASE s # <<>>
  <2>1. PICK f : Flattens(f, s, n) /\ FlattenSeq(s) = f[n] /\ n > 0
    BY <1>7, FlattenIs DEF n
  <2>2. Agree(f, g, n)
    <3>1. Agree(s, t, n)
      BY <1>1 DEF Agree
    <3>2. Flattens(f, s, n)
      BY <2>1
    <3>3. Flattens(g, t, l)
      BY <1>3
    <3> QED
      BY ONLY <1>2, <3>1, <3>2, <3>3, FlattensAgree
  <2>3. f[n] = g[n] /\ l # 1
    BY <1>1, <1>2, <2>1, <2>2 DEF Agree
  <2>4. FlattenSeq(t) = f[n] \o e
    BY ONLY <1>3, <1>5, <2>3
  <2> QED
    BY <2>1, <2>4 DEF t
<1> QED
  BY <1>6, <1>7

\* The first sequence is what the flattened one begins with.
LEMMA FlattenTail ==
  ASSUME NEW S, NEW s \in Seq(Seq(S)), s # <<>>
  PROVE  FlattenSeq(s) = Head(s) \o FlattenSeq(Tail(s))
<1> DEFINE t == Tail(s)
           h == Head(s)
           n == Len(t)
           l == Len(s)
<1>1. /\ t \in Seq(Seq(S)) /\ h \in Seq(S) /\ l = n + 1 /\ h = s[1]
      /\ \A i \in 1 .. n : t[i] = s[i + 1]
  BY HeadTailProperties, LenProperties, EmptySeq
<1>2. n \in Nat /\ l \in Nat
  <2> HIDE DEF t
  <2> QED
    BY <1>1, LenProperties
<1>a. n = Len(t) /\ l = Len(s)
  OBVIOUS
<1> HIDE DEF t, h, l, n
<1>3. PICK f : Flattens(f, s, l) /\ FlattenSeq(s) = f[l]
  BY <1>a, FlattenIs
<1>b. \A i \in 1 .. l : f[i] = IF i = 1 THEN s[i] ELSE f[i - 1] \o s[i]
  <2>1. Flattens(f, s, l)
    BY <1>3
  <2> QED
    BY ONLY <2>1, FlattensIs
<1>4. f[1] = h
  <2>1. 1 \in 1 .. l
    BY <1>1, <1>2
  <2> QED
    BY ONLY <1>1, <1>3, <2>1, FlattensIs
<1>5. CASE t = <<>>
  <2>1. n = 0 /\ FlattenSeq(t) = <<>>
    BY <1>a, <1>5, EmptySeq DEF FlattenSeq
  <2>2. h \o <<>> = h
    BY <1>1, ConcatEmptySeq
  <2>3. FlattenSeq(s) = h
    BY <1>1, <1>3, <1>4, <2>1
  <2> QED
    BY <2>1, <2>2, <2>3 DEF t, h
<1>6. CASE t # <<>>
  <2>1. PICK g : Flattens(g, t, n) /\ FlattenSeq(t) = g[n] /\ n > 0
    BY <1>1, <1>a, <1>6, FlattenIs
  <2>2. \A i \in 1 .. n : g[i] \in Seq(S)
    <3>1. n <= Len(t)
      BY <1>a, <1>2
    <3> QED
      BY ONLY <1>1, <1>2, <2>1, <3>1, FlattensType
  <2> DEFINE Bad == {i \in 1 .. n : f[i + 1] # h \o g[i]}
             k == Min(Bad)
  <2>3. Bad = {}
    <3> SUFFICES ASSUME Bad # {}
                 PROVE  FALSE
      OBVIOUS
    <3>1. k \in Bad /\ \A j \in Bad : k <= j
      <4> HIDE DEF Bad
      <4>1. Bad \subseteq Nat
        BY DEF Bad
      <4> QED
        BY <4>1, LeastNumber
    <3> HIDE DEF k
    <3> DEFINE j == k + 1
               x == g[k - 1]
               y == t[k]
    <3>0. k \in 1 .. n /\ f[j] # h \o g[k]
      BY <3>1
    <3>2. k \in 1 .. n /\ j \in 1 .. l /\ j - 1 = k /\ j # 1
      BY <1>1, <1>2, <3>0
    <3>5. y = s[j] /\ y \in Seq(S)
      BY <1>1, <3>2, <1>a, LenProperties
    <3>a. \A i \in 1 .. n : i < k => f[i + 1] = h \o g[i]
      <4> SUFFICES ASSUME NEW i \in 1 .. n, i < k
                   PROVE  f[i + 1] = h \o g[i]
        OBVIOUS
      <4>1. ~(k <= i)
        BY <1>2, <3>2
      <4>2. i \notin Bad
        BY ONLY <3>1, <4>1
      <4> QED
        BY <4>2
    <3> HIDE DEF j, y
    <3>3. f[j] = f[k] \o y
      <4>1. f[j] = IF j = 1 THEN s[j] ELSE f[j - 1] \o s[j]
        BY ONLY <3>2, <1>b
      <4> QED
        BY ONLY <3>2, <3>5, <4>1
    <3>4. g[k] = IF k = 1 THEN y ELSE x \o y
      <4>1. g[k] = IF k = 1 THEN t[k] ELSE g[k - 1] \o t[k]
        BY ONLY <2>1, <3>2, FlattensIs
      <4> QED
        BY ONLY <4>1 DEF y
    <3>6. CASE k = 1
      BY <1>4, <3>0, <3>3, <3>4, <3>6
    <3>7. CASE k # 1
      <4>1. k - 1 \in 1 .. n /\ k - 1 < k /\ (k - 1) + 1 = k
        BY <1>2, <3>2, <3>7
      <4>2. f[k] = h \o x
        BY <3>a, <4>1
      <4>3. x \in Seq(S)
        BY <2>2, <4>1
      <4> HIDE DEF x
      <4>4. (h \o x) \o y = h \o (x \o y)
        <5>1. h \in Seq(S) /\ x \in Seq(S) /\ y \in Seq(S)
          BY <1>1, <3>5, <4>3
        <5> QED
          BY ONLY <5>1, Concat3
      <4> QED
        BY ONLY <3>0, <3>3, <3>4, <3>7, <4>2, <4>4
    <3> QED
      BY <3>6, <3>7
  <2>4. n \in 1 .. n
    BY <1>2, <2>1
  <2>5. f[n + 1] = h \o g[n]
    BY <2>3, <2>4
  <2>6. FlattenSeq(s) = h \o FlattenSeq(t)
    BY <1>1, <1>3, <2>1, <2>5
  <2> QED
    BY <2>6 DEF t, h
<1> QED
  BY <1>5, <1>6

-----------------------------------------------------------------------------
(***************************************************************************)
(* Files.                                                                  *)
(***************************************************************************)
File   == [kind : {"none", "file", "dir"}, data : Seq(Int)]
Handle == [fd : Nat, name : FsNames, mode : FsModes, pos : Nat, rpos : Nat, start : Nat,
           got : Seq(Int), steady : BOOLEAN]

FsType ==
  /\ disk \in [FsNames -> File] /\ opened \in Seq(Handle)
  /\ fdUsed \subseteq 0 .. FsFds - 1 /\ fsLeft \in Int
  /\ appended \in [FsNames -> Seq(Int)]

\* What an a+ file brought begins where it was told to and ends at its read position; and
\* while the file is only appended to, it is what the file has there.
Brought(o, data) ==
  o.mode = "a+" =>
    /\ o.rpos = o.start + Len(o.got)
    /\ o.steady /\ o.got # <<>> => o.rpos <= Len(data) /\ o.got = SubSeq(data, o.start + 1, o.rpos)

ReadsKept == \A h \in DOMAIN opened : Brought(opened[h], Data(h))

\* The inductive invariant of files.
FsInv == FsType /\ FdNamesOneFile /\ AppendsAreKept /\ ReadsKept

USE FsAssumption

\* Which handles there are and their descriptors stay.
SameHandles ==
  /\ opened' \in Seq(Handle) /\ DOMAIN opened' = DOMAIN opened
  /\ \A h \in DOMAIN opened : opened'[h].fd = opened[h].fd
  /\ UNCHANGED <<fdUsed, lostFds>>

LEMMA SameFds ==
  ASSUME FsInv, SameHandles
  PROVE  FdNamesOneFile'
  BY DEF FsInv, FdNamesOneFile, FdsOpen, SameHandles

\* A new descriptor is one that nothing has.
LEMMA FreeFdIsFree ==
  ASSUME FsInv
  PROVE  FreeFd \in 0 .. FsFds /\ FreeFd \notin fdUsed
<1> DEFINE T == (0 .. FsFds) \ fdUsed
<1>1. T \subseteq Nat /\ FsFds \in T
  BY DEF FsInv, FsType
<1> HIDE DEF T
<1>2. Min(T) \in T
  BY <1>1, LeastNumber
<1> QED
  BY <1>2 DEF FreeFd, T

\* What Disturbed does: the handles of a file are no longer steady.
LEMMA DisturbedHandles ==
  ASSUME FsType, NEW name
  PROVE  /\ Disturbed(name) \in Seq(Handle) /\ DOMAIN Disturbed(name) = DOMAIN opened
         /\ Len(Disturbed(name)) = Len(opened)
         /\ \A h \in DOMAIN opened :
              /\ Disturbed(name)[h] = IF opened[h].name = name THEN [opened[h] EXCEPT !.steady = FALSE]
                                      ELSE opened[h]
              /\ Disturbed(name)[h].fd = opened[h].fd
<1>1. Len(opened) \in Nat /\ DOMAIN opened = 1 .. Len(opened) /\ \A h \in DOMAIN opened : opened[h] \in Handle
  BY LenProperties DEF FsType
<1>2. \A h \in DOMAIN opened : /\ Disturbed(name)[h] \in Handle
                               /\ Disturbed(name)[h].fd = opened[h].fd
  BY <1>1 DEF Disturbed, Handle
<1>3. Disturbed(name) \in [1 .. Len(opened) -> Handle]
  BY <1>1, <1>2 DEF Disturbed
<1>4. Disturbed(name) \in Seq(Handle)
  BY <1>1, <1>3, SeqDef
<1> QED
  BY <1>1, <1>2, <1>3, <1>4, LenProperties DEF Disturbed
\* One handle changes, its descriptor and its file do not.
LEMMA OneHandle ==
  ASSUME FsInv, NEW h \in DOMAIN opened, NEW new \in Handle, new.fd = opened[h].fd,
         opened' = [opened EXCEPT ![h] = new], UNCHANGED <<fdUsed, lostFds>>
  PROVE  SameHandles
<1>1. h \in 1 .. Len(opened) /\ DOMAIN opened = 1 .. Len(opened)
  BY LenProperties DEF FsInv, FsType
<1>2. opened' \in Seq(Handle)
  BY <1>1, ExceptSeq DEF FsInv, FsType
<1> QED
  BY <1>2 DEF SameHandles

\* What is at the end of a part of a file goes on with the next part.
LEMMA PartGoesOn ==
  ASSUME NEW data \in Seq(Int), NEW start \in Nat, NEW from \in Nat, NEW stop \in Nat,
         start <= from, from <= stop, stop <= Len(data)
  PROVE  SubSeq(data, start + 1, from) \o SubSeq(data, from + 1, stop) = SubSeq(data, start + 1, stop)
<1> DEFINE first == start + 1
<1>1. data \in Seq(Int)
  OBVIOUS
<1>2. first \in 1 .. Len(data) + 1 /\ from \in first - 1 .. Len(data) /\ stop \in from .. Len(data)
  BY LenProperties
<1> HIDE DEF first
<1>3. SubSeq(data, first, from) \o SubSeq(data, from + 1, stop) = SubSeq(data, first, stop)
  BY ONLY <1>1, <1>2, ConcatAdjacentSubSeq
<1> QED
  BY <1>3 DEF first

LEMMA PartOf ==
  ASSUME NEW data \in Seq(Int), NEW from \in Nat, NEW stop \in Nat, from <= stop, stop <= Len(data)
  PROVE  SubSeq(data, from + 1, stop) \in Seq(Int) /\ Len(SubSeq(data, from + 1, stop)) = stop - from
<1>1. \A i \in from + 1 .. stop : data[i] \in Int
  BY LenProperties
<1>2. /\ SubSeq(data, from + 1, stop) \in Seq(Int)
      /\ Len(SubSeq(data, from + 1, stop)) = IF from + 1 <= stop THEN stop - (from + 1) + 1 ELSE 0
  BY <1>1, SubSeqProperties
<1> QED
  BY <1>2

\* A part of a file stays what it is when the file grows.
LEMMA PartStays ==
  ASSUME NEW data \in Seq(Int), NEW more \in Seq(Int), NEW start \in Nat, NEW stop \in Nat,
         stop <= Len(data)
  PROVE  /\ stop <= Len(data \o more)
         /\ SubSeq(data \o more, start + 1, stop) = SubSeq(data, start + 1, stop)
<1> DEFINE all == data \o more
<1>1. Len(data) \in Nat /\ Len(more) \in Nat
  BY LenProperties
<1>2. /\ all \in Seq(Int) /\ Len(all) = Len(data) + Len(more)
      /\ \A i \in 1 .. Len(data) : all[i] = data[i]
  BY <1>1, ConcatProperties
<1> HIDE DEF all
<1>3. \A i \in start + 1 .. stop : data[i] \in Int /\ all[i] \in Int
  BY <1>1, <1>2, LenProperties
<1>4. /\ SubSeq(data, start + 1, stop) \in Seq(Int)
      /\ Len(SubSeq(data, start + 1, stop)) = IF start + 1 <= stop THEN stop - (start + 1) + 1 ELSE 0
      /\ \A i \in 1 .. stop - (start + 1) + 1 : SubSeq(data, start + 1, stop)[i] = data[start + 1 + i - 1]
  BY <1>3, SubSeqProperties
<1>5. /\ SubSeq(all, start + 1, stop) \in Seq(Int)
      /\ Len(SubSeq(all, start + 1, stop)) = IF start + 1 <= stop THEN stop - (start + 1) + 1 ELSE 0
      /\ \A i \in 1 .. stop - (start + 1) + 1 : SubSeq(all, start + 1, stop)[i] = all[start + 1 + i - 1]
  BY <1>3, SubSeqProperties
<1>6. \A i \in 1 .. Len(SubSeq(all, start + 1, stop)) :
        SubSeq(all, start + 1, stop)[i] = SubSeq(data, start + 1, stop)[i]
  <2> SUFFICES ASSUME NEW i \in 1 .. Len(SubSeq(all, start + 1, stop))
               PROVE  SubSeq(all, start + 1, stop)[i] = SubSeq(data, start + 1, stop)[i]
    OBVIOUS
  <2> DEFINE k == start + 1 + i - 1
  <2>1. i \in 1 .. stop - (start + 1) + 1 /\ k \in 1 .. Len(data)
    BY <1>1, <1>5
  <2>2. SubSeq(all, start + 1, stop)[i] = all[k] /\ SubSeq(data, start + 1, stop)[i] = data[k]
    BY <1>4, <1>5, <2>1
  <2> HIDE DEF k
  <2> QED
    BY <1>2, <2>1, <2>2
<1>7. SubSeq(all, start + 1, stop) = SubSeq(data, start + 1, stop)
  BY <1>4, <1>5, <1>6, SeqEqual
<1> QED
  BY <1>1, <1>2, <1>7 DEF all

\* Bytes put at the end of a file are appended; put anywhere, they make a sequence.
LEMMA PutFacts ==
  ASSUME NEW data \in Seq(Int), NEW bytes \in Seq(Int), NEW at \in Nat, at <= Len(data)
  PROVE  /\ Put(data, at, bytes) \in Seq(Int)
         /\ at = Len(data) => Put(data, at, bytes) = data \o bytes
<1> DEFINE size == Max({at + Len(bytes), Len(data)})
<1>1. /\ Len(data) \in Nat /\ Len(bytes) \in Nat
      /\ \A i \in 1 .. Len(data) : data[i] \in Int
      /\ \A i \in 1 .. Len(bytes) : bytes[i] \in Int
  BY LenProperties
<1>2. size \in Nat /\ size = IF at + Len(bytes) >= Len(data) THEN at + Len(bytes) ELSE Len(data)
  <2>1. at + Len(bytes) \in Int /\ Len(data) \in Int
    BY <1>1
  <2>2. size = IF at + Len(bytes) >= Len(data) THEN at + Len(bytes) ELSE Len(data)
    <3> DEFINE x == at + Len(bytes)
               y == Len(data)
    <3>1. x \in Int /\ y \in Int
      BY <2>1
    <3> HIDE DEF x, y
    <3>2. Max({x, y}) = IF x >= y THEN x ELSE y
      BY ONLY <3>1, OfTwo
    <3> QED
      BY <3>2 DEF x, y
  <2> HIDE DEF size
  <2> QED
    BY <1>1, <2>2
<1> HIDE DEF size
<1>3. Put(data, at, bytes) = [i \in 1 .. size |->
         IF i \in (at + 1) .. (at + Len(bytes)) THEN bytes[i - at] ELSE data[i]]
  BY DEF Put, size
<1>4. \A i \in 1 .. size : Put(data, at, bytes)[i] \in Int
  BY <1>1, <1>2, <1>3
<1>5. Put(data, at, bytes) \in [1 .. size -> Int]
  BY <1>3, <1>4
<1>6. Put(data, at, bytes) \in Seq(Int) /\ Len(Put(data, at, bytes)) = size
  BY <1>2, <1>5, ConstantSeq
<1>7. ASSUME at = Len(data)
      PROVE  Put(data, at, bytes) = data \o bytes
  <2>1. /\ data \o bytes \in Seq(Int) /\ Len(data \o bytes) = Len(data) + Len(bytes)
        /\ \A i \in 1 .. Len(data) + Len(bytes) :
             (data \o bytes)[i] = IF i <= Len(data) THEN data[i] ELSE bytes[i - Len(data)]
    BY ConcatProperties
  <2>2. size = Len(data) + Len(bytes)
    BY <1>1, <1>2, <1>7
  <2>3. \A i \in 1 .. size : Put(data, at, bytes)[i] = (data \o bytes)[i]
    BY <1>1, <1>3, <1>7, <2>1, <2>2
  <2> QED
    BY <1>6, <2>1, <2>2, <2>3, SeqEqual
<1> QED
  BY <1>6, <1>7

LEMMA FileFacts ==
  /\ <<>> \in Seq(Int) /\ <<>> \in Seq(Handle)
  /\ Absent \in File /\ Absent.data = <<>>
  /\ \A data \in Seq(Int) : [kind |-> "file", data |-> data] \in File
<1>1. <<>> \in Seq(Int) /\ <<>> \in Seq(Handle)
  BY EmptySeq
<1> QED
  BY <1>1 DEF Absent, File

LEMMA HandleFacts ==
  ASSUME FsType, NEW h \in DOMAIN opened
  PROVE  opened[h] \in Handle /\ opened[h].name \in FsNames /\ Data(h) \in Seq(Int) /\ Len(Data(h)) \in Nat
<1>1. opened[h] \in Handle
  BY LenProperties DEF FsType
<1>2. opened[h].name \in FsNames
  BY <1>1 DEF Handle
<1>3. Data(h) \in Seq(Int)
  BY <1>2 DEF FsType, File, Data
<1> QED
  BY <1>1, <1>2, <1>3, LenProperties

LEMMA ReadPart ==
  ASSUME NEW data \in Seq(Int), NEW from \in Nat, NEW stop \in Nat, stop <= Len(data)
  PROVE  /\ SubSeq(data, from + 1, stop) \in Seq(Int)
         /\ Len(SubSeq(data, from + 1, stop)) \in Nat
<1>1. Len(data) \in Nat /\ \A i \in 1 .. Len(data) : data[i] \in Int
  BY LenProperties
<1>2. from + 1 \in Int /\ stop \in Int /\ \A i \in from + 1 .. stop : data[i] \in Int
  <2>1. \A i \in from + 1 .. stop : i \in 1 .. Len(data)
    BY <1>1
  <2> QED
    BY <1>1, <2>1
<1>3. SubSeq(data, from + 1, stop) \in Seq(Int)
  BY <1>2, SubSeqProperties
<1> QED
  BY <1>3, LenProperties

\* A read changes one handle.
LEMMA OneHandleReads ==
  ASSUME FsInv, NEW h \in DOMAIN opened, NEW new \in Handle,
         new.fd = opened[h].fd, new.name = opened[h].name, Brought(new, Data(h)),
         opened' = [opened EXCEPT ![h] = new], FsCall,
         UNCHANGED <<disk, fdUsed, lostFds, appended, rewritten>>
  PROVE  FsInv'
<1>1. SameHandles
  BY OneHandle
<1>2. FsType'
  BY <1>1 DEF FsInv, FsType, SameHandles, FsCall
<1>3. FdNamesOneFile' /\ AppendsAreKept'
  BY <1>1, SameFds DEF FsInv, AppendsAreKept
<1>4. ReadsKept'
  BY <1>1 DEF FsInv, ReadsKept, SameHandles, Data, Brought
<1> QED
  BY <1>2, <1>3, <1>4 DEF FsInv

LEMMA FsReadKeeps ==
  ASSUME FsInv, NEW h \in DOMAIN opened, NEW length \in Nat, NEW position \in Nat \cup {Null},
         FsRead(h, length, position)
  PROVE  FsInv'
<1> DEFINE o    == opened[h]
           d    == Data(h)
           from == ReadFrom(h, position)
           stop  == Min({from + length, Len(d)})
           data == SubSeq(d, from + 1, stop)
           base == IF position # Null THEN position ELSE o.rpos
           new  == [o EXCEPT !.pos = from + Len(data), !.rpos = base + Len(data),
                             !.start = IF position # Null THEN position ELSE @,
                             !.got = (IF position # Null THEN <<>> ELSE @) \o data]
<1>1. o \in Handle /\ d \in Seq(Int) /\ Len(d) \in Nat
  BY HandleFacts DEF FsInv
<1>2. opened' = [opened EXCEPT ![h] = new]
  BY DEF FsRead
<1>3. /\ FsCall /\ UNCHANGED <<disk, fdUsed, lostFds, appended, rewritten>>
      /\ position <= Len(d) /\ (o.mode = "a+" => o.rpos <= Len(d))
  BY DEF FsRead
<1>4. from \in Nat /\ base \in Nat /\ (o.mode = "a+" => from = base /\ from <= Len(d))
      /\ (position # Null => position \in Nat /\ from = position)
      /\ (position = Null => base = o.rpos)
  BY <1>1, <1>3 DEF ReadFrom, Handle, Null
<1>5. Brought(o, d)
  BY DEF FsInv, ReadsKept
<1> HIDE DEF d, from, base
<1>6. /\ data \in Seq(Int) /\ Len(data) \in Nat
      /\ from <= Len(d) => stop \in Nat /\ from <= stop /\ stop <= Len(d) /\ Len(data) = stop - from
  <2>1. from + length \in Int /\ Len(d) \in Int
    BY <1>1, <1>4
  <2>2. stop = IF from + length <= Len(d) THEN from + length ELSE Len(d)
    BY <2>1, OfTwo
  <2> HIDE DEF stop
  <2>3. stop \in Nat /\ stop <= Len(d) /\ (from <= Len(d) => from <= stop)
    BY <1>1, <1>4, <2>2
  <2>4. data \in Seq(Int) /\ Len(data) \in Nat
    BY <1>1, <1>4, <2>3, ReadPart DEF data
  <2>5. from <= stop => Len(data) = stop - from
    BY <1>1, <1>4, <2>3, PartOf DEF data
  <2> QED
    BY <2>3, <2>4, <2>5
<1> HIDE DEF data, stop
<1> DEFINE old == IF position # Null THEN <<>> ELSE o.got
<1>7. old \in Seq(Int) /\ Len(old) \in Nat /\ old \o data \in Seq(Int) /\ Len(old \o data) = Len(old) + Len(data)
  <2>1. old \in Seq(Int)
    BY <1>1, EmptySeq DEF Handle
  <2> QED
    BY <1>6, <2>1, LenProperties, ConcatProperties
<1>8. /\ new \in Handle /\ new.fd = o.fd /\ new.name = o.name /\ new.mode = o.mode /\ new.steady = o.steady
      /\ new.got = old \o data /\ new.rpos = base + Len(data)
      /\ new.start = IF position # Null THEN position ELSE o.start
  <2>1. from + Len(data) \in Nat /\ base + Len(data) \in Nat
    BY <1>4, <1>6
  <2>2. (IF position # Null THEN position ELSE o.start) \in Nat
    BY <1>1, <1>4 DEF Handle
  <2> QED
    BY <1>1, <1>7, <2>1, <2>2 DEF Handle
<1> HIDE DEF new
<1>9. ASSUME o.mode = "a+"
      PROVE  /\ new.rpos = new.start + Len(new.got)
             /\ new.steady /\ new.got # <<>> =>
                  new.rpos <= Len(d) /\ new.got = SubSeq(d, new.start + 1, new.rpos)
  <2>1. stop \in Nat /\ from <= stop /\ stop <= Len(d) /\ Len(data) = stop - from /\ from = base
    BY <1>4, <1>6, <1>9
  <2>2. new.rpos = stop
    BY <1>4, <1>6, <1>8, <2>1
  <2>3. data = SubSeq(d, from + 1, stop)
    BY DEF data
  <2>4. CASE position # Null
    <3>1. old = <<>> /\ new.start = from /\ new.got = data
      BY <1>4, <1>6, <1>7, <1>8, <2>4, ConcatEmptySeq
    <3> QED
      BY <1>4, <1>6, <2>1, <2>2, <2>3, <3>1
  <2>5. CASE position = Null
    <3>1. /\ old = o.got /\ new.start = o.start /\ o.start \in Nat /\ o.rpos = from
          /\ from = o.start + Len(old)
      BY <1>1, <1>4, <1>5, <1>8, <1>9, <2>1, <2>5 DEF Brought, Handle
    <3>2. new.rpos = new.start + Len(new.got)
      BY <1>4, <1>7, <1>8, <2>1, <2>2, <3>1
    <3>3. ASSUME new.steady
          PROVE  new.got = SubSeq(d, new.start + 1, stop)
      <4>1. CASE old = <<>>
        <5>1. Len(old) = 0 /\ new.got = data /\ o.start = from
          <6>1. Len(old) = 0
            BY <4>1, EmptySeq
          <6>2. old \o data = data
            BY <1>6, <4>1, ConcatEmptySeq
          <6> QED
            BY <1>8, <3>1, <6>1, <6>2
        <5> QED
          BY <2>3, <3>1, <5>1
      <4>2. CASE old # <<>>
        <5>1. old = SubSeq(d, o.start + 1, from) /\ o.start <= from
          BY <1>5, <1>7, <1>8, <1>9, <3>1, <3>3, <4>2 DEF Brought
        <5>2. SubSeq(d, o.start + 1, from) \o SubSeq(d, from + 1, stop) = SubSeq(d, o.start + 1, stop)
          <6>1. /\ d \in Seq(Int) /\ from \in Nat /\ stop \in Nat /\ o.start \in Nat
                /\ o.start <= from /\ from <= stop /\ stop <= Len(d)
            BY <1>1, <1>4, <2>1, <3>1, <5>1
          <6> QED
            BY ONLY <6>1, PartGoesOn, Zenon
        <5> QED
          BY <1>8, <2>3, <3>1, <5>1, <5>2
      <4> QED
        BY <4>1, <4>2
    <3> QED
      BY <2>1, <2>2, <3>2, <3>3
  <2> QED
    BY <2>4, <2>5
<1>10. Brought(new, d)
  BY <1>8, <1>9 DEF Brought
<1>11. Brought(new, Data(h))
  BY <1>10 DEF d
<1> QED
  BY <1>2, <1>3, <1>8, <1>11, OneHandleReads

LEMMA FsReadSeekFailsKeeps ==
  ASSUME FsInv, NEW h \in DOMAIN opened, NEW position \in Nat, FsReadSeekFails(h, position)
  PROVE  FsInv'
<1> DEFINE o   == opened[h]
           new == [o EXCEPT !.rpos = position, !.start = position, !.got = <<>>,
                            !.pos = IF o.mode = "a+" THEN o.rpos ELSE @]
<1>1. o \in Handle /\ <<>> \in Seq(Int) /\ Len(<<>>) = 0
  BY HandleFacts, EmptySeq DEF FsInv
<1>2. opened' = [opened EXCEPT ![h] = new] /\ FsCall
      /\ UNCHANGED <<disk, fdUsed, lostFds, appended, rewritten>>
  BY DEF FsReadSeekFails
<1>3. new \in Handle /\ new.fd = o.fd /\ new.name = o.name /\ Brought(new, Data(h))
  <2>1. new \in Handle /\ new.fd = o.fd /\ new.name = o.name
    BY <1>1 DEF Handle
  <2>2. new.rpos = position /\ new.start = position /\ new.got = <<>>
    BY <1>1 DEF Handle
  <2> HIDE DEF new
  <2> QED
    BY <1>1, <2>1, <2>2 DEF Brought
<1> QED
  BY <1>2, <1>3, OneHandleReads

\* The handles of a file that was changed, and those of the others.
LEMMA DisturbedBrought ==
  ASSUME FsInv, NEW name, NEW h \in DOMAIN opened, NEW data, opened[h].name # name => data = Data(h)
  PROVE  Brought(Disturbed(name)[h], data) /\ Disturbed(name)[h].name = opened[h].name
<1>1. opened[h] \in Handle /\ Brought(opened[h], Data(h))
  BY HandleFacts DEF FsInv, ReadsKept
<1>2. Disturbed(name)[h] = IF opened[h].name = name THEN [opened[h] EXCEPT !.steady = FALSE] ELSE opened[h]
  BY DisturbedHandles DEF FsInv
<1>3. CASE opened[h].name = name
  BY <1>1, <1>2, <1>3 DEF Brought, Handle
<1>4. CASE opened[h].name # name
  BY <1>1, <1>2, <1>4
<1> QED
  BY <1>3, <1>4

\* Files whose bytes stay, under handles that stay.
LEMMA SameBytes ==
  ASSUME FsInv, disk' \in [FsNames -> File], \A n \in FsNames : disk'[n].data = disk[n].data,
         fsLeft' \in Int, UNCHANGED <<opened, fdUsed, lostFds, appended, rewritten>>
  PROVE  FsInv'
<1>1. FsType' /\ FdNamesOneFile'
  BY DEF FsInv, FsType, FdNamesOneFile, FdsOpen
<1>2. AppendsAreKept'
  BY DEF FsInv, AppendsAreKept
<1>3. ASSUME NEW h \in DOMAIN opened
      PROVE  Data(h)' = Data(h)
  BY HandleFacts DEF FsInv, Data
<1>4. ReadsKept'
  BY <1>3 DEF FsInv, ReadsKept
<1> QED
  BY <1>1, <1>2, <1>4 DEF FsInv

\* A file whose bytes change, so that its handles are disturbed.
Disturbing(name, h, pos) ==
  /\ disk' \in [FsNames -> File] /\ \A n \in FsNames \ {name} : disk'[n] = disk[n]
  /\ opened' = [i \in DOMAIN opened |-> IF i = h THEN [Disturbed(name)[i] EXCEPT !.pos = pos]
                                         ELSE Disturbed(name)[i]]
  /\ Rewritten(name) /\ FsCall /\ UNCHANGED <<fdUsed, lostFds>>

LEMMA DisturbingKeeps ==
  ASSUME FsInv, NEW name \in FsNames, NEW h, NEW pos \in Nat, Disturbing(name, h, pos)
  PROVE  FsInv'
<1>0. /\ disk' \in [FsNames -> File] /\ \A n \in FsNames \ {name} : disk'[n] = disk[n]
      /\ opened' = [i \in DOMAIN opened |-> IF i = h THEN [Disturbed(name)[i] EXCEPT !.pos = pos]
                                             ELSE Disturbed(name)[i]]
      /\ Rewritten(name) /\ FsCall /\ UNCHANGED <<fdUsed, lostFds>>
  BY DEF Disturbing
<1>1. /\ Disturbed(name) \in Seq(Handle) /\ DOMAIN Disturbed(name) = DOMAIN opened
      /\ Len(Disturbed(name)) = Len(opened)
      /\ \A i \in DOMAIN opened : Disturbed(name)[i].fd = opened[i].fd
  BY DisturbedHandles DEF FsInv
<1>2. Len(opened) \in Nat /\ DOMAIN opened = 1 .. Len(opened)
      /\ \A i \in DOMAIN opened : Disturbed(name)[i] \in Handle
  BY <1>1, LenProperties DEF FsInv, FsType
<1>3. \A i \in DOMAIN opened : /\ opened'[i] \in Handle /\ opened'[i].fd = opened[i].fd
                               /\ opened'[i].mode = Disturbed(name)[i].mode
                               /\ opened'[i].name = Disturbed(name)[i].name
                               /\ opened'[i].steady = Disturbed(name)[i].steady
                               /\ opened'[i].rpos = Disturbed(name)[i].rpos
                               /\ opened'[i].start = Disturbed(name)[i].start
                               /\ opened'[i].got = Disturbed(name)[i].got
  BY <1>0, <1>1, <1>2 DEF Handle
<1>4. opened' \in Seq(Handle) /\ DOMAIN opened' = DOMAIN opened
  <2>1. opened' \in [1 .. Len(opened) -> Handle]
    BY <1>0, <1>2, <1>3
  <2> QED
    BY <1>2, <2>1, SeqDef
<1>5. SameHandles
  BY <1>0, <1>3, <1>4 DEF SameHandles
<1>6. FsType' /\ FdNamesOneFile'
  BY <1>0, <1>4, <1>5, SameFds, EmptySeq DEF FsInv, FsType, FsCall, Rewritten
<1>7. AppendsAreKept'
  BY <1>0 DEF FsInv, FsType, AppendsAreKept, Rewritten
<1>8. ReadsKept'
  <2> SUFFICES ASSUME NEW i \in DOMAIN opened
               PROVE  Brought(opened'[i], Data(i)')
    BY <1>4 DEF ReadsKept
  <2>1. opened[i].name # name => Data(i)' = Data(i)
    <3>1. opened'[i].name = opened[i].name /\ opened[i].name \in FsNames
      BY <1>3, HandleFacts, DisturbedBrought DEF FsInv
    <3> QED
      BY <1>0, <3>1 DEF Data
  <2>2. Brought(Disturbed(name)[i], Data(i)')
    BY <2>1, DisturbedBrought
  <2> QED
    BY <1>3, <2>2 DEF Brought
<1> QED
  BY <1>6, <1>7, <1>8 DEF FsInv

LEMMA FsWriteKeeps ==
  ASSUME FsInv, NEW h \in DOMAIN opened, NEW length \in Nat, NEW position \in Nat,
         FsWrite(h, length, position)
  PROVE  FsInv'
<1> DEFINE name  == opened[h].name
           bytes == [i \in 1..length |-> FsCalls - fsLeft + 1]
           at    == WriteAt(h, position)
<1>1. opened[h] \in Handle /\ name \in FsNames /\ Data(h) \in Seq(Int) /\ Len(Data(h)) \in Nat
      /\ Data(h) = disk[name].data
  BY HandleFacts DEF FsInv, Data
<1>2. bytes \in Seq(Int)
  <2>1. FsCalls - fsLeft + 1 \in Int
    BY DEF FsInv, FsType
  <2>2. bytes \in [1 .. length -> Int]
    BY <2>1
  <2> QED
    BY <2>2, ConstantSeq
<1>3. at \in Nat /\ at <= Len(Data(h))
  BY <1>1 DEF WriteAt, FsWrite
<1>4. disk' = [disk EXCEPT ![name].data = Put(@, at, bytes)] /\ FsCall /\ UNCHANGED <<fdUsed, lostFds>>
  BY DEF FsWrite
<1> HIDE DEF bytes, at
<1>5. Put(Data(h), at, bytes) \in Seq(Int)
  BY <1>1, <1>2, <1>3, PutFacts
<1>6. /\ disk' \in [FsNames -> File] /\ disk'[name].data = Put(Data(h), at, bytes)
      /\ \A n \in FsNames \ {name} : disk'[n] = disk[n]
  BY <1>1, <1>4, <1>5 DEF FsInv, FsType, File
<1>7. at + length \in Nat
  BY <1>3
<1>8. CASE opened[h].mode \notin Appending
  <2>1. /\ opened' = [Disturbed(name) EXCEPT ![h].pos = at + length]
        /\ Rewritten(name)
    BY <1>8 DEF FsWrite, at
  <2>2. DOMAIN Disturbed(name) = DOMAIN opened
    BY DEF Disturbed
  <2>3. opened' = [i \in DOMAIN opened |-> IF i = h THEN [Disturbed(name)[i] EXCEPT !.pos = at + length]
                                           ELSE Disturbed(name)[i]]
    BY <2>1, <2>2
  <2> HIDE DEF name
  <2>4. Disturbing(name, h, at + length)
    BY <1>4, <1>6, <2>1, <2>3 DEF Disturbing
  <2> QED
    BY <1>1, <1>7, <2>4, DisturbingKeeps
<1>9. CASE opened[h].mode \in Appending
  <2>1. /\ opened' = [opened EXCEPT ![h].pos = at + length]
        /\ appended' = [appended EXCEPT ![name] = IF name \in rewritten THEN @ ELSE @ \o bytes]
        /\ UNCHANGED rewritten
    BY <1>9 DEF FsWrite, at, bytes
  <2>2. at = Len(Data(h))
    BY <1>9 DEF at, WriteAt
  <2>3. disk'[name].data = Data(h) \o bytes
    BY <1>1, <1>2, <1>3, <1>6, <2>2, PutFacts
  <2>4. /\ [opened[h] EXCEPT !.pos = at + length] \in Handle
        /\ opened' = [opened EXCEPT ![h] = [opened[h] EXCEPT !.pos = at + length]]
        /\ [opened[h] EXCEPT !.pos = at + length].fd = opened[h].fd
    BY <1>1, <1>7, <2>1 DEF Handle
  <2>5. SameHandles
    BY <1>4, <2>4, OneHandle
  <2>6. appended' \in [FsNames -> Seq(Int)]
    <3>1. appended[name] \o bytes \in Seq(Int)
      BY <1>1, <1>2, ConcatProperties DEF FsInv, FsType
    <3> QED
      BY <1>1, <2>1, <3>1 DEF FsInv, FsType
  <2>7. FsType' /\ FdNamesOneFile'
    BY <1>4, <1>6, <2>5, <2>6, SameFds DEF FsInv, FsType, FsCall, SameHandles
  <2>8. AppendsAreKept'
    <3> SUFFICES ASSUME NEW n \in FsNames, n \notin rewritten
                 PROVE  disk'[n].data = appended'[n]
      BY <2>1 DEF AppendsAreKept
    <3>1. disk[n].data = appended[n]
      BY DEF FsInv, AppendsAreKept
    <3>2. CASE n = name
      BY <1>1, <2>1, <2>3, <3>1, <3>2 DEF FsInv, FsType
    <3>3. CASE n # name
      BY <1>6, <2>1, <3>1, <3>3
    <3> QED
      BY <3>2, <3>3
  <2>9. ReadsKept'
    <3> SUFFICES ASSUME NEW i \in DOMAIN opened
                 PROVE  Brought(opened'[i], Data(i)')
      BY <2>5 DEF ReadsKept, SameHandles
    <3>1. /\ opened[i] \in Handle /\ opened[i].name \in FsNames /\ Data(i) \in Seq(Int)
          /\ Brought(opened[i], Data(i))
      BY HandleFacts DEF FsInv, ReadsKept
    <3>2. /\ opened'[i].mode = opened[i].mode /\ opened'[i].name = opened[i].name
          /\ opened'[i].steady = opened[i].steady /\ opened'[i].rpos = opened[i].rpos
          /\ opened'[i].start = opened[i].start /\ opened'[i].got = opened[i].got
      BY <2>4, <3>1 DEF Handle
    <3>3. CASE opened[i].name # name
      <4>1. Data(i)' = Data(i)
        BY <1>6, <3>1, <3>2, <3>3 DEF Data
      <4> QED
        BY <3>1, <3>2, <4>1 DEF Brought
    <3>4. CASE opened[i].name = name
      <4>1. Data(i) = Data(h) /\ Data(i)' = Data(i) \o bytes
        BY <2>3, <3>2, <3>4 DEF Data
      <4> HIDE DEF name
      <4>2. ASSUME opened[i].rpos <= Len(Data(i))
            PROVE  /\ opened[i].rpos <= Len(Data(i) \o bytes)
                   /\ SubSeq(Data(i) \o bytes, opened[i].start + 1, opened[i].rpos) =
                        SubSeq(Data(i), opened[i].start + 1, opened[i].rpos)
        <5>1. opened[i].rpos \in Nat /\ opened[i].start \in Nat
          BY <3>1 DEF Handle
        <5> QED
          BY ONLY <1>2, <3>1, <4>2, <5>1, PartStays, Zenon
      <4> QED
        BY <3>1, <3>2, <4>1, <4>2 DEF Brought
    <3> QED
      BY <3>3, <3>4
  <2> QED
    BY <2>7, <2>8, <2>9 DEF FsInv
<1> QED
  BY <1>8, <1>9

LEMMA Prepended ==
  ASSUME NEW S, NEW new \in S, NEW rest \in Seq(S)
  PROVE  /\ <<new>> \o rest \in Seq(S) /\ DOMAIN (<<new>> \o rest) = 1 .. Len(rest) + 1
         /\ (<<new>> \o rest)[1] = new
         /\ \A i \in DOMAIN (<<new>> \o rest) \ {1} :
              i - 1 \in DOMAIN rest /\ (<<new>> \o rest)[i] = rest[i - 1]
         /\ \A i \in DOMAIN rest : i + 1 \in DOMAIN (<<new>> \o rest) /\ i + 1 # 1
                                   /\ (<<new>> \o rest)[i + 1] = rest[i]
<1>1. <<new>> \in Seq(S) /\ Len(<<new>>) = 1 /\ <<new>>[1] = new
  OBVIOUS
<1>2. Len(rest) \in Nat /\ DOMAIN rest = 1 .. Len(rest)
  BY LenProperties
<1>3. /\ <<new>> \o rest \in Seq(S) /\ Len(<<new>> \o rest) = 1 + Len(rest)
      /\ \A i \in 1 .. 1 + Len(rest) :
           (<<new>> \o rest)[i] = IF i <= 1 THEN <<new>>[i] ELSE rest[i - 1]
  BY <1>1, <1>2, ConcatProperties
<1> DEFINE all == <<new>> \o rest
<1>4. DOMAIN all = 1 .. Len(rest) + 1
  BY <1>2, <1>3, LenProperties
<1>5. \A i \in 1 .. Len(rest) + 1 : all[i] = IF i <= 1 THEN <<new>>[i] ELSE rest[i - 1]
  BY <1>2, <1>3
<1> HIDE DEF all
<1>6. all[1] = new
  BY <1>1, <1>2, <1>5
<1>7. \A i \in DOMAIN all \ {1} : i - 1 \in DOMAIN rest /\ all[i] = rest[i - 1]
  BY <1>2, <1>4, <1>5
<1>8. \A i \in DOMAIN rest : i + 1 \in DOMAIN all /\ i + 1 # 1 /\ all[i + 1] = rest[i]
  BY <1>2, <1>4, <1>5
<1> QED
  BY <1>3, <1>4, <1>6, <1>7, <1>8 DEF all

LEMMA OpenKeeps ==
  ASSUME FsInv, NEW name \in FsNames, NEW mode \in FsModes, NEW cut \in BOOLEAN, Open(name, mode, cut)
  PROVE  FsInv'
<1> DEFINE empty == disk[name].kind = "none" \/ (mode \in {"w", "w+"} /\ cut)
           new   == [fd |-> FreeFd, name |-> name, mode |-> mode, pos |-> 0, rpos |-> 0,
                     start |-> 0, got |-> <<>>, steady |-> TRUE]
           rest  == IF empty THEN Disturbed(name) ELSE opened
           data  == IF empty THEN <<>> ELSE disk[name].data
<1>1. /\ FsCall /\ FreeFd < FsFds /\ fdUsed' = fdUsed \cup {FreeFd} /\ UNCHANGED lostFds
      /\ disk' = [disk EXCEPT ![name] = [kind |-> "file", data |-> data]]
      /\ opened' = <<new>> \o rest
      /\ IF empty THEN Emptied(name) ELSE UNCHANGED <<appended, rewritten>>
  BY DEF Open, MayOpen
<1>2. FreeFd \in 0 .. FsFds - 1 /\ FreeFd \notin fdUsed
  BY <1>1, FreeFdIsFree
<1>3. new \in Handle
  BY <1>2, EmptySeq DEF Handle
<1>4. data \in Seq(Int)
  BY EmptySeq DEF FsInv, FsType, File
<1>5. /\ rest \in Seq(Handle) /\ DOMAIN rest = DOMAIN opened
      /\ \A i \in DOMAIN opened : rest[i].fd = opened[i].fd
  BY DisturbedHandles DEF FsInv, FsType
<1>6. new.fd = FreeFd /\ new.name = name /\ Brought(new, data)
  BY EmptySeq DEF Brought
<1>7. /\ disk' \in [FsNames -> File] /\ disk'[name].data = data
      /\ \A n \in FsNames \ {name} : disk'[n] = disk[n]
  <2> HIDE DEF data, new, rest, empty
  <2>1. [kind |-> "file", data |-> data] \in File
    BY <1>4, FileFacts
  <2> QED
    BY <1>1, <2>1 DEF FsInv, FsType
<1>8. ~empty => data = disk[name].data
  OBVIOUS
<1>9. empty => data = <<>>
  OBVIOUS
<1>10. (empty => rest = Disturbed(name)) /\ (~empty => rest = opened)
  OBVIOUS
<1> HIDE DEF new, rest, data, empty
<1>11. /\ opened' \in Seq(Handle) /\ opened'[1] = new /\ 1 \in DOMAIN opened'
       /\ \A i \in DOMAIN opened' \ {1} : i - 1 \in DOMAIN opened /\ opened'[i] = rest[i - 1]
       /\ \A i \in DOMAIN opened : i + 1 \in DOMAIN opened' /\ i + 1 # 1 /\ opened'[i + 1] = rest[i]
  <2>1. Len(rest) \in Nat
    BY <1>5, LenProperties
  <2> QED
    BY <1>1, <1>3, <1>5, <2>1, Prepended
<1>12. FsType'
  <2>1. appended' \in [FsNames -> Seq(Int)]
    BY <1>1, EmptySeq DEF FsInv, FsType, Emptied
  <2>2. fdUsed' \subseteq 0 .. FsFds - 1
    BY <1>1, <1>2 DEF FsInv, FsType
  <2>3. fsLeft' \in Int
    BY <1>1 DEF FsInv, FsType, FsCall
  <2> QED
    BY <1>7, <1>11, <2>1, <2>2, <2>3 DEF FsType
<1>13. FdNamesOneFile'
  <2>1. FdsOpen' = FdsOpen \cup {FreeFd}
    <3>1. ASSUME NEW i \in DOMAIN opened'
          PROVE  opened'[i].fd \in FdsOpen \cup {FreeFd}
      <4>1. CASE i = 1
        BY <1>6, <1>11, <4>1
      <4>2. CASE i # 1
        <5> DEFINE k == i - 1
        <5>1. k \in DOMAIN opened /\ opened'[i] = rest[k]
          BY <1>11, <4>2
        <5> HIDE DEF k
        <5> QED
          BY <1>5, <5>1 DEF FdsOpen
      <4> QED
        BY <4>1, <4>2
    <3>2. FreeFd \in FdsOpen'
      BY <1>6, <1>11 DEF FdsOpen
    <3>3. ASSUME NEW i \in DOMAIN opened
          PROVE  opened[i].fd \in FdsOpen'
      BY <1>5, <1>11 DEF FdsOpen
    <3> QED
      BY <3>1, <3>2, <3>3 DEF FdsOpen
  <2>2. FreeFd \notin FdsOpen /\ FreeFd \notin lostFds
    BY <1>2 DEF FsInv, FdNamesOneFile
  <2>3. ASSUME NEW g \in DOMAIN opened', NEW h \in DOMAIN opened', opened'[g].fd = opened'[h].fd
        PROVE  g = h
    <3>1. ASSUME NEW i \in DOMAIN opened' \ {1}
          PROVE  opened'[i].fd # FreeFd
      <4> DEFINE k == i - 1
      <4>1. k \in DOMAIN opened /\ opened'[i] = rest[k]
        BY <1>11
      <4> HIDE DEF k
      <4>2. opened[k].fd \in FdsOpen /\ opened'[i].fd = opened[k].fd
        BY <1>5, <4>1 DEF FdsOpen
      <4> QED
        BY <2>2, <4>2
    <3>2. CASE g = 1 \/ h = 1
      BY <1>6, <1>11, <2>3, <3>1, <3>2
    <3>3. CASE g # 1 /\ h # 1
      <4>1. g - 1 \in DOMAIN opened /\ h - 1 \in DOMAIN opened
            /\ opened[g - 1].fd = opened[h - 1].fd
        BY <1>5, <1>11, <2>3, <3>3
      <4>2. g - 1 = h - 1
        BY <4>1 DEF FsInv, FdNamesOneFile
      <4>3. g \in Int /\ h \in Int
        BY <1>11, LenProperties
      <4> QED
        BY <4>2, <4>3
    <3> QED
      BY <3>2, <3>3
  <2> QED
    BY <1>1, <2>1, <2>2, <2>3 DEF FsInv, FdNamesOneFile
<1>14. AppendsAreKept'
  <2> SUFFICES ASSUME NEW n \in FsNames, n \notin rewritten'
               PROVE  disk'[n].data = appended'[n]
    BY DEF AppendsAreKept
  <2>1. CASE n = name /\ empty
    BY <1>1, <1>7, <1>9, <2>1 DEF FsInv, FsType, Emptied
  <2>2. CASE n # name \/ ~empty
    <3>1. n \notin rewritten /\ appended'[n] = appended[n]
      BY <1>1, <2>2 DEF FsInv, FsType, Emptied
    <3>2. disk'[n].data = disk[n].data
      BY <1>7, <1>8, <2>2
    <3> QED
      BY <3>1, <3>2 DEF FsInv, AppendsAreKept
  <2> QED
    BY <2>1, <2>2
<1>15. ReadsKept'
  <2> SUFFICES ASSUME NEW i \in DOMAIN opened'
               PROVE  Brought(opened'[i], disk'[opened'[i].name].data)
    BY DEF ReadsKept, Data
  <2>1. CASE i = 1
    BY <1>6, <1>7, <1>11, <2>1
  <2>2. CASE i # 1
    <3> DEFINE k == i - 1
    <3>1. k \in DOMAIN opened /\ opened'[i] = rest[k]
      BY <1>11, <2>2
    <3> HIDE DEF k
    <3>2. opened[k].name \in FsNames /\ Brought(opened[k], disk[opened[k].name].data)
      BY <3>1, HandleFacts DEF FsInv, ReadsKept, Data
    <3>3. CASE empty
      <4>1. disk[opened[k].name].data = Data(k) /\ opened[k].name # name =>
              disk'[opened[k].name].data = Data(k)
        BY <1>7, <3>2 DEF Data
      <4>2. Brought(Disturbed(name)[k], disk'[opened[k].name].data)
            /\ Disturbed(name)[k].name = opened[k].name
        BY <3>1, <4>1, DisturbedBrought DEF Data
      <4> QED
        BY <1>10, <3>1, <3>3, <4>2
    <3>4. CASE ~empty
      <4>1. rest[k] = opened[k]
        BY <1>10, <3>4
      <4>2. disk'[opened[k].name].data = disk[opened[k].name].data
        BY <1>7, <1>8, <3>2, <3>4
      <4> QED
        BY <3>1, <3>2, <4>1, <4>2
    <3> QED
      BY <3>3, <3>4
  <2> QED
    BY <2>1, <2>2
<1> QED
  BY <1>12, <1>13, <1>14, <1>15 DEF FsInv

LEMMA OpenFailsKeeps ==
  ASSUME FsInv, NEW name \in FsNames, NEW mode \in FsModes, OpenFails(name, mode)
  PROVE  FsInv'
<1>1. FreeFd \in 0 .. FsFds - 1 /\ FreeFd \notin fdUsed
  BY FreeFdIsFree DEF OpenFails, MayOpen
<1>2. FsType'
  BY <1>1 DEF FsInv, FsType, OpenFails, FsCall
<1>3. FdNamesOneFile'
  BY <1>1 DEF FsInv, FdNamesOneFile, FdsOpen, OpenFails
<1>4. AppendsAreKept' /\ ReadsKept'
  BY DEF FsInv, AppendsAreKept, ReadsKept, Data, OpenFails
<1> QED
  BY <1>2, <1>3, <1>4 DEF FsInv

LEMMA CloseKeeps ==
  ASSUME FsInv, NEW h \in DOMAIN opened, Close(h)
  PROVE  FsInv'
<1> DEFINE old(i) == IF i < h THEN i ELSE i + 1
           new(i) == IF i < h THEN i ELSE i - 1
<1>1. Len(opened) \in Nat /\ DOMAIN opened = 1 .. Len(opened) /\ opened \in Seq(Handle)
  BY LenProperties DEF FsInv, FsType
<1>2. /\ opened' = RemoveAt(opened, h) /\ FsCall
      /\ fdUsed' = fdUsed \ {opened[h].fd} /\ UNCHANGED <<disk, lostFds, appended, rewritten>>
  BY Zenon DEF Close
<1>3. /\ opened' \in Seq(Handle) /\ Len(opened') = Len(opened) - 1
      /\ \A i \in 1 .. Len(opened) - 1 : opened'[i] = IF i < h THEN opened[i] ELSE opened[i + 1]
  BY <1>1, <1>2, Removed, Zenon
<1>4. DOMAIN opened' = 1 .. Len(opened) - 1
  BY <1>3, LenProperties
<1>5. /\ \A i \in DOMAIN opened' : old(i) \in DOMAIN opened \ {h} /\ opened'[i] = opened[old(i)]
      /\ \A i, j \in DOMAIN opened' : old(i) = old(j) => i = j
      /\ \A i \in DOMAIN opened \ {h} : new(i) \in DOMAIN opened' /\ opened'[new(i)] = opened[i]
  BY <1>1, <1>3, <1>4
<1> HIDE DEF old, new
<1>6. FdsOpen' = FdsOpen \ {opened[h].fd}
  <2>1. ASSUME NEW i \in DOMAIN opened'
        PROVE  opened'[i].fd \in FdsOpen \ {opened[h].fd}
    BY <1>5 DEF FsInv, FdNamesOneFile, FdsOpen
  <2>2. ASSUME NEW i \in DOMAIN opened, opened[i].fd # opened[h].fd
        PROVE  opened[i].fd \in FdsOpen'
    BY <1>5, <2>2 DEF FdsOpen
  <2> QED
    BY <2>1, <2>2 DEF FdsOpen
<1>7. FdNamesOneFile'
  <2>1. ASSUME NEW i \in DOMAIN opened', NEW j \in DOMAIN opened', opened'[i].fd = opened'[j].fd
        PROVE  i = j
    BY <1>5, <2>1 DEF FsInv, FdNamesOneFile
  <2>2. opened[h].fd \in FdsOpen
    BY DEF FdsOpen
  <2> QED
    BY <1>2, <1>6, <2>1, <2>2 DEF FsInv, FdNamesOneFile
<1>8. FsType' /\ AppendsAreKept'
  <2>1. FsType'
    <3>1. fdUsed \subseteq 0 .. FsFds - 1 /\ fsLeft \in Int
      BY DEF FsInv, FsType
    <3>2. fdUsed' \subseteq fdUsed /\ fsLeft' \in Int
      BY <1>2, <3>1 DEF FsCall
    <3> QED
      BY <1>2, <1>3, <3>1, <3>2 DEF FsInv, FsType
  <2>2. AppendsAreKept'
    BY <1>2 DEF FsInv, AppendsAreKept
  <2> QED
    BY <2>1, <2>2
<1>9. ReadsKept'
  BY <1>2, <1>5 DEF FsInv, ReadsKept, Data
<1> QED
  BY <1>7, <1>8, <1>9 DEF FsInv

LEMMA FsCleanupKeeps ==
  ASSUME FsInv, FsCleanup
  PROVE  FsInv'
<1>1. opened' = <<>> /\ <<>> \in Seq(Handle) /\ DOMAIN opened' = {}
  BY EmptySeq DEF FsCleanup
<1>2. FsType'
  <2>1. fdUsed \subseteq 0 .. FsFds - 1 /\ fsLeft \in Int
    BY DEF FsInv, FsType
  <2>2. fdUsed' \subseteq fdUsed /\ fsLeft' \in Int /\ UNCHANGED <<disk, appended>>
    BY <2>1 DEF FsCleanup, FsCall
  <2> QED
    BY <1>1, <2>1, <2>2 DEF FsInv, FsType
<1>3. AppendsAreKept' /\ ReadsKept'
  BY <1>1 DEF FsInv, FsCleanup, AppendsAreKept, ReadsKept
<1>4. FdNamesOneFile'
  BY <1>1 DEF FsInv, FdNamesOneFile, FdsOpen, FsCleanup
<1> QED
  BY <1>2, <1>3, <1>4 DEF FsInv

LEMMA TruncateRefusedKeeps ==
  ASSUME FsInv, NEW name \in FsNames, TruncateRefused(name) \/ Mkdir(name)
  PROVE  FsInv'
<1>1. PICK kind \in {"none", "file", "dir"} : disk' = [disk EXCEPT ![name].kind = kind]
  <2>1. CASE TruncateRefused(name)
    <3>1. disk' = [disk EXCEPT ![name].kind = "file"]
      BY <2>1 DEF TruncateRefused
    <3> QED
      BY <3>1
  <2>2. CASE Mkdir(name)
    <3>1. disk' = [disk EXCEPT ![name].kind = "dir"]
      BY <2>2 DEF Mkdir
    <3> QED
      BY <3>1
  <2> QED
    BY <2>1, <2>2
<1>2. disk' \in [FsNames -> File] /\ \A n \in FsNames : disk'[n].data = disk[n].data
  BY <1>1 DEF FsInv, FsType, File
<1>3. fsLeft' \in Int /\ UNCHANGED <<opened, fdUsed, lostFds, appended, rewritten>>
  BY DEF FsInv, FsType, TruncateRefused, Mkdir, FsCall
<1> QED
  BY <1>2, <1>3, SameBytes

LEMMA TruncateUnopenedKeeps ==
  ASSUME FsInv, NEW name \in FsNames, TruncateUnopened(name)
  PROVE  FsInv'
<1>1. /\ disk' = [n \in FsNames |-> Absent] /\ opened' = <<>> /\ fdUsed' = {} /\ lostFds' = {}
      /\ appended' = [n \in FsNames |-> <<>>] /\ fsLeft' = 0
  BY DEF TruncateUnopened
<1>2. DOMAIN opened' = {}
  BY <1>1
<1>3. FsType'
  BY <1>1, FileFacts DEF FsType
<1>4. AppendsAreKept' /\ ReadsKept'
  BY <1>1, <1>2, FileFacts DEF AppendsAreKept, ReadsKept
<1>5. FdNamesOneFile'
  BY <1>1, <1>2 DEF FdNamesOneFile, FdsOpen
<1> QED
  BY <1>3, <1>4, <1>5 DEF FsInv

LEMMA UnlinkKeeps ==
  ASSUME FsInv, NEW name \in FsNames, Unlink(name)
  PROVE  FsInv'
<1>1. /\ disk' = [disk EXCEPT ![name] = Absent] /\ Emptied(name) /\ FsCall
      /\ UNCHANGED <<opened, fdUsed, lostFds>>
      /\ \A h \in DOMAIN opened : opened[h].name # name
  BY DEF Unlink
<1>2. Absent \in File /\ Absent.data = <<>>
  BY FileFacts
<1>3. FsType' /\ FdNamesOneFile'
  BY <1>1, <1>2, EmptySeq DEF FsInv, FsType, FsCall, Emptied, FdNamesOneFile, FdsOpen
<1>4. AppendsAreKept'
  BY <1>1, <1>2 DEF FsInv, FsType, AppendsAreKept, Emptied
<1>5. ASSUME NEW h \in DOMAIN opened
      PROVE  Data(h)' = Data(h)
  BY <1>1, HandleFacts DEF FsInv, FsType, Data
<1>6. ReadsKept'
  BY <1>1, <1>5 DEF FsInv, ReadsKept
<1> QED
  BY <1>3, <1>4, <1>6 DEF FsInv

LEMMA WriteFileKeeps ==
  ASSUME FsInv, NEW name \in FsNames, NEW length \in Nat, NEW cut \in BOOLEAN,
         WriteFile(name, length, cut)
  PROVE  FsInv'
<1> DEFINE bytes == [i \in 1 .. length |-> FsCalls - fsLeft + 1]
<1>1. bytes \in Seq(Int)
  <2>1. FsCalls - fsLeft + 1 \in Int
    BY DEF FsInv, FsType
  <2>2. bytes \in [1 .. length -> Int]
    BY <2>1
  <2> QED
    BY <2>2, ConstantSeq
<1>2. /\ disk' = [disk EXCEPT ![name] = [kind |-> "file", data |-> IF cut THEN bytes ELSE @.data]]
      /\ IF cut THEN opened' = Disturbed(name) /\ Rewritten(name) ELSE UNCHANGED <<opened, appended, rewritten>>
      /\ FsCall /\ UNCHANGED <<fdUsed, lostFds>>
  BY DEF WriteFile
<1> HIDE DEF bytes
<1>3. disk' \in [FsNames -> File] /\ \A n \in FsNames \ {name} : disk'[n] = disk[n]
  <2>1. disk[name].data \in Seq(Int)
    BY DEF FsInv, FsType, File
  <2>2. [kind |-> "file", data |-> IF cut THEN bytes ELSE disk[name].data] \in File
    BY <1>1, <2>1, FileFacts
  <2> QED
    BY <1>2, <2>2 DEF FsInv, FsType
<1>4. CASE cut
  <2>1. Rewritten(name) /\ opened' = Disturbed(name) /\ DOMAIN opened = 1 .. Len(opened)
    BY <1>2, <1>4, LenProperties DEF FsInv, FsType
  <2>2. opened' = [i \in DOMAIN opened |-> IF i = 0 THEN [Disturbed(name)[i] EXCEPT !.pos = 0]
                                           ELSE Disturbed(name)[i]]
    BY <2>1 DEF Disturbed
  <2>3. Disturbing(name, 0, 0)
    BY <1>2, <1>3, <2>1, <2>2 DEF Disturbing
  <2> QED
    BY <2>3, DisturbingKeeps
<1>5. CASE ~cut
  <2>1. \A n \in FsNames : disk'[n].data = disk[n].data
    BY <1>2, <1>3, <1>5 DEF FsInv, FsType
  <2>2. fsLeft' \in Int
    BY <1>2 DEF FsInv, FsType, FsCall
  <2> QED
    BY <1>2, <1>3, <1>5, <2>1, <2>2, SameBytes
<1> QED
  BY <1>4, <1>5

-----------------------------------------------------------------------------
LEMMA FsBegins == FsInit => FsInv
<1> SUFFICES ASSUME FsInit
             PROVE  FsInv
  OBVIOUS
<1>1. opened = <<>> /\ DOMAIN opened = {}
  BY DEF FsInit
<1>2. FsType /\ AppendsAreKept /\ ReadsKept
  BY <1>1, FileFacts DEF FsInit, FsType, AppendsAreKept, ReadsKept
<1>3. FdNamesOneFile
  BY <1>1 DEF FsInit, FdNamesOneFile, FdsOpen
<1> QED
  BY <1>2, <1>3 DEF FsInv

LEMMA FsInvIsKept == FsInv /\ [FsNext]_fsVars => FsInv'
<1> SUFFICES ASSUME FsInv, [FsNext]_fsVars
             PROVE  FsInv'
  OBVIOUS
<1>1. CASE \E n \in FsNames, m \in FsModes : OpenFails(n, m) \/ \E cut \in BOOLEAN : Open(n, m, cut)
  BY <1>1, OpenFailsKeeps, OpenKeeps
<1>2. CASE \E h \in DOMAIN opened : Close(h)
  BY <1>2, CloseKeeps
<1>3. CASE \E h \in DOMAIN opened : \E l \in FsLengths, p \in FsLengths : FsWrite(h, l, p)
  BY <1>3, FsWriteKeeps
<1>4. CASE \E h \in DOMAIN opened : \E l \in FsLengths, p \in FsLengths \union {Null} : FsRead(h, l, p)
  <2>1. PICK h \in DOMAIN opened, l \in FsLengths, p \in FsLengths \union {Null} : FsRead(h, l, p)
    BY <1>4
  <2>2. l \in Nat /\ p \in Nat \cup {Null}
    OBVIOUS
  <2> QED
    BY <2>1, <2>2, FsReadKeeps
<1>5. CASE \E h \in DOMAIN opened : \E p \in FsLengths : FsReadSeekFails(h, p)
  BY <1>5, FsReadSeekFailsKeeps
<1>6. CASE FsCleanup
  BY <1>6, FsCleanupKeeps
<1>7. CASE \E n \in FsNames : TruncateRefused(n) \/ TruncateUnopened(n) \/ Mkdir(n) \/ Unlink(n)
  BY <1>7, TruncateRefusedKeeps, TruncateUnopenedKeeps, UnlinkKeeps
<1>8. CASE \E n \in FsNames : \E l \in FsLengths, cut \in BOOLEAN : WriteFile(n, l, cut)
  BY <1>8, WriteFileKeeps
<1>9. CASE UNCHANGED fsVars
  BY <1>9 DEF fsVars, FsInv, FsType, FdNamesOneFile, FdsOpen, AppendsAreKept, ReadsKept, Data
<1> QED
  BY <1>1, <1>2, <1>3, <1>4, <1>5, <1>6, <1>7, <1>8, <1>9 DEF FsNext

\* The invariant says that files hold what was written to them.
LEMMA FsInvHolds == FsInv => FilesHold
<1> SUFFICES ASSUME FsInv, NEW h \in DOMAIN opened,
                    opened[h].mode = "a+", opened[h].steady, opened[h].got # <<>>
             PROVE  /\ opened[h].start + Len(opened[h].got) <= Len(Data(h))
                    /\ opened[h].got = SubSeq(Data(h), opened[h].start + 1, opened[h].start + Len(opened[h].got))
  BY DEF FsInv, FilesHold, ReadsGoOn
<1> QED
  BY DEF FsInv, ReadsKept, Brought

-----------------------------------------------------------------------------
(***************************************************************************)
(* What is typed.                                                          *)
(***************************************************************************)
TtBytes == Nat \ {0}
TtLines == Seq(TtBytes)

\* The first n bytes, and n more after t of them.
UpTo(n) == [i \in 1..n |-> i]
After(t, n) == [i \in 1..n |-> t + i]

LEMMA BytesAre ==
  ASSUME NEW t \in Nat, NEW n \in Nat
  PROVE  /\ UpTo(t) \in TtLines /\ After(t, n) \in TtLines
         /\ UpTo(t) \o After(t, n) = UpTo(t + n)
<1>1. UpTo(t) \in TtLines /\ Len(UpTo(t)) = t
  BY DEF UpTo, TtLines, TtBytes
<1>2. After(t, n) \in TtLines /\ Len(After(t, n)) = n
  BY DEF After, TtLines, TtBytes
<1>3. UpTo(t + n) \in TtLines /\ Len(UpTo(t + n)) = t + n
  BY DEF UpTo, TtLines, TtBytes
<1>4. /\ UpTo(t) \o After(t, n) \in TtLines
      /\ Len(UpTo(t) \o After(t, n)) = t + n
      /\ \A i \in 1 .. t + n : (UpTo(t) \o After(t, n))[i]
                               = IF i <= t THEN UpTo(t)[i] ELSE After(t, n)[i - t]
  <2> DEFINE a == UpTo(t)
             b == After(t, n)
  <2>1. a \in Seq(TtBytes) /\ b \in Seq(TtBytes)
    BY <1>1, <1>2 DEF TtLines
  <2>2. Len(a) = t /\ Len(b) = n
    BY <1>1, <1>2
  <2> HIDE DEF a, b
  <2>3. /\ a \o b \in Seq(TtBytes) /\ Len(a \o b) = Len(a) + Len(b)
        /\ \A i \in 1 .. Len(a) + Len(b) : (a \o b)[i] = IF i <= Len(a) THEN a[i] ELSE b[i - Len(a)]
    BY ONLY <2>1, ConcatProperties
  <2> QED
    BY <2>2, <2>3 DEF a, b, TtLines
<1>5. \A i \in 1 .. t + n : (UpTo(t) \o After(t, n))[i] = UpTo(t + n)[i]
  BY <1>4 DEF UpTo, After
<1>6. UpTo(t) \o After(t, n) = UpTo(t + n)
  <2> DEFINE a == UpTo(t) \o After(t, n)
             b == UpTo(t + n)
  <2>1. a \in Seq(TtBytes) /\ b \in Seq(TtBytes) /\ Len(a) = Len(b)
    BY <1>3, <1>4 DEF TtLines
  <2>2. \A i \in 1 .. Len(a) : a[i] = b[i]
    BY <1>4, <1>5
  <2> HIDE DEF a, b
  <2>3. a = b
    BY ONLY <2>1, <2>2, SeqEqual
  <2> QED
    BY <2>3 DEF a, b
<1> QED
  BY <1>1, <1>2, <1>6

LEMMA NoLine ==
  /\ <<>> \in TtLines /\ NULL \notin TtLines /\ NULL # <<>> /\ OrNone(NULL) = <<>>
  /\ \A l \in TtLines : OrNone(l) = l
<1>1. NULL \notin TtLines
  BY DEF NULL, TtLines, TtBytes
<1>2. <<>> \in TtLines
  BY DEF TtLines
<1> QED
  BY <1>1, <1>2 DEF OrNone

-----------------------------------------------------------------------------
(***************************************************************************)
(* The invariant, as long as no interrupt comes while main gives up.       *)
(***************************************************************************)
Clearing == {"clear", "tail", "buf", "data"}
Stream == ttTaken \o OrNone(ttData) \o FlattenSeq(dataQueue) \o OrNone(isrData)

UartTypes ==
  /\ typed \in Nat /\ avail \in Nat /\ fifoSize \in Nat /\ tail \in Nat
  /\ bufSet \in BOOLEAN /\ isrEnd \in BOOLEAN /\ processDone \in BOOLEAN
  /\ dataQueue \in Seq(TtLines) /\ ttTaken \in TtLines
  /\ isrData \in TtLines \union {NULL} /\ ttData \in TtLines \union {NULL}
  /\ ttStep \in {"away", "waiting", "got", "recycle", "put", "next", "empty"} \union Clearing

UartHolds ==
  /\ TtOk /\ ttLost = 0
  /\ Stream = UpTo(typed)
  /\ fifoSize = Outstanding
  /\ tail > 0 <=> isrData # NULL
  /\ tail > 0 => bufSet
  /\ ttStep = "got" => ttData # NULL
  /\ ttStep \in {"recycle", "put"} => ttData = <<>>
  /\ ttStep \notin {"got", "recycle", "put"} => ttData = NULL
  /\ ttStep \in {"waiting", "empty"} => ~isrEnd
  /\ ttStep \in Clearing \union {"empty"} => dataQueue = <<>>
  /\ ttStep \in Clearing => tail = 0

UartInv == ~ttRaced => UartTypes /\ UartHolds

LEMMA UartBegins == TtInit => UartInv
<1> SUFFICES ASSUME TtInit PROVE UartTypes /\ UartHolds
  BY DEF UartInv
<1>1. UartTypes
  <2>1. <<>> \in Seq(TtLines)
    OBVIOUS
  <2>2. "away" \in {"away", "waiting", "got", "recycle", "put", "next", "empty"} \union Clearing
    OBVIOUS
  <2> QED
    BY <2>1, <2>2, NoLine DEF TtInit, UartTypes
<1>2. Stream = UpTo(typed)
  <2>1. FlattenSeq(dataQueue) = <<>>
    BY DEF TtInit, FlattenSeq
  <2>2. Stream = <<>>
    BY <2>1, NoLine, ConcatEmptySeq DEF TtInit, Stream
  <2>3. UpTo(typed) = <<>>
    BY DEF TtInit, UpTo
  <2> QED
    BY <2>2, <2>3
<1>3. fifoSize = Outstanding
  BY DEF TtInit, Outstanding
<1> QED
  BY <1>1, <1>2, <1>3 DEF TtInit, UartHolds, TtOk, Clearing

\* What the invariant says of the parts of the stream.
LEMMA StreamParts ==
  ASSUME UartTypes
  PROVE  /\ ttTaken \in TtLines /\ OrNone(ttData) \in TtLines /\ OrNone(isrData) \in TtLines
         /\ FlattenSeq(dataQueue) \in TtLines /\ Len(dataQueue) \in Nat
<1>1. FlattenSeq(dataQueue) \in TtLines
  <2>1. dataQueue \in Seq(Seq(TtBytes))
    BY DEF UartTypes, TtLines
  <2> QED
    BY <2>1, FlattenType DEF TtLines
<1>2. Len(dataQueue) \in Nat
  BY LenProperties DEF UartTypes
<1> QED
  BY <1>1, <1>2, NoLine DEF UartTypes

\* Main's steps leave what was typed alone, and no interrupt is new.
LEMMA MainKeeps ==
  ASSUME UartTypes, UartHolds,
         \/ LooksForData \/ GetsData \/ Processes \/ Recycles \/ PutsBack \/ GivesUp
         \/ FreesCached \/ ForgetsTail \/ ForgetsBuf \/ ForgetsData \/ CapturesTail \/ CapturesData
  PROVE  UartTypes' /\ UartHolds'
<1>0. /\ typed \in Nat /\ avail \in Nat /\ fifoSize \in Nat /\ tail \in Nat
      /\ dataQueue \in Seq(TtLines) /\ ttTaken \in TtLines
      /\ isrData \in TtLines \union {NULL} /\ ttData \in TtLines \union {NULL}
      /\ Len(dataQueue) \in Nat
  BY StreamParts DEF UartTypes
<1>n. NULL \notin TtLines /\ NULL # <<>> /\ <<>> \in TtLines
  BY NoLine
<1> HIDE DEF NULL
<1>1. CASE LooksForData
  <2>1. ttStep \in {"away", "next"} /\ ttStep' = "waiting"
    BY <1>1 DEF LooksForData, Main
  <2>2. UNCHANGED <<typed, tail, bufSet, isrData, avail, fifoSize, dataQueue, processDone, ttData, ttTaken,
                    ttLost, ttRaced, ttFault>> /\ isrEnd' = FALSE
    BY <1>1 DEF LooksForData, isrVars, ttHistory, ttGiven
  <2>3. Stream' = Stream /\ Outstanding' = Outstanding
    BY <2>2 DEF Stream, Outstanding
  <2>4. UartTypes'
    BY <2>1, <2>2 DEF UartTypes
  <2> QED
    BY <2>1, <2>2, <2>3, <2>4 DEF UartHolds, TtOk, Clearing
<1>2. CASE GetsData /\ dataQueue = <<>>
  <2>1. ttStep = "waiting" /\ ttStep' = "empty"
    BY <1>2 DEF GetsData, Main
  <2>2. UNCHANGED <<typed, tail, bufSet, isrData, avail, fifoSize, dataQueue, processDone, isrEnd, ttTaken,
                    ttLost, ttRaced, ttFault>>
    BY <1>2 DEF GetsData, isrVars, ttHistory, ttGiven
  <2>3. ttData = NULL /\ ttData' = NULL
    BY <1>2, <2>1 DEF GetsData, UartHolds
  <2>4. Stream' = Stream /\ Outstanding' = Outstanding
    BY <2>2, <2>3 DEF Stream, Outstanding
  <2>5. UartTypes'
    BY <2>1, <2>2, <2>3 DEF UartTypes
  <2> QED
    BY <1>2, <2>1, <2>2, <2>3, <2>4, <2>5 DEF UartHolds, TtOk, Clearing
<1>3. CASE GetsData /\ dataQueue # <<>>
  <2>1. ttStep = "waiting" /\ ttStep' = "got"
    BY <1>3 DEF GetsData, Main
  <2>2. UNCHANGED <<typed, tail, bufSet, isrData, avail, fifoSize, processDone, isrEnd, ttTaken,
                    ttLost, ttRaced, ttFault>>
    BY <1>3 DEF GetsData, isrVars, ttHistory, ttGiven
  <2>3. ttData = NULL /\ ttData' = Head(dataQueue) /\ dataQueue' = Tail(dataQueue)
    BY <1>3, <2>1 DEF GetsData, UartHolds
  <2>4. /\ Head(dataQueue) \in TtLines /\ Tail(dataQueue) \in Seq(TtLines)
        /\ Len(Tail(dataQueue)) = Len(dataQueue) - 1
    BY ONLY <1>0, <1>3, HeadTailProperties
  <2>5. ttData' # NULL /\ OrNone(ttData') = Head(dataQueue) /\ OrNone(ttData) = <<>>
    BY <1>n, <2>3, <2>4, NoLine
  <2>6. Outstanding' = Outstanding
    BY <1>0, <2>2, <2>3, <2>4, <2>5 DEF Outstanding
  <2>7. UartTypes'
    BY <2>1, <2>2, <2>3, <2>4 DEF UartTypes
  <2>8. Stream' = Stream
    <3> DEFINE p == ttTaken
               d == Head(dataQueue)
               q == FlattenSeq(Tail(dataQueue))
    <3>1. p \in Seq(TtBytes) /\ d \in Seq(TtBytes) /\ q \in Seq(TtBytes)
      <4>1. Tail(dataQueue) \in Seq(Seq(TtBytes))
        BY <2>4 DEF TtLines
      <4> QED
        BY <4>1, <1>0, <2>4, FlattenType DEF TtLines
    <3>2. FlattenSeq(dataQueue) = d \o q
      <4>1. dataQueue \in Seq(Seq(TtBytes)) /\ dataQueue # <<>>
        BY <1>0, <1>3 DEF TtLines
      <4> QED
        BY ONLY <4>1, FlattenTail
    <3>3. p \o <<>> = p
      BY <3>1, ConcatEmptySeq
    <3>4. Stream = (p \o (d \o q)) \o OrNone(isrData)
      BY <3>2, <3>3, <2>5 DEF Stream
    <3>5. Stream' = ((p \o d) \o q) \o OrNone(isrData)
      BY <2>2, <2>3, <2>5 DEF Stream
    <3> HIDE DEF p, d, q
    <3>6. p \o (d \o q) = (p \o d) \o q
      BY ONLY <3>1, Concat3
    <3> QED
      BY <3>4, <3>5, <3>6
  <2> QED
    BY <2>1, <2>2, <2>5, <2>6, <2>7, <2>8 DEF UartHolds, TtOk, Clearing
<1>4. CASE Processes
  <2>1. ttStep = "got" /\ ttStep' = "recycle"
    BY <1>4 DEF Processes, Main
  <2>2. UNCHANGED <<typed, tail, bufSet, isrData, avail, fifoSize, dataQueue, isrEnd, ttLost, ttRaced, ttFault>>
    BY <1>4 DEF Processes, isrVars
  <2>3. ttData \in TtLines /\ ttData' = <<>> /\ ttTaken' = ttTaken \o ttData /\ processDone' = TRUE
    BY <1>0, <1>4, <2>1 DEF Processes, UartHolds
  <2>4. Outstanding' = Outstanding
    BY <1>n, <2>2, <2>3 DEF Outstanding
  <2>5. ttTaken \o ttData \in TtLines
    BY <1>0, <2>3, ConcatProperties DEF TtLines
  <2>6. UartTypes'
    BY <1>n, <2>1, <2>2, <2>3, <2>5 DEF UartTypes
  <2>7. Stream' = Stream
    <3>1. OrNone(ttData) = ttData /\ OrNone(ttData') = <<>>
      BY <2>3, <1>n, NoLine
    <3>2. (ttTaken \o ttData) \o <<>> = ttTaken \o ttData
      BY <2>5, ConcatEmptySeq DEF TtLines
    <3> QED
      BY <2>2, <2>3, <3>1, <3>2 DEF Stream
  <2> QED
    BY <2>1, <2>2, <2>3, <2>4, <2>6, <2>7 DEF UartHolds, TtOk, Clearing
<1>5. CASE Recycles \/ PutsBack
  <2>1. ttStep \in {"recycle", "put"} /\ ttStep' \in {"put", "next"}
    BY <1>5 DEF Recycles, PutsBack, Main
  <2>2. UNCHANGED <<typed, tail, bufSet, isrData, dataQueue, processDone, isrEnd, ttTaken,
                    ttLost, ttRaced, ttFault>>
    BY <1>5 DEF Recycles, PutsBack, isrVars, ttHistory, ttGiven
  <2>3. ttData = <<>>
    BY <2>1 DEF UartHolds
  <2>4. \/ ttStep' = "put" /\ ttData' = ttData /\ UNCHANGED <<avail, fifoSize>>
        \/ ttStep' = "next" /\ ttData' = NULL /\ avail' = avail + 1 /\ fifoSize' = fifoSize
        \/ ttStep' = "next" /\ ttData' = NULL /\ fifoSize > 1 /\ fifoSize' = fifoSize - 1 /\ avail' = avail
    BY <1>5 DEF Recycles, PutsBack, Main
  <2>5. OrNone(ttData) = <<>> /\ OrNone(ttData') = <<>>
    BY <1>n, <2>3, <2>4, NoLine
  <2>6. Stream' = Stream
    BY <2>2, <2>5 DEF Stream
  <2>7. fifoSize' = Outstanding' /\ fifoSize' \in Nat /\ avail' \in Nat
    <3>1. fifoSize = Outstanding
      BY DEF UartHolds
    <3>2. Outstanding = avail + Len(dataQueue) + (IF isrData = NULL THEN 0 ELSE 1) + 1
      BY <1>n, <2>3 DEF Outstanding
    <3>3. Outstanding' = avail' + Len(dataQueue) + (IF isrData = NULL THEN 0 ELSE 1)
                         + (IF ttData' = NULL THEN 0 ELSE 1)
      BY <2>2 DEF Outstanding
    <3> QED
      BY <1>0, <1>n, <2>3, <2>4, <3>1, <3>2, <3>3
  <2>8. UartTypes'
    BY <1>n, <2>1, <2>2, <2>3, <2>4, <2>7 DEF UartTypes
  <2> QED
    BY <1>n, <2>1, <2>2, <2>3, <2>4, <2>6, <2>7, <2>8 DEF UartHolds, TtOk, Clearing
<1>6. CASE GivesUp
  <2>1. ttStep = "empty" /\ ttStep' \in {"clear", "away"} /\ (ttStep' = "clear" => tail = 0)
    BY <1>6 DEF GivesUp, Main, Captures, UartHolds
  <2>2. UNCHANGED <<typed, tail, bufSet, isrData, avail, fifoSize, dataQueue, processDone, isrEnd, ttData,
                    ttTaken, ttLost, ttRaced, ttFault>>
    BY <1>6 DEF GivesUp, isrVars, ttHistory, ttGiven
  <2>3. Stream' = Stream /\ Outstanding' = Outstanding
    BY <2>2 DEF Stream, Outstanding
  <2>4. UartTypes'
    BY <2>1, <2>2 DEF UartTypes, Clearing
  <2> QED
    BY <2>1, <2>2, <2>3, <2>4 DEF UartHolds, TtOk, Clearing
<1>7. CASE FreesCached
  <2>1. ttStep = "clear" /\ ttStep' \in {"clear", "tail", "away"}
    BY <1>7 DEF FreesCached, Main
  <2>2. UNCHANGED <<typed, tail, bufSet, isrData, dataQueue, processDone, isrEnd, ttData,
                    ttTaken, ttLost, ttRaced, ttFault>>
    BY <1>7 DEF FreesCached, isrVars, ttHistory, ttGiven
  <2>3. \/ UNCHANGED <<avail, fifoSize>>
        \/ fifoSize # 0 /\ avail > 0 /\ avail' = avail - 1 /\ fifoSize' = fifoSize - 1
    BY <1>7 DEF FreesCached, Clears
  <2>4. Stream' = Stream
    BY <2>2 DEF Stream
  <2>5. fifoSize' = Outstanding' /\ fifoSize' \in Nat /\ avail' \in Nat
    BY <1>0, <2>2, <2>3 DEF UartHolds, Outstanding
  <2>6. UartTypes'
    BY <2>1, <2>2, <2>5 DEF UartTypes, Clearing
  <2> QED
    BY <2>1, <2>2, <2>4, <2>5, <2>6 DEF UartHolds, TtOk, Clearing
<1>8. CASE ForgetsTail \/ ForgetsBuf \/ ForgetsData
  <2>1. ttStep \in Clearing /\ ttStep' \in {"buf", "data", "away"}
    BY <1>8 DEF ForgetsTail, ForgetsBuf, ForgetsData, Main, Clearing
  <2>2. tail = 0 /\ isrData = NULL
    BY <1>0, <2>1 DEF UartHolds
  <2>3. UNCHANGED <<typed, avail, fifoSize, dataQueue, processDone, isrEnd, ttData, ttTaken, ttRaced, ttFault>>
    BY <1>8 DEF ForgetsTail, ForgetsBuf, ForgetsData, ttHistory, ttGiven
  <2>4. tail' = tail /\ isrData' = isrData /\ ttLost' = ttLost /\ bufSet' \in BOOLEAN
    BY <1>8, <2>2 DEF ForgetsTail, ForgetsBuf, ForgetsData, ttHistory, ttGiven, UartTypes
  <2>5. Stream' = Stream /\ Outstanding' = Outstanding
    BY <2>3, <2>4 DEF Stream, Outstanding
  <2>6. UartTypes'
    BY <2>1, <2>3, <2>4 DEF UartTypes, Clearing
  <2> QED
    BY <2>1, <2>2, <2>3, <2>4, <2>5, <2>6 DEF UartHolds, TtOk, Clearing
<1>9. ~CapturesTail /\ ~CapturesData
  BY DEF CapturesTail, CapturesData, Main, UartTypes, Clearing
<1> QED
  BY <1>1, <1>2, <1>3, <1>4, <1>5, <1>6, <1>7, <1>8, <1>9

\* What an interrupt brings goes to the end of what there is, whatever buffer it is in.
LEMMA InterruptKeeps ==
  ASSUME UartTypes, UartHolds, NEW n \in 1 .. TtLine, NEW ends \in BOOLEAN, NEW nul \in 0 .. n,
         TypedInterrupt(n, ends, nul), ~ttRaced'
  PROVE  UartTypes' /\ UartHolds'
<1> DEFINE new == tail = 0
           size == IF new THEN SizeOfNew ELSE fifoSize
           old == IF new THEN <<>> ELSE isrData
           line == old \o After(typed, n)
           flush == Flushes(size, tail + n = TtLine, ends)
<1>0. /\ typed \in Nat /\ avail \in Nat /\ fifoSize \in Nat /\ tail \in Nat
      /\ dataQueue \in Seq(TtLines) /\ ttTaken \in TtLines
      /\ isrData \in TtLines \union {NULL} /\ ttData \in TtLines \union {NULL}
      /\ Len(dataQueue) \in Nat /\ n \in Nat /\ n > 0
  BY TtAssumption, StreamParts DEF UartTypes
<1>n. NULL \notin TtLines /\ NULL # <<>> /\ <<>> \in TtLines
  BY NoLine
<1>1. /\ typed' = typed + n /\ fifoSize' = size
      /\ avail' = IF new /\ avail > 0 THEN avail - 1 ELSE avail
      /\ processDone' \in BOOLEAN /\ bufSet' = TRUE /\ isrEnd' = TRUE
      /\ \/ flush /\ tail' = 0 /\ dataQueue' = Append(dataQueue, line) /\ isrData' = NULL
         \/ ~flush /\ tail' = tail + n /\ isrData' = line /\ dataQueue' = dataQueue
      /\ ttLost' = IF new /\ isrData # NULL THEN ttLost + 1 ELSE ttLost
      /\ UNCHANGED <<ttStep, ttData, ttTaken, ttFault>>
      /\ new \/ isrData # NULL
  BY DEF TypedInterrupt, After, UartTypes, ttGiven
<1> HIDE DEF NULL, flush
<1>2. ttStep \in {"away", "got", "recycle", "put"}
  BY DEF TypedInterrupt, GivingUp
<1>3. new <=> isrData = NULL
  BY <1>0 DEF UartHolds
<1>4. old = OrNone(isrData) /\ old \in TtLines
  BY <1>0, <1>1, <1>3, <1>n, NoLine
<1> HIDE DEF old
<1>5. After(typed, n) \in TtLines /\ UpTo(typed) \o After(typed, n) = UpTo(typed + n)
  BY <1>0, BytesAre
<1>6. line \in TtLines
  BY <1>4, <1>5, ConcatProperties DEF TtLines
<1>7. fifoSize' = Outstanding' /\ fifoSize' \in Nat /\ avail' \in Nat
  <2>1. Outstanding = avail + Len(dataQueue) + (IF new THEN 0 ELSE 1) + (IF ttData = NULL THEN 0 ELSE 1)
    BY <1>3 DEF Outstanding
  <2>2. Len(dataQueue') + (IF isrData' = NULL THEN 0 ELSE 1) = Len(dataQueue) + 1
    <3>1. line # NULL
      BY <1>6, <1>n
    <3>2. Len(Append(dataQueue, line)) = Len(dataQueue) + 1
      BY <1>0, <1>6, AppendProperties
    <3> HIDE DEF line
    <3> QED
      BY <1>0, <1>1, <3>1, <3>2
  <2>3. Outstanding' = avail' + (Len(dataQueue') + (IF isrData' = NULL THEN 0 ELSE 1))
                       + (IF ttData = NULL THEN 0 ELSE 1)
    <3>1. Len(dataQueue') \in Nat /\ avail' \in Nat
      <4>1. dataQueue' \in Seq(TtLines)
        <5> HIDE DEF line
        <5>1. Append(dataQueue, line) \in Seq(TtLines)
          BY <1>0, <1>6, AppendProperties
        <5> QED
          BY <1>0, <1>1, <5>1
      <4> QED
        BY <1>0, <1>1, <4>1, LenProperties
    <3> QED
      BY <3>1, <1>1 DEF Outstanding
  <2>4. fifoSize = Outstanding
    BY DEF UartHolds
  <2>5. /\ fifoSize' = IF new /\ avail = 0 THEN fifoSize + 1 ELSE fifoSize
        /\ avail' = IF new /\ avail > 0 THEN avail - 1 ELSE avail
    BY <1>1 DEF SizeOfNew
  <2> HIDE DEF new
  <2>6. fifoSize' \in Nat /\ avail' \in Nat
    BY ONLY <1>0, <2>5
  <2> DEFINE v == Len(dataQueue') + (IF isrData' = NULL THEN 0 ELSE 1)
             w == IF ttData = NULL THEN 0 ELSE 1
             i == IF new THEN 0 ELSE 1
  <2>7. /\ v = Len(dataQueue) + 1 /\ w \in Nat /\ i = IF new THEN 0 ELSE 1
        /\ Outstanding = avail + Len(dataQueue) + i + w /\ Outstanding' = avail' + v + w
    BY <2>1, <2>2, <2>3
  <2> HIDE DEF v, w, i
  <2>8. fifoSize' = Outstanding'
    BY ONLY <1>0, <2>4, <2>5, <2>6, <2>7
  <2> QED
    BY <2>6, <2>8
<1>8. Stream' = UpTo(typed')
  <2> DEFINE x == ttTaken \o OrNone(ttData)
             q == FlattenSeq(dataQueue)
             b == After(typed, n)
  <2>1. x \in TtLines /\ q \in TtLines /\ x \o q \in TtLines
    <3>1. x \in TtLines
      BY StreamParts, ConcatProperties DEF TtLines
    <3> HIDE DEF x
    <3> QED
      BY <3>1, StreamParts, ConcatProperties DEF TtLines
  <2>2. Stream = (x \o q) \o old
    BY <1>4 DEF Stream
  <2>3. UpTo(typed') = ((x \o q) \o old) \o b
    BY <1>1, <1>5, <2>2 DEF UartHolds
  <2>4. x' = x
    BY <1>1
  <2>5. b \in TtLines
    BY <1>5
  <2> HIDE DEF b, x
  <2>6. CASE tail' = 0 /\ dataQueue' = Append(dataQueue, line) /\ isrData' = NULL
    <3>1. FlattenSeq(dataQueue') = q \o line
      <4>1. dataQueue \in Seq(Seq(TtBytes)) /\ line \in Seq(TtBytes)
        BY <1>0, <1>6 DEF TtLines
      <4> HIDE DEF line
      <4>2. FlattenSeq(Append(dataQueue, line)) = FlattenSeq(dataQueue) \o line
        BY ONLY <4>1, FlattenAppend
      <4> QED
        BY <2>6, <4>2
    <3>2. Stream' = (x \o FlattenSeq(dataQueue')) \o <<>>
      BY <2>4, <2>6, NoLine DEF Stream, x
    <3> HIDE DEF q
    <3>3. x \o (q \o (old \o b)) = ((x \o q) \o old) \o b
      <4>1. x \in Seq(TtBytes) /\ q \in Seq(TtBytes) /\ old \in Seq(TtBytes) /\ b \in Seq(TtBytes) /\ x \o q \in Seq(TtBytes)
        BY <1>4, <2>1, <2>5 DEF TtLines
      <4>2. old \o b \in Seq(TtBytes)
        BY <4>1, ConcatProperties
      <4>3. x \o (q \o (old \o b)) = (x \o q) \o (old \o b)
        <5> DEFINE e == old \o b
        <5>1. x \in Seq(TtBytes) /\ q \in Seq(TtBytes) /\ e \in Seq(TtBytes)
          BY <4>1, <4>2
        <5> HIDE DEF e
        <5>2. x \o (q \o e) = (x \o q) \o e
          BY ONLY <5>1, Concat3
        <5> QED
          BY <5>2 DEF e
      <4>4. (x \o q) \o (old \o b) = ((x \o q) \o old) \o b
        <5> DEFINE e == x \o q
        <5>1. e \in Seq(TtBytes) /\ old \in Seq(TtBytes) /\ b \in Seq(TtBytes)
          BY <4>1
        <5> HIDE DEF e
        <5>2. e \o (old \o b) = (e \o old) \o b
          BY ONLY <5>1, Concat3
        <5> QED
          BY <5>2 DEF e
      <4> QED
        BY ONLY <4>3, <4>4
    <3>4. (x \o (q \o line)) \o <<>> = x \o (q \o line)
      <4>1. q \o line \in Seq(TtBytes)
        BY <1>6, <2>1, ConcatProperties DEF TtLines
      <4>2. x \o (q \o line) \in Seq(TtBytes)
        BY <2>1, <4>1, ConcatProperties DEF TtLines
      <4> QED
        BY <4>2, ConcatEmptySeq
    <3>5. line = old \o b
      BY DEF b
    <3> HIDE DEF line
    <3> QED
      BY <2>3, <3>1, <3>2, <3>3, <3>4, <3>5
  <2>7. CASE tail' = tail + n /\ isrData' = line /\ dataQueue' = dataQueue
    <3>1. Stream' = (x \o q) \o line
      BY <1>6, <2>4, <2>7, NoLine DEF Stream, x
    <3> HIDE DEF q
    <3>2. (x \o q) \o (old \o b) = ((x \o q) \o old) \o b
      <4> DEFINE e == x \o q
      <4>1. old \in Seq(TtBytes) /\ b \in Seq(TtBytes) /\ e \in Seq(TtBytes)
        BY <1>4, <2>1, <2>5 DEF TtLines
      <4> HIDE DEF e
      <4>2. e \o (old \o b) = (e \o old) \o b
        BY ONLY <4>1, Concat3
      <4> QED
        BY <4>2 DEF e
    <3>3. line = old \o b
      BY DEF b
    <3> HIDE DEF line
    <3> QED
      BY <2>3, <3>1, <3>2, <3>3
  <2> QED
    BY <1>1, <2>6, <2>7
<1>9. UartTypes'
  <2>1. dataQueue' \in Seq(TtLines) /\ isrData' \in TtLines \union {NULL} /\ tail' \in Nat
    <3> HIDE DEF line
    <3>1. Append(dataQueue, line) \in Seq(TtLines)
      BY <1>0, <1>6, AppendProperties
    <3> QED
      BY <1>0, <1>1, <1>6, <3>1
  <2> QED
    BY <1>0, <1>1, <1>2, <1>7, <2>1 DEF UartTypes
<1>10. tail' > 0 <=> isrData' # NULL
  <2>1. line # NULL
    BY <1>6, <1>n
  <2> HIDE DEF line
  <2> QED
    BY <1>0, <1>1, <2>1
<1> QED
  BY <1>1, <1>2, <1>3, <1>7, <1>8, <1>9, <1>10 DEF UartHolds, TtOk, Clearing

LEMMA UartInvIsKept == UartInv /\ [TtNext]_ttVars => UartInv'
<1> SUFFICES ASSUME UartInv, [TtNext]_ttVars, ~ttRaced'
             PROVE  UartTypes' /\ UartHolds'
  BY DEF UartInv
<1>1. ~ttRaced
  BY DEF TtNext, ttVars, TypedInterrupt, InterruptWithoutBuffer, LooksForData, GetsData, Processes, Recycles,
         PutsBack, GivesUp, FreesCached, ForgetsTail, ForgetsBuf, ForgetsData, CapturesTail, CapturesData, ttHistory
<1>2. UartTypes /\ UartHolds
  BY <1>1 DEF UartInv
<1>3. CASE \E n \in 1 .. TtLine, ends \in BOOLEAN : \E nul \in 0 .. n : TypedInterrupt(n, ends, nul)
  BY <1>2, <1>3, InterruptKeeps
<1>4. ~InterruptWithoutBuffer
  BY <1>2 DEF InterruptWithoutBuffer, UartHolds
<1>5. CASE \/ LooksForData \/ GetsData \/ Processes \/ Recycles \/ PutsBack \/ GivesUp
           \/ FreesCached \/ ForgetsTail \/ ForgetsBuf \/ ForgetsData \/ CapturesTail \/ CapturesData
  BY <1>2, <1>5, MainKeeps
<1>6. CASE UNCHANGED ttVars
  <2>1. UNCHANGED <<typed, avail, fifoSize, tail, bufSet, isrData, dataQueue, processDone, isrEnd, ttStep,
                    ttData, ttTaken, ttLost, ttRaced, ttFault>>
    BY <1>6 DEF ttVars
  <2>2. Stream' = Stream /\ Outstanding' = Outstanding
    BY <2>1 DEF Stream, Outstanding
  <2>3. UartTypes'
    BY <1>2, <2>1 DEF UartTypes
  <2> QED
    BY <1>2, <2>1, <2>2, <2>3 DEF UartHolds, TtOk, Clearing
<1> QED
  BY <1>2, <1>3, <1>4, <1>5, <1>6 DEF TtNext, UartHolds

LEMMA UartInvHolds == UartInv => TypedIsKept
<1> SUFFICES ASSUME UartTypes, UartHolds
             PROVE  ttTaken \o OrNone(ttData) \o FlattenSeq(dataQueue) \o OrNone(isrData) = [i \in 1..typed |-> i]
  BY DEF UartInv, TypedIsKept, UartHolds
<1> QED
  BY DEF UartHolds, Stream, UpTo

\* What was taken and what was given of it, whatever was raced.
GivenInv ==
  /\ typed \in Nat /\ dataQueue \in Seq(Seq(Nat))
  /\ isrData \in Seq(Nat) /\ ttData \in Seq(Nat) /\ ttTaken \in Seq(Nat)
  /\ TakenIsProcessed

LEMMA NoLineIs == NULL \in Seq(Nat) /\ <<>> \in Seq(Nat) /\ <<>> \in Seq(Seq(Nat))
  BY DEF NULL

LEMMA GivenBegins == TtInit => GivenInv
  BY NoLineIs DEF TtInit, GivenInv, TakenIsProcessed

LEMMA GivenIsKept == GivenInv /\ [TtNext]_ttVars => GivenInv'
<1> SUFFICES ASSUME GivenInv, [TtNext]_ttVars PROVE GivenInv'
  OBVIOUS
<1>0. /\ typed \in Nat /\ dataQueue \in Seq(Seq(Nat)) /\ isrData \in Seq(Nat) /\ ttData \in Seq(Nat)
      /\ ttTaken \in Seq(Nat) /\ TakenIsProcessed
  BY DEF GivenInv
<1>1. ASSUME UNCHANGED <<typed, nuls, ttGiven, dataQueue>>, isrData' \in {isrData, NULL},
             ttData' \in {ttData, NULL}
      PROVE  GivenInv'
  BY <1>0, <1>1, NoLineIs, Zenon DEF GivenInv, TakenIsProcessed, ttGiven
<1>2. ASSUME NEW n \in 1 .. TtLine, NEW ends \in BOOLEAN, NEW nul \in 0 .. n, TypedInterrupt(n, ends, nul)
      PROVE  GivenInv'
  <2> DEFINE more == [i \in 1 .. n |-> typed + i]
             old == IF tail = 0 THEN <<>> ELSE isrData
             line == old \o more
  <2>0. n \in Nat
    BY TtAssumption
  <2>1. typed' \in Nat /\ nuls \subseteq nuls' /\ UNCHANGED <<ttGiven, ttData>>
    BY <1>0, <1>2, <2>0 DEF TypedInterrupt
  <2>2. \/ dataQueue' = Append(dataQueue, line) /\ isrData' = NULL
        \/ isrData' = line /\ dataQueue' = dataQueue
    BY <1>2 DEF TypedInterrupt
  <2>3. more \in Seq(Nat) /\ old \in Seq(Nat)
    BY <1>0, <2>0, NoLineIs
  <2> HIDE DEF more, old
  <2>4. line \in Seq(Nat)
    BY <2>3, ConcatProperties
  <2> HIDE DEF line
  <2>5. Append(dataQueue, line) \in Seq(Seq(Nat))
    BY <1>0, <2>4, AppendProperties
  <2>6. TakenIsProcessed'
    BY <1>0, <2>1 DEF TakenIsProcessed, ttGiven
  <2> QED
    BY <1>0, <2>1, <2>2, <2>4, <2>5, <2>6, NoLineIs, Zenon DEF GivenInv, ttGiven
<1>3. CASE InterruptWithoutBuffer
  <2>1. typed' \in Nat /\ dataQueue' = <<>> /\ isrData' = NULL /\ ttData' = NULL
    BY <1>3, TtAssumption DEF InterruptWithoutBuffer
  <2>2. ttTaken' = <<>> /\ ttProcessed' = <<>>
    BY <1>3 DEF InterruptWithoutBuffer
  <2> QED
    BY <2>1, <2>2, NoLineIs DEF GivenInv, TakenIsProcessed
<1>4. CASE GetsData
  <2>1. UNCHANGED <<typed, nuls, ttGiven, isrData>>
    BY <1>4 DEF GetsData, isrVars, ttHistory
  <2>2. CASE dataQueue = <<>>
    BY <1>1, <1>4, <2>1, <2>2 DEF GetsData
  <2>3. CASE dataQueue # <<>>
    <3>1. ttData' = Head(dataQueue) /\ dataQueue' = Tail(dataQueue)
      BY <1>4, <2>3 DEF GetsData
    <3>2. Head(dataQueue) \in Seq(Nat) /\ Tail(dataQueue) \in Seq(Seq(Nat))
      BY <1>0, <2>3, HeadTailProperties
    <3> QED
      BY <1>0, <2>1, <3>1, <3>2, Zenon DEF GivenInv, TakenIsProcessed, ttGiven
  <2> QED
    BY <2>2, <2>3
<1>5. CASE Processes
  <2> DEFINE a == ttTaken
             b == ttData
             all == a \o b
  <2>1. /\ ttTaken' = all /\ ttProcessed' = ttProcessed \o Text(b) /\ ttData' = <<>>
        /\ UNCHANGED <<typed, nuls, isrData, dataQueue>>
    BY <1>5 DEF Processes, isrVars
  <2>2. a \in Seq(Nat) /\ b \in Seq(Nat)
    BY <1>0
  <2> HIDE DEF a, b
  <2>3. /\ all \in Seq(Nat) /\ Len(all) = Len(a) + Len(b) /\ Len(a) \in Nat /\ Len(b) \in Nat
        /\ \A i \in 1 .. Len(a) + Len(b) : all[i] = IF i <= Len(a) THEN a[i] ELSE b[i - Len(a)]
    BY ONLY <2>2, ConcatProperties, LenProperties
  <2> HIDE DEF all
  <2>4. ASSUME \A i \in DOMAIN all : all[i] \notin nuls
        PROVE  ttProcessed' = all
    <3>1. DOMAIN all = 1 .. Len(a) + Len(b) /\ DOMAIN a = 1 .. Len(a) /\ DOMAIN b = 1 .. Len(b)
      BY <2>2, <2>3, LenProperties
    <3>2. \A i \in 1 .. Len(a) : all[i] = a[i]
      BY ONLY <2>3
    <3>3. \A i \in DOMAIN a : a[i] \notin nuls
      <4>1. \A i \in 1 .. Len(a) : i \in 1 .. Len(a) + Len(b)
        BY <2>3
      <4> QED
        BY <2>4, <3>1, <3>2, <4>1
    <3>4. ttProcessed = a
      BY <1>0, <3>3 DEF TakenIsProcessed, a
    <3>5. {i \in DOMAIN b : b[i] \in nuls} = {}
      <4> SUFFICES ASSUME NEW i \in 1 .. Len(b) PROVE b[i] \notin nuls
        BY <3>1
      <4>1. /\ Len(a) + i \in 1 .. Len(a) + Len(b) /\ ~(Len(a) + i <= Len(a))
            /\ (Len(a) + i) - Len(a) = i
        BY <2>3
      <4>2. all[Len(a) + i] = b[(Len(a) + i) - Len(a)]
        BY <2>3, <4>1
      <4> QED
        BY <2>4, <3>1, <4>1, <4>2
    <3>6. Text(b) = b
      BY <3>5 DEF Text
    <3> QED
      BY <2>1, <3>4, <3>6 DEF all
  <2>5. TakenIsProcessed'
    BY <2>1, <2>4 DEF TakenIsProcessed
  <2> QED
    BY <1>0, <2>1, <2>3, <2>5, NoLineIs DEF GivenInv
<1>6. CASE \/ LooksForData \/ Recycles \/ PutsBack \/ GivesUp
           \/ FreesCached \/ ForgetsTail \/ ForgetsBuf \/ ForgetsData \/ CapturesTail \/ CapturesData
  <2>1. /\ UNCHANGED <<typed, nuls, ttGiven, dataQueue>> /\ isrData' \in {isrData, NULL}
        /\ ttData' \in {ttData, NULL}
    BY <1>6 DEF LooksForData, Recycles, PutsBack, GivesUp, FreesCached, ForgetsTail, ForgetsBuf, ForgetsData,
                CapturesTail, CapturesData, isrVars, ttHistory
  <2> QED
    BY <1>1, <2>1
<1>7. CASE UNCHANGED ttVars
  BY <1>1, <1>7 DEF ttVars, ttGiven
<1> QED
  BY <1>2, <1>3, <1>4, <1>5, <1>6, <1>7 DEF TtNext

-----------------------------------------------------------------------------
(***************************************************************************)
(* The terminal's lines (module TermLine).                                 *)
(***************************************************************************)
Chars == Nat \ {0}

\* The part of the buffer that is the line, and the place that is left.
LineIn(line, b, a) == \A i \in 1..(Len(b) + Len(a)) : line[i - 1] = (b \o a)[i]
LineHolds ==
  /\ cur = Len(before) /\ end = Len(after) /\ cur + end < TlMax
  /\ LineIn(shellLine, before, after)

\* The editor's buffer, with what was typed: characters are never the 0 that ends a line.
LineInv ==
  /\ keys \in Nat
  /\ before \in Seq(Chars) /\ after \in Seq(Chars)
  /\ shellLine \in [0..(TlMax - 1) -> Int]
  /\ LineHolds
  /\ fileCode = captured \/ fileCode = NoFile \/ fileFull

LEMMA SplitAt ==
  ASSUME NEW S, NEW s, s \in Seq(S), NEW n \in 0 .. Len(s)
  PROVE  /\ SubSeq(s, 1, n) \in Seq(S) /\ Len(SubSeq(s, 1, n)) = n
         /\ SubSeq(s, n + 1, Len(s)) \in Seq(S) /\ Len(SubSeq(s, n + 1, Len(s))) = Len(s) - n
         /\ SubSeq(s, 1, n) \o SubSeq(s, n + 1, Len(s)) = s
<1> DEFINE a == SubSeq(s, 1, n)
           b == SubSeq(s, n + 1, Len(s))
<1>1. Len(s) \in Nat /\ \A i \in 1 .. Len(s) : s[i] \in S
  BY LenProperties
<1>2. a \in Seq(S) /\ Len(a) = n
  <2>1. n \in Nat /\ \A i \in 1 .. n : s[i] \in S
    BY <1>1
  <2>2. a \in Seq(S) /\ Len(a) = IF 1 <= n THEN n - 1 + 1 ELSE 0
    BY <2>1, SubSeqProperties
  <2> QED
    BY <2>1, <2>2
<1>3. b \in Seq(S) /\ Len(b) = Len(s) - n
  <2>1. n + 1 \in Nat /\ \A i \in n + 1 .. Len(s) : s[i] \in S
    BY <1>1
  <2>2. b \in Seq(S) /\ Len(b) = IF n + 1 <= Len(s) THEN Len(s) - (n + 1) + 1 ELSE 0
    BY <1>1, <2>1, SubSeqProperties
  <2> HIDE DEF b
  <2>3. n + 1 <= Len(s) <=> n # Len(s)
    BY <1>1
  <2> QED
    BY ONLY <1>1, <2>1, <2>2, <2>3
<1>4. a \o b = s
  <2>1. SubSeq(s, 1, Len(s)) = s
    BY SubSeqFull
  <2>2. SubSeq(s, 1, n) \o SubSeq(s, n + 1, Len(s)) = SubSeq(s, 1, Len(s))
    <3>1. 1 \in 1 .. Len(s) + 1 /\ n \in 1 - 1 .. Len(s) /\ Len(s) \in n .. Len(s)
      BY <1>1
    <3> QED
      BY <3>1, ConcatAdjacentSubSeq, Zenon
  <2> QED
    BY <2>1, <2>2, Zenon
<1> QED
  BY <1>2, <1>3, <1>4

LEMMA ChangedLine ==
  ASSUME NEW line, line \in [0..(TlMax - 1) -> Int], NEW i, NEW c, c \in Int
  PROVE  [line EXCEPT ![i] = c] \in [0..(TlMax - 1) -> Int]
  OBVIOUS

LEMMA LineBegins == TlInit => LineInv
<1>1. EmptyLine \in [0..(TlMax - 1) -> Int] /\ 1 .. 0 + 0 = {}
  BY DEF EmptyLine
<1> QED
  BY <1>1, TlAssumption, EmptySeq DEF TlInit, LineInv, LineHolds, LineIn

\* A line in the buffer, when a character is inserted or deleted at the cursor.
LEMMA InsertedLine ==
  ASSUME NEW b \in Seq(Chars), NEW a \in Seq(Chars), NEW c \in Chars,
         NEW line \in [0..(TlMax - 1) -> Int],
         LineIn(line, b, a), Len(b) + Len(a) < TlMax - 1
  PROVE  /\ Inserted(line, Len(b), c, Len(a)) \in [0..(TlMax - 1) -> Int]
         /\ LineIn(Inserted(line, Len(b), c, Len(a)), Append(b, c), a)
         /\ Append(b, c) \in Seq(Chars) /\ Len(Append(b, c)) = Len(b) + 1
<1> DEFINE m == Len(b)
           n == Len(a)
           w == b \o a
           b2 == Append(b, c)
           w2 == b2 \o a
           new == Inserted(line, m, c, n)
<1>1. m \in Nat /\ n \in Nat /\ TlMax \in Nat \ {0} /\ m + n < TlMax - 1
  BY TlAssumption, LenProperties
<1>2. /\ b2 \in Seq(Chars) /\ Len(b2) = m + 1
      /\ \A i \in 1 .. m : b2[i] = b[i]
      /\ b2[m + 1] = c
  BY AppendProperties
<1>3. \A i \in 1 .. m + n : w[i] = IF i <= m THEN b[i] ELSE a[i - m]
  BY ConcatIs
<1>4. \A i \in 1 .. (m + 1) + n : w2[i] = IF i <= m + 1 THEN b2[i] ELSE a[i - (m + 1)]
  <2> HIDE DEF b2
  <2> QED
    BY <1>2, ConcatIs
<1>5. \A i \in 0..(TlMax - 1) :
        new[i] = IF i = m THEN c ELSE IF i > m /\ i <= m + n THEN line[i - 1] ELSE line[i]
  BY DEF Inserted
<1>6. new \in [0..(TlMax - 1) -> Int]
  <2>1. c \in Int
    BY DEF Chars
  <2> QED
    BY <1>1, <2>1 DEF Inserted
<1>7. \A i \in 1 .. m + n : line[i - 1] = w[i]
  BY DEF LineIn
<1> HIDE DEF m, n, w, b2, w2, new
<1>8. \A i \in 1 .. (m + 1) + n : new[i - 1] = w2[i]
  <2> SUFFICES ASSUME NEW i \in 1 .. (m + 1) + n
               PROVE  new[i - 1] = w2[i]
    OBVIOUS
  <2>1. i - 1 \in 0..(TlMax - 1) /\ i \in Nat
    BY <1>1
  <2>2. CASE i = m + 1
    <3>1. new[i - 1] = c
      BY <1>1, <1>5, <2>1, <2>2
    <3>0. m + 1 \in 1 .. (m + 1) + n /\ m + 1 <= m + 1
      BY <1>1
    <3>2. w2[i] = b2[m + 1]
      BY ONLY <1>4, <2>2, <3>0
    <3> QED
      BY <1>2, <3>1, <3>2
  <2>3. CASE i <= m
    <3>0. i \in 1 .. m /\ i \in 1 .. m + n /\ i - 1 # m /\ ~(i - 1 > m)
      BY <1>1, <2>1, <2>3
    <3>1. new[i - 1] = line[i - 1]
      BY ONLY <1>5, <2>1, <3>0
    <3>2. line[i - 1] = w[i]
      BY ONLY <1>7, <3>0
    <3>3. w[i] = b[i] /\ w2[i] = b2[i]
      BY <1>1, <1>3, <1>4, <3>0
    <3>4. b2[i] = b[i]
      BY ONLY <1>2, <3>0
    <3> QED
      BY <3>1, <3>2, <3>3, <3>4
  <2>4. CASE i > m + 1
    <3> DEFINE j == i - 1
    <3>0. j \in 1 .. m + n /\ j # m /\ j > m /\ j <= m + n /\ ~(j <= m) /\ ~(i <= m + 1)
          /\ j - m = i - (m + 1) /\ j = i - 1
      BY <1>1, <2>1, <2>4
    <3> HIDE DEF j
    <3>1. new[j] = line[j - 1]
      BY <1>5, <2>1, <3>0
    <3>2. line[j - 1] = w[j]
      BY <1>7, <3>0
    <3>3. w[j] = a[j - m]
      BY <1>3, <3>0
    <3>4. w2[i] = a[i - (m + 1)]
      BY <1>4, <3>0
    <3> QED
      BY <3>0, <3>1, <3>2, <3>3, <3>4
  <2> QED
    BY ONLY <1>1, <2>1, <2>2, <2>3, <2>4
<1>9. LineIn(new, b2, a)
  BY <1>2, <1>8 DEF LineIn, w2, n
<1> QED
  BY <1>2, <1>6, <1>9 DEF new, b2, m, n

LEMMA DeletedLine ==
  ASSUME NEW b \in Seq(Chars), NEW a \in Seq(Chars), b # <<>>,
         NEW line \in [0..(TlMax - 1) -> Int],
         LineIn(line, b, a), Len(b) + Len(a) < TlMax
  PROVE  /\ Deleted(line, Len(b) - 1, Len(a)) \in [0..(TlMax - 1) -> Int]
         /\ LineIn(Deleted(line, Len(b) - 1, Len(a)), Front(b), a)
         /\ Front(b) \in Seq(Chars) /\ Len(Front(b)) = Len(b) - 1
<1> DEFINE m == Len(b)
           n == Len(a)
           w == b \o a
           b2 == Front(b)
           w2 == b2 \o a
           new == Deleted(line, m - 1, n)
<1>1. m \in Nat \ {0} /\ n \in Nat /\ TlMax \in Nat \ {0} /\ m + n < TlMax
  BY TlAssumption, LenProperties, EmptySeq
<1>2. /\ b2 \in Seq(Chars) /\ Len(b2) = m - 1
      /\ \A i \in 1 .. m - 1 : b2[i] = b[i]
  <2>1. m - 1 \in 0 .. Len(b)
    BY <1>1
  <2>2. \A i \in 1 .. m - 1 : b[i] \in Chars
    BY <1>1, ElementOfSeq
  <2>3. /\ b2 \in Seq(Chars)
        /\ Len(b2) = IF 1 <= m - 1 THEN (m - 1) - 1 + 1 ELSE 0
        /\ \A i \in 1 .. (m - 1) - 1 + 1 : b2[i] = b[1 + i - 1]
    BY <1>1, <2>2, SubSeqProperties DEF Front
  <2> HIDE DEF m, b2
  <2>4. \A i \in 1 .. m - 1 : i \in 1 .. (m - 1) - 1 + 1 /\ 1 + i - 1 = i
    BY <1>1
  <2>5. \A i \in 1 .. m - 1 : b2[i] = b[i]
    BY <2>3, <2>4
  <2> QED
    BY <1>1, <2>3, <2>5
<1>3. \A i \in 1 .. m + n : w[i] = IF i <= m THEN b[i] ELSE a[i - m]
  BY ConcatIs
<1>4. \A i \in 1 .. (m - 1) + n : w2[i] = IF i <= m - 1 THEN b2[i] ELSE a[i - (m - 1)]
  <2> HIDE DEF b2
  <2> QED
    BY <1>2, ConcatIs
<1>5. \A i \in 0..(TlMax - 1) :
        new[i] = IF i >= m - 1 /\ i < m - 1 + n THEN line[i + 1] ELSE line[i]
  BY DEF Deleted
<1>6. new \in [0..(TlMax - 1) -> Int]
  BY <1>1 DEF Deleted
<1>7. \A i \in 1 .. m + n : line[i - 1] = w[i]
  BY DEF LineIn
<1> HIDE DEF m, n, w, b2, w2, new
<1>8. \A i \in 1 .. (m - 1) + n : new[i - 1] = w2[i]
  <2> SUFFICES ASSUME NEW i \in 1 .. (m - 1) + n
               PROVE  new[i - 1] = w2[i]
    OBVIOUS
  <2>1. i - 1 \in 0..(TlMax - 1) /\ i \in Nat
    BY <1>1
  <2>3. CASE i <= m - 1
    <3>0. i \in 1 .. m - 1 /\ i \in 1 .. m + n /\ ~(i - 1 >= m - 1) /\ i <= m
      BY <1>1, <2>1, <2>3
    <3>1. new[i - 1] = line[i - 1]
      BY ONLY <1>5, <2>1, <3>0
    <3>2. line[i - 1] = w[i]
      BY ONLY <1>7, <3>0
    <3>3. w[i] = b[i] /\ w2[i] = b2[i]
      BY <1>1, <1>3, <1>4, <3>0
    <3>4. b2[i] = b[i]
      BY ONLY <1>2, <3>0
    <3> QED
      BY <3>1, <3>2, <3>3, <3>4
  <2>4. CASE i > m - 1
    <3> DEFINE j == i + 1
    <3>0. j \in 1 .. m + n /\ ~(j <= m) /\ ~(i <= m - 1) /\ i - 1 >= m - 1 /\ i - 1 < m - 1 + n
          /\ j - m = i - (m - 1) /\ j - 1 = (i - 1) + 1 /\ j - 1 = i
      BY <1>1, <2>1, <2>4
    <3> HIDE DEF j
    <3>1. new[i - 1] = line[j - 1]
      BY <1>5, <2>1, <3>0
    <3>2. line[j - 1] = w[j]
      BY <1>7, <3>0
    <3>3. w[j] = a[j - m]
      BY <1>3, <3>0
    <3>4. w2[i] = a[i - (m - 1)]
      BY <1>4, <3>0
    <3> QED
      BY <3>0, <3>1, <3>2, <3>3, <3>4
  <2> QED
    BY <1>1, <2>1, <2>3, <2>4
<1>9. LineIn(new, b2, a)
  BY <1>2, <1>8 DEF LineIn, w2, n
<1> QED
  BY <1>2, <1>6, <1>9 DEF new, b2, m, n

\* What the editor's invariant says of the line, and what a key leaves alone.
LEMMA LineFacts ==
  ASSUME LineInv
  PROVE  /\ keys \in Nat /\ before \in Seq(Chars) /\ after \in Seq(Chars)
         /\ shellLine \in [0..(TlMax - 1) -> Int] /\ LineIn(shellLine, before, after)
         /\ cur = Len(before) /\ end = Len(after) /\ cur \in Nat /\ end \in Nat
         /\ TlMax \in Nat \ {0} /\ cur + end < TlMax
         /\ Len(before) + Len(after) < TlMax
  BY TlAssumption, LenProperties DEF LineInv, LineHolds

\* A character goes into the buffer where the cursor is.
LEMMA TypeCharKeepsLine ==
  ASSUME LineInv, TypeChar
  PROVE  LineInv'
<1>1. keys' \in Nat /\ (fileCode = captured \/ fileCode = NoFile \/ fileFull)'
  BY DEF LineInv, TypeChar, Key, modeVars
<1>2. CASE cur + end < TlMax - 1
  <2>1. keys + 1 \in Chars /\ Len(before) + Len(after) < TlMax - 1
    BY <1>2, LineFacts DEF Chars
  <2>2. /\ shellLine' = Inserted(shellLine, Len(before), keys + 1, Len(after))
        /\ before' = Append(before, keys + 1) /\ after' = after /\ cur' = cur + 1 /\ end' = end
    BY <1>2, LineFacts DEF TypeChar
  <2>3. /\ shellLine' \in [0..(TlMax - 1) -> Int] /\ LineIn(shellLine', before', after)
        /\ before' \in Seq(Chars) /\ Len(before') = Len(before) + 1
    BY <2>1, <2>2, LineFacts, InsertedLine
  <2>4. cur' + end' < TlMax
    BY <1>2, <2>2, LineFacts
  <2> QED
    BY <1>1, <2>2, <2>3, <2>4, LineFacts DEF LineInv, LineHolds
<1>3. CASE ~(cur + end < TlMax - 1)
  BY <1>1, <1>3 DEF LineInv, LineHolds, TypeChar
<1> QED
  BY <1>2, <1>3

\* The character before the cursor goes, and the rest moves down.
LEMMA BackspaceKeepsLine ==
  ASSUME LineInv, Backspace
  PROVE  LineInv'
<1>1. keys' \in Nat /\ (fileCode = captured \/ fileCode = NoFile \/ fileFull)'
  BY DEF LineInv, Backspace, Key, modeVars
<1>2. before # <<>> /\ cur > 0
  BY LineFacts, EmptySeq DEF Backspace
<1>3. /\ shellLine' = Deleted(shellLine, Len(before) - 1, Len(after))
      /\ before' = Front(before) /\ after' = after /\ cur' = cur - 1 /\ end' = end
  BY LineFacts DEF Backspace
<1>4. /\ shellLine' \in [0..(TlMax - 1) -> Int] /\ LineIn(shellLine', before', after)
      /\ before' \in Seq(Chars) /\ Len(before') = Len(before) - 1
  BY <1>2, <1>3, LineFacts, DeletedLine
<1>5. cur' + end' < TlMax
  BY <1>2, <1>3, LineFacts
<1> QED
  BY <1>1, <1>3, <1>4, <1>5, LineFacts DEF LineInv, LineHolds

\* The cursor moves: the line does not change.
LEMMA MovedLine ==
  ASSUME NEW b, NEW a, NEW b2, NEW a2, b2 \o a2 = b \o a, Len(b2) + Len(a2) = Len(b) + Len(a),
         NEW line, LineIn(line, b, a)
  PROVE  LineIn(line, b2, a2)
  BY DEF LineIn

LEMMA CursorKeepsLine ==
  ASSUME LineInv, NEW n \in 1..2, CursorLeft(n) \/ CursorRight(n)
  PROVE  LineInv'
<1>1. /\ keys' \in Nat /\ (fileCode = captured \/ fileCode = NoFile \/ fileFull)' /\ shellLine' = shellLine
  BY DEF LineInv, CursorLeft, CursorRight, Key, modeVars
<1>0. /\ before \in Seq(Chars) /\ after \in Seq(Chars)
      /\ cur = Len(before) /\ end = Len(after) /\ cur \in Nat /\ end \in Nat
      /\ TlMax \in Nat \ {0} /\ cur + end < TlMax
  BY LineFacts
<1>a. shellLine \in [0..(TlMax - 1) -> Int] /\ LineIn(shellLine, before, after)
  BY LineFacts
<1>2. CASE CursorLeft(n)
  <2> DEFINE k == cur - n
             a == SubSeq(before, 1, k)
             b == SubSeq(before, k + 1, Len(before))
  <2>1. n <= cur /\ k \in 0 .. Len(before)
    BY <1>0, <1>2 DEF CursorLeft
  <2>2. before' = a /\ after' = b \o after /\ cur' = k /\ end' = end + n
    BY <1>0, <1>2 DEF CursorLeft
  <2>8. k = cur - n
    OBVIOUS
  <2> HIDE DEF k
  <2>3. /\ a \in Seq(Chars) /\ Len(a) = k
        /\ b \in Seq(Chars) /\ Len(b) = Len(before) - k
        /\ a \o b = before
    BY <1>0, <2>1, SplitAt
  <2> HIDE DEF a, b
  <2>4. after' \in Seq(Chars) /\ Len(after') = Len(b) + Len(after)
    BY <1>0, <2>2, <2>3, ConcatProperties
  <2>5. before' \o after' = before \o after
    <3>1. a \o (b \o after) = (a \o b) \o after
      <4>1. after \in Seq(Chars) /\ a \in Seq(Chars) /\ b \in Seq(Chars)
        BY <1>0, <2>3
      <4> QED
        BY ONLY <4>1, Concat3
    <3> QED
      BY ONLY <3>1, <2>2, <2>3
  <2>6. /\ end' = Len(after') /\ cur' = Len(before')
        /\ Len(before') + Len(after') = Len(before) + Len(after) /\ cur' + end' < TlMax
    BY ONLY <1>0, <2>1, <2>2, <2>3, <2>4, <2>8, n \in 1..2
  <2>7. LineIn(shellLine, before', after')
    BY ONLY <2>5, <2>6, <1>a, MovedLine
  <2> QED
    BY <1>1, <1>a, <2>2, <2>3, <2>4, <2>6, <2>7 DEF LineInv, LineHolds
<1>3. CASE CursorRight(n)
  <2> DEFINE a == SubSeq(after, 1, n)
             b == SubSeq(after, n + 1, Len(after))
  <2>1. n <= end /\ n \in 0 .. Len(after)
    BY <1>0, <1>3 DEF CursorRight
  <2>2. before' = before \o a /\ after' = b /\ cur' = cur + n /\ end' = end - n
    BY <1>0, <1>3 DEF CursorRight
  <2>3. /\ a \in Seq(Chars) /\ Len(a) = n
        /\ b \in Seq(Chars) /\ Len(b) = Len(after) - n
        /\ a \o b = after
    <3>1. after \in Seq(Chars) /\ n \in 0 .. Len(after)
      BY <1>0, <2>1
    <3> QED
      BY ONLY <3>1, SplitAt
  <2> HIDE DEF a, b
  <2>4. before' \in Seq(Chars) /\ Len(before') = Len(before) + Len(a)
    BY <1>0, <2>2, <2>3, ConcatProperties
  <2>5. before' \o after' = before \o after
    <3>1. before \o (a \o b) = (before \o a) \o b
      <4>1. before \in Seq(Chars) /\ a \in Seq(Chars) /\ b \in Seq(Chars)
        BY <1>0, <2>3
      <4> QED
        BY ONLY <4>1, Concat3
    <3> QED
      BY ONLY <3>1, <2>2, <2>3
  <2>6. /\ end' = Len(after') /\ cur' = Len(before')
        /\ Len(before') + Len(after') = Len(before) + Len(after) /\ cur' + end' < TlMax
    BY ONLY <1>0, <2>1, <2>2, <2>3, <2>4, n \in 1..2
  <2>7. LineIn(shellLine, before', after')
    BY ONLY <2>5, <2>6, <1>a, MovedLine
  <2> QED
    BY <1>1, <1>a, <2>2, <2>3, <2>4, <2>6, <2>7 DEF LineInv, LineHolds
<1> QED
  BY <1>2, <1>3

LEMMA LineFreedKeepsLine ==
  ASSUME LineInv, LineFreed
  PROVE  LineInv'
<1>1. shellLine' \in [0..(TlMax - 1) -> Int]
  BY DEF LineFreed, EmptyLine
<1>2. 1..(Len(before) + Len(after)) = {} /\ before' = before /\ after' = after
  BY LineFacts DEF LineFreed
<1>3. LineIn(shellLine', before', after')
  BY <1>2 DEF LineIn
<1> QED
  BY <1>1, <1>3 DEF LineInv, LineHolds, LineFreed, modeVars

\* A buffer whose first n places are not 0 holds the string of these n characters.
LEMMA LineIs ==
  ASSUME NEW n \in Nat, NEW buffer, \A i \in 0 .. n - 1 : buffer[i] # 0
  PROVE  Line(buffer, n) = [i \in 1..n |-> buffer[i - 1]]
<1> DEFINE ends == {i \in 0..n : i = n \/ buffer[i] = 0}
           least == CHOOSE i \in ends : \A j \in ends : i <= j
<1>1. ends = {n}
  OBVIOUS
<1>2. least = n
  BY <1>1
<1> QED
  BY <1>2 DEF Line

\* What a finished line does leaves the file with what was edited.
LEMMA MainStateKeepsFile ==
  ASSUME fileCode = captured \/ fileCode = NoFile \/ fileFull,
         NEW line, MainState(line, line)
  PROVE  (fileCode = captured \/ fileCode = NoFile \/ fileFull)'
<1>1. CASE lineMode # "command"
  BY <1>1 DEF MainState, TakesLine
<1>2. CASE lineMode = "command" /\ line = <<>>
  BY <1>2 DEF MainState, modeVars
<1>3. CASE lineMode = "command" /\ line # <<>>
  BY <1>3 DEF MainState, Command, LoadHex, Load
<1> QED
  BY <1>1, <1>2, <1>3

\* After a line the next one begins.
LEMMA NextLine ==
  ASSUME keys' \in Nat, shellLine' \in [0..(TlMax - 1) -> Int], LineDone,
         (fileCode = captured \/ fileCode = NoFile \/ fileFull)'
  PROVE  LineInv'
<1>1. 1 .. 0 + 0 = {}
  OBVIOUS
<1> QED
  BY <1>1, TlAssumption, EmptySeq DEF LineInv, LineHolds, LineIn, LineDone

LEMMA EnterKeepsLine ==
  ASSUME LineInv, Enter
  PROVE  LineInv'
<1> DEFINE line == before \o after
           n == cur + end
<1>0. /\ before \in Seq(Chars) /\ after \in Seq(Chars) /\ keys \in Nat
      /\ cur = Len(before) /\ end = Len(after) /\ n \in Nat /\ n < TlMax
      /\ shellLine \in [0..(TlMax - 1) -> Int]
  BY LineFacts
<1>1. \A i \in 1 .. n : shellLine[i - 1] = line[i]
  BY <1>0, LineFacts DEF LineIn
<1>2. line \in Seq(Chars) /\ Len(line) = n
  BY <1>0, ConcatProperties
<1>3. line \in [1 .. n -> Chars]
  BY <1>2, LenProperties
<1> HIDE DEF line, n
<1>4. \A i \in 0 .. n - 1 : shellLine[i] # 0
  <2> SUFFICES ASSUME NEW i \in 0 .. n - 1 PROVE shellLine[i] # 0
    OBVIOUS
  <2>1. i + 1 \in 1 .. n /\ (i + 1) - 1 = i
    BY <1>0
  <2>2. line[i + 1] \in Chars
    BY <1>3, <2>1
  <2>3. shellLine[i] = line[i + 1]
    BY <1>1, <2>1
  <2> QED
    BY <2>2, <2>3 DEF Chars
<1>5. Line(shellLine, n) = line
  <2>1. line = [i \in 1..n |-> shellLine[i - 1]]
    BY <1>1, <1>3
  <2> QED
    BY <1>0, <1>4, <2>1, LineIs
<1>6. (fileCode = captured \/ fileCode = NoFile \/ fileFull)'
  <2>1. MainState(line, line)
    BY <1>5 DEF Enter, n, line
  <2>2. fileCode = captured \/ fileCode = NoFile \/ fileFull
    BY DEF LineInv
  <2> QED
    BY ONLY <2>1, <2>2, MainStateKeepsFile, Zenon
<1>7. shellLine' \in [0..(TlMax - 1) -> Int] /\ keys' \in Nat /\ LineDone
  <2>1. [shellLine EXCEPT ![cur + end] = 0] \in [0..(TlMax - 1) -> Int]
    BY ONLY <1>0, 0 \in Int, ChangedLine, Zenon
  <2> QED
    BY <1>0, <2>1 DEF Enter, Key
<1> QED
  BY <1>6, <1>7, NextLine

LEMMA ControlKeepsLine ==
  ASSUME LineInv, NEW c \in Controls, Control(c)
  PROVE  LineInv'
<1> DEFINE buffer == [shellLine EXCEPT ![cur] = c]
           line == Append(before, c)
           n == cur + 1
<1>0. /\ before \in Seq(Chars) /\ after \in Seq(Chars) /\ keys \in Nat
      /\ cur = Len(before) /\ end = Len(after) /\ TlMax \in Nat
      /\ shellLine \in [0..(TlMax - 1) -> Int]
  BY LineFacts
<1>1. cur \in Nat /\ cur < TlMax - 1 /\ end = 0 /\ c \in Int /\ c # 0
  BY LineFacts DEF Control, Controls, CtrlZ, CtrlX, CtrlA
<1>2. before \in Seq(Int)
  BY <1>0, SeqMonotonic DEF Chars
<1>3. /\ line \in Seq(Int) /\ Len(line) = n
      /\ \A i \in 1 .. cur : line[i] = before[i]
      /\ line[n] = c
  BY <1>0, <1>1, <1>2, AppendProperties
<1>4. \A i \in 1 .. cur : shellLine[i - 1] = before[i]
  <2>1. \A i \in 1 .. cur : (before \o after)[i] = before[i]
    BY <1>0, <1>1, ConcatProperties
  <2>2. \A i \in 1 .. cur : shellLine[i - 1] = (before \o after)[i]
    BY <1>0, <1>1, LineFacts DEF LineIn
  <2> QED
    BY <2>1, <2>2
<1>5. \A i \in 1 .. n : buffer[i - 1] = line[i]
  <2> SUFFICES ASSUME NEW i \in 1 .. n PROVE buffer[i - 1] = line[i]
    OBVIOUS
  <2>1. CASE i = n
    BY <2>1, <1>0, <1>1, <1>3
  <2>2. CASE i # n
    <3>1. i \in 1 .. cur /\ i - 1 # cur /\ i - 1 \in 0..(TlMax - 1)
      BY <1>0, <1>1, <2>2
    <3> QED
      BY <1>0, <1>3, <1>4, <3>1
  <2> QED
    BY <2>1, <2>2
<1>6. \A i \in 0 .. n - 1 : buffer[i] # 0
  <2> SUFFICES ASSUME NEW i \in 0 .. n - 1 PROVE buffer[i] # 0
    OBVIOUS
  <2>1. i + 1 \in 1 .. n /\ (i + 1) - 1 = i
    BY <1>1
  <2>2. buffer[i] = line[i + 1]
    <3> HIDE DEF buffer, line, n
    <3> QED
      BY <1>5, <2>1
  <2>3. CASE i = cur
    BY <1>1, <1>3, <2>2, <2>3
  <2>4. CASE i # cur
    <3>1. i + 1 \in 1 .. cur
      BY <1>1, <2>4
    <3>2. before[i + 1] \in Chars
      BY <1>0, <3>1, ElementOfSeq
    <3> QED
      BY <1>3, <2>2, <3>1, <3>2 DEF Chars
  <2> QED
    BY <2>3, <2>4
<1>7. line = [i \in 1..n |-> buffer[i - 1]]
  <2> HIDE DEF buffer
  <2>1. line \in [1 .. n -> Int]
    BY <1>3, LenProperties
  <2> HIDE DEF line, n
  <2> QED
    BY <2>1, <1>5
<1>8. Line(buffer, n) = line
  <2>1. n \in Nat
    BY <1>1
  <2> HIDE DEF buffer, line, n
  <2> QED
    BY <2>1, <1>6, <1>7, LineIs
<1>9. (fileCode = captured \/ fileCode = NoFile \/ fileFull)'
  <2>1. MainState(line, line)
    BY <1>8 DEF Control
  <2>2. fileCode = captured \/ fileCode = NoFile \/ fileFull
    BY DEF LineInv
  <2> HIDE DEF line
  <2> QED
    BY ONLY <2>1, <2>2, MainStateKeepsFile, Zenon
<1>10. shellLine' \in [0..(TlMax - 1) -> Int] /\ keys' \in Nat /\ LineDone
  <2> USE DEF Control, Key
  <2>1. keys' \in Nat /\ LineDone
    BY <1>0
  <2>2. [buffer EXCEPT ![cur + 1] = 0] \in [0..(TlMax - 1) -> Int]
    <3>1. buffer \in [0..(TlMax - 1) -> Int]
      BY <1>0, <1>1
    <3> QED
      BY ONLY <3>1, 0 \in Int, ChangedLine, Zenon
  <2>3. shellLine' = [buffer EXCEPT ![cur + 1] = 0]
    OBVIOUS
  <2> QED
    BY <2>1, <2>2, <2>3
<1> QED
  BY <1>9, <1>10, NextLine

LEMMA ControlInsideKeepsLine ==
  ASSUME LineInv, NEW c \in Controls, ControlInside(c)
  PROVE  LineInv'
<1>1. (fileCode = captured \/ fileCode = NoFile \/ fileFull)'
  BY MainStateKeepsFile DEF ControlInside, LineInv
<1>2. c \in Int
  BY DEF Controls, CtrlZ, CtrlX, CtrlA
<1>3. shellLine' \in [0..(TlMax - 1) -> Int] /\ keys' \in Nat /\ LineDone
  <2>1. shellLine \in [0..(TlMax - 1) -> Int] /\ keys \in Nat
    BY LineFacts
  <2> DEFINE line == [shellLine EXCEPT ![cur] = c]
  <2>3. line \in [0..(TlMax - 1) -> Int]
    BY <1>2, <2>1
  <2>2. [line EXCEPT ![cur + 1 + end] = 0] \in [0..(TlMax - 1) -> Int]
    <3> HIDE DEF line
    <3> QED
      BY ONLY <2>3, 0 \in Int, ChangedLine, Zenon
  <2> QED
    BY <2>1, <2>2 DEF ControlInside, Key
<1> QED
  BY <1>1, <1>3, NextLine

LEMMA LineFailsKeepsLine ==
  ASSUME LineInv, ControlOverflows \/ CaptureNoFile
  PROVE  LineInv'
<1>1. (fileCode = captured \/ fileCode = NoFile \/ fileFull)'
  BY DEF LineInv, ControlOverflows, CaptureNoFile, modeVars
<1>2. EmptyLine \in [0..(TlMax - 1) -> Int]
  BY TlAssumption DEF EmptyLine
<1>3. shellLine' = EmptyLine /\ keys' = TlKeys /\ LineDone
  BY DEF ControlOverflows, CaptureNoFile
<1> QED
  BY <1>1, <1>2, <1>3, NextLine, TlAssumption

LEMMA LineInvIsKept == LineInv /\ [TlNext]_tlVars => LineInv'
<1> SUFFICES ASSUME LineInv, [TlNext]_tlVars
             PROVE  LineInv'
  OBVIOUS
<1>1. CASE UNCHANGED tlVars
  BY <1>1 DEF tlVars, LineInv, LineHolds
<1>2. CASE TypeChar \/ Backspace \/ LineFreed \/ Enter
  BY <1>2, TypeCharKeepsLine, BackspaceKeepsLine, LineFreedKeepsLine, EnterKeepsLine
<1>3. CASE \E n \in 1..2 : CursorLeft(n) \/ CursorRight(n)
  BY <1>3, CursorKeepsLine
<1>4. CASE \E c \in Controls : Control(c) \/ ControlInside(c)
  BY <1>4, ControlKeepsLine, ControlInsideKeepsLine
<1>5. CASE ControlOverflows \/ CaptureNoFile
  BY <1>5, LineFailsKeepsLine
<1> QED
  BY <1>1, <1>2, <1>3, <1>4, <1>5 DEF TlNext

LEMMA LineInvHolds == LineInv => LinesAreAsEdited
  BY LineFacts DEF LineInv, LineIn, LinesAreAsEdited

-----------------------------------------------------------------------------
(***************************************************************************)
(* Sequences of successive numbers.                                        *)
(***************************************************************************)
\* A sequence of the numbers that follow f.
Numbers(s, f) == s \in Seq(Nat) /\ \A i \in 1 .. Len(s) : s[i] = f + i

LEMMA NoNumbers ==
  ASSUME NEW f \in Nat
  PROVE  Numbers(<<>>, f) /\ Len(<<>>) = 0
  BY DEF Numbers

LEMMA NumbersJoin ==
  ASSUME NEW f \in Nat, NEW a, NEW b, Numbers(a, f), Numbers(b, f + Len(a))
  PROVE  Numbers(a \o b, f) /\ Len(a \o b) = Len(a) + Len(b)
<1> DEFINE m == Len(a)
           n == Len(b)
           c == a \o b
<1>1. a \in Seq(Nat) /\ b \in Seq(Nat) /\ Len(a) = m /\ Len(b) = n
  BY DEF Numbers
<1>2. m \in Nat /\ n \in Nat
  BY <1>1, LenProperties
<1>3. (\A i \in 1 .. m : a[i] = f + i) /\ (\A i \in 1 .. n : b[i] = (f + m) + i)
  BY DEF Numbers
<1> HIDE DEF m, n
<1>4. c \in Seq(Nat) /\ Len(c) = m + n /\ \A i \in 1 .. m + n : c[i] = IF i <= m THEN a[i] ELSE b[i - m]
  BY ONLY <1>1, ConcatIs
<1> HIDE DEF c
<1>5. ASSUME NEW i \in 1 .. m + n PROVE c[i] = f + i
  <2>1. CASE i <= m
    <3>1. i \in 1 .. m
      BY <1>2, <2>1
    <3> QED
      BY <1>3, <1>4, <2>1, <3>1
  <2>2. CASE ~(i <= m)
    <3>1. i - m \in 1 .. n /\ (f + m) + (i - m) = f + i
      BY <1>2, <2>2
    <3>2. b[i - m] = (f + m) + (i - m)
      BY <1>3, <3>1
    <3> QED
      BY <1>4, <2>2, <3>1, <3>2
  <2> QED
    BY <2>1, <2>2
<1> QED
  BY <1>1, <1>4, <1>5 DEF Numbers, c

LEMMA NumbersPart ==
  ASSUME NEW f \in Nat, NEW s, Numbers(s, f), NEW k \in 0 .. Len(s)
  PROVE  /\ Numbers(SubSeq(s, 1, k), f) /\ Len(SubSeq(s, 1, k)) = k
         /\ Numbers(SubSeq(s, k + 1, Len(s)), f + k) /\ Len(SubSeq(s, k + 1, Len(s))) = Len(s) - k
<1> DEFINE a == SubSeq(s, 1, k)
           b == SubSeq(s, k + 1, Len(s))
           n == Len(s)
<1>1. s \in Seq(Nat) /\ n \in Nat /\ k \in Nat /\ k <= n /\ n = Len(s)
  BY LenProperties DEF Numbers
<1>2. \A i \in 1 .. n : s[i] \in Nat /\ s[i] = f + i
  BY <1>1 DEF Numbers
<1>3. a \in Seq(Nat) /\ Len(a) = k /\ \A i \in 1 .. k : a[i] = s[i]
  <2>1. \A i \in 1 .. k : s[i] \in Nat
    BY <1>1, <1>2
  <2>2. /\ a \in Seq(Nat) /\ Len(a) = IF 1 <= k THEN k - 1 + 1 ELSE 0
        /\ \A i \in 1 .. k - 1 + 1 : a[i] = s[1 + i - 1]
    BY <1>1, <2>1, SubSeqProperties
  <2> HIDE DEF a
  <2>3. \A i \in 1 .. k : i \in 1 .. k - 1 + 1 /\ 1 + i - 1 = i
    BY <1>1
  <2>4. k = IF 1 <= k THEN k - 1 + 1 ELSE 0
    BY <1>1
  <2> QED
    BY ONLY <2>2, <2>3, <2>4
<1>4. b \in Seq(Nat) /\ Len(b) = n - k /\ \A i \in 1 .. n - k : b[i] = s[k + i]
  <2>1. \A i \in k + 1 .. n : s[i] \in Nat
    BY <1>1, <1>2
  <2>2. /\ b \in Seq(Nat) /\ Len(b) = IF k + 1 <= n THEN n - (k + 1) + 1 ELSE 0
        /\ \A i \in 1 .. n - (k + 1) + 1 : b[i] = s[(k + 1) + i - 1]
    BY <1>1, <2>1, SubSeqProperties
  <2> HIDE DEF b, n
  <2>3. \A i \in 1 .. n - k : i \in 1 .. n - (k + 1) + 1 /\ (k + 1) + i - 1 = k + i
    BY <1>1
  <2>4. n - k = IF k + 1 <= n THEN n - (k + 1) + 1 ELSE 0
    BY <1>1
  <2> QED
    BY ONLY <2>2, <2>3, <2>4
<1>5. \A i \in 1 .. n - k : k + i \in 1 .. n /\ f + (k + i) = (f + k) + i
  BY <1>1
<1>6. \A i \in 1 .. k : i \in 1 .. n
  BY <1>1
<1>7. Numbers(a, f)
  <2> HIDE DEF a, n
  <2> QED
    BY ONLY <1>2, <1>3, <1>6 DEF Numbers
<1>8. Numbers(b, f + k)
  <2> HIDE DEF b, n
  <2> QED
    BY ONLY <1>2, <1>4, <1>5 DEF Numbers
<1> QED
  BY <1>3, <1>4, <1>7, <1>8

LEMMA NumbersAre ==
  ASSUME NEW s, Numbers(s, 0)
  PROVE  s = [i \in 1 .. Len(s) |-> i]
<1>1. s \in Seq(Nat) /\ \A i \in 1 .. Len(s) : s[i] = i
  BY DEF Numbers
<1>2. s = [i \in 1 .. Len(s) |-> s[i]]
  BY <1>1, SeqDef
<1> QED
  BY <1>1, <1>2

LEMMA NumbersFrom ==
  ASSUME NEW f \in Nat, NEW n \in Nat
  PROVE  Numbers([i \in 1 .. n |-> f + i], f) /\ Len([i \in 1 .. n |-> f + i]) = n
<1> DEFINE s == [i \in 1 .. n |-> f + i]
<1>1. s \in Seq(Nat) /\ Len(s) = n
  OBVIOUS
<1>2. \A i \in 1 .. n : s[i] = f + i
  OBVIOUS
<1> HIDE DEF s
<1>3. Numbers(s, f) /\ Len(s) = n
  BY <1>1, <1>2 DEF Numbers
<1> QED
  BY <1>3 DEF s

-----------------------------------------------------------------------------
(***************************************************************************)
(* The rings of WebUSB (module WebUsb).                                    *)
(***************************************************************************)
Places == 0 .. RINGMAX - 1
Ring == [buf : [Places -> Nat], read : Places, write : Places]
Dist(from, to) == (to + RINGMAX - from) % RINGMAX

\* The ring holds the numbers that follow f.
Carries(ring, f) == \A i \in 1 .. Used(ring) : ring.buf[(ring.read + i - 1) % RINGMAX] = f + i

\* Wrapping takes the size off an index that has passed the end.
Wrap(i) == i % RINGMAX

LEMMA Wrapped ==
  ASSUME NEW i \in 0 .. 2 * RINGMAX - 1
  PROVE  (i < RINGMAX => Wrap(i) = i) /\ (i >= RINGMAX => Wrap(i) = i - RINGMAX)
<1> USE UsbAssumption DEF Wrap
<1>1. i = RINGMAX * (i \div RINGMAX) + (i % RINGMAX)
  OBVIOUS
<1>2. PICK quotient \in Int : quotient = i \div RINGMAX
  OBVIOUS
<1>3. PICK rest \in 0 .. RINGMAX - 1 : rest = i % RINGMAX
  OBVIOUS
<1>4. quotient = IF i < RINGMAX THEN 0 ELSE 1
  <2>1. i = RINGMAX * quotient + rest
    BY <1>1, <1>2, <1>3
  <2>2. quotient >= 0
    BY <2>1
  <2>3. quotient < 2
    BY <2>1
  <2>4. quotient \in {0, 1}
    BY <2>2, <2>3
  <2> QED
    BY <2>1, <2>4
<1> QED
  BY <1>1, <1>2, <1>3, <1>4

LEMMA DistIs ==
  ASSUME NEW r \in Places, NEW w \in Places
  PROVE  Dist(r, w) = (IF w >= r THEN w - r ELSE w + RINGMAX - r) /\ Dist(r, w) \in Places
<1>1. w + RINGMAX - r \in 0 .. 2 * RINGMAX - 1
  BY UsbAssumption DEF Places
<1>2. Dist(r, w) = Wrap(w + RINGMAX - r)
  BY DEF Dist, Wrap
<1> QED
  BY <1>1, <1>2, Wrapped, UsbAssumption DEF Places

LEMMA UsedIs ==
  ASSUME NEW ring \in Ring
  PROVE  /\ Used(ring) = Dist(ring.read, ring.write) /\ Used(ring) \in Places
         /\ ring.read \in Places /\ ring.write \in Places
  BY DistIs DEF Ring, Used, Dist

\* The place of the i-th byte of a ring that is read from r on.
LEMMA PlaceIs ==
  ASSUME NEW r \in Places, NEW i \in 1 .. RINGMAX
  PROVE  /\ (r + i - 1) % RINGMAX = IF r + i - 1 < RINGMAX THEN r + i - 1 ELSE r + i - 1 - RINGMAX
         /\ (r + i - 1) % RINGMAX \in Places
<1>1. r + i - 1 \in 0 .. 2 * RINGMAX - 1
  BY UsbAssumption DEF Places
<1>2. Wrap(r + i - 1) = IF r + i - 1 < RINGMAX THEN r + i - 1 ELSE r + i - 1 - RINGMAX
  BY <1>1, Wrapped, UsbAssumption DEF Places
<1>3. Wrap(r + i - 1) \in Places
  BY <1>2, UsbAssumption DEF Places
<1> QED
  BY <1>2, <1>3 DEF Wrap

LEMMA RingsAre ==
  ASSUME NEW b \in [Places -> Nat], NEW r \in Places, NEW w \in Places
  PROVE  [buf |-> b, read |-> r, write |-> w] \in Ring
  BY DEF Ring

\* What is put after the numbers in a ring, in one piece and where there is room, goes on
\* with them.
Puts(old, new, ring, f, len) ==
  \A i \in Places : new[i] = IF i \in ring.write .. ring.write + len - 1
                             THEN f + Used(ring) + (i - ring.write) + 1 ELSE old[i]

LEMMA PutKeeps ==
  ASSUME NEW ring, ring \in Ring, NEW f \in Nat, Carries(ring, f),
         NEW len \in Nat, len <= RINGMAX - 1 - Used(ring), ring.write + len <= RINGMAX,
         NEW b \in [Places -> Nat], Puts(ring.buf, b, ring, f, len),
         NEW new, new = [buf |-> b, read |-> ring.read, write |-> (ring.write + len) % RINGMAX]
  PROVE  new \in Ring /\ Used(new) = Used(ring) + len /\ Carries(new, f)
<1> DEFINE r == ring.read
           w == ring.write
           u == Used(ring)
           w2 == (w + len) % RINGMAX
<1>1. r \in Places /\ w \in Places /\ u \in Places /\ u = IF w >= r THEN w - r ELSE w + RINGMAX - r
  BY UsedIs, DistIs
<1>3. len <= RINGMAX - 1 - u /\ w + len <= RINGMAX /\ RINGMAX \in Nat \ {0} /\ len \in Nat
  BY UsbAssumption
<1>a. w2 = Wrap(w + len)
  BY DEF Wrap
<1>2. w2 = IF w + len < RINGMAX THEN w + len ELSE 0
  <2> HIDE DEF w, w2, u, r
  <2>1. w + len \in 0 .. 2 * RINGMAX - 1
    BY ONLY <1>1, <1>3 DEF Places
  <2>2. Wrap(w + len) = IF w + len < RINGMAX THEN w + len ELSE w + len - RINGMAX
    BY <1>1, <2>1, Wrapped, UsbAssumption DEF Places
  <2> QED
    BY <1>1, <1>3, <1>a, <2>2 DEF Places
<1>4. new.buf = b /\ new.read = r /\ new.write = w2
  OBVIOUS
<1>5. \A i \in Places : b[i] = IF i \in w .. w + len - 1 THEN f + u + (i - w) + 1 ELSE ring.buf[i]
  BY DEF Puts
<1>6. \A i \in 1 .. u : ring.buf[(r + i - 1) % RINGMAX] = f + i
  BY DEF Carries
<1> HIDE DEF r, w, u, w2
<1>7. w2 \in Places
  BY <1>1, <1>2, <1>3 DEF Places
<1>8. new \in Ring
  BY <1>1, <1>7, RingsAre DEF r, w, w2
<1>9. Used(new) = u + len
  <2>0. Used(new) = Dist(r, w2)
    BY <1>4, <1>8, UsedIs
  <2>1. Used(new) = IF w2 >= r THEN w2 - r ELSE w2 + RINGMAX - r
    BY <1>1, <1>7, <2>0, DistIs
  <2>2. CASE w + len < RINGMAX
    BY ONLY <1>1, <1>2, <1>3, <2>1, <2>2 DEF Places
  <2>3. CASE w + len = RINGMAX
    <3>1. w >= r /\ r # 0 /\ w2 = 0
      BY ONLY <1>1, <1>2, <1>3, <2>3 DEF Places
    <3> QED
      BY ONLY <1>1, <1>3, <2>1, <2>3, <3>1 DEF Places
  <2> QED
    BY ONLY <1>1, <1>3, <2>2, <2>3 DEF Places
<1>10. ASSUME NEW i \in 1 .. u + len
       PROVE  b[(r + i - 1) % RINGMAX] = f + i
  <2> DEFINE p == (r + i - 1) % RINGMAX
  <2>1. i \in 1 .. RINGMAX
    BY <1>1, <1>3 DEF Places
  <2>2. p \in Places /\ p = IF r + i - 1 < RINGMAX THEN r + i - 1 ELSE r + i - 1 - RINGMAX
    BY <1>1, <2>1, PlaceIs
  <2>3. i \in 1 .. u => ring.buf[p] = f + i
    BY <1>6
  <2> HIDE DEF p
  <2>4. CASE i <= u
    <3>1. i \in 1 .. u /\ p \notin w .. w + len - 1
      BY <1>1, <1>3, <2>1, <2>2, <2>4 DEF Places
    <3>2. b[p] = f + i
      BY <1>5, <2>2, <2>3, <3>1
    <3> QED
      BY <3>2 DEF p
  <2>5. CASE i > u
    <3>1. p \in w .. w + len - 1 /\ u + (p - w) + 1 = i /\ p \in Int
      BY <1>1, <1>3, <2>1, <2>2, <2>5 DEF Places
    <3>2. b[p] = f + u + (p - w) + 1
      BY <1>5, <2>2, <3>1
    <3>3. f + u + (p - w) + 1 = f + i
      <4>1. u \in Int /\ w \in Int
        BY <1>1 DEF Places
      <4> QED
        BY <4>1, <3>1
    <3> QED
      BY <3>2, <3>3 DEF p
  <2> QED
    BY <1>1, <2>1, <2>4, <2>5 DEF Places
<1> QED
  <2>1. Used(new) = Used(ring) + len
    BY <1>9 DEF u
  <2>2. Carries(new, f)
    BY <1>4, <1>9, <1>10 DEF Carries
  <2> QED
    BY <1>8, <2>1, <2>2

\* What is left when some are taken goes on with those.
LEMMA TakeKeeps ==
  ASSUME NEW ring, ring \in Ring, NEW f \in Nat, NEW k \in 0 .. Used(ring),
         NEW new, new = [ring EXCEPT !.read = (ring.read + k) % RINGMAX]
  PROVE  new \in Ring /\ Used(new) = Used(ring) - k /\ (Carries(ring, f) => Carries(new, f + k))
<1> DEFINE r == ring.read
           w == ring.write
           u == Used(ring)
           r2 == (r + k) % RINGMAX
<1>1. r \in Places /\ w \in Places /\ u \in Places /\ u = IF w >= r THEN w - r ELSE w + RINGMAX - r
  BY UsedIs, DistIs
<1>2. k \in Nat /\ k <= u /\ RINGMAX \in Nat \ {0}
  BY <1>1, UsbAssumption DEF Places
<1>3. r2 = IF r + k < RINGMAX THEN r + k ELSE r + k - RINGMAX
  <2>1. r + k \in 0 .. 2 * RINGMAX - 1
    BY <1>1, <1>2 DEF Places
  <2>2. Wrap(r + k) = IF r + k < RINGMAX THEN r + k ELSE r + k - RINGMAX
    BY <1>1, <1>2, <2>1, Wrapped, UsbAssumption DEF Places
  <2> QED
    BY <2>2 DEF Wrap
<1>4. ring \in Ring /\ ring.buf \in [Places -> Nat]
  BY DEF Ring
<1>5. Carries(ring, f) => \A i \in 1 .. u : ring.buf[(r + i - 1) % RINGMAX] = f + i
  BY DEF Carries
<1> HIDE DEF r2, u
<1>6. r2 \in Places
  BY <1>1, <1>2, <1>3 DEF Places
<1>7. new = [buf |-> ring.buf, read |-> r2, write |-> w]
  BY <1>4 DEF Ring, r2
<1> HIDE DEF r, w
<1>8. new \in Ring /\ new.buf = ring.buf /\ new.read = r2 /\ new.write = w
  <2>1. new \in Ring
    <3> DEFINE b == ring.buf
    <3>1. b \in [Places -> Nat] /\ new = [buf |-> b, read |-> r2, write |-> w]
      BY <1>4, <1>7
    <3> HIDE DEF b
    <3> QED
      BY ONLY <1>1, <1>6, <3>1, RingsAre
  <2> QED
    BY <1>7, <2>1
<1>9. Used(new) = u - k
  <2>0. Used(new) = Dist(r2, w)
    BY <1>8, UsedIs
  <2>1. Used(new) = IF w >= r2 THEN w - r2 ELSE w + RINGMAX - r2
    BY <1>1, <1>6, <2>0, DistIs
  <2> QED
    BY <1>1, <1>2, <1>3, <2>1 DEF Places
<1>10. ASSUME Carries(ring, f), NEW i \in 1 .. u - k
       PROVE  ring.buf[(r2 + i - 1) % RINGMAX] = (f + k) + i
  <2> DEFINE p == (r2 + i - 1) % RINGMAX
             j == k + i
             q == (r + j - 1) % RINGMAX
  <2>1. i \in 1 .. RINGMAX /\ j \in 1 .. RINGMAX /\ j \in 1 .. u
    BY <1>1, <1>2 DEF Places
  <2>2. ring.buf[q] = f + j
    BY <1>5, <1>10, <2>1
  <2>4. p = IF r2 + i - 1 < RINGMAX THEN r2 + i - 1 ELSE r2 + i - 1 - RINGMAX
    BY <1>6, <2>1, PlaceIs
  <2>5. f + j = (f + k) + i /\ j = k + i
    BY <1>2
  <2> HIDE DEF j
  <2>3. q = IF r + j - 1 < RINGMAX THEN r + j - 1 ELSE r + j - 1 - RINGMAX
    BY <1>1, <2>1, PlaceIs
  <2> HIDE DEF p, q
  <2>6. p = q
    BY <1>1, <1>2, <1>3, <2>1, <2>3, <2>4, <2>5 DEF Places
  <2>7. ring.buf[p] = (f + k) + i
    BY <2>2, <2>5, <2>6
  <2> QED
    BY <2>7 DEF p
<1> QED
  <2>1. Used(new) = Used(ring) - k
    BY <1>9 DEF u
  <2>2. Carries(ring, f) => Carries(new, f + k)
    BY <1>8, <1>9, <1>10 DEF Carries
  <2> QED
    BY <1>8, <2>1, <2>2

LEMMA HeldAre ==
  ASSUME NEW ring, ring \in Ring, NEW f \in Nat, Carries(ring, f)
  PROVE  Numbers(Held(ring), f) /\ Len(Held(ring)) = Used(ring)
<1>1. Used(ring) \in Nat
  BY UsedIs, UsbAssumption DEF Places
<1>2. Held(ring) = [i \in 1 .. Used(ring) |-> f + i]
  BY DEF Held, Carries
<1> QED
  BY <1>1, <1>2, NumbersFrom

\* Sent are those that were held first.
LEMMA SentOn ==
  ASSUME NEW ring, ring \in Ring, NEW sent, Numbers(sent, 0), Len(sent) \in Nat, Carries(ring, Len(sent)),
         NEW k \in 0 .. Used(ring)
  PROVE  /\ Numbers(sent \o SubSeq(Held(ring), 1, k), 0)
         /\ Len(sent \o SubSeq(Held(ring), 1, k)) = Len(sent) + k
         /\ Carries([ring EXCEPT !.read = (ring.read + k) % RINGMAX], Len(sent) + k)
<1> DEFINE f == Len(sent)
           held == Held(ring)
           part == SubSeq(held, 1, k)
           new == [ring EXCEPT !.read = (ring.read + k) % RINGMAX]
<1>1. /\ f \in Nat /\ ring \in Ring /\ Carries(ring, f) /\ k \in 0 .. Used(ring)
      /\ new = [ring EXCEPT !.read = (ring.read + k) % RINGMAX]
  OBVIOUS
<1>2. Carries(new, f + k)
  <2> HIDE DEF f, new
  <2> QED
    BY ONLY <1>1, TakeKeeps
<1>3. Numbers(held, f) /\ Len(held) = Used(ring)
  <2> HIDE DEF f
  <2> QED
    BY ONLY <1>1, HeldAre
<1>4. Numbers(part, f) /\ Len(part) = k
  <2>1. f \in Nat /\ Numbers(held, f) /\ k \in 0 .. Len(held)
    BY <1>1, <1>3
  <2> HIDE DEF f, held
  <2> QED
    BY ONLY <2>1, NumbersPart
<1>5. Numbers(sent \o part, 0) /\ Len(sent \o part) = Len(sent) + Len(part)
  <2>1. Numbers(sent, 0) /\ Numbers(part, 0 + Len(sent)) /\ 0 \in Nat
    BY <1>4
  <2> HIDE DEF part
  <2> QED
    BY ONLY <2>1, NumbersJoin
<1> QED
  BY <1>2, <1>4, <1>5

LEMMA EmptyRingIs ==
  /\ EmptyRing \in Ring /\ Used(EmptyRing) = 0 /\ \A f \in Nat : Carries(EmptyRing, f)
  /\ Held(EmptyRing) = <<>>
<1>1. EmptyRing \in Ring
  BY UsbAssumption DEF EmptyRing, Ring, Places
<1>2. EmptyRing.read = 0 /\ EmptyRing.write = 0 /\ 0 \in Places
  BY UsbAssumption DEF EmptyRing, Places
<1>3. Used(EmptyRing) = 0
  BY <1>1, <1>2, UsedIs, DistIs
<1> QED
  BY <1>1, <1>3 DEF Carries, Held

-----------------------------------------------------------------------------
(***************************************************************************)
(* The invariant of the WebUSB channel.                                    *)
(***************************************************************************)
UsbTypes ==
  /\ tx \in Ring /\ rx \in Ring
  /\ txWritten \in Seq(Nat) /\ txWrapped \in BOOLEAN

\* What was written goes out; what came goes in.
Sends ==
  ~txWrapped =>
    /\ Numbers(txSent, 0) /\ Numbers(txWritten, 0) /\ Carries(tx, Len(txSent))
    /\ Len(txSent) + Used(tx) = Len(txWritten)
Receives ==
  /\ Numbers(rxGot, 0) /\ Carries(rx, Len(rxGot))
  /\ Numbers(uartIn, Len(rxGot) + Used(rx))

\* The indexes that main has read: the interrupt has sent since, or received.
Writes ==
  usbMain.do = "write" =>
    /\ usbMain.write = tx.write /\ usbMain.read \in Places /\ usbMain.n \in Nat \ {0}
    /\ Used(tx) <= Dist(usbMain.read, tx.write)
Reads ==
  usbMain.do = "read" =>
    usbMain.write \in Places /\ Dist(rx.read, usbMain.write) <= Used(rx)

WillSend == uartState = "ready" /\ Used(tx) > 0 => txOn \/ txEarly

UsbInv == UsbTypes /\ Sends /\ Receives /\ Writes /\ Reads /\ WillSend

\* Until events are deferred faster than they are read, the one that waits has bytes for
\* itself, and so has the one that main is reading.
Fresh ==
  ~rxCrowded =>
    /\ ~rxBlank /\ usbEvents \in {0, 1}
    /\ usbMain.do = "read" => usbMain.read = rx.read /\ usbMain.write # rx.read
    /\ usbEvents = 1 => Used(rx) > (IF usbMain.do = "read" THEN Dist(rx.read, usbMain.write) ELSE 0)

LEMMA UsbFacts ==
  ASSUME UsbInv
  PROVE  /\ tx \in Ring /\ rx \in Ring /\ Used(tx) \in Places /\ Used(rx) \in Places
         /\ tx.read \in Places /\ tx.write \in Places /\ rx.read \in Places /\ rx.write \in Places
         /\ RINGMAX \in Nat \ {0} /\ Used(tx) \in Nat /\ Used(rx) \in Nat
         /\ txWritten \in Seq(Nat) /\ Len(txWritten) \in Nat
         /\ Numbers(rxGot, 0) /\ Carries(rx, Len(rxGot)) /\ Numbers(uartIn, Len(rxGot) + Used(rx))
         /\ Len(rxGot) \in Nat /\ Len(uartIn) \in Nat
<1>1. Used(tx) \in Places /\ Used(rx) \in Places /\ tx.read \in Places /\ tx.write \in Places
      /\ rx.read \in Places /\ rx.write \in Places
  BY UsedIs DEF UsbInv, UsbTypes
<1>2. Places \subseteq Nat /\ RINGMAX \in Nat \ {0}
  BY UsbAssumption DEF Places
<1>3. Len(txWritten) \in Nat
  BY LenProperties DEF UsbInv, UsbTypes
<1>4. Len(rxGot) \in Nat /\ Len(uartIn) \in Nat
  BY LenProperties DEF UsbInv, Receives, Numbers
<1> QED
  BY <1>1, <1>2, <1>3, <1>4 DEF UsbInv, UsbTypes, Receives

\* Nothing of either ring is lost when everything is.
LEMMA NothingLeft ==
  ASSUME tx' = EmptyRing, rx' = EmptyRing, txWritten' = <<>>, txSent' = <<>>, rxGot' = <<>>,
         uartIn' = <<>>, usbMain' = NotBusy, txWrapped' \in BOOLEAN
  PROVE  UsbInv'
<1>1. NotBusy.do = "none"
  BY DEF NotBusy
<1>2. Numbers(<<>>, 0) /\ Numbers(<<>>, 0 + 0) /\ Len(<<>>) = 0
  BY NoNumbers
<1>3. UsbTypes'
  BY <1>2, EmptyRingIs DEF UsbTypes, Numbers
<1>4. Sends' /\ Receives'
  BY <1>2, EmptyRingIs DEF Sends, Receives
<1>5. Writes' /\ Reads' /\ WillSend'
  BY <1>1, EmptyRingIs DEF Writes, Reads, WillSend
<1> QED
  BY <1>3, <1>4, <1>5 DEF UsbInv

LEMMA UsbBegins == UsbInit => UsbInv
<1> SUFFICES ASSUME UsbInit PROVE UsbInv
  OBVIOUS
<1>1. NotBusy.do = "none"
  BY DEF NotBusy
<1>2. Numbers(<<>>, 0) /\ Numbers(<<>>, 0 + 0) /\ Len(<<>>) = 0
  BY NoNumbers
<1>3. UsbTypes
  BY <1>2, EmptyRingIs DEF UsbTypes, UsbInit, Numbers
<1>4. Sends /\ Receives
  BY <1>2, EmptyRingIs DEF Sends, Receives, UsbInit
<1>5. Writes /\ Reads /\ WillSend
  BY <1>1, EmptyRingIs DEF Writes, Reads, WillSend, UsbInit
<1> QED
  BY <1>3, <1>4, <1>5 DEF UsbInv

LEMMA ReadEndsKeeps ==
  ASSUME UsbInv, ReadEnds
  PROVE  UsbInv' /\ Used(rx') = Used(rx) - Dist(rx.read, usbMain.write)
<1> DEFINE d == Dist(rx.read, usbMain.write)
           part == [rx EXCEPT !.write = usbMain.write]
           n == Len(rxGot)
<1>0. usbMain.write \in Places /\ d <= Used(rx) /\ d \in Places
  BY UsbFacts, DistIs DEF ReadEnds, UsbInv, Reads
<1>1. part = [buf |-> rx.buf, read |-> rx.read, write |-> usbMain.write] /\ part \in Ring
  <2>0. rx \in Ring
    BY UsbFacts
  <2>1. rx.buf \in [Places -> Nat] /\ rx.read \in Places
    BY <2>0 DEF Ring
  <2>2. part = [buf |-> rx.buf, read |-> rx.read, write |-> usbMain.write]
    BY <2>0 DEF Ring
  <2> HIDE DEF part
  <2> QED
    BY <1>0, <2>1, <2>2, RingsAre
<1>2. Used(part) = d
  BY <1>1 DEF Used, Dist
<1>3. Carries(part, n)
  <2>1. \A i \in 1 .. d : i \in 1 .. Used(rx)
    BY <1>0, UsbFacts DEF Places
  <2>2. \A i \in 1 .. Used(rx) : rx.buf[(rx.read + i - 1) % RINGMAX] = n + i
    BY UsbFacts DEF Carries
  <2>3. part.buf = rx.buf /\ part.read = rx.read
    BY <1>1
  <2> QED
    BY ONLY <1>2, <2>1, <2>2, <2>3 DEF Carries
<1>4. Numbers(Held(part), n) /\ Len(Held(part)) = d
  <2>1. n \in Nat
    BY UsbFacts
  <2> HIDE DEF part, n, d
  <2> QED
    BY <1>1, <1>2, <1>3, <2>1, HeldAre
<1>5. Numbers(rxGot', 0) /\ Len(rxGot') = n + d
  <2>1. rxGot' = rxGot \o Held(part)
    BY DEF ReadEnds
  <2>2. Numbers(rxGot, 0) /\ Numbers(Held(part), 0 + Len(rxGot)) /\ 0 \in Nat
    BY <1>4, UsbFacts
  <2> HIDE DEF part
  <2>3. Numbers(rxGot \o Held(part), 0) /\ Len(rxGot \o Held(part)) = Len(rxGot) + Len(Held(part))
    BY ONLY <2>2, NumbersJoin
  <2> QED
    BY <1>4, <2>1, <2>3
<1>6. rx' \in Ring /\ Used(rx') = Used(rx) - d /\ Carries(rx', n + d)
  <2>1. (rx.read + d) % RINGMAX = usbMain.write
    <3> DEFINE r == rx.read
               w == usbMain.write
    <3>1. r \in Places /\ w \in Places /\ d \in Places /\ d = IF w >= r THEN w - r ELSE w + RINGMAX - r
      BY <1>0, UsbFacts, DistIs
    <3> HIDE DEF r, w, d
    <3>2. r + d \in 0 .. 2 * RINGMAX - 1
      BY <3>1, UsbAssumption DEF Places
    <3>3. Wrap(r + d) = w
      BY <3>1, <3>2, Wrapped, UsbAssumption DEF Places
    <3>4. (r + d) % RINGMAX = w
      BY <3>3 DEF Wrap
    <3> QED
      BY <3>4 DEF r, w
  <2>2. rx' = [rx EXCEPT !.read = (rx.read + d) % RINGMAX]
    BY <2>1 DEF ReadEnds
  <2>3. rx \in Ring /\ n \in Nat /\ Carries(rx, n) /\ d \in 0 .. Used(rx)
    BY <1>0, UsbFacts DEF Places
  <2> HIDE DEF n, d
  <2> QED
    BY ONLY <2>2, <2>3, TakeKeeps
<1>7. Numbers(uartIn', Len(rxGot') + Used(rx'))
  <2>1. (n + d) + (Used(rx) - d) = n + Used(rx)
    BY <1>0, UsbFacts DEF Places
  <2>2. uartIn' = uartIn
    BY DEF ReadEnds
  <2> QED
    BY <1>5, <1>6, <2>1, <2>2, UsbFacts
<1>8. Receives'
  BY <1>5, <1>6, <1>7 DEF Receives
<1>9. UNCHANGED <<tx, txOn, txWritten, txSent, txWrapped, txEarly, uartState>> /\ usbMain'.do = "none"
  BY DEF ReadEnds, txVars, NotBusy
<1>10. UsbTypes' /\ Sends' /\ Writes' /\ Reads' /\ WillSend'
  BY <1>6, <1>9 DEF UsbInv, UsbTypes, Sends, Writes, Reads, WillSend
<1>11. Used(rx') = Used(rx) - d
  BY <1>6
<1> QED
  BY <1>8, <1>10, <1>11 DEF UsbInv

LEMMA TxInterruptKeeps ==
  ASSUME UsbInv, NEW k \in 0 .. RINGMAX - 1, TxInterrupt(k)
  PROVE  UsbInv'
<1>1. k \in 0 .. Used(tx)
  BY UsbFacts DEF TxInterrupt
<1>2. tx' = [tx EXCEPT !.read = (tx.read + k) % RINGMAX]
  BY DEF TxInterrupt
<1>3. UNCHANGED <<rx, rxGot, uartIn, uartState, usbMain, txWritten, txWrapped, txEarly>>
      /\ txSent' = txSent \o SubSeq(Held(tx), 1, k) /\ txOn' = (Used(tx) > 0)
  BY DEF TxInterrupt, rxVars
<1>4. tx' \in Ring /\ Used(tx') = Used(tx) - k
  <2>1. tx \in Ring /\ 0 \in Nat
    BY UsbFacts
  <2> QED
    BY ONLY <1>1, <1>2, <2>1, TakeKeeps
<1>5. UsbTypes'
  BY <1>3, <1>4, UsbFacts DEF UsbInv, UsbTypes
<1>6. ASSUME ~txWrapped
      PROVE  /\ Numbers(txSent', 0) /\ Len(txSent') = Len(txSent) + k
             /\ Carries(tx', Len(txSent) + k)
  <2>1. Numbers(txSent, 0) /\ Carries(tx, Len(txSent)) /\ Len(txSent) \in Nat /\ tx \in Ring
    BY <1>6, LenProperties, UsbFacts DEF UsbInv, Sends, Numbers
  <2> DEFINE sent == txSent \o SubSeq(Held(tx), 1, k)
             new == [tx EXCEPT !.read = (tx.read + k) % RINGMAX]
  <2>2. Numbers(sent, 0) /\ Len(sent) = Len(txSent) + k /\ Carries(new, Len(txSent) + k)
    BY ONLY <1>1, <2>1, SentOn
  <2> QED
    BY <1>2, <1>3, <2>2
<1>7. Sends'
  <2> SUFFICES ASSUME ~txWrapped'
               PROVE  /\ Numbers(txSent', 0) /\ Numbers(txWritten', 0) /\ Carries(tx', Len(txSent'))
                      /\ Len(txSent') + Used(tx') = Len(txWritten')
    BY DEF Sends
  <2>1. Numbers(txWritten, 0) /\ Len(txSent) + Used(tx) = Len(txWritten) /\ Len(txSent) \in Nat
    BY <1>3, LenProperties DEF UsbInv, Sends, Numbers
  <2>2. (Len(txSent) + k) + (Used(tx) - k) = Len(txSent) + Used(tx)
    BY <1>1, <2>1, UsbFacts
  <2> QED
    BY <1>3, <1>4, <1>6, <2>1, <2>2
<1>8. Receives' /\ Reads'
  BY <1>3 DEF UsbInv, Receives, Reads
<1>9. Writes' /\ WillSend'
  <2>1. tx'.write = tx.write
    BY <1>2, UsbFacts DEF Ring
  <2>2. Used(tx') <= Used(tx) /\ (Used(tx') > 0 => Used(tx) > 0)
    BY <1>1, <1>4, UsbFacts
  <2>3. usbMain.do = "write" => Dist(usbMain.read, tx.write) \in Places
    BY UsbFacts, DistIs DEF UsbInv, Writes
  <2>4. Writes'
    BY <1>1, <1>3, <1>4, <2>1, <2>2, <2>3, UsbFacts DEF UsbInv, Writes, Places
  <2> QED
    BY <1>3, <2>2, <2>4 DEF WillSend
<1> QED
  BY <1>5, <1>7, <1>8, <1>9 DEF UsbInv

LEMMA LeastIs ==
  ASSUME NEW i \in Int, NEW j \in Int
  PROVE  Least(i, j) = IF i < j THEN i ELSE j
  BY DEF Least

LEMMA RoomIs ==
  ASSUME NEW ring, ring \in Ring
  PROVE  Room(ring) \in Nat /\ Room(ring) <= RINGMAX - 1 - Used(ring) /\ ring.write + Room(ring) <= RINGMAX
<1> DEFINE r == ring.read
           w == ring.write
<1>1. r \in Places /\ w \in Places /\ Used(ring) = IF w >= r THEN w - r ELSE w + RINGMAX - r
  BY UsedIs, DistIs
<1>2. Room(ring) = IF w < r THEN r - 1 - w ELSE RINGMAX - w - (IF r = 0 THEN 1 ELSE 0)
  BY DEF Room
<1> HIDE DEF r, w
<1>3. Room(ring) \in Nat /\ Room(ring) <= RINGMAX - 1 - Used(ring) /\ w + Room(ring) <= RINGMAX
  BY <1>1, <1>2, UsbAssumption DEF Places
<1> QED
  BY <1>3 DEF w

\* What read_uart brings goes on with what the ring holds.
LEMMA ReadUartKeeps ==
  ASSUME NEW ring, ring \in Ring, NEW f \in Nat, Carries(ring, f), NEW in, Numbers(in, f + Used(ring)),
         NEW max \in Int, NEW k, k = Least(Len(in), max), k \in Nat,
         k <= RINGMAX - 1 - Used(ring), ring.write + k <= RINGMAX
  PROVE  /\ ReadUart(ring, in, max) \in Ring /\ Used(ReadUart(ring, in, max)) = Used(ring) + k
         /\ Carries(ReadUart(ring, in, max), f)
         /\ ReadUart(ring, in, max).read = ring.read
         /\ ReadUart(ring, in, max).write = (ring.write + k) % RINGMAX
<1> DEFINE w == ring.write
           u == Used(ring)
           b == [i \in Places |-> IF i \in w .. (w + k - 1) THEN in[i - w + 1] ELSE ring.buf[i]]
           new == [buf |-> b, read |-> ring.read, write |-> (w + k) % RINGMAX]
<1>1. ring.buf \in [Places -> Nat] /\ w \in Places /\ u \in Nat /\ Places \subseteq Nat
  <2>1. ring.buf \in [Places -> Nat]
    BY DEF Ring
  <2>2. w \in Places /\ u \in Places
    BY UsedIs
  <2>3. Places \subseteq Nat
    BY UsbAssumption DEF Places
  <2> QED
    BY <2>1, <2>2, <2>3
<1>2. ReadUart(ring, in, max) = new
  <2>1. DOMAIN ring.buf = Places
    BY <1>1
  <2>2. ReadUart(ring, in, max) =
          [buf   |-> [i \in DOMAIN ring.buf |-> IF i \in ring.write .. (ring.write + k - 1)
                                                 THEN in[i - ring.write + 1] ELSE ring.buf[i]],
           read  |-> ring.read,
           write |-> (ring.write + k) % RINGMAX]
    BY ONLY k = Least(Len(in), max), Zenon DEF ReadUart
  <2> QED
    BY <2>1, <2>2
<1>3. Len(in) \in Nat /\ k <= Len(in) /\ \A i \in 1 .. Len(in) : in[i] \in Nat /\ in[i] = (f + u) + i
  <2>1. in \in Seq(Nat) /\ \A i \in 1 .. Len(in) : in[i] = (f + u) + i
    BY DEF Numbers
  <2>2. Len(in) \in Nat /\ \A i \in 1 .. Len(in) : in[i] \in Nat
    BY <2>1, LenProperties
  <2>3. k <= Len(in)
    BY <2>2, LeastIs
  <2> QED
    BY <2>1, <2>2, <2>3
<1>4. \A i \in Places : i \in w .. (w + k - 1) =>
        i - w + 1 \in 1 .. Len(in) /\ (f + u) + (i - w + 1) = f + u + (i - w) + 1
  <2> SUFFICES ASSUME NEW i \in Places, i \in w .. (w + k - 1)
               PROVE  i - w + 1 \in 1 .. Len(in) /\ (f + u) + (i - w + 1) = f + u + (i - w) + 1
    OBVIOUS
  <2>1. i \in Nat /\ w \in Nat /\ k \in Nat /\ f \in Nat /\ u \in Nat /\ w <= i /\ i <= w + k - 1
    <3>1. i \in Nat /\ w \in Nat /\ k \in Nat /\ f \in Nat /\ u \in Nat
      BY <1>1
    <3> HIDE DEF w, u
    <3> QED
      BY <3>1
  <2>2. Len(in) \in Nat /\ k <= Len(in)
    BY <1>3
  <2> DEFINE n == Len(in)
  <2>3. n \in Nat /\ k <= n
    BY <2>2
  <2> HIDE DEF w, u, n
  <2>4. i - w + 1 \in 1 .. n /\ (f + u) + (i - w + 1) = f + u + (i - w) + 1
    BY ONLY <2>1, <2>3
  <2> QED
    BY <2>4 DEF n
<1> HIDE DEF w
<1>5. b \in [Places -> Nat]
  BY <1>1, <1>3, <1>4
<1>6. Puts(ring.buf, b, ring, f, k)
  <2>1. \A i \in Places : b[i] = IF i \in w .. (w + k - 1) THEN f + u + (i - w) + 1 ELSE ring.buf[i]
    BY <1>3, <1>4
  <2> HIDE DEF b
  <2> QED
    BY <2>1 DEF Puts, w
<1>7. new \in Ring /\ Used(new) = Used(ring) + k /\ Carries(new, f)
  <2>1. /\ ring \in Ring /\ f \in Nat /\ Carries(ring, f) /\ k \in Nat /\ k <= RINGMAX - 1 - Used(ring)
        /\ ring.write + k <= RINGMAX /\ b \in [Places -> Nat] /\ Puts(ring.buf, b, ring, f, k)
        /\ new = [buf |-> b, read |-> ring.read, write |-> (ring.write + k) % RINGMAX]
    BY <1>5, <1>6 DEF w
  <2> HIDE DEF new, b
  <2> QED
    BY ONLY <2>1, PutKeeps
<1>8. new.read = ring.read /\ new.write = (ring.write + k) % RINGMAX
  BY DEF w
<1> HIDE DEF new
<1> QED
  BY <1>2, <1>7, <1>8

LEMMA RxInterruptKeeps ==
  ASSUME UsbInv, RxInterrupt
  PROVE  /\ UsbInv' /\ rx'.read = rx.read
         /\ Least(Len(uartIn), Room(rx)) \in Nat
         /\ Used(rx') >= Used(rx) + Least(Len(uartIn), Room(rx))
<1> DEFINE f == Len(rxGot)
           u == Used(rx)
           m == Room(rx)
           k == Least(Len(uartIn), m)
           once == ReadUart(rx, uartIn, m)
           left == SubSeq(uartIn, k + 1, Len(uartIn))
           more == IF k = m /\ rx.write >= rx.read /\ rx.read # 0 THEN rx.read - 1 - tx.write ELSE 0
           rest == IF more > 0 THEN Least(Len(left), more) ELSE 0
<1>1. /\ rx' = ReadUart(once, left, rest)
      /\ uartIn' = SubSeq(left, rest + 1, Len(left))
      /\ UNCHANGED <<tx, txOn, txWritten, txSent, txWrapped, txEarly, rxGot, uartState, usbMain>>
  BY DEF RxInterrupt, txVars
<1>2. /\ rx \in Ring /\ f \in Nat /\ Carries(rx, f) /\ Numbers(uartIn, f + u) /\ Numbers(rxGot, 0)
      /\ u \in Nat /\ Len(uartIn) \in Nat /\ tx.write \in Places /\ rx.read \in Places /\ rx.write \in Places
      /\ RINGMAX \in Nat \ {0}
  BY UsbFacts
<1>3. m \in Nat /\ m <= RINGMAX - 1 - u /\ rx.write + m <= RINGMAX
  BY <1>2, RoomIs
<1>4. k \in Nat /\ k <= m /\ k <= Len(uartIn) /\ k \in 0 .. Len(uartIn)
  BY <1>2, <1>3, LeastIs
<1>5. k <= RINGMAX - 1 - u /\ rx.write + k <= RINGMAX
  BY <1>2, <1>3, <1>4 DEF Places
<1>6. /\ once \in Ring /\ Used(once) = u + k /\ Carries(once, f) /\ once.read = rx.read
      /\ once.write = (rx.write + k) % RINGMAX
  <2>1. m \in Int /\ k = Least(Len(uartIn), m)
    BY <1>3
  <2> HIDE DEF f, m, k
  <2> QED
    BY ONLY <1>2, <1>4, <1>5, <2>1, ReadUartKeeps DEF u, once
<1>7. Numbers(left, f + u + k) /\ Len(left) = Len(uartIn) - k
  <2>1. f + u \in Nat
    BY <1>2
  <2>2. Numbers(left, (f + u) + k) /\ Len(left) = Len(uartIn) - k
    <3> HIDE DEF f, u, k
    <3> QED
      BY ONLY <1>2, <1>4, <2>1, NumbersPart DEF left
  <2> QED
    BY <2>2
<1>8. Len(left) \in Nat
  BY <1>2, <1>4, <1>7
<1>9. rest \in Nat /\ rest <= Len(left) /\ rest <= RINGMAX - 1 - Used(once) /\ once.write + rest <= RINGMAX
  <2>1. CASE ~(more > 0)
    <3>1. rest = 0
      BY <2>1
    <3>2. Used(once) \in Places /\ once.write \in Places
      BY <1>6, UsedIs
    <3> HIDE DEF rest, once, left
    <3> QED
      BY <1>2, <1>8, <3>1, <3>2 DEF Places
  <2>2. CASE more > 0
    <3>1. k = m /\ rx.write >= rx.read /\ rx.read # 0 /\ more = rx.read - 1 - tx.write
      BY <2>2
    <3>2. m = RINGMAX - rx.write
      BY <1>2, <3>1 DEF Room, Places
    <3>3. u = rx.write - rx.read
      BY <1>2, <3>1, UsedIs, DistIs
    <3>4. once.write = 0
      <4>1. rx.write + k = RINGMAX
        BY <1>2, <3>1, <3>2 DEF Places
      <4>2. once.write = Wrap(RINGMAX)
        BY <1>6, <4>1 DEF Wrap
      <4>3. RINGMAX \in 0 .. 2 * RINGMAX - 1
        BY <1>2
      <4> QED
        BY <1>2, <4>2, <4>3, Wrapped
    <3>5. more \in Int /\ more <= rx.read - 1
      BY <1>2, <3>1 DEF Places
    <3>6. rest \in Nat /\ rest <= Len(left) /\ rest <= more
      <4>1. rest = Least(Len(left), more)
        BY <2>2
      <4> HIDE DEF rest, more, left
      <4> QED
        BY <1>8, <2>2, <3>5, <4>1, LeastIs
    <3>7. Used(once) = RINGMAX - rx.read
      BY <1>2, <1>6, <3>1, <3>2, <3>3 DEF Places
    <3> HIDE DEF rest, more, left, once
    <3> QED
      BY <1>2, <3>4, <3>5, <3>6, <3>7 DEF Places
  <2> QED
    BY <2>1, <2>2
<1>10. rx' \in Ring /\ Used(rx') = u + k + rest /\ Carries(rx', f) /\ rx'.read = rx.read
  <2>1. Least(Len(left), rest) = rest /\ rest \in Int
    <3> HIDE DEF rest, left
    <3> QED
      BY <1>8, <1>9, LeastIs
  <2>2. Numbers(left, f + Used(once))
    BY <1>2, <1>4, <1>6, <1>7
  <2>3. f \in Nat
    BY <1>2
  <2> HIDE DEF f, u, k, once, left, rest
  <2>4. /\ ReadUart(once, left, rest) \in Ring /\ Used(ReadUart(once, left, rest)) = Used(once) + rest
        /\ Carries(ReadUart(once, left, rest), f) /\ ReadUart(once, left, rest).read = once.read
    BY ONLY <1>6, <1>9, <2>1, <2>2, <2>3, ReadUartKeeps
  <2> QED
    BY <1>1, <1>6, <2>4
<1>11. Numbers(uartIn', f + u + k + rest)
  <2>1. f + u + k \in Nat /\ rest \in 0 .. Len(left)
    <3> HIDE DEF rest, left, k
    <3> QED
      BY <1>2, <1>4, <1>8, <1>9
  <2> HIDE DEF f, u, k, left, rest
  <2>2. Numbers(SubSeq(left, rest + 1, Len(left)), (f + u + k) + rest)
    BY ONLY <1>7, <2>1, NumbersPart
  <2> QED
    BY <1>1, <2>2
<1>12. Receives'
  <2>1. f + (u + k + rest) = f + u + k + rest
    <3> HIDE DEF rest, k, f, u
    <3> QED
      BY <1>2, <1>4, <1>9
  <2> QED
    BY <1>1, <1>2, <1>10, <1>11, <2>1 DEF Receives
<1>13. Reads'
  <2>1. u <= Used(rx')
    <3> HIDE DEF rest, k, f, u
    <3> QED
      BY <1>2, <1>4, <1>9, <1>10
  <2>2. usbMain.do = "read" => Dist(rx.read, usbMain.write) \in Places
    BY <1>2, DistIs DEF UsbInv, Reads
  <2>3. Used(rx') \in Places
    BY <1>10, UsedIs
  <2> SUFFICES ASSUME usbMain.do = "read"
               PROVE  usbMain.write \in Places /\ Dist(rx.read, usbMain.write) <= Used(rx')
    BY <1>1, <1>10 DEF Reads
  <2>4. usbMain.write \in Places /\ Dist(rx.read, usbMain.write) <= u
    BY DEF UsbInv, Reads
  <2>5. Dist(rx.read, usbMain.write) \in Int /\ Used(rx') \in Int /\ u \in Int
    BY <1>2, <2>2, <2>3 DEF Places
  <2> HIDE DEF u
  <2> QED
    BY ONLY <2>1, <2>4, <2>5
<1>14. UsbTypes' /\ Sends' /\ Writes' /\ WillSend'
  BY <1>1, <1>10 DEF UsbInv, UsbTypes, Sends, Writes, WillSend
<1>15. Used(rx') >= u + k
  <2> HIDE DEF rest, k, u
  <2> QED
    BY <1>2, <1>4, <1>9, <1>10
<1> QED
  BY <1>4, <1>10, <1>12, <1>13, <1>14, <1>15 DEF UsbInv

\* The two parts of a write, from the indexes that it read.
WriteRoom(r, w)      == IF w >= r THEN RINGMAX - w - (IF r = 0 THEN 1 ELSE 0) ELSE 0
FirstPart(r, w, n)   == Least(n, WriteRoom(r, w))
SecondAt(r, w, n)    == (w + FirstPart(r, w, n)) % RINGMAX
SecondPart(r, w, n)  ==
  IF n > FirstPart(r, w, n) /\ SecondAt(r, w, n) < r - 1 THEN Least(n, r - 1 - SecondAt(r, w, n)) ELSE 0

LEMMA WriteParts ==
  ASSUME NEW r \in Places, NEW w \in Places, NEW n \in Nat \ {0},
         NEW a, a = FirstPart(r, w, n), NEW at, at = SecondAt(r, w, n), NEW b, b = SecondPart(r, w, n)
  PROVE  /\ a \in Nat /\ a <= n /\ w + a <= RINGMAX /\ a <= RINGMAX - 1 - Dist(r, w)
         /\ b \in Nat /\ b <= n /\ at \in Places /\ at + b \in Places
         /\ a = 0 => at = w /\ b <= RINGMAX - 1 - Dist(r, w) /\ w + b < RINGMAX
<1>1. r \in Nat /\ w \in Nat /\ n \in Nat /\ n > 0 /\ r < RINGMAX /\ w < RINGMAX /\ RINGMAX \in Nat /\ RINGMAX > 0
  BY UsbAssumption DEF Places
<1>2. Dist(r, w) = (IF w >= r THEN w - r ELSE w + RINGMAX - r) /\ Dist(r, w) \in Nat /\ Dist(r, w) < RINGMAX
  BY <1>1, DistIs DEF Places
<1>3. WriteRoom(r, w) \in Nat /\ w + WriteRoom(r, w) <= RINGMAX /\ WriteRoom(r, w) <= RINGMAX - 1 - Dist(r, w)
      /\ (WriteRoom(r, w) = 0 => w < r \/ r = 0)
  BY <1>1, <1>2 DEF WriteRoom
<1>4. a = IF n < WriteRoom(r, w) THEN n ELSE WriteRoom(r, w)
  BY <1>1, <1>3, LeastIs DEF FirstPart
<1>5. a \in Nat /\ a <= n /\ w + a <= RINGMAX /\ a <= RINGMAX - 1 - Dist(r, w) /\ (a = 0 => w < r \/ r = 0)
  BY <1>1, <1>2, <1>3, <1>4
<1>6. at = Wrap(w + a) /\ w + a \in 0 .. 2 * RINGMAX - 1
  BY <1>1, <1>5 DEF SecondAt, Wrap
<1>7. at = IF w + a < RINGMAX THEN w + a ELSE 0
  BY <1>1, <1>5, <1>6, Wrapped
<1>8. at \in Nat /\ at < RINGMAX
  BY <1>1, <1>5, <1>7
<1>9. \/ b = 0
      \/ at < r - 1 /\ b \in Nat /\ b <= n /\ b <= r - 1 - at
  <2>1. CASE n > a /\ at < r - 1
    <3>1. b = Least(n, r - 1 - at)
      BY <2>1 DEF SecondPart
    <3>2. b = IF n < r - 1 - at THEN n ELSE r - 1 - at
      BY <1>1, <1>8, <3>1, LeastIs
    <3> QED
      BY <1>1, <1>8, <2>1, <3>2
  <2>2. CASE ~(n > a /\ at < r - 1)
    BY <2>2 DEF SecondPart
  <2> QED
    BY <2>1, <2>2
<1>10. b \in Nat /\ b <= n /\ at + b < RINGMAX
  BY <1>1, <1>8, <1>9
<1>11. a = 0 => at = w /\ b <= RINGMAX - 1 - Dist(r, w) /\ w + b < RINGMAX
  BY <1>1, <1>2, <1>5, <1>7, <1>9, <1>10
<1> QED
  BY <1>1, <1>5, <1>8, <1>10, <1>11 DEF Places

\* From a place on, len numbers from a first one on; elsewhere what was there.
Overlaid(new, old, at, first, len) ==
  \A i \in Places : new[i] = IF i \in at .. (at + len - 1) THEN first + i - at ELSE old[i]

IsCopy(c, buf, at, first, from, n, len) ==
  /\ c \in [Places -> Nat] /\ (len = 0 => c = buf)
  /\ from + len <= n => Overlaid(c, buf, at, first + from, len)

LEMMA CopiedIs ==
  ASSUME NEW buf \in [Places -> Nat], NEW at \in Nat, NEW first \in Nat, NEW from \in Nat, NEW n \in Nat,
         NEW len \in Nat, NEW c, c = Copied(buf, at, first, from, n, len)
  PROVE  IsCopy(c, buf, at, first, from, n, len)
<1>1. Places \subseteq Nat /\ DOMAIN buf = Places
  BY UsbAssumption DEF Places
<1>2. c = [i \in Places |-> IF i \in at..(at + len - 1)
                            THEN IF from + i - at < n THEN first + from + i - at ELSE 0
                            ELSE buf[i]]
  BY <1>1 DEF Copied
<1>3. ASSUME NEW i \in Places, i \in at .. (at + len - 1)
      PROVE  i \in Nat /\ first + from + i - at \in Nat /\ (from + len <= n => from + i - at < n)
  BY <1>1, <1>3
<1>4. \A i \in Places : c[i] = IF i \in at..(at + len - 1)
                              THEN IF from + i - at < n THEN first + from + i - at ELSE 0 ELSE buf[i]
  BY <1>2
<1>5. \A i \in Places : c[i] \in Nat
  BY <1>3, <1>4
<1>6. c \in [Places -> Nat]
  BY <1>2, <1>5
<1>7. len = 0 => c = buf
  <2> SUFFICES ASSUME len = 0 PROVE c = buf
    OBVIOUS
  <2>1. \A i \in Places : c[i] = buf[i]
    <3> SUFFICES ASSUME NEW i \in Places PROVE c[i] = buf[i]
      OBVIOUS
    <3>1. i \notin at .. (at + len - 1)
      BY <1>1
    <3> QED
      BY <1>4, <3>1
  <2> QED
    BY <1>6, <2>1
<1>8. from + len <= n => \A i \in Places : c[i] = IF i \in at .. (at + len - 1) THEN first + from + i - at ELSE buf[i]
  BY <1>3, <1>4
<1> QED
  BY <1>6, <1>7, <1>8 DEF Overlaid, IsCopy

\* What a write leaves of the ring t, of which the interrupt may have taken some since the
\* index r was read: l bytes were written before, f have been taken.
LEMMA WriteLeaves ==
  ASSUME NEW t, t \in Ring, NEW r \in Places, NEW n \in Nat \ {0}, NEW l \in Nat,
         Used(t) <= Dist(r, t.write),
         NEW w, w = t.write,
         NEW a, a = FirstPart(r, w, n), NEW at, at = SecondAt(r, w, n), NEW b, b = SecondPart(r, w, n),
         NEW done, done = Least(n, a + b),
         NEW buf1, buf1 = Copied(t.buf, w, l + 1, 0, n, a),
         NEW buf2, buf2 = Copied(buf1, at + a, l + 1, a, n, b),
         NEW new, new = [buf |-> buf2, read |-> t.read, write |-> at + b]
  PROVE  /\ new \in Ring /\ new.read = t.read /\ done \in Nat
         /\ done = 0 => a = 0 /\ b = 0 /\ Used(new) = Used(t)
         /\ a \in Nat /\ b \in Nat
         /\ a = 0 \/ b = 0 =>
              \A f \in Nat : Carries(t, f) /\ f + Used(t) = l => Used(new) = Used(t) + done /\ Carries(new, f)
<1>1. /\ t.buf \in [Places -> Nat] /\ t.read \in Places /\ w \in Places /\ Used(t) \in Nat
      /\ w \in Nat /\ r \in Nat /\ RINGMAX \in Nat \ {0} /\ Dist(r, w) \in Nat
      /\ Used(t) <= Dist(r, w) /\ w < RINGMAX /\ Places \subseteq Int
  <2>1. t.read \in Places /\ w \in Places /\ Used(t) \in Places
    BY UsedIs
  <2>2. Dist(r, w) \in Places
    BY <2>1, DistIs
  <2>3. t.buf \in [Places -> Nat]
    BY DEF Ring
  <2> QED
    BY <2>1, <2>2, <2>3, UsbAssumption DEF Places
<1>2. /\ a \in Nat /\ a <= n /\ w + a <= RINGMAX /\ a <= RINGMAX - 1 - Dist(r, w)
      /\ b \in Nat /\ b <= n /\ at \in Places /\ at + b \in Places
      /\ a = 0 => at = w /\ b <= RINGMAX - 1 - Dist(r, w) /\ w + b < RINGMAX
  BY <1>1, WriteParts
<1>3. at \in Nat /\ at < RINGMAX
  BY <1>1, <1>2 DEF Places
<1>4. done \in Nat /\ done = IF n < a + b THEN n ELSE a + b
  BY ONLY <1>2, n \in Nat \ {0}, done = Least(n, a + b) DEF Least
<1>5. /\ buf1 \in [Places -> Nat] /\ (a = 0 => buf1 = t.buf)
      /\ Overlaid(buf1, t.buf, w, (l + 1) + 0, a)
  <2> DEFINE old == t.buf
             first == l + 1
             from == 0
  <2>1. /\ old \in [Places -> Nat] /\ w \in Nat /\ first \in Nat /\ from \in Nat /\ n \in Nat /\ a \in Nat
        /\ from + a <= n /\ buf1 = Copied(old, w, first, from, n, a)
    BY <1>1, <1>2
  <2> HIDE DEF old, first, from
  <2>2. IsCopy(buf1, old, w, first, from, n, a)
    BY ONLY <2>1, CopiedIs
  <2> QED
    BY <2>1, <2>2 DEF old, first, from, IsCopy
<1>6. /\ buf2 \in [Places -> Nat] /\ (b = 0 => buf2 = buf1)
      /\ (a = 0 => Overlaid(buf2, buf1, w, (l + 1) + 0, b))
  <2> DEFINE first == l + 1
             place == at + a
  <2>1. /\ buf1 \in [Places -> Nat] /\ place \in Nat /\ first \in Nat /\ a \in Nat /\ n \in Nat /\ b \in Nat
        /\ (a = 0 => place = w /\ a + b <= n) /\ buf2 = Copied(buf1, place, first, a, n, b)
    BY <1>2, <1>3, <1>5
  <2> HIDE DEF first, place
  <2>2. IsCopy(buf2, buf1, place, first, a, n, b)
    BY ONLY <2>1, CopiedIs
  <2>3. ASSUME a = 0 PROVE Overlaid(buf2, buf1, w, first + 0, b)
    BY ONLY <2>1, <2>2, <2>3 DEF IsCopy
  <2> QED
    BY <2>2, <2>3 DEF first, IsCopy
<1>7. new \in Ring /\ new.write = at + b /\ new.read = t.read
  <2> DEFINE x == t.read
             y == at + b
  <2>1. buf2 \in [Places -> Nat] /\ x \in Places /\ y \in Places /\ new = [buf |-> buf2, read |-> x, write |-> y]
    BY <1>1, <1>2, <1>6
  <2>2. new.write = y /\ new.read = x
    BY <2>1
  <2> HIDE DEF x, y
  <2>3. new \in Ring
    BY ONLY <2>1, RingsAre
  <2> QED
    BY <2>2, <2>3 DEF x, y
<1>8. ASSUME done = 0 PROVE a = 0 /\ b = 0 /\ Used(new) = Used(t)
  <2>1. a = 0 /\ b = 0
    BY <1>2, <1>4, <1>8
  <2>2. new.write = t.write /\ new.read = t.read
    BY <1>2, <1>3, <1>7, <2>1
  <2> QED
    BY <2>1, <2>2 DEF Used
\* One of the parts only: the memory is as after a single put.
<1>9. ASSUME a = 0 \/ b = 0, NEW f \in Nat, f + Used(t) = l
      PROVE  Puts(t.buf, buf2, t, f, done)
  <2>1. done = IF a = 0 THEN b ELSE a
    BY <1>2, <1>4, <1>9
  <2>2. \A i \in Places : buf2[i] = IF i \in w .. (w + done - 1) THEN (l + 1) + 0 + i - w ELSE t.buf[i]
    BY <1>5, <1>6, <1>9, <2>1 DEF Overlaid
  <2>3. \A i \in Places : (l + 1) + 0 + i - w = f + Used(t) + (i - w) + 1
    BY <1>1, <1>9
  <2> QED
    BY ONLY <2>2, <2>3, w = t.write DEF Puts
<1>10. ASSUME a = 0 \/ b = 0
       PROVE  /\ done <= RINGMAX - 1 - Used(t) /\ w + done <= RINGMAX
              /\ new = [buf |-> buf2, read |-> t.read, write |-> (w + done) % RINGMAX]
  <2>1. done = IF a = 0 THEN b ELSE a
    BY <1>2, <1>4, <1>10
  <2>2. done <= RINGMAX - 1 - Used(t) /\ w + done <= RINGMAX
    BY ONLY <1>1, <1>2, <1>10, <2>1
  <2>3. at + b = (w + done) % RINGMAX
    <3>1. CASE a = 0
      <4>1. w + done \in 0 .. 2 * RINGMAX - 1 /\ w + done < RINGMAX /\ at + b = w + done
        BY ONLY <1>1, <1>2, <2>1, <3>1
      <4>2. Wrap(w + done) = w + done
        BY <4>1, Wrapped
      <4> QED
        BY <4>1, <4>2 DEF Wrap
    <3>2. CASE a # 0
      BY <1>2, <1>3, <1>10, <2>1, <3>2 DEF SecondAt
    <3> QED
      BY <3>1, <3>2
  <2> QED
    BY <2>2, <2>3
<1>11. ASSUME a = 0 \/ b = 0, NEW f \in Nat, Carries(t, f), f + Used(t) = l
       PROVE  Used(new) = Used(t) + done /\ Carries(new, f)
  <2>1. /\ t \in Ring /\ f \in Nat /\ Carries(t, f) /\ done \in Nat /\ done <= RINGMAX - 1 - Used(t)
        /\ t.write + done <= RINGMAX /\ buf2 \in [Places -> Nat] /\ Puts(t.buf, buf2, t, f, done)
        /\ new = [buf |-> buf2, read |-> t.read, write |-> (t.write + done) % RINGMAX]
    BY <1>4, <1>6, <1>9, <1>10, <1>11
  <2> QED
    BY ONLY <2>1, PutKeeps
<1> QED
  BY <1>2, <1>4, <1>7, <1>8, <1>11

LEMMA WriteEndsKeeps ==
  ASSUME UsbInv, NEW sends \in 0 .. RINGMAX - 1, WriteEnds(sends)
  PROVE  UsbInv'
<1> DEFINE n == usbMain.n
           r == usbMain.read
           w == usbMain.write
           l == Len(txWritten)
           a == FirstPart(r, w, n)
           at == SecondAt(r, w, n)
           b == SecondPart(r, w, n)
           done == Least(n, a + b)
           buf1 == Copied(tx.buf, w, l + 1, 0, n, a)
           buf2 == Copied(buf1, at + a, l + 1, a, n, b)
           ring == [buf |-> buf2, read |-> tx.read, write |-> at + b]
           more == [i \in 1 .. done |-> l + i]
<1>1. /\ usbMain.do = "write" /\ sends <= Used(ring) /\ (done = 0 => sends = 0)
      /\ tx' = [ring EXCEPT !.read = (ring.read + sends) % RINGMAX]
      /\ txOn' = (done > 0 \/ txOn)
      /\ txWritten' = txWritten \o more
      /\ txSent' = txSent \o SubSeq(Held(ring), 1, sends)
      /\ txWrapped' = (txWrapped \/ (a > 0 /\ b > 0))
      /\ usbMain' = NotBusy
      /\ UNCHANGED <<rx, uartIn, rxGot, uartState, txEarly>>
  BY Zenon DEF WriteEnds, WriteRoom, FirstPart, SecondAt, SecondPart, rxVars
<1>2. /\ tx \in Ring /\ r \in Places /\ n \in Nat \ {0} /\ l \in Nat /\ Used(tx) <= Dist(r, tx.write)
      /\ w = tx.write
  BY <1>1, UsbFacts DEF UsbInv, Writes
<1>3. /\ a = FirstPart(r, w, n) /\ at = SecondAt(r, w, n) /\ b = SecondPart(r, w, n)
      /\ done = Least(n, a + b) /\ buf1 = Copied(tx.buf, w, l + 1, 0, n, a)
      /\ buf2 = Copied(buf1, at + a, l + 1, a, n, b)
      /\ ring = [buf |-> buf2, read |-> tx.read, write |-> at + b]
  OBVIOUS
<1> HIDE DEF n, r, w, a, at, b, done, buf1, buf2, ring
<1>4. /\ ring \in Ring /\ ring.read = tx.read /\ done \in Nat
      /\ done = 0 => a = 0 /\ b = 0 /\ Used(ring) = Used(tx)
      /\ a \in Nat /\ b \in Nat
      /\ a = 0 \/ b = 0 =>
           \A f \in Nat : Carries(tx, f) /\ f + Used(tx) = l => Used(ring) = Used(tx) + done /\ Carries(ring, f)
  <2> HIDE DEF l
  <2> QED
    BY ONLY <1>2, <1>3, WriteLeaves
<1>5. Used(ring) \in Nat /\ Used(tx) \in Nat
  BY <1>2, <1>4, UsedIs, UsbAssumption DEF Places
<1>6. tx' \in Ring /\ Used(tx') = Used(ring) - sends /\ sends \in 0 .. Used(ring)
  <2>1. sends \in 0 .. Used(ring)
    BY <1>1, <1>5
  <2>2. 0 \in Nat
    OBVIOUS
  <2>3. tx' \in Ring /\ Used(tx') = Used(ring) - sends
    BY ONLY <1>1, <1>4, <2>1, <2>2, TakeKeeps
  <2> QED
    BY <2>1, <2>3
<1>7. Numbers(more, l) /\ Len(more) = done
  BY <1>2, <1>4, NumbersFrom
<1>8. UsbTypes' /\ Len(txWritten') = l + done
  <2>1. txWritten \in Seq(Nat) /\ more \in Seq(Nat) /\ Len(txWritten) = l /\ Len(more) = done
    BY <1>7, UsbFacts DEF Numbers
  <2> HIDE DEF more, l
  <2>2. txWritten \o more \in Seq(Nat) /\ Len(txWritten \o more) = l + done
    BY ONLY <2>1, ConcatIs
  <2>3. txWrapped' \in BOOLEAN /\ rx' \in Ring
    BY <1>1, UsbFacts DEF UsbInv, UsbTypes
  <2> QED
    BY <1>1, <1>6, <2>2, <2>3 DEF UsbTypes
<1>9. ASSUME ~txWrapped'
      PROVE  /\ Numbers(txSent', 0) /\ Numbers(txWritten', 0) /\ Carries(tx', Len(txSent'))
             /\ Len(txSent') + Used(tx') = Len(txWritten')
  <2> DEFINE f == Len(txSent)
  <2>0. ~txWrapped /\ ~(a > 0 /\ b > 0)
    BY <1>1, <1>9, Zenon
  <2>1. ~txWrapped /\ (a = 0 \/ b = 0)
    BY ONLY <1>4, <2>0
  <2>2. Numbers(txSent, 0) /\ Numbers(txWritten, 0) /\ f \in Nat /\ Carries(tx, f) /\ f + Used(tx) = l
    BY <2>1, LenProperties DEF UsbInv, Sends, Numbers
  <2>3. Used(ring) = Used(tx) + done /\ Carries(ring, f)
    <3> HIDE DEF f, l
    <3> QED
      BY ONLY <1>4, <2>1, <2>2
  <2>4. Numbers(txWritten', 0)
    <3>1. Numbers(txWritten, 0) /\ Numbers(more, 0 + Len(txWritten)) /\ 0 \in Nat
      BY <1>2, <1>7, <2>2
    <3> HIDE DEF more
    <3>2. Numbers(txWritten \o more, 0)
      BY ONLY <3>1, NumbersJoin
    <3> QED
      BY <1>1, <3>2
  <2>5. /\ Numbers(txSent \o SubSeq(Held(ring), 1, sends), 0)
        /\ Len(txSent \o SubSeq(Held(ring), 1, sends)) = Len(txSent) + sends
        /\ Carries([ring EXCEPT !.read = (ring.read + sends) % RINGMAX], Len(txSent) + sends)
    BY ONLY <1>4, <1>6, <2>2, <2>3, SentOn
  <2>6. Numbers(txSent', 0) /\ Len(txSent') = f + sends /\ Carries(tx', f + sends)
    BY <1>1, <2>5
  <2>7. (f + sends) + (Used(ring) - sends) = l + done
    <3> HIDE DEF f, l
    <3> QED
      BY ONLY <1>2, <1>4, <1>5, <1>6, <2>2, <2>3
  <2> QED
    BY <1>6, <1>8, <2>4, <2>6, <2>7
<1>10. Sends'
  BY <1>9 DEF Sends
<1>11. Receives' /\ Writes' /\ Reads'
  BY <1>1 DEF UsbInv, Receives, Writes, Reads, NotBusy
<1>12. WillSend'
  <2>1. CASE done > 0
    BY <1>1, <2>1 DEF WillSend
  <2>2. CASE done = 0
    <3>1. sends = 0 /\ Used(ring) = Used(tx)
      BY <1>1, <1>4, <2>2
    <3>2. Used(tx') = Used(tx)
      BY <1>5, <1>6, <3>1
    <3> QED
      BY <1>1, <2>2, <3>2 DEF UsbInv, WillSend
  <2> QED
    BY <1>4, <2>1, <2>2
<1> QED
  BY <1>8, <1>10, <1>11, <1>12, Zenon DEF UsbInv

-----------------------------------------------------------------------------
LEMMA WriteBeginsKeeps ==
  ASSUME UsbInv, NEW n \in Nat \ {0}, WriteBegins(n)
  PROVE  UsbInv'
<1>1. UNCHANGED <<tx, txOn, txWritten, txSent, txWrapped, txEarly, rx, uartIn, rxGot, uartState>>
      /\ usbMain' = [do |-> "write", read |-> tx.read, write |-> tx.write, n |-> n]
  BY DEF WriteBegins, txVars, rxVars
<1>2. usbMain'.do = "write" /\ usbMain'.read = tx.read /\ usbMain'.write = tx.write /\ usbMain'.n = n
  BY <1>1
<1>3. tx.read \in Places /\ Used(tx) = Dist(tx.read, tx.write) /\ Used(tx) \in Nat
  BY UsbFacts, UsedIs
<1>4. Writes' /\ Reads'
  BY <1>1, <1>2, <1>3 DEF Writes, Reads
<1> QED
  BY <1>1, <1>4 DEF UsbInv, UsbTypes, Sends, Receives, WillSend

LEMMA ReadBeginsKeeps ==
  ASSUME UsbInv, ReadBegins
  PROVE  UsbInv'
<1>1. UNCHANGED <<tx, txOn, txWritten, txSent, txWrapped, txEarly, rx, uartIn, rxGot, uartState>>
      /\ usbMain' = [do |-> "read", read |-> rx.read, write |-> rx.write]
  BY DEF ReadBegins, txVars
<1>2. usbMain'.do = "read" /\ usbMain'.read = rx.read /\ usbMain'.write = rx.write
  BY <1>1
<1>3. rx.write \in Places /\ Used(rx) = Dist(rx.read, rx.write) /\ Used(rx) \in Nat
  BY UsbFacts, UsedIs
<1>4. Writes' /\ Reads'
  BY <1>1, <1>2, <1>3 DEF Writes, Reads
<1> QED
  BY <1>1, <1>4 DEF UsbInv, UsbTypes, Sends, Receives, WillSend

LEMMA ByteArrivesKeeps ==
  ASSUME UsbInv, ByteArrives
  PROVE  UsbInv'
<1> DEFINE got == Len(rxGot)
           k == Len(uartIn)
           one == <<Arrived + 1>>
<1>1. UNCHANGED <<tx, txOn, txWritten, txSent, txWrapped, txEarly, rx, rxGot, uartState, usbMain>>
      /\ uartIn' = Append(uartIn, Arrived + 1)
  BY DEF ByteArrives, txVars
<1>2. Numbers(uartIn, got + Used(rx)) /\ got \in Nat /\ k \in Nat /\ Used(rx) \in Nat
  BY UsbFacts
<1>3. Arrived = got + Used(rx) + k
  BY DEF Arrived
<1>4. uartIn \in Seq(Nat) /\ Arrived + 1 \in Nat /\ \A i \in 1 .. k : uartIn[i] = got + Used(rx) + i
  BY <1>2, <1>3 DEF Numbers
<1>5. /\ uartIn' \in Seq(Nat) /\ Len(uartIn') = k + 1
      /\ \A i \in 1 .. k + 1 : uartIn'[i] = IF i <= k THEN uartIn[i] ELSE Arrived + 1
  BY <1>1, <1>4, AppendProperties
<1>6. \A i \in 1 .. k + 1 : uartIn'[i] = got + Used(rx) + i
  <2> SUFFICES ASSUME NEW i \in 1 .. k + 1 PROVE uartIn'[i] = got + Used(rx) + i
    OBVIOUS
  <2>1. uartIn'[i] = IF i <= k THEN uartIn[i] ELSE Arrived + 1
    BY <1>5
  <2>2. i \in 1 .. k => uartIn[i] = got + Used(rx) + i
    BY <1>4
  <2> HIDE DEF got, k
  <2> QED
    BY ONLY <1>2, <1>3, <2>1, <2>2, i \in 1 .. k + 1
<1>7. Receives'
  BY <1>1, <1>5, <1>6 DEF UsbInv, Receives, Numbers
<1> QED
  BY <1>1, <1>7 DEF UsbInv, UsbTypes, Sends, Writes, Reads, WillSend

LEMMA CheckUartKeeps ==
  ASSUME UsbInv, NEW next \in {"baud", "failed", "ready"}, CheckUart(next)
  PROVE  UsbInv'
<1>1. UNCHANGED <<tx, txWritten, txSent, txWrapped, rx, uartIn, rxGot, usbMain>>
      /\ uartState' = next /\ txEarly' = (next = "ready" /\ (Used(tx) > 0 \/ usbMain.do = "write"))
  BY DEF CheckUart, rxVars
<1>2. WillSend'
  BY <1>1 DEF WillSend
<1> QED
  BY <1>1, <1>2 DEF UsbInv, UsbTypes, Sends, Receives, Writes, Reads

LEMMA UsbInvIsKept == UsbInv /\ [UsbNext]_usbVars => UsbInv'
<1> SUFFICES ASSUME UsbInv, [UsbNext]_usbVars PROVE UsbInv'
  OBVIOUS
<1>1. ASSUME NEW n \in 1 .. usbBudget.out, WriteBegins(n) PROVE UsbInv'
  <2>1. n \in Nat \ {0}
    OBVIOUS
  <2> QED
    BY <1>1, <2>1, WriteBeginsKeeps
<1>2. ASSUME NEW k \in 0 .. RINGMAX - 1, WriteEnds(k) PROVE UsbInv'
  BY <1>2, WriteEndsKeeps
<1>3. ASSUME NEW k \in 0 .. RINGMAX - 1, TxInterrupt(k) PROVE UsbInv'
  BY <1>3, TxInterruptKeeps
<1>4. CASE ByteArrives
  BY <1>4, ByteArrivesKeeps
<1>5. CASE RxInterrupt
  BY <1>5, RxInterruptKeeps
<1>6. CASE ReadBegins
  BY <1>6, ReadBeginsKeeps
<1>7. CASE ReadEnds
  BY <1>7, ReadEndsKeeps
<1>8. CASE ReadCancelled
  <2>1. UNCHANGED <<tx, txOn, txWritten, txSent, txWrapped, txEarly, rx, uartIn, rxGot, uartState>>
        /\ usbMain'.do = "none"
    BY <1>8 DEF ReadCancelled, txVars, rxVars, NotBusy
  <2> QED
    BY <2>1 DEF UsbInv, UsbTypes, Sends, Receives, Writes, Reads, WillSend
<1>9. ASSUME NEW next \in {"baud", "failed", "ready"}, CheckUart(next) PROVE UsbInv'
  BY <1>9, CheckUartKeeps
<1>10. CASE UsbCleanup
  <2>1. usbMain' = NotBusy /\ txWrapped' \in BOOLEAN
    BY <1>10 DEF UsbCleanup, UsbMain, UsbInv, UsbTypes
  <2> QED
    BY <1>10, <2>1, NothingLeft DEF UsbCleanup
<1>11. CASE InterruptWithoutRings
  <2>1. txWrapped' \in BOOLEAN
    BY <1>11 DEF InterruptWithoutRings, UsbFails, UsbInv, UsbTypes
  <2> QED
    BY <1>11, <2>1, NothingLeft DEF InterruptWithoutRings, UsbFails
<1>12. CASE UNCHANGED usbVars
  BY <1>12 DEF usbVars, UsbInv, UsbTypes, Sends, Receives, Writes, Reads, WillSend
<1> QED
  BY <1>1, <1>2, <1>3, <1>4, <1>5, <1>6, <1>7, <1>8, <1>9, <1>10, <1>11, <1>12 DEF UsbNext

LEMMA FreshIsKept == UsbInv /\ Fresh /\ [UsbNext]_usbVars => Fresh'
<1> SUFFICES ASSUME UsbInv, Fresh, [UsbNext]_usbVars PROVE Fresh'
  OBVIOUS
<1>0. /\ Used(rx) \in Nat /\ rx.read \in Places /\ rx.write \in Places
      /\ usbMain.do = "read" => Dist(rx.read, usbMain.write) \in Nat
  <2>1. usbMain.do = "read" => Dist(rx.read, usbMain.write) \in Places
    BY UsbFacts, DistIs DEF UsbInv, Reads
  <2> QED
    BY <2>1, UsbFacts, UsbAssumption DEF Places
\* Main reads nothing, before and after; the ring is as it was.
<1>1. ASSUME UNCHANGED rxVars, usbMain.do # "read" \/ usbMain'.do # "read",
             usbMain'.do # "read" \/ usbMain' = usbMain
      PROVE  Fresh'
  BY <1>0, <1>1 DEF Fresh, rxVars
<1>2. ASSUME NEW n \in 1 .. usbBudget.out, WriteBegins(n) PROVE Fresh'
  <2>1. usbMain'.do = "write" /\ UNCHANGED rxVars
    BY <1>2 DEF WriteBegins
  <2> QED
    BY <1>1, <2>1
<1>3. ASSUME NEW k \in 0 .. RINGMAX - 1, WriteEnds(k) PROVE Fresh'
  <2>1. usbMain'.do = "none" /\ UNCHANGED rxVars
    BY <1>3 DEF WriteEnds, NotBusy
  <2> QED
    BY <1>1, <2>1
<1>4. ASSUME UNCHANGED <<rx, usbEvents, rxBlank, rxCrowded, usbMain>> PROVE Fresh'
  BY <1>4 DEF Fresh
<1>5. ASSUME NEW k \in 0 .. RINGMAX - 1, TxInterrupt(k) PROVE Fresh'
  BY <1>4, <1>5 DEF TxInterrupt, rxVars
<1>6. CASE ByteArrives
  BY <1>4, <1>6 DEF ByteArrives
<1>7. CASE RxInterrupt
  <2> DEFINE k == Least(Len(uartIn), Room(rx))
  <2>1. rx'.read = rx.read /\ k \in Nat /\ Used(rx') >= Used(rx) + k /\ Used(rx') \in Nat
    <3>1. UsbInv'
      BY <1>7, RxInterruptKeeps
    <3>2. Used(rx') \in Places
      BY <3>1, UsedIs DEF UsbInv, UsbTypes
    <3>3. Used(rx') \in Nat
      BY <3>2, UsbAssumption DEF Places
    <3> QED
      BY <1>7, <3>3, RxInterruptKeeps
  <2>2. /\ usbEvents' = Least(usbEvents + 1, UsbEvents)
        /\ rxCrowded' = (rxCrowded \/ usbEvents > 0 \/ k = 0)
        /\ UNCHANGED <<rxBlank, usbMain>>
    BY <1>7 DEF RxInterrupt
  <2> HIDE DEF k
  <2>3. SUFFICES ASSUME ~rxCrowded'
                 PROVE  /\ ~rxBlank' /\ usbEvents' \in {0, 1}
                        /\ usbMain'.do = "read" => usbMain'.read = rx'.read /\ usbMain'.write # rx'.read
                        /\ usbEvents' = 1 =>
                             Used(rx') > (IF usbMain'.do = "read" THEN Dist(rx'.read, usbMain'.write) ELSE 0)
    BY Zenon DEF Fresh
  <2>4. ~rxCrowded /\ ~(usbEvents > 0) /\ k # 0
    BY <2>2, <2>3, Zenon
  <2>5. usbEvents = 0
    BY <2>4 DEF Fresh
  <2>6. usbEvents' \in {0, 1}
    BY <2>2, <2>5, UsbAssumption DEF Least
  <2>7. Used(rx') > Used(rx)
    BY <1>0, <2>1, <2>4
  <2>8. usbMain.do = "read" => Dist(rx.read, usbMain.write) <= Used(rx)
    BY DEF UsbInv, Reads
  <2>9. Used(rx') > (IF usbMain.do = "read" THEN Dist(rx.read, usbMain.write) ELSE 0)
    BY ONLY <1>0, <2>1, <2>7, <2>8
  <2> QED
    BY <2>1, <2>2, <2>4, <2>6, <2>9 DEF Fresh
<1>8. CASE ReadBegins
  <2>1. /\ usbMain.do = "none" /\ usbEvents > 0 /\ usbEvents' = usbEvents - 1
        /\ UNCHANGED <<rx, rxBlank, rxCrowded>>
        /\ usbMain' = [do |-> "read", read |-> rx.read, write |-> rx.write]
    BY <1>8 DEF ReadBegins, UsbMain, NotBusy
  <2>2. usbMain'.do = "read" /\ usbMain'.read = rx.read /\ usbMain'.write = rx.write
    BY <2>1
  <2> SUFFICES ASSUME ~rxCrowded
               PROVE  ~rxBlank /\ usbEvents' = 0 /\ rx.write # rx.read
    BY <2>1, <2>2 DEF Fresh
  <2>3. ~rxBlank /\ usbEvents = 1 /\ Used(rx) > 0
    BY <2>1 DEF Fresh
  <2>4. rx.write # rx.read
    <3>1. Used(rx) = (IF rx.write >= rx.read THEN rx.write - rx.read ELSE rx.write + RINGMAX - rx.read)
      BY <1>0, UsbFacts, UsedIs, DistIs
    <3> QED
      BY <1>0, <2>3, <3>1, UsbAssumption DEF Places
  <2> QED
    BY <2>1, <2>3, <2>4
<1>9. CASE ReadEnds
  <2>1. /\ usbMain.do = "read" /\ usbMain'.do = "none" /\ UNCHANGED <<usbEvents, rxCrowded>>
        /\ rxBlank' = (rxBlank \/ usbMain.read = usbMain.write)
    BY <1>9 DEF ReadEnds, NotBusy
  <2>2. Used(rx') = Used(rx) - Dist(rx.read, usbMain.write)
    BY <1>9, ReadEndsKeeps
  <2> SUFFICES ASSUME ~rxCrowded
               PROVE  ~rxBlank' /\ usbEvents \in {0, 1} /\ (usbEvents = 1 => Used(rx') > 0)
    BY <2>1 DEF Fresh
  <2> DEFINE d == Dist(rx.read, usbMain.write)
  <2>3. usbMain.read = rx.read /\ usbMain.write # rx.read /\ ~rxBlank /\ usbEvents \in {0, 1}
        /\ (usbEvents = 1 => Used(rx) > d)
    BY <2>1 DEF Fresh
  <2>4. ~rxBlank'
    BY <2>1, <2>3, Zenon
  <2>5. d \in Nat /\ Used(rx') = Used(rx) - d
    BY <1>0, <2>1, <2>2
  <2> HIDE DEF d
  <2>6. usbEvents = 1 => Used(rx') > 0
    BY ONLY <1>0, <2>3, <2>5
  <2> QED
    BY ONLY <2>3, <2>4, <2>6
<1>10. CASE ReadCancelled
  <2>1. usbMain'.do = "none" /\ UNCHANGED rxVars
    BY <1>10 DEF ReadCancelled, NotBusy
  <2> QED
    BY <1>1, <2>1
<1>11. ASSUME NEW next \in {"baud", "failed", "ready"}, CheckUart(next) PROVE Fresh'
  BY <1>4, <1>11 DEF CheckUart, rxVars
\* Everything is given up.
<1>12. ASSUME usbMain'.do = "none", usbEvents' = 0, UNCHANGED <<rxBlank, rxCrowded>> PROVE Fresh'
  BY <1>12 DEF Fresh
<1>13. CASE UsbCleanup
  BY <1>12, <1>13 DEF UsbCleanup, UsbMain, NotBusy
<1>14. CASE InterruptWithoutRings
  BY <1>12, <1>14 DEF InterruptWithoutRings, UsbFails, NotBusy
<1>15. CASE UNCHANGED usbVars
  BY <1>4, <1>15 DEF usbVars
<1> QED
  BY <1>2, <1>3, <1>5, <1>6, <1>7, <1>8, <1>9, <1>10, <1>11, <1>13, <1>14, <1>15 DEF UsbNext

LEMMA UsbInvHolds == UsbInv /\ Fresh => UsbDelivers
<1> SUFFICES ASSUME UsbInv, Fresh PROVE UsbDelivers
  OBVIOUS
<1>1. ASSUME ~txWrapped PROVE txSent \o Held(tx) = txWritten
  <2> DEFINE f == Len(txSent)
             held == Held(tx)
             all == txSent \o held
  <2>1. /\ Numbers(txSent, 0) /\ Numbers(txWritten, 0) /\ f \in Nat /\ Carries(tx, f)
        /\ f + Used(tx) = Len(txWritten) /\ tx \in Ring
    BY <1>1, LenProperties, UsbFacts DEF UsbInv, Sends, Numbers
  <2>2. Numbers(held, f) /\ Len(held) = Used(tx)
    <3> HIDE DEF f
    <3> QED
      BY ONLY <2>1, HeldAre
  <2>3. Numbers(held, 0 + Len(txSent)) /\ 0 \in Nat
    BY <2>1, <2>2
  <2> HIDE DEF held
  <2>4. Numbers(all, 0) /\ Len(all) = Len(txSent) + Len(held)
    BY ONLY <2>1, <2>3, NumbersJoin
  <2>5. Len(all) = Len(txWritten)
    BY <2>1, <2>2, <2>4
  <2> HIDE DEF all, f
  <2>6. all = [i \in 1 .. Len(all) |-> i] /\ txWritten = [i \in 1 .. Len(txWritten) |-> i]
    BY ONLY <2>1, <2>4, NumbersAre
  <2>7. all = txWritten
    BY <2>5, <2>6
  <2> QED
    BY <2>7 DEF all, held
<1>2. rxGot \o Held(rx) \o uartIn = [i \in 1 .. Arrived |-> i]
  <2> DEFINE f == Len(rxGot)
             held == Held(rx)
             part == rxGot \o held
             all == part \o uartIn
  <2>1. /\ Numbers(rxGot, 0) /\ f \in Nat /\ Carries(rx, f) /\ rx \in Ring /\ Used(rx) \in Nat
        /\ Numbers(uartIn, f + Used(rx)) /\ Len(uartIn) \in Nat
    BY UsbFacts
  <2>2. Numbers(held, f) /\ Len(held) = Used(rx)
    <3> HIDE DEF f
    <3> QED
      BY ONLY <2>1, HeldAre
  <2>3. Numbers(held, 0 + Len(rxGot)) /\ 0 \in Nat
    BY <2>1, <2>2
  <2> HIDE DEF held
  <2>4. Numbers(part, 0) /\ Len(part) = Len(rxGot) + Len(held)
    BY ONLY <2>1, <2>3, NumbersJoin
  <2>5. Numbers(uartIn, 0 + Len(part)) /\ Len(part) = f + Used(rx)
    BY <2>1, <2>2, <2>4
  <2> HIDE DEF part
  <2>6. Numbers(all, 0) /\ Len(all) = Len(part) + Len(uartIn)
    BY ONLY <2>3, <2>4, <2>5, NumbersJoin
  <2> HIDE DEF all
  <2>7. all = [i \in 1 .. Len(all) |-> i]
    BY ONLY <2>6, NumbersAre
  <2>8. Len(all) = Arrived
    BY <2>5, <2>6 DEF Arrived
  <2> QED
    BY <2>7, <2>8 DEF all, part, held
<1>3. BytesInOrder
  BY <1>1, <1>2 DEF BytesInOrder
<1>4. WrittenWillBeSent
  BY DEF UsbInv, WillSend, WrittenWillBeSent
<1>5. BlankIsExplained
  BY DEF Fresh, BlankIsExplained
<1> QED
  BY <1>3, <1>4, <1>5 DEF UsbDelivers

-----------------------------------------------------------------------------
(***************************************************************************)
(* What waits for main of pins and the serial line (module Pins).          *)
(***************************************************************************)
PinItems ==
  [of : {"gpio"}, p : Nat, value : {0, 1}] \cup [of : {"uart"}, data : Seq(Nat)]
  \cup [of : {"aio"}, a : Nat] \cup [of : {"flush"}]

\* What the last of a pin's signals tells, or the script knows when there is none.
OfPin(item, p) == item.of = "gpio" /\ item.p = p
ToldIn(ring, p, known, last) ==
  /\ \A i \in 1 .. Len(ring) :
       OfPin(ring[i], p) /\ (\A j \in i + 1 .. Len(ring) : ~OfPin(ring[j], p)) => ring[i].value = last
  /\ (\A i \in 1 .. Len(ring) : ~OfPin(ring[i], p)) => known = last

\* The bytes that wait, which came at once.
DataOf(item) == IF item.of = "uart" THEN item.data ELSE <<>>
Datas(ring) == [i \in DOMAIN ring |-> DataOf(ring[i])]
Waiting(ring) == FlattenSeq(Datas(ring))
NoneOf(ring) == \A i \in 1 .. Len(ring) : ring[i].of # "uart"
Waits(ring, size) ==
  /\ \A i \in 1 .. Len(ring) :
       ring[i].of = "uart" =>
         /\ Len(ring[i].data) = size /\ Waiting(ring) = ring[i].data
         /\ \A j \in 1 .. Len(ring) : ring[j].of = "uart" => i = j
  /\ NoneOf(ring) => Waiting(ring) = <<>>

LEMMA ItemIs ==
  ASSUME NEW item \in PinItems
  PROVE  /\ item.of = "gpio" => item.p \in Nat /\ item.value \in {0, 1}
         /\ item.of = "uart" => item.data \in Seq(Nat)
         /\ item.of = "aio" => item.a \in Nat
         /\ DataOf(item) \in Seq(Nat)
<1>1. CASE item \in [of : {"gpio"}, p : Nat, value : {0, 1}]
  BY <1>1 DEF DataOf
<1>2. CASE item \in [of : {"uart"}, data : Seq(Nat)]
  BY <1>2 DEF DataOf
<1>3. CASE item \in [of : {"aio"}, a : Nat]
  BY <1>3 DEF DataOf
<1>4. CASE item \in [of : {"flush"}]
  BY <1>4 DEF DataOf
<1> QED
  BY <1>1, <1>2, <1>3, <1>4 DEF PinItems

LEMMA AppendIs ==
  ASSUME NEW S, NEW s \in Seq(S), NEW e \in S, NEW t, t = Append(s, e)
  PROVE  /\ t \in Seq(S) /\ Len(t) = Len(s) + 1 /\ Len(s) \in Nat
         /\ (\A i \in 1 .. Len(s) : t[i] = s[i]) /\ t[Len(s) + 1] = e
<1>1. Len(s) \in Nat /\ s \in Seq(S) /\ e \in S
  BY LenProperties
<1>2. /\ t \in Seq(S) /\ Len(t) = Len(s) + 1
      /\ \A i \in 1 .. Len(s) + 1 : t[i] = IF i <= Len(s) THEN s[i] ELSE e
  BY <1>1, AppendProperties
<1>3. /\ \A i \in 1 .. Len(s) : i \in 1 .. Len(s) + 1 /\ i <= Len(s)
      /\ Len(s) + 1 \in 1 .. Len(s) + 1 /\ ~(Len(s) + 1 <= Len(s))
  BY <1>1
<1> QED
  BY ONLY <1>1, <1>2, <1>3

LEMMA TailIs ==
  ASSUME NEW S, NEW s \in Seq(S), s # <<>>, NEW t, t = Tail(s)
  PROVE  /\ t \in Seq(S) /\ Len(t) = Len(s) - 1 /\ Len(s) \in Nat \ {0} /\ Head(s) \in S /\ Head(s) = s[1]
         /\ \A i \in 1 .. Len(s) - 1 : t[i] = s[i + 1]
<1>1. Len(s) \in Nat /\ Len(s) # 0
  BY LenProperties, EmptySeq
<1>2. /\ Tail(s) \in Seq(S) /\ Len(Tail(s)) = Len(s) - 1
      /\ \A i \in 1 .. Len(Tail(s)) : Tail(s)[i] = s[i + 1]
  BY <1>1, HeadTailProperties
<1>3. Head(s) \in S /\ Head(s) = s[1]
  BY <1>1, HeadTailProperties
<1> QED
  BY <1>1, <1>2, <1>3

LEMMA TellsNoMore ==
  ASSUME NEW ring \in Seq(PinItems), NEW item \in PinItems, NEW p, NEW known, NEW last,
         ~OfPin(item, p), ToldIn(ring, p, known, last), NEW new, new = Append(ring, item)
  PROVE  ToldIn(new, p, known, last)
<1> DEFINE n == Len(ring)
<1>1. Len(new) = n + 1 /\ n \in Nat /\ (\A i \in 1 .. n : new[i] = ring[i]) /\ new[n + 1] = item
  BY AppendIs
<1>2. \A i \in 1 .. n :
        OfPin(ring[i], p) /\ (\A j \in i + 1 .. n : ~OfPin(ring[j], p)) => ring[i].value = last
  BY DEF ToldIn
<1>3. (\A i \in 1 .. n : ~OfPin(ring[i], p)) => known = last
  BY DEF ToldIn
<1> HIDE DEF n
<1>4. ASSUME NEW i \in 1 .. n + 1, OfPin(new[i], p), \A j \in i + 1 .. n + 1 : ~OfPin(new[j], p)
      PROVE  new[i].value = last
  <2>1. i \in 1 .. n /\ new[i] = ring[i]
    BY <1>1, <1>4
  <2>2. \A j \in i + 1 .. n : j \in 1 .. n /\ j \in i + 1 .. n + 1
    BY <1>1, <2>1
  <2>3. \A j \in i + 1 .. n : ~OfPin(ring[j], p)
    BY <1>1, <1>4, <2>2
  <2> QED
    BY <1>2, <1>4, <2>1, <2>3
<1>5. ASSUME \A i \in 1 .. n + 1 : ~OfPin(new[i], p) PROVE known = last
  <2>1. \A i \in 1 .. n : i \in 1 .. n + 1
    BY <1>1
  <2> QED
    BY <1>1, <1>3, <1>5, <2>1
<1> QED
  BY <1>1, <1>4, <1>5 DEF ToldIn

LEMMA TellsNew ==
  ASSUME NEW ring \in Seq(PinItems), NEW item \in PinItems, NEW p, NEW known, OfPin(item, p),
         NEW new, new = Append(ring, item)
  PROVE  ToldIn(new, p, known, item.value)
<1> DEFINE n == Len(ring)
<1>1. Len(new) = n + 1 /\ n \in Nat /\ new[n + 1] = item
  BY AppendIs
<1> HIDE DEF n
<1>2. ASSUME NEW i \in 1 .. n + 1, \A j \in i + 1 .. n + 1 : ~OfPin(new[j], p) PROVE i = n + 1
  <2>1. i # n + 1 => n + 1 \in i + 1 .. n + 1
    BY <1>1
  <2> QED
    BY <1>1, <1>2, <2>1
<1>3. n + 1 \in 1 .. n + 1
  BY <1>1
<1> QED
  BY <1>1, <1>2, <1>3 DEF ToldIn

LEMMA TellsLess ==
  ASSUME NEW ring \in Seq(PinItems), ring # <<>>, NEW p, NEW known, NEW last, ToldIn(ring, p, known, last),
         NEW then, then = IF OfPin(Head(ring), p) THEN Head(ring).value ELSE known,
         NEW new, new = Tail(ring)
  PROVE  ToldIn(new, p, then, last)
<1> DEFINE n == Len(ring)
           m == Len(new)
<1>1. m = n - 1 /\ n \in Nat \ {0} /\ Head(ring) = ring[1] /\ \A i \in 1 .. n - 1 : new[i] = ring[i + 1]
  BY TailIs
<1>2. \A i \in 1 .. n :
        OfPin(ring[i], p) /\ (\A j \in i + 1 .. n : ~OfPin(ring[j], p)) => ring[i].value = last
  BY DEF ToldIn
<1>3. (\A i \in 1 .. n : ~OfPin(ring[i], p)) => known = last
  BY DEF ToldIn
<1> HIDE DEF n, m
<1>0. \A j \in 2 .. n : j - 1 \in 1 .. m /\ new[j - 1] = ring[j]
  <2> SUFFICES ASSUME NEW j \in 2 .. n PROVE j - 1 \in 1 .. m /\ new[j - 1] = ring[j]
    OBVIOUS
  <2>1. j - 1 \in 1 .. n - 1 /\ (j - 1) + 1 = j /\ m = n - 1
    BY <1>1
  <2>2. new[j - 1] = ring[(j - 1) + 1]
    BY <1>1, <2>1
  <2> QED
    BY <2>1, <2>2
<1>4. ASSUME NEW i \in 1 .. m, OfPin(new[i], p), \A j \in i + 1 .. m : ~OfPin(new[j], p)
      PROVE  new[i].value = last
  <2>0. i \in 1 .. n - 1 /\ i + 1 \in 1 .. n /\ m \in Nat
    BY ONLY <1>1, i \in 1 .. m
  <2>1. i + 1 \in 1 .. n /\ new[i] = ring[i + 1] /\ m \in Nat
    BY <1>1, <2>0
  <2>2. \A j \in (i + 1) + 1 .. n : j \in 2 .. n /\ j - 1 \in i + 1 .. m
    BY <1>1, <2>1
  <2>3. \A j \in (i + 1) + 1 .. n : ~OfPin(ring[j], p)
    BY <1>0, <1>4, <2>2
  <2> QED
    BY <1>2, <1>4, <2>1, <2>3
<1>5. ASSUME \A i \in 1 .. m : ~OfPin(new[i], p) PROVE then = last
  <2>1. \A j \in 2 .. n : ~OfPin(ring[j], p)
    BY <1>0, <1>5
  <2>2. CASE OfPin(ring[1], p)
    <3>1. 1 \in 1 .. n /\ \A j \in 1 + 1 .. n : j \in 2 .. n
      BY <1>1
    <3> QED
      BY <1>1, <1>2, <2>1, <2>2, <3>1
  <2>3. CASE ~OfPin(ring[1], p)
    <3>1. \A j \in 1 .. n : j = 1 \/ j \in 2 .. n
      BY <1>1
    <3> QED
      BY <1>1, <1>3, <2>1, <2>3, <3>1
  <2> QED
    BY <2>2, <2>3
<1> QED
  BY <1>1, <1>4, <1>5 DEF ToldIn, m

-----------------------------------------------------------------------------
LEMMA DatasAre ==
  ASSUME NEW ring \in Seq(PinItems)
  PROVE  Datas(ring) \in Seq(Seq(Nat)) /\ Len(Datas(ring)) = Len(ring)
         /\ \A i \in 1 .. Len(ring) : Datas(ring)[i] = DataOf(ring[i])
<1>1. Len(ring) \in Nat /\ DOMAIN ring = 1 .. Len(ring)
  BY LenProperties
<1>2. \A i \in 1 .. Len(ring) : DataOf(ring[i]) \in Seq(Nat)
  BY ItemIs, ElementOfSeq
<1> QED
  BY <1>1, <1>2 DEF Datas

LEMMA WaitingAppend ==
  ASSUME NEW ring \in Seq(PinItems), NEW item \in PinItems, NEW new, new = Append(ring, item)
  PROVE  Waiting(new) = Waiting(ring) \o DataOf(item) /\ Waiting(ring) \in Seq(Nat)
<1> DEFINE old == Datas(ring)
           d == DataOf(item)
<1>1. new \in Seq(PinItems) /\ Len(new) = Len(ring) + 1 /\ Len(ring) \in Nat
      /\ (\A i \in 1 .. Len(ring) : new[i] = ring[i]) /\ new[Len(ring) + 1] = item
  BY AppendIs
<1>2. /\ old \in Seq(Seq(Nat)) /\ Len(old) = Len(ring)
      /\ \A i \in 1 .. Len(ring) : old[i] = DataOf(ring[i])
  BY DatasAre
<1>3. /\ Datas(new) \in Seq(Seq(Nat)) /\ Len(Datas(new)) = Len(new)
      /\ \A i \in 1 .. Len(new) : Datas(new)[i] = DataOf(new[i])
  BY <1>1, DatasAre
<1>4. d \in Seq(Nat)
  BY ItemIs
<1> HIDE DEF old
<1>5. /\ Append(old, d) \in Seq(Seq(Nat)) /\ Len(Append(old, d)) = Len(old) + 1
      /\ (\A i \in 1 .. Len(old) : Append(old, d)[i] = old[i]) /\ Append(old, d)[Len(old) + 1] = d
  BY <1>2, <1>4, AppendIs
<1>6. Datas(new) = Append(old, d)
  <2>1. \A i \in 1 .. Len(new) : Datas(new)[i] = Append(old, d)[i]
    <3> SUFFICES ASSUME NEW i \in 1 .. Len(ring) + 1 PROVE Datas(new)[i] = Append(old, d)[i]
      BY <1>1
    <3>1. i \in 1 .. Len(ring) \/ i = Len(ring) + 1
      BY <1>1
    <3> QED
      BY <1>1, <1>2, <1>3, <1>5, <3>1
  <2>2. Len(Datas(new)) = Len(Append(old, d))
    BY <1>1, <1>2, <1>3, <1>5
  <2> HIDE DEF d
  <2>3. Datas(new) \in Seq(Seq(Nat)) /\ Append(old, d) \in Seq(Seq(Nat))
    BY <1>3, <1>5
  <2> QED
    BY <1>3, <2>1, <2>2, <2>3, SeqEqual
<1>7. FlattenSeq(Append(old, d)) = FlattenSeq(old) \o d
  BY <1>2, <1>4, FlattenAppend
<1>8. FlattenSeq(old) \in Seq(Nat)
  BY <1>2, FlattenType
<1> QED
  BY <1>6, <1>7, <1>8 DEF Waiting, old

LEMMA WaitingTail ==
  ASSUME NEW ring \in Seq(PinItems), ring # <<>>, NEW new, new = Tail(ring)
  PROVE  /\ Waiting(ring) = DataOf(Head(ring)) \o Waiting(new) /\ Waiting(new) \in Seq(Nat)
         /\ DataOf(Head(ring)) \in Seq(Nat)
<1> DEFINE old == Datas(ring)
           n == Len(ring)
<1>1. new \in Seq(PinItems) /\ Len(new) = n - 1 /\ n \in Nat \ {0}
      /\ Head(ring) \in PinItems /\ Head(ring) = ring[1] /\ \A i \in 1 .. n - 1 : new[i] = ring[i + 1]
  BY TailIs
<1>2. /\ old \in Seq(Seq(Nat)) /\ Len(old) = n
      /\ \A i \in 1 .. n : old[i] = DataOf(ring[i])
  BY DatasAre, Zenon
<1>3. /\ Datas(new) \in Seq(Seq(Nat)) /\ Len(Datas(new)) = Len(new)
      /\ \A i \in 1 .. Len(new) : Datas(new)[i] = DataOf(new[i])
  BY <1>1, DatasAre, Zenon
<1> HIDE DEF old, n
<1>4. old # <<>>
  BY <1>1, <1>2
<1>5. /\ Tail(old) \in Seq(Seq(Nat)) /\ Len(Tail(old)) = n - 1 /\ Head(old) = old[1]
      /\ \A i \in 1 .. n - 1 : Tail(old)[i] = old[i + 1]
  BY <1>2, <1>4, TailIs
<1>6. Datas(new) = Tail(old)
  <2>1. \A i \in 1 .. n - 1 : Datas(new)[i] = Tail(old)[i]
    <3> SUFFICES ASSUME NEW i \in 1 .. n - 1 PROVE Datas(new)[i] = Tail(old)[i]
      OBVIOUS
    <3>1. i + 1 \in 1 .. n
      BY <1>1
    <3> QED
      BY <1>1, <1>2, <1>3, <1>5, <3>1
  <2>2. Len(Datas(new)) = n - 1
    BY <1>1, <1>3
  <2> QED
    BY <1>3, <1>5, <2>1, <2>2, SeqEqual
<1>7. FlattenSeq(old) = Head(old) \o FlattenSeq(Tail(old))
  BY <1>2, <1>4, FlattenTail
<1>8. Head(old) = DataOf(Head(ring))
  BY <1>1, <1>2, <1>5
<1>9. FlattenSeq(Datas(new)) \in Seq(Nat) /\ DataOf(Head(ring)) \in Seq(Nat)
  BY <1>1, <1>3, FlattenType, ItemIs
<1> QED
  BY <1>6, <1>7, <1>8, <1>9 DEF Waiting, old

LEMMA WaitsMore ==
  ASSUME NEW ring \in Seq(PinItems), NEW item \in PinItems, item.of # "uart", NEW new, new = Append(ring, item)
  PROVE  /\ Waiting(new) = Waiting(ring) /\ (NoneOf(ring) => NoneOf(new))
         /\ \A size : Waits(ring, size) => Waits(new, size)
<1> DEFINE n == Len(ring)
<1>1. Len(new) = n + 1 /\ n \in Nat /\ (\A i \in 1 .. n : new[i] = ring[i]) /\ new[n + 1] = item
  BY AppendIs
<1>2. Waiting(new) = Waiting(ring)
  <2>1. Waiting(new) = Waiting(ring) \o <<>> /\ Waiting(ring) \in Seq(Nat)
    BY WaitingAppend DEF DataOf
  <2> QED
    BY <2>1
<1> HIDE DEF n
<1>3. \A i \in 1 .. n + 1 : (i \in 1 .. n /\ new[i] = ring[i]) \/ (i = n + 1 /\ new[i].of # "uart")
  <2> SUFFICES ASSUME NEW i \in 1 .. n + 1, i # n + 1 PROVE i \in 1 .. n /\ new[i] = ring[i]
    BY <1>1
  <2>1. i \in 1 .. n
    BY <1>1
  <2> QED
    BY <1>1, <2>1
<1>4. \A i \in 1 .. n : i \in 1 .. n + 1 /\ new[i] = ring[i]
  BY <1>1
<1>5. (NoneOf(ring) => NoneOf(new)) /\ (NoneOf(new) => NoneOf(ring))
  BY <1>1, <1>3, <1>4 DEF NoneOf, n
<1>6. ASSUME NEW size, Waits(ring, size) PROVE Waits(new, size)
  <2>1. \A i \in 1 .. n :
          ring[i].of = "uart" =>
            /\ Len(ring[i].data) = size /\ Waiting(ring) = ring[i].data
            /\ \A j \in 1 .. n : ring[j].of = "uart" => i = j
    BY <1>6 DEF Waits, n
  <2>2. \A i \in 1 .. n + 1 :
          new[i].of = "uart" =>
            /\ Len(new[i].data) = size /\ Waiting(new) = new[i].data
            /\ \A j \in 1 .. n + 1 : new[j].of = "uart" => i = j
    BY ONLY <1>2, <1>3, <2>1
  <2>3. NoneOf(new) => Waiting(new) = <<>>
    BY <1>2, <1>5, <1>6 DEF Waits
  <2> QED
    BY <1>1, <2>2, <2>3 DEF Waits
<1> QED
  BY <1>2, <1>5, <1>6

LEMMA WaitsNew ==
  ASSUME NEW ring \in Seq(PinItems), NEW item \in PinItems, item.of = "uart", NEW new, new = Append(ring, item),
         NoneOf(ring), NEW size, Waits(ring, size)
  PROVE  Waiting(new) = item.data /\ Waits(new, Len(item.data))
<1> DEFINE n == Len(ring)
<1>1. Len(new) = n + 1 /\ n \in Nat /\ (\A i \in 1 .. n : new[i] = ring[i]) /\ new[n + 1] = item
  BY AppendIs
<1>2. Waiting(new) = item.data
  <2>1. Waiting(new) = Waiting(ring) \o item.data /\ item.data \in Seq(Nat)
    BY WaitingAppend, ItemIs DEF DataOf
  <2>2. Waiting(ring) = <<>>
    BY DEF Waits
  <2> QED
    BY <2>1, <2>2
<1>3. \A i \in 1 .. n : ring[i].of # "uart"
  BY DEF NoneOf
<1> HIDE DEF n
<1>4. \A i \in 1 .. n + 1 : new[i].of = "uart" => i = n + 1 /\ new[i] = item
  <2>1. \A i \in 1 .. n + 1 : i \in 1 .. n \/ i = n + 1
    BY <1>1
  <2> QED
    BY <1>1, <1>3, <2>1
<1>5. ~NoneOf(new)
  <2>1. n + 1 \in 1 .. n + 1
    BY <1>1
  <2> QED
    BY <1>1, <2>1 DEF NoneOf
<1> QED
  BY <1>1, <1>2, <1>4, <1>5 DEF Waits

LEMMA WaitsLess ==
  ASSUME NEW ring \in Seq(PinItems), ring # <<>>, NEW new, new = Tail(ring), NEW size, Waits(ring, size)
  PROVE  /\ Head(ring).of # "uart" => Waiting(new) = Waiting(ring) /\ Waits(new, size)
         /\ Head(ring).of = "uart" =>
              /\ Len(Head(ring).data) = size /\ Waiting(ring) = Head(ring).data
              /\ Waiting(new) = <<>> /\ NoneOf(new)
         /\ NoneOf(ring) => NoneOf(new)
<1> DEFINE n == Len(ring)
           m == Len(new)
<1>1. m = n - 1 /\ n \in Nat \ {0} /\ Head(ring) = ring[1] /\ \A i \in 1 .. n - 1 : new[i] = ring[i + 1]
  BY TailIs
<1>2. Waiting(ring) = DataOf(Head(ring)) \o Waiting(new) /\ Waiting(new) \in Seq(Nat)
      /\ DataOf(Head(ring)) \in Seq(Nat)
  BY WaitingTail
<1>3. \A i \in 1 .. n :
        ring[i].of = "uart" =>
          /\ Len(ring[i].data) = size /\ Waiting(ring) = ring[i].data
          /\ \A j \in 1 .. n : ring[j].of = "uart" => i = j
  BY DEF Waits
<1> HIDE DEF n, m
<1>4. \A i \in 1 .. m : i + 1 \in 1 .. n /\ i + 1 # 1 /\ new[i] = ring[i + 1]
  <2>1. \A i \in 1 .. m : i \in 1 .. n - 1 /\ i + 1 \in 1 .. n /\ i + 1 # 1
    BY ONLY <1>1
  <2> QED
    BY <1>1, <2>1
<1>5. \A j \in 1 .. n : j = 1 \/ (j - 1 \in 1 .. m /\ new[j - 1] = ring[j])
  <2> SUFFICES ASSUME NEW j \in 1 .. n, j # 1 PROVE j - 1 \in 1 .. m /\ new[j - 1] = ring[j]
    OBVIOUS
  <2>1. j - 1 \in 1 .. n - 1 /\ (j - 1) + 1 = j /\ j - 1 \in 1 .. m
    BY <1>1
  <2>2. new[j - 1] = ring[(j - 1) + 1]
    BY <1>1, <2>1
  <2> QED
    BY <2>1, <2>2
<1>6. NoneOf(ring) => NoneOf(new)
  BY <1>4 DEF NoneOf, n, m
<1>7. 1 \in 1 .. n
  BY <1>1
<1>8. ASSUME Head(ring).of # "uart" PROVE Waiting(new) = Waiting(ring) /\ Waits(new, size)
  <2>1. Waiting(new) = Waiting(ring)
    <3> DEFINE w == Waiting(new)
    <3>1. DataOf(Head(ring)) = <<>>
      BY <1>8 DEF DataOf
    <3>2. Waiting(ring) = <<>> \o w /\ w \in Seq(Nat)
      BY <1>2, <3>1
    <3> HIDE DEF w
    <3>3. Waiting(ring) = w
      BY ONLY <3>2, ConcatEmptySeq
    <3> QED
      BY <3>3 DEF w
  <2>2. NoneOf(new) => NoneOf(ring)
    BY <1>1, <1>5, <1>8 DEF NoneOf, n, m
  <2>3. ASSUME NEW i \in 1 .. m, new[i].of = "uart"
        PROVE  /\ Len(new[i].data) = size /\ Waiting(new) = new[i].data
               /\ \A j \in 1 .. m : new[j].of = "uart" => i = j
    <3>1. i + 1 \in 1 .. n /\ new[i] = ring[i + 1]
      BY <1>4
    <3>2. \A j \in 1 .. m : new[j].of = "uart" => i + 1 = j + 1
      BY <1>3, <1>4, <2>3, <3>1
    <3>3. \A j \in 1 .. m : i + 1 = j + 1 => i = j
      OBVIOUS
    <3> QED
      BY <1>3, <2>1, <2>3, <3>1, <3>2, <3>3
  <2>4. NoneOf(new) => Waiting(new) = <<>>
    BY <2>1, <2>2 DEF Waits
  <2> QED
    BY <2>1, <2>3, <2>4 DEF Waits, m
<1>9. ASSUME Head(ring).of = "uart"
      PROVE  /\ Len(Head(ring).data) = size /\ Waiting(ring) = Head(ring).data
             /\ Waiting(new) = <<>> /\ NoneOf(new)
  <2>1. Len(Head(ring).data) = size /\ Waiting(ring) = Head(ring).data
        /\ \A j \in 1 .. n : ring[j].of = "uart" => 1 = j
    BY <1>1, <1>3, <1>7, <1>9
  <2>2. Waiting(new) = <<>>
    <3> DEFINE d == Head(ring).data
               w == Waiting(new)
    <3>1. d \in Seq(Nat) /\ w \in Seq(Nat) /\ d = d \o w
      BY <1>2, <1>9, <2>1 DEF DataOf
    <3> HIDE DEF d, w
    <3>2. w = <<>>
      <4>1. Len(d) = Len(d) + Len(w) /\ Len(d) \in Nat /\ Len(w) \in Nat
        BY ONLY <3>1, ConcatProperties, LenProperties
      <4> QED
        BY <3>1, <4>1, EmptySeq
    <3> QED
      BY <3>2 DEF w
  <2>3. NoneOf(new)
    BY <1>4, <2>1 DEF NoneOf, m
  <2> QED
    BY <2>1, <2>2, <2>3
<1> QED
  BY <1>6, <1>8, <1>9

-----------------------------------------------------------------------------
(***************************************************************************)
(* The invariant of pins and the serial line.                              *)
(***************************************************************************)
GpioRecs == [edge : {"any", "rising"}, level : {0, 1}, last : {0, 1}, armed : BOOLEAN,
             closed : BOOLEAN, pending : BOOLEAN, high : BOOLEAN]
GpioTypes == gpios \in Seq(GpioRecs) /\ onchange \in Seq({0, 1}) /\ Len(onchange) = Len(gpios)
AioTypes == aios \in Seq([listed : BOOLEAN, held : BOOLEAN, last : Nat])
LineRecs == [step : {"none", "irq", "handle", "ready", "range"}, cap : Nat, size : Nat, min : Nat,
             max : Nat, left : Nat, sent : BOOLEAN]
LineTypes == uart \in LineRecs /\ uartRx \in Seq(Nat) /\ reads \in Seq(Nat)
BudgetTypes == pinBudget \in [gpios : Nat, aios : Nat, changes : Nat, bytes : Nat]
RingTypes(ring, n) ==
  /\ ring \in Seq(PinItems)
  /\ \A i \in 1 .. Len(ring) : ring[i].of = "gpio" => ring[i].p \in 1 .. n
PinTypes == GpioTypes /\ AioTypes /\ LineTypes /\ BudgetTypes /\ RingTypes(pinRing, Len(gpios))

\* What main will be told of the pins that the property is about.
Told ==
  \A p \in 1 .. Len(gpios) :
    gpios[p].edge = "any" /\ ~gpios[p].closed /\ ~gpios[p].high /\ p \notin missed =>
      /\ ~gpios[p].pending => gpios[p].level = gpios[p].last
      /\ ToldIn(pinRing, p, onchange[p], gpios[p].last)

\* The bytes that were read, wait or come, down to the next one.
Descends(s, b) == s \in Seq(Nat) /\ \A i \in 1 .. Len(s) : s[i] = b + 1 + Len(s) - i
Early == {"none", "irq", "handle"}
InOrder ==
  ~overrun =>
    /\ Waits(pinRing, uart.size) /\ (uart.step \in Early => NoneOf(pinRing))
    /\ Descends(reads \o Waiting(pinRing) \o uartRx, pinBudget.bytes)

PinsInv == PinTypes /\ Told /\ InOrder

LEMMA NothingWaits ==
  /\ RingTypes(<<>>, 0) /\ Waiting(<<>>) = <<>> /\ NoneOf(<<>>) /\ \A size : Waits(<<>>, size)
  /\ \A b : Descends(<<>> \o Waiting(<<>>) \o <<>>, b)
<1>1. Datas(<<>>) = <<>>
  BY DEF Datas
<1>2. Waiting(<<>>) = <<>>
  BY <1>1 DEF Waiting, FlattenSeq
<1>3. <<>> \in Seq(Nat) /\ Len(<<>>) = 0 /\ <<>> \o <<>> = <<>> /\ <<>> \in Seq(PinItems)
  BY EmptySeq, ConcatEmptySeq
<1>4. \A b : Descends(<<>> \o Waiting(<<>>) \o <<>>, b)
  <2> DEFINE bytes == <<>> \o Waiting(<<>>) \o <<>>
  <2>1. bytes = <<>>
    BY <1>2, <1>3
  <2> HIDE DEF bytes
  <2>2. \A b : Descends(bytes, b)
    BY <1>3, <2>1 DEF Descends
  <2> QED
    BY <2>2 DEF bytes
<1> QED
  BY <1>2, <1>3, <1>4 DEF RingTypes, NoneOf, Waits

LEMMA PinFailsKeeps ==
  ASSUME PinsInv, NEW reason, PinFails(reason)
  PROVE  PinsInv'
<1>1. /\ gpios' = <<>> /\ aios' = <<>> /\ uart' = NoUart /\ uartRx' = <<>> /\ pinRing' = <<>>
      /\ onchange' = <<>> /\ reads' = <<>> /\ overrun' = FALSE /\ pinBudget' = pinBudget
  BY DEF PinFails
<1>2. NoUart \in LineRecs
  BY DEF NoUart, LineRecs
<1>3. PinTypes'
  <2>1. RingTypes(pinRing, Len(gpios))'
    BY <1>1, NothingWaits
  <2> QED
    BY <1>1, <1>2, <2>1 DEF PinsInv, PinTypes, GpioTypes, AioTypes, LineTypes, BudgetTypes
<1>4. Told'
  BY <1>1 DEF Told
<1>5. InOrder'
  BY <1>1, NothingWaits DEF InOrder
<1> QED
  BY <1>3, <1>4, <1>5 DEF PinsInv

LEMMA PinsBegin == PinsInit => PinsInv
<1> SUFFICES ASSUME PinsInit PROVE PinsInv
  OBVIOUS
<1>1. /\ gpios = <<>> /\ aios = <<>> /\ uart = NoUart /\ uartRx = <<>> /\ pinRing = <<>>
      /\ onchange = <<>> /\ reads = <<>> /\ overrun = FALSE
  BY DEF PinsInit
<1>2. NoUart \in LineRecs /\ BudgetTypes
  BY PinsAssumption DEF NoUart, LineRecs, BudgetTypes, PinsInit
<1>3. PinTypes
  BY <1>1, <1>2, NothingWaits DEF PinTypes, GpioTypes, AioTypes, LineTypes
<1>4. Told
  BY <1>1 DEF Told
<1>5. InOrder
  BY <1>1, NothingWaits DEF InOrder
<1> QED
  BY <1>3, <1>4, <1>5 DEF PinsInv

-----------------------------------------------------------------------------
\* The ways in which the ring changes but for the bytes of the line.
Joined(kinds) == \E item \in PinItems : item.of \in kinds /\ pinRing' = Append(pinRing, item)
Left(kinds) == pinRing # <<>> /\ Head(pinRing).of \in kinds /\ pinRing' = Tail(pinRing)
NotBytes == {"gpio", "aio", "flush"}
NotPins == {"uart", "aio", "flush"}

LEMMA OrderStays ==
  ASSUME PinsInv, UNCHANGED pinRing \/ Joined(NotBytes) \/ Left(NotBytes),
         UNCHANGED <<reads, uartRx, overrun>>, uart'.size = uart.size,
         uart'.step \in Early => uart.step \in Early, pinBudget'.bytes = pinBudget.bytes
  PROVE  InOrder'
<1> SUFFICES ASSUME ~overrun
             PROVE  /\ Waits(pinRing', uart.size) /\ (uart.step \in Early => NoneOf(pinRing'))
                    /\ Waiting(pinRing') = Waiting(pinRing)
  BY DEF PinsInv, InOrder
<1>1. Waits(pinRing, uart.size) /\ (uart.step \in Early => NoneOf(pinRing)) /\ pinRing \in Seq(PinItems)
  BY DEF PinsInv, InOrder, PinTypes, RingTypes
<1>2. CASE UNCHANGED pinRing
  BY <1>1, <1>2
<1>3. CASE Joined(NotBytes)
  <2>1. PICK item \in PinItems : item.of # "uart" /\ pinRing' = Append(pinRing, item)
    BY <1>3 DEF Joined, NotBytes
  <2>2. /\ Waiting(pinRing') = Waiting(pinRing) /\ (NoneOf(pinRing) => NoneOf(pinRing'))
        /\ \A size : Waits(pinRing, size) => Waits(pinRing', size)
    BY <1>1, <2>1, WaitsMore
  <2> QED
    BY <1>1, <2>2
<1>4. CASE Left(NotBytes)
  <2>1. pinRing # <<>> /\ Head(pinRing).of # "uart" /\ pinRing' = Tail(pinRing)
    BY <1>4 DEF Left, NotBytes
  <2> DEFINE size == uart.size
  <2>2. Waits(pinRing, size)
    BY <1>1
  <2> HIDE DEF size
  <2>3. /\ Head(pinRing).of # "uart" => Waiting(pinRing') = Waiting(pinRing) /\ Waits(pinRing', size)
        /\ NoneOf(pinRing) => NoneOf(pinRing')
    BY <1>1, <2>1, <2>2, WaitsLess
  <2> QED
    BY <1>1, <2>1, <2>3 DEF size
<1> QED
  BY <1>2, <1>3, <1>4

LEMMA ToldStays ==
  ASSUME PinsInv, UNCHANGED pinRing \/ Joined(NotPins) \/ Left(NotPins),
         UNCHANGED <<gpios, onchange, missed>>
  PROVE  Told'
<1>0. pinRing \in Seq(PinItems)
  BY DEF PinsInv, PinTypes, RingTypes
<1>1. ASSUME NEW p, NEW known, NEW last, ToldIn(pinRing, p, known, last)
      PROVE  ToldIn(pinRing', p, known, last)
  <2>1. CASE UNCHANGED pinRing
    BY <1>1, <2>1
  <2>2. CASE Joined(NotPins)
    <3>1. PICK item \in PinItems : ~OfPin(item, p) /\ pinRing' = Append(pinRing, item)
      BY <2>2 DEF Joined, NotPins, OfPin
    <3> QED
      BY <1>0, <1>1, <3>1, TellsNoMore
  <2>3. CASE Left(NotPins)
    <3>1. pinRing # <<>> /\ pinRing' = Tail(pinRing) /\ ~OfPin(Head(pinRing), p)
      BY <2>3 DEF Left, NotPins, OfPin
    <3>2. known = IF OfPin(Head(pinRing), p) THEN Head(pinRing).value ELSE known
      BY <3>1
    <3> QED
      BY <1>0, <1>1, <3>1, <3>2, TellsLess
  <2> QED
    BY <2>1, <2>2, <2>3
<1> QED
  BY <1>1 DEF PinsInv, Told

LEMMA RingStays ==
  ASSUME NEW n \in Nat, RingTypes(pinRing, n),
         \/ UNCHANGED pinRing
         \/ \E item \in PinItems : (item.of = "gpio" => item.p \in 1 .. n) /\ pinRing' = Append(pinRing, item)
         \/ pinRing # <<>> /\ pinRing' = Tail(pinRing)
  PROVE  RingTypes(pinRing', n)
<1>0. pinRing \in Seq(PinItems) /\ Len(pinRing) \in Nat
  BY LenProperties DEF RingTypes
<1>1. CASE UNCHANGED pinRing
  BY <1>1
<1>2. CASE \E item \in PinItems : (item.of = "gpio" => item.p \in 1 .. n) /\ pinRing' = Append(pinRing, item)
  <2>1. PICK item \in PinItems : (item.of = "gpio" => item.p \in 1 .. n) /\ pinRing' = Append(pinRing, item)
    BY <1>2
  <2>2. /\ pinRing' \in Seq(PinItems) /\ Len(pinRing') = Len(pinRing) + 1
        /\ (\A i \in 1 .. Len(pinRing) : pinRing'[i] = pinRing[i]) /\ pinRing'[Len(pinRing) + 1] = item
    BY <1>0, <2>1, AppendIs
  <2>3. \A i \in 1 .. Len(pinRing') : i \in 1 .. Len(pinRing) \/ i = Len(pinRing) + 1
    BY <1>0, <2>2
  <2> QED
    BY <2>1, <2>2, <2>3 DEF RingTypes
<1>3. CASE pinRing # <<>> /\ pinRing' = Tail(pinRing)
  <2>1. /\ pinRing' \in Seq(PinItems) /\ Len(pinRing') = Len(pinRing) - 1
        /\ \A i \in 1 .. Len(pinRing) - 1 : pinRing'[i] = pinRing[i + 1]
    BY <1>0, <1>3, TailIs
  <2>2. \A i \in 1 .. Len(pinRing') : i \in 1 .. Len(pinRing) - 1 /\ i + 1 \in 1 .. Len(pinRing)
    BY <1>0, <2>1
  <2> QED
    BY <2>1, <2>2 DEF RingTypes
<1> QED
  BY <1>1, <1>2, <1>3

LEMMA SpendIs ==
  ASSUME BudgetTypes, NEW what \in {"gpios", "aios", "changes", "bytes"}, Spend(what)
  PROVE  /\ BudgetTypes' /\ (what # "bytes" => pinBudget'.bytes = pinBudget.bytes)
         /\ what = "bytes" => pinBudget.bytes \in Nat \ {0} /\ pinBudget'.bytes = pinBudget.bytes - 1
<1>1. pinBudget[what] \in Nat \ {0} /\ pinBudget' = [pinBudget EXCEPT ![what] = pinBudget[what] - 1]
  BY DEF BudgetTypes, Spend
<1>2. pinBudget[what] - 1 \in Nat
  BY <1>1
<1> QED
  BY <1>1, <1>2 DEF BudgetTypes

-----------------------------------------------------------------------------
LEMMA PinFacts ==
  ASSUME PinsInv
  PROVE  /\ gpios \in Seq(GpioRecs) /\ onchange \in Seq({0, 1}) /\ Len(onchange) = Len(gpios)
         /\ Len(gpios) \in Nat /\ \A p \in 1 .. Len(gpios) : gpios[p] \in GpioRecs /\ onchange[p] \in {0, 1}
         /\ pinRing \in Seq(PinItems) /\ RingTypes(pinRing, Len(gpios)) /\ DOMAIN gpios = 1 .. Len(gpios)
         /\ pinRing # <<>> => Head(pinRing) \in PinItems
                              /\ (Head(pinRing).of = "gpio" => Head(pinRing).p \in 1 .. Len(gpios))
         /\ uart \in LineRecs /\ uartRx \in Seq(Nat) /\ reads \in Seq(Nat) /\ BudgetTypes /\ AioTypes
<1>1. /\ gpios \in Seq(GpioRecs) /\ onchange \in Seq({0, 1}) /\ Len(onchange) = Len(gpios)
      /\ RingTypes(pinRing, Len(gpios))
      /\ uart \in LineRecs /\ uartRx \in Seq(Nat) /\ reads \in Seq(Nat) /\ BudgetTypes /\ AioTypes
  BY DEF PinsInv, PinTypes, GpioTypes, LineTypes
<1>2. Len(gpios) \in Nat /\ DOMAIN gpios = 1 .. Len(gpios)
  BY <1>1, LenProperties
<1>3. \A p \in 1 .. Len(gpios) : gpios[p] \in GpioRecs /\ onchange[p] \in {0, 1}
  BY <1>1, ElementOfSeq
<1>4. pinRing \in Seq(PinItems) /\ \A i \in 1 .. Len(pinRing) : pinRing[i].of = "gpio" => pinRing[i].p \in 1 .. Len(gpios)
  BY <1>1 DEF RingTypes
<1>5. ASSUME pinRing # <<>>
      PROVE  Head(pinRing) \in PinItems /\ (Head(pinRing).of = "gpio" => Head(pinRing).p \in 1 .. Len(gpios))
  <2>1. Head(pinRing) \in PinItems /\ Head(pinRing) = pinRing[1] /\ Len(pinRing) \in Nat \ {0}
    BY <1>4, <1>5, TailIs
  <2>2. 1 \in 1 .. Len(pinRing)
    BY <2>1
  <2> QED
    BY <1>4, <2>1, <2>2
<1> QED
  BY <1>1, <1>2, <1>3, <1>4, <1>5

LEMMA ChangedAt ==
  ASSUME NEW S, NEW s \in Seq(S), NEW i \in 1 .. Len(s), NEW e \in S, NEW t, t = [s EXCEPT ![i] = e]
  PROVE  /\ t \in Seq(S) /\ Len(t) = Len(s) /\ t[i] = e
         /\ \A j \in 1 .. Len(s) : j # i => t[j] = s[j]
<1>1. Len(s) \in Nat /\ DOMAIN s = 1 .. Len(s)
  BY LenProperties
<1>2. t \in Seq(S) /\ Len(t) = Len(s)
  BY ExceptSeq
<1> QED
  BY <1>1, <1>2

\* A signal of a pin or of the analog inputs, when there is room for it.
LEMMA SignalJoins ==
  ASSUME NEW item \in PinItems, PinSignal(item)
  PROVE  UNCHANGED pinRing \/ pinRing' = Append(pinRing, item)
  BY DEF PinSignal

LEMMA GpioOpenBeginsKeeps ==
  ASSUME PinsInv, NEW edge \in {"any", "rising"}, NEW level \in {0, 1}, GpioOpenBegins(edge, level)
  PROVE  PinsInv'
<1> DEFINE new == [edge |-> edge, level |-> level, last |-> 0, armed |-> FALSE,
                   closed |-> FALSE, pending |-> FALSE, high |-> level = 1]
           n == Len(gpios)
<1>1. /\ gpios' = Append(gpios, new) /\ onchange' = Append(onchange, level) /\ Spend("gpios")
      /\ UNCHANGED <<aios, uart, uartRx, reads, overrun, pinRing, missed>>
  BY DEF GpioOpenBegins, uartVars
<1>2. new \in GpioRecs
  BY DEF GpioRecs
<1>3. /\ gpios' \in Seq(GpioRecs) /\ Len(gpios') = n + 1 /\ n \in Nat
      /\ (\A p \in 1 .. n : gpios'[p] = gpios[p]) /\ gpios'[n + 1] = new
  <2> HIDE DEF new
  <2> QED
    BY <1>1, <1>2, PinFacts, AppendIs
<1>4. /\ onchange' \in Seq({0, 1}) /\ Len(onchange') = n + 1
      /\ (\A p \in 1 .. n : onchange'[p] = onchange[p]) /\ onchange'[n + 1] = level
  <2>1. onchange \in Seq({0, 1}) /\ Len(onchange) = n
    BY PinFacts
  <2> QED
    BY <1>1, <2>1, AppendIs
<1>5. BudgetTypes' /\ pinBudget'.bytes = pinBudget.bytes
  BY <1>1, PinFacts, SpendIs
<1>6. RingTypes(pinRing', n + 1)
  BY <1>1, <1>3, PinFacts DEF RingTypes
<1>7. PinTypes'
  BY <1>1, <1>3, <1>4, <1>5, <1>6, PinFacts DEF PinTypes, GpioTypes, AioTypes, LineTypes
<1>8. InOrder'
  BY <1>1, <1>5, OrderStays
<1>9. Told'
  <2> SUFFICES ASSUME NEW p \in 1 .. n + 1, gpios'[p].edge = "any", ~gpios'[p].closed, ~gpios'[p].high,
                      p \notin missed
               PROVE  /\ ~gpios'[p].pending => gpios'[p].level = gpios'[p].last
                      /\ ToldIn(pinRing, p, onchange'[p], gpios'[p].last)
    BY <1>1, <1>3 DEF Told
  <2>1. CASE p \in 1 .. n
    BY <1>3, <1>4, <2>1 DEF PinsInv, Told
  <2>2. CASE p = n + 1
    <3>0. (new.high <=> level = 1) /\ new.level = level /\ new.last = 0 /\ gpios'[p] = new /\ onchange'[p] = level
      BY <1>3, <1>4, <2>2, Zenon
    <3>1. gpios'[p].level = 0 /\ gpios'[p].last = 0 /\ onchange'[p] = 0
      <4> HIDE DEF new
      <4> QED
        BY <3>0
    <3>2. \A i \in 1 .. Len(pinRing) : ~OfPin(pinRing[i], p)
      <4>1. n + 1 \notin 1 .. n
        BY <1>3
      <4> QED
        BY <2>2, <4>1, PinFacts DEF OfPin, RingTypes
    <3> QED
      BY <3>1, <3>2 DEF ToldIn
  <2> QED
    BY <1>3, <2>1, <2>2
<1> QED
  BY <1>7, <1>8, <1>9 DEF PinsInv

\* One pin is changed, and what main will be told stays true of it.
LEMMA OnePin ==
  ASSUME PinsInv, NEW p \in 1 .. Len(gpios), NEW new \in GpioRecs, gpios' = [gpios EXCEPT ![p] = new],
         UNCHANGED <<aios, uart, uartRx, reads, overrun, onchange>>,
         BudgetTypes', pinBudget'.bytes = pinBudget.bytes,
         \/ UNCHANGED pinRing
         \/ \E item \in PinItems : /\ item.of \in NotBytes /\ (item.of = "gpio" => item.p = p)
                                   /\ pinRing' = Append(pinRing, item),
         \A q \in 1 .. Len(gpios) : q # p => (q \in missed' <=> q \in missed),
         new.edge = "any" /\ ~new.closed /\ ~new.high /\ p \notin missed' =>
           /\ ~new.pending => new.level = new.last
           /\ ToldIn(pinRing', p, onchange[p], new.last)
  PROVE  PinsInv'
<1>0. gpios \in Seq(GpioRecs) /\ pinRing \in Seq(PinItems) /\ Len(gpios) \in Nat
  BY PinFacts
<1>1. gpios' \in Seq(GpioRecs) /\ Len(gpios') = Len(gpios) /\ gpios'[p] = new
      /\ \A q \in 1 .. Len(gpios) : q # p => gpios'[q] = gpios[q]
  BY <1>0, ChangedAt
<1>2. RingTypes(pinRing', Len(gpios))
  BY PinFacts, RingStays
<1>3. PinTypes'
  BY <1>1, <1>2, PinFacts DEF PinTypes, GpioTypes, AioTypes, LineTypes
<1>4. UNCHANGED pinRing \/ Joined(NotBytes)
  BY DEF Joined
<1>5. InOrder'
  BY <1>4, OrderStays
<1>6. ASSUME NEW q \in 1 .. Len(gpios), q # p, NEW last, ToldIn(pinRing, q, onchange[q], last)
      PROVE  ToldIn(pinRing', q, onchange[q], last)
  <2>1. CASE UNCHANGED pinRing
    BY <1>6, <2>1
  <2>2. CASE ~UNCHANGED pinRing
    <3>1. PICK item \in PinItems : (item.of = "gpio" => item.p = p) /\ pinRing' = Append(pinRing, item)
      BY <2>2
    <3>2. ~OfPin(item, q)
      BY <1>6, <3>1 DEF OfPin
    <3> QED
      BY <1>0, <1>6, <3>1, <3>2, TellsNoMore
  <2> QED
    BY <2>1, <2>2
<1>7. Told'
  <2> SUFFICES ASSUME NEW q \in 1 .. Len(gpios), gpios'[q].edge = "any", ~gpios'[q].closed, ~gpios'[q].high,
                      q \notin missed'
               PROVE  /\ ~gpios'[q].pending => gpios'[q].level = gpios'[q].last
                      /\ ToldIn(pinRing', q, onchange[q], gpios'[q].last)
    BY <1>1 DEF Told
  <2>1. CASE q = p
    BY <1>1, <2>1
  <2>2. CASE q # p
    BY <1>1, <1>6, <2>2 DEF PinsInv, Told
  <2> QED
    BY <2>1, <2>2
<1> QED
  BY <1>3, <1>5, <1>7 DEF PinsInv

LEMMA GpioOpenEndsKeeps ==
  ASSUME PinsInv, NEW p \in 1 .. Len(gpios), GpioOpenEnds(p)
  PROVE  PinsInv'
<1> DEFINE new == [gpios[p] EXCEPT !.armed = TRUE]
<1>1. /\ gpios' = [gpios EXCEPT ![p] = new]
      /\ UNCHANGED <<aios, uart, uartRx, reads, overrun, onchange, pinRing, missed, pinBudget>>
  BY DEF GpioOpenEnds, uartVars
<1>2. gpios[p] \in GpioRecs
  BY PinFacts
<1>3. /\ new \in GpioRecs /\ new.edge = gpios[p].edge /\ new.closed = gpios[p].closed
      /\ new.high = gpios[p].high /\ new.pending = gpios[p].pending /\ new.level = gpios[p].level
      /\ new.last = gpios[p].last
  BY <1>2 DEF GpioRecs
<1> HIDE DEF new
<1>4. new.edge = "any" /\ ~new.closed /\ ~new.high /\ p \notin missed' =>
        /\ ~new.pending => new.level = new.last
        /\ ToldIn(pinRing', p, onchange[p], new.last)
  BY <1>1, <1>3 DEF PinsInv, Told
<1>5. BudgetTypes' /\ pinBudget'.bytes = pinBudget.bytes
  BY <1>1, PinFacts DEF BudgetTypes
<1> QED
  BY <1>1, <1>3, <1>4, <1>5, OnePin

LEMMA LevelChangesKeeps ==
  ASSUME PinsInv, NEW p \in 1 .. Len(gpios), LevelChanges(p)
  PROVE  PinsInv'
<1> DEFINE pending == gpios[p].pending \/ gpios[p].edge = "any" \/ gpios[p].level = 0
           level == 1 - gpios[p].level
           new == [gpios[p] EXCEPT !.level = level, !.pending = pending]
<1>1. /\ gpios' = [gpios EXCEPT ![p] = new] /\ Spend("changes")
      /\ UNCHANGED <<aios, uart, uartRx, reads, overrun, onchange, pinRing, missed>>
  BY DEF LevelChanges, uartVars
<1>2. gpios[p] \in GpioRecs
  BY PinFacts
<1>3. /\ new \in GpioRecs /\ new.edge = gpios[p].edge /\ new.closed = gpios[p].closed
      /\ new.high = gpios[p].high /\ new.last = gpios[p].last
      /\ new.edge = "any" => new.pending
  <2>1. pending \in BOOLEAN /\ (gpios[p].edge = "any" => pending) /\ level \in {0, 1}
    BY <1>2 DEF GpioRecs
  <2> HIDE DEF pending, level
  <2> QED
    BY <1>2, <2>1 DEF GpioRecs
<1> HIDE DEF new
<1>4. new.edge = "any" /\ ~new.closed /\ ~new.high /\ p \notin missed' =>
        /\ ~new.pending => new.level = new.last
        /\ ToldIn(pinRing', p, onchange[p], new.last)
  BY <1>1, <1>3 DEF PinsInv, Told
<1>5. BudgetTypes' /\ pinBudget'.bytes = pinBudget.bytes
  BY <1>1, PinFacts, SpendIs
<1> QED
  BY <1>1, <1>3, <1>4, <1>5, OnePin

LEMMA GpioInterruptKeeps ==
  ASSUME PinsInv, NEW p \in 1 .. Len(gpios), GpioInterrupt(p)
  PROVE  PinsInv'
<1> DEFINE new == [gpios[p] EXCEPT !.pending = FALSE,
                                   !.last = IF Counts(p) THEN gpios[p].level ELSE gpios[p].last]
           item == [of |-> "gpio", p |-> p, value |-> gpios[p].level]
<1>1. /\ gpios' = [gpios EXCEPT ![p] = new]
      /\ IF Counts(p) /\ gpios[p].armed THEN PinSignal(item) ELSE UNCHANGED pinRing
      /\ missed' = IF Counts(p) /\ ~(gpios[p].armed /\ RoomLeft) THEN missed \cup {p} ELSE missed
      /\ UNCHANGED <<aios, uart, uartRx, reads, overrun, onchange, pinBudget>>
  BY DEF GpioInterrupt, uartVars
<1>2. gpios[p] \in GpioRecs /\ pinRing \in Seq(PinItems) /\ p \in Nat
  BY PinFacts
<1>3. item \in PinItems /\ item.of = "gpio" /\ item.p = p /\ item.value = gpios[p].level
  BY <1>2 DEF PinItems, GpioRecs
<1>4. /\ new \in GpioRecs /\ new.edge = gpios[p].edge /\ new.closed = gpios[p].closed
      /\ new.high = gpios[p].high /\ new.level = gpios[p].level
      /\ new.last = IF Counts(p) THEN gpios[p].level ELSE gpios[p].last
  BY <1>2 DEF GpioRecs
<1>5. Counts(p) = (gpios[p].armed /\ gpios[p].edge = "any" => gpios[p].level # gpios[p].last)
  BY DEF Counts
<1> HIDE DEF new, item
<1>6. UNCHANGED pinRing \/ pinRing' = Append(pinRing, item)
  BY <1>1 DEF PinSignal
<1>7. ASSUME new.edge = "any", ~new.closed, ~new.high, p \notin missed'
      PROVE  new.level = new.last /\ ToldIn(pinRing', p, onchange[p], new.last)
  <2>0. p \notin missed
    BY <1>1, <1>7
  <2>1. CASE Counts(p)
    <3>1. pinRing' = Append(pinRing, item)
      BY <1>1, <1>7, <2>1 DEF PinSignal
    <3>2. OfPin(item, p) /\ item.value = new.last
      BY <1>3, <1>4, <2>1 DEF OfPin
    <3>3. ToldIn(pinRing', p, onchange[p], item.value)
      BY <1>2, <1>3, <3>1, <3>2, TellsNew
    <3> QED
      BY <1>4, <2>1, <3>2, <3>3
  <2>2. CASE ~Counts(p)
    <3>1. gpios[p].level = gpios[p].last /\ UNCHANGED pinRing /\ new.last = gpios[p].last
      BY <1>1, <1>4, <1>5, <2>2
    <3>2. ToldIn(pinRing, p, onchange[p], gpios[p].last)
      BY <1>4, <1>7, <2>0 DEF PinsInv, Told
    <3> QED
      BY <1>4, <3>1, <3>2
  <2> QED
    BY <2>1, <2>2
<1>8. BudgetTypes' /\ pinBudget'.bytes = pinBudget.bytes
  BY <1>1, PinFacts DEF BudgetTypes
<1>9. item.of \in NotBytes
  BY <1>3 DEF NotBytes
<1>10. \A q \in 1 .. Len(gpios) : q # p => (q \in missed' <=> q \in missed)
  BY <1>1
<1> QED
  BY <1>1, <1>3, <1>4, <1>6, <1>7, <1>8, <1>9, <1>10, OnePin

LEMMA GpioCloseKeeps ==
  ASSUME PinsInv, NEW p \in 1 .. Len(gpios), GpioClose(p)
  PROVE  PinsInv'
<1> DEFINE new == [gpios[p] EXCEPT !.closed = TRUE, !.pending = FALSE]
           item == [of |-> "flush"]
<1>1. /\ gpios' = [gpios EXCEPT ![p] = new] /\ PinSignal(item)
      /\ UNCHANGED <<aios, uart, uartRx, reads, overrun, onchange, missed, pinBudget>>
  BY DEF GpioClose, uartVars
<1>2. gpios[p] \in GpioRecs
  BY PinFacts
<1>3. new \in GpioRecs /\ new.closed
  BY <1>2 DEF GpioRecs
<1>4. item \in PinItems /\ item.of \in NotBytes /\ item.of # "gpio"
  BY DEF PinItems, NotBytes
<1>5. BudgetTypes' /\ pinBudget'.bytes = pinBudget.bytes
  BY <1>1, PinFacts DEF BudgetTypes
<1> HIDE DEF new, item
<1>6. UNCHANGED pinRing \/ pinRing' = Append(pinRing, item)
  BY <1>1, <1>4, SignalJoins
<1> QED
  BY <1>1, <1>3, <1>4, <1>5, <1>6, OnePin

LEMMA GpioChangedKeeps ==
  ASSUME PinsInv, GpioChanged
  PROVE  PinsInv'
<1> DEFINE h == Head(pinRing)
           p == h.p
<1>1. /\ pinRing # <<>> /\ h.of = "gpio" /\ pinRing' = Tail(pinRing)
      /\ onchange' = IF gpios[p].closed THEN onchange ELSE [onchange EXCEPT ![p] = h.value]
      /\ UNCHANGED <<gpios, aios, uart, uartRx, reads, overrun, missed, pinBudget>>
  BY DEF GpioChanged, uartVars
<1>2. h \in PinItems /\ p \in 1 .. Len(gpios) /\ h.value \in {0, 1} /\ pinRing \in Seq(PinItems)
      /\ onchange \in Seq({0, 1}) /\ Len(onchange) = Len(gpios) /\ p \in 1 .. Len(onchange)
  BY <1>1, PinFacts, ItemIs
<1> HIDE DEF h, p
<1>3. /\ onchange' \in Seq({0, 1}) /\ Len(onchange') = Len(gpios)
      /\ ~gpios[p].closed => onchange'[p] = h.value
      /\ \A q \in 1 .. Len(gpios) : q # p => onchange'[q] = onchange[q]
  <2>1. CASE gpios[p].closed
    BY <1>1, <1>2, <2>1
  <2>2. CASE ~gpios[p].closed
    <3> DEFINE value == h.value
    <3>1. value \in {0, 1} /\ onchange' = [onchange EXCEPT ![p] = value]
      BY <1>1, <1>2, <2>2
    <3> HIDE DEF value
    <3>2. /\ onchange' \in Seq({0, 1}) /\ Len(onchange') = Len(onchange) /\ onchange'[p] = value
          /\ \A q \in 1 .. Len(onchange) : q # p => onchange'[q] = onchange[q]
      BY <1>2, <3>1, ChangedAt
    <3> QED
      BY <1>2, <3>2 DEF value
  <2> QED
    BY <2>1, <2>2
<1>4. RingTypes(pinRing', Len(gpios))
  BY <1>1, PinFacts, RingStays
<1>5. PinTypes'
  BY <1>1, <1>3, <1>4, PinFacts DEF PinTypes, GpioTypes, AioTypes, LineTypes, BudgetTypes
<1>6. Left(NotBytes)
  BY <1>1 DEF Left, NotBytes, h
<1>7. InOrder'
  BY <1>1, <1>6, OrderStays
<1>8. Told'
  <2> SUFFICES ASSUME NEW q \in 1 .. Len(gpios), gpios[q].edge = "any", ~gpios[q].closed, ~gpios[q].high,
                      q \notin missed
               PROVE  /\ ~gpios[q].pending => gpios[q].level = gpios[q].last
                      /\ ToldIn(pinRing', q, onchange'[q], gpios[q].last)
    BY <1>1 DEF Told
  <2>1. /\ ~gpios[q].pending => gpios[q].level = gpios[q].last
        /\ ToldIn(pinRing, q, onchange[q], gpios[q].last)
    BY DEF PinsInv, Told
  <2>2. onchange'[q] = IF OfPin(h, q) THEN h.value ELSE onchange[q]
    <3>1. OfPin(h, q) <=> q = p
      BY <1>1 DEF OfPin, p
    <3> QED
      BY <1>3, <3>1
  <2> DEFINE then == onchange'[q]
             known == onchange[q]
             last == gpios[q].last
  <2>3. then = (IF OfPin(Head(pinRing), q) THEN Head(pinRing).value ELSE known) /\ ToldIn(pinRing, q, known, last)
    BY <2>1, <2>2 DEF h
  <2> HIDE DEF then, known, last
  <2>4. ToldIn(pinRing', q, then, last)
    BY <1>1, <1>2, <2>3, TellsLess
  <2> QED
    BY <2>1, <2>4 DEF then, last
<1> QED
  BY <1>5, <1>7, <1>8 DEF PinsInv

-----------------------------------------------------------------------------
\* Steps that touch no pin.
LEMMA NoPin ==
  ASSUME PinsInv, UNCHANGED <<gpios, onchange, missed>>, AioTypes', LineTypes', BudgetTypes',
         UNCHANGED pinRing \/ Joined(NotPins) \/ Left(NotPins)
  PROVE  PinTypes' /\ Told'
<1>1. Told'
  BY ToldStays
<1>2. \/ UNCHANGED pinRing
      \/ \E item \in PinItems : (item.of = "gpio" => item.p \in 1 .. Len(gpios)) /\ pinRing' = Append(pinRing, item)
      \/ pinRing # <<>> /\ pinRing' = Tail(pinRing)
  BY DEF Joined, Left, NotPins
<1>3. RingTypes(pinRing', Len(gpios))
  BY <1>2, PinFacts, RingStays
<1> QED
  BY <1>1, <1>3 DEF PinTypes, GpioTypes, PinsInv

LEMMA PinFlushedKeeps ==
  ASSUME PinsInv, PinFlushed
  PROVE  PinsInv'
<1>1. UNCHANGED <<gpios, onchange, missed, aios, uart, uartRx, reads, overrun, pinBudget>>
      /\ pinRing # <<>> /\ pinRing' = Tail(pinRing) /\ Head(pinRing).of = "flush"
  BY DEF PinFlushed, gpioVars, uartVars
<1>2. Left(NotPins) /\ Left(NotBytes)
  BY <1>1 DEF Left, NotPins, NotBytes
<1>3. AioTypes' /\ LineTypes' /\ BudgetTypes'
  BY <1>1, PinFacts DEF AioTypes, LineTypes, BudgetTypes
<1> QED
  BY <1>1, <1>2, <1>3, NoPin, OrderStays DEF PinsInv

LEMMA AioKeeps ==
  ASSUME PinsInv, UNCHANGED <<gpios, onchange, missed, uart, uartRx, reads, overrun>>,
         AioTypes', BudgetTypes', pinBudget'.bytes = pinBudget.bytes,
         UNCHANGED pinRing \/ Joined({"aio"}) \/ Left({"aio"})
  PROVE  PinsInv'
<1>1. UNCHANGED pinRing \/ Joined(NotPins) \/ Left(NotPins)
  BY DEF Joined, Left, NotPins
<1>2. UNCHANGED pinRing \/ Joined(NotBytes) \/ Left(NotBytes)
  BY DEF Joined, Left, NotBytes
<1>3. LineTypes'
  BY PinFacts DEF LineTypes
<1> QED
  BY <1>1, <1>2, <1>3, NoPin, OrderStays DEF PinsInv

AioRecs == [listed : BOOLEAN, held : BOOLEAN, last : Nat]

LEMMA AioStepKeeps ==
  ASSUME PinsInv
  PROVE  /\ AioOpen => PinsInv'
         /\ \A a \in DOMAIN aios : AioClose(a) \/ AioCollected(a) => PinsInv'
         /\ \A a \in DOMAIN aios, value \in {1, 65535} : AioPoll(a, value) => PinsInv'
         /\ AioChanged => PinsInv'
<1>0. aios \in Seq(AioRecs) /\ BudgetTypes /\ DOMAIN aios = 1 .. Len(aios) /\ Len(aios) \in Nat
  BY PinFacts, LenProperties DEF AioTypes, AioRecs
<1>1. ASSUME NEW a \in 1 .. Len(aios), NEW new \in AioRecs, aios' = [aios EXCEPT ![a] = new]
      PROVE  AioTypes'
  BY <1>0, <1>1, ChangedAt DEF AioTypes, AioRecs
<1>2. \A a \in 1 .. Len(aios) : aios[a] \in AioRecs
  BY <1>0, ElementOfSeq
<1>3. ASSUME AioOpen PROVE PinsInv'
  <2> DEFINE new == [listed |-> TRUE, held |-> TRUE, last |-> 0]
  <2>1. /\ Spend("aios") /\ aios' = Append(aios, new)
        /\ UNCHANGED <<gpios, onchange, missed, uart, uartRx, reads, overrun, pinRing>>
    BY <1>3 DEF AioOpen, gpioVars, uartVars
  <2>2. new \in AioRecs
    BY DEF AioRecs
  <2> HIDE DEF new
  <2>3. AioTypes'
    BY <1>0, <2>1, <2>2, AppendIs DEF AioTypes, AioRecs
  <2>4. BudgetTypes' /\ pinBudget'.bytes = pinBudget.bytes
    BY <1>0, <2>1, SpendIs
  <2> QED
    BY <2>1, <2>3, <2>4, AioKeeps
<1>4. ASSUME NEW a \in 1 .. Len(aios), AioClose(a) \/ AioCollected(a) PROVE PinsInv'
  <2>1. UNCHANGED <<gpios, onchange, missed, uart, uartRx, reads, overrun, pinRing, pinBudget>>
    BY <1>4 DEF AioClose, AioCollected, gpioVars, uartVars
  <2>2. AioTypes'
    <3>1. CASE AioClose(a)
      <4> DEFINE new == [aios[a] EXCEPT !.listed = FALSE]
      <4>1. aios' = [aios EXCEPT ![a] = new]
        BY <3>1 DEF AioClose
      <4>2. new \in AioRecs
        BY <1>2 DEF AioRecs
      <4> HIDE DEF new
      <4> QED
        BY <1>1, <4>1, <4>2
    <3>2. CASE AioCollected(a)
      <4> DEFINE new == [aios[a] EXCEPT !.listed = FALSE, !.held = FALSE]
      <4>1. aios' = [aios EXCEPT ![a] = new]
        BY <3>2 DEF AioCollected
      <4>2. new \in AioRecs
        BY <1>2 DEF AioRecs
      <4> HIDE DEF new
      <4> QED
        BY <1>1, <4>1, <4>2
    <3> QED
      BY <1>4, <3>1, <3>2
  <2>3. BudgetTypes' /\ pinBudget'.bytes = pinBudget.bytes
    BY <1>0, <2>1 DEF BudgetTypes
  <2> QED
    BY <2>1, <2>2, <2>3, AioKeeps
<1>5. ASSUME NEW a \in 1 .. Len(aios), NEW value \in {1, 65535}, AioPoll(a, value) PROVE PinsInv'
  <2> DEFINE new == [aios[a] EXCEPT !.last = value]
             item == [of |-> "aio", a |-> a]
  <2>1. /\ Spend("changes") /\ PinSignal(item) /\ aios' = [aios EXCEPT ![a] = new]
        /\ UNCHANGED <<gpios, onchange, missed, uart, uartRx, reads, overrun>>
    BY <1>5 DEF AioPoll, gpioVars, uartVars
  <2>2. new \in AioRecs
    BY <1>2 DEF AioRecs
  <2>3. item \in PinItems /\ item.of \in {"aio"}
    <3>1. a \in Nat
      BY <1>0
    <3>2. item \in [of : {"aio"}, a : Nat] /\ item.of = "aio"
      BY <3>1
    <3> QED
      BY <3>2 DEF PinItems
  <2> HIDE DEF new, item
  <2>4. AioTypes'
    <3>1. aios' = [aios EXCEPT ![a] = new]
      BY <2>1
    <3>2. aios \in Seq(AioRecs) /\ new \in AioRecs /\ a \in 1 .. Len(aios)
      BY <1>0, <2>2
    <3>3. aios' \in Seq(AioRecs)
      BY ONLY <3>1, <3>2, ChangedAt
    <3> QED
      BY <3>3 DEF AioTypes, AioRecs
  <2>5. UNCHANGED pinRing \/ Joined({"aio"})
    BY <2>1, <2>3, SignalJoins DEF Joined
  <2>6. BudgetTypes' /\ pinBudget'.bytes = pinBudget.bytes
    BY <1>0, <2>1, SpendIs
  <2> QED
    BY <2>1, <2>4, <2>5, <2>6, AioKeeps
<1>6. ASSUME AioChanged PROVE PinsInv'
  <2>1. CASE PinFails("collected object")
    BY <2>1, PinFailsKeeps
  <2>2. CASE ~PinFails("collected object")
    <3>1. pinRing # <<>> /\ Head(pinRing).of = "aio" /\ pinRing' = Tail(pinRing)
          /\ UNCHANGED <<gpios, onchange, missed, aios, uart, uartRx, reads, overrun, pinBudget>>
      BY <1>6, <2>2 DEF AioChanged, gpioVars, uartVars
    <3>2. Left({"aio"})
      BY <3>1 DEF Left
    <3>3. AioTypes' /\ BudgetTypes' /\ pinBudget'.bytes = pinBudget.bytes
      BY <1>0, <3>1 DEF AioTypes, AioRecs, BudgetTypes
    <3> QED
      BY <3>1, <3>2, <3>3, AioKeeps
  <2> QED
    BY <2>1, <2>2
<1> QED
  BY <1>0, <1>3, <1>4, <1>5, <1>6

-----------------------------------------------------------------------------
\* Steps of the line that move no bytes.
LEMMA LineStepKeeps ==
  ASSUME PinsInv, NEW new \in LineRecs, uart' = new,
         new.size = uart.size, new.step \in Early => uart.step \in Early,
         UNCHANGED <<gpios, onchange, missed, aios, uartRx, reads, overrun, pinRing, pinBudget>>
  PROVE  PinsInv'
<1>1. AioTypes' /\ LineTypes' /\ BudgetTypes'
  BY PinFacts DEF AioTypes, LineTypes, BudgetTypes
<1> QED
  BY <1>1, NoPin, OrderStays DEF PinsInv

LEMMA UartInitKeeps ==
  ASSUME PinsInv, NEW step \in {"irq", "handle", "ready"}, UartInit(step)
  PROVE  PinsInv'
<1>1. /\ <<uart.step, step>> \in {<<"none", "irq">>, <<"irq", "handle">>, <<"handle", "ready">>}
      /\ UNCHANGED <<gpios, onchange, missed, aios, uartRx, reads, overrun, pinRing, pinBudget>>
  BY DEF UartInit, gpioVars
<1>2. uart \in LineRecs
  BY PinFacts
<1>3. CASE step # "handle"
  <2> DEFINE new == [uart EXCEPT !.step = step]
  <2>1. uart' = new
    BY <1>3 DEF UartInit
  <2>2. new \in LineRecs /\ new.size = uart.size /\ new.step = step
    BY <1>2 DEF LineRecs
  <2>3. step \in Early => uart.step \in Early
    BY <1>1 DEF Early
  <2> HIDE DEF new
  <2> QED
    BY <1>1, <2>1, <2>2, <2>3, LineStepKeeps
<1>4. CASE step = "handle"
  <2>1. uart' = [NoUart EXCEPT !.step = step, !.cap = 2, !.min = 1, !.max = 2]
    BY <1>4 DEF UartInit
  <2>2. uart' \in LineRecs
    BY <1>4, <2>1 DEF LineRecs, NoUart
  <2>3. AioTypes' /\ LineTypes' /\ BudgetTypes'
    BY <1>1, <2>2, PinFacts DEF AioTypes, LineTypes, BudgetTypes
  <2>4. PinTypes' /\ Told'
    BY <1>1, <2>3, NoPin
  <2>5. uart.step \in Early
    BY <1>1, <1>4 DEF Early
  <2>6. InOrder'
    <3> SUFFICES ASSUME ~overrun
                 PROVE  /\ Waits(pinRing, uart'.size) /\ NoneOf(pinRing)
                        /\ Descends(reads \o Waiting(pinRing) \o uartRx, pinBudget.bytes)
      BY <1>1 DEF InOrder
    <3>1. /\ Waits(pinRing, uart.size) /\ NoneOf(pinRing)
          /\ Descends(reads \o Waiting(pinRing) \o uartRx, pinBudget.bytes)
      BY <2>5 DEF PinsInv, InOrder
    <3> QED
      BY <3>1 DEF Waits, NoneOf
  <2> QED
    BY <2>4, <2>6 DEF PinsInv
<1> QED
  BY <1>3, <1>4

LEMMA LineKeeps ==
  ASSUME PinsInv
  PROVE  /\ \A r \in UartRanges : RangeBegins(r) => PinsInv'
         /\ RangeEnds => PinsInv'
         /\ WriteFills(2) => PinsInv'
         /\ TxReady => PinsInv'
         /\ \A takes \in BOOLEAN : WriteGoesOn(takes) => PinsInv'
<1>0. uart \in LineRecs
  BY PinFacts
<1>1. ASSUME NEW r \in UartRanges, RangeBegins(r) PROVE PinsInv'
  <2> DEFINE new == [uart EXCEPT !.step = "range", !.cap = r.max, !.min = r.min]
  <2>0. r.min \in Nat /\ r.max \in Nat
    BY PinsAssumption
  <2>1. uart' = new /\ UNCHANGED <<gpios, onchange, missed, aios, uartRx, reads, overrun, pinRing, pinBudget>>
    BY <1>1 DEF RangeBegins, gpioVars
  <2>2. new \in LineRecs /\ new.size = uart.size /\ new.step = "range"
    BY <1>0, <2>0 DEF LineRecs
  <2> HIDE DEF new
  <2> QED
    BY <2>1, <2>2, LineStepKeeps DEF Early
<1>2. ASSUME RangeEnds PROVE PinsInv'
  <2> DEFINE new == [uart EXCEPT !.step = "ready", !.max = uart.cap]
  <2>1. uart' = new /\ UNCHANGED <<gpios, onchange, missed, aios, uartRx, reads, overrun, pinRing, pinBudget>>
    BY <1>2 DEF RangeEnds, gpioVars
  <2>2. new \in LineRecs /\ new.size = uart.size /\ new.step = "ready"
    BY <1>0 DEF LineRecs
  <2> HIDE DEF new
  <2> QED
    BY <2>1, <2>2, LineStepKeeps DEF Early
<1>3. ASSUME WriteFills(2) PROVE PinsInv'
  <2> DEFINE new == [uart EXCEPT !.left = 2, !.sent = FALSE]
  <2>1. uart' = new /\ UNCHANGED <<gpios, onchange, missed, aios, uartRx, reads, overrun, pinRing, pinBudget>>
    BY <1>3 DEF WriteFills, gpioVars
  <2>2. new \in LineRecs /\ new.size = uart.size /\ new.step = uart.step
    BY <1>0 DEF LineRecs
  <2> HIDE DEF new
  <2> QED
    BY <2>1, <2>2, LineStepKeeps
<1>4. ASSUME TxReady PROVE PinsInv'
  <2> DEFINE new == [uart EXCEPT !.sent = TRUE]
  <2>1. uart' = new /\ UNCHANGED <<gpios, onchange, missed, aios, uartRx, reads, overrun, pinRing, pinBudget>>
    BY <1>4 DEF TxReady, gpioVars
  <2>2. new \in LineRecs /\ new.size = uart.size /\ new.step = uart.step
    BY <1>0 DEF LineRecs
  <2> HIDE DEF new
  <2> QED
    BY <2>1, <2>2, LineStepKeeps
<1>5. ASSUME NEW takes \in BOOLEAN, WriteGoesOn(takes) PROVE PinsInv'
  <2> DEFINE left == IF takes THEN uart.left - 1 ELSE 0
             new == [uart EXCEPT !.left = left, !.sent = FALSE]
  <2>0. left \in Nat
    BY <1>0, <1>5 DEF LineRecs, WriteGoesOn
  <2>1. uart' = new /\ UNCHANGED <<gpios, onchange, missed, aios, uartRx, reads, overrun, pinRing, pinBudget>>
    BY <1>5 DEF WriteGoesOn, gpioVars
  <2> HIDE DEF left
  <2>2. new \in LineRecs /\ new.size = uart.size /\ new.step = uart.step
    BY <1>0, <2>0 DEF LineRecs
  <2> HIDE DEF new
  <2> QED
    BY <2>1, <2>2, LineStepKeeps
<1> QED
  BY <1>1, <1>2, <1>3, <1>4, <1>5

-----------------------------------------------------------------------------
\* Steps that move bytes.
LEMMA DescendsOn ==
  ASSUME NEW b \in Nat \ {0}, NEW s, NEW line, s \in Seq(Nat), line \in Seq(Nat),
         NEW was, was = s \o line, Descends(was, b),
         NEW longer, longer = Append(line, b), NEW now, now = s \o longer
  PROVE  Descends(now, b - 1)
<1> DEFINE m == Len(s)
           n == Len(line)
           k == Len(longer)
<1>1. m \in Nat /\ n \in Nat /\ s \in Seq(Nat) /\ line \in Seq(Nat)
  BY LenProperties
<1>2. longer \in Seq(Nat) /\ k = n + 1 /\ (\A i \in 1 .. n : longer[i] = line[i]) /\ longer[n + 1] = b
  BY AppendIs
<1>3. Len(s) = m /\ Len(line) = n /\ Len(longer) = k
  OBVIOUS
<1> HIDE DEF m, n, k
<1>4. Len(was) = m + n /\ \A i \in 1 .. m + n : was[i] = IF i <= m THEN s[i] ELSE line[i - m]
  <2>1. /\ s \o line \in Seq(Nat) /\ Len(s \o line) = m + n
        /\ \A i \in 1 .. m + n : (s \o line)[i] = IF i <= m THEN s[i] ELSE line[i - m]
    <3>1. s \in Seq(Nat) /\ line \in Seq(Nat) /\ Len(s) = m /\ Len(line) = n
      BY <1>1, <1>3
    <3> QED
      BY ONLY <3>1, ConcatIs
  <2> QED
    BY <2>1
<1>5. /\ now \in Seq(Nat) /\ Len(now) = m + k
      /\ \A i \in 1 .. m + k : now[i] = IF i <= m THEN s[i] ELSE longer[i - m]
  <2>1. /\ s \o longer \in Seq(Nat) /\ Len(s \o longer) = m + k
        /\ \A i \in 1 .. m + k : (s \o longer)[i] = IF i <= m THEN s[i] ELSE longer[i - m]
    <3>1. s \in Seq(Nat) /\ longer \in Seq(Nat) /\ Len(s) = m /\ Len(longer) = k
      BY <1>1, <1>2, <1>3
    <3> QED
      BY ONLY <3>1, ConcatIs
  <2> QED
    BY <2>1
<1>6. \A i \in 1 .. m + n : was[i] = b + 1 + (m + n) - i
  BY <1>4 DEF Descends
<1>7. ASSUME NEW i \in 1 .. m + k PROVE now[i] = b - 1 + 1 + (m + k) - i
  <2>1. CASE i = m + k
    <3>1. ~(i <= m) /\ i - m = n + 1
      BY <1>1, <1>2, <2>1
    <3>2. now[i] = b
      BY <1>2, <1>5, <3>1
    <3> QED
      BY <1>1, <1>2, <2>1, <3>2
  <2>2. CASE i # m + k
    <3>1. i \in 1 .. m + n /\ (~(i <= m) => i - m \in 1 .. n)
      BY <1>1, <1>2, <2>2
    <3>2. now[i] = was[i]
      BY <1>2, <1>4, <1>5, <3>1
    <3>3. b + 1 + (m + n) - i = b - 1 + 1 + (m + k) - i
      BY <1>1, <1>2
    <3> QED
      BY <1>6, <3>1, <3>2, <3>3
  <2> QED
    BY <2>1, <2>2
<1> QED
  BY <1>5, <1>7 DEF Descends

LEMMA WaitingIs ==
  ASSUME PinsInv
  PROVE  Waiting(pinRing) \in Seq(Nat) /\ reads \o Waiting(pinRing) \in Seq(Nat)
<1>1. Waiting(pinRing) \in Seq(Nat)
  BY PinFacts, DatasAre, FlattenType DEF Waiting
<1> DEFINE w == Waiting(pinRing)
<1>2. w \in Seq(Nat) /\ reads \in Seq(Nat)
  BY <1>1, PinFacts
<1> HIDE DEF w
<1>3. reads \o w \in Seq(Nat)
  BY <1>2, ConcatIs
<1> QED
  BY <1>2, <1>3 DEF w

LEMMA ByteComesKeeps ==
  ASSUME PinsInv, ByteComes
  PROVE  PinsInv'
<1> DEFINE b == pinBudget.bytes
<1>1. /\ Spend("bytes") /\ uartRx' = Append(uartRx, b)
      /\ UNCHANGED <<gpios, onchange, missed, aios, uart, reads, overrun, pinRing>>
  BY DEF ByteComes, gpioVars
<1>2. b \in Nat \ {0} /\ pinBudget'.bytes = b - 1 /\ BudgetTypes'
  BY <1>1, PinFacts, SpendIs
<1> HIDE DEF b
<1>3. AioTypes' /\ LineTypes'
  <2>1. uartRx' \in Seq(Nat)
    BY <1>1, <1>2, PinFacts, AppendIs
  <2> QED
    BY <1>1, <2>1, PinFacts DEF AioTypes, LineTypes
<1>4. PinTypes' /\ Told'
  BY <1>1, <1>2, <1>3, NoPin
<1>5. InOrder'
  <2> DEFINE s == reads \o Waiting(pinRing)
  <2> SUFFICES ASSUME ~overrun PROVE Descends(s \o uartRx', b - 1)
    BY <1>1, <1>2 DEF PinsInv, InOrder
  <2>1. Descends(s \o uartRx, b)
    BY DEF PinsInv, InOrder, b
  <2>2. s \in Seq(Nat) /\ uartRx \in Seq(Nat)
    BY WaitingIs, PinFacts
  <2> DEFINE was == s \o uartRx
             now == s \o uartRx'
  <2>3. Descends(was, b) /\ was = s \o uartRx /\ now = s \o uartRx'
    BY <2>1
  <2> HIDE DEF s, was, now
  <2>4. Descends(now, b - 1)
    BY <1>1, <1>2, <2>2, <2>3, DescendsOn
  <2> QED
    BY <2>4 DEF now
<1> QED
  BY <1>4, <1>5 DEF PinsInv

LEMMA UartInterruptKeeps ==
  ASSUME PinsInv, UartInterrupt
  PROVE  PinsInv'
<1> DEFINE size == Taken
           data == SubSeq(uartRx, 1, size)
           rest == SubSeq(uartRx, size + 1, Len(uartRx))
           item == [of |-> "uart", data |-> data]
           new == [uart EXCEPT !.size = size]
<1>1. /\ uart' = new /\ uartRx' = rest
      /\ IF uart.step = "handle" THEN UNCHANGED pinRing ELSE PinSignal(item)
      /\ overrun' = (overrun \/ uart.step = "handle" \/ Unhandled \/ ~RoomLeft)
      /\ uart.step \in {"handle", "ready", "range"}
      /\ UNCHANGED <<gpios, onchange, missed, aios, reads, pinBudget>>
  BY DEF UartInterrupt, gpioVars
<1>2. uart \in LineRecs /\ uartRx \in Seq(Nat) /\ pinRing \in Seq(PinItems) /\ Len(uartRx) \in Nat
      /\ uart.max \in Nat /\ reads \in Seq(Nat)
  BY PinFacts, LenProperties DEF LineRecs
<1>3. size \in 0 .. Len(uartRx)
  BY <1>2 DEF Taken
<1> HIDE DEF size
<1>4. /\ data \in Seq(Nat) /\ Len(data) = size /\ rest \in Seq(Nat) /\ data \o rest = uartRx
  BY <1>2, <1>3, SplitAt
<1> HIDE DEF data, rest
<1>5. item \in PinItems /\ item.of = "uart" /\ item.data = data
  <2>1. item \in [of : {"uart"}, data : Seq(Nat)]
    BY <1>4
  <2> QED
    BY <2>1 DEF PinItems
<1> HIDE DEF item
<1>6. new \in LineRecs /\ new.size = size /\ new.step = uart.step
  <2>1. size \in Nat
    BY <1>2, <1>3
  <2> QED
    BY <1>2, <2>1 DEF LineRecs
<1> HIDE DEF new
<1>7. AioTypes' /\ LineTypes' /\ BudgetTypes'
  BY <1>1, <1>4, <1>6, PinFacts DEF AioTypes, LineTypes, BudgetTypes
<1>8. UNCHANGED pinRing \/ Joined(NotPins)
  BY <1>1, <1>5, SignalJoins DEF Joined, NotPins
<1>9. PinTypes' /\ Told'
  BY <1>1, <1>7, <1>8, NoPin
<1>10. InOrder'
  <2> SUFFICES ASSUME ~overrun'
               PROVE  /\ Waits(pinRing', size) /\ uart.step \notin Early
                      /\ Descends(reads \o Waiting(pinRing') \o rest, pinBudget.bytes)
    BY <1>1, <1>6 DEF InOrder
  <2>1. ~overrun /\ uart.step # "handle" /\ ~Unhandled /\ pinRing' = Append(pinRing, item)
    BY <1>1 DEF PinSignal
  <2>2. uart.step \notin Early
    BY <1>1, <2>1 DEF Early
  <2>3. NoneOf(pinRing)
    <3>1. DOMAIN pinRing = 1 .. Len(pinRing)
      BY <1>2, LenProperties
    <3> QED
      BY <2>1, <3>1 DEF NoneOf, Unhandled
  <2>4. /\ Waits(pinRing, uart.size) /\ Waiting(pinRing) = <<>>
        /\ Descends(reads \o Waiting(pinRing) \o uartRx, pinBudget.bytes)
    BY <2>1, <2>3 DEF PinsInv, InOrder, Waits
  <2>5. Waiting(pinRing') = data /\ Waits(pinRing', size)
    <3> DEFINE was == uart.size
    <3>1. Waits(pinRing, was)
      BY <2>4
    <3> HIDE DEF was
    <3>2. Waiting(pinRing') = item.data /\ Waits(pinRing', Len(item.data))
      BY <1>2, <1>5, <2>1, <2>3, <3>1, WaitsNew
    <3> QED
      BY <1>4, <1>5, <3>2
  <2>6. reads \o data \o rest = reads \o <<>> \o uartRx
    <3>1. reads \o (data \o rest) = (reads \o data) \o rest
      <4>1. reads \in Seq(Nat) /\ data \in Seq(Nat) /\ rest \in Seq(Nat)
        BY <1>2, <1>4
      <4> QED
        BY ONLY <4>1, Concat3
    <3>2. reads \o <<>> = reads
      BY <1>2, ConcatEmptySeq
    <3> QED
      BY ONLY <1>4, <3>1, <3>2
  <2>7. Descends(reads \o data \o rest, pinBudget.bytes)
    BY <2>4, <2>6
  <2> QED
    BY <2>2, <2>5, <2>7
<1> QED
  BY <1>9, <1>10 DEF PinsInv

LEMMA UartReadKeeps ==
  ASSUME PinsInv, UartRead
  PROVE  PinsInv'
<1> DEFINE h == Head(pinRing)
           data == h.data
           size == uart.size
           bytes == [i \in 1 .. size |-> IF i <= Len(data) THEN data[i] ELSE 0]
           new == [uart EXCEPT !.size = 0]
<1>1. /\ pinRing # <<>> /\ h.of = "uart" /\ pinRing' = Tail(pinRing)
      /\ IF size >= uart.min THEN reads' = reads \o bytes /\ uart' = new ELSE UNCHANGED <<reads, uart>>
      /\ overrun' = (overrun \/ Len(data) < uart.min)
      /\ UNCHANGED <<gpios, onchange, missed, aios, uartRx, pinBudget>>
  BY DEF UartRead, gpioVars
<1>2. uart \in LineRecs /\ pinRing \in Seq(PinItems) /\ reads \in Seq(Nat) /\ size \in Nat /\ uart.min \in Nat
      /\ uartRx \in Seq(Nat)
  BY PinFacts DEF LineRecs
<1>3. data \in Seq(Nat)
  BY <1>1, PinFacts, ItemIs
<1>4. Len(data) \in Nat /\ \A i \in 1 .. Len(data) : data[i] \in Nat
  BY <1>3, LenProperties
<1>5. new \in LineRecs /\ new.size = 0 /\ new.step = uart.step
  BY <1>2 DEF LineRecs
<1> HIDE DEF h, data, size, new
<1>6. bytes \in Seq(Nat) /\ (Len(data) = size => bytes = data)
  <2>1. \A i \in 1 .. size : i <= Len(data) => i \in 1 .. Len(data)
    BY <1>2, <1>4
  <2>2. bytes \in [1 .. size -> Nat]
    BY <1>4, <2>1
  <2>3. bytes \in Seq(Nat) /\ Len(bytes) = size
    <3> HIDE DEF bytes
    <3>1. bytes \in Seq(Nat)
      BY <1>2, <2>2, SeqDef
    <3> QED
      BY <1>2, <2>2, <3>1, LenProperties
  <2>4. ASSUME Len(data) = size PROVE bytes = data
    <3>1. \A i \in 1 .. size : bytes[i] = data[i]
      BY <1>4, <2>4
    <3> HIDE DEF bytes
    <3> QED
      BY <1>3, <2>3, <2>4, <3>1, SeqEqual
  <2> QED
    BY <2>3, <2>4
<1> HIDE DEF bytes
<1>7. AioTypes' /\ LineTypes' /\ BudgetTypes'
  <2>1. reads \o bytes \in Seq(Nat)
    BY <1>2, <1>6, ConcatIs
  <2> QED
    BY <1>1, <1>5, <2>1, PinFacts DEF AioTypes, LineTypes, BudgetTypes
<1>8. Left(NotPins)
  BY <1>1 DEF Left, NotPins, h
<1>9. PinTypes' /\ Told'
  BY <1>1, <1>7, <1>8, NoPin
<1>10. InOrder'
  <2> SUFFICES ASSUME ~overrun'
               PROVE  /\ Waits(pinRing', uart'.size) /\ NoneOf(pinRing')
                      /\ Descends(reads' \o Waiting(pinRing') \o uartRx, pinBudget.bytes)
    BY <1>1 DEF InOrder
  <2>1. ~overrun /\ ~(Len(data) < uart.min)
    BY <1>1
  <2>2. Waits(pinRing, size) /\ Descends(reads \o Waiting(pinRing) \o uartRx, pinBudget.bytes)
    BY <2>1 DEF PinsInv, InOrder, size
  <2>3. /\ Len(data) = size /\ Waiting(pinRing) = data
        /\ Waiting(pinRing') = <<>> /\ NoneOf(pinRing') /\ \A other : Waits(pinRing', other)
    <3>1. pinRing # <<>> /\ Head(pinRing).of = "uart" /\ pinRing' = Tail(pinRing)
          /\ pinRing \in Seq(PinItems) /\ Waits(pinRing, size)
      BY <1>1, <1>2, <2>2 DEF h
    <3>2. Head(pinRing).of = "uart" =>
            /\ Len(Head(pinRing).data) = size /\ Waiting(pinRing) = Head(pinRing).data
            /\ Waiting(pinRing') = <<>> /\ NoneOf(pinRing')
      BY ONLY <3>1, WaitsLess
    <3>3. \A other : Waits(pinRing', other)
      BY <3>1, <3>2 DEF Waits, NoneOf
    <3> QED
      BY <3>1, <3>2, <3>3 DEF h, data
  <2>4. reads' = reads \o data
    BY <1>1, <1>2, <1>4, <1>6, <2>1, <2>3
  <2>5. reads \o data \o <<>> = reads \o data
    <3>1. reads \o data \in Seq(Nat)
      BY <1>2, <1>3, ConcatIs
    <3> QED
      BY <3>1, ConcatEmptySeq
  <2>6. Descends(reads \o data \o <<>> \o uartRx, pinBudget.bytes)
    BY <2>2, <2>3, <2>5
  <2> QED
    BY <2>3, <2>4, <2>6
<1> QED
  BY <1>9, <1>10 DEF PinsInv

-----------------------------------------------------------------------------
LEMMA PinsInvIsKept == PinsInv /\ [PinsNext]_pinVars => PinsInv'
<1> SUFFICES ASSUME PinsInv, [PinsNext]_pinVars PROVE PinsInv'
  OBVIOUS
<1>0. DOMAIN gpios = 1 .. Len(gpios)
  BY PinFacts
<1>1. CASE \E edge \in {"any", "rising"}, level \in {0, 1} : GpioOpenBegins(edge, level)
  BY <1>1, GpioOpenBeginsKeeps
<1>2. CASE \E p \in DOMAIN gpios : GpioOpenEnds(p) \/ LevelChanges(p) \/ GpioInterrupt(p) \/ GpioClose(p)
  BY <1>0, <1>2, GpioOpenEndsKeeps, LevelChangesKeeps, GpioInterruptKeeps, GpioCloseKeeps
<1>3. CASE GpioChanged \/ PinFlushed
  BY <1>3, GpioChangedKeeps, PinFlushedKeeps
<1>4. CASE ByteComes \/ UartInterrupt \/ UartRead
  BY <1>4, ByteComesKeeps, UartInterruptKeeps, UartReadKeeps
<1>5. CASE UartPastTheEnd \/ UartWithoutHandle
  BY <1>5, PinFailsKeeps DEF UartPastTheEnd, UartWithoutHandle
<1>6. CASE \E step \in {"irq", "handle", "ready"} : UartInit(step)
  BY <1>6, UartInitKeeps
<1>7. CASE \E r \in UartRanges : RangeBegins(r) \/ RangeTooSmall(r)
  BY <1>7, LineKeeps, PinFailsKeeps DEF RangeTooSmall
<1>8. CASE RangeEnds \/ WriteFills(2) \/ TxReady \/ \E takes \in BOOLEAN : WriteGoesOn(takes)
  BY <1>8, LineKeeps
<1>9. CASE AioOpen \/ AioChanged
  BY <1>9, AioStepKeeps
<1>10. CASE \E a \in DOMAIN aios :
              AioClose(a) \/ AioCollected(a) \/ AioUsesFreed(a) \/ \E value \in {1, 65535} : AioPoll(a, value)
  <2>1. PICK a \in DOMAIN aios :
               AioClose(a) \/ AioCollected(a) \/ AioUsesFreed(a) \/ \E value \in {1, 65535} : AioPoll(a, value)
    BY <1>10
  <2>2. AioUsesFreed(a) => PinsInv'
    BY PinFailsKeeps DEF AioUsesFreed
  <2>3. (AioClose(a) \/ AioCollected(a)) \/ (\E value \in {1, 65535} : AioPoll(a, value)) => PinsInv'
    BY AioStepKeeps
  <2> QED
    BY <2>1, <2>2, <2>3
<1>11. CASE UNCHANGED pinVars
  <2>1. UNCHANGED <<gpios, onchange, missed, aios, uart, uartRx, reads, overrun, pinRing, pinBudget>>
    BY <1>11 DEF pinVars
  <2>2. AioTypes' /\ LineTypes' /\ BudgetTypes'
    BY <2>1, PinFacts DEF AioTypes, LineTypes, BudgetTypes
  <2> QED
    BY <2>1, <2>2, NoPin, OrderStays DEF PinsInv
<1> QED
  BY <1>1, <1>2, <1>3, <1>4, <1>5, <1>6, <1>7, <1>8, <1>9, <1>10, <1>11 DEF PinsNext

LEMMA PinsInvHolds == PinsInv => PinsAreHeard
<1> SUFFICES ASSUME PinsInv PROVE LevelIsKnown /\ ReadsInOrder
  BY DEF PinsAreHeard
<1>1. DOMAIN gpios = 1 .. Len(gpios) /\ DOMAIN pinRing = 1 .. Len(pinRing)
  BY PinFacts, LenProperties
<1>2. LevelIsKnown
  <2> SUFFICES ASSUME NEW p \in 1 .. Len(gpios), gpios[p].edge = "any", ~gpios[p].closed, ~gpios[p].high,
                      p \notin missed, ~gpios[p].pending,
                      \A i \in 1 .. Len(pinRing) : ~(pinRing[i].of = "gpio" /\ pinRing[i].p = p)
               PROVE  onchange[p] = gpios[p].level
    BY <1>1 DEF LevelIsKnown
  <2>1. gpios[p].level = gpios[p].last /\ ToldIn(pinRing, p, onchange[p], gpios[p].last)
    BY DEF PinsInv, Told
  <2>2. \A i \in 1 .. Len(pinRing) : ~OfPin(pinRing[i], p)
    BY DEF OfPin
  <2> QED
    BY <2>1, <2>2 DEF ToldIn
<1>3. ReadsInOrder
  <2> DEFINE bytes == reads \o Waiting(pinRing) \o uartRx
             b == pinBudget.bytes
  <2> SUFFICES ASSUME ~overrun, NEW i \in 1 .. (Len(bytes) - 1) PROVE bytes[i + 1] = bytes[i] - 1
    BY DEF ReadsInOrder, Waiting, Datas, DataOf
  <2>1. Descends(bytes, b) /\ b \in Nat
    BY PinFacts DEF PinsInv, InOrder, BudgetTypes
  <2> HIDE DEF bytes, b
  <2>2. Len(bytes) \in Nat /\ \A j \in 1 .. Len(bytes) : bytes[j] = b + 1 + Len(bytes) - j
    BY <2>1, LenProperties DEF Descends
  <2>3. i \in 1 .. Len(bytes) /\ i + 1 \in 1 .. Len(bytes)
    BY <2>2
  <2>4. bytes[i] = b + 1 + Len(bytes) - i /\ bytes[i + 1] = b + 1 + Len(bytes) - (i + 1)
    BY <2>2, <2>3
  <2> QED
    BY <2>1, <2>2, <2>4
<1> QED
  BY <1>2, <1>3

-----------------------------------------------------------------------------
(***************************************************************************)
(* The invariant of the shell behind the web IDE (module Ide).             *)
(***************************************************************************)
PacketRecs ==
  [cmd : {"save", "data", "run", "stop", "rm", "mv", "boot", "ls"}, name : IdeNames,
   form : {"good", "cut", "open"}, end : {"no", "yes", "half", "tail"}, id : Nat] \cup {NoPacket}
FileSets == [IdeNames -> Seq(Int)]
NamesOrNone == IdeNames \cup {"none"}
HostRecs == [patient : BOOLEAN, waiting : BOOLEAN, saving : NamesOrNone, split : BOOLEAN, sent : Nat,
             files : FileSets]
IdeTypes ==
  /\ rxBuffers \in [Buffers -> [lock : BOOLEAN, packet : PacketRecs]]
  /\ rxIndex \in Buffers /\ rxQueue \in Seq(Buffers)
  /\ ideStep \in [step : {"idle", "parsed", "unlocked"}, buffer : Buffers]
  /\ parser \in [state : {"idle", "stream"}, file : NamesOrNone]
  /\ parser.state = "idle" <=> parser.file = "none"
  /\ ideFiles \in FileSets /\ host \in HostRecs
  /\ ideLost \in BOOLEAN /\ ideOdd \in BOOLEAN

\* The pool that are locked are those queued and the one that was taken to be parsed.
Queued(queue, b) == \E i \in 1 .. Len(queue) : queue[i] = b
LocksAgree ==
  /\ \A b \in Buffers : Queued(rxQueue, b) => rxBuffers[b].lock
  /\ \A i, j \in 1 .. Len(rxQueue) : rxQueue[i] = rxQueue[j] => i = j
  /\ ideStep.step = "parsed" => rxBuffers[ideStep.buffer].lock /\ ~Queued(rxQueue, ideStep.buffer)
  /\ \A b \in Buffers :
       rxBuffers[b].lock => Queued(rxQueue, b) \/ (ideStep.step = "parsed" /\ b = ideStep.buffer)

\* A host that waits never fills the pool: its packets take one buffer after the other.
IdeWrap(i) == i % IdeBuffers
PatientNeverLoses ==
  IdeOk /\ host.patient =>
    /\ ~ideLost
    /\ ~host.waiting => rxQueue = <<>>
    /\ rxQueue # <<>> =>
         /\ Len(rxQueue) = 1 /\ rxIndex = IdeWrap(rxQueue[1] + 1)
         /\ ideStep.step # "idle" => rxQueue[1] # ideStep.buffer
    /\ rxQueue = <<>> /\ ideStep.step # "idle" => rxIndex = IdeWrap(ideStep.buffer + 1)

\* What a packet that was sent whole makes of the files and of the save that goes on.
Moved(files, name) ==
  IF files[name] # NotThere /\ files[Other(name)] = NotThere
  THEN [files EXCEPT ![name] = NotThere, ![Other(name)] = files[name]] ELSE files
Carried(p, s, t) ==
  /\ p.name \in IdeNames /\ p.end \in {"no", "yes"} /\ p.id \in Nat
  /\ t.saving = IF p.cmd \in {"save", "data"} /\ p.end = "no" THEN p.name ELSE "none"
  /\ \/ p.cmd = "save" /\ s.saving = "none" /\ t.files = [s.files EXCEPT ![p.name] = <<p.id>>]
     \/ p.cmd = "data" /\ s.saving = p.name /\ t.files = [s.files EXCEPT ![p.name] = Append(s.files[p.name], p.id)]
     \/ p.cmd = "rm" /\ s.saving = "none" /\ (p.form = "good" => t.files = [s.files EXCEPT ![p.name] = NotThere])
     \/ p.cmd = "mv" /\ s.saving = "none" /\ t.files = Moved(s.files, p.name)
     \/ p.cmd \in {"run", "stop", "boot", "ls"} /\ s.saving = "none" /\ t.files = s.files

\* The packets that are queued lead from the device's files to those the host expects.
IdeStates == [files : FileSets, saving : NamesOrNone]
Chain(states, queue, pool) ==
  /\ states \in Seq(IdeStates) /\ Len(states) = Len(queue) + 1
  /\ \A i \in 1 .. Len(queue) : Carried(pool[queue[i]].packet, states[i], states[i + 1])
OnDevice == [files |-> ideFiles, saving |-> parser.file]
OnHost == [files |-> host.files, saving |-> host.saving]
Leads(queue, pool, from, to) ==
  \E states : Chain(states, queue, pool) /\ states[1] = from /\ states[Len(queue) + 1] = to
FilesFollow ==
  IdeOk /\ ~ideOdd /\ ~ideLost => ~host.split /\ Leads(rxQueue, rxBuffers, OnDevice, OnHost)

IdeInv == IdeTypes /\ LocksAgree /\ PatientNeverLoses /\ FilesFollow

-----------------------------------------------------------------------------
LEMMA IdeWrapped ==
  ASSUME NEW i \in -(IdeBuffers - 1) .. IdeBuffers
  PROVE  /\ 0 <= i /\ i < IdeBuffers => IdeWrap(i) = i
         /\ i < 0 => IdeWrap(i) = i + IdeBuffers
         /\ i = IdeBuffers => IdeWrap(i) = 0
<1> DEFINE n == IdeBuffers
<1>0. n \in Nat \ {0, 1}
  BY IdeAssumption
<1>1. i = n * (i \div n) + (i % n)
  BY <1>0
<1>2. PICK quotient \in Int : quotient = i \div n
  BY <1>0
<1>3. PICK rest \in 0 .. n - 1 : rest = i % n
  BY <1>0
<1>4. i = n * quotient + rest
  BY <1>1, <1>2, <1>3
<1> HIDE DEF n
<1>5. i \in -(n - 1) .. n
  BY DEF n
<1>6. quotient = IF i < 0 THEN -1 ELSE IF i < n THEN 0 ELSE 1
  <2>1. quotient >= -1
    BY <1>0, <1>3, <1>4, <1>5
  <2>2. quotient < 2
    BY <1>0, <1>3, <1>4, <1>5
  <2>3. quotient \in {-1, 0, 1}
    BY <2>1, <2>2
  <2> QED
    BY <1>0, <1>3, <1>4, <1>5, <2>3
<1>7. rest = IF i < 0 THEN i + n ELSE IF i < n THEN i ELSE i - n
  BY <1>0, <1>3, <1>4, <1>5, <1>6
<1> QED
  BY <1>0, <1>3, <1>5, <1>7 DEF IdeWrap, n

LEMMA NextBuffer ==
  ASSUME NEW b \in Buffers
  PROVE  IdeWrap(b + 1) \in Buffers /\ IdeWrap(b + 1) # b
<1>0. IdeBuffers \in Nat \ {0, 1} /\ b \in 0 .. IdeBuffers - 1
  BY IdeAssumption DEF Buffers
<1>1. b + 1 \in -(IdeBuffers - 1) .. IdeBuffers
  BY <1>0
<1>2. IdeWrap(b + 1) = IF b + 1 < IdeBuffers THEN b + 1 ELSE 0
  BY <1>0, <1>1, IdeWrapped
<1> QED
  BY <1>0, <1>2 DEF Buffers

\* A buffer that is free when its turn comes is the one that is taken.
LEMMA TurnIsTaken ==
  ASSUME rxIndex \in Buffers, ~rxBuffers[rxIndex].lock
  PROVE  Takes(rxIndex) /\ \A i \in Buffers : Takes(i) => i = rxIndex
<1>0. IdeBuffers \in Nat \ {0, 1}
  BY IdeAssumption
<1>1. \A i \in Buffers : /\ (i - rxIndex) % IdeBuffers \in Nat
                         /\ (i - rxIndex) % IdeBuffers = 0 <=> i = rxIndex
  <2> SUFFICES ASSUME NEW i \in Buffers
               PROVE  IdeWrap(i - rxIndex) \in Nat /\ (IdeWrap(i - rxIndex) = 0 <=> i = rxIndex)
    BY DEF IdeWrap
  <2>1. i - rxIndex \in -(IdeBuffers - 1) .. IdeBuffers /\ i - rxIndex < IdeBuffers /\ i \in Int /\ rxIndex \in Int
        /\ i - rxIndex > -IdeBuffers
    BY <1>0 DEF Buffers
  <2>2. IdeWrap(i - rxIndex) = IF 0 <= i - rxIndex THEN i - rxIndex ELSE i - rxIndex + IdeBuffers
    BY <1>0, <2>1, IdeWrapped
  <2> QED
    BY <1>0, <2>1, <2>2
<1>2. Takes(rxIndex)
  <2> SUFFICES ASSUME NEW j \in Buffers, (j - rxIndex) % IdeBuffers < (rxIndex - rxIndex) % IdeBuffers PROVE FALSE
    BY DEF Takes
  <2> DEFINE d == (j - rxIndex) % IdeBuffers
             e == (rxIndex - rxIndex) % IdeBuffers
  <2>1. d \in Nat /\ e = 0 /\ d < e
    BY <1>1
  <2> HIDE DEF d, e
  <2> QED
    BY <2>1
<1>3. ASSUME NEW i \in Buffers, Takes(i), i # rxIndex PROVE FALSE
  <2> DEFINE d == (i - rxIndex) % IdeBuffers
             e == (rxIndex - rxIndex) % IdeBuffers
  <2>1. d \in Nat /\ e = 0 /\ d # 0
    BY <1>1, <1>3
  <2>2. e < d => rxBuffers[rxIndex].lock
    BY <1>3 DEF Takes
  <2> HIDE DEF d, e
  <2> QED
    BY <2>1, <2>2
<1> QED
  BY <1>2, <1>3

-----------------------------------------------------------------------------
LEMMA ChainNone ==
  ASSUME NEW s \in IdeStates, NEW pool
  PROVE  Leads(<<>>, pool, s, s)
<1>1. <<s>> \in Seq(IdeStates) /\ Len(<<s>>) = 1 /\ <<s>>[1] = s
  OBVIOUS
<1>2. Chain(<<s>>, <<>>, pool)
  BY <1>1 DEF Chain
<1> QED
  BY <1>1, <1>2 DEF Leads

LEMMA NoneLeads ==
  ASSUME NEW s, NEW t, NEW pool, Leads(<<>>, pool, s, t)
  PROVE  s = t
  BY DEF Leads

\* Other packets, or other locks, make no difference.
LEMMA ChainStays ==
  ASSUME NEW queue \in Seq(Buffers), NEW old, NEW new, NEW s, NEW t, Leads(queue, old, s, t),
         \A b \in Buffers : Queued(queue, b) => new[b].packet = old[b].packet
  PROVE  Leads(queue, new, s, t)
<1>1. PICK states : Chain(states, queue, old) /\ states[1] = s /\ states[Len(queue) + 1] = t
  BY DEF Leads
<1>2. \A i \in 1 .. Len(queue) : new[queue[i]].packet = old[queue[i]].packet
  BY ElementOfSeq DEF Queued
<1>3. Chain(states, queue, new)
  BY <1>1, <1>2 DEF Chain
<1> QED
  BY <1>1, <1>3 DEF Leads

LEMMA ChainGrows ==
  ASSUME NEW queue \in Seq(Buffers), NEW pool, NEW s, NEW t, NEW u \in IdeStates, NEW b \in Buffers,
         Leads(queue, pool, s, t), Carried(pool[b].packet, t, u), NEW longer, longer = Append(queue, b)
  PROVE  Leads(longer, pool, s, u)
<1> DEFINE n == Len(queue)
<1>0. n \in Nat
  BY LenProperties
<1>1. PICK states : Chain(states, queue, pool) /\ states[1] = s /\ states[n + 1] = t
  BY DEF Leads
<1>2. states \in Seq(IdeStates) /\ Len(states) = n + 1
      /\ \A i \in 1 .. n : Carried(pool[queue[i]].packet, states[i], states[i + 1])
  BY <1>1 DEF Chain
<1>3. Len(longer) = n + 1 /\ (\A i \in 1 .. n : longer[i] = queue[i]) /\ longer[n + 1] = b
  BY AppendIs
<1> HIDE DEF n
<1> DEFINE more == Append(states, u)
<1>4. /\ more \in Seq(IdeStates) /\ Len(more) = (n + 1) + 1
      /\ (\A i \in 1 .. n + 1 : more[i] = states[i]) /\ more[(n + 1) + 1] = u
  BY <1>2, AppendIs
<1> HIDE DEF more
<1>5. ASSUME NEW i \in 1 .. n + 1 PROVE Carried(pool[longer[i]].packet, more[i], more[i + 1])
  <2>1. CASE i = n + 1
    <3>1. n + 1 \in 1 .. n + 1
      BY <1>0
    <3>2. more[n + 1] = t
      BY <1>1, <1>4, <3>1
    <3> QED
      BY <1>3, <1>4, <2>1, <3>2
  <2>2. CASE i # n + 1
    <3>1. i \in 1 .. n /\ i \in 1 .. n + 1 /\ i + 1 \in 1 .. n + 1
      BY <1>0, <2>2
    <3>2. longer[i] = queue[i] /\ more[i] = states[i] /\ more[i + 1] = states[i + 1]
      BY <1>3, <1>4, <3>1
    <3> QED
      BY <1>2, <3>1, <3>2
  <2> QED
    BY <2>1, <2>2
<1>6. Chain(more, longer, pool)
  BY <1>3, <1>4, <1>5 DEF Chain
<1>7. more[1] = s /\ more[Len(longer) + 1] = u
  <2>1. 1 \in 1 .. n + 1
    BY <1>0
  <2> QED
    BY <1>1, <1>3, <1>4, <2>1
<1> QED
  BY <1>6, <1>7 DEF Leads

LEMMA ChainShrinks ==
  ASSUME NEW queue \in Seq(Buffers), queue # <<>>, NEW pool, NEW s, NEW t, Leads(queue, pool, s, t),
         NEW rest, rest = Tail(queue)
  PROVE  \E u \in IdeStates : Carried(pool[Head(queue)].packet, s, u) /\ Leads(rest, pool, u, t)
<1> DEFINE n == Len(queue)
<1>1. PICK states : Chain(states, queue, pool) /\ states[1] = s /\ states[n + 1] = t
  BY DEF Leads
<1>2. states \in Seq(IdeStates) /\ Len(states) = n + 1
      /\ \A i \in 1 .. n : Carried(pool[queue[i]].packet, states[i], states[i + 1])
  BY <1>1 DEF Chain
<1>3. rest \in Seq(Buffers) /\ Len(rest) = n - 1 /\ n \in Nat \ {0} /\ Head(queue) = queue[1]
      /\ \A i \in 1 .. n - 1 : rest[i] = queue[i + 1]
  BY TailIs
<1> HIDE DEF n
<1> DEFINE fewer == Tail(states)
<1>4. states # <<>>
  BY <1>2, <1>3
<1>5. fewer \in Seq(IdeStates) /\ Len(fewer) = (n + 1) - 1
      /\ \A i \in 1 .. (n + 1) - 1 : fewer[i] = states[i + 1]
  BY <1>2, <1>4, TailIs
<1> HIDE DEF fewer
<1>6. \A i \in 1 .. n : fewer[i] = states[i + 1]
  BY <1>3, <1>5
<1>7. ASSUME NEW i \in 1 .. n - 1 PROVE Carried(pool[rest[i]].packet, fewer[i], fewer[i + 1])
  <2>1. i \in 1 .. n /\ i + 1 \in 1 .. n
    BY <1>3
  <2>2. rest[i] = queue[i + 1] /\ fewer[i] = states[i + 1] /\ fewer[i + 1] = states[(i + 1) + 1]
    BY <1>3, <1>6, <2>1
  <2> QED
    BY <1>2, <2>1, <2>2
<1>8. Chain(fewer, rest, pool)
  BY <1>3, <1>5, <1>7 DEF Chain
<1>9. 1 \in 1 .. n /\ n \in 1 .. n /\ Len(rest) + 1 = n /\ 1 + 1 \in 1 .. Len(states)
  BY <1>2, <1>3
<1>10. fewer[1] = states[1 + 1] /\ fewer[Len(rest) + 1] = t /\ states[1 + 1] \in IdeStates
  BY <1>1, <1>2, <1>6, <1>9, ElementOfSeq
<1>11. Carried(pool[Head(queue)].packet, s, states[1 + 1])
  BY <1>1, <1>2, <1>3, <1>9
<1>12. Leads(rest, pool, states[1 + 1], t)
  BY <1>8, <1>10 DEF Leads
<1> QED
  BY <1>10, <1>11, <1>12

-----------------------------------------------------------------------------
LEMMA IdeFacts ==
  ASSUME IdeInv
  PROVE  /\ rxBuffers \in [Buffers -> [lock : BOOLEAN, packet : PacketRecs]]
         /\ rxIndex \in Buffers /\ rxQueue \in Seq(Buffers) /\ Len(rxQueue) \in Nat
         /\ ideStep \in [step : {"idle", "parsed", "unlocked"}, buffer : Buffers]
         /\ parser \in [state : {"idle", "stream"}, file : NamesOrNone]
         /\ parser.state = "idle" <=> parser.file = "none"
         /\ ideFiles \in FileSets /\ host \in HostRecs /\ ideLost \in BOOLEAN /\ ideOdd \in BOOLEAN
         /\ OnDevice \in IdeStates /\ OnHost \in IdeStates
         /\ rxQueue # <<>> => Head(rxQueue) \in Buffers /\ Queued(rxQueue, Head(rxQueue)) /\ Packet \in PacketRecs
         /\ \A i \in 1 .. Len(rxQueue) : rxQueue[i] \in Buffers
<1>1. IdeTypes
  BY DEF IdeInv
<1>2. Len(rxQueue) \in Nat
  BY <1>1, LenProperties DEF IdeTypes
<1>3. OnDevice \in IdeStates /\ OnHost \in IdeStates
  BY <1>1 DEF IdeTypes, OnDevice, OnHost, IdeStates, HostRecs
<1>4. ASSUME rxQueue # <<>>
      PROVE  Head(rxQueue) \in Buffers /\ Queued(rxQueue, Head(rxQueue)) /\ Packet \in PacketRecs
  <2>1. Head(rxQueue) \in Buffers /\ Head(rxQueue) = rxQueue[1] /\ Len(rxQueue) \in Nat \ {0}
    BY <1>1, <1>4, TailIs DEF IdeTypes
  <2>2. 1 \in 1 .. Len(rxQueue)
    BY <2>1
  <2> QED
    BY <1>1, <2>1, <2>2 DEF Queued, Packet, IdeTypes
<1>5. \A i \in 1 .. Len(rxQueue) : rxQueue[i] \in Buffers
  BY <1>1, ElementOfSeq DEF IdeTypes
<1> QED
  BY <1>1, <1>2, <1>3, <1>4, <1>5 DEF IdeTypes

LEMMA OtherIs ==
  ASSUME NEW name \in IdeNames
  PROVE  Other(name) \in IdeNames
<1>1. CASE \E n \in IdeNames : n # name
  BY <1>1 DEF Other
<1>2. CASE ~\E n \in IdeNames : n # name
  BY <1>2 DEF Other
<1> QED
  BY <1>1, <1>2

LEMMA MovedIs ==
  ASSUME NEW files \in FileSets, NEW name \in IdeNames
  PROVE  Moved(files, name) \in FileSets
<1> DEFINE to == Other(name)
<1>1. to \in IdeNames
  BY OtherIs
<1>2. NotThere \in Seq(Int)
  BY DEF NotThere
<1> HIDE DEF to
<1>3. [files EXCEPT ![name] = NotThere, ![to] = files[name]] \in FileSets
  BY <1>1, <1>2 DEF FileSets
<1> QED
  BY <1>3 DEF Moved, to

\* The packet, with the number the interrupt gave it, makes of the host's files what the host
\* expects.
LEMMA HostExpects ==
  ASSUME IdeInv, NEW p \in Packets, NEW numbered,
         numbered = [cmd |-> p.cmd, name |-> p.name, form |-> p.form, end |-> p.end, id |-> host.sent],
         NEW then,
         then = [files |-> Expected(p),
                 saving |-> IF p.cmd \in {"save", "data"} /\ p.end \in {"no", "half"} THEN p.name ELSE "none"]
  PROVE  /\ numbered \in PacketRecs /\ then \in IdeStates
         /\ ~host.split /\ p.end # "half" => Carried(numbered, OnHost, then)
<1>0. host \in HostRecs /\ host.sent \in Nat /\ host.files \in FileSets /\ host.saving \in NamesOrNone
  BY IdeFacts DEF HostRecs
<1> DEFINE one == {"run", "rm", "mv", "boot", "ls", "stop"}
<1>1. /\ p.name \in IdeNames /\ p.form \in {"good", "cut", "open"} /\ p.end \in {"no", "yes", "half", "tail"}
      /\ ~host.split /\ p.end # "half" => p.end \in {"no", "yes"}
      /\ \/ p.cmd = "data" /\ host.saving = p.name
         \/ p.cmd = "save" /\ host.saving = "none"
         \/ p.cmd \in one /\ host.saving = "none"
  <2>1. CASE host.saving # "none"
    <3>1. p \in [cmd : {"data"}, name : {host.saving}, form : {"good"},
                end : IF host.split THEN {"tail"} ELSE {"no", "yes", "half"}]
      BY <2>1 DEF Packets
    <3> QED
      BY <1>0, <2>1, <3>1 DEF NamesOrNone
  <2>2. CASE host.saving = "none"
    <3>1. \/ p \in {[cmd |-> "save", name |-> n, form |-> "good", end |-> e] : n \in IdeNames, e \in {"no", "yes"}}
          \/ p \in {[cmd |-> c.cmd, name |-> c.name, form |-> c.form, end |-> "no"] : c \in IdeCommands}
      BY <2>2 DEF Packets
    <3>2. CASE p \in {[cmd |-> "save", name |-> n, form |-> "good", end |-> e] : n \in IdeNames, e \in {"no", "yes"}}
      BY <2>2, <3>2
    <3>3. CASE p \in {[cmd |-> c.cmd, name |-> c.name, form |-> c.form, end |-> "no"] : c \in IdeCommands}
      <4>1. PICK c \in IdeCommands : p = [cmd |-> c.cmd, name |-> c.name, form |-> c.form, end |-> "no"]
        BY <3>3
      <4>2. c.cmd \in one /\ c.name \in IdeNames /\ c.form \in {"good", "cut", "open"}
        BY IdeAssumption
      <4> QED
        BY <2>2, <4>1, <4>2
    <3> QED
      BY <3>1, <3>2, <3>3
  <2> QED
    BY <2>1, <2>2
<1>2. numbered \in PacketRecs
  BY <1>0, <1>1 DEF PacketRecs
<1>3. /\ numbered.cmd = p.cmd /\ numbered.name = p.name /\ numbered.form = p.form /\ numbered.end = p.end
      /\ numbered.id = host.sent
  OBVIOUS
<1>4. /\ then.files = Expected(p)
      /\ then.saving = IF p.cmd \in {"save", "data"} /\ p.end \in {"no", "half"} THEN p.name ELSE "none"
  OBVIOUS
<1>5. OnHost.files = host.files /\ OnHost.saving = host.saving
  BY DEF OnHost
<1>6. /\ then.files \in FileSets
      /\ \/ p.cmd = "save" /\ host.saving = "none" /\ then.files = [host.files EXCEPT ![p.name] = <<host.sent>>]
         \/ p.cmd = "data" /\ host.saving = p.name
            /\ then.files = [host.files EXCEPT ![p.name] = Append(host.files[p.name], host.sent)]
         \/ p.cmd = "rm" /\ host.saving = "none"
            /\ (p.form = "good" => then.files = [host.files EXCEPT ![p.name] = NotThere])
         \/ p.cmd = "mv" /\ host.saving = "none" /\ then.files = Moved(host.files, p.name)
         \/ p.cmd \in {"run", "stop", "boot", "ls"} /\ host.saving = "none" /\ then.files = host.files
  <2> DEFINE files == Expected(p)
             was == host.files
             name == p.name
  <2>0. was \in FileSets /\ name \in IdeNames /\ host.sent \in Int /\ NotThere \in Seq(Int)
    BY <1>0, <1>1 DEF NotThere
  <2>1. CASE p.cmd = "save"
    <3>1. files = [was EXCEPT ![name] = <<host.sent>>]
      BY <2>1 DEF Expected
    <3> HIDE DEF files, was, name
    <3>2. files \in FileSets
      BY <2>0, <3>1 DEF FileSets
    <3> QED
      BY <1>1, <1>4, <2>1, <3>1, <3>2 DEF files, was, name
  <2>2. CASE p.cmd = "data"
    <3> DEFINE longer == Append(was[name], host.sent)
    <3>1. files = [was EXCEPT ![name] = longer]
      BY <2>2 DEF Expected
    <3>2. longer \in Seq(Int)
      BY <2>0 DEF FileSets
    <3>3. files \in FileSets
      <4> HIDE DEF files, was, name, longer
      <4> QED
        BY <2>0, <3>1, <3>2 DEF FileSets
    <3> QED
      BY <1>1, <1>4, <2>2, <3>1, <3>3
  <2>3. CASE p.cmd = "rm"
    <3>1. files = IF p.form = "good" THEN [was EXCEPT ![name] = NotThere] ELSE was
      BY <2>3 DEF Expected
    <3> HIDE DEF files, was, name
    <3>2. files \in FileSets
      BY <2>0, <3>1 DEF FileSets
    <3> QED
      BY <1>1, <1>4, <2>3, <3>1, <3>2 DEF files, was, name
  <2>4. CASE p.cmd = "mv"
    <3>1. files = Moved(was, name)
      BY <2>4 DEF Expected, Moved
    <3>2. files \in FileSets
      BY <2>0, <3>1, MovedIs
    <3> QED
      BY <1>1, <1>4, <2>4, <3>1, <3>2
  <2>5. CASE p.cmd \in {"run", "stop", "boot", "ls"}
    <3>1. files = was
      BY <2>5 DEF Expected
    <3> QED
      BY <1>1, <1>4, <2>0, <2>5, <3>1
  <2> QED
    BY <1>1, <2>1, <2>2, <2>3, <2>4, <2>5
<1>7. then \in IdeStates
  BY <1>1, <1>6 DEF IdeStates, NamesOrNone
<1>8. ~host.split /\ p.end # "half" => Carried(numbered, OnHost, then)
  <2> SUFFICES ASSUME p.end \in {"no", "yes"} PROVE Carried(numbered, OnHost, then)
    BY <1>1
  <2>1. then.saving = IF p.cmd \in {"save", "data"} /\ p.end = "no" THEN p.name ELSE "none"
    BY <1>4
  <2> QED
    BY <1>0, <1>1, <1>3, <1>5, <1>6, <2>1 DEF Carried
<1> QED
  BY <1>2, <1>7, <1>8

LEMMA FreeIsNotQueued ==
  ASSUME IdeInv, NEW b \in Buffers, ~rxBuffers[b].lock
  PROVE  ~Queued(rxQueue, b) /\ (ideStep.step = "parsed" => b # ideStep.buffer)
  BY DEF IdeInv, LocksAgree

\* The pool has room for the next packet of a host that waits.
LEMMA PatientIsTaken ==
  ASSUME IdeInv, IdeOk, host.patient, ~host.waiting
  PROVE  /\ ~ideLost /\ rxQueue = <<>> /\ Takes(rxIndex) /\ \A i \in Buffers : Takes(i) => i = rxIndex
         /\ ideStep.step # "idle" => rxIndex # ideStep.buffer
<1>1. ~ideLost /\ rxQueue = <<>> /\ (ideStep.step # "idle" => rxIndex = IdeWrap(ideStep.buffer + 1))
  BY DEF IdeInv, PatientNeverLoses
<1>2. ideStep.buffer \in Buffers /\ rxIndex \in Buffers
  BY IdeFacts
<1>3. ideStep.step # "idle" => rxIndex # ideStep.buffer
  BY <1>1, <1>2, NextBuffer
<1>4. \A b \in Buffers : ~Queued(rxQueue, b)
  BY <1>1 DEF Queued
<1>5. ~rxBuffers[rxIndex].lock
  BY <1>2, <1>3, <1>4 DEF IdeInv, LocksAgree
<1> QED
  BY <1>1, <1>2, <1>3, <1>5, TurnIsTaken

LEMMA PacketArrivesKeeps ==
  ASSUME IdeInv, NEW p \in Packets, PacketArrives(p)
  PROVE  IdeInv'
<1> DEFINE saving == IF p.cmd \in {"save", "data"} /\ p.end \in {"no", "half"} THEN p.name ELSE "none"
           split == p.end = "half"
           files == Expected(p)
           numbered == [cmd |-> p.cmd, name |-> p.name, form |-> p.form, end |-> p.end, id |-> host.sent]
           then == [files |-> files, saving |-> saving]
<1>1. /\ IdeOk /\ (host.patient => ~host.waiting)
      /\ host' = [patient |-> host.patient, waiting |-> TRUE, split |-> split, sent |-> host.sent + 1,
                   saving |-> saving, files |-> files]
      /\ ideOdd' = (ideOdd \/ split)
      /\ UNCHANGED <<ideStep, parser, ideFiles, ideFault>>
  BY DEF PacketArrives, deviceVars
<1>2. IF \E i \in Buffers : Takes(i)
      THEN \E i \in Buffers :
             /\ Takes(i)
             /\ rxBuffers' = [rxBuffers EXCEPT ![i] = [lock |-> TRUE, packet |-> numbered]]
             /\ rxIndex' = (i + 1) % IdeBuffers
             /\ rxQueue' = Append(rxQueue, i)
             /\ UNCHANGED ideLost
      ELSE ideLost' = TRUE /\ UNCHANGED rxVars2
  BY DEF PacketArrives
<1>3. /\ numbered \in PacketRecs /\ then \in IdeStates
      /\ ~host.split /\ p.end # "half" => Carried(numbered, OnHost, then)
  BY HostExpects
<1>4. files \in FileSets /\ saving \in NamesOrNone /\ split \in BOOLEAN
  BY <1>3 DEF IdeStates
<1>5. host \in HostRecs
  BY IdeFacts
<1> HIDE DEF files, saving, split, numbered
<1>6. /\ host' \in HostRecs /\ host'.patient = host.patient /\ host'.waiting /\ host'.split = split
      /\ host'.files = files /\ host'.saving = saving
  BY <1>1, <1>4, <1>5 DEF HostRecs
<1>7. OnDevice' = OnDevice /\ OnHost' = then
  BY <1>1, <1>6 DEF OnDevice, OnHost
<1> HIDE DEF then
<1>8. CASE \E i \in Buffers : Takes(i)
  <2>1. PICK i \in Buffers :
          /\ Takes(i)
          /\ rxBuffers' = [rxBuffers EXCEPT ![i] = [lock |-> TRUE, packet |-> numbered]]
          /\ rxIndex' = IdeWrap(i + 1)
          /\ rxQueue' = Append(rxQueue, i)
          /\ UNCHANGED ideLost
    BY <1>2, <1>8 DEF IdeWrap
  <2>2. ~Queued(rxQueue, i) /\ (ideStep.step = "parsed" => i # ideStep.buffer)
    BY <2>1, FreeIsNotQueued DEF Takes
  <2>3. rxQueue \in Seq(Buffers) /\ Len(rxQueue) \in Nat
    BY IdeFacts
  <2>4. /\ rxQueue' \in Seq(Buffers) /\ Len(rxQueue') = Len(rxQueue) + 1
        /\ (\A j \in 1 .. Len(rxQueue) : rxQueue'[j] = rxQueue[j]) /\ rxQueue'[Len(rxQueue) + 1] = i
    BY <2>1, <2>3, AppendIs
  <2>5. rxBuffers \in [Buffers -> [lock : BOOLEAN, packet : PacketRecs]]
    BY IdeFacts
  <2>6. /\ rxBuffers' \in [Buffers -> [lock : BOOLEAN, packet : PacketRecs]]
        /\ rxBuffers'[i].lock /\ rxBuffers'[i].packet = numbered
        /\ \A b \in Buffers : b # i => rxBuffers'[b] = rxBuffers[b]
    BY <1>3, <2>1, <2>5
  <2>7. IdeTypes'
    BY <1>1, <1>4, <1>6, <2>1, <2>4, <2>6, IdeFacts, NextBuffer DEF IdeTypes
  <2>8. \A b \in Buffers : Queued(rxQueue', b) <=> Queued(rxQueue, b) \/ b = i
    <3> SUFFICES ASSUME NEW b \in Buffers PROVE Queued(rxQueue', b) <=> Queued(rxQueue, b) \/ b = i
      OBVIOUS
    <3>1. \A j \in 1 .. Len(rxQueue) + 1 : j \in 1 .. Len(rxQueue) \/ j = Len(rxQueue) + 1
      BY <2>3
    <3>2. Len(rxQueue) + 1 \in 1 .. Len(rxQueue) + 1 /\ \A j \in 1 .. Len(rxQueue) : j \in 1 .. Len(rxQueue) + 1
      BY <2>3
    <3>3. Queued(rxQueue', b) => Queued(rxQueue, b) \/ b = i
      BY <2>4, <3>1 DEF Queued
    <3>4. Queued(rxQueue, b) \/ b = i => Queued(rxQueue', b)
      BY <2>4, <3>2 DEF Queued
    <3> QED
      BY <3>3, <3>4
  <2>9. LocksAgree'
    <3>1. \A b \in Buffers : Queued(rxQueue', b) => rxBuffers'[b].lock
      BY <2>6, <2>8 DEF IdeInv, LocksAgree
    <3>2. ASSUME NEW j \in 1 .. Len(rxQueue'), NEW k \in 1 .. Len(rxQueue'), rxQueue'[j] = rxQueue'[k] PROVE j = k
      <4>1. (j \in 1 .. Len(rxQueue) \/ j = Len(rxQueue) + 1) /\ (k \in 1 .. Len(rxQueue) \/ k = Len(rxQueue) + 1)
        BY <2>3, <2>4
      <4>2. \A l \in 1 .. Len(rxQueue) : rxQueue'[l] = rxQueue[l] /\ rxQueue[l] # i
        BY <2>2, <2>4 DEF Queued
      <4>3. \A l, m \in 1 .. Len(rxQueue) : rxQueue[l] = rxQueue[m] => l = m
        BY DEF IdeInv, LocksAgree
      <4> QED
        BY <2>4, <3>2, <4>1, <4>2, <4>3
    <3>3. ideStep'.step = "parsed" => rxBuffers'[ideStep'.buffer].lock /\ ~Queued(rxQueue', ideStep'.buffer)
      BY <1>1, <2>2, <2>6, <2>8, IdeFacts DEF IdeInv, LocksAgree
    <3>4. \A b \in Buffers :
            rxBuffers'[b].lock => Queued(rxQueue', b) \/ (ideStep'.step = "parsed" /\ b = ideStep'.buffer)
      BY <1>1, <2>6, <2>8 DEF IdeInv, LocksAgree
    <3> QED
      BY <3>1, <3>2, <3>3, <3>4 DEF LocksAgree
  <2>10. PatientNeverLoses'
    <3> SUFFICES ASSUME host.patient
                 PROVE  /\ ~ideLost' /\ rxQueue' # <<>> /\ Len(rxQueue') = 1 /\ rxIndex' = IdeWrap(rxQueue'[1] + 1)
                        /\ ideStep.step # "idle" => rxQueue'[1] # ideStep.buffer
      BY <1>1, <1>6 DEF PatientNeverLoses
    <3>1. ~ideLost /\ rxQueue = <<>> /\ i = rxIndex /\ (ideStep.step # "idle" => rxIndex # ideStep.buffer)
      BY <1>1, <2>1, PatientIsTaken
    <3>2. Len(rxQueue) = 0
      BY <3>1
    <3>3. Len(rxQueue') = 1 /\ rxQueue'[1] = i
      BY <2>4, <3>2
    <3> QED
      BY <2>1, <2>4, <3>1, <3>3
  <2>11. FilesFollow'
    <3> SUFFICES ASSUME ~ideOdd', ~ideLost' PROVE ~split /\ Leads(rxQueue', rxBuffers', OnDevice, then)
      BY <1>6, <1>7 DEF FilesFollow
    <3>1. ~ideOdd /\ ~ideLost /\ ~split /\ p.end # "half"
      BY <1>1, <2>1 DEF split
    <3>2. ~host.split /\ Leads(rxQueue, rxBuffers, OnDevice, OnHost)
      BY <1>1, <3>1 DEF IdeInv, FilesFollow
    <3>3. Leads(rxQueue, rxBuffers', OnDevice, OnHost)
      <4>1. \A b \in Buffers : Queued(rxQueue, b) => rxBuffers'[b].packet = rxBuffers[b].packet
        BY <2>2, <2>6
      <4> QED
        BY <2>3, <3>2, <4>1, ChainStays
    <3>4. Carried(rxBuffers'[i].packet, OnHost, then)
      BY <1>3, <2>6, <3>1, <3>2
    <3>5. Leads(rxQueue', rxBuffers', OnDevice, then)
      BY <1>3, <2>1, <2>3, <3>3, <3>4, ChainGrows
    <3> QED
      BY <3>1, <3>5
  <2> QED
    BY <2>7, <2>9, <2>10, <2>11 DEF IdeInv
<1>9. CASE ~\E i \in Buffers : Takes(i)
  <2>1. ideLost' = TRUE /\ UNCHANGED <<rxBuffers, rxIndex, rxQueue>>
    BY <1>2, <1>9 DEF rxVars2
  <2>2. IdeTypes'
    BY <1>1, <1>4, <1>6, <2>1, IdeFacts DEF IdeTypes
  <2>3. LocksAgree'
    BY <1>1, <2>1 DEF IdeInv, LocksAgree
  <2>4. ~host.patient
    BY <1>1, <1>9, PatientIsTaken, IdeFacts
  <2>5. PatientNeverLoses' /\ FilesFollow'
    BY <1>6, <2>1, <2>4 DEF PatientNeverLoses, FilesFollow
  <2> QED
    BY <2>2, <2>3, <2>5 DEF IdeInv
<1> QED
  BY <1>8, <1>9

-----------------------------------------------------------------------------
\* Main parses the packet at the head of the queue.
LEMMA ParsesKeeps ==
  ASSUME IdeInv, Parses, parser' \in [state : {"idle", "stream"}, file : NamesOrNone],
         parser'.state = "idle" <=> parser'.file = "none", ideFiles' \in FileSets,
         UNCHANGED host \/ host' = [host EXCEPT !.waiting = FALSE],
         ideOdd' \in BOOLEAN, ideOdd => ideOdd', UNCHANGED ideFault,
         ~ideOdd' => \A then \in IdeStates :
           Carried(Packet, OnDevice, then) => then.files = ideFiles' /\ then.saving = parser'.file
  PROVE  IdeInv'
<1>1. /\ IdeOk /\ ideStep.step = "idle" /\ rxQueue # <<>> /\ rxQueue' = Tail(rxQueue)
      /\ ideStep' = [step |-> "parsed", buffer |-> Head(rxQueue)]
      /\ UNCHANGED <<rxBuffers, rxIndex, ideLost>>
  BY DEF Parses
<1> DEFINE b == Head(rxQueue)
           n == Len(rxQueue)
<1>2. /\ rxQueue' \in Seq(Buffers) /\ Len(rxQueue') = n - 1 /\ n \in Nat \ {0} /\ b \in Buffers /\ b = rxQueue[1]
      /\ \A i \in 1 .. n - 1 : rxQueue'[i] = rxQueue[i + 1]
  BY <1>1, IdeFacts, TailIs
<1>3. host \in HostRecs
  BY IdeFacts
<1>4. /\ host' \in HostRecs /\ host'.patient = host.patient /\ host'.files = host.files
      /\ host'.saving = host.saving /\ host'.split = host.split /\ (host'.waiting => host.waiting)
  <2>1. CASE UNCHANGED host
    BY <1>3, <2>1
  <2>2. CASE host' = [host EXCEPT !.waiting = FALSE]
    BY <1>3, <2>2 DEF HostRecs
  <2> QED
    BY <2>1, <2>2
<1> HIDE DEF b, n
<1>5. ideStep' \in [step : {"idle", "parsed", "unlocked"}, buffer : Buffers] /\ ideStep'.step = "parsed"
      /\ ideStep'.buffer = b
  BY <1>1, <1>2 DEF b
<1>6. IdeTypes'
  BY <1>1, <1>2, <1>4, <1>5, IdeFacts DEF IdeTypes
<1>7. \A i, j \in 1 .. n : rxQueue[i] = rxQueue[j] => i = j
  BY DEF IdeInv, LocksAgree, n
<1>8. \A c \in Buffers : Queued(rxQueue, c) <=> c = b \/ Queued(rxQueue', c)
  <2> SUFFICES ASSUME NEW c \in Buffers PROVE Queued(rxQueue, c) <=> c = b \/ Queued(rxQueue', c)
    OBVIOUS
  <2>1. 1 \in 1 .. n /\ \A i \in 1 .. n - 1 : i + 1 \in 1 .. n
    BY <1>2
  <2>2. \A i \in 1 .. n : i = 1 \/ (i - 1 \in 1 .. n - 1 /\ rxQueue'[i - 1] = rxQueue[i])
    <3> SUFFICES ASSUME NEW i \in 1 .. n, i # 1 PROVE i - 1 \in 1 .. n - 1 /\ rxQueue'[i - 1] = rxQueue[i]
      OBVIOUS
    <3>1. i - 1 \in 1 .. n - 1 /\ (i - 1) + 1 = i
      BY <1>2
    <3>2. rxQueue'[i - 1] = rxQueue[(i - 1) + 1]
      BY <1>2, <3>1
    <3> QED
      BY <3>1, <3>2
  <2>3. Queued(rxQueue', c) => Queued(rxQueue, c)
    BY <1>2, <2>1 DEF Queued, n
  <2>4. Queued(rxQueue, c) => c = b \/ Queued(rxQueue', c)
    BY <1>2, <2>2 DEF Queued, n
  <2>5. c = b => Queued(rxQueue, c)
    BY <1>2, <2>1 DEF Queued, n
  <2> QED
    BY <2>3, <2>4, <2>5
<1>9. ~Queued(rxQueue', b)
  <2> SUFFICES ASSUME NEW i \in 1 .. n - 1, rxQueue'[i] = b PROVE FALSE
    BY <1>2 DEF Queued
  <2>0. n \in Nat \ {0} /\ i \in 1 .. n - 1
    BY <1>2
  <2>1. i + 1 \in 1 .. n /\ 1 \in 1 .. n /\ i + 1 # 1
    BY ONLY <2>0
  <2> QED
    BY <1>2, <1>7, <2>1
<1>10. LocksAgree'
  <2>1. \A c \in Buffers : Queued(rxQueue', c) => rxBuffers[c].lock
    BY <1>8 DEF IdeInv, LocksAgree
  <2>2. ASSUME NEW i \in 1 .. n - 1, NEW j \in 1 .. n - 1, rxQueue'[i] = rxQueue'[j] PROVE i = j
    <3>1. i + 1 \in 1 .. n /\ j + 1 \in 1 .. n
      BY <1>2
    <3>2. i + 1 = j + 1
      BY <1>2, <1>7, <2>2, <3>1
    <3> QED
      BY <3>2
  <2>3. rxBuffers[b].lock
    BY <1>2, <1>8 DEF IdeInv, LocksAgree
  <2>4. \A c \in Buffers : rxBuffers[c].lock => Queued(rxQueue', c) \/ c = b
    BY <1>1, <1>8 DEF IdeInv, LocksAgree
  <2> QED
    BY <1>1, <1>2, <1>5, <1>9, <2>1, <2>2, <2>3, <2>4 DEF LocksAgree
<1>11. PatientNeverLoses'
  <2> SUFFICES ASSUME host.patient
               PROVE  ~ideLost /\ rxQueue' = <<>> /\ rxIndex = IdeWrap(b + 1)
    BY <1>1, <1>4, <1>5 DEF PatientNeverLoses
  <2>1. ~ideLost /\ n = 1 /\ rxIndex = IdeWrap(b + 1)
    BY <1>1, <1>2 DEF IdeInv, PatientNeverLoses, n
  <2>2. rxQueue' = <<>>
    BY <1>2, <2>1, EmptySeq
  <2> QED
    BY <2>1, <2>2
<1>12. FilesFollow'
  <2> SUFFICES ASSUME ~ideOdd', ~ideLost
               PROVE  ~host.split /\ Leads(rxQueue', rxBuffers, OnDevice', OnHost)
    BY <1>1, <1>4 DEF FilesFollow, OnHost
  <2>1. ~host.split /\ Leads(rxQueue, rxBuffers, OnDevice, OnHost)
    BY <1>1 DEF IdeInv, FilesFollow
  <2>2. PICK u \in IdeStates : Carried(Packet, OnDevice, u) /\ Leads(rxQueue', rxBuffers, u, OnHost)
    BY <1>1, <2>1, IdeFacts, ChainShrinks DEF Packet
  <2>3. u.files = ideFiles' /\ u.saving = parser'.file
    BY <2>2
  <2>4. u = OnDevice'
    BY <2>3 DEF IdeStates, OnDevice
  <2> QED
    BY <2>1, <2>2, <2>4
<1> QED
  BY <1>6, <1>10, <1>11, <1>12 DEF IdeInv

LEMMA PacketIs ==
  ASSUME IdeInv, rxQueue # <<>>, Packet.cmd # "wiped"
  PROVE  /\ Packet.name \in IdeNames /\ Packet.id \in Nat
         /\ Packet.form \in {"good", "cut", "open"} /\ Packet.end \in {"no", "yes", "half", "tail"}
<1>1. Packet \in PacketRecs
  BY IdeFacts
<1>2. Packet # NoPacket
  BY DEF NoPacket
<1> QED
  BY <1>1, <1>2 DEF PacketRecs

LEMMA RepliesIs ==
  ASSUME Replies
  PROVE  /\ parser' \in [state : {"idle", "stream"}, file : NamesOrNone] /\ (parser'.state = "idle" <=> parser'.file = "none")
         /\ parser'.file = "none"
         /\ host' = [host EXCEPT !.waiting = FALSE]
  BY DEF Replies, Idle, NamesOrNone

\* A command that the parser finds idle, and carries out as it was sent.
LEMMA CommandKeeps ==
  ASSUME IdeInv, Parses, Replies, parser.state = "idle", Packet.cmd \notin {"wiped", "save", "data"},
         ideFiles' \in FileSets, ideOdd' \in BOOLEAN, ideOdd => ideOdd', UNCHANGED ideFault,
         ~ideOdd' => \A then \in IdeStates : Carried(Packet, OnDevice, then) => then.files = ideFiles'
  PROVE  IdeInv'
<1>1. ~ideOdd' => \A then \in IdeStates :
        Carried(Packet, OnDevice, then) => then.files = ideFiles' /\ then.saving = parser'.file
  BY RepliesIs DEF Carried
<1> QED
  BY <1>1, RepliesIs, ParsesKeeps

LEMMA ParseNothingKeeps ==
  ASSUME IdeInv, ParseNothing
  PROVE  IdeInv'
<1>1. /\ Parses /\ UNCHANGED <<ideFiles, ideOdd, ideFault>>
      /\ IF Packet.cmd = "wiped" THEN UNCHANGED <<parser, host>> ELSE Replies
      /\ Packet.cmd = "wiped" \/ (parser.state = "idle" /\ Packet.cmd = "data")
  BY DEF ParseNothing
<1>2. \A then \in IdeStates : ~Carried(Packet, OnDevice, then)
  BY <1>1, IdeFacts, IdeAssumption DEF Carried, OnDevice
<1>3. /\ parser' \in [state : {"idle", "stream"}, file : NamesOrNone] /\ (parser'.state = "idle" <=> parser'.file = "none")
      /\ UNCHANGED host \/ host' = [host EXCEPT !.waiting = FALSE]
  BY <1>1, IdeFacts, RepliesIs
<1>4. ideFiles' \in FileSets /\ ideOdd' \in BOOLEAN /\ (ideOdd => ideOdd')
  BY <1>1, IdeFacts
<1> QED
  BY <1>1, <1>2, <1>3, <1>4, ParsesKeeps

\* Either the packet is appended to the file, or the file system is full.
LEMMA SaveStreamKeeps ==
  ASSUME IdeInv, Parses, NEW name \in IdeNames, NEW saved \in Seq(Int), SaveStream(name, saved),
         Packet.cmd # "wiped",
         \A then \in IdeStates : Carried(Packet, OnDevice, then) =>
           /\ then.files = [ideFiles EXCEPT ![name] = Append(saved, Packet.id)]
           /\ then.saving = IF Packet.end = "no" THEN name ELSE "none"
  PROVE  IdeInv'
<1>1. rxQueue # <<>> /\ ideFiles \in FileSets /\ ideOdd \in BOOLEAN
  BY IdeFacts DEF Parses
<1>2. Packet.id \in Int
  BY <1>1, PacketIs
<1>3. UNCHANGED ideFault
  BY DEF SaveStream
<1> DEFINE longer == Append(saved, Packet.id)
<1>4. longer \in Seq(Int)
  BY <1>2
<1> HIDE DEF longer
<1>5. [ideFiles EXCEPT ![name] = longer] \in FileSets /\ [ideFiles EXCEPT ![name] = saved] \in FileSets
  BY <1>1, <1>4 DEF FileSets
<1>6. CASE /\ ideFiles' = [ideFiles EXCEPT ![name] = longer] /\ UNCHANGED ideOdd
           /\ IF Packet.end = "yes" THEN Replies ELSE parser' = [state |-> "stream", file |-> name] /\ UNCHANGED host
  <2>1. /\ parser' \in [state : {"idle", "stream"}, file : NamesOrNone] /\ (parser'.state = "idle" <=> parser'.file = "none")
        /\ UNCHANGED host \/ host' = [host EXCEPT !.waiting = FALSE]
        /\ parser'.file = IF Packet.end = "yes" THEN "none" ELSE name
    BY <1>6, RepliesIs, IdeAssumption DEF NamesOrNone
  <2>2. \A then \in IdeStates :
          Carried(Packet, OnDevice, then) => then.files = ideFiles' /\ then.saving = parser'.file
    <3> SUFFICES ASSUME NEW then \in IdeStates, Carried(Packet, OnDevice, then)
                 PROVE  then.files = ideFiles' /\ then.saving = parser'.file
      OBVIOUS
    <3>1. then.files = ideFiles' /\ then.saving = IF Packet.end = "no" THEN name ELSE "none"
      BY <1>6 DEF longer
    <3>2. Packet.end \in {"no", "yes"}
      BY DEF Carried
    <3> QED
      BY <2>1, <3>1, <3>2
  <2>3. ideFiles' \in FileSets /\ ideOdd' \in BOOLEAN /\ (ideOdd => ideOdd')
    BY <1>1, <1>5, <1>6
  <2> QED
    BY <1>3, <2>1, <2>2, <2>3, ParsesKeeps
<1>7. CASE ideFiles' = [ideFiles EXCEPT ![name] = saved] /\ Replies /\ ideOdd' = TRUE
  BY <1>3, <1>5, <1>7, RepliesIs, ParsesKeeps
<1> QED
  BY <1>6, <1>7 DEF SaveStream, longer

LEMMA ParseSaveKeeps ==
  ASSUME IdeInv, ParseSave \/ ParseStream
  PROVE  IdeInv'
<1>1. CASE ParseSave
  <2>1. Parses /\ rxQueue # <<>> /\ parser.state = "idle" /\ Packet.cmd = "save" /\ SaveStream(Packet.name, <<>>)
    BY <1>1 DEF ParseSave, Parses
  <2>2. Packet.name \in IdeNames
    BY <2>1, PacketIs
  <2>3. \A then \in IdeStates : Carried(Packet, OnDevice, then) =>
          /\ then.files = [ideFiles EXCEPT ![Packet.name] = Append(<<>>, Packet.id)]
          /\ then.saving = IF Packet.end = "no" THEN Packet.name ELSE "none"
    <3>1. Append(<<>>, Packet.id) = <<Packet.id>>
      OBVIOUS
    <3> QED
      BY <2>1, <3>1 DEF Carried, OnDevice
  <2>4. <<>> \in Seq(Int)
    OBVIOUS
  <2> QED
    BY <2>1, <2>2, <2>3, <2>4, SaveStreamKeeps
<1>2. CASE ParseStream
  <2>1. /\ Parses /\ parser.state = "stream" /\ Packet.cmd # "wiped"
        /\ SaveStream(parser.file, ideFiles[parser.file])
    BY <1>2 DEF ParseStream
  <2>2. parser.file \in IdeNames
    BY <2>1, IdeFacts DEF NamesOrNone
  <2>3. ideFiles[parser.file] \in Seq(Int)
    BY <2>2, IdeFacts DEF FileSets
  <2>4. parser.file # "none"
    BY <2>2, IdeAssumption
  <2>5. \A then \in IdeStates : Carried(Packet, OnDevice, then) =>
          /\ then.files = [ideFiles EXCEPT ![parser.file] = Append(ideFiles[parser.file], Packet.id)]
          /\ then.saving = IF Packet.end = "no" THEN parser.file ELSE "none"
    BY <2>4 DEF Carried, OnDevice
  <2> QED
    BY <2>1, <2>2, <2>3, <2>5, SaveStreamKeeps
<1> QED
  BY <1>1, <1>2

LEMMA ParseRunKeeps ==
  ASSUME IdeInv, ParseRun
  PROVE  IdeInv'
<1>1. /\ Parses /\ Replies /\ parser.state = "idle" /\ Packet.cmd \in {"run", "stop"}
      /\ ideOdd' = (ideOdd \/ Packet.form # "good") /\ UNCHANGED <<ideFiles, ideFault>>
  BY DEF ParseRun
<1>2. ideFiles' \in FileSets /\ ideOdd' \in BOOLEAN /\ (ideOdd => ideOdd')
  BY <1>1, IdeFacts
<1>3. \A then \in IdeStates : Carried(Packet, OnDevice, then) => then.files = ideFiles'
  BY <1>1 DEF Carried, OnDevice
<1> QED
  BY <1>1, <1>2, <1>3, CommandKeeps

LEMMA ParseRemoveKeeps ==
  ASSUME IdeInv, ParseRemove
  PROVE  IdeInv'
<1>1. /\ Parses /\ Replies /\ parser.state = "idle" /\ Packet.cmd = "rm" /\ rxQueue # <<>>
      /\ ideFiles' = IF GoesOn THEN [ideFiles EXCEPT ![Packet.name] = NotThere] ELSE ideFiles
      /\ ideOdd' = (ideOdd \/ Packet.form # "good") /\ UNCHANGED ideFault
  BY DEF ParseRemove, Parses
<1>2. ideFiles \in FileSets /\ ideOdd \in BOOLEAN /\ Packet.name \in IdeNames
  BY <1>1, IdeFacts, PacketIs
<1>3. NotThere \in Seq(Int)
  BY DEF NotThere
<1>4. ideFiles' \in FileSets /\ ideOdd' \in BOOLEAN /\ (ideOdd => ideOdd')
  BY <1>1, <1>2, <1>3 DEF FileSets
<1>5. ~ideOdd' => \A then \in IdeStates : Carried(Packet, OnDevice, then) => then.files = ideFiles'
  BY <1>1 DEF Carried, OnDevice, GoesOn
<1> QED
  BY <1>1, <1>4, <1>5, CommandKeeps

LEMMA ParseMoveKeeps ==
  ASSUME IdeInv, ParseMove
  PROVE  IdeInv'
<1>1. /\ Parses /\ Replies /\ parser.state = "idle" /\ Packet.cmd = "mv" /\ rxQueue # <<>>
      /\ ideFiles' = Moved(ideFiles, Packet.name) /\ UNCHANGED <<ideOdd, ideFault>>
  BY DEF ParseMove, Parses, Moved, Exists
<1>2. ideFiles' \in FileSets /\ ideOdd' \in BOOLEAN /\ (ideOdd => ideOdd')
  BY <1>1, IdeFacts, PacketIs, MovedIs
<1>3. \A then \in IdeStates : Carried(Packet, OnDevice, then) => then.files = ideFiles'
  BY <1>1 DEF Carried, OnDevice
<1> QED
  BY <1>1, <1>2, <1>3, CommandKeeps

LEMMA ParseAnswersKeeps ==
  ASSUME IdeInv, ParseBoot \/ ParseList
  PROVE  IdeInv'
<1>1. /\ Parses /\ Replies /\ parser.state = "idle" /\ Packet.cmd \in {"boot", "ls"}
      /\ UNCHANGED <<ideFiles, ideOdd, ideFault>>
  BY DEF ParseBoot, ParseList
<1>2. ideFiles' \in FileSets /\ ideOdd' \in BOOLEAN /\ (ideOdd => ideOdd')
  BY <1>1, IdeFacts
<1>3. \A then \in IdeStates : Carried(Packet, OnDevice, then) => then.files = ideFiles'
  BY <1>1 DEF Carried, OnDevice
<1> QED
  BY <1>1, <1>2, <1>3, CommandKeeps

LEMMA ReleasesTwiceKeeps ==
  ASSUME IdeInv, ReleasesTwice
  PROVE  IdeInv'
<1>1. /\ ideFault' = "releases a value that was released"
      /\ rxBuffers' = [i \in Buffers |-> [lock |-> FALSE, packet |-> NoPacket]] /\ rxIndex' = 0 /\ rxQueue' = <<>>
      /\ parser' = Idle /\ ideStep' = [step |-> "idle", buffer |-> 0]
      /\ ideFiles' = [n \in IdeNames |-> NotThere] /\ ideLost' = TRUE /\ UNCHANGED <<host, ideOdd>>
  BY DEF ReleasesTwice
<1>2. 0 \in Buffers
  BY IdeAssumption DEF Buffers
<1>3. NotThere \in Seq(Int) /\ NoPacket \in PacketRecs
  BY DEF NotThere, PacketRecs
<1>4. [lock |-> FALSE, packet |-> NoPacket] \in [lock : BOOLEAN, packet : PacketRecs]
  BY <1>3
<1>5. /\ rxBuffers' \in [Buffers -> [lock : BOOLEAN, packet : PacketRecs]] /\ ideFiles' \in FileSets
      /\ rxIndex' \in Buffers /\ rxQueue' \in Seq(Buffers)
  <2>1. rxBuffers' \in [Buffers -> [lock : BOOLEAN, packet : PacketRecs]]
    BY <1>1, <1>4
  <2>2. ideFiles' \in FileSets
    BY <1>1, <1>3 DEF FileSets
  <2>3. <<>> \in Seq(Buffers)
    OBVIOUS
  <2>4. rxIndex' \in Buffers /\ rxQueue' \in Seq(Buffers)
    BY <1>1, <1>2, <2>3
  <2> QED
    BY <2>1, <2>2, <2>4
<1>6. /\ parser' \in [state : {"idle", "stream"}, file : NamesOrNone] /\ parser'.state = "idle" /\ parser'.file = "none"
      /\ ideStep' \in [step : {"idle", "parsed", "unlocked"}, buffer : Buffers]
  BY <1>1, <1>2 DEF Idle, NamesOrNone
<1>7. IdeTypes'
  BY <1>1, <1>5, <1>6, IdeFacts DEF IdeTypes
<1>8. LocksAgree'
  <2>1. Len(rxQueue') = 0 /\ \A b \in Buffers : ~rxBuffers'[b].lock
    BY <1>1
  <2>2. \A i \in 1 .. Len(rxQueue') : FALSE
    BY <2>1
  <2> QED
    BY <1>1, <2>1, <2>2 DEF LocksAgree, Queued
<1>9. PatientNeverLoses' /\ FilesFollow'
  BY <1>1 DEF PatientNeverLoses, FilesFollow, IdeOk
<1> QED
  BY <1>7, <1>8, <1>9 DEF IdeInv

LEMMA ReleaseBeginsKeeps ==
  ASSUME IdeInv, ReleaseBegins
  PROVE  IdeInv'
<1> DEFINE b == ideStep.buffer
<1>1. /\ ideStep.step = "parsed" /\ ideStep' = [ideStep EXCEPT !.step = "unlocked"]
      /\ rxBuffers' = [rxBuffers EXCEPT ![b].lock = FALSE]
      /\ UNCHANGED <<rxIndex, rxQueue, parser, ideFiles, host, ideLost, ideOdd, ideFault>>
  BY DEF ReleaseBegins, deviceVars
<1>2. /\ b \in Buffers /\ rxBuffers \in [Buffers -> [lock : BOOLEAN, packet : PacketRecs]]
      /\ rxQueue \in Seq(Buffers) /\ ideStep \in [step : {"idle", "parsed", "unlocked"}, buffer : Buffers]
  BY IdeFacts
<1> HIDE DEF b
<1>3. /\ rxBuffers' \in [Buffers -> [lock : BOOLEAN, packet : PacketRecs]] /\ ~rxBuffers'[b].lock
      /\ \A c \in Buffers : rxBuffers'[c].packet = rxBuffers[c].packet /\ (c # b => rxBuffers'[c] = rxBuffers[c])
  BY <1>1, <1>2
<1>4. ideStep' \in [step : {"idle", "parsed", "unlocked"}, buffer : Buffers] /\ ideStep'.step = "unlocked"
      /\ ideStep'.buffer = b
  BY <1>1, <1>2 DEF b
<1>5. IdeTypes'
  BY <1>1, <1>3, <1>4, IdeFacts DEF IdeTypes
<1>6. LocksAgree'
  BY <1>1, <1>3, <1>4 DEF IdeInv, LocksAgree, b
<1>7. PatientNeverLoses'
  BY <1>1, <1>4 DEF IdeInv, PatientNeverLoses, IdeOk, b
<1>8. FilesFollow'
  <2> SUFFICES ASSUME IdeOk, ~ideOdd, ~ideLost PROVE ~host.split /\ Leads(rxQueue, rxBuffers', OnDevice, OnHost)
    BY <1>1 DEF FilesFollow, IdeOk, OnDevice, OnHost
  <2>1. ~host.split /\ Leads(rxQueue, rxBuffers, OnDevice, OnHost)
    BY DEF IdeInv, FilesFollow
  <2>2. \A c \in Buffers : Queued(rxQueue, c) => rxBuffers'[c].packet = rxBuffers[c].packet
    BY <1>3
  <2> QED
    BY <1>2, <2>1, <2>2, ChainStays
<1> QED
  BY <1>5, <1>6, <1>7, <1>8 DEF IdeInv

LEMMA ReleaseEndsKeeps ==
  ASSUME IdeInv, ReleaseEnds
  PROVE  IdeInv'
<1> DEFINE b == ideStep.buffer
<1>1. /\ IdeOk /\ ideStep.step = "unlocked" /\ ideStep' = [step |-> "idle", buffer |-> 0]
      /\ rxBuffers' = [rxBuffers EXCEPT ![b].packet = NoPacket]
      /\ ideLost' = (ideLost \/ rxBuffers[b].lock)
      /\ UNCHANGED host \/ (host' = [host EXCEPT !.waiting = FALSE] /\ \A i \in Buffers : ~rxBuffers[i].lock)
      /\ UNCHANGED <<rxIndex, rxQueue, parser, ideFiles, ideOdd, ideFault>>
  BY DEF ReleaseEnds, deviceVars
<1>2. /\ b \in Buffers /\ rxBuffers \in [Buffers -> [lock : BOOLEAN, packet : PacketRecs]] /\ 0 \in Buffers
      /\ rxQueue \in Seq(Buffers) /\ Len(rxQueue) \in Nat /\ host \in HostRecs /\ NoPacket \in PacketRecs
  BY IdeFacts, IdeAssumption DEF Buffers, PacketRecs
<1>3. /\ host' \in HostRecs /\ host'.patient = host.patient /\ host'.files = host.files
      /\ host'.saving = host.saving /\ host'.split = host.split
      /\ host'.waiting \/ ~host.waiting \/ \A i \in Buffers : ~rxBuffers[i].lock
  <2>1. CASE UNCHANGED host
    BY <1>2, <2>1 DEF HostRecs
  <2>2. CASE host' = [host EXCEPT !.waiting = FALSE] /\ \A i \in Buffers : ~rxBuffers[i].lock
    BY <1>2, <2>2 DEF HostRecs
  <2> QED
    BY <1>1, <2>1, <2>2
<1> HIDE DEF b
<1>4. /\ rxBuffers' \in [Buffers -> [lock : BOOLEAN, packet : PacketRecs]]
      /\ \A c \in Buffers : rxBuffers'[c].lock = rxBuffers[c].lock /\ (c # b => rxBuffers'[c] = rxBuffers[c])
  BY <1>1, <1>2
<1>5. ideStep' \in [step : {"idle", "parsed", "unlocked"}, buffer : Buffers] /\ ideStep'.step = "idle"
  BY <1>1, <1>2
<1>6. ideLost' \in BOOLEAN
  BY <1>1
<1>7. IdeTypes'
  BY <1>1, <1>3, <1>4, <1>5, <1>6, IdeFacts DEF IdeTypes
<1>8. LocksAgree'
  BY <1>1, <1>4, <1>5 DEF IdeInv, LocksAgree
<1>9. rxQueue = <<>> \/ \E i \in Buffers : rxBuffers[i].lock
  BY IdeFacts DEF IdeInv, LocksAgree
<1>10. PatientNeverLoses'
  <2> SUFFICES ASSUME host.patient
               PROVE  /\ ~ideLost' /\ (~host'.waiting => rxQueue = <<>>)
                      /\ rxQueue # <<>> => Len(rxQueue) = 1 /\ rxIndex = IdeWrap(rxQueue[1] + 1)
    BY <1>1, <1>3, <1>5 DEF PatientNeverLoses
  <2>1. /\ ~ideLost /\ (~host.waiting => rxQueue = <<>>)
        /\ rxQueue # <<>> => Len(rxQueue) = 1 /\ rxIndex = IdeWrap(rxQueue[1] + 1) /\ rxQueue[1] # b
    BY <1>1 DEF IdeInv, PatientNeverLoses, b
  <2>2. ~Queued(rxQueue, b)
    <3> SUFFICES ASSUME NEW i \in 1 .. Len(rxQueue), rxQueue[i] = b PROVE FALSE
      BY DEF Queued
    <3>1. rxQueue # <<>>
      BY <1>2
    <3>2. Len(rxQueue) = 1
      BY <2>1, <3>1
    <3>3. i = 1
      BY <3>2
    <3> QED
      BY <2>1, <3>1, <3>3
  <2>3. ~rxBuffers[b].lock
    BY <1>1, <1>2, <2>2 DEF IdeInv, LocksAgree
  <2> QED
    BY <1>1, <1>3, <1>9, <2>1, <2>3
<1>11. FilesFollow'
  <2> SUFFICES ASSUME ~ideOdd, ~ideLost' PROVE ~host.split /\ Leads(rxQueue, rxBuffers', OnDevice, OnHost)
    BY <1>1, <1>3 DEF FilesFollow, OnDevice, OnHost
  <2>1. ~host.split /\ Leads(rxQueue, rxBuffers, OnDevice, OnHost) /\ ~rxBuffers[b].lock
    BY <1>1 DEF IdeInv, FilesFollow
  <2>2. \A c \in Buffers : Queued(rxQueue, c) => rxBuffers'[c].packet = rxBuffers[c].packet
    BY <1>2, <1>4, <2>1 DEF IdeInv, LocksAgree
  <2> QED
    BY <1>2, <2>1, <2>2, ChainStays
<1> QED
  BY <1>7, <1>8, <1>10, <1>11 DEF IdeInv

-----------------------------------------------------------------------------
LEMMA IdeBegins ==
  ASSUME IdeInit
  PROVE  IdeInv
<1>1. /\ rxBuffers = [i \in Buffers |-> [lock |-> FALSE, packet |-> NoPacket]] /\ rxIndex = 0 /\ rxQueue = <<>>
      /\ ideStep = [step |-> "idle", buffer |-> 0] /\ parser = Idle
      /\ ideFiles = [n \in IdeNames |-> NotThere]
      /\ host \in [patient : BOOLEAN, waiting : {FALSE}, saving : {"none"}, split : {FALSE}, sent : {0},
                    files : {ideFiles}]
      /\ ideLost = FALSE /\ ideOdd = FALSE
  BY DEF IdeInit
<1>2. 0 \in Buffers
  BY IdeAssumption DEF Buffers
<1>3. NotThere \in Seq(Int) /\ NoPacket \in PacketRecs
  BY DEF NotThere, PacketRecs
<1>4. [lock |-> FALSE, packet |-> NoPacket] \in [lock : BOOLEAN, packet : PacketRecs]
  BY <1>3
<1>5. /\ rxBuffers \in [Buffers -> [lock : BOOLEAN, packet : PacketRecs]] /\ ideFiles \in FileSets
      /\ rxIndex \in Buffers /\ rxQueue \in Seq(Buffers)
  BY <1>1, <1>2, <1>3, <1>4 DEF FileSets
<1>6. /\ parser \in [state : {"idle", "stream"}, file : NamesOrNone] /\ parser.state = "idle" /\ parser.file = "none"
      /\ ideStep \in [step : {"idle", "parsed", "unlocked"}, buffer : Buffers]
  BY <1>1, <1>2 DEF Idle, NamesOrNone
<1>7. /\ host \in HostRecs /\ ~host.split /\ host.saving = "none" /\ host.files = ideFiles
  BY <1>1, <1>5 DEF HostRecs, NamesOrNone
<1>8. IdeTypes
  BY <1>1, <1>5, <1>6, <1>7 DEF IdeTypes
<1>9. LocksAgree
  <2>1. Len(rxQueue) = 0 /\ (\A b \in Buffers : ~rxBuffers[b].lock) /\ ideStep.step = "idle"
    BY <1>1
  <2>2. \A i \in 1 .. Len(rxQueue) : FALSE
    BY <2>1
  <2> QED
    BY <2>1, <2>2 DEF LocksAgree, Queued
<1>10. PatientNeverLoses
  BY <1>1 DEF PatientNeverLoses
<1>11. FilesFollow
  <2>1. OnDevice \in IdeStates /\ OnHost = OnDevice
    BY <1>6, <1>7, <1>5 DEF OnDevice, OnHost, IdeStates, NamesOrNone
  <2>2. Leads(<<>>, rxBuffers, OnDevice, OnDevice)
    BY <2>1, ChainNone
  <2> QED
    BY <1>1, <1>7, <2>1, <2>2 DEF FilesFollow
<1> QED
  BY <1>8, <1>9, <1>10, <1>11 DEF IdeInv

LEMMA IdeInvIsKept ==
  ASSUME IdeInv, [IdeNext]_ideVars
  PROVE  IdeInv'
<1>1. CASE UNCHANGED ideVars
  <2>1. UNCHANGED <<rxBuffers, rxIndex, rxQueue, ideStep, parser, ideFiles, host, ideLost, ideOdd, ideFault>>
    BY <1>1 DEF ideVars
  <2> QED
    BY <2>1 DEF IdeInv, IdeTypes, LocksAgree, PatientNeverLoses, FilesFollow, IdeOk, OnDevice, OnHost
<1>2. CASE \E p \in Packets : PacketArrives(p)
  BY <1>2, PacketArrivesKeeps
<1>3. CASE IdeProcess
  BY <1>3, ParseNothingKeeps, ParseSaveKeeps, ParseRunKeeps, ReleasesTwiceKeeps, ParseRemoveKeeps,
     ParseAnswersKeeps, ParseMoveKeeps, ReleaseBeginsKeeps, ReleaseEndsKeeps DEF IdeProcess
<1> QED
  BY <1>1, <1>2, <1>3 DEF IdeNext

LEMMA IdeInvHolds ==
  ASSUME IdeInv
  PROVE  FilesAreAsSent
<1> SUFFICES ASSUME IdeOk, rxQueue = <<>>, ~ideOdd, host.patient \/ ~ideLost PROVE ideFiles = host.files
  BY DEF FilesAreAsSent
<1>1. ~ideLost
  BY DEF IdeInv, PatientNeverLoses
<1>2. Leads(<<>>, rxBuffers, OnDevice, OnHost)
  BY <1>1 DEF IdeInv, FilesFollow
<1>3. OnDevice = OnHost
  BY <1>2, NoneLeads
<1>4. OnDevice.files = ideFiles /\ OnHost.files = host.files
  BY DEF OnDevice, OnHost
<1> QED
  BY <1>3, <1>4

-----------------------------------------------------------------------------
(***************************************************************************)
(* Buffers: quotients and remainders, and the powers of Byte.              *)
(***************************************************************************)
LEMMA MulMono == ASSUME NEW a \in Int, NEW b \in Int, NEW c \in Nat, a <= b PROVE a * c <= b * c
OBVIOUS
LEMMA Distribute ==
  ASSUME NEW a \in Int, NEW b \in Int, NEW c \in Int, NEW d \in Int
  PROVE  a * (b * c + d) = (a * b) * c + a * d
<1>1. a * (b * c + d) = a * (b * c) + a * d
  OBVIOUS
<1>2. a * (b * c) = (a * b) * c
  OBVIOUS
<1> QED
  BY <1>1, <1>2
LEMMA DivMod == ASSUME NEW a \in Int, NEW b \in Nat \ {0} PROVE a = b * (a \div b) + (a % b) /\ a % b \in 0 .. b - 1 /\ a \div b \in Int
OBVIOUS
LEMMA DivUnique ==
  ASSUME NEW a \in Int, NEW b \in Nat \ {0}, NEW q \in Int, NEW r \in 0 .. b - 1, a = b * q + r
  PROVE  a \div b = q /\ a % b = r
<1>1. a = b * (a \div b) + (a % b) /\ a % b \in 0 .. b - 1 /\ a \div b \in Int
  BY DivMod
<1>2. PICK p, s : p = a \div b /\ s = a % b
  OBVIOUS
<1>3. p \in Int /\ s \in 0 .. b - 1 /\ b * p + s = b * q + r
  BY <1>1, <1>2
<1>4. ~(p < q)
  <2> SUFFICES ASSUME p + 1 <= q PROVE FALSE
    BY <1>3
  <2>1. (p + 1) * b <= q * b
    BY <1>3, MulMono
  <2> QED
    BY <1>3, <2>1
<1>5. ~(q < p)
  <2> SUFFICES ASSUME q + 1 <= p PROVE FALSE
    BY <1>3
  <2>1. (q + 1) * b <= p * b
    BY <1>3, MulMono
  <2> QED
    BY <1>3, <2>1
<1>6. p = q
  BY <1>3, <1>4, <1>5
<1> QED
  BY <1>2, <1>3, <1>6
LEMMA DivOne == ASSUME NEW a \in Int PROVE a \div 1 = a /\ a % 1 = 0
OBVIOUS
LEMMA Digits ==
  ASSUME NEW B \in Nat \ {0}, NEW P \in Nat \ {0}, NEW a \in Int
  PROVE  /\ P * B \in Nat \ {0}
         /\ a \div (P * B) = (a \div P) \div B
         /\ a % (P * B) = P * ((a \div P) % B) + (a % P)
<1>1. PICK q, r : q = a \div P /\ r = a % P
  OBVIOUS
<1>2. a = P * q + r /\ q \in Int /\ r \in 0 .. P - 1
  BY <1>1, DivMod
<1>3. PICK u, d : u = q \div B /\ d = q % B
  OBVIOUS
<1>4. q = B * u + d /\ u \in Int /\ d \in 0 .. B - 1
  BY <1>2, <1>3, DivMod
<1>5. PICK M, X, Y : M = P * B /\ X = M * u /\ Y = P * d
  OBVIOUS
<1>6. M \in Nat \ {0}
  <2>1. 1 * B <= P * B
    BY MulMono
  <2>2. 1 * B = B /\ P * B \in Int
    OBVIOUS
  <2> QED
    BY <1>5, <2>1, <2>2
<1>7. X \in Int /\ Y \in Int
  <2>1. M \in Int /\ u \in Int /\ P \in Int /\ d \in Int
    BY <1>4, <1>6
  <2> QED
    BY <1>5, <2>1
<1>8. P * q = X + Y
  <2>1. P \in Int /\ B \in Int /\ d \in Int
    BY <1>4
  <2> QED
    BY <1>4, <1>5, <2>1, Distribute
<1>9. a = X + (Y + r)
  BY <1>2, <1>7, <1>8
<1>10. Y + r \in 0 .. M - 1
  <2>1. (d + 1) * P <= B * P /\ 0 * P <= d * P
    BY <1>4, MulMono
  <2>2. (d + 1) * P = Y + P /\ B * P = M /\ 0 * P = 0 /\ d * P = Y
    BY <1>4, <1>5
  <2> QED
    BY <1>2, <1>7, <2>1, <2>2
<1>11. a \div M = u /\ a % M = Y + r
  <2>1. PICK z : z = Y + r
    OBVIOUS
  <2>2. a = M * u + z /\ z \in 0 .. M - 1
    BY <1>5, <1>9, <1>10, <2>1
  <2> QED
    BY ONLY <1>4, <1>6, <2>1, <2>2, a \in Int, DivUnique
<1> QED
  BY <1>1, <1>3, <1>5, <1>6, <1>11

BufByte == 0 .. Byte - 1

\* The powers that are used: one more is a Byte times as much.
LEMMA PowersAre ==
  /\ Byte \in Nat /\ Byte > 1
  /\ ByteTo[0] = 1
  /\ \A k \in 0 .. 3 : ByteTo[k + 1] = ByteTo[k] * Byte
  /\ \A k \in 0 .. 4 : ByteTo[k] \in Nat \ {0}
<1>1. Byte \in Nat /\ Byte > 1
  BY BufferAssumption
<1> DEFINE Def(f) == f = [k \in 0 .. 4 |-> IF k = 0 THEN 1 ELSE f[k - 1] * Byte]
<1>2. PICK p1, p2, p3, p4 : p1 = Byte /\ p2 = p1 * Byte /\ p3 = p2 * Byte /\ p4 = p3 * Byte
  OBVIOUS
<1>3. PICK f : f = [k \in 0 .. 4 |-> IF k = 0 THEN 1 ELSE IF k = 1 THEN p1 ELSE IF k = 2 THEN p2
                                     ELSE IF k = 3 THEN p3 ELSE p4]
  OBVIOUS
<1>4. Def(f)
  <2>1. \A k \in 0 .. 4 : f[k] = IF k = 0 THEN 1 ELSE f[k - 1] * Byte
    <3>1. f[0] = 1 /\ f[1] = p1 /\ f[2] = p2 /\ f[3] = p3 /\ f[4] = p4
      BY <1>3
    <3>2. /\ f[0] = 1 /\ f[1] = f[0] * Byte /\ f[2] = f[1] * Byte /\ f[3] = f[2] * Byte
          /\ f[4] = f[3] * Byte
      BY <1>1, <1>2, <3>1
    <3>3. \A k \in 0 .. 4 : k = 0 \/ k = 1 \/ k = 2 \/ k = 3 \/ k = 4
      OBVIOUS
    <3>4. /\ 1 - 1 = 0 /\ 2 - 1 = 1 /\ 3 - 1 = 2 /\ 4 - 1 = 3
      OBVIOUS
    <3>5. ASSUME NEW k \in 0 .. 4 PROVE f[k] = IF k = 0 THEN 1 ELSE f[k - 1] * Byte
      <4>1. CASE k = 0
        BY <3>2, <4>1
      <4>2. CASE k = 1
        BY <3>2, <3>4, <4>2
      <4>3. CASE k = 2
        BY <3>2, <3>4, <4>3
      <4>4. CASE k = 3
        BY <3>2, <3>4, <4>4
      <4>5. CASE k = 4
        BY <3>2, <3>4, <4>5
      <4> QED
        BY <3>3, <4>1, <4>2, <4>3, <4>4, <4>5
    <3> QED
      BY <3>5
  <2> QED
    BY <1>3, <2>1
<1>5. ByteTo = CHOOSE g : Def(g)
  BY DEF ByteTo
<1>6. Def(ByteTo)
  BY <1>4, <1>5, Zenon
<1>7. ByteTo[0] = 1 /\ \A k \in 0 .. 3 : ByteTo[k + 1] = ByteTo[k] * Byte
  <2>1. \A k \in 0 .. 4 : ByteTo[k] = IF k = 0 THEN 1 ELSE ByteTo[k - 1] * Byte
    <3>1. PICK g : g = ByteTo
      OBVIOUS
    <3>2. g = [k \in 0 .. 4 |-> IF k = 0 THEN 1 ELSE g[k - 1] * Byte]
      BY <1>6, <3>1
    <3>3. \A k \in 0 .. 4 : g[k] = IF k = 0 THEN 1 ELSE g[k - 1] * Byte
      BY <3>2
    <3> QED
      BY <3>1, <3>3
  <2>2. ASSUME NEW k \in 0 .. 3 PROVE ByteTo[k + 1] = ByteTo[k] * Byte
    <3>1. k + 1 \in 0 .. 4 /\ k + 1 # 0 /\ (k + 1) - 1 = k
      OBVIOUS
    <3> QED
      BY <2>1, <3>1
  <2> QED
    BY <2>1, <2>2
<1>8. \A p \in Nat \ {0} : p * Byte \in Nat \ {0}
  BY <1>1, Digits
<1>9. /\ ByteTo[0] \in Nat \ {0} /\ ByteTo[1] \in Nat \ {0} /\ ByteTo[2] \in Nat \ {0}
      /\ ByteTo[3] \in Nat \ {0} /\ ByteTo[4] \in Nat \ {0}
  <2>1. /\ ByteTo[0 + 1] = ByteTo[0] * Byte /\ ByteTo[1 + 1] = ByteTo[1] * Byte
        /\ ByteTo[2 + 1] = ByteTo[2] * Byte /\ ByteTo[3 + 1] = ByteTo[3] * Byte
    BY <1>7
  <2>2. ByteTo[1] = ByteTo[0] * Byte /\ ByteTo[2] = ByteTo[1] * Byte /\ ByteTo[3] = ByteTo[2] * Byte /\ ByteTo[4] = ByteTo[3] * Byte
    BY <2>1
  <2>3. ByteTo[0] \in Nat \ {0} 
    BY <1>7
  <2>4. ByteTo[1] \in Nat \ {0}
    BY <1>8, <2>2, <2>3, Zenon
  <2>5. ByteTo[2] \in Nat \ {0}
    BY <1>8, <2>2, <2>4, Zenon
  <2>6. ByteTo[3] \in Nat \ {0}
    BY <1>8, <2>2, <2>5, Zenon
  <2>7. ByteTo[4] \in Nat \ {0}
    BY <1>8, <2>2, <2>6, Zenon
  <2> QED
    BY <2>3, <2>4, <2>5, <2>6, <2>7
<1>10. \A k \in 0 .. 4 : ByteTo[k] \in Nat \ {0}
  <2>1. \A k \in 0 .. 4 : k = 0 \/ k = 1 \/ k = 2 \/ k = 3 \/ k = 4
    OBVIOUS
  <2> QED
    BY <1>9, <2>1, Zenon
<1> QED
  BY <1>1, <1>7, <1>10

-----------------------------------------------------------------------------
(***************************************************************************)
(* The number that one, two or four bytes stand for.                       *)
(***************************************************************************)
\* A byte put below a number that k bytes can hold is a number that one more can hold.
LEMMA NextPower ==
  ASSUME NEW k \in 0 .. 3, NEW v \in 0 .. ByteTo[k] - 1, NEW d \in BufByte
  PROVE  v * Byte + d \in 0 .. ByteTo[k + 1] - 1
<1>1. PICK P, B, Q : P = ByteTo[k] /\ B = Byte /\ Q = ByteTo[k + 1]
  OBVIOUS
<1>2. P \in Nat \ {0} /\ B \in Nat /\ B > 1 /\ Q = P * B
  BY <1>1, PowersAre
<1>3. v \in 0 .. P - 1 /\ d \in 0 .. B - 1
  BY <1>1 DEF BufByte
<1>4. PICK x, y : x = v * B /\ y = (v + 1) * B
  OBVIOUS
<1>5. y <= P * B /\ y = x + B /\ x >= 0 /\ x \in Int /\ P * B \in Int
  <2>1. y <= P * B
    BY <1>2, <1>3, <1>4, MulMono
  <2>2. y = x + B
    BY <1>2, <1>3, <1>4
  <2>3. 0 * B <= v * B /\ 0 * B = 0
    BY <1>2, <1>3, MulMono
  <2> QED
    BY <1>2, <1>3, <1>4, <2>1, <2>2, <2>3
<1>6. x + d \in 0 .. (P * B) - 1
  BY <1>2, <1>3, <1>5
<1> QED
  BY <1>1, <1>2, <1>4, <1>6

\* A number that fits four bytes is not cut.
LEMMA NotCut ==
  ASSUME NEW k \in 0 .. 4, NEW v \in 0 .. ByteTo[k] - 1
  PROVE  v % U32 = v
<1>1. ByteTo[k] <= ByteTo[4]
  <2>1. \A i \in 0 .. 3 : ByteTo[i] <= ByteTo[i + 1]
    <3>1. ASSUME NEW i \in 0 .. 3 PROVE ByteTo[i] <= ByteTo[i + 1]
      <4>1. PICK P, B : P = ByteTo[i] /\ B = Byte
        OBVIOUS
      <4>2. P \in Nat \ {0} /\ B \in Nat /\ 1 <= B /\ ByteTo[i + 1] = P * B
        BY <4>1, PowersAre
      <4>3. 1 * P <= B * P
        BY <4>2, MulMono
      <4>4. 1 * P = P /\ B * P = P * B
        BY <4>2
      <4> QED
        BY <4>1, <4>2, <4>3, <4>4
    <3> QED
      BY <3>1
  <2>2. ByteTo[0] <= ByteTo[1] /\ ByteTo[1] <= ByteTo[2] /\ ByteTo[2] <= ByteTo[3] /\ ByteTo[3] <= ByteTo[4]
    <3>1. ByteTo[0] <= ByteTo[0 + 1] /\ ByteTo[1] <= ByteTo[1 + 1] /\ ByteTo[2] <= ByteTo[2 + 1] /\ ByteTo[3] <= ByteTo[3 + 1]
      BY <2>1
    <3> QED
      BY <3>1
  <2>3. k = 0 \/ k = 1 \/ k = 2 \/ k = 3 \/ k = 4
    OBVIOUS
  <2>4. \A i \in 0 .. 4 : ByteTo[i] \in Nat
    BY PowersAre
  <2>5. ByteTo[0] \in Nat /\ ByteTo[1] \in Nat /\ ByteTo[2] \in Nat /\ ByteTo[3] \in Nat /\ ByteTo[4] \in Nat
    BY <2>4
  <2> QED
    BY <2>2, <2>3, <2>5
<1>2. PICK U : U = ByteTo[4]
  OBVIOUS
<1>3. U \in Nat \ {0} /\ v \in 0 .. U - 1 /\ v \in Int
  BY <1>1, <1>2, PowersAre
<1>4. v = U * 0 + v
  BY <1>3
<1>5. v % U = v
  BY <1>3, <1>4, DivUnique
<1> QED
  BY <1>2, <1>5 DEF U32

\* Bytes from the high end on, for numbers of four, two and one of them.
Placed(n, d) ==
  IF n = 4 THEN d[1] * ByteTo[3] + (d[2] * ByteTo[2] + (d[3] * ByteTo[1] + d[4] * ByteTo[0]))
  ELSE IF n = 2 THEN d[1] * ByteTo[1] + d[2] * ByteTo[0]
  ELSE d[1] * ByteTo[0]

\* The bytes of s in that order.
HighFirst(s, big) == [i \in 1 .. Len(s) |-> IF big THEN s[i] ELSE s[Len(s) + 1 - i]]

LEMMA NumberIs ==
  ASSUME NEW s \in Seq(BufByte), Len(s) \in {1, 2, 4}, NEW big \in BOOLEAN
  PROVE  Number(s, big) = Placed(Len(s), HighFirst(s, big))
<1> DEFINE n == Len(s)
           Weight(i) == ByteTo[IF big THEN Len(s) - i ELSE i - 1]
           Def(f) == f = [i \in 0 .. Len(s) |-> IF i = 0 THEN 0 ELSE f[i - 1] + s[i] * Weight(i)]
<1>1. \A i \in 1 .. n : s[i] \in Nat /\ Weight(i) \in Nat /\ s[i] * Weight(i) \in Nat
  <2>1. ASSUME NEW i \in 1 .. n PROVE s[i] \in Nat /\ Weight(i) \in Nat /\ s[i] * Weight(i) \in Nat
    <3>1. s[i] \in BufByte
      BY <2>1, ElementOfSeq
    <3>2. s[i] \in Nat
      BY <3>1 DEF BufByte
    <3>3. Len(s) - i \in 0 .. 4 /\ i - 1 \in 0 .. 4
      <4>1. PICK m : m = Len(s)
        OBVIOUS
      <4>2. m \in {1, 2, 4} /\ i \in 1 .. m
        BY <2>1, <4>1
      <4>3. m - i \in 0 .. 4 /\ i - 1 \in 0 .. 4
        BY ONLY <4>2
      <4> QED
        BY <4>1, <4>3
    <3>4. Weight(i) \in Nat
      BY <3>3, PowersAre
    <3> QED
      BY <3>2, <3>4
  <2> QED
    BY <2>1
<1>2. PICK t1, t2, t3, t4 : t1 = s[1] * Weight(1) /\ t2 = s[2] * Weight(2)
                            /\ t3 = s[3] * Weight(3) /\ t4 = s[4] * Weight(4)
  OBVIOUS
<1>3. PICK f : f = [i \in 0 .. n |-> IF i = 0 THEN 0 ELSE IF i = 1 THEN t1 ELSE IF i = 2 THEN t1 + t2
                                     ELSE IF i = 3 THEN t1 + t2 + t3 ELSE t1 + t2 + t3 + t4]
  OBVIOUS
<1>4. Def(f)
  <2>1. f[0] = 0 /\ f[1] = t1 /\ (n > 1 => f[2] = t1 + t2)
        /\ (n > 2 => f[3] = t1 + t2 + t3 /\ f[4] = t1 + t2 + t3 + t4)
    BY <1>3
  <2>2. t1 \in Nat
    BY <1>1, <1>2
  <2>3. f[1] = f[0] + t1
    BY <2>1, <2>2
  <2>4. n > 1 => f[2] = f[1] + t2
    BY <2>1
  <2>5. n > 2 => f[3] = f[2] + t3 /\ f[4] = f[3] + t4
    BY <2>1
  <2>6. ASSUME NEW i \in 0 .. n PROVE f[i] = IF i = 0 THEN 0 ELSE f[i - 1] + s[i] * Weight(i)
    <3>1. i = 0 \/ i = 1 \/ (i = 2 /\ n > 1) \/ (i = 3 /\ n > 2) \/ (i = 4 /\ n > 2)
      <4>1. PICK m : m = Len(s)
        OBVIOUS
      <4>2. m \in {1, 2, 4} /\ i \in 0 .. m
        BY <2>6, <4>1
      <4>3. i = 0 \/ i = 1 \/ (i = 2 /\ m > 1) \/ (i = 3 /\ m > 2) \/ (i = 4 /\ m > 2)
        BY ONLY <4>2
      <4> QED
        BY <4>1, <4>3
    <3>2. CASE i = 0
      BY <2>1, <3>2
    <3>3. CASE i = 1
      <4>1. 1 - 1 = 0 /\ s[1] * Weight(1) = t1
        BY <1>2
      <4> HIDE DEF Weight
      <4> QED
        BY <2>3, <3>3, <4>1
    <3>4. CASE i = 2 /\ n > 1
      <4>1. 2 - 1 = 1 /\ s[2] * Weight(2) = t2
        BY <1>2
      <4> HIDE DEF Weight
      <4> QED
        BY <2>4, <3>4, <4>1
    <3>5. CASE i = 3 /\ n > 2
      <4>1. 3 - 1 = 2 /\ s[3] * Weight(3) = t3
        BY <1>2
      <4> HIDE DEF Weight
      <4> QED
        BY <2>5, <3>5, <4>1
    <3>6. CASE i = 4 /\ n > 2
      <4>1. 4 - 1 = 3 /\ s[4] * Weight(4) = t4
        BY <1>2
      <4> HIDE DEF Weight
      <4> QED
        BY <2>5, <3>6, <4>1
    <3> QED
      BY <3>1, <3>2, <3>3, <3>4, <3>5, <3>6
  <2> QED
    BY <1>3, <2>6
<1>5. PICK g : g = CHOOSE x : Def(x)
  OBVIOUS
<1>6. Def(g)
  BY <1>4, <1>5, Zenon
<1>7. Number(s, big) = g[Len(s)]
  BY <1>5 DEF Number
<1>8. \A i \in 0 .. n : g[i] = IF i = 0 THEN 0 ELSE g[i - 1] + s[i] * Weight(i)
  <2> HIDE DEF Def, Weight
  <2>1. g = [i \in 0 .. Len(s) |-> IF i = 0 THEN 0 ELSE g[i - 1] + s[i] * Weight(i)]
    BY <1>6, Zenon DEF Def
  <2> QED
    BY <2>1
<1>9. g[0] = 0 /\ g[1] = g[0] + t1
  <2> HIDE DEF Weight
  <2>1. g[0] = 0 /\ g[1] = g[1 - 1] + s[1] * Weight(1)
    BY <1>8
  <2> QED
    BY <1>2, <2>1
<1>10. n > 1 => g[2] = g[1] + t2
  <2> HIDE DEF Weight
  <2>1. n > 1 => g[2] = g[2 - 1] + s[2] * Weight(2)
    BY <1>8
  <2> QED
    BY <1>2, <2>1
<1>11. n > 2 => g[3] = g[2] + t3 /\ g[4] = g[3] + t4
  <2> HIDE DEF Weight
  <2>1. n > 2 => g[3] = g[3 - 1] + s[3] * Weight(3) /\ g[4] = g[4 - 1] + s[4] * Weight(4)
    BY <1>8
  <2> QED
    BY <1>2, <2>1
<1>12. t1 \in Nat /\ (n > 1 => t2 \in Nat) /\ (n > 2 => t3 \in Nat /\ t4 \in Nat)
  <2>1. 1 \in 1 .. n /\ (n > 1 => 2 \in 1 .. n) /\ (n > 2 => 3 \in 1 .. n /\ 4 \in 1 .. n)
    <3>1. PICK m : m = Len(s)
      OBVIOUS
    <3>2. m \in {1, 2, 4}
      BY <3>1
    <3>3. 1 \in 1 .. m /\ (m > 1 => 2 \in 1 .. m) /\ (m > 2 => 3 \in 1 .. m /\ 4 \in 1 .. m)
      BY ONLY <3>2
    <3> QED
      BY <3>1, <3>3
  <2> HIDE DEF n, Weight
  <2> QED
    BY <1>1, <1>2, <2>1
<1>13. CASE n = 4
  <2>1. g[4] = t1 + (t2 + (t3 + t4)) /\ g[4] = t4 + (t3 + (t2 + t1))
    BY <1>9, <1>10, <1>11, <1>12, <1>13
  <2>2. CASE big
    <3>1. /\ t1 = s[1] * ByteTo[3] /\ t2 = s[2] * ByteTo[2] /\ t3 = s[3] * ByteTo[1] /\ t4 = s[4] * ByteTo[0]
      BY <1>2, <1>13, <2>2
    <3> QED
      BY <1>7, <1>13, <2>1, <2>2, <3>1 DEF Placed, HighFirst
  <2>3. CASE ~big
    <3>1. /\ t1 = s[1] * ByteTo[0] /\ t2 = s[2] * ByteTo[1] /\ t3 = s[3] * ByteTo[2] /\ t4 = s[4] * ByteTo[3]
      BY <1>2, <1>13, <2>3
    <3>2. PICK d : d = HighFirst(s, big)
      OBVIOUS
    <3>3. d[1] = s[4] /\ d[2] = s[3] /\ d[3] = s[2] /\ d[4] = s[1]
      BY <1>13, <2>3, <3>2 DEF HighFirst
    <3> QED
      BY <1>7, <1>13, <2>1, <3>1, <3>2, <3>3 DEF Placed
  <2> QED
    BY <2>2, <2>3
<1>14. CASE n = 2
  <2>1. g[2] = t1 + t2 /\ g[2] = t2 + t1
    BY <1>9, <1>10, <1>12, <1>14
  <2>2. CASE big
    <3>1. /\ t1 = s[1] * ByteTo[1] /\ t2 = s[2] * ByteTo[0]
      BY <1>2, <1>14, <2>2
    <3> QED
      BY <1>7, <1>14, <2>1, <2>2, <3>1 DEF Placed, HighFirst
  <2>3. CASE ~big
    <3>1. /\ t1 = s[1] * ByteTo[0] /\ t2 = s[2] * ByteTo[1]
      BY <1>2, <1>14, <2>3
    <3>2. PICK d : d = HighFirst(s, big)
      OBVIOUS
    <3>3. d[1] = s[2] /\ d[2] = s[1]
      BY <1>14, <2>3, <3>2 DEF HighFirst
    <3> QED
      BY <1>7, <1>14, <2>1, <3>1, <3>2, <3>3 DEF Placed
  <2> QED
    BY <2>2, <2>3
<1>15. CASE n = 1
  <2>1. g[1] = t1
    BY <1>9, <1>12
  <2>2. t1 = s[1] * ByteTo[0]
    BY <1>2, <1>15
  <2>3. PICK d : d = HighFirst(s, big)
    OBVIOUS
  <2>4. d[1] = s[1]
    BY <1>15, <2>3 DEF HighFirst
  <2> QED
    BY <1>7, <1>15, <2>1, <2>2, <2>3, <2>4 DEF Placed
<1> QED
  BY <1>13, <1>14, <1>15

\* Multiplying by B and adding, byte by byte, weighs each byte by its place.
LEMMA Factored ==
  ASSUME NEW x \in Int, NEW y \in Int, NEW c \in Int, NEW e \in Int
  PROVE  (x * c + y) * e = x * (c * e) + y * e
<1>1. (x * c + y) * e = (x * c) * e + y * e
  OBVIOUS
<1>2. (x * c) * e = x * (c * e)
  OBVIOUS
<1> QED
  BY <1>1, <1>2

LEMMA Horner ==
  ASSUME NEW B \in Int, NEW a \in Int, NEW b \in Int, NEW c \in Int, NEW d \in Int
  PROVE  /\ a * B + b = a * (1 * B) + b * 1
         /\ ((a * B + b) * B + c) * B + d =
              a * (((1 * B) * B) * B) + (b * ((1 * B) * B) + (c * (1 * B) + d * 1))
<1>1. 1 * B = B /\ d * 1 = d /\ b * 1 = b
  OBVIOUS
<1>2. PICK p, q : p = B * B /\ q = (B * B) * B
  OBVIOUS
<1>3. p \in Int /\ q \in Int /\ p * B = q
  BY <1>2
<1>4. (a * B + b) * B = a * p + b * B
  BY <1>2, Factored
<1>5. (a * p + (b * B + c)) * B = a * q + (b * B + c) * B
  <2>1. b * B + c \in Int
    OBVIOUS
  <2> QED
    BY <1>3, <2>1, Factored
<1>6. (b * B + c) * B = b * p + c * B
  BY <1>2, Factored
<1>7. (a * B + b) * B + c = a * p + (b * B + c)
  <2>1. a * p \in Int /\ b * B \in Int
    BY <1>3
  <2>2. PICK u, v : u = a * p /\ v = b * B
    OBVIOUS
  <2>3. u \in Int /\ v \in Int /\ (u + v) + c = u + (v + c)
    BY <2>1, <2>2
  <2> QED
    BY <1>4, <2>2, <2>3
<1>8. PICK u, v, w : u = a * q /\ v = b * p /\ w = c * B
  OBVIOUS
<1>9. u \in Int /\ v \in Int /\ w \in Int
  BY <1>3, <1>8
<1>10. ((a * B + b) * B + c) * B = u + (v + w)
  BY <1>5, <1>6, <1>7, <1>8
<1>11. (u + (v + w)) + d = u + (v + (w + d))
  BY <1>9
<1> QED
  BY <1>1, <1>2, <1>8, <1>10, <1>11

LEMMA ReadIs ==
  ASSUME NEW b \in DOMAIN buffers, Bytes(b) \in Seq(BufByte), NEW offset \in Nat, NEW n \in {1, 2, 4},
         NEW big \in BOOLEAN, offset + n <= Len(Bytes(b))
  PROVE  ReadBytes(b, offset, n, big) = Number(SubSeq(Bytes(b), offset + 1, offset + n), big)
<1> DEFINE start == IF big THEN offset ELSE offset + n - 1
           dir == IF big THEN 1 ELSE -1
           Next_(f, i) == (f[i - 1] * Byte + Bytes(b)[start + dir * (i - 1) + 1]) % U32
           Def(f) == f = [i \in 0 .. n |-> IF i = 0 THEN 0 ELSE
                            (f[i - 1] * Byte + Bytes(b)[start + dir * (i - 1) + 1]) % U32]
<1>1. PICK s, w, d : s = Bytes(b) /\ w = SubSeq(s, offset + 1, offset + n) /\ d = HighFirst(w, big)
  OBVIOUS
<1>2. /\ s \in Seq(BufByte) /\ Len(s) \in Nat /\ offset + n <= Len(s)
      /\ \A i \in 1 .. Len(s) : s[i] \in BufByte
  BY <1>1, LenProperties, ElementOfSeq
<1>3. /\ w \in Seq(BufByte) /\ Len(w) = n
      /\ \A i \in 1 .. n : w[i] = s[offset + i]
  <2>1. \A i \in (offset + 1) .. (offset + n) : i \in 1 .. Len(s)
    BY <1>2
  <2>2. \A i \in (offset + 1) .. (offset + n) : s[i] \in BufByte
    BY <1>2, <2>1
  <2>3. w \in Seq(BufByte) /\ Len(w) = n
    BY <1>1, <1>2, <2>2, SubSeqProperties
  <2>4. w = [i \in 1 .. (offset + n) - (offset + 1) + 1 |-> s[i + (offset + 1) - 1]]
    BY <1>1 DEF SubSeq
  <2>5. \A i \in 1 .. n : w[i] = s[i + (offset + 1) - 1]
    BY <2>4
  <2>6. ASSUME NEW i \in 1 .. n PROVE w[i] = s[offset + i]
    <3>1. i + (offset + 1) - 1 = offset + i
      OBVIOUS
    <3> QED
      BY <2>5, <3>1
  <2> QED
    BY <2>3, <2>6
<1>4. \A i \in 1 .. n : d[i] \in BufByte /\ s[start + dir * (i - 1) + 1] = d[i]
  <2>1. ASSUME NEW i \in 1 .. n PROVE d[i] \in BufByte /\ s[start + dir * (i - 1) + 1] = d[i]
    <3>1. i \in Int /\ n \in Int /\ n + 1 - i \in 1 .. n
      OBVIOUS
    <3>2. CASE big
      <4>1. d[i] = w[i]
        BY <1>1, <1>3, <3>2 DEF HighFirst
      <4>2. start + dir * (i - 1) + 1 = offset + i
        <5>1. start = offset /\ dir = 1
          BY <3>2
        <5>2. offset + 1 * (i - 1) + 1 = offset + i
          BY ONLY <3>1, offset \in Nat
        <5> HIDE DEF start, dir
        <5> QED
          BY ONLY <5>1, <5>2
      <4>3. w[i] \in BufByte /\ w[i] = s[offset + i]
        BY <1>3, ElementOfSeq
      <4> HIDE DEF start, dir
      <4> QED
        BY ONLY <4>1, <4>2, <4>3
    <3>3. CASE ~big
      <4>1. d[i] = w[n + 1 - i]
        BY <1>1, <1>3, <3>3 DEF HighFirst
      <4>2. start + dir * (i - 1) + 1 = offset + (n + 1 - i)
        BY <3>1, <3>3
      <4>3. w[n + 1 - i] = s[offset + (n + 1 - i)] /\ w[n + 1 - i] \in BufByte
        BY <1>3, <3>1, ElementOfSeq
      <4> QED
        BY <4>1, <4>2, <4>3
    <3> QED
      BY <3>2, <3>3
  <2> QED
    BY <2>1
<1>5. PICK v1, v2, v3, v4 : v1 = d[1] /\ v2 = v1 * Byte + d[2] /\ v3 = v2 * Byte + d[3] /\ v4 = v3 * Byte + d[4]
  OBVIOUS
<1>6. /\ ByteTo[1] = 1 * Byte /\ ByteTo[2] = (1 * Byte) * Byte /\ ByteTo[3] = ((1 * Byte) * Byte) * Byte
      /\ Byte \in Nat /\ Byte > 1 /\ ByteTo[0] = 1
  <2>1. ByteTo[0 + 1] = ByteTo[0] * Byte /\ ByteTo[1 + 1] = ByteTo[1] * Byte /\ ByteTo[2 + 1] = ByteTo[2] * Byte
    BY PowersAre
  <2> QED
    BY <2>1, PowersAre
<1>7. v1 \in 0 .. ByteTo[1] - 1 /\ v1 = 0 * Byte + d[1]
  <2>1. v1 \in 0 .. Byte - 1
    BY <1>4, <1>5 DEF BufByte
  <2>2. 1 * Byte = Byte
    BY <1>6
  <2> QED
    BY <1>5, <1>6, <2>1, <2>2
<1>8. n > 1 => v2 \in 0 .. ByteTo[2] - 1
  <2>1. ASSUME n > 1 PROVE v2 \in 0 .. ByteTo[1 + 1] - 1
    <3>1. d[2] \in BufByte
      BY <1>4, <2>1
    <3> QED
      BY <1>5, <1>7, <3>1, NextPower
  <2> QED
    BY <2>1
<1>9. n > 2 => v3 \in 0 .. ByteTo[3] - 1
  <2>1. ASSUME n > 2 PROVE v3 \in 0 .. ByteTo[2 + 1] - 1
    <3>1. d[3] \in BufByte
      BY <1>4, <2>1
    <3>2. v2 \in 0 .. ByteTo[2] - 1
      BY <1>8, <2>1
    <3>3. v2 * Byte + d[3] \in 0 .. ByteTo[2 + 1] - 1
      BY ONLY <3>1, <3>2, NextPower
    <3> QED
      BY <1>5, <3>3
  <2> QED
    BY <2>1
<1>10. n > 2 => v4 \in 0 .. ByteTo[4] - 1
  <2>1. ASSUME n > 2 PROVE v4 \in 0 .. ByteTo[3 + 1] - 1
    <3>1. d[4] \in BufByte
      BY <1>4, <2>1
    <3>2. v3 \in 0 .. ByteTo[3] - 1
      BY <1>9, <2>1
    <3>3. v3 * Byte + d[4] \in 0 .. ByteTo[3 + 1] - 1
      BY ONLY <3>1, <3>2, NextPower
    <3> QED
      BY <1>5, <3>3
  <2> QED
    BY <2>1
<1>11. /\ v1 = (0 * Byte + d[1]) % U32
       /\ n > 1 => v2 = (v1 * Byte + d[2]) % U32
       /\ n > 2 => v3 = (v2 * Byte + d[3]) % U32 /\ v4 = (v3 * Byte + d[4]) % U32
  <2>1. v1 % U32 = v1
    BY <1>7, NotCut
  <2>2. n > 1 => v2 % U32 = v2
    BY <1>8, NotCut
  <2>3. n > 2 => v3 % U32 = v3 /\ v4 % U32 = v4
    BY <1>9, <1>10, NotCut
  <2>4. v1 = 0 * Byte + d[1] /\ v2 = v1 * Byte + d[2] /\ v3 = v2 * Byte + d[3] /\ v4 = v3 * Byte + d[4]
    BY <1>5, <1>7
  <2> QED
    BY <2>1, <2>2, <2>3, <2>4, Zenon

<1>12. PICK f : f = [i \in 0 .. n |-> IF i = 0 THEN 0 ELSE IF i = 1 THEN v1 ELSE IF i = 2 THEN v2
                                      ELSE IF i = 3 THEN v3 ELSE v4]
  OBVIOUS
<1>13. \A i \in 1 .. n : Bytes(b)[start + dir * (i - 1) + 1] = d[i]
  BY <1>1, <1>4
<1>14. Def(f)
  <2>1. f[0] = 0 /\ f[1] = v1 /\ (n > 1 => f[2] = v2) /\ (n > 2 => f[3] = v3 /\ f[4] = v4)
    BY <1>12
  <2>2. \A i \in 1 .. n : f[i] = (f[i - 1] * Byte + d[i]) % U32
    <3>1. ASSUME NEW i \in 1 .. n PROVE f[i] = (f[i - 1] * Byte + d[i]) % U32
      <4>1. i = 1 \/ (i = 2 /\ n > 1) \/ (i = 3 /\ n > 2) \/ (i = 4 /\ n > 2)
        OBVIOUS
      <4>2. 1 - 1 = 0 /\ 2 - 1 = 1 /\ 3 - 1 = 2 /\ 4 - 1 = 3
        OBVIOUS
      <4>3. CASE i = 1
        BY <1>11, <2>1, <4>2, <4>3
      <4>4. CASE i = 2 /\ n > 1
        BY <1>11, <2>1, <4>2, <4>4
      <4>5. CASE i = 3 /\ n > 2
        BY <1>11, <2>1, <4>2, <4>5
      <4>6. CASE i = 4 /\ n > 2
        BY <1>11, <2>1, <4>2, <4>6
      <4> QED
        BY <4>1, <4>3, <4>4, <4>5, <4>6
    <3> QED
      BY <3>1
  <2>3. \A i \in 0 .. n : f[i] = IF i = 0 THEN 0 ELSE
                            (f[i - 1] * Byte + Bytes(b)[start + dir * (i - 1) + 1]) % U32
    <3>1. ASSUME NEW i \in 0 .. n PROVE f[i] = IF i = 0 THEN 0 ELSE
                            (f[i - 1] * Byte + Bytes(b)[start + dir * (i - 1) + 1]) % U32
      <4> HIDE DEF start, dir
      <4>1. CASE i = 0
        BY <2>1, <4>1
      <4>2. CASE i # 0
        <5>1. i \in 1 .. n
          BY <4>2
        <5>2. f[i] = (f[i - 1] * Byte + d[i]) % U32 /\ Bytes(b)[start + dir * (i - 1) + 1] = d[i]
          BY <1>13, <2>2, <5>1
        <5> QED
          BY <4>2, <5>2
      <4> QED
        BY <4>1, <4>2
    <3> QED
      BY <3>1
  <2>4. f = [i \in 0 .. n |-> f[i]]
    BY <1>12
  <2> HIDE DEF start, dir
  <2> QED
    BY <2>3, <2>4
<1>15. PICK g : g = CHOOSE x : Def(x)
  OBVIOUS
<1>16. Def(g)
  BY <1>14, <1>15, Zenon
<1>17. ReadBytes(b, offset, n, big) = g[n]
  BY <1>15 DEF ReadBytes
<1>18. g[0] = 0 /\ \A i \in 1 .. n : g[i] = (g[i - 1] * Byte + d[i]) % U32
  <2> HIDE DEF Def, start, dir
  <2>1. g = [i \in 0 .. n |-> IF i = 0 THEN 0 ELSE
                (g[i - 1] * Byte + Bytes(b)[start + dir * (i - 1) + 1]) % U32]
    BY <1>16, Zenon DEF Def
  <2>2. \A i \in 0 .. n : g[i] = IF i = 0 THEN 0 ELSE
                (g[i - 1] * Byte + Bytes(b)[start + dir * (i - 1) + 1]) % U32
    BY <2>1
  <2>3. \A i \in 1 .. n : i \in 0 .. n /\ i # 0
    OBVIOUS
  <2> QED
    BY <1>13, <2>2, <2>3
<1>19. g[1] = v1 /\ (n > 1 => g[2] = v2) /\ (n > 2 => g[3] = v3 /\ g[4] = v4)
  <2>1. g[1] = v1
    <3>1. g[1] = (g[1 - 1] * Byte + d[1]) % U32 /\ 1 - 1 = 0
      BY <1>18
    <3> QED
      BY <1>11, <1>18, <3>1
  <2>2. n > 1 => g[2] = v2
    <3>1. n > 1 => g[2] = (g[2 - 1] * Byte + d[2]) % U32
      BY <1>18
    <3>2. 2 - 1 = 1
      OBVIOUS
    <3> QED
      BY <1>11, <2>1, <3>1, <3>2
  <2>3. n > 2 => g[3] = v3
    <3>1. n > 2 => g[3] = (g[3 - 1] * Byte + d[3]) % U32
      BY <1>18
    <3>2. 3 - 1 = 2
      OBVIOUS
    <3> QED
      BY <1>11, <2>2, <3>1, <3>2
  <2>4. n > 2 => g[4] = v4
    <3>1. n > 2 => g[4] = (g[4 - 1] * Byte + d[4]) % U32
      BY <1>18
    <3>2. 4 - 1 = 3
      OBVIOUS
    <3> QED
      BY <1>11, <2>3, <3>1, <3>2
  <2> QED
    BY <2>1, <2>2, <2>3, <2>4
<1>20. g[n] = Placed(n, d)
  <2>1. /\ Byte \in Int /\ d[1] \in Int /\ (n > 1 => d[2] \in Int) /\ (n > 2 => d[3] \in Int /\ d[4] \in Int)
    <3>1. \A i \in 1 .. n : d[i] \in Int
      BY <1>4 DEF BufByte
    <3> QED
      BY <1>6, <3>1
  <2>2. CASE n = 4
    <3>1. g[4] = ((d[1] * Byte + d[2]) * Byte + d[3]) * Byte + d[4]
      BY <1>5, <1>19, <2>2
    <3>2. g[4] = d[1] * ByteTo[3] + (d[2] * ByteTo[2] + (d[3] * ByteTo[1] + d[4] * ByteTo[0]))
      <4>1. PICK a1, a2, a3, a4, B : a1 = d[1] /\ a2 = d[2] /\ a3 = d[3] /\ a4 = d[4] /\ B = Byte
        OBVIOUS
      <4>2. a1 \in Int /\ a2 \in Int /\ a3 \in Int /\ a4 \in Int /\ B \in Int
        BY <2>1, <2>2, <4>1
      <4>3. ((a1 * B + a2) * B + a3) * B + a4 =
              a1 * (((1 * B) * B) * B) + (a2 * ((1 * B) * B) + (a3 * (1 * B) + a4 * 1))
        BY ONLY <4>2, Horner
      <4>4. a1 * (((1 * B) * B) * B) + (a2 * ((1 * B) * B) + (a3 * (1 * B) + a4 * 1)) =
              d[1] * ByteTo[3] + (d[2] * ByteTo[2] + (d[3] * ByteTo[1] + d[4] * ByteTo[0]))
        BY ONLY <1>6, <4>1
      <4> QED
        BY ONLY <3>1, <4>1, <4>3, <4>4
    <3> QED
      BY <2>2, <3>2 DEF Placed
  <2>3. CASE n = 2
    <3>1. g[2] = d[1] * Byte + d[2]
      BY <1>5, <1>19, <2>3
    <3>2. g[2] = d[1] * ByteTo[1] + d[2] * ByteTo[0]
      BY <1>6, <2>1, <2>3, <3>1
    <3> QED
      BY <2>3, <3>2 DEF Placed
  <2>4. CASE n = 1
    <3>1. g[1] = d[1] * ByteTo[0]
      BY <1>5, <1>6, <1>19, <2>1
    <3> QED
      BY <2>4, <3>1 DEF Placed
  <2> QED
    BY <2>2, <2>3, <2>4
<1>21. Number(w, big) = Placed(n, d)
  BY <1>1, <1>3, NumberIs
<1> QED
  BY <1>1, <1>17, <1>20, <1>21

\* The remainder of a remainder.
LEMMA ModOfMod ==
  ASSUME NEW a \in Int, NEW P \in Nat \ {0}, NEW R \in Nat \ {0}
  PROVE  (a % (P * R)) % P = a % P
<1>1. a % (P * R) = P * ((a \div P) % R) + (a % P) /\ P * R \in Nat \ {0}
  BY Digits
<1>2. PICK x, q, r : x = a % (P * R) /\ q = (a \div P) % R /\ r = a % P
  OBVIOUS
<1>3. a \div P \in Int /\ r \in 0 .. P - 1
  BY <1>2, DivMod
<1>4. q \in Int /\ x \in Int
  BY <1>1, <1>2, <1>3, DivMod
<1>5. x = P * q + r
  BY <1>1, <1>2
<1>6. x % P = r
  BY ONLY <1>3, <1>4, <1>5, P \in Nat \ {0}, DivUnique
<1> QED
  BY <1>2, <1>6

\* Writing a number puts the bytes that stand for what n bytes can hold of it.
LEMMA WriteIs ==
  ASSUME NEW value \in Int, NEW n \in {1, 2, 4}, NEW big \in BOOLEAN
  PROVE  /\ WriteBytes(value, n, big) \in Seq(BufByte) /\ Len(WriteBytes(value, n, big)) = n
         /\ Number(WriteBytes(value, n, big), big) = value % ByteTo[n]
<1>1. PICK v, w, d : v = value % U32 /\ w = WriteBytes(value, n, big) /\ d = HighFirst(w, big)
  OBVIOUS
<1>2. PICK digit : digit = [k \in 0 .. 3 |-> (v \div ByteTo[k]) % Byte]
  OBVIOUS
<1>3. v \in Int
  <2>1. PICK U : U = U32
    OBVIOUS
  <2>2. U \in Nat \ {0}
    BY <2>1, PowersAre DEF U32
  <2> QED
    BY <1>1, <2>1, <2>2, DivMod
<1>4. \A k \in 0 .. 3 :
        /\ digit[k] \in BufByte
        /\ v % ByteTo[k + 1] = digit[k] * ByteTo[k] + (v % ByteTo[k])
        /\ v % ByteTo[k] \in Int
  <2>1. ASSUME NEW k \in 0 .. 3
        PROVE  /\ digit[k] \in BufByte
               /\ v % ByteTo[k + 1] = digit[k] * ByteTo[k] + (v % ByteTo[k])
               /\ v % ByteTo[k] \in Int
    <3>1. PICK P, B, Q : P = ByteTo[k] /\ B = Byte /\ Q = ByteTo[k + 1]
      OBVIOUS
    <3>2. P \in Nat \ {0} /\ B \in Nat \ {0} /\ Q = P * B
      BY <3>1, PowersAre
    <3>3. digit[k] = (v \div P) % B
      BY <1>2, <3>1
    <3>4. v \div P \in Int /\ v % P \in Int
      BY <1>3, <3>2, DivMod
    <3>5. digit[k] \in 0 .. B - 1
      BY <3>2, <3>3, <3>4, DivMod
    <3>6. v % Q = P * ((v \div P) % B) + (v % P)
      BY <1>3, <3>2, Digits
    <3>7. P * digit[k] = digit[k] * P
      BY <3>2, <3>5
    <3> QED
      BY <3>1, <3>3, <3>4, <3>5, <3>6, <3>7 DEF BufByte
  <2> QED
    BY <2>1
<1>5. w = [i \in 1 .. n |-> digit[IF big THEN n - i ELSE i - 1]]
  <2>1. w = [i \in 1 .. n |-> (v \div ByteTo[IF big THEN n - i ELSE i - 1]) % Byte]
    BY <1>1 DEF WriteBytes
  <2>2. \A i \in 1 .. n : (IF big THEN n - i ELSE i - 1) \in 0 .. 3
    OBVIOUS
  <2>3. \A i \in 1 .. n : digit[IF big THEN n - i ELSE i - 1] = (v \div ByteTo[IF big THEN n - i ELSE i - 1]) % Byte
    BY <1>2, <2>2
  <2> QED
    BY <2>1, <2>3
<1>6. /\ w \in Seq(BufByte) /\ Len(w) = n /\ DOMAIN w = 1 .. n
      /\ \A i \in 1 .. n : w[i] = digit[IF big THEN n - i ELSE i - 1]
  <2>1. \A i \in 1 .. n : w[i] = digit[IF big THEN n - i ELSE i - 1] /\ w[i] \in BufByte
    <3>1. \A i \in 1 .. n : (IF big THEN n - i ELSE i - 1) \in 0 .. 3
      OBVIOUS
    <3> QED
      BY <1>4, <1>5, <3>1
  <2>2. w \in [1 .. n -> BufByte] /\ n \in Nat
    BY <1>5, <2>1
  <2>3. w \in Seq(BufByte)
    BY <2>2, SeqDef
  <2> QED
    BY <1>5, <2>1, <2>2, <2>3, LenProperties
<1>7. \A i \in 1 .. n : d[i] = digit[n - i]
  <2>1. ASSUME NEW i \in 1 .. n PROVE d[i] = digit[n - i]
    <3>1. d[i] = IF big THEN w[i] ELSE w[n + 1 - i]
      BY <1>1, <1>6 DEF HighFirst
    <3>2. n + 1 - i \in 1 .. n /\ (n + 1 - i) - 1 = n - i
      OBVIOUS
    <3> QED
      BY <1>6, <3>1, <3>2
  <2> QED
    BY <2>1
<1>8. v % ByteTo[0] = 0
  BY <1>3, PowersAre, DivOne
<1>9. /\ v % ByteTo[1] = digit[0] * ByteTo[0] + 0
      /\ v % ByteTo[2] = digit[1] * ByteTo[1] + (v % ByteTo[1])
      /\ v % ByteTo[3] = digit[2] * ByteTo[2] + (v % ByteTo[2])
      /\ v % ByteTo[4] = digit[3] * ByteTo[3] + (v % ByteTo[3])
  <2>1. /\ v % ByteTo[0 + 1] = digit[0] * ByteTo[0] + (v % ByteTo[0])
        /\ v % ByteTo[1 + 1] = digit[1] * ByteTo[1] + (v % ByteTo[1])
        /\ v % ByteTo[2 + 1] = digit[2] * ByteTo[2] + (v % ByteTo[2])
        /\ v % ByteTo[3 + 1] = digit[3] * ByteTo[3] + (v % ByteTo[3])
    BY <1>4
  <2> QED
    BY <1>8, <2>1
<1>10. digit[0] * ByteTo[0] + 0 = digit[0] * ByteTo[0]
  BY <1>4, PowersAre DEF BufByte
<1>11. v % ByteTo[n] = Placed(n, d)
  <2>1. CASE n = 4
    <3>1. d[1] = digit[3] /\ d[2] = digit[2] /\ d[3] = digit[1] /\ d[4] = digit[0]
      <4>1. d[1] = digit[4 - 1] /\ d[2] = digit[4 - 2] /\ d[3] = digit[4 - 3] /\ d[4] = digit[4 - 4]
        BY <1>7, <2>1
      <4> QED
        BY <4>1
    <3> QED
      BY <1>9, <1>10, <2>1, <3>1 DEF Placed
  <2>2. CASE n = 2
    <3>1. d[1] = digit[1] /\ d[2] = digit[0]
      <4>1. d[1] = digit[2 - 1] /\ d[2] = digit[2 - 2]
        BY <1>7, <2>2
      <4> QED
        BY <4>1
    <3> QED
      BY <1>9, <1>10, <2>2, <3>1 DEF Placed
  <2>3. CASE n = 1
    <3>1. d[1] = digit[0]
      <4>1. d[1] = digit[1 - 1]
        BY <1>7, <2>3
      <4> QED
        BY <4>1
    <3> QED
      BY <1>9, <1>10, <2>3, <3>1 DEF Placed
  <2> QED
    BY <2>1, <2>2, <2>3
<1>12. Number(w, big) = Placed(n, d)
  BY <1>1, <1>6, NumberIs
<1>13. v % ByteTo[n] = value % ByteTo[n]
  <2>1. PICK B, p1, p2, p3, p4 : B = Byte /\ p1 = ByteTo[1] /\ p2 = ByteTo[2] /\ p3 = ByteTo[3] /\ p4 = ByteTo[4]
    OBVIOUS
  <2>2. p2 = p1 * B /\ p3 = p2 * B /\ p4 = p3 * B
    <3>1. ByteTo[1 + 1] = ByteTo[1] * Byte /\ ByteTo[2 + 1] = ByteTo[2] * Byte /\ ByteTo[3 + 1] = ByteTo[3] * Byte
      BY PowersAre
    <3> QED
      BY <2>1, <3>1
  <2>3. B \in Nat \ {0} /\ p1 \in Nat \ {0} /\ p2 \in Nat \ {0} /\ p3 \in Nat \ {0} /\ p4 \in Nat \ {0}
    BY <2>1, PowersAre
  <2>4. v = value % p4
    BY <1>1, <2>1 DEF U32
  <2>5. PICK s, t : s = B * B /\ t = (B * B) * B
    OBVIOUS
  <2>6. s \in Nat \ {0} /\ t \in Nat \ {0}
    <3>1. s \in Nat \ {0}
      BY <2>3, <2>5, Digits
    <3>2. t = s * B
      BY <2>5
    <3> QED
      BY <2>3, <3>1, <3>2, Digits
  <2>7. p4 = p2 * s
    <3>1. p4 = (p2 * B) * B
      BY <2>2
    <3> QED
      BY <2>3, <2>5, <3>1
  <2>8. p4 = p1 * t
    <3>1. p4 = ((p1 * B) * B) * B
      BY <2>2
    <3>2. (p1 * B) * B = p1 * s
      BY <2>3, <2>5
    <3>3. (p1 * s) * B = p1 * (s * B)
      BY <2>3, <2>6
    <3> QED
      BY <2>5, <3>1, <3>2, <3>3
  <2>9. CASE n = 4
    <3>1. p4 = p4 * 1 /\ 1 \in Nat \ {0}
      BY <2>3
    <3>2. (value % (p4 * 1)) % p4 = value % p4
      BY <2>3, ModOfMod
    <3> QED
      BY <2>1, <2>4, <2>9, <3>1, <3>2
  <2>10. CASE n = 2
    <3>1. (value % (p2 * s)) % p2 = value % p2
      BY <2>3, <2>6, ModOfMod
    <3> QED
      BY <2>1, <2>4, <2>7, <2>10, <3>1
  <2>11. CASE n = 1
    <3>1. (value % (p1 * t)) % p1 = value % p1
      BY <2>3, <2>6, ModOfMod
    <3> QED
      BY <2>1, <2>4, <2>8, <2>11, <3>1
  <2> QED
    BY <2>9, <2>10, <2>11
<1> QED
  BY <1>1, <1>6, <1>11, <1>12, <1>13

-----------------------------------------------------------------------------
(***************************************************************************)
(* What a call does to the buffers.                                        *)
(***************************************************************************)
BufInv == buffers \in Seq(Seq(BufByte)) /\ BuffersHold

LEMMA PartIs ==
  ASSUME NEW s \in Seq(BufByte), NEW from \in Nat, NEW n \in Nat, from + n <= Len(s)
  PROVE  /\ SubSeq(s, from + 1, from + n) \in Seq(BufByte)
         /\ Len(SubSeq(s, from + 1, from + n)) = n
         /\ \A i \in 1 .. n : SubSeq(s, from + 1, from + n)[i] = s[from + i]
         /\ SubSeq(s, from + 1, from + n) = [i \in 1 .. n |-> s[from + i]]
<1>1. Len(s) \in Nat /\ \A i \in 1 .. Len(s) : s[i] \in BufByte
  BY ElementOfSeq
<1>2. SubSeq(s, from + 1, from + n) = [i \in 1 .. (from + n) - (from + 1) + 1 |-> s[i + (from + 1) - 1]]
  BY DEF SubSeq
<1>3. (from + n) - (from + 1) + 1 = n /\ \A i \in 1 .. n : i + (from + 1) - 1 = from + i
  OBVIOUS
<1>4. SubSeq(s, from + 1, from + n) = [i \in 1 .. n |-> s[from + i]]
  BY <1>2, <1>3
<1>5. \A i \in 1 .. n : s[from + i] \in BufByte
  BY <1>1
<1>6. [i \in 1 .. n |-> s[from + i]] \in [1 .. n -> BufByte]
  BY <1>5
<1>7. [i \in 1 .. n |-> s[from + i]] \in Seq(BufByte) /\ Len([i \in 1 .. n |-> s[from + i]]) = n
  BY <1>6, SeqDef, LenProperties
<1> QED
  BY <1>4, <1>7

LEMMA PutAtIs ==
  ASSUME NEW b \in DOMAIN buffers, Bytes(b) \in Seq(BufByte), NEW offset \in Nat,
         NEW bytes \in Seq(BufByte), offset + Len(bytes) <= Len(Bytes(b))
  PROVE  /\ PutAt(b, offset, bytes) \in Seq(BufByte)
         /\ Len(PutAt(b, offset, bytes)) = Len(Bytes(b))
         /\ \A i \in 1 .. Len(Bytes(b)) :
              PutAt(b, offset, bytes)[i] # Bytes(b)[i] => i - offset \in 1 .. Len(bytes)
         /\ \A i \in 1 .. Len(bytes) : PutAt(b, offset, bytes)[offset + i] = bytes[i]
         /\ SubSeq(PutAt(b, offset, bytes), offset + 1, offset + Len(bytes)) = bytes
<1>1. PICK s, m, p : s = Bytes(b) /\ m = Len(bytes) /\ p = PutAt(b, offset, bytes)
  OBVIOUS
<1>2. /\ s \in Seq(BufByte) /\ Len(s) \in Nat /\ DOMAIN s = 1 .. Len(s) /\ offset + m <= Len(s)
      /\ m \in Nat /\ DOMAIN bytes = 1 .. m
  BY <1>1, LenProperties
<1>3. p = [i \in 1 .. Len(s) |-> IF i - offset \in 1 .. m THEN bytes[i - offset] ELSE s[i]]
  BY <1>1, <1>2 DEF PutAt
<1>4. \A i \in 1 .. Len(s) : p[i] \in BufByte
  <2>1. ASSUME NEW i \in 1 .. Len(s) PROVE p[i] \in BufByte
    <3>1. s[i] \in BufByte
      BY <1>2, ElementOfSeq
    <3>2. i - offset \in 1 .. m => bytes[i - offset] \in BufByte
      BY <1>1, ElementOfSeq
    <3> QED
      BY <1>3, <3>1, <3>2
  <2> QED
    BY <2>1
<1>5. p \in [1 .. Len(s) -> BufByte]
  BY <1>3, <1>4
<1>6. p \in Seq(BufByte) /\ Len(p) = Len(s)
  BY <1>2, <1>5, SeqDef, LenProperties
<1>7. \A i \in 1 .. m : p[offset + i] = bytes[i]
  <2>1. ASSUME NEW i \in 1 .. m PROVE p[offset + i] = bytes[i]
    <3>1. offset + i \in 1 .. Len(s) /\ (offset + i) - offset = i
      BY <1>2
    <3> QED
      BY <1>3, <3>1
  <2> QED
    BY <2>1
<1>8. SubSeq(p, offset + 1, offset + m) = bytes
  <2>1. SubSeq(p, offset + 1, offset + m) = [i \in 1 .. m |-> p[offset + i]]
    BY <1>2, <1>6, PartIs
  <2>2. bytes = [i \in 1 .. m |-> bytes[i]]
    BY <1>2
  <2> QED
    BY <1>7, <2>1, <2>2
<1>9. \A i \in 1 .. Len(s) : p[i] # s[i] => i - offset \in 1 .. m
  BY <1>3
<1> QED
  BY <1>1, <1>6, <1>7, <1>8, <1>9

\* A call that passed or was refused: what is left to show of it is that it did what it says.
LEMMA CallHolds ==
  ASSUME buffers \in Seq(Seq(BufByte)), NEW call, NEW bytes, BufCall(call, bytes),
         call.b \in DOMAIN buffers, call.n \in Int, call.from \in Nat,
         call.ok =>
           /\ bytes \in Seq(BufByte) /\ Len(bytes) = Len(buffers[call.b])
           /\ \A i \in 1 .. Len(bytes) :
                bytes[i] # buffers[call.b][i] => call.do # "read" /\ i - call.from \in 1 .. call.n,
         call.ok /\ call.n > 0 =>
           call.from + call.n <= Len(buffers[call.b]) /\ CallDidWhatItSays(call)'
  PROVE  BufInv'
<1>1. bufCall' = call /\ bufBefore' = buffers /\ bufFault' = "none"
  BY DEF BufCall
<1>2. PICK B, A, c : B = buffers /\ A = buffers' /\ c = call.b
  OBVIOUS
<1>3. B \in Seq(Seq(BufByte)) /\ c \in DOMAIN B /\ B[c] \in Seq(BufByte) /\ c \in 1 .. Len(B)
  BY <1>2, LenProperties, ElementOfSeq
<1>4. /\ A \in Seq(Seq(BufByte)) /\ DOMAIN A = DOMAIN B
      /\ \A b \in DOMAIN A : Len(A[b]) = Len(B[b])
      /\ \A b \in DOMAIN A : b # c => A[b] = B[b]
      /\ call.ok => A[c] = bytes
      /\ ~call.ok => A = B
  <2>1. CASE call.ok
    <3>1. A = [B EXCEPT ![c] = bytes]
      BY <1>2, <2>1 DEF BufCall
    <3>2. A \in Seq(Seq(BufByte))
      BY <1>3, <2>1, <3>1, ExceptSeq
    <3> QED
      BY <1>2, <1>3, <2>1, <3>1, <3>2
  <2>2. CASE ~call.ok
    BY <1>2, <1>3, <2>2 DEF BufCall
  <2> QED
    BY <2>1, <2>2
<1>5. \A b \in DOMAIN A : \A i \in 1 .. Len(A[b]) :
        A[b][i] # B[b][i] => call.ok /\ call.do # "read" /\ b = call.b /\ i - call.from \in 1 .. call.n
  <2>1. ASSUME NEW b \in DOMAIN A, NEW i \in 1 .. Len(A[b]), A[b][i] # B[b][i]
        PROVE  call.ok /\ call.do # "read" /\ b = call.b /\ i - call.from \in 1 .. call.n
    <3>1. b = c /\ call.ok /\ A[b] = bytes
      BY <1>4, <2>1
    <3> QED
      BY <1>2, <2>1, <3>1
  <2> QED
    BY <2>1
<1>6. call.ok /\ call.n > 0 => (Inside(call.b, call.from, call.n) /\ CallDidWhatItSays(call))'
  <2>1. call.ok /\ call.n > 0 => call.from + call.n <= Len(A[c])
    BY <1>2, <1>3, <1>4
  <2>2. (Inside(call.b, call.from, call.n))' <=> call.from + call.n <= Len(A[c])
    BY <1>2 DEF Inside, Bytes
  <2> QED
    BY <2>1, <2>2
<1>8. BuffersHold'
  BY <1>1, <1>2, <1>5, <1>6 DEF BuffersHold
<1> QED
  BY <1>2, <1>4, <1>8 DEF BufInv

LEMMA FailHolds ==
  ASSUME BufInv, NEW call, NEW reason, BufFails(call, reason), reason \in {"outside", "overlap", "endless"},
         reason = "outside" => call.from + call.n >= U32
  PROVE  BufInv'
BY DEF BufInv, BuffersHold, BufFails

LEMMA CreateHolds ==
  ASSUME BufInv, NEW bytes \in BufContents, BufCreate(bytes)
  PROVE  BufInv'
<1>1. bytes \in Seq(BufByte)
  BY BufferAssumption DEF BufByte
<1>2. buffers' \in Seq(Seq(BufByte))
  BY <1>1 DEF BufCreate, BufInv
<1>3. bufCall'.do = "none" /\ bufFault' = "none"
  BY DEF BufCreate, NoCall
<1>4. BuffersHold'
  BY <1>3 DEF BuffersHold
<1> QED
  BY <1>2, <1>4 DEF BufInv

\* A range that passes the check and does not fit is one whose end wraps around.
LEMMA WrapsIfOutside ==
  ASSUME NEW offset \in Nat, NEW n \in Nat, NEW size \in Nat, Fits(offset, n, size), ~(offset + n <= size)
  PROVE  offset + n >= U32
<1>1. PICK U, x : U = U32 /\ x = offset + n
  OBVIOUS
<1>2. U \in Nat \ {0} /\ x \in Nat
  BY <1>1, PowersAre DEF U32
<1>3. x < U => x % U = x
  <2>1. ASSUME x < U PROVE x % U = x
    <3>1. x = U * 0 + x /\ x \in 0 .. U - 1
      BY <1>2, <2>1
    <3> QED
      BY ONLY <1>2, <3>1, DivUnique
  <2> QED
    BY <2>1
<1>4. x % U <= size
  BY <1>1 DEF Fits
<1> QED
  BY <1>1, <1>2, <1>3, <1>4

\* The buffers that a call is about.
LEMMA BufferIs ==
  ASSUME BufInv, NEW b \in DOMAIN buffers
  PROVE  /\ buffers \in Seq(Seq(BufByte))
         /\ Bytes(b) \in Seq(BufByte) /\ Len(Bytes(b)) \in Nat /\ Bytes(b) = buffers[b]
BY ElementOfSeq, LenProperties DEF BufInv, Bytes

LEMMA ReadHolds ==
  ASSUME BufInv, NEW b \in DOMAIN buffers, NEW offset \in Nat, NEW n \in {1, 2, 4}, NEW big \in BOOLEAN,
         BufRead(b, offset, n, big)
  PROVE  BufInv'
<1>1. PICK call : call = [do |-> "read", b |-> b, from |-> offset, n |-> n, ok |-> Fits(offset, n, Len(Bytes(b))),
                          big |-> big, answer |-> IF Inside(b, offset, n) THEN ReadBytes(b, offset, n, big) ELSE 0]
  OBVIOUS
<1>2. IF call.ok /\ ~Inside(b, offset, n) THEN BufFails(call, "outside") ELSE BufCall(call, Bytes(b))
  BY <1>1 DEF BufRead
<1>3. /\ call.do = "read" /\ call.b = b /\ call.from = offset /\ call.n = n
      /\ call.ok = Fits(offset, n, Len(Bytes(b))) /\ call.big = big
      /\ call.answer = IF Inside(b, offset, n) THEN ReadBytes(b, offset, n, big) ELSE 0
  BY <1>1
<1>4. CASE call.ok /\ ~Inside(b, offset, n)
  <2>1. offset + n >= U32
    BY <1>3, <1>4, BufferIs, WrapsIfOutside DEF Inside
  <2> QED
    BY <1>2, <1>3, <1>4, <2>1, FailHolds
<1>5. CASE ~(call.ok /\ ~Inside(b, offset, n))
  <2>1. BufCall(call, Bytes(b))
    BY <1>2, <1>5
  <2>2. bufBefore' = buffers
    BY <2>1 DEF BufCall
  <2>3. ASSUME call.ok, call.n > 0
        PROVE  call.from + call.n <= Len(buffers[call.b]) /\ CallDidWhatItSays(call)'
    <3>1. Inside(b, offset, n) /\ offset + n <= Len(Bytes(b))
      BY <1>5, <2>3 DEF Inside
    <3>2. call.answer = Number(SubSeq(Bytes(b), offset + 1, offset + n), big)
      BY <1>3, <3>1, BufferIs, ReadIs
    <3>3. CallDidWhatItSays(call)'
      BY <1>3, <2>2, <3>2 DEF CallDidWhatItSays, Ranged, Bytes
    <3> QED
      BY <1>3, <3>1, <3>3 DEF Bytes
  <2>4. call.ok =>
           /\ Bytes(b) \in Seq(BufByte) /\ Len(Bytes(b)) = Len(buffers[call.b])
           /\ \A i \in 1 .. Len(Bytes(b)) :
                Bytes(b)[i] # buffers[call.b][i] => call.do # "read" /\ i - call.from \in 1 .. call.n
    BY <1>3, BufferIs
  <2>5. call.b \in DOMAIN buffers /\ call.n \in Int /\ call.from \in Nat /\ buffers \in Seq(Seq(BufByte))
    BY <1>3, BufferIs
  <2> QED
    BY ONLY <2>1, <2>3, <2>4, <2>5, CallHolds
<1> QED
  BY <1>4, <1>5

LEMMA WriteHolds ==
  ASSUME BufInv, NEW b \in DOMAIN buffers, NEW offset \in Nat, NEW n \in {1, 2, 4}, NEW big \in BOOLEAN,
         NEW value \in Int, BufWrite(b, value, offset, n, big)
  PROVE  BufInv'
<1>1. PICK call : call = [do |-> "write", b |-> b, from |-> offset, n |-> n, ok |-> Fits(offset, n, Len(Bytes(b))),
                          big |-> big, value |-> value, answer |-> offset + n]
  OBVIOUS
<1>2. IF call.ok /\ ~Inside(b, offset, n) THEN BufFails(call, "outside")
      ELSE BufCall(call, PutAt(b, offset, WriteBytes(value, n, big)))
  BY <1>1 DEF BufWrite
<1>3. /\ call.do = "write" /\ call.b = b /\ call.from = offset /\ call.n = n
      /\ call.ok = Fits(offset, n, Len(Bytes(b))) /\ call.big = big
      /\ call.value = value /\ call.answer = offset + n
  BY <1>1
<1>4. CASE call.ok /\ ~Inside(b, offset, n)
  <2>1. offset + n >= U32
    BY <1>3, <1>4, BufferIs, WrapsIfOutside DEF Inside
  <2> QED
    BY <1>2, <1>3, <1>4, <2>1, FailHolds
<1>5. CASE ~(call.ok /\ ~Inside(b, offset, n))
  <2>1. PICK w, p : w = WriteBytes(value, n, big) /\ p = PutAt(b, offset, w)
    OBVIOUS
  <2>2. BufCall(call, p)
    BY <1>2, <1>5, <2>1
  <2>3. w \in Seq(BufByte) /\ Len(w) = n /\ Number(w, big) = value % ByteTo[n]
    BY <2>1, WriteIs
  <2>4. ASSUME call.ok
        PROVE  /\ offset + n <= Len(Bytes(b))
               /\ p \in Seq(BufByte) /\ Len(p) = Len(Bytes(b))
               /\ \A i \in 1 .. Len(p) : p[i] # Bytes(b)[i] => i - offset \in 1 .. n
               /\ SubSeq(p, offset + 1, offset + n) = w
    <3>1. offset + n <= Len(Bytes(b))
      BY <1>5, <2>4 DEF Inside
    <3>2. Bytes(b) \in Seq(BufByte) /\ offset + Len(w) <= Len(Bytes(b))
      BY <2>3, <3>1, BufferIs
    <3>3. /\ p \in Seq(BufByte) /\ Len(p) = Len(Bytes(b))
          /\ \A i \in 1 .. Len(Bytes(b)) : p[i] # Bytes(b)[i] => i - offset \in 1 .. Len(w)
          /\ SubSeq(p, offset + 1, offset + Len(w)) = w
      BY <2>1, <2>3, <3>2, PutAtIs
    <3> QED
      BY <2>3, <3>1, <3>3
  <2>5. call.ok => buffers'[b] = p
    BY <1>3, <2>2, BufferIs DEF BufCall
  <2>6. call.ok => CallDidWhatItSays(call)'
    <3>1. call.ok => (Ranged(buffers, call))' = w
      BY <1>3, <2>4, <2>5 DEF Ranged
    <3> QED
      BY <1>3, <2>3, <3>1 DEF CallDidWhatItSays
  <2>7. call.ok =>
           /\ p \in Seq(BufByte) /\ Len(p) = Len(buffers[call.b])
           /\ \A i \in 1 .. Len(p) :
                p[i] # buffers[call.b][i] => call.do # "read" /\ i - call.from \in 1 .. call.n
    BY <1>3, <2>4, BufferIs
  <2>8. call.b \in DOMAIN buffers /\ call.n \in Int /\ call.from \in Nat /\ buffers \in Seq(Seq(BufByte))
    BY <1>3, BufferIs
  <2>9. call.ok /\ call.n > 0 => call.from + call.n <= Len(buffers[call.b]) /\ CallDidWhatItSays(call)'
    BY <1>3, <2>4, <2>6, BufferIs
  <2> QED
    BY ONLY <2>2, <2>7, <2>8, <2>9, CallHolds
<1> QED
  BY <1>4, <1>5

\* Bytes put at an offset, for the calls that do only that.
LEMMA PutHolds ==
  ASSUME BufInv, NEW b \in DOMAIN buffers, NEW offset \in Nat, NEW bytes \in Seq(BufByte),
         offset + Len(bytes) <= Len(Bytes(b))
  PROVE  \E p : /\ p = PutAt(b, offset, bytes)
                /\ p \in Seq(BufByte) /\ Len(p) = Len(Bytes(b))
                /\ \A i \in 1 .. Len(p) : p[i] # Bytes(b)[i] => i - offset \in 1 .. Len(bytes)
                /\ \A i \in 1 .. Len(bytes) : p[offset + i] = bytes[i]
                /\ SubSeq(p, offset + 1, offset + Len(bytes)) = bytes
<1>1. Bytes(b) \in Seq(BufByte)
  BY BufferIs
<1>2. /\ PutAt(b, offset, bytes) \in Seq(BufByte)
      /\ Len(PutAt(b, offset, bytes)) = Len(Bytes(b))
      /\ \A i \in 1 .. Len(Bytes(b)) :
           PutAt(b, offset, bytes)[i] # Bytes(b)[i] => i - offset \in 1 .. Len(bytes)
      /\ \A i \in 1 .. Len(bytes) : PutAt(b, offset, bytes)[offset + i] = bytes[i]
      /\ SubSeq(PutAt(b, offset, bytes), offset + 1, offset + Len(bytes)) = bytes
  BY <1>1, PutAtIs
<1>3. PICK p : p = PutAt(b, offset, bytes)
  OBVIOUS
<1> QED
  BY <1>2, <1>3

LEMMA CopyHolds ==
  ASSUME BufInv, NEW source \in DOMAIN buffers, NEW target \in DOMAIN buffers, NEW targetStart \in Nat,
         NEW sourceStart \in Nat, NEW sourceEnd \in Int,
         BufCopy(source, target, targetStart, sourceStart, sourceEnd)
  PROVE  BufInv'
<1>1. PICK upto, n : /\ upto = IF sourceEnd = -1 THEN Len(Bytes(source)) ELSE sourceEnd
                    /\ n = upto - sourceStart
  OBVIOUS
<1>2. PICK call : call = [do |-> "copy", b |-> target, from |-> targetStart, n |-> n, source |-> source, at |-> sourceStart,
               ok |-> /\ targetStart < Len(Bytes(target)) /\ sourceStart < Len(Bytes(source))
                      /\ sourceStart < upto /\ upto <= Len(Bytes(source))
                      /\ n <= Len(Bytes(target)) - targetStart]
  OBVIOUS
<1>3. IF call.ok /\ Overlap(source, sourceStart, target, targetStart, n) THEN BufFails(call, "overlap")
      ELSE BufCall(call, IF call.ok THEN PutAt(target, targetStart, SubSeq(Bytes(source), sourceStart + 1, upto)) ELSE <<>>)
  BY <1>1, <1>2 DEF BufCopy
<1>4. /\ call.do = "copy" /\ call.b = target /\ call.from = targetStart /\ call.n = n
      /\ call.source = source /\ call.at = sourceStart
      /\ call.ok => /\ sourceStart < upto /\ upto <= Len(Bytes(source))
                    /\ n <= Len(Bytes(target)) - targetStart
  BY <1>2
<1>5. upto \in Int /\ n \in Int /\ Len(Bytes(source)) \in Nat /\ Len(Bytes(target)) \in Nat
  BY <1>1, BufferIs
<1>6. CASE call.ok /\ Overlap(source, sourceStart, target, targetStart, n)
  BY <1>3, <1>6, FailHolds
<1>7. CASE ~call.ok
  <2>1. PICK bytes : BufCall(call, bytes)
    BY <1>3, <1>7
  <2> QED
    <3>1. call.b \in DOMAIN buffers /\ call.n \in Int /\ call.from \in Nat /\ buffers \in Seq(Seq(BufByte))
      BY <1>4, <1>5, BufferIs
    <3> QED
      BY ONLY <1>7, <2>1, <3>1, CallHolds
<1>8. CASE call.ok /\ ~Overlap(source, sourceStart, target, targetStart, n)
  <2>1. n \in Nat /\ n > 0 /\ upto = sourceStart + n /\ sourceStart + n <= Len(Bytes(source))
        /\ targetStart + n <= Len(Bytes(target))
    BY <1>1, <1>4, <1>5, <1>8
  <2>2. PICK w : w = SubSeq(Bytes(source), sourceStart + 1, sourceStart + n)
    OBVIOUS
  <2>3. w \in Seq(BufByte) /\ Len(w) = n
    <3>1. Bytes(source) \in Seq(BufByte)
      BY BufferIs
    <3> QED
      BY ONLY sourceStart \in Nat, <2>1, <2>2, <3>1, PartIs
  <2>4. PICK p : /\ p = PutAt(target, targetStart, w)
                 /\ p \in Seq(BufByte) /\ Len(p) = Len(Bytes(target))
                 /\ \A i \in 1 .. Len(p) : p[i] # Bytes(target)[i] => i - targetStart \in 1 .. Len(w)
                 /\ SubSeq(p, targetStart + 1, targetStart + Len(w)) = w
    <3>1. targetStart + Len(w) <= Len(Bytes(target))
      BY <2>1, <2>3
    <3>2. w \in Seq(BufByte)
      BY <2>3
    <3> QED
      BY ONLY BufInv, target \in DOMAIN buffers, targetStart \in Nat, <3>1, <3>2, PutHolds
  <2>5. BufCall(call, p)
    BY <1>3, <1>8, <2>1, <2>2, <2>4
  <2>6. buffers'[target] = p /\ bufBefore' = buffers
    BY <1>4, <1>8, <2>5, BufferIs DEF BufCall
  <2>7. CallDidWhatItSays(call)'
    <3>1. (Ranged(buffers, call))' = w
      BY <1>4, <2>3, <2>4, <2>6 DEF Ranged
    <3>2. SubSeq(bufBefore'[call.source], call.at + 1, call.at + call.n) = w
      BY <1>4, <2>2, <2>6 DEF Bytes
    <3> QED
      BY <1>4, <3>1, <3>2 DEF CallDidWhatItSays
  <2>8. call.ok =>
           /\ p \in Seq(BufByte) /\ Len(p) = Len(buffers[call.b])
           /\ \A i \in 1 .. Len(p) :
                p[i] # buffers[call.b][i] => call.do # "read" /\ i - call.from \in 1 .. call.n
    BY <1>4, <2>3, <2>4, BufferIs
  <2>9. call.b \in DOMAIN buffers /\ call.n \in Int /\ call.from \in Nat /\ buffers \in Seq(Seq(BufByte))
    BY <1>4, <1>5, BufferIs
  <2>10. call.ok /\ call.n > 0 => call.from + call.n <= Len(buffers[call.b]) /\ CallDidWhatItSays(call)'
    BY <1>4, <2>1, <2>7, BufferIs
  <2> QED
    BY ONLY <2>5, <2>8, <2>9, <2>10, CallHolds
<1> QED
  BY <1>6, <1>7, <1>8

LEMMA StringHolds ==
  ASSUME BufInv, NEW b \in DOMAIN buffers, NEW string \in Seq(BufByte), NEW offset \in Nat,
         NEW given \in Nat \union {-1}, BufWriteString(b, string, offset, given)
  PROVE  BufInv'
<1>1. PICK n : n = IF given = -1 THEN (Len(Bytes(b)) - offset) % U32 ELSE given
  OBVIOUS
<1>2. PICK call : call = [do |-> "string", b |-> b, from |-> offset, n |-> n, string |-> string,
               ok |-> n <= Len(string) /\ Fits(offset, n, Len(Bytes(b)))]
  OBVIOUS
<1>3. IF call.ok /\ ~Inside(b, offset, n) THEN BufFails(call, "outside")
      ELSE BufCall(call, IF call.ok THEN PutAt(b, offset, SubSeq(string, 1, n)) ELSE <<>>)
  BY <1>1, <1>2 DEF BufWriteString
<1>4. /\ call.do = "string" /\ call.b = b /\ call.from = offset /\ call.n = n /\ call.string = string
      /\ call.ok => n <= Len(string) /\ Fits(offset, n, Len(Bytes(b)))
  BY <1>2
<1>5. n \in Nat
  <2>1. PICK U : U = U32
    OBVIOUS
  <2>2. U \in Nat \ {0}
    BY <2>1, PowersAre DEF U32
  <2>3. Len(Bytes(b)) - offset \in Int
    BY BufferIs
  <2>4. (Len(Bytes(b)) - offset) % U \in Nat
    BY <2>2, <2>3, DivMod
  <2> QED
    BY <1>1, <2>1, <2>4
<1>6. CASE call.ok /\ ~Inside(b, offset, n)
  <2>1. offset + n >= U32
    BY <1>4, <1>5, <1>6, BufferIs, WrapsIfOutside DEF Inside
  <2> QED
    BY <1>3, <1>4, <1>6, <2>1, FailHolds
<1>7. CASE ~call.ok
  <2>1. PICK bytes : BufCall(call, bytes)
    BY <1>3, <1>7
  <2> QED
    <3>1. call.b \in DOMAIN buffers /\ call.n \in Int /\ call.from \in Nat /\ buffers \in Seq(Seq(BufByte))
      BY <1>4, <1>5, BufferIs
    <3> QED
      BY ONLY <1>7, <2>1, <3>1, CallHolds
<1>8. CASE call.ok /\ Inside(b, offset, n)
  <2>1. offset + n <= Len(Bytes(b))
    BY <1>8 DEF Inside
  <2>2. PICK w : w = SubSeq(string, 1, n)
    OBVIOUS
  <2>3. w \in Seq(BufByte) /\ Len(w) = n
    <3>1. w = SubSeq(string, 0 + 1, 0 + n) /\ 0 + n <= Len(string)
      BY <1>4, <1>5, <1>8, <2>2
    <3> QED
      BY <1>5, <3>1, PartIs
  <2>4. PICK p : /\ p = PutAt(b, offset, w)
                 /\ p \in Seq(BufByte) /\ Len(p) = Len(Bytes(b))
                 /\ \A i \in 1 .. Len(p) : p[i] # Bytes(b)[i] => i - offset \in 1 .. Len(w)
                 /\ SubSeq(p, offset + 1, offset + Len(w)) = w
    BY <2>1, <2>3, PutHolds
  <2>5. BufCall(call, p)
    BY <1>3, <1>8, <2>2, <2>4
  <2>6. buffers'[b] = p
    BY <1>4, <1>8, <2>5, BufferIs DEF BufCall
  <2>7. CallDidWhatItSays(call)'
    <3>1. (Ranged(buffers, call))' = w
      BY <1>4, <2>3, <2>4, <2>6 DEF Ranged
    <3> QED
      BY <1>4, <2>2, <3>1 DEF CallDidWhatItSays
  <2>8. call.ok =>
           /\ p \in Seq(BufByte) /\ Len(p) = Len(buffers[call.b])
           /\ \A i \in 1 .. Len(p) :
                p[i] # buffers[call.b][i] => call.do # "read" /\ i - call.from \in 1 .. call.n
    BY <1>4, <2>3, <2>4, BufferIs
  <2>9. call.b \in DOMAIN buffers /\ call.n \in Int /\ call.from \in Nat /\ buffers \in Seq(Seq(BufByte))
    BY <1>4, <1>5, BufferIs
  <2>10. call.ok /\ call.n > 0 => call.from + call.n <= Len(buffers[call.b]) /\ CallDidWhatItSays(call)'
    BY <1>4, <2>1, <2>7, BufferIs
  <2> QED
    BY ONLY <2>5, <2>8, <2>9, <2>10, CallHolds
<1> QED
  BY <1>6, <1>7, <1>8

\* Going back by a whole source finds the same byte of it.
LEMMA SameAgain ==
  ASSUME NEW i \in Int, NEW m \in Nat \ {0}
  PROVE  (i - m) % m = i % m
<1>1. i = m * (i \div m) + (i % m) /\ i % m \in 0 .. m - 1 /\ i \div m \in Int
  BY DivMod
<1>2. PICK q, r : q = i \div m /\ r = i % m
  OBVIOUS
<1>3. q \in Int /\ r \in 0 .. m - 1 /\ i = m * q + r
  BY <1>1, <1>2
<1>4. i - m = m * (q - 1) + r
  <2>1. m * (q - 1) = m * q - m
    BY <1>3
  <2>2. PICK x : x = m * q
    OBVIOUS
  <2>3. x \in Int
    BY <1>3, <2>2
  <2> QED
    BY <1>3, <2>1, <2>2, <2>3
<1>5. (i - m) % m = r
  <2>1. PICK j, p : j = i - m /\ p = q - 1
    OBVIOUS
  <2>2. j \in Int /\ p \in Int /\ j = m * p + r
    BY <1>3, <1>4, <2>1
  <2>3. j % m = r
    BY ONLY <1>3, <2>2, m \in Nat \ {0}, DivUnique
  <2> QED
    BY <2>1, <2>3
<1> QED
  BY <1>2, <1>5

LEMMA FillingIs ==
  ASSUME NEW source \in Seq(BufByte), source # <<>>, NEW n \in Nat
  PROVE  /\ Filling(source, n) \in Seq(BufByte) /\ Len(Filling(source, n)) = n
         /\ \A i \in 1 .. n : i <= Len(source) => Filling(source, n)[i] = source[i]
         /\ \A i \in 1 .. n : i > Len(source) =>
              i - Len(source) \in 1 .. n /\ Filling(source, n)[i] = Filling(source, n)[i - Len(source)]
<1>1. PICK m, f : m = Len(source) /\ f = Filling(source, n)
  OBVIOUS
<1>2. m \in Nat \ {0} /\ \A i \in 1 .. m : source[i] \in BufByte
  BY <1>1, EmptySeq, LenProperties, ElementOfSeq
<1>3. f = [i \in 1 .. n |-> source[((i - 1) % m) + 1]]
  BY <1>1 DEF Filling
<1>4. \A i \in 1 .. n : ((i - 1) % m) + 1 \in 1 .. m
  <2>1. ASSUME NEW i \in 1 .. n PROVE ((i - 1) % m) + 1 \in 1 .. m
    <3>1. PICK j : j = i - 1
      OBVIOUS
    <3>2. j \in Int
      BY <3>1
    <3>3. PICK r : r = j % m
      OBVIOUS
    <3>4. r \in 0 .. m - 1
      BY ONLY <1>2, <3>2, <3>3, DivMod
    <3>5. r + 1 \in 1 .. m
      BY ONLY <1>2, <3>4
    <3> QED
      BY <3>1, <3>3, <3>5
  <2> QED
    BY <2>1
<1>5. f \in [1 .. n -> BufByte]
  BY <1>2, <1>3, <1>4
<1>6. f \in Seq(BufByte) /\ Len(f) = n
  BY <1>3, <1>5, SeqDef, LenProperties
<1>7. ASSUME NEW i \in 1 .. n, i <= m PROVE f[i] = source[i]
  <2>1. PICK j : j = i - 1
    OBVIOUS
  <2>2. j \in Int /\ j \in 0 .. m - 1 /\ j = m * 0 + j
    BY <1>2, <1>7, <2>1
  <2>3. j % m = j
    BY ONLY <1>2, <2>2, DivUnique
  <2>4. j + 1 = i
    BY <2>1
  <2> QED
    BY <1>3, <2>1, <2>3, <2>4
<1>8. ASSUME NEW i \in 1 .. n, i > m PROVE i - m \in 1 .. n /\ f[i] = f[i - m]
  <2>1. i - m \in 1 .. n
    BY <1>2, <1>8
  <2>2. PICK j : j = i - 1
    OBVIOUS
  <2>3. j \in Int /\ (i - m) - 1 = j - m
    BY <1>2, <2>2
  <2>4. (j - m) % m = j % m
    BY <1>2, <2>3, SameAgain
  <2>5. f[i] = source[(j % m) + 1] /\ f[i - m] = source[((j - m) % m) + 1]
    BY <1>3, <2>1, <2>2, <2>3
  <2> QED
    BY <2>1, <2>4, <2>5
<1> QED
  BY <1>1, <1>6, <1>7, <1>8

LEMMA FillHolds ==
  ASSUME BufInv, NEW b \in DOMAIN buffers, NEW source \in Seq(BufByte), NEW from, NEW offset \in Nat,
         NEW given \in Int, BufFill(b, source, from, offset, given)
  PROVE  BufInv'
<1>1. PICK size, upto : /\ size = Len(Bytes(b))
                       /\ upto = IF given = -1 \/ given > size THEN size ELSE given
  OBVIOUS
<1>2. PICK n : n = IF offset >= upto THEN 0 ELSE upto - offset
  OBVIOUS
<1>3. PICK call : call = [do |-> "fill", b |-> b, from |-> offset, n |-> n, string |-> source, ok |-> TRUE]
  OBVIOUS
<1>4. IF n > 0 /\ source = <<>> THEN BufFails(call, "endless")
      ELSE IF Overlap(from, 0, b, offset, n) THEN BufFails(call, "overlap")
      ELSE BufCall(call, IF n = 0 THEN Bytes(b) ELSE PutAt(b, offset, Filling(source, n)))
  BY <1>1, <1>2, <1>3 DEF BufFill
<1>5. call.do = "fill" /\ call.b = b /\ call.from = offset /\ call.n = n /\ call.string = source /\ call.ok
  BY <1>3
<1>6. size \in Nat /\ upto \in Int /\ upto <= size /\ n \in Nat /\ (n > 0 => offset + n <= size)
  BY <1>1, <1>2, BufferIs
<1>7. call.b \in DOMAIN buffers /\ call.n \in Int /\ call.from \in Nat /\ buffers \in Seq(Seq(BufByte))
  BY <1>5, <1>6, BufferIs
<1>8. CASE BufFails(call, "endless") \/ BufFails(call, "overlap")
  BY <1>8, FailHolds
<1>9. CASE n = 0 /\ BufCall(call, Bytes(b))
  <2>1. Bytes(b) \in Seq(BufByte) /\ Bytes(b) = buffers[call.b] /\ ~(call.n > 0)
    BY <1>5, <1>9, BufferIs
  <2> QED
    BY <1>7, <1>9, <2>1, CallHolds
<1>10. CASE n > 0 /\ source # <<>> /\ BufCall(call, PutAt(b, offset, Filling(source, n)))
  <2>1. PICK w : w = Filling(source, n)
    OBVIOUS
  <2>2. /\ w \in Seq(BufByte) /\ Len(w) = n
        /\ \A i \in 1 .. n : i <= Len(source) => w[i] = source[i]
        /\ \A i \in 1 .. n : i > Len(source) => i - Len(source) \in 1 .. n /\ w[i] = w[i - Len(source)]
    BY <1>6, <1>10, <2>1, FillingIs
  <2>3. offset + Len(w) <= Len(Bytes(b))
    BY <1>1, <1>6, <1>10, <2>2
  <2>4. PICK p : /\ p = PutAt(b, offset, w)
                 /\ p \in Seq(BufByte) /\ Len(p) = Len(Bytes(b))
                 /\ \A i \in 1 .. Len(p) : p[i] # Bytes(b)[i] => i - offset \in 1 .. Len(w)
                 /\ \A i \in 1 .. Len(w) : p[offset + i] = w[i]
                 /\ SubSeq(p, offset + 1, offset + Len(w)) = w
    <3>1. w \in Seq(BufByte)
      BY <2>2
    <3> QED
      BY ONLY BufInv, b \in DOMAIN buffers, offset \in Nat, <3>1, <2>3, PutHolds
  <2>5. BufCall(call, p)
    BY <1>10, <2>1, <2>4
  <2>6. buffers'[b] = p
    BY <1>5, <2>5, BufferIs DEF BufCall
  <2>7. \A i \in 1 .. n : p[offset + i] = IF i <= Len(source) THEN source[i] ELSE p[offset + i - Len(source)]
    <3>1. ASSUME NEW i \in 1 .. n
          PROVE  p[offset + i] = IF i <= Len(source) THEN source[i] ELSE p[offset + i - Len(source)]
      <4>1. p[offset + i] = w[i]
        BY <2>2, <2>4
      <4>2. CASE i <= Len(source)
        BY <2>2, <4>1, <4>2
      <4>3. CASE ~(i <= Len(source))
        <5>1. i - Len(source) \in 1 .. n /\ w[i] = w[i - Len(source)]
          BY <2>2, <4>3
        <5>2. p[offset + (i - Len(source))] = w[i - Len(source)]
          BY <2>2, <2>4, <5>1
        <5>3. offset + i - Len(source) = offset + (i - Len(source))
          OBVIOUS
        <5> QED
          BY <4>1, <4>3, <5>1, <5>2, <5>3
      <4> QED
        BY <4>2, <4>3
    <3> QED
      BY <3>1
  <2>8. CallDidWhatItSays(call)'
    BY <1>5, <2>6, <2>7 DEF CallDidWhatItSays
  <2>9. call.ok =>
           /\ p \in Seq(BufByte) /\ Len(p) = Len(buffers[call.b])
           /\ \A i \in 1 .. Len(p) :
                p[i] # buffers[call.b][i] => call.do # "read" /\ i - call.from \in 1 .. call.n
    BY <1>5, <2>2, <2>4, BufferIs
  <2>10. call.ok /\ call.n > 0 => call.from + call.n <= Len(buffers[call.b]) /\ CallDidWhatItSays(call)'
    BY <1>5, <2>2, <2>3, <2>8, BufferIs
  <2> QED
    BY ONLY <1>7, <2>5, <2>9, <2>10, CallHolds
<1> QED
  BY <1>4, <1>6, <1>8, <1>9, <1>10

LEMMA BufferBegins == BufferInit => BufInv
BY DEF BufferInit, NoCall, BufInv, BuffersHold

LEMMA BufInvIsKept ==
  ASSUME BufInv, [BufferNext]_bufVars
  PROVE  BufInv'
<1>1. BufOffsets \subseteq Nat /\ BufValues \subseteq Int /\ BufContents \subseteq Seq(BufByte)
  <2>1. PICK U : U = U32
    OBVIOUS
  <2>2. U \in Nat
    BY <2>1, PowersAre DEF U32
  <2>3. U \div 2 \in Int
    BY <2>2, DivMod
  <2>4. 0 .. U - 1 \subseteq Nat /\ -(U \div 2) .. U - 1 \subseteq Int
    BY <2>2, <2>3
  <2> QED
    BY <2>1, <2>4, BufferAssumption DEF BufByte
<1>2. CASE UNCHANGED bufVars
  BY <1>2 DEF bufVars, BufInv, BuffersHold, CallDidWhatItSays, Ranged, Inside, Bytes
<1>3. ASSUME NEW bytes \in BufContents, BufCreate(bytes) PROVE BufInv'
  BY <1>3, CreateHolds
<1>4. ASSUME NEW b \in DOMAIN buffers, NEW offset \in BufOffsets, NEW n \in {1, 2, 4}, NEW big \in BOOLEAN,
             BufRead(b, offset, n, big) \/ \E value \in BufValues : BufWrite(b, value, offset, n, big)
      PROVE  BufInv'
  <2>1. offset \in Nat /\ BufValues \subseteq Int
    BY <1>1
  <2> QED
    BY <1>4, <2>1, ReadHolds, WriteHolds
<1>5. ASSUME NEW b \in DOMAIN buffers, NEW offset \in BufOffsets, NEW given \in BufOffsets \union {-1},
             \/ \E c \in DOMAIN buffers, start \in BufOffsets : BufCopy(c, b, offset, start, given)
             \/ \E string \in BufContents :
                  BufWriteString(b, string, offset, given) \/ BufFill(b, string, 0, offset, given)
             \/ \E value \in BufValues \cap Nat : BufFill(b, WriteBytes(value, 4, TRUE), 0, offset, given)
             \/ \E c \in DOMAIN buffers : BufFill(b, Bytes(c), c, offset, given)
      PROVE  BufInv'
  <2>1. offset \in Nat /\ given \in Nat \union {-1} /\ given \in Int
    BY <1>1
  <2>2. ASSUME NEW c \in DOMAIN buffers, NEW start \in BufOffsets, BufCopy(c, b, offset, start, given)
        PROVE  BufInv'
    <3>1. start \in Nat
      BY <1>1
    <3> QED
      BY <2>1, <2>2, <3>1, CopyHolds
  <2>3. ASSUME NEW string \in BufContents,
               BufWriteString(b, string, offset, given) \/ BufFill(b, string, 0, offset, given)
        PROVE  BufInv'
    <3>1. string \in Seq(BufByte)
      BY <1>1
    <3> QED
      BY <2>1, <2>3, <3>1, StringHolds, FillHolds
  <2>4. ASSUME NEW value \in BufValues \cap Nat, BufFill(b, WriteBytes(value, 4, TRUE), 0, offset, given)
        PROVE  BufInv'
    <3>1. WriteBytes(value, 4, TRUE) \in Seq(BufByte)
      <4>1. PICK n, big : n = 4 /\ big = TRUE
        OBVIOUS
      <4>2. n \in {1, 2, 4} /\ big \in BOOLEAN /\ value \in Int
        BY <1>1, <4>1
      <4>3. WriteBytes(value, n, big) \in Seq(BufByte)
        BY ONLY <4>2, WriteIs
      <4> QED
        BY <4>1, <4>3
    <3> QED
      BY <2>1, <2>4, <3>1, FillHolds
  <2>5. ASSUME NEW c \in DOMAIN buffers, BufFill(b, Bytes(c), c, offset, given)
        PROVE  BufInv'
    <3>1. Bytes(c) \in Seq(BufByte)
      BY BufferIs
    <3> QED
      BY <2>1, <2>5, <3>1, FillHolds
  <2> QED
    BY <1>5, <2>2, <2>3, <2>4, <2>5
<1> QED
  BY <1>2, <1>3, <1>4, <1>5 DEF BufferNext

-----------------------------------------------------------------------------
(***************************************************************************)
(* The theorems.                                                           *)
(***************************************************************************)
\* Descriptors name one open file, appended bytes are kept in order, and successive reads of
\* a file opened for a+ bring its bytes in order (src/zjs_fs.c), whatever the file system
\* refuses.
THEOREM FilesHoldTheorem == FsSpec => []FilesHold
<1>1. FsSpec => []FsInv
  BY FsBegins, FsInvIsKept, PTL DEF FsSpec
<1> QED
  BY <1>1, FsInvHolds, PTL

\* Bytes written to the WebUSB channel go to the UART in order, until a write goes around the
\* end of its ring, and those that arrive are read in order, none lost and none twice,
\* whenever the interrupts move the indexes that main has read; what waits will be sent; and
\* nothing else is read, unless events are deferred faster than they are served
\* (src/zjs_webusb.c).  The rings' size is any.
THEOREM UsbDeliversTheorem == Spec => []UsbDelivers
<1>1. Init => UsbInv /\ Fresh
  <2>1. UsbInit => Fresh
    BY DEF UsbInit, Fresh, NotBusy
  <2> QED
    BY <2>1, UsbBegins DEF Init
<1>2. ASSUME UsbInv /\ Fresh, [Next]_deviceAllVars
      PROVE  (UsbInv /\ Fresh)'
  <2>1. [UsbNext]_usbVars
    BY <1>2 DEF Next, deviceAllVars
  <2> QED
    BY <1>2, <2>1, UsbInvIsKept, FreshIsKept
<1>3. UsbInv /\ Fresh => UsbDelivers
  BY UsbInvHolds
<1> QED
  BY <1>1, <1>2, <1>3, PTL DEF Spec

\* The script knows the level of an open pin that reports both edges once its signals are
\* served (src/zjs_gpio.c), and reads the bytes of the serial line in order and without gaps
\* (src/zjs_uart.c), however interrupts fall between main's steps, with the exceptions the
\* property names.
THEOREM PinsAreHeardTheorem == Spec => []PinsAreHeard
<1>1. Init => PinsInv
  BY PinsBegin DEF Init
<1>2. ASSUME PinsInv, [Next]_deviceAllVars
      PROVE  PinsInv'
  <2>1. [PinsNext]_pinVars
    BY <1>2 DEF Next, deviceAllVars
  <2> QED
    BY <1>2, <2>1, PinsInvIsKept
<1>3. PinsInv => PinsAreHeard
  BY PinsInvHolds
<1> QED
  BY <1>1, <1>2, <1>3, PTL DEF Spec

\* The files of the device are those the host of the web IDE sent, packets in order and none
\* missing, when everything is parsed (src/ashell/ide-webusb.c, ide-cmd.c): always for a host
\* that waits for the ACK of each packet, and for any other unless a packet was lost.
THEOREM FilesAreAsSentTheorem == Spec => []FilesAreAsSent
<1>1. Init => IdeInv
  BY IdeBegins DEF Init
<1>2. ASSUME IdeInv, [Next]_deviceAllVars
      PROVE  IdeInv'
  <2>1. [IdeNext]_ideVars
    BY <1>2 DEF Next, deviceAllVars
  <2> QED
    BY <1>2, <2>1, IdeInvIsKept
<1>3. IdeInv => FilesAreAsSent
  BY IdeInvHolds
<1> QED
  BY <1>1, <1>2, <1>3, PTL DEF Spec

\* What is typed reaches the terminal in order and makes the lines, and the captured files,
\* that were edited (src/ashell/term-uart.c and term-cmd.c), as long as no interrupt comes
\* while main gives up waiting for more, no NUL is typed, and a file takes what is written.
THEOREM TerminalIsFaithfulTheorem == Spec => []TerminalIsFaithful
<1>1. Init => UartInv /\ GivenInv /\ LineInv
  BY UartBegins, GivenBegins, LineBegins DEF Init
<1>2. ASSUME UartInv, GivenInv, LineInv, [Next]_deviceAllVars
      PROVE  UartInv' /\ GivenInv' /\ LineInv'
  <2>1. [TtNext]_ttVars /\ [TlNext]_tlVars
    BY <1>2 DEF Next, deviceAllVars
  <2> QED
    BY <1>2, <2>1, UartInvIsKept, GivenIsKept, LineInvIsKept
<1>3. UartInv /\ GivenInv /\ LineInv => TerminalIsFaithful
  BY UartInvHolds, LineInvHolds DEF GivenInv, TerminalIsFaithful
<1> QED
  BY <1>1, <1>2, <1>3, PTL DEF Spec

\* Buffers hold what was put into them, and no call touches another byte than those it is
\* about: numbers are read as they are written, by their places and in either order of their
\* bytes, copies, strings and fills bring the bytes they say, and memory outside of a buffer
\* is touched only when the sum of an offset and a length wraps around.
THEOREM BuffersHoldTheorem == Spec => []BuffersHold
<1>1. Init => BufInv
  BY BufferBegins DEF Init
<1>2. ASSUME BufInv, [Next]_deviceAllVars
      PROVE  BufInv'
  <2>1. [BufferNext]_bufVars
    BY <1>2 DEF Next, deviceAllVars
  <2> QED
    BY <1>2, <2>1, BufInvIsKept
<1>3. BufInv => BuffersHold
  BY DEF BufInv
<1> QED
  BY <1>1, <1>2, <1>3, PTL DEF Spec
=============================================================================
