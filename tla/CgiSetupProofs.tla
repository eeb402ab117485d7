--------------------------- MODULE CgiSetupProofs ---------------------------
(***************************************************************************)
(* Proofs about CgiSetup.  The first part is about the files: what the     *)
(* reader finds in lines that the writer has put together.  The second     *)
(* part has the inductive invariants.                                      *)
(***************************************************************************)
EXTENDS CgiSetup, SequenceTheorems, WellFoundedInduction, TLAPS

-----------------------------------------------------------------------------
(* Numbers *)

(* Every set of natural numbers that is not empty has a least element. *)
LEMMA Least ==
  ASSUME NEW T, T \subseteq Nat, T # {}
  PROVE  \E x \in T : \A y \in T : x <= y
<1> DEFINE R == OpToRel(<, Nat)
<1>1. IsWellFoundedOn(R, Nat)
  BY NatLessThanWellFounded
<1>2. \A a, b \in Nat : a < b => <<a, b>> \in R
  BY DEF OpToRel
<1> HIDE DEF R
<1>3. PICK x \in T : \A y \in T : ~ (<<y, x>> \in R)
  BY <1>1, WFMin, Zenon
<1>4. ASSUME NEW y \in T PROVE x <= y
  <2>1. ~ (y < x)
    BY <1>2, <1>3, Zenon
  <2>2. y \in Nat /\ x \in Nat
    OBVIOUS
  <2>3. QED
    BY <2>1, <2>2
<1>5. QED
  BY <1>4

(* One that has a bound has a greatest. *)
LEMMA Greatest ==
  ASSUME NEW n \in Nat, NEW T, T \subseteq 0 .. n, T # {}
  PROVE  Max(T) \in T /\ \A y \in T : Max(T) >= y
<1> DEFINE D == {n - x : x \in T}
<1>1. D \subseteq Nat /\ D # {}
  <2>1. \A x \in T : x \in 0 .. n
    OBVIOUS
  <2>2. \A x \in 0 .. n : n - x \in Nat
    OBVIOUS
  <2>3. \A d \in D : d \in Nat
    BY <2>1, <2>2
  <2>4. PICK x \in T : TRUE
    OBVIOUS
  <2>5. n - x \in D
    BY <2>4
  <2>6. QED
    BY <2>3, <2>5
<1>2. PICK d \in D : \A e \in D : d <= e
  BY <1>1, Least
<1>3. PICK x \in T : d = n - x
  OBVIOUS
<1>4. \A y \in T : x >= y
  <2>1. TAKE y \in T
  <2>2. d <= n - y
    BY <1>2
  <2>3. x \in 0 .. n /\ y \in 0 .. n
    OBVIOUS
  <2>4. QED
    BY <1>3, <2>2, <2>3
<1>5. QED
  BY <1>4 DEF Max

LEMMA LeastIs ==
  ASSUME NEW T, T \subseteq Nat, T # {}
  PROVE  Min(T) \in T /\ \A y \in T : Min(T) <= y
<1>1. PICK x \in T : \A y \in T : x <= y
  BY Least
<1>2. QED
  BY <1>1 DEF Min

-----------------------------------------------------------------------------
(* Sequences, whatever they hold *)

IsSeq(s) == s \in Seq(ToSet(s))

LEMMA SeqIs ==
  ASSUME NEW S, NEW s \in Seq(S)
  PROVE  IsSeq(s)
<1>1. Len(s) \in Nat /\ DOMAIN s = 1 .. Len(s) /\ s \in [1 .. Len(s) -> S]
  BY LenProperties
<1>2. s \in [1 .. Len(s) -> ToSet(s)]
  BY <1>1 DEF ToSet
<1>3. QED
  BY <1>1, <1>2, SeqDef DEF IsSeq

IsTuple(s, n) == DOMAIN s = 1 .. n /\ s = [i \in DOMAIN s |-> s[i]]

LEMMA FunctionIsSeq ==
  ASSUME NEW n \in Nat, NEW s, IsTuple(s, n)
  PROVE  IsSeq(s) /\ Len(s) = n
<1>1. s \in [1 .. n -> ToSet(s)]
  BY DEF ToSet, IsTuple
<1>2. s \in Seq(ToSet(s))
  BY <1>1, SeqDef
<1>3. Len(s) \in Nat /\ 1 .. n = 1 .. Len(s)
  BY <1>2, LenProperties DEF IsTuple
<1>4. Len(s) = n
  <2>1. PICK m \in Nat : m = Len(s)
    BY <1>3
  <2>2. 1 .. n = 1 .. m
    BY <1>3, <2>1
  <2>3. \A i \in Int : i \in 1 .. n <=> i \in 1 .. m
    BY <2>2
  <2>4. \A i \in Int : 1 <= i /\ i <= n <=> 1 <= i /\ i <= m
    BY <2>3
  <2>5. n <= m /\ m <= n
    BY <2>4
  <2>6. QED
    BY <2>1, <2>5
<1>5. QED
  BY <1>2, <1>4 DEF IsSeq

LEMMA SeqShape ==
  ASSUME NEW s, IsSeq(s)
  PROVE  Len(s) \in Nat /\ DOMAIN s = 1 .. Len(s) /\ s = [i \in 1 .. Len(s) |-> s[i]]
BY LenProperties DEF IsSeq

LEMMA SeqSame ==
  ASSUME NEW s, NEW t, IsSeq(s), IsSeq(t), Len(s) = Len(t),
         \A i \in 1 .. Len(s) : s[i] = t[i]
  PROVE  s = t
BY SeqShape

LEMMA ConcatIs ==
  ASSUME NEW s, NEW t, IsSeq(s), IsSeq(t)
  PROVE  /\ IsSeq(s \o t)
         /\ Len(s \o t) = Len(s) + Len(t)
         /\ \A i \in 1 .. Len(s) : (s \o t)[i] = s[i]
         /\ \A i \in Len(s) + 1 .. Len(s) + Len(t) : (s \o t)[i] = t[i - Len(s)]
<1>1. PICK S : S = ToSet(s) \cup ToSet(t)
  OBVIOUS
<1>2. s \in Seq(S)
  BY <1>1, SeqMonotonic DEF IsSeq
<1>3. t \in Seq(S)
  BY <1>1, SeqMonotonic DEF IsSeq
<1>4. /\ s \o t \in Seq(S)
      /\ Len(s \o t) = Len(s) + Len(t)
      /\ \A i \in 1 .. Len(s) + Len(t) : (s \o t)[i] =
                  IF i <= Len(s) THEN s[i] ELSE t[i - Len(s)]
  BY <1>2, <1>3, ConcatProperties
<1>5. IsSeq(s \o t)
  BY <1>4, SeqIs
<1>6. PICK m \in Nat, n \in Nat : m = Len(s) /\ n = Len(t)
  BY SeqShape
<1>7. PICK u : u = s \o t
  OBVIOUS
<1>8. \A i \in 1 .. m + n : u[i] = IF i <= m THEN s[i] ELSE t[i - m]
  BY <1>4, <1>6, <1>7
<1>9. \A i \in 1 .. m : i \in 1 .. m + n /\ i <= m
  OBVIOUS
<1>10. \A i \in m + 1 .. m + n : i \in 1 .. m + n /\ ~ (i <= m)
  OBVIOUS
<1>11. QED
  BY <1>4, <1>5, <1>6, <1>7, <1>8, <1>9, <1>10

LEMMA SubSeqIs ==
  ASSUME NEW s, IsSeq(s), NEW m \in Int, NEW n \in Int, 1 <= m, n <= Len(s)
  PROVE  /\ IsSeq(SubSeq(s, m, n))
         /\ Len(SubSeq(s, m, n)) = IF m <= n THEN n - m + 1 ELSE 0
         /\ \A i \in 1 .. n - m + 1 : SubSeq(s, m, n)[i] = s[m + i - 1]
<1>1. Len(s) \in Nat /\ DOMAIN s = 1 .. Len(s)
  BY SeqShape
<1>2. \A i \in m .. n : i \in DOMAIN s
  BY <1>1
<1>3. \A i \in m .. n : s[i] \in ToSet(s)
  BY <1>2 DEF ToSet
<1>4. PICK S : \A i \in m .. n : s[i] \in S
  BY <1>3
<1>5. /\ SubSeq(s, m, n) \in Seq(S)
      /\ Len(SubSeq(s, m, n)) = IF m <= n THEN n - m + 1 ELSE 0
      /\ \A i \in 1 .. n - m + 1 : SubSeq(s, m, n)[i] = s[m + i - 1]
  BY <1>4, SubSeqProperties
<1>6. IsSeq(SubSeq(s, m, n))
  BY <1>5, SeqIs
<1>7. QED
  BY <1>5, <1>6

LEMMA EmptyIs == IsSeq(<<>>) /\ Len(<<>>) = 0
<1>1. <<>> \in Seq({})
  BY EmptySeq
<1>2. QED
  BY <1>1, SeqIs, EmptySeq

LEMMA LengthZero ==
  ASSUME NEW s, IsSeq(s)
  PROVE  Len(s) = 0 <=> s = <<>>
BY EmptyIs, SeqSame

LEMMA OneIs ==
  ASSUME NEW x
  PROVE  IsSeq(<<x>>) /\ Len(<<x>>) = 1 /\ <<x>>[1] = x
<1>1. <<x>> \in Seq({x})
  OBVIOUS
<1>2. QED
  BY <1>1, SeqIs

-----------------------------------------------------------------------------
(* Lines *)

IsLineEnd(t, i, end) == /\ end \in i .. Len(t) + 1
                        /\ end = Len(t) + 1 \/ t[end] = NL
                        /\ \A j \in i .. end - 1 : t[j] # NL

(* A line has an end. *)
LEMMA LineEndExists ==
  ASSUME NEW t, IsSeq(t), NEW i \in 1 .. Len(t) + 1
  PROVE  IsLineEnd(t, i, LineEnd(t, i))
<1> DEFINE T == {e \in i .. Len(t) + 1 : e = Len(t) + 1 \/ t[e] = NL}
<1>1. Len(t) \in Nat
  BY SeqShape
<1>2. T \subseteq Nat /\ Len(t) + 1 \in T
  BY <1>1
<1>3. PICK e \in T : \A y \in T : e <= y
  BY <1>2, Least
<1>4. ASSUME NEW j \in i .. e - 1, t[j] = NL PROVE FALSE
  <2>1. j \in T
    BY <1>1, <1>4
  <2>2. e <= j
    BY <1>3, <2>1
  <2>3. QED
    BY <1>1, <2>2
<1>5. QED
  BY <1>4 DEF LineEnd, IsLineEnd

(* It has one. *)
LEMMA LineEndUnique ==
  ASSUME NEW t, IsSeq(t), NEW i \in 1 .. Len(t) + 1, NEW e, IsLineEnd(t, i, e)
  PROVE  LineEnd(t, i) = e
<1>1. Len(t) \in Nat
  BY SeqShape
<1>2. PICK d : d = LineEnd(t, i)
  OBVIOUS
<1>3. IsLineEnd(t, i, d)
  BY <1>2, LineEndExists
<1>4. d \in Int /\ e \in Int /\ i <= d /\ i <= e /\ d <= Len(t) + 1 /\ e <= Len(t) + 1
  BY <1>1, <1>3 DEF IsLineEnd
<1>5. ~ (d < e)
  <2>1. SUFFICES ASSUME d < e PROVE FALSE
    OBVIOUS
  <2>2. d \in i .. e - 1 /\ d # Len(t) + 1
    BY <1>1, <1>4, <2>1
  <2>3. QED
    BY <1>3, <2>2 DEF IsLineEnd
<1>6. ~ (e < d)
  <2>1. SUFFICES ASSUME e < d PROVE FALSE
    OBVIOUS
  <2>2. e \in i .. d - 1 /\ e # Len(t) + 1
    BY <1>1, <1>4, <2>1
  <2>3. QED
    BY <1>3, <2>2 DEF IsLineEnd
<1>7. QED
  BY <1>2, <1>4, <1>5, <1>6

IsValue(v) == IsSeq(v) /\ \A i \in 1 .. Len(v) : v[i] # NL

(* The value of a line has no end of line in it. *)
LEMMA ValueOfLine ==
  ASSUME NEW t, IsSeq(t), NEW lines, lines \subseteq DOMAIN t, NEW k,
         NEW default, IsValue(default)
  PROVE  IsValue(ValueAt(t, lines, k, default))
<1> DEFINE at == {i \in lines : t[i] = k}
<1>1. CASE at = {}
  BY <1>1 DEF ValueAt
<1>2. CASE at # {}
  <2>1. Len(t) \in Nat /\ DOMAIN t = 1 .. Len(t)
    BY SeqShape
  <2>2. at \subseteq 0 .. Len(t)
    BY <2>1
  <2>3. PICK m : m = Max(at)
    OBVIOUS
  <2>4. m \in 1 .. Len(t)
    BY <1>2, <2>1, <2>2, <2>3, Greatest
  <2>5. PICK e : e = LineEnd(t, m)
    OBVIOUS
  <2>6. IsLineEnd(t, m, e)
    BY <2>1, <2>4, <2>5, LineEndExists
  <2>7. e \in Int /\ m <= e /\ e <= Len(t) + 1
    BY <2>1, <2>4, <2>6 DEF IsLineEnd
  <2>8. \A i \in m + 1 .. e - 1 : t[i] # NL
    <3>1. TAKE i \in m + 1 .. e - 1
    <3>2. i \in m .. e - 1
      BY <2>1, <2>4, <2>7
    <3>3. QED
      BY <2>6, <3>2 DEF IsLineEnd
  <2>9. PICK v : v = SubSeq(t, m + 1, e - 1)
    OBVIOUS
  <2>10. /\ IsSeq(v)
         /\ Len(v) = IF m + 1 <= e - 1 THEN e - 1 - (m + 1) + 1 ELSE 0
         /\ \A i \in 1 .. e - 1 - (m + 1) + 1 : v[i] = t[m + 1 + i - 1]
    <3>1. m + 1 \in Int /\ e - 1 \in Int /\ 1 <= m + 1 /\ e - 1 <= Len(t)
      BY <2>1, <2>4, <2>7
    <3>2. QED
      BY <2>9, <3>1, SubSeqIs
  <2>11. \A i \in 1 .. Len(v) : v[i] # NL
    <3>1. TAKE i \in 1 .. Len(v)
    <3>2. i \in 1 .. e - 1 - (m + 1) + 1 /\ m + 1 + i - 1 \in m + 1 .. e - 1
      BY <2>4, <2>7, <2>10
    <3>3. QED
      BY <2>8, <2>10, <3>2
  <2>12. IsValue(v)
    BY <2>10, <2>11 DEF IsValue
  <2>13. QED
    BY <1>2, <2>3, <2>5, <2>9, <2>12 DEF ValueAt
<1>3. QED
  BY <1>1, <1>2
-----------------------------------------------------------------------------
(* Lines with keywords: t is made of whole lines, which give f, key by key *)

HoldsLines(t, f) ==
  /\ IsSeq(t)
  /\ t = <<>> \/ t[Len(t)] = NL
  /\ \A i \in LineStarts(t) :
       t[i] \in DOMAIN f /\ f[t[i]] = SubSeq(t, i + 1, LineEnd(t, i) - 1)
  /\ \A k \in DOMAIN f : \E i \in LineStarts(t) : t[i] = k

LEMMA LineStartsIs ==
  ASSUME NEW t, IsSeq(t), NEW i
  PROVE  i \in LineStarts(t) <=> i \in 1 .. Len(t) /\ (i = 1 \/ t[i - 1] = NL)
BY SeqShape DEF LineStarts

LEMMA NoLines ==
  ASSUME NEW f, DOMAIN f = {}
  PROVE  HoldsLines(<<>>, f)
<1>1. LineStarts(<<>>) = {}
  BY EmptyIs, LineStartsIs
<1>2. QED
  BY <1>1, EmptyIs DEF HoldsLines

(* A file of whole lines and one more line, letter by letter. *)
IsLine(l, k, v) == /\ IsSeq(l) /\ Len(l) = Len(v) + 2
                   /\ l[1] = k /\ l[Len(v) + 2] = NL
                   /\ \A j \in 1 .. Len(v) : l[j + 1] = v[j]

Appended(t, l) == t \o l

LEMMA LineIs ==
  ASSUME NEW k, NEW v, IsSeq(v)
  PROVE  IsLine(<<k>> \o v \o <<NL>>, k, v)
<1>1. PICK n \in Nat : n = Len(v)
  BY SeqShape
<1>2. PICK a : a = <<k>> \o v
  OBVIOUS
<1>3. /\ IsSeq(a) /\ Len(a) = 1 + n
      /\ \A i \in 1 .. 1 : a[i] = <<k>>[i]
      /\ \A i \in 1 + 1 .. 1 + n : a[i] = v[i - 1]
  BY <1>1, <1>2, OneIs, ConcatIs
<1>4. PICK l : l = a \o <<NL>>
  OBVIOUS
<1>5. /\ IsSeq(l) /\ Len(l) = 1 + n + 1
      /\ \A i \in 1 .. 1 + n : l[i] = a[i]
      /\ \A i \in 1 + n + 1 .. 1 + n + 1 : l[i] = <<NL>>[i - (1 + n)]
  BY <1>3, <1>4, OneIs, ConcatIs
<1>6. l[1] = k
  <2>1. 1 \in 1 .. 1 + n /\ 1 \in 1 .. 1
    OBVIOUS
  <2>2. QED
    BY <1>3, <1>5, <2>1, OneIs
<1>7. l[n + 2] = NL
  <2>1. n + 2 \in 1 + n + 1 .. 1 + n + 1 /\ n + 2 - (1 + n) = 1
    OBVIOUS
  <2>2. QED
    BY <1>5, <2>1, OneIs
<1>8. \A j \in 1 .. n : l[j + 1] = v[j]
  <2>1. TAKE j \in 1 .. n
  <2>2. j + 1 \in 1 .. 1 + n /\ j + 1 \in 1 + 1 .. 1 + n /\ j + 1 - 1 = j
    OBVIOUS
  <2>3. l[j + 1] = a[j + 1] /\ a[j + 1] = v[j + 1 - 1]
    BY <1>3, <1>5, <2>2
  <2>4. QED
    BY <2>2, <2>3
<1>9. QED
  BY <1>1, <1>2, <1>4, <1>5, <1>6, <1>7, <1>8 DEF IsLine

(* What is read of a file of whole lines does not change when a line is put *)
(* behind them, and the line gives its value.                               *)
LEMMA OneMoreLine ==
  ASSUME NEW t, NEW f, HoldsLines(t, f), NEW k, k # NL, NEW v, IsValue(v),
         NEW g, DOMAIN g = DOMAIN f \cup {k}, g[k] = v, \A x \in DOMAIN f : g[x] = f[x],
         NEW l, IsLine(l, k, v), NEW u, u = Appended(t, l)
  PROVE  HoldsLines(u, g)
<1>1. PICK n \in Nat, m \in Nat : n = Len(t) /\ m = Len(v)
  BY SeqShape DEF HoldsLines, IsValue
<1>2. IsSeq(t)
  BY DEF HoldsLines
<1>3. IsSeq(l) /\ Len(l) = m + 2
  BY <1>1 DEF IsLine
<1>4. /\ IsSeq(u) /\ Len(u) = n + (m + 2)
      /\ \A i \in 1 .. n : u[i] = t[i]
      /\ \A i \in n + 1 .. n + (m + 2) : u[i] = l[i - n]
  <2>1. /\ IsSeq(t \o l)
        /\ Len(t \o l) = Len(t) + Len(l)
        /\ \A i \in 1 .. Len(t) : (t \o l)[i] = t[i]
        /\ \A i \in Len(t) + 1 .. Len(t) + Len(l) : (t \o l)[i] = l[i - Len(t)]
    BY <1>2, <1>3, ConcatIs
  <2>2. QED
    BY <1>1, <1>3, <2>1 DEF Appended
<1>5. u[n + 1] = k
  <2>1. n + 1 \in n + 1 .. n + (m + 2) /\ n + 1 - n = 1
    OBVIOUS
  <2>2. QED
    BY <1>4, <2>1 DEF IsLine
<1>6. \A j \in 1 .. m : u[n + 1 + j] = v[j] /\ v[j] # NL
  <2>1. TAKE j \in 1 .. m
  <2>2. n + 1 + j \in n + 1 .. n + (m + 2) /\ n + 1 + j - n = j + 1
    OBVIOUS
  <2>3. u[n + 1 + j] = l[j + 1]
    BY <1>4, <2>2
  <2>4. QED
    BY <1>1, <2>3 DEF IsLine, IsValue
<1>7. u[n + m + 2] = NL
  <2>1. n + m + 2 \in n + 1 .. n + (m + 2) /\ n + m + 2 - n = m + 2
    OBVIOUS
  <2>2. QED
    BY <1>1, <1>4, <2>1 DEF IsLine
<1>8. ASSUME NEW i \in LineStarts(t)
      PROVE  /\ i \in 1 .. n /\ i \in LineStarts(u) /\ u[i] = t[i]
             /\ SubSeq(u, i + 1, LineEnd(u, i) - 1) = SubSeq(t, i + 1, LineEnd(t, i) - 1)
  <2>1. i \in 1 .. n /\ (i = 1 \/ t[i - 1] = NL)
    BY <1>1, LineStartsIs DEF HoldsLines
  <2>2. i \in 1 .. n + (m + 2) /\ (i = 1 \/ i - 1 \in 1 .. n)
    BY <2>1
  <2>3. i \in LineStarts(u)
    BY <1>4, <2>1, <2>2, LineStartsIs
  <2>4. PICK e : e = LineEnd(t, i)
    OBVIOUS
  <2>5. IsLineEnd(t, i, e)
    <3>1. i \in 1 .. Len(t) + 1
      BY <1>1, <2>1
    <3>2. QED
      BY <2>4, <3>1, LineEndExists DEF HoldsLines
  <2>6. e \in i .. n
    <3>1. e \in i .. n + 1
      BY <1>1, <2>5 DEF IsLineEnd
    <3>2. e # n + 1
      <4>1. SUFFICES ASSUME e = n + 1 PROVE FALSE
        OBVIOUS
      <4>2. n \in i .. e - 1
        BY <2>1, <4>1
      <4>3. t[n] # NL
        BY <2>5, <4>2 DEF IsLineEnd
      <4>4. t # <<>>
        BY <1>1, <2>1, EmptyIs
      <4>5. QED
        BY <1>1, <4>3, <4>4 DEF HoldsLines
    <3>3. QED
      BY <2>1, <3>1, <3>2
  <2>7. IsLineEnd(u, i, e)
    <3>1. e \in i .. Len(u) + 1
      BY <1>4, <2>1, <2>6
    <3>2. e \in 1 .. n /\ t[e] = NL
      BY <1>1, <2>1, <2>5, <2>6 DEF IsLineEnd
    <3>3. \A j \in i .. e - 1 : j \in 1 .. n
      BY <2>1, <2>6
    <3>4. QED
      BY <1>4, <2>5, <3>1, <3>2, <3>3 DEF IsLineEnd
  <2>8. LineEnd(u, i) = e
    <3>1. i \in 1 .. Len(u) + 1
      BY <1>4, <2>1
    <3>2. QED
      BY <1>4, <2>7, <3>1, LineEndUnique
  <2>9. SubSeq(u, i + 1, e - 1) = SubSeq(t, i + 1, e - 1)
    <3>1. /\ i + 1 \in Int /\ e - 1 \in Int /\ 1 <= i + 1
          /\ e - 1 <= Len(t) /\ e - 1 <= Len(u)
      BY <1>1, <1>4, <2>1, <2>6
    <3>2. PICK w : w = SubSeq(u, i + 1, e - 1)
      OBVIOUS
    <3>3. /\ IsSeq(w)
          /\ Len(w) = IF i + 1 <= e - 1 THEN e - 1 - (i + 1) + 1 ELSE 0
          /\ \A j \in 1 .. e - 1 - (i + 1) + 1 : w[j] = u[i + 1 + j - 1]
      BY <1>4, <3>1, <3>2, SubSeqIs
    <3>4. PICK x : x = SubSeq(t, i + 1, e - 1)
      OBVIOUS
    <3>5. /\ IsSeq(x)
          /\ Len(x) = IF i + 1 <= e - 1 THEN e - 1 - (i + 1) + 1 ELSE 0
          /\ \A j \in 1 .. e - 1 - (i + 1) + 1 : x[j] = t[i + 1 + j - 1]
      BY <1>2, <3>1, <3>4, SubSeqIs
    <3>6. \A j \in 1 .. Len(w) : w[j] = x[j]
      <4>1. TAKE j \in 1 .. Len(w)
      <4>2. j \in 1 .. e - 1 - (i + 1) + 1 /\ i + 1 + j - 1 \in 1 .. n
        BY <2>1, <2>6, <3>3
      <4>3. QED
        BY <1>4, <3>3, <3>5, <4>2
    <3>7. w = x
      BY <3>3, <3>5, <3>6, SeqSame
    <3>8. QED
      BY <3>2, <3>4, <3>7
  <2>10. QED
    BY <1>4, <2>1, <2>3, <2>4, <2>8, <2>9
<1>9. /\ n + 1 \in LineStarts(u)
       /\ SubSeq(u, n + 1 + 1, LineEnd(u, n + 1) - 1) = v
  <2>1. n + 1 = 1 \/ u[n + 1 - 1] = NL
    <3>1. CASE t = <<>>
      BY <1>1, <3>1, EmptyIs
    <3>2. CASE t # <<>> /\ t[n] = NL
      <4>1. n # 0
        BY <1>1, <3>2, LengthZero DEF HoldsLines
      <4>2. n \in 1 .. n /\ n + 1 - 1 = n
        BY <4>1
      <4>3. QED
        BY <1>4, <3>2, <4>2
    <3>3. QED
      BY <1>1, <3>1, <3>2 DEF HoldsLines
  <2>2. n + 1 \in 1 .. n + (m + 2)
    OBVIOUS
  <2>3. n + 1 \in LineStarts(u)
    BY <1>4, <2>1, <2>2, LineStartsIs
  <2>4. PICK e : e = n + m + 2
    OBVIOUS
  <2>5. IsLineEnd(u, n + 1, e)
    <3>1. e \in n + 1 .. Len(u) + 1
      BY <1>4, <2>4
    <3>2. \A j \in n + 1 .. e - 1 : u[j] # NL
      <4>1. TAKE j \in n + 1 .. e - 1
      <4>2. j = n + 1 \/ (j - (n + 1) \in 1 .. m /\ n + 1 + (j - (n + 1)) = j)
        BY <2>4
      <4>3. CASE j = n + 1
        BY <1>5, <4>3
      <4>4. CASE j - (n + 1) \in 1 .. m /\ n + 1 + (j - (n + 1)) = j
        <5>1. PICK x \in 1 .. m : n + 1 + x = j
          BY <4>4
        <5>2. QED
          BY <1>6, <5>1
      <4>5. QED
        BY <4>2, <4>3, <4>4
    <3>3. QED
      BY <1>7, <2>4, <3>1, <3>2 DEF IsLineEnd
  <2>6. LineEnd(u, n + 1) = e
    <3>1. n + 1 \in 1 .. Len(u) + 1
      BY <1>4
    <3>2. QED
      BY <1>4, <2>5, <3>1, LineEndUnique
  <2>7. SubSeq(u, n + 1 + 1, e - 1) = v
    <3>1. n + 1 + 1 \in Int /\ e - 1 \in Int /\ 1 <= n + 1 + 1 /\ e - 1 <= Len(u)
      BY <1>4, <2>4
    <3>2. PICK w : w = SubSeq(u, n + 1 + 1, e - 1)
      OBVIOUS
    <3>3. /\ IsSeq(w)
          /\ Len(w) = IF n + 1 + 1 <= e - 1 THEN e - 1 - (n + 1 + 1) + 1 ELSE 0
          /\ \A j \in 1 .. e - 1 - (n + 1 + 1) + 1 : w[j] = u[n + 1 + 1 + j - 1]
      BY <1>4, <3>1, <3>2, SubSeqIs
    <3>4. Len(w) = m
      BY <2>4, <3>3
    <3>5. \A j \in 1 .. m : w[j] = v[j]
      <4>1. TAKE j \in 1 .. m
      <4>2. j \in 1 .. e - 1 - (n + 1 + 1) + 1 /\ n + 1 + 1 + j - 1 = n + 1 + j
        BY <2>4
      <4>3. w[j] = u[n + 1 + j]
        BY <3>3, <4>2
      <4>4. QED
        BY <1>6, <4>3
    <3>6. w = v
      BY <1>1, <3>3, <3>4, <3>5, SeqSame DEF IsValue
    <3>7. QED
      BY <3>2, <3>6
  <2>8. QED
    BY <2>3, <2>6, <2>7
<1>10. ASSUME NEW i \in LineStarts(u) PROVE i \in LineStarts(t) \/ i = n + 1
  <2>1. i \in 1 .. n + (m + 2) /\ (i = 1 \/ u[i - 1] = NL)
    BY <1>4, LineStartsIs
  <2>2. CASE i <= n
    <3>1. i \in 1 .. n /\ (i = 1 \/ i - 1 \in 1 .. n)
      BY <2>1, <2>2
    <3>2. i = 1 \/ t[i - 1] = NL
      BY <1>4, <2>1, <3>1
    <3>3. QED
      BY <1>1, <3>1, <3>2, LineStartsIs DEF HoldsLines
  <2>3. CASE i > n + 1
    <3>1. i - 1 = n + 1 \/ i - 1 - (n + 1) \in 1 .. m
      BY <2>1, <2>3
    <3>2. u[i - 1] # NL
      <4>1. CASE i - 1 = n + 1
        BY <1>5, <4>1
      <4>2. CASE i - 1 - (n + 1) \in 1 .. m
        <5>1. PICK x \in 1 .. m : n + 1 + x = i - 1
          <6>1. n + 1 + (i - 1 - (n + 1)) = i - 1
            BY <2>1
          <6>2. QED
            BY <4>2, <6>1
        <5>2. QED
          BY <1>6, <5>1
      <4>3. QED
        BY <3>1, <4>1, <4>2
    <3>3. i # 1
      BY <2>3
    <3>4. QED
      BY <2>1, <3>2, <3>3
  <2>4. QED
    BY <2>1, <2>2, <2>3
<1>11. \A i \in LineStarts(u) :
         u[i] \in DOMAIN g /\ g[u[i]] = SubSeq(u, i + 1, LineEnd(u, i) - 1)
  <2>1. TAKE i \in LineStarts(u)
  <2>2. CASE i \in LineStarts(t)
    <3>1. PICK x : x = t[i]
      OBVIOUS
    <3>2. x \in DOMAIN f /\ f[x] = SubSeq(t, i + 1, LineEnd(t, i) - 1)
      BY <2>2, <3>1 DEF HoldsLines
    <3>3. x \in DOMAIN g /\ g[x] = f[x]
      BY <3>2
    <3>4. u[i] = x /\ SubSeq(u, i + 1, LineEnd(u, i) - 1) = SubSeq(t, i + 1, LineEnd(t, i) - 1)
      BY <1>8, <2>2, <3>1
    <3>5. QED
      BY <3>2, <3>3, <3>4
  <2>3. CASE i = n + 1
    BY <1>5, <1>9, <2>3
  <2>4. i \in LineStarts(t) \/ i = n + 1
    BY <1>10
  <2>5. QED
    BY <2>2, <2>3, <2>4
<1>12. \A x \in DOMAIN g : \E i \in LineStarts(u) : u[i] = x
  <2>1. TAKE x \in DOMAIN g
  <2>2. CASE x \in DOMAIN f
    <3>1. PICK i \in LineStarts(t) : t[i] = x
      BY <2>2 DEF HoldsLines
    <3>2. QED
      BY <1>8, <3>1
  <2>3. CASE x = k
    BY <1>5, <1>9, <2>3
  <2>4. QED
    BY <2>2, <2>3
<1>13. u[Len(u)] = NL
  BY <1>4, <1>7
<1>14. QED
  BY <1>4, <1>11, <1>12, <1>13 DEF HoldsLines
(* Every line of the file is whole, and the menus know its keyword. *)
LEMMA LinesAreWhole ==
  ASSUME NEW t, NEW f, HoldsLines(t, f)
  PROVE  /\ WholeLines(t) = LineStarts(t)
         /\ \A keys : DOMAIN f \subseteq keys => Readable(t, keys)
<1>1. IsSeq(t)
  BY DEF HoldsLines
<1>2. PICK n \in Nat : n = Len(t)
  BY <1>1, SeqShape
<1>3. ASSUME NEW i \in LineStarts(t) PROVE \E j \in i .. Len(t) : t[j] = NL
  <2>1. i \in 1 .. n
    BY <1>1, <1>2, <1>3, LineStartsIs
  <2>2. n \in i .. n /\ n # 0
    BY <2>1
  <2>3. t # <<>>
    BY <1>2, <2>2, EmptyIs
  <2>4. t[n] = NL
    BY <1>2, <2>3 DEF HoldsLines
  <2>5. QED
    BY <1>2, <2>2, <2>4
<1>4. WholeLines(t) = LineStarts(t)
  BY <1>3 DEF WholeLines
<1>5. QED
  BY <1>4 DEF Readable, HoldsLines

(* The reader finds the value of every keyword. *)
LEMMA ValueFound ==
  ASSUME NEW t, NEW f, HoldsLines(t, f), NEW k, NEW default
  PROVE  ValueAt(t, LineStarts(t), k, default) = IF k \in DOMAIN f THEN f[k] ELSE default
<1> DEFINE at == {i \in LineStarts(t) : t[i] = k}
<1>1. CASE k \in DOMAIN f
  <2>1. at # {}
    BY <1>1 DEF HoldsLines
  <2>2. IsSeq(t)
    BY DEF HoldsLines
  <2>3. Len(t) \in Nat /\ \A i \in at : i \in 0 .. Len(t)
    <3>1. Len(t) \in Nat
      BY <2>2, SeqShape
    <3>2. \A i \in at : i \in 1 .. Len(t)
      BY <2>2, LineStartsIs
    <3>3. QED
      BY <3>1, <3>2
  <2>4. PICK m : m = Max(at)
    OBVIOUS
  <2>5. m \in at
    BY <2>1, <2>3, <2>4, Greatest
  <2>6. f[k] = SubSeq(t, m + 1, LineEnd(t, m) - 1)
    BY <2>5 DEF HoldsLines
  <2>7. QED
    BY <1>1, <2>1, <2>4, <2>6 DEF ValueAt
<1>2. CASE k \notin DOMAIN f
  <2>1. at = {}
    BY <1>2 DEF HoldsLines
  <2>2. QED
    BY <1>2, <2>1 DEF ValueAt
<1>3. QED
  BY <1>1, <1>2

-----------------------------------------------------------------------------
(* Lists of lines *)

IsFlatten(g, seqs, n) ==
  /\ DOMAIN g = 1 .. n
  /\ \A i \in 1 .. n : g[i] = IF i = 1 THEN seqs[i] ELSE g[i - 1] \o seqs[i]

(* FlattenSeq is defined by a recursion that has a solution. *)
LEMMA FlattenExists ==
  ASSUME NEW seqs, NEW n \in Nat
  PROVE  \E g : IsFlatten(g, seqs, n)
<1> DEFINE T == {x \in Nat : ~ \E g : IsFlatten(g, seqs, x)}
<1>1. SUFFICES ASSUME T # {} PROVE FALSE
  OBVIOUS
<1>2. PICK x \in T : \A y \in T : x <= y
  BY <1>1, Least
<1>3. CASE x = 0
  <2>1. PICK g : g = [i \in 1 .. 0 |-> i]
    OBVIOUS
  <2>2. IsFlatten(g, seqs, 0)
    BY <2>1 DEF IsFlatten
  <2>3. QED
    BY <1>3, <2>2
<1>4. CASE x # 0
  <2>1. PICK y \in Nat : x = y + 1
    <3>1. x \in Nat
      OBVIOUS
    <3>2. x - 1 \in Nat /\ x = (x - 1) + 1
      BY <1>4, <3>1
    <3>3. QED
      BY <3>2
  <2>2. y \notin T
    BY <1>2, <2>1
  <2>3. PICK g : IsFlatten(g, seqs, y)
    BY <2>2
  <2>4. PICK h : h = [i \in 1 .. x |-> IF i \in 1 .. y THEN g[i]
                                       ELSE IF i = 1 THEN seqs[i] ELSE g[i - 1] \o seqs[i]]
    OBVIOUS
  <2>5. \A i \in 1 .. x : h[i] = IF i = 1 THEN seqs[i] ELSE h[i - 1] \o seqs[i]
    <3>1. TAKE i \in 1 .. x
    <3>2. i # 1 => i - 1 \in 1 .. y /\ i - 1 \in 1 .. x
      BY <2>1
    <3>3. i # 1 => h[i - 1] = g[i - 1]
      BY <2>4, <3>2
    <3>4. i \in 1 .. y => h[i] = g[i]
      BY <2>4
    <3>5. i \notin 1 .. y => h[i] = IF i = 1 THEN seqs[i] ELSE g[i - 1] \o seqs[i]
      BY <2>4
    <3>6. i \in 1 .. y => g[i] = IF i = 1 THEN seqs[i] ELSE g[i - 1] \o seqs[i]
      BY <2>3 DEF IsFlatten
    <3>7. QED
      BY <3>3, <3>4, <3>5, <3>6
  <2>6. IsFlatten(h, seqs, x)
    BY <2>4, <2>5 DEF IsFlatten
  <2>7. QED
    BY <2>6
<1>5. QED
  BY <1>3, <1>4

LEMMA FlattenIs ==
  ASSUME NEW seqs, IsSeq(seqs), Len(seqs) # 0
  PROVE  \E g : IsFlatten(g, seqs, Len(seqs)) /\ FlattenSeq(seqs) = g[Len(seqs)]
<1>1. PICK n \in Nat : n = Len(seqs)
  BY SeqShape
<1> DEFINE Solves(g) == g = [i \in 1 .. n |-> IF i = 1 THEN seqs[i] ELSE g[i - 1] \o seqs[i]]
<1>2. PICK g : IsFlatten(g, seqs, n)
  BY FlattenExists
<1>3. PICK h : h = [i \in 1 .. n |-> g[i]]
  OBVIOUS
<1>4. Solves(h)
  <2>1. \A i \in 1 .. n : h[i] = IF i = 1 THEN seqs[i] ELSE h[i - 1] \o seqs[i]
    <3>1. TAKE i \in 1 .. n
    <3>2. i # 1 => i - 1 \in 1 .. n
      OBVIOUS
    <3>3. QED
      BY <1>2, <1>3, <3>2 DEF IsFlatten
  <2>2. QED
    BY <1>3, <2>1
<1>5. PICK c : c = CHOOSE f : Solves(f)
  OBVIOUS
<1>6. Solves(c)
  BY <1>4, <1>5
<1>7. IsFlatten(c, seqs, n)
  BY <1>6 DEF IsFlatten
<1>8. FlattenSeq(seqs) = c[n]
  BY <1>1, <1>5 DEF FlattenSeq
<1>9. QED
  BY <1>1, <1>7, <1>8
-----------------------------------------------------------------------------
(* What a writer puts together *)

Sent(form, k) == IF k \in DOMAIN form THEN form[k] ELSE <<>>

SentKeys(keys, n, form) == [k \in {keys[i] : i \in 1 .. n} |-> Sent(form, k)]

LEMMA NoValue == IsValue(<<>>)
BY EmptyIs DEF IsValue

LEMMA FirstLine ==
  ASSUME NEW k, k # NL, NEW v, IsValue(v), NEW g, DOMAIN g = {k}, g[k] = v
  PROVE  HoldsLines(<<k>> \o v \o <<NL>>, g)
<1>1. PICK l : l = <<k>> \o v \o <<NL>>
  OBVIOUS
<1>2. PICK f : f = [x \in {} |-> x]
  OBVIOUS
<1>3. DOMAIN f = {}
  BY <1>2
<1>4. HoldsLines(<<>>, f)
  BY <1>3, NoLines
<1>5. DOMAIN g = DOMAIN f \cup {k} /\ \A x \in DOMAIN f : g[x] = f[x]
  BY <1>3
<1>6. IsLine(l, k, v)
  BY <1>1, LineIs DEF IsValue
<1>7. l = Appended(<<>>, l)
  BY <1>6, ConcatEmptySeq DEF IsLine, IsSeq, Appended
<1>8. QED
  BY <1>1, <1>4, <1>5, <1>6, <1>7, OneMoreLine

LEMMA OutConfigsHolds ==
  ASSUME NEW keys, IsSeq(keys), Len(keys) # 0, \A i \in 1 .. Len(keys) : keys[i] # NL,
         NEW form, \A k \in DOMAIN form : IsValue(form[k])
  PROVE  HoldsLines(OutConfigs(keys, form), [k \in ToSet(keys) |-> Sent(form, k)])
<1>1. PICK n \in Nat : n = Len(keys)
  BY SeqShape
<1>2. DOMAIN keys = 1 .. n
  BY <1>1, SeqShape
<1>3. PICK seqs : seqs = [i \in DOMAIN keys |-> OutConfig(keys[i], form)]
  OBVIOUS
<1>4. IsSeq(seqs) /\ Len(seqs) = n
  BY <1>2, <1>3, FunctionIsSeq DEF IsTuple
<1>5. PICK g : IsFlatten(g, seqs, n) /\ FlattenSeq(seqs) = g[n]
  <2>1. Len(seqs) # 0
    BY <1>1, <1>4
  <2>2. \E g : IsFlatten(g, seqs, Len(seqs)) /\ FlattenSeq(seqs) = g[Len(seqs)]
    BY <1>4, <2>1, FlattenIs
  <2>3. QED
    BY <1>4, <2>2
<1>6. \A i \in 1 .. n : seqs[i] = <<keys[i]>> \o Sent(form, keys[i]) \o <<NL>>
  BY <1>2, <1>3 DEF OutConfig, Sent
<1>7. \A k : IsValue(Sent(form, k))
  BY NoValue DEF Sent
<1> DEFINE T == {x \in Nat : x \in 1 .. n /\ ~ HoldsLines(g[x], SentKeys(keys, x, form))}
<1>8. T = {}
  <2>1. SUFFICES ASSUME T # {} PROVE FALSE
    OBVIOUS
  <2>2. PICK x \in T : \A y \in T : x <= y
    BY <2>1, Least
  <2>3. x \in 1 .. n /\ ~ HoldsLines(g[x], SentKeys(keys, x, form))
    OBVIOUS
  <2>4. keys[x] # NL
    BY <1>1, <2>3
  <2>5. PICK f : f = SentKeys(keys, x, form)
    OBVIOUS
  <2>6. DOMAIN f = {keys[i] : i \in 1 .. x} /\ \A k \in DOMAIN f : f[k] = Sent(form, k)
    BY <2>5 DEF SentKeys
  <2>7. f[keys[x]] = Sent(form, keys[x])
    BY <2>3, <2>6
  <2>8. CASE x = 1
    <3>1. g[x] = <<keys[x]>> \o Sent(form, keys[x]) \o <<NL>>
      BY <1>5, <1>6, <2>3, <2>8 DEF IsFlatten
    <3>2. DOMAIN f = {keys[x]}
      BY <2>6, <2>8
    <3>3. HoldsLines(g[x], f)
      BY <1>7, <2>4, <2>7, <3>1, <3>2, FirstLine
    <3>4. QED
      BY <2>3, <2>5, <3>3
  <2>9. CASE x # 1
    <3>1. PICK y \in Nat : x = y + 1 /\ y \in 1 .. n
      <4>1. x - 1 \in Nat /\ x = (x - 1) + 1 /\ x - 1 \in 1 .. n
        BY <2>3, <2>9
      <4>2. QED
        BY <4>1
    <3>2. y \notin T
      BY <2>2, <3>1
    <3>3. HoldsLines(g[y], SentKeys(keys, y, form))
      BY <3>1, <3>2
    <3>4. PICK e : e = SentKeys(keys, y, form)
      OBVIOUS
    <3>5. DOMAIN e = {keys[i] : i \in 1 .. y} /\ \A k \in DOMAIN e : e[k] = Sent(form, k)
      BY <3>4 DEF SentKeys
    <3>6. \A i : i \in 1 .. x <=> i \in 1 .. y \/ i = x
      BY <3>1
    <3>7. DOMAIN f = DOMAIN e \cup {keys[x]}
      BY <2>6, <3>5, <3>6
    <3>8. \A k \in DOMAIN e : f[k] = e[k]
      BY <2>6, <3>5, <3>7
    <3>9. g[x] = g[y] \o seqs[x]
      <4>1. x - 1 = y
        BY <3>1
      <4>2. g[x] = g[x - 1] \o seqs[x]
        BY <1>5, <2>3, <2>9 DEF IsFlatten
      <4>3. QED
        BY <4>1, <4>2
    <3>10. IsLine(seqs[x], keys[x], Sent(form, keys[x]))
      BY <1>6, <1>7, <2>3, LineIs DEF IsValue
    <3>11. HoldsLines(g[x], f)
      <4>1. PICK k, v, l, t, u : /\ k = keys[x] /\ v = Sent(form, keys[x])
                                 /\ l = seqs[x] /\ t = g[y] /\ u = g[x]
        OBVIOUS
      <4>2. /\ HoldsLines(t, e) /\ k # NL /\ IsValue(v) /\ IsLine(l, k, v)
            /\ DOMAIN f = DOMAIN e \cup {k} /\ f[k] = v /\ u = Appended(t, l)
        BY <1>7, <2>4, <2>7, <3>3, <3>4, <3>7, <3>9, <3>10, <4>1 DEF Appended
      <4>3. HoldsLines(u, f)
        BY <3>8, <4>2, OneMoreLine
      <4>4. QED
        BY <4>1, <4>3
    <3>12. QED
      BY <2>3, <2>5, <3>11
  <2>10. QED
    BY <2>8, <2>9
<1>9. HoldsLines(g[n], SentKeys(keys, n, form))
  <2>1. n \in 1 .. n
    BY <1>1
  <2>2. QED
    BY <1>8, <2>1
<1>10. SentKeys(keys, n, form) = [k \in ToSet(keys) |-> Sent(form, k)]
  BY <1>2 DEF SentKeys, ToSet
<1>11. OutConfigs(keys, form) = g[n]
  BY <1>3, <1>5 DEF OutConfigs
<1>12. QED
  BY <1>9, <1>10, <1>11
-----------------------------------------------------------------------------
(* The keywords of the pages *)

IsKeys(keys, K) == /\ IsSeq(keys) /\ Len(keys) # 0 /\ ToSet(keys) = K
                   /\ \A i \in 1 .. Len(keys) : keys[i] # NL

LEMMA KeysAre ==
  ASSUME NEW n \in Nat \ {0}, NEW keys, NEW K, IsTuple(keys, n), ToSet(keys) = K,
         \A i \in 1 .. n : keys[i] # NL
  PROVE  IsKeys(keys, K)
BY FunctionIsSeq DEF IsKeys

LEMMA WlanKeysAre == IsKeys(WlanKeys, DOMAIN WlanDefaults)
<1>1. IsTuple(WlanKeys, 9)
  BY DEF WlanKeys, IsTuple
<1>2. \A i \in 1 .. 9 : WlanKeys[i] # NL
  BY DEF WlanKeys, NL
<1>3. ToSet(WlanKeys) = DOMAIN WlanDefaults
  BY DEF WlanDefaults
<1>4. QED
  BY <1>1, <1>2, <1>3, KeysAre

LEMMA UdhcpdKeysAre == IsKeys(UdhcpdKeys, DOMAIN UdhcpdDefaults)
<1>1. IsTuple(UdhcpdKeys, 10)
  BY DEF UdhcpdKeys, IsTuple
<1>2. \A i \in 1 .. 10 : UdhcpdKeys[i] # NL
  BY DEF UdhcpdKeys, NL
<1>3. ToSet(UdhcpdKeys) = DOMAIN UdhcpdDefaults
  BY DEF UdhcpdDefaults
<1>4. QED
  BY <1>1, <1>2, <1>3, KeysAre

LEMMA KaodvKeysAre == IsKeys(KaodvKeys, DOMAIN KaodvDefaults)
<1>1. IsTuple(KaodvKeys, 8)
  BY DEF KaodvKeys, IsTuple
<1>2. \A i \in 1 .. 8 : KaodvKeys[i] # NL
  BY DEF KaodvKeys, NL
<1>3. ToSet(KaodvKeys) = DOMAIN KaodvDefaults
  BY DEF KaodvDefaults
<1>4. QED
  BY <1>1, <1>2, <1>3, KeysAre

LEMMA CipeKeysAre ==
  IsKeys(CipeKeys, {"ipaddr", "ptpaddr", "peer", "cttl", "dynip", "ping", "maxerr", "mtu",
                    "key"})
<1>1. IsTuple(CipeKeys, 9)
  BY DEF CipeKeys, IsTuple
<1>2. \A i \in 1 .. 9 : CipeKeys[i] # NL
  BY DEF CipeKeys, NL
<1>3. ToSet(CipeKeys) = {"ipaddr", "ptpaddr", "peer", "cttl", "dynip", "ping", "maxerr",
                         "mtu", "key"}
  BY <1>1 DEF CipeKeys, ToSet, IsTuple
<1>4. QED
  BY <1>1, <1>2, <1>3, KeysAre

LEMMA NetworkKeysAre == IsKeys(NetworkKeys, DOMAIN NetworkDefaults)
<1>1. IsTuple(NetworkKeys, 17)
  BY DEF NetworkKeys, IsTuple
<1>2. \A i \in 1 .. 17 : NetworkKeys[i] # NL
  BY DEF NetworkKeys, NL
<1>3. ToSet(NetworkKeys) = DOMAIN NetworkDefaults
  BY <1>1 DEF NetworkKeys, NetworkDefaults, ToSet, IsTuple
<1>4. QED
  BY <1>1, <1>2, <1>3, KeysAre
-----------------------------------------------------------------------------
(* Options and defaults *)

LEMMA OneValue ==
  ASSUME NEW x, x # NL
  PROVE  IsValue(<<x>>)
BY OneIs DEF IsValue

IsOptions(options) == /\ options[1] \in ToSet(options)
                      /\ \A o \in ToSet(options) : IsValue(o)

LEMMA OptionListIs ==
  ASSUME NEW n \in Nat \ {0}, NEW names, IsTuple(names, n), \A i \in 1 .. n : names[i] # NL
  PROVE  IsOptions(OptionList(names))
<1>1. PICK os : os = OptionList(names)
  OBVIOUS
<1>2. DOMAIN os = 1 .. n /\ \A i \in 1 .. n : os[i] = <<names[i]>>
  BY <1>1 DEF OptionList, IsTuple
<1>3. 1 \in 1 .. n
  OBVIOUS
<1>4. os[1] \in ToSet(os)
  BY <1>2, <1>3 DEF ToSet
<1>5. \A o \in ToSet(os) : \E i \in 1 .. n : o = <<names[i]>>
  BY <1>2 DEF ToSet
<1>6. QED
  BY <1>1, <1>4, <1>5, OneValue DEF IsOptions

LEMMA SelIs ==
  ASSUME NEW v, NEW options, IsOptions(options)
  PROVE  /\ Sel(v, options) \in ToSet(options) /\ IsValue(Sel(v, options))
         /\ v \in ToSet(options) => Sel(v, options) = v
BY DEF Sel, IsOptions

LEMMA EnabledDisabledIs == IsOptions(EnabledDisabled)
<1>1. IsTuple(<<"enabled", "disabled">>, 2)
  BY DEF IsTuple
<1>2. \A i \in 1 .. 2 : <<"enabled", "disabled">>[i] # NL
  BY DEF NL
<1>3. QED
  BY <1>1, <1>2, OptionListIs DEF EnabledDisabled

Levels == OptionList(<<"2", "3", "4">>)

LEMMA LevelsAre == IsOptions(Levels)
<1>1. IsTuple(<<"2", "3", "4">>, 3)
  BY DEF IsTuple
<1>2. \A i \in 1 .. 3 : <<"2", "3", "4">>[i] # NL
  BY DEF NL
<1>3. QED
  BY <1>1, <1>2, OptionListIs DEF Levels

IsChoices(choices) == \A k \in DOMAIN choices : IsOptions(choices[k])

LEMMA NetworkChoicesAre ==
  IsChoices(NetworkChoices) /\ DOMAIN NetworkChoices \subseteq DOMAIN NetworkDefaults
BY EnabledDisabledIs DEF IsChoices, NetworkChoices, NetworkDefaults

LEMMA UdhcpdChoicesAre ==
  IsChoices(UdhcpdChoices) /\ DOMAIN UdhcpdChoices \subseteq DOMAIN UdhcpdDefaults
<1>1. IsOptions(OptionList(<<"yes", "no">>))
  <2>1. IsTuple(<<"yes", "no">>, 2)
    BY DEF IsTuple
  <2>2. \A i \in 1 .. 2 : <<"yes", "no">>[i] # NL
    BY DEF NL
  <2>3. QED
    BY <2>1, <2>2, OptionListIs
<1>2. IsOptions(OptionList(<<"eth0", "eth1", "wlan0">>))
  <2>1. IsTuple(<<"eth0", "eth1", "wlan0">>, 3)
    BY DEF IsTuple
  <2>2. \A i \in 1 .. 3 : <<"eth0", "eth1", "wlan0">>[i] # NL
    BY DEF NL
  <2>3. QED
    BY <2>1, <2>2, OptionListIs
<1>3. "enable" \in ToSet(UdhcpdKeys) /\ "interface" \in ToSet(UdhcpdKeys)
  <2>1. 1 \in DOMAIN UdhcpdKeys /\ UdhcpdKeys[1] = "enable"
    BY DEF UdhcpdKeys
  <2>2. 2 \in DOMAIN UdhcpdKeys /\ UdhcpdKeys[2] = "interface"
    BY DEF UdhcpdKeys
  <2>3. QED
    BY <2>1, <2>2 DEF ToSet
<1>4. IsChoices(UdhcpdChoices)
  BY <1>1, <1>2 DEF IsChoices, UdhcpdChoices
<1>5. QED
  BY <1>3, <1>4 DEF UdhcpdChoices, UdhcpdDefaults

LEMMA WlanChoicesAre ==
  IsChoices(WlanChoices) /\ DOMAIN WlanChoices \subseteq DOMAIN WlanDefaults
<1>1. IsOptions(OptionList(<<"0", "1", "2", "3">>))
  <2>1. IsTuple(<<"0", "1", "2", "3">>, 4)
    BY DEF IsTuple
  <2>2. \A i \in 1 .. 4 : <<"0", "1", "2", "3">>[i] # NL
    BY DEF NL
  <2>3. QED
    BY <2>1, <2>2, OptionListIs
<1>2. IsOptions(OptionList(<<"1", "2", "3", "4", "5", "6", "7", "8", "9", "10",
                             "11", "12", "13">>))
  <2>1. IsTuple(<<"1", "2", "3", "4", "5", "6", "7", "8", "9", "10", "11", "12", "13">>, 13)
    BY DEF IsTuple
  <2>2. \A i \in 1 .. 13 : <<"1", "2", "3", "4", "5", "6", "7", "8", "9", "10",
                             "11", "12", "13">>[i] # NL
    BY DEF NL
  <2>3. QED
    BY <2>1, <2>2, OptionListIs
<1>3. IsOptions(OptionList(<<"auto", "11Mb", "5Mb", "2Mb", "1Mb">>))
  <2>1. IsTuple(<<"auto", "11Mb", "5Mb", "2Mb", "1Mb">>, 5)
    BY DEF IsTuple
  <2>2. \A i \in 1 .. 5 : <<"auto", "11Mb", "5Mb", "2Mb", "1Mb">>[i] # NL
    BY DEF NL
  <2>3. QED
    BY <2>1, <2>2, OptionListIs
<1>4. {"security", "channel", "antsel_rx", "antsel_tx", "rate"} \subseteq ToSet(WlanKeys)
  <2>1. DOMAIN WlanKeys = 1 .. 9
    BY DEF WlanKeys
  <2>2. /\ WlanKeys[2] = "security" /\ WlanKeys[3] = "channel" /\ WlanKeys[4] = "antsel_rx"
        /\ WlanKeys[5] = "antsel_tx" /\ WlanKeys[6] = "rate"
    BY DEF WlanKeys
  <2>3. QED
    BY <2>1, <2>2 DEF ToSet
<1>5. DOMAIN WlanChoices = {"security", "channel", "antsel_rx", "antsel_tx", "rate"}
  BY DEF WlanChoices
<1>6. IsChoices(WlanChoices)
  <2>1. SUFFICES ASSUME NEW k \in DOMAIN WlanChoices PROVE IsOptions(WlanChoices[k])
    BY DEF IsChoices
  <2>2. QED
    BY <1>1, <1>2, <1>3, <1>5 DEF WlanChoices
<1>7. QED
  BY <1>4, <1>5, <1>6 DEF WlanDefaults

LEMMA KaodvChoicesAre ==
  IsChoices(KaodvChoices) /\ DOMAIN KaodvChoices \subseteq DOMAIN KaodvDefaults
<1>1. {"kaodv", "kaodv_gw", "kaodv_lo"} \subseteq ToSet(KaodvKeys)
  <2>1. DOMAIN KaodvKeys = 1 .. 8
    BY DEF KaodvKeys
  <2>2. KaodvKeys[1] = "kaodv" /\ KaodvKeys[2] = "kaodv_gw" /\ KaodvKeys[3] = "kaodv_lo"
    BY DEF KaodvKeys
  <2>3. QED
    BY <2>1, <2>2 DEF ToSet
<1>2. QED
  BY <1>1, EnabledDisabledIs DEF IsChoices, KaodvChoices, KaodvDefaults

LEMMA CipeChoicesAre ==
  IsChoices(CipeChoices) /\ DOMAIN CipeChoices \subseteq DOMAIN CipeDefaults
<1>1. IsOptions(OptionList(<<"32", "64", "96", "128">>))
  <2>1. IsTuple(<<"32", "64", "96", "128">>, 4)
    BY DEF IsTuple
  <2>2. \A i \in 1 .. 4 : <<"32", "64", "96", "128">>[i] # NL
    BY DEF NL
  <2>3. QED
    BY <2>1, <2>2, OptionListIs
<1>2. QED
  BY <1>1 DEF IsChoices, CipeChoices, CipeDefaults, CipeRead

LEMMA DefaultsAre ==
  ASSUME NEW page \in KeywordPages \ {"cipe"}, NEW k \in DOMAIN PageDefaults(page)
  PROVE  IsValue(PageDefaults(page)[k])
<1>1. /\ IsValue(<<"wlan0">>) /\ IsValue(<<"30">>) /\ IsValue(<<"eth0">>)
      /\ IsValue(<<"auto">>) /\ IsValue(<<"disabled">>) /\ IsValue(<<"10.0.1.0">>)
  BY OneValue DEF NL
<1>2. CASE page = "network"
  BY <1>1, <1>2, NoValue DEF PageDefaults, NetworkDefaults
<1>3. CASE page = "udhcpd"
  BY <1>1, <1>3, NoValue DEF PageDefaults, UdhcpdDefaults
<1>4. CASE page = "wlan"
  BY <1>1, <1>4, NoValue DEF PageDefaults, WlanDefaults
<1>5. CASE page = "kaodv"
  <2>1. /\ KaodvKeys = <<"kaodv", "kaodv_gw", "kaodv_lo", "kaodv_if", "kaodv_bl",
                         "kaodv_gw_gif", "kaodv_gw_aif", "kaodv_gw_subnet">>
        /\ DOMAIN KaodvKeys = 1 .. 8
    BY DEF KaodvKeys
  <2>2. ToSet(KaodvKeys) = {"kaodv", "kaodv_gw", "kaodv_lo", "kaodv_if", "kaodv_bl",
                            "kaodv_gw_gif", "kaodv_gw_aif", "kaodv_gw_subnet"}
    BY <2>1 DEF ToSet
  <2>3. QED
    BY <1>1, <1>5, <2>2 DEF PageDefaults, KaodvDefaults
<1>6. QED
  BY <1>2, <1>3, <1>4, <1>5 DEF KeywordPages
-----------------------------------------------------------------------------
(* Forms *)

IsForm(fields, K) == /\ DOMAIN fields = K /\ fields = [k \in K |-> fields[k]]
                     /\ \A k \in K : IsValue(fields[k])

(* A form changes no value but one that is not among the options. *)
LEMMA SelectedIs ==
  ASSUME NEW K, NEW v, IsForm(v, K), NEW choices, IsChoices(choices)
  PROVE  /\ IsForm(Selected(v, choices), K)
         /\ \A k \in K : \/ Selected(v, choices)[k] = v[k]
                         \/ k \in DOMAIN choices /\ v[k] \notin ToSet(choices[k])
<1>1. PICK w : w = Selected(v, choices)
  OBVIOUS
<1>2. /\ DOMAIN w = K /\ w = [k \in K |-> w[k]]
      /\ \A k \in K : w[k] = IF k \in DOMAIN choices THEN Sel(v[k], choices[k]) ELSE v[k]
  BY <1>1 DEF Selected, IsForm
<1>3. ASSUME NEW k \in K
      PROVE  /\ IsValue(w[k])
             /\ w[k] = v[k] \/ (k \in DOMAIN choices /\ v[k] \notin ToSet(choices[k]))
  <2>1. CASE k \in DOMAIN choices
    BY <1>2, <2>1, SelIs DEF IsChoices
  <2>2. CASE k \notin DOMAIN choices
    BY <1>2, <2>2 DEF IsForm
  <2>3. QED
    BY <2>1, <2>2
<1>4. QED
  BY <1>1, <1>2, <1>3 DEF IsForm

LEMMA ReadCfgIs ==
  ASSUME NEW t, IsSeq(t), NEW defaults, \A k \in DOMAIN defaults : IsValue(defaults[k])
  PROVE  IsForm(ReadCfg(t, defaults), DOMAIN defaults)
<1>1. PICK lines : lines = WholeLines(t)
  OBVIOUS
<1>2. lines \subseteq DOMAIN t
  BY <1>1 DEF WholeLines, LineStarts
<1>3. \A k \in DOMAIN defaults : IsValue(ValueAt(t, lines, k, defaults[k]))
  BY <1>2, ValueOfLine
<1>4. QED
  BY <1>1, <1>3 DEF ReadCfg, IsForm

(* The first c of v, if any, is where a peer is split. *)
SplitAt(v) == SelectInSeq(v, LAMBDA c : c = ":")

LEMMA SplitIs ==
  ASSUME NEW v, IsSeq(v)
  PROVE  \/ SplitAt(v) = 0 /\ \A i \in 1 .. Len(v) : v[i] # ":"
         \/ /\ SplitAt(v) \in 1 .. Len(v) /\ v[SplitAt(v)] = ":"
            /\ \A i \in 1 .. Len(v) : v[i] = ":" => SplitAt(v) <= i
<1> DEFINE I == {i \in 1 .. Len(v) : v[i] = ":"}
<1>1. Len(v) \in Nat
  BY SeqShape
<1>2. CASE I = {}
  BY <1>2 DEF SplitAt, SelectInSeq
<1>3. CASE I # {}
  <2>1. I \subseteq Nat
    BY <1>1
  <2>2. Min(I) \in I /\ \A y \in I : Min(I) <= y
    BY <1>3, <2>1, LeastIs
  <2>3. SplitAt(v) = Min(I)
    BY <1>3 DEF SplitAt, SelectInSeq
  <2>4. QED
    BY <2>2, <2>3
<1>4. QED
  BY <1>2, <1>3

LEMMA PartOfValue ==
  ASSUME NEW v, IsValue(v), NEW m \in Int, NEW n \in Int, 1 <= m, n <= Len(v)
  PROVE  IsValue(SubSeq(v, m, n))
<1>1. PICK w : w = SubSeq(v, m, n)
  OBVIOUS
<1>2. /\ IsSeq(w) /\ Len(w) = IF m <= n THEN n - m + 1 ELSE 0
      /\ \A i \in 1 .. n - m + 1 : w[i] = v[m + i - 1]
  BY <1>1, SubSeqIs DEF IsValue
<1>3. Len(v) \in Nat
  BY SeqShape DEF IsValue
<1>4. ASSUME NEW i \in 1 .. Len(w) PROVE w[i] # NL
  <2>1. i \in 1 .. n - m + 1 /\ m + i - 1 \in 1 .. Len(v)
    BY <1>2, <1>3
  <2>2. QED
    BY <1>2, <2>1 DEF IsValue
<1>5. QED
  BY <1>1, <1>2, <1>4 DEF IsValue

CipeFields == {"ipaddr", "ptpaddr", "peer", "port", "ping", "cttl", "key"}

PeerPart(v) == IF SplitAt(v) = 0 THEN v ELSE SubSeq(v, 1, SplitAt(v) - 1)
PortPart(v) == IF SplitAt(v) = 0 THEN <<>> ELSE SubSeq(v, SplitAt(v) + 1, Len(v))

LEMMA CipeReadIs ==
  ASSUME NEW t
  PROVE  /\ DOMAIN CipeRead(t) = CipeFields
         /\ CipeRead(t) = [k \in CipeFields |-> CipeRead(t)[k]]
         /\ \A k \in {"ipaddr", "ptpaddr", "ping", "key"} :
              CipeRead(t)[k] = ValueAt(t, LineStarts(t), k, <<>>)
         /\ CipeRead(t)["cttl"] = ValueAt(t, LineStarts(t), "cttl", <<"64">>)
         /\ CipeRead(t)["peer"] = PeerPart(ValueAt(t, LineStarts(t), "peer", <<>>))
         /\ CipeRead(t)["port"] = PortPart(ValueAt(t, LineStarts(t), "peer", <<>>))
<1>1. PICK v : v = [k \in {"ipaddr", "ptpaddr", "peer", "ping", "key"} |->
                       ValueAt(t, LineStarts(t), k, <<>>)]
  OBVIOUS
<1>2. PICK c : c = ValueAt(t, LineStarts(t), "cttl", <<"64">>)
  OBVIOUS
<1>3. PICK p, q : p = PeerPart(v["peer"]) /\ q = PortPart(v["peer"])
  OBVIOUS
<1>4. CipeRead(t) = [ipaddr |-> v["ipaddr"], ptpaddr |-> v["ptpaddr"], peer |-> p, port |-> q,
                     ping |-> v["ping"], cttl |-> c, key |-> v["key"]]
  BY <1>1, <1>2, <1>3 DEF CipeRead, PeerPart, PortPart, SplitAt
<1>5. PICK r : r = CipeRead(t)
  OBVIOUS
<1>6. /\ DOMAIN r = CipeFields /\ r = [k \in CipeFields |-> r[k]]
      /\ r["ipaddr"] = v["ipaddr"] /\ r["ptpaddr"] = v["ptpaddr"] /\ r["ping"] = v["ping"]
      /\ r["key"] = v["key"] /\ r["cttl"] = c /\ r["peer"] = p /\ r["port"] = q
  BY <1>4, <1>5 DEF CipeFields
<1>7. QED
  BY <1>1, <1>2, <1>3, <1>5, <1>6

LEMMA CipeReadForm ==
  ASSUME NEW t, IsSeq(t)
  PROVE  IsForm(CipeRead(t), CipeFields)
<1>1. LineStarts(t) \subseteq DOMAIN t
  BY DEF LineStarts
<1>2. IsValue(<<"64">>)
  BY OneValue DEF NL
<1>3. \A k : IsValue(ValueAt(t, LineStarts(t), k, <<>>))
  BY <1>1, NoValue, ValueOfLine
<1>4. IsValue(ValueAt(t, LineStarts(t), "cttl", <<"64">>))
  BY <1>1, <1>2, ValueOfLine
<1>5. PICK v : v = ValueAt(t, LineStarts(t), "peer", <<>>)
  OBVIOUS
<1>6. IsValue(v)
  BY <1>3, <1>5
<1>7. IsValue(PeerPart(v)) /\ IsValue(PortPart(v))
  <2>1. CASE SplitAt(v) = 0
    BY <1>6, <2>1, NoValue DEF PeerPart, PortPart
  <2>2. CASE SplitAt(v) # 0
    <3>1. SplitAt(v) \in 1 .. Len(v) /\ Len(v) \in Nat
      BY <1>6, <2>2, SplitIs, SeqShape DEF IsValue
    <3>2. /\ SplitAt(v) - 1 \in Int /\ SplitAt(v) - 1 <= Len(v)
          /\ SplitAt(v) + 1 \in Int /\ 1 <= SplitAt(v) + 1 /\ Len(v) \in Int
      BY <3>1
    <3>3. IsValue(SubSeq(v, 1, SplitAt(v) - 1))
      BY <1>6, <3>2, PartOfValue
    <3>4. IsValue(SubSeq(v, SplitAt(v) + 1, Len(v)))
      BY <1>6, <3>2, PartOfValue
    <3>5. QED
      BY <2>2, <3>3, <3>4 DEF PeerPart, PortPart
  <2>3. QED
    BY <2>1, <2>2
<1>8. PICK r : r = CipeRead(t)
  OBVIOUS
<1>9. /\ DOMAIN r = CipeFields /\ r = [k \in CipeFields |-> r[k]]
      /\ \A k \in {"ipaddr", "ptpaddr", "ping", "key"} : IsValue(r[k])
      /\ IsValue(r["cttl"]) /\ IsValue(r["peer"]) /\ IsValue(r["port"])
  BY <1>3, <1>4, <1>5, <1>7, <1>8, CipeReadIs
<1>10. \A k \in CipeFields : IsValue(r[k])
  BY <1>9 DEF CipeFields
<1>11. QED
  BY <1>8, <1>9, <1>10 DEF IsForm
-----------------------------------------------------------------------------
(* Pages *)

FieldsOf(page) == CASE page = "top"          -> {"runlevel"}
                    [] page \in TextPages    -> {"text"}
                    [] page \in KeywordPages -> DOMAIN PageDefaults(page)

LEMMA FieldsAre ==
  /\ \A page \in KeywordPages : FieldsOf(page) = DOMAIN PageDefaults(page)
  /\ FieldsOf("cipe") = CipeFields
  /\ FieldsOf("top") = {"runlevel"}
  /\ \A page \in TextPages : FieldsOf(page) = {"text"}
<1>1. DOMAIN CipeDefaults = CipeFields
  BY CipeReadIs DEF CipeDefaults
<1>2. \A page \in KeywordPages : FieldsOf(page) = DOMAIN PageDefaults(page)
  BY DEF FieldsOf, KeywordPages, TextPages
<1>3. PageDefaults("cipe") = CipeDefaults
  BY DEF PageDefaults
<1>4. FieldsOf("cipe") = CipeFields
  BY <1>1, <1>2, <1>3 DEF KeywordPages
<1>5. FieldsOf("top") = {"runlevel"}
  BY DEF FieldsOf, TextPages, KeywordPages
<1>6. \A page \in TextPages : FieldsOf(page) = {"text"}
  BY DEF FieldsOf, TextPages, KeywordPages
<1>7. QED
  BY <1>2, <1>4, <1>5, <1>6

(* What a page reads from a file is a value for every field of its form. *)
LEMMA PageValuesAre ==
  ASSUME NEW page \in KeywordPages, NEW t, IsSeq(t)
  PROVE  IsForm(PageValues(page, t), FieldsOf(page))
<1>1. CASE page = "cipe"
  BY <1>1, CipeReadForm, FieldsAre DEF PageValues
<1>2. CASE page # "cipe"
  <2>1. IsForm(ReadCfg(t, PageDefaults(page)), DOMAIN PageDefaults(page))
    BY <1>2, DefaultsAre, ReadCfgIs
  <2>2. QED
    BY <1>2, <2>1, FieldsAre DEF PageValues
<1>3. QED
  BY <1>1, <1>2

LEMMA ChoicesAre ==
  ASSUME NEW page \in KeywordPages
  PROVE  IsChoices(PageChoices(page)) /\ DOMAIN PageChoices(page) \subseteq FieldsOf(page)
<1>1. FieldsOf(page) = DOMAIN PageDefaults(page)
  BY FieldsAre
<1>2. CASE page = "network"
  BY <1>1, <1>2, NetworkChoicesAre DEF PageChoices, PageDefaults
<1>3. CASE page = "udhcpd"
  BY <1>1, <1>3, UdhcpdChoicesAre DEF PageChoices, PageDefaults
<1>4. CASE page = "wlan"
  BY <1>1, <1>4, WlanChoicesAre DEF PageChoices, PageDefaults
<1>5. CASE page = "kaodv"
  BY <1>1, <1>5, KaodvChoicesAre DEF PageChoices, PageDefaults
<1>6. CASE page = "cipe"
  BY <1>1, <1>6, CipeChoicesAre DEF PageChoices, PageDefaults
<1>7. QED
  BY <1>2, <1>3, <1>4, <1>5, <1>6 DEF KeywordPages

(* The form of kaodv has every field in both of its modes. *)
LEMMA KaodvFields ==
  ASSUME NEW gw
  PROVE  DOMAIN KaodvChoices \cup KaodvHidden(gw) \cup KaodvVisible(gw) = DOMAIN KaodvDefaults
<1>1. /\ DOMAIN KaodvKeys = 1 .. 8
      /\ KaodvKeys[1] = "kaodv" /\ KaodvKeys[2] = "kaodv_gw" /\ KaodvKeys[3] = "kaodv_lo"
      /\ KaodvKeys[4] = "kaodv_if" /\ KaodvKeys[5] = "kaodv_bl"
      /\ KaodvKeys[6] = "kaodv_gw_gif" /\ KaodvKeys[7] = "kaodv_gw_aif"
      /\ KaodvKeys[8] = "kaodv_gw_subnet"
  BY DEF KaodvKeys
<1>2. ToSet(KaodvKeys) = {"kaodv", "kaodv_gw", "kaodv_lo", "kaodv_if", "kaodv_bl",
                          "kaodv_gw_gif", "kaodv_gw_aif", "kaodv_gw_subnet"}
  BY <1>1 DEF ToSet
<1>3. Indexed(6, 8) = {"kaodv_gw_gif", "kaodv_gw_aif", "kaodv_gw_subnet"}
  BY <1>1 DEF Indexed
<1>4. Indexed(4, 5) = {"kaodv_if", "kaodv_bl"}
  BY <1>1 DEF Indexed
<1>5. DOMAIN KaodvChoices = {"kaodv", "kaodv_gw", "kaodv_lo"}
  BY DEF KaodvChoices
<1>6. DOMAIN KaodvDefaults = ToSet(KaodvKeys)
  BY DEF KaodvDefaults
<1>7. CASE gw = <<"disabled">>
  BY <1>2, <1>3, <1>5, <1>6, <1>7 DEF KaodvHidden, KaodvVisible
<1>8. CASE gw # <<"disabled">>
  BY <1>2, <1>4, <1>5, <1>6, <1>8 DEF KaodvHidden, KaodvVisible
<1>9. QED
  BY <1>7, <1>8

(* A menu shows what is in the file, but for the values that Fixed lists and the *)
(* mode of kaodv when it was just chosen.                                         *)
Shows(page, m, v, gwSel) ==
  \A k \in FieldsOf(page) :
    m[k] = v[k] \/ Fixed(page, k, v[k]) \/ (k = "kaodv_gw" /\ gwSel # None)

LEMMA SelectedShows ==
  ASSUME NEW page \in KeywordPages, NEW v, IsForm(v, FieldsOf(page)), NEW gwSel
  PROVE  /\ IsForm(Selected(v, PageChoices(page)), FieldsOf(page))
         /\ Shows(page, Selected(v, PageChoices(page)), v, gwSel)
<1>1. PICK K, c : K = FieldsOf(page) /\ c = PageChoices(page)
  OBVIOUS
<1>2. IsChoices(c)
  BY <1>1, ChoicesAre
<1>3. /\ IsForm(Selected(v, c), K)
      /\ \A k \in K : Selected(v, c)[k] = v[k] \/ (k \in DOMAIN c /\ v[k] \notin ToSet(c[k]))
  BY <1>1, <1>2, SelectedIs
<1>4. QED
  BY <1>1, <1>3 DEF Shows, Fixed

LEMMA PageMenuIs ==
  ASSUME NEW page \in KeywordPages, NEW t, IsSeq(t), NEW gwSel,
         gwSel # None => IsValue(gwSel)
  PROVE  /\ IsForm(PageMenu(page, t, gwSel), FieldsOf(page))
         /\ Shows(page, PageMenu(page, t, gwSel), PageValues(page, t), gwSel)
<1>1. PICK v : v = PageValues(page, t)
  OBVIOUS
<1>2. IsForm(v, FieldsOf(page))
  BY <1>1, PageValuesAre
<1>3. PICK w : w = Selected(v, PageChoices(page))
  OBVIOUS
<1>4. IsForm(w, FieldsOf(page)) /\ Shows(page, w, v, gwSel)
  BY <1>2, <1>3, SelectedShows
<1>5. CASE page \in {"network", "wlan", "cipe"}
  <2>1. PageMenu(page, t, gwSel) = w
    BY <1>1, <1>3, <1>5 DEF PageMenu, PageChoices, NetworkMenu, WlanMenu, CipeMenu
  <2>2. QED
    BY <1>1, <1>4, <2>1
<1>6. CASE page = "udhcpd"
  <2>1. PICK m : m = PageMenu(page, t, gwSel)
    OBVIOUS
  <2>2. m = [w EXCEPT !["lease_file"] = <<"/var/run/udhcpd.leases">>]
    BY <1>1, <1>3, <1>6, <2>1 DEF PageMenu, PageChoices, UdhcpdMenu
  <2>3. IsValue(<<"/var/run/udhcpd.leases">>)
    BY OneValue DEF NL
  <2>4. /\ DOMAIN m = FieldsOf(page) /\ m = [k \in FieldsOf(page) |-> m[k]]
        /\ \A k \in FieldsOf(page) : k # "lease_file" => m[k] = w[k]
        /\ \A k \in FieldsOf(page) : k = "lease_file" => m[k] = <<"/var/run/udhcpd.leases">>
    BY <1>4, <2>2 DEF IsForm
  <2>5. \A k \in FieldsOf(page) : IsValue(m[k])
    BY <1>4, <2>3, <2>4 DEF IsForm
  <2>6. Shows(page, m, v, gwSel)
    BY <1>4, <2>4 DEF Shows, Fixed
  <2>7. QED
    BY <1>1, <2>1, <2>4, <2>5, <2>6 DEF IsForm
<1>7. CASE page = "kaodv"
  <2>1. PICK K : K = FieldsOf(page)
    OBVIOUS
  <2>2. K = DOMAIN KaodvDefaults
    BY <1>7, <2>1, FieldsAre DEF PageDefaults
  <2>3. PICK gw : gw = IF gwSel = None THEN v["kaodv_gw"] ELSE gwSel
    OBVIOUS
  <2>4. PICK x : x = [v EXCEPT !["kaodv_gw"] = gw]
    OBVIOUS
  <2>5. "kaodv_gw" \in K
    BY <2>2, KaodvFields DEF KaodvChoices
  <2>6. IsValue(gw)
    BY <1>2, <2>1, <2>3, <2>5 DEF IsForm
  <2>7. /\ IsForm(x, K)
        /\ \A k \in K : x[k] = v[k] \/ (k = "kaodv_gw" /\ gwSel # None)
    BY <1>2, <2>1, <2>3, <2>4, <2>6 DEF IsForm
  <2>8. PICK y : y = Selected(x, KaodvChoices)
    OBVIOUS
  <2>9. IsForm(y, K) /\ Shows(page, y, x, gwSel)
    BY <1>7, <2>1, <2>7, <2>8, SelectedShows DEF PageChoices
  <2>10. PICK m : m = PageMenu(page, t, gwSel)
    OBVIOUS
  <2>11. m = [k \in DOMAIN KaodvChoices \cup KaodvHidden(gw) \cup KaodvVisible(gw) |-> y[k]]
    BY <1>1, <1>7, <2>3, <2>4, <2>8, <2>10 DEF PageMenu, KaodvMenu
  <2>12. m = [k \in K |-> y[k]]
    BY <2>2, <2>11, KaodvFields
  <2>13. IsForm(m, K)
    BY <2>9, <2>12 DEF IsForm
  <2>14. Shows(page, m, v, gwSel)
    BY <2>1, <2>7, <2>9, <2>12 DEF Shows
  <2>15. QED
    BY <1>1, <2>1, <2>10, <2>13, <2>14
<1>8. QED
  BY <1>5, <1>6, <1>7 DEF KeywordPages
-----------------------------------------------------------------------------
(* What is written is what is read again *)

LEMMA WrittenByKeys ==
  ASSUME NEW keys, NEW K, IsKeys(keys, K), NEW form, IsForm(form, K)
  PROVE  HoldsLines(OutConfigs(keys, form), form)
<1>1. PICK g : g = [k \in ToSet(keys) |-> Sent(form, k)]
  OBVIOUS
<1>2. HoldsLines(OutConfigs(keys, form), g)
  BY <1>1, OutConfigsHolds DEF IsKeys, IsForm
<1>3. \A k \in K : Sent(form, k) = form[k]
  BY DEF Sent, IsForm
<1>4. g = [k \in K |-> form[k]]
  BY <1>1, <1>3 DEF IsKeys
<1>5. g = form
  BY <1>4 DEF IsForm
<1>6. QED
  BY <1>2, <1>5

LEMMA PageWritten ==
  ASSUME NEW page \in KeywordPages \ {"cipe"}, NEW form, IsForm(form, FieldsOf(page))
  PROVE  HoldsLines(PageContent(page, form), form)
<1>1. FieldsOf(page) = DOMAIN PageDefaults(page)
  BY FieldsAre
<1>2. CASE page = "network"
  BY <1>1, <1>2, NetworkKeysAre, WrittenByKeys DEF PageContent, NetworkWrite, PageDefaults
<1>3. CASE page = "udhcpd"
  BY <1>1, <1>3, UdhcpdKeysAre, WrittenByKeys DEF PageContent, UdhcpdWrite, PageDefaults
<1>4. CASE page = "wlan"
  BY <1>1, <1>4, WlanKeysAre, WrittenByKeys DEF PageContent, WlanWrite, PageDefaults
<1>5. CASE page = "kaodv"
  BY <1>1, <1>5, KaodvKeysAre, WrittenByKeys DEF PageContent, KaodvWrite, PageDefaults
<1>6. QED
  BY <1>2, <1>3, <1>4, <1>5 DEF KeywordPages

CipeLine(form) == form.peer \o <<":">> \o form.port

LEMMA CipeWritten ==
  ASSUME NEW form, IsForm(form, CipeFields)
  PROVE  \E g : /\ HoldsLines(PageContent("cipe", form), g)
                /\ {"ipaddr", "ptpaddr", "peer", "cttl", "key"} \subseteq DOMAIN g
                /\ \A k \in {"ipaddr", "ptpaddr", "cttl", "key"} : g[k] = form[k]
                /\ g["peer"] = CipeLine(form)
<1>1. PICK K : K = {"ipaddr", "ptpaddr", "peer", "cttl", "dynip", "ping", "maxerr", "mtu",
                    "key"}
  OBVIOUS
<1>2. PICK p : p = CipeLine(form)
  OBVIOUS
<1>3. IsValue(p)
  <2>1. IsValue(form.peer) /\ IsValue(form.port)
    BY DEF IsForm, CipeFields
  <2>2. PICK a, c : a = form.peer /\ c = form.port
    OBVIOUS
  <2>3. IsSeq(a) /\ IsSeq(c) /\ Len(a) \in Nat /\ Len(c) \in Nat
    BY <2>1, <2>2, SeqShape DEF IsValue
  <2>4. PICK b : b = a \o <<":">>
    OBVIOUS
  <2>5. IsSeq(<<":">>) /\ Len(<<":">>) = 1 /\ <<":">>[1] = ":"
    BY OneIs
  <2>6. /\ IsSeq(b) /\ Len(b) = Len(a) + 1
        /\ \A i \in 1 .. Len(a) : b[i] = a[i]
        /\ \A i \in Len(a) + 1 .. Len(a) + 1 : b[i] = <<":">>[i - Len(a)]
    BY <2>3, <2>4, <2>5, ConcatIs
  <2>7. b[Len(a) + 1] = ":"
    <3>1. Len(a) + 1 \in Len(a) + 1 .. Len(a) + 1 /\ Len(a) + 1 - Len(a) = 1
      BY <2>3
    <3>2. QED
      BY <2>5, <2>6, <3>1
  <2>8. /\ IsSeq(b \o c) /\ Len(b \o c) = Len(b) + Len(c)
        /\ \A i \in 1 .. Len(b) : (b \o c)[i] = b[i]
        /\ \A i \in Len(b) + 1 .. Len(b) + Len(c) : (b \o c)[i] = c[i - Len(b)]
    BY <2>3, <2>6, ConcatIs
  <2>9. p = b \o c
    BY <1>2, <2>2, <2>4 DEF CipeLine
  <2>10. ":" # NL
    BY DEF NL
  <2>11. \A i \in 1 .. Len(b) : b[i] # NL
    <3>1. TAKE i \in 1 .. Len(b)
    <3>2. i \in 1 .. Len(a) \/ i = Len(a) + 1
      BY <2>3, <2>6
    <3>3. QED
      BY <2>1, <2>2, <2>6, <2>7, <2>10, <3>2 DEF IsValue
  <2>12. \A i \in 1 .. Len(p) : p[i] # NL
    <3>1. TAKE i \in 1 .. Len(p)
    <3>2. i \in 1 .. Len(b) \/ (i \in Len(b) + 1 .. Len(b) + Len(c) /\ i - Len(b) \in 1 .. Len(c))
      BY <2>3, <2>6, <2>8, <2>9
    <3>3. QED
      BY <2>1, <2>2, <2>8, <2>9, <2>11, <3>2 DEF IsValue
  <2>13. QED
    BY <2>8, <2>9, <2>12 DEF IsValue
<1>4. PICK g : g = [ipaddr |-> form.ipaddr, ptpaddr |-> form.ptpaddr, cttl |-> form.cttl,
                    peer |-> p, key |-> form.key,
                    dynip |-> <<"1">>, ping |-> <<"60">>, maxerr |-> <<"2">>,
                    mtu |-> <<"1500">>]
  OBVIOUS
<1>5. /\ IsValue(<<"1">>) /\ IsValue(<<"60">>) /\ IsValue(<<"2">>) /\ IsValue(<<"1500">>)
  BY OneValue DEF NL
<1>6. /\ IsValue(form.ipaddr) /\ IsValue(form.ptpaddr) /\ IsValue(form.cttl)
      /\ IsValue(form.key)
  BY DEF IsForm, CipeFields
<1>7. IsForm(g, K)
  <2>1. DOMAIN g = K /\ g = [k \in K |-> g[k]]
    BY <1>1, <1>4
  <2>2. \A k \in K : IsValue(g[k])
    BY <1>1, <1>3, <1>4, <1>5, <1>6
  <2>3. QED
    BY <2>1, <2>2 DEF IsForm
<1>8. PageContent("cipe", form) = OutConfigs(CipeKeys, g)
  BY <1>2, <1>4 DEF PageContent, CipeWrite, CipeLine
<1>9. HoldsLines(PageContent("cipe", form), g)
  BY <1>1, <1>7, <1>8, CipeKeysAre, WrittenByKeys
<1>10. /\ {"ipaddr", "ptpaddr", "peer", "cttl", "key"} \subseteq DOMAIN g
       /\ \A k \in {"ipaddr", "ptpaddr", "cttl", "key"} : g[k] = form[k]
       /\ g["peer"] = CipeLine(form)
  BY <1>2, <1>4
<1>11. QED
  BY <1>9, <1>10
LEMMA SplitLine ==
  ASSUME NEW form, IsForm(form, CipeFields), ":" \notin ToSet(form.peer)
  PROVE  PeerPart(CipeLine(form)) = form.peer /\ PortPart(CipeLine(form)) = form.port
<1>1. PICK a, c, p : a = form.peer /\ c = form.port /\ p = CipeLine(form)
  OBVIOUS
<1>2. IsSeq(a) /\ IsSeq(c)
  BY <1>1 DEF IsForm, IsValue, CipeFields
<1>3. PICK m \in Nat, n \in Nat : m = Len(a) /\ n = Len(c)
  BY <1>2, SeqShape
<1>4. \A i \in 1 .. m : a[i] # ":"
  BY <1>1, <1>2, <1>3, SeqShape DEF ToSet
<1>5. PICK b : b = a \o <<":">>
  OBVIOUS
<1>6. IsSeq(<<":">>) /\ Len(<<":">>) = 1 /\ <<":">>[1] = ":"
  BY OneIs
<1>7. /\ IsSeq(b) /\ Len(b) = m + 1
      /\ \A i \in 1 .. m : b[i] = a[i]
      /\ \A i \in m + 1 .. m + 1 : b[i] = <<":">>[i - m]
  BY <1>2, <1>3, <1>5, <1>6, ConcatIs
<1>8. p = b \o c
  BY <1>1, <1>5 DEF CipeLine
<1>9. /\ IsSeq(p) /\ Len(p) = m + 1 + n
      /\ \A i \in 1 .. m + 1 : p[i] = b[i]
      /\ \A i \in m + 1 + 1 .. m + 1 + n : p[i] = c[i - (m + 1)]
  <2>1. /\ IsSeq(b \o c) /\ Len(b \o c) = Len(b) + Len(c)
        /\ \A i \in 1 .. Len(b) : (b \o c)[i] = b[i]
        /\ \A i \in Len(b) + 1 .. Len(b) + Len(c) : (b \o c)[i] = c[i - Len(b)]
    BY <1>2, <1>7, ConcatIs
  <2>2. QED
    BY <1>3, <1>7, <1>8, <2>1
<1>10. \A i \in 1 .. m : p[i] = a[i] /\ p[i] # ":"
  <2>1. TAKE i \in 1 .. m
  <2>2. i \in 1 .. m + 1
    OBVIOUS
  <2>3. QED
    BY <1>4, <1>7, <1>9, <2>2
<1>11. p[m + 1] = ":"
  <2>1. m + 1 \in 1 .. m + 1 /\ m + 1 \in m + 1 .. m + 1 /\ m + 1 - m = 1
    OBVIOUS
  <2>2. QED
    BY <1>6, <1>7, <1>9, <2>1
<1>12. SplitAt(p) = m + 1
  <2>1. m + 1 \in 1 .. Len(p)
    BY <1>9
  <2>2. PICK x : x = SplitAt(p)
    OBVIOUS
  <2>3. x \in 1 .. m + 1 + n /\ p[x] = ":" /\ x <= m + 1
    BY <1>9, <1>11, <2>1, <2>2, SplitIs
  <2>4. ~ (x \in 1 .. m)
    BY <1>10, <2>3
  <2>5. QED
    BY <2>2, <2>3, <2>4
<1>13. PeerPart(p) = a
  <2>1. 1 \in Int /\ m \in Int /\ 1 <= 1 /\ m <= Len(p)
    BY <1>9
  <2>2. PICK w : w = SubSeq(p, 1, m)
    OBVIOUS
  <2>3. /\ IsSeq(w) /\ Len(w) = IF 1 <= m THEN m - 1 + 1 ELSE 0
        /\ \A i \in 1 .. m - 1 + 1 : w[i] = p[1 + i - 1]
    BY <1>9, <2>1, <2>2, SubSeqIs
  <2>4. Len(w) = m
    BY <2>3
  <2>5. \A i \in 1 .. Len(w) : w[i] = a[i]
    <3>1. TAKE i \in 1 .. Len(w)
    <3>2. i \in 1 .. m - 1 + 1 /\ 1 + i - 1 = i /\ i \in 1 .. m
      BY <2>4
    <3>3. QED
      BY <1>10, <2>3, <3>2
  <2>6. w = a
    BY <1>2, <1>3, <2>3, <2>4, <2>5, SeqSame
  <2>7. m + 1 # 0 /\ m + 1 - 1 = m
    OBVIOUS
  <2>8. QED
    BY <1>12, <2>2, <2>6, <2>7 DEF PeerPart
<1>14. PortPart(p) = c
  <2>1. PICK e : e = m + 1 + n
    OBVIOUS
  <2>2. PICK s : s = m + 1 + 1
    OBVIOUS
  <2>3. s \in Int /\ e \in Int /\ 1 <= s /\ e <= Len(p)
    BY <1>9, <2>1, <2>2
  <2>4. PICK w : w = SubSeq(p, s, e)
    OBVIOUS
  <2>5. /\ IsSeq(w) /\ Len(w) = IF s <= e THEN e - s + 1 ELSE 0
        /\ \A i \in 1 .. e - s + 1 : w[i] = p[s + i - 1]
    BY <1>9, <2>3, <2>4, SubSeqIs
  <2>6. Len(w) = n
    BY <2>1, <2>2, <2>5
  <2>7. \A i \in 1 .. Len(w) : w[i] = c[i]
    <3>1. TAKE i \in 1 .. Len(w)
    <3>2. PICK j : j = s + i - 1
      OBVIOUS
    <3>3. i \in 1 .. e - s + 1 /\ j \in m + 1 + 1 .. m + 1 + n /\ j - (m + 1) = i
      BY <2>1, <2>2, <2>6, <3>2
    <3>4. p[j] = c[j - (m + 1)]
      BY <1>9, <3>3
    <3>5. QED
      BY <2>5, <3>2, <3>3, <3>4
  <2>8. w = c
    BY <1>2, <1>3, <2>5, <2>6, <2>7, SeqSame
  <2>9. m + 1 # 0
    OBVIOUS
  <2>10. QED
    BY <1>9, <1>12, <2>1, <2>2, <2>4, <2>8, <2>9 DEF PortPart
<1>15. QED
  BY <1>1, <1>13, <1>14

(* A page reads what it wrote, but for the keep alive timer of cipe, which the *)
(* page fixes, and for a peer that holds the ":" before its port.              *)
LEMMA PageReadsBack ==
  ASSUME NEW page \in KeywordPages, NEW form, IsForm(form, FieldsOf(page)),
         page = "cipe" => ":" \notin ToSet(form.peer), NEW k \in FieldsOf(page)
  PROVE  PageValues(page, PageContent(page, form))[k] = form[k] \/ k = "ping"
<1>1. PICK t : t = PageContent(page, form)
  OBVIOUS
<1>2. CASE page # "cipe"
  <2>1. HoldsLines(t, form)
    BY <1>1, <1>2, PageWritten
  <2>2. k \in DOMAIN PageDefaults(page) /\ k \in DOMAIN form
    BY FieldsAre DEF IsForm
  <2>3. PageValues(page, t)[k] = ValueAt(t, WholeLines(t), k, PageDefaults(page)[k])
    BY <1>2, <2>2 DEF PageValues, ReadCfg
  <2>4. ValueAt(t, LineStarts(t), k, PageDefaults(page)[k]) = form[k]
    BY <2>1, <2>2, ValueFound
  <2>5. WholeLines(t) = LineStarts(t)
    BY <2>1, LinesAreWhole
  <2>6. QED
    BY <1>1, <2>3, <2>4, <2>5
<1>3. CASE page = "cipe"
  <2>1. IsForm(form, CipeFields)
    BY <1>3, FieldsAre
  <2>2. PICK g : /\ HoldsLines(t, g)
                 /\ {"ipaddr", "ptpaddr", "peer", "cttl", "key"} \subseteq DOMAIN g
                 /\ \A x \in {"ipaddr", "ptpaddr", "cttl", "key"} : g[x] = form[x]
                 /\ g["peer"] = CipeLine(form)
    BY <1>1, <1>3, <2>1, CipeWritten
  <2>3. /\ \A x \in {"ipaddr", "ptpaddr", "key"} : ValueAt(t, LineStarts(t), x, <<>>) = form[x]
        /\ ValueAt(t, LineStarts(t), "cttl", <<"64">>) = form["cttl"]
        /\ ValueAt(t, LineStarts(t), "peer", <<>>) = CipeLine(form)
    BY <2>2, ValueFound
  <2>4. PeerPart(CipeLine(form)) = form.peer /\ PortPart(CipeLine(form)) = form.port
    BY <1>3, <2>1, SplitLine
  <2>5. PageValues(page, t) = CipeRead(t)
    BY <1>3 DEF PageValues
  <2>6. k \in CipeFields
    BY <1>3, FieldsAre
  <2>7. CASE k \in {"ipaddr", "ptpaddr", "key"}
    BY <1>1, <2>3, <2>5, <2>7, CipeReadIs
  <2>8. CASE k \in {"cttl", "peer", "port"}
    BY <1>1, <2>3, <2>4, <2>5, <2>8, CipeReadIs
  <2>9. QED
    BY <2>6, <2>7, <2>8 DEF CipeFields
<1>4. QED
  BY <1>2, <1>3

LEMMA PageReadable ==
  ASSUME NEW page \in KeywordPages, NEW form, IsForm(form, FieldsOf(page))
  PROVE  ~ Crashes(page, PageContent(page, form))
<1>1. CASE page = "cipe"
  BY <1>1 DEF Crashes
<1>2. CASE page # "cipe"
  <2>1. HoldsLines(PageContent(page, form), form)
    BY <1>2, PageWritten
  <2>2. DOMAIN form = DOMAIN PageDefaults(page)
    BY FieldsAre DEF IsForm
  <2>3. Readable(PageContent(page, form), DOMAIN PageDefaults(page))
    BY <2>1, <2>2, LinesAreWhole
  <2>4. QED
    BY <2>3 DEF Crashes
<1>3. QED
  BY <1>1, <1>2

LEMMA PageContentIs ==
  ASSUME NEW page \in KeywordPages, NEW form, IsForm(form, FieldsOf(page))
  PROVE  IsSeq(PageContent(page, form))
<1>1. CASE page = "cipe"
  BY <1>1, CipeWritten, FieldsAre DEF HoldsLines
<1>2. CASE page # "cipe"
  BY <1>2, PageWritten DEF HoldsLines
<1>3. QED
  BY <1>1, <1>2

LEMMA EmptyReadable == \A page : ~ Crashes(page, <<>>)
<1>1. DOMAIN <<>> = {}
  OBVIOUS
<1>2. WholeLines(<<>>) = {}
  BY <1>1 DEF WholeLines, LineStarts
<1>3. QED
  BY <1>2 DEF Crashes, Readable
-----------------------------------------------------------------------------
(* Prefixes, overwriting, and the run level *)

LEMMA SubSeqWhole ==
  ASSUME NEW s, IsSeq(s)
  PROVE  SubSeq(s, 1, Len(s)) = s
<1>1. PICK n \in Nat : n = Len(s)
  BY SeqShape
<1>2. PICK w : w = SubSeq(s, 1, n)
  OBVIOUS
<1>3. 1 \in Int /\ n \in Int /\ 1 <= 1 /\ n <= Len(s)
  BY <1>1
<1>4. /\ IsSeq(w) /\ Len(w) = IF 1 <= n THEN n - 1 + 1 ELSE 0
      /\ \A i \in 1 .. n - 1 + 1 : w[i] = s[1 + i - 1]
  BY <1>2, <1>3, SubSeqIs
<1>5. Len(w) = n
  BY <1>4
<1>6. \A i \in 1 .. Len(w) : w[i] = s[i]
  <2>1. TAKE i \in 1 .. Len(w)
  <2>2. i \in 1 .. n - 1 + 1 /\ 1 + i - 1 = i
    BY <1>5
  <2>3. QED
    BY <1>4, <2>2
<1>7. QED
  BY <1>1, <1>2, <1>4, <1>5, <1>6, SeqSame

LEMMA PrefixIs ==
  ASSUME NEW s, IsSeq(s), NEW t, IsSeq(t)
  PROVE  IsPrefix(s, t) <=> Len(s) <= Len(t) /\ \A i \in 1 .. Len(s) : s[i] = t[i]
<1>1. PICK n \in Nat, m \in Nat : n = Len(s) /\ m = Len(t)
  BY SeqShape
<1>2. CASE n <= m
  <2>1. 1 \in Int /\ n \in Int /\ 1 <= 1 /\ n <= Len(t)
    BY <1>1, <1>2
  <2>2. PICK w : w = SubSeq(t, 1, n)
    OBVIOUS
  <2>3. /\ IsSeq(w) /\ Len(w) = IF 1 <= n THEN n - 1 + 1 ELSE 0
        /\ \A i \in 1 .. n - 1 + 1 : w[i] = t[1 + i - 1]
    BY <2>1, <2>2, SubSeqIs
  <2>4. Len(w) = n
    BY <2>3
  <2>5. \A i \in 1 .. n : w[i] = t[i]
    <3>1. TAKE i \in 1 .. n
    <3>2. i \in 1 .. n - 1 + 1 /\ 1 + i - 1 = i
      OBVIOUS
    <3>3. QED
      BY <2>3, <3>2
  <2>6. IsPrefix(s, t) <=> s = w
    BY <1>1, <1>2, <2>2, SubSeqWhole DEF IsPrefix
  <2>7. s = w <=> \A i \in 1 .. n : s[i] = w[i]
    BY <1>1, <2>3, <2>4, SeqSame
  <2>8. QED
    BY <1>1, <1>2, <2>5, <2>6, <2>7
<1>3. CASE ~ (n <= m)
  BY <1>1, <1>3 DEF IsPrefix
<1>4. QED
  BY <1>2, <1>3

(* What overwriting leaves of a file. *)
LEMMA OverwriteIs ==
  ASSUME NEW old, IsSeq(old), NEW new, IsSeq(new)
  PROVE  /\ IsSeq(Overwrite(old, new))
         /\ \A i \in 1 .. Len(new) : Overwrite(old, new)[i] = new[i]
         /\ IsPrefix(new, Overwrite(old, new))
         /\ old = <<>> => Overwrite(old, new) = new
         /\ IsPrefix(new, old) => Overwrite(old, new) = old
<1>1. PICK n \in Nat, m \in Nat : n = Len(new) /\ m = Len(old)
  BY SeqShape
<1>2. PICK w : w = SubSeq(old, n + 1, m)
  OBVIOUS
<1>3. n + 1 \in Int /\ m \in Int /\ 1 <= n + 1 /\ m <= Len(old)
  BY <1>1
<1>4. /\ IsSeq(w) /\ Len(w) = IF n + 1 <= m THEN m - (n + 1) + 1 ELSE 0
      /\ \A i \in 1 .. m - (n + 1) + 1 : w[i] = old[n + 1 + i - 1]
  BY <1>2, <1>3, SubSeqIs
<1>5. Len(w) = IF n + 1 <= m THEN m - n ELSE 0
  BY <1>4
<1>6. \A i \in 1 .. m - n : w[i] = old[n + i]
  <2>1. TAKE i \in 1 .. m - n
  <2>2. i \in 1 .. m - (n + 1) + 1 /\ n + 1 + i - 1 = n + i
    OBVIOUS
  <2>3. QED
    BY <1>4, <2>2
<1>7. PICK u : u = new \o w
  OBVIOUS
<1>8. /\ IsSeq(u) /\ Len(u) = n + Len(w)
      /\ \A i \in 1 .. n : u[i] = new[i]
      /\ \A i \in n + 1 .. n + Len(w) : u[i] = w[i - n]
  BY <1>1, <1>4, <1>7, ConcatIs
<1>9. u = Overwrite(old, new)
  BY <1>1, <1>2, <1>7 DEF Overwrite
<1>10. IsPrefix(new, u)
  <2>1. n <= n + Len(w)
    BY <1>5
  <2>2. QED
    BY <1>1, <1>8, <2>1, PrefixIs
<1>11. ASSUME old = <<>> PROVE u = new
  <2>1. m = 0
    BY <1>1, <1>11, EmptyIs
  <2>2. Len(u) = n
    BY <1>5, <1>8, <2>1
  <2>3. QED
    BY <1>1, <1>8, <2>2, SeqSame
<1>12. ASSUME IsPrefix(new, old) PROVE u = old
  <2>1. n <= m /\ \A i \in 1 .. n : new[i] = old[i]
    BY <1>1, <1>12, PrefixIs
  <2>2. Len(w) = m - n
    BY <1>5, <2>1
  <2>3. Len(u) = m
    BY <1>8, <2>1, <2>2
  <2>4. \A i \in 1 .. m : u[i] = old[i]
    <3>1. TAKE i \in 1 .. m
    <3>2. CASE i <= n
      <4>1. i \in 1 .. n
        BY <3>2
      <4>2. QED
        BY <1>8, <2>1, <4>1
    <3>3. CASE i > n
      <4>1. PICK j : j = i - n
        OBVIOUS
      <4>2. i \in n + 1 .. n + Len(w) /\ j \in 1 .. m - n /\ n + j = i
        BY <2>2, <3>3, <4>1
      <4>3. u[i] = w[j]
        BY <1>8, <4>1, <4>2
      <4>4. QED
        BY <1>6, <4>2, <4>3
    <3>4. QED
      BY <3>2, <3>3
  <2>5. QED
    BY <1>1, <1>8, <2>3, <2>4, SeqSame
<1>13. QED
  BY <1>1, <1>8, <1>9, <1>10, <1>11, <1>12

FirstToken(t) == SubSeq(t, 1, LineEnd(t, 1) - 1)

(* The run level that top writes is the first line of the file. *)
LEMMA RunlevelReadsBack ==
  ASSUME NEW v, IsValue(v)
  PROVE  IsSeq(v \o <<NL>>) /\ FirstToken(v \o <<NL>>) = v
<1>1. PICK n \in Nat : n = Len(v)
  BY SeqShape DEF IsValue
<1>2. PICK t : t = v \o <<NL>>
  OBVIOUS
<1>3. IsSeq(<<NL>>) /\ Len(<<NL>>) = 1 /\ <<NL>>[1] = NL
  BY OneIs
<1>4. IsSeq(v)
  BY DEF IsValue
<1>5. /\ IsSeq(t) /\ Len(t) = n + 1
      /\ \A i \in 1 .. n : t[i] = v[i]
      /\ \A i \in n + 1 .. n + 1 : t[i] = <<NL>>[i - n]
  BY <1>1, <1>2, <1>3, <1>4, ConcatIs
<1>6. t[n + 1] = NL
  <2>1. n + 1 \in n + 1 .. n + 1 /\ n + 1 - n = 1
    OBVIOUS
  <2>2. QED
    BY <1>3, <1>5, <2>1
<1>7. PICK e : e = n + 1
  OBVIOUS
<1>8. IsLineEnd(t, 1, e)
  <2>1. e \in 1 .. Len(t) + 1
    BY <1>5, <1>7
  <2>2. \A j \in 1 .. e - 1 : j \in 1 .. n
    BY <1>7
  <2>3. \A j \in 1 .. e - 1 : t[j] # NL
    BY <1>1, <1>5, <2>2 DEF IsValue
  <2>4. QED
    BY <1>6, <1>7, <2>1, <2>3 DEF IsLineEnd
<1>9. LineEnd(t, 1) = e
  <2>1. 1 \in 1 .. Len(t) + 1
    BY <1>5
  <2>2. QED
    BY <1>5, <1>8, <2>1, LineEndUnique
<1>10. PICK w : w = SubSeq(t, 1, n)
  OBVIOUS
<1>11. 1 \in Int /\ n \in Int /\ 1 <= 1 /\ n <= Len(t)
  BY <1>5
<1>12. /\ IsSeq(w) /\ Len(w) = IF 1 <= n THEN n - 1 + 1 ELSE 0
       /\ \A i \in 1 .. n - 1 + 1 : w[i] = t[1 + i - 1]
  BY <1>5, <1>10, <1>11, SubSeqIs
<1>13. Len(w) = n
  BY <1>12
<1>14. \A i \in 1 .. Len(w) : w[i] = v[i]
  <2>1. TAKE i \in 1 .. Len(w)
  <2>2. i \in 1 .. n - 1 + 1 /\ 1 + i - 1 = i /\ i \in 1 .. n
    BY <1>13
  <2>3. QED
    BY <1>5, <1>12, <2>2
<1>15. w = v
  BY <1>1, <1>4, <1>12, <1>13, <1>14, SeqSame
<1>16. e - 1 = n
  BY <1>7
<1>17. QED
  BY <1>2, <1>5, <1>9, <1>10, <1>15, <1>16 DEF FirstToken

Fetched(t) == IF t = <<>> \/ t[1] = NL THEN <<"0">> ELSE <<t[1]>>

(* The menu marks the run level of the file, if it is one that it offers. *)
LEMMA RunlevelShown ==
  ASSUME NEW t, IsSeq(t)
  PROVE  /\ IsSeq(FirstToken(t))
         /\ Sel(Fetched(t), Levels) = FirstToken(t) \/ FirstToken(t) \notin ToSet(Levels)
<1>1. PICK n \in Nat : n = Len(t)
  BY SeqShape
<1>2. PICK e : e = LineEnd(t, 1)
  OBVIOUS
<1>3. IsLineEnd(t, 1, e)
  <2>1. 1 \in 1 .. Len(t) + 1
    BY <1>1
  <2>2. QED
    BY <1>2, <2>1, LineEndExists
<1>4. e \in 1 .. n + 1
  BY <1>1, <1>3 DEF IsLineEnd
<1>5. PICK w : w = SubSeq(t, 1, e - 1)
  OBVIOUS
<1>6. 1 \in Int /\ e - 1 \in Int /\ 1 <= 1 /\ e - 1 <= Len(t)
  BY <1>1, <1>4
<1>7. /\ IsSeq(w) /\ Len(w) = IF 1 <= e - 1 THEN e - 1 - 1 + 1 ELSE 0
      /\ \A i \in 1 .. e - 1 - 1 + 1 : w[i] = t[1 + i - 1]
  BY <1>5, <1>6, SubSeqIs
<1>8. w = FirstToken(t)
  BY <1>2, <1>5 DEF FirstToken
<1>9. ASSUME w \in ToSet(Levels) PROVE Sel(Fetched(t), Levels) = w
  <2>1. PICK x : w = <<x>>
    BY <1>9 DEF Levels, OptionList, ToSet
  <2>2. Len(w) = 1 /\ w[1] = x
    BY <2>1, OneIs
  <2>3. e = 2
    <3>1. Len(w) = IF 1 <= e - 1 THEN e - 1 - 1 + 1 ELSE 0
      BY <1>7
    <3>2. e \in Int /\ 1 <= e
      BY <1>4
    <3>3. \A l : (l = IF 1 <= e - 1 THEN e - 1 - 1 + 1 ELSE 0) /\ l = 1 => e = 2
      BY <3>2
    <3>4. QED
      BY <2>2, <3>1, <3>3
  <2>4. w[1] = t[1]
    <3>1. 1 \in 1 .. e - 1 - 1 + 1 /\ 1 + 1 - 1 = 1
      BY <2>3
    <3>2. QED
      BY <1>7, <3>1
  <2>5. t[1] # NL
    <3>1. 1 \in 1 .. e - 1
      BY <2>3
    <3>2. QED
      BY <1>3, <3>1 DEF IsLineEnd
  <2>6. t # <<>>
    BY <1>1, <1>4, <2>3, EmptyIs
  <2>7. Fetched(t) = w
    BY <2>1, <2>2, <2>4, <2>5, <2>6 DEF Fetched
  <2>8. QED
    BY <1>9, <2>7 DEF Sel
<1>10. QED
  BY <1>7, <1>8, <1>9
-----------------------------------------------------------------------------
(* What the variables hold *)

KnownPages == KeywordPages \cup TextPages \cup {"top"}

FormOK(page, fields) ==
  /\ page = "top" => IsForm(fields, {"runlevel"}) /\ fields["runlevel"] \in ToSet(Levels)
  /\ page \in TextPages => /\ DOMAIN fields = {"text"} /\ fields = [k \in {"text"} |-> fields[k]]
                           /\ IsSeq(fields["text"])
  /\ page \in KeywordPages => IsForm(fields, FieldsOf(page))

IsScreen(s, pages) ==
  /\ s = [page |-> s.page, name |-> s.name, fields |-> s.fields, edited |-> s.edited,
          stale |-> s.stale]
  /\ s.page \in pages \cup {"top", "none", "error"}
  /\ FormOK(s.page, s.fields)

IsProc(r, s, pages) ==
  /\ r = [pc |-> r.pc, link |-> r.link, j_click |-> r.j_click, f_click |-> r.f_click]
  /\ r.pc \in {"idle", "main", "flush", "menu", "reboot"}
  /\ r.link \in pages \cup {None}
  /\ r.j_click \in {None, "IGNORE", "REFRESH"}
  /\ r.f_click \in {None, "OK", "CANCEL", "SAVE"}
  /\ r.pc = "flush" => s.page \in KeywordPages \cup {"top"} /\ Click(r) = "OK"

IsStore(fs) == fs = [p \in DOMAIN fs |-> fs[p]] /\ \A p \in DOMAIN fs : IsSeq(fs[p])

(* A value of a file as a user enters it *)
IsEntry(path, e) ==
  PageOf(path) \in KnownPages =>
    /\ DOMAIN e = FieldsOf(PageOf(path))
    /\ \A k \in DOMAIN e : IsSeq(e[k])

IsConfig(cf) == cf = [p \in DOMAIN cf |-> cf[p]] /\ \A p \in DOMAIN cf : IsEntry(p, cf[p])

BrowserInv(b) == IsScreen(screen[b], Pages[b]) /\ IsProc(proc[b], screen[b], Pages[b])

ShapeInv ==
  /\ IsStore(files) /\ IsStore(archive.files)
  /\ IsConfig(config) /\ IsConfig(archive.config)
  /\ DOMAIN config \subseteq DOMAIN files
  /\ DOMAIN archive.config \subseteq DOMAIN archive.files
  /\ up \in BOOLEAN
  /\ screen = [b \in Browsers |-> screen[b]]
  /\ proc = [b \in Browsers |-> proc[b]]
  /\ \A b \in Browsers : BrowserInv(b)
  /\ forms \in 0 .. MaxForms /\ faults \in 0 .. MaxFaults

-----------------------------------------------------------------------------
(* Paths and pages *)

LEMMA ShortPath == \A p, n, q : <<p, n>> # <<q>>
<1>1. TAKE p, n, q
<1>2. DOMAIN <<p, n>> = 1 .. 2 /\ DOMAIN <<q>> = 1 .. 1
  OBVIOUS
<1>3. 2 \in 1 .. 2 /\ 2 \notin 1 .. 1
  OBVIOUS
<1>4. QED
  BY <1>2, <1>3

(* The page of a file is the page that writes it. *)
LEMMA PageOfPath ==
  ASSUME NEW page \in KnownPages, NEW name
  PROVE  PageOf(Path(page, name)) = page
<1>1. CASE page \in NamedPages
  <2>1. Path(page, name) = <<page, name>>
    BY <1>1 DEF Path, NamedPages
  <2>2. PICK path : path = <<page, name>>
    OBVIOUS
  <2>3. /\ path # <<"runlevel">> /\ path # <<"netcfg">> /\ path # <<"udhcpd.conf">>
        /\ path # <<"telnetd.hosts">> /\ path # <<"httpd.conf">>
    BY <2>2, ShortPath
  <2>4. path[1] = page
    BY <2>2
  <2>5. PageOf(path) = page
    BY <2>3, <2>4 DEF PageOf
  <2>6. QED
    BY <2>1, <2>2, <2>5
<1>2. CASE page = "top"
  BY <1>2 DEF Path, PageOf, NamedPages
<1>3. CASE page = "network"
  BY <1>3 DEF Path, PageOf, NamedPages
<1>4. CASE page = "udhcpd"
  BY <1>4 DEF Path, PageOf, NamedPages
<1>5. CASE page = "telnetd"
  BY <1>5 DEF Path, PageOf, NamedPages
<1>6. CASE page = "httpd"
  BY <1>6 DEF Path, PageOf, NamedPages
<1>7. CASE page = "kaodv"
  <2>1. Path(page, name) = <<"kaodv">>
    BY <1>7 DEF Path, NamedPages
  <2>2. QED
    BY <1>7, <2>1 DEF PageOf
<1>8. QED
  BY <1>1, <1>2, <1>3, <1>4, <1>5, <1>6, <1>7
     DEF KnownPages, KeywordPages, TextPages, NamedPages

LEMMA PagesAre ==
  ASSUME NEW b \in Browsers
  PROVE  /\ \A page \in Pages[b] : page \in KeywordPages \cup TextPages \cup {"status"}
         /\ KnownPages \cap {"none", "error", "status"} = {}
         /\ KeywordPages \cap TextPages = {} /\ "top" \notin KeywordPages \cup TextPages
         /\ NamedPages \subseteq KeywordPages \cup TextPages
BY PagesAssumption DEF KnownPages, KeywordPages, TextPages, NamedPages

(* What FileValues makes of a file *)
LEMMA FileValuesOf ==
  ASSUME NEW path, NEW t
  PROVE  /\ PageOf(path) = "top" => FileValues(path, t) = [runlevel |-> FirstToken(t)]
         /\ PageOf(path) \in TextPages => FileValues(path, t) = [text |-> t]
         /\ PageOf(path) \in KeywordPages => FileValues(path, t) = PageValues(PageOf(path), t)
<1>1. PICK page : page = PageOf(path)
  OBVIOUS
<1>2. CASE page = "top"
  BY <1>1, <1>2 DEF FileValues, FirstToken, TextPages, KeywordPages
<1>3. CASE page \in TextPages
  BY <1>1, <1>3 DEF FileValues, TextPages, KeywordPages
<1>4. CASE page \in KeywordPages
  BY <1>1, <1>4 DEF FileValues, TextPages, KeywordPages
<1>5. QED
  BY <1>1, <1>2, <1>3, <1>4

LEMMA FileValuesEntry ==
  ASSUME NEW path, NEW t, IsSeq(t)
  PROVE  IsEntry(path, FileValues(path, t))
<1>1. PICK page : page = PageOf(path)
  OBVIOUS
<1>2. CASE page = "top"
  <2>1. FileValues(path, t) = [runlevel |-> FirstToken(t)]
    BY <1>1, <1>2, FileValuesOf
  <2>2. IsSeq(FirstToken(t))
    BY RunlevelShown
  <2>3. QED
    BY <1>1, <1>2, <2>1, <2>2, FieldsAre DEF IsEntry
<1>3. CASE page \in TextPages
  <2>1. FileValues(path, t) = [text |-> t]
    BY <1>1, <1>3, FileValuesOf
  <2>2. QED
    BY <1>1, <1>3, <2>1, FieldsAre DEF IsEntry
<1>4. CASE page \in KeywordPages
  <2>1. FileValues(path, t) = PageValues(page, t)
    BY <1>1, <1>4, FileValuesOf
  <2>2. IsForm(PageValues(page, t), FieldsOf(page))
    BY <1>4, PageValuesAre
  <2>3. QED
    BY <1>1, <2>1, <2>2 DEF IsEntry, IsForm, IsValue
<1>5. CASE page \notin KnownPages
  BY <1>1, <1>5 DEF IsEntry
<1>6. QED
  BY <1>2, <1>3, <1>4, <1>5 DEF KnownPages
-----------------------------------------------------------------------------
(* The steps keep the shape of the state *)

Same(c)  == screen'[c] = screen[c] /\ proc'[c] = proc[c]
Alone(b) == \A c \in Browsers \ {b} : Same(c)

(* What the steps of one browser that touch no other browser have in common *)
OneBrowser(b) ==
  /\ Alone(b) /\ BrowserInv(b)'
  /\ screen' = [c \in Browsers |-> screen'[c]]
  /\ proc' = [c \in Browsers |-> proc'[c]]

LEMMA OneBrowserShape ==
  ASSUME NEW b \in Browsers, ShapeInv, OneBrowser(b)
  PROVE  \A c \in Browsers : BrowserInv(c)'
<1>1. \A c \in Browsers : BrowserInv(c)
  BY DEF ShapeInv
<1>2. ASSUME NEW c \in Browsers \ {b} PROVE BrowserInv(c)'
  BY <1>1, <1>2 DEF BrowserInv, OneBrowser, Alone, Same
<1>3. QED
  BY <1>2 DEF OneBrowser

(* A new form on the screen, or a new request, leaves the rest in shape *)
LEMMA ScreenSet ==
  ASSUME NEW b \in Browsers, ShapeInv, NEW s, screen' = [screen EXCEPT ![b] = s]
  PROVE  /\ screen'[b] = s /\ \A c \in Browsers \ {b} : screen'[c] = screen[c]
         /\ screen' = [c \in Browsers |-> screen'[c]]
BY DEF ShapeInv

LEMMA ProcSet ==
  ASSUME NEW b \in Browsers, ShapeInv, NEW r, proc' = [proc EXCEPT ![b] = r]
  PROVE  /\ proc'[b] = r /\ \A c \in Browsers \ {b} : proc'[c] = proc[c]
         /\ proc' = [c \in Browsers |-> proc'[c]]
BY DEF ShapeInv

LEMMA Settled ==
  ASSUME NEW b \in Browsers, ShapeInv
  PROVE  /\ UNCHANGED screen => /\ \A c \in Browsers : screen'[c] = screen[c]
                                /\ screen' = [c \in Browsers |-> screen'[c]]
         /\ UNCHANGED proc => /\ \A c \in Browsers : proc'[c] = proc[c]
                              /\ proc' = [c \in Browsers |-> proc'[c]]
BY DEF ShapeInv

Request(link, j_click, f_click) ==
  [pc |-> "main", link |-> link, j_click |-> j_click, f_click |-> f_click]

LEMMA SendStep ==
  ASSUME NEW b \in Browsers, ShapeInv, NEW link \in Pages[b] \cup {None},
         NEW j_click \in {None, "IGNORE", "REFRESH"},
         NEW f_click \in {None, "OK", "CANCEL", "SAVE"}, Send(b, link, j_click, f_click)
  PROVE  /\ proc'[b] = Request(link, j_click, f_click)
         /\ \A c \in Browsers \ {b} : proc'[c] = proc[c]
         /\ proc' = [c \in Browsers |-> proc'[c]]
         /\ \A s : IsProc(proc'[b], s, Pages[b])
<1>1. proc' = [proc EXCEPT ![b] = Request(link, j_click, f_click)]
  BY DEF Send, Request
<1>2. /\ proc'[b] = Request(link, j_click, f_click)
      /\ \A c \in Browsers \ {b} : proc'[c] = proc[c]
      /\ proc' = [c \in Browsers |-> proc'[c]]
  BY <1>1, ProcSet
<1>3. \A s : IsProc(Request(link, j_click, f_click), s, Pages[b])
  BY DEF IsProc, Request
<1>4. QED
  BY <1>2, <1>3

(* What a browser may enter keeps its form in shape. *)
LEMMA EnterableIs ==
  ASSUME NEW s, NEW pages, IsScreen(s, pages), NEW k \in DOMAIN s.fields,
         NEW v \in Enterable(s.page, k)
  PROVE  FormOK(s.page, [s.fields EXCEPT ![k] = v])
<1>1. PICK page, f : page = s.page /\ f = s.fields
  OBVIOUS
<1>2. FormOK(page, f) /\ k \in DOMAIN f /\ v \in Enterable(page, k)
  BY <1>1 DEF IsScreen
<1>3. CASE page = "top"
  <2>1. v \in ToSet(Levels)
    BY <1>2, <1>3 DEF Enterable, Levels, TextPages
  <2>2. IsValue(v)
    BY <2>1, LevelsAre DEF IsOptions
  <2>3. IsForm(f, {"runlevel"}) /\ k = "runlevel"
    BY <1>2, <1>3 DEF FormOK, IsForm
  <2>4. PICK g : g = [f EXCEPT ![k] = v]
    OBVIOUS
  <2>5. DOMAIN g = {"runlevel"} /\ g["runlevel"] = v /\ g = [x \in {"runlevel"} |-> g[x]]
    BY <2>3, <2>4 DEF IsForm
  <2>6. FormOK(page, g)
    BY <1>3, <2>1, <2>2, <2>5 DEF FormOK, IsForm, KeywordPages, TextPages
  <2>7. QED
    BY <1>1, <2>4, <2>6
<1>4. CASE page \in TextPages
  <2>1. v \in Texts
    BY <1>2, <1>4 DEF Enterable, TextPages
  <2>2. IsSeq(v)
    BY <2>1, TextsAssumption, SeqIs
  <2>3. DOMAIN f = {"text"} /\ f = [x \in {"text"} |-> f[x]] /\ k = "text"
    BY <1>2, <1>4 DEF FormOK
  <2>4. PICK g : g = [f EXCEPT ![k] = v]
    OBVIOUS
  <2>5. DOMAIN g = {"text"} /\ g["text"] = v /\ g = [x \in {"text"} |-> g[x]]
    BY <2>3, <2>4
  <2>6. FormOK(page, g)
    BY <1>4, <2>2, <2>5 DEF FormOK, KeywordPages, TextPages
  <2>7. QED
    BY <1>1, <2>4, <2>6
<1>5. CASE page \in KeywordPages
  <2>1. Enterable(page, k) = IF k \in DOMAIN PageChoices(page)
                             THEN ToSet(PageChoices(page)[k]) ELSE Words
    BY <1>5 DEF Enterable, KeywordPages, TextPages
  <2>2. IsValue(v)
    <3>1. CASE k \in DOMAIN PageChoices(page)
      BY <1>2, <1>5, <2>1, <3>1, ChoicesAre DEF IsChoices, IsOptions
    <3>2. CASE k \notin DOMAIN PageChoices(page)
      <4>1. v \in Seq(STRING) /\ NL \notin ToSet(v)
        BY <1>2, <2>1, <3>2, WordsAssumption
      <4>2. IsSeq(v)
        BY <4>1, SeqIs
      <4>3. QED
        BY <4>1, <4>2, SeqShape DEF IsValue, ToSet
    <3>3. QED
      BY <3>1, <3>2
  <2>3. PICK K : K = FieldsOf(page)
    OBVIOUS
  <2>4. IsForm(f, K)
    BY <1>2, <1>5, <2>3 DEF FormOK
  <2>5. PICK g : g = [f EXCEPT ![k] = v]
    OBVIOUS
  <2>6. IsForm(g, K)
    BY <1>2, <2>2, <2>4, <2>5 DEF IsForm
  <2>7. FormOK(page, g)
    BY <1>5, <2>3, <2>6 DEF FormOK, KeywordPages, TextPages
  <2>8. QED
    BY <1>1, <2>5, <2>7
<1>6. CASE page \notin KnownPages
  BY <1>1, <1>6 DEF FormOK, KnownPages
<1>7. QED
  BY <1>3, <1>4, <1>5, <1>6 DEF KnownPages
(* A change of a form that its page allows *)
LEMMA FormSet ==
  ASSUME NEW b \in Browsers, ShapeInv, NEW s, screen' = [screen EXCEPT ![b] = s],
         IsScreen(s, Pages[b]), UNCHANGED proc, proc[b] = Idle
  PROVE  OneBrowser(b)
<1>1. /\ screen'[b] = s /\ \A c \in Browsers \ {b} : screen'[c] = screen[c]
      /\ screen' = [c \in Browsers |-> screen'[c]]
  BY ScreenSet
<1>2. /\ \A c \in Browsers : proc'[c] = proc[c]
      /\ proc' = [c \in Browsers |-> proc'[c]]
  BY Settled
<1>3. IsProc(Idle, s, Pages[b])
  BY DEF IsProc, Idle
<1>4. QED
  BY <1>1, <1>2, <1>3 DEF OneBrowser, Alone, Same, BrowserInv

(* A request that leaves the form as it is *)
LEMMA RequestSent ==
  ASSUME NEW b \in Browsers, ShapeInv, NEW link \in Pages[b] \cup {None},
         NEW j_click \in {None, "IGNORE", "REFRESH"},
         NEW f_click \in {None, "OK", "CANCEL", "SAVE"}, Send(b, link, j_click, f_click),
         NEW s, IsScreen(s, Pages[b]),
         (s = screen[b] /\ UNCHANGED screen) \/ screen' = [screen EXCEPT ![b] = s]
  PROVE  /\ OneBrowser(b)
         /\ screen'[b] = s /\ proc'[b] = Request(link, j_click, f_click)
<1>1. /\ proc'[b] = Request(link, j_click, f_click)
      /\ \A c \in Browsers \ {b} : proc'[c] = proc[c]
      /\ proc' = [c \in Browsers |-> proc'[c]]
      /\ \A x : IsProc(proc'[b], x, Pages[b])
  BY SendStep
<1>2. /\ screen'[b] = s /\ \A c \in Browsers \ {b} : screen'[c] = screen[c]
      /\ screen' = [c \in Browsers |-> screen'[c]]
  BY ScreenSet, Settled
<1>3. QED
  BY <1>1, <1>2 DEF OneBrowser, Alone, Same, BrowserInv

LEMMA SubmitIs ==
  ASSUME NEW b, NEW j_click, NEW f_click, Submit(b, j_click, f_click), ShapeInv
  PROVE  Send(b, None, j_click, f_click) /\ forms' \in 0 .. MaxForms
BY BoundsAssumption DEF Submit, ShapeInv

(* What a user does changes no file. *)
Untouched == UNCHANGED <<files, archive, up, faults, history>>

LEMMA UserStep ==
  ASSUME NEW b \in Browsers, ShapeInv, User(b)
  PROVE  /\ OneBrowser(b) /\ Untouched /\ forms' \in 0 .. MaxForms
         /\ proc[b] = Idle /\ proc'[b].pc \in {"idle", "main"}
<1> USE DEF Untouched
<1>0. /\ IsScreen(screen[b], Pages[b]) /\ forms \in 0 .. MaxForms
      /\ screen[b] = [page |-> screen[b].page, name |-> screen[b].name,
                      fields |-> screen[b].fields, edited |-> screen[b].edited,
                      stale |-> screen[b].stale]
  BY DEF ShapeInv, BrowserInv, IsScreen
<1>a. \A link, j_click, f_click : Request(link, j_click, f_click).pc = "main"
  BY DEF Request
<1>b. Idle.pc = "idle"
  BY DEF Idle
<1>1. CASE Visit(b)
  <2>1. Send(b, None, None, None) /\ UNCHANGED <<screen, forms>> /\ proc[b] = Idle
    BY <1>1 DEF Visit, Waiting
  <2>2. OneBrowser(b) /\ proc'[b] = Request(None, None, None)
    BY <1>0, <2>1, RequestSent
  <2>3. QED
    BY <1>0, <1>a, <2>1, <2>2 DEF Send
<1>2. CASE \E page \in Pages[b] : Follow(b, page)
  <2>1. PICK page \in Pages[b] : Follow(b, page)
    BY <1>2
  <2>2. Send(b, page, None, None) /\ UNCHANGED <<screen, forms>> /\ proc[b] = Idle
    BY <2>1 DEF Follow, Waiting
  <2>3. OneBrowser(b) /\ proc'[b] = Request(page, None, None)
    BY <1>0, <2>2, RequestSent
  <2>4. QED
    BY <1>0, <1>a, <2>2, <2>3 DEF Send
<1>3. CASE \E click \in {"OK", "CANCEL", "SAVE"} : Press(b, click)
  <2>1. PICK click \in {"OK", "CANCEL", "SAVE"} : Press(b, click)
    BY <1>3
  <2>2. Submit(b, "IGNORE", click) /\ UNCHANGED screen /\ proc[b] = Idle
    BY <2>1 DEF Press, Waiting
  <2>3. Send(b, None, "IGNORE", click) /\ forms' \in 0 .. MaxForms
    BY <2>2, SubmitIs
  <2>4. OneBrowser(b) /\ proc'[b] = Request(None, "IGNORE", click)
    BY <1>0, <2>2, <2>3, RequestSent
  <2>5. QED
    BY <1>a, <2>2, <2>3, <2>4 DEF Send
<1>4. CASE \E name \in Names \cup {"New", "__new"} : Choose(b, name)
  <2>1. PICK name \in Names \cup {"New", "__new"} : Choose(b, name)
    BY <1>4
  <2>2. /\ Submit(b, "REFRESH", None) /\ proc[b] = Idle
        /\ screen' = [screen EXCEPT ![b].name = name]
    BY <2>1 DEF Choose, Waiting
  <2>3. Send(b, None, "REFRESH", None) /\ forms' \in 0 .. MaxForms
    BY <2>2, SubmitIs
  <2>4. PICK s : s = [screen[b] EXCEPT !.name = name]
    OBVIOUS
  <2>5. IsScreen(s, Pages[b])
    BY <1>0, <2>4 DEF IsScreen
  <2>6. screen' = [screen EXCEPT ![b] = s]
    BY <2>2, <2>4
  <2>7. OneBrowser(b) /\ proc'[b] = Request(None, "REFRESH", None)
    BY <2>3, <2>5, <2>6, RequestSent
  <2>8. QED
    BY <1>a, <2>2, <2>3, <2>7 DEF Send
<1>5. CASE \E gw \in ToSet(EnabledDisabled) : ChooseMode(b, gw)
  <2>1. PICK gw \in ToSet(EnabledDisabled) : ChooseMode(b, gw)
    BY <1>5
  <2>2. /\ Submit(b, "REFRESH", None) /\ proc[b] = Idle /\ screen[b].page = "kaodv"
        /\ screen' = [screen EXCEPT ![b].fields["kaodv_gw"] = gw]
    BY <2>1 DEF ChooseMode, Waiting
  <2>3. Send(b, None, "REFRESH", None) /\ forms' \in 0 .. MaxForms
    BY <2>2, SubmitIs
  <2>4. PICK f, g : f = screen[b].fields /\ g = [f EXCEPT !["kaodv_gw"] = gw]
    OBVIOUS
  <2>5. PICK s : s = [screen[b] EXCEPT !.fields = g]
    OBVIOUS
  <2>6. FormOK("kaodv", g)
    <3>1. PICK K : K = FieldsOf("kaodv")
      OBVIOUS
    <3>2. IsForm(f, K)
      BY <1>0, <2>2, <2>4, <3>1 DEF IsScreen, FormOK, KeywordPages
    <3>3. IsValue(gw)
      BY <2>1, EnabledDisabledIs DEF IsOptions
    <3>4. IsForm(g, K)
      BY <2>4, <3>2, <3>3 DEF IsForm
    <3>5. QED
      BY <3>1, <3>4 DEF FormOK, TextPages
  <2>7. s = [page |-> s.page, name |-> s.name, fields |-> s.fields, edited |-> s.edited,
             stale |-> s.stale] /\ s.page = screen[b].page /\ s.fields = g
    BY <1>0, <2>5
  <2>8. IsScreen(s, Pages[b])
    BY <1>0, <2>2, <2>6, <2>7 DEF IsScreen
  <2>9. screen' = [screen EXCEPT ![b] = s]
    BY <2>2, <2>4, <2>5
  <2>10. OneBrowser(b) /\ proc'[b] = Request(None, "REFRESH", None)
    BY <2>3, <2>8, <2>9, RequestSent
  <2>11. QED
    BY <1>a, <2>2, <2>3, <2>10 DEF Send
<1>6. CASE \E k \in Editable \cap DOMAIN screen[b].fields :
             \E v \in Enterable(screen[b].page, k) : Enter(b, k, v)
  <2>0. PICK k \in DOMAIN screen[b].fields :
          \E v \in Enterable(screen[b].page, k) : Enter(b, k, v)
    BY <1>6
  <2>1. PICK v \in Enterable(screen[b].page, k) : Enter(b, k, v)
    BY <2>0
  <2>2. /\ screen' = [screen EXCEPT ![b].fields[k] = v, ![b].edited = @ \cup {k}]
        /\ proc[b] = Idle /\ Untouched /\ UNCHANGED <<proc, forms>>
    BY <2>1 DEF Enter, Waiting
  <2>3. PICK g : g = [screen[b].fields EXCEPT ![k] = v]
    OBVIOUS
  <2>4. FormOK(screen[b].page, g)
    BY <1>0, <2>1, <2>3, EnterableIs
  <2>5. PICK s : s = [screen[b] EXCEPT !.fields = g, !.edited = @ \cup {k}]
    OBVIOUS
  <2>6. s = [page |-> s.page, name |-> s.name, fields |-> s.fields, edited |-> s.edited,
             stale |-> s.stale] /\ s.page = screen[b].page /\ s.fields = g
    BY <1>0, <2>5
  <2>7. IsScreen(s, Pages[b])
    BY <1>0, <2>4, <2>6 DEF IsScreen
  <2>8. screen' = [screen EXCEPT ![b] = s]
    BY <2>2, <2>3, <2>5 DEF ShapeInv
  <2>9. OneBrowser(b)
    BY <2>2, <2>7, <2>8, FormSet
  <2>10. proc'[b] = Idle
    BY <2>2
  <2>11. QED
    BY <1>0, <1>b, <2>2, <2>9, <2>10
<1>7. CASE \E name \in Names \cup {""} : EnterName(b, name)
  <2>1. PICK name \in Names \cup {""} : EnterName(b, name)
    BY <1>7
  <2>2. /\ screen' = [screen EXCEPT ![b].name = name]
        /\ proc[b] = Idle /\ Untouched /\ UNCHANGED <<proc, forms>>
    BY <2>1 DEF EnterName, Waiting
  <2>3. PICK s : s = [screen[b] EXCEPT !.name = name]
    OBVIOUS
  <2>4. IsScreen(s, Pages[b])
    BY <1>0, <2>3 DEF IsScreen
  <2>5. screen' = [screen EXCEPT ![b] = s]
    BY <2>2, <2>3
  <2>6. OneBrowser(b)
    BY <2>2, <2>4, <2>5, FormSet
  <2>7. proc'[b] = Idle
    BY <2>2
  <2>8. QED
    BY <1>0, <1>b, <2>2, <2>6, <2>7
<1>8. QED
  BY <1>1, <1>2, <1>3, <1>4, <1>5, <1>6, <1>7 DEF User
(* What main calls, and when *)
LEMMA HandlerIs ==
  ASSUME NEW b \in Browsers, ShapeInv, NEW what, Called(b, what)
  PROVE  /\ proc[b].pc = "main"
         /\ what = "write" => Click(proc[b]) = "OK"
         /\ what = "save" => Click(proc[b]) = "SAVE"
         /\ what = "refresh" => Click(proc[b]) = "REFRESH"
         /\ what = "menu" => Click(proc[b]) \in {None, "REFRESH"}
         /\ Cfg(b) = IF Click(proc[b]) = None THEN proc[b].link ELSE screen[b].page
<1>1. PICK c : c = Click(proc[b])
  OBVIOUS
<1>2. c \in {None, "OK", "CANCEL", "SAVE", "REFRESH"}
  BY <1>1 DEF ShapeInv, BrowserInv, IsProc, Click, None
<1>3. Handler(b) = what /\ proc[b].pc = "main"
  BY DEF Called
<1>4. CASE c = None
  <2>1. Handler(b) = "menu"
    BY <1>1, <1>4 DEF Handler, None
  <2>2. QED
    BY <1>1, <1>3, <1>4, <2>1 DEF Cfg
<1>5. CASE c = "OK"
  <2>1. Handler(b) = "write" \/ Handler(b) = "top"
    BY <1>1, <1>5 DEF Handler, Dispatch, None
  <2>2. QED
    BY <1>1, <1>3, <1>5, <2>1 DEF Cfg
<1>6. CASE c = "CANCEL"
  <2>1. Handler(b) = "top"
    BY <1>1, <1>6 DEF Handler, None
  <2>2. QED
    BY <1>1, <1>3, <1>6, <2>1 DEF Cfg
<1>7. CASE c = "SAVE"
  <2>1. Handler(b) = "save"
    BY <1>1, <1>7 DEF Handler, None
  <2>2. QED
    BY <1>1, <1>3, <1>7, <2>1 DEF Cfg
<1>8. CASE c = "REFRESH"
  <2>1. Handler(b) = "refresh" \/ Handler(b) = "menu"
    BY <1>1, <1>8 DEF Handler, Dispatch, None
  <2>2. QED
    BY <1>1, <1>3, <1>8, <2>1 DEF Cfg
<1>9. QED
  BY <1>2, <1>4, <1>5, <1>6, <1>7, <1>8

LEMMA ReadIs ==
  ASSUME NEW path, ShapeInv
  PROVE  IsSeq(Read(path))
BY EmptyIs DEF Read, ShapeInv, IsStore

LEMMA TopMenuIs ==
  ASSUME ShapeInv
  PROVE  \A pages : IsScreen(TopMenu, pages)
<1>1. PICK r : r = Sel(FetchRunlevel, Levels)
  OBVIOUS
<1>2. r \in ToSet(Levels)
  BY <1>1, LevelsAre, SelIs
<1>3. IsValue(r)
  BY <1>2, LevelsAre DEF IsOptions
<1>4. IsForm([runlevel |-> r], {"runlevel"})
  BY <1>3 DEF IsForm
<1>5. FormOK("top", [runlevel |-> r])
  BY <1>2, <1>4 DEF FormOK, KeywordPages, TextPages
<1>6. TopMenu = Show("top", None, [runlevel |-> r])
  BY <1>1 DEF TopMenu, Levels
<1>7. QED
  BY <1>5, <1>6 DEF IsScreen, Show

LEMMA BlankIs ==
  \A pages : IsScreen(Blank, pages) /\ IsScreen(Error, pages)
BY DEF IsScreen, Blank, Error, Show, FormOK, KeywordPages, TextPages

LEMMA TextIs ==
  ASSUME NEW t, IsSeq(t)
  PROVE  /\ DOMAIN Text(t) = {"text"} /\ Text(t) = [k \in {"text"} |-> Text(t)[k]]
         /\ IsSeq(Text(t)["text"]) /\ IsPrefix(Text(t)["text"], t)
<1>0. PICK n \in Nat : n = Len(t)
  BY SeqShape
<1>1. PICK m : n = Len(t) /\ m = Min({Len(t), TextLimit})
  BY <1>0
<1>2. m \in {n, TextLimit} /\ m <= n
  <2>1. {n, TextLimit} \subseteq Nat
    BY TextLimitAssumption
  <2>2. \E x \in {n, TextLimit} : \A y \in {n, TextLimit} : x <= y
    BY <2>1
  <2>3. m \in {n, TextLimit} /\ \A y \in {n, TextLimit} : m <= y
    BY <1>1, <2>2 DEF Min
  <2>4. QED
    BY <2>3
<1>3. m \in Nat
  BY <1>2, TextLimitAssumption
<1>4. PICK w : w = SubSeq(t, 1, m)
  OBVIOUS
<1>5. 1 \in Int /\ m \in Int /\ 1 <= 1 /\ m <= Len(t)
  BY <1>1, <1>2, <1>3
<1>6. /\ IsSeq(w) /\ Len(w) = IF 1 <= m THEN m - 1 + 1 ELSE 0
      /\ \A i \in 1 .. m - 1 + 1 : w[i] = t[1 + i - 1]
  BY <1>4, <1>5, SubSeqIs
<1>7. Len(w) = m
  BY <1>3, <1>6
<1>8. \A i \in 1 .. Len(w) : w[i] = t[i]
  BY <1>3, <1>6, <1>7
<1>9. IsPrefix(w, t)
  <2>1. Len(w) <= Len(t)
    BY <1>5, <1>7
  <2>2. QED
    BY <1>6, <1>8, <2>1, PrefixIs
<1>10. Text(t) = [text |-> w]
  BY <1>1, <1>4 DEF Text
<1>11. QED
  BY <1>6, <1>9, <1>10

LEMMA TextMenuIs ==
  ASSUME NEW page \in TextPages, NEW t, NEW gwSel
  PROVE  PageMenu(page, t, gwSel) = Text(t)
BY DEF TextPages, PageMenu, TelnetdMenu, HttpdMenu, OpenvpnMenu

(* The mode that a refresh of kaodv shows, none for every other request *)
ModeSel(b, page) == IF Handler(b) = "refresh" /\ page = "kaodv"
                    THEN screen[b].fields["kaodv_gw"] ELSE None
IsNew(page, name) == page \in NamedPages /\ name \in {"", "__new"}

(* The screen s shows the file of a page: its form is f. *)
IsShown(s, page, name, f, mode) ==
  /\ s = [page |-> s.page, name |-> s.name, fields |-> s.fields,
          edited |-> s.edited, stale |-> s.stale]
  /\ s.page = page /\ s.fields = f /\ s.stale = FALSE
  /\ s.name = IF IsNew(page, name) THEN "New" ELSE name
  /\ s.edited = IF IsNew(page, name) THEN {"name"}
                ELSE IF mode # None THEN {"kaodv_gw"} ELSE {}

LEMMA ShownIs ==
  ASSUME NEW b, NEW page, NEW name
  PROVE  IsShown(Shown(b, page, name), page, name,
                 PageMenu(page, Read(Path(page, name)), ModeSel(b, page)), ModeSel(b, page))
<1>1. PICK f : f = PageMenu(page, Read(Path(page, name)), ModeSel(b, page))
  OBVIOUS
<1>2. PICK s : s = Shown(b, page, name)
  OBVIOUS
<1>3. s = [Show(page, IF IsNew(page, name) THEN "New" ELSE name, f) EXCEPT
             !.edited = IF IsNew(page, name) THEN {"name"}
                        ELSE IF ModeSel(b, page) # None THEN {"kaodv_gw"} ELSE {}]
  BY <1>1, <1>2 DEF Shown, ModeSel, IsNew
<1>4. QED
  BY <1>1, <1>2, <1>3 DEF Show, IsShown

(* A refresh of kaodv comes from its own form. *)
LEMMA ModeSelIs ==
  ASSUME NEW b \in Browsers, ShapeInv, Called(b, "menu") \/ Called(b, "refresh"),
         NEW page, page = Cfg(b)
  PROVE  ModeSel(b, page) # None => /\ page = "kaodv" /\ screen[b].page = "kaodv"
                                    /\ Click(proc[b]) = "REFRESH"
                                    /\ IsValue(ModeSel(b, page))
                                    /\ ModeSel(b, page) = screen[b].fields["kaodv_gw"]
<1>1. HAVE ModeSel(b, page) # None
<1>2. Handler(b) = "refresh" /\ page = "kaodv"
  BY <1>1 DEF ModeSel
<1>3. Click(proc[b]) = "REFRESH"
  <2>1. Called(b, "refresh")
    BY <1>2 DEF Called
  <2>2. QED
    BY <2>1, HandlerIs
<1>4. screen[b].page = "kaodv"
  BY <1>2, <1>3 DEF Cfg, None
<1>5. ModeSel(b, page) = screen[b].fields["kaodv_gw"]
  BY <1>2 DEF ModeSel
<1>6. IsForm(screen[b].fields, FieldsOf("kaodv"))
  BY <1>4 DEF ShapeInv, BrowserInv, IsScreen, FormOK, KeywordPages
<1>7. "kaodv_gw" \in FieldsOf("kaodv")
  BY ChoicesAre DEF PageChoices, KaodvChoices, KeywordPages
<1>8. QED
  BY <1>2, <1>3, <1>4, <1>5, <1>6, <1>7 DEF IsForm

LEMMA ShownShape ==
  ASSUME NEW b \in Browsers, ShapeInv, Called(b, "menu") \/ Called(b, "refresh"),
         Cfg(b) \in Pages[b] \ {"status"}, NEW name
  PROVE  IsScreen(Shown(b, Cfg(b), name), Pages[b])
<1>1. PICK page, gwSel : page = Cfg(b) /\ gwSel = ModeSel(b, page)
  OBVIOUS
<1>2. PICK t : t = Read(Path(page, name))
  OBVIOUS
<1>3. IsSeq(t)
  BY <1>2, ReadIs
<1>4. gwSel # None => IsValue(gwSel)
  BY <1>1, ModeSelIs
<1>5. page \in KeywordPages \cup TextPages /\ page # "top"
  BY <1>1, PagesAre
<1>6. PICK f : f = PageMenu(page, t, gwSel)
  OBVIOUS
<1>7. FormOK(page, f)
  <2>1. CASE page \in KeywordPages
    <3>1. IsForm(f, FieldsOf(page))
      BY <1>3, <1>4, <1>6, <2>1, PageMenuIs
    <3>2. QED
      BY <1>5, <2>1, <3>1, PagesAre DEF FormOK
  <2>2. CASE page \in TextPages
    <3>1. f = Text(t)
      BY <1>6, <2>2, TextMenuIs
    <3>2. QED
      BY <1>3, <1>5, <2>2, <3>1, TextIs, PagesAre DEF FormOK
  <2>3. QED
    BY <1>5, <2>1, <2>2
<1>8. PICK s : s = Shown(b, page, name)
  OBVIOUS
<1>9. IsShown(s, page, name, f, gwSel)
  <2>1. IsShown(Shown(b, page, name), page, name,
                PageMenu(page, Read(Path(page, name)), ModeSel(b, page)), ModeSel(b, page))
    BY ShownIs
  <2>2. QED
    BY <1>1, <1>2, <1>6, <1>8, <2>1
<1>10. IsScreen(s, Pages[b])
  BY <1>1, <1>7, <1>9 DEF IsScreen, IsShown
<1>11. QED
  BY <1>1, <1>8, <1>10
LEMMA ExitStep ==
  ASSUME NEW b \in Browsers, ShapeInv, NEW s, IsScreen(s, Pages[b]), Exit(b, s)
  PROVE  OneBrowser(b) /\ screen'[b] = s /\ proc'[b] = Idle
<1>1. /\ screen'[b] = s /\ \A c \in Browsers \ {b} : screen'[c] = screen[c]
      /\ screen' = [c \in Browsers |-> screen'[c]]
  BY ScreenSet DEF Exit
<1>2. /\ proc'[b] = Idle /\ \A c \in Browsers \ {b} : proc'[c] = proc[c]
      /\ proc' = [c \in Browsers |-> proc'[c]]
  BY ProcSet DEF Exit
<1>3. IsProc(Idle, s, Pages[b])
  BY DEF IsProc, Idle
<1>4. QED
  BY <1>1, <1>2, <1>3 DEF OneBrowser, Alone, Same, BrowserInv

LEMMA GotoStep ==
  ASSUME NEW b \in Browsers, ShapeInv, NEW pc \in {"flush", "menu", "reboot"}, Goto(b, pc),
         pc = "flush" => screen[b].page \in KeywordPages \cup {"top"} /\ Click(proc[b]) = "OK"
  PROVE  /\ proc'[b].pc = pc /\ Click(proc'[b]) = Click(proc[b])
         /\ \A c \in Browsers \ {b} : proc'[c] = proc[c]
         /\ proc' = [c \in Browsers |-> proc'[c]]
         /\ IsProc(proc'[b], screen[b], Pages[b])
<1>1. PICK r, q : r = proc[b] /\ q = [r EXCEPT !.pc = pc]
  OBVIOUS
<1>2. IsProc(r, screen[b], Pages[b])
  BY <1>1 DEF ShapeInv, BrowserInv
<1>3. /\ q = [pc |-> q.pc, link |-> q.link, j_click |-> q.j_click, f_click |-> q.f_click]
      /\ q.pc = pc /\ q.link = r.link /\ q.j_click = r.j_click /\ q.f_click = r.f_click
  BY <1>1, <1>2 DEF IsProc
<1>4. Click(q) = Click(r)
  BY <1>3 DEF Click
<1>5. proc' = [proc EXCEPT ![b] = q]
  BY <1>1 DEF Goto
<1>6. /\ proc'[b] = q /\ \A c \in Browsers \ {b} : proc'[c] = proc[c]
      /\ proc' = [c \in Browsers |-> proc'[c]]
  BY <1>5, ProcSet
<1>7. IsProc(q, screen[b], Pages[b])
  BY <1>1, <1>2, <1>3, <1>4 DEF IsProc
<1>8. QED
  BY <1>1, <1>3, <1>4, <1>6, <1>7

(* A step of a process that shows no file anew: the screens stay *)
LEMMA GotoAlone ==
  ASSUME NEW b \in Browsers, ShapeInv, NEW pc \in {"flush", "menu", "reboot"}, Goto(b, pc),
         pc = "flush" => screen[b].page \in KeywordPages \cup {"top"} /\ Click(proc[b]) = "OK",
         UNCHANGED screen
  PROVE  OneBrowser(b) /\ proc'[b].pc = pc /\ screen'[b] = screen[b]
<1>1. /\ \A c \in Browsers : screen'[c] = screen[c]
      /\ screen' = [c \in Browsers |-> screen'[c]]
  BY Settled
<1>2. /\ proc'[b].pc = pc /\ \A c \in Browsers \ {b} : proc'[c] = proc[c]
      /\ proc' = [c \in Browsers |-> proc'[c]]
      /\ IsProc(proc'[b], screen[b], Pages[b])
  BY GotoStep
<1>3. IsScreen(screen[b], Pages[b])
  BY DEF ShapeInv, BrowserInv
<1>4. QED
  BY <1>1, <1>2, <1>3 DEF OneBrowser, Alone, Same, BrowserInv

(* A menu, or the message that a file cannot be opened *)
Answers(b) == ShowTop(b) \/ ShowPage(b) \/ ShowStatus(b) \/ OpenFails(b)

LEMMA ShowStep ==
  ASSUME NEW b \in Browsers, ShapeInv, Answers(b)
  PROVE  /\ OneBrowser(b) /\ UNCHANGED <<files, archive, up, forms, overtaken, config>>
         /\ raced \subseteq raced' /\ faults' \in 0 .. MaxFaults
         /\ proc[b].pc # "flush" /\ proc'[b].pc # "flush"
<1>1. Idle.pc = "idle"
  BY DEF Idle
<1>2. faults \in 0 .. MaxFaults
  BY DEF ShapeInv
<1>3. CASE ShowTop(b)
  <2>1. /\ Exit(b, TopMenu) /\ UNCHANGED <<files, archive, up, forms, faults, overtaken, config>>
        /\ raced \subseteq raced'
    BY <1>3 DEF ShowTop, RacedIf
  <2>2. OneBrowser(b) /\ proc'[b] = Idle
    BY <2>1, TopMenuIs, ExitStep
  <2>3. proc[b].pc # "flush"
    BY <1>3 DEF ShowTop, Called, At
  <2>4. QED
    BY <1>1, <1>2, <2>1, <2>2, <2>3
<1>4. CASE ShowPage(b)
  <2>1. /\ Called(b, "menu") \/ Called(b, "refresh")
        /\ Cfg(b) \in Pages[b] \ {"status"}
        /\ UNCHANGED <<files, archive, up, forms, faults, overtaken, config>>
    BY <1>4 DEF ShowPage
  <2>2. /\ raced \subseteq raced'
        /\ \E name : Exit(b, Blank) \/ Exit(b, Shown(b, Cfg(b), name))
    BY <1>4 DEF ShowPage, RacedIf
  <2>3. \A name : IsScreen(Shown(b, Cfg(b), name), Pages[b])
    BY <2>1, ShownShape
  <2>4. OneBrowser(b) /\ proc'[b] = Idle
    BY <2>2, <2>3, BlankIs, ExitStep
  <2>5. proc[b].pc # "flush"
    BY <2>1 DEF Called
  <2>6. QED
    BY <1>1, <1>2, <2>1, <2>2, <2>4, <2>5
<1>5. CASE ShowStatus(b)
  <2>1. /\ Exit(b, Show("status", None, <<>>))
        /\ UNCHANGED <<files, archive, up, forms, faults, history>>
        /\ Called(b, "menu") /\ Cfg(b) = "status"
    BY <1>5 DEF ShowStatus
  <2>2. "status" \in Pages[b]
    <3>1. Click(proc[b]) \in {None, "REFRESH"}
      BY <2>1, HandlerIs
    <3>2. proc[b].link \in Pages[b] \cup {None} /\ screen[b].page \in Pages[b] \cup {"top", "none", "error"}
      BY DEF ShapeInv, BrowserInv, IsProc, IsScreen
    <3>3. QED
      BY <2>1, <3>2 DEF Cfg, None
  <2>3. IsScreen(Show("status", None, <<>>), Pages[b])
    BY <2>2 DEF IsScreen, Show, FormOK, KeywordPages, TextPages
  <2>4. OneBrowser(b) /\ proc'[b] = Idle
    BY <2>1, <2>3, ExitStep
  <2>5. QED
    BY <1>1, <1>2, <2>1, <2>4 DEF Called, history
<1>6. CASE OpenFails(b)
  <2>1. /\ UNCHANGED <<files, archive, up, forms, history>> /\ proc[b].pc = "main"
    BY <1>6 DEF OpenFails, Called
  <2>2. faults' \in 0 .. MaxFaults
    BY <1>2, <1>6, BoundsAssumption DEF OpenFails
  <2>3. (Goto(b, "menu") /\ UNCHANGED screen) \/ Exit(b, Blank) \/ Exit(b, Error)
    BY <1>6 DEF OpenFails
  <2>4. OneBrowser(b) /\ (proc'[b] = Idle \/ proc'[b].pc = "menu")
    BY <2>3, BlankIs, ExitStep, GotoAlone
  <2>5. QED
    BY <1>1, <2>1, <2>2, <2>4 DEF history
<1>7. QED
  BY <1>3, <1>4, <1>5, <1>6 DEF Answers
-----------------------------------------------------------------------------
(* The steps that write *)

LEMMA PutIs ==
  ASSUME ShapeInv, NEW path, NEW t, IsSeq(t), Put(path, t)
  PROVE  /\ IsStore(files') /\ DOMAIN files' = DOMAIN files \cup {path}
         /\ files'[path] = t /\ \A p \in DOMAIN files \ {path} : files'[p] = files[p]
BY DEF ShapeInv, IsStore, Put

(* A form of another browser for the same file is an older one now. *)
MadeStale(b) ==
  \A c \in Browsers :
    /\ screen'[c].page = screen[c].page /\ screen'[c].name = screen[c].name
    /\ screen'[c].fields = screen[c].fields /\ screen'[c].edited = screen[c].edited
    /\ screen[c].stale => screen'[c].stale
    /\ c = b => screen'[c] = screen[c]
    /\ c # b /\ screen[c].page # "none" /\ File(c) = File(b) => screen'[c].stale
    /\ screen'[c] = screen[c] \/ (c # b /\ File(c) = File(b))
    /\ IsScreen(screen'[c], Pages[c])

LEMMA StaleIs ==
  ASSUME NEW b \in Browsers, ShapeInv, OthersStale(b)
  PROVE  MadeStale(b) /\ screen' = [c \in Browsers |-> screen'[c]]
<1>1. screen' = [c \in Browsers |-> screen'[c]]
  BY DEF OthersStale
<1>2. ASSUME NEW c \in Browsers
      PROVE  /\ screen'[c].page = screen[c].page /\ screen'[c].name = screen[c].name
             /\ screen'[c].fields = screen[c].fields /\ screen'[c].edited = screen[c].edited
             /\ screen[c].stale => screen'[c].stale
             /\ c = b => screen'[c] = screen[c]
             /\ c # b /\ screen[c].page # "none" /\ File(c) = File(b) => screen'[c].stale
             /\ screen'[c] = screen[c] \/ (c # b /\ File(c) = File(b))
             /\ IsScreen(screen'[c], Pages[c])
  <2>1. IsScreen(screen[c], Pages[c])
    BY DEF ShapeInv, BrowserInv
  <2>2. CASE c # b /\ screen[c].page # "none" /\ File(c) = File(b)
    <3>1. PICK s, u : s = screen[c] /\ u = [s EXCEPT !.stale = TRUE]
      OBVIOUS
    <3>2. screen'[c] = u
      BY <2>2, <3>1 DEF OthersStale
    <3>3. /\ u = [page |-> u.page, name |-> u.name, fields |-> u.fields,
                  edited |-> u.edited, stale |-> u.stale]
          /\ u.page = s.page /\ u.name = s.name /\ u.fields = s.fields
          /\ u.edited = s.edited /\ u.stale = TRUE
      BY <2>1, <3>1 DEF IsScreen
    <3>4. IsScreen(u, Pages[c])
      BY <2>1, <3>1, <3>3 DEF IsScreen
    <3>5. QED
      BY <2>2, <3>1, <3>2, <3>3, <3>4
  <2>3. CASE ~ (c # b /\ screen[c].page # "none" /\ File(c) = File(b))
    <3>1. screen'[c] = screen[c]
      BY <2>3 DEF OthersStale
    <3>2. QED
      BY <2>1, <2>3, <3>1
  <2>4. QED
    BY <2>2, <2>3
<1>3. QED
  BY <1>1, <1>2 DEF MadeStale

(* A step that writes, with the forms of others made stale *)
LEMMA StaleShape ==
  ASSUME NEW b \in Browsers, ShapeInv, OthersStale(b),
         NEW pc \in {"flush", "menu", "reboot"}, Goto(b, pc),
         pc = "flush" => screen[b].page \in KeywordPages \cup {"top"} /\ Click(proc[b]) = "OK"
  PROVE  /\ \A c \in Browsers : BrowserInv(c)'
         /\ screen' = [c \in Browsers |-> screen'[c]]
         /\ proc' = [c \in Browsers |-> proc'[c]]
         /\ proc'[b].pc = pc /\ \A c \in Browsers \ {b} : proc'[c] = proc[c]
<1>1. MadeStale(b) /\ screen' = [c \in Browsers |-> screen'[c]]
  BY StaleIs
<1>2. /\ proc'[b].pc = pc /\ \A c \in Browsers \ {b} : proc'[c] = proc[c]
      /\ proc' = [c \in Browsers |-> proc'[c]]
      /\ IsProc(proc'[b], screen[b], Pages[b])
  BY GotoStep
<1>3. ASSUME NEW c \in Browsers PROVE BrowserInv(c)'
  <2>1. IsScreen(screen'[c], Pages[c]) /\ screen'[c].page = screen[c].page
    BY <1>1 DEF MadeStale
  <2>2. IsProc(proc'[c], screen[c], Pages[c])
    BY <1>2 DEF ShapeInv, BrowserInv
  <2>3. IsProc(proc'[c], screen'[c], Pages[c])
    BY <2>1, <2>2 DEF IsProc
  <2>4. QED
    BY <2>1, <2>3 DEF BrowserInv
<1>4. QED
  BY <1>1, <1>2, <1>3

LEMMA EnteredIs ==
  ASSUME NEW b \in Browsers, ShapeInv, screen[b].page \in KnownPages
  PROVE  IsEntry(File(b), Entered(b)) /\ DOMAIN Entered(b) = FieldsOf(screen[b].page)
<1>1. PICK page, path : page = screen[b].page /\ path = File(b)
  OBVIOUS
<1>2. PageOf(path) = page
  BY <1>1, PageOfPath DEF File
<1>3. PICK old : old = IF path \notin DOMAIN config \/ "name" \in screen[b].edited
                       THEN FileValues(path, <<>>) ELSE config[path]
  OBVIOUS
<1>4. IsEntry(path, old)
  BY <1>3, EmptyIs, FileValuesEntry DEF ShapeInv, IsConfig
<1>5. DOMAIN old = FieldsOf(page) /\ \A k \in DOMAIN old : IsSeq(old[k])
  BY <1>1, <1>2, <1>4 DEF IsEntry
<1>6. PICK f : f = screen[b].fields
  OBVIOUS
<1>7. \A k \in FieldsOf(page) : IsSeq(f[k])
  <2>1. FormOK(page, f)
    BY <1>1, <1>6 DEF ShapeInv, BrowserInv, IsScreen
  <2>2. CASE page = "top"
    BY <2>1, <2>2, FieldsAre DEF FormOK, IsForm, IsValue
  <2>3. CASE page \in TextPages
    BY <2>1, <2>3, FieldsAre DEF FormOK
  <2>4. CASE page \in KeywordPages
    BY <2>1, <2>4 DEF FormOK, IsForm, IsValue
  <2>5. QED
    BY <1>1, <2>2, <2>3, <2>4 DEF KnownPages
<1>8. PICK e : e = Entered(b)
  OBVIOUS
<1>9. e = [k \in DOMAIN old |-> IF k \in screen[b].edited THEN f[k] ELSE old[k]]
  BY <1>1, <1>3, <1>6, <1>8 DEF Entered
<1>10. DOMAIN e = FieldsOf(page) /\ \A k \in DOMAIN e : IsSeq(e[k])
  BY <1>5, <1>7, <1>9
<1>11. IsEntry(path, e)
  BY <1>2, <1>10 DEF IsEntry
<1>12. QED
  BY <1>1, <1>8, <1>10, <1>11

LEMMA RecordIs ==
  ASSUME NEW b \in Browsers, ShapeInv, screen[b].page \in KnownPages, Record(b)
  PROVE  /\ IsConfig(config') /\ DOMAIN config' = DOMAIN config \cup {File(b)}
         /\ config'[File(b)] = Entered(b)
         /\ \A p \in DOMAIN config \ {File(b)} : config'[p] = config[p]
<1>1. PICK path, e : path = File(b) /\ e = Entered(b)
  OBVIOUS
<1>2. config' = [p \in DOMAIN config \cup {path} |-> IF p = path THEN e ELSE config[p]]
  BY <1>1 DEF Record
<1>3. IsEntry(path, e)
  BY <1>1, EnteredIs
<1>4. /\ config' = [p \in DOMAIN config' |-> config'[p]]
      /\ DOMAIN config' = DOMAIN config \cup {path} /\ config'[path] = e
      /\ \A p \in DOMAIN config \ {path} : config'[p] = config[p]
  BY <1>2
<1>5. \A p \in DOMAIN config' : IsEntry(p, config'[p])
  BY <1>3, <1>4 DEF ShapeInv, IsConfig
<1>6. QED
  BY <1>1, <1>4, <1>5 DEF IsConfig

(* What a process is about to write *)
LEMMA AtFlush ==
  ASSUME NEW b \in Browsers, ShapeInv, At(b, "flush")
  PROVE  /\ Cfg(b) = screen[b].page /\ screen[b].page \in KeywordPages \cup {"top"}
         /\ FormOK(screen[b].page, screen[b].fields)
         /\ IsSeq(PageContent(screen[b].page, screen[b].fields))
<1>1. screen[b].page \in KeywordPages \cup {"top"} /\ Click(proc[b]) = "OK"
  BY DEF ShapeInv, BrowserInv, IsProc, At
<1>2. Cfg(b) = screen[b].page
  BY <1>1 DEF Cfg, None
<1>3. PICK page, f : page = screen[b].page /\ f = screen[b].fields
  OBVIOUS
<1>4. FormOK(page, f)
  BY <1>3 DEF ShapeInv, BrowserInv, IsScreen
<1>5. IsSeq(PageContent(page, f))
  <2>1. CASE page = "top"
    <3>1. PageContent(page, f) = f["runlevel"] \o <<NL>>
      BY <2>1 DEF PageContent
    <3>2. IsValue(f["runlevel"])
      BY <1>4, <2>1 DEF FormOK, IsForm
    <3>3. QED
      BY <3>1, <3>2, RunlevelReadsBack
  <2>2. CASE page \in KeywordPages
    BY <1>4, <2>2, PageContentIs DEF FormOK
  <2>3. QED
    BY <1>1, <1>3, <2>1, <2>2
<1>6. QED
  BY <1>1, <1>2, <1>3, <1>4, <1>5

LEMMA TextContentIs ==
  ASSUME NEW page \in TextPages, NEW old, NEW form
  PROVE  TextContent(page, old, form) = Overwrite(old, form["text"])
BY DEF TextPages, TextContent, TelnetdWrite, HttpdWrite, OpenvpnWrite

LEMMA WriteCalled ==
  ASSUME NEW b \in Browsers, ShapeInv, Called(b, "write")
  PROVE  /\ Cfg(b) = screen[b].page /\ Click(proc[b]) = "OK" /\ proc[b].pc = "main"
         /\ FormOK(screen[b].page, screen[b].fields)
BY HandlerIs DEF None, ShapeInv, BrowserInv, IsScreen
(* What OpenFile, Flush and WriteText do to the files *)
LEMMA OpenStep ==
  ASSUME NEW b \in Browsers, ShapeInv, OpenFile(b)
  PROVE  /\ screen[b].page \in KeywordPages \cup {"top"}
         /\ IsStore(files') /\ DOMAIN files' = DOMAIN files \cup {File(b)}
         /\ files'[File(b)] = <<>>
         /\ \A p \in DOMAIN files \ {File(b)} : files'[p] = files[p]
         /\ UNCHANGED <<archive, up, forms, faults, config>>
         /\ proc[b].pc = "main" /\ proc'[b].pc \in {"flush", "menu"}
         /\ screen[b].page # "top" => proc'[b].pc = "flush"
         /\ \A c \in Browsers \ {b} : proc'[c] = proc[c]
         /\ \A c \in Browsers : BrowserInv(c)'
         /\ screen' = [c \in Browsers |-> screen'[c]]
         /\ proc' = [c \in Browsers |-> proc'[c]]
         /\ MadeStale(b)
<1>1. /\ Called(b, "write") /\ Cfg(b) \in KeywordPages \cup {"top"}
      /\ Put(File(b), Truncated(Read(File(b)))) /\ OthersStale(b)
      /\ UNCHANGED <<archive, up, forms, faults, config>>
  BY DEF OpenFile
<1>2. Cfg(b) = screen[b].page /\ Click(proc[b]) = "OK" /\ proc[b].pc = "main"
  BY <1>1, WriteCalled
<1>3. PICK pc : pc = IF Cfg(b) = "top" /\ "runlevel" \notin DOMAIN screen[b].fields
                     THEN "menu" ELSE "flush"
  OBVIOUS
<1>4. Goto(b, pc) /\ pc \in {"flush", "menu", "reboot"}
  BY <1>3 DEF OpenFile
<1>5. /\ \A c \in Browsers : BrowserInv(c)'
      /\ screen' = [c \in Browsers |-> screen'[c]]
      /\ proc' = [c \in Browsers |-> proc'[c]]
      /\ proc'[b].pc = pc /\ \A c \in Browsers \ {b} : proc'[c] = proc[c]
  BY <1>1, <1>2, <1>4, StaleShape
<1>6. Put(File(b), <<>>)
  BY <1>1 DEF Truncated
<1>7. /\ IsStore(files') /\ DOMAIN files' = DOMAIN files \cup {File(b)}
      /\ files'[File(b)] = <<>> /\ \A p \in DOMAIN files \ {File(b)} : files'[p] = files[p]
  BY <1>6, EmptyIs, PutIs
<1>8. MadeStale(b)
  BY <1>1, StaleIs
<1>9. pc \in {"flush", "menu"} /\ (screen[b].page # "top" => pc = "flush")
  BY <1>2, <1>3
<1>10. QED
  BY <1>1, <1>2, <1>5, <1>7, <1>8, <1>9

LEMMA FlushStep ==
  ASSUME NEW b \in Browsers, ShapeInv, Flush(b)
  PROVE  /\ IsStore(files') /\ DOMAIN files' = DOMAIN files \cup {File(b)}
         /\ files'[File(b)] = Overwrite(Read(File(b)),
                                        PageContent(screen[b].page, screen[b].fields))
         /\ \A p \in DOMAIN files \ {File(b)} : files'[p] = files[p]
         /\ UNCHANGED <<archive, up, forms, faults, raced, overtaken>>
         /\ OneBrowser(b) /\ proc'[b].pc = "menu" /\ screen'[b] = screen[b]
<1>1. At(b, "flush") /\ Goto(b, "menu") /\ UNCHANGED screen
  BY DEF Flush
<1>2. Cfg(b) = screen[b].page /\ IsSeq(PageContent(screen[b].page, screen[b].fields))
  BY <1>1, AtFlush
<1>3. PICK t : t = Overwrite(Read(File(b)), PageContent(screen[b].page, screen[b].fields))
  OBVIOUS
<1>4. IsSeq(t)
  BY <1>2, <1>3, ReadIs, OverwriteIs
<1>5. Put(File(b), t)
  BY <1>2, <1>3 DEF Flush
<1>6. /\ IsStore(files') /\ DOMAIN files' = DOMAIN files \cup {File(b)}
      /\ files'[File(b)] = t /\ \A p \in DOMAIN files \ {File(b)} : files'[p] = files[p]
  BY <1>4, <1>5, PutIs
<1>7. OneBrowser(b) /\ proc'[b].pc = "menu" /\ screen'[b] = screen[b]
  BY <1>1, GotoAlone
<1>8. UNCHANGED <<archive, up, forms, faults, raced, overtaken>>
  BY DEF Flush
<1>9. QED
  BY <1>3, <1>6, <1>7, <1>8

LEMMA WriteTextStep ==
  ASSUME NEW b \in Browsers, ShapeInv, WriteText(b)
  PROVE  /\ screen[b].page \in TextPages
         /\ IsStore(files') /\ DOMAIN files' = DOMAIN files \cup {File(b)}
         /\ files'[File(b)] = Overwrite(Read(File(b)), screen[b].fields["text"])
         /\ \A p \in DOMAIN files \ {File(b)} : files'[p] = files[p]
         /\ UNCHANGED <<archive, up, forms, faults, raced>>
         /\ proc[b].pc = "main" /\ proc'[b].pc = "menu"
         /\ \A c \in Browsers \ {b} : proc'[c] = proc[c]
         /\ \A c \in Browsers : BrowserInv(c)'
         /\ screen' = [c \in Browsers |-> screen'[c]]
         /\ proc' = [c \in Browsers |-> proc'[c]]
         /\ MadeStale(b)
<1>1. /\ Called(b, "write") /\ Cfg(b) \in TextPages
      /\ Put(File(b), TextContent(Cfg(b), Read(File(b)), screen[b].fields))
      /\ OthersStale(b) /\ Goto(b, "menu")
      /\ UNCHANGED <<archive, up, forms, faults, raced>>
  BY DEF WriteText
<1>2. /\ Cfg(b) = screen[b].page /\ Click(proc[b]) = "OK" /\ proc[b].pc = "main"
      /\ FormOK(screen[b].page, screen[b].fields)
  BY <1>1, WriteCalled
<1>3. PICK t, x : t = Overwrite(Read(File(b)), x) /\ x = screen[b].fields["text"]
  OBVIOUS
<1>4. IsSeq(x)
  BY <1>1, <1>2, <1>3 DEF FormOK
<1>5. IsSeq(t)
  BY <1>3, <1>4, ReadIs, OverwriteIs
<1>6. Put(File(b), t)
  BY <1>1, <1>3, TextContentIs
<1>7. /\ IsStore(files') /\ DOMAIN files' = DOMAIN files \cup {File(b)}
      /\ files'[File(b)] = t /\ \A p \in DOMAIN files \ {File(b)} : files'[p] = files[p]
  BY <1>5, <1>6, PutIs
<1>8. /\ \A c \in Browsers : BrowserInv(c)'
      /\ screen' = [c \in Browsers |-> screen'[c]]
      /\ proc' = [c \in Browsers |-> proc'[c]]
      /\ proc'[b].pc = "menu" /\ \A c \in Browsers \ {b} : proc'[c] = proc[c]
  BY <1>1, <1>2, StaleShape
<1>9. MadeStale(b)
  BY <1>1, StaleIs
<1>10. QED
  BY <1>1, <1>2, <1>3, <1>7, <1>8, <1>9

LEMMA RebootStep ==
  ASSUME NEW b \in Browsers, ShapeInv, Reboot(b)
  PROVE  /\ files' = archive.files /\ config' = archive.config
         /\ up' = HasRunlevel(archive.files) /\ UNCHANGED <<archive, forms, faults>>
         /\ UNCHANGED <<raced, overtaken>>
         /\ \A c \in Browsers : screen'[c] = Blank /\ proc'[c] = Idle /\ BrowserInv(c)'
         /\ screen' = [c \in Browsers |-> screen'[c]]
         /\ proc' = [c \in Browsers |-> proc'[c]]
<1>1. /\ screen' = [c \in Browsers |-> Blank] /\ proc' = [c \in Browsers |-> Idle]
      /\ files' = archive.files /\ config' = archive.config
      /\ up' = HasRunlevel(archive.files) /\ UNCHANGED <<archive, forms, faults>>
      /\ UNCHANGED <<raced, overtaken>>
  BY DEF Reboot
<1>2. \A s, pages : IsProc(Idle, s, pages)
  BY DEF IsProc, Idle
<1>3. \A c \in Browsers : screen'[c] = Blank /\ proc'[c] = Idle
  BY <1>1
<1>4. \A c \in Browsers : BrowserInv(c)'
  BY <1>2, <1>3, BlankIs DEF BrowserInv
<1>5. screen' = [c \in Browsers |-> screen'[c]] /\ proc' = [c \in Browsers |-> proc'[c]]
  BY <1>1
<1>6. QED
  BY <1>1, <1>3, <1>4, <1>5

LEMMA FaultStep ==
  ASSUME NEW b \in Browsers, ShapeInv, FlushFails(b)
  PROVE  /\ OneBrowser(b) /\ UNCHANGED <<files, archive, up, forms, overtaken, config>>
         /\ raced' = raced \cup {File(b)} /\ faults' \in 0 .. MaxFaults
         /\ proc[b].pc = "flush" /\ proc'[b].pc = "menu" /\ screen'[b] = screen[b]
<1>1. /\ Goto(b, "menu") /\ UNCHANGED screen /\ proc[b].pc = "flush"
      /\ UNCHANGED <<files, archive, up, forms, overtaken, config>>
      /\ raced' = raced \cup {File(b)} /\ faults < MaxFaults /\ faults' = faults + 1
  BY DEF FlushFails, At
<1>2. faults' \in 0 .. MaxFaults
  BY <1>1, BoundsAssumption DEF ShapeInv
<1>3. OneBrowser(b) /\ proc'[b].pc = "menu" /\ screen'[b] = screen[b]
  BY <1>1, GotoAlone
<1>4. QED
  BY <1>1, <1>2, <1>3

LEMMA SaveStep ==
  ASSUME NEW b \in Browsers, ShapeInv, SaveConfig(b)
  PROVE  /\ OneBrowser(b) /\ UNCHANGED <<files, up, forms, faults, overtaken, config>>
         /\ archive'.files = files /\ archive'.config = config
         /\ raced' = raced \cup {File(c) : c \in {d \in Browsers : At(d, "flush")}}
         /\ proc[b].pc = "main" /\ proc'[b].pc = "reboot" /\ screen'[b] = screen[b]
<1>1. /\ Goto(b, "reboot") /\ UNCHANGED screen /\ proc[b].pc = "main"
      /\ UNCHANGED <<files, up, forms, faults, overtaken, config>>
      /\ archive' = [files |-> files, config |-> config]
      /\ raced' = raced \cup {File(c) : c \in {d \in Browsers : At(d, "flush")}}
  BY DEF SaveConfig, Called
<1>2. OneBrowser(b) /\ proc'[b].pc = "reboot" /\ screen'[b] = screen[b]
  BY <1>1, GotoAlone
<1>3. QED
  BY <1>1, <1>2

LEMMA ShapeInit == Init => ShapeInv
<1>1. HAVE Init
<1>2. \A p \in DOMAIN Shipped : IsSeq(Shipped[p])
  BY ShippedAssumption, SeqIs
<1>3. IsStore(files)
  BY <1>1, <1>2, ShippedAssumption DEF Init, IsStore
<1>4. IsConfig(config) /\ DOMAIN config = DOMAIN files
  BY <1>1, <1>2, FileValuesEntry DEF Init, IsConfig
<1>5. archive.files = files /\ archive.config = config /\ up = TRUE
  BY <1>1 DEF Init
<1>6. forms \in 0 .. MaxForms /\ faults \in 0 .. MaxFaults
  BY <1>1, BoundsAssumption DEF Init
<1>7. \A pages : IsScreen(TopMenu, pages)
  <2>1. IsSeq(Read(<<"runlevel">>))
    BY <1>3, EmptyIs DEF Read, IsStore
  <2>2. PICK r : r = Sel(FetchRunlevel, Levels)
    OBVIOUS
  <2>3. r \in ToSet(Levels) /\ IsValue(r)
    BY <2>2, LevelsAre, SelIs DEF IsOptions
  <2>4. FormOK("top", [runlevel |-> r])
    BY <2>3 DEF FormOK, IsForm, KeywordPages, TextPages
  <2>5. TopMenu = Show("top", None, [runlevel |-> r])
    BY <2>2 DEF TopMenu, Levels
  <2>6. QED
    BY <2>4, <2>5 DEF IsScreen, Show
<1>8. \A s, pages : IsProc(Idle, s, pages)
  BY DEF IsProc, Idle
<1>9. /\ screen = [b \in Browsers |-> TopMenu] /\ proc = [b \in Browsers |-> Idle]
  BY <1>1 DEF Init
<1>10. \A b \in Browsers : screen[b] = TopMenu /\ proc[b] = Idle
  BY <1>9
<1>11. \A b \in Browsers : BrowserInv(b)
  BY <1>7, <1>8, <1>10 DEF BrowserInv
<1>12. screen = [b \in Browsers |-> screen[b]] /\ proc = [b \in Browsers |-> proc[b]]
  BY <1>9
<1>13. QED
  BY <1>3, <1>4, <1>5, <1>6, <1>11, <1>12 DEF ShapeInv

LEMMA ShapeNext == ShapeInv /\ [Next]_vars => ShapeInv'
<1>1. HAVE ShapeInv /\ [Next]_vars
<1>2. CASE UNCHANGED vars
  BY <1>1, <1>2 DEF vars, history, ShapeInv, BrowserInv
<1>3. ASSUME NEW b \in Browsers, User(b) PROVE ShapeInv'
  <2>1. /\ OneBrowser(b) /\ Untouched /\ forms' \in 0 .. MaxForms
    BY <1>1, <1>3, UserStep
  <2>2. \A c \in Browsers : BrowserInv(c)'
    BY <1>1, <2>1, OneBrowserShape
  <2>3. QED
    BY <1>1, <2>1, <2>2 DEF ShapeInv, OneBrowser, Untouched, history
<1>4. ASSUME NEW b \in Browsers, Answers(b) PROVE ShapeInv'
  <2>1. /\ OneBrowser(b) /\ UNCHANGED <<files, archive, up, forms, overtaken, config>>
        /\ faults' \in 0 .. MaxFaults
    BY <1>1, <1>4, ShowStep
  <2>2. \A c \in Browsers : BrowserInv(c)'
    BY <1>1, <2>1, OneBrowserShape
  <2>3. QED
    BY <1>1, <2>1, <2>2 DEF ShapeInv, OneBrowser
<1>5. ASSUME NEW b \in Browsers, OpenFile(b) PROVE ShapeInv'
  BY <1>1, <1>5, OpenStep DEF ShapeInv
<1>6. ASSUME NEW b \in Browsers, Flush(b) PROVE ShapeInv'
  <2>1. /\ IsStore(files') /\ DOMAIN files' = DOMAIN files \cup {File(b)}
        /\ UNCHANGED <<archive, up, forms, faults, raced, overtaken>>
        /\ OneBrowser(b)
    BY <1>1, <1>6, FlushStep
  <2>2. \A c \in Browsers : BrowserInv(c)'
    BY <1>1, <2>1, OneBrowserShape
  <2>3. screen[b].page \in KnownPages /\ Record(b)
    BY <1>1, <1>6, AtFlush DEF Flush, KnownPages
  <2>4. IsConfig(config') /\ DOMAIN config' = DOMAIN config \cup {File(b)}
    BY <1>1, <2>3, RecordIs
  <2>5. QED
    BY <1>1, <2>1, <2>2, <2>4 DEF ShapeInv, OneBrowser
<1>7. ASSUME NEW b \in Browsers, FlushFails(b) PROVE ShapeInv'
  <2>1. /\ OneBrowser(b) /\ UNCHANGED <<files, archive, up, forms, overtaken, config>>
        /\ faults' \in 0 .. MaxFaults
    BY <1>1, <1>7, FaultStep
  <2>2. \A c \in Browsers : BrowserInv(c)'
    BY <1>1, <2>1, OneBrowserShape
  <2>3. QED
    BY <1>1, <2>1, <2>2 DEF ShapeInv, OneBrowser
<1>8. ASSUME NEW b \in Browsers, WriteText(b) PROVE ShapeInv'
  <2>1. /\ screen[b].page \in TextPages
        /\ IsStore(files') /\ DOMAIN files' = DOMAIN files \cup {File(b)}
        /\ UNCHANGED <<archive, up, forms, faults, raced>>
        /\ \A c \in Browsers : BrowserInv(c)'
        /\ screen' = [c \in Browsers |-> screen'[c]]
        /\ proc' = [c \in Browsers |-> proc'[c]]
    BY <1>1, <1>8, WriteTextStep
  <2>2. screen[b].page \in KnownPages /\ Record(b)
    BY <1>8, <2>1 DEF WriteText, KnownPages
  <2>3. IsConfig(config') /\ DOMAIN config' = DOMAIN config \cup {File(b)}
    BY <1>1, <2>2, RecordIs
  <2>4. QED
    BY <1>1, <2>1, <2>3 DEF ShapeInv
<1>9. ASSUME NEW b \in Browsers, SaveConfig(b) PROVE ShapeInv'
  <2>1. /\ OneBrowser(b) /\ UNCHANGED <<files, up, forms, faults, overtaken, config>>
        /\ archive'.files = files /\ archive'.config = config
    BY <1>1, <1>9, SaveStep
  <2>2. \A c \in Browsers : BrowserInv(c)'
    BY <1>1, <2>1, OneBrowserShape
  <2>3. QED
    BY <1>1, <2>1, <2>2 DEF ShapeInv, OneBrowser
<1>10. ASSUME NEW b \in Browsers, Reboot(b) PROVE ShapeInv'
  <2>1. HasRunlevel(archive.files) \in BOOLEAN
    BY DEF HasRunlevel
  <2>2. QED
    BY <1>1, <1>10, <2>1, RebootStep DEF ShapeInv
<1>11. QED
  BY <1>1, <1>2, <1>3, <1>4, <1>5, <1>6, <1>7, <1>8, <1>9, <1>10 DEF Next, Cgi, Answers
-----------------------------------------------------------------------------
(* The run level *)

RunlevelPath == <<"runlevel">>

Flushing(b, path) == At(b, "flush") /\ File(b) = path

(* Unless a request raced another one for it, there is a run level in flash, and in  *)
(* /etc/rw, or a process is about to write it there.                                 *)
BootInv ==
  \/ RunlevelPath \in raced
  \/ /\ up
     /\ HasRunlevel(archive.files)
     /\ HasRunlevel(files) \/ \E b \in Browsers : Flushing(b, RunlevelPath)

FlushersStay == \A c \in Browsers : \A path : Flushing(c, path)' <=> Flushing(c, path)

LEMMA NoFlusher ==
  ASSUME NEW b \in Browsers, OneBrowser(b), proc[b].pc # "flush", proc'[b].pc # "flush"
  PROVE  FlushersStay
BY DEF FlushersStay, OneBrowser, Alone, Same, Flushing, At, File

LEMMA OtherFlushers ==
  ASSUME NEW b \in Browsers,
         \/ OneBrowser(b)
         \/ MadeStale(b) /\ \A c \in Browsers \ {b} : proc'[c] = proc[c]
  PROVE  \A c \in Browsers \ {b} : \A path : Flushing(c, path)' <=> Flushing(c, path)
BY DEF OneBrowser, Alone, Same, MadeStale, Flushing, At, File

LEMMA UserFlushers ==
  ASSUME NEW b \in Browsers, ShapeInv, User(b)
  PROVE  FlushersStay
<1>1. OneBrowser(b) /\ proc[b] = Idle /\ proc'[b].pc \in {"idle", "main"}
  BY UserStep
<1>2. Idle.pc = "idle"
  BY DEF Idle
<1>3. QED
  BY <1>1, <1>2, NoFlusher

LEMMA FilePage ==
  ASSUME NEW b \in Browsers, screen[b].page \in KnownPages
  PROVE  PageOf(File(b)) = screen[b].page
BY PageOfPath DEF File

LEMMA RunlevelFile ==
  ASSUME NEW b \in Browsers, ShapeInv, screen[b].page \in KnownPages
  PROVE  File(b) = RunlevelPath <=> screen[b].page = "top"
<1>1. PageOf(RunlevelPath) = "top"
  BY DEF PageOf, RunlevelPath
<1>2. File(b) = RunlevelPath => screen[b].page = "top"
  BY <1>1, FilePage
<1>3. screen[b].page = "top" => File(b) = RunlevelPath
  BY DEF File, Path, RunlevelPath, NamedPages
<1>4. QED
  BY <1>2, <1>3

(* The same files, for the run level *)
LEMMA RunlevelSame ==
  ASSUME NEW fs, NEW gs, RunlevelPath \in DOMAIN fs => RunlevelPath \in DOMAIN gs,
         RunlevelPath \in DOMAIN fs => gs[RunlevelPath] = fs[RunlevelPath], HasRunlevel(fs)
  PROVE  HasRunlevel(gs)
BY DEF HasRunlevel, RunlevelPath

(* What the main menu writes is a run level. *)
LEMMA RunlevelWritten ==
  ASSUME NEW b \in Browsers, ShapeInv, Flush(b), File(b) = RunlevelPath
  PROVE  HasRunlevel(files')
<1>1. screen[b].page \in KeywordPages \cup {"top"} /\ FormOK(screen[b].page, screen[b].fields)
  BY AtFlush DEF Flush
<1>2. screen[b].page = "top"
  BY <1>1, RunlevelFile DEF KnownPages
<1>3. PICK v : v = screen[b].fields["runlevel"]
  OBVIOUS
<1>4. v \in ToSet(Levels) /\ IsValue(v)
  BY <1>1, <1>2, <1>3 DEF FormOK, IsForm
<1>5. PICK new, old, w : new = v \o <<NL>> /\ old = Read(File(b)) /\ w = Overwrite(old, new)
  OBVIOUS
<1>6. files'[RunlevelPath] = w /\ RunlevelPath \in DOMAIN files'
  <2>1. PageContent(screen[b].page, screen[b].fields) = new
    BY <1>2, <1>3, <1>5 DEF PageContent
  <2>2. QED
    BY <1>5, <2>1, FlushStep
<1>7. PICK x : v = <<x>>
  BY <1>4 DEF Levels, OptionList, ToSet
<1>8. IsSeq(v) /\ Len(v) = 1 /\ v[1] # NL
  <2>1. Len(v) = 1
    BY <1>7, OneIs
  <2>2. QED
    BY <1>4, <2>1 DEF IsValue
<1>9. IsSeq(<<NL>>) /\ Len(<<NL>>) = 1
  BY OneIs
<1>10. IsSeq(new) /\ Len(new) = 2 /\ new[1] = v[1]
  <2>1. /\ IsSeq(new) /\ Len(new) = Len(v) + Len(<<NL>>)
        /\ \A i \in 1 .. Len(v) : new[i] = v[i]
    BY <1>5, <1>8, <1>9, ConcatIs
  <2>2. QED
    BY <1>8, <1>9, <2>1
<1>11. IsSeq(old)
  BY <1>5, ReadIs
<1>12. IsSeq(w) /\ IsPrefix(new, w)
  BY <1>5, <1>10, <1>11, OverwriteIs
<1>13. Len(new) <= Len(w) /\ \A i \in 1 .. Len(new) : new[i] = w[i]
  BY <1>10, <1>12, PrefixIs
<1>14. w[1] # NL
  BY <1>8, <1>10, <1>13
<1>15. 1 \in DOMAIN w
  BY <1>10, <1>12, <1>13, SeqShape
<1>16. QED
  BY <1>6, <1>14, <1>15 DEF HasRunlevel, RunlevelPath

LEMMA BootInit == Init => BootInv
<1>1. HAVE Init
<1>2. up /\ files = Shipped /\ archive.files = Shipped
  BY <1>1 DEF Init
<1>3. QED
  BY <1>2, ShippedAssumption DEF BootInv

(* A step that leaves the files and the processes that write them *)
LEMMA BootSame ==
  ASSUME BootInv, FlushersStay, UNCHANGED <<files, archive, up>>, raced \subseteq raced'
  PROVE  BootInv'
BY DEF BootInv, FlushersStay

LEMMA BootNext == ShapeInv /\ BootInv /\ [Next]_vars => BootInv'
<1>1. HAVE ShapeInv /\ BootInv /\ [Next]_vars
<1>2. CASE UNCHANGED vars
  <2>1. FlushersStay
    BY <1>2 DEF vars, FlushersStay, Flushing, At, File
  <2>2. QED
    BY <1>1, <1>2, <2>1, BootSame DEF vars, history
<1>3. ASSUME NEW b \in Browsers, User(b) PROVE BootInv'
  <2>1. FlushersStay /\ Untouched
    BY <1>1, <1>3, UserFlushers, UserStep
  <2>2. QED
    BY <1>1, <2>1, BootSame DEF Untouched, history
<1>4. ASSUME NEW b \in Browsers, Answers(b) PROVE BootInv'
  <2>1. /\ UNCHANGED <<files, archive, up>> /\ raced \subseteq raced' /\ OneBrowser(b)
        /\ proc[b].pc # "flush" /\ proc'[b].pc # "flush"
    BY <1>1, <1>4, ShowStep
  <2>2. FlushersStay
    BY <2>1, NoFlusher
  <2>3. QED
    BY <1>1, <2>1, <2>2, BootSame
<1>5. ASSUME NEW b \in Browsers, OpenFile(b) PROVE BootInv'
  <2>1. /\ screen[b].page \in KeywordPages \cup {"top"}
        /\ DOMAIN files' = DOMAIN files \cup {File(b)}
        /\ \A p \in DOMAIN files \ {File(b)} : files'[p] = files[p]
        /\ UNCHANGED <<archive, up>> /\ proc[b].pc = "main"
        /\ MadeStale(b) /\ \A c \in Browsers \ {b} : proc'[c] = proc[c]
    BY <1>1, <1>5, OpenStep
  <2>2. \A c \in Browsers \ {b} : \A path : Flushing(c, path)' <=> Flushing(c, path)
    BY <2>1, OtherFlushers
  <2>3. raced \subseteq raced'
    BY <1>5 DEF OpenFile, RacedIf
  <2>4. CASE File(b) = RunlevelPath
    <3>1. "runlevel" \in DOMAIN screen[b].fields
      <4>1. screen[b].page = "top" /\ FormOK(screen[b].page, screen[b].fields)
        BY <1>1, <2>1, <2>4, RunlevelFile DEF KnownPages, ShapeInv, BrowserInv, IsScreen
      <4>2. QED
        BY <4>1 DEF FormOK, IsForm
    <3>2. Goto(b, "flush")
      BY <1>5, <3>1 DEF OpenFile
    <3>3. proc'[b].pc = "flush"
      BY <1>1, <3>2 DEF Goto, ShapeInv, BrowserInv, IsProc
    <3>4. screen'[b] = screen[b]
      BY <2>1 DEF MadeStale
    <3>5. Flushing(b, RunlevelPath)'
      BY <2>4, <3>3, <3>4 DEF Flushing, At, File
    <3>6. QED
      BY <1>1, <2>1, <2>3, <3>5 DEF BootInv
  <2>5. CASE File(b) # RunlevelPath
    <3>1. HasRunlevel(files) => HasRunlevel(files')
      BY <2>1, <2>5, RunlevelSame
    <3>2. ~ Flushing(b, RunlevelPath)
      BY <2>5 DEF Flushing
    <3>3. QED
      BY <1>1, <2>1, <2>2, <2>3, <3>1, <3>2 DEF BootInv
  <2>6. QED
    BY <2>4, <2>5
<1>6. ASSUME NEW b \in Browsers, Flush(b) PROVE BootInv'
  <2>1. /\ DOMAIN files' = DOMAIN files \cup {File(b)}
        /\ \A p \in DOMAIN files \ {File(b)} : files'[p] = files[p]
        /\ UNCHANGED <<archive, up, raced>> /\ OneBrowser(b)
    BY <1>1, <1>6, FlushStep
  <2>2. \A c \in Browsers \ {b} : \A path : Flushing(c, path)' <=> Flushing(c, path)
    BY <2>1, OtherFlushers
  <2>3. CASE File(b) = RunlevelPath
    BY <1>1, <1>6, <2>1, <2>3, RunlevelWritten DEF BootInv
  <2>4. CASE File(b) # RunlevelPath
    <3>1. HasRunlevel(files) => HasRunlevel(files')
      BY <2>1, <2>4, RunlevelSame
    <3>2. ~ Flushing(b, RunlevelPath)
      BY <2>4 DEF Flushing
    <3>3. QED
      BY <1>1, <2>1, <2>2, <3>1, <3>2 DEF BootInv
  <2>5. QED
    BY <2>3, <2>4
<1>7. ASSUME NEW b \in Browsers, FlushFails(b) PROVE BootInv'
  <2>1. /\ UNCHANGED <<files, archive, up>> /\ OneBrowser(b) /\ raced' = raced \cup {File(b)}
    BY <1>1, <1>7, FaultStep
  <2>2. \A c \in Browsers \ {b} : \A path : Flushing(c, path)' <=> Flushing(c, path)
    BY <2>1, OtherFlushers
  <2>3. CASE File(b) = RunlevelPath
    BY <2>1, <2>3 DEF BootInv
  <2>4. CASE File(b) # RunlevelPath
    <3>1. ~ Flushing(b, RunlevelPath)
      BY <2>4 DEF Flushing
    <3>2. QED
      BY <1>1, <2>1, <2>2, <3>1 DEF BootInv
  <2>5. QED
    BY <2>3, <2>4
<1>8. ASSUME NEW b \in Browsers, WriteText(b) PROVE BootInv'
  <2>1. /\ screen[b].page \in TextPages
        /\ DOMAIN files' = DOMAIN files \cup {File(b)}
        /\ \A p \in DOMAIN files \ {File(b)} : files'[p] = files[p]
        /\ UNCHANGED <<archive, up, raced>> /\ proc[b].pc = "main"
        /\ MadeStale(b) /\ \A c \in Browsers \ {b} : proc'[c] = proc[c]
    BY <1>1, <1>8, WriteTextStep
  <2>2. \A c \in Browsers \ {b} : \A path : Flushing(c, path)' <=> Flushing(c, path)
    BY <2>1, OtherFlushers
  <2>3. File(b) # RunlevelPath
    BY <1>1, <2>1, RunlevelFile DEF KnownPages, TextPages
  <2>4. HasRunlevel(files) => HasRunlevel(files')
    BY <2>1, <2>3, RunlevelSame
  <2>5. ~ Flushing(b, RunlevelPath)
    BY <2>3 DEF Flushing
  <2>6. QED
    BY <1>1, <2>1, <2>2, <2>4, <2>5 DEF BootInv
<1>9. ASSUME NEW b \in Browsers, SaveConfig(b) PROVE BootInv'
  <2>1. /\ UNCHANGED <<files, up>> /\ archive'.files = files /\ OneBrowser(b)
        /\ raced' = raced \cup {File(c) : c \in {d \in Browsers : At(d, "flush")}}
        /\ proc[b].pc = "main" /\ proc'[b].pc = "reboot"
    BY <1>1, <1>9, SaveStep
  <2>2. (\E c \in Browsers : Flushing(c, RunlevelPath)) => RunlevelPath \in raced'
    BY <2>1 DEF Flushing
  <2>3. CASE RunlevelPath \in raced'
    BY <2>3 DEF BootInv
  <2>4. CASE RunlevelPath \notin raced'
    BY <1>1, <2>1, <2>2, <2>4 DEF BootInv
  <2>5. QED
    BY <2>3, <2>4
<1>10. ASSUME NEW b \in Browsers, Reboot(b) PROVE BootInv'
  BY <1>1, <1>10, RebootStep DEF BootInv
<1>11. QED
  BY <1>1, <1>2, <1>3, <1>4, <1>5, <1>6, <1>7, <1>8, <1>9, <1>10 DEF Next, Cgi, Answers
-----------------------------------------------------------------------------
(* What the menus can read *)

Reads(fs, bad) ==
  \A path \in DOMAIN fs : path \notin bad =>
    (Crashes(PageOf(path), fs[path]) => path \in Foreign /\ fs[path] = Shipped[path])

(* A file that is being written is empty, and one process writes it, unless it was raced. *)
Emptied ==
  \A b \in Browsers : \A path : Flushing(b, path) /\ path \notin raced =>
    /\ path \in DOMAIN files /\ files[path] = <<>>
    /\ \A c \in Browsers \ {b} : ~ Flushing(c, path)

ReadInv ==
  /\ Reads(files, raced) /\ Reads(archive.files, raced)
  /\ Emptied

LEMMA ReadInit == Init => ReadInv
<1>1. HAVE Init
<1>2. files = Shipped /\ archive.files = Shipped
  BY <1>1 DEF Init
<1>r. Reads(Shipped, raced)
  BY DEF Reads, Foreign
<1>3. \A b \in Browsers : proc[b].pc = "idle"
  BY <1>1 DEF Init, Idle
<1>4. Emptied
  BY <1>3 DEF Emptied, Flushing, At
<1>5. QED
  BY <1>2, <1>r, <1>4 DEF ReadInv

LEMMA ReadSame ==
  ASSUME ReadInv, FlushersStay, UNCHANGED <<files, archive>>, raced \subseteq raced'
  PROVE  ReadInv'
<1>1. Reads(files', raced') /\ Reads(archive'.files, raced')
  BY DEF ReadInv, Reads
<1>2. Emptied'
  BY DEF ReadInv, Emptied, FlushersStay
<1>3. QED
  BY <1>1, <1>2 DEF ReadInv

(* What a process writes into an empty file can be read. *)
LEMMA FlushReadable ==
  ASSUME NEW b \in Browsers, ShapeInv, Emptied, Flush(b), File(b) \notin raced
  PROVE  /\ ~ Crashes(PageOf(File(b)), files'[File(b)])
         /\ files'[File(b)] = PageContent(screen[b].page, screen[b].fields)
<1>1. PICK page, f : page = screen[b].page /\ f = screen[b].fields
  OBVIOUS
<1>2. /\ page \in KeywordPages \cup {"top"} /\ FormOK(page, f) /\ At(b, "flush")
      /\ IsSeq(PageContent(page, f))
  BY <1>1, AtFlush DEF Flush
<1>3. PageOf(File(b)) = page
  BY <1>1, <1>2, FilePage DEF KnownPages
<1>4. Read(File(b)) = <<>>
  BY <1>2 DEF Emptied, Flushing, Read
<1>5. files'[File(b)] = PageContent(page, f)
  <2>1. files'[File(b)] = Overwrite(<<>>, PageContent(page, f))
    BY <1>1, <1>4, FlushStep
  <2>2. QED
    BY <1>2, <2>1, EmptyIs, OverwriteIs
<1>6. ~ Crashes(page, PageContent(page, f))
  <2>1. CASE page = "top"
    BY <2>1 DEF Crashes, KeywordPages
  <2>2. CASE page \in KeywordPages
    BY <1>2, <2>2, PageReadable DEF FormOK
  <2>3. QED
    BY <1>2, <2>1, <2>2
<1>7. QED
  BY <1>1, <1>3, <1>5, <1>6

LEMMA ReadNext == ShapeInv /\ ReadInv /\ [Next]_vars => ReadInv'
<1>1. HAVE ShapeInv /\ ReadInv /\ [Next]_vars
<1>a. Reads(files, raced) /\ Reads(archive.files, raced) /\ Emptied
  BY <1>1 DEF ReadInv
<1>2. CASE UNCHANGED vars
  <2>1. FlushersStay
    BY <1>2 DEF vars, FlushersStay, Flushing, At, File
  <2>2. QED
    BY <1>1, <1>2, <1>a, <2>1, ReadSame DEF vars, history
<1>3. ASSUME NEW b \in Browsers, User(b) PROVE ReadInv'
  <2>1. FlushersStay /\ Untouched
    BY <1>1, <1>3, UserFlushers, UserStep
  <2>2. QED
    BY <1>1, <1>a, <2>1, ReadSame DEF Untouched, history
<1>4. ASSUME NEW b \in Browsers, Answers(b) PROVE ReadInv'
  <2>1. /\ UNCHANGED <<files, archive, up>> /\ raced \subseteq raced' /\ OneBrowser(b)
        /\ proc[b].pc # "flush" /\ proc'[b].pc # "flush"
    BY <1>1, <1>4, ShowStep
  <2>2. FlushersStay
    BY <2>1, NoFlusher
  <2>3. QED
    BY <1>1, <2>1, <2>2, ReadSame
<1>5. ASSUME NEW b \in Browsers, OpenFile(b) PROVE ReadInv'
  <2>1. /\ DOMAIN files' = DOMAIN files \cup {File(b)} /\ files'[File(b)] = <<>>
        /\ \A p \in DOMAIN files \ {File(b)} : files'[p] = files[p]
        /\ UNCHANGED archive
        /\ MadeStale(b) /\ \A c \in Browsers \ {b} : proc'[c] = proc[c]
    BY <1>1, <1>5, OpenStep
  <2>2. \A c \in Browsers \ {b} : \A path : Flushing(c, path)' <=> Flushing(c, path)
    BY <2>1, OtherFlushers
  <2>3. /\ raced \subseteq raced'
        /\ (\E c \in Browsers \ {b} : Flushing(c, File(b))) => File(b) \in raced'
    BY <1>5 DEF OpenFile, RacedIf, BeingWritten, Flushing
  <2>4. Reads(files', raced')
    BY <1>a, <2>1, <2>3, EmptyReadable DEF Reads
  <2>5. \A path : Flushing(b, path)' => path = File(b)
    BY <2>1 DEF MadeStale, Flushing, File
  <2>6. Emptied'
    BY <1>a, <2>1, <2>2, <2>3, <2>5 DEF Emptied
  <2>7. QED
    BY <1>a, <2>1, <2>3, <2>4, <2>6 DEF ReadInv, Reads
<1>6. ASSUME NEW b \in Browsers, Flush(b) PROVE ReadInv'
  <2>1. /\ DOMAIN files' = DOMAIN files \cup {File(b)}
        /\ \A p \in DOMAIN files \ {File(b)} : files'[p] = files[p]
        /\ UNCHANGED <<archive, raced>> /\ OneBrowser(b) /\ proc'[b].pc = "menu"
    BY <1>1, <1>6, FlushStep
  <2>2. \A c \in Browsers \ {b} : \A path : Flushing(c, path)' <=> Flushing(c, path)
    BY <2>1, OtherFlushers
  <2>3. Flushing(b, File(b))
    BY <1>6 DEF Flush, Flushing
  <2>4. \A path : ~ Flushing(b, path)'
    BY <2>1 DEF Flushing, At
  <2>5. Reads(files', raced')
    BY <1>1, <1>6, <1>a, <2>1, FlushReadable DEF Reads
  <2>6. Emptied'
    BY <1>a, <2>1, <2>2, <2>3, <2>4 DEF Emptied
  <2>7. QED
    BY <1>a, <2>1, <2>5, <2>6 DEF ReadInv
<1>7. ASSUME NEW b \in Browsers, FlushFails(b) PROVE ReadInv'
  <2>1. /\ UNCHANGED <<files, archive>> /\ OneBrowser(b)
        /\ raced' = raced \cup {File(b)} /\ proc'[b].pc = "menu"
    BY <1>1, <1>7, FaultStep
  <2>2. \A c \in Browsers \ {b} : \A path : Flushing(c, path)' <=> Flushing(c, path)
    BY <2>1, OtherFlushers
  <2>3. \A path : ~ Flushing(b, path)'
    BY <2>1 DEF Flushing, At
  <2>4. Emptied'
    BY <1>a, <2>1, <2>2, <2>3 DEF Emptied
  <2>5. QED
    BY <1>a, <2>1, <2>4 DEF ReadInv, Reads
<1>8. ASSUME NEW b \in Browsers, WriteText(b) PROVE ReadInv'
  <2>1. /\ screen[b].page \in TextPages
        /\ DOMAIN files' = DOMAIN files \cup {File(b)}
        /\ \A p \in DOMAIN files \ {File(b)} : files'[p] = files[p]
        /\ UNCHANGED <<archive, raced>> /\ proc'[b].pc = "menu"
        /\ MadeStale(b) /\ \A c \in Browsers \ {b} : proc'[c] = proc[c]
    BY <1>1, <1>8, WriteTextStep
  <2>2. \A c \in Browsers \ {b} : \A path : Flushing(c, path)' <=> Flushing(c, path)
    BY <2>1, OtherFlushers
  <2>3. \A path : ~ Flushing(b, path)'
    BY <2>1 DEF Flushing, At
  <2>4. PageOf(File(b)) = screen[b].page
    BY <2>1, FilePage DEF KnownPages
  <2>5. \A t : ~ Crashes(screen[b].page, t)
    BY <2>1 DEF Crashes, TextPages, KeywordPages
  <2>6. Reads(files', raced')
    BY <1>a, <2>1, <2>4, <2>5 DEF Reads
  <2>7. \A c \in Browsers : ~ Flushing(c, File(b))
    <3>1. ASSUME NEW c \in Browsers, Flushing(c, File(b)) PROVE FALSE
      <4>1. screen[c].page \in KeywordPages \cup {"top"} /\ File(c) = File(b)
        BY <1>1, <3>1, AtFlush DEF Flushing
      <4>2. PageOf(File(c)) = screen[c].page
        BY <4>1, FilePage DEF KnownPages
      <4>3. QED
        BY <2>1, <2>4, <4>1, <4>2 DEF KeywordPages, TextPages
    <3>2. QED
      BY <3>1
  <2>8. Emptied'
    BY <1>a, <2>1, <2>2, <2>3, <2>7 DEF Emptied
  <2>9. QED
    BY <1>a, <2>1, <2>6, <2>8 DEF ReadInv, Reads
<1>9. ASSUME NEW b \in Browsers, SaveConfig(b) PROVE ReadInv'
  <2>1. /\ UNCHANGED files /\ archive'.files = files /\ OneBrowser(b)
        /\ raced \subseteq raced' /\ proc[b].pc = "main" /\ proc'[b].pc = "reboot"
    BY <1>1, <1>9, SaveStep
  <2>2. FlushersStay
    BY <2>1, NoFlusher
  <2>3. Reads(files, raced')
    BY <1>a, <2>1 DEF Reads
  <2>4. Emptied'
    BY <1>a, <2>1, <2>2 DEF Emptied, FlushersStay
  <2>5. QED
    BY <1>a, <2>1, <2>3, <2>4 DEF ReadInv
<1>10. ASSUME NEW b \in Browsers, Reboot(b) PROVE ReadInv'
  <2>1. /\ files' = archive.files /\ UNCHANGED <<archive, raced>>
        /\ \A c \in Browsers : proc'[c] = Idle
    BY <1>1, <1>10, RebootStep
  <2>2. \A c \in Browsers : \A path : ~ Flushing(c, path)'
    BY <2>1 DEF Flushing, At, Idle
  <2>3. Emptied'
    BY <2>2 DEF Emptied
  <2>4. QED
    BY <1>a, <2>1, <2>3 DEF ReadInv
<1>11. QED
  BY <1>1, <1>2, <1>3, <1>4, <1>5, <1>6, <1>7, <1>8, <1>9, <1>10 DEF Next, Cgi, Answers
-----------------------------------------------------------------------------
(* What the users have entered *)

SFile(s)          == Path(s.page, s.name)
ReadOf(fs, path)  == IF path \in DOMAIN fs THEN fs[path] ELSE <<>>
Entry(cf, path)   == IF path \in DOMAIN cf THEN cf[path] ELSE FileValues(path, <<>>)

(* The text t of a file holds what was entered for it. *)
Stores(path, entered, t) ==
  \A k \in DOMAIN entered :
    IF PageOf(path) \in TextPages THEN IsPrefix(entered[k], FileValues(path, t)[k])
    ELSE FileValues(path, t)[k] = entered[k] \/ Fixed(PageOf(path), k, entered[k])

Kept(fs, cf, path) == path \in DOMAIN cf /\ Stores(path, cf[path], fs[path])

(* A form that its user can send, or has sent and that is not written yet *)
CanSend(r) == r.pc \in {"idle", "main", "flush"} /\ ~ (r.pc = "main" /\ r.j_click = "REFRESH")

(* What the user has not edited is as it was entered before. *)
Fits(s, base) ==
  \A k \in FieldsOf(s.page) \ s.edited :
    s.fields[k] = base[k] \/ Fixed(s.page, k, base[k])

NewForm(s)    == "name" \in s.edited
Fresh(s, bad) == ~ NewForm(s) /\ ~ s.stale /\ SFile(s) \notin bad

FormKept(s, fs, cf, bad) ==
  /\ s.page \in NamedPages => s.name # "__new"
  /\ s.page \in KeywordPages \cup {"top"} =>
       /\ NewForm(s) => Fits(s, FileValues(SFile(s), <<>>))
       /\ Fresh(s, bad) => Fits(s, Entry(cf, SFile(s)))
  /\ s.page \in TextPages /\ Fresh(s, bad) /\ "text" \notin s.edited =>
       IsPrefix(s.fields["text"], ReadOf(fs, SFile(s)))

Ambiguous(s) == s.page = "cipe" /\ ":" \in ToSet(s.fields["peer"])

(* A form for a file that another process writes is new, or known to be older. *)
Behind(s, path, races) ==
  s.page \in KnownPages /\ SFile(s) = path => NewForm(s) \/ s.stale \/ path \in races

NoNewFile(fs) ==
  \A page \in NamedPages : <<page, "__new">> \notin DOMAIN fs /\ <<page, "">> \notin DOMAIN fs

Bad == raced \cup overtaken

KeptFiles ==
  \A path \in DOMAIN files :
    path \notin Bad /\ (\A b \in Browsers : ~ Flushing(b, path)) => Kept(files, config, path)

KeptFlash ==
  \A path \in DOMAIN archive.files : path \notin Bad => Kept(archive.files, archive.config, path)

KeptForms ==
  \A b \in Browsers : CanSend(proc[b]) => FormKept(screen[b], files, config, Bad)

(* What is about to be written is no older form, and every other one is older now. *)
KeptSaves ==
  \A b \in Browsers : \A path : Flushing(b, path) =>
    /\ path \in DOMAIN files
    /\ screen[b].stale \/ Ambiguous(screen[b]) => path \in Bad
    /\ \A c \in Browsers \ {b} : CanSend(proc[c]) => Behind(screen[c], path, raced)

KeptInv ==
  /\ NoNewFile(files) /\ NoNewFile(archive.files)
  /\ KeptFiles /\ KeptFlash /\ KeptForms /\ KeptSaves

-----------------------------------------------------------------------------
(* Facts about forms *)

(* A form stays what it was when nothing was stored for its file, or it is an older *)
(* one afterwards.                                                                  *)
LEMMA FormKeptSame ==
  ASSUME NEW s, NEW u, NEW fs, NEW gs, NEW cf, NEW cg, NEW bad, NEW worse,
         FormKept(s, fs, cf, bad), bad \subseteq worse,
         u.page = s.page, u.name = s.name, u.fields = s.fields, u.edited = s.edited,
         s.stale => u.stale,
         Fresh(u, worse) /\ s.page \in KeywordPages \cup {"top"} =>
           Entry(cg, SFile(s)) = Entry(cf, SFile(s)),
         Fresh(u, worse) /\ s.page \in TextPages => ReadOf(gs, SFile(s)) = ReadOf(fs, SFile(s))
  PROVE  FormKept(u, gs, cg, worse)
<1>1. SFile(u) = SFile(s)
  BY DEF SFile
<1>2. NewForm(u) <=> NewForm(s)
  BY DEF NewForm
<1>3. Fresh(u, worse) => Fresh(s, bad)
  BY <1>1, <1>2 DEF Fresh
<1>4. \A base : Fits(s, base) => Fits(u, base)
  BY DEF Fits
<1>5. u.page \in NamedPages => u.name # "__new"
  BY DEF FormKept
<1>6. ASSUME u.page \in KeywordPages \cup {"top"}
      PROVE  /\ NewForm(u) => Fits(u, FileValues(SFile(u), <<>>))
             /\ Fresh(u, worse) => Fits(u, Entry(cg, SFile(u)))
  <2>1. NewForm(u) => Fits(u, FileValues(SFile(u), <<>>))
    BY <1>1, <1>2, <1>4, <1>6 DEF FormKept
  <2>2. Fresh(u, worse) => Fits(s, Entry(cg, SFile(s)))
    BY <1>3, <1>6 DEF FormKept
  <2>3. QED
    BY <1>1, <1>4, <2>1, <2>2
<1>7. ASSUME u.page \in TextPages, Fresh(u, worse), "text" \notin u.edited
      PROVE  IsPrefix(u.fields["text"], ReadOf(gs, SFile(u)))
  <2>1. IsPrefix(s.fields["text"], ReadOf(fs, SFile(s)))
    BY <1>3, <1>7 DEF FormKept
  <2>2. ReadOf(gs, SFile(s)) = ReadOf(fs, SFile(s))
    BY <1>7
  <2>3. QED
    BY <1>1, <2>1, <2>2
<1>8. QED
  BY <1>5, <1>6, <1>7 DEF FormKept

LEMMA ReadOfFiles == \A path : Read(path) = ReadOf(files, path)
BY DEF Read, ReadOf

LEMMA SFileIs ==
  ASSUME NEW s, s.page \in KnownPages
  PROVE  PageOf(SFile(s)) = s.page
BY PageOfPath DEF SFile

LEMMA FileIs == \A b : File(b) = SFile(screen[b])
BY DEF File, SFile

(* A form of a page with no file keeps nothing. *)
LEMMA OtherPageKept ==
  ASSUME NEW s, s.page \notin KnownPages
  PROVE  /\ \A fs, cf, bad : FormKept(s, fs, cf, bad)
         /\ \A path, races : Behind(s, path, races)
<1>1. s.page \notin KeywordPages \cup {"top"} /\ s.page \notin TextPages
  BY DEF KnownPages
<1>2. s.page \notin NamedPages
  BY <1>1 DEF NamedPages, KeywordPages, TextPages
<1>3. QED
  BY <1>1, <1>2 DEF FormKept, Behind

LEMMA BlankKept ==
  /\ Blank.page \notin KnownPages /\ Error.page \notin KnownPages
  /\ Show("status", None, <<>>).page \notin KnownPages
BY DEF Blank, Error, Show, KnownPages, KeywordPages, TextPages

(* "name" is no field of a file. *)
LEMMA NoNameField == \A page \in KeywordPages \cup {"top"} : "name" \notin FieldsOf(page)
<1>1. TAKE page \in KeywordPages \cup {"top"}
<1>2. CASE page = "top"
  BY <1>2, FieldsAre
<1>3. CASE page = "cipe"
  BY <1>3, FieldsAre DEF CipeFields
<1>4. CASE page = "network"
  BY <1>4, FieldsAre DEF PageDefaults, NetworkDefaults, KeywordPages
<1>5. CASE page = "udhcpd"
  <2>1. "name" \notin ToSet(UdhcpdKeys)
    BY DEF ToSet, UdhcpdKeys
  <2>2. FieldsOf(page) = ToSet(UdhcpdKeys)
    BY <1>5, FieldsAre DEF PageDefaults, UdhcpdDefaults, KeywordPages
  <2>3. QED
    BY <2>1, <2>2
<1>6. CASE page = "wlan"
  <2>1. "name" \notin ToSet(WlanKeys)
    BY DEF ToSet, WlanKeys
  <2>2. FieldsOf(page) = ToSet(WlanKeys)
    BY <1>6, FieldsAre DEF PageDefaults, WlanDefaults, KeywordPages
  <2>3. QED
    BY <2>1, <2>2
<1>7. CASE page = "kaodv"
  <2>1. "name" \notin ToSet(KaodvKeys)
    BY DEF ToSet, KaodvKeys
  <2>2. FieldsOf(page) = ToSet(KaodvKeys)
    BY <1>7, FieldsAre DEF PageDefaults, KaodvDefaults, KeywordPages
  <2>3. QED
    BY <2>1, <2>2
<1>8. QED
  BY <1>1, <1>2, <1>3, <1>4, <1>5, <1>6, <1>7 DEF KeywordPages
(* A keyword file that nobody disturbed holds what was entered for it, or was there. *)
LEMMA EntryRead ==
  ASSUME ShapeInv, KeptFiles, NEW path, PageOf(path) \in KeywordPages \cup {"top"},
         path \notin Bad, \A b \in Browsers : ~ Flushing(b, path)
  PROVE  \A k \in FieldsOf(PageOf(path)) :
           \/ FileValues(path, ReadOf(files, path))[k] = Entry(config, path)[k]
           \/ Fixed(PageOf(path), k, Entry(config, path)[k])
<1>1. PageOf(path) \in KnownPages /\ PageOf(path) \notin TextPages
  BY DEF KnownPages, KeywordPages, TextPages
<1>2. CASE path \in DOMAIN files
  <2>1. path \in DOMAIN config /\ Stores(path, config[path], files[path])
    BY <1>2 DEF KeptFiles, Kept
  <2>2. DOMAIN config[path] = FieldsOf(PageOf(path))
    BY <1>1, <2>1 DEF ShapeInv, IsConfig, IsEntry
  <2>3. Entry(config, path) = config[path] /\ ReadOf(files, path) = files[path]
    BY <1>2, <2>1 DEF Entry, ReadOf
  <2>4. \A k \in FieldsOf(PageOf(path)) :
           \/ FileValues(path, files[path])[k] = config[path][k]
           \/ Fixed(PageOf(path), k, config[path][k])
    BY <1>1, <2>1, <2>2 DEF Stores
  <2>5. QED
    BY <2>3, <2>4
<1>3. CASE path \notin DOMAIN files
  <2>1. path \notin DOMAIN config
    BY <1>3 DEF ShapeInv
  <2>2. QED
    BY <1>3, <2>1 DEF Entry, ReadOf
<1>4. QED
  BY <1>2, <1>3

LEMMA TopMenuKept ==
  ASSUME ShapeInv, KeptFiles, NEW bad, Bad \subseteq bad,
         RunlevelPath \notin bad => \A b \in Browsers : ~ Flushing(b, RunlevelPath)
  PROVE  FormKept(TopMenu, files, config, bad)
<1>1. PICK r : r = Sel(FetchRunlevel, Levels)
  OBVIOUS
<1>2. PICK s : s = TopMenu
  OBVIOUS
<1>3. s = Show("top", None, [runlevel |-> r])
  BY <1>1, <1>2 DEF TopMenu, Levels
<1>4. s.page = "top" /\ s.edited = {} /\ s.fields["runlevel"] = r
  BY <1>3 DEF Show
<1>5. SFile(s) = RunlevelPath
  BY <1>4 DEF SFile, Path, RunlevelPath, NamedPages
<1>6. PageOf(RunlevelPath) = "top"
  BY DEF PageOf, RunlevelPath
<1>7. ASSUME Fresh(s, bad) PROVE Fits(s, Entry(config, RunlevelPath))
  <2>1. RunlevelPath \notin bad
    BY <1>5, <1>7 DEF Fresh
  <2>2. PICK t : t = ReadOf(files, RunlevelPath)
    OBVIOUS
  <2>3. IsSeq(t) /\ t = Read(<<"runlevel">>)
    BY <2>2, ReadIs, ReadOfFiles DEF RunlevelPath
  <2>4. PICK e, v : e = Entry(config, RunlevelPath)["runlevel"] /\ v = FirstToken(t)
    OBVIOUS
  <2>5. FileValues(RunlevelPath, t)["runlevel"] = v
    BY <1>6, <2>4, FileValuesOf
  <2>6. v = e \/ Fixed("top", "runlevel", e)
    <3>1. \A k \in FieldsOf("top") :
           \/ FileValues(RunlevelPath, t)[k] = Entry(config, RunlevelPath)[k]
           \/ Fixed("top", k, Entry(config, RunlevelPath)[k])
      BY <1>6, <2>1, <2>2, EntryRead
    <3>2. QED
      BY <2>4, <2>5, <3>1, FieldsAre
  <2>7. r = v \/ v \notin ToSet(Levels)
    <3>1. FetchRunlevel = Fetched(t)
      BY <2>3 DEF FetchRunlevel, Fetched
    <3>2. QED
      BY <1>1, <2>3, <2>4, <3>1, RunlevelShown
  <2>8. r = e \/ Fixed("top", "runlevel", e)
    BY <2>6, <2>7 DEF Fixed, Levels
  <2>9. QED
    BY <1>4, <2>4, <2>8, FieldsAre DEF Fits
<1>8. ~ NewForm(s)
  BY <1>4 DEF NewForm
<1>9. FormKept(s, files, config, bad)
  BY <1>4, <1>5, <1>7, <1>8 DEF FormKept, NamedPages, TextPages, KeywordPages
<1>10. QED
  BY <1>2, <1>9

(* A menu shows what was entered for its file. *)
LEMMA MenuKept ==
  ASSUME ShapeInv, KeptFiles, NoNewFile(files), NEW bad, Bad \subseteq bad,
         NEW page \in KeywordPages \cup TextPages, NEW name, NEW mode, NEW s,
         IsShown(s, page, name, PageMenu(page, ReadOf(files, Path(page, name)), mode), mode),
         mode # None => page = "kaodv" /\ IsValue(mode),
         Path(page, name) \notin bad => \A b \in Browsers : ~ Flushing(b, Path(page, name))
  PROVE  FormKept(s, files, config, bad)
<1>1. PICK path, t : path = Path(page, name) /\ t = ReadOf(files, path)
  OBVIOUS
<1>2. PICK f : f = PageMenu(page, t, mode)
  OBVIOUS
<1>3. IsShown(s, page, name, f, mode)
  BY <1>1, <1>2
<1>4. IsSeq(t)
  BY <1>1, ReadIs, ReadOfFiles
<1>5. page \in KnownPages /\ page # "top" /\ PageOf(path) = page
  BY <1>1, PageOfPath DEF KnownPages, KeywordPages, TextPages
<1>6. s.page = page /\ s.fields = f
  BY <1>3 DEF IsShown
<1>7. CASE IsNew(page, name)
  <2>1. s.name = "New" /\ s.edited = {"name"}
    BY <1>3, <1>7 DEF IsShown
  <2>2. mode = None
    BY <1>7 DEF IsNew, NamedPages
  <2>3. t = <<>>
    <3>1. path = <<page, name>>
      BY <1>1, <1>7 DEF IsNew, Path, NamedPages
    <3>2. path \notin DOMAIN files
      BY <1>7, <3>1 DEF IsNew, NoNewFile
    <3>3. QED
      BY <1>1, <3>2 DEF ReadOf
  <2>4. ASSUME page \in KeywordPages PROVE Fits(s, FileValues(SFile(s), <<>>))
    <3>1. PageOf(SFile(s)) = page
      BY <1>5, <1>6, SFileIs
    <3>2. FileValues(SFile(s), <<>>) = PageValues(page, <<>>)
      BY <2>4, <3>1, FileValuesOf
    <3>3. Shows(page, PageMenu(page, t, mode), PageValues(page, t), mode)
      BY <1>4, <2>2, <2>4, PageMenuIs
    <3>4. Shows(page, f, PageValues(page, <<>>), mode)
      BY <1>2, <2>3, <3>3
    <3>5. QED
      BY <1>6, <2>2, <3>2, <3>4 DEF Fits, Shows
  <2>5. NewForm(s) /\ ~ Fresh(s, bad)
    BY <2>1 DEF NewForm, Fresh
  <2>6. QED
    BY <1>5, <1>6, <2>1, <2>4, <2>5 DEF FormKept
<1>8. CASE ~ IsNew(page, name)
  <2>1. /\ s.name = name /\ "name" \notin s.edited
        /\ mode # None => "kaodv_gw" \in s.edited
    BY <1>3, <1>8 DEF IsShown
  <2>2. ~ NewForm(s)
    BY <2>1 DEF NewForm
  <2>3. SFile(s) = path
    BY <1>1, <1>6, <2>1 DEF SFile
  <2>4. page \in NamedPages => s.name # "__new"
    BY <1>8, <2>1 DEF IsNew
  <2>5. ASSUME page \in KeywordPages, Fresh(s, bad) PROVE Fits(s, Entry(config, path))
    <3>1. path \notin bad
      BY <2>3, <2>5 DEF Fresh
    <3>2. \A k \in FieldsOf(page) :
            \/ FileValues(path, t)[k] = Entry(config, path)[k]
            \/ Fixed(page, k, Entry(config, path)[k])
      BY <1>1, <1>5, <2>5, <3>1, EntryRead
    <3>3. FileValues(path, t) = PageValues(page, t)
      BY <1>5, <2>5, FileValuesOf
    <3>4. Shows(page, f, PageValues(page, t), mode)
      BY <1>2, <1>4, <2>5, PageMenuIs
    <3>5. ASSUME NEW k \in FieldsOf(page) \ s.edited
          PROVE f[k] = Entry(config, path)[k] \/ Fixed(page, k, Entry(config, path)[k])
      <4>1. PICK v : v = PageValues(page, t)[k]
        OBVIOUS
      <4>2. f[k] = v \/ Fixed(page, k, v)
        BY <2>1, <3>4, <3>5, <4>1 DEF Shows
      <4>3. v = Entry(config, path)[k] \/ Fixed(page, k, Entry(config, path)[k])
        BY <3>2, <3>3, <3>5, <4>1
      <4>4. QED
        BY <4>2, <4>3
    <3>6. QED
      BY <1>6, <3>5 DEF Fits
  <2>6. ASSUME page \in TextPages PROVE IsPrefix(s.fields["text"], t)
    <3>1. f = Text(t)
      BY <1>2, <2>6, TextMenuIs
    <3>2. QED
      BY <1>4, <1>6, <3>1, TextIs
  <2>7. s.page \in KeywordPages \cup {"top"} =>
          /\ NewForm(s) => Fits(s, FileValues(SFile(s), <<>>))
          /\ Fresh(s, bad) => Fits(s, Entry(config, SFile(s)))
    BY <1>5, <1>6, <2>2, <2>3, <2>5
  <2>8. s.page \in TextPages => IsPrefix(s.fields["text"], ReadOf(files, SFile(s)))
    BY <1>1, <1>6, <2>3, <2>6
  <2>9. QED
    BY <1>6, <2>4, <2>7, <2>8 DEF FormKept
<1>9. QED
  BY <1>7, <1>8
-----------------------------------------------------------------------------
(* The steps that write no file *)

(* What the new form of one browser must satisfy *)
FormFollows(b) ==
  /\ CanSend(proc'[b]) =>
       /\ FormKept(screen'[b], files, config, Bad')
       /\ \A d \in Browsers \ {b} : \A path :
            Flushing(d, path) => Behind(screen'[b], path, raced')

LEMMA KeptAlone ==
  ASSUME NEW b \in Browsers, KeptInv, OneBrowser(b), UNCHANGED <<files, config>>,
         raced \subseteq raced', overtaken \subseteq overtaken',
         NoNewFile(archive'.files), KeptFlash', proc'[b].pc # "flush", FormFollows(b),
         \A path : Flushing(b, path) => path \in raced'
  PROVE  KeptInv'
<1>1. \A c \in Browsers \ {b} : screen'[c] = screen[c] /\ proc'[c] = proc[c]
  BY DEF OneBrowser, Alone, Same
<1>2. \A c \in Browsers \ {b} : \A path : Flushing(c, path)' <=> Flushing(c, path)
  BY OtherFlushers
<1>3. \A path : ~ Flushing(b, path)'
  BY DEF Flushing, At
<1>4. Bad \subseteq Bad' /\ raced' \subseteq Bad'
  BY DEF Bad
<1>5. KeptFiles'
  <2>1. ASSUME NEW path \in DOMAIN files, path \notin Bad',
               \A c \in Browsers : ~ Flushing(c, path)'
        PROVE  Kept(files, config, path)
    <3>1. path \notin Bad /\ \A c \in Browsers : ~ Flushing(c, path)
      BY <1>2, <1>4, <2>1
    <3>2. QED
      BY <3>1 DEF KeptInv, KeptFiles
  <2>2. QED
    BY <2>1 DEF KeptFiles
<1>6. KeptForms'
  <2>1. ASSUME NEW c \in Browsers, CanSend(proc'[c])
        PROVE  FormKept(screen'[c], files, config, Bad')
    <3>1. CASE c = b
      BY <2>1, <3>1 DEF FormFollows
    <3>2. CASE c # b
      <4>1. FormKept(screen[c], files, config, Bad)
        BY <1>1, <2>1, <3>2 DEF KeptInv, KeptForms
      <4>2. FormKept(screen[c], files, config, Bad')
        BY <1>4, <4>1, FormKeptSame
      <4>3. QED
        BY <1>1, <3>2, <4>2
    <3>3. QED
      BY <3>1, <3>2
  <2>2. QED
    BY <2>1 DEF KeptForms
<1>7. KeptSaves'
  <2>1. ASSUME NEW d \in Browsers, NEW path, Flushing(d, path)'
        PROVE  /\ path \in DOMAIN files /\ d # b
               /\ screen'[d].stale \/ Ambiguous(screen'[d]) => path \in Bad'
               /\ \A c \in Browsers \ {d} : CanSend(proc'[c]) => Behind(screen'[c], path, raced')
    <3>1. d # b /\ Flushing(d, path)
      BY <1>2, <1>3, <2>1
    <3>2. /\ path \in DOMAIN files
          /\ screen[d].stale \/ Ambiguous(screen[d]) => path \in Bad
          /\ \A c \in Browsers \ {d} : CanSend(proc[c]) => Behind(screen[c], path, raced)
      BY <3>1 DEF KeptInv, KeptSaves
    <3>3. screen'[d].stale \/ Ambiguous(screen'[d]) => path \in Bad'
      BY <1>1, <1>4, <3>1, <3>2
    <3>4. ASSUME NEW c \in Browsers \ {d}, CanSend(proc'[c])
          PROVE  Behind(screen'[c], path, raced')
      <4>1. CASE c = b
        BY <3>1, <3>4, <4>1 DEF FormFollows
      <4>2. CASE c # b
        <5>1. Behind(screen[c], path, raced)
          BY <1>1, <3>2, <3>4, <4>2
        <5>2. Behind(screen[c], path, raced')
          BY <5>1 DEF Behind
        <5>3. QED
          BY <1>1, <4>2, <5>2
      <4>3. QED
        BY <4>1, <4>2
    <3>5. QED
      BY <3>1, <3>2, <3>3, <3>4
  <2>2. QED
    BY <2>1 DEF KeptSaves
<1>8. QED
  BY <1>5, <1>6, <1>7 DEF KeptInv

(* What was stored in flash stays kept. *)
LEMMA FlashSame ==
  ASSUME KeptInv, UNCHANGED archive, raced \subseteq raced', overtaken \subseteq overtaken'
  PROVE  KeptFlash' /\ NoNewFile(archive'.files)
BY DEF KeptInv, KeptFlash, Bad

(* The screen of a browser as it was *)
LEMMA SameForm ==
  ASSUME NEW b \in Browsers, KeptInv, screen'[b] = screen[b], CanSend(proc[b]),
         raced \subseteq raced', overtaken \subseteq overtaken'
  PROVE  FormFollows(b)
<1>1. Bad \subseteq Bad'
  BY DEF Bad
<1>2. FormKept(screen[b], files, config, Bad)
  BY DEF KeptInv, KeptForms
<1>3. FormKept(screen[b], files, config, Bad')
  BY <1>1, <1>2, FormKeptSame
<1>4. ASSUME NEW d \in Browsers \ {b}, NEW path, Flushing(d, path)
      PROVE  Behind(screen[b], path, raced')
  <2>1. Behind(screen[b], path, raced)
    BY <1>4 DEF KeptInv, KeptSaves
  <2>2. QED
    BY <2>1 DEF Behind
<1>5. QED
  BY <1>3, <1>4 DEF FormFollows

LEMMA NoForm ==
  ASSUME NEW b \in Browsers, ~ CanSend(proc'[b]) \/ screen'[b].page \notin KnownPages
  PROVE  FormFollows(b)
BY OtherPageKept DEF FormFollows

LEMMA IdleKept ==
  ASSUME NEW b \in Browsers, KeptInv, proc[b] = Idle
  PROVE  CanSend(proc[b]) /\ FormKept(screen[b], files, config, Bad)
<1>1. CanSend(Idle)
  BY DEF CanSend, Idle
<1>2. QED
  BY <1>1 DEF KeptInv, KeptForms

(* The values of an empty file depend on its page only. *)
LEMMA SameValues ==
  ASSUME NEW p, NEW q, PageOf(p) = PageOf(q), PageOf(p) \in KeywordPages \cup {"top"}
  PROVE  FileValues(p, <<>>) = FileValues(q, <<>>)
<1>1. CASE PageOf(p) = "top"
  <2>1. /\ FileValues(p, <<>>) = [runlevel |-> FirstToken(<<>>)]
        /\ FileValues(q, <<>>) = [runlevel |-> FirstToken(<<>>)]
    BY <1>1, FileValuesOf
  <2>2. QED
    BY <2>1
<1>2. CASE PageOf(p) \in KeywordPages
  <2>1. /\ FileValues(p, <<>>) = PageValues(PageOf(p), <<>>)
        /\ FileValues(q, <<>>) = PageValues(PageOf(q), <<>>)
    BY <1>2, FileValuesOf
  <2>2. QED
    BY <2>1
<1>3. QED
  BY <1>1, <1>2

(* A form that its user has changed *)
LEMMA EnterKept ==
  ASSUME NEW b \in Browsers, ShapeInv, KeptInv, NEW k \in DOMAIN screen[b].fields, NEW v,
         Enter(b, k, v), UNCHANGED <<raced, overtaken>>
  PROVE  FormFollows(b)
<1>1. /\ screen' = [screen EXCEPT ![b].fields[k] = v, ![b].edited = @ \cup {k}]
      /\ proc[b] = Idle
  BY DEF Enter, Waiting
<1>2. PICK s, u : s = screen[b] /\ u = screen'[b]
  OBVIOUS
<1>3. IsScreen(s, Pages[b])
  BY <1>2 DEF ShapeInv, BrowserInv
<1>4. /\ u.page = s.page /\ u.name = s.name /\ u.stale = s.stale
      /\ u.edited = s.edited \cup {k} /\ u.fields = [s.fields EXCEPT ![k] = v]
  <2>1. u = [s EXCEPT !.fields = [s.fields EXCEPT ![k] = v], !.edited = s.edited \cup {k}]
    BY <1>1, <1>2 DEF ShapeInv
  <2>2. QED
    BY <1>3, <2>1 DEF IsScreen
<1>5. SFile(u) = SFile(s)
  BY <1>4 DEF SFile
<1>6. FormKept(s, files, config, Bad) /\ CanSend(proc[b]) /\ Bad' = Bad
  BY <1>1, <1>2, IdleKept DEF Bad
<1>7. CASE s.page \in KeywordPages \cup {"top"}
  <2>1. "name" # k
    <3>1. FormOK(s.page, s.fields)
      BY <1>3 DEF IsScreen
    <3>2. DOMAIN s.fields = FieldsOf(s.page)
      BY <1>7, <3>1, FieldsAre DEF FormOK, IsForm
    <3>3. QED
      BY <1>2, <1>7, <3>2, NoNameField
  <2>2. NewForm(u) <=> NewForm(s)
    BY <1>4, <2>1 DEF NewForm
  <2>3. Fresh(u, Bad) <=> Fresh(s, Bad)
    BY <1>4, <1>5, <2>2 DEF Fresh
  <2>4. \A base : Fits(s, base) => Fits(u, base)
    BY <1>4 DEF Fits
  <2>5. FormKept(u, files, config, Bad)
    BY <1>4, <1>5, <1>6, <1>7, <2>2, <2>3, <2>4 DEF FormKept, KeywordPages, TextPages
  <2>6. \A path : Behind(s, path, raced) => Behind(u, path, raced)
    BY <1>4, <1>5, <2>2 DEF Behind
  <2>7. QED
    BY <1>2, <1>6, <2>5, <2>6 DEF FormFollows, KeptInv, KeptSaves
<1>8. CASE s.page \in TextPages
  <2>1. k = "text"
    BY <1>2, <1>3, <1>8 DEF IsScreen, FormOK
  <2>2. s.page \notin KeywordPages \cup {"top"}
    BY <1>8 DEF TextPages, KeywordPages
  <2>3. FormKept(u, files, config, Bad)
    BY <1>4, <1>6, <2>1, <2>2 DEF FormKept
  <2>4. NewForm(u) <=> NewForm(s)
    BY <1>4, <2>1 DEF NewForm
  <2>5. \A path : Behind(s, path, raced) => Behind(u, path, raced)
    BY <1>4, <1>5, <2>4 DEF Behind
  <2>6. QED
    BY <1>2, <1>6, <2>3, <2>5 DEF FormFollows, KeptInv, KeptSaves
<1>9. CASE s.page \notin KnownPages
  BY <1>2, <1>4, <1>9, NoForm
<1>10. QED
  BY <1>7, <1>8, <1>9 DEF KnownPages

(* The name of a new file does not matter before the file is written. *)
LEMMA EnterNameKept ==
  ASSUME NEW b \in Browsers, ShapeInv, KeptInv, NEW name \in Names \cup {""},
         EnterName(b, name), UNCHANGED <<raced, overtaken>>
  PROVE  FormFollows(b)
<1>1. /\ screen' = [screen EXCEPT ![b].name = name]
      /\ proc[b] = Idle /\ screen[b].edited = {"name"}
  BY DEF EnterName, Waiting
<1>2. PICK s, u : s = screen[b] /\ u = screen'[b]
  OBVIOUS
<1>3. IsScreen(s, Pages[b])
  BY <1>2 DEF ShapeInv, BrowserInv
<1>4. /\ u.page = s.page /\ u.name = name /\ u.edited = s.edited /\ u.fields = s.fields
  <2>1. u = [s EXCEPT !.name = name]
    BY <1>1, <1>2 DEF ShapeInv
  <2>2. QED
    BY <1>3, <2>1 DEF IsScreen
<1>5. FormKept(s, files, config, Bad) /\ Bad' = Bad
  BY <1>1, <1>2, IdleKept DEF Bad
<1>6. NewForm(u) /\ NewForm(s) /\ ~ Fresh(u, Bad)
  BY <1>1, <1>2, <1>4 DEF NewForm, Fresh
<1>7. name # "__new"
  BY NamesAssumption
<1>8. ASSUME s.page \in KeywordPages \cup {"top"}
      PROVE  Fits(u, FileValues(SFile(u), <<>>))
  <2>1. s.page \in KnownPages
    BY <1>8 DEF KnownPages
  <2>2. PageOf(SFile(u)) = s.page /\ PageOf(SFile(s)) = s.page
    BY <1>4, <2>1, SFileIs
  <2>3. FileValues(SFile(u), <<>>) = FileValues(SFile(s), <<>>)
    BY <1>8, <2>2, SameValues
  <2>4. Fits(s, FileValues(SFile(s), <<>>))
    BY <1>5, <1>6, <1>8 DEF FormKept
  <2>5. Fits(u, FileValues(SFile(s), <<>>))
    BY <1>4, <2>4 DEF Fits
  <2>6. QED
    BY <2>3, <2>5
<1>9. FormKept(u, files, config, Bad)
  BY <1>4, <1>6, <1>7, <1>8 DEF FormKept
<1>10. \A path : Behind(u, path, raced)
  BY <1>6 DEF Behind
<1>11. QED
  BY <1>2, <1>5, <1>9, <1>10 DEF FormFollows

LEMMA UserKept ==
  ASSUME NEW b \in Browsers, ShapeInv, KeptInv, User(b)
  PROVE  KeptInv'
<1>1. /\ OneBrowser(b) /\ Untouched /\ proc[b] = Idle /\ proc'[b].pc \in {"idle", "main"}
  BY UserStep
<1>2. UNCHANGED <<files, config, archive, raced, overtaken>>
  BY <1>1 DEF Untouched, history
<1>3. CanSend(proc[b]) /\ proc[b].pc # "flush"
  BY <1>1 DEF CanSend, Idle
<1>4. FormFollows(b)
  <2>1. CASE \/ Visit(b) \/ (\E page \in Pages[b] : Follow(b, page))
             \/ \E click \in {"OK", "CANCEL", "SAVE"} : Press(b, click)
    <3>1. UNCHANGED screen
      BY <2>1 DEF Visit, Follow, Press
    <3>2. QED
      BY <1>2, <1>3, <3>1, SameForm
  <2>2. CASE \/ (\E name \in Names \cup {"New", "__new"} : Choose(b, name))
             \/ \E gw \in ToSet(EnabledDisabled) : ChooseMode(b, gw)
    <3>1. Send(b, None, "REFRESH", None)
      BY <2>2 DEF Choose, ChooseMode, Submit
    <3>2. proc'[b] = Request(None, "REFRESH", None)
      BY <3>1, SendStep
    <3>3. ~ CanSend(proc'[b])
      BY <3>2 DEF CanSend, Request
    <3>4. QED
      BY <3>3, NoForm
  <2>3. CASE \E k \in Editable \cap DOMAIN screen[b].fields :
               \E v \in Enterable(screen[b].page, k) : Enter(b, k, v)
    BY <1>2, <2>3, EnterKept
  <2>4. CASE \E name \in Names \cup {""} : EnterName(b, name)
    BY <1>2, <2>4, EnterNameKept
  <2>5. QED
    BY <2>1, <2>2, <2>3, <2>4 DEF User
<1>5. KeptFlash' /\ NoNewFile(archive'.files)
  BY <1>2, FlashSame
<1>6. \A path : ~ Flushing(b, path)
  BY <1>3 DEF Flushing, At
<1>7. proc'[b].pc # "flush"
  BY <1>1
<1>8. QED
  BY <1>1, <1>2, <1>4, <1>5, <1>6, <1>7, KeptAlone
(* A menu that is shown while another process writes its file marks the file as raced. *)
LEMMA ShowTopKept ==
  ASSUME NEW b \in Browsers, ShapeInv, KeptInv, ShowTop(b)
  PROVE  FormFollows(b)
<1>1. /\ Exit(b, TopMenu) /\ RacedIf(BeingWritten(RunlevelPath, b), RunlevelPath)
      /\ UNCHANGED overtaken /\ proc[b].pc # "flush"
  BY DEF ShowTop, RunlevelPath, Called, At
<1>2. screen'[b] = TopMenu
  BY <1>1, TopMenuIs, ExitStep
<1>3. \A c \in Browsers \ {b} : Flushing(c, RunlevelPath) => RunlevelPath \in raced'
  BY <1>1 DEF RacedIf, BeingWritten, Flushing
<1>4. ~ Flushing(b, RunlevelPath)
  BY <1>1 DEF Flushing, At
<1>5. Bad \subseteq Bad' /\ raced' \subseteq Bad'
  BY <1>1 DEF Bad, RacedIf
<1>6. RunlevelPath \notin Bad' => \A c \in Browsers : ~ Flushing(c, RunlevelPath)
  BY <1>3, <1>4, <1>5
<1>7. FormKept(TopMenu, files, config, Bad')
  <2>1. KeptFiles
    BY DEF KeptInv
  <2>2. PICK bad : bad = Bad'
    OBVIOUS
  <2>3. FormKept(TopMenu, files, config, bad)
    BY <1>5, <1>6, <2>1, <2>2, TopMenuKept
  <2>4. QED
    BY <2>2, <2>3
<1>8. TopMenu.page = "top" /\ SFile(TopMenu) = RunlevelPath
  <2>1. TopMenu.page = "top"
    BY DEF TopMenu, Show
  <2>2. QED
    BY <2>1 DEF SFile, Path, RunlevelPath, NamedPages
<1>9. \A d \in Browsers \ {b} : \A path :
        Flushing(d, path) => Behind(TopMenu, path, raced')
  BY <1>3, <1>8 DEF Behind
<1>10. QED
  BY <1>2, <1>7, <1>9 DEF FormFollows

LEMMA ShowPageKept ==
  ASSUME NEW b \in Browsers, ShapeInv, KeptInv, ShowPage(b)
  PROVE  FormFollows(b)
<1>1. /\ Called(b, "menu") \/ Called(b, "refresh")
      /\ Cfg(b) \in Pages[b] \ {"status"} /\ UNCHANGED overtaken
  BY DEF ShowPage
<1>2. PICK page, mode : page = Cfg(b) /\ mode = ModeSel(b, page)
  OBVIOUS
<1>3. page \in KeywordPages \cup TextPages /\ page # "top" /\ page \in KnownPages
  BY <1>1, <1>2, PagesAre DEF KnownPages
<1>4. PICK name : LET path == Path(page, name)
                  IN /\ RacedIf(BeingWritten(path, b), path)
                     /\ Exit(b, IF Crashes(page, Read(path)) THEN Blank
                                ELSE Shown(b, page, name))
  BY <1>2 DEF ShowPage
<1>5. PICK path : path = Path(page, name)
  OBVIOUS
<1>6. RacedIf(BeingWritten(path, b), path) /\ (Exit(b, Blank) \/ Exit(b, Shown(b, page, name)))
  BY <1>4, <1>5
<1>7. CASE Exit(b, Blank)
  <2>1. screen'[b] = Blank
    BY <1>7, BlankIs, ExitStep
  <2>2. QED
    BY <2>1, BlankKept, NoForm
<1>8. CASE Exit(b, Shown(b, page, name))
  <2>1. PICK s : s = Shown(b, page, name)
    OBVIOUS
  <2>2. screen'[b] = s
    <3>1. IsScreen(s, Pages[b])
      BY <1>1, <1>2, <2>1, ShownShape
    <3>2. QED
      BY <1>8, <2>1, <3>1, ExitStep
  <2>3. IsShown(s, page, name, PageMenu(page, ReadOf(files, Path(page, name)), mode), mode)
    <3>1. IsShown(Shown(b, page, name), page, name,
                  PageMenu(page, Read(Path(page, name)), ModeSel(b, page)), ModeSel(b, page))
      BY ShownIs
    <3>2. Read(Path(page, name)) = ReadOf(files, Path(page, name))
      BY ReadOfFiles
    <3>3. QED
      BY <1>2, <2>1, <3>1, <3>2
  <2>4. mode # None => page = "kaodv" /\ IsValue(mode)
    BY <1>1, <1>2, ModeSelIs
  <2>5. \A c \in Browsers \ {b} : Flushing(c, path) => path \in raced'
    BY <1>6 DEF RacedIf, BeingWritten, Flushing
  <2>6. ~ Flushing(b, path)
    BY <1>1 DEF Flushing, At, Called
  <2>7. Bad \subseteq Bad' /\ raced' \subseteq Bad'
    BY <1>1, <1>6 DEF Bad, RacedIf
  <2>8. path \notin Bad' => \A c \in Browsers : ~ Flushing(c, path)
    BY <2>5, <2>6, <2>7
  <2>9. FormKept(s, files, config, Bad')
    <3>1. KeptFiles /\ NoNewFile(files)
      BY DEF KeptInv
    <3>2. PICK bad : bad = Bad'
      OBVIOUS
    <3>3. Bad \subseteq bad
      BY <2>7, <3>2
    <3>4. Path(page, name) \notin bad => \A c \in Browsers : ~ Flushing(c, Path(page, name))
      BY <1>5, <2>8, <3>2
    <3>5. FormKept(s, files, config, bad)
      BY <1>3, <2>3, <2>4, <3>1, <3>3, <3>4, MenuKept
    <3>6. QED
      BY <3>2, <3>5
  <2>10. ASSUME NEW d \in Browsers \ {b}, NEW p, Flushing(d, p) PROVE Behind(s, p, raced')
    <3>1. CASE IsNew(page, name)
      BY <2>3, <3>1 DEF IsShown, Behind, NewForm
    <3>2. CASE ~ IsNew(page, name)
      <4>1. s.page = page /\ s.name = name
        BY <2>3, <3>2 DEF IsShown
      <4>2. SFile(s) = path
        BY <1>5, <4>1 DEF SFile
      <4>3. QED
        BY <2>5, <2>10, <4>2 DEF Behind
    <3>3. QED
      BY <3>1, <3>2
  <2>11. QED
    BY <2>2, <2>9, <2>10 DEF FormFollows
<1>9. QED
  BY <1>6, <1>7, <1>8

LEMMA AnswersKept ==
  ASSUME NEW b \in Browsers, ShapeInv, KeptInv, Answers(b)
  PROVE  KeptInv'
<1>1. /\ OneBrowser(b) /\ UNCHANGED <<files, archive, config, overtaken>>
      /\ raced \subseteq raced' /\ proc[b].pc # "flush" /\ proc'[b].pc # "flush"
  BY ShowStep
<1>2. FormFollows(b)
  <2>1. CASE ShowStatus(b)
    <3>1. Exit(b, Show("status", None, <<>>)) /\ screen' = [screen EXCEPT ![b] = Show("status", None, <<>>)]
      BY <2>1 DEF ShowStatus, Exit
    <3>2. screen'[b] = Show("status", None, <<>>)
      BY <3>1, ScreenSet
    <3>3. QED
      BY <3>2, BlankKept, NoForm
  <2>2. CASE OpenFails(b)
    <3>1. Goto(b, "menu") \/ Exit(b, Blank) \/ Exit(b, Error)
      BY <2>2 DEF OpenFails
    <3>2. CASE Goto(b, "menu")
      <4>1. proc'[b].pc = "menu"
        BY <3>2, GotoStep
      <4>2. QED
        BY <4>1, NoForm DEF CanSend
    <3>3. CASE Exit(b, Blank) \/ Exit(b, Error)
      <4>1. screen'[b] = Blank \/ screen'[b] = Error
        BY <3>3, BlankIs, ExitStep
      <4>2. QED
        BY <4>1, BlankKept, NoForm
    <3>4. QED
      BY <3>1, <3>2, <3>3
  <2>3. QED
    BY <2>1, <2>2, ShowTopKept, ShowPageKept DEF Answers
<1>3. KeptFlash' /\ NoNewFile(archive'.files)
  BY <1>1, FlashSame
<1>4. \A path : ~ Flushing(b, path)
  BY <1>1 DEF Flushing, At
<1>5. QED
  BY <1>1, <1>2, <1>3, <1>4, KeptAlone

LEMMA FaultKept ==
  ASSUME NEW b \in Browsers, ShapeInv, KeptInv, FlushFails(b)
  PROVE  KeptInv'
<1>1. /\ OneBrowser(b) /\ UNCHANGED <<files, archive, config, overtaken>>
      /\ raced' = raced \cup {File(b)} /\ proc'[b].pc = "menu"
  BY FaultStep
<1>2. FormFollows(b)
  BY <1>1, NoForm DEF CanSend
<1>3. KeptFlash' /\ NoNewFile(archive'.files)
  BY <1>1, FlashSame
<1>4. \A path : Flushing(b, path) => path \in raced'
  BY <1>1 DEF Flushing
<1>5. QED
  BY <1>1, <1>2, <1>3, <1>4, KeptAlone

(* What is stored in flash was kept, except for the files that were being written. *)
LEMMA SaveKept ==
  ASSUME NEW b \in Browsers, ShapeInv, KeptInv, SaveConfig(b)
  PROVE  KeptInv'
<1>1. /\ OneBrowser(b) /\ UNCHANGED <<files, config, overtaken>>
      /\ archive'.files = files /\ archive'.config = config
      /\ raced' = raced \cup {File(c) : c \in {d \in Browsers : At(d, "flush")}}
      /\ proc[b].pc = "main" /\ proc'[b].pc = "reboot"
  BY SaveStep
<1>2. FormFollows(b)
  BY <1>1, NoForm DEF CanSend
<1>3. \A c \in Browsers : \A path : Flushing(c, path) => path \in raced'
  BY <1>1 DEF Flushing
<1>4. KeptFlash'
  <2>1. ASSUME NEW path \in DOMAIN files, path \notin Bad' PROVE Kept(files, config, path)
    <3>1. path \notin Bad /\ \A c \in Browsers : ~ Flushing(c, path)
      BY <1>1, <1>3, <2>1 DEF Bad
    <3>2. QED
      BY <3>1 DEF KeptInv, KeptFiles
  <2>2. QED
    BY <1>1, <2>1 DEF KeptFlash
<1>5. NoNewFile(archive'.files)
  BY <1>1 DEF KeptInv
<1>6. QED
  BY <1>1, <1>2, <1>3, <1>4, <1>5, KeptAlone

LEMMA RebootKept ==
  ASSUME NEW b \in Browsers, ShapeInv, KeptInv, Reboot(b)
  PROVE  KeptInv'
<1>1. /\ files' = archive.files /\ config' = archive.config
      /\ UNCHANGED <<archive, raced, overtaken>>
      /\ \A c \in Browsers : screen'[c] = Blank /\ proc'[c] = Idle
  BY RebootStep
<1>2. \A c \in Browsers : \A path : ~ Flushing(c, path)'
  BY <1>1 DEF Flushing, At, Idle
<1>3. KeptFiles'
  BY <1>1 DEF KeptInv, KeptFlash, KeptFiles, Bad
<1>4. KeptForms'
  BY <1>1, BlankKept, OtherPageKept DEF KeptForms
<1>5. KeptSaves'
  BY <1>2 DEF KeptSaves
<1>6. KeptFlash' /\ NoNewFile(archive'.files)
  BY <1>1, FlashSame
<1>7. NoNewFile(files')
  BY <1>1 DEF KeptInv
<1>8. QED
  BY <1>3, <1>4, <1>5, <1>6, <1>7 DEF KeptInv
-----------------------------------------------------------------------------
(* The steps that write, for what the users have entered *)

LEMMA WriterCanSend ==
  ASSUME NEW b \in Browsers, ShapeInv, KeptInv, Called(b, "write")
  PROVE  CanSend(proc[b]) /\ FormKept(screen[b], files, config, Bad)
<1>1. Click(proc[b]) = "OK" /\ proc[b].pc = "main"
  BY WriteCalled
<1>2. CanSend(proc[b])
  BY <1>1 DEF CanSend, Click, None
<1>3. QED
  BY <1>2 DEF KeptInv, KeptForms

(* A file that is written has the name of a file. *)
LEMMA WrittenName ==
  ASSUME NEW s, s.page \in KnownPages, s.page \in NamedPages => s.name \notin {"", "__new"},
         NEW page \in NamedPages
  PROVE  SFile(s) # <<page, "__new">> /\ SFile(s) # <<page, "">>
<1>1. CASE s.page \in NamedPages
  <2>1. SFile(s) = <<s.page, s.name>>
    BY <1>1 DEF SFile, Path, NamedPages
  <2>2. PICK p, n : p = s.page /\ n = s.name
    OBVIOUS
  <2>3. n # "__new" /\ n # ""
    BY <1>1, <2>2
  <2>4. <<p, n>> # <<page, "__new">> /\ <<p, n>> # <<page, "">>
    BY <2>3
  <2>5. QED
    BY <2>1, <2>2, <2>4
<1>2. CASE s.page \notin NamedPages
  <2>1. \E q : SFile(s) = <<q>>
    BY <1>2 DEF SFile, Path, NamedPages, KnownPages, KeywordPages, TextPages
  <2>2. QED
    BY <2>1, ShortPath
<1>3. QED
  BY <1>1, <1>2

(* What OpenFile and WriteText have in common *)
Writes(b) ==
  /\ Called(b, "write") /\ screen[b].page \in KnownPages /\ ~ NoName(b)
  /\ MadeStale(b) /\ \A c \in Browsers \ {b} : proc'[c] = proc[c]
  /\ DOMAIN files' = DOMAIN files \cup {File(b)}
  /\ \A p \in DOMAIN files \ {File(b)} : files'[p] = files[p]
  /\ DOMAIN config \subseteq DOMAIN config' /\ DOMAIN config' \subseteq DOMAIN config \cup {File(b)}
  /\ \A p \in DOMAIN config \ {File(b)} : config'[p] = config[p]
  /\ UNCHANGED archive /\ raced \subseteq raced' /\ Overtakes(b)
  /\ \A c \in Browsers \ {b} : Flushing(c, File(b)) => File(b) \in raced'

LEMMA WritesBad ==
  ASSUME NEW b \in Browsers, Writes(b)
  PROVE  /\ Bad \subseteq Bad' /\ raced' \subseteq Bad' /\ overtaken \subseteq overtaken'
         /\ screen[b].stale \/ Ambiguous(screen[b]) => File(b) \in Bad'
BY DEF Writes, Overtakes, AmbiguousPeer, Ambiguous, Bad

LEMMA WritesNoNew ==
  ASSUME NEW b \in Browsers, ShapeInv, KeptInv, Writes(b)
  PROVE  NoNewFile(files')
<1>1. PICK s : s = screen[b]
  OBVIOUS
<1>2. FormKept(s, files, config, Bad)
  BY <1>1, WriterCanSend DEF Writes
<1>3. s.page \in KnownPages /\ (s.page \in NamedPages => s.name \notin {"", "__new"})
  BY <1>1, <1>2 DEF Writes, NoName, FormKept
<1>4. \A page \in NamedPages : SFile(s) # <<page, "__new">> /\ SFile(s) # <<page, "">>
  BY <1>3, WrittenName
<1>5. DOMAIN files' = DOMAIN files \cup {SFile(s)}
  BY <1>1, FileIs DEF Writes
<1>6. QED
  BY <1>4, <1>5 DEF KeptInv, NoNewFile

(* The forms of the others *)
LEMMA WritesForms ==
  ASSUME NEW b \in Browsers, ShapeInv, KeptInv, Writes(b),
         NEW c \in Browsers \ {b}, CanSend(proc'[c])
  PROVE  FormKept(screen'[c], files', config', Bad')
<1>1. PICK s, u, path : s = screen[c] /\ u = screen'[c] /\ path = File(b)
  OBVIOUS
<1>2. /\ u.page = s.page /\ u.name = s.name /\ u.fields = s.fields /\ u.edited = s.edited
      /\ s.stale => u.stale
      /\ s.page # "none" /\ SFile(s) = path => u.stale
  BY <1>1, FileIs DEF Writes, MadeStale
<1>3. FormKept(s, files, config, Bad)
  BY <1>1 DEF Writes, KeptInv, KeptForms
<1>4. Bad \subseteq Bad'
  BY WritesBad
<1>5. ASSUME Fresh(u, Bad'), s.page \in KnownPages PROVE SFile(s) # path
  <2>1. ~ u.stale /\ s.page # "none"
    BY <1>5 DEF Fresh, KnownPages, KeywordPages, TextPages
  <2>2. QED
    BY <1>2, <2>1
<1>6. \A p : p # path => Entry(config', p) = Entry(config, p) /\ ReadOf(files', p) = ReadOf(files, p)
  <2>1. TAKE p
  <2>2. HAVE p # path
  <2>3. /\ p \in DOMAIN config' <=> p \in DOMAIN config
        /\ p \in DOMAIN config => config'[p] = config[p]
    BY <1>1, <2>2 DEF Writes
  <2>4. /\ p \in DOMAIN files' <=> p \in DOMAIN files
        /\ p \in DOMAIN files => files'[p] = files[p]
    BY <1>1, <2>2 DEF Writes
  <2>5. QED
    BY <2>3, <2>4 DEF Entry, ReadOf
<1>7. PICK bad, worse, fs, gs, cf, cg : /\ bad = Bad /\ worse = Bad' /\ fs = files /\ gs = files'
                                        /\ cf = config /\ cg = config'
  OBVIOUS
<1>8. /\ Fresh(u, worse) /\ s.page \in KeywordPages \cup {"top"} =>
           Entry(cg, SFile(s)) = Entry(cf, SFile(s))
      /\ Fresh(u, worse) /\ s.page \in TextPages => ReadOf(gs, SFile(s)) = ReadOf(fs, SFile(s))
  BY <1>5, <1>6, <1>7 DEF KnownPages
<1>9. FormKept(s, fs, cf, bad) /\ bad \subseteq worse
  BY <1>3, <1>4, <1>7
<1>10. FormKept(u, gs, cg, worse)
  BY <1>2, <1>8, <1>9, FormKeptSame
<1>11. QED
  BY <1>1, <1>7, <1>10

(* What the others are about to write *)
LEMMA WritesSaves ==
  ASSUME NEW b \in Browsers, ShapeInv, KeptInv, Writes(b),
         NEW d \in Browsers \ {b}, NEW path, Flushing(d, path)'
  PROVE  /\ path \in DOMAIN files'
         /\ screen'[d].stale \/ Ambiguous(screen'[d]) => path \in Bad'
         /\ \A c \in Browsers \ {d} : CanSend(proc'[c]) => Behind(screen'[c], path, raced')
<1>1. Flushing(d, path)
  BY OtherFlushers DEF Writes
<1>2. /\ path \in DOMAIN files
      /\ screen[d].stale \/ Ambiguous(screen[d]) => path \in Bad
      /\ \A c \in Browsers \ {d} : CanSend(proc[c]) => Behind(screen[c], path, raced)
  BY <1>1 DEF KeptInv, KeptSaves
<1>3. Bad \subseteq Bad' /\ raced' \subseteq Bad' /\ raced \subseteq raced'
  BY WritesBad DEF Writes
<1>4. screen'[d].stale \/ Ambiguous(screen'[d]) => path \in Bad'
  <2>1. CASE screen'[d] = screen[d]
    BY <1>2, <1>3, <2>1
  <2>2. CASE screen'[d] # screen[d]
    <3>1. File(d) = File(b)
      BY <2>2 DEF Writes, MadeStale
    <3>2. path = File(b)
      BY <1>1, <3>1 DEF Flushing
    <3>3. QED
      BY <1>1, <1>3, <3>2 DEF Writes
  <2>3. QED
    BY <2>1, <2>2
<1>5. ASSUME NEW c \in Browsers \ {d}, CanSend(proc'[c]) PROVE Behind(screen'[c], path, raced')
  <2>1. CanSend(proc[c])
    <3>1. CASE c = b
      BY <3>1, WriterCanSend DEF Writes
    <3>2. CASE c # b
      BY <1>5, <3>2 DEF Writes
    <3>3. QED
      BY <3>1, <3>2
  <2>2. Behind(screen[c], path, raced)
    BY <1>2, <1>5, <2>1
  <2>3. PICK s, u : s = screen[c] /\ u = screen'[c]
    OBVIOUS
  <2>4. /\ u.page = s.page /\ u.name = s.name /\ u.edited = s.edited /\ (s.stale => u.stale)
    BY <2>3 DEF Writes, MadeStale
  <2>5. SFile(u) = SFile(s) /\ (NewForm(s) => NewForm(u))
    BY <2>4 DEF SFile, NewForm
  <2>6. Behind(u, path, raced')
    BY <1>3, <2>2, <2>3, <2>4, <2>5 DEF Behind
  <2>7. QED
    BY <2>3, <2>6
<1>6. path \in DOMAIN files'
  BY <1>2 DEF Writes
<1>7. QED
  BY <1>4, <1>5, <1>6

(* The other files *)
LEMMA WritesFiles ==
  ASSUME NEW b \in Browsers, ShapeInv, KeptInv, Writes(b),
         NEW path \in DOMAIN files', path # File(b), path \notin Bad',
         \A c \in Browsers : ~ Flushing(c, path)'
  PROVE  Kept(files', config', path)
<1>1. path \in DOMAIN files /\ files'[path] = files[path]
  BY DEF Writes
<1>2. path \notin Bad
  BY WritesBad
<1>3. \A c \in Browsers \ {b} : ~ Flushing(c, path)
  BY OtherFlushers DEF Writes
<1>4. ~ Flushing(b, path)
  BY DEF Flushing
<1>5. Kept(files, config, path)
  BY <1>1, <1>2, <1>3, <1>4 DEF KeptInv, KeptFiles
<1>6. path \in DOMAIN config /\ path \in DOMAIN config' /\ config'[path] = config[path]
  BY <1>5 DEF Kept, Writes
<1>7. QED
  BY <1>1, <1>5, <1>6 DEF Kept

LEMMA OpenKept ==
  ASSUME NEW b \in Browsers, ShapeInv, KeptInv, OpenFile(b)
  PROVE  KeptInv'
<1>1. /\ screen[b].page \in KeywordPages \cup {"top"}
      /\ DOMAIN files' = DOMAIN files \cup {File(b)}
      /\ \A p \in DOMAIN files \ {File(b)} : files'[p] = files[p]
      /\ UNCHANGED <<archive, config>> /\ MadeStale(b)
      /\ \A c \in Browsers \ {b} : proc'[c] = proc[c]
      /\ proc'[b].pc \in {"flush", "menu"}
      /\ screen[b].page # "top" => proc'[b].pc = "flush"
  BY OpenStep
<1>2. Called(b, "write") /\ ~ NoName(b) /\ Overtakes(b)
  BY DEF OpenFile
<1>3. /\ raced \subseteq raced'
      /\ \A c \in Browsers \ {b} : Flushing(c, File(b)) => File(b) \in raced'
  BY DEF OpenFile, RacedIf, BeingWritten, Flushing
<1>4. Writes(b)
  BY <1>1, <1>2, <1>3 DEF Writes, KnownPages
<1>5. proc'[b].pc = "flush"
  <2>1. CASE screen[b].page # "top"
    BY <1>1, <2>1
  <2>2. CASE screen[b].page = "top"
    <3>1. FormOK(screen[b].page, screen[b].fields)
      BY DEF ShapeInv, BrowserInv, IsScreen
    <3>2. "runlevel" \in DOMAIN screen[b].fields
      BY <2>2, <3>1 DEF FormOK, IsForm
    <3>3. Goto(b, "flush")
      BY <3>2 DEF OpenFile
    <3>4. QED
      BY <3>3 DEF Goto, ShapeInv, BrowserInv, IsProc
  <2>3. QED
    BY <2>1, <2>2
<1>6. screen'[b] = screen[b]
  BY <1>1 DEF MadeStale
<1>7. Flushing(b, File(b))' /\ \A path : Flushing(b, path)' => path = File(b)
  BY <1>5, <1>6 DEF Flushing, At, File
<1>8. KeptFiles'
  BY <1>4, <1>7, WritesFiles DEF KeptFiles
<1>9. KeptForms'
  <2>1. FormKept(screen'[b], files', config', Bad')
    <3>1. FormKept(screen[b], files, config, Bad)
      BY <1>2, WriterCanSend
    <3>2. PICK bad, worse, fs, gs : bad = Bad /\ worse = Bad' /\ fs = files /\ gs = files'
      OBVIOUS
    <3>3. FormKept(screen[b], fs, config, bad) /\ bad \subseteq worse
      BY <1>4, <3>1, <3>2, WritesBad
    <3>4. screen[b].page \notin TextPages
      BY <1>1 DEF KeywordPages, TextPages
    <3>5. FormKept(screen[b], gs, config, worse)
      BY <3>3, <3>4, FormKeptSame
    <3>6. QED
      BY <1>1, <1>6, <3>2, <3>5
  <2>2. QED
    BY <1>4, <2>1, WritesForms DEF KeptForms
<1>10. KeptSaves'
  <2>1. ASSUME NEW path, Flushing(b, path)'
        PROVE  /\ path \in DOMAIN files'
               /\ screen'[b].stale \/ Ambiguous(screen'[b]) => path \in Bad'
               /\ \A c \in Browsers \ {b} : CanSend(proc'[c]) => Behind(screen'[c], path, raced')
    <3>1. path = File(b)
      BY <1>7, <2>1
    <3>2. screen'[b].stale \/ Ambiguous(screen'[b]) => path \in Bad'
      BY <1>4, <1>6, <3>1, WritesBad
    <3>3. ASSUME NEW c \in Browsers \ {b} PROVE Behind(screen'[c], path, raced')
      <4>1. PICK s, u : s = screen[c] /\ u = screen'[c]
        OBVIOUS
      <4>2. /\ u.page = s.page /\ u.name = s.name
            /\ s.page # "none" /\ SFile(s) = path => u.stale
        BY <1>1, <3>1, <4>1, FileIs DEF MadeStale
      <4>3. SFile(u) = SFile(s)
        BY <4>2 DEF SFile
      <4>4. QED
        BY <4>1, <4>2, <4>3 DEF Behind, KnownPages, KeywordPages, TextPages
    <3>4. QED
      BY <1>1, <3>1, <3>2, <3>3
  <2>2. QED
    BY <1>4, <2>1, WritesSaves DEF KeptSaves
<1>11. KeptFlash' /\ NoNewFile(archive'.files)
  BY <1>1, <1>3, <1>4, WritesBad, FlashSame
<1>12. NoNewFile(files')
  BY <1>4, WritesNoNew
<1>13. QED
  BY <1>8, <1>9, <1>10, <1>11, <1>12 DEF KeptInv
(* What the form of a page says is what its reader finds. *)
LEMMA FormReadsBack ==
  ASSUME NEW page \in KeywordPages \cup {"top"}, NEW f, FormOK(page, f),
         ~ (page = "cipe" /\ ":" \in ToSet(f["peer"])),
         NEW path, PageOf(path) = page, NEW k \in FieldsOf(page)
  PROVE  FileValues(path, PageContent(page, f))[k] = f[k] \/ k = "ping"
<1>1. CASE page = "top"
  <2>1. k = "runlevel"
    BY <1>1, FieldsAre
  <2>2. PICK v : v = f["runlevel"]
    OBVIOUS
  <2>3. IsValue(v)
    BY <1>1, <2>2 DEF FormOK, IsForm
  <2>4. PageContent(page, f) = v \o <<NL>>
    BY <1>1, <2>2 DEF PageContent
  <2>5. FileValues(path, PageContent(page, f)) = [runlevel |-> FirstToken(PageContent(page, f))]
    BY <1>1, FileValuesOf
  <2>6. FirstToken(v \o <<NL>>) = v
    BY <2>3, RunlevelReadsBack
  <2>7. QED
    BY <2>1, <2>2, <2>4, <2>5, <2>6
<1>2. CASE page \in KeywordPages
  <2>1. IsForm(f, FieldsOf(page))
    BY <1>2 DEF FormOK
  <2>2. PageValues(page, PageContent(page, f))[k] = f[k] \/ k = "ping"
    BY <1>2, <2>1, PageReadsBack
  <2>3. FileValues(path, PageContent(page, f)) = PageValues(page, PageContent(page, f))
    BY <1>2, FileValuesOf
  <2>4. QED
    BY <2>2, <2>3
<1>3. QED
  BY <1>1, <1>2

(* What is written is what was edited, and what was there. *)
LEMMA FlushStores ==
  ASSUME NEW b \in Browsers, ShapeInv, ReadInv, KeptInv, Flush(b), File(b) \notin Bad
  PROVE  Stores(File(b), Entered(b), files'[File(b)])
<1>1. PICK s, f, page, path : /\ s = screen[b] /\ f = s.fields /\ page = s.page
                              /\ path = File(b)
  OBVIOUS
<1>2. At(b, "flush") /\ Flushing(b, path)
  BY <1>1 DEF Flush, Flushing
<1>3. page \in KeywordPages \cup {"top"} /\ FormOK(page, f)
  BY <1>1, <1>2, AtFlush
<1>4. PageOf(path) = page /\ SFile(s) = path
  BY <1>1, <1>3, FilePage, FileIs DEF KnownPages
<1>5. path \notin Bad /\ path \notin raced
  BY <1>1 DEF Bad
<1>6. files'[path] = PageContent(page, f)
  BY <1>1, <1>5, FlushReadable DEF ReadInv
<1>7. ~ s.stale /\ ~ Ambiguous(s)
  BY <1>1, <1>2, <1>5 DEF KeptInv, KeptSaves
<1>8. FormKept(s, files, config, Bad)
  <2>1. CanSend(proc[b])
    BY <1>2 DEF CanSend, At
  <2>2. QED
    BY <1>1, <2>1 DEF KeptInv, KeptForms
<1>9. PICK old : old = IF path \notin DOMAIN config \/ "name" \in s.edited
                       THEN FileValues(path, <<>>) ELSE config[path]
  OBVIOUS
<1>10. Fits(s, old)
  <2>1. CASE NewForm(s)
    <3>1. Fits(s, FileValues(path, <<>>))
      BY <1>1, <1>3, <1>4, <1>8, <2>1 DEF FormKept
    <3>2. old = FileValues(path, <<>>)
      BY <1>9, <2>1 DEF NewForm
    <3>3. QED
      BY <3>1, <3>2
  <2>2. CASE ~ NewForm(s)
    <3>1. Fresh(s, Bad)
      BY <1>4, <1>5, <1>7, <2>2 DEF Fresh
    <3>2. Fits(s, Entry(config, path))
      BY <1>1, <1>3, <1>4, <1>8, <3>1 DEF FormKept
    <3>3. old = Entry(config, path)
      BY <1>9, <2>2 DEF NewForm, Entry
    <3>4. QED
      BY <3>2, <3>3
  <2>3. QED
    BY <2>1, <2>2
<1>11. PICK e : e = Entered(b)
  OBVIOUS
<1>12. e = [k \in DOMAIN old |-> IF k \in s.edited THEN f[k] ELSE old[k]]
  BY <1>1, <1>9, <1>11 DEF Entered
<1>13. DOMAIN e = FieldsOf(page)
  BY <1>1, <1>3, <1>11, EnteredIs DEF KnownPages
<1>14. ASSUME NEW k \in DOMAIN e
       PROVE  FileValues(path, files'[path])[k] = e[k] \/ Fixed(page, k, e[k])
  <2>1. FileValues(path, files'[path])[k] = f[k] \/ k = "ping"
    <3>1. ~ (page = "cipe" /\ ":" \in ToSet(f["peer"]))
      BY <1>1, <1>7 DEF Ambiguous
    <3>2. FileValues(path, PageContent(page, f))[k] = f[k] \/ k = "ping"
      BY <1>3, <1>4, <1>13, <1>14, <3>1, FormReadsBack
    <3>3. QED
      BY <1>6, <3>2
  <2>2. f[k] = e[k] \/ Fixed(page, k, e[k])
    <3>1. k \in DOMAIN old
      BY <1>12, <1>14
    <3>2. CASE k \in s.edited
      BY <1>12, <3>1, <3>2
    <3>3. CASE k \notin s.edited
      <4>1. e[k] = old[k]
        BY <1>12, <3>1, <3>3
      <4>2. f[k] = old[k] \/ Fixed(page, k, old[k])
        BY <1>1, <1>10, <1>13, <1>14, <3>3 DEF Fits
      <4>3. QED
        BY <4>1, <4>2
    <3>4. QED
      BY <3>2, <3>3
  <2>3. QED
    BY <2>1, <2>2 DEF Fixed
<1>15. page \notin TextPages
  BY <1>3 DEF KeywordPages, TextPages
<1>16. Stores(path, e, files'[path])
  BY <1>4, <1>14, <1>15 DEF Stores
<1>17. QED
  BY <1>1, <1>11, <1>16

LEMMA FlushKept ==
  ASSUME NEW b \in Browsers, ShapeInv, ReadInv, KeptInv, Flush(b)
  PROVE  KeptInv'
<1>1. /\ DOMAIN files' = DOMAIN files \cup {File(b)}
      /\ \A p \in DOMAIN files \ {File(b)} : files'[p] = files[p]
      /\ UNCHANGED <<archive, raced, overtaken>>
      /\ OneBrowser(b) /\ proc'[b].pc = "menu"
  BY FlushStep
<1>2. screen[b].page \in KeywordPages \cup {"top"} /\ Flushing(b, File(b)) /\ Record(b)
  BY AtFlush DEF Flush, Flushing
<1>3. /\ DOMAIN config' = DOMAIN config \cup {File(b)} /\ config'[File(b)] = Entered(b)
      /\ \A p \in DOMAIN config \ {File(b)} : config'[p] = config[p]
  BY <1>2, RecordIs DEF KnownPages
<1>4. File(b) \in DOMAIN files /\ DOMAIN files' = DOMAIN files
  BY <1>1, <1>2 DEF KeptInv, KeptSaves
<1>5. \A c \in Browsers \ {b} : \A path : Flushing(c, path)' <=> Flushing(c, path)
  BY <1>1, OtherFlushers
<1>6. (\A path : ~ Flushing(b, path)') /\ ~ CanSend(proc'[b])
  BY <1>1 DEF Flushing, At, CanSend
<1>7. \A c \in Browsers \ {b} : screen'[c] = screen[c] /\ proc'[c] = proc[c]
  BY <1>1 DEF OneBrowser, Alone, Same
<1>8. Bad' = Bad
  BY <1>1 DEF Bad
<1>9. KeptFiles'
  <2>1. ASSUME NEW path \in DOMAIN files', path \notin Bad',
               \A c \in Browsers : ~ Flushing(c, path)'
        PROVE  Kept(files', config', path)
    <3>1. CASE path = File(b)
      <4>1. Stores(path, Entered(b), files'[path])
        BY <1>8, <2>1, <3>1, FlushStores
      <4>2. path \in DOMAIN config' /\ config'[path] = Entered(b)
        BY <1>3, <3>1
      <4>3. QED
        BY <4>1, <4>2 DEF Kept
    <3>2. CASE path # File(b)
      <4>1. \A c \in Browsers : ~ Flushing(c, path)
        BY <1>5, <2>1, <3>2 DEF Flushing
      <4>2. Kept(files, config, path) /\ files'[path] = files[path]
        BY <1>1, <1>4, <1>8, <2>1, <3>2, <4>1 DEF KeptInv, KeptFiles
      <4>3. path \in DOMAIN config' /\ config'[path] = config[path]
        BY <1>3, <3>2, <4>2 DEF Kept
      <4>4. QED
        BY <4>2, <4>3 DEF Kept
    <3>3. QED
      BY <3>1, <3>2
  <2>2. QED
    BY <2>1 DEF KeptFiles
<1>10. KeptForms'
  <2>1. ASSUME NEW c \in Browsers, CanSend(proc'[c])
        PROVE  FormKept(screen'[c], files', config', Bad')
    <3>1. c # b
      BY <1>6, <2>1
    <3>2. PICK s, path : s = screen[c] /\ path = File(b)
      OBVIOUS
    <3>3. screen'[c] = s /\ CanSend(proc[c])
      BY <1>7, <2>1, <3>1, <3>2
    <3>4. FormKept(s, files, config, Bad)
      BY <3>2, <3>3 DEF KeptInv, KeptForms
    <3>5. Behind(s, path, raced)
      BY <1>2, <3>1, <3>2, <3>3 DEF KeptInv, KeptSaves
    <3>6. Fresh(s, Bad) /\ s.page \in KnownPages => SFile(s) # path
      BY <3>5 DEF Behind, Fresh, Bad
    <3>7. SFile(s) # path => /\ Entry(config', SFile(s)) = Entry(config, SFile(s))
                             /\ ReadOf(files', SFile(s)) = ReadOf(files, SFile(s))
      <4>1. PICK p : p = SFile(s)
        OBVIOUS
      <4>2. ASSUME p # path
            PROVE  Entry(config', p) = Entry(config, p) /\ ReadOf(files', p) = ReadOf(files, p)
        <5>1. /\ p \in DOMAIN config' <=> p \in DOMAIN config
              /\ p \in DOMAIN config => config'[p] = config[p]
          BY <1>3, <3>2, <4>2
        <5>2. /\ p \in DOMAIN files' <=> p \in DOMAIN files
              /\ p \in DOMAIN files => files'[p] = files[p]
          BY <1>1, <1>4, <3>2, <4>2
        <5>3. QED
          BY <5>1, <5>2 DEF Entry, ReadOf
      <4>3. QED
        BY <4>1, <4>2
    <3>8. PICK bad, fs, gs, cf, cg : /\ bad = Bad /\ fs = files /\ gs = files'
                                     /\ cf = config /\ cg = config'
      OBVIOUS
    <3>9. /\ Fresh(s, bad) /\ s.page \in KeywordPages \cup {"top"} =>
               Entry(cg, SFile(s)) = Entry(cf, SFile(s))
          /\ Fresh(s, bad) /\ s.page \in TextPages => ReadOf(gs, SFile(s)) = ReadOf(fs, SFile(s))
      BY <3>6, <3>7, <3>8 DEF KnownPages
    <3>10. FormKept(s, fs, cf, bad)
      BY <3>4, <3>8
    <3>11. FormKept(s, gs, cg, bad)
      BY <3>9, <3>10, FormKeptSame
    <3>12. QED
      BY <1>8, <3>3, <3>8, <3>11
  <2>2. QED
    BY <2>1 DEF KeptForms
<1>11. KeptSaves'
  <2>1. ASSUME NEW d \in Browsers, NEW path, Flushing(d, path)'
        PROVE  /\ path \in DOMAIN files'
               /\ screen'[d].stale \/ Ambiguous(screen'[d]) => path \in Bad'
               /\ \A c \in Browsers \ {d} : CanSend(proc'[c]) => Behind(screen'[c], path, raced')
    <3>1. d # b /\ Flushing(d, path)
      BY <1>5, <1>6, <2>1
    <3>2. /\ path \in DOMAIN files
          /\ screen[d].stale \/ Ambiguous(screen[d]) => path \in Bad
          /\ \A c \in Browsers \ {d} : CanSend(proc[c]) => Behind(screen[c], path, raced)
      BY <3>1 DEF KeptInv, KeptSaves
    <3>3. ASSUME NEW c \in Browsers \ {d}, CanSend(proc'[c])
          PROVE  Behind(screen'[c], path, raced')
      <4>1. c # b
        BY <1>6, <3>3
      <4>2. QED
        BY <1>1, <1>7, <3>2, <3>3, <4>1
    <3>4. QED
      BY <1>4, <1>7, <1>8, <3>1, <3>2, <3>3
  <2>2. QED
    BY <2>1 DEF KeptSaves
<1>12. KeptFlash' /\ NoNewFile(archive'.files)
  BY <1>1, FlashSame
<1>13. NoNewFile(files')
  BY <1>4 DEF KeptInv, NoNewFile
<1>14. QED
  BY <1>9, <1>10, <1>11, <1>12, <1>13 DEF KeptInv
LEMMA NothingIsPrefix == ASSUME NEW w, IsSeq(w) PROVE IsPrefix(<<>>, w)
<1>1. IsSeq(<<>>) /\ Len(<<>>) = 0
  BY EmptyIs
<1>2. Len(w) \in Nat
  BY SeqShape
<1>3. Len(<<>>) <= Len(w) /\ \A i \in 1 .. Len(<<>>) : <<>>[i] = w[i]
  BY <1>1, <1>2
<1>4. QED
  BY <1>1, <1>3, PrefixIs

(* No process that empties a file first writes the file of a text page. *)
LEMMA TextNotFlushed ==
  ASSUME NEW b \in Browsers, ShapeInv, screen[b].page \in TextPages
  PROVE  \A c \in Browsers : ~ Flushing(c, File(b))
<1>1. ASSUME NEW c \in Browsers, Flushing(c, File(b)) PROVE FALSE
  <2>1. screen[c].page \in KeywordPages \cup {"top"} /\ File(c) = File(b)
    BY <1>1, AtFlush DEF Flushing
  <2>2. PageOf(File(c)) = screen[c].page /\ PageOf(File(b)) = screen[b].page
    BY <2>1, FilePage DEF KnownPages
  <2>3. QED
    BY <2>1, <2>2 DEF KeywordPages, TextPages
<1>2. QED
  BY <1>1

(* A text begins with what was entered. *)
LEMMA TextStores ==
  ASSUME NEW b \in Browsers, ShapeInv, KeptInv, WriteText(b), Writes(b), File(b) \notin Bad'
  PROVE  Stores(File(b), Entered(b), files'[File(b)])
<1>1. PICK s, page, path, x : /\ s = screen[b] /\ page = s.page
                              /\ path = File(b) /\ x = s.fields["text"]
  OBVIOUS
<1>2. /\ page \in TextPages /\ files'[path] = Overwrite(Read(path), x)
  BY <1>1, WriteTextStep
<1>3. PageOf(path) = page /\ SFile(s) = path
  BY <1>1, <1>2, FilePage, FileIs DEF KnownPages
<1>4. path \notin Bad /\ ~ s.stale
  BY <1>1, WritesBad
<1>5. FormKept(s, files, config, Bad)
  BY <1>1, WriterCanSend DEF Writes
<1>6. PICK r, w : r = Read(path) /\ w = Overwrite(r, x)
  OBVIOUS
<1>7. IsSeq(r)
  BY <1>6, ReadIs
<1>8. IsSeq(x)
  BY <1>1, <1>2 DEF ShapeInv, BrowserInv, IsScreen, FormOK
<1>9. IsSeq(w) /\ IsPrefix(x, w) /\ (IsPrefix(x, r) => w = r)
  BY <1>6, <1>7, <1>8, OverwriteIs
<1>10. PICK old : old = IF path \notin DOMAIN config \/ "name" \in s.edited
                        THEN FileValues(path, <<>>) ELSE config[path]
  OBVIOUS
<1>11. PICK e : e = Entered(b)
  OBVIOUS
<1>12. e = [k \in DOMAIN old |-> IF k \in s.edited THEN s.fields[k] ELSE old[k]]
  BY <1>1, <1>10, <1>11 DEF Entered
<1>13. DOMAIN e = {"text"}
  BY <1>1, <1>2, <1>11, EnteredIs, FieldsAre DEF KnownPages
<1>14. IsPrefix(e["text"], w)
  <2>1. "text" \in DOMAIN old
    BY <1>12, <1>13
  <2>2. CASE "text" \in s.edited
    BY <1>1, <1>9, <1>12, <2>1, <2>2
  <2>3. CASE "text" \notin s.edited /\ (path \notin DOMAIN config \/ "name" \in s.edited)
    <3>1. old = [text |-> <<>>]
      BY <1>2, <1>3, <1>10, <2>3, FileValuesOf
    <3>2. e["text"] = <<>>
      BY <1>12, <2>1, <2>3, <3>1
    <3>3. QED
      BY <1>9, <3>2, NothingIsPrefix
  <2>4. CASE "text" \notin s.edited /\ path \in DOMAIN config /\ "name" \notin s.edited
    <3>1. Fresh(s, Bad)
      BY <1>3, <1>4, <2>4 DEF Fresh, NewForm
    <3>2. IsPrefix(x, r)
      <4>1. IsPrefix(s.fields["text"], ReadOf(files, SFile(s)))
        BY <1>1, <1>2, <1>5, <2>4, <3>1 DEF FormKept
      <4>2. QED
        BY <1>1, <1>3, <1>6, <4>1, ReadOfFiles
    <3>3. path \in DOMAIN files
      BY <2>4 DEF ShapeInv
    <3>4. w = files[path]
      BY <1>6, <1>9, <3>2, <3>3 DEF Read
    <3>5. Kept(files, config, path)
      <4>1. \A c \in Browsers : ~ Flushing(c, path)
        BY <1>1, <1>2, TextNotFlushed
      <4>2. QED
        BY <1>4, <3>3, <4>1 DEF KeptInv, KeptFiles
    <3>6. e["text"] = config[path]["text"] /\ "text" \in DOMAIN config[path]
      BY <1>10, <1>12, <2>1, <2>4
    <3>7. IsPrefix(config[path]["text"], FileValues(path, files[path])["text"])
      BY <1>2, <1>3, <3>5, <3>6 DEF Kept, Stores
    <3>8. FileValues(path, files[path]) = [text |-> files[path]]
      BY <1>2, <1>3, FileValuesOf
    <3>9. QED
      BY <3>4, <3>6, <3>7, <3>8
  <2>5. QED
    BY <2>2, <2>3, <2>4
<1>15. FileValues(path, w) = [text |-> w]
  BY <1>2, <1>3, FileValuesOf
<1>16. Stores(path, e, w)
  BY <1>2, <1>3, <1>13, <1>14, <1>15 DEF Stores
<1>17. QED
  BY <1>1, <1>2, <1>6, <1>11, <1>16

LEMMA WriteTextKept ==
  ASSUME NEW b \in Browsers, ShapeInv, KeptInv, WriteText(b)
  PROVE  KeptInv'
<1>1. /\ screen[b].page \in TextPages
      /\ DOMAIN files' = DOMAIN files \cup {File(b)}
      /\ \A p \in DOMAIN files \ {File(b)} : files'[p] = files[p]
      /\ UNCHANGED <<archive, raced>> /\ proc'[b].pc = "menu"
      /\ \A c \in Browsers \ {b} : proc'[c] = proc[c]
      /\ MadeStale(b)
  BY WriteTextStep
<1>2. Called(b, "write") /\ ~ NoName(b) /\ Overtakes(b) /\ Record(b)
  BY DEF WriteText
<1>3. /\ DOMAIN config' = DOMAIN config \cup {File(b)} /\ config'[File(b)] = Entered(b)
      /\ \A p \in DOMAIN config \ {File(b)} : config'[p] = config[p]
  BY <1>1, <1>2, RecordIs DEF KnownPages
<1>4. \A c \in Browsers : ~ Flushing(c, File(b))
  BY <1>1, TextNotFlushed
<1>5. Writes(b)
  BY <1>1, <1>2, <1>3, <1>4 DEF Writes, KnownPages
<1>6. (\A path : ~ Flushing(b, path)') /\ ~ CanSend(proc'[b])
  BY <1>1 DEF Flushing, At, CanSend
<1>7. KeptFiles'
  <2>1. ASSUME NEW path \in DOMAIN files', path \notin Bad',
               \A c \in Browsers : ~ Flushing(c, path)'
        PROVE  Kept(files', config', path)
    <3>1. CASE path = File(b)
      <4>1. Stores(path, Entered(b), files'[path])
        BY <1>5, <2>1, <3>1, TextStores
      <4>2. path \in DOMAIN config' /\ config'[path] = Entered(b)
        BY <1>3, <3>1
      <4>3. QED
        BY <4>1, <4>2 DEF Kept
    <3>2. CASE path # File(b)
      BY <1>5, <2>1, <3>2, WritesFiles
    <3>3. QED
      BY <3>1, <3>2
  <2>2. QED
    BY <2>1 DEF KeptFiles
<1>8. KeptForms'
  BY <1>5, <1>6, WritesForms DEF KeptForms
<1>9. KeptSaves'
  BY <1>5, <1>6, WritesSaves DEF KeptSaves
<1>10. KeptFlash' /\ NoNewFile(archive'.files)
  BY <1>1, <1>5, WritesBad, FlashSame
<1>11. NoNewFile(files')
  BY <1>5, WritesNoNew
<1>12. QED
  BY <1>7, <1>8, <1>9, <1>10, <1>11 DEF KeptInv

LEMMA SelfStores ==
  ASSUME NEW path, NEW t, IsSeq(t)
  PROVE  Stores(path, FileValues(path, t), t)
<1>1. CASE PageOf(path) \in TextPages
  <2>1. FileValues(path, t) = [text |-> t]
    BY <1>1, FileValuesOf
  <2>2. IsPrefix(t, t)
    BY SeqShape, PrefixIs
  <2>3. QED
    BY <1>1, <2>1, <2>2 DEF Stores
<1>2. CASE PageOf(path) \notin TextPages
  BY <1>2 DEF Stores
<1>3. QED
  BY <1>1, <1>2

LEMMA KeptInit == Init => KeptInv
<1>1. HAVE Init
<1>2. /\ files = Shipped /\ archive.files = files /\ archive.config = config
      /\ config = [p \in DOMAIN Shipped |-> FileValues(p, Shipped[p])]
      /\ screen = [b \in Browsers |-> TopMenu] /\ proc = [b \in Browsers |-> Idle]
  BY <1>1 DEF Init
<1>3. \A path \in DOMAIN files : Kept(files, config, path)
  <2>1. TAKE path \in DOMAIN files
  <2>2. IsSeq(Shipped[path])
    BY <1>2, ShippedAssumption, SeqIs
  <2>3. QED
    BY <1>2, <2>2, SelfStores DEF Kept
<1>4. KeptFiles /\ KeptFlash
  BY <1>2, <1>3 DEF KeptFiles, KeptFlash
<1>5. NoNewFile(files)
  <2>1. ASSUME NEW page \in NamedPages, NEW name \in {"", "__new"},
               <<page, name>> \in DOMAIN Shipped
        PROVE  FALSE
    <3>1. PICK path : path = <<page, name>>
      OBVIOUS
    <3>2. page \in KnownPages
      BY DEF KnownPages, NamedPages, KeywordPages, TextPages
    <3>3. Path(page, name) = path
      BY <3>1 DEF Path, NamedPages
    <3>4. PageOf(path) = page
      BY <3>2, <3>3, PageOfPath
    <3>5. path[2] \notin {"", "__new"}
      BY <2>1, <3>1, <3>4, ShippedAssumption
    <3>6. QED
      BY <3>1, <3>5
  <2>2. QED
    BY <1>2, <2>1 DEF NoNewFile
<1>6. \A b \in Browsers : \A path : ~ Flushing(b, path)
  BY <1>2 DEF Flushing, At, Idle
<1>7. KeptForms
  <2>1. ShapeInv
    BY <1>1, ShapeInit
  <2>2. FormKept(TopMenu, files, config, Bad)
    BY <1>4, <1>6, <2>1, TopMenuKept
  <2>3. QED
    BY <1>2, <2>2 DEF KeptForms
<1>8. KeptSaves
  BY <1>6 DEF KeptSaves
<1>9. QED
  BY <1>2, <1>4, <1>5, <1>7, <1>8 DEF KeptInv

LEMMA KeptNext == ShapeInv /\ ReadInv /\ KeptInv /\ [Next]_vars => KeptInv'
<1>1. HAVE ShapeInv /\ ReadInv /\ KeptInv /\ [Next]_vars
<1>2. CASE UNCHANGED vars
  <2>1. UNCHANGED <<files, archive, screen, proc, raced, overtaken, config>>
    BY <1>2 DEF vars, history
  <2>2. \A b \in Browsers : \A path : Flushing(b, path)' <=> Flushing(b, path)
    BY <2>1 DEF Flushing, At, File
  <2>3. Bad' = Bad
    BY <2>1 DEF Bad
  <2>4. KeptFiles' /\ KeptFlash' /\ NoNewFile(files') /\ NoNewFile(archive'.files)
    BY <1>1, <2>1, <2>2, <2>3 DEF KeptInv, KeptFiles, KeptFlash
  <2>5. KeptForms'
    BY <1>1, <2>1, <2>3 DEF KeptInv, KeptForms
  <2>6. KeptSaves'
    BY <1>1, <2>1, <2>2, <2>3 DEF KeptInv, KeptSaves
  <2>7. QED
    BY <2>4, <2>5, <2>6 DEF KeptInv
<1>3. ASSUME NEW b \in Browsers, User(b) PROVE KeptInv'
  BY <1>1, <1>3, UserKept
<1>4. ASSUME NEW b \in Browsers, Answers(b) PROVE KeptInv'
  BY <1>1, <1>4, AnswersKept
<1>5. ASSUME NEW b \in Browsers, OpenFile(b) PROVE KeptInv'
  BY <1>1, <1>5, OpenKept
<1>6. ASSUME NEW b \in Browsers, Flush(b) PROVE KeptInv'
  BY <1>1, <1>6, FlushKept
<1>7. ASSUME NEW b \in Browsers, FlushFails(b) PROVE KeptInv'
  BY <1>1, <1>7, FaultKept
<1>8. ASSUME NEW b \in Browsers, WriteText(b) PROVE KeptInv'
  BY <1>1, <1>8, WriteTextKept
<1>9. ASSUME NEW b \in Browsers, SaveConfig(b) PROVE KeptInv'
  BY <1>1, <1>9, SaveKept
<1>10. ASSUME NEW b \in Browsers, Reboot(b) PROVE KeptInv'
  BY <1>1, <1>10, RebootKept
<1>11. QED
  BY <1>1, <1>2, <1>3, <1>4, <1>5, <1>6, <1>7, <1>8, <1>9, <1>10 DEF Next, Cgi, Answers
-----------------------------------------------------------------------------
(* The theorems *)

CgiInv == ShapeInv /\ BootInv /\ ReadInv /\ KeptInv

LEMMA CgiInvHolds == Spec => []CgiInv
<1>1. Init => CgiInv
  BY ShapeInit, BootInit, ReadInit, KeptInit DEF CgiInv
<1>2. CgiInv /\ [Next]_vars => CgiInv'
  BY ShapeNext, BootNext, ReadNext, KeptNext DEF CgiInv
<1>3. QED
  BY <1>1, <1>2, PTL DEF Spec

(* Files are sequences of tokens, what was entered is about files that exist, and  *)
(* every browser is on a page that it can reach, with a process in a state of main *)
(* (cgi/setup.c) that only a page with a file of its own brings to its write.      *)
THEOREM TypesHold == Spec => []TypeOK
<1>1. ShapeInv => TypeOK
  BY DEF ShapeInv, BrowserInv, IsStore, IsSeq, IsScreen, IsProc, TypeOK, At
<1>2. QED
  BY <1>1, CgiInvHolds, PTL DEF CgiInv

(* For all pages, names, words, texts and numbers of browsers: the access point comes *)
(* up with a run level after every SAVE (save_config, then /etc/rc), unless the file  *)
(* was saved, or stored in flash, while another request had emptied it.               *)
THEOREM BootsHolds == Spec => []BootsUnlessRaced
<1>1. BootInv => BootsUnlessRaced
  BY DEF BootInv, BootsUnlessRaced, RunlevelPath
<1>2. QED
  BY <1>1, CgiInvHolds, PTL DEF CgiInv

(* A menu only meets a line that its reader (read_cfg) does not survive in a file that *)
(* two requests wrote at the same time, or that no page has written yet, whatever that *)
(* file holds: what a page writes, its menu can read.                                  *)
THEOREM ReadableHolds == Spec => []ReadableAsWritten
<1>1. ReadInv => ReadableAsWritten
  BY DEF ReadInv, Reads, ReadableAsWritten
<1>2. QED
  BY <1>1, CgiInvHolds, PTL DEF CgiInv

(* Pressing OK stores what the user changed and nothing else, for every page, word,    *)
(* text and number of browsers: the reader finds in each file that nobody disturbed    *)
(* what was last entered for it, or what was there.                                    *)
THEOREM EditsHold == Spec => []EditsKept
<1>1. ShapeInv /\ KeptInv => EditsKept
  <2>1. HAVE ShapeInv /\ KeptInv
  <2>2. ASSUME NEW path \in DOMAIN files, Undisturbed(path)
        PROVE  path \in DOMAIN config /\ Stores(path, config[path], files[path])
    <3>1. path \notin Bad /\ \A b \in Browsers : ~ Flushing(b, path)
      BY <2>2 DEF Undisturbed, Bad, Flushing
    <3>2. QED
      BY <2>1, <2>2, <3>1 DEF KeptInv, KeptFiles, Kept
  <2>3. QED
    BY <2>2 DEF EditsKept, Stores
<1>2. QED
  BY <1>1, CgiInvHolds, PTL DEF CgiInv
=============================================================================
