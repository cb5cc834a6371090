---------------------------- MODULE MessageProofs ----------------------------
(***************************************************************************)
(* What the two sides of each wire make of each other's bytes, proved for   *)
(* every message: the commands, credentials and statuses between the        *)
(* firmware and the app (Wire), the texts that have to fit an attribute     *)
(* (Attributes), and the frames on the K-line (Kline).                      *)
(***************************************************************************)
EXTENDS WireSweep, Attributes, Kline, WellFoundedInduction, NaturalsInduction, TLAPS

(* Sums and sequences.                                                      *)

\* Every non-empty set of naturals has a least member: what stands for
\* induction below, as a set of counterexamples that has no least member is
\* empty.
LEMMA LeastNat ==
    ASSUME NEW T \in SUBSET Nat, T # {}
    PROVE  \E x \in T : \A y \in T : x <= y
<1>1. IsWellFoundedOn(OpToRel(<,Nat), Nat)
  BY NatLessThanWellFounded
<1>2. PICK x \in T : \A y \in T : ~ (<<y, x>> \in OpToRel(<,Nat))
  BY <1>1, WFMin, Zenon
<1>3. ASSUME NEW y \in T PROVE x <= y
  <2>1. ~(<<y, x>> \in OpToRel(<,Nat))
    BY <1>2
  <2>2. ~(y < x)
    BY <2>1, Zenon DEF OpToRel
  <2> QED BY <2>2
<1> QED BY <1>3

\* Min of a set of naturals is its least member.
LEMMA MinIsLeast ==
    ASSUME NEW T \in SUBSET Nat, T # {}
    PROVE  Min(T) \in T /\ \A y \in T : Min(T) <= y
  BY LeastNat, Zenon DEF Min

\* Max of a bounded set of naturals is its greatest member.
LEMMA MaxIsGreatest ==
    ASSUME NEW n \in Nat, NEW T \in SUBSET (0..n), T # {}
    PROVE  Max(T) \in T /\ \A y \in T : Max(T) >= y
<1> DEFINE U == {u \in 0..n : n - u \in T}
<1>1. U \in SUBSET Nat /\ U # {}
  <2>1. PICK x \in T : TRUE
    OBVIOUS
  <2>2. x \in 0..n /\ n - (n - x) = x
    OBVIOUS
  <2>3. n - x \in U
    BY <2>2
  <2>4. U \in SUBSET Nat
    OBVIOUS
  <2> HIDE DEF U
  <2> QED BY <2>3, <2>4
<1>2. PICK u \in U : \A v \in U : u <= v
  BY <1>1, LeastNat
<1>3. n - u \in T
  OBVIOUS
<1>4. ASSUME NEW y \in T PROVE n - u >= y
  <2>1. y \in 0..n /\ n - (n - y) = y
    OBVIOUS
  <2>2. n - y \in U
    BY <2>1
  <2>3. u <= n - y
    BY <2>2, <1>2
  <2> QED BY <2>1, <2>3
<1>5. \E x \in T : \A y \in T : x >= y
  BY <1>3, <1>4
<1> QED BY <1>5, Zenon DEF Max

\* f[k] is the sum of the first k elements of w.
IsSum(f, n, w) == f \in [0..n -> Nat] /\ f[0] = 0 /\ \A k \in 1..n : f[k] = f[k - 1] + w[k]

\* The sums of the beginnings of a sequence of naturals exist.
LEMMA SumExists ==
    ASSUME NEW w \in Seq(Nat)
    PROVE  \A n \in 0..Len(w) : \E f : IsSum(f, n, w)
<1> DEFINE Bad == {n \in 0..Len(w) : ~ \E f : IsSum(f, n, w)}
<1> SUFFICES ASSUME Bad # {} PROVE FALSE
  OBVIOUS
<1>0. Bad \in SUBSET Nat
  OBVIOUS
<1>1. PICK n \in Bad : \A m \in Bad : n <= m
  <2> HIDE DEF Bad
  <2> QED BY <1>0, LeastNat
<1>2. n \in 0..Len(w) /\ ~ \E f : IsSum(f, n, w)
  OBVIOUS
<1>3. CASE n = 0
  <2> DEFINE f == [k \in 0..0 |-> 0]
  <2>1. IsSum(f, 0, w)
    BY DEF IsSum
  <2> QED BY <2>1, <1>2, <1>3
<1>4. CASE n # 0
  <2>1. n - 1 \in 0..Len(w) /\ n - 1 \notin Bad
    BY <1>1, <1>2, <1>4, SMTT(30)
  <2>2. PICK g : IsSum(g, n - 1, w)
    BY <2>1
  <2> DEFINE f == [k \in 0..n |-> IF k = n THEN g[n - 1] + w[n] ELSE g[k]]
  <2>3. w[n] \in Nat
    BY <1>2, <1>4
  <2>4. g \in [0..(n - 1) -> Nat] /\ g[0] = 0 /\ \A k \in 1..(n - 1) : g[k] = g[k - 1] + w[k]
    BY <2>2 DEF IsSum
  <2>5. f \in [0..n -> Nat]
    BY <2>3, <2>4, <1>2, <1>4
  <2>6. f[0] = 0
    BY <2>4, <1>2, <1>4
  <2>7. \A k \in 1..n : f[k] = f[k - 1] + w[k]
    BY <2>4, <1>2, <1>4
  <2>8. IsSum(f, n, w)
    BY <2>5, <2>6, <2>7 DEF IsSum
  <2> QED BY <2>8, <1>2
<1> QED BY <1>3, <1>4

\* Total is the last of these sums.
LEMMA TotalIsSum ==
    ASSUME NEW w \in Seq(Nat)
    PROVE  \E f : IsSum(f, Len(w), w) /\ Total(w) = f[Len(w)]
<1> DEFINE n == Len(w)
           F(f) == [k \in 0..n |-> IF k = 0 THEN 0 ELSE f[k - 1] + w[k]]
           u == CHOOSE f : f = F(f)
<1>1. Total(w) = u[n]
  BY DEF Total
<1>2. n \in Nat
  OBVIOUS
<1>3. PICK g : IsSum(g, n, w)
  BY <1>2, SumExists
<1> HIDE DEF n
<1>4. g = F(g)
  <2>1. g \in [0..n -> Nat] /\ g[0] = 0 /\ \A k \in 1..n : g[k] = g[k - 1] + w[k]
    BY <1>3 DEF IsSum
  <2>2. \A k \in 0..n : g[k] = F(g)[k]
    BY <2>1, <1>2
  <2> QED BY <2>1, <2>2
<1>5. u = F(u)
  BY <1>4, Zenon
<1> HIDE DEF u
<1>6. \A k \in 0..n : u[k] = IF k = 0 THEN 0 ELSE u[k - 1] + w[k]
  BY <1>5
<1> DEFINE Bad == {k \in 0..n : u[k] # g[k]}
<1>7. Bad = {}
  <2> SUFFICES ASSUME Bad # {} PROVE FALSE
    OBVIOUS
  <2>0. Bad \in SUBSET Nat
    BY <1>2
  <2>1. PICK k \in Bad : \A m \in Bad : k <= m
    <3> HIDE DEF Bad
    <3> QED BY <2>0, LeastNat
  <2>2. k \in 0..n /\ u[k] # g[k]
    OBVIOUS
  <2>3. k # 0
    BY <1>3, <1>6, <2>2 DEF IsSum
  <2>4. k - 1 \in 0..n /\ k - 1 \notin Bad
    BY <1>2, <2>1, <2>2, <2>3
  <2>5. u[k - 1] = g[k - 1]
    BY <2>4
  <2>6. g[k] = g[k - 1] + w[k]
    BY <1>2, <1>3, <2>2, <2>3 DEF IsSum
  <2> QED BY <1>6, <2>2, <2>3, <2>5, <2>6
<1>8. u[n] = g[n]
  BY <1>2, <1>7
<1> QED BY <1>1, <1>3, <1>8 DEF n

\* The sum of a sequence is a natural; the ones of no and of one element.
LEMMA TotalOfFew ==
    ASSUME NEW w \in Seq(Nat)
    PROVE  /\ Total(w) \in Nat
           /\ Len(w) = 0 => Total(w) = 0
           /\ Len(w) = 1 => Total(w) = w[1]
<1> DEFINE n == Len(w)
<1>1. n \in Nat /\ (n = 1 => w[1] \in Nat)
  OBVIOUS
<1>2. PICK f : IsSum(f, n, w) /\ Total(w) = f[n]
  BY TotalIsSum
<1> HIDE DEF n
<1>3. f \in [0..n -> Nat] /\ f[0] = 0 /\ \A k \in 1..n : f[k] = f[k - 1] + w[k]
  BY <1>2 DEF IsSum
<1>4. Total(w) \in Nat
  BY <1>1, <1>2, <1>3
<1>5. n = 1 => Total(w) = w[1]
  <2> SUFFICES ASSUME n = 1 PROVE Total(w) = w[1]
    OBVIOUS
  <2>1. f[1] = f[0] + w[1]
    BY <1>3
  <2> QED BY <2>1, <1>1, <1>2, <1>3
<1> QED BY <1>2, <1>3, <1>4, <1>5 DEF n

\* Elements of at most 6 add up to at most six times the length.
LEMMA TotalAtMost ==
    ASSUME NEW w \in Seq(Nat), \A k \in 1..Len(w) : w[k] <= 6
    PROVE  Total(w) <= 6 * Len(w)
<1> DEFINE n == Len(w)
<1>1. n \in Nat /\ \A k \in 1..n : w[k] \in Nat /\ w[k] <= 6
  OBVIOUS
<1>2. PICK f : IsSum(f, n, w) /\ Total(w) = f[n]
  BY TotalIsSum
<1> HIDE DEF n
<1>3. f \in [0..n -> Nat] /\ f[0] = 0 /\ \A k \in 1..n : f[k] = f[k - 1] + w[k]
  BY <1>2 DEF IsSum
<1> DEFINE Bad == {k \in 0..n : ~(f[k] <= 6 * k)}
<1>4. Bad \in SUBSET Nat
  BY <1>1
<1>5. Bad = {}
  <2> SUFFICES ASSUME Bad # {} PROVE FALSE
    OBVIOUS
  <2>1. PICK k \in Bad : \A m \in Bad : k <= m
    <3> HIDE DEF Bad
    <3> QED BY <1>4, LeastNat
  <2>2. k \in 0..n /\ ~(f[k] <= 6 * k)
    OBVIOUS
  <2>3. k # 0
    BY <1>3, <2>2
  <2>4. k - 1 \in 0..n /\ k - 1 \notin Bad
    BY <1>1, <2>1, <2>2, <2>3
  <2>5. f[k - 1] <= 6 * (k - 1)
    BY <2>4
  <2>6. f[k] = f[k - 1] + w[k] /\ w[k] \in Nat /\ w[k] <= 6 /\ f[k - 1] \in Nat
    BY <1>1, <1>3, <2>2, <2>3
  <2> QED BY <2>2, <2>5, <2>6
<1>6. f[n] <= 6 * n
  BY <1>1, <1>5
<1> QED BY <1>2, <1>6 DEF n

\* A length, kept from the solver until it is needed.
HasLen(s, n) == Len(s) = n

\* The sum of four numbers.
LEMMA TotalOfFour ==
    ASSUME NEW w \in Seq(Nat), HasLen(w, 4)
    PROVE  Total(w) = w[1] + w[2] + w[3] + w[4]
<1> DEFINE n == Len(w)
<1>1. PICK f : IsSum(f, n, w) /\ Total(w) = f[n]
  BY TotalIsSum
<1>2. \A k \in 1..n : w[k] \in Nat
  OBVIOUS
<1>3. n = 4
  BY DEF HasLen
<1> HIDE DEF n
<1>4. f[0] = 0 /\ \A k \in 1..n : f[k] = f[k - 1] + w[k]
  BY <1>1 DEF IsSum
<1>5. w[1] \in Nat /\ w[2] \in Nat /\ w[3] \in Nat /\ w[4] \in Nat
  BY <1>2, <1>3
<1>6. f[1] = f[0] + w[1] /\ f[2] = f[1] + w[2] /\ f[3] = f[2] + w[3] /\ f[4] = f[3] + w[4]
  BY <1>3, <1>4
<1> QED BY <1>1, <1>3, <1>4, <1>5, <1>6

\* The sum of five numbers.
LEMMA TotalOfFive ==
    ASSUME NEW w \in Seq(Nat), HasLen(w, 5)
    PROVE  Total(w) = w[1] + w[2] + w[3] + w[4] + w[5]
<1> DEFINE n == Len(w)
<1>1. PICK f : IsSum(f, n, w) /\ Total(w) = f[n]
  BY TotalIsSum
<1>2. \A k \in 1..n : w[k] \in Nat
  OBVIOUS
<1>3. n = 5
  BY DEF HasLen
<1> HIDE DEF n
<1>4. f[0] = 0 /\ \A k \in 1..n : f[k] = f[k - 1] + w[k]
  BY <1>1 DEF IsSum
<1>5. w[1] \in Nat /\ w[2] \in Nat /\ w[3] \in Nat /\ w[4] \in Nat /\ w[5] \in Nat
  BY <1>2, <1>3
<1>6. /\ f[1] = f[0] + w[1] /\ f[2] = f[1] + w[2] /\ f[3] = f[2] + w[3]
      /\ f[4] = f[3] + w[4] /\ f[5] = f[4] + w[5]
  BY <1>3, <1>4
<1> QED BY <1>1, <1>3, <1>4, <1>5, <1>6

\* A sequence that agrees with the beginning of another one is a prefix of it.
LEMMA PrefixByElements ==
    ASSUME NEW S, NEW s \in Seq(S), NEW t \in Seq(S), Len(s) <= Len(t),
           \A i \in 1..Len(s) : s[i] = t[i]
    PROVE  IsPrefix(s, t)
<1>1. SubSeq(s, 1, Len(s)) = SubSeq(t, 1, Len(s))
  OBVIOUS
<1> QED BY <1>1 DEF IsPrefix

\* What a concatenation holds.
LEMMA Joined ==
    ASSUME NEW S, NEW s \in Seq(S), NEW t \in Seq(S)
    PROVE  /\ s \o t \in Seq(S) /\ Len(s \o t) = Len(s) + Len(t)
           /\ \A i \in 1..Len(s) : (s \o t)[i] = s[i]
           /\ \A i \in 1..Len(t) : (s \o t)[Len(s) + i] = t[i]
  BY SMT

\* A sequence over a set is one over a larger set.
LEMMA WiderSeq ==
    ASSUME NEW A, NEW B, A \subseteq B, NEW x \in Seq(A)
    PROVE  x \in Seq(B)
  BY SMT

\* The elements of a sequence over a set are members of it.
LEMMA ElementsIn ==
    ASSUME NEW S, NEW w \in Seq(S)
    PROVE  \A i \in 1..Len(w) : w[i] \in S
  OBVIOUS

\* An element of a sequence over a set is a member of it.
LEMMA ElementOf ==
    ASSUME NEW S, NEW x \in Seq(S), NEW i \in DOMAIN x
    PROVE  x[i] \in S
  OBVIOUS

\* Bytes are the naturals up to 255.
LEMMA ByteIsNat == Byte \subseteq Nat /\ \A n \in Nat : n <= 255 => n \in Byte
  BY SMT DEF Byte

-----------------------------------------------------------------------------
(* The events and the notes.                                                *)

\* IsText, index by index.
LEMMA TextAt ==
    ASSUME NEW s \in Seq(Kinds)
    PROVE  IsText(s) <=> /\ \A k \in 1..Len(s) : (s[k] = "c") <=> (k > 1 /\ s[k - 1] = "L")
                         /\ Len(s) > 0 => s[Len(s)] # "L"
<1>1. DOMAIN s = 1..Len(s) /\ (s # <<>> <=> Len(s) > 0)
  OBVIOUS
<1> QED BY <1>1, Zenon DEF IsText

\* truncate_utf8 returns a text again, a prefix of its argument that fits, and
\* when it cuts it cuts at most one byte more than it must.
LEMMA TruncatedText ==
    ASSUME NEW s \in Seq(Kinds), IsText(s), NEW max \in Nat, NEW t, t = truncate_utf8(s, max)
    PROVE  /\ t \in Seq(Kinds) /\ IsText(t) /\ Len(t) <= max
           /\ IsPrefix(t, s) /\ (t # s => Len(t) + 2 > max)
<1> DEFINE n == Len(s)
<1>1. n \in Nat
  OBVIOUS
<1>2. CASE n <= max
  <2>1. t = s
    BY <1>2 DEF truncate_utf8
  <2> QED BY <1>1, <1>2, <2>1, PrefixByElements
<1>3. CASE ~(n <= max)
  <2> DEFINE K == {k \in 0..max : is_char_boundary(s, k)}
             m == Max(K)
  <2>1. t = SubSeq(s, 1, m)
    BY <1>3 DEF truncate_utf8
  <2>2. K \in SUBSET (0..max) /\ 0 \in K
    BY DEF is_char_boundary
  <2>3. m \in K /\ \A y \in K : m >= y
    <3> HIDE DEF K
    <3> QED BY <2>2, MaxIsGreatest
  <2>4. m \in 0..max /\ is_char_boundary(s, m)
    BY <2>3
  <2> HIDE DEF m
  <2>5. m \in Nat /\ m < n
    BY <1>1, <1>3, <2>4
  <2>6. t \in Seq(Kinds) /\ Len(t) = m /\ \A i \in 1..m : t[i] = s[i]
    BY <2>1, <2>5
  <2>7. /\ \A k \in 1..n : (s[k] = "c") <=> (k > 1 /\ s[k - 1] = "L")
        /\ n > 0 => s[n] # "L"
    BY TextAt
  <2> HIDE DEF n
  <2>8. IsText(t)
    <3>1. ASSUME NEW k \in 1..m PROVE (t[k] = "c") <=> (k > 1 /\ t[k - 1] = "L")
      <4>1. (s[k] = "c") <=> (k > 1 /\ s[k - 1] = "L")
        BY <1>1, <2>5, <2>7
      <4>2. t[k] = s[k] /\ (k > 1 => t[k - 1] = s[k - 1])
        BY <2>5, <2>6
      <4> QED BY <4>1, <4>2
    <3>2. m > 0 => t[m] # "L"
      <4> SUFFICES ASSUME m > 0, s[m] = "L" PROVE FALSE
        BY <2>5, <2>6
      <4>1. m + 1 \in 1..n /\ (m + 1) - 1 = m /\ m + 1 > 1
        BY <1>1, <2>5
      <4>2. s[m + 1] = "c"
        BY <4>1, <2>7
      <4>3. m # 0 /\ m # n
        BY <2>5, <1>1
      <4> QED BY <4>2, <4>3, <2>4 DEF is_char_boundary, n
    <3> QED BY <2>6, <3>1, <3>2, TextAt
  <2>9. m + 2 > max
    <3> SUFFICES ASSUME ~(m + 2 > max) PROVE FALSE
      OBVIOUS
    <3>1. max \notin K /\ max - 1 \notin K /\ max > 1 /\ max - 1 \in 0..max
      BY <2>3, <2>5
    <3>2. ~is_char_boundary(s, max) /\ ~is_char_boundary(s, max - 1)
      BY <3>1
    <3>3. max < n /\ max - 1 < n /\ (max - 1) + 1 = max
      BY <1>1, <1>3
    <3>4. s[max + 1] = "c" /\ s[max] = "c"
      BY <3>2, <3>3 DEF is_char_boundary, n
    <3>5. s[max] = "L"
      <4>1. max + 1 \in 1..n /\ (max + 1) - 1 = max
        BY <1>1, <3>3
      <4> QED BY <4>1, <3>4, <2>7
    <3> QED BY <3>4, <3>5
  <2>10. IsPrefix(t, s)
    BY <2>5, <2>6, PrefixByElements DEF n
  <2> QED BY <2>4, <2>6, <2>8, <2>9, <2>10
<1> QED BY <1>2, <1>3

\* Max of two numbers, as the lengths use it.
LEMMA MaxOfTwo ==
    ASSUME NEW a \in Int, NEW b \in Int
    PROVE  Max({a, b}) = IF a >= b THEN a ELSE b
<1> DEFINE m == IF a >= b THEN a ELSE b
<1>1. m \in {a, b} /\ \A y \in {a, b} : m >= y
  OBVIOUS
<1>2. \A x \in {a, b} : (\A y \in {a, b} : x >= y) => x = m
  OBVIOUS
<1> HIDE DEF m
<1>3. Max({a, b}) = m
  BY <1>1, <1>2, Zenon DEF Max
<1> QED BY <1>3 DEF m

\* No byte of a text takes more than six bytes of JSON.
LEMMA JsonStrLength ==
    ASSUME NEW s \in Seq(Kinds)
    PROVE  json_str(s) \in Nat /\ json_str(s) <= 2 + 6 * Len(s)
<1> DEFINE w == [k \in DOMAIN s |-> Width(s[k])]
           n == Len(s)
<1>1. DOMAIN s = 1..n /\ n \in Nat
  OBVIOUS
<1>2. \A b \in Kinds : Width(b) \in Nat /\ Width(b) <= 6
  BY DEF Kinds, Width
<1>3. \A k \in 1..n : s[k] \in Kinds
  OBVIOUS
<1>4. \A k \in 1..n : Width(s[k]) \in Nat /\ Width(s[k]) <= 6
  BY <1>2, <1>3
<1>5. w = [k \in 1..n |-> Width(s[k])]
  BY <1>1
<1> HIDE DEF n
<1>6. w \in Seq(Nat) /\ Len(w) = n /\ \A k \in 1..n : w[k] <= 6
  BY <1>1, <1>4, <1>5
<1>7. json_str(s) = 2 + Total(w)
  BY DEF json_str
<1> HIDE DEF w
<1>8. Total(w) \in Nat /\ Total(w) <= 6 * n
  BY <1>6, TotalOfFew, TotalAtMost
<1> QED BY <1>1, <1>7, <1>8 DEF n

\* The lengths of the lists of no and of one event.
LEMMA ListLength ==
    ASSUME NEW list \in Seq(Seq(Kinds))
    PROVE  /\ ListLen(list) \in Nat
           /\ Len(list) = 0 => ListLen(list) = 2
           /\ Len(list) = 1 => ListLen(list) = 2 + EVENT_FRAME + json_str(list[1])
<1> DEFINE w == [k \in DOMAIN list |-> EVENT_FRAME + json_str(list[k])]
           n == Len(list)
           c == Max({0, n - 1})
<1>1. DOMAIN list = 1..n /\ n \in Nat /\ \A k \in 1..n : list[k] \in Seq(Kinds)
  OBVIOUS
<1>2. EVENT_FRAME \in Nat
  BY AttributesAssumption
<1>3. \A k \in 1..n : json_str(list[k]) \in Nat
  BY <1>1, JsonStrLength
<1>4. w = [k \in 1..n |-> EVENT_FRAME + json_str(list[k])]
  BY <1>1
<1>5. ListLen(list) = 2 + c + Total(w)
  BY DEF ListLen
<1> HIDE DEF n
<1>6. w \in Seq(Nat) /\ Len(w) = n /\ (n = 1 => w[1] = EVENT_FRAME + json_str(list[1]))
  <2>1. \A k \in 1..n : EVENT_FRAME + json_str(list[k]) \in Nat
    BY <1>2, <1>3
  <2>2. w \in Seq(Nat) /\ Len(w) = n
    BY <1>1, <1>4, <2>1
  <2>3. n = 1 => w[1] = EVENT_FRAME + json_str(list[1])
    BY <1>4
  <2> QED BY <2>2, <2>3
<1>7. c \in Nat /\ (n = 0 => c = 0) /\ (n = 1 => c = 0)
  BY <1>1, MaxOfTwo
<1> HIDE DEF w, c
<1>8. Total(w) \in Nat /\ (n = 0 => Total(w) = 0)
      /\ (n = 1 => Total(w) = EVENT_FRAME + json_str(list[1]))
  BY <1>6, TotalOfFew
<1>9. n = 1 => json_str(list[1]) \in Nat
  BY <1>3
<1> QED BY <1>2, <1>5, <1>7, <1>8, <1>9 DEF n

\* What is left after the first elements is a suffix.
LEMMA SuffixByElements ==
    ASSUME NEW S, NEW r \in Seq(S), NEW k \in 0..Len(r)
    PROVE  IsSuffix(SubSeq(r, k + 1, Len(r)), r)
<1> DEFINE n == Len(r)
           x == SubSeq(r, k + 1, n)
           a == Reverse(x)
           b == Reverse(r)
<1>1. x \in Seq(S) /\ Len(x) = n - k /\ \A i \in 1..(n - k) : x[i] = r[k + i]
  OBVIOUS
<1>2. n \in Nat /\ k \in 0..n /\ \A i \in 1..n : r[i] \in S
  OBVIOUS
<1> HIDE DEF n, x
<1>3. a \in Seq(S) /\ Len(a) = n - k /\ \A i \in 1..(n - k) : a[i] = x[n - k - i + 1]
  <2>1. \A i \in 1..(n - k) : n - k - i + 1 \in 1..(n - k) /\ k + (n - k - i + 1) \in 1..n
    BY <1>2
  <2>2. \A i \in 1..(n - k) : x[n - k - i + 1] \in S
    BY <1>1, <1>2, <2>1
  <2>3. a = [i \in 1..(n - k) |-> x[n - k - i + 1]]
    BY <1>1 DEF Reverse
  <2>4. n - k \in Nat
    BY <1>2
  <2> QED BY <2>2, <2>3, <2>4
<1>4. b \in Seq(S) /\ Len(b) = n /\ \A i \in 1..n : b[i] = r[n - i + 1]
  <2>1. \A i \in 1..n : n - i + 1 \in 1..n
    BY <1>2
  <2>2. \A i \in 1..n : r[n - i + 1] \in S
    BY <1>2, <2>1
  <2>3. b = [i \in 1..n |-> r[n - i + 1]]
    BY DEF Reverse, n
  <2> QED BY <1>2, <2>2, <2>3
<1> HIDE DEF a, b
<1>5. \A i \in 1..(n - k) : a[i] = b[i]
  <2> SUFFICES ASSUME NEW i \in 1..(n - k) PROVE a[i] = b[i]
    OBVIOUS
  <2>1. n - k - i + 1 \in 1..(n - k) /\ k + (n - k - i + 1) = n - i + 1 /\ i \in 1..n
    BY <1>2
  <2> QED BY <2>1, <1>1, <1>3, <1>4, ZenonT(60)
<1>6. IsPrefix(a, b)
  BY <1>2, <1>3, <1>4, <1>5, PrefixByElements
<1> QED BY <1>6 DEF IsSuffix, a, b, x, n

\* A ring the firmware can have: texts that were cut to EVENT_TEXT bytes.
IsRing(r) == r \in Seq(Seq(Kinds)) /\ \A k \in 1..Len(r) : IsText(r[k]) /\ Len(r[k]) <= EVENT_TEXT

\* EventRing::to_json lists the newest events: the list fits an attribute, has
\* an event whenever there is one, and one event more would not fit.
LEMMA ToJson ==
    ASSUME NEW r, IsRing(r), NEW x, x = to_json(r)
    PROVE  /\ x \in Seq(Seq(Kinds)) /\ IsSuffix(x, r) /\ ListLen(x) <= MAX_ATTR_LEN
           /\ r # <<>> => x # <<>>
           /\ x # r => ListLen(SubSeq(r, Len(r) - Len(x), Len(r))) > MAX_ATTR_LEN
<1> DEFINE n == Len(r)
           rest(skip) == SubSeq(r, skip + 1, n)
           K == {n} \cup {skip \in 0..n : ListLen(rest(skip)) <= MAX_ATTR_LEN}
           m == Min(K)
<1>1. /\ r \in Seq(Seq(Kinds)) /\ n \in Nat
      /\ \A k \in 1..n : r[k] \in Seq(Kinds) /\ Len(r[k]) <= EVENT_TEXT
  BY DEF IsRing
<1>2. /\ MAX_ATTR_LEN \in Nat /\ EVENT_FRAME \in Nat /\ EVENT_TEXT \in Nat
      /\ 6 * EVENT_TEXT + EVENT_FRAME + 4 <= MAX_ATTR_LEN
  BY AttributesAssumption
<1>3. x = rest(m)
  BY DEF to_json
<1>4. K \in SUBSET Nat /\ n \in K
  BY <1>1
<1>5. m \in K /\ \A y \in K : m <= y
  <2> HIDE DEF K
  <2> QED BY <1>4, MinIsLeast
<1>6. m \in 0..n
  BY <1>1, <1>5
<1>7. \A k \in 0..n : /\ rest(k) \in Seq(Seq(Kinds)) /\ Len(rest(k)) = n - k
                      /\ ListLen(rest(k)) \in Nat
                      /\ k = n => ListLen(rest(k)) = 2
  <2> SUFFICES ASSUME NEW k \in 0..n
               PROVE  /\ rest(k) \in Seq(Seq(Kinds)) /\ Len(rest(k)) = n - k
                      /\ ListLen(rest(k)) \in Nat
                      /\ k = n => ListLen(rest(k)) = 2
    OBVIOUS
  <2>1. rest(k) \in Seq(Seq(Kinds)) /\ Len(rest(k)) = n - k
    BY <1>1
  <2> HIDE DEF rest, n
  <2>2. k = n => Len(rest(k)) = 0
    BY <1>1, <2>1
  <2> QED BY <2>1, <2>2, ListLength
<1>8. ListLen(x) <= MAX_ATTR_LEN
  <2>1. CASE m = n
    <3>1. ListLen(rest(m)) = 2
      BY <1>6, <1>7, <2>1
    <3> HIDE DEF rest, m
    <3> QED BY <3>1, <1>2, <1>3
  <2>2. CASE m # n
    BY <1>3, <1>5, <2>2
  <2> QED BY <2>1, <2>2
<1>9. ASSUME r # <<>> PROVE m <= n - 1
  <2> DEFINE y == rest(n - 1)
  <2>1. n - 1 \in 0..n /\ n > 0
    BY <1>1, <1>9
  <2>2. y \in Seq(Seq(Kinds)) /\ Len(y) = 1
    <3>1. Len(rest(n - 1)) = n - (n - 1)
      BY <1>7, <2>1
    <3> QED BY <3>1, <1>7, <2>1, <1>1
  <2>3. y[1] = r[n]
    BY <1>1, <2>1
  <2> HIDE DEF y, n
  <2>4. ListLen(y) = 2 + EVENT_FRAME + json_str(r[n])
    BY <2>2, <2>3, ListLength
  <2>5. r[n] \in Seq(Kinds) /\ Len(r[n]) <= EVENT_TEXT /\ Len(r[n]) \in Nat
    BY <1>1, <2>1
  <2>6. json_str(r[n]) \in Nat /\ json_str(r[n]) <= 2 + 6 * Len(r[n])
    BY <2>5, JsonStrLength
  <2>7. ListLen(y) <= MAX_ATTR_LEN
    BY <1>2, <2>4, <2>5, <2>6
  <2>8. n - 1 \in K
    BY <2>1, <2>7 DEF y
  <2> QED BY <2>8, <1>5
<1>10. r # <<>> => x # <<>>
  <2> SUFFICES ASSUME r # <<>> PROVE x # <<>>
    OBVIOUS
  <2>1. m <= n - 1
    BY <1>9
  <2>2. Len(x) = n - m
    BY <1>3, <1>6, <1>7
  <2> HIDE DEF n, m
  <2>3. Len(x) # 0
    BY <1>1, <1>6, <2>1, <2>2
  <2> QED BY <2>3
<1>11. ASSUME x # r PROVE ListLen(SubSeq(r, n - Len(x), n)) > MAX_ATTR_LEN
  <2>1. m # 0
    <3> SUFFICES ASSUME m = 0 PROVE FALSE
      OBVIOUS
    <3>1. rest(0) = r
      BY <1>1
    <3> QED BY <3>1, <1>3, <1>11
  <2>2. m - 1 \in 0..n /\ ~(m <= m - 1) /\ m - 1 # n
    BY <1>1, <1>6, <2>1
  <2>3. m - 1 \notin K
    BY <1>5, <2>2
  <2>4. ~(ListLen(rest(m - 1)) <= MAX_ATTR_LEN) /\ ListLen(rest(m - 1)) \in Nat
    BY <1>7, <2>2, <2>3
  <2>5. Len(x) = n - m
    BY <1>3, <1>6, <1>7
  <2>6. n - Len(x) = (m - 1) + 1
    BY <1>1, <1>6, <2>5
  <2>7. SubSeq(r, n - Len(x), n) = rest(m - 1)
    BY <2>6
  <2>8. ~(ListLen(SubSeq(r, n - Len(x), n)) <= MAX_ATTR_LEN) /\ ListLen(SubSeq(r, n - Len(x), n)) \in Nat
    BY <2>4, <2>7
  <2> QED BY <1>2, <2>8
<1>12. IsSuffix(x, r)
  BY <1>1, <1>3, <1>6, SuffixByElements
<1>13. x \in Seq(Seq(Kinds))
  BY <1>3, <1>6, <1>7
<1> QED BY <1>8, <1>10, <1>11, <1>12, <1>13

\* EventRing::push keeps a ring a ring, and the text pushed is the last in it.
LEMMA PushKeepsRing ==
    ASSUME NEW r, IsRing(r), NEW t \in Texts, NEW q, q = push(r, t)
    PROVE  /\ IsRing(q) /\ Len(q) > 0
           /\ q[Len(q)] = truncate_utf8(t, EVENT_TEXT)
<1> DEFINE e == truncate_utf8(t, EVENT_TEXT)
           b == IF Len(r) = CAPACITY THEN Tail(r) ELSE r
<1>1. t \in Seq(Kinds) /\ IsText(t) /\ EVENT_TEXT \in Nat /\ CAPACITY \in Nat \ {0}
  BY AttributesAssumption
<1>2. e \in Seq(Kinds) /\ IsText(e) /\ Len(e) <= EVENT_TEXT
  BY <1>1, TruncatedText
<1>3. q = Append(b, e)
  BY DEF push
<1>4. b \in Seq(Seq(Kinds)) /\ \A k \in 1..Len(b) : IsText(b[k]) /\ Len(b[k]) <= EVENT_TEXT
  <2>0. r \in Seq(Seq(Kinds)) /\ \A k \in 1..Len(r) : IsText(r[k]) /\ Len(r[k]) <= EVENT_TEXT
    BY DEF IsRing
  <2>1. CASE Len(r) = CAPACITY
    <3>1. b = Tail(r) /\ r # <<>>
      BY <2>1, <1>1
    <3> DEFINE y == Tail(r)
    <3>2. /\ y \in Seq(Seq(Kinds)) /\ Len(y) = Len(r) - 1
          /\ \A k \in 1..Len(y) : y[k] = r[k + 1] /\ k + 1 \in 1..Len(r)
      BY <2>0, <3>1
    <3> HIDE DEF y
    <3>3. \A k \in 1..Len(y) : IsText(y[k]) /\ Len(y[k]) <= EVENT_TEXT
      BY <2>0, <3>2
    <3> QED BY <3>1, <3>2, <3>3 DEF y
  <2>2. CASE Len(r) # CAPACITY
    BY <2>0, <2>2
  <2> QED BY <2>1, <2>2
<1> HIDE DEF e, b
<1>5. /\ q \in Seq(Seq(Kinds)) /\ Len(q) = Len(b) + 1
      /\ \A k \in 1..Len(b) : q[k] = b[k]
      /\ q[Len(b) + 1] = e
  BY <1>2, <1>3, <1>4
<1>6. Len(b) \in Nat
  BY <1>4
<1>7. ASSUME NEW k \in 1..Len(q) PROVE IsText(q[k]) /\ Len(q[k]) <= EVENT_TEXT
  <2>1. k \in 1..Len(b) \/ k = Len(b) + 1
    BY <1>5, <1>6
  <2> QED BY <2>1, <1>2, <1>4, <1>5
<1>8. Len(q) > 0
  BY <1>5, <1>6
<1>9. q[Len(q)] = e
  BY <1>5
<1> QED BY <1>5, <1>7, <1>8, <1>9 DEF IsRing, e

\* The inductive part about the texts: every text held is whole, and the last
\* in the ring is the one pushed last, cut.
AttributesTyped ==
    /\ IsRing(ring)
    /\ pushed \in Seq(Kinds) /\ IsText(pushed)
    /\ notes \in Seq(Kinds) /\ IsText(notes)
    /\ rendering \in Seq(Kinds) /\ IsText(rendering)
    /\ events \in Seq(Seq(Kinds))
    /\ ring # <<>> => ring[Len(ring)] = truncate_utf8(pushed, EVENT_TEXT)

\* The inductive invariant of the texts.
AttributesInv == AttributesTyped /\ NewestEventsShown

\* It holds at boot.
LEMMA AttributesStart == AttributesInit => AttributesInv
<1> SUFFICES ASSUME AttributesInit PROVE AttributesInv
  OBVIOUS
<1> USE DEF AttributesInit
<1>1. <<>> \in Seq(Kinds) /\ IsText(<<>>)
  BY DEF IsText
<1>2. <<>> \in Seq(Seq(Kinds)) /\ IsRing(<<>>)
  BY DEF IsRing
<1>3. AttributesTyped
  BY <1>1, <1>2 DEF AttributesTyped
<1>4. ListLen(<<>>) = 2
  BY <1>2, ListLength
<1>5. ListLen(events) <= MAX_ATTR_LEN
  <2>1. /\ MAX_ATTR_LEN \in Nat /\ EVENT_FRAME \in Nat /\ EVENT_TEXT \in Nat
        /\ 6 * EVENT_TEXT + EVENT_FRAME + 4 <= MAX_ATTR_LEN
    BY AttributesAssumption
  <2> QED BY <1>4, <2>1
<1>6. NewestEventsShown
  BY <1>5 DEF NewestEventsShown
<1> QED BY <1>3, <1>6 DEF AttributesInv

\* Every step keeps it: a push, the mirroring of the status, a publish, a cut
\* of the notes, a body that fits.
LEMMA AttributesStep == AttributesInv /\ [AttributesNext]_attributeVars => AttributesInv'
<1> SUFFICES ASSUME AttributesInv, [AttributesNext]_attributeVars PROVE AttributesInv'
  OBVIOUS
<1> USE DEF AttributesInv
<1>1. CASE Push
  <2>1. PICK t \in Texts : ring' = push(ring, t) /\ pushed' = t
    BY <1>1 DEF Push
  <2>2. IsRing(ring') /\ ring'[Len(ring')] = truncate_utf8(t, EVENT_TEXT)
    BY <2>1, PushKeepsRing DEF AttributesTyped
  <2>3. t \in Seq(Kinds) /\ IsText(t)
    BY AttributesAssumption
  <2>4. AttributesTyped'
    BY <1>1, <2>1, <2>2, <2>3 DEF Push, AttributesTyped, statusVars, buildVars
  <2>5. NewestEventsShown'
    BY <1>1 DEF Push, NewestEventsShown, buildVars
  <2> QED BY <2>4, <2>5
<1>2. CASE Mirror
  <2>1. notes' \in Seq(Kinds) /\ IsText(notes')
    BY <1>2, AttributesAssumption DEF Mirror
  <2>2. AttributesTyped'
    BY <1>2, <2>1 DEF Mirror, AttributesTyped, buildVars
  <2>3. NewestEventsShown'
    BY <1>2 DEF Mirror, NewestEventsShown, buildVars
  <2> QED BY <2>2, <2>3
<1>3. CASE Publish
  <2>1. /\ events' \in Seq(Seq(Kinds)) /\ IsSuffix(events', ring) /\ ListLen(events') <= MAX_ATTR_LEN
        /\ ring # <<>> => events' # <<>>
        /\ events' # ring => ListLen(SubSeq(ring, Len(ring) - Len(events'), Len(ring))) > MAX_ATTR_LEN
    BY <1>3, ToJson DEF Publish, AttributesTyped
  <2>2. AttributesTyped'
    BY <1>3, <2>1 DEF Publish, AttributesTyped, statusVars
  <2>3. NewestEventsShown'
    BY <1>3, <2>1 DEF Publish, NewestEventsShown
  <2> QED BY <2>2, <2>3
<1>4. CASE TrimNotes
  <2> DEFINE n == Len(rendering)
             m == Max({0, n - TRIM})
  <2>1. n \in Nat /\ TRIM \in Nat
    BY AttributesAssumption DEF AttributesTyped
  <2>2. m \in Nat
    <3> HIDE DEF n
    <3> QED BY <2>1, MaxOfTwo
  <2>3. rendering' = truncate_utf8(rendering, m)
    BY <1>4 DEF TrimNotes, Trimmed
  <2> HIDE DEF m
  <2>4. rendering' \in Seq(Kinds) /\ IsText(rendering')
    BY <2>2, <2>3, TruncatedText DEF AttributesTyped
  <2>5. AttributesTyped'
    BY <1>4, <2>4 DEF TrimNotes, AttributesTyped, statusVars
  <2>6. NewestEventsShown'
    BY <1>4 DEF TrimNotes, NewestEventsShown
  <2> QED BY <2>5, <2>6
<1>5. CASE Built
  <2>1. <<>> \in Seq(Kinds) /\ IsText(<<>>)
    BY DEF IsText
  <2>2. AttributesTyped'
    BY <1>5, <2>1 DEF Built, AttributesTyped, statusVars
  <2>3. NewestEventsShown'
    BY <1>5 DEF Built, NewestEventsShown
  <2> QED BY <2>2, <2>3
<1>6. CASE UNCHANGED attributeVars
  <2>1. AttributesTyped'
    BY <1>6 DEF attributeVars, statusVars, buildVars, AttributesTyped
  <2>2. NewestEventsShown'
    BY <1>6 DEF attributeVars, statusVars, buildVars, NewestEventsShown
  <2> QED BY <2>1, <2>2
<1> QED BY <1>1, <1>2, <1>3, <1>4, <1>5, <1>6 DEF AttributesNext

\* Texts that are whole are what CharactersStayWhole asks for.
LEMMA RingOfWholeTexts == AttributesTyped => CharactersStayWhole
<1> SUFFICES ASSUME AttributesTyped PROVE CharactersStayWhole
  OBVIOUS
<1> USE DEF AttributesTyped
<1>1. DOMAIN ring = 1..Len(ring)
  BY DEF IsRing
<1>2. \A k \in DOMAIN ring : IsText(ring[k]) /\ Len(ring[k]) <= EVENT_TEXT
  BY <1>1 DEF IsRing
<1>3. ASSUME ring # <<>>
      PROVE  /\ IsPrefix(ring[Len(ring)], pushed)
             /\ ring[Len(ring)] # pushed => Len(ring[Len(ring)]) + 2 > EVENT_TEXT
  <2>1. EVENT_TEXT \in Nat /\ ring[Len(ring)] = truncate_utf8(pushed, EVENT_TEXT)
    BY <1>3, AttributesAssumption
  <2> QED BY <2>1, TruncatedText
<1> QED BY <1>2, <1>3 DEF CharactersStayWhole

\* For all texts, notes and limits: the app is shown the newest events, as many
\* as fit one attribute (EventRing::to_json), and no text of the ring or of the
\* notes is cut within a character (truncate_utf8), however often it is cut.
THEOREM EventsAlwaysShownWhole == AttributesSpec => []EventsShownWhole
<1>1. AttributesInit => AttributesInv
  BY AttributesStart
<1>2. AttributesInv /\ [AttributesNext]_attributeVars => AttributesInv'
  BY AttributesStep
<1>3. AttributesInv => EventsShownWhole
  BY RingOfWholeTexts DEF AttributesInv, EventsShownWhole
<1> QED BY <1>1, <1>2, <1>3, PTL DEF AttributesSpec

-----------------------------------------------------------------------------
(* Commands, credentials and the live status.                               *)

\* A number is its remainder and its quotient.
LEMMA ByteParts ==
    ASSUME NEW n \in Nat, NEW b \in Nat, b > 0
    PROVE  n % b \in 0..(b - 1) /\ n \div b \in Nat /\ n = (n % b) + b * (n \div b)
  BY SMT

\* The two bytes of a number below 65536, and the number of these bytes.
LEMMA Le16Read ==
    ASSUME NEW n \in Nat, n < 65536
    PROVE  /\ Le16(n) = <<n % 256, n \div 256>>
           /\ Le16(n) \in Seq(Byte) /\ Len(Le16(n)) = 2
           /\ n = Le16(n)[1] + 256 * Le16(n)[2]
<1> DEFINE q == n \div 256
<1>1. n % 256 \in Byte /\ q \in Nat /\ n = (n % 256) + 256 * q
  BY ByteParts, SMT DEF Byte
<1>2. Le16(n) = <<n % 256, q % 256>>
  BY DEF Le16
<1> HIDE DEF q
<1>3. q \in Byte
  BY <1>1, SMT DEF Byte
<1>4. q % 256 = q
  BY <1>3, SMT DEF Byte
<1>5. Le16(n) = <<n % 256, q>>
  BY <1>2, <1>4
<1> QED BY <1>1, <1>3, <1>5, SMT DEF q

\* The lengths of the live status's six fields.
PacketLengths(f, r, v, q, s, u) ==
    Len(f) = 4 /\ Len(r) = 2 /\ Len(v) = 2 /\ Len(q) = 4 /\ Len(s) = 4 /\ Len(u) = 4

\* Each field at its place in the packet.
PacketBytes(f, r, v, q, s, u, b) ==
    /\ \A i \in 1..4 : b[i] = f[i]
    /\ \A i \in 1..2 : b[4 + i] = r[i]
    /\ \A i \in 1..2 : b[6 + i] = v[i]
    /\ \A i \in 1..4 : b[8 + i] = q[i]
    /\ \A i \in 1..4 : b[12 + i] = s[i]
    /\ \A i \in 1..4 : b[16 + i] = u[i]

\* The concatenation of the fields has each one at its place.
LEMMA PacketLayout ==
    ASSUME NEW S, NEW f \in Seq(S), NEW r \in Seq(S), NEW v \in Seq(S), NEW q \in Seq(S),
           NEW s \in Seq(S), NEW u \in Seq(S), PacketLengths(f, r, v, q, s, u)
    PROVE  PacketBytes(f, r, v, q, s, u, f \o r \o v \o q \o s \o u)
<1> DEFINE b2 == f \o r
           b3 == b2 \o v
           b4 == b3 \o q
           b5 == b4 \o s
           b6 == b5 \o u
<1>0. b6 = f \o r \o v \o q \o s \o u
  OBVIOUS
<1>2. /\ b2 \in Seq(S) 
      /\ Len(b2) = Len(f) + Len(r)
      /\ \A i \in 1..Len(f) : b2[i] = f[i]
      /\ \A i \in 1..Len(r) : b2[Len(f) + i] = r[i]
  BY Joined
<1> HIDE DEF b2
<1>3. /\ b3 \in Seq(S) 
      /\ Len(b3) = Len(b2) + Len(v)
      /\ \A i \in 1..Len(b2) : b3[i] = b2[i]
      /\ \A i \in 1..Len(v) : b3[Len(b2) + i] = v[i]
  <2>1. b2 \in Seq(S)
    BY <1>2
  <2> QED BY <2>1, Joined
<1> HIDE DEF b3
<1>4. /\ b4 \in Seq(S) 
      /\ Len(b4) = Len(b3) + Len(q)
      /\ \A i \in 1..Len(b3) : b4[i] = b3[i]
      /\ \A i \in 1..Len(q) : b4[Len(b3) + i] = q[i]
  <2>1. b3 \in Seq(S)
    BY <1>3
  <2> QED BY <2>1, Joined
<1> HIDE DEF b4
<1>5. /\ b5 \in Seq(S) 
      /\ Len(b5) = Len(b4) + Len(s)
      /\ \A i \in 1..Len(b4) : b5[i] = b4[i]
      /\ \A i \in 1..Len(s) : b5[Len(b4) + i] = s[i]
  <2>1. b4 \in Seq(S)
    BY <1>4
  <2> QED BY <2>1, Joined
<1> HIDE DEF b5
<1>6. /\ b6 \in Seq(S) 
      /\ Len(b6) = Len(b5) + Len(u)
      /\ \A i \in 1..Len(b5) : b6[i] = b5[i]
      /\ \A i \in 1..Len(u) : b6[Len(b5) + i] = u[i]
  <2>1. b5 \in Seq(S)
    BY <1>5
  <2> QED BY <2>1, Joined
<1> HIDE DEF b6
<1>7. PacketBytes(f, r, v, q, s, u, b6)
  <2>1. Len(f) = 4 /\ Len(r) = 2 /\ Len(v) = 2 /\ Len(q) = 4 /\ Len(s) = 4 /\ Len(u) = 4
    BY DEF PacketLengths
  <2>2. /\ Len(b2) = 6
        /\ \A i \in 1..4 : b2[i] = f[i]
        /\ \A i \in 1..2 : b2[4 + i] = r[i]
    BY <2>1, <1>2, SMT
  <2>3. /\ Len(b3) = 8
        /\ \A i \in 1..4 : b3[i] = f[i]
        /\ \A i \in 1..2 : b3[4 + i] = r[i]
        /\ \A i \in 1..2 : b3[6 + i] = v[i]
    BY <2>1, <1>3, <2>2, SMT
  <2>4. /\ Len(b4) = 12
        /\ \A i \in 1..4 : b4[i] = f[i]
        /\ \A i \in 1..2 : b4[4 + i] = r[i]
        /\ \A i \in 1..2 : b4[6 + i] = v[i]
        /\ \A i \in 1..4 : b4[8 + i] = q[i]
    BY <2>1, <1>4, <2>3, SMT
  <2>5. /\ Len(b5) = 16
        /\ \A i \in 1..4 : b5[i] = f[i]
        /\ \A i \in 1..2 : b5[4 + i] = r[i]
        /\ \A i \in 1..2 : b5[6 + i] = v[i]
        /\ \A i \in 1..4 : b5[8 + i] = q[i]
        /\ \A i \in 1..4 : b5[12 + i] = s[i]
    BY <2>1, <1>5, <2>4, SMT
  <2>6. /\ Len(b6) = 20
        /\ \A i \in 1..4 : b6[i] = f[i]
        /\ \A i \in 1..2 : b6[4 + i] = r[i]
        /\ \A i \in 1..2 : b6[6 + i] = v[i]
        /\ \A i \in 1..4 : b6[8 + i] = q[i]
        /\ \A i \in 1..4 : b6[12 + i] = s[i]
        /\ \A i \in 1..4 : b6[16 + i] = u[i]
    BY <2>1, <1>6, <2>5, SMT
  <2> QED BY <2>6 DEF PacketBytes
<1> QED BY <1>0, <1>7

\* The four bytes of a counter, and the counter of these bytes.
LEMMA Le32Read ==
    ASSUME NEW n \in Counter
    PROVE  /\ Le32(n) \in Seq(Byte) /\ Len(Le32(n)) = 4
           /\ n = Le32(n)[1] + 256 * Le32(n)[2] + 65536 * (Le32(n)[3] + 256 * Le32(n)[4])
<1> DEFINE lo == n % 65536
           hi == n \div 65536
<1>1. n \in Nat /\ hi < 65536
  BY DEF Counter
<1>2. hi \in Nat /\ lo \in Nat /\ lo < 65536 /\ n = lo + 65536 * hi
  BY <1>1, ByteParts, SMT
<1>3. Le32(n) = Le16(lo) \o Le16(hi)
  BY DEF Le32
<1> HIDE DEF lo, hi
<1>4. /\ Le16(lo) \in Seq(Byte) /\ Len(Le16(lo)) = 2 /\ lo = Le16(lo)[1] + 256 * Le16(lo)[2]
      /\ Le16(hi) \in Seq(Byte) /\ Len(Le16(hi)) = 2 /\ hi = Le16(hi)[1] + 256 * Le16(hi)[2]
  BY <1>1, <1>2, Le16Read
<1> DEFINE a == Le16(lo)
           b == Le16(hi)
<1> HIDE DEF a, b
<1>0. a \in Seq(Byte) /\ b \in Seq(Byte) /\ Len(a) = 2 /\ Len(b) = 2
  BY <1>4 DEF a, b
<1>5. /\ Le32(n) \in Seq(Byte) /\ Len(Le32(n)) = 4
      /\ Le32(n)[1] = a[1] /\ Le32(n)[2] = a[2] /\ Le32(n)[3] = b[1] /\ Le32(n)[4] = b[2]
  <2> DEFINE c == a \o b
  <2>1. Le32(n) = c
    BY <1>3 DEF a, b
  <2>2. a \in Seq(Byte) /\ b \in Seq(Byte)
    BY <1>0
  <2>3. /\ c \in Seq(Byte) /\ Len(c) = Len(a) + Len(b)
        /\ \A i \in 1..Len(a) : c[i] = a[i]
        /\ \A i \in 1..Len(b) : c[Len(a) + i] = b[i]
    BY <2>2, Joined
  <2> HIDE DEF c
  <2> QED BY <2>1, <2>3, <1>0, SMT
<1>6. lo = a[1] + 256 * a[2] /\ hi = b[1] + 256 * b[2]
  BY <1>4 DEF a, b
<1>7. n = a[1] + 256 * a[2] + 65536 * (b[1] + 256 * b[2])
  BY <1>2, <1>6, SMT
<1> QED BY <1>5, <1>7, SMT

\* Seven bits packed in a byte, and the first six read from it.
LEMMA FlagBits ==
    ASSUME NEW l \in {0, 1}, NEW n \in {0, 1}, NEW k \in {0, 1}, NEW c \in {0, 1},
           NEW f \in {0, 1}, NEW o \in {0, 1}, NEW d \in {0, 1},
           NEW b, b = l + 2 * n + 4 * k + 8 * c + 16 * f + 32 * o + 64 * d
    PROVE  /\ b \in Nat
           /\ Has(b, 1) <=> l = 1
           /\ Has(b, 2) <=> n = 1
           /\ Has(b, 4) <=> k = 1
           /\ Has(b, 8) <=> c = 1
           /\ Has(b, 16) <=> f = 1
           /\ Has(b, 32) <=> o = 1
  BY SMT DEF Has

\* The app's flags are the firmware's.
LEMMA FlagsRead ==
    ASSUME NEW s \in LiveStatus
    PROVE  /\ flags(s) \in Nat
           /\ Has(flags(s), 1) <=> s.link_up
           /\ Has(flags(s), 2) <=> s.neutral_switch
           /\ Has(flags(s), 4) <=> s.interlock # "unknown"
           /\ Has(flags(s), 8) <=> s.interlock = "closed"
           /\ Has(flags(s), 16) <=> s.learn_flash
           /\ Has(flags(s), 32) <=> s.ota_busy
<1> DEFINE l == IF s.link_up THEN 1 ELSE 0
           n == IF s.neutral_switch THEN 1 ELSE 0
           k == IF s.interlock # "unknown" THEN 1 ELSE 0
           c == IF s.interlock = "closed" THEN 1 ELSE 0
           f == IF s.learn_flash THEN 1 ELSE 0
           o == IF s.ota_busy THEN 1 ELSE 0
           d == IF s.demo THEN 1 ELSE 0
<1>1. /\ Bit(s.link_up, 1) = l /\ Bit(s.neutral_switch, 2) = 2 * n
      /\ Bit(s.interlock # "unknown", 4) = 4 * k /\ Bit(s.interlock = "closed", 8) = 8 * c
      /\ Bit(s.learn_flash, 16) = 16 * f /\ Bit(s.ota_busy, 32) = 32 * o /\ Bit(s.demo, 64) = 64 * d
  BY SMT DEF Bit
<1>2. /\ l \in {0, 1} /\ n \in {0, 1} /\ k \in {0, 1} /\ c \in {0, 1}
      /\ f \in {0, 1} /\ o \in {0, 1} /\ d \in {0, 1}
  BY SMT
<1>3. /\ l = 1 <=> s.link_up
      /\ n = 1 <=> s.neutral_switch
      /\ k = 1 <=> s.interlock # "unknown"
      /\ c = 1 <=> s.interlock = "closed"
      /\ f = 1 <=> s.learn_flash
      /\ o = 1 <=> s.ota_busy
  BY SMT
<1> HIDE DEF l, n, k, c, f, o, d
<1>4. flags(s) = l + 2 * n + 4 * k + 8 * c + 16 * f + 32 * o + 64 * d
  BY <1>1 DEF flags
<1>5. /\ flags(s) \in Nat
      /\ Has(flags(s), 1) <=> l = 1
      /\ Has(flags(s), 2) <=> n = 1
      /\ Has(flags(s), 4) <=> k = 1
      /\ Has(flags(s), 8) <=> c = 1
      /\ Has(flags(s), 16) <=> f = 1
      /\ Has(flags(s), 32) <=> o = 1
  BY <1>2, <1>4, FlagBits, SMT
<1> QED BY <1>3, <1>5

\* A reading is rounded to a number that fits two bytes: `as u16` saturates.
LEMMA RoundedFits ==
    ASSUME NEW n \in Nat, NEW d \in Nat, d > 0
    PROVE  Rounded(n, d) \in Nat /\ Rounded(n, d) < 65536
<1> DEFINE r == (2 * n + d) \div (2 * d)
<1>1. 2 * n + d \in Nat /\ 2 * d \in Nat /\ 2 * d > 0
  BY SMT
<1>2. r \in Nat
  BY <1>1, ByteParts
<1>3. Rounded(n, d) = IF r > 65535 THEN 65535 ELSE r
  BY DEF Rounded
<1> HIDE DEF r
<1> QED BY <1>2, <1>3, SMT

\* A reading is sent in two bytes, and the app reads the rounded reading.
LEMMA ReadingRead ==
    ASSUME NEW n \in {None} \cup Nat, NEW d \in {2, 4}
    PROVE  /\ Reading(n, d) \in Seq(Byte) /\ Len(Reading(n, d)) = 2
           /\ Rounded(Shown(n), d) = Reading(n, d)[1] + 256 * Reading(n, d)[2]
<1> DEFINE k == Rounded(Shown(n), d)
<1>1. Shown(n) \in Nat
  BY DEF Shown
<1>2. k \in Nat /\ k < 65536
  BY <1>1, RoundedFits, SMT
<1>3. Reading(n, d) = Le16(k)
  BY DEF Reading
<1> HIDE DEF k
<1>4. /\ Reading(n, d) \in Seq(Byte) /\ Len(Reading(n, d)) = 2
      /\ k = Reading(n, d)[1] + 256 * Reading(n, d)[2]
  BY <1>2, <1>3, Le16Read
<1> QED BY <1>4 DEF k

\* The app reads the gear from the byte the firmware makes of it.
LEMMA GearRead ==
    ASSUME NEW g \in Gears
    PROVE  /\ GearByte(g) \in 0..7
           /\ g = IF GearByte(g) = 7 THEN Neutral
                  ELSE IF GearByte(g) \in 1..6 THEN GearByte(g) ELSE Unknown
  BY SMT DEF GearByte, Gears, Digits, NUM_GEARS, Neutral, Unknown

\* Ratios are pairs of numbers.
LEMMA RatioType ==
    ASSUME NEW s \in LiveStatus
    PROVE  ratio(s) \in Int \X Int /\ NoRatio \in Int \X Int
<1>1. s.rpm \in Int /\ s.speed \in Int
  BY DEF LiveStatus, None
<1> QED BY <1>1 DEF ratio, NoRatio

\* Byte by byte, W230Protocol's live status is the one that LiveStatus::encode
\* was given.
LEMMA StatusShown ==
    ASSUME NEW s \in LiveStatus
    PROVE  live(encode(s)) =
             [linkUp |-> s.link_up, neutralSwitch |-> s.neutral_switch, interlock |-> s.interlock,
              learnFlash |-> s.learn_flash, otaBusy |-> s.ota_busy, gear |-> s.gear,
              brightnessIndex |-> s.brightness_idx,
              rpm |-> Rounded(Shown(s.rpm), 4),
              speed |-> Rounded(Shown(s.speed), 2), ratio |-> ratio(s),
              samples |-> s.samples, uptime |-> s.uptime_s]
<1> DEFINE S == Int \cup (Int \X Int)
           f == <<1, flags(s), GearByte(s.gear), s.brightness_idx>>
           r == Reading(s.rpm, 4)
           v == Reading(s.speed, 2)
           q == <<ratio(s), NoRatio, NoRatio, NoRatio>>
           t == Le32(s.samples)
           u == Le32(s.uptime_s)
           b == encode(s)
<1>1. /\ s.link_up \in BOOLEAN /\ s.neutral_switch \in BOOLEAN
      /\ s.learn_flash \in BOOLEAN /\ s.ota_busy \in BOOLEAN
      /\ s.interlock \in {"unknown", "open", "closed"} /\ s.gear \in Gears /\ s.brightness_idx \in Byte
      /\ s.rpm \in {None} \cup Nat /\ s.speed \in {None} \cup Nat
      /\ s.samples \in Counter /\ s.uptime_s \in Counter
  BY DEF LiveStatus
<1>2. /\ r \in Seq(Byte) /\ Len(r) = 2
      /\ Rounded(Shown(s.rpm), 4) = r[1] + 256 * r[2]
  BY <1>1, ReadingRead
<1>3. /\ v \in Seq(Byte) /\ Len(v) = 2
      /\ Rounded(Shown(s.speed), 2) = v[1] + 256 * v[2]
  BY <1>1, ReadingRead
<1>4. /\ t \in Seq(Byte) /\ Len(t) = 4
      /\ s.samples = t[1] + 256 * t[2] + 65536 * (t[3] + 256 * t[4])
  BY <1>1, Le32Read
<1>5. /\ u \in Seq(Byte) /\ Len(u) = 4
      /\ s.uptime_s = u[1] + 256 * u[2] + 65536 * (u[3] + 256 * u[4])
  BY <1>1, Le32Read
<1>6. /\ f \in Seq(S) /\ Len(f) = 4
      /\ f[2] = flags(s) /\ f[3] = GearByte(s.gear) /\ f[4] = s.brightness_idx
  <2>1. flags(s) \in S /\ GearByte(s.gear) \in S /\ s.brightness_idx \in S /\ 1 \in S
    BY <1>1, FlagsRead, GearRead, SMT DEF Byte
  <2> HIDE DEF S
  <2> QED BY <2>1
<1>7. q \in Seq(S) /\ Len(q) = 4 /\ q[1] = ratio(s)
  <2>1. ratio(s) \in S /\ NoRatio \in S
    BY RatioType
  <2> HIDE DEF S
  <2> QED BY <2>1
<1>8. r \in Seq(S) /\ v \in Seq(S) /\ t \in Seq(S) /\ u \in Seq(S)
  <2>1. Byte \subseteq S
    BY DEF Byte
  <2>2. r \in Seq(Byte) /\ v \in Seq(Byte) /\ t \in Seq(Byte) /\ u \in Seq(Byte)
    BY <1>2, <1>3, <1>4, <1>5
  <2> HIDE DEF S, r, v, t, u
  <2> QED BY <2>1, <2>2, WiderSeq
<1>9. b = f \o r \o v \o q \o t \o u
  BY DEF encode
<1> HIDE DEF f, r, v, q, t, u, b, S
<1>10. PacketBytes(f, r, v, q, t, u, b)
  <2>1. f \in Seq(S) /\ r \in Seq(S) /\ v \in Seq(S) /\ q \in Seq(S) /\ t \in Seq(S) /\ u \in Seq(S)
    BY <1>6, <1>7, <1>8
  <2>2. PacketLengths(f, r, v, q, t, u)
    BY <1>2, <1>3, <1>4, <1>5, <1>6, <1>7 DEF PacketLengths
  <2> QED BY <2>1, <2>2, <1>9, PacketLayout
<1>11. /\ b[2] = f[2] /\ b[3] = f[3] /\ b[4] = f[4]
       /\ b[5] = r[1] /\ b[6] = r[2] /\ b[7] = v[1] /\ b[8] = v[2]
       /\ b[9] = q[1] /\ b[13] = t[1] /\ b[14] = t[2] /\ b[15] = t[3] /\ b[16] = t[4]
       /\ b[17] = u[1] /\ b[18] = u[2] /\ b[19] = u[3] /\ b[20] = u[4]
  BY <1>10, SMT DEF PacketBytes
<1>12. /\ U16(b, 5) = Rounded(Shown(s.rpm), 4)
       /\ U16(b, 7) = Rounded(Shown(s.speed), 2)
  BY <1>2, <1>3, <1>11 DEF U16
<1>13. U32(b, 13) = s.samples /\ U32(b, 17) = s.uptime_s
  BY <1>4, <1>5, <1>11, SMT DEF U32, U16
<1>14. /\ Has(b[2], 1) <=> s.link_up
       /\ Has(b[2], 2) <=> s.neutral_switch
       /\ Has(b[2], 4) <=> s.interlock # "unknown"
       /\ Has(b[2], 8) <=> s.interlock = "closed"
       /\ Has(b[2], 16) <=> s.learn_flash
       /\ Has(b[2], 32) <=> s.ota_busy
  BY <1>6, <1>11, FlagsRead
<1>15. /\ Has(b[2], 1) = s.link_up
       /\ Has(b[2], 2) = s.neutral_switch
       /\ Has(b[2], 16) = s.learn_flash
       /\ Has(b[2], 32) = s.ota_busy
  <2>1. /\ Has(b[2], 1) \in BOOLEAN /\ Has(b[2], 2) \in BOOLEAN
        /\ Has(b[2], 16) \in BOOLEAN /\ Has(b[2], 32) \in BOOLEAN
    BY DEF Has
  <2> QED BY <2>1, <1>1, <1>14, Zenon
<1>16. (IF ~Has(b[2], 4) THEN "unknown" ELSE IF Has(b[2], 8) THEN "closed" ELSE "open") = s.interlock
  BY <1>1, <1>14
<1>17. (IF b[3] = 7 THEN Neutral ELSE IF b[3] \in 1..6 THEN b[3] ELSE Unknown) = s.gear
  BY <1>1, <1>6, <1>11, GearRead
<1>18. b[4] = s.brightness_idx /\ b[9] = ratio(s)
  BY <1>6, <1>7, <1>11
<1>19. live(b) =
         [linkUp |-> s.link_up, neutralSwitch |-> s.neutral_switch, interlock |-> s.interlock,
          learnFlash |-> s.learn_flash, otaBusy |-> s.ota_busy, gear |-> s.gear,
          brightnessIndex |-> s.brightness_idx,
          rpm |-> Rounded(Shown(s.rpm), 4),
          speed |-> Rounded(Shown(s.speed), 2), ratio |-> ratio(s),
          samples |-> s.samples, uptime |-> s.uptime_s]
  BY <1>12, <1>13, <1>15, <1>16, <1>17, <1>18, Zenon DEF live
<1> QED BY <1>19 DEF b

\* A payload starts with its first byte,
LEMMA OneBytePrefix ==
    ASSUME NEW p \in Seq(Byte), Len(p) >= 1
    PROVE  IsPrefix(<<p[1]>>, p)
<1> DEFINE s == <<p[1]>>
<1>1. p[1] \in Byte
  OBVIOUS
<1>2. s \in Seq(Byte) /\ Len(s) = 1 /\ s[1] = p[1]
  BY <1>1
<1> HIDE DEF s
<1>3. IsPrefix(s, p)
  BY <1>2, PrefixByElements
<1> QED BY <1>3 DEF s

\* and with its first two.
LEMMA TwoBytePrefix ==
    ASSUME NEW p \in Seq(Byte), Len(p) >= 2
    PROVE  IsPrefix(<<p[1], p[2]>>, p)
<1> DEFINE s == <<p[1], p[2]>>
<1>1. p[1] \in Byte /\ p[2] \in Byte
  OBVIOUS
<1>2. s \in Seq(Byte) /\ Len(s) = 2 /\ s[1] = p[1] /\ s[2] = p[2]
  BY <1>1
<1> HIDE DEF s
<1>3. IsPrefix(s, p)
  BY <1>2, PrefixByElements
<1> QED BY <1>3 DEF s

\* The payload the app makes of each command but the one with an address.
LEMMA PayloadOf ==
    ASSUME NEW k \in DOMAIN Opcodes, k # 9, NEW n
    PROVE  /\ WithByte(Opcodes[k], n).op # "SetManifestUrl"
           /\ data(WithByte(Opcodes[k], n)) = IF k \in {2, 5} THEN <<k, n>> ELSE <<k>>
<1>1. k \in 1..10
  BY DEF Opcodes
<1>2. CASE k = 1
  BY <1>2 DEF Opcodes, WithByte, data
<1>3. CASE k = 2
  BY <1>3 DEF Opcodes, WithByte, data
<1>4. CASE k = 3
  BY <1>4 DEF Opcodes, WithByte, data
<1>5. CASE k = 4
  BY <1>5 DEF Opcodes, WithByte, data
<1>6. CASE k = 5
  BY <1>6 DEF Opcodes, WithByte, data
<1>7. CASE k = 6
  BY <1>7 DEF Opcodes, WithByte, data
<1>8. CASE k = 7
  BY <1>8 DEF Opcodes, WithByte, data
<1>9. CASE k = 8
  BY <1>9 DEF Opcodes, WithByte, data
<1>10. CASE k = 10
  BY <1>10 DEF Opcodes, WithByte, data
<1> QED BY <1>1, <1>2, <1>3, <1>4, <1>5, <1>6, <1>7, <1>8, <1>9, <1>10

\* A payload that Command::decode takes for a command starts with the bytes the
\* app sends for that command.
LEMMA CommandSaidInFull ==
    ASSUME NEW p \in Seq(Byte), decode(p) # Ignored
    PROVE  IF decode(p).op = "SetManifestUrl" THEN trim(From(p, 2)) = decode(p).url /\ p[1] = 9
           ELSE IsPrefix(data(decode(p)), p)
<1> DEFINE k == p[1]
           op == Opcodes[k]
<1>1. p # <<>> /\ k \in DOMAIN Opcodes
  BY DEF decode
<1>2. Len(p) >= 1
  BY <1>1
<1>3. /\ (op = "SetManifestUrl") <=> k = 9
      /\ (op \in {"SetBrightness", "SetBootPolicy"}) <=> k \in {2, 5}
  <2>1. k \in 1..10
    BY <1>1 DEF Opcodes
  <2> HIDE DEF k
  <2> QED BY <2>1 DEF Opcodes
<1>4. CASE k = 9
  <2>1. decode(p) = WithUrl(trim(From(p, 2)))
    BY <1>1, <1>3, <1>4 DEF decode
  <2> QED BY <2>1, <1>4 DEF WithUrl
<1>5. CASE k \in {2, 5}
  <2>1. Len(p) >= 2 /\ decode(p) = WithByte(op, p[2])
    BY <1>1, <1>3, <1>5 DEF decode
  <2>2. decode(p).op # "SetManifestUrl" /\ data(decode(p)) = <<p[1], p[2]>>
    BY <2>1, <1>1, <1>5, PayloadOf
  <2> QED BY <2>1, <2>2, TwoBytePrefix
<1>6. CASE k \notin {2, 5, 9}
  <2>1. decode(p) = WithByte(op, 0)
    BY <1>1, <1>3, <1>6 DEF decode
  <2>2. decode(p).op # "SetManifestUrl" /\ data(decode(p)) = <<p[1]>>
    BY <2>1, <1>1, <1>6, PayloadOf
  <2> QED BY <1>2, <2>2, OneBytePrefix
<1> QED BY <1>4, <1>5, <1>6

\* The bytes of a name and a password, each behind its length.
WifiBytes(p, ssid, psk) ==
    /\ p \in Seq(Byte) /\ Len(p) = Len(ssid) + Len(psk) + 3
    /\ p[1] = 1 /\ p[2] = Len(ssid) /\ p[Len(ssid) + 3] = Len(psk)
    /\ \A i \in 1..Len(ssid) : p[i + 2] = ssid[i]
    /\ \A i \in 1..Len(psk) : p[i + Len(ssid) + 3] = psk[i]

\* The app's wifi_data is these bytes.
LEMMA WifiLayout ==
    ASSUME NEW ssid \in Seq(Byte), NEW psk \in Seq(Byte), Len(ssid) \in Byte, Len(psk) \in Byte
    PROVE  WifiBytes(wifi_data(Credentials(ssid, psk)), ssid, psk)
<1> DEFINE a == <<1, Len(ssid)>>
           c == <<Len(psk)>>
           p2 == a \o ssid
           p3 == p2 \o c
           p4 == p3 \o psk
<1>1. a \in Seq(Byte) /\ Len(a) = 2 /\ a[1] = 1 /\ a[2] = Len(ssid)
  <2>1. 1 \in Byte
    BY DEF Byte
  <2> QED BY <2>1
<1>2. c \in Seq(Byte) /\ Len(c) = 1 /\ c[1] = Len(psk)
  OBVIOUS
<1>3. wifi_data(Credentials(ssid, psk)) = p4
  BY DEF wifi_data, Credentials
<1> HIDE DEF a, c
<1>4. /\ p2 \in Seq(Byte) /\ Len(p2) = Len(a) + Len(ssid)
      /\ \A i \in 1..Len(a) : p2[i] = a[i]
      /\ \A i \in 1..Len(ssid) : p2[Len(a) + i] = ssid[i]
  <2>1. a \in Seq(Byte)
    BY <1>1
  <2> QED BY <2>1, Joined
<1> HIDE DEF p2
<1>5. /\ p3 \in Seq(Byte) /\ Len(p3) = Len(p2) + Len(c)
      /\ \A i \in 1..Len(p2) : p3[i] = p2[i]
      /\ \A i \in 1..Len(c) : p3[Len(p2) + i] = c[i]
  <2>1. p2 \in Seq(Byte) /\ c \in Seq(Byte)
    BY <1>2, <1>4
  <2> QED BY <2>1, Joined
<1> HIDE DEF p3
<1>6. /\ p4 \in Seq(Byte) /\ Len(p4) = Len(p3) + Len(psk)
      /\ \A i \in 1..Len(p3) : p4[i] = p3[i]
      /\ \A i \in 1..Len(psk) : p4[Len(p3) + i] = psk[i]
  <2>1. p3 \in Seq(Byte)
    BY <1>5
  <2> QED BY <2>1, Joined
<1> HIDE DEF p4
<1> DEFINE n == Len(ssid)
           m == Len(psk)
<1>7. n \in Nat /\ m \in Nat
  OBVIOUS
<1> HIDE DEF n, m
<1>8. /\ Len(p2) = n + 2 /\ p2[1] = 1 /\ p2[2] = n
      /\ \A i \in 1..n : p2[i + 2] = ssid[i]
  BY <1>1, <1>4, <1>7, SMT DEF n
<1>9. /\ Len(p3) = n + 3 /\ p3[1] = 1 /\ p3[2] = n /\ p3[n + 3] = m
      /\ \A i \in 1..n : p3[i + 2] = ssid[i]
  BY <1>2, <1>5, <1>7, <1>8, SMT DEF m
<1>10. /\ Len(p4) = n + m + 3 /\ p4[1] = 1 /\ p4[2] = n /\ p4[n + 3] = m
       /\ \A i \in 1..n : p4[i + 2] = ssid[i]
       /\ \A i \in 1..m : p4[i + n + 3] = psk[i]
  BY <1>6, <1>7, <1>9, SMT DEF m
<1>11. WifiBytes(p4, ssid, psk)
  BY <1>6, <1>10 DEF WifiBytes, n, m
<1> QED BY <1>3, <1>11

\* A sequence found in another one is the slice at that place.
LEMMA SliceIs ==
    ASSUME NEW S, NEW p \in Seq(S), NEW x \in Seq(S), NEW k \in Nat, k + Len(x) <= Len(p),
           \A i \in 1..Len(x) : p[i + k] = x[i]
    PROVE  SubSeq(p, k + 1, k + Len(x)) = x
<1> DEFINE y == SubSeq(p, k + 1, k + Len(x))
<1>1. y \in Seq(S) /\ Len(y) = Len(x)
  OBVIOUS
<1>2. \A i \in 1..Len(x) : y[i] = x[i]
  OBVIOUS
<1> HIDE DEF y
<1>3. y = x
  BY <1>1, <1>2
<1> QED BY <1>3 DEF y

\* Bytes below 128 are UTF-8.
LEMMA AsciiIsUtf8 ==
    ASSUME NEW x \in Seq(0..127)
    PROVE  IsUtf8(x)
<1> SUFFICES ASSUME NEW i \in DOMAIN x PROVE x[i] < 128
  BY DEF IsUtf8
<1> DEFINE y == x[i]
<1>1. y \in 0..127
  BY ElementOf
<1> HIDE DEF y
<1>2. y < 128
  BY <1>1
<1> QED BY <1>2 DEF y

\* Lengths of names and passwords are bytes.
LEMMA MaxLengths == MAX_SSID \in 1..255 /\ MAX_PSK \in 1..255
  BY WireAssumption DEF Byte

\* An address that starts with ink loses only the blanks at its end.
LEMMA TrimmedAtEnd ==
    ASSUME NEW x \in Seq(Byte), x # <<>>, x[1] # 32
    PROVE  \E m \in 1..Len(x) : trim(x) = SubSeq(x, 1, m) /\ \A i \in 1..Len(x) : i > m => x[i] = 32
<1> DEFINE ink == {i \in DOMAIN x : x[i] # 32}
           first == CHOOSE i \in ink : \A j \in ink : i <= j
           last == CHOOSE i \in ink : \A j \in ink : i >= j
           L == Len(x)
           T == {L - i : i \in ink}
<1>1. L \in Nat /\ DOMAIN x = 1..L /\ L >= 1
  OBVIOUS
<1>2. ink \subseteq 1..L /\ 1 \in ink
  BY <1>1
<1>3. \A i \in 1..L : i \notin ink => x[i] = 32
  BY <1>1
<1>4. trim(x) = SubSeq(x, first, last)
  BY <1>2, Zenon DEF trim
<1> HIDE DEF ink, L
<1>5. first = 1
  <2>1. \A j \in ink : 1 <= j
    BY <1>1, <1>2
  <2>2. first \in ink /\ \A j \in ink : first <= j
    BY <1>2, <2>1
  <2> HIDE DEF first
  <2>3. first \in 1..L /\ first <= 1
    BY <1>2, <2>2
  <2> QED BY <2>3, <1>1
<1>6. last \in ink /\ \A j \in ink : last >= j
  <2>1. T \in SUBSET Nat /\ T # {}
    BY <1>1, <1>2
  <2>2. PICK t \in T : \A y \in T : t <= y
    <3> HIDE DEF T
    <3> QED BY <2>1, LeastNat
  <2>3. PICK i \in ink : t = L - i
    OBVIOUS
  <2>4. ASSUME NEW j \in ink PROVE i >= j
    <3>1. L - i <= L - j
      BY <2>2, <2>3
    <3>2. i \in 1..L /\ j \in 1..L
      BY <1>2
    <3> QED BY <3>1, <3>2, <1>1
  <2> QED BY <2>4
<1> HIDE DEF first, last
<1>7. last \in 1..L
  BY <1>2, <1>6
<1>8. ASSUME NEW i \in 1..L, i > last PROVE x[i] = 32
  <2>1. i \notin ink
    BY <1>6, <1>7, <1>8, <1>1
  <2> QED BY <2>1, <1>3
<1> QED BY <1>4, <1>5, <1>7, <1>8 DEF L

\* A string of no characters, or of blanks only.
LEMMA TrimmedAway == trim(<<>>) = <<>>
<1> DEFINE e == <<>>
<1>1. DOMAIN e = {}
  OBVIOUS
<1> HIDE DEF e
<1>2. trim(e) = <<>>
  BY <1>1 DEF trim
<1> QED BY <1>2 DEF e

\* What Command::decode makes of the bytes of an address, or of some of them.
LEMMA AddressRead ==
    ASSUME NEW u \in Seq(0..127), NEW p, p = << 9 >> \o u
    PROVE  decode(p) = IF trim(u) = <<>> \/ IsPrefix(Scheme, trim(u)) THEN WithUrl(trim(u)) ELSE Ignored
<1>1. p \in Seq(Byte) /\ Len(p) = Len(u) + 1 /\ p[1] = 9 /\ \A i \in 1..Len(u) : p[i + 1] = u[i]
  <2>1. u \in Seq(Byte)
    <3>1. 0..127 \subseteq Byte
      BY DEF Byte
    <3> QED BY <3>1, WiderSeq
  <2>2. <<9>> \in Seq(Byte)
    BY DEF Byte
  <2> QED BY <2>1, <2>2
<1>2. p # <<>> /\ 9 \in DOMAIN Opcodes /\ Opcodes[9] = "SetManifestUrl"
  BY <1>1 DEF Opcodes
<1>3. From(p, 2) = u
  BY <1>1 DEF From
<1>4. IsUtf8(u)
  BY AsciiIsUtf8
<1>5. Opcodes[9] \notin {"SetBrightness", "SetBootPolicy"}
  BY <1>2
<1> QED BY <1>1, <1>2, <1>3, <1>4, <1>5, Zenon DEF decode

\* A prefix agrees with what it begins.
LEMMA PrefixElements ==
    ASSUME NEW S, NEW s \in Seq(S), NEW t \in Seq(S), IsPrefix(s, t)
    PROVE  Len(s) <= Len(t) /\ \A i \in 1..Len(s) : s[i] = t[i]
<1>1. Len(s) <= Len(t) /\ SubSeq(s, 1, Len(s)) = SubSeq(t, 1, Len(s))
  BY DEF IsPrefix
<1>2. ASSUME NEW i \in 1..Len(s) PROVE s[i] = t[i]
  <2>1. SubSeq(s, 1, Len(s))[i] = s[i] /\ SubSeq(t, 1, Len(s))[i] = t[i]
    BY <1>1
  <2> QED BY <2>1, <1>1
<1> QED BY <1>1, <1>2

\* An address that the app lets through starts with ink and keeps its scheme
\* when the blanks at its end are gone.
LEMMA AddressTrimmed ==
    ASSUME NEW u \in Seq(0..127), IsPrefix(Scheme, u)
    PROVE  u # <<>> /\ u[1] # 32 /\ IsPrefix(Scheme, trim(u))
<1> DEFINE s == Scheme
<1>1. s \in Seq(33..127) /\ s # <<>>
  BY WireAssumption
<1>2. s \in Seq(Byte) /\ u \in Seq(Byte)
  <2>1. 0..127 \subseteq Byte /\ 33..127 \subseteq Byte
    BY DEF Byte
  <2> QED BY <1>1, <2>1, WiderSeq
<1> HIDE DEF s
<1>3. Len(s) \in Nat /\ Len(u) \in Nat /\ Len(s) >= 1
  BY <1>1
<1>4. Len(s) <= Len(u) /\ \A i \in 1..Len(s) : s[i] = u[i]
  BY <1>2, PrefixElements DEF s
<1>5. \A i \in 1..Len(s) : u[i] # 32
  <2>1. ASSUME NEW i \in 1..Len(s) PROVE u[i] # 32
    <3> DEFINE b == s[i]
    <3>1. b \in 33..127
      BY <1>1, ElementsIn
    <3>2. u[i] = b
      BY <1>4
    <3> HIDE DEF b
    <3>3. b # 32
      BY <3>1
    <3> QED BY <3>2, <3>3
  <2> QED BY <2>1
<1>6. u # <<>> /\ u[1] # 32
  BY <1>3, <1>4, <1>5
<1>7. PICK m \in 1..Len(u) : trim(u) = SubSeq(u, 1, m) /\ \A i \in 1..Len(u) : i > m => u[i] = 32
  BY <1>2, <1>6, TrimmedAtEnd
<1>8. m >= Len(s)
  <2> SUFFICES ASSUME m < Len(s) PROVE FALSE
    BY <1>3
  <2>1. Len(s) \in 1..Len(u) /\ Len(s) \in 1..Len(s) /\ Len(s) > m
    BY <1>3, <1>4
  <2> QED BY <2>1, <1>5, <1>7
<1>9. IsPrefix(s, SubSeq(u, 1, m))
  <2> DEFINE v == SubSeq(u, 1, m)
  <2>1. v \in Seq(Byte) /\ Len(v) = m /\ \A i \in 1..m : v[i] = u[i]
    BY <1>2, <1>7
  <2> HIDE DEF v
  <2>2. Len(s) <= Len(v) /\ \A i \in 1..Len(s) : s[i] = v[i]
    BY <2>1, <1>3, <1>4, <1>8
  <2>3. IsPrefix(s, v)
    BY <2>1, <2>2, <1>2, PrefixByElements
  <2> QED BY <2>3 DEF v
<1> QED BY <1>6, <1>7, <1>9 DEF s

\* A beginning of an address that starts with ink, without the blanks at its
\* end, is a beginning of that address.
LEMMA TrimmedBeginning ==
    ASSUME NEW u \in Seq(Byte), u # <<>>, u[1] # 32, NEW n \in 1..Len(u)
    PROVE  IsPrefix(trim(SubSeq(u, 1, n)), u)
<1> DEFINE v == SubSeq(u, 1, n)
<1>1. v \in Seq(Byte) /\ Len(v) = n /\ \A i \in 1..n : v[i] = u[i]
  OBVIOUS
<1> HIDE DEF v
<1>2. v # <<>> /\ v[1] # 32
  BY <1>1
<1>3. PICK m \in 1..Len(v) : trim(v) = SubSeq(v, 1, m)
  BY <1>1, <1>2, TrimmedAtEnd
<1> DEFINE w == SubSeq(v, 1, m)
<1>4. w \in Seq(Byte) /\ Len(w) = m /\ \A i \in 1..m : w[i] = v[i]
  BY <1>1, <1>3
<1> HIDE DEF w
<1>5. Len(w) <= Len(u) /\ \A i \in 1..Len(w) : w[i] = u[i]
  BY <1>1, <1>3, <1>4
<1>6. IsPrefix(w, u)
  BY <1>4, <1>5, PrefixByElements
<1> QED BY <1>3, <1>6 DEF v, w

\* A cut command is refused, or is an address of which a beginning is taken.
CutRight(c, cut) ==
    cut # Ignored => c.op = "SetManifestUrl" /\ cut.op = "SetManifestUrl" /\ IsPrefix(cut.url, c.url)

\* The first elements of a sequence.
LEMMA BeginningIs ==
    ASSUME NEW S, NEW u \in Seq(S), NEW m \in 0..Len(u)
    PROVE  /\ SubSeq(u, 1, m) \in Seq(S) /\ Len(SubSeq(u, 1, m)) = m
           /\ \A i \in 1..m : SubSeq(u, 1, m)[i] = u[i]
  OBVIOUS

\* An address arrives without the blanks around it, and cut short it is none or
\* a beginning.
LEMMA AddressArrives ==
    ASSUME NEW u \in Seq(0..127), u = <<>> \/ IsPrefix(Scheme, u), NEW c, c = WithUrl(u), NEW p, p = << 9 >> \o u
    PROVE  decode(p) = WithUrl(trim(u)) /\ \A n \in 0..(Len(p) - 1) : CutRight(c, decode(SubSeq(p, 1, n)))
<1>1. u \in Seq(Byte)
  <2>1. 0..127 \subseteq Byte
    BY DEF Byte
  <2> QED BY <2>1, WiderSeq
<1>2. p \in Seq(Byte) /\ Len(p) = Len(u) + 1 /\ p[1] = 9 /\ \A i \in 1..Len(u) : p[i + 1] = u[i]
  <2>1. <<9>> \in Seq(Byte)
    BY DEF Byte
  <2> QED BY <1>1, <2>1
<1>3. decode(p) = WithUrl(trim(u))
  <2>1. trim(u) = <<>> \/ IsPrefix(Scheme, trim(u))
    BY AddressTrimmed, TrimmedAway
  <2> QED BY <2>1, AddressRead
<1>4. ASSUME NEW n \in 0..(Len(p) - 1) PROVE CutRight(c, decode(SubSeq(p, 1, n)))
  <2> DEFINE q == SubSeq(p, 1, n)
             v == SubSeq(u, 1, n - 1)
  <2>1. CASE n = 0
    <3>1. q = <<>>
      BY <2>1, <1>2
    <3> HIDE DEF q
    <3>2. decode(q) = Ignored
      BY <3>1 DEF decode
    <3> QED BY <3>2 DEF CutRight, q
  <2>2. CASE n # 0
    <3>1. n \in 1..Len(u)
      BY <2>2, <1>2
    <3>2. v \in Seq(0..127) /\ Len(v) = n - 1 /\ \A i \in 1..(n - 1) : v[i] = u[i]
      <4>1. n - 1 \in 0..Len(u) /\ Len(u) \in Nat
        BY <3>1
      <4> QED BY <4>1, BeginningIs
    <3>3. q \in Seq(Byte) /\ Len(q) = n /\ \A i \in 1..n : q[i] = p[i]
      BY <3>1, <1>2
    <3>4. q = <<9>> \o v
      <4> DEFINE w == <<9>> \o v
      <4>1. v \in Seq(Byte)
        <5>1. 0..127 \subseteq Byte
          BY DEF Byte
        <5> HIDE DEF v
        <5> QED BY <3>2, <5>1, WiderSeq
      <4>2. w \in Seq(Byte) /\ Len(w) = n /\ w[1] = 9 /\ \A i \in 1..(n - 1) : w[i + 1] = v[i]
        <5>1. <<9>> \in Seq(Byte)
          BY DEF Byte
        <5> HIDE DEF v
        <5> QED BY <5>1, <4>1, <3>1, <3>2
      <4> HIDE DEF w, q, v
      <4>3. ASSUME NEW i \in 1..n PROVE q[i] = w[i]
        <5>1. CASE i = 1
          BY <5>1, <4>2, <3>1, <3>3, <1>2
        <5>2. CASE i # 1
          <6>1. i - 1 \in 1..(n - 1) /\ i - 1 \in 1..Len(u) /\ (i - 1) + 1 = i
            BY <5>2, <3>1
          <6>2. p[i] = u[i - 1] /\ w[i] = v[i - 1] /\ v[i - 1] = u[i - 1]
            BY <6>1, <4>2, <3>2, <1>2
          <6> QED BY <6>2, <3>3
        <5> QED BY <5>1, <5>2
      <4>4. q = w
        BY <4>2, <4>3, <3>3, <3>1
      <4> QED BY <4>4 DEF w
    <3>5. decode(q) \in {WithUrl(trim(v)), Ignored}
      <4> HIDE DEF q, v
      <4> QED BY <3>2, <3>4, AddressRead
    <3>6. IsPrefix(trim(v), u)
      <4>1. u # <<>> /\ u[1] # 32
        BY <3>1, AddressTrimmed
      <4>2. CASE n = 1
        <5>1. v = <<>>
          BY <4>2
        <5>2. IsPrefix(<<>>, u)
          BY <1>1 DEF IsPrefix
        <5> HIDE DEF v
        <5> QED BY <5>1, <5>2, TrimmedAway
      <4>3. CASE n # 1
        <5>1. n - 1 \in 1..Len(u)
          BY <3>1, <4>3
        <5> QED BY <5>1, <4>1, <1>1, TrimmedBeginning
      <4> QED BY <4>2, <4>3
    <3> HIDE DEF q, v
    <3>7. WithUrl(trim(v)).op = "SetManifestUrl" /\ WithUrl(trim(v)).url = trim(v) /\ c.op = "SetManifestUrl" /\ c.url = u
      BY DEF WithUrl
    <3>8. CutRight(c, decode(q))
      BY <3>5, <3>6, <3>7 DEF CutRight
    <3> QED BY <3>8 DEF q
  <2> QED BY <2>1, <2>2
<1> QED BY <1>3, <1>4

\* A command without an address arrives as it was sent, and is refused when it
\* was cut.
LEMMA CommandArrives ==
    ASSUME NEW k \in DOMAIN Opcodes, k # 9, NEW n \in Byte, k = 5 => n <= 2, k \notin {2, 5} => n = 0,
           NEW c, c = WithByte(Opcodes[k], n), NEW p, p = data(c)
    PROVE  decode(p) = c /\ \A m \in 0..(Len(p) - 1) : CutRight(c, decode(SubSeq(p, 1, m)))
<1>1. p = (IF k \in {2, 5} THEN <<k, n>> ELSE <<k>>) /\ k \in 1..10
  BY PayloadOf DEF Opcodes
<1>2. /\ (Opcodes[k] \in {"SetBrightness", "SetBootPolicy"}) <=> k \in {2, 5}
      /\ (Opcodes[k] = "SetBootPolicy") <=> k = 5
      /\ Opcodes[k] # "SetManifestUrl"
  BY <1>1 DEF Opcodes
<1>3. decode(<<>>) = Ignored
  BY DEF decode
<1>4. CASE k \in {2, 5}
  <2>1. p = <<k, n>> /\ p # <<>> /\ p[1] = k /\ p[2] = n /\ Len(p) = 2
    BY <1>1, <1>4
  <2>2. decode(p) = c
    <3>1. ~(Len(p) < 2) /\ ~(Opcodes[k] = "SetBootPolicy" /\ n > 2)
      BY <2>1, <1>2 DEF Byte
    <3> QED BY <2>1, <3>1, <1>2, <1>4 DEF decode
  <2>3. ASSUME NEW m \in 0..1 PROVE decode(SubSeq(p, 1, m)) = Ignored
    <3> DEFINE q == SubSeq(p, 1, m)
    <3>1. CASE m = 0
      <4>1. q = <<>>
        BY <2>1, <3>1
      <4> QED BY <4>1, <1>3
    <3>2. CASE m = 1
      <4>1. q # <<>> /\ Len(q) = 1 /\ q[1] = k
        BY <2>1, <3>2, <1>1
      <4> HIDE DEF q
      <4>2. decode(q) = Ignored
        BY <4>1, <1>2, <1>4 DEF decode
      <4> QED BY <4>2 DEF q
    <3> QED BY <3>1, <3>2
  <2> QED BY <2>1, <2>2, <2>3 DEF CutRight
<1>5. CASE k \notin {2, 5}
  <2>1. p = <<k>> /\ p # <<>> /\ p[1] = k /\ Len(p) = 1 /\ n = 0
    BY <1>1, <1>5
  <2>2. decode(p) = c
    BY <2>1, <1>2, <1>5 DEF decode
  <2>3. SubSeq(p, 1, 0) = <<>>
    BY <2>1
  <2>4. ASSUME NEW m \in 0..(Len(p) - 1) PROVE decode(SubSeq(p, 1, m)) = Ignored
    <3>1. m = 0
      BY <2>1
    <3> QED BY <3>1, <2>3, <1>3
  <2> QED BY <2>2, <2>4 DEF CutRight
<1> QED BY <1>4, <1>5

\* decode_wifi finds the name and the password that were sent, and ignores
\* every beginning of the payload.
LEMMA WifiDecoded ==
    ASSUME NEW ssid \in Seq(0..127), NEW psk \in Seq(0..127),
           Len(ssid) \in 1..MAX_SSID, Len(psk) <= MAX_PSK,
           NEW p, WifiBytes(p, ssid, psk)
    PROVE  /\ decode_wifi(p) = Credentials(ssid, psk)
           /\ \A n \in 0..(Len(p) - 1) : decode_wifi(SubSeq(p, 1, n)) = Ignored
<1> DEFINE sl == Len(ssid)
           pl == Len(psk)
<1>1. /\ p \in Seq(Byte) /\ Len(p) = sl + pl + 3
      /\ p[1] = 1 /\ p[2] = sl /\ p[sl + 3] = pl
      /\ \A i \in 1..sl : p[i + 2] = ssid[i]
      /\ \A i \in 1..pl : p[i + (sl + 3)] = psk[i]
  BY DEF WifiBytes
<1>2. sl \in Nat /\ pl \in Nat /\ sl \in 1..MAX_SSID /\ pl <= MAX_PSK
  OBVIOUS
<1>3. ssid \in Seq(Byte) /\ psk \in Seq(Byte)
  <2>1. 0..127 \subseteq Byte
    BY DEF Byte
  <2> QED BY <2>1, WiderSeq
<1>4. SubSeq(p, 3, sl + 2) = ssid
  <2>1. SubSeq(p, 2 + 1, 2 + Len(ssid)) = ssid
    BY <1>1, <1>2, <1>3, SliceIs
  <2> QED BY <2>1, <1>2
<1>5. SubSeq(p, sl + 4, sl + 3 + pl) = psk
  <2> DEFINE k == sl + 3
  <2>1. k \in Nat /\ k + Len(psk) <= Len(p) /\ \A i \in 1..Len(psk) : p[i + k] = psk[i]
    BY <1>1, <1>2
  <2>2. p \in Seq(Byte)
    BY <1>1
  <2> HIDE DEF k
  <2>3. SubSeq(p, k + 1, k + Len(psk)) = psk
    BY <2>1, <2>2, <1>3, SliceIs
  <2> QED BY <2>3, <1>2 DEF k
<1>6. IsUtf8(ssid) /\ IsUtf8(psk)
  BY AsciiIsUtf8
<1> HIDE DEF sl, pl
<1>7. decode_wifi(p) = Credentials(ssid, psk)
  <2>1. ~(Len(p) < 2 \/ p[1] # 1) /\ ~(sl \notin 1..MAX_SSID \/ Len(p) < sl + 3)
    BY <1>1, <1>2
  <2>2. ~(pl > MAX_PSK \/ Len(p) < sl + 3 + pl)
    BY <1>1, <1>2, MaxLengths
  <2> QED BY <1>1, <2>1, <2>2, <1>4, <1>5, <1>6, Zenon DEF decode_wifi
<1>8. ASSUME NEW n \in 0..(Len(p) - 1)
      PROVE  decode_wifi(SubSeq(p, 1, n)) = Ignored
  <2> DEFINE q == SubSeq(p, 1, n)
  <2>1. q \in Seq(Byte) /\ Len(q) = n /\ \A i \in 1..n : q[i] = p[i]
    <3>1. p \in Seq(Byte) /\ n \in 0..Len(p)
      BY <1>1
    <3> QED BY <3>1
  <2>2. n \in Nat /\ n < sl + pl + 3
    BY <1>1, <1>2
  <2> HIDE DEF q
  <2>3. decode_wifi(q) = Ignored
    <3>1. CASE n < 2
      BY <3>1, <2>1 DEF decode_wifi
    <3>2. CASE n >= 2 /\ n < sl + 3
      BY <3>2, <2>1, <1>1, <1>2 DEF decode_wifi
    <3>3. CASE n >= sl + 3
      <4>1. q[2] = sl /\ q[sl + 3] = pl
        BY <3>3, <2>1, <1>1, <1>2
      <4> QED BY <4>1, <3>3, <2>1, <2>2, <1>2 DEF decode_wifi
    <3> QED BY <3>1, <3>2, <3>3, <2>2, <1>2
  <2> QED BY <2>3 DEF q
<1> QED BY <1>7, <1>8

\* A payload that decode_wifi takes for credentials starts with the bytes the
\* app sends for them.
LEMMA WifiSaidInFull ==
    ASSUME NEW p \in Seq(Byte), decode_wifi(p) # Ignored
    PROVE  Fits(decode_wifi(p)) /\ IsPrefix(wifi_data(decode_wifi(p)), p)
<1> DEFINE sl == p[2]
           pl == p[sl + 3]
           ssid == SubSeq(p, 3, sl + 2)
           psk == SubSeq(p, sl + 4, sl + 3 + pl)
           d == wifi_data(Credentials(ssid, psk))
<1>0. /\ ~(Len(p) < 2) /\ p[1] = 1 /\ sl \in 1..MAX_SSID /\ ~(Len(p) < sl + 3)
      /\ ~(pl > MAX_PSK) /\ ~(Len(p) < sl + 3 + pl)
      /\ decode_wifi(p) = Credentials(ssid, psk)
  BY Zenon DEF decode_wifi
<1>2. sl \in Byte /\ sl \in Nat
  BY <1>0, MaxLengths DEF Byte
<1>3. pl \in Byte /\ pl \in Nat
  <2>1. sl + 3 \in 1..Len(p)
    BY <1>0, <1>2
  <2>2. pl \in Byte
    BY <2>1
  <2> HIDE DEF pl
  <2> QED BY <2>2 DEF Byte
<1>1. /\ Len(p) >= 2 /\ p[1] = 1 /\ sl \in 1..MAX_SSID /\ Len(p) >= sl + 3
      /\ pl <= MAX_PSK /\ Len(p) >= sl + 3 + pl
      /\ decode_wifi(p) = Credentials(ssid, psk)
  BY <1>0, <1>2, <1>3, MaxLengths
<1> HIDE DEF sl, pl
<1>4. ssid \in Seq(Byte) /\ Len(ssid) = sl /\ \A i \in 1..sl : ssid[i] = p[i + 2]
  BY <1>1, <1>2
<1>5. psk \in Seq(Byte) /\ Len(psk) = pl /\ \A i \in 1..pl : psk[i] = p[i + sl + 3]
  BY <1>1, <1>2, <1>3
<1> HIDE DEF ssid, psk
<1>6. WifiBytes(d, ssid, psk)
  BY <1>2, <1>3, <1>4, <1>5, WifiLayout
<1> HIDE DEF d
<1>7. /\ d \in Seq(Byte) /\ Len(d) = sl + pl + 3
      /\ d[1] = 1 /\ d[2] = sl /\ d[sl + 3] = pl
      /\ \A i \in 1..sl : d[i + 2] = ssid[i]
      /\ \A i \in 1..pl : d[i + sl + 3] = psk[i]
  BY <1>6, <1>4, <1>5 DEF WifiBytes
<1>8. \A i \in 1..Len(d) : d[i] = p[i]
  <2> SUFFICES ASSUME NEW i \in 1..(sl + pl + 3) PROVE d[i] = p[i]
    BY <1>7
  <2>1. CASE i \in {1, 2}
    BY <2>1, <1>1, <1>7 DEF sl
  <2>2. CASE i \in 3..(sl + 2)
    <3>1. i - 2 \in 1..sl /\ (i - 2) + 2 = i
      BY <2>2, <1>2
    <3> QED BY <3>1, <1>4, <1>7
  <2>3. CASE i = sl + 3
    BY <2>3, <1>7 DEF pl
  <2>4. CASE i \in (sl + 4)..(sl + pl + 3)
    <3>1. i - sl - 3 \in 1..pl /\ (i - sl - 3) + sl + 3 = i
      BY <2>4, <1>2, <1>3
    <3> QED BY <3>1, <1>5, <1>7
  <2> QED BY <2>1, <2>2, <2>3, <2>4, <1>2, <1>3
<1>9. IsPrefix(d, p)
  BY <1>1, <1>2, <1>3, <1>7, <1>8, PrefixByElements
<1>10. Fits(Credentials(ssid, psk))
  BY <1>1, <1>4, <1>5 DEF Fits, Credentials
<1> QED BY <1>1, <1>9, <1>10 DEF d

\* What becomes of a command on its way.
Arrives(c) ==
    /\ decode(data(c)) = IF c.op = "SetManifestUrl" THEN WithUrl(trim(c.url)) ELSE c
    /\ \A n \in 0..(Len(data(c)) - 1) : CutRight(c, decode(SubSeq(data(c), 1, n)))

\* Every command of the app arrives.
LEMMA CommandsAlwaysArrive ==
    ASSUME NEW c \in Commands
    PROVE  Arrives(c)
<1>1. ASSUME NEW k \in DOMAIN Opcodes \ {9}, NEW n \in Byte, k = 5 => n <= 2, k \notin {2, 5} => n = 0,
             c = WithByte(Opcodes[k], n)
      PROVE  Arrives(c)
  <2>1. decode(data(c)) = c /\ \A m \in 0..(Len(data(c)) - 1) : CutRight(c, decode(SubSeq(data(c), 1, m)))
    BY <1>1, CommandArrives
  <2>2. c.op # "SetManifestUrl"
    BY <1>1, PayloadOf
  <2> QED BY <2>1, <2>2 DEF Arrives
<1>2. CASE c \in {WithByte(Opcodes[k], 0) : k \in DOMAIN Opcodes \ {2, 5, 9}}
  <2>1. PICK k \in DOMAIN Opcodes \ {2, 5, 9} : c = WithByte(Opcodes[k], 0)
    BY <1>2
  <2>2. 0 \in Byte
    BY DEF Byte
  <2> QED BY <2>1, <2>2, <1>1
<1>3. CASE c \in {WithByte("SetBrightness", n) : n \in Byte}
  <2>1. PICK n \in Byte : c = WithByte("SetBrightness", n)
    BY <1>3
  <2>2. 2 \in DOMAIN Opcodes \ {9} /\ Opcodes[2] = "SetBrightness"
    BY DEF Opcodes
  <2> QED BY <2>1, <2>2, <1>1
<1>4. CASE c \in {WithByte("SetBootPolicy", n) : n \in 0..2}
  <2>1. PICK n \in 0..2 : c = WithByte("SetBootPolicy", n)
    BY <1>4
  <2>2. 5 \in DOMAIN Opcodes \ {9} /\ Opcodes[5] = "SetBootPolicy"
    BY DEF Opcodes
  <2>3. n \in Byte /\ n <= 2
    BY DEF Byte
  <2> QED BY <2>1, <2>2, <2>3, <1>1
<1>5. CASE c \in {WithUrl(u) : u \in {<<>>} \cup {v \in Addresses : IsPrefix(Scheme, v)}}
  <2>1. PICK u \in {<<>>} \cup {v \in Addresses : IsPrefix(Scheme, v)} : c = WithUrl(u)
    BY <1>5
  <2>2. u \in Seq(0..127) /\ (u = <<>> \/ IsPrefix(Scheme, u))
    <3> DEFINE A == Seq(0..127)
    <3>1. Addresses \subseteq A
      BY WireSweepAssumption
    <3>2. <<>> \in A
      OBVIOUS
    <3> HIDE DEF A
    <3>3. u \in A /\ (u = <<>> \/ IsPrefix(Scheme, u))
      BY <3>1, <3>2
    <3> QED BY <3>3 DEF A
  <2>3. c.op = "SetManifestUrl" /\ c.url = u /\ data(c) = <<9>> \o u
    BY <2>1 DEF WithUrl, data
  <2>4. decode(data(c)) = WithUrl(trim(u)) /\ \A n \in 0..(Len(data(c)) - 1) : CutRight(c, decode(SubSeq(data(c), 1, n)))
    BY <2>1, <2>2, <2>3, AddressArrives
  <2> QED BY <2>3, <2>4 DEF Arrives
<1> QED BY <1>2, <1>3, <1>4, <1>5 DEF Commands

\* The types of what is swept.
WireTypes ==
    /\ payload \in Seq(Byte) /\ command \in Commands
    /\ form \in [ssid : Seq(0..127), psk : Seq(0..127)]
    /\ status \in LiveStatus

\* They are kept.
LEMMA WireTypesInv == WireSpec => []WireTypes
<1>1. WireInit => WireTypes
  <2> SUFFICES ASSUME WireInit PROVE WireTypes
    OBVIOUS
  <2>1. payload \in Seq(Byte) /\ form.ssid \in Seq(0..127) /\ form.psk \in Seq(0..127)
    BY DEF WireInit, NoForm
  <2>2. command \in Commands
    <3>1. 3 \in DOMAIN Opcodes \ {2, 5, 9} /\ Opcodes[3] = "CheckUpdate"
      BY DEF Opcodes
    <3> QED BY <3>1, Zenon DEF WireInit, Usually, Commands
  <2> QED BY <2>1, <2>2, WireSweepAssumption DEF WireInit, WireTypes, NoForm
<1>2. WireTypes /\ [WireNext]_wireVars => WireTypes'
  <2> SUFFICES ASSUME WireTypes, [WireNext]_wireVars PROVE WireTypes'
    OBVIOUS
  <2>1. CASE Grow
    <3> DEFINE B == IF payload = <<>> THEN Openings ELSE Alphabet
    <3>1. PICK b \in B : payload' = Append(payload, b)
      BY <2>1 DEF Grow
    <3>2. b \in Byte
      BY WireSweepAssumption
    <3>3. payload' \in Seq(Byte)
      BY <3>1, <3>2 DEF WireTypes
    <3> QED BY <2>1, <3>3 DEF Grow, WireTypes
  <2>5. CASE Press
    BY <2>5 DEF Press, WireTypes
  <2>2. CASE Type
    <3>1. PICK f \in DOMAIN form, b \in Alphabet \cap 32..127 : form' = [form EXCEPT ![f] = Append(@, b)]
      BY <2>2 DEF Type
    <3>2. form.ssid \in Seq(0..127) /\ form.psk \in Seq(0..127) /\ b \in 0..127
      BY DEF WireTypes
    <3>3. Append(form.ssid, b) \in Seq(0..127) /\ Append(form.psk, b) \in Seq(0..127)
      BY <3>2
    <3>4. f \in {"ssid", "psk"}
      BY DEF WireTypes
    <3>5. form' \in [ssid : Seq(0..127), psk : Seq(0..127)]
      BY <3>1, <3>2, <3>3, <3>4 DEF WireTypes
    <3> QED BY <2>2, <3>5 DEF Type, WireTypes
  <2>3. CASE Show
    BY <2>3, WireSweepAssumption DEF Show, WireTypes
  <2>4. CASE UNCHANGED wireVars
    BY <2>4 DEF wireVars, WireTypes
  <2> QED BY <2>1, <2>2, <2>3, <2>4, <2>5 DEF WireNext
<1> QED BY <1>1, <1>2, PTL DEF WireSpec

\* For all payloads, commands, addresses and forms: no payload makes a command
\* or credentials it does not say in full (Command::decode, decode_wifi), what
\* the app sends arrives as it was meant, and what was cut short is refused, but
\* for an address, of which a beginning may be taken.
THEOREM PayloadsUnderstood == WireSpec => []DecodesWhatWasSent
<1>1. WireTypes => DecodesWhatWasSent
  <2> SUFFICES ASSUME WireTypes PROVE DecodesWhatWasSent
    OBVIOUS
  <2>1. payload \in Seq(Byte)
    BY DEF WireTypes
  <2>2. NothingGuessed
    BY <2>1, CommandSaidInFull, WifiSaidInFull DEF NothingGuessed
  <2>3. CredentialsArrive
    <3> DEFINE c == Credentials(form.ssid, form.psk)
    <3> SUFFICES ASSUME Fits(c)
                 PROVE  /\ decode_wifi(wifi_data(c)) = c
                        /\ \A n \in 0..(Len(wifi_data(c)) - 1) : decode_wifi(SubSeq(wifi_data(c), 1, n)) = Ignored
      BY DEF CredentialsArrive
    <3>1. form.ssid \in Seq(0..127) /\ form.psk \in Seq(0..127)
      BY DEF WireTypes
    <3>2. form.ssid \in Seq(Byte) /\ form.psk \in Seq(Byte)
      <4>1. 0..127 \subseteq Byte
        BY DEF Byte
      <4> QED BY <3>1, <4>1, WiderSeq
    <3>3. Len(form.ssid) \in 1..MAX_SSID /\ Len(form.psk) <= MAX_PSK
      BY DEF Fits, Credentials
    <3>4. Len(form.ssid) \in Byte /\ Len(form.psk) \in Byte
      <4> DEFINE sl == Len(form.ssid)
                 pl == Len(form.psk)
      <4>1. pl \in Nat
        BY <3>1
      <4>2. sl \in 1..MAX_SSID /\ pl <= MAX_PSK
        BY <3>3
      <4> HIDE DEF sl, pl
      <4>3. sl \in Byte /\ pl \in Byte
        BY <4>1, <4>2, MaxLengths DEF Byte
      <4> QED BY <4>3 DEF sl, pl
    <3>5. WifiBytes(wifi_data(c), form.ssid, form.psk)
      BY <3>2, <3>4, WifiLayout
    <3> QED BY <3>1, <3>3, <3>5, WifiDecoded
  <2>4. CommandsArrive
    <3>1. Arrives(command)
      BY CommandsAlwaysArrive DEF WireTypes
    <3> QED BY <3>1, Zenon DEF Arrives, CutRight, CommandsArrive
  <2> QED BY <2>2, <2>3, <2>4 DEF DecodesWhatWasSent
<1> QED BY <1>1, WireTypesInv, PTL

\* For all statuses: the app shows what the firmware encoded, each flag,
\* reading and counter from its own bytes (LiveStatus::encode, W230Protocol).
THEOREM PhoneAlwaysShowsStatus == WireSpec => []PhoneShowsStatus
<1>1. WireTypes => PhoneShowsStatus
  BY StatusShown DEF WireTypes, PhoneShowsStatus
<1> QED BY <1>1, WireTypesInv, PTL

-----------------------------------------------------------------------------
(* The K-line.                                                              *)

\* A checksum is a byte.
LEMMA ChecksumIsByte ==
    ASSUME NEW w \in Seq(Byte)
    PROVE  checksum(w) \in Byte
<1>1. w \in Seq(Nat)
  BY ByteIsNat, WiderSeq
<1>2. PICK f : IsSum(f, Len(w), w) /\ Total(w) = f[Len(w)]
  BY <1>1, TotalIsSum
<1>3. Total(w) \in Nat
  BY <1>2 DEF IsSum
<1> DEFINE m == Total(w)
<1>4. checksum(w) = m % 256
  BY DEF checksum
<1> HIDE DEF m
<1>5. m % 256 \in Nat /\ m % 256 <= 255
  BY <1>3, SMT DEF m
<1> QED BY <1>4, <1>5, ByteIsNat

\* A frame is what it is made of, then its checksum.
LEMMA WithChecksumBytes ==
    ASSUME NEW w \in Seq(Byte), NEW x, x = WithChecksum(w)
    PROVE  /\ x \in Seq(Byte) /\ Len(x) = Len(w) + 1 /\ x[Len(w) + 1] = checksum(w)
           /\ \A i \in 1..Len(w) : x[i] = w[i]
<1>1. checksum(w) \in Byte
  BY ChecksumIsByte
<1> DEFINE c == checksum(w)
<1>2. x = Append(w, c)
  BY DEF WithChecksum
<1> HIDE DEF c
<1>3. x \in Seq(Byte) /\ Len(x) = Len(w) + 1 /\ x[Len(w) + 1] = c /\ \A i \in 1..Len(w) : x[i] = w[i]
  BY <1>1, <1>2 DEF c
<1> QED BY <1>3 DEF c

\* The bytes of an answer of the ECU: format, target, source, length, payload,
\* and a checksum.
IsReply(h, p) ==
    /\ h \in Seq(Byte) /\ Len(h) = Len(p) + 5
    /\ h[1] = 128 /\ h[2] = 242 /\ h[3] = 17 /\ h[4] = Len(p)
    /\ \A i \in 1..Len(p) : h[4 + i] = p[i]

\* A payload whose length fits a byte.
Short(p) == Len(p) <= 63

\* Reply makes such an answer.
LEMMA ReplyBytes ==
    ASSUME NEW p \in Seq(Byte), Short(p)
    PROVE  IsReply(Reply(p), p)
<1> DEFINE n == Len(p)
           a == <<128, TESTER_ADDR, ECU_ADDR, n>>
           w == a \o p
           x == Reply(p)
<1>0. n \in Nat
  OBVIOUS
<1> HIDE DEF n
<1>1. n \in Byte
  <2>1. n <= 255
    BY <1>0 DEF n, Short
  <2> QED BY <1>0, <2>1, ByteIsNat
<1>2. a \in Seq(Byte) /\ Len(a) = 4 /\ a[1] = 128 /\ a[2] = 242 /\ a[3] = 17 /\ a[4] = n
  BY <1>1 DEF Byte, TESTER_ADDR, ECU_ADDR
<1> HIDE DEF a
<1>3. w \in Seq(Byte) /\ Len(w) = Len(a) + Len(p) /\ (\A i \in 1..Len(a) : w[i] = a[i])
      /\ \A i \in 1..Len(p) : w[Len(a) + i] = p[i]
  <2>1. a \in Seq(Byte) /\ p \in Seq(Byte)
    BY <1>2
  <2> QED BY <2>1, Joined
<1>4. x = WithChecksum(w)
  BY DEF Reply, n, a
<1> HIDE DEF w, x
<1>5. Len(w) = 4 + n /\ n \in Nat
  BY <1>2, <1>3 DEF n
<1>6. /\ x \in Seq(Byte) /\ Len(x) = 4 + n + 1
      /\ \A i \in 1..(4 + n) : x[i] = w[i]
  <2>1. /\ x \in Seq(Byte) /\ Len(x) = Len(w) + 1
        /\ \A i \in 1..Len(w) : x[i] = w[i]
    BY <1>3, <1>4, WithChecksumBytes, Zenon
  <2> QED BY <2>1, <1>5
<1>7. /\ \A i \in 1..4 : w[i] = a[i]
      /\ \A i \in 1..n : w[4 + i] = p[i]
  BY <1>2, <1>3 DEF n
<1>8. \A i \in 1..n : x[4 + i] = p[i]
  <2> SUFFICES ASSUME NEW i \in 1..n PROVE x[4 + i] = p[i]
    OBVIOUS
  <2>1. 4 + i \in 1..(4 + n)
    BY <1>5
  <2> QED BY <2>1, <1>6, <1>7
<1>9. x[1] = a[1] /\ x[2] = a[2] /\ x[3] = a[3] /\ x[4] = a[4]
  <2>1. 1 \in 1..(4 + n) /\ 2 \in 1..(4 + n) /\ 3 \in 1..(4 + n) /\ 4 \in 1..(4 + n)
    BY <1>5
  <2> QED BY <2>1, <1>6, <1>7
<1>10. Len(x) = n + 5
  BY <1>5, <1>6
<1> QED BY <1>2, <1>6, <1>8, <1>9, <1>10 DEF IsReply, n, x

\* The bytes of a request for a register; the checksums of the three are 169,
\* 175 and 178.
IsRead(e, reg) ==
    /\ e \in Seq(Byte) /\ Len(e) = 6
    /\ e[1] = 130 /\ e[2] = 17 /\ e[3] = 242 /\ e[4] = 33 /\ e[5] = reg
    /\ e[6] \in {169, 175, 178}

\* build_request makes such a request.
LEMMA ReadBytes ==
    ASSUME NEW reg \in Registers
    PROVE  IsRead(build_request(<<SVC_READ, reg>>), reg)
<1> DEFINE p == <<SVC_READ, reg>>
           a == <<128 + Len(p), ECU_ADDR, TESTER_ADDR>>
           w == a \o p
           x == build_request(p)
<1>1. reg \in {9, 12, 3} /\ reg \in Byte
  BY DEF Registers, REG_RPM, REG_SPEED, REG_INTERLOCK, Byte
<1>2. p \in Seq(Byte) /\ Len(p) = 2 /\ p[1] = 33 /\ p[2] = reg
  BY <1>1 DEF SVC_READ, Byte
<1>3. x = WithChecksum(w)
  BY DEF build_request
<1> HIDE DEF p
<1>4. a \in Seq(Byte) /\ Len(a) = 3 /\ a[1] = 130 /\ a[2] = 17 /\ a[3] = 242
  BY <1>2 DEF Byte, TESTER_ADDR, ECU_ADDR
<1> HIDE DEF a
<1>5. w \in Seq(Byte) /\ Len(w) = Len(a) + Len(p) /\ (\A i \in 1..Len(a) : w[i] = a[i])
      /\ \A i \in 1..Len(p) : w[Len(a) + i] = p[i]
  <2>1. a \in Seq(Byte) /\ p \in Seq(Byte)
    BY <1>2, <1>4
  <2> QED BY <2>1, Joined
<1> HIDE DEF w, x
<1>6. Len(w) = 5
  BY <1>2, <1>4, <1>5
<1>7. w[1] = 130 /\ w[2] = 17 /\ w[3] = 242 /\ w[4] = 33 /\ w[5] = reg
  BY <1>2, <1>4, <1>5
<1>8. Total(w) = 422 + reg
  <2>1. w \in Seq(Nat)
    BY <1>5, ByteIsNat, WiderSeq
  <2>2. Total(w) = w[1] + w[2] + w[3] + w[4] + w[5]
    BY <1>6, <2>1, TotalOfFive DEF HasLen
  <2> QED BY <1>1, <1>7, <2>2
<1>9. checksum(w) \in {169, 175, 178}
  BY <1>1, <1>8 DEF checksum
<1>10. x \in Seq(Byte) /\ Len(x) = 6 /\ x[6] = checksum(w) /\ \A i \in 1..5 : x[i] = w[i]
  <2>1. /\ x \in Seq(Byte) /\ Len(x) = Len(w) + 1 /\ x[Len(w) + 1] = checksum(w)
        /\ \A i \in 1..Len(w) : x[i] = w[i]
    BY <1>3, <1>5, WithChecksumBytes, Zenon
  <2>2. Len(w) + 1 = 6
    BY <1>6
  <2> QED BY <2>1, <2>2, <1>6
<1>11. x[1] = w[1] /\ x[2] = w[2] /\ x[3] = w[3] /\ x[4] = w[4] /\ x[5] = w[5]
  BY <1>10
<1> QED BY <1>7, <1>9, <1>10, <1>11 DEF IsRead, x, p

\* The j-th byte of what was left, the echo and the answer, one behind the
\* other.
At(f, e, h, j) ==
    IF j <= Len(f) THEN f[j] ELSE IF j <= Len(f) + Len(e) THEN e[j - Len(f)]
    ELSE h[j - Len(f) - Len(e)]

\* x is what is read of them after n bytes were thrown away.
LineIs(x, f, F, e, E, h, H, n) ==
    /\ x \in Seq(Byte) /\ Len(x) = F + E + H - n
    /\ \A i \in 1..(F + E + H - n) :
         x[i] = IF n + i <= F THEN f[n + i] ELSE IF n + i <= F + E THEN e[n + i - F]
                ELSE h[n + i - F - E]

\* What is left when n elements are dropped.
LEMMA DroppedBytes ==
    ASSUME NEW S, NEW q \in Seq(S), NEW n \in 0..Len(q), NEW x, x = SubSeq(q, n + 1, Len(q))
    PROVE  x \in Seq(S) /\ Len(x) = Len(q) - n /\ \A i \in 1..(Len(q) - n) : x[i] = q[n + i]
  OBVIOUS

\* The bytes of such a line,
LEMMA LineBytes ==
    ASSUME NEW f \in Seq(Byte), NEW e \in Seq(Byte), NEW h \in Seq(Byte),
           NEW n \in 0..(Len(f) + Len(e) + Len(h)),
           NEW x, x = AfterEcho(f \o e \o <<>> \o h, n)
    PROVE  LineIs(x, f, Len(f), e, Len(e), h, Len(h), n)
<1> DEFINE a == f \o e
           q == a \o h
           F == Len(f)
           E == Len(e)
           H == Len(h)
<1>1. a \in Seq(Byte) /\ Len(a) = Len(f) + Len(e) /\ (\A i \in 1..Len(f) : a[i] = f[i])
      /\ \A i \in 1..Len(e) : a[Len(f) + i] = e[i]
  BY Joined
<1>2. a \o <<>> = a
  OBVIOUS
<1>3. x = AfterEcho(q, n)
  BY <1>2
<1> HIDE DEF a
<1>4. q \in Seq(Byte) /\ Len(q) = Len(a) + Len(h) /\ (\A i \in 1..Len(a) : q[i] = a[i])
      /\ \A i \in 1..Len(h) : q[Len(a) + i] = h[i]
  <2>1. a \in Seq(Byte)
    BY <1>1
  <2> QED BY <2>1, Joined
<1>5. F \in Nat /\ E \in Nat /\ H \in Nat /\ n \in 0..(F + E + H)
  OBVIOUS
<1> HIDE DEF q
<1>6. Len(q) = F + E + H /\ n \in 0..Len(q)
  BY <1>1, <1>4, <1>5
<1>7. x \in Seq(Byte) /\ Len(x) = Len(q) - n /\ \A i \in 1..(Len(q) - n) : x[i] = q[n + i]
  <2>1. x = SubSeq(q, n + 1, Len(q))
    BY <1>3 DEF AfterEcho
  <2>2. q \in Seq(Byte) /\ n \in 0..Len(q)
    BY <1>4, <1>6
  <2> HIDE DEF F, E, H
  <2> QED BY <2>1, <2>2, DroppedBytes
<1> DEFINE Q == Len(q)
           A == Len(a)
<1>8. /\ Q = F + E + H /\ A = F + E
      /\ \A i \in 1..F : a[i] = f[i]
      /\ \A i \in 1..E : a[F + i] = e[i]
      /\ \A i \in 1..A : q[i] = a[i]
      /\ \A i \in 1..H : q[A + i] = h[i]
      /\ \A i \in 1..(Q - n) : x[i] = q[n + i]
  BY <1>1, <1>4, <1>6, <1>7
<1> HIDE DEF Q, A
<1>9. ASSUME NEW j \in 1..(F + E + H) PROVE q[j] = At(f, e, h, j)
  <2> HIDE DEF F, E, H
  <2>0. At(f, e, h, j) = IF j <= F THEN f[j] ELSE IF j <= F + E THEN e[j - F] ELSE h[j - F - E]
    BY DEF At, F, E
  <2>1. CASE j <= F
    <3>1. j \in 1..F /\ j \in 1..A
      BY <1>5, <1>8, <2>1
    <3> QED BY <3>1, <1>8, <2>0, <2>1
  <2>2. CASE ~(j <= F) /\ j <= F + E
    <3>1. j - F \in 1..E /\ j \in 1..A /\ F + (j - F) = j
      BY <1>5, <1>8, <2>2
    <3> QED BY <3>1, <1>8, <2>0, <2>2
  <2>3. CASE ~(j <= F) /\ ~(j <= F + E)
    <3>1. j - F - E \in 1..H /\ A + (j - F - E) = j
      BY <1>5, <1>8, <2>3
    <3> QED BY <3>1, <1>8, <2>0, <2>3
  <2> QED BY <2>1, <2>2, <2>3
<1>10. ASSUME NEW i \in 1..(F + E + H - n) PROVE x[i] = At(f, e, h, n + i)
  <2> HIDE DEF F, E, H
  <2>1. n + i \in 1..(F + E + H) /\ i \in 1..(Q - n)
    BY <1>5, <1>8
  <2> QED BY <2>1, <1>8, <1>9
<1>11. Len(x) = F + E + H - n
  BY <1>6, <1>7
<1>12. x \in Seq(Byte)
  BY <1>7
<1>13. \A i \in 1..(F + E + H - n) :
         x[i] = IF n + i <= F THEN f[n + i] ELSE IF n + i <= F + E THEN e[n + i - F]
                ELSE h[n + i - F - E]
  BY <1>10 DEF At
<1> QED BY <1>11, <1>12, <1>13 DEF LineIs

\* A format byte that holds the length.
LEMMA FormatByte == \A b \in Byte : LengthInFormat(b) <=> b \in 129..191
  BY SMT DEF Byte, LengthInFormat

\* parse_response on fewer bytes than the header asks for: no payload, and
\* every byte is eaten.
LEMMA Incomplete ==
    ASSUME NEW s \in Seq(Byte), NEW n, n = Len(s),
           \/ n = 0
           \/ s[1] \notin 129..191 /\ (n < 4 \/ n < 4 + s[4])
           \/ s[1] \in 129..191 /\ n < 3 + (s[1] % 64)
    PROVE  parse_response(s).payload = <<>> /\ parse_response(s).rest = <<>>
<1>1. n \in Nat /\ (n = 0 <=> s = <<>>) /\ \A i \in 1..n : s[i] \in Byte
  OBVIOUS
<1>2. CASE s = <<>>
  BY <1>2 DEF parse_response, Unparsed
<1>3. CASE s # <<>>
  <2>1. s[1] \in Byte /\ n # 0
    BY <1>1, <1>3
  <2>2. n < HeaderLen(s) \/ n < PayloadEnd(s)
    <3>1. CASE s[1] \in 129..191
      <4>0. LengthInFormat(s[1])
        BY <2>1, <3>1, FormatByte
      <4>1. PayloadEnd(s) = 3 + (s[1] % 64)
        BY <4>0 DEF PayloadEnd, HeaderLen
      <4> QED BY <4>1, <2>1, <3>1
    <3>2. CASE s[1] \notin 129..191
      <4>1. PayloadEnd(s) = 4 + s[4] /\ HeaderLen(s) = 4
        BY <2>1, <3>2, FormatByte DEF PayloadEnd, HeaderLen
      <4> QED BY <4>1, <2>1, <3>2
    <3> QED BY <3>1, <3>2
  <2>3. parse_response(s) = Unparsed("truncated")
    BY <1>3, <2>2 DEF parse_response
  <2> QED BY <2>3 DEF Unparsed
<1> QED BY <1>2, <1>3

\* parse_response on a header that says there is no payload: it takes five
\* bytes.
LEMMA EmptyFrame ==
    ASSUME NEW s \in Seq(Byte), NEW n, n = Len(s), n >= 5, s[1] \notin 129..191, s[4] = 0
    PROVE  parse_response(s).payload = <<>> /\ parse_response(s).rest = SubSeq(s, 6, n)
<1>1. n \in Nat /\ s # <<>> /\ s[1] \in Byte
  OBVIOUS
<1>2. HeaderLen(s) = 4 /\ PayloadEnd(s) = 4
  <2>1. ~LengthInFormat(s[1])
    BY <1>1, FormatByte
  <2>2. 4 + s[4] = 4
    OBVIOUS
  <2> QED BY <2>1, <2>2, Zenon DEF PayloadEnd, HeaderLen
<1>3. ~(n < HeaderLen(s) \/ n < PayloadEnd(s)) /\ n > PayloadEnd(s)
  <2>1. \A m \in Nat : m >= 5 => ~(m < 4) /\ m > 4
    OBVIOUS
  <2>2. ~(n < 4) /\ n > 4
    BY <1>1, <2>1
  <2> QED BY <1>2, <2>2, Zenon
<1> DEFINE raw == SubSeq(s, 1, 5)
           r == SubSeq(s, 6, n)
<1>4. Len(raw) = 5 /\ SubSeq(s, 5, 4) = <<>>
  BY <1>1
<1>5. \/ parse_response(s) = [Unparsed("heldLow") EXCEPT !.rest = r]
      \/ /\ parse_response(s).payload = SubSeq(s, 5, 4)
         /\ parse_response(s).rest = r
  BY <1>1, <1>2, <1>3, <1>4 DEF parse_response
<1> HIDE DEF r
<1> QED BY <1>4, <1>5 DEF Unparsed, r

\* parse_response on an answer and nothing else: its payload, and no byte is
\* left.
LEMMA ExactFrame ==
    ASSUME NEW p \in Seq(Byte), NEW x, IsReply(x, p), p # <<>>
    PROVE  parse_response(x).payload = p /\ parse_response(x).rest = <<>>
<1> DEFINE m == Len(p)
           n == Len(x)
<1>1. m \in Nat /\ m # 0
  OBVIOUS
<1>2. x \in Seq(Byte) /\ n = m + 5 /\ x[1] = 128 /\ x[4] = m /\ \A i \in 1..m : x[4 + i] = p[i]
  BY DEF IsReply
<1>3. HeaderLen(x) = 4 /\ PayloadEnd(x) = 4 + m
  <2>1. ~LengthInFormat(128)
    BY FormatByte DEF Byte
  <2> QED BY <1>2, <2>1, Zenon DEF PayloadEnd, HeaderLen
<1>4. ~(n < HeaderLen(x) \/ n < PayloadEnd(x)) /\ n > PayloadEnd(x) /\ x # <<>>
  <2>1. x # <<>>
    BY <1>1, <1>2
  <2> HIDE DEF m, n
  <2>2. ~(n < 4) /\ ~(n < 4 + m) /\ n > 4 + m
    BY <1>1, <1>2
  <2> QED BY <2>1, <2>2, <1>3, Zenon
<1> DEFINE raw == SubSeq(x, 1, (4 + m) + 1)
<1>5. raw = x
  BY <1>1, <1>2
<1>6. SubSeq(x, Len(x) + 1, Len(x)) = <<>>
  BY <1>2
<1>7. SubSeq(x, 4 + 1, 4 + m) = p
  <2> DEFINE y == SubSeq(x, 5, 4 + m)
  <2>1. y \in Seq(Byte) /\ Len(y) = m /\ \A i \in 1..m : y[i] = x[4 + i]
    BY <1>1, <1>2
  <2> HIDE DEF y
  <2>2. \A i \in 1..m : y[i] = p[i]
    BY <1>2, <2>1
  <2>3. y = p
    BY <2>1, <2>2
  <2> QED BY <2>3 DEF y
<1>8. ~ \A i \in DOMAIN x : x[i] = 0
  <2>1. 1 \in DOMAIN x
    BY <1>1, <1>2
  <2> QED BY <1>2, <2>1
<1> HIDE DEF m, raw, n
<1>9. /\ parse_response(x).payload = SubSeq(x, 4 + 1, 4 + m)
      /\ parse_response(x).rest = SubSeq(x, Len(x) + 1, Len(x))
  BY <1>3, <1>4, <1>5, <1>8 DEF parse_response, raw, n
<1> QED BY <1>6, <1>7, <1>9

\* A sequence of n bytes.
Bytes(s, n) == s \in Seq(Byte) /\ Len(s) = n

\* with the lengths by name.
LEMMA LineOf ==
    ASSUME NEW f, NEW e, NEW h, NEW F \in Nat, NEW E \in Nat, NEW H \in Nat,
           Bytes(f, F), Bytes(e, E), Bytes(h, H), NEW n \in 0..(F + E + H),
           NEW x, x = AfterEcho(f \o e \o <<>> \o h, n)
    PROVE  LineIs(x, f, F, e, E, h, H, n)
<1>1. f \in Seq(Byte) /\ e \in Seq(Byte) /\ h \in Seq(Byte)
  BY DEF Bytes
<1>2. Len(f) = F /\ Len(e) = E /\ Len(h) = H
  BY DEF Bytes
<1>3. n \in 0..(Len(f) + Len(e) + Len(h))
  BY <1>2, Zenon
<1>4. LineIs(x, f, Len(f), e, Len(e), h, Len(h), n)
  BY <1>1, <1>3, LineBytes
<1> QED BY <1>2, <1>4, Zenon

\* A line that is read to its end for nothing.
Nothing(x) == parse_response(x).payload = <<>> /\ parse_response(x).rest = <<>>

\* What may be left in the FIFO, by its length: after six bytes were taken for
\* an echo, the seventh is not a format byte with a length in it.
Shape(f, k) ==
    /\ Bytes(f, k)
    /\ k > 6 => f[7] \notin 129..191
    /\ k = 10 => f[10] = 0

\* One of these lengths is left in f.
Left(f, ks) == \E k \in ks : Shape(f, k)

\* What matters of an answer that is read out of step: its address bytes, its
\* service byte and its seventh byte.
IsAnswer(h, H) ==
    /\ Bytes(h, H)
    /\ h[1] = 128 /\ h[2] = 242 /\ h[3] = 17 /\ h[5] \in {97, 127} /\ h[7] \notin 129..191

\* N bytes are fewer than their header asks for.
TooShort(x, N) ==
    \/ N = 0
    \/ x[1] \notin 129..191 /\ (N < 4 \/ N < 4 + x[4])
    \/ x[1] \in 129..191 /\ N < 3 + (x[1] % 64)

\* Such a line is read for nothing.
LEMMA TooShortIsNothing ==
    ASSUME NEW x, NEW N, Bytes(x, N), TooShort(x, N)
    PROVE  Nothing(x)
<1>1. x \in Seq(Byte) /\ N = Len(x)
  BY DEF Bytes
<1> QED BY <1>1, Incomplete DEF TooShort, Nothing

\* The echo of a request for a register,
Echo(e) ==
    /\ Bytes(e, 6)
    /\ e[1] = 130 /\ e[2] = 17 /\ e[3] = 242 /\ e[4] = 33 /\ e[5] \in {3, 9, 12}
    /\ e[6] \in {169, 175, 178}

\* the same without its first byte,
EchoShort(e) ==
    /\ Bytes(e, 5)
    /\ e[1] = 17 /\ e[2] = 242 /\ e[3] = 33 /\ e[4] \in {3, 9, 12} /\ e[5] \in {169, 175, 178}

\* and with noise before it.
EchoNoisy(e) ==
    /\ Bytes(e, 7)
    /\ e[1] = 255 /\ e[2] = 130 /\ e[3] = 17 /\ e[4] = 242 /\ e[5] = 33 /\ e[6] \in {3, 9, 12}
    /\ e[7] \in {169, 175, 178}

\* A request for a register comes back as such an echo.
LEMMA ReadIsBytes ==
    ASSUME NEW e, NEW reg \in Registers, IsRead(e, reg)
    PROVE  Echo(e)
  BY DEF Echo, IsRead, Bytes, Registers, REG_RPM, REG_SPEED, REG_INTERLOCK

\* What is heard of an answer, be it whole, cut short, or with a byte lost or
\* gained: few bytes, of which the first two are large, and not more than one
\* beyond the frame that its fourth byte, or its third, gives the length of.
IsHeard(g, G) ==
    /\ G \in 0..10 /\ Bytes(g, G)
    /\ G >= 1 => g[1] >= 128 /\ g[1] \notin 129..191
    /\ G >= 2 => g[2] >= 17
    /\ G >= 3 => g[3] >= 17 \/ G = g[3] + 4
    /\ G >= 4 => g[4] >= 17 \/ G <= g[4] + 6

\* y is h without its i-th byte.
Without(y, h, H, i) ==
    /\ Bytes(y, H - 1)
    /\ \A j \in 1..(H - 1) : y[j] = IF j < i THEN h[j] ELSE h[j + 1]

\* y is h with noise behind its i-th byte.
WithNoise(y, h, H, i) ==
    /\ Bytes(y, H + 1)
    /\ \A j \in 1..(H + 1) : y[j] = IF j <= i THEN h[j] ELSE IF j = i + 1 THEN 255 ELSE h[j - 1]

\* y is the first i bytes of h,
FirstBytes(y, h, i) == Bytes(y, i) /\ \A j \in 1..i : y[j] = h[j]

\* the bytes of h behind the i-th,
LastBytes(y, h, H, i) == Bytes(y, H - i) /\ \A j \in 1..(H - i) : y[j] = h[i + j]

\* f and then g.
Pair(y, f, F, g, G) ==
    /\ Bytes(y, F + G) /\ \A j \in 1..F : y[j] = f[j]
    /\ \A j \in 1..G : y[F + j] = g[j]

\* What SubSeq takes from the front,
LEMMA CutBytes ==
    ASSUME NEW H \in Nat, NEW h, Bytes(h, H), NEW i \in 0..H, NEW y, y = SubSeq(h, 1, i)
    PROVE  FirstBytes(y, h, i)
  BY DEF Bytes, FirstBytes

\* and from the back.
LEMMA RestBytes ==
    ASSUME NEW H \in Nat, NEW h, Bytes(h, H), NEW i \in 0..H, NEW y, y = SubSeq(h, i + 1, Len(h))
    PROVE  LastBytes(y, h, H, i)
  BY DEF Bytes, LastBytes

\* Two pieces joined, with the lengths by name.
LEMMA JoinedBytes ==
    ASSUME NEW F \in Nat, NEW f, Bytes(f, F), NEW G \in Nat, NEW g, Bytes(g, G), NEW y, y = f \o g
    PROVE  Pair(y, f, F, g, G)
<1>1. f \in Seq(Byte) /\ g \in Seq(Byte)
  BY DEF Bytes
<1>2. y \in Seq(Byte) /\ Len(y) = Len(f) + Len(g) /\ (\A i \in 1..Len(f) : y[i] = f[i])
      /\ \A i \in 1..Len(g) : y[Len(f) + i] = g[i]
  BY <1>1, Joined
<1>3. Len(f) = F /\ Len(g) = G
  BY DEF Bytes
<1> QED BY <1>2, <1>3 DEF Bytes, Pair

\* A byte is lost,
LEMMA WithoutBytes ==
    ASSUME NEW H \in Nat, NEW h, Bytes(h, H), NEW i \in 1..H,
           NEW y, y = SubSeq(h, 1, i - 1) \o SubSeq(h, i + 1, Len(h))
    PROVE  Without(y, h, H, i)
<1> DEFINE a == SubSeq(h, 1, i - 1)
           b == SubSeq(h, i + 1, Len(h))
<1>1. i - 1 \in 0..H /\ i \in 0..H
  OBVIOUS
<1>4. y = a \o b
  OBVIOUS
<1>2. Bytes(a, i - 1) /\ \A j \in 1..(i - 1) : a[j] = h[j]
  <2>1. FirstBytes(a, h, i - 1)
    BY <1>1, CutBytes
  <2> QED BY <2>1 DEF FirstBytes
<1>3. Bytes(b, H - i) /\ \A j \in 1..(H - i) : b[j] = h[i + j]
  <2>1. LastBytes(b, h, H, i)
    BY <1>1, RestBytes
  <2> QED BY <2>1 DEF LastBytes
<1> HIDE DEF a, b
<1> DEFINE A == i - 1
           B == H - i
<1>5. A \in Nat /\ B \in Nat /\ Bytes(a, A) /\ Bytes(b, B)
  BY <1>2, <1>3
<1> HIDE DEF A, B
<1>6. /\ Bytes(y, A + B) /\ (\A j \in 1..A : y[j] = a[j])
      /\ \A j \in 1..B : y[A + j] = b[j]
  <2>1. Pair(y, a, A, b, B)
    BY <1>4, <1>5, JoinedBytes
  <2> QED BY <2>1 DEF Pair
<1>7. Bytes(y, H - 1)
  <2>1. A + B = H - 1
    BY DEF A, B
  <2> QED BY <2>1, <1>6
<1>8. ASSUME NEW j \in 1..(H - 1) PROVE y[j] = IF j < i THEN h[j] ELSE h[j + 1]
  <2>1. CASE j < i
    <3>1. j \in 1..A /\ j \in 1..(i - 1)
      BY <2>1 DEF A
    <3> QED BY <3>1, <2>1, <1>2, <1>6
  <2>2. CASE ~(j < i)
    <3>1. j - A \in 1..B /\ j - A \in 1..(H - i) /\ A + (j - A) = j /\ i + (j - A) = j + 1
      BY <2>2 DEF A, B
    <3>2. y[A + (j - A)] = b[j - A] /\ b[j - A] = h[i + (j - A)]
      BY <3>1, <1>3, <1>6
    <3> QED BY <3>1, <3>2, <2>2
  <2> QED BY <2>1, <2>2
<1> QED BY <1>7, <1>8 DEF Without

\* or one comes in.
LEMMA WithNoiseBytes ==
    ASSUME NEW H \in Nat, NEW h, Bytes(h, H), NEW i \in 0..H,
           NEW y, y = SubSeq(h, 1, i) \o << 255 >> \o SubSeq(h, i + 1, Len(h))
    PROVE  WithNoise(y, h, H, i)
<1> DEFINE a == SubSeq(h, 1, i)
           b == SubSeq(h, i + 1, Len(h))
           c == << 255 >>
           d == a \o c
<1>1. Bytes(a, i) /\ \A j \in 1..i : a[j] = h[j]
  <2>1. FirstBytes(a, h, i)
    BY CutBytes
  <2> QED BY <2>1 DEF FirstBytes
<1>2. Bytes(b, H - i) /\ \A j \in 1..(H - i) : b[j] = h[i + j]
  <2>1. LastBytes(b, h, H, i)
    BY RestBytes
  <2> QED BY <2>1 DEF LastBytes
<1>3. Bytes(c, 1) /\ c[1] = 255
  BY DEF Bytes, Byte
<1>4. y = d \o b
  OBVIOUS
<1> HIDE DEF a, b, c
<1>5. /\ Bytes(d, i + 1) /\ (\A j \in 1..i : d[j] = a[j])
      /\ \A j \in 1..1 : d[i + j] = c[j]
  <2>1. i \in Nat /\ 1 \in Nat
    OBVIOUS
  <2>3. d = a \o c
    OBVIOUS
  <2> HIDE DEF d
  <2>4. Bytes(a, i) /\ Bytes(c, 1)
    BY <1>1, <1>3
  <2>2. Pair(d, a, i, c, 1)
    BY <2>1, <2>3, <2>4, JoinedBytes
  <2> QED BY <2>2 DEF Pair
<1> HIDE DEF d
<1>6. d[i + 1] = 255
  <2>1. 1 \in 1..1
    OBVIOUS
  <2>2. d[i + 1] = c[1]
    BY <2>1, <1>5
  <2> QED BY <2>2, <1>3
<1> DEFINE A == i + 1
           B == H - i
<1>7. A \in Nat /\ B \in Nat /\ Bytes(d, A) /\ Bytes(b, B)
  BY <1>2, <1>5
<1> HIDE DEF A, B
<1>8. /\ Bytes(y, A + B) /\ (\A j \in 1..A : y[j] = d[j])
      /\ \A j \in 1..B : y[A + j] = b[j]
  <2>1. Pair(y, d, A, b, B)
    BY <1>4, <1>7, JoinedBytes
  <2> QED BY <2>1 DEF Pair
<1>9. Bytes(y, H + 1)
  <2>1. A + B = H + 1
    BY DEF A, B
  <2> QED BY <2>1, <1>8
<1>10. ASSUME NEW j \in 1..(H + 1)
       PROVE  y[j] = IF j <= i THEN h[j] ELSE IF j = i + 1 THEN 255 ELSE h[j - 1]
  <2>1. CASE j <= i
    <3>1. j \in 1..A /\ j \in 1..i
      BY <2>1 DEF A
    <3> QED BY <3>1, <2>1, <1>1, <1>5, <1>8
  <2>2. CASE j = i + 1
    <3>1. j \in 1..A /\ ~(j <= i)
      BY <2>2 DEF A
    <3> QED BY <3>1, <2>2, <1>6, <1>8
  <2>3. CASE ~(j <= i) /\ j # i + 1
    <3>1. j - A \in 1..B /\ j - A \in 1..(H - i) /\ A + (j - A) = j /\ i + (j - A) = j - 1
      BY <2>3 DEF A, B
    <3>2. y[A + (j - A)] = b[j - A] /\ b[j - A] = h[i + (j - A)]
      BY <3>1, <1>2, <1>8
    <3> QED BY <3>1, <3>2, <2>3
  <2> QED BY <2>1, <2>2, <2>3
<1> QED BY <1>9, <1>10 DEF WithNoise

\* The answers of the ECU that a read or the handshake waits for.
Awaited(h, H, p) ==
    /\ H \in 7..9 /\ Bytes(h, H) /\ IsReply(h, p) /\ p \in Seq(Byte) /\ p # <<>>
    /\ h[5] >= 17

\* What is heard of such an answer.
LEMMA HeardOfAnswer ==
    ASSUME NEW H, NEW h, NEW p, Awaited(h, H, p),
           NEW g, g = h \/ g \in CutShort(h) \/ g \in Garbled(h)
    PROVE  \E G : IsHeard(g, G)
<1> DEFINE m == Len(p)
<1>1. /\ H \in 7..9 /\ Bytes(h, H) /\ H = m + 5 /\ m \in Nat
      /\ h[1] = 128 /\ h[2] = 242 /\ h[3] = 17 /\ h[4] = m /\ h[5] >= 17
  BY DEF Awaited, IsReply, Bytes
<1> HIDE DEF m
<1>2. Len(h) = H /\ DOMAIN h = 1..H /\ H \in Nat
  BY <1>1 DEF Bytes
<1>3. CASE g = h
  <2>1. IsHeard(g, H)
    BY <1>1, <1>3 DEF IsHeard
  <2> QED BY <2>1
<1>4. CASE g \in CutShort(h)
  <2>1. PICK n \in 0..(H - 1) : g = SubSeq(h, 1, n)
    BY <1>2, <1>4 DEF CutShort
  <2>2. n \in 0..H
    BY <1>2
  <2>3. Bytes(g, n) /\ \A j \in 1..n : g[j] = h[j]
    <3>1. FirstBytes(g, h, n)
      BY <1>1, <1>2, <2>1, <2>2, CutBytes, ZenonT(60)
    <3> QED BY <3>1 DEF FirstBytes
  <2>4. IsHeard(g, n)
    BY <1>1, <2>3 DEF IsHeard
  <2> QED BY <2>4
<1>5. CASE \E i \in 1..H : g = SubSeq(h, 1, i - 1) \o SubSeq(h, i + 1, Len(h))
  <2>1. PICK i \in 1..H : g = SubSeq(h, 1, i - 1) \o SubSeq(h, i + 1, Len(h))
    BY <1>5
  <2>2. Without(g, h, H, i)
    BY <1>1, <1>2, <2>1, WithoutBytes
  <2>3. Bytes(g, H - 1) /\ \A j \in 1..(H - 1) : g[j] = IF j < i THEN h[j] ELSE h[j + 1]
    BY <2>2 DEF Without
  <2>4. g[1] \in {128, 242}
    BY <1>1, <2>3
  <2>5. g[2] \in {242, 17}
    BY <1>1, <2>3
  <2>6. g[3] = 17 \/ g[3] = m
    BY <1>1, <2>3
  <2>7. g[4] = m \/ g[4] >= 17
    BY <1>1, <2>3
  <2>8. H - 1 = m + 4 /\ H - 1 \in 0..10
    BY <1>1
  <2>9. IsHeard(g, H - 1)
    BY <2>3, <2>4, <2>5, <2>6, <2>7, <2>8, <1>1 DEF IsHeard
  <2> QED BY <2>9
<1>6. CASE \E i \in 0..H : g = SubSeq(h, 1, i) \o << 255 >> \o SubSeq(h, i + 1, Len(h))
  <2>1. PICK i \in 0..H : g = SubSeq(h, 1, i) \o << 255 >> \o SubSeq(h, i + 1, Len(h))
    BY <1>6
  <2>2. WithNoise(g, h, H, i)
    BY <1>1, <1>2, <2>1, WithNoiseBytes
  <2>3. /\ Bytes(g, H + 1)
        /\ \A j \in 1..(H + 1) : g[j] = IF j <= i THEN h[j] ELSE IF j = i + 1 THEN 255 ELSE h[j - 1]
    BY <2>2 DEF WithNoise
  <2>4. g[1] \in {128, 255}
    BY <1>1, <2>3
  <2>5. g[2] \in {128, 242, 255}
    BY <1>1, <2>3
  <2>6. g[3] \in {242, 17, 255}
    BY <1>1, <2>3
  <2>7. g[4] = m \/ g[4] \in {17, 255}
    BY <1>1, <2>3
  <2>8. H + 1 = m + 6 /\ H + 1 \in 0..10
    BY <1>1
  <2>9. IsHeard(g, H + 1)
    BY <2>3, <2>4, <2>5, <2>6, <2>7, <2>8, <1>1 DEF IsHeard
  <2> QED BY <2>9
<1> QED BY <1>2, <1>3, <1>4, <1>5, <1>6, Zenon DEF Garbled, Noise

\* parse_response leaves at most one byte of a line that is at most one byte
\* longer than its frame.
LEMMA FrameLeavesOne ==
    ASSUME NEW s \in Seq(Byte), NEW n, n = Len(s), n >= 4, s[1] \notin 129..191, n <= s[4] + 6
    PROVE  Left(parse_response(s).rest, {0, 1})
<1> DEFINE b == s[4]
           m == IF n > 4 + b THEN 4 + b + 1 ELSE n
           raw == SubSeq(s, 1, m)
           y == SubSeq(s, Len(raw) + 1, n)
<1>0. n \in Nat /\ s # <<>> /\ \A i \in 1..n : s[i] \in Byte
  OBVIOUS
<1>1. n \in Nat /\ s # <<>> /\ s[1] \in Byte /\ b \in Nat /\ n <= b + 6
  <2>1. s[1] \in Byte /\ s[4] \in Byte
    BY <1>0
  <2> QED BY <1>0, <2>1, ByteIsNat
<1>2. HeaderLen(s) = 4 /\ PayloadEnd(s) = 4 + b
  <2>1. ~LengthInFormat(s[1])
    BY <1>1, FormatByte
  <2> QED BY <2>1, Zenon DEF PayloadEnd, HeaderLen
<1>3. CASE n < 4 + b
  <2>1. parse_response(s).rest = <<>>
    BY <1>3, Incomplete
  <2>2. Shape(<<>>, 0)
    BY DEF Shape, Bytes
  <2> QED BY <2>1, <2>2 DEF Left
<1>4. CASE ~(n < 4 + b)
  <2>0. ~(n < 4)
    BY <1>1
  <2>1. m \in 0..n /\ n - m \in {0, 1}
    <3> HIDE DEF b
    <3>1. n \in {b + 4, b + 5, b + 6}
      BY <1>1, <1>4
    <3>2. CASE n = b + 4
      <4>1. m = n
        BY <3>2, <1>1
      <4> QED BY <4>1, <1>1
    <3>3. CASE n = b + 5 \/ n = b + 6
      <4>1. m = b + 5
        BY <3>3, <1>1
      <4> HIDE DEF m
      <4> QED BY <4>1, <3>3, <1>1
    <3> QED BY <3>1, <3>2, <3>3
  <2>2. Len(raw) = m
    BY <2>1
  <2>3. y \in Seq(Byte) /\ Len(y) = n - m
    <3>1. y = SubSeq(s, m + 1, Len(s))
      BY <2>2
    <3> HIDE DEF y, m
    <3> QED BY <3>1, <2>1, DroppedBytes
  <2>4. parse_response(s).rest = y
    <3> HIDE DEF b
    <3>1. m = IF Len(s) > PayloadEnd(s) THEN PayloadEnd(s) + 1 ELSE Len(s)
      BY <1>2
    <3> HIDE DEF m
    <3>2. \/ parse_response(s) = [Unparsed("heldLow") EXCEPT !.rest = y]
          \/ parse_response(s).rest = y
      BY <1>1, <1>2, <1>4, <2>0, <3>1 DEF parse_response
    <3> HIDE DEF y
    <3> QED BY <3>2 DEF Unparsed
  <2> HIDE DEF y, m
  <2>5. PICK l \in {0, 1} : l = n - m
    BY <2>1
  <2>6. Shape(y, l)
    <3>1. Bytes(y, l)
      BY <2>3, <2>5 DEF Bytes
    <3> QED BY <3>1 DEF Shape
  <2> QED BY <2>4, <2>6 DEF Left
<1> QED BY <1>3, <1>4

\* Bytes left in the FIFO put the reader out of step, and then an answer is
\* read for nothing, be it whole or damaged: what stands where the length
\* should be is an address, a checksum or a service, all too large.
LEMMA HeardOutOfStep ==
    ASSUME NEW k \in {1, 2, 3, 4, 8, 9}, NEW f, Shape(f, k),
           NEW e, Echo(e), NEW g, NEW G, IsHeard(g, G),
           NEW x, x = AfterEcho(f \o e \o <<>> \o g, 6)
    PROVE  Nothing(x)
<1> DEFINE N == k + 6 + G - 6
<1>0. /\ G \in 0..10 /\ Bytes(g, G)
      /\ G >= 1 => g[1] >= 128
      /\ G >= 2 => g[2] >= 17
  BY DEF IsHeard
<1>1. Bytes(f, k) /\ Bytes(e, 6) /\ (k > 6 => f[7] \notin 129..191)
  BY DEF Shape, Echo
<1>2. k \in Nat /\ G \in Nat /\ 6 \in 0..(k + 6 + G)
  BY <1>0
<1>3. /\ Bytes(x, N)
      /\ \A i \in 1..N :
           x[i] = IF 6 + i <= k THEN f[6 + i] ELSE IF 6 + i <= k + 6 THEN e[6 + i - k]
                  ELSE g[6 + i - k - 6]
  <2>1. LineIs(x, f, k, e, 6, g, G, 6)
    BY <1>0, <1>1, <1>2, LineOf
  <2> QED BY <2>1, Zenon DEF LineIs, Bytes
<1> HIDE DEF N
<1>4. N = k + 6 + G - 6
  BY DEF N
<1> SUFFICES TooShort(x, N)
  BY <1>3, TooShortIsNothing
<1>5. /\ e[1] = 130 /\ e[2] = 17 /\ e[3] = 242 /\ e[4] = 33 /\ e[5] \in {3, 9, 12}
      /\ e[6] \in {169, 175, 178}
  BY DEF Echo
<1>6. CASE k = 1
  <2>1. x[1] = e[6]
    BY <1>0, <1>3, <1>4, <1>6
  <2> QED BY <2>1, <1>0, <1>4, <1>5, <1>6 DEF TooShort
<1>7. CASE k = 2
  <2>1. x[1] = e[5]
    BY <1>0, <1>3, <1>4, <1>7
  <2>2. CASE G < 2
    BY <2>1, <2>2, <1>0, <1>4, <1>5, <1>7 DEF TooShort
  <2>3. CASE ~(G < 2)
    <3>1. x[4] = g[2]
      <4>1. N = 2 + G /\ 4 \in 1..N
        BY <2>3, <1>0, <1>4, <1>7
      <4>2. x[4] = g[6 + 4 - 2 - 6]
        BY <4>1, <1>2, <1>3, <1>7
      <4> QED BY <4>2
    <3>2. g[2] \in Byte /\ g[2] >= 17
      BY <2>3, <1>0 DEF Bytes
    <3>3. x[4] \in Nat /\ x[4] >= 17
      BY <3>1, <3>2, ByteIsNat
    <3>4. N < 4 + x[4] /\ x[1] \notin 129..191
      BY <2>1, <3>3, <1>0, <1>4, <1>5, <1>7
    <3> QED BY <3>4 DEF TooShort
  <2> QED BY <2>2, <2>3
<1>8. CASE k = 3
  <2>1. x[1] = e[4]
    BY <1>0, <1>3, <1>4, <1>8
  <2>2. CASE G < 1
    BY <2>1, <2>2, <1>0, <1>4, <1>5, <1>8 DEF TooShort
  <2>3. CASE ~(G < 1)
    <3>1. x[4] = g[1]
      <4>1. N = 3 + G /\ 4 \in 1..N
        BY <2>3, <1>0, <1>4, <1>8
      <4>2. x[4] = g[6 + 4 - 3 - 6]
        BY <4>1, <1>2, <1>3, <1>8
      <4> QED BY <4>2
    <3>2. g[1] \in Byte /\ g[1] >= 17
      <4>1. g[1] \in Byte
        BY <2>3, <1>0 DEF Bytes
      <4>2. g[1] \in Nat
        BY <4>1, ByteIsNat
      <4>3. G >= 1
        BY <2>3, <1>0
      <4>4. g[1] >= 128
        BY <4>3, <1>0
      <4> QED BY <4>1, <4>2, <4>4
    <3>3. x[4] \in Nat /\ x[4] >= 17
      BY <3>1, <3>2, ByteIsNat
    <3>4. N < 4 + x[4] /\ x[1] \notin 129..191
      BY <2>1, <3>3, <1>0, <1>4, <1>5, <1>8
    <3> QED BY <3>4 DEF TooShort
  <2> QED BY <2>2, <2>3
<1>9. CASE k = 4
  <2>1. x[1] = e[3] /\ x[4] = e[6]
    BY <1>0, <1>3, <1>4, <1>9
  <2> QED BY <2>1, <1>0, <1>4, <1>5, <1>9 DEF TooShort
<1>10. CASE k = 8
  <2>1. x[1] = f[7] /\ x[4] = e[2]
    BY <1>0, <1>3, <1>4, <1>10
  <2> QED BY <2>1, <1>0, <1>1, <1>4, <1>5, <1>10 DEF TooShort
<1>11. CASE k = 9
  <2>1. x[1] = f[7] /\ x[4] = e[1]
    BY <1>0, <1>3, <1>4, <1>11
  <2> QED BY <2>1, <1>0, <1>1, <1>4, <1>5, <1>11 DEF TooShort
<1> QED BY <1>6, <1>7, <1>8, <1>9, <1>10, <1>11

\* With nothing left the answer is all that is read.
LEMMA HeardAlone ==
    ASSUME NEW f, Bytes(f, 0), NEW n \in {5, 6}, NEW e, Bytes(e, n), NEW G \in Nat, NEW g, Bytes(g, G),
           NEW x, x = AfterEcho(f \o e \o <<>> \o g, n)
    PROVE  x = g
<1>1. n \in Nat /\ 0 \in Nat /\ n \in 0..(0 + n + G) /\ 0 + n + G - n = G
  OBVIOUS
<1>2. LineIs(x, f, 0, e, n, g, G, n)
  BY <1>1, LineOf
<1>3. /\ Bytes(x, 0 + n + G - n)
      /\ \A i \in 1..(0 + n + G - n) :
           x[i] = IF n + i <= 0 THEN f[n + i] ELSE IF n + i <= 0 + n THEN e[n + i - 0]
                  ELSE g[n + i - 0 - n]
  BY <1>2, Zenon DEF LineIs, Bytes
<1>4. ASSUME NEW i \in 1..G PROVE x[i] = g[i]
  <2>1. ~(n + i <= 0) /\ ~(n + i <= 0 + n) /\ n + i - 0 - n = i /\ i \in 1..(0 + n + G - n)
    OBVIOUS
  <2> QED BY <2>1, <1>3
<1>5. Bytes(x, G)
  BY <1>1, <1>3
<1> QED BY <1>4, <1>5 DEF Bytes

\* A damaged answer that is read in step leaves one byte at most,
LEMMA HeardLeavesOne ==
    ASSUME NEW g, NEW G, IsHeard(g, G)
    PROVE  Left(parse_response(g).rest, {0, 1})
<1>1. /\ G \in 0..10 /\ Bytes(g, G)
      /\ G >= 1 => g[1] \notin 129..191
      /\ G >= 4 => g[4] >= 17 \/ G <= g[4] + 6
  BY DEF IsHeard
<1>2. g \in Seq(Byte) /\ Len(g) = G /\ \A i \in 1..G : g[i] \in Byte
  BY <1>1 DEF Bytes
<1>3. CASE G < 4 \/ G < 4 + g[4]
  <2>0. TooShort(g, G)
    BY <1>1, <1>3 DEF TooShort
  <2>1. parse_response(g).rest = <<>>
    BY <1>1, <2>0, TooShortIsNothing DEF Nothing
  <2>2. Shape(<<>>, 0)
    BY DEF Shape, Bytes
  <2> QED BY <2>1, <2>2 DEF Left
<1>4. CASE ~(G < 4 \/ G < 4 + g[4])
  <2>0. g[4] \in Byte
    BY <1>1, <1>2, <1>4
  <2>1. g[4] \in Nat
    BY <2>0, ByteIsNat
  <2>2. G >= 4 /\ G <= g[4] + 6 /\ g[1] \notin 129..191
    BY <2>1, <1>1, <1>4
  <2> QED BY <2>2, <1>2, FrameLeavesOne
<1> QED BY <1>3, <1>4

\* and one that is cut short is read in full, without its checksum, or not at
\* all.
LEMMA CutIsExactOrNothing ==
    ASSUME NEW H, NEW h, NEW p, Awaited(h, H, p), NEW g \in CutShort(h)
    PROVE  /\ parse_response(g).payload = p \/ parse_response(g).payload = <<>>
           /\ parse_response(g).rest = <<>>
<1> DEFINE m == Len(p)
<1>1. /\ H \in 7..9 /\ Bytes(h, H) /\ H = m + 5 /\ m \in Nat /\ m # 0
      /\ h[1] = 128 /\ h[4] = m /\ p \in Seq(Byte) /\ \A i \in 1..m : h[4 + i] = p[i]
  BY DEF Awaited, IsReply, Bytes
<1>2. Len(h) = H /\ H \in Nat /\ Len(p) = m
  BY <1>1 DEF Bytes
<1> HIDE DEF m
<1>3. PICK n \in 0..(H - 1) : g = SubSeq(h, 1, n)
  BY <1>2 DEF CutShort
<1>4. n \in 0..H
  BY <1>2
<1>5. Bytes(g, n) /\ \A j \in 1..n : g[j] = h[j]
  <2>1. H \in Nat /\ Bytes(h, H) /\ n \in 0..H
    BY <1>1, <1>2, <1>4
  <2>2. FirstBytes(g, h, n)
    BY <2>1, <1>3, CutBytes
  <2> QED BY <2>2 DEF FirstBytes
<1>6. g \in Seq(Byte) /\ Len(g) = n
  BY <1>5 DEF Bytes
<1>7. CASE n < 4 + m
  <2>1. n >= 1 => g[1] = 128
    BY <1>1, <1>5
  <2>2. n >= 4 => g[4] = m
    BY <1>1, <1>5
  <2>3. TooShort(g, n)
    <3>1. CASE n = 0
      BY <3>1 DEF TooShort
    <3>2. CASE n # 0 /\ n < 4
      BY <3>2, <2>1, <1>4 DEF TooShort
    <3>3. CASE ~(n < 4)
      <4>1. g[1] = 128 /\ g[4] = m
        BY <3>3, <2>1, <2>2, <1>1, <1>4
      <4>2. n < 4 + g[4] /\ g[1] \notin 129..191
        BY <4>1, <1>7
      <4> QED BY <4>2 DEF TooShort
    <3> QED BY <3>1, <3>2, <3>3
  <2> QED BY <2>3, <1>5, TooShortIsNothing DEF Nothing
<1>8. CASE ~(n < 4 + m)
  <2>1. n = 4 + m /\ g # <<>> /\ g[1] = 128 /\ g[4] = m
    BY <1>1, <1>5, <1>6, <1>8
  <2>2. HeaderLen(g) = 4 /\ PayloadEnd(g) = 4 + m
    <3>1. ~LengthInFormat(128)
      BY FormatByte DEF Byte
    <3> QED BY <2>1, <3>1, Zenon DEF PayloadEnd, HeaderLen
  <2>3. ~(Len(g) < HeaderLen(g) \/ Len(g) < PayloadEnd(g)) /\ ~(Len(g) > PayloadEnd(g))
    BY <2>1, <2>2, <1>1, <1>6
  <2> DEFINE raw == SubSeq(g, 1, Len(g))
  <2>4. raw = g /\ SubSeq(g, Len(g) + 1, Len(g)) = <<>>
    BY <1>6
  <2>5. ~ \A i \in DOMAIN g : g[i] = 0
    <3>1. 1 \in DOMAIN g
      BY <2>1, <1>1, <1>6
    <3> QED BY <2>1, <3>1
  <2>6. SubSeq(g, 4 + 1, 4 + m) = p
    <3> DEFINE y == SubSeq(g, 5, 4 + m)
    <3>1. y \in Seq(Byte) /\ Len(y) = m /\ \A i \in 1..m : y[i] = g[4 + i]
      BY <1>1, <1>6, <2>1
    <3> HIDE DEF y
    <3>2. \A i \in 1..m : y[i] = p[i]
      BY <1>1, <1>5, <2>1, <3>1
    <3>3. y = p
      BY <1>1, <1>2, <3>1, <3>2
    <3> QED BY <3>3 DEF y
  <2> HIDE DEF raw
  <2>7. /\ parse_response(g).payload = SubSeq(g, 4 + 1, 4 + m)
        /\ parse_response(g).rest = SubSeq(g, Len(g) + 1, Len(g))
    <3> DEFINE c == SubSeq(g, 1, IF Len(g) > PayloadEnd(g) THEN PayloadEnd(g) + 1 ELSE Len(g))
    <3>1. c = g
      BY <2>3, <2>4, Zenon DEF raw
    <3>2. ~ \A i \in DOMAIN c : c[i] = 0
      BY <2>5, <3>1
    <3>3. SubSeq(g, Len(c) + 1, Len(g)) = SubSeq(g, Len(g) + 1, Len(g))
      BY <3>1
    <3>4. /\ parse_response(g).payload = SubSeq(g, HeaderLen(g) + 1, PayloadEnd(g))
          /\ parse_response(g).rest = SubSeq(g, Len(c) + 1, Len(g))
      <4>1. g # <<>> /\ ~(Len(g) < HeaderLen(g) \/ Len(g) < PayloadEnd(g))
        BY <2>1, <2>3
      <4> QED BY <4>1, <3>2 DEF parse_response
    <3> QED BY <3>3, <3>4, <2>2
  <2> QED BY <2>4, <2>6, <2>7
<1> QED BY <1>7, <1>8

\* So it is when a byte of the echo was lost, unless one byte was left to make
\* up for it,
LEMMA ShortEchoOutOfStep ==
    ASSUME NEW k \in {0, 2, 3, 4, 8, 9}, NEW f, Shape(f, k),
           NEW e, EchoShort(e), NEW h, NEW H \in {8, 9}, IsAnswer(h, H),
           NEW x, x = AfterEcho(f \o e \o <<>> \o h, 6)
    PROVE  Nothing(x)
<1> DEFINE N == k + 5 + H - 6
<1>1. Bytes(f, k) /\ Bytes(e, 5) /\ Bytes(h, H) /\ (k > 6 => f[7] \notin 129..191)
  BY DEF Shape, EchoShort, IsAnswer
<1>2. k \in Nat /\ H \in Nat /\ 6 \in 0..(k + 5 + H)
  OBVIOUS
<1>3. /\ Bytes(x, N)
      /\ \A i \in 1..N :
           x[i] = IF 6 + i <= k THEN f[6 + i] ELSE IF 6 + i <= k + 5 THEN e[6 + i - k]
                  ELSE h[6 + i - k - 5]
  <2>1. LineIs(x, f, k, e, 5, h, H, 6)
    BY <1>1, <1>2, LineOf
  <2> QED BY <2>1, Zenon DEF LineIs, Bytes
<1> HIDE DEF N
<1>4. N = k + 5 + H - 6
  BY DEF N
<1> SUFFICES TooShort(x, N)
  BY <1>3, TooShortIsNothing
<1>5. /\ e[1] = 17 /\ e[2] = 242 /\ e[3] = 33 /\ e[4] \in {3, 9, 12} /\ e[5] \in {169, 175, 178}
      /\ h[1] = 128 /\ h[2] = 242 /\ h[5] \in {97, 127}
  BY DEF EchoShort, IsAnswer
<1>6. CASE k = 0
  <2>1. x[1] = h[2] /\ x[4] = h[5]
    BY <1>3, <1>4, <1>6
  <2> QED BY <2>1, <1>1, <1>4, <1>5, <1>6 DEF TooShort
<1>7. CASE k = 2
  <2>1. x[1] = e[5] /\ x[4] = h[3]
    BY <1>3, <1>4, <1>7
  <2> QED BY <2>1, <1>1, <1>4, <1>5, <1>7 DEF TooShort
<1>8. CASE k = 3
  <2>1. x[1] = e[4] /\ x[4] = h[2]
    BY <1>3, <1>4, <1>8
  <2> QED BY <2>1, <1>1, <1>4, <1>5, <1>8 DEF TooShort
<1>9. CASE k = 8
  <2>1. x[1] = f[7] /\ x[4] = e[2]
    BY <1>3, <1>4, <1>9
  <2> QED BY <2>1, <1>1, <1>4, <1>5, <1>9 DEF TooShort
<1>10. CASE k = 9
  <2>1. x[1] = f[7] /\ x[4] = e[1]
    BY <1>3, <1>4, <1>10
  <2> QED BY <2>1, <1>1, <1>4, <1>5, <1>10 DEF TooShort
<1>11. CASE k = 4
  <2>1. x[1] = e[3] /\ x[4] = h[1]
    BY <1>3, <1>4, <1>11
  <2> QED BY <2>1, <1>1, <1>4, <1>5, <1>11 DEF TooShort
<1> QED BY <1>6, <1>7, <1>8, <1>9, <1>10, <1>11

\* and when noise came before the echo.
LEMMA NoisyEchoOutOfStep ==
    ASSUME NEW k \in {0, 1, 2, 3, 8, 9}, NEW f, Shape(f, k),
           NEW e, EchoNoisy(e), NEW h, NEW H \in {8, 9}, IsAnswer(h, H),
           NEW x, x = AfterEcho(f \o e \o <<>> \o h, 6)
    PROVE  Nothing(x)
<1> DEFINE N == k + 7 + H - 6
<1>1. Bytes(f, k) /\ Bytes(e, 7) /\ Bytes(h, H) /\ (k > 6 => f[7] \notin 129..191)
  BY DEF Shape, EchoNoisy, IsAnswer
<1>2. k \in Nat /\ H \in Nat /\ 6 \in 0..(k + 7 + H)
  OBVIOUS
<1>3. /\ Bytes(x, N)
      /\ \A i \in 1..N :
           x[i] = IF 6 + i <= k THEN f[6 + i] ELSE IF 6 + i <= k + 7 THEN e[6 + i - k]
                  ELSE h[6 + i - k - 7]
  <2>1. LineIs(x, f, k, e, 7, h, H, 6)
    BY <1>1, <1>2, LineOf
  <2> QED BY <2>1, Zenon DEF LineIs, Bytes
<1> HIDE DEF N
<1>4. N = k + 7 + H - 6
  BY DEF N
<1> SUFFICES TooShort(x, N)
  BY <1>3, TooShortIsNothing
<1>5. /\ e[1] = 255 /\ e[2] = 130 /\ e[4] = 242 /\ e[5] = 33 /\ e[6] \in {3, 9, 12}
      /\ e[7] \in {169, 175, 178} /\ h[1] = 128 /\ h[2] = 242 /\ h[5] \in {97, 127}
  BY DEF EchoNoisy, IsAnswer
<1>6. CASE k = 0
  <2>1. x[1] = e[7] /\ x[4] = h[3]
    BY <1>3, <1>4, <1>6
  <2> QED BY <2>1, <1>1, <1>4, <1>5, <1>6 DEF TooShort
<1>7. CASE k = 1
  <2>1. x[1] = e[6] /\ x[4] = h[2]
    BY <1>3, <1>4, <1>7
  <2> QED BY <2>1, <1>1, <1>4, <1>5, <1>7 DEF TooShort
<1>8. CASE k = 2
  <2>1. x[1] = e[5] /\ x[4] = h[1]
    BY <1>3, <1>4, <1>8
  <2> QED BY <2>1, <1>1, <1>4, <1>5, <1>8 DEF TooShort
<1>9. CASE k = 3
  <2>1. x[1] = e[4] /\ x[4] = e[7]
    BY <1>3, <1>4, <1>9
  <2> QED BY <2>1, <1>1, <1>4, <1>5, <1>9 DEF TooShort
<1>10. CASE k = 8
  <2>1. x[1] = f[7] /\ x[4] = e[2]
    BY <1>3, <1>4, <1>10
  <2> QED BY <2>1, <1>1, <1>4, <1>5, <1>10 DEF TooShort
<1>11. CASE k = 9
  <2>1. x[1] = f[7] /\ x[4] = e[1]
    BY <1>3, <1>4, <1>11
  <2> QED BY <2>1, <1>1, <1>4, <1>5, <1>11 DEF TooShort
<1> QED BY <1>6, <1>7, <1>8, <1>9, <1>10, <1>11

\* The payload of a frame that has a length byte begins with the fifth byte.
LEMMA FrameBegins ==
    ASSUME NEW s \in Seq(Byte), NEW n, n = Len(s), n >= 5, s[1] \notin 129..191, s[4] >= 1,
           NEW z, z = parse_response(s)
    PROVE  z.payload = <<>> \/ z.payload[1] = s[5]
<1> DEFINE b == s[4]
           y == SubSeq(s, 5, 4 + b)
<1>0. n \in Nat /\ s # <<>> /\ \A i \in 1..n : s[i] \in Byte
  OBVIOUS
<1>1. n \in Nat /\ s # <<>> /\ s[1] \in Byte /\ b \in Nat /\ b >= 1
  <2>1. s[1] \in Byte /\ s[4] \in Byte
    BY <1>0
  <2> QED BY <1>0, <2>1, ByteIsNat
<1>2. HeaderLen(s) = 4 /\ PayloadEnd(s) = 4 + b
  <2>1. ~LengthInFormat(s[1])
    BY <1>1, FormatByte
  <2> QED BY <2>1, Zenon DEF PayloadEnd, HeaderLen
<1>3. CASE n < 4 + b
  BY <1>3, Incomplete
<1>4. CASE ~(n < 4 + b)
  <2>0. ~(n < 4)
    BY <1>1
  <2>1. y[1] = s[5]
    <3> HIDE DEF b
    <3>1. 5 \in 1..n /\ 4 + b \in 1..n /\ 5 <= 4 + b
      BY <1>1, <1>4
    <3> QED BY <3>1
  <2> HIDE DEF b
  <2> DEFINE raw == SubSeq(s, 1, IF n > 4 + b THEN (4 + b) + 1 ELSE n)
             r == SubSeq(s, Len(raw) + 1, n)
  <2>2. \/ z = [Unparsed("heldLow") EXCEPT !.rest = r]
        \/ z.payload = SubSeq(s, 4 + 1, 4 + b)
    BY <1>1, <1>2, <1>4, <2>0 DEF parse_response
  <2> HIDE DEF r
  <2>3. z.payload = <<>> \/ z.payload = y
    BY <2>2 DEF Unparsed
  <2> QED BY <2>1, <2>3
<1> QED BY <1>3, <1>4

\* With four bytes left and noise before the echo, the register is taken for the
\* length, and the checksum of the request for the service.
LEMMA NoisyEchoAtFour ==
    ASSUME NEW f, Bytes(f, 4), NEW e, EchoNoisy(e), NEW h, NEW H \in {8, 9}, Bytes(h, H),
           NEW x, x = AfterEcho(f \o e \o <<>> \o h, 6), NEW z, z = parse_response(x)
    PROVE  z.payload = <<>> \/ z.payload[1] # 97
<1> DEFINE N == 4 + 7 + H - 6
<1>1. Bytes(e, 7) /\ e[3] = 17 /\ e[6] \in {3, 9, 12} /\ e[7] \in {169, 175, 178}
  BY DEF EchoNoisy
<1>2. 4 \in Nat /\ 7 \in Nat /\ H \in Nat /\ 6 \in 0..(4 + 7 + H)
  OBVIOUS
<1>3. /\ Bytes(x, N)
      /\ \A i \in 1..N :
           x[i] = IF 6 + i <= 4 THEN f[6 + i] ELSE IF 6 + i <= 4 + 7 THEN e[6 + i - 4]
                  ELSE h[6 + i - 4 - 7]
  <2>1. LineIs(x, f, 4, e, 7, h, H, 6)
    BY <1>1, <1>2, LineOf
  <2> QED BY <2>1, Zenon DEF LineIs, Bytes
<1> HIDE DEF N
<1>4. N = H + 5
  BY <1>2 DEF N
<1>5. x[1] = e[3] /\ x[4] = e[6] /\ x[5] = e[7]
  BY <1>3, <1>4
<1>6. x \in Seq(Byte) /\ N = Len(x) /\ N >= 5
  BY <1>3, <1>4 DEF Bytes
<1>7. x[1] \notin 129..191 /\ x[4] >= 1 /\ x[5] # 97
  BY <1>1, <1>5
<1>8. z.payload = <<>> \/ z.payload[1] = x[5]
  BY <1>6, <1>7, FrameBegins
<1> QED BY <1>7, <1>8

\* A line held low is read as zeros.
AllZero(s, n) == Bytes(s, n) /\ \A i \in 1..n : s[i] = 0

\* What is left behind an empty frame.
LEMMA DroppedFive ==
    ASSUME NEW q \in Seq(Byte), NEW n, n = Len(q), n >= 5, NEW x, x = SubSeq(q, 6, n)
    PROVE  x \in Seq(Byte) /\ Len(x) = n - 5 /\ \A i \in 1..(n - 5) : x[i] = q[5 + i]
  OBVIOUS

\* With the line held low the six zeros behind the echo are read as an empty
\* frame, and one byte more than before is left.
LEMMA HeldLowLeavesZeros ==
    ASSUME NEW k \in {0, 1, 2, 3, 4, 8, 9}, NEW f, Shape(f, k), NEW n \in {5, 6}, k = 0 \/ n = 6,
           NEW e, AllZero(e, n), NEW h, AllZero(h, 6),
           NEW x, x = AfterEcho(f \o e \o <<>> \o h, n), NEW z, z = parse_response(x)
    PROVE  z.payload = <<>> /\ Shape(z.rest, k + 1)
<1> DEFINE N == k + n + 6 - n
<1>1. Bytes(f, k) /\ Bytes(e, n) /\ Bytes(h, 6) /\ (k > 6 => f[7] \notin 129..191)
  BY DEF Shape, AllZero
<1>2. k \in Nat /\ n \in Nat /\ n \in 0..(k + n + 6)
  OBVIOUS
<1>3. /\ Bytes(x, N)
      /\ \A i \in 1..N :
           x[i] = IF n + i <= k THEN f[n + i] ELSE IF n + i <= k + n THEN e[n + i - k]
                  ELSE h[n + i - k - n]
  <2>1. LineIs(x, f, k, e, n, h, 6, n)
    BY <1>1, <1>2, LineOf
  <2> QED BY <2>1, Zenon DEF LineIs, Bytes
<1>4. N = k + 6
  BY <1>2
<1> HIDE DEF N
<1>5. (\A i \in 1..n : e[i] = 0) /\ \A i \in 1..6 : h[i] = 0
  BY DEF AllZero
<1>6. ASSUME NEW i \in 1..N, i > 3 PROVE x[i] = 0
  <2>1. ~(n + i <= k)
    BY <1>2, <1>6
  <2>2. CASE n + i <= k + n
    <3>1. n + i - k \in 1..n
      BY <1>2, <2>1, <2>2
    <3> QED BY <3>1, <1>3, <1>5, <2>1, <2>2
  <2>3. CASE ~(n + i <= k + n)
    <3>1. n + i - k - n \in 1..6
      BY <1>2, <1>4, <2>3
    <3> QED BY <3>1, <1>3, <1>5, <2>1, <2>3
  <2> QED BY <2>2, <2>3
<1>7. x[4] = 0
  BY <1>2, <1>4, <1>6
<1>8. x[1] \notin 129..191
  <2>1. CASE k \in {8, 9}
    <3>1. n = 6 /\ n + 1 <= k
      BY <2>1
    <3>2. x[1] = f[7]
      BY <3>1, <1>2, <1>3, <1>4
    <3> QED BY <3>2, <1>1, <2>1
  <2>2. CASE k \in {0, 1, 2, 3, 4}
    <3>1. ~(n + 1 <= k) /\ 1 \in 1..N
      BY <1>2, <1>4, <2>2
    <3>2. CASE k = 0
      <4>1. x[1] = h[1]
        BY <3>1, <3>2, <1>2, <1>3
      <4> QED BY <4>1, <1>5
    <3>3. CASE k # 0
      <4>1. n + 1 - k \in 1..n /\ n + 1 <= k + n
        BY <1>2, <2>2, <3>3
      <4>2. x[1] = e[n + 1 - k]
        BY <3>1, <4>1, <1>3
      <4> QED BY <4>1, <4>2, <1>5
    <3> QED BY <3>2, <3>3
  <2> QED BY <2>1, <2>2
<1>9. x \in Seq(Byte) /\ N = Len(x) /\ N >= 5
  BY <1>2, <1>3, <1>4 DEF Bytes
<1>10. z.payload = <<>> /\ z.rest = SubSeq(x, 6, N)
  BY <1>7, <1>8, <1>9, EmptyFrame
<1> DEFINE r == SubSeq(x, 6, N)
<1>11. r \in Seq(Byte) /\ Len(r) = N - 5 /\ \A i \in 1..(N - 5) : r[i] = x[5 + i]
  BY <1>9, DroppedFive
<1> HIDE DEF r
<1>12. N - 5 = k + 1
  BY <1>2, <1>4
<1>13. Bytes(r, k + 1)
  BY <1>11, <1>12 DEF Bytes
<1>14. ASSUME NEW i \in 1..(k + 1) PROVE r[i] = 0
  <2>1. 5 + i \in 1..N /\ 5 + i > 3 /\ i \in 1..(N - 5)
    BY <1>2, <1>4
  <2> QED BY <2>1, <1>6, <1>11
<1>15. (k + 1 > 6 => r[7] \notin 129..191) /\ (k + 1 = 10 => r[10] = 0)
  <2>1. k + 1 > 6 => 7 \in 1..(k + 1)
    BY <1>2
  <2>2. k + 1 = 10 => 10 \in 1..(k + 1)
    BY <1>2
  <2> QED BY <2>1, <2>2, <1>14
<1>16. Shape(r, k + 1)
  BY <1>13, <1>15 DEF Shape
<1> QED BY <1>10, <1>16 DEF r

\* Ten bytes of which the last is a zero are read as an empty frame: no
\* payload.
LEMMA TenZerosReadEmpty ==
    ASSUME NEW f, Shape(f, 10), NEW E \in 5..7, NEW e, Bytes(e, E), NEW H \in Nat, NEW h, Bytes(h, H),
           NEW x, x = AfterEcho(f \o e \o <<>> \o h, 6), NEW z, z = parse_response(x)
    PROVE  z.payload = <<>> /\ z.rest \in Seq(Byte)
<1> DEFINE N == 10 + E + H - 6
<1>1. Bytes(f, 10) /\ f[7] \notin 129..191 /\ f[10] = 0
  BY DEF Shape
<1>2. E \in Nat /\ 10 \in Nat /\ 6 \in 0..(10 + E + H)
  OBVIOUS
<1>3. /\ Bytes(x, N)
      /\ \A i \in 1..N :
           x[i] = IF 6 + i <= 10 THEN f[6 + i] ELSE IF 6 + i <= 10 + E THEN e[6 + i - 10]
                  ELSE h[6 + i - 10 - E]
  <2>1. LineIs(x, f, 10, e, E, h, H, 6)
    BY <1>1, <1>2, LineOf
  <2> QED BY <2>1, Zenon DEF LineIs, Bytes
<1>4. N \in Nat /\ N >= 5
  BY <1>2
<1> HIDE DEF N
<1>5. x[1] = f[7] /\ x[4] = f[10]
  BY <1>3, <1>4
<1>6. x \in Seq(Byte) /\ N = Len(x)
  BY <1>3 DEF Bytes
<1>7. z.payload = <<>> /\ z.rest = SubSeq(x, 6, N)
  <2>1. x[1] \notin 129..191 /\ x[4] = 0 /\ N >= 5
    BY <1>1, <1>4, <1>5
  <2>2. parse_response(x).payload = <<>> /\ parse_response(x).rest = SubSeq(x, 6, N)
    BY <2>1, <1>6, EmptyFrame
  <2> QED BY <2>2
<1>8. SubSeq(x, 6, N) \in Seq(Byte)
  <2> DEFINE r == SubSeq(x, 6, N)
  <2>1. 5 \in 0..Len(x) /\ r = SubSeq(x, 5 + 1, Len(x)) /\ x \in Seq(Byte)
    BY <1>4, <1>6
  <2> HIDE DEF r
  <2>2. r \in Seq(Byte)
    BY <2>1, DroppedBytes
  <2> QED BY <2>2 DEF r
<1> QED BY <1>7, <1>8

\* A read that is in step gets the payload of the answer and leaves nothing: no
\* byte left, or one left and one of the echo lost.
LEMMA InStepIsExact ==
    ASSUME NEW k \in {0, 1}, NEW f, Bytes(f, k), NEW n \in {5, 6}, NEW e, Bytes(e, n - k),
           NEW p \in Seq(Byte), p # <<>>, NEW h, IsReply(h, p),
           NEW x, x = AfterEcho(f \o e \o <<>> \o h, n), NEW z, z = parse_response(x)
    PROVE  z.payload = p /\ z.rest = <<>>
<1> DEFINE H == Len(h)
           E == n - k
<1>1. h \in Seq(Byte) /\ H \in Nat /\ Bytes(h, H)
  BY DEF IsReply, Bytes
<1> HIDE DEF H
<1>2. E \in Nat /\ k \in Nat /\ n \in 0..(k + E + H) /\ k + E + H - n = H /\ k + E = n
  BY <1>1
<1>3. /\ Bytes(x, k + E + H - n)
      /\ \A i \in 1..(k + E + H - n) :
           x[i] = IF n + i <= k THEN f[n + i] ELSE IF n + i <= k + E THEN e[n + i - k]
                  ELSE h[n + i - k - E]
  <2> HIDE DEF E
  <2>1. Bytes(e, E)
    BY DEF E
  <2>2. LineIs(x, f, k, e, E, h, H, n)
    BY <2>1, <1>1, <1>2, LineOf
  <2> QED BY <2>2, Zenon DEF LineIs, Bytes
<1>4. Bytes(x, H)
  BY <1>2, <1>3
<1>5. ASSUME NEW i \in 1..H PROVE x[i] = h[i]
  <2> HIDE DEF E
  <2>1. ~(n + i <= k) /\ ~(n + i <= k + E) /\ n + i - k - E = i /\ i \in 1..(k + E + H - n)
    BY <1>1, <1>2
  <2> QED BY <2>1, <1>3
<1>6. x = h
  BY <1>1, <1>4, <1>5 DEF Bytes
<1>7. IsReply(x, p)
  BY <1>6
<1> QED BY <1>7, ExactFrame

\* What the wire makes of the echo e and the answer h.
Becomes(t, e, h) ==
    \/ t.echo = e /\ t.heard = h /\ t.late = <<>>
    \/ t.echo = Tail(e) /\ t.heard = h /\ t.late = <<>>
    \/ t.echo = <<255>> \o e /\ t.heard = h /\ t.late = <<>>
    \/ t.echo = e /\ t.heard \in CutShort(h) /\ t.late = <<>>
    \/ t.echo = e /\ t.heard \in Garbled(h) /\ t.late = <<>> /\ t.garbled
    \/ t.echo = e /\ t.heard = <<>> /\ t.late = h
    \/ t.echo = [i \in DOMAIN e |-> 0] /\ t.heard = <<0, 0, 0, 0, 0, 0>> /\ t.late = <<>>

\* What can become of an exchange.
LEMMA Transmitted ==
    ASSUME NEW e, NEW h, NEW t \in Transmissions(e, h)
    PROVE  Becomes(t, e, h)
<1> DEFINE a == Tail(e)
           b == << 255 >> \o e
           c == [i \in DOMAIN e |-> 0]
           z == <<0, 0, 0, 0, 0, 0>>
           C == CutShort(h)
           D == Garbled(h)
<1>1. \/ t = [echo |-> e, heard |-> h, late |-> <<>>, garbled |-> FALSE, faults |-> 0]
      \/ t = [echo |-> a, heard |-> h, late |-> <<>>, garbled |-> FALSE, faults |-> 1]
      \/ t = [echo |-> b, heard |-> h, late |-> <<>>, garbled |-> FALSE, faults |-> 1]
      \/ \E g \in C : t = [echo |-> e, heard |-> g, late |-> <<>>, garbled |-> FALSE, faults |-> 1]
      \/ \E g \in D : t = [echo |-> e, heard |-> g, late |-> <<>>, garbled |-> TRUE, faults |-> 1]
      \/ t = [echo |-> e, heard |-> <<>>, late |-> h, garbled |-> FALSE, faults |-> 1]
      \/ t = [echo |-> c, heard |-> z, late |-> <<>>, garbled |-> FALSE, faults |-> 1]
  BY Zenon DEF Transmissions, Disturbed, DisturbedEchoes, Noise, Faulty, Undisturbed
<1> HIDE DEF a, b, c, z, C, D
<1>2. \/ t.echo = e /\ t.heard = h /\ t.late = <<>>
      \/ t.echo = a /\ t.heard = h /\ t.late = <<>>
      \/ t.echo = b /\ t.heard = h /\ t.late = <<>>
      \/ t.echo = e /\ t.heard \in C /\ t.late = <<>>
      \/ t.echo = e /\ t.heard \in D /\ t.late = <<>> /\ t.garbled
      \/ t.echo = e /\ t.heard = <<>> /\ t.late = h
      \/ t.echo = c /\ t.heard = z /\ t.late = <<>>
  BY <1>1
<1> QED BY <1>2 DEF a, b, c, z, C, D, Becomes

\* y is e without its first byte.
ByteLost(y, e, n) == Bytes(y, n - 1) /\ \A i \in 1..(n - 1) : y[i] = e[i + 1]

\* y is e behind a byte of noise.
NoiseFirst(y, e, n) == Bytes(y, n + 1) /\ y[1] = 255 /\ \A i \in 1..n : y[1 + i] = e[i]

\* An echo that lost a byte.
LEMMA TailBytes ==
    ASSUME NEW n \in {5, 6}, NEW e, Bytes(e, n), NEW y, y = Tail(e)
    PROVE  ByteLost(y, e, n)
<1>1. e \in Seq(Byte) /\ Len(e) = n
  BY DEF Bytes
<1>2. e # <<>>
  BY <1>1
<1>3. y \in Seq(Byte) /\ Len(y) = Len(e) - 1 /\ \A i \in 1..(Len(e) - 1) : y[i] = e[i + 1]
  BY <1>1, <1>2
<1> QED BY <1>1, <1>3 DEF Bytes, ByteLost

\* An echo with noise before it.
LEMMA NoiseBytes ==
    ASSUME NEW n \in {5, 6}, NEW e, Bytes(e, n), NEW y, y = << 255 >> \o e
    PROVE  NoiseFirst(y, e, n)
<1> DEFINE a == <<255>>
<1>1. e \in Seq(Byte) /\ Len(e) = n
  BY DEF Bytes
<1>2. a \in Seq(Byte) /\ Len(a) = 1 /\ a[1] = 255
  BY DEF Byte
<1> HIDE DEF a
<1>3. y \in Seq(Byte) /\ Len(y) = Len(a) + Len(e) /\ (\A i \in 1..Len(a) : y[i] = a[i])
      /\ \A i \in 1..Len(e) : y[Len(a) + i] = e[i]
  <2>1. a \in Seq(Byte) /\ e \in Seq(Byte) /\ y = a \o e
    BY <1>1, <1>2 DEF a
  <2> QED BY <2>1, Joined
<1>4. y \in Seq(Byte) /\ Len(y) = n + 1
  BY <1>1, <1>2, <1>3
<1>5. y[1] = 255
  BY <1>2, <1>3
<1>6. \A i \in 1..n : y[1 + i] = e[i]
  BY <1>1, <1>2, <1>3
<1> QED BY <1>4, <1>5, <1>6 DEF Bytes, NoiseFirst

\* An echo of a line held low.
LEMMA ZeroBytes ==
    ASSUME NEW n \in {5, 6}, NEW e, Bytes(e, n), NEW y, y = [i \in DOMAIN e |-> 0]
    PROVE  AllZero(y, n)
<1>1. DOMAIN e = 1..n
  BY DEF Bytes
<1>2. 0 \in Byte
  BY ByteIsNat
<1>3. y \in Seq(Byte) /\ Len(y) = n /\ \A i \in 1..n : y[i] = 0
  BY <1>1, <1>2
<1> QED BY <1>3 DEF AllZero, Bytes

\* What is heard of a line held low.
LEMMA SixZeros == AllZero(<<0, 0, 0, 0, 0, 0>>, 6)
<1> DEFINE z == <<0, 0, 0, 0, 0, 0>>
<1>1. 0 \in Byte
  BY ByteIsNat
<1>2. z \in Seq(Byte) /\ Len(z) = 6 /\ \A i \in 1..6 : z[i] = 0
  BY <1>1
<1> HIDE DEF z
<1>3. AllZero(z, 6)
  BY <1>2 DEF AllZero, Bytes
<1> QED BY <1>3 DEF z

\* The empty sequence has no bytes.
LEMMA NoBytes == Bytes(<<>>, 0)
  BY DEF Bytes

\* The disturbed echoes of a request.
LEMMA EchoShapes ==
    ASSUME NEW e, Echo(e)
    PROVE  EchoShort(Tail(e)) /\ EchoNoisy(<< 255 >> \o e)
<1>1. /\ Bytes(e, 6)
      /\ e[1] = 130 /\ e[2] = 17 /\ e[3] = 242 /\ e[4] = 33 /\ e[5] \in {3, 9, 12}
      /\ e[6] \in {169, 175, 178}
  BY DEF Echo
<1> DEFINE a == Tail(e)
           b == <<255>> \o e
<1> HIDE DEF a, b
<1>2. ByteLost(a, e, 6) /\ NoiseFirst(b, e, 6)
  BY <1>1, TailBytes, NoiseBytes DEF a, b
<1>3. a[1] = e[2] /\ a[2] = e[3] /\ a[3] = e[4] /\ a[4] = e[5] /\ a[5] = e[6]
  BY <1>2 DEF ByteLost
<1>4. b[2] = e[1] /\ b[3] = e[2] /\ b[4] = e[3] /\ b[5] = e[4] /\ b[6] = e[5] /\ b[7] = e[6]
  BY <1>2 DEF NoiseFirst
<1>5. Bytes(a, 5) /\ Bytes(b, 7) /\ b[1] = 255
  BY <1>2 DEF ByteLost, NoiseFirst
<1>6. EchoShort(a)
  BY <1>1, <1>3, <1>5 DEF EchoShort
<1>7. EchoNoisy(b)
  BY <1>1, <1>4, <1>5 DEF EchoNoisy
<1> QED BY <1>6, <1>7 DEF a, b

\* An exchange that got the payload p and left nothing,
Exact(z, l, p) == z.payload = p /\ z.rest = <<>> /\ l = <<>>

\* one that got nothing, and the answer may come later,
Silent(z, l, h) == z.payload = <<>> /\ z.rest = <<>> /\ l \in {<<>>, h}

\* one that got nothing and left k bytes,
Zeros(z, l, k) == z.payload = <<>> /\ Shape(z.rest, k) /\ l = <<>>

\* one whose answer was damaged and left a byte at most,
Odd(z, t) == t.garbled /\ t.late = <<>> /\ Left(z.rest, {0, 1})

\* Nothing at all is heard.
LEMMA SilenceHeard == IsHeard(<<>>, 0)
  BY NoBytes DEF IsHeard

\* Every exchange for a register, whatever was left by the ones before, is one
\* of these: no payload is ever made of another answer's bytes.
LEMMA ReadExchange ==
    ASSUME late = <<>>, NEW k \in {0, 1, 2, 3, 8, 9}, Shape(fifo, k), NEW reg \in Registers,
           NEW p, NEW H \in {8, 9}, NEW h, IsAnswer(h, H), Awaited(h, H, p),
           NEW t \in Transmissions(build_request(<<SVC_READ, reg>>), h),
           NEW z, z = Exchange(<<SVC_READ, reg>>, t)
    PROVE  Exact(z, t.late, p) \/ Silent(z, t.late, h) \/ Zeros(z, t.late, k + 1) \/ Odd(z, t)
<1> DEFINE e == build_request(<<SVC_READ, reg>>)
           a == Tail(e)
           b == << 255 >> \o e
           c == [i \in DOMAIN e |-> 0]
           o == <<0, 0, 0, 0, 0, 0>>
           g == t.heard
           x == AfterEcho(fifo \o t.echo \o <<>> \o g, 6)
<1>1. IsRead(e, reg) /\ p \in Seq(Byte) /\ p # <<>> /\ IsReply(h, p)
  BY ReadBytes DEF Awaited
<1>2. z = parse_response(x)
  <2>1. SentLen(<<SVC_READ, reg>>) = 6
    BY DEF SentLen
  <2> QED BY <2>1, Zenon DEF Exchange
<1>3. \/ t.echo = e /\ g = h /\ t.late = <<>>
      \/ t.echo = a /\ g = h /\ t.late = <<>>
      \/ t.echo = b /\ g = h /\ t.late = <<>>
      \/ t.echo = e /\ g \in CutShort(h) /\ t.late = <<>>
      \/ t.echo = e /\ g \in Garbled(h) /\ t.late = <<>> /\ t.garbled
      \/ t.echo = e /\ g = <<>> /\ t.late = h
      \/ t.echo = c /\ g = o /\ t.late = <<>>
  <2>1. Becomes(t, e, h)
    BY Transmitted
  <2> QED BY <2>1, Zenon DEF Becomes
<1> HIDE DEF e, g
<1>4. Echo(e) /\ Bytes(e, 6)
  BY <1>1, ReadIsBytes DEF Echo
<1>5. EchoShort(a) /\ EchoNoisy(b) /\ Bytes(a, 5) /\ AllZero(c, 6) /\ AllZero(o, 6)
  <2>1. EchoShort(a) /\ EchoNoisy(b)
    BY <1>4, EchoShapes
  <2>2. AllZero(c, 6)
    BY <1>4, ZeroBytes
  <2> QED BY <2>1, <2>2, SixZeros, Zenon DEF EchoShort
<1> HIDE DEF a, b, c, o
<1>6. Bytes(fifo, k)
  BY DEF Shape
<1>7. CASE /\ t.echo = e
           /\ \/ g = h /\ t.late = <<>>
              \/ g \in CutShort(h) /\ t.late = <<>>
              \/ g \in Garbled(h) /\ t.late = <<>> /\ t.garbled
              \/ g = <<>> /\ t.late = h
  <2>1. x = AfterEcho(fifo \o e \o <<>> \o g, 6)
    BY <1>7
  <2>2. \E G : IsHeard(g, G)
    BY <1>7, HeardOfAnswer, SilenceHeard
  <2>3. PICK G : IsHeard(g, G)
    BY <2>2
  <2> HIDE DEF x
  <2>4. CASE k # 0
    <3>1. Nothing(x)
      BY <2>1, <2>3, <2>4, <1>4, HeardOutOfStep
    <3>2. t.late \in {<<>>, h}
      BY <1>7
    <3> QED BY <3>1, <3>2, <1>2 DEF Silent, Nothing
  <2>5. CASE k = 0
    <3>1. G \in Nat /\ Bytes(g, G) /\ Bytes(fifo, 0)
      BY <2>3, <2>5, <1>6 DEF IsHeard
    <3>2. x = g
      BY <3>1, <2>1, <1>4, HeardAlone
    <3>3. CASE g = h /\ t.late = <<>>
      <4>1. z.payload = p /\ z.rest = <<>>
        BY <3>2, <3>3, <1>1, <1>2, ExactFrame
      <4> QED BY <4>1, <3>3 DEF Exact
    <3>4. CASE g \in CutShort(h) /\ t.late = <<>>
      <4>1. (z.payload = p \/ z.payload = <<>>) /\ z.rest = <<>>
        BY <3>2, <3>4, <1>2, CutIsExactOrNothing
      <4> QED BY <4>1, <3>4 DEF Exact, Silent
    <3>5. CASE g \in Garbled(h) /\ t.late = <<>> /\ t.garbled
      <4>1. Left(z.rest, {0, 1})
        BY <3>2, <2>3, <1>2, HeardLeavesOne
      <4> QED BY <4>1, <3>5 DEF Odd
    <3>6. CASE g = <<>> /\ t.late = h
      <4>1. Bytes(x, 0) /\ TooShort(x, 0)
        BY <3>2, <3>6, NoBytes DEF TooShort
      <4>2. Nothing(x)
        BY <4>1, TooShortIsNothing
      <4> QED BY <4>2, <3>6, <1>2 DEF Silent, Nothing
    <3> QED BY <1>7, <3>3, <3>4, <3>5, <3>6
  <2> QED BY <2>4, <2>5
<1>8. CASE t.echo = a /\ g = h /\ t.late = <<>>
  <2>1. x = AfterEcho(fifo \o a \o <<>> \o h, 6)
    BY <1>8
  <2> HIDE DEF x
  <2>2. CASE k = 1
    <3>1. Bytes(a, 6 - k)
      BY <1>5, <2>2
    <3>2. z.payload = p /\ z.rest = <<>>
      BY <3>1, <2>1, <2>2, <1>1, <1>2, <1>6, InStepIsExact
    <3> QED BY <3>2, <1>8 DEF Exact
  <2>3. CASE k # 1
    <3>1. Nothing(x)
      BY <2>1, <2>3, <1>5, ShortEchoOutOfStep
    <3> QED BY <3>1, <1>2, <1>8 DEF Silent, Nothing
  <2> QED BY <2>2, <2>3
<1>9. CASE t.echo = b /\ g = h /\ t.late = <<>>
  <2>1. x = AfterEcho(fifo \o b \o <<>> \o h, 6)
    BY <1>9
  <2> HIDE DEF x
  <2>2. Nothing(x)
    BY <2>1, <1>5, NoisyEchoOutOfStep
  <2> QED BY <2>2, <1>2, <1>9 DEF Silent, Nothing
<1>11. CASE t.echo = c /\ g = o /\ t.late = <<>>
  <2>1. x = AfterEcho(fifo \o c \o <<>> \o o, 6)
    BY <1>11
  <2> HIDE DEF x
  <2>2. z.payload = <<>> /\ Shape(z.rest, k + 1)
    BY <2>1, <1>2, <1>5, HeldLowLeavesZeros
  <2> QED BY <2>2, <1>11 DEF Zeros
<1> QED BY <1>3, <1>7, <1>8, <1>9, <1>11

\* and one whose payload is not a positive response.
Dataless(z) == z.payload = <<>> \/ z.payload[1] # 97

\* With four bytes left, or ten, an exchange gets no data.
LEMMA ReadExchangeLate ==
    ASSUME late = <<>>, NEW k \in {4, 10}, Shape(fifo, k), NEW reg \in Registers,
           NEW p, NEW H \in {8, 9}, NEW h, IsAnswer(h, H), Awaited(h, H, p),
           NEW t \in Transmissions(build_request(<<SVC_READ, reg>>), h),
           NEW z, z = Exchange(<<SVC_READ, reg>>, t)
    PROVE  Dataless(z)
<1> DEFINE e == build_request(<<SVC_READ, reg>>)
           a == Tail(e)
           b == << 255 >> \o e
           c == [i \in DOMAIN e |-> 0]
           o == <<0, 0, 0, 0, 0, 0>>
           g == t.heard
           x == AfterEcho(fifo \o t.echo \o <<>> \o g, 6)
<1>1. IsRead(e, reg)
  BY ReadBytes
<1>2. z = parse_response(x)
  <2>1. SentLen(<<SVC_READ, reg>>) = 6
    BY DEF SentLen
  <2> QED BY <2>1, Zenon DEF Exchange
<1>0. \/ t.echo = e /\ g = h /\ t.late = <<>>
      \/ t.echo = a /\ g = h /\ t.late = <<>>
      \/ t.echo = b /\ g = h /\ t.late = <<>>
      \/ t.echo = e /\ g \in CutShort(h) /\ t.late = <<>>
      \/ t.echo = e /\ g \in Garbled(h) /\ t.late = <<>> /\ t.garbled
      \/ t.echo = e /\ g = <<>> /\ t.late = h
      \/ t.echo = c /\ g = o /\ t.late = <<>>
  <2>1. Becomes(t, e, h)
    BY Transmitted
  <2> QED BY <2>1, Zenon DEF Becomes
<1> HIDE DEF e, g
<1>3. \/ t.echo = e /\ (g = h \/ g \in CutShort(h) \/ g \in Garbled(h) \/ g = <<>>)
      \/ t.echo = a /\ g = h
      \/ t.echo = b /\ g = h
      \/ t.echo = c /\ g = o
  BY <1>0, Zenon
<1>4. Echo(e) /\ Bytes(e, 6) /\ Bytes(h, H) /\ Bytes(fifo, k)
  BY <1>1, ReadIsBytes DEF Echo, IsAnswer, Shape
<1>5. EchoShort(a) /\ EchoNoisy(b) /\ Bytes(a, 5) /\ Bytes(b, 7)
  <2>1. EchoShort(a) /\ EchoNoisy(b)
    BY <1>4, EchoShapes
  <2> QED BY <2>1, Zenon DEF EchoShort, EchoNoisy
<1>6. AllZero(c, 6) /\ AllZero(o, 6) /\ Bytes(c, 6) /\ Bytes(o, 6)
  <2>1. AllZero(c, 6) /\ AllZero(o, 6)
    BY <1>4, ZeroBytes, SixZeros
  <2> QED BY <2>1, Zenon DEF AllZero
<1> HIDE DEF a, b, c, o
<1>7. t.echo = e => \E G : IsHeard(g, G)
  <2>1. CASE t.echo = e /\ (g = h \/ g \in CutShort(h) \/ g \in Garbled(h) \/ g = <<>>)
    BY <2>1, HeardOfAnswer, SilenceHeard
  <2>2. CASE t.echo = a /\ g = h
    BY <2>2, HeardOfAnswer
  <2>3. CASE t.echo = b /\ g = h
    BY <2>3, HeardOfAnswer
  <2>4. CASE t.echo = c /\ g = o /\ t.echo = e
    <3>1. e[1] = 130 /\ c[1] = 0
      BY <1>4, <1>6 DEF Echo, AllZero
    <3> QED BY <2>4, <3>1
  <2> QED BY <1>3, <2>1, <2>2, <2>3, <2>4
<1>8. CASE k = 10
  <2>1. \E E \in 5..7 : \E G \in Nat : Bytes(t.echo, E) /\ Bytes(g, G)
    <3>1. CASE t.echo = e
      <4>1. PICK G : IsHeard(g, G)
        BY <1>7, <3>1
      <4>2. G \in Nat /\ Bytes(g, G)
        BY <4>1 DEF IsHeard
      <4> QED BY <4>2, <3>1, <1>4
    <3>2. CASE t.echo # e
      BY <3>2, <1>3, <1>4, <1>5, <1>6
    <3> QED BY <3>1, <3>2
  <2>2. PICK E \in 5..7, G \in Nat : Bytes(t.echo, E) /\ Bytes(g, G)
    BY <2>1
  <2> QED BY <2>2, <1>2, <1>8, TenZerosReadEmpty DEF Dataless
<1>9. CASE k = 4
  <2>1. CASE t.echo = e
    <3>1. PICK G : IsHeard(g, G)
      BY <1>7, <2>1
    <3>2. x = AfterEcho(fifo \o e \o <<>> \o g, 6)
      BY <2>1
    <3> HIDE DEF x
    <3>3. Nothing(x)
      BY <3>1, <3>2, <1>4, <1>9, HeardOutOfStep
    <3> QED BY <3>3, <1>2 DEF Nothing, Dataless
  <2>2. CASE t.echo = a /\ g = h
    <3>1. x = AfterEcho(fifo \o a \o <<>> \o h, 6)
      BY <2>2
    <3> HIDE DEF x
    <3>2. Nothing(x)
      BY <3>1, <1>5, <1>9, ShortEchoOutOfStep
    <3> QED BY <3>2, <1>2 DEF Nothing, Dataless
  <2>3. CASE t.echo = b /\ g = h
    <3>1. x = AfterEcho(fifo \o b \o <<>> \o h, 6)
      BY <2>3
    <3> HIDE DEF x
    <3> QED BY <3>1, <1>2, <1>4, <1>5, <1>9, NoisyEchoAtFour DEF Dataless
  <2>4. CASE t.echo = c /\ g = o
    <3>1. x = AfterEcho(fifo \o c \o <<>> \o o, 6)
      BY <2>4
    <3> HIDE DEF x
    <3> QED BY <3>1, <1>2, <1>6, <1>9, HeldLowLeavesZeros DEF Dataless
  <2> QED BY <1>3, <2>1, <2>2, <2>3, <2>4
<1> QED BY <1>8, <1>9

\* l bytes of data of which the first is not taken for a format byte with a
\* length.
IsData(d, l) == Bytes(d, l) /\ (l > 0 => d[1] \notin 129..191)

\* The length of an answer with l bytes of data, or of a refusal.
AnswerLen(l) == IF l = 2 THEN 9 ELSE 8

\* The answer with data d, or the refusal.
Answer(reg, d) == IF d = <<>> THEN Refusal ELSE Reply(<<SVC_READ_OK, reg>> \o d)

\* The answer to a request for reg says d: its payload p is read as d.
Says(p, reg, d, l) ==
    /\ p \in Seq(Byte) /\ p # <<>>
    /\ IsReply(Answer(reg, d), p) /\ IsAnswer(Answer(reg, d), AnswerLen(l))
    /\ positive_data(p, SVC_READ_OK, reg) = d

\* A refusal says nothing,
LEMMA RefusalSays ==
    ASSUME NEW reg
    PROVE  Says(<<SVC_NEGATIVE, SVC_READ, 34>>, reg, <<>>, 0)
<1> DEFINE p == <<SVC_NEGATIVE, SVC_READ, 34>>
           h == Reply(p)
<1>1. p \in Seq(Byte) /\ Len(p) = 3 /\ p[1] = 127 /\ p[2] = 33 /\ p[3] = 34 /\ p # <<>>
  BY DEF SVC_NEGATIVE, SVC_READ, Byte
<1>2. Answer(reg, <<>>) = h
  BY DEF Answer, Refusal
<1> HIDE DEF p
<1>3. IsReply(h, p)
  <2>1. Short(p)
    BY <1>1 DEF Short
  <2>2. p \in Seq(Byte)
    BY <1>1
  <2> QED BY <2>1, <2>2, ReplyBytes
<1> HIDE DEF h
<1>4. /\ h \in Seq(Byte) /\ Len(h) = 8 /\ h[1] = 128 /\ h[2] = 242 /\ h[3] = 17
      /\ \A i \in 1..3 : h[4 + i] = p[i]
  BY <1>1, <1>3 DEF IsReply
<1>5. h[5] = 127 /\ h[7] = 34
  <2>1. h[4 + 1] = p[1] /\ h[4 + 3] = p[3]
    BY <1>4
  <2> QED BY <2>1, <1>1
<1>6. IsAnswer(h, AnswerLen(0))
  <2>1. AnswerLen(0) = 8
    BY DEF AnswerLen
  <2>2. Bytes(h, 8)
    BY <1>4 DEF Bytes
  <2> QED BY <2>1, <2>2, <1>4, <1>5 DEF IsAnswer
<1>7. positive_data(p, SVC_READ_OK, reg) = <<>>
  BY <1>1 DEF positive_data, SVC_READ_OK
<1> QED BY <1>1, <1>2, <1>3, <1>6, <1>7 DEF Says, p

\* an answer says its data,
LEMMA DataSays ==
    ASSUME NEW reg \in Registers, NEW l \in {1, 2}, NEW d, IsData(d, l)
    PROVE  Says(<<SVC_READ_OK, reg>> \o d, reg, d, l)
<1> DEFINE a == <<SVC_READ_OK, reg>>
           p == a \o d
           h == Reply(p)
<1>1. Bytes(d, l) /\ d[1] \notin 129..191
  BY DEF IsData
<1>2. d \in Seq(Byte) /\ Len(d) = l
  BY <1>1 DEF Bytes
<1>3. d # <<>>
  BY <1>2
<1>4. a \in Seq(Byte) /\ Len(a) = 2 /\ a[1] = 97 /\ a[2] = reg
  BY DEF SVC_READ_OK, Byte, Registers, REG_RPM, REG_SPEED, REG_INTERLOCK
<1>5. Answer(reg, d) = h
  BY <1>3 DEF Answer
<1> HIDE DEF a
<1>6. p \in Seq(Byte) /\ Len(p) = Len(a) + Len(d) /\ (\A i \in 1..Len(a) : p[i] = a[i])
      /\ \A i \in 1..Len(d) : p[Len(a) + i] = d[i]
  <2>1. a \in Seq(Byte) /\ d \in Seq(Byte)
    BY <1>2, <1>4
  <2> QED BY <2>1, Joined
<1> HIDE DEF p
<1>7. /\ Len(p) = 2 + l /\ p[1] = 97 /\ p[2] = reg
      /\ \A i \in 1..l : p[2 + i] = d[i]
  BY <1>2, <1>4, <1>6
<1>8. p # <<>> /\ Short(p)
  BY <1>6, <1>7 DEF Short
<1>9. IsReply(h, p)
  BY <1>6, <1>8, ReplyBytes
<1> HIDE DEF h
<1>10. /\ h \in Seq(Byte) /\ Len(h) = l + 7 /\ h[1] = 128 /\ h[2] = 242 /\ h[3] = 17
       /\ \A i \in 1..(2 + l) : h[4 + i] = p[i]
  BY <1>7, <1>9 DEF IsReply
<1>11. h[5] = 97 /\ h[7] = d[1]
  <2>1. h[4 + 1] = p[1] /\ h[4 + 3] = p[3]
    BY <1>10
  <2>2. p[2 + 1] = d[1]
    BY <1>7
  <2> QED BY <2>1, <2>2, <1>7
<1>12. IsAnswer(h, AnswerLen(l))
  <2>1. AnswerLen(l) = l + 7
    BY DEF AnswerLen
  <2>2. Bytes(h, l + 7)
    BY <1>10 DEF Bytes
  <2>3. h[5] \in {97, 127} /\ h[7] \notin 129..191
    BY <1>1, <1>11
  <2> QED BY <2>1, <2>2, <2>3, <1>10, Zenon DEF IsAnswer
<1>13. positive_data(p, SVC_READ_OK, reg) = d
  <2>1. positive_data(p, SVC_READ_OK, reg) = SubSeq(p, 3, Len(p))
    <3>1. Len(p) > 1
      BY <1>7
    <3>2. p[1] = SVC_READ_OK
      BY <1>7 DEF SVC_READ_OK
    <3> QED BY <3>1, <3>2, <1>7, <1>8, Zenon DEF positive_data
  <2> DEFINE y == SubSeq(p, 3, Len(p))
  <2>2. y \in Seq(Byte) /\ Len(y) = l /\ \A i \in 1..l : y[i] = p[2 + i]
    BY <1>6, <1>7
  <2> HIDE DEF y
  <2>3. \A i \in 1..l : y[i] = d[i]
    BY <2>2, <1>7
  <2>4. y = d
    BY <2>2, <2>3, <1>2
  <2> QED BY <2>1, <2>4 DEF y
<1> QED BY <1>5, <1>6, <1>8, <1>9, <1>12, <1>13 DEF Says, p, a

\* so every answer says what was asked.
LEMMA AnswerSays ==
    ASSUME NEW reg \in Registers, NEW l \in {0, 1, 2}, NEW d, IsData(d, l)
    PROVE  \E p : Says(p, reg, d, l)
<1>1. CASE l = 0
  <2>1. d \in Seq(Byte) /\ Len(d) = 0
    BY <1>1 DEF IsData, Bytes
  <2>2. d = <<>>
    BY <2>1
  <2> QED BY <1>1, <2>2, RefusalSays
<1>2. CASE l # 0
  BY <1>2, DataSays
<1> QED BY <1>1, <1>2

\* What may be left when the exchange before was in step, and one or two more
\* were not: a byte of noise, a byte more for each time the line was held low,
\* or an answer that was late.
L0 == {0, 1}
L1 == {0, 1, 2, 8}
L2 == {0, 1, 2, 3, 8, 9}
L3 == {0, 1, 2, 3, 4, 8, 9, 10}

\* Left in the FIFO, or yet to come with an empty FIFO.
Pends(f, l, ks) == (l = <<>> /\ Left(f, ks)) \/ (f = <<>> /\ Left(l, ks))

\* CheckLink will give the link up.
BothMissing == rpm = NoValue /\ speed = NoValue

\* The inductive invariant: what may be left at each point of the loop. A read
\* that returned a value leaves a byte at most; two that returned none end the
\* link, so no more than three in a row are out of step, and FastInit drains
\* the rest.
InStep ==
    /\ pc \in {"init", "start", "session"} => ~connected
    /\ pc \in {"rpm", "speed", "interlock", "link"} => connected
    /\ pc = "start" => fifo = <<>> /\ late = <<>>
    /\ pc = "session" => late = <<>> /\ Left(fifo, L0)
    /\ pc \in {"top", "rpm"} /\ connected => Pends(fifo, late, IF cycle = 0 THEN L1 ELSE L2)
    /\ pc = "speed" =>
         Pends(fifo, late, IF rpm # NoValue THEN L0 ELSE IF cycle = 0 THEN L2 ELSE L3)
    /\ pc = "interlock" => cycle = 0 /\ Pends(fifo, late, IF BothMissing THEN L3 ELSE L1)
    /\ pc = "link" /\ ~BothMissing => Pends(fifo, late, IF cycle = 0 THEN L2 ELSE L1)
    /\ pc = "telemetry" /\ connected => Pends(fifo, late, IF cycle = 0 THEN L2 ELSE L1)

\* An empty FIFO.
LEMMA ShapeOfNothing == Shape(<<>>, 0)
  BY NoBytes DEF Shape

\* A read returned the answer's data and left nothing,
Got(r, d) == r = d /\ fifo' = <<>> /\ late' = <<>>

\* or what a damaged answer gave, and left a byte at most,
Misread(t) == t.garbled /\ Pends(fifo', late', L0)

\* or nothing, and left one of ms.
Missed(r, ms) == r = <<>> /\ Pends(fifo', late', ms)

\* What a read waits for.
LEMMA AnswerAwaited ==
    ASSUME NEW H \in {8, 9}, NEW h, IsAnswer(h, H), NEW p \in Seq(Byte), p # <<>>, IsReply(h, p)
    PROVE  Awaited(h, H, p)
<1>1. Bytes(h, H) /\ h[5] \in {97, 127}
  BY DEF IsAnswer
<1>2. H \in 7..9 /\ h[5] >= 17
  BY <1>1
<1> QED BY <1>1, <1>2 DEF Awaited

\* A read of a register takes what is left from one set of lengths to the next.
LEMMA ReadStep ==
    ASSUME ~VeryLate, NEW ks, NEW ms, Pends(fifo, late, ks), ks \subseteq {0, 1, 2, 3, 8, 9},
           0 \in ms, \A k \in ks : k + 1 \in ms,
           NEW reg \in Registers, NEW l \in {0, 1, 2}, AnswerLen(l) \in ms, NEW d, IsData(d, l),
           NEW t \in Sent(reg, d), OnWire(<<SVC_READ, reg>>, t)
    PROVE  Got(Returned(reg, t), d) \/ Misread(t) \/ Missed(Returned(reg, t), ms)
<1> DEFINE h == Answer(reg, d)
           z == Exchange(<<SVC_READ, reg>>, t)
<1>0. late = <<>> /\ fifo' = z.rest /\ late' = t.late
  BY DEF OnWire
<1>1. PICK k \in ks : Shape(fifo, k)
  BY <1>0 DEF Pends, Left
<1>2. PICK p : Says(p, reg, d, l)
  BY AnswerSays
<1>3. /\ p \in Seq(Byte) /\ p # <<>> /\ IsReply(h, p) /\ IsAnswer(h, AnswerLen(l))
      /\ positive_data(p, SVC_READ_OK, reg) = d
  BY <1>2 DEF Says
<1>4. t \in Transmissions(build_request(<<SVC_READ, reg>>), h)
  BY DEF Sent, Answer
<1>5. AnswerLen(l) \in {8, 9} /\ k \in {0, 1, 2, 3, 8, 9}
  BY DEF AnswerLen
<1>6. Returned(reg, t) = positive_data(z.payload, SVC_READ_OK, reg)
  BY DEF Returned
<1> HIDE DEF h
<1>12. Awaited(h, AnswerLen(l), p)
  BY <1>3, <1>5, AnswerAwaited
<1>7. Exact(z, t.late, p) \/ Silent(z, t.late, h) \/ Zeros(z, t.late, k + 1) \/ Odd(z, t)
  BY <1>0, <1>1, <1>3, <1>4, <1>5, <1>12, ReadExchange
<1> HIDE DEF z
<1>8. positive_data(<<>>, SVC_READ_OK, reg) = <<>>
  BY DEF positive_data
<1>9. CASE Exact(z, t.late, p)
  BY <1>0, <1>3, <1>6, <1>9 DEF Exact, Got
<1>10. CASE Silent(z, t.late, h)
  <2>1. Returned(reg, t) = <<>> /\ fifo' = <<>> /\ late' \in {<<>>, h}
    BY <1>0, <1>6, <1>8, <1>10 DEF Silent
  <2>2. Shape(h, AnswerLen(l))
    BY <1>3, <1>5 DEF IsAnswer, Shape
  <2>3. Left(late', ms)
    BY <2>1, <2>2, ShapeOfNothing DEF Left
  <2> QED BY <2>1, <2>3 DEF Pends, Missed
<1>11. CASE Zeros(z, t.late, k + 1)
  <2>1. Returned(reg, t) = <<>> /\ Shape(fifo', k + 1) /\ late' = <<>>
    BY <1>0, <1>6, <1>8, <1>11 DEF Zeros
  <2>2. k + 1 \in ms
    BY <1>1
  <2>3. Left(fifo', ms)
    BY <2>1, <2>2 DEF Left
  <2> QED BY <2>1, <2>3 DEF Pends, Missed
<1>13. CASE Odd(z, t)
  BY <1>0, <1>13 DEF Odd, Misread, Pends, L0
<1> QED BY <1>7, <1>9, <1>10, <1>11, <1>13

\* After the third read in a row without a value nobody asks any more what is
\* left.
LEMMA LastReadStep ==
    ASSUME ~VeryLate, Pends(fifo, late, L3), NEW reg \in Registers, NEW l \in {0, 1, 2},
           NEW d, IsData(d, l), NEW t \in Sent(reg, d), OnWire(<<SVC_READ, reg>>, t)
    PROVE  Got(Returned(reg, t), d) \/ Misread(t) \/ Returned(reg, t) = <<>>
<1> DEFINE h == Answer(reg, d)
           z == Exchange(<<SVC_READ, reg>>, t)
<1>0. late = <<>> /\ fifo' = z.rest /\ late' = t.late
  BY DEF OnWire
<1>1. PICK k \in L3 : Shape(fifo, k)
  BY <1>0 DEF Pends, Left
<1>2. PICK p : Says(p, reg, d, l)
  BY AnswerSays
<1>3. /\ p \in Seq(Byte) /\ p # <<>> /\ IsReply(h, p) /\ IsAnswer(h, AnswerLen(l))
      /\ positive_data(p, SVC_READ_OK, reg) = d
  BY <1>2 DEF Says
<1>4. t \in Transmissions(build_request(<<SVC_READ, reg>>), h)
  BY DEF Sent, Answer
<1>5. AnswerLen(l) \in {8, 9}
  BY DEF AnswerLen
<1>6. Returned(reg, t) = positive_data(z.payload, SVC_READ_OK, reg)
  BY DEF Returned
<1> HIDE DEF h
<1>7. positive_data(<<>>, SVC_READ_OK, reg) = <<>>
  BY DEF positive_data
<1>10. Awaited(h, AnswerLen(l), p)
  BY <1>3, <1>5, AnswerAwaited
<1>8. CASE k \in {0, 1, 2, 3, 8, 9}
  <2>1. Exact(z, t.late, p) \/ Silent(z, t.late, h) \/ Zeros(z, t.late, k + 1) \/ Odd(z, t)
    BY <1>0, <1>1, <1>3, <1>4, <1>5, <1>8, <1>10, ReadExchange
  <2>2. Exact(z, t.late, p) \/ z.payload = <<>> \/ Odd(z, t)
    BY <2>1 DEF Silent, Zeros
  <2> HIDE DEF z
  <2>3. CASE Odd(z, t)
    BY <1>0, <2>3 DEF Odd, Misread, Pends, L0
  <2> QED BY <2>2, <2>3, <1>0, <1>3, <1>6, <1>7 DEF Exact, Got
<1>9. CASE k \in {4, 10}
  <2>1. Dataless(z)
    BY <1>0, <1>1, <1>3, <1>4, <1>5, <1>9, <1>10, ReadExchangeLate
  <2> HIDE DEF z
  <2>2. positive_data(z.payload, SVC_READ_OK, reg) = <<>>
    BY <2>1 DEF Dataless, positive_data, SVC_READ_OK
  <2> QED BY <2>2, <1>6
<1> QED BY <1>8, <1>9 DEF L3

\* What matters of an answer of the handshake.
Greeting(h, H) == Bytes(h, H) /\ h[2] = 242 /\ h[3] = 17 /\ h[5] \in {80, 193}

\* The request that starts communication,
LEMMA StartBytes ==
    ASSUME NEW x, x = build_request(<<SVC_START>>)
    PROVE  Bytes(x, 5) /\ x[5] = 5
<1> DEFINE p == <<SVC_START>>
           a == <<128 + Len(p), ECU_ADDR, TESTER_ADDR>>
           w == a \o p
<1>1. p \in Seq(Byte) /\ Len(p) = 1 /\ p[1] = 129
  BY DEF SVC_START, Byte
<1>2. x = WithChecksum(w)
  BY DEF build_request
<1> HIDE DEF p
<1>3. a \in Seq(Byte) /\ Len(a) = 3 /\ a[1] = 129 /\ a[2] = 17 /\ a[3] = 242
  BY <1>1 DEF Byte, TESTER_ADDR, ECU_ADDR
<1> HIDE DEF a
<1>4. w \in Seq(Byte) /\ Len(w) = Len(a) + Len(p) /\ (\A i \in 1..Len(a) : w[i] = a[i])
      /\ \A i \in 1..Len(p) : w[Len(a) + i] = p[i]
  <2>1. a \in Seq(Byte) /\ p \in Seq(Byte)
    BY <1>1, <1>3
  <2> QED BY <2>1, Joined
<1> HIDE DEF w
<1>5. Len(w) = 4
  BY <1>1, <1>3, <1>4
<1>6. w[1] = 129 /\ w[2] = 17 /\ w[3] = 242 /\ w[4] = 129
  BY <1>1, <1>3, <1>4
<1>7. Total(w) = 517
  <2>1. w \in Seq(Nat)
    BY <1>4, ByteIsNat, WiderSeq
  <2>2. Total(w) = w[1] + w[2] + w[3] + w[4]
    BY <1>5, <2>1, TotalOfFour DEF HasLen
  <2> QED BY <1>6, <2>2
<1>8. checksum(w) = 5
  BY <1>7 DEF checksum
<1>9. x \in Seq(Byte) /\ Len(x) = 4 + 1 /\ x[4 + 1] = checksum(w)
  <2>1. x \in Seq(Byte) /\ Len(x) = Len(w) + 1 /\ x[Len(w) + 1] = checksum(w)
    BY <1>2, <1>4, WithChecksumBytes, Zenon
  <2> QED BY <2>1, <1>5
<1> QED BY <1>8, <1>9 DEF Bytes

\* and the one that starts a session.
LEMMA SessionBytes ==
    ASSUME NEW x, x = build_request(<<SVC_SESSION, SVC_SESSION_KDS>>)
    PROVE  Bytes(x, 6) /\ x[5] = 128 /\ x[6] = 21
<1> DEFINE p == <<SVC_SESSION, SVC_SESSION_KDS>>
           a == <<128 + Len(p), ECU_ADDR, TESTER_ADDR>>
           w == a \o p
<1>1. p \in Seq(Byte) /\ Len(p) = 2 /\ p[1] = 16 /\ p[2] = 128
  BY DEF SVC_SESSION, SVC_SESSION_KDS, Byte
<1>2. x = WithChecksum(w)
  BY DEF build_request
<1> HIDE DEF p
<1>3. a \in Seq(Byte) /\ Len(a) = 3 /\ a[1] = 130 /\ a[2] = 17 /\ a[3] = 242
  BY <1>1 DEF Byte, TESTER_ADDR, ECU_ADDR
<1> HIDE DEF a
<1>4. w \in Seq(Byte) /\ Len(w) = Len(a) + Len(p) /\ (\A i \in 1..Len(a) : w[i] = a[i])
      /\ \A i \in 1..Len(p) : w[Len(a) + i] = p[i]
  <2>1. a \in Seq(Byte) /\ p \in Seq(Byte)
    BY <1>1, <1>3
  <2> QED BY <2>1, Joined
<1> HIDE DEF w
<1>5. Len(w) = 5
  BY <1>1, <1>3, <1>4
<1>6. w[1] = 130 /\ w[2] = 17 /\ w[3] = 242 /\ w[4] = 16 /\ w[5] = 128
  BY <1>1, <1>3, <1>4
<1>7. Total(w) = 533
  <2>1. w \in Seq(Nat)
    BY <1>4, ByteIsNat, WiderSeq
  <2>2. Total(w) = w[1] + w[2] + w[3] + w[4] + w[5]
    BY <1>5, <2>1, TotalOfFive DEF HasLen
  <2> QED BY <1>6, <2>2
<1>8. checksum(w) = 21
  BY <1>7 DEF checksum
<1>9. x \in Seq(Byte) /\ Len(x) = 5 + 1 /\ x[5 + 1] = checksum(w) /\ x[5] = w[5]
  <2>1. /\ x \in Seq(Byte) /\ Len(x) = Len(w) + 1 /\ x[Len(w) + 1] = checksum(w)
        /\ \A i \in 1..Len(w) : x[i] = w[i]
    BY <1>2, <1>4, WithChecksumBytes, Zenon
  <2> QED BY <2>1, <1>5
<1> QED BY <1>6, <1>8, <1>9 DEF Bytes

\* The answers to them.
LEMMA StartReply ==
    ASSUME NEW p, p = <<SVC_START_OK, 234, 143>>
    PROVE  p \in Seq(Byte) /\ p # <<>> /\ IsReply(Reply(p), p) /\ Greeting(Reply(p), 8)
<1> DEFINE h == Reply(p)
<1>1. p \in Seq(Byte) /\ Len(p) = 3 /\ p[1] = 193 /\ p[2] = 234 /\ p[3] = 143 /\ p # <<>>
  BY DEF SVC_START_OK, Byte
<1>2. IsReply(h, p)
  <2>1. Short(p)
    BY <1>1 DEF Short
  <2>2. p \in Seq(Byte)
    BY <1>1
  <2> QED BY <2>1, <2>2, ReplyBytes
<1> HIDE DEF h
<1>3. /\ h \in Seq(Byte) /\ Len(h) = 8 /\ h[2] = 242 /\ h[3] = 17
      /\ \A i \in 1..3 : h[4 + i] = p[i]
  BY <1>1, <1>2 DEF IsReply
<1>4. h[5] = 193
  <2>1. h[4 + 1] = p[1]
    BY <1>3
  <2> QED BY <2>1, <1>1
<1>5. Greeting(h, 8)
  BY <1>3, <1>4 DEF Greeting, Bytes
<1> QED BY <1>1, <1>2, <1>5 DEF h

LEMMA SessionReply ==
    ASSUME NEW p, p = <<SVC_SESSION_OK, SVC_SESSION_KDS>>
    PROVE  p \in Seq(Byte) /\ p # <<>> /\ IsReply(Reply(p), p) /\ Greeting(Reply(p), 7)
<1> DEFINE h == Reply(p)
<1>1. p \in Seq(Byte) /\ Len(p) = 2 /\ p[1] = 80 /\ p[2] = 128 /\ p # <<>>
  BY DEF SVC_SESSION_OK, SVC_SESSION_KDS, Byte
<1>2. IsReply(h, p)
  <2>1. Short(p)
    BY <1>1 DEF Short
  <2>2. p \in Seq(Byte)
    BY <1>1
  <2> QED BY <2>1, <2>2, ReplyBytes
<1> HIDE DEF h
<1>3. /\ h \in Seq(Byte) /\ Len(h) = 7 /\ h[2] = 242 /\ h[3] = 17
      /\ \A i \in 1..2 : h[4 + i] = p[i]
  BY <1>1, <1>2 DEF IsReply
<1>4. h[5] = 80
  <2>1. h[4 + 1] = p[1]
    BY <1>3
  <2> QED BY <2>1, <1>1
<1>5. Greeting(h, 7)
  BY <1>3, <1>4 DEF Greeting, Bytes
<1> QED BY <1>1, <1>2, <1>5 DEF h

\* A handshake whose echo lost a byte gets nothing,
LEMMA ShortGreeting ==
    ASSUME NEW f, Bytes(f, 0), NEW n \in {5, 6}, NEW a, Bytes(a, n - 1),
           NEW H \in {7, 8}, NEW h, Greeting(h, H), NEW x, x = AfterEcho(f \o a \o <<>> \o h, n)
    PROVE  Nothing(x)
<1> DEFINE N == 0 + (n - 1) + H - n
           E == n - 1
<1>1. Bytes(h, H) /\ h[2] = 242 /\ h[3] = 17 /\ h[5] \in {80, 193}
  BY DEF Greeting
<1>2. E \in Nat /\ H \in Nat /\ 0 \in Nat /\ n \in 0..(0 + E + H) /\ N = H - 1 /\ 0 + E + H - n = H - 1
  OBVIOUS
<1>3. LineIs(x, f, 0, a, E, h, H, n)
  <2>1. Bytes(a, E)
    OBVIOUS
  <2> HIDE DEF E
  <2> QED BY <2>1, <1>1, <1>2, LineOf
<1>4. /\ Bytes(x, 0 + E + H - n)
      /\ \A i \in 1..(0 + E + H - n) :
           x[i] = IF n + i <= 0 THEN f[n + i] ELSE IF n + i <= 0 + E THEN a[n + i - 0]
                  ELSE h[n + i - 0 - E]
  <2> HIDE DEF E
  <2> QED BY <1>3, Zenon DEF LineIs, Bytes
<1>5. Bytes(x, H - 1)
  BY <1>2, <1>4
<1>6. ASSUME NEW i \in 1..(H - 1) PROVE x[i] = h[i + 1]
  <2>1. ~(n + i <= 0) /\ ~(n + i <= 0 + E) /\ n + i - 0 - E = i + 1 /\ i \in 1..(0 + E + H - n)
    OBVIOUS
  <2> HIDE DEF E
  <2> QED BY <2>1, <1>4
<1>7. x[1] = h[2] /\ x[4] = h[5]
  BY <1>6
<1>8. TooShort(x, H - 1)
  BY <1>1, <1>7 DEF TooShort
<1> QED BY <1>5, <1>8, TooShortIsNothing

\* nor does one with noise before the echo,
LEMMA NoisyGreeting ==
    ASSUME NEW f, Bytes(f, 0), NEW n \in {5, 6}, NEW b, Bytes(b, n + 1), b[n + 1] \in {5, 21},
           NEW H \in {7, 8}, NEW h, Greeting(h, H),
           NEW x, x = AfterEcho(f \o b \o <<>> \o h, n)
    PROVE  Nothing(x)
<1> DEFINE E == n + 1
<1>1. Bytes(h, H) /\ h[2] = 242 /\ h[3] = 17 /\ h[5] \in {80, 193}
  BY DEF Greeting
<1>2. E \in Nat /\ H \in Nat /\ 0 \in Nat /\ n \in 0..(0 + E + H) /\ 0 + E + H - n = H + 1
  OBVIOUS
<1>3. LineIs(x, f, 0, b, E, h, H, n)
  <2>1. Bytes(b, E)
    OBVIOUS
  <2> HIDE DEF E
  <2> QED BY <2>1, <1>1, <1>2, LineOf
<1>4. /\ Bytes(x, 0 + E + H - n)
      /\ \A i \in 1..(0 + E + H - n) :
           x[i] = IF n + i <= 0 THEN f[n + i] ELSE IF n + i <= 0 + E THEN b[n + i - 0]
                  ELSE h[n + i - 0 - E]
  <2> HIDE DEF E
  <2> QED BY <1>3, Zenon DEF LineIs, Bytes
<1>5. Bytes(x, H + 1)
  BY <1>2, <1>4
<1>6. x[1] = b[n + 1]
  <2>1. ~(n + 1 <= 0) /\ n + 1 <= 0 + E /\ n + 1 - 0 = n + 1 /\ 1 \in 1..(0 + E + H - n)
    OBVIOUS
  <2> HIDE DEF E
  <2> QED BY <2>1, <1>4
<1>7. x[4] = h[3]
  <2>1. ~(n + 4 <= 0) /\ ~(n + 4 <= 0 + E) /\ n + 4 - 0 - E = 3 /\ 4 \in 1..(0 + E + H - n)
    OBVIOUS
  <2> HIDE DEF E
  <2> QED BY <2>1, <1>4
<1>8. TooShort(x, H + 1)
  BY <1>1, <1>6, <1>7 DEF TooShort
<1> QED BY <1>5, <1>8, TooShortIsNothing

\* with one byte left before it either,
LEMMA NoisyGreetingOutOfStep ==
    ASSUME NEW f, Bytes(f, 1), NEW b, Bytes(b, 7), b[6] = 128,
           NEW H \in {7, 8}, NEW h, Greeting(h, H),
           NEW x, x = AfterEcho(f \o b \o <<>> \o h, 6)
    PROVE  Nothing(x)
<1>1. Bytes(h, H) /\ h[2] = 242
  BY DEF Greeting
<1>2. 1 \in Nat /\ 7 \in Nat /\ H \in Nat /\ 6 \in 0..(1 + 7 + H) /\ 1 + 7 + H - 6 = H + 2
  OBVIOUS
<1>3. LineIs(x, f, 1, b, 7, h, H, 6)
  BY <1>1, <1>2, LineOf
<1>4. /\ Bytes(x, 1 + 7 + H - 6)
      /\ \A i \in 1..(1 + 7 + H - 6) :
           x[i] = IF 6 + i <= 1 THEN f[6 + i] ELSE IF 6 + i <= 1 + 7 THEN b[6 + i - 1]
                  ELSE h[6 + i - 1 - 7]
  BY <1>3, Zenon DEF LineIs, Bytes
<1>5. x[1] = b[6] /\ x[4] = h[2]
  BY <1>4
<1>6. TooShort(x, 1 + 7 + H - 6)
  BY <1>1, <1>5 DEF TooShort
<1> QED BY <1>4, <1>6, TooShortIsNothing

\* nor one without an answer.
LEMMA UnansweredGreeting ==
    ASSUME NEW k \in {0, 1}, NEW f, Bytes(f, k), NEW n \in {5, 6}, NEW e, Bytes(e, n),
           e[n] \in {5, 21}, NEW x, x = AfterEcho(f \o e \o <<>> \o <<>>, n)
    PROVE  Nothing(x)
<1>1. n \in Nat /\ k \in Nat /\ 0 \in Nat /\ n \in 0..(k + n + 0) /\ k + n + 0 - n = k
  OBVIOUS
<1>2. LineIs(x, f, k, e, n, <<>>, 0, n)
  BY <1>1, NoBytes, LineOf
<1>3. /\ Bytes(x, k + n + 0 - n)
      /\ \A i \in 1..(k + n + 0 - n) :
           x[i] = IF n + i <= k THEN f[n + i] ELSE IF n + i <= k + n THEN e[n + i - k]
                  ELSE <<>>[n + i - k - n]
  BY <1>2, Zenon DEF LineIs, Bytes
<1>4. Bytes(x, k)
  BY <1>1, <1>3
<1>5. k = 1 => x[1] = e[n]
  <2>1. k = 1 => ~(n + 1 <= k) /\ n + 1 <= k + n /\ n + 1 - k = n /\ 1 \in 1..(k + n + 0 - n)
    OBVIOUS
  <2> QED BY <2>1, <1>3
<1>6. TooShort(x, k)
  BY <1>5 DEF TooShort
<1> QED BY <1>4, <1>6, TooShortIsNothing

\* With a byte left by start_communication, the answer to the next request is
\* read one byte early, and leaves a byte at most.
LEMMA GreetingOutOfStep ==
    ASSUME NEW f, Bytes(f, 1), NEW e, Bytes(e, 6), e[6] \in {5, 21}, NEW g, NEW G, IsHeard(g, G),
           NEW x, x = AfterEcho(f \o e \o <<>> \o g, 6)
    PROVE  Left(parse_response(x).rest, {0, 1})
<1>1. G \in 0..10 /\ Bytes(g, G) /\ (G >= 3 => g[3] >= 17 \/ G = g[3] + 4)
  BY DEF IsHeard
<1>2. 1 \in Nat /\ 6 \in Nat /\ G \in Nat /\ 6 \in 0..(1 + 6 + G) /\ 1 + 6 + G - 6 = G + 1
  BY <1>1
<1>3. LineIs(x, f, 1, e, 6, g, G, 6)
  BY <1>1, <1>2, LineOf
<1>4. /\ Bytes(x, 1 + 6 + G - 6)
      /\ \A i \in 1..(1 + 6 + G - 6) :
           x[i] = IF 6 + i <= 1 THEN f[6 + i] ELSE IF 6 + i <= 1 + 6 THEN e[6 + i - 1]
                  ELSE g[6 + i - 1 - 6]
  BY <1>3, Zenon DEF LineIs, Bytes
<1>5. x[1] = e[6]
  BY <1>1, <1>4
<1>9. G >= 3 => x[4] = g[3]
  BY <1>1, <1>4
<1>6. x \in Seq(Byte) /\ Len(x) = G + 1 /\ x[1] \notin 129..191 /\ \A i \in 1..(G + 1) : x[i] \in Byte
  <2>1. Bytes(x, G + 1)
    BY <1>2, <1>4
  <2>2. x \in Seq(Byte) /\ Len(x) = G + 1
    BY <2>1 DEF Bytes
  <2>3. x[1] \notin 129..191
    BY <1>5
  <2>4. \A i \in 1..(G + 1) : x[i] \in Byte
    BY <2>2
  <2> QED BY <2>2, <2>3, <2>4, Zenon
<1>7. CASE G + 1 < 4 \/ G + 1 < 4 + x[4]
  <2>1. parse_response(x).rest = <<>>
    BY <1>6, <1>7, Incomplete
  <2>2. Shape(<<>>, 0)
    BY DEF Shape, Bytes
  <2> QED BY <2>1, <2>2 DEF Left
<1>8. CASE ~(G + 1 < 4 \/ G + 1 < 4 + x[4])
  <2>0. x[4] = g[3] /\ x[4] \in Byte
    BY <1>1, <1>6, <1>8, <1>9
  <2>1. x[4] = g[3] /\ x[4] \in Nat
    BY <2>0, ByteIsNat
  <2>2. G + 1 >= 4 /\ G + 1 <= x[4] + 6
    BY <2>1, <1>1, <1>8
  <2> QED BY <2>2, <1>6, FrameLeavesOne
<1> QED BY <1>7, <1>8

\* Only the second request of the handshake may find a byte left.
OneOnlyForSession(k, n, e) == k = 1 => n = 6 /\ e[5] = 128

\* An exchange leaves a byte at most, or has no payload.
Greeted(z, l) == (l = <<>> /\ Left(z.rest, L0)) \/ z.payload = <<>>

\* So does every exchange of the handshake.
LEMMA Handshake ==
    ASSUME late = <<>>, NEW q, NEW e, e = build_request(q),
           NEW n \in {5, 6}, SentLen(q) = n, Bytes(e, n), e[n] \in {5, 21},
           NEW k \in {0, 1}, Shape(fifo, k), OneOnlyForSession(k, n, e),
           NEW p, NEW H \in {7, 8}, NEW h, Awaited(h, H, p), Greeting(h, H),
           NEW t \in Transmissions(e, h), NEW z, z = Exchange(q, t)
    PROVE  Greeted(z, t.late)
<1> USE DEF Greeted, OneOnlyForSession
<1> DEFINE a == Tail(e)
           b == << 255 >> \o e
           c == [i \in DOMAIN e |-> 0]
           o == <<0, 0, 0, 0, 0, 0>>
           g == t.heard
           x == AfterEcho(fifo \o t.echo \o <<>> \o g, n)
<1>1. z = parse_response(x)
  BY Zenon DEF Exchange
<1>2. \/ t.echo = e /\ (g = h \/ g \in CutShort(h) \/ g \in Garbled(h)) /\ t.late = <<>>
      \/ t.echo = a /\ g = h /\ t.late = <<>>
      \/ t.echo = b /\ g = h /\ t.late = <<>>
      \/ t.echo = e /\ g = <<>>
      \/ t.echo = c /\ g = o
  <2>1. Becomes(t, e, h)
    BY Transmitted
  <2> QED BY <2>1, Zenon DEF Becomes
<1>3. ByteLost(a, e, n) /\ NoiseFirst(b, e, n)
  BY TailBytes, NoiseBytes
<1>0. Bytes(fifo, k) /\ p \in Seq(Byte) /\ p # <<>> /\ IsReply(h, p)
  BY DEF Shape, Awaited
<1>4. AllZero(c, n) /\ AllZero(o, 6)
  BY ZeroBytes, SixZeros
<1> HIDE DEF a, b, c, o, g
<1>5. Bytes(a, n - 1) /\ Bytes(b, n + 1) /\ b[n + 1] = e[n] /\ b[6] = e[5]
  <2>1. n \in 1..n /\ 5 \in 1..n /\ 1 + n = n + 1
    OBVIOUS
  <2>2. Bytes(b, n + 1) /\ \A i \in 1..n : b[1 + i] = e[i]
    BY <1>3 DEF NoiseFirst
  <2>3. Bytes(a, n - 1)
    BY <1>3 DEF ByteLost
  <2>4. b[1 + 5] = e[5] /\ b[1 + n] = e[n]
    BY <2>1, <2>2
  <2> QED BY <2>1, <2>2, <2>3, <2>4
<1>6. CASE t.echo = e /\ (g = h \/ g \in CutShort(h) \/ g \in Garbled(h)) /\ t.late = <<>>
  <2>1. x = AfterEcho(fifo \o e \o <<>> \o g, n)
    BY <1>6
  <2> HIDE DEF x
  <2>0. g = h \/ g \in CutShort(h) \/ g \in Garbled(h)
    BY <1>6
  <2>5. \E G : IsHeard(g, G)
    BY <2>0, HeardOfAnswer
  <2>2. PICK G : IsHeard(g, G)
    BY <2>5
  <2>3. CASE k = 0
    <3>1. G \in Nat /\ Bytes(g, G) /\ Bytes(fifo, 0)
      BY <2>2, <2>3, <1>0 DEF IsHeard
    <3>2. x = g
      BY <3>1, <2>1, HeardAlone
    <3>3. Left(z.rest, {0, 1})
      BY <3>2, <2>2, <1>1, HeardLeavesOne
    <3> QED BY <3>3, <1>6 DEF L0
  <2>4. CASE k = 1
    <3>1. Left(z.rest, {0, 1})
      BY <2>1, <2>2, <2>4, <1>0, <1>1, GreetingOutOfStep
    <3> QED BY <3>1, <1>6 DEF L0
  <2> QED BY <2>3, <2>4
<1>7. CASE t.echo = a /\ g = h /\ t.late = <<>>
  <2>1. x = AfterEcho(fifo \o a \o <<>> \o h, n)
    BY <1>7
  <2> HIDE DEF x
  <2>2. CASE k = 0
    <3>1. Bytes(fifo, 0)
      BY <2>2, <1>0
    <3> QED BY <2>1, <3>1, <1>1, <1>5, ShortGreeting DEF Nothing
  <2>3. CASE k = 1
    <3>1. Bytes(a, n - k)
      BY <2>3, <1>5
    <3>2. z.rest = <<>>
      BY <3>1, <2>1, <1>0, <1>1, InStepIsExact
    <3>3. Shape(<<>>, 0)
      BY DEF Shape, Bytes
    <3> QED BY <3>2, <3>3, <1>7 DEF Left, L0
  <2> QED BY <2>2, <2>3
<1>8. CASE t.echo = b /\ g = h /\ t.late = <<>>
  <2>1. x = AfterEcho(fifo \o b \o <<>> \o h, n)
    BY <1>8
  <2> HIDE DEF x
  <2>2. b[n + 1] \in {5, 21}
    BY <1>5
  <2>3. CASE k = 0
    <3>1. Bytes(fifo, 0)
      BY <2>3, <1>0
    <3> QED BY <3>1, <2>1, <2>2, <1>1, <1>5, NoisyGreeting DEF Nothing
  <2>4. CASE k = 1
    <3>1. n = 6 /\ b[6] = 128 /\ Bytes(b, 7) /\ Bytes(fifo, 1)
      BY <2>4, <1>0, <1>5
    <3> QED BY <3>1, <2>1, <1>1, NoisyGreetingOutOfStep DEF Nothing
  <2> QED BY <2>3, <2>4
<1>9. CASE t.echo = e /\ g = <<>>
  <2>1. x = AfterEcho(fifo \o e \o <<>> \o <<>>, n)
    BY <1>9
  <2> HIDE DEF x
  <2> QED BY <2>1, <1>1, <1>0, UnansweredGreeting DEF Nothing
<1>10. CASE t.echo = c /\ g = o
  <2>1. x = AfterEcho(fifo \o c \o <<>> \o o, n)
    BY <1>10
  <2> HIDE DEF x
  <2>2. k = 0 \/ n = 6
    OBVIOUS
  <2>3. z.payload = <<>>
    BY <2>1, <2>2, <1>1, <1>4, HeldLowLeavesZeros
  <2> QED BY <2>3
<1> QED BY <1>2, <1>6, <1>7, <1>8, <1>9, <1>10

\* Fewer lengths are among more.
LEMMA PendsWider ==
    ASSUME NEW f, NEW l, NEW ks, NEW ms, Pends(f, l, ks), ks \subseteq ms
    PROVE  Pends(f, l, ms)
  BY DEF Pends, Left

\* Nothing is left, nothing is to come.
LEMMA PendsNothing ==
    ASSUME NEW ks, 0 \in ks
    PROVE  Pends(<<>>, <<>>, ks)
  BY ShapeOfNothing DEF Pends, Left

\* A late answer comes in.
LEMMA PendsArrived ==
    ASSUME NEW f, NEW l, NEW ks, Pends(f, l, ks), l # <<>>
    PROVE  Pends(f \o l, <<>>, ks)
<1>1. f = <<>> /\ Left(l, ks)
  BY DEF Pends
<1>2. PICK k \in ks : Shape(l, k)
  BY <1>1 DEF Left
<1>3. l \in Seq(Byte)
  BY <1>2 DEF Shape, Bytes
<1>4. f \o l = l
  BY <1>1, <1>3
<1> QED BY <1>1, <1>4 DEF Pends

\* The hypothesis on what the ECU says: engine speeds below 8256 rpm (or above
\* 12287), speeds below 129 km/h (or above 191), interlock words that do not
\* begin with such a byte.
LowValues == \A d \in RpmData \cup SpeedData \cup InterlockData : d[1] \notin 129..191

\* A refusal has no data.
LEMMA NoData == IsData(<<>>, 0)
  BY NoBytes DEF IsData

\* Two bytes of data,
LEMMA PairIsData ==
    ASSUME NEW d \in Byte \X Byte, d[1] \notin 129..191
    PROVE  IsData(d, 2)
<1>1. PICK a \in Byte, b \in Byte : d = <<a, b>>
  OBVIOUS
<1>2. d \in Seq(Byte) /\ Len(d) = 2
  BY <1>1
<1> QED BY <1>2 DEF IsData, Bytes

\* and one.
LEMMA SingleIsData ==
    ASSUME NEW d \in {<<v>> : v \in Byte}, d[1] \notin 129..191
    PROVE  IsData(d, 1)
<1>1. PICK a \in Byte : d = <<a>>
  OBVIOUS
<1>2. d \in Seq(Byte) /\ Len(d) = 1
  BY <1>1
<1> QED BY <1>2 DEF IsData, Bytes

\* What the ECU may answer is data in this sense.
LEMMA AnswersAreData ==
    ASSUME LowValues
    PROVE  /\ \A d \in Answers(RpmData) : \E l \in {0, 2} : IsData(d, l)
           /\ \A d \in Answers(SpeedData) : \E l \in {0, 1} : IsData(d, l)
           /\ \A d \in Answers(InterlockData) \cup {<<>>} : \E l \in {0, 2} : IsData(d, l)
<1>1. \A d \in RpmData \cup InterlockData : IsData(d, 2)
  BY KlineAssumption, PairIsData DEF LowValues
<1>2. \A d \in SpeedData : IsData(d, 1)
  BY KlineAssumption, SingleIsData DEF LowValues
<1> QED BY <1>1, <1>2, NoData DEF Answers

\* No data, no value.
LEMMA NothingDecodes ==
    decode_rpm(<<>>) = NoValue /\ decode_speed(<<>>) = NoValue /\ decode_interlock(<<>>) = NoValue
<1>1. Len(<<>>) = 0
  OBVIOUS
<1>2. decode_rpm(<<>>) = NoValue /\ decode_speed(<<>>) = NoValue
  BY <1>1 DEF decode_rpm, decode_speed
<1>3. decode_interlock(<<>>) = NoValue
  BY DEF decode_interlock
<1> QED BY <1>2, <1>3

\* No payload, no handshake.
LEMMA NothingContains == \A v : ~Contains(<<>>, v)
  BY DEF Contains

\* The inductive invariant of the K-line.
KInv ==
    /\ cycle \in 0..(INTERLOCK_EVERY_N_CYCLES - 1)
    /\ answered \in [Registers -> Seq(Byte)]
    /\ InStep
    /\ NoForeignValue

\* The three registers differ.
LEMMA DistinctRegisters ==
    REG_RPM \in Registers /\ REG_SPEED \in Registers /\ REG_INTERLOCK \in Registers
    /\ REG_RPM # REG_SPEED /\ REG_RPM # REG_INTERLOCK /\ REG_SPEED # REG_INTERLOCK
  BY DEF Registers, REG_RPM, REG_SPEED, REG_INTERLOCK

\* What the handshake waits for.
LEMMA GreetingAwaited ==
    ASSUME NEW H \in {7, 8}, NEW h, Greeting(h, H), NEW p \in Seq(Byte), p # <<>>, IsReply(h, p)
    PROVE  Awaited(h, H, p)
<1>1. Bytes(h, H) /\ h[5] \in {80, 193}
  BY DEF Greeting
<1>2. H \in 7..9 /\ h[5] >= 17
  BY <1>1
<1> QED BY <1>1, <1>2 DEF Awaited

\* start_communication goes on only with a byte left at most.
LEMMA StartCommunicationKeepsStep ==
    ASSUME KInv, ~VeryLate, StartCommunication
    PROVE  pc' = "telemetry" \/ (pc' = "session" /\ late' = <<>> /\ Left(fifo', L0))
<1> DEFINE q == <<SVC_START>>
           p == <<SVC_START_OK, 234, 143>>
           e == build_request(q)
           h == Reply(p)
<1>1. PICK t \in Transmissions(e, h) :
        /\ OnWire(q, t)
        /\ pc' = IF Contains(Exchange(q, t).payload, SVC_START_OK) THEN "session" ELSE "telemetry"
  BY Zenon DEF StartCommunication
<1>2. Bytes(e, 5) /\ e[5] \in {5, 21} /\ SentLen(q) = 5
  BY StartBytes DEF SentLen
<1>3. Awaited(h, 8, p) /\ Greeting(h, 8)
  BY StartReply, GreetingAwaited
<1>4. fifo = <<>> /\ late = <<>>
  BY DEF KInv, InStep, StartCommunication
<1>5. Shape(fifo, 0)
  BY <1>4, ShapeOfNothing
<1> DEFINE z == Exchange(q, t)
<1>6. fifo' = z.rest /\ late' = t.late
  BY <1>1 DEF OnWire
<1> HIDE DEF p, h, e
<1>7. Greeted(z, t.late)
  <2>1. OneOnlyForSession(0, 5, e) /\ 5 \in {5, 6} /\ 0 \in {0, 1} /\ 8 \in {7, 8}
    BY DEF OneOnlyForSession
  <2>2. e = build_request(q)
    BY DEF e
  <2> HIDE DEF q
  <2> QED BY <2>1, <2>2, <1>1, <1>2, <1>3, <1>4, <1>5, Handshake
<1>8. pc' = IF Contains(z.payload, SVC_START_OK) THEN "session" ELSE "telemetry"
  BY <1>1
<1> HIDE DEF q, z
<1> QED BY <1>6, <1>7, <1>8, NothingContains DEF Greeted

\* The link is up only with a byte left at most.
LEMMA StartSessionKeepsStep ==
    ASSUME KInv, ~VeryLate, StartSession
    PROVE  \/ connected' = FALSE /\ pc' = "telemetry"
           \/ connected' = TRUE /\ pc' = "rpm" /\ late' = <<>> /\ Left(fifo', L0)
<1> DEFINE q == <<SVC_SESSION, SVC_SESSION_KDS>>
           p == <<SVC_SESSION_OK, SVC_SESSION_KDS>>
           e == build_request(q)
           h == Reply(p)
<1>1. PICK t \in Transmissions(e, h) :
        OnWire(q, t) /\ connected' = Contains(Exchange(q, t).payload, SVC_SESSION_OK)
  BY Zenon DEF StartSession
<1>2. Bytes(e, 6) /\ e[5] = 128 /\ e[6] \in {5, 21} /\ SentLen(q) = 6
  BY SessionBytes DEF SentLen
<1>3. Awaited(h, 7, p) /\ Greeting(h, 7)
  BY SessionReply, GreetingAwaited
<1>4. late = <<>> /\ Left(fifo, L0)
  BY DEF KInv, InStep, StartSession
<1>5. PICK k \in {0, 1} : Shape(fifo, k)
  BY <1>4 DEF Left, L0
<1> DEFINE z == Exchange(q, t)
<1>6. fifo' = z.rest /\ late' = t.late
  BY <1>1 DEF OnWire
<1> HIDE DEF p, h, e
<1>7. Greeted(z, t.late)
  <2>1. OneOnlyForSession(k, 6, e) /\ 6 \in {5, 6} /\ 7 \in {7, 8}
    BY <1>2 DEF OneOnlyForSession
  <2>2. e = build_request(q)
    BY DEF e
  <2> HIDE DEF q
  <2> QED BY <2>1, <2>2, <1>1, <1>2, <1>3, <1>4, <1>5, Handshake
<1>8. connected' = Contains(z.payload, SVC_SESSION_OK)
  BY <1>1
<1> HIDE DEF q, z
<1>9. connected' \in BOOLEAN
  BY <1>8 DEF Contains
<1>10. pc' = IF connected' THEN "rpm" ELSE "telemetry"
  BY DEF StartSession
<1> QED BY <1>6, <1>7, <1>8, <1>9, <1>10, NothingContains DEF Greeted

\* The invariant is kept by the read of the engine speed,
LEMMA RpmKeepsStep ==
    ASSUME KInv, ~VeryLate, LowValues, ReadRpm
    PROVE  KInv'
<1>0. PICK d \in Answers(RpmData) : \E t \in Sent(REG_RPM, d) :
        ReadRegister(REG_RPM, d, t) /\ rpm' = decode_rpm(Returned(REG_RPM, t))
  BY DEF ReadRpm
<1>1. PICK t \in Sent(REG_RPM, d) :
        ReadRegister(REG_RPM, d, t) /\ rpm' = decode_rpm(Returned(REG_RPM, t))
  BY <1>0
<1> DEFINE r == Returned(REG_RPM, t)
           ks == IF cycle = 0 THEN L1 ELSE L2
           ms == IF cycle = 0 THEN L2 ELSE L3
<1>2. /\ pc = "rpm" /\ pc' = "speed" /\ connected' = connected /\ speed' = speed /\ cycle' = cycle
      /\ answered' = [answered EXCEPT ![REG_RPM] = d] /\ OnWire(<<SVC_READ, REG_RPM>>, t)
      /\ garbled' = IF t.garbled THEN garbled \cup {REG_RPM} ELSE garbled \ {REG_RPM}
  BY <1>1 DEF ReadRpm, ReadRegister
<1>3. connected /\ Pends(fifo, late, ks) /\ cycle \in 0..(INTERLOCK_EVERY_N_CYCLES - 1)
  BY <1>2 DEF KInv, InStep
<1>4. PICK l \in {0, 2} : IsData(d, l)
  BY AnswersAreData
<1>5. /\ ks \subseteq {0, 1, 2, 3, 8, 9} /\ 0 \in ms /\ 1 \in ms /\ (\A k \in ks : k + 1 \in ms)
      /\ l \in {0, 1, 2} /\ AnswerLen(l) \in ms
  BY DEF L1, L2, L3, AnswerLen
<1>6. Got(r, d) \/ Misread(t) \/ Missed(r, ms)
  <2> HIDE DEF ks, ms
  <2> QED BY <1>2, <1>3, <1>4, <1>5, ReadStep, DistinctRegisters
<1>7. rpm' = decode_rpm(r)
  BY <1>1
<1> HIDE DEF r
<1>8. Pends(fifo', late', IF rpm' # NoValue THEN L0 ELSE ms)
  <2>0. L0 \subseteq (IF rpm' # NoValue THEN L0 ELSE ms) /\ 0 \in L0
    BY <1>5 DEF L0
  <2>1. CASE Got(r, d)
    <3>1. 0 \in (IF rpm' # NoValue THEN L0 ELSE ms)
      BY <2>0
    <3> HIDE DEF ms
    <3> QED BY <2>1, <3>1, PendsNothing DEF Got
  <2>2. CASE Misread(t)
    <3> HIDE DEF ms
    <3> QED BY <2>0, <2>2, PendsWider DEF Misread
  <2>3. CASE Missed(r, ms)
    <3>1. rpm' = NoValue
      BY <1>7, <2>3, NothingDecodes DEF Missed
    <3> HIDE DEF ms
    <3> QED BY <2>3, <3>1 DEF Missed
  <2> QED BY <1>6, <2>1, <2>2, <2>3
<1>9. InStep'
  BY <1>2, <1>3, <1>8 DEF InStep
<1>10. d \in Seq(Byte)
  BY <1>4 DEF IsData, Bytes
<1>11. /\ answered' \in [Registers -> Seq(Byte)] /\ answered'[REG_RPM] = d
       /\ answered'[REG_SPEED] = answered[REG_SPEED]
  BY <1>2, <1>10, DistinctRegisters DEF KInv
<1>12. t.garbled \/ rpm' \in {NoValue, decode_rpm(d)}
  BY <1>6, <1>7, NothingDecodes DEF Got, Misread, Missed
<1>13. NoForeignValue'
  BY <1>2, <1>11, <1>12, DistinctRegisters DEF KInv, NoForeignValue
<1> QED BY <1>2, <1>3, <1>9, <1>11, <1>13 DEF KInv

\* by the read of the speed,
LEMMA SpeedKeepsStep ==
    ASSUME KInv, ~VeryLate, LowValues, ReadSpeed
    PROVE  KInv'
<1>0. PICK d \in Answers(SpeedData) : \E t \in Sent(REG_SPEED, d) :
        ReadRegister(REG_SPEED, d, t) /\ speed' = decode_speed(Returned(REG_SPEED, t))
  BY DEF ReadSpeed
<1>1. PICK t \in Sent(REG_SPEED, d) :
        ReadRegister(REG_SPEED, d, t) /\ speed' = decode_speed(Returned(REG_SPEED, t))
  BY <1>0
<1> DEFINE r == Returned(REG_SPEED, t)
<1>2. /\ pc = "speed" /\ connected' = connected /\ rpm' = rpm /\ cycle' = cycle
      /\ pc' = (IF cycle = 0 THEN "interlock" ELSE "link")
      /\ answered' = [answered EXCEPT ![REG_SPEED] = d] /\ OnWire(<<SVC_READ, REG_SPEED>>, t)
      /\ garbled' = IF t.garbled THEN garbled \cup {REG_SPEED} ELSE garbled \ {REG_SPEED}
  BY <1>1 DEF ReadSpeed, ReadRegister
<1>3. /\ connected /\ cycle \in 0..(INTERLOCK_EVERY_N_CYCLES - 1)
      /\ Pends(fifo, late, IF rpm # NoValue THEN L0 ELSE IF cycle = 0 THEN L2 ELSE L3)
  BY <1>2 DEF KInv, InStep
<1>4. PICK l \in {0, 1} : IsData(d, l)
  BY AnswersAreData
<1>5. l \in {0, 1, 2} /\ AnswerLen(l) = 8
  BY DEF AnswerLen
<1>6. \/ Got(r, d) \/ Misread(t)
      \/ /\ r = <<>>
         /\ rpm # NoValue => Pends(fifo', late', L1)
         /\ rpm = NoValue /\ cycle = 0 => Pends(fifo', late', L3)
  <2>1. CASE rpm # NoValue
    <3>1. L0 \subseteq {0, 1, 2, 3, 8, 9} /\ 0 \in L1 /\ (\A k \in L0 : k + 1 \in L1) /\ 8 \in L1
      BY DEF L0, L1
    <3>2. Pends(fifo, late, L0)
      BY <1>3, <2>1
    <3>3. Got(r, d) \/ Misread(t) \/ Missed(r, L1)
      BY <1>2, <1>4, <1>5, <3>1, <3>2, ReadStep, DistinctRegisters
    <3> QED BY <2>1, <3>3 DEF Missed
  <2>2. CASE rpm = NoValue /\ cycle = 0
    <3>1. L2 \subseteq {0, 1, 2, 3, 8, 9} /\ 0 \in L3 /\ (\A k \in L2 : k + 1 \in L3) /\ 8 \in L3
      BY DEF L2, L3
    <3>2. Pends(fifo, late, L2)
      BY <1>3, <2>2
    <3>3. Got(r, d) \/ Misread(t) \/ Missed(r, L3)
      BY <1>2, <1>4, <1>5, <3>1, <3>2, ReadStep, DistinctRegisters
    <3> QED BY <2>2, <3>3 DEF Missed
  <2>3. CASE rpm = NoValue /\ cycle # 0
    <3>1. Pends(fifo, late, L3)
      BY <1>3, <2>3
    <3>2. Got(r, d) \/ Misread(t) \/ r = <<>>
      BY <1>2, <1>4, <1>5, <3>1, LastReadStep, DistinctRegisters
    <3> QED BY <2>3, <3>2
  <2> QED BY <2>1, <2>2, <2>3
<1>7. speed' = decode_speed(r)
  BY <1>1
<1> HIDE DEF r
<1>8. /\ pc' = "interlock" => Pends(fifo', late', IF BothMissing' THEN L3 ELSE L1)
      /\ pc' = "link" /\ ~BothMissing' => Pends(fifo', late', L1)
  <2>1. CASE Got(r, d)
    <3>1. 0 \in (IF BothMissing' THEN L3 ELSE L1) /\ 0 \in L1
      BY DEF L1, L3
    <3> QED BY <2>1, <3>1, PendsNothing DEF Got
  <2>2. CASE Misread(t)
    <3>1. L0 \subseteq (IF BothMissing' THEN L3 ELSE L1) /\ L0 \subseteq L1
      BY DEF L0, L1, L3
    <3> QED BY <2>2, <3>1, PendsWider DEF Misread
  <2>3. CASE ~Got(r, d) /\ ~Misread(t)
    <3>1. speed' = NoValue
      BY <1>6, <1>7, <2>3, NothingDecodes
    <3>2. (pc' = "interlock" <=> cycle = 0) /\ (pc' = "link" <=> cycle # 0)
      BY <1>2
    <3> QED BY <1>2, <1>6, <2>3, <3>1, <3>2 DEF BothMissing
  <2> QED BY <2>1, <2>2, <2>3
<1>9. InStep'
  BY <1>2, <1>3, <1>8 DEF InStep
<1>10. d \in Seq(Byte)
  BY <1>4 DEF IsData, Bytes
<1>11. /\ answered' \in [Registers -> Seq(Byte)] /\ answered'[REG_SPEED] = d
       /\ answered'[REG_RPM] = answered[REG_RPM]
  BY <1>2, <1>10, DistinctRegisters DEF KInv
<1>12. t.garbled \/ speed' \in {NoValue, decode_speed(d)}
  BY <1>6, <1>7, NothingDecodes DEF Got, Misread
<1>13. NoForeignValue'
  BY <1>2, <1>11, <1>12, DistinctRegisters DEF KInv, NoForeignValue
<1> QED BY <1>2, <1>3, <1>9, <1>11, <1>13 DEF KInv

\* by the read of the interlock,
LEMMA InterlockKeepsStep ==
    ASSUME KInv, ~VeryLate, LowValues, ReadInterlock
    PROVE  KInv'
<1>0. PICK d \in Answers(InterlockData) \cup {<<>>} : \E t \in Sent(REG_INTERLOCK, d) :
        ReadRegister(REG_INTERLOCK, d, t) /\ interlock' = decode_interlock(Returned(REG_INTERLOCK, t))
  BY DEF ReadInterlock
<1>1. PICK t \in Sent(REG_INTERLOCK, d) :
        ReadRegister(REG_INTERLOCK, d, t) /\ interlock' = decode_interlock(Returned(REG_INTERLOCK, t))
  BY <1>0
<1> DEFINE r == Returned(REG_INTERLOCK, t)
<1>2. /\ pc = "interlock" /\ pc' = "link" /\ connected' = connected /\ rpm' = rpm /\ speed' = speed
      /\ cycle' = cycle /\ answered' = [answered EXCEPT ![REG_INTERLOCK] = d]
      /\ OnWire(<<SVC_READ, REG_INTERLOCK>>, t)
      /\ garbled' = IF t.garbled THEN garbled \cup {REG_INTERLOCK} ELSE garbled \ {REG_INTERLOCK}
  BY <1>1 DEF ReadInterlock, ReadRegister
<1>3. /\ connected /\ cycle \in 0..(INTERLOCK_EVERY_N_CYCLES - 1) /\ cycle = 0
      /\ Pends(fifo, late, IF BothMissing THEN L3 ELSE L1)
  BY <1>2 DEF KInv, InStep
<1>4. PICK l \in {0, 2} : IsData(d, l)
  BY AnswersAreData
<1>5. l \in {0, 1, 2} /\ AnswerLen(l) \in L2
  BY DEF AnswerLen, L2
<1>6. Got(r, d) \/ Misread(t) \/ (r = <<>> /\ (~BothMissing => Pends(fifo', late', L2)))
  <2>1. CASE BothMissing
    <3>1. Pends(fifo, late, L3)
      BY <1>3, <2>1
    <3>2. Got(r, d) \/ Misread(t) \/ r = <<>>
      BY <1>2, <1>4, <1>5, <3>1, LastReadStep, DistinctRegisters
    <3> QED BY <2>1, <3>2
  <2>2. CASE ~BothMissing
    <3>1. L1 \subseteq {0, 1, 2, 3, 8, 9} /\ 0 \in L2 /\ \A k \in L1 : k + 1 \in L2
      BY DEF L1, L2
    <3>2. Pends(fifo, late, L1)
      BY <1>3, <2>2
    <3>3. Got(r, d) \/ Misread(t) \/ Missed(r, L2)
      BY <1>2, <1>4, <1>5, <3>1, <3>2, ReadStep, DistinctRegisters
    <3> QED BY <3>3 DEF Missed
  <2> QED BY <2>1, <2>2
<1>7. interlock' = decode_interlock(r)
  BY <1>1
<1> HIDE DEF r
<1>8. ~BothMissing' => Pends(fifo', late', L2)
  <2>1. 0 \in L2 /\ L0 \subseteq L2
    BY DEF L0, L2
  <2>2. CASE Got(r, d)
    BY <2>1, <2>2, PendsNothing DEF Got
  <2>3. CASE Misread(t)
    BY <2>1, <2>3, PendsWider DEF Misread
  <2>4. CASE ~Got(r, d) /\ ~Misread(t)
    BY <1>2, <1>6, <2>4 DEF BothMissing
  <2> QED BY <2>2, <2>3, <2>4
<1>9. InStep'
  BY <1>2, <1>3, <1>8 DEF InStep
<1>10. d \in Seq(Byte)
  BY <1>4 DEF IsData, Bytes
<1>11. /\ answered' \in [Registers -> Seq(Byte)] /\ answered'[REG_INTERLOCK] = d
       /\ answered'[REG_RPM] = answered[REG_RPM] /\ answered'[REG_SPEED] = answered[REG_SPEED]
  BY <1>2, <1>10, DistinctRegisters DEF KInv
<1>12. t.garbled \/ interlock' \in {NoValue, decode_interlock(d)}
  BY <1>6, <1>7, NothingDecodes DEF Got, Misread
<1>13. NoForeignValue'
  BY <1>2, <1>11, <1>12, DistinctRegisters DEF KInv, NoForeignValue
<1> QED BY <1>2, <1>3, <1>9, <1>11, <1>13 DEF KInv

\* holds at boot,
LEMMA LineStarts == Init => KInv
<1> SUFFICES ASSUME Init PROVE KInv
  OBVIOUS
<1>1. cycle \in 0..(INTERLOCK_EVERY_N_CYCLES - 1)
  BY KlineAssumption DEF Init
<1>2. answered \in [Registers -> Seq(Byte)]
  <2>1. <<>> \in Seq(Byte)
    BY NoBytes DEF Bytes
  <2> QED BY <2>1 DEF Init
<1>3. InStep /\ NoForeignValue
  BY DEF Init, InStep, NoForeignValue
<1> QED BY <1>1, <1>2, <1>3 DEF KInv

\* is kept by the loop's other steps and by the ECU's resets,
LEMMA CycleKeepsStep ==
    ASSUME KInv, Poll \/ Reconnect \/ ReconnectNotDue \/ CheckLink \/ OtaPause \/ SessionLost
    PROVE  KInv'
<1>1. CASE Poll
  BY <1>1 DEF Poll, Top, KInv, InStep, NoForeignValue, lineVars
<1>2. CASE Reconnect
  BY <1>2 DEF Reconnect, Top, KInv, InStep, NoForeignValue, lineVars
<1>3. CASE ReconnectNotDue
  BY <1>3 DEF ReconnectNotDue, Top, KInv, InStep, NoForeignValue, lineVars
<1>4. CASE CheckLink
  BY <1>4 DEF CheckLink, KInv, InStep, NoForeignValue, BothMissing, lineVars
<1>5. CASE OtaPause
  BY <1>5 DEF OtaPause, KInv, InStep, NoForeignValue, valueVars
<1>6. CASE SessionLost
  BY <1>6 DEF SessionLost, KInv, InStep, NoForeignValue, BothMissing, valueVars
<1> QED BY <1>1, <1>2, <1>3, <1>4, <1>5, <1>6

\* by the end of a cycle: a cycle that reads the interlock is followed by one
\* that does not,
LEMMA TelemetryKeepsStep ==
    ASSUME KInv, Telemetry
    PROVE  KInv'
<1> DEFINE N == INTERLOCK_EVERY_N_CYCLES
<1>1. /\ pc = "telemetry" /\ pc' = "top" /\ cycle' = (cycle + 1) % N
      /\ UNCHANGED <<fifo, late, connected, rpm, speed, interlock, answered, garbled>>
  BY DEF Telemetry, lineVars, valueVars
<1>2. N \in Nat /\ N > 1 /\ cycle \in 0..(N - 1)
  BY KlineAssumption DEF KInv
<1> HIDE DEF N
<1>3. cycle' \in 0..(N - 1) /\ (cycle = 0 => cycle' # 0)
  BY <1>1, <1>2
<1>4. connected => Pends(fifo, late, IF cycle = 0 THEN L2 ELSE L1)
  BY <1>1 DEF KInv, InStep
<1>5. L1 \subseteq L2
  BY DEF L1, L2
<1>6. connected => Pends(fifo, late, IF cycle' = 0 THEN L1 ELSE L2)
  <2>1. CASE cycle = 0
    BY <1>3, <1>4, <2>1
  <2>2. CASE cycle # 0
    BY <1>4, <1>5, <2>2, PendsWider
  <2> QED BY <2>1, <2>2
<1>7. InStep'
  BY <1>1, <1>6 DEF InStep
<1>8. NoForeignValue' /\ answered' \in [Registers -> Seq(Byte)]
  BY <1>1 DEF KInv, NoForeignValue
<1> QED BY <1>3, <1>7, <1>8 DEF KInv, N

\* by a late answer,
LEMMA LateKeepsStep ==
    ASSUME KInv, LateArrives
    PROVE  KInv'
<1>1. /\ late # <<>> /\ fifo' = fifo \o late /\ late' = <<>>
      /\ UNCHANGED <<connected, pc, cycle, rpm, speed, interlock, answered, garbled>>
  BY DEF LateArrives, valueVars
<1>2. \A ks : Pends(fifo, late, ks) => Pends(fifo', late', ks)
  BY <1>1, PendsArrived
<1>3. InStep'
  BY <1>1, <1>2 DEF KInv, InStep, BothMissing
<1> QED BY <1>1, <1>3 DEF KInv, NoForeignValue

\* and by the handshake.
LEMMA HandshakeKeepsStep ==
    ASSUME KInv, ~VeryLate, FastInit \/ StartCommunication \/ StartSession
    PROVE  KInv'
<1>1. CASE FastInit
  BY <1>1 DEF FastInit, KInv, InStep, NoForeignValue, valueVars
<1>2. CASE StartCommunication
  <2>1. /\ pc = "start" /\ ~connected /\ connected' = connected
        /\ UNCHANGED <<cycle, rpm, speed, interlock, answered, garbled>>
    BY <1>2 DEF StartCommunication, KInv, InStep, valueVars
  <2>2. pc' = "telemetry" \/ (pc' = "session" /\ late' = <<>> /\ Left(fifo', L0))
    BY <1>2, StartCommunicationKeepsStep
  <2>3. InStep'
    BY <2>1, <2>2 DEF InStep
  <2> QED BY <2>1, <2>2, <2>3 DEF KInv, NoForeignValue
<1>3. CASE StartSession
  <2>1. UNCHANGED <<cycle, rpm, speed, interlock, answered, garbled>>
    BY <1>3 DEF StartSession, valueVars
  <2>2. \/ connected' = FALSE /\ pc' = "telemetry"
        \/ connected' = TRUE /\ pc' = "rpm" /\ late' = <<>> /\ Left(fifo', L0)
    BY <1>3, StartSessionKeepsStep
  <2>3. late' = <<>> /\ Left(fifo', L0) => Pends(fifo', late', IF cycle' = 0 THEN L1 ELSE L2)
    BY DEF L0, L1, L2, Left, Pends
  <2>4. InStep'
    BY <2>2, <2>3 DEF InStep
  <2> QED BY <2>1, <2>2, <2>4 DEF KInv, NoForeignValue
<1> QED BY <1>1, <1>2, <1>3

\* For all data of the ECU, periods of the interlock and numbers of faults: as
\* long as late answers come before the next request and no value's first byte
\* can be taken for a short length, a value that read_register returned is the
\* one the ECU gave in answer to that very request (kds.rs), whatever was lost,
\* cut, added or late before, unless that answer itself lost or gained a byte.
THEOREM ReadsAnswerTheirRequest ==
    ASSUME ~VeryLate, LowValues
    PROVE  Spec => []NoForeignValue
<1>1. KInv /\ [Next]_vars => KInv'
  <2> SUFFICES ASSUME KInv, [Next]_vars PROVE KInv'
    OBVIOUS
  <2>1. CASE Next
    <3>1. CASE Poll \/ Reconnect \/ ReconnectNotDue \/ CheckLink \/ OtaPause \/ SessionLost
      BY <3>1, CycleKeepsStep
    <3>2. CASE FastInit \/ StartCommunication \/ StartSession
      BY <3>2, HandshakeKeepsStep
    <3>3. CASE ReadRpm
      BY <3>3, RpmKeepsStep
    <3>4. CASE ReadSpeed
      BY <3>4, SpeedKeepsStep
    <3>5. CASE ReadInterlock
      BY <3>5, InterlockKeepsStep
    <3>6. CASE Telemetry
      BY <3>6, TelemetryKeepsStep
    <3>7. CASE LateArrives
      BY <3>7, LateKeepsStep
    <3> QED BY <2>1, <3>1, <3>2, <3>3, <3>4, <3>5, <3>6, <3>7 DEF Next, Loop
  <2>2. CASE UNCHANGED vars
    BY <2>2 DEF vars, lineVars, valueVars, KInv, InStep, BothMissing, NoForeignValue
  <2> QED BY <2>1, <2>2
<1>2. KInv => NoForeignValue
  BY DEF KInv
<1> QED BY <1>1, <1>2, LineStarts, PTL DEF Spec
=============================================================================
