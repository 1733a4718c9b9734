---------------------------- MODULE InterfaceProofs ----------------------------
(***************************************************************************)
(* The user interface, for every set of labels and functions, every text   *)
(* and every table: the formula field with its popup, and a window's       *)
(* session.                                                                *)
(*                                                                         *)
(* The field's proofs are about the scanner.  It takes a text apart from   *)
(* the left, so what is before a new word or quote is scanned as if it     *)
(* stood alone (TokensSplit), unless a quote is open there; and a          *)
(* suggestion inserted there is scanned as its name and nothing more       *)
(* (InsertReads), whatever follows it.                                     *)
(***************************************************************************)
EXTENDS FormulaField, GridSession, SequenceTheorems, WellFoundedInduction, TLAPS

\* A nonempty set of naturals has a least element.
LEMMA LeastNatural ==
    ASSUME NEW S \in SUBSET Nat, S # {}
    PROVE  \E m \in S : \A n \in S : m <= n
<1> DEFINE R == OpToRel(<, Nat)
<1>1. \A m, n \in Nat : <<m, n>> \in R <=> m < n
  BY DEF OpToRel
<1>2. IsWellFoundedOn(R, Nat)
  BY NatLessThanWellFounded
<1> HIDE DEF R
<1>3. PICK m \in S : \A n \in S : ~ (<<n, m>> \in R)
  BY <1>2, WFMin
<1>4. \A n \in S : m <= n
  <2> SUFFICES ASSUME NEW n \in S PROVE m <= n
    OBVIOUS
  <2>1. m \in Nat /\ n \in Nat /\ ~ (<<n, m>> \in R)
    BY <1>3
  <2>2. ~ (n < m)
    BY <1>1, <2>1
  <2> QED
    BY <2>1, <2>2
<1> QED
  BY <1>4

\* A set that holds 0 and, up to n, the successors of its elements holds every
\* number up to n.
LEMMA UpToInduction ==
    ASSUME NEW n \in Nat, NEW S, 0 \in S, \A i \in 1 .. n : i - 1 \in S => i \in S
    PROVE  0 .. n \subseteq S
<1> SUFFICES ASSUME NEW k \in 0 .. n, k \notin S PROVE FALSE
  OBVIOUS
<1> DEFINE T == (0 .. n) \ S
<1>1. PICK m \in T : \A i \in T : m <= i
  <2>1. T \in SUBSET Nat /\ T # {}
    OBVIOUS
  <2> HIDE DEF T
  <2> QED
    BY <2>1, LeastNatural
<1>2. m \in 1 .. n /\ m - 1 \in 0 .. n /\ m - 1 \notin T
  BY <1>1
<1> QED
  BY <1>1, <1>2

\* A loop of n turns.
Unfolds(f, n, base, step) ==
    f = [i \in 0 .. n |-> IF i = 0 THEN base ELSE step[i][f[i - 1]]]

LEMMA LoopExists ==
    ASSUME NEW n \in Nat, NEW S, NEW base \in S, NEW step \in [1 .. n -> [S -> S]]
    PROVE  \E f \in [0 .. n -> S] : Unfolds(f, n, base, step)
<1> DEFINE T == {k \in 0 .. n : \E f \in [0 .. k -> S] : Unfolds(f, k, base, step)}
<1>1. 0 \in T
  <2> DEFINE h == [i \in 0 .. 0 |-> base]
  <2>1. h \in [0 .. 0 -> S] /\ Unfolds(h, 0, base, step)
    BY DEF Unfolds
  <2> QED
    BY <2>1
<1>2. ASSUME NEW k \in 1 .. n, k - 1 \in T
      PROVE  k \in T
  <2>1. PICK f \in [0 .. k - 1 -> S] : Unfolds(f, k - 1, base, step)
    BY <1>2
  <2> DEFINE h == [i \in 0 .. k |-> IF i = k THEN step[k][f[k - 1]] ELSE f[i]]
  <2>2. h \in [0 .. k -> S]
    <3>1. f[k - 1] \in S /\ step[k] \in [S -> S]
      OBVIOUS
    <3> QED
      BY <3>1
  <2>3. ASSUME NEW i \in 0 .. k
        PROVE  h[i] = IF i = 0 THEN base ELSE step[i][h[i - 1]]
    <3>1. CASE i = k
      BY <3>1
    <3>2. CASE i # k
      <4>1. i \in 0 .. k - 1 /\ h[i] = f[i]
        BY <3>2
      <4>2. f[i] = IF i = 0 THEN base ELSE step[i][f[i - 1]]
        BY <2>1, <4>1 DEF Unfolds
      <4>3. i # 0 => h[i - 1] = f[i - 1]
        BY <3>2
      <4> QED
        BY <4>1, <4>2, <4>3
    <3> QED
      BY <3>1, <3>2
  <2> HIDE DEF h
  <2>4. Unfolds(h, k, base, step)
    BY <2>2, <2>3 DEF Unfolds
  <2> QED
    BY <2>2, <2>4
<1> HIDE DEF T
<1>3. 0 .. n \subseteq T
  BY <1>1, <1>2, UpToInduction
<1> QED
  BY <1>3 DEF T

\* Its values, turn by turn, whichever function is chosen.
LEMMA LoopStep ==
    ASSUME NEW n \in Nat, NEW base, NEW step, NEW f, Unfolds(f, n, base, step)
    PROVE  f[0] = base /\ \A i \in 1 .. n : f[i] = step[i][f[i - 1]]
<1>1. \A i \in 0 .. n : f[i] = IF i = 0 THEN base ELSE step[i][f[i - 1]]
  BY DEF Unfolds
<1> QED
  BY <1>1
-------------------------------------------------------------------------------
(* The scanner's parts. *)

LEMMA MaxIs ==
    ASSUME NEW S \in SUBSET Int, NEW m \in S, \A n \in S : n <= m
    PROVE  Max(S) = m
<1>1. \A x \in S : (\A n \in S : x >= n) => x = m
  OBVIOUS
<1>2. \A n \in S : m >= n
  OBVIOUS
<1> QED
  BY <1>1, <1>2 DEF Max

LEMMA MinIs ==
    ASSUME NEW S \in SUBSET Int, NEW m \in S, \A n \in S : m <= n
    PROVE  Min(S) = m
<1>1. \A x \in S : (\A n \in S : x <= n) => x = m
  OBVIOUS
<1> QED
  BY <1>1 DEF Min

\* n characters of s are in the set, and no more.
RunOf(s, set, n) ==
    /\ n \in 0 .. Len(s)
    /\ \A i \in 1 .. n : s[i] \in set
    /\ n < Len(s) => s[n + 1] \notin set

LEMMA RunUnique ==
    ASSUME NEW s \in Text, NEW set, NEW n, RunOf(s, set, n)
    PROVE  Run(s, set) = n
<1> DEFINE S == {k \in 0 .. Len(s) : \A i \in 1 .. k : s[i] \in set}
<1>1. n \in S /\ S \in SUBSET Int
  BY DEF RunOf
<1>2. ASSUME NEW k \in S, n < k PROVE FALSE
  <2>1. n + 1 \in 1 .. k /\ n < Len(s)
    BY <1>2 DEF RunOf
  <2> QED
    BY <2>1 DEF RunOf
<1>3. \A k \in S : k <= n
  BY <1>1, <1>2
<1> HIDE DEF S
<1>4. Max(S) = n
  BY <1>1, <1>3, MaxIs
<1> QED
  BY <1>4 DEF Run, S

LEMMA RunIs ==
    ASSUME NEW s \in Text, NEW set
    PROVE  RunOf(s, set, Run(s, set))
<1> DEFINE T == {i \in 1 .. Len(s) : s[i] \notin set}
<1>0. Len(s) \in Nat
  BY DEF Text
<1>1. CASE T = {}
  <2>1. RunOf(s, set, Len(s))
    BY <1>0, <1>1 DEF RunOf
  <2> QED
    BY <2>1, RunUnique
<1>2. CASE T # {}
  <2>1. PICK m \in T : \A i \in T : m <= i
    <3>1. T \in SUBSET Nat
      OBVIOUS
    <3> HIDE DEF T
    <3> QED
      BY <1>2, <3>1, LeastNatural
  <2>2. m - 1 \in 0 .. Len(s) /\ (m - 1) + 1 = m /\ s[m] \notin set
    BY <1>0
  <2>3. \A i \in 1 .. m - 1 : s[i] \in set
    BY <1>0, <2>1
  <2>4. RunOf(s, set, m - 1)
    BY <2>2, <2>3 DEF RunOf
  <2> QED
    BY <2>4, RunUnique
<1> QED
  BY <1>1, <1>2

\* More text after the end of a run does not lengthen it.
LEMMA RunStays ==
    ASSUME NEW s \in Text, NEW y \in Text, NEW set, Run(s, set) < Len(s)
    PROVE  Run(s \o y, set) = Run(s, set)
<1> DEFINE n == Run(s, set)
<1>1. RunOf(s, set, n)
  BY RunIs
<1>2. s \o y \in Text /\ Len(s \o y) = Len(s) + Len(y) /\ Len(s) \in Nat /\ Len(y) \in Nat
      /\ \A i \in 1 .. Len(s) : (s \o y)[i] = s[i]
  BY ConcatProperties DEF Text
<1> HIDE DEF n
<1>3. n < Len(s)
  BY DEF n
<1>4. RunOf(s \o y, set, n)
  BY <1>1, <1>2, <1>3 DEF RunOf
<1>5. Run(s \o y, set) = n
  BY <1>2, <1>4, RunUnique
<1> QED
  BY <1>5 DEF n

\* The rest of a text from the n-th character on.
LEMMA FromIs ==
    ASSUME NEW s \in Text, NEW n \in 1 .. Len(s) + 1
    PROVE  /\ From(s, n) \in Text /\ Len(From(s, n)) = Len(s) + 1 - n
           /\ \A i \in 1 .. Len(s) + 1 - n : From(s, n)[i] = s[n - 1 + i]
  BY DEF From, Text

LEMMA RestIs ==
    ASSUME NEW s \in Text, NEW p \in 0 .. Len(s)
    PROVE  /\ From(s, p + 1) \in Text /\ Len(From(s, p + 1)) = Len(s) - p
           /\ \A i \in 1 .. Len(s) - p : From(s, p + 1)[i] = s[p + i]
           /\ p = Len(s) => From(s, p + 1) = << >>
           /\ p < Len(s) => From(s, p + 1) # << >> /\ From(s, p + 1)[1] = s[p + 1]
<1> DEFINE r == From(s, p + 1)
<1>1. Len(s) \in Nat /\ p + 1 \in 1 .. Len(s) + 1 /\ Len(s) + 1 - (p + 1) = Len(s) - p
  BY DEF Text
<1>2. /\ r \in Text /\ Len(r) = Len(s) + 1 - (p + 1)
      /\ \A i \in 1 .. Len(s) + 1 - (p + 1) : r[i] = s[(p + 1) - 1 + i]
  BY <1>1, FromIs
<1> HIDE DEF r
<1>3. \A i \in 1 .. Len(s) - p : (p + 1) - 1 + i = p + i
  BY <1>1
<1>4. \A i \in 1 .. Len(s) - p : r[i] = s[p + i]
  BY <1>1, <1>2, <1>3
<1>5. p = Len(s) => r = << >>
  BY <1>1, <1>2 DEF Text
<1>6. p < Len(s) => r # << >> /\ r[1] = s[p + 1]
  BY <1>1, <1>2, <1>4
<1> QED
  BY <1>1, <1>2, <1>4, <1>5, <1>6 DEF r

LEMMA SameText ==
    ASSUME NEW a \in Text, NEW b \in Text, Len(a) = Len(b), \A i \in 1 .. Len(a) : a[i] = b[i]
    PROVE  a = b
  BY SeqEqual DEF Text

LEMMA ConcatIs ==
    ASSUME NEW s \in Text, NEW y \in Text
    PROVE  /\ s \o y \in Text /\ Len(s \o y) = Len(s) + Len(y) /\ Len(s) \in Nat /\ Len(y) \in Nat
           /\ \A i \in 1 .. Len(s) : (s \o y)[i] = s[i]
           /\ \A i \in 1 .. Len(y) : (s \o y)[Len(s) + i] = y[i]
  BY ConcatProperties DEF Text

LEMMA FromFrom ==
    ASSUME NEW s \in Text, NEW p \in 0 .. Len(s), NEW q \in 0 .. Len(s) - p
    PROVE  From(From(s, p + 1), q + 1) = From(s, (p + q) + 1)
<1> DEFINE r == From(s, p + 1)
           a == From(r, q + 1)
           b == From(s, (p + q) + 1)
<1>0. Len(s) \in Nat /\ p \in Nat /\ q \in Nat /\ p + q <= Len(s)
  BY DEF Text
<1>1. r \in Text /\ Len(r) = Len(s) - p /\ \A i \in 1 .. Len(s) - p : r[i] = s[p + i]
  BY <1>0, FromIs
<1> HIDE DEF r
<1>2. a \in Text /\ Len(a) = Len(s) - (p + q) /\ \A i \in 1 .. Len(a) : a[i] = r[q + i]
  <2>1. q + 1 \in 1 .. Len(r) + 1 /\ Len(r) + 1 - (q + 1) = Len(s) - (p + q)
    <3> DEFINE n == Len(s)
               m == Len(r)
    <3>1. n \in Nat /\ p \in Nat /\ q \in Nat /\ p + q <= n /\ m = n - p
      BY <1>0, <1>1
    <3> HIDE DEF n, m
    <3>2. q + 1 \in 1 .. m + 1 /\ m + 1 - (q + 1) = n - (p + q)
      BY <3>1
    <3> QED
      BY <3>2 DEF n, m
  <2>2. /\ a \in Text /\ Len(a) = Len(r) + 1 - (q + 1)
        /\ \A i \in 1 .. Len(r) + 1 - (q + 1) : a[i] = r[(q + 1) - 1 + i]
    BY <1>1, <2>1, FromIs
  <2> HIDE DEF a
  <2>3. \A i \in Nat : (q + 1) - 1 + i = q + i
    BY <1>0
  <2> QED
    BY <1>0, <2>1, <2>2, <2>3
<1>3. b \in Text /\ Len(b) = Len(s) - (p + q) /\ \A i \in 1 .. Len(b) : b[i] = s[(p + q) + i]
  BY <1>0, FromIs
<1> HIDE DEF a, b
<1>4. ASSUME NEW i \in 1 .. Len(a) PROVE a[i] = b[i]
  <2>1. q + i \in 1 .. Len(s) - p /\ p + (q + i) = (p + q) + i
    BY <1>0, <1>2
  <2> QED
    BY <1>1, <1>2, <1>3, <2>1
<1>5. a = b
  BY <1>2, <1>3, <1>4, SameText
<1> QED
  BY <1>5 DEF a, b, r

LEMMA FromConcat ==
    ASSUME NEW s \in Text, NEW y \in Text, NEW n \in 1 .. Len(s) + 1
    PROVE  From(s \o y, n) = From(s, n) \o y
<1> DEFINE t == s \o y
           a == From(t, n)
           f == From(s, n)
           b == f \o y
<1>1. /\ t \in Text /\ Len(t) = Len(s) + Len(y) /\ Len(s) \in Nat /\ Len(y) \in Nat
      /\ \A i \in 1 .. Len(s) : t[i] = s[i]
      /\ \A i \in 1 .. Len(y) : t[Len(s) + i] = y[i]
  BY ConcatIs
<1>2. f \in Text /\ Len(f) = Len(s) + 1 - n /\ \A i \in 1 .. Len(f) : f[i] = s[n - 1 + i]
  BY FromIs
<1> HIDE DEF t, f
<1>3. n \in 1 .. Len(t) + 1
  BY <1>1
<1>4. a \in Text /\ Len(a) = Len(t) + 1 - n /\ \A i \in 1 .. Len(a) : a[i] = t[n - 1 + i]
  BY <1>1, <1>3, FromIs
<1>5. /\ b \in Text /\ Len(b) = Len(f) + Len(y)
      /\ \A i \in 1 .. Len(f) : b[i] = f[i]
      /\ \A i \in 1 .. Len(y) : b[Len(f) + i] = y[i]
  BY <1>2, ConcatIs
<1> HIDE DEF a, b
<1>6. ASSUME NEW i \in 1 .. Len(a) PROVE a[i] = b[i]
  <2>0. n \in Nat /\ i \in Nat /\ n - 1 + i \in 1 .. Len(t) /\ i \in 1 .. Len(b)
    BY <1>1, <1>2, <1>4, <1>5
  <2>1. CASE i <= Len(f)
    <3>1. n - 1 + i \in 1 .. Len(s) /\ i \in 1 .. Len(f)
      BY <1>1, <1>2, <2>0, <2>1
    <3>2. b[i] = s[n - 1 + i]
      BY <1>2, <1>5, <3>1
    <3>3. a[i] = s[n - 1 + i]
      BY <1>1, <1>4, <3>1
    <3> QED
      BY <3>2, <3>3
  <2>2. CASE ~(i <= Len(f))
    <3> DEFINE j == i - Len(f)
    <3>1. j \in 1 .. Len(y) /\ n - 1 + i = Len(s) + j /\ i = Len(f) + j
      BY <1>1, <1>2, <1>4, <2>0, <2>2
    <3>2. b[i] = y[j] /\ t[n - 1 + i] = y[j]
      <4> HIDE DEF j
      <4> QED
        BY <1>1, <1>5, <3>1
    <3> QED
      BY <1>4, <3>2
  <2> QED
    BY <2>1, <2>2
<1>7. a = b
  BY <1>1, <1>2, <1>4, <1>5, <1>6, SameText
<1> QED
  BY <1>7 DEF a, b, t, f

-------------------------------------------------------------------------------
(* What one token comes to. *)

Signs(s, whole) == IF Len(s) >= whole + 2 /\ s[whole + 2] = "+" THEN 1 ELSE 0

\* A number of n characters at the beginning of s.
NumberOf(s, n) ==
    LET whole == Run(s, Digits)
        sign  == Signs(s, whole)
        power == Run(From(s, whole + 2 + sign), Digits)
    IN  n = IF Len(s) > whole /\ s[whole + 1] \in Letters /\ power > 0
            THEN whole + 1 + sign + power
            ELSE whole

LEMMA NumberIs ==
    ASSUME NEW s \in Text, NEW n
    PROVE  n = NumberLength(s) <=> NumberOf(s, n)
  BY DEF NumberLength, NumberOf, Signs

LEMMA NumberInText ==
    ASSUME NEW s \in Text, s # << >>, s[1] \in Digits
    PROVE  NumberLength(s) \in 1 .. Len(s)
<1> DEFINE whole == Run(s, Digits)
           sign  == Signs(s, whole)
           r     == From(s, whole + 2 + sign)
           power == Run(r, Digits)
           n     == NumberLength(s)
<1>0. Len(s) \in Nat /\ Len(s) > 0
  BY DEF Text
<1>1. whole \in 1 .. Len(s)
  <2>1. RunOf(s, Digits, whole)
    BY RunIs
  <2> HIDE DEF whole
  <2> QED
    BY <1>0, <2>1 DEF RunOf
<1>2. n = IF Len(s) > whole /\ s[whole + 1] \in Letters /\ power > 0
          THEN whole + 1 + sign + power
          ELSE whole
  BY NumberIs DEF NumberOf
<1>3. sign \in {0, 1} /\ (sign = 1 => Len(s) >= whole + 2)
  BY DEF Signs
<1> HIDE DEF whole, sign, n
<1>4. ASSUME Len(s) > whole
      PROVE  power \in 0 .. Len(s) + 1 - (whole + 2 + sign)
  <2>1. whole + 2 + sign \in 1 .. Len(s) + 1
    BY <1>0, <1>1, <1>3, <1>4
  <2>2. r \in Text /\ Len(r) = Len(s) + 1 - (whole + 2 + sign)
    BY <2>1, FromIs
  <2> HIDE DEF r
  <2>3. RunOf(r, Digits, power)
    BY <2>2, RunIs
  <2> QED
    BY <2>2, <2>3 DEF RunOf
<1> HIDE DEF power
<1>5. CASE n = whole
  BY <1>1, <1>5 DEF n
<1>6. CASE Len(s) > whole /\ n = whole + 1 + sign + power
  <2>1. power \in 0 .. Len(s) + 1 - (whole + 2 + sign)
    BY <1>4, <1>6
  <2> DEFINE l == Len(s)
  <2>2. l \in Nat /\ whole \in 1 .. l /\ sign \in {0, 1} /\ power \in 0 .. l + 1 - (whole + 2 + sign)
    BY <1>0, <1>1, <1>3, <2>1
  <2> HIDE DEF l
  <2>3. whole + 1 + sign + power \in 1 .. l
    BY <2>2
  <2> QED
    BY <1>6, <2>3 DEF l, n
<1> QED
  BY <1>2, <1>5, <1>6

\* Text that does not begin with a digit does not lengthen a number before it,
\* if that ends with something other than a letter or a digit.
LEMMA NumberStays ==
    ASSUME NEW s \in Text, s # << >>, s[1] \in Digits, s[Len(s)] \notin TokenChars,
           NEW y \in Text, y # << >>, y[1] \notin Digits
    PROVE  NumberLength(s \o y) = NumberLength(s)
<1> DEFINE whole == Run(s, Digits)
           t == s \o y
           k == whole + 2 + Signs(s, whole)
           r == From(s, k)
<1>0. Len(s) \in Nat /\ Len(s) > 0 /\ Len(y) \in Nat /\ Len(y) > 0
  BY DEF Text
<1>1. /\ t \in Text /\ Len(t) = Len(s) + Len(y) /\ \A i \in 1 .. Len(s) : t[i] = s[i]
  BY ConcatIs
<1>2. RunOf(s, Digits, whole)
  BY RunIs
<1>3. whole \in 1 .. Len(s) /\ whole < Len(s)
  <2> HIDE DEF whole
  <2>1. s[Len(s)] \notin Digits
    BY DEF TokenChars
  <2> QED
    BY <1>0, <1>2, <2>1 DEF RunOf
<1>4. Run(t, Digits) = whole
  BY <1>3, RunStays
<1>5. CASE s[whole + 1] \notin Letters
  <2>1. NumberLength(s) = whole
    BY <1>5, NumberIs DEF NumberOf
  <2>2. t[whole + 1] \notin Letters
    BY <1>0, <1>1, <1>3, <1>5
  <2>3. NumberLength(t) = whole
    BY <1>1, <1>4, <2>2, NumberIs DEF NumberOf
  <2> QED
    BY <2>1, <2>3
<1>6. CASE s[whole + 1] \in Letters
  <2> HIDE DEF whole
  <2>1. whole + 2 <= Len(s)
    <3>1. s[whole + 1] \in TokenChars
      BY <1>6 DEF TokenChars
    <3>2. whole + 1 # Len(s)
      BY <3>1
    <3> QED
      BY <1>0, <1>3, <3>2
  <2>2. Signs(t, whole) = Signs(s, whole) /\ Signs(s, whole) \in {0, 1}
    BY <1>0, <1>1, <1>3, <2>1 DEF Signs
  <2>3. k \in 1 .. Len(s) + 1
    BY <1>0, <1>3, <2>1, <2>2
  <2>4. From(t, k) = r \o y
    BY <2>3, FromConcat
  <2>5. /\ r \in Text /\ Len(r) = Len(s) + 1 - k
        /\ \A i \in 1 .. Len(s) + 1 - k : r[i] = s[k - 1 + i]
    BY <2>3, FromIs
  <2> HIDE DEF k, r
  <2>6. Run(r \o y, Digits) = Run(r, Digits)
    <3>1. CASE k = Len(s) + 1
      <4>1. Len(r) = 0
        BY <1>0, <2>5, <3>1
      <4>2. RunOf(r, Digits, 0)
        BY <4>1 DEF RunOf
      <4>3. r \o y = y
        BY <2>5, <4>1 DEF Text
      <4>4. RunOf(y, Digits, 0)
        BY <1>0 DEF RunOf
      <4> QED
        BY <2>5, <4>2, <4>3, <4>4, RunUnique
    <3>2. CASE k # Len(s) + 1
      <4>1. Len(r) \in 1 .. Len(s) /\ r[Len(r)] = s[Len(s)]
        <5>1. k \in Nat /\ Len(r) = Len(s) + 1 - k /\ Len(s) + 1 - k \in 1 .. Len(s)
              /\ k - 1 + (Len(s) + 1 - k) = Len(s)
          BY <1>0, <2>3, <2>5, <3>2
        <5> QED
          BY <2>5, <5>1
      <4>2. r[Len(r)] \notin Digits
        BY <4>1 DEF TokenChars
      <4>3. RunOf(r, Digits, Run(r, Digits))
        BY <2>5, RunIs
      <4>4. Run(r, Digits) < Len(r)
        BY <4>1, <4>2, <4>3 DEF RunOf
      <4> QED
        BY <2>5, <4>4, RunStays
    <3> QED
      BY <3>1, <3>2
  <2>7. t[whole + 1] = s[whole + 1] /\ Len(t) > whole
    BY <1>0, <1>1, <1>3
  <2> DEFINE n == NumberLength(s)
             power == Run(r, Digits)
             sign == Signs(s, whole)
  <2>8. n = IF power > 0 THEN whole + 1 + sign + power ELSE whole
    BY <1>3, <1>6, NumberIs DEF NumberOf, whole, r, k
  <2>9. NumberLength(t) = IF power > 0 THEN whole + 1 + sign + power ELSE whole
    <3>1. Run(From(t, whole + 2 + Signs(t, whole)), Digits) = power
      BY <2>2, <2>4, <2>6 DEF k
    <3> QED
      BY <1>1, <1>4, <1>6, <2>2, <2>7, <3>1, NumberIs DEF NumberOf
  <2> QED
    BY <2>8, <2>9
<1> QED
  BY <1>5, <1>6

Kinds == {"NUMBER", "IDENT", "QIDENT", "STRING", "+", "(", "YYUNDEF"}

TokenSet == [kind : Kinds, chars : Text]

YYUNDEF == Token("YYUNDEF", << >>)

Closing(s) == {i \in 2 .. Len(s) : s[i] = s[1]}

\* r is the first token of s and its length.
FirstIs(s, r) ==
    /\ s[1] \in Digits =>
           r = <<Token("NUMBER", SubSeq(s, 1, NumberLength(s))), NumberLength(s)>>
    /\ s[1] \in TokenChars \ Digits =>
           r = <<Token("IDENT", SubSeq(s, 1, Run(s, TokenChars))), Run(s, TokenChars)>>
    /\ s[1] \in {Quote, "'"} /\ Closing(s) # {} =>
           r = <<Token(IF s[1] = Quote THEN "QIDENT" ELSE "STRING", SubSeq(s, 2, Min(Closing(s)) - 1)),
                 Min(Closing(s))>>
    /\ s[1] \in {Quote, "'"} /\ Closing(s) = {} => r = <<YYUNDEF, 1>>
    /\ s[1] \in {"+", "("} => r = <<Token(s[1], << >>), 1>>
    /\ s[1] \notin TokenChars \cup {Quote, "'", "+", "("} => r = <<YYUNDEF, 1>>

LEMMA FirstTokenIs ==
    ASSUME NEW s
    PROVE  FirstIs(s, FirstToken(s))
<1> DEFINE r == FirstToken(s)
           u == <<YYUNDEF, 1>>
<1>0. Quote \notin TokenChars /\ "'" \notin TokenChars /\ "+" \notin TokenChars /\ "(" \notin TokenChars
      /\ Quote # "+" /\ Quote # "(" /\ Quote # "'" /\ Digits \subseteq TokenChars
  BY DEF Quote, TokenChars, Letters, Digits
<1>1. CASE s[1] \in Digits
  BY <1>0, <1>1 DEF FirstToken, FirstIs
<1>2. CASE s[1] \in TokenChars \ Digits
  BY <1>0, <1>2 DEF FirstToken, FirstIs
<1>3. CASE s[1] \in {Quote, "'"} /\ Closing(s) # {}
  BY <1>0, <1>3 DEF FirstToken, FirstIs, Closing
<1>4. CASE s[1] \in {Quote, "'"} /\ Closing(s) = {}
  BY <1>0, <1>4 DEF FirstToken, FirstIs, Closing, YYUNDEF
<1>5. CASE s[1] \in {"+", "("}
  BY <1>0, <1>5 DEF FirstToken, FirstIs
<1>6. CASE s[1] \notin TokenChars \cup {Quote, "'", "+", "("}
  BY <1>0, <1>6 DEF FirstToken, FirstIs, YYUNDEF
<1> QED
  BY <1>1, <1>2, <1>3, <1>4, <1>5, <1>6

LEMMA ClosingLeast ==
    ASSUME NEW s \in Text, Closing(s) # {}
    PROVE  /\ Min(Closing(s)) \in 2 .. Len(s) /\ s[Min(Closing(s))] = s[1]
           /\ \A i \in Closing(s) : Min(Closing(s)) <= i
<1> DEFINE C == Closing(s)
<1>1. C \in SUBSET Nat /\ C # {} /\ C \in SUBSET Int
  BY DEF Closing
<1> HIDE DEF C
<1>2. PICK m \in C : \A i \in C : m <= i
  BY <1>1, LeastNatural
<1>3. Min(C) = m
  BY <1>1, <1>2, MinIs
<1>4. m \in 2 .. Len(s) /\ s[m] = s[1]
  BY <1>2 DEF C, Closing
<1> QED
  BY <1>2, <1>3, <1>4 DEF C

SubText(s, a, b) == SubSeq(s, a, b) \in Text

LEMMA SubTextIs ==
    ASSUME NEW s \in Text, NEW a \in 1 .. Len(s), NEW b \in 0 .. Len(s)
    PROVE  SubText(s, a, b)
  BY SubSeqProperties DEF SubText, Text

\* A token takes a character at least, and none that is not there.
TokenFits(s, r) == r[1] \in TokenSet /\ r[2] \in 1 .. Len(s)

LEMMA TokenInText ==
    ASSUME NEW s \in Text, s # << >>
    PROVE  TokenFits(s, FirstToken(s))
<1> DEFINE r == FirstToken(s)
<1>0. FirstIs(s, r) /\ Len(s) \in Nat /\ Len(s) >= 1
  BY FirstTokenIs DEF Text
<1>1. \A kind \in Kinds, chars \in Text : Token(kind, chars) \in TokenSet
  BY DEF Token, TokenSet
<1>2. YYUNDEF \in TokenSet
  <2>1. << >> \in Text
    BY DEF Text
  <2> QED
    BY <1>1, <2>1 DEF YYUNDEF, Kinds
<1> SUFFICES TokenFits(s, r)
  OBVIOUS
<1> HIDE DEF r
<1>3. CASE s[1] \in Digits
  <2> DEFINE n == NumberLength(s)
  <2>1. n \in 1 .. Len(s)
    BY <1>3, NumberInText
  <2>2. r = <<Token("NUMBER", SubSeq(s, 1, n)), n>>
    BY <1>0, <1>3 DEF FirstIs
  <2> HIDE DEF n
  <2>3. SubSeq(s, 1, n) \in Text /\ "NUMBER" \in Kinds
    BY <1>0, <2>1, SubTextIs DEF SubText, Kinds
  <2> QED
    BY <1>1, <2>1, <2>2, <2>3 DEF TokenFits
<1>4. CASE s[1] \in TokenChars \ Digits
  <2> DEFINE n == Run(s, TokenChars)
  <2>1. RunOf(s, TokenChars, n)
    BY RunIs
  <2>2. r = <<Token("IDENT", SubSeq(s, 1, n)), n>>
    BY <1>0, <1>4 DEF FirstIs
  <2> HIDE DEF n
  <2>3. n \in 1 .. Len(s)
    BY <1>0, <1>4, <2>1 DEF RunOf
  <2>4. SubSeq(s, 1, n) \in Text /\ "IDENT" \in Kinds
    BY <1>0, <2>3, SubTextIs DEF SubText, Kinds
  <2> QED
    BY <1>1, <2>2, <2>3, <2>4 DEF TokenFits
<1>5. CASE s[1] \in {Quote, "'"} /\ Closing(s) # {}
  <2> DEFINE n == Min(Closing(s))
             kind == IF s[1] = Quote THEN "QIDENT" ELSE "STRING"
  <2>1. n \in 2 .. Len(s)
    BY <1>5, ClosingLeast
  <2>2. r = <<Token(kind, SubSeq(s, 2, n - 1)), n>>
    BY <1>0, <1>5 DEF FirstIs
  <2>3. kind \in Kinds
    BY DEF Kinds
  <2> HIDE DEF n, kind
  <2>4. 2 \in 1 .. Len(s) /\ n - 1 \in 0 .. Len(s) /\ n \in 1 .. Len(s)
    BY <1>0, <2>1
  <2>5. SubSeq(s, 2, n - 1) \in Text
    BY <2>4, SubTextIs DEF SubText
  <2> QED
    BY <1>1, <2>2, <2>3, <2>4, <2>5 DEF TokenFits
<1>6. CASE s[1] \in {"+", "("}
  <2>1. s[1] \in Kinds /\ << >> \in Text
    BY <1>6 DEF Text, Kinds
  <2>2. r = <<Token(s[1], << >>), 1>>
    BY <1>0, <1>6 DEF FirstIs
  <2> QED
    BY <1>0, <1>1, <2>1, <2>2 DEF TokenFits
<1>7. CASE r = <<YYUNDEF, 1>>
  BY <1>0, <1>2, <1>7 DEF TokenFits
<1> QED
  BY <1>0, <1>3, <1>4, <1>5, <1>6, <1>7 DEF FirstIs

LEMMA SubSeqIs ==
    ASSUME NEW s \in Text, NEW a \in 1 .. Len(s) + 1, NEW b \in 0 .. Len(s)
    PROVE  /\ SubSeq(s, a, b) \in Text /\ Len(SubSeq(s, a, b)) = IF a <= b THEN b - a + 1 ELSE 0
           /\ \A i \in 1 .. Len(SubSeq(s, a, b)) : SubSeq(s, a, b)[i] = s[a - 1 + i]
  BY DEF Text

LEMMA SubSeqConcat ==
    ASSUME NEW s \in Text, NEW y \in Text, NEW a \in 1 .. Len(s) + 1, NEW b \in 0 .. Len(s)
    PROVE  SubSeq(s \o y, a, b) = SubSeq(s, a, b)
<1> DEFINE t == s \o y
           c == SubSeq(t, a, b)
           d == SubSeq(s, a, b)
<1>1. /\ t \in Text /\ Len(t) = Len(s) + Len(y) /\ Len(s) \in Nat /\ Len(y) \in Nat
      /\ \A i \in 1 .. Len(s) : t[i] = s[i]
  BY ConcatIs
<1> HIDE DEF t
<1>2. /\ c \in Text /\ Len(c) = IF a <= b THEN b - a + 1 ELSE 0
      /\ \A i \in 1 .. Len(c) : c[i] = t[a - 1 + i]
  <2>1. a \in 1 .. Len(t) + 1 /\ b \in 0 .. Len(t)
    BY <1>1
  <2> QED
    BY <1>1, <2>1, SubSeqIs
<1>3. /\ d \in Text /\ Len(d) = IF a <= b THEN b - a + 1 ELSE 0
      /\ \A i \in 1 .. Len(d) : d[i] = s[a - 1 + i]
  BY SubSeqIs
<1> HIDE DEF c, d
<1>4. ASSUME NEW i \in 1 .. Len(c) PROVE c[i] = d[i]
  <2>1. a - 1 + i \in 1 .. Len(s) /\ i \in 1 .. Len(d)
    BY <1>1, <1>2, <1>3
  <2> QED
    BY <1>1, <1>2, <1>3, <2>1
<1>5. c = d
  BY <1>2, <1>3, <1>4, SameText
<1> QED
  BY <1>5 DEF c, d, t

\* A token that was recognised stays what it is when text follows that is no
\* continuation of a word.
LEMMA TokenStays ==
    ASSUME NEW s \in Text, s # << >>, s[Len(s)] \notin TokenChars, FirstToken(s)[1] # YYUNDEF,
           NEW y \in Text, y # << >>, y[1] \notin Digits
    PROVE  FirstToken(s \o y) = FirstToken(s)
<1> DEFINE t == s \o y
           r == FirstToken(s)
           u == FirstToken(t)
<1>0. Len(s) \in Nat /\ Len(s) >= 1 /\ FirstIs(s, r) /\ FirstIs(t, u)
  BY FirstTokenIs DEF Text
<1>1. /\ t \in Text /\ Len(t) = Len(s) + Len(y) /\ Len(y) \in Nat
      /\ \A i \in 1 .. Len(s) : t[i] = s[i]
  BY ConcatIs
<1>2. t[1] = s[1]
  BY <1>0, <1>1
<1> SUFFICES u = r
  OBVIOUS
<1>3. CASE s[1] \in Digits
  <2> DEFINE n == NumberLength(s)
  <2>1. NumberLength(t) = n /\ n \in 1 .. Len(s)
    BY <1>3, NumberInText, NumberStays
  <2>2. r = <<Token("NUMBER", SubSeq(s, 1, n)), n>> /\ u = <<Token("NUMBER", SubSeq(t, 1, n)), n>>
    BY <1>0, <1>2, <1>3, <2>1 DEF FirstIs
  <2> HIDE DEF n, r, u
  <2>3. SubSeq(t, 1, n) = SubSeq(s, 1, n)
    BY <1>0, <2>1, SubSeqConcat
  <2> QED
    BY <2>2, <2>3
<1>4. CASE s[1] \in TokenChars \ Digits
  <2> DEFINE n == Run(s, TokenChars)
  <2>1. RunOf(s, TokenChars, n)
    BY RunIs
  <2>2. n < Len(s) /\ n \in 0 .. Len(s)
    <3> HIDE DEF n
    <3> QED
      BY <1>0, <2>1 DEF RunOf
  <2>3. Run(t, TokenChars) = n
    BY <2>2, RunStays
  <2>4. r = <<Token("IDENT", SubSeq(s, 1, n)), n>> /\ u = <<Token("IDENT", SubSeq(t, 1, n)), n>>
    BY <1>0, <1>2, <1>4, <2>3 DEF FirstIs
  <2> HIDE DEF n, r, u
  <2>5. SubSeq(t, 1, n) = SubSeq(s, 1, n)
    BY <1>0, <2>2, SubSeqConcat
  <2> QED
    BY <2>4, <2>5
<1>5. CASE s[1] \in {Quote, "'"} /\ Closing(s) # {}
  <2> DEFINE n == Min(Closing(s))
             kind == IF s[1] = Quote THEN "QIDENT" ELSE "STRING"
  <2>1. n \in 2 .. Len(s) /\ s[n] = s[1] /\ \A i \in Closing(s) : n <= i
    BY <1>5, ClosingLeast
  <2>2. Closing(t) # {} /\ Min(Closing(t)) = n
    <3> HIDE DEF n, t
    <3>1. n \in Closing(t) /\ Closing(t) \in SUBSET Int
      BY <1>0, <1>1, <1>2, <2>1 DEF Closing
    <3>2. ASSUME NEW i \in Closing(t) PROVE n <= i
      <4>1. i \in 2 .. Len(t) /\ t[i] = s[1]
        BY <1>2 DEF Closing
      <4>2. CASE i <= Len(s)
        <5>1. i \in Closing(s)
          BY <1>0, <1>1, <4>1, <4>2 DEF Closing
        <5> QED
          BY <2>1, <5>1
      <4>3. CASE ~(i <= Len(s))
        BY <1>0, <1>1, <2>1, <4>1, <4>3
      <4> QED
        BY <4>2, <4>3
    <3> QED
      BY <3>1, <3>2, MinIs
  <2>3. r = <<Token(kind, SubSeq(s, 2, n - 1)), n>> /\ u = <<Token(kind, SubSeq(t, 2, n - 1)), n>>
    BY <1>0, <1>2, <1>5, <2>2 DEF FirstIs
  <2> HIDE DEF n, r, u, kind
  <2>4. 2 \in 1 .. Len(s) + 1 /\ n - 1 \in 0 .. Len(s)
    BY <1>0, <2>1
  <2>5. SubSeq(t, 2, n - 1) = SubSeq(s, 2, n - 1)
    BY <2>4, SubSeqConcat
  <2> QED
    BY <2>3, <2>5
<1>6. CASE s[1] \in {"+", "("}
  BY <1>0, <1>2, <1>6 DEF FirstIs
<1>7. r # <<YYUNDEF, 1>>
  OBVIOUS
<1> HIDE DEF r, u, t
<1> QED
  BY <1>0, <1>3, <1>4, <1>5, <1>6, <1>7 DEF FirstIs

-------------------------------------------------------------------------------
(* The scanner's turns. *)

LexStart == [at |-> 0, tokens |-> << >>]

Lexer(s) == [at : 0 .. Len(s), tokens : Seq(TokenSet)]

\* l is the scanner on s after the turn that k began.
Turns(s, k, l) ==
    LET rest == From(s, k.at + 1)
    IN  /\ k.at = Len(s) => l = k
        /\ k.at < Len(s) /\ s[k.at + 1] = Blank => l = [k EXCEPT !.at = k.at + 1]
        /\ k.at < Len(s) /\ s[k.at + 1] # Blank =>
               l = [at |-> k.at + FirstToken(rest)[2], tokens |-> Append(k.tokens, FirstToken(rest)[1])]

LEMMA TurnIs ==
    ASSUME NEW s \in Text, NEW k \in Lexer(s)
    PROVE  Turns(s, k, yylex(s, k))
<1> DEFINE p == k.at
           rest == From(s, p + 1)
<1>1. p \in 0 .. Len(s) /\ Len(s) \in Nat
  BY DEF Lexer, Text
<1> HIDE DEF p
<1>3. p = Len(s) => rest = << >>
  BY <1>1, RestIs
<1>4. p < Len(s) => rest # << >> /\ rest[1] = s[p + 1]
  BY <1>1, RestIs
<1> HIDE DEF rest
<1> QED
  BY <1>1, <1>3, <1>4 DEF Turns, yylex, p, rest

\* A turn at a token or a blank.
Moves(s, k, l) ==
    /\ l \in Lexer(s)
    /\ k.at = Len(s) => l = k
    /\ k.at < Len(s) => l.at > k.at
    /\ \E ts \in Seq(TokenSet) : l.tokens = k.tokens \o ts

LEMMA Ahead ==
    ASSUME NEW n \in Nat, NEW p \in 0 .. n, p < n
    PROVE  /\ p + 1 \in 0 .. n /\ p + 1 > p /\ p # n
           /\ \A d \in 1 .. n - p : p + d \in 0 .. n /\ p + d > p
  OBVIOUS

LEMMA TurnMoves ==
    ASSUME NEW s \in Text, NEW k \in Lexer(s)
    PROVE  Moves(s, k, yylex(s, k))
<1> DEFINE p == k.at
           rest == From(s, p + 1)
           l == yylex(s, k)
           r == FirstToken(rest)
<1>1. p \in 0 .. Len(s) /\ Len(s) \in Nat /\ k.tokens \in Seq(TokenSet)
  BY DEF Lexer, Text
<1>2. Turns(s, k, l)
  BY TurnIs
<1>3. << >> \in Seq(TokenSet) /\ k.tokens = k.tokens \o << >>
  BY <1>1
<1> HIDE DEF l
<1> SUFFICES Moves(s, k, l)
  BY DEF l
<1>4. CASE p = Len(s)
  <2>1. l = k
    BY <1>2, <1>4 DEF Turns
  <2> QED
    BY <1>1, <1>3, <1>4, <2>1 DEF Moves
<1>5. CASE p < Len(s) /\ s[p + 1] = Blank
  <2>1. l = [k EXCEPT !.at = p + 1]
    BY <1>2, <1>5 DEF Turns
  <2>2. p + 1 \in 0 .. Len(s) /\ p + 1 > p /\ p # Len(s)
    <3> HIDE DEF p
    <3> QED
      BY <1>1, <1>5, Ahead
  <2>3. l \in Lexer(s) /\ l.at = p + 1 /\ l.tokens = k.tokens
    <3> HIDE DEF p
    <3> QED
      BY <2>1, <2>2 DEF Lexer
  <2>4. \E ts \in Seq(TokenSet) : l.tokens = k.tokens \o ts
    BY <1>3, <2>3
  <2> QED
    BY <2>2, <2>3, <2>4 DEF Moves
<1>6. CASE p < Len(s) /\ s[p + 1] # Blank
  <2>1. l = [at |-> p + r[2], tokens |-> Append(k.tokens, r[1])]
    BY <1>2, <1>6 DEF Turns
  <2>2. r[1] \in TokenSet /\ r[2] \in 1 .. Len(s) - p
    <3>1. rest \in Text /\ Len(rest) = Len(s) - p /\ rest # << >>
      <4> HIDE DEF p
      <4> QED
        BY <1>1, <1>6, RestIs
    <3> HIDE DEF rest
    <3> QED
      BY <3>1, TokenInText DEF TokenFits
  <2> HIDE DEF r
  <2>3. p + r[2] \in 0 .. Len(s) /\ p + r[2] > p /\ p # Len(s)
    <3> HIDE DEF p
    <3> QED
      BY <1>1, <1>6, <2>2, Ahead
  <2>4. Append(k.tokens, r[1]) \in Seq(TokenSet) /\ <<r[1]>> \in Seq(TokenSet)
        /\ Append(k.tokens, r[1]) = k.tokens \o <<r[1]>>
    BY <1>1, <2>2, AppendIsConcat
  <2>5. \E ts \in Seq(TokenSet) : l.tokens = k.tokens \o ts
    BY <2>1, <2>4
  <2>6. l \in Lexer(s)
    <3> HIDE DEF p
    <3> QED
      BY <2>1, <2>3, <2>4 DEF Lexer
  <2>7. l.at > k.at /\ k.at # Len(s)
    BY <2>1, <2>3
  <2> QED
    BY <2>5, <2>6, <2>7 DEF Moves
<1>7. p = Len(s) \/ p < Len(s)
  <2> HIDE DEF p
  <2> QED
    BY <1>1
<1> QED
  BY <1>4, <1>5, <1>6, <1>7

LEMMA LexTurns ==
    ASSUME NEW s \in Text
    PROVE  /\ LexUpTo(s, 0) = LexStart
           /\ \A i \in 1 .. Len(s) : LexUpTo(s, i) = yylex(s, LexUpTo(s, i - 1))
           /\ \A i \in 0 .. Len(s) : LexUpTo(s, i) \in Lexer(s)
<1> DEFINE n == Len(s)
           first == LexStart
           step == [i \in 1 .. n |-> [k \in Lexer(s) |-> yylex(s, k)]]
           run == CHOOSE f : f = [i \in 0 .. n |-> IF i = 0 THEN LexStart ELSE yylex(s, f[i - 1])]
<1>1. n \in Nat /\ first \in Lexer(s)
  BY DEF Text, Lexer, LexStart
<1>2. step \in [1 .. n -> [Lexer(s) -> Lexer(s)]]
  <2>1. \A k \in Lexer(s) : yylex(s, k) \in Lexer(s)
    BY TurnMoves DEF Moves
  <2> QED
    BY <2>1
<1> HIDE DEF first
<1>3. PICK f \in [0 .. n -> Lexer(s)] : Unfolds(f, n, first, step)
  <2> HIDE DEF n, step
  <2> QED
    BY <1>1, <1>2, LoopExists
<1>4. f = [i \in 0 .. n |-> IF i = 0 THEN first ELSE yylex(s, f[i - 1])]
  <2>1. ASSUME NEW i \in 0 .. n, i # 0
        PROVE  step[i][f[i - 1]] = yylex(s, f[i - 1])
    <3>1. i \in 1 .. n /\ i - 1 \in 0 .. n
      BY <1>1, <2>1
    <3>2. f[i - 1] \in Lexer(s)
      BY <1>3, <3>1
    <3> QED
      BY <3>1, <3>2
  <2> HIDE DEF step, n
  <2> QED
    BY <1>3, <2>1 DEF Unfolds
<1>5. run = [i \in 0 .. n |-> IF i = 0 THEN first ELSE yylex(s, run[i - 1])]
  BY <1>4 DEF first
<1>6. \A i : LexUpTo(s, i) = run[i]
  BY DEF LexUpTo, LexStart
<1> HIDE DEF run
<1>7. run[0] = first /\ \A i \in 1 .. n : run[i] = yylex(s, run[i - 1])
  <2>1. \A i \in 0 .. n : run[i] = IF i = 0 THEN first ELSE yylex(s, run[i - 1])
    BY <1>5
  <2> HIDE DEF n
  <2> QED
    BY <1>1, <2>1
<1>8. \A i \in 0 .. n : run[i] \in Lexer(s)
  <2> DEFINE T == {i \in 0 .. n : run[i] \in Lexer(s)}
  <2>1. 0 \in T
    BY <1>1, <1>7
  <2>2. \A i \in 1 .. n : i - 1 \in T => i \in T
    BY <1>1, <1>7, TurnMoves DEF Moves
  <2> HIDE DEF T, n
  <2>3. 0 .. n \subseteq T
    BY <1>1, <2>1, <2>2, UpToInduction
  <2> QED
    BY <2>3 DEF T
<1> QED
  BY <1>6, <1>7, <1>8 DEF first

\* A turn at a time the scanner gets to the end, and stays there.
LEMMA LexEnds ==
    ASSUME NEW s \in Text
    PROVE  /\ \A i \in 0 .. Len(s) : LexUpTo(s, i).at >= i
           /\ LexUpTo(s, Len(s)).at = Len(s)
<1> DEFINE n == Len(s)
           lex(i) == LexUpTo(s, i)
           T == {i \in 0 .. n : lex(i).at >= i}
<1>1. n \in Nat
  BY DEF Text
<1>2. /\ lex(0) = LexStart /\ \A i \in 1 .. n : lex(i) = yylex(s, lex(i - 1))
      /\ \A i \in 0 .. n : lex(i) \in Lexer(s)
  BY LexTurns
<1> HIDE DEF lex
<1>3. \A i \in 0 .. n : lex(i).at \in 0 .. n
  BY <1>2 DEF Lexer
<1>4. 0 \in T
  BY <1>1, <1>3
<1>5. ASSUME NEW i \in 1 .. n, i - 1 \in T PROVE i \in T
  <2>1. i - 1 \in 0 .. n /\ i \in 0 .. n
    BY <1>1
  <2>2. Moves(s, lex(i - 1), lex(i))
    BY <1>2, <2>1, TurnMoves
  <2> HIDE DEF n
  <2>3. lex(i - 1).at >= i - 1 /\ lex(i - 1).at \in 0 .. n /\ lex(i).at \in 0 .. n
    BY <1>3, <1>5, <2>1
  <2>4. CASE lex(i - 1).at = n
    BY <1>1, <2>1, <2>2, <2>4 DEF Moves, n
  <2>5. CASE lex(i - 1).at # n
    <3>1. lex(i).at > lex(i - 1).at
      BY <1>1, <2>2, <2>3, <2>5 DEF Moves, n
    <3> QED
      BY <1>1, <2>1, <2>3, <3>1
  <2> QED
    BY <2>4, <2>5
<1> HIDE DEF T, n
<1>6. 0 .. n \subseteq T
  BY <1>1, <1>4, <1>5, UpToInduction
<1>7. \A i \in 0 .. n : lex(i).at >= i
  BY <1>6 DEF T
<1>8. lex(n).at = n
  BY <1>1, <1>3, <1>7
<1> QED
  BY <1>7, <1>8 DEF n, lex

LEMMA ConcatThree ==
    ASSUME NEW S, NEW a \in Seq(S), NEW b \in Seq(S), NEW c \in Seq(S)
    PROVE  (a \o b) \o c = a \o (b \o c) /\ b \o c \in Seq(S)
<1>1. (a \o b) \o c = a \o (b \o c)
  BY ConcatAssociative
<1>2. b \o c \in Seq(S)
  BY ConcatProperties
<1> QED
  BY <1>1, <1>2

JoinsAlike(a, b, c) == (a \o b) \o c = a \o (b \o c)

LEMMA Joins ==
    ASSUME NEW S, NEW a \in Seq(S), NEW b \in Seq(S), NEW c \in Seq(S)
    PROVE  JoinsAlike(a, b, c)
  BY ConcatThree DEF JoinsAlike

AppendsLast(a, b, e) == Append(a \o b, e) = a \o Append(b, e)

LEMMA AppendLast ==
    ASSUME NEW S, NEW a \in Seq(S), NEW b \in Seq(S), NEW e \in S
    PROVE  AppendsLast(a, b, e)
<1>1. a \o b \in Seq(S) /\ <<e>> \in Seq(S)
  OBVIOUS
<1>2. Append(a \o b, e) = (a \o b) \o <<e>> /\ Append(b, e) = b \o <<e>>
  BY <1>1, AppendIsConcat
<1> QED
  BY <1>1, <1>2, ConcatThree DEF AppendsLast

\* What the scanner has collected it keeps; at the end it rests.
LEMMA LexGrows ==
    ASSUME NEW s \in Text, NEW i \in 0 .. Len(s), NEW j \in i .. Len(s)
    PROVE  /\ \E ts \in Seq(TokenSet) : LexUpTo(s, j).tokens = LexUpTo(s, i).tokens \o ts
           /\ LexUpTo(s, i).at = Len(s) => LexUpTo(s, j) = LexUpTo(s, i)
<1> DEFINE n == Len(s)
           lex(k) == LexUpTo(s, k)
           m == n - i
           T == {k \in 0 .. m : /\ \E ts \in Seq(TokenSet) : lex(i + k).tokens = lex(i).tokens \o ts
                                /\ lex(i).at = n => lex(i + k) = lex(i)}
<1>1. n \in Nat /\ i \in 0 .. n /\ j \in i .. n /\ m \in Nat /\ i + 0 = i
  BY DEF Text
<1>2. /\ \A k \in 1 .. n : lex(k) = yylex(s, lex(k - 1))
      /\ \A k \in 0 .. n : lex(k) \in Lexer(s)
  BY LexTurns
<1>3. 0 \in T
  <2>1. lex(i).tokens \in Seq(TokenSet)
    BY <1>1, <1>2 DEF Lexer
  <2>2. << >> \in Seq(TokenSet) /\ lex(i).tokens = lex(i).tokens \o << >>
    BY <2>1
  <2>3. lex(i + 0) = lex(i) /\ 0 \in 0 .. m
    BY <1>1
  <2> HIDE DEF lex, n, m
  <2>4. \E ts \in Seq(TokenSet) : lex(i + 0).tokens = lex(i).tokens \o ts
    BY <2>2, <2>3
  <2> QED
    BY <2>3, <2>4
<1> HIDE DEF lex
<1>4. ASSUME NEW k \in 1 .. m, k - 1 \in T PROVE k \in T
  <2>0. k \in 0 .. m /\ i + k \in 1 .. n /\ (i + k) - 1 = i + (k - 1) /\ i + (k - 1) \in 0 .. n
    BY <1>1
  <2> DEFINE a == lex(i + (k - 1))
             b == lex(i + k)
  <2>1. Moves(s, a, b)
    BY <1>2, <2>0, TurnMoves
  <2>2. PICK ts \in Seq(TokenSet) : a.tokens = lex(i).tokens \o ts
    BY <1>4
  <2>3. lex(i).at = n => a = lex(i)
    BY <1>4
  <2> HIDE DEF a, b
  <2>4. PICK us \in Seq(TokenSet) : b.tokens = a.tokens \o us
    BY <2>1 DEF Moves
  <2>5. lex(i).tokens \in Seq(TokenSet)
    BY <1>1, <1>2 DEF Lexer
  <2>6. b.tokens = lex(i).tokens \o (ts \o us) /\ ts \o us \in Seq(TokenSet)
    <3> DEFINE c == lex(i).tokens
    <3>1. b.tokens = (c \o ts) \o us
      BY <2>2, <2>4
    <3>1a. c \in Seq(TokenSet)
      BY <2>5
    <3> HIDE DEF c
    <3>2. JoinsAlike(c, ts, us)
      BY <3>1a, Joins
    <3>3. ts \o us \in Seq(TokenSet)
      BY ConcatProperties
    <3> QED
      BY <3>1, <3>2, <3>3 DEF c, JoinsAlike
  <2>7. lex(i).at = n => b = lex(i)
    BY <2>1, <2>3 DEF Moves
  <2> HIDE DEF n, m
  <2> QED
    BY <2>0, <2>6, <2>7 DEF b
<1> HIDE DEF T, n, m
<1>5. 0 .. m \subseteq T
  BY <1>1, <1>3, <1>4, UpToInduction
<1>6. j - i \in T /\ i + (j - i) = j
  BY <1>1, <1>5 DEF m
<1>7. /\ \E ts \in Seq(TokenSet) : lex(j).tokens = lex(i).tokens \o ts
      /\ lex(i).at = n => lex(j) = lex(i)
  BY <1>6 DEF T
<1> QED
  BY <1>7 DEF n, lex

\* e on a text is what d is on the rest of it, from c on.
Onward(c, d, e) == e.at = c.at + d.at /\ e.tokens = c.tokens \o d.tokens

LEMMA TurnOnward ==
    ASSUME NEW s \in Text, NEW c \in Lexer(s), NEW rest, rest = From(s, c.at + 1),
           NEW d \in Lexer(rest), NEW e \in Lexer(s), Onward(c, d, e)
    PROVE  Onward(c, yylex(rest, d), yylex(s, e))
<1> DEFINE p == c.at
           q == d.at
           n == Len(s)
           d2 == yylex(rest, d)
           e2 == yylex(s, e)
           f == From(s, (p + q) + 1)
           r == FirstToken(f)
<1>1. n \in Nat /\ p \in 0 .. n /\ rest \in Text /\ Len(rest) = n - p
      /\ \A i \in 1 .. n - p : rest[i] = s[p + i]
  <2>1. p \in 0 .. Len(s) /\ Len(s) \in Nat
    BY DEF Lexer, Text
  <2> HIDE DEF p
  <2> QED
    BY <2>1, RestIs DEF p
<1>2. q \in 0 .. n - p /\ e.at = p + q /\ e.tokens = c.tokens \o d.tokens
      /\ c.tokens \in Seq(TokenSet) /\ d.tokens \in Seq(TokenSet)
  BY <1>1 DEF Onward, Lexer
<1>3. From(rest, q + 1) = f
  <2> HIDE DEF p, q
  <2> QED
    BY <1>1, <1>2, FromFrom DEF p
<1>4. Turns(rest, d, d2) /\ Turns(s, e, e2)
  BY <1>1, TurnIs
<1>5. (q < n - p => rest[q + 1] = s[(p + q) + 1]) /\ (q = n - p <=> p + q = n)
      /\ (q < n - p <=> p + q < n) /\ (q < n - p \/ q = n - p)
  <2> HIDE DEF p, q, n
  <2>1. q < n - p => q + 1 \in 1 .. n - p /\ p + (q + 1) = (p + q) + 1
    BY <1>1, <1>2
  <2> QED
    BY <1>1, <1>2, <2>1
<1> SUFFICES Onward(c, d2, e2)
  OBVIOUS
<1>6. CASE q = n - p
  <2>1. d2 = d /\ e2 = e
    BY <1>1, <1>2, <1>4, <1>5, <1>6 DEF Turns
  <2> QED
    BY <2>1
<1>7. CASE q < n - p /\ s[(p + q) + 1] = Blank
  <2>1. d2 = [d EXCEPT !.at = q + 1] /\ e2 = [e EXCEPT !.at = (p + q) + 1]
    BY <1>1, <1>2, <1>4, <1>5, <1>7 DEF Turns
  <2> HIDE DEF d2, e2
  <2>2. d2.at = q + 1 /\ d2.tokens = d.tokens /\ e2.at = (p + q) + 1 /\ e2.tokens = e.tokens
    BY <2>1 DEF Lexer
  <2>3. (p + q) + 1 = p + (q + 1)
    <3> HIDE DEF p, q
    <3> QED
      BY <1>1, <1>2
  <2> QED
    BY <1>2, <2>2, <2>3 DEF Onward
<1>8. CASE q < n - p /\ s[(p + q) + 1] # Blank
  <2>1. /\ d2 = [at |-> q + r[2], tokens |-> Append(d.tokens, r[1])]
        /\ e2 = [at |-> (p + q) + r[2], tokens |-> Append(e.tokens, r[1])]
    <3> HIDE DEF f
    <3> QED
      BY <1>1, <1>2, <1>3, <1>4, <1>5, <1>8 DEF Turns, f
  <2> HIDE DEF d2, e2
  <2>2. r[1] \in TokenSet /\ r[2] \in Nat
    <3>1. p + q \in 0 .. n /\ p + q < n
      <4> HIDE DEF p, q, n
      <4> QED
        BY <1>1, <1>2, <1>5, <1>8
    <3> HIDE DEF p, q
    <3>2. f \in Text /\ f # << >>
      BY <3>1, RestIs DEF n
    <3>3. Len(f) \in Nat
      BY <3>2 DEF Text
    <3> HIDE DEF f
    <3>4. TokenFits(f, r)
      BY <3>2, TokenInText
    <3> HIDE DEF r
    <3> QED
      BY <3>3, <3>4 DEF TokenFits
  <2> HIDE DEF r
  <2>3. (p + q) + r[2] = p + (q + r[2])
    <3> HIDE DEF p, q
    <3> QED
      BY <1>1, <1>2, <2>2
  <2>4. Append(c.tokens \o d.tokens, r[1]) = c.tokens \o Append(d.tokens, r[1])
    <3> DEFINE a == c.tokens
               b == d.tokens
               t == r[1]
    <3>1. a \in Seq(TokenSet) /\ b \in Seq(TokenSet) /\ t \in TokenSet
      BY <1>2, <2>2
    <3> HIDE DEF a, b, t
    <3>2. AppendsLast(a, b, t)
      BY <3>1, AppendLast
    <3> QED
      BY <3>2 DEF AppendsLast, a, b, t
  <2> QED
    BY <1>2, <2>1, <2>3, <2>4 DEF Onward
<1> QED
  BY <1>5, <1>6, <1>7, <1>8

LEMMA LexFrom ==
    ASSUME NEW s \in Text, NEW k \in 0 .. Len(s), NEW rest, rest = From(s, LexUpTo(s, k).at + 1)
    PROVE  /\ rest \in Text /\ Len(rest) = Len(s) - LexUpTo(s, k).at
           /\ \A m \in 0 .. Len(rest) :
                  k + m \in 0 .. Len(s) /\ Onward(LexUpTo(s, k), LexUpTo(rest, m), LexUpTo(s, k + m))
<1> DEFINE lex(i) == LexUpTo(s, i)
           rex(i) == LexUpTo(rest, i)
           c == lex(k)
           n == Len(s)
           l == Len(rest)
           T == {m \in 0 .. l : Onward(c, rex(m), lex(k + m))}
<1>1. /\ \A i \in 1 .. n : lex(i) = yylex(s, lex(i - 1))
      /\ \A i \in 0 .. n : lex(i) \in Lexer(s)
  BY LexTurns
<1>2. n \in Nat /\ c \in Lexer(s) /\ c.at \in 0 .. n /\ c.at >= k /\ c.tokens \in Seq(TokenSet)
      /\ k \in 0 .. n /\ k + 0 = k
  BY <1>1, LexEnds DEF Lexer, Text
<1>3. rest \in Text /\ l = n - c.at
  <2> DEFINE p == c.at
  <2> HIDE DEF p
  <2> QED
    BY <1>2, RestIs DEF p
<1>4. /\ rex(0) = LexStart /\ \A i \in 1 .. l : rex(i) = yylex(rest, rex(i - 1))
      /\ \A i \in 0 .. l : rex(i) \in Lexer(rest)
  BY <1>3, LexTurns
<1> HIDE DEF lex, rex
<1>5. \A m \in 0 .. l : k + m \in 0 .. n /\ l \in Nat
  <2> HIDE DEF c, n, l
  <2> QED
    BY <1>2, <1>3
<1>6. 0 \in T
  <2>1. c.at + 0 = c.at /\ c.tokens \o << >> = c.tokens
    BY <1>2
  <2>2. Onward(c, rex(0), lex(k + 0))
    <3>1. rex(0).at = 0 /\ rex(0).tokens = << >>
      BY <1>4 DEF LexStart
    <3>2. lex(k + 0) = c
      BY <1>2
    <3> HIDE DEF c
    <3> QED
      BY <2>1, <3>1, <3>2 DEF Onward
  <2>3. 0 \in 0 .. l
    BY <1>2, <1>3
  <2> QED
    BY <2>2, <2>3
<1>7. ASSUME NEW m \in 1 .. l, m - 1 \in T PROVE m \in T
  <2>1. m \in 0 .. l /\ m - 1 \in 0 .. l /\ k + m \in 1 .. n /\ (k + m) - 1 = k + (m - 1)
        /\ k + (m - 1) \in 0 .. n
    <3> HIDE DEF c, n, l, T
    <3> QED
      BY <1>2, <1>5
  <2> DEFINE d == rex(m - 1)
             e == lex(k + (m - 1))
  <2>2. d \in Lexer(rest) /\ e \in Lexer(s) /\ Onward(c, d, e)
    BY <1>1, <1>4, <1>7, <2>1
  <2>3. rex(m) = yylex(rest, d) /\ lex(k + m) = yylex(s, e)
    BY <1>1, <1>4, <2>1
  <2>4. rest = From(s, c.at + 1)
    BY DEF lex
  <2> HIDE DEF d, e, c
  <2>5. Onward(c, yylex(rest, d), yylex(s, e))
    BY <1>2, <2>2, <2>4, TurnOnward
  <2> QED
    BY <2>1, <2>3, <2>5
<1> HIDE DEF T, n, l, c
<1>8. 0 .. l \subseteq T
  <2>1. l \in Nat
    BY <1>2, <1>3
  <2> QED
    BY <1>6, <1>7, <2>1, UpToInduction
<1>9. \A m \in 0 .. l : Onward(c, rex(m), lex(k + m))
  BY <1>8 DEF T
<1> QED
  BY <1>3, <1>5, <1>9 DEF c, lex, rex, l, n

\* What is left is scanned as a text by itself.
LEMMA TokensFrom ==
    ASSUME NEW s \in Text, NEW k \in 0 .. Len(s)
    PROVE  Tokens(s) = LexUpTo(s, k).tokens \o Tokens(From(s, LexUpTo(s, k).at + 1))
<1> DEFINE c == LexUpTo(s, k)
           rest == From(s, c.at + 1)
           l == Len(rest)
           d == LexUpTo(rest, l)
           e == LexUpTo(s, k + l)
           n == Len(s)
<1>1. /\ rest \in Text /\ l = n - c.at
      /\ \A m \in 0 .. l : k + m \in 0 .. n /\ Onward(c, LexUpTo(rest, m), LexUpTo(s, k + m))
  BY LexFrom
<1>2. n \in Nat /\ c.at \in 0 .. n
  BY LexTurns DEF Lexer, Text
<1> HIDE DEF c, rest
<1>3. l \in 0 .. l /\ d.at = l
  BY <1>1, LexEnds DEF Text
<1>4. k + l \in 0 .. n /\ Onward(c, d, e)
  BY <1>1, <1>3
<1> HIDE DEF l, d, e
<1>5. e.at = n /\ e.tokens = c.tokens \o d.tokens
  BY <1>1, <1>2, <1>3, <1>4 DEF Onward
<1>6. LexUpTo(s, n) = e
  <2>1. n \in k + l .. n
    BY <1>2, <1>4
  <2> QED
    BY <1>4, <1>5, <2>1, LexGrows DEF e
<1>7. Tokens(s) = c.tokens \o Tokens(rest)
  BY <1>5, <1>6 DEF Tokens, n, d, l
<1> QED
  BY <1>7 DEF c, rest

\* A text that begins with a token.
LEMMA TokensFirst ==
    ASSUME NEW s \in Text, s # << >>, s[1] # Blank
    PROVE  Tokens(s) = <<FirstToken(s)[1]>> \o Tokens(From(s, FirstToken(s)[2] + 1))
<1> DEFINE c == LexUpTo(s, 1)
           r == FirstToken(s)
<1>1. Len(s) \in Nat /\ 0 < Len(s) /\ 1 \in 1 .. Len(s) /\ 1 \in 0 .. Len(s) /\ 0 \in 0 .. Len(s)
  BY DEF Text
<1>2. LexStart \in Lexer(s) /\ c = yylex(s, LexStart)
  <2>1. LexUpTo(s, 0) = LexStart /\ LexUpTo(s, 1) = yylex(s, LexUpTo(s, 1 - 1)) /\ LexUpTo(s, 0) \in Lexer(s)
    BY <1>1, LexTurns
  <2> QED
    BY <2>1
<1>3. Turns(s, LexStart, c)
  BY <1>2, TurnIs
<1>4. From(s, 0 + 1) = s
  <2>1. Len(s) - 0 = Len(s) /\ \A i \in 1 .. Len(s) : 0 + i = i
    BY <1>1
  <2>2. /\ From(s, 0 + 1) \in Text /\ Len(From(s, 0 + 1)) = Len(s) - 0
        /\ \A i \in 1 .. Len(s) - 0 : From(s, 0 + 1)[i] = s[0 + i]
    BY <1>1, RestIs
  <2> QED
    BY <2>1, <2>2, SameText
<1>5. LexStart.at = 0 /\ LexStart.tokens = << >>
  BY DEF LexStart
<1> HIDE DEF c
<1>6. c = [at |-> 0 + r[2], tokens |-> Append(<< >>, r[1])]
  BY <1>1, <1>3, <1>4, <1>5 DEF Turns
<1>7. TokenFits(s, r)
  BY TokenInText
<1> HIDE DEF r
<1>8. c.at = r[2] /\ c.tokens = <<r[1]>>
  BY <1>6, <1>7 DEF TokenFits
<1>9. Tokens(s) = c.tokens \o Tokens(From(s, c.at + 1))
  BY <1>1, TokensFrom DEF c
<1> QED
  BY <1>8, <1>9 DEF r

LEMMA MemberStays ==
    ASSUME NEW S, NEW c \in Seq(S), NEW e \in S, NEW ts \in Seq(S)
    PROVE  e \in ToSet(Append(c, e) \o ts)
<1> DEFINE a == Append(c, e)
           q == a \o ts
           m == Len(c) + 1
<1>1. a \in Seq(S) /\ Len(a) = m /\ a[m] = e /\ m \in 1 .. Len(a)
  BY AppendProperties
<1> HIDE DEF a, m
<1>2. q \in Seq(S) /\ Len(q) = Len(a) + Len(ts) /\ Len(a) \in Nat /\ Len(ts) \in Nat
  BY <1>1
<1>5. q[m] = a[m]
  BY <1>1, ConcatProperties
<1> HIDE DEF q
<1>3. m \in DOMAIN q
  BY <1>1, <1>2
<1>4. e \in ToSet(q)
  BY <1>1, <1>3, <1>5 DEF ToSet
<1> QED
  BY <1>4 DEF q, a

\* y is neither empty nor the continuation of a number.
Begins(y) == y \in Text /\ y # << >> /\ y[1] \notin Digits

\* b ends with something other than a word.
WordEnds(b) == b \in Text /\ (b # << >> => b[Len(b)] \notin TokenChars)

LEMMA TurnStays ==
    ASSUME NEW b, WordEnds(b), NEW y, Begins(y), NEW c \in Lexer(b), c.at < Len(b),
           NEW ts \in Seq(TokenSet), YYUNDEF \notin ToSet(yylex(b, c).tokens \o ts)
    PROVE  yylex(b \o y, c) = yylex(b, c)
<1> DEFINE p == c.at
           n == Len(b)
           t == b \o y
           f == From(b, p + 1)
           d == yylex(b, c)
           e == yylex(t, c)
           r == FirstToken(f)
<1>1. b \in Text /\ y \in Text /\ n \in Nat /\ p \in 0 .. n /\ p < n /\ c.tokens \in Seq(TokenSet)
  BY DEF WordEnds, Begins, Lexer, Text
<1>2. t \in Text /\ Len(t) = n + Len(y) /\ Len(y) \in Nat /\ \A i \in 1 .. n : t[i] = b[i]
  BY <1>1, ConcatIs
<1>3. c \in Lexer(t) /\ p < Len(t) /\ p + 1 \in 1 .. n /\ p + 1 \in 1 .. n + 1
  <2> HIDE DEF t, n, p
  <2>1. p < Len(t) /\ p \in 0 .. Len(t) /\ p + 1 \in 1 .. n /\ p + 1 \in 1 .. n + 1
    BY <1>1, <1>2
  <2>2. c \in Lexer(t)
    BY <1>1, <2>1 DEF Lexer, p
  <2> QED
    BY <2>1, <2>2
<1>4. Turns(b, c, d) /\ Turns(t, c, e)
  BY <1>1, <1>2, <1>3, TurnIs
<1>5. t[p + 1] = b[p + 1]
  <2> HIDE DEF t, n, p
  <2> QED
    BY <1>2, <1>3
<1>6. From(t, p + 1) = f \o y
  <2> HIDE DEF p
  <2> QED
    BY <1>1, <1>3, FromConcat
<1>7. f \in Text /\ Len(f) = n - p /\ f # << >> /\ f[Len(f)] = b[n]
  <2> HIDE DEF p
  <2>1. /\ f \in Text /\ Len(f) = n - p /\ f # << >>
        /\ \A i \in 1 .. n - p : f[i] = b[p + i]
    BY <1>1, RestIs
  <2> HIDE DEF f, n
  <2>2. n - p \in 1 .. n - p /\ p + (n - p) = n
    BY <1>1
  <2> QED
    BY <2>1, <2>2
<1> SUFFICES e = d
  OBVIOUS
<1> HIDE DEF t, f, d, e
<1>8. CASE b[p + 1] = Blank
  BY <1>1, <1>3, <1>4, <1>5, <1>8 DEF Turns
<1>9. CASE b[p + 1] # Blank
  <2>1. d = [at |-> p + r[2], tokens |-> Append(c.tokens, r[1])]
    BY <1>1, <1>4, <1>9 DEF Turns, f
  <2>2. b[n] \notin TokenChars
    BY <1>1 DEF WordEnds
  <2>3. r[1] \in TokenSet
    BY <1>7, TokenInText DEF TokenFits
  <2>4. r[1] # YYUNDEF
    <3> DEFINE q == r[1]
               k == c.tokens
    <3>1. q \in TokenSet /\ k \in Seq(TokenSet)
      BY <1>1, <2>3
    <3>2. YYUNDEF \notin ToSet(Append(k, q) \o ts)
      BY <2>1 DEF d
    <3> HIDE DEF q, k
    <3>3. q # YYUNDEF
      BY <3>1, <3>2, MemberStays
    <3> QED
      BY <3>3 DEF q
  <2>5. FirstToken(f \o y) = r
    BY <1>7, <2>2, <2>4, TokenStays DEF Begins
  <2>6. e = [at |-> p + FirstToken(f \o y)[2], tokens |-> Append(c.tokens, FirstToken(f \o y)[1])]
    BY <1>1, <1>3, <1>4, <1>5, <1>6, <1>9 DEF Turns
  <2> QED
    BY <2>1, <2>5, <2>6
<1> QED
  BY <1>8, <1>9

\* What stands before a new word or quote is scanned as if it stood alone.
LEMMA TokensSplit ==
    ASSUME NEW b, WordEnds(b), NEW y, Begins(y), YYUNDEF \notin ToSet(Tokens(b))
    PROVE  Tokens(b \o y) = Tokens(b) \o Tokens(y)
<1> DEFINE n == Len(b)
           t == b \o y
           lex(i) == LexUpTo(b, i)
           wex(i) == LexUpTo(t, i)
           Parted == \E k \in 0 .. n : lex(k).at = n /\ wex(k) = lex(k)
           T == {i \in 0 .. n : wex(i) = lex(i) \/ Parted}
<1>1. b \in Text /\ y \in Text /\ n \in Nat /\ Len(y) \in Nat
  BY DEF WordEnds, Begins, Text
<1>2. t \in Text /\ Len(t) = n + Len(y)
  BY <1>1, ConcatIs
<1>3. /\ lex(0) = LexStart /\ \A i \in 1 .. n : lex(i) = yylex(b, lex(i - 1))
      /\ \A i \in 0 .. n : lex(i) \in Lexer(b)
  BY <1>1, LexTurns
<1>4. /\ wex(0) = LexStart /\ \A i \in 1 .. Len(t) : wex(i) = yylex(t, wex(i - 1))
  BY <1>2, LexTurns
<1>5. lex(n).at = n /\ Tokens(b) = lex(n).tokens
  BY <1>1, LexEnds DEF Tokens
<1>6. \A i \in 0 .. n : \E ts \in Seq(TokenSet) : Tokens(b) = lex(i).tokens \o ts
  <2> SUFFICES ASSUME NEW i \in 0 .. n
               PROVE  \E ts \in Seq(TokenSet) : Tokens(b) = lex(i).tokens \o ts
    OBVIOUS
  <2>1. n \in i .. n
    BY <1>1
  <2> QED
    <3>1. \E ts \in Seq(TokenSet) : lex(n).tokens = lex(i).tokens \o ts
      <4> HIDE DEF n
      <4> QED
        BY <1>1, <2>1, LexGrows DEF n
    <3> QED
      BY <1>5, <3>1
<1>7. \A i \in 0 .. n : lex(i).at = n => lex(i).tokens = Tokens(b)
  <2> SUFFICES ASSUME NEW i \in 0 .. n, lex(i).at = n
               PROVE  lex(i).tokens = Tokens(b)
    OBVIOUS
  <2>1. n \in i .. n
    BY <1>1
  <2> QED
    BY <1>1, <1>5, <2>1, LexGrows
<1> HIDE DEF lex, wex
<1>8. 0 \in T
  BY <1>1, <1>3, <1>4
<1>9. ASSUME NEW i \in 1 .. n, i - 1 \in T PROVE i \in T
  <2>1. i - 1 \in 0 .. n /\ i \in 0 .. n /\ i \in 1 .. Len(t)
    BY <1>1, <1>2
  <2>2. CASE Parted
    BY <2>1, <2>2
  <2>3. CASE wex(i - 1) = lex(i - 1) /\ lex(i - 1).at = n
    BY <2>1, <2>3
  <2>4. CASE wex(i - 1) = lex(i - 1) /\ lex(i - 1).at # n
    <3> DEFINE c == lex(i - 1)
    <3>1. c \in Lexer(b) /\ lex(i) = yylex(b, c) /\ wex(i) = yylex(t, c)
      BY <1>3, <1>4, <2>1, <2>4
    <3>2. c.at # n
      BY <2>4
    <3> HIDE DEF c, T
    <3>3. c.at < n
      BY <1>1, <3>1, <3>2 DEF Lexer
    <3>4. PICK ts \in Seq(TokenSet) : Tokens(b) = lex(i).tokens \o ts
      BY <1>6, <2>1
    <3>5. YYUNDEF \notin ToSet(yylex(b, c).tokens \o ts)
      BY <3>1, <3>4
    <3>6. yylex(t, c) = yylex(b, c)
      BY <3>1, <3>3, <3>5, TurnStays
    <3>7. wex(i) = lex(i)
      BY <3>1, <3>6
    <3> QED
      BY <2>1, <3>7 DEF T
  <2> HIDE DEF Parted
  <2> QED
    BY <1>9, <2>2, <2>3, <2>4
<1>10. 0 .. n \subseteq T
  <2> HIDE DEF T, n
  <2> QED
    BY <1>1, <1>8, <1>9, UpToInduction
<1>11. PICK k \in 0 .. n : lex(k).at = n /\ wex(k) = lex(k)
  <2>1. n \in T /\ n \in 0 .. n
    BY <1>1, <1>10
  <2>2. wex(n) = lex(n) \/ Parted
    BY <2>1
  <2> QED
    BY <1>5, <2>1, <2>2
<1>12. From(t, n + 1) = y
  <2>1. n \in 0 .. Len(b) /\ n + 1 \in 1 .. Len(b) + 1
    BY <1>1
  <2>2. From(b, n + 1) = << >>
    BY <1>1, <2>1, RestIs
  <2>3. << >> \o y = y
    BY <1>1 DEF Text
  <2> QED
    BY <1>1, <2>1, <2>2, <2>3, FromConcat
<1>13. Tokens(t) = wex(k).tokens \o Tokens(From(t, wex(k).at + 1))
  <2>1. k \in 0 .. Len(t)
    BY <1>1, <1>2
  <2> QED
    BY <1>2, <2>1, TokensFrom DEF wex
<1> QED
  BY <1>7, <1>11, <1>12, <1>13

LEMMA TokensType ==
    ASSUME NEW s \in Text
    PROVE  Tokens(s) \in Seq(TokenSet)
<1>1. Len(s) \in 0 .. Len(s)
  BY DEF Text
<1>2. LexUpTo(s, Len(s)) \in Lexer(s)
  BY <1>1, LexTurns
<1> QED
  BY <1>2 DEF Tokens, Lexer
-------------------------------------------------------------------------------
(* How an inserted name is scanned. *)

\* A word no number begins, and what follows it.
Word(w) == w \in Text /\ w # << >> /\ w[1] \notin Digits /\ \A i \in 1 .. Len(w) : w[i] \in TokenChars

Follows(a) == a \in Text /\ (a # << >> => a[1] \notin TokenChars)

LEMMA Characters ==
    /\ Blank \notin TokenChars \cup {"(", Quote} /\ Quote \notin TokenChars /\ "(" \notin TokenChars
    /\ "=" \notin TokenChars \cup {"(", Quote} /\ {"(", Quote} \subseteq Character
    /\ TokenChars \subseteq Character /\ "'" \notin TokenChars /\ "(" # Quote
    /\ Digits \subseteq TokenChars
  BY DEF Blank, TokenChars, Quote, Letters, Digits, Character

LEMMA RestOfConcat ==
    ASSUME NEW s \in Text, NEW y \in Text
    PROVE  From(s \o y, Len(s) + 1) = y /\ SubSeq(s \o y, 1, Len(s)) = s
<1>1. Len(s) \in Nat /\ Len(s) \in 0 .. Len(s) /\ Len(s) + 1 \in 1 .. Len(s) + 1 /\ 1 \in 1 .. Len(s) + 1
  BY DEF Text
<1>2. From(s, Len(s) + 1) = << >>
  BY <1>1, RestIs
<1>3. << >> \o y = y
  BY DEF Text
<1>4. From(s \o y, Len(s) + 1) = y
  BY <1>1, <1>2, <1>3, FromConcat
<1>5. SubSeq(s \o y, 1, Len(s)) = SubSeq(s, 1, Len(s))
  BY <1>1, SubSeqConcat
<1>6. SubSeq(s, 1, Len(s)) = s
  <2> DEFINE r == SubSeq(s, 1, Len(s))
  <2>1. /\ r \in Text /\ Len(r) = IF 1 <= Len(s) THEN Len(s) - 1 + 1 ELSE 0
        /\ \A i \in 1 .. Len(r) : r[i] = s[1 - 1 + i]
    BY <1>1, SubSeqIs
  <2> HIDE DEF r
  <2>2. Len(r) = Len(s) /\ \A i \in 1 .. Len(r) : 1 - 1 + i = i
    BY <1>1, <2>1
  <2>3. r = s
    BY <2>1, <2>2, SameText
  <2> QED
    BY <2>3 DEF r
<1> QED
  BY <1>4, <1>5, <1>6

IsConcat(t, s, y) ==
    /\ t \in Text /\ Len(t) = Len(s) + Len(y)
    /\ \A i \in 1 .. Len(s) : t[i] = s[i]
    /\ \A i \in 1 .. Len(y) : t[Len(s) + i] = y[i]

LEMMA ConcatHas ==
    ASSUME NEW s \in Text, NEW y \in Text
    PROVE  IsConcat(s \o y, s, y)
  BY ConcatIs DEF IsConcat

IsSubSeq(d, s, a, b) ==
    /\ d \in Text /\ Len(d) = IF a <= b THEN b - a + 1 ELSE 0
    /\ \A i \in 1 .. Len(d) : d[i] = s[a - 1 + i]

LEMMA SubSeqHas ==
    ASSUME NEW s \in Text, NEW a \in 1 .. Len(s) + 1, NEW b \in 0 .. Len(s)
    PROVE  IsSubSeq(SubSeq(s, a, b), s, a, b)
  BY SubSeqIs DEF IsSubSeq

LEMMA WordReads ==
    ASSUME NEW w, Word(w), NEW a, Follows(a)
    PROVE  Tokens(w \o a) = <<Token("IDENT", w)>> \o Tokens(a)
<1> DEFINE t == w \o a
           n == Len(w)
           r == FirstToken(t)
<1>1. w \in Text /\ a \in Text /\ n \in Nat /\ n >= 1 /\ Len(a) \in Nat
  BY DEF Word, Follows, Text
<1>2. /\ t \in Text /\ Len(t) = n + Len(a) /\ \A i \in 1 .. n : t[i] = w[i]
      /\ \A i \in 1 .. Len(a) : t[n + i] = a[i]
  BY <1>1, ConcatIs
<1>3. From(t, n + 1) = a /\ SubSeq(t, 1, n) = w
  BY <1>1, RestOfConcat
<1> HIDE DEF t, n
<1>4. t # << >> /\ t[1] \in TokenChars \ Digits
  BY <1>1, <1>2 DEF Word, n
<1>5. RunOf(t, TokenChars, n)
  <2>1. n \in 0 .. Len(t)
    BY <1>1, <1>2
  <2>2. \A i \in 1 .. n : t[i] \in TokenChars
    BY <1>2 DEF Word, n
  <2>3. ASSUME n < Len(t) PROVE t[n + 1] \notin TokenChars
    <3>1. 1 \in 1 .. Len(a)
      BY <1>1, <1>2, <2>3
    <3>2. a # << >>
      BY <3>1
    <3> QED
      BY <1>2, <3>1, <3>2 DEF Follows
  <2> QED
    BY <2>1, <2>2, <2>3 DEF RunOf
<1>6. Run(t, TokenChars) = n
  BY <1>2, <1>5, RunUnique
<1>7. r = <<Token("IDENT", w), n>>
  BY <1>3, <1>4, <1>6, FirstTokenIs DEF FirstIs
<1>8. t[1] # Blank
  BY <1>4, Characters
<1> HIDE DEF r
<1>9. r[1] = Token("IDENT", w) /\ r[2] = n
  BY <1>7
<1>10. Tokens(t) = <<r[1]>> \o Tokens(From(t, r[2] + 1))
  BY <1>2, <1>4, <1>8, TokensFirst DEF r
<1> QED
  BY <1>3, <1>9, <1>10 DEF t

LEMMA ParenthesisReads ==
    ASSUME NEW a \in Text
    PROVE  /\ Follows(<<"(">> \o a)
           /\ Tokens(<<"(">> \o a) = <<Token("(", << >>)>> \o Tokens(a)
<1> DEFINE p == <<"(">>
           t == p \o a
           r == FirstToken(t)
<1>1. p \in Text /\ Len(p) = 1 /\ p[1] = "("
  BY Characters DEF Text
<1> HIDE DEF p
<1>2a. IsConcat(t, p, a) /\ Len(a) \in Nat
  BY <1>1, ConcatHas DEF Text
<1>2b. From(t, Len(p) + 1) = a
  BY <1>1, RestOfConcat
<1> HIDE DEF t
<1>2. t \in Text /\ Len(t) = 1 + Len(a) /\ t[1] = "(" /\ Len(a) \in Nat
  BY <1>1, <1>2a DEF IsConcat
<1>3. From(t, 1 + 1) = a
  BY <1>1, <1>2b
<1>4. t # << >> /\ t[1] # Blank
  BY <1>2, Characters
<1>5. r = <<Token("(", << >>), 1>>
  <2>1. FirstIs(t, r)
    BY FirstTokenIs
  <2> HIDE DEF r
  <2> QED
    BY <1>2, <2>1, Characters DEF FirstIs
<1> HIDE DEF r
<1>6. r[1] = Token("(", << >>) /\ r[2] = 1
  BY <1>5
<1>7. Tokens(t) = <<r[1]>> \o Tokens(From(t, r[2] + 1))
  BY <1>2, <1>4, TokensFirst DEF r
<1>8. Follows(t)
  BY <1>2, Characters DEF Follows
<1> QED
  BY <1>3, <1>6, <1>7, <1>8 DEF t, p

LEMMA QuotedReads ==
    ASSUME NEW l \in Text, Quote \notin ToSet(l), NEW a \in Text
    PROVE  /\ Tokens((<<Quote>> \o l \o <<Quote>>) \o a) = <<Token("QIDENT", l)>> \o Tokens(a)
           /\ (<<Quote>> \o l \o <<Quote>>) \o a \in Text
           /\ (<<Quote>> \o l \o <<Quote>>) \o a # << >>
           /\ ((<<Quote>> \o l \o <<Quote>>) \o a)[1] = Quote
<1> DEFINE q == <<Quote>>
           ql == q \o l
           w == ql \o q
           t == w \o a
           n == Len(l)
           r == FirstToken(t)
<1>1. q \in Text /\ Len(q) = 1 /\ q[1] = Quote
  BY Characters DEF Text
<1> HIDE DEF q
<1>2a. IsConcat(ql, q, l)
  BY <1>1, ConcatHas
<1>2b. n \in Nat /\ Len(a) \in Nat /\ n = Len(l)
  BY DEF Text
<1> HIDE DEF ql, n
<1>2. ql \in Text /\ Len(ql) = 1 + n /\ ql[1] = Quote /\ \A i \in 1 .. n : ql[1 + i] = l[i]
  BY <1>1, <1>2a, <1>2b DEF IsConcat
<1>4. /\ w \in Text /\ Len(w) = (1 + n) + 1 /\ \A i \in 1 .. 1 + n : w[i] = ql[i]
      /\ w[(1 + n) + 1] = Quote
  <2>1. IsConcat(w, ql, q)
    BY <1>1, <1>2, <1>2b, ConcatHas
  <2> HIDE DEF w
  <2> QED
    BY <1>1, <1>2, <1>2b, <2>1 DEF IsConcat
<1> HIDE DEF w
<1>5. /\ t \in Text /\ Len(t) = ((1 + n) + 1) + Len(a)
      /\ \A i \in 1 .. (1 + n) + 1 : t[i] = w[i]
  <2>1. IsConcat(t, w, a)
    BY <1>4, ConcatHas
  <2> HIDE DEF t
  <2> QED
    BY <1>4, <2>1 DEF IsConcat
<1>6. From(t, ((1 + n) + 1) + 1) = a
  <2>1. From(t, Len(w) + 1) = a
    BY <1>4, RestOfConcat
  <2> HIDE DEF t
  <2> QED
    BY <1>4, <2>1
<1> HIDE DEF t
<1>7. SubSeq(t, 2, 1 + n) = l
  <2> DEFINE d == SubSeq(t, 2, 1 + n)
  <2>1. 2 \in 1 .. Len(t) + 1 /\ 1 + n \in 0 .. Len(t)
    BY <1>2, <1>2b, <1>5
  <2>2. IsSubSeq(d, t, 2, 1 + n)
    BY <1>5, <2>1, SubSeqHas
  <2> HIDE DEF d
  <2>3. d \in Text /\ Len(d) = n
    BY <1>2b, <2>2 DEF IsSubSeq
  <2>4. ASSUME NEW i \in 1 .. n PROVE d[i] = l[i]
    <3>1. 2 - 1 + i = 1 + i /\ 1 + i \in 1 .. 1 + n /\ 1 + i \in 1 .. (1 + n) + 1
      BY <1>2, <1>2b
    <3>2. d[i] = t[1 + i]
      BY <2>2, <2>3, <3>1 DEF IsSubSeq
    <3>3. t[1 + i] = ql[1 + i]
      BY <1>4, <1>5, <3>1
    <3> QED
      BY <1>2, <1>2b, <3>2, <3>3
  <2>5. d = l
    BY <1>2b, <2>3, <2>4, SameText
  <2> QED
    BY <2>5 DEF d
<1>8. t # << >> /\ t[1] = Quote /\ t[1] # Blank
  <2>1. 1 \in 1 .. 1 + n /\ 1 \in 1 .. (1 + n) + 1
    BY <1>2, <1>2b
  <2>2. t[1] = Quote
    BY <1>2, <1>2b, <1>4, <1>5, <2>1
  <2>3. t # << >>
    BY <1>2, <1>2b, <1>5
  <2> QED
    BY <2>2, <2>3, Characters
<1>9. Closing(t) # {} /\ Min(Closing(t)) = (1 + n) + 1
  <2> DEFINE m == (1 + n) + 1
  <2>1. m \in Closing(t) /\ Closing(t) \in SUBSET Int
    <3>1. m \in 2 .. Len(t) /\ m \in 1 .. m
      BY <1>2, <1>2b, <1>5
    <3>2. t[m] = Quote
      BY <1>4, <1>5, <3>1
    <3> HIDE DEF m
    <3> QED
      BY <1>8, <3>1, <3>2 DEF Closing
  <2>2. ASSUME NEW i \in Closing(t), i < m PROVE FALSE
    <3>1. i \in 2 .. Len(t) /\ t[i] = Quote
      BY <1>8 DEF Closing
    <3> DEFINE j == i - 1
    <3>2. j \in 1 .. n /\ i = 1 + j /\ i \in 1 .. 1 + n /\ i \in 1 .. (1 + n) + 1
      BY <1>2, <1>2b, <1>5, <2>2, <3>1
    <3> HIDE DEF j, m
    <3>3. t[i] = ql[1 + j]
      BY <1>4, <1>5, <3>2
    <3>4. t[i] = l[j]
      BY <1>2, <1>2b, <3>2, <3>3
    <3>5. j \in DOMAIN l
      BY <1>2, <1>2b, <3>2 DEF Text
    <3> QED
      BY <3>1, <3>4, <3>5 DEF ToSet
  <2>3. \A i \in Closing(t) : m <= i
    <3> SUFFICES ASSUME NEW i \in Closing(t) PROVE m <= i
      OBVIOUS
    <3>1. i \in Int /\ m \in Int
      BY <2>1
    <3> HIDE DEF m
    <3> QED
      BY <2>2, <3>1
  <2> HIDE DEF m
  <2> QED
    BY <2>1, <2>3, MinIs DEF m
<1>10. r = <<Token("QIDENT", l), (1 + n) + 1>>
  <2>1. (1 + n) + 1 - 1 = 1 + n
    BY <1>2, <1>2b
  <2>2. FirstIs(t, r)
    BY FirstTokenIs
  <2> HIDE DEF r
  <2>3. r = <<Token("QIDENT", SubSeq(t, 2, Min(Closing(t)) - 1)), Min(Closing(t))>>
    BY <1>8, <1>9, <2>2 DEF FirstIs
  <2> QED
    <3> DEFINE k == Min(Closing(t)) - 1
    <3>2. k = 1 + n
      BY <1>2b, <1>9
    <3> HIDE DEF k
    <3>3. SubSeq(t, 2, k) = l
      BY <1>7, <3>2
    <3>1. SubSeq(t, 2, Min(Closing(t)) - 1) = l
      BY <3>3 DEF k
    <3> QED
      BY <1>9, <2>3, <3>1
<1> HIDE DEF r
<1>11. r[1] = Token("QIDENT", l) /\ r[2] = (1 + n) + 1
  BY <1>10
<1>12. Tokens(t) = <<r[1]>> \o Tokens(From(t, r[2] + 1))
  BY <1>5, <1>8, TokensFirst DEF r
<1>13. Tokens(t) = <<Token("QIDENT", l)>> \o Tokens(a)
  BY <1>6, <1>11, <1>12
<1> QED
  BY <1>5, <1>8, <1>13 DEF t, w, ql, q
-------------------------------------------------------------------------------
(* The suggestions and what they insert. *)

\* A function, a column that is an identifier, a column that is none.
Suggestion(c) ==
    \/ Word(c.display) /\ c.insert = c.display \o <<"(">>
    \/ Word(c.display) /\ c.insert = c.display
    \/ Quote \notin ToSet(c.display) /\ c.insert = <<Quote>> \o c.display \o <<Quote>>

Suggestions == {c \in [display : Text, insert : Text] : Suggestion(c)}

LEMMA WordOf ==
    ASSUME NEW w \in Seq(TokenChars), w # << >>, w[1] \notin Digits
    PROVE  Word(w)
<1>1. TokenChars \subseteq Character
  BY Characters

<1>2. w \in Text
  <2> HIDE DEF TokenChars
  <2> QED
    BY <1>1 DEF Text
<1>3. \A i \in 1 .. Len(w) : w[i] \in TokenChars
  OBVIOUS
<1> QED
  BY <1>2, <1>3 DEF Word

LEMMA FunctionSuggested ==
    ASSUME NEW i \in DOMAIN Functions
    PROVE  [display |-> Functions[i], insert |-> Functions[i] \o <<"(">>] \in Suggestions
<1> DEFINE w == Functions[i]
           p == <<"(">>
           t == w \o p
<1>1. w \in Seq(TokenChars) /\ w \in ToSet(Functions)
  BY FieldAssumption DEF ToSet
<1>2. Word(w)
  BY <1>1, FieldAssumption, WordOf
<1>3. p \in Text
  BY Characters DEF Text
<1>4. w \in Text
  BY <1>2 DEF Word
<1> HIDE DEF w, p
<1>5. t \in Text
  BY <1>3, <1>4, ConcatIs
<1>6. [display |-> w, insert |-> t] \in Suggestions
  <2> DEFINE c == [display |-> w, insert |-> t]
  <2>1. c.display = w /\ c.insert = t
    OBVIOUS
  <2>2. c \in [display : Text, insert : Text]
    <3> HIDE DEF t
    <3> QED
      BY <1>4, <1>5
  <2> HIDE DEF c
  <2>3. Suggestion(c)
    BY <1>2, <2>1 DEF Suggestion, p
  <2>4. c \in Suggestions
    BY <2>2, <2>3 DEF Suggestions
  <2> QED
    BY <2>4 DEF c
<1> QED
  BY <1>6 DEF w, p

\* A bare name, or the label between quotes.
Named(label, t) ==
    \/ label[1] \notin Digits /\ ToSet(label) \subseteq TokenChars /\ t = label
    \/ t = <<Quote>> \o label \o <<Quote>>

LEMMA FormulaNameIs ==
    ASSUME NEW label
    PROVE  Named(label, FormulaName(label))
  BY DEF Named, FormulaName

LEMMA QuotedInText ==
    ASSUME NEW l \in Text
    PROVE  <<Quote>> \o l \o <<Quote>> \in Text
<1> DEFINE q == <<Quote>>
           ql == q \o l
<1>1. q \in Text
  BY Characters DEF Text
<1> HIDE DEF q
<1>2. ql \in Text
  BY <1>1, ConcatIs
<1> HIDE DEF ql
<1>3. ql \o q \in Text
  BY <1>1, <1>2, ConcatIs
<1> QED
  BY <1>3 DEF ql, q

LEMMA LabelSuggested ==
    ASSUME NEW i \in DOMAIN Labels
    PROVE  [display |-> Labels[i], insert |-> FormulaName(Labels[i])] \in Suggestions
<1> DEFINE l == Labels[i]
           t == FormulaName(l)
           c == [display |-> l, insert |-> t]
<1>1. l \in Text /\ l \in ToSet(Labels)
  BY FieldAssumption DEF ToSet
<1>2. l # << >> /\ Quote \notin ToSet(l)
  BY <1>1, FieldAssumption
<1>3. Named(l, t)
  BY FormulaNameIs
<1>4. c.display = l /\ c.insert = t
  OBVIOUS
<1> SUFFICES c \in Suggestions
  OBVIOUS
<1> HIDE DEF l, t
<1>5. CASE l[1] \notin Digits /\ ToSet(l) \subseteq TokenChars /\ t = l
  <2>1. Word(l)
    <3>1. \A k \in 1 .. Len(l) : l[k] \in TokenChars
      BY <1>1, <1>5 DEF ToSet, Text
    <3> QED
      BY <1>1, <1>2, <1>5, <3>1 DEF Word
  <2>2. c \in [display : Text, insert : Text]
    BY <1>1, <1>5
  <2> HIDE DEF c
  <2> QED
    BY <1>4, <1>5, <2>1, <2>2 DEF Suggestion, Suggestions
<1>6. CASE t = <<Quote>> \o l \o <<Quote>>
  <2>1. t \in Text
    BY <1>1, <1>6, QuotedInText
  <2>2. c \in [display : Text, insert : Text]
    BY <1>1, <2>1
  <2> HIDE DEF c
  <2>3. Suggestion(c)
    BY <1>2, <1>4, <1>6 DEF Suggestion
  <2> QED
    BY <2>2, <2>3 DEF Suggestions
<1> QED
  BY <1>3, <1>5, <1>6 DEF Named

LEMMA CandidatesAre == BuildFormulaCandidates \in Seq(Suggestions)
<1> DEFINE f == [i \in DOMAIN Functions |-> [display |-> Functions[i], insert |-> Functions[i] \o <<"(">>]]
           g == [i \in DOMAIN Labels |-> [display |-> Labels[i], insert |-> FormulaName(Labels[i])]]
<1>1. f \in Seq(Suggestions)
  <2>1. \A i \in DOMAIN Functions : f[i] \in Suggestions
    BY FunctionSuggested
  <2>2. Len(Functions) \in Nat /\ DOMAIN Functions = 1 .. Len(Functions) /\ DOMAIN f = DOMAIN Functions
    BY FieldAssumption
  <2>3. f \in [1 .. Len(Functions) -> Suggestions]
    BY <2>1, <2>2
  <2> HIDE DEF f
  <2> QED
    BY <2>2, <2>3
<1>2. g \in Seq(Suggestions)
  <2>1. \A i \in DOMAIN Labels : g[i] \in Suggestions
    BY LabelSuggested
  <2>2. Len(Labels) \in Nat /\ DOMAIN Labels = 1 .. Len(Labels) /\ DOMAIN g = DOMAIN Labels
    BY FieldAssumption
  <2>3. g \in [1 .. Len(Labels) -> Suggestions]
    BY <2>1, <2>2
  <2> HIDE DEF g
  <2> QED
    BY <2>2, <2>3
<1> HIDE DEF f, g
<1>3. f \o g \in Seq(Suggestions)
  BY <1>1, <1>2
<1> QED
  BY <1>3 DEF BuildFormulaCandidates, f, g

LEMMA MatchingIs ==
    ASSUME NEW word
    PROVE  Matching(word) \in Seq(Suggestions)
<1> DEFINE C == BuildFormulaCandidates
           n == Len(C)
           S == Seq(Suggestions)
           turn(i, m) == IF IsPrefix(Upper(word), Upper(C[i].display)) THEN Append(m, C[i]) ELSE m
           first == << >>
           step == [i \in 1 .. n |-> [m \in S |-> turn(i, m)]]
           run == CHOOSE f : f = [i \in 0 .. n |-> IF i = 0 THEN first ELSE turn(i, f[i - 1])]
<1>1. n \in Nat /\ first \in S /\ \A i \in 1 .. n : C[i] \in Suggestions
  BY CandidatesAre
<1> HIDE DEF C
<1>2. \A i \in 1 .. n : \A m \in S : turn(i, m) \in S
  BY <1>1
<1> HIDE DEF turn, n, S, first
<1>3. step \in [1 .. n -> [S -> S]]
  BY <1>2
<1>4. PICK f \in [0 .. n -> S] : Unfolds(f, n, first, step)
  <2> HIDE DEF step
  <2> QED
    BY <1>1, <1>3, LoopExists
<1>5. f = [i \in 0 .. n |-> IF i = 0 THEN first ELSE turn(i, f[i - 1])]
  <2>1. ASSUME NEW i \in 0 .. n, i # 0
        PROVE  step[i][f[i - 1]] = turn(i, f[i - 1])
    <3>1. i \in 1 .. n /\ i - 1 \in 0 .. n
      BY <1>1, <2>1
    <3>2. f[i - 1] \in S
      BY <1>4, <3>1
    <3> QED
      BY <3>1, <3>2
  <2> HIDE DEF step
  <2> QED
    BY <1>4, <2>1 DEF Unfolds
<1>6. run = [i \in 0 .. n |-> IF i = 0 THEN first ELSE turn(i, run[i - 1])]
  BY <1>5
<1>7. Matching(word) = run[n]
  BY DEF Matching, C, n, turn, first
<1> HIDE DEF run
<1>8. \A i \in 0 .. n : run[i] = IF i = 0 THEN first ELSE turn(i, run[i - 1])
  BY <1>6
<1>9. n \in {i \in 0 .. n : run[i] \in S}
  <2> DEFINE T == {i \in 0 .. n : run[i] \in S}
  <2>1. 0 \in T
    BY <1>1, <1>8
  <2>2. \A i \in 1 .. n : i - 1 \in T => i \in T
    BY <1>1, <1>2, <1>8
  <2> HIDE DEF T
  <2>3. 0 .. n \subseteq T
    BY <1>1, <2>1, <2>2, UpToInduction
  <2> QED
    BY <1>1, <2>3 DEF T
<1> QED
  BY <1>7, <1>9 DEF S

LEMMA MatchTokenIs ==
    ASSUME NEW s, NEW at
    PROVE  MatchToken(s, at) \in Seq(Suggestions)
  BY MatchingIs DEF MatchToken

LEMMA TextsJoin ==
    ASSUME NEW s \in Text, NEW y \in Text, NEW z \in Text
    PROVE  (s \o y) \o z = s \o (y \o z)
  BY ConcatThree DEF Text

\* What a suggestion inserts is scanned as its name.
NameTokens(c) == {<<Token("IDENT", c.display)>>, <<Token("QIDENT", c.display)>>,
                  <<Token("IDENT", c.display), Token("(", << >>)>>}

\* What y reads as: the name, then what is behind it.
ReadsAs(c, y, a) == \E name \in NameTokens(c) \cap Seq(TokenSet) : Tokens(y) = name \o Tokens(a)

LEMMA InsertReads ==
    ASSUME NEW c \in Suggestions, NEW a, Follows(a)
    PROVE  /\ ReadsAs(c, c.insert \o a, a)
           /\ c.insert \o a \in Text /\ c.insert \o a # << >>
           /\ (c.insert \o a)[1] \notin Digits \cup {"="}
<1> DEFINE w == c.display
           t == c.insert
           y == t \o a
           id == Token("IDENT", w)
           qid == Token("QIDENT", w)
           par == Token("(", << >>)
<1>1. w \in Text /\ t \in Text /\ Suggestion(c) /\ a \in Text
  BY DEF Suggestions, Follows
<1>2. id \in TokenSet /\ qid \in TokenSet /\ par \in TokenSet
  <2>1. << >> \in Text
    BY DEF Text
  <2> QED
    BY <1>1, <2>1 DEF TokenSet, Token, Kinds
<1>3. Tokens(a) \in Seq(TokenSet)
  BY <1>1, TokensType
<1>4. <<id>> \in NameTokens(c) /\ <<qid>> \in NameTokens(c) /\ <<id, par>> \in NameTokens(c)
  BY DEF NameTokens
<1>5. Digits \subseteq TokenChars /\ "=" \notin TokenChars /\ "=" # Quote /\ Quote \notin Digits
  BY Characters
<1>6. ASSUME Word(w) PROVE w # << >> /\ w[1] \in TokenChars \ Digits /\ Len(w) \in Nat /\ 1 \in 1 .. Len(w)
  BY <1>1, <1>6 DEF Word, Text
<1> HIDE DEF id, qid, par
<1>7. CASE Word(w) /\ t = w \o <<"(">>
  <2> DEFINE p == <<"(">>
             q == p \o a
             z == w \o q
  <2>1. Follows(q) /\ Tokens(q) = <<par>> \o Tokens(a)
    BY <1>1, ParenthesisReads DEF par
  <2>2. p \in Text
    BY Characters DEF Text
  <2> HIDE DEF p
  <2>3. (w \o p) \o a = w \o (p \o a)
    BY <1>1, <2>2, TextsJoin
  <2>4. y = z
    BY <1>7, <2>3 DEF p
  <2> HIDE DEF q
  <2>5. q \in Text
    BY <2>1 DEF Follows
  <2>6. Tokens(z) = <<id>> \o Tokens(q)
    BY <1>7, <2>1, WordReads DEF id
  <2>7. IsConcat(z, w, q)
    BY <1>1, <2>5, ConcatHas
  <2> HIDE DEF z, y
  <2>8. Tokens(y) = <<id, par>> \o Tokens(a)
    <3>1. <<id>> \o (<<par>> \o Tokens(a)) = <<id, par>> \o Tokens(a)
      BY <1>2, <1>3
    <3> QED
      BY <2>1, <2>4, <2>6, <3>1
  <2>9. y \in Text /\ y # << >> /\ y[1] = w[1]
    BY <1>1, <1>6, <1>7, <2>4, <2>5, <2>7 DEF IsConcat, Text
  <2>10. ReadsAs(c, y, a)
    <3>1. <<id, par>> \in NameTokens(c) \cap Seq(TokenSet)
      BY <1>2, <1>4
    <3> QED
      BY <2>8, <3>1 DEF ReadsAs
  <2>11. y[1] \notin Digits \cup {"="}
    BY <1>5, <1>6, <1>7, <2>9
  <2> QED
    BY <2>9, <2>10, <2>11 DEF y
<1>8. CASE Word(w) /\ t = w
  <2>1. Tokens(y) = <<id>> \o Tokens(a)
    BY <1>8, WordReads DEF id
  <2>2. IsConcat(y, w, a)
    BY <1>1, <1>8, ConcatHas
  <2> HIDE DEF y
  <2>3. y \in Text /\ y # << >> /\ y[1] = w[1]
    BY <1>1, <1>6, <1>8, <2>2 DEF IsConcat, Text
  <2>4. ReadsAs(c, y, a)
    <3>1. <<id>> \in NameTokens(c) \cap Seq(TokenSet)
      BY <1>2, <1>4
    <3> QED
      BY <2>1, <3>1 DEF ReadsAs
  <2>5. y[1] \notin Digits \cup {"="}
    BY <1>5, <1>6, <1>8, <2>3
  <2> QED
    BY <2>3, <2>4, <2>5 DEF y
<1>9. CASE Quote \notin ToSet(w) /\ t = <<Quote>> \o w \o <<Quote>>
  <2> DEFINE z == (<<Quote>> \o w \o <<Quote>>) \o a
  <2>0. y = z
    BY <1>9
  <2>1a. Tokens(z) = <<qid>> \o Tokens(a) /\ z \in Text /\ z # << >> /\ z[1] = Quote
    BY <1>1, <1>9, QuotedReads DEF qid
  <2> HIDE DEF z
  <2>1. /\ Tokens(y) = <<qid>> \o Tokens(a)
        /\ y \in Text /\ y # << >> /\ y[1] = Quote
    BY <2>0, <2>1a
  <2> HIDE DEF y
  <2>2. ReadsAs(c, y, a)
    <3>1. <<qid>> \in NameTokens(c) \cap Seq(TokenSet)
      BY <1>2, <1>4
    <3> QED
      BY <2>1, <3>1 DEF ReadsAs
  <2>3. y[1] \notin Digits \cup {"="}
    BY <1>5, <2>1
  <2> QED
    BY <2>1, <2>2, <2>3 DEF y
<1> QED
  BY <1>1, <1>7, <1>8, <1>9 DEF Suggestion
-------------------------------------------------------------------------------
(* The word at the caret, and what the formula is without its "=". *)

StartsWord(s, at, k) ==
    /\ k \in 0 .. at
    /\ k > 0 => s[k] \notin TokenChars

LEMMA WordStartIs ==
    ASSUME NEW s \in Text, NEW at \in 0 .. Len(s)
    PROVE  StartsWord(s, at, WordStart(s, at))
<1> DEFINE p == SubSeq(s, 1, at)
           r == Reverse(p)
           n == Run(r, TokenChars)
           k == at - n
<1>1. Len(s) \in Nat /\ at \in Nat /\ 1 \in 1 .. Len(s) + 1
  BY DEF Text
<1>2. IsSubSeq(p, s, 1, at)
  BY <1>1, SubSeqHas
<1> HIDE DEF p
<1>3. p \in Text /\ Len(p) = at /\ \A i \in 1 .. at : p[i] = s[i]
  BY <1>1, <1>2 DEF IsSubSeq
<1>4. r \in Text /\ Len(r) = at /\ \A i \in 1 .. at : r[i] = p[(at - i) + 1]
  <2>1. r = [i \in 1 .. at |-> p[(at - i) + 1]]
    BY <1>3 DEF Reverse
  <2>2. \A i \in 1 .. at : p[(at - i) + 1] \in Character
    <3> SUFFICES ASSUME NEW i \in 1 .. at PROVE p[(at - i) + 1] \in Character
      OBVIOUS
    <3>1. (at - i) + 1 \in 1 .. at
      BY <1>1
    <3> QED
      BY <1>3, <3>1 DEF Text
  <2> HIDE DEF r
  <2>3. r \in [1 .. at -> Character]
    BY <2>1, <2>2
  <2> QED
    BY <1>1, <2>1, <2>3 DEF Text
<1> HIDE DEF r
<1>5. RunOf(r, TokenChars, n)
  BY <1>4, RunIs
<1> HIDE DEF n
<1>6. n \in 0 .. at /\ (n < at => r[n + 1] \notin TokenChars)
  BY <1>4, <1>5 DEF RunOf
<1>7. k \in 0 .. at /\ (k > 0 => n < at /\ n + 1 \in 1 .. at /\ (at - (n + 1)) + 1 = k /\ k \in 1 .. at)
  BY <1>1, <1>6
<1>8. k > 0 => s[k] \notin TokenChars
  <2> HIDE DEF k
  <2> QED
    BY <1>3, <1>4, <1>6, <1>7
<1> QED
  BY <1>7, <1>8 DEF WordStart, StartsWord, k, n, r, p

\* Behind the "=", what ends outside a word still does.
LEMMA FormulaSplits ==
    ASSUME NEW b, WordEnds(b), NEW y \in Text, y # << >>, y[1] # "="
    PROVE  Formula(b \o y) = Formula(b) \o y /\ WordEnds(Formula(b))
<1> DEFINE t == b \o y
           f == From(b, 1 + 1)
<1>1. b \in Text /\ Len(b) \in Nat
  BY DEF WordEnds, Text
<1>2. CASE b = << >>
  <2>1. t = y /\ << >> \o y = y
    BY <1>2 DEF Text
  <2>2. Formula(y) = y /\ Formula(<< >>) = << >>
    BY DEF Formula
  <2> QED
    BY <1>2, <2>1, <2>2
<1>3. CASE b # << >>
  <2>1. Len(b) >= 1 /\ 1 \in 0 .. Len(b) /\ 1 + 1 \in 1 .. Len(b) + 1 /\ 1 \in 1 .. Len(b)
    BY <1>1, <1>3 DEF Text
  <2>2. IsConcat(t, b, y)
    BY <1>1, ConcatHas
  <2>3. From(t, 1 + 1) = f \o y
    BY <1>1, <2>1, FromConcat
  <2>4. /\ f \in Text /\ Len(f) = Len(b) - 1
        /\ \A i \in 1 .. Len(b) - 1 : f[i] = b[1 + i]
    BY <1>1, <2>1, RestIs
  <2> HIDE DEF t, f
  <2>5. t \in Text /\ t # << >> /\ t[1] = b[1]
    BY <1>1, <2>1, <2>2 DEF IsConcat, Text
  <2>6. Tail(t) = From(t, 1 + 1) /\ Tail(b) = From(b, 1 + 1)
    BY <1>1, <1>3, <2>5 DEF Text, From, Tail
  <2>7. WordEnds(f)
    <3>1. ASSUME f # << >> PROVE f[Len(f)] \notin TokenChars
      <4>1. Len(f) \in 1 .. Len(b) - 1 /\ 1 + Len(f) = Len(b)
        BY <1>1, <2>1, <2>4, <3>1 DEF Text
      <4>2. f[Len(f)] = b[1 + Len(f)]
        BY <2>4, <4>1
      <4> QED
        BY <1>3, <4>1, <4>2 DEF WordEnds
    <3> QED
      BY <2>4, <3>1 DEF WordEnds
  <2>8. CASE b[1] = "="
    <3>1. Formula(t) = f \o y /\ Formula(b) = f
      BY <1>3, <2>3, <2>5, <2>6, <2>8 DEF Formula, f
    <3> QED
      BY <2>7, <3>1 DEF t
  <2>9. CASE b[1] # "="
    <3>1. Formula(t) = t /\ Formula(b) = b
      BY <1>3, <2>5, <2>9 DEF Formula
    <3> QED
      BY <3>1 DEF t
  <2> QED
    BY <2>8, <2>9
<1> QED
  BY <1>2, <1>3

\* A suggestion inserted where a word starts.
LEMMA NameAdded ==
    ASSUME NEW c \in Suggestions, NEW a, Follows(a), NEW b, WordEnds(b),
           YYUNDEF \notin ToSet(Tokens(Formula(b)))
    PROVE  Tokens(Formula((b \o c.insert) \o a)) \in
               {Tokens(Formula(b)) \o name \o Tokens(a) : name \in NameTokens(c)}
<1> DEFINE t == c.insert
           y == t \o a
           f == Formula(b)
<1>1. t \in Text /\ a \in Text /\ b \in Text
  BY DEF Suggestions, Follows, WordEnds
<1>2. (b \o t) \o a = b \o y
  BY <1>1, TextsJoin
<1>3. y \in Text /\ y # << >> /\ y[1] \notin Digits \cup {"="} /\ ReadsAs(c, y, a)
  BY InsertReads
<1> HIDE DEF y
<1>4. Formula(b \o y) = f \o y /\ WordEnds(f)
  BY <1>3, FormulaSplits
<1>5. YYUNDEF \notin ToSet(Tokens(f))
  OBVIOUS
<1> HIDE DEF f
<1>6. Tokens(f \o y) = Tokens(f) \o Tokens(y)
  BY <1>3, <1>4, <1>5, TokensSplit DEF Begins
<1>7. PICK name \in NameTokens(c) \cap Seq(TokenSet) : Tokens(y) = name \o Tokens(a)
  BY <1>3 DEF ReadsAs
<1>8. Tokens(f) \in Seq(TokenSet) /\ Tokens(a) \in Seq(TokenSet)
  BY <1>1, <1>4, TokensType DEF WordEnds
<1>9. Tokens(f) \o (name \o Tokens(a)) = Tokens(f) \o name \o Tokens(a)
  BY <1>7, <1>8
<1>10. Tokens(Formula((b \o t) \o a)) = Tokens(f) \o name \o Tokens(a)
  BY <1>2, <1>4, <1>6, <1>7, <1>9
<1> QED
  BY <1>7, <1>10 DEF f
-------------------------------------------------------------------------------
(* The field's steps. *)

\* A text of n characters.
TextOf(t, n) == t \in Text /\ Len(t) = n

LEMMA SubSeqText ==
    ASSUME NEW s \in Text, NEW i \in 0 .. Len(s)
    PROVE  TextOf(SubSeq(s, 1, i), i)
<1>1. Len(s) \in Nat /\ 1 \in 1 .. Len(s) + 1 /\ i \in Nat
  BY DEF Text
<1>2. IsSubSeq(SubSeq(s, 1, i), s, 1, i)
  BY <1>1, SubSeqHas
<1> QED
  BY <1>1, <1>2 DEF IsSubSeq, TextOf

LEMMA ConcatText ==
    ASSUME NEW s, NEW n, TextOf(s, n), NEW y, NEW k, TextOf(y, k)
    PROVE  TextOf(s \o y, n + k)
<1>1. s \in Text /\ y \in Text
  BY DEF TextOf
<1> QED
  BY <1>1, ConcatIs DEF TextOf

\* The characters of s up to i, m, and those of s behind j.
LEMMA Splice ==
    ASSUME NEW s \in Text, NEW i \in 0 .. Len(s), NEW j \in 0 .. Len(s), NEW m \in Text
    PROVE  TextOf((SubSeq(s, 1, i) \o m) \o From(s, j + 1), (i + Len(m)) + (Len(s) - j))
<1>1. TextOf(SubSeq(s, 1, i), i)
  BY SubSeqText
<1>2. TextOf(m, Len(m))
  BY DEF TextOf
<1>3. TextOf(From(s, j + 1), Len(s) - j)
  BY RestIs DEF TextOf
<1>4. TextOf(SubSeq(s, 1, i) \o m, i + Len(m))
  BY <1>1, <1>2, ConcatText
<1> QED
  BY <1>3, <1>4, ConcatText

LEMMA Between ==
    ASSUME NEW a \in Int, NEW b \in Int
    PROVE  /\ Min({a, b}) = IF a <= b THEN a ELSE b
           /\ Max({a, b}) = IF a <= b THEN b ELSE a
<1>1. CASE a <= b
  <2>1. {a, b} \in SUBSET Int /\ a \in {a, b} /\ b \in {a, b}
        /\ (\A n \in {a, b} : a <= n) /\ (\A n \in {a, b} : n <= b)
    BY <1>1
  <2> QED
    BY <1>1, <2>1, MinIs, MaxIs
<1>2. CASE ~(a <= b)
  <2>1. {a, b} \in SUBSET Int /\ a \in {a, b} /\ b \in {a, b}
        /\ (\A n \in {a, b} : b <= n) /\ (\A n \in {a, b} : n <= a)
    BY <1>2
  <2> QED
    BY <1>2, <2>1, MinIs, MaxIs
<1> QED
  BY <1>1, <1>2

\* What a step relies on: while the popup is shown, it is that of a place of the text.
FieldInv ==
    /\ text \in Text
    /\ shown \in BOOLEAN
    /\ shown => matchedAt \in 0 .. Len(text)
    /\ PopupOfText

LEMMA FieldSelected ==
    ASSUME FieldInv, shown
    PROVE  /\ current \in Seq(Suggestions) /\ current[sel] \in Suggestions
           /\ Len(current) \in Nat /\ sel \in 1 .. Len(current)
           /\ tokenStart \in 0 .. matchedAt
<1>1. current \in Seq(Suggestions) /\ sel \in DOMAIN current
  BY MatchTokenIs DEF FieldInv, PopupOfText
<1>2. StartsWord(text, matchedAt, tokenStart)
  BY WordStartIs DEF FieldInv, PopupOfText
<1> QED
  BY <1>1, <1>2 DEF StartsWord

LEMMA FieldHidden ==
    ASSUME text' \in Text, caret' \in 0 .. Len(text'), shown' = FALSE
    PROVE  FieldInv'
  BY DEF FieldInv, PopupOfText

LEMMA FieldRefreshed ==
    ASSUME text' \in Text, caret' \in 0 .. Len(text'), dialog' = "open", RefreshPopup
    PROVE  FieldInv'
<1> DEFINE m == MatchToken(text', caret')
<1>1. m \in Seq(Suggestions)
  BY MatchTokenIs
<1>2. CASE m = << >>
  BY <1>2, FieldHidden DEF RefreshPopup, HidePopup
<1>3. CASE m # << >>
  <2>1. /\ shown' = TRUE /\ tokenStart' = WordStart(text', caret') /\ current' = m
        /\ sel' = 1 /\ matchedAt' = caret'
    BY <1>3 DEF RefreshPopup
  <2>2. 1 \in DOMAIN m
    <3> HIDE DEF m
    <3> QED
      BY <1>1, <1>3
  <2>3. sel' \in DOMAIN current'
    BY <2>1, <2>2
  <2> QED
    BY <2>1, <2>3 DEF FieldInv, PopupOfText
<1> QED
  BY <1>2, <1>3

LEMMA FieldBegins ==
    ASSUME FieldInit
    PROVE  FieldInv
<1> DEFINE e == <<"=">>
<1>1. TextOf(e, 1)
  BY Characters DEF TextOf, Text, Character
<1>2. \A label \in ToSet(Labels) : FormulaName(label) \in Text
  <2> SUFFICES ASSUME NEW label \in ToSet(Labels) PROVE FormulaName(label) \in Text
    OBVIOUS
  <2>1. PICK i \in DOMAIN Labels : label = Labels[i]
    BY DEF ToSet
  <2>2. [display |-> Labels[i], insert |-> FormulaName(Labels[i])] \in Suggestions
    BY LabelSuggested
  <2> QED
    BY <2>1, <2>2 DEF Suggestions
<1>3. \A label \in ToSet(Labels) : e \o FormulaName(label) \in Text
  <2> HIDE DEF e
  <2> QED
    BY <1>1, <1>2, ConcatIs DEF TextOf
<1>4. text \in Text
  BY <1>1, <1>3 DEF FieldInit, TextOf
<1>5. caret \in 0 .. Len(text) /\ shown = FALSE
  BY <1>4 DEF FieldInit, Text
<1> QED
  BY <1>4, <1>5 DEF FieldInv, PopupOfText

LEMMA FieldTyped ==
    ASSUME FieldInv, NEW ch \in Typeable, Type(ch)
    PROVE  FieldInv'
<1> DEFINE m == <<ch>>
           n == Len(text)
<1>1. text \in Text /\ caret \in 0 .. n /\ n \in Nat
  BY DEF FieldInv, PopupOfText, Text
<1>2. m \in Text /\ Len(m) = 1
  BY DEF Text, Character
<1> HIDE DEF m
<1>3. TextOf((SubSeq(text, 1, caret) \o m) \o From(text, caret + 1), (caret + Len(m)) + (n - caret))
  BY <1>1, <1>2, Splice
<1>4. text' = (SubSeq(text, 1, caret) \o m) \o From(text, caret + 1)
  BY DEF Type, m
<1>5. caret' = caret + 1 /\ dialog' = "open" /\ RefreshPopup
  BY DEF Type
<1>6. text' \in Text /\ Len(text') = n + 1
  <2>1. (caret + Len(m)) + (n - caret) = n + 1
    <3> HIDE DEF n
    <3> QED
      BY <1>1, <1>2
  <2> QED
    BY <1>3, <1>4, <2>1 DEF TextOf
<1>7. caret' \in 0 .. Len(text')
  <2> HIDE DEF n
  <2> QED
    BY <1>1, <1>5, <1>6
<1> QED
  BY <1>5, <1>6, <1>7, FieldRefreshed

LEMMA FieldErased ==
    ASSUME FieldInv, Erase
    PROVE  FieldInv'
<1> DEFINE n == Len(text)
           k == caret - 1
<1>1. text \in Text /\ caret \in 1 .. n /\ n \in Nat
  BY DEF FieldInv, PopupOfText, Text, Erase
<1>2. k \in 0 .. n /\ k \in Nat
  BY <1>1
<1>3. TextOf(SubSeq(text, 1, k), k)
  BY <1>1, <1>2, SubSeqText
<1>4. TextOf(From(text, caret + 1), n - caret)
  BY <1>1, RestIs DEF TextOf
<1>5. TextOf(SubSeq(text, 1, k) \o From(text, caret + 1), k + (n - caret))
  BY <1>3, <1>4, ConcatText
<1>6. text' = SubSeq(text, 1, k) \o From(text, caret + 1)
  BY DEF Erase, RemoveAt, From
<1>7. caret' = k /\ dialog' = "open" /\ RefreshPopup
  BY DEF Erase
<1>8. text' \in Text /\ Len(text') = k + (n - caret)
  BY <1>5, <1>6 DEF TextOf
<1>9. caret' \in 0 .. Len(text')
  <2>1. k \in 0 .. k + (n - caret)
    <3> HIDE DEF n
    <3> QED
      BY <1>1
  <2> QED
    BY <1>7, <1>8, <2>1
<1> QED
  BY <1>7, <1>8, <1>9, FieldRefreshed

LEMMA FieldSelects ==
    ASSUME FieldInv, NEW delta \in {-1, 1}, MoveSelection(delta)
    PROVE  FieldInv'
<1> DEFINE n == Len(current)
           l == Min({sel + delta, n})
<1>1. shown /\ sel' = Max({1, l}) /\ UNCHANGED <<text, caret, shown, tokenStart, current, matchedAt, dialog>>
  BY DEF MoveSelection
<1>2. n \in Nat /\ sel \in 1 .. n /\ current \in Seq(Suggestions)
  BY <1>1, FieldSelected
<1> HIDE DEF n
<1>3. sel + delta \in Int /\ n \in Int
  BY <1>2
<1>4. l = IF sel + delta <= n THEN sel + delta ELSE n
  BY <1>3, Between
<1> HIDE DEF l
<1>5. l \in Int /\ l <= n
  BY <1>2, <1>3, <1>4
<1>6. Max({1, l}) = IF 1 <= l THEN l ELSE 1
  BY <1>5, Between
<1>7. sel' \in 1 .. n
  BY <1>1, <1>2, <1>5, <1>6
<1>8. sel' \in DOMAIN current'
  BY <1>1, <1>2, <1>7 DEF n
<1> QED
  BY <1>1, <1>8 DEF FieldInv, PopupOfText

\* Accepting, at whichever place of the text the caret is.
LEMMA FieldAccepts ==
    ASSUME FieldInv, Accept
    PROVE  FieldInv'
<1> DEFINE n == Len(text)
           i == Min({tokenStart, caret})
           j == Max({tokenStart, caret})
           m == current[sel].insert
           k == tokenStart + Len(m)
<1>1. text \in Text /\ caret \in 0 .. n /\ n \in Nat /\ shown /\ matchedAt \in 0 .. n
  BY DEF FieldInv, PopupOfText, Text, Accept
<1>2. tokenStart \in 0 .. n /\ m \in Text
  <2>1. tokenStart \in 0 .. matchedAt /\ current[sel] \in Suggestions
    BY <1>1, FieldSelected
  <2>2. m \in Text
    BY <2>1 DEF Suggestions
  <2> HIDE DEF n
  <2> QED
    BY <1>1, <2>1, <2>2
<1> HIDE DEF m
<1>3. i \in 0 .. n /\ j \in 0 .. n
  <2>1. tokenStart \in Int /\ caret \in Int
    BY <1>1, <1>2
  <2>2. i \in {tokenStart, caret} /\ j \in {tokenStart, caret}
    BY <2>1, Between
  <2> HIDE DEF n, i, j
  <2> QED
    BY <1>1, <1>2, <2>2
<1>4. text' = (SubSeq(text, 1, i) \o m) \o From(text, j + 1)
  BY DEF Accept, Replace, m
<1>5. caret' = Min({k, Len(text')}) /\ shown' = FALSE
  BY DEF Accept, HidePopup, m
<1> HIDE DEF i, j
<1>6. text' \in Text
  BY <1>1, <1>2, <1>3, <1>4, Splice DEF TextOf
<1>7. Len(text') \in Nat /\ k \in Nat
  BY <1>2, <1>6 DEF Text
<1> HIDE DEF k
<1>8. caret' \in 0 .. Len(text')
  <2> DEFINE z == Len(text')
  <2>1. z \in Nat /\ caret' = Min({k, z})
    BY <1>5, <1>7
  <2> HIDE DEF z
  <2>2. caret' = IF k <= z THEN k ELSE z
    BY <1>7, <2>1, Between
  <2>3. caret' \in 0 .. z
    BY <1>7, <2>1, <2>2
  <2> QED
    BY <2>3 DEF z
<1> QED
  BY <1>5, <1>6, <1>8, FieldHidden

LEMMA FieldStep ==
    ASSUME FieldInv, [FieldNext]_fieldVars
    PROVE  FieldInv'
<1>1. ASSUME NEW ch \in Typeable, Type(ch) PROVE FieldInv'
  BY <1>1, FieldTyped
<1>2. CASE Erase
  BY <1>2, FieldErased
<1>3. ASSUME NEW to \in 0 .. Len(text), MoveCaret(to) PROVE FieldInv'
  BY <1>3 DEF MoveCaret, FieldInv, PopupOfText
<1>4. ASSUME NEW delta \in {-1, 1}, MoveSelection(delta) PROVE FieldInv'
  BY <1>4, FieldSelects
<1>5. CASE Accept
  BY <1>5, FieldAccepts
<1>6. CASE Dismiss
  <2>1. text' \in Text /\ caret' \in 0 .. Len(text') /\ shown' = FALSE
    BY <1>6 DEF Dismiss, HidePopup, FieldInv, PopupOfText
  <2> QED
    BY <2>1, FieldHidden
<1>7. ASSUME NEW outcome \in {"confirmed", "cancelled"}, EndModal(outcome) PROVE FieldInv'
  <2>1. text' \in Text /\ caret' \in 0 .. Len(text') /\ shown' = FALSE
    BY <1>7 DEF EndModal, FieldInv, PopupOfText
  <2> QED
    BY <2>1, FieldHidden
<1>8. CASE UNCHANGED fieldVars
  BY <1>8 DEF fieldVars, FieldInv, PopupOfText
<1> QED
  BY <1>1, <1>2, <1>3, <1>4, <1>5, <1>6, <1>7, <1>8 DEF FieldNext

(* While the popup is shown, what it lists, the selection and the place it    *)
(* writes to are those of the word before the caret it was filled at, which   *)
(* is still in the field, and the dialog is open (RefreshPopup, Accept).      *)
THEOREM PopupOfTextAlways == FieldSpec => []PopupOfText
<1>1. FieldInit => FieldInv
  BY FieldBegins
<1>2. FieldInv /\ [FieldNext]_fieldVars => FieldInv'
  BY FieldStep
<1>3. FieldInv => PopupOfText
  BY DEF FieldInv
<1> QED
  BY <1>1, <1>2, <1>3, PTL DEF FieldSpec

\* A suggestion accepted at the end of its word, outside an open quote.
LEMMA AcceptReads ==
    ASSUME FieldInv, Accept, caret = matchedAt,
           YYUNDEF \notin ToSet(Tokens(Formula(SubSeq(text, 1, WordStart(text, caret))))),
           From(text, caret + 1) # << >> => From(text, caret + 1)[1] \notin TokenChars
    PROVE  Tokens(Formula(text')) \in
               {Tokens(Formula(SubSeq(text, 1, WordStart(text, caret)))) \o name
                    \o Tokens(From(text, caret + 1)) : name \in NameTokens(current[sel])}
<1> DEFINE k == WordStart(text, caret)
           b == SubSeq(text, 1, k)
           a == From(text, caret + 1)
           c == current[sel]
<1>1. text \in Text /\ caret \in 0 .. Len(text) /\ shown /\ tokenStart = k
  BY DEF FieldInv, PopupOfText, Accept
<1>2. c \in Suggestions
  BY <1>1, FieldSelected
<1>3. StartsWord(text, caret, k)
  BY <1>1, WordStartIs
<1>4. Follows(a)
  BY <1>1, RestIs DEF Follows
<1>5. text' = (b \o c.insert) \o a
  <2>1. Min({k, caret}) = k /\ Max({k, caret}) = caret
    <3> HIDE DEF k
    <3>1. k \in Int /\ caret \in Int /\ k <= caret
      BY <1>1, <1>3 DEF StartsWord
    <3>2. k <= caret /\ caret <= k => k = caret
      BY <3>1
    <3> QED
      BY <3>1, <3>2, Between
  <2>2. text' = Replace(k, caret, c.insert)
    BY <1>1 DEF Accept
  <2> HIDE DEF k, c
  <2> QED
    BY <2>1, <2>2 DEF Replace
<1>6. WordEnds(b)
  <2> DEFINE n == Len(text)
  <2>0. n \in Nat /\ text \in Text
    BY <1>1 DEF Text
  <2> HIDE DEF k
  <2>1. k \in 0 .. n /\ k \in Nat /\ 1 \in 1 .. n + 1 /\ (k > 0 => text[k] \notin TokenChars)
    BY <1>1, <1>3, <2>0 DEF StartsWord
  <2>2. IsSubSeq(b, text, 1, k)
    BY <2>0, <2>1, SubSeqHas
  <2> HIDE DEF b, n
  <2>3. b \in Text /\ Len(b) = k /\ \A i \in 1 .. k : b[i] = text[i]
    BY <2>1, <2>2 DEF IsSubSeq
  <2>4. b # << >> => k \in 1 .. k /\ k > 0
    BY <2>1, <2>3 DEF Text
  <2> QED
    BY <2>1, <2>3, <2>4 DEF WordEnds
<1> HIDE DEF a, c, k
<1>7. YYUNDEF \notin ToSet(Tokens(Formula(b)))
  BY DEF k
<1> HIDE DEF b
<1>8. Tokens(Formula((b \o c.insert) \o a)) \in
          {Tokens(Formula(b)) \o name \o Tokens(a) : name \in NameTokens(c)}
  BY <1>2, <1>4, <1>6, <1>7, NameAdded
<1> QED
  BY <1>5, <1>8 DEF a, b, c, k

(* Accepting a suggestion at the end of its word makes the scanner read its   *)
(* name there, and everything around the word as before, whatever the labels  *)
(* and functions are called (FormulaName, FormulaTextCtrl::Accept, expr.l).   *)
THEOREM AcceptAddsNameAlways == FieldSpec => AcceptAddsName
<1>1. FieldInit => FieldInv
  BY FieldBegins
<1>2. FieldInv /\ [FieldNext]_fieldVars => FieldInv'
  BY FieldStep
<1>3. FieldInv => (Accept => AddsName)
  BY AcceptReads DEF AddsName, YYUNDEF, NameTokens
<1> QED
  BY <1>1, <1>2, <1>3, PTL DEF FieldSpec, AcceptAddsName
-------------------------------------------------------------------------------
(* A window's session. *)

\* While an export runs nothing is unsaved and nothing can be edited, so that
\* the close waiting for it finds nothing unsaved either.
ExportCovers == doing = "exporting" => Unsaved = {}

SessionInv == TypeOK /\ ClosesWithConsent /\ ExportCovers

LEMMA SetCellType ==
    ASSUME TypeOK, NEW written, SetCell(written)
    PROVE  cells' \in [Rows -> Values]
  BY DEF SetCell, TypeOK

LEMMA StatusType ==
    ASSUME UpdateStatus
    PROVE  star' \in BOOLEAN
<1>1. (\E r \in Rows : cells'[r] # disk[r]) \in BOOLEAN
  OBVIOUS
<1> QED
  BY <1>1 DEF UpdateStatus

LEMMA CommitType ==
    ASSUME TypeOK, SaveEditControlValue
    PROVE  /\ cells' \in [Rows -> Values]
           /\ cursor' \in Rows \cup {NoRow}
           /\ editor' \in Texts \cup {NoEditor}
<1>1. CASE Typed
  <2>1. SetCell(editor) /\ RebuildView /\ editor' = NoEditor
    BY <1>1 DEF SaveEditControlValue
  <2>2. cursor' \in Rows \cup {NoRow}
    BY <2>1 DEF RebuildView, TypeOK
  <2> QED
    BY <2>1, <2>2, SetCellType
<1>2. CASE ~Typed
  BY <1>2 DEF SaveEditControlValue, TypeOK
<1> QED
  BY <1>1, <1>2

LEMMA RecomputedType ==
    ASSUME TypeOK, RecomputeFiltersAfterEdit
    PROVE  star' \in BOOLEAN
  BY StatusType DEF RecomputeFiltersAfterEdit, TypeOK

\* DoSave commits the editor's text and leaves nothing unsaved.
LEMMA DoSaveCovers ==
    ASSUME TypeOK, DoSave
    PROVE  /\ Unsaved' = {}
           /\ cursor \in Rows /\ editor \in Values => disk'[cursor] = editor
<1>1. disk' = cells' /\ SaveEditControlValue
  BY DEF DoSave
<1>2. Unsaved' = {}
  BY <1>1 DEF Unsaved
<1>3. ASSUME cursor \in Rows, editor \in Values
      PROVE  cells'[cursor] = editor
  <2>1. CASE Typed
    BY <1>1, <1>3, <2>1 DEF SaveEditControlValue, SetCell, TypeOK
  <2>2. CASE ~Typed
    BY <1>1, <1>3, <2>2, SessionAssumption DEF SaveEditControlValue, Typed
  <2> QED
    BY <2>1, <2>2
<1> QED
  BY <1>1, <1>2, <1>3

LEMMA DoSaveInv ==
    ASSUME SessionInv, DoSave, doing \in {"idle", "asking"}
    PROVE  SessionInv'
<1>1. /\ cells' \in [Rows -> Values]
      /\ cursor' \in Rows \cup {NoRow}
      /\ editor' \in Texts \cup {NoEditor}
  BY CommitType DEF SessionInv, DoSave
<1>2. star' \in BOOLEAN
  BY RecomputedType DEF SessionInv, DoSave
<1>3. Unsaved' = {}
  BY DoSaveCovers DEF SessionInv
<1>4. TypeOK'
  BY <1>1, <1>2 DEF SessionInv, TypeOK, DoSave
<1> QED
  BY <1>3, <1>4 DEF SessionInv, ClosesWithConsent, ExportCovers, DoSave

LEMMA SessionInit == Init => SessionInv
  BY DEF Init, SessionInv, TypeOK, ClosesWithConsent, ExportCovers, Texts, Unsaved

LEMMA SessionStep == SessionInv /\ [Next]_vars => SessionInv'
<1> SUFFICES ASSUME SessionInv, [Next]_vars
             PROVE  SessionInv'
  OBVIOUS
<1> USE DEF SessionInv
<1>1. ASSUME NEW r \in Rows, OnGridSelectCell(r)
      PROVE  SessionInv'
  BY <1>1 DEF OnGridSelectCell, TypeOK, Texts, ClosesWithConsent, ExportCovers, Unsaved
<1>2. ASSUME NEW written \in Texts, TypeInCell(written) \/ TypeInBar(written)
      PROVE  SessionInv'
  BY <1>2 DEF TypeInCell, TypeInBar, TypeOK, ClosesWithConsent, ExportCovers, Unsaved
<1>3. CASE EndEdit
  <2>1. /\ cells' \in [Rows -> Values]
        /\ cursor' \in Rows \cup {NoRow}
        /\ editor' \in Texts \cup {NoEditor}
    BY <1>3, CommitType DEF EndEdit
  <2>2. star' \in BOOLEAN
    BY <1>3, RecomputedType DEF EndEdit
  <2> QED
    BY <1>3, <2>1, <2>2 DEF EndEdit, TypeOK, ClosesWithConsent, ExportCovers
<1>4. CASE CancelEdit
  BY <1>4 DEF CancelEdit, TypeOK, ClosesWithConsent, ExportCovers, Unsaved
<1>5. CASE OnFormulaEnter
  <2>1. cells' \in [Rows -> Values] /\ star' \in BOOLEAN
    BY <1>5, SetCellType, StatusType DEF OnFormulaEnter
  <2>2. cursor' \in Rows \cup {NoRow}
    BY <1>5 DEF OnFormulaEnter, RebuildView, TypeOK
  <2> QED
    BY <1>5, <2>1, <2>2 DEF OnFormulaEnter, TypeOK, ClosesWithConsent, ExportCovers
<1>6. CASE ChangeView
  <2>1. star' \in BOOLEAN
    BY <1>6, StatusType DEF ChangeView
  <2> QED
    BY <1>6, <2>1 DEF ChangeView, TypeOK, ClosesWithConsent, ExportCovers
<1>7. CASE OnTimer
  <2>1. star' \in BOOLEAN
    BY <1>7, StatusType DEF OnTimer
  <2> QED
    BY <1>7, <2>1 DEF OnTimer, TypeOK, ClosesWithConsent, ExportCovers, Unsaved
<1>8. CASE OnSave
  BY <1>8, DoSaveInv DEF OnSave
<1>9. CASE SaveFails
  <2>1. /\ cells' \in [Rows -> Values]
        /\ cursor' \in Rows \cup {NoRow}
        /\ editor' \in Texts \cup {NoEditor}
    BY <1>9, CommitType DEF SaveFails
  <2>2. star' \in BOOLEAN
    BY <1>9, StatusType DEF SaveFails
  <2> QED
    BY <1>9, <2>1, <2>2 DEF SaveFails, TypeOK, ClosesWithConsent, ExportCovers
<1>10. CASE FinishSave
  <2>1. star' \in BOOLEAN
    BY <1>10, StatusType DEF FinishSave
  <2> QED
    BY <1>10, <2>1 DEF FinishSave, TypeOK, ClosesWithConsent, ExportCovers, Unsaved
<1>11. ASSUME NEW canVeto \in BOOLEAN, CloseUnasked(canVeto)
       PROVE  SessionInv'
  BY <1>11 DEF CloseUnasked, TypeOK, ClosesWithConsent, ExportCovers, Unsaved
<1>12. CASE AskBeforeClosing
  BY <1>12 DEF AskBeforeClosing, TypeOK, ClosesWithConsent, ExportCovers
<1>13. CASE AnswerYes
  <2>1. CASE DoSave
    BY <1>13, <2>1, DoSaveInv DEF AnswerYes
  <2>2. CASE ~DoSave
    BY <1>13, <2>2 DEF AnswerYes, TypeOK, ClosesWithConsent, ExportCovers, Unsaved
  <2> QED
    BY <2>1, <2>2
<1>14. CASE AnswerNo
  BY <1>14 DEF AnswerNo, TypeOK, ClosesWithConsent, ExportCovers
<1>15. CASE AnswerCancel
  BY <1>15 DEF AnswerCancel, TypeOK, ClosesWithConsent, ExportCovers
<1>16. CASE UNCHANGED vars
  BY <1>16 DEF vars, TypeOK, ClosesWithConsent, ExportCovers, Unsaved
<1> QED
  BY <1>1, <1>2, <1>3, <1>4, <1>5, <1>6, <1>7, <1>8, <1>9, <1>10, <1>11, <1>12, <1>13,
     <1>14, <1>15, <1>16 DEF Next

LEMMA SessionInvAlways == Spec => []SessionInv
  BY SessionInit, SessionStep, PTL DEF Spec
-------------------------------------------------------------------------------
(* Type correctness; a close waits only for a save that runs.                 *)
THEOREM SessionTypeOK == Spec => []TypeOK
<1>1. SessionInv => TypeOK
  BY DEF SessionInv
<1> QED
  BY <1>1, SessionInvAlways, PTL

(* No window goes away with edits its user was not asked about (OnClose).     *)
THEOREM NoUnaskedLoss == Spec => []ClosesWithConsent
<1>1. SessionInv => ClosesWithConsent
  BY DEF SessionInv
<1> QED
  BY <1>1, SessionInvAlways, PTL

(* A save that gets past its early return covers every override and the open  *)
(* editor, under any filter (DoSave).                                         *)
THEOREM SavesCover == Spec => SaveCoversSession
<1>1. SessionInv /\ [Next]_vars =>
          [doing' = "exporting" /\ doing # "exporting" =>
              /\ Unsaved' = {}
              /\ cursor \in Rows /\ editor \in Values => disk'[cursor] = editor]_vars
  <2> SUFFICES ASSUME SessionInv, Next, doing' = "exporting", doing # "exporting"
               PROVE  /\ Unsaved' = {}
                      /\ cursor \in Rows /\ editor \in Values => disk'[cursor] = editor
    OBVIOUS
  <2>1. DoSave
    BY DEF Next, OnGridSelectCell, TypeInCell, TypeInBar, EndEdit, CancelEdit, OnFormulaEnter,
           ChangeView, OnTimer, OnSave, SaveFails, FinishSave, CloseUnasked, AskBeforeClosing,
           AnswerYes, AnswerNo, AnswerCancel
  <2> QED
    BY <2>1, DoSaveCovers DEF SessionInv
<1> QED
  BY <1>1, SessionInvAlways, PTL DEF Spec, SaveCoversSession
===============================================================================
