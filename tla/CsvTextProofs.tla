----------------------------- MODULE CsvTextProofs -----------------------------
(***************************************************************************)
(* The text of a CSV for every text, every table and every edit: what the  *)
(* save's scanner finds is what the importer's reader found, an import     *)
(* loses no field, and a save, read again, is the dataset.  The reader, the *)
(* scanner and the automaton of RFC 4180 are compared character by         *)
(* character; then a record is read the same way wherever it stands, so    *)
(* that a file may be taken apart into records and put together again.     *)
(***************************************************************************)
EXTENDS CsvText, SequenceTheorems, WellFoundedInduction, TLAPS

\* A nonempty set of naturals has a least element.
LEMMA LeastNatural ==
    ASSUME NEW S \in SUBSET Nat, S # {}
    PROVE  \E m \in S : \A n \in S : m <= n
<1> DEFINE R == OpToRel(<, Nat)
<1>1. \A m, n \in Nat : <<m, n>> \in R <=> m < n
  BY DEF OpToRel
<1>2. IsWellFoundedOn(R, Nat)
  BY NatLessThanWellFounded
<1> HIDE DEF R
<1>3. PICK m \in S : \A n \in S : ~ (<<n, m>> \in R)
  BY <1>2, WFMin
<1>4. \A n \in S : m <= n
  <2> SUFFICES ASSUME NEW n \in S PROVE m <= n
    OBVIOUS
  <2>1. m \in Nat /\ n \in Nat /\ ~ (<<n, m>> \in R)
    BY <1>3
  <2>2. ~ (n < m)
    BY <1>1, <2>1
  <2> QED
    BY <2>1, <2>2
<1> QED
  BY <1>4

\* A set that holds 0 and, up to n, the successors of its elements holds every
\* number up to n.
LEMMA UpToInduction ==
    ASSUME NEW n \in Nat, NEW S, 0 \in S, \A i \in 1 .. n : i - 1 \in S => i \in S
    PROVE  0 .. n \subseteq S
<1> SUFFICES ASSUME NEW k \in 0 .. n, k \notin S PROVE FALSE
  OBVIOUS
<1> DEFINE T == (0 .. n) \ S
<1>1. PICK m \in T : \A i \in T : m <= i
  <2>1. T \in SUBSET Nat /\ T # {}
    OBVIOUS
  <2> HIDE DEF T
  <2> QED
    BY <2>1, LeastNatural
<1>2. m \in 1 .. n /\ m - 1 \in 0 .. n /\ m - 1 \notin T
  BY <1>1
<1> QED
  BY <1>1, <1>2

\* A loop of n turns.
Unfolds(f, n, base, step) ==
    f = [i \in 0 .. n |-> IF i = 0 THEN base ELSE step[i][f[i - 1]]]

LEMMA LoopExists ==
    ASSUME NEW n \in Nat, NEW S, NEW base \in S, NEW step \in [1 .. n -> [S -> S]]
    PROVE  \E f \in [0 .. n -> S] : Unfolds(f, n, base, step)
<1> DEFINE T == {k \in 0 .. n : \E f \in [0 .. k -> S] : Unfolds(f, k, base, step)}
<1>1. 0 \in T
  <2> DEFINE h == [i \in 0 .. 0 |-> base]
  <2>1. h \in [0 .. 0 -> S] /\ Unfolds(h, 0, base, step)
    BY DEF Unfolds
  <2> QED
    BY <2>1
<1>2. ASSUME NEW k \in 1 .. n, k - 1 \in T
      PROVE  k \in T
  <2>1. PICK f \in [0 .. k - 1 -> S] : Unfolds(f, k - 1, base, step)
    BY <1>2
  <2> DEFINE h == [i \in 0 .. k |-> IF i = k THEN step[k][f[k - 1]] ELSE f[i]]
  <2>2. h \in [0 .. k -> S]
    <3>1. f[k - 1] \in S /\ step[k] \in [S -> S]
      OBVIOUS
    <3> QED
      BY <3>1
  <2>3. ASSUME NEW i \in 0 .. k
        PROVE  h[i] = IF i = 0 THEN base ELSE step[i][h[i - 1]]
    <3>1. CASE i = k
      BY <3>1
    <3>2. CASE i # k
      <4>1. i \in 0 .. k - 1 /\ h[i] = f[i]
        BY <3>2
      <4>2. f[i] = IF i = 0 THEN base ELSE step[i][f[i - 1]]
        BY <2>1, <4>1 DEF Unfolds
      <4>3. i # 0 => h[i - 1] = f[i - 1]
        BY <3>2
      <4> QED
        BY <4>1, <4>2, <4>3
    <3> QED
      BY <3>1, <3>2
  <2> HIDE DEF h
  <2>4. Unfolds(h, k, base, step)
    BY <2>2, <2>3 DEF Unfolds
  <2> QED
    BY <2>2, <2>4
<1> HIDE DEF T
<1>3. 0 .. n \subseteq T
  BY <1>1, <1>2, UpToInduction
<1> QED
  BY <1>3 DEF T

\* Its values, turn by turn, whichever function is chosen.
LEMMA LoopStep ==
    ASSUME NEW n \in Nat, NEW base, NEW step, NEW f, Unfolds(f, n, base, step)
    PROVE  f[0] = base /\ \A i \in 1 .. n : f[i] = step[i][f[i - 1]]
<1>1. \A i \in 0 .. n : f[i] = IF i = 0 THEN base ELSE step[i][f[i - 1]]
  BY DEF Unfolds
<1> QED
  BY <1>1
-------------------------------------------------------------------------------
(* The three automata, one character at a time. *)

\* What files, cells and labels are made of.
Character == Chars \cup {Comma, "0", "C"}
Text == Seq(Character)

Reader == [records : Seq(Seq(Text)), starts : Seq(Nat), from : Nat, row : Seq(Text), field : Text,
           started : BOOLEAN, quoted : BOOLEAN, skip : BOOLEAN]

Scanner == [inQuotes : BOOLEAN, starts : Seq(Nat)]

States == {"start", "plain", "quoted", "closed", "cr", "bad"}

LEMMA FinishRowType ==
    ASSUME NEW s \in Reader, NEW next \in Nat
    PROVE  PushField(s) \in Reader /\ FinishRow(s, next) \in Reader
<1>1. PushField(s) \in Reader
  <2>1. << >> \in Text
    BY DEF Text
  <2>2. Append(s.row, s.field) \in Seq(Text)
    BY DEF Reader
  <2> QED
    BY <2>1, <2>2 DEF PushField, Reader
<1>2. ASSUME NEW t \in Reader PROVE PushRow(t, next) \in Reader
  <2>1. Append(t.records, t.row) \in Seq(Seq(Text)) /\ Append(t.starts, t.from) \in Seq(Nat)
    BY DEF Reader
  <2>2. << >> \in Seq(Text)
    OBVIOUS
  <2> QED
    BY <2>1, <2>2 DEF PushRow, Reader
<1> QED
  BY <1>1, <1>2 DEF FinishRow

LEMMA ReadCharType ==
    ASSUME NEW text \in Text, NEW s \in Reader, NEW i \in 1 .. Len(text)
    PROVE  ReadChar(text, s, i) \in Reader
<1> DEFINE c == text[i]
<1>1. c \in Character /\ i \in Nat /\ i + 1 \in Nat
  BY DEF Text
<1> HIDE DEF c
<1>2. AddChar(s, c) \in Reader
  <2>1. Append(s.field, c) \in Text
    BY <1>1 DEF Reader, Text
  <2> QED
    BY <2>1 DEF AddChar, Reader
<1>3. \A t \in Reader, b \in BOOLEAN :
          [t EXCEPT !.skip = b] \in Reader /\ [t EXCEPT !.quoted = b] \in Reader
  BY DEF Reader
<1>4. [s EXCEPT !.quoted = TRUE, !.started = TRUE] \in Reader
  BY DEF Reader
<1>5. PushField(s) \in Reader /\ FinishRow(s, i) \in Reader /\ FinishRow(s, i + 1) \in Reader
  BY <1>1, FinishRowType
<1> QED
  BY <1>2, <1>3, <1>4, <1>5 DEF ReadChar, c

LEMMA ReadTurns ==
    ASSUME NEW text \in Text
    PROVE  /\ ReadUpTo(text, 0) = Fresh
           /\ \A i \in 1 .. Len(text) :
                 ReadUpTo(text, i) = ReadChar(text, ReadUpTo(text, i - 1), i)
           /\ \A i \in 0 .. Len(text) : ReadUpTo(text, i) \in Reader
<1> DEFINE n == Len(text)
           first == Fresh
           step == [i \in 1 .. n |-> [s \in Reader |-> ReadChar(text, s, i)]]
           run == CHOOSE f : f = [i \in 0 .. n |-> IF i = 0 THEN Fresh ELSE ReadChar(text, f[i - 1], i)]
<1>1. n \in Nat /\ first \in Reader
  BY DEF Text, Reader, Fresh
<1>2. step \in [1 .. n -> [Reader -> Reader]]
  BY ReadCharType
<1> HIDE DEF first
<1>3. PICK f \in [0 .. n -> Reader] : Unfolds(f, n, first, step)
  <2> HIDE DEF n, step
  <2> QED
    BY <1>1, <1>2, LoopExists
<1>4. f = [i \in 0 .. n |-> IF i = 0 THEN first ELSE ReadChar(text, f[i - 1], i)]
  <2>1. ASSUME NEW i \in 0 .. n, i # 0
        PROVE  step[i][f[i - 1]] = ReadChar(text, f[i - 1], i)
    <3>1. i \in 1 .. n /\ i - 1 \in 0 .. n
      BY <1>1, <2>1
    <3>2. f[i - 1] \in Reader
      BY <1>3, <3>1
    <3> QED
      BY <3>1, <3>2
  <2> HIDE DEF step, n
  <2> QED
    BY <1>3, <2>1 DEF Unfolds
<1>5. run = [i \in 0 .. n |-> IF i = 0 THEN first ELSE ReadChar(text, run[i - 1], i)]
  BY <1>4 DEF first
<1>6. \A i : ReadUpTo(text, i) = run[i]
  BY DEF ReadUpTo
<1> HIDE DEF run
<1>7. run[0] = first /\ \A i \in 1 .. n : run[i] = ReadChar(text, run[i - 1], i)
  <2>1. \A i \in 0 .. n : run[i] = IF i = 0 THEN first ELSE ReadChar(text, run[i - 1], i)
    BY <1>5
  <2> HIDE DEF n
  <2> QED
    BY <1>1, <2>1
<1>8. \A i \in 0 .. n : run[i] \in Reader
  <2> DEFINE T == {i \in 0 .. n : run[i] \in Reader}
  <2>1. 0 \in T
    BY <1>1, <1>7
  <2>2. \A i \in 1 .. n : i - 1 \in T => i \in T
    BY <1>1, <1>7, ReadCharType
  <2> HIDE DEF T, n
  <2>3. 0 .. n \subseteq T
    BY <1>1, <2>1, <2>2, UpToInduction
  <2> QED
    BY <2>3 DEF T
<1> QED
  BY <1>6, <1>7, <1>8 DEF first

ScanBegin(text) == [inQuotes |-> FALSE, starts |-> IF text = << >> THEN << >> ELSE <<0>>]

LEMMA ScanCharType ==
    ASSUME NEW text \in Text, NEW s \in Scanner, NEW i \in 1 .. Len(text)
    PROVE  ScanChar(text, s, i) \in Scanner
<1>1. Append(s.starts, i) \in Seq(Nat)
  BY DEF Scanner
<1>2. [s EXCEPT !.inQuotes = ~@] \in Scanner /\ [s EXCEPT !.starts = Append(@, i)] \in Scanner
  BY <1>1 DEF Scanner
<1> QED
  BY <1>2 DEF ScanChar

LEMMA ScanTurns ==
    ASSUME NEW text \in Text
    PROVE  /\ ScanUpTo(text, 0) = ScanBegin(text)
           /\ \A i \in 1 .. Len(text) :
                 ScanUpTo(text, i) = ScanChar(text, ScanUpTo(text, i - 1), i)
           /\ \A i \in 0 .. Len(text) : ScanUpTo(text, i) \in Scanner
<1> DEFINE n == Len(text)
           first == ScanBegin(text)
           step == [i \in 1 .. n |-> [s \in Scanner |-> ScanChar(text, s, i)]]
           run == CHOOSE f : f = [i \in 0 .. n |-> IF i = 0 THEN ScanBegin(text) ELSE ScanChar(text, f[i - 1], i)]
<1>1. n \in Nat /\ first \in Scanner
  BY DEF Text, Scanner, ScanBegin
<1>2. step \in [1 .. n -> [Scanner -> Scanner]]
  BY ScanCharType
<1> HIDE DEF first
<1>3. PICK f \in [0 .. n -> Scanner] : Unfolds(f, n, first, step)
  <2> HIDE DEF n, step
  <2> QED
    BY <1>1, <1>2, LoopExists
<1>4. f = [i \in 0 .. n |-> IF i = 0 THEN first ELSE ScanChar(text, f[i - 1], i)]
  <2>1. ASSUME NEW i \in 0 .. n, i # 0
        PROVE  step[i][f[i - 1]] = ScanChar(text, f[i - 1], i)
    <3>1. i \in 1 .. n /\ i - 1 \in 0 .. n
      BY <1>1, <2>1
    <3>2. f[i - 1] \in Scanner
      BY <1>3, <3>1
    <3> QED
      BY <3>1, <3>2
  <2> HIDE DEF step, n
  <2> QED
    BY <1>3, <2>1 DEF Unfolds
<1>5. run = [i \in 0 .. n |-> IF i = 0 THEN first ELSE ScanChar(text, run[i - 1], i)]
  BY <1>4 DEF first
<1>6. \A i : ScanUpTo(text, i) = run[i]
  BY DEF ScanUpTo, ScanBegin
<1> HIDE DEF run
<1>7. run[0] = first /\ \A i \in 1 .. n : run[i] = ScanChar(text, run[i - 1], i)
  <2>1. \A i \in 0 .. n : run[i] = IF i = 0 THEN first ELSE ScanChar(text, run[i - 1], i)
    BY <1>5
  <2> HIDE DEF n
  <2> QED
    BY <1>1, <2>1
<1>8. \A i \in 0 .. n : run[i] \in Scanner
  <2> DEFINE T == {i \in 0 .. n : run[i] \in Scanner}
  <2>1. 0 \in T
    BY <1>1, <1>7
  <2>2. \A i \in 1 .. n : i - 1 \in T => i \in T
    BY <1>1, <1>7, ScanCharType
  <2> HIDE DEF T, n
  <2>3. 0 .. n \subseteq T
    BY <1>1, <2>1, <2>2, UpToInduction
  <2> QED
    BY <2>3 DEF T
<1> QED
  BY <1>6, <1>7, <1>8 DEF first

\* One character of RFC 4180, as a table.
LEMMA FieldCharIs ==
    ASSUME NEW c
    PROVE  /\ FieldChar("quoted", c) = IF c = Quote THEN "closed" ELSE "quoted"
           /\ FieldChar("bad", c) = "bad"
           /\ FieldChar("cr", c) = IF c = LF THEN "start" ELSE "bad"
           /\ \A w \in {"start", "plain", "closed"} :
                 FieldChar(w, c) = IF c \in {Delimiter, LF} THEN "start"
                                   ELSE IF c = CR THEN "cr"
                                   ELSE IF c = Quote THEN IF w = "plain" THEN "bad" ELSE "quoted"
                                   ELSE IF w = "closed" THEN "bad" ELSE "plain"
<1>1. ASSUME NEW w \in {"start", "plain", "closed"}
      PROVE  FieldChar(w, c) = IF c \in {Delimiter, LF} THEN "start"
                               ELSE IF c = CR THEN "cr"
                               ELSE IF c = Quote THEN IF w = "plain" THEN "bad" ELSE "quoted"
                               ELSE IF w = "closed" THEN "bad" ELSE "plain"
  BY CsvTextAssumption DEF FieldChar, Quote, CR, LF
<1>2. FieldChar("quoted", c) = IF c = Quote THEN "closed" ELSE "quoted"
  BY DEF FieldChar
<1>3. FieldChar("cr", c) = IF c = LF THEN "start" ELSE "bad"
  BY DEF FieldChar
<1>4. FieldChar("bad", c) = "bad"
  BY DEF FieldChar
<1> QED
  BY <1>1, <1>2, <1>3, <1>4

LEMMA FieldCharType ==
    ASSUME NEW w \in States, NEW c
    PROVE  FieldChar(w, c) \in States
  BY FieldCharIs DEF States

LEMMA StateTurns ==
    ASSUME NEW text \in Text
    PROVE  /\ StateAfter(text, 0) = "start"
           /\ \A i \in 1 .. Len(text) :
                 StateAfter(text, i) = FieldChar(StateAfter(text, i - 1), text[i])
           /\ \A i \in 0 .. Len(text) : StateAfter(text, i) \in States
<1> DEFINE n == Len(text)
           first == "start"
           step == [i \in 1 .. n |-> [s \in States |-> FieldChar(s, text[i])]]
           run == CHOOSE f : f = [i \in 0 .. n |-> IF i = 0 THEN "start" ELSE FieldChar(f[i - 1], text[i])]
<1>1. n \in Nat /\ first \in States
  BY DEF Text, States
<1>2. step \in [1 .. n -> [States -> States]]
  BY FieldCharType
<1> HIDE DEF first
<1>3. PICK f \in [0 .. n -> States] : Unfolds(f, n, first, step)
  <2> HIDE DEF n, step
  <2> QED
    BY <1>1, <1>2, LoopExists
<1>4. f = [i \in 0 .. n |-> IF i = 0 THEN first ELSE FieldChar(f[i - 1], text[i])]
  <2>1. ASSUME NEW i \in 0 .. n, i # 0
        PROVE  step[i][f[i - 1]] = FieldChar(f[i - 1], text[i])
    <3>1. i \in 1 .. n /\ i - 1 \in 0 .. n
      BY <1>1, <2>1
    <3>2. f[i - 1] \in States
      BY <1>3, <3>1
    <3> QED
      BY <3>1, <3>2
  <2> HIDE DEF step, n
  <2> QED
    BY <1>3, <2>1 DEF Unfolds
<1>5. run = [i \in 0 .. n |-> IF i = 0 THEN first ELSE FieldChar(run[i - 1], text[i])]
  BY <1>4 DEF first
<1>6. \A i : StateAfter(text, i) = run[i]
  BY DEF StateAfter
<1> HIDE DEF run
<1>7. run[0] = first /\ \A i \in 1 .. n : run[i] = FieldChar(run[i - 1], text[i])
  <2>1. \A i \in 0 .. n : run[i] = IF i = 0 THEN first ELSE FieldChar(run[i - 1], text[i])
    BY <1>5
  <2> HIDE DEF n
  <2> QED
    BY <1>1, <2>1
<1>8. \A i \in 0 .. n : run[i] \in States
  <2> DEFINE T == {i \in 0 .. n : run[i] \in States}
  <2>1. 0 \in T
    BY <1>1, <1>7
  <2>2. \A i \in 1 .. n : i - 1 \in T => i \in T
    BY <1>1, <1>7, FieldCharType
  <2> HIDE DEF T, n
  <2>3. 0 .. n \subseteq T
    BY <1>1, <2>1, <2>2, UpToInduction
  <2> QED
    BY <2>3 DEF T
<1> QED
  BY <1>6, <1>7, <1>8 DEF first

-------------------------------------------------------------------------------
(* Reader and scanner walk through a well-formed text together. *)

\* Nothing wrong is undone by what follows, and a CR stands before a LF.
LEMMA WellFormedAll ==
    ASSUME NEW text \in Text, WellFormed(text)
    PROVE  /\ \A i \in 0 .. Len(text) : StateAfter(text, i) # "bad"
           /\ \A i \in 0 .. Len(text) : StateAfter(text, i) = "cr" =>
                 i < Len(text) /\ text[i + 1] = LF
<1> DEFINE n == Len(text)
<1>1. n \in Nat /\ StateAfter(text, n) \in {"start", "plain", "closed"}
  BY DEF Text, WellFormed
<1>2. ASSUME NEW j \in 0 .. n, StateAfter(text, j) = "bad"
      PROVE  FALSE
  <2> DEFINE T == {i \in 0 .. n : j <= i => StateAfter(text, i) = "bad"}
  <2>1. 0 \in T
    BY <1>1, <1>2
  <2>2. ASSUME NEW i \in 1 .. n, i - 1 \in T
        PROVE  i \in T
    <3>1. CASE j <= i - 1
      <4>1. StateAfter(text, i - 1) = "bad"
        BY <2>2, <3>1
      <4>2. StateAfter(text, i) = FieldChar("bad", text[i])
        BY <4>1, StateTurns
      <4> QED
        BY <1>1, <4>2, FieldCharIs
    <3>2. CASE ~ (j <= i - 1)
      <4>1. j <= i => j = i
        BY <1>1, <3>2
      <4> QED
        BY <1>1, <1>2, <4>1
    <3> QED
      BY <3>1, <3>2
  <2> HIDE DEF T, n
  <2>3. 0 .. n \subseteq T
    BY <1>1, <2>1, <2>2, UpToInduction
  <2>4. n \in 0 .. n /\ j <= n
    BY <1>1
  <2>5. StateAfter(text, n) = "bad"
    BY <2>3, <2>4 DEF T
  <2> QED
    BY <1>1, <2>5
<1>3. ASSUME NEW i \in 0 .. n, StateAfter(text, i) = "cr"
      PROVE  i < n /\ text[i + 1] = LF
  <2>1. i # n
    BY <1>1, <1>3
  <2>2. i + 1 \in 1 .. n /\ i + 1 \in 0 .. n /\ (i + 1) - 1 = i
    BY <1>1, <2>1
  <2>3. StateAfter(text, i + 1) = FieldChar("cr", text[i + 1])
    BY <1>3, <2>2, StateTurns
  <2> QED
    BY <1>1, <1>2, <2>1, <2>2, <2>3, FieldCharIs
<1> QED
  BY <1>2, <1>3

\* After i characters, in state w of the grammar: the reader s is inside quotes
\* when the grammar is, one character late at a pair of quotes; the scanner k has
\* the starts the reader has pushed and the one it is at, unless that is the end
\* of the file or the LF of a CR LF is still to come.
Match(text, i, s, k, w) ==
    /\ k.inQuotes <=> w = "quoted"
    /\ s.quoted <=> w = "quoted" \/ (w = "closed" /\ s.skip)
    /\ s.skip => w \in {"closed", "cr"}
    /\ w = "cr" => s.skip /\ s.from = i + 1 /\ s.row = << >> /\ s.field = << >> /\ i < Len(text)
    /\ w = "closed" => i > 0 /\ text[i] = Quote
    /\ w = "closed" => (s.skip <=> i < Len(text) /\ text[i + 1] = Quote)
    /\ w \in {"plain", "quoted", "closed"} => s.from < i
    /\ w = "start" => /\ s.field = << >>
                      /\ \/ s.from = i /\ s.row = << >> /\ (i = 0 \/ text[i] = LF)
                         \/ s.from < i /\ s.row # << >>
    /\ w = "plain" => s.field # << >>
    /\ k.starts = IF w = "cr" \/ s.from >= Len(text) THEN s.starts ELSE Append(s.starts, s.from)

\* What the reader pushes.
LEMMA Pushes ==
    ASSUME NEW s \in Reader, NEW next
    PROVE  /\ PushField(s).row # << >> /\ PushField(s).field = << >>
           /\ PushField(s).starts = s.starts /\ PushField(s).from = s.from
           /\ PushField(s).quoted = s.quoted /\ PushField(s).skip = s.skip
           /\ FinishRow(s, next).row = << >>
           /\ FinishRow(s, next).field = << >>
           /\ FinishRow(s, next).starts = Append(s.starts, s.from)
           /\ FinishRow(s, next).from = next
           /\ FinishRow(s, next).quoted = s.quoted /\ FinishRow(s, next).skip = s.skip
<1>1. /\ PushField(s).row # << >> /\ PushField(s).field = << >>
      /\ PushField(s).starts = s.starts /\ PushField(s).from = s.from
      /\ PushField(s).quoted = s.quoted /\ PushField(s).skip = s.skip
  <2>1. Append(s.row, s.field) # << >>
    <3>1. s.row \in Seq(Text) /\ s.field \in Text
      BY DEF Reader
    <3> QED
      BY <3>1, AppendProperties
  <2> QED
    BY <2>1 DEF PushField, Reader
<1>2. PushField(s) \in Reader
  <2>1. 0 \in Nat
    OBVIOUS
  <2> QED
    BY <2>1, FinishRowType
<1>3. \A t \in Reader :
          /\ PushRow(t, next).row = << >> /\ PushRow(t, next).field = t.field
          /\ PushRow(t, next).starts = Append(t.starts, t.from) /\ PushRow(t, next).from = next
          /\ PushRow(t, next).quoted = t.quoted /\ PushRow(t, next).skip = t.skip
  BY DEF PushRow, Reader
<1> QED
  BY <1>1, <1>2, <1>3 DEF FinishRow

\* What reading one character comes to.
Reads(text, s, i, r) ==
    LET c    == text[i]
        next == IF i < Len(text) THEN text[i + 1] ELSE EndOfText
    IN  /\ s.skip => r = [s EXCEPT !.skip = FALSE]
        /\ ~s.skip /\ s.quoted /\ c = Quote /\ next = Quote =>
              r = [AddChar(s, c) EXCEPT !.skip = TRUE]
        /\ ~s.skip /\ s.quoted /\ c = Quote /\ next \in {Delimiter, CR, LF, EndOfText} =>
              r = [s EXCEPT !.quoted = FALSE]
        /\ ~s.skip /\ s.quoted /\ c # Quote => r = AddChar(s, c)
        /\ ~s.skip /\ ~s.quoted /\ c = Delimiter => r = PushField(s)
        /\ ~s.skip /\ ~s.quoted /\ c = LF => r = FinishRow(s, i)
        /\ ~s.skip /\ ~s.quoted /\ c = CR /\ next = LF =>
              r = [FinishRow(s, i + 1) EXCEPT !.skip = TRUE]
        /\ ~s.skip /\ ~s.quoted /\ c = Quote /\ s.field = << >> =>
              r = [s EXCEPT !.quoted = TRUE, !.started = TRUE]
        /\ ~s.skip /\ ~s.quoted /\ c \notin {Delimiter, Quote, CR, LF} => r = AddChar(s, c)

LEMMA ReadCharIs ==
    ASSUME NEW text, NEW s \in Reader, NEW i \in Nat
    PROVE  Reads(text, s, i, ReadChar(text, s, i))
  BY CsvTextAssumption DEF Reads, ReadChar, Quote, CR, LF, EndOfText

\* What scanning one character comes to.
LEMMA ScanCharIs ==
    ASSUME NEW text, NEW k \in Scanner, NEW i \in Nat
    PROVE  /\ ScanChar(text, k, i).inQuotes = IF text[i] = Quote THEN ~k.inQuotes ELSE k.inQuotes
           /\ ScanChar(text, k, i).starts =
                 IF text[i] = LF /\ ~k.inQuotes /\ i < Len(text) THEN Append(k.starts, i) ELSE k.starts
  BY DEF ScanChar, Scanner, Quote, LF

LEMMA MatchStep ==
    ASSUME NEW text \in Text, NEW i \in 1 .. Len(text), NEW s \in Reader, NEW k \in Scanner,
           NEW w \in States, Match(text, i - 1, s, k, w),
           NEW v \in States, v = FieldChar(w, text[i]),
           w # "bad", v # "bad",
           v = "cr" => i < Len(text) /\ text[i + 1] = LF,
           i < Len(text) => FieldChar(v, text[i + 1]) # "bad"
    PROVE  Match(text, i, ReadChar(text, s, i), ScanChar(text, k, i), v)
<1> DEFINE c == text[i]
           d == text[i + 1]
           r == ReadChar(text, s, i)
           l == ScanChar(text, k, i)
           next == IF i < Len(text) THEN d ELSE EndOfText
<1>1. Len(text) \in Nat /\ i \in Nat /\ i - 1 \in Nat /\ i <= Len(text)
  BY DEF Text
<1>2. /\ l.inQuotes = IF c = Quote THEN ~k.inQuotes ELSE k.inQuotes
      /\ l.starts = IF c = LF /\ ~k.inQuotes /\ i < Len(text) THEN Append(k.starts, i) ELSE k.starts
  BY <1>1, ScanCharIs
<1>3. /\ s.skip => r = [s EXCEPT !.skip = FALSE]
      /\ ~s.skip /\ s.quoted /\ c = Quote /\ next = Quote =>
            r = [AddChar(s, c) EXCEPT !.skip = TRUE]
      /\ ~s.skip /\ s.quoted /\ c = Quote /\ next \in {Delimiter, CR, LF, EndOfText} =>
            r = [s EXCEPT !.quoted = FALSE]
      /\ ~s.skip /\ s.quoted /\ c # Quote => r = AddChar(s, c)
      /\ ~s.skip /\ ~s.quoted /\ c = Delimiter => r = PushField(s)
      /\ ~s.skip /\ ~s.quoted /\ c = LF => r = FinishRow(s, i)
      /\ ~s.skip /\ ~s.quoted /\ c = CR /\ next = LF => r = [FinishRow(s, i + 1) EXCEPT !.skip = TRUE]
      /\ ~s.skip /\ ~s.quoted /\ c = Quote /\ s.field = << >> =>
            r = [s EXCEPT !.quoted = TRUE, !.started = TRUE]
      /\ ~s.skip /\ ~s.quoted /\ c \notin {Delimiter, Quote, CR, LF} => r = AddChar(s, c)
  <2>1. Reads(text, s, i, r)
    BY <1>1, ReadCharIs
  <2> HIDE DEF r
  <2> QED
    BY <2>1 DEF Reads
<1>4. /\ k.inQuotes \in BOOLEAN /\ s.quoted \in BOOLEAN /\ s.skip \in BOOLEAN /\ s.from \in Nat
      /\ l.inQuotes \in BOOLEAN
  <2>1. k.inQuotes \in BOOLEAN /\ s.quoted \in BOOLEAN /\ s.skip \in BOOLEAN /\ s.from \in Nat
    BY DEF Reader, Scanner
  <2> QED
    BY <1>2, <2>1
<1>5. Delimiter # Quote /\ Delimiter # CR /\ Delimiter # LF /\ Quote # CR /\ Quote # LF /\ CR # LF
  BY CsvTextAssumption DEF Quote, CR, LF
<1>6. /\ AddChar(s, c).field # << >> /\ AddChar(s, c).row = s.row
      /\ AddChar(s, c).starts = s.starts /\ AddChar(s, c).from = s.from
      /\ AddChar(s, c).quoted = s.quoted /\ AddChar(s, c).skip = s.skip
      /\ [AddChar(s, c) EXCEPT !.skip = TRUE].skip = TRUE
      /\ [AddChar(s, c) EXCEPT !.skip = TRUE].quoted = s.quoted
      /\ [AddChar(s, c) EXCEPT !.skip = TRUE].starts = s.starts
      /\ [AddChar(s, c) EXCEPT !.skip = TRUE].from = s.from
  <2>1. s.field \in Text /\ c \in Character
    BY <1>1 DEF Reader, Text
  <2>2. Append(s.field, c) # << >>
    BY <2>1, AppendProperties DEF Text
  <2> HIDE DEF c
  <2> QED
    BY <2>2 DEF AddChar, Reader
<1>7. /\ PushField(s).row # << >> /\ PushField(s).field = << >>
      /\ PushField(s).starts = s.starts /\ PushField(s).from = s.from
      /\ PushField(s).quoted = s.quoted /\ PushField(s).skip = s.skip
  BY Pushes
<1>8. \A p \in Nat :
          LET f == FinishRow(s, p)
              g == [f EXCEPT !.skip = TRUE]
          IN  /\ f.row = << >> /\ f.field = << >> /\ f.starts = Append(s.starts, s.from)
              /\ f.from = p /\ f.quoted = s.quoted /\ f.skip = s.skip
              /\ g.row = << >> /\ g.field = << >> /\ g.starts = Append(s.starts, s.from)
              /\ g.from = p /\ g.quoted = s.quoted /\ g.skip = TRUE
  <2> SUFFICES ASSUME NEW p \in Nat
               PROVE  LET f == FinishRow(s, p)
                          g == [f EXCEPT !.skip = TRUE]
                      IN  /\ f.row = << >> /\ f.field = << >> /\ f.starts = Append(s.starts, s.from)
                          /\ f.from = p /\ f.quoted = s.quoted /\ f.skip = s.skip
                          /\ g.row = << >> /\ g.field = << >> /\ g.starts = Append(s.starts, s.from)
                          /\ g.from = p /\ g.quoted = s.quoted /\ g.skip = TRUE
    OBVIOUS
  <2> DEFINE f == FinishRow(s, p)
  <2>1. /\ f.row = << >> /\ f.field = << >> /\ f.starts = Append(s.starts, s.from)
        /\ f.from = p /\ f.quoted = s.quoted /\ f.skip = s.skip
    BY Pushes
  <2>2. f \in Reader
    BY FinishRowType
  <2> HIDE DEF f
  <2>3. LET g == [f EXCEPT !.skip = TRUE]
        IN  /\ g.row = f.row /\ g.field = f.field /\ g.starts = f.starts
            /\ g.from = f.from /\ g.quoted = f.quoted /\ g.skip = TRUE
    BY <2>2 DEF Reader
  <2> QED
    BY <2>1, <2>3 DEF f
<1>9. /\ [s EXCEPT !.skip = FALSE].skip = FALSE
      /\ [s EXCEPT !.skip = FALSE].quoted = s.quoted
      /\ [s EXCEPT !.skip = FALSE].starts = s.starts /\ [s EXCEPT !.skip = FALSE].from = s.from
      /\ [s EXCEPT !.skip = FALSE].row = s.row /\ [s EXCEPT !.skip = FALSE].field = s.field
      /\ [s EXCEPT !.quoted = FALSE].quoted = FALSE
      /\ [s EXCEPT !.quoted = FALSE].starts = s.starts
      /\ [s EXCEPT !.quoted = FALSE].from = s.from
      /\ [s EXCEPT !.quoted = FALSE].skip = s.skip
      /\ [s EXCEPT !.quoted = TRUE, !.started = TRUE].quoted = TRUE
      /\ [s EXCEPT !.quoted = TRUE, !.started = TRUE].starts = s.starts
      /\ [s EXCEPT !.quoted = TRUE, !.started = TRUE].from = s.from
      /\ [s EXCEPT !.quoted = TRUE, !.started = TRUE].skip = s.skip
  BY DEF Reader
<1> HIDE DEF c, d, r, l
<1>10. Match(text, i, r, l, v)
  <2>1. CASE w = "quoted"
    <3>1. v = IF c = Quote THEN "closed" ELSE "quoted"
      BY <2>1, FieldCharIs DEF c
    <3>2. k.inQuotes /\ s.quoted /\ ~s.skip /\ s.from < i - 1
      BY <2>1, <1>4 DEF Match
    <3>3. k.starts = Append(s.starts, s.from) /\ l.starts = k.starts
      BY <1>1, <1>2, <1>4, <2>1, <3>2 DEF Match
    <3>4. CASE c # Quote
      <4>1. r = AddChar(s, c) /\ l.inQuotes /\ v = "quoted"
        BY <1>2, <1>3, <3>1, <3>2, <3>4
      <4>2. r.starts = s.starts /\ r.from = s.from /\ r.quoted /\ ~r.skip
        BY <1>6, <3>2, <4>1
      <4> QED
        BY <1>1, <1>4, <3>2, <3>3, <4>1, <4>2 DEF Match
    <3>5. CASE c = Quote /\ i < Len(text) /\ d = Quote
      <4>1. r = [AddChar(s, c) EXCEPT !.skip = TRUE] /\ ~l.inQuotes /\ v = "closed"
        BY <1>2, <1>3, <3>1, <3>2, <3>5
      <4>2. r.starts = s.starts /\ r.from = s.from /\ r.quoted /\ r.skip
        BY <1>6, <3>2, <4>1
      <4> QED
        <5>1. text[i] = Quote /\ text[i + 1] = Quote /\ i < Len(text)
          BY <3>5 DEF c, d
        <5>2. s.from < i /\ r.from < i /\ i > 0 /\ ~ r.from >= Len(text)
          BY <1>1, <1>4, <3>2, <4>2, <5>1
        <5>3. l.starts = Append(r.starts, r.from)
          BY <3>3, <4>2
        <5> HIDE DEF next, r, l
        <5> QED
          BY <4>1, <4>2, <5>1, <5>2, <5>3 DEF Match
    <3>6. CASE c = Quote /\ ~ (i < Len(text) /\ d = Quote)
      <4>1. i < Len(text) => d \in {Delimiter, LF, CR}
        BY <3>1, <3>6, FieldCharIs DEF d
      <4>2. next \in {Delimiter, CR, LF, EndOfText}
        BY <4>1
      <4>3. r = [s EXCEPT !.quoted = FALSE] /\ ~l.inQuotes /\ v = "closed"
        BY <1>2, <1>3, <3>1, <3>2, <3>6, <4>2
      <4>4. r.starts = s.starts /\ r.from = s.from /\ ~r.quoted /\ ~r.skip
        BY <1>9, <3>2, <4>3
      <4> QED
        BY <1>1, <1>4, <3>2, <3>3, <3>6, <4>3, <4>4 DEF Match, c, d
    <3> QED
      BY <3>4, <3>5, <3>6
  <2>2. CASE w = "cr"
    <3>1. c = LF /\ v = "start"
      BY <2>2, FieldCharIs DEF c
    <3>2. ~k.inQuotes /\ ~s.quoted /\ s.skip /\ s.from = i /\ s.row = << >> /\ s.field = << >>
      BY <1>1, <1>4, <2>2 DEF Match
    <3>3. k.starts = s.starts
      BY <2>2 DEF Match
    <3>4. /\ r.starts = s.starts /\ r.from = i /\ r.row = << >> /\ r.field = << >>
          /\ ~r.quoted /\ ~r.skip
      BY <1>3, <1>9, <3>2
    <3>5. ~l.inQuotes /\ l.starts = IF i < Len(text) THEN Append(k.starts, i) ELSE k.starts
      BY <1>2, <1>5, <3>1, <3>2
    <3> QED
      BY <1>1, <3>1, <3>3, <3>4, <3>5 DEF Match, c
  <2>3. CASE w \in {"start", "plain", "closed"} /\ s.skip
    <3>1. w = "closed" /\ c = Quote /\ s.quoted /\ ~k.inQuotes /\ s.from < i - 1
      BY <1>1, <1>4, <2>3 DEF Match, c
    <3>2. v = "quoted"
      BY <1>5, <3>1, FieldCharIs DEF c
    <3>3. k.starts = Append(s.starts, s.from)
      BY <1>1, <1>4, <3>1 DEF Match
    <3>4. r.starts = s.starts /\ r.from = s.from /\ r.quoted /\ ~r.skip
      BY <1>3, <1>9, <2>3, <3>1
    <3>5. l.inQuotes /\ l.starts = k.starts
      BY <1>2, <1>5, <3>1
    <3> QED
      BY <1>1, <1>4, <3>1, <3>2, <3>3, <3>4, <3>5 DEF Match
  <2>4. CASE w \in {"start", "plain", "closed"} /\ ~s.skip
    <3>0. /\ c \in {Delimiter, LF} => v = "start"
          /\ c = CR => v = "cr"
          /\ c = Quote => w # "plain" /\ v = "quoted"
          /\ c \notin {Delimiter, LF, CR, Quote} => w # "closed" /\ v = "plain"
      BY <1>5, <2>4, FieldCharIs DEF c
    <3>1. ~k.inQuotes /\ ~s.quoted /\ s.from <= i - 1
      BY <1>1, <1>4, <2>4 DEF Match
    <3>2. k.starts = Append(s.starts, s.from)
      BY <1>1, <1>4, <2>4, <3>1 DEF Match
    <3>3. CASE c = Delimiter
      <4>1. r = PushField(s) /\ v = "start" /\ ~l.inQuotes /\ l.starts = k.starts
        BY <1>2, <1>3, <1>5, <2>4, <3>0, <3>1, <3>3
      <4>2. /\ r.row # << >> /\ r.field = << >> /\ r.starts = s.starts /\ r.from = s.from
            /\ ~r.quoted /\ ~r.skip
        BY <1>7, <2>4, <3>1, <4>1
      <4> QED
        BY <1>1, <1>4, <3>1, <3>2, <4>1, <4>2 DEF Match
    <3>4. CASE c = LF
      <4>1. /\ r = FinishRow(s, i) /\ v = "start" /\ ~l.inQuotes
            /\ l.starts = IF i < Len(text) THEN Append(k.starts, i) ELSE k.starts
        BY <1>2, <1>3, <1>5, <2>4, <3>0, <3>1, <3>4
      <4>2. /\ r.row = << >> /\ r.field = << >> /\ r.starts = Append(s.starts, s.from) /\ r.from = i
            /\ ~r.quoted /\ ~r.skip
        BY <1>1, <1>8, <2>4, <3>1, <4>1
      <4> QED
        BY <1>1, <1>4, <3>1, <3>2, <3>4, <4>1, <4>2 DEF Match, c
    <3>5. CASE c = CR
      <4>1. v = "cr" /\ i < Len(text) /\ next = LF
        BY <3>0, <3>5 DEF d
      <4>2. r = [FinishRow(s, i + 1) EXCEPT !.skip = TRUE] /\ ~l.inQuotes /\ l.starts = k.starts
        BY <1>2, <1>3, <1>5, <2>4, <3>1, <3>5, <4>1
      <4>3. /\ r.row = << >> /\ r.field = << >> /\ r.starts = Append(s.starts, s.from)
            /\ r.from = i + 1 /\ ~r.quoted /\ r.skip
        <5>1. i + 1 \in Nat
          BY <1>1
        <5> QED
          BY <1>8, <3>1, <4>2, <5>1
      <4> QED
        BY <1>1, <1>4, <3>1, <3>2, <4>1, <4>2, <4>3 DEF Match
    <3>6. CASE c = Quote
      <4>1. w # "closed"
        BY <1>1, <2>4, <3>6 DEF Match, c
      <4>2. s.field = << >>
        BY <2>4, <3>0, <3>6, <4>1 DEF Match
      <4>3. /\ r = [s EXCEPT !.quoted = TRUE, !.started = TRUE] /\ v = "quoted"
            /\ l.inQuotes /\ l.starts = k.starts
        BY <1>2, <1>3, <1>5, <2>4, <3>0, <3>1, <3>6, <4>2
      <4>4. r.starts = s.starts /\ r.from = s.from /\ r.quoted /\ ~r.skip
        BY <1>9, <2>4, <4>3
      <4> QED
        BY <1>1, <1>4, <3>1, <3>2, <4>3, <4>4 DEF Match
    <3>7. CASE c \notin {Delimiter, LF, CR, Quote}
      <4>1. r = AddChar(s, c) /\ v = "plain" /\ ~l.inQuotes /\ l.starts = k.starts
        BY <1>2, <1>3, <2>4, <3>0, <3>1, <3>7
      <4>2. /\ r.field # << >> /\ r.starts = s.starts /\ r.from = s.from
            /\ ~r.quoted /\ ~r.skip
        BY <1>6, <2>4, <3>1, <4>1
      <4> QED
        BY <1>1, <1>4, <3>1, <3>2, <4>1, <4>2 DEF Match
    <3> QED
      BY <3>3, <3>4, <3>5, <3>6, <3>7
  <2> HIDE DEF next
  <2> QED
    BY <2>1, <2>2, <2>3, <2>4 DEF States
<1> QED
  BY <1>10 DEF r, l

LEMMA MatchAll ==
    ASSUME NEW text \in Text, WellFormed(text)
    PROVE  \A i \in 0 .. Len(text) :
               Match(text, i, ReadUpTo(text, i), ScanUpTo(text, i), StateAfter(text, i))
<1> DEFINE n == Len(text)
           T == {i \in 0 .. n : Match(text, i, ReadUpTo(text, i), ScanUpTo(text, i), StateAfter(text, i))}
<1>1. n \in Nat
  BY DEF Text
<1>2. 0 \in T
  <2>1. /\ ReadUpTo(text, 0) = Fresh /\ ScanUpTo(text, 0) = ScanBegin(text)
        /\ StateAfter(text, 0) = "start"
    BY ReadTurns, ScanTurns, StateTurns
  <2>2. 0 >= n <=> text = << >>
    BY EmptySeq DEF Text
  <2>3. Match(text, 0, Fresh, ScanBegin(text), "start")
    BY <1>1, <2>2 DEF Match, Fresh, ScanBegin
  <2> QED
    BY <1>1, <2>1, <2>3
<1>3. ASSUME NEW i \in 1 .. n, i - 1 \in T
      PROVE  i \in T
  <2> DEFINE s == ReadUpTo(text, i - 1)
             k == ScanUpTo(text, i - 1)
             w == StateAfter(text, i - 1)
             v == StateAfter(text, i)
  <2>1. i \in 0 .. n /\ i - 1 \in 0 .. n
    BY <1>1
  <2>2. s \in Reader /\ k \in Scanner /\ w \in States /\ v \in States
    BY <2>1, ReadTurns, ScanTurns, StateTurns
  <2>3. /\ ReadUpTo(text, i) = ReadChar(text, s, i)
        /\ ScanUpTo(text, i) = ScanChar(text, k, i)
        /\ v = FieldChar(w, text[i])
    BY ReadTurns, ScanTurns, StateTurns
  <2>4. w # "bad" /\ v # "bad" /\ (v = "cr" => i < n /\ text[i + 1] = LF)
    BY <2>1, WellFormedAll
  <2>5. i < n => FieldChar(v, text[i + 1]) # "bad"
    <3> SUFFICES ASSUME i < n PROVE FieldChar(v, text[i + 1]) # "bad"
      OBVIOUS
    <3>1. i + 1 \in 1 .. n /\ i + 1 \in 0 .. n /\ (i + 1) - 1 = i
      BY <1>1
    <3>2. StateAfter(text, i + 1) = FieldChar(v, text[i + 1])
      BY <3>1, StateTurns
    <3> QED
      BY <3>1, <3>2, WellFormedAll
  <2>6. Match(text, i - 1, s, k, w)
    BY <1>3
  <2> HIDE DEF s, k, w, v
  <2>7. Match(text, i, ReadChar(text, s, i), ScanChar(text, k, i), v)
    BY <2>2, <2>3, <2>4, <2>5, <2>6, MatchStep
  <2> QED
    BY <2>1, <2>3, <2>7 DEF v
<1> HIDE DEF T, n
<1>4. 0 .. n \subseteq T
  BY <1>1, <1>2, <1>3, UpToInduction
<1> QED
  BY <1>4 DEF T, n

\* What the end of the text pushes.
LEMMA EndFeedStarts ==
    ASSUME NEW text, NEW s \in Reader
    PROVE  EndFeed(text, s).starts =
               IF s.row # << >> \/ s.field # << >>
                    \/ (text # << >> /\ Last(text) \in {Delimiter, Quote})
               THEN Append(s.starts, s.from) ELSE s.starts
<1> DEFINE pushes == s.field # << >> \/ (text # << >> /\ Last(text) \in {Delimiter, Quote})
           p == IF pushes THEN PushField(s) ELSE s
<1>1. EndFeed(text, s) = IF p.row # << >> THEN PushRow(p, Len(text)) ELSE p
  BY DEF EndFeed
<1>2. p.starts = s.starts /\ p.from = s.from /\ p \in Reader
  <2>1. PushField(s) \in Reader
    BY FinishRowType, 0 \in Nat
  <2> QED
    BY <2>1, Pushes
<1>3. p.row # << >> <=> pushes \/ s.row # << >>
  BY Pushes
<1> HIDE DEF p, pushes
<1>4. PushRow(p, Len(text)).starts = Append(p.starts, p.from)
  BY <1>2 DEF PushRow, Reader
<1>5. EndFeed(text, s).starts = IF pushes \/ s.row # << >> THEN Append(s.starts, s.from) ELSE s.starts
  BY <1>1, <1>2, <1>3, <1>4
<1> QED
  BY <1>5 DEF pushes

(* In every text that is RFC 4180, whatever its length, its characters and    *)
(* its delimiter, the scanner that only counts quotes finds the records where *)
(* the importer's reader found them (ScanCsvRecordStarts, parse, end_feed).   *)
THEOREM ScannerFindsRecords ==
    ASSUME NEW text \in Text, WellFormed(text)
    PROVE  ScanCsvRecordStarts(text) = Read(text).starts
<1> DEFINE n == Len(text)
           s == ReadUpTo(text, n)
           k == ScanUpTo(text, n)
           w == StateAfter(text, n)
<1>1. n \in Nat /\ n \in 0 .. n /\ w \in {"start", "plain", "closed"}
  BY DEF Text, WellFormed
<1>2. Match(text, n, s, k, w)
  BY <1>1, MatchAll
<1>3. s \in Reader /\ k \in Scanner
  BY <1>1, ReadTurns, ScanTurns
<1>4. Read(text).starts = EndFeed(text, s).starts /\ ScanCsvRecordStarts(text) = k.starts
  BY DEF Read, ScanCsvRecordStarts
<1>5. (text = << >> <=> n = 0) /\ (text # << >> => Last(text) = text[n])
  BY EmptySeq DEF Text, Last
<1>6. Delimiter # Quote /\ Delimiter # LF /\ Quote # LF
  BY CsvTextAssumption DEF Quote, LF
<1>7. s.from \in Nat
  BY <1>3 DEF Reader
<1> HIDE DEF n, s, k, w
<1>8. k.starts = IF s.row # << >> \/ s.field # << >>
                      \/ (text # << >> /\ Last(text) \in {Delimiter, Quote})
                 THEN Append(s.starts, s.from) ELSE s.starts
  <2>1. k.starts = IF s.from >= n THEN s.starts ELSE Append(s.starts, s.from)
    BY <1>1, <1>2 DEF Match, n
  <2>2. CASE w = "start" /\ s.from = n
    BY <1>1, <1>2, <1>5, <1>6, <1>7, <2>1, <2>2 DEF Match
  <2>3. CASE w = "start" /\ s.from # n
    BY <1>1, <1>2, <1>7, <2>1, <2>3 DEF Match
  <2>4. CASE w = "plain"
    <3>1. s.from < n /\ s.field # << >>
      BY <1>2, <2>4 DEF Match
    <3> QED
      BY <1>1, <1>7, <2>1, <3>1
  <2>5. CASE w = "closed"
    BY <1>1, <1>2, <1>5, <1>7, <2>1, <2>5 DEF Match
  <2> QED
    BY <1>1, <2>2, <2>3, <2>4, <2>5
<1> QED
  BY <1>3, <1>4, <1>8, EndFeedStarts
-------------------------------------------------------------------------------
(* Texts put together. *)

\* How FlattenSeq gets to its result.
Joins(parts, joined) ==
    /\ joined \in [0 .. Len(parts) -> Text]
    /\ joined[0] = << >>
    /\ \A j \in 1 .. Len(parts) : joined[j] = joined[j - 1] \o parts[j]
    /\ FlattenSeq(parts) = joined[Len(parts)]

LEMMA FlattenJoins ==
    ASSUME NEW parts \in Seq(Text)
    PROVE  \E joined : Joins(parts, joined)
<1> DEFINE n == Len(parts)
           step == [i \in 1 .. n |-> [s \in Text |-> s \o parts[i]]]
           flatten == CHOOSE f : f = [i \in 1 .. n |-> IF i = 1 THEN parts[i] ELSE f[i - 1] \o parts[i]]
<1>1. n \in Nat /\ << >> \in Text /\ \A i \in 1 .. n : parts[i] \in Text
  BY DEF Text
<1>2. \A s, u \in Text : s \o u \in Text
  BY DEF Text
<1>3. step \in [1 .. n -> [Text -> Text]]
  BY <1>1, <1>2
<1>4. PICK f \in [0 .. n -> Text] : Unfolds(f, n, << >>, step)
  <2> HIDE DEF n, step
  <2> QED
    BY <1>1, <1>3, LoopExists
<1>5. f[0] = << >> /\ \A i \in 1 .. n : f[i] = f[i - 1] \o parts[i]
  <2>1. f[0] = << >> /\ \A i \in 1 .. n : f[i] = step[i][f[i - 1]]
    <3> HIDE DEF n, step
    <3> QED
      BY <1>1, <1>4, LoopStep
  <2>2. \A i \in 1 .. n : f[i - 1] \in Text
    BY <1>1
  <2> QED
    BY <2>1, <2>2
<1>6. CASE n = 0
  <2>1. parts = << >> /\ FlattenSeq(parts) = << >>
    BY <1>6 DEF FlattenSeq
  <2> QED
    BY <1>4, <1>5, <1>6, <2>1 DEF Joins
<1>7. CASE n # 0
  <2> DEFINE g == [i \in 1 .. n |-> f[i]]
  <2>1. g = [i \in 1 .. n |-> IF i = 1 THEN parts[i] ELSE g[i - 1] \o parts[i]]
    <3>1. ASSUME NEW i \in 1 .. n
          PROVE  f[i] = IF i = 1 THEN parts[i] ELSE g[i - 1] \o parts[i]
      <4>1. CASE i = 1
        <5>1. f[1] = << >> \o parts[1] /\ parts[1] \in Text
          BY <1>1, <1>5, <4>1
        <5>2. << >> \o parts[1] = parts[1]
          BY <5>1, ConcatEmptySeq DEF Text
        <5> QED
          BY <4>1, <5>1, <5>2
      <4>2. CASE i # 1
        <5>1. i - 1 \in 1 .. n
          BY <1>1, <4>2
        <5> QED
          BY <1>5, <4>2, <5>1
      <4> QED
        BY <4>1, <4>2
    <3> HIDE DEF n
    <3> QED
      BY <3>1
  <2>2. flatten = [i \in 1 .. n |-> IF i = 1 THEN parts[i] ELSE flatten[i - 1] \o parts[i]]
    BY <2>1
  <2>3. FlattenSeq(parts) = flatten[n]
    BY <1>7 DEF FlattenSeq
  <2> HIDE DEF flatten
  <2>4. \A i \in 1 .. n : flatten[i] = IF i = 1 THEN parts[i] ELSE flatten[i - 1] \o parts[i]
    BY <2>2
  <2> DEFINE T == {i \in 0 .. n : i # 0 => flatten[i] = f[i]}
  <2>5. 0 \in T
    BY <1>1
  <2>6. ASSUME NEW i \in 1 .. n, i - 1 \in T
        PROVE  i \in T
    <3>1. f[i] = IF i = 1 THEN parts[i] ELSE f[i - 1] \o parts[i]
      BY <2>1
    <3>2. i # 1 => flatten[i - 1] = f[i - 1]
      BY <1>1, <2>6
    <3>3. flatten[i] = f[i]
      BY <2>4, <3>1, <3>2
    <3> QED
      BY <1>1, <3>3
  <2> HIDE DEF T, n
  <2>7. 0 .. n \subseteq T
    BY <1>1, <2>5, <2>6, UpToInduction
  <2>8. flatten[n] = f[n]
    BY <1>1, <1>7, <2>7 DEF T
  <2> QED
    BY <1>4, <1>5, <2>3, <2>8 DEF Joins, n
<1> QED
  BY <1>6, <1>7

LEMMA FlattenType ==
    ASSUME NEW parts \in Seq(Text)
    PROVE  FlattenSeq(parts) \in Text
<1>1. PICK joined : Joins(parts, joined)
  BY FlattenJoins
<1>2. Len(parts) \in 0 .. Len(parts)
  OBVIOUS
<1> QED
  BY <1>1, <1>2 DEF Joins
-------------------------------------------------------------------------------
(* Types. *)

LEMMA ReadType ==
    ASSUME NEW text \in Text
    PROVE  /\ Read(text) \in Reader
           /\ Read(text).records \in Seq(Seq(Text)) /\ Read(text).starts \in Seq(Nat)
<1> DEFINE s == ReadUpTo(text, Len(text))
<1>1. Len(text) \in Nat /\ s \in Reader
  <2>1. Len(text) \in Nat /\ Len(text) \in 0 .. Len(text)
    BY DEF Text
  <2> QED
    BY <2>1, ReadTurns
<1> HIDE DEF s
<1>2. PushField(s) \in Reader
  BY <1>1, FinishRowType
<1>3. \A t \in Reader : PushRow(t, Len(text)) \in Reader
  <2> SUFFICES ASSUME NEW t \in Reader PROVE PushRow(t, Len(text)) \in Reader
    OBVIOUS
  <2>1. Append(t.records, t.row) \in Seq(Seq(Text)) /\ Append(t.starts, t.from) \in Seq(Nat)
    BY DEF Reader
  <2>2. << >> \in Seq(Text)
    OBVIOUS
  <2> QED
    BY <1>1, <2>1, <2>2 DEF PushRow, Reader
<1>4. EndFeed(text, s) \in Reader
  BY <1>1, <1>2, <1>3 DEF EndFeed
<1> QED
  BY <1>4 DEF Read, Reader, s

LEMMA ScanWithin ==
    ASSUME NEW text \in Text
    PROVE  ScanCsvRecordStarts(text) \in Seq(0 .. Len(text))
<1> DEFINE n == Len(text)
           T == {i \in 0 .. n : ScanUpTo(text, i).starts \in Seq(0 .. n)}
<1>1. n \in Nat /\ n \in 0 .. n
  BY DEF Text
<1>2. 0 \in T
  <2>1. ScanUpTo(text, 0).starts = IF text = << >> THEN << >> ELSE <<0>>
    BY ScanTurns DEF ScanBegin
  <2>2. << >> \in Seq(0 .. n) /\ <<0>> \in Seq(0 .. n) /\ 0 \in 0 .. n
    BY <1>1
  <2>3. ScanUpTo(text, 0).starts \in Seq(0 .. n)
    <3> HIDE DEF n
    <3> QED
      BY <2>1, <2>2
  <2> QED
    BY <2>2, <2>3
<1>3. ASSUME NEW i \in 1 .. n, i - 1 \in T
      PROVE  i \in T
  <2>1. i \in 0 .. n /\ i - 1 \in 0 .. n /\ i \in Nat
    BY <1>1
  <2>2. /\ ScanUpTo(text, i) = ScanChar(text, ScanUpTo(text, i - 1), i)
        /\ ScanUpTo(text, i - 1) \in Scanner
    BY <2>1, ScanTurns
  <2>3. ScanUpTo(text, i).starts \in {ScanUpTo(text, i - 1).starts, Append(ScanUpTo(text, i - 1).starts, i)}
    <3> DEFINE k == ScanUpTo(text, i - 1)
    <3>1. k \in Scanner /\ ScanUpTo(text, i) = ScanChar(text, k, i)
      BY <2>2
    <3> HIDE DEF k
    <3>2. ScanChar(text, k, i).starts \in {k.starts, Append(k.starts, i)}
      BY <2>1, <3>1, ScanCharIs
    <3> QED
      BY <3>1, <3>2 DEF k
  <2>4. ScanUpTo(text, i - 1).starts \in Seq(0 .. n)
    BY <1>3
  <2>5. Append(ScanUpTo(text, i - 1).starts, i) \in Seq(0 .. n)
    BY <2>1, <2>4
  <2> QED
    BY <2>1, <2>3, <2>4, <2>5
<1> HIDE DEF T, n
<1>4. 0 .. n \subseteq T
  BY <1>1, <1>2, <1>3, UpToInduction
<1> QED
  BY <1>1, <1>4 DEF T, n, ScanCsvRecordStarts

LEMMA Characters ==
    /\ Comma \in Character /\ Quote \in Character /\ CR \in Character /\ LF \in Character
    /\ <<Comma>> \in Text /\ <<Quote>> \in Text /\ <<LF>> \in Text /\ <<Quote, Quote>> \in Text
    /\ << >> \in Text /\ Zero \in Text /\ <<"C">> \in Text
<1>1. Comma \in Character /\ Quote \in Character /\ CR \in Character /\ LF \in Character
  BY DEF Character, Chars
<1>2. "0" \in Character /\ "C" \in Character
  BY DEF Character
<1>3. ASSUME NEW S, NEW c \in S PROVE <<c>> \in Seq(S) /\ <<c, c>> \in Seq(S)
  OBVIOUS
<1>4. << >> \in Text
  BY DEF Text
<1> QED
  BY <1>1, <1>2, <1>3, <1>4 DEF Zero, Text

LEMMA ConcatText ==
    ASSUME NEW s \in Text, NEW u \in Text
    PROVE  s \o u \in Text
  BY DEF Text

\* The characters of a text inside quotes.
Doubled(text) == [i \in DOMAIN text |-> IF text[i] = Quote THEN <<Quote, Quote>> ELSE <<text[i]>>]

LEMMA DoubledType ==
    ASSUME NEW text \in Text
    PROVE  Doubled(text) \in Seq(Text) /\ Len(Doubled(text)) = Len(text)
<1>1. Len(text) \in Nat /\ DOMAIN text = 1 .. Len(text) /\ \A i \in 1 .. Len(text) : <<text[i]>> \in Text
  BY DEF Text
<1>2. \A i \in 1 .. Len(text) : Doubled(text)[i] \in Text
  BY <1>1, Characters DEF Doubled
<1> QED
  BY <1>1, <1>2 DEF Doubled

LEMMA EscapedType ==
    ASSUME NEW text \in Text
    PROVE  AppendCsvEscaped(text) \in Text
<1>1. FlattenSeq(Doubled(text)) \in Text
  BY DoubledType, FlattenType
<1>2. <<Quote>> \o FlattenSeq(Doubled(text)) \o <<Quote>> \in Text
  BY <1>1, Characters, ConcatText
<1> QED
  BY <1>2 DEF AppendCsvEscaped, Doubled

\* The fields of a printed row, each with the separator before it.
Separated(texts) ==
    [c \in DOMAIN texts |->
        IF c = 1 THEN AppendCsvEscaped(texts[c]) ELSE <<Comma>> \o AppendCsvEscaped(texts[c])]

LEMMA SeparatedType ==
    ASSUME NEW texts \in Seq(Text)
    PROVE  Separated(texts) \in Seq(Text) /\ Len(Separated(texts)) = Len(texts)
<1>1. Len(texts) \in Nat /\ DOMAIN texts = 1 .. Len(texts) /\ \A c \in 1 .. Len(texts) : texts[c] \in Text
  OBVIOUS
<1>2. \A c \in 1 .. Len(texts) : Separated(texts)[c] \in Text
  BY <1>1, Characters, ConcatText, EscapedType DEF Separated
<1> QED
  BY <1>1, <1>2 DEF Separated

LEMMA RowType ==
    ASSUME NEW texts \in Seq(Text)
    PROVE  AppendCsvRow(texts) \in Text /\ AppendCsvRow(texts) = FlattenSeq(Separated(texts)) \o <<LF>>
<1>1. AppendCsvRow(texts) = FlattenSeq(Separated(texts)) \o <<LF>>
  BY DEF AppendCsvRow, Separated
<1> QED
  BY <1>1, SeparatedType, FlattenType, Characters, ConcatText

LEMMA RecordTextType ==
    ASSUME NEW text \in Text, NEW starts \in Seq(0 .. Len(text)), NEW k \in 1 .. Len(starts)
    PROVE  RecordText(text, starts, k) \in Text
<1> DEFINE end == IF k < Len(starts) THEN starts[k + 1] ELSE Len(text)
<1>1. Len(text) \in Nat /\ starts[k] \in 0 .. Len(text) /\ k \in Nat /\ Len(starts) \in Nat
  BY DEF Text
<1>2. end \in 0 .. Len(text)
  BY <1>1
<1>3. starts[k] + 1 \in 1 .. Len(text) + 1
  BY <1>1
<1> HIDE DEF end
<1>4. SubSeq(text, starts[k] + 1, end) \in Text
  BY <1>1, <1>2, <1>3, SubSeqProperties DEF Text
<1> QED
  BY <1>4 DEF RecordText, end

LEMMA ExportType ==
    ASSUME NEW text \in Text, NEW cells \in Seq(Seq(Text)), NEW labels \in Seq(Text),
           NEW rows \in SUBSET DOMAIN cells
    PROVE  Export(text, cells, labels, rows) \in Text
<1> DEFINE starts == ScanCsvRecordStarts(text)
           spliced == [k \in DOMAIN starts |->
                          IF k - 1 \in rows THEN AppendCsvRow(cells[k - 1])
                          ELSE RecordText(text, starts, k)]
           printed == [r \in DOMAIN cells |-> AppendCsvRow(cells[r])]
<1>1. starts \in Seq(0 .. Len(text)) /\ Len(starts) \in Nat /\ DOMAIN starts = 1 .. Len(starts)
  BY ScanWithin
<1>2. \A r \in 1 .. Len(cells) : AppendCsvRow(cells[r]) \in Text
  BY RowType
<1>3. Len(cells) \in Nat /\ DOMAIN cells = 1 .. Len(cells)
  OBVIOUS
<1> HIDE DEF starts
<1>4. spliced \in Seq(Text)
  <2>1. \A k \in 1 .. Len(starts) : spliced[k] \in Text
    BY <1>1, <1>2, <1>3, RecordTextType
  <2> QED
    BY <1>1, <2>1
<1>5. printed \in Seq(Text)
  BY <1>2, <1>3
<1>6. <<AppendCsvRow(labels)>> \o printed \in Seq(Text)
  BY <1>5, RowType
<1> QED
  BY <1>4, <1>6, FlattenType DEF Export, starts

LEMMA CutTextIs ==
    ASSUME NEW text \in Text
    PROVE  /\ CutText(text) \in Text /\ Len(CutText(text)) <= MaxText
           /\ Len(text) <= MaxText => CutText(text) = text
<1> DEFINE m == Min({Len(text), MaxText})
<1>1. Len(text) \in Nat /\ MaxText \in Nat
  BY CsvTextAssumption DEF Text
<1>2. m = IF Len(text) <= MaxText THEN Len(text) ELSE MaxText
  <2>1. \E x \in {Len(text), MaxText} : \A y \in {Len(text), MaxText} : x <= y
    BY <1>1
  <2>2. m \in {Len(text), MaxText} /\ \A y \in {Len(text), MaxText} : m <= y
    BY <2>1 DEF Min
  <2> HIDE DEF m
  <2> QED
    BY <1>1, <2>2
<1> HIDE DEF m
<1>3. /\ SubSeq(text, 1, m) \in Text
      /\ Len(SubSeq(text, 1, m)) = IF 1 <= m THEN m - 1 + 1 ELSE 0
  <2>1. m \in Int /\ \A i \in 1 .. m : text[i] \in Character
    BY <1>1, <1>2 DEF Text
  <2> QED
    BY <2>1, SubSeqProperties DEF Text
<1>4. SubSeq(text, 1, Len(text)) = text
  BY SubSeqFull DEF Text
<1> QED
  BY <1>1, <1>2, <1>3, <1>4 DEF CutText, m

ColumnTypes == {"int", "text"}

\* A cell of a column of this type.
FitsType(type, cell) ==
    /\ cell \in Text
    /\ type = "int" => IsInt(cell)
    /\ type = "text" => Len(cell) <= MaxText

LEMMA StoredAsIs ==
    ASSUME NEW type \in ColumnTypes, NEW row \in Seq(Text), NEW c \in Nat \ {0}
    PROVE  /\ FitsType(type, StoredAs(type, row, c))
           /\ c <= Len(row) /\ FitsType(type, row[c]) => StoredAs(type, row, c) = row[c]
<1>1. c <= Len(row) => row[c] \in Text
  BY ElementOfSeq
<1>2. Has(row, c) <=> c <= Len(row)
  BY DEF Has
<1>3. CASE type = "int"
  <2>1. StoredAs(type, row, c) = IF Has(row, c) /\ IsInt(row[c]) THEN row[c] ELSE Zero
    BY <1>3 DEF StoredAs
  <2>2. IsInt(Zero)
    BY DEF IsInt
  <2> QED
    BY <1>1, <1>2, <1>3, <2>1, <2>2, Characters DEF FitsType
<1>4. CASE type = "text"
  <2>1. StoredAs(type, row, c) = IF Has(row, c) THEN CutText(row[c]) ELSE << >>
    BY <1>4 DEF StoredAs
  <2>2. Len(<< >>) <= MaxText
    BY CsvTextAssumption
  <2> QED
    BY <1>1, <1>2, <1>4, <2>1, <2>2, CutTextIs, Characters DEF FitsType
<1> QED
  BY <1>3, <1>4 DEF ColumnTypes

LEMMA MakesSequence ==
    ASSUME NEW n \in Nat, NEW S, NEW f, f = [i \in 1 .. n |-> f[i]], \A i \in 1 .. n : f[i] \in S
    PROVE  f \in Seq(S) /\ Len(f) = n
  OBVIOUS

LEMMA StoredType ==
    ASSUME NEW types \in Seq(ColumnTypes), NEW records \in Seq(Seq(Text))
    PROVE  LET cells == Stored(types, records)
           IN  /\ cells \in Seq(Seq(Text)) /\ Len(cells) = Len(records)
               /\ \A r \in 1 .. Len(records) :
                     /\ Len(cells[r]) = Len(types)
                     /\ \A c \in 1 .. Len(types) : /\ cells[r][c] = StoredAs(types[c], records[r], c)
                                                   /\ FitsType(types[c], cells[r][c])
<1> DEFINE cells == Stored(types, records)
           row(r) == [c \in DOMAIN types |-> StoredAs(types[c], records[r], c)]
<1>1. /\ Len(types) \in Nat /\ DOMAIN types = 1 .. Len(types)
      /\ Len(records) \in Nat /\ DOMAIN records = 1 .. Len(records)
  OBVIOUS
<1>2. ASSUME NEW r \in 1 .. Len(records), NEW c \in 1 .. Len(types)
      PROVE  FitsType(types[c], StoredAs(types[c], records[r], c))
  BY <1>1, StoredAsIs
<1>3. ASSUME NEW r \in 1 .. Len(records)
      PROVE  row(r) \in Seq(Text) /\ Len(row(r)) = Len(types)
  <2>1. \A c \in 1 .. Len(types) : StoredAs(types[c], records[r], c) \in Text
    BY <1>2, <1>3 DEF FitsType
  <2> QED
    BY <1>1, <2>1
<1>4. cells = [r \in 1 .. Len(records) |-> row(r)]
  BY <1>1 DEF Stored
<1>5. \A r \in 1 .. Len(records) : \A c \in 1 .. Len(types) :
          row(r)[c] = StoredAs(types[c], records[r], c)
  BY <1>1
<1> HIDE DEF cells, row
<1>6. cells \in Seq(Seq(Text)) /\ Len(cells) = Len(records)
  <2>1. \A r \in 1 .. Len(records) : cells[r] = row(r)
    BY <1>4
  <2>2. \A r \in 1 .. Len(records) : cells[r] \in Seq(Text)
    BY <1>3, <2>1
  <2>3. cells = [r \in 1 .. Len(records) |-> cells[r]]
    BY <1>4
  <2> QED
    BY <1>1, <2>2, <2>3, MakesSequence
<1>7. ASSUME NEW r \in 1 .. Len(records)
      PROVE  /\ Len(cells[r]) = Len(types)
             /\ \A c \in 1 .. Len(types) : /\ cells[r][c] = StoredAs(types[c], records[r], c)
                                           /\ FitsType(types[c], cells[r][c])
  <2>1. cells[r] = row(r)
    BY <1>4
  <2> QED
    BY <1>2, <1>3, <1>5, <2>1
<1> QED
  BY <1>6, <1>7 DEF cells

LEMMA InferTypesType ==
    ASSUME NEW records, NEW n \in Nat
    PROVE  InferTypes(records, n) \in Seq(ColumnTypes) /\ Len(InferTypes(records, n)) = n
<1> DEFINE type(c) ==
               LET fields == {records[r][c] : r \in {k \in DOMAIN records : Has(records[k], c)}}
               IN  IF fields # {} /\ \A f \in fields : IsInt(f) THEN "int" ELSE "text"
<1>1. InferTypes(records, n) = [c \in 1 .. n |-> type(c)]
  BY DEF InferTypes
<1>2. \A c \in 1 .. n : type(c) \in ColumnTypes
  BY DEF ColumnTypes
<1> HIDE DEF type
<1> QED
  BY <1>1, <1>2

\* The files, and a table with a cell for every column in every row.
TextTypes ==
    /\ csv \in Text
    /\ sheet \in [labels : Seq(Text), types : Seq(ColumnTypes), cells : Seq(Seq(Text)),
                  sound : BOOLEAN]
    /\ saved \in Seq(Seq(Text))
    /\ Len(saved) = Len(sheet.cells)
    /\ \A r \in 1 .. Len(saved) :
          /\ Len(sheet.cells[r]) = Len(sheet.types)
          /\ Len(saved[r]) = Len(sheet.types)
          /\ \A c \in 1 .. Len(sheet.types) : FitsType(sheet.types[c], sheet.cells[r][c])

LEMMA InitTextTypes == Init => TextTypes
<1> SUFFICES ASSUME Init PROVE TextTypes
  OBVIOUS
<1>1. csv \in Text
  <2>1. csv \in Seq(Chars) /\ Chars \subseteq Character
    BY CsvTextAssumption DEF Init, Character
  <2> QED
    BY <2>1, SeqMonotonic DEF Text
<1> QED
  BY <1>1 DEF Init, NoSheet, TextTypes

LEMMA ImportTextTypes ==
    ASSUME TextTypes, ImportCsv
    PROVE  TextTypes'
<1> DEFINE records == Read(csv).records
           types   == InferTypes(Tail(records), Len(records[1]))
           cells   == Stored(types, Tail(records))
           labels  == [c \in DOMAIN types |-> ColumnName(records[1][c])]
<1>1. /\ records # << >> /\ records[1] # << >>
      /\ sheet' = [labels |-> labels, types |-> types, cells |-> cells, sound |-> WellFormed(csv)]
      /\ saved' = cells /\ csv' = csv
  BY DEF ImportCsv
<1>2. records \in Seq(Seq(Text)) /\ csv \in Text
  BY ReadType DEF TextTypes
<1> HIDE DEF records
<1>3. Len(records) \in Nat /\ Len(records) >= 1 /\ records[1] \in Seq(Text) /\ Tail(records) \in Seq(Seq(Text))
  BY <1>1, <1>2
<1>4. Len(records[1]) \in Nat
  BY <1>3
<1>5. types \in Seq(ColumnTypes) /\ Len(types) = Len(records[1])
  BY <1>4, InferTypesType
<1> HIDE DEF types
<1>6. labels \in Seq(Text)
  <2>1. \A c \in 1 .. Len(types) : ColumnName(records[1][c]) \in Text
    BY <1>3, <1>5, Characters DEF ColumnName
  <2>2. DOMAIN types = 1 .. Len(types) /\ Len(types) \in Nat
    BY <1>5
  <2> QED
    BY <2>1, <2>2
<1>7. /\ cells \in Seq(Seq(Text)) /\ Len(cells) = Len(Tail(records))
      /\ \A r \in 1 .. Len(cells) :
            /\ Len(cells[r]) = Len(types)
            /\ \A c \in 1 .. Len(types) : FitsType(types[c], cells[r][c])
  <2> DEFINE rows == Tail(records)
  <2>1. rows \in Seq(Seq(Text))
    BY <1>3
  <2> HIDE DEF rows
  <2>2. /\ Stored(types, rows) \in Seq(Seq(Text)) /\ Len(Stored(types, rows)) = Len(rows)
        /\ \A r \in 1 .. Len(rows) :
              /\ Len(Stored(types, rows)[r]) = Len(types)
              /\ \A c \in 1 .. Len(types) : FitsType(types[c], Stored(types, rows)[r][c])
    BY <1>5, <2>1, StoredType
  <2> QED
    BY <2>2 DEF rows
<1>8. WellFormed(csv) \in BOOLEAN
  BY DEF WellFormed
<1> HIDE DEF cells, labels
<1> QED
  BY <1>1, <1>2, <1>5, <1>6, <1>7, <1>8 DEF TextTypes

LEMMA WriteTextTypes ==
    ASSUME TextTypes, NEW c \in Chars, Write(c)
    PROVE  TextTypes'
<1>1. c \in Character
  BY DEF Character
<1>2. csv' \in Text
  BY <1>1 DEF Write, TextTypes, Text
<1> QED
  BY <1>2 DEF Write, TextTypes

LEMMA EditTextIsText ==
    ASSUME NEW text \in EditTexts
    PROVE  text \in Text
<1>1. text \in Seq(Chars \cup {Comma}) /\ Chars \cup {Comma} \subseteq Character
  BY CsvTextAssumption DEF Character
<1> QED
  BY <1>1, SeqMonotonic DEF Text

LEMMA SetValueTextTypes ==
    ASSUME TextTypes, NEW r \in DOMAIN sheet.cells, NEW c \in DOMAIN sheet.types,
           NEW text \in EditTexts, SetValue(r, c, text)
    PROVE  TextTypes'
<1> DEFINE cells == sheet.cells
           types == sheet.types
           new   == IF types[c] = "int" THEN text ELSE CutText(text)
           cells2 == [cells EXCEPT ![r][c] = new]
<1>1. /\ cells \in Seq(Seq(Text)) /\ types \in Seq(ColumnTypes) /\ saved \in Seq(Seq(Text))
      /\ Len(saved) = Len(cells) /\ r \in 1 .. Len(cells) /\ c \in 1 .. Len(types)
      /\ \A k \in 1 .. Len(cells) :
            /\ Len(cells[k]) = Len(types) /\ Len(saved[k]) = Len(types)
            /\ \A d \in 1 .. Len(types) : FitsType(types[d], cells[k][d])
  BY DEF TextTypes
<1>2. FitsType(types[c], new)
  <2>1. text \in Text /\ CutText(text) \in Text /\ Len(CutText(text)) <= MaxText
    BY EditTextIsText, CutTextIs
  <2>2. types[c] = "int" => IsInt(text)
    BY DEF SetValue
  <2>3. types[c] \in ColumnTypes
    BY <1>1
  <2> QED
    BY <2>1, <2>2, <2>3 DEF FitsType, ColumnTypes
<1>3. sheet' = [sheet EXCEPT !.cells = cells2] /\ csv' = csv /\ saved' = saved
  BY DEF SetValue
<1>4. /\ sheet'.labels = sheet.labels /\ sheet'.types = types /\ sheet'.cells = cells2
      /\ sheet'.sound = sheet.sound
      /\ cells2 \in Seq(Seq(Text)) => sheet' \in [labels : Seq(Text), types : Seq(ColumnTypes), cells : Seq(Seq(Text)),
                  sound : BOOLEAN]
  <2> HIDE DEF cells2
  <2> QED
    BY <1>3 DEF TextTypes
<1>5. new \in Text
  BY <1>2 DEF FitsType
<1> HIDE DEF cells, types, new
<1>6. cells[r] \in Seq(Text) /\ Len(cells[r]) = Len(types)
  BY <1>1
<1>7. /\ cells2 \in Seq(Seq(Text)) /\ Len(cells2) = Len(cells)
      /\ cells2[r] = [cells[r] EXCEPT ![c] = new]
      /\ \A k \in 1 .. Len(cells) : k # r => cells2[k] = cells[k]
  <2> DEFINE row == [cells[r] EXCEPT ![c] = new]
  <2>1. row \in Seq(Text)
    BY <1>1, <1>5, <1>6
  <2>2. cells2 = [cells EXCEPT ![r] = row]
    OBVIOUS
  <2> HIDE DEF row, cells2
  <2>3. cells \in Seq(Seq(Text)) /\ r \in 1 .. Len(cells)
    BY <1>1
  <2>4. /\ cells2 \in Seq(Seq(Text)) /\ Len(cells2) = Len(cells) /\ cells2[r] = row
        /\ \A k \in 1 .. Len(cells) : k # r => cells2[k] = cells[k]
    BY <2>1, <2>2, <2>3, ExceptSeq
  <2> QED
    BY <2>4 DEF row
<1>8. \A k \in 1 .. Len(cells) :
          /\ Len(cells2[k]) = Len(types)
          /\ \A d \in 1 .. Len(types) : FitsType(types[d], cells2[k][d])
  <2> SUFFICES ASSUME NEW k \in 1 .. Len(cells)
               PROVE  /\ Len(cells2[k]) = Len(types)
                      /\ \A d \in 1 .. Len(types) : FitsType(types[d], cells2[k][d])
    OBVIOUS
  <2> HIDE DEF cells2
  <2>1. CASE k # r
    BY <1>1, <1>7, <2>1
  <2>2. CASE k = r
    <3> DEFINE old == cells[k]
               row == cells2[k]
    <3>3. row = [old EXCEPT ![c] = new] /\ old \in Seq(Text) /\ Len(old) = Len(types)
      BY <1>6, <1>7, <2>2
    <3> HIDE DEF old, row
    <3>4. DOMAIN old = 1 .. Len(types) /\ Len(row) = Len(old)
      BY <3>3
    <3>1. \A d \in 1 .. Len(types) : cells2[k][d] = IF d = c THEN new ELSE cells[k][d]
      BY <3>3, <3>4 DEF old, row
    <3>2. Len(cells2[k]) = Len(types)
      BY <3>3, <3>4 DEF old, row
    <3> QED
      BY <1>1, <1>2, <3>1, <3>2
  <2> QED
    BY <2>1, <2>2
<1> HIDE DEF cells2
<1>9. /\ csv' \in Text
      /\ sheet' \in [labels : Seq(Text), types : Seq(ColumnTypes), cells : Seq(Seq(Text)), sound : BOOLEAN]
      /\ saved' \in Seq(Seq(Text)) /\ Len(saved') = Len(sheet'.cells)
  BY <1>1, <1>3, <1>4, <1>7 DEF TextTypes
<1>10. \A k \in 1 .. Len(saved') :
          /\ Len(sheet'.cells[k]) = Len(sheet'.types)
          /\ Len(saved'[k]) = Len(sheet'.types)
          /\ \A d \in 1 .. Len(sheet'.types) : FitsType(sheet'.types[d], sheet'.cells[k][d])
  BY <1>1, <1>3, <1>4, <1>8
<1> QED
  BY <1>9, <1>10 DEF TextTypes

LEMMA SaveTextTypes ==
    ASSUME TextTypes, Save
    PROVE  TextTypes'
<1>1. /\ csv' = Export(csv, sheet.cells, sheet.labels, EditedRows)
      /\ saved' = sheet.cells /\ sheet' = sheet
  BY DEF Save
<1>2. EditedRows \in SUBSET DOMAIN sheet.cells
  BY DEF EditedRows, TextTypes
<1>3. csv' \in Text
  BY <1>1, <1>2, ExportType DEF TextTypes
<1> QED
  BY <1>1, <1>3 DEF TextTypes

LEMMA NextTextTypes == TextTypes /\ [Next]_vars => TextTypes'
<1> SUFFICES ASSUME TextTypes, [Next]_vars PROVE TextTypes'
  OBVIOUS
<1>1. ASSUME NEW c \in Chars, Write(c) PROVE TextTypes'
  BY <1>1, WriteTextTypes
<1>2. CASE ImportCsv
  BY <1>2, ImportTextTypes
<1>3. ASSUME NEW r \in DOMAIN sheet.cells, NEW c \in DOMAIN sheet.types, NEW text \in EditTexts,
             SetValue(r, c, text)
      PROVE  TextTypes'
  BY <1>3, SetValueTextTypes
<1>4. CASE Save
  BY <1>4, SaveTextTypes
<1>5. CASE UNCHANGED vars
  BY <1>5 DEF TextTypes, vars
<1> QED
  BY <1>1, <1>2, <1>3, <1>4, <1>5 DEF Next

(* The file is a text, and the sheet, its column types and the column files *)
(* fit each other, in every state (MmappedTable's columns and row count).   *)
THEOREM TextTypesAlways == Spec => []TextTypes
<1> QED
  BY InitTextTypes, NextTextTypes, PTL DEF Spec

(* In every reachable state of every instance a file that is RFC 4180 is cut  *)
(* by the save's scanner where the importer's reader cuts it                  *)
(* (ScanCsvRecordStarts and the parser, of whatever length the file is).      *)
THEOREM ScannerAgreesAlways == Spec => []ScannerAgrees
<1>1. TextTypes => ScannerAgrees
  BY ScannerFindsRecords DEF TextTypes, ScannerAgrees
<1> QED
  BY <1>1, TextTypesAlways, PTL

\* A column is of integers only if every field it has is one.
LEMMA InferredFit ==
    ASSUME NEW records, NEW n \in Nat, NEW r \in DOMAIN records, NEW c \in 1 .. n,
           Has(records[r], c), InferTypes(records, n)[c] = "int"
    PROVE  IsInt(records[r][c])
<1> DEFINE fields == {records[k][c] : k \in {j \in DOMAIN records : Has(records[j], c)}}
<1>1. InferTypes(records, n)[c] = IF fields # {} /\ \A f \in fields : IsInt(f) THEN "int" ELSE "text"
  BY DEF InferTypes
<1>2. records[r][c] \in fields
  OBVIOUS
<1> HIDE DEF fields
<1> QED
  BY <1>1, <1>2

LEMMA ImportStoresFields ==
    ASSUME TextTypes, ImportCsv
    PROVE  LET rows == Tail(Read(csv).records)
           IN  \A r \in DOMAIN rows : \A c \in DOMAIN sheet'.types :
                   Has(rows[r], c) => sheet'.cells[r][c] = IF sheet'.types[c] = "int" THEN rows[r][c]
                                                           ELSE CutText(rows[r][c])
<1> DEFINE records == Read(csv).records
           rows  == Tail(records)
           types == InferTypes(rows, Len(records[1]))
           cells == Stored(types, rows)
<1>1. records # << >> /\ sheet'.types = types /\ sheet'.cells = cells
  BY DEF ImportCsv
<1>2. records \in Seq(Seq(Text))
  BY ReadType DEF TextTypes
<1> HIDE DEF records
<1>3. rows \in Seq(Seq(Text)) /\ Len(records[1]) \in Nat
  BY <1>1, <1>2
<1> HIDE DEF rows
<1>4. types \in Seq(ColumnTypes) /\ Len(types) = Len(records[1])
  BY <1>3, InferTypesType
<1>5. ASSUME NEW r \in DOMAIN rows, NEW c \in 1 .. Len(records[1]), Has(rows[r], c), types[c] = "int"
      PROVE  IsInt(rows[r][c])
  BY <1>3, <1>5, InferredFit
<1> HIDE DEF types
<1>6. \A r \in 1 .. Len(rows) : \A c \in 1 .. Len(types) : cells[r][c] = StoredAs(types[c], rows[r], c)
  BY <1>3, <1>4, StoredType
<1> HIDE DEF cells
<1>7. ASSUME NEW r \in DOMAIN rows, NEW c \in DOMAIN types, Has(rows[r], c)
      PROVE  cells[r][c] = IF types[c] = "int" THEN rows[r][c] ELSE CutText(rows[r][c])
  <2>1. r \in 1 .. Len(rows) /\ c \in 1 .. Len(types)
    BY <1>3, <1>4
  <2>2. types[c] \in ColumnTypes
    BY <1>4, <2>1
  <2>3. cells[r][c] = StoredAs(types[c], rows[r], c)
    BY <1>6, <2>1
  <2>4. types[c] = "int" => IsInt(rows[r][c])
    BY <1>4, <1>5, <1>7, <2>1
  <2> QED
    BY <1>7, <2>2, <2>3, <2>4 DEF StoredAs, ColumnTypes
<1> QED
  BY <1>1, <1>7 DEF rows, records

(* The import never makes a field silently the default of its column's type:  *)
(* inferring the types from the whole file, it stores every field the reader  *)
(* found, texts up to the cut (InferTypes, WriteDataFiles).                   *)
THEOREM ImportIsFaithful == Spec => NoSilentDefault
<1>1. TextTypes /\ [Next]_vars =>
          [sheet = NoSheet /\ sheet' # NoSheet =>
              LET rows == Tail(Read(csv).records)
              IN  \A r \in DOMAIN rows : \A c \in DOMAIN sheet'.types :
                      Has(rows[r], c) => sheet'.cells[r][c] = IF sheet'.types[c] = "int" THEN rows[r][c]
                                                              ELSE CutText(rows[r][c])]_vars
  <2> SUFFICES ASSUME TextTypes, [Next]_vars, sheet = NoSheet, sheet' # NoSheet
               PROVE  LET rows == Tail(Read(csv).records)
                      IN  \A r \in DOMAIN rows : \A c \in DOMAIN sheet'.types :
                              Has(rows[r], c) => sheet'.cells[r][c] =
                                                    IF sheet'.types[c] = "int" THEN rows[r][c]
                                                    ELSE CutText(rows[r][c])
    OBVIOUS
  <2>1. ImportCsv
    <3>1. \A c \in Chars : ~Write(c)
      BY DEF Write
    <3>2. DOMAIN sheet.types = {}
      BY DEF NoSheet
    <3>3. ~Save
      BY DEF Save
    <3> QED
      BY <3>1, <3>2, <3>3 DEF Next, vars
  <2> QED
    BY <2>1, ImportStoresFields
<1> QED
  BY <1>1, TextTypesAlways, PTL DEF Spec, NoSilentDefault
-------------------------------------------------------------------------------
(* A record is read the same way wherever it stands. *)

Shift(starts, p) == [j \in DOMAIN starts |-> starts[j] + p]

\* A reader of a piece of a text as one of the text: p characters and the
\* records recs, at sts, were before it.
Moved(s, p, recs, sts) ==
    [s EXCEPT !.records = recs \o @, !.starts = sts \o Shift(@, p), !.from = @ + p]

\* A reader that begins a record at offset p.
At(p, recs, sts) == [Fresh EXCEPT !.records = recs, !.starts = sts, !.from = p]

\* The piece stands at offset p of the text, and ends it or ends a line.
Within(text, p, piece) ==
    /\ p + Len(piece) <= Len(text)
    /\ \A j \in 1 .. Len(piece) : text[p + j] = piece[j]
    /\ p + Len(piece) = Len(text) \/ (piece # << >> /\ Last(piece) = LF)

LEMMA ShiftType ==
    ASSUME NEW starts \in Seq(Nat), NEW p \in Nat
    PROVE  /\ Shift(starts, p) \in Seq(Nat) /\ Len(Shift(starts, p)) = Len(starts)
           /\ \A j \in 1 .. Len(starts) : Shift(starts, p)[j] = starts[j] + p
<1>1. Len(starts) \in Nat /\ DOMAIN starts = 1 .. Len(starts)
  OBVIOUS
<1>2. \A j \in 1 .. Len(starts) : starts[j] + p \in Nat
  OBVIOUS
<1>3. Shift(starts, p) = [j \in 1 .. Len(starts) |-> starts[j] + p]
  BY <1>1 DEF Shift
<1>4. Shift(starts, p) \in [1 .. Len(starts) -> Nat]
  BY <1>2, <1>3
<1>5. Shift(starts, p) \in Seq(Nat) /\ Len(Shift(starts, p)) = Len(starts)
  BY <1>1, <1>4
<1> QED
  BY <1>3, <1>5

LEMMA LastAppended ==
    ASSUME NEW starts \in Seq(Nat), NEW from \in Nat
    PROVE  /\ Append(starts, from) \in Seq(Nat) /\ Append(starts, from) # << >>
           /\ Len(Append(starts, from)) = Len(starts) + 1
           /\ \A j \in 1 .. Len(starts) : Append(starts, from)[j] = starts[j]
           /\ Append(starts, from)[Len(starts) + 1] = from
  BY AppendProperties

LEMMA ShiftAppend ==
    ASSUME NEW starts \in Seq(Nat), NEW from \in Nat, NEW p \in Nat
    PROVE  Shift(Append(starts, from), p) = Append(Shift(starts, p), from + p)
<1> DEFINE n == Len(starts)
           d == Append(starts, from)
           a == Shift(starts, p)
           b == Shift(d, p)
           c == Append(a, from + p)
<1>1. n \in Nat /\ from + p \in Nat
  OBVIOUS
<1>2. /\ d \in Seq(Nat) /\ Len(d) = n + 1
      /\ \A j \in 1 .. n : d[j] = starts[j]
      /\ d[n + 1] = from
  BY LastAppended
<1>3. /\ a \in Seq(Nat) /\ Len(a) = n
      /\ \A j \in 1 .. n : a[j] = starts[j] + p
  BY ShiftType
<1> HIDE DEF d, a
<1>4. /\ b \in Seq(Nat) /\ Len(b) = n + 1
      /\ \A j \in 1 .. n + 1 : b[j] = d[j] + p
  BY <1>2, ShiftType
<1>5. /\ c \in Seq(Nat) /\ Len(c) = n + 1
      /\ \A j \in 1 .. n : c[j] = a[j]
      /\ c[n + 1] = from + p
  BY <1>1, <1>3, LastAppended
<1> HIDE DEF n, b, c
<1>6. \A j \in 1 .. n + 1 : j \in 1 .. n \/ j = n + 1
  BY <1>1
<1>7. \A j \in 1 .. n + 1 : b[j] = c[j]
  <2>1. \A j \in 1 .. n : b[j] = d[j] + p
    BY <1>1, <1>4
  <2>2. \A j \in 1 .. n : b[j] = c[j]
    <3> SUFFICES ASSUME NEW j \in 1 .. n PROVE b[j] = c[j]
      OBVIOUS
    <3>1. b[j] = starts[j] + p
      BY <1>2, <2>1
    <3>2. c[j] = starts[j] + p
      BY <1>3, <1>5
    <3> QED
      BY <3>1, <3>2
  <2>3. b[n + 1] = c[n + 1]
    BY <1>1, <1>2, <1>4, <1>5
  <2> QED
    BY <1>6, <2>2, <2>3
<1>8. b = c
  BY <1>4, <1>5, <1>7, SeqEqual
<1> QED
  BY <1>8 DEF a, b, c, d

LEMMA MovedType ==
    ASSUME NEW s \in Reader, NEW p \in Nat, NEW recs \in Seq(Seq(Text)), NEW sts \in Seq(Nat)
    PROVE  /\ Moved(s, p, recs, sts) \in Reader
           /\ Moved(s, p, recs, sts).records = recs \o s.records
           /\ Moved(s, p, recs, sts).starts = sts \o Shift(s.starts, p)
           /\ Moved(s, p, recs, sts).from = s.from + p
           /\ Moved(s, p, recs, sts).row = s.row
           /\ Moved(s, p, recs, sts).field = s.field
           /\ Moved(s, p, recs, sts).started = s.started
           /\ Moved(s, p, recs, sts).quoted = s.quoted
           /\ Moved(s, p, recs, sts).skip = s.skip
<1>1. Shift(s.starts, p) \in Seq(Nat) /\ s.from + p \in Nat
  BY ShiftType DEF Reader
<1>2. recs \o s.records \in Seq(Seq(Text)) /\ sts \o Shift(s.starts, p) \in Seq(Nat)
  BY <1>1, ConcatProperties DEF Reader
<1> DEFINE a == recs \o s.records
           b == sts \o Shift(s.starts, p)
           d == s.from + p
<1>3. Moved(s, p, recs, sts) = [s EXCEPT !.records = a, !.starts = b, !.from = d]
  BY DEF Moved
<1>4. a \in Seq(Seq(Text)) /\ b \in Seq(Nat) /\ d \in Nat
  BY <1>1, <1>2
<1> HIDE DEF a, b, d
<1>5. /\ Moved(s, p, recs, sts) \in Reader
      /\ Moved(s, p, recs, sts).records = a /\ Moved(s, p, recs, sts).starts = b
      /\ Moved(s, p, recs, sts).from = d
      /\ Moved(s, p, recs, sts).row = s.row /\ Moved(s, p, recs, sts).field = s.field
      /\ Moved(s, p, recs, sts).started = s.started /\ Moved(s, p, recs, sts).quoted = s.quoted
      /\ Moved(s, p, recs, sts).skip = s.skip
  BY <1>3, <1>4 DEF Reader
<1> QED
  BY <1>5 DEF a, b, d

\* m is the reader s, moved.
IsMoved(m, s, p, recs, sts) ==
    /\ m \in Reader /\ m.records = recs \o s.records /\ m.starts = sts \o Shift(s.starts, p)
    /\ m.from = s.from + p /\ m.row = s.row /\ m.field = s.field /\ m.started = s.started
    /\ m.quoted = s.quoted /\ m.skip = s.skip

LEMMA MovedIs ==
    ASSUME NEW s \in Reader, NEW p \in Nat, NEW recs \in Seq(Seq(Text)), NEW sts \in Seq(Nat)
    PROVE  IsMoved(Moved(s, p, recs, sts), s, p, recs, sts)
  BY MovedType DEF IsMoved

AppendsLast(a, b, e) == Append(a \o b, e) = a \o Append(b, e)

LEMMA AppendToConcat ==
    ASSUME NEW S, NEW a \in Seq(S), NEW b \in Seq(S), NEW e \in S
    PROVE  AppendsLast(a, b, e)
<1>1. a \o b \in Seq(S) /\ <<e>> \in Seq(S)
  OBVIOUS
<1>2. Append(a \o b, e) = (a \o b) \o <<e>> /\ Append(b, e) = b \o <<e>>
  BY <1>1, AppendIsConcat
<1>3. (a \o b) \o <<e>> = a \o (b \o <<e>>)
  BY <1>1, ConcatAssociative
<1> QED
  BY <1>2, <1>3 DEF AppendsLast

LEMMA AtType ==
    /\ Fresh \in Reader /\ Fresh.records = << >> /\ Fresh.starts = << >> /\ Fresh.from = 0
    /\ Fresh.row = << >> /\ Fresh.field = << >>
    /\ Fresh.started = FALSE /\ Fresh.quoted = FALSE /\ Fresh.skip = FALSE
    /\ \A p \in Nat, recs \in Seq(Seq(Text)), sts \in Seq(Nat) :
          LET a == At(p, recs, sts)
          IN  /\ a \in Reader /\ a.records = recs /\ a.starts = sts /\ a.from = p
              /\ a.row = << >> /\ a.field = << >>
              /\ a.started = FALSE /\ a.quoted = FALSE /\ a.skip = FALSE
<1>1. << >> \in Text /\ << >> \in Seq(Text) /\ << >> \in Seq(Seq(Text)) /\ << >> \in Seq(Nat)
  BY DEF Text
<1>2. /\ Fresh \in Reader /\ Fresh.records = << >> /\ Fresh.starts = << >> /\ Fresh.from = 0
      /\ Fresh.row = << >> /\ Fresh.field = << >>
      /\ Fresh.started = FALSE /\ Fresh.quoted = FALSE /\ Fresh.skip = FALSE
  BY <1>1 DEF Fresh, Reader
<1>3. ASSUME NEW p \in Nat, NEW recs \in Seq(Seq(Text)), NEW sts \in Seq(Nat)
      PROVE  LET a == At(p, recs, sts)
             IN  /\ a \in Reader /\ a.records = recs /\ a.starts = sts /\ a.from = p
                 /\ a.row = << >> /\ a.field = << >>
                 /\ a.started = FALSE /\ a.quoted = FALSE /\ a.skip = FALSE
  BY <1>2 DEF At, Reader
<1> QED
  BY <1>2, <1>3

\* Two readers that agree field by field.
LEMMA SameReader ==
    ASSUME NEW s \in Reader, NEW u \in Reader,
           s.records = u.records, s.starts = u.starts, s.from = u.from, s.row = u.row,
           s.field = u.field, s.started = u.started, s.quoted = u.quoted, s.skip = u.skip
    PROVE  s = u
<1>1. /\ s = [records |-> s.records, starts |-> s.starts, from |-> s.from, row |-> s.row,
              field |-> s.field, started |-> s.started, quoted |-> s.quoted, skip |-> s.skip]
      /\ u = [records |-> u.records, starts |-> u.starts, from |-> u.from, row |-> u.row,
              field |-> u.field, started |-> u.started, quoted |-> u.quoted, skip |-> u.skip]
  BY DEF Reader
<1> QED
  BY <1>1

SameFields(s, u) ==
    /\ s \in Reader /\ u \in Reader
    /\ s.records = u.records /\ s.starts = u.starts /\ s.from = u.from /\ s.row = u.row
    /\ s.field = u.field /\ s.started = u.started /\ s.quoted = u.quoted /\ s.skip = u.skip

LEMMA SameFieldsSame ==
    ASSUME NEW s, NEW u, SameFields(s, u)
    PROVE  s = u
  BY SameReader DEF SameFields

LEMMA FreshIsAt == Fresh = At(0, << >>, << >>)
<1> DEFINE a == At(0, << >>, << >>)
           f == Fresh
<1>1. << >> \in Seq(Seq(Text)) /\ << >> \in Seq(Nat) /\ 0 \in Nat
  OBVIOUS
<1>2. /\ a \in Reader /\ a.records = << >> /\ a.starts = << >> /\ a.from = 0
      /\ a.row = << >> /\ a.field = << >>
      /\ a.started = FALSE /\ a.quoted = FALSE /\ a.skip = FALSE
  BY <1>1, AtType
<1>3. /\ f \in Reader /\ f.records = << >> /\ f.starts = << >> /\ f.from = 0
      /\ f.row = << >> /\ f.field = << >>
      /\ f.started = FALSE /\ f.quoted = FALSE /\ f.skip = FALSE
  BY AtType
<1> HIDE DEF a, f
<1>4. a = f
  BY <1>2, <1>3, SameReader
<1> QED
  BY <1>4 DEF a, f

LEMMA MovedPushField ==
    ASSUME NEW s \in Reader, NEW p \in Nat, NEW recs \in Seq(Seq(Text)), NEW sts \in Seq(Nat)
    PROVE  PushField(Moved(s, p, recs, sts)) = Moved(PushField(s), p, recs, sts)
  BY DEF PushField, Moved, Reader

LEMMA PushRowIs ==
    ASSUME NEW s \in Reader, NEW next \in Nat
    PROVE  LET u == PushRow(s, next)
           IN  /\ u \in Reader /\ u.records = Append(s.records, s.row) /\ u.row = << >>
               /\ u.starts = Append(s.starts, s.from) /\ u.from = next /\ u.field = s.field
               /\ u.started = s.started /\ u.quoted = s.quoted /\ u.skip = s.skip
<1>1. /\ << >> \in Seq(Text) /\ Append(s.records, s.row) \in Seq(Seq(Text))
      /\ Append(s.starts, s.from) \in Seq(Nat)
  BY DEF Reader
<1> QED
  BY <1>1 DEF PushRow, Reader

LEMMA MovedPushRow ==
    ASSUME NEW s \in Reader, NEW p \in Nat, NEW recs \in Seq(Seq(Text)), NEW sts \in Seq(Nat),
           NEW next \in Nat
    PROVE  PushRow(Moved(s, p, recs, sts), p + next) = Moved(PushRow(s, next), p, recs, sts)
<1> DEFINE t == Moved(s, p, recs, sts)
           u == PushRow(s, next)
<1>1. /\ t \in Reader /\ t.records = recs \o s.records /\ t.starts = sts \o Shift(s.starts, p)
      /\ t.from = s.from + p /\ t.row = s.row /\ t.field = s.field /\ t.started = s.started
      /\ t.quoted = s.quoted /\ t.skip = s.skip
  BY MovedType
<1>2. /\ s.records \in Seq(Seq(Text)) /\ s.row \in Seq(Text) /\ s.starts \in Seq(Nat) /\ s.from \in Nat
  BY DEF Reader
<1>3. Append(recs \o s.records, s.row) = recs \o Append(s.records, s.row)
  <2>1. AppendsLast(recs, s.records, s.row)
    BY <1>2, AppendToConcat
  <2> QED
    BY <2>1 DEF AppendsLast
<1>4. Append(sts \o Shift(s.starts, p), s.from + p) = sts \o Shift(Append(s.starts, s.from), p)
  <2> DEFINE a == Shift(s.starts, p)
             b == Shift(Append(s.starts, s.from), p)
  <2>1. a \in Seq(Nat) /\ s.from + p \in Nat
    BY <1>2, ShiftType
  <2>2. b = Append(a, s.from + p)
    BY <1>2, ShiftAppend
  <2> HIDE DEF a, b
  <2>3. Append(sts \o a, s.from + p) = sts \o Append(a, s.from + p)
    <3>1. AppendsLast(sts, a, s.from + p)
      BY <2>1, AppendToConcat
    <3> QED
      BY <3>1 DEF AppendsLast
  <2>4. Append(sts \o a, s.from + p) = sts \o b
    BY <2>2, <2>3
  <2> QED
    BY <2>4 DEF a, b
<1>5. /\ u \in Reader /\ u.records = Append(s.records, s.row) /\ u.row = << >>
      /\ u.starts = Append(s.starts, s.from) /\ u.from = next /\ u.field = s.field
      /\ u.started = s.started /\ u.quoted = s.quoted /\ u.skip = s.skip
  BY PushRowIs
<1> DEFINE m == Moved(u, p, recs, sts)
           v == PushRow(t, p + next)
<1>6. /\ m \in Reader /\ m.records = recs \o u.records /\ m.starts = sts \o Shift(u.starts, p)
      /\ m.from = u.from + p /\ m.row = u.row /\ m.field = u.field /\ m.started = u.started
      /\ m.quoted = u.quoted /\ m.skip = u.skip
  <2>1. u \in Reader
    BY <1>5
  <2> HIDE DEF u
  <2>2. IsMoved(m, u, p, recs, sts)
    BY <2>1, MovedIs
  <2> HIDE DEF m
  <2> QED
    BY <2>2 DEF IsMoved
<1>7. /\ v \in Reader /\ v.records = Append(t.records, t.row) /\ v.row = << >>
      /\ v.starts = Append(t.starts, t.from) /\ v.from = p + next /\ v.field = t.field
      /\ v.started = t.started /\ v.quoted = t.quoted /\ v.skip = t.skip
  <2>1. p + next \in Nat /\ t \in Reader
    BY <1>1
  <2> HIDE DEF t
  <2> QED
    BY <2>1, PushRowIs
<1> HIDE DEF t, u, m, v
<1>8. v = m
  <2>1. v.records = m.records
    BY <1>1, <1>3, <1>5, <1>6, <1>7
  <2>2. v.starts = m.starts
    BY <1>1, <1>4, <1>5, <1>6, <1>7
  <2>3. v.from = m.from
    BY <1>5, <1>6, <1>7
  <2>4. v.row = m.row /\ v.field = m.field /\ v.started = m.started /\ v.quoted = m.quoted /\ v.skip = m.skip
    BY <1>1, <1>5, <1>6, <1>7
  <2> QED
    BY <1>6, <1>7, <2>1, <2>2, <2>3, <2>4, SameReader
<1> QED
  BY <1>8 DEF t, u, m, v

LEMMA MovedFinishRow ==
    ASSUME NEW s \in Reader, NEW p \in Nat, NEW recs \in Seq(Seq(Text)), NEW sts \in Seq(Nat),
           NEW next \in Nat
    PROVE  FinishRow(Moved(s, p, recs, sts), p + next) = Moved(FinishRow(s, next), p, recs, sts)
<1> DEFINE m == Moved(s, p, recs, sts)
           ends(t) == t.field # << >> \/ t.started \/ t.row # << >>
<1>1. m.field = s.field /\ m.started = s.started /\ m.row = s.row
  BY MovedType
<1>2. /\ FinishRow(m, p + next) = IF ends(m) THEN PushRow(PushField(m), p + next) ELSE PushRow(m, p + next)
      /\ FinishRow(s, next) = IF ends(s) THEN PushRow(PushField(s), next) ELSE PushRow(s, next)
  BY DEF FinishRow
<1>3. ends(m) <=> ends(s)
  BY <1>1
<1>4. PushRow(m, p + next) = Moved(PushRow(s, next), p, recs, sts)
  BY MovedPushRow
<1>5. PushRow(PushField(m), p + next) = Moved(PushRow(PushField(s), next), p, recs, sts)
  <2>1. PushField(s) \in Reader
    BY FinishRowType
  <2>2. PushField(m) = Moved(PushField(s), p, recs, sts)
    BY MovedPushField
  <2>3. PushRow(Moved(PushField(s), p, recs, sts), p + next)
            = Moved(PushRow(PushField(s), next), p, recs, sts)
    BY <2>1, MovedPushRow
  <2> QED
    BY <2>2, <2>3
<1> HIDE DEF m, ends
<1>6. FinishRow(m, p + next) = Moved(FinishRow(s, next), p, recs, sts)
  BY <1>2, <1>3, <1>4, <1>5
<1> QED
  BY <1>6 DEF m

\* The other things a character does to the reader.
FlagsMove(s, p, recs, sts, c, b) ==
    LET m == Moved(s, p, recs, sts)
    IN  /\ AddChar(m, c) = Moved(AddChar(s, c), p, recs, sts)
        /\ [m EXCEPT !.skip = b] = Moved([s EXCEPT !.skip = b], p, recs, sts)
        /\ [m EXCEPT !.quoted = b] = Moved([s EXCEPT !.quoted = b], p, recs, sts)
        /\ [m EXCEPT !.quoted = TRUE, !.started = TRUE]
               = Moved([s EXCEPT !.quoted = TRUE, !.started = TRUE], p, recs, sts)
        /\ [AddChar(m, c) EXCEPT !.skip = b] = Moved([AddChar(s, c) EXCEPT !.skip = b], p, recs, sts)

LEMMA MovedFlags ==
    ASSUME NEW s \in Reader, NEW p \in Nat, NEW recs \in Seq(Seq(Text)), NEW sts \in Seq(Nat),
           NEW c, NEW b
    PROVE  FlagsMove(s, p, recs, sts, c, b)
<1>1. s = [records |-> s.records, starts |-> s.starts, from |-> s.from, row |-> s.row,
           field |-> s.field, started |-> s.started, quoted |-> s.quoted, skip |-> s.skip]
  BY DEF Reader
<1> QED
  BY <1>1 DEF FlagsMove, Moved, AddChar

LEMMA MovedReadChar ==
    ASSUME NEW text \in Text, NEW piece \in Text, NEW p \in Nat, Within(text, p, piece),
           NEW j \in 1 .. Len(piece), NEW s \in Reader,
           NEW recs \in Seq(Seq(Text)), NEW sts \in Seq(Nat)
    PROVE  ReadChar(text, Moved(s, p, recs, sts), p + j) = Moved(ReadChar(piece, s, j), p, recs, sts)
<1> DEFINE m == Moved(s, p, recs, sts)
           M(t) == Moved(t, p, recs, sts)
           c == piece[j]
           next1 == IF j < Len(piece) THEN piece[j + 1] ELSE EndOfText
           next2 == IF p + j < Len(text) THEN text[p + j + 1] ELSE EndOfText
           ends == {Delimiter, CR, LF, EndOfText}
<1>1. Len(piece) \in Nat /\ Len(text) \in Nat /\ j \in Nat /\ j + 1 \in Nat
  BY DEF Text
<1>2. text[p + j] = c
  BY DEF Within
<1>3. c = LF \/ next1 = next2
  <2>1. CASE j < Len(piece)
    <3>1. j + 1 \in 1 .. Len(piece)
      BY <1>1, <2>1
    <3>2. text[p + (j + 1)] = piece[j + 1] /\ p + Len(piece) <= Len(text)
      BY <3>1 DEF Within
    <3>3. p + (j + 1) = p + j + 1 /\ p + j < Len(text)
      BY <1>1, <2>1, <3>2
    <3> QED
      BY <2>1, <3>2, <3>3
  <2>2. CASE j = Len(piece)
    <3>1. CASE p + Len(piece) = Len(text)
      BY <1>1, <2>2, <3>1
    <3>2. CASE Last(piece) = LF
      BY <2>2, <3>2 DEF Last
    <3> QED
      BY <3>1, <3>2 DEF Within
  <2> QED
    BY <1>1, <2>1, <2>2
<1>4. /\ m.skip = s.skip /\ m.quoted = s.quoted /\ m.field = s.field
  BY MovedType
<1>5. ReadChar(text, m, p + j) =
          IF m.skip THEN [m EXCEPT !.skip = FALSE]
          ELSE IF m.quoted
          THEN CASE c = Quote /\ next2 = Quote   -> [AddChar(m, c) EXCEPT !.skip = TRUE]
                 [] c = Quote /\ next2 \in ends  -> [m EXCEPT !.quoted = FALSE]
                 [] OTHER                        -> AddChar(m, c)
          ELSE CASE c = Delimiter -> PushField(m)
                 [] c = LF        -> FinishRow(m, p + j)
                 [] c = CR        -> IF next2 = LF THEN [FinishRow(m, p + j + 1) EXCEPT !.skip = TRUE]
                                     ELSE FinishRow(m, p + j)
                 [] c = Quote /\ m.field = << >> -> [m EXCEPT !.quoted = TRUE, !.started = TRUE]
                 [] OTHER         -> AddChar(m, c)
  BY <1>2 DEF ReadChar
<1>6. ReadChar(piece, s, j) =
          IF s.skip THEN [s EXCEPT !.skip = FALSE]
          ELSE IF s.quoted
          THEN CASE c = Quote /\ next1 = Quote   -> [AddChar(s, c) EXCEPT !.skip = TRUE]
                 [] c = Quote /\ next1 \in ends  -> [s EXCEPT !.quoted = FALSE]
                 [] OTHER                        -> AddChar(s, c)
          ELSE CASE c = Delimiter -> PushField(s)
                 [] c = LF        -> FinishRow(s, j)
                 [] c = CR        -> IF next1 = LF THEN [FinishRow(s, j + 1) EXCEPT !.skip = TRUE]
                                     ELSE FinishRow(s, j)
                 [] c = Quote /\ s.field = << >> -> [s EXCEPT !.quoted = TRUE, !.started = TRUE]
                 [] OTHER         -> AddChar(s, c)
  BY DEF ReadChar
<1>7. /\ AddChar(m, c) = M(AddChar(s, c))
      /\ [m EXCEPT !.skip = FALSE] = M([s EXCEPT !.skip = FALSE])
      /\ [m EXCEPT !.quoted = FALSE] = M([s EXCEPT !.quoted = FALSE])
      /\ [m EXCEPT !.quoted = TRUE, !.started = TRUE] = M([s EXCEPT !.quoted = TRUE, !.started = TRUE])
      /\ [AddChar(m, c) EXCEPT !.skip = TRUE] = M([AddChar(s, c) EXCEPT !.skip = TRUE])
  <2>1. FlagsMove(s, p, recs, sts, c, FALSE) /\ FlagsMove(s, p, recs, sts, c, TRUE)
    BY MovedFlags
  <2> HIDE DEF c
  <2> QED
    BY <2>1 DEF FlagsMove
<1>8. PushField(m) = M(PushField(s))
  BY MovedPushField
<1>9. FinishRow(m, p + j) = M(FinishRow(s, j))
  BY <1>1, MovedFinishRow
<1>10. [FinishRow(m, p + j + 1) EXCEPT !.skip = TRUE] = M([FinishRow(s, j + 1) EXCEPT !.skip = TRUE])
  <2> DEFINE i == j + 1
             f == FinishRow(s, i)
  <2>1. i \in Nat /\ p + j + 1 = p + i
    BY <1>1
  <2> HIDE DEF i
  <2>2. f \in Reader /\ FinishRow(m, p + i) = M(f)
    BY <2>1, FinishRowType, MovedFinishRow
  <2> HIDE DEF f
  <2>3. FlagsMove(f, p, recs, sts, c, TRUE)
    BY <2>2, MovedFlags
  <2>4. [M(f) EXCEPT !.skip = TRUE] = M([f EXCEPT !.skip = TRUE])
    BY <2>3 DEF FlagsMove
  <2>5. [FinishRow(m, p + i) EXCEPT !.skip = TRUE] = M([f EXCEPT !.skip = TRUE])
    BY <2>2, <2>4
  <2> QED
    BY <2>1, <2>5 DEF f, i
<1>11. Delimiter # Quote /\ LF # Quote /\ CR # LF
  BY CsvTextAssumption DEF Quote, LF, CR
<1> HIDE DEF m, M, next1, next2, c
<1>12. ReadChar(text, m, p + j) = M(ReadChar(piece, s, j))
  BY <1>3, <1>4, <1>5, <1>6, <1>7, <1>8, <1>9, <1>10, <1>11
<1> QED
  BY <1>12 DEF m, M

ReadsAs(text, p, piece, recs, sts) ==
    \A j \in 0 .. Len(piece) :
        /\ ReadUpTo(text, p + j) = Moved(ReadUpTo(piece, j), p, recs, sts)
        /\ StateAfter(text, p + j) = StateAfter(piece, j)

\* Read on from the start of a record, the piece is read as if it were alone.
LEMMA ReadsAlike ==
    ASSUME NEW text \in Text, NEW piece \in Text, NEW p \in Nat, Within(text, p, piece),
           NEW recs \in Seq(Seq(Text)), NEW sts \in Seq(Nat),
           ReadUpTo(text, p) = At(p, recs, sts), StateAfter(text, p) = "start"
    PROVE  ReadsAs(text, p, piece, recs, sts)
<1> DEFINE n == Len(piece)
           T == {j \in 0 .. n : /\ ReadUpTo(text, p + j) = Moved(ReadUpTo(piece, j), p, recs, sts)
                                /\ StateAfter(text, p + j) = StateAfter(piece, j)}
<1>1. n \in Nat /\ Len(text) \in Nat /\ p + n <= Len(text)
  BY DEF Text, Within
<1>2. 0 \in T
  <2>1. ReadUpTo(piece, 0) = Fresh /\ StateAfter(piece, 0) = "start"
    BY ReadTurns, StateTurns
  <2>2. Moved(Fresh, p, recs, sts) = At(p, recs, sts)
    <3>1. Shift(<< >>, p) = << >> /\ recs \o << >> = recs /\ sts \o << >> = sts
      BY ConcatEmptySeq DEF Shift
    <3> DEFINE a == At(p, recs, sts)
               f == Fresh
               m == Moved(f, p, recs, sts)
    <3>2. /\ f.records = << >> /\ f.starts = << >> /\ f.from = 0 /\ f \in Reader
          /\ f.row = << >> /\ f.field = << >>
          /\ f.started = FALSE /\ f.quoted = FALSE /\ f.skip = FALSE
      BY AtType
    <3>3. /\ a \in Reader /\ a.records = recs /\ a.starts = sts /\ a.from = p
          /\ a.row = << >> /\ a.field = << >>
          /\ a.started = FALSE /\ a.quoted = FALSE /\ a.skip = FALSE
      BY AtType
    <3> HIDE DEF f
    <3>4. /\ m \in Reader /\ m.records = recs \o f.records /\ m.starts = sts \o Shift(f.starts, p)
          /\ m.from = f.from + p /\ m.row = f.row /\ m.field = f.field /\ m.started = f.started
          /\ m.quoted = f.quoted /\ m.skip = f.skip
      BY <3>2, MovedType
    <3> HIDE DEF a, m
    <3>5. m.records = a.records /\ m.starts = a.starts
      BY <3>1, <3>2, <3>3, <3>4, Zenon
    <3>6. m.from = a.from
      BY <3>2, <3>3, <3>4
    <3>7. m = a
      BY <3>2, <3>3, <3>4, <3>5, <3>6, SameReader
    <3> QED
      BY <3>7 DEF a, f, m
  <2>3. p + 0 = p
    OBVIOUS
  <2> QED
    BY <1>1, <2>1, <2>2, <2>3
<1>3. ASSUME NEW j \in 1 .. n, j - 1 \in T
      PROVE  j \in T
  <2>1. j \in 0 .. n /\ j - 1 \in 0 .. n /\ p + j \in 1 .. Len(text) /\ p + (j - 1) = (p + j) - 1
    BY <1>1
  <2>2. /\ ReadUpTo(text, p + (j - 1)) = Moved(ReadUpTo(piece, j - 1), p, recs, sts)
        /\ StateAfter(text, p + (j - 1)) = StateAfter(piece, j - 1)
    BY <1>3
  <2>3. /\ ReadUpTo(text, p + j) = ReadChar(text, Moved(ReadUpTo(piece, j - 1), p, recs, sts), p + j)
        /\ StateAfter(text, p + j) = FieldChar(StateAfter(piece, j - 1), text[p + j])
    BY <2>1, <2>2, ReadTurns, StateTurns
  <2>4. /\ ReadUpTo(piece, j) = ReadChar(piece, ReadUpTo(piece, j - 1), j)
        /\ StateAfter(piece, j) = FieldChar(StateAfter(piece, j - 1), piece[j])
        /\ ReadUpTo(piece, j - 1) \in Reader
    BY <2>1, ReadTurns, StateTurns
  <2>5. text[p + j] = piece[j]
    BY DEF Within
  <2>6. ReadChar(text, Moved(ReadUpTo(piece, j - 1), p, recs, sts), p + j)
            = Moved(ReadChar(piece, ReadUpTo(piece, j - 1), j), p, recs, sts)
    BY <2>4, MovedReadChar
  <2> QED
    BY <2>1, <2>3, <2>4, <2>5, <2>6
<1> HIDE DEF T, n
<1>4. 0 .. n \subseteq T
  BY <1>1, <1>2, <1>3, UpToInduction
<1> QED
  BY <1>4 DEF T, n, ReadsAs
-------------------------------------------------------------------------------
(* Where the records of a well-formed text begin. *)

LEMMA FinishRowIs ==
    ASSUME NEW s \in Reader, NEW next \in Nat, ~s.quoted, ~s.skip
    PROVE  \E row \in Seq(Text) :
               FinishRow(s, next) = At(next, Append(s.records, row), Append(s.starts, s.from))
<1> DEFINE ends == s.field # << >> \/ s.started \/ s.row # << >>
           t == IF ends THEN PushField(s) ELSE s
           f == PushRow(t, next)
           row == t.row
           a == At(next, Append(s.records, row), Append(s.starts, s.from))
<1>1. FinishRow(s, next) = f
  BY DEF FinishRow
<1>2. t \in Reader /\ t.records = s.records /\ t.starts = s.starts /\ t.from = s.from
      /\ t.field = << >> /\ t.started = FALSE /\ t.quoted = FALSE /\ t.skip = FALSE
  <2>1. PushField(s) \in Reader
    BY FinishRowType, 0 \in Nat
  <2>2. /\ PushField(s).records = s.records /\ PushField(s).starts = s.starts
        /\ PushField(s).from = s.from /\ PushField(s).field = << >>
        /\ PushField(s).started = FALSE /\ PushField(s).quoted = s.quoted /\ PushField(s).skip = s.skip
    BY DEF PushField, Reader
  <2>3. s.started \in BOOLEAN /\ s.quoted \in BOOLEAN /\ s.skip \in BOOLEAN
    BY DEF Reader
  <2> QED
    BY <2>1, <2>2, <2>3
<1> HIDE DEF t
<1>3. /\ f \in Reader /\ f.records = Append(t.records, t.row) /\ f.row = << >>
      /\ f.starts = Append(t.starts, t.from) /\ f.from = next /\ f.field = t.field
      /\ f.started = t.started /\ f.quoted = t.quoted /\ f.skip = t.skip
  BY <1>2, PushRowIs
<1>4. /\ row \in Seq(Text) /\ Append(s.records, row) \in Seq(Seq(Text))
      /\ Append(s.starts, s.from) \in Seq(Nat)
  BY <1>2 DEF Reader
<1>5. /\ a \in Reader /\ a.records = Append(s.records, row) /\ a.starts = Append(s.starts, s.from)
      /\ a.from = next /\ a.row = << >> /\ a.field = << >>
      /\ a.started = FALSE /\ a.quoted = FALSE /\ a.skip = FALSE
  <2> DEFINE x == Append(s.records, row)
             y == Append(s.starts, s.from)
  <2>1. x \in Seq(Seq(Text)) /\ y \in Seq(Nat)
    BY <1>4
  <2> HIDE DEF x, y
  <2>2. LET b == At(next, x, y)
        IN  /\ b \in Reader /\ b.records = x /\ b.starts = y /\ b.from = next
            /\ b.row = << >> /\ b.field = << >>
            /\ b.started = FALSE /\ b.quoted = FALSE /\ b.skip = FALSE
    BY <2>1, AtType
  <2> QED
    BY <2>2 DEF x, y
<1> HIDE DEF f, a
<1>6. f = a
  <2>1. SameFields(f, a)
    BY <1>2, <1>3, <1>5 DEF SameFields
  <2> QED
    BY <2>1, SameFieldsSame
<1> QED
  BY <1>1, <1>4, <1>6 DEF a

\* What a character does to the records read so far.
Stays(s, r) == r.records = s.records /\ r.starts = s.starts /\ r.from = s.from

Ends(s, r, next) ==
    \E row \in Seq(Text) : r = At(next, Append(s.records, row), Append(s.starts, s.from))

EndsAtCR(s, r, next) ==
    \E row \in Seq(Text) :
        r = [At(next, Append(s.records, row), Append(s.starts, s.from)) EXCEPT !.skip = TRUE]

LEMMA RecordEnds ==
    ASSUME NEW text \in Text, NEW i \in 1 .. Len(text), NEW s \in Reader, NEW k \in Scanner,
           NEW w \in States, Match(text, i - 1, s, k, w),
           NEW v \in States, v = FieldChar(w, text[i]),
           w # "bad", v # "bad",
           v = "cr" => i < Len(text) /\ text[i + 1] = LF,
           i < Len(text) => FieldChar(v, text[i + 1]) # "bad",
           NEW r, r = ReadChar(text, s, i)
    PROVE  \/ w # "cr" /\ v # "cr" /\ Stays(s, r)
           \/ w # "cr" /\ v = "start" /\ text[i] = LF /\ s.from < i /\ Ends(s, r, i)
           \/ w # "cr" /\ v = "cr" /\ s.from < i /\ EndsAtCR(s, r, i + 1)
           \/ w = "cr" /\ v = "start" /\ text[i] = LF /\ r = [s EXCEPT !.skip = FALSE]
<1> DEFINE c == text[i]
           next == IF i < Len(text) THEN text[i + 1] ELSE EndOfText
<1>1. Len(text) \in Nat /\ i \in Nat /\ i - 1 \in Nat /\ i <= Len(text) /\ i + 1 \in Nat
  BY DEF Text
<1>2. /\ s.skip => r = [s EXCEPT !.skip = FALSE]
      /\ ~s.skip /\ s.quoted /\ c = Quote /\ next = Quote =>
            r = [AddChar(s, c) EXCEPT !.skip = TRUE]
      /\ ~s.skip /\ s.quoted /\ c = Quote /\ next \in {Delimiter, CR, LF, EndOfText} =>
            r = [s EXCEPT !.quoted = FALSE]
      /\ ~s.skip /\ s.quoted /\ c # Quote => r = AddChar(s, c)
      /\ ~s.skip /\ ~s.quoted /\ c = Delimiter => r = PushField(s)
      /\ ~s.skip /\ ~s.quoted /\ c = LF => r = FinishRow(s, i)
      /\ ~s.skip /\ ~s.quoted /\ c = CR /\ next = LF => r = [FinishRow(s, i + 1) EXCEPT !.skip = TRUE]
      /\ ~s.skip /\ ~s.quoted /\ c = Quote /\ s.field = << >> =>
            r = [s EXCEPT !.quoted = TRUE, !.started = TRUE]
      /\ ~s.skip /\ ~s.quoted /\ c \notin {Delimiter, Quote, CR, LF} => r = AddChar(s, c)
  <2>1. Reads(text, s, i, r)
    BY <1>1, ReadCharIs
  <2> QED
    BY <2>1 DEF Reads
<1>3. s.quoted \in BOOLEAN /\ s.skip \in BOOLEAN /\ s.from \in Nat
  BY DEF Reader
<1>4. Delimiter # Quote /\ Delimiter # CR /\ Delimiter # LF /\ Quote # CR /\ Quote # LF /\ CR # LF
  BY CsvTextAssumption DEF Quote, CR, LF
<1>5. /\ Stays(s, [s EXCEPT !.skip = FALSE]) /\ Stays(s, AddChar(s, c)) /\ Stays(s, PushField(s))
      /\ Stays(s, [AddChar(s, c) EXCEPT !.skip = TRUE]) /\ Stays(s, [s EXCEPT !.quoted = FALSE])
      /\ Stays(s, [s EXCEPT !.quoted = TRUE, !.started = TRUE])
  BY DEF Stays, AddChar, PushField, Reader
<1>6. ~s.quoted /\ ~s.skip => Ends(s, FinishRow(s, i), i)
  BY <1>1, FinishRowIs DEF Ends
<1>7. ~s.quoted /\ ~s.skip => EndsAtCR(s, [FinishRow(s, i + 1) EXCEPT !.skip = TRUE], i + 1)
  BY <1>1, FinishRowIs DEF EndsAtCR
<1> HIDE DEF c, next
<1>8. CASE w = "quoted"
  <2>1. s.quoted /\ ~s.skip
    BY <1>3, <1>8 DEF Match
  <2>2. v = IF c = Quote THEN "closed" ELSE "quoted"
    BY <1>8, FieldCharIs DEF c
  <2>3. c = Quote => next = Quote \/ next \in {Delimiter, CR, LF, EndOfText}
    <3>1. i < Len(text) /\ c = Quote => text[i + 1] \in {Quote, Delimiter, CR, LF}
      BY <2>2, FieldCharIs
    <3> QED
      BY <3>1 DEF next
  <2> QED
    BY <1>2, <1>5, <1>8, <2>1, <2>2, <2>3
<1>9. CASE w = "cr"
  <2>1. c = LF /\ v = "start"
    BY <1>9, FieldCharIs DEF c
  <2>2. s.skip
    BY <1>9 DEF Match
  <2> QED
    BY <1>2, <1>9, <2>1, <2>2 DEF c
<1>10. CASE w \in {"start", "plain", "closed"}
  <2>0. /\ c \in {Delimiter, LF} => v = "start"
        /\ c = CR => v = "cr"
        /\ c = Quote => w # "plain" /\ v = "quoted"
        /\ c \notin {Delimiter, LF, CR, Quote} => w # "closed" /\ v = "plain"
    BY <1>4, <1>10, FieldCharIs DEF c
  <2>1. CASE s.skip
    <3>1. w = "closed" /\ text[i] = Quote
      BY <1>1, <1>10, <2>1 DEF Match
    <3>2. v = "quoted"
      BY <1>4, <2>0, <3>1 DEF c
    <3> QED
      BY <1>2, <1>5, <2>1, <3>1, <3>2
  <2>2. CASE ~s.skip
    <3>1. ~s.quoted /\ s.from <= i - 1
      BY <1>1, <1>3, <1>10, <2>2 DEF Match
    <3>2. s.from < i
      BY <1>1, <1>3, <3>1
    <3>3. CASE c = Delimiter
      BY <1>2, <1>4, <1>5, <1>10, <2>0, <2>2, <3>1, <3>3
    <3>4. CASE c = LF
      BY <1>2, <1>6, <1>10, <2>0, <2>2, <3>1, <3>2, <3>4 DEF c
    <3>5. CASE c = CR
      <4>1. v = "cr" /\ next = LF
        BY <2>0, <3>5 DEF next
      <4> QED
        BY <1>2, <1>7, <1>10, <2>2, <3>1, <3>2, <3>5, <4>1
    <3>6. CASE c = Quote
      <4>1. w = "start" /\ v = "quoted"
        BY <1>1, <1>10, <2>0, <2>2, <3>6 DEF Match, c
      <4>2. s.field = << >>
        BY <4>1 DEF Match
      <4> QED
        BY <1>2, <1>5, <2>2, <3>1, <3>6, <4>1, <4>2
    <3>7. CASE c \notin {Delimiter, LF, CR, Quote}
      BY <1>2, <1>5, <1>10, <2>0, <2>2, <3>1, <3>7
    <3> QED
      BY <3>3, <3>4, <3>5, <3>6, <3>7
  <2> QED
    BY <1>3, <2>1, <2>2
<1> QED
  BY <1>8, <1>9, <1>10 DEF States

\* A record begins at offset q, after the records recs that begin at sts.
Begins(text, q, recs, sts) ==
    /\ q \in 0 .. Len(text)
    /\ ReadUpTo(text, q) = At(q, recs, sts)
    /\ StateAfter(text, q) = "start"
    /\ q = 0 \/ text[q] = LF

\* Every start was the reader's position once, with the records before it.
Known(text, recs, sts) ==
    /\ Len(recs) = Len(sts)
    /\ \A j \in 1 .. Len(sts) : Begins(text, sts[j], SubSeq(recs, 1, j - 1), SubSeq(sts, 1, j - 1))
    /\ \A j \in 1 .. Len(sts) - 1 : sts[j] < sts[j + 1]

LEMMA SubSeqAppend ==
    ASSUME NEW S, NEW a \in Seq(S), NEW e \in S, NEW j \in 0 .. Len(a)
    PROVE  SubSeq(Append(a, e), 1, j) = SubSeq(a, 1, j)
<1>1. /\ Append(a, e) \in Seq(S) /\ Len(Append(a, e)) = Len(a) + 1
      /\ \A i \in 1 .. Len(a) : Append(a, e)[i] = a[i]
  OBVIOUS
<1> DEFINE b == Append(a, e)
<1> HIDE DEF b
<1>2. /\ SubSeq(a, 1, j) \in Seq(S) /\ Len(SubSeq(a, 1, j)) = j
      /\ \A i \in 1 .. j : SubSeq(a, 1, j)[i] = a[i]
  BY SubSeqProperties
<1>3. /\ SubSeq(b, 1, j) \in Seq(S) /\ Len(SubSeq(b, 1, j)) = j
      /\ \A i \in 1 .. j : SubSeq(b, 1, j)[i] = b[i]
  <2>1. b \in Seq(S) /\ j \in 0 .. Len(b)
    BY <1>1 DEF b
  <2> QED
    BY <2>1, SubSeqProperties
<1>4. SubSeq(b, 1, j) = SubSeq(a, 1, j)
  BY <1>1, <1>2, <1>3, SeqEqual DEF b
<1> QED
  BY <1>4 DEF b

LEMMA KnownOneMore ==
    ASSUME NEW text \in Text, NEW recs \in Seq(Seq(Text)), NEW sts \in Seq(Nat), Known(text, recs, sts),
           NEW q \in Nat, Begins(text, q, recs, sts), sts # << >> => sts[Len(sts)] < q,
           NEW row \in Seq(Text)
    PROVE  Known(text, Append(recs, row), Append(sts, q))
<1> DEFINE recs2 == Append(recs, row)
           sts2 == Append(sts, q)
           m == Len(sts)
<1>1. /\ m \in Nat /\ Len(recs) = m /\ Len(recs2) = m + 1 /\ Len(sts2) = m + 1
      /\ \A j \in 1 .. m : sts2[j] = sts[j] 
      /\ sts2[m + 1] = q
      /\ recs2 \in Seq(Seq(Text)) /\ sts2 \in Seq(Nat)
  BY DEF Known
<1>2. ASSUME NEW j \in 1 .. m + 1
      PROVE  SubSeq(recs2, 1, j - 1) = SubSeq(recs, 1, j - 1) /\ SubSeq(sts2, 1, j - 1) = SubSeq(sts, 1, j - 1)
  BY <1>1, SubSeqAppend
<1>3. SubSeq(recs, 1, m) = recs /\ SubSeq(sts, 1, m) = sts
  BY <1>1, SubSeqFull
<1> HIDE DEF recs2, sts2, m
<1>4. ASSUME NEW j \in 1 .. m + 1
      PROVE  Begins(text, sts2[j], SubSeq(recs2, 1, j - 1), SubSeq(sts2, 1, j - 1))
  <2>1. CASE j = m + 1
    <3>1. j - 1 = m
      BY <1>1, <2>1
    <3> QED
      BY <1>1, <1>2, <1>3, <2>1, <3>1
  <2>2. CASE j # m + 1
    <3>1. j \in 1 .. m
      BY <1>1, <2>2
    <3>2. Begins(text, sts[j], SubSeq(recs, 1, j - 1), SubSeq(sts, 1, j - 1))
      BY <3>1 DEF Known, m
    <3> QED
      BY <1>1, <1>2, <3>1, <3>2
  <2> QED
    BY <2>1, <2>2
<1>5. ASSUME NEW j \in 1 .. m
      PROVE  sts2[j] < sts2[j + 1]
  <2>1. CASE j = m
    <3>1. sts # << >> /\ sts[m] < q
      BY <1>1, <2>1 DEF m
    <3> QED
      BY <1>1, <2>1, <3>1
  <2>2. CASE j # m
    <3>1. j \in 1 .. m - 1 /\ j + 1 \in 1 .. m
      BY <1>1, <2>2
    <3>2. sts[j] < sts[j + 1]
      BY <3>1 DEF Known, m
    <3> QED
      BY <1>1, <3>1, <3>2
  <2> QED
    BY <2>1, <2>2
<1>6. Known(text, recs2, sts2)
  BY <1>1, <1>4, <1>5 DEF Known
<1> QED
  BY <1>6 DEF recs2, sts2

\* After i characters: the records so far are known, and the next begins at
\* s.from, which is still to come between a CR and its LF.
Boundary(text, i, s, w) ==
    /\ Known(text, s.records, s.starts)
    /\ w = "cr" => s = [At(i + 1, s.records, s.starts) EXCEPT !.skip = TRUE]
    /\ w # "cr" => Begins(text, s.from, s.records, s.starts)
    /\ s.starts # << >> => s.starts[Len(s.starts)] < s.from
    /\ w = "cr" => s.starts # << >>

LEMMA BoundaryStep ==
    ASSUME NEW text \in Text, NEW i \in 1 .. Len(text), NEW s \in Reader, NEW r \in Reader,
           NEW w \in States, NEW v \in States, Boundary(text, i - 1, s, w),
           ReadUpTo(text, i) = r, StateAfter(text, i) = v,
           \/ w # "cr" /\ v # "cr" /\ Stays(s, r)
           \/ w # "cr" /\ v = "start" /\ text[i] = LF /\ s.from < i /\ Ends(s, r, i)
           \/ w # "cr" /\ v = "cr" /\ s.from < i /\ EndsAtCR(s, r, i + 1)
           \/ w = "cr" /\ v = "start" /\ text[i] = LF /\ r = [s EXCEPT !.skip = FALSE]
    PROVE  Boundary(text, i, r, v)
<1>1. i \in 0 .. Len(text) /\ i \in Nat /\ i + 1 \in Nat /\ Len(text) \in Nat /\ (i - 1) + 1 = i
  BY DEF Text
<1>2. s.records \in Seq(Seq(Text)) /\ s.starts \in Seq(Nat) /\ s.from \in Nat
  BY DEF Reader
<1>3. CASE w # "cr" /\ v # "cr" /\ Stays(s, r)
  BY <1>3 DEF Boundary, Stays
<1>4. ASSUME NEW row \in Seq(Text), w # "cr", s.from < i
      PROVE  LET recs == Append(s.records, row)
                 sts == Append(s.starts, s.from)
             IN  /\ recs \in Seq(Seq(Text)) /\ sts \in Seq(Nat) /\ Known(text, recs, sts)
                 /\ sts # << >> /\ sts[Len(sts)] = s.from
  <2>1. Known(text, Append(s.records, row), Append(s.starts, s.from))
    BY <1>2, <1>4, KnownOneMore DEF Boundary
  <2>2. /\ Append(s.records, row) \in Seq(Seq(Text)) /\ Append(s.starts, s.from) \in Seq(Nat)
        /\ Append(s.starts, s.from) # << >> /\ Len(Append(s.starts, s.from)) = Len(s.starts) + 1
        /\ Append(s.starts, s.from)[Len(s.starts) + 1] = s.from
    <3>1. /\ Append(s.records, row) \in Seq(Seq(Text)) /\ Append(s.starts, s.from) \in Seq(Nat)
      BY <1>2
    <3> DEFINE b == s.starts
               e == s.from
    <3>2. b \in Seq(Nat) /\ e \in Nat
      BY <1>2
    <3> HIDE DEF b, e
    <3>3. /\ Append(b, e) # << >> /\ Len(Append(b, e)) = Len(b) + 1
          /\ Append(b, e)[Len(b) + 1] = e
      BY <3>2, LastAppended
    <3> QED
      BY <3>1, <3>3 DEF b, e
  <2> QED
    BY <2>1, <2>2
<1>5. CASE w # "cr" /\ v = "start" /\ text[i] = LF /\ s.from < i /\ Ends(s, r, i)
  <2>1. PICK row \in Seq(Text) : r = At(i, Append(s.records, row), Append(s.starts, s.from))
    BY <1>5 DEF Ends
  <2> DEFINE recs == Append(s.records, row)
             sts == Append(s.starts, s.from)
  <2>2. /\ recs \in Seq(Seq(Text)) /\ sts \in Seq(Nat) /\ Known(text, recs, sts)
        /\ sts # << >> /\ sts[Len(sts)] = s.from /\ r = At(i, recs, sts)
    BY <1>4, <1>5, <2>1
  <2> HIDE DEF recs, sts
  <2>3. r.records = recs /\ r.starts = sts /\ r.from = i
    BY <1>1, <2>2, AtType
  <2>4. Begins(text, i, recs, sts)
    BY <1>1, <1>5, <2>2 DEF Begins
  <2> QED
    BY <1>5, <2>2, <2>3, <2>4 DEF Boundary
<1>6. CASE w # "cr" /\ v = "cr" /\ s.from < i /\ EndsAtCR(s, r, i + 1)
  <2>1. PICK row \in Seq(Text) :
            r = [At(i + 1, Append(s.records, row), Append(s.starts, s.from)) EXCEPT !.skip = TRUE]
    BY <1>6 DEF EndsAtCR
  <2> DEFINE recs == Append(s.records, row)
             sts == Append(s.starts, s.from)
             a == At(i + 1, recs, sts)
  <2>2. /\ recs \in Seq(Seq(Text)) /\ sts \in Seq(Nat) /\ Known(text, recs, sts)
        /\ sts # << >> /\ sts[Len(sts)] = s.from /\ r = [a EXCEPT !.skip = TRUE]
    BY <1>4, <1>6, <2>1
  <2> HIDE DEF recs, sts
  <2>3. a \in Reader /\ a.records = recs /\ a.starts = sts /\ a.from = i + 1
    BY <1>1, <2>2, AtType
  <2> HIDE DEF a
  <2>4. r.records = recs /\ r.starts = sts /\ r.from = i + 1
    BY <2>2, <2>3 DEF Reader
  <2>5. r.starts[Len(r.starts)] < r.from
    BY <1>1, <1>2, <1>6, <2>2, <2>4
  <2> QED
    BY <1>6, <2>2, <2>4, <2>5 DEF Boundary, a
<1>7. CASE w = "cr" /\ v = "start" /\ text[i] = LF /\ r = [s EXCEPT !.skip = FALSE]
  <2> DEFINE a == At(i, s.records, s.starts)
  <2>1. s = [a EXCEPT !.skip = TRUE]
    BY <1>1, <1>7 DEF Boundary
  <2>2. a \in Reader /\ a.records = s.records /\ a.starts = s.starts /\ a.from = i /\ a.skip = FALSE
    BY <1>1, <1>2, AtType
  <2> HIDE DEF a
  <2>3. r = a /\ s.from = a.from
    <3>1. /\ s.records = a.records /\ s.starts = a.starts /\ s.from = a.from /\ s.row = a.row
          /\ s.field = a.field /\ s.started = a.started /\ s.quoted = a.quoted
      BY <2>1, <2>2 DEF Reader
    <3>2. /\ r.records = s.records /\ r.starts = s.starts /\ r.from = s.from /\ r.row = s.row
          /\ r.field = s.field /\ r.started = s.started /\ r.quoted = s.quoted /\ r.skip = FALSE
      BY <1>7 DEF Reader
    <3>3. SameFields(r, a)
      BY <2>2, <3>1, <3>2 DEF SameFields
    <3>4. r = a
      BY <3>3, SameFieldsSame
    <3> QED
      BY <3>1, <3>4
  <2>4. r.records = s.records /\ r.starts = s.starts /\ r.from = i
    BY <2>2, <2>3
  <2>5. Begins(text, i, s.records, s.starts)
    BY <1>1, <1>7, <2>3 DEF Begins, a
  <2> QED
    BY <1>7, <2>2, <2>3, <2>4, <2>5 DEF Boundary
<1> QED
  BY <1>3, <1>5, <1>6, <1>7

LEMMA BoundaryAll ==
    ASSUME NEW text \in Text, WellFormed(text)
    PROVE  \A i \in 0 .. Len(text) : Boundary(text, i, ReadUpTo(text, i), StateAfter(text, i))
<1> DEFINE n == Len(text)
           T == {i \in 0 .. n : Boundary(text, i, ReadUpTo(text, i), StateAfter(text, i))}
<1>1. n \in Nat
  BY DEF Text
<1>2. 0 \in T
  <2>1. ReadUpTo(text, 0) = Fresh /\ StateAfter(text, 0) = "start"
    BY ReadTurns, StateTurns
  <2>2. Fresh = At(0, << >>, << >>)
    BY FreshIsAt
  <2>3. Begins(text, 0, << >>, << >>)
    BY <1>1, <2>1, <2>2 DEF Begins
  <2>4. Known(text, << >>, << >>)
    BY DEF Known
  <2>5. Boundary(text, 0, Fresh, "start")
    BY <2>3, <2>4, AtType DEF Boundary
  <2> QED
    BY <1>1, <2>1, <2>5
<1>3. ASSUME NEW i \in 1 .. n, i - 1 \in T
      PROVE  i \in T
  <2> DEFINE s == ReadUpTo(text, i - 1)
             k == ScanUpTo(text, i - 1)
             w == StateAfter(text, i - 1)
             r == ReadUpTo(text, i)
             v == StateAfter(text, i)
  <2>1. i \in 0 .. n /\ i - 1 \in 0 .. n
    BY <1>1
  <2>2. s \in Reader /\ r \in Reader /\ k \in Scanner /\ w \in States /\ v \in States
    BY <2>1, ReadTurns, ScanTurns, StateTurns
  <2>3. r = ReadChar(text, s, i) /\ v = FieldChar(w, text[i])
    BY ReadTurns, StateTurns
  <2>4. w # "bad" /\ v # "bad" /\ (v = "cr" => i < n /\ text[i + 1] = LF)
    BY <2>1, WellFormedAll
  <2>5. i < n => FieldChar(v, text[i + 1]) # "bad"
    <3> SUFFICES ASSUME i < n PROVE FieldChar(v, text[i + 1]) # "bad"
      OBVIOUS
    <3>1. i + 1 \in 1 .. n /\ i + 1 \in 0 .. n /\ (i + 1) - 1 = i
      BY <1>1
    <3>2. StateAfter(text, i + 1) = FieldChar(v, text[i + 1])
      BY <3>1, StateTurns
    <3> QED
      BY <3>1, <3>2, WellFormedAll
  <2>6. Match(text, i - 1, s, k, w)
    BY <2>1, MatchAll
  <2>7. Boundary(text, i - 1, s, w) /\ ReadUpTo(text, i) = r /\ StateAfter(text, i) = v
    BY <1>3
  <2> HIDE DEF s, k, w, r, v
  <2>8. \/ w # "cr" /\ v # "cr" /\ Stays(s, r)
        \/ w # "cr" /\ v = "start" /\ text[i] = LF /\ s.from < i /\ Ends(s, r, i)
        \/ w # "cr" /\ v = "cr" /\ s.from < i /\ EndsAtCR(s, r, i + 1)
        \/ w = "cr" /\ v = "start" /\ text[i] = LF /\ r = [s EXCEPT !.skip = FALSE]
    BY <2>2, <2>3, <2>4, <2>5, <2>6, RecordEnds
  <2>9. Boundary(text, i, r, v)
    BY <2>2, <2>7, <2>8, BoundaryStep
  <2> QED
    BY <2>1, <2>9 DEF r, v
<1> HIDE DEF T, n
<1>4. 0 .. n \subseteq T
  BY <1>1, <1>2, <1>3, UpToInduction
<1> QED
  BY <1>4 DEF T, n

LEMMA EndFeedIs ==
    ASSUME NEW text, NEW s \in Reader
    PROVE  LET e == EndFeed(text, s)
               pushes == \/ s.row # << >> \/ s.field # << >>
                         \/ text # << >> /\ Last(text) \in {Delimiter, Quote}
           IN  \/ ~pushes /\ e.records = s.records /\ e.starts = s.starts
               \/ pushes /\ \E row \in Seq(Text) : /\ e.records = Append(s.records, row)
                                                   /\ e.starts = Append(s.starts, s.from)
<1> DEFINE pushes == s.field # << >> \/ (text # << >> /\ Last(text) \in {Delimiter, Quote})
           t == IF pushes THEN PushField(s) ELSE s
           e == IF t.row # << >> THEN PushRow(t, Len(text)) ELSE t
<1>1. EndFeed(text, s) = e
  BY DEF EndFeed
<1>2. t.records = s.records /\ t.starts = s.starts /\ t.from = s.from /\ t \in Reader
  <2>1. PushField(s) \in Reader
    BY FinishRowType, 0 \in Nat
  <2>2. PushField(s).records = s.records /\ PushField(s).starts = s.starts /\ PushField(s).from = s.from
    BY DEF PushField, Reader
  <2> QED
    BY <2>1, <2>2
<1>3. t.row # << >> <=> pushes \/ s.row # << >>
  BY Pushes
<1> HIDE DEF t, pushes
<1>4. /\ PushRow(t, Len(text)).records = Append(t.records, t.row)
      /\ PushRow(t, Len(text)).starts = Append(t.starts, t.from)
  BY <1>2 DEF PushRow, Reader
<1>5. t.row \in Seq(Text)
  BY <1>2 DEF Reader
<1>6. \/ ~ (pushes \/ s.row # << >>) /\ e.records = s.records /\ e.starts = s.starts
      \/ /\ pushes \/ s.row # << >>
         /\ \E row \in Seq(Text) : e.records = Append(s.records, row) /\ e.starts = Append(s.starts, s.from)
  <2>1. CASE t.row # << >>
    BY <1>2, <1>3, <1>4, <1>5, <2>1
  <2>2. CASE t.row = << >>
    BY <1>2, <1>3, <2>2
  <2> QED
    BY <2>1, <2>2
<1> HIDE DEF e
<1> QED
  BY <1>1, <1>6 DEF pushes

LEMMA RecordsBegin ==
    ASSUME NEW text \in Text, WellFormed(text)
    PROVE  /\ Known(text, Read(text).records, Read(text).starts)
           /\ \A k \in 1 .. Len(Read(text).starts) : Read(text).starts[k] < Len(text)
<1> DEFINE n == Len(text)
           s == ReadUpTo(text, n)
           k == ScanUpTo(text, n)
           w == StateAfter(text, n)
           e == EndFeed(text, s)
           pushes == \/ s.row # << >> \/ s.field # << >>
                     \/ text # << >> /\ Last(text) \in {Delimiter, Quote}
<1>1. n \in Nat /\ n \in 0 .. n /\ w \in {"start", "plain", "closed"}
  BY DEF Text, WellFormed
<1>2. Match(text, n, s, k, w) /\ Boundary(text, n, s, w)
  BY <1>1, MatchAll, BoundaryAll
<1>3. s \in Reader
  BY <1>1, ReadTurns
<1>4. Read(text) = e
  BY DEF Read
<1>5. \/ ~pushes /\ e.records = s.records /\ e.starts = s.starts
      \/ pushes /\ \E row \in Seq(Text) : /\ e.records = Append(s.records, row)
                                          /\ e.starts = Append(s.starts, s.from)
  BY <1>3, EndFeedIs
<1>6. (text = << >> <=> n = 0) /\ (text # << >> => Last(text) = text[n])
  BY EmptySeq DEF Text, Last
<1>7. Delimiter # Quote /\ Delimiter # LF /\ Quote # LF
  BY CsvTextAssumption DEF Quote, LF
<1>8. s.from \in Nat /\ s.records \in Seq(Seq(Text)) /\ s.starts \in Seq(Nat)
  BY <1>3 DEF Reader
<1>9. Begins(text, s.from, s.records, s.starts)
  BY <1>1, <1>2 DEF Boundary
<1>10. pushes => s.from < n
  BY <1>1, <1>2, <1>6, <1>7, <1>8 DEF Match
<1> HIDE DEF s, k, w, e, pushes
<1>11. Known(text, s.records, s.starts) /\ (s.starts # << >> => s.starts[Len(s.starts)] < s.from)
  BY <1>2 DEF Boundary
<1>12. Known(text, e.records, e.starts) /\ e.starts \in Seq(Nat)
       /\ (e.starts # << >> => e.starts[Len(e.starts)] < n)
  <2>1. CASE ~pushes
    <3>1. s.from <= n
      BY <1>1, <1>9 DEF Begins
    <3> QED
      BY <1>1, <1>5, <1>8, <1>11, <2>1, <3>1
  <2>2. CASE pushes
    <3>1. PICK row \in Seq(Text) : e.records = Append(s.records, row) /\ e.starts = Append(s.starts, s.from)
      BY <1>5, <2>2
    <3>2. Known(text, e.records, e.starts)
      BY <1>8, <1>9, <1>11, <3>1, KnownOneMore
    <3>3. e.starts \in Seq(Nat) /\ e.starts[Len(e.starts)] = s.from
      <4> DEFINE b == s.starts
                 q == s.from
      <4>1. b \in Seq(Nat) /\ q \in Nat /\ e.starts = Append(b, q)
        BY <1>8, <3>1
      <4> HIDE DEF b, q
      <4>2. Append(b, q) \in Seq(Nat) /\ Append(b, q)[Len(Append(b, q))] = q
        BY <4>1
      <4> QED
        BY <4>1, <4>2 DEF q
    <3> QED
      BY <1>10, <2>2, <3>2, <3>3
  <2> QED
    BY <2>1, <2>2
<1>13. ASSUME NEW j \in 1 .. Len(e.starts)
       PROVE  e.starts[j] < n
  <2>1. CASE j = Len(e.starts)
    BY <1>12, <2>1
  <2>2. CASE j # Len(e.starts)
    <3>1. j \in 1 .. Len(e.starts) - 1 /\ j + 1 \in 1 .. Len(e.starts)
      BY <1>12, <2>2
    <3>2. e.starts[j] < e.starts[j + 1] /\ e.starts[j + 1] \in 0 .. n
      BY <1>12, <3>1 DEF Known, Begins, n
    <3>3. e.starts[j] \in Nat
      BY <1>12
    <3> QED
      BY <1>1, <3>2, <3>3
  <2> QED
    BY <2>1, <2>2
<1> QED
  BY <1>4, <1>12, <1>13

\* A piece of text that is one record and the newline that ends it.
Line(piece, rec) ==
    /\ piece \in Text /\ piece # << >> /\ Last(piece) = LF
    /\ ReadUpTo(piece, Len(piece)) = At(Len(piece), <<rec>>, <<0>>)
    /\ StateAfter(piece, Len(piece)) = "start"

\* One record, with or without that newline.
OneRecord(piece, rec) ==
    /\ piece \in Text /\ piece # << >> /\ WellFormed(piece)
    /\ Read(piece).records = <<rec>>
    /\ Read(piece).starts = <<0>>

LEMMA LineIsRecord ==
    ASSUME NEW piece, NEW rec \in Seq(Text), Line(piece, rec)
    PROVE  OneRecord(piece, rec)
<1> DEFINE s == At(Len(piece), <<rec>>, <<0>>)
           e == EndFeed(piece, s)
<1>1. piece \in Text /\ piece # << >> /\ Last(piece) = LF /\ Len(piece) \in Nat
  BY DEF Line, Text
<1>2. <<rec>> \in Seq(Seq(Text)) /\ <<0>> \in Seq(Nat)
  OBVIOUS
<1>3. s \in Reader /\ s.records = <<rec>> /\ s.starts = <<0>> /\ s.row = << >> /\ s.field = << >>
  BY <1>1, <1>2, AtType
<1>4. Delimiter # LF /\ Quote # LF
  BY CsvTextAssumption DEF Quote, LF
<1> HIDE DEF s
<1>5. e.records = <<rec>> /\ e.starts = <<0>>
  <2>1. ~ \/ s.row # << >> \/ s.field # << >>
          \/ piece # << >> /\ Last(piece) \in {Delimiter, Quote}
    BY <1>1, <1>3, <1>4
  <2>2. e.records = s.records /\ e.starts = s.starts
    BY <1>3, <2>1, EndFeedIs
  <2> QED
    BY <1>3, <2>2
<1>6. Read(piece) = e
  BY DEF Read, Line, s
<1>7. WellFormed(piece)
  BY DEF Line, WellFormed
<1> QED
  BY <1>1, <1>5, <1>6, <1>7 DEF OneRecord

LEMMA EndFeedMoved ==
    ASSUME NEW text \in Text, NEW piece \in Text, text # << >>, piece # << >>,
           Last(text) = Last(piece), NEW p \in Nat, p + Len(piece) = Len(text),
           NEW s \in Reader, NEW recs \in Seq(Seq(Text)), NEW sts \in Seq(Nat)
    PROVE  EndFeed(text, Moved(s, p, recs, sts)) = Moved(EndFeed(piece, s), p, recs, sts)
<1> DEFINE m == Moved(s, p, recs, sts)
           pushes(t) == t.field # << >> \/ Last(piece) \in {Delimiter, Quote}
           u == IF pushes(s) THEN PushField(s) ELSE s
           v == IF pushes(m) THEN PushField(m) ELSE m
<1>1. /\ EndFeed(text, m) = IF v.row # << >> THEN PushRow(v, Len(text)) ELSE v
      /\ EndFeed(piece, s) = IF u.row # << >> THEN PushRow(u, Len(piece)) ELSE u
  BY DEF EndFeed
<1>2. m.field = s.field
  BY MovedType
<1>3. PushField(m) = Moved(PushField(s), p, recs, sts)
  BY MovedPushField
<1>4. v = Moved(u, p, recs, sts)
  BY <1>2, <1>3
<1>5. u \in Reader
  BY FinishRowType, 0 \in Nat
<1> HIDE DEF u, v, m
<1>6. v.row = u.row
  BY <1>4, <1>5, MovedType
<1>7. Len(piece) \in Nat
  BY DEF Text
<1>8. PushRow(v, Len(text)) = Moved(PushRow(u, Len(piece)), p, recs, sts)
  <2>1. PushRow(Moved(u, p, recs, sts), p + Len(piece)) = Moved(PushRow(u, Len(piece)), p, recs, sts)
    BY <1>5, <1>7, MovedPushRow
  <2> QED
    BY <1>4, <2>1
<1>9. EndFeed(text, m) = Moved(EndFeed(piece, s), p, recs, sts)
  BY <1>1, <1>4, <1>6, <1>8
<1> QED
  BY <1>9 DEF m

\* The first k elements: the first k - 1 and the k-th.
OneMore(a, k) == SubSeq(a, 1, k) = Append(SubSeq(a, 1, k - 1), a[k])

LEMMA SubSeqOneMore ==
    ASSUME NEW S, NEW a \in Seq(S), NEW k \in 1 .. Len(a)
    PROVE  OneMore(a, k) /\ SubSeq(a, 1, k - 1) \in Seq(S) /\ Len(SubSeq(a, 1, k - 1)) = k - 1
<1>1. /\ SubSeq(a, 1, k) \in Seq(S) /\ Len(SubSeq(a, 1, k)) = k
      /\ \A i \in 1 .. k : SubSeq(a, 1, k)[i] = a[i]
  BY SubSeqProperties
<1>2. /\ SubSeq(a, 1, k - 1) \in Seq(S) /\ Len(SubSeq(a, 1, k - 1)) = k - 1
      /\ \A i \in 1 .. k - 1 : SubSeq(a, 1, k - 1)[i] = a[i]
  BY SubSeqProperties
<1> DEFINE b == SubSeq(a, 1, k - 1)
           c == SubSeq(a, 1, k)
<1>3. b \in Seq(S) /\ c \in Seq(S) /\ a[k] \in S /\ Len(b) = k - 1 /\ Len(c) = k
  BY <1>1, <1>2
<1>4. (\A i \in 1 .. k : c[i] = a[i]) /\ (\A i \in 1 .. k - 1 : b[i] = a[i])
  BY <1>1, <1>2
<1> HIDE DEF b, c
<1>5. /\ Append(b, a[k]) \in Seq(S) /\ Len(Append(b, a[k])) = k
      /\ \A i \in 1 .. k : Append(b, a[k])[i] = c[i]
  BY <1>3, <1>4
<1>6. c = Append(b, a[k])
  BY <1>3, <1>5, SeqEqual
<1> QED
  BY <1>2, <1>6 DEF b, c, OneMore

SameJoin(a, b, c) == a \o b = a \o c

LEMMA CancelLeft ==
    ASSUME NEW S, NEW a \in Seq(S), NEW b \in Seq(S), NEW c \in Seq(S), SameJoin(a, b, c)
    PROVE  b = c
<1>1. a \o b = a \o c
  BY DEF SameJoin
<1>2. Len(b) = Len(c)
  BY <1>1, ConcatProperties
<1>3. ASSUME NEW i \in 1 .. Len(b) PROVE b[i] = c[i]
  <2>1. Len(a) + i \in 1 .. Len(a) + Len(b) /\ Len(a) + i > Len(a) /\ (Len(a) + i) - Len(a) = i
    OBVIOUS
  <2>2. (a \o b)[Len(a) + i] = b[i] /\ (a \o c)[Len(a) + i] = c[i]
    BY <1>2, <2>1, ConcatProperties
  <2> QED
    BY <1>1, <2>2
<1> QED
  BY <1>2, <1>3, SeqEqual

\* A reader of a piece that adds one record to those before it has read just it.
LEMMA Unmoved ==
    ASSUME NEW t \in Reader, NEW p \in Nat, NEW recs \in Seq(Seq(Text)), NEW sts \in Seq(Nat),
           NEW rec \in Seq(Text),
           Moved(t, p, recs, sts).records = Append(recs, rec),
           Moved(t, p, recs, sts).starts = Append(sts, p)
    PROVE  t.records = <<rec>> /\ t.starts = <<0>>
<1>1. t.records \in Seq(Seq(Text)) /\ t.starts \in Seq(Nat) /\ <<rec>> \in Seq(Seq(Text)) /\ <<p>> \in Seq(Nat)
  BY DEF Reader
<1>2. recs \o t.records = recs \o <<rec>>
  <2>1. Append(recs, rec) = recs \o <<rec>>
    BY AppendIsConcat
  <2> QED
    BY <2>1, MovedType
<1>3. t.records = <<rec>>
  <2>1. SameJoin(recs, t.records, <<rec>>)
    BY <1>2 DEF SameJoin
  <2> QED
    BY <1>1, <2>1, CancelLeft
<1> DEFINE u == Shift(t.starts, p)
<1>4. /\ u \in Seq(Nat) /\ Len(u) = Len(t.starts)
      /\ \A j \in 1 .. Len(t.starts) : u[j] = t.starts[j] + p
  BY <1>1, ShiftType
<1>5. sts \o u = sts \o <<p>>
  <2>1. Append(sts, p) = sts \o <<p>>
    BY AppendIsConcat
  <2> QED
    BY <2>1, MovedType
<1> HIDE DEF u
<1>6. u = <<p>>
  <2>1. SameJoin(sts, u, <<p>>)
    BY <1>5 DEF SameJoin
  <2> QED
    BY <1>1, <1>4, <2>1, CancelLeft
<1>7. Len(t.starts) = 1 /\ t.starts[1] + p = p
  <2>1. Len(u) = 1 /\ u[1] = p
    BY <1>6
  <2> QED
    BY <1>4, <2>1
<1>8. t.starts[1] = 0
  BY <1>1, <1>7
<1>9. t.starts = <<0>>
  BY <1>1, <1>7, <1>8
<1> QED
  BY <1>3, <1>9

LEMMA PieceWithin ==
    ASSUME NEW text \in Text, WellFormed(text),
           NEW k \in 1 .. Len(Read(text).starts)
    PROVE  LET starts == Read(text).starts
               piece  == RecordText(text, starts, k)
               p      == starts[k]
               q      == IF k < Len(starts) THEN starts[k + 1] ELSE Len(text)
           IN  /\ piece \in Text /\ piece # << >> /\ Len(piece) = q - p
               /\ Within(text, p, piece) /\ p \in Nat /\ q \in 1 .. Len(text) /\ p < q
               /\ k < Len(starts) => Last(piece) = LF
<1> DEFINE n == Len(text)
           starts == Read(text).starts
           p == starts[k]
           q == IF k < Len(starts) THEN starts[k + 1] ELSE n
           piece == SubSeq(text, p + 1, q)
<1>1. n \in Nat /\ starts \in Seq(Nat) /\ k \in Nat /\ Len(starts) \in Nat /\ k <= Len(starts)
  BY ReadType DEF Text
<1>2. Known(text, Read(text).records, starts) /\ \A j \in 1 .. Len(starts) : starts[j] < n
  BY RecordsBegin
<1> HIDE DEF n, starts
<1>3. p \in Nat /\ q \in 1 .. n /\ p < q
  <2>1. p \in Nat /\ p < n
    BY <1>1, <1>2
  <2>2. k < Len(starts) => k + 1 \in 1 .. Len(starts) /\ k \in 1 .. Len(starts) - 1
    BY <1>1
  <2>3. k < Len(starts) => starts[k + 1] < n /\ p < starts[k + 1] /\ starts[k + 1] \in Nat
    BY <1>1, <1>2, <2>2 DEF Known
  <2> QED
    BY <1>1, <2>1, <2>3
<1>4. k < Len(starts) => text[q] = LF
  <2>1. k < Len(starts) => k + 1 \in 1 .. Len(starts)
    BY <1>1
  <2>2. k < Len(starts) => starts[k + 1] = 0 \/ text[starts[k + 1]] = LF
    BY <1>2, <2>1 DEF Known, Begins
  <2> QED
    BY <1>3, <2>2
<1> HIDE DEF p, q
<1>5. /\ piece \in Text /\ Len(piece) = q - p
      /\ \A j \in 1 .. q - p : piece[j] = text[p + j]
  <2>1. \A j \in p + 1 .. q : text[j] \in Character
    BY <1>1, <1>3 DEF Text, n
  <2>2. p + 1 \in Int /\ q \in Int
    BY <1>3
  <2>3. /\ piece \in Seq(Character)
        /\ Len(piece) = IF p + 1 <= q THEN q - (p + 1) + 1 ELSE 0
        /\ \A j \in 1 .. q - (p + 1) + 1 : piece[j] = text[(p + 1) + j - 1]
    BY <2>1, <2>2, SubSeqProperties
  <2>4. q - (p + 1) + 1 = q - p /\ p + 1 <= q
    BY <1>3
  <2>5. \A j \in 1 .. q - p : (p + 1) + j - 1 = p + j
    BY <1>3
  <2> HIDE DEF piece
  <2> QED
    BY <2>3, <2>4, <2>5 DEF Text
<1>6. piece # << >>
  <2> HIDE DEF piece
  <2>1. Len(piece) # 0
    BY <1>3, <1>5
  <2> QED
    BY <2>1
<1>7. k < Len(starts) => Last(piece) = LF
  <2>1. q - p \in 1 .. q - p /\ p + (q - p) = q
    BY <1>3
  <2>2. Last(piece) = text[q]
    <3> HIDE DEF piece
    <3> QED
      BY <1>5, <2>1 DEF Last
  <2> QED
    BY <1>4, <2>2
<1>8. k >= Len(starts) => q = n
  BY <1>1 DEF q
<1>9. RecordText(text, starts, k) = piece
  BY DEF RecordText, p, q, n
<1> HIDE DEF piece
<1>10. Within(text, p, piece)
  <2>1. p + (q - p) = q /\ q <= n
    BY <1>1, <1>3
  <2> QED
    BY <1>1, <1>3, <1>5, <1>6, <1>7, <1>8, <2>1 DEF Within, n
<1>11. LET y == IF k < Len(starts) THEN starts[k + 1] ELSE Len(text)
       IN  /\ piece \in Text /\ piece # << >> /\ Len(piece) = y - p
           /\ Within(text, p, piece) /\ p \in Nat /\ y \in 1 .. Len(text) /\ p < y
           /\ k < Len(starts) => Last(piece) = LF
  BY <1>3, <1>5, <1>6, <1>7, <1>10 DEF q, n
<1> QED
  BY <1>9, <1>11 DEF starts, p

(* Cut a well-formed text at the starts of its records, and each piece, read  *)
(* alone, is that one record (RecordText, ScanCsvRecordStarts).               *)
LEMMA PieceRecord ==
    ASSUME NEW text \in Text, WellFormed(text),
           NEW k \in 1 .. Len(Read(text).starts)
    PROVE  LET starts == Read(text).starts
               piece  == RecordText(text, starts, k)
               rec    == Read(text).records[k]
           IN  OneRecord(piece, rec) /\ (k < Len(starts) => Line(piece, rec))
<1> DEFINE n == Len(text)
           starts == Read(text).starts
           records == Read(text).records
           p == starts[k]
           q == IF k < Len(starts) THEN starts[k + 1] ELSE n
           piece == RecordText(text, starts, k)
           m == Len(piece)
           rec == records[k]
           recs == SubSeq(records, 1, k - 1)
           sts == SubSeq(starts, 1, k - 1)
           t == ReadUpTo(piece, m)
           v == StateAfter(piece, m)
<1>1. /\ piece \in Text /\ piece # << >> /\ m = q - p
      /\ Within(text, p, piece) /\ p \in Nat /\ q \in 1 .. n /\ p < q
      /\ k < Len(starts) => Last(piece) = LF
  BY PieceWithin
<1>2. /\ n \in Nat /\ starts \in Seq(Nat) /\ records \in Seq(Seq(Text))
      /\ Known(text, records, starts) /\ Len(records) = Len(starts)
      /\ Len(starts) \in Nat /\ k \in 1 .. Len(starts)
  <2>1. Known(text, records, starts)
    BY RecordsBegin
  <2> QED
    BY <2>1, ReadType DEF Text, Known
<1>3. Begins(text, p, recs, sts)
  BY <1>2 DEF Known
<1>4. p + m = q /\ m \in Nat /\ m \in 0 .. m
  <2>1. m = q - p /\ p \in Nat /\ q \in Nat /\ p < q
    BY <1>1, <1>2
  <2> HIDE DEF m, p, q
  <2> QED
    BY <2>1
<1>5. rec \in Seq(Text)
  BY <1>2
<1>6. /\ recs \in Seq(Seq(Text)) /\ sts \in Seq(Nat)
      /\ SubSeq(records, 1, k) = Append(recs, rec) /\ SubSeq(starts, 1, k) = Append(sts, p)
  <2> HIDE DEF records, starts
  <2> QED
    BY <1>2, SubSeqOneMore DEF OneMore
<1>7. t \in Reader
  BY <1>1, <1>4, ReadTurns
<1> HIDE DEF n, starts, records, p, q, piece, m, rec, recs, sts, t, v
<1>8. ReadUpTo(text, q) = Moved(t, p, recs, sts) /\ StateAfter(text, q) = v
  <2>1. ReadsAs(text, p, piece, recs, sts)
    BY <1>1, <1>3, <1>6, ReadsAlike DEF Begins
  <2> QED
    BY <1>4, <2>1 DEF ReadsAs, t, v, m
<1>9. CASE k < Len(starts)
  <2> DEFINE recs2 == Append(recs, rec)
             sts2 == Append(sts, p)
             mt == Moved(t, p, recs, sts)
             a == At(q, recs2, sts2)
  <2>1. k + 1 \in 1 .. Len(starts) /\ (k + 1) - 1 = k /\ q = starts[k + 1]
    BY <1>2, <1>9 DEF q
  <2>2. Begins(text, q, SubSeq(records, 1, k), SubSeq(starts, 1, k))
    BY <1>2, <2>1 DEF Known
  <2>3. mt = a /\ v = "start"
    BY <1>6, <1>8, <2>2 DEF Begins
  <2>4. recs2 \in Seq(Seq(Text)) /\ sts2 \in Seq(Nat) /\ q \in Nat
    BY <1>1, <1>5, <1>6
  <2>5. /\ a \in Reader /\ a.records = recs2 /\ a.starts = sts2 /\ a.from = q
        /\ a.row = << >> /\ a.field = << >> /\ a.started = FALSE /\ a.quoted = FALSE /\ a.skip = FALSE
    <3> HIDE DEF recs2, sts2
    <3> QED
      BY <2>4, AtType
  <2>6. /\ mt.from = t.from + p /\ mt.row = t.row /\ mt.field = t.field
        /\ mt.started = t.started /\ mt.quoted = t.quoted /\ mt.skip = t.skip
    BY <1>1, <1>6, <1>7, MovedType
  <2>7. t.records = <<rec>> /\ t.starts = <<0>>
    <3>1. mt.records = Append(recs, rec) /\ mt.starts = Append(sts, p)
      BY <2>3, <2>5
    <3> QED
      BY <1>1, <1>5, <1>6, <1>7, <3>1, Unmoved
  <2>8. t.from \in Nat
    BY <1>7 DEF Reader
  <2> HIDE DEF mt, a, recs2, sts2
  <2>9. /\ t.from = m /\ t.row = << >> /\ t.field = << >>
        /\ t.started = FALSE /\ t.quoted = FALSE /\ t.skip = FALSE
    BY <1>1, <1>4, <2>3, <2>5, <2>6, <2>8
  <2>10. t = At(m, <<rec>>, <<0>>)
    <3> DEFINE r1 == <<rec>>
               s1 == <<0>>
               b == At(m, r1, s1)
    <3>1. r1 \in Seq(Seq(Text)) /\ s1 \in Seq(Nat) /\ t.records = r1 /\ t.starts = s1
      BY <1>5, <2>7
    <3> HIDE DEF r1, s1
    <3>2. /\ b \in Reader /\ b.records = r1 /\ b.starts = s1 /\ b.from = m
          /\ b.row = << >> /\ b.field = << >> /\ b.started = FALSE /\ b.quoted = FALSE /\ b.skip = FALSE
      BY <1>4, <3>1, AtType
    <3> HIDE DEF b
    <3>3. t = b
      BY <1>7, <2>9, <3>1, <3>2, SameReader
    <3> QED
      BY <3>3 DEF b, r1, s1
  <2>11. Line(piece, rec)
    BY <1>1, <1>9, <2>3, <2>10 DEF Line, t, v, m
  <2>12. OneRecord(piece, rec)
    BY <1>5, <2>11, LineIsRecord
  <2> QED
    BY <2>11, <2>12 DEF starts, piece, rec, records
<1>10. CASE k = Len(starts)
  <2> DEFINE e == EndFeed(piece, t)
  <2>1. q = n /\ text # << >> /\ Last(text) = Last(piece)
    <3>1. q = n
      BY <1>10, <1>2 DEF q
    <3>2. text # << >>
      BY <1>1, <1>2, EmptySeq DEF n, Text
    <3>3. m \in 1 .. m /\ p + m = n
      BY <1>1, <1>2, <1>4, <3>1
    <3>4. text[p + m] = piece[m]
      BY <1>1, <3>3 DEF Within, m, n
    <3> QED
      BY <3>1, <3>2, <3>3, <3>4 DEF Last, m, n
  <2>2. Read(text) = Moved(e, p, recs, sts)
    <3>1. Read(text) = EndFeed(text, Moved(t, p, recs, sts))
      BY <1>8, <2>1 DEF Read, n
    <3>2. p + Len(piece) = Len(text)
      BY <1>4, <2>1 DEF m, n
    <3> QED
      BY <1>1, <1>6, <1>7, <2>1, <3>1, <3>2, EndFeedMoved
  <2>3. e = Read(piece) /\ e \in Reader
    BY <1>1, ReadType DEF Read, t, m
  <2> HIDE DEF e
  <2>4. SubSeq(records, 1, k) = records /\ SubSeq(starts, 1, k) = starts
    BY <1>2, <1>10, SubSeqFull
  <2>5. e.records = <<rec>> /\ e.starts = <<0>>
    <3>1. Moved(e, p, recs, sts).records = Append(recs, rec)
          /\ Moved(e, p, recs, sts).starts = Append(sts, p)
      BY <1>6, <2>2, <2>4 DEF records, starts
    <3> QED
      BY <1>1, <1>5, <1>6, <2>3, <3>1, Unmoved
  <2>6. WellFormed(piece)
    BY <1>8, <2>1 DEF WellFormed, v, m, n
  <2>7. OneRecord(piece, rec) /\ ~ (k < Len(starts))
    BY <1>1, <1>2, <1>10, <2>3, <2>5, <2>6 DEF OneRecord
  <2> QED
    BY <2>7 DEF starts, piece, rec, records
<1> QED
  BY <1>2, <1>9, <1>10
-------------------------------------------------------------------------------
(* Records put together. *)

StartsWith(text, head) ==
    Len(head) <= Len(text) /\ \A j \in 1 .. Len(head) : text[j] = head[j]

\* The i-th piece of the text they make.
StandsAt(parts, joined, i) ==
    LET text == FlattenSeq(parts)
        p    == Len(joined[i - 1])
    IN  /\ text \in Text /\ p \in Nat /\ Len(joined[i]) = p + Len(parts[i])
        /\ p + Len(parts[i]) <= Len(text)
        /\ \A j \in 1 .. Len(parts[i]) : text[p + j] = parts[i][j]
        /\ i = Len(parts) => p + Len(parts[i]) = Len(text)

LEMMA JoinedPieces ==
    ASSUME NEW parts \in Seq(Text), NEW joined, Joins(parts, joined), NEW i \in 1 .. Len(parts)
    PROVE  StandsAt(parts, joined, i)
<1> DEFINE n == Len(parts)
           T == {k \in 0 .. n : i <= k => StartsWith(joined[k], joined[i])}
<1>1. /\ n \in Nat /\ joined \in [0 .. n -> Text] /\ FlattenSeq(parts) = joined[n]
      /\ \A j \in 1 .. n : joined[j] = joined[j - 1] \o parts[j]
  BY DEF Joins
<1>2. ASSUME NEW j \in 1 .. n
      PROVE  /\ joined[j - 1] \in Seq(Character) /\ parts[j] \in Seq(Character)
             /\ joined[j] \in Seq(Character) /\ Len(joined[j]) = Len(joined[j - 1]) + Len(parts[j])
             /\ \A x \in 1 .. Len(joined[j - 1]) : joined[j][x] = joined[j - 1][x]
             /\ \A x \in 1 .. Len(parts[j]) : joined[j][Len(joined[j - 1]) + x] = parts[j][x]
  <2> DEFINE a == joined[j - 1]
             b == parts[j]
             c == joined[j]
  <2>1. a \in Seq(Character) /\ b \in Seq(Character) /\ c = a \o b
    <3>1. j - 1 \in 0 .. n /\ j \in 1 .. n
      BY <1>1
    <3>2. a \in Text /\ b \in Text /\ c = a \o b
      <4> HIDE DEF n
      <4> QED
        BY <1>1, <3>1
    <3> QED
      BY <3>2 DEF Text
  <2> HIDE DEF a, b, c
  <2>2. /\ c \in Seq(Character) /\ Len(c) = Len(a) + Len(b)
        /\ \A x \in 1 .. Len(a) : c[x] = a[x]
        /\ \A x \in 1 .. Len(b) : c[Len(a) + x] = b[x]
    BY <2>1
  <2> QED
    BY <2>1, <2>2 DEF a, b, c
<1>3. 0 \in T
  BY <1>1
<1>4. ASSUME NEW k \in 1 .. n, k - 1 \in T
      PROVE  k \in T
  <2>1. CASE i = k
    <3>1. Len(joined[i]) \in Nat
      BY <1>1 DEF Text
    <3> QED
      BY <1>1, <2>1, <3>1 DEF StartsWith
  <2>2. CASE i <= k - 1
    <3>1. StartsWith(joined[k - 1], joined[i])
      BY <1>4, <2>2
    <3>2. /\ Len(joined[k]) = Len(joined[k - 1]) + Len(parts[k])
          /\ \A x \in 1 .. Len(joined[k - 1]) : joined[k][x] = joined[k - 1][x]
      BY <1>2
    <3>3. Len(joined[k - 1]) \in Nat /\ Len(parts[k]) \in Nat /\ Len(joined[i]) \in Nat
      BY <1>2, <2>2
    <3>4. StartsWith(joined[k], joined[i])
      <4> DEFINE a == joined[i]
                 b == joined[k - 1]
                 c == joined[k]
      <4>1. /\ Len(a) \in Nat /\ Len(b) \in Nat /\ Len(c) \in Nat /\ Len(c) >= Len(b)
            /\ \A x \in 1 .. Len(b) : c[x] = b[x]
        <5> DEFINE d == Len(parts[k])
        <5>1. /\ Len(a) \in Nat /\ Len(b) \in Nat /\ d \in Nat /\ Len(c) = Len(b) + d
              /\ \A x \in 1 .. Len(b) : c[x] = b[x]
          BY <3>2, <3>3, Zenon
        <5> HIDE DEF a, b, c, d
        <5> QED
          BY <5>1
      <4>2. StartsWith(b, a)
        BY <3>1
      <4> HIDE DEF a, b, c
      <4>3. StartsWith(c, a)
        BY <4>1, <4>2 DEF StartsWith
      <4> QED
        BY <4>3 DEF a, c
    <3> QED
      BY <1>1, <3>4
  <2>3. CASE i > k
    BY <1>1, <2>3
  <2> QED
    BY <1>1, <2>1, <2>2, <2>3
<1> HIDE DEF T, n
<1>5. 0 .. n \subseteq T
  BY <1>1, <1>3, <1>4, UpToInduction
<1>6. StartsWith(joined[n], joined[i]) /\ i - 1 \in 0 .. n /\ i \in 1 .. n /\ i \in 0 .. n
  BY <1>1, <1>5 DEF T, n
<1>7. /\ Len(joined[i - 1]) \in Nat /\ Len(parts[i]) \in Nat /\ joined[n] \in Text
      /\ Len(joined[i]) = Len(joined[i - 1]) + Len(parts[i])
      /\ \A x \in 1 .. Len(parts[i]) : joined[i][Len(joined[i - 1]) + x] = parts[i][x]
  BY <1>1, <1>2, <1>6
<1>8. ASSUME NEW x \in 1 .. Len(parts[i])
      PROVE  joined[n][Len(joined[i - 1]) + x] = parts[i][x]
  <2>1. Len(joined[i - 1]) + x \in 1 .. Len(joined[i])
    <3> DEFINE a == Len(joined[i - 1])
               b == Len(parts[i])
    <3>1. a \in Nat /\ b \in Nat /\ Len(joined[i]) = a + b /\ x \in 1 .. b
      BY <1>7
    <3> HIDE DEF a, b
    <3>2. a + x \in 1 .. Len(joined[i])
      BY <3>1
    <3> QED
      BY <3>2 DEF a
  <2> QED
    BY <1>6, <1>7, <2>1 DEF StartsWith
<1>9. i = n => Len(joined[i - 1]) + Len(parts[i]) = Len(joined[n])
  BY <1>7
<1> QED
  BY <1>1, <1>6, <1>7, <1>8, <1>9 DEF StartsWith, StandsAt, n

\* Reading one line more.
LEMMA MovedLine ==
    ASSUME NEW m \in Nat, NEW p \in Nat, NEW rec \in Seq(Text),
           NEW recs \in Seq(Seq(Text)), NEW sts \in Seq(Nat)
    PROVE  Moved(At(m, <<rec>>, <<0>>), p, recs, sts) = At(p + m, Append(recs, rec), Append(sts, p))
<1> DEFINE r1 == <<rec>>
           s1 == <<0>>
           a == At(m, r1, s1)
           recs2 == Append(recs, rec)
           sts2 == Append(sts, p)
           b == At(p + m, recs2, sts2)
           d == Moved(a, p, recs, sts)
<1>1. /\ r1 \in Seq(Seq(Text)) /\ s1 \in Seq(Nat) /\ p + m \in Nat
      /\ recs2 \in Seq(Seq(Text)) /\ sts2 \in Seq(Nat)
  OBVIOUS
<1>2. recs \o r1 = recs2
  BY AppendIsConcat
<1>3. sts \o Shift(s1, p) = sts2
  <2>1. Shift(s1, p) = <<p>>
    BY DEF Shift
  <2>2. sts2 = sts \o <<p>>
    BY AppendIsConcat
  <2> QED
    BY <2>1, <2>2
<1> HIDE DEF r1, s1, recs2, sts2
<1>4. /\ a \in Reader /\ a.records = r1 /\ a.starts = s1 /\ a.from = m /\ a.row = << >>
      /\ a.field = << >> /\ a.started = FALSE /\ a.quoted = FALSE /\ a.skip = FALSE
  BY <1>1, AtType
<1>5. /\ b \in Reader /\ b.records = recs2 /\ b.starts = sts2 /\ b.from = p + m /\ b.row = << >>
      /\ b.field = << >> /\ b.started = FALSE /\ b.quoted = FALSE /\ b.skip = FALSE
  BY <1>1, AtType
<1> HIDE DEF a, b
<1>6. /\ d \in Reader /\ d.records = recs \o a.records /\ d.starts = sts \o Shift(a.starts, p)
      /\ d.from = a.from + p /\ d.row = a.row /\ d.field = a.field /\ d.started = a.started
      /\ d.quoted = a.quoted /\ d.skip = a.skip
  <2>1. IsMoved(d, a, p, recs, sts)
    BY <1>4, MovedIs
  <2> HIDE DEF d
  <2> QED
    BY <2>1 DEF IsMoved
<1> HIDE DEF d
<1>7. d.records = b.records /\ d.starts = b.starts
  BY <1>2, <1>3, <1>4, <1>5, <1>6, Zenon
<1>8. d.from = b.from
  BY <1>4, <1>5, <1>6
<1>9. d = b
  BY <1>4, <1>5, <1>6, <1>7, <1>8, SameReader
<1> QED
  BY <1>9 DEF a, b, d, r1, s1, recs2, sts2

\* Pieces that are one record each, all but the last with their newline.
Pieces(parts, recs) ==
    /\ parts \in Seq(Text) /\ recs \in Seq(Seq(Text))
    /\ Len(recs) = Len(parts) /\ parts # << >>
    /\ \A k \in 1 .. Len(parts) : /\ OneRecord(parts[k], recs[k])
                                  /\ k < Len(parts) => Line(parts[k], recs[k])

LEMMA PieceStands ==
    ASSUME NEW parts, NEW recs, Pieces(parts, recs), NEW joined, Joins(parts, joined),
           NEW i \in 1 .. Len(parts)
    PROVE  Within(FlattenSeq(parts), Len(joined[i - 1]), parts[i])
<1> DEFINE text == FlattenSeq(parts)
           p == Len(joined[i - 1])
<1>1. /\ p + Len(parts[i]) <= Len(text)
      /\ \A j \in 1 .. Len(parts[i]) : text[p + j] = parts[i][j]
      /\ i = Len(parts) => p + Len(parts[i]) = Len(text)
  <2>1. StandsAt(parts, joined, i)
    BY JoinedPieces DEF Pieces
  <2> QED
    BY <2>1 DEF StandsAt
<1>2. i < Len(parts) => parts[i] # << >> /\ Last(parts[i]) = LF
  BY DEF Pieces, Line
<1>3. i < Len(parts) \/ i = Len(parts)
  BY DEF Pieces
<1> QED
  BY <1>1, <1>2, <1>3 DEF Within

(* Pieces put together read as their records, in order, and are cut back into *)
(* the same pieces: what a splice of kept and printed records relies on       *)
(* (ExportBaseColumnsToCsv).                                                  *)
LEMMA PiecesJoined ==
    ASSUME NEW parts, NEW recs, Pieces(parts, recs)
    PROVE  LET text == FlattenSeq(parts)
           IN  /\ text \in Text /\ WellFormed(text)
               /\ Read(text).records = recs
               /\ Len(Read(text).starts) = Len(parts)
               /\ \A k \in 1 .. Len(parts) : RecordText(text, Read(text).starts, k) = parts[k]
<1> DEFINE n == Len(parts)
           text == FlattenSeq(parts)
<1>1. /\ n \in Nat /\ n >= 1 /\ parts \in Seq(Text) /\ recs \in Seq(Seq(Text)) /\ Len(recs) = n
      /\ \A k \in 1 .. n : parts[k] \in Text /\ recs[k] \in Seq(Text)
  BY EmptySeq DEF Pieces
<1>2. PICK joined : Joins(parts, joined)
  BY <1>1, FlattenJoins
<1> DEFINE at(k) == Len(joined[k])
           offsets == [k \in 1 .. n |-> at(k - 1)]
           R(k) == SubSeq(recs, 1, k)
           S(k) == SubSeq(offsets, 1, k)
           T == {k \in 0 .. n - 1 : Begins(text, at(k), R(k), S(k))}
<1>3. ASSUME NEW k \in 1 .. n
      PROVE  /\ at(k - 1) \in Nat /\ at(k) = at(k - 1) + Len(parts[k]) /\ at(k) <= Len(text)
             /\ Within(text, at(k - 1), parts[k])
             /\ \A j \in 1 .. Len(parts[k]) : text[at(k - 1) + j] = parts[k][j]
             /\ k = n => at(k) = Len(text)
             /\ Len(parts[k]) \in Nat
  <2>1. Within(text, at(k - 1), parts[k])
    BY <1>2, PieceStands
  <2>2. Len(parts[k]) \in Nat
    BY <1>1 DEF Text
  <2> QED
    <3>1. StandsAt(parts, joined, k)
      BY <1>1, <1>2, JoinedPieces
    <3> QED
      BY <2>1, <2>2, <3>1 DEF StandsAt
<1>4. text \in Text /\ Len(text) \in Nat /\ at(0) = 0
  <2>1. text \in Text
    BY <1>1, FlattenType
  <2>2. joined[0] = << >>
    BY <1>2 DEF Joins
  <2> QED
    BY <2>1, <2>2 DEF Text
<1> HIDE DEF at, text
<1>5. offsets \in Seq(Nat) /\ Len(offsets) = n /\ \A k \in 1 .. n : offsets[k] = at(k - 1)
  BY <1>1, <1>3
<1> HIDE DEF offsets, n
<1>6. ASSUME NEW k \in 1 .. n
      PROVE  /\ R(k) = Append(R(k - 1), recs[k]) /\ R(k - 1) \in Seq(Seq(Text))
             /\ S(k) = Append(S(k - 1), at(k - 1)) /\ S(k - 1) \in Seq(Nat)
  <2>1. k \in 1 .. Len(recs) /\ k \in 1 .. Len(offsets) /\ offsets[k] = at(k - 1)
    BY <1>1, <1>5
  <2>2. OneMore(recs, k) /\ R(k - 1) \in Seq(Seq(Text))
    BY <1>1, <2>1, SubSeqOneMore
  <2>3. OneMore(offsets, k) /\ S(k - 1) \in Seq(Nat)
    BY <1>5, <2>1, SubSeqOneMore
  <2> QED
    BY <2>1, <2>2, <2>3 DEF OneMore
<1> HIDE DEF R, S
<1>7. ASSUME NEW k \in 1 .. n, Begins(text, at(k - 1), R(k - 1), S(k - 1)), NEW j \in 0 .. Len(parts[k])
      PROVE  /\ ReadUpTo(text, at(k - 1) + j) = Moved(ReadUpTo(parts[k], j), at(k - 1), R(k - 1), S(k - 1))
             /\ StateAfter(text, at(k - 1) + j) = StateAfter(parts[k], j)
  <2>1. ReadsAs(text, at(k - 1), parts[k], R(k - 1), S(k - 1))
    BY <1>1, <1>3, <1>4, <1>6, <1>7, ReadsAlike DEF Begins
  <2> QED
    BY <2>1 DEF ReadsAs
<1>8. 0 \in T
  <2>1. Begins(text, 0, << >>, << >>)
    <3>1. ReadUpTo(text, 0) = Fresh /\ StateAfter(text, 0) = "start"
      BY <1>4, ReadTurns, StateTurns
    <3> QED
      BY <1>4, <3>1, FreshIsAt DEF Begins
  <2>2. R(0) = << >> /\ S(0) = << >>
    BY SubSeqEmpty DEF R, S
  <2> QED
    BY <1>1, <1>4, <2>1, <2>2
<1>9. ASSUME NEW k \in 1 .. n - 1, k - 1 \in T
      PROVE  k \in T
  <2> DEFINE m == Len(parts[k])
             p == at(k - 1)
  <2>1. k \in 1 .. n /\ k < n /\ k \in 0 .. n - 1
    BY <1>1
  <2>2. Line(parts[k], recs[k])
    BY <2>1 DEF Pieces, n
  <2>3. m \in Nat /\ m \in 0 .. m /\ at(k) = p + m /\ p \in Nat /\ at(k) <= Len(text)
    BY <1>3, <2>1
  <2>4. /\ ReadUpTo(text, p + m) = Moved(At(m, <<recs[k]>>, <<0>>), p, R(k - 1), S(k - 1))
        /\ StateAfter(text, p + m) = "start"
    BY <1>7, <1>9, <2>1, <2>2, <2>3 DEF Line
  <2>5. ReadUpTo(text, at(k)) = At(at(k), R(k), S(k))
    <3> DEFINE r1 == R(k - 1)
               s1 == S(k - 1)
               rec == recs[k]
    <3>1. r1 \in Seq(Seq(Text)) /\ s1 \in Seq(Nat) /\ rec \in Seq(Text)
      BY <1>1, <1>6, <2>1
    <3>2. R(k) = Append(r1, rec) /\ S(k) = Append(s1, p)
      BY <1>6, <2>1
    <3>3. m \in Nat /\ p \in Nat
      BY <2>3
    <3> HIDE DEF r1, s1, rec, m, p
    <3>4. Moved(At(m, <<rec>>, <<0>>), p, r1, s1) = At(p + m, Append(r1, rec), Append(s1, p))
      BY <3>1, <3>3, MovedLine
    <3> QED
      BY <2>3, <2>4, <3>2, <3>4 DEF r1, s1, rec
  <2>6. text[at(k)] = LF
    <3>1. parts[k] # << >> /\ parts[k][m] = LF
      BY <2>2 DEF Line, Last
    <3>2. m \in 1 .. m
      BY <1>1, <2>1, <2>3, <3>1, EmptySeq DEF Text
    <3> QED
      BY <1>3, <2>1, <2>3, <3>1, <3>2
  <2>7. Begins(text, at(k), R(k), S(k))
    BY <1>4, <2>3, <2>4, <2>5, <2>6 DEF Begins
  <2> QED
    BY <2>1, <2>7
<1>10. Begins(text, at(n - 1), R(n - 1), S(n - 1))
  <2>1. n - 1 \in Nat
    BY <1>1
  <2> HIDE DEF T
  <2>2. 0 .. n - 1 \subseteq T
    BY <1>8, <1>9, <2>1, UpToInduction
  <2> QED
    BY <2>1, <2>2 DEF T
<1> DEFINE last == parts[n]
           m == Len(last)
           p == at(n - 1)
           e == Read(last)
<1>11. /\ last \in Text /\ last # << >> /\ WellFormed(last) /\ e.records = <<recs[n]>> /\ e.starts = <<0>>
       /\ n \in 1 .. n
  <2>1. n \in 1 .. n
    BY <1>1
  <2> QED
    BY <2>1 DEF Pieces, OneRecord, n
<1>12. /\ m \in Nat /\ m \in 0 .. m /\ m \in 1 .. m /\ p \in Nat /\ p + m = Len(text)
       /\ \A j \in 1 .. m : text[p + j] = last[j]
  BY <1>3, <1>11, EmptySeq DEF Text
<1>13. WellFormed(text)
  BY <1>7, <1>10, <1>11, <1>12 DEF WellFormed
<1>14. Read(text).records = recs /\ Read(text).starts = offsets
  <2>1. text # << >> /\ Last(text) = Last(last)
    <3>1. text[p + m] = last[m]
      BY <1>12
    <3>2. Len(text) # 0
      BY <1>12
    <3> QED
      BY <1>12, <3>1, <3>2 DEF Last
  <2>2. ReadUpTo(text, Len(text)) = Moved(ReadUpTo(last, m), p, R(n - 1), S(n - 1))
    BY <1>7, <1>10, <1>11, <1>12
  <2>3. ReadUpTo(last, m) \in Reader /\ e \in Reader
    BY <1>11, <1>12, ReadTurns, ReadType
  <2>4. Read(text) = Moved(e, p, R(n - 1), S(n - 1))
    <3> HIDE DEF p
    <3>1. EndFeed(text, Moved(ReadUpTo(last, m), p, R(n - 1), S(n - 1)))
              = Moved(EndFeed(last, ReadUpTo(last, m)), p, R(n - 1), S(n - 1))
      <4>1. R(n - 1) \in Seq(Seq(Text)) /\ S(n - 1) \in Seq(Nat)
        BY <1>6, <1>11
      <4> HIDE DEF R, S, last
      <4> QED
        BY <1>4, <1>11, <1>12, <2>1, <2>3, <4>1, EndFeedMoved
    <3> QED
      BY <2>2, <3>1 DEF Read
  <2> HIDE DEF e, last
  <2>5. Read(text).records = R(n) /\ Read(text).starts = S(n)
    <3>1. /\ Read(text).records = R(n - 1) \o e.records
          /\ Read(text).starts = S(n - 1) \o Shift(e.starts, p)
      <4> DEFINE r1 == R(n - 1)
                 s1 == S(n - 1)
      <4>1. r1 \in Seq(Seq(Text)) /\ s1 \in Seq(Nat) /\ p \in Nat /\ e \in Reader
            /\ Read(text) = Moved(e, p, r1, s1)
        BY <1>6, <1>11, <1>12, <2>3, <2>4
      <4> HIDE DEF r1, s1, p
      <4>2. /\ Moved(e, p, r1, s1).records = r1 \o e.records
            /\ Moved(e, p, r1, s1).starts = s1 \o Shift(e.starts, p)
        BY <4>1, MovedType
      <4> QED
        BY <4>1, <4>2 DEF r1, s1
    <3>2. Shift(<<0>>, p) = <<p>>
      BY <1>12 DEF Shift
    <3>3. /\ R(n - 1) \o <<recs[n]>> = R(n)
          /\ S(n - 1) \o <<p>> = S(n)
      <4>1. /\ R(n) = Append(R(n - 1), recs[n]) /\ R(n - 1) \in Seq(Seq(Text)) /\ recs[n] \in Seq(Text)
            /\ S(n) = Append(S(n - 1), p) /\ S(n - 1) \in Seq(Nat) /\ p \in Nat
        BY <1>1, <1>6, <1>11, <1>12
      <4> QED
        BY <4>1, AppendIsConcat
    <3> QED
      BY <1>11, <3>1, <3>2, <3>3
  <2>6. R(n) = recs /\ S(n) = offsets
    BY <1>1, <1>5, SubSeqFull DEF R, S
  <2> QED
    BY <2>5, <2>6
<1>15. ASSUME NEW k \in 1 .. n
       PROVE  RecordText(text, offsets, k) = parts[k]
  <2> DEFINE x == at(k - 1)
             y == at(k)
             b == parts[k]
             d == SubSeq(text, x + 1, y)
  <2>1. RecordText(text, offsets, k) = d
    <3>1. offsets[k] = x /\ Len(offsets) = n
      BY <1>5
    <3>2. k < n => offsets[k + 1] = y
      <4>1. k < n => k + 1 \in 1 .. n /\ (k + 1) - 1 = k
        BY <1>1
      <4> QED
        BY <1>5, <4>1
    <3>3. ~ (k < n) => y = Len(text)
      BY <1>1, <1>3
    <3> QED
      BY <3>1, <3>2, <3>3 DEF RecordText
  <2>2. /\ x \in Nat /\ y = x + Len(b) /\ y <= Len(text) /\ Len(b) \in Nat
        /\ \A j \in 1 .. Len(b) : text[x + j] = b[j]
        /\ b \in Seq(Character) /\ text \in Seq(Character) /\ Len(text) \in Nat
    BY <1>1, <1>3, <1>4 DEF Text
  <2> HIDE DEF x, y, b
  <2>3. /\ d \in Seq(Character) /\ Len(d) = Len(b)
        /\ \A j \in 1 .. Len(b) : d[j] = text[x + j]
    <3>1. \A j \in x + 1 .. y : text[j] \in Character
      BY <2>2
    <3>2. x + 1 \in Int /\ y \in Int
      BY <2>2
    <3>3. /\ d \in Seq(Character) /\ Len(d) = IF x + 1 <= y THEN y - (x + 1) + 1 ELSE 0
          /\ \A j \in 1 .. y - (x + 1) + 1 : d[j] = text[(x + 1) + j - 1]
      BY <3>1, <3>2, SubSeqProperties
    <3>4. y - (x + 1) + 1 = Len(b) /\ (~ (x + 1 <= y) => Len(b) = 0)
      BY <2>2
    <3>5. \A j \in 1 .. Len(b) : (x + 1) + j - 1 = x + j
      BY <2>2
    <3> HIDE DEF d
    <3> QED
      BY <3>3, <3>4, <3>5
  <2> HIDE DEF d
  <2>4. d = b
    BY <2>2, <2>3, SeqEqual
  <2> QED
    BY <2>1, <2>4 DEF b
<1> QED
  BY <1>4, <1>5, <1>13, <1>14, <1>15 DEF text, n
-------------------------------------------------------------------------------
(* A printed row is read back. *)

Occurs(text, p, e) == p + Len(e) <= Len(text) /\ \A j \in 1 .. Len(e) : text[p + j] = e[j]

InTwo(text, p, a, b, c) ==
    Occurs(text, p, a) /\ Occurs(text, p + Len(a), b) /\ Len(c) = Len(a) + Len(b)

LEMMA OccursParts ==
    ASSUME NEW text \in Text, NEW p \in Nat, NEW a \in Text, NEW b \in Text, NEW c, c = a \o b,
           Occurs(text, p, c)
    PROVE  InTwo(text, p, a, b, c)
<1>1. /\ Len(a) \in Nat /\ Len(b) \in Nat /\ Len(c) = Len(a) + Len(b) /\ Len(text) \in Nat
      /\ \A j \in 1 .. Len(a) : c[j] = a[j]
      /\ \A j \in 1 .. Len(b) : c[Len(a) + j] = b[j]
  BY DEF Text
<1>2. \A j \in 1 .. Len(a) : text[p + j] = a[j]
  BY <1>1 DEF Occurs
<1>3. ASSUME NEW j \in 1 .. Len(b) PROVE text[p + Len(a) + j] = b[j]
  <2>1. Len(a) + j \in 1 .. Len(c) /\ p + (Len(a) + j) = p + Len(a) + j
    BY <1>1
  <2> QED
    BY <1>1, <2>1 DEF Occurs
<1>4. p + Len(a) + Len(b) <= Len(text) /\ p + Len(a) <= Len(text)
  BY <1>1 DEF Occurs
<1> QED
  BY <1>1, <1>2, <1>3, <1>4 DEF Occurs, InTwo

\* A reader s that has not begun a field, once it has.
InField(s, field, quoted, started) ==
    [s EXCEPT !.field = field, !.started = started, !.quoted = quoted]

AtField(s) == s \in Reader /\ s.field = << >> /\ s.started = FALSE /\ s.quoted = FALSE /\ s.skip = FALSE

LEMMA InFieldType ==
    ASSUME NEW s, AtField(s), NEW f \in Text, NEW b \in BOOLEAN, NEW st \in BOOLEAN
    PROVE  LET r == InField(s, f, b, st)
           IN  /\ r \in Reader /\ r.field = f /\ r.quoted = b /\ r.started = st /\ r.skip = FALSE
               /\ r.row = s.row /\ r.records = s.records /\ r.starts = s.starts /\ r.from = s.from
  BY DEF InField, AtField, Reader

\* r is the reader s once it has begun a field.
HasField(r, s, f, b, st) ==
    /\ r \in Reader /\ r.field = f /\ r.quoted = b /\ r.started = st /\ r.skip = FALSE
    /\ r.row = s.row /\ r.records = s.records /\ r.starts = s.starts /\ r.from = s.from

LEMMA InFieldHas ==
    ASSUME NEW s, AtField(s), NEW f \in Text, NEW b \in BOOLEAN, NEW st \in BOOLEAN
    PROVE  HasField(InField(s, f, b, st), s, f, b, st)
  BY DEF InField, AtField, Reader, HasField

FieldSteps(s, f, c) ==
    /\ InField(s, << >>, FALSE, FALSE) = s
    /\ AddChar(InField(s, f, FALSE, FALSE), c) = InField(s, Append(f, c), FALSE, FALSE)
    /\ AddChar(InField(s, f, TRUE, TRUE), c) = InField(s, Append(f, c), TRUE, TRUE)
    /\ [InField(s, f, FALSE, FALSE) EXCEPT !.quoted = TRUE, !.started = TRUE] = InField(s, f, TRUE, TRUE)
    /\ [InField(s, f, TRUE, TRUE) EXCEPT !.quoted = FALSE] = InField(s, f, FALSE, TRUE)
    /\ LET r == [AddChar(InField(s, f, TRUE, TRUE), c) EXCEPT !.skip = TRUE]
       IN  /\ r \in Reader /\ r.skip = TRUE
           /\ [r EXCEPT !.skip = FALSE] = InField(s, Append(f, c), TRUE, TRUE)

LEMMA FieldStepsAre ==
    ASSUME NEW s, AtField(s), NEW f \in Text, NEW c \in Character
    PROVE  FieldSteps(s, f, c)
<1> DEFINE g == Append(f, c)
<1>1. /\ s = [records |-> s.records, starts |-> s.starts, from |-> s.from, row |-> s.row,
              field |-> << >>, started |-> FALSE, quoted |-> FALSE, skip |-> FALSE]
      /\ g \in Text /\ g = Append(f, c)
  BY DEF AtField, Reader, Text
<1> HIDE DEF g
<1>2. /\ InField(s, << >>, FALSE, FALSE) = s
      /\ [InField(s, f, FALSE, FALSE) EXCEPT !.quoted = TRUE, !.started = TRUE] = InField(s, f, TRUE, TRUE)
      /\ [InField(s, f, TRUE, TRUE) EXCEPT !.quoted = FALSE] = InField(s, f, FALSE, TRUE)
  <2> DEFINE x == InField(s, f, FALSE, FALSE)
             y == InField(s, f, TRUE, TRUE)
             z == InField(s, f, FALSE, TRUE)
             o == InField(s, << >>, FALSE, FALSE)
             xq == [x EXCEPT !.quoted = TRUE, !.started = TRUE]
             yc == [y EXCEPT !.quoted = FALSE]
  <2>1. << >> \in Text /\ TRUE \in BOOLEAN /\ FALSE \in BOOLEAN
    BY DEF Text
  <2>2. /\ o \in Reader /\ o.field = << >> /\ o.quoted = FALSE /\ o.started = FALSE /\ o.skip = FALSE
        /\ o.row = s.row /\ o.records = s.records /\ o.starts = s.starts /\ o.from = s.from
    BY <2>1, InFieldType
  <2>3. /\ x \in Reader /\ x.field = f /\ x.quoted = FALSE /\ x.started = FALSE /\ x.skip = FALSE
        /\ x.row = s.row /\ x.records = s.records /\ x.starts = s.starts /\ x.from = s.from
    BY <2>1, InFieldType
  <2>4. /\ y \in Reader /\ y.field = f /\ y.quoted = TRUE /\ y.started = TRUE /\ y.skip = FALSE
        /\ y.row = s.row /\ y.records = s.records /\ y.starts = s.starts /\ y.from = s.from
    BY <2>1, InFieldType
  <2>5. /\ z \in Reader /\ z.field = f /\ z.quoted = FALSE /\ z.started = TRUE /\ z.skip = FALSE
        /\ z.row = s.row /\ z.records = s.records /\ z.starts = s.starts /\ z.from = s.from
    BY <2>1, InFieldType
  <2> HIDE DEF o, x, y, z
  <2>6. o = s
    BY <2>2, SameReader DEF AtField
  <2>7. /\ xq \in Reader /\ xq.field = x.field /\ xq.quoted = TRUE /\ xq.started = TRUE
        /\ xq.skip = x.skip /\ xq.row = x.row /\ xq.records = x.records /\ xq.starts = x.starts
        /\ xq.from = x.from
    BY <2>3 DEF Reader
  <2>8. /\ yc \in Reader /\ yc.field = y.field /\ yc.quoted = FALSE /\ yc.started = y.started
        /\ yc.skip = y.skip /\ yc.row = y.row /\ yc.records = y.records /\ yc.starts = y.starts
        /\ yc.from = y.from
    BY <2>4 DEF Reader
  <2> HIDE DEF xq, yc
  <2>9. xq = y
    <3>1. SameFields(xq, y)
      BY <2>3, <2>4, <2>7 DEF SameFields
    <3> QED
      BY <3>1, SameFieldsSame
  <2>10. yc = z
    <3>1. SameFields(yc, z)
      BY <2>4, <2>5, <2>8 DEF SameFields
    <3> QED
      BY <3>1, SameFieldsSame
  <2> QED
    BY <2>6, <2>9, <2>10 DEF o, x, y, z, xq, yc
<1>3. \A b \in BOOLEAN, st \in BOOLEAN : AddChar(InField(s, f, b, st), c) = InField(s, g, b, st)
  BY <1>1 DEF InField, AddChar
<1>4. LET r == [InField(s, g, TRUE, TRUE) EXCEPT !.skip = TRUE]
      IN  /\ r \in Reader /\ r.skip = TRUE
          /\ [r EXCEPT !.skip = FALSE] = InField(s, g, TRUE, TRUE)
  <2> DEFINE a == InField(s, g, TRUE, TRUE)
  <2>1. a \in Reader /\ a.skip = FALSE
    BY <1>1, InFieldType
  <2> HIDE DEF a
  <2>2. [a EXCEPT !.skip = TRUE] \in Reader /\ [a EXCEPT !.skip = TRUE].skip = TRUE
    BY <2>1 DEF Reader
  <2>3. [[a EXCEPT !.skip = TRUE] EXCEPT !.skip = FALSE] = a
    <3> DEFINE d == [[a EXCEPT !.skip = TRUE] EXCEPT !.skip = FALSE]
    <3>1. /\ d \in Reader /\ d.records = a.records /\ d.starts = a.starts /\ d.from = a.from
          /\ d.row = a.row /\ d.field = a.field /\ d.started = a.started /\ d.quoted = a.quoted
          /\ d.skip = a.skip
      BY <2>1 DEF Reader
    <3> HIDE DEF d
    <3>2. d = a
      BY <2>1, <3>1, SameReader
    <3> QED
      BY <3>2 DEF d
  <2> QED
    BY <2>2, <2>3 DEF a
<1> QED
  BY <1>1, <1>2, <1>3, <1>4 DEF FieldSteps

LEMMA Turn ==
    ASSUME NEW text \in Text, NEW i \in 1 .. Len(text)
    PROVE  /\ Reads(text, ReadUpTo(text, i - 1), i, ReadUpTo(text, i))
           /\ StateAfter(text, i) = FieldChar(StateAfter(text, i - 1), text[i])
           /\ ReadUpTo(text, i - 1) \in Reader /\ ReadUpTo(text, i) \in Reader
<1>1. i \in Nat /\ i \in 0 .. Len(text) /\ i - 1 \in 0 .. Len(text)
  BY DEF Text
<1>2. /\ ReadUpTo(text, i) = ReadChar(text, ReadUpTo(text, i - 1), i)
      /\ ReadUpTo(text, i - 1) \in Reader /\ ReadUpTo(text, i) \in Reader
  BY <1>1, ReadTurns
<1>3. Reads(text, ReadUpTo(text, i - 1), i, ReadChar(text, ReadUpTo(text, i - 1), i))
  BY <1>1, <1>2, ReadCharIs
<1> QED
  BY <1>2, <1>3, StateTurns

NeedsQuotes(text) == ToSet(text) \cap {Comma, Quote, CR, LF} # {}

LEMMA PlainField ==
    ASSUME NEW text \in Text, NEW p \in Nat, NEW f \in Text, Delimiter = Comma, ~NeedsQuotes(f),
           Occurs(text, p, f), AtField(ReadUpTo(text, p)), StateAfter(text, p) = "start"
    PROVE  /\ ReadUpTo(text, p + Len(f)) = InField(ReadUpTo(text, p), f, FALSE, FALSE)
           /\ StateAfter(text, p + Len(f)) \in {"start", "plain"}
<1> DEFINE n == Len(f)
           s == ReadUpTo(text, p)
           g(j) == SubSeq(f, 1, j)
           T == {j \in 0 .. n : /\ ReadUpTo(text, p + j) = InField(s, g(j), FALSE, FALSE)
                                /\ StateAfter(text, p + j) \in {"start", "plain"}}
<1>1. n \in Nat /\ n \in 0 .. n /\ Len(text) \in Nat /\ p + n <= Len(text) /\ f \in Seq(Character)
  BY DEF Text, Occurs
<1>2. AtField(s)
  OBVIOUS
<1>3. 0 \in T
  <2>1. g(0) = << >>
    BY SubSeqEmpty
  <2>2. InField(s, << >>, FALSE, FALSE) = s
    <3>1. << >> \in Text /\ LF \in Character
      BY Characters
    <3>2. FieldSteps(s, << >>, LF)
      BY <1>2, <3>1, FieldStepsAre
    <3> QED
      BY <3>2 DEF FieldSteps
  <2>3. p + 0 = p
    OBVIOUS
  <2>4. ReadUpTo(text, p + 0) = s /\ StateAfter(text, p + 0) \in {"start", "plain"}
    BY <2>3
  <2> HIDE DEF s, g
  <2>5. InField(s, g(0), FALSE, FALSE) = s
    BY <2>1, <2>2
  <2>6. ReadUpTo(text, p + 0) = InField(s, g(0), FALSE, FALSE)
    BY <2>4, <2>5
  <2>7. 0 \in 0 .. n
    BY <1>1
  <2> HIDE DEF n
  <2> QED
    BY <2>4, <2>6, <2>7
<1>4. ASSUME NEW j \in 1 .. n, j - 1 \in T
      PROVE  j \in T
  <2> DEFINE c == f[j]
             i == p + j
             h == g(j - 1)
             r == ReadUpTo(text, i - 1)
             u == ReadUpTo(text, i)
             w == StateAfter(text, i - 1)
  <2>1. i \in 1 .. Len(text) /\ i - 1 = p + (j - 1) /\ j \in 0 .. n
    BY <1>1
  <2>2. text[i] = c /\ c \in Character
    BY <1>1 DEF Occurs
  <2>3. c \notin {Delimiter, Quote, CR, LF}
    <3>1. c \in ToSet(f)
      BY <1>1 DEF ToSet
    <3> QED
      BY <3>1 DEF NeedsQuotes
  <2>4. h \in Text /\ g(j) = Append(h, c)
    <3>1. OneMore(f, j) /\ SubSeq(f, 1, j - 1) \in Seq(Character)
      BY <1>1, SubSeqOneMore
    <3> QED
      BY <3>1 DEF OneMore, Text
  <2>5. r = InField(s, h, FALSE, FALSE) /\ w \in {"start", "plain"}
    BY <1>4, <2>1
  <2>6. Reads(text, r, i, u) /\ StateAfter(text, i) = FieldChar(w, text[i])
    BY <2>1, Turn
  <2> HIDE DEF c, i, h, r, u, w, s, g
  <2>7. ~r.skip /\ ~r.quoted
    BY <1>2, <2>4, <2>5, InFieldType
  <2>8. u = AddChar(r, c)
    BY <2>2, <2>3, <2>6, <2>7 DEF Reads
  <2>9. FieldSteps(s, h, c)
    BY <1>2, <2>2, <2>4, FieldStepsAre
  <2>10. u = InField(s, g(j), FALSE, FALSE)
    BY <2>4, <2>5, <2>8, <2>9 DEF FieldSteps
  <2>11. StateAfter(text, i) = "plain"
    BY <2>2, <2>3, <2>5, <2>6, FieldCharIs
  <2> QED
    BY <2>1, <2>10, <2>11 DEF u, i
<1> HIDE DEF T, n
<1>5. 0 .. n \subseteq T
  BY <1>1, <1>3, <1>4, UpToInduction
<1>6. ReadUpTo(text, p + n) = InField(s, g(n), FALSE, FALSE) /\ StateAfter(text, p + n) \in {"start", "plain"}
  BY <1>1, <1>5 DEF T
<1>7. g(n) = f
  BY <1>1, SubSeqFull DEF n
<1> QED
  BY <1>6, <1>7 DEF n

LEMMA PastQuotes ==
    ASSUME NEW p \in Nat, NEW m \in Nat, NEW l, NEW i, NEW e, l = (p + 1) + m, e = 1 + m + 1, i = l + 1
    PROVE  i = p + e /\ i \in Nat
  OBVIOUS

LEMMA QuotedField ==
    ASSUME NEW text \in Text, NEW p \in Nat, NEW f \in Text, Delimiter = Comma,
           NEW e, e = <<Quote>> \o FlattenSeq(Doubled(f)) \o <<Quote>>,
           Occurs(text, p, e), p + Len(e) < Len(text), text[p + Len(e) + 1] \in {Comma, LF},
           AtField(ReadUpTo(text, p)), StateAfter(text, p) = "start"
    PROVE  /\ ReadUpTo(text, p + Len(e)) = InField(ReadUpTo(text, p), f, FALSE, TRUE)
           /\ StateAfter(text, p + Len(e)) = "closed"
<1> DEFINE n == Len(f)
           s == ReadUpTo(text, p)
           g(j) == SubSeq(f, 1, j)
           middle == FlattenSeq(Doubled(f))
           q == p + 1
<1>1. n \in Nat /\ n \in 0 .. n /\ Len(text) \in Nat /\ f \in Seq(Character) /\ q \in Nat
  BY DEF Text
<1>2. AtField(s) /\ s \in Reader /\ << >> \in Text /\ LF \in Character
  BY Characters DEF AtField
<1>3. Doubled(f) \in Seq(Text) /\ Len(Doubled(f)) = n /\ middle \in Text
  BY DoubledType, FlattenType
<1>4. PICK joined : Joins(Doubled(f), joined)
  BY <1>3, FlattenJoins
<1> DEFINE at(j) == q + Len(joined[j])
           T == {j \in 0 .. n : /\ ReadUpTo(text, at(j)) = InField(s, g(j), TRUE, TRUE)
                                /\ StateAfter(text, at(j)) = "quoted"}
<1>5. /\ Occurs(text, p, <<Quote>>) /\ Occurs(text, q, middle) /\ Occurs(text, q + Len(middle), <<Quote>>)
      /\ Len(e) = 1 + Len(middle) + 1 /\ Len(middle) \in Nat
  <2> DEFINE first == <<Quote>> \o middle
             a == <<Quote>>
  <2>1. first \in Text /\ a \in Text /\ Len(a) = 1 /\ Len(middle) \in Nat
    BY <1>3, Characters, ConcatText DEF Text
  <2>2. e = first \o a /\ first = a \o middle
    OBVIOUS
  <2> HIDE DEF first, a, middle, q, s, g
  <2>6. InTwo(text, p, first, a, e)
    BY <2>1, <2>2, OccursParts
  <2>3. Occurs(text, p, first) /\ Occurs(text, p + Len(first), a) /\ Len(e) = Len(first) + Len(a)
    BY <2>6 DEF InTwo
  <2>7. InTwo(text, p, a, middle, first)
    BY <1>3, <2>1, <2>2, <2>3, OccursParts
  <2>4. Occurs(text, p, a) /\ Occurs(text, p + Len(a), middle) /\ Len(first) = Len(a) + Len(middle)
    BY <2>7 DEF InTwo
  <2>5. p + Len(first) = q + Len(middle) /\ p + Len(a) = q /\ Len(e) = 1 + Len(middle) + 1
    BY <2>1, <2>3, <2>4 DEF q
  <2> QED
    BY <2>1, <2>3, <2>4, <2>5 DEF a
<1>6. ASSUME NEW j \in 1 .. n
      PROVE  /\ at(j - 1) \in Nat /\ at(j) = at(j - 1) + Len(Doubled(f)[j]) /\ at(j) <= Len(text)
             /\ \A x \in 1 .. Len(Doubled(f)[j]) : text[at(j - 1) + x] = Doubled(f)[j][x]
  <2> DEFINE d == Doubled(f)[j]
             l == Len(joined[j - 1])
  <2>1. StandsAt(Doubled(f), joined, j)
    BY <1>3, <1>4, JoinedPieces
  <2>2. d \in Text /\ Len(d) \in Nat
    BY <1>3 DEF Text
  <2>3. /\ l \in Nat /\ Len(joined[j]) = l + Len(d) /\ l + Len(d) <= Len(middle) /\ Len(d) \in Nat
        /\ \A x \in 1 .. Len(d) : middle[l + x] = d[x]
    BY <2>1, <2>2 DEF StandsAt, Text
  <2> HIDE DEF d, l, middle, q
  <2>4. \A x \in 1 .. Len(d) : l + x \in 1 .. Len(middle) /\ q + (l + x) = (q + l) + x
    BY <1>1, <1>5, <2>3
  <2>5. \A x \in 1 .. Len(d) : text[(q + l) + x] = d[x]
    BY <1>5, <2>3, <2>4 DEF Occurs
  <2>6. q + l \in Nat /\ q + (l + Len(d)) = (q + l) + Len(d) /\ q + (l + Len(d)) <= Len(text)
    BY <1>1, <1>5, <2>3 DEF Occurs
  <2> QED
    BY <2>3, <2>5, <2>6 DEF d, l
<1>7. at(0) = q /\ at(n) = q + Len(middle)
  <2>1. joined[0] = << >> /\ joined[n] = middle
    BY <1>3, <1>4 DEF Joins
  <2> QED
    BY <1>1, <2>1
<1>8. q \in 1 .. Len(text) /\ q - 1 = p /\ text[q] = Quote
  <2>1. 1 \in 1 .. Len(<<Quote>>) /\ <<Quote>>[1] = Quote /\ Len(<<Quote>>) = 1
    OBVIOUS
  <2> QED
    BY <1>1, <1>5, <2>1 DEF Occurs
<1> HIDE DEF at, q, middle, g
<1>9. 0 \in T
  <2> DEFINE u == ReadUpTo(text, q)
  <2>1. Reads(text, s, q, u) /\ StateAfter(text, q) = FieldChar("start", Quote)
    BY <1>8, Turn
  <2>2. g(0) = << >>
    BY SubSeqEmpty DEF g
  <2>3. FieldSteps(s, << >>, LF)
    BY <1>2, FieldStepsAre
  <2> HIDE DEF s, u
  <2>4. u = [s EXCEPT !.quoted = TRUE, !.started = TRUE]
    BY <1>2, <1>8, <2>1, CsvTextAssumption DEF Reads, AtField
  <2>5. u = InField(s, << >>, TRUE, TRUE)
    BY <2>3, <2>4 DEF FieldSteps
  <2>6. StateAfter(text, q) = "quoted"
    BY <2>1, FieldCharIs, CsvTextAssumption DEF Quote, CR, LF
  <2>7. at(0) = q /\ 0 \in 0 .. n
    BY <1>1, <1>7
  <2> HIDE DEF n
  <2>8. ReadUpTo(text, at(0)) = InField(s, g(0), TRUE, TRUE)
    BY <2>2, <2>5, <2>7 DEF u
  <2>9. StateAfter(text, at(0)) = "quoted"
    BY <2>6, <2>7
  <2> QED
    BY <2>7, <2>8, <2>9
<1>10. ASSUME NEW j \in 1 .. n, j - 1 \in T
       PROVE  j \in T
  <2> DEFINE c == f[j]
             d == Doubled(f)[j]
             h == g(j - 1)
             k == at(j - 1)
             r == ReadUpTo(text, k)
             i == k + 1
             u == ReadUpTo(text, i)
  <2>1. r = InField(s, h, TRUE, TRUE) /\ StateAfter(text, k) = "quoted"
    BY <1>10
  <2>2. h \in Text /\ g(j) = Append(h, c) /\ c \in Character
    <3>1. OneMore(f, j) /\ SubSeq(f, 1, j - 1) \in Seq(Character)
      BY <1>1, SubSeqOneMore
    <3> QED
      BY <1>1, <3>1 DEF OneMore, Text, g
  <2>3. d = IF c = Quote THEN <<Quote, Quote>> ELSE <<c>>
    BY <1>1 DEF Doubled
  <2>4. /\ k \in Nat /\ at(j) = k + Len(d) /\ at(j) <= Len(text)
        /\ \A x \in 1 .. Len(d) : text[k + x] = d[x]
    BY <1>6
  <2>5. j \in 0 .. n
    BY <1>1
  <2> HIDE DEF c, d, h, k, r, s
  <2>6. FieldSteps(s, h, c)
    BY <1>2, <2>2, FieldStepsAre
  <2>7. ~r.skip /\ r.quoted
    BY <1>2, <2>1, <2>2, InFieldType
  <2>8. Len(d) >= 1 /\ d[1] = c
    BY <2>3
  <2>9. i \in 1 .. Len(text) /\ i - 1 = k /\ text[i] = c
    <3>1. Len(d) \in Nat
      BY <2>3
    <3> QED
      BY <1>1, <2>4, <2>8, <3>1
  <2>10. Reads(text, r, i, u) /\ StateAfter(text, i) = FieldChar("quoted", c)
    BY <2>1, <2>9, Turn DEF r
  <2>11. CASE c # Quote
    <3>1. at(j) = i
      BY <2>3, <2>4, <2>11
    <3> HIDE DEF i, u
    <3>2. u = AddChar(r, c)
      BY <2>7, <2>9, <2>10, <2>11 DEF Reads
    <3>3. u = InField(s, g(j), TRUE, TRUE)
      BY <2>1, <2>2, <2>6, <3>2 DEF FieldSteps
    <3>4. StateAfter(text, i) = "quoted"
      BY <2>10, <2>11, FieldCharIs
    <3> QED
      BY <2>5, <3>1, <3>3, <3>4 DEF u
  <2>12. CASE c = Quote
    <3> DEFINE i2 == k + 2
               u2 == ReadUpTo(text, i2)
    <3>1. at(j) = i2 /\ i2 \in 1 .. Len(text) /\ i2 - 1 = i /\ i + 1 = i2 /\ i < Len(text)
          /\ text[i2] = Quote
      <4>1. Len(d) = 2 /\ d[2] = Quote
        BY <2>3, <2>12
      <4>2. text[k + 2] = d[2]
        BY <2>4, <4>1
      <4> QED
        BY <1>1, <2>4, <4>1, <4>2
    <3>2. Reads(text, u, i2, u2) /\ StateAfter(text, i2) = FieldChar(StateAfter(text, i), Quote)
      BY <3>1, Turn
    <3> HIDE DEF i, u, i2, u2
    <3>3. u = [AddChar(r, c) EXCEPT !.skip = TRUE]
      BY <2>7, <2>9, <2>10, <2>12, <3>1 DEF Reads
    <3>4. u \in Reader /\ u.skip = TRUE /\ [u EXCEPT !.skip = FALSE] = InField(s, g(j), TRUE, TRUE)
      BY <2>1, <2>2, <2>6, <3>3 DEF FieldSteps
    <3>5. u2 = InField(s, g(j), TRUE, TRUE)
      BY <3>2, <3>4 DEF Reads
    <3>6. StateAfter(text, i2) = "quoted"
      <4>1. StateAfter(text, i) = "closed"
        BY <2>10, <2>12, FieldCharIs
      <4>2. FieldChar("closed", Quote) = "quoted"
        <5>1. Quote # Delimiter /\ Quote # CR /\ Quote # LF
          BY CsvTextAssumption DEF Quote, CR, LF
        <5> QED
          BY <5>1, FieldCharIs
      <4> QED
        BY <3>2, <4>1, <4>2
    <3> QED
      BY <2>5, <3>1, <3>5, <3>6 DEF u2
  <2> QED
    BY <2>11, <2>12
<1> HIDE DEF T, n
<1>11. 0 .. n \subseteq T
  BY <1>1, <1>9, <1>10, UpToInduction
<1> DEFINE l == q + Len(middle)
           i == l + 1
           r == ReadUpTo(text, l)
           u == ReadUpTo(text, i)
<1>12. r = InField(s, f, TRUE, TRUE) /\ StateAfter(text, l) = "quoted"
  <2>1. g(n) = f
    BY <1>1, SubSeqFull DEF g, n
  <2> QED
    BY <1>1, <1>7, <1>11, <2>1 DEF T
<1>13. i \in 1 .. Len(text) /\ i - 1 = l /\ i = p + Len(e) /\ i < Len(text) /\ text[i] = Quote
       /\ text[i + 1] \in {Comma, LF}
  <2>1. 1 \in 1 .. Len(<<Quote>>) /\ <<Quote>>[1] = Quote /\ Len(<<Quote>>) = 1
    OBVIOUS
  <2>2. text[l + 1] = Quote /\ l + 1 <= Len(text)
    BY <1>5, <2>1 DEF Occurs
  <2>3. i = p + Len(e) /\ i \in Nat
    <3> DEFINE m == Len(middle)
    <3>1. l = (p + 1) + m /\ m \in Nat /\ Len(e) = 1 + m + 1 /\ i = l + 1
      BY <1>5 DEF q
    <3> HIDE DEF m, l, i
    <3> QED
      BY <3>1, PastQuotes
  <2>4. i = l + 1 /\ l \in Nat /\ text[i] = Quote
    BY <1>1, <1>5, <2>2
  <2>5. Len(text) \in Nat /\ p + Len(e) < Len(text) /\ text[p + Len(e) + 1] \in {Comma, LF}
    BY <1>1, <1>5 DEF Text
  <2> HIDE DEF i, l
  <2> QED
    BY <2>3, <2>4, <2>5
<1>14. Reads(text, r, i, u) /\ StateAfter(text, i) = FieldChar("quoted", Quote)
  BY <1>12, <1>13, Turn
<1> HIDE DEF l, i, r, u, s
<1>15. ~r.skip /\ r.quoted
  BY <1>2, <1>12, InFieldType
<1>16. u = [r EXCEPT !.quoted = FALSE]
  <2>1. text[i + 1] \in {Delimiter, CR, LF, EndOfText} /\ i < Len(text)
    BY <1>13
  <2> QED
    BY <1>13, <1>14, <1>15, <2>1 DEF Reads
<1>17. FieldSteps(s, f, LF)
  BY <1>2, FieldStepsAre
<1>18. u = InField(s, f, FALSE, TRUE)
  BY <1>12, <1>16, <1>17 DEF FieldSteps
<1>19. StateAfter(text, i) = "closed"
  BY <1>14, FieldCharIs
<1> QED
  BY <1>13, <1>18, <1>19 DEF u, s

FieldRead(text, p, f, e) ==
    /\ ReadUpTo(text, p + Len(e)) = InField(ReadUpTo(text, p), f, FALSE, NeedsQuotes(f))
    /\ StateAfter(text, p + Len(e)) \in {"start", "plain", "closed"}

LEMMA FieldReads ==
    ASSUME NEW text \in Text, NEW p \in Nat, NEW f \in Text, Delimiter = Comma,
           NEW e, e = AppendCsvEscaped(f),
           Occurs(text, p, e), p + Len(e) < Len(text), text[p + Len(e) + 1] \in {Comma, LF},
           AtField(ReadUpTo(text, p)), StateAfter(text, p) = "start"
    PROVE  FieldRead(text, p, f, e)
<1>1. CASE ~NeedsQuotes(f)
  <2>1. e = f
    BY <1>1 DEF AppendCsvEscaped, NeedsQuotes
  <2>2. /\ ReadUpTo(text, p + Len(f)) = InField(ReadUpTo(text, p), f, FALSE, FALSE)
        /\ StateAfter(text, p + Len(f)) \in {"start", "plain"}
    BY <1>1, <2>1, PlainField
  <2>3. NeedsQuotes(f) = FALSE
    BY <1>1 DEF NeedsQuotes
  <2> QED
    BY <2>1, <2>2, <2>3 DEF FieldRead
<1>2. CASE NeedsQuotes(f)
  <2>1. e = <<Quote>> \o FlattenSeq(Doubled(f)) \o <<Quote>>
    BY <1>2 DEF AppendCsvEscaped, NeedsQuotes, Doubled
  <2>2. /\ ReadUpTo(text, p + Len(e)) = InField(ReadUpTo(text, p), f, FALSE, TRUE)
        /\ StateAfter(text, p + Len(e)) = "closed"
    BY <2>1, QuotedField
  <2>3. NeedsQuotes(f) = TRUE
    BY <1>2 DEF NeedsQuotes
  <2> QED
    BY <2>2, <2>3 DEF FieldRead
<1> QED
  BY <1>1, <1>2

\* The field is done: the next one begins.
Pushed(s, f, r) ==
    AtField(r) /\ Stays(s, r) /\ r.row = Append(s.row, f)

LEMMA CommaPushes ==
    ASSUME NEW text \in Text, NEW q \in Nat, q < Len(text), text[q + 1] = Comma, Delimiter = Comma,
           NEW s, AtField(s), NEW f \in Text, NEW b \in BOOLEAN,
           ReadUpTo(text, q) = InField(s, f, FALSE, b),
           StateAfter(text, q) \in {"start", "plain", "closed"}
    PROVE  Pushed(s, f, ReadUpTo(text, q + 1)) /\ StateAfter(text, q + 1) = "start"
<1> DEFINE i == q + 1
           r == InField(s, f, FALSE, b)
           u == ReadUpTo(text, i)
<1>1. i \in 1 .. Len(text) /\ i - 1 = q /\ text[i] = Comma
  BY DEF Text
<1>2. Reads(text, r, i, u) /\ StateAfter(text, i) = FieldChar(StateAfter(text, q), Comma)
  BY <1>1, Turn
<1>3. /\ r \in Reader /\ r.field = f /\ r.quoted = FALSE /\ r.started = b /\ r.skip = FALSE
      /\ r.row = s.row /\ r.records = s.records /\ r.starts = s.starts /\ r.from = s.from
  <2>1. HasField(r, s, f, FALSE, b)
    BY InFieldHas
  <2> HIDE DEF r
  <2> QED
    BY <2>1 DEF HasField
<1> HIDE DEF i, r, u
<1>4. u = PushField(r)
  BY <1>1, <1>2, <1>3 DEF Reads
<1>5. u \in Reader
  BY <1>3, <1>4, FinishRowType
<1>6. Pushed(s, f, u)
  BY <1>3, <1>4, <1>5 DEF Pushed, AtField, Stays, PushField, Reader
<1>7. StateAfter(text, i) = "start"
  BY <1>2, FieldCharIs
<1> QED
  BY <1>6, <1>7 DEF i, u

\* The row that ends with the field f; an empty line has no field.
RowWith(row, f, started) == IF f # << >> \/ started \/ row # << >> THEN Append(row, f) ELSE << >>

LEMMA LineFeedEnds ==
    ASSUME NEW text \in Text, NEW q \in Nat, q < Len(text), text[q + 1] = LF,
           NEW s, AtField(s), NEW f \in Text, NEW b \in BOOLEAN,
           ReadUpTo(text, q) = InField(s, f, FALSE, b),
           StateAfter(text, q) \in {"start", "plain", "closed"}
    PROVE  /\ ReadUpTo(text, q + 1) = At(q + 1, Append(s.records, RowWith(s.row, f, b)),
                                         Append(s.starts, s.from))
           /\ StateAfter(text, q + 1) = "start"
<1> DEFINE i == q + 1
           r == InField(s, f, FALSE, b)
           u == ReadUpTo(text, i)
           w == RowWith(s.row, f, b)
           t == IF r.field # << >> \/ r.started \/ r.row # << >> THEN PushField(r) ELSE r
<1>1. i \in 1 .. Len(text) /\ i - 1 = q /\ text[i] = LF /\ i \in Nat
  BY DEF Text
<1>2. Reads(text, r, i, u) /\ StateAfter(text, i) = FieldChar(StateAfter(text, q), LF)
  BY <1>1, Turn
<1>3. /\ r \in Reader /\ r.field = f /\ r.quoted = FALSE /\ r.started = b /\ r.skip = FALSE
      /\ r.row = s.row /\ r.records = s.records /\ r.starts = s.starts /\ r.from = s.from
  <2>1. HasField(r, s, f, FALSE, b)
    BY InFieldHas
  <2> HIDE DEF r
  <2> QED
    BY <2>1 DEF HasField
<1> HIDE DEF i, r, u, w
<1>4. u = PushRow(t, i)
  <2>1. u = FinishRow(r, i)
    BY <1>1, <1>2, <1>3, CsvTextAssumption DEF Reads
  <2> QED
    BY <2>1 DEF FinishRow
<1>5. /\ t \in Reader /\ t.row = w /\ t.field = << >> /\ t.started = FALSE
      /\ t.quoted = FALSE /\ t.skip = FALSE
      /\ t.records = s.records /\ t.starts = s.starts /\ t.from = s.from
  <2>1. PushField(r) \in Reader
    BY <1>1, <1>3, FinishRowType
  <2>2. CASE f # << >> \/ b \/ s.row # << >>
    <3>1. t = PushField(r)
      BY <1>3, <2>2
    <3>2. w = Append(s.row, f)
      BY <2>2 DEF w, RowWith
    <3>3. /\ t.row = Append(r.row, r.field) /\ t.field = << >> /\ t.started = FALSE
          /\ t.quoted = r.quoted /\ t.skip = r.skip
          /\ t.records = r.records /\ t.starts = r.starts /\ t.from = r.from
      BY <1>3, <3>1 DEF PushField, Reader
    <3> QED
      BY <1>3, <2>1, <3>1, <3>2, <3>3
  <2>3. CASE ~(f # << >> \/ b \/ s.row # << >>)
    <3>1. t = r
      BY <1>3, <2>3
    <3>2. w = << >>
      BY <2>3 DEF w, RowWith
    <3> QED
      BY <1>3, <2>3, <3>1, <3>2
  <2> QED
    BY <2>2, <2>3
<1> HIDE DEF t
<1> DEFINE recs == Append(s.records, w)
           sts  == Append(s.starts, s.from)
<1>6. /\ u \in Reader /\ u.records = recs /\ u.row = << >> /\ u.starts = sts /\ u.from = i
      /\ u.field = << >> /\ u.started = FALSE /\ u.quoted = FALSE /\ u.skip = FALSE
  <2> DEFINE v == PushRow(t, i)
  <2>1. /\ v \in Reader /\ v.records = Append(t.records, t.row) /\ v.row = << >>
        /\ v.starts = Append(t.starts, t.from) /\ v.from = i /\ v.field = t.field
        /\ v.started = t.started /\ v.quoted = t.quoted /\ v.skip = t.skip
    BY <1>1, <1>5, PushRowIs
  <2> HIDE DEF v
  <2>2. u = v
    BY <1>4 DEF v
  <2> QED
    BY <1>5, <2>1, <2>2
<1>7. recs \in Seq(Seq(Text)) /\ sts \in Seq(Nat)
  BY <1>6 DEF Reader
<1> HIDE DEF recs, sts
<1>8. u = At(i, recs, sts)
  <2> DEFINE a == At(i, recs, sts)
  <2>1. /\ a \in Reader /\ a.records = recs /\ a.starts = sts /\ a.from = i
        /\ a.row = << >> /\ a.field = << >>
        /\ a.started = FALSE /\ a.quoted = FALSE /\ a.skip = FALSE
    BY <1>1, <1>7, AtType
  <2> HIDE DEF a
  <2>2. u = a
    BY <1>6, <2>1, SameReader
  <2> QED
    BY <2>2 DEF a
<1>9. StateAfter(text, i) = "start"
  <2>1. LF # CR /\ LF # Quote /\ LF \in {Delimiter, LF}
    BY DEF LF, CR, Quote
  <2> QED
    BY <1>2, <2>1, FieldCharIs
<1> QED
  BY <1>8, <1>9 DEF i, u, recs, sts, w

\* The field c of a printed row stands between the offsets p and q.
FieldStands(texts, joined, c) ==
    LET text == AppendCsvRow(texts)
        e    == AppendCsvEscaped(texts[c])
        p    == IF c = 1 THEN 0 ELSE Len(joined[c - 1]) + 1
        q    == Len(joined[c])
    IN  /\ e \in Text /\ p \in Nat /\ q \in Nat /\ q = p + Len(e) /\ q < Len(text)
        /\ Occurs(text, p, e)
        /\ c < Len(texts) => text[q + 1] = Comma
        /\ c = Len(texts) => text[q + 1] = LF /\ Len(text) = q + 1

LEMMA ConcatIs ==
    ASSUME NEW a \in Text, NEW b \in Text, NEW d, d = a \o b
    PROVE  /\ Len(a) \in Nat /\ Len(b) \in Nat /\ Len(d) = Len(a) + Len(b)
           /\ \A j \in 1 .. Len(a) : d[j] = a[j]
  BY DEF Text

LEMMA ConcatFirst ==
    ASSUME NEW a \in Text, NEW b \in Text, NEW d, d = a \o b, Len(a) = 1
    PROVE  Len(d) \in Nat /\ Len(d) >= 1 /\ d[1] = a[1]
<1>1. Len(b) \in Nat
  BY ConcatIs
<1>2. Len(d) = Len(a) + Len(b)
  BY ConcatIs
<1>3. \A j \in 1 .. Len(a) : d[j] = a[j]
  BY ConcatIs
<1>4. 1 \in 1 .. Len(a)
  OBVIOUS
<1> QED
  BY <1>1, <1>2, <1>3, <1>4

LEMMA RowLayout ==
    ASSUME NEW texts \in Seq(Text), NEW joined, Joins(Separated(texts), joined),
           NEW c \in 1 .. Len(texts)
    PROVE  FieldStands(texts, joined, c)
<1> DEFINE sep == Separated(texts)
           n == Len(texts)
           F == FlattenSeq(sep)
           text == AppendCsvRow(texts)
           e == AppendCsvEscaped(texts[c])
           l == Len(joined[c - 1])
           p == IF c = 1 THEN 0 ELSE l + 1
           q == Len(joined[c])
           d == sep[c]
<1>1. sep \in Seq(Text) /\ Len(sep) = n /\ n \in Nat
  BY SeparatedType
<1>2. /\ StandsAt(sep, joined, c)
      /\ c < n => StandsAt(sep, joined, c + 1)
  <2>1. c < n => c + 1 \in 1 .. Len(sep)
    BY <1>1
  <2> HIDE DEF sep
  <2>2. c \in 1 .. Len(sep)
    BY <1>1
  <2>3. Joins(sep, joined)
    BY DEF sep
  <2> QED
    BY <1>1, <2>1, <2>2, <2>3, JoinedPieces
<1>3. text \in Text /\ text = F \o <<LF>> /\ e \in Text /\ F \in Text /\ d \in Text
  <2>1. texts[c] \in Text
    OBVIOUS
  <2>2. F \in Text
    BY <1>1, FlattenType
  <2>3. d \in Text
    BY <1>1
  <2> QED
    BY <2>1, <2>2, <2>3, RowType, EscapedType
<1>4. /\ Len(F) \in Nat /\ Len(text) = Len(F) + 1 /\ text[Len(F) + 1] = LF
      /\ \A j \in 1 .. Len(F) : text[j] = F[j]
  <2> HIDE DEF F, text
  <2> QED
    BY <1>3 DEF Text
<1>5. /\ l \in Nat /\ q = l + Len(d) /\ l + Len(d) <= Len(F) /\ Len(d) \in Nat
      /\ \A j \in 1 .. Len(d) : F[l + j] = d[j]
      /\ c = n => q = Len(F)
  <2> HIDE DEF sep
  <2>1. Len(d) \in Nat
    BY <1>3 DEF Text
  <2> QED
    BY <1>1, <1>2, <2>1 DEF StandsAt
<1>6. d = (IF c = 1 THEN e ELSE <<Comma>> \o e)
  BY DEF Separated
<1>7. c < n => sep[c + 1] = <<Comma>> \o AppendCsvEscaped(texts[c + 1]) /\ AppendCsvEscaped(texts[c + 1]) \in Text
  <2> SUFFICES ASSUME c < n
               PROVE  sep[c + 1] = <<Comma>> \o AppendCsvEscaped(texts[c + 1])
                      /\ AppendCsvEscaped(texts[c + 1]) \in Text
    OBVIOUS
  <2>1. c + 1 \in DOMAIN texts /\ c + 1 # 1 /\ texts[c + 1] \in Text
    BY <1>1
  <2> QED
    BY <2>1, EscapedType DEF Separated
<1>8. c = 1 => l = 0
  BY <1>1 DEF Joins
<1> HIDE DEF F, text, e, d, l, q, n
<1>9. Occurs(text, l, d)
  <2>1. \A j \in 1 .. Len(d) : l + j \in 1 .. Len(F)
    BY <1>4, <1>5
  <2> QED
    BY <1>4, <1>5, <2>1 DEF Occurs
<1>10. Occurs(text, p, e) /\ p \in Nat /\ q = p + Len(e)
  <2>1. CASE c = 1
    BY <1>5, <1>6, <1>8, <1>9, <2>1
  <2>2. CASE c # 1
    <3> DEFINE a == <<Comma>>
    <3>1. a \in Text /\ Len(a) = 1 /\ d = a \o e /\ Len(e) \in Nat
      BY <1>3, <1>6, <2>2, Characters DEF Text
    <3> HIDE DEF a
    <3>2. InTwo(text, l, a, e, d)
      BY <1>3, <1>5, <1>9, <3>1, OccursParts
    <3>3. Occurs(text, l + 1, e) /\ Len(d) = 1 + Len(e)
      BY <3>1, <3>2 DEF InTwo
    <3>4. p = l + 1
      BY <2>2
    <3> HIDE DEF p
    <3> QED
      BY <1>5, <3>1, <3>3, <3>4
  <2> QED
    BY <2>1, <2>2
<1>11. q < Len(text) /\ q \in Nat
  BY <1>4, <1>5
<1>12. c = n => text[q + 1] = LF /\ Len(text) = q + 1
  BY <1>4, <1>5
<1>13. c < n => text[q + 1] = Comma
  <2> SUFFICES ASSUME c < n PROVE text[q + 1] = Comma
    OBVIOUS
  <2> DEFINE g == sep[c + 1]
             a == <<Comma>>
             b == AppendCsvEscaped(texts[c + 1])
  <2>1. g = a \o b /\ b \in Text /\ a \in Text /\ Len(a) = 1 /\ a[1] = Comma
    BY <1>7, Characters
  <2>2. q + Len(g) <= Len(F) /\ \A j \in 1 .. Len(g) : F[q + j] = g[j]
    <3>1. (c + 1) - 1 = c
      OBVIOUS
    <3> HIDE DEF sep
    <3> QED
      BY <1>2, <3>1 DEF StandsAt, F, q
  <2> HIDE DEF g, a, b
  <2>3. Len(g) \in Nat /\ Len(g) >= 1 /\ g[1] = Comma
    <3>1. Len(g) \in Nat /\ Len(g) >= 1 /\ g[1] = a[1]
      BY <2>1, ConcatFirst
    <3> QED
      BY <2>1, <3>1
  <2>4. 1 \in 1 .. Len(g) /\ q + 1 \in 1 .. Len(F)
    BY <1>4, <1>11, <2>2, <2>3
  <2> QED
    BY <1>4, <2>2, <2>3, <2>4
<1> HIDE DEF p
<1>14. p = IF c = 1 THEN 0 ELSE l + 1
  BY DEF p
<1> QED
  BY <1>3, <1>10, <1>11, <1>12, <1>13 DEF FieldStands, text, e, l, p, q, n

\* What is read of a printed row: an empty field alone is an empty line.
Printed(texts) == IF texts = << << >> >> THEN << >> ELSE texts

LEMMA LastField ==
    ASSUME NEW texts \in Seq(Text), texts # << >>
    PROVE  LET n == Len(texts)
           IN  RowWith(SubSeq(texts, 1, n - 1), texts[n], NeedsQuotes(texts[n])) = Printed(texts)
<1> DEFINE n == Len(texts)
           a == SubSeq(texts, 1, n - 1)
           f == texts[n]
           b == NeedsQuotes(f)
<1>1. n \in Nat /\ n >= 1 /\ n \in 1 .. Len(texts) /\ f \in Text
  BY EmptySeq
<1>2. OneMore(texts, n) /\ a \in Seq(Text) /\ Len(a) = n - 1
  BY <1>1, SubSeqOneMore
<1>3. texts = Append(a, f)
  BY <1>1, <1>2, SubSeqFull DEF OneMore
<1>4. CASE f # << >> \/ b \/ a # << >>
  <2>1. RowWith(a, f, b) = Append(a, f)
    BY <1>4 DEF RowWith
  <2>2. texts # << << >> >>
    <3>1. CASE a # << >>
      <4>1. n - 1 # 0
        BY <1>2, <3>1, EmptySeq
      <4>2. Len(<< << >> >>) = 1
        OBVIOUS
      <4> QED
        BY <1>1, <4>1, <4>2
    <3>2. CASE f # << >>
      <4>1. CASE n = 1
        BY <3>2, <4>1
      <4>2. CASE n # 1
        BY <4>2
      <4> QED
        BY <4>1, <4>2
    <3>3. CASE b
      <4>1. f # << >>
        BY <3>3 DEF NeedsQuotes, ToSet
      <4>2. CASE n = 1
        BY <4>1, <4>2
      <4>3. CASE n # 1
        BY <4>3
      <4> QED
        BY <4>2, <4>3
    <3> QED
      BY <1>4, <3>1, <3>2, <3>3
  <2> QED
    BY <1>3, <2>1, <2>2 DEF Printed
<1>5. CASE ~(f # << >> \/ b \/ a # << >>)
  <2>1. RowWith(a, f, b) = << >>
    BY <1>5 DEF RowWith
  <2>2. texts = << << >> >>
    BY <1>3, <1>5
  <2> QED
    BY <2>1, <2>2 DEF Printed
<1> QED
  BY <1>4, <1>5

\* The reader where field c + 1 begins.
FieldBegins(texts, joined, c) ==
    LET text == AppendCsvRow(texts)
        p    == IF c = 0 THEN 0 ELSE Len(joined[c]) + 1
        r    == ReadUpTo(text, p)
    IN  /\ AtField(r) /\ r.records = << >> /\ r.starts = << >> /\ r.from = 0
        /\ r.row = SubSeq(texts, 1, c)
        /\ StateAfter(text, p) = "start"

LEMMA FieldDone ==
    ASSUME NEW texts \in Seq(Text), Delimiter = Comma, NEW joined,
           NEW c \in 1 .. Len(texts), FieldStands(texts, joined, c), FieldBegins(texts, joined, c - 1)
    PROVE  LET text == AppendCsvRow(texts)
               p    == IF c = 1 THEN 0 ELSE Len(joined[c - 1]) + 1
               q    == Len(joined[c])
           IN  /\ AtField(ReadUpTo(text, p))
               /\ ReadUpTo(text, q) = InField(ReadUpTo(text, p), texts[c], FALSE, NeedsQuotes(texts[c]))
               /\ StateAfter(text, q) \in {"start", "plain", "closed"}
<1> DEFINE text == AppendCsvRow(texts)
           e == AppendCsvEscaped(texts[c])
           p == IF c = 1 THEN 0 ELSE Len(joined[c - 1]) + 1
           q == Len(joined[c])
           f == texts[c]
<1>1. text \in Text /\ f \in Text
  BY RowType
<1>2. /\ e \in Text /\ p \in Nat /\ q \in Nat /\ q = p + Len(e) /\ q < Len(text)
      /\ Occurs(text, p, e) /\ text[q + 1] \in {Comma, LF}
  <2>1. c < Len(texts) \/ c = Len(texts)
    OBVIOUS
  <2> QED
    BY <2>1 DEF FieldStands
<1>3. p = IF c - 1 = 0 THEN 0 ELSE Len(joined[c - 1]) + 1
  OBVIOUS
<1>4. e = AppendCsvEscaped(f)
  OBVIOUS
<1>5. AtField(ReadUpTo(text, p)) /\ StateAfter(text, p) = "start"
  <2> HIDE DEF p, text
  <2> QED
    BY <1>3 DEF FieldBegins, text
<1> HIDE DEF text, e, p, q, f
<1>6. FieldRead(text, p, f, e)
  BY <1>1, <1>2, <1>4, <1>5, FieldReads
<1>7. /\ ReadUpTo(text, q) = InField(ReadUpTo(text, p), f, FALSE, NeedsQuotes(f))
      /\ StateAfter(text, q) \in {"start", "plain", "closed"}
  BY <1>2, <1>6 DEF FieldRead
<1> QED
  BY <1>5, <1>7 DEF text, p, q, f

(* A row the save prints is one line, and the importer's reader reads it as   *)
(* that row, whatever characters its texts have (AppendCsvRow, parse).        *)
THEOREM RowReads ==
    ASSUME NEW texts \in Seq(Text), texts # << >>, Delimiter = Comma
    PROVE  Line(AppendCsvRow(texts), Printed(texts))
<1> DEFINE sep == Separated(texts)
           n == Len(texts)
           text == AppendCsvRow(texts)
<1>1. n \in Nat /\ n >= 1 /\ n - 1 \in Nat /\ 0 \in 0 .. n - 1 /\ n \in 1 .. n
  BY EmptySeq
<1>2. sep \in Seq(Text) /\ text \in Text
  BY SeparatedType, RowType
<1>3. PICK joined : Joins(sep, joined)
  BY <1>2, FlattenJoins
<1>4. \A c \in 1 .. n : FieldStands(texts, joined, c)
  BY <1>3, RowLayout
<1> DEFINE T == {c \in 0 .. n - 1 : FieldBegins(texts, joined, c)}
<1>5. 0 \in T
  <2>1. ReadUpTo(text, 0) = Fresh /\ StateAfter(text, 0) = "start"
    BY <1>2, ReadTurns, StateTurns
  <2>2. SubSeq(texts, 1, 0) = << >>
    BY SubSeqEmpty
  <2>3. /\ AtField(Fresh) /\ Fresh.records = << >> /\ Fresh.starts = << >> /\ Fresh.from = 0
        /\ Fresh.row = << >>
    BY AtType DEF AtField
  <2>4. FieldBegins(texts, joined, 0)
    BY <2>1, <2>2, <2>3 DEF FieldBegins
  <2> QED
    BY <1>1, <2>4
<1>6. ASSUME NEW c \in 1 .. n - 1, c - 1 \in T
      PROVE  c \in T
  <2> DEFINE p == IF c = 1 THEN 0 ELSE Len(joined[c - 1]) + 1
             q == Len(joined[c])
             f == texts[c]
             b == NeedsQuotes(f)
             s == ReadUpTo(text, p)
             u == ReadUpTo(text, q + 1)
  <2>1. c \in 1 .. n /\ c < n /\ c \in 0 .. n - 1 /\ c # 0
    BY <1>1
  <2>2. FieldStands(texts, joined, c) /\ FieldBegins(texts, joined, c - 1)
    BY <1>4, <1>6, <2>1
  <2>3. /\ AtField(s) /\ ReadUpTo(text, q) = InField(s, f, FALSE, b)
        /\ StateAfter(text, q) \in {"start", "plain", "closed"}
    BY <2>1, <2>2, FieldDone
  <2>4. q \in Nat /\ q < Len(text) /\ text[q + 1] = Comma /\ f \in Text /\ b \in BOOLEAN
    <3>1. b \in BOOLEAN
      BY DEF NeedsQuotes
    <3>2. f \in Text
      BY <2>1
    <3> HIDE DEF f, b, p
    <3> QED
      BY <2>1, <2>2, <3>1, <3>2 DEF FieldStands
  <2>5. /\ s.records = << >> /\ s.starts = << >> /\ s.from = 0 /\ s.row = SubSeq(texts, 1, c - 1)
    <3>1. p = IF c - 1 = 0 THEN 0 ELSE Len(joined[c - 1]) + 1
      BY <2>1
    <3> HIDE DEF p, text
    <3> QED
      BY <2>2, <3>1 DEF FieldBegins, text
  <2> HIDE DEF p, q, b, s, text
  <2>6. Pushed(s, f, u) /\ StateAfter(text, q + 1) = "start"
    BY <1>2, <2>3, <2>4, CommaPushes
  <2>7. SubSeq(texts, 1, c) = Append(SubSeq(texts, 1, c - 1), f)
    <3>1. OneMore(texts, c)
      BY <2>1, SubSeqOneMore
    <3> QED
      BY <3>1 DEF OneMore
  <2> HIDE DEF u, f
  <2>8. /\ AtField(u) /\ u.records = << >> /\ u.starts = << >> /\ u.from = 0
        /\ u.row = SubSeq(texts, 1, c)
    BY <2>5, <2>6, <2>7 DEF Pushed, Stays
  <2>9. FieldBegins(texts, joined, c)
    BY <2>1, <2>6, <2>8 DEF FieldBegins, u, q, text
  <2> QED
    BY <2>1, <2>9
<1> HIDE DEF T
<1>7. 0 .. n - 1 \subseteq T
  <2> DEFINE m == n - 1
  <2>1. m \in Nat /\ 0 \in T /\ \A c \in 1 .. m : c - 1 \in T => c \in T
    BY <1>1, <1>5, <1>6
  <2> HIDE DEF m
  <2>2. 0 .. m \subseteq T
    BY <2>1, UpToInduction
  <2> QED
    BY <2>2 DEF m
<1> DEFINE p == IF n = 1 THEN 0 ELSE Len(joined[n - 1]) + 1
           q == Len(joined[n])
           f == texts[n]
           b == NeedsQuotes(f)
           s == ReadUpTo(text, p)
           u == ReadUpTo(text, q + 1)
           w == RowWith(s.row, f, b)
<1>8. FieldStands(texts, joined, n) /\ FieldBegins(texts, joined, n - 1)
  <2>1. n - 1 \in 0 .. n - 1
    BY <1>1
  <2> QED
    BY <1>1, <1>4, <1>7, <2>1 DEF T
<1>9. /\ AtField(s) /\ ReadUpTo(text, q) = InField(s, f, FALSE, b)
      /\ StateAfter(text, q) \in {"start", "plain", "closed"}
  BY <1>1, <1>8, FieldDone
<1>10. /\ q \in Nat /\ q < Len(text) /\ text[q + 1] = LF /\ Len(text) = q + 1
       /\ f \in Text /\ b \in BOOLEAN
  <2>1. b \in BOOLEAN
    BY DEF NeedsQuotes
  <2>2. f \in Text
    BY <1>1
  <2> HIDE DEF f, b, p
  <2> QED
    BY <1>1, <1>8, <2>1, <2>2 DEF FieldStands
<1>11. s.records = << >> /\ s.starts = << >> /\ s.from = 0 /\ s.row = SubSeq(texts, 1, n - 1)
  <2>1. p = IF n - 1 = 0 THEN 0 ELSE Len(joined[n - 1]) + 1
    BY <1>1
  <2> HIDE DEF p, text, n
  <2> QED
    BY <1>8, <2>1 DEF FieldBegins, text
<1>12. w = Printed(texts)
  <2>1. RowWith(SubSeq(texts, 1, n - 1), f, b) = Printed(texts)
    BY LastField
  <2> HIDE DEF s, f, b, n
  <2> QED
    BY <1>11, <2>1
<1> HIDE DEF p, q, f, b, s, text
<1>13. /\ u = At(q + 1, Append(s.records, w), Append(s.starts, s.from))
       /\ StateAfter(text, q + 1) = "start"
  BY <1>2, <1>9, <1>10, LineFeedEnds
<1> HIDE DEF w
<1>14. Append(s.records, w) = <<Printed(texts)>> /\ Append(s.starts, s.from) = <<0>>
  BY <1>11, <1>12
<1>15. ReadUpTo(text, Len(text)) = At(Len(text), <<Printed(texts)>>, <<0>>)
       /\ StateAfter(text, Len(text)) = "start"
  BY <1>10, <1>13, <1>14
<1>16. text # << >> /\ Last(text) = LF
  <2>1. Last(text) = text[Len(text)]
    BY DEF Last
  <2>2. Len(text) # 0
    BY <1>10
  <2> QED
    BY <1>10, <2>1, <2>2
<1> QED
  BY <1>2, <1>15, <1>16 DEF Line, text
-------------------------------------------------------------------------------
(* The save. *)

\* The records of the file a save writes: the edited rows as they are read
\* again, every other record as it was.
Rereads(text, cells, rows) ==
    [k \in 1 .. Len(Read(text).records) |->
        IF k - 1 \in rows THEN Printed(cells[k - 1]) ELSE Read(text).records[k]]

Spliced(text, cells, rows, new) ==
    /\ new \in Text /\ WellFormed(new)
    /\ Read(new).records = Rereads(text, cells, rows)
    /\ Len(Read(new).starts) = Len(Read(text).starts)
    /\ \A k \in DOMAIN Read(text).starts \ {r + 1 : r \in rows} :
          RecordText(new, Read(new).starts, k) = RecordText(text, Read(text).starts, k)

LEMMA PrintedType ==
    ASSUME NEW texts \in Seq(Text)
    PROVE  Printed(texts) \in Seq(Text)
  BY DEF Printed

LEMMA RereadsType ==
    ASSUME NEW text \in Text, NEW cells \in Seq(Seq(Text)), NEW rows \in SUBSET DOMAIN cells
    PROVE  /\ Rereads(text, cells, rows) \in Seq(Seq(Text))
           /\ Len(Rereads(text, cells, rows)) = Len(Read(text).records)
<1> DEFINE n == Len(Read(text).records)
           recs == Read(text).records
           f == Rereads(text, cells, rows)
<1>1. recs \in Seq(Seq(Text)) /\ n \in Nat
  BY ReadType
<1>2. f = [k \in 1 .. n |-> f[k]]
  BY DEF Rereads
<1>3. ASSUME NEW k \in 1 .. n PROVE f[k] \in Seq(Text)
  <2> HIDE DEF n
  <2>1. CASE k - 1 \in rows
    <3>1. cells[k - 1] \in Seq(Text)
      BY <2>1
    <3>2. f[k] = Printed(cells[k - 1])
      BY <2>1 DEF Rereads, n
    <3> QED
      BY <3>1, <3>2, PrintedType
  <2>2. CASE k - 1 \notin rows
    <3>1. f[k] = recs[k]
      BY <2>2 DEF Rereads, n
    <3> QED
      BY <1>1, <3>1 DEF n
  <2> QED
    BY <2>1, <2>2
<1> HIDE DEF n, f
<1> QED
  BY <1>1, <1>2, <1>3, MakesSequence DEF n, f

LEMMA SpliceReads ==
    ASSUME Delimiter = Comma, NEW text \in Text, WellFormed(text), NEW cells \in Seq(Seq(Text)),
           NEW labels, NEW rows \in SUBSET DOMAIN cells,
           Len(Read(text).records) = Len(cells) + 1, \A r \in rows : cells[r] # << >>
    PROVE  Spliced(text, cells, rows, Export(text, cells, labels, rows))
<1> DEFINE starts == Read(text).starts
           recs   == Read(text).records
           n      == Len(cells) + 1
           part(k) == IF k - 1 \in rows THEN AppendCsvRow(cells[k - 1]) ELSE RecordText(text, starts, k)
           parts  == [k \in 1 .. n |-> part(k)]
           new    == Export(text, cells, labels, rows)
           recs2  == Rereads(text, cells, rows)
<1>1. n \in Nat /\ n >= 1
  OBVIOUS
<1>2. /\ starts \in Seq(Nat) /\ Len(starts) = n /\ recs \in Seq(Seq(Text)) /\ Len(recs) = n
      /\ DOMAIN starts = 1 .. n
  <2>1. Known(text, recs, starts)
    BY RecordsBegin
  <2>2. Len(recs) = Len(starts)
    BY <2>1 DEF Known
  <2> QED
    BY <2>2, ReadType
<1>3. ScanCsvRecordStarts(text) = starts
  BY ScannerFindsRecords
<1>4. new = FlattenSeq(parts)
  BY <1>2, <1>3 DEF Export
<1>5. recs2 \in Seq(Seq(Text)) /\ Len(recs2) = n
  BY <1>2, RereadsType
<1>6. ASSUME NEW k \in 1 .. n
      PROVE  /\ part(k) \in Text /\ OneRecord(part(k), recs2[k])
             /\ k < n => Line(part(k), recs2[k])
  <2> HIDE DEF n
  <2>1. CASE k - 1 \in rows
    <3> DEFINE row == cells[k - 1]
    <3>1. row \in Seq(Text) /\ row # << >>
      BY <2>1
    <3>2. Line(AppendCsvRow(row), Printed(row)) /\ Printed(row) \in Seq(Text)
      BY <3>1, RowReads, PrintedType
    <3>3. part(k) = AppendCsvRow(row) /\ recs2[k] = Printed(row)
      BY <1>2, <2>1 DEF Rereads
    <3> HIDE DEF row, part, recs2
    <3>4. OneRecord(AppendCsvRow(row), Printed(row)) /\ AppendCsvRow(row) \in Text
      BY <3>2, LineIsRecord DEF Line
    <3> QED
      BY <3>2, <3>3, <3>4
  <2>2. CASE k - 1 \notin rows
    <3> DEFINE piece == RecordText(text, starts, k)
    <3>1. part(k) = piece /\ recs2[k] = recs[k]
      BY <1>2, <2>2 DEF Rereads
    <3>2. k \in 1 .. Len(starts)
      BY <1>2
    <3>3. OneRecord(piece, recs[k]) /\ (k < Len(starts) => Line(piece, recs[k]))
      BY <3>2, PieceRecord
    <3> HIDE DEF part, recs2, piece
    <3> QED
      BY <1>2, <3>1, <3>3 DEF OneRecord
  <2> QED
    BY <2>1, <2>2
<1>7. parts \in Seq(Text) /\ Len(parts) = n
  <2>1. parts = [k \in 1 .. n |-> parts[k]]
    OBVIOUS
  <2>2. \A k \in 1 .. n : parts[k] \in Text
    BY <1>6
  <2> HIDE DEF n, parts
  <2> QED
    BY <1>1, <2>1, <2>2, MakesSequence
<1>8. \A k \in 1 .. n : parts[k] = part(k)
  OBVIOUS
<1> HIDE DEF n, parts, part, new, recs2, starts, recs
<1>9. Pieces(parts, recs2)
  <2>1. parts # << >>
    BY <1>1, <1>7
  <2> QED
    BY <1>5, <1>6, <1>7, <1>8, <2>1 DEF Pieces
<1>10. /\ new \in Text /\ WellFormed(new) /\ Read(new).records = recs2
       /\ Len(Read(new).starts) = n
       /\ \A k \in 1 .. n : RecordText(new, Read(new).starts, k) = parts[k]
  <2> DEFINE t == FlattenSeq(parts)
  <2>1. /\ t \in Text /\ WellFormed(t) /\ Read(t).records = recs2
        /\ Len(Read(t).starts) = Len(parts)
        /\ \A k \in 1 .. Len(parts) : RecordText(t, Read(t).starts, k) = parts[k]
    BY <1>9, PiecesJoined
  <2> HIDE DEF t
  <2>2. new = t
    BY <1>4 DEF t
  <2> QED
    BY <1>7, <2>1, <2>2
<1>11. ASSUME NEW k \in DOMAIN starts \ {r + 1 : r \in rows}
       PROVE  RecordText(new, Read(new).starts, k) = RecordText(text, starts, k)
  <2>1. k \in 1 .. n
    BY <1>2
  <2>2. k - 1 \notin rows
    <3> SUFFICES ASSUME k - 1 \in rows PROVE FALSE
      OBVIOUS
    <3>1. (k - 1) + 1 = k
      BY <2>1
    <3> QED
      BY <3>1
  <2>3. part(k) = RecordText(text, starts, k)
    BY <2>2 DEF part
  <2> QED
    BY <1>8, <1>10, <2>1, <2>3
<1> QED
  BY <1>2, <1>10, <1>11 DEF Spliced, new, recs2, starts

\* A row as it is read again is stored as it is, an empty one included.
LEMMA PrintedStored ==
    ASSUME NEW types \in Seq(ColumnTypes), types # << >>, NEW row \in Seq(Text),
           Len(row) = Len(types), NEW c \in 1 .. Len(types), FitsType(types[c], row[c])
    PROVE  StoredAs(types[c], Printed(row), c) = row[c]
<1>1. types[c] \in ColumnTypes /\ c \in Nat \ {0} /\ c <= Len(row)
  OBVIOUS
<1>2. CASE row # << << >> >>
  <2>1. Printed(row) = row
    BY <1>2 DEF Printed
  <2> QED
    BY <1>1, <2>1, StoredAsIs
<1>3. CASE row = << << >> >>
  <2>1. Len(row) = 1
    BY <1>3
  <2>2. c = 1
    BY <1>1, <2>1
  <2>3. row[c] = << >> /\ Printed(row) = << >>
    BY <1>3, <2>2 DEF Printed
  <2>4. ~IsInt(<< >>)
    BY DEF IsInt, Zero
  <2>5. types[c] = "text"
    BY <1>1, <2>3, <2>4 DEF FitsType, ColumnTypes
  <2>6. ~Has(<< >>, 1)
    BY DEF Has
  <2>7. StoredAs("text", << >>, 1) = << >>
    BY <2>6 DEF StoredAs
  <2> QED
    BY <2>2, <2>3, <2>5, <2>7
<1> QED
  BY <1>2, <1>3

LEMMA SameCells ==
    ASSUME NEW a \in Seq(Seq(Text)), NEW b \in Seq(Seq(Text)), Len(a) = Len(b),
           \A r \in 1 .. Len(a) : Len(a[r]) = Len(b[r]) /\ \A c \in 1 .. Len(a[r]) : a[r][c] = b[r][c]
    PROVE  a = b
<1>1. ASSUME NEW r \in 1 .. Len(a) PROVE a[r] = b[r]
  <2> DEFINE x == a[r]
             y == b[r]
  <2>1. x \in Seq(Text) /\ y \in Seq(Text) /\ Len(x) = Len(y) /\ \A c \in 1 .. Len(x) : x[c] = y[c]
    OBVIOUS
  <2> HIDE DEF x, y
  <2>2. x = y
    BY <2>1, SeqEqual
  <2> QED
    BY <2>2 DEF x, y
<1> QED
  BY <1>1, SeqEqual

\* The file reads as the rows old, of these types; cells are those rows after edits.
Edited(types, text, old, cells, rows) ==
    /\ text \in Text /\ cells \in Seq(Seq(Text)) /\ old \in Seq(Seq(Text))
    /\ rows \in SUBSET DOMAIN cells /\ \A r \in DOMAIN cells \ rows : cells[r] = old[r]
    /\ types \in Seq(ColumnTypes) /\ types # << >> /\ Len(old) = Len(cells)
    /\ Len(Read(text).records) = Len(cells) + 1
    /\ old = Stored(types, Tail(Read(text).records))
    /\ \A r \in 1 .. Len(cells) : /\ Len(cells[r]) = Len(types)
                                  /\ \A c \in 1 .. Len(types) : FitsType(types[c], cells[r][c])

StoredAgain(types, text, cells, rows) == Stored(types, Tail(Rereads(text, cells, rows))) = cells

LEMMA RereadStored ==
    ASSUME NEW types, NEW text, NEW cells, NEW old, NEW rows, Edited(types, text, old, cells, rows)
    PROVE  StoredAgain(types, text, cells, rows)
<1> DEFINE n == Len(cells)
           recs  == Read(text).records
           recs2 == Rereads(text, cells, rows)
           before == Tail(recs)
           after  == Tail(recs2)
           new    == Stored(types, after)
<1>0. /\ text \in Text /\ cells \in Seq(Seq(Text)) /\ old \in Seq(Seq(Text))
      /\ rows \in SUBSET DOMAIN cells /\ \A r \in DOMAIN cells \ rows : cells[r] = old[r]
      /\ types \in Seq(ColumnTypes) /\ types # << >> /\ Len(old) = n
      /\ Len(recs) = n + 1 /\ old = Stored(types, Tail(recs))
      /\ \A r \in 1 .. n : /\ Len(cells[r]) = Len(types)
                           /\ \A c \in 1 .. Len(types) : FitsType(types[c], cells[r][c])
  BY DEF Edited
<1>1. n \in Nat
  BY <1>0
<1>2. recs \in Seq(Seq(Text)) /\ Len(recs) = n + 1 /\ recs2 \in Seq(Seq(Text)) /\ Len(recs2) = n + 1
  BY <1>0, <1>1, ReadType, RereadsType
<1>3. \A r \in 1 .. n : recs2[r + 1] = IF r \in rows THEN Printed(cells[r]) ELSE recs[r + 1]
  <2> SUFFICES ASSUME NEW r \in 1 .. n
               PROVE  recs2[r + 1] = IF r \in rows THEN Printed(cells[r]) ELSE recs[r + 1]
    OBVIOUS
  <2>1. r + 1 \in 1 .. Len(recs) /\ (r + 1) - 1 = r
    BY <1>1, <1>2
  <2> QED
    BY <2>1 DEF Rereads
<1> HIDE DEF recs, recs2
<1>4. /\ before \in Seq(Seq(Text)) /\ Len(before) = n /\ \A r \in 1 .. n : before[r] = recs[r + 1]
      /\ after \in Seq(Seq(Text)) /\ Len(after) = n /\ \A r \in 1 .. n : after[r] = recs2[r + 1]
  <2>1. recs # << >> /\ recs2 # << >>
    BY <1>1, <1>2
  <2> HIDE DEF n
  <2> QED
    BY <1>1, <1>2, <2>1
<1>5. old = Stored(types, before)
  BY <1>0
<1> HIDE DEF before, after, n
<1>6. /\ Len(old) = n
      /\ \A r \in 1 .. n : \A c \in 1 .. Len(types) : old[r][c] = StoredAs(types[c], before[r], c)
  <2> DEFINE o == Stored(types, before)
  <2>1. /\ Len(o) = Len(before)
        /\ \A r \in 1 .. Len(before) : \A c \in 1 .. Len(types) : o[r][c] = StoredAs(types[c], before[r], c)
    BY <1>0, <1>4, StoredType
  <2>2. o = old
    BY <1>5
  <2> HIDE DEF o
  <2> QED
    BY <1>4, <2>1, <2>2
<1>7. /\ new \in Seq(Seq(Text)) /\ Len(new) = n
      /\ \A r \in 1 .. n : /\ Len(new[r]) = Len(types)
                           /\ \A c \in 1 .. Len(types) : new[r][c] = StoredAs(types[c], after[r], c)
  <2>1. /\ after \in Seq(Seq(Text)) /\ Len(after) = n
        /\ types \in Seq(ColumnTypes) /\ types # << >>
    BY <1>0, <1>4
  <2>2. /\ new \in Seq(Seq(Text)) /\ Len(new) = Len(after)
        /\ \A r \in 1 .. Len(after) :
               /\ Len(new[r]) = Len(types)
               /\ \A c \in 1 .. Len(types) : new[r][c] = StoredAs(types[c], after[r], c)
    BY <2>1, StoredType
  <2> QED
    BY <2>1, <2>2
<1> HIDE DEF new
<1>8. ASSUME NEW r \in 1 .. n, NEW c \in 1 .. Len(types)
      PROVE  new[r][c] = cells[r][c]
  <2>1. CASE r \in rows
    <3> DEFINE row == cells[r]
    <3>1. row \in Seq(Text) /\ Len(row) = Len(types) /\ FitsType(types[c], row[c])
      <4>1. r \in 1 .. Len(cells)
        BY DEF n
      <4> QED
        BY <1>0, <4>1 DEF n
    <3>2. StoredAs(types[c], Printed(row), c) = row[c]
      BY <1>0, <3>1, PrintedStored
    <3>3. after[r] = Printed(row)
      BY <1>3, <1>4, <2>1
    <3> QED
      BY <1>7, <3>2, <3>3
  <2>2. CASE r \notin rows
    <3>1. after[r] = before[r]
      BY <1>3, <1>4, <2>2
    <3>2. cells[r] = old[r]
      <4>1. r \in DOMAIN cells \ rows
        BY <1>0, <1>1, <2>2 DEF n
      <4> QED
        BY <1>0, <4>1
    <3> QED
      BY <1>6, <1>7, <3>1, <3>2
  <2> QED
    BY <2>1, <2>2
<1>9. new = cells
  <2>1. /\ Len(new) = Len(cells)
        /\ \A r \in 1 .. Len(new) : Len(new[r]) = Len(cells[r])
                                    /\ \A c \in 1 .. Len(new[r]) : new[r][c] = cells[r][c]
    BY <1>0, <1>7, <1>8 DEF n
  <2> QED
    BY <1>0, <1>7, <2>1, SameCells
<1> QED
  BY <1>9 DEF StoredAgain, new, after, recs2

\* What holds of a dataset whose CSV was well-formed when it was imported: the
\* CSV still is, and read again it is the column files.
CsvIsSaved ==
    sheet.sound =>
        /\ WellFormed(csv)
        /\ sheet.types # << >>
        /\ Len(Read(csv).records) = Len(saved) + 1
        /\ Stored(sheet.types, Tail(Read(csv).records)) = saved

LEMMA ImportSaved ==
    ASSUME TextTypes, ImportCsv
    PROVE  CsvIsSaved'
<1> DEFINE recs  == Read(csv).records
           rest  == Tail(recs)
           types == InferTypes(rest, Len(recs[1]))
           cells == Stored(types, rest)
<1>1. /\ csv' = csv /\ saved' = cells /\ sheet'.types = types /\ sheet'.sound = WellFormed(csv)
      /\ recs # << >> /\ recs[1] # << >>
  <2>1. /\ sheet' = [labels |-> [c \in DOMAIN types |-> ColumnName(recs[1][c])],
                     types |-> types, cells |-> cells, sound |-> WellFormed(csv)]
        /\ saved' = sheet'.cells /\ csv' = csv /\ recs # << >> /\ recs[1] # << >>
    BY DEF ImportCsv
  <2> HIDE DEF types, cells, recs
  <2> QED
    BY <2>1
<1>2. recs \in Seq(Seq(Text))
  BY ReadType DEF TextTypes
<1> HIDE DEF recs
<1>3. rest \in Seq(Seq(Text)) /\ Len(recs) = Len(rest) + 1 /\ Len(recs[1]) \in Nat /\ Len(recs[1]) # 0
  <2>1. Len(recs) \in Nat /\ Len(recs) # 0 /\ recs[1] \in Seq(Text)
    BY <1>1, <1>2, EmptySeq
  <2>2. rest \in Seq(Seq(Text)) /\ Len(rest) = Len(recs) - 1
    BY <1>1, <1>2
  <2>3. Len(recs[1]) \in Nat /\ Len(recs[1]) # 0
    BY <1>1, <2>1, EmptySeq
  <2> QED
    BY <2>1, <2>2, <2>3
<1>4. types \in Seq(ColumnTypes) /\ types # << >>
  <2>1. types \in Seq(ColumnTypes) /\ Len(types) = Len(recs[1])
    BY <1>3, InferTypesType
  <2> QED
    BY <1>3, <2>1
<1> HIDE DEF types, rest
<1>5. Len(cells) = Len(rest)
  BY <1>3, <1>4, StoredType
<1> HIDE DEF cells
<1>6. Read(csv)' = Read(csv) /\ WellFormed(csv)' = WellFormed(csv)
  BY <1>1 DEF Read, WellFormed
<1>7. Read(csv').records = recs /\ Tail(recs) = rest
  BY <1>1 DEF recs, rest
<1> QED
  BY <1>1, <1>3, <1>4, <1>5, <1>7 DEF CsvIsSaved, cells

LEMMA SaveSaved ==
    ASSUME Delimiter = Comma, TextTypes, CsvIsSaved, sheet.sound, Save
    PROVE  /\ CsvIsSaved'
           /\ Spliced(csv, sheet.cells, EditedRows, csv')
<1> DEFINE cells == sheet.cells
           types == sheet.types
           recs  == Read(csv).records
<1>1. /\ csv' = Export(csv, cells, sheet.labels, EditedRows) /\ saved' = cells /\ sheet' = sheet
  BY DEF Save
<1>2. /\ csv \in Text /\ cells \in Seq(Seq(Text)) /\ types \in Seq(ColumnTypes)
      /\ saved \in Seq(Seq(Text)) /\ Len(saved) = Len(cells)
      /\ \A r \in 1 .. Len(cells) : /\ Len(cells[r]) = Len(types)
                                    /\ \A c \in 1 .. Len(types) : FitsType(types[c], cells[r][c])
  BY DEF TextTypes
<1>3. /\ WellFormed(csv) /\ types # << >> /\ Len(recs) = Len(cells) + 1
      /\ saved = Stored(types, Tail(recs))
  BY <1>2 DEF CsvIsSaved
<1>4. EditedRows = {r \in DOMAIN saved : cells[r] # saved[r]}
  BY DEF EditedRows
<1> HIDE DEF cells, types
<1>5. EditedRows \in SUBSET DOMAIN cells
  BY <1>2, <1>4
<1>6. \A r \in EditedRows : cells[r] # << >>
  <2> SUFFICES ASSUME NEW r \in EditedRows PROVE cells[r] # << >>
    OBVIOUS
  <2>1. r \in 1 .. Len(cells) /\ Len(types) \in Nat /\ Len(types) # 0
    BY <1>2, <1>3, <1>5, EmptySeq
  <2> QED
    BY <1>2, <2>1
<1>7. Spliced(csv, cells, EditedRows, csv')
  BY <1>1, <1>2, <1>3, <1>5, <1>6, SpliceReads
<1>8. Stored(types, Tail(Rereads(csv, cells, EditedRows))) = cells
  <2>1. \A r \in DOMAIN cells \ EditedRows : cells[r] = saved[r]
    BY <1>2, <1>4
  <2>2. Edited(types, csv, saved, cells, EditedRows)
    BY <1>2, <1>3, <1>5, <2>1 DEF Edited
  <2>3. StoredAgain(types, csv, cells, EditedRows)
    BY <2>2, RereadStored
  <2> QED
    BY <2>3 DEF StoredAgain
<1>9. /\ WellFormed(csv') /\ Read(csv').records = Rereads(csv, cells, EditedRows)
      /\ Len(Read(csv').records) = Len(cells) + 1
  BY <1>2, <1>3, <1>5, <1>7, RereadsType DEF Spliced
<1>10. CsvIsSaved'
  BY <1>1, <1>3, <1>8, <1>9 DEF CsvIsSaved, cells, types
<1> QED
  BY <1>7, <1>10 DEF cells

LEMMA NextSaved ==
    ASSUME Delimiter = Comma
    PROVE  TextTypes /\ CsvIsSaved /\ [Next]_vars => CsvIsSaved'
<1> SUFFICES ASSUME TextTypes, CsvIsSaved, [Next]_vars
             PROVE  CsvIsSaved'
  OBVIOUS
<1>1. ASSUME NEW c \in Chars, Write(c) PROVE CsvIsSaved'
  BY <1>1 DEF Write, CsvIsSaved, NoSheet
<1>2. CASE ImportCsv
  BY <1>2, ImportSaved
<1>3. ASSUME NEW r \in DOMAIN sheet.cells, NEW c \in DOMAIN sheet.types, NEW text \in EditTexts,
             SetValue(r, c, text)
      PROVE  CsvIsSaved'
  <2>1. csv' = csv /\ saved' = saved /\ sheet'.types = sheet.types /\ sheet'.sound = sheet.sound
    BY <1>3 DEF SetValue, TextTypes
  <2> QED
    BY <2>1 DEF CsvIsSaved
<1>4. CASE Save
  <2>1. CASE sheet.sound
    BY <1>4, <2>1, SaveSaved
  <2>2. CASE ~sheet.sound
    BY <1>4, <2>2 DEF Save, CsvIsSaved
  <2> QED
    BY <2>1, <2>2
<1>5. CASE UNCHANGED vars
  BY <1>5 DEF CsvIsSaved, vars
<1> QED
  BY <1>1, <1>2, <1>3, <1>4, <1>5 DEF Next

(* From the import on, the CSV read by the importer is the column files: the  *)
(* invariant the next two theorems rest on (DoSave writes both).              *)
THEOREM CsvIsSavedAlways ==
    ASSUME Delimiter = Comma
    PROVE  Spec => []CsvIsSaved
<1>1. Init => CsvIsSaved
  BY DEF Init, CsvIsSaved, NoSheet
<1>2. TextTypes /\ CsvIsSaved /\ [Next]_vars => CsvIsSaved'
  BY NextSaved
<1> QED
  BY <1>1, <1>2, TextTypesAlways, PTL DEF Spec

(* "Keeping it in sync": the CSV of a saved dataset, read by the importer,    *)
(* is the dataset, whatever the file was, as long as it was RFC 4180 with     *)
(* commas, and whatever was typed (ExportBaseColumnsToCsv).                   *)
THEOREM CsvInSyncAlways ==
    ASSUME Delimiter = Comma
    PROVE  Spec => []CsvInSync
<1>1. TextTypes /\ CsvIsSaved => CsvInSync
  <2> SUFFICES ASSUME TextTypes, CsvIsSaved, sheet.sound, EditedRows = {}
               PROVE  Stored(sheet.types, Tail(Read(csv).records)) = sheet.cells
    BY DEF CsvInSync
  <2>1. /\ sheet.cells \in Seq(Seq(Text)) /\ saved \in Seq(Seq(Text))
        /\ Len(saved) = Len(sheet.cells)
    BY DEF TextTypes
  <2>2. \A r \in 1 .. Len(saved) : saved[r] = sheet.cells[r]
    BY <2>1 DEF EditedRows
  <2>3. saved = sheet.cells
    BY <2>1, <2>2, SeqEqual
  <2> QED
    BY <2>3 DEF CsvIsSaved
<1> QED
  BY <1>1, TextTypesAlways, CsvIsSavedAlways, PTL

(* A save leaves the text of every record it did not have to print as it was, *)
(* byte for byte, in every RFC 4180 file with commas (ExportBaseColumnsToCsv).*)
THEOREM OtherRecordsStay ==
    ASSUME Delimiter = Comma
    PROVE  Spec => OtherRecordsVerbatim
<1>1. TextTypes /\ CsvIsSaved /\ [Next]_vars =>
          [sheet.sound /\ csv' # csv =>
              LET before == Read(csv).starts
                  after  == Read(csv').starts
              IN  /\ Len(after) = Len(before)
                  /\ \A k \in DOMAIN before \ {r + 1 : r \in EditedRows} :
                         RecordText(csv', after, k) = RecordText(csv, before, k)]_vars
  <2> SUFFICES ASSUME TextTypes, CsvIsSaved, [Next]_vars, sheet.sound, csv' # csv
               PROVE  /\ Len(Read(csv').starts) = Len(Read(csv).starts)
                      /\ \A k \in DOMAIN Read(csv).starts \ {r + 1 : r \in EditedRows} :
                             RecordText(csv', Read(csv').starts, k)
                                 = RecordText(csv, Read(csv).starts, k)
    OBVIOUS
  <2>1. Save
    <3>1. \A c \in Chars : ~Write(c)
      BY DEF Write, NoSheet
    <3>2. ~ImportCsv
      BY DEF ImportCsv
    <3>3. \A r, c, text : ~SetValue(r, c, text)
      BY DEF SetValue
    <3> QED
      BY <3>1, <3>2, <3>3 DEF Next, vars
  <2>2. Spliced(csv, sheet.cells, EditedRows, csv')
    BY <2>1, SaveSaved
  <2> QED
    BY <2>2 DEF Spliced
<1> QED
  BY <1>1, TextTypesAlways, CsvIsSavedAlways, PTL DEF Spec, OtherRecordsVerbatim
===============================================================================
