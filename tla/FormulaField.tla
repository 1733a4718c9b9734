------------------------------ MODULE FormulaField ------------------------------
(***************************************************************************)
(* The formula field of the derived-column dialog and its completion popup *)
(* (ui/formula_autocomplete.cpp, SpreadsheetFrame::OnAddColumn), and the   *)
(* scanner that will read the field (parser/expr.l).  The statistics       *)
(* dialog has the same field; there Enter computes, which FormulaEngine    *)
(* models, and the dialog stays.                                           *)
(*                                                                         *)
(* A text is a sequence of characters; "e" and "E" stand for the letters,  *)
(* of which the syntax of numbers knows only these, "1" for the digits,    *)
(* "+" for the operators, and "." is left out.  Popup and selection belong *)
(* to the text the popup was filled from, the caret to the text control:   *)
(* keys that move it tell nobody.                                          *)
(***************************************************************************)
EXTENDS Integers, Sequences, SequencesExt, FiniteSetsExt

CONSTANTS Functions,    \* function names, in capitals
          Labels,       \* column labels
          Typeable,     \* the characters typed
          MaxTyped      \* bound: characters typed or erased

Letters == {"e", "E"}
Digits  == {"1"}
Quote   == "\""
Blank   == "blank"
TokenChars == Letters \cup Digits \cup {"_"}

\* What labels and formulas are made of.
Character == TokenChars \cup {"=", Blank, "+", "(", "'", Quote} \cup Typeable
Text == Seq(Character)

\* Function names are identifiers (FunctionNames).  A label with a double quote
\* in it cannot be written in a formula at all.
ASSUME FieldAssumption ==
    /\ Functions \in Seq(Seq(TokenChars))
    /\ \A name \in ToSet(Functions) : name # << >> /\ name[1] \notin Digits
    /\ Labels \in Seq(Text)
    /\ \A label \in ToSet(Labels) : label # << >> /\ Quote \notin ToSet(label)
    /\ MaxTyped \in Nat

VARIABLES text,         \* the text control's text
          caret,        \* its insertion point
          shown,        \* the popup is on the screen
          tokenStart,   \* where the word being completed starts
          current,      \* the suggestions listed
          sel,          \* the selected one
          matchedAt,    \* history: where the caret was when the popup was filled
          dialog,       \* "open", "confirmed", "cancelled"
          typed         \* bound: see MaxTyped

fieldVars == <<text, caret, shown, tokenStart, current, sel, matchedAt, dialog, typed>>
-------------------------------------------------------------------------------
(* The scanner. *)

\* The characters of set that s starts with.
Run(s, set) == Max({n \in 0 .. Len(s) : \A i \in 1 .. n : s[i] \in set})
From(s, n)  == SubSeq(s, n, Len(s))

\* [0-9]+([eE][+-]?[0-9]+)?
NumberLength(s) ==
    LET whole == Run(s, Digits)
        sign  == IF Len(s) >= whole + 2 /\ s[whole + 2] = "+" THEN 1 ELSE 0
        power == Run(From(s, whole + 2 + sign), Digits)
    IN  IF Len(s) > whole /\ s[whole + 1] \in Letters /\ power > 0
        THEN whole + 1 + sign + power
        ELSE whole

Token(kind, chars) == [kind |-> kind, chars |-> chars]

\* The first token of s and the number of characters it takes.
FirstToken(s) ==
    LET word   == Run(s, TokenChars)
        closed == {i \in 2 .. Len(s) : s[i] = s[1]}
    IN  CASE s[1] \in Digits ->
                <<Token("NUMBER", SubSeq(s, 1, NumberLength(s))), NumberLength(s)>>
          [] s[1] \in TokenChars \ Digits -> <<Token("IDENT", SubSeq(s, 1, word)), word>>
          [] s[1] \in {Quote, "'"} /\ closed # {} ->
                <<Token(IF s[1] = Quote THEN "QIDENT" ELSE "STRING", SubSeq(s, 2, Min(closed) - 1)),
                  Min(closed)>>
          [] s[1] \in {"+", "("} -> <<Token(s[1], << >>), 1>>
          [] OTHER -> <<Token("YYUNDEF", << >>), 1>>

\* yylex, at characters into s: a blank is skipped, anything else is a token.
yylex(s, lexer) ==
    LET rest == From(s, lexer.at + 1)
    IN  IF rest = << >> THEN lexer
        ELSE IF rest[1] = Blank THEN [lexer EXCEPT !.at = @ + 1]
        ELSE [at |-> lexer.at + FirstToken(rest)[2],
              tokens |-> Append(lexer.tokens, FirstToken(rest)[1])]

\* The scanner after n turns; a turn takes a character at least.
LexUpTo(s, n) ==
    LET lexed[i \in 0 .. Len(s)] ==
            IF i = 0 THEN [at |-> 0, tokens |-> << >>] ELSE yylex(s, lexed[i - 1])
    IN  lexed[n]

Tokens(s) == LexUpTo(s, Len(s)).tokens

\* ComputeFormulaStats and AddDerivedColumn parse what follows a leading "=".
Formula(s) == IF s # << >> /\ s[1] = "=" THEN Tail(s) ELSE s
-------------------------------------------------------------------------------
(* The suggestions. *)

FormulaName_Bare(label) == label    \* mutant: no label is quoted

\* FormulaName: labels that are no identifiers are quoted.
FormulaName(label) ==
    IF label[1] \notin Digits /\ ToSet(label) \subseteq TokenChars
    THEN label
    ELSE <<Quote>> \o label \o <<Quote>>

BuildFormulaCandidates ==
    [i \in DOMAIN Functions |-> [display |-> Functions[i], insert |-> Functions[i] \o <<"(">>]]
    \o [i \in DOMAIN Labels |-> [display |-> Labels[i], insert |-> FormulaName(Labels[i])]]

Upper(s) == [i \in DOMAIN s |-> IF s[i] = "e" THEN "E" ELSE s[i]]

\* Where the word that ends at position at of s starts.
WordStart(s, at) == at - Run(Reverse(SubSeq(s, 1, at)), TokenChars)

\* The candidates that begin with the word, whatever its capitals.
Matching(word) ==
    LET matches[i \in 0 .. Len(BuildFormulaCandidates)] ==
            IF i = 0 THEN << >>
            ELSE LET c == BuildFormulaCandidates[i]
                 IN  IF IsPrefix(Upper(word), Upper(c.display)) THEN Append(matches[i - 1], c)
                     ELSE matches[i - 1]
    IN  matches[Len(BuildFormulaCandidates)]

\* MatchToken: no suggestions for an empty word or a number.
MatchToken(s, at) ==
    LET word == SubSeq(s, WordStart(s, at) + 1, at)
    IN  IF word = << >> \/ word[1] \in Digits THEN << >> ELSE Matching(word)
-------------------------------------------------------------------------------
\* The derived-column dialog starts with "=", the statistics dialog with a column.
FieldInit ==
    /\ text \in {<<"=">>} \cup {<<"=">> \o FormulaName(label) : label \in ToSet(Labels)}
    /\ caret = Len(text)
    /\ shown = FALSE
    /\ tokenStart = 0
    /\ current = << >>
    /\ sel = 0
    /\ matchedAt = 0
    /\ dialog = "open"
    /\ typed = 0

HidePopup ==
    /\ shown' = FALSE
    /\ current' = << >>
    /\ UNCHANGED <<tokenStart, sel, matchedAt>>

\* RefreshPopup, after the text has become text' with the caret at caret'.
RefreshPopup ==
    LET matches == MatchToken(text', caret')
    IN  IF matches = << >> THEN HidePopup
        ELSE /\ shown' = TRUE
             /\ tokenStart' = WordStart(text', caret')
             /\ current' = matches
             /\ sel' = 1
             /\ matchedAt' = caret'

\* OnText, for a character typed at the caret or erased before it.
Type(ch) ==
    /\ dialog = "open"
    /\ typed < MaxTyped
    /\ text' = SubSeq(text, 1, caret) \o <<ch>> \o From(text, caret + 1)
    /\ caret' = caret + 1
    /\ typed' = typed + 1
    /\ RefreshPopup
    /\ UNCHANGED dialog

Erase ==
    /\ dialog = "open"
    /\ typed < MaxTyped
    /\ caret > 0
    /\ text' = RemoveAt(text, caret)
    /\ caret' = caret - 1
    /\ typed' = typed + 1
    /\ RefreshPopup
    /\ UNCHANGED dialog

\* Arrow keys, Home, End and the mouse: OnKeyDown skips them and OnText is not called.
MoveCaret(to) ==
    /\ dialog = "open"
    /\ to # caret
    /\ caret' = to
    /\ UNCHANGED <<text, shown, tokenStart, current, sel, matchedAt, dialog, typed>>

MoveSelection(delta) ==
    /\ dialog = "open"
    /\ shown
    /\ sel' = Max({1, Min({sel + delta, Len(current)})})
    /\ UNCHANGED <<text, caret, shown, tokenStart, current, matchedAt, dialog, typed>>

\* The text control replaces the characters between two positions, in either
\* order, and keeps its insertion point within the text.
Replace(from, to, chars) ==
    SubSeq(text, 1, Min({from, to})) \o chars \o From(text, Max({from, to}) + 1)

Accept_KeepsPopup ==    \* mutant: the popup stays
    /\ dialog = "open"
    /\ shown
    /\ text' = Replace(tokenStart, caret, current[sel].insert)
    /\ caret' = Min({tokenStart + Len(current[sel].insert), Len(text')})
    /\ UNCHANGED <<shown, tokenStart, current, sel, matchedAt, dialog, typed>>

\* Enter, Tab or a click while the popup is shown.
Accept ==
    /\ dialog = "open"
    /\ shown
    /\ text' = Replace(tokenStart, caret, current[sel].insert)
    /\ caret' = Min({tokenStart + Len(current[sel].insert), Len(text')})
    /\ HidePopup
    /\ UNCHANGED <<dialog, typed>>

\* Escape while the popup is shown, and the focus going elsewhere (OnKillFocus).
Dismiss ==
    /\ dialog = "open"
    /\ shown
    /\ HidePopup
    /\ UNCHANGED <<text, caret, dialog, typed>>

\* Enter or Escape while it is not, and the buttons, which take the focus first.
EndModal(outcome) ==
    /\ dialog = "open"
    /\ ~shown
    /\ dialog' = outcome
    /\ UNCHANGED <<text, caret, shown, tokenStart, current, sel, matchedAt, typed>>

FieldNext ==
    \/ \E ch \in Typeable : Type(ch)
    \/ Erase
    \/ \E to \in 0 .. Len(text) : MoveCaret(to)
    \/ \E delta \in {-1, 1} : MoveSelection(delta)
    \/ Accept
    \/ Dismiss
    \/ \E outcome \in {"confirmed", "cancelled"} : EndModal(outcome)

FieldSpec == FieldInit /\ [][FieldNext]_fieldVars
-------------------------------------------------------------------------------
(* The popup never outlives the text it was filled from: what it lists, the   *)
(* selection in it and the place it will write to are those of a word that is *)
(* still in the field, where the caret was then, and a dialog is not          *)
(* confirmed over it (RefreshPopup, MoveSelection, Accept).                   *)
PopupOfText ==
    /\ shown => /\ current = MatchToken(text, matchedAt)
                /\ tokenStart = WordStart(text, matchedAt)
                /\ sel \in DOMAIN current
                /\ dialog = "open"
    /\ caret \in 0 .. Len(text)

\* What is accepted at the end of its word reads as its name, or as the function
\* and its parenthesis, and what is around it reads as it did.
AddsName ==
    LET start  == WordStart(text, caret)
        before == Tokens(Formula(SubSeq(text, 1, start)))
        after  == From(text, caret + 1)
        chosen == current[sel].display
    IN  /\ caret = matchedAt
        /\ Token("YYUNDEF", << >>) \notin ToSet(before)
        /\ after # << >> => after[1] \notin TokenChars
        => Tokens(Formula(text')) \in
              {before \o name \o Tokens(after) :
                  name \in {<<Token("IDENT", chosen)>>, <<Token("QIDENT", chosen)>>,
                            <<Token("IDENT", chosen), Token("(", << >>)>>}}

(* Accepting a suggestion at the end of its word makes the scanner read       *)
(* exactly one thing more: the suggested column, under its own name, or the   *)
(* suggested function and its parenthesis; everything around the word reads   *)
(* as before.  Not so inside an open quote, where the inserted name brings    *)
(* quotes of its own, nor when the caret has left the word's end              *)
(* ("non-identifier column labels insert a quoted label", Candidate).         *)
AcceptAddsName == [][Accept => AddsName]_fieldVars
===============================================================================
