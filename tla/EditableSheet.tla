----------------------------- MODULE EditableSheet -----------------------------
(***************************************************************************)
(* What a dataset promises the people who edit it, with no save procedure, *)
(* no statistics and no failures to explain: a durable sheet, and windows  *)
(* that show it under their own pending edits.                             *)
(***************************************************************************)
EXTENDS Integers

CONSTANTS Windows, Cols, Rows, Values

VARIABLES durable,      \* the sheet a new window would show
          open,         \* the windows on it
          shown,        \* what each window shows
          pending       \* per window, the cells whose edits are not durable yet

vars == <<durable, open, shown, pending>>

Cells == Cols \X Rows

\* A window shows its pending edits and the durable sheet everywhere else.
View(w, edits, sheet) ==
    [c \in Cols |-> [r \in Rows |-> IF <<c, r>> \in edits THEN shown[w][c][r] ELSE sheet[c][r]]]

\* The durable sheet once the edits of w at `written` are part of it.
Committed(w, written) ==
    [c \in Cols |-> [r \in Rows |-> IF <<c, r>> \in written THEN shown[w][c][r]
                                                             ELSE durable[c][r]]]

Init ==
    /\ durable \in [Cols -> [Rows -> Values]]
    /\ open = {}
    /\ shown = [w \in Windows |-> durable]
    /\ pending = [w \in Windows |-> {}]

Open(w) ==
    /\ w \notin open
    /\ open' = open \cup {w}
    /\ UNCHANGED <<durable, shown, pending>>

Close(w) ==
    /\ w \in open
    /\ open' = open \ {w}
    /\ shown' = [shown EXCEPT ![w] = durable]
    /\ pending' = [pending EXCEPT ![w] = {}]
    /\ UNCHANGED durable

\* An edit is pending unless it restores what is durable.
Edit(w, c, r, v) ==
    /\ w \in open
    /\ shown' = [shown EXCEPT ![w][c][r] = v]
    /\ pending' = [pending EXCEPT ![w] = IF v = durable[c][r] THEN @ \ {<<c, r>>}
                                                              ELSE @ \cup {<<c, r>>}]
    /\ UNCHANGED <<durable, open>>

\* Pending edits of w become durable; they may be forgotten only if they all
\* did.  Every window, w included, goes on showing its pending edits over the
\* durable sheet.
Persist(w, written, forgotten) ==
    /\ w \in open
    /\ durable' = Committed(w, written)
    /\ pending' = [pending EXCEPT ![w] = @ \ forgotten]
    /\ shown' = [v \in Windows |-> View(v, pending'[v], durable')]
    /\ UNCHANGED open

PersistSome ==
    \E w \in Windows : \E written \in SUBSET pending[w] :
    \E forgotten \in {{}, written} : Persist(w, written, forgotten)

\* All windows go at once; what was being written may have become durable.
Crash ==
    /\ open # {}
    /\ \E w \in open : \E written \in SUBSET pending[w] : durable' = Committed(w, written)
    /\ open' = {}
    /\ shown' = [w \in Windows |-> durable']
    /\ pending' = [w \in Windows |-> {}]

Next == \/ \E w \in Windows : Open(w) \/ Close(w)
        \/ \E w \in Windows, c \in Cols, r \in Rows, v \in Values : Edit(w, c, r, v)
        \/ PersistSome
        \/ Crash

Spec == Init /\ [][Next]_vars
===============================================================================
