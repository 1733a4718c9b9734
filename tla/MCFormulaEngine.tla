---------------------------- MODULE MCFormulaEngine ----------------------------
(* FormulaEngine on three rows, a numeric column "price" and a text column   *)
(* whose label is the letter of the first.                                   *)
EXTENDS FormulaEngine

Name(stem) == <<stem, NoNumber>>
Number(v)  == [kind |-> "number", val |-> v, args |-> << >>]
String(n)  == [kind |-> "string", val |-> n, args |-> << >>]
Column(name) == [kind |-> "column", val |-> name, args |-> << >>]
Range3(a, b) == [kind |-> "range", val |-> <<a, b>>, args |-> << >>]
Call(fn, args) == [kind |-> "call", val |-> fn, args |-> args]
Over(fn, a, b) == Call(fn, <<Range3(a, b)>>)

MCLabels    == <<Name("price"), Name("A")>>
MCBaseTypes == <<"number", "text">>
MCLetters   == <<"A", "B", "C", "D">>
MCFormulas  == [[BaseCols -> Values] -> Int]
MCPredicates == {{}, {1}, {0, 2}}

Price == Column(Name("price"))
Text  == Column(Name("A"))
D0    == Column(<<"D", 0>>)

\* Formulas that may become columns come first.
MCFormulaList == <<
    Call("+", <<Price, Call("len", <<Text>>)>>),
    Call("-", <<Price, Over("sum", Name("price"), Name("price"))>>),
    Call("concatenate", <<Text, Price, String(2)>>),
    Call("*", <<D0, Call("-", <<Column(Name("C"))>>)>>),
    Call("left", <<D0, Over("max", <<"price", 3>>, <<"price", 2>>)>>),
    Text, Price, D0,
    Column(Name("E")),
    Over("sum", Name("A"), Name("A")),
    Over("count", <<"A", 2>>, <<"A", 9>>),
    Over("average", Name("C"), <<"C", 2>>),
    Over("min", <<"price", 4>>, Name("price")),
    Over("max", <<"price", 1>>, <<"B", 1>>),
    Over("sum", <<"D", 0>>, <<"D", 0>>),
    Call("max", <<Price, Over("sum", <<"price", 2>>, <<"price", 1>>)>>),
    Call("mid", <<Column(Name("C")), Number(2), Number(2)>>),
    Call("abs", <<Call("-", <<Price, Number(12)>>)>>),
    Call("+", <<Text, Number(1)>>),
    Call("sum", <<Price>>),
    Range3(Name("A"), Name("A"))>>

RECURSIVE Subtrees(_)
Subtrees(node) == {node} \cup UNION {Subtrees(node.args[i]) : i \in DOMAIN node.args}

RECURSIVE Nesting(_)
Nesting(node) == Max({0} \cup {Nesting(node.args[i]) + 1 : i \in DOMAIN node.args})

MCNodes  == UNION {Subtrees(MCFormulaList[n]) : n \in DOMAIN MCFormulaList}
MCHeight == [node \in MCNodes |-> Nesting(node)]
===============================================================================
