---------------------------- MODULE ExprParser -----------------------------
(***************************************************************************)
(* The shift-reduce parser of Expr (parser.y), with the conflicts of its   *)
(* ambiguous rules resolved as bison does: by precedence where both the    *)
(* rule and the lookahead have one, by shifting where one of them has not. *)
(* Only + - * / have one (%left ADD SUB, %left MUL DIV).                   *)
(*                                                                         *)
(* The text is not fixed: each token that is read is any token.  A         *)
(* function's name with the parenthesis after it counts as one token.      *)
(* A node of the syntax tree is its operator, its name and its children.   *)
(***************************************************************************)
EXTENDS Integers, Sequences, FiniteSets

CONSTANTS Vars,      \* variables
          Lits,      \* constants
          Funcs,     \* functions, each standing for the tokens `f ('
          BinOps,    \* the operators that texts use
          NoName,    \* the name of an operator node
          MaxTokens  \* bound: tokens of a text

Arithmetic == {"+", "-", "*", "/"}
Relational == {"==", "!=", "<", ">"}
Operators  == Arithmetic \cup Relational \cup {"="}
Punctuation == {",", ")", "end"}

ASSUME TokenAssumption ==
    /\ BinOps \subseteq Operators
    /\ (Vars \cup Lits \cup Funcs) \cap (Operators \cup Punctuation) = {}
    /\ Vars \cap Lits = {} /\ (Vars \cup Lits) \cap Funcs = {}
    /\ MaxTokens \in Nat \ {0}

Tokens == Vars \cup Lits \cup Funcs \cup BinOps \cup Punctuation

VARIABLES phase,  \* "parsing", "rejected" by yyerror, then "parsed" and later phases
          stack,  \* the parser's stack: symbols with the trees below them
          next,   \* the lookahead token
          text    \* the tokens read so far, the lookahead included

parser == <<phase, stack, next, text>>

----------------------------------------------------------------------------
Node(op, name, kids) == [op |-> op, name |-> name, kids |-> kids]

Leaf(atom) == Node(IF atom \in Vars THEN "var" ELSE "const", atom, <<>>)

\* A symbol of the stack: an Expr; an operator; a call with the arguments it
\* has so far, just opened ("call") or after a comma (",").
Expr(tree)       == [sym |-> "expr", tree |-> tree]
Operator(op)     == [sym |-> op, tree |-> Node(op, NoName, <<>>)]
Open(sym, f, as) == [sym |-> sym, tree |-> Node("call", f, as)]

Depth == Len(stack)
Sym(i) == IF i \in 1..Depth THEN stack[i].sym ELSE "bottom"
Below(n) == SubSeq(stack, 1, Depth - n)

\* Mutation: one level for all arithmetic.
PrecedenceFlat(op) == IF op \in Arithmetic THEN 1 ELSE 0

\* %left ADD SUB, %left MUL DIV; 0 for an operator without a declaration.
Precedence(op) ==
    CASE op \in {"+", "-"} -> 1
      [] op \in {"*", "/"} -> 2
      [] OTHER -> 0

\* Mutation: %right instead of %left.
ReducesFirstRight(op, token) ==
    Precedence(op) > 0 /\ Precedence(token) > 0 /\ Precedence(op) > Precedence(token)

\* The conflict between reducing `Expr op Expr' and shifting an operator.
ReducesFirst(op, token) ==
    Precedence(op) > 0 /\ Precedence(token) > 0 /\ Precedence(op) >= Precedence(token)

\* `Expr op Expr' is on top and is to be reduced before the lookahead is shifted.
Reducible ==
    /\ Sym(Depth) = "expr" /\ Sym(Depth - 1) \in Operators
    /\ next \in BinOps => ReducesFirst(Sym(Depth - 1), next)

\* An Expr has to come next.
ExprExpected == Sym(Depth) \in Operators \cup {"bottom", "call", ","}

InArgs == Sym(Depth) = "expr" /\ Sym(Depth - 1) \in {"call", ","}

Parsing == phase = "parsing"

\* The next token is read: anything, or the end of the expression.
ReadToken ==
    \E token \in IF Len(text) < MaxTokens THEN Tokens ELSE {"end"} :
        /\ next' = token
        /\ text' = Append(text, token)

ParserInit ==
    /\ phase = "parsing"
    /\ stack = <<>>
    /\ next \in Tokens
    /\ text = <<next>>

\* Expr : IdentifierUse | Constant
ShiftAtom ==
    /\ Parsing
    /\ ExprExpected
    /\ next \in Vars \cup Lits
    /\ stack' = Append(stack, Expr(Leaf(next)))
    /\ ReadToken
    /\ UNCHANGED phase

\* FuncCall : IdentifierUse LPAREN . Args RPAREN
ShiftCall ==
    /\ Parsing
    /\ ExprExpected
    /\ next \in Funcs
    /\ stack' = Append(stack, Open("call", next, <<>>))
    /\ ReadToken
    /\ UNCHANGED phase

\* Expr : Expr . op Expr
ShiftOperator ==
    /\ Parsing
    /\ Sym(Depth) = "expr"
    /\ next \in BinOps
    /\ ~Reducible
    /\ stack' = Append(stack, Operator(next))
    /\ ReadToken
    /\ UNCHANGED phase

\* Expr : Expr op Expr
Reduce ==
    /\ Parsing
    /\ Reducible
    /\ stack' = Append(Below(3),
                       Expr(Node(Sym(Depth - 1), NoName, <<stack[Depth - 2].tree, stack[Depth].tree>>)))
    /\ UNCHANGED <<phase, next, text>>

\* Args : Args COMMA . Expr
NextArg ==
    LET call == stack[Depth - 1].tree
    IN  /\ Parsing
        /\ InArgs
        /\ next = ","
        /\ stack' = Append(Below(2), Open(",", call.name, Append(call.kids, stack[Depth].tree)))
        /\ ReadToken
        /\ UNCHANGED phase

\* FuncCall : IdentifierUse LPAREN Args RPAREN
CloseCall ==
    LET call == stack[Depth - 1].tree
    IN  /\ Parsing
        /\ InArgs
        /\ next = ")"
        /\ stack' = Append(Below(2), Expr(Node("call", call.name, Append(call.kids, stack[Depth].tree))))
        /\ ReadToken
        /\ UNCHANGED phase

\* The same, without arguments.
CloseEmptyCall ==
    /\ Parsing
    /\ Sym(Depth) = "call"
    /\ next = ")"
    /\ stack' = Append(Below(1), Expr(stack[Depth].tree))
    /\ ReadToken
    /\ UNCHANGED phase

\* The expression is complete.
Accept ==
    /\ Parsing
    /\ Depth = 1 /\ Sym(1) = "expr"
    /\ next = "end"
    /\ phase' = "parsed"
    /\ UNCHANGED <<stack, next, text>>

\* yyerror: a token that nothing on the stack can be followed by.
SyntaxError ==
    /\ Parsing
    /\ ExprExpected => next \notin Vars \cup Lits \cup Funcs
    /\ Sym(Depth) = "expr" => next \notin BinOps
    /\ ~Reducible
    /\ InArgs => next \notin {",", ")"}
    /\ ~(Sym(Depth) = "call" /\ next = ")")
    /\ ~(Depth = 1 /\ Sym(1) = "expr" /\ next = "end")
    /\ phase' = "rejected"
    /\ UNCHANGED <<stack, next, text>>

Parse ==
    \/ ShiftAtom
    \/ ShiftCall
    \/ ShiftOperator
    \/ Reduce
    \/ NextArg
    \/ CloseCall
    \/ CloseEmptyCall
    \/ Accept
    \/ SyntaxError

Tree == stack[1].tree

\* What follows the parser leaves the tree alone.
Used ==
    /\ phase \notin {"parsing", "rejected"}
    /\ phase' \notin {"parsing", "parsed"}
    /\ UNCHANGED <<stack, next, text>>

ParserSpec == ParserInit /\ [][Parse \/ Used]_parser

----------------------------------------------------------------------------
\* The grammar: the trees of the parts of a text t, `trees' having those of the
\* smaller parts.  <<"expr", from, to>> are the tokens from..(to - 1) as an Expr,
\* <<"open", from, to>> as a call up to where its next argument begins.
Parts(t) == {"expr", "open"} \X (1..Len(t)) \X (1..Len(t))

Call(f, args) == Node("call", f, args)

\* A call so far, with one more argument and the token behind it.
WithArgument(t, trees, from, to, behind) ==
    IF from < to /\ t[to - 1] = behind
    THEN UNION {{Call(part[1].name, Append(part[1].kids, part[2])) :
                    part \in trees[<<"open", from, k>>] \X trees[<<"expr", k, to - 1>>]} :
                k \in (from + 1)..(to - 2)}
    ELSE {}

\* An operator between two operands, if its node has one of the shapes.
WithOperator(t, shapes, trees, from, to) ==
    UNION {{Node(t[k], NoName, <<part[1], part[2]>>) :
               part \in {p \in trees[<<"expr", from, k>>] \X trees[<<"expr", k + 1, to>>] :
                            <<t[k], p[1].op, p[2].op>> \in shapes}} :
           k \in {j \in (from + 1)..(to - 2) : t[j] \in BinOps}}

TreesOf(t, shapes, trees, part) ==
    LET from == part[2]
        to   == part[3]
    IN  IF part[1] = "open"
        THEN (IF to = from + 1 /\ t[from] \in Funcs THEN {Call(t[from], <<>>)} ELSE {})
             \cup WithArgument(t, trees, from, to, ",")
        ELSE (IF to = from + 1 /\ t[from] \in Vars \cup Lits THEN {Leaf(t[from])} ELSE {})
             \cup (IF to = from + 2 /\ t[from] \in Funcs /\ t[from + 1] = ")"
                   THEN {Call(t[from], <<>>)} ELSE {})
             \cup WithArgument(t, trees, from, to, ")")
             \cup WithOperator(t, shapes, trees, from, to)

Trees(t, shapes) ==
    LET trees[part \in Parts(t)] == TreesOf(t, shapes, trees, part)
    IN  trees

\* The tree is one of the whole text, all its operators having one of the shapes.
ReadWith(shapes) ==
    text[Len(text)] = "end" /\ Tree \in Trees(text, shapes)[<<"expr", 1, Len(text)>>]

Undeclared == Relational \cup {"="}
NodeKinds  == Operators \cup {"var", "const", "call"}

Shapes     == Operators \X NodeKinds \X NodeKinds

\* An operator with what may be to its left and to its right: + - * / bind as
\* declared; the others take one operand to the left and everything to the right.
BindsAsDeclared(op, l, r) ==
    IF op \in Arithmetic
    THEN /\ l \in Operators => l \in Arithmetic /\ Precedence(l) >= Precedence(op)
         /\ r \in Arithmetic => Precedence(r) > Precedence(op)
    ELSE l \notin Operators

AsDeclared == {s \in Shapes : BindsAsDeclared(s[1], s[2], s[3])}

\* The syntax tree of a text that is accepted has that text, and the shape that
\* the precedence declarations give it; what has no declaration
\* (parser.y:231-235) takes everything to its right.
TreeAsDeclared == phase = "parsed" => ReadWith(AsDeclared)

\* The levels of C's grammar.
CLevel(op) ==
    CASE op = "=" -> 1
      [] op \in {"==", "!="} -> 2
      [] op \in {"<", ">"} -> 3
      [] op \in {"+", "-"} -> 4
      [] op \in {"*", "/"} -> 5
      [] OTHER -> 6

\* In C = is right associative and takes a variable, the others are left
\* associative.
BindsAsInC(op, l, r) ==
    IF op = "=" THEN l = "var" ELSE CLevel(l) >= CLevel(op) /\ CLevel(r) > CLevel(op)

OfC == {s \in Shapes : BindsAsInC(s[1], s[2], s[3])}

\* How deep in calls the i-th token of t is.
Level(t, i) ==
    Cardinality({k \in 1..(i - 1) : t[k] \in Funcs}) - Cardinality({k \in 1..i : t[k] = ")"})

\* Tokens i < j are in one argument, or both outside of calls.
SameArgument(t, i, j) ==
    /\ Level(t, i) = Level(t, j)
    /\ \A k \in i..j : Level(t, k) >= Level(t, i) /\ ~(t[k] = "," /\ Level(t, k) = Level(t, i))

\* Texts whose only operator before one without a declaration is = after a
\* variable: x = a < b + 1, but neither a + b < c nor a == b < c.
Plain(t) ==
    \A j \in 1..Len(t) : t[j] \in Undeclared =>
        \A i \in 1..(j - 1) : t[i] \in Operators /\ SameArgument(t, i, j) => t[i] = "="

AssignsVars(t) ==
    \A j \in 1..Len(t) : t[j] = "=" => t[j - 1] \in Vars

\* Where no operator without a declared precedence follows another operator,
\* an expression is read as in C.
ReadsAsC == phase = "parsed" /\ Plain(text) /\ AssignsVars(text) => ReadWith(OfC)
=============================================================================
