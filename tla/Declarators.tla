---------------------------- MODULE Declarators ----------------------------
(***************************************************************************)
(* Definitions of variables, from their tokens to their types: the         *)
(* shift-reduce parser of VarDef, VarInit and ComplexVar (parser.y), the   *)
(* type nodes it creates, linked from the outside of a declarator to its   *)
(* inside by _fatherType, and VarInit::ReverseComplexType (AST.cpp), which *)
(* links them the other way before the base type is hung below them.       *)
(*                                                                         *)
(* The text that is parsed is not fixed: each token that is read is any    *)
(* token, so the behaviours are the parses of all texts of at most         *)
(* MaxTokens tokens.  `[ size ]' and an initial value count as one token.  *)
(***************************************************************************)
EXTENDS Naturals, Sequences

CONSTANTS Names,      \* identifiers
          Sizes,      \* array sizes, each standing for a token `[ size ]'
          BaseTypes,  \* the built-in types other than void
          NoName,     \* nullptr as a std::string *
          NoBase,     \* nullptr as the base type
          MaxTokens   \* bound: tokens of a text

ASSUME TokenAssumption ==
    /\ Names \cap Sizes = {} /\ (Names \cup Sizes) \cap {"*", "(", ")", ",", ";", "=", "eof", "ptr"} = {}
    /\ NoName \notin Names
    /\ NoBase \notin BaseTypes /\ (BaseTypes \cup {NoBase}) \cap Nat = {}
    /\ MaxTokens \in Nat

Tokens == {"*", "(", ")", ",", ";", "=", "eof"} \cup Names \cup Sizes

Null == 0   \* nullptr as a type node; the nodes are numbered from 1

VARIABLES status,           \* "between" definitions, in a "declarator", in the
                            \* "reverse" loop, "parsed", or "exited" by yyerror
          stack,            \* the parser's stack above VarDefBaseType
          next,             \* the lookahead token
          read,             \* tokens read so far
          text,             \* the declarator so far, as it was read
          specifier,        \* the TypeSpecifier on the parser's stack
          CurrentBaseType,  \* the global of that name
          CurrentVarName,   \* the global of that name
          nodes,            \* the ArrType and PtrType nodes
          curNode,          \* local variables of ReverseComplexType
          fatherNode,
          inits             \* the VarInit nodes: name, complexType, and, as they
                            \* were written, base type and declarator

globals == <<specifier, CurrentBaseType, CurrentVarName>>
loop    == <<curNode, fatherNode>>
vars    == <<status, stack, next, read, text, globals, nodes, loop, inits>>

----------------------------------------------------------------------------
\* A symbol on the parser's stack and its semantic value: a token, an
\* IdentifierUse or a ComplexVar.
Symbol(token) ==
    IF token \in Names THEN [sym |-> "id", val |-> token]
    ELSE IF token \in Sizes THEN [sym |-> "size", val |-> token]
    ELSE [sym |-> token, val |-> Null]

Depth == Len(stack)

\* The topmost symbols of the stack are syms.
OnTop(syms) ==
    /\ Len(syms) <= Depth
    /\ \A i \in 1..Len(syms) : stack[Depth - Len(syms) + i].sym = syms[i]

Value(i) == stack[Depth + 1 - i].val

\* The n topmost symbols are replaced by a symbol.
Reduced(n, sym, val) == Append(SubSeq(stack, 1, Depth - n), [sym |-> sym, val |-> val])

\* The next token is read: anything, or the end of the file.
ReadToken ==
    /\ read' = read + 1
    /\ next' \in IF read < MaxTokens THEN Tokens ELSE {"eof"}

\* The tokens that can follow what is on the stack.  An array declarator
\* binds tighter than a pointer: the conflict after `*' is resolved by a shift.
Shiftable ==
    \/ (stack = <<>> \/ OnTop(<<"*">>) \/ OnTop(<<"(">>)) /\ next \in {"*", "("} \cup Names
    \/ (OnTop(<<"id">>) \/ OnTop(<<"cv">>)) /\ next \in Sizes
    \/ (OnTop(<<"(", "id">>) \/ OnTop(<<"(", "cv">>)) /\ next = ")"

Parsing == status = "declarator"

Separator == next \in {",", ";"}

Init ==
    /\ status = "between"
    /\ stack = <<>>
    /\ next = "eof"
    /\ read = 0
    /\ text = <<>>
    /\ specifier = NoBase
    /\ CurrentBaseType = NoBase
    /\ CurrentVarName = NoName
    /\ nodes = <<>>
    /\ curNode = Null /\ fatherNode = Null
    /\ inits = <<>>

\* Mutation: the global is not set.
BaseTypeForgotten(type) ==
    /\ status = "between"
    /\ read < MaxTokens
    /\ status' = "declarator"
    /\ specifier' = type
    /\ UNCHANGED CurrentBaseType
    /\ ReadToken
    /\ UNCHANGED <<stack, text, CurrentVarName, nodes, loop, inits>>

\* VarDefBaseType : TypeSpecifier
VarDefBaseType(type) ==
    /\ status = "between"
    /\ read < MaxTokens
    /\ status' = "declarator"
    /\ specifier' = type
    /\ CurrentBaseType' = type
    /\ ReadToken
    /\ UNCHANGED <<stack, text, CurrentVarName, nodes, loop, inits>>

Shift ==
    /\ Parsing
    /\ Shiftable
    /\ stack' = Append(stack, Symbol(next))
    /\ text' = Append(text, next)
    /\ ReadToken
    /\ UNCHANGED <<status, globals, nodes, loop, inits>>

\* IdentifierUse : LPAREN IdentifierUse RPAREN
\* ComplexVar : LPAREN ComplexVar RPAREN
Parentheses ==
    /\ Parsing
    /\ OnTop(<<"(", "id", ")">>) \/ OnTop(<<"(", "cv", ")">>)
    /\ stack' = Reduced(3, stack[Depth - 1].sym, Value(2))
    /\ UNCHANGED <<status, next, read, text, globals, nodes, loop, inits>>

\* new ArrType(father, size) or new PtrType(father), as a symbol for the
\* topmost n symbols.
NewNode(n, kind, father) ==
    /\ nodes' = Append(nodes, [kind |-> kind, father |-> father, elem |-> Null])
    /\ stack' = Reduced(n, "cv", Len(nodes) + 1)

\* ComplexVar : IdentifierUse ArrSize
ArrayOfName ==
    /\ Parsing
    /\ OnTop(<<"id", "size">>)
    /\ CurrentVarName' = Value(2)
    /\ NewNode(2, Value(1), Null)
    /\ UNCHANGED <<status, next, read, text, specifier, CurrentBaseType, loop, inits>>

\* Mutation: the name is kept where an array is not first in its declarator.
PointerUnnamed ==
    /\ Parsing
    /\ OnTop(<<"*", "id">>) /\ next \notin Sizes
    /\ CurrentVarName' = IF CurrentVarName = NoName THEN Value(1) ELSE CurrentVarName
    /\ NewNode(2, "ptr", Null)
    /\ UNCHANGED <<status, next, read, text, specifier, CurrentBaseType, loop, inits>>

\* ComplexVar : MUL IdentifierUse
PointerToName ==
    /\ Parsing
    /\ OnTop(<<"*", "id">>) /\ next \notin Sizes
    /\ CurrentVarName' = Value(1)
    /\ NewNode(2, "ptr", Null)
    /\ UNCHANGED <<status, next, read, text, specifier, CurrentBaseType, loop, inits>>

\* ComplexVar : ComplexVar ArrSize
ArrayOfComplex ==
    /\ Parsing
    /\ OnTop(<<"cv", "size">>)
    /\ NewNode(2, Value(1), Value(2))
    /\ UNCHANGED <<status, next, read, text, globals, loop, inits>>

\* Mutation: a pointer binds as tight as an array, the conflict is resolved
\* by a reduction.
PointerFirst ==
    /\ Parsing
    /\ OnTop(<<"*", "cv">>)
    /\ NewNode(2, "ptr", Value(1))
    /\ UNCHANGED <<status, next, read, text, globals, loop, inits>>

\* ComplexVar : MUL ComplexVar
PointerToComplex ==
    /\ Parsing
    /\ OnTop(<<"*", "cv">>) /\ next \notin Sizes
    /\ NewNode(2, "ptr", Value(1))
    /\ UNCHANGED <<status, next, read, text, globals, loop, inits>>

\* A VarInit is complete and joins the VarInitList; the separator is read.
EndVarInit(name, complexType) ==
    /\ inits' = Append(inits, [name |-> name, complexType |-> complexType,
                               base |-> specifier, text |-> text])
    /\ stack' = <<>>
    /\ text' = <<>>
    /\ IF next = ","
       THEN status' = "declarator" /\ ReadToken
       ELSE status' = "between" /\ UNCHANGED <<next, read>>

\* VarInit : IdentifierUse
PlainVar ==
    /\ Parsing
    /\ OnTop(<<"id">>) /\ Depth = 1
    /\ Separator
    /\ EndVarInit(Value(1), Null)
    /\ UNCHANGED <<globals, nodes, loop>>

\* VarInit : IdentifierUse ASSIGN Expr, what follows being another VarInit or
\* the end of the definition.
InitializedVar ==
    /\ Parsing
    /\ OnTop(<<"id">>) /\ Depth = 1
    /\ next = "="
    /\ read' = read + 1
    /\ next' \in IF read < MaxTokens THEN {",", ";", "eof"} ELSE {"eof"}
    /\ UNCHANGED <<status, stack, text, globals, nodes, loop, inits>>

\* VarInit : ComplexVar, that is VarInit::VarInit up to the loop of
\* ReverseComplexType.
BeginReverse ==
    /\ Parsing
    /\ OnTop(<<"cv">>) /\ Depth = 1
    /\ Separator
    /\ status' = "reverse"
    /\ curNode' = Value(1)
    /\ fatherNode' = nodes[Value(1)].father
    /\ UNCHANGED <<stack, next, read, text, globals, nodes, inits>>

\* Mutation: the father is looked up again only below an array.
ReverseStuck ==
    /\ status = "reverse"
    /\ fatherNode # Null
    /\ nodes' = [nodes EXCEPT ![fatherNode].elem = curNode]
    /\ curNode' = fatherNode
    /\ fatherNode' = IF nodes[fatherNode].kind = "ptr" THEN fatherNode ELSE nodes[fatherNode].father
    /\ UNCHANGED <<status, stack, next, read, text, globals, inits>>

\* Mutation: a node gets its father as its element.
ReverseCrossed ==
    /\ status = "reverse"
    /\ fatherNode # Null
    /\ nodes' = [nodes EXCEPT ![curNode].elem = fatherNode]
    /\ curNode' = fatherNode
    /\ fatherNode' = nodes[fatherNode].father
    /\ UNCHANGED <<status, stack, next, read, text, globals, inits>>

\* One round of the loop of ReverseComplexType.
ReverseStep ==
    /\ status = "reverse"
    /\ fatherNode # Null
    /\ nodes' = [nodes EXCEPT ![fatherNode].elem = curNode]
    /\ curNode' = fatherNode
    /\ fatherNode' = nodes[fatherNode].father
    /\ UNCHANGED <<status, stack, next, read, text, globals, inits>>

\* The rest of VarInit::VarInit: complexType becomes the last node of the
\* reversal, the base type goes below the first one.
EndReverse ==
    /\ status = "reverse"
    /\ fatherNode = Null
    /\ nodes' = [nodes EXCEPT ![Value(1)].elem = CurrentBaseType]
    /\ EndVarInit(CurrentVarName, curNode)
    /\ UNCHANGED <<globals, loop>>

\* yyerror: a token that can be neither shifted nor be behind a reduction.
SyntaxError ==
    /\ Parsing
    /\ ~Shiftable
    /\ ~(OnTop(<<")">>) \/ OnTop(<<"size">>) \/ OnTop(<<"*", "id">>) \/ OnTop(<<"*", "cv">>))
    /\ ~(Depth = 1 /\ OnTop(<<"id">>) /\ (Separator \/ next = "="))
    /\ ~(Depth = 1 /\ OnTop(<<"cv">>) /\ Separator)
    /\ status' = "exited"
    /\ UNCHANGED <<stack, next, read, text, globals, nodes, loop, inits>>

\* The end of the text.
EndOfText ==
    /\ status = "between"
    /\ status' = "parsed"
    /\ UNCHANGED <<stack, next, read, text, globals, nodes, loop, inits>>

Ended == status \in {"parsed", "exited"} /\ UNCHANGED vars

Step ==
    \/ \E type \in BaseTypes : VarDefBaseType(type)
    \/ Shift
    \/ Parentheses
    \/ ArrayOfName
    \/ PointerToName
    \/ ArrayOfComplex
    \/ PointerToComplex
    \/ PlainVar
    \/ InitializedVar
    \/ BeginReverse
    \/ ReverseStep
    \/ EndReverse
    \/ SyntaxError
    \/ EndOfText

Next == Step \/ Ended

Spec == Init /\ [][Next]_vars

\* yyparse and the constructors it calls are one thread that goes on.
FairSpec == Spec /\ WF_vars(Step)

----------------------------------------------------------------------------
Node  == 1..Len(nodes)
Kinds == {"ptr"} \cup Sizes

\* The types of the variables.
TypeOK ==
    /\ status \in {"between", "declarator", "reverse", "parsed", "exited"}
    /\ stack \in Seq([sym : {"*", "(", ")", "id", "cv", "size"}, val : Names \cup Sizes \cup {Null} \cup Node])
    /\ next \in Tokens
    /\ read \in Nat
    /\ text \in Seq(Tokens)
    /\ {specifier, CurrentBaseType} \subseteq BaseTypes \cup {NoBase}
    /\ CurrentVarName \in Names \cup {NoName}
    /\ nodes \in Seq([kind : Kinds, father : {Null} \cup Node, elem : {Null} \cup Node \cup BaseTypes])
    /\ {curNode, fatherNode} \subseteq {Null} \cup Node
    /\ inits \in Seq([name : Names, complexType : {Null} \cup Node, base : BaseTypes, text : Seq(Tokens)])

\* How C reads a declarator: from the name outwards, to the right as far as
\* there are arrays, then to the left, parentheses first.  The kinds of the
\* constructors, the type's outermost first, of what is left of l + 1 and right
\* of r - 1.
ReadFrom(t) ==
    LET At(i) == IF i \in 1..Len(t) THEN t[i] ELSE "eof"
        from[place \in (0..Len(t)) \X (1..(Len(t) + 1))] ==
            LET l == place[1]
                r == place[2]
            IN  CASE At(r) \in Sizes            -> <<At(r)>> \o from[<<l, r + 1>>]
                  [] At(l) = "(" /\ At(r) = ")" -> from[<<l - 1, r + 1>>]
                  [] At(r) \notin Sizes /\ At(l) = "*" -> <<"ptr">> \o from[<<l - 1, r>>]
                  [] OTHER                      -> <<>>
    IN  from

Reading(t) ==
    LET name == CHOOSE i \in 1..Len(t) : t[i] \in Names
    IN  ReadFrom(t)[<<name - 1, name + 1>>]

\* The kinds of the nodes from one along the element links, and what is at
\* their end, in at most so many steps; more than Len(nodes) would be a cycle.
Down[from \in (0..Len(nodes)) \X ({Null} \cup Node \cup BaseTypes)] ==
    LET n == from[2]
    IN  IF n \in Node /\ from[1] > 0
        THEN <<nodes[n].kind>> \o Down[<<from[1] - 1, nodes[n].elem>>]
        ELSE <<n>>

\* What GetLLVMType reads.
TypeAt(node) == Down[<<Len(nodes), node>>]

NameIn(t) == t[CHOOSE i \in 1..Len(t) : t[i] \in Names]

\* Each variable gets the type that C reads in its declarator, down to the
\* base type of its own definition: parser, reversal and the shared global
\* CurrentBaseType together (what VarDef::CodeGen asks GetLLVMType for).
TypesReadAsC ==
    \A i \in 1..Len(inits) :
        LET v == inits[i]
        IN  IF v.complexType = Null
            THEN Reading(v.text) = <<>>
            ELSE TypeAt(v.complexType) = Append(Reading(v.text), v.base)

\* Each variable gets the name in its own declarator, though it goes through
\* the global CurrentVarName and through declarators that are nested.
NamesAsWritten ==
    \A i \in 1..Len(inits) : inits[i].name = NameIn(inits[i].text)

\* The nodes from one along the links to fathers, or to elements.
Fathers[from \in (0..Len(nodes)) \X ({Null} \cup Node)] ==
    LET n == from[2]
    IN  IF n = Null \/ from[1] = 0 THEN {} ELSE {n} \cup Fathers[<<from[1] - 1, nodes[n].father>>]

Elements[from \in (0..Len(nodes)) \X ({Null} \cup Node \cup BaseTypes)] ==
    LET n == from[2]
    IN  IF n \notin Node \/ from[1] = 0 THEN {} ELSE {n} \cup Elements[<<from[1] - 1, nodes[n].elem>>]

FathersOf(n)  == Fathers[<<Len(nodes), n>>]
ElementsOf(n) == Elements[<<Len(nodes), n>>]

\* In the middle of a reversal no node is lost and none is in both halves:
\* the nodes of the declarator are those already linked below curNode and
\* those that are still reached through fatherNode.
ReversalSplits ==
    status = "reverse" =>
        /\ ElementsOf(curNode) \cup FathersOf(fatherNode) = FathersOf(Value(1))
        /\ ElementsOf(curNode) \cap FathersOf(fatherNode) = {}

\* No two types share a node, whatever is declared after them: each node is the
\* element of at most one other, the outermost node of a variable's type of none,
\* and the nodes from there on end in the base type of the variable's own
\* definition (ReverseComplexType writes to nodes that the parser has linked).
TypesApart ==
    /\ \A m, n \in Node : nodes[m].elem = nodes[n].elem /\ nodes[m].elem \in Node => m = n
    /\ \A i \in 1..Len(inits) : inits[i].complexType # Null =>
          /\ \A n \in Node : nodes[n].elem # inits[i].complexType
          /\ \A j \in 1..Len(inits) : inits[j].complexType = inits[i].complexType => j = i
          /\ \E last \in inits[i].complexType..Len(nodes) :
                /\ nodes[last].elem = inits[i].base
                /\ \A k \in inits[i].complexType..(last - 1) : nodes[k].elem = k + 1

\* The parser gets to the end of every text: no chain of fathers is a cycle
\* that ReverseComplexType would follow for ever.
Ends == <>(status \in {"parsed", "exited"})
=============================================================================
