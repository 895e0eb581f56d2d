---------------------------- MODULE Expressions ----------------------------
(***************************************************************************)
(* An expression from its text to its value: the parser of ExprParser, the *)
(* CodeGen() of the expression nodes and CastToBool (AST.cpp, type.hpp),   *)
(* and the execution of the instructions they create.                      *)
(*                                                                         *)
(* A value is kept as the signed number of its bits, as LLVM's signed      *)
(* instructions see it: true is -1.  An instruction whose operands do not  *)
(* have the types it needs is undefined behaviour of LLVM: it asserts, or  *)
(* the code means nothing.                                                 *)
(***************************************************************************)
EXTENDS ExprParser, SequencesExt

CONSTANTS VarType,   \* the type of each variable
          LitType,   \* the type and the value of each constant
          LitValue,
          Params,    \* the types of each function's parameters
          Returns,   \* the type each function returns
          Initial,   \* the values variables have before
          Bits       \* the width of each integer type

IntTypes == {"bool", "char", "int"}
Types    == IntTypes \cup {"double", "void"}

ASSUME TypeAssumption ==
    /\ VarType \in [Vars -> Types \ {"void"}]
    /\ LitType \in [Lits -> Types \ {"void"}]
    /\ Params \in [Funcs -> Seq(Types \ {"void"})]
    /\ Returns \in [Funcs -> Types]
    /\ Bits \in [IntTypes -> Nat \ {0}]

VARIABLES use,    \* an expression statement ("stmt") or a condition ("cond")
          code,   \* the instructions that have been generated
          result, \* the llvm::Value the expression stands for
          pc,     \* the instruction to be executed next
          regs,   \* the values of those executed
          mem,    \* the values of the variables
          out     \* the calls that were made: function and arguments

machine == <<pc, regs, mem, out>>
vars    == <<parser, use, code, result, machine>>

----------------------------------------------------------------------------
\* Mutation: integers have no width.
WrapUnbounded(n, type) == n

\* n as a signed number of a type's width.
Wrap(n, type) ==
    IF type \notin IntTypes THEN 0
    ELSE LET limit == 2 ^ (Bits[type] - 1) IN ((n + limit) % (2 * limit)) - limit

\* An llvm::Value: a constant, or the result of instruction number reg.
Constant(type, n) == [type |-> type, reg |-> 0, val |-> Wrap(n, type)]
Register(type, n) == [type |-> type, reg |-> n, val |-> 0]

NoValue == Constant("void", 0)

Instr(op, name, args) == [op |-> op, name |-> name, args |-> args]

\* What a CodeGen() leaves: its state ("ok", "thrown" for a logic_error,
\* "undefined" for ill-typed operands), the code and the value.
Gen(state, cd, val) == [state |-> state, code |-> cd, val |-> val]

\* The code with one more instruction, of the given type, if its operands fit.
Emit(cd, instr, type, fits) ==
    IF fits THEN Gen("ok", Append(cd, instr), Register(type, Len(cd) + 1))
    ELSE Gen("undefined", cd, NoValue)

SameInts(l, r) == l.type = r.type /\ l.type \in IntTypes

\* Variable::CodeGen
LoadVar(cd, v) == Emit(cd, Instr("load", v, <<>>), VarType[v], TRUE)

\* Mutation: the value of an assignment is the old one.
AssignOld(cd, v, rhs) ==
    LET load == LoadVar(cd, v)
    IN  [Emit(load.code, Instr("store", v, <<rhs>>), "void", rhs.type = VarType[v])
            EXCEPT !.val = load.val]

\* The end of AssignExpr::CodeGen: store, then load.
Assign(cd, v, rhs) ==
    LET store == Emit(cd, Instr("store", v, <<rhs>>), "void", rhs.type = VarType[v])
    IN  IF store.state = "ok" THEN LoadVar(store.code, v) ELSE store

\* The CodeGen() of each kind of node: left before right, arguments in order.
RECURSIVE CodeGen(_, _)
CodeGen(tree, cd) ==
    LET Child(g, kid) ==      \* generates one child more
            IF g.state # "ok" THEN g
            ELSE LET k == CodeGen(kid, g.code) IN Gen(k.state, k.code, Append(g.val, k.val))
        kids == FoldLeft(Child, Gen("ok", cd, <<>>),
                         IF tree.op = "=" THEN Tail(tree.kids) ELSE tree.kids)
        Kid(i) == kids.val[i]
    IN  CASE tree.op = "const" -> Gen("ok", cd, Constant(LitType[tree.name], LitValue[tree.name]))
          [] tree.op = "var" -> LoadVar(cd, tree.name)
          \* CodeGenPtr throws for all but a variable
          [] tree.op = "=" /\ tree.kids[1].op # "var" -> Gen("thrown", cd, NoValue)
          [] OTHER ->
             IF kids.state # "ok" THEN kids
             ELSE CASE tree.op = "=" -> Assign(kids.code, tree.kids[1].name, Kid(1))
                    [] tree.op = "call" ->
                       Emit(kids.code, Instr("call", tree.name, kids.val), Returns[tree.name],
                            [i \in 1..Len(kids.val) |-> Kid(i).type] = Params[tree.name])
                    [] OTHER ->
                       Emit(kids.code, Instr(tree.op, NoName, kids.val),
                            IF tree.op \in Relational THEN "bool" ELSE Kid(1).type,
                            SameInts(Kid(1), Kid(2)))

\* CastToBool
CastToBool(g) ==
    CASE g.state # "ok" \/ g.val.type = "bool" -> g
      [] g.val.type \in IntTypes ->
         LET zero == Constant("int", 0)
         IN  Emit(g.code, Instr("!=", NoName, <<g.val, zero>>), "bool", SameInts(g.val, zero))
      [] OTHER -> Gen("thrown", g.code, NoValue)

Init ==
    /\ ParserInit
    /\ use = "stmt"
    /\ code = <<>>
    /\ result = NoValue
    /\ pc = 1
    /\ regs = <<>>
    /\ mem = Initial
    /\ out = <<>>

Parser == Parse /\ UNCHANGED <<use, code, result, machine>>

\* ExprStmt::CodeGen, or the condition of IfStmt or ForStmt::CodeGen.
Generate(u) ==
    LET g == CodeGen(Tree, <<>>)
        h == IF u = "cond" THEN CastToBool(g) ELSE g
    IN  /\ phase = "parsed"
        /\ phase' = IF h.state = "ok" THEN "running" ELSE h.state
        /\ use' = u
        /\ code' = h.code
        /\ result' = IF h.state = "ok" THEN h.val ELSE NoValue
        /\ UNCHANGED <<stack, next, text, machine>>

ValueOf(v) == IF v.reg = 0 THEN v.val ELSE regs[v.reg]

Sign(n) == IF n < 0 THEN -1 ELSE 1
Abs(n)  == Sign(n) * n
Quotient(m, n) == Sign(m) * Sign(n) * (Abs(m) \div Abs(n))

Bit(b) == IF b THEN 1 ELSE 0

\* The number an operator makes of two numbers.
Apply(op, m, n) ==
    CASE op = "+"  -> m + n
      [] op = "-"  -> m - n
      [] op = "*"  -> m * n
      [] op = "/"  -> Quotient(m, n)
      [] op = "==" -> Bit(m = n)
      [] op = "!=" -> Bit(m # n)
      [] op = "<"  -> Bit(m < n)
      [] op = ">"  -> Bit(m > n)

\* SDiv by zero, or with a quotient that has no place, is undefined.
Fails(op, m, n, type) == op = "/" /\ (n = 0 \/ Wrap(Quotient(m, n), type) # Quotient(m, n))

\* A function returns its first argument, if it is of the type it returns.
ReturnValue(f, args) ==
    IF args # <<>> /\ Params[f][1] = Returns[f] THEN args[1] ELSE 0

\* The next instruction is executed.
Execute ==
    LET i    == code[pc]
        args == [k \in 1..Len(i.args) |-> ValueOf(i.args[k])]
        type == i.args[1].type
    IN  /\ phase = "running"
        /\ pc <= Len(code)
        /\ pc' = pc + 1
        /\ IF i.op \in Operators /\ Fails(i.op, args[1], args[2], type)
           THEN phase' = "undefined" /\ UNCHANGED <<regs, mem, out>>
           ELSE /\ phase' = phase
                /\ mem' = IF i.op = "store" THEN [mem EXCEPT ![i.name] = args[1]] ELSE mem
                /\ out' = IF i.op = "call" THEN Append(out, <<i.name, args>>) ELSE out
                /\ regs' = Append(regs,
                     CASE i.op = "load"  -> mem[i.name]
                       [] i.op = "store" -> 0
                       [] i.op = "call"  -> ReturnValue(i.name, args)
                       [] i.op \in Relational -> Wrap(Apply(i.op, args[1], args[2]), "bool")
                       [] OTHER -> Wrap(Apply(i.op, args[1], args[2]), type))
        /\ UNCHANGED <<stack, next, text, use, code, result>>

Finish ==
    /\ phase = "running"
    /\ pc > Len(code)
    /\ phase' = "done"
    /\ UNCHANGED <<stack, next, text, use, code, result, machine>>

Ended == phase \in {"rejected", "thrown", "undefined", "done"} /\ UNCHANGED vars

Next == Parser \/ (\E u \in {"stmt", "cond"} : Generate(u)) \/ Execute \/ Finish \/ Ended

Spec == Init /\ [][Next]_vars

----------------------------------------------------------------------------
InRange(n, type) == n \in -(2 ^ (Bits[type] - 1))..(2 ^ (Bits[type] - 1) - 1)

\* The types of the variables: what is on the stack and in the code is in the
\* order a call can be in, and every value fits into its type's width.
TypeOK ==
    /\ phase \in {"parsing", "rejected", "parsed", "running", "thrown", "undefined", "done"}
    /\ \A i \in 1..Depth : stack[i].sym \in Operators \cup {"expr", "call", ","}
    /\ next \in Tokens
    /\ text \in Seq(Tokens)
    /\ use \in {"stmt", "cond"}
    /\ \A i \in 1..Len(code) : \A k \in 1..Len(code[i].args) : code[i].args[k].reg \in 0..(i - 1)
    /\ result.reg \in 0..Len(code)
    /\ pc \in 1..(Len(code) + 1)
    /\ \A i \in 1..Len(regs) : code[i].op \in Arithmetic => InRange(regs[i], code[i].args[1].type)
    /\ \A v \in Vars : VarType[v] \in IntTypes => InRange(mem[v], VarType[v])

\* C's evaluation of a tree, without the conversions between types: the value, whether it is
\* defined, the variables and the calls.
RECURSIVE Eval(_, _)
Eval(t, s) ==
    LET Child(e, kid) == LET k == Eval(kid, e) IN [k EXCEPT !.val = Append(e.val, k.val)]
        kids == FoldLeft(Child, [s EXCEPT !.val = <<>>], IF t.op = "=" THEN Tail(t.kids) ELSE t.kids)
        m == kids.val[1]
        n == kids.val[2]
        arithmetic == Apply(t.op, m, n)
    IN  CASE t.op = "const" -> [s EXCEPT !.val = LitValue[t.name]]
          [] t.op = "var"   -> [s EXCEPT !.val = s.mem[t.name]]
          [] t.op = "="     -> [kids EXCEPT !.val = m, !.mem = [kids.mem EXCEPT ![t.kids[1].name] = m]]
          [] t.op = "call"  -> [kids EXCEPT !.val = ReturnValue(t.name, kids.val),
                                            !.out = Append(kids.out, <<t.name, kids.val>>)]
          [] t.op \in Relational -> [kids EXCEPT !.val = arithmetic]
          [] OTHER -> IF t.op = "/" /\ n = 0 THEN [kids EXCEPT !.val = 0, !.defined = FALSE]
                      ELSE [kids EXCEPT !.val = arithmetic,
                                        !.defined = kids.defined /\ InRange(arithmetic, "int")]

\* The type of a tree in which nothing needs a conversion, "none" otherwise;
\* arithmetic and comparisons are those of int, for all else is promoted.
RECURSIVE TypeOf(_)
TypeOf(t) ==
    LET kids == [i \in 1..Len(t.kids) |-> TypeOf(t.kids[i])]
    IN  CASE t.op = "const" -> LitType[t.name]
          [] t.op = "var"   -> VarType[t.name]
          [] t.op = "="     -> IF t.kids[1].op = "var" /\ kids[1] = kids[2] THEN kids[1] ELSE "none"
          [] t.op = "call"  -> IF kids = Params[t.name] THEN Returns[t.name] ELSE "none"
          [] OTHER          -> IF kids # <<"int", "int">> THEN "none"
                               ELSE IF t.op \in Relational THEN "bool" ELSE "int"

\* An expression that is read as in C and needs no conversion does what it does in
\* C, whenever that is defined: the value, the variables, the calls with their
\* arguments and their order, and the branch a condition takes.
ComputesAsC ==
    phase \in {"thrown", "undefined", "done"} /\ ReadWith(OfC) /\ TypeOf(Tree) \in {"int", "bool"} =>
        LET inC == Eval(Tree, [val |-> 0, defined |-> TRUE, mem |-> Initial, out |-> <<>>])
        IN  inC.defined =>
               /\ phase = "done"
               /\ mem = inC.mem
               /\ out = inC.out
               /\ IF result.type = "int" THEN ValueOf(result) = inC.val
                  ELSE (ValueOf(result) # 0) = (inC.val # 0)

\* A condition whose type is an integer type becomes a boolean
\* (IfStmt::CodeGen and CastToBool).
ConditionBecomesBool ==
    phase \in {"thrown", "undefined"} /\ use = "cond" => CodeGen(Tree, <<>>).val.type \notin {"char", "int"}

\* Booleans and characters are unsigned: true is greater than false.
BooleansUnsigned ==
    /\ phase = "done" /\ use = "stmt"
    /\ Tree.op \in {"<", ">"} /\ \A i \in {1, 2} : Tree.kids[i].op = "const" /\ TypeOf(Tree.kids[i]) = "bool"
    =>
        LET value(i) == LitValue[Tree.kids[i].name]
        IN  (ValueOf(result) # 0) = (Apply(Tree.op, value(1), value(2)) # 0)
=============================================================================
