---------------------------- MODULE ScopeProofs -----------------------------
(***************************************************************************)
(* Names are resolved right, for every program: the scope stack with its   *)
(* search implements lexical scoping (LexicalScope), and what an           *)
(* instruction accesses is a variable of its own function or a global one  *)
(* (VariablesConfined).  A program without global variables accesses       *)
(* variables that exist in the result (NoDanglingUse).  The last part is   *)
(* about single steps: what a step accesses is in scope at that place of   *)
(* the source (UsesInScope), and no finished function changes              *)
(* (FinishedUnchanged).                                                    *)
(*                                                                         *)
(* The invariant behind them all says where the variables of each scope    *)
(* are: every name that a scope binds is an alloca in the scope's own      *)
(* basic block.  The next alloca there is therefore new, which is what a   *)
(* declaration needs; and with InCurrentFunc it is an alloca of the        *)
(* function that is being generated.                                       *)
(***************************************************************************)
EXTENDS BlockProofs

\* p is the place of an alloca.
Known(c, p) == p \in Ptr /\ p[2] <= Len(c[p[1]]) /\ c[p[1]][p[2]].op = "alloca"

\* The variables of a scope are allocas in the scope's basic block.
Bound(bl, c) ==
    \A i \in 1..Len(bl) : \A v \in Vars :
        bl[i].vars[v] # NoPtr => bl[i].vars[v][1] = bl[i].bb /\ Known(c, bl[i].vars[v])

\* Block b can access p: a variable of its own function, or a global one.
\* The global variables are gone once the program is generated.
Reaches(p, b) ==
    \/ Known(instrs, p) /\ owner[p[1]] = owner[b]
    \/ GlobalVars /\ Known(instrs, p) /\ owner[p[1]] = GlobalFunc
    \/ GlobalVars /\ p \in Ptr /\ status = "generated" /\ owner[p[1]] = NoFunc

Accessed == \A b \in BB : \A i \in Elems(instrs[b]) : i.op = "access" => Reaches(i.ptr, b)

\* A program without global variables binds no name in its outermost scope.
NoGlobals ==
    ~GlobalVars => /\ \A v \in Vars : blocks # <<>> => blocks[1].vars[v] = NoPtr
                   /\ inDef => Len(frames) > 1

VInv == Bound(blocks, instrs) /\ Accessed /\ NoGlobals

----------------------------------------------------------------------------
\* The variable table.

\* A place that a scope of bl binds a name to.
Visible(bl, p) == p # NoPtr /\ \E i \in 1..Len(bl) : \E v \in Vars : p = bl[i].vars[v]

\* What the instructions of s access is in scope.
Looks(bl, s) == \A i \in Elems(s) : i.op = "access" => Visible(bl, i.ptr)

LEMMA ExprLooks ==
    ASSUME NEW bl \in Seq(Scope), NEW e, ~Throws(bl, e)
    PROVE  Looks(bl, ExprCode(bl, e))
<1>1. CASE e \in Vars
  <2>1. IsVarDefined(bl, e)
    BY <1>1 DEF Throws
  <2>2. PICK i \in 1..Len(bl) : bl[i].vars[e] # NoPtr /\ GetVar(bl, e) = bl[i].vars[e]
    BY <1>1, <2>1, GetVarDefined
  <2>3. Visible(bl, GetVar(bl, e))
    BY <1>1, <2>2 DEF Visible
  <2>4. ExprCode(bl, e) = <<Access(GetVar(bl, e))>>
    BY <1>1 DEF ExprCode
  <2>5. Access(GetVar(bl, e)).ptr = GetVar(bl, e)
    BY DEF Access
  <2> QED
    BY <2>3, <2>4, <2>5, OneElem DEF Looks
<1>2. CASE e \notin Vars
  <2>1. ExprCode(bl, e) = <<Call>> \/ ExprCode(bl, e) = <<>>
    BY <1>2 DEF ExprCode
  <2>2. Call.op # "access"
    BY DEF Call
  <2> QED
    BY <2>1, <2>2, OneElem, NoElem DEF Looks
<1> QED
  BY <1>1, <1>2

\* An expression and an instruction that accesses nothing.
LEMMA ExprThenLooks ==
    ASSUME NEW bl \in Seq(Scope), NEW e, ~Throws(bl, e), NEW i \in Instr, i.op # "access"
    PROVE  /\ Append(ExprCode(bl, e), i) \in Seq(Instr)
           /\ Looks(bl, Append(ExprCode(bl, e), i))
<1> DEFINE s == ExprCode(bl, e)
<1>1. s \in Seq(Instr) /\ Looks(bl, s)
  BY ExprCodeType, ExprLooks
<1> HIDE DEF s
<1>2. Append(s, i) \in Seq(Instr) /\ Elems(Append(s, i)) = Elems(s) \cup {i}
  BY <1>1, AppendElems
<1>3. Looks(bl, Append(s, i))
  BY <1>1, <1>2 DEF Looks
<1> QED
  BY <1>2, <1>3 DEF s

LEMMA SimpleLooks ==
    ASSUME NEW bl
    PROVE  /\ Looks(bl, <<>>)
           /\ \A i : i.op # "access" => Looks(bl, <<i>>)
BY OneElem, NoElem DEF Looks

LEMMA KnownKept ==
    ASSUME NEW c \in [BB -> Seq(Instr)], NEW d \in [BB -> Seq(Instr)], Extends(c, d),
           NEW p, Known(c, p)
    PROVE  Known(d, p)
<1>1. p[1] \in BB /\ p[2] \in Nat \ {0} /\ p \in Ptr
  BY DEF Known, Ptr
<1>2. Len(c[p[1]]) \in Nat /\ Len(d[p[1]]) \in Nat
  BY <1>1
<1>3. p[2] \in 1..Len(c[p[1]])
  BY <1>1, <1>2 DEF Known
<1>4. Len(c[p[1]]) <= Len(d[p[1]]) /\ d[p[1]][p[2]] = c[p[1]][p[2]]
  BY <1>1, <1>3 DEF Extends
<1> QED
  BY <1>1, <1>2, <1>3, <1>4 DEF Known

LEMMA BoundKept ==
    ASSUME NEW c \in [BB -> Seq(Instr)], NEW d \in [BB -> Seq(Instr)], Extends(c, d),
           NEW bl, Bound(bl, c)
    PROVE  Bound(bl, d)
BY KnownKept DEF Bound

LEMMA BoundPushed ==
    ASSUME NEW bl \in Seq(Scope), NEW c, Bound(bl, c), NEW b \in BB
    PROVE  Bound(PushBasicBlock(bl, b), c)
<1> DEFINE cl == PushBasicBlock(bl, b)
<1>1. /\ cl \in Seq(Scope) /\ Len(cl) = Len(bl) + 1 /\ cl[Len(cl)] = ScopeOf(b)
      /\ \A i \in 1..Len(bl) : cl[i] = bl[i]
  BY ScopeOfType, Pushed DEF PushBasicBlock
<1> HIDE DEF cl
<1>2. \A i \in 1..Len(cl) : i = Len(cl) \/ i \in 1..Len(bl)
  BY <1>1
<1>3. \A v \in Vars : ScopeOf(b).vars[v] = NoPtr
  BY DEF ScopeOf
<1>4. Bound(cl, c)
  BY <1>1, <1>2, <1>3 DEF Bound
<1> QED
  BY <1>4 DEF cl

LEMMA BoundPopped ==
    ASSUME NEW bl \in Seq(Scope), NEW c, Bound(bl, c), NEW k \in 1..Len(bl)
    PROVE  Bound(SubSeq(bl, 1, Len(bl) - k), c)
<1> DEFINE cl == SubSeq(bl, 1, Len(bl) - k)
<1>1. Len(cl) = Len(bl) - k /\ \A i \in 1..Len(cl) : cl[i] = bl[i]
  BY Popped
<1> HIDE DEF cl
<1>2. \A i \in 1..Len(cl) : i \in 1..Len(bl)
  BY <1>1
<1>3. Bound(cl, c)
  BY <1>1, <1>2 DEF Bound
<1> QED
  BY <1>3 DEF cl

\* In stack cl, name v is bound to p in the last scope of bl, if it was free.
Binds(bl, cl, p, v) ==
    /\ cl \in Seq(Scope) /\ Len(cl) = Len(bl) /\ Len(bl) \in 1..Len(bl)
    /\ \A i \in 1..Len(bl) : cl[i].bb = bl[i].bb
    /\ \A i \in 1..(Len(bl) - 1) : cl[i] = bl[i]
    /\ IsVarInLocal(bl, v) => cl = bl
    /\ ~IsVarInLocal(bl, v) => cl[Len(bl)].vars = [bl[Len(bl)].vars EXCEPT ![v] = p]

\* What AddLocalVar does.
LEMMA AddLocalVarAt ==
    ASSUME NEW bl \in Seq(Scope), NEW p \in Ptr, NEW v \in Vars, bl # <<>>
    PROVE  Binds(bl, AddLocalVar(bl, p, v), p, v)
<1> DEFINE n == Len(bl)
           h == [bl[n] EXCEPT !.vars[v] = p]
           cl == AddLocalVar(bl, p, v)
<1>1. n \in 1..n /\ n \in Nat /\ bl[n] \in Scope
  BY EmptySeq, ElementOfSeq
<1>2. /\ cl \in Seq(Scope) /\ Len(cl) = n
      /\ \A i \in 1..n : cl[i].bb = bl[i].bb
  BY AddLocalVarType
<1>3. CASE IsVarInLocal(bl, v)
  BY <1>1, <1>2, <1>3 DEF AddLocalVar, Binds
<1>4. CASE ~IsVarInLocal(bl, v)
  <2>1. cl = [bl EXCEPT ![n] = h]
    BY <1>4 DEF AddLocalVar
  <2>2. h \in Scope /\ h.vars = [bl[n].vars EXCEPT ![v] = p]
    BY <1>1 DEF Scope
  <2> HIDE DEF h
  <2>3. \A i \in 1..n : cl[i] = IF i = n THEN h ELSE bl[i]
    BY <1>1, <2>1, <2>2, ExceptSeq
  <2>4. \A i \in 1..(n - 1) : i \in 1..n /\ i # n
    BY <1>1
  <2> HIDE DEF cl
  <2>5. \A i \in 1..(n - 1) : cl[i] = bl[i]
    BY <2>3, <2>4, Zenon
  <2>6. cl[n].vars = [bl[n].vars EXCEPT ![v] = p]
    <3>1. cl[n] = h
      BY <1>1, <2>3
    <3> QED
      BY <2>2, <3>1
  <2> QED
    BY <1>1, <1>2, <1>4, <2>5, <2>6, Zenon DEF Binds, cl
<1> QED
  BY <1>3, <1>4

LEMMA BoundAdded ==
    ASSUME NEW bl \in Seq(Scope), NEW c, Bound(bl, c), bl # <<>>,
           NEW p, NEW v \in Vars, p[1] = bl[Len(bl)].bb, Known(c, p)
    PROVE  Bound(AddLocalVar(bl, p, v), c)
<1> DEFINE cl == AddLocalVar(bl, p, v)
           n  == Len(bl)
<1>0. p \in Ptr
  BY DEF Known
<1>1. Binds(bl, cl, p, v)
  BY <1>0, AddLocalVarAt
<1>2. bl[n] \in Scope
  BY <1>1, ElementOfSeq
<1> HIDE DEF cl
<1>3. CASE IsVarInLocal(bl, v)
  BY <1>1, <1>3 DEF Binds, cl
<1>4. CASE ~IsVarInLocal(bl, v)
  <2> SUFFICES ASSUME NEW i \in 1..Len(cl), NEW w \in Vars, cl[i].vars[w] # NoPtr
               PROVE  cl[i].vars[w][1] = cl[i].bb /\ Known(c, cl[i].vars[w])
    BY DEF Bound, cl
  <2>1. CASE i \in 1..(n - 1)
    BY <1>1, <2>1 DEF Bound, Binds
  <2>2. CASE i = n
    <3>1. cl[n].vars[w] = IF w = v THEN p ELSE bl[n].vars[w]
      BY <1>1, <1>2, <1>4 DEF Binds, Scope
    <3>2. CASE w = v
      BY <1>1, <2>2, <3>1, <3>2 DEF Binds
    <3>3. CASE w # v
      BY <1>1, <2>2, <3>1, <3>3 DEF Bound, Binds
    <3> QED
      BY <3>2, <3>3
  <2>3. i \in 1..(n - 1) \/ i = n
    BY <1>1 DEF Binds
  <2> QED
    BY <2>1, <2>2, <2>3
<1> QED
  BY <1>3, <1>4
----------------------------------------------------------------------------
\* What a step does to the stack of scopes.

Opens(b) == blocks' = PushBasicBlock(blocks, b)

Closes(k) == blocks' = SubSeq(blocks, 1, Len(blocks) - k)

Replaces(b) == blocks' = PushBasicBlock(PopBasicBlock(blocks), b)

\* The place of the next instruction of the innermost scope's basic block.
NextPlace == <<GetCurrentBlock, Len(instrs[GetCurrentBlock]) + 1>>

\* The next alloca is generated, and bound to v if v is free in the scope.
Declares(v) == blocks' = AddLocalVar(blocks, NextPlace, v) /\ Known(instrs', NextPlace)

ScopeEffect ==
    \/ blocks' = blocks
    \/ \E b \in BB : Opens(b)
    \/ \E k \in {1, 2} : k <= Len(blocks) /\ Closes(k)
    \/ Len(blocks) > 1 /\ \E b \in BB : Replaces(b)
    \/ /\ status = "running" /\ (Len(blocks) > 1 \/ GlobalVars)
       /\ \E v \in Vars : Declares(v)

\* The alloca of a declaration.
LEMMA AllocaAt ==
    ASSUME NEW c \in [BB -> Seq(Instr)], NEW a \in BB, NEW b \in BB \cup {NoBB},
           NEW t \in Seq(Instr)
    PROVE  Known(Emit(Emit(c, a, <<Alloca>>), b, t), <<a, Len(c[a]) + 1>>)
<1> DEFINE s == <<Alloca>>
           m == Emit(c, a, s)
           p == <<a, Len(c[a]) + 1>>
<1>1. s \in Seq(Instr) /\ Len(s) = 1 /\ s[1] = Alloca
  BY InstrType
<1>2. p \in Ptr /\ p[1] = a /\ p[2] = Len(c[a]) + 1
  BY DEF Ptr
<1> HIDE DEF s, p
<1>0. a \in BB \cup {NoBB}
  OBVIOUS
<1>3. /\ m \in [BB -> Seq(Instr)]
      /\ a \in BB => /\ Len(m[a]) = Len(c[a]) + Len(s)
                     /\ \A k \in 1..Len(s) : m[a][Len(c[a]) + k] = s[k]
  <2>1. EmitsAt(c, a, s, m)
    BY <1>0, <1>1, EmitAt
  <2> QED
    BY <2>1 DEF EmitsAt
<1> HIDE DEF m
<1>4. m[a][Len(c[a]) + 1] = Alloca /\ Len(m[a]) = Len(c[a]) + 1 /\ Len(c[a]) \in Nat
  BY <1>1, <1>3
<1>5. Known(m, p)
  BY <1>2, <1>4 DEF Known, Alloca
<1> DEFINE d == Emit(m, b, t)
<1>6. d \in [BB -> Seq(Instr)] /\ Extends(m, d)
  BY <1>3, EmitAdds
<1> HIDE DEF d
<1>7. Known(d, p)
  BY <1>3, <1>5, <1>6, KnownKept
<1> QED
  BY <1>7 DEF d, m, p, s

\* A parameter and a variable of a definition.
LEMMA ParamDeclares ==
    ASSUME IInv, NEW v \in Vars, AddParam(v)
    PROVE  status = "running" /\ Len(blocks) > 1 /\ Declares(v)
<1>1. status = "running" /\ Top.kind = "params"
  BY DEF AddParam, Running
<1>2. GetCurrentBlock \in BB /\ Len(blocks) > 1 /\ insertBB \in BB
  BY <1>1, TopFacts
<1>3. NextPlace \in Ptr /\ instrs \in [BB -> Seq(Instr)]
  BY <1>2 DEF NextPlace, Ptr, IInv, TypeOK
<1>4. /\ blocks' = AddLocalVar(blocks, NextPlace, v)
      /\ instrs' = Emit(Emit(instrs, GetCurrentBlock, <<Alloca>>), insertBB, <<Access(NextPlace)>>)
  BY DEF AddParam, NextPlace
<1>5. <<Access(NextPlace)>> \in Seq(Instr)
  BY <1>3, InstrType
<1>6. Known(instrs', NextPlace)
  BY <1>2, <1>3, <1>4, <1>5, AllocaAt DEF NextPlace
<1> QED
  BY <1>1, <1>2, <1>4, <1>6 DEF Declares

\* The value of a definition is generated in the scope that binds its name.
Value(scope, init) ==
    IF init = NoExpr THEN <<>> ELSE Append(ExprCode(scope, init), Access(NextPlace))

LEMMA DefineVarFacts ==
    ASSUME IInv, NEW v \in Vars, NEW init \in Exprs \cup {NoExpr}, NEW more \in BOOLEAN,
           DefineVar(v, init, more)
    PROVE  LET scope == AddLocalVar(blocks, NextPlace, v)
           IN  /\ status = "running" /\ blocks' = scope /\ scope \in Seq(Scope)
               /\ ~Throws(scope, init) /\ NextPlace \in Ptr /\ GetCurrentBlock \in BB
               /\ Value(scope, init) \in Seq(Instr)
               /\ instrs' = Emit(Emit(instrs, GetCurrentBlock, <<Alloca>>), insertBB,
                                 Value(scope, init))
               /\ UNCHANGED owner
<1> DEFINE scope == AddLocalVar(blocks, NextPlace, v)
<1>1. status = "running"
  BY DEF DefineVar
<1>2. GetCurrentBlock \in BB /\ blocks \in Seq(Scope)
  BY <1>1, TopFacts
<1>3. NextPlace \in Ptr
  BY <1>2 DEF NextPlace, Ptr, IInv, TypeOK
<1>4. /\ blocks' = scope /\ ~Throws(scope, init) /\ UNCHANGED owner
      /\ instrs' = Emit(Emit(instrs, GetCurrentBlock, <<Alloca>>), insertBB, Value(scope, init))
  BY DEF DefineVar, NextPlace, Value
<1>5. scope \in Seq(Scope)
  BY <1>2, <1>3, AddLocalVarType
<1> HIDE DEF scope
<1>6. Value(scope, init) \in Seq(Instr)
  <2>1. ExprCode(scope, init) \in Seq(Instr)
    BY <1>4, <1>5, ExprCodeType
  <2>2. Append(ExprCode(scope, init), Access(NextPlace)) \in Seq(Instr)
    BY <1>3, <2>1, InstrType, AppendElems
  <2> QED
    BY <2>2 DEF Value
<1> QED
  BY <1>1, <1>2, <1>3, <1>4, <1>5, <1>6 DEF scope

\* A definition outside functions is one of global variables.
LEMMA DefineVarInside ==
    ASSUME IInv, NoGlobals, NEW v \in Vars, NEW init \in Exprs \cup {NoExpr}, NEW more \in BOOLEAN,
           DefineVar(v, init, more)
    PROVE  GlobalVars \/ Len(frames) > 1
<1>1. status = "running"
  BY DEF DefineVar
<1>2. inDef \/ VarDefPosition
  BY DEF DefineVar
<1>3. CASE inDef
  BY <1>3 DEF NoGlobals
<1>4. CASE VarDefPosition
  <2>1. GlobalVars \/ Top.kind # "prog"
    BY <1>4 DEF VarDefPosition, StmtPosition, InStmts, ListKinds
  <2> QED
    BY <1>1, <2>1, TopFacts
<1> QED
  BY <1>2, <1>3, <1>4

LEMMA DefineVarDeclares ==
    ASSUME IInv, NoGlobals, NEW v \in Vars, NEW init \in Exprs \cup {NoExpr}, NEW more \in BOOLEAN,
           DefineVar(v, init, more)
    PROVE  status = "running" /\ (Len(blocks) > 1 \/ GlobalVars) /\ Declares(v)
<1> DEFINE s == Value(AddLocalVar(blocks, NextPlace, v), init)
<1>1. /\ status = "running" /\ blocks' = AddLocalVar(blocks, NextPlace, v)
      /\ GetCurrentBlock \in BB /\ s \in Seq(Instr)
      /\ instrs' = Emit(Emit(instrs, GetCurrentBlock, <<Alloca>>), insertBB, s)
  BY DefineVarFacts
<1> HIDE DEF s
<1>2. instrs \in [BB -> Seq(Instr)] /\ insertBB \in BB \cup {NoBB}
  BY DEF IInv, TypeOK
<1>3. Known(instrs', NextPlace)
  BY <1>1, <1>2, AllocaAt DEF NextPlace
<1>4. GlobalVars \/ Len(blocks) > 1
  BY <1>1, DefineVarInside, TopFacts
<1> QED
  BY <1>1, <1>3, <1>4 DEF Declares

\* The blocks of the handlers that open a scope after the start.
LEMMA OpensOne ==
    ASSUME IInv, \/ BeginProg \/ BeginBlock \/ BeginFor
                 \/ \E f \in FuncNames, void \in BOOLEAN : BeginFunc(f, void)
                 \/ \E e \in Exprs : BeginIf(e)
    PROVE  nbb + 1 \in BB /\ Opens(nbb + 1)
<1>1. nbb \in Nat
  BY MaxBBAssumption DEF IInv, TypeOK
<1>2. nbb + 1 <= MaxBB
  <2>1. nbb < MaxBB \/ nbb + 1 <= MaxBB \/ nbb + 1 + 2 <= MaxBB \/ nbb + 1 + 4 <= MaxBB
    BY DEF BeginProg, BeginFunc, BeginBlock, BeginIf, BeginFor
  <2> QED
    BY <1>1, <2>1, MaxBBAssumption
<1>3. nbb + 1 \in BB
  BY <1>1, <1>2, MaxBBAssumption DEF BB
<1>4. Opens(nbb + 1)
  BY DEF BeginProg, BeginFunc, BeginBlock, BeginIf, BeginFor, Opens
<1> QED
  BY <1>3, <1>4

LEMMA ClosesOne ==
    ASSUME IInv, EndProg \/ EndFunc \/ EndBlock \/ EndThen \/ EndElse
    PROVE  1 <= Len(blocks) /\ Closes(1)
<1>1. status = "running"
  BY DEF EndProg, EndFunc, EndBlock, EndThen, EndElse, Running
<1>2. Len(blocks) = Len(frames) /\ Len(frames) \in 1..Len(frames)
  BY <1>1, TopFacts
<1>3. Closes(1)
  BY DEF EndProg, EndFunc, EndBlock, EndThen, EndElse, Closes, PopBasicBlock
<1> QED
  BY <1>2, <1>3

\* The basic blocks of an if and a for statement that are still to insert.
LEMMA LaterBlocks ==
    ASSUME IInv, status = "running", Top.kind \in {"then", "forinit"}
    PROVE  Top.bb + 1 \in BB /\ Top.bb + 2 \in BB
<1>1. Top \in FrameRec /\ Top.bb + Ahead(Top.kind) <= nbb /\ nbb \in 0..MaxBB
  BY TopFacts DEF IInv, TypeOK
<1>2. Top.bb \in BB /\ Ahead(Top.kind) \in {2, 4}
  BY <1>1 DEF FrameRec, Ahead
<1> QED
  BY <1>1, <1>2, MaxBBAssumption DEF BB

\* A printing function leaves no scope.
LEMMA PrintFuncScopes ==
    ASSUME IInv, NEW f \in FuncNames, CreatePrintFunc(f)
    PROVE  blocks' = blocks /\ blocks = <<>> /\ nbb + 1 \in BB /\ currentFunc = NoFunc
<1>1. /\ blocks \in Seq(Scope) /\ Len(blocks) = 0 /\ nbb + 1 \in BB /\ currentFunc = NoFunc
  <2>1. frames = <<>> /\ Len(frames) = 0
    BY DEF CreatePrintFunc, IInv, HandlersNested
  <2> QED
    BY <2>1, MaxBBAssumption DEF CreatePrintFunc, IInv, TypeOK, StackDiscipline, HandlersNested, BB
<1> DEFINE bl == PushBasicBlock(blocks, nbb + 1)
<1>2. bl \in Seq(Scope) /\ Len(bl) = 1
  BY <1>1, ScopeOfType, Pushed DEF PushBasicBlock
<1>3. blocks' = PopBasicBlock(bl)
  BY DEF CreatePrintFunc
<1> HIDE DEF bl
<1>4. blocks' \in Seq(Scope) /\ Len(blocks') = 0
  BY <1>2, <1>3, Popped DEF PopBasicBlock
<1> QED
  BY <1>1, <1>4, EmptySeq

LEMMA ScopeSteps ==
    ASSUME IInv, NoGlobals, [Next]_vars
    PROVE  ScopeEffect
<1>1. CASE \E f \in FuncNames : CreatePrintFunc(f)
  BY <1>1, PrintFuncScopes DEF ScopeEffect
<1>2. CASE \/ BeginProg \/ BeginBlock \/ BeginFor
           \/ \E f \in FuncNames, void \in BOOLEAN : BeginFunc(f, void)
           \/ \E e \in Exprs : BeginIf(e)
  BY <1>2, OpensOne, Zenon DEF ScopeEffect
<1>3. CASE EndProg \/ EndFunc \/ EndBlock \/ EndThen \/ EndElse
  <2>1. 1 <= Len(blocks) /\ Closes(1)
    BY <1>3, ClosesOne
  <2> QED
    BY <2>1, Zenon DEF ScopeEffect
<1>4. CASE \E v \in Vars : AddParam(v)
  BY <1>4, ParamDeclares DEF ScopeEffect
<1>5. ASSUME NEW v \in Vars, NEW e \in Exprs \cup {NoExpr}, NEW more \in BOOLEAN,
             DefineVar(v, e, more)
      PROVE  ScopeEffect
  BY <1>5, DefineVarDeclares DEF ScopeEffect
<1>6. CASE \/ BeginBody \/ EmptyStmt \/ Abort \/ Ended \/ UNCHANGED vars
           \/ \E e \in Exprs : ExprStmt(e)
           \/ \E e \in Exprs \cup {NoExpr} : Return(e)
  <2>1. blocks' = blocks
    BY <1>6 DEF BeginBody, EmptyStmt, Abort, Ended, ExprStmt, Return, vars
  <2> QED
    BY <2>1 DEF ScopeEffect
<1>7. CASE ThenElse
  <2>1. Running /\ Top.kind = "then" /\ Replaces(Top.bb + 1)
    BY <1>7 DEF ThenElse, Replaces
  <2>2. status = "running" /\ Len(blocks) > 1
    BY <2>1, CloseFacts
  <2>3. Top.bb + 1 \in BB
    BY <2>1, <2>2, LaterBlocks
  <2> QED
    BY <2>1, <2>2, <2>3, Zenon DEF ScopeEffect
<1>8. ASSUME NEW e \in Exprs \cup {NoExpr}, ForCondition(e) PROVE ScopeEffect
  <2>1. status = "running" /\ Top.kind = "forinit" /\ Opens(Top.bb + 2)
    BY <1>8 DEF ForCondition, Opens, Running
  <2>2. Top.bb + 2 \in BB
    BY <2>1, LaterBlocks
  <2> QED
    BY <2>1, <2>2, Zenon DEF ScopeEffect
<1>9. ASSUME NEW e \in Exprs \cup {NoExpr}, EndFor(e) PROVE ScopeEffect
  <2>1. Running /\ Top.kind = "loopbody" /\ blocks' = PopBasicBlock(PopBasicBlock(blocks))
    BY <1>9 DEF EndFor
  <2>2. blocks \in Seq(Scope) /\ Len(blocks) > 2
    BY <2>1, CloseFacts
  <2>3. Closes(2) /\ 2 <= Len(blocks)
    BY <2>1, <2>2, PoppedTwice DEF Closes
  <2> QED
    BY <2>3, Zenon DEF ScopeEffect
<1> QED
  BY <1>1, <1>2, <1>3, <1>4, <1>5, <1>6, <1>7, <1>8, <1>9 DEF Next, Step

----------------------------------------------------------------------------
\* What an instruction accesses stays in reach.

\* A block that belongs to a function goes on to.
KeepsOwners == \A x \in BB : owner[x] # NoFunc => owner'[x] = owner[x]

\* The instructions s are appended to block a, then t to block b.
Writes(a, s, b, t) == instrs' = Emit(Emit(instrs, a, s), b, t)

\* A variable of the function that is generated, or a global one.
Near(p) == /\ Known(instrs', p)
           /\ \/ currentFunc # NoFunc /\ owner'[p[1]] = currentFunc
              \/ GlobalVars /\ owner'[p[1]] = GlobalFunc

Meets(s) == \A i \in Elems(s) : i.op = "access" => Near(i.ptr)

\* A block of the function that is generated.
At(a) == a \in BB /\ currentFunc # NoFunc => owner'[a] = currentFunc

LEMMA KnownOwner ==
    ASSUME IInv, BInv, NEW p, Known(instrs, p)
    PROVE  p[1] \in BB /\ owner[p[1]] # NoFunc
<1>1. p[1] \in BB /\ p[2] \in Nat \ {0} /\ p[2] <= Len(instrs[p[1]])
  BY DEF Known, Ptr
<1>2. instrs[p[1]] # <<>>
  BY <1>1
<1> QED
  BY <1>1, <1>2 DEF BInv, FreshBlocks

\* A variable in reach of a block stays in reach.
LEMMA ReachesKept ==
    ASSUME IInv, IInv', BInv, status # "generated", KeepsOwners, Extends(instrs, instrs'),
           NEW b \in BB, instrs[b] # <<>>, NEW p, Reaches(p, b)
    PROVE  Reaches(p, b)'
<1>1. instrs \in [BB -> Seq(Instr)] /\ instrs' \in [BB -> Seq(Instr)]
  BY DEF IInv, TypeOK
<1>2. Known(instrs, p)
  BY DEF Reaches
<1>3. Known(instrs', p)
  BY <1>1, <1>2, KnownKept
<1>4. p[1] \in BB /\ owner[p[1]] # NoFunc
  BY <1>2, KnownOwner
<1>5. owner[b] # NoFunc
  BY DEF BInv, FreshBlocks
<1> QED
  BY <1>2, <1>3, <1>4, <1>5 DEF Reaches, KeepsOwners

LEMMA NearReaches ==
    ASSUME NEW p, Near(p), NEW a \in BB, At(a)
    PROVE  Reaches(p, a)'
BY DEF Near, At, Reaches

LEMMA AccessesKept ==
    ASSUME IInv, IInv', BInv, Accessed, status # "generated", KeepsOwners,
           NEW a \in BB \cup {NoBB}, NEW s \in Seq(Instr),
           NEW b \in BB \cup {NoBB}, NEW t \in Seq(Instr),
           Writes(a, s, b, t), Meets(s), Meets(t), At(a), At(b)
    PROVE  Accessed' /\ Extends(instrs, instrs')
<1> DEFINE d == instrs'
<1>1. instrs \in [BB -> Seq(Instr)]
  BY DEF IInv, TypeOK
<1>2. d = Emit(Emit(instrs, a, s), b, t)
  BY DEF Writes
<1> HIDE DEF d
<1>3. d \in [BB -> Seq(Instr)] /\ Extends(instrs, d) /\ AddsOnly(instrs, d, a, s, b, t)
  BY <1>1, <1>2, EmitTwiceAdds
<1>7. Extends(instrs, instrs')
  BY <1>3 DEF d
<1> SUFFICES ASSUME NEW x \in BB, NEW i \in Elems(d[x]), i.op = "access"
             PROVE  Reaches(i.ptr, x)'
  BY <1>7 DEF Accessed, d
<1>4. CASE i \in Elems(instrs[x])
  <2>1. Reaches(i.ptr, x) /\ instrs[x] # <<>>
    BY <1>4, NoElem DEF Accessed
  <2> QED
    BY <1>7, <2>1, ReachesKept
<1>5. CASE x = a /\ i \in Elems(s)
  BY <1>5, NearReaches DEF Meets
<1>6. CASE x = b /\ i \in Elems(t)
  BY <1>6, NearReaches DEF Meets
<1> QED
  BY <1>3, <1>4, <1>5, <1>6 DEF AddsOnly

\* What a scope binds is a variable of the function, or a global one.
LEMMA VisibleNear ==
    ASSUME IInv, IInv', BInv, Bound(blocks, instrs), NoGlobals, status = "running",
           KeepsOwners, Extends(instrs, instrs'), NEW p, Visible(blocks, p)
    PROVE  Near(p)
<1>1. PICK i \in 1..Len(blocks), v \in Vars : p = blocks[i].vars[v] /\ p # NoPtr
  BY DEF Visible
<1>2. p[1] = blocks[i].bb /\ Known(instrs, p)
  BY <1>1 DEF Bound
<1>3. instrs \in [BB -> Seq(Instr)] /\ instrs' \in [BB -> Seq(Instr)]
  BY DEF IInv, TypeOK
<1>4. Known(instrs', p) /\ p[1] \in BB
  BY <1>2, <1>3, KnownKept, KnownOwner
<1>5. /\ Len(blocks) = Len(frames) /\ frames # <<>> /\ Len(frames) \in 1..Len(frames)
      /\ Len(frames) > 1 <=> currentFunc # NoFunc
  BY TopFacts DEF IInv, HandlersNested
<1>6. CASE i = 1
  <2>1. p[1] = frames[1].bb
    BY <1>2, <1>5, <1>6 DEF IInv, StackDiscipline
  <2>2. owner[p[1]] = GlobalFunc /\ GlobalFunc # NoFunc
    BY <1>4, <1>5, <2>1, FuncAssumption DEF BInv, GlobalBlock
  <2>3. GlobalVars
    <3>1. blocks # <<>>
      BY <1>5
    <3> QED
      BY <1>1, <1>6, <3>1, ProgramAssumption DEF NoGlobals
  <2> QED
    BY <1>4, <2>2, <2>3 DEF Near, KeepsOwners
<1>7. CASE i # 1
  <2>1. i \in 2..Len(blocks) /\ Len(blocks) > 1
    BY <1>1, <1>7
  <2>2. currentFunc # NoFunc
    BY <1>5, <2>1
  <2>3. owner[p[1]] = currentFunc
    BY <1>2, <2>1, <2>2 DEF IInv, InCurrentFunc
  <2> QED
    BY <1>4, <2>2, <2>3 DEF Near, KeepsOwners
<1> QED
  BY <1>6, <1>7

\* A step that appends code that looks at the variables in scope.
SeesScope ==
    \E a, b \in BB \cup {NoBB} : \E s, t \in Seq(Instr) :
        Writes(a, s, b, t) /\ Looks(blocks, s) /\ Looks(blocks, t) /\ At(a) /\ At(b)

LEMMA ScopeAccesses ==
    ASSUME IInv, IInv', BInv, VInv, status = "running", KeepsOwners, SeesScope
    PROVE  Accessed' /\ Extends(instrs, instrs')
<1>1. PICK a \in BB \cup {NoBB}, b \in BB \cup {NoBB}, s \in Seq(Instr), t \in Seq(Instr) :
          Writes(a, s, b, t) /\ Looks(blocks, s) /\ Looks(blocks, t) /\ At(a) /\ At(b)
  BY DEF SeesScope
<1>2. Extends(instrs, instrs')
  <2>1. instrs \in [BB -> Seq(Instr)]
    BY DEF IInv, TypeOK
  <2> DEFINE d == instrs'
  <2>2. d = Emit(Emit(instrs, a, s), b, t)
    BY <1>1 DEF Writes
  <2> HIDE DEF d
  <2>3. Extends(instrs, d)
    BY <2>1, <2>2, EmitTwiceAdds
  <2> QED
    BY <2>3 DEF d
<1>3. \A p : Visible(blocks, p) => Near(p)
  BY <1>2, VisibleNear DEF VInv
<1>4. Meets(s) /\ Meets(t)
  BY <1>1, <1>3 DEF Looks, Meets
<1> QED
  BY <1>1, <1>4, AccessesKept DEF VInv

\* The owners of blocks: a new block and blocks that have waited get one.
LEMMA OwnersSame ==
    ASSUME UNCHANGED owner
    PROVE  KeepsOwners
BY DEF KeepsOwners

LEMMA OwnersNew ==
    ASSUME IInv, BInv, NEW g, owner' = [owner EXCEPT ![nbb + 1] = g]
    PROVE  KeepsOwners
<1>1. nbb \in Nat
  BY DEF IInv, TypeOK
<1>2. ASSUME NEW x \in BB, owner[x] # NoFunc
      PROVE  x # nbb + 1
  <2>1. ~(x > nbb)
    BY <1>2 DEF BInv, FreshBlocks
  <2> QED
    BY <1>1, <2>1
<1> QED
  BY <1>2 DEF KeepsOwners, IInv, TypeOK

LEMMA OwnersInserted ==
    ASSUME IInv, BInv, currentFunc # NoFunc, NEW i \in 1..Len(frames),
           NEW P, P \subseteq ToInsert(frames[i]), Inserted(P)
    PROVE  KeepsOwners
<1>1. \A u \in P : owner[u] = NoFunc
  BY WaitingEmpty
<1> QED
  BY <1>1 DEF KeepsOwners, Inserted

LEMMA AtPlaces ==
    ASSUME IInv, KeepsOwners
    PROVE  /\ At(insertBB) /\ At(NoBB)
           /\ insertBB \in BB \cup {NoBB} /\ NoBB \in BB \cup {NoBB}
BY DEF At, KeepsOwners, IInv, TypeOK, InCurrentFunc, BB, NoBB

LEMMA WritesOne ==
    ASSUME IInv, KeepsOwners, NEW s \in Seq(Instr), Looks(blocks, s),
           instrs' = Emit(instrs, insertBB, s)
    PROVE  SeesScope
<1>1. Writes(insertBB, s, NoBB, <<>>)
  BY EmitNowhere DEF Writes
<1>2. <<>> \in Seq(Instr) /\ Looks(blocks, <<>>)
  BY SimpleLooks
<1> QED
  BY <1>1, <1>2, AtPlaces, Zenon DEF SeesScope

LEMMA WritesNone ==
    ASSUME IInv, KeepsOwners, instrs' = instrs
    PROVE  SeesScope
<1>1. Writes(NoBB, <<>>, NoBB, <<>>)
  BY EmitNowhere DEF Writes
<1>2. <<>> \in Seq(Instr) /\ Looks(blocks, <<>>)
  BY SimpleLooks
<1> QED
  BY <1>1, <1>2, AtPlaces, Zenon DEF SeesScope

LEMMA OneLooks ==
    ASSUME NEW i \in Instr, i.op # "access", NEW bl
    PROVE  <<i>> \in Seq(Instr) /\ Looks(bl, <<i>>)
BY SimpleLooks

\* A branch, a call and a return access nothing.
LEMMA OtherOps ==
    /\ Call.op # "access" /\ Ret.op # "access"
    /\ \A u : Br(u).op # "access"
    /\ \A u, v : CondBr(u, v).op # "access"
BY DEF Call, Ret, Br, CondBr

\* A step inside a function that inserts no block.
LEMMA PlainAccesses ==
    ASSUME IInv, \/ BeginBody \/ EmptyStmt \/ EndBlock \/ EndFunc
                 \/ \E e \in Exprs : ExprStmt(e)
                 \/ \E e \in Exprs \cup {NoExpr} : Return(e)
    PROVE  status = "running" /\ KeepsOwners /\ SeesScope
<1>1. status = "running" /\ UNCHANGED owner
  BY DEF BeginBody, EmptyStmt, EndBlock, EndFunc, ExprStmt, Return, ReturnPosition, AnyStmt,
         StmtPosition, Running, code
<1>2. KeepsOwners /\ blocks \in Seq(Scope)
  BY <1>1, OwnersSame DEF IInv, TypeOK
<1>3. CASE BeginBody \/ EmptyStmt \/ EndBlock
  BY <1>1, <1>2, <1>3, WritesNone DEF BeginBody, EmptyStmt, EndBlock, code
<1>4. CASE EndFunc
  <2>1. CASE HasTerminator(instrs[insertBB])
    BY <1>1, <1>2, <1>4, <2>1, WritesNone DEF EndFunc, DefaultReturn
  <2>2. CASE ~HasTerminator(instrs[insertBB])
    <3>1. instrs' = Emit(instrs, insertBB, <<Ret>>)
      BY <1>4, <2>2 DEF EndFunc, DefaultReturn
    <3>2. <<Ret>> \in Seq(Instr) /\ Looks(blocks, <<Ret>>)
      BY InstrType, OtherOps, OneLooks
    <3> QED
      BY <1>1, <1>2, <3>1, <3>2, WritesOne
  <2> QED
    BY <2>1, <2>2
<1>5. ASSUME NEW e, ExprStmt(e)
      PROVE  SeesScope
  <2>1. instrs' = Emit(instrs, insertBB, ExprCode(blocks, e)) /\ ~Throws(blocks, e)
    BY <1>5 DEF ExprStmt
  <2>2. ExprCode(blocks, e) \in Seq(Instr) /\ Looks(blocks, ExprCode(blocks, e))
    BY <1>2, <2>1, ExprCodeType, ExprLooks
  <2> QED
    BY <1>2, <2>1, <2>2, WritesOne
<1>6. ASSUME NEW e, Return(e)
      PROVE  SeesScope
  <2> DEFINE s == Append(ExprCode(blocks, e), Ret)
  <2>1. instrs' = Emit(instrs, insertBB, s) /\ ~Throws(blocks, e)
    BY <1>6 DEF Return
  <2>2. s \in Seq(Instr) /\ Looks(blocks, s)
    BY <1>2, <2>1, InstrType, OtherOps, ExprThenLooks
  <2> QED
    BY <1>2, <2>1, <2>2, WritesOne
<1> QED
  BY <1>1, <1>2, <1>3, <1>4, <1>5, <1>6

\* A function and a statement that open a scope.
LEMMA BeginAccesses ==
    ASSUME IInv, BInv, \/ BeginBlock \/ BeginFor \/ \E e \in Exprs : BeginIf(e)
                       \/ \E f \in FuncNames, void \in BOOLEAN : BeginFunc(f, void)
    PROVE  status = "running" /\ KeepsOwners /\ SeesScope
<1> DEFINE b == nbb + 1
<1>1. status = "running"
  BY DEF BeginBlock, BeginFor, BeginIf, BeginFunc, AnyStmt, StmtPosition, Running
<1>2. \E g : owner' = [owner EXCEPT ![b] = g]
  BY DEF BeginBlock, BeginFor, BeginIf, BeginFunc, Place
<1>3. KeepsOwners /\ blocks \in Seq(Scope)
  BY <1>2, OwnersNew DEF IInv, TypeOK
<1>4. CASE \E f \in FuncNames, void \in BOOLEAN : BeginFunc(f, void)
  BY <1>1, <1>3, <1>4, WritesNone DEF BeginFunc
<1>5. CASE BeginBlock \/ BeginFor
  <2>1. b \in BB
    BY <1>5, OpensOne
  <2>2. <<Br(b)>> \in Seq(Instr) /\ Looks(blocks, <<Br(b)>>)
    BY <2>1, InstrType, OtherOps, OneLooks
  <2>3. instrs' = Emit(instrs, insertBB, <<Br(b)>>)
    BY <1>5 DEF BeginBlock, BeginFor
  <2> QED
    BY <1>1, <1>3, <2>2, <2>3, WritesOne
<1>6. ASSUME NEW e \in Exprs, BeginIf(e)
      PROVE  SeesScope
  <2> DEFINE s == Append(ExprCode(blocks, e), CondBr(b, b + 1))
  <2>1. instrs' = Emit(instrs, insertBB, s) /\ ~Throws(blocks, e) /\ b + 2 <= MaxBB
    BY <1>6 DEF BeginIf
  <2>2. b \in BB /\ b + 1 \in BB
    BY <2>1, MaxBBAssumption DEF BB, IInv, TypeOK
  <2>3. CondBr(b, b + 1) \in Instr /\ CondBr(b, b + 1).op # "access"
    BY <2>2, InstrType, OtherOps
  <2>4. s \in Seq(Instr) /\ Looks(blocks, s)
    BY <1>3, <2>1, <2>3, ExprThenLooks
  <2> HIDE DEF s
  <2> QED
    BY <1>3, <2>1, <2>4, WritesOne
<1> QED
  BY <1>1, <1>3, <1>4, <1>5, <1>6

\* From one branch of an if statement to the next, or to its end.
LEMMA IfAccesses ==
    ASSUME IInv, BInv, ThenElse \/ EndThen \/ EndElse
    PROVE  status = "running" /\ KeepsOwners /\ SeesScope
<1> DEFINE b == Top.bb
<1>1. Running /\ Top.kind \in {"then", "else"}
  BY DEF ThenElse, EndThen, EndElse
<1>2. /\ status = "running" /\ currentFunc # NoFunc /\ Len(frames) > 2
      /\ Top = frames[Len(frames)] /\ Len(frames) \in 1..Len(frames)
      /\ b \in BB /\ b + Ahead(Top.kind) <= MaxBB
  BY <1>1, CloseFacts
<1>3. b + 1 \in BB /\ (Top.kind = "then" => b + 2 \in BB)
  BY <1>1, <1>2, MaxBBAssumption DEF Ahead, BB
<1>4. ToInsert(Top) = IF Top.kind = "then" THEN {b + 1, b + 2} ELSE {b + 1}
  BY <1>1 DEF ToInsert
<1>5. owner \in Owners
  BY DEF IInv, TypeOK, Owners
<1>6. KeepsOwners
  <2>1. CASE ThenElse \/ EndElse
    <3>1. Inserted({b + 1})
      BY <1>3, <1>5, <2>1 DEF ThenElse, EndElse, Place, Inserted, Owners
    <3>2. {b + 1} \subseteq ToInsert(frames[Len(frames)])
      BY <1>2, <1>4
    <3> QED
      BY <1>2, <3>1, <3>2, OwnersInserted
  <2>2. CASE EndThen
    <3>1. Inserted({b + 1, b + 2})
      BY <1>3, <1>5, <2>2 DEF EndThen, Inserted, Owners
    <3>2. {b + 1, b + 2} \subseteq ToInsert(frames[Len(frames)])
      BY <1>2, <1>4, <2>2 DEF EndThen
    <3> QED
      BY <1>2, <3>1, <3>2, OwnersInserted
  <2> QED
    BY <2>1, <2>2
<1>7. CASE ThenElse \/ EndElse
  <2>1. PICK u \in BB : instrs' = Emit(instrs, insertBB, <<Br(u)>>)
    BY <1>3, <1>7 DEF ThenElse, EndElse
  <2>2. <<Br(u)>> \in Seq(Instr) /\ Looks(blocks, <<Br(u)>>)
    BY InstrType, OtherOps, OneLooks
  <2> QED
    BY <1>2, <1>6, <2>1, <2>2, WritesOne
<1>8. CASE EndThen
  <2> DEFINE s == <<Br(b + 2)>>
  <2>1. Writes(insertBB, s, b + 1, s)
    BY <1>8 DEF EndThen, Writes
  <2>2. s \in Seq(Instr) /\ Looks(blocks, s)
    BY <1>3, <1>8, InstrType, OtherOps, OneLooks DEF EndThen
  <2>3. At(b + 1) /\ b + 1 \in BB \cup {NoBB}
    BY <1>3, <1>5, <1>8 DEF EndThen, At, Owners
  <2> HIDE DEF s, b
  <2>4. SeesScope
    BY <1>6, <2>1, <2>2, <2>3, AtPlaces, Zenon DEF SeesScope
  <2> QED
    BY <1>2, <1>6, <2>4
<1> QED
  BY <1>7, <1>8

\* The condition of a for statement.
LEMMA ForConditionAccesses ==
    ASSUME IInv, BInv, NEW c \in Exprs \cup {NoExpr}, ForCondition(c)
    PROVE  status = "running" /\ KeepsOwners /\ SeesScope
<1> DEFINE b == Top.bb
           exit == IF c = NoExpr THEN Br(b + 2) ELSE CondBr(b + 2, b + 4)
           s == <<Br(b + 1)>>
           t == Append(ExprCode(blocks, c), exit)
<1>1. status = "running" /\ Top.kind = "forinit" /\ ~Throws(blocks, c)
  BY DEF ForCondition, Running
<1>2. /\ currentFunc # NoFunc /\ blocks \in Seq(Scope) /\ Len(frames) \in 1..Len(frames)
      /\ Top = frames[Len(frames)] /\ Top \in FrameRec /\ b + Ahead(Top.kind) <= nbb
      /\ nbb \in 0..MaxBB
  BY <1>1, TopFacts DEF IInv, TypeOK
<1>3. b + 1 \in BB /\ b + 2 \in BB /\ b + 4 \in BB
  <2>1. b \in BB /\ b + 4 <= nbb
    BY <1>1, <1>2 DEF FrameRec, Ahead
  <2> QED
    BY <1>2, <2>1, MaxBBAssumption DEF BB
<1>4. owner' = [owner EXCEPT ![b + 1] = currentFunc, ![b + 2] = currentFunc]
      /\ Writes(insertBB, s, b + 1, t)
  BY DEF ForCondition, Writes
<1>5. Inserted({b + 1, b + 2}) /\ At(b + 1)
  <2>1. owner \in Owners
    BY DEF IInv, TypeOK, Owners
  <2> QED
    BY <1>3, <1>4, <2>1 DEF Inserted, At, Owners
<1>6. {b + 1, b + 2} \subseteq ToInsert(frames[Len(frames)])
  BY <1>1, <1>2 DEF ToInsert
<1>7. KeepsOwners
  BY <1>2, <1>5, <1>6, OwnersInserted
<1>8. s \in Seq(Instr) /\ Looks(blocks, s)
  BY <1>3, InstrType, OtherOps, OneLooks
<1>9. t \in Seq(Instr) /\ Looks(blocks, t)
  <2>1. exit \in Instr /\ exit.op # "access"
    BY <1>3, InstrType, OtherOps
  <2> HIDE DEF exit
  <2> QED
    BY <1>1, <1>2, <2>1, ExprThenLooks
<1>10. b + 1 \in BB \cup {NoBB}
  BY <1>3
<1> HIDE DEF s, t, b
<1>11. SeesScope
  BY <1>4, <1>5, <1>7, <1>8, <1>9, <1>10, AtPlaces, Zenon DEF SeesScope
<1> QED
  BY <1>1, <1>7, <1>11

\* What a scope below the top binds is in scope.
LEMMA PopLooks ==
    ASSUME NEW bl \in Seq(Scope), Len(bl) > 1, NEW s, Looks(PopBasicBlock(bl), s)
    PROVE  Looks(bl, s)
<1> DEFINE cl == PopBasicBlock(bl)
<1>1. Len(bl) \in Nat /\ 1 \in 1..Len(bl)
  OBVIOUS
<1>2. Len(cl) = Len(bl) - 1 /\ \A i \in 1..Len(cl) : cl[i] = bl[i]
  BY <1>1, Popped DEF PopBasicBlock
<1> HIDE DEF cl
<1>3. \A i \in 1..Len(cl) : i \in 1..Len(bl) /\ cl[i] = bl[i]
  BY <1>1, <1>2
<1>4. \A p : Visible(cl, p) => Visible(bl, p)
  BY <1>3 DEF Visible
<1> QED
  BY <1>4 DEF Looks, cl

\* The increment sees the scopes around that of the loop body.
LEMMA EndForAccesses ==
    ASSUME IInv, BInv, NEW c \in Exprs \cup {NoExpr}, EndFor(c)
    PROVE  status = "running" /\ KeepsOwners /\ SeesScope
<1> DEFINE n == Len(frames)
           b == frames[n - 1].bb
           loop == PopBasicBlock(blocks)
           s == <<Br(b + 3)>>
           t == Append(ExprCode(loop, c), Br(b + 1))
<1>1. Running /\ Top.kind = "loopbody" /\ ~Throws(loop, c)
  BY DEF EndFor
<1>2. /\ frames \in Seq(FrameRec) /\ n \in Nat /\ n > 3 /\ frames[n - 1].kind = "for"
      /\ blocks \in Seq(Scope) /\ Len(blocks) = n /\ status = "running" /\ currentFunc # NoFunc
  BY <1>1, CloseFacts
<1>3. n - 1 \in 1..n
  BY <1>2
<1>4. b + 1 \in BB /\ b + 3 \in BB /\ b + 4 \in BB
  <2>1. b \in BB
    <3>1. frames[n - 1] \in FrameRec
      BY <1>2, <1>3, ElementOfSeq
    <3> QED
      BY <3>1 DEF FrameRec
  <2>2. b + Ahead(frames[n - 1].kind) <= nbb /\ nbb \in 0..MaxBB
    BY <1>3 DEF IInv, HandlersNested, WellNested, TypeOK
  <2>3. b + 4 <= nbb /\ nbb \in 0..MaxBB
    BY <1>2, <2>2 DEF Ahead
  <2> HIDE DEF b
  <2> QED
    BY <2>1, <2>3, MaxBBAssumption DEF BB
<1>5. /\ owner' = [owner EXCEPT ![b + 3] = currentFunc, ![b + 4] = currentFunc]
      /\ Writes(insertBB, s, b + 3, t)
  BY DEF EndFor, Writes
<1>6. Inserted({b + 3, b + 4}) /\ At(b + 3)
  <2>1. owner \in Owners
    BY DEF IInv, TypeOK, Owners
  <2> HIDE DEF b
  <2> QED
    BY <1>4, <1>5, <2>1 DEF Inserted, At, Owners
<1>7. {b + 3, b + 4} \subseteq ToInsert(frames[n - 1])
  BY <1>2 DEF ToInsert
<1>8. KeepsOwners
  BY <1>2, <1>3, <1>6, <1>7, OwnersInserted
<1>9. loop \in Seq(Scope)
  <2>1. 1 \in 1..Len(blocks)
    BY <1>2
  <2> QED
    BY <1>2, <2>1, Popped DEF PopBasicBlock
<1> HIDE DEF b
<1>10. s \in Seq(Instr) /\ Looks(blocks, s)
  BY <1>4, InstrType, OtherOps, OneLooks
<1>11. t \in Seq(Instr) /\ Looks(loop, t)
  BY <1>1, <1>4, <1>9, InstrType, OtherOps, ExprThenLooks
<1> HIDE DEF s, t
<1>12. Looks(blocks, t)
  BY <1>2, <1>11, PopLooks
<1>13. b + 3 \in BB \cup {NoBB}
  BY <1>4
<1>14. SeesScope
  BY <1>5, <1>6, <1>8, <1>10, <1>11, <1>12, <1>13, AtPlaces, Zenon DEF SeesScope
<1> QED
  BY <1>2, <1>8, <1>14

\* The variable that is declared is one of the function, or a global one.
LEMMA NextPlaceNear ==
    ASSUME IInv, BInv, status = "running", Len(blocks) > 1 \/ GlobalVars, UNCHANGED owner,
           Known(instrs', NextPlace)
    PROVE  Near(NextPlace) /\ At(GetCurrentBlock) /\ GetCurrentBlock \in BB
<1>1. /\ GetCurrentBlock \in BB /\ Len(blocks) = Len(frames) /\ frames # <<>>
      /\ Len(frames) \in 1..Len(frames)
      /\ Len(frames) > 1 <=> currentFunc # NoFunc
  BY TopFacts DEF IInv, HandlersNested
<1>2. NextPlace[1] = GetCurrentBlock
  BY DEF NextPlace
<1>3. CASE currentFunc # NoFunc
  <2>1. Len(blocks) \in 2..Len(blocks)
    BY <1>1, <1>3
  <2>2. owner[GetCurrentBlock] = currentFunc
    BY <1>3, <2>1 DEF GetCurrentBlock, IInv, InCurrentFunc
  <2> QED
    BY <1>1, <1>2, <1>3, <2>2 DEF Near, At
<1>4. CASE currentFunc = NoFunc
  <2>1. Len(frames) = 1 /\ Len(blocks) = 1
    BY <1>1, <1>4
  <2>2. GetCurrentBlock = frames[1].bb
    BY <2>1 DEF GetCurrentBlock, IInv, StackDiscipline
  <2>3. owner[GetCurrentBlock] = GlobalFunc /\ GlobalVars
    BY <1>1, <2>1, <2>2 DEF BInv, GlobalBlock
  <2> QED
    BY <1>1, <1>2, <1>4, <2>3 DEF Near, At
<1> QED
  BY <1>3, <1>4

\* What is in scope after a declaration.
LEMMA AddedVisible ==
    ASSUME NEW bl \in Seq(Scope), bl # <<>>, NEW p \in Ptr, NEW v \in Vars,
           NEW q, Visible(AddLocalVar(bl, p, v), q)
    PROVE  Visible(bl, q) \/ q = p
<1> DEFINE cl == AddLocalVar(bl, p, v)
           n  == Len(bl)
<1>1. Binds(bl, cl, p, v)
  BY AddLocalVarAt
<1>2. PICK i \in 1..Len(cl), w \in Vars : q = cl[i].vars[w] /\ q # NoPtr
  BY DEF Visible
<1> HIDE DEF cl
<1>3. bl[n] \in Scope /\ n \in 1..n /\ i \in 1..n
  BY <1>1, ElementOfSeq DEF Binds
<1>4. CASE i # n
  <2>1. i \in 1..(n - 1)
    BY <1>3, <1>4
  <2> QED
    BY <1>1, <1>2, <1>3, <2>1 DEF Binds, Visible
<1>5. CASE i = n /\ IsVarInLocal(bl, v)
  BY <1>1, <1>2, <1>3, <1>5 DEF Binds, Visible
<1>6. CASE i = n /\ ~IsVarInLocal(bl, v)
  <2>1. cl[n].vars[w] = IF w = v THEN p ELSE bl[n].vars[w]
    BY <1>1, <1>3, <1>6 DEF Binds, Scope
  <2> QED
    BY <1>2, <1>3, <1>6, <2>1 DEF Visible
<1> QED
  BY <1>4, <1>5, <1>6

LEMMA AllocaMeets == <<Alloca>> \in Seq(Instr) /\ Meets(<<Alloca>>)
<1>1. Alloca \in Instr /\ Alloca.op # "access"
  BY InstrType DEF Alloca
<1> QED
  BY <1>1, OneElem DEF Meets

LEMMA ParamAccesses ==
    ASSUME IInv, IInv', BInv, VInv, NEW v \in Vars, AddParam(v)
    PROVE  Accessed' /\ Extends(instrs, instrs')
<1> DEFINE p == NextPlace
<1>1. status = "running" /\ Len(blocks) > 1 /\ Known(instrs', p)
  BY ParamDeclares DEF Declares
<1>2. UNCHANGED owner
  BY DEF AddParam
<1>3. KeepsOwners
  BY <1>2, OwnersSame
<1>4. Near(p) /\ At(GetCurrentBlock) /\ GetCurrentBlock \in BB
  BY <1>1, <1>2, NextPlaceNear
<1>5. Writes(GetCurrentBlock, <<Alloca>>, insertBB, <<Access(p)>>)
  BY DEF AddParam, NextPlace, Writes
<1>6. p \in Ptr
  BY <1>1 DEF Known
<1> HIDE DEF p
<1>7. <<Access(p)>> \in Seq(Instr) /\ Access(p).ptr = p
  BY <1>6, InstrType DEF Access
<1>8. Meets(<<Access(p)>>)
  BY <1>4, <1>7, OneElem DEF Meets
<1> QED
  BY <1>1, <1>3, <1>4, <1>5, <1>7, <1>8, AllocaMeets, AtPlaces, AccessesKept DEF VInv

LEMMA DefineVarAccesses ==
    ASSUME IInv, IInv', BInv, VInv,
           NEW v \in Vars, NEW init \in Exprs \cup {NoExpr}, NEW more \in BOOLEAN,
           DefineVar(v, init, more)
    PROVE  Accessed' /\ Extends(instrs, instrs')
<1> DEFINE p == NextPlace
           scope == AddLocalVar(blocks, p, v)
           t == Value(scope, init)
<1>1. /\ status = "running" /\ scope \in Seq(Scope) /\ ~Throws(scope, init) /\ p \in Ptr
      /\ t \in Seq(Instr) /\ UNCHANGED owner /\ blocks \in Seq(Scope)
      /\ instrs' = Emit(Emit(instrs, GetCurrentBlock, <<Alloca>>), insertBB, t)
  BY DefineVarFacts DEF IInv, TypeOK
<1>2. (Len(blocks) > 1 \/ GlobalVars) /\ Known(instrs', p)
  BY DefineVarDeclares DEF VInv, Declares
<1>3. KeepsOwners
  BY <1>1, OwnersSame
<1>4. Near(p) /\ At(GetCurrentBlock) /\ GetCurrentBlock \in BB
  BY <1>1, <1>2, NextPlaceNear
<1>5. Writes(GetCurrentBlock, <<Alloca>>, insertBB, t)
  BY <1>1 DEF Writes
<1>6. Extends(instrs, instrs')
  <2> DEFINE d == instrs'
             s == <<Alloca>>
  <2>1. s \in Seq(Instr) /\ GetCurrentBlock \in BB \cup {NoBB} /\ insertBB \in BB \cup {NoBB}
        /\ instrs \in [BB -> Seq(Instr)]
    BY <1>4, AllocaMeets DEF IInv, TypeOK
  <2>2. d = Emit(Emit(instrs, GetCurrentBlock, s), insertBB, t)
    BY <1>1
  <2> HIDE DEF d, s, t
  <2>3. Extends(instrs, d)
    BY <1>1, <2>1, <2>2, EmitTwiceAdds
  <2> QED
    BY <2>3 DEF d
<1>7. \A q : Visible(blocks, q) => Near(q)
  BY <1>1, <1>3, <1>6, VisibleNear DEF VInv
<1>8. \A q : Visible(scope, q) => Near(q)
  <2>1. blocks # <<>>
    <3>1. Len(blocks) > 0
      BY <1>1, TopFacts
    <3> QED
      BY <3>1, NotEmpty
  <2> QED
    BY <1>1, <1>4, <1>7, <2>1, AddedVisible
<1> HIDE DEF p, scope
<1>9. Meets(t)
  <2>1. CASE init = NoExpr
    BY <2>1, NoElem DEF Value, Meets
  <2>2. CASE init # NoExpr
    <3> DEFINE s == ExprCode(scope, init)
    <3>1. s \in Seq(Instr) /\ Looks(scope, s)
      BY <1>1, ExprCodeType, ExprLooks
    <3>2. Access(p) \in Instr /\ Access(p).ptr = p
      BY <1>1, InstrType DEF Access
    <3>3. t = Append(s, Access(p))
      BY <2>2 DEF Value, p
    <3> HIDE DEF s, t
    <3>4. Elems(t) = Elems(s) \cup {Access(p)}
      BY <3>1, <3>2, <3>3, AppendElems
    <3> QED
      BY <1>4, <1>8, <3>1, <3>2, <3>4 DEF Looks, Meets
  <2> QED
    BY <2>1, <2>2
<1> HIDE DEF t
<1> QED
  BY <1>1, <1>3, <1>4, <1>5, <1>9, AllocaMeets, AtPlaces, AccessesKept DEF VInv

\* A printing function accesses no variable, the start of the program does nothing.
LEMMA StartAccesses ==
    ASSUME IInv, IInv', BInv, VInv, BeginProg \/ \E f \in FuncNames : CreatePrintFunc(f)
    PROVE  Accessed' /\ Extends(instrs, instrs')
<1> DEFINE b == nbb + 1
<1>1. status # "generated" /\ b \in BB /\ currentFunc = NoFunc
  <2>1. CASE BeginProg
    BY <2>1, OpensOne DEF BeginProg, IInv, HandlersNested
  <2>2. CASE \E f \in FuncNames : CreatePrintFunc(f)
    BY <2>2, PrintFuncScopes DEF CreatePrintFunc
  <2> QED
    BY <2>1, <2>2
<1>2. \E g : owner' = [owner EXCEPT ![b] = g]
  BY DEF BeginProg, CreatePrintFunc
<1>3. KeepsOwners
  BY <1>2, OwnersNew
<1>4. <<>> \in Seq(Instr) /\ Meets(<<>>)
  BY NoElem DEF Meets
<1>5. At(b) /\ At(NoBB) /\ b \in BB \cup {NoBB} /\ NoBB \in BB \cup {NoBB}
  BY <1>1 DEF At
<1>6. PICK s \in Seq(Instr), a \in {b, NoBB} : Meets(s) /\ Writes(a, s, NoBB, <<>>)
  <2>1. CASE BeginProg
    BY <1>4, <2>1, EmitNowhere DEF BeginProg, Writes
  <2>2. CASE \E f \in FuncNames : CreatePrintFunc(f)
    <3> DEFINE s == <<Call, Ret>>
    <3>1. s \in Seq(Instr)
      BY InstrType
    <3>2. Elems(s) = {Call, Ret}
      BY DEF Elems
    <3>3. Meets(s)
      BY <3>2, OtherOps DEF Meets
    <3>4. Writes(b, s, NoBB, <<>>)
      BY <2>2, EmitNowhere DEF CreatePrintFunc, Writes
    <3> QED
      BY <3>1, <3>3, <3>4
  <2> QED
    BY <2>1, <2>2
<1> HIDE DEF b
<1> QED
  BY <1>1, <1>3, <1>4, <1>5, <1>6, AccessesKept DEF VInv

\* The end of the program removes the global variables.
LEMMA EndProgAccesses ==
    ASSUME IInv, BInv, VInv, EndProg
    PROVE  Accessed'
<1> DEFINE g == Top.bb
<1>1. status = "running" /\ Top.kind = "prog" /\ status' = "generated"
  BY DEF EndProg, Running
<1>2. frames # <<>> /\ Top = frames[1] /\ g \in BB
  BY <1>1, TopFacts DEF FrameRec
<1>3. /\ \A x \in BB : owner'[x] = IF x = g THEN NoFunc ELSE owner[x]
      /\ \A x \in BB : instrs'[x] = IF x = g THEN <<>> ELSE instrs[x]
  BY <1>2 DEF EndProg, IInv, TypeOK
<1>4. \A x \in BB : owner[x] = GlobalFunc <=> x = g
  BY <1>2 DEF BInv, GlobalBlock
<1> SUFFICES ASSUME NEW x \in BB, NEW i \in Elems(instrs'[x]), i.op = "access"
             PROVE  Reaches(i.ptr, x)'
  BY DEF Accessed
<1> DEFINE p == i.ptr
<1>5. x # g /\ i \in Elems(instrs[x])
  BY <1>3, NoElem
<1>6. Reaches(p, x)
  BY <1>5 DEF VInv, Accessed
<1> HIDE DEF p
<1>7. CASE Known(instrs, p) /\ owner[p[1]] = owner[x]
  <2>1. p[1] \in BB /\ p[1] # g
    BY <1>4, <1>5, <1>7, KnownOwner
  <2>2. Known(instrs', p) /\ owner'[p[1]] = owner'[x]
    BY <1>3, <1>5, <1>7, <2>1 DEF Known
  <2> QED
    BY <2>2 DEF Reaches, p
<1>8. CASE GlobalVars /\ Known(instrs, p) /\ owner[p[1]] = GlobalFunc
  <2>1. p[1] = g /\ p \in Ptr
    BY <1>4, <1>8, KnownOwner DEF Known
  <2>2. owner'[p[1]] = NoFunc
    BY <1>2, <1>3, <2>1
  <2> QED
    BY <1>1, <1>8, <2>1, <2>2 DEF Reaches, p
<1> QED
  BY <1>1, <1>6, <1>7, <1>8 DEF Reaches

\* Every step but the end of the program.
LEMMA StepAccesses ==
    ASSUME IInv, IInv', BInv, VInv, [Next]_vars, ~EndProg
    PROVE  Accessed' /\ Extends(instrs, instrs')
<1>1. CASE BeginProg \/ \E f \in FuncNames : CreatePrintFunc(f)
  BY <1>1, StartAccesses
<1>2. ASSUME NEW v \in Vars, AddParam(v) PROVE Accessed' /\ Extends(instrs, instrs')
  BY <1>2, ParamAccesses
<1>3. ASSUME NEW v \in Vars, NEW e \in Exprs \cup {NoExpr}, NEW more \in BOOLEAN,
             DefineVar(v, e, more)
      PROVE  Accessed' /\ Extends(instrs, instrs')
  BY <1>3, DefineVarAccesses
<1>4. CASE \/ BeginBody \/ EmptyStmt \/ EndBlock \/ EndFunc
           \/ \E e \in Exprs : ExprStmt(e)
           \/ \E e \in Exprs \cup {NoExpr} : Return(e)
  BY <1>4, PlainAccesses, ScopeAccesses
<1>5. CASE \/ BeginBlock \/ BeginFor \/ \E e \in Exprs : BeginIf(e)
           \/ \E f \in FuncNames, void \in BOOLEAN : BeginFunc(f, void)
  BY <1>5, BeginAccesses, ScopeAccesses
<1>6. CASE ThenElse \/ EndThen \/ EndElse
  BY <1>6, IfAccesses, ScopeAccesses
<1>7. ASSUME NEW e \in Exprs \cup {NoExpr}, ForCondition(e)
      PROVE  Accessed' /\ Extends(instrs, instrs')
  BY <1>7, ForConditionAccesses, ScopeAccesses
<1>8. ASSUME NEW e \in Exprs \cup {NoExpr}, EndFor(e)
      PROVE  Accessed' /\ Extends(instrs, instrs')
  BY <1>8, EndForAccesses, ScopeAccesses
<1>9. CASE Abort \/ Ended \/ UNCHANGED vars
  <2>1. /\ UNCHANGED <<instrs, owner>>
        /\ status' = status \/ (status = "running" /\ status' = "aborted")
    BY <1>9 DEF Abort, Ended, vars, code
  <2>2. Extends(instrs, instrs)
    BY DEF Extends, IInv, TypeOK
  <2>3. Accessed'
    BY <2>1 DEF VInv, Accessed, Reaches, Known
  <2> QED
    BY <2>1, <2>2, <2>3
<1> QED
  BY <1>1, <1>2, <1>3, <1>4, <1>5, <1>6, <1>7, <1>8, <1>9 DEF Next, Step

\* Every name that a scope binds stays an alloca of the scope's basic block.
LEMMA BoundStep ==
    ASSUME IInv, IInv', VInv, ScopeEffect, Extends(instrs, instrs')
    PROVE  Bound(blocks, instrs)'
<1>1. instrs \in [BB -> Seq(Instr)] /\ instrs' \in [BB -> Seq(Instr)] /\ blocks \in Seq(Scope)
  BY DEF IInv, TypeOK
<1>2. Bound(blocks, instrs')
  BY <1>1, BoundKept DEF VInv
<1>3. CASE blocks' = blocks
  BY <1>2, <1>3
<1>4. ASSUME NEW b \in BB, Opens(b) PROVE Bound(blocks', instrs')
  BY <1>1, <1>2, <1>4, BoundPushed DEF Opens
<1>5. ASSUME NEW k \in {1, 2}, k <= Len(blocks), Closes(k) PROVE Bound(blocks', instrs')
  <2>1. k \in 1..Len(blocks)
    BY <1>1, <1>5
  <2> QED
    BY <1>1, <1>2, <1>5, <2>1, BoundPopped DEF Closes
<1>6. ASSUME Len(blocks) > 1, NEW b \in BB, Replaces(b) PROVE Bound(blocks', instrs')
  <2>1. 1 \in 1..Len(blocks)
    BY <1>1, <1>6
  <2>2. PopBasicBlock(blocks) \in Seq(Scope) /\ Bound(PopBasicBlock(blocks), instrs')
    BY <1>1, <1>2, <2>1, BoundPopped, Popped DEF PopBasicBlock
  <2> QED
    BY <1>6, <2>2, BoundPushed DEF Replaces
<1>7. ASSUME status = "running", NEW v \in Vars, Declares(v) PROVE Bound(blocks', instrs')
  <2>1. blocks # <<>>
    <3>1. Len(blocks) > 0
      BY <1>7, TopFacts
    <3> QED
      BY <3>1, NotEmpty
  <2>2. NextPlace[1] = blocks[Len(blocks)].bb
    BY DEF NextPlace, GetCurrentBlock
  <2> QED
    BY <1>1, <1>2, <1>7, <2>1, <2>2, BoundAdded DEF Declares
<1> QED
  BY <1>3, <1>4, <1>5, <1>6, <1>7 DEF ScopeEffect

\* Without global variables the outermost scope stays empty.
LEMMA NoGlobalsStep ==
    ASSUME IInv, IInv', NoGlobals, [Next]_vars, ScopeEffect
    PROVE  NoGlobals'
<1> SUFFICES ASSUME ~GlobalVars
             PROVE  /\ \A v \in Vars : blocks' # <<>> => blocks'[1].vars[v] = NoPtr
                    /\ inDef' => Len(frames') > 1
  BY DEF NoGlobals
<1>1. /\ blocks \in Seq(Scope) /\ Len(blocks) \in Nat /\ blocks' \in Seq(Scope)
      /\ \A v \in Vars : blocks # <<>> => blocks[1].vars[v] = NoPtr
      /\ inDef => Len(frames) > 1
  BY DEF IInv, TypeOK, NoGlobals
<1>2. ASSUME NEW v \in Vars, blocks' # <<>>
      PROVE  blocks'[1].vars[v] = NoPtr
  <2>1. CASE blocks' = blocks
    BY <1>1, <1>2, <2>1
  <2>2. ASSUME NEW bl \in Seq(Scope), NEW b \in BB, blocks' = PushBasicBlock(bl, b),
               bl # <<>> => bl[1].vars[v] = NoPtr
        PROVE  blocks'[1].vars[v] = NoPtr
    <3> DEFINE cl == PushBasicBlock(bl, b)
    <3>1. Len(cl) = Len(bl) + 1 /\ cl[Len(cl)] = ScopeOf(b) /\ \A i \in 1..Len(bl) : cl[i] = bl[i]
      BY ScopeOfType, Pushed DEF PushBasicBlock
    <3> HIDE DEF cl
    <3>2. ScopeOf(b).vars[v] = NoPtr
      BY DEF ScopeOf
    <3>3. CASE bl = <<>>
      <4>1. Len(bl) = 0
        BY <3>3
      <4>2. cl[1] = ScopeOf(b)
        BY <3>1, <4>1
      <4> QED
        BY <2>2, <3>2, <4>2 DEF cl
    <3>4. CASE bl # <<>>
      <4>1. 1 \in 1..Len(bl)
        BY <3>4, EmptySeq
      <4> QED
        BY <2>2, <3>1, <3>4, <4>1 DEF cl
    <3> QED
      BY <3>3, <3>4
  <2>3. ASSUME NEW b \in BB, Opens(b)
        PROVE  blocks'[1].vars[v] = NoPtr
    BY <1>1, <2>2, <2>3 DEF Opens
  <2>4. ASSUME NEW k \in 1..Len(blocks), NEW cl, cl = SubSeq(blocks, 1, Len(blocks) - k),
               cl # <<>>
        PROVE  cl[1].vars[v] = NoPtr
    <3>1. cl \in Seq(Scope) /\ \A i \in 1..Len(cl) : cl[i] = blocks[i]
      BY <1>1, <2>4, Popped
    <3>2. 1 \in 1..Len(cl)
      BY <2>4, <3>1, EmptySeq
    <3>3. blocks # <<>>
      BY <2>4
    <3> QED
      BY <1>1, <3>1, <3>2, <3>3
  <2>5. ASSUME NEW k \in {1, 2}, k <= Len(blocks), Closes(k)
        PROVE  blocks'[1].vars[v] = NoPtr
    <3>1. k \in 1..Len(blocks)
      BY <1>1, <2>5
    <3> QED
      BY <1>2, <2>4, <2>5, <3>1 DEF Closes
  <2>6. ASSUME Len(blocks) > 1, NEW b \in BB, Replaces(b)
        PROVE  blocks'[1].vars[v] = NoPtr
    <3> DEFINE cl == PopBasicBlock(blocks)
    <3>1. 1 \in 1..Len(blocks)
      BY <1>1, <2>6
    <3>2. cl \in Seq(Scope) /\ (cl # <<>> => cl[1].vars[v] = NoPtr)
      BY <1>1, <2>4, <3>1, Popped DEF PopBasicBlock
    <3>3. blocks' = PushBasicBlock(cl, b)
      BY <2>6 DEF Replaces
    <3> HIDE DEF cl
    <3> QED
      BY <2>2, <3>2, <3>3
  <2>7. ASSUME Len(blocks) > 1, NEW w \in Vars, Declares(w)
        PROVE  blocks'[1].vars[v] = NoPtr
    <3> DEFINE cl == AddLocalVar(blocks, NextPlace, w)
    <3>1. blocks # <<>> /\ NextPlace \in Ptr /\ blocks' = cl
      BY <1>1, <2>7, NotEmpty DEF Declares, Known
    <3>2. Binds(blocks, cl, NextPlace, w)
      BY <1>1, <3>1, AddLocalVarAt
    <3> HIDE DEF cl
    <3>3. 1 \in 1..(Len(blocks) - 1)
      BY <1>1, <2>7
    <3> QED
      BY <1>1, <1>2, <3>1, <3>2, <3>3 DEF Binds
  <2> QED
    BY <2>1, <2>3, <2>5, <2>6, <2>7 DEF ScopeEffect
<1>3. ASSUME inDef'
      PROVE  Len(frames') > 1
  <2>1. CASE UNCHANGED <<inDef, frames>>
    BY <1>1, <1>3, <2>1
  <2>2. ASSUME NEW v \in Vars, NEW e \in Exprs \cup {NoExpr}, NEW more \in BOOLEAN,
               DefineVar(v, e, more)
        PROVE  Len(frames') > 1
    <3>1. Len(frames) > 1
      BY <2>2, DefineVarInside
    <3>2. status = "running" /\ frames' = IF inDef THEN frames ELSE Took(FALSE)
      BY <2>2 DEF DefineVar
    <3>3. Len(Took(FALSE)) = Len(frames)
      BY <3>2, TopFacts, TookType
    <3> QED
      BY <3>1, <3>2, <3>3
  <2>3. CASE Abort \/ Ended \/ UNCHANGED vars
    BY <2>1, <2>3 DEF Abort, Ended, vars
  <2>4. CASE UNCHANGED inDef /\ Running
    BY <1>3, <2>4 DEF Running
  <2>5. CASE status = "io" /\ UNCHANGED inDef
    <3>1. ~inDef
      BY <1>1, <2>5 DEF IInv, HandlersNested
    <3> QED
      BY <1>3, <2>5, <3>1
  <2>6. \/ Abort \/ Ended \/ UNCHANGED vars
        \/ UNCHANGED inDef /\ Running
        \/ status = "io" /\ UNCHANGED inDef
        \/ \E v \in Vars, e \in Exprs \cup {NoExpr}, more \in BOOLEAN : DefineVar(v, e, more)
    BY DEF Next, Step, CreatePrintFunc, BeginProg, EndProg, BeginFunc, AddParam, BeginBody, EndFunc,
           EmptyStmt, ExprStmt, BeginBlock, EndBlock, BeginIf, ThenElse, EndThen, EndElse, BeginFor,
           ForCondition, EndFor, Return, ReturnPosition, AnyStmt, StmtPosition
  <2> QED
    BY <2>2, <2>3, <2>4, <2>5, <2>6
<1> QED
  BY <1>2, <1>3

LEMMA NextVInv == IInv /\ BInv /\ VInv /\ [Next]_vars => VInv'
<1> SUFFICES ASSUME IInv, BInv, VInv, [Next]_vars PROVE VInv'
  OBVIOUS
<1>1. IInv' /\ ScopeEffect
  BY NextIInv, ScopeSteps DEF VInv
<1>2. NoGlobals'
  BY <1>1, NoGlobalsStep DEF VInv
<1>3. CASE EndProg
  <2>1. Accessed'
    BY <1>3, EndProgAccesses
  <2>2. Len(blocks') = 0
    <3>1. status = "running" /\ Top.kind = "prog" /\ blocks' = PopBasicBlock(blocks)
      BY <1>3 DEF EndProg, Running
    <3>2. Len(blocks) = 1 /\ 1 \in 1..Len(blocks) /\ blocks \in Seq(Scope)
      BY <3>1, TopFacts
    <3> QED
      BY <3>1, <3>2, Popped DEF PopBasicBlock
  <2>3. Bound(blocks, instrs)'
    BY <2>2 DEF Bound
  <2> QED
    BY <1>2, <2>1, <2>3 DEF VInv
<1>4. CASE ~EndProg
  <2>1. Accessed' /\ Extends(instrs, instrs')
    BY <1>1, <1>4, StepAccesses
  <2> QED
    BY <1>1, <1>2, <2>1, BoundStep DEF VInv
<1> QED
  BY <1>3, <1>4

LEMMA InitVInv == Init => VInv
<1> SUFFICES ASSUME Init PROVE VInv
  OBVIOUS
<1>1. blocks = <<>> /\ Len(blocks) = 0 /\ ~inDef /\ instrs = [b \in BB |-> <<>>]
  BY DEF Init
<1>2. Bound(blocks, instrs) /\ NoGlobals
  BY <1>1 DEF Bound, NoGlobals
<1>3. Accessed
  BY <1>1, NoElem DEF Accessed
<1> QED
  BY <1>2, <1>3 DEF VInv

\* What a scope binds is where the scope is, and what code accesses is in its
\* reach: an invariant of every compilation.
THEOREM ScopesInductive == Spec => [](IInv /\ BInv /\ VInv)
<1>1. IInv /\ BInv /\ VInv /\ [Next]_vars => (IInv /\ BInv /\ VInv)'
  BY NextIInv, NextBInv, NextVInv
<1> QED
  BY <1>1, InitIInv, InitBInv, InitVInv, PTL DEF Spec

\* No function of any program accesses a variable of another function: a name
\* is looked up in the scopes of the function and in the global one only
\* (GetVar, with the pushes and pops of every handler).
THEOREM VariablesAreConfined == Spec => []VariablesConfined
<1>1. IInv /\ BInv /\ VInv => VariablesConfined
  <2> SUFFICES ASSUME VInv, NEW b \in Owned, NEW k \in Accesses(b)
               PROVE  LET p == instrs[b][k].ptr
                      IN  p # NoPtr /\ owner[p[1]] \in {owner[b], GlobalFunc, NoFunc}
    BY DEF VariablesConfined
  <2> DEFINE p == instrs[b][k].ptr
  <2>1. b \in BB /\ instrs[b][k] \in Elems(instrs[b]) /\ instrs[b][k].op = "access"
    BY DEF Owned, Accesses, Elems
  <2>2. Reaches(p, b)
    BY <2>1 DEF VInv, Accessed
  <2>3. p \in Ptr /\ owner[p[1]] \in {owner[b], GlobalFunc, NoFunc}
    BY <2>2 DEF Reaches, Known
  <2>4. NoPtr \notin Ptr
    BY DEF NoPtr, Ptr, BB
  <2> QED
    BY <2>3, <2>4
<1> QED
  BY <1>1, ScopesInductive, PTL

\* In the code of a program without global variables every variable that is
\* accessed exists: its alloca is in the code (GenerateCode erases the block of
\* the global variables only).
THEOREM LocalsExist ==
    ASSUME ~GlobalVars
    PROVE  Spec => []NoDanglingUse
<1>1. IInv /\ BInv /\ VInv => NoDanglingUse
  <2> SUFFICES ASSUME IInv, BInv, VInv, NEW b \in Owned, NEW k \in Accesses(b)
               PROVE  LET p == instrs[b][k].ptr
                      IN  /\ owner[p[1]] # NoFunc /\ p[2] <= Len(instrs[p[1]])
                          /\ instrs[p[1]][p[2]].op = "alloca"
    BY DEF NoDanglingUse
  <2> DEFINE p == instrs[b][k].ptr
  <2>1. b \in BB /\ instrs[b][k] \in Elems(instrs[b]) /\ instrs[b][k].op = "access"
    BY DEF Owned, Accesses, Elems
  <2>2. Reaches(p, b)
    BY <2>1 DEF VInv, Accessed
  <2> HIDE DEF p
  <2>3. Known(instrs, p)
    BY <2>2 DEF Reaches
  <2> QED
    BY <2>3, KnownOwner DEF Known, p
<1> QED
  BY <1>1, ScopesInductive, PTL

----------------------------------------------------------------------------
(***************************************************************************)
(* The scope stack of CodeGenContext, with its search from the innermost   *)
(* scope outwards, implements lexical scoping for every program: each step *)
(* of the code generator is a step of LexicalScope, or changes no meaning. *)
(*                                                                         *)
(* The search is not recursive over the stack: it picks the last scope     *)
(* that binds the name.  What a name means in a scope therefore has to be  *)
(* related to what it means in the scope around it (Meaning); from there   *)
(* on each push, pop and binding is a step of LexicalScope.  That a        *)
(* declaration gives a name a place of its own needs the invariant above:  *)
(* what is bound is an alloca that is there already.                       *)
(***************************************************************************)

\* What the names mean in each scope, and which names each scope binds: the
\* refinement mapping, for a stack bl.
Env(bl) == [i \in 1..Len(bl) |-> [v \in Vars |-> GetVar(SubSeq(bl, 1, i), v)]]

Local(bl) == [i \in 1..Len(bl) |-> {v \in Vars : bl[i].vars[v] # NoPtr}]

Meanings == [Vars -> Ptr \cup {NoPtr}]

\* The stack up to its i-th scope.
LEMMA Prefix ==
    ASSUME NEW bl \in Seq(Scope), NEW i \in 1..Len(bl)
    PROVE  /\ SubSeq(bl, 1, i) \in Seq(Scope) /\ Len(SubSeq(bl, 1, i)) = i
           /\ \A j \in 1..i : SubSeq(bl, 1, i)[j] = bl[j]
<1>1. Len(bl) \in Nat
  OBVIOUS
<1>2. CASE i = Len(bl)
  <2> DEFINE s == SubSeq(bl, 1, Len(bl))
  <2>1. \A j \in 1..Len(bl) : bl[j] \in Scope
    BY ElementOfSeq
  <2>2. s \in Seq(Scope) /\ Len(s) = Len(bl) /\ \A j \in 1..Len(bl) : s[j] = bl[j]
    BY <1>1, <2>1
  <2> QED
    BY <1>2, <2>2
<1>3. CASE i # Len(bl)
  <2>1. Len(bl) - i \in 1..Len(bl) /\ Len(bl) - (Len(bl) - i) = i
    BY <1>1, <1>3
  <2> DEFINE k == Len(bl) - i
             s == SubSeq(bl, 1, Len(bl) - k)
  <2>2. s \in Seq(Scope) /\ Len(s) = Len(bl) - k /\ \A j \in 1..Len(s) : s[j] = bl[j]
    BY <2>1, Popped
  <2>3. s = SubSeq(bl, 1, i)
    BY <2>1
  <2> HIDE DEF s
  <2> QED
    BY <2>1, <2>2, <2>3
<1> QED
  BY <1>2, <1>3

\* Stacks that agree up to their i-th scope.
LEMMA PrefixSame ==
    ASSUME NEW bl \in Seq(Scope), NEW cl \in Seq(Scope),
           NEW i \in 1..Len(bl), i \in 1..Len(cl), \A j \in 1..i : cl[j] = bl[j]
    PROVE  SubSeq(cl, 1, i) = SubSeq(bl, 1, i)
<1> DEFINE s == SubSeq(bl, 1, i)
           t == SubSeq(cl, 1, i)
<1>1. s \in Seq(Scope) /\ Len(s) = i /\ \A j \in 1..i : s[j] = bl[j]
  BY Prefix
<1>2. t \in Seq(Scope) /\ Len(t) = i /\ \A j \in 1..i : t[j] = cl[j]
  BY Prefix
<1> HIDE DEF s, t
<1>3. Len(t) = Len(s) /\ \A j \in 1..Len(t) : t[j] = s[j]
  BY <1>1, <1>2
<1>4. t = s
  BY <1>1, <1>2, <1>3, SeqEqual
<1> QED
  BY <1>4 DEF s, t

\* What a name means after the search: nothing, or what a scope binds it to.
LEMMA GetVarRange ==
    ASSUME NEW bl \in Seq(Scope), NEW v \in Vars
    PROVE  /\ GetVar(bl, v) \in Ptr \cup {NoPtr}
           /\ GetVar(bl, v) = NoPtr \/ Visible(bl, GetVar(bl, v))
<1>1. CASE IsVarDefined(bl, v)
  <2>1. GetVar(bl, v) \in Ptr
    BY <1>1, GetVarType
  <2>2. PICK i \in 1..Len(bl) : bl[i].vars[v] # NoPtr /\ GetVar(bl, v) = bl[i].vars[v]
    BY <1>1, GetVarDefined
  <2> QED
    BY <2>1, <2>2 DEF Visible
<1>2. CASE ~IsVarDefined(bl, v)
  BY <1>2 DEF GetVar
<1> QED
  BY <1>1, <1>2

LEMMA EnvType ==
    ASSUME NEW bl \in Seq(Scope)
    PROVE  /\ Env(bl) \in Seq(Meanings) /\ Len(Env(bl)) = Len(bl)
           /\ \A i \in 1..Len(bl) : \A v \in Vars :
                 Env(bl)[i][v] = GetVar(SubSeq(bl, 1, i), v)
           /\ Local(bl) \in Seq(SUBSET Vars) /\ Len(Local(bl)) = Len(bl)
           /\ \A i \in 1..Len(bl) : Local(bl)[i] = {v \in Vars : bl[i].vars[v] # NoPtr}
<1>1. Len(bl) \in Nat
  OBVIOUS
<1>2. ASSUME NEW i \in 1..Len(bl)
      PROVE  [v \in Vars |-> GetVar(SubSeq(bl, 1, i), v)] \in Meanings
  <2>1. SubSeq(bl, 1, i) \in Seq(Scope)
    BY Prefix
  <2> QED
    BY <2>1, GetVarRange DEF Meanings
<1>3. Env(bl) \in Seq(Meanings) /\ Len(Env(bl)) = Len(bl)
  <2> DEFINE F(i) == [v \in Vars |-> GetVar(SubSeq(bl, 1, i), v)]
  <2>1. \A i \in 1..Len(bl) : F(i) \in Meanings
    BY <1>2
  <2> HIDE DEF F
  <2>2. [i \in 1..Len(bl) |-> F(i)] \in Seq(Meanings) /\ Len([i \in 1..Len(bl) |-> F(i)]) = Len(bl)
    BY <1>1, <2>1, SeqDef
  <2> QED
    BY <2>2 DEF Env, F
<1>4. Local(bl) \in Seq(SUBSET Vars) /\ Len(Local(bl)) = Len(bl)
  BY <1>1 DEF Local
<1> QED
  BY <1>3, <1>4 DEF Env, Local

\* What a name means in a scope: what the scope binds it to, or what it means
\* in the scope around.
LEMMA Meaning ==
    ASSUME NEW bl \in Seq(Scope), NEW i \in 1..Len(bl), NEW v \in Vars
    PROVE  Env(bl)[i][v] = IF bl[i].vars[v] # NoPtr THEN bl[i].vars[v]
                           ELSE IF i = 1 THEN NoPtr ELSE Env(bl)[i - 1][v]
<1> DEFINE s == SubSeq(bl, 1, i)
           t == SubSeq(bl, 1, i - 1)
<1>1. Env(bl)[i][v] = GetVar(s, v) /\ (i # 1 => Env(bl)[i - 1][v] = GetVar(t, v))
  <2>1. i # 1 => i - 1 \in 1..Len(bl)
    OBVIOUS
  <2> QED
    BY <2>1, EnvType
<1>2. s \in Seq(Scope) /\ Len(s) = i /\ \A j \in 1..i : s[j] = bl[j]
  BY Prefix
<1>3. i # 1 => t \in Seq(Scope) /\ Len(t) = i - 1 /\ \A j \in 1..(i - 1) : t[j] = bl[j]
  <2>1. i # 1 => i - 1 \in 1..Len(bl)
    OBVIOUS
  <2> QED
    BY <2>1, Prefix
<1> HIDE DEF s, t
<1>4. CASE bl[i].vars[v] # NoPtr
  <2>1. IsVarDefined(s, v)
    BY <1>2, <1>4 DEF IsVarDefined, Declaring
  <2>2. PICK j \in 1..Len(s) : /\ GetVar(s, v) = s[j].vars[v]
                               /\ \A k \in 1..Len(s) : s[k].vars[v] # NoPtr => k <= j
    BY <1>2, <2>1, GetVarDefined
  <2>3. j = i
    BY <1>2, <1>4, <2>2
  <2> QED
    BY <1>1, <1>2, <1>4, <2>2, <2>3
<1>5. CASE bl[i].vars[v] = NoPtr /\ ~IsVarDefined(s, v)
  <2>1. GetVar(s, v) = NoPtr
    BY <1>5 DEF GetVar
  <2>2. i # 1 => GetVar(t, v) = NoPtr
    <3>1. \A j \in 1..i : bl[j].vars[v] = NoPtr
      BY <1>2, <1>5 DEF IsVarDefined, Declaring
    <3>2. i # 1 => ~IsVarDefined(t, v)
      BY <1>3, <3>1 DEF IsVarDefined, Declaring
    <3> QED
      BY <3>2 DEF GetVar
  <2> QED
    BY <1>1, <1>5, <2>1, <2>2
<1>6. CASE bl[i].vars[v] = NoPtr /\ IsVarDefined(s, v)
  <2>1. PICK j \in 1..Len(s) : /\ s[j].vars[v] # NoPtr /\ GetVar(s, v) = s[j].vars[v]
                               /\ \A k \in 1..Len(s) : s[k].vars[v] # NoPtr => k <= j
    BY <1>2, <1>6, GetVarDefined
  <2>2. j \in 1..(i - 1) /\ i # 1 /\ bl[j].vars[v] # NoPtr /\ GetVar(s, v) = bl[j].vars[v]
    <3>1. j \in 1..i /\ j # i
      BY <1>2, <1>6, <2>1
    <3> QED
      BY <1>2, <2>1, <3>1
  <2>3. IsVarDefined(t, v)
    BY <1>3, <2>2 DEF IsVarDefined, Declaring
  <2>4. PICK k \in 1..Len(t) : /\ t[k].vars[v] # NoPtr /\ GetVar(t, v) = t[k].vars[v]
                               /\ \A m \in 1..Len(t) : t[m].vars[v] # NoPtr => m <= k
    BY <1>3, <2>2, <2>3, GetVarDefined
  <2>5. k = j
    <3>1. k \in 1..i /\ s[k].vars[v] # NoPtr
      BY <1>2, <1>3, <2>2, <2>4
    <3>2. k <= j
      BY <1>2, <2>1, <3>1
    <3>3. j <= k
      BY <1>3, <2>2, <2>4
    <3> QED
      BY <3>1, <3>2, <3>3
  <2> QED
    BY <1>1, <1>3, <1>6, <2>2, <2>4, <2>5
<1> QED
  BY <1>4, <1>5, <1>6

\* The meanings in a scope depend on the scopes up to it.
LEMMA SameEnv ==
    ASSUME NEW bl \in Seq(Scope), NEW cl \in Seq(Scope),
           NEW i \in 1..Len(bl), i \in 1..Len(cl), \A j \in 1..i : cl[j] = bl[j]
    PROVE  Env(cl)[i] = Env(bl)[i] /\ Local(cl)[i] = Local(bl)[i]
<1>1. SubSeq(cl, 1, i) = SubSeq(bl, 1, i)
  BY PrefixSame
<1>2. Env(cl)[i] = [v \in Vars |-> GetVar(SubSeq(cl, 1, i), v)]
  BY DEF Env
<1>3. Env(bl)[i] = [v \in Vars |-> GetVar(SubSeq(bl, 1, i), v)]
  BY DEF Env
<1>4. cl[i] = bl[i]
  OBVIOUS
<1> QED
  BY <1>1, <1>2, <1>3, <1>4 DEF Local

----------------------------------------------------------------------------
\* The steps of LexicalScope, from the environments e and the names l to the
\* environments f and the names m.

Nothing == [v \in Vars |-> NoPtr]

EnterAs(e, l, f, m) ==
    /\ f = Append(e, IF e = <<>> THEN Nothing ELSE e[Len(e)])
    /\ m = Append(l, {})

LeaveAs(k, e, l, f, m) ==
    /\ k \in 1..Len(e)
    /\ f = SubSeq(e, 1, Len(e) - k)
    /\ m = SubSeq(l, 1, Len(l) - k)

SiblingAs(e, l, f, m) ==
    /\ Len(e) > 1
    /\ f = [e EXCEPT ![Len(e)] = e[Len(e) - 1]]
    /\ m = [l EXCEPT ![Len(l)] = {}]

DeclareAs(v, e, l, f, m) ==
    /\ e # <<>>
    /\ v \notin l[Len(l)]
    /\ Len(f) = Len(e)
    /\ LET d == f[Len(e)][v]
       IN  /\ d \in Ptr
           /\ \A i \in 1..Len(e), w \in Vars : e[i][w] # d
           /\ f = [e EXCEPT ![Len(e)][v] = d]
    /\ m = [l EXCEPT ![Len(l)] = @ \cup {v}]

\* A scope in which nothing is declared yet has the meanings of the scope
\* around it.
LEMMA FreshScope ==
    ASSUME NEW bl \in Seq(Scope), Len(bl) > 0,
           \A v \in Vars : bl[Len(bl)].vars[v] = NoPtr
    PROVE  /\ Env(bl)[Len(bl)] = IF Len(bl) = 1 THEN Nothing ELSE Env(bl)[Len(bl) - 1]
           /\ Local(bl)[Len(bl)] = {}
<1> DEFINE n == Len(bl)
<1>0. n \in Nat /\ n > 0
  OBVIOUS
<1> HIDE DEF n
<1>1. n \in 1..n /\ (n # 1 => n - 1 \in 1..n)
  BY <1>0
<1> USE DEF n
<1>2. Local(bl)[n] = {}
  BY <1>1, EnvType
<1>3. \A v \in Vars : Env(bl)[n][v] = IF n = 1 THEN NoPtr ELSE Env(bl)[n - 1][v]
  BY <1>1, Meaning
<1>4. /\ Env(bl)[n] \in Meanings
      /\ n # 1 => Env(bl)[n - 1] \in Meanings
  BY <1>1, EnvType, ElementOfSeq
<1>5. Nothing \in Meanings /\ \A v \in Vars : Nothing[v] = NoPtr
  BY DEF Nothing, Meanings
<1> DEFINE o == IF n = 1 THEN Nothing ELSE Env(bl)[n - 1]
<1>6. o \in Meanings /\ \A v \in Vars : Env(bl)[n][v] = o[v]
  BY <1>3, <1>4, <1>5
<1> HIDE DEF o
<1>7. Env(bl)[n] = o
  BY <1>4, <1>6 DEF Meanings
<1> QED
  BY <1>2, <1>7 DEF o

LEMMA PushEnters ==
    ASSUME NEW bl \in Seq(Scope), NEW b \in BB
    PROVE  EnterAs(Env(bl), Local(bl), Env(PushBasicBlock(bl, b)), Local(PushBasicBlock(bl, b)))
<1> DEFINE cl == PushBasicBlock(bl, b)
           n  == Len(bl)
           e  == Env(bl)
           f  == Env(cl)
           l  == Local(bl)
           m  == Local(cl)
           o  == IF e = <<>> THEN Nothing ELSE e[Len(e)]
<1>1. /\ cl \in Seq(Scope) /\ Len(cl) = n + 1 /\ cl[Len(cl)] = ScopeOf(b)
      /\ \A i \in 1..n : cl[i] = bl[i]
  BY ScopeOfType, Pushed DEF PushBasicBlock
<1>2. \A v \in Vars : ScopeOf(b).vars[v] = NoPtr
  BY DEF ScopeOf
<1>0. n \in Nat
  OBVIOUS
<1> HIDE DEF cl, n
<1>3. /\ e \in Seq(Meanings) /\ Len(e) = n /\ l \in Seq(SUBSET Vars) /\ Len(l) = n
  BY EnvType DEF n
<1>4. /\ f \in Seq(Meanings) /\ Len(f) = n + 1 /\ m \in Seq(SUBSET Vars) /\ Len(m) = n + 1
  BY <1>1, EnvType
<1>5. \A i \in 1..n : f[i] = e[i] /\ m[i] = l[i]
  <2> SUFFICES ASSUME NEW i \in 1..n
               PROVE  f[i] = e[i] /\ m[i] = l[i]
    OBVIOUS
  <2>1. i \in 1..Len(bl) /\ i \in 1..Len(cl)
    BY <1>0, <1>1 DEF n
  <2>2. \A j \in 1..i : cl[j] = bl[j]
    BY <1>0, <1>1
  <2> QED
    BY <1>1, <2>1, <2>2, SameEnv
<1>6. /\ f[n + 1] = IF n + 1 = 1 THEN Nothing ELSE f[n]
      /\ m[n + 1] = {}
  <2>1. Len(cl) > 0 /\ Len(cl) - 1 = n
    BY <1>0, <1>1
  <2>2. \A v \in Vars : cl[Len(cl)].vars[v] = NoPtr
    BY <1>1, <1>2
  <2>3. /\ f[Len(cl)] = IF Len(cl) = 1 THEN Nothing ELSE f[Len(cl) - 1]
        /\ m[Len(cl)] = {}
    BY <1>1, <2>1, <2>2, FreshScope
  <2> QED
    BY <1>1, <2>1, <2>3
<1> HIDE DEF e, f, l, m
<1>7. f[n + 1] = o /\ o \in Meanings
  <2>1. CASE n = 0
    <3>1. e = <<>>
      BY <1>3, <2>1, EmptySeq
    <3>2. f[n + 1] = Nothing
      BY <1>6, <2>1
    <3>3. Nothing \in Meanings
      BY DEF Nothing, Meanings
    <3> QED
      BY <3>1, <3>2, <3>3
  <2>2. CASE n # 0
    <3>1. n \in 1..n /\ n + 1 # 1
      BY <1>0, <2>2
    <3>2. e # <<>>
      BY <1>3, <3>1, EmptySeq
    <3>3. f[n + 1] = e[n] /\ e[n] \in Meanings
      BY <1>3, <1>5, <1>6, <3>1, ElementOfSeq
    <3> QED
      BY <1>3, <3>2, <3>3
  <2> QED
    BY <2>1, <2>2
<1> HIDE DEF o
<1> DEFINE g == Append(e, o)
           h == Append(l, {})
<1>8. /\ g \in Seq(Meanings) /\ Len(g) = n + 1 /\ g[n + 1] = o
      /\ \A i \in 1..n : g[i] = e[i]
  BY <1>3, <1>7, Pushed
<1>9. /\ h \in Seq(SUBSET Vars) /\ Len(h) = n + 1 /\ h[n + 1] = {}
      /\ \A i \in 1..n : h[i] = l[i]
  BY <1>3, Pushed
<1> HIDE DEF g, h
<1>10. \A i \in 1..(n + 1) : i = n + 1 \/ i \in 1..n
  BY <1>0
<1>11. (\A i \in 1..(n + 1) : f[i] = g[i]) /\ (\A i \in 1..(n + 1) : m[i] = h[i])
  BY <1>5, <1>6, <1>7, <1>8, <1>9, <1>10, Zenon
<1>12. f = g
  BY <1>4, <1>8, <1>11, SeqEqual
<1>13. m = h
  BY <1>4, <1>9, <1>11, SeqEqual
<1> QED
  BY <1>12, <1>13, Zenon DEF EnterAs, e, f, l, m, cl, g, h, o

LEMMA PopLeavesScopes ==
    ASSUME NEW bl \in Seq(Scope), NEW k \in 1..Len(bl)
    PROVE  LET cl == SubSeq(bl, 1, Len(bl) - k)
           IN  LeaveAs(k, Env(bl), Local(bl), Env(cl), Local(cl))
<1> DEFINE cl == SubSeq(bl, 1, Len(bl) - k)
           n  == Len(bl)
           e  == Env(bl)
           f  == Env(cl)
           l  == Local(bl)
           m  == Local(cl)
<1>1. cl \in Seq(Scope) /\ Len(cl) = n - k /\ \A i \in 1..Len(cl) : cl[i] = bl[i]
  BY Popped
<1>0. n \in Nat /\ k \in 1..n
  OBVIOUS
<1> HIDE DEF cl, n
<1>3. /\ e \in Seq(Meanings) /\ Len(e) = n /\ l \in Seq(SUBSET Vars) /\ Len(l) = n
  BY EnvType DEF n
<1>4. /\ f \in Seq(Meanings) /\ Len(f) = n - k /\ m \in Seq(SUBSET Vars) /\ Len(m) = n - k
  BY <1>1, EnvType
<1>5. \A i \in 1..(n - k) : f[i] = e[i] /\ m[i] = l[i]
  <2> SUFFICES ASSUME NEW i \in 1..(n - k)
               PROVE  f[i] = e[i] /\ m[i] = l[i]
    OBVIOUS
  <2>1. i \in 1..Len(bl) /\ i \in 1..Len(cl)
    BY <1>0, <1>1 DEF n
  <2>2. \A j \in 1..i : cl[j] = bl[j]
    BY <1>0, <1>1
  <2> QED
    BY <1>1, <2>1, <2>2, SameEnv
<1> HIDE DEF e, f, l, m
<1> DEFINE g == SubSeq(e, 1, Len(e) - k)
           h == SubSeq(l, 1, Len(l) - k)
<1>6. g \in Seq(Meanings) /\ Len(g) = n - k /\ \A i \in 1..(n - k) : g[i] = e[i]
  <2>1. k \in 1..Len(e)
    BY <1>0, <1>3
  <2>2. g \in Seq(Meanings) /\ Len(g) = Len(e) - k /\ \A i \in 1..Len(g) : g[i] = e[i]
    BY <1>3, <2>1, Popped
  <2> HIDE DEF g
  <2> QED
    BY <1>3, <2>2
<1>7. h \in Seq(SUBSET Vars) /\ Len(h) = n - k /\ \A i \in 1..(n - k) : h[i] = l[i]
  <2>1. k \in 1..Len(l)
    BY <1>0, <1>3
  <2>2. h \in Seq(SUBSET Vars) /\ Len(h) = Len(l) - k /\ \A i \in 1..Len(h) : h[i] = l[i]
    BY <1>3, <2>1, Popped
  <2> HIDE DEF h
  <2> QED
    BY <1>3, <2>2
<1> HIDE DEF g, h
<1>8. Len(f) = Len(g) /\ \A i \in 1..Len(f) : f[i] = g[i]
  BY <1>4, <1>5, <1>6
<1>9. Len(m) = Len(h) /\ \A i \in 1..Len(m) : m[i] = h[i]
  BY <1>4, <1>5, <1>7
<1>10. f = g
  BY <1>4, <1>6, <1>8, SeqEqual
<1>11. m = h
  BY <1>4, <1>7, <1>9, SeqEqual
<1>12. k \in 1..Len(e)
  BY <1>0, <1>3
<1> QED
  BY <1>10, <1>11, <1>12, Zenon DEF LeaveAs, e, f, l, m, cl, g, h, n

LEMMA ReplaceIsSibling ==
    ASSUME NEW bl \in Seq(Scope), Len(bl) > 1, NEW b \in BB
    PROVE  LET cl == PushBasicBlock(PopBasicBlock(bl), b)
           IN  SiblingAs(Env(bl), Local(bl), Env(cl), Local(cl))
<1> DEFINE dl == PopBasicBlock(bl)
           cl == PushBasicBlock(dl, b)
           n  == Len(bl)
           e  == Env(bl)
           f  == Env(cl)
           l  == Local(bl)
           m  == Local(cl)
<1>0. n \in Nat /\ n > 1
  OBVIOUS
<1>1. dl \in Seq(Scope) /\ Len(dl) = n - 1 /\ \A i \in 1..Len(dl) : dl[i] = bl[i]
  <2>1. 1 \in 1..Len(bl)
    BY <1>0
  <2> QED
    BY <2>1, Popped DEF PopBasicBlock
<1> HIDE DEF dl
<1>2. /\ cl \in Seq(Scope) /\ Len(cl) = Len(dl) + 1 /\ cl[Len(cl)] = ScopeOf(b)
      /\ \A i \in 1..Len(dl) : cl[i] = dl[i]
  BY <1>1, ScopeOfType, Pushed DEF PushBasicBlock
<1>3. \A v \in Vars : ScopeOf(b).vars[v] = NoPtr
  BY DEF ScopeOf
<1> HIDE DEF cl, n
<1>4. Len(cl) = n /\ cl \in Seq(Scope) /\ \A i \in 1..(n - 1) : cl[i] = bl[i]
  BY <1>0, <1>1, <1>2
<1>5. /\ e \in Seq(Meanings) /\ Len(e) = n /\ l \in Seq(SUBSET Vars) /\ Len(l) = n
  BY EnvType DEF n
<1>6. /\ f \in Seq(Meanings) /\ Len(f) = n /\ m \in Seq(SUBSET Vars) /\ Len(m) = n
  BY <1>4, EnvType
<1>7. \A i \in 1..(n - 1) : f[i] = e[i] /\ m[i] = l[i]
  <2> SUFFICES ASSUME NEW i \in 1..(n - 1)
               PROVE  f[i] = e[i] /\ m[i] = l[i]
    OBVIOUS
  <2>1. i \in 1..Len(bl) /\ i \in 1..Len(cl)
    BY <1>0, <1>4 DEF n
  <2>2. \A j \in 1..i : cl[j] = bl[j]
    BY <1>0, <1>4
  <2> QED
    BY <1>4, <2>1, <2>2, SameEnv
<1>8. f[n] = e[n - 1] /\ m[n] = {}
  <2>1. \A v \in Vars : cl[Len(cl)].vars[v] = NoPtr
    BY <1>2, <1>3
  <2>2. Len(cl) > 0
    BY <1>0, <1>4
  <2>3. /\ f[Len(cl)] = IF Len(cl) = 1 THEN Nothing ELSE f[Len(cl) - 1]
        /\ m[Len(cl)] = {}
    BY <1>4, <2>1, <2>2, FreshScope
  <2>4. n - 1 \in 1..(n - 1) /\ n # 1
    BY <1>0
  <2> QED
    BY <1>4, <1>7, <2>3, <2>4
<1> HIDE DEF e, f, l, m
<1> DEFINE o == e[n - 1]
           g == [e EXCEPT ![n] = o]
           h == [l EXCEPT ![n] = {}]
<1>9. n \in 1..n /\ n - 1 \in 1..n
  BY <1>0
<1>10. o \in Meanings
  BY <1>5, <1>9, ElementOfSeq
<1> HIDE DEF o
<1>11. g \in Seq(Meanings) /\ Len(g) = n /\ \A i \in 1..n : g[i] = IF i = n THEN o ELSE e[i]
  BY <1>5, <1>9, <1>10, ExceptSeq
<1>12. h \in Seq(SUBSET Vars) /\ Len(h) = n /\ \A i \in 1..n : h[i] = IF i = n THEN {} ELSE l[i]
  BY <1>5, <1>9, ExceptSeq
<1> HIDE DEF g, h
<1>13. \A i \in 1..n : i = n \/ i \in 1..(n - 1)
  BY <1>0
<1>14. f[n] = o
  BY <1>8 DEF o
<1>15. (\A i \in 1..n : f[i] = g[i]) /\ (\A i \in 1..n : m[i] = h[i])
  BY <1>7, <1>8, <1>11, <1>12, <1>13, <1>14, Zenon
<1>16. f = g
  BY <1>6, <1>11, <1>15, SeqEqual
<1>17. m = h
  BY <1>6, <1>12, <1>15, SeqEqual
<1>18. Len(e) = n /\ Len(l) = n /\ Len(e) > 1
  BY <1>0, <1>5
<1>19. f = [e EXCEPT ![Len(e)] = e[Len(e) - 1]]
  BY <1>16, <1>18, Zenon DEF g, o
<1>20. m = [l EXCEPT ![Len(l)] = {}]
  BY <1>17, <1>18, Zenon DEF h
<1> QED
  BY <1>18, <1>19, <1>20, Zenon DEF SiblingAs, e, f, l, m, cl, dl

\* A place that no scope of the stack holds is the meaning of no name.
LEMMA NewMeaning ==
    ASSUME NEW bl \in Seq(Scope), NEW p \in Ptr, ~Visible(bl, p),
           NEW i \in 1..Len(bl), NEW w \in Vars
    PROVE  Env(bl)[i][w] # p
<1> DEFINE s == SubSeq(bl, 1, i)
<1>1. s \in Seq(Scope) /\ Len(s) = i /\ \A j \in 1..i : s[j] = bl[j]
  BY Prefix
<1>2. Env(bl)[i][w] = GetVar(s, w)
  BY EnvType
<1> HIDE DEF s
<1>3. CASE GetVar(s, w) = NoPtr
  BY <1>2, <1>3 DEF Ptr, NoPtr, BB
<1>4. CASE Visible(s, GetVar(s, w))
  <2>1. PICK j \in 1..i : \E u \in Vars : GetVar(s, w) = s[j].vars[u]
    BY <1>1, <1>4 DEF Visible
  <2>2. j \in 1..Len(bl) /\ s[j] = bl[j]
    BY <1>1
  <2>3. Visible(bl, GetVar(s, w))
    BY <1>4, <2>1, <2>2 DEF Visible
  <2> QED
    BY <1>2, <2>3
<1>5. GetVar(s, w) = NoPtr \/ Visible(s, GetVar(s, w))
  BY <1>1, GetVarRange
<1> QED
  BY <1>3, <1>4, <1>5

LEMMA BindingDeclares ==
    ASSUME NEW bl \in Seq(Scope), NEW cl, NEW p \in Ptr, NEW v \in Vars,
           Binds(bl, cl, p, v), ~IsVarInLocal(bl, v), ~Visible(bl, p)
    PROVE  DeclareAs(v, Env(bl), Local(bl), Env(cl), Local(cl))
<1> DEFINE n == Len(bl)
           e == Env(bl)
           f == Env(cl)
           l == Local(bl)
           m == Local(cl)
<1>0. n \in Nat /\ n \in 1..n /\ n > 0 /\ p # NoPtr
  BY DEF Binds, Ptr, NoPtr, BB
<1>1. cl \in Seq(Scope) /\ Len(cl) = n /\ \A i \in 1..(n - 1) : cl[i] = bl[i]
  BY DEF Binds
<1>2. \A w \in Vars : cl[n].vars[w] = IF w = v THEN p ELSE bl[n].vars[w]
  <2>1. bl[n] \in Scope
    BY <1>0, ElementOfSeq
  <2>2. cl[n].vars = [bl[n].vars EXCEPT ![v] = p]
    BY DEF Binds
  <2> QED
    BY <2>1, <2>2 DEF Scope
<1>3. bl[n].vars[v] = NoPtr
  BY DEF IsVarInLocal
<1>4. /\ e \in Seq(Meanings) /\ Len(e) = n /\ l \in Seq(SUBSET Vars) /\ Len(l) = n
  BY EnvType
<1>5. /\ f \in Seq(Meanings) /\ Len(f) = n /\ m \in Seq(SUBSET Vars) /\ Len(m) = n
  BY <1>1, EnvType
<1>6. \A i \in 1..(n - 1) : f[i] = e[i] /\ m[i] = l[i]
  <2> SUFFICES ASSUME NEW i \in 1..(n - 1)
               PROVE  f[i] = e[i] /\ m[i] = l[i]
    OBVIOUS
  <2>1. i \in 1..Len(bl) /\ i \in 1..Len(cl)
    BY <1>0, <1>1
  <2>2. \A j \in 1..i : cl[j] = bl[j]
    BY <1>0, <1>1
  <2> QED
    BY <1>1, <2>1, <2>2, SameEnv
<1>7. \A w \in Vars : f[n][w] = IF w = v THEN p ELSE e[n][w]
  <2> SUFFICES ASSUME NEW w \in Vars
               PROVE  f[n][w] = IF w = v THEN p ELSE e[n][w]
    OBVIOUS
  <2>1. e[n][w] = IF bl[n].vars[w] # NoPtr THEN bl[n].vars[w]
                  ELSE IF n = 1 THEN NoPtr ELSE e[n - 1][w]
    BY <1>0, Meaning
  <2>2. n \in 1..Len(cl)
    BY <1>0, <1>1
  <2>3. f[n][w] = IF cl[n].vars[w] # NoPtr THEN cl[n].vars[w]
                  ELSE IF n = 1 THEN NoPtr ELSE f[n - 1][w]
    BY <1>1, <2>2, Meaning
  <2> HIDE DEF e, f, n
  <2>4. n # 1 => n - 1 \in 1..(n - 1)
    BY <1>0
  <2>5. n # 1 => f[n - 1] = e[n - 1]
    BY <1>6, <2>4
  <2> QED
    BY <1>0, <1>2, <2>1, <2>3, <2>5
<1>8. l[n] = {w \in Vars : bl[n].vars[w] # NoPtr} /\ m[n] = {w \in Vars : cl[n].vars[w] # NoPtr}
  BY <1>0, <1>1, EnvType
<1>9. v \notin l[n] /\ m[n] = l[n] \cup {v}
  BY <1>0, <1>2, <1>3, <1>8
<1>10. \A i \in 1..n, w \in Vars : e[i][w] # p
  BY NewMeaning
<1> HIDE DEF e, f, l, m, n
<1> DEFINE o == [e[n] EXCEPT ![v] = p]
           q == l[n] \cup {v}
           g == [e EXCEPT ![n] = o]
           h == [l EXCEPT ![n] = q]
<1>11. o \in Meanings /\ \A w \in Vars : o[w] = IF w = v THEN p ELSE e[n][w]
  <2>1. e[n] \in Meanings
    BY <1>0, <1>4, ElementOfSeq
  <2> QED
    BY <2>1 DEF Meanings
<1>12. q \in SUBSET Vars
  <2>1. l[n] \in SUBSET Vars
    BY <1>0, <1>4, ElementOfSeq
  <2> QED
    BY <2>1
<1> HIDE DEF o, q
<1>13. g \in Seq(Meanings) /\ Len(g) = n /\ \A i \in 1..n : g[i] = IF i = n THEN o ELSE e[i]
  BY <1>0, <1>4, <1>11, ExceptSeq
<1>14. h \in Seq(SUBSET Vars) /\ Len(h) = n /\ \A i \in 1..n : h[i] = IF i = n THEN q ELSE l[i]
  BY <1>0, <1>4, <1>12, ExceptSeq
<1> HIDE DEF g, h
<1>15. f[n] = o /\ m[n] = q
  <2>1. f[n] \in Meanings
    BY <1>0, <1>5, ElementOfSeq
  <2>2. \A w \in Vars : f[n][w] = o[w]
    BY <1>7, <1>11
  <2>3. f[n] = o
    BY <1>11, <2>1, <2>2 DEF Meanings
  <2> QED
    BY <1>9, <2>3 DEF q
<1>16. \A i \in 1..n : i = n \/ i \in 1..(n - 1)
  BY <1>0
<1>17. (\A i \in 1..n : f[i] = g[i]) /\ (\A i \in 1..n : m[i] = h[i])
  BY <1>6, <1>13, <1>14, <1>15, <1>16, Zenon
<1>18. f = g
  BY <1>5, <1>13, <1>17, SeqEqual
<1>19. m = h
  BY <1>5, <1>14, <1>17, SeqEqual
<1>20. f[n][v] = p
  BY <1>7
<1>21. f = [e EXCEPT ![n][v] = p]
  BY <1>18 DEF g, o
<1>22. m = [l EXCEPT ![n] = @ \cup {v}]
  BY <1>19 DEF h, q
<1>23. e # <<>>
  BY <1>0, <1>4, NotEmpty
<1>24. DeclareAs(v, e, l, f, m)
  BY <1>4, <1>5, <1>9, <1>10, <1>20, <1>21, <1>22, <1>23, Zenon DEF DeclareAs
<1> QED
  BY <1>24 DEF e, f, l, m

----------------------------------------------------------------------------
\* The code generator implements LexicalScope.

\* No scope holds the place of the next alloca.
LEMMA NextPlaceNew ==
    ASSUME IInv, Bound(blocks, instrs), status = "running"
    PROVE  ~Visible(blocks, NextPlace)
<1>1. GetCurrentBlock \in BB /\ instrs \in [BB -> Seq(Instr)]
  BY TopFacts DEF IInv, TypeOK
<1> DEFINE a == GetCurrentBlock
           p == NextPlace
<1>2. p[1] = a /\ p[2] = Len(instrs[a]) + 1 /\ Len(instrs[a]) \in Nat
  BY <1>1 DEF NextPlace
<1> HIDE DEF a, p
<1>3. ~Known(instrs, p)
  BY <1>2 DEF Known
<1>4. Visible(blocks, p) => Known(instrs, p)
  BY DEF Visible, Bound
<1> QED
  BY <1>3, <1>4 DEF p

LEMMA DeclaresImplements ==
    ASSUME IInv, Bound(blocks, instrs), status = "running", NEW v \in Vars, Declares(v)
    PROVE  blocks' = blocks \/ DeclareAs(v, Env(blocks), Local(blocks), Env(blocks'), Local(blocks'))
<1>1. blocks \in Seq(Scope) /\ blocks # <<>> /\ GetCurrentBlock \in BB
  <2>1. Len(blocks) > 0
    BY TopFacts
  <2> QED
    BY <2>1, TopFacts, NotEmpty
<1>2. NextPlace \in Ptr
  BY <1>1 DEF NextPlace, Ptr, IInv, TypeOK
<1>3. Binds(blocks, blocks', NextPlace, v)
  BY <1>1, <1>2, AddLocalVarAt DEF Declares
<1>4. CASE IsVarInLocal(blocks, v)
  BY <1>3, <1>4 DEF Binds
<1>5. CASE ~IsVarInLocal(blocks, v)
  <2>1. ~Visible(blocks, NextPlace)
    BY NextPlaceNew
  <2> QED
    BY <1>1, <1>2, <1>3, <1>5, <2>1, BindingDeclares, Zenon
<1> QED
  BY <1>4, <1>5

\* A step of LexicalScope, as one of the forms above.
LEMMA ScopesNext ==
    \/ EnterAs(Env(blocks), Local(blocks), Env(blocks'), Local(blocks'))
    \/ \E k \in {1, 2} : LeaveAs(k, Env(blocks), Local(blocks), Env(blocks'), Local(blocks'))
    \/ SiblingAs(Env(blocks), Local(blocks), Env(blocks'), Local(blocks'))
    \/ \E v \in Vars : DeclareAs(v, Env(blocks), Local(blocks), Env(blocks'), Local(blocks'))
    => Scopes!Next
<1>1. EnterAs(Env(blocks), Local(blocks), Env(blocks'), Local(blocks')) => Scopes!Enter
  BY Zenon DEF EnterAs, Scopes!Enter, Scopes!Nothing, Nothing, Env, Local
<1>2. ASSUME NEW k \in {1, 2}
      PROVE  LeaveAs(k, Env(blocks), Local(blocks), Env(blocks'), Local(blocks')) => Scopes!Leave(k)
  BY Zenon DEF LeaveAs, Scopes!Leave, Env, Local
<1>3. SiblingAs(Env(blocks), Local(blocks), Env(blocks'), Local(blocks')) => Scopes!Sibling
  BY Zenon DEF SiblingAs, Scopes!Sibling, Env, Local
<1>4. ASSUME NEW v \in Vars
      PROVE  DeclareAs(v, Env(blocks), Local(blocks), Env(blocks'), Local(blocks'))
             => Scopes!Declare(v)
  BY Zenon DEF DeclareAs, Scopes!Declare, Env, Local
<1> QED
  BY <1>1, <1>2, <1>3, <1>4, Zenon DEF Scopes!Next

LEMMA ScopesInit == Init => Scopes!Init
<1> SUFFICES ASSUME Init PROVE Scopes!Init
  OBVIOUS
<1>1. blocks \in Seq(Scope) /\ Len(blocks) = 0
  BY EmptySeq DEF Init
<1>2. Env(blocks) = <<>> /\ Local(blocks) = <<>>
  BY <1>1, EnvType, EmptySeq
<1> QED
  BY <1>2, Zenon DEF Scopes!Init, Env, Local

LEMMA ScopesStep == IInv /\ VInv /\ [Next]_vars => [Scopes!Next]_(Scopes!vars)
<1> SUFFICES ASSUME IInv, VInv, [Next]_vars
             PROVE  Scopes!Next \/ UNCHANGED Scopes!vars
  OBVIOUS
<1>1. ScopeEffect
  BY ScopeSteps DEF VInv
<1>2. blocks \in Seq(Scope) /\ Bound(blocks, instrs)
  BY DEF IInv, TypeOK, VInv
<1>3. CASE blocks' = blocks
  <2>1. UNCHANGED Scopes!vars
    BY <1>3, Zenon DEF Scopes!vars
  <2> QED
    BY <2>1
<1>4. ASSUME NEW b \in BB, Opens(b) PROVE Scopes!Next
  <2>1. EnterAs(Env(blocks), Local(blocks), Env(blocks'), Local(blocks'))
    BY <1>2, <1>4, PushEnters, Zenon DEF Opens
  <2> QED
    BY <2>1, ScopesNext, Zenon
<1>5. ASSUME NEW k \in {1, 2}, k <= Len(blocks), Closes(k) PROVE Scopes!Next
  <2>1. k \in 1..Len(blocks)
    BY <1>2, <1>5
  <2>2. LeaveAs(k, Env(blocks), Local(blocks), Env(blocks'), Local(blocks'))
    BY <1>2, <1>5, <2>1, PopLeavesScopes, Zenon DEF Closes
  <2> QED
    BY <2>2, ScopesNext, Zenon
<1>6. ASSUME Len(blocks) > 1, NEW b \in BB, Replaces(b) PROVE Scopes!Next
  <2>1. SiblingAs(Env(blocks), Local(blocks), Env(blocks'), Local(blocks'))
    BY <1>2, <1>6, ReplaceIsSibling, Zenon DEF Replaces
  <2> QED
    BY <2>1, ScopesNext, Zenon
<1>7. ASSUME status = "running", NEW v \in Vars, Declares(v)
      PROVE  Scopes!Next \/ blocks' = blocks
  <2>1. \/ blocks' = blocks
        \/ DeclareAs(v, Env(blocks), Local(blocks), Env(blocks'), Local(blocks'))
    BY <1>2, <1>7, DeclaresImplements, Zenon
  <2> QED
    BY <2>1, ScopesNext, Zenon
<1> QED
  BY <1>1, <1>3, <1>4, <1>5, <1>6, <1>7, Zenon DEF ScopeEffect

\* Names mean what lexical scoping says, in every program: the scope stack of
\* CodeGenContext, searched from the innermost block outwards, implements
\* LexicalScope (LexicalScoping).
THEOREM NamesAreLexical == Spec => LexicalScoping
<1>1. Spec => [](IInv /\ BInv /\ VInv)
  BY ScopesInductive
<1>2. Init => Scopes!Init
  BY ScopesInit
<1>3. (IInv /\ BInv /\ VInv) /\ [Next]_vars => [Scopes!Next]_(Scopes!vars)
  BY ScopesStep
<1> QED
  BY <1>1, <1>2, <1>3, PTL DEF Spec, LexicalScoping, Scopes!Spec

----------------------------------------------------------------------------
(***************************************************************************)
(* What a step adds, it adds where it may: to blocks of the function that  *)
(* is being generated (FinishedUnchanged), and, if it accesses a variable, *)
(* to one that a name means at that place in the source (UsesInScope).     *)
(***************************************************************************)

\* A block that a step can write to: not one of a finished function.
Writable(a) == a \in BB => owner[a] \in {NoFunc, GlobalFunc, currentFunc}

\* No block of a finished function is changed.
KeepsFinished ==
    \A x \in Owned : owner[x] \notin {currentFunc, GlobalFunc} => instrs'[x] = instrs[x]

LEMMA WritesWritable ==
    ASSUME IInv, NEW a \in BB \cup {NoBB}, NEW s, Writable(a), NEW b \in BB \cup {NoBB}, NEW t,
           Writable(b), Writes(a, s, b, t)
    PROVE  KeepsFinished
<1> SUFFICES ASSUME NEW x \in Owned, owner[x] \notin {currentFunc, GlobalFunc}
             PROVE  instrs'[x] = instrs[x]
  BY DEF KeepsFinished
<1>1. x \in BB /\ x # a /\ x # b
  BY DEF Owned, Writable
<1>2. \A c, y, u : y # x => Emit(c, y, u)[x] = c[x]
  BY DEF Emit
<1>3. instrs' = Emit(Emit(instrs, a, s), b, t)
  BY DEF Writes
<1>4. Emit(instrs, a, s)[x] = instrs[x]
  BY <1>1, <1>2
<1>5. Emit(Emit(instrs, a, s), b, t)[x] = Emit(instrs, a, s)[x]
  BY <1>1, <1>2
<1> QED
  BY <1>3, <1>4, <1>5

LEMMA WritesOneWritable ==
    ASSUME IInv, NEW a \in BB \cup {NoBB}, NEW s, Writable(a), instrs' = Emit(instrs, a, s)
    PROVE  KeepsFinished
<1>1. Writes(a, s, NoBB, <<>>)
  BY EmitNowhere DEF Writes
<1>2. NoBB \in BB \cup {NoBB} /\ Writable(NoBB)
  BY DEF Writable, BB, NoBB
<1> QED
  BY <1>1, <1>2, WritesWritable

LEMMA BuilderWritable ==
    ASSUME IInv, status = "running", Top.kind # "prog"
    PROVE  insertBB \in BB /\ Writable(insertBB)
BY TopFacts DEF Writable

\* A block that the top handler, or that of the loop around, still inserts.
LEMMA WaitingWritable ==
    ASSUME IInv, BInv, currentFunc # NoFunc, NEW i \in 1..Len(frames),
           NEW u \in ToInsert(frames[i])
    PROVE  u \in BB /\ Writable(u)
BY WaitingEmpty DEF Writable

LEMMA InFuncWritable ==
    ASSUME IInv, status = "running", Len(frames) > 1
    PROVE  GetCurrentBlock \in BB /\ Writable(GetCurrentBlock) /\ insertBB \in BB /\ Writable(insertBB)
<1>1. /\ GetCurrentBlock \in BB /\ Len(blocks) = Len(frames) /\ Len(frames) \in 1..Len(frames)
      /\ currentFunc # NoFunc
  BY TopFacts DEF IInv, HandlersNested
<1>2. Len(blocks) \in 2..Len(blocks)
  BY <1>1
<1>3. owner[GetCurrentBlock] = currentFunc
  BY <1>1, <1>2 DEF GetCurrentBlock, IInv, InCurrentFunc
<1>4. insertBB \in BB /\ owner[insertBB] = currentFunc
  BY <1>1 DEF IInv, InCurrentFunc, TypeOK, NoBB
<1> QED
  BY <1>1, <1>3, <1>4 DEF Writable

LEMMA FinishedStep ==
    ASSUME ~GlobalVars, IInv, BInv, VInv, [Next]_vars
    PROVE  KeepsFinished
<1>1. ASSUME NEW f \in FuncNames, CreatePrintFunc(f)
      PROVE  KeepsFinished
  <2>1. nbb + 1 \in BB /\ nbb \in Nat
    BY <1>1, PrintFuncScopes DEF IInv, TypeOK
  <2>2. nbb + 1 > nbb
    BY <2>1
  <2>3. owner[nbb + 1] = NoFunc
    BY <2>1, <2>2 DEF BInv, FreshBlocks
  <2>4. Writable(nbb + 1)
    BY <2>3 DEF Writable
  <2>5. instrs' = Emit(instrs, nbb + 1, <<Call, Ret>>)
    BY <1>1 DEF CreatePrintFunc
  <2> QED
    BY <2>1, <2>4, <2>5, WritesOneWritable
<1>2. CASE EndProg
  <2>1. status = "running" /\ Top.kind = "prog" /\ instrs' = [instrs EXCEPT ![Top.bb] = <<>>]
    BY <1>2 DEF EndProg, Running
  <2>2. frames # <<>> /\ Top = frames[1] /\ Top.bb \in BB
    BY <2>1, TopFacts DEF FrameRec
  <2>3. owner[Top.bb] = GlobalFunc
    BY <2>2 DEF BInv, GlobalBlock
  <2>4. \A x \in BB : x # Top.bb => instrs'[x] = instrs[x]
    BY <2>1 DEF IInv, TypeOK
  <2> QED
    BY <2>3, <2>4 DEF KeepsFinished, Owned
<1>3. CASE \/ BeginProg \/ BeginBody \/ EmptyStmt \/ EndBlock \/ Abort \/ Ended \/ UNCHANGED vars
           \/ \E f \in FuncNames, void \in BOOLEAN : BeginFunc(f, void)
  <2>1. instrs' = instrs
    BY <1>3 DEF BeginProg, BeginBody, EmptyStmt, EndBlock, Abort, Ended, BeginFunc, code, vars
  <2> QED
    BY <2>1 DEF KeepsFinished
<1>4. ASSUME NEW s, status = "running", Top.kind # "prog", instrs' = Emit(instrs, insertBB, s)
      PROVE  KeepsFinished
  BY <1>4, BuilderWritable, WritesOneWritable
<1>5. CASE EndFunc
  <2>1. status = "running" /\ Top.kind = "body" /\ instrs' = DefaultReturn
    BY <1>5 DEF EndFunc, Running
  <2>2. CASE HasTerminator(instrs[insertBB])
    BY <2>1, <2>2 DEF DefaultReturn, KeepsFinished
  <2>3. CASE ~HasTerminator(instrs[insertBB])
    BY <1>4, <2>1, <2>3 DEF DefaultReturn
  <2> QED
    BY <2>2, <2>3
<1>6. CASE \/ BeginBlock \/ BeginFor \/ \E e \in Exprs : BeginIf(e) \/ ExprStmt(e)
           \/ \E e \in Exprs \cup {NoExpr} : Return(e)
  <2>1. Running /\ InStmts
    BY <1>6 DEF BeginBlock, BeginFor, BeginIf, ExprStmt, Return, ReturnPosition, AnyStmt,
                StmtPosition
  <2>2. status = "running" /\ Top.kind # "prog"
    BY <2>1, StmtFacts
  <2>3. \E s : instrs' = Emit(instrs, insertBB, s)
    BY <1>6 DEF BeginBlock, BeginFor, BeginIf, ExprStmt, Return
  <2> QED
    BY <1>4, <2>2, <2>3
<1>7. CASE ThenElse \/ EndElse
  <2>1. status = "running" /\ Top.kind # "prog" /\ \E s : instrs' = Emit(instrs, insertBB, s)
    BY <1>7 DEF ThenElse, EndElse, Running
  <2> QED
    BY <1>4, <2>1
<1>8. ASSUME NEW s, NEW t, NEW i \in 1..Len(frames), NEW u \in ToInsert(frames[i]),
             status = "running", Top.kind # "prog", Writes(insertBB, s, u, t)
      PROVE  KeepsFinished
  <2>1. currentFunc # NoFunc
    BY <1>8, TopFacts
  <2>2. u \in BB /\ Writable(u) /\ insertBB \in BB /\ Writable(insertBB)
    BY <1>8, <2>1, WaitingWritable, BuilderWritable
  <2> QED
    BY <1>8, <2>2, WritesWritable
<1>9. CASE EndThen \/ \E e \in Exprs \cup {NoExpr} : ForCondition(e)
  <2>1. status = "running" /\ Top.kind \in {"then", "forinit"}
    BY <1>9 DEF EndThen, ForCondition, Running
  <2>2. Len(frames) \in 1..Len(frames) /\ Top = frames[Len(frames)]
    BY <2>1, TopFacts
  <2>3. Top.bb + 1 \in ToInsert(frames[Len(frames)])
    BY <2>1, <2>2 DEF ToInsert
  <2>4. \E s, t : Writes(insertBB, s, Top.bb + 1, t)
    BY <1>9 DEF EndThen, ForCondition, Writes
  <2> QED
    BY <1>8, <2>1, <2>2, <2>3, <2>4
<1>10. ASSUME NEW e \in Exprs \cup {NoExpr}, EndFor(e)
       PROVE  KeepsFinished
  <2>1. Running /\ Top.kind = "loopbody"
    BY <1>10 DEF EndFor
  <2>2. /\ status = "running" /\ Len(frames) - 1 \in 1..Len(frames)
        /\ frames[Len(frames) - 1].kind = "for"
    BY <2>1, CloseFacts
  <2>3. frames[Len(frames) - 1].bb + 3 \in ToInsert(frames[Len(frames) - 1])
    BY <2>2 DEF ToInsert
  <2>4. \E s, t : Writes(insertBB, s, frames[Len(frames) - 1].bb + 3, t)
    BY <1>10 DEF EndFor, Writes
  <2> QED
    BY <1>8, <2>1, <2>2, <2>3, <2>4
<1>11. ASSUME NEW v \in Vars, AddParam(v)
       PROVE  KeepsFinished
  <2>1. status = "running" /\ Len(blocks) > 1
    BY <1>11, ParamDeclares
  <2>2. Len(frames) > 1
    BY <2>1, TopFacts
  <2>3. \E s, t : Writes(GetCurrentBlock, s, insertBB, t)
    BY <1>11 DEF AddParam, Writes
  <2> QED
    BY <2>1, <2>2, <2>3, InFuncWritable, WritesWritable
<1>12. ASSUME NEW v \in Vars, NEW e \in Exprs \cup {NoExpr}, NEW more \in BOOLEAN,
              DefineVar(v, e, more)
       PROVE  KeepsFinished
  <2>1. Len(frames) > 1 /\ status = "running"
    BY <1>12, DefineVarInside DEF VInv, DefineVar
  <2>2. \E s, t : Writes(GetCurrentBlock, s, insertBB, t)
    BY <1>12 DEF DefineVar, Writes
  <2> QED
    BY <2>1, <2>2, InFuncWritable, WritesWritable
<1> QED
  BY <1>1, <1>2, <1>3, <1>5, <1>6, <1>7, <1>9, <1>10, <1>11, <1>12 DEF Next, Step

\* In the compilation of a program without global variables no step changes a
\* function that is finished (FinishedUnchanged): what is generated goes to blocks
\* of the current function, or to blocks that belong to no function yet.
THEOREM FinishedStays ==
    ASSUME ~GlobalVars
    PROVE  Spec => FinishedUnchanged
<1>1. (IInv /\ BInv /\ VInv) /\ [Next]_vars => KeepsFinished
  BY FinishedStep
<1>2. KeepsFinished <=> \A b \in Owned : owner[b] \notin {currentFunc, GlobalFunc}
                                         => instrs'[b] = instrs[b]
  BY DEF KeepsFinished
<1> QED
  BY <1>1, <1>2, ScopesInductive, PTL DEF Spec, FinishedUnchanged

----------------------------------------------------------------------------
\* What the instructions of s access is what a name means in the scopes bl.
Sees(bl, s) == \A i \in Elems(s) : i.op = "access" => Means(bl, i.ptr)

LEMMA ExprSees ==
    ASSUME NEW bl \in Seq(Scope), NEW e, ~Throws(bl, e)
    PROVE  Sees(bl, ExprCode(bl, e))
<1>1. CASE e \in Vars
  <2>1. IsVarDefined(bl, e)
    BY <1>1 DEF Throws
  <2>2. PICK i \in 1..Len(bl) :
            /\ bl[i].vars[e] # NoPtr /\ GetVar(bl, e) = bl[i].vars[e]
            /\ \A j \in 1..Len(bl) : bl[j].vars[e] # NoPtr => j <= i
    BY <1>1, <2>1, GetVarDefined
  <2>3. \A j \in (i + 1)..Len(bl) : j \in 1..Len(bl) /\ ~(j <= i)
    OBVIOUS
  <2>4. \A j \in (i + 1)..Len(bl) : bl[j].vars[e] = NoPtr
    BY <2>2, <2>3
  <2>5. Means(bl, GetVar(bl, e))
    BY <1>1, <2>2, <2>4 DEF Means
  <2>6. ExprCode(bl, e) = <<Access(GetVar(bl, e))>> /\ Access(GetVar(bl, e)).ptr = GetVar(bl, e)
    BY <1>1 DEF ExprCode, Access
  <2> QED
    BY <2>5, <2>6, OneElem DEF Sees
<1>2. CASE e \notin Vars
  <2>1. ExprCode(bl, e) = <<Call>> \/ ExprCode(bl, e) = <<>>
    BY <1>2 DEF ExprCode
  <2>2. Call.op # "access"
    BY OtherOps
  <2> QED
    BY <2>1, <2>2, OneElem, NoElem DEF Sees
<1> QED
  BY <1>1, <1>2

LEMMA ExprThenSees ==
    ASSUME NEW bl \in Seq(Scope), NEW e, ~Throws(bl, e),
           NEW i \in Instr, i.op = "access" => Means(bl, i.ptr)
    PROVE  /\ Append(ExprCode(bl, e), i) \in Seq(Instr)
           /\ Sees(bl, Append(ExprCode(bl, e), i))
<1> DEFINE s == ExprCode(bl, e)
<1>1. s \in Seq(Instr) /\ Sees(bl, s)
  BY ExprCodeType, ExprSees
<1> HIDE DEF s
<1>2. Append(s, i) \in Seq(Instr) /\ Elems(Append(s, i)) = Elems(s) \cup {i}
  BY <1>1, AppendElems
<1>3. Sees(bl, Append(s, i))
  BY <1>1, <1>2 DEF Sees
<1> QED
  BY <1>2, <1>3 DEF s

\* What no access is sees every scope.
LEMMA OtherSees ==
    ASSUME NEW bl
    PROVE  /\ Sees(bl, <<>>) /\ Sees(bl, <<Alloca>>) /\ Sees(bl, <<Ret>>)
           /\ \A u : Sees(bl, <<Br(u)>>)
BY OneElem, NoElem, OtherOps DEF Sees, Alloca

\* What a step adds to each block is what it appends.
LEMMA EmitTwiceNew ==
    ASSUME NEW c \in [BB -> Seq(Instr)], NEW a \in BB \cup {NoBB}, NEW s \in Seq(Instr),
           NEW b \in BB \cup {NoBB}, NEW t \in Seq(Instr),
           NEW d, d = Emit(Emit(c, a, s), b, t), NEW x \in BB
    PROVE  Added(c, d, x) \subseteq Elems(s) \cup Elems(t)
<1> DEFINE m == Emit(c, a, s)
<1>1. /\ m \in [BB -> Seq(Instr)] /\ Extends(c, m)
      /\ Added(c, m, x) \subseteq IF x = a THEN Elems(s) ELSE {}
  BY EmitAdds
<1>0. d = Emit(m, b, t)
  OBVIOUS
<1> HIDE DEF m
<1>2. /\ d \in [BB -> Seq(Instr)] /\ Extends(m, d)
      /\ Added(m, d, x) \subseteq IF x = b THEN Elems(t) ELSE {}
  BY <1>0, <1>1, EmitAdds
<1> SUFFICES ASSUME NEW k \in (Len(c[x]) + 1)..Len(d[x])
             PROVE  d[x][k] \in Elems(s) \cup Elems(t)
  BY DEF Added
<1>3. Len(c[x]) \in Nat /\ Len(m[x]) \in Nat /\ Len(d[x]) \in Nat
  BY <1>1, <1>2
<1>4. CASE k \in (Len(c[x]) + 1)..Len(m[x])
  <2>1. k \in 1..Len(m[x])
    BY <1>3, <1>4
  <2>2. d[x][k] = m[x][k]
    BY <1>2, <2>1 DEF Extends
  <2>3. m[x][k] \in Added(c, m, x)
    BY <1>4 DEF Added
  <2> QED
    BY <1>1, <2>2, <2>3
<1>5. CASE k \in (Len(m[x]) + 1)..Len(d[x])
  <2>1. d[x][k] \in Added(m, d, x)
    BY <1>5 DEF Added
  <2> QED
    BY <1>2, <2>1
<1>6. k \in (Len(c[x]) + 1)..Len(m[x]) \/ k \in (Len(m[x]) + 1)..Len(d[x])
  BY <1>3
<1> QED
  BY <1>4, <1>5, <1>6

\* Each variable accessed by what the step adds is what a name means in bl.
NewSees(bl) == \A x \in BB : \A i \in NewInstrs(x) : i.op = "access" => Means(bl, i.ptr)

LEMMA WritesSees ==
    ASSUME IInv, NEW bl, NEW a \in BB \cup {NoBB}, NEW s \in Seq(Instr), Sees(bl, s),
           NEW b \in BB \cup {NoBB}, NEW t \in Seq(Instr), Sees(bl, t), Writes(a, s, b, t)
    PROVE  NewSees(bl)
<1> SUFFICES ASSUME NEW x \in BB, NEW i \in NewInstrs(x), i.op = "access"
             PROVE  Means(bl, i.ptr)
  BY DEF NewSees
<1> DEFINE d == instrs'
<1>1. instrs \in [BB -> Seq(Instr)] /\ d = Emit(Emit(instrs, a, s), b, t)
  BY DEF IInv, TypeOK, Writes
<1>2. i \in Added(instrs, d, x)
  BY DEF NewInstrs, Added
<1> HIDE DEF d
<1>3. i \in Elems(s) \cup Elems(t)
  BY <1>1, <1>2, EmitTwiceNew
<1> QED
  BY <1>3 DEF Sees

LEMMA WritesOneSees ==
    ASSUME IInv, NEW bl, NEW s \in Seq(Instr), Sees(bl, s), instrs' = Emit(instrs, insertBB, s)
    PROVE  NewSees(bl)
<1>1. Writes(insertBB, s, NoBB, <<>>)
  BY EmitNowhere DEF Writes
<1>2. /\ insertBB \in BB \cup {NoBB} /\ NoBB \in BB \cup {NoBB}
      /\ <<>> \in Seq(Instr) /\ Sees(bl, <<>>)
  BY OtherSees DEF IInv, TypeOK
<1> QED
  BY <1>1, <1>2, WritesSees

\* Steps that add no access: nothing is added, or terminators.
LEMMA NothingSees ==
    ASSUME IInv, NEW bl, \/ instrs' = instrs
                         \/ EndProg
    PROVE  NewSees(bl)
<1>1. ASSUME NEW x \in BB
      PROVE  NewInstrs(x) = {}
  <2>1. Len(instrs[x]) \in Nat /\ (instrs'[x] = instrs[x] \/ instrs'[x] = <<>>)
    BY DEF EndProg, IInv, TypeOK
  <2>2. (Len(instrs[x]) + 1)..Len(instrs'[x]) = {}
    BY <2>1
  <2> QED
    BY <2>2 DEF NewInstrs
<1> QED
  BY <1>1 DEF NewSees

LEMMA BranchesSee ==
    ASSUME IInv, NEW bl, \/ EndFunc \/ BeginBlock \/ BeginFor \/ ThenElse \/ EndElse \/ EndThen
    PROVE  NewSees(bl)
<1>1. CASE EndFunc
  <2>1. instrs' = instrs \/ instrs' = Emit(instrs, insertBB, <<Ret>>)
    BY <1>1 DEF EndFunc, DefaultReturn
  <2>2. <<Ret>> \in Seq(Instr) /\ Sees(bl, <<Ret>>)
    BY InstrType, OtherSees
  <2> QED
    BY <2>1, <2>2, NothingSees, WritesOneSees
<1>2. ASSUME NEW u \in BB, instrs' = Emit(instrs, insertBB, <<Br(u)>>)
      PROVE  NewSees(bl)
  <2>1. <<Br(u)>> \in Seq(Instr) /\ Sees(bl, <<Br(u)>>)
    BY InstrType, OtherSees
  <2> QED
    BY <1>2, <2>1, WritesOneSees
<1>3. CASE BeginBlock \/ BeginFor
  <2>1. nbb + 1 \in BB
    BY <1>3, OpensOne
  <2>2. instrs' = Emit(instrs, insertBB, <<Br(nbb + 1)>>)
    BY <1>3 DEF BeginBlock, BeginFor
  <2> QED
    BY <1>2, <2>1, <2>2
<1>4. CASE ThenElse \/ EndThen
  <2>1. status = "running" /\ Top.kind \in {"then", "forinit"}
    BY <1>4 DEF ThenElse, EndThen, Running
  <2>2. Top.bb + 1 \in BB /\ Top.bb + 2 \in BB
    BY <2>1, LaterBlocks
  <2>3. CASE ThenElse
    BY <1>2, <2>2, <2>3 DEF ThenElse
  <2>4. CASE EndThen
    <3> DEFINE s == <<Br(Top.bb + 2)>>
    <3>1. s \in Seq(Instr) /\ Sees(bl, s)
      BY <2>2, InstrType, OtherSees
    <3>2. Writes(insertBB, s, Top.bb + 1, s)
      BY <2>4 DEF EndThen, Writes
    <3> HIDE DEF s
    <3>3. insertBB \in BB \cup {NoBB} /\ Top.bb + 1 \in BB \cup {NoBB}
      BY <2>2 DEF IInv, TypeOK
    <3> QED
      BY <3>1, <3>2, <3>3, WritesSees
  <2> QED
    BY <1>4, <2>3, <2>4
<1>5. CASE EndElse
  <2>1. Running /\ Top.kind = "else"
    BY <1>5 DEF EndElse
  <2>2. Top.bb \in BB /\ Top.bb + Ahead(Top.kind) <= MaxBB
    BY <2>1, CloseFacts
  <2>3. Top.bb + 1 \in BB
    BY <2>1, <2>2, MaxBBAssumption DEF Ahead, BB
  <2>4. instrs' = Emit(instrs, insertBB, <<Br(Top.bb + 1)>>)
    BY <1>5 DEF EndElse
  <2> QED
    BY <1>2, <2>3, <2>4
<1> QED
  BY <1>1, <1>3, <1>4, <1>5

\* The scopes that a name means something in, for each step that accesses one.
LEMMA StmtSees ==
    ASSUME IInv, \/ \E e \in Exprs : ExprStmt(e)
                 \/ \E e \in Exprs \cup {NoExpr} : Return(e)
    PROVE  NewSees(SourceScopes)
<1>1. Running /\ InStmts /\ blocks' = blocks /\ frames' = Took(FALSE)
  BY DEF ExprStmt, Return, ReturnPosition, AnyStmt, StmtPosition
<1>2. Len(frames') = Len(frames)
  BY <1>1, StmtFacts
<1>3. Len(frames) \in Nat /\ Len(blocks) \in Nat /\ blocks \in Seq(Scope)
  BY DEF IInv, TypeOK
<1>4. SourceScopes = blocks
  <2>1. blocks' = blocks
    BY <1>1
  <2> QED
    BY <1>2, <1>3, <2>1 DEF SourceScopes
<1>5. ASSUME NEW e, ExprStmt(e)
      PROVE  NewSees(blocks)
  <2>1. instrs' = Emit(instrs, insertBB, ExprCode(blocks, e)) /\ ~Throws(blocks, e)
    BY <1>5 DEF ExprStmt
  <2>2. ExprCode(blocks, e) \in Seq(Instr) /\ Sees(blocks, ExprCode(blocks, e))
    BY <1>3, <2>1, ExprCodeType, ExprSees
  <2> QED
    BY <2>1, <2>2, WritesOneSees
<1>6. ASSUME NEW e, Return(e)
      PROVE  NewSees(blocks)
  <2> DEFINE s == Append(ExprCode(blocks, e), Ret)
  <2>1. instrs' = Emit(instrs, insertBB, s) /\ ~Throws(blocks, e)
    BY <1>6 DEF Return
  <2>2. s \in Seq(Instr) /\ Sees(blocks, s)
    BY <1>3, <2>1, InstrType, OtherOps, ExprThenSees
  <2> HIDE DEF s
  <2> QED
    BY <2>1, <2>2, WritesOneSees
<1> QED
  BY <1>4, <1>5, <1>6

\* A condition is outside of the scope it leads to.
LEMMA OpenedScopes ==
    ASSUME NEW bl \in Seq(Scope), NEW b \in BB, blocks = bl, Opens(b),
           Len(frames) \in Nat, Len(frames') = Len(frames) + 1
    PROVE  SourceScopes = blocks
<1>1. Len(PushBasicBlock(bl, b)) = Len(bl) + 1 /\ Len(bl) \in Nat
  BY ScopeOfType, Pushed DEF PushBasicBlock
<1> QED
  BY <1>1 DEF SourceScopes, Opens

LEMMA BeginIfSees ==
    ASSUME IInv, NEW e \in Exprs, BeginIf(e)
    PROVE  NewSees(SourceScopes)
<1> DEFINE b == nbb + 1
           s == Append(ExprCode(blocks, e), CondBr(b, b + 1))
           h == Frame("then", b)
<1>1. b \in BB /\ Opens(b) /\ blocks \in Seq(Scope) /\ Len(frames) \in Nat
  BY OpensOne DEF IInv, TypeOK
<1>2. instrs' = Emit(instrs, insertBB, s) /\ ~Throws(blocks, e) /\ b + 2 <= MaxBB
  BY DEF BeginIf
<1>3. AnyStmt /\ Calls(h) /\ h \in FrameRec
  BY <1>1, FrameType DEF BeginIf, Calls, FrameKinds, ListKinds
<1>4. Len(frames') = Len(frames) + 1
  <2> HIDE DEF h
  <2> QED
    BY <1>3, CallsFacts
<1>5. SourceScopes = blocks
  BY <1>1, <1>4, OpenedScopes
<1>6. b + 1 \in BB
  BY <1>1, <1>2, MaxBBAssumption DEF BB, IInv, TypeOK
<1>7. s \in Seq(Instr) /\ Sees(blocks, s)
  BY <1>1, <1>2, <1>6, InstrType, OtherOps, ExprThenSees
<1> HIDE DEF s, b
<1> QED
  BY <1>2, <1>5, <1>7, WritesOneSees

LEMMA ForConditionSees ==
    ASSUME IInv, NEW c \in Exprs \cup {NoExpr}, ForCondition(c)
    PROVE  NewSees(SourceScopes)
<1> DEFINE b == Top.bb
           exit == IF c = NoExpr THEN Br(b + 2) ELSE CondBr(b + 2, b + 4)
           s == <<Br(b + 1)>>
           t == Append(ExprCode(blocks, c), exit)
           fr == [frames EXCEPT ![Len(frames)] = [Top EXCEPT !.kind = "for", !.branched = TRUE]]
           h == Frame("loopbody", b + 2)
<1>1. status = "running" /\ Top.kind = "forinit" /\ ~Throws(blocks, c) /\ Opens(b + 2)
  BY DEF ForCondition, Running, Opens
<1>2. /\ blocks \in Seq(Scope) /\ frames \in Seq(FrameRec) /\ Len(frames) \in 1..Len(frames)
      /\ Top \in FrameRec /\ b + Ahead(Top.kind) <= nbb /\ nbb \in 0..MaxBB
  BY <1>1, TopFacts DEF IInv, TypeOK
<1>3. b + 1 \in BB /\ b + 2 \in BB /\ b + 4 \in BB
  <2>1. b \in BB /\ b + 4 <= nbb
    BY <1>1, <1>2 DEF FrameRec, Ahead
  <2> QED
    BY <1>2, <2>1, MaxBBAssumption DEF BB
<1>4. Writes(insertBB, s, b + 1, t) /\ frames' = Append(fr, h)
  BY DEF ForCondition, Writes
<1>5. Len(frames') = Len(frames) + 1
  <2>1. [Top EXCEPT !.kind = "for", !.branched = TRUE] \in FrameRec
    BY <1>2 DEF FrameRec, FrameKinds
  <2>2. fr \in Seq(FrameRec) /\ Len(fr) = Len(frames)
    BY <1>2, <2>1, ExceptSeq
  <2>3. h \in FrameRec
    BY <1>3, FrameType DEF FrameKinds
  <2> HIDE DEF fr, h
  <2> QED
    BY <1>4, <2>2, <2>3, Pushed
<1>6. SourceScopes = blocks
  BY <1>1, <1>2, <1>3, <1>5, OpenedScopes
<1>7. s \in Seq(Instr) /\ Sees(blocks, s)
  BY <1>3, InstrType, OtherSees
<1>8. t \in Seq(Instr) /\ Sees(blocks, t)
  <2>1. exit \in Instr /\ exit.op # "access"
    BY <1>3, InstrType, OtherOps
  <2> HIDE DEF exit
  <2> QED
    BY <1>1, <1>2, <2>1, ExprThenSees
<1>9. insertBB \in BB \cup {NoBB} /\ b + 1 \in BB \cup {NoBB}
  BY <1>3 DEF IInv, TypeOK
<1> HIDE DEF s, t, b
<1> QED
  BY <1>4, <1>6, <1>7, <1>8, <1>9, WritesSees

\* The increment is outside of the scope of the loop body.
LEMMA EndForSees ==
    ASSUME IInv, NEW c \in Exprs \cup {NoExpr}, EndFor(c)
    PROVE  NewSees(SourceScopes)
<1> DEFINE n == Len(frames)
           b == frames[n - 1].bb
           loop == PopBasicBlock(blocks)
           s == <<Br(b + 3)>>
           t == Append(ExprCode(loop, c), Br(b + 1))
<1>1. /\ Running /\ Top.kind = "loopbody" /\ ~Throws(loop, c)
      /\ Writes(insertBB, s, b + 3, t) /\ frames' = SubSeq(frames, 1, n - 2)
  BY DEF EndFor, Writes
<1>2. /\ frames \in Seq(FrameRec) /\ n \in Nat /\ n > 3 /\ frames[n - 1].kind = "for"
      /\ blocks \in Seq(Scope) /\ Len(blocks) = n
  BY <1>1, CloseFacts
<1>3. SourceScopes = loop
  <2>1. 2 \in 1..Len(frames)
    BY <1>2
  <2>2. Len(frames') = n - 2
    BY <1>1, <1>2, <2>1, Popped
  <2> QED
    BY <1>2, <2>2 DEF SourceScopes
<1>4. b + 1 \in BB /\ b + 3 \in BB
  <2>1. n - 1 \in 1..n
    BY <1>2
  <2>2. b \in BB
    <3>1. frames[n - 1] \in FrameRec
      BY <1>2, <2>1, ElementOfSeq
    <3> QED
      BY <3>1 DEF FrameRec
  <2>3. b + Ahead(frames[n - 1].kind) <= nbb /\ nbb \in 0..MaxBB
    BY <2>1 DEF IInv, HandlersNested, WellNested, TypeOK
  <2>4. b + 4 <= nbb /\ nbb \in 0..MaxBB
    BY <1>2, <2>3 DEF Ahead
  <2> HIDE DEF b
  <2> QED
    BY <2>2, <2>4, MaxBBAssumption DEF BB
<1>5. loop \in Seq(Scope)
  <2>1. 1 \in 1..Len(blocks)
    BY <1>2
  <2> QED
    BY <1>2, <2>1, Popped DEF PopBasicBlock
<1> HIDE DEF b, loop
<1>6. s \in Seq(Instr) /\ Sees(loop, s)
  <2>1. \A u : Sees(loop, <<Br(u)>>)
    BY OtherSees
  <2>2. <<Br(b + 3)>> \in Seq(Instr)
    BY <1>4, InstrType
  <2> QED
    BY <2>1, <2>2
<1>7. t \in Seq(Instr) /\ Sees(loop, t)
  BY <1>1, <1>4, <1>5, InstrType, OtherOps, ExprThenSees
<1>8. insertBB \in BB \cup {NoBB} /\ b + 3 \in BB \cup {NoBB}
  BY <1>4 DEF IInv, TypeOK
<1> HIDE DEF s, t
<1> QED
  BY <1>1, <1>3, <1>6, <1>7, <1>8, WritesSees

\* A variable is in scope from its declarator on: its initial value sees it.
LEMMA DefineVarSees ==
    ASSUME IInv, NEW v \in Vars, NEW init \in Exprs \cup {NoExpr}, NEW more \in BOOLEAN,
           DefineVar(v, init, more)
    PROVE  NewSees(SourceScopes)
<1> DEFINE p == NextPlace
           scope == AddLocalVar(blocks, p, v)
           t == Value(scope, init)
<1>1. /\ status = "running" /\ blocks' = scope /\ scope \in Seq(Scope) /\ ~Throws(scope, init)
      /\ p \in Ptr /\ t \in Seq(Instr) /\ GetCurrentBlock \in BB
      /\ instrs' = Emit(Emit(instrs, GetCurrentBlock, <<Alloca>>), insertBB, t)
  BY DefineVarFacts
<1>2. /\ blocks \in Seq(Scope) /\ blocks # <<>> /\ frames \in Seq(FrameRec) /\ frames # <<>>
      /\ Len(frames) \in Nat /\ Len(blocks) \in Nat
  <2>1. /\ blocks \in Seq(Scope) /\ Len(blocks) > 0 /\ frames \in Seq(FrameRec)
        /\ frames # <<>>
    BY <1>1, TopFacts
  <2> QED
    BY <2>1, NotEmpty
<1>3. Binds(blocks, scope, p, v) /\ ~IsVarInLocal(blocks, v)
  BY <1>1, <1>2, AddLocalVarAt DEF DefineVar
<1>4. SourceScopes = scope
  <2>1. frames' = IF inDef THEN frames ELSE Took(FALSE)
    BY DEF DefineVar
  <2>2. Len(Took(FALSE)) = Len(frames)
    BY <1>2, TookType
  <2>3. Len(frames') = Len(frames)
    BY <2>1, <2>2
  <2>4. Len(blocks') = Len(blocks)
    BY <1>1, <1>3 DEF Binds
  <2> QED
    BY <1>1, <1>2, <2>3, <2>4 DEF SourceScopes
<1>5. Means(scope, p)
  <2> DEFINE m == Len(blocks)
  <2>1. m \in 1..Len(scope) /\ Len(scope) = m /\ blocks[m] \in Scope
    BY <1>2, <1>3, ElementOfSeq DEF Binds
  <2>2. scope[m].vars[v] = p /\ p # NoPtr
    BY <1>1, <1>3, <2>1 DEF Binds, Scope, Ptr, NoPtr, BB
  <2>3. (m + 1)..Len(scope) = {}
    BY <1>2, <2>1
  <2> HIDE DEF scope, m
  <2> QED
    BY <2>1, <2>2, <2>3 DEF Means
<1>6. Sees(scope, t)
  <2>1. CASE init = NoExpr
    BY <2>1, OtherSees DEF Value
  <2>2. CASE init # NoExpr
    <3>1. Access(p) \in Instr /\ Access(p).ptr = p
      BY <1>1, InstrType DEF Access
    <3>2. t = Append(ExprCode(scope, init), Access(p))
      BY <2>2 DEF Value
    <3> HIDE DEF p, scope
    <3> QED
      BY <1>1, <1>5, <3>1, <3>2, ExprThenSees
  <2> QED
    BY <2>1, <2>2
<1>7. <<Alloca>> \in Seq(Instr) /\ Sees(scope, <<Alloca>>)
  BY InstrType, OtherSees
<1>8. /\ Writes(GetCurrentBlock, <<Alloca>>, insertBB, t)
      /\ GetCurrentBlock \in BB \cup {NoBB} /\ insertBB \in BB \cup {NoBB}
  BY <1>1 DEF Writes, IInv, TypeOK
<1> HIDE DEF t, scope, p
<1> QED
  BY <1>1, <1>4, <1>6, <1>7, <1>8, WritesSees

LEMMA UsesStep ==
    ASSUME IInv, [Next]_vars, status = "running", Top.kind # "params"
    PROVE  NewSees(SourceScopes)
<1>1. CASE \/ BeginProg \/ BeginBody \/ EmptyStmt \/ EndBlock \/ Abort \/ Ended \/ UNCHANGED vars
           \/ \E f \in FuncNames, void \in BOOLEAN : BeginFunc(f, void)
  <2>1. instrs' = instrs
    BY <1>1 DEF BeginProg, BeginBody, EmptyStmt, EndBlock, Abort, Ended, BeginFunc, code, vars
  <2> QED
    BY <2>1, NothingSees
<1>2. CASE EndProg
  BY <1>2, NothingSees
<1>3. CASE \/ EndFunc \/ BeginBlock \/ BeginFor \/ ThenElse \/ EndElse \/ EndThen
  BY <1>3, BranchesSee
<1>4. CASE (\E e \in Exprs : ExprStmt(e)) \/ \E e \in Exprs \cup {NoExpr} : Return(e)
  BY <1>4, StmtSees
<1>5. CASE \E e \in Exprs : BeginIf(e)
  BY <1>5, BeginIfSees
<1>6. CASE \E e \in Exprs \cup {NoExpr} : ForCondition(e)
  BY <1>6, ForConditionSees
<1>7. CASE \E e \in Exprs \cup {NoExpr} : EndFor(e)
  BY <1>7, EndForSees
<1>8. CASE \E v \in Vars, e \in Exprs \cup {NoExpr}, more \in BOOLEAN : DefineVar(v, e, more)
  BY <1>8, DefineVarSees
<1>9. ~(\E f \in FuncNames : CreatePrintFunc(f)) /\ ~(\E v \in Vars : AddParam(v))
  BY DEF CreatePrintFunc, AddParam
<1> QED
  BY <1>1, <1>2, <1>3, <1>4, <1>5, <1>6, <1>7, <1>8, <1>9 DEF Next, Step

\* Each access is to what a name means at that place in the source, for every
\* program (UsesInScope): increments after nested bodies, conditions, and initial
\* values that mention the variable itself included.
THEOREM UsesAreInScope == Spec => UsesInScope
<1>1. IInv /\ [Next]_vars =>
          (status = "running" /\ Top.kind # "params" =>
              \A b \in BB : \A i \in NewInstrs(b) : i.op = "access" => Means(SourceScopes, i.ptr))
  BY UsesStep DEF NewSees
<1> QED
  BY <1>1, Inductive, PTL DEF Spec, UsesInScope
=============================================================================
