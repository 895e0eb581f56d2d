------------------------------ MODULE CodeGen ------------------------------
(***************************************************************************)
(* The code generator (AST.cpp): one CodeGen() call per node of the syntax *)
(* tree, recursing into the children, emitting instructions at the         *)
(* insertion point of the global `Builder' and keeping the scope stack of  *)
(* CodeGenContext.                                                         *)
(*                                                                         *)
(* The recursion is the variable `frames': the CodeGen() calls that are    *)
(* active, outermost first.  An action is the part of a handler between    *)
(* two calls to a child.  The program that is compiled is not fixed: at    *)
(* each place where the tree has a child, the action that takes it chooses *)
(* which child it is, so the behaviours are the runs on all programs of at *)
(* most MaxStmts statements, definitions and parameters.                   *)
(***************************************************************************)
EXTENDS SymbolTable, FiniteSets

CONSTANTS FuncNames,    \* names a function can have
          Main,         \* "main"
          IOFuncs,      \* the printing functions every program starts with
          GlobalFunc,   \* "_AST_GLOBAL", no name of the compiled program
          NoFunc,       \* nullptr as an llvm::Function *
          Const,        \* a constant as an expression
          BadExpr,      \* an expression whose CodeGen throws whatever is in scope
          NoExpr,       \* an absent expression
          MaxStmts,     \* bound: statements, definitions and parameters of a program
          NestedReturn, \* programs may return inside a block, if or for
          LateDef,      \* programs may declare a variable after an if, for or block
          GlobalVars    \* programs may declare global variables

ASSUME FuncAssumption ==
    /\ Main \in FuncNames
    /\ IOFuncs \subseteq FuncNames \ {Main}
    /\ GlobalFunc \notin FuncNames \cup {NoFunc}
    /\ NoFunc \notin FuncNames

ASSUME ProgramAssumption ==
    /\ MaxStmts \in Nat
    /\ NestedReturn \in BOOLEAN /\ LateDef \in BOOLEAN /\ GlobalVars \in BOOLEAN

Exprs == {Const, BadExpr} \cup Vars \cup FuncNames

VARIABLES status,       \* "io", "running", then "generated" or "aborted"
          funcs,        \* the names module->getFunction finds
          currentFunc,  \* CodeGenContext::currentFunc
          mainFunc,     \* CodeGenContext::mainFunc, NoFunc while uninitialized
          retVoid,      \* whether currentFunc returns void
          nbb,          \* basic blocks created so far
          instrs,       \* the instructions of each basic block
          owner,        \* the function each basic block has been inserted into
          insertBB,     \* Builder.GetInsertBlock()
          blocks,       \* CodeGenContext::blocks
          frames,       \* the active CodeGen() calls
          inDef,        \* inside VarDef::CodeGen, with declarators left
          stmts         \* size of the program so far

func == <<funcs, currentFunc, mainFunc, retVoid>>
code == <<nbb, instrs, owner, insertBB>>
vars == <<status, func, code, blocks, frames, inDef, stmts>>

----------------------------------------------------------------------------
\* Instructions.  A terminator carries the blocks it can branch to.

Alloca      == [op |-> "alloca", ptr |-> NoPtr, to |-> {}]
Access(p)   == [op |-> "access", ptr |-> p, to |-> {}]
Call        == [op |-> "call", ptr |-> NoPtr, to |-> {}]
Br(t)       == [op |-> "term", ptr |-> NoPtr, to |-> {t}]
CondBr(t,e) == [op |-> "term", ptr |-> NoPtr, to |-> {t, e}]
Ret         == [op |-> "term", ptr |-> NoPtr, to |-> {}]

IsTerm(i) == i.op = "term"

\* BasicBlock::getTerminator: only the last instruction is looked at.
HasTerminator(s) == s # <<>> /\ IsTerm(s[Len(s)])

\* The code with the instructions s appended to block b; with no insertion
\* point the instructions belong to no block.
Emit(c, b, s) == IF b = NoBB THEN c ELSE [c EXCEPT ![b] = @ \o s]

\* An expression reads or writes a variable through its alloca or calls a
\* function; the arithmetic around it is left out.
ExprCode(bl, e) ==
    IF e \in Vars THEN <<Access(GetVar(bl, e))>>
    ELSE IF e \in FuncNames THEN <<Call>> ELSE <<>>

\* The std::logic_error an expression throws: unknown variable, unknown
\* function, or an operand that is no left-value or no boolean.
Throws(bl, e) ==
    \/ e = BadExpr
    \/ e \in Vars /\ ~IsVarDefined(bl, e)
    \/ e \in FuncNames /\ e \notin funcs

----------------------------------------------------------------------------
\* Frames.  A frame of kind "prog", "body" or "block" runs down a list of at
\* least one child, the others take exactly one; "for" waits for its loop body.
\* `begun' records that a child has been taken, `branched' that a child has
\* moved the insertion point to another block.

ListKinds  == {"prog", "body", "block"}
FrameKinds == ListKinds \cup {"params", "then", "else", "forinit", "for", "loopbody"}

Frame(kind, bb) == [kind |-> kind, bb |-> bb, begun |-> FALSE, branched |-> FALSE]

Top == frames[Len(frames)]

PopFrame == SubSeq(frames, 1, Len(frames) - 1)

\* Mutation: the one child of an if or a for is generated again and again.
TookAgain(moved) ==
    [frames EXCEPT ![Len(frames)] =
        [Top EXCEPT !.begun = Top.kind \in ListKinds, !.branched = @ \/ moved]]

\* The top frame has taken a child.
Took(moved) ==
    [frames EXCEPT ![Len(frames)] =
        [Top EXCEPT !.begun = TRUE, !.branched = @ \/ moved]]

Running == status = "running" /\ ~inDef

InStmts == Top.kind \in ListKinds \ {"prog"} \/ (Top.kind \notin {"prog", "params"} /\ ~Top.begun)

\* Mutation: a body goes on after its terminator.
StmtPositionUnguarded == Running /\ InStmts /\ stmts < MaxStmts

\* A statement may come next; FuncBody::CodeGen stops at a terminator.
StmtPosition ==
    /\ Running
    /\ InStmts
    /\ Top.kind = "body" => ~HasTerminator(instrs[insertBB])
    /\ stmts < MaxStmts

\* The grammar restricts the initialization of a for statement.
AnyStmt == StmtPosition /\ Top.kind # "forinit"

\* A return may come next.
ReturnPosition == AnyStmt /\ (NestedReturn \/ Top.kind = "body")

\* A definition of variables may come next.
VarDefPosition ==
    \/ StmtPosition /\ (LateDef \/ ~Top.branched)
    \/ Running /\ GlobalVars /\ Top.kind = "prog" /\ stmts < MaxStmts

\* Mutation: the outermost block of the stack (front instead of back).
GetCurrentBlockOutermost == blocks[1].bb

\* CodeGenContext::GetCurrentBlock
GetCurrentBlock == blocks[Len(blocks)].bb

\* Mutation: the insertion point moves to a block that is never inserted.
PlaceDetached(b) == insertBB' = b /\ UNCHANGED owner

\* InsertFuncBasicBlockList and Builder.SetInsertPoint
Place(b) ==
    /\ owner' = [owner EXCEPT ![b] = currentFunc]
    /\ insertBB' = b

Init ==
    /\ status = "io"
    /\ funcs = {}
    /\ currentFunc = NoFunc
    /\ mainFunc = NoFunc
    /\ retVoid = FALSE
    /\ nbb = 0
    /\ instrs = [b \in BB |-> <<>>]
    /\ owner = [b \in BB |-> NoFunc]
    /\ insertBB = NoBB
    /\ blocks = <<>>
    /\ frames = <<>>
    /\ inDef = FALSE
    /\ stmts = 0

----------------------------------------------------------------------------
\* CreateIOFunc: the body of a printing function is written without the
\* Builder; its block is pushed and popped again.
CreatePrintFunc(f) ==
    /\ status = "io"
    /\ f \in IOFuncs \ funcs
    /\ nbb < MaxBB
    /\ funcs' = funcs \cup {f}
    /\ nbb' = nbb + 1
    /\ instrs' = Emit(instrs, nbb + 1, <<Call, Ret>>)
    /\ owner' = [owner EXCEPT ![nbb + 1] = f]
    /\ blocks' = PopBasicBlock(PushBasicBlock(blocks, nbb + 1))
    /\ UNCHANGED <<status, currentFunc, mainFunc, retVoid, insertBB, frames, inDef, stmts>>

\* GenerateCode up to root->CodeGen: the temporary function for globals.
BeginProg ==
    /\ status = "io"
    /\ IOFuncs \subseteq funcs
    /\ nbb < MaxBB
    /\ status' = "running"
    /\ nbb' = nbb + 1
    /\ owner' = [owner EXCEPT ![nbb + 1] = GlobalFunc]
    /\ blocks' = PushBasicBlock(blocks, nbb + 1)
    /\ frames' = <<Frame("prog", nbb + 1)>>
    /\ UNCHANGED <<func, instrs, insertBB, inDef, stmts>>

\* Mutation: what is erased is the block that the Builder is at.
EndProgAtBuilder ==
    /\ Running
    /\ Top.kind = "prog" /\ Top.begun
    /\ status' = "generated"
    /\ instrs' = IF insertBB = NoBB THEN instrs ELSE [instrs EXCEPT ![insertBB] = <<>>]
    /\ owner' = [owner EXCEPT ![Top.bb] = NoFunc]
    /\ blocks' = PopBasicBlock(blocks)
    /\ frames' = PopFrame
    /\ UNCHANGED <<func, nbb, insertBB, inDef, stmts>>

\* GenerateCode after root->CodeGen: the temporary block and function go.
EndProg ==
    /\ Running
    /\ Top.kind = "prog" /\ Top.begun
    /\ status' = "generated"
    /\ instrs' = [instrs EXCEPT ![Top.bb] = <<>>]
    /\ owner' = [owner EXCEPT ![Top.bb] = NoFunc]
    /\ blocks' = PopBasicBlock(blocks)
    /\ frames' = PopFrame
    /\ UNCHANGED <<func, nbb, insertBB, inDef, stmts>>

\* FuncDef::CodeGen up to its parameters.
BeginFunc(f, void) ==
    /\ Running
    /\ Top.kind = "prog"
    /\ f \notin funcs
    /\ stmts < MaxStmts
    /\ nbb < MaxBB
    /\ funcs' = funcs \cup {f}
    /\ currentFunc' = f
    /\ retVoid' = void
    /\ nbb' = nbb + 1
    /\ owner' = [owner EXCEPT ![nbb + 1] = f]
    /\ insertBB' = nbb + 1
    /\ blocks' = PushBasicBlock(blocks, nbb + 1)
    /\ frames' = Append(Took(FALSE), Frame("params", nbb + 1))
    /\ stmts' = stmts + 1
    /\ UNCHANGED <<status, mainFunc, instrs, inDef>>

\* Param::CodeGen and the store of the argument.  A name that is taken
\* already keeps its first alloca: AddLocalVar's result is ignored.
AddParam(v) ==
    LET p == <<GetCurrentBlock, Len(instrs[GetCurrentBlock]) + 1>>
    IN  /\ Running
        /\ Top.kind = "params"
        /\ stmts < MaxStmts
        /\ instrs' = Emit(Emit(instrs, GetCurrentBlock, <<Alloca>>), insertBB, <<Access(p)>>)
        /\ blocks' = AddLocalVar(blocks, p, v)
        /\ stmts' = stmts + 1
        /\ UNCHANGED <<status, func, nbb, owner, insertBB, frames, inDef>>

\* The call of FuncBody::CodeGen, which opens no scope.
BeginBody ==
    /\ Running
    /\ Top.kind = "params"
    /\ frames' = [frames EXCEPT ![Len(frames)].kind = "body"]
    /\ UNCHANGED <<status, func, code, blocks, inDef, stmts>>

\* Mutation: no default return.
DefaultReturnMissing == instrs

\* The end of FuncBody::CodeGen: a function that has not returned returns.
DefaultReturn ==
    IF HasTerminator(instrs[insertBB]) THEN instrs ELSE Emit(instrs, insertBB, <<Ret>>)

\* Mutation: each function becomes the main function.
EndFuncEveryMain ==
    /\ Running
    /\ Top.kind = "body" /\ Top.begun
    /\ instrs' = DefaultReturn
    /\ mainFunc' = currentFunc
    /\ blocks' = PopBasicBlock(blocks)
    /\ currentFunc' = NoFunc
    /\ frames' = PopFrame
    /\ UNCHANGED <<status, funcs, retVoid, nbb, owner, insertBB, inDef, stmts>>

\* Mutation: the function is not left.
EndFuncStillIn ==
    /\ Running
    /\ Top.kind = "body" /\ Top.begun
    /\ instrs' = DefaultReturn
    /\ mainFunc' = IF currentFunc = Main THEN Main ELSE mainFunc
    /\ blocks' = PopBasicBlock(blocks)
    /\ frames' = PopFrame
    /\ UNCHANGED <<status, funcs, currentFunc, retVoid, nbb, owner, insertBB, inDef, stmts>>

\* The ends of FuncBody::CodeGen and of FuncDef::CodeGen.
EndFunc ==
    /\ Running
    /\ Top.kind = "body" /\ Top.begun
    /\ instrs' = DefaultReturn
    /\ mainFunc' = IF currentFunc = Main THEN Main ELSE mainFunc
    /\ blocks' = PopBasicBlock(blocks)
    /\ currentFunc' = NoFunc
    /\ frames' = PopFrame
    /\ UNCHANGED <<status, funcs, retVoid, nbb, owner, insertBB, inDef, stmts>>

----------------------------------------------------------------------------
\* EmptyStmt::CodeGen does nothing: one empty statement stands for many.
EmptyStmt ==
    /\ Running
    /\ InStmts /\ ~Top.begun
    /\ frames' = Took(FALSE)
    /\ UNCHANGED <<status, func, code, blocks, inDef, stmts>>

\* ExprStmt::CodeGen
ExprStmt(e) ==
    /\ StmtPosition
    /\ ~Throws(blocks, e)
    /\ instrs' = Emit(instrs, insertBB, ExprCode(blocks, e))
    /\ frames' = Took(FALSE)
    /\ stmts' = stmts + 1
    /\ UNCHANGED <<status, func, nbb, owner, insertBB, blocks, inDef>>

\* One round of the loop of VarDef::CodeGen.  The alloca goes to the end of
\* the basic block of the scope, the initialization to the insertion point;
\* the name is bound before the initial value is generated.  At top level
\* the parser takes only a definition that starts with a pointer.
DefineVar(v, init, more) ==
    LET home  == GetCurrentBlock
        p     == <<home, Len(instrs[home]) + 1>>
        scope == AddLocalVar(blocks, p, v)
        value == IF init = NoExpr THEN <<>> ELSE Append(ExprCode(scope, init), Access(p))
    IN  /\ status = "running"
        /\ inDef \/ VarDefPosition
        /\ Top.kind = "prog" /\ ~inDef => init = NoExpr
        /\ ~IsVarInLocal(blocks, v)
        /\ ~Throws(scope, init)
        /\ more => stmts + 1 < MaxStmts
        /\ blocks' = scope
        /\ instrs' = Emit(Emit(instrs, home, <<Alloca>>), insertBB, value)
        /\ frames' = IF inDef THEN frames ELSE Took(FALSE)
        /\ inDef' = more
        /\ stmts' = stmts + 1
        /\ UNCHANGED <<status, func, nbb, owner, insertBB>>

\* Block::CodeGen up to its statements.
BeginBlock ==
    LET b == nbb + 1
    IN  /\ AnyStmt
        /\ b <= MaxBB
        /\ nbb' = b
        /\ instrs' = Emit(instrs, insertBB, <<Br(b)>>)
        /\ Place(b)
        /\ blocks' = PushBasicBlock(blocks, b)
        /\ frames' = Append(Took(TRUE), Frame("block", b))
        /\ stmts' = stmts + 1
        /\ UNCHANGED <<status, func, inDef>>

\* The end of Block::CodeGen: the insertion point stays where it is.
EndBlock ==
    /\ Running
    /\ Top.kind = "block" /\ Top.begun
    /\ blocks' = PopBasicBlock(blocks)
    /\ frames' = PopFrame
    /\ UNCHANGED <<status, func, code, inDef, stmts>>

\* IfStmt::CodeGen up to the then branch: blocks b, b + 1 and b + 2 are then,
\* else and merge.
BeginIf(cond) ==
    LET b == nbb + 1
    IN  /\ AnyStmt
        /\ ~Throws(blocks, cond)
        /\ b + 2 <= MaxBB
        /\ nbb' = b + 2
        /\ instrs' = Emit(instrs, insertBB,
                          Append(ExprCode(blocks, cond), CondBr(b, b + 1)))
        /\ Place(b)
        /\ blocks' = PushBasicBlock(blocks, b)
        /\ frames' = Append(Took(TRUE), Frame("then", b))
        /\ stmts' = stmts + 1
        /\ UNCHANGED <<status, func, inDef>>

\* From the then branch to the else branch.
ThenElse ==
    LET b == Top.bb
    IN  /\ Running
        /\ Top.kind = "then" /\ Top.begun
        /\ instrs' = Emit(instrs, insertBB, <<Br(b + 2)>>)
        /\ Place(b + 1)
        /\ blocks' = PushBasicBlock(PopBasicBlock(blocks), b + 1)
        /\ frames' = Append(PopFrame, Frame("else", b + 1))
        /\ UNCHANGED <<status, func, nbb, inDef, stmts>>

\* Mutation: without an else branch, code goes on in the else block.
EndThenUnmerged ==
    LET b == Top.bb
    IN  /\ Running
        /\ Top.kind = "then" /\ Top.begun
        /\ instrs' = Emit(instrs, insertBB, <<Br(b + 2)>>)
        /\ Place(b + 1)
        /\ blocks' = PopBasicBlock(blocks)
        /\ frames' = PopFrame
        /\ UNCHANGED <<status, func, nbb, inDef, stmts>>

\* The end of IfStmt::CodeGen without an else branch: the else block is
\* placed and left in one go.
EndThen ==
    LET b == Top.bb
    IN  /\ Running
        /\ Top.kind = "then" /\ Top.begun
        /\ instrs' = Emit(Emit(instrs, insertBB, <<Br(b + 2)>>), b + 1, <<Br(b + 2)>>)
        /\ owner' = [owner EXCEPT ![b + 1] = currentFunc, ![b + 2] = currentFunc]
        /\ insertBB' = b + 2
        /\ blocks' = PopBasicBlock(blocks)
        /\ frames' = PopFrame
        /\ UNCHANGED <<status, func, nbb, inDef, stmts>>

\* The end of IfStmt::CodeGen with an else branch.
EndElse ==
    LET b == Top.bb
    IN  /\ Running
        /\ Top.kind = "else" /\ Top.begun
        /\ instrs' = Emit(instrs, insertBB, <<Br(b + 1)>>)
        /\ Place(b + 1)
        /\ blocks' = PopBasicBlock(blocks)
        /\ frames' = PopFrame
        /\ UNCHANGED <<status, func, nbb, inDef, stmts>>

\* ForStmt::CodeGen up to its initialization, which is never null: blocks b to
\* b + 4 are loop, condition, body, increment and end.
BeginFor ==
    LET b == nbb + 1
    IN  /\ AnyStmt
        /\ b + 4 <= MaxBB
        /\ nbb' = b + 4
        /\ instrs' = Emit(instrs, insertBB, <<Br(b)>>)
        /\ Place(b)
        /\ blocks' = PushBasicBlock(blocks, b)
        /\ frames' = Append(Took(TRUE), Frame("forinit", b))
        /\ stmts' = stmts + 1
        /\ UNCHANGED <<status, func, inDef>>

\* From the initialization to the loop body: the condition has a basic block
\* but no scope of its own.
ForCondition(cond) ==
    LET b    == Top.bb
        exit == IF cond = NoExpr THEN Br(b + 2) ELSE CondBr(b + 2, b + 4)
    IN  /\ Running
        /\ Top.kind = "forinit" /\ Top.begun
        /\ ~Throws(blocks, cond)
        /\ instrs' = Emit(Emit(instrs, insertBB, <<Br(b + 1)>>),
                          b + 1, Append(ExprCode(blocks, cond), exit))
        /\ owner' = [owner EXCEPT ![b + 1] = currentFunc, ![b + 2] = currentFunc]
        /\ insertBB' = b + 2
        /\ blocks' = PushBasicBlock(blocks, b + 2)
        /\ frames' = Append([frames EXCEPT ![Len(frames)] =
                                [Top EXCEPT !.kind = "for", !.branched = TRUE]],
                            Frame("loopbody", b + 2))
        /\ UNCHANGED <<status, func, nbb, inDef, stmts>>

\* Mutation: from the increment to the body, without the condition.
EndForToBody(incr) ==
    LET b    == frames[Len(frames) - 1].bb
        loop == PopBasicBlock(blocks)
    IN  /\ Running
        /\ Top.kind = "loopbody" /\ Top.begun
        /\ ~Throws(loop, incr)
        /\ instrs' = Emit(Emit(instrs, insertBB, <<Br(b + 3)>>),
                          b + 3, Append(ExprCode(loop, incr), Br(b + 2)))
        /\ owner' = [owner EXCEPT ![b + 3] = currentFunc, ![b + 4] = currentFunc]
        /\ insertBB' = b + 4
        /\ blocks' = PopBasicBlock(loop)
        /\ frames' = SubSeq(frames, 1, Len(frames) - 2)
        /\ UNCHANGED <<status, func, nbb, inDef, stmts>>

\* Mutation: the increment is generated before the scope of the body is left.
EndForInBody(incr) ==
    LET b == frames[Len(frames) - 1].bb
    IN  /\ Running
        /\ Top.kind = "loopbody" /\ Top.begun
        /\ ~Throws(blocks, incr)
        /\ instrs' = Emit(Emit(instrs, insertBB, <<Br(b + 3)>>),
                          b + 3, Append(ExprCode(blocks, incr), Br(b + 1)))
        /\ owner' = [owner EXCEPT ![b + 3] = currentFunc, ![b + 4] = currentFunc]
        /\ insertBB' = b + 4
        /\ blocks' = PopBasicBlock(PopBasicBlock(blocks))
        /\ frames' = SubSeq(frames, 1, Len(frames) - 2)
        /\ UNCHANGED <<status, func, nbb, inDef, stmts>>

\* The end of ForStmt::CodeGen: the increment sees the variables of the
\* initialization and not those of the loop body.
EndFor(incr) ==
    LET b    == frames[Len(frames) - 1].bb
        loop == PopBasicBlock(blocks)
    IN  /\ Running
        /\ Top.kind = "loopbody" /\ Top.begun
        /\ ~Throws(loop, incr)
        /\ instrs' = Emit(Emit(instrs, insertBB, <<Br(b + 3)>>),
                          b + 3, Append(ExprCode(loop, incr), Br(b + 1)))
        /\ owner' = [owner EXCEPT ![b + 3] = currentFunc, ![b + 4] = currentFunc]
        /\ insertBB' = b + 4
        /\ blocks' = PopBasicBlock(loop)
        /\ frames' = SubSeq(frames, 1, Len(frames) - 2)
        /\ UNCHANGED <<status, func, nbb, inDef, stmts>>

\* ReturnStmt::CodeGen: a value may be returned whatever the return type is.
Return(e) ==
    /\ ReturnPosition
    /\ e = NoExpr => retVoid
    /\ ~Throws(blocks, e)
    /\ instrs' = Emit(instrs, insertBB, Append(ExprCode(blocks, e), Ret))
    /\ frames' = Took(FALSE)
    /\ stmts' = stmts + 1
    /\ UNCHANGED <<status, func, nbb, owner, insertBB, blocks, inDef>>

\* A std::logic_error, which nothing catches, ends the compiler: a function
\* that exists, an expression that throws, a return without its value, a
\* definition of a taken name or with base type void.  A value stored while
\* there is no insertion point is undefined behaviour, which may end it too.
Abort ==
    /\ status = "running"
    /\ \/ Running /\ Top.kind = "prog" /\ stmts < MaxStmts /\ FuncNames \cap funcs # {}
       \/ StmtPosition /\ \E e \in Exprs : Throws(blocks, e)
       \/ ReturnPosition /\ ~retVoid
       \/ inDef \/ VarDefPosition
       \/ Running /\ Top.kind = "forinit" /\ Top.begun /\ \E e \in Exprs : Throws(blocks, e)
       \/ /\ Running /\ Top.kind = "loopbody" /\ Top.begun
          /\ \E e \in Exprs : Throws(PopBasicBlock(blocks), e)
    /\ status' = "aborted"
    /\ UNCHANGED <<func, code, blocks, frames, inDef, stmts>>

\* The compiler has written its result or has been terminated.
Ended == status \in {"generated", "aborted"} /\ UNCHANGED vars

Step ==
    \/ \E f \in FuncNames : CreatePrintFunc(f)
    \/ BeginProg
    \/ EndProg
    \/ \E f \in FuncNames, void \in BOOLEAN : BeginFunc(f, void)
    \/ \E v \in Vars : AddParam(v)
    \/ BeginBody
    \/ EndFunc
    \/ EmptyStmt
    \/ \E e \in Exprs : ExprStmt(e)
    \/ \E v \in Vars, e \in Exprs \cup {NoExpr}, more \in BOOLEAN : DefineVar(v, e, more)
    \/ BeginBlock
    \/ EndBlock
    \/ \E e \in Exprs : BeginIf(e)
    \/ ThenElse
    \/ EndThen
    \/ EndElse
    \/ BeginFor
    \/ \E e \in Exprs \cup {NoExpr} : ForCondition(e)
    \/ \E e \in Exprs \cup {NoExpr} : EndFor(e)
    \/ \E e \in Exprs \cup {NoExpr} : Return(e)
    \/ Abort

Next == Step \/ Ended

Spec == Init /\ [][Next]_vars

\* GenerateCode is one call on one thread and a tree is finite: it goes on.
FairSpec == Spec /\ WF_vars(Step)

----------------------------------------------------------------------------
Ptr   == BB \X (Nat \ {0})
Instr == [op : {"alloca", "access", "call", "term"}, ptr : Ptr \cup {NoPtr}, to : SUBSET BB]
Scope == [bb : BB, vars : [Vars -> Ptr \cup {NoPtr}]]
FrameRec == [kind : FrameKinds, bb : BB, begun : BOOLEAN, branched : BOOLEAN]

\* The types of the variables.
TypeOK ==
    /\ status \in {"io", "running", "generated", "aborted"}
    /\ funcs \subseteq FuncNames
    /\ currentFunc \in FuncNames \cup {NoFunc}
    /\ mainFunc \in {Main, NoFunc}
    /\ retVoid \in BOOLEAN
    /\ nbb \in 0..MaxBB
    /\ instrs \in [BB -> Seq(Instr)]
    /\ owner \in [BB -> FuncNames \cup {GlobalFunc, NoFunc}]
    /\ insertBB \in BB \cup {NoBB}
    /\ blocks \in Seq(Scope)
    /\ frames \in Seq(FrameRec)
    /\ inDef \in BOOLEAN
    /\ stmts \in 0..MaxStmts

\* Scopes are pushed and popped in step with the handlers that own them: on
\* every path, early stop of a body included, the scope stack is the stack
\* of the active handlers that opened a scope (PushBasicBlock/PopBasicBlock in
\* FuncDef, Block, IfStmt and ForStmt::CodeGen).
StackDiscipline ==
    /\ Len(frames) = Len(blocks)
    /\ \A i \in 1..Len(frames) : frames[i].bb = blocks[i].bb

\* While a function is being generated, the Builder and every open scope but
\* the global one are at basic blocks of that function (EnterFunc, LeaveFunc,
\* InsertFuncBasicBlockList, SetInsertPoint).
InCurrentFunc ==
    currentFunc # NoFunc =>
        /\ insertBB # NoBB /\ owner[insertBB] = currentFunc
        /\ Len(blocks) > 1
        /\ \A i \in 2..Len(blocks) : owner[blocks[i].bb] = currentFunc

\* How many of the blocks created after its own a handler has still to insert.
Ahead(kind) ==
    CASE kind \in {"forinit", "for"} -> 4
      [] kind \in {"then", "loopbody"} -> 2
      [] kind = "else" -> 1
      [] OTHER -> 0

\* Which handlers can call which, when `created' blocks have been created: a
\* program calls functions, a function calls its statements, the loop body is
\* called by a for statement that has gone past its initialization; a handler
\* has created the blocks it inserts later.
WellNested(fr, created) ==
    \A i \in 1..Len(fr) :
        /\ fr[i].kind = "prog" <=> i = 1
        /\ fr[i].kind \in {"params", "body"} <=> i = 2
        /\ fr[i].kind = "loopbody" => i > 1 /\ fr[i - 1].kind = "for"
        /\ fr[i].kind = "for" => i < Len(fr) /\ fr[i + 1].kind = "loopbody"
        /\ fr[i].bb + Ahead(fr[i].kind) <= created

\* The active handlers are well nested, and the function that is being
\* generated is that of the handler of a function.
HandlersNested ==
    /\ status \in {"io", "generated"} => frames = <<>>
    /\ status = "running" => frames # <<>>
    /\ inDef => stmts < MaxStmts
    /\ currentFunc # NoFunc <=> Len(frames) > 1
    /\ WellNested(frames, nbb)

Generated == status = "generated"

Owned == {b \in BB : owner[b] # NoFunc}

\* No block of a finished function runs off its end, whatever the order of
\* branches, loops and returns in the source (FuncBody's default return and
\* the CreateBr at the end of each branch).
NoFallThrough ==
    \A b \in Owned : owner[b] \notin {currentFunc, GlobalFunc} =>
        \E k \in 1..Len(instrs[b]) : IsTerm(instrs[b][k])

\* Every branch goes to a block that has been inserted into the function of
\* the branch, once the function is finished: no block that was created is
\* forgotten (BasicBlock::Create without a parent in Block, IfStmt, ForStmt).
TargetsPlaced ==
    \A b \in Owned : owner[b] # currentFunc =>
        \A k \in 1..Len(instrs[b]) : \A t \in instrs[b][k].to : owner[t] = owner[b]

\* The generated code has one terminator in each block, the last instruction:
\* what comes after a return in the body of a function is dropped (FuncBody).
WellFormed ==
    \A b \in Owned : \A k \in 1..Len(instrs[b]) :
        IsTerm(instrs[b][k]) => k = Len(instrs[b])

Accesses(b) == {k \in 1..Len(instrs[b]) : instrs[b][k].op = "access"}

\* Every variable that the result accesses exists: its alloca is in a block
\* that belongs to the result and is an alloca.
NoDanglingUse ==
    Generated => \A b \in Owned : \A k \in Accesses(b) :
        LET p == instrs[b][k].ptr
        IN  owner[p[1]] # NoFunc /\ p[2] <= Len(instrs[p[1]]) /\ instrs[p[1]][p[2]].op = "alloca"

\* A function accesses its own variables and global ones, never those of
\* another function: no scope survives the function it belongs to.
VariablesConfined ==
    \A b \in Owned : \A k \in Accesses(b) :
        LET p == instrs[b][k].ptr
        IN  p # NoPtr /\ owner[p[1]] \in {owner[b], GlobalFunc, NoFunc}

\* A finished function never changes again: the code of a function goes to its own
\* basic blocks, and that of a global definition to _AST_GLOBAL.  FuncDef::CodeGen
\* leaves the Builder at the end of the function, where VarDef::CodeGen goes on.
FinishedUnchanged ==
    [][\A b \in Owned : owner[b] \notin {currentFunc, GlobalFunc} => instrs'[b] = instrs[b]]_vars

\* The instructions of block b that a step adds.
NewInstrs(b) == {instrs'[b][k] : k \in (Len(instrs[b]) + 1)..Len(instrs'[b])}

\* A name means p in the innermost of the scopes bl: no scope further in hides it.
Means(bl, p) ==
    \E i \in 1..Len(bl), v \in Vars :
        /\ bl[i].vars[v] = p /\ p # NoPtr
        /\ \A j \in (i + 1)..Len(bl) : bl[j].vars[v] = NoPtr

\* The scopes around the code of a step in the source: what is left to do when a
\* child is finished is outside the scope of the child, a condition is outside the
\* scope it leads to, and a variable is in scope from its declarator on.
SourceScopes ==
    IF Len(frames') < Len(frames) THEN PopBasicBlock(blocks)
    ELSE IF Len(blocks') > Len(blocks) THEN blocks
    ELSE blocks'

\* Each variable that a step accesses is what a name means in the source at that
\* place: the increment of a loop sees the variables of its initialization and not
\* those of its body, and the initial value of a variable sees the variable itself
\* (ForStmt, VarDef).  Arguments are stored in parameters without a name too.
UsesInScope ==
    [][status = "running" /\ Top.kind # "params" =>
          \A b \in BB : \A i \in NewInstrs(b) : i.op = "access" => Means(SourceScopes, i.ptr)]_vars

Targets(b) == UNION {instrs[b][k].to : k \in 1..Len(instrs[b])}

Entry(b) == CHOOSE e \in Owned : owner[e] = owner[b] /\ \A o \in Owned : owner[o] = owner[b] => e <= o

\* d is on every path from the entry of the function to b: there is a set
\* that holds what can be reached around d, and b is not in it.
Dominates(d, b) ==
    \/ d = Entry(b)
    \/ \E around \in SUBSET {x \in Owned : owner[x] = owner[b] /\ x \notin {d, b}} :
          /\ Entry(b) \in around
          /\ \A x \in around : Targets(x) \ {d} \subseteq around

\* The alloca of each variable that is accessed is on every path to the
\* access through the branches and loops of the generated function (and is
\* executed there, as far as its block is WellFormed).
DefDominatesUse ==
    Generated => \A b \in Owned : \A k \in Accesses(b) :
        LET p == instrs[b][k].ptr
        IN  IF p[1] = b THEN p[2] < k ELSE Dominates(p[1], b)

\* Names mean what lexical scoping says: the scope stack with its search from
\* the innermost block implements LexicalScope.
Scopes == INSTANCE LexicalScope WITH
    Decls      <- Ptr,
    Undeclared <- NoPtr,
    env        <- [i \in 1..Len(blocks) |-> [v \in Vars |-> GetVar(SubSeq(blocks, 1, i), v)]],
    local      <- [i \in 1..Len(blocks) |-> {v \in Vars : blocks[i].vars[v] # NoPtr}]

LexicalScoping == Scopes!Spec

\* The compiler gets to the end of every program: each list of children is
\* walked to its end and each handler that was entered is left.
Finishes == <>(status \in {"generated", "aborted"})
=============================================================================
