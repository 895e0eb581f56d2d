# CP_Project in TLA+

CP_Project compiles a small C-like language: flex and bison make an abstract
syntax tree, `AST.cpp` turns the tree into LLVM IR, and the driver writes the IR
and an object file and runs `main` in LLVM's execution engine. This directory
models what the project itself decides: how declarations and expressions are parsed,
the code that is generated for them, what that code does, and the driver around it.
The library parts (flex, bison, LLVM) appear only as far as the code relies on them.

## Inventory

| Component | Where | State | Operations | What makes it correct |
|---|---|---|---|---|
| Driver | `src/compiler.cpp` | none of its own | `main`: redirect stdin, parse, create the IO functions, generate, dump, write the object file, execute | phases in order, each only after the one before worked; a `main` to run |
| Lexer | `lexer.l` | flex's buffer | one token per call | every literal keeps its value |
| Parser | `parser.y` | `Root`, `CurrentBaseType`, `CurrentVarName` | reductions that build nodes | the tree is the one the language's reader means: precedence, dangling else, declarators |
| Declarators | `VarInit`, `ReverseComplexType`, `GetLLVMType` | the `_fatherType` and element links of type nodes | reversal of the links, construction of the LLVM type | the C reading of the declarator |
| Scope stack | `CodeGenContext` | `blocks`: basic block and `localVars` of each scope | `PushBasicBlock`, `PopBasicBlock`, `AddLocalVar`, `GetVar`, `IsVarDefined` | lexical scoping; pushes and pops in pairs |
| Statements and functions | `Prog` ... `ReturnStmt::CodeGen` | `Builder`'s insertion point, `currentFunc`, `mainFunc`, the module | one `CodeGen()` per node, recursive | one terminator at the end of each block, branches to blocks of the same function, definitions before uses |
| Expressions and types | `FuncCall` ... `Variable::CodeGen`, `type.hpp` | none | values in order, errors for unknown names and for what is no left-value | operand order, operand types |
| IO functions | `io.cpp` | the module | five printing functions around `printf` | complete before the program is generated |
| Object file and execution | `GenerateObject`, `ExecuteCode` | the module, `mainFunc` | LLVM calls | `mainFunc` is set |

Everything runs on one thread. The components interact by calls only: the parser
builds the tree, `GenerateCode` walks it, and each `CodeGen()` calls those of its
children. They share three records of *where code goes*, which different
calls change: the scope stack (`GetCurrentBlock`), the insertion point of the
global `Builder`, and `currentFunc`. What is hard to test in this code is that the
three agree on every path through nested statements, early stops and missing
children; most of the entries of "hazards" in `PROJECT.json` come from that.

The other state that different calls share is in the parser: the two globals
`CurrentBaseType` and `CurrentVarName`, which one reduction sets and the constructor of
a later one reads, and the links between type nodes, which are walked while
they are being turned round. The driver shares the two files it writes with the
invocations before and after it.

## Modules

| Module | What it models | Source |
|---|---|---|
| `SymbolTable` | the operators on the scope stack, one for each method of `CodeGenContext` that reads or changes it; a variable is bound to its alloca, named by its place <<basic block, index>> | `codegen.h`, `AST.cpp` |
| `CodeGen` | the state machine of code generation (extends `SymbolTable`) | `AST.cpp`, `io.cpp` |
| `LexicalScope` | the abstract specification of names, which `CodeGen` implements (`LexicalScoping`, by the refinement mapping `Scopes`) | |
| `ControlFlow` | `CodeGen` with a history of the control flow that the source means (`FlowSpec`) | |
| `Declarators` | definitions of variables, from tokens to types: the parser's stack, its globals, the type nodes and `ReverseComplexType` | `parser.y`, `AST.h`, `AST.cpp` |
| `ExprParser` | the shift-reduce parser of `Expr`, and the grammar's trees of a text (`Trees`), to compare with | `parser.y` |
| `Expressions` | an expression from its text to its value: `ExprParser`, then `CodeGen()` of the nodes, then the execution of the instructions (extends `ExprParser`) | `AST.cpp`, `type.hpp` |
| `Compiler` | `main()` phase by phase, several invocations, the files on disk | `compiler.cpp`, `AST.cpp` |
| `CodeGenProofs`, `BlockProofs`, `ScopeProofs`, `DominanceProofs` | theorems about `CodeGen`: the stacks, the basic blocks, the variables with the refinement of `LexicalScope`, dominance; each extends the one before | |
| `FlowProofs` | theorems about `ControlFlow`, on top of `BlockProofs` | |
| `DeclaratorProofs`, `ExprParserProofs`, `CompilerProofs` | theorems about `Declarators`, `ExprParser` and `Compiler` | |
| `MCCodeGen`, `MCControlFlow`, `MCDeclarators`, `MCExpressions` | model values for TLC; `Compiler` needs none | |

### How CodeGen corresponds to the code

The C++ recursion is the variable `frames`, the stack of active `CodeGen()` calls;
an action is the part of a handler between two calls to a child. The compiled
program is not a constant: where the tree has a child, the action that takes it
chooses the child. So the behaviours are the compilations of *all* programs of at
most `MaxStmts` statements, definitions and parameters.

| Variable | Code |
|---|---|
| `blocks` | `CodeGenContext::blocks` |
| `currentFunc`, `mainFunc` | the fields of those names; `mainFunc` has no initializer, `NoFunc` stands for that |
| `retVoid` | whether the current function's return type is `void` |
| `funcs` | the names `module->getFunction` finds |
| `insertBB` | `Builder.GetInsertBlock()` |
| `instrs`, `owner`, `nbb` | the instructions of each basic block, the function it is inserted in, how many exist |
| `inDef` | inside the loop of `VarDef::CodeGen`, with declarators left |
| `status` | creating the IO functions, walking the tree, finished, or ended by an exception |

| Action | Code |
|---|---|
| `CreatePrintFunc` | one `CreatePrint...Func` of `io.cpp` |
| `BeginProg`, `EndProg` | `GenerateCode` before and after `root->CodeGen` |
| `BeginFunc`, `AddParam`, `BeginBody`, `EndFunc` | `FuncDef::CodeGen` with `Param::CodeGen` and `FuncBody::CodeGen` |
| `EmptyStmt`, `ExprStmt`, `DefineVar`, `Return` | the handlers of those statements; `DefineVar` is one round of the loop of `VarDef::CodeGen` |
| `BeginBlock`, `EndBlock` | `Block::CodeGen` |
| `BeginIf`, `ThenElse`, `EndThen`, `EndElse` | `IfStmt::CodeGen` |
| `BeginFor`, `ForCondition`, `EndFor` | `ForStmt::CodeGen` |
| `Abort` | any `std::logic_error`; nothing catches it |

Abstractions, all on the side of data:

- An instruction is an alloca, an access to a variable, a call or a terminator with
  the blocks it can branch to. `HasTerminator` is LLVM's: the last instruction only.
- An expression is a constant, one variable, one call, or one that throws for a
  reason other than scope (`BadExpr`: a left-value or a boolean that is none). Types are
  left out. `SetCurrentReturnValue` is left out: nothing reads the field.
- The names a program can use do not include `_AST_GLOBAL`.
- The block created by `new BasicBlock` for a loop is always used: the grammar
  never makes a for statement without initialization, so the `delete` at
  `AST.cpp:565` is unreachable.
- A store at a null insertion point (the initial value of a global variable before the
  first function) is undefined behaviour: either nothing is stored or the
  compiler dies (`Emit` with `NoBB`, and `Abort`).
- `DefineVar` allows, at the top level, only what the generated parser accepts: a
  definition that starts with a pointer declarator, after which ordinary ones may follow.

### How Declarators corresponds to the code

`stack`, `next` and `read` are bison's stack above `VarDefBaseType`, its lookahead token and how far
the text has been read. `CurrentBaseType` and `CurrentVarName` are the globals of
`parser.y`; `specifier` is the `TypeSpecifier` that bison keeps as a semantic value.
`nodes` are the `ArrType` and `PtrType` nodes with `_fatherType` (`father`) and the element link
(`elem`); `curNode` and `fatherNode` the local variables of `ReverseComplexType`; `inits` the
`VarInit` nodes, each with the text it was read from and the specifier of its
definition, which only the properties use.

Each reduction of `VarInit`, `ComplexVar` and `IdentifierUse` is an action, each round of the
loop of `ReverseComplexType` is one (`ReverseStep`), and `Shift` takes a token the
grammar allows. The text is not a constant: the token that is read next is any token.
A declarator `[ size ]` counts as one token, an initial value `= Expr` too (`Expr` is the
matter of `ExprParser`), and the value of a size is a name.

### How Expressions corresponds to the code

`phase` goes through parsing (`ExprParser`: `stack`, `next`, `text`), generation (`code`, `result`)
and execution (`pc`, `regs`, `mem`, `out`). `Reducible` and `ReducesFirst` are bison's resolution of the
conflict between reducing `Expr op Expr` and shifting an operator: by precedence if both
have one, by shifting if one has none. Only `ADD`, `SUB`, `MUL` and `DIV` of the operators have one; the relational
operators and `ASSIGN` are in no `%left` or `%right`. `f (` is one token.
`ParserSpec` is the parser on its own. Its step `Used` stands for what comes after it: generation and execution
leave `stack`, `next` and `text` alone.

`CodeGen(tree, code)` is one operator for the `CodeGen()` of all expression nodes: the
children from left to right, then one instruction (`AssignExpr` gets the address from
`CodeGenPtr`, which throws for all but a variable, stores, and loads again).
`Generate` is what `ExprStmt`, or `IfStmt` and `ForStmt` with `CastToBool`, do with it. `Execute` is external:
LLVM's instructions as the code relies on them.

- A value is the signed number of its bits, as signed instructions read it; `true` is -1.
  Widths are constants (`Bits`) and small in the run. Overflow wraps around (`Wrap`).
- The code converts nothing, and nothing checks the types of operands. An instruction whose operands
  do not fit is a state of its own, `"undefined"`: LLVM asserts, or the code has no meaning.
- `double` stands for every value that is no integer, string constants included. Its value is left out.
- `CodeGen` refuses unknown variables and functions, so all names here are declared.

### How Compiler corresponds to the code

`phase` is where `main()` is; each phase is an action with the failures the code has there.
`argument` is `argv[1]`: absent, a file that cannot be opened, or a regular file, which is read to its end. `stdin` is the program, of which only
four things matter: whether it parses, whether generation throws, whether the IR is
well-formed, whether it has a `main`. Which programs those are is what the other
modules say. `ir` and `object` are `./test/llvm.ll` and `./test/object.o`, each with the number of the
invocation that wrote it; opening a file empties it (`Part`).

- `Killed` ends the process in any phase, and the next invocation finds the files as they are.
- `OpenIR`: `DumpLLVMIR` ignores the error code it asked for. That the compiler does not go
  on all the same rests on `raw_fd_ostream`, whose destructor ends the process for an error
  nobody cleared.
- `Parse` without an argument reads the stdin that the process was started with, and may wait for ever (`AwaitsInput`).
  That what the compiler prints is read by somebody is assumed.
- `WriteObject` ends in three ways: the object file is written; the process ends, as the passes die of an ill-formed
  module or a write fails; or nothing is written and the compiler goes on. The last is a target that cannot emit
  object code, which `GenerateObject` would know from the result of `addPassesToEmitFile`, but does not look at.
- `Execute` may die of an ill-formed module, for the module is never verified.
- Invocations follow one another; two at the same time are not modelled.

### How ControlFlow corresponds to the code

`flow`, `last` and `outer` record, beside `CodeGen`'s actions, which access, call, condition or return may come
right after which by the *structure of the source*: what an if or a for does is written
there without a block or a branch. To these events `heads` adds the entry of each function and the place each loop
comes back to, so that a loop without any event is seen too; heads and events are the *points*.
`FlowAsWritten` compares this with the generated blocks. `NextInCode` is where control stops first behind a
point: at the next event of the block, at a head, or at the end of a block without a terminator; an unconditional branch
is no event, so control goes through any number of blocks that are silent (`Through`, the blocks that it gets to
in at most `MaxBB` steps, of which there are no more).
A terminator keeps the *set* of blocks it can branch to, so that the property does not tell the true
branch of a condition from the false one; a condition that is a constant is still a branch on a value.

### Mutations

The names ending in `Forgotten`, `Merging`, `Outermost`, `Missing`, `Flat`, `Crossed`, `Again` and the like are
mutations: deliberate bugs next to the definition they change. No specification
uses them; putting one in the place of its original breaks the property that
`PROJECT.json` pairs it with.

## Properties and runs

`CodeGenAnyProgram.cfg` admits every feature and checks what the code guarantees for
all programs:

- `TypeOK`: types.
- `StackDiscipline`: scopes are pushed and popped in step with the handlers.
- `InCurrentFunc`: insertion point, open scopes and `currentFunc` agree.
- `HandlersNested`: handlers call each other as the grammar allows and have
  created the blocks they still have to insert.
- `NoFallThrough`: no block of a finished function runs off its end.
- `TargetsPlaced`: no branch of a finished function leads to a block that was never
  inserted, or to another function.
- `VariablesConfined`: no function accesses a variable of another.
- `LexicalScoping`: the stack with its search from the innermost block implements
  lexical scoping, and each declaration gets storage that no name in scope has. This is about the scopes alone:
  it does not see the instructions.
- `UsesInScope`: each variable that a step accesses is what a name means *at that place of the source* (`SourceScopes`).
  It is about the order in which handlers look up, declare and pop: the increment of a loop, generated while the body
  is being left, sees none of the body's variables; an initial value sees the variable it belongs to.
- `Finishes`: the compiler ends.

`CodeGenDisciplined.cfg` restricts programs to returns at the level of the function
body, definitions ahead of nested statements, and no global variables. For these:

- `WellFormed`: one terminator per block, at its end;
- `NoDanglingUse`: every access is to an alloca that is in the result;
- `DefDominatesUse`: the alloca is on every path to the access, so that, with `WellFormed`, it is executed before it;
- `FlowAsWritten`: after each access, call and condition comes, through whatever blocks, exactly what the
  source has next;
- `FinishedUnchanged`: the code of a function that is finished never changes, though the Builder is still in it.

Each of the three restrictions is needed, and each of the other runs lifts one:

- `CodeGenNestedReturn.cfg`: `if (c) return;` leaves `ret` followed by `br` in the block of the branch, and so does
  `{ return; { } }` in the outer block. (`{ return; }` in a body does not: the block adds nothing behind it, and
  `FuncBody` stops there.)
- `CodeGenLateDef.cfg`: `{ ; } int x;` leaves the alloca of `x` behind the branch to
  the inner block.
- `CodeGenGlobalVars.cfg`: `int *p;` and a function that uses `p` leaves a use of an
  erased alloca.
- `CodeGenGlobalInit.cfg`: `int *p, x = 1;` behind a function stores the 1 behind that function's return
  (`FinishedUnchanged` is violated).

Two parameters of one name leave the second argument in an alloca that no name reaches, for `Param::CodeGen` does not look
at what `AddLocalVar` did: `AddParam` does the same, and `UsesInScope` leaves out the stores of arguments for it.

`Declarators.cfg`, all texts of at most eight tokens:

- `TypeOK`: types.
- `TypesReadAsC`: each variable has the type C reads in its declarator (`Reading`, from the name outwards),
  down to the base type of its own definition: parser, reversal and `CurrentBaseType` together.
- `NamesAsWritten`: each variable has the name in its own declarator, though it goes through a global.
- `ReversalSplits`: in every round of `ReverseComplexType` each node of the declarator is on exactly one
  side: reached from `curNode` by element links or from `fatherNode` by father links.
- `TypesApart`: no type node belongs to two declarators, so that reversing one never
  turns round another.
- `Ends`: parsing ends; the reversal in particular never walks in a circle.

`Expressions.cfg`, all expressions of at most seven tokens over an `int` variable, an `int` and a `double`
constant, a function and all operators:

- `TypeOK`: types, and every value in the range of its width.
- `TreeAsDeclared`: the tree of an accepted text is one that the grammar has for that text (`Trees`), of the shape
  the precedence declarations give it.
- `ReadsAsC`: the tree is C's, for every text in which no operator without a declared precedence stands after
  another operator of the same argument (an `=` after a variable excepted). The condition says what the missing
  declarations cost: `a + b < c` is read as `a + (b < c)`.
- `ComputesAsC`: an expression that is read as in C and needs no conversion gives C's value, leaves C's
  memory, makes C's calls in C's order and takes C's branch, whenever that is defined.

`ExpressionsUnsigned.cfg`: `true < false` holds (`BooleansUnsigned` is violated), as one bit is compared signed.
`ExpressionsCondition.cfg`: a `char` as a condition is compared with a zero of 32 bits
(`ConditionBecomesBool` is violated).

`Compiler.cfg`, three invocations:

- `TypeOK`: types.
- `FilesOfExecuted`: when a program runs, neither file is of another program: the IR is whole and its own, the object
  file its own or what is left of an attempt to write it. More does not hold: for a target that cannot emit object code the
  compiler says that the file has been generated, and runs the program beside an empty one.
- `ObjectNotNewer`: no failure leaves an object file newer than the IR.
- `FilesOnlyOfGenerated`: a file changes only in an invocation whose program was parsed and generated.
- `Progresses`: an invocation ends or comes to run its program, unless it waits for an inherited stdin.

`CompilerNoMain.cfg`: without a function `main`, `ExecuteCode` runs a pointer nothing was assigned to
(`RunsMain` is violated).

### Bounds

- `CodeGen`: `MaxStmts` is 4 with `MaxBB` 9, and 5 with 11 in `CodeGenDisciplined.cfg`, with one variable name and up
  to three function names (`print`, `main`, `f`). One name is enough for shadowing, which is about one
  name at several depths; four statements hold a function with a parameter, a nested statement, a
  definition in it and a use after it, or two functions of which one uses what the
  other declared; five hold a definition, a loop and a nested if with a use, or an if with both
  branches in a loop with an increment. Nine blocks hold the global block, the printing function, a function and a
  for statement, or two ifs nested in it; eleven hold a for and an if in either order. A statement whose blocks do not
  fit is not taken, so every behaviour is a real compilation.
- `Declarators`: `MaxTokens` is 8, with two names, two sizes and two base types. Eight tokens hold a pointer and
  an array with two pairs of parentheses between them, four constructors without any, two declarators of one
  definition, or a definition behind another one.
- `Expressions`: `MaxTokens` is 7, the end included: three operators in a row (every pair of
  conflicts, with an operand on each side), or a call with two arguments of which one is an expression. Three bits
  for `char` and four for `int` make products overflow.
- `Compiler`: `MaxRuns` is 3: one invocation to leave files, one to fail over them, one to come after. The theorems
  need no bound.

No cfg turns deadlock checking off: what ends stays in `Ended`.

### Fairness

`CodeGen`'s `FairSpec` assumes only weak fairness of the whole step: one thread runs
the recursion, and it goes on as long as something is left to do. That some child is
chosen rather than another is not assumed; the size of the program is finite because
a syntax tree is. `Declarators` assumes the same of `Step`, for `yyparse` and the constructors
it calls are one thread too. `Compiler` assumes weak fairness of `Phases`, all that `main()` does up to the call
of the compiled program, except while it parses an inherited stdin (`AwaitsInput`), which need not deliver anything;
nor is it assumed that the program returns or that anyone calls the compiler again.

## Proofs

The proofs hold for every set of names, every bound and every choice of the features; the only assumptions about
constants are those named in `CodeGen` and `SymbolTable` (`FuncAssumption`, `ProgramAssumption`, `MaxBBAssumption`),
`Declarators` and `Compiler`, which say what the constants are. Five theorems have a hypothesis
about the programs. For `WellFormed`, `NoDanglingUse` and `FinishedUnchanged` the runs that end in a violation show that it is needed; for `DefDominatesUse`
it is needed because the alloca of a global variable is in no block of the function that accesses it, and for
`FlowAsWritten` because the value of a global variable is stored where the Builder happens to be: nowhere before the first
function, and else behind the return of the function before, where no source has it. `ControlFlow` is about the
statements of functions and records nothing meaningful for a global definition.

| Module | Theorems | For |
|---|---|---|
| `CodeGenProofs` | `TypeOK`, `StackDiscipline`, `InCurrentFunc`, `HandlersNested` | all programs |
| `BlockProofs` | `NoFallThrough`, `TargetsPlaced`, `OnlyCreated` | all programs |
| | `WellFormed` | programs with none of the three features (`Disciplined`); `CodeGenNestedReturn` and `CodeGenLateDef` show what goes wrong with others |
| `ScopeProofs` | `VariablesConfined` | all programs |
| | `LexicalScoping`, `UsesInScope` | all programs |
| | `NoDanglingUse` | programs without global variables; `CodeGenGlobalVars` shows why |
| | `FinishedUnchanged` | programs without global variables; `CodeGenGlobalInit` shows why |
| `DominanceProofs` | `DefDominatesUse` | programs without global variables, wherever they return and declare |
| `FlowProofs` | `FlowAsWritten` | programs without global variables, wherever they return and declare |
| `DeclaratorProofs` | `TypeOK`, `NamesAsWritten`, `TypesApart`, `TypesReadAsC`, `ReversalSplits` | all texts |
| `ExprParserProofs` | `TreeAsDeclared`, `ReadsAsC` | all texts |
| `CompilerProofs` | `TypeOK`, `FilesOfExecuted`, `ObjectNotNewer`, `FilesOnlyOfGenerated` | any number of invocations, with and without an object file |

`CodeGenProofs`. The inductive invariant `IInv` is the conjunction of the four, for none is inductive
alone. `StackDiscipline` says that the top scope belongs to the handler that is about
to end, but that the handler may end at all, leaving at least the function's scope, needs
to know which handler is below it: this is `WellNested`, the core of
`HandlersNested`. It also says how many blocks a handler has created ahead
(`Ahead`), without which `ThenElse` or `EndFor` might insert a block that does not
exist (`TypeOK`). `InCurrentFunc` needs that only functions are below the statements.
The proof has a lemma for each action, or for actions that are alike; `Opened`,
`StmtOpened` and `Closed`, `StmtClosed` are what all pushes and pops share.

`BlockProofs`. Both properties speak of finished functions, and are silent while a function is generated; `BInv`
says what holds in between. `ToInsert` is what one handler has created and not yet inserted, and the whole
argument is bookkeeping on it: what waits exists and is in no function, and no two handlers wait for the same block
(`PendingBlocks`); a branch of the current function goes to a block of the function or to one that waits
(`Targeted`); when the function ends only its own handler is left, so nothing waits any more. `LoopHeads` is there for the
branch back from the increment, whose target is no longer waiting. `Terminated` excepts the
one block where the Builder is, and `DefaultReturn` closes that one. `FreshBlocks` keeps a block without a
function empty, so that nothing was emitted before it was inserted; `GlobalBlock` and `BuilderPlaced` keep the
block of `_AST_GLOBAL`, which is erased in the end, out of reach of the Builder and of branches.
`OnlyCreated` falls out of the same invariant: `TypeOK` bounds the blocks by `MaxBB` only, and that those which are
written to, owned or branched to have been created is `FreshBlocks`, `Targeted` and `PendingBlocks`.

The second half of `BlockProofs` is about `WellFormed`. Instructions go to open blocks only (`WInv`). There are two places where instructions go, and each needs a
reason: the Builder's block has a terminator only in a body that has returned (`BuilderOpen`), where `FuncBody` stops; and the
alloca, which goes to the block of the scope, is emitted only while this is the Builder's block (`BuilderAtScope`,
`DefsEarly`). `CallersBranched` carries the second from a handler to its caller.

`ScopeProofs`. Every name that a scope binds is an alloca in the scope's own basic block (`Bound`), so by `StackDiscipline` and
`InCurrentFunc` it belongs to the current function or to the program. `Accessed` keeps that of all instructions
generated so far, also after the function is left. `NoGlobals` says that without the feature the outermost scope stays empty.

`DominanceProofs`. That a block dominates another is a statement about all paths, which no step sees. The invariant `DInv` says
instead that for each block `d` there is a set of blocks, its region, that no branch enters but at `d` (`Region`). While the scope
with block `d` is open, the Builder and all that the handlers called in that scope have still to insert are in the region
(`HoldsOpen`); nothing else that is still to come is (`HoldsOnly`); what accesses a variable of `d` is (`HoldsUses`). A `for`
statement is why `Future` is more than `ToInsert` and why `Encloses` has a special case: its condition is branched to again from the
increment, and the scope of its initialization holds the whole loop. The scope stack finds a variable
only while its scope is open (`Bound`), so an access goes to the region; in `d` itself `Ordered` gives the order. The
region of a scope that opens is its block, with all that a `for` statement will still insert when it is one; later
it grows with each block that a handler creates ahead inside the scope.
In the finished function everything outside the region is what `Dominates` asks for. Blocks, not instructions, are what paths go through: that no
alloca is behind the end of its block is `WellFormed`, for disciplined programs.

`FlowProofs`. A finished program is compared point by point; the invariant `FInv` says what holds of a program in the making (`Fits`):
behind a point the code leads to the points that `flow` has for it, and to the *ends* of blocks that are still open. The ends are those of
the Builder's block, for the points in `last`, and of the blocks that handlers have still to insert, for the points
they have recorded (`Pending`, from `outer` and `frames`): the condition of an if for its else block, the end of its first
branch for the block behind it, the condition of a for for the block where the loop is left. All of them are in `Wait`, and a
finished program has none.
An instruction is always added at such an end. The proof rests on what this does to `NextInCode` of *all* points at once
(`AppendNext`): the end is replaced by one thing, which is itself moved by one, the place of a new event, or the end of the
empty block that a branch goes to, or a head. That is a statement about paths of any length, and needs `Through` to be the
least set of blocks closed under branches (`ThroughLeast`): a step that reaches nothing new has reached all, and `MaxBB` steps are
enough for `MaxBB` blocks (`WithinSpreads`, by cardinality). From `AppendNext` come one lemma for each thing that an instruction
can be (`FitsEvent`, `FitsBranch`, `FitsLoop`, `FitsLeave`, `FitsHead`), then the same for all that a statement adds to a block (`Flows`,
against `Along` and `After` of the history), and a lemma for each action. That a block that waits
is still empty and nobody's, so that control can be led to its end, is `BInv`; that nothing pending
waits at the Builder's block, so that a new event is not taken for something another handler has to insert, is `PendAway`.

The second half of `ScopeProofs` shows the refinement step by step. The mapping computes an environment for each scope
from the whole stack below it, with `GetVar`; the lemmas say what a push, a pop, a replacement and an
`AddLocalVar` do to these environments, and that this is a step of `LexicalScope`. That a declaration makes a *new* meaning
rests on `Bound`: the next alloca of the block is behind all those the scopes know (`NextPlaceNew`).

The third part of `ScopeProofs` is about single steps. `FinishedUnchanged`: a step writes to the Builder's block, to the block of the
top scope, or to one that a handler inserts; the first two are the current function's by `InCurrentFunc`, the third is in no
function (`WaitingWritable`), and without global variables no definition is outside of a function (`InFuncWritable`).
`UsesInScope`: each access that a step adds comes from a search in the scopes that the step has at hand; there is a
lemma for each kind of step which says that these are the scopes around that place of the source, or that the
search finds the same in them. `EndFor` is the case with a difference: it looks up after one pop and before the other.

`DeclaratorProofs`. `Shape` is what bison's stack can look like: openers, then at most one operand, then at most one closing
token. With `Named` it says that the operand stands for the one name in the text of the declarator, which is all that
`NamesAsWritten` needs, for the global `CurrentVarName` is always read before the next name is. For the types, `Chained` says that the
nodes of a declarator are numbered without a gap, each the father of the next; `Reversing` that the reversal
goes down that row and has linked what is behind it; and `Apart` that the types that are complete, and the declarator
that is being parsed or reversed, are separate stretches of the row. `Based` is there for the base
type, which goes through a global as well.

`TypesReadAsC` and `ReversalSplits` speak of recursive functions, over a text and over the links of the nodes. What such a function is
comes from an induction over a set of numbers, which the provers do (`SetInduction`, `MeasureInduction`): for
every number up to `n` there is one function that agrees with its definition, so there is one for all of them
(`Fixpoint`). `ReadCases` and the like then say what it does at one place, and nothing else is used. The walks over
links are stretches of a row (`Chained`), so that a chain of fathers or elements is an interval of node numbers.
For the types, `RInv` says of an operand on the stack that it stands for a part of the declarator
around the name, and that C, whatever comes next, reads first the kinds of the nodes that the declarator has so far
(`Reads`, over all texts that begin with what was read). A reduction takes the one token that C would read
next; that it does so to the right first is the lookahead (`PointerToName` and `PointerToComplex` only
if no size is next).

`ExprParserProofs`. `PInv` says that the stack covers the text: adjacent symbols stand for adjacent parts, and the tree of each
is one that the grammar has for its part (`Covers`, `Entry`). `Ordered` is what makes it the declared one: of two operators
on the stack the upper one was not to wait for the lower, and the root of an operand next to an operator comes
before it (`Follows`). A reduction replaces the symbols at the top by one (`Replaced`) and adds one
step of the grammar (`TreesStep`), reading a token leaves the trees of the parts before it alone (`TreesKept`). For
`ReadsAsC` no more is needed of the parser: a tree with the declared shape of a text that is `Plain` has C's
shape (`DeclaredIsC`), because the roots of two adjacent subtrees are operators of the same argument
(`RootInArgument`), by induction over the length of the part.

`CompilerProofs`. None of the three properties is inductive. `FilesInPhase` adds what
each phase knows of the files from those before it: from `openObject` on the IR is this invocation's, and in
`execute` the object file is, or is a part. No file is of an invocation still to come, which is what `ObjectNotNewer` needs when a new IR is
written beside an old object file. `GeneratedInPhase` carries what was tested in an early phase
(that the program parses, that there is an argument) to the late phase that writes.

### Only model-checked

- `DefDominatesUse` and `FlowAsWritten` are neither proved nor checked for programs with global variables: `NoDanglingUse` fails
  for those already.
- `TypeOK` and `ComputesAsC` of `Expressions`: `CodeGen(tree, code)`, `Eval` and `TypeOf` are recursive operators on trees of
  every depth. There is no set of all trees over which they could be functions, as those on
  texts and nodes are.
- `Finishes`, `Ends`, `Progresses`: liveness under fairness.
- The properties of the runs that end in a violation, which are false.

## Not modelled

- The lexer: a table of regular expressions without state between tokens. The hazards it has are texts of
  single tokens; they are listed in `PROJECT.json` without a property.
- The parser of statements, functions and parameters as a parser: `CodeGen` offers what the grammar allows at each
  place. The dangling else, and the conflict between a global definition and a function (which decides what
  the top level accepts), are taken as the generated parser resolves them.
- `printf` in the printing functions, and the promotion its variable arguments would need.
- Programs that use the name `_AST_GLOBAL`.
- Parentheses around an identifier (`IdentifierUse : LPAREN IdentifierUse RPAREN`): with them or without, a name is one
  token of `Declarators` and `ExprParser`.
- The LLVM context. `Context` and `Builder` are `static` in `codegen.h`, so that `AST.cpp`, `io.cpp` and `compiler.cpp` have
  one each, and the functions of `io.cpp` are made of types of another context than the program's. The Builder of `CodeGen` is
  that of `AST.cpp`; `io.cpp` does not use its own.
- The conversion of a character or a literal to an array size.
- How much of the stack an alloca in a loop takes when it is executed again.
- LLVM: the effects of ill-formed IR, code emission, the JIT.
- Build files, sample program, notes: no state.

## Status

The components that decide something are modelled, checked and, but for what is listed above, proved. What could
come next:

1. types in `CodeGen`, so that the conversions the code does not make are seen there as well as in `Expressions`;
2. statements in tokens, with the dangling else and the conflict at the top level;
3. `ComputesAsC` for trees of a bounded height, as a chain of functions.
