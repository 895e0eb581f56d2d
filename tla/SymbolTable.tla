---------------------------- MODULE SymbolTable ----------------------------
(***************************************************************************)
(* The variable table of CodeGenContext (codegen.h): a stack `blocks' of   *)
(* CodeGenBlocks, each a basic block with the variables declared in its    *)
(* scope.  A variable is bound to the alloca instruction that holds it,    *)
(* named by its place <<basic block, index>> in the generated code.        *)
(***************************************************************************)
EXTENDS Integers, Sequences

CONSTANTS Vars,     \* the variable names of the compiled program
          MaxBB     \* bound: how many basic blocks are ever created

ASSUME MaxBBAssumption == MaxBB \in Nat

BB    == 1..MaxBB           \* basic blocks, numbered in the order they are created
NoBB  == 0                  \* nullptr as a basic block
NoPtr == <<0, 0>>           \* nullptr as an llvm::Value *

\* A CodeGenBlock; a name the std::map has no key for is bound to NoPtr.
ScopeOf(bb) == [bb |-> bb, vars |-> [v \in Vars |-> NoPtr]]

\* The scope stack is searched from the innermost block outwards.
Declaring(bl, v) == {i \in 1..Len(bl) : bl[i].vars[v] # NoPtr}

IsVarDefined(bl, v) == Declaring(bl, v) # {}

IsVarInLocal(bl, v) == bl[Len(bl)].vars[v] # NoPtr

\* Mutation: the search starts at the outermost block (begin instead of rbegin).
GetVarOutermost(bl, v) ==
    IF IsVarDefined(bl, v)
      THEN bl[CHOOSE i \in Declaring(bl, v) : \A j \in Declaring(bl, v) : i <= j].vars[v]
      ELSE NoPtr

GetVar(bl, v) ==
    IF IsVarDefined(bl, v)
      THEN bl[CHOOSE i \in Declaring(bl, v) : \A j \in Declaring(bl, v) : j <= i].vars[v]
      ELSE NoPtr

\* The stack after AddLocalVar; unchanged when AddLocalVar returns false.
AddLocalVar(bl, p, v) ==
    IF bl = <<>> \/ IsVarInLocal(bl, v) THEN bl ELSE [bl EXCEPT ![Len(bl)].vars[v] = p]

PushBasicBlock(bl, bb) == Append(bl, ScopeOf(bb))

\* Mutation: the popped block is left on the stack.
PopBasicBlockForgotten(bl) == bl

\* Mutation: the variables of the popped block move to the block around it.
PopBasicBlockMerging(bl) ==
    LET n == Len(bl) - 1
        merged == [v \in Vars |-> IF bl[n].vars[v] # NoPtr
                                     THEN bl[n].vars[v] ELSE bl[n + 1].vars[v]]
    IN  IF n = 0 THEN <<>> ELSE [SubSeq(bl, 1, n) EXCEPT ![n].vars = merged]

PopBasicBlock(bl) == SubSeq(bl, 1, Len(bl) - 1)

=============================================================================
