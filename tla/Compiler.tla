------------------------------ MODULE Compiler ------------------------------
(***************************************************************************)
(* The driver (compiler.cpp): one invocation after the other, each with    *)
(* the phases of main(), and the two files with fixed names that the       *)
(* invocations leave on disk for each other and for the user.              *)
(*                                                                         *)
(* What a program is matters here only by how far it gets: whether it      *)
(* parses, whether its generation throws, whether the IR is well-formed    *)
(* (nothing verifies it), and whether it has a function main.  CodeGen     *)
(* says which programs those are.                                          *)
(***************************************************************************)
EXTENDS Integers

CONSTANTS MaxRuns,  \* bound: invocations
          LLVM16    \* LLVM_VERSION_MAJOR >= 16: an object file is written

ASSUME CompilerAssumption == MaxRuns \in Nat /\ LLVM16 \in BOOLEAN

Programs == [parses : BOOLEAN, generates : BOOLEAN, valid : BOOLEAN, main : BOOLEAN]

\* What stdin holds when there is nothing to read.
NoProgram == [parses |-> FALSE, generates |-> FALSE, valid |-> FALSE, main |-> FALSE]

\* argv[1]: absent, a file that cannot be opened, a file.
Arguments == {"none", "missing", "file"}

\* What is on disk while a file is being written, or after that has failed: a
\* part of it, which may be nothing.
Part == -1

VARIABLES phase,     \* what main() does next, or "idle" between invocations
          run,       \* the number of the invocation
          argument,  \* its argv[1]
          stdin,     \* the program that is read
          mainFunc,  \* "unset" as long as nothing was assigned, or "main"
          ir,        \* ./test/llvm.ll and ./test/object.o: the invocation
          object     \* that wrote them, 0 for none, or Part for a part of it

disk  == <<ir, object>>
input == <<argument, stdin>>
vars  == <<phase, run, input, mainFunc, disk>>

Init ==
    /\ phase = "idle"
    /\ run = 0
    /\ argument = "none"
    /\ stdin = NoProgram
    /\ mainFunc = "unset"
    /\ ir = 0 /\ object = 0

\* The process ends, by the end of main(), exit, an exception or a signal.
Exit == phase' = "idle"

\* main() is called and stdin becomes the file; that freopen may fail, after
\* which there is nothing to read, is not looked at.
Invoke(arg, program) ==
    /\ phase = "idle"
    /\ run < MaxRuns
    /\ phase' = "parse"
    /\ run' = run + 1
    /\ argument' = arg
    /\ stdin' = IF arg = "missing" THEN NoProgram ELSE program
    /\ mainFunc' = "unset"
    /\ UNCHANGED <<disk>>

\* yyparse: yyerror exits.  Without an argument it reads the inherited stdin.
Parse ==
    /\ phase = "parse"
    /\ IF stdin.parses THEN phase' = "context" ELSE Exit
    /\ UNCHANGED <<run, input, mainFunc, disk>>

\* CodeGenContext context(argv[1]): a null argument is no std::string, which throws.
MakeContext ==
    /\ phase = "context"
    /\ IF argument = "none" THEN Exit ELSE phase' = "generate"
    /\ UNCHANGED <<run, input, mainFunc, disk>>

\* Mutation: every function becomes the main function.
GenerateEveryMain ==
    /\ phase = "generate"
    /\ IF stdin.generates
       THEN phase' = "openIR" /\ mainFunc' = "any function"
       ELSE Exit /\ UNCHANGED mainFunc
    /\ UNCHANGED <<run, input, disk>>

\* Mutation: the exception is caught and the rest of main() goes on.
GenerateCaught ==
    /\ phase = "generate"
    /\ phase' = "openIR"
    /\ mainFunc' = IF stdin.generates /\ stdin.main THEN "main" ELSE mainFunc
    /\ UNCHANGED <<run, input, disk>>

\* CreateIOFunc and GenerateCode; nothing catches what they throw.
GenerateCode ==
    /\ phase = "generate"
    /\ IF stdin.generates
       THEN /\ phase' = "openIR"
            /\ mainFunc' = IF stdin.main THEN "main" ELSE mainFunc
       ELSE Exit /\ UNCHANGED mainFunc
    /\ UNCHANGED <<run, input, disk>>

\* Mutation: a file that cannot be opened is left as it is, and the compiler goes on.
OpenIRGoesOn ==
    /\ phase = "openIR"
    /\ \/ phase' = "writeIR" /\ ir' = Part
       \/ phase' = "openObject" /\ UNCHANGED ir
    /\ UNCHANGED <<run, input, mainFunc, object>>

\* Mutation: if opening fails, generation is done again, until opening works.
OpenIRAgain ==
    /\ phase = "openIR"
    /\ \/ phase' = "writeIR" /\ ir' = Part
       \/ phase' = "generate" /\ UNCHANGED ir
    /\ UNCHANGED <<run, input, mainFunc, object>>

\* DumpLLVMIR opens its file, which empties it.  It does not look at the error
\* code, but the stream keeps the error of what is printed and ends the process
\* when it is destroyed.
OpenIR ==
    /\ phase = "openIR"
    /\ \/ phase' = "writeIR" /\ ir' = Part
       \/ Exit /\ UNCHANGED ir
    /\ UNCHANGED <<run, input, mainFunc, object>>

\* The rest of DumpLLVMIR; a write may fail.
WriteIR ==
    /\ phase = "writeIR"
    /\ \/ phase' = (IF LLVM16 THEN "openObject" ELSE "execute") /\ ir' = run
       \/ Exit /\ UNCHANGED ir
    /\ UNCHANGED <<run, input, mainFunc, object>>

\* Mutation: if opening fails, the compiler goes on beside the old object file.
OpenObjectGoesOn ==
    /\ phase = "openObject"
    /\ \/ phase' = "writeObject" /\ object' = Part
       \/ phase' = "execute" /\ UNCHANGED object
    /\ UNCHANGED <<run, input, mainFunc, ir>>

\* GenerateObject opens its file; it throws if that fails.
OpenObject ==
    /\ phase = "openObject"
    /\ \/ phase' = "writeObject" /\ object' = Part
       \/ Exit /\ UNCHANGED object
    /\ UNCHANGED <<run, input, mainFunc, ir>>

\* The passes of GenerateObject.  That the target cannot emit an object file is
\* told by the result of addPassesToEmitFile, which is not looked at: nothing is
\* written then, and the compiler goes on all the same.  The passes may die of
\* code that is not well-formed, a write may fail.
WriteObject ==
    /\ phase = "writeObject"
    /\ \/ phase' = "execute" /\ object' \in {run, Part}
       \/ Exit /\ UNCHANGED object
    /\ UNCHANGED <<run, input, mainFunc, ir>>

\* ExecuteCode: what mainFunc points to is run.
Execute ==
    /\ phase = "execute"
    /\ \/ phase' = "executing"
       \/ ~stdin.valid /\ Exit
    /\ UNCHANGED <<run, input, mainFunc, disk>>

\* The program ends, or ends the process; it may also run for ever.
Return ==
    /\ phase = "executing"
    /\ Exit
    /\ UNCHANGED <<run, input, mainFunc, disk>>

\* The process is killed.
Killed ==
    /\ phase # "idle"
    /\ Exit
    /\ UNCHANGED <<run, input, mainFunc, disk>>

\* Nobody calls the compiler any more.
Ended == phase = "idle" /\ run = MaxRuns /\ UNCHANGED vars

Phases == Parse \/ MakeContext \/ GenerateCode \/ OpenIR \/ WriteIR \/ OpenObject \/ WriteObject \/ Execute

Next ==
    \/ \E arg \in Arguments, program \in Programs : Invoke(arg, program)
    \/ Phases
    \/ Return
    \/ Killed
    \/ Ended

Spec == Init /\ [][Next]_vars

\* yyparse reads the stdin that the process was started with, and whoever is at
\* the other end may neither write nor close it.
AwaitsInput == phase = "parse" /\ argument = "none"

\* main() goes on up to the call of the compiled program, which need not return,
\* except where it waits for input.
FairSpec == Spec /\ WF_vars(~AwaitsInput /\ Phases)

----------------------------------------------------------------------------
\* The types of the variables.
TypeOK ==
    /\ phase \in {"idle", "parse", "context", "generate", "openIR", "writeIR",
                  "openObject", "writeObject", "execute", "executing"}
    /\ run \in 0..MaxRuns
    /\ argument \in Arguments
    /\ stdin \in Programs
    /\ mainFunc \in {"unset", "main"}
    /\ ir \in Part..MaxRuns /\ object \in Part..MaxRuns

\* When a program is run, no file on disk is of another program, whatever failed
\* in this invocation or in those before it: the IR is whole and its own, and so is
\* the object file, or nothing is in it that could be taken for one (DumpLLVMIR and
\* GenerateObject empty their files, and end the compiler if they cannot).
FilesOfExecuted ==
    phase = "executing" => ir = run /\ (LLVM16 => object \in {run, Part})

\* The object file is never of a later invocation than the IR beside it, so that
\* a whole IR file newer than the object file tells of a failure in between.
ObjectNotNewer ==
    ir # Part /\ object # Part => object <= ir

\* An invocation that fails before its code is generated leaves the files
\* of the last one that did not: step by step, a file changes only in an
\* invocation whose program has been parsed and generated.
FilesOnlyOfGenerated ==
    [][disk' # disk => stdin.parses /\ stdin.generates /\ argument = "file"]_vars

\* Each invocation runs its program or ends, whatever fails in it: no phase but
\* the parsing of an inherited stdin waits, and none is gone through for ever.
Progresses == phase # "idle" /\ ~AwaitsInput ~> phase \in {"idle", "executing"}

\* ExecuteCode runs the function main.
RunsMain == phase = "executing" => mainFunc = "main"
=============================================================================
