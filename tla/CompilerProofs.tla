--------------------------- MODULE CompilerProofs ---------------------------
(***************************************************************************)
(* The safety properties of the driver for any number of invocations, with *)
(* and without an object file.                                             *)
(***************************************************************************)
EXTENDS Compiler, TLAPS

\* No file is of an invocation that has not begun, and each phase knows what
\* the ones before it have left in the files.
FilesInPhase ==
    /\ ir <= run /\ object <= run
    /\ phase \in {"openObject", "writeObject"} => ir = run
    /\ phase \in {"execute", "executing"} => ir = run /\ (LLVM16 => object \in {run, Part})

\* What a program has gone through when its code is being written.
GeneratedInPhase ==
    /\ phase \in {"context", "generate", "openIR", "writeIR", "openObject", "writeObject"} => stdin.parses
    /\ phase \in {"generate", "openIR", "writeIR", "openObject", "writeObject"} => argument # "none"
    /\ phase \in {"openIR", "writeIR", "openObject", "writeObject"} => stdin.generates
    /\ argument = "missing" => ~stdin.parses

IInv == TypeOK /\ FilesInPhase /\ ObjectNotNewer /\ GeneratedInPhase

\* A phase may start again, be skipped or be killed: the files still tell
\* which invocation they are of.  The inductive invariant of main().
THEOREM Inductive == Spec => []IInv
<1> USE CompilerAssumption
<1>1. Init => IInv
  BY DEF Init, IInv, TypeOK, FilesInPhase, ObjectNotNewer, GeneratedInPhase, Programs, NoProgram,
         Arguments, Part
<1>2. IInv /\ [Next]_vars => IInv'
  <2> SUFFICES ASSUME IInv, [Next]_vars PROVE IInv'
    OBVIOUS
  <2> USE DEF IInv, TypeOK, FilesInPhase, ObjectNotNewer, GeneratedInPhase, Arguments, Part, Exit,
              disk, input
  <2>1. CASE \E arg \in Arguments, program \in Programs : Invoke(arg, program)
    BY <2>1 DEF Invoke, NoProgram, Programs
  <2>2. CASE Parse
    BY <2>2 DEF Parse
  <2>3. CASE MakeContext
    BY <2>3 DEF MakeContext
  <2>4. CASE GenerateCode
    BY <2>4 DEF GenerateCode
  <2>5. CASE OpenIR
    BY <2>5 DEF OpenIR
  <2>6. CASE WriteIR
    BY <2>6 DEF WriteIR
  <2>7. CASE OpenObject
    BY <2>7 DEF OpenObject
  <2>8. CASE WriteObject
    BY <2>8 DEF WriteObject
  <2>9. CASE Execute
    BY <2>9 DEF Execute
  <2>10. CASE Return \/ Killed
    BY <2>10 DEF Return, Killed
  <2>11. CASE UNCHANGED vars
    BY <2>11 DEF vars
  <2> QED
    BY <2>1, <2>2, <2>3, <2>4, <2>5, <2>6, <2>7, <2>8, <2>9, <2>10, <2>11 DEF Next, Phases, Ended
<1> QED
  BY <1>1, <1>2, PTL DEF Spec

\* Every phase of main() leaves its state in the type it had; a file on disk is
\* whole, of an invocation there has been, or a part of one (TypeOK).
THEOREM TypesHold == Spec => []TypeOK
<1>1. IInv => TypeOK
  BY DEF IInv
<1> QED
  BY <1>1, Inductive, PTL

\* The IR on disk is that of the program that runs, and the object file is that of
\* no other program: it is its own, or what is left of the attempt to write it
\* (DumpLLVMIR, GenerateObject, then ExecuteCode).
THEOREM FilesAreOfExecuted == Spec => []FilesOfExecuted
<1>1. IInv => FilesOfExecuted
  BY DEF IInv, FilesInPhase, FilesOfExecuted
<1> QED
  BY <1>1, Inductive, PTL

\* No failure, in whatever phase of whatever invocation, leaves an object file
\* newer than the IR.
THEOREM ObjectIsNotNewer == Spec => []ObjectNotNewer
<1>1. IInv => ObjectNotNewer
  BY DEF IInv
<1> QED
  BY <1>1, Inductive, PTL

\* The files change only in an invocation that was given a file, and whose program
\* has been parsed and generated.
THEOREM FilesChangeOnlyGenerated == Spec => FilesOnlyOfGenerated
<1>1. IInv /\ [Next]_vars => [disk' # disk => stdin.parses /\ stdin.generates /\ argument = "file"]_vars
  <2> SUFFICES ASSUME IInv, Next, disk' # disk
               PROVE  stdin.parses /\ stdin.generates /\ argument = "file"
    BY DEF vars
  <2>1. OpenIR \/ WriteIR \/ OpenObject \/ WriteObject
    BY DEF Next, Phases, Invoke, Parse, MakeContext, GenerateCode, Execute, Return, Killed, Ended, vars, disk
  <2>2. phase \in {"openIR", "writeIR", "openObject", "writeObject"}
    BY <2>1 DEF OpenIR, WriteIR, OpenObject, WriteObject
  <2> QED
    BY <2>2 DEF IInv, GeneratedInPhase, TypeOK, Arguments
<1> QED
  BY <1>1, Inductive, PTL DEF Spec, FilesOnlyOfGenerated
=============================================================================
