---------------------------- MODULE LexicalScope ----------------------------
(***************************************************************************)
(* What the compiler promises about names: lexical scoping.  `env' holds,  *)
(* for each scope that is open, outermost first, what every name means in  *)
(* it.  Entering a scope changes no meaning, leaving one brings back the   *)
(* meanings it hid, and a declaration changes the meaning of one name in   *)
(* the innermost scope, once.                                              *)
(***************************************************************************)
EXTENDS Integers, Sequences

CONSTANTS Vars,         \* names
          Decls,        \* what a name can be bound to
          Undeclared    \* the meaning of a name that is not in scope

VARIABLES env,          \* one environment for each open scope
          local         \* for each open scope, the names declared in it

vars == <<env, local>>

Nothing == [v \in Vars |-> Undeclared]

Init == env = <<>> /\ local = <<>>

Enter ==
    /\ env' = Append(env, IF env = <<>> THEN Nothing ELSE env[Len(env)])
    /\ local' = Append(local, {})

Leave(k) ==
    /\ k \in 1..Len(env)
    /\ env' = SubSeq(env, 1, Len(env) - k)
    /\ local' = SubSeq(local, 1, Len(local) - k)

\* From a scope to its sibling: the else branch after the then branch.
Sibling ==
    /\ Len(env) > 1
    /\ env' = [env EXCEPT ![Len(env)] = env[Len(env) - 1]]
    /\ local' = [local EXCEPT ![Len(local)] = {}]

\* A name gets a binding of its own, which no name in scope has.  It is read
\* off the next state: Decls may be infinite.
Declare(v) ==
    /\ env # <<>>
    /\ v \notin local[Len(local)]
    /\ Len(env') = Len(env)
    /\ LET d == env'[Len(env)][v]
       IN  /\ d \in Decls
           /\ \A i \in 1..Len(env), w \in Vars : env[i][w] # d
           /\ env' = [env EXCEPT ![Len(env)][v] = d]
    /\ local' = [local EXCEPT ![Len(local)] = @ \cup {v}]

Next ==
    \/ Enter
    \/ \E k \in {1, 2} : Leave(k)
    \/ Sibling
    \/ \E v \in Vars : Declare(v)

Spec == Init /\ [][Next]_vars

=============================================================================
