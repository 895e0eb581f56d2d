-------------------------- MODULE DeclaratorProofs --------------------------
(***************************************************************************)
(* The definitions of variables, for texts of every length: each variable  *)
(* gets the name that its own declarator holds (NamesAsWritten), and a     *)
(* type whose nodes are its own, down to its own base type (TypesApart),   *)
(* and which is the one that C reads (TypesReadAsC).                       *)
(*                                                                         *)
(* The parser's stack is a row of `*' and `(' with at most one operand     *)
(* behind them, and at most one token that closes the operand (Shape).     *)
(* The operand stands for the one name that has been read (Named).  The    *)
(* nodes of a declarator are numbered without a gap, each the father of    *)
(* the next one (Chained); the reversal goes down that row and stops where *)
(* it began, above the nodes of all the declarators before it.             *)
(***************************************************************************)
EXTENDS Declarators, SequenceTheorems, WellFoundedInduction, TLAPS

Openers  == {"*", "("}
Operands == {"id", "cv"}
Closers  == {"size", ")"}

\* A symbol on the stack, n nodes having been created.
SymbolOK(s, n) ==
    /\ s.sym \in Openers \cup Operands \cup Closers
    /\ s.sym = "id" => s.val \in Names
    /\ s.sym = "cv" => s.val = n /\ n # 0
    /\ s.sym = "size" => s.val \in Sizes

\* What the stack st looks like.
Shape(st, n) ==
    \A i \in 1..Len(st) :
       /\ SymbolOK(st[i], n)
       /\ st[i].sym \in Operands => i = Len(st) \/ (i = Len(st) - 1 /\ st[Len(st)].sym \in Closers)
       /\ st[i].sym \in Closers => i = Len(st) /\ i > 1 /\ st[i - 1].sym \in Operands
       /\ st[i].sym = ")" => i > 2 /\ st[i - 2].sym = "("

StackAt ==
    /\ Shape(stack, Len(nodes))
    /\ status = "reverse" => Len(stack) = 1 /\ stack[1].sym = "cv"
    /\ status \in {"between", "parsed"} => stack = <<>>

NamesIn(t) == {i \in 1..Len(t) : t[i] \in Names}

Holds(st, syms) == \E i \in 1..Len(st) : st[i].sym \in syms

\* A declarator with nodes goes on.
Open(st) == Holds(st, {"cv"})

\* The operand on the stack st stands for the name in the text t.
Named(st, t, name) ==
    /\ \A i, j \in NamesIn(t) : i = j
    /\ NamesIn(t) # {} <=> Holds(st, Operands)
    /\ \A i \in 1..Len(st) : \A k \in NamesIn(t) :
          /\ st[i].sym = "id" => st[i].val = t[k]
          /\ st[i].sym = "cv" => name = t[k]

\* A definition has its base type, which the global holds as well.
Based ==
    /\ specifier = CurrentBaseType
    /\ status \in {"declarator", "reverse"} => specifier \in BaseTypes

\* The nodes nd are linked to the ones made before and after them.
Chained(nd) ==
    \A n \in 1..Len(nd) :
       /\ nd[n].father \in {Null, n - 1}
       /\ nd[n].elem \in 1..Len(nd) => nd[n].elem = n + 1 /\ nd[n + 1].father = n

\* The reversal has linked the nodes from curNode on.
Reversing ==
    status = "reverse" =>
        /\ curNode \in 1..Len(nodes) /\ fatherNode = nodes[curNode].father
        /\ \A k \in curNode..(Len(nodes) - 1) : nodes[k].elem = k + 1

\* The nodes from n to last are a type with that base type.
TypeEnds(nd, n, last, base) ==
    nd[last].elem = base /\ \A k \in n..(last - 1) : nd[k].elem = k + 1

\* The type v is complete in nd, and below the declarator that goes on, if
\* there is one on the stack st; that one is being reversed from node low on.
Complete(nd, v, st, low) ==
    /\ nd[v.complexType].father = Null
    /\ \E last \in v.complexType..Len(nd) :
          /\ TypeEnds(nd, v.complexType, last, v.base)
          /\ Open(st) => \E first \in (last + 1)..low : nd[first].father = Null

Low == IF status = "reverse" THEN curNode ELSE Len(nodes)

Apart ==
    /\ \A i \in 1..Len(inits) :
          inits[i].complexType # Null => Complete(nodes, inits[i], stack, Low)
    /\ \A i, j \in 1..Len(inits) :
          inits[i].complexType # Null /\ inits[j].complexType = inits[i].complexType => j = i

IInv ==
    /\ TypeOK /\ StackAt /\ Named(stack, text, CurrentVarName) /\ Based
    /\ Chained(nodes) /\ Reversing /\ Apart /\ NamesAsWritten

----------------------------------------------------------------------------
\* Sequences.

LEMMA Taken ==
    ASSUME NEW S, NEW s \in Seq(S), NEW k \in 0..Len(s)
    PROVE  /\ SubSeq(s, 1, k) \in Seq(S) /\ Len(SubSeq(s, 1, k)) = k
           /\ \A i \in 1..k : SubSeq(s, 1, k)[i] = s[i]
<1>1. Len(s) \in Nat /\ \A i \in 1..Len(s) : s[i] \in S
  BY ElementOfSeq
<1> QED
  BY <1>1

LEMMA Larger ==
    ASSUME NEW S, NEW T, S \subseteq T, NEW s \in Seq(S)
    PROVE  s \in Seq(T)
OBVIOUS

\* The stack after n symbols have been replaced by one.
LEMMA ReducedAt ==
    ASSUME NEW T, NEW s \in Seq(T), NEW n \in 1..Len(s), NEW e \in T
    PROVE  LET t == Append(SubSeq(s, 1, Len(s) - n), e)
           IN  /\ t \in Seq(T) /\ Len(t) = Len(s) - n + 1 /\ t[Len(t)] = e
               /\ \A i \in 1..(Len(s) - n) : t[i] = s[i]
<1> DEFINE k == Len(s) - n
           u == SubSeq(s, 1, k)
           t == Append(u, e)
<1>1. k \in 0..Len(s)
  OBVIOUS
<1> HIDE DEF k
<1>2. u \in Seq(T) /\ Len(u) = k /\ \A i \in 1..k : u[i] = s[i]
  BY <1>1, Taken
<1> HIDE DEF u
<1>3. t \in Seq(T) /\ Len(t) = k + 1 /\ t[k + 1] = e /\ \A i \in 1..k : t[i] = u[i]
  BY <1>2, AppendProperties
<1> HIDE DEF t
<1>4. t \in Seq(T) /\ Len(t) = k + 1 /\ t[Len(t)] = e /\ \A i \in 1..k : t[i] = s[i]
  BY <1>2, <1>3
<1> QED
  BY <1>4 DEF k, t, u

LEMMA TopOne ==
    ASSUME NEW S, stack \in Seq(S), NEW x
    PROVE  OnTop(<<x>>) <=> Len(stack) > 0 /\ stack[Len(stack)].sym = x
<1>1. Len(<<x>>) = 1 /\ <<x>>[1] = x
  OBVIOUS
<1> DEFINE w == <<x>>
<1>2. Len(w) = 1 /\ w[1] = x
  BY <1>1
<1> HIDE DEF w
<1>3. OnTop(w) <=> Len(stack) > 0 /\ stack[Len(stack)].sym = x
  BY <1>2 DEF OnTop, Depth
<1> QED
  BY <1>3 DEF w

LEMMA TopTwo ==
    ASSUME NEW S, stack \in Seq(S), NEW x, NEW y
    PROVE  OnTop(<<x, y>>) <=> /\ Len(stack) > 1
                               /\ stack[Len(stack) - 1].sym = x /\ stack[Len(stack)].sym = y
<1> DEFINE w == <<x, y>>
           n == Len(stack)
<1>1. Len(w) = 2 /\ w[1] = x /\ w[2] = y
  OBVIOUS
<1>2. n \in Nat /\ n - 2 + 1 = n - 1 /\ n - 2 + 2 = n
  OBVIOUS
<1> HIDE DEF w, n
<1>3. \A i \in 1..2 : i = 1 \/ i = 2
  OBVIOUS
<1>4. (2 <= n /\ \A i \in 1..2 : stack[n - 2 + i].sym = w[i])
      <=> n > 1 /\ stack[n - 1].sym = x /\ stack[n].sym = y
  BY <1>1, <1>2, <1>3
<1>5. OnTop(w) <=> n > 1 /\ stack[n - 1].sym = x /\ stack[n].sym = y
  BY <1>1, <1>4 DEF OnTop, Depth, n
<1> QED
  BY <1>5 DEF w, n

LEMMA TopThree ==
    ASSUME NEW S, stack \in Seq(S), NEW x, NEW y, NEW z, OnTop(<<x, y, z>>)
    PROVE  /\ Len(stack) > 2 /\ stack[Len(stack) - 2].sym = x
           /\ stack[Len(stack) - 1].sym = y /\ stack[Len(stack)].sym = z
<1> DEFINE w == <<x, y, z>>
           n == Len(stack)
<1>1. Len(w) = 3 /\ w[1] = x /\ w[2] = y /\ w[3] = z
  OBVIOUS
<1>2. n \in Nat /\ n - 3 + 1 = n - 2 /\ n - 3 + 2 = n - 1 /\ n - 3 + 3 = n
  OBVIOUS
<1>3. OnTop(w)
  OBVIOUS
<1> HIDE DEF w, n
<1>4. 3 <= n /\ \A i \in 1..3 : stack[n - 3 + i].sym = w[i]
  BY <1>1, <1>3 DEF OnTop, Depth, n
<1>5. n > 2 /\ stack[n - 2].sym = x /\ stack[n - 1].sym = y /\ stack[n].sym = z
  BY <1>1, <1>2, <1>4
<1> QED
  BY <1>5 DEF n

----------------------------------------------------------------------------
\* The types of what is on the stack, of nodes and of definitions.

SymbolRec(n) == [sym : Openers \cup Operands \cup Closers,
                 val : Names \cup Sizes \cup {Null} \cup 1..n]

NodeRec(n) == [kind : Kinds, father : {Null} \cup 1..n, elem : {Null} \cup 1..n \cup BaseTypes]

InitRec(n) == [name : Names, complexType : {Null} \cup 1..n, base : BaseTypes, text : Seq(Tokens)]

Plain ==
    /\ status \in {"between", "declarator", "reverse", "parsed", "exited"}
    /\ next \in Tokens
    /\ read \in Nat
    /\ text \in Seq(Tokens)
    /\ {specifier, CurrentBaseType} \subseteq BaseTypes \cup {NoBase}
    /\ CurrentVarName \in Names \cup {NoName}

LEMMA SymbolRecIs ==
    ASSUME NEW n
    PROVE  SymbolRec(n) = [sym : {"*", "(", ")", "id", "cv", "size"},
                           val : Names \cup Sizes \cup {Null} \cup 1..n]
<1>1. Openers \cup Operands \cup Closers = {"*", "(", ")", "id", "cv", "size"}
  BY DEF Openers, Operands, Closers
<1> QED
  BY <1>1, Zenon DEF SymbolRec

LEMMA TypeParts ==
    TypeOK <=> /\ Plain
               /\ stack \in Seq(SymbolRec(Len(nodes)))
               /\ nodes \in Seq(NodeRec(Len(nodes)))
               /\ {curNode, fatherNode} \subseteq {Null} \cup 1..Len(nodes)
               /\ inits \in Seq(InitRec(Len(nodes)))
BY SymbolRecIs, Zenon DEF TypeOK, Plain, NodeRec, InitRec, Node

LEMMA TypePartsNext ==
    ASSUME NEW n, Len(nodes') = n,
           Plain', stack' \in Seq(SymbolRec(n)), nodes' \in Seq(NodeRec(n)),
           {curNode', fatherNode'} \subseteq {Null} \cup 1..n, inits' \in Seq(InitRec(n))
    PROVE  TypeOK'
<1>1. SymbolRec(n) = [sym : {"*", "(", ")", "id", "cv", "size"},
                      val : Names \cup Sizes \cup {Null} \cup Node']
  BY SymbolRecIs, Zenon DEF Node
<1>2. Node' = 1..n
  BY Zenon DEF Node
<1> QED
  BY <1>1, <1>2, Zenon DEF TypeOK, Plain, NodeRec, InitRec

LEMMA RecsGrow ==
    ASSUME NEW m \in Nat, NEW n \in Nat, m <= n
    PROVE  /\ SymbolRec(m) \subseteq SymbolRec(n)
           /\ NodeRec(m) \subseteq NodeRec(n)
           /\ InitRec(m) \subseteq InitRec(n)
BY DEF SymbolRec, NodeRec, InitRec

\* Below the operand on the stack there are only openers.
LEMMA Below ==
    ASSUME NEW S, NEW st \in Seq(S), NEW n, Shape(st, n), NEW i \in 1..(Len(st) - 1),
           st[Len(st)].sym \in Closers => i # Len(st) - 1
    PROVE  st[i].sym \in Openers
<1>1. i \in 1..Len(st) /\ i # Len(st) /\ SymbolOK(st[i], n)
  BY DEF Shape
<1>2. st[i].sym \notin Operands /\ st[i].sym \notin Closers
  BY <1>1 DEF Shape
<1> QED
  BY <1>1, <1>2 DEF SymbolOK

\* A reduction to an operand.
LEMMA ReducedShape ==
    ASSUME stack \in Seq(SymbolRec(Len(nodes))), Len(nodes) \in Nat, Shape(stack, Len(nodes)),
           NEW n \in 1..Len(stack),
           \A i \in 1..(Len(stack) - n) : stack[i].sym \in Openers,
           NEW sym \in Operands, NEW val, NEW k \in Nat, Len(nodes) <= k,
           SymbolOK([sym |-> sym, val |-> val], k)
    PROVE  /\ Reduced(n, sym, val) \in Seq(SymbolRec(k))
           /\ Shape(Reduced(n, sym, val), k)
<1> DEFINE t == Reduced(n, sym, val)
           e == [sym |-> sym, val |-> val]
           d == Len(stack) - n
<1>0. e.sym = sym /\ e.val = val
  OBVIOUS
<1>1. e \in SymbolRec(k)
  BY DEF SymbolOK, SymbolRec, Operands
<1>2. SymbolRec(Len(nodes)) \subseteq SymbolRec(k)
  BY RecsGrow
<1>3. t \in Seq(SymbolRec(k)) /\ Len(t) = d + 1 /\ t[Len(t)] = e /\ \A i \in 1..d : t[i] = stack[i]
  <2>1. stack \in Seq(SymbolRec(k))
    BY <1>2, Larger
  <2> QED
    BY <1>1, <2>1, ReducedAt DEF Reduced, Depth
<1>4. d \in Nat /\ \A i \in 1..d : i \in 1..Len(stack)
  OBVIOUS
<1>5. SymbolOK(e, k)
  OBVIOUS
<1> HIDE DEF t, e, d
<1>6. \A i \in 1..d : SymbolOK(t[i], k) /\ t[i].sym \in Openers
  BY <1>3 DEF SymbolOK, Openers, Operands, Closers, d
<1>7. \A i \in 1..Len(t) : i = Len(t) \/ i \in 1..d
  BY <1>3, <1>4
<1>8. \A i \in 1..Len(t) : SymbolOK(t[i], k) /\ t[i].sym \notin Closers /\ t[i].sym # ")"
                           /\ (t[i].sym \in Operands => i = Len(t))
  BY <1>0, <1>3, <1>5, <1>6, <1>7 DEF Openers, Operands, Closers
<1>9. Shape(t, k)
  BY <1>8, Zenon DEF Shape
<1> QED
  BY <1>3, <1>9 DEF t

LEMMA ReducedNamed ==
    ASSUME stack \in Seq(SymbolRec(Len(nodes))), Named(stack, text, CurrentVarName),
           NEW n \in 1..Len(stack),
           \A i \in 1..(Len(stack) - n) : stack[i].sym \in Openers,
           Holds(stack, Operands), NEW sym \in Operands, NEW val, NEW name,
           \A k \in NamesIn(text) : IF sym = "id" THEN val = text[k] ELSE name = text[k]
    PROVE  /\ Named(Reduced(n, sym, val), text, name)
           /\ Open(Reduced(n, sym, val)) <=> sym = "cv"
<1> DEFINE t == Reduced(n, sym, val)
           e == [sym |-> sym, val |-> val]
           d == Len(stack) - n
<1>0. e.sym = sym /\ e.val = val
  OBVIOUS
<1>1. d \in Nat
  OBVIOUS
<1>2. Len(t) = d + 1 /\ t[Len(t)] = e /\ \A i \in 1..d : t[i] = stack[i]
  <2> DEFINE T == SymbolRec(Len(nodes)) \cup {e}
  <2>1. SymbolRec(Len(nodes)) \subseteq T /\ e \in T
    OBVIOUS
  <2> HIDE DEF T
  <2>2. stack \in Seq(T)
    BY <2>1, Larger
  <2> QED
    BY <2>1, <2>2, ReducedAt DEF Reduced, Depth
<1> HIDE DEF t, e, d
<1>3. \A i \in 1..Len(t) : i = Len(t) \/ t[i].sym \in Openers
  BY <1>1, <1>2 DEF d
<1>4. Len(t) \in 1..Len(t)
  BY <1>1, <1>2
<1>5. Holds(t, Operands)
  BY <1>0, <1>2, <1>4 DEF Holds
<1>6. \A i \in 1..Len(t) : t[i].sym \in Operands => i = Len(t) /\ t[i].sym = sym /\ t[i].val = val
  BY <1>0, <1>2, <1>3 DEF Openers, Operands
<1>7. Named(t, text, name)
  BY <1>5, <1>6 DEF Named, Operands
<1>8. Open(t) <=> sym = "cv"
  BY <1>0, <1>2, <1>4, <1>6 DEF Open, Holds, Operands
<1> QED
  BY <1>7, <1>8 DEF t

----------------------------------------------------------------------------
\* The nodes of a declarator.

LEMMA NodeFacts ==
    ASSUME TypeOK, Chained(nodes)
    PROVE  /\ nodes \in Seq(NodeRec(Len(nodes))) /\ Len(nodes) \in Nat
           /\ \A k \in 1..Len(nodes) :
                 /\ nodes[k] \in NodeRec(Len(nodes))
                 /\ nodes[k].elem \in Nat => nodes[k].elem \in {Null} \cup 1..Len(nodes)
<1>1. nodes \in Seq(NodeRec(Len(nodes)))
  BY TypeParts
<1>2. Len(nodes) \in Nat
  BY <1>1
<1>3. \A k \in 1..Len(nodes) : nodes[k] \in NodeRec(Len(nodes))
  BY <1>1, ElementOfSeq
<1>4. \A k \in 1..Len(nodes) : nodes[k].elem \in Nat => nodes[k].elem \in {Null} \cup 1..Len(nodes)
  BY <1>3, TokenAssumption DEF NodeRec
<1> QED
  BY <1>1, <1>2, <1>3, <1>4

\* A node is created.
LEMMA NodeAdded ==
    ASSUME TypeOK, Chained(nodes), NEW e, e.father \in {Null, Len(nodes)}, e.elem = Null,
           NEW nd, Len(nd) = Len(nodes) + 1, nd[Len(nodes) + 1] = e,
           \A k \in 1..Len(nodes) : nd[k] = nodes[k]
    PROVE  Chained(nd)
<1> DEFINE m == Len(nodes)
<1>1. m \in Nat /\ \A k \in 1..m : nodes[k].elem \in Nat => nodes[k].elem \in {Null} \cup 1..m
  BY NodeFacts
<1> SUFFICES ASSUME NEW k \in 1..(m + 1)
             PROVE  /\ nd[k].father \in {Null, k - 1}
                    /\ nd[k].elem \in 1..(m + 1) => nd[k].elem = k + 1 /\ nd[k + 1].father = k
  BY DEF Chained
<1>2. CASE k = m + 1
  BY <1>1, <1>2 DEF Null
<1>3. CASE k \in 1..m
  <2>1. nd[k] = nodes[k]
    BY <1>3
  <2>2. nodes[k].father \in {Null, k - 1}
    BY <1>3 DEF Chained
  <2>3. ASSUME nodes[k].elem \in 1..(m + 1)
        PROVE  nodes[k].elem = k + 1 /\ nd[k + 1].father = k
    <3>1. nodes[k].elem \in 1..m
      BY <1>1, <1>3, <2>3 DEF Null
    <3>2. nodes[k].elem = k + 1 /\ nodes[k + 1].father = k
      BY <1>3, <3>1 DEF Chained
    <3>3. k + 1 \in 1..m
      BY <3>1, <3>2
    <3> QED
      BY <3>2, <3>3
  <2> QED
    BY <2>1, <2>2, <2>3
<1> QED
  BY <1>1, <1>2, <1>3

\* The nodes nd become md: where a declarator goes on, the ones below low keep
\* their elements but for the one at new, from where on it goes on then.
Raises(nd, md, st, low, tt, new) ==
    /\ low \in Nat /\ new \in Nat /\ Len(nd) \in Nat /\ Len(md) \in Nat /\ Len(nd) <= Len(md)
    /\ \A k \in 1..Len(nd) : md[k].father = nd[k].father
    /\ Open(st) =>
          /\ \A k \in 1..Len(nd) : k < low => md[k].elem = nd[k].elem \/ k = new
          /\ low <= Len(nd) /\ (low <= new \/ (new = low - 1 /\ nd[low].father # Null))
    /\ ~Open(st) =>
          /\ \A k \in 1..Len(nd) : md[k].elem = nd[k].elem
          /\ Open(tt) => new = Len(nd) + 1 /\ Len(md) = new /\ md[new].father = Null

\* A complete type stays complete.
LEMMA CompleteKept ==
    ASSUME NEW nd, NEW md, NEW v, NEW st, NEW tt, NEW low, NEW new,
           Raises(nd, md, st, low, tt, new),
           Complete(nd, v, st, low), v.complexType \in 1..Len(nd)
    PROVE  Complete(md, v, tt, new)
<1> USE DEF Raises
<1> DEFINE n == v.complexType
<1>1. nd[n].father = Null /\ n \in 1..Len(nd) /\ n \in 1..Len(md)
  BY DEF Complete
<1>2. PICK last \in n..Len(nd) :
         /\ TypeEnds(nd, n, last, v.base)
         /\ Open(st) => \E first \in (last + 1)..low : nd[first].father = Null
  BY DEF Complete
<1>3. last \in 1..Len(nd) /\ last \in n..Len(md) /\ last \in Nat
  BY <1>1, <1>2
<1>4. md[n].father = Null
  BY <1>1
<1>5. CASE Open(st)
  <2>1. PICK first \in (last + 1)..low : nd[first].father = Null
    BY <1>2, <1>5
  <2>2. first \in 1..Len(nd) /\ first <= new /\ last < new /\ last < low /\ first \in 1..Len(md)
    BY <1>3, <1>5, <2>1
  <2>3. md[last].elem = nd[last].elem
    BY <1>3, <1>5, <2>2
  <2>4. ASSUME NEW k \in n..(last - 1) PROVE md[k].elem = k + 1
    <3>1. k \in 1..Len(nd) /\ k < low /\ k # new
      BY <1>1, <1>3, <2>2
    <3>2. nd[k].elem = k + 1
      BY <1>2 DEF TypeEnds
    <3> QED
      BY <1>5, <3>1, <3>2
  <2>5. TypeEnds(md, n, last, v.base)
    BY <1>2, <2>3, <2>4 DEF TypeEnds
  <2>6. first \in (last + 1)..new /\ md[first].father = Null
    BY <1>3, <2>1, <2>2
  <2> QED
    BY <1>3, <1>4, <2>5, <2>6 DEF Complete
<1>6. CASE ~Open(st)
  <2>1. md[last].elem = nd[last].elem
    BY <1>3, <1>6
  <2>2. ASSUME NEW k \in n..(last - 1) PROVE md[k].elem = k + 1
    <3>1. k \in 1..Len(nd)
      BY <1>1, <1>3
    <3>2. nd[k].elem = k + 1
      BY <1>2 DEF TypeEnds
    <3> QED
      BY <1>6, <3>1, <3>2
  <2>3. TypeEnds(md, n, last, v.base)
    BY <1>2, <2>1, <2>2 DEF TypeEnds
  <2>4. Open(tt) => new \in (last + 1)..new /\ md[new].father = Null
    BY <1>3, <1>6
  <2> QED
    BY <1>3, <1>4, <2>3, <2>4 DEF Complete
<1> QED
  BY <1>5, <1>6

\* A node for the operand that is on top of the stack.
LEMMA NodeStep ==
    ASSUME IInv, Parsing, NEW n \in 1..Len(stack), NEW kind \in Kinds,
           NEW father \in {Null, Len(nodes)}, NewNode(n, kind, father),
           \A i \in 1..(Len(stack) - n) : stack[i].sym \in Openers,
           Holds(stack, Operands), Open(stack) \/ father = Null,
           CurrentVarName' \in Names \cup {NoName},
           \A k \in NamesIn(text) : CurrentVarName' = text[k],
           UNCHANGED <<status, next, read, text, specifier, CurrentBaseType, loop, inits>>
    PROVE  IInv'
<1> DEFINE m == Len(nodes)
           e == [kind |-> kind, father |-> father, elem |-> Null]
<1>1. /\ m \in Nat /\ nodes \in Seq(NodeRec(m))
      /\ \A k \in 1..m : nodes[k] \in NodeRec(m)
  BY NodeFacts DEF IInv
<1>2. e \in NodeRec(m + 1) /\ e.father = father /\ e.elem = Null
  BY <1>1 DEF NodeRec, Null
<1>3. nodes \in Seq(NodeRec(m + 1))
  <2>1. NodeRec(m) \subseteq NodeRec(m + 1)
    BY <1>1, RecsGrow
  <2> QED
    BY <1>1, <2>1, Larger
<1> HIDE DEF e
<1>4. /\ nodes' \in Seq(NodeRec(m + 1)) /\ Len(nodes') = m + 1 /\ nodes'[m + 1] = e
      /\ \A k \in 1..m : nodes'[k] = nodes[k]
  <2>1. nodes' = Append(nodes, e)
    BY DEF NewNode, e
  <2> QED
    BY <1>2, <1>3, <2>1, AppendProperties
<1>5. stack' = Reduced(n, "cv", m + 1)
  BY DEF NewNode
<1> HIDE DEF m
<1>6. stack' \in Seq(SymbolRec(m + 1)) /\ Shape(stack', m + 1)
  <2>1. stack \in Seq(SymbolRec(Len(nodes))) /\ Shape(stack, Len(nodes))
    BY TypeParts DEF IInv, StackAt
  <2>2. SymbolOK([sym |-> "cv", val |-> m + 1], m + 1) /\ "cv" \in Operands
    BY <1>1 DEF SymbolOK, Operands
  <2>3. m + 1 \in Nat /\ Len(nodes) <= m + 1 /\ Len(nodes) \in Nat
    BY <1>1 DEF m
  <2>4. /\ Reduced(n, "cv", m + 1) \in Seq(SymbolRec(m + 1))
        /\ Shape(Reduced(n, "cv", m + 1), m + 1)
    BY <2>1, <2>2, <2>3, ReducedShape
  <2> QED
    BY <1>5, <2>4
<1>7. Named(stack', text, CurrentVarName') /\ Open(stack')
  <2>1. stack \in Seq(SymbolRec(Len(nodes))) /\ Named(stack, text, CurrentVarName)
    BY TypeParts DEF IInv
  <2> DEFINE sym == "cv"
             val == m + 1
             name == CurrentVarName'
  <2>2. sym \in Operands /\ sym = "cv" /\ sym # "id"
    BY DEF Operands
  <2> HIDE DEF sym, val, name
  <2>3. \A k \in NamesIn(text) : IF sym = "id" THEN val = text[k] ELSE name = text[k]
    BY <2>2 DEF name
  <2>4. /\ Named(Reduced(n, sym, val), text, name)
        /\ Open(Reduced(n, sym, val)) <=> sym = "cv"
    BY <2>1, <2>2, <2>3, ReducedNamed
  <2> QED
    BY <1>5, <2>2, <2>4 DEF sym, val, name
<1>8. TypeOK'
  <2>1. Plain'
    BY TypeParts DEF IInv, Plain
  <2>2. {curNode', fatherNode'} \subseteq {Null} \cup 1..(m + 1)
    BY <1>1, TypeParts DEF IInv, loop, m
  <2>3. inits' \in Seq(InitRec(m + 1))
    <3>1. inits \in Seq(InitRec(m)) /\ InitRec(m) \subseteq InitRec(m + 1)
      BY <1>1, TypeParts, RecsGrow DEF IInv, m
    <3> QED
      BY <3>1, Larger
  <2>4. Len(nodes') = m + 1
    BY <1>4
  <2> QED
    BY <1>4, <1>6, <2>1, <2>2, <2>3, <2>4, TypePartsNext
<1>9. StackAt'
  <2>1. status' = "declarator" /\ Len(nodes)' = m + 1
    BY <1>4 DEF Parsing
  <2> QED
    BY <1>6, <2>1 DEF StackAt
<1>10. Chained(nodes')
  BY <1>2, <1>4, NodeAdded DEF IInv, m
<1>11. Apart'
  <2>1. status' = "declarator" /\ status = "declarator"
    BY DEF Parsing
  <2>2. Low = m /\ Low' = m + 1
    BY <1>4, <2>1 DEF Low, m
  <2>3. ASSUME NEW i \in 1..Len(inits), inits[i].complexType # Null
        PROVE  Complete(nodes', inits[i], stack', m + 1)
    <3>1. Complete(nodes, inits[i], stack, m)
      BY <2>2, <2>3 DEF IInv, Apart
    <3>2. inits[i].complexType \in 1..m
      <4>1. inits[i] \in InitRec(m)
        BY TypeParts, ElementOfSeq DEF IInv, m
      <4> QED
        BY <2>3, <4>1 DEF InitRec
    <3>3. ~Open(stack) => nodes'[m + 1].father = Null
      BY <1>2, <1>4
    <3>4. Raises(nodes, nodes', stack, m, stack', m + 1)
      <4>1. Len(nodes) = m /\ m \in Nat /\ Len(nodes') = m + 1
        BY <1>1, <1>4 DEF m
      <4>2. \A k \in 1..m : nodes'[k] = nodes[k]
        BY <1>4
      <4> QED
        BY <3>3, <4>1, <4>2 DEF Raises
    <3> QED
      BY <3>1, <3>2, <3>4, CompleteKept DEF m
  <2> QED
    BY <2>2, <2>3 DEF IInv, Apart
<1>12. (Based /\ Reversing /\ NamesAsWritten)'
  BY DEF IInv, Based, Reversing, NamesAsWritten, Parsing
<1>13. Named(stack, text, CurrentVarName)'
  BY <1>7
<1> QED
  BY <1>8, <1>9, <1>10, <1>11, <1>12, <1>13 DEF IInv

\* What is on the stack below its two topmost symbols.
LEMMA BelowTwo ==
    ASSUME IInv
    PROVE  /\ stack \in Seq(SymbolRec(Len(nodes))) /\ Len(stack) \in Nat
           /\ \A i \in 1..(Len(stack) - 2) : stack[i].sym \in Openers
           /\ \A i \in 1..Len(stack) : SymbolOK(stack[i], Len(nodes))
<1>1. stack \in Seq(SymbolRec(Len(nodes))) /\ Shape(stack, Len(nodes))
  BY TypeParts DEF IInv, StackAt
<1>2. \A i \in 1..(Len(stack) - 2) : i \in 1..(Len(stack) - 1) /\ i # Len(stack) - 1
  BY <1>1
<1>3. \A i \in 1..(Len(stack) - 2) : stack[i].sym \in Openers
  BY <1>1, <1>2, Below
<1>4. \A i \in 1..Len(stack) : SymbolOK(stack[i], Len(nodes))
  BY <1>1 DEF Shape
<1>5. Len(stack) \in Nat
  BY <1>1
<1> QED
  BY <1>1, <1>3, <1>4, <1>5

LEMMA NodesStep ==
    ASSUME IInv, ArrayOfName \/ PointerToName \/ ArrayOfComplex \/ PointerToComplex
    PROVE  IInv'
<1>1. /\ stack \in Seq(SymbolRec(Len(nodes))) /\ Len(stack) \in Nat
      /\ \A i \in 1..(Len(stack) - 2) : stack[i].sym \in Openers
      /\ \A i \in 1..Len(stack) : SymbolOK(stack[i], Len(nodes))
  BY BelowTwo
<1>2. CurrentVarName \in Names \cup {NoName} /\ Named(stack, text, CurrentVarName)
  BY DEF IInv, TypeOK
<1>3. CASE ArrayOfName
  <2>1. Len(stack) > 1 /\ stack[Len(stack) - 1].sym = "id" /\ stack[Len(stack)].sym = "size"
    BY <1>1, <1>3, TopTwo DEF ArrayOfName
  <2>2. Value(2) = stack[Len(stack) - 1].val /\ Value(1) = stack[Len(stack)].val
    BY <1>1 DEF Value, Depth
  <2>3. 2 \in 1..Len(stack) /\ Len(stack) - 1 \in 1..Len(stack) /\ Len(stack) \in 1..Len(stack)
    BY <1>1, <2>1
  <2>4. Holds(stack, Operands)
    BY <2>1, <2>3 DEF Holds, Operands
  <2>5. CurrentVarName' = Value(2) /\ Value(2) \in Names /\ \A k \in NamesIn(text) : Value(2) = text[k]
    BY <1>1, <1>2, <1>3, <2>1, <2>2, <2>3 DEF SymbolOK, Named, ArrayOfName
  <2>6. Value(1) \in Kinds
    BY <1>1, <2>1, <2>2, <2>3 DEF SymbolOK, Kinds
  <2>7. /\ Parsing /\ NewNode(2, Value(1), Null)
        /\ UNCHANGED <<status, next, read, text, specifier, CurrentBaseType, loop, inits>>
    BY <1>3 DEF ArrayOfName
  <2> QED
    BY <1>1, <2>3, <2>4, <2>5, <2>6, <2>7, NodeStep
<1>4. CASE PointerToName
  <2>1. Len(stack) > 1 /\ stack[Len(stack)].sym = "id"
    BY <1>1, <1>4, TopTwo DEF PointerToName
  <2>2. Value(1) = stack[Len(stack)].val
    BY <1>1 DEF Value, Depth
  <2>3. 2 \in 1..Len(stack) /\ Len(stack) \in 1..Len(stack)
    BY <1>1, <2>1
  <2>4. Holds(stack, Operands)
    BY <2>1, <2>3 DEF Holds, Operands
  <2>5. CurrentVarName' = Value(1) /\ Value(1) \in Names /\ \A k \in NamesIn(text) : Value(1) = text[k]
    BY <1>1, <1>2, <1>4, <2>1, <2>2, <2>3 DEF SymbolOK, Named, PointerToName
  <2>6. "ptr" \in Kinds
    BY DEF Kinds
  <2>7. /\ Parsing /\ NewNode(2, "ptr", Null)
        /\ UNCHANGED <<status, next, read, text, specifier, CurrentBaseType, loop, inits>>
    BY <1>4 DEF PointerToName
  <2> QED
    BY <1>1, <2>3, <2>4, <2>5, <2>6, <2>7, NodeStep
<1>5. CASE ArrayOfComplex
  <2>1. Len(stack) > 1 /\ stack[Len(stack) - 1].sym = "cv" /\ stack[Len(stack)].sym = "size"
    BY <1>1, <1>5, TopTwo DEF ArrayOfComplex
  <2>2. Value(2) = stack[Len(stack) - 1].val /\ Value(1) = stack[Len(stack)].val
    BY <1>1 DEF Value, Depth
  <2>3. 2 \in 1..Len(stack) /\ Len(stack) - 1 \in 1..Len(stack) /\ Len(stack) \in 1..Len(stack)
    BY <1>1, <2>1
  <2>4. Holds(stack, Operands) /\ Open(stack)
    BY <2>1, <2>3 DEF Holds, Operands, Open
  <2>5. Value(2) = Len(nodes) /\ Value(1) \in Kinds
    BY <1>1, <2>1, <2>2, <2>3 DEF SymbolOK, Kinds
  <2>6. CurrentVarName' = CurrentVarName /\ \A k \in NamesIn(text) : CurrentVarName = text[k]
    BY <1>2, <1>5, <2>1, <2>3 DEF Named, ArrayOfComplex, globals
  <2>7. /\ Parsing /\ NewNode(2, Value(1), Value(2))
        /\ UNCHANGED <<status, next, read, text, specifier, CurrentBaseType, loop, inits>>
    BY <1>5 DEF ArrayOfComplex, globals
  <2> QED
    BY <1>1, <1>2, <2>3, <2>4, <2>5, <2>6, <2>7, NodeStep
<1>6. CASE PointerToComplex
  <2>1. Len(stack) > 1 /\ stack[Len(stack)].sym = "cv"
    BY <1>1, <1>6, TopTwo DEF PointerToComplex
  <2>2. Value(1) = stack[Len(stack)].val
    BY <1>1 DEF Value, Depth
  <2>3. 2 \in 1..Len(stack) /\ Len(stack) \in 1..Len(stack)
    BY <1>1, <2>1
  <2>4. Holds(stack, Operands) /\ Open(stack)
    BY <2>1, <2>3 DEF Holds, Operands, Open
  <2>5. Value(1) = Len(nodes) /\ "ptr" \in Kinds
    BY <1>1, <2>1, <2>2, <2>3 DEF SymbolOK, Kinds
  <2>6. CurrentVarName' = CurrentVarName /\ \A k \in NamesIn(text) : CurrentVarName = text[k]
    BY <1>2, <1>6, <2>1, <2>3 DEF Named, PointerToComplex, globals
  <2>7. /\ Parsing /\ NewNode(2, "ptr", Value(1))
        /\ UNCHANGED <<status, next, read, text, specifier, CurrentBaseType, loop, inits>>
    BY <1>6 DEF PointerToComplex, globals
  <2> QED
    BY <1>1, <1>2, <2>3, <2>4, <2>5, <2>6, <2>7, NodeStep
<1> QED
  BY <1>3, <1>4, <1>5, <1>6

----------------------------------------------------------------------------
\* Steps of the parser that create no node and complete no variable.

LEMMA FrameStep ==
    ASSUME IInv, UNCHANGED <<nodes, inits, loop>>, status # "reverse", status' # "reverse",
           Plain', stack' \in Seq(SymbolRec(Len(nodes))), Shape(stack', Len(nodes)),
           status' \in {"between", "parsed"} => stack' = <<>>,
           Named(stack', text', CurrentVarName'), Based', Open(stack') => Open(stack)
    PROVE  IInv'
<1>1. TypeOK'
  <2>1. /\ Len(nodes') = Len(nodes) /\ nodes' \in Seq(NodeRec(Len(nodes)))
        /\ {curNode', fatherNode'} \subseteq {Null} \cup 1..Len(nodes)
        /\ inits' \in Seq(InitRec(Len(nodes)))
    BY TypeParts DEF IInv, loop
  <2> QED
    BY <2>1, TypePartsNext
<1>2. StackAt'
  BY DEF StackAt
<1>3. (Chained(nodes) /\ Reversing /\ NamesAsWritten)'
  BY DEF IInv, Reversing, NamesAsWritten
<1>4. Apart'
  <2>1. Low' = Low
    BY DEF Low
  <2>2. ASSUME NEW i \in 1..Len(inits), inits[i].complexType # Null
        PROVE  Complete(nodes, inits[i], stack', Low)
    <3>1. Complete(nodes, inits[i], stack, Low)
      BY <2>2 DEF IInv, Apart
    <3> QED
      BY <3>1 DEF Complete
  <2> QED
    BY <2>1, <2>2 DEF IInv, Apart
<1> QED
  BY <1>1, <1>2, <1>3, <1>4 DEF IInv

LEMMA ParenthesesStep ==
    ASSUME IInv, Parentheses
    PROVE  IInv'
<1>1. /\ stack \in Seq(SymbolRec(Len(nodes))) /\ Len(stack) \in Nat
      /\ \A i \in 1..(Len(stack) - 2) : stack[i].sym \in Openers
      /\ \A i \in 1..Len(stack) : SymbolOK(stack[i], Len(nodes))
  BY BelowTwo
<1> DEFINE p == Len(stack) - 1
           sym == stack[p].sym
           val == stack[p].val
<1>2. Len(stack) > 2 /\ sym \in Operands
  BY <1>1, TopThree DEF Parentheses, Operands
<1>3. p \in 1..Len(stack) /\ 3 \in 1..Len(stack) /\ Len(nodes) \in Nat
  <2>1. Len(nodes) \in Nat
    BY NodeFacts DEF IInv
  <2> QED
    BY <1>1, <1>2, <2>1
<1>4. stack' = Reduced(3, sym, val)
  BY <1>1 DEF Parentheses, Value, Depth
<1>5. \A i \in 1..(Len(stack) - 3) : stack[i].sym \in Openers
  BY <1>1
<1>6. Holds(stack, Operands)
  BY <1>2, <1>3 DEF Holds
<1>7. SymbolOK([sym |-> sym, val |-> val], Len(nodes))
  BY <1>1, <1>3 DEF SymbolOK
<1>8. Named(stack, text, CurrentVarName) /\ Shape(stack, Len(nodes))
  BY DEF IInv, StackAt
<1>9. \A k \in NamesIn(text) : IF sym = "id" THEN val = text[k] ELSE CurrentVarName = text[k]
  BY <1>2, <1>3, <1>8 DEF Named, Operands
<1>10. Open(stack) <=> sym = "cv"
  <2>1. sym = "cv" => Open(stack)
    BY <1>3 DEF Open, Holds
  <2>2. ASSUME Open(stack) PROVE sym = "cv"
    <3>1. PICK i \in 1..Len(stack) : stack[i].sym = "cv"
      BY <2>2 DEF Open, Holds
    <3>2. i \notin 1..(Len(stack) - 2)
      BY <1>1, <3>1 DEF Openers
    <3>3. i # Len(stack)
      BY <1>1, <3>1, TopThree DEF Parentheses
    <3>4. i = p
      BY <1>1, <3>2, <3>3
    <3> QED
      BY <3>1, <3>4
  <2> QED
    BY <2>1, <2>2
<1> HIDE DEF sym, val, p
<1>11. Reduced(3, sym, val) \in Seq(SymbolRec(Len(nodes))) /\ Shape(Reduced(3, sym, val), Len(nodes))
  <2> DEFINE n == 3
  <2>1. n \in 1..Len(stack) /\ \A i \in 1..(Len(stack) - n) : stack[i].sym \in Openers
    BY <1>3, <1>5
  <2>2. Len(nodes) <= Len(nodes)
    BY <1>3
  <2> HIDE DEF n
  <2>3. Reduced(n, sym, val) \in Seq(SymbolRec(Len(nodes))) /\ Shape(Reduced(n, sym, val), Len(nodes))
    BY <1>1, <1>2, <1>3, <1>7, <1>8, <2>1, <2>2, ReducedShape, Zenon
  <2> QED
    BY <2>3 DEF n
<1>12. /\ Named(Reduced(3, sym, val), text, CurrentVarName)
       /\ Open(Reduced(3, sym, val)) <=> sym = "cv"
  BY <1>1, <1>2, <1>3, <1>5, <1>6, <1>8, <1>9, ReducedNamed
<1>13. /\ UNCHANGED <<nodes, inits, loop, text, CurrentVarName>> /\ status = "declarator"
       /\ status' = "declarator" /\ Plain' /\ Based'
  BY TypeParts DEF Parentheses, Parsing, IInv, Plain, Based, globals
<1> QED
  BY <1>4, <1>10, <1>11, <1>12, <1>13, FrameStep

LEMMA TextAppended ==
    ASSUME NEW t \in Seq(Tokens), NEW x \in Tokens
    PROVE  LET u == Append(t, x)
           IN  /\ u \in Seq(Tokens)
               /\ \A i \in NamesIn(t) : u[i] = t[i]
               /\ x \notin Names => NamesIn(u) = NamesIn(t)
               /\ x \in Names => NamesIn(u) = NamesIn(t) \cup {Len(t) + 1} /\ u[Len(t) + 1] = x
<1> DEFINE u == Append(t, x)
           n == Len(t)
<1>1. /\ u \in Seq(Tokens) /\ Len(u) = n + 1 /\ u[n + 1] = x /\ n \in Nat
      /\ \A i \in 1..n : u[i] = t[i]
  BY AppendProperties
<1> HIDE DEF u
<1>2. \A i \in NamesIn(t) : u[i] = t[i]
  BY <1>1 DEF NamesIn
<1>3. \A i \in 1..Len(u) : i \in 1..n \/ i = n + 1
  BY <1>1
<1>4. \A i \in NamesIn(u) : i \in NamesIn(t) \/ (i = n + 1 /\ x \in Names)
  BY <1>1, <1>3 DEF NamesIn
<1>5. \A i \in NamesIn(t) : i \in NamesIn(u)
  BY <1>1 DEF NamesIn
<1>6. x \in Names => n + 1 \in NamesIn(u)
  BY <1>1 DEF NamesIn
<1>7. x \notin Names => NamesIn(u) = NamesIn(t)
  BY <1>4, <1>5
<1>8. x \in Names => NamesIn(u) = NamesIn(t) \cup {n + 1}
  BY <1>4, <1>5, <1>6
<1> QED
  BY <1>1, <1>2, <1>7, <1>8 DEF u

\* An opener or a name comes on a stack of openers.
LEMMA ShiftFirst ==
    ASSUME IInv, Parsing, stack' = Append(stack, Symbol(next)), text' = Append(text, next),
           stack = <<>> \/ stack[Len(stack)].sym \in Openers, next \in {"*", "("} \cup Names
    PROVE  /\ stack' \in Seq(SymbolRec(Len(nodes))) /\ Shape(stack', Len(nodes))
           /\ Named(stack', text', CurrentVarName) /\ ~Open(stack')
<1> DEFINE n == Len(stack)
           e == Symbol(next)
<1>1. /\ stack \in Seq(SymbolRec(Len(nodes))) /\ n \in Nat
      /\ Shape(stack, Len(nodes)) /\ Named(stack, text, CurrentVarName) /\ text \in Seq(Tokens)
  BY BelowTwo DEF IInv, StackAt, TypeOK
<1>2. \A i \in 1..n : stack[i].sym \in Openers
  <2>1. CASE n = 0
    BY <2>1
  <2>2. CASE n # 0
    <3>1. stack # <<>>
      BY <2>2
    <3>2. stack[n].sym \in Openers
      BY <3>1
    <3>3. \A i \in 1..(n - 1) : stack[i].sym \in Openers
      BY <1>1, <3>2, Below DEF Openers, Closers
    <3> QED
      BY <1>1, <3>2, <3>3
  <2> QED
    BY <2>1, <2>2
<1>3. /\ next \in Names => e.sym = "id" /\ e.val = next
      /\ next \notin Names => e.sym \in Openers
      /\ e \in SymbolRec(Len(nodes)) /\ SymbolOK(e, Len(nodes)) /\ e.sym \in Openers \cup {"id"}
  BY TokenAssumption DEF Symbol, SymbolRec, SymbolOK, Openers, Operands, Closers, Null
<1> HIDE DEF e, n
<1>4. /\ stack' \in Seq(SymbolRec(Len(nodes))) /\ Len(stack') = n + 1 /\ stack'[n + 1] = e
      /\ \A i \in 1..n : stack'[i] = stack[i]
  BY <1>1, <1>3, AppendProperties DEF e, n
<1>5. next \in Tokens
  BY DEF IInv, TypeOK
<1> DEFINE st == stack'
           t == text'
<1>6. /\ \A i \in NamesIn(text) : t[i] = text[i]
      /\ next \notin Names => NamesIn(t) = NamesIn(text)
      /\ next \in Names => NamesIn(t) = NamesIn(text) \cup {Len(text) + 1} /\ t[Len(text) + 1] = next
  BY <1>1, <1>5, TextAppended
<1>7. Len(st) = n + 1 /\ st[n + 1] = e /\ \A i \in 1..n : st[i] = stack[i]
  BY <1>4
<1> HIDE DEF st, t
<1>8. \A i \in 1..Len(st) : i = n + 1 \/ i \in 1..n
  BY <1>1, <1>7
<1>9. \A i \in 1..Len(st) : /\ SymbolOK(st[i], Len(nodes)) /\ st[i].sym \notin Closers
                            /\ st[i].sym \in Operands => i = n + 1 /\ next \in Names
                            /\ st[i].sym # ")" /\ st[i].sym # "cv"
  BY <1>1, <1>2, <1>3, <1>7, <1>8 DEF Shape, Openers, Operands, Closers, n
<1>10. Shape(st, Len(nodes))
  BY <1>7, <1>9, Zenon DEF Shape
<1>11. ~Holds(stack, Operands)
  BY <1>2 DEF Holds, Openers, Operands, n
<1>12. NamesIn(text) = {}
  BY <1>1, <1>11 DEF Named
<1>13. ~Open(st)
  BY <1>9 DEF Open, Holds
<1>14. CASE next \in Names
  <2>1. n + 1 \in 1..Len(st) /\ st[n + 1].sym = "id" /\ st[n + 1].val = next
    BY <1>1, <1>3, <1>7, <1>14 DEF n
  <2>2. Holds(st, Operands)
    BY <2>1 DEF Holds, Operands
  <2>3. Named(st, t, CurrentVarName)
    BY <1>6, <1>9, <1>12, <1>14, <2>1, <2>2 DEF Named, Operands
  <2> QED
    BY <1>4, <1>10, <1>13, <2>3 DEF st, t
<1>15. CASE next \notin Names
  <2>1. ~Holds(st, Operands)
    BY <1>9, <1>15 DEF Holds
  <2>2. Named(st, t, CurrentVarName)
    BY <1>6, <1>12, <1>15, <2>1 DEF Named
  <2> QED
    BY <1>4, <1>10, <1>13, <2>2 DEF st, t
<1> QED
  BY <1>14, <1>15

\* A size or a closing parenthesis comes behind the operand.
LEMMA ShiftLast ==
    ASSUME IInv, Parsing, stack' = Append(stack, Symbol(next)), text' = Append(text, next),
           Len(stack) > 0, stack[Len(stack)].sym \in Operands, next \in Sizes \cup {")"},
           next = ")" => Len(stack) > 1 /\ stack[Len(stack) - 1].sym = "("
    PROVE  /\ stack' \in Seq(SymbolRec(Len(nodes))) /\ Shape(stack', Len(nodes))
           /\ Named(stack', text', CurrentVarName)
           /\ Open(stack') => Open(stack)
<1> DEFINE n == Len(stack)
           e == Symbol(next)
<1>1. /\ stack \in Seq(SymbolRec(Len(nodes))) /\ n \in Nat
      /\ Shape(stack, Len(nodes)) /\ Named(stack, text, CurrentVarName) /\ text \in Seq(Tokens)
  BY BelowTwo DEF IInv, StackAt, TypeOK
<1>2. next \notin Names /\ next \in Tokens
  BY TokenAssumption DEF IInv, TypeOK
<1>3. /\ next = ")" \/ e.sym # ")"
      /\ e \in SymbolRec(Len(nodes)) /\ SymbolOK(e, Len(nodes)) /\ e.sym \in Closers
  BY <1>2, TokenAssumption DEF Symbol, SymbolRec, SymbolOK, Openers, Operands, Closers, Null
<1> HIDE DEF e, n
<1>4. /\ stack' \in Seq(SymbolRec(Len(nodes))) /\ Len(stack') = n + 1 /\ stack'[n + 1] = e
      /\ \A i \in 1..n : stack'[i] = stack[i]
  BY <1>1, <1>3, AppendProperties DEF e, n
<1> DEFINE st == stack'
           t == text'
<1>6. NamesIn(t) = NamesIn(text) /\ \A i \in NamesIn(text) : t[i] = text[i]
  BY <1>1, <1>2, TextAppended
<1>7. Len(st) = n + 1 /\ st[n + 1] = e /\ \A i \in 1..n : st[i] = stack[i]
  BY <1>4
<1>5. /\ n \in 1..n /\ stack[n].sym \in Operands
      /\ next = ")" => n > 1 /\ stack[n - 1].sym = "("
  BY <1>1 DEF n
<1> HIDE DEF st, t
<1>8. \A i \in 1..Len(st) : i = n + 1 \/ i \in 1..n
  BY <1>1, <1>7
<1>9. \A i \in 1..n : /\ SymbolOK(stack[i], Len(nodes)) /\ stack[i].sym \notin Closers
                      /\ stack[i].sym \in Operands => i = n
  BY <1>1, <1>5 DEF Shape, Operands, Closers, n
<1>10. \A i \in 1..Len(st) :
          /\ SymbolOK(st[i], Len(nodes))
          /\ st[i].sym \in Operands => i = Len(st) - 1 /\ st[Len(st)].sym \in Closers
          /\ st[i].sym \in Closers => i = Len(st) /\ i > 1 /\ st[i - 1].sym \in Operands
          /\ st[i].sym = ")" => i > 2 /\ st[i - 2].sym = "("
  <2> SUFFICES ASSUME NEW i \in 1..Len(st)
               PROVE  /\ SymbolOK(st[i], Len(nodes))
                      /\ st[i].sym \in Operands => i = Len(st) - 1 /\ st[Len(st)].sym \in Closers
                      /\ st[i].sym \in Closers => i = Len(st) /\ i > 1 /\ st[i - 1].sym \in Operands
                      /\ st[i].sym = ")" => i > 2 /\ st[i - 2].sym = "("
    OBVIOUS
  <2>1. CASE i \in 1..n
    <3>1. st[i] = stack[i] /\ st[Len(st)].sym \in Closers /\ Len(st) - 1 = n
      BY <1>1, <1>3, <1>7, <2>1
    <3>2. st[i].sym # ")"
      BY <1>9, <2>1, <3>1 DEF Closers
    <3> QED
      BY <1>9, <2>1, <3>1, <3>2
  <2>2. CASE i = n + 1
    <3>1. st[i] = e /\ i = Len(st) /\ i > 1 /\ i - 1 = n /\ st[n] = stack[n]
      <4>1. st[n] = stack[n] /\ n >= 1
        BY <1>1, <1>5, <1>7
      <4>2. i > 1 /\ i - 1 = n
        BY <1>1, <2>2, <4>1
      <4> QED
        BY <1>7, <2>2, <4>1, <4>2
    <3>2. e.sym \notin Operands
      BY <1>3 DEF Operands, Closers
    <3>3. e.sym = ")" => i > 2 /\ st[i - 2].sym = "("
      <4>1. next = ")" => n > 1 /\ n - 1 \in 1..n /\ i - 2 = n - 1
        BY <1>1, <1>5, <2>2
      <4> QED
        BY <1>1, <1>3, <1>5, <1>7, <2>2, <4>1
    <3> QED
      BY <1>3, <1>5, <3>1, <3>2, <3>3
  <2> QED
    BY <1>8, <2>1, <2>2
<1>11. Shape(st, Len(nodes))
  BY <1>10, Zenon DEF Shape
<1>12. /\ Holds(st, Operands) /\ Holds(stack, Operands)
       /\ \A i \in 1..Len(st) : st[i].sym \in Operands => i \in 1..n /\ st[i] = stack[i]
  <2>1. n \in 1..Len(st) /\ st[n] = stack[n] /\ n \in 1..Len(stack)
    BY <1>1, <1>5, <1>7 DEF n
  <2>2. Holds(st, Operands) /\ Holds(stack, Operands)
    BY <1>5, <2>1 DEF Holds
  <2>3. \A i \in 1..Len(st) : st[i].sym \in Operands => i \in 1..n /\ st[i] = stack[i]
    BY <1>3, <1>7, <1>8 DEF Operands, Closers
  <2> QED
    BY <2>2, <2>3
<1>13. Named(st, t, CurrentVarName)
  BY <1>1, <1>6, <1>12 DEF Named, Operands, n
<1>14. Open(st) => Open(stack)
  BY <1>12 DEF Open, Holds, Operands, n
<1> QED
  BY <1>4, <1>11, <1>13, <1>14 DEF st, t

LEMMA ReadNext ==
    ASSUME IInv, ReadToken
    PROVE  next' \in Tokens /\ read' \in Nat
<1>1. "eof" \in Tokens
  BY DEF Tokens
<1>2. read' = read + 1 /\ read \in Nat
  BY DEF ReadToken, IInv, TypeOK
<1>3. next' \in Tokens \/ next' = "eof"
  BY Zenon DEF ReadToken
<1> QED
  BY <1>1, <1>2, <1>3

LEMMA ShiftStep ==
    ASSUME IInv, Shift
    PROVE  IInv'
<1>1. stack \in Seq(SymbolRec(Len(nodes))) /\ Len(stack) \in Nat
  BY BelowTwo
<1>2. /\ Parsing /\ Shiftable /\ stack' = Append(stack, Symbol(next)) /\ text' = Append(text, next)
      /\ UNCHANGED <<nodes, inits, loop, CurrentVarName>> /\ status = "declarator"
      /\ status' = "declarator" /\ Based'
  BY DEF Shift, Parsing, globals, Based, IInv
<1>3. text' \in Seq(Tokens)
  <2>1. text \in Seq(Tokens) /\ next \in Tokens
    BY DEF IInv, TypeOK
  <2> QED
    BY <1>2, <2>1, TextAppended
<1>4. Plain'
  <2>1. next' \in Tokens /\ read' \in Nat
    BY ReadNext DEF Shift
  <2>2. /\ {specifier', CurrentBaseType'} \subseteq BaseTypes \cup {NoBase}
        /\ CurrentVarName' \in Names \cup {NoName}
    BY DEF Shift, globals, IInv, TypeOK
  <2> QED
    BY <1>2, <1>3, <2>1, <2>2 DEF Plain
<1>5. CASE (stack = <<>> \/ OnTop(<<"*">>) \/ OnTop(<<"(">>)) /\ next \in {"*", "("} \cup Names
  <2>1. stack = <<>> \/ stack[Len(stack)].sym \in Openers
    BY <1>1, <1>5, TopOne DEF Openers
  <2>2. /\ stack' \in Seq(SymbolRec(Len(nodes))) /\ Shape(stack', Len(nodes))
        /\ Named(stack', text', CurrentVarName) /\ ~Open(stack')
    BY <1>2, <1>5, <2>1, ShiftFirst
  <2> QED
    BY <1>2, <1>4, <2>2, FrameStep
<1>6. CASE \/ (OnTop(<<"id">>) \/ OnTop(<<"cv">>)) /\ next \in Sizes
           \/ (OnTop(<<"(", "id">>) \/ OnTop(<<"(", "cv">>)) /\ next = ")"
  <2>1. /\ Len(stack) > 0 /\ stack[Len(stack)].sym \in Operands /\ next \in Sizes \cup {")"}
        /\ next = ")" => Len(stack) > 1 /\ stack[Len(stack) - 1].sym = "("
    <3>1. CASE (OnTop(<<"id">>) \/ OnTop(<<"cv">>)) /\ next \in Sizes
      <4>1. next # ")"
        BY <3>1, TokenAssumption
      <4> QED
        BY <1>1, <3>1, <4>1, TopOne DEF Operands
    <3>2. CASE (OnTop(<<"(", "id">>) \/ OnTop(<<"(", "cv">>)) /\ next = ")"
      BY <1>1, <3>2, TopTwo DEF Operands
    <3> QED
      BY <1>6, <3>1, <3>2
  <2>2. /\ stack' \in Seq(SymbolRec(Len(nodes))) /\ Shape(stack', Len(nodes))
        /\ Named(stack', text', CurrentVarName)
        /\ Open(stack') => Open(stack)
    BY <1>2, <2>1, ShiftLast
  <2> QED
    BY <1>2, <1>4, <2>2, FrameStep
<1> QED
  BY <1>2, <1>5, <1>6 DEF Shiftable

\* Steps that leave the stack and the text as they are.
LEMMA IdleStep ==
    ASSUME IInv, \/ \E type \in BaseTypes : VarDefBaseType(type)
                 \/ InitializedVar \/ SyntaxError \/ EndOfText \/ Ended \/ UNCHANGED vars
    PROVE  IInv'
<1>1. /\ stack \in Seq(SymbolRec(Len(nodes))) /\ Shape(stack, Len(nodes))
      /\ Named(stack, text, CurrentVarName) /\ Plain
      /\ status \in {"between", "parsed"} => stack = <<>>
  BY TypeParts DEF IInv, StackAt
<1>2. CASE \E type \in BaseTypes : VarDefBaseType(type)
  <2>1. /\ UNCHANGED <<nodes, inits, loop, stack, text, CurrentVarName>>
        /\ status = "between" /\ status' = "declarator"
    BY <1>2 DEF VarDefBaseType
  <2>2. next' \in Tokens /\ read' \in Nat
    BY <1>2, ReadNext DEF VarDefBaseType
  <2>3. Plain' /\ Based'
    BY <1>1, <1>2, <2>2 DEF VarDefBaseType, Plain, Based
  <2> QED
    BY <1>1, <2>1, <2>3, FrameStep
<1>3. CASE InitializedVar
  <2>1. /\ UNCHANGED <<nodes, inits, loop, stack, text, CurrentVarName>>
        /\ status = "declarator" /\ status' = "declarator"
    BY <1>3 DEF InitializedVar, Parsing, globals
  <2>2. next' \in Tokens /\ read' \in Nat
    <3>1. "," \in Tokens /\ ";" \in Tokens /\ "eof" \in Tokens
      BY DEF Tokens
    <3>2. next' \in {",", ";", "eof"}
      BY <1>3 DEF InitializedVar
    <3>3. next' \in Tokens
      BY <3>1, <3>2, Zenon
    <3>4. read \in Nat /\ read' = read + 1
      BY <1>1, <1>3 DEF InitializedVar, Plain
    <3> QED
      BY <3>3, <3>4
  <2>3. Plain' /\ Based'
    BY <1>1, <1>3, <2>2 DEF InitializedVar, Parsing, globals, Plain, IInv, Based
  <2> QED
    BY <1>1, <2>1, <2>3, FrameStep
<1>4. CASE SyntaxError
  <2>1. /\ UNCHANGED <<nodes, inits, loop, stack, text, CurrentVarName>>
        /\ status = "declarator" /\ status' = "exited"
    BY <1>4 DEF SyntaxError, Parsing, globals
  <2>2. Plain' /\ Based'
    BY <1>1, <1>4 DEF SyntaxError, Parsing, globals, Plain, IInv, Based
  <2> QED
    BY <1>1, <2>1, <2>2, FrameStep
<1>5. CASE EndOfText
  <2>1. /\ UNCHANGED <<nodes, inits, loop, stack, text, CurrentVarName>>
        /\ status = "between" /\ status' = "parsed"
    BY <1>5 DEF EndOfText, globals
  <2>2. Plain' /\ Based'
    BY <1>1, <1>5 DEF EndOfText, globals, Plain, IInv, Based
  <2> QED
    BY <1>1, <2>1, <2>2, FrameStep
<1>6. CASE Ended \/ UNCHANGED vars
  <2>1. UNCHANGED <<status, stack, next, read, text, globals, nodes, loop, inits>>
    BY <1>6 DEF Ended, vars
  <2>2. UNCHANGED <<specifier, CurrentBaseType, CurrentVarName, curNode, fatherNode>>
    BY <2>1 DEF globals, loop
  <2>3. TypeOK'
    BY <2>1, <2>2 DEF IInv, TypeOK, Node
  <2>4. StackAt' /\ Based' /\ Reversing' /\ NamesAsWritten' /\ Chained(nodes')
    BY <2>1, <2>2 DEF IInv, StackAt, Based, Reversing, NamesAsWritten
  <2>5. Named(stack', text', CurrentVarName') /\ Apart'
    BY <2>1, <2>2 DEF IInv, Apart, Low
  <2> QED
    BY <2>3, <2>4, <2>5 DEF IInv
<1> QED
  BY <1>2, <1>3, <1>4, <1>5, <1>6

----------------------------------------------------------------------------
\* The end of a declarator.

\* A variable is complete: its name is the one in its declarator.
LEMMA InitAdded ==
    ASSUME IInv, NEW name \in Names, NEW complexType \in {Null} \cup 1..Len(nodes),
           EndVarInit(name, complexType), specifier \in BaseTypes,
           UNCHANGED globals, \E k \in NamesIn(text) : name = text[k]
    PROVE  /\ inits' \in Seq(InitRec(Len(nodes))) /\ Len(inits') = Len(inits) + 1
           /\ \A i \in 1..Len(inits) : inits'[i] = inits[i]
           /\ inits'[Len(inits) + 1].complexType = complexType
           /\ inits'[Len(inits) + 1].base = specifier
           /\ NamesAsWritten' /\ Plain' /\ Based'
           /\ stack' = <<>> /\ Named(stack', text', CurrentVarName')
           /\ status' \in {"between", "declarator"}
<1> DEFINE e == [name |-> name, complexType |-> complexType, base |-> specifier, text |-> text]
           m == Len(nodes)
<1>1. inits' = Append(inits, e) /\ stack' = <<>> /\ text' = <<>>
  BY DEF EndVarInit
<1>2. /\ inits \in Seq(InitRec(m)) /\ Plain /\ Named(stack, text, CurrentVarName)
      /\ NamesAsWritten /\ text \in Seq(Tokens)
  BY TypeParts DEF IInv, Plain
<1>3. e \in InitRec(m) /\ e.name = name /\ e.complexType = complexType /\ e.base = specifier /\ e.text = text
  BY <1>2 DEF InitRec
<1> HIDE DEF e, m
<1>4. /\ inits' \in Seq(InitRec(m)) /\ Len(inits') = Len(inits) + 1 /\ inits'[Len(inits) + 1] = e
      /\ \A i \in 1..Len(inits) : inits'[i] = inits[i]
  BY <1>1, <1>2, <1>3, AppendProperties
<1>5. Len(inits) \in Nat
  BY <1>2
<1>6. name = NameIn(text)
  <2>1. PICK k \in 1..Len(text) : text[k] \in Names /\ name = text[k]
    BY DEF NamesIn
  <2>2. \A i, j \in 1..Len(text) : text[i] \in Names /\ text[j] \in Names => i = j
    BY <1>2 DEF Named, NamesIn
  <2> DEFINE c == CHOOSE i \in 1..Len(text) : text[i] \in Names
  <2>3. c \in 1..Len(text) /\ text[c] \in Names
    BY <2>1
  <2> HIDE DEF c
  <2>4. c = k
    BY <2>1, <2>2, <2>3
  <2> QED
    BY <2>1, <2>4 DEF NameIn, c
<1>7. NamesAsWritten'
  <2> SUFFICES ASSUME NEW i \in 1..Len(inits')
               PROVE  inits'[i].name = NameIn(inits'[i].text)
    BY Zenon DEF NamesAsWritten, NameIn
  <2>1. i \in 1..Len(inits) \/ i = Len(inits) + 1
    BY <1>4, <1>5
  <2>2. CASE i \in 1..Len(inits)
    BY <1>2, <1>4, <2>2 DEF NamesAsWritten
  <2>3. CASE i = Len(inits) + 1
    BY <1>3, <1>4, <1>6, <2>3
  <2> QED
    BY <2>1, <2>2, <2>3
<1>8. status' \in {"between", "declarator"} /\ next' \in Tokens /\ read' \in Nat
  <2>1. CASE next = ","
    <3>1. ReadToken /\ status' = "declarator"
      BY <2>1 DEF EndVarInit
    <3> QED
      BY <3>1, ReadNext
  <2>2. CASE next # ","
    BY <1>2, <2>2 DEF EndVarInit, Plain
  <2> QED
    BY <2>1, <2>2
<1>9. Plain' /\ Based'
  <2>1. text' \in Seq(Tokens)
    BY <1>1, EmptySeq
  <2> QED
    BY <1>2, <1>8, <2>1 DEF Plain, Based, globals, IInv
<1>10. Named(stack', text', CurrentVarName')
  <2> DEFINE t == <<>>
  <2>1. Len(t) = 0 /\ stack' = t /\ text' = t
    BY <1>1
  <2> HIDE DEF t
  <2>2. NamesIn(t) = {} /\ ~Holds(t, Operands) /\ 1..Len(t) = {}
    BY <2>1 DEF NamesIn, Holds
  <2> QED
    BY <2>1, <2>2 DEF Named
<1> QED
  BY <1>1, <1>3, <1>4, <1>7, <1>8, <1>9, <1>10 DEF m

LEMMA EmptyStack ==
    ASSUME NEW n, NEW st, st = <<>>
    PROVE  st \in Seq(SymbolRec(n)) /\ Shape(st, n) /\ ~Open(st)
<1>1. Len(st) = 0 /\ st \in Seq(SymbolRec(n))
  OBVIOUS
<1>2. 1..Len(st) = {}
  BY <1>1
<1> QED
  BY <1>1, <1>2 DEF Shape, Open, Holds

LEMMA PlainVarStep ==
    ASSUME IInv, PlainVar
    PROVE  IInv'
<1>1. /\ stack \in Seq(SymbolRec(Len(nodes))) /\ Len(stack) = 1 /\ stack[1].sym = "id"
      /\ status = "declarator" /\ Value(1) = stack[1].val
  <2>1. stack \in Seq(SymbolRec(Len(nodes)))
    BY BelowTwo
  <2>2. Len(stack) = 1 /\ OnTop(<<"id">>)
    BY DEF PlainVar, Depth
  <2>3. stack[1].sym = "id"
    BY <2>1, <2>2, TopOne
  <2> QED
    BY <2>1, <2>2, <2>3 DEF PlainVar, Parsing, Value, Depth
<1>2. Value(1) \in Names /\ \E k \in NamesIn(text) : Value(1) = text[k]
  <2>1. SymbolOK(stack[1], Len(nodes)) /\ 1 \in 1..Len(stack)
    BY <1>1, BelowTwo
  <2>2. Holds(stack, Operands) /\ Named(stack, text, CurrentVarName)
    BY <1>1, <2>1 DEF Holds, Operands, IInv
  <2>3. PICK k \in NamesIn(text) : TRUE
    BY <2>2 DEF Named
  <2>4. stack[1].val = text[k]
    BY <1>1, <2>1, <2>2, <2>3 DEF Named
  <2> QED
    BY <1>1, <2>1, <2>3, <2>4 DEF SymbolOK
<1>3. ~Open(stack)
  BY <1>1 DEF Open, Holds
<1>4. EndVarInit(Value(1), Null) /\ UNCHANGED globals /\ UNCHANGED <<nodes, curNode, fatherNode>>
  BY DEF PlainVar, loop
<1>5. specifier \in BaseTypes
  BY <1>1 DEF IInv, Based
<1>6. /\ inits' \in Seq(InitRec(Len(nodes))) /\ Len(inits') = Len(inits) + 1
      /\ \A i \in 1..Len(inits) : inits'[i] = inits[i]
      /\ inits'[Len(inits) + 1].complexType = Null
      /\ NamesAsWritten' /\ Plain' /\ Based'
      /\ stack' = <<>> /\ Named(stack', text', CurrentVarName')
      /\ status' \in {"between", "declarator"}
  BY <1>2, <1>4, <1>5, InitAdded
<1>7. stack' \in Seq(SymbolRec(Len(nodes))) /\ Shape(stack', Len(nodes)) /\ ~Open(stack')
  BY <1>6, EmptyStack
<1>8. TypeOK'
  <2>1. /\ nodes' \in Seq(NodeRec(Len(nodes))) /\ Len(nodes') = Len(nodes)
        /\ {curNode', fatherNode'} \subseteq {Null} \cup 1..Len(nodes)
    BY <1>4, TypeParts DEF IInv
  <2> QED
    BY <1>6, <1>7, <2>1, TypePartsNext
<1>9. StackAt' /\ Chained(nodes') /\ Reversing'
  BY <1>4, <1>6, <1>7 DEF IInv, StackAt, Reversing
<1>10. Apart'
  <2>1. \A i \in 1..Len(inits') : inits'[i].complexType # Null => i \in 1..Len(inits) /\ inits'[i] = inits[i]
    <3>1. Len(inits) \in Nat
      BY TypeParts DEF IInv
    <3>2. \A i \in 1..Len(inits') : i \in 1..Len(inits) \/ i = Len(inits) + 1
      BY <1>6, <3>1
    <3> QED
      BY <1>6, <3>2
  <2>2. ASSUME NEW i \in 1..Len(inits), inits[i].complexType # Null
        PROVE  Complete(nodes, inits[i], stack', Low')
    <3>1. Complete(nodes, inits[i], stack, Low)
      BY <2>2 DEF IInv, Apart
    <3> QED
      BY <1>7, <3>1 DEF Complete
  <2> DEFINE ins == inits'
  <2>3. \A i \in 1..Len(ins) : ins[i].complexType # Null => Complete(nodes', ins[i], stack', Low')
    BY <1>4, <2>1, <2>2
  <2>4. \A i, j \in 1..Len(ins) :
           ins[i].complexType # Null /\ ins[j].complexType = ins[i].complexType => j = i
    BY <2>1 DEF IInv, Apart
  <2> QED
    BY <2>3, <2>4 DEF Apart
<1> QED
  BY <1>6, <1>8, <1>9, <1>10 DEF IInv

----------------------------------------------------------------------------
\* ReverseComplexType.

\* The declarator on the stack, when it has nodes.
LEMMA ComplexTop ==
    ASSUME IInv, Len(stack) = 1, stack[1].sym = "cv"
    PROVE  /\ Value(1) = Len(nodes) /\ Len(nodes) \in 1..Len(nodes) /\ Open(stack)
           /\ CurrentVarName \in Names /\ \E k \in NamesIn(text) : CurrentVarName = text[k]
<1>1. SymbolOK(stack[1], Len(nodes)) /\ 1 \in 1..Len(stack)
  BY BelowTwo
<1>2. Value(1) = stack[1].val
  BY DEF Value, Depth
<1>3. Len(nodes) \in Nat
  BY NodeFacts DEF IInv
<1>4. Value(1) = Len(nodes) /\ Len(nodes) \in 1..Len(nodes)
  BY <1>1, <1>2, <1>3 DEF SymbolOK
<1>5. Holds(stack, Operands) /\ Open(stack) /\ Named(stack, text, CurrentVarName)
  BY <1>1 DEF Holds, Operands, Open, IInv
<1>6. PICK k \in NamesIn(text) : TRUE
  BY <1>5 DEF Named
<1>7. CurrentVarName = text[k] /\ text[k] \in Names
  BY <1>1, <1>5, <1>6 DEF Named, NamesIn
<1> QED
  BY <1>4, <1>5, <1>6, <1>7

LEMMA BeginReverseStep ==
    ASSUME IInv, BeginReverse
    PROVE  IInv'
<1>1. stack \in Seq(SymbolRec(Len(nodes)))
  BY BelowTwo
<1>2. Len(stack) = 1 /\ stack[1].sym = "cv"
  BY <1>1, TopOne DEF BeginReverse, Depth
<1>3. Value(1) = Len(nodes) /\ Len(nodes) \in 1..Len(nodes)
  BY <1>2, ComplexTop
<1>4. /\ status = "declarator" /\ status' = "reverse" /\ curNode' = Len(nodes)
      /\ fatherNode' = nodes[Len(nodes)].father
      /\ UNCHANGED <<stack, next, read, text, specifier, CurrentBaseType, CurrentVarName, nodes, inits>>
  BY <1>3 DEF BeginReverse, Parsing, globals
<1>5. nodes[Len(nodes)] \in NodeRec(Len(nodes))
  BY <1>3, NodeFacts DEF IInv
<1>6. TypeOK'
  <2>1. {curNode', fatherNode'} \subseteq {Null} \cup 1..Len(nodes)
    BY <1>3, <1>4, <1>5 DEF NodeRec
  <2>2. /\ Len(nodes') = Len(nodes) /\ nodes' \in Seq(NodeRec(Len(nodes)))
        /\ inits' \in Seq(InitRec(Len(nodes))) /\ stack' \in Seq(SymbolRec(Len(nodes)))
        /\ Plain'
    BY <1>4, TypeParts DEF IInv, Plain
  <2> QED
    BY <2>1, <2>2, TypePartsNext
<1>7. Reversing'
  <2>1. Len(nodes) \in Nat
    BY NodeFacts DEF IInv
  <2> QED
    BY <1>3, <1>4, <2>1 DEF Reversing
<1>8. StackAt' /\ Based' /\ NamesAsWritten' /\ Chained(nodes')
  BY <1>2, <1>4 DEF IInv, StackAt, Based, NamesAsWritten
<1>9. Named(stack', text', CurrentVarName')
  BY <1>4 DEF IInv
<1>10. Apart'
  <2>1. Low = Len(nodes) /\ Low' = Len(nodes)
    BY <1>4 DEF Low
  <2> QED
    BY <1>4, <2>1 DEF IInv, Apart
<1> QED
  BY <1>6, <1>7, <1>8, <1>9, <1>10 DEF IInv

\* The nodes nd with x as the element of node k.
WithElem(nd, k, x) == [nd EXCEPT ![k].elem = x]

\* One node is written to.
LEMMA NodeChanged ==
    ASSUME NEW m \in Nat, NEW nd \in Seq(NodeRec(m)), Len(nd) = m, NEW k \in 1..m,
           NEW x \in {Null} \cup 1..m \cup BaseTypes
    PROVE  LET md == WithElem(nd, k, x)
           IN  /\ md \in Seq(NodeRec(m)) /\ Len(md) = m
               /\ \A i \in 1..m : md[i].father = nd[i].father /\ md[i].kind = nd[i].kind
               /\ \A i \in 1..m : i # k => md[i].elem = nd[i].elem
               /\ md[k].elem = x
<1> DEFINE e == [nd[k] EXCEPT !.elem = x]
           md == [nd EXCEPT ![k] = e]
<1>1. nd[k] \in NodeRec(m)
  BY ElementOfSeq
<1>2. e \in NodeRec(m) /\ e.father = nd[k].father /\ e.kind = nd[k].kind /\ e.elem = x
  BY <1>1 DEF NodeRec
<1>3. md = WithElem(nd, k, x)
  BY DEF WithElem
<1> HIDE DEF e
<1>4. /\ md \in Seq(NodeRec(m)) /\ Len(md) = m
      /\ \A i \in 1..m : md[i] = IF i = k THEN e ELSE nd[i]
  BY <1>2, ExceptSeq
<1> HIDE DEF md
<1>5. /\ \A i \in 1..m : md[i].father = nd[i].father /\ md[i].kind = nd[i].kind
      /\ \A i \in 1..m : i # k => md[i].elem = nd[i].elem
      /\ md[k].elem = x
  BY <1>2, <1>4
<1> QED
  BY <1>3, <1>4, <1>5

LEMMA ReverseStepStep ==
    ASSUME IInv, ReverseStep
    PROVE  IInv'
<1> DEFINE m == Len(nodes)
           f == fatherNode
<1>1. /\ status = "reverse" /\ status' = "reverse" /\ f # Null
      /\ curNode' = f /\ fatherNode' = nodes[f].father
      /\ UNCHANGED <<stack, next, read, text, specifier, CurrentBaseType, CurrentVarName, inits>>
      /\ nodes' = [nodes EXCEPT ![f].elem = curNode]
  BY DEF ReverseStep, globals
<1>2. /\ m \in Nat /\ nodes \in Seq(NodeRec(m))
      /\ \A k \in 1..m : nodes[k] \in NodeRec(m)
      /\ curNode \in 1..m /\ f = nodes[curNode].father
      /\ \A k \in curNode..(m - 1) : nodes[k].elem = k + 1
  BY <1>1, NodeFacts DEF IInv, Reversing
<1>3. f \in 1..m /\ f = curNode - 1 /\ nodes[curNode].father # Null
  BY <1>1, <1>2 DEF IInv, Chained, Null
<1> HIDE DEF m, f
<1>4. /\ nodes' \in Seq(NodeRec(m)) /\ Len(nodes') = m
      /\ \A i \in 1..m : nodes'[i].father = nodes[i].father
      /\ \A i \in 1..m : i # f => nodes'[i].elem = nodes[i].elem
      /\ nodes'[f].elem = curNode
  <2>1. curNode \in {Null} \cup 1..m \cup BaseTypes /\ Len(nodes) = m
    BY <1>2 DEF m
  <2> DEFINE md == WithElem(nodes, f, curNode)
  <2>2. /\ md \in Seq(NodeRec(m)) /\ Len(md) = m
        /\ \A i \in 1..m : md[i].father = nodes[i].father
        /\ \A i \in 1..m : i # f => md[i].elem = nodes[i].elem
        /\ md[f].elem = curNode
    BY <1>2, <1>3, <2>1, NodeChanged
  <2>3. nodes' = md
    BY <1>1 DEF WithElem
  <2> HIDE DEF md
  <2> QED
    BY <2>2, <2>3
<1>5. TypeOK'
  <2>1. nodes[f].father \in {Null} \cup 1..m
    BY <1>2, <1>3 DEF NodeRec
  <2>2. /\ {curNode', fatherNode'} \subseteq {Null} \cup 1..m
    BY <1>1, <1>3, <2>1
  <2>3. /\ inits' \in Seq(InitRec(m)) /\ stack' \in Seq(SymbolRec(m)) /\ Plain'
    BY <1>1, TypeParts DEF IInv, Plain, m
  <2> QED
    BY <1>4, <2>2, <2>3, TypePartsNext
<1> DEFINE nd == nodes'
<1>6. /\ Len(nd) = m /\ \A i \in 1..m : nd[i].father = nodes[i].father
      /\ \A i \in 1..m : i # f => nd[i].elem = nodes[i].elem
      /\ nd[f].elem = curNode
  BY <1>4
<1> HIDE DEF nd
<1>7. Chained(nd)
  <2> SUFFICES ASSUME NEW k \in 1..m
               PROVE  /\ nd[k].father \in {Null, k - 1}
                      /\ nd[k].elem \in 1..m => nd[k].elem = k + 1 /\ nd[k + 1].father = k
    BY <1>6 DEF Chained
  <2>1. nodes[k].father \in {Null, k - 1} /\ nd[k].father = nodes[k].father
    BY <1>6 DEF IInv, Chained, m
  <2>2. CASE k = f
    <3>1. nd[k].elem = k + 1 /\ k + 1 = curNode
      BY <1>2, <1>3, <1>6, <2>2
    <3>2. nd[k + 1].father = k
      BY <1>2, <1>6, <2>2, <3>1
    <3> QED
      BY <2>1, <3>1, <3>2
  <2>3. CASE k # f
    <3>1. nodes[k].elem \in 1..m => nodes[k].elem = k + 1 /\ nodes[k + 1].father = k
      BY DEF IInv, Chained, m
    <3>2. nodes[k].elem \in 1..m => k + 1 \in 1..m
      BY <1>2, <3>1
    <3> QED
      BY <1>6, <2>1, <2>3, <3>1, <3>2
  <2> QED
    BY <2>2, <2>3
<1>8. \A k \in f..(m - 1) : nd[k].elem = k + 1
  <2> SUFFICES ASSUME NEW k \in f..(m - 1) PROVE nd[k].elem = k + 1
    OBVIOUS
  <2>1. CASE k = f
    BY <1>2, <1>3, <1>6, <2>1
  <2>2. CASE k # f
    <3>1. k \in curNode..(m - 1) /\ k \in 1..m
      BY <1>2, <1>3, <2>2
    <3> QED
      BY <1>2, <1>6, <2>2, <3>1
  <2> QED
    BY <2>1, <2>2
<1>9. Reversing'
  <2>1. curNode' \in 1..m /\ fatherNode' = nd[f].father
    BY <1>1, <1>3, <1>6
  <2> QED
    BY <1>1, <1>6, <1>8, <2>1 DEF Reversing, nd
<1>10. StackAt' /\ Based' /\ NamesAsWritten' /\ Named(stack', text', CurrentVarName')
  BY <1>1, <1>4 DEF IInv, StackAt, Based, NamesAsWritten, m
<1>11. Apart'
  <2>1. Low = curNode /\ Low' = f
    BY <1>1 DEF Low
  <2>2. Len(stack) = 1 /\ stack[1].sym = "cv"
    BY <1>1 DEF IInv, StackAt
  <2>3. Open(stack)
    BY <2>2, ComplexTop
  <2>4. Raises(nodes, nd, stack, curNode, stack, f)
    <3>1. f \in Nat /\ curNode \in Nat /\ curNode <= m /\ f = curNode - 1
      BY <1>2, <1>3
    <3> QED
      BY <1>2, <1>3, <1>6, <2>3, <3>1 DEF Raises, m
  <2>5. ASSUME NEW i \in 1..Len(inits), inits[i].complexType # Null
        PROVE  Complete(nd, inits[i], stack, f)
    <3>1. Complete(nodes, inits[i], stack, curNode)
      BY <2>1, <2>5 DEF IInv, Apart
    <3>2. inits[i].complexType \in 1..Len(nodes)
      <4>1. inits[i] \in InitRec(Len(nodes))
        BY TypeParts, ElementOfSeq DEF IInv
      <4> QED
        BY <2>5, <4>1 DEF InitRec
    <3> QED
      BY <2>4, <3>1, <3>2, CompleteKept
  <2> QED
    BY <1>1, <2>1, <2>5 DEF IInv, Apart, nd
<1>12. Chained(nodes')
  BY <1>7 DEF nd
<1> QED
  BY <1>5, <1>9, <1>10, <1>11, <1>12 DEF IInv

LEMMA EndReverseStep ==
    ASSUME IInv, EndReverse
    PROVE  IInv'
<1> DEFINE m == Len(nodes)
           n == Len(inits)
<1>1. /\ status = "reverse" /\ fatherNode = Null
      /\ nodes' = [nodes EXCEPT ![Value(1)].elem = CurrentBaseType]
      /\ EndVarInit(CurrentVarName, curNode) /\ UNCHANGED globals
      /\ UNCHANGED <<curNode, fatherNode>>
  BY DEF EndReverse, loop
<1>2. /\ m \in Nat /\ nodes \in Seq(NodeRec(m))
      /\ curNode \in 1..m /\ nodes[curNode].father = Null
      /\ \A k \in curNode..(m - 1) : nodes[k].elem = k + 1
  BY <1>1, NodeFacts DEF IInv, Reversing
<1>3. /\ Value(1) = m /\ m \in 1..m /\ Open(stack) /\ CurrentVarName \in Names
      /\ \E k \in NamesIn(text) : CurrentVarName = text[k]
  <2>1. Len(stack) = 1 /\ stack[1].sym = "cv"
    BY <1>1 DEF IInv, StackAt
  <2> QED
    BY <2>1, ComplexTop
<1>4. specifier \in BaseTypes /\ CurrentBaseType = specifier
  BY <1>1 DEF IInv, Based
<1>5. /\ inits' \in Seq(InitRec(m)) /\ Len(inits') = n + 1
      /\ \A i \in 1..n : inits'[i] = inits[i]
      /\ inits'[n + 1].complexType = curNode
      /\ inits'[n + 1].base = specifier
      /\ NamesAsWritten' /\ Plain' /\ Based'
      /\ stack' = <<>> /\ Named(stack', text', CurrentVarName')
      /\ status' \in {"between", "declarator"}
  <2>1. curNode \in {Null} \cup 1..Len(nodes)
    BY <1>2
  <2> QED
    BY <1>1, <1>3, <1>4, <2>1, InitAdded
<1>6. stack' \in Seq(SymbolRec(m)) /\ Shape(stack', m) /\ ~Open(stack')
  BY <1>5, EmptyStack
<1>7. \A k \in 1..m : nodes[k].elem \in 1..m => nodes[k].elem = k + 1 /\ nodes[k + 1].father = k
  BY DEF IInv, Chained
<1>8. \A k \in 1..m : nodes[k].father \in {Null, k - 1}
  BY DEF IInv, Chained
<1>9. n \in Nat
  BY TypeParts DEF IInv
<1>10. Len(nodes) = m
  OBVIOUS
<1> HIDE DEF m, n
<1>11. /\ nodes' \in Seq(NodeRec(m)) /\ Len(nodes') = m
       /\ \A i \in 1..m : nodes'[i].father = nodes[i].father
       /\ \A i \in 1..m : i # m => nodes'[i].elem = nodes[i].elem
       /\ nodes'[m].elem = specifier
  <2>1. specifier \in {Null} \cup 1..m \cup BaseTypes
    BY <1>4
  <2> DEFINE md == WithElem(nodes, m, specifier)
  <2>2. /\ md \in Seq(NodeRec(m)) /\ Len(md) = m
        /\ \A i \in 1..m : md[i].father = nodes[i].father /\ md[i].kind = nodes[i].kind
        /\ \A i \in 1..m : i # m => md[i].elem = nodes[i].elem
        /\ md[m].elem = specifier
    BY <1>2, <1>3, <1>10, <2>1, NodeChanged
  <2>3. nodes' = md
    BY <1>1, <1>3, <1>4 DEF WithElem
  <2> HIDE DEF md
  <2> QED
    BY <2>2, <2>3
<1>12. TypeOK'
  <2>1. {curNode', fatherNode'} \subseteq {Null} \cup 1..m
    BY <1>1, <1>2
  <2> QED
    BY <1>5, <1>6, <1>11, <2>1, TypePartsNext
<1> DEFINE nd == nodes'
           ins == inits'
<1>13. /\ Len(nd) = m /\ \A i \in 1..m : nd[i].father = nodes[i].father
       /\ \A i \in 1..m : i # m => nd[i].elem = nodes[i].elem
       /\ nd[m].elem = specifier
  BY <1>11
<1>14. /\ Len(ins) = n + 1 /\ \A i \in 1..n : ins[i] = inits[i]
       /\ ins[n + 1].complexType = curNode /\ ins[n + 1].base = specifier
  BY <1>5
<1> HIDE DEF nd, ins
<1>15. Chained(nd)
  <2> SUFFICES ASSUME NEW k \in 1..m
               PROVE  /\ nd[k].father \in {Null, k - 1}
                      /\ nd[k].elem \in 1..m => nd[k].elem = k + 1 /\ nd[k + 1].father = k
    BY <1>13 DEF Chained
  <2>1. CASE k = m
    <3>1. specifier \notin Nat
      BY <1>4, TokenAssumption
    <3>2. nd[k].elem \notin 1..m
      BY <1>13, <2>1, <3>1
    <3> QED
      BY <1>8, <1>13, <3>2
  <2>2. CASE k # m
    <3>1. k + 1 \in 1..m
      BY <1>2, <2>2
    <3> QED
      BY <1>7, <1>8, <1>13, <2>2, <3>1
  <2> QED
    BY <2>1, <2>2
<1>16. StackAt' /\ Reversing'
  BY <1>5, <1>6, <1>11 DEF StackAt, Reversing
<1>17. Low = curNode
  BY <1>1 DEF Low
<1>18. ASSUME NEW i \in 1..n, inits[i].complexType # Null
       PROVE  Complete(nd, inits[i], stack', Low') /\ inits[i].complexType < curNode
  <2>1. Complete(nodes, inits[i], stack, curNode)
    BY <1>17, <1>18 DEF IInv, Apart, n
  <2>2. inits[i].complexType \in 1..Len(nodes)
    <3>1. inits[i] \in InitRec(Len(nodes))
      BY TypeParts, ElementOfSeq DEF IInv, n
    <3> QED
      BY <1>18, <3>1 DEF InitRec
  <2>3. Raises(nodes, nd, stack, curNode, stack', curNode)
    BY <1>2, <1>3, <1>6, <1>10, <1>13 DEF Raises
  <2>4. Complete(nd, inits[i], stack', curNode)
    BY <2>1, <2>2, <2>3, CompleteKept
  <2>5. Complete(nd, inits[i], stack', Low')
    BY <1>6, <2>4 DEF Complete
  <2>6. PICK last \in inits[i].complexType..Len(nodes) :
           \E first \in (last + 1)..curNode : nodes[first].father = Null
    BY <1>3, <2>1 DEF Complete
  <2>7. inits[i].complexType < curNode
    BY <1>2, <2>2, <2>6
  <2> QED
    BY <2>5, <2>7
<1>19. Complete(nd, ins[n + 1], stack', Low')
  <2>1. nd[curNode].father = Null
    BY <1>2, <1>13
  <2>2. TypeEnds(nd, curNode, m, specifier)
    <3>1. ASSUME NEW k \in curNode..(m - 1) PROVE nd[k].elem = k + 1
      <4>1. k \in 1..m /\ k # m
        BY <1>2
      <4> QED
        BY <1>2, <1>13, <4>1
    <3> QED
      BY <1>13, <3>1 DEF TypeEnds
  <2>3. m \in curNode..Len(nd)
    BY <1>2, <1>13
  <2> QED
    BY <1>6, <1>14, <2>1, <2>2, <2>3 DEF Complete
<1>20. \A i \in 1..(n + 1) : i \in 1..n \/ i = n + 1
  BY <1>9
<1>21. \A i \in 1..Len(ins) : ins[i].complexType # Null => Complete(nd, ins[i], stack', Low')
  BY <1>14, <1>18, <1>19, <1>20
<1>22. ASSUME NEW i \in 1..Len(ins), NEW j \in 1..Len(ins),
              ins[i].complexType # Null, ins[j].complexType = ins[i].complexType
       PROVE  j = i
  <2>1. CASE i \in 1..n /\ j \in 1..n
    BY <1>14, <1>22, <2>1 DEF IInv, Apart, n
  <2>2. CASE i \in 1..n /\ j = n + 1
    <3>1. inits[i].complexType < curNode /\ inits[i].complexType = curNode
      BY <1>14, <1>18, <1>22, <2>2
    <3> QED
      BY <1>2, <3>1
  <2>3. CASE i = n + 1 /\ j \in 1..n
    <3>1. inits[j].complexType # Null /\ inits[j].complexType = curNode
      BY <1>14, <1>22, <2>3
    <3>2. inits[j].complexType < curNode
      BY <1>18, <2>3, <3>1
    <3> QED
      BY <1>2, <3>1, <3>2
  <2> QED
    BY <1>14, <1>20, <2>1, <2>2, <2>3
<1>23. Apart' /\ Chained(nodes')
  BY <1>15, <1>21, <1>22 DEF Apart, nd, ins
<1> QED
  BY <1>5, <1>12, <1>16, <1>23 DEF IInv

----------------------------------------------------------------------------

LEMMA InitIInv == Init => IInv
<1> SUFFICES ASSUME Init PROVE IInv
  OBVIOUS
<1>1. /\ status = "between" /\ stack = <<>> /\ next = "eof" /\ read = 0 /\ text = <<>>
      /\ specifier = NoBase /\ CurrentBaseType = NoBase /\ CurrentVarName = NoName
      /\ nodes = <<>> /\ curNode = Null /\ fatherNode = Null /\ inits = <<>>
  BY DEF Init
<1>2. "eof" \in Tokens
  BY DEF Tokens
<1>3. Len(nodes) = 0 /\ Len(inits) = 0 /\ Len(text) = 0 /\ Len(stack) = 0
  BY <1>1
<1>4. TypeOK
  <2>1. Plain
    BY <1>1, <1>2 DEF Plain
  <2>2. nodes \in Seq(NodeRec(Len(nodes))) /\ inits \in Seq(InitRec(Len(nodes)))
    BY <1>1
  <2>3. stack \in Seq(SymbolRec(Len(nodes))) /\ {curNode, fatherNode} \subseteq {Null} \cup 1..Len(nodes)
    BY <1>1
  <2> QED
    BY <2>1, <2>2, <2>3, TypeParts
<1>5. StackAt /\ Based /\ Reversing
  BY <1>1, EmptyStack DEF StackAt, Based, Reversing
<1>6. Named(stack, text, CurrentVarName)
  BY <1>3 DEF Named, NamesIn, Holds
<1>7. Chained(nodes) /\ Apart /\ NamesAsWritten
  BY <1>3 DEF Chained, Apart, NamesAsWritten
<1> QED
  BY <1>4, <1>5, <1>6, <1>7 DEF IInv

\* The inductive invariant of the parser and of ReverseComplexType.
THEOREM DeclaratorsInductive == Spec => []IInv
<1>1. IInv /\ [Next]_vars => IInv'
  <2> SUFFICES ASSUME IInv, [Next]_vars PROVE IInv'
    OBVIOUS
  <2>1. CASE ArrayOfName \/ PointerToName \/ ArrayOfComplex \/ PointerToComplex
    BY <2>1, NodesStep
  <2>2. CASE Shift
    BY <2>2, ShiftStep
  <2>3. CASE Parentheses
    BY <2>3, ParenthesesStep
  <2>4. CASE \/ \E type \in BaseTypes : VarDefBaseType(type)
             \/ InitializedVar \/ SyntaxError \/ EndOfText \/ Ended \/ UNCHANGED vars
    BY <2>4, IdleStep
  <2>5. CASE PlainVar
    BY <2>5, PlainVarStep
  <2>6. CASE BeginReverse
    BY <2>6, BeginReverseStep
  <2>7. CASE ReverseStep
    BY <2>7, ReverseStepStep
  <2>8. CASE EndReverse
    BY <2>8, EndReverseStep
  <2> QED
    BY <2>1, <2>2, <2>3, <2>4, <2>5, <2>6, <2>7, <2>8 DEF Next, Step
<1> QED
  BY <1>1, InitIInv, PTL DEF Spec

\* Whatever is declared, the parser's stack, its globals and the nodes keep
\* their types; a node points to nodes there are (TypeOK).
THEOREM TypesHold == Spec => []TypeOK
<1>1. IInv => TypeOK
  BY DEF IInv
<1> QED
  BY <1>1, DeclaratorsInductive, PTL

\* Each variable gets the name in its own declarator, through the global
\* CurrentVarName and however deep declarators are nested (NamesAsWritten).
THEOREM NamesAreAsWritten == Spec => []NamesAsWritten
<1>1. IInv => NamesAsWritten
  BY DEF IInv
<1> QED
  BY <1>1, DeclaratorsInductive, PTL

\* After every reversal, each variable's type is a row of nodes of its own that
\* ends in the base type of its own definition, and stays so while later
\* declarators are parsed and reversed (TypesApart).
THEOREM TypesAreApart == Spec => []TypesApart
<1>1. IInv => TypesApart
  <2> SUFFICES ASSUME IInv PROVE TypesApart
    OBVIOUS
  <2>1. Chained(nodes) /\ Apart /\ Len(nodes) \in Nat
    BY NodeFacts DEF IInv
  <2>2. \A m, n \in Node : nodes[m].elem = nodes[n].elem /\ nodes[m].elem \in Node => m = n
    BY <2>1 DEF Chained, Node
  <2>3. ASSUME NEW i \in 1..Len(inits), inits[i].complexType # Null
        PROVE  /\ \A n \in Node : nodes[n].elem # inits[i].complexType
               /\ \A j \in 1..Len(inits) : inits[j].complexType = inits[i].complexType => j = i
               /\ \E last \in inits[i].complexType..Len(nodes) :
                     /\ nodes[last].elem = inits[i].base
                     /\ \A k \in inits[i].complexType..(last - 1) : nodes[k].elem = k + 1
    <3>1. Complete(nodes, inits[i], stack, Low)
      BY <2>1, <2>3 DEF Apart
    <3>2. inits[i].complexType \in 1..Len(nodes)
      <4>1. inits[i] \in InitRec(Len(nodes))
        BY TypeParts, ElementOfSeq DEF IInv
      <4> QED
        BY <2>3, <4>1 DEF InitRec
    <3>3. ASSUME NEW n \in 1..Len(nodes), nodes[n].elem = inits[i].complexType PROVE FALSE
      <4>1. nodes[inits[i].complexType].father = n /\ n # Null
        BY <2>1, <3>2, <3>3 DEF Chained, Null
      <4> QED
        BY <3>1, <4>1 DEF Complete
    <3>4. \A j \in 1..Len(inits) : inits[j].complexType = inits[i].complexType => j = i
      BY <2>1, <2>3 DEF Apart
    <3>5. \E last \in inits[i].complexType..Len(nodes) :
             /\ nodes[last].elem = inits[i].base
             /\ \A k \in inits[i].complexType..(last - 1) : nodes[k].elem = k + 1
      BY <3>1 DEF Complete, TypeEnds
    <3> QED
      BY <3>3, <3>4, <3>5 DEF Node
  <2> QED
    BY <2>2, <2>3, Zenon DEF TypesApart
<1> QED
  BY <1>1, DeclaratorsInductive, PTL

----------------------------------------------------------------------------
(***************************************************************************)
(* The types of variables, for texts of every length: each variable gets   *)
(* the type that C reads in its declarator (TypesReadAsC), and the         *)
(* reversal loses no node on the way (ReversalSplits).                     *)
(*                                                                         *)
(* The definitions that these properties use are recursive functions.      *)
(* That such a function exists is shown by an induction over sets of       *)
(* natural numbers (Fixpoint), what it computes by others.                 *)
(***************************************************************************)

----------------------------------------------------------------------------
\* Induction over the natural numbers and recursive functions.

LessThan == {pair \in Nat \X Nat : pair[1] < pair[2]}

LEMMA LessThanWF == IsWellFoundedOn(LessThan, Nat)
BY NatLessThanWellFounded DEF OpToRel, LessThan

LEMMA SmallestOf ==
    ASSUME NEW T \in SUBSET Nat, T # {}
    PROVE  \E n \in T : \A m \in T : n <= m
<1>1. PICK n \in T : \A m \in T : ~(<<m, n>> \in LessThan)
  BY LessThanWF, WFMin
<1>2. \A m \in T : ~(m < n)
  BY <1>1 DEF LessThan
<1> QED
  BY <1>2

LEMMA SetInduction ==
    ASSUME NEW T \in SUBSET Nat, 0 \in T, \A n \in T : n + 1 \in T
    PROVE  \A n \in Nat : n \in T
<1> SUFFICES ASSUME Nat \ T # {} PROVE FALSE
  OBVIOUS
<1>1. PICK n \in Nat \ T : \A m \in Nat \ T : n <= m
  BY SmallestOf
<1>2. n # 0 /\ n - 1 \in Nat
  BY <1>1
<1>3. n - 1 \notin T
  BY <1>1, <1>2
<1> QED
  BY <1>1, <1>2, <1>3

LEMMA MeasureInduction ==
    ASSUME NEW S, NEW m \in [S -> Nat], NEW G,
           \A x \in S : (\A y \in S : m[y] < m[x] => y \in G) => x \in G
    PROVE  \A x \in S : x \in G
<1> DEFINE T == {m[x] : x \in {y \in S : y \notin G}}
<1> SUFFICES ASSUME T # {} PROVE FALSE
  OBVIOUS
<1>1. T \in SUBSET Nat
  OBVIOUS
<1>2. PICK n \in T : \A k \in T : n <= k
  <2> HIDE DEF T
  <2> QED
    BY <1>1, SmallestOf
<1>3. PICK x \in S : x \notin G /\ n = m[x]
  OBVIOUS
<1>4. ASSUME NEW y \in S, y \notin G
      PROVE  ~(m[y] < m[x])
  <2>1. m[y] \in T
    BY <1>4
  <2> HIDE DEF T
  <2>2. n <= m[y]
    BY <1>2, <2>1
  <2> QED
    BY <1>3, <2>2
<1> QED
  BY <1>3, <1>4

\* The value of the functional F at x depends on what has a smaller measure only.
Descends(F, S, T, m) ==
    \A g, h \in [S -> T] : \A x \in S : (\A y \in S : m[y] < m[x] => g[y] = h[y]) => F[g][x] = F[h][x]

HasFixpoint(F, S, T) == \E f \in [S -> T] : f = F[f]

LEMMA Fixpoint ==
    ASSUME NEW S, NEW T, T # {}, NEW m \in [S -> Nat], NEW K \in Nat, \A x \in S : m[x] < K,
           NEW F \in [[S -> T] -> [S -> T]], Descends(F, S, T, m)
    PROVE  HasFixpoint(F, S, T)
<1> DEFINE Good(k) == \E g \in [S -> T] : \A x \in S : m[x] < k => g[x] = F[g][x]
           N == {k \in Nat : Good(k)}
<1>1. 0 \in N
  <2>1. PICK t \in T : TRUE
    OBVIOUS
  <2>2. [x \in S |-> t] \in [S -> T] /\ \A x \in S : ~(m[x] < 0)
    OBVIOUS
  <2>3. Good(0)
    BY <2>2
  <2> QED
    BY <2>3
<1>2. ASSUME NEW k \in N
      PROVE  k + 1 \in N
  <2>1. PICK g \in [S -> T] : \A x \in S : m[x] < k => g[x] = F[g][x]
    OBVIOUS
  <2>2. F[g] \in [S -> T]
    OBVIOUS
  <2>3. ASSUME NEW x \in S, m[x] < k + 1
        PROVE  F[g][x] = F[F[g]][x]
    <3>1. \A y \in S : m[y] < m[x] => g[y] = F[g][y]
      BY <2>1, <2>3
    <3> QED
      BY <2>2, <3>1 DEF Descends
  <2> QED
    BY <2>2, <2>3
<1>3. K \in N
  <2>1. N \in SUBSET Nat
    OBVIOUS
  <2> HIDE DEF N
  <2> QED
    BY <1>1, <1>2, <2>1, SetInduction
<1>4. PICK g \in [S -> T] : \A x \in S : m[x] < K => g[x] = F[g][x]
  BY <1>3
<1>5. \A x \in S : g[x] = F[g][x]
  BY <1>4
<1>6. F[g] \in [S -> T]
  OBVIOUS
<1>7. g = F[g]
  BY <1>5, <1>6
<1> QED
  BY <1>7 DEF HasFixpoint

----------------------------------------------------------------------------
\* How C reads a text, place by place.

At(t, i) == IF i \in 1..Len(t) THEN t[i] ELSE "eof"

Places(t) == (0..Len(t)) \X (1..(Len(t) + 1))

ReadOnce(t, g, place) ==
    LET l == place[1]
        r == place[2]
    IN  CASE At(t, r) \in Sizes                 -> <<At(t, r)>> \o g[<<l, r + 1>>]
          [] At(t, l) = "(" /\ At(t, r) = ")"   -> g[<<l - 1, r + 1>>]
          [] At(t, r) \notin Sizes /\ At(t, l) = "*" -> <<"ptr">> \o g[<<l - 1, r>>]
          [] OTHER                              -> <<>>

\* Where there is something to be read, there is a place behind it.
LEMMA PlaceFacts ==
    ASSUME NEW t \in Seq(Tokens), NEW l \in 0..Len(t), NEW r \in 1..(Len(t) + 1)
    PROVE  /\ At(t, r) \in Sizes \/ At(t, r) = ")" =>
                 r \in 1..Len(t) /\ r + 1 \in 1..(Len(t) + 1) /\ At(t, r) = t[r]
           /\ At(t, l) = "(" \/ At(t, l) = "*" =>
                 l \in 1..Len(t) /\ l - 1 \in 0..Len(t) /\ At(t, l) = t[l]
<1>1. "eof" \notin Sizes
  BY TokenAssumption
<1>2. Len(t) \in Nat
  OBVIOUS
<1> QED
  BY <1>1, <1>2 DEF At

\* How much of the text is left to be read.
Left(t, place) == place[1] + (Len(t) + 1 - place[2])

LEMMA LessLeft ==
    ASSUME NEW t \in Seq(Tokens), NEW x \in Places(t)
    PROVE  /\ Left(t, x) \in Nat /\ Left(t, x) < 2 * Len(t) + 2
           /\ At(t, x[2]) \in Sizes =>
                 <<x[1], x[2] + 1>> \in Places(t) /\ Left(t, <<x[1], x[2] + 1>>) < Left(t, x)
           /\ At(t, x[1]) = "(" /\ At(t, x[2]) = ")" =>
                 /\ <<x[1] - 1, x[2] + 1>> \in Places(t)
                 /\ Left(t, <<x[1] - 1, x[2] + 1>>) < Left(t, x)
           /\ At(t, x[1]) = "*" =>
                 <<x[1] - 1, x[2]>> \in Places(t) /\ Left(t, <<x[1] - 1, x[2]>>) < Left(t, x)
<1> DEFINE n == Len(t)
           l == x[1]
           r == x[2]
<1>1. n \in Nat /\ l \in 0..n /\ r \in 1..(n + 1)
  BY DEF Places
<1>2. /\ At(t, r) \in Sizes \/ At(t, r) = ")" => r \in 1..n
      /\ At(t, l) = "(" \/ At(t, l) = "*" => l \in 1..n
  BY <1>1, PlaceFacts
<1>3. ASSUME NEW a \in 0..n, NEW b \in 1..(n + 1)
      PROVE  <<a, b>> \in Places(t) /\ Left(t, <<a, b>>) = a + (n + 1 - b)
  BY DEF Places, Left
<1>4. Left(t, x) = l + (n + 1 - r)
  BY DEF Left
<1> HIDE DEF n, l, r
<1>5. Left(t, x) \in Nat /\ Left(t, x) < 2 * n + 2
  BY <1>1, <1>4
<1>6. ASSUME r \in 1..n
      PROVE  <<l, r + 1>> \in Places(t) /\ Left(t, <<l, r + 1>>) < Left(t, x)
  <2>1. r + 1 \in 1..(n + 1) /\ l + (n + 1 - (r + 1)) < l + (n + 1 - r)
    BY <1>1, <1>6
  <2> QED
    BY <1>1, <1>3, <1>4, <2>1
<1>7. ASSUME r \in 1..n, l \in 1..n
      PROVE  <<l - 1, r + 1>> \in Places(t) /\ Left(t, <<l - 1, r + 1>>) < Left(t, x)
  <2>1. r + 1 \in 1..(n + 1) /\ l - 1 \in 0..n /\ (l - 1) + (n + 1 - (r + 1)) < l + (n + 1 - r)
    BY <1>1, <1>7
  <2> QED
    BY <1>3, <1>4, <2>1
<1>8. ASSUME l \in 1..n
      PROVE  <<l - 1, r>> \in Places(t) /\ Left(t, <<l - 1, r>>) < Left(t, x)
  <2>1. l - 1 \in 0..n /\ (l - 1) + (n + 1 - r) < l + (n + 1 - r)
    BY <1>1, <1>8
  <2> QED
    BY <1>1, <1>3, <1>4, <2>1
<1> QED
  BY <1>2, <1>5, <1>6, <1>7, <1>8 DEF n, l, r

LEMMA ReadOnceDepends ==
    ASSUME NEW t \in Seq(Tokens), NEW x \in Places(t), NEW g, NEW h,
           \A y \in Places(t) : Left(t, y) < Left(t, x) => g[y] = h[y]
    PROVE  ReadOnce(t, g, x) = ReadOnce(t, h, x)
<1>1. /\ At(t, x[2]) \in Sizes => g[<<x[1], x[2] + 1>>] = h[<<x[1], x[2] + 1>>]
      /\ At(t, x[1]) = "(" /\ At(t, x[2]) = ")" => g[<<x[1] - 1, x[2] + 1>>] = h[<<x[1] - 1, x[2] + 1>>]
      /\ At(t, x[1]) = "*" => g[<<x[1] - 1, x[2]>>] = h[<<x[1] - 1, x[2]>>]
  BY LessLeft
<1> QED
  BY <1>1 DEF ReadOnce

LEMMA ReadOnceType ==
    ASSUME NEW t \in Seq(Tokens), NEW x \in Places(t), NEW g,
           \A y \in Places(t) : Left(t, y) < Left(t, x) => g[y] \in Seq(Kinds)
    PROVE  ReadOnce(t, g, x) \in Seq(Kinds)
<1>1. /\ At(t, x[2]) \in Sizes => g[<<x[1], x[2] + 1>>] \in Seq(Kinds)
      /\ At(t, x[1]) = "(" /\ At(t, x[2]) = ")" => g[<<x[1] - 1, x[2] + 1>>] \in Seq(Kinds)
      /\ At(t, x[1]) = "*" => g[<<x[1] - 1, x[2]>>] \in Seq(Kinds)
  BY LessLeft
<1>2. \A k \in Kinds : \A s \in Seq(Kinds) : <<k>> \o s \in Seq(Kinds)
  OBVIOUS
<1>3. "ptr" \in Kinds /\ Sizes \subseteq Kinds
  BY DEF Kinds
<1> QED
  BY <1>1, <1>2, <1>3 DEF ReadOnce

\* What is read from a place starts with what is there.
LEMMA ReadStep ==
    ASSUME NEW t \in Seq(Tokens)
    PROVE  \A x \in Places(t) :
              ReadFrom(t)[x] \in Seq(Kinds) /\ ReadFrom(t)[x] = ReadOnce(t, ReadFrom(t), x)
<1> DEFINE S == Places(t)
           T == Seq(Kinds)
           m == [x \in S |-> Left(t, x)]
           F == [g \in [S -> T] |-> [x \in S |-> ReadOnce(t, g, x)]]
           K == 2 * Len(t) + 2
           R == ReadFrom(t)
<1>1. m \in [S -> Nat] /\ \A x \in S : m[x] < K
  BY LessLeft
<1>2. K \in Nat
  OBVIOUS
<1>3. T # {}
  <2>1. <<>> \in T
    OBVIOUS
  <2> QED
    BY <2>1
<1>4. F \in [[S -> T] -> [S -> T]]
  BY ReadOnceType
<1>5. Descends(F, S, T, m)
  <2> SUFFICES ASSUME NEW g \in [S -> T], NEW h \in [S -> T], NEW x \in S,
                      \A y \in S : m[y] < m[x] => g[y] = h[y]
               PROVE  F[g][x] = F[h][x]
    BY DEF Descends
  <2>1. ReadOnce(t, g, x) = ReadOnce(t, h, x)
    BY ReadOnceDepends
  <2> QED
    BY <2>1
<1>6. \E f : f = [x \in S |-> ReadOnce(t, f, x)]
  <2>1. PICK f \in [S -> T] : f = F[f]
    <3>1. m \in [S -> Nat]
      BY <1>1
    <3>2. \A x \in S : m[x] < K
      BY <1>1
    <3> HIDE DEF S, T, m, F, K
    <3>3. HasFixpoint(F, S, T)
      BY <3>1, <3>2, <1>2, <1>3, <1>4, <1>5, Fixpoint
    <3> QED
      BY <3>3 DEF HasFixpoint
  <2> QED
    BY <2>1
<1>7. R = [x \in S |-> ReadOnce(t, R, x)]
  BY <1>6, Zenon DEF ReadFrom, ReadOnce, At, Places
<1> HIDE DEF R
<1>8. \A x \in S : R[x] = ReadOnce(t, R, x)
  BY <1>7
<1>9. \A x \in S : x \in {y \in S : R[y] \in T}
  <2> DEFINE G == {y \in S : R[y] \in T}
  <2>1. ASSUME NEW x \in S, \A y \in S : m[y] < m[x] => y \in G
        PROVE  x \in G
    <3>1. \A y \in S : Left(t, y) < Left(t, x) => R[y] \in T
      BY <2>1
    <3>2. ReadOnce(t, R, x) \in T
      BY <3>1, ReadOnceType
    <3> QED
      BY <1>8, <3>2
  <2> HIDE DEF S, m, G
  <2>2. \A x \in S : (\A y \in S : m[y] < m[x] => y \in G) => x \in G
    BY <2>1
  <2>3. \A x \in S : x \in G
    BY <1>1, <2>2, MeasureInduction
  <2> QED
    BY <2>3 DEF G
<1> QED
  BY <1>8, <1>9 DEF R

----------------------------------------------------------------------------
\* The nodes along the links.

Targets == {Null} \cup Node \cup BaseTypes

LEMMA NodeLinks ==
    ASSUME TypeOK
    PROVE  /\ Len(nodes) \in Nat
           /\ \A n \in Node : /\ nodes[n].kind \in Kinds
                              /\ nodes[n].father \in {Null} \cup Node
                              /\ nodes[n].elem \in Targets
           /\ Node \subseteq Nat /\ Null \notin Node
<1>1. Len(nodes) \in Nat /\ \A n \in Node : nodes[n] \in NodeRec(Len(nodes))
  BY TypeParts, ElementOfSeq DEF Node
<1> QED
  BY <1>1 DEF NodeRec, Targets, Node, Null

FathersOnce(f, k, n) == IF n = Null \/ k = 0 THEN {} ELSE {n} \cup f[<<k - 1, nodes[n].father>>]

LEMMA FathersStep ==
    ASSUME TypeOK
    PROVE  \A k \in 0..Len(nodes), n \in {Null} \cup Node :
              Fathers[<<k, n>>] = FathersOnce(Fathers, k, n)
<1> DEFINE S == (0..Len(nodes)) \X ({Null} \cup Node)
           T == SUBSET Node
           m == [x \in S |-> x[1]]
           F == [g \in [S -> T] |-> [x \in S |-> FathersOnce(g, x[1], x[2])]]
           K == Len(nodes) + 1
<1>1. /\ K \in Nat /\ \A x \in S : x[1] \in Nat /\ x[1] < K
      /\ \A x \in S : x[1] # 0 /\ x[2] # Null =>
            /\ x[2] \in Node /\ <<x[1] - 1, nodes[x[2]].father>> \in S /\ x[1] - 1 < x[1]
  BY NodeLinks
<1>2. m \in [S -> Nat] /\ \A x \in S : m[x] < K
  BY <1>1
<1>3. T # {}
  OBVIOUS
<1>4. F \in [[S -> T] -> [S -> T]]
  BY <1>1 DEF FathersOnce
<1>5. Descends(F, S, T, m)
  <2> SUFFICES ASSUME NEW g \in [S -> T], NEW h \in [S -> T], NEW x \in S,
                      \A y \in S : m[y] < m[x] => g[y] = h[y]
               PROVE  F[g][x] = F[h][x]
    BY DEF Descends
  <2>1. x[1] # 0 /\ x[2] # Null =>
           g[<<x[1] - 1, nodes[x[2]].father>>] = h[<<x[1] - 1, nodes[x[2]].father>>]
    BY <1>1
  <2>2. FathersOnce(g, x[1], x[2]) = FathersOnce(h, x[1], x[2])
    BY <2>1 DEF FathersOnce
  <2> QED
    BY <2>2
<1>6. \E f : f = [x \in S |-> FathersOnce(f, x[1], x[2])]
  <2>1. HasFixpoint(F, S, T)
    <3> HIDE DEF S, T, m, F, K
    <3> QED
      BY <1>1, <1>2, <1>3, <1>4, <1>5, Fixpoint
  <2>2. PICK f \in [S -> T] : f = F[f]
    BY <2>1 DEF HasFixpoint
  <2> QED
    BY <2>2
<1>7. Fathers = [x \in S |-> FathersOnce(Fathers, x[1], x[2])]
  BY <1>6, Zenon DEF Fathers, FathersOnce
<1>8. \A k \in 0..Len(nodes), n \in {Null} \cup Node : <<k, n>> \in S
  OBVIOUS
<1> HIDE DEF S
<1> QED
  BY <1>7, <1>8

ElementsOnce(f, k, n) == IF n \notin Node \/ k = 0 THEN {} ELSE {n} \cup f[<<k - 1, nodes[n].elem>>]

LEMMA ElementsStep ==
    ASSUME TypeOK
    PROVE  \A k \in 0..Len(nodes), n \in Targets :
              Elements[<<k, n>>] = ElementsOnce(Elements, k, n)
<1> DEFINE S == (0..Len(nodes)) \X (Targets)
           T == SUBSET Node
           m == [x \in S |-> x[1]]
           F == [g \in [S -> T] |-> [x \in S |-> ElementsOnce(g, x[1], x[2])]]
           K == Len(nodes) + 1
<1>1. /\ K \in Nat /\ \A x \in S : x[1] \in Nat /\ x[1] < K
      /\ \A x \in S : x[1] # 0 /\ x[2] \in Node =>
            <<x[1] - 1, nodes[x[2]].elem>> \in S /\ x[1] - 1 < x[1]
  BY NodeLinks
<1>2. m \in [S -> Nat] /\ \A x \in S : m[x] < K
  BY <1>1
<1>3. T # {}
  OBVIOUS
<1>4. F \in [[S -> T] -> [S -> T]]
  BY <1>1 DEF ElementsOnce
<1>5. Descends(F, S, T, m)
  <2> SUFFICES ASSUME NEW g \in [S -> T], NEW h \in [S -> T], NEW x \in S,
                      \A y \in S : m[y] < m[x] => g[y] = h[y]
               PROVE  F[g][x] = F[h][x]
    BY DEF Descends
  <2>1. x[1] # 0 /\ x[2] \in Node =>
           g[<<x[1] - 1, nodes[x[2]].elem>>] = h[<<x[1] - 1, nodes[x[2]].elem>>]
    BY <1>1
  <2>2. ElementsOnce(g, x[1], x[2]) = ElementsOnce(h, x[1], x[2])
    BY <2>1 DEF ElementsOnce
  <2> QED
    BY <2>2
<1>6. \E f : f = [x \in S |-> ElementsOnce(f, x[1], x[2])]
  <2>1. HasFixpoint(F, S, T)
    <3> HIDE DEF S, T, m, F, K
    <3> QED
      BY <1>1, <1>2, <1>3, <1>4, <1>5, Fixpoint
  <2>2. PICK f \in [S -> T] : f = F[f]
    BY <2>1 DEF HasFixpoint
  <2> QED
    BY <2>2
<1>7. Elements = [x \in S |-> ElementsOnce(Elements, x[1], x[2])]
  BY <1>6, Zenon DEF Elements, ElementsOnce, Targets
<1>8. \A k \in 0..Len(nodes), n \in Targets : <<k, n>> \in S
  OBVIOUS
<1> HIDE DEF S
<1> QED
  BY <1>7, <1>8

DownOnce(f, k, n) == IF n \in Node /\ k > 0 THEN <<nodes[n].kind>> \o f[<<k - 1, nodes[n].elem>>] ELSE <<n>>

LEMMA DownStep ==
    ASSUME TypeOK
    PROVE  \A k \in 0..Len(nodes), n \in Targets :
              Down[<<k, n>>] = DownOnce(Down, k, n)
<1> DEFINE S == (0..Len(nodes)) \X (Targets)
           T == Seq(Kinds \cup Targets)
           m == [x \in S |-> x[1]]
           F == [g \in [S -> T] |-> [x \in S |-> DownOnce(g, x[1], x[2])]]
           K == Len(nodes) + 1
<1>1. /\ K \in Nat /\ \A x \in S : x[1] \in Nat /\ x[1] < K
      /\ \A x \in S : x[1] > 0 /\ x[2] \in Node =>
            <<x[1] - 1, nodes[x[2]].elem>> \in S /\ x[1] - 1 < x[1]
  BY NodeLinks
<1>2. m \in [S -> Nat] /\ \A x \in S : m[x] < K
  BY <1>1
<1>3. T # {}
  <2>1. <<>> \in T
    OBVIOUS
  <2> QED
    BY <2>1
<1>4. F \in [[S -> T] -> [S -> T]]
  <2> SUFFICES ASSUME NEW g \in [S -> T], NEW x \in S
               PROVE  DownOnce(g, x[1], x[2]) \in T
    OBVIOUS
  <2>1. CASE x[2] \in Node /\ x[1] > 0
    <3>1. nodes[x[2]].kind \in Kinds \cup Targets /\ g[<<x[1] - 1, nodes[x[2]].elem>>] \in T
      BY <1>1, <2>1, NodeLinks
    <3>2. \A kind \in Kinds \cup Targets : \A s \in T : <<kind>> \o s \in T
      OBVIOUS
    <3>3. DownOnce(g, x[1], x[2]) = <<nodes[x[2]].kind>> \o g[<<x[1] - 1, nodes[x[2]].elem>>]
      BY <2>1 DEF DownOnce
    <3> HIDE DEF T
    <3> QED
      BY <3>1, <3>2, <3>3
  <2>2. CASE ~(x[2] \in Node /\ x[1] > 0)
    <3>1. \A n \in Targets : <<n>> \in T
      OBVIOUS
    <3>2. DownOnce(g, x[1], x[2]) = <<x[2]>> /\ x[2] \in Targets
      BY <2>2 DEF DownOnce
    <3> HIDE DEF T
    <3> QED
      BY <3>1, <3>2
  <2> QED
    BY <2>1, <2>2
<1>5. Descends(F, S, T, m)
  <2> SUFFICES ASSUME NEW g \in [S -> T], NEW h \in [S -> T], NEW x \in S,
                      \A y \in S : m[y] < m[x] => g[y] = h[y]
               PROVE  F[g][x] = F[h][x]
    BY DEF Descends
  <2>1. x[1] > 0 /\ x[2] \in Node =>
           g[<<x[1] - 1, nodes[x[2]].elem>>] = h[<<x[1] - 1, nodes[x[2]].elem>>]
    BY <1>1
  <2>2. DownOnce(g, x[1], x[2]) = DownOnce(h, x[1], x[2])
    BY <2>1 DEF DownOnce
  <2> QED
    BY <2>2
<1>6. \E f : f = [x \in S |-> DownOnce(f, x[1], x[2])]
  <2>1. HasFixpoint(F, S, T)
    <3> HIDE DEF S, T, m, F, K
    <3> QED
      BY <1>1, <1>2, <1>3, <1>4, <1>5, Fixpoint
  <2>2. PICK f \in [S -> T] : f = F[f]
    BY <2>1 DEF HasFixpoint
  <2> QED
    BY <2>2
<1>7. Down = [x \in S |-> DownOnce(Down, x[1], x[2])]
  BY <1>6, Zenon DEF Down, DownOnce, Targets
<1>8. \A k \in 0..Len(nodes), n \in Targets : <<k, n>> \in S
  OBVIOUS
<1> HIDE DEF S
<1> QED
  BY <1>7, <1>8

----------------------------------------------------------------------------
\* The reversal.

\* The links of the nodes, as Chained has them.
LEMMA ChainLinks ==
    ASSUME TypeOK, Chained(nodes)
    PROVE  \A n \in Node : /\ nodes[n].father \in {Null, n - 1}
                           /\ nodes[n].elem \in Node => nodes[n].elem = n + 1 /\ nodes[n + 1].father = n
BY DEF Chained, Node

\* Each step to a father goes to a smaller number, so that as many steps as
\* there are nodes are enough.
LEMMA FathersEnough ==
    ASSUME TypeOK, Chained(nodes), NEW n \in {Null} \cup Node
    PROVE  /\ Fathers[<<Len(nodes), n>>] \subseteq 1..n
           /\ \A a \in n..Len(nodes) : Fathers[<<a, n>>] = Fathers[<<Len(nodes), n>>]
<1> DEFINE N == Len(nodes)
           Same(k) == \A a, b \in k..N : Fathers[<<a, k>>] = Fathers[<<b, k>>] /\ Fathers[<<a, k>>] \subseteq 1..k
           T == {k \in Nat : k <= N => Same(k)}
<1>1. N \in Nat /\ Node = 1..N /\ Null = 0
  BY NodeLinks DEF Node, Null
<1>2. \A k \in 0..N, m \in 0..N : Fathers[<<k, m>>] = FathersOnce(Fathers, k, m)
  <2>1. \A m \in 0..N : m \in {Null} \cup Node
    BY <1>1
  <2> QED
    BY <2>1, FathersStep
<1>3. \A k \in 0..N : Fathers[<<k, 0>>] = {}
  <2>1. 0 \in 0..N
    BY <1>1
  <2>2. \A k \in 0..N : FathersOnce(Fathers, k, 0) = {}
    BY <1>1, Zenon DEF FathersOnce
  <2> QED
    BY <1>2, <2>1, <2>2, Zenon
<1>4. \A m \in 1..N : nodes[m].father = 0 \/ nodes[m].father = m - 1
  BY <1>1, ChainLinks
<1> HIDE DEF N
<1>5. 0 \in T
  BY <1>1, <1>3
<1>6. ASSUME NEW k \in T
      PROVE  k + 1 \in T
  <2> SUFFICES ASSUME k + 1 <= N
               PROVE  Same(k + 1)
    OBVIOUS
  <2>1. k \in 0..N /\ k + 1 \in 1..N /\ k + 1 \in 0..N /\ Same(k)
    BY <1>1
  <2> DEFINE f == nodes[k + 1].father
  <2>2. f = 0 \/ f = k
    BY <1>4, <2>1
  <2> HIDE DEF f
  <2>3. \A a \in (k + 1)..N : a \in 0..N /\ a # 0 /\ a - 1 \in k..N /\ a - 1 \in 0..N
    BY <1>1, <2>1
  <2>4. \A a \in (k + 1)..N : Fathers[<<a, k + 1>>] = {k + 1} \cup Fathers[<<a - 1, f>>]
    BY <1>1, <1>2, <2>1, <2>3 DEF FathersOnce, f
  <2>5. \A a, b \in (k + 1)..N : Fathers[<<a - 1, f>>] = Fathers[<<b - 1, f>>] /\ Fathers[<<a - 1, f>>] \subseteq 1..k
    <3>1. CASE f = 0
      BY <1>3, <2>3, <3>1
    <3>2. CASE f = k
      BY <2>1, <2>3, <3>2
    <3> QED
      BY <2>2, <3>1, <3>2
  <2>6. {k + 1} \cup 1..k \subseteq 1..(k + 1)
    BY <2>1
  <2>7. ASSUME NEW a \in (k + 1)..N, NEW b \in (k + 1)..N
        PROVE  Fathers[<<a, k + 1>>] = Fathers[<<b, k + 1>>] /\ Fathers[<<a, k + 1>>] \subseteq 1..(k + 1)
    BY <2>4, <2>5, <2>6
  <2> QED
    BY <2>7
<1>7. \A k \in Nat : k \in T
  <2>1. T \in SUBSET Nat
    OBVIOUS
  <2> HIDE DEF T
  <2> QED
    BY <1>5, <1>6, <2>1, SetInduction
<1>8. n \in 0..N
  BY <1>1
<1>9. Same(n)
  BY <1>1, <1>7, <1>8
<1>10. N \in n..N
  BY <1>1, <1>8
<1> QED
  BY <1>9, <1>10 DEF N

LEMMA FathersOfNode ==
    ASSUME TypeOK, Chained(nodes)
    PROVE  /\ FathersOf(Null) = {}
           /\ \A n \in Node : FathersOf(n) = {n} \cup FathersOf(nodes[n].father)
           /\ \A n \in {Null} \cup Node : FathersOf(n) \subseteq 1..n
<1> DEFINE N == Len(nodes)
<1>1. N \in Nat /\ Node = 1..N /\ Null = 0
  BY NodeLinks DEF Node, Null
<1>2. \A n \in {Null} \cup Node : FathersOf(n) \subseteq 1..n
  BY FathersEnough DEF FathersOf
<1>3. FathersOf(Null) = {}
  <2>1. FathersOf(Null) \subseteq 1..0
    BY <1>1, <1>2
  <2>2. 1..0 = {}
    OBVIOUS
  <2> QED
    BY <2>1, <2>2
<1>4. ASSUME NEW n \in Node
      PROVE  FathersOf(n) = {n} \cup FathersOf(nodes[n].father)
  <2>1. nodes[n].father \in {Null} \cup Node /\ nodes[n].father \in {Null, n - 1} /\ n \in 1..N
    BY <1>1, <1>4, NodeLinks, ChainLinks
  <2>2. N \in 0..N /\ N # 0 /\ n # Null /\ N - 1 \in (nodes[n].father)..N
    BY <1>1, <2>1
  <2>3. Fathers[<<N, n>>] = {n} \cup Fathers[<<N - 1, nodes[n].father>>]
    BY <1>4, <2>2, FathersStep DEF FathersOnce
  <2>4. Fathers[<<N - 1, nodes[n].father>>] = Fathers[<<N, nodes[n].father>>]
    BY <2>1, <2>2, FathersEnough
  <2> QED
    BY <2>3, <2>4, Zenon DEF FathersOf
<1> QED
  BY <1>2, <1>3, <1>4

\* A row of nodes that are linked to the next one each.
LEMMA ElementsOfRow ==
    ASSUME TypeOK, NEW m \in Node, \A k \in m..(Len(nodes) - 1) : nodes[k].elem = k + 1,
           nodes[Len(nodes)].elem \notin Node
    PROVE  ElementsOf(m) = m..Len(nodes)
<1> DEFINE N == Len(nodes)
           T == {j \in Nat : j <= N - m => \A a \in (j + 1)..N : Elements[<<a, N - j>>] = (N - j)..N}
<1>1. N \in Nat /\ Node = 1..N /\ Node \subseteq Targets /\ m \in 1..N
  BY NodeLinks DEF Node, Targets
<1>2. \A a \in 0..N, n \in 1..N : a # 0 => Elements[<<a, n>>] = {n} \cup Elements[<<a - 1, nodes[n].elem>>]
  <2>1. \A a \in 0..N, n \in 1..N : Elements[<<a, n>>] = ElementsOnce(Elements, a, n)
    BY <1>1, ElementsStep
  <2> QED
    BY <1>1, <2>1 DEF ElementsOnce
<1>3. \A a \in 0..N : Elements[<<a, nodes[N].elem>>] = {}
  <2>1. N \in Node
    BY <1>1
  <2>2. nodes[N].elem \in Targets /\ nodes[N].elem \notin Node
    BY <2>1, NodeLinks
  <2> QED
    BY <2>2, ElementsStep DEF ElementsOnce
<1>4. \A k \in m..(N - 1) : nodes[k].elem = k + 1
  OBVIOUS
<1> HIDE DEF N
<1>5. 0 \in T
  <2>1. \A a \in 1..N : a \in 0..N /\ a # 0 /\ a - 1 \in 0..N /\ N \in 1..N
    BY <1>1
  <2>2. ASSUME NEW a \in 1..N
        PROVE  Elements[<<a, N>>] = {N}
    <3>1. Elements[<<a, N>>] = {N} \cup Elements[<<a - 1, nodes[N].elem>>]
      BY <1>2, <2>1
    <3>2. Elements[<<a - 1, nodes[N].elem>>] = {}
      BY <1>3, <2>1
    <3> QED
      BY <3>1, <3>2
  <2>3. N - 0 = N /\ N..N = {N} /\ 0 + 1 = 1
    BY <1>1
  <2> QED
    BY <2>2, <2>3
<1>6. ASSUME NEW j \in T
      PROVE  j + 1 \in T
  <2> SUFFICES ASSUME j + 1 <= N - m, NEW a \in ((j + 1) + 1)..N
               PROVE  Elements[<<a, N - (j + 1)>>] = (N - (j + 1))..N
    OBVIOUS
  <2>1. /\ N - (j + 1) \in 1..N /\ N - (j + 1) \in m..(N - 1) /\ (N - (j + 1)) + 1 = N - j
        /\ a \in 0..N /\ a # 0 /\ a - 1 \in (j + 1)..N /\ j <= N - m
    BY <1>1
  <2>2. Elements[<<a, N - (j + 1)>>] = {N - (j + 1)} \cup Elements[<<a - 1, N - j>>]
    BY <1>2, <1>4, <2>1
  <2>3. Elements[<<a - 1, N - j>>] = (N - j)..N
    BY <2>1
  <2>4. {N - (j + 1)} \cup (N - j)..N = (N - (j + 1))..N
    BY <1>1, <2>1
  <2> QED
    BY <2>2, <2>3, <2>4
<1>7. \A k \in Nat : k \in T
  <2>1. T \in SUBSET Nat
    OBVIOUS
  <2> HIDE DEF T
  <2> QED
    BY <1>5, <1>6, <2>1, SetInduction
<1>8. N - m \in Nat /\ N \in ((N - m) + 1)..N /\ N - (N - m) = m
  BY <1>1
<1>9. Elements[<<N, N - (N - m)>>] = (N - (N - m))..N
  <2>1. N - m \in T
    BY <1>7, <1>8
  <2>2. \A a \in ((N - m) + 1)..N : Elements[<<a, N - (N - m)>>] = (N - (N - m))..N
    BY <1>8, <2>1
  <2> QED
    BY <1>8, <2>2
<1> QED
  BY <1>8, <1>9 DEF ElementsOf, N

LEMMA FathersOfRow ==
    ASSUME TypeOK, Chained(nodes), NEW m \in Node, \A k \in m..(Len(nodes) - 1) : nodes[k].elem = k + 1
    PROVE  FathersOf(Len(nodes)) = (m..Len(nodes)) \cup FathersOf(nodes[m].father)
<1> DEFINE N == Len(nodes)
           T == {j \in Nat : j <= N - m =>
                               FathersOf(N) = ((N - j)..N) \cup FathersOf(nodes[N - j].father)}
<1>1. N \in Nat /\ Node = 1..N /\ m \in 1..N
  BY NodeLinks DEF Node
<1>2. \A n \in 1..N : FathersOf(n) = {n} \cup FathersOf(nodes[n].father)
  BY <1>1, FathersOfNode
<1>3. \A k \in m..(N - 1) : nodes[k + 1].father = k
  <2>1. \A k \in m..(N - 1) : k \in Node /\ nodes[k].elem = k + 1 /\ k + 1 \in Node
    BY <1>1
  <2> QED
    BY <2>1, ChainLinks
<1> HIDE DEF N
<1>4. 0 \in T
  <2>1. N \in 1..N /\ N - 0 = N /\ N..N = {N}
    BY <1>1
  <2>2. FathersOf(N) = (N..N) \cup FathersOf(nodes[N].father)
    BY <1>2, <2>1
  <2> QED
    BY <2>1, <2>2
<1>5. ASSUME NEW j \in T
      PROVE  j + 1 \in T
  <2> SUFFICES ASSUME j + 1 <= N - m
               PROVE  FathersOf(N) = ((N - (j + 1))..N) \cup FathersOf(nodes[N - (j + 1)].father)
    OBVIOUS
  <2>1. /\ N - (j + 1) \in 1..N /\ N - (j + 1) \in m..(N - 1) /\ (N - (j + 1)) + 1 = N - j
        /\ j <= N - m
    BY <1>1
  <2>2. nodes[N - j].father = N - (j + 1)
    BY <1>3, <2>1
  <2>3. FathersOf(N) = ((N - j)..N) \cup FathersOf(N - (j + 1))
    BY <2>1, <2>2
  <2>4. FathersOf(N - (j + 1)) = {N - (j + 1)} \cup FathersOf(nodes[N - (j + 1)].father)
    BY <1>2, <2>1
  <2>5. {N - (j + 1)} \cup (N - j)..N = (N - (j + 1))..N
    BY <1>1, <2>1
  <2> HIDE DEF T
  <2> QED
    BY <2>3, <2>4, <2>5
<1>6. \A k \in Nat : k \in T
  <2>1. T \in SUBSET Nat
    OBVIOUS
  <2> HIDE DEF T
  <2> QED
    BY <1>4, <1>5, <2>1, SetInduction
<1>7. N - m \in Nat /\ N - (N - m) = m
  BY <1>1
<1>8. FathersOf(N) = ((N - (N - m))..N) \cup FathersOf(nodes[N - (N - m)].father)
  BY <1>6, <1>7
<1> QED
  BY <1>7, <1>8 DEF N

LEMMA Splits == IInv => ReversalSplits
<1> SUFFICES ASSUME IInv, status = "reverse"
             PROVE  /\ ElementsOf(curNode) \cup FathersOf(fatherNode) = FathersOf(Value(1))
                    /\ ElementsOf(curNode) \cap FathersOf(fatherNode) = {}
  BY DEF ReversalSplits
<1> DEFINE N == Len(nodes)
<1>1. TypeOK /\ Chained(nodes) /\ StackAt /\ Reversing
  BY DEF IInv
<1>2. N \in Nat /\ Node = 1..N /\ Null = 0
  BY <1>1, NodeLinks DEF Node, Null
<1>3. Value(1) = N
  <2>1. Len(stack) = 1 /\ stack[1].sym = "cv" /\ SymbolOK(stack[1], N)
    BY <1>1 DEF StackAt, Shape
  <2> QED
    BY <2>1 DEF SymbolOK, Value, Depth
<1>4. /\ curNode \in Node /\ fatherNode = nodes[curNode].father
      /\ \A k \in curNode..(N - 1) : nodes[k].elem = k + 1
  BY <1>1, <1>2 DEF Reversing
<1>5. nodes[N].elem \notin Node
  <2>1. N \in Node /\ N + 1 \notin Node
    BY <1>2, <1>4
  <2> QED
    BY <1>1, <2>1, ChainLinks
<1>6. ElementsOf(curNode) = curNode..N
  BY <1>1, <1>4, <1>5, ElementsOfRow
<1>7. FathersOf(N) = (curNode..N) \cup FathersOf(fatherNode)
  BY <1>1, <1>4, FathersOfRow
<1>8. FathersOf(fatherNode) \subseteq 1..fatherNode /\ fatherNode \in {0, curNode - 1}
  BY <1>1, <1>2, <1>4, FathersOfNode, NodeLinks, ChainLinks
<1>9. (curNode..N) \cap (1..fatherNode) = {}
  BY <1>2, <1>4, <1>8
<1> HIDE DEF N
<1> QED
  BY <1>3, <1>6, <1>7, <1>8, <1>9

\* In the middle of a reversal no node is lost and none is in both halves, in
\* texts of any length (VarInit::ReverseComplexType).
THEOREM ReversalSplitsNodes == Spec => []ReversalSplits
BY DeclaratorsInductive, Splits, PTL

----------------------------------------------------------------------------
\* What the parser knows of the type of a declarator that goes on.

\* The text T starts with t, which nx follows, as far as it can be the size of
\* an array, and has no second name.
Completes(T, t, nx) ==
    /\ Len(t) <= Len(T) /\ \A i \in 1..Len(t) : T[i] = t[i]
    /\ \A i, j \in NamesIn(T) : i = j
    /\ Len(t) < Len(T) /\ T[Len(t) + 1] \in Sizes => nx \in Sizes

\* The kinds of the nodes from f to m.
Row(nd, f, m) == [i \in 1..((m - f) + 1) |-> nd[(f + i) - 1].kind]

\* The nodes of the operand sym are those from f on, each the father of the next.
Began(nd, sym, f) ==
    /\ f = Len(nd) + 1 <=> sym = "id"
    /\ f <= Len(nd) => nd[f].father = Null
    /\ \A k \in (f + 1)..Len(nd) : nd[k].father = k - 1

\* Whatever comes behind t, it is read as ks and then on from l and r.
Reads(t, nx, ks, l, r) ==
    \A T \in Seq(Tokens) : Completes(T, t, nx) => Reading(T) = ks \o ReadFrom(T)[<<l, r>>]

\* The nodes of the operand on the stack are what has been read of the text
\* when all of the operand has.
OperandReads(st, t, nx, nd) ==
    \A p \in 1..Len(st) : st[p].sym \in Operands =>
        \E f \in 1..(Len(nd) + 1) :
            /\ Began(nd, st[p].sym, f)
            /\ Reads(t, nx, Row(nd, f, Len(nd)), p - 1, (Len(t) + 1) - (Len(st) - p))

\* The symbols of the stack that are tokens are where they were read.
TextOn(st, t) ==
    /\ ~Holds(st, Operands) => Len(t) = Len(st)
    /\ \A i \in 1..Len(st) :
          /\ st[i].sym \in Openers => i <= Len(t) /\ t[i] = st[i].sym
          /\ st[i].sym = "size" => Len(t) > 0 /\ t[Len(t)] = st[i].val
          /\ st[i].sym = ")" => Len(t) > 0 /\ t[Len(t)] = ")"

\* The nodes of the type v are what C reads.
KindsRead(nd, v) ==
    IF v.complexType = Null THEN Reading(v.text) = <<>>
    ELSE \E last \in v.complexType..Len(nd) :
            /\ TypeEnds(nd, v.complexType, last, v.base)
            /\ Reading(v.text) = Row(nd, v.complexType, last)

RInv ==
    /\ TextOn(stack, text)
    /\ OperandReads(stack, text, next, nodes)
    /\ \A i \in 1..Len(inits) : KindsRead(nodes, inits[i])

\* The cases of ReadStep.
LEMMA ReadCases ==
    ASSUME NEW T \in Seq(Tokens), NEW l \in 0..Len(T), NEW r \in 1..(Len(T) + 1)
    PROVE  /\ ReadFrom(T)[<<l, r>>] \in Seq(Kinds)
           /\ At(T, r) \in Sizes =>
                 /\ ReadFrom(T)[<<l, r>>] = <<At(T, r)>> \o ReadFrom(T)[<<l, r + 1>>]
                 /\ ReadFrom(T)[<<l, r + 1>>] \in Seq(Kinds)
           /\ At(T, l) = "(" /\ At(T, r) = ")" =>
                 ReadFrom(T)[<<l, r>>] = ReadFrom(T)[<<l - 1, r + 1>>]
           /\ At(T, r) \notin Sizes /\ At(T, l) = "*" =>
                 /\ ReadFrom(T)[<<l, r>>] = <<"ptr">> \o ReadFrom(T)[<<l - 1, r>>]
                 /\ ReadFrom(T)[<<l - 1, r>>] \in Seq(Kinds)
           /\ At(T, r) \notin Sizes /\ l = 0 => ReadFrom(T)[<<l, r>>] = <<>>
<1> DEFINE R == ReadFrom(T)
           x == <<l, r>>
<1>1. x \in Places(T) /\ x[1] = l /\ x[2] = r
  BY DEF Places
<1>2. \A y \in Places(T) : R[y] \in Seq(Kinds) /\ R[y] = ReadOnce(T, R, y)
  BY ReadStep
<1>3. /\ At(T, x[2]) \in Sizes => <<x[1], x[2] + 1>> \in Places(T)
      /\ At(T, x[1]) = "*" => <<x[1] - 1, x[2]>> \in Places(T)
  BY <1>1, LessLeft
<1>4. ")" \notin Sizes /\ At(T, 0) = "eof"
  <2>1. ")" \notin Sizes
    BY TokenAssumption
  <2> QED
    BY <2>1 DEF At
<1>5. R[x] = ReadOnce(T, R, x) /\ R[x] \in Seq(Kinds)
  BY <1>1, <1>2
<1> HIDE DEF R, x
<1>6. ReadOnce(T, R, x) = CASE At(T, r) \in Sizes -> <<At(T, r)>> \o R[<<l, r + 1>>]
                            [] At(T, l) = "(" /\ At(T, r) = ")" -> R[<<l - 1, r + 1>>]
                            [] At(T, r) \notin Sizes /\ At(T, l) = "*" -> <<"ptr">> \o R[<<l - 1, r>>]
                            [] OTHER -> <<>>
  BY <1>1, Zenon DEF ReadOnce
<1>7. /\ At(T, r) \in Sizes => R[x] = <<At(T, r)>> \o R[<<l, r + 1>>]
      /\ At(T, l) = "(" /\ At(T, r) = ")" => R[x] = R[<<l - 1, r + 1>>]
      /\ At(T, r) \notin Sizes /\ At(T, l) = "*" => R[x] = <<"ptr">> \o R[<<l - 1, r>>]
      /\ At(T, r) \notin Sizes /\ l = 0 => R[x] = <<>>
  BY <1>4, <1>5, <1>6
<1>8. /\ At(T, r) \in Sizes => R[<<l, r + 1>>] \in Seq(Kinds)
      /\ At(T, l) = "*" => R[<<l - 1, r>>] \in Seq(Kinds)
  BY <1>1, <1>2, <1>3
<1> QED
  BY <1>5, <1>7, <1>8 DEF R, x

LEMMA CompletesFacts ==
    ASSUME NEW t \in Seq(Tokens), NEW T \in Seq(Tokens), NEW nx, Completes(T, t, nx)
    PROVE  /\ Len(t) \in Nat /\ Len(T) \in Nat /\ Len(t) <= Len(T)
           /\ \A i \in 1..Len(t) : At(T, i) = t[i]
           /\ nx \notin Sizes => At(T, Len(t) + 1) \notin Sizes
<1>1. Len(t) \in Nat /\ Len(T) \in Nat
  OBVIOUS
<1>2. "eof" \notin Sizes
  BY TokenAssumption
<1> QED
  BY <1>1, <1>2 DEF Completes, At

LEMMA OneMore ==
    ASSUME NEW S, NEW s \in Seq(S), NEW e \in S, NEW u \in Seq(S)
    PROVE  s \o (<<e>> \o u) = (s \o <<e>>) \o u
<1>1. <<e>> \in Seq(S)
  OBVIOUS
<1> QED
  BY <1>1, ConcatAssociative

\* A size is read.
LEMMA ReadsSize ==
    ASSUME NEW t \in Seq(Tokens), NEW nx, NEW ks \in Seq(Kinds), NEW l \in 0..Len(t),
           Len(t) > 0, t[Len(t)] \in Sizes, Reads(t, nx, ks, l, Len(t))
    PROVE  Reads(t, nx, ks \o <<t[Len(t)]>>, l, Len(t) + 1)
<1> DEFINE n == Len(t)
<1> SUFFICES ASSUME NEW T \in Seq(Tokens), Completes(T, t, nx)
             PROVE  Reading(T) = (ks \o <<t[n]>>) \o ReadFrom(T)[<<l, n + 1>>]
  BY DEF Reads
<1>1. n \in Nat /\ Len(T) \in Nat /\ n <= Len(T) /\ n \in 1..n
  BY CompletesFacts
<1>2. At(T, n) = t[n]
  BY <1>1, CompletesFacts
<1>3. l \in 0..Len(T) /\ n \in 1..(Len(T) + 1)
  BY <1>1
<1>4. ReadFrom(T)[<<l, n>>] = <<t[n]>> \o ReadFrom(T)[<<l, n + 1>>] /\ ReadFrom(T)[<<l, n + 1>>] \in Seq(Kinds)
  BY <1>2, <1>3, ReadCases
<1>5. Reading(T) = ks \o ReadFrom(T)[<<l, n>>]
  BY DEF Reads
<1>6. t[n] \in Kinds
  BY DEF Kinds
<1> HIDE DEF n
<1>7. \A e \in Kinds : \A u \in Seq(Kinds) : ks \o (<<e>> \o u) = (ks \o <<e>>) \o u
  BY OneMore
<1> QED
  BY ONLY <1>4, <1>5, <1>6, <1>7, Zenon

\* A star is read.
LEMMA ReadsPtr ==
    ASSUME NEW t \in Seq(Tokens), NEW nx, nx \notin Sizes, NEW ks \in Seq(Kinds), NEW l \in 1..Len(t),
           t[l] = "*", Reads(t, nx, ks, l, Len(t) + 1)
    PROVE  Reads(t, nx, ks \o <<"ptr">>, l - 1, Len(t) + 1)
<1> DEFINE n == Len(t)
<1> SUFFICES ASSUME NEW T \in Seq(Tokens), Completes(T, t, nx)
             PROVE  Reading(T) = (ks \o <<"ptr">>) \o ReadFrom(T)[<<l - 1, n + 1>>]
  BY DEF Reads
<1>1. n \in Nat /\ Len(T) \in Nat /\ n <= Len(T)
  BY CompletesFacts
<1>2. At(T, l) = "*" /\ At(T, n + 1) \notin Sizes
  BY CompletesFacts
<1>3. l \in 0..Len(T) /\ n + 1 \in 1..(Len(T) + 1)
  BY <1>1
<1>4. /\ ReadFrom(T)[<<l, n + 1>>] = <<"ptr">> \o ReadFrom(T)[<<l - 1, n + 1>>]
      /\ ReadFrom(T)[<<l - 1, n + 1>>] \in Seq(Kinds)
  BY <1>2, <1>3, ReadCases
<1>5. Reading(T) = ks \o ReadFrom(T)[<<l, n + 1>>]
  BY DEF Reads
<1>6. "ptr" \in Kinds
  BY DEF Kinds
<1> HIDE DEF n
<1>7. \A u \in Seq(Kinds) : ks \o (<<"ptr">> \o u) = (ks \o <<"ptr">>) \o u
  BY <1>6, OneMore
<1> QED
  BY ONLY <1>4, <1>5, <1>7, Zenon

\* A pair of parentheses is read.
LEMMA ReadsParen ==
    ASSUME NEW t \in Seq(Tokens), NEW nx, NEW ks, NEW l \in 1..Len(t),
           t[l] = "(", t[Len(t)] = ")", Reads(t, nx, ks, l, Len(t))
    PROVE  Reads(t, nx, ks, l - 1, Len(t) + 1)
<1> DEFINE n == Len(t)
<1> SUFFICES ASSUME NEW T \in Seq(Tokens), Completes(T, t, nx)
             PROVE  Reading(T) = ks \o ReadFrom(T)[<<l - 1, n + 1>>]
  BY DEF Reads
<1>1. n \in Nat /\ Len(T) \in Nat /\ n <= Len(T)
  BY CompletesFacts
<1>2. l \in 0..Len(T) /\ n \in 1..(Len(T) + 1) /\ n \in 1..n
  BY <1>1
<1>3. At(T, l) = "(" /\ At(T, n) = ")"
  BY <1>2, CompletesFacts
<1>4. ReadFrom(T)[<<l, n>>] = ReadFrom(T)[<<l - 1, n + 1>>]
  BY <1>2, <1>3, ReadCases
<1>5. Reading(T) = ks \o ReadFrom(T)[<<l, n>>]
  BY DEF Reads
<1> HIDE DEF n
<1> QED
  BY <1>4, <1>5

\* A token is shifted.
LEMMA ReadsMore ==
    ASSUME NEW t \in Seq(Tokens), NEW nx \in Tokens, NEW ny, NEW ks, NEW l, NEW r, Reads(t, nx, ks, l, r)
    PROVE  Reads(Append(t, nx), ny, ks, l, r)
<1> DEFINE n == Len(t)
           u == Append(t, nx)
<1> SUFFICES ASSUME NEW T \in Seq(Tokens), Completes(T, u, ny)
             PROVE  Completes(T, t, nx)
  BY DEF Reads
<1>1. n \in Nat /\ Len(T) \in Nat /\ Len(u) = n + 1 /\ u[n + 1] = nx /\ \A i \in 1..n : u[i] = t[i]
  BY AppendProperties
<1>2. /\ Len(u) <= Len(T) /\ \A i \in 1..Len(u) : T[i] = u[i]
      /\ \A i, j \in NamesIn(T) : i = j
  BY DEF Completes
<1> HIDE DEF u
<1>3. T[n + 1] = nx /\ \A i \in 1..n : T[i] = t[i]
  BY <1>1, <1>2
<1> QED
  BY <1>1, <1>2, <1>3 DEF Completes

\* What follows is another token that is no size.
LEMMA ReadsNext ==
    ASSUME NEW t, NEW nx, NEW ny, ny \notin Sizes, NEW ks, NEW l, NEW r, Reads(t, nx, ks, l, r)
    PROVE  Reads(t, ny, ks, l, r)
<1> SUFFICES ASSUME NEW T \in Seq(Tokens), Completes(T, t, ny)
             PROVE  Completes(T, t, nx)
  BY DEF Reads
<1> QED
  BY DEF Completes

\* The reading starts at the name.
LEMMA ReadingAt ==
    ASSUME NEW T \in Seq(Tokens), NEW k \in NamesIn(T), \A i, j \in NamesIn(T) : i = j
    PROVE  Reading(T) = ReadFrom(T)[<<k - 1, k + 1>>]
<1> DEFINE name == CHOOSE i \in 1..Len(T) : T[i] \in Names
<1>1. k \in 1..Len(T) /\ T[k] \in Names
  BY DEF NamesIn
<1>2. name \in 1..Len(T) /\ T[name] \in Names
  BY <1>1
<1> HIDE DEF name
<1>3. name \in NamesIn(T)
  BY <1>2 DEF NamesIn
<1>4. name = k
  BY <1>3
<1>5. Reading(T) = ReadFrom(T)[<<name - 1, name + 1>>]
  BY Zenon DEF Reading, name
<1> QED
  BY <1>4, <1>5

LEMMA ReadsName ==
    ASSUME NEW t \in Seq(Tokens), NEW nx \in Names, NEW ny
    PROVE  Reads(Append(t, nx), ny, <<>>, Len(t), Len(t) + 2)
<1> DEFINE n == Len(t)
           u == Append(t, nx)
<1> SUFFICES ASSUME NEW T \in Seq(Tokens), Completes(T, u, ny)
             PROVE  Reading(T) = <<>> \o ReadFrom(T)[<<n, n + 2>>]
  BY DEF Reads
<1>1. n \in Nat /\ Len(T) \in Nat /\ Len(u) = n + 1 /\ u[n + 1] = nx
  BY AppendProperties
<1>2. /\ Len(u) <= Len(T) /\ \A i \in 1..Len(u) : T[i] = u[i]
      /\ \A i, j \in NamesIn(T) : i = j
  BY DEF Completes
<1> HIDE DEF u
<1>3. n + 1 \in 1..Len(T) /\ T[n + 1] = nx
  BY <1>1, <1>2
<1>4. n + 1 \in NamesIn(T) /\ (n + 1) - 1 = n /\ (n + 1) + 1 = n + 2
  BY <1>1, <1>3 DEF NamesIn
<1>5. Reading(T) = ReadFrom(T)[<<(n + 1) - 1, (n + 1) + 1>>]
  BY <1>2, <1>4, ReadingAt
<1>6. n \in 0..Len(T) /\ n + 2 \in 1..(Len(T) + 1)
  BY <1>1, <1>3
<1>7. ReadFrom(T)[<<n, n + 2>>] \in Seq(Kinds)
  BY <1>6, ReadCases
<1>8. \A s \in Seq(Kinds) : <<>> \o s = s
  BY ConcatEmptySeq
<1> HIDE DEF n
<1> QED
  BY <1>4, <1>5, <1>7, <1>8

\* The declarator is complete.
LEMMA ReadsEnd ==
    ASSUME NEW t \in Seq(Tokens), \A i, j \in NamesIn(t) : i = j,
           NEW nx, NEW ks \in Seq(Kinds), Reads(t, nx, ks, 0, Len(t) + 1)
    PROVE  Reading(t) = ks
<1> DEFINE n == Len(t)
<1>1. n \in Nat /\ 0 \in 0..n /\ n + 1 \in 1..(n + 1)
  OBVIOUS
<1>2. Completes(t, t, nx)
  BY <1>1 DEF Completes
<1>3. Reading(t) = ks \o ReadFrom(t)[<<0, n + 1>>]
  BY <1>2 DEF Reads
<1>4. At(t, n + 1) \notin Sizes
  <2>1. "eof" \notin Sizes
    BY TokenAssumption
  <2> QED
    BY <1>1, <2>1 DEF At
<1>5. ReadFrom(t)[<<0, n + 1>>] = <<>>
  <2>1. 0 \in 0..Len(t) /\ n + 1 \in 1..(Len(t) + 1)
    BY <1>1
  <2> HIDE DEF n
  <2> QED
    BY <1>4, <2>1, ReadCases
<1>6. ks \o <<>> = ks
  BY ConcatEmptySeq
<1> HIDE DEF n
<1> QED
  BY <1>3, <1>5, <1>6

----------------------------------------------------------------------------
\* Rows of nodes.

LEMMA RowFacts ==
    ASSUME NEW n, NEW nd \in Seq(NodeRec(n)), NEW f \in 1..(Len(nd) + 1), NEW m \in 0..Len(nd), f <= m + 1
    PROVE  /\ Row(nd, f, m) \in Seq(Kinds) /\ Len(Row(nd, f, m)) = (m - f) + 1
           /\ \A i \in 1..((m - f) + 1) : Row(nd, f, m)[i] = nd[(f + i) - 1].kind
<1> DEFINE k == (m - f) + 1
           s == Row(nd, f, m)
<1>1. Len(nd) \in Nat /\ \A i \in 1..Len(nd) : nd[i].kind \in Kinds
  <2>1. \A i \in 1..Len(nd) : nd[i] \in NodeRec(n)
    BY ElementOfSeq
  <2> QED
    BY <2>1 DEF NodeRec
<1>2. k \in Nat /\ \A i \in 1..k : (f + i) - 1 \in 1..Len(nd)
  BY <1>1
<1>3. s = [i \in 1..k |-> nd[(f + i) - 1].kind]
  BY DEF Row
<1> HIDE DEF k, s
<1>4. s \in Seq(Kinds)
  BY <1>1, <1>2, <1>3
<1>5. Len(s) = k /\ \A i \in 1..k : s[i] = nd[(f + i) - 1].kind
  BY <1>2, <1>3
<1> QED
  BY <1>4, <1>5 DEF k, s

LEMMA SeqSame ==
    ASSUME NEW S, NEW s \in Seq(S), NEW u \in Seq(S), Len(s) = Len(u), \A i \in 1..Len(s) : s[i] = u[i]
    PROVE  s = u
BY SeqEqual

LEMMA RowSame ==
    ASSUME NEW nd, NEW md, NEW f \in Nat, NEW m \in Nat, \A k \in f..m : md[k].kind = nd[k].kind
    PROVE  Row(md, f, m) = Row(nd, f, m)
<1>1. \A i \in 1..((m - f) + 1) : md[(f + i) - 1].kind = nd[(f + i) - 1].kind
  <2>1. \A i \in 1..((m - f) + 1) : (f + i) - 1 \in f..m
    OBVIOUS
  <2> QED
    BY <2>1
<1> QED
  BY <1>1 DEF Row

LEMMA RowEmpty ==
    ASSUME NEW n, NEW nd \in Seq(NodeRec(n)), NEW f \in 1..(Len(nd) + 1)
    PROVE  Row(nd, f, f - 1) = <<>>
<1>1. f - 1 \in 0..Len(nd) /\ f <= (f - 1) + 1 /\ ((f - 1) - f) + 1 = 0
  OBVIOUS
<1>2. Row(nd, f, f - 1) \in Seq(Kinds) /\ Len(Row(nd, f, f - 1)) = 0
  BY <1>1, RowFacts
<1> QED
  BY <1>2, EmptySeq

\* A node is added at the end of a row.
LEMMA RowMore ==
    ASSUME NEW n, NEW nd \in Seq(NodeRec(n)), NEW md \in Seq(NodeRec(n)), Len(md) = Len(nd) + 1,
           \A k \in 1..Len(nd) : md[k] = nd[k], NEW f \in 1..(Len(nd) + 1)
    PROVE  Row(md, f, Len(md)) = Row(nd, f, Len(nd)) \o <<md[Len(md)].kind>>
<1> DEFINE N == Len(nd)
           s == Row(nd, f, N)
           u == Row(md, f, N + 1)
           e == md[N + 1].kind
           w == s \o <<e>>
           k == (N - f) + 1
<1>1. N \in Nat /\ k \in Nat /\ N \in 0..N /\ f <= N + 1 /\ N + 1 \in 0..(N + 1) /\ f \in 1..((N + 1) + 1)
      /\ f <= (N + 1) + 1 /\ ((N + 1) - f) + 1 = k + 1
  OBVIOUS
<1>2. s \in Seq(Kinds) /\ Len(s) = k /\ \A i \in 1..k : s[i] = nd[(f + i) - 1].kind
  BY <1>1, RowFacts
<1>3. u \in Seq(Kinds) /\ Len(u) = k + 1 /\ \A i \in 1..(k + 1) : u[i] = md[(f + i) - 1].kind
  BY <1>1, RowFacts
<1>4. e \in Kinds
  <2>1. N + 1 \in 1..Len(md)
    BY <1>1
  <2>2. md[N + 1] \in NodeRec(n)
    BY <2>1, ElementOfSeq
  <2> QED
    BY <2>2 DEF NodeRec
<1>5. <<e>> \in Seq(Kinds) /\ Len(<<e>>) = 1 /\ <<e>>[1] = e
  BY <1>4
<1>6. w \in Seq(Kinds) /\ Len(w) = k + 1 /\ w[k + 1] = e /\ \A i \in 1..k : w[i] = s[i]
  <2> HIDE DEF s, e, k
  <2>1. w \in Seq(Kinds) /\ Len(w) = k + 1
        /\ \A i \in 1..(k + 1) : w[i] = IF i <= k THEN s[i] ELSE <<e>>[i - k]
    BY <1>2, <1>5, ConcatProperties
  <2>2. k + 1 \in 1..(k + 1) /\ ~(k + 1 <= k) /\ (k + 1) - k = 1 /\ \A i \in 1..k : i \in 1..(k + 1) /\ i <= k
    BY <1>1
  <2> HIDE DEF w
  <2> QED
    BY <1>5, <2>1, <2>2
<1>7. \A i \in 1..k : (f + i) - 1 \in 1..N
  BY <1>1
<1>8. (f + (k + 1)) - 1 = N + 1
  BY <1>1
<1>9. \A i \in 1..(k + 1) : i \in 1..k \/ i = k + 1
  BY <1>1
<1> HIDE DEF s, u, e, w, k
<1>10. \A i \in 1..(k + 1) : u[i] = w[i]
  <2>1. \A i \in 1..k : u[i] = w[i]
    <3>1. \A i \in 1..k : u[i] = md[(f + i) - 1].kind
      BY <1>1, <1>3
    <3>2. \A i \in 1..k : w[i] = s[i] /\ s[i] = nd[(f + i) - 1].kind
      BY ONLY <1>2, <1>6
    <3> QED
      BY <1>7, <3>1, <3>2
  <2>2. u[k + 1] = w[k + 1]
    <3>1. u[k + 1] = md[(f + (k + 1)) - 1].kind
      BY <1>1, <1>3
    <3> QED
      BY <1>6, <1>8, <3>1 DEF e
  <2> QED
    BY <1>9, <2>1, <2>2
<1>11. u = w
  BY <1>3, <1>6, <1>10, SeqSame
<1> QED
  BY <1>11 DEF u, w, s, e

----------------------------------------------------------------------------
\* The stack.

\* The stack after a reduction.
LEMMA ReducedTo ==
    ASSUME NEW T, stack \in Seq(T), NEW n \in 1..Len(stack), NEW sym, NEW val
    PROVE  /\ Len(Reduced(n, sym, val)) = (Len(stack) - n) + 1
           /\ Reduced(n, sym, val)[(Len(stack) - n) + 1] = [sym |-> sym, val |-> val]
           /\ \A i \in 1..(Len(stack) - n) : Reduced(n, sym, val)[i] = stack[i]
<1> DEFINE t == Reduced(n, sym, val)
           e == [sym |-> sym, val |-> val]
           d == Len(stack) - n
           U == T \cup {e}
<1>1. T \subseteq U /\ e \in U
  OBVIOUS
<1> HIDE DEF U
<1>2. stack \in Seq(U)
  BY <1>1, Larger
<1>3. Len(t) = d + 1 /\ t[Len(t)] = e /\ \A i \in 1..d : t[i] = stack[i]
  BY <1>1, <1>2, ReducedAt DEF Reduced, Depth
<1> HIDE DEF t, e
<1> QED
  BY <1>3 DEF t, e

\* What the operand on the stack says.
LEMMA OperandAt ==
    ASSUME NEW st, NEW t, NEW nx, NEW nd, OperandReads(st, t, nx, nd),
           NEW p \in 1..Len(st), st[p].sym \in Operands
    PROVE  \E f \in 1..(Len(nd) + 1) :
              /\ Began(nd, st[p].sym, f)
              /\ Reads(t, nx, Row(nd, f, Len(nd)), p - 1, (Len(t) + 1) - (Len(st) - p))
BY DEF OperandReads

\* The stack su has its operand on top, and below it the openers of st.
LEMMA OperandReplaced ==
    ASSUME NEW st, Len(st) \in Nat, NEW t \in Seq(Tokens), TextOn(st, t), NEW nx, NEW md,
           NEW d \in 0..Len(st), \A i \in 1..d : st[i].sym \in Openers,
           NEW su, Len(su) = d + 1, \A i \in 1..d : su[i] = st[i], su[d + 1].sym \in Operands,
           NEW f \in 1..(Len(md) + 1), Began(md, su[d + 1].sym, f),
           Reads(t, nx, Row(md, f, Len(md)), d, Len(t) + 1)
    PROVE  TextOn(su, t) /\ OperandReads(su, t, nx, md)
<1> DEFINE D == d + 1
           n == Len(t)
<1>1. d \in Nat /\ n \in Nat /\ D \in 1..Len(su) /\ \A i \in 1..Len(su) : i = D \/ i \in 1..d
  OBVIOUS
<1>2. \A i \in 1..d : i \in 1..Len(st)
  OBVIOUS
<1>3. \A i \in 1..d : i <= n /\ t[i] = su[i].sym /\ su[i].sym \in Openers
  BY <1>2 DEF TextOn
<1>4. D - 1 = d /\ (n + 1) - (Len(su) - D) = n + 1
  BY <1>1
<1> HIDE DEF D
<1>5. \A i \in 1..Len(su) : su[i].sym \in Operands => i = D
  BY <1>1, <1>3 DEF Openers, Operands
<1>6. su[D].sym \in Operands /\ Began(md, su[D].sym, f)
  BY DEF D
<1>7. TextOn(su, t)
  <2>1. Holds(su, Operands)
    BY <1>1, <1>6 DEF Holds
  <2>2. ASSUME NEW i \in 1..Len(su)
        PROVE  /\ su[i].sym \in Openers => i <= n /\ t[i] = su[i].sym
               /\ su[i].sym # "size" /\ su[i].sym # ")"
    <3>1. CASE i = D
      BY <1>6, <3>1 DEF Openers, Operands
    <3>2. CASE i \in 1..d
      BY <1>3, <3>2 DEF Openers
    <3> QED
      BY <1>1, <3>1, <3>2
  <2> QED
    BY <2>1, <2>2 DEF TextOn
<1>8. Reads(t, nx, Row(md, f, Len(md)), D - 1, (Len(t) + 1) - (Len(su) - D))
  BY <1>4
<1>9. OperandReads(su, t, nx, md)
  BY <1>5, <1>6, <1>8, Zenon DEF OperandReads
<1> QED
  BY <1>7, <1>9

----------------------------------------------------------------------------
\* What one step adds to what has been read.

\* A type's last node is the only one with the base type.
LEMMA OneLast ==
    ASSUME NEW nd, NEW n \in Nat, NEW a, NEW b, a \in n..Len(nd), b \in n..Len(nd), NEW base \in BaseTypes,
           TypeEnds(nd, n, a, base), TypeEnds(nd, n, b, base)
    PROVE  ~(a < b)
<1> SUFFICES ASSUME a < b PROVE FALSE
  OBVIOUS
<1>1. a \in n..(b - 1) /\ a + 1 \in Nat
  OBVIOUS
<1>2. nd[a].elem = a + 1 /\ nd[a].elem = base
  BY <1>1 DEF TypeEnds
<1>3. base \notin Nat
  BY TokenAssumption
<1> QED
  BY <1>1, <1>2, <1>3

\* The type v ends below the node new.
EndsBelow(nd, v, new) ==
    v.complexType # Null =>
       \E last \in v.complexType..Len(nd) : TypeEnds(nd, v.complexType, last, v.base) /\ last < new

\* Nodes above a type do not matter to it.
LEMMA KindsKept ==
    ASSUME NEW nd, Len(nd) \in Nat, NEW md, Len(md) \in Nat, Len(nd) <= Len(md),
           NEW v \in InitRec(Len(nd)), KindsRead(nd, v), NEW new \in Nat, EndsBelow(nd, v, new),
           \A k \in 1..Len(nd) : md[k].kind = nd[k].kind /\ (k # new => md[k].elem = nd[k].elem)
    PROVE  KindsRead(md, v)
<1> DEFINE c == v.complexType
           n == Len(nd)
<1>1. CASE c = Null
  BY <1>1 DEF KindsRead
<1>2. CASE c # Null
  <2>1. c \in 1..n /\ v.base \in BaseTypes
    BY <1>2 DEF InitRec
  <2>2. PICK a \in c..n : TypeEnds(nd, c, a, v.base) /\ Reading(v.text) = Row(nd, c, a)
    BY <1>2 DEF KindsRead
  <2>3. PICK b \in c..n : TypeEnds(nd, c, b, v.base) /\ b < new
    BY <1>2 DEF EndsBelow
  <2> HIDE DEF c
  <2>4. a = b
    <3>1. c \in Nat
      BY <2>1
    <3>2. ~(a < b) /\ ~(b < a)
      BY <2>1, <2>2, <2>3, <3>1, OneLast
    <3> QED
      BY <2>1, <3>2
  <2>5. \A k \in c..a : k \in 1..n /\ md[k].kind = nd[k].kind /\ md[k].elem = nd[k].elem
    BY <2>1, <2>3, <2>4
  <2>6. TypeEnds(md, c, a, v.base)
    <3>1. a \in c..a /\ \A k \in c..(a - 1) : k \in c..a
      BY <2>1
    <3> QED
      BY <2>2, <2>5, <3>1 DEF TypeEnds
  <2>7. Row(md, c, a) = Row(nd, c, a)
    <3>1. c \in Nat /\ a \in Nat
      BY <2>1
    <3> QED
      BY <2>5, <3>1, RowSame
  <2>8. a \in c..Len(md)
    BY <2>1
  <2> QED
    BY <1>2, <2>2, <2>6, <2>7, <2>8 DEF KindsRead, c
<1> QED
  BY <1>1, <1>2

\* A declarator that goes on with nodes is above the types that are complete.
LEMMA TypesBelow ==
    ASSUME IInv, NEW i \in 1..Len(inits), inits[i].complexType # Null
    PROVE  \E last \in inits[i].complexType..Len(nodes) :
              /\ TypeEnds(nodes, inits[i].complexType, last, inits[i].base)
              /\ last < Len(nodes) + 1
              /\ Open(stack) => \E first \in (last + 1)..Low : nodes[first].father = Null
<1>1. Complete(nodes, inits[i], stack, Low)
  BY DEF IInv, Apart
<1>2. PICK last \in inits[i].complexType..Len(nodes) :
           /\ TypeEnds(nodes, inits[i].complexType, last, inits[i].base)
           /\ Open(stack) => \E first \in (last + 1)..Low : nodes[first].father = Null
  BY <1>1 DEF Complete
<1>3. Len(nodes) \in Nat /\ inits[i].complexType \in Nat
  <2>1. Len(nodes) \in Nat
    BY NodeFacts DEF IInv
  <2>2. inits \in Seq(InitRec(Len(nodes)))
    BY TypeParts DEF IInv
  <2>3. inits[i] \in InitRec(Len(nodes))
    BY <2>2, ElementOfSeq
  <2> QED
    BY <2>1, <2>3 DEF InitRec, Null
<1>4. last < Len(nodes) + 1
  BY <1>3
<1> QED
  BY <1>2, <1>4

LEMMA BeganMore ==
    ASSUME NEW nd, Len(nd) \in Nat, NEW sym \in Operands, NEW f \in 1..(Len(nd) + 1), Began(nd, sym, f),
           NEW md, Len(md) = Len(nd) + 1, \A k \in 1..Len(nd) : md[k] = nd[k],
           md[Len(nd) + 1].father = IF sym = "id" THEN Null ELSE Len(nd)
    PROVE  Began(md, "cv", f)
<1> DEFINE N == Len(nd)
<1>1. /\ f = N + 1 <=> sym = "id"
      /\ f <= N => nd[f].father = Null
      /\ \A k \in (f + 1)..N : nd[k].father = k - 1
  BY DEF Began
<1>2. N \in Nat /\ f \in 1..(N + 1)
  OBVIOUS
<1> HIDE DEF N
<1>3. f # (N + 1) + 1
  BY <1>2
<1>4. md[f].father = Null
  <2>1. CASE f = N + 1
    BY <1>1, <2>1 DEF N
  <2>2. CASE f # N + 1
    <3>1. f \in 1..N /\ f <= N
      BY <1>2, <2>2
    <3> QED
      BY <1>1, <3>1 DEF N
  <2> QED
    BY <2>1, <2>2
<1>5. ASSUME NEW k \in (f + 1)..(N + 1)
      PROVE  md[k].father = k - 1
  <2>1. CASE k = N + 1
    <3>1. f # N + 1 /\ k - 1 = N
      BY <1>2, <2>1
    <3> QED
      BY <1>1, <2>1, <3>1 DEF N
  <2>2. CASE k # N + 1
    <3>1. k \in 1..N /\ k \in (f + 1)..N
      BY <1>2, <2>2
    <3> QED
      BY <1>1, <3>1 DEF N
  <2> QED
    BY <2>1, <2>2
<1>6. Len(md) = N + 1
  BY DEF N
<1> QED
  BY <1>3, <1>4, <1>5, <1>6 DEF Began

\* A node is made of the two topmost symbols.
LEMMA NodeRead ==
    ASSUME IInv, RInv, NEW kind \in Kinds, NEW father \in {Null, Len(nodes)}, NewNode(2, kind, father),
           Len(stack) > 1, UNCHANGED <<text, next, inits>>,
           NEW sym \in Operands, father = IF sym = "id" THEN Null ELSE Len(nodes),
           NEW f \in 1..(Len(nodes) + 1), Began(nodes, sym, f),
           Reads(text, next, Row(nodes, f, Len(nodes)) \o <<kind>>, Len(stack) - 2, Len(text) + 1)
    PROVE  RInv'
<1> DEFINE N == Len(nodes)
           D == Len(stack)
           e == [kind |-> kind, father |-> father, elem |-> Null]
           s == [sym |-> "cv", val |-> N + 1]
           md == nodes'
           su == stack'
<1>1. /\ nodes \in Seq(NodeRec(N)) /\ N \in Nat /\ stack \in Seq(SymbolRec(N)) /\ D \in Nat
      /\ \A i \in 1..(D - 2) : stack[i].sym \in Openers
      /\ text \in Seq(Tokens) /\ inits \in Seq(InitRec(N))
  BY BelowTwo, NodeFacts, TypeParts DEF IInv, TypeOK
<1>2. e \in NodeRec(N + 1) /\ nodes \in Seq(NodeRec(N + 1))
  <2>1. NodeRec(N) \subseteq NodeRec(N + 1)
    BY <1>1, RecsGrow
  <2>2. nodes \in Seq(NodeRec(N + 1))
    BY <1>1, <2>1, Larger
  <2>3. N \in {Null} \cup 1..(N + 1)
    BY <1>1 DEF Null
  <2> QED
    BY <2>2, <2>3 DEF NodeRec
<1>3. e.kind = kind /\ e.father = father /\ s.sym = "cv"
  OBVIOUS
<1>4. md \in Seq(NodeRec(N + 1)) /\ Len(md) = N + 1 /\ md[N + 1] = e /\ \A k \in 1..N : md[k] = nodes[k]
  <2>1. nodes' = Append(nodes, e)
    BY DEF NewNode
  <2> HIDE DEF e
  <2> QED
    BY <1>2, <2>1, AppendProperties
<1>5. Len(su) = (D - 2) + 1 /\ su[(D - 2) + 1] = s /\ \A i \in 1..(D - 2) : su[i] = stack[i]
  <2>1. su = Reduced(2, "cv", N + 1)
    BY DEF NewNode
  <2>2. 2 \in 1..D
    BY <1>1
  <2>3. \A n \in 1..D : /\ Len(Reduced(n, "cv", N + 1)) = (D - n) + 1
                        /\ Reduced(n, "cv", N + 1)[(D - n) + 1] = s
                        /\ \A i \in 1..(D - n) : Reduced(n, "cv", N + 1)[i] = stack[i]
    BY <1>1, ReducedTo, SMTT(20)
  <2> HIDE DEF D, su, s
  <2> QED
    BY <2>1, <2>2, <2>3
<1> HIDE DEF e, s, md, su
<1>6. Began(md, "cv", f)
  <2>1. md[N + 1].father = IF sym = "id" THEN Null ELSE N
    BY <1>3, <1>4
  <2> QED
    BY <1>1, <1>4, <2>1, BeganMore
<1>7. Row(md, f, Len(md)) = Row(nodes, f, N) \o <<kind>>
  <2>1. Row(md, f, Len(md)) = Row(nodes, f, N) \o <<md[Len(md)].kind>>
    BY <1>2, <1>4, RowMore
  <2> QED
    BY <1>3, <1>4, <2>1
<1>8. TextOn(su, text) /\ OperandReads(su, text, next, md)
  <2>1. D - 2 \in 0..D /\ "cv" \in Operands /\ su[(D - 2) + 1].sym = "cv"
    BY <1>1, <1>3, <1>5 DEF Operands
  <2>2. f \in 1..(Len(md) + 1)
    BY <1>1, <1>4
  <2>3. Reads(text, next, Row(md, f, Len(md)), D - 2, Len(text) + 1)
    BY <1>7
  <2>4. TextOn(stack, text)
    BY DEF RInv
  <2> HIDE DEF D
  <2> QED
    BY <1>1, <1>5, <1>6, <2>1, <2>2, <2>3, <2>4, OperandReplaced DEF D
<1>9. ASSUME NEW i \in 1..Len(inits)
      PROVE  KindsRead(md, inits[i])
  <2>1. inits[i] \in InitRec(N) /\ KindsRead(nodes, inits[i])
    BY <1>1, ElementOfSeq DEF RInv
  <2>2. EndsBelow(nodes, inits[i], N + 1)
    BY TypesBelow, Zenon DEF EndsBelow
  <2>3. N + 1 \in Nat /\ N <= Len(md) /\ Len(md) \in Nat
    BY <1>1, <1>4
  <2>4. \A k \in 1..N : md[k].kind = nodes[k].kind /\ (k # N + 1 => md[k].elem = nodes[k].elem)
    BY <1>4
  <2> QED
    BY <1>1, <2>1, <2>2, <2>3, <2>4, KindsKept
<1>10. TextOn(stack', text') /\ OperandReads(stack', text', next', nodes')
  BY <1>8 DEF md, su
<1>11. \A i \in 1..Len(inits') : KindsRead(nodes', inits'[i])
  BY <1>9 DEF md
<1> QED
  BY <1>10, <1>11 DEF RInv

\* The operand on the stack and the tokens next to it.
LEMMA StackText ==
    ASSUME IInv, RInv
    PROVE  /\ stack \in Seq(SymbolRec(Len(nodes))) /\ Len(stack) \in Nat /\ Len(nodes) \in Nat
           /\ nodes \in Seq(NodeRec(Len(nodes)))
           /\ text \in Seq(Tokens) /\ Len(text) \in Nat /\ next \in Tokens
           /\ \A i \in 1..Len(stack) :
                 /\ stack[i].sym \in Openers => i <= Len(text) /\ text[i] = stack[i].sym
                 /\ stack[i].sym = "size" =>
                       Len(text) > 0 /\ text[Len(text)] = stack[i].val /\ stack[i].val \in Sizes
                 /\ stack[i].sym = ")" => Len(text) > 0 /\ text[Len(text)] = ")"
                 /\ stack[i].sym = "cv" => stack[i].val = Len(nodes)
           /\ Len(stack) > 1 => Len(stack) - 2 \in 0..Len(text)
<1>1. /\ stack \in Seq(SymbolRec(Len(nodes))) /\ Len(stack) \in Nat
      /\ \A i \in 1..(Len(stack) - 2) : stack[i].sym \in Openers
      /\ \A i \in 1..Len(stack) : SymbolOK(stack[i], Len(nodes))
  BY BelowTwo
<1>2. Len(nodes) \in Nat /\ nodes \in Seq(NodeRec(Len(nodes)))
  BY NodeFacts DEF IInv
<1>3. text \in Seq(Tokens) /\ Len(text) \in Nat /\ next \in Tokens
  <2>1. text \in Seq(Tokens) /\ next \in Tokens
    BY DEF IInv, TypeOK
  <2> QED
    BY <2>1
<1>4. \A i \in 1..Len(stack) :
         /\ stack[i].sym \in Openers => i <= Len(text) /\ text[i] = stack[i].sym
         /\ stack[i].sym = "size" =>
               Len(text) > 0 /\ text[Len(text)] = stack[i].val /\ stack[i].val \in Sizes
         /\ stack[i].sym = ")" => Len(text) > 0 /\ text[Len(text)] = ")"
         /\ stack[i].sym = "cv" => stack[i].val = Len(nodes)
  <2>1. TextOn(stack, text)
    BY DEF RInv
  <2> QED
    BY <1>1, <2>1, Zenon DEF TextOn, SymbolOK
<1>5. ASSUME Len(stack) > 1
      PROVE  Len(stack) - 2 \in 0..Len(text)
  <2> DEFINE k == Len(stack)
             n == Len(text)
  <2>1. k \in Nat /\ k > 1 /\ n \in Nat
    BY <1>1, <1>3, <1>5
  <2>2. \A i \in 1..k : stack[i].sym \in Openers => i <= n
    BY <1>4
  <2>3. \A i \in 1..(k - 2) : stack[i].sym \in Openers
    BY <1>1
  <2> HIDE DEF k, n
  <2>4. k = 2 \/ (k - 2 \in 1..(k - 2) /\ k - 2 \in 1..k)
    BY <2>1
  <2>5. k = 2 \/ k - 2 <= n
    BY <2>2, <2>3, <2>4
  <2>6. k - 2 \in 0..n
    BY <2>1, <2>5
  <2> QED
    BY <2>6 DEF k, n
<1> QED
  BY <1>1, <1>2, <1>3, <1>4, <1>5

LEMMA RowToEnd ==
    ASSUME IInv, NEW f \in 1..(Len(nodes) + 1)
    PROVE  Row(nodes, f, Len(nodes)) \in Seq(Kinds)
<1>1. nodes \in Seq(NodeRec(Len(nodes))) /\ Len(nodes) \in Nat
  BY NodeFacts DEF IInv
<1>2. Len(nodes) \in 0..Len(nodes) /\ f <= Len(nodes) + 1
  BY <1>1
<1> QED
  BY <1>1, <1>2, RowFacts

\* An array: the operand and the size behind it.
LEMMA ArrayRead ==
    ASSUME IInv, RInv, NEW sym \in Operands, OnTop(<<sym, "size">>),
           NewNode(2, Value(1), IF sym = "id" THEN Null ELSE Value(2)), UNCHANGED <<text, next, inits>>
    PROVE  RInv'
<1> DEFINE D == Len(stack)
           n == Len(text)
           N == Len(nodes)
           father == IF sym = "id" THEN Null ELSE Value(2)
<1>1. D > 1 /\ stack[D - 1].sym = sym /\ stack[D].sym = "size"
  BY StackText, TopTwo
<1>2. D \in Nat /\ n \in Nat /\ N \in Nat /\ text \in Seq(Tokens) /\ D - 2 \in 0..n
  BY <1>1, StackText
<1>3. D \in 1..D /\ D - 1 \in 1..D
  BY <1>1, <1>2
<1>4. Value(1) = stack[D].val /\ Value(2) = stack[D - 1].val
  <2>1. D + 1 - 1 = D /\ D + 1 - 2 = D - 1
    BY <1>2
  <2> QED
    BY <2>1 DEF Value, Depth
<1>5. n > 0 /\ text[n] = Value(1) /\ Value(1) \in Sizes
  BY <1>1, <1>3, <1>4, StackText
<1>6. father = IF sym = "id" THEN Null ELSE N
  BY <1>1, <1>3, <1>4, StackText DEF Operands
<1>7. PICK f \in 1..(N + 1) :
           /\ Began(nodes, sym, f)
           /\ Reads(text, next, Row(nodes, f, N), (D - 1) - 1, (n + 1) - (D - (D - 1)))
  <2>1. OperandReads(stack, text, next, nodes)
    BY DEF RInv
  <2> QED
    BY <1>1, <1>3, <2>1, OperandAt
<1>8. (D - 1) - 1 = D - 2 /\ (n + 1) - (D - (D - 1)) = n
  BY <1>2
<1>9. Row(nodes, f, N) \in Seq(Kinds)
  BY RowToEnd
<1>10. Reads(text, next, Row(nodes, f, N) \o <<Value(1)>>, D - 2, n + 1)
  <2>1. Reads(text, next, Row(nodes, f, N), D - 2, n)
    BY <1>7, <1>8
  <2>2. Reads(text, next, Row(nodes, f, N) \o <<text[n]>>, D - 2, n + 1)
    BY <1>2, <1>5, <1>9, <2>1, ReadsSize
  <2> QED
    BY <1>5, <2>2
<1>11. Value(1) \in Kinds /\ father \in {Null, N} /\ NewNode(2, Value(1), father)
  BY <1>5, <1>6 DEF Kinds
<1> HIDE DEF father
<1> QED
  BY <1>1, <1>6, <1>7, <1>10, <1>11, NodeRead

\* A pointer: the star and the operand behind it, which no size follows.
LEMMA PointerRead ==
    ASSUME IInv, RInv, NEW sym \in Operands, OnTop(<<"*", sym>>), next \notin Sizes,
           NewNode(2, "ptr", IF sym = "id" THEN Null ELSE Value(1)), UNCHANGED <<text, next, inits>>
    PROVE  RInv'
<1> DEFINE D == Len(stack)
           n == Len(text)
           N == Len(nodes)
           father == IF sym = "id" THEN Null ELSE Value(1)
<1>1. D > 1 /\ stack[D - 1].sym = "*" /\ stack[D].sym = sym
  BY StackText, TopTwo
<1>2. D \in Nat /\ n \in Nat /\ N \in Nat /\ text \in Seq(Tokens)
  BY StackText
<1>3. D \in 1..D /\ D - 1 \in 1..D
  BY <1>1, <1>2
<1>4. Value(1) = stack[D].val
  <2>1. D + 1 - 1 = D
    BY <1>2
  <2> QED
    BY <2>1 DEF Value, Depth
<1>5. D - 1 \in 1..n /\ text[D - 1] = "*"
  <2>1. D - 1 <= n /\ text[D - 1] = "*"
    BY <1>1, <1>3, StackText DEF Openers
  <2> QED
    BY <1>2, <1>3, <2>1
<1>6. father = IF sym = "id" THEN Null ELSE N
  BY <1>1, <1>3, <1>4, StackText DEF Operands
<1>7. PICK f \in 1..(N + 1) :
           /\ Began(nodes, sym, f)
           /\ Reads(text, next, Row(nodes, f, N), D - 1, (n + 1) - (D - D))
  <2>1. OperandReads(stack, text, next, nodes)
    BY DEF RInv
  <2> QED
    BY <1>1, <1>3, <2>1, OperandAt
<1>8. (n + 1) - (D - D) = n + 1 /\ (D - 1) - 1 = D - 2
  BY <1>2
<1>9. Row(nodes, f, N) \in Seq(Kinds)
  BY RowToEnd
<1>10. Reads(text, next, Row(nodes, f, N) \o <<"ptr">>, D - 2, n + 1)
  <2>1. Reads(text, next, Row(nodes, f, N), D - 1, n + 1)
    BY <1>7, <1>8
  <2>2. Reads(text, next, Row(nodes, f, N) \o <<"ptr">>, (D - 1) - 1, n + 1)
    BY <1>2, <1>5, <1>9, <2>1, ReadsPtr
  <2> QED
    BY <1>8, <2>2
<1>11. "ptr" \in Kinds /\ father \in {Null, N} /\ NewNode(2, "ptr", father)
  BY <1>6 DEF Kinds
<1> HIDE DEF father
<1> QED
  BY <1>1, <1>6, <1>7, <1>10, <1>11, NodeRead

LEMMA NodesRead ==
    ASSUME IInv, RInv, ArrayOfName \/ PointerToName \/ ArrayOfComplex \/ PointerToComplex
    PROVE  RInv'
<1>1. "id" \in Operands /\ "cv" \in Operands /\ "cv" # "id"
  BY DEF Operands
<1>2. CASE ArrayOfName
  <2>1. /\ OnTop(<<"id", "size">>) /\ UNCHANGED <<text, next, inits>>
        /\ NewNode(2, Value(1), IF "id" = "id" THEN Null ELSE Value(2))
    BY <1>2 DEF ArrayOfName
  <2> QED
    BY <1>1, <2>1, ArrayRead, Zenon
<1>3. CASE ArrayOfComplex
  <2>1. /\ OnTop(<<"cv", "size">>) /\ UNCHANGED <<text, next, inits>>
        /\ NewNode(2, Value(1), IF "cv" = "id" THEN Null ELSE Value(2))
    BY <1>3 DEF ArrayOfComplex
  <2> QED
    BY <1>1, <2>1, ArrayRead, Zenon
<1>4. CASE PointerToName
  <2>1. /\ OnTop(<<"*", "id">>) /\ next \notin Sizes /\ UNCHANGED <<text, next, inits>>
        /\ NewNode(2, "ptr", IF "id" = "id" THEN Null ELSE Value(1))
    BY <1>4 DEF PointerToName
  <2> QED
    BY <1>1, <2>1, PointerRead, Zenon
<1>5. CASE PointerToComplex
  <2>1. /\ OnTop(<<"*", "cv">>) /\ next \notin Sizes /\ UNCHANGED <<text, next, inits>>
        /\ NewNode(2, "ptr", IF "cv" = "id" THEN Null ELSE Value(1))
    BY <1>5 DEF PointerToComplex
  <2> QED
    BY <1>1, <2>1, PointerRead, Zenon
<1> QED
  BY <1>2, <1>3, <1>4, <1>5

LEMMA ParenthesesRead ==
    ASSUME IInv, RInv, NEW sym \in Operands, OnTop(<<"(", sym, ")">>),
           stack' = Reduced(3, stack[Len(stack) - 1].sym, Value(2)), UNCHANGED <<text, next, nodes, inits>>
    PROVE  RInv'
<1> DEFINE D == Len(stack)
           n == Len(text)
           N == Len(nodes)
           su == stack'
<1>1. D > 2 /\ stack[D - 2].sym = "(" /\ stack[D - 1].sym = sym /\ stack[D].sym = ")"
  BY StackText, TopThree
<1>2. D \in Nat /\ n \in Nat /\ N \in Nat /\ text \in Seq(Tokens) /\ stack \in Seq(SymbolRec(N))
  BY StackText
<1>3. D \in 1..D /\ D - 1 \in 1..D /\ D - 2 \in 1..D
  BY <1>1, <1>2
<1>4. D - 2 \in 1..n /\ text[D - 2] = "(" /\ text[n] = ")"
  <2>1. D - 2 <= n /\ text[D - 2] = "("
    BY <1>1, <1>3, StackText DEF Openers
  <2>2. text[n] = ")"
    BY <1>1, <1>3, StackText
  <2> QED
    BY <1>2, <1>3, <2>1, <2>2
<1>5. PICK f \in 1..(N + 1) :
           /\ Began(nodes, sym, f)
           /\ Reads(text, next, Row(nodes, f, N), (D - 1) - 1, (n + 1) - (D - (D - 1)))
  <2>1. OperandReads(stack, text, next, nodes)
    BY DEF RInv
  <2> QED
    BY <1>1, <1>3, <2>1, OperandAt
<1>6. (D - 1) - 1 = D - 2 /\ (n + 1) - (D - (D - 1)) = n
  BY <1>2
<1>7. Reads(text, next, Row(nodes, f, N), (D - 2) - 1, n + 1)
  <2>1. Reads(text, next, Row(nodes, f, N), D - 2, n)
    BY <1>5, <1>6
  <2> QED
    BY <1>2, <1>4, <2>1, ReadsParen
<1>8. /\ Len(su) = (D - 3) + 1 /\ su[(D - 3) + 1].sym = sym
      /\ \A i \in 1..(D - 3) : su[i] = stack[i] /\ stack[i].sym \in Openers
  <2> DEFINE s == [sym |-> sym, val |-> Value(2)]
  <2>1. su = Reduced(3, sym, Value(2)) /\ s.sym = sym
    BY <1>1
  <2>2. 3 \in 1..D /\ \A i \in 1..(D - 3) : i \in 1..(D - 2)
    BY <1>1, <1>2
  <2>3. \A k \in 1..D : /\ Len(Reduced(k, sym, Value(2))) = (D - k) + 1
                        /\ Reduced(k, sym, Value(2))[(D - k) + 1] = s
                        /\ \A i \in 1..(D - k) : Reduced(k, sym, Value(2))[i] = stack[i]
    BY <1>2, ReducedTo, SMTT(20)
  <2>4. \A i \in 1..(D - 2) : stack[i].sym \in Openers
    BY BelowTwo
  <2> HIDE DEF D, su, s
  <2> QED
    BY <2>1, <2>2, <2>3, <2>4
<1> HIDE DEF su
<1>9. TextOn(su, text) /\ OperandReads(su, text, next, nodes)
  <2>1. D - 3 \in 0..D /\ (D - 2) - 1 = D - 3
    BY <1>1, <1>2
  <2>2. Reads(text, next, Row(nodes, f, N), D - 3, n + 1)
    BY <1>7, <2>1
  <2>3. TextOn(stack, text) /\ Began(nodes, su[(D - 3) + 1].sym, f)
    BY <1>5, <1>8 DEF RInv
  <2> QED
    BY <1>2, <1>8, <2>1, <2>2, <2>3, OperandReplaced
<1>10. TextOn(stack', text') /\ OperandReads(stack', text', next', nodes')
  BY <1>9 DEF su
<1>11. \A i \in 1..Len(inits') : KindsRead(nodes', inits'[i])
  BY DEF RInv
<1> QED
  BY <1>10, <1>11 DEF RInv

\* An opener or a name comes on a stack of openers.
LEMMA FirstRead ==
    ASSUME IInv, RInv, stack' = Append(stack, Symbol(next)), text' = Append(text, next),
           stack = <<>> \/ stack[Len(stack)].sym \in Openers, next \in {"*", "("} \cup Names,
           UNCHANGED <<nodes, inits>>
    PROVE  RInv'
<1> DEFINE D == Len(stack)
           N == Len(nodes)
           e == Symbol(next)
           su == stack'
           u == text'
<1>1. /\ D \in Nat /\ N \in Nat /\ text \in Seq(Tokens) /\ next \in Tokens
      /\ nodes \in Seq(NodeRec(N)) /\ stack \in Seq(SymbolRec(N)) /\ Shape(stack, N)
  BY StackText DEF IInv, StackAt
<1>2. \A i \in 1..D : stack[i].sym \in Openers
  <2>1. CASE D = 0
    BY <2>1
  <2>2. CASE D # 0
    <3>1. stack # <<>>
      BY <2>2
    <3>2. stack[D].sym \in Openers
      BY <3>1
    <3>3. \A i \in 1..(D - 1) : stack[i].sym \in Openers
      BY <1>1, <3>2, Below DEF Openers, Closers
    <3> QED
      BY <1>1, <3>2, <3>3
  <2> QED
    BY <2>1, <2>2
<1>3. Len(text) = D /\ \A i \in 1..D : text[i] = stack[i].sym
  <2>1. TextOn(stack, text)
    BY DEF RInv
  <2>2. ~Holds(stack, Operands)
    BY <1>2 DEF Holds, Openers, Operands
  <2> QED
    BY <1>2, <2>1, <2>2 DEF TextOn
<1>4. e.sym = IF next \in Names THEN "id" ELSE next
  BY TokenAssumption DEF Symbol
<1>5. Len(su) = D + 1 /\ su[D + 1] = e /\ \A i \in 1..D : su[i] = stack[i]
  <2> DEFINE T == SymbolRec(N) \cup {e}
  <2>1. SymbolRec(N) \subseteq T /\ e \in T
    OBVIOUS
  <2> HIDE DEF T, e
  <2>2. stack \in Seq(T)
    BY <1>1, <2>1, Larger
  <2> QED
    BY <2>1, <2>2, AppendProperties DEF e
<1>6. u = Append(text, next) /\ Len(u) = D + 1 /\ u[D + 1] = next /\ \A i \in 1..D : u[i] = text[i]
  BY <1>1, <1>3, AppendProperties
<1>7. \A i \in 1..(D + 1) : i = D + 1 \/ i \in 1..D
  BY <1>1
<1> HIDE DEF e, su, u
<1>8. \A i \in 1..D : su[i].sym \in Openers /\ u[i] = su[i].sym
  BY <1>2, <1>3, <1>5, <1>6
<1>9. CASE next \in Names
  <2>1. su[D + 1].sym = "id" /\ D + 1 \in 1..Len(su)
    BY <1>1, <1>4, <1>5, <1>9
  <2>2. TextOn(su, u)
    <3>1. Holds(su, Operands)
      BY <2>1 DEF Holds, Operands
    <3>2. \A i \in 1..D : i <= Len(u)
      BY <1>1, <1>6
    <3> QED
      BY <1>5, <1>7, <1>8, <2>1, <3>1, <3>2 DEF TextOn, Openers
  <2>3. Began(nodes, "id", N + 1) /\ N + 1 \in 1..(N + 1)
    BY <1>1 DEF Began
  <2>4. Row(nodes, N + 1, N) = <<>>
    <3>1. Row(nodes, N + 1, (N + 1) - 1) = <<>>
      BY <1>1, <2>3, RowEmpty
    <3>2. (N + 1) - 1 = N
      BY <1>1
    <3> QED
      BY <3>1, <3>2
  <2>5. Reads(u, next', <<>>, D, D + 2)
    <3>1. Reads(Append(text, next), next', <<>>, Len(text), Len(text) + 2)
      BY <1>1, <1>9, ReadsName
    <3> QED
      BY <1>3, <1>6, <3>1
  <2>6. (D + 1) - 1 = D /\ (Len(u) + 1) - (Len(su) - (D + 1)) = D + 2
    BY <1>1, <1>5, <1>6
  <2>7. Reads(u, next', Row(nodes, N + 1, N), (D + 1) - 1, (Len(u) + 1) - (Len(su) - (D + 1)))
    BY <2>4, <2>5, <2>6
  <2>8. \A i \in 1..Len(su) : su[i].sym \in Operands => i = D + 1
    BY <1>5, <1>7, <1>8 DEF Openers, Operands
  <2>9. OperandReads(su, u, next', nodes)
    BY <2>1, <2>3, <2>7, <2>8, Zenon DEF OperandReads
  <2> QED
    BY <2>2, <2>9 DEF RInv, su, u
<1>10. CASE next \notin Names
  <2>1. su[D + 1].sym = next /\ next \in Openers
    BY <1>4, <1>5, <1>10 DEF Openers
  <2>2. \A i \in 1..Len(su) : su[i].sym \in Openers /\ u[i] = su[i].sym /\ i <= Len(u)
    BY <1>1, <1>5, <1>6, <1>7, <1>8, <2>1
  <2>3. ~Holds(su, Operands) /\ \A i \in 1..Len(su) : su[i].sym \notin Operands
    BY <2>2 DEF Holds, Openers, Operands
  <2>4. TextOn(su, u)
    BY <1>5, <1>6, <2>2, <2>3 DEF TextOn, Openers
  <2>5. OperandReads(su, u, next', nodes)
    BY <2>3 DEF OperandReads
  <2> QED
    BY <2>4, <2>5 DEF RInv, su, u
<1> QED
  BY <1>9, <1>10

\* A size or a closing parenthesis comes behind the operand.
LEMMA LastRead ==
    ASSUME IInv, RInv, stack' = Append(stack, Symbol(next)), text' = Append(text, next),
           Len(stack) > 0, stack[Len(stack)].sym \in Operands, next \in Sizes \cup {")"},
           UNCHANGED <<nodes, inits>>
    PROVE  RInv'
<1> DEFINE D == Len(stack)
           N == Len(nodes)
           n == Len(text)
           e == Symbol(next)
           su == stack'
           u == text'
<1>1. /\ D \in Nat /\ N \in Nat /\ n \in Nat /\ text \in Seq(Tokens) /\ next \in Tokens
      /\ stack \in Seq(SymbolRec(N)) /\ Shape(stack, N) /\ D \in 1..D
  BY StackText DEF IInv, StackAt
<1>2. \A i \in 1..D : stack[i].sym \notin Closers /\ (stack[i].sym \in Operands => i = D)
  BY <1>1 DEF Shape, Operands, Closers
<1>3. /\ e.sym \in Closers /\ (e.sym = "size" => e.val = next)
      /\ e.sym = ")" => next = ")"
  BY TokenAssumption DEF Symbol, Closers
<1>4. Len(su) = D + 1 /\ su[D + 1] = e /\ \A i \in 1..D : su[i] = stack[i]
  <2> DEFINE T == SymbolRec(N) \cup {e}
  <2>1. SymbolRec(N) \subseteq T /\ e \in T
    OBVIOUS
  <2> HIDE DEF T, e
  <2>2. stack \in Seq(T)
    BY <1>1, <2>1, Larger
  <2> QED
    BY <2>1, <2>2, AppendProperties DEF e
<1>5. u = Append(text, next) /\ Len(u) = n + 1 /\ u[n + 1] = next /\ \A i \in 1..n : u[i] = text[i]
  BY <1>1, AppendProperties
<1>6. stack[D].sym \in Operands
  OBVIOUS
<1> HIDE DEF e, su, u, D
<1>7. \A i \in 1..Len(su) : i = D + 1 \/ i \in 1..D
  BY <1>1, <1>4
<1>8. \A i \in 1..D : stack[i].sym \in Openers => i <= n /\ text[i] = stack[i].sym
  BY StackText DEF D
<1>9. \A i \in 1..Len(su) : su[i].sym \in Operands => i = D
  BY <1>2, <1>3, <1>4, <1>7 DEF Operands, Closers
<1>10. D \in 1..Len(su) /\ su[D] = stack[D]
  BY <1>1, <1>4
<1>11. TextOn(su, u)
  <2>1. Holds(su, Operands)
    BY <1>6, <1>10 DEF Holds
  <2>2. ASSUME NEW i \in 1..Len(su)
        PROVE  /\ su[i].sym \in Openers => i <= Len(u) /\ u[i] = su[i].sym
               /\ su[i].sym = "size" => Len(u) > 0 /\ u[Len(u)] = su[i].val
               /\ su[i].sym = ")" => Len(u) > 0 /\ u[Len(u)] = ")"
    <3>1. CASE i = D + 1
      BY <1>1, <1>3, <1>4, <1>5, <3>1 DEF Openers, Closers
    <3>2. CASE i \in 1..D
      <4>1. su[i] = stack[i] /\ su[i].sym \notin Closers
        BY <1>2, <1>4, <3>2
      <4>2. ASSUME su[i].sym \in Openers
            PROVE  i <= Len(u) /\ u[i] = su[i].sym
        <5>1. i <= n /\ text[i] = su[i].sym /\ i \in 1..n
          BY <1>1, <1>8, <3>2, <4>1, <4>2
        <5> QED
          BY <1>1, <1>5, <5>1
      <4> QED
        BY <4>1, <4>2 DEF Closers
    <3> QED
      BY <1>7, <3>1, <3>2
  <2> QED
    BY <2>1, <2>2 DEF TextOn
<1>12. PICK f \in 1..(N + 1) :
           /\ Began(nodes, stack[D].sym, f)
           /\ Reads(text, next, Row(nodes, f, N), D - 1, (n + 1) - (D - D))
  <2>1. OperandReads(stack, text, next, nodes)
    BY DEF RInv
  <2> QED
    BY <1>1, <1>6, <2>1, OperandAt DEF D
<1>13. Reads(u, next', Row(nodes, f, N), D - 1, (Len(u) + 1) - (Len(su) - D))
  <2>1. (n + 1) - (D - D) = n + 1 /\ (Len(u) + 1) - (Len(su) - D) = n + 1
    BY <1>1, <1>4, <1>5
  <2>2. Reads(text, next, Row(nodes, f, N), D - 1, n + 1)
    BY <1>12, <2>1
  <2>3. Reads(Append(text, next), next', Row(nodes, f, N), D - 1, n + 1)
    BY <1>1, <2>2, ReadsMore
  <2> QED
    BY <1>5, <2>1, <2>3
<1>14. OperandReads(su, u, next', nodes)
  BY <1>9, <1>10, <1>12, <1>13, Zenon DEF OperandReads
<1> QED
  BY <1>11, <1>14 DEF RInv, su, u

LEMMA ShiftRead ==
    ASSUME IInv, RInv, Shift
    PROVE  RInv'
<1>1. stack \in Seq(SymbolRec(Len(nodes))) /\ Len(stack) \in Nat
  BY BelowTwo
<1>2. /\ Shiftable /\ stack' = Append(stack, Symbol(next)) /\ text' = Append(text, next)
      /\ UNCHANGED <<nodes, inits>>
  BY DEF Shift
<1>3. CASE (stack = <<>> \/ OnTop(<<"*">>) \/ OnTop(<<"(">>)) /\ next \in {"*", "("} \cup Names
  <2>1. stack = <<>> \/ stack[Len(stack)].sym \in Openers
    BY <1>1, <1>3, TopOne DEF Openers
  <2> QED
    BY <1>2, <1>3, <2>1, FirstRead
<1>4. CASE \/ (OnTop(<<"id">>) \/ OnTop(<<"cv">>)) /\ next \in Sizes
           \/ (OnTop(<<"(", "id">>) \/ OnTop(<<"(", "cv">>)) /\ next = ")"
  <2>1. Len(stack) > 0 /\ stack[Len(stack)].sym \in Operands /\ next \in Sizes \cup {")"}
    <3>1. CASE (OnTop(<<"id">>) \/ OnTop(<<"cv">>)) /\ next \in Sizes
      BY <1>1, <3>1, TopOne DEF Operands
    <3>2. CASE (OnTop(<<"(", "id">>) \/ OnTop(<<"(", "cv">>)) /\ next = ")"
      BY <1>1, <3>2, TopTwo DEF Operands
    <3> QED
      BY <1>4, <3>1, <3>2
  <2> QED
    BY <1>2, <2>1, LastRead
<1> QED
  BY <1>2, <1>3, <1>4 DEF Shiftable

\* A complete declarator is read to its end.
LEMMA ReadToEnd ==
    ASSUME IInv, RInv, Len(stack) = 1, stack[1].sym \in Operands
    PROVE  \E f \in 1..(Len(nodes) + 1) :
              Began(nodes, stack[1].sym, f) /\ Reading(text) = Row(nodes, f, Len(nodes))
<1>1. PICK f \in 1..(Len(nodes) + 1) :
           /\ Began(nodes, stack[1].sym, f)
           /\ Reads(text, next, Row(nodes, f, Len(nodes)), 1 - 1, (Len(text) + 1) - (Len(stack) - 1))
  <2>1. OperandReads(stack, text, next, nodes) /\ 1 \in 1..Len(stack)
    BY DEF RInv
  <2> QED
    BY <2>1, OperandAt
<1>2. text \in Seq(Tokens) /\ Len(text) \in Nat /\ Row(nodes, f, Len(nodes)) \in Seq(Kinds)
  BY StackText, RowToEnd
<1>3. 1 - 1 = 0 /\ (Len(text) + 1) - (Len(stack) - 1) = Len(text) + 1
  BY <1>2
<1>4. Reads(text, next, Row(nodes, f, Len(nodes)), 0, Len(text) + 1)
  BY <1>1, <1>3
<1>5. \A i, j \in NamesIn(text) : i = j
  BY DEF IInv, Named
<1>6. Reading(text) = Row(nodes, f, Len(nodes))
  BY <1>2, <1>4, <1>5, ReadsEnd
<1> QED
  BY <1>1, <1>6

\* Nothing has been read of the next declarator.
LEMMA NothingRead ==
    ASSUME NEW st, st = <<>>, NEW t, t = <<>>, NEW nx, NEW nd
    PROVE  TextOn(st, t) /\ OperandReads(st, t, nx, nd)
<1>1. Len(st) = 0 /\ Len(t) = 0 /\ 1..Len(st) = {}
  OBVIOUS
<1> QED
  BY <1>1 DEF TextOn, OperandReads

\* What EndVarInit leaves.
LEMMA VarAdded ==
    ASSUME IInv, NEW name, NEW complexType, EndVarInit(name, complexType),
           \A i \in 1..Len(inits) : KindsRead(nodes', inits[i]),
           NEW v, v = [name |-> name, complexType |-> complexType, base |-> specifier, text |-> text],
           KindsRead(nodes', v)
    PROVE  RInv'
<1>1. inits' = Append(inits, v) /\ stack' = <<>> /\ text' = <<>>
  BY DEF EndVarInit
<1>2. Len(inits') = Len(inits) + 1 /\ inits'[Len(inits) + 1] = v
      /\ \A i \in 1..Len(inits) : inits'[i] = inits[i]
  <2> DEFINE T == InitRec(Len(nodes)) \cup {v}
  <2>1. InitRec(Len(nodes)) \subseteq T /\ v \in T
    OBVIOUS
  <2> HIDE DEF T
  <2>2. inits \in Seq(InitRec(Len(nodes)))
    BY TypeParts DEF IInv
  <2>3. inits \in Seq(T)
    BY <2>1, <2>2, Larger
  <2> QED
    BY <1>1, <2>1, <2>3, AppendProperties
<1>3. Len(inits) \in Nat
  BY TypeParts DEF IInv
<1> DEFINE ins == inits'
           m == Len(inits)
<1>4. Len(ins) = m + 1 /\ ins[m + 1] = v /\ \A i \in 1..m : ins[i] = inits[i]
  BY <1>2
<1>5. \A i \in 1..m : KindsRead(nodes', inits[i])
  OBVIOUS
<1> HIDE DEF ins, m
<1>6. \A i \in 1..Len(ins) : i = m + 1 \/ i \in 1..m
  BY <1>3, <1>4 DEF m
<1>7. \A i \in 1..Len(ins) : KindsRead(nodes', ins[i])
  BY <1>4, <1>5, <1>6
<1>8. TextOn(stack', text') /\ OperandReads(stack', text', next', nodes')
  BY <1>1, NothingRead
<1> QED
  BY <1>7, <1>8 DEF RInv, ins

LEMMA PlainVarRead ==
    ASSUME IInv, RInv, PlainVar
    PROVE  RInv'
<1>1. Len(stack) = 1 /\ stack[1].sym = "id"
  <2>1. Len(stack) = 1 /\ OnTop(<<"id">>)
    BY DEF PlainVar, Depth
  <2> QED
    BY <2>1, StackText, TopOne
<1>2. EndVarInit(Value(1), Null) /\ nodes' = nodes
  BY DEF PlainVar
<1>3. Reading(text) = <<>>
  <2>1. PICK f \in 1..(Len(nodes) + 1) :
             Began(nodes, "id", f) /\ Reading(text) = Row(nodes, f, Len(nodes))
    BY <1>1, ReadToEnd DEF Operands
  <2>2. f = Len(nodes) + 1
    BY <2>1 DEF Began
  <2>3. nodes \in Seq(NodeRec(Len(nodes))) /\ f - 1 = Len(nodes)
    BY <2>2, StackText
  <2>4. Row(nodes, f, f - 1) = <<>>
    BY <2>3, RowEmpty
  <2> QED
    BY <2>1, <2>3, <2>4
<1> DEFINE v == [name |-> Value(1), complexType |-> Null, base |-> specifier, text |-> text]
<1>4. KindsRead(nodes', v)
  BY <1>3 DEF KindsRead
<1>5. \A i \in 1..Len(inits) : KindsRead(nodes', inits[i])
  BY <1>2 DEF RInv
<1> HIDE DEF v
<1> QED
  BY <1>2, <1>4, <1>5, VarAdded, Zenon DEF v

\* Steps that leave the stack, the text and the nodes as they are.
LEMMA IdleRead ==
    ASSUME IInv, RInv, \/ \E type \in BaseTypes : VarDefBaseType(type)
                       \/ InitializedVar \/ BeginReverse \/ SyntaxError \/ EndOfText \/ Ended \/ UNCHANGED vars
    PROVE  RInv'
<1>1. UNCHANGED <<stack, text, nodes, inits>>
  BY DEF VarDefBaseType, InitializedVar, BeginReverse, SyntaxError, EndOfText, Ended, vars
<1>2. CASE next' = next
  BY <1>1, <1>2 DEF RInv
<1>3. CASE \E type \in BaseTypes : VarDefBaseType(type)
  <2>1. stack = <<>>
    BY <1>3 DEF VarDefBaseType, IInv, StackAt
  <2>2. OperandReads(stack, text, next', nodes)
    <3>1. 1..Len(stack) = {}
      BY <2>1
    <3> QED
      BY <3>1 DEF OperandReads
  <2> QED
    BY <1>1, <2>2 DEF RInv
<1>4. CASE InitializedVar
  <2>1. next' \notin Sizes
    <3>1. next' \in {",", ";", "eof"}
      BY <1>4 DEF InitializedVar
    <3>2. "," \notin Sizes /\ ";" \notin Sizes /\ "eof" \notin Sizes
      BY TokenAssumption
    <3> QED
      BY <3>1, <3>2
  <2>2. \A ks, l, r : Reads(text, next, ks, l, r) => Reads(text, next', ks, l, r)
    BY <2>1, ReadsNext
  <2>3. OperandReads(stack, text, next', nodes)
    BY <2>2, Zenon DEF RInv, OperandReads
  <2> QED
    BY <1>1, <2>3 DEF RInv
<1>5. next' = next \/ InitializedVar \/ \E type \in BaseTypes : VarDefBaseType(type)
  BY DEF BeginReverse, SyntaxError, EndOfText, Ended, vars
<1> QED
  BY <1>2, <1>3, <1>4, <1>5

----------------------------------------------------------------------------
\* The reversal and what it leaves.

\* The node k is written to, which is above every type that is complete.
LEMMA WrittenAbove ==
    ASSUME IInv, RInv, Open(stack), NEW k \in Low..Len(nodes) \cup {Low - 1}, k \in 1..Len(nodes),
           k = Low - 1 => nodes[Low].father # Null, Low \in 1..Len(nodes),
           NEW x \in {Null} \cup 1..Len(nodes) \cup BaseTypes
    PROVE  \A i \in 1..Len(inits) : KindsRead(WithElem(nodes, k, x), inits[i])
<1> DEFINE N == Len(nodes)
           md == WithElem(nodes, k, x)
<1>1. N \in Nat /\ nodes \in Seq(NodeRec(N)) /\ inits \in Seq(InitRec(N))
  BY StackText, TypeParts DEF IInv
<1>2. /\ Len(md) = N
      /\ \A i \in 1..N : md[i].kind = nodes[i].kind
      /\ \A i \in 1..N : i # k => md[i].elem = nodes[i].elem
  BY <1>1, NodeChanged
<1> HIDE DEF md
<1> TAKE i \in 1..Len(inits)
<1>3. inits[i] \in InitRec(N) /\ KindsRead(nodes, inits[i])
  BY <1>1, ElementOfSeq DEF RInv
<1>4. EndsBelow(nodes, inits[i], k)
  <2> SUFFICES ASSUME inits[i].complexType # Null
               PROVE  \E last \in inits[i].complexType..N :
                         TypeEnds(nodes, inits[i].complexType, last, inits[i].base) /\ last < k
    BY DEF EndsBelow
  <2>1. PICK last \in inits[i].complexType..N :
             /\ TypeEnds(nodes, inits[i].complexType, last, inits[i].base)
             /\ \E first \in (last + 1)..Low : nodes[first].father = Null
    BY TypesBelow
  <2>2. PICK first \in (last + 1)..Low : nodes[first].father = Null
    BY <2>1
  <2>3. inits[i].complexType \in Nat
    BY <1>1, <1>3 DEF InitRec, Null
  <2>4. last < k
    <3>1. k = Low - 1 => first # Low
      BY <2>2
    <3>2. Low \in Nat /\ k \in Nat /\ last \in Nat /\ first \in (last + 1)..Low
      BY <1>1, <2>2, <2>3
    <3>3. k = Low - 1 \/ k >= Low
      BY <1>1, <3>2
    <3> QED
      BY <3>1, <3>2, <3>3
  <2> QED
    BY <2>1, <2>4
<1>5. \A j \in 1..N : md[j].kind = nodes[j].kind /\ (j # k => md[j].elem = nodes[j].elem)
  BY <1>2
<1>6. k \in Nat /\ N <= Len(md) /\ Len(md) \in Nat
  BY <1>1, <1>2
<1>7. KindsRead(md, inits[i])
  BY <1>1, <1>3, <1>4, <1>5, <1>6, KindsKept
<1> QED
  BY <1>7 DEF md

LEMMA ReverseStepRead ==
    ASSUME IInv, RInv, ReverseStep
    PROVE  RInv'
<1> DEFINE N == Len(nodes)
           f == fatherNode
           md == WithElem(nodes, f, curNode)
<1>1. /\ status = "reverse" /\ f # Null
      /\ UNCHANGED <<stack, text, next, inits>> /\ nodes' = md
  BY DEF ReverseStep, WithElem
<1>2. /\ Len(stack) = 1 /\ stack[1].sym = "cv" /\ Low = curNode
      /\ curNode \in 1..N /\ f = nodes[curNode].father
  BY <1>1 DEF IInv, StackAt, Low, Reversing
<1>3. N \in Nat /\ nodes \in Seq(NodeRec(N))
  BY StackText
<1>4. f \in 1..N /\ f = curNode - 1
  BY <1>1, <1>2, <1>3 DEF IInv, Chained, Null
<1>5. Open(stack)
  BY <1>2, ComplexTop
<1>6. \A i \in 1..Len(inits) : KindsRead(md, inits[i])
  <2>1. f \in Low..N \cup {Low - 1} /\ (f = Low - 1 => nodes[Low].father # Null) /\ Low \in 1..N
    BY <1>1, <1>2, <1>4
  <2>2. curNode \in {Null} \cup 1..N \cup BaseTypes
    BY <1>2
  <2> HIDE DEF f
  <2> QED
    BY <1>4, <1>5, <2>1, <2>2, WrittenAbove
<1>7. /\ Len(md) = N
      /\ \A i \in 1..N : md[i].father = nodes[i].father /\ md[i].kind = nodes[i].kind
  <2>1. curNode \in {Null} \cup 1..N \cup BaseTypes
    BY <1>2
  <2> HIDE DEF f
  <2> QED
    BY <1>3, <1>4, <2>1, NodeChanged
<1> HIDE DEF md, f
<1>8. OperandReads(stack, text, next, md)
  <2> SUFFICES ASSUME NEW p \in 1..Len(stack), stack[p].sym \in Operands
               PROVE  \E a \in 1..(Len(md) + 1) :
                         /\ Began(md, stack[p].sym, a)
                         /\ Reads(text, next, Row(md, a, Len(md)), p - 1, (Len(text) + 1) - (Len(stack) - p))
    BY DEF OperandReads
  <2>1. PICK a \in 1..(N + 1) :
             /\ Began(nodes, stack[p].sym, a)
             /\ Reads(text, next, Row(nodes, a, N), p - 1, (Len(text) + 1) - (Len(stack) - p))
    BY OperandAt DEF RInv
  <2>2. Began(md, stack[p].sym, a)
    <3>1. a <= N => a \in 1..N
      BY <1>3
    <3>2. \A k \in (a + 1)..N : k \in 1..N
      BY <1>3
    <3> QED
      BY <1>7, <2>1, <3>1, <3>2 DEF Began
  <2>3. Row(md, a, Len(md)) = Row(nodes, a, N)
    <3>1. a \in Nat /\ \A k \in a..N : k \in 1..N
      BY <1>3
    <3>2. \A k \in a..N : md[k].kind = nodes[k].kind
      BY <1>7, <3>1
    <3>3. Row(md, a, N) = Row(nodes, a, N)
      BY <1>3, <3>1, <3>2, RowSame
    <3> QED
      BY <1>7, <3>3
  <2> QED
    BY <1>7, <2>1, <2>2, <2>3
<1> QED
  BY <1>1, <1>6, <1>8 DEF RInv

LEMMA EndReverseRead ==
    ASSUME IInv, RInv, EndReverse
    PROVE  RInv'
<1> DEFINE N == Len(nodes)
           b == CurrentBaseType
           md == WithElem(nodes, N, b)
           v == [name |-> CurrentVarName, complexType |-> curNode, base |-> specifier, text |-> text]
<1>1. status = "reverse" /\ fatherNode = Null /\ EndVarInit(CurrentVarName, curNode)
  BY DEF EndReverse
<1>2. Len(stack) = 1 /\ stack[1].sym = "cv" /\ Low = curNode /\ specifier = b /\ b \in BaseTypes
  BY <1>1 DEF IInv, StackAt, Low, Based
<1>3. Value(1) = N /\ N \in 1..N /\ Open(stack)
  BY <1>2, ComplexTop
<1>4. nodes' = md
  BY <1>3 DEF EndReverse, WithElem
<1>5. /\ curNode \in 1..N /\ nodes[curNode].father = Null
      /\ \A k \in curNode..(N - 1) : nodes[k].elem = k + 1
  BY <1>1 DEF IInv, Reversing
<1>6. N \in Nat /\ nodes \in Seq(NodeRec(N))
  BY StackText
<1>7. b \in {Null} \cup 1..N \cup BaseTypes
  BY <1>2
<1>8. \A i \in 1..Len(inits) : KindsRead(md, inits[i])
  <2>1. N \in Low..N \cup {Low - 1} /\ (N = Low - 1 => nodes[Low].father # Null) /\ Low \in 1..N
    BY <1>2, <1>5, <1>6
  <2> QED
    BY <1>3, <1>7, <2>1, WrittenAbove
<1>9. /\ Len(md) = N /\ md[N].elem = b
      /\ \A i \in 1..N : md[i].kind = nodes[i].kind
      /\ \A i \in 1..N : i # N => md[i].elem = nodes[i].elem
  BY <1>3, <1>6, <1>7, NodeChanged
<1>10. PICK f \in 1..(N + 1) : Began(nodes, "cv", f) /\ Reading(text) = Row(nodes, f, N)
  BY <1>2, ReadToEnd DEF Operands
<1> HIDE DEF md, b
<1>11. f \in 1..N /\ nodes[f].father = Null /\ \A k \in (f + 1)..N : nodes[k].father = k - 1
  BY <1>6, <1>10 DEF Began
<1>12. f = curNode
  <2>1. ~(curNode < f)
    <3> SUFFICES ASSUME curNode < f PROVE FALSE
      OBVIOUS
    <3>1. f - 1 \in curNode..(N - 1) /\ f - 1 \in Node /\ f \in Node /\ (f - 1) + 1 = f /\ f - 1 # 0
      BY <1>5, <1>6, <1>11 DEF Node
    <3>2. nodes[f - 1].elem = f
      BY <1>5, <3>1
    <3>3. nodes[f].father = f - 1
      BY <3>1, <3>2, ChainLinks DEF IInv
    <3> QED
      BY <1>11, <3>1, <3>3 DEF Null
  <2>2. ~(f < curNode)
    <3> SUFFICES ASSUME f < curNode PROVE FALSE
      OBVIOUS
    <3>1. curNode \in (f + 1)..N /\ curNode - 1 # 0
      BY <1>5, <1>6, <1>11
    <3> QED
      BY <1>5, <1>11, <3>1 DEF Null
  <2> QED
    BY <1>5, <1>11, <2>1, <2>2
<1>13. KindsRead(md, v)
  <2>1. v.complexType = curNode /\ v.base = b /\ v.text = text
    BY <1>2
  <2> HIDE DEF v
  <2>2. N \in curNode..Len(md) /\ curNode # Null
    BY <1>5, <1>6, <1>9 DEF Null
  <2>3. TypeEnds(md, curNode, N, b)
    <3>1. \A k \in curNode..(N - 1) : k \in 1..N /\ k # N
      BY <1>5, <1>6
    <3> QED
      BY <1>5, <1>9, <3>1 DEF TypeEnds
  <2>4. Row(md, curNode, N) = Row(nodes, curNode, N)
    <3>1. curNode \in Nat /\ \A k \in curNode..N : k \in 1..N
      BY <1>5, <1>6
    <3>2. \A k \in curNode..N : md[k].kind = nodes[k].kind
      BY <1>9, <3>1
    <3> QED
      BY <1>6, <3>1, <3>2, RowSame
  <2> QED
    BY <1>10, <1>12, <2>1, <2>2, <2>3, <2>4 DEF KindsRead
<1>14. (\A i \in 1..Len(inits) : KindsRead(nodes', inits[i])) /\ KindsRead(nodes', v)
  BY <1>4, <1>8, <1>13
<1> HIDE DEF v
<1> QED
  BY <1>1, <1>14, VarAdded, Zenon DEF v

----------------------------------------------------------------------------
\* What GetLLVMType reads.

\* The first node of a row.
LEMMA RowFirst ==
    ASSUME NEW n, NEW nd \in Seq(NodeRec(n)), NEW f \in 1..Len(nd), NEW m \in f..Len(nd), NEW base
    PROVE  <<nd[f].kind>> \o Append(Row(nd, f + 1, m), base) = Append(Row(nd, f, m), base)
<1> DEFINE s == Row(nd, f, m)
           u == Row(nd, f + 1, m)
           e == nd[f].kind
           k == m - f
           T == Kinds \cup {base}
<1>1. /\ k \in Nat /\ f \in 1..(Len(nd) + 1) /\ f + 1 \in 1..(Len(nd) + 1) /\ m \in 0..Len(nd)
      /\ f <= m + 1 /\ f + 1 <= m + 1 /\ (m - f) + 1 = k + 1 /\ (m - (f + 1)) + 1 = k
  OBVIOUS
<1>2. s \in Seq(Kinds) /\ Len(s) = k + 1 /\ \A i \in 1..(k + 1) : s[i] = nd[(f + i) - 1].kind
  BY <1>1, RowFacts
<1>3. u \in Seq(Kinds) /\ Len(u) = k /\ \A i \in 1..k : u[i] = nd[((f + 1) + i) - 1].kind
  <2> DEFINE g == f + 1
  <2>1. g \in 1..(Len(nd) + 1) /\ m \in 0..Len(nd) /\ g <= m + 1 /\ (m - g) + 1 = k
    BY <1>1
  <2> HIDE DEF g, k
  <2>2. /\ Row(nd, g, m) \in Seq(Kinds) /\ Len(Row(nd, g, m)) = k
        /\ \A i \in 1..k : Row(nd, g, m)[i] = nd[(g + i) - 1].kind
    BY <2>1, RowFacts
  <2> QED
    BY <2>2 DEF g
<1>4. e \in Kinds
  <2>1. nd[f] \in NodeRec(n)
    BY ElementOfSeq
  <2> QED
    BY <2>1 DEF NodeRec
<1>5. Kinds \subseteq T /\ base \in T
  OBVIOUS
<1>6. s[1] = e /\ \A i \in 1..k : s[i + 1] = u[i]
  <2>1. 1 \in 1..(k + 1) /\ (f + 1) - 1 = f
    BY <1>1
  <2>2. s[1] = e
    BY <1>2, <2>1
  <2>3. \A i \in 1..k : i + 1 \in 1..(k + 1) /\ (f + (i + 1)) - 1 = ((f + 1) + i) - 1
    BY <1>1
  <2>4. ASSUME NEW i \in 1..k
        PROVE  s[i + 1] = u[i]
    <3>1. s[i + 1] = nd[(f + (i + 1)) - 1].kind
      BY <1>2, <2>3
    <3> QED
      BY <1>3, <2>3, <3>1
  <2> QED
    BY <2>2, <2>4
<1> HIDE DEF s, u, e, k, T
<1>7. s \in Seq(T) /\ u \in Seq(T) /\ e \in T /\ <<e>> \in Seq(T)
  BY <1>2, <1>3, <1>4, <1>5, Larger
<1> DEFINE a == Append(s, base)
           b == Append(u, base)
           c == <<e>> \o b
<1>8. a \in Seq(T) /\ Len(a) = k + 2 /\ a[k + 2] = base /\ \A i \in 1..(k + 1) : a[i] = s[i]
  <2>1. (k + 1) + 1 = k + 2
    BY <1>1
  <2> QED
    BY <1>2, <1>5, <1>7, <2>1, AppendProperties
<1>9. b \in Seq(T) /\ Len(b) = k + 1 /\ b[k + 1] = base /\ \A i \in 1..k : b[i] = u[i]
  BY <1>3, <1>5, <1>7, AppendProperties
<1> HIDE DEF a, b
<1>10. c \in Seq(T) /\ Len(c) = k + 2 /\ c[1] = e /\ \A i \in 1..(k + 1) : c[i + 1] = b[i]
  <2>1. Len(<<e>>) = 1 /\ <<e>>[1] = e
    OBVIOUS
  <2>2. c \in Seq(T) /\ Len(c) = 1 + (k + 1)
        /\ \A i \in 1..(1 + (k + 1)) : c[i] = IF i <= 1 THEN <<e>>[i] ELSE b[i - 1]
    BY <1>7, <1>9, <2>1, ConcatProperties
  <2>3. /\ 1 + (k + 1) = k + 2 /\ 1 \in 1..(1 + (k + 1))
        /\ \A i \in 1..(k + 1) : i + 1 \in 1..(1 + (k + 1)) /\ ~(i + 1 <= 1) /\ (i + 1) - 1 = i
    BY <1>1
  <2> HIDE DEF c
  <2> QED
    BY <2>1, <2>2, <2>3
<1> HIDE DEF c
<1>11. \A i \in 1..(k + 2) : a[i] = c[i]
  <2>1. a[1] = c[1]
    <3>1. 1 \in 1..(k + 1)
      BY <1>1
    <3> QED
      BY <1>6, <1>8, <1>10, <3>1
  <2>2. ASSUME NEW i \in 1..k
        PROVE  a[i + 1] = c[i + 1]
    <3>1. i \in 1..(k + 1) /\ i + 1 \in 1..(k + 1)
      BY <1>1
    <3> QED
      BY <1>6, <1>8, <1>9, <1>10, <3>1
  <2>3. a[k + 2] = c[k + 2]
    <3>1. k + 1 \in 1..(k + 1) /\ (k + 1) + 1 = k + 2
      BY <1>1
    <3>2. c[(k + 1) + 1] = b[k + 1]
      BY <1>10, <3>1
    <3> QED
      BY <1>8, <1>9, <3>1, <3>2
  <2>4. \A i \in 1..(k + 2) : i = 1 \/ i = k + 2 \/ (i - 1 \in 1..k /\ (i - 1) + 1 = i)
    BY <1>1
  <2>5. \A i \in 1..(k + 2) : i - 1 \in 1..k /\ (i - 1) + 1 = i => a[i] = c[i]
    <3> SUFFICES ASSUME NEW i \in 1..(k + 2), i - 1 \in 1..k, (i - 1) + 1 = i
                 PROVE  a[i] = c[i]
      OBVIOUS
    <3>1. a[(i - 1) + 1] = c[(i - 1) + 1]
      BY <2>2
    <3> QED
      BY <3>1
  <2> QED
    BY <2>1, <2>3, <2>4, <2>5
<1>12. a = c
  BY <1>8, <1>10, <1>11, SeqSame
<1> QED
  BY <1>12 DEF a, b, c, s, u, e

LEMMA DownRow ==
    ASSUME IInv, NEW c \in Node, NEW last \in c..Len(nodes), NEW base \in BaseTypes,
           TypeEnds(nodes, c, last, base)
    PROVE  TypeAt(c) = Append(Row(nodes, c, last), base)
<1> DEFINE N == Len(nodes)
           Goes(j) == \A a \in (j + 1)..N :
                         Down[<<a, last - j>>] = Append(Row(nodes, last - j, last), base)
           T == {j \in Nat : j <= last - c => Goes(j)}
<1>1. /\ N \in Nat /\ Node = 1..N /\ c \in 1..N /\ last \in c..N /\ last \in 1..N
      /\ nodes \in Seq(NodeRec(N)) /\ TypeOK
  BY NodeFacts DEF IInv, Node
<1>2. base \in Targets /\ base \notin Node
  <2>1. base \notin Nat
    BY TokenAssumption
  <2> QED
    BY <1>1, <2>1 DEF Targets
<1>3. \A a \in 0..N : Down[<<a, base>>] = <<base>>
  BY <1>1, <1>2, DownStep DEF DownOnce
<1>4. \A a \in 0..N, n \in 1..N : a > 0 => Down[<<a, n>>] = <<nodes[n].kind>> \o Down[<<a - 1, nodes[n].elem>>]
  <2>1. \A n \in 1..N : n \in Node /\ n \in Targets
    BY <1>1 DEF Targets
  <2>2. \A a \in 0..N, n \in 1..N : Down[<<a, n>>] = DownOnce(Down, a, n)
    BY <1>1, <2>1, DownStep
  <2> QED
    BY <2>1, <2>2 DEF DownOnce
<1>5. nodes[last].elem = base /\ \A k \in c..(last - 1) : nodes[k].elem = k + 1
  BY DEF TypeEnds
<1>6. \A f \in 1..N : f <= last =>
         <<nodes[f].kind>> \o Append(Row(nodes, f + 1, last), base) = Append(Row(nodes, f, last), base)
  <2> SUFFICES ASSUME NEW f \in 1..N, f <= last
               PROVE  <<nodes[f].kind>> \o Append(Row(nodes, f + 1, last), base) = Append(Row(nodes, f, last), base)
    OBVIOUS
  <2>1. last \in f..Len(nodes) /\ f \in 1..Len(nodes)
    BY <1>1
  <2> QED
    BY <1>1, <2>1, RowFirst
<1>7. <<base>> = Append(Row(nodes, last + 1, last), base)
  <2>1. last + 1 \in 1..(Len(nodes) + 1) /\ (last + 1) - 1 = last
    BY <1>1
  <2>2. Row(nodes, last + 1, (last + 1) - 1) = <<>>
    BY <1>1, <2>1, RowEmpty
  <2>3. Row(nodes, last + 1, last) = <<>>
    BY <2>1, <2>2
  <2>4. Append(<<>>, base) = <<base>>
    OBVIOUS
  <2> QED
    BY <2>3, <2>4
<1> HIDE DEF N
<1>8. 0 \in T
  <2> SUFFICES ASSUME NEW a \in 1..N
               PROVE  Down[<<a, last>>] = Append(Row(nodes, last, last), base)
    <3>1. last - 0 = last /\ 0 + 1 = 1
      BY <1>1
    <3> QED
      BY <3>1
  <2>1. a \in 0..N /\ a > 0 /\ a - 1 \in 0..N /\ last <= last
    BY <1>1
  <2>2. Down[<<a, last>>] = <<nodes[last].kind>> \o Down[<<a - 1, base>>]
    BY <1>1, <1>4, <1>5, <2>1
  <2>3. Down[<<a - 1, base>>] = Append(Row(nodes, last + 1, last), base)
    BY <1>3, <1>7, <2>1
  <2>4. <<nodes[last].kind>> \o Append(Row(nodes, last + 1, last), base) = Append(Row(nodes, last, last), base)
    BY <1>1, <1>6, <2>1
  <2> QED
    BY ONLY <2>2, <2>3, <2>4, Zenon
<1>9. ASSUME NEW j \in T
      PROVE  j + 1 \in T
  <2> SUFFICES ASSUME j + 1 <= last - c, NEW a \in ((j + 1) + 1)..N
               PROVE  Down[<<a, last - (j + 1)>>] = Append(Row(nodes, last - (j + 1), last), base)
    OBVIOUS
  <2> DEFINE f == last - (j + 1)
  <2>1. /\ f \in 1..N /\ f \in c..(last - 1) /\ f + 1 = last - j /\ f <= last
        /\ a \in 0..N /\ a > 0 /\ a - 1 \in (j + 1)..N /\ j <= last - c
    BY <1>1
  <2>2. Down[<<a - 1, f + 1>>] = Append(Row(nodes, f + 1, last), base)
    <3>1. Goes(j)
      BY <2>1
    <3>2. Down[<<a - 1, last - j>>] = Append(Row(nodes, last - j, last), base)
      BY <2>1, <3>1
    <3> QED
      BY <2>1, <3>2
  <2> HIDE DEF f
  <2>3. Down[<<a, f>>] = <<nodes[f].kind>> \o Down[<<a - 1, f + 1>>]
    BY <1>4, <1>5, <2>1
  <2>4. <<nodes[f].kind>> \o Append(Row(nodes, f + 1, last), base) = Append(Row(nodes, f, last), base)
    BY <1>6, <2>1
  <2>5. Down[<<a, f>>] = Append(Row(nodes, f, last), base)
    BY ONLY <2>2, <2>3, <2>4, Zenon
  <2> QED
    BY <2>5 DEF f
<1>10. \A k \in Nat : k \in T
  <2>1. T \in SUBSET Nat
    OBVIOUS
  <2> HIDE DEF T
  <2> QED
    BY <1>8, <1>9, <2>1, SetInduction
<1>11. last - c \in Nat /\ N \in ((last - c) + 1)..N /\ last - (last - c) = c
  BY <1>1
<1>12. Down[<<N, c>>] = Append(Row(nodes, c, last), base)
  <2>1. last - c \in T
    BY <1>10, <1>11
  <2>2. Goes(last - c)
    <3> HIDE DEF Goes
    <3> QED
      BY <1>11, <2>1
  <2>3. Down[<<N, last - (last - c)>>] = Append(Row(nodes, last - (last - c), last), base)
    BY <1>11, <2>2
  <2> QED
    BY <1>11, <2>3
<1> QED
  BY <1>12 DEF TypeAt, N

----------------------------------------------------------------------------
\* The theorem.

LEMMA InitRInv == Init => RInv
<1> SUFFICES ASSUME Init PROVE RInv
  OBVIOUS
<1>1. stack = <<>> /\ text = <<>> /\ Len(inits) = 0
  BY DEF Init
<1>2. TextOn(stack, text) /\ OperandReads(stack, text, next, nodes)
  BY <1>1, NothingRead
<1> QED
  BY <1>1, <1>2 DEF RInv

LEMMA RInvTypes == IInv /\ RInv => TypesReadAsC
<1> SUFFICES ASSUME IInv, RInv, NEW i \in 1..Len(inits)
             PROVE  IF inits[i].complexType = Null
                    THEN Reading(inits[i].text) = <<>>
                    ELSE TypeAt(inits[i].complexType) = Append(Reading(inits[i].text), inits[i].base)
  BY Zenon DEF TypesReadAsC
<1> DEFINE v == inits[i]
<1>1. KindsRead(nodes, v)
  BY DEF RInv
<1>2. v \in InitRec(Len(nodes))
  <2>1. inits \in Seq(InitRec(Len(nodes)))
    BY TypeParts DEF IInv
  <2> QED
    BY <2>1, ElementOfSeq
<1> HIDE DEF v
<1>3. CASE v.complexType = Null
  BY <1>1, <1>3 DEF KindsRead, v
<1>4. CASE v.complexType # Null
  <2>1. v.complexType \in Node /\ v.base \in BaseTypes
    BY <1>2, <1>4 DEF InitRec, Node
  <2>2. PICK last \in v.complexType..Len(nodes) :
             /\ TypeEnds(nodes, v.complexType, last, v.base)
             /\ Reading(v.text) = Row(nodes, v.complexType, last)
    BY <1>1, <1>4 DEF KindsRead
  <2>3. TypeAt(v.complexType) = Append(Row(nodes, v.complexType, last), v.base)
    BY <2>1, <2>2, DownRow
  <2> QED
    BY <1>4, <2>2, <2>3 DEF v
<1> QED
  BY <1>3, <1>4

\* What the parser knows of the types, after every step.
THEOREM ReadingInductive == Spec => []RInv
<1>1. Init => RInv
  BY InitRInv
<1>2. IInv /\ RInv /\ [Next]_vars => RInv'
  <2> SUFFICES ASSUME IInv, RInv, [Next]_vars
               PROVE  RInv'
    OBVIOUS
  <2>1. CASE \E type \in BaseTypes : VarDefBaseType(type)
    BY <2>1, IdleRead
  <2>2. CASE Shift
    BY <2>2, ShiftRead
  <2>3. CASE Parentheses
    <3>1. "id" \in Operands /\ "cv" \in Operands
      BY DEF Operands
    <3>2. /\ OnTop(<<"(", "id", ")">>) \/ OnTop(<<"(", "cv", ")">>)
          /\ stack' = Reduced(3, stack[Len(stack) - 1].sym, Value(2))
          /\ UNCHANGED <<text, next, nodes, inits>>
      BY <2>3 DEF Parentheses, Depth
    <3> QED
      BY <3>1, <3>2, ParenthesesRead
  <2>4. CASE ArrayOfName \/ PointerToName \/ ArrayOfComplex \/ PointerToComplex
    BY <2>4, NodesRead
  <2>5. CASE PlainVar
    BY <2>5, PlainVarRead
  <2>6. CASE InitializedVar \/ BeginReverse \/ SyntaxError \/ EndOfText \/ Ended \/ UNCHANGED vars
    BY <2>6, IdleRead
  <2>7. CASE ReverseStep
    BY <2>7, ReverseStepRead
  <2>8. CASE EndReverse
    BY <2>8, EndReverseRead
  <2> QED
    BY <2>1, <2>2, <2>3, <2>4, <2>5, <2>6, <2>7, <2>8 DEF Next, Step
<1> QED
  BY <1>1, <1>2, DeclaratorsInductive, PTL DEF Spec

\* Each variable gets the type that C reads in its declarator, for texts of any
\* length: parser, reversal and CurrentBaseType together (VarInit::VarInit,
\* VarDef::CodeGen).
THEOREM TypesAreReadAsC == Spec => []TypesReadAsC
BY DeclaratorsInductive, ReadingInductive, RInvTypes, PTL
=============================================================================
