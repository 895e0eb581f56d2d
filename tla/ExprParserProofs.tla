-------------------------- MODULE ExprParserProofs --------------------------
(***************************************************************************)
(* The trees of expressions, for texts of every length: what is accepted   *)
(* has the tree that the precedence declarations give it (TreeAsDeclared), *)
(* which is that of C where no operator without a declaration follows      *)
(* another operator (ReadsAsC).                                            *)
(*                                                                         *)
(* The symbols on the parser's stack stand for adjacent parts of the text, *)
(* up to the lookahead (Covers).  Of two operators on the stack the upper  *)
(* one was not to wait for the lower one, and of an operator and the root  *)
(* of an operand next to it the root comes first (Follows).                *)
(***************************************************************************)
EXTENDS ExprParser, FiniteSetTheorems, SequenceTheorems, WellFoundedInduction, TLAPS

----------------------------------------------------------------------------
\* Induction over the natural numbers.

LessThan == {pair \in Nat \X Nat : pair[1] < pair[2]}

LEMMA LessThanWF == IsWellFoundedOn(LessThan, Nat)
BY NatLessThanWellFounded DEF OpToRel, LessThan

LEMMA SmallestOf ==
    ASSUME NEW T \in SUBSET Nat, T # {}
    PROVE  \E n \in T : \A m \in T : n <= m
<1>1. PICK n \in T : \A m \in T : ~(<<m, n>> \in LessThan)
  BY LessThanWF, WFMin
<1>2. \A m \in T : ~(m < n)
  BY <1>1 DEF LessThan
<1> QED
  BY <1>2

LEMMA SetInduction ==
    ASSUME NEW T \in SUBSET Nat, 0 \in T, \A n \in T : n + 1 \in T
    PROVE  \A n \in Nat : n \in T
<1> SUFFICES ASSUME Nat \ T # {} PROVE FALSE
  OBVIOUS
<1>1. PICK n \in Nat \ T : \A m \in Nat \ T : n <= m
  BY SmallestOf
<1>2. n # 0 /\ n - 1 \in Nat
  BY <1>1
<1>3. n - 1 \notin T
  BY <1>1, <1>2
<1> QED
  BY <1>1, <1>2, <1>3

LEMMA MeasureInduction ==
    ASSUME NEW S, NEW m \in [S -> Nat], NEW G,
           \A x \in S : (\A y \in S : m[y] < m[x] => y \in G) => x \in G
    PROVE  \A x \in S : x \in G
<1> DEFINE T == {m[x] : x \in {y \in S : y \notin G}}
<1> SUFFICES ASSUME T # {} PROVE FALSE
  OBVIOUS
<1>1. T \in SUBSET Nat
  OBVIOUS
<1>2. PICK n \in T : \A k \in T : n <= k
  <2> HIDE DEF T
  <2> QED
    BY <1>1, SmallestOf
<1>3. PICK x \in S : x \notin G /\ n = m[x]
  OBVIOUS
<1>4. ASSUME NEW y \in S, y \notin G
      PROVE  ~(m[y] < m[x])
  <2>1. m[y] \in T
    BY <1>4
  <2> HIDE DEF T
  <2>2. n <= m[y]
    BY <1>2, <2>1
  <2> QED
    BY <1>3, <2>2
<1> QED
  BY <1>3, <1>4

----------------------------------------------------------------------------
\* The grammar's function: what is in a set of trees.

ArgumentOf(t, g, from, to, behind, x) ==
    /\ from < to /\ t[to - 1] = behind
    /\ \E k \in (from + 1)..(to - 2) :
          \E c \in g[<<"open", from, k>>], a \in g[<<"expr", k, to - 1>>] :
             x = Call(c.name, Append(c.kids, a))

OperatorOf(t, s, g, from, to, x) ==
    \E k \in (from + 1)..(to - 2) :
       /\ t[k] \in BinOps
       /\ \E l \in g[<<"expr", from, k>>], r \in g[<<"expr", k + 1, to>>] :
             <<t[k], l.op, r.op>> \in s /\ x = Node(t[k], NoName, <<l, r>>)

OpenOf(t, g, from, to, x) ==
    \/ to = from + 1 /\ t[from] \in Funcs /\ x = Call(t[from], <<>>)
    \/ ArgumentOf(t, g, from, to, ",", x)

ExprOf(t, s, g, from, to, x) ==
    \/ to = from + 1 /\ t[from] \in Vars \cup Lits /\ x = Leaf(t[from])
    \/ to = from + 2 /\ t[from] \in Funcs /\ t[from + 1] = ")" /\ x = Call(t[from], <<>>)
    \/ ArgumentOf(t, g, from, to, ")", x)
    \/ OperatorOf(t, s, g, from, to, x)

LEMMA ArgumentTrees ==
    ASSUME NEW t, NEW g, NEW from, NEW to, NEW behind, NEW x
    PROVE  x \in WithArgument(t, g, from, to, behind) <=> ArgumentOf(t, g, from, to, behind, x)
<1> DEFINE P(k) == g[<<"open", from, k>>] \X g[<<"expr", k, to - 1>>]
           A(k) == {Call(part[1].name, Append(part[1].kids, part[2])) : part \in P(k)}
           K    == (from + 1)..(to - 2)
<1>1. \A k : x \in A(k) <=> \E c \in g[<<"open", from, k>>], a \in g[<<"expr", k, to - 1>>] :
                               x = Call(c.name, Append(c.kids, a))
  <2> TAKE k
  <2> DEFINE O == g[<<"open", from, k>>]
             E == g[<<"expr", k, to - 1>>]
  <2>1. ASSUME x \in A(k)
        PROVE  \E c \in O, a \in E : x = Call(c.name, Append(c.kids, a))
    <3>1. PICK p \in O \X E : x = Call(p[1].name, Append(p[1].kids, p[2]))
      BY <2>1
    <3> HIDE DEF O, E
    <3> QED
      BY <3>1
  <2>2. ASSUME NEW c \in O, NEW a \in E, x = Call(c.name, Append(c.kids, a))
        PROVE  x \in A(k)
    <3> DEFINE p == <<c, a>>
    <3>1. p \in P(k) /\ p[1] = c /\ p[2] = a
      OBVIOUS
    <3> HIDE DEF p
    <3> QED
      BY <2>2, <3>1
  <2> QED
    BY <2>1, <2>2
<1>2. WithArgument(t, g, from, to, behind) =
         IF from < to /\ t[to - 1] = behind THEN UNION {A(k) : k \in K} ELSE {}
  BY DEF WithArgument
<1> HIDE DEF A, K
<1>3. x \in UNION {A(k) : k \in K} <=> \E k \in K : x \in A(k)
  OBVIOUS
<1> QED
  BY <1>1, <1>2, <1>3 DEF ArgumentOf, K

LEMMA OperatorTrees ==
    ASSUME NEW t, NEW s, NEW g, NEW from, NEW to, NEW x
    PROVE  x \in WithOperator(t, s, g, from, to) <=> OperatorOf(t, s, g, from, to, x)
<1> DEFINE P(k) == {p \in g[<<"expr", from, k>>] \X g[<<"expr", k + 1, to>>] :
                      <<t[k], p[1].op, p[2].op>> \in s}
           A(k) == {Node(t[k], NoName, <<part[1], part[2]>>) : part \in P(k)}
           K    == {j \in (from + 1)..(to - 2) : t[j] \in BinOps}
<1>1. \A k : x \in A(k) <=> \E l \in g[<<"expr", from, k>>], r \in g[<<"expr", k + 1, to>>] :
                               <<t[k], l.op, r.op>> \in s /\ x = Node(t[k], NoName, <<l, r>>)
  <2> TAKE k
  <2> DEFINE L == g[<<"expr", from, k>>]
             R == g[<<"expr", k + 1, to>>]
  <2>1. ASSUME x \in A(k)
        PROVE  \E l \in L, r \in R :
                  <<t[k], l.op, r.op>> \in s /\ x = Node(t[k], NoName, <<l, r>>)
    <3>1. PICK p \in L \X R :
             <<t[k], p[1].op, p[2].op>> \in s /\ x = Node(t[k], NoName, <<p[1], p[2]>>)
      BY <2>1
    <3> HIDE DEF L, R
    <3> QED
      BY <3>1
  <2>2. ASSUME NEW l \in L, NEW r \in R,
               <<t[k], l.op, r.op>> \in s, x = Node(t[k], NoName, <<l, r>>)
        PROVE  x \in A(k)
    <3> DEFINE p == <<l, r>>
    <3>1. p \in L \X R /\ p[1] = l /\ p[2] = r
      OBVIOUS
    <3> HIDE DEF p
    <3>2. p \in P(k)
      BY <2>2, <3>1
    <3> QED
      BY <2>2, <3>1, <3>2
  <2> QED
    BY <2>1, <2>2
<1>2. WithOperator(t, s, g, from, to) = UNION {A(k) : k \in K}
  BY DEF WithOperator
<1> HIDE DEF A
<1>3. x \in UNION {A(k) : k \in K} <=> \E k \in K : x \in A(k)
  OBVIOUS
<1> QED
  BY <1>1, <1>2, <1>3 DEF OperatorOf

LEMMA OpenTrees ==
    ASSUME NEW t, NEW s, NEW g, NEW from, NEW to, NEW x
    PROVE  x \in TreesOf(t, s, g, <<"open", from, to>>) <=> OpenOf(t, g, from, to, x)
BY ArgumentTrees DEF TreesOf, OpenOf

LEMMA ExprTrees ==
    ASSUME NEW t, NEW s, NEW g, NEW from, NEW to, NEW x
    PROVE  x \in TreesOf(t, s, g, <<"expr", from, to>>) <=> ExprOf(t, s, g, from, to, x)
BY ArgumentTrees, OperatorTrees DEF TreesOf, ExprOf

\* The size of a part of t, as a natural number.
Size(t, part) == (Len(t) + part[3]) - part[2]

\* What TreesOf gives depends on the tokens of the part and on smaller parts.
LEMMA TreesDepend ==
    ASSUME NEW t \in Seq(Tokens), NEW u \in Seq(Tokens), Len(t) <= Len(u),
           \A i \in 1..Len(t) : t[i] = u[i],
           NEW s, NEW g, NEW h, NEW part \in Parts(t),
           \A p \in Parts(t) : Size(t, p) < Size(t, part) => g[p] = h[p]
    PROVE  TreesOf(t, s, g, part) = TreesOf(u, s, h, part)
<1> DEFINE n    == Len(t)
           kind == part[1]
           from == part[2]
           to   == part[3]
<1>1. n \in Nat /\ kind \in {"expr", "open"} /\ from \in 1..n /\ to \in 1..n /\ part = <<kind, from, to>>
  BY DEF Parts
<1>2. ASSUME NEW a \in 1..n, NEW b \in 1..n, NEW kd \in {"expr", "open"}, b - a < to - from
      PROVE  g[<<kd, a, b>>] = h[<<kd, a, b>>]
  <2>1. <<kd, a, b>> \in Parts(t)
    BY DEF Parts
  <2>2. Size(t, <<kd, a, b>>) = (n + b) - a /\ Size(t, part) = (n + to) - from
    BY DEF Size
  <2> HIDE DEF n, from, to
  <2>3. (n + b) - a < (n + to) - from
    BY <1>1, <1>2
  <2> QED
    BY <2>1, <2>2, <2>3
<1>3. \A i \in 1..n : t[i] = u[i]
  OBVIOUS
<1> HIDE DEF n, kind, from, to
<1>4. ASSUME NEW k \in (from + 1)..(to - 2)
      PROVE  /\ g[<<"open", from, k>>] = h[<<"open", from, k>>]
             /\ g[<<"expr", k, to - 1>>] = h[<<"expr", k, to - 1>>]
             /\ g[<<"expr", from, k>>] = h[<<"expr", from, k>>]
             /\ g[<<"expr", k + 1, to>>] = h[<<"expr", k + 1, to>>]
             /\ t[k] = u[k]
  <2>1. k \in 1..n /\ k + 1 \in 1..n /\ to - 1 \in 1..n /\ k - from < to - from
        /\ (to - 1) - k < to - from /\ to - (k + 1) < to - from
    BY <1>1
  <2> QED
    BY <1>1, <1>2, <1>3, <2>1
<1>5. /\ t[from] = u[from]
      /\ from < to => t[to - 1] = u[to - 1]
      /\ to = from + 2 => t[from + 1] = u[from + 1]
  <2>1. from \in 1..n /\ (from < to => to - 1 \in 1..n) /\ (to = from + 2 => from + 1 \in 1..n)
    BY <1>1
  <2> QED
    BY ONLY <1>3, <2>1, Zenon
<1>6. ASSUME NEW x, NEW b
      PROVE  ArgumentOf(t, g, from, to, b, x) <=> ArgumentOf(u, h, from, to, b, x)
  <2> DEFINE G(k) == \E c \in g[<<"open", from, k>>], a \in g[<<"expr", k, to - 1>>] :
                        x = Call(c.name, Append(c.kids, a))
             H(k) == \E c \in h[<<"open", from, k>>], a \in h[<<"expr", k, to - 1>>] :
                        x = Call(c.name, Append(c.kids, a))
             K    == (from + 1)..(to - 2)
  <2>1. ASSUME NEW k \in K
        PROVE  G(k) <=> H(k)
    BY ONLY <1>4, k \in K, Zenon
  <2>2. /\ ArgumentOf(t, g, from, to, b, x) <=> from < to /\ t[to - 1] = b /\ \E k \in K : G(k)
        /\ ArgumentOf(u, h, from, to, b, x) <=> from < to /\ u[to - 1] = b /\ \E k \in K : H(k)
    BY DEF ArgumentOf
  <2> HIDE DEF G, H, K
  <2> QED
    BY ONLY <1>5, <2>1, <2>2, Zenon
<1>7. ASSUME NEW x
      PROVE  OperatorOf(t, s, g, from, to, x) <=> OperatorOf(u, s, h, from, to, x)
  <2> DEFINE G(k) == \E l \in g[<<"expr", from, k>>], r \in g[<<"expr", k + 1, to>>] :
                        <<t[k], l.op, r.op>> \in s /\ x = Node(t[k], NoName, <<l, r>>)
             H(k) == \E l \in h[<<"expr", from, k>>], r \in h[<<"expr", k + 1, to>>] :
                        <<u[k], l.op, r.op>> \in s /\ x = Node(u[k], NoName, <<l, r>>)
             K    == (from + 1)..(to - 2)
  <2>1. ASSUME NEW k \in K
        PROVE  (t[k] \in BinOps /\ G(k)) <=> (u[k] \in BinOps /\ H(k))
    BY ONLY <1>4, k \in K, Zenon
  <2>2. /\ OperatorOf(t, s, g, from, to, x) <=> \E k \in K : t[k] \in BinOps /\ G(k)
        /\ OperatorOf(u, s, h, from, to, x) <=> \E k \in K : u[k] \in BinOps /\ H(k)
    BY DEF OperatorOf
  <2> HIDE DEF G, H, K
  <2> QED
    BY ONLY <2>1, <2>2, Zenon
<1>8. \A x : x \in TreesOf(t, s, g, part) <=> x \in TreesOf(u, s, h, part)
  <2>1. CASE kind = "open"
    BY <1>1, <1>5, <1>6, <2>1, OpenTrees DEF OpenOf
  <2>2. CASE kind = "expr"
    BY <1>1, <1>5, <1>6, <1>7, <2>2, ExprTrees DEF ExprOf
  <2> QED
    BY <1>1, <2>1, <2>2
<1> QED
  BY ONLY <1>8, Zenon

----------------------------------------------------------------------------
\* The recursive function exists: it is what the grammar's function computes
\* from itself.

\* g is right for all parts of a size below k.
RightBelow(t, s, g, k) ==
    \A part \in Parts(t) : Size(t, part) < k => g[part] = TreesOf(t, s, g, part)

LEMMA SizeFacts ==
    ASSUME NEW t \in Seq(Tokens), NEW part \in Parts(t)
    PROVE  Size(t, part) \in Nat /\ Size(t, part) < 2 * Len(t) + 1
<1>1. Len(t) \in Nat /\ part[2] \in 1..Len(t) /\ part[3] \in 1..Len(t)
  BY DEF Parts
<1> QED
  BY <1>1 DEF Size

LEMMA RightFurther ==
    ASSUME NEW t \in Seq(Tokens), NEW s, NEW g, NEW k \in Nat, RightBelow(t, s, g, k)
    PROVE  \E h : RightBelow(t, s, h, k + 1)
<1> DEFINE h == [part \in Parts(t) |-> TreesOf(t, s, g, part)]
<1>1. ASSUME NEW part \in Parts(t), Size(t, part) < k + 1
      PROVE  h[part] = TreesOf(t, s, h, part)
  <2>1. ASSUME NEW p \in Parts(t), Size(t, p) < Size(t, part)
        PROVE  g[p] = h[p]
    <3>1. Size(t, p) < k
      BY <1>1, <2>1, SizeFacts
    <3> QED
      BY <3>1 DEF RightBelow
  <2>2. TreesOf(t, s, g, part) = TreesOf(t, s, h, part)
    <3>1. Len(t) <= Len(t)
      OBVIOUS
    <3> HIDE DEF h
    <3> QED
      BY <2>1, <3>1, TreesDepend
  <2> QED
    BY <2>2
<1> HIDE DEF h
<1> QED
  BY <1>1 DEF RightBelow

LEMMA TreesExist ==
    ASSUME NEW t \in Seq(Tokens), NEW s
    PROVE  \E g : g = [part \in Parts(t) |-> TreesOf(t, s, g, part)]
<1> DEFINE Good(k) == \E g : RightBelow(t, s, g, k)
           N == {k \in Nat : Good(k)}
           K == 2 * Len(t) + 1
<1>1. 0 \in N
  <2>1. \A part \in Parts(t) : ~(Size(t, part) < 0)
    BY SizeFacts
  <2>2. \A g : RightBelow(t, s, g, 0)
    BY <2>1 DEF RightBelow
  <2> QED
    BY <2>2
<1>2. ASSUME NEW k \in N
      PROVE  k + 1 \in N
  <2>1. PICK g : RightBelow(t, s, g, k)
    OBVIOUS
  <2> QED
    BY <2>1, RightFurther
<1>3. K \in N
  <2>1. N \in SUBSET Nat /\ K \in Nat
    OBVIOUS
  <2> HIDE DEF N, K
  <2> QED
    BY <1>1, <1>2, <2>1, SetInduction
<1>4. PICK g : RightBelow(t, s, g, K)
  BY <1>3
<1> DEFINE h == [part \in Parts(t) |-> TreesOf(t, s, g, part)]
<1>5. ASSUME NEW part \in Parts(t)
      PROVE  TreesOf(t, s, g, part) = TreesOf(t, s, h, part)
  <2>1. \A p \in Parts(t) : g[p] = h[p]
    BY <1>4, SizeFacts DEF RightBelow
  <2>2. Len(t) <= Len(t)
    OBVIOUS
  <2> HIDE DEF h
  <2> QED
    BY <2>1, <2>2, TreesDepend
<1>6. h = [part \in Parts(t) |-> TreesOf(t, s, h, part)]
  BY <1>5
<1> HIDE DEF h
<1> QED
  BY <1>6

\* The trees of a part are those that the grammar makes of the trees of smaller parts.
LEMMA TreesStep ==
    ASSUME NEW t \in Seq(Tokens), NEW s, NEW part \in Parts(t)
    PROVE  Trees(t, s)[part] = TreesOf(t, s, Trees(t, s), part)
<1>1. Trees(t, s) = [p \in Parts(t) |-> TreesOf(t, s, Trees(t, s), p)]
  BY TreesExist, Zenon DEF Trees
<1> QED
  BY <1>1

\* The parts of a longer text that are in a shorter one have the same trees.
LEMMA TreesKept ==
    ASSUME NEW t \in Seq(Tokens), NEW u \in Seq(Tokens), Len(t) <= Len(u),
           \A i \in 1..Len(t) : t[i] = u[i], NEW s
    PROVE  \A part \in Parts(t) : Trees(t, s)[part] = Trees(u, s)[part]
<1> DEFINE P == Parts(t)
           m == [part \in P |-> Size(t, part)]
           G == {part \in P : Trees(t, s)[part] = Trees(u, s)[part]}
<1>1. m \in [P -> Nat]
  BY SizeFacts
<1>2. ASSUME NEW part \in P, \A p \in P : m[p] < m[part] => p \in G
      PROVE  part \in G
  <2>1. \A p \in Parts(t) : Size(t, p) < Size(t, part) => Trees(t, s)[p] = Trees(u, s)[p]
    BY <1>2
  <2>2. TreesOf(t, s, Trees(t, s), part) = TreesOf(u, s, Trees(u, s), part)
    BY <2>1, TreesDepend
  <2>3. part \in Parts(u)
    BY DEF Parts
  <2> QED
    BY <2>2, <2>3, TreesStep
<1>3. \A part \in P : part \in G
  <2> HIDE DEF P, m, G
  <2> QED
    BY <1>1, <1>2, MeasureInduction
<1> QED
  BY <1>3

----------------------------------------------------------------------------
\* What the trees of a part are.

LEMMA InOpen ==
    ASSUME NEW t \in Seq(Tokens), NEW s, NEW from \in 1..Len(t), NEW to \in 1..Len(t), NEW x
    PROVE  x \in Trees(t, s)[<<"open", from, to>>] <=> OpenOf(t, Trees(t, s), from, to, x)
<1>1. <<"open", from, to>> \in Parts(t)
  BY DEF Parts
<1> QED
  BY <1>1, TreesStep, OpenTrees

LEMMA InExpr ==
    ASSUME NEW t \in Seq(Tokens), NEW s, NEW from \in 1..Len(t), NEW to \in 1..Len(t), NEW x
    PROVE  x \in Trees(t, s)[<<"expr", from, to>>] <=> ExprOf(t, s, Trees(t, s), from, to, x)
<1>1. <<"expr", from, to>> \in Parts(t)
  BY DEF Parts
<1> QED
  BY <1>1, TreesStep, ExprTrees

LEMMA Words ==
    /\ BinOps \subseteq Operators
    /\ \A w \in {"expr", "call", ",", "bottom", "var", "const"} : w \notin Operators
BY TokenAssumption DEF Operators, Arithmetic, Relational

LEMMA Precedences ==
    /\ \A op \in Operators : op \in Arithmetic <=> Precedence(op) > 0
    /\ \A op : Precedence(op) \in 0..2
BY DEF Operators, Arithmetic, Relational, Precedence

LEMMA Kinds ==
    ASSUME NEW t \in Seq(Tokens), NEW s, NEW from \in 1..Len(t), NEW to \in 1..Len(t),
           NEW x \in Trees(t, s)[<<"expr", from, to>>]
    PROVE  x.op \in NodeKinds
<1>1. ExprOf(t, s, Trees(t, s), from, to, x)
  BY InExpr
<1>2. CASE x = Leaf(t[from])
  BY <1>2 DEF Leaf, Node, NodeKinds
<1>3. CASE \E f, as : x = Call(f, as)
  BY <1>3 DEF Call, Node, NodeKinds
<1>4. CASE \E op \in BinOps : \E ks : x = Node(op, NoName, ks)
  <2>1. PICK op \in BinOps : \E ks : x = Node(op, NoName, ks)
    BY <1>4
  <2>2. x.op = op
    BY <2>1 DEF Node
  <2> QED
    BY <2>2, Words DEF NodeKinds
<1>5. \A b : ArgumentOf(t, Trees(t, s), from, to, b, x) => \E f, as : x = Call(f, as)
  BY Zenon DEF ArgumentOf
<1>6. OperatorOf(t, s, Trees(t, s), from, to, x) => \E op \in BinOps : \E ks : x = Node(op, NoName, ks)
  BY Zenon DEF OperatorOf
<1> QED
  BY <1>1, <1>2, <1>3, <1>4, <1>5, <1>6, Zenon DEF ExprOf

----------------------------------------------------------------------------
\* The parser's stack.

IsStack(st) == \E S : st \in Seq(S)

\* An entry of the stack stands for the tokens from..(to - 1) of t.
Entry(t, e, from, to) ==
    /\ from < to
    /\ e.sym \in Operators \cup {"expr", "call", ","}
    /\ e.sym \in Operators => to = from + 1 /\ t[from] = e.sym /\ e.sym \in BinOps
    /\ e.sym = "expr" => e.tree \in Trees(t, AsDeclared)[<<"expr", from, to>>]
    /\ e.sym = "call" => to = from + 1 /\ t[from] \in Funcs /\ e.tree = Call(t[from], <<>>)
    /\ e.sym = "," => e.tree \in Trees(t, AsDeclared)[<<"open", from, to>>]

\* Entry e is on top of d.
Follows(d, e) ==
    /\ e.sym \in Operators =>
          d.sym = "expr" /\ (d.tree.op \in Operators => ReducesFirst(d.tree.op, e.sym))
    /\ e.sym \notin Operators => d.sym # "expr"
    /\ e.sym = "expr" /\ d.sym \in Operators /\ e.tree.op \in Operators =>
          ~ReducesFirst(d.sym, e.tree.op)

\* Entry e is the i-th one, those below being the ones of st.
Fits(st, i, e) ==
    /\ i = 1 => e.sym \notin Operators
    /\ i > 1 => Follows(st[i - 1], e)
    /\ i > 2 /\ e.sym \in Operators /\ st[i - 2].sym \in Operators =>
          ~ReducesFirst(st[i - 2].sym, e.sym)

Ordered(st) == \A i \in 1..Len(st) : Fits(st, i, st[i])

\* The entries stand for adjacent parts of t, up to its last token.
Covers(st, t, c) ==
    /\ c \in [0..Len(st) -> 1..Len(t)]
    /\ c[0] = 1 /\ c[Len(st)] = Len(t)
    /\ \A i \in 1..Len(st) : Entry(t, st[i], c[i - 1], c[i])

\* An operator that has been reduced did not wait for the lookahead.
OnTop ==
    Sym(Depth) = "expr" /\ next \in BinOps /\ stack[Depth].tree.op \in Operators =>
        ReducesFirst(stack[Depth].tree.op, next)

TextRead == text \in Seq(Tokens) /\ text # <<>> /\ next = text[Len(text)]

PInv ==
    /\ TextRead
    /\ IsStack(stack)
    /\ Ordered(stack)
    /\ \E c : Covers(stack, text, c)
    /\ OnTop
    /\ phase = "parsed" => Depth = 1 /\ Sym(1) = "expr" /\ next = "end"

LEMMA EntryKept ==
    ASSUME NEW t \in Seq(Tokens), NEW u \in Seq(Tokens), Len(t) <= Len(u),
           \A i \in 1..Len(t) : t[i] = u[i],
           NEW e, NEW from \in 1..Len(t), NEW to \in 1..Len(t), Entry(t, e, from, to)
    PROVE  Entry(u, e, from, to)
<1>1. <<"open", from, to>> \in Parts(t) /\ <<"expr", from, to>> \in Parts(t)
  BY DEF Parts
<1>2. /\ Trees(t, AsDeclared)[<<"open", from, to>>] = Trees(u, AsDeclared)[<<"open", from, to>>]
      /\ Trees(t, AsDeclared)[<<"expr", from, to>>] = Trees(u, AsDeclared)[<<"expr", from, to>>]
  BY <1>1, TreesKept
<1>3. t[from] = u[from]
  OBVIOUS
<1> QED
  BY <1>2, <1>3, Zenon DEF Entry

LEMMA Appended ==
    ASSUME NEW st, IsStack(st), NEW m \in 0..Len(st), NEW e
    PROVE  LET new == Append(SubSeq(st, 1, m), e)
           IN  /\ IsStack(new) /\ Len(new) = m + 1
               /\ \A i \in 1..m : new[i] = st[i]
               /\ new[m + 1] = e
<1>1. PICK S : st \in Seq(S)
  BY DEF IsStack
<1> DEFINE T == S \cup {e}
           b == SubSeq(st, 1, m)
<1>2. st \in Seq(T) /\ e \in T
  <2>1. e \in T /\ \A i \in 1..Len(st) : st[i] \in T
    BY <1>1, ElementOfSeq
  <2> HIDE DEF T
  <2>2. st = [i \in 1..Len(st) |-> st[i]] /\ Len(st) \in Nat
    BY <1>1
  <2> QED
    BY <2>1, <2>2, SeqDef
<1> HIDE DEF T
<1>3. b \in Seq(T) /\ Len(b) = m /\ \A i \in 1..m : b[i] = st[i]
  BY <1>2
<1> HIDE DEF b
<1>4. /\ Append(b, e) \in Seq(T) /\ Len(Append(b, e)) = m + 1
      /\ \A i \in 1..m : Append(b, e)[i] = b[i]
      /\ Append(b, e)[m + 1] = e
  BY <1>2, <1>3
<1> QED
  BY <1>3, <1>4 DEF IsStack, b

\* The upper entries of the stack are replaced by e, the first m of them are kept;
\* the text grows from t to u.
LEMMA Replaced ==
    ASSUME NEW t \in Seq(Tokens), NEW u \in Seq(Tokens), Len(t) <= Len(u),
           \A i \in 1..Len(t) : t[i] = u[i],
           NEW st, IsStack(st), Ordered(st), NEW c, Covers(st, t, c),
           NEW m \in 0..Len(st), NEW e, Entry(u, e, c[m], Len(u)), Fits(st, m + 1, e)
    PROVE  LET new == Append(SubSeq(st, 1, m), e)
           IN  IsStack(new) /\ Ordered(new) /\ \E d : Covers(new, u, d)
<1> DEFINE new == Append(SubSeq(st, 1, m), e)
           d == [i \in 0..(m + 1) |-> IF i \in 0..m THEN c[i] ELSE Len(u)]
<1>1. /\ Len(st) \in Nat /\ m \in Nat /\ m <= Len(st)
      /\ Len(t) \in Nat /\ Len(u) \in Nat
  <2>1. PICK S : st \in Seq(S)
    BY DEF IsStack
  <2> QED
    BY <2>1
<1>2. /\ IsStack(new) /\ Len(new) = m + 1
      /\ \A i \in 1..m : new[i] = st[i]
      /\ new[m + 1] = e
  BY Appended
<1> HIDE DEF new
<1>3. /\ c \in [0..Len(st) -> 1..Len(t)] /\ c[0] = 1
      /\ \A i \in 1..Len(st) : Entry(t, st[i], c[i - 1], c[i])
  BY DEF Covers
<1>4. ASSUME NEW i \in 1..Len(new)
      PROVE  Fits(new, i, new[i])
  <2>1. /\ i > 1 => new[i - 1] = st[i - 1]
        /\ i > 2 => new[i - 2] = st[i - 2]
    BY <1>1, <1>2
  <2>2. CASE i \in 1..m
    <3>1. Fits(st, i, st[i])
      BY <1>1, <2>2 DEF Ordered
    <3>2. new[i] = st[i]
      BY <1>2, <2>2
    <3> QED
      BY <2>1, <3>1, <3>2 DEF Fits
  <2>3. CASE i = m + 1
    BY <1>2, <2>1, <2>3 DEF Fits
  <2> QED
    BY <1>1, <1>2, <2>2, <2>3
<1>5. d \in [0..Len(new) -> 1..Len(u)]
  <2>1. \A i \in 0..m : c[i] \in 1..Len(u)
    BY <1>1, <1>3
  <2>2. Len(u) \in 1..Len(u)
    BY <1>1, <2>1
  <2> QED
    BY <1>2, <2>1, <2>2
<1>6. d[0] = 1 /\ d[Len(new)] = Len(u) /\ \A i \in 0..m : d[i] = c[i]
  BY <1>1, <1>2, <1>3
<1> HIDE DEF d
<1>7. ASSUME NEW i \in 1..Len(new)
      PROVE  Entry(u, new[i], d[i - 1], d[i])
  <2>1. CASE i \in 1..m
    <3>1. i \in 1..Len(st) /\ {i, i - 1} \subseteq 0..m /\ {i, i - 1} \subseteq 0..Len(st)
      BY <1>1, <2>1
    <3>2. c[i - 1] \in 1..Len(t) /\ c[i] \in 1..Len(t) /\ Entry(t, st[i], c[i - 1], c[i])
      BY <1>1, <1>3, <3>1
    <3>3. Entry(u, st[i], c[i - 1], c[i])
      BY <3>2, EntryKept
    <3> QED
      BY <1>2, <1>6, <2>1, <3>1, <3>3
  <2>2. CASE i = m + 1
    <3>1. i - 1 = m /\ m \in 0..m
      BY <1>1, <2>2
    <3> QED
      BY <1>2, <1>6, <2>2, <3>1
  <2> QED
    BY <1>1, <1>2, <2>1, <2>2
<1>8. Covers(new, u, d)
  BY <1>5, <1>6, <1>7 DEF Covers
<1> QED
  BY <1>2, <1>4, <1>8 DEF Ordered, new

\* A token is read.
LEMMA Read ==
    ASSUME TextRead, ReadToken
    PROVE  /\ text' \in Seq(Tokens) /\ Len(text') = Len(text) + 1
           /\ \A i \in 1..Len(text) : text[i] = text'[i]
           /\ text'[Len(text')] = next' /\ next \in Tokens
           /\ Len(text) \in Nat /\ Len(text) >= 1 /\ text'[Len(text)] = next
<1>1. PICK token \in Tokens : next' = token /\ text' = Append(text, token)
  BY DEF ReadToken, Tokens, Punctuation
<1>2. Len(text) \in Nat /\ Len(text) >= 1 /\ text \in Seq(Tokens)
  BY DEF TextRead
<1> QED
  BY <1>1, <1>2, ElementOfSeq DEF TextRead

\* What all steps of the parser but the last one do: the upper n entries of the
\* stack become e.
LEMMA StackStep ==
    ASSUME PInv, NEW n \in 0..Depth, NEW e,
           stack' = Append(Below(n), e),
           ReadToken \/ UNCHANGED <<next, text>>,
           \A c : Covers(stack, text, c) => Entry(text', e, c[Depth - n], Len(text')),
           Fits(stack, (Depth - n) + 1, e),
           e.sym = "expr" /\ next' \in BinOps /\ e.tree.op \in Operators =>
              ReducesFirst(e.tree.op, next'),
           phase' = "parsing"
    PROVE  PInv'
<1> DEFINE m == Depth - n
<1>1. /\ text \in Seq(Tokens) /\ text' \in Seq(Tokens) /\ Len(text) <= Len(text')
      /\ \A i \in 1..Len(text) : text[i] = text'[i]
      /\ TextRead'
  <2>1. CASE ReadToken
    BY <2>1, Read DEF PInv, TextRead
  <2>2. CASE UNCHANGED <<next, text>>
    BY <2>2 DEF PInv, TextRead
  <2> QED
    BY <2>1, <2>2
<1>2. PICK c : Covers(stack, text, c)
  BY DEF PInv
<1>3. Depth \in Nat /\ m \in 0..Len(stack) /\ Depth = Len(stack)
  <2>1. PICK S : stack \in Seq(S)
    BY DEF PInv, IsStack
  <2>2. Len(stack) \in Nat
    BY <2>1
  <2> QED
    BY <2>2 DEF Depth
<1>4. stack' = Append(SubSeq(stack, 1, m), e)
  BY DEF Below
<1>5. Entry(text', e, c[m], Len(text')) /\ Fits(stack, m + 1, e)
  BY <1>2
<1>6. IsStack(stack) /\ Ordered(stack)
  BY DEF PInv
<1> HIDE DEF m
<1>7. IsStack(stack') /\ Ordered(stack') /\ \E d : Covers(stack', text', d)
  <2>1. /\ IsStack(Append(SubSeq(stack, 1, m), e)) /\ Ordered(Append(SubSeq(stack, 1, m), e))
        /\ \E d : Covers(Append(SubSeq(stack, 1, m), e), text', d)
    BY ONLY <1>1, <1>2, <1>3, <1>5, <1>6, Replaced
  <2> QED
    BY <1>4, <2>1
<1>8. stack'[Len(stack')] = e
  BY <1>3, <1>4, <1>6, Appended
<1>9. OnTop'
  BY <1>8 DEF OnTop, Sym, Depth
<1> QED
  BY <1>1, <1>7, <1>9 DEF PInv

LEMMA StackFacts ==
    ASSUME PInv
    PROVE  /\ Depth \in Nat /\ Depth = Len(stack) /\ Below(0) = stack
           /\ \A i \in 1..Depth : Sym(i) = stack[i].sym /\ Fits(stack, i, stack[i])
           /\ \A i : i \notin 1..Depth => Sym(i) = "bottom"
           /\ Len(text) \in Nat /\ Len(text) >= 1
<1>1. PICK S : stack \in Seq(S)
  BY DEF PInv, IsStack
<1>2. Len(stack) \in Nat /\ SubSeq(stack, 1, Len(stack)) = stack
  BY <1>1
<1>3. Below(0) = stack
  BY <1>2 DEF Below, Depth
<1>4. Len(text) \in Nat /\ Len(text) >= 1
  BY DEF PInv, TextRead
<1> QED
  BY <1>2, <1>3, <1>4 DEF PInv, Ordered, Depth, Sym

LEMMA CoverFacts ==
    ASSUME PInv, NEW c, Covers(stack, text, c)
    PROVE  /\ c[0] = 1 /\ c[Depth] = Len(text)
           /\ \A i \in 0..Depth : c[i] \in 1..Len(text)
           /\ \A i \in 1..Depth : Entry(text, stack[i], c[i - 1], c[i])
BY DEF Covers, Depth

\* Where an Expr has to come next, an atom or a call fits.
LEMMA OperandFits ==
    ASSUME PInv, ExprExpected, NEW e, e.sym \notin Operators,
           e.sym = "expr" => e.tree.op \notin Operators
    PROVE  Fits(stack, (Depth - 0) + 1, e)
<1>1. (Depth - 0) + 1 > 1 => Follows(stack[Depth], e)
  <2> SUFFICES ASSUME Depth # 0 PROVE Follows(stack[Depth], e)
    BY StackFacts
  <2>1. Depth \in 1..Depth
    BY StackFacts
  <2>2. stack[Depth].sym \in Operators \cup {"bottom", "call", ","}
    BY <2>1, StackFacts DEF ExprExpected
  <2> QED
    BY <2>2, Words DEF Follows
<1>2. Depth \in Nat
  BY StackFacts
<1> QED
  BY <1>1, <1>2 DEF Fits

LEMMA ShiftAtomKeeps ==
    ASSUME PInv, ShiftAtom
    PROVE  PInv'
<1> DEFINE e == Expr(Leaf(next))
           n == Len(text)
<1>1. /\ ExprExpected /\ next \in Vars \cup Lits /\ ReadToken
      /\ stack' = Append(Below(0), e) /\ phase' = "parsing"
  BY StackFacts DEF ShiftAtom, Parsing
<1>2. /\ text' \in Seq(Tokens) /\ Len(text') = n + 1 /\ n \in Nat /\ n >= 1
      /\ text'[n] = next
  BY <1>1, Read DEF PInv
<1>3. e.sym = "expr" /\ e.tree = Leaf(next) /\ e.tree.op \notin Operators
  BY Words DEF Expr, Leaf, Node
<1> HIDE DEF e, n
<1>4. Entry(text', e, n, n + 1)
  <2>1. n \in 1..Len(text') /\ n + 1 \in 1..Len(text') /\ n < n + 1
    BY <1>2
  <2>2. ExprOf(text', AsDeclared, Trees(text', AsDeclared), n, n + 1, Leaf(next))
    BY <1>1, <1>2 DEF ExprOf
  <2>3. Leaf(next) \in Trees(text', AsDeclared)[<<"expr", n, n + 1>>]
    BY <1>2, <2>1, <2>2, InExpr
  <2> QED
    BY <1>3, <2>1, <2>3, Words DEF Entry
<1>5. \A c : Covers(stack, text, c) => Entry(text', e, c[Depth - 0], Len(text'))
  <2>1. \A c : Covers(stack, text, c) => c[Depth - 0] = n
    BY StackFacts, CoverFacts DEF n
  <2> QED
    BY <1>2, <1>4, <2>1
<1>6. Fits(stack, (Depth - 0) + 1, e)
  BY <1>1, <1>3, Words, OperandFits
<1>7. 0 \in 0..Depth
  BY StackFacts
<1> QED
  BY <1>1, <1>3, <1>5, <1>6, <1>7, StackStep

LEMMA ShiftCallKeeps ==
    ASSUME PInv, ShiftCall
    PROVE  PInv'
<1> DEFINE e == Open("call", next, <<>>)
           n == Len(text)
<1>1. /\ ExprExpected /\ next \in Funcs /\ ReadToken
      /\ stack' = Append(Below(0), e) /\ phase' = "parsing"
  BY StackFacts DEF ShiftCall, Parsing
<1>2. /\ text' \in Seq(Tokens) /\ Len(text') = n + 1 /\ n \in Nat /\ n >= 1
      /\ text'[n] = next
  BY <1>1, Read DEF PInv
<1>3. e.sym = "call" /\ e.tree = Call(next, <<>>)
  BY DEF Open, Call
<1> HIDE DEF e, n
<1>4. Entry(text', e, n, n + 1)
  <2>1. n < n + 1 /\ text'[n] \in Funcs /\ e.tree = Call(text'[n], <<>>)
    BY <1>1, <1>2, <1>3
  <2>2. "call" \notin Operators
    BY Words
  <2> QED
    BY ONLY <1>3, <2>1, <2>2 DEF Entry
<1>5. \A c : Covers(stack, text, c) => Entry(text', e, c[Depth - 0], Len(text'))
  <2>1. \A c : Covers(stack, text, c) => c[Depth - 0] = n
    BY StackFacts, CoverFacts DEF n
  <2> QED
    BY <1>2, <1>4, <2>1
<1>6. Fits(stack, (Depth - 0) + 1, e)
  BY <1>1, <1>3, Words, OperandFits
<1>7. 0 \in 0..Depth
  BY StackFacts
<1> QED
  BY <1>1, <1>3, <1>5, <1>6, <1>7, StackStep

LEMMA ShiftOperatorKeeps ==
    ASSUME PInv, ShiftOperator
    PROVE  PInv'
<1> DEFINE e == Operator(next)
           n == Len(text)
<1>1. /\ Sym(Depth) = "expr" /\ next \in BinOps /\ ~Reducible /\ ReadToken
      /\ stack' = Append(Below(0), e) /\ phase' = "parsing"
  BY StackFacts DEF ShiftOperator, Parsing
<1>2. /\ text' \in Seq(Tokens) /\ Len(text') = n + 1 /\ n \in Nat /\ n >= 1
      /\ text'[n] = next
  BY <1>1, Read DEF PInv
<1>3. e.sym = next /\ next \in Operators /\ next \in BinOps /\ next \notin {"expr", "call", ","}
  BY <1>1, Words DEF Operator
<1> HIDE DEF e, n
<1>4. Entry(text', e, n, n + 1)
  <2>1. n < n + 1 /\ text'[n] = next
    BY <1>2
  <2> QED
    BY ONLY <1>3, <2>1 DEF Entry
<1>5. \A c : Covers(stack, text, c) => Entry(text', e, c[Depth - 0], Len(text'))
  <2>1. \A c : Covers(stack, text, c) => c[Depth - 0] = n
    BY StackFacts, CoverFacts DEF n
  <2> QED
    BY <1>2, <1>4, <2>1
<1>6. Depth \in 1..Depth /\ stack[Depth].sym = "expr"
  BY <1>1, StackFacts
<1>7. Fits(stack, (Depth - 0) + 1, e)
  <2>1. Follows(stack[Depth], e)
    BY <1>1, <1>3, <1>6 DEF PInv, OnTop, Follows
  <2>2. ASSUME Depth > 1, stack[Depth - 1].sym \in Operators
        PROVE  ~ReducesFirst(stack[Depth - 1].sym, next)
    <3>1. Sym(Depth - 1) = stack[Depth - 1].sym
      BY <2>2, StackFacts
    <3> QED
      BY <1>1, <2>2, <3>1 DEF Reducible
  <2>3. /\ (Depth - 0) + 1 # 1 /\ ((Depth - 0) + 1) - 1 = Depth
        /\ ((Depth - 0) + 1) - 2 = Depth - 1 /\ ((Depth - 0) + 1 > 2 => Depth > 1)
    BY <1>6, StackFacts
  <2> QED
    BY ONLY <1>3, <2>1, <2>2, <2>3, Zenon DEF Fits
<1>8. 0 \in 0..Depth
  BY StackFacts
<1> QED
  BY <1>1, <1>3, <1>5, <1>7, <1>8, StackStep

\* What the trees of two operands and the operator between them make.
LEMMA Reduced ==
    ASSUME NEW t \in Seq(Tokens), NEW a \in 1..Len(t), NEW k \in 1..Len(t), NEW b \in 1..Len(t),
           NEW l, NEW o, NEW r, k + 1 \in 1..Len(t),
           Entry(t, l, a, k), Entry(t, o, k, k + 1), Entry(t, r, k + 1, b),
           l.sym = "expr", r.sym = "expr", o.sym \in Operators, Follows(l, o), Follows(o, r)
    PROVE  Entry(t, Expr(Node(o.sym, NoName, <<l.tree, r.tree>>)), a, b)
<1> DEFINE g == Trees(t, AsDeclared)
           x == Node(o.sym, NoName, <<l.tree, r.tree>>)
<1>1. /\ a < k /\ k + 1 < b /\ t[k] = o.sym /\ o.sym \in BinOps
      /\ l.tree \in g[<<"expr", a, k>>] /\ r.tree \in g[<<"expr", k + 1, b>>]
  BY DEF Entry
<1>2. l.tree.op \in NodeKinds /\ r.tree.op \in NodeKinds
  BY <1>1, Kinds
<1>3. BindsAsDeclared(o.sym, l.tree.op, r.tree.op)
  <2>1. l.tree.op \in Operators => ReducesFirst(l.tree.op, o.sym)
    BY DEF Follows
  <2>2. r.tree.op \in Operators => ~ReducesFirst(o.sym, r.tree.op)
    BY DEF Follows
  <2>3. Arithmetic \subseteq Operators
    BY DEF Operators
  <2> QED
    BY <2>1, <2>2, <2>3, Precedences DEF BindsAsDeclared, ReducesFirst
<1>4. <<o.sym, l.tree.op, r.tree.op>> \in AsDeclared
  BY <1>2, <1>3 DEF AsDeclared, Shapes
<1> HIDE DEF g, x
<1>5. k \in (a + 1)..(b - 2)
  BY <1>1
<1>6. OperatorOf(t, AsDeclared, g, a, b, x)
  BY <1>1, <1>4, <1>5 DEF OperatorOf, x
<1>7. x \in g[<<"expr", a, b>>]
  BY <1>6, InExpr DEF ExprOf, g
<1>8. Expr(x).sym = "expr" /\ Expr(x).tree = x
  BY DEF Expr
<1>9. a < b
  BY <1>1
<1> QED
  BY <1>7, <1>8, <1>9, Words DEF Entry, x, g

LEMMA ReduceKeeps ==
    ASSUME PInv, Reduce
    PROVE  PInv'
<1> DEFINE D == Depth
           l == stack[D - 2]
           o == stack[D - 1]
           r == stack[D]
           e == Expr(Node(o.sym, NoName, <<l.tree, r.tree>>))
<1>1. D \in Nat /\ \A i \in 1..D : Sym(i) = stack[i].sym /\ Fits(stack, i, stack[i])
  BY StackFacts
<1>2. Reducible /\ phase' = "parsing" /\ UNCHANGED <<next, text>>
  BY DEF Reduce, Parsing
<1>3. Sym(D) = "expr" /\ Sym(D - 1) \in Operators
  BY <1>2 DEF Reducible
<1>4. D - 1 \in 1..D /\ D \in 1..D /\ D - 1 # 1
  <2>1. D \in 1..D /\ D - 1 \in 1..D
    BY <1>1, <1>3, Words, StackFacts
  <2>2. Sym(D - 1) = o.sym /\ Fits(stack, D - 1, o)
    BY <1>1, <2>1
  <2> QED
    BY <1>3, <2>1, <2>2 DEF Fits
<1> HIDE DEF D
<1>5. D - 2 \in 1..D /\ D >= 3
  BY <1>1, <1>4
<1>6. r.sym = "expr" /\ o.sym \in Operators /\ o.sym = Sym(D - 1)
  BY <1>1, <1>3, <1>4
<1>7. /\ Follows(o, r) /\ Follows(l, o) /\ l.sym = "expr"
      /\ D - 2 > 1 => Follows(stack[D - 3], l)
      /\ D - 1 > 2 /\ stack[D - 3].sym \in Operators => ~ReducesFirst(stack[D - 3].sym, o.sym)
  <2>1. Fits(stack, D, r) /\ Fits(stack, D - 1, o) /\ Fits(stack, D - 2, l)
    BY <1>1, <1>4, <1>5
  <2>2. D > 1 /\ D - 1 > 1 /\ (D - 1) - 1 = D - 2 /\ (D - 2) - 1 = D - 3 /\ (D - 1) - 2 = D - 3
    BY <1>1, <1>5
  <2>3. Follows(o, r) /\ Follows(l, o)
    BY <2>1, <2>2 DEF Fits
  <2> QED
    BY <1>6, <2>1, <2>2, <2>3 DEF Fits, Follows
<1>8. stack' = Append(Below(3), e)
  BY <1>6 DEF Reduce, D
<1>9. e.sym = "expr" /\ e.tree.op = o.sym
  BY DEF Expr, Node
<1>10. ASSUME NEW c, Covers(stack, text, c)
       PROVE  Entry(text', e, c[D - 3], Len(text'))
  <2>1. /\ \A i \in 0..D : c[i] \in 1..Len(text)
        /\ \A i \in 1..D : Entry(text, stack[i], c[i - 1], c[i])
        /\ c[D] = Len(text)
    BY <1>10, CoverFacts DEF D
  <2>2. D - 3 \in 0..D /\ D - 2 \in 0..D /\ D - 1 \in 0..D /\ D \in 0..D
        /\ (D - 2) - 1 = D - 3 /\ (D - 1) - 1 = D - 2
    BY <1>1, <1>5
  <2>3. /\ Entry(text, l, c[D - 3], c[D - 2]) /\ Entry(text, o, c[D - 2], c[D - 1])
        /\ Entry(text, r, c[D - 1], c[D])
    BY <1>4, <1>5, <2>1, <2>2
  <2>4. /\ c[D - 3] \in 1..Len(text) /\ c[D - 2] \in 1..Len(text)
        /\ c[D - 1] \in 1..Len(text) /\ c[D] \in 1..Len(text)
    BY <2>1, <2>2
  <2>5. c[D - 1] = c[D - 2] + 1
    BY <1>6, <2>3 DEF Entry
  <2>6. text \in Seq(Tokens)
    BY DEF PInv, TextRead
  <2> HIDE DEF l, o, r
  <2>7. Entry(text, Expr(Node(o.sym, NoName, <<l.tree, r.tree>>)), c[D - 3], c[D])
    BY <1>6, <1>7, <2>3, <2>4, <2>5, <2>6, Reduced
  <2> QED
    BY <1>2, <2>1, <2>7
<1> HIDE DEF e
<1>11. Fits(stack, (D - 3) + 1, e)
  <2>1. ASSUME (D - 3) + 1 > 1
        PROVE  Follows(stack[((D - 3) + 1) - 1], e)
    <3>1. ((D - 3) + 1) - 1 = D - 3 /\ D - 2 > 1 /\ D - 1 > 2
      BY <1>1, <1>5, <2>1
    <3>2. Follows(stack[D - 3], l)
      BY <1>7, <3>1
    <3>3. stack[D - 3].sym # "expr"
      BY <1>7, <3>2, Words DEF Follows
    <3>4. Follows(stack[D - 3], e)
      BY <1>7, <1>9, <3>1, <3>3, Words DEF Follows
    <3> QED
      BY <3>1, <3>4
  <2> QED
    BY <1>9, <2>1, Words DEF Fits
<1>12. next' \in BinOps => ReducesFirst(o.sym, next')
  BY <1>2, <1>6 DEF Reducible, D
<1>13. 3 \in 0..D
  BY <1>1, <1>5
<1> QED
  BY <1>2, <1>8, <1>9, <1>10, <1>11, <1>12, <1>13, StackStep DEF D

\* A call with one more argument.
LEMMA Argued ==
    ASSUME NEW t \in Seq(Tokens), NEW a \in 1..Len(t), NEW k \in 1..Len(t), NEW b \in 1..Len(t),
           NEW d, NEW r, b + 1 \in 1..Len(t),
           Entry(t, d, a, k), Entry(t, r, k, b),
           d.sym \in {"call", ","}, r.sym = "expr"
    PROVE  ArgumentOf(t, Trees(t, AsDeclared), a, b + 1, t[b],
                      Call(d.tree.name, Append(d.tree.kids, r.tree)))
<1> DEFINE g == Trees(t, AsDeclared)
<1>1. a < k /\ k < b /\ r.tree \in g[<<"expr", k, b>>]
  BY DEF Entry
<1>2. d.tree \in g[<<"open", a, k>>]
  <2>1. CASE d.sym = ","
    BY <2>1 DEF Entry
  <2>2. CASE d.sym = "call"
    <3>1. OpenOf(t, g, a, k, d.tree)
      BY <2>2 DEF Entry, OpenOf
    <3> HIDE DEF g
    <3> QED
      BY <3>1, InOpen DEF g
  <2> QED
    BY <2>1, <2>2
<1>3. k \in (a + 1)..((b + 1) - 2) /\ a < b + 1 /\ (b + 1) - 1 = b
  <2>1. Len(t) \in Nat
    BY ONLY t \in Seq(Tokens)
  <2>2. a \in 1..Len(t) /\ k \in 1..Len(t) /\ b \in 1..Len(t)
    OBVIOUS
  <2> QED
    BY ONLY <1>1, <2>1, <2>2
<1> HIDE DEF g
<1> QED
  BY <1>1, <1>2, <1>3, Zenon DEF ArgumentOf, g

\* The two top entries, when an argument is on top.
LEMMA ArgumentFacts ==
    ASSUME PInv, InArgs, ReadToken
    PROVE  LET d == stack[Depth - 1]
               r == stack[Depth]
               n == Len(text)
               x == Call(d.tree.name, Append(d.tree.kids, r.tree))
           IN  /\ Depth \in Nat /\ Depth >= 2
               /\ d.sym \in {"call", ","} /\ Fits(stack, Depth - 1, d)
               /\ n \in 1..Len(text') /\ n + 1 \in 1..Len(text') /\ Len(text') = n + 1
               /\ text' \in Seq(Tokens)
               /\ \A c : Covers(stack, text, c) =>
                    /\ c[Depth - 2] \in 1..Len(text') /\ c[Depth - 2] < n + 1
                    /\ ArgumentOf(text', Trees(text', AsDeclared), c[Depth - 2], n + 1, next, x)
<1> DEFINE D == Depth
           d == stack[D - 1]
           r == stack[D]
           n == Len(text)
           x == Call(d.tree.name, Append(d.tree.kids, r.tree))
<1>1. D \in Nat /\ \A i \in 1..D : Sym(i) = stack[i].sym /\ Fits(stack, i, stack[i])
  BY StackFacts
<1>2. Sym(D) = "expr" /\ Sym(D - 1) \in {"call", ","}
  BY DEF InArgs
<1>3. D - 1 \in 1..D /\ D \in 1..D
  BY <1>1, <1>2, StackFacts
<1>4. D >= 2 /\ r.sym = "expr" /\ d.sym \in {"call", ","} /\ Fits(stack, D - 1, d)
  <2> HIDE DEF D
  <2>1. D >= 2
    BY ONLY <1>1, <1>3
  <2>2. Sym(D) = r.sym /\ Sym(D - 1) = d.sym /\ Fits(stack, D - 1, d)
    BY <1>1, <1>3
  <2> QED
    BY <1>2, <2>1, <2>2
<1>5. /\ text \in Seq(Tokens) /\ text' \in Seq(Tokens) /\ Len(text') = n + 1
      /\ n \in Nat /\ n >= 1 /\ text'[n] = next
      /\ \A i \in 1..Len(text) : text[i] = text'[i]
  BY Read DEF PInv, TextRead
<1>6. n \in 1..Len(text') /\ n + 1 \in 1..Len(text') /\ Len(text) <= Len(text')
  BY <1>5
<1>7. ASSUME NEW c, Covers(stack, text, c)
      PROVE  /\ c[D - 2] \in 1..Len(text') /\ c[D - 2] < n + 1
             /\ ArgumentOf(text', Trees(text', AsDeclared), c[D - 2], n + 1, next, x)
  <2>1. /\ \A i \in 0..D : c[i] \in 1..n
        /\ \A i \in 1..D : Entry(text, stack[i], c[i - 1], c[i])
        /\ c[D] = n
    BY <1>7, CoverFacts
  <2> HIDE DEF D, n
  <2>2. D - 2 \in 0..D /\ D - 1 \in 0..D /\ D \in 0..D /\ (D - 1) - 1 = D - 2
    <3>1. D \in Nat /\ D >= 2
      BY <1>1, <1>4
    <3> QED
      BY ONLY <3>1
  <2>3. Entry(text, d, c[D - 2], c[D - 1]) /\ Entry(text, r, c[D - 1], n)
    BY <1>3, <2>1, <2>2
  <2>4. c[D - 2] \in 1..n /\ c[D - 1] \in 1..n
    BY <2>1, <2>2
  <2>5. n \in 1..n /\ \A i \in 1..n : i \in 1..Len(text') /\ i < n + 1
    BY <1>5
  <2> HIDE DEF d, r
  <2>6. Entry(text', d, c[D - 2], c[D - 1]) /\ Entry(text', r, c[D - 1], n)
    BY <1>5, <1>6, <2>3, <2>4, <2>5, EntryKept DEF n
  <2>7. ArgumentOf(text', Trees(text', AsDeclared), c[D - 2], n + 1, text'[n], x)
    BY <1>4, <1>5, <1>6, <2>4, <2>5, <2>6, Argued
  <2> QED
    BY <1>5, <2>4, <2>5, <2>7
<1> QED
  BY <1>1, <1>4, <1>5, <1>6, <1>7

\* A call takes the place of what was open.
LEMMA CallFits ==
    ASSUME PInv, NEW n \in {1, 2}, Depth >= n, NEW e, e.sym \notin Operators,
           e.sym = "expr" => e.tree.op \notin Operators,
           LET d == stack[(Depth - n) + 1]
           IN  d.sym \notin Operators /\ Fits(stack, (Depth - n) + 1, d)
    PROVE  Fits(stack, (Depth - n) + 1, e)
<1> DEFINE i == (Depth - n) + 1
           d == stack[i]
<1>1. d.sym \notin Operators /\ Fits(stack, i, d)
  OBVIOUS
<1> HIDE DEF i
<1>2. i > 1 => Follows(stack[i - 1], e)
  BY <1>1 DEF Fits, Follows
<1> QED
  BY <1>2 DEF Fits, i

LEMMA NextArgKeeps ==
    ASSUME PInv, NextArg
    PROVE  PInv'
<1> DEFINE d == stack[Depth - 1]
           x == Call(d.tree.name, Append(d.tree.kids, stack[Depth].tree))
           e == Open(",", d.tree.name, Append(d.tree.kids, stack[Depth].tree))
           n == Len(text)
<1>1. InArgs /\ ReadToken /\ next = "," /\ phase' = "parsing" /\ stack' = Append(Below(2), e)
  BY DEF NextArg, Parsing
<1>2. /\ Depth \in Nat /\ Depth >= 2 /\ d.sym \in {"call", ","} /\ Fits(stack, Depth - 1, d)
      /\ n + 1 \in 1..Len(text') /\ Len(text') = n + 1 /\ text' \in Seq(Tokens)
  BY <1>1, ArgumentFacts
<1>3. ASSUME NEW c, Covers(stack, text, c)
      PROVE  /\ c[Depth - 2] \in 1..Len(text') /\ c[Depth - 2] < n + 1
             /\ ArgumentOf(text', Trees(text', AsDeclared), c[Depth - 2], n + 1, next, x)
  BY <1>1, <1>3, ArgumentFacts
<1>4. e.sym = "," /\ e.tree = x
  BY DEF Open, Call
<1> HIDE DEF e, n, x
<1>5. ASSUME NEW c, Covers(stack, text, c)
      PROVE  Entry(text', e, c[Depth - 2], Len(text'))
  <2>1. OpenOf(text', Trees(text', AsDeclared), c[Depth - 2], n + 1, x)
    BY <1>1, <1>3, <1>5 DEF OpenOf
  <2>2. x \in Trees(text', AsDeclared)[<<"open", c[Depth - 2], n + 1>>]
    BY <1>2, <1>3, <1>5, <2>1, InOpen
  <2>3. c[Depth - 2] < n + 1
    BY <1>3, <1>5
  <2> QED
    BY <1>2, <1>4, <2>2, <2>3, Words DEF Entry
<1>6. Fits(stack, (Depth - 2) + 1, e)
  <2>1. (Depth - 2) + 1 = Depth - 1
    <3>1. Depth \in Nat
      BY <1>2
    <3> QED
      BY ONLY <3>1
  <2>2. d.sym \notin Operators
    BY <1>2, Words
  <2> QED
    BY <1>2, <1>4, <2>1, <2>2, Words, CallFits
<1>7. 2 \in 0..Depth
  <2>1. Depth \in Nat /\ Depth >= 2
    BY <1>2
  <2> QED
    BY ONLY <2>1
<1> QED
  BY <1>1, <1>4, <1>5, <1>6, <1>7, StackStep

LEMMA CloseCallKeeps ==
    ASSUME PInv, CloseCall
    PROVE  PInv'
<1> DEFINE d == stack[Depth - 1]
           x == Call(d.tree.name, Append(d.tree.kids, stack[Depth].tree))
           e == Expr(Node("call", d.tree.name, Append(d.tree.kids, stack[Depth].tree)))
           n == Len(text)
<1>1. InArgs /\ ReadToken /\ next = ")" /\ phase' = "parsing" /\ stack' = Append(Below(2), e)
  BY DEF CloseCall, Parsing
<1>2. /\ Depth \in Nat /\ Depth >= 2 /\ d.sym \in {"call", ","} /\ Fits(stack, Depth - 1, d)
      /\ n + 1 \in 1..Len(text') /\ Len(text') = n + 1 /\ text' \in Seq(Tokens)
  BY <1>1, ArgumentFacts
<1>3. ASSUME NEW c, Covers(stack, text, c)
      PROVE  /\ c[Depth - 2] \in 1..Len(text') /\ c[Depth - 2] < n + 1
             /\ ArgumentOf(text', Trees(text', AsDeclared), c[Depth - 2], n + 1, next, x)
  BY <1>1, <1>3, ArgumentFacts
<1>4. e.sym = "expr" /\ e.tree = x /\ e.tree.op = "call"
  BY DEF Expr, Call, Node
<1> HIDE DEF e, n, x
<1>5. ASSUME NEW c, Covers(stack, text, c)
      PROVE  Entry(text', e, c[Depth - 2], Len(text'))
  <2>1. ExprOf(text', AsDeclared, Trees(text', AsDeclared), c[Depth - 2], n + 1, x)
    BY <1>1, <1>3, <1>5 DEF ExprOf
  <2>2. x \in Trees(text', AsDeclared)[<<"expr", c[Depth - 2], n + 1>>]
    BY <1>2, <1>3, <1>5, <2>1, InExpr
  <2>3. c[Depth - 2] < n + 1
    BY <1>3, <1>5
  <2> QED
    BY <1>2, <1>4, <2>2, <2>3, Words DEF Entry
<1>6. Fits(stack, (Depth - 2) + 1, e)
  <2>1. (Depth - 2) + 1 = Depth - 1
    <3>1. Depth \in Nat
      BY <1>2
    <3> QED
      BY ONLY <3>1
  <2>2. d.sym \notin Operators
    BY <1>2, Words
  <2> QED
    BY <1>2, <1>4, <2>1, <2>2, Words, CallFits
<1>7. 2 \in 0..Depth
  <2>1. Depth \in Nat /\ Depth >= 2
    BY <1>2
  <2> QED
    BY ONLY <2>1
<1> QED
  BY <1>1, <1>4, <1>5, <1>6, <1>7, Words, StackStep

LEMMA CloseEmptyCallKeeps ==
    ASSUME PInv, CloseEmptyCall
    PROVE  PInv'
<1> DEFINE d == stack[Depth]
           e == Expr(d.tree)
           n == Len(text)
<1>1. /\ Sym(Depth) = "call" /\ ReadToken /\ next = ")" /\ phase' = "parsing"
      /\ stack' = Append(Below(1), e)
  BY DEF CloseEmptyCall, Parsing
<1>2. Depth \in 1..Depth /\ Depth \in Nat /\ d.sym = "call" /\ Fits(stack, Depth, d)
  BY <1>1, StackFacts
<1>3. /\ text \in Seq(Tokens) /\ text' \in Seq(Tokens) /\ Len(text') = n + 1
      /\ n \in Nat /\ n >= 1 /\ text'[n] = next
      /\ \A i \in 1..Len(text) : text[i] = text'[i]
  BY <1>1, Read DEF PInv, TextRead
<1>4. e.sym = "expr" /\ e.tree = d.tree
  BY DEF Expr
<1> HIDE DEF e
<1>5. ASSUME NEW c, Covers(stack, text, c)
      PROVE  e.tree.op = "call" /\ Entry(text', e, c[Depth - 1], Len(text'))
  <2> DEFINE a == c[Depth - 1]
  <2>1. Entry(text, d, a, c[Depth]) /\ a \in 1..n /\ c[Depth] = n
    <3>1. Depth - 1 \in 0..Depth
      BY <1>2
    <3> QED
      BY <1>2, <1>5, <3>1, CoverFacts
  <2>2. n = a + 1 /\ text[a] \in Funcs /\ d.tree = Call(text[a], <<>>)
    BY <1>2, <2>1 DEF Entry
  <2> HIDE DEF a, d, n
  <2>3. /\ text'[a] = text[a] /\ text'[a + 1] = ")" /\ n + 1 = a + 2 /\ a < n + 1
        /\ a \in 1..Len(text') /\ n + 1 \in 1..Len(text')
    BY <1>1, <1>3, <2>1, <2>2 DEF n
  <2>4. ExprOf(text', AsDeclared, Trees(text', AsDeclared), a, n + 1, e.tree)
    BY <1>4, <2>2, <2>3, Zenon DEF ExprOf
  <2>5. e.tree \in Trees(text', AsDeclared)[<<"expr", a, n + 1>>]
    BY <1>3, <2>3, <2>4, InExpr
  <2>6. e.tree.op = "call"
    BY <1>4, <2>2 DEF Call, Node
  <2> QED
    BY <1>3, <1>4, <2>3, <2>5, <2>6, Words DEF Entry, a
<1>6. Fits(stack, (Depth - 1) + 1, e) /\ e.tree.op \notin Operators
  <2>1. e.tree.op \notin Operators
    BY <1>5, Words DEF PInv
  <2>2. (Depth - 1) + 1 = Depth /\ Depth >= 1
    BY ONLY <1>2
  <2>3. d.sym \notin Operators
    BY <1>2, Words
  <2> QED
    BY <1>2, <1>4, <2>1, <2>2, <2>3, Words, CallFits
<1>7. 1 \in 0..Depth
  BY <1>2
<1> QED
  BY <1>1, <1>4, <1>5, <1>6, <1>7, StackStep

LEMMA ParserInvInit ==
    ASSUME ParserInit
    PROVE  PInv
<1>1. stack = <<>> /\ Len(stack) = 0 /\ text = <<next>> /\ next \in Tokens /\ phase = "parsing"
  BY DEF ParserInit
<1>2. text \in Seq(Tokens) /\ Len(text) = 1 /\ text[1] = next
  BY <1>1
<1>3. stack \in Seq({})
  BY <1>1
<1> DEFINE c == [i \in 0..0 |-> 1]
<1>4. Covers(stack, text, c)
  BY <1>1, <1>2 DEF Covers
<1>5. OnTop
  BY <1>1 DEF OnTop, Sym, Depth
<1> HIDE DEF c
<1> QED
  BY <1>1, <1>2, <1>3, <1>4, <1>5 DEF PInv, TextRead, IsStack, Ordered

LEMMA ParserInvNext ==
    ASSUME PInv, [Parse \/ Used]_parser
    PROVE  PInv'
<1>1. ASSUME UNCHANGED <<stack, next, text>>,
             phase' = "parsed" => Depth = 1 /\ Sym(1) = "expr" /\ next = "end"
      PROVE  PInv'
  BY <1>1 DEF PInv, TextRead, OnTop, Sym, Depth
<1>2. CASE Accept
  BY <1>1, <1>2 DEF Accept
<1>3. CASE SyntaxError
  BY <1>1, <1>3 DEF SyntaxError
<1>4. CASE Used
  BY <1>1, <1>4 DEF Used
<1>5. CASE UNCHANGED parser
  BY <1>1, <1>5 DEF parser, PInv
<1> QED
  BY <1>2, <1>3, <1>4, <1>5, ShiftAtomKeeps, ShiftCallKeeps, ShiftOperatorKeeps, ReduceKeeps,
     NextArgKeeps, CloseCallKeeps, CloseEmptyCallKeeps DEF Parse

\* The entries of the parser's stack stand for adjacent parts of the text, in an order
\* in which every operator that is to be reduced first has been reduced.
THEOREM ParserInductive == ParserSpec => []PInv
<1>1. ParserInit => PInv
  BY ParserInvInit
<1>2. PInv /\ [Parse \/ Used]_parser => PInv'
  BY ParserInvNext
<1> QED
  BY <1>1, <1>2, PTL DEF ParserSpec

\* What has been accepted has the tree that the precedence declarations of parser.y
\* give it, whatever the text.
THEOREM AcceptsAsDeclared == ParserSpec => []TreeAsDeclared
<1>1. ASSUME PInv
      PROVE  TreeAsDeclared
  <2> SUFFICES ASSUME phase = "parsed" PROVE ReadWith(AsDeclared)
    BY DEF TreeAsDeclared
  <2>1. PICK c : Covers(stack, text, c)
    BY <1>1 DEF PInv
  <2>2. Depth = 1 /\ Sym(1) = "expr" /\ next = "end" /\ text[Len(text)] = next
    BY <1>1 DEF PInv, TextRead
  <2>3. Sym(1) = stack[1].sym /\ Entry(text, stack[1], 1, Len(text))
    BY <1>1, <2>1, <2>2, StackFacts, CoverFacts
  <2> QED
    BY <2>2, <2>3 DEF Entry, ReadWith, Tree
<1> QED
  BY <1>1, ParserInductive, PTL

----------------------------------------------------------------------------
\* How deep in calls the tokens of a part are.

\* The tokens of X among the first n.
Count(t, X, n) == Cardinality({k \in 1..n : t[k] \in X})

\* How deep in calls the text is before its i-th token.
Deep(t, i) == Count(t, Funcs, i - 1) - Count(t, {")"}, i - 1)

LEMMA Positions ==
    ASSUME NEW t \in Seq(Tokens), NEW i \in 1..Len(t)
    PROVE  i \in Nat /\ 1 <= i /\ i <= Len(t) /\ Len(t) \in Nat
OBVIOUS

LEMMA CountFacts ==
    ASSUME NEW t, NEW X, NEW n \in Nat
    PROVE  /\ Count(t, X, n) \in Nat
           /\ Count(t, X, n + 1) = Count(t, X, n) + (IF t[n + 1] \in X THEN 1 ELSE 0)
<1> DEFINE A == {k \in 1..n : t[k] \in X}
           B == {k \in 1..(n + 1) : t[k] \in X}
<1>1. IsFiniteSet(A) /\ Cardinality(A) \in Nat
  <2>1. IsFiniteSet(1..n)
    BY FS_Interval
  <2>2. A \subseteq 1..n
    OBVIOUS
  <2> QED
    BY <2>1, <2>2, FS_Subset, FS_CardinalityType
<1>2. n + 1 \notin A /\ 1..(n + 1) = (1..n) \cup {n + 1}
  OBVIOUS
<1>3. B = IF t[n + 1] \in X THEN A \cup {n + 1} ELSE A
  BY <1>2
<1>4. Cardinality(B) = Cardinality(A) + (IF t[n + 1] \in X THEN 1 ELSE 0)
  <2> DEFINE z == n + 1
  <2>1. Cardinality(A \cup {z}) = Cardinality(A) + 1
    <3> HIDE DEF A, z
    <3>1. z \notin A
      BY <1>2 DEF z
    <3> QED
      BY <1>1, <3>1, FS_AddElement
  <2>2. Cardinality(A) = Cardinality(A) + 0
    BY <1>1
  <2> HIDE DEF A, B
  <2> QED
    BY <1>3, <2>1, <2>2
<1> QED
  BY <1>1, <1>4 DEF Count

LEMMA DeepFacts ==
    ASSUME NEW t \in Seq(Tokens), NEW i \in 1..Len(t)
    PROVE  /\ Deep(t, i) \in Int
           /\ Level(t, i) = Deep(t, i) - (IF t[i] = ")" THEN 1 ELSE 0)
           /\ Deep(t, i + 1) = (Deep(t, i) + (IF t[i] \in Funcs THEN 1 ELSE 0))
                                  - (IF t[i] = ")" THEN 1 ELSE 0)
<1>1. i - 1 \in Nat /\ (i - 1) + 1 = i /\ (i + 1) - 1 = i
  OBVIOUS
<1>2. ASSUME NEW X
      PROVE  /\ Count(t, X, i - 1) \in Nat
             /\ Count(t, X, i) = Count(t, X, i - 1) + (IF t[i] \in X THEN 1 ELSE 0)
  <2> DEFINE m == i - 1
  <2>1. m \in Nat /\ m + 1 = i
    BY <1>1
  <2> HIDE DEF m
  <2>2. /\ Count(t, X, m) \in Nat
        /\ Count(t, X, m + 1) = Count(t, X, m) + (IF t[m + 1] \in X THEN 1 ELSE 0)
    BY <2>1, CountFacts
  <2>3. t[m + 1] = t[i]
    BY <2>1
  <2>4. Count(t, X, m + 1) = Count(t, X, i)
    BY <2>1
  <2> QED
    BY <2>2, <2>3, <2>4 DEF m
<1>3. Level(t, i) = Count(t, Funcs, i - 1) - Count(t, {")"}, i)
  <2>1. {k \in 1..i : t[k] = ")"} = {k \in 1..i : t[k] \in {")"}}
    OBVIOUS
  <2> QED
    BY <2>1 DEF Level, Count
<1>4. /\ Deep(t, i) = Count(t, Funcs, i - 1) - Count(t, {")"}, i - 1)
      /\ Deep(t, i + 1) = Count(t, Funcs, i) - Count(t, {")"}, i)
  BY <1>1 DEF Deep
<1>5. /\ Count(t, Funcs, i - 1) \in Nat
      /\ Count(t, Funcs, i) = Count(t, Funcs, i - 1) + (IF t[i] \in Funcs THEN 1 ELSE 0)
  BY <1>2
<1>6. /\ Count(t, {")"}, i - 1) \in Nat
      /\ Count(t, {")"}, i) = Count(t, {")"}, i - 1) + (IF t[i] = ")" THEN 1 ELSE 0)
  <2>1. t[i] \in {")"} <=> t[i] = ")"
    OBVIOUS
  <2> QED
    BY <1>2, <2>1
<1> QED
  BY ONLY <1>3, <1>4, <1>5, <1>6

\* What the kinds of tokens do to the depth.
LEMMA TokenFacts ==
    ASSUME NEW t \in Seq(Tokens), NEW i \in 1..Len(t)
    PROVE  /\ t[i] \in Vars \cup Lits \cup BinOps =>
                 Level(t, i) = Deep(t, i) /\ Deep(t, i + 1) = Deep(t, i) /\ t[i] # ","
           /\ t[i] \in Funcs =>
                 Level(t, i) = Deep(t, i) /\ Deep(t, i + 1) = Deep(t, i) + 1 /\ t[i] # ","
           /\ t[i] = ")" =>
                 Level(t, i) = Deep(t, i) - 1 /\ Deep(t, i + 1) = Deep(t, i) - 1 /\ t[i] # ","
           /\ t[i] = "," =>
                 Level(t, i) = Deep(t, i) /\ Deep(t, i + 1) = Deep(t, i)
<1>1. /\ (Vars \cup Lits \cup BinOps) \cap (Funcs \cup {")", ","}) = {}
      /\ Funcs \cap {")", ","} = {}
  BY TokenAssumption DEF Operators, Arithmetic, Relational, Punctuation
<1>2. /\ Deep(t, i) \in Int
      /\ Level(t, i) = Deep(t, i) - (IF t[i] = ")" THEN 1 ELSE 0)
      /\ Deep(t, i + 1) = (Deep(t, i) + (IF t[i] \in Funcs THEN 1 ELSE 0))
                             - (IF t[i] = ")" THEN 1 ELSE 0)
  BY DeepFacts
<1> DEFINE token == t[i]
<1>3. /\ token \in Vars \cup Lits \cup BinOps => token \notin Funcs /\ token \notin {")", ","}
      /\ token \in Funcs => token \notin {")", ","}
      /\ token \in {")", ","} => token \notin Funcs
  BY <1>1
<1> DEFINE d == Deep(t, i)
           e == Deep(t, i + 1)
           l == Level(t, i)
           f == IF token \in Funcs THEN 1 ELSE 0
           c == IF token = ")" THEN 1 ELSE 0
<1>4. d \in Int /\ l = d - c /\ e = (d + f) - c
  BY <1>2
<1>5. /\ f \in {0, 1} /\ (token \in Funcs <=> f = 1)
      /\ c \in {0, 1} /\ (token = ")" <=> c = 1)
  OBVIOUS
<1> HIDE DEF token, d, e, l, f, c
<1>6. /\ f = 0 /\ c = 0 => l = d /\ e = d
      /\ f = 1 /\ c = 0 => l = d /\ e = d + 1
      /\ f = 0 /\ c = 1 => l = d - 1 /\ e = d - 1
  BY ONLY <1>4
<1>7. /\ token \in Vars \cup Lits \cup BinOps => l = d /\ e = d /\ token # ","
      /\ token \in Funcs => l = d /\ e = d + 1 /\ token # ","
      /\ token = ")" => l = d - 1 /\ e = d - 1 /\ token # ","
      /\ token = "," => l = d /\ e = d
  BY ONLY <1>3, <1>5, <1>6
<1> QED
  BY <1>7 DEF token, d, e, l

LEMMA LevelType ==
    ASSUME NEW t \in Seq(Tokens), NEW i \in 1..Len(t)
    PROVE  Level(t, i) \in Int /\ Deep(t, i) \in Int
<1>1. Deep(t, i) \in Int /\ Level(t, i) = Deep(t, i) - (IF t[i] = ")" THEN 1 ELSE 0)
  BY DeepFacts
<1> QED
  BY ONLY <1>1

\* Within a part the text is as deep as before it; no comma belongs to what is around.
Nested(t, kind, from, to) ==
    /\ from < to
    /\ Deep(t, to) = Deep(t, from) + (IF kind = "open" THEN 1 ELSE 0)
    /\ \A k \in from..(to - 1) :
          Level(t, k) >= Deep(t, from) /\ (t[k] = "," => Level(t, k) > Deep(t, from))

LEMMA NestedArgument ==
    ASSUME NEW t \in Seq(Tokens), NEW from \in 1..Len(t), NEW k \in 1..Len(t), NEW to \in 1..Len(t),
           Nested(t, "open", from, k), Nested(t, "expr", k, to - 1), t[to - 1] \in {",", ")"}
    PROVE  Nested(t, IF t[to - 1] = "," THEN "open" ELSE "expr", from, to)
<1> DEFINE b == to - 1
           kind == IF t[b] = "," THEN "open" ELSE "expr"
<1>1. from < k /\ k < b /\ b \in 1..Len(t) /\ b + 1 = to
  <2>1. from < k /\ k < to - 1
    BY Zenon DEF Nested
  <2>2. from \in Nat /\ 1 <= from /\ k \in Nat /\ to \in Nat /\ to <= Len(t) /\ Len(t) \in Nat
    BY Positions
  <2> QED
    BY ONLY <2>1, <2>2
<1>2. Deep(t, k) = Deep(t, from) + 1 /\ Deep(t, b) = Deep(t, k) /\ Deep(t, from) \in Int
      /\ Deep(t, k) \in Int
  <2>1. Deep(t, from) \in Int /\ Deep(t, k) \in Int
    BY DeepFacts, Zenon
  <2>2. Deep(t, k) = Deep(t, from) + 1 /\ Deep(t, b) = Deep(t, k) + 0
    BY DEF Nested
  <2> QED
    BY ONLY <2>1, <2>2
<1>3. Deep(t, to) = Deep(t, from) + (IF kind = "open" THEN 1 ELSE 0)
      /\ Level(t, b) >= Deep(t, from) /\ (t[b] = "," => Level(t, b) > Deep(t, from))
  <2>1. /\ t[b] = ")" =>
              Level(t, b) = Deep(t, b) - 1 /\ Deep(t, b + 1) = Deep(t, b) - 1 /\ t[b] # ","
        /\ t[b] = "," => Level(t, b) = Deep(t, b) /\ Deep(t, b + 1) = Deep(t, b)
    BY <1>1, TokenFacts
  <2>2. t[b] = "," \/ t[b] = ")"
    OBVIOUS
  <2>3. kind = "open" <=> t[b] = ","
    OBVIOUS
  <2> DEFINE df == Deep(t, from)
             db == Deep(t, b)
             dt == Deep(t, to)
             lb == Level(t, b)
  <2>4. /\ df \in Int /\ db = df + 1
        /\ t[b] = ")" => lb = db - 1 /\ dt = db - 1 /\ t[b] # ","
        /\ t[b] = "," => lb = db /\ dt = db
    BY <1>1, <1>2, <2>1
  <2> HIDE DEF df, db, dt, lb
  <2>5. /\ t[b] = ")" => lb = df /\ dt = df + 0 /\ t[b] # "," /\ lb >= df
        /\ t[b] = "," => lb > df /\ dt = df + 1 /\ lb >= df
    <3>1. CASE t[b] = ")"
      <4>1. df \in Int /\ lb = (df + 1) - 1 /\ dt = (df + 1) - 1
        BY <2>4, <3>1
      <4>2. lb = df /\ dt = df + 0 /\ lb >= df
        BY ONLY <4>1
      <4> QED
        BY <2>4, <3>1, <4>2
    <3>2. CASE t[b] = ","
      <4>1. df \in Int /\ lb = df + 1 /\ dt = df + 1
        BY <2>4, <3>2
      <4>2. lb > df /\ dt = df + 1 /\ lb >= df
        BY ONLY <4>1
      <4> QED
        BY <3>2, <4>2
    <3> QED
      BY <2>2, <3>1, <3>2
  <2>6. dt = df + (IF kind = "open" THEN 1 ELSE 0)
    BY <2>2, <2>3, <2>5
  <2> QED
    BY <2>2, <2>5, <2>6 DEF df, db, dt, lb
<1>4. ASSUME NEW j \in from..(to - 1)
      PROVE  Level(t, j) >= Deep(t, from) /\ (t[j] = "," => Level(t, j) > Deep(t, from))
  <2>1. j \in from..(k - 1) \/ j \in k..(b - 1) \/ j = b
    <3>1. from \in Nat /\ k \in Nat /\ to \in Nat
      BY Positions
    <3> QED
      BY ONLY <1>1, <3>1, j \in from..(to - 1)
  <2>2. CASE j \in from..(k - 1)
    BY <2>2 DEF Nested
  <2>3. CASE j \in k..(b - 1)
    <3>1. Level(t, j) >= Deep(t, k)
      BY <2>3 DEF Nested
    <3>2. Level(t, j) \in Int
      <4>1. from \in Nat /\ 1 <= from /\ k \in Nat /\ Len(t) \in Nat
        BY Positions
      <4>2. j \in 1..Len(t)
        BY ONLY <1>1, <2>3, <4>1
      <4> QED
        BY <4>2, LevelType
    <3> DEFINE df == Deep(t, from)
               dk == Deep(t, k)
               lj == Level(t, j)
    <3>3. df \in Int /\ dk = df + 1 /\ lj \in Int /\ lj >= dk
      BY <1>2, <3>1, <3>2
    <3> HIDE DEF df, dk, lj
    <3>4. lj >= df /\ lj > df
      BY ONLY <3>3
    <3> QED
      BY <3>4 DEF df, lj
  <2>4. CASE j = b
    BY <1>3, <2>4
  <2> QED
    BY <2>1, <2>2, <2>3, <2>4
<1>5. from < to
  <2>1. from \in Nat /\ k \in Nat
    BY Positions
  <2> QED
    BY ONLY <1>1, <2>1
<1> HIDE DEF kind
<1>6. Nested(t, kind, from, to)
  BY <1>3, <1>4, <1>5 DEF Nested
<1> QED
  BY <1>6 DEF kind

LEMMA NestedOperator ==
    ASSUME NEW t \in Seq(Tokens), NEW from \in 1..Len(t), NEW k \in 1..Len(t), NEW to \in 1..Len(t),
           Nested(t, "expr", from, k), Nested(t, "expr", k + 1, to), t[k] \in BinOps
    PROVE  Nested(t, "expr", from, to)
<1>1. from < k /\ k + 1 < to
  BY DEF Nested
<1>2. Deep(t, k) = Deep(t, from) /\ Deep(t, to) = Deep(t, k + 1) /\ Deep(t, from) \in Int
  <2>1. Deep(t, from) \in Int /\ Deep(t, k) \in Int /\ Deep(t, to) \in Int
    BY LevelType
  <2>2. Deep(t, k) = Deep(t, from) + 0 /\ Deep(t, to) = Deep(t, k + 1) + 0
    BY DEF Nested
  <2>3. Deep(t, k + 1) = Deep(t, k)
    BY TokenFacts
  <2> QED
    BY ONLY <2>1, <2>2, <2>3
<1>3. Level(t, k) = Deep(t, k) /\ Deep(t, k + 1) = Deep(t, k) /\ t[k] # ","
  BY TokenFacts
<1>4. ASSUME NEW j \in from..(to - 1)
      PROVE  Level(t, j) >= Deep(t, from) /\ (t[j] = "," => Level(t, j) > Deep(t, from))
  <2>1. j \in from..(k - 1) \/ j = k \/ j \in (k + 1)..(to - 1)
    <3>1. from \in Nat /\ k \in Nat /\ to \in Nat
      BY Positions
    <3> QED
      BY ONLY <1>1, <3>1, j \in from..(to - 1)
  <2>2. CASE j \in from..(k - 1)
    BY <2>2 DEF Nested
  <2>3. CASE j = k
    <3> DEFINE df == Deep(t, from)
               lj == Level(t, j)
    <3>1. df \in Int /\ lj = df
      BY <1>2, <1>3, <2>3
    <3> HIDE DEF df, lj
    <3>2. lj >= df
      BY ONLY <3>1
    <3> QED
      BY <1>3, <2>3, <3>2 DEF df, lj
  <2>4. CASE j \in (k + 1)..(to - 1)
    <3>1. Deep(t, k + 1) = Deep(t, from)
      BY <1>2, <1>3
    <3>2. Level(t, j) >= Deep(t, k + 1) /\ (t[j] = "," => Level(t, j) > Deep(t, k + 1))
      BY <2>4 DEF Nested
    <3> QED
      BY ONLY <3>1, <3>2, Zenon
  <2> QED
    BY <2>1, <2>2, <2>3, <2>4
<1>5. from < to
  BY <1>1
<1>6. Deep(t, to) = Deep(t, from) + 0
  <2>1. Deep(t, to) = Deep(t, from)
    BY <1>2, <1>3
  <2> QED
    BY <1>2, <2>1
<1> QED
  BY <1>4, <1>5, <1>6 DEF Nested

LEMMA Between ==
    ASSUME NEW n \in Nat, NEW from \in 1..n, NEW to \in 1..n, NEW k \in (from + 1)..(to - 2)
    PROVE  /\ k \in 1..n /\ k + 1 \in 1..n /\ to - 1 \in 1..n
           /\ k - from < to - from /\ (to - 1) - k < to - from /\ to - (k + 1) < to - from
OBVIOUS

\* Every part that has a tree is nested.
LEMMA TreesNested ==
    ASSUME NEW t \in Seq(Tokens), NEW s
    PROVE  \A part \in Parts(t) : Trees(t, s)[part] # {} => Nested(t, part[1], part[2], part[3])
<1> DEFINE P == Parts(t)
           g == Trees(t, s)
           m == [part \in P |-> Size(t, part)]
           G == {part \in P : g[part] # {} => Nested(t, part[1], part[2], part[3])}
<1>1. m \in [P -> Nat]
  BY SizeFacts
<1>2. ASSUME NEW part \in P, \A p \in P : m[p] < m[part] => p \in G
      PROVE  part \in G
  <2> DEFINE n    == Len(t)
             kind == part[1]
             from == part[2]
             to   == part[3]
  <2>1. n \in Nat /\ kind \in {"expr", "open"} /\ from \in 1..n /\ to \in 1..n /\ part = <<kind, from, to>>
    BY DEF Parts
  <2>2. ASSUME NEW a \in 1..n, NEW b \in 1..n, NEW kd \in {"expr", "open"}, b - a < to - from,
               NEW y \in g[<<kd, a, b>>]
        PROVE  Nested(t, kd, a, b)
    <3>1. <<kd, a, b>> \in P
      BY DEF Parts
    <3>2. Size(t, <<kd, a, b>>) = (n + b) - a /\ Size(t, part) = (n + to) - from
      BY DEF Size
    <3> HIDE DEF n, from, to, g
    <3>3. (n + b) - a < (n + to) - from
      BY ONLY <2>1, <2>2
    <3>4. <<kd, a, b>> \in G
      BY <1>2, <3>1, <3>2, <3>3
    <3> QED
      BY <2>2, <3>4
  <2> SUFFICES ASSUME NEW x \in g[part] PROVE Nested(t, kind, from, to)
    OBVIOUS
  <2> HIDE DEF kind, from, to, g
  <2>3. ASSUME NEW behind \in {",", ")"}, ArgumentOf(t, g, from, to, behind, x)
        PROVE  Nested(t, IF behind = "," THEN "open" ELSE "expr", from, to)
    <3>1. PICK k \in (from + 1)..(to - 2) :
             g[<<"open", from, k>>] # {} /\ g[<<"expr", k, to - 1>>] # {}
      BY <2>3, Zenon DEF ArgumentOf
    <3>2. t[to - 1] = behind
      BY <2>3 DEF ArgumentOf
    <3> HIDE DEF n
    <3>3. k \in 1..n /\ to - 1 \in 1..n /\ k - from < to - from /\ (to - 1) - k < to - from
      BY <2>1, Between
    <3>4. Nested(t, "open", from, k) /\ Nested(t, "expr", k, to - 1)
      BY <2>1, <2>2, <3>1, <3>3
    <3> QED
      BY <2>1, <3>2, <3>3, <3>4, NestedArgument DEF n
  <2>4. ASSUME OperatorOf(t, s, g, from, to, x)
        PROVE  Nested(t, "expr", from, to)
    <3>1. PICK k \in (from + 1)..(to - 2) :
             t[k] \in BinOps /\ g[<<"expr", from, k>>] # {} /\ g[<<"expr", k + 1, to>>] # {}
      BY <2>4, Zenon DEF OperatorOf
    <3> HIDE DEF n
    <3>2. k \in 1..n /\ k + 1 \in 1..n /\ k - from < to - from /\ to - (k + 1) < to - from
      BY <2>1, Between
    <3>3. Nested(t, "expr", from, k) /\ Nested(t, "expr", k + 1, to)
      BY <2>1, <2>2, <3>1, <3>2
    <3> QED
      BY <2>1, <3>1, <3>2, <3>3, NestedOperator DEF n
  <2>5. ASSUME to = from + 1, t[from] \in Funcs \cup Vars \cup Lits
        PROVE  Nested(t, IF t[from] \in Funcs THEN "open" ELSE "expr", from, to)
    <3> DEFINE kd == IF t[from] \in Funcs THEN "open" ELSE "expr"
    <3>1. /\ Level(t, from) = Deep(t, from) /\ t[from] # "," /\ Deep(t, from) \in Int
          /\ Deep(t, to) = Deep(t, from) + (IF kd = "open" THEN 1 ELSE 0)
      <4>1. Deep(t, from) \in Int
        BY <2>1, LevelType
      <4>2. CASE t[from] \in Funcs
        <5>1. kd = "open"
          BY <4>2
        <5>2. Level(t, from) = Deep(t, from) /\ Deep(t, from + 1) = Deep(t, from) + 1 /\ t[from] # ","
          BY <2>1, <4>2, TokenFacts
        <5> QED
          BY <2>5, <4>1, <5>1, <5>2
      <4>3. CASE t[from] \notin Funcs
        <5>1. kd # "open"
          BY <4>3
        <5>2. Level(t, from) = Deep(t, from) /\ Deep(t, from + 1) = Deep(t, from) /\ t[from] # ","
          BY <2>1, <2>5, <4>3, TokenFacts
        <5>3. Deep(t, from) = Deep(t, from) + 0
          BY ONLY <4>1
        <5> QED
          BY <2>5, <4>1, <5>1, <5>2, <5>3
      <4> QED
        BY <4>2, <4>3
    <3>2. from < to /\ \A k \in from..(to - 1) : k = from
      BY <2>1, <2>5
    <3>3. Deep(t, from) >= Deep(t, from)
      <4>1. Deep(t, from) \in Int
        BY <3>1
      <4> QED
        BY ONLY <4>1
    <3> HIDE DEF kd
    <3>4. Nested(t, kd, from, to)
      BY <3>1, <3>2, <3>3 DEF Nested
    <3> QED
      BY <3>4 DEF kd
  <2>6. ASSUME to = from + 2, t[from] \in Funcs, t[from + 1] = ")"
        PROVE  Nested(t, "expr", from, to)
    <3> DEFINE df == Deep(t, from)
               dk == Deep(t, from + 1)
               lk == Level(t, from + 1)
    <3>1. from + 1 \in 1..n /\ from < to /\ \A k \in from..(to - 1) : k = from \/ k = from + 1
      BY <2>1, <2>6
    <3>2. df \in Int /\ dk = df + 1 /\ Level(t, from) = df /\ t[from] # ","
      BY <2>1, <2>6, LevelType, TokenFacts
    <3>3. lk = dk - 1 /\ Deep(t, (from + 1) + 1) = dk - 1 /\ t[from + 1] # ","
      BY <2>6, <3>1, TokenFacts
    <3>4. (from + 1) + 1 = to
      BY <2>1, <2>6
    <3> DEFINE dt == Deep(t, to)
    <3>5. df \in Int /\ dk = df + 1 /\ lk = dk - 1 /\ dt = dk - 1
      BY <3>2, <3>3, <3>4
    <3> HIDE DEF df, dk, lk, dt
    <3>6. lk = df /\ dt = df + 0 /\ df >= df
      BY ONLY <3>5
    <3> QED
      BY <3>1, <3>2, <3>3, <3>6 DEF Nested, df, lk, dt
  <2>7. CASE kind = "open"
    <3>1. OpenOf(t, g, from, to, x)
      BY <2>1, <2>7, InOpen DEF g
    <3> QED
      BY <2>3, <2>5, <2>7, <3>1 DEF OpenOf
  <2>8. CASE kind = "expr"
    <3>1. ExprOf(t, s, g, from, to, x)
      BY <2>1, <2>8, InExpr DEF g
    <3>2. (Vars \cup Lits) \cap Funcs = {}
      BY TokenAssumption
    <3> QED
      BY <2>3, <2>4, <2>5, <2>6, <2>8, <3>1, <3>2 DEF ExprOf
  <2> QED
    BY <2>1, <2>7, <2>8
<1>3. \A part \in P : part \in G
  <2> HIDE DEF P, m, G
  <2> QED
    BY <1>1, <1>2, MeasureInduction
<1> QED
  BY <1>3

LEMMA NestedExpr ==
    ASSUME NEW t \in Seq(Tokens), NEW s, NEW from \in 1..Len(t), NEW to \in 1..Len(t),
           NEW x \in Trees(t, s)[<<"expr", from, to>>]
    PROVE  Nested(t, "expr", from, to)
<1>1. <<"expr", from, to>> \in Parts(t)
  BY DEF Parts
<1> QED
  BY <1>1, TreesNested

----------------------------------------------------------------------------
\* What is read as declared is read as in C, in texts without operators before those
\* that have no declaration.

LEMMA OpOf ==
    /\ \A a : Leaf(a).op \in {"var", "const"} /\ Leaf(a).op \notin Operators
    /\ \A f, as : Call(f, as).op = "call" /\ Call(f, as).op \notin Operators
    /\ \A op, n, ks : Node(op, n, ks).op = op
<1>1. \A op, n, ks : Node(op, n, ks).op = op
  BY DEF Node
<1>2. \A a : Leaf(a).op \in {"var", "const"}
  BY DEF Leaf, Node
<1>3. \A f, as : Call(f, as).op = "call"
  BY <1>1, Zenon DEF Call
<1>4. "var" \notin Operators /\ "const" \notin Operators /\ "call" \notin Operators
  BY Words
<1>5. \A a : Leaf(a).op \notin Operators
  BY <1>2, <1>4
<1>6. \A f, as : Call(f, as).op \notin Operators
  BY <1>3, <1>4
<1> QED
  BY <1>1, <1>2, <1>3, <1>5, <1>6

\* The root of a tree is a token of its part.
RootAt(t, s, from, to, x) ==
    \E j \in (from + 1)..(to - 2) : t[j] = x.op /\ Trees(t, s)[<<"expr", from, j>>] # {}

LEMMA RootOf ==
    ASSUME NEW t \in Seq(Tokens), NEW s, NEW from \in 1..Len(t), NEW to \in 1..Len(t),
           NEW x \in Trees(t, s)[<<"expr", from, to>>], x.op \in Operators
    PROVE  RootAt(t, s, from, to, x)
<1> DEFINE g == Trees(t, s)
<1>1. ExprOf(t, s, g, from, to, x)
  BY InExpr
<1> HIDE DEF g
<1>2. x # Leaf(t[from])
  BY OpOf, Zenon
<1>3. \A f, as : x # Call(f, as)
  BY OpOf, Zenon
<1>4. OperatorOf(t, s, g, from, to, x)
  BY <1>1, <1>2, <1>3, Zenon DEF ExprOf, ArgumentOf
<1>5. PICK j \in (from + 1)..(to - 2) : \E l, r :
         g[<<"expr", from, j>>] # {} /\ x = Node(t[j], NoName, <<l, r>>)
  BY <1>4, Zenon DEF OperatorOf
<1>6. x.op = t[j]
  BY <1>5 DEF Node
<1> QED
  BY <1>5, <1>6 DEF g, RootAt

\* An operator and the root of what is to its right are in one argument.
LEMMA RootInArgument ==
    ASSUME NEW t \in Seq(Tokens), NEW s, NEW i \in 1..Len(t), NEW to \in 1..Len(t),
           i + 1 \in 1..Len(t), t[i] \in BinOps,
           NEW r \in Trees(t, s)[<<"expr", i + 1, to>>], r.op \in Operators
    PROVE  \E j \in 1..Len(t) : i \in 1..(j - 1) /\ t[j] = r.op /\ SameArgument(t, i, j)
<1> DEFINE f == i + 1
<1>1. PICK j \in (f + 1)..(to - 2) : t[j] = r.op /\ Trees(t, s)[<<"expr", f, j>>] # {}
  <2>1. f \in 1..Len(t) /\ r \in Trees(t, s)[<<"expr", f, to>>]
    OBVIOUS
  <2> HIDE DEF f
  <2>2. RootAt(t, s, f, to, r)
    BY <2>1, RootOf
  <2> QED
    BY <2>2 DEF RootAt
<1>2. j \in 1..Len(t) /\ i \in 1..(j - 1)
  <2>1. Len(t) \in Nat /\ i \in Nat /\ 1 <= i /\ to \in Nat /\ to <= Len(t)
    BY Positions
  <2> QED
    BY ONLY <2>1, j \in (f + 1)..(to - 2)
<1>3. Nested(t, "expr", f, j) /\ Nested(t, "expr", f, to)
  BY <1>1, <1>2, NestedExpr
<1>4. Level(t, i) = Deep(t, i) /\ Deep(t, f) = Deep(t, i) /\ t[i] # ","
  BY TokenFacts
<1>5. Level(t, j) = Deep(t, j) /\ t[j] # ","
  <2>1. r.op \in BinOps
    <3>1. ExprOf(t, s, Trees(t, s), f, to, r)
      BY InExpr
    <3>2. r # Leaf(t[f]) /\ \A g, as : r # Call(g, as)
      BY OpOf, Zenon
    <3>3. OperatorOf(t, s, Trees(t, s), f, to, r)
      BY <3>1, <3>2, Zenon DEF ExprOf, ArgumentOf
    <3>4. PICK k, l, q : t[k] \in BinOps /\ r = Node(t[k], NoName, <<l, q>>)
      BY <3>3, Zenon DEF OperatorOf
    <3> QED
      BY <3>4 DEF Node
  <2> QED
    BY <1>1, <1>2, <2>1, TokenFacts
<1>6. Deep(t, i) \in Int /\ Deep(t, f) \in Int /\ Deep(t, j) \in Int
  BY <1>2, LevelType
<1>7. Deep(t, j) = Deep(t, f)
  <2>1. Deep(t, j) = Deep(t, f) + 0
    BY <1>3 DEF Nested
  <2> QED
    BY ONLY <1>6, <2>1
<1>8. ASSUME NEW k \in i..j
      PROVE  Level(t, k) >= Level(t, i) /\ ~(t[k] = "," /\ Level(t, k) = Level(t, i))
  <2>1. k = i \/ k \in f..(to - 1)
    <3>1. i \in Nat /\ to \in Nat
      BY Positions
    <3> QED
      BY ONLY <3>1, k \in i..j, j \in (f + 1)..(to - 2)
  <2>2. CASE k = i
    <3> DEFINE d == Level(t, i)
    <3>1. d \in Int
      BY LevelType
    <3> HIDE DEF d
    <3>2. d >= d
      BY ONLY <3>1
    <3> QED
      BY <1>4, <2>2, <3>2 DEF d
  <2>3. CASE k \in f..(to - 1)
    <3> DEFINE lk == Level(t, k)
               li == Level(t, i)
    <3>1. lk >= li /\ (t[k] = "," => lk > li)
      BY <1>3, <1>4, <2>3 DEF Nested
    <3>2. lk \in Int /\ li \in Int
      <4>1. k \in 1..Len(t)
        <5>1. Len(t) \in Nat /\ i \in Nat /\ 1 <= i /\ to \in Nat /\ to <= Len(t)
          BY Positions
        <5> QED
          BY ONLY <2>3, <5>1
      <4> QED
        BY <4>1, LevelType
    <3> HIDE DEF lk, li
    <3>3. lk > li => lk # li
      BY ONLY <3>2
    <3> QED
      BY <3>1, <3>3 DEF lk, li
  <2> QED
    BY <2>1, <2>2, <2>3
<1>9. Level(t, i) = Level(t, j)
  BY <1>4, <1>5, <1>7
<1>10. SameArgument(t, i, j)
  BY <1>8, <1>9, Zenon DEF SameArgument
<1> QED
  BY <1>1, <1>2, <1>10

\* An operator and its operands, in a text in which it may bind as declared.
LEMMA OperatorOfC ==
    ASSUME NEW t \in Seq(Tokens), Plain(t), AssignsVars(t), NEW s,
           NEW from \in 1..Len(t), NEW k \in 1..Len(t), NEW to \in 1..Len(t),
           k + 1 \in 1..Len(t), t[k] \in BinOps,
           NEW l \in Trees(t, s)[<<"expr", from, k>>],
           NEW r \in Trees(t, s)[<<"expr", k + 1, to>>],
           <<t[k], l.op, r.op>> \in AsDeclared
    PROVE  <<t[k], l.op, r.op>> \in OfC
<1> DEFINE op == t[k]
<1>1. /\ op \in Operators /\ l.op \in NodeKinds /\ r.op \in NodeKinds
      /\ BindsAsDeclared(op, l.op, r.op)
  BY DEF AsDeclared, Shapes
<1>2. op = "=" => l.op = "var"
  <2> SUFFICES ASSUME op = "=" PROVE l.op = "var"
    OBVIOUS
  <2>1. t[k - 1] \in Vars
    BY DEF AssignsVars
  <2>2. l.op \notin Operators
    BY <1>1 DEF BindsAsDeclared, Arithmetic
  <2>3. ~OperatorOf(t, s, Trees(t, s), from, k, l)
    <3>1. OperatorOf(t, s, Trees(t, s), from, k, l) => \E j, a : t[j] \in BinOps /\ l = Node(t[j], NoName, a)
      BY Zenon DEF OperatorOf
    <3>2. \A j, a : l = Node(t[j], NoName, a) => l.op = t[j]
      BY OpOf
    <3> QED
      BY <2>2, <3>1, <3>2, Words, Zenon
  <2>4. t[k - 1] # ")"
    BY <2>1, TokenAssumption DEF Punctuation
  <2>5. ~ArgumentOf(t, Trees(t, s), from, k, ")", l)
    BY <2>4 DEF ArgumentOf
  <2>6. ~(k = from + 2 /\ t[from + 1] = ")")
    <3> SUFFICES ASSUME k = from + 2 PROVE t[from + 1] # ")"
      OBVIOUS
    <3>1. from + 1 = k - 1
      OBVIOUS
    <3> QED
      BY <2>4, <3>1
  <2>7. k = from + 1 /\ l = Leaf(t[from])
    <3>1. ExprOf(t, s, Trees(t, s), from, k, l)
      BY InExpr
    <3> QED
      BY <2>3, <2>5, <2>6, <3>1, Zenon DEF ExprOf
  <2>8. t[from] \in Vars
    <3>1. k - 1 = from
      BY <2>7
    <3> QED
      BY <2>1, <3>1
  <2> QED
    BY <2>7, <2>8 DEF Leaf, Node
<1>3. op # "=" => r.op \notin Undeclared
  <2> SUFFICES ASSUME op # "=", r.op \in Undeclared PROVE FALSE
    OBVIOUS
  <2>1. r.op \in Operators
    BY DEF Undeclared, Operators
  <2>2. PICK j \in 1..Len(t) : k \in 1..(j - 1) /\ t[j] = r.op /\ SameArgument(t, k, j)
    BY <2>1, RootInArgument
  <2> QED
    BY <1>1, <2>2 DEF Plain
<1> HIDE DEF op
<1>4. op # "=" => CLevel(l.op) >= CLevel(op) /\ CLevel(r.op) > CLevel(op)
  <2>1. ASSUME NEW o \in Operators \ {"="}, NEW a \in NodeKinds, NEW b \in NodeKinds,
               BindsAsDeclared(o, a, b), b \notin Undeclared
        PROVE  CLevel(a) >= CLevel(o) /\ CLevel(b) > CLevel(o)
    <3>1. o \in Arithmetic \/ o \in Relational
      BY DEF Operators
    <3>2. a \in Arithmetic \/ a \in Undeclared \/ a \in {"var", "const", "call"}
      BY DEF NodeKinds, Operators, Undeclared
    <3>3. b \in Arithmetic \/ b \in {"var", "const", "call"}
      BY <2>1 DEF NodeKinds, Operators, Undeclared
    <3>4. o \in Arithmetic => a \notin Undeclared
      BY <2>1 DEF BindsAsDeclared, Operators, Undeclared, Arithmetic, Relational
    <3>5. o \in Relational => a \in {"var", "const", "call"}
      BY <2>1, <3>2 DEF BindsAsDeclared, Operators, Undeclared, Arithmetic, Relational
    <3>6. CASE o \in Arithmetic
      BY <2>1, <3>2, <3>3, <3>4, <3>6
         DEF BindsAsDeclared, Operators, Arithmetic, Relational, Precedence, CLevel
    <3>7. CASE o \in Relational
      BY <3>3, <3>5, <3>7 DEF Arithmetic, Relational, CLevel
    <3> QED
      BY <3>1, <3>6, <3>7
  <2> QED
    BY <1>1, <1>3, <2>1
<1>5. BindsAsInC(op, l.op, r.op)
  BY <1>2, <1>4 DEF BindsAsInC
<1> QED
  BY <1>1, <1>5 DEF OfC, Shapes, op

\* All trees of such a text are those of C.
LEMMA DeclaredIsC ==
    ASSUME NEW t \in Seq(Tokens), Plain(t), AssignsVars(t)
    PROVE  \A part \in Parts(t) : Trees(t, AsDeclared)[part] \subseteq Trees(t, OfC)[part]
<1> DEFINE P == Parts(t)
           g == Trees(t, AsDeclared)
           h == Trees(t, OfC)
           m == [part \in P |-> Size(t, part)]
           G == {part \in P : g[part] \subseteq h[part]}
<1>1. m \in [P -> Nat]
  BY SizeFacts
<1>2. ASSUME NEW part \in P, \A p \in P : m[p] < m[part] => p \in G
      PROVE  part \in G
  <2> DEFINE n    == Len(t)
             kind == part[1]
             from == part[2]
             to   == part[3]
  <2>1. n \in Nat /\ kind \in {"expr", "open"} /\ from \in 1..n /\ to \in 1..n /\ part = <<kind, from, to>>
    BY DEF Parts
  <2>2. ASSUME NEW a \in 1..n, NEW b \in 1..n, NEW kd \in {"expr", "open"}, b - a < to - from
        PROVE  g[<<kd, a, b>>] \subseteq h[<<kd, a, b>>]
    <3>1. <<kd, a, b>> \in P
      BY DEF Parts
    <3>2. Size(t, <<kd, a, b>>) = (n + b) - a /\ Size(t, part) = (n + to) - from
      BY DEF Size
    <3> HIDE DEF n, from, to, g, h
    <3>3. (n + b) - a < (n + to) - from
      BY ONLY <2>1, <2>2
    <3>4. <<kd, a, b>> \in G
      BY <1>2, <3>1, <3>2, <3>3
    <3> QED
      BY <3>4
  <2> SUFFICES ASSUME NEW x \in g[part] PROVE x \in h[part]
    OBVIOUS
  <2> HIDE DEF kind, from, to, g, h
  <2>3. ASSUME NEW behind, ArgumentOf(t, g, from, to, behind, x)
        PROVE  ArgumentOf(t, h, from, to, behind, x)
    <3>0. PICK k \in (from + 1)..(to - 2) :
             \E c \in g[<<"open", from, k>>], a \in g[<<"expr", k, to - 1>>] :
                x = Call(c.name, Append(c.kids, a))
      BY <2>3, Zenon DEF ArgumentOf
    <3>1. PICK c \in g[<<"open", from, k>>], a \in g[<<"expr", k, to - 1>>] :
             x = Call(c.name, Append(c.kids, a))
      BY <3>0
    <3>2. from < to /\ t[to - 1] = behind
      BY <2>3 DEF ArgumentOf
    <3> HIDE DEF n
    <3>3. k \in 1..n /\ to - 1 \in 1..n /\ k - from < to - from /\ (to - 1) - k < to - from
      BY <2>1, Between
    <3>4. c \in h[<<"open", from, k>>] /\ a \in h[<<"expr", k, to - 1>>]
      BY <2>1, <2>2, <3>3
    <3> QED
      BY <3>1, <3>2, <3>4, Zenon DEF ArgumentOf
  <2>4. ASSUME OperatorOf(t, AsDeclared, g, from, to, x)
        PROVE  OperatorOf(t, OfC, h, from, to, x)
    <3>0. PICK k \in (from + 1)..(to - 2) :
             /\ t[k] \in BinOps
             /\ \E l \in g[<<"expr", from, k>>], r \in g[<<"expr", k + 1, to>>] :
                   <<t[k], l.op, r.op>> \in AsDeclared /\ x = Node(t[k], NoName, <<l, r>>)
      BY <2>4, Zenon DEF OperatorOf
    <3>1. PICK l \in g[<<"expr", from, k>>], r \in g[<<"expr", k + 1, to>>] :
             /\ t[k] \in BinOps /\ <<t[k], l.op, r.op>> \in AsDeclared
             /\ x = Node(t[k], NoName, <<l, r>>)
      BY <3>0
    <3> HIDE DEF n
    <3>2. k \in 1..n /\ k + 1 \in 1..n /\ k - from < to - from /\ to - (k + 1) < to - from
      BY <2>1, Between
    <3>3. l \in h[<<"expr", from, k>>] /\ r \in h[<<"expr", k + 1, to>>]
      BY <2>1, <2>2, <3>2
    <3>4. <<t[k], l.op, r.op>> \in OfC
      BY <2>1, <3>1, <3>2, OperatorOfC DEF n, g
    <3> QED
      BY <3>1, <3>3, <3>4, Zenon DEF OperatorOf
  <2>5. CASE kind = "open"
    <3>1. OpenOf(t, g, from, to, x)
      BY <2>1, <2>5, InOpen DEF g
    <3>2. OpenOf(t, h, from, to, x)
      BY <2>3, <3>1 DEF OpenOf
    <3> QED
      BY <2>1, <2>5, <3>2, InOpen DEF h
  <2>6. CASE kind = "expr"
    <3>1. ExprOf(t, AsDeclared, g, from, to, x)
      BY <2>1, <2>6, InExpr DEF g
    <3>2. ExprOf(t, OfC, h, from, to, x)
      BY <2>3, <2>4, <3>1 DEF ExprOf
    <3> QED
      BY <2>1, <2>6, <3>2, InExpr DEF h
  <2> QED
    BY <2>1, <2>5, <2>6
<1>3. \A part \in P : part \in G
  <2> HIDE DEF P, m, G
  <2> QED
    BY <1>1, <1>2, MeasureInduction
<1> QED
  BY <1>3

\* What has been accepted is read as in C, whatever the text, if no operator without a
\* declaration follows another operator than the = of an assignment.
THEOREM AcceptsAsC == ParserSpec => []ReadsAsC
<1>1. ASSUME PInv, TreeAsDeclared
      PROVE  ReadsAsC
  <2> SUFFICES ASSUME phase = "parsed", Plain(text), AssignsVars(text)
               PROVE  ReadWith(OfC)
    BY DEF ReadsAsC
  <2>1. ReadWith(AsDeclared)
    BY <1>1 DEF TreeAsDeclared
  <2>2. text \in Seq(Tokens) /\ Len(text) \in Nat /\ Len(text) >= 1
    BY <1>1, StackFacts DEF PInv, TextRead
  <2>3. <<"expr", 1, Len(text)>> \in Parts(text)
    BY <2>2 DEF Parts
  <2>4. Trees(text, AsDeclared)[<<"expr", 1, Len(text)>>] \subseteq Trees(text, OfC)[<<"expr", 1, Len(text)>>]
    BY <2>2, <2>3, DeclaredIsC
  <2> QED
    BY <2>1, <2>4 DEF ReadWith
<1> QED
  BY <1>1, ParserInductive, AcceptsAsDeclared, PTL
=============================================================================
