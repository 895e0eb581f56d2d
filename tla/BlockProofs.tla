---------------------------- MODULE BlockProofs ----------------------------
(***************************************************************************)
(* The basic blocks are right for every program: no block of a finished    *)
(* function runs off its end (NoFallThrough) and every branch goes to a    *)
(* block of its own function (TargetsPlaced).  Both speak of functions     *)
(* that are finished; the invariant below says what holds in between: the  *)
(* blocks that have been created and not inserted are just those that the  *)
(* active handlers still insert, each of them once, and the branches of    *)
(* the function that is being generated go there or to its own blocks.     *)
(***************************************************************************)
EXTENDS CodeGenProofs

\* The blocks that a handler has created and has still to insert: the rest of
\* the blocks of an if or a for statement.
ToInsert(h) ==
    CASE h.kind = "forinit" -> {h.bb + 1, h.bb + 2, h.bb + 3, h.bb + 4}
      [] h.kind = "for"     -> {h.bb + 3, h.bb + 4}
      [] h.kind = "then"    -> {h.bb + 1, h.bb + 2}
      [] h.kind = "else"    -> {h.bb + 1}
      [] OTHER -> {}

\* What the handlers called by the k-th handler have still to insert.
Waiting(fr, k) == UNION {ToInsert(fr[i]) : i \in (k + 1)..Len(fr)}

\* No two of these handlers insert the same block.
InsertedOnce(fr, k) ==
    \A i, j \in (k + 1)..Len(fr) : i # j => ToInsert(fr[i]) \cap ToInsert(fr[j]) = {}

\* A block that has not been created or not been inserted is empty.
FreshBlocks ==
    /\ \A b \in BB : b > nbb => owner[b] = NoFunc
    /\ \A b \in BB : owner[b] = NoFunc => instrs[b] = <<>>

\* What a handler has still to insert exists and has not been inserted.
PendingBlocks ==
    /\ \A b \in Waiting(frames, 0) : b \in BB /\ b <= nbb /\ owner[b] = NoFunc
    /\ InsertedOnce(frames, 0)

\* A for statement past its initialization has inserted its condition, where
\* its last branch goes.
LoopHeads ==
    \A i \in 1..Len(frames) : frames[i].kind = "for" => owner[frames[i].bb + 1] = currentFunc

\* The temporary function has one block, that of the handler of the program.
GlobalBlock ==
    \A b \in BB : owner[b] = GlobalFunc <=> frames # <<>> /\ b = frames[1].bb

\* The elements of a sequence.
Elems(s) == {s[k] : k \in 1..Len(s)}

\* A block that has been left has a terminator.
Terminated ==
    \A b \in BB : owner[b] \notin {NoFunc, GlobalFunc} =>
        \/ currentFunc # NoFunc /\ b = insertBB
        \/ \E i \in Elems(instrs[b]) : IsTerm(i)

\* A branch stays in its function, or goes to a block that will be inserted
\* into the function that is being generated.
Targeted ==
    \A b \in BB : \A i \in Elems(instrs[b]) : \A t \in i.to :
        \/ owner[t] = owner[b]
        \/ owner[b] = currentFunc /\ t \in Waiting(frames, 0)

\* The Builder is at a block of a function, after the function has been left too.
BuilderPlaced == insertBB # NoBB => owner[insertBB] \notin {NoFunc, GlobalFunc}

BInv ==
    /\ FreshBlocks /\ PendingBlocks /\ LoopHeads
    /\ GlobalBlock /\ BuilderPlaced
    /\ Terminated /\ Targeted

----------------------------------------------------------------------------
\* Instructions that are appended.

\* Every instruction of c is in d at its place.
Extends(c, d) ==
    \A b \in BB : /\ Len(c[b]) <= Len(d[b])
                  /\ \A k \in 1..Len(c[b]) : d[b][k] = c[b][k]

\* The instructions of block b in d that are not in c.
Added(c, d, b) == {d[b][k] : k \in (Len(c[b]) + 1)..Len(d[b])}

\* The blocks outside S are as they were.
SameBut(c, d, S) == \A x \in BB : x \notin S => d[x] = c[x]

\* What is new is in block a and from s, or in block b and from t.
AddsOnly(c, d, a, s, b, t) ==
    \A x \in BB : \A i \in Elems(d[x]) :
        \/ i \in Elems(c[x])
        \/ x = a /\ i \in Elems(s)
        \/ x = b /\ i \in Elems(t)

\* d is c with the instructions s at the end of block a.
EmitsAt(c, a, s, d) ==
    /\ d \in [BB -> Seq(Instr)]
    /\ \A x \in BB : x # a => d[x] = c[x]
    /\ a \in BB => /\ Len(d[a]) = Len(c[a]) + Len(s)
                   /\ \A k \in 1..Len(c[a]) : d[a][k] = c[a][k]
                   /\ \A k \in 1..Len(s) : d[a][Len(c[a]) + k] = s[k]

\* What Emit does to each block.
LEMMA EmitAt ==
    ASSUME NEW c \in [BB -> Seq(Instr)], NEW a \in BB \cup {NoBB}, NEW s \in Seq(Instr)
    PROVE  EmitsAt(c, a, s, Emit(c, a, s))
<1> DEFINE d == Emit(c, a, s)
<1>1. d \in [BB -> Seq(Instr)]
  BY EmitType
<1>2. CASE a = NoBB
  BY <1>1, <1>2 DEF Emit, EmitsAt, BB, NoBB
<1>3. CASE a \in BB
  <2>1. d = [c EXCEPT ![a] = @ \o s]
    BY <1>3 DEF Emit, BB, NoBB
  <2>2. /\ Len(c[a] \o s) = Len(c[a]) + Len(s) /\ Len(c[a]) \in Nat /\ Len(s) \in Nat
        /\ \A k \in 1..(Len(c[a]) + Len(s)) :
              (c[a] \o s)[k] = IF k <= Len(c[a]) THEN c[a][k] ELSE s[k - Len(c[a])]
    BY <1>3, ConcatProperties
  <2>3. d[a] = c[a] \o s /\ \A x \in BB : x # a => d[x] = c[x]
    BY <1>3, <2>1
  <2>4. \A k \in 1..Len(c[a]) : d[a][k] = c[a][k]
    BY <2>2, <2>3
  <2>5. ASSUME NEW k \in 1..Len(s)
        PROVE  d[a][Len(c[a]) + k] = s[k]
    <3>1. Len(c[a]) + k \in 1..(Len(c[a]) + Len(s))
      BY <2>2
    <3>2. ~(Len(c[a]) + k <= Len(c[a])) /\ (Len(c[a]) + k) - Len(c[a]) = k
      BY <2>2
    <3> QED
      BY <2>2, <2>3, <3>1, <3>2
  <2> QED
    BY <1>1, <1>3, <2>2, <2>3, <2>4, <2>5 DEF EmitsAt
<1> QED
  BY <1>2, <1>3

\* The same, in terms of what is kept and what is added.
LEMMA EmitAdds ==
    ASSUME NEW c \in [BB -> Seq(Instr)], NEW a \in BB \cup {NoBB}, NEW s \in Seq(Instr),
           NEW d, d = Emit(c, a, s)
    PROVE  /\ d \in [BB -> Seq(Instr)] /\ Extends(c, d)
           /\ \A x \in BB : x # a => d[x] = c[x]
           /\ \A x \in BB : Added(c, d, x) \subseteq (IF x = a THEN Elems(s) ELSE {})
           /\ a \in BB /\ s # <<>> => s[Len(s)] \in Elems(d[a])
<1>1. /\ d \in [BB -> Seq(Instr)]
      /\ \A x \in BB : x # a => d[x] = c[x]
      /\ a \in BB => /\ Len(d[a]) = Len(c[a]) + Len(s)
                     /\ \A k \in 1..Len(c[a]) : d[a][k] = c[a][k]
                     /\ \A k \in 1..Len(s) : d[a][Len(c[a]) + k] = s[k]
  <2>1. EmitsAt(c, a, s, d)
    BY EmitAt
  <2> QED
    BY <2>1 DEF EmitsAt
<1>2. Len(s) \in Nat /\ \A x \in BB : Len(c[x]) \in Nat
  OBVIOUS
<1>3. Extends(c, d)
  <2>1. ASSUME NEW x \in BB
        PROVE  Len(c[x]) <= Len(d[x]) /\ \A k \in 1..Len(c[x]) : d[x][k] = c[x][k]
    <3>1. CASE x = a
      BY <1>1, <1>2, <3>1
    <3>2. CASE x # a
      BY <1>1, <1>2, <3>2
    <3> QED
      BY <3>1, <3>2
  <2> QED
    BY <2>1 DEF Extends
<1>4. ASSUME NEW x \in BB, NEW k \in (Len(c[x]) + 1)..Len(d[x])
      PROVE  x = a /\ d[x][k] \in Elems(s)
  <2>1. x = a
    <3>1. x # a => Len(d[x]) = Len(c[x])
      BY <1>1
    <3> QED
      BY <1>2, <3>1
  <2> DEFINE j == k - Len(c[a])
  <2>2. j \in 1..Len(s) /\ k = Len(c[a]) + j
    BY <1>1, <1>2, <2>1
  <2>3. d[a][k] = s[j]
    BY <1>1, <2>1, <2>2
  <2> QED
    BY <2>1, <2>2, <2>3 DEF Elems
<1>5. \A x \in BB : Added(c, d, x) \subseteq (IF x = a THEN Elems(s) ELSE {})
  BY <1>4 DEF Added
<1>6. ASSUME a \in BB, s # <<>>
      PROVE  s[Len(s)] \in Elems(d[a])
  <2>1. Len(s) \in 1..Len(s)
    BY <1>6, EmptySeq
  <2>2. d[a][Len(c[a]) + Len(s)] = s[Len(s)] /\ Len(c[a]) + Len(s) \in 1..Len(d[a])
    <3>1. Len(d[a]) = Len(c[a]) + Len(s) /\ d[a][Len(c[a]) + Len(s)] = s[Len(s)]
      BY <1>1, <1>6, <2>1
    <3>2. Len(c[a]) \in Nat /\ Len(s) \in Nat
      BY <1>2, <1>6
    <3> QED
      BY <2>1, <3>1, <3>2
  <2> QED
    BY <2>2 DEF Elems
<1> QED
  BY <1>1, <1>3, <1>5, <1>6

\* An instruction that is there stays there.
LEMMA ElemsKept ==
    ASSUME NEW c \in [BB -> Seq(Instr)], NEW d \in [BB -> Seq(Instr)], Extends(c, d),
           NEW x \in BB
    PROVE  Elems(c[x]) \subseteq Elems(d[x])
<1> SUFFICES ASSUME NEW k \in 1..Len(c[x]) PROVE c[x][k] \in Elems(d[x])
  BY DEF Elems
<1>1. Len(c[x]) \in Nat /\ Len(d[x]) \in Nat
  OBVIOUS
<1>2. k \in 1..Len(d[x]) /\ d[x][k] = c[x][k]
  BY <1>1 DEF Extends
<1> QED
  BY <1>2 DEF Elems

\* An instruction was there or has been added.
LEMMA ElemsFrom ==
    ASSUME NEW c \in [BB -> Seq(Instr)], NEW d \in [BB -> Seq(Instr)], Extends(c, d),
           NEW x \in BB
    PROVE  Elems(d[x]) \subseteq Elems(c[x]) \cup Added(c, d, x)
<1> SUFFICES ASSUME NEW k \in 1..Len(d[x])
             PROVE  d[x][k] \in Elems(c[x]) \cup Added(c, d, x)
  BY DEF Elems
<1>1. Len(c[x]) \in Nat /\ Len(d[x]) \in Nat
  OBVIOUS
<1>2. CASE k <= Len(c[x])
  BY <1>1, <1>2 DEF Extends, Elems
<1>3. CASE k > Len(c[x])
  BY <1>1, <1>3 DEF Added
<1> QED
  BY <1>1, <1>2, <1>3

\* Appending instructions at two places.
LEMMA EmitTwiceAdds ==
    ASSUME NEW c \in [BB -> Seq(Instr)], NEW a \in BB \cup {NoBB}, NEW s \in Seq(Instr),
           NEW b \in BB \cup {NoBB}, NEW t \in Seq(Instr),
           NEW d, d = Emit(Emit(c, a, s), b, t)
    PROVE  /\ d \in [BB -> Seq(Instr)] /\ Extends(c, d)
           /\ SameBut(c, d, {a, b}) /\ AddsOnly(c, d, a, s, b, t)
           /\ a \in BB /\ s # <<>> => s[Len(s)] \in Elems(d[a])
           /\ b \in BB /\ t # <<>> => t[Len(t)] \in Elems(d[b])
<1> DEFINE m == Emit(c, a, s)
<1>1. /\ m \in [BB -> Seq(Instr)] /\ Extends(c, m)
      /\ \A x \in BB : x # a => m[x] = c[x]
      /\ \A x \in BB : Added(c, m, x) \subseteq IF x = a THEN Elems(s) ELSE {}
      /\ a \in BB /\ s # <<>> => s[Len(s)] \in Elems(m[a])
  BY EmitAdds
<1>0. d = Emit(m, b, t)
  OBVIOUS
<1> HIDE DEF m
<1>2. /\ d \in [BB -> Seq(Instr)] /\ Extends(m, d)
      /\ \A x \in BB : x # b => d[x] = m[x]
      /\ \A x \in BB : Added(m, d, x) \subseteq IF x = b THEN Elems(t) ELSE {}
      /\ b \in BB /\ t # <<>> => t[Len(t)] \in Elems(d[b])
  BY <1>0, <1>1, EmitAdds
<1>3. Extends(c, d)
  <2>1. \A x \in BB : Len(c[x]) \in Nat /\ Len(m[x]) \in Nat /\ Len(d[x]) \in Nat
    BY <1>1, <1>2
  <2>2. ASSUME NEW x \in BB
        PROVE  Len(c[x]) <= Len(d[x]) /\ \A k \in 1..Len(c[x]) : d[x][k] = c[x][k]
    <3>1. /\ Len(c[x]) <= Len(m[x]) /\ Len(m[x]) <= Len(d[x])
          /\ \A k \in 1..Len(c[x]) : m[x][k] = c[x][k]
          /\ \A k \in 1..Len(m[x]) : d[x][k] = m[x][k]
      BY <1>1, <1>2 DEF Extends
    <3>2. Len(c[x]) <= Len(d[x])
      BY <2>1, <3>1
    <3>3. \A k \in 1..Len(c[x]) : k \in 1..Len(m[x])
      BY <2>1, <3>1
    <3> QED
      BY <3>1, <3>2, <3>3
  <2> QED
    BY <2>2 DEF Extends
<1>4. ASSUME NEW x \in BB
      PROVE  \A i \in Elems(d[x]) :
                i \in Elems(c[x]) \/ (x = a /\ i \in Elems(s)) \/ (x = b /\ i \in Elems(t))
  <2>1. Elems(d[x]) \subseteq Elems(m[x]) \cup Added(m, d, x)
    BY <1>1, <1>2, ElemsFrom
  <2>2. Elems(m[x]) \subseteq Elems(c[x]) \cup Added(c, m, x)
    BY <1>1, ElemsFrom
  <2>3. \A i \in Added(m, d, x) : x = b /\ i \in Elems(t)
    BY <1>2
  <2>4. \A i \in Added(c, m, x) : x = a /\ i \in Elems(s)
    BY <1>1
  <2>5. ASSUME NEW i \in Elems(d[x])
        PROVE  i \in Elems(c[x]) \/ (x = a /\ i \in Elems(s)) \/ (x = b /\ i \in Elems(t))
    <3>1. i \in Elems(c[x]) \/ i \in Added(c, m, x) \/ i \in Added(m, d, x)
      BY <2>1, <2>2, <2>5
    <3>2. i \in Added(c, m, x) => x = a /\ i \in Elems(s)
      BY <2>4
    <3>3. i \in Added(m, d, x) => x = b /\ i \in Elems(t)
      BY <2>3
    <3> QED
      BY <3>1, <3>2, <3>3
  <2> QED
    BY <2>5
<1>5. a \in BB /\ s # <<>> => s[Len(s)] \in Elems(d[a])
  <2>1. SUFFICES ASSUME a \in BB, s # <<>> PROVE s[Len(s)] \in Elems(d[a])
    OBVIOUS
  <2>2. m \in [BB -> Seq(Instr)] /\ d \in [BB -> Seq(Instr)] /\ Extends(m, d)
    BY <1>1, <1>2
  <2>3. Elems(m[a]) \subseteq Elems(d[a])
    BY <2>1, <2>2, ElemsKept
  <2>4. s[Len(s)] \in Elems(m[a])
    BY <1>1, <2>1
  <2> QED
    BY <2>3, <2>4
<1> QED
  BY <1>1, <1>2, <1>3, <1>4, <1>5 DEF SameBut, AddsOnly

\* What an expression emits does not branch.
LEMMA ExprCodeElems ==
    ASSUME NEW bl, NEW e
    PROVE  \A i \in Elems(ExprCode(bl, e)) : i.to = {} /\ ~IsTerm(i)
BY DEF ExprCode, Elems, Access, Call, IsTerm

\* The instructions of a sequence and one more.
LEMMA AppendElems ==
    ASSUME NEW s \in Seq(Instr), NEW i \in Instr
    PROVE  /\ Append(s, i) \in Seq(Instr) /\ Append(s, i) # <<>>
           /\ Append(s, i)[Len(Append(s, i))] = i
           /\ Elems(Append(s, i)) = Elems(s) \cup {i}
<1> DEFINE t == Append(s, i)
<1>1. /\ t \in Seq(Instr) /\ Len(t) = Len(s) + 1 /\ t[Len(t)] = i
      /\ \A k \in 1..Len(s) : t[k] = s[k]
  BY Pushed
<1> HIDE DEF t
<1>2. t # <<>> /\ Len(s) \in Nat
  BY <1>1, NotEmpty
<1>3. \A k \in 1..Len(t) : k = Len(t) \/ k \in 1..Len(s)
  BY <1>1, <1>2
<1>4. Elems(t) \subseteq Elems(s) \cup {i}
  BY <1>1, <1>3 DEF Elems
<1>5. Elems(s) \cup {i} \subseteq Elems(t)
  BY <1>1, <1>2 DEF Elems
<1> QED
  BY <1>1, <1>2, <1>4, <1>5 DEF t

LEMMA OneElem == \A i : Elems(<<i>>) = {i} /\ <<i>> # <<>> /\ <<i>>[Len(<<i>>)] = i
BY DEF Elems

LEMMA NoElem == Elems(<<>>) = {}
BY DEF Elems

----------------------------------------------------------------------------
\* How a step keeps the invariant.

\* What a handler has still to insert depends on its kind and its block.
LEMMA ToInsertSame ==
    ASSUME NEW g, NEW h, g.kind = h.kind, g.bb = h.bb
    PROVE  ToInsert(g) = ToInsert(h)
BY DEF ToInsert

\* What the first k handlers have still to insert.
Below(fr, k) == UNION {ToInsert(fr[i]) : i \in 1..k}

\* The blocks to insert are those of the first k handlers and of the others.
LEMMA WaitingSplit ==
    ASSUME NEW fr, Len(fr) \in Nat, NEW k \in Nat, k <= Len(fr)
    PROVE  /\ Waiting(fr, 0) = Below(fr, k) \cup Waiting(fr, k)
           /\ InsertedOnce(fr, 0) => Below(fr, k) \cap Waiting(fr, k) = {}
<1>1. \A i : i \in 1..Len(fr) <=> i \in 1..k \/ i \in (k + 1)..Len(fr)
  OBVIOUS
<1>2. \A i : i \in (0 + 1)..Len(fr) <=> i \in 1..Len(fr)
  OBVIOUS
<1>3. Waiting(fr, 0) = Below(fr, k) \cup Waiting(fr, k)
  BY <1>1, <1>2, Zenon DEF Waiting, Below
<1>4. \A i \in 1..k : \A j \in (k + 1)..Len(fr) : i # j
  OBVIOUS
<1>5. InsertedOnce(fr, 0) =>
         \A i \in 1..k : \A j \in (k + 1)..Len(fr) : ToInsert(fr[i]) \cap ToInsert(fr[j]) = {}
  BY <1>1, <1>2, <1>4, Zenon DEF InsertedOnce
<1>6. ASSUME InsertedOnce(fr, 0), NEW u \in Below(fr, k), u \in Waiting(fr, k)
      PROVE  FALSE
  <2>1. PICK i \in 1..k : u \in ToInsert(fr[i])
    BY Zenon DEF Below
  <2>2. PICK j \in (k + 1)..Len(fr) : u \in ToInsert(fr[j])
    BY <1>6, Zenon DEF Waiting
  <2> QED
    BY <1>5, <1>6, <2>1, <2>2
<1> QED
  BY <1>3, <1>6

\* Handlers that insert the same blocks wait for the same blocks.
LEMMA BelowSame ==
    ASSUME NEW fr, NEW gr, NEW k \in Nat,
           \A i \in 1..k : ToInsert(gr[i]) = ToInsert(fr[i])
    PROVE  Below(gr, k) = Below(fr, k)
BY Zenon DEF Below

LEMMA OnceJoined ==
    ASSUME NEW fr, NEW gr, Len(fr) \in Nat, Len(gr) \in Nat,
           NEW k \in Nat, k <= Len(fr), k <= Len(gr),
           \A i \in 1..k : ToInsert(gr[i]) = ToInsert(fr[i]),
           InsertedOnce(fr, 0), InsertedOnce(gr, k),
           Below(gr, k) \cap Waiting(gr, k) = {}
    PROVE  InsertedOnce(gr, 0)
<1>1. \A i \in (0 + 1)..Len(gr) : i \in 1..k \/ i \in (k + 1)..Len(gr)
  OBVIOUS
<1>2. \A i \in 1..k : i \in (0 + 1)..Len(fr)
  OBVIOUS
<1> SUFFICES ASSUME NEW i \in (0 + 1)..Len(gr), NEW j \in (0 + 1)..Len(gr), i # j
             PROVE  ToInsert(gr[i]) \cap ToInsert(gr[j]) = {}
  BY DEF InsertedOnce
<1>3. CASE i \in 1..k /\ j \in 1..k
  BY <1>2, <1>3, Zenon DEF InsertedOnce
<1>4. CASE i \in 1..k /\ j \in (k + 1)..Len(gr)
  BY <1>4, Zenon DEF Below, Waiting
<1>5. CASE i \in (k + 1)..Len(gr) /\ j \in 1..k
  BY <1>5, Zenon DEF Below, Waiting
<1>6. CASE i \in (k + 1)..Len(gr) /\ j \in (k + 1)..Len(gr)
  BY <1>6, Zenon DEF InsertedOnce
<1> QED
  BY <1>1, <1>3, <1>4, <1>5, <1>6

LEMMA WaitingSame ==
    ASSUME NEW fr \in Seq(FrameRec), NEW gr \in Seq(FrameRec), Len(gr) = Len(fr),
           \A i \in 1..Len(fr) : ToInsert(gr[i]) = ToInsert(fr[i])
    PROVE  /\ Waiting(gr, 0) = Waiting(fr, 0)
           /\ InsertedOnce(fr, 0) => InsertedOnce(gr, 0)
<1>1. \A i \in (0 + 1)..Len(fr) : ToInsert(gr[i]) = ToInsert(fr[i])
  OBVIOUS
<1> QED
  BY <1>1, Zenon DEF Waiting, InsertedOnce

\* The handlers are the same, as far as the blocks they insert go.
StillWaiting ==
    /\ Len(frames') = Len(frames)
    /\ \A i \in 1..Len(frames) :
          /\ ToInsert(frames'[i]) = ToInsert(frames[i])
          /\ frames'[i].bb = frames[i].bb
          /\ frames'[i].kind = "for" => frames[i].kind = "for"

\* What is appended branches nowhere and goes to blocks of functions.
AddsPlain ==
    /\ Extends(instrs, instrs')
    /\ \A x \in BB : owner[x] = NoFunc => instrs'[x] = instrs[x]
    /\ \A x \in BB : \A i \in Elems(instrs'[x]) : i \in Elems(instrs[x]) \/ i.to = {}

\* A step of a function or of the program that appends instructions other
\* than branches and inserts no block.
LEMMA PlainStep ==
    ASSUME IInv, IInv', BInv, UNCHANGED <<currentFunc, nbb, owner, insertBB>>,
           StillWaiting, AddsPlain
    PROVE  BInv'
<1>1. /\ instrs \in [BB -> Seq(Instr)] /\ instrs' \in [BB -> Seq(Instr)]
      /\ frames \in Seq(FrameRec) /\ frames' \in Seq(FrameRec)
  BY DEF IInv, TypeOK
<1>2. FreshBlocks'
  BY DEF BInv, FreshBlocks, AddsPlain
<1>3. Waiting(frames', 0) = Waiting(frames, 0)
  BY <1>1, WaitingSame DEF StillWaiting
<1>4. PendingBlocks'
  BY <1>1, <1>3, WaitingSame DEF BInv, PendingBlocks, StillWaiting
<1>5. LoopHeads'
  BY DEF BInv, LoopHeads, StillWaiting
<1>6. GlobalBlock'
  <2>1. frames' = <<>> <=> frames = <<>>
    BY <1>1, EmptySeq DEF StillWaiting
  <2>2. frames # <<>> => frames'[1].bb = frames[1].bb
    BY <1>1, EmptySeq DEF StillWaiting
  <2> QED
    BY <2>1, <2>2 DEF BInv, GlobalBlock
<1>7. Terminated'
  <2>1. \A x \in BB : Elems(instrs[x]) \subseteq Elems(instrs'[x])
    BY <1>1, ElemsKept DEF AddsPlain
  <2> QED
    BY <2>1 DEF BInv, Terminated
<1>8. Targeted'
  BY <1>3 DEF BInv, Targeted, AddsPlain
<1>9. BuilderPlaced'
  BY DEF BInv, BuilderPlaced
<1> QED
  BY <1>2, <1>4, <1>5, <1>6, <1>7, <1>8, <1>9 DEF BInv

\* A step that inserts the blocks of P into the function that is generated.
Inserts(P) ==
    /\ currentFunc # NoFunc /\ currentFunc' = currentFunc
    /\ owner' = [x \in BB |-> IF x \in P THEN currentFunc ELSE owner[x]]
    /\ \A u \in P : owner[u] = NoFunc /\ u <= nbb'

LEMMA InsertsOwner ==
    ASSUME NEW P, Inserts(P), NEW x \in BB
    PROVE  /\ x \in P => owner'[x] = currentFunc /\ owner[x] = NoFunc
           /\ x \notin P => owner'[x] = owner[x]
BY DEF Inserts

LEMMA InsertsFresh ==
    ASSUME FreshBlocks, NEW P, Inserts(P), nbb <= nbb', nbb \in Nat, nbb' \in Nat,
           NEW A, \A x \in BB : x \notin A => instrs'[x] = instrs[x],
           \A x \in A \cap BB : owner'[x] # NoFunc
    PROVE  FreshBlocks'
<1>1. ASSUME NEW x \in BB, x > nbb'
      PROVE  owner'[x] = NoFunc
  <2>1. x > nbb /\ ~(x <= nbb')
    BY <1>1 DEF BB
  <2>2. owner[x] = NoFunc /\ x \notin P
    BY <2>1 DEF FreshBlocks, Inserts
  <2> QED
    BY <2>2, InsertsOwner
<1>2. ASSUME NEW x \in BB, owner'[x] = NoFunc
      PROVE  instrs'[x] = <<>>
  <2>1. x \notin P /\ owner[x] = NoFunc
    BY <1>2, InsertsOwner DEF Inserts
  <2>2. x \notin A
    BY <1>2
  <2> QED
    BY <2>1, <2>2 DEF FreshBlocks
<1> QED
  BY <1>1, <1>2 DEF FreshBlocks

LEMMA InsertsPending ==
    ASSUME PendingBlocks, NEW P, Inserts(P), nbb <= nbb', nbb \in Nat, nbb' \in Nat,
           FreshBlocks, Len(frames) \in Nat, Len(frames') \in Nat,
           NEW k \in Nat, k <= Len(frames), k <= Len(frames'),
           \A i \in 1..k : ToInsert(frames'[i]) = ToInsert(frames[i]),
           \A u \in P : nbb < u \/ u \in Waiting(frames, k),
           \A u \in Waiting(frames', k) :
              /\ u \in BB /\ u \notin P /\ u <= nbb'
              /\ nbb < u \/ u \in Waiting(frames, k),
           InsertedOnce(frames', k)
    PROVE  PendingBlocks' /\ Below(frames, k) \cap P = {}
<1>1. /\ Waiting(frames, 0) = Below(frames, k) \cup Waiting(frames, k)
      /\ Below(frames, k) \cap Waiting(frames, k) = {}
  BY WaitingSplit DEF PendingBlocks
<1>2. /\ Waiting(frames', 0) = Below(frames', k) \cup Waiting(frames', k)
      /\ Below(frames', k) = Below(frames, k)
  BY WaitingSplit, BelowSame
<1>3. \A u \in Waiting(frames, 0) : u \in BB /\ u <= nbb /\ owner[u] = NoFunc
  BY DEF PendingBlocks
<1>4. \A u \in Below(frames, k) :
         u \in BB /\ u <= nbb /\ owner[u] = NoFunc /\ ~(nbb < u) /\ u \notin Waiting(frames, k)
  BY <1>1, <1>3 DEF BB
<1>5. Below(frames, k) \cap P = {} /\ Below(frames', k) \cap Waiting(frames', k) = {}
  BY <1>2, <1>4
<1>6. InsertedOnce(frames', 0)
  <2>1. InsertedOnce(frames, 0)
    BY DEF PendingBlocks
  <2> QED
    BY <1>5, <2>1, OnceJoined
<1>7. ASSUME NEW u \in Waiting(frames', 0)
      PROVE  u \in BB /\ u <= nbb' /\ owner'[u] = NoFunc
  <2>1. CASE u \in Below(frames, k)
    <3>1. u \in BB /\ u <= nbb' /\ u \notin P /\ owner[u] = NoFunc
      BY <1>4, <1>5, <2>1 DEF BB
    <3> QED
      BY <3>1, InsertsOwner
  <2>2. CASE u \in Waiting(frames', k)
    <3>1. u \in BB /\ u <= nbb' /\ u \notin P /\ (nbb < u \/ u \in Waiting(frames, k))
      BY <2>2
    <3>2. owner[u] = NoFunc
      BY <1>1, <1>3, <3>1 DEF FreshBlocks
    <3> QED
      BY <3>1, <3>2, InsertsOwner
  <2> QED
    BY <1>2, <2>1, <2>2
<1> QED
  BY <1>5, <1>6, <1>7 DEF PendingBlocks

LEMMA InsertsHeads ==
    ASSUME LoopHeads, NEW P, Inserts(P), frames \in Seq(FrameRec), Len(frames') \in Nat,
           WellNested(frames, nbb), nbb \in Nat, nbb <= MaxBB,
           NEW k \in Nat, k <= Len(frames), k <= Len(frames'),
           \A i \in 1..k : frames'[i].kind = frames[i].kind /\ frames'[i].bb = frames[i].bb,
           \A i \in (k + 1)..Len(frames') :
              frames'[i].kind = "for" => frames'[i].bb + 1 \in P /\ frames'[i].bb + 1 \in BB
    PROVE  LoopHeads'
<1> SUFFICES ASSUME NEW i \in 1..Len(frames'), frames'[i].kind = "for"
             PROVE  owner'[frames'[i].bb + 1] = currentFunc'
  BY DEF LoopHeads
<1>1. CASE i \in 1..k
  <2>1. i \in 1..Len(frames) /\ frames[i].kind = "for" /\ frames'[i].bb = frames[i].bb
    BY <1>1
  <2>2. frames[i] \in FrameRec /\ frames[i].bb + Ahead("for") <= nbb
    BY <2>1, ElementOfSeq DEF WellNested
  <2>3. frames[i].bb + 1 \in BB
    <3>1. frames[i].bb \in BB
      BY <2>2 DEF FrameRec
    <3>2. frames[i].bb + 4 <= MaxBB
      BY <2>2, <3>1, AheadOf, MaxBBAssumption DEF BB
    <3>3. \A w \in BB : w + 4 <= MaxBB => w + 1 \in BB
      BY MaxBBAssumption DEF BB
    <3> QED
      BY <3>1, <3>2, <3>3
  <2>4. owner[frames[i].bb + 1] = currentFunc
    BY <2>1 DEF LoopHeads
  <2>5. owner'[frames[i].bb + 1] = currentFunc /\ currentFunc' = currentFunc
    BY <2>3, <2>4, InsertsOwner DEF Inserts
  <2> QED
    BY <2>1, <2>5
<1>2. CASE i \in (k + 1)..Len(frames')
  BY <1>2, InsertsOwner DEF Inserts
<1> QED
  BY <1>1, <1>2

LEMMA InsertsGlobal ==
    ASSUME GlobalBlock, NEW P, Inserts(P), currentFunc # GlobalFunc,
           Len(frames) > 0, Len(frames') > 0, frames'[1].bb = frames[1].bb
    PROVE  GlobalBlock'
<1>1. frames # <<>> /\ frames' # <<>>
  BY NotEmpty
<1>2. \A x \in BB : owner'[x] = GlobalFunc <=> owner[x] = GlobalFunc
  BY InsertsOwner, FuncAssumption
<1> QED
  BY <1>1, <1>2 DEF GlobalBlock

LEMMA InsertsTerminated ==
    ASSUME Terminated, NEW P, Inserts(P),
           instrs \in [BB -> Seq(Instr)], instrs' \in [BB -> Seq(Instr)],
           Extends(instrs, instrs'),
           \A x \in P \cup {insertBB} :
              x = insertBB' \/ \E i \in Elems(instrs'[x]) : IsTerm(i)
    PROVE  Terminated'
<1> SUFFICES ASSUME NEW x \in BB, owner'[x] \notin {NoFunc, GlobalFunc}, x # insertBB'
             PROVE  \E i \in Elems(instrs'[x]) : IsTerm(i)
  BY DEF Terminated, Inserts
<1>1. CASE x \in P \cup {insertBB}
  BY <1>1
<1>2. CASE x \notin P \cup {insertBB}
  <2>1. owner[x] \notin {NoFunc, GlobalFunc}
    BY <1>2, InsertsOwner
  <2>2. \E i \in Elems(instrs[x]) : IsTerm(i)
    BY <1>2, <2>1 DEF Terminated
  <2> QED
    BY <2>2, ElemsKept
<1> QED
  BY <1>1, <1>2

LEMMA InsertsTargeted ==
    ASSUME Targeted, FreshBlocks, PendingBlocks, NEW P, Inserts(P),
           instrs \in [BB -> Seq(Instr)], instrs' \in [BB -> Seq(Instr)],
           \A u \in Waiting(frames, 0) : u \in P \/ u \in Waiting(frames', 0),
           \A x \in BB : \A i \in Elems(instrs'[x]) :
              \/ i \in Elems(instrs[x])
              \/ /\ x \in P \/ owner[x] = currentFunc
                 /\ \A u \in i.to : u \in P \/ u \in Waiting(frames', 0) \/ owner[u] = currentFunc
    PROVE  Targeted'
<1> SUFFICES ASSUME NEW x \in BB, NEW i \in Elems(instrs'[x]), NEW u \in i.to
             PROVE  \/ owner'[u] = owner'[x]
                    \/ owner'[x] = currentFunc' /\ u \in Waiting(frames', 0)
  BY DEF Targeted
<1>1. u \in BB
  <2>1. PICK j \in 1..Len(instrs'[x]) : i = instrs'[x][j]
    BY DEF Elems
  <2>2. instrs'[x] \in Seq(Instr)
    OBVIOUS
  <2>3. i \in Instr
    BY <2>1, <2>2, ElementOfSeq
  <2> QED
    BY <2>3 DEF Instr
<1>2. CASE i \in Elems(instrs[x])
  <2>1. owner[x] # NoFunc
    <3>1. instrs[x] # <<>>
      BY <1>2, NoElem
    <3> QED
      BY <3>1 DEF FreshBlocks
  <2>2. owner'[x] = owner[x]
    BY <2>1, InsertsOwner
  <2>3. owner[u] = owner[x] \/ (owner[x] = currentFunc /\ u \in Waiting(frames, 0))
    BY <1>2 DEF Targeted
  <2>4. CASE owner[u] = owner[x]
    BY <1>1, <2>1, <2>2, <2>4, InsertsOwner
  <2>5. CASE owner[x] = currentFunc /\ u \in Waiting(frames, 0)
    BY <1>1, <2>2, <2>5, InsertsOwner DEF Inserts
  <2> QED
    BY <2>3, <2>4, <2>5
<1>3. CASE i \notin Elems(instrs[x])
  <2>1. /\ x \in P \/ owner[x] = currentFunc
        /\ u \in P \/ u \in Waiting(frames', 0) \/ owner[u] = currentFunc
    BY <1>3
  <2>2. owner'[x] = currentFunc
    BY <2>1, InsertsOwner
  <2>3. u \in P \/ owner[u] = currentFunc => owner'[u] = currentFunc
    BY <1>1, InsertsOwner
  <2> QED
    BY <2>1, <2>2, <2>3 DEF Inserts
<1> QED
  BY <1>2, <1>3

\* A step that appends s to the insertion point and t to block b.
LEMMA Appended ==
    ASSUME IInv, insertBB \in BB,
           NEW s \in Seq(Instr), NEW b \in BB \cup {NoBB}, NEW t \in Seq(Instr),
           instrs' = Emit(Emit(instrs, insertBB, s), b, t)
    PROVE  /\ Extends(instrs, instrs') /\ SameBut(instrs, instrs', {insertBB, b})
           /\ AddsOnly(instrs, instrs', insertBB, s, b, t)
           /\ s # <<>> => s[Len(s)] \in Elems(instrs'[insertBB])
           /\ b \in BB /\ t # <<>> => t[Len(t)] \in Elems(instrs'[b])
<1>1. instrs \in [BB -> Seq(Instr)] /\ insertBB \in BB \cup {NoBB}
  BY DEF IInv, TypeOK
<1> QED
  BY <1>1, EmitTwiceAdds

\* The blocks of P have just been created, or handlers that are left or go on
\* had still to insert them.
Due(P, k) == \A u \in P : (nbb < u /\ u <= nbb') \/ u \in Waiting(frames, k)

\* The first k handlers are there after the step.
Keeps(k) ==
    /\ k \in 1..Len(frames) /\ k <= Len(frames')
    /\ \A i \in 1..k : frames'[i].kind = frames[i].kind /\ frames'[i].bb = frames[i].bb

\* A for statement that goes on to its body inserts its condition.
Heads(P, k) ==
    \A i \in (k + 1)..Len(frames') : frames'[i].kind = "for" => frames'[i].bb + 1 \in P

\* Where the function that is generated may branch to.
Reachable(P, k) == P \cup Waiting(frames', k) \cup {u \in BB : owner[u] = currentFunc}

\* The branches of s go to blocks of S.
Goes(s, S) == \A i \in Elems(s) : i.to \subseteq S

Ends(s) == s # <<>> /\ IsTerm(s[Len(s)])

\* Each block of P is the new insertion point, or is b and ends with t.
Left(P, b, t) == \A x \in P : x = insertBB' \/ (x = b /\ Ends(t))

\* A step of a function that inserts the blocks of P, leaves handlers above
\* the k-th one and calls others, and appends s to the insertion point and t
\* to one of the blocks of P.
LEMMA BranchStep ==
    ASSUME IInv, IInv', BInv, currentFunc # NoFunc, currentFunc' = currentFunc,
           NEW k, Keeps(k), nbb <= nbb',
           NEW P \in SUBSET BB, Due(P, k), Due(Waiting(frames', k), k),
           Waiting(frames', k) \subseteq BB \ P,
           Waiting(frames, k) \subseteq P \cup Waiting(frames', k),
           InsertedOnce(frames', k), Heads(P, k),
           owner' = [x \in BB |-> IF x \in P THEN currentFunc ELSE owner[x]],
           NEW s \in Seq(Instr), NEW b \in P \cup {NoBB}, NEW t \in Seq(Instr),
           instrs' = Emit(Emit(instrs, insertBB, s), b, t),
           Goes(s, Reachable(P, k)), Goes(t, Reachable(P, k)),
           insertBB' = insertBB \/ Ends(s), Left(P, b, t)
    PROVE  BInv'
<1>1. /\ instrs \in [BB -> Seq(Instr)] /\ instrs' \in [BB -> Seq(Instr)]
      /\ frames \in Seq(FrameRec) /\ frames' \in Seq(FrameRec)
      /\ nbb \in Nat /\ nbb' \in Nat /\ nbb <= MaxBB /\ currentFunc # GlobalFunc
      /\ WellNested(frames, nbb)
  <2>1. /\ instrs \in [BB -> Seq(Instr)] /\ frames \in Seq(FrameRec)
        /\ nbb \in 0..MaxBB /\ currentFunc # GlobalFunc
    BY FuncAssumption DEF IInv, TypeOK
  <2>2. instrs' \in [BB -> Seq(Instr)] /\ frames' \in Seq(FrameRec) /\ nbb' \in 0..MaxBB
    BY DEF IInv, TypeOK
  <2>3. WellNested(frames, nbb)
    BY DEF IInv, HandlersNested
  <2> QED
    BY <2>1, <2>2, <2>3, MaxBBAssumption
<1>2. insertBB \in BB /\ owner[insertBB] = currentFunc
  BY DEF IInv, TypeOK, InCurrentFunc, NoBB
<1>3. /\ k \in Nat /\ k >= 1 /\ k <= Len(frames) /\ Len(frames) \in Nat
      /\ Len(frames') \in Nat /\ k <= Len(frames')
      /\ \A i \in 1..k : frames'[i].kind = frames[i].kind /\ frames'[i].bb = frames[i].bb
  BY <1>1 DEF Keeps
<1>4. FreshBlocks /\ PendingBlocks /\ LoopHeads /\ GlobalBlock /\ Terminated /\ Targeted
  BY DEF BInv
<1>5. \A u \in Waiting(frames, 0) : u <= nbb /\ owner[u] = NoFunc
  BY <1>4 DEF PendingBlocks
<1>6. /\ Waiting(frames, 0) = Below(frames, k) \cup Waiting(frames, k)
      /\ Waiting(frames', 0) = Below(frames', k) \cup Waiting(frames', k)
  BY <1>3, WaitingSplit
<1>7. \A i \in 1..k : ToInsert(frames'[i]) = ToInsert(frames[i])
  BY <1>3, ToInsertSame
<1>8. Below(frames', k) = Below(frames, k)
  BY <1>3, <1>7, BelowSame
<1>9. Inserts(P)
  <2>1. ASSUME NEW u \in P
        PROVE  owner[u] = NoFunc /\ u <= nbb'
    <3>1. CASE nbb < u /\ u <= nbb'
      BY <1>4, <3>1 DEF FreshBlocks
    <3>2. CASE u \in Waiting(frames, k)
      <4>1. u \in Nat /\ u <= nbb /\ owner[u] = NoFunc
        BY <1>5, <1>6, <3>2 DEF BB
      <4> QED
        BY <1>1, <4>1
    <3> QED
      BY <3>1, <3>2 DEF Due
  <2> QED
    BY <2>1 DEF Inserts
<1>10. /\ Extends(instrs, instrs')
       /\ SameBut(instrs, instrs', {insertBB, b})
       /\ AddsOnly(instrs, instrs', insertBB, s, b, t)
       /\ s # <<>> => s[Len(s)] \in Elems(instrs'[insertBB])
       /\ b \in BB /\ t # <<>> => t[Len(t)] \in Elems(instrs'[b])
  <2>1. b \in BB \cup {NoBB}
    OBVIOUS
  <2> QED
    BY <1>2, <2>1, Appended
<1>11. FreshBlocks'
  <2>1. \A x \in {insertBB, b} \cap BB : owner'[x] # NoFunc
    BY <1>2, <1>9, InsertsOwner DEF BB, NoBB
  <2>2. \A x \in BB : x \notin {insertBB, b} => instrs'[x] = instrs[x]
    BY <1>10 DEF SameBut
  <2> QED
    BY <1>1, <1>4, <1>9, <2>1, <2>2, InsertsFresh
<1>12. PendingBlocks'
  <2>1. \A u \in P : nbb < u \/ u \in Waiting(frames, k)
    BY DEF Due
  <2>2. ASSUME NEW u \in Waiting(frames', k)
        PROVE  /\ u \in BB /\ u \notin P /\ u <= nbb'
               /\ nbb < u \/ u \in Waiting(frames, k)
    <3>1. u \in BB /\ u \notin P /\ u \in Nat
      BY DEF BB
    <3>2. (nbb < u /\ u <= nbb') \/ u \in Waiting(frames, k)
      BY DEF Due
    <3>3. u \in Waiting(frames, k) => u <= nbb
      BY <1>5, <1>6
    <3> QED
      BY <1>1, <3>1, <3>2, <3>3
  <2> QED
    BY <1>1, <1>3, <1>4, <1>7, <1>9, <2>1, <2>2, InsertsPending
<1>13. LoopHeads'
  <2>1. \A i \in (k + 1)..Len(frames') :
           frames'[i].kind = "for" => frames'[i].bb + 1 \in P /\ frames'[i].bb + 1 \in BB
    BY DEF Heads
  <2> QED
    BY <1>1, <1>3, <1>4, <1>9, <2>1, InsertsHeads
<1>14. GlobalBlock'
  <2>1. Len(frames) > 0 /\ Len(frames') > 0 /\ frames'[1].bb = frames[1].bb
    BY <1>3
  <2> QED
    BY <1>1, <1>4, <1>9, <2>1, InsertsGlobal
<1>15. Terminated'
  <2>1. insertBB # insertBB' => \E i \in Elems(instrs'[insertBB]) : IsTerm(i)
    BY <1>10 DEF Ends
  <2>2. \A x \in P : x = insertBB' \/ \E i \in Elems(instrs'[x]) : IsTerm(i)
    BY <1>10 DEF Ends, Left
  <2>3. \A x \in P \cup {insertBB} :
           x = insertBB' \/ \E i \in Elems(instrs'[x]) : IsTerm(i)
    BY <2>1, <2>2
  <2> QED
    BY <1>1, <1>4, <1>9, <1>10, <2>3, InsertsTerminated
<1>16. Targeted'
  <2>1. \A u \in Waiting(frames, 0) : u \in P \/ u \in Waiting(frames', 0)
    BY <1>6, <1>8
  <2>2. ASSUME NEW x \in BB, NEW i \in Elems(instrs'[x]), i \notin Elems(instrs[x])
        PROVE  /\ x \in P \/ owner[x] = currentFunc
               /\ \A u \in i.to :
                     u \in P \/ u \in Waiting(frames', 0) \/ owner[u] = currentFunc
    <3>1. (x = insertBB /\ i \in Elems(s)) \/ (x = b /\ i \in Elems(t))
      BY <1>10, <2>2 DEF AddsOnly
    <3>2. x \in P \/ owner[x] = currentFunc
      BY <1>2, <3>1 DEF BB, NoBB
    <3>3. \A u \in i.to : u \in P \/ u \in Waiting(frames', k) \/ owner[u] = currentFunc
      BY <3>1 DEF Goes, Reachable
    <3> QED
      BY <1>6, <3>2, <3>3
  <2> QED
    BY <1>1, <1>4, <1>9, <2>1, <2>2, InsertsTargeted
<1>17. BuilderPlaced'
  BY FuncAssumption DEF IInv, TypeOK, InCurrentFunc, BuilderPlaced
<1> QED
  BY <1>11, <1>12, <1>13, <1>14, <1>15, <1>16, <1>17 DEF BInv

----------------------------------------------------------------------------
\* The steps that branch.

LEMMA WaitingNone ==
    ASSUME NEW fr, NEW k \in Nat, Len(fr) = k
    PROVE  Waiting(fr, k) = {} /\ InsertedOnce(fr, k)
<1>1. (k + 1)..Len(fr) = {}
  OBVIOUS
<1> QED
  BY <1>1, Zenon DEF Waiting, InsertedOnce

LEMMA WaitingOne ==
    ASSUME NEW fr, NEW k \in Nat, Len(fr) = k + 1
    PROVE  Waiting(fr, k) = ToInsert(fr[k + 1]) /\ InsertedOnce(fr, k)
<1>1. (k + 1)..Len(fr) = {k + 1}
  OBVIOUS
<1> QED
  BY <1>1, Zenon DEF Waiting, InsertedOnce

\* A handler that has called one that inserts no block.
LEMMA WaitingTwo ==
    ASSUME NEW fr, NEW k \in Nat, Len(fr) = k + 2, ToInsert(fr[k + 2]) = {}
    PROVE  Waiting(fr, k) = ToInsert(fr[k + 1]) /\ InsertedOnce(fr, k)
<1>1. (k + 1)..Len(fr) = {k + 1, k + 2}
  OBVIOUS
<1>2. Waiting(fr, k) = ToInsert(fr[k + 1])
  BY <1>1, Zenon DEF Waiting
<1>3. InsertedOnce(fr, k)
  BY <1>1, Zenon DEF InsertedOnce
<1> QED
  BY <1>2, <1>3

\* Appending nothing nowhere.
LEMMA EmitNowhere == \A c : Emit(c, NoBB, <<>>) = c
BY DEF Emit

\* The top handler calls handler h.
Calls(h) == frames' = Append(Took(TRUE), h)

LEMMA CallsFacts ==
    ASSUME IInv, AnyStmt, NEW h \in FrameRec, Calls(h)
    PROVE  /\ Len(frames') = Len(frames) + 1 /\ frames'[Len(frames) + 1] = h
           /\ \A i \in 1..Len(frames) :
                 frames'[i].kind = frames[i].kind /\ frames'[i].bb = frames[i].bb
<1> DEFINE fr == Took(TRUE)
           gr == Append(fr, h)
<1>1. Running /\ InStmts
  BY DEF AnyStmt, StmtPosition
<1>2. /\ fr \in Seq(FrameRec) /\ Len(fr) = Len(frames)
      /\ \A i \in 1..Len(frames) : fr[i].kind = frames[i].kind /\ fr[i].bb = frames[i].bb
  BY <1>1, StmtFacts
<1> HIDE DEF fr
<1>3. /\ Len(gr) = Len(fr) + 1 /\ gr[Len(gr)] = h
      /\ \A i \in 1..Len(fr) : gr[i] = fr[i]
  BY <1>2, Pushed
<1> HIDE DEF gr
<1>4. frames' = gr
  BY DEF Calls, fr, gr
<1> QED
  BY <1>2, <1>3, <1>4

\* A statement that opens a scope branches to the block of the scope.
LEMMA BeginBranch ==
    ASSUME IInv, IInv', BInv, AnyStmt, NEW kind \in {"block", "then", "forinit"},
           NEW b, b = nbb + 1, nbb' = b + Ahead(kind), Place(b), currentFunc' = currentFunc,
           Calls(Frame(kind, b)),
           NEW s \in Seq(Instr), Ends(s),
           instrs' = Emit(instrs, insertBB, s),
           Goes(s, {b} \cup ToInsert(Frame(kind, b)))
    PROVE  BInv'
<1> DEFINE n  == Len(frames)
           h  == Frame(kind, b)
<1>1. Running /\ InStmts
  BY DEF AnyStmt, StmtPosition
<1>2. /\ status = "running" /\ Top.kind \notin {"prog", "params", "for"}
  BY <1>1, StmtFacts
<1>3. n \in Nat /\ n > 1 /\ currentFunc # NoFunc
  BY <1>2, TopFacts
<1>4. /\ nbb \in Nat /\ nbb' \in Nat /\ nbb' <= MaxBB /\ b \in BB /\ Ahead(kind) \in Nat
  BY AheadType, MaxBBAssumption DEF IInv, TypeOK, BB
<1>5. h \in FrameRec /\ h.kind = kind /\ h.bb = b
  BY <1>4, FrameType DEF FrameKinds, ListKinds
<1>6. /\ Len(frames') = n + 1 /\ frames'[n + 1] = h
      /\ \A i \in 1..n : frames'[i].kind = frames[i].kind /\ frames'[i].bb = frames[i].bb
  BY <1>5, CallsFacts
<1> HIDE DEF h
<1>7. Waiting(frames', n) = ToInsert(h) /\ InsertedOnce(frames', n)
  BY <1>3, <1>6, WaitingOne
<1>8. Waiting(frames, n) = {}
  BY <1>3, WaitingNone
<1>9. \A u \in ToInsert(h) : u \in BB /\ nbb < u /\ u <= nbb' /\ u # b
  <2>1. CASE kind = "block"
    BY <1>5, <2>1 DEF ToInsert
  <2>2. CASE kind = "then"
    <3>1. ToInsert(h) = {b + 1, b + 2} /\ nbb' = b + 2
      BY <1>5, <2>2 DEF ToInsert, Ahead
    <3> QED
      BY <1>4, <3>1, MaxBBAssumption DEF BB
  <2>3. CASE kind = "forinit"
    <3>1. ToInsert(h) = {b + 1, b + 2, b + 3, b + 4} /\ nbb' = b + 4
      BY <1>5, <2>3 DEF ToInsert, Ahead
    <3> QED
      BY <1>4, <3>1, MaxBBAssumption DEF BB
  <2> QED
    BY <2>1, <2>2, <2>3
<1>10. Due({b}, n) /\ Due(Waiting(frames', n), n) /\ nbb <= nbb'
  <2>1. nbb < b /\ b <= nbb' /\ nbb <= nbb'
    BY <1>4
  <2> QED
    BY <1>7, <1>9, <2>1 DEF Due
<1>11. instrs' = Emit(Emit(instrs, insertBB, s), NoBB, <<>>) /\ <<>> \in Seq(Instr)
  BY EmitNowhere
<1>12. owner' = [x \in BB |-> IF x \in {b} THEN currentFunc ELSE owner[x]] /\ insertBB' = b
  BY <1>4 DEF Place, IInv, TypeOK
<1>13. Goes(s, Reachable({b}, n)) /\ Goes(<<>>, Reachable({b}, n))
  BY <1>7, NoElem DEF h, Goes, Reachable
<1>14. Heads({b}, n)
  <2>1. \A i \in (n + 1)..Len(frames') : i = n + 1
    BY <1>3, <1>6
  <2> QED
    BY <1>5, <1>6, <2>1 DEF Heads
<1>15. Keeps(n)
  <2>1. n \in 1..n /\ n <= Len(frames')
    BY <1>3, <1>6
  <2> QED
    BY <1>6, <2>1 DEF Keeps
<1>16. Left({b}, NoBB, <<>>)
  BY <1>12 DEF Left
<1>17. /\ {b} \in SUBSET BB /\ Waiting(frames', n) \subseteq BB \ {b}
       /\ NoBB \in {b} \cup {NoBB}
       /\ Waiting(frames, n) \subseteq {b} \cup Waiting(frames', n)
  BY <1>4, <1>7, <1>8, <1>9
<1> HIDE DEF n
<1> QED
  BY <1>3, <1>7, <1>10, <1>11, <1>12, <1>13, <1>14, <1>15, <1>16, <1>17, BranchStep

\* One branch, as the last instruction.
LEMMA BranchElems ==
    ASSUME NEW bl \in Seq(Scope), NEW e, ~Throws(bl, e), NEW i \in Instr, IsTerm(i), NEW S,
           i.to \subseteq S
    PROVE  LET s == Append(ExprCode(bl, e), i)
           IN  s \in Seq(Instr) /\ Ends(s) /\ Goes(s, S)
<1>1. ExprCode(bl, e) \in Seq(Instr)
  BY ExprCodeType
<1>2. \A j \in Elems(ExprCode(bl, e)) : j.to = {}
  BY ExprCodeElems
<1> DEFINE s == Append(ExprCode(bl, e), i)
<1>3. /\ s \in Seq(Instr) /\ s # <<>> /\ s[Len(s)] = i
      /\ Elems(s) = Elems(ExprCode(bl, e)) \cup {i}
  BY <1>1, AppendElems
<1> HIDE DEF s
<1>4. Goes(s, S)
  BY <1>2, <1>3 DEF Goes
<1> QED
  BY <1>3, <1>4 DEF Ends, s

LEMMA OneBranch ==
    ASSUME NEW i \in Instr, IsTerm(i), NEW S, i.to \subseteq S
    PROVE  <<i>> \in Seq(Instr) /\ Ends(<<i>>) /\ Goes(<<i>>, S)
BY OneElem DEF Ends, Goes

LEMMA TermTypes ==
    /\ IsTerm(Ret) /\ Ret.to = {}
    /\ \A u : IsTerm(Br(u)) /\ Br(u).to = {u}
    /\ \A u, v : IsTerm(CondBr(u, v)) /\ CondBr(u, v).to = {u, v}
BY DEF IsTerm, Ret, Br, CondBr

LEMMA BeginStmtBlocks ==
    ASSUME IInv, IInv', BInv, BeginBlock \/ BeginFor \/ \E c \in Exprs : BeginIf(c)
    PROVE  BInv'
<1> DEFINE b == nbb + 1
<1>1. AnyStmt /\ Place(b) /\ currentFunc' = currentFunc
  BY DEF BeginBlock, BeginFor, BeginIf, func
<1>2. nbb \in Nat /\ nbb' \in Nat /\ nbb' <= MaxBB /\ blocks \in Seq(Scope)
  BY MaxBBAssumption DEF IInv, TypeOK
<1>3. Ahead("block") = 0 /\ Ahead("then") = 2 /\ Ahead("forinit") = 4
  BY DEF Ahead
<1>4. ASSUME BeginBlock \/ BeginFor
      PROVE  BInv'
  <2>1. PICK kind \in {"block", "forinit"} : nbb' = b + Ahead(kind) /\ Calls(Frame(kind, b))
    <3>1. CASE BeginBlock
      <4>1. nbb' = b + Ahead("block")
        BY <1>2, <1>3, <3>1 DEF BeginBlock
      <4>2. Calls(Frame("block", b))
        BY <3>1 DEF BeginBlock, Calls
      <4> QED
        BY <4>1, <4>2
    <3>2. CASE BeginFor
      <4>1. nbb' = b + Ahead("forinit")
        BY <1>2, <1>3, <3>2 DEF BeginFor
      <4>2. Calls(Frame("forinit", b))
        BY <3>2 DEF BeginFor, Calls
      <4> QED
        BY <4>1, <4>2
    <3> QED
      BY <1>4, <3>1, <3>2
  <2>2. instrs' = Emit(instrs, insertBB, <<Br(b)>>)
    BY <1>4 DEF BeginBlock, BeginFor
  <2>3. b \in BB
    BY <1>2, <1>3, <2>1, MaxBBAssumption DEF BB
  <2>4. Br(b) \in Instr /\ IsTerm(Br(b)) /\ Br(b).to \subseteq {b} \cup ToInsert(Frame(kind, b))
    BY <2>3, InstrType, TermTypes
  <2>5. /\ <<Br(b)>> \in Seq(Instr) /\ Ends(<<Br(b)>>)
        /\ Goes(<<Br(b)>>, {b} \cup ToInsert(Frame(kind, b)))
    BY <2>4, OneBranch
  <2> QED
    BY <1>1, <2>1, <2>2, <2>5, BeginBranch
<1>5. ASSUME NEW c \in Exprs, BeginIf(c)
      PROVE  BInv'
  <2> DEFINE s == Append(ExprCode(blocks, c), CondBr(b, b + 1))
             h == Frame("then", b)
  <2>1. /\ nbb' = b + Ahead("then") /\ Calls(h) /\ instrs' = Emit(instrs, insertBB, s)
        /\ ~Throws(blocks, c)
    BY <1>2, <1>3, <1>5 DEF BeginIf, Calls
  <2>2. b \in BB /\ b + 1 \in BB
    BY <1>2, <1>3, <2>1, MaxBBAssumption DEF BB
  <2>3. ToInsert(h) = {b + 1, b + 2}
    <3>1. h.kind = "then" /\ h.bb = b
      BY <2>2, FrameType DEF FrameKinds
    <3> QED
      BY <3>1 DEF ToInsert
  <2>4. /\ CondBr(b, b + 1) \in Instr /\ IsTerm(CondBr(b, b + 1))
        /\ CondBr(b, b + 1).to \subseteq {b} \cup ToInsert(h)
    BY <2>2, <2>3, InstrType, TermTypes
  <2>5. s \in Seq(Instr) /\ Ends(s) /\ Goes(s, {b} \cup ToInsert(h))
    BY <1>2, <2>1, <2>4, BranchElems
  <2> HIDE DEF s
  <2> QED
    BY <1>1, <2>1, <2>5, BeginBranch
<1> QED
  BY <1>4, <1>5

\* The blocks that have been inserted into the function that is generated.
Here == {u \in BB : owner[u] = currentFunc}

\* The top handler, or a loop body and its for statement, is left.
Returns(k) == frames' = SubSeq(frames, 1, Len(frames) - k)

\* The blocks of P are what the outermost handler that is left still inserts.
Rest(P, k) == P = ToInsert(frames[Len(frames) - k + 1])

\* A loop body is left with its for statement.
LeavesTwo(k) == k = 2 <=> Top.kind = "loopbody"

\* The blocks of P are inserted, into the function that is generated.
Inserted(P) == owner' = [x \in BB |-> IF x \in P THEN currentFunc ELSE owner[x]]

\* The instructions s are appended to the insertion point, t to block b.
Appends(s, b, t) == instrs' = Emit(Emit(instrs, insertBB, s), b, t)

\* A handler that is left has inserted its blocks.
LEMMA EndBranch ==
    ASSUME IInv, IInv', BInv, Running, Top.kind \in {"block", "then", "else", "loopbody"},
           NEW k \in {1, 2}, Returns(k), LeavesTwo(k),
           nbb' = nbb, currentFunc' = currentFunc,
           NEW P \in SUBSET BB, Rest(P, k), Inserted(P),
           NEW s \in Seq(Instr), NEW b \in P \cup {NoBB}, NEW t \in Seq(Instr),
           Appends(s, b, t), Goes(s, P \cup Here), Goes(t, P \cup Here),
           insertBB' = insertBB \/ Ends(s), Left(P, b, t)
    PROVE  BInv'
<1> DEFINE n == Len(frames)
           m == n - k
<1>1. /\ status = "running" /\ currentFunc # NoFunc /\ frames \in Seq(FrameRec)
      /\ n \in Nat /\ n > 2 /\ (k = 2 => n > 3) /\ Top = frames[n] /\ nbb \in Nat
  BY CloseFacts DEF LeavesTwo
<1>2. Len(frames') = m /\ \A i \in 1..m : frames'[i] = frames[i]
  <2>1. k \in 1..Len(frames)
    BY <1>1
  <2> QED
    BY <1>1, <2>1, Popped DEF Returns
<1>3. m \in Nat /\ m >= 1 /\ m <= n /\ n = m + k
  BY <1>1
<1>4. Waiting(frames', m) = {} /\ InsertedOnce(frames', m)
  BY <1>2, <1>3, WaitingNone
<1>5. Waiting(frames, m) = P
  <2>0. n - k + 1 = m + 1 /\ P = ToInsert(frames[m + 1])
    BY <1>1, <1>3 DEF Rest
  <2>1. CASE k = 1
    BY <1>3, <2>0, <2>1, WaitingOne
  <2>2. CASE k = 2
    <3>1. ToInsert(frames[m + 2]) = {}
      <4>1. m + 2 = n
        BY <1>3, <2>2
      <4>2. Top.kind = "loopbody"
        BY <2>2 DEF LeavesTwo
      <4> QED
        BY <1>1, <4>1, <4>2 DEF ToInsert
    <3> QED
      BY <1>3, <2>0, <2>2, <3>1, WaitingTwo
  <2> QED
    BY <2>1, <2>2
<1>6. Keeps(m)
  BY <1>2, <1>3 DEF Keeps
<1>7. Due(P, m) /\ Due(Waiting(frames', m), m) /\ nbb <= nbb'
  BY <1>1, <1>4, <1>5 DEF Due
<1>8. Heads(P, m)
  BY <1>2, <1>3 DEF Heads
<1>9. Goes(s, Reachable(P, m)) /\ Goes(t, Reachable(P, m))
  BY <1>4 DEF Reachable, Goes, Here
<1>10. /\ Waiting(frames', m) \subseteq BB \ P
       /\ Waiting(frames, m) \subseteq P \cup Waiting(frames', m)
  BY <1>4, <1>5
<1> HIDE DEF m
<1> QED
  BY <1>1, <1>4, <1>6, <1>7, <1>8, <1>9, <1>10, BranchStep DEF Inserted, Appends

LEMMA EndStmtBlocks ==
    ASSUME IInv, IInv', BInv, EndBlock \/ EndThen \/ EndElse
    PROVE  BInv'
<1> DEFINE b == Top.bb
           P == ToInsert(frames[Len(frames) - 1 + 1])
<1>1. Running /\ Top.kind \in {"block", "then", "else"}
  BY DEF EndBlock, EndThen, EndElse
<1>2. /\ b \in BB /\ b + Ahead(Top.kind) <= MaxBB /\ Top = frames[Len(frames)]
      /\ Len(frames) \in Nat /\ Len(frames) > 2
  BY <1>1, CloseFacts
<1>3. P = ToInsert(Top)
  <2>1. Len(frames) - 1 + 1 = Len(frames)
    BY <1>2
  <2> QED
    BY <1>2, <2>1
<1>4. Returns(1) /\ nbb' = nbb /\ currentFunc' = currentFunc /\ LeavesTwo(1) /\ Rest(P, 1)
  BY <1>1 DEF EndBlock, EndThen, EndElse, Returns, PopFrame, func, code, LeavesTwo, Rest
<1>5. owner \in Owners
  BY DEF IInv, TypeOK, Owners
<1> HIDE DEF P
<1>6. CASE EndBlock
  <2>1. P = {}
    BY <1>3, <1>6 DEF EndBlock, ToInsert
  <2>2. Appends(<<>>, NoBB, <<>>)
    <3>1. Emit(instrs, insertBB, <<>>) = instrs
      <4>1. instrs \in [BB -> Seq(Instr)] /\ insertBB \in BB \cup {NoBB}
        BY DEF IInv, TypeOK
      <4>2. insertBB \in BB => instrs[insertBB] \o <<>> = instrs[insertBB]
        BY <4>1, ConcatEmptySeq
      <4> QED
        BY <4>1, <4>2 DEF Emit
    <3> QED
      BY <1>6, <3>1, EmitNowhere DEF EndBlock, code, Appends
  <2>3. Inserted(P) /\ insertBB' = insertBB
    BY <1>5, <1>6, <2>1 DEF EndBlock, code, Owners, Inserted
  <2>4. <<>> \in Seq(Instr) /\ Goes(<<>>, P \cup Here) /\ Left(P, NoBB, <<>>)
    BY <2>1, NoElem DEF Goes, Left
  <2> QED
    BY <1>1, <1>3, <1>4, <2>1, <2>2, <2>3, <2>4, EndBranch
<1>7. CASE EndThen
  <2>1. P = {b + 1, b + 2}
    BY <1>3, <1>7 DEF EndThen, ToInsert
  <2>2. b + 1 \in BB /\ b + 2 \in BB
    BY <1>2, <1>7, MaxBBAssumption DEF EndThen, Ahead, BB
  <2> DEFINE s == <<Br(b + 2)>>
  <2>3. Appends(s, b + 1, s)
    BY <1>7 DEF EndThen, Appends
  <2>4. Inserted(P) /\ insertBB' = b + 2
    BY <1>5, <1>7, <2>1, <2>2 DEF EndThen, Owners, Inserted
  <2>5. s \in Seq(Instr) /\ Ends(s) /\ Goes(s, P \cup Here)
    BY <2>1, <2>2, InstrType, TermTypes, OneBranch
  <2> HIDE DEF s
  <2>6. Left(P, b + 1, s) /\ P \in SUBSET BB /\ b + 1 \in P \cup {NoBB}
    BY <2>1, <2>2, <2>4, <2>5 DEF Left
  <2> QED
    BY <1>1, <1>3, <1>4, <2>3, <2>4, <2>5, <2>6, EndBranch
<1>8. CASE EndElse
  <2>1. P = {b + 1}
    BY <1>3, <1>8 DEF EndElse, ToInsert
  <2>2. b + 1 \in BB
    BY <1>2, <1>8, MaxBBAssumption DEF EndElse, Ahead, BB
  <2> DEFINE s == <<Br(b + 1)>>
  <2>3. Appends(s, NoBB, <<>>)
    BY <1>8, EmitNowhere DEF EndElse, Appends
  <2>4. Inserted(P) /\ insertBB' = b + 1
    BY <1>5, <1>8, <2>1, <2>2 DEF EndElse, Place, Owners, Inserted
  <2>5. s \in Seq(Instr) /\ Ends(s) /\ Goes(s, P \cup Here)
    BY <2>1, <2>2, InstrType, TermTypes, OneBranch
  <2> HIDE DEF s
  <2>6. <<>> \in Seq(Instr) /\ Goes(<<>>, P \cup Here)
    BY NoElem DEF Goes
  <2>7. Left(P, NoBB, <<>>) /\ P \in SUBSET BB
    BY <2>1, <2>2, <2>4 DEF Left
  <2> QED
    BY <1>1, <1>3, <1>4, <2>3, <2>4, <2>5, <2>6, <2>7, EndBranch
<1> QED
  BY <1>6, <1>7, <1>8

LEMMA EndForBlocks ==
    ASSUME IInv, IInv', BInv, NEW c \in Exprs \cup {NoExpr}, EndFor(c)
    PROVE  BInv'
<1> DEFINE n == Len(frames)
           b == frames[n - 1].bb
           loop == PopBasicBlock(blocks)
           P == ToInsert(frames[n - 2 + 1])
           s == <<Br(b + 3)>>
           t == Append(ExprCode(loop, c), Br(b + 1))
<1>1. Running /\ Top.kind = "loopbody"
  BY DEF EndFor
<1>2. /\ frames \in Seq(FrameRec) /\ n \in Nat /\ n > 3 /\ frames[n - 1].kind = "for"
      /\ blocks \in Seq(Scope) /\ Len(blocks) = n
  BY <1>1, CloseFacts
<1>3. n - 1 \in 1..n /\ n - 2 + 1 = n - 1
  BY <1>2
<1>4. P = {b + 3, b + 4}
  <2>1. P = ToInsert(frames[n - 1])
    BY <1>3
  <2> QED
    BY <1>2, <2>1 DEF ToInsert
<1>5. b + 1 \in BB /\ b + 3 \in BB /\ b + 4 \in BB
  <2>1. b \in BB
    <3>1. frames[n - 1] \in FrameRec
      BY <1>2, <1>3, ElementOfSeq
    <3> QED
      BY <3>1 DEF FrameRec
  <2>2. b + Ahead(frames[n - 1].kind) <= nbb
    BY <1>3 DEF IInv, HandlersNested, WellNested
  <2>3. b + 4 <= nbb /\ nbb \in 0..MaxBB
    BY <1>2, <2>2, AheadOf DEF IInv, TypeOK
  <2> HIDE DEF b
  <2> QED
    BY <2>1, <2>3, BlocksAhead
<1>6. b + 1 \in Here
  BY <1>2, <1>3, <1>5 DEF BInv, LoopHeads, Here
<1>7. /\ Appends(s, b + 3, t) /\ ~Throws(loop, c) /\ Rest(P, 2) /\ LeavesTwo(2)
      /\ Returns(2) /\ nbb' = nbb /\ currentFunc' = currentFunc /\ insertBB' = b + 4
  BY <1>1 DEF EndFor, Returns, func, Appends, Rest, LeavesTwo
<1>8. loop \in Seq(Scope)
  BY <1>2, Popped DEF PopBasicBlock
<1> HIDE DEF b, loop, P
<1>9. s \in Seq(Instr) /\ Ends(s) /\ Goes(s, P \cup Here)
  BY <1>4, <1>5, InstrType, TermTypes, OneBranch
<1>10. t \in Seq(Instr) /\ Ends(t) /\ Goes(t, P \cup Here)
  BY <1>5, <1>6, <1>7, <1>8, InstrType, TermTypes, BranchElems
<1> HIDE DEF s, t
<1>11. Inserted(P)
  BY <1>4, <1>5 DEF EndFor, IInv, TypeOK, b, Inserted
<1>12. Left(P, b + 3, t) /\ P \in SUBSET BB /\ b + 3 \in P \cup {NoBB}
  BY <1>4, <1>5, <1>7, <1>10 DEF Left
<1> QED
  BY <1>1, <1>7, <1>9, <1>10, <1>11, <1>12, EndBranch

LEMMA LastTwo ==
    ASSUME NEW m \in Nat
    PROVE  (m + 1)..(m + 1) = {m + 1} /\ (m + 1)..(m + 2) = {m + 1, m + 2}
OBVIOUS

\* The else block takes the place of the then block; the merge block waits.
LEMMA ThenElseBlocks ==
    ASSUME IInv, IInv', BInv, ThenElse
    PROVE  BInv'
<1> DEFINE b == Top.bb
           n == Len(frames)
           m == n - 1
           e == Frame("else", b + 1)
           P == {b + 1}
           s == <<Br(b + 2)>>
<1>1. Running /\ Top.kind = "then"
  BY DEF ThenElse
<1>2. /\ frames \in Seq(FrameRec) /\ n \in Nat /\ n > 2 /\ Top = frames[n]
      /\ b \in BB /\ nbb \in Nat /\ currentFunc # NoFunc
      /\ b + Ahead(Top.kind) <= MaxBB
  BY <1>1, CloseFacts
<1>3. b + 1 \in BB /\ b + 2 \in BB
  BY <1>1, <1>2, MaxBBAssumption DEF BB, Ahead
<1>4. e \in FrameRec /\ e.kind = "else" /\ e.bb = b + 1
  BY <1>3, FrameType DEF FrameKinds
<1>5. m \in Nat /\ n = m + 1 /\ m \in 1..n
  BY <1>2
<1>6. Len(frames') = m + 1 /\ frames'[m + 1] = e /\ \A i \in 1..m : frames'[i] = frames[i]
  <2> DEFINE fr == PopFrame
  <2>1. fr \in Seq(FrameRec) /\ Len(fr) = m /\ \A i \in 1..m : fr[i] = frames[i]
    BY <1>2, <1>5, Popped DEF PopFrame
  <2>2. frames' = Append(fr, e)
    BY DEF ThenElse
  <2> HIDE DEF fr, e
  <2> QED
    BY <1>4, <2>1, <2>2, Pushed
<1> HIDE DEF e
<1>7. Waiting(frames, m) = {b + 1, b + 2}
  <2>1. ToInsert(frames[m + 1]) = {b + 1, b + 2}
    BY <1>1, <1>2, <1>5 DEF ToInsert
  <2> QED
    BY <1>5, <2>1, WaitingOne
<1>8. Waiting(frames', m) = {b + 2} /\ InsertedOnce(frames', m)
  <2>1. ToInsert(frames'[m + 1]) = {b + 2}
    <3>1. b + 1 + 1 = b + 2
      BY <1>2 DEF BB
    <3> QED
      BY <1>4, <1>6, <3>1 DEF ToInsert
  <2> QED
    BY <1>5, <1>6, <2>1, WaitingOne
<1>9. Keeps(m)
  BY <1>5, <1>6 DEF Keeps
<1>10. nbb' = nbb /\ nbb <= nbb' /\ currentFunc' = currentFunc /\ insertBB' = b + 1
  BY <1>2 DEF ThenElse, func, Place
<1>11. Due(P, m) /\ Due(Waiting(frames', m), m)
  BY <1>7, <1>8 DEF Due
<1>12. Heads(P, m)
  <2>1. (m + 1)..Len(frames') = {m + 1}
    BY <1>5, <1>6, LastTwo, Zenon
  <2> QED
    BY <1>4, <1>6, <2>1 DEF Heads
<1>13. s \in Seq(Instr) /\ Ends(s) /\ Goes(s, Reachable(P, m))
  <2>1. b + 2 \in Reachable(P, m)
    BY <1>8 DEF Reachable
  <2> QED
    BY <1>3, <2>1, InstrType, TermTypes, OneBranch
<1>14. <<>> \in Seq(Instr) /\ Goes(<<>>, Reachable(P, m)) /\ Left(P, NoBB, <<>>)
  BY <1>10, NoElem DEF Goes, Left
<1>15. Appends(s, NoBB, <<>>)
  BY EmitNowhere DEF ThenElse, Appends
<1>16. Inserted(P)
  BY <1>3 DEF ThenElse, Place, IInv, TypeOK, Inserted
<1>17. /\ P \in SUBSET BB /\ NoBB \in P \cup {NoBB}
       /\ Waiting(frames', m) \subseteq BB \ P
       /\ Waiting(frames, m) \subseteq P \cup Waiting(frames', m)
  BY <1>2, <1>3, <1>7, <1>8 DEF BB
<1> HIDE DEF s, P, m
<1> QED
  BY <1>2, <1>8, <1>9, <1>10, <1>11, <1>12, <1>13, <1>14, <1>15, <1>16, <1>17, BranchStep
     DEF Inserted, Appends

\* The condition of a for statement is inserted and left for the loop body.
LEMMA ForConditionBlocks ==
    ASSUME IInv, IInv', BInv, NEW c \in Exprs \cup {NoExpr}, ForCondition(c)
    PROVE  BInv'
<1> DEFINE b == Top.bb
           n == Len(frames)
           m == n - 1
           h == [Top EXCEPT !.kind = "for", !.branched = TRUE]
           e == Frame("loopbody", b + 2)
           P == {b + 1, b + 2}
           exit == IF c = NoExpr THEN Br(b + 2) ELSE CondBr(b + 2, b + 4)
           s == <<Br(b + 1)>>
           t == Append(ExprCode(blocks, c), exit)
<1>1. status = "running" /\ Top.kind = "forinit" /\ ~Throws(blocks, c)
  BY DEF ForCondition, Running
<1>2. /\ frames \in Seq(FrameRec) /\ blocks \in Seq(Scope) /\ nbb \in 0..MaxBB
      /\ n \in Nat /\ n > 1 /\ currentFunc # NoFunc
      /\ Top = frames[n] /\ Top \in FrameRec /\ b + Ahead(Top.kind) <= nbb
  <2>1. nbb \in 0..MaxBB
    BY DEF IInv, TypeOK
  <2> QED
    BY <1>1, <2>1, TopFacts
<1>3. /\ b \in BB /\ b + 1 \in BB /\ b + 2 \in BB /\ b + 3 \in BB /\ b + 4 \in BB /\ nbb \in Nat
  <2>1. b \in BB /\ b + 4 <= nbb
    BY <1>1, <1>2, AheadOf DEF FrameRec
  <2> HIDE DEF b
  <2> QED
    BY <1>2, <2>1, BlocksAhead
<1>4. h \in FrameRec /\ h.kind = "for" /\ h.bb = b
  BY <1>2 DEF FrameRec, FrameKinds
<1>5. e \in FrameRec /\ e.kind = "loopbody" /\ e.bb = b + 2
  BY <1>3, FrameType DEF FrameKinds
<1>6. m \in Nat /\ n = m + 1 /\ m \in 1..n /\ n \in 1..n
  BY <1>2
<1>7. /\ Len(frames') = m + 2 /\ frames'[m + 1] = h /\ frames'[m + 2] = e
      /\ \A i \in 1..m : frames'[i] = frames[i]
  <2> DEFINE fr == [frames EXCEPT ![n] = h]
  <2>1. frames' = Append(fr, e)
    BY DEF ForCondition
  <2> HIDE DEF h, e
  <2>2. /\ fr \in Seq(FrameRec) /\ Len(fr) = n
        /\ \A i \in 1..n : fr[i] = IF i = n THEN h ELSE frames[i]
    BY <1>2, <1>4, <1>6, ExceptSeq
  <2> HIDE DEF fr
  <2>3. /\ Len(frames') = n + 1 /\ frames'[n + 1] = e
        /\ \A i \in 1..n : frames'[i] = fr[i]
    BY <1>5, <2>1, <2>2, Pushed
  <2>4. fr[n] = h /\ \A i \in 1..m : fr[i] = frames[i]
    <3>1. n \in 1..n /\ \A i \in 1..m : i \in 1..n /\ i # n
      BY <1>2
    <3> QED
      BY <2>2, <3>1, Zenon
  <2>5. frames'[n] = h /\ \A i \in 1..m : frames'[i] = frames[i]
    BY <1>6, <2>3, <2>4
  <2>6. n + 1 = m + 2
    BY <1>6
  <2> QED
    BY <1>6, <2>3, <2>5, <2>6, Zenon
<1> HIDE DEF h, e
<1>8. Waiting(frames, m) = {b + 1, b + 2, b + 3, b + 4}
  <2>1. ToInsert(frames[m + 1]) = {b + 1, b + 2, b + 3, b + 4}
    BY <1>1, <1>2, <1>6 DEF ToInsert
  <2> QED
    BY <1>6, <2>1, WaitingOne
<1>9. Waiting(frames', m) = {b + 3, b + 4} /\ InsertedOnce(frames', m)
  <2>1. ToInsert(frames'[m + 1]) = {b + 3, b + 4} /\ ToInsert(frames'[m + 2]) = {}
    BY <1>4, <1>5, <1>7 DEF ToInsert
  <2> QED
    BY <1>6, <1>7, <2>1, WaitingTwo
<1>10. Keeps(m)
  BY <1>6, <1>7 DEF Keeps
<1>11. nbb' = nbb /\ nbb <= nbb' /\ currentFunc' = currentFunc /\ insertBB' = b + 2
  BY <1>3 DEF ForCondition, func
<1>12. Due(P, m) /\ Due(Waiting(frames', m), m)
  BY <1>8, <1>9 DEF Due
<1>13. Heads(P, m)
  <2>1. (m + 1)..Len(frames') = {m + 1, m + 2}
    BY <1>6, <1>7, LastTwo, Zenon
  <2> QED
    BY <1>4, <1>5, <1>7, <2>1 DEF Heads
<1>14. {b + 1, b + 2, b + 4} \subseteq Reachable(P, m)
  BY <1>9 DEF Reachable
<1>15. s \in Seq(Instr) /\ Ends(s) /\ Goes(s, Reachable(P, m))
  BY <1>3, <1>14, InstrType, TermTypes, OneBranch
<1>16. t \in Seq(Instr) /\ Ends(t) /\ Goes(t, Reachable(P, m))
  <2>1. exit \in Instr /\ IsTerm(exit) /\ exit.to \subseteq Reachable(P, m)
    BY <1>3, <1>14, InstrType, TermTypes
  <2> HIDE DEF exit
  <2> QED
    BY <1>1, <1>2, <2>1, BranchElems
<1>17. Appends(s, b + 1, t)
  BY DEF ForCondition, Appends
<1>18. Inserted(P)
  BY <1>3 DEF ForCondition, IInv, TypeOK, Inserted
<1>19. /\ P \in SUBSET BB /\ b + 1 \in P \cup {NoBB}
       /\ Waiting(frames', m) \subseteq BB \ P
       /\ Waiting(frames, m) \subseteq P \cup Waiting(frames', m)
  <2>1. b \in Nat
    BY <1>3 DEF BB
  <2>2. {b + 3, b + 4} \cap {b + 1, b + 2} = {}
    BY <2>1
  <2> QED
    BY <1>3, <1>8, <1>9, <2>2
<1> HIDE DEF s, t
<1>20. Left(P, b + 1, t)
  BY <1>11, <1>16 DEF Left
<1> HIDE DEF P, m
<1> QED
  BY <1>2, <1>9, <1>10, <1>11, <1>12, <1>13, <1>15, <1>16, <1>17, <1>18, <1>19, <1>20, BranchStep
     DEF Inserted, Appends

----------------------------------------------------------------------------
\* The steps that do not branch.

\* The instructions of s branch nowhere.
Straight(s) == \A i \in Elems(s) : i.to = {}

\* A block that belongs to a function, or none.
Placed(x) == x \in BB \cup {NoBB} /\ (x \in BB => owner[x] # NoFunc)

\* Instructions that branch nowhere, appended at two places.
LEMMA PlainAppended ==
    ASSUME IInv, NEW a, Placed(a), NEW b, Placed(b),
           NEW s \in Seq(Instr), NEW t \in Seq(Instr), Straight(s), Straight(t),
           NEW d, d = instrs', d = Emit(Emit(instrs, a, s), b, t)
    PROVE  AddsPlain
<1>1. instrs \in [BB -> Seq(Instr)] /\ a \in BB \cup {NoBB} /\ b \in BB \cup {NoBB}
  BY DEF IInv, TypeOK, Placed
<1>2. Extends(instrs, d) /\ SameBut(instrs, d, {a, b}) /\ AddsOnly(instrs, d, a, s, b, t)
  BY <1>1, EmitTwiceAdds
<1>3. \A x \in BB : owner[x] = NoFunc => d[x] = instrs[x]
  BY <1>2 DEF SameBut, Placed
<1>4. \A x \in BB : \A i \in Elems(d[x]) : i \in Elems(instrs[x]) \/ i.to = {}
  BY <1>2 DEF AddsOnly, Straight
<1> QED
  BY <1>2, <1>3, <1>4 DEF AddsPlain

\* The block that variables are declared in, and that of the Builder.
LEMMA PlacesKnown ==
    ASSUME IInv, BInv, status = "running"
    PROVE  Placed(GetCurrentBlock) /\ Placed(insertBB) /\ Placed(NoBB) /\ GetCurrentBlock \in BB
<1>1. /\ frames # <<>> /\ frames \in Seq(FrameRec) /\ Len(frames) \in 1..Len(frames)
      /\ Len(blocks) = Len(frames) /\ GetCurrentBlock \in BB
      /\ Top.kind = "prog" => Len(frames) = 1
      /\ Top.kind # "prog" => Len(frames) > 1 /\ currentFunc # NoFunc
  BY TopFacts
<1>2. owner[GetCurrentBlock] # NoFunc
  <2>1. CASE Top.kind = "prog"
    <3>1. GetCurrentBlock = frames[1].bb
      BY <1>1, <2>1 DEF GetCurrentBlock, IInv, StackDiscipline
    <3> QED
      BY <1>1, <3>1, FuncAssumption DEF BInv, GlobalBlock
  <2>2. CASE Top.kind # "prog"
    <3>1. Len(blocks) \in 2..Len(blocks)
      BY <1>1, <2>2
    <3> QED
      BY <1>1, <2>2, <3>1 DEF GetCurrentBlock, IInv, InCurrentFunc
  <2> QED
    BY <2>1, <2>2
<1>3. Placed(insertBB)
  BY DEF IInv, TypeOK, BInv, BuilderPlaced, Placed, BB, NoBB
<1> QED
  BY <1>1, <1>2, <1>3 DEF Placed, BB, NoBB

\* The same handlers, with the same blocks, insert the same blocks.
LEMMA WaitingAsBefore ==
    ASSUME Len(frames') = Len(frames),
           \A i \in 1..Len(frames) :
              frames'[i].kind = frames[i].kind /\ frames'[i].bb = frames[i].bb
    PROVE  StillWaiting
BY ToInsertSame DEF StillWaiting

LEMMA StraightCode ==
    ASSUME NEW bl \in Seq(Scope), NEW e, ~Throws(bl, e), NEW i \in Instr, i.to = {}
    PROVE  /\ ExprCode(bl, e) \in Seq(Instr) /\ Straight(ExprCode(bl, e))
           /\ Append(ExprCode(bl, e), i) \in Seq(Instr)
           /\ Straight(Append(ExprCode(bl, e), i))
           /\ <<i>> \in Seq(Instr) /\ Straight(<<i>>)
           /\ <<>> \in Seq(Instr) /\ Straight(<<>>)
<1>1. ExprCode(bl, e) \in Seq(Instr)
  BY ExprCodeType
<1>2. \A j \in Elems(ExprCode(bl, e)) : j.to = {}
  BY ExprCodeElems
<1> DEFINE s == ExprCode(bl, e)
<1> HIDE DEF s
<1>3. Append(s, i) \in Seq(Instr) /\ Elems(Append(s, i)) = Elems(s) \cup {i}
  BY <1>1, AppendElems DEF s
<1>4. Straight(Append(s, i)) /\ Straight(s)
  BY <1>2, <1>3 DEF Straight, s
<1>5. Straight(<<i>>) /\ Straight(<<>>)
  BY OneElem, NoElem DEF Straight
<1> QED
  BY <1>1, <1>3, <1>4, <1>5 DEF s

LEMMA PlainStmtBlocks ==
    ASSUME IInv, IInv', BInv,
           EmptyStmt \/ \E e \in Exprs \cup {NoExpr} : ExprStmt(e) \/ Return(e)
    PROVE  BInv'
<1>1. Running /\ InStmts
  BY DEF EmptyStmt, ExprStmt, Return, ReturnPosition, AnyStmt, StmtPosition
<1>2. frames' = Took(FALSE) /\ UNCHANGED <<currentFunc, nbb, owner, insertBB>>
  BY DEF EmptyStmt, ExprStmt, Return, func, code
<1>3. StillWaiting
  BY <1>1, <1>2, StmtFacts, WaitingAsBefore
<1>4. status = "running" /\ blocks \in Seq(Scope) /\ instrs \in [BB -> Seq(Instr)]
  BY <1>1 DEF Running, IInv, TypeOK
<1>5. Placed(insertBB) /\ Placed(NoBB)
  BY <1>4, PlacesKnown
<1>6. AddsPlain
  <2>1. CASE EmptyStmt
    <3>1. instrs' = instrs
      BY <2>1 DEF EmptyStmt, code
    <3>2. Extends(instrs, instrs)
      BY <1>4 DEF Extends
    <3> QED
      BY <3>1, <3>2 DEF AddsPlain
  <2>2. ASSUME NEW e \in Exprs \cup {NoExpr}, ExprStmt(e) \/ Return(e)
        PROVE  AddsPlain
    <3>1. ~Throws(blocks, e) /\ Ret \in Instr /\ Ret.to = {}
      BY <2>2, InstrType, TermTypes DEF ExprStmt, Return
    <3>2. PICK s \in Seq(Instr) : Straight(s) /\ instrs' = Emit(instrs, insertBB, s)
      <4>1. CASE ExprStmt(e)
        BY <1>4, <3>1, <4>1, StraightCode DEF ExprStmt
      <4>2. CASE Return(e)
        BY <1>4, <3>1, <4>2, StraightCode DEF Return
      <4> QED
        BY <2>2, <4>1, <4>2
    <3>3. instrs' = Emit(Emit(instrs, insertBB, s), NoBB, <<>>)
      BY <3>2, EmitNowhere
    <3>4. <<>> \in Seq(Instr) /\ Straight(<<>>)
      BY NoElem DEF Straight
    <3> QED
      BY <1>5, <3>2, <3>3, <3>4, PlainAppended
  <2> QED
    BY <2>1, <2>2
<1> QED
  BY <1>2, <1>3, <1>6, PlainStep

LEMMA AddParamBlocks ==
    ASSUME IInv, IInv', BInv, NEW v \in Vars, AddParam(v)
    PROVE  BInv'
<1> DEFINE home == GetCurrentBlock
           p == <<home, Len(instrs[home]) + 1>>
<1>1. status = "running"
  BY DEF AddParam, Running
<1>2. Placed(home) /\ Placed(insertBB) /\ home \in BB
  BY <1>1, PlacesKnown
<1>3. p \in Ptr
  <2>1. Len(instrs[home]) \in Nat
    BY <1>2 DEF IInv, TypeOK
  <2> QED
    BY <1>2, <2>1 DEF Ptr
<1>4. /\ instrs' = Emit(Emit(instrs, home, <<Alloca>>), insertBB, <<Access(p)>>)
      /\ UNCHANGED <<currentFunc, nbb, owner, insertBB, frames>>
  BY DEF AddParam, func
<1> HIDE DEF home, p
<1>5. <<Alloca>> \in Seq(Instr) /\ <<Access(p)>> \in Seq(Instr)
  BY <1>3, InstrType
<1>6. Straight(<<Alloca>>) /\ Straight(<<Access(p)>>)
  BY OneElem DEF Straight, Alloca, Access
<1>7. AddsPlain
  BY <1>2, <1>4, <1>5, <1>6, PlainAppended
<1>8. StillWaiting
  BY <1>4, WaitingAsBefore
<1> QED
  BY <1>4, <1>7, <1>8, PlainStep

LEMMA DefineVarBlocks ==
    ASSUME IInv, IInv', BInv,
           NEW v \in Vars, NEW init \in Exprs \cup {NoExpr}, NEW more \in BOOLEAN,
           DefineVar(v, init, more)
    PROVE  BInv'
<1> DEFINE home  == GetCurrentBlock
           p     == <<home, Len(instrs[home]) + 1>>
           scope == AddLocalVar(blocks, p, v)
           value == IF init = NoExpr THEN <<>> ELSE Append(ExprCode(scope, init), Access(p))
<1>1. status = "running"
  BY DEF DefineVar
<1>2. Placed(home) /\ Placed(insertBB) /\ home \in BB
  BY <1>1, PlacesKnown
<1>3. p \in Ptr
  <2>1. Len(instrs[home]) \in Nat
    BY <1>2 DEF IInv, TypeOK
  <2> QED
    BY <1>2, <2>1 DEF Ptr
<1>4. /\ instrs' = Emit(Emit(instrs, home, <<Alloca>>), insertBB, value)
      /\ frames' = IF inDef THEN frames ELSE Took(FALSE)
      /\ ~Throws(scope, init)
      /\ UNCHANGED <<currentFunc, nbb, owner, insertBB>>
  BY DEF DefineVar, func
<1>5. scope \in Seq(Scope)
  BY <1>3, AddLocalVarType DEF IInv, TypeOK
<1> HIDE DEF home, p, scope
<1>6. Access(p) \in Instr /\ Access(p).to = {} /\ Alloca \in Instr /\ Alloca.to = {}
  BY <1>3, InstrType DEF Access, Alloca
<1>7. value \in Seq(Instr) /\ Straight(value)
  BY <1>4, <1>5, <1>6, StraightCode
<1>8. <<Alloca>> \in Seq(Instr) /\ Straight(<<Alloca>>)
  BY <1>6, OneElem DEF Straight
<1> HIDE DEF value
<1>9. AddsPlain
  BY <1>2, <1>4, <1>7, <1>8, PlainAppended
<1>10. StillWaiting
  <2>1. frames # <<>> /\ frames \in Seq(FrameRec)
    BY <1>1, TopFacts
  <2> QED
    BY <1>4, <2>1, TookType, WaitingAsBefore
<1> QED
  BY <1>4, <1>9, <1>10, PlainStep

\* The body of a function inserts no block of its own, as its parameters.
LEMMA BeginBodyBlocks ==
    ASSUME IInv, IInv', BInv, BeginBody
    PROVE  BInv'
<1>1. status = "running" /\ Top.kind = "params"
  BY DEF BeginBody, Running
<1>2. /\ frames \in Seq(FrameRec) /\ Len(frames) = 2 /\ Top \in FrameRec /\ Top = frames[2]
  BY <1>1, TopFacts
<1> DEFINE e == [Top EXCEPT !.kind = "body"]
<1>3. e \in FrameRec /\ e.kind = "body" /\ e.bb = Top.bb
  BY <1>2 DEF FrameRec, FrameKinds, ListKinds
<1>4. frames' = [frames EXCEPT ![2] = e] /\ UNCHANGED <<currentFunc, nbb, owner, insertBB, instrs>>
  BY <1>2 DEF BeginBody, func, code
<1> HIDE DEF e
<1>5. Len(frames') = 2 /\ frames'[1] = frames[1] /\ frames'[2] = e
  BY <1>2, <1>3, <1>4, SecondReplaced
<1>6. ToInsert(frames[2]) = {} /\ ToInsert(e) = {}
  BY <1>1, <1>2, <1>3 DEF ToInsert
<1>7. StillWaiting
  <2>1. \A i \in 1..2 : i = 1 \/ i = 2
    OBVIOUS
  <2> QED
    BY <1>1, <1>2, <1>3, <1>5, <1>6, <2>1 DEF StillWaiting
<1>8. AddsPlain
  <2>1. Extends(instrs, instrs)
    BY DEF Extends, IInv, TypeOK
  <2> QED
    BY <1>4, <2>1 DEF AddsPlain
<1> QED
  BY <1>4, <1>7, <1>8, PlainStep

----------------------------------------------------------------------------
\* The steps of the program and of functions.

\* The handlers of the program and of a function insert no other block.
LEMMA NoneWaiting ==
    ASSUME NEW fr \in Seq(FrameRec), NEW n, WellNested(fr, n), Len(fr) <= 2
    PROVE  /\ Waiting(fr, 0) = {} /\ InsertedOnce(fr, 0)
           /\ \A i \in 1..Len(fr) : fr[i].kind # "for"
<1>1. \A i \in 1..Len(fr) : i = 1 \/ i = 2
  OBVIOUS
<1>2. \A i \in 1..Len(fr) : fr[i].kind \in {"prog", "params", "body"}
  BY <1>1 DEF WellNested
<1>3. \A i \in 1..Len(fr) : ToInsert(fr[i]) = {}
  BY <1>2 DEF ToInsert
<1>4. 0 + 1 = 1
  OBVIOUS
<1>5. Waiting(fr, 0) = {}
  BY <1>3, <1>4, Zenon DEF Waiting
<1>6. InsertedOnce(fr, 0)
  BY <1>3, <1>4, Zenon DEF InsertedOnce
<1> QED
  BY <1>2, <1>5, <1>6

LEMMA TopLevel ==
    ASSUME IInv', Len(frames') <= 2
    PROVE  PendingBlocks' /\ LoopHeads'
<1>1. Waiting(frames', 0) = {} /\ InsertedOnce(frames', 0)
      /\ \A i \in 1..Len(frames') : frames'[i].kind # "for"
  BY NoneWaiting DEF IInv, TypeOK, HandlersNested
<1> QED
  BY <1>1 DEF PendingBlocks, LoopHeads

\* Outside the statements a branch stays in its function.
LEMMA BranchesStay ==
    ASSUME IInv, BInv, Len(frames) <= 2, NEW x \in BB, NEW i \in Elems(instrs[x]), NEW u \in i.to
    PROVE  u \in BB /\ owner[u] = owner[x] /\ owner[x] # NoFunc
<1>1. u \in BB
  <2>1. PICK j \in 1..Len(instrs[x]) : i = instrs[x][j]
    BY DEF Elems
  <2>2. instrs[x] \in Seq(Instr)
    BY DEF IInv, TypeOK
  <2>3. i \in Instr
    BY <2>1, <2>2, ElementOfSeq
  <2> QED
    BY <2>3 DEF Instr
<1>2. owner[x] # NoFunc
  <2>1. instrs[x] # <<>>
    BY NoElem
  <2> QED
    BY <2>1 DEF BInv, FreshBlocks
<1>3. Waiting(frames, 0) = {}
  BY NoneWaiting DEF IInv, TypeOK, HandlersNested
<1> QED
  BY <1>1, <1>2, <1>3 DEF BInv, Targeted

LEMMA CreatePrintFuncBlocks ==
    ASSUME IInv, IInv', BInv, NEW f \in FuncNames, CreatePrintFunc(f)
    PROVE  BInv'
<1> DEFINE b == nbb + 1
<1>1. frames = <<>> /\ Len(frames) = 0 /\ currentFunc = NoFunc /\ nbb \in Nat /\ b \in BB
      /\ instrs \in [BB -> Seq(Instr)] /\ owner \in Owners
  <2>1. status = "io" /\ nbb < MaxBB
    BY DEF CreatePrintFunc
  <2>2. frames = <<>> /\ currentFunc = NoFunc
    BY <2>1 DEF IInv, HandlersNested
  <2>3. nbb \in 0..MaxBB /\ instrs \in [BB -> Seq(Instr)] /\ owner \in Owners
    BY DEF IInv, TypeOK, Owners
  <2> QED
    BY <2>1, <2>2, <2>3, MaxBBAssumption DEF BB
<1>2. /\ nbb' = b /\ UNCHANGED <<currentFunc, insertBB, frames>>
      /\ owner' = [owner EXCEPT ![b] = f] /\ instrs' = Emit(instrs, b, <<Call, Ret>>)
  BY DEF CreatePrintFunc
<1>3. f \notin {NoFunc, GlobalFunc}
  BY FuncAssumption
<1>4. owner[b] = NoFunc /\ instrs[b] = <<>>
  BY <1>1 DEF BInv, FreshBlocks
<1>5. Elems(<<Call, Ret>>) = {Call, Ret}
  BY DEF Elems
<1>6. /\ instrs' \in [BB -> Seq(Instr)]
      /\ \A x \in BB : x # b => instrs'[x] = instrs[x]
      /\ Elems(instrs'[b]) = {Call, Ret}
  <2>1. <<Call, Ret>> \in Seq(Instr)
    BY InstrType
  <2>2. instrs' = [instrs EXCEPT ![b] = @ \o <<Call, Ret>>]
    BY <1>1, <1>2 DEF Emit, BB, NoBB
  <2>3. instrs'[b] = <<Call, Ret>>
    BY <1>1, <1>4, <2>1, <2>2
  <2> QED
    BY <1>1, <1>5, <2>1, <2>2, <2>3
<1>7. \A x \in BB : owner'[x] = IF x = b THEN f ELSE owner[x]
  BY <1>1, <1>2 DEF Owners
<1>8. FreshBlocks'
  <2>1. ASSUME NEW x \in BB, x > nbb' PROVE owner'[x] = NoFunc
    BY <1>1, <1>2, <1>7, <2>1 DEF BInv, FreshBlocks, BB
  <2>2. \A x \in BB : owner'[x] = NoFunc => instrs'[x] = <<>>
    BY <1>3, <1>6, <1>7 DEF BInv, FreshBlocks
  <2> QED
    BY <2>1, <2>2 DEF FreshBlocks
<1>9. PendingBlocks' /\ LoopHeads'
  BY <1>1, <1>2, TopLevel
<1>10. GlobalBlock'
  BY <1>1, <1>2, <1>3, <1>7 DEF BInv, GlobalBlock
<1>11. BuilderPlaced'
  BY <1>2, <1>3, <1>7 DEF BInv, BuilderPlaced, IInv, TypeOK
<1>12. Terminated'
  BY <1>1, <1>2, <1>6, <1>7, TermTypes DEF BInv, Terminated
<1>13. Targeted'
  <2> SUFFICES ASSUME NEW x \in BB, NEW i \in Elems(instrs'[x]), NEW u \in i.to
               PROVE  owner'[u] = owner'[x]
    BY DEF Targeted
  <2>1. x # b
    <3>1. Call.to = {} /\ Ret.to = {}
      BY DEF Call, Ret
    <3> QED
      BY <1>6, <3>1
  <2>2. i \in Elems(instrs[x])
    BY <1>6, <2>1
  <2>3. u \in BB /\ owner[u] = owner[x] /\ owner[x] # NoFunc
    BY <1>1, <2>2, BranchesStay
  <2> QED
    BY <1>4, <1>7, <2>1, <2>3
<1> QED
  BY <1>8, <1>9, <1>10, <1>11, <1>12, <1>13 DEF BInv

LEMMA BeginProgBlocks ==
    ASSUME IInv, IInv', BInv, BeginProg
    PROVE  BInv'
<1> DEFINE b == nbb + 1
<1>1. frames = <<>> /\ Len(frames) = 0 /\ currentFunc = NoFunc /\ nbb \in Nat /\ b \in BB
      /\ owner \in Owners
  BY MaxBBAssumption DEF BeginProg, IInv, TypeOK, HandlersNested, BB, Owners
<1>2. /\ nbb' = b /\ UNCHANGED <<currentFunc, insertBB, instrs>>
      /\ owner' = [owner EXCEPT ![b] = GlobalFunc] /\ frames' = <<Frame("prog", b)>>
  BY DEF BeginProg, func
<1>3. Frame("prog", b).bb = b
  BY DEF Frame
<1>4. frames' # <<>> /\ Len(frames') = 1 /\ frames'[1].bb = b
  BY <1>2, <1>3
<1>5. owner[b] = NoFunc /\ instrs[b] = <<>>
  BY <1>1 DEF BInv, FreshBlocks
<1>6. \A x \in BB : owner'[x] = IF x = b THEN GlobalFunc ELSE owner[x]
  BY <1>1, <1>2 DEF Owners
<1>7. FreshBlocks'
  <2>1. ASSUME NEW x \in BB, x > nbb' PROVE owner'[x] = NoFunc
    BY <1>1, <1>2, <1>6, <2>1 DEF BInv, FreshBlocks, BB
  <2>2. \A x \in BB : owner'[x] = NoFunc => instrs'[x] = <<>>
    BY <1>2, <1>5, <1>6 DEF BInv, FreshBlocks
  <2> QED
    BY <2>1, <2>2 DEF FreshBlocks
<1>8. PendingBlocks' /\ LoopHeads'
  BY <1>4, TopLevel
<1>9. GlobalBlock'
  BY <1>1, <1>4, <1>6 DEF BInv, GlobalBlock
<1>10. BuilderPlaced'
  BY <1>2, <1>5, <1>6 DEF BInv, BuilderPlaced, IInv, TypeOK
<1>11. Terminated'
  BY <1>1, <1>2, <1>6 DEF BInv, Terminated
<1>12. Targeted'
  <2> SUFFICES ASSUME NEW x \in BB, NEW i \in Elems(instrs'[x]), NEW u \in i.to
               PROVE  owner'[u] = owner'[x]
    BY DEF Targeted
  <2>1. u \in BB /\ owner[u] = owner[x] /\ owner[x] # NoFunc
    BY <1>1, <1>2, BranchesStay
  <2> QED
    BY <1>5, <1>6, <2>1
<1> QED
  BY <1>7, <1>8, <1>9, <1>10, <1>11, <1>12 DEF BInv

LEMMA EndProgBlocks ==
    ASSUME IInv, IInv', BInv, EndProg
    PROVE  BInv'
<1> DEFINE b == Top.bb
<1>1. status = "running" /\ Top.kind = "prog"
  BY DEF EndProg, Running
<1>2. /\ Len(frames) = 1 /\ currentFunc = NoFunc /\ frames # <<>> /\ Top = frames[1]
      /\ frames \in Seq(FrameRec) /\ b \in BB
  BY <1>1, TopFacts DEF FrameRec
<1>3. frames' = <<>> /\ Len(frames') = 0
  <2>1. frames' \in Seq(FrameRec) /\ Len(frames') = 0
    BY <1>2, Popped DEF EndProg, PopFrame
  <2> QED
    BY <2>1, EmptySeq
<1>4. /\ UNCHANGED <<currentFunc, insertBB, nbb>>
      /\ owner' = [owner EXCEPT ![b] = NoFunc] /\ instrs' = [instrs EXCEPT ![b] = <<>>]
  BY DEF EndProg, func
<1>5. /\ \A x \in BB : owner'[x] = IF x = b THEN NoFunc ELSE owner[x]
      /\ \A x \in BB : instrs'[x] = IF x = b THEN <<>> ELSE instrs[x]
  BY <1>2, <1>4 DEF IInv, TypeOK
<1>6. \A x \in BB : owner[x] = GlobalFunc <=> x = b
  BY <1>2 DEF BInv, GlobalBlock
<1>7. FreshBlocks'
  BY <1>4, <1>5 DEF BInv, FreshBlocks
<1>8. PendingBlocks' /\ LoopHeads'
  BY <1>3, TopLevel
<1>9. GlobalBlock'
  BY <1>3, <1>5, <1>6, FuncAssumption DEF GlobalBlock
<1>10. BuilderPlaced'
  BY <1>4, <1>5, <1>6 DEF BInv, BuilderPlaced, IInv, TypeOK
<1>11. Terminated'
  BY <1>2, <1>4, <1>5 DEF BInv, Terminated
<1>12. Targeted'
  <2> SUFFICES ASSUME NEW x \in BB, NEW i \in Elems(instrs'[x]), NEW u \in i.to
               PROVE  owner'[u] = owner'[x]
    BY DEF Targeted
  <2>1. x # b /\ i \in Elems(instrs[x])
    BY <1>5, NoElem
  <2>2. u \in BB /\ owner[u] = owner[x] /\ owner[x] # NoFunc
    BY <1>2, <2>1, BranchesStay
  <2> QED
    BY <1>5, <1>6, <2>1, <2>2
<1> QED
  BY <1>7, <1>8, <1>9, <1>10, <1>11, <1>12 DEF BInv

LEMMA BeginFuncBlocks ==
    ASSUME IInv, IInv', BInv, NEW f \in FuncNames, NEW void \in BOOLEAN, BeginFunc(f, void)
    PROVE  BInv'
<1> DEFINE b == nbb + 1
<1>1. status = "running" /\ Top.kind = "prog" /\ f \notin {NoFunc, GlobalFunc}
  BY FuncAssumption DEF BeginFunc, Running
<1>2. /\ Len(frames) = 1 /\ currentFunc = NoFunc /\ frames # <<>>
      /\ frames \in Seq(FrameRec)
  BY <1>1, TopFacts
<1>3. nbb \in Nat /\ b \in BB /\ owner \in Owners
  BY MaxBBAssumption DEF BeginFunc, IInv, TypeOK, BB, Owners
<1>4. /\ nbb' = b /\ currentFunc' = f /\ insertBB' = b /\ instrs' = instrs
      /\ owner' = [owner EXCEPT ![b] = f]
  BY DEF BeginFunc
<1>5. Len(frames') = 2 /\ frames' # <<>> /\ frames'[1].bb = frames[1].bb
  <2> DEFINE fr == Took(FALSE)
             e  == Frame("params", b)
  <2>1. /\ fr \in Seq(FrameRec) /\ Len(fr) = 1
        /\ \A i \in 1..1 : fr[i].kind = frames[i].kind /\ fr[i].bb = frames[i].bb
    BY <1>2, TookType
  <2>2. e \in FrameRec
    BY <1>3, FrameType DEF FrameKinds
  <2>3. frames' = Append(fr, e)
    BY DEF BeginFunc
  <2> HIDE DEF fr, e
  <2>4. Len(frames') = 2 /\ frames'[1].bb = frames[1].bb
    BY <2>1, <2>2, <2>3, FirstPushed
  <2>5. \A s : Len(s) = 2 => s # <<>>
    BY NotEmpty
  <2> QED
    BY <2>4, <2>5, Zenon
<1>6. owner[b] = NoFunc /\ instrs[b] = <<>>
  BY <1>3 DEF BInv, FreshBlocks
<1>7. \A x \in BB : owner'[x] = IF x = b THEN f ELSE owner[x]
  BY <1>3, <1>4 DEF Owners
<1>8. FreshBlocks'
  <2>1. ASSUME NEW x \in BB, x > nbb' PROVE owner'[x] = NoFunc
    BY <1>3, <1>4, <1>7, <2>1 DEF BInv, FreshBlocks, BB
  <2>2. \A x \in BB : owner'[x] = NoFunc => instrs'[x] = <<>>
    BY <1>4, <1>6, <1>7 DEF BInv, FreshBlocks
  <2> QED
    BY <2>1, <2>2 DEF FreshBlocks
<1>9. PendingBlocks' /\ LoopHeads'
  BY <1>5, TopLevel
<1>10. GlobalBlock'
  <2>1. \A x \in BB : owner'[x] = GlobalFunc <=> owner[x] = GlobalFunc
    BY <1>1, <1>6, <1>7, FuncAssumption
  <2> QED
    BY <1>2, <1>5, <2>1 DEF BInv, GlobalBlock
<1>11. BuilderPlaced'
  BY <1>1, <1>3, <1>4, <1>7 DEF BuilderPlaced
<1>12. Terminated'
  BY <1>2, <1>4, <1>7 DEF BInv, Terminated
<1>13. Targeted'
  <2> SUFFICES ASSUME NEW x \in BB, NEW i \in Elems(instrs'[x]), NEW u \in i.to
               PROVE  owner'[u] = owner'[x]
    BY DEF Targeted
  <2>1. u \in BB /\ owner[u] = owner[x] /\ owner[x] # NoFunc
    BY <1>2, <1>4, BranchesStay
  <2> QED
    BY <1>6, <1>7, <2>1
<1> QED
  BY <1>8, <1>9, <1>10, <1>11, <1>12, <1>13 DEF BInv

\* A function that has not returned returns at its end.
LEMMA EndFuncBlocks ==
    ASSUME IInv, IInv', BInv, EndFunc
    PROVE  BInv'
<1>1. status = "running" /\ Top.kind = "body"
  BY DEF EndFunc, Running
<1>2. /\ frames \in Seq(FrameRec) /\ Len(frames) = 2 /\ currentFunc # NoFunc /\ frames # <<>>
      /\ insertBB \in BB /\ owner[insertBB] = currentFunc
      /\ instrs \in [BB -> Seq(Instr)]
  BY <1>1, TopFacts DEF IInv, TypeOK
<1>3. Len(frames') = 1 /\ frames'[1] = frames[1] /\ frames' # <<>>
  <2>1. Len(frames') = 1 /\ frames'[1] = frames[1]
    BY <1>2, SecondPopped DEF EndFunc, PopFrame
  <2> QED
    BY <2>1, NotEmpty
<1>4. UNCHANGED <<nbb, owner, insertBB>> /\ currentFunc' = NoFunc
  BY DEF EndFunc
<1>5. /\ instrs' \in [BB -> Seq(Instr)] /\ Extends(instrs, instrs')
      /\ SameBut(instrs, instrs', {insertBB})
      /\ \A x \in BB : \A i \in Elems(instrs'[x]) : i \in Elems(instrs[x]) \/ i.to = {}
      /\ \E i \in Elems(instrs'[insertBB]) : IsTerm(i)
  <2>1. CASE HasTerminator(instrs[insertBB])
    <3>1. instrs' = instrs
      BY <2>1 DEF EndFunc, DefaultReturn
    <3>2. Extends(instrs, instrs)
      BY <1>2 DEF Extends
    <3>3. \E i \in Elems(instrs[insertBB]) : IsTerm(i)
      <4>1. Len(instrs[insertBB]) \in 1..Len(instrs[insertBB])
        BY <1>2, <2>1, EmptySeq DEF HasTerminator
      <4> QED
        BY <2>1, <4>1 DEF HasTerminator, Elems
    <3> QED
      BY <1>2, <3>1, <3>2, <3>3 DEF SameBut
  <2>2. CASE ~HasTerminator(instrs[insertBB])
    <3>1. instrs' = Emit(instrs, insertBB, <<Ret>>)
      BY <2>2 DEF EndFunc, DefaultReturn
    <3>2. instrs' = Emit(Emit(instrs, insertBB, <<Ret>>), NoBB, <<>>)
      BY <3>1, EmitNowhere
    <3>3. <<Ret>> \in Seq(Instr) /\ <<>> \in Seq(Instr) /\ insertBB \in BB \cup {NoBB}
          /\ NoBB \in BB \cup {NoBB}
      BY <1>2, InstrType
    <3> DEFINE d == instrs'
    <3>4. /\ d \in [BB -> Seq(Instr)] /\ Extends(instrs, d)
          /\ SameBut(instrs, d, {insertBB, NoBB})
          /\ AddsOnly(instrs, d, insertBB, <<Ret>>, NoBB, <<>>)
          /\ <<Ret>> # <<>> => <<Ret>>[Len(<<Ret>>)] \in Elems(d[insertBB])
      BY <1>2, <3>2, <3>3, EmitTwiceAdds
    <3>5. Ret \in Elems(d[insertBB]) /\ IsTerm(Ret) /\ Ret.to = {}
      BY <3>4, OneElem, TermTypes
    <3>6. \A x \in BB : \A i \in Elems(d[x]) : i \in Elems(instrs[x]) \/ i.to = {}
      BY <3>4, <3>5, OneElem, NoElem DEF AddsOnly
    <3>7. SameBut(instrs, d, {insertBB})
      BY <3>4 DEF SameBut, BB, NoBB
    <3> QED
      BY <3>4, <3>5, <3>6, <3>7
  <2> QED
    BY <2>1, <2>2
<1>6. FreshBlocks'
  BY <1>2, <1>4, <1>5 DEF BInv, FreshBlocks, SameBut
<1>7. PendingBlocks' /\ LoopHeads'
  BY <1>3, TopLevel
<1>8. GlobalBlock'
  BY <1>2, <1>3, <1>4 DEF BInv, GlobalBlock
<1>9. BuilderPlaced'
  BY <1>4 DEF BInv, BuilderPlaced
<1>10. Terminated'
  <2>1. \A x \in BB : Elems(instrs[x]) \subseteq Elems(instrs'[x])
    BY <1>2, <1>5, ElemsKept
  <2> QED
    BY <1>4, <1>5, <2>1 DEF BInv, Terminated
<1>11. Targeted'
  <2> SUFFICES ASSUME NEW x \in BB, NEW i \in Elems(instrs'[x]), NEW u \in i.to
               PROVE  owner'[u] = owner'[x]
    BY DEF Targeted
  <2>1. i \in Elems(instrs[x])
    BY <1>5
  <2>2. owner[u] = owner[x]
    BY <1>2, <2>1, BranchesStay
  <2> QED
    BY <1>4, <2>2
<1> QED
  BY <1>6, <1>7, <1>8, <1>9, <1>10, <1>11 DEF BInv

----------------------------------------------------------------------------
\* The invariant is inductive.

LEMMA InitBInv == Init => BInv
<1> SUFFICES ASSUME Init PROVE BInv
  OBVIOUS
<1>1. /\ frames = <<>> /\ Len(frames) = 0 /\ insertBB = NoBB
      /\ owner = [b \in BB |-> NoFunc] /\ instrs = [b \in BB |-> <<>>]
  BY DEF Init
<1>2. FreshBlocks
  BY <1>1 DEF FreshBlocks
<1>3. PendingBlocks
  <2>1. Waiting(frames, 0) = {} /\ InsertedOnce(frames, 0)
    BY <1>1, WaitingNone
  <2> QED
    BY <2>1 DEF PendingBlocks
<1>4. LoopHeads /\ GlobalBlock /\ BuilderPlaced
  BY <1>1, FuncAssumption DEF LoopHeads, GlobalBlock, BuilderPlaced
<1>5. Terminated
  BY <1>1 DEF Terminated
<1>6. Targeted
  BY <1>1, NoElem DEF Targeted
<1> QED
  BY <1>2, <1>3, <1>4, <1>5, <1>6 DEF BInv

\* An error and a stuttering step change nothing that the invariant speaks of.
LEMMA SameBlocks ==
    ASSUME BInv, UNCHANGED <<currentFunc, nbb, instrs, owner, insertBB, frames>>
    PROVE  BInv'
BY DEF BInv, FreshBlocks, PendingBlocks, LoopHeads, GlobalBlock, BuilderPlaced, Terminated, Targeted

LEMMA NextBInv == IInv /\ BInv /\ [Next]_vars => BInv'
<1> SUFFICES ASSUME IInv, BInv, [Next]_vars PROVE BInv'
  OBVIOUS
<1>0. IInv'
  BY NextIInv
<1>1. ASSUME NEW f \in FuncNames, CreatePrintFunc(f) PROVE BInv'
  BY <1>0, <1>1, CreatePrintFuncBlocks
<1>2. CASE BeginProg
  BY <1>0, <1>2, BeginProgBlocks
<1>3. CASE EndProg
  BY <1>0, <1>3, EndProgBlocks
<1>4. ASSUME NEW f \in FuncNames, NEW void \in BOOLEAN, BeginFunc(f, void) PROVE BInv'
  BY <1>0, <1>4, BeginFuncBlocks
<1>5. ASSUME NEW v \in Vars, AddParam(v) PROVE BInv'
  BY <1>0, <1>5, AddParamBlocks
<1>6. CASE BeginBody
  BY <1>0, <1>6, BeginBodyBlocks
<1>7. CASE EndFunc
  BY <1>0, <1>7, EndFuncBlocks
<1>8. CASE \/ EmptyStmt
           \/ \E e \in Exprs : ExprStmt(e)
           \/ \E e \in Exprs \cup {NoExpr} : Return(e)
  BY <1>0, <1>8, PlainStmtBlocks
<1>9. ASSUME NEW v \in Vars, NEW e \in Exprs \cup {NoExpr}, NEW more \in BOOLEAN,
             DefineVar(v, e, more)
      PROVE  BInv'
  BY <1>0, <1>9, DefineVarBlocks
<1>10. CASE BeginBlock \/ BeginFor \/ \E e \in Exprs : BeginIf(e)
  BY <1>0, <1>10, BeginStmtBlocks
<1>11. CASE EndBlock \/ EndThen \/ EndElse
  BY <1>0, <1>11, EndStmtBlocks
<1>12. CASE ThenElse
  BY <1>0, <1>12, ThenElseBlocks
<1>13. ASSUME NEW e \in Exprs \cup {NoExpr}, ForCondition(e) PROVE BInv'
  BY <1>0, <1>13, ForConditionBlocks
<1>14. ASSUME NEW e \in Exprs \cup {NoExpr}, EndFor(e) PROVE BInv'
  BY <1>0, <1>14, EndForBlocks
<1>15. CASE Abort
  BY <1>15, SameBlocks DEF Abort, func, code
<1>16. CASE Ended \/ UNCHANGED vars
  BY <1>16, SameBlocks DEF Ended, vars, func, code
<1> QED
  BY <1>1, <1>2, <1>3, <1>4, <1>5, <1>6, <1>7, <1>8, <1>9, <1>10, <1>11, <1>12,
     <1>13, <1>14, <1>15, <1>16 DEF Next, Step

\* A block that waits to be inserted belongs to no function, is empty, and is
\* not that of the Builder.
LEMMA WaitingEmpty ==
    ASSUME IInv, BInv, currentFunc # NoFunc, NEW i \in 1..Len(frames),
           NEW u \in ToInsert(frames[i])
    PROVE  /\ u \in BB /\ owner[u] = NoFunc /\ u # insertBB
           /\ instrs[u] = <<>> /\ ~HasTerminator(instrs[u])
<1>1. i \in (0 + 1)..Len(frames)
  OBVIOUS
<1>2. u \in Waiting(frames, 0)
  BY <1>1, Zenon DEF Waiting
<1>3. u \in BB /\ owner[u] = NoFunc
  BY <1>2 DEF BInv, PendingBlocks
<1>4. instrs[u] = <<>>
  BY <1>3 DEF BInv, FreshBlocks
<1>5. owner[insertBB] # NoFunc
  BY DEF IInv, InCurrentFunc
<1> QED
  BY <1>3, <1>4, <1>5 DEF HasTerminator

\* The blocks that wait to be inserted are those of the active handlers, and
\* what is left behind is finished: an invariant of every compilation.
THEOREM BlocksInductive == Spec => [](IInv /\ BInv)
<1>1. IInv /\ BInv /\ [Next]_vars => (IInv /\ BInv)'
  BY NextIInv, NextBInv
<1> QED
  BY <1>1, InitIInv, InitBInv, PTL DEF Spec

\* The blocks that are written to, are inserted into a function or are branched
\* to have been created.
OnlyCreated ==
    /\ \A b \in BB : owner[b] # NoFunc \/ instrs[b] # <<>> => b <= nbb
    /\ \A b \in BB : \A i \in Elems(instrs[b]) : \A t \in i.to : t \in BB /\ t <= nbb

\* No instruction goes to a block that no BasicBlock::Create has made, no function
\* gets one and no branch leads to one, in whatever order the handlers create their
\* blocks, insert them and branch to them.
THEOREM BlocksAreCreated == Spec => []OnlyCreated
<1>1. IInv /\ BInv => OnlyCreated
  <2> SUFFICES ASSUME IInv, BInv PROVE OnlyCreated
    OBVIOUS
  <2>1. nbb \in Nat /\ instrs \in [BB -> Seq(Instr)] /\ \A b \in BB : b \in Nat
    BY MaxBBAssumption DEF IInv, TypeOK, BB
  <2>2. ASSUME NEW b \in BB, owner[b] # NoFunc
        PROVE  b <= nbb
    BY <2>1, <2>2 DEF BInv, FreshBlocks
  <2>3. ASSUME NEW b \in BB, instrs[b] # <<>>
        PROVE  owner[b] # NoFunc
    BY <2>3 DEF BInv, FreshBlocks
  <2>4. ASSUME NEW b \in BB, NEW i \in Elems(instrs[b]), NEW t \in i.to
        PROVE  t \in BB /\ t <= nbb
    <3>1. i \in Instr
      <4>1. PICK k \in 1..Len(instrs[b]) : i = instrs[b][k]
        BY <2>4 DEF Elems
      <4> QED
        BY <2>1, <4>1, ElementOfSeq
    <3>2. t \in BB
      BY <2>4, <3>1 DEF Instr
    <3>3. owner[b] # NoFunc
      BY <2>3, <2>4, NoElem
    <3>4. CASE owner[t] = owner[b]
      BY <2>2, <3>2, <3>3, <3>4
    <3>5. CASE t \in Waiting(frames, 0)
      BY <3>2, <3>5 DEF BInv, PendingBlocks
    <3> QED
      BY <2>4, <3>2, <3>4, <3>5 DEF BInv, Targeted
  <2> QED
    BY <2>2, <2>3, <2>4 DEF OnlyCreated
<1> QED
  BY <1>1, BlocksInductive, PTL

\* No block of a finished function runs off its end: FuncBody's default
\* return and the branch at the end of each branch and loop are enough for
\* every program, however it nests its statements and wherever it returns.
THEOREM FunctionsTerminate == Spec => []NoFallThrough
<1>1. IInv /\ BInv => NoFallThrough
  <2> SUFFICES ASSUME IInv, BInv, NEW b \in Owned, owner[b] \notin {currentFunc, GlobalFunc}
               PROVE  \E k \in 1..Len(instrs[b]) : IsTerm(instrs[b][k])
    BY DEF NoFallThrough
  <2>1. b \in BB /\ owner[b] # NoFunc
    BY DEF Owned
  <2>2. ~(currentFunc # NoFunc /\ b = insertBB)
    BY DEF IInv, InCurrentFunc
  <2>3. \E i \in Elems(instrs[b]) : IsTerm(i)
    BY <2>1, <2>2 DEF BInv, Terminated
  <2> QED
    BY <2>3 DEF Elems
<1> QED
  BY <1>1, BlocksInductive, PTL

\* Every branch of a finished function goes to a block of that function: each
\* block that Block, IfStmt and ForStmt create is inserted in the end.
THEOREM BranchesPlaced == Spec => []TargetsPlaced
<1>1. IInv /\ BInv => TargetsPlaced
  <2> SUFFICES ASSUME BInv, NEW b \in Owned, owner[b] # currentFunc,
                      NEW k \in 1..Len(instrs[b]), NEW t \in instrs[b][k].to
               PROVE  owner[t] = owner[b]
    BY DEF TargetsPlaced
  <2>1. b \in BB /\ instrs[b][k] \in Elems(instrs[b])
    BY DEF Owned, Elems
  <2> QED
    BY <2>1 DEF BInv, Targeted
<1> QED
  BY <1>1, BlocksInductive, PTL

----------------------------------------------------------------------------
(***************************************************************************)
(* When the generated code is well formed.  A basic block may have one     *)
(* terminator, its last instruction; nothing in the code generator keeps   *)
(* it so for every program, and the runs show the three ways out of it: a  *)
(* return inside a block, an if or a for; a variable declared after one of *)
(* these; a global variable.  The theorem says that there is no other: a   *)
(* program that does none of the three gets well-formed code.              *)
(*                                                                         *)
(* The argument is that instructions go to open blocks only.  The block of *)
(* the Builder has a terminator only in the body of a function that has    *)
(* returned, where FuncBody::CodeGen stops; and an alloca, which goes to   *)
(* the block of the scope and not to that of the Builder, is emitted only  *)
(* while the two are the same.                                             *)
(***************************************************************************)

\* A program that returns only in the body of a function, declares variables
\* before the ifs, fors and blocks of a list, and has no global variable.
Disciplined == ~NestedReturn /\ ~LateDef /\ ~GlobalVars

\* A terminator can only be the last instruction.
WellEnded(s) == \A k \in 1..Len(s) : IsTerm(s[k]) => k = Len(s)

TermsLast(c) == \A x \in BB : WellEnded(c[x])

\* More instructions can go to block a.
OpenAt(c, a) == a \in BB => ~HasTerminator(c[a])

\* There is no terminator.
Unended(s) == \A i \in Elems(s) : ~IsTerm(i)

\* The block of the Builder has a terminator only when a body has returned.
BuilderOpen ==
    currentFunc # NoFunc /\ HasTerminator(instrs[insertBB]) => Top.kind = "body" /\ ~inDef

\* A handler that has called another is past its first branch and its parameters.
CallersBranched ==
    \A i \in 2..(Len(frames) - 1) : frames[i].branched /\ frames[i].kind # "params"

\* Before its first branch the Builder is at the block of the handler's scope.
BuilderAtScope ==
    Len(frames) > 1 =>
        /\ ~Top.branched => insertBB = Top.bb
        /\ Top.kind = "params" => ~Top.branched

\* Variables are being declared only before the first branch.
DefsEarly == inDef => Len(frames) > 1 /\ ~Top.branched

WInv == TermsLast(instrs) /\ BuilderOpen /\ CallersBranched /\ BuilderAtScope /\ DefsEarly

----------------------------------------------------------------------------
\* Instructions that are appended to open blocks.

LEMMA UnendedOpen ==
    ASSUME NEW s \in Seq(Instr), Unended(s)
    PROVE  WellEnded(s) /\ ~HasTerminator(s)
<1>1. \A k \in 1..Len(s) : ~IsTerm(s[k])
  BY DEF Unended, Elems
<1>2. s # <<>> => Len(s) \in 1..Len(s)
  BY EmptySeq
<1> QED
  BY <1>1, <1>2 DEF WellEnded, HasTerminator

LEMMA EmitWell ==
    ASSUME NEW c \in [BB -> Seq(Instr)], TermsLast(c), NEW a \in BB \cup {NoBB},
           OpenAt(c, a),
           NEW s \in Seq(Instr), WellEnded(s), NEW d, d = Emit(c, a, s)
    PROVE  /\ d \in [BB -> Seq(Instr)] /\ TermsLast(d) /\ SameBut(c, d, {a})
           /\ a \in BB /\ ~HasTerminator(s) => ~HasTerminator(d[a])
<1>1. /\ d \in [BB -> Seq(Instr)]
      /\ \A x \in BB : x # a => d[x] = c[x]
      /\ a \in BB => /\ Len(d[a]) = Len(c[a]) + Len(s)
                     /\ \A k \in 1..Len(c[a]) : d[a][k] = c[a][k]
                     /\ \A k \in 1..Len(s) : d[a][Len(c[a]) + k] = s[k]
  <2>1. EmitsAt(c, a, s, d)
    BY EmitAt
  <2> QED
    BY <2>1 DEF EmitsAt
<1>2. Len(s) \in Nat /\ \A x \in BB : Len(c[x]) \in Nat /\ Len(d[x]) \in Nat
  BY <1>1
<1>3. ASSUME a \in BB
      PROVE  WellEnded(d[a]) /\ (~HasTerminator(s) => ~HasTerminator(d[a]))
  <2>1. \A k \in 1..Len(c[a]) : ~IsTerm(c[a][k])
    <3>1. c[a] # <<>> => Len(c[a]) \in 1..Len(c[a])
      BY <1>2, <1>3, EmptySeq
    <3>2. \A k \in 1..Len(c[a]) : c[a] # <<>>
      BY <1>2, <1>3
    <3> QED
      BY <1>3, <3>2 DEF TermsLast, WellEnded, HasTerminator, OpenAt
  <2>2. ASSUME NEW k \in 1..Len(d[a]), IsTerm(d[a][k])
        PROVE  k = Len(d[a]) /\ s # <<>> /\ IsTerm(s[Len(s)])
    <3> DEFINE j == k - Len(c[a])
    <3>1. ~(k \in 1..Len(c[a]))
      BY <1>1, <1>3, <2>1, <2>2
    <3>2. j \in 1..Len(s) /\ k = Len(c[a]) + j
      BY <1>1, <1>2, <1>3, <3>1
    <3>3. IsTerm(s[j])
      BY <1>1, <1>3, <2>2, <3>2
    <3>4. j = Len(s)
      BY <3>2, <3>3 DEF WellEnded
    <3>5. s # <<>>
      BY <3>2
    <3> QED
      BY <1>1, <1>2, <1>3, <3>2, <3>3, <3>4, <3>5
  <2>3. WellEnded(d[a])
    BY <2>2 DEF WellEnded
  <2>4. ASSUME HasTerminator(d[a])
        PROVE  HasTerminator(s)
    <3>1. Len(d[a]) \in 1..Len(d[a])
      BY <1>1, <1>2, <1>3, <2>4, EmptySeq DEF HasTerminator
    <3> QED
      BY <2>2, <2>4, <3>1 DEF HasTerminator
  <2> QED
    BY <2>3, <2>4
<1>4. TermsLast(d)
  BY <1>1, <1>3 DEF TermsLast
<1>5. SameBut(c, d, {a})
  BY <1>1 DEF SameBut
<1> QED
  BY <1>1, <1>3, <1>4, <1>5

LEMMA EmitTwiceWell ==
    ASSUME NEW c \in [BB -> Seq(Instr)], TermsLast(c), NEW a \in BB, NEW b \in BB \cup {NoBB},
           a # b, OpenAt(c, a), OpenAt(c, b),
           NEW s \in Seq(Instr), WellEnded(s), NEW t \in Seq(Instr), WellEnded(t),
           NEW d, d = Emit(Emit(c, a, s), b, t)
    PROVE  TermsLast(d) /\ SameBut(c, d, {a, b})
<1> DEFINE m == Emit(c, a, s)
<1>1. m \in [BB -> Seq(Instr)] /\ TermsLast(m) /\ SameBut(c, m, {a})
  BY EmitWell
<1>2. d = Emit(m, b, t)
  OBVIOUS
<1> HIDE DEF m
<1>3. OpenAt(m, b)
  BY <1>1 DEF SameBut, OpenAt
<1>4. TermsLast(d) /\ SameBut(m, d, {b})
  BY <1>1, <1>2, <1>3, EmitWell
<1> QED
  BY <1>1, <1>4 DEF SameBut

\* An alloca at the insertion point, and instructions that end nothing.
LEMMA AllocaTerms ==
    ASSUME NEW c \in [BB -> Seq(Instr)], TermsLast(c), NEW a \in BB, ~HasTerminator(c[a]),
           NEW s \in Seq(Instr), Unended(s),
           NEW d, d = Emit(Emit(c, a, <<Alloca>>), a, s)
    PROVE  TermsLast(d) /\ ~HasTerminator(d[a])
<1> DEFINE m == Emit(c, a, <<Alloca>>)
<1>1. <<Alloca>> \in Seq(Instr) /\ Unended(<<Alloca>>)
  BY InstrType, OneElem DEF Unended, Alloca, IsTerm
<1>2. WellEnded(<<Alloca>>) /\ ~HasTerminator(<<Alloca>>)
  BY <1>1, UnendedOpen
<1>3. m \in [BB -> Seq(Instr)] /\ TermsLast(m) /\ ~HasTerminator(m[a])
  BY <1>1, <1>2, EmitWell DEF OpenAt
<1>4. d = Emit(m, a, s)
  OBVIOUS
<1> HIDE DEF m
<1>5. OpenAt(m, a) /\ WellEnded(s) /\ ~HasTerminator(s)
  BY <1>3, UnendedOpen DEF OpenAt
<1> QED
  BY <1>3, <1>4, <1>5, EmitWell

\* A branch or a return after what an expression emits.
LEMMA EndedCode ==
    ASSUME NEW bl \in Seq(Scope), NEW e, ~Throws(bl, e), NEW i \in Instr
    PROVE  /\ Append(ExprCode(bl, e), i) \in Seq(Instr)
           /\ WellEnded(Append(ExprCode(bl, e), i))
           /\ ExprCode(bl, e) \in Seq(Instr) /\ Unended(ExprCode(bl, e))
           /\ ~IsTerm(i) => Unended(Append(ExprCode(bl, e), i))
<1> DEFINE s == ExprCode(bl, e)
           t == Append(s, i)
<1>1. s \in Seq(Instr) /\ Unended(s)
  BY ExprCodeType, ExprCodeElems DEF Unended
<1> HIDE DEF s
<1>2. /\ t \in Seq(Instr) /\ Len(t) = Len(s) + 1 /\ Len(s) \in Nat
      /\ \A k \in 1..Len(s) : t[k] = s[k]
  BY <1>1, Pushed
<1>3. Elems(t) = Elems(s) \cup {i}
  BY <1>1, AppendElems
<1> HIDE DEF t
<1>4. \A k \in 1..Len(t) : k = Len(t) \/ k \in 1..Len(s)
  BY <1>2
<1>5. WellEnded(t)
  BY <1>1, <1>2, <1>4 DEF WellEnded, Unended, Elems
<1>6. ~IsTerm(i) => Unended(t)
  BY <1>1, <1>3 DEF Unended
<1> QED
  BY <1>1, <1>2, <1>5, <1>6 DEF s, t

LEMMA OneEnded ==
    ASSUME NEW i \in Instr
    PROVE  /\ <<i>> \in Seq(Instr) /\ WellEnded(<<i>>) /\ (~IsTerm(i) => Unended(<<i>>))
           /\ <<>> \in Seq(Instr) /\ WellEnded(<<>>) /\ Unended(<<>>)
<1>1. WellEnded(<<i>>) /\ WellEnded(<<>>)
  BY DEF WellEnded
<1>2. (~IsTerm(i) => Unended(<<i>>)) /\ Unended(<<>>)
  BY OneElem, NoElem DEF Unended
<1> QED
  BY <1>1, <1>2

----------------------------------------------------------------------------
\* How a step keeps the invariant.

\* The insertion point is open, unless a body has returned.
LEMMA OpenHere ==
    ASSUME IInv, WInv, status = "running", Top.kind # "prog",
           Top.kind = "body" => ~HasTerminator(instrs[insertBB])
    PROVE  insertBB \in BB /\ ~HasTerminator(instrs[insertBB]) /\ currentFunc # NoFunc
BY TopFacts DEF WInv, BuilderOpen

\* The handlers that called others are left as they are, and one may join them.
LEMMA CallersKept ==
    ASSUME CallersBranched, NEW n \in Nat, Len(frames) = n, Len(frames') = n \/ Len(frames') = n + 1,
           \A i \in 1..(n - 1) : frames'[i] = frames[i],
           Len(frames') = n + 1 /\ n > 1 => frames'[n].branched /\ frames'[n].kind # "params"
    PROVE  CallersBranched'
<1> SUFFICES ASSUME NEW i \in 2..(Len(frames') - 1)
             PROVE  frames'[i].branched /\ frames'[i].kind # "params"
  BY DEF CallersBranched
<1>1. CASE i \in 2..(n - 1)
  BY <1>1 DEF CallersBranched
<1>2. CASE i \notin 2..(n - 1)
  <2>1. i = n /\ Len(frames') = n + 1 /\ n > 1
    BY <1>2
  <2> QED
    BY <2>1
<1> QED
  BY <1>1, <1>2

\* The top handler takes a child: what it was and what it has become.
LEMMA TookMarks ==
    ASSUME frames \in Seq(FrameRec), frames # <<>>, NEW m \in BOOLEAN
    PROVE  /\ Took(m) \in Seq(FrameRec) /\ Len(Took(m)) = Len(frames)
           /\ Len(frames) \in 1..Len(frames) /\ Len(frames) \in Nat
           /\ \A i \in 1..(Len(frames) - 1) : Took(m)[i] = frames[i]
           /\ Took(m)[Len(frames)].branched = (Top.branched \/ m)
           /\ Took(m)[Len(frames)].kind = Top.kind
           /\ Took(m)[Len(frames)].bb = Top.bb
<1> DEFINE n == Len(frames)
           h == [Top EXCEPT !.begun = TRUE, !.branched = @ \/ m]
<1>1. n \in 1..n /\ n \in Nat /\ Top \in FrameRec
  BY EmptySeq, ElementOfSeq DEF Top
<1>2. h \in FrameRec /\ h.kind = Top.kind /\ h.bb = Top.bb /\ h.branched = (Top.branched \/ m)
  BY <1>1 DEF FrameRec
<1>3. Took(m) = [frames EXCEPT ![n] = h]
  BY DEF Took
<1> HIDE DEF h
<1>4. /\ Took(m) \in Seq(FrameRec) /\ Len(Took(m)) = n
      /\ \A i \in 1..n : Took(m)[i] = IF i = n THEN h ELSE frames[i]
  BY <1>1, <1>2, <1>3, ExceptSeq
<1>5. \A i \in 1..(n - 1) : i \in 1..n /\ i # n
  BY <1>1
<1> QED
  BY <1>1, <1>2, <1>4, <1>5

----------------------------------------------------------------------------
\* The steps of statements.

\* A statement that opens a scope.
LEMMA BeginTerms ==
    ASSUME IInv, IInv', BInv, WInv, AnyStmt, NEW kind \in {"block", "then", "forinit"},
           NEW b, b = nbb + 1, b \in BB, insertBB' = b, inDef' = inDef,
           Calls(Frame(kind, b)),
           NEW s \in Seq(Instr), WellEnded(s), instrs' = Emit(instrs, insertBB, s)
    PROVE  WInv'
<1> DEFINE n == Len(frames)
           h == Frame(kind, b)
<1>1. Running /\ InStmts /\ (Top.kind = "body" => ~HasTerminator(instrs[insertBB]))
  BY DEF AnyStmt, StmtPosition
<1>2. /\ status = "running" /\ ~inDef /\ Top.kind \notin {"prog", "params", "for"}
      /\ frames \in Seq(FrameRec) /\ frames # <<>> /\ instrs \in [BB -> Seq(Instr)]
  BY <1>1, StmtFacts DEF IInv, TypeOK
<1>3. insertBB \in BB /\ ~HasTerminator(instrs[insertBB]) /\ currentFunc # NoFunc
  BY <1>1, <1>2, OpenHere
<1>4. n \in Nat /\ n > 1
  BY <1>2, TopFacts
<1>5. instrs[b] = <<>> /\ b # insertBB
  <2>1. owner[b] = NoFunc
    BY DEF IInv, TypeOK, BInv, FreshBlocks
  <2>2. owner[insertBB] # NoFunc
    BY <1>3 DEF IInv, InCurrentFunc
  <2> QED
    BY <2>1, <2>2 DEF BInv, FreshBlocks
<1>6. TermsLast(instrs') /\ SameBut(instrs, instrs', {insertBB})
  <2>1. OpenAt(instrs, insertBB) /\ insertBB \in BB \cup {NoBB} /\ TermsLast(instrs)
    BY <1>3 DEF OpenAt, WInv
  <2> QED
    BY <1>2, <2>1, EmitWell
<1>7. ~HasTerminator(instrs'[insertBB'])
  BY <1>5, <1>6 DEF SameBut, HasTerminator
<1>8. h \in FrameRec /\ h.kind = kind /\ h.bb = b
  BY FrameType DEF FrameKinds, ListKinds
<1>9. /\ Len(frames') = n + 1 /\ frames'[n + 1] = h
      /\ \A i \in 1..(n - 1) : frames'[i] = frames[i]
      /\ frames'[n].branched /\ frames'[n].kind = Top.kind
  <2> DEFINE fr == Took(TRUE)
  <2>1. /\ fr \in Seq(FrameRec) /\ Len(fr) = n /\ fr[n].branched /\ fr[n].kind = Top.kind
        /\ \A i \in 1..(n - 1) : fr[i] = frames[i]
    BY <1>2, TookMarks
  <2>2. frames' = Append(fr, h)
    BY DEF Calls
  <2> HIDE DEF fr, h
  <2>3. Len(frames') = n + 1 /\ frames'[n + 1] = h /\ \A i \in 1..n : frames'[i] = fr[i]
    BY <1>8, <2>1, <2>2, Pushed
  <2>4. n \in 1..n /\ \A i \in 1..(n - 1) : i \in 1..n
    BY <1>4
  <2> QED
    BY <2>1, <2>3, <2>4
<1> HIDE DEF h
<1>10. CallersBranched'
  BY <1>2, <1>4, <1>9, CallersKept DEF WInv
<1>11. Top' = h
  BY <1>9 DEF Top
<1>12. BuilderOpen' /\ BuilderAtScope' /\ DefsEarly'
  BY <1>2, <1>7, <1>8, <1>11 DEF BuilderOpen, BuilderAtScope, DefsEarly
<1> QED
  BY <1>6, <1>10, <1>12 DEF WInv

LEMMA BeginStmtTerms ==
    ASSUME IInv, IInv', BInv, WInv, BeginBlock \/ BeginFor \/ \E c \in Exprs : BeginIf(c)
    PROVE  WInv'
<1> DEFINE b == nbb + 1
<1>1. AnyStmt /\ insertBB' = b /\ inDef' = inDef /\ blocks \in Seq(Scope)
  BY DEF BeginBlock, BeginFor, BeginIf, Place, IInv, TypeOK
<1>2. nbb \in Nat /\ MaxBB \in Nat
  BY MaxBBAssumption DEF IInv, TypeOK
<1>0. b \in BB
  <2>1. b <= MaxBB
    <3>1. BeginBlock => b <= MaxBB
      BY DEF BeginBlock
    <3>2. BeginFor => b + 4 <= MaxBB
      BY DEF BeginFor
    <3>3. \A c \in Exprs : BeginIf(c) => b + 2 <= MaxBB
      BY DEF BeginIf
    <3> QED
      BY <1>2, <3>1, <3>2, <3>3
  <2> QED
    BY <1>2, <2>1 DEF BB
<1>3. CASE BeginBlock
  <2>1. Calls(Frame("block", b)) /\ instrs' = Emit(instrs, insertBB, <<Br(b)>>)
    BY <1>3 DEF BeginBlock, Calls
  <2>2. <<Br(b)>> \in Seq(Instr) /\ WellEnded(<<Br(b)>>)
    BY <1>0, InstrType, OneEnded
  <2> QED
    BY <1>0, <1>1, <2>1, <2>2, BeginTerms
<1>4. CASE BeginFor
  <2>1. Calls(Frame("forinit", b)) /\ instrs' = Emit(instrs, insertBB, <<Br(b)>>)
    BY <1>4 DEF BeginFor, Calls
  <2>2. <<Br(b)>> \in Seq(Instr) /\ WellEnded(<<Br(b)>>)
    BY <1>0, InstrType, OneEnded
  <2> QED
    BY <1>0, <1>1, <2>1, <2>2, BeginTerms
<1>5. ASSUME NEW c \in Exprs, BeginIf(c)
      PROVE  WInv'
  <2> DEFINE s == Append(ExprCode(blocks, c), CondBr(b, b + 1))
  <2>1. Calls(Frame("then", b)) /\ instrs' = Emit(instrs, insertBB, s) /\ ~Throws(blocks, c)
    BY <1>5 DEF BeginIf, Calls
  <2>2. CondBr(b, b + 1) \in Instr
    <3>1. b + 1 \in BB
      BY <1>2, <1>5 DEF BeginIf, BB
    <3> QED
      BY <1>0, <3>1, InstrType
  <2>3. s \in Seq(Instr) /\ WellEnded(s)
    BY <1>1, <2>1, <2>2, EndedCode
  <2> HIDE DEF s
  <2> QED
    BY <1>0, <1>1, <2>1, <2>3, BeginTerms
<1> QED
  BY <1>3, <1>4, <1>5

\* A handler is left, with the Builder at an open block.
LEMMA EndTerms ==
    ASSUME IInv, WInv, Running, Top.kind \in {"block", "then", "else", "loopbody"},
           NEW k \in {1, 2}, Returns(k), LeavesTwo(k), inDef' = inDef,
           TermsLast(instrs'), ~HasTerminator(instrs'[insertBB'])
    PROVE  WInv'
<1> DEFINE n == Len(frames)
           m == n - k
<1>1. /\ ~inDef /\ frames \in Seq(FrameRec) /\ n \in Nat /\ n > 2 /\ (k = 2 => n > 3)
  BY CloseFacts DEF LeavesTwo
<1>2. Len(frames') = m /\ \A i \in 1..m : frames'[i] = frames[i]
  <2>1. k \in 1..Len(frames)
    BY <1>1
  <2> QED
    BY <1>1, <2>1, Popped DEF Returns
<1>3. m \in Nat /\ m > 1 /\ m \in 1..m /\ m \in 2..(n - 1)
  BY <1>1
<1>4. CallersBranched'
  <2>1. \A i \in 2..(m - 1) : i \in 1..m /\ i \in 2..(n - 1)
    BY <1>1, <1>3
  <2> QED
    BY <1>2, <2>1 DEF WInv, CallersBranched
<1>5. Top'.branched /\ Top'.kind # "params"
  <2>1. frames[m].branched /\ frames[m].kind # "params"
    BY <1>3 DEF WInv, CallersBranched
  <2>2. Top' = frames[m]
    BY <1>2, <1>3 DEF Top
  <2> QED
    BY <2>1, <2>2
<1>6. BuilderOpen' /\ BuilderAtScope' /\ DefsEarly'
  BY <1>1, <1>5 DEF BuilderOpen, BuilderAtScope, DefsEarly
<1> QED
  BY <1>4, <1>6 DEF WInv

\* The code of a step that leaves the insertion point with a branch.
LEMMA Leaving ==
    ASSUME IInv, BInv, WInv, insertBB \in BB, ~HasTerminator(instrs[insertBB]),
           NEW b \in BB \cup {NoBB}, OpenAt(instrs, b), b # insertBB,
           NEW u \in BB, instrs[u] = <<>>, u # insertBB, u # b, insertBB' = u,
           NEW s \in Seq(Instr), WellEnded(s), NEW t \in Seq(Instr), WellEnded(t),
           Appends(s, b, t)
    PROVE  TermsLast(instrs') /\ ~HasTerminator(instrs'[insertBB'])
<1>1. TermsLast(instrs') /\ SameBut(instrs, instrs', {insertBB, b})
  <2>1. instrs \in [BB -> Seq(Instr)] /\ TermsLast(instrs) /\ OpenAt(instrs, insertBB)
    BY DEF IInv, TypeOK, WInv, OpenAt
  <2> QED
    BY <2>1, EmitTwiceWell DEF Appends
<1> QED
  BY <1>1 DEF SameBut, HasTerminator

LEMMA EndStmtTerms ==
    ASSUME IInv, IInv', BInv, WInv, EndBlock \/ EndThen \/ EndElse
    PROVE  WInv'
<1> DEFINE b == Top.bb
<1>1. Running /\ Top.kind \in {"block", "then", "else"} /\ status = "running"
  BY DEF EndBlock, EndThen, EndElse, Running
<1>2. /\ b \in BB /\ b + Ahead(Top.kind) <= MaxBB /\ Top = frames[Len(frames)]
      /\ Len(frames) \in 1..Len(frames)
  BY <1>1, CloseFacts
<1>3. insertBB \in BB /\ ~HasTerminator(instrs[insertBB]) /\ currentFunc # NoFunc
  BY <1>1, OpenHere
<1>4. Returns(1) /\ LeavesTwo(1) /\ inDef' = inDef
  BY <1>1 DEF EndBlock, EndThen, EndElse, Returns, LeavesTwo, PopFrame
<1>5. CASE EndBlock
  <2>1. instrs' = instrs /\ insertBB' = insertBB
    BY <1>5 DEF EndBlock, code
  <2> QED
    BY <1>1, <1>3, <1>4, <2>1, EndTerms DEF WInv
<1>6. CASE EndThen
  <2>1. ToInsert(frames[Len(frames)]) = {b + 1, b + 2}
    BY <1>2, <1>6 DEF EndThen, ToInsert
  <2>2. /\ b + 1 \in BB /\ ~HasTerminator(instrs[b + 1]) /\ b + 1 # insertBB
        /\ b + 2 \in BB /\ instrs[b + 2] = <<>> /\ b + 2 # insertBB /\ b + 2 # b + 1
    <3>1. b + 2 # b + 1
      BY <1>2 DEF BB
    <3> QED
      BY <1>2, <1>3, <2>1, <3>1, WaitingEmpty
  <2>3. <<Br(b + 2)>> \in Seq(Instr) /\ WellEnded(<<Br(b + 2)>>)
    BY <2>2, InstrType, OneEnded
  <2>4. Appends(<<Br(b + 2)>>, b + 1, <<Br(b + 2)>>) /\ insertBB' = b + 2
    BY <1>6 DEF EndThen, Appends
  <2>5. OpenAt(instrs, b + 1)
    BY <2>2 DEF OpenAt
  <2>6. TermsLast(instrs') /\ ~HasTerminator(instrs'[insertBB'])
    BY <1>3, <2>2, <2>3, <2>4, <2>5, Leaving
  <2> QED
    BY <1>1, <1>4, <2>6, EndTerms
<1>7. CASE EndElse
  <2>1. ToInsert(frames[Len(frames)]) = {b + 1}
    BY <1>2, <1>7 DEF EndElse, ToInsert
  <2>2. /\ b + 1 \in BB /\ instrs[b + 1] = <<>> /\ b + 1 # insertBB
        /\ NoBB # insertBB /\ b + 1 # NoBB
    BY <1>2, <1>3, <2>1, WaitingEmpty DEF BB, NoBB
  <2>3. /\ <<Br(b + 1)>> \in Seq(Instr) /\ WellEnded(<<Br(b + 1)>>)
        /\ <<>> \in Seq(Instr) /\ WellEnded(<<>>)
    BY <2>2, InstrType, OneEnded
  <2>4. Appends(<<Br(b + 1)>>, NoBB, <<>>) /\ insertBB' = b + 1
    BY <1>7, EmitNowhere DEF EndElse, Appends, Place
  <2>5. OpenAt(instrs, NoBB) /\ NoBB \in BB \cup {NoBB}
    BY DEF OpenAt, BB, NoBB
  <2>6. TermsLast(instrs') /\ ~HasTerminator(instrs'[insertBB'])
    BY <1>3, <2>2, <2>3, <2>4, <2>5, Leaving
  <2> QED
    BY <1>1, <1>4, <2>6, EndTerms
<1> QED
  BY <1>5, <1>6, <1>7

LEMMA EndForTerms ==
    ASSUME IInv, IInv', BInv, WInv, NEW c \in Exprs \cup {NoExpr}, EndFor(c)
    PROVE  WInv'
<1> DEFINE n == Len(frames)
           b == frames[n - 1].bb
           loop == PopBasicBlock(blocks)
           s == <<Br(b + 3)>>
           t == Append(ExprCode(loop, c), Br(b + 1))
<1>1. Running /\ Top.kind = "loopbody" /\ status = "running"
  BY DEF EndFor, Running
<1>2. /\ frames \in Seq(FrameRec) /\ n \in Nat /\ n > 3 /\ frames[n - 1].kind = "for"
      /\ blocks \in Seq(Scope) /\ Len(blocks) = n
  BY <1>1, CloseFacts
<1>3. n - 1 \in 1..n
  BY <1>2
<1>4. insertBB \in BB /\ ~HasTerminator(instrs[insertBB]) /\ currentFunc # NoFunc
  BY <1>1, OpenHere
<1>5. ToInsert(frames[n - 1]) = {b + 3, b + 4}
  BY <1>2 DEF ToInsert
<1>6. b \in BB /\ b + 1 \in BB
  <2>1. b \in BB
    <3>1. frames[n - 1] \in FrameRec
      BY <1>2, <1>3, ElementOfSeq
    <3> QED
      BY <3>1 DEF FrameRec
  <2>2. b + Ahead(frames[n - 1].kind) <= nbb /\ nbb \in 0..MaxBB
    BY <1>3 DEF IInv, HandlersNested, WellNested, TypeOK
  <2> QED
    BY <1>2, <2>1, <2>2, MaxBBAssumption DEF BB, Ahead
<1>7. /\ b + 3 \in BB /\ ~HasTerminator(instrs[b + 3]) /\ b + 3 # insertBB
      /\ b + 4 \in BB /\ instrs[b + 4] = <<>> /\ b + 4 # insertBB
  BY <1>3, <1>4, <1>5, WaitingEmpty
<1>8. b + 4 # b + 3 /\ OpenAt(instrs, b + 3)
  BY <1>6, <1>7 DEF BB, OpenAt
<1>9. /\ Appends(s, b + 3, t) /\ insertBB' = b + 4 /\ Returns(2) /\ LeavesTwo(2)
      /\ inDef' = inDef /\ ~Throws(loop, c)
  BY <1>1 DEF EndFor, Appends, Returns, LeavesTwo
<1>10. loop \in Seq(Scope)
  BY <1>2, Popped DEF PopBasicBlock
<1> HIDE DEF b, loop
<1>11. s \in Seq(Instr) /\ WellEnded(s)
  BY <1>7, InstrType, OneEnded
<1>12. t \in Seq(Instr) /\ WellEnded(t)
  BY <1>6, <1>9, <1>10, InstrType, EndedCode
<1> HIDE DEF s, t
<1>13. TermsLast(instrs') /\ ~HasTerminator(instrs'[insertBB'])
  BY <1>4, <1>7, <1>8, <1>9, <1>11, <1>12, Leaving
<1> QED
  BY <1>1, <1>9, <1>13, EndTerms

\* From the then branch to the else branch.
LEMMA ThenElseTerms ==
    ASSUME IInv, IInv', BInv, WInv, ThenElse
    PROVE  WInv'
<1> DEFINE b == Top.bb
           n == Len(frames)
           e == Frame("else", b + 1)
<1>1. Running /\ Top.kind = "then" /\ status = "running" /\ ~inDef
  BY DEF ThenElse, Running
<1>2. /\ frames \in Seq(FrameRec) /\ n \in Nat /\ n > 2 /\ Top = frames[n] /\ b \in BB
      /\ n \in 1..n
  BY <1>1, CloseFacts
<1>3. insertBB \in BB /\ ~HasTerminator(instrs[insertBB]) /\ currentFunc # NoFunc
  BY <1>1, OpenHere
<1>4. ToInsert(frames[n]) = {b + 1, b + 2}
  BY <1>1, <1>2 DEF ToInsert
<1>5. b + 1 \in BB /\ b + 2 \in BB /\ instrs[b + 1] = <<>> /\ b + 1 # insertBB
  BY <1>2, <1>3, <1>4, WaitingEmpty
<1>6. /\ <<Br(b + 2)>> \in Seq(Instr) /\ WellEnded(<<Br(b + 2)>>)
      /\ <<>> \in Seq(Instr) /\ WellEnded(<<>>)
  BY <1>5, InstrType, OneEnded
<1>7. Appends(<<Br(b + 2)>>, NoBB, <<>>) /\ insertBB' = b + 1 /\ inDef' = inDef
  BY EmitNowhere DEF ThenElse, Appends, Place
<1>8. OpenAt(instrs, NoBB) /\ NoBB \in BB \cup {NoBB} /\ NoBB # insertBB /\ b + 1 # NoBB
  BY <1>3, <1>5 DEF OpenAt, BB, NoBB
<1>9. TermsLast(instrs') /\ ~HasTerminator(instrs'[insertBB'])
  BY <1>3, <1>5, <1>6, <1>7, <1>8, Leaving
<1>10. e \in FrameRec /\ e.kind = "else" /\ e.bb = b + 1
  BY <1>5, FrameType DEF FrameKinds
<1>11. Len(frames') = n /\ frames'[n] = e /\ \A i \in 1..(n - 1) : frames'[i] = frames[i]
  <2> DEFINE fr == PopFrame
  <2>1. fr \in Seq(FrameRec) /\ Len(fr) = n - 1 /\ \A i \in 1..(n - 1) : fr[i] = frames[i]
    BY <1>2, Popped DEF PopFrame
  <2>2. frames' = Append(fr, e)
    BY DEF ThenElse
  <2> HIDE DEF fr, e
  <2>3. Len(frames') = (n - 1) + 1 /\ frames'[(n - 1) + 1] = e
        /\ \A i \in 1..(n - 1) : frames'[i] = fr[i]
    BY <1>10, <2>1, <2>2, Pushed
  <2>4. (n - 1) + 1 = n
    BY <1>2
  <2> QED
    BY <2>1, <2>3, <2>4
<1> HIDE DEF e
<1>12. CallersBranched'
  <2>1. Len(frames') # n + 1
    BY <1>2, <1>11
  <2> QED
    BY <1>2, <1>11, <2>1, CallersKept DEF WInv
<1>13. Top' = e
  BY <1>11 DEF Top
<1>14. BuilderOpen' /\ BuilderAtScope' /\ DefsEarly'
  BY <1>1, <1>7, <1>9, <1>10, <1>13 DEF BuilderOpen, BuilderAtScope, DefsEarly
<1> QED
  BY <1>9, <1>12, <1>14 DEF WInv

\* From the initialization of a for statement to its loop body.
LEMMA ForConditionTerms ==
    ASSUME IInv, IInv', BInv, WInv, NEW c \in Exprs \cup {NoExpr}, ForCondition(c)
    PROVE  WInv'
<1> DEFINE b == Top.bb
           n == Len(frames)
           h == [Top EXCEPT !.kind = "for", !.branched = TRUE]
           e == Frame("loopbody", b + 2)
           exit == IF c = NoExpr THEN Br(b + 2) ELSE CondBr(b + 2, b + 4)
           s == <<Br(b + 1)>>
           t == Append(ExprCode(blocks, c), exit)
<1>1. /\ status = "running" /\ ~inDef /\ Top.kind = "forinit" /\ ~Throws(blocks, c)
      /\ inDef' = inDef
  BY DEF ForCondition, Running
<1>2. /\ frames \in Seq(FrameRec) /\ blocks \in Seq(Scope)
      /\ n \in Nat /\ n > 1 /\ n \in 1..n /\ Top = frames[n] /\ Top \in FrameRec /\ b \in BB
  BY <1>1, TopFacts DEF FrameRec
<1>3. insertBB \in BB /\ ~HasTerminator(instrs[insertBB]) /\ currentFunc # NoFunc
  BY <1>1, OpenHere
<1>4. ToInsert(frames[n]) = {b + 1, b + 2, b + 3, b + 4}
  BY <1>1, <1>2 DEF ToInsert
<1>5. /\ b + 1 \in BB /\ ~HasTerminator(instrs[b + 1]) /\ b + 1 # insertBB
      /\ b + 2 \in BB /\ instrs[b + 2] = <<>> /\ b + 2 # insertBB /\ b + 4 \in BB
  BY <1>2, <1>3, <1>4, WaitingEmpty
<1>6. b + 2 # b + 1 /\ OpenAt(instrs, b + 1)
  BY <1>2, <1>5 DEF BB, OpenAt
<1>7. Appends(s, b + 1, t) /\ insertBB' = b + 2
  BY DEF ForCondition, Appends
<1>8. s \in Seq(Instr) /\ WellEnded(s)
  BY <1>5, InstrType, OneEnded
<1>9. t \in Seq(Instr) /\ WellEnded(t)
  <2>1. exit \in Instr
    BY <1>5, InstrType
  <2> HIDE DEF exit
  <2> QED
    BY <1>1, <1>2, <2>1, EndedCode
<1> HIDE DEF s, t
<1>10. TermsLast(instrs') /\ ~HasTerminator(instrs'[insertBB'])
  BY <1>3, <1>5, <1>6, <1>7, <1>8, <1>9, Leaving
<1>11. h \in FrameRec /\ h.kind = "for" /\ h.branched
  BY <1>2 DEF FrameRec, FrameKinds
<1>12. e \in FrameRec /\ e.kind = "loopbody" /\ e.bb = b + 2
  BY <1>5, FrameType DEF FrameKinds
<1>13. /\ Len(frames') = n + 1 /\ frames'[n] = h /\ frames'[n + 1] = e
       /\ \A i \in 1..(n - 1) : frames'[i] = frames[i]
  <2> DEFINE fr == [frames EXCEPT ![n] = h]
  <2>1. frames' = Append(fr, e)
    BY DEF ForCondition
  <2> HIDE DEF h, e
  <2>2. /\ fr \in Seq(FrameRec) /\ Len(fr) = n
        /\ \A i \in 1..n : fr[i] = IF i = n THEN h ELSE frames[i]
    BY <1>2, <1>11, ExceptSeq
  <2> HIDE DEF fr
  <2>3. /\ Len(frames') = n + 1 /\ frames'[n + 1] = e
        /\ \A i \in 1..n : frames'[i] = fr[i]
    BY <1>12, <2>1, <2>2, Pushed
  <2>4. n \in 1..n /\ \A i \in 1..(n - 1) : i \in 1..n /\ i # n
    BY <1>2
  <2> QED
    BY <2>2, <2>3, <2>4, Zenon
<1> HIDE DEF h, e
<1>14. CallersBranched'
  <2>1. frames'[n].branched /\ frames'[n].kind # "params"
    BY <1>11, <1>13
  <2> QED
    BY <1>2, <1>13, <2>1, CallersKept DEF WInv
<1>15. Top' = e
  BY <1>13 DEF Top
<1>16. BuilderOpen' /\ BuilderAtScope' /\ DefsEarly'
  BY <1>1, <1>7, <1>10, <1>12, <1>15 DEF BuilderOpen, BuilderAtScope, DefsEarly
<1> QED
  BY <1>10, <1>14, <1>16 DEF WInv

----------------------------------------------------------------------------
\* The steps that open and leave no handler of a statement.

\* The handlers stay, the top one in the same state but that a child is taken.
Stays ==
    /\ Len(frames') = Len(frames)
    /\ \A i \in 1..(Len(frames) - 1) : frames'[i] = frames[i]
    /\ Top'.branched = Top.branched /\ Top'.kind = Top.kind /\ Top'.bb = Top.bb

LEMMA StaysTop ==
    ASSUME frames \in Seq(FrameRec), frames # <<>>, frames' = frames \/ frames' = Took(FALSE)
    PROVE  Stays
<1>1. CASE frames' = frames
  <2>1. Top' = Top
    BY <1>1 DEF Top
  <2> QED
    BY <1>1, <2>1, Zenon DEF Stays
<1>2. CASE frames' = Took(FALSE)
  <2> DEFINE fr == Took(FALSE)
             n  == Len(frames)
  <2>1. /\ fr \in Seq(FrameRec) /\ Len(fr) = n
        /\ \A i \in 1..(n - 1) : fr[i] = frames[i]
        /\ fr[n].branched = (Top.branched \/ FALSE) /\ fr[n].kind = Top.kind /\ fr[n].bb = Top.bb
    BY TookMarks
  <2> HIDE DEF fr
  <2>2. frames' = fr
    BY <1>2 DEF fr
  <2>3. Top' = fr[n]
    BY <2>1, <2>2 DEF Top
  <2>4. Top \in FrameRec
    BY EmptySeq, ElementOfSeq DEF Top
  <2>5. (Top.branched \/ FALSE) = Top.branched
    BY <2>4 DEF FrameRec
  <2>6. Len(frames') = n /\ \A i \in 1..(n - 1) : frames'[i] = frames[i]
    BY <2>1, <2>2
  <2>7. Top'.branched = Top.branched /\ Top'.kind = Top.kind /\ Top'.bb = Top.bb
    BY <2>1, <2>3, <2>5, Zenon
  <2> QED
    BY <2>6, <2>7, Zenon DEF Stays
<1> QED
  BY <1>1, <1>2

LEMMA StaysTerms ==
    ASSUME frames \in Seq(FrameRec), WInv, Stays, UNCHANGED <<currentFunc, insertBB>>,
           TermsLast(instrs'),
           HasTerminator(instrs'[insertBB]) =>
              \/ currentFunc = NoFunc
              \/ Top.kind = "body" /\ ~inDef',
           inDef' => Len(frames) > 1 /\ ~Top.branched
    PROVE  WInv'
<1>1. CallersBranched'
  <2>1. Len(frames) \in Nat /\ Len(frames') = Len(frames)
        /\ \A i \in 1..(Len(frames) - 1) : frames'[i] = frames[i]
    BY DEF Stays
  <2>2. Len(frames') # Len(frames) + 1
    BY <2>1
  <2> QED
    BY <2>1, <2>2, CallersKept DEF WInv
<1>2. BuilderOpen'
  BY DEF BuilderOpen, Stays
<1>3. BuilderAtScope'
  BY DEF WInv, BuilderAtScope, Stays
<1>4. DefsEarly'
  BY DEF DefsEarly, Stays
<1> QED
  BY <1>1, <1>2, <1>3, <1>4 DEF WInv

LEMMA PlainStmtTerms ==
    ASSUME Disciplined, IInv, IInv', BInv, WInv,
           EmptyStmt \/ \E e \in Exprs \cup {NoExpr} : ExprStmt(e) \/ Return(e)
    PROVE  WInv'
<1>1. Running /\ InStmts
  BY DEF EmptyStmt, ExprStmt, Return, ReturnPosition, AnyStmt, StmtPosition
<1>2. /\ status = "running" /\ ~inDef /\ Top.kind # "prog" /\ frames # <<>>
      /\ frames \in Seq(FrameRec) /\ blocks \in Seq(Scope) /\ instrs \in [BB -> Seq(Instr)]
  BY <1>1, StmtFacts DEF IInv, TypeOK
<1>3. frames' = Took(FALSE) /\ UNCHANGED <<currentFunc, insertBB, inDef>>
  BY DEF EmptyStmt, ExprStmt, Return, func, code
<1>4. Stays
  BY <1>2, <1>3, StaysTop
<1>5. CASE EmptyStmt
  <2>1. instrs' = instrs
    BY <1>5 DEF EmptyStmt, code
  <2> QED
    BY <1>2, <1>3, <1>4, <2>1, StaysTerms DEF WInv, BuilderOpen
<1>6. ASSUME NEW e \in Exprs \cup {NoExpr}, ExprStmt(e)
      PROVE  WInv'
  <2>1. Top.kind = "body" => ~HasTerminator(instrs[insertBB])
    BY <1>6 DEF ExprStmt, StmtPosition
  <2>2. insertBB \in BB /\ ~HasTerminator(instrs[insertBB])
    BY <1>2, <2>1, OpenHere
  <2>3. /\ ExprCode(blocks, e) \in Seq(Instr) /\ Unended(ExprCode(blocks, e))
        /\ instrs' = Emit(instrs, insertBB, ExprCode(blocks, e))
    BY <1>2, <1>6, InstrType, EndedCode DEF ExprStmt
  <2>4. /\ TermsLast(instrs') /\ ~HasTerminator(instrs'[insertBB])
    <3>1. OpenAt(instrs, insertBB) /\ insertBB \in BB \cup {NoBB} /\ TermsLast(instrs)
      BY <2>2 DEF OpenAt, WInv
    <3>2. WellEnded(ExprCode(blocks, e)) /\ ~HasTerminator(ExprCode(blocks, e))
      BY <2>3, UnendedOpen
    <3> QED
      BY <1>2, <2>2, <2>3, <3>1, <3>2, EmitWell
  <2> QED
    BY <1>2, <1>3, <1>4, <2>4, StaysTerms
<1>7. ASSUME NEW e \in Exprs \cup {NoExpr}, Return(e)
      PROVE  WInv'
  <2>1. Top.kind = "body" /\ ~HasTerminator(instrs[insertBB])
    BY <1>7 DEF Return, ReturnPosition, AnyStmt, StmtPosition, Disciplined
  <2>2. insertBB \in BB /\ ~HasTerminator(instrs[insertBB])
    BY <1>2, <2>1, OpenHere
  <2> DEFINE s == Append(ExprCode(blocks, e), Ret)
  <2>3. s \in Seq(Instr) /\ WellEnded(s) /\ instrs' = Emit(instrs, insertBB, s)
    BY <1>2, <1>7, InstrType, EndedCode DEF Return
  <2> HIDE DEF s
  <2>4. TermsLast(instrs')
    <3>1. OpenAt(instrs, insertBB) /\ insertBB \in BB \cup {NoBB} /\ TermsLast(instrs)
      BY <2>2 DEF OpenAt, WInv
    <3> QED
      BY <1>2, <2>3, <3>1, EmitWell
  <2> QED
    BY <1>2, <1>3, <1>4, <2>1, <2>4, StaysTerms
<1> QED
  BY <1>5, <1>6, <1>7

\* An alloca is emitted only while the scope is at the insertion point.
LEMMA ParamTerms ==
    ASSUME IInv, IInv', BInv, WInv, NEW v \in Vars, AddParam(v)
    PROVE  WInv'
<1> DEFINE home == GetCurrentBlock
           p == <<home, Len(instrs[home]) + 1>>
<1>1. status = "running" /\ ~inDef /\ Top.kind = "params"
  BY DEF AddParam, Running
<1>2. /\ frames \in Seq(FrameRec) /\ frames # <<>> /\ instrs \in [BB -> Seq(Instr)]
      /\ Len(frames) > 1 /\ home \in BB /\ home = Top.bb
      /\ currentFunc # NoFunc
  BY <1>1, TopFacts DEF IInv, TypeOK, StackDiscipline, GetCurrentBlock
<1>3. insertBB \in BB /\ ~HasTerminator(instrs[insertBB])
  BY <1>1, OpenHere
<1>4. insertBB = home
  BY <1>1, <1>2 DEF WInv, BuilderAtScope
<1>5. p \in Ptr
  BY <1>2 DEF Ptr
<1>6. /\ instrs' = Emit(Emit(instrs, home, <<Alloca>>), insertBB, <<Access(p)>>)
      /\ UNCHANGED <<currentFunc, insertBB, frames, inDef>>
  BY DEF AddParam, func
<1> HIDE DEF home, p
<1>7. /\ Alloca \in Instr /\ ~IsTerm(Alloca) /\ Access(p) \in Instr /\ ~IsTerm(Access(p))
  BY <1>5, InstrType DEF Alloca, Access, IsTerm
<1>8. TermsLast(instrs') /\ ~HasTerminator(instrs'[insertBB])
  BY <1>2, <1>3, <1>4, <1>6, <1>7, OneEnded, UnendedOpen, AllocaTerms DEF WInv
<1>9. Stays
  BY <1>2, <1>6, StaysTop
<1> QED
  BY <1>1, <1>2, <1>6, <1>8, <1>9, StaysTerms

LEMMA DefineVarTerms ==
    ASSUME Disciplined, IInv, IInv', BInv, WInv,
           NEW v \in Vars, NEW init \in Exprs \cup {NoExpr}, NEW more \in BOOLEAN,
           DefineVar(v, init, more)
    PROVE  WInv'
<1> DEFINE home  == GetCurrentBlock
           p     == <<home, Len(instrs[home]) + 1>>
           scope == AddLocalVar(blocks, p, v)
           value == IF init = NoExpr THEN <<>> ELSE Append(ExprCode(scope, init), Access(p))
<1>1. status = "running"
  BY DEF DefineVar
<1>2. /\ frames \in Seq(FrameRec) /\ frames # <<>> /\ Len(frames) = Len(blocks)
      /\ Len(frames) \in 1..Len(frames) /\ instrs \in [BB -> Seq(Instr)]
      /\ Top.kind = "prog" => Len(frames) = 1
      /\ Top.kind # "prog" => Len(frames) > 1 /\ currentFunc # NoFunc
      /\ home \in BB
  BY <1>1, TopFacts DEF IInv, TypeOK
<1>3. Top.kind # "prog" /\ ~Top.branched /\ (Top.kind = "body" => ~HasTerminator(instrs[insertBB]))
  <2>1. CASE inDef
    <3>1. Len(frames) > 1 /\ ~Top.branched
      BY <2>1 DEF WInv, DefsEarly
    <3>2. Top.kind # "prog"
      BY <1>2, <3>1
    <3>3. ~HasTerminator(instrs[insertBB])
      BY <1>2, <2>1, <3>2 DEF WInv, BuilderOpen
    <3> QED
      BY <3>1, <3>2, <3>3
  <2>2. CASE ~inDef
    <3>1. StmtPosition /\ ~Top.branched
      BY <2>2 DEF DefineVar, VarDefPosition, Disciplined
    <3>2. Top.kind # "prog"
      BY <3>1 DEF StmtPosition, InStmts
    <3> QED
      BY <3>1, <3>2 DEF StmtPosition
  <2> QED
    BY <2>1, <2>2
<1>4. insertBB \in BB /\ ~HasTerminator(instrs[insertBB]) /\ Len(frames) > 1
  BY <1>1, <1>2, <1>3, OpenHere
<1>5. insertBB = home
  <2>1. insertBB = Top.bb
    BY <1>3, <1>4 DEF WInv, BuilderAtScope
  <2>2. Top.bb = home
    BY <1>2 DEF GetCurrentBlock, Top, IInv, StackDiscipline
  <2> QED
    BY <2>1, <2>2
<1>6. p \in Ptr
  BY <1>2 DEF Ptr
<1>7. /\ instrs' = Emit(Emit(instrs, home, <<Alloca>>), insertBB, value)
      /\ frames' = frames \/ frames' = Took(FALSE)
      /\ ~Throws(scope, init) /\ inDef' = more
      /\ UNCHANGED <<currentFunc, insertBB>>
  BY DEF DefineVar, func
<1>8. scope \in Seq(Scope)
  BY <1>6, AddLocalVarType DEF IInv, TypeOK
<1> HIDE DEF home, p, scope
<1>9. Alloca \in Instr /\ ~IsTerm(Alloca) /\ Access(p) \in Instr /\ ~IsTerm(Access(p))
  BY <1>6, InstrType DEF Alloca, Access, IsTerm
<1>10. value \in Seq(Instr) /\ Unended(value)
  BY <1>7, <1>8, <1>9, OneEnded, EndedCode
<1> HIDE DEF value
<1>11. TermsLast(instrs') /\ ~HasTerminator(instrs'[insertBB])
  BY <1>2, <1>4, <1>5, <1>7, <1>10, AllocaTerms DEF WInv
<1>12. Stays
  BY <1>2, <1>7, StaysTop
<1> QED
  BY <1>2, <1>3, <1>4, <1>7, <1>11, <1>12, StaysTerms

\* A function goes on to its body, with its first block open.
LEMMA BeginBodyTerms ==
    ASSUME IInv, IInv', BInv, WInv, BeginBody
    PROVE  WInv'
<1>1. status = "running" /\ ~inDef /\ Top.kind = "params"
  BY DEF BeginBody, Running
<1>2. /\ frames \in Seq(FrameRec) /\ Len(frames) = 2 /\ Top \in FrameRec /\ Top = frames[2]
  BY <1>1, TopFacts
<1> DEFINE e == [Top EXCEPT !.kind = "body"]
<1>3. e \in FrameRec /\ e.kind = "body" /\ e.bb = Top.bb /\ e.branched = Top.branched
  BY <1>2 DEF FrameRec, FrameKinds, ListKinds
<1>4. /\ frames' = [frames EXCEPT ![2] = e]
      /\ UNCHANGED <<currentFunc, insertBB, instrs, inDef>>
  BY <1>2 DEF BeginBody, func, code
<1> HIDE DEF e
<1>5. Len(frames') = 2 /\ frames'[1] = frames[1] /\ frames'[2] = e
  BY <1>2, <1>3, <1>4, SecondReplaced
<1>6. Top' = e
  BY <1>5 DEF Top
<1>7. CallersBranched'
  BY <1>5 DEF CallersBranched
<1>8. BuilderOpen' /\ BuilderAtScope' /\ DefsEarly'
  BY <1>1, <1>2, <1>3, <1>4, <1>6 DEF WInv, BuilderOpen, BuilderAtScope, DefsEarly
<1> QED
  BY <1>4, <1>7, <1>8 DEF WInv

\* Outside a function nothing is said but that terminators are last.
LEMMA OutsideTerms ==
    ASSUME currentFunc' = NoFunc, Len(frames') <= 1, ~inDef', TermsLast(instrs'),
           Len(frames') \in Nat
    PROVE  WInv'
<1>1. CallersBranched'
  BY DEF CallersBranched
<1> QED
  BY <1>1 DEF WInv, BuilderOpen, BuilderAtScope, DefsEarly

LEMMA BeginFuncTerms ==
    ASSUME IInv, IInv', BInv, WInv, NEW f \in FuncNames, NEW void \in BOOLEAN, BeginFunc(f, void)
    PROVE  WInv'
<1> DEFINE b == nbb + 1
           fr == Took(FALSE)
           e  == Frame("params", b)
<1>1. status = "running" /\ Top.kind = "prog" /\ ~inDef
  BY DEF BeginFunc, Running
<1>2. Len(frames) = 1 /\ frames # <<>> /\ frames \in Seq(FrameRec)
  BY <1>1, TopFacts
<1>3. b \in BB
  BY MaxBBAssumption DEF BeginFunc, IInv, TypeOK, BB
<1>4. /\ insertBB' = b /\ instrs' = instrs /\ inDef' = inDef /\ frames' = Append(fr, e)
  BY DEF BeginFunc
<1>5. instrs[b] = <<>>
  BY <1>3 DEF BInv, FreshBlocks, IInv, TypeOK
<1>6. fr \in Seq(FrameRec) /\ Len(fr) = 1
  BY <1>2, TookType
<1>7. e \in FrameRec /\ e.bb = b /\ ~e.branched
  BY <1>3, FrameType DEF FrameKinds, Frame
<1> HIDE DEF fr, e
<1>8. Len(frames') = 2 /\ frames'[2] = e
  BY <1>4, <1>6, <1>7, FirstPushed
<1>9. Top' = e
  BY <1>8 DEF Top
<1>10. CallersBranched'
  BY <1>8 DEF CallersBranched
<1>11. BuilderOpen' /\ BuilderAtScope' /\ DefsEarly'
  BY <1>1, <1>4, <1>5, <1>7, <1>9
     DEF BuilderOpen, BuilderAtScope, DefsEarly, HasTerminator
<1> QED
  BY <1>4, <1>10, <1>11 DEF WInv

LEMMA EndFuncTerms ==
    ASSUME IInv, WInv, EndFunc
    PROVE  WInv'
<1>1. status = "running" /\ Top.kind = "body" /\ ~inDef
  BY DEF EndFunc, Running
<1>2. /\ frames \in Seq(FrameRec) /\ Len(frames) = 2 /\ insertBB \in BB
      /\ instrs \in [BB -> Seq(Instr)]
  BY <1>1, TopFacts DEF IInv, TypeOK
<1>3. Len(frames') = 1
  BY <1>2, SecondPopped DEF EndFunc, PopFrame
<1>4. TermsLast(instrs')
  <2>1. CASE HasTerminator(instrs[insertBB])
    BY <2>1 DEF EndFunc, DefaultReturn, WInv
  <2>2. CASE ~HasTerminator(instrs[insertBB])
    <3>1. instrs' = Emit(instrs, insertBB, <<Ret>>)
      BY <2>2 DEF EndFunc, DefaultReturn
    <3>2. <<Ret>> \in Seq(Instr) /\ WellEnded(<<Ret>>)
      BY InstrType, OneEnded
    <3>3. OpenAt(instrs, insertBB) /\ insertBB \in BB \cup {NoBB} /\ TermsLast(instrs)
      BY <1>2, <2>2 DEF OpenAt, WInv
    <3> QED
      BY <1>2, <3>1, <3>2, <3>3, EmitWell
  <2> QED
    BY <2>1, <2>2
<1>5. currentFunc' = NoFunc /\ ~inDef'
  BY <1>1 DEF EndFunc
<1>6. Len(frames') <= 1 /\ Len(frames') \in Nat
  BY <1>3
<1> QED
  BY <1>4, <1>5, <1>6, OutsideTerms

LEMMA ProgTerms ==
    ASSUME IInv, IInv', BInv, WInv,
           BeginProg \/ EndProg \/ \E f \in FuncNames : CreatePrintFunc(f)
    PROVE  WInv'
<1>0. status = "io" => ~inDef
  <2>1. status = "io" => frames = <<>>
    BY DEF IInv, HandlersNested
  <2> QED
    BY <2>1 DEF WInv, DefsEarly
<1>1. CASE BeginProg
  <2>1. Len(frames') = 1
    BY <1>1 DEF BeginProg
  <2>2. currentFunc = NoFunc
    BY <1>1 DEF BeginProg, IInv, HandlersNested
  <2>3. currentFunc' = NoFunc /\ ~inDef' /\ TermsLast(instrs')
    BY <1>0, <1>1, <2>2 DEF BeginProg, func, WInv
  <2>4. Len(frames') <= 1 /\ Len(frames') \in Nat
    BY <2>1
  <2> QED
    BY <2>3, <2>4, OutsideTerms
<1>2. CASE EndProg
  <2>1. status = "running" /\ Top.kind = "prog" /\ ~inDef
    BY <1>2 DEF EndProg, Running
  <2>2. Len(frames) = 1 /\ currentFunc = NoFunc /\ frames \in Seq(FrameRec)
    BY <2>1, TopFacts
  <2>3. Len(frames') = 0
    BY <1>2, <2>2, Popped DEF EndProg, PopFrame
  <2>4. currentFunc' = NoFunc /\ ~inDef'
    BY <1>2, <2>1, <2>2 DEF EndProg, func
  <2>5. TermsLast(instrs')
    <3>1. WellEnded(<<>>)
      BY DEF WellEnded
    <3>2. \A x \in BB : instrs'[x] = <<>> \/ instrs'[x] = instrs[x]
      BY <1>2 DEF EndProg, IInv, TypeOK
    <3> QED
      BY <3>1, <3>2 DEF WInv, TermsLast
  <2>6. Len(frames') <= 1 /\ Len(frames') \in Nat
    BY <2>3
  <2> QED
    BY <2>4, <2>5, <2>6, OutsideTerms
<1>3. ASSUME NEW f \in FuncNames, CreatePrintFunc(f)
      PROVE  WInv'
  <2> DEFINE b == nbb + 1
  <2>1. /\ frames = <<>> /\ Len(frames) = 0 /\ currentFunc = NoFunc /\ b \in BB
        /\ instrs \in [BB -> Seq(Instr)]
    BY <1>3, MaxBBAssumption DEF CreatePrintFunc, IInv, TypeOK, HandlersNested, BB
  <2>2. /\ instrs' = Emit(instrs, b, <<Call, Ret>>)
        /\ UNCHANGED <<currentFunc, frames, inDef>> /\ status = "io"
    BY <1>3 DEF CreatePrintFunc
  <2>3. instrs[b] = <<>>
    BY <2>1 DEF BInv, FreshBlocks, IInv, TypeOK
  <2>4. OpenAt(instrs, b) /\ b \in BB \cup {NoBB} /\ TermsLast(instrs)
    BY <2>1, <2>3 DEF OpenAt, HasTerminator, WInv
  <2>5. <<Call, Ret>> \in Seq(Instr) /\ WellEnded(<<Call, Ret>>)
    BY InstrType DEF WellEnded, IsTerm, Call, Ret
  <2>6. TermsLast(instrs')
    BY <2>1, <2>2, <2>4, <2>5, EmitWell
  <2>7. currentFunc' = NoFunc /\ ~inDef' /\ Len(frames') <= 1 /\ Len(frames') \in Nat
    BY <1>0, <2>1, <2>2
  <2> QED
    BY <2>6, <2>7, OutsideTerms
<1> QED
  BY <1>1, <1>2, <1>3

----------------------------------------------------------------------------
\* The invariant is inductive, for programs that are disciplined.

LEMMA InitWInv == Init => WInv
<1> SUFFICES ASSUME Init PROVE WInv
  OBVIOUS
<1>1. /\ frames = <<>> /\ Len(frames) = 0 /\ currentFunc = NoFunc /\ ~inDef
      /\ instrs = [b \in BB |-> <<>>]
  BY DEF Init
<1>2. TermsLast(instrs)
  BY <1>1 DEF TermsLast, WellEnded
<1> QED
  BY <1>1, <1>2 DEF WInv, BuilderOpen, CallersBranched, BuilderAtScope, DefsEarly

LEMMA SameTerms ==
    ASSUME WInv, UNCHANGED <<currentFunc, instrs, insertBB, frames, inDef>>
    PROVE  WInv'
BY DEF WInv, BuilderOpen, CallersBranched, BuilderAtScope, DefsEarly, Top

LEMMA NextWInv == Disciplined /\ IInv /\ BInv /\ WInv /\ [Next]_vars => WInv'
<1> SUFFICES ASSUME Disciplined, IInv, BInv, WInv, [Next]_vars PROVE WInv'
  OBVIOUS
<1>0. IInv'
  BY NextIInv
<1>1. CASE BeginProg \/ EndProg \/ \E f \in FuncNames : CreatePrintFunc(f)
  BY <1>0, <1>1, ProgTerms
<1>2. ASSUME NEW f \in FuncNames, NEW void \in BOOLEAN, BeginFunc(f, void) PROVE WInv'
  BY <1>0, <1>2, BeginFuncTerms
<1>3. ASSUME NEW v \in Vars, AddParam(v) PROVE WInv'
  BY <1>0, <1>3, ParamTerms
<1>4. CASE BeginBody
  BY <1>0, <1>4, BeginBodyTerms
<1>5. CASE EndFunc
  BY <1>5, EndFuncTerms
<1>6. CASE \/ EmptyStmt
           \/ \E e \in Exprs : ExprStmt(e)
           \/ \E e \in Exprs \cup {NoExpr} : Return(e)
  BY <1>0, <1>6, PlainStmtTerms
<1>7. ASSUME NEW v \in Vars, NEW e \in Exprs \cup {NoExpr}, NEW more \in BOOLEAN,
             DefineVar(v, e, more)
      PROVE  WInv'
  BY <1>0, <1>7, DefineVarTerms
<1>8. CASE BeginBlock \/ BeginFor \/ \E e \in Exprs : BeginIf(e)
  BY <1>0, <1>8, BeginStmtTerms
<1>9. CASE EndBlock \/ EndThen \/ EndElse
  BY <1>0, <1>9, EndStmtTerms
<1>10. CASE ThenElse
  BY <1>0, <1>10, ThenElseTerms
<1>11. ASSUME NEW e \in Exprs \cup {NoExpr}, ForCondition(e) PROVE WInv'
  BY <1>0, <1>11, ForConditionTerms
<1>12. ASSUME NEW e \in Exprs \cup {NoExpr}, EndFor(e) PROVE WInv'
  BY <1>0, <1>12, EndForTerms
<1>13. CASE Abort
  BY <1>13, SameTerms DEF Abort, func, code
<1>14. CASE Ended \/ UNCHANGED vars
  BY <1>14, SameTerms DEF Ended, vars, func, code
<1> QED
  BY <1>1, <1>2, <1>3, <1>4, <1>5, <1>6, <1>7, <1>8, <1>9, <1>10, <1>11, <1>12,
     <1>13, <1>14 DEF Next, Step

\* The code generated for a disciplined program has one terminator in each
\* block, the last instruction: what FuncBody drops after a return, and the
\* places where allocas go, are right for every such program.
THEOREM DisciplinedWellFormed ==
    ASSUME Disciplined
    PROVE  Spec => []WellFormed
<1>1. IInv /\ BInv /\ WInv /\ [Next]_vars => (IInv /\ BInv /\ WInv)'
  BY NextIInv, NextBInv, NextWInv
<1>2. Init => IInv /\ BInv /\ WInv
  BY InitIInv, InitBInv, InitWInv
<1>3. IInv /\ BInv /\ WInv => WellFormed
  BY DEF WInv, TermsLast, WellEnded, WellFormed, Owned
<1> QED
  BY <1>1, <1>2, <1>3, PTL DEF Spec
=============================================================================
