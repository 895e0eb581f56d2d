--------------------------- MODULE CodeGenProofs ---------------------------
(***************************************************************************)
(* The scope stack and the insertion point are right for every program,    *)
(* whatever its names, its size and its nesting: TypeOK, StackDiscipline,  *)
(* InCurrentFunc and HandlersNested hold together in every state.          *)
(***************************************************************************)
EXTENDS CodeGen, TLAPS, SequenceTheorems, WellFoundedInduction

\* A set of natural numbers that is not empty has a least element: < is
\* well-founded on Nat.
LEMMA MinNat ==
    ASSUME NEW T, T \subseteq Nat, T # {}
    PROVE  \E m \in T : \A n \in T : m <= n
<1> DEFINE R == OpToRel(<, Nat)
<1>1. IsWellFoundedOn(R, Nat)
  BY NatLessThanWellFounded
<1>2. \A a, b \in Nat : a < b => <<a, b>> \in R
  BY DEF OpToRel
<1> HIDE DEF R
<1>3. PICK m \in T : \A n \in T : ~(<<n, m>> \in R)
  BY <1>1, WFMin, Zenon
<1>4. ASSUME NEW n \in T
      PROVE  m <= n
  <2>1. m \in Nat /\ n \in Nat
    OBVIOUS
  <2>2. ~(n < m)
    BY <1>2, <1>3, <2>1
  <2> QED
    BY <2>1, <2>2
<1> QED
  BY <1>4

\* A set of places of a sequence that is not empty has a last element.
LEMMA LastOf ==
    ASSUME NEW k \in Nat, NEW T, T \subseteq 1..k, T # {}
    PROVE  \E m \in T : \A n \in T : n <= m
<1> DEFINE U == {k - i : i \in T}
<1>1. U \subseteq Nat /\ U # {}
  <2>1. \A i \in T : k - i \in Nat
    OBVIOUS
  <2> QED
    BY <2>1
<1>2. PICK u \in U : \A w \in U : u <= w
  BY <1>1, MinNat
<1>3. PICK m \in T : u = k - m
  BY <1>2
<1>4. \A n \in T : k - m <= k - n
  BY <1>2, <1>3
<1> QED
  BY <1>3, <1>4

\* A name that is defined is bound by the innermost scope that declares it.
LEMMA GetVarDefined ==
    ASSUME NEW bl \in Seq(Scope), NEW v \in Vars, IsVarDefined(bl, v)
    PROVE  \E i \in 1..Len(bl) :
              /\ bl[i].vars[v] # NoPtr
              /\ GetVar(bl, v) = bl[i].vars[v]
              /\ \A j \in 1..Len(bl) : bl[j].vars[v] # NoPtr => j <= i
<1>1. Declaring(bl, v) \subseteq 1..Len(bl) /\ Declaring(bl, v) # {} /\ Len(bl) \in Nat
  BY DEF Declaring, IsVarDefined
<1>2. \E i \in Declaring(bl, v) : \A j \in Declaring(bl, v) : j <= i
  BY <1>1, LastOf
<1> DEFINE i == CHOOSE k \in Declaring(bl, v) : \A j \in Declaring(bl, v) : j <= k
<1>3. i \in Declaring(bl, v) /\ \A j \in Declaring(bl, v) : j <= i
  BY <1>2
<1>4. GetVar(bl, v) = bl[i].vars[v]
  BY DEF GetVar
<1> HIDE DEF i
<1> QED
  BY <1>3, <1>4 DEF Declaring

\* What a name that is defined is bound to is an alloca.
LEMMA GetVarType ==
    ASSUME NEW bl \in Seq(Scope), NEW v \in Vars, IsVarDefined(bl, v)
    PROVE  GetVar(bl, v) \in Ptr
<1>1. PICK i \in 1..Len(bl) : bl[i].vars[v] # NoPtr /\ GetVar(bl, v) = bl[i].vars[v]
  BY GetVarDefined
<1>2. bl[i] \in Scope
  BY ElementOfSeq
<1> QED
  BY <1>1, <1>2 DEF Scope

\* The instructions have the type of instructions.
LEMMA InstrType ==
    /\ Alloca \in Instr /\ Call \in Instr /\ Ret \in Instr
    /\ \A p \in Ptr : Access(p) \in Instr
    /\ \A t \in BB : Br(t) \in Instr
    /\ \A t, e \in BB : CondBr(t, e) \in Instr
BY DEF Instr, Alloca, Call, Ret, Access, Br, CondBr

\* The code of an expression is a sequence of instructions.
LEMMA ExprCodeType ==
    ASSUME NEW bl \in Seq(Scope), NEW e, ~Throws(bl, e)
    PROVE  ExprCode(bl, e) \in Seq(Instr)
<1>1. CASE e \in Vars
  <2>1. Access(GetVar(bl, e)) \in Instr
    BY <1>1, GetVarType, InstrType DEF Throws
  <2> QED
    BY <1>1, <2>1 DEF ExprCode
<1>2. CASE e \notin Vars /\ e \in FuncNames
  BY <1>2, InstrType DEF ExprCode
<1>3. CASE e \notin Vars /\ e \notin FuncNames
  BY <1>3 DEF ExprCode
<1> QED
  BY <1>1, <1>2, <1>3

\* Appending instructions to a block keeps the type of the code, and touches
\* no other block.
LEMMA EmitType ==
    ASSUME NEW c \in [BB -> Seq(Instr)], NEW b, NEW s \in Seq(Instr)
    PROVE  Emit(c, b, s) \in [BB -> Seq(Instr)]
<1>1. CASE b \in BB
  <2>1. c[b] \o s \in Seq(Instr)
    BY <1>1, ConcatProperties
  <2> QED
    BY <2>1 DEF Emit
<1>2. CASE b \notin BB
  <2>1. [c EXCEPT ![b] = @ \o s] = c
    BY <1>2
  <2> QED
    BY <2>1 DEF Emit
<1> QED
  BY <1>1, <1>2

----------------------------------------------------------------------------
\* The stacks.

\* Popping a stack that is not empty.
LEMMA Popped ==
    ASSUME NEW S, NEW s \in Seq(S), NEW k \in 1..Len(s)
    PROVE  LET t == SubSeq(s, 1, Len(s) - k)
           IN  /\ t \in Seq(S)
               /\ Len(t) = Len(s) - k
               /\ \A i \in 1..Len(t) : t[i] = s[i]
<1>1. Len(s) \in Nat /\ \A i \in 1..Len(s) : s[i] \in S
  BY ElementOfSeq
<1> DEFINE n == Len(s) - k
<1>2. n \in Nat /\ n < Len(s)
  BY <1>1
<1>3. \A i \in 1..n : s[i] \in S
  BY <1>1, <1>2
<1>4. /\ SubSeq(s, 1, n) \in Seq(S)
      /\ Len(SubSeq(s, 1, n)) = IF 1 <= n THEN n - 1 + 1 ELSE 0
      /\ \A i \in 1..(n - 1 + 1) : SubSeq(s, 1, n)[i] = s[1 + i - 1]
  BY <1>2, <1>3, SubSeqProperties
<1> HIDE DEF n
<1>5. Len(SubSeq(s, 1, n)) = n
  BY <1>2, <1>4
<1>6. \A i \in 1..n : SubSeq(s, 1, n)[i] = s[i]
  BY <1>2, <1>4
<1> QED
  BY <1>4, <1>5, <1>6 DEF n

\* Pushing onto a stack.
LEMMA Pushed ==
    ASSUME NEW S, NEW s \in Seq(S), NEW e \in S
    PROVE  LET t == Append(s, e)
           IN  /\ t \in Seq(S)
               /\ Len(t) = Len(s) + 1
               /\ t[Len(t)] = e
               /\ \A i \in 1..Len(s) : t[i] = s[i]
BY AppendProperties

\* The two stacks at the handler of a program and of a function.
LEMMA FirstPushed ==
    ASSUME NEW S, NEW s \in Seq(S), NEW e \in S
    PROVE  Len(s) = 1 =>
              LET t == Append(s, e)
              IN  t \in Seq(S) /\ Len(t) = 2 /\ t[1] = s[1] /\ t[2] = e
<1> DEFINE t == Append(s, e)
<1>1. /\ t \in Seq(S) /\ Len(t) = Len(s) + 1 /\ t[Len(s) + 1] = e
      /\ \A i \in 1..Len(s) : t[i] = s[i]
  BY Pushed
<1> HIDE DEF t
<1> QED
  BY <1>1 DEF t

LEMMA SecondReplaced ==
    ASSUME NEW S, NEW s \in Seq(S), NEW e \in S
    PROVE  Len(s) = 2 =>
              LET t == [s EXCEPT ![2] = e]
              IN  t \in Seq(S) /\ Len(t) = 2 /\ t[1] = s[1] /\ t[2] = e
<1> DEFINE t == [s EXCEPT ![2] = e]
<1>1. 2 \in 1..Len(s) =>
         /\ t \in Seq(S) /\ Len(t) = Len(s)
         /\ \A j \in 1..Len(s) : t[j] = IF j = 2 THEN e ELSE s[j]
  BY ExceptSeq
<1> HIDE DEF t
<1> QED
  BY <1>1 DEF t

LEMMA SecondPopped ==
    ASSUME NEW S, NEW s \in Seq(S), Len(s) = 2
    PROVE  LET t == SubSeq(s, 1, Len(s) - 1)
           IN  t \in Seq(S) /\ Len(t) = 1 /\ t[1] = s[1]
OBVIOUS

LEMMA NotEmpty ==
    ASSUME NEW s, Len(s) > 0
    PROVE  s # <<>>
OBVIOUS

\* A new scope is a scope.
LEMMA ScopeOfType ==
    ASSUME NEW b \in BB
    PROVE  ScopeOf(b) \in Scope /\ ScopeOf(b).bb = b
BY DEF ScopeOf, Scope

\* Binding a name changes neither the number of scopes nor their blocks.
LEMMA AddLocalVarType ==
    ASSUME NEW bl \in Seq(Scope), NEW p \in Ptr, NEW v \in Vars
    PROVE  /\ AddLocalVar(bl, p, v) \in Seq(Scope)
           /\ Len(AddLocalVar(bl, p, v)) = Len(bl)
           /\ \A i \in 1..Len(bl) : AddLocalVar(bl, p, v)[i].bb = bl[i].bb
<1>1. CASE bl = <<>> \/ IsVarInLocal(bl, v)
  BY <1>1 DEF AddLocalVar
<1>2. CASE ~(bl = <<>> \/ IsVarInLocal(bl, v))
  <2>1. Len(bl) \in 1..Len(bl) /\ bl[Len(bl)] \in Scope
    BY <1>2, EmptySeq, ElementOfSeq
  <2> DEFINE e == [bl[Len(bl)] EXCEPT !.vars = [@ EXCEPT ![v] = p]]
  <2>2. e \in Scope /\ e.bb = bl[Len(bl)].bb
    BY <2>1 DEF Scope
  <2>3. AddLocalVar(bl, p, v) = [bl EXCEPT ![Len(bl)] = e]
    BY <1>2 DEF AddLocalVar
  <2> HIDE DEF e
  <2> QED
    BY <2>1, <2>2, <2>3, ExceptSeq
<1> QED
  BY <1>1, <1>2

\* A new frame is a frame.
LEMMA FrameType ==
    ASSUME NEW k \in FrameKinds, NEW b \in BB
    PROVE  Frame(k, b) \in FrameRec /\ Frame(k, b).kind = k /\ Frame(k, b).bb = b
BY DEF Frame, FrameRec

\* Taking a child changes no handler's kind and block.
LEMMA TookType ==
    ASSUME frames \in Seq(FrameRec), frames # <<>>, NEW m \in BOOLEAN
    PROVE  /\ Top \in FrameRec
           /\ Took(m) \in Seq(FrameRec)
           /\ Len(Took(m)) = Len(frames)
           /\ \A i \in 1..Len(frames) :
                 Took(m)[i].kind = frames[i].kind /\ Took(m)[i].bb = frames[i].bb
<1>1. Len(frames) \in 1..Len(frames) /\ Top \in FrameRec
  BY EmptySeq, ElementOfSeq DEF Top
<1> DEFINE e == [Top EXCEPT !.begun = TRUE, !.branched = @ \/ m]
<1>2. e \in FrameRec /\ e.kind = Top.kind /\ e.bb = Top.bb
  <2>1. (Top.branched \/ m) \in BOOLEAN
    OBVIOUS
  <2> QED
    BY <1>1, <2>1 DEF FrameRec
<1>3. Took(m) = [frames EXCEPT ![Len(frames)] = e]
  BY DEF Took, Top
<1> HIDE DEF e
<1>4. /\ Took(m) \in Seq(FrameRec)
      /\ Len(Took(m)) = Len(frames)
      /\ \A i \in 1..Len(frames) : Took(m)[i] = IF i = Len(frames) THEN e ELSE frames[i]
  BY <1>1, <1>2, <1>3, ExceptSeq
<1> QED
  BY <1>1, <1>2, <1>4 DEF Top

\* The number of blocks a handler has still to insert.
LEMMA AheadType == \A k : Ahead(k) \in Nat
BY DEF Ahead

LEMMA AheadOf ==
    /\ Ahead("forinit") = 4 /\ Ahead("for") = 4
    /\ Ahead("then") = 2 /\ Ahead("loopbody") = 2 /\ Ahead("else") = 1
BY DEF Ahead

\* The blocks that follow b up to the k-th are blocks.
LEMMA BlocksAhead ==
    ASSUME NEW b \in BB, NEW k \in 0..4, NEW m \in 0..MaxBB, b + k <= m
    PROVE  /\ k >= 1 => b + 1 \in BB
           /\ k >= 2 => b + 2 \in BB
           /\ k >= 3 => b + 3 \in BB
           /\ k >= 4 => b + 4 \in BB
BY MaxBBAssumption DEF BB

\* WellNested looks at the kinds and the blocks of the handlers only.
LEMMA WellNestedSame ==
    ASSUME NEW fr \in Seq(FrameRec), NEW gr \in Seq(FrameRec), NEW n \in Nat,
           WellNested(fr, n), Len(gr) = Len(fr),
           \A i \in 1..Len(fr) : gr[i].kind = fr[i].kind /\ gr[i].bb = fr[i].bb
    PROVE  WellNested(gr, n)
<1> SUFFICES ASSUME NEW i \in 1..Len(gr)
             PROVE  /\ gr[i].kind = "prog" <=> i = 1
                    /\ gr[i].kind \in {"params", "body"} <=> i = 2
                    /\ gr[i].kind = "loopbody" => i > 1 /\ gr[i - 1].kind = "for"
                    /\ gr[i].kind = "for" => i < Len(gr) /\ gr[i + 1].kind = "loopbody"
                    /\ gr[i].bb + Ahead(gr[i].kind) <= n
  BY DEF WellNested
<1>1. gr[i].kind = fr[i].kind /\ gr[i].bb = fr[i].bb
  OBVIOUS
<1>2. i > 1 => gr[i - 1].kind = fr[i - 1].kind
  OBVIOUS
<1>3. i < Len(gr) => gr[i + 1].kind = fr[i + 1].kind
  OBVIOUS
<1>4. /\ fr[i].kind = "prog" <=> i = 1
      /\ fr[i].kind \in {"params", "body"} <=> i = 2
      /\ fr[i].kind = "loopbody" => i > 1 /\ fr[i - 1].kind = "for"
      /\ fr[i].kind = "for" => i < Len(fr) /\ fr[i + 1].kind = "loopbody"
      /\ fr[i].bb + Ahead(fr[i].kind) <= n
  BY DEF WellNested
<1> QED
  BY <1>1, <1>2, <1>3, <1>4

\* Leaving handlers down to one that is not a for statement.
LEMMA WellNestedPop ==
    ASSUME NEW fr \in Seq(FrameRec), NEW gr \in Seq(FrameRec), NEW n \in Nat,
           WellNested(fr, n), Len(gr) <= Len(fr),
           \A i \in 1..Len(gr) : gr[i] = fr[i],
           Len(gr) > 0 => gr[Len(gr)].kind # "for"
    PROVE  WellNested(gr, n)
<1> SUFFICES ASSUME NEW i \in 1..Len(gr)
             PROVE  /\ gr[i].kind = "prog" <=> i = 1
                    /\ gr[i].kind \in {"params", "body"} <=> i = 2
                    /\ gr[i].kind = "loopbody" => i > 1 /\ gr[i - 1].kind = "for"
                    /\ gr[i].kind = "for" => i < Len(gr) /\ gr[i + 1].kind = "loopbody"
                    /\ gr[i].bb + Ahead(gr[i].kind) <= n
  BY DEF WellNested
<1>1. gr[i] = fr[i] /\ i \in 1..Len(fr)
  OBVIOUS
<1>2. i > 1 => gr[i - 1] = fr[i - 1]
  OBVIOUS
<1>3. i < Len(gr) => gr[i + 1] = fr[i + 1]
  OBVIOUS
<1>4. /\ fr[i].kind = "prog" <=> i = 1
      /\ fr[i].kind \in {"params", "body"} <=> i = 2
      /\ fr[i].kind = "loopbody" => i > 1 /\ fr[i - 1].kind = "for"
      /\ fr[i].kind = "for" => i < Len(fr) /\ fr[i + 1].kind = "loopbody"
      /\ fr[i].bb + Ahead(fr[i].kind) <= n
  BY <1>1 DEF WellNested
<1>5. i = Len(gr) => gr[i].kind # "for"
  OBVIOUS
<1> QED
  BY <1>1, <1>2, <1>3, <1>4, <1>5

\* Well nested up to the top handler, which may be about to call another.
Calling(fr, created) ==
    \A i \in 1..Len(fr) :
        /\ fr[i].kind = "prog" <=> i = 1
        /\ fr[i].kind \in {"params", "body"} <=> i = 2
        /\ fr[i].kind = "loopbody" => i > 1 /\ fr[i - 1].kind = "for"
        /\ i < Len(fr) /\ fr[i].kind = "for" => fr[i + 1].kind = "loopbody"
        /\ fr[i].bb + Ahead(fr[i].kind) <= created

\* Calling a handler; only a for statement calls its loop body.
LEMMA WellNestedPush ==
    ASSUME NEW fr \in Seq(FrameRec), NEW e \in FrameRec, NEW n \in Nat, NEW m \in Nat,
           Calling(fr, n), n <= m, e.kind # "for", e.bb + Ahead(e.kind) <= m,
           e.kind = "prog" <=> Len(fr) = 0,
           e.kind \in {"params", "body"} <=> Len(fr) = 1,
           e.kind = "loopbody" <=> Len(fr) > 0 /\ fr[Len(fr)].kind = "for"
    PROVE  WellNested(Append(fr, e), m)
<1> DEFINE gr == Append(fr, e)
<1>1. /\ Len(gr) = Len(fr) + 1 /\ gr[Len(fr) + 1] = e /\ Len(fr) \in Nat
      /\ \A i \in 1..Len(fr) : gr[i] = fr[i] /\ fr[i].bb \in Nat
  <2>1. ASSUME NEW i \in 1..Len(fr) PROVE fr[i].bb \in Nat
    <3>1. fr[i] \in FrameRec
      BY ElementOfSeq
    <3> QED
      BY <3>1, MaxBBAssumption DEF FrameRec, BB
  <2> QED
    BY <2>1, Pushed
<1> HIDE DEF gr
<1>2. ASSUME NEW i \in 1..Len(gr)
      PROVE  /\ gr[i].kind = "prog" <=> i = 1
             /\ gr[i].kind \in {"params", "body"} <=> i = 2
             /\ gr[i].kind = "loopbody" => i > 1 /\ gr[i - 1].kind = "for"
             /\ gr[i].kind = "for" => i < Len(gr) /\ gr[i + 1].kind = "loopbody"
             /\ gr[i].bb + Ahead(gr[i].kind) <= m
  <2>1. CASE i = Len(fr) + 1
    <3>1. gr[i] = e
      BY <1>1, <2>1
    <3>2. Len(fr) > 0 => i > 1 /\ gr[i - 1] = fr[Len(fr)]
      BY <1>1, <2>1
    <3>3. e.kind = "loopbody" => Len(fr) > 0 /\ fr[Len(fr)].kind = "for"
      BY <1>1
    <3>4. e.kind = "prog" <=> i = 1
      BY <1>1, <2>1
    <3>5. e.kind \in {"params", "body"} <=> i = 2
      <4>1. Len(fr) = i - 1 /\ i \in Int
        BY <1>1, <2>1
      <4>2. Len(fr) = 1 <=> i = 2
        BY <4>1
      <4> QED
        BY <4>2, Zenon
    <3> QED
      BY <1>1, <2>1, <3>1, <3>2, <3>3, <3>4, <3>5
  <2>2. CASE i \in 1..Len(fr)
    <3>1. gr[i] = fr[i] /\ fr[i].bb \in Nat /\ Ahead(fr[i].kind) \in Nat
      BY <1>1, <2>2, AheadType
    <3>2. i > 1 => gr[i - 1] = fr[i - 1]
      BY <1>1, <2>2
    <3>3. i < Len(fr) => gr[i + 1] = fr[i + 1]
      BY <1>1, <2>2
    <3>4. i = Len(fr) => gr[i + 1] = e
      BY <1>1
    <3>5. /\ fr[i].kind = "prog" <=> i = 1
          /\ fr[i].kind \in {"params", "body"} <=> i = 2
          /\ fr[i].kind = "loopbody" => i > 1 /\ fr[i - 1].kind = "for"
          /\ i < Len(fr) /\ fr[i].kind = "for" => fr[i + 1].kind = "loopbody"
          /\ fr[i].bb + Ahead(fr[i].kind) <= n
      BY <2>2 DEF Calling
    <3>6. fr[i].bb + Ahead(fr[i].kind) <= m
      BY <3>1, <3>5
    <3>7. i < Len(gr) /\ (i = Len(fr) \/ i < Len(fr))
      BY <1>1, <2>2
    <3>8. gr[i].kind = "for" => gr[i + 1].kind = "loopbody"
      <4>1. CASE i < Len(fr)
        BY <3>1, <3>3, <3>5, <4>1
      <4>2. CASE i = Len(fr)
        BY <1>1, <2>2, <3>1, <3>4, <4>2
      <4> QED
        BY <3>7, <4>1, <4>2
    <3>9. gr[i].kind = "loopbody" => i > 1 /\ gr[i - 1].kind = "for"
      BY <3>1, <3>2, <3>5
    <3> QED
      BY <3>1, <3>5, <3>6, <3>7, <3>8, <3>9
  <2> QED
    BY <1>1, <2>1, <2>2
<1> QED
  BY <1>2 DEF WellNested, gr

----------------------------------------------------------------------------
\* The invariant, and how opening and closing scopes keeps it.

IInv == TypeOK /\ HandlersNested /\ StackDiscipline /\ InCurrentFunc

Nesting == HandlersNested /\ StackDiscipline /\ InCurrentFunc

Owners == [BB -> FuncNames \cup {GlobalFunc, NoFunc}]

\* While a handler is active the stacks have a top; a handler other than that
\* of the program belongs to a function.
LEMMA TopFacts ==
    ASSUME IInv, status = "running"
    PROVE  /\ frames # <<>> /\ frames \in Seq(FrameRec) /\ blocks \in Seq(Scope)
           /\ Len(frames) \in 1..Len(frames) /\ Len(blocks) = Len(frames)
           /\ Top \in FrameRec /\ Top = frames[Len(frames)]
           /\ blocks[Len(blocks)] \in Scope /\ GetCurrentBlock \in BB
           /\ Top.kind # "for" /\ Top.bb + Ahead(Top.kind) <= nbb
           /\ Top.kind # "prog" => /\ Len(frames) > 1 /\ currentFunc # NoFunc
                                   /\ insertBB \in BB /\ owner[insertBB] = currentFunc
           /\ Top.kind = "prog" => Len(frames) = 1 /\ currentFunc = NoFunc
           /\ Top.kind \in {"params", "body"} => Len(frames) = 2
<1>1. frames \in Seq(FrameRec) /\ blocks \in Seq(Scope) /\ frames # <<>>
  BY DEF IInv, TypeOK, HandlersNested
<1>2. Len(frames) \in 1..Len(frames) /\ Len(blocks) = Len(frames)
  BY <1>1, EmptySeq DEF IInv, StackDiscipline
<1>3. frames[Len(frames)] \in FrameRec /\ blocks[Len(blocks)] \in Scope
  BY <1>1, <1>2, ElementOfSeq
<1>4. GetCurrentBlock \in BB
  BY <1>3 DEF GetCurrentBlock, Scope
<1>5. /\ Top.kind # "for" /\ Top.bb + Ahead(Top.kind) <= nbb
      /\ Top.kind = "prog" <=> Len(frames) = 1
      /\ Top.kind \in {"params", "body"} <=> Len(frames) = 2
  <2>1. WellNested(frames, nbb)
    BY DEF IInv, HandlersNested
  <2> QED
    BY <1>2, <2>1 DEF Top, WellNested
<1>6. Len(frames) > 1 <=> currentFunc # NoFunc
  BY DEF IInv, HandlersNested
<1>7. currentFunc # NoFunc => insertBB \in BB /\ owner[insertBB] = currentFunc
  BY DEF IInv, InCurrentFunc, TypeOK, NoBB
<1> QED
  BY <1>1, <1>2, <1>3, <1>4, <1>5, <1>6, <1>7 DEF Top

\* A step that neither opens nor closes a handler.
LEMMA SameHandlers ==
    ASSUME IInv, status' = status, frames' \in Seq(FrameRec),
           Len(frames') = Len(frames),
           \A i \in 1..Len(frames) :
              frames'[i].kind = frames[i].kind /\ frames'[i].bb = frames[i].bb,
           Len(blocks') = Len(blocks),
           \A i \in 1..Len(blocks) : blocks'[i].bb = blocks[i].bb,
           UNCHANGED <<currentFunc, nbb, owner, insertBB>>,
           inDef' => stmts' < MaxStmts
    PROVE  Nesting'
<1>1. frames \in Seq(FrameRec) /\ Len(frames) \in Nat /\ nbb \in Nat
  BY DEF IInv, TypeOK
<1>2. frames' = <<>> <=> frames = <<>>
  BY <1>1, EmptySeq
<1>3. HandlersNested'
  <2>1. WellNested(frames', nbb)
    BY <1>1, WellNestedSame DEF IInv, HandlersNested
  <2> QED
    BY <1>2, <2>1 DEF IInv, HandlersNested
<1>4. StackDiscipline'
  BY <1>1 DEF IInv, StackDiscipline
<1>5. InCurrentFunc'
  BY <1>1 DEF IInv, InCurrentFunc
<1> QED
  BY <1>3, <1>4, <1>5 DEF Nesting

\* A handler opens a scope with a basic block it owns: the frames and scopes
\* that were there keep their kinds and blocks.
LEMMA Opened ==
    ASSUME IInv, status = "running", status' = status, Top.kind # "prog",
           ~inDef', UNCHANGED currentFunc,
           NEW fr \in Seq(FrameRec), NEW e \in FrameRec, nbb' \in Nat,
           Len(fr) = Len(frames),
           \A i \in 1..Len(frames) : fr[i].bb = frames[i].bb,
           frames' = Append(fr, e), WellNested(frames', nbb'),
           blocks' = PushBasicBlock(blocks, e.bb),
           insertBB' \in BB, owner' \in Owners,
           \A x \in BB : owner'[x] \in {owner[x], currentFunc},
           owner'[insertBB'] = currentFunc, owner'[e.bb] = currentFunc
    PROVE  frames' \in Seq(FrameRec) /\ blocks' \in Seq(Scope) /\ Nesting'
<1>1. /\ Len(frames) \in 1..Len(frames) /\ Len(frames) > 1 /\ Len(blocks) = Len(frames)
      /\ currentFunc # NoFunc /\ blocks \in Seq(Scope)
  BY TopFacts
<1>2. e.bb \in BB
  BY DEF FrameRec
<1>3. /\ frames' \in Seq(FrameRec) /\ Len(frames') = Len(frames) + 1
      /\ frames'[Len(frames) + 1] = e
      /\ \A i \in 1..Len(frames) : frames'[i].bb = frames[i].bb
  BY Pushed
<1>4. /\ blocks' \in Seq(Scope) /\ Len(blocks') = Len(blocks) + 1
      /\ blocks'[Len(blocks) + 1].bb = e.bb
      /\ \A i \in 1..Len(blocks) : blocks'[i] = blocks[i]
  BY <1>1, <1>2, ScopeOfType, Pushed DEF PushBasicBlock
<1>5. HandlersNested'
  <2>1. frames' # <<>> /\ Len(frames') > 1
    BY <1>1, <1>3, EmptySeq
  <2> QED
    BY <1>1, <2>1 DEF HandlersNested
<1>6. StackDiscipline'
  <2>1. \A i \in 1..Len(frames) : frames[i].bb = blocks[i].bb
    BY DEF IInv, StackDiscipline
  <2>2. ASSUME NEW i \in 1..Len(frames')
        PROVE  frames'[i].bb = blocks'[i].bb
    <3>1. CASE i = Len(frames) + 1
      BY <1>1, <1>3, <1>4, <3>1
    <3>2. CASE i \in 1..Len(frames)
      BY <1>1, <1>3, <1>4, <2>1, <3>2
    <3> QED
      BY <1>1, <1>3, <3>1, <3>2
  <2> QED
    BY <1>1, <1>3, <1>4, <2>2 DEF StackDiscipline
<1>7. InCurrentFunc'
  <2>1. ASSUME NEW i \in 2..Len(blocks')
        PROVE  owner'[blocks'[i].bb] = currentFunc
    <3>1. CASE i = Len(blocks) + 1
      BY <1>4, <3>1
    <3>2. CASE i \in 2..Len(blocks)
      <4>1. blocks[i] \in Scope
        BY <1>1, <3>2, ElementOfSeq
      <4>2. owner[blocks[i].bb] = currentFunc
        BY <1>1, <3>2 DEF IInv, InCurrentFunc
      <4>3. blocks[i].bb \in BB /\ blocks'[i] = blocks[i]
        BY <1>1, <1>4, <3>2, <4>1 DEF Scope
      <4> QED
        BY <4>2, <4>3
    <3> QED
      BY <1>1, <1>4, <3>1, <3>2
  <2>2. insertBB' # NoBB /\ Len(blocks') > 1
    BY <1>1, <1>4 DEF BB, NoBB
  <2> QED
    BY <2>1, <2>2 DEF InCurrentFunc
<1> QED
  BY <1>3, <1>4, <1>5, <1>6, <1>7 DEF Nesting

\* One handler, or two, are left and the insertion point stays in the function.
LEMMA Closed ==
    ASSUME IInv, status = "running", status' = status, ~inDef', UNCHANGED <<currentFunc, nbb>>,
           frames' \in Seq(FrameRec), Len(frames') \in 2..Len(frames),
           \A i \in 1..Len(frames') : frames'[i] = frames[i],
           frames'[Len(frames')].kind # "for",
           blocks' \in Seq(Scope), Len(blocks') = Len(frames'),
           \A i \in 1..Len(blocks') : blocks'[i] = blocks[i],
           insertBB' \in BB, owner' \in Owners,
           \A x \in BB : owner'[x] \in {owner[x], currentFunc},
           owner'[insertBB'] = currentFunc
    PROVE  Nesting'
<1>1. /\ frames \in Seq(FrameRec) /\ Len(frames) > 1 /\ Len(blocks) = Len(frames)
      /\ nbb \in Nat /\ Len(frames) \in Nat /\ blocks \in Seq(Scope) /\ frames # <<>>
  BY TopFacts DEF IInv, TypeOK
<1>2. currentFunc # NoFunc
  BY <1>1 DEF IInv, HandlersNested
<1>3. HandlersNested'
  <2>1. WellNested(frames', nbb)
    BY <1>1, WellNestedPop DEF IInv, HandlersNested
  <2>2. frames' # <<>> /\ Len(frames') > 1
    BY EmptySeq
  <2> QED
    BY <1>2, <2>1, <2>2 DEF HandlersNested
<1>4. StackDiscipline'
  BY <1>1 DEF IInv, StackDiscipline
<1>5. InCurrentFunc'
  <2>1. ASSUME NEW i \in 2..Len(blocks')
        PROVE  owner'[blocks'[i].bb] = currentFunc
    <3>1. blocks[i] \in Scope /\ i \in 2..Len(blocks)
      BY <1>1, ElementOfSeq
    <3>2. owner[blocks[i].bb] = currentFunc
      BY <1>2, <3>1 DEF IInv, InCurrentFunc
    <3>3. blocks[i].bb \in BB /\ blocks'[i] = blocks[i]
      BY <1>1, <3>1 DEF Scope
    <3> QED
      BY <3>2, <3>3
  <2> QED
    BY <1>2, <2>1 DEF InCurrentFunc, BB, NoBB
<1> QED
  BY <1>3, <1>4, <1>5 DEF Nesting

----------------------------------------------------------------------------
\* One lemma for each action, or two actions that are alike.

\* A printing function is complete when it is created.
LEMMA CreatePrintFuncStep ==
    ASSUME IInv, NEW f \in FuncNames, CreatePrintFunc(f)
    PROVE  IInv'
<1>1. frames = <<>> /\ blocks \in Seq(Scope) /\ Len(blocks) = 0 /\ nbb + 1 \in BB
  <2>1. frames = <<>>
    BY DEF CreatePrintFunc, IInv, HandlersNested
  <2> QED
    BY <2>1, MaxBBAssumption DEF CreatePrintFunc, IInv, TypeOK, StackDiscipline, BB
<1>2. blocks' = blocks
  <2>1. PushBasicBlock(blocks, nbb + 1) \in Seq(Scope) /\ Len(PushBasicBlock(blocks, nbb + 1)) = 1
    BY <1>1, ScopeOfType, Pushed DEF PushBasicBlock
  <2>2. blocks' \in Seq(Scope) /\ Len(blocks') = 0
    BY <2>1, Popped DEF CreatePrintFunc, PopBasicBlock
  <2> QED
    BY <1>1, <2>2, EmptySeq
<1>3. TypeOK'
  <2>1. <<Call, Ret>> \in Seq(Instr)
    BY InstrType
  <2>2. instrs' \in [BB -> Seq(Instr)]
    BY <2>1, EmitType DEF CreatePrintFunc, IInv, TypeOK
  <2>3. nbb' \in 0..MaxBB
    BY MaxBBAssumption DEF CreatePrintFunc, IInv, TypeOK
  <2>4. owner' \in [BB -> FuncNames \cup {GlobalFunc, NoFunc}]
    BY DEF CreatePrintFunc, IInv, TypeOK
  <2> QED
    BY <1>2, <2>2, <2>3, <2>4 DEF CreatePrintFunc, IInv, TypeOK
<1>4. currentFunc = NoFunc /\ Len(frames) = 0
  BY <1>1 DEF IInv, HandlersNested
<1>5. HandlersNested'
  BY <1>1, <1>4 DEF CreatePrintFunc, IInv, HandlersNested, WellNested
<1> QED
  BY <1>2, <1>3, <1>4, <1>5 DEF CreatePrintFunc, IInv, StackDiscipline, InCurrentFunc

\* The handler of the program is the only one when it starts.
LEMMA BeginProgStep ==
    ASSUME IInv, BeginProg
    PROVE  IInv'
<1>1. /\ frames = <<>> /\ blocks \in Seq(Scope) /\ Len(blocks) = 0 /\ Len(frames) = 0
      /\ nbb + 1 \in BB
  BY MaxBBAssumption DEF BeginProg, IInv, TypeOK, HandlersNested, StackDiscipline, BB
<1>2. nbb \in Nat /\ nbb + 1 \in BB /\ "prog" \in FrameKinds /\ currentFunc = NoFunc
  BY <1>1, MaxBBAssumption DEF BeginProg, IInv, TypeOK, HandlersNested, FrameKinds, ListKinds, BB
<1>3. /\ blocks' \in Seq(Scope) /\ Len(blocks') = 1 /\ blocks'[1].bb = nbb + 1
  BY <1>1, <1>2, ScopeOfType, Pushed DEF BeginProg, PushBasicBlock
<1>4. Frame("prog", nbb + 1) \in FrameRec
      /\ Frame("prog", nbb + 1).kind = "prog" /\ Frame("prog", nbb + 1).bb = nbb + 1
  BY <1>2, FrameType
<1>5. frames' \in Seq(FrameRec) /\ Len(frames') = 1 /\ frames'[1] = Frame("prog", nbb + 1)
  BY <1>4 DEF BeginProg
<1>6. TypeOK'
  <2>1. owner' \in [BB -> FuncNames \cup {GlobalFunc, NoFunc}]
    BY DEF BeginProg, IInv, TypeOK
  <2>2. nbb' \in 0..MaxBB
    BY MaxBBAssumption DEF BeginProg, IInv, TypeOK
  <2> QED
    BY <1>3, <1>5, <2>1, <2>2 DEF BeginProg, IInv, TypeOK, func
<1>7. HandlersNested'
  <2>1. Ahead("prog") = 0
    BY DEF Ahead
  <2>2. WellNested(frames', nbb')
    BY <1>2, <1>4, <1>5, <2>1 DEF WellNested, BeginProg
  <2> QED
    BY <1>2, <1>5, <2>2 DEF BeginProg, IInv, HandlersNested, func
<1>8. StackDiscipline'
  BY <1>3, <1>4, <1>5 DEF StackDiscipline
<1>9. InCurrentFunc'
  BY <1>2 DEF BeginProg, InCurrentFunc, func
<1> QED
  BY <1>6, <1>7, <1>8, <1>9 DEF IInv

\* No handler is left when the program ends.
LEMMA EndProgStep ==
    ASSUME IInv, EndProg
    PROVE  IInv'
<1>1. status = "running" /\ ~inDef /\ Top.kind = "prog"
  BY DEF EndProg, Running
<1>2. /\ Len(frames) = 1 /\ Len(blocks) = 1 /\ currentFunc = NoFunc
      /\ frames \in Seq(FrameRec) /\ blocks \in Seq(Scope)
  BY <1>1, TopFacts
<1>3. frames' \in Seq(FrameRec) /\ Len(frames') = 0
  BY <1>2, Popped DEF EndProg, PopFrame
<1>4. blocks' \in Seq(Scope) /\ Len(blocks') = 0
  BY <1>2, Popped DEF EndProg, PopBasicBlock
<1>5. TypeOK'
  <2>1. instrs' \in [BB -> Seq(Instr)]
    <3>1. <<>> \in Seq(Instr)
      OBVIOUS
    <3> QED
      BY <3>1 DEF EndProg, IInv, TypeOK
  <2>2. owner' \in [BB -> FuncNames \cup {GlobalFunc, NoFunc}]
    BY DEF EndProg, IInv, TypeOK
  <2> QED
    BY <1>3, <1>4, <2>1, <2>2 DEF EndProg, IInv, TypeOK, func
<1>6. HandlersNested'
  <2>1. frames' = <<>>
    BY <1>3, EmptySeq
  <2> QED
    BY <1>1, <1>2, <1>3, <2>1 DEF EndProg, HandlersNested, WellNested, func
<1>7. StackDiscipline'
  BY <1>3, <1>4 DEF StackDiscipline
<1>8. InCurrentFunc'
  BY <1>2 DEF EndProg, InCurrentFunc, func
<1> QED
  BY <1>5, <1>6, <1>7, <1>8 DEF IInv

\* The handler of a function is called by that of the program.
LEMMA BeginFuncStep ==
    ASSUME IInv, NEW f \in FuncNames, NEW void \in BOOLEAN, BeginFunc(f, void)
    PROVE  IInv'
<1>1. status = "running" /\ ~inDef /\ Top.kind = "prog" /\ f # NoFunc
  BY FuncAssumption DEF BeginFunc, Running
<1>2. /\ Len(frames) = 1 /\ Len(blocks) = 1 /\ currentFunc = NoFunc /\ frames # <<>>
      /\ frames \in Seq(FrameRec) /\ blocks \in Seq(Scope) /\ Top = frames[1]
  BY <1>1, TopFacts
<1>3. nbb \in Nat /\ nbb + 1 \in BB /\ "params" \in FrameKinds
  BY MaxBBAssumption DEF BeginFunc, IInv, TypeOK, BB, FrameKinds
<1> DEFINE fr == Took(FALSE)
           e  == Frame("params", nbb + 1)
<1>4. /\ fr \in Seq(FrameRec) /\ Len(fr) = 1
      /\ \A i \in 1..1 : fr[i].kind = frames[i].kind /\ fr[i].bb = frames[i].bb
  BY <1>2, TookType
<1>5. e \in FrameRec /\ e.kind = "params" /\ e.bb = nbb + 1
  BY <1>3, FrameType
<1>6. frames' = Append(fr, e)
  BY DEF BeginFunc
<1> HIDE DEF fr, e
<1>7. /\ frames' \in Seq(FrameRec) /\ Len(frames') = 2
      /\ frames'[1].bb = frames[1].bb /\ frames'[2] = e
  BY <1>4, <1>5, <1>6, FirstPushed
<1>8. /\ blocks' \in Seq(Scope) /\ Len(blocks') = 2
      /\ blocks'[1] = blocks[1] /\ blocks'[2].bb = nbb + 1
  BY <1>2, <1>3, ScopeOfType, FirstPushed DEF BeginFunc, PushBasicBlock
<1>9. TypeOK'
  <2>1. owner' \in [BB -> FuncNames \cup {GlobalFunc, NoFunc}]
    BY DEF BeginFunc, IInv, TypeOK
  <2>2. nbb' \in 0..MaxBB /\ stmts' \in 0..MaxStmts
    BY MaxBBAssumption, ProgramAssumption DEF BeginFunc, IInv, TypeOK
  <2> QED
    BY <1>3, <1>7, <1>8, <2>1, <2>2 DEF BeginFunc, IInv, TypeOK
<1>10. HandlersNested'
  <2>1. WellNested(frames, nbb)
    BY DEF IInv, HandlersNested
  <2>2. frames[1].kind = "prog" /\ frames[1].bb + Ahead(frames[1].kind) <= nbb
    BY <1>2, <2>1 DEF WellNested
  <2>3. Calling(fr, nbb)
    BY <1>4, <2>2 DEF Calling
  <2>4. Ahead("params") = 0
    BY DEF Ahead
  <2>5. WellNested(frames', nbb + 1)
    BY <1>3, <1>4, <1>5, <1>6, <2>2, <2>3, <2>4, WellNestedPush
  <2>6. Len(frames') = 2
    BY <1>7
  <2>7. Len(frames') > 1 /\ frames' # <<>>
    BY <2>6, NotEmpty
  <2>8. /\ status' = "running" /\ ~inDef' /\ currentFunc' # NoFunc
        /\ nbb' = nbb + 1
    BY <1>1 DEF BeginFunc
  <2> QED
    BY <2>5, <2>7, <2>8 DEF HandlersNested
<1>11. StackDiscipline'
  BY <1>2, <1>5, <1>7, <1>8 DEF IInv, StackDiscipline
<1>12. InCurrentFunc'
  <2>1. owner'[nbb + 1] = f /\ insertBB' = nbb + 1 /\ currentFunc' = f
    BY <1>3 DEF BeginFunc, IInv, TypeOK
  <2>2. nbb + 1 # NoBB
    BY <1>3 DEF BB, NoBB
  <2> QED
    BY <1>8, <2>1, <2>2 DEF InCurrentFunc
<1> QED
  BY <1>9, <1>10, <1>11, <1>12 DEF IInv

\* A parameter is bound in the scope of its function.
LEMMA AddParamStep ==
    ASSUME IInv, NEW v \in Vars, AddParam(v)
    PROVE  IInv'
<1> DEFINE p == <<GetCurrentBlock, Len(instrs[GetCurrentBlock]) + 1>>
<1>1. status = "running" /\ ~inDef /\ GetCurrentBlock \in BB /\ blocks \in Seq(Scope)
  BY TopFacts DEF AddParam, Running
<1>2. p \in Ptr
  BY <1>1 DEF IInv, TypeOK, Ptr
<1>3. /\ instrs' = Emit(Emit(instrs, GetCurrentBlock, <<Alloca>>), insertBB, <<Access(p)>>)
      /\ blocks' = AddLocalVar(blocks, p, v)
  BY DEF AddParam
<1> HIDE DEF p
<1>4. instrs' \in [BB -> Seq(Instr)]
  <2>1. <<Alloca>> \in Seq(Instr) /\ <<Access(p)>> \in Seq(Instr)
    BY <1>2, InstrType
  <2>2. Emit(instrs, GetCurrentBlock, <<Alloca>>) \in [BB -> Seq(Instr)]
    BY <2>1, EmitType DEF IInv, TypeOK
  <2> QED
    BY <1>3, <2>1, <2>2, EmitType
<1>5. /\ blocks' \in Seq(Scope) /\ Len(blocks') = Len(blocks)
      /\ \A i \in 1..Len(blocks) : blocks'[i].bb = blocks[i].bb
  BY <1>1, <1>2, <1>3, AddLocalVarType
<1>6. TypeOK'
  <2>1. stmts' \in 0..MaxStmts
    BY ProgramAssumption DEF AddParam, IInv, TypeOK
  <2> QED
    BY <1>4, <1>5, <2>1 DEF AddParam, IInv, TypeOK, func
<1>7. Nesting'
  BY <1>1, <1>5, <1>6, SameHandlers DEF AddParam, TypeOK, func
<1> QED
  BY <1>6, <1>7 DEF IInv, Nesting

\* The handler of a function goes on to its body.
LEMMA BeginBodyStep ==
    ASSUME IInv, BeginBody
    PROVE  IInv'
<1>1. status = "running" /\ ~inDef /\ Top.kind = "params"
  BY DEF BeginBody, Running
<1>2. /\ frames \in Seq(FrameRec) /\ Len(frames) = 2 /\ Top \in FrameRec
      /\ Top = frames[2] /\ nbb \in Nat
  <2>1. nbb \in Nat
    BY DEF IInv, TypeOK
  <2> QED
    BY <1>1, <2>1, TopFacts
<1> DEFINE e == [Top EXCEPT !.kind = "body"]
<1>3. e \in FrameRec /\ e.kind = "body" /\ e.bb = Top.bb
  BY <1>2 DEF FrameRec, FrameKinds, ListKinds
<1>4. frames' = [frames EXCEPT ![2] = e]
  BY <1>2 DEF BeginBody
<1> HIDE DEF e
<1>5. /\ frames' \in Seq(FrameRec) /\ Len(frames') = 2
      /\ frames'[1] = frames[1] /\ frames'[2] = e
  BY <1>2, <1>3, <1>4, SecondReplaced
<1>6. TypeOK'
  BY <1>5 DEF BeginBody, IInv, TypeOK, func, code
<1>7. HandlersNested'
  <2>1. WellNested(frames, nbb)
    BY DEF IInv, HandlersNested
  <2>2. /\ frames[1].kind = "prog" /\ frames[1].bb + Ahead(frames[1].kind) <= nbb
        /\ frames[2].bb + Ahead(frames[2].kind) <= nbb
    BY <1>2, <2>1 DEF WellNested
  <2>3. Ahead("params") = Ahead("body")
    BY DEF Ahead
  <2>4. WellNested(frames', nbb)
    BY <1>1, <1>2, <1>3, <1>5, <2>2, <2>3 DEF WellNested
  <2>5. frames' # <<>>
    BY <1>5, NotEmpty
  <2> QED
    BY <1>1, <1>2, <1>5, <2>4, <2>5 DEF BeginBody, IInv, HandlersNested, func, code
<1>8. StackDiscipline'
  <2>1. Len(frames) = 2 /\ Len(blocks) = 2 /\ \A i \in {1, 2} : frames[i].bb = blocks[i].bb
    BY <1>2 DEF IInv, StackDiscipline
  <2>2. \A i \in {1, 2} : frames'[i].bb = blocks[i].bb
    BY <1>2, <1>3, <1>5, <2>1
  <2>3. blocks' = blocks
    BY DEF BeginBody
  <2>4. \A i \in 1..2 : i \in {1, 2}
    OBVIOUS
  <2> QED
    BY <1>5, <2>1, <2>2, <2>3, <2>4 DEF StackDiscipline
<1>9. InCurrentFunc'
  BY DEF BeginBody, IInv, InCurrentFunc, func, code
<1> QED
  BY <1>6, <1>7, <1>8, <1>9 DEF IInv

\* The handler of a function is left for that of the program.
LEMMA EndFuncStep ==
    ASSUME IInv, EndFunc
    PROVE  IInv'
<1>1. status = "running" /\ ~inDef /\ Top.kind = "body"
  BY DEF EndFunc, Running
<1>2. /\ frames \in Seq(FrameRec) /\ Len(frames) = 2 /\ blocks \in Seq(Scope)
      /\ Len(blocks) = 2 /\ insertBB \in BB /\ nbb \in Nat
  BY <1>1, TopFacts DEF IInv, TypeOK
<1>3. frames' \in Seq(FrameRec) /\ Len(frames') = 1 /\ frames'[1] = frames[1]
  BY <1>2, SecondPopped DEF EndFunc, PopFrame
<1>4. blocks' \in Seq(Scope) /\ Len(blocks') = 1 /\ blocks'[1] = blocks[1]
  BY <1>2, SecondPopped DEF EndFunc, PopBasicBlock
<1>5. TypeOK'
  <2>1. <<Ret>> \in Seq(Instr)
    BY InstrType
  <2>2. Emit(instrs, insertBB, <<Ret>>) \in [BB -> Seq(Instr)]
    BY <2>1, EmitType DEF IInv, TypeOK
  <2> QED
    BY <1>3, <1>4, <2>2 DEF EndFunc, DefaultReturn, IInv, TypeOK
<1>6. HandlersNested'
  <2>1. WellNested(frames, nbb)
    BY DEF IInv, HandlersNested
  <2>2. frames[1].kind = "prog"
    BY <1>2, <2>1 DEF WellNested
  <2>3. WellNested(frames', nbb)
    BY <1>2, <1>3, <2>1, <2>2, WellNestedPop
  <2>4. frames' # <<>>
    BY <1>3, NotEmpty
  <2> QED
    BY <1>1, <1>3, <2>3, <2>4 DEF EndFunc, HandlersNested
<1>7. StackDiscipline'
  BY <1>2, <1>3, <1>4 DEF IInv, StackDiscipline
<1>8. InCurrentFunc'
  BY DEF EndFunc, InCurrentFunc
<1> QED
  BY <1>5, <1>6, <1>7, <1>8 DEF IInv

\* Where a statement may come there is a handler of a statement or a body.
LEMMA StmtFacts ==
    ASSUME IInv, Running, InStmts
    PROVE  /\ status = "running" /\ ~inDef /\ Top.kind \notin {"prog", "params", "for"}
           /\ frames # <<>> /\ insertBB \in BB /\ owner[insertBB] = currentFunc
           /\ \A m \in BOOLEAN :
                 /\ Took(m) \in Seq(FrameRec) /\ Len(Took(m)) = Len(frames)
                 /\ \A i \in 1..Len(frames) :
                       Took(m)[i].kind = frames[i].kind /\ Took(m)[i].bb = frames[i].bb
<1>1. status = "running" /\ ~inDef /\ Top.kind \notin {"prog", "params"}
  BY DEF Running, InStmts, ListKinds
<1> QED
  BY <1>1, TopFacts, TookType

\* An empty statement, an expression statement and a return do not touch the
\* scopes.
LEMMA PlainStmtStep ==
    ASSUME IInv, EmptyStmt \/ \E e \in Exprs \cup {NoExpr} : ExprStmt(e) \/ Return(e)
    PROVE  IInv'
<1>1. Running /\ InStmts
  BY DEF EmptyStmt, ExprStmt, Return, ReturnPosition, AnyStmt, StmtPosition
<1>2. /\ status' = status /\ frames' = Took(FALSE) /\ blocks' = blocks
      /\ UNCHANGED <<currentFunc, funcs, mainFunc, retVoid, nbb, owner, insertBB, inDef>>
  BY DEF EmptyStmt, ExprStmt, Return, func, code
<1>3. /\ ~inDef /\ frames' \in Seq(FrameRec) /\ Len(frames') = Len(frames)
      /\ \A i \in 1..Len(frames) :
            frames'[i].kind = frames[i].kind /\ frames'[i].bb = frames[i].bb
  BY <1>1, <1>2, StmtFacts
<1>4. instrs' \in [BB -> Seq(Instr)]
  <2>1. CASE EmptyStmt
    BY <2>1 DEF EmptyStmt, code, IInv, TypeOK
  <2>2. ASSUME NEW e, ExprStmt(e)
        PROVE  instrs' \in [BB -> Seq(Instr)]
    <3>1. ExprCode(blocks, e) \in Seq(Instr)
      BY <2>2, ExprCodeType DEF ExprStmt, IInv, TypeOK
    <3> QED
      BY <2>2, <3>1, EmitType DEF ExprStmt, IInv, TypeOK
  <2>3. ASSUME NEW e, Return(e)
        PROVE  instrs' \in [BB -> Seq(Instr)]
    <3>1. ExprCode(blocks, e) \in Seq(Instr)
      BY <2>3, ExprCodeType DEF Return, IInv, TypeOK
    <3>2. Append(ExprCode(blocks, e), Ret) \in Seq(Instr)
      BY <3>1, InstrType, Pushed
    <3> QED
      BY <2>3, <3>2, EmitType DEF Return, IInv, TypeOK
  <2> QED
    BY <2>1, <2>2, <2>3
<1>5. stmts' \in 0..MaxStmts
  <2>1. stmts' = stmts \/ (stmts < MaxStmts /\ stmts' = stmts + 1)
    BY DEF EmptyStmt, ExprStmt, Return, ReturnPosition, AnyStmt, StmtPosition
  <2>2. stmts \in 0..MaxStmts
    BY DEF IInv, TypeOK
  <2> QED
    BY <2>1, <2>2, ProgramAssumption
<1>6. TypeOK'
  BY <1>2, <1>3, <1>4, <1>5 DEF IInv, TypeOK
<1>7. Nesting'
  BY <1>2, <1>3, SameHandlers
<1> QED
  BY <1>6, <1>7 DEF IInv, Nesting

\* A definition binds a name in the innermost scope.
LEMMA DefineVarStep ==
    ASSUME IInv, NEW v \in Vars, NEW init \in Exprs \cup {NoExpr}, NEW more \in BOOLEAN,
           DefineVar(v, init, more)
    PROVE  IInv'
<1> DEFINE home  == GetCurrentBlock
           p     == <<home, Len(instrs[home]) + 1>>
           scope == AddLocalVar(blocks, p, v)
           value == IF init = NoExpr THEN <<>> ELSE Append(ExprCode(scope, init), Access(p))
<1>1. /\ status = "running" /\ home \in BB /\ blocks \in Seq(Scope)
      /\ frames \in Seq(FrameRec) /\ frames # <<>>
  BY TopFacts DEF DefineVar
<1>2. p \in Ptr
  BY <1>1 DEF IInv, TypeOK, Ptr
<1>3. /\ status' = status /\ blocks' = scope /\ inDef' = more
      /\ instrs' = Emit(Emit(instrs, home, <<Alloca>>), insertBB, value)
      /\ frames' = IF inDef THEN frames ELSE Took(FALSE)
      /\ ~Throws(scope, init)
      /\ UNCHANGED <<currentFunc, funcs, mainFunc, retVoid, nbb, owner, insertBB>>
  BY DEF DefineVar, func
<1> HIDE DEF p, home
<1>4. /\ scope \in Seq(Scope) /\ Len(scope) = Len(blocks)
      /\ \A i \in 1..Len(blocks) : scope[i].bb = blocks[i].bb
  BY <1>1, <1>2, AddLocalVarType
<1> HIDE DEF scope
<1>5. instrs' \in [BB -> Seq(Instr)]
  <2>1. <<Alloca>> \in Seq(Instr) /\ Access(p) \in Instr
    BY <1>2, InstrType
  <2>2. value \in Seq(Instr)
    <3>1. ExprCode(scope, init) \in Seq(Instr)
      BY <1>3, <1>4, ExprCodeType
    <3>2. Append(ExprCode(scope, init), Access(p)) \in Seq(Instr)
      BY <2>1, <3>1, Pushed
    <3> QED
      BY <3>2
  <2>3. Emit(instrs, home, <<Alloca>>) \in [BB -> Seq(Instr)]
    BY <2>1, EmitType DEF IInv, TypeOK
  <2> HIDE DEF value
  <2> QED
    BY <1>3, <2>2, <2>3, EmitType
<1>6. /\ frames' \in Seq(FrameRec) /\ Len(frames') = Len(frames)
      /\ \A i \in 1..Len(frames) :
            frames'[i].kind = frames[i].kind /\ frames'[i].bb = frames[i].bb
  BY <1>1, <1>3, TookType
<1>7. stmts < MaxStmts
  BY DEF DefineVar, VarDefPosition, StmtPosition, IInv, HandlersNested
<1>8. stmts' \in 0..MaxStmts /\ (inDef' => stmts' < MaxStmts)
  BY <1>7, ProgramAssumption DEF DefineVar, IInv, TypeOK
<1>9. TypeOK'
  BY <1>3, <1>4, <1>5, <1>6, <1>8 DEF IInv, TypeOK
<1>10. Nesting'
  BY <1>3, <1>4, <1>6, <1>8, SameHandlers
<1> QED
  BY <1>9, <1>10 DEF IInv, Nesting

\* Appending instructions to the insertion point, and then to another block.
LEMMA EmitTwice ==
    ASSUME IInv, NEW b, NEW s \in Seq(Instr), NEW t \in Seq(Instr)
    PROVE  /\ Emit(instrs, insertBB, s) \in [BB -> Seq(Instr)]
           /\ Emit(Emit(instrs, insertBB, s), b, t) \in [BB -> Seq(Instr)]
BY EmitType DEF IInv, TypeOK

\* A block, an if or a for statement opens its first scope: `ahead' more
\* blocks are created with the block of the scope.
LEMMA StmtOpened ==
    ASSUME IInv, AnyStmt, NEW k \in {"block", "then", "forinit"},
           NEW b, b = nbb + 1, b + Ahead(k) <= MaxBB, nbb' = b + Ahead(k),
           instrs' \in [BB -> Seq(Instr)], Place(b),
           blocks' = PushBasicBlock(blocks, b),
           frames' = Append(Took(TRUE), Frame(k, b)),
           stmts' = stmts + 1, UNCHANGED <<status, func, inDef>>
    PROVE  IInv'
<1>1. Running /\ InStmts /\ stmts < MaxStmts
  BY DEF AnyStmt, StmtPosition
<1>2. /\ status = "running" /\ ~inDef /\ Top.kind \notin {"prog", "params", "for"}
      /\ insertBB \in BB
  BY <1>1, StmtFacts
<1>3. /\ frames \in Seq(FrameRec) /\ Len(frames) > 1 /\ Len(frames) \in Nat
      /\ currentFunc # NoFunc /\ Top = frames[Len(frames)]
  BY <1>2, TopFacts
<1>4. /\ Took(TRUE) \in Seq(FrameRec) /\ Len(Took(TRUE)) = Len(frames)
      /\ \A i \in 1..Len(frames) :
            Took(TRUE)[i].kind = frames[i].kind /\ Took(TRUE)[i].bb = frames[i].bb
  BY <1>1, StmtFacts
<1>5. b \in BB /\ nbb \in Nat /\ nbb' \in 0..MaxBB /\ nbb <= nbb' /\ nbb' \in Nat
  <2>0. Ahead(k) \in Nat
    BY AheadType
  <2>1. nbb \in Nat /\ Ahead(k) \in Nat /\ MaxBB \in Nat
    BY <2>0, MaxBBAssumption DEF IInv, TypeOK
  <2>2. b \in Nat /\ nbb <= b /\ b <= nbb' /\ nbb' <= MaxBB /\ nbb' \in Nat /\ b > 0
    BY <2>1
  <2> QED
    BY <2>1, <2>2 DEF BB
<1>6. k \in FrameKinds
  BY DEF FrameKinds, ListKinds
<1>7. Frame(k, b) \in FrameRec /\ Frame(k, b).kind = k /\ Frame(k, b).bb = b
  BY <1>5, <1>6, FrameType
<1> DEFINE fr == Took(TRUE)
           e  == Frame(k, b)
<1>8. WellNested(frames', nbb')
  <2>1. WellNested(fr, nbb)
    BY <1>3, <1>4, <1>5, WellNestedSame DEF IInv, HandlersNested
  <2>2. Calling(fr, nbb)
    BY <2>1 DEF WellNested, Calling
  <2>3. fr[Len(fr)].kind # "for" /\ Len(fr) > 1 /\ fr \in Seq(FrameRec)
    <3>1. fr \in Seq(FrameRec) /\ Len(fr) = Len(frames)
      BY <1>4
    <3>2. Len(frames) \in 1..Len(frames)
      BY <1>3
    <3>3. fr[Len(frames)].kind = frames[Len(frames)].kind
      BY <1>4, <3>2
    <3> HIDE DEF fr
    <3> QED
      BY <1>2, <1>3, <3>1, <3>3
  <2> HIDE DEF fr, e
  <2>4. /\ e.kind # "for" /\ e.kind # "prog" /\ e.kind \notin {"params", "body"}
        /\ e.kind # "loopbody" /\ e.bb + Ahead(e.kind) <= nbb'
    BY <1>5, <1>7, AheadType DEF e
  <2>5. e \in FrameRec /\ Len(fr) # 0 /\ Len(fr) # 1
    BY <1>7, <2>3 DEF e
  <2>6. WellNested(Append(fr, e), nbb')
    BY <1>5, <2>2, <2>3, <2>4, <2>5, WellNestedPush
  <2> QED
    BY <2>6 DEF fr, e
<1>9. /\ insertBB' = b /\ owner' \in Owners /\ owner'[b] = currentFunc
      /\ \A x \in BB : owner'[x] \in {owner[x], currentFunc}
  BY <1>5 DEF Place, Owners, IInv, TypeOK
<1>10. currentFunc' = currentFunc /\ ~inDef' /\ status' = status
  BY <1>2 DEF func
<1>11. frames' \in Seq(FrameRec) /\ blocks' \in Seq(Scope) /\ Nesting'
  <2> HIDE DEF fr, e
  <2>1. /\ fr \in Seq(FrameRec) /\ e \in FrameRec /\ e.bb = b /\ Len(fr) = Len(frames)
        /\ \A i \in 1..Len(frames) : fr[i].bb = frames[i].bb
        /\ frames' = Append(fr, e) /\ blocks' = PushBasicBlock(blocks, e.bb)
    BY <1>4, <1>7 DEF fr, e
  <2> QED
    BY <1>2, <1>5, <1>8, <1>9, <1>10, <2>1, Opened
<1>12. TypeOK'
  <2>1. stmts' \in 0..MaxStmts
    BY <1>1, ProgramAssumption DEF IInv, TypeOK
  <2> QED
    BY <1>5, <1>9, <1>11, <2>1 DEF IInv, TypeOK, func, Owners
<1> QED
  BY <1>11, <1>12 DEF IInv, Nesting

\* The statements that open a scope.
LEMMA BeginStmtStep ==
    ASSUME IInv, BeginBlock \/ BeginFor \/ \E c \in Exprs : BeginIf(c)
    PROVE  IInv'
<1>1. AnyStmt
  BY DEF BeginBlock, BeginFor, BeginIf
<1>2. Ahead("block") = 0 /\ Ahead("then") = 2 /\ Ahead("forinit") = 4 /\ nbb \in Nat
  BY DEF Ahead, IInv, TypeOK
<1> DEFINE b == nbb + 1
<1>3. CASE BeginBlock
  <2>1. b \in BB
    BY <1>2, <1>3, MaxBBAssumption DEF BeginBlock, BB
  <2>2. <<Br(b)>> \in Seq(Instr)
    BY <2>1, InstrType
  <2>3. instrs' \in [BB -> Seq(Instr)]
    BY <1>3, <2>2, EmitTwice DEF BeginBlock
  <2>4. b + Ahead("block") <= MaxBB /\ nbb' = b + Ahead("block")
    BY <1>2, <1>3, MaxBBAssumption DEF BeginBlock
  <2> QED
    BY <1>1, <1>3, <2>3, <2>4, StmtOpened DEF BeginBlock
<1>4. CASE BeginFor
  <2>1. b \in BB
    BY <1>2, <1>4, MaxBBAssumption DEF BeginFor, BB
  <2>2. <<Br(b)>> \in Seq(Instr)
    BY <2>1, InstrType
  <2>3. instrs' \in [BB -> Seq(Instr)]
    BY <1>4, <2>2, EmitTwice DEF BeginFor
  <2>4. b + Ahead("forinit") <= MaxBB /\ nbb' = b + Ahead("forinit")
    BY <1>2, <1>4, MaxBBAssumption DEF BeginFor
  <2> QED
    BY <1>1, <1>4, <2>3, <2>4, StmtOpened DEF BeginFor
<1>5. ASSUME NEW c \in Exprs, BeginIf(c)
      PROVE  IInv'
  <2>1. b \in BB /\ b + 1 \in BB
    BY <1>2, <1>5, MaxBBAssumption DEF BeginIf, BB
  <2>2. ExprCode(blocks, c) \in Seq(Instr) /\ CondBr(b, b + 1) \in Instr
    BY <1>5, <2>1, ExprCodeType, InstrType DEF BeginIf, IInv, TypeOK
  <2>3. instrs' \in [BB -> Seq(Instr)]
    BY <1>5, <2>2, EmitTwice, Pushed DEF BeginIf
  <2>4. b + Ahead("then") <= MaxBB /\ nbb' = b + Ahead("then")
    BY <1>2, <1>5, MaxBBAssumption DEF BeginIf
  <2> QED
    BY <1>1, <1>5, <2>3, <2>4, StmtOpened DEF BeginIf
<1> QED
  BY <1>3, <1>4, <1>5

\* Where a handler that has a scope of its own may be left.
LEMMA CloseFacts ==
    ASSUME IInv, Running, Top.kind \in {"block", "then", "else", "loopbody"}
    PROVE  /\ status = "running" /\ ~inDef /\ currentFunc # NoFunc
           /\ frames \in Seq(FrameRec) /\ blocks \in Seq(Scope) /\ nbb \in Nat
           /\ Len(frames) \in Nat /\ Len(frames) > 2 /\ Len(blocks) = Len(frames)
           /\ insertBB \in BB /\ owner[insertBB] = currentFunc
           /\ Top = frames[Len(frames)] /\ Top \in FrameRec
           /\ Top.bb \in BB /\ Top.bb + Ahead(Top.kind) <= MaxBB
           /\ Top.kind # "loopbody" => frames[Len(frames) - 1].kind # "for"
           /\ Top.kind = "loopbody" => /\ frames[Len(frames) - 1].kind = "for"
                                       /\ Len(frames) > 3
                                       /\ frames[Len(frames) - 2].kind # "for"
<1>1. status = "running" /\ ~inDef /\ nbb \in Nat /\ nbb <= MaxBB
  BY DEF Running, IInv, TypeOK
<1>2. /\ frames \in Seq(FrameRec) /\ blocks \in Seq(Scope) /\ currentFunc # NoFunc
      /\ Len(frames) \in Nat /\ Len(frames) > 1 /\ Len(blocks) = Len(frames)
      /\ insertBB \in BB /\ owner[insertBB] = currentFunc
      /\ Top = frames[Len(frames)] /\ Top \in FrameRec
      /\ Top.bb + Ahead(Top.kind) <= nbb
  BY <1>1, TopFacts
<1>3. Top.bb \in BB /\ Top.bb \in Nat /\ Ahead(Top.kind) \in Nat
  BY <1>2, AheadType DEF FrameRec, BB
<1>4. Top.bb + Ahead(Top.kind) <= MaxBB
  BY <1>1, <1>2, <1>3, MaxBBAssumption
<1> DEFINE n == Len(frames)
<1>5. \A i \in 1..n :
         /\ frames[i].kind \in {"params", "body"} <=> i = 2
         /\ frames[i].kind = "prog" <=> i = 1
         /\ frames[i].kind = "loopbody" => i > 1 /\ frames[i - 1].kind = "for"
         /\ frames[i].kind = "for" => i < n /\ frames[i + 1].kind = "loopbody"
  BY DEF IInv, HandlersNested, WellNested
<1> HIDE DEF n
<1>6. n \in Nat /\ n > 1 /\ n \in 1..n /\ Top = frames[n]
  BY <1>2 DEF n
<1>7. n > 2
  <2>1. n # 2
    BY <1>5, <1>6
  <2> QED
    BY <1>6, <2>1
<1>8. n - 1 \in 1..n /\ n - 1 + 1 = n
  BY <1>7, <1>6
<1>9. frames[n - 1].kind = "for" => Top.kind = "loopbody"
  BY <1>5, <1>6, <1>8
<1>10. ASSUME Top.kind = "loopbody"
       PROVE  frames[n - 1].kind = "for" /\ n > 3 /\ frames[n - 2].kind # "for"
  <2>1. frames[n - 1].kind = "for"
    BY <1>5, <1>6, <1>10
  <2>2. n - 1 # 2
    BY <1>5, <1>8, <2>1
  <2>3. n > 3
    BY <1>6, <1>7, <2>2
  <2>4. n - 2 \in 1..n /\ n - 2 + 1 = n - 1
    BY <1>6, <2>3
  <2>5. frames[n - 2].kind # "for"
    BY <1>5, <2>1, <2>4
  <2> QED
    BY <2>1, <2>3, <2>5
<1> QED
  BY <1>1, <1>2, <1>3, <1>4, <1>7, <1>9, <1>10 DEF n

\* Leaving a handler, the insertion point going to a block of the function.
LEMMA StmtClosed ==
    ASSUME IInv, Running, Top.kind \in {"block", "then", "else", "loopbody"},
           NEW k \in {1, 2}, k = 2 <=> Top.kind = "loopbody",
           frames' = SubSeq(frames, 1, Len(frames) - k),
           blocks' = SubSeq(blocks, 1, Len(blocks) - k),
           instrs' \in [BB -> Seq(Instr)], owner' \in Owners,
           \A x \in BB : owner'[x] \in {owner[x], currentFunc},
           insertBB' \in BB, owner'[insertBB'] = currentFunc,
           UNCHANGED <<status, func, nbb, inDef, stmts>>
    PROVE  IInv'
<1>1. /\ status = "running" /\ ~inDef /\ currentFunc # NoFunc
      /\ frames \in Seq(FrameRec) /\ blocks \in Seq(Scope)
      /\ Len(frames) \in Nat /\ Len(frames) > 2 /\ Len(blocks) = Len(frames)
      /\ k = 2 => Len(frames) > 3
      /\ frames[Len(frames) - k].kind # "for"
  BY CloseFacts
<1>2. k \in 1..Len(frames) /\ Len(frames) - k \in 2..Len(frames)
  BY <1>1
<1>3. /\ frames' \in Seq(FrameRec) /\ Len(frames') = Len(frames) - k
      /\ \A i \in 1..Len(frames') : frames'[i] = frames[i]
  BY <1>1, <1>2, Popped
<1>4. /\ blocks' \in Seq(Scope) /\ Len(blocks') = Len(blocks) - k
      /\ \A i \in 1..Len(blocks') : blocks'[i] = blocks[i]
  BY <1>1, <1>2, Popped
<1>5. Len(frames') \in 2..Len(frames) /\ frames'[Len(frames')].kind # "for"
  BY <1>1, <1>2, <1>3
<1>6. Nesting'
  BY <1>1, <1>3, <1>4, <1>5, Closed DEF func
<1>7. TypeOK'
  BY <1>3, <1>4 DEF IInv, TypeOK, func, Owners
<1> QED
  BY <1>6, <1>7 DEF IInv, Nesting

\* The statements that close a scope and place the block after it.
LEMMA EndStmtStep ==
    ASSUME IInv, EndBlock \/ EndThen \/ EndElse
    PROVE  IInv'
<1>1. Running /\ Top.kind \in {"block", "then", "else"}
  BY DEF EndBlock, EndThen, EndElse
<1>2. /\ Top.bb \in BB /\ Top.bb + Ahead(Top.kind) <= MaxBB /\ currentFunc # NoFunc
      /\ insertBB \in BB /\ owner[insertBB] = currentFunc
  BY <1>1, CloseFacts
<1>3. /\ frames' = SubSeq(frames, 1, Len(frames) - 1)
      /\ blocks' = SubSeq(blocks, 1, Len(blocks) - 1)
      /\ UNCHANGED <<status, func, nbb, inDef, stmts>>
  BY DEF EndBlock, EndThen, EndElse, PopFrame, PopBasicBlock, code
<1>4. owner \in Owners /\ instrs \in [BB -> Seq(Instr)] /\ currentFunc \in FuncNames
  BY <1>2 DEF IInv, TypeOK, Owners
<1>5. /\ instrs' \in [BB -> Seq(Instr)] /\ owner' \in Owners
      /\ \A x \in BB : owner'[x] \in {owner[x], currentFunc}
      /\ insertBB' \in BB /\ owner'[insertBB'] = currentFunc
  <2>1. CASE EndBlock
    BY <1>2, <1>4, <2>1 DEF EndBlock, code
  <2>2. CASE EndThen
    <3>1. Top.bb + 1 \in BB /\ Top.bb + 2 \in BB
      BY <1>2, <2>2, MaxBBAssumption DEF EndThen, Ahead, BB
    <3>2. <<Br(Top.bb + 2)>> \in Seq(Instr)
      BY <3>1, InstrType
    <3>3. instrs' \in [BB -> Seq(Instr)]
      BY <2>2, <3>2, EmitTwice DEF EndThen
    <3> QED
      BY <1>4, <2>2, <3>1, <3>3 DEF EndThen, Owners
  <2>3. CASE EndElse
    <3>1. Top.bb + 1 \in BB
      BY <1>2, <2>3, MaxBBAssumption DEF EndElse, Ahead, BB
    <3>2. <<Br(Top.bb + 1)>> \in Seq(Instr)
      BY <3>1, InstrType
    <3>3. instrs' \in [BB -> Seq(Instr)]
      BY <2>3, <3>2, EmitTwice DEF EndElse
    <3> QED
      BY <1>4, <2>3, <3>1, <3>3 DEF EndElse, Place, Owners
  <2> QED
    BY <2>1, <2>2, <2>3
<1> QED
  BY <1>1, <1>3, <1>5, StmtClosed

\* From the then branch to the else branch: one scope is closed, one opened.
LEMMA ThenElseStep ==
    ASSUME IInv, ThenElse
    PROVE  IInv'
<1> DEFINE b  == Top.bb
           n  == Len(frames)
           fr == PopFrame
           bl == PopBasicBlock(blocks)
           e  == Frame("else", b + 1)
<1>1. Running /\ Top.kind = "then"
  BY DEF ThenElse
<1>2. /\ status = "running" /\ ~inDef /\ currentFunc # NoFunc
      /\ frames \in Seq(FrameRec) /\ blocks \in Seq(Scope) /\ nbb \in Nat
      /\ n \in Nat /\ n > 2 /\ Len(blocks) = n
      /\ insertBB \in BB /\ owner[insertBB] = currentFunc
      /\ Top = frames[n] /\ Top \in FrameRec
      /\ b \in BB /\ b + Ahead(Top.kind) <= MaxBB
      /\ frames[n - 1].kind # "for"
  BY <1>1, CloseFacts
<1>3. b + 1 \in BB /\ b + 2 \in BB /\ b + 2 <= nbb
  <2>1. b + 2 <= nbb
    BY <1>1, <1>2, TopFacts, AheadOf
  <2>2. nbb \in 0..MaxBB /\ b \in BB
    BY <1>2 DEF IInv, TypeOK
  <2> HIDE DEF b
  <2> QED
    BY <2>1, <2>2, BlocksAhead
<1>4. /\ fr \in Seq(FrameRec) /\ Len(fr) = n - 1
      /\ \A i \in 1..Len(fr) : fr[i] = frames[i]
  BY <1>2, Popped DEF PopFrame
<1>5. /\ bl \in Seq(Scope) /\ Len(bl) = n - 1
      /\ \A i \in 1..Len(bl) : bl[i] = blocks[i]
  BY <1>2, Popped DEF PopBasicBlock
<1>6. e \in FrameRec /\ e.kind = "else" /\ e.bb = b + 1
  BY <1>3, FrameType DEF FrameKinds
<1>7. frames' = Append(fr, e) /\ blocks' = PushBasicBlock(bl, b + 1)
  BY DEF ThenElse
<1> HIDE DEF fr, bl, e
<1>8. /\ frames' \in Seq(FrameRec) /\ Len(frames') = n /\ frames'[n] = e
      /\ \A i \in 1..(n - 1) : frames'[i] = frames[i]
  <2>1. /\ frames' \in Seq(FrameRec) /\ Len(frames') = Len(fr) + 1
        /\ frames'[Len(frames')] = e
        /\ \A i \in 1..Len(fr) : frames'[i] = fr[i]
    BY <1>4, <1>6, <1>7, Pushed
  <2> QED
    BY <1>2, <1>4, <2>1
<1>9. /\ blocks' \in Seq(Scope) /\ Len(blocks') = n /\ blocks'[n].bb = b + 1
      /\ \A i \in 1..(n - 1) : blocks'[i] = blocks[i]
  <2>1. /\ blocks' \in Seq(Scope) /\ Len(blocks') = Len(bl) + 1
        /\ blocks'[Len(blocks')].bb = b + 1
        /\ \A i \in 1..Len(bl) : blocks'[i] = bl[i]
    BY <1>3, <1>5, <1>7, ScopeOfType, Pushed DEF PushBasicBlock
  <2> QED
    BY <1>2, <1>5, <2>1
<1>10. /\ instrs' \in [BB -> Seq(Instr)] /\ insertBB' = b + 1
       /\ owner' \in Owners /\ owner'[b + 1] = currentFunc
       /\ \A x \in BB : owner'[x] \in {owner[x], currentFunc}
       /\ UNCHANGED <<status, func, nbb, inDef, stmts>>
  <2>1. <<Br(b + 2)>> \in Seq(Instr)
    BY <1>3, InstrType
  <2>2. instrs' \in [BB -> Seq(Instr)]
    BY <2>1, EmitTwice DEF ThenElse
  <2> QED
    BY <1>3, <2>2 DEF ThenElse, Place, IInv, TypeOK, Owners
<1>11. TypeOK'
  BY <1>3, <1>8, <1>9, <1>10 DEF IInv, TypeOK, func, Owners
<1>12. HandlersNested'
  <2>1. WellNested(fr, nbb)
    <3>1. WellNested(frames, nbb) /\ Len(fr) <= Len(frames)
      BY <1>2, <1>4 DEF IInv, HandlersNested
    <3>2. fr[Len(fr)].kind # "for"
      BY <1>2, <1>4
    <3> QED
      BY <1>2, <1>4, <3>1, <3>2, WellNestedPop
  <2>2. Calling(fr, nbb)
    BY <2>1 DEF WellNested, Calling
  <2>3. Len(fr) \in Nat /\ Len(fr) # 0 /\ Len(fr) # 1 /\ fr[Len(fr)].kind # "for"
    BY <1>2, <1>4
  <2>4. e.bb + Ahead(e.kind) <= nbb
    BY <1>2, <1>3, <1>6 DEF Ahead, BB
  <2>5. WellNested(Append(fr, e), nbb)
    <3>1. /\ e.kind = "prog" <=> Len(fr) = 0
          /\ e.kind \in {"params", "body"} <=> Len(fr) = 1
          /\ e.kind = "loopbody" <=> Len(fr) > 0 /\ fr[Len(fr)].kind = "for"
          /\ e.kind # "for"
      BY <1>6, <2>3
    <3>2. nbb <= nbb /\ nbb \in Nat
      BY <1>2
    <3> QED
      BY <1>4, <1>6, <2>2, <2>4, <3>1, <3>2, WellNestedPush
  <2>6. Len(frames') > 1 /\ frames' # <<>>
    BY <1>2, <1>8, NotEmpty
  <2> QED
    BY <1>2, <1>7, <1>10, <2>5, <2>6 DEF HandlersNested, func
<1>13. StackDiscipline'
  BY <1>2, <1>6, <1>8, <1>9 DEF IInv, StackDiscipline
<1>14. InCurrentFunc'
  <2>1. ASSUME NEW i \in 2..n
        PROVE  owner'[blocks'[i].bb] = currentFunc
    <3>1. CASE i = n
      BY <1>9, <1>10, <3>1
    <3>2. CASE i \in 2..(n - 1)
      <4>1. blocks[i] \in Scope /\ blocks'[i] = blocks[i]
        BY <1>2, <1>9, <3>2, ElementOfSeq
      <4>2. owner[blocks[i].bb] = currentFunc
        BY <1>2, <3>2 DEF IInv, InCurrentFunc
      <4> QED
        BY <1>10, <4>1, <4>2 DEF Scope
    <3> QED
      BY <1>2, <3>1, <3>2
  <2>2. insertBB' # NoBB /\ owner'[insertBB'] = currentFunc
    BY <1>3, <1>10 DEF BB, NoBB
  <2>3. Len(blocks') = n /\ n > 1 /\ currentFunc' = currentFunc
    BY <1>2, <1>9, <1>10 DEF func
  <2> QED
    BY <2>1, <2>2, <2>3 DEF InCurrentFunc
<1> QED
  BY <1>11, <1>12, <1>13, <1>14 DEF IInv

\* From the initialization of a for statement to its loop body.
LEMMA ForConditionStep ==
    ASSUME IInv, NEW c \in Exprs \cup {NoExpr}, ForCondition(c)
    PROVE  IInv'
<1> DEFINE b  == Top.bb
           n  == Len(frames)
           t  == [Top EXCEPT !.kind = "for", !.branched = TRUE]
           fr == [frames EXCEPT ![n] = t]
           e  == Frame("loopbody", b + 2)
           exit == IF c = NoExpr THEN Br(b + 2) ELSE CondBr(b + 2, b + 4)
<1>1. status = "running" /\ ~inDef /\ Top.kind = "forinit"
  BY DEF ForCondition, Running
<1>2. /\ frames \in Seq(FrameRec) /\ blocks \in Seq(Scope) /\ nbb \in 0..MaxBB
      /\ n \in 1..n /\ n \in Nat /\ n > 1 /\ currentFunc # NoFunc
      /\ Top = frames[n] /\ Top \in FrameRec /\ b + Ahead(Top.kind) <= nbb
  BY <1>1, TopFacts DEF IInv, TypeOK
<1>3. /\ b \in Nat /\ b + 4 <= nbb /\ nbb \in Nat
      /\ b + 1 \in BB /\ b + 2 \in BB /\ b + 4 \in BB
  BY <1>1, <1>2, MaxBBAssumption DEF FrameRec, BB, Ahead
<1>4. t \in FrameRec /\ t.kind = "for" /\ t.bb = b
  BY <1>2 DEF FrameRec, FrameKinds
<1>5. e \in FrameRec /\ e.kind = "loopbody" /\ e.bb = b + 2
  BY <1>3, FrameType DEF FrameKinds
<1>6. frames' = Append(fr, e) /\ blocks' = PushBasicBlock(blocks, b + 2)
  BY DEF ForCondition
<1> HIDE DEF t, e
<1>7. /\ fr \in Seq(FrameRec) /\ Len(fr) = n
      /\ \A i \in 1..n : fr[i] = IF i = n THEN t ELSE frames[i]
  BY <1>2, <1>4, ExceptSeq
<1> HIDE DEF fr
<1>8. WellNested(frames', nbb)
  <2>1. WellNested(frames, nbb)
    BY DEF IInv, HandlersNested
  <2>2. \A i \in 1..n : fr[i].bb = frames[i].bb /\ (i # n => fr[i].kind = frames[i].kind)
    BY <1>2, <1>4, <1>7
  <2>3. n # 2
    BY <1>1, <1>2, <2>1 DEF WellNested
  <2>4. ASSUME NEW i \in 1..n
        PROVE  /\ fr[i].kind = "prog" <=> i = 1
               /\ fr[i].kind \in {"params", "body"} <=> i = 2
               /\ fr[i].kind = "loopbody" => i > 1 /\ fr[i - 1].kind = "for"
               /\ i < n /\ fr[i].kind = "for" => fr[i + 1].kind = "loopbody"
               /\ fr[i].bb + Ahead(fr[i].kind) <= nbb
    <3>1. /\ frames[i].kind = "prog" <=> i = 1
          /\ frames[i].kind \in {"params", "body"} <=> i = 2
          /\ frames[i].kind = "loopbody" => i > 1 /\ frames[i - 1].kind = "for"
          /\ frames[i].kind = "for" => i < n /\ frames[i + 1].kind = "loopbody"
          /\ frames[i].bb + Ahead(frames[i].kind) <= nbb
      BY <2>1 DEF WellNested
    <3>2. CASE i = n
      <4>1. fr[i].kind = "for" /\ fr[i].bb = b /\ i # 1 /\ i # 2
        BY <1>2, <1>4, <1>7, <2>3, <3>2
      <4>2. fr[i].bb + Ahead(fr[i].kind) <= nbb
        BY <1>3, <4>1, AheadOf
      <4> QED
        BY <3>2, <4>1, <4>2
    <3>3. CASE i # n
      <4>1. fr[i] = frames[i] /\ i < n
        BY <1>2, <1>7, <3>3
      <4>2. i > 1 => fr[i - 1] = frames[i - 1]
        BY <1>2, <1>7, <4>1
      <4>3. frames[i].kind = "for" => i + 1 # n
        BY <1>1, <1>2, <3>1
      <4>4. i + 1 # n => fr[i + 1] = frames[i + 1]
        BY <1>2, <1>7, <4>1
      <4> QED
        BY <3>1, <4>1, <4>2, <4>3, <4>4
    <3> QED
      BY <3>2, <3>3
  <2>5. Calling(fr, nbb)
    BY <1>7, <2>4 DEF Calling
  <2>6. Len(fr) # 0 /\ Len(fr) # 1 /\ Len(fr) > 0 /\ fr[Len(fr)].kind = "for"
    BY <1>2, <1>4, <1>7
  <2>7. e.bb + Ahead(e.kind) <= nbb
    BY <1>3, <1>5 DEF Ahead
  <2>8. /\ e.kind = "prog" <=> Len(fr) = 0
        /\ e.kind \in {"params", "body"} <=> Len(fr) = 1
        /\ e.kind = "loopbody" <=> Len(fr) > 0 /\ fr[Len(fr)].kind = "for"
        /\ e.kind # "for"
    BY <1>5, <2>6
  <2>9. nbb <= nbb /\ nbb \in Nat
    BY <1>3
  <2>10. WellNested(Append(fr, e), nbb)
    BY <1>5, <1>7, <2>5, <2>7, <2>8, <2>9, WellNestedPush
  <2> QED
    BY <1>6, <2>10
<1>9. /\ insertBB' = b + 2 /\ owner' \in Owners /\ owner'[b + 2] = currentFunc
      /\ \A x \in BB : owner'[x] \in {owner[x], currentFunc}
      /\ UNCHANGED <<status, func, nbb, inDef, stmts>>
  BY <1>3 DEF ForCondition, IInv, TypeOK, Owners
<1>10. instrs' \in [BB -> Seq(Instr)]
  <2>1. ExprCode(blocks, c) \in Seq(Instr)
    BY <1>2, ExprCodeType DEF ForCondition
  <2>2. <<Br(b + 1)>> \in Seq(Instr) /\ exit \in Instr
    BY <1>3, InstrType
  <2>3. Append(ExprCode(blocks, c), exit) \in Seq(Instr)
    BY <2>1, <2>2, Pushed
  <2> QED
    BY <2>2, <2>3, EmitTwice DEF ForCondition
<1>11. frames' \in Seq(FrameRec) /\ blocks' \in Seq(Scope) /\ Nesting'
  <2>1. \A i \in 1..n : fr[i].bb = frames[i].bb
    BY <1>2, <1>4, <1>7
  <2>2. WellNested(frames', nbb') /\ nbb' \in Nat
    BY <1>3, <1>8, <1>9
  <2>3. /\ status' = status /\ ~inDef' /\ currentFunc' = currentFunc /\ insertBB' \in BB
        /\ owner'[insertBB'] = currentFunc /\ owner'[e.bb] = currentFunc
    BY <1>1, <1>3, <1>5, <1>9 DEF func
  <2> QED
    BY <1>1, <1>5, <1>6, <1>7, <1>9, <2>1, <2>2, <2>3, Opened
<1>12. TypeOK'
  BY <1>3, <1>9, <1>10, <1>11 DEF IInv, TypeOK, func, Owners
<1> QED
  BY <1>11, <1>12 DEF IInv, Nesting

\* Popping twice.
LEMMA PoppedTwice ==
    ASSUME NEW S, NEW s \in Seq(S), Len(s) > 2
    PROVE  PopBasicBlock(PopBasicBlock(s)) = SubSeq(s, 1, Len(s) - 2)
<1> DEFINE t == SubSeq(s, 1, Len(s) - 1)
           u == SubSeq(t, 1, Len(t) - 1)
           w == SubSeq(s, 1, Len(s) - 2)
<1>1. /\ t \in Seq(S) /\ Len(t) = Len(s) - 1
      /\ \A i \in 1..Len(t) : t[i] = s[i]
  BY Popped
<1>2. /\ w \in Seq(S) /\ Len(w) = Len(s) - 2
      /\ \A i \in 1..Len(w) : w[i] = s[i]
  BY Popped
<1> HIDE DEF t, w
<1>3. /\ u \in Seq(S) /\ Len(u) = Len(t) - 1
      /\ \A i \in 1..Len(u) : u[i] = t[i]
  BY <1>1, Popped
<1> HIDE DEF u
<1>4. Len(u) = Len(w) /\ \A i \in 1..Len(u) : u[i] = w[i]
  BY <1>1, <1>2, <1>3
<1>5. u = w
  BY <1>2, <1>3, <1>4, SeqEqual
<1> QED
  BY <1>5 DEF PopBasicBlock, t, u, w

\* The end of a for statement closes the scopes of the body and of the loop.
LEMMA EndForStep ==
    ASSUME IInv, NEW c \in Exprs \cup {NoExpr}, EndFor(c)
    PROVE  IInv'
<1> DEFINE n    == Len(frames)
           b    == frames[n - 1].bb
           loop == PopBasicBlock(blocks)
<1>1. Running /\ Top.kind = "loopbody"
  BY DEF EndFor
<1>2. /\ currentFunc # NoFunc /\ frames \in Seq(FrameRec) /\ blocks \in Seq(Scope)
      /\ n \in Nat /\ n > 3 /\ Len(blocks) = n /\ frames[n - 1].kind = "for"
      /\ insertBB \in BB
  BY <1>1, CloseFacts
<1>3. b + 1 \in BB /\ b + 3 \in BB /\ b + 4 \in BB
  <2>1. n - 1 \in 1..n
    BY <1>2
  <2>2. b \in BB
    <3>1. frames[n - 1] \in FrameRec
      BY <1>2, <2>1, ElementOfSeq
    <3> QED
      BY <3>1 DEF FrameRec
  <2>3. b + Ahead(frames[n - 1].kind) <= nbb
    BY <2>1 DEF IInv, HandlersNested, WellNested
  <2>4. b + 4 <= nbb /\ nbb \in 0..MaxBB
    BY <1>2, <2>3, AheadOf DEF IInv, TypeOK
  <2> HIDE DEF b
  <2> QED
    BY <2>2, <2>4, BlocksAhead
<1>4. instrs' \in [BB -> Seq(Instr)]
  <2>1. loop \in Seq(Scope)
    BY <1>2, Popped DEF PopBasicBlock
  <2>2. ExprCode(loop, c) \in Seq(Instr)
    BY <2>1, ExprCodeType DEF EndFor
  <2>3. <<Br(b + 3)>> \in Seq(Instr) /\ Br(b + 1) \in Instr
    BY <1>3, InstrType
  <2>4. Append(ExprCode(loop, c), Br(b + 1)) \in Seq(Instr)
    BY <2>2, <2>3, Pushed
  <2> QED
    BY <2>3, <2>4, EmitTwice DEF EndFor
<1>5. /\ insertBB' \in BB /\ owner' \in Owners /\ owner'[insertBB'] = currentFunc
      /\ \A x \in BB : owner'[x] \in {owner[x], currentFunc}
      /\ UNCHANGED <<status, func, nbb, inDef, stmts>>
  BY <1>3 DEF EndFor, IInv, TypeOK, Owners
<1>6. /\ frames' = SubSeq(frames, 1, Len(frames) - 2)
      /\ blocks' = SubSeq(blocks, 1, Len(blocks) - 2)
  <2>1. PopBasicBlock(PopBasicBlock(blocks)) = SubSeq(blocks, 1, Len(blocks) - 2)
    BY <1>2, PoppedTwice
  <2> QED
    BY <2>1 DEF EndFor
<1> QED
  BY <1>1, <1>4, <1>5, <1>6, StmtClosed

\* An error stops the compiler and changes nothing else.
LEMMA AbortStep ==
    ASSUME IInv, Abort
    PROVE  IInv'
<1>1. /\ status' = "aborted" /\ status = "running"
      /\ UNCHANGED <<func, code, blocks, frames, inDef, stmts>>
  BY DEF Abort
<1>2. TypeOK' /\ StackDiscipline' /\ InCurrentFunc'
  BY <1>1 DEF IInv, TypeOK, StackDiscipline, InCurrentFunc, func, code
<1>3. HandlersNested'
  BY <1>1 DEF IInv, HandlersNested, func, code
<1> QED
  BY <1>2, <1>3 DEF IInv

\* A stuttering step.
LEMMA StutterStep ==
    ASSUME IInv, UNCHANGED vars
    PROVE  IInv'
<1>1. UNCHANGED <<status, func, code, blocks, frames, inDef, stmts>>
  BY DEF vars
<1>2. TypeOK' /\ StackDiscipline' /\ InCurrentFunc'
  BY <1>1 DEF IInv, TypeOK, StackDiscipline, InCurrentFunc, func, code
<1>3. HandlersNested'
  BY <1>1 DEF IInv, HandlersNested, func, code
<1> QED
  BY <1>2, <1>3 DEF IInv

----------------------------------------------------------------------------
\* The invariant is inductive.

LEMMA InitIInv == Init => IInv
<1> SUFFICES ASSUME Init PROVE IInv
  OBVIOUS
<1>1. TypeOK
  <2>1. <<>> \in Seq(Instr) /\ <<>> \in Seq(Scope) /\ <<>> \in Seq(FrameRec)
    OBVIOUS
  <2>2. nbb \in 0..MaxBB /\ stmts \in 0..MaxStmts
    BY MaxBBAssumption, ProgramAssumption DEF Init
  <2>3. instrs \in [BB -> Seq(Instr)] /\ blocks \in Seq(Scope) /\ frames \in Seq(FrameRec)
    BY <2>1 DEF Init
  <2> QED
    BY <2>2, <2>3 DEF Init, TypeOK
<1>2. HandlersNested
  BY DEF Init, HandlersNested, WellNested
<1>3. StackDiscipline /\ InCurrentFunc
  BY DEF Init, StackDiscipline, InCurrentFunc
<1> QED
  BY <1>1, <1>2, <1>3 DEF IInv

LEMMA NextIInv == IInv /\ [Next]_vars => IInv'
<1> SUFFICES ASSUME IInv, [Next]_vars PROVE IInv'
  OBVIOUS
<1>1. ASSUME NEW f \in FuncNames, CreatePrintFunc(f) PROVE IInv'
  BY <1>1, CreatePrintFuncStep
<1>2. CASE BeginProg
  BY <1>2, BeginProgStep
<1>3. CASE EndProg
  BY <1>3, EndProgStep
<1>4. ASSUME NEW f \in FuncNames, NEW void \in BOOLEAN, BeginFunc(f, void) PROVE IInv'
  BY <1>4, BeginFuncStep
<1>5. ASSUME NEW v \in Vars, AddParam(v) PROVE IInv'
  BY <1>5, AddParamStep
<1>6. CASE BeginBody
  BY <1>6, BeginBodyStep
<1>7. CASE EndFunc
  BY <1>7, EndFuncStep
<1>8. CASE \/ EmptyStmt
           \/ \E e \in Exprs : ExprStmt(e)
           \/ \E e \in Exprs \cup {NoExpr} : Return(e)
  BY <1>8, PlainStmtStep
<1>9. ASSUME NEW v \in Vars, NEW e \in Exprs \cup {NoExpr}, NEW more \in BOOLEAN,
             DefineVar(v, e, more)
      PROVE  IInv'
  BY <1>9, DefineVarStep
<1>10. CASE BeginBlock \/ BeginFor \/ \E e \in Exprs : BeginIf(e)
  BY <1>10, BeginStmtStep
<1>11. CASE EndBlock \/ EndThen \/ EndElse
  BY <1>11, EndStmtStep
<1>12. CASE ThenElse
  BY <1>12, ThenElseStep
<1>13. ASSUME NEW e \in Exprs \cup {NoExpr}, ForCondition(e) PROVE IInv'
  BY <1>13, ForConditionStep
<1>14. ASSUME NEW e \in Exprs \cup {NoExpr}, EndFor(e) PROVE IInv'
  BY <1>14, EndForStep
<1>15. CASE Abort
  BY <1>15, AbortStep
<1>16. CASE Ended \/ UNCHANGED vars
  BY <1>16, StutterStep DEF Ended
<1> QED
  BY <1>1, <1>2, <1>3, <1>4, <1>5, <1>6, <1>7, <1>8, <1>9, <1>10, <1>11, <1>12,
     <1>13, <1>14, <1>15, <1>16 DEF Next, Step

\* The inductive invariant holds in every state of every compilation.
THEOREM Inductive == Spec => []IInv
<1> QED
  BY InitIInv, NextIInv, PTL DEF Spec

\* Every variable of the code generator keeps its type: in particular no
\* CodeGen() call appends to, or branches to, a block that was never created.
THEOREM TypeCorrect == Spec => []TypeOK
<1>1. IInv => TypeOK
  BY DEF IInv
<1> QED
  BY <1>1, Inductive, PTL

\* The scope stack of CodeGenContext is always the stack of the active
\* handlers that opened a scope, however the program nests its statements.
THEOREM ScopesMatchHandlers == Spec => []StackDiscipline
<1>1. IInv => StackDiscipline
  BY DEF IInv
<1> QED
  BY <1>1, Inductive, PTL

\* While a function is generated, its instructions go to blocks of that
\* function, and the allocas of its scopes too.
THEOREM BuilderInFunction == Spec => []InCurrentFunc
<1>1. IInv => InCurrentFunc
  BY DEF IInv
<1> QED
  BY <1>1, Inductive, PTL

\* The handlers call each other as the grammar lets them, and each has created
\* the blocks it still has to insert.
THEOREM HandlersWellNested == Spec => []HandlersNested
<1>1. IInv => HandlersNested
  BY DEF IInv
<1> QED
  BY <1>1, Inductive, PTL
=============================================================================
