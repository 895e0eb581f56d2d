----------------------------- MODULE FlowProofs -----------------------------
(***************************************************************************)
(* Control flows through the generated code as the statements say          *)
(* (FlowAsWritten), for every program without global variables: returns    *)
(* inside of ifs and loops and variables declared late included.           *)
(*                                                                         *)
(* What is said of a finished program is kept up while the code is         *)
(* generated (Fits).  Behind each point the code leads to the points that  *)
(* the source has next, and else to the ends of blocks where code is still *)
(* to be added: the block of the Builder, for the points in last, and the  *)
(* blocks that the active handlers have still to insert, for what they     *)
(* have recorded in outer (Pending).  A handler adds one instruction after *)
(* another at the end of a block that control falls off.  What that does   *)
(* to where control stops from anywhere in the code is one substitution of *)
(* that end (AppendNext), and it rests on the blocks that control passes   *)
(* through on its way being the least set closed under the branches        *)
(* (ThroughLeast): the steps of Within, which are bounded by the number of *)
(* blocks, reach all of it.                                                *)
(*                                                                         *)
(* Global variables are left out: the value of one is stored wherever the  *)
(* Builder has been left, which is behind the return of the last function. *)
(***************************************************************************)
EXTENDS ControlFlow, BlockProofs, FiniteSetTheorems

----------------------------------------------------------------------------
\* Induction over the natural numbers.

\* A set with 0 that is closed under successors has all numbers.
LEMMA InductionOn ==
    ASSUME NEW T, 0 \in T, \A n \in Nat : n \in T => n + 1 \in T
    PROVE  \A n \in Nat : n \in T
<1> SUFFICES ASSUME Nat \ T # {} PROVE FALSE
  OBVIOUS
<1>1. PICK n \in Nat \ T : \A m \in Nat \ T : n <= m
  BY MinNat
<1>2. n # 0 /\ n - 1 \in Nat /\ (n - 1) + 1 = n /\ ~(n <= n - 1)
  BY <1>1
<1>3. n - 1 \in T
  BY <1>1, <1>2
<1> QED
  BY <1>1, <1>2, <1>3

----------------------------------------------------------------------------
\* The blocks that control gets to without a stop.

IsWithin(c, hs, bs, k, f) ==
    f = [n \in 0..k |-> IF n = 0 THEN bs ELSE Further(c, hs, f[n - 1])]

\* There is such a function for any number of steps.
LEMMA WithinExists ==
    ASSUME NEW c, NEW hs, NEW bs
    PROVE  \A k \in Nat : \E f : IsWithin(c, hs, bs, k, f)
<1> DEFINE T == {k \in Nat : \E f : IsWithin(c, hs, bs, k, f)}
<1>1. 0 \in T
  <2> DEFINE f == [n \in 0..0 |-> bs]
  <2>1. f = [n \in 0..0 |-> IF n = 0 THEN bs ELSE Further(c, hs, f[n - 1])]
    OBVIOUS
  <2> HIDE DEF f
  <2> QED
    BY <2>1 DEF IsWithin
<1>2. ASSUME NEW k \in T
      PROVE  k + 1 \in T
  <2>1. PICK f : IsWithin(c, hs, bs, k, f)
    OBVIOUS
  <2> DEFINE g == [n \in 0..(k + 1) |-> IF n = 0 THEN bs ELSE Further(c, hs, f[n - 1])]
  <2>2. \A n \in 0..(k + 1) : n # 0 => n - 1 \in 0..k /\ n - 1 \in 0..(k + 1)
    OBVIOUS
  <2>3. \A n \in 0..k : n \in 0..(k + 1) /\ f[n] = IF n = 0 THEN bs ELSE Further(c, hs, f[n - 1])
    BY <2>1 DEF IsWithin
  <2>4. \A n \in 0..k : g[n] = f[n]
    BY <2>3
  <2>5. \A n \in 0..(k + 1) : n # 0 => f[n - 1] = g[n - 1]
    BY <2>2, <2>4
  <2>6. g = [n \in 0..(k + 1) |-> IF n = 0 THEN bs ELSE Further(c, hs, g[n - 1])]
    BY <2>5
  <2> HIDE DEF g
  <2> QED
    BY <2>6 DEF IsWithin
<1> HIDE DEF T
<1>3. \A k \in Nat : k \in T
  BY <1>1, <1>2, InductionOn
<1> QED
  BY <1>3 DEF T

\* What Within is after no step, and after one more.
LEMMA WithinSteps ==
    ASSUME NEW c, NEW hs, NEW bs
    PROVE  /\ Within(c, hs, bs)[0] = bs
           /\ \A n \in 0..MaxBB : n + 1 \in 0..MaxBB =>
                 Within(c, hs, bs)[n + 1] = Further(c, hs, Within(c, hs, bs)[n])
<1>1. PICK f : IsWithin(c, hs, bs, MaxBB, f)
  BY WithinExists, MaxBBAssumption
<1> DEFINE w == Within(c, hs, bs)
<1>2. w = [n \in 0..MaxBB |-> IF n = 0 THEN bs ELSE Further(c, hs, w[n - 1])]
  BY <1>1, Zenon DEF IsWithin, Within
<1> HIDE DEF w
<1>3. 0 \in 0..MaxBB
  BY MaxBBAssumption
<1>4. \A n \in 0..MaxBB : n + 1 # 0 /\ (n + 1) - 1 = n
  OBVIOUS
<1>5. w[0] = bs
  BY <1>2, <1>3
<1>6. ASSUME NEW n \in 0..MaxBB, n + 1 \in 0..MaxBB
      PROVE  w[n + 1] = Further(c, hs, w[n])
  <2>1. w[n + 1] = IF n + 1 = 0 THEN bs ELSE Further(c, hs, w[(n + 1) - 1])
    BY <1>2, <1>6
  <2> QED
    BY <1>4, <2>1
<1> QED
  BY <1>5, <1>6 DEF w

\* The set xs is closed.
IsClosed(c, hs, xs) == \A b \in xs : Onto(c, hs, b) \subseteq xs

\* Blocks of bs and those that follow.
Spreads(c, hs, bs, xs) ==
    /\ xs \subseteq BB /\ bs \subseteq xs
    /\ \A ys : bs \subseteq ys /\ IsClosed(c, hs, ys) => xs \subseteq ys

\* Of the edges, only that they lead to blocks is needed.
GoesToBlocks(c, hs) == \A b \in BB : Onto(c, hs, b) \subseteq BB

\* What has been reached stays within the least closed set, and grows with
\* each step until it is closed.
LEMMA WithinSpreads ==
    ASSUME NEW c, NEW hs, NEW bs \in SUBSET BB, GoesToBlocks(c, hs), bs # {}
    PROVE  \A n \in 0..MaxBB :
              LET xs == Within(c, hs, bs)[n]
              IN  /\ Spreads(c, hs, bs, xs)
                  /\ IsClosed(c, hs, xs) \/ Cardinality(xs) >= n + 1
<1> DEFINE w == Within(c, hs, bs)
           T == {n \in Nat : n \in 0..MaxBB =>
                    /\ Spreads(c, hs, bs, w[n])
                    /\ IsClosed(c, hs, w[n]) \/ Cardinality(w[n]) >= n + 1}
<1>0. IsFiniteSet(BB)
  BY FS_Interval, MaxBBAssumption DEF BB
<1>1. \A xs : xs \subseteq BB => IsFiniteSet(xs) /\ Cardinality(xs) \in Nat
  BY <1>0, FS_Subset, FS_CardinalityType
<1>2. 0 \in T
  <2>1. w[0] = bs
    BY WithinSteps
  <2>2. Spreads(c, hs, bs, bs)
    BY DEF Spreads
  <2>3. Cardinality(bs) # 0
    BY <1>1, FS_EmptySet
  <2>4. Cardinality(bs) >= 0 + 1
    BY <1>1, <2>3
  <2> QED
    BY <2>1, <2>2, <2>4
<1>3. ASSUME NEW n \in Nat, n \in T, n + 1 \in 0..MaxBB
      PROVE  /\ Spreads(c, hs, bs, w[n + 1])
             /\ IsClosed(c, hs, w[n + 1]) \/ Cardinality(w[n + 1]) >= (n + 1) + 1
  <2>1. n \in 0..MaxBB
    BY <1>3, MaxBBAssumption
  <2> DEFINE xs == w[n]
             zs == Further(c, hs, xs)
  <2>2. w[n + 1] = zs
    BY <1>3, <2>1, WithinSteps
  <2>3. Spreads(c, hs, bs, xs) /\ (IsClosed(c, hs, xs) \/ Cardinality(xs) >= n + 1)
    BY <1>3, <2>1
  <2> HIDE DEF xs, w
  <2>4. Spreads(c, hs, bs, zs)
    <3>1. xs \subseteq zs /\ zs \subseteq BB
      BY <2>3 DEF Spreads, GoesToBlocks, Further
    <3>2. ASSUME NEW ys, bs \subseteq ys, IsClosed(c, hs, ys)
          PROVE  zs \subseteq ys
      BY <2>3, <3>2 DEF Spreads, IsClosed, Further
    <3> QED
      BY <2>3, <3>1, <3>2 DEF Spreads
  <2>5. CASE IsClosed(c, hs, xs)
    <3>1. zs = xs
      BY <2>5 DEF IsClosed, Further
    <3> QED
      BY <2>2, <2>4, <2>5, <3>1
  <2>6. CASE ~IsClosed(c, hs, xs)
    <3>1. PICK b \in xs : \E d \in Onto(c, hs, b) : d \notin xs
      BY <2>6 DEF IsClosed
    <3>2. PICK d \in Onto(c, hs, b) : d \notin xs
      BY <3>1
    <3>3. d \in zs /\ xs \cup {d} \subseteq zs /\ zs \subseteq BB /\ xs \subseteq BB
      BY <2>3, <2>4, <3>2 DEF Further, Spreads
    <3>4. Cardinality(xs \cup {d}) = Cardinality(xs) + 1
      BY <1>1, <3>2, <3>3, FS_AddElement
    <3>5. Cardinality(xs \cup {d}) <= Cardinality(zs)
      BY <1>1, <3>3, FS_Subset
    <3>6. Cardinality(xs) >= n + 1
      BY <2>3, <2>6
    <3>7. Cardinality(zs) >= (n + 1) + 1
      <4> HIDE DEF zs
      <4> QED
        BY <1>1, <3>3, <3>4, <3>5, <3>6
    <3> QED
      BY <2>2, <2>4, <3>7
  <2> QED
    BY <2>5, <2>6
<1>4. \A n \in Nat : n \in T
  <2>1. \A n \in Nat : n \in T => n + 1 \in T
    BY <1>3
  <2> HIDE DEF T
  <2> QED
    BY <1>2, <2>1, InductionOn
<1>5. ASSUME NEW n \in 0..MaxBB
      PROVE  Spreads(c, hs, bs, w[n]) /\ (IsClosed(c, hs, w[n]) \/ Cardinality(w[n]) >= n + 1)
  <2>1. n \in T
    BY <1>4
  <2> QED
    BY <2>1
<1> QED
  BY <1>5

\* Through(c, hs, bs) is the least closed set of blocks that holds bs.
Least(c, hs, bs, xs) == Spreads(c, hs, bs, xs) /\ IsClosed(c, hs, xs)

\* After as many steps as there are blocks nothing is left to reach.
LEMMA ThroughLeast ==
    ASSUME NEW c, NEW hs, NEW bs \in SUBSET BB, GoesToBlocks(c, hs)
    PROVE  Least(c, hs, bs, Through(c, hs, bs))
<1>1. MaxBB \in 0..MaxBB /\ MaxBB \in Nat
  BY MaxBBAssumption
<1>2. CASE bs # {}
  <2> DEFINE xs == Within(c, hs, bs)[MaxBB]
  <2>1. Spreads(c, hs, bs, xs) /\ (IsClosed(c, hs, xs) \/ Cardinality(xs) >= MaxBB + 1)
    BY <1>1, <1>2, WithinSpreads
  <2>2. IsFiniteSet(BB) /\ Cardinality(BB) = MaxBB
    BY FS_Interval, MaxBBAssumption DEF BB
  <2>3. Cardinality(xs) <= MaxBB /\ Cardinality(xs) \in Nat
    BY <2>1, <2>2, FS_Subset, FS_CardinalityType DEF Spreads
  <2> QED
    BY <1>1, <2>1, <2>3 DEF Least, Through
<1>3. CASE bs = {}
  <2> DEFINE w == Within(c, hs, bs)
             T == {n \in Nat : n \in 0..MaxBB => w[n] = {}}
  <2>1. 0 \in T
    BY <1>3, WithinSteps
  <2>2. \A n \in Nat : n \in T => n + 1 \in T
    <3>1. \A n \in Nat : n + 1 \in 0..MaxBB => n \in 0..MaxBB
      BY <1>1
    <3>2. Further(c, hs, {}) = {}
      BY DEF Further
    <3> QED
      BY <3>1, <3>2, WithinSteps
  <2>3. MaxBB \in T
    <3> HIDE DEF T
    <3> QED
      BY <1>1, <2>1, <2>2, InductionOn
  <2>4. Through(c, hs, bs) = {}
    BY <1>1, <2>3 DEF Through
  <2> QED
    BY <1>3, <2>4 DEF Least, Spreads, IsClosed
<1> QED
  BY <1>2, <1>3

\* S with what is in G in the place of e.
Subst(e, G, S) == (S \ {e}) \cup (IF e \in S THEN G ELSE {})

\* The blocks other than u stop control and pass it on as before.
SameAround(c, hs, d, gs, u, e) ==
    \A b \in BB \ {u} :
        /\ Stops(d, gs, b) = Stops(c, hs, b) /\ Onto(d, gs, b) = Onto(c, hs, b)
        /\ e \notin Stops(c, hs, b)

\* What can become of block u, whose end is e: control that came to e comes to
\* G now, or goes on to a block that control comes to G from.
Kept(c, hs, d, gs, u, e) ==
    Stops(d, gs, u) = Stops(c, hs, u) /\ Onto(d, gs, u) = Onto(c, hs, u) /\ e \notin Stops(c, hs, u)

Open(c, hs, u, e) == Stops(c, hs, u) = {e} /\ Onto(c, hs, u) = {}

StopsNow(d, gs, u, G) == Stops(d, gs, u) = G /\ Onto(d, gs, u) = {}

GoesOn(c, hs, d, gs, u, t, G) ==
    /\ Stops(d, gs, u) = {} /\ Onto(d, gs, u) = {t}
    /\ t \in BB /\ t # u /\ Onto(c, hs, t) = {} /\ Stops(c, hs, t) = G

Becomes(c, hs, d, gs, u, e, G) ==
    \/ Kept(c, hs, d, gs, u, e)
    \/ Open(c, hs, u, e) /\ StopsNow(d, gs, u, G)
    \/ Open(c, hs, u, e) /\ \E t : GoesOn(c, hs, d, gs, u, t, G)

\* A block without edges that gets one.
LEMMA ThroughGoesOn ==
    ASSUME NEW c, NEW hs, NEW d, NEW gs, NEW bs \in SUBSET BB,
           GoesToBlocks(c, hs), GoesToBlocks(d, gs),
           NEW u \in BB, NEW t \in BB, t # u,
           \A b \in BB \ {u} : Onto(d, gs, b) = Onto(c, hs, b),
           Onto(c, hs, u) = {}, Onto(c, hs, t) = {}, Onto(d, gs, u) = {t}
    PROVE  Through(d, gs, bs) =
              Through(c, hs, bs) \cup (IF u \in Through(c, hs, bs) THEN {t} ELSE {})
<1> DEFINE X == Through(c, hs, bs)
           Y == Through(d, gs, bs)
           Z == X \cup (IF u \in X THEN {t} ELSE {})
<1>1. Least(c, hs, bs, X) /\ Least(d, gs, bs, Y)
  BY ThroughLeast
<1> HIDE DEF X, Y
<1>2. IsClosed(d, gs, Z)
  <2> SUFFICES ASSUME NEW b \in Z PROVE Onto(d, gs, b) \subseteq Z
    BY DEF IsClosed
  <2>1. CASE b = u
    BY <2>1
  <2>2. CASE b # u /\ b \in X
    <3>1. b \in BB /\ Onto(c, hs, b) \subseteq X
      BY <1>1, <2>2 DEF Least, Spreads, IsClosed
    <3> QED
      BY <2>2, <3>1
  <2>3. CASE b = t
    BY <2>3
  <2> QED
    BY <2>1, <2>2, <2>3
<1>3. Y \subseteq Z
  <2>1. bs \subseteq Z
    BY <1>1 DEF Least, Spreads
  <2> HIDE DEF Z
  <2> QED
    BY <1>1, <1>2, <2>1 DEF Least, Spreads
<1>4. X \subseteq Y
  <2>1. IsClosed(c, hs, Y) /\ bs \subseteq Y
    BY <1>1 DEF Least, Spreads, IsClosed
  <2> QED
    BY <1>1, <2>1 DEF Least, Spreads
<1>5. u \in X => t \in Y
  BY <1>1, <1>4 DEF Least, IsClosed
<1> QED
  BY <1>3, <1>4, <1>5 DEF X, Y

\* It depends on nothing but where each block passes control on to.
LEMMA ThroughSame ==
    ASSUME NEW c, NEW hs, NEW d, NEW gs, NEW bs \in SUBSET BB,
           GoesToBlocks(c, hs), GoesToBlocks(d, gs),
           \A b \in BB : Onto(d, gs, b) = Onto(c, hs, b)
    PROVE  Through(d, gs, bs) = Through(c, hs, bs)
<1> DEFINE X == Through(c, hs, bs)
           Y == Through(d, gs, bs)
<1>1. Least(c, hs, bs, X) /\ Least(d, gs, bs, Y)
  BY ThroughLeast
<1> HIDE DEF X, Y
<1>2. IsClosed(c, hs, Y) /\ bs \subseteq Y /\ IsClosed(d, gs, X) /\ bs \subseteq X
  BY <1>1 DEF Least, Spreads, IsClosed
<1>3. X \subseteq Y /\ Y \subseteq X
  BY <1>1, <1>2 DEF Least, Spreads
<1> QED
  BY <1>3 DEF X, Y

\* Where control stops first, when one block changes.
LEMMA FirstStopsChange ==
    ASSUME NEW c, NEW hs, NEW d, NEW gs, NEW bs \in SUBSET BB,
           GoesToBlocks(c, hs), GoesToBlocks(d, gs),
           NEW u \in BB, NEW e, NEW G,
           SameAround(c, hs, d, gs, u, e), Becomes(c, hs, d, gs, u, e, G)
    PROVE  FirstStops(d, gs, bs) = Subst(e, G, FirstStops(c, hs, bs))
<1> DEFINE X == Through(c, hs, bs)
           Y == Through(d, gs, bs)
<1>0. X \subseteq BB
  BY ThroughLeast DEF Least, Spreads
<1>1. /\ FirstStops(c, hs, bs) = UNION {Stops(c, hs, b) : b \in X}
      /\ FirstStops(d, gs, bs) = UNION {Stops(d, gs, b) : b \in Y}
  BY DEF FirstStops
<1>2. CASE Kept(c, hs, d, gs, u, e)
  <2>1. \A b \in BB : /\ Stops(d, gs, b) = Stops(c, hs, b) /\ Onto(d, gs, b) = Onto(c, hs, b)
                      /\ e \notin Stops(c, hs, b)
    BY <1>2 DEF Kept, SameAround
  <2>2. Y = X
    BY <2>1, ThroughSame
  <2> HIDE DEF X, Y
  <2>3. UNION {Stops(d, gs, b) : b \in Y} = UNION {Stops(c, hs, b) : b \in X}
    BY <1>0, <2>1, <2>2
  <2>4. e \notin UNION {Stops(c, hs, b) : b \in X}
    BY <1>0, <2>1
  <2> QED
    BY <1>1, <2>3, <2>4 DEF Subst
<1>3. CASE Open(c, hs, u, e) /\ StopsNow(d, gs, u, G)
  <2>1. \A b \in BB : Onto(d, gs, b) = Onto(c, hs, b)
    BY <1>3 DEF Open, StopsNow, SameAround
  <2>2. Y = X
    BY <2>1, ThroughSame
  <2> HIDE DEF X, Y
  <2>3. \A b \in X : b # u => Stops(d, gs, b) = Stops(c, hs, b) /\ e \notin Stops(c, hs, b)
    BY <1>0 DEF SameAround
  <2>4. Stops(c, hs, u) = {e} /\ Stops(d, gs, u) = G
    BY <1>3 DEF Open, StopsNow
  <2>5. e \in UNION {Stops(c, hs, b) : b \in X} <=> u \in X
    BY <2>3, <2>4
  <2>6. ASSUME NEW q
        PROVE  q \in UNION {Stops(d, gs, b) : b \in X} <=>
                  \/ q # e /\ q \in UNION {Stops(c, hs, b) : b \in X}
                  \/ u \in X /\ q \in G
    BY <2>3, <2>4
  <2> QED
    BY <1>1, <2>2, <2>5, <2>6 DEF Subst
<1>4. CASE Open(c, hs, u, e) /\ \E t : GoesOn(c, hs, d, gs, u, t, G)
  <2>0. PICK t : GoesOn(c, hs, d, gs, u, t, G)
    BY <1>4
  <2>1. /\ t \in BB /\ t # u /\ Onto(c, hs, u) = {} /\ Onto(c, hs, t) = {} /\ Onto(d, gs, u) = {t}
        /\ \A b \in BB \ {u} : Onto(d, gs, b) = Onto(c, hs, b)
    BY <1>4, <2>0 DEF Open, GoesOn, SameAround
  <2>2. Y = X \cup (IF u \in X THEN {t} ELSE {})
    BY <2>1, ThroughGoesOn
  <2> HIDE DEF X, Y
  <2>3. \A b \in BB : b # u => Stops(d, gs, b) = Stops(c, hs, b) /\ e \notin Stops(c, hs, b)
    BY DEF SameAround
  <2>4. Stops(c, hs, u) = {e} /\ Stops(d, gs, u) = {} /\ Stops(d, gs, t) = G
    BY <1>4, <2>0, <2>1, <2>3 DEF Open, GoesOn
  <2>5. e \in UNION {Stops(c, hs, b) : b \in X} <=> u \in X
    BY <1>0, <2>3, <2>4
  <2>6. ASSUME NEW q
        PROVE  q \in UNION {Stops(d, gs, b) : b \in Y} <=>
                  \/ q # e /\ q \in UNION {Stops(c, hs, b) : b \in X}
                  \/ u \in X /\ q \in G
    <3>1. ASSUME NEW b \in Y, q \in Stops(d, gs, b)
          PROVE  \/ q # e /\ q \in UNION {Stops(c, hs, x) : x \in X}
                 \/ u \in X /\ q \in G
      <4>1. b # u
        BY <2>4, <3>1
      <4>2. CASE b \in X
        BY <1>0, <2>3, <3>1, <4>1, <4>2
      <4>3. CASE b = t /\ u \in X
        BY <2>4, <3>1, <4>3
      <4> QED
        BY <2>2, <4>2, <4>3
    <3>2. ASSUME NEW b \in X, q \in Stops(c, hs, b), q # e
          PROVE  \E x \in Y : q \in Stops(d, gs, x)
      <4>1. b # u /\ b \in Y
        BY <2>2, <2>4, <3>2
      <4> QED
        BY <1>0, <2>3, <3>2, <4>1
    <3>3. ASSUME u \in X, q \in G
          PROVE  \E x \in Y : q \in Stops(d, gs, x)
      BY <2>2, <2>4, <3>3
    <3> QED
      BY <3>1, <3>2, <3>3
  <2> QED
    BY <1>1, <2>5, <2>6 DEF Subst
<1> QED
  BY <1>2, <1>3, <1>4 DEF Becomes

----------------------------------------------------------------------------
\* Where control stops in one block.

\* Control does not just go past i.
Halts(i) == IsTerm(i) \/ IsEvent(i)

StopIs(s, k, j) ==
    /\ j \in (k + 1)..(Len(s) + 1)
    /\ j <= Len(s) => Halts(s[j])
    /\ \A i \in (k + 1)..(j - 1) : ~Halts(s[i])

\* There is a place where control stops, so Stop is one.
LEMMA StopChosen ==
    ASSUME NEW s \in Seq(Instr), NEW k \in 0..Len(s)
    PROVE  StopIs(s, k, Stop(s, k))
<1> DEFINE n == Len(s)
           T == {j \in Nat : j >= k + 1 /\ j <= n + 1 /\ (j <= n => Halts(s[j]))}
<1>1. n \in Nat /\ k \in Nat /\ k <= n
  OBVIOUS
<1> HIDE DEF n
<1>2. n + 1 \in T
  BY <1>1
<1>3. PICK j \in T : \A i \in T : j <= i
  <2> HIDE DEF T
  <2>1. T \subseteq Nat
    BY DEF T
  <2> QED
    BY <1>2, <2>1, MinNat
<1>4. ASSUME NEW i \in (k + 1)..(j - 1)
      PROVE  ~Halts(s[i])
  <2>1. i \in Nat /\ i >= k + 1 /\ i <= n /\ ~(j <= i)
    BY <1>1, <1>3
  <2>2. i \notin T
    BY <1>3, <2>1
  <2> QED
    BY <1>1, <2>1, <2>2
<1>5. j \in (k + 1)..(n + 1) /\ (j <= n => Halts(s[j]))
  BY <1>1, <1>3
<1>6. \E x \in (k + 1)..(Len(s) + 1) :
         /\ x <= Len(s) => IsTerm(s[x]) \/ IsEvent(s[x])
         /\ \A i \in (k + 1)..(x - 1) : ~IsTerm(s[i]) /\ ~IsEvent(s[i])
  BY <1>4, <1>5 DEF n, Halts
<1>7. LET x == Stop(s, k)
      IN  /\ x \in (k + 1)..(Len(s) + 1)
          /\ x <= Len(s) => IsTerm(s[x]) \/ IsEvent(s[x])
          /\ \A i \in (k + 1)..(x - 1) : ~IsTerm(s[i]) /\ ~IsEvent(s[i])
  BY <1>6 DEF Stop
<1> QED
  BY <1>7 DEF StopIs, Halts

\* There is only one such place.
LEMMA StopOnly ==
    ASSUME NEW s, Len(s) \in Nat, NEW k \in Nat, NEW i, StopIs(s, k, i), NEW j, StopIs(s, k, j)
    PROVE  i = j
<1>1. i \in Nat /\ j \in Nat /\ i >= k + 1 /\ j >= k + 1 /\ i <= Len(s) + 1 /\ j <= Len(s) + 1
  BY DEF StopIs
<1>2. ASSUME NEW a \in Nat, NEW b \in Nat, StopIs(s, k, a), StopIs(s, k, b), a < b
      PROVE  FALSE
  <2>1. a <= Len(s) /\ a \in (k + 1)..(b - 1)
    BY <1>2 DEF StopIs
  <2> QED
    BY <1>2, <2>1 DEF StopIs
<1>3. ~(i < j) /\ ~(j < i)
  BY <1>1, <1>2
<1> QED
  BY <1>1, <1>3

\* One more instruction: control that came to the end stops at it, or goes
\* past it.
LEMMA StopAppend ==
    ASSUME NEW s \in Seq(Instr), NEW i \in Instr, NEW k \in 0..Len(s)
    PROVE  Stop(Append(s, i), k) =
              IF Stop(s, k) <= Len(s) THEN Stop(s, k)
              ELSE IF Halts(i) THEN Len(s) + 1 ELSE Len(s) + 2
<1> DEFINE t == Append(s, i)
           n == Len(s)
           j == Stop(s, k)
           h == IF j <= n THEN j ELSE IF Halts(i) THEN n + 1 ELSE n + 2
<1>1. /\ t \in Seq(Instr) /\ Len(t) = n + 1 /\ t[n + 1] = i /\ n \in Nat /\ k \in Nat /\ k <= n
      /\ \A x \in 1..n : t[x] = s[x]
  BY AppendProperties
<1>2. StopIs(s, k, j)
  BY StopChosen
<1>3. StopIs(t, k, Stop(t, k))
  <2>1. k \in 0..Len(t)
    BY <1>1
  <2> QED
    BY <1>1, <2>1, StopChosen
<1> HIDE DEF t, n, j
<1>4. j \in (k + 1)..(n + 1) /\ (j <= n => Halts(s[j])) /\ \A x \in (k + 1)..(j - 1) : ~Halts(s[x])
  BY <1>2 DEF StopIs, n
<1>5. h \in (k + 1)..(Len(t) + 1)
  BY <1>1, <1>4
<1>6. h <= Len(t) => Halts(t[h])
  <2>1. CASE j <= n
    <3>1. j \in 1..n
      BY <1>1, <1>4, <2>1
    <3> QED
      BY <1>1, <1>4, <2>1, <3>1
  <2>2. CASE ~(j <= n) /\ Halts(i)
    BY <1>1, <2>2
  <2>3. CASE ~(j <= n) /\ ~Halts(i)
    BY <1>1, <2>3
  <2> QED
    BY <2>1, <2>2, <2>3
<1>7. ASSUME NEW x \in (k + 1)..(h - 1)
      PROVE  ~Halts(t[x])
  <2>1. CASE x <= n
    <3>1. x \in 1..n /\ x \in (k + 1)..(j - 1)
      BY <1>1, <1>4, <1>7, <2>1
    <3> QED
      BY <1>1, <1>4, <3>1
  <2>2. CASE ~(x <= n)
    <3>1. x = n + 1 /\ ~Halts(i)
      BY <1>1, <1>4, <1>7, <2>2
    <3> QED
      BY <1>1, <3>1
  <2> QED
    BY <2>1, <2>2
<1>8. StopIs(t, k, h)
  <2> HIDE DEF h
  <2> QED
    BY <1>5, <1>6, <1>7 DEF StopIs
<1>9. Stop(t, k) = h
  <2> HIDE DEF h
  <2> QED
    BY <1>1, <1>3, <1>8, StopOnly
<1> QED
  BY <1>9 DEF t, n, j

\* Behind the last instruction there is only the end.
LEMMA StopAtEnd ==
    ASSUME NEW s \in Seq(Instr)
    PROVE  Stop(s, Len(s)) = Len(s) + 1
<1>1. StopIs(s, Len(s), Stop(s, Len(s)))
  BY StopChosen
<1> QED
  BY <1>1 DEF StopIs

\* Control does not come to the end of a block from before its terminator.
LEMMA StopBeforeEnd ==
    ASSUME NEW s \in Seq(Instr), HasTerminator(s), NEW k \in Nat, k < Len(s)
    PROVE  Stop(s, k) <= Len(s)
<1>1. StopIs(s, k, Stop(s, k))
  BY StopChosen
<1>2. Len(s) \in Nat /\ Halts(s[Len(s)])
  BY DEF HasTerminator, Halts
<1> DEFINE j == Stop(s, k)
<1> HIDE DEF j
<1>3. j \in (k + 1)..(Len(s) + 1) /\ \A i \in (k + 1)..(j - 1) : ~Halts(s[i])
  BY <1>1 DEF StopIs, j
<1>4. j = Len(s) + 1 => Len(s) \in (k + 1)..(j - 1)
  BY <1>2, <1>3
<1> QED
  BY <1>2, <1>3, <1>4 DEF j

----------------------------------------------------------------------------
\* One more instruction in a block.

Code == [BB -> Seq(Instr)]

End(c, b) == <<b, Len(c[b]) + 1>>

AppendTo(c, u, i) == [c EXCEPT ![u] = Append(@, i)]

\* Where control that came to the end of block u comes to when i is there.
Leads(c, hs, u, i, G) ==
    \/ ~Halts(i) /\ G = {<<u, Len(c[u]) + 2>>}
    \/ Halts(i) /\ ~IsBranch(i) /\ G = {End(c, u)}
    \/ /\ IsBranch(i)
       /\ \E t \in BB \ {u} : i.to = {t} /\ Onto(c, hs, t) = {} /\ Stops(c, hs, t) = G

\* The code with one more instruction.
LEMMA Appends1 ==
    ASSUME NEW c \in Code, NEW u \in BB, NEW i \in Instr
    PROVE  /\ AppendTo(c, u, i) \in Code
           /\ AppendTo(c, u, i)[u] = Append(c[u], i)
           /\ Len(AppendTo(c, u, i)[u]) = Len(c[u]) + 1
           /\ AppendTo(c, u, i)[u][Len(c[u]) + 1] = i
           /\ \A k \in 1..Len(c[u]) : AppendTo(c, u, i)[u][k] = c[u][k]
           /\ \A b \in BB \ {u} : AppendTo(c, u, i)[b] = c[b]
<1> DEFINE t == Append(c[u], i)
           d == AppendTo(c, u, i)
<1>1. /\ t \in Seq(Instr) /\ Len(t) = Len(c[u]) + 1 /\ t[Len(c[u]) + 1] = i
      /\ \A k \in 1..Len(c[u]) : t[k] = c[u][k]
  BY AppendProperties DEF Code
<1>2. d = [c EXCEPT ![u] = t]
  BY DEF AppendTo
<1> HIDE DEF t, d
<1>3. d \in Code /\ d[u] = t /\ \A b \in BB \ {u} : d[b] = c[b]
  BY <1>1, <1>2 DEF Code
<1> QED
  BY <1>1, <1>3 DEF t, d

\* Branches lead to blocks.
LEMMA CodeGoes ==
    ASSUME NEW c \in Code, NEW hs
    PROVE  /\ GoesToBlocks(c, hs)
           /\ \A b \in BB : \A k \in 0..Len(c[b]) : PassesTo(c, b, k) \subseteq BB
           /\ \A b \in BB : \A k \in 1..Len(c[b]) : c[b][k].to \subseteq BB
<1>1. ASSUME NEW b \in BB, NEW k \in 1..Len(c[b])
      PROVE  c[b][k].to \subseteq BB
  <2>1. c[b] \in Seq(Instr)
    BY DEF Code
  <2>2. c[b][k] \in Instr
    BY <2>1, ElementOfSeq
  <2> QED
    BY <2>2 DEF Instr
<1>2. ASSUME NEW b \in BB, NEW k \in 0..Len(c[b])
      PROVE  PassesTo(c, b, k) \subseteq BB
  <2>1. c[b] \in Seq(Instr)
    BY DEF Code
  <2>2. StopIs(c[b], k, Stop(c[b], k))
    BY <2>1, StopChosen
  <2>3. Stop(c[b], k) <= Len(c[b]) => Stop(c[b], k) \in 1..Len(c[b])
    BY <2>1, <2>2 DEF StopIs
  <2> QED
    BY <1>1, <2>3 DEF PassesTo, Passes
<1>3. GoesToBlocks(c, hs)
  <2>1. \A b \in BB : 0 \in 0..Len(c[b])
    BY DEF Code
  <2> QED
    BY <1>2, <2>1 DEF GoesToBlocks, Onto
<1> QED
  BY <1>1, <1>2, <1>3

\* What i changes behind index k of its block.
KeptAt(c, d, u, k) ==
    StopsAt(d, u, k) = StopsAt(c, u, k) /\ PassesTo(d, u, k) = PassesTo(c, u, k)

EndsOpen(c, u, k) == StopsAt(c, u, k) = {End(c, u)} /\ PassesTo(c, u, k) = {}

\* Behind index k of block u control stops where it did, or it fell off the
\* end and now meets instruction i.
LEMMA AppendAt ==
    ASSUME NEW c \in Code, NEW u \in BB, NEW i \in Instr, NEW k \in 0..Len(c[u]),
           NEW d, d = AppendTo(c, u, i)
    PROVE  \/ KeptAt(c, d, u, k) /\ End(c, u) \notin StopsAt(c, u, k)
           \/ /\ EndsOpen(c, u, k)
              /\ ~Halts(i) => StopsAt(d, u, k) = {<<u, Len(c[u]) + 2>>} /\ PassesTo(d, u, k) = {}
              /\ Halts(i) /\ ~IsBranch(i) => StopsAt(d, u, k) = {End(c, u)} /\ PassesTo(d, u, k) = {}
              /\ IsBranch(i) => StopsAt(d, u, k) = {} /\ PassesTo(d, u, k) = i.to
<1> DEFINE s == c[u]
           t == d[u]
           n == Len(s)
           j == Stop(s, k)
<1>1. /\ s \in Seq(Instr) /\ t = Append(s, i) /\ Len(t) = n + 1 /\ t[n + 1] = i /\ n \in Nat
      /\ \A x \in 1..n : t[x] = s[x]
  BY Appends1 DEF Code
<1>2. Stop(t, k) = IF j <= n THEN j ELSE IF Halts(i) THEN n + 1 ELSE n + 2
  BY <1>1, StopAppend
<1>3. StopIs(s, k, j)
  BY <1>1, StopChosen
<1>4. j \in 1..(n + 1)
  BY <1>1, <1>3 DEF StopIs
<1>5. /\ StopsAt(c, u, k) = IF j <= n /\ IsBranch(s[j]) THEN {} ELSE {<<u, j>>}
      /\ PassesTo(c, u, k) = IF j <= n /\ IsBranch(s[j]) THEN s[j].to ELSE {}
  BY DEF StopsAt, PassesTo, Passes
<1> DEFINE h == Stop(t, k)
<1>6. /\ StopsAt(d, u, k) = IF h <= n + 1 /\ IsBranch(t[h]) THEN {} ELSE {<<u, h>>}
      /\ PassesTo(d, u, k) = IF h <= n + 1 /\ IsBranch(t[h]) THEN t[h].to ELSE {}
  BY <1>1 DEF StopsAt, PassesTo, Passes
<1>7. End(c, u) = <<u, n + 1>>
  BY DEF End
<1>8. IsBranch(i) => Halts(i)
  BY DEF IsBranch, Halts
<1> HIDE DEF s, t, n, j, h
<1>9. CASE j <= n
  <2>1. h = j /\ t[j] = s[j] /\ h <= n + 1 /\ j # n + 1
    BY <1>1, <1>2, <1>4, <1>9 DEF h
  <2>2. KeptAt(c, d, u, k)
    BY <1>5, <1>6, <1>9, <2>1 DEF KeptAt
  <2>3. End(c, u) \notin StopsAt(c, u, k)
    BY <1>5, <1>7, <2>1
  <2> QED
    BY <2>2, <2>3
<1>10. CASE ~(j <= n)
  <2>1. j = n + 1 /\ ~(n + 2 <= n + 1) /\ n + 1 <= n + 1
    BY <1>1, <1>4, <1>10
  <2>2. EndsOpen(c, u, k)
    BY <1>5, <1>7, <1>10, <2>1 DEF EndsOpen
  <2>3. ~Halts(i) => h = n + 2
    BY <1>2, <1>10 DEF h
  <2>4. Halts(i) => h = n + 1
    BY <1>2, <1>10 DEF h
  <2>5. ~Halts(i) => StopsAt(d, u, k) = {<<u, n + 2>>} /\ PassesTo(d, u, k) = {}
    BY <1>6, <2>1, <2>3
  <2>6. Halts(i) /\ ~IsBranch(i) => StopsAt(d, u, k) = {End(c, u)} /\ PassesTo(d, u, k) = {}
    BY <1>1, <1>6, <1>7, <2>1, <2>4
  <2>7. IsBranch(i) => StopsAt(d, u, k) = {} /\ PassesTo(d, u, k) = i.to
    BY <1>1, <1>6, <1>8, <2>1, <2>4
  <2> QED
    BY <2>2, <2>5, <2>6, <2>7 DEF n, s
<1> QED
  BY <1>9, <1>10

\* A place of the code: an instruction, or the beginning of a block.
Places(c) == {p \in BB \X Nat : p[2] <= Len(c[p[1]])}

\* The same of all blocks, from their beginnings.
LEMMA AppendBecomes ==
    ASSUME NEW c \in Code, NEW hs, NEW u \in BB, NEW i \in Instr, NEW G, Leads(c, hs, u, i, G),
           NEW d, d = AppendTo(c, u, i)
    PROVE  /\ SameAround(c, hs, d, hs, u, End(c, u))
           /\ Becomes(c, hs, d, hs, u, End(c, u), G)
<1> DEFINE e == End(c, u)
<1>1. /\ d \in Code /\ \A b \in BB \ {u} : d[b] = c[b]
      /\ 0 \in 0..Len(c[u]) /\ Len(c[u]) + 1 # 0
  BY Appends1 DEF Code
<1>2. SameAround(c, hs, d, hs, u, e)
  <2> SUFFICES ASSUME NEW b \in BB \ {u}
               PROVE  /\ Stops(d, hs, b) = Stops(c, hs, b) /\ Onto(d, hs, b) = Onto(c, hs, b)
                      /\ e \notin Stops(c, hs, b)
    BY DEF SameAround
  <2>1. d[b] = c[b]
    BY <1>1
  <2>2. StopsAt(d, b, 0) = StopsAt(c, b, 0) /\ PassesTo(d, b, 0) = PassesTo(c, b, 0)
    BY <2>1 DEF StopsAt, PassesTo
  <2>3. \A q \in Stops(c, hs, b) : q[1] = b
    BY DEF Stops, StopsAt
  <2> QED
    BY <2>2, <2>3 DEF Stops, Onto, End
<1>3. CASE <<u, 0>> \in hs
  <2>1. Kept(c, hs, d, hs, u, e)
    BY <1>1, <1>3 DEF Kept, Stops, Onto, End
  <2> QED
    BY <1>2, <2>1 DEF Becomes
<1>4. CASE <<u, 0>> \notin hs
  <2>1. /\ Stops(d, hs, u) = StopsAt(d, u, 0) /\ Stops(c, hs, u) = StopsAt(c, u, 0)
        /\ Onto(d, hs, u) = PassesTo(d, u, 0) /\ Onto(c, hs, u) = PassesTo(c, u, 0)
    BY <1>4 DEF Stops, Onto
  <2>2. CASE KeptAt(c, d, u, 0) /\ e \notin StopsAt(c, u, 0)
    <3>1. Kept(c, hs, d, hs, u, e)
      BY <2>1, <2>2 DEF Kept, KeptAt
    <3> QED
      BY <1>2, <3>1 DEF Becomes
  <2>3. CASE /\ EndsOpen(c, u, 0)
             /\ ~Halts(i) => StopsAt(d, u, 0) = {<<u, Len(c[u]) + 2>>} /\ PassesTo(d, u, 0) = {}
             /\ Halts(i) /\ ~IsBranch(i) => StopsAt(d, u, 0) = {e} /\ PassesTo(d, u, 0) = {}
             /\ IsBranch(i) => StopsAt(d, u, 0) = {} /\ PassesTo(d, u, 0) = i.to
    <3>1. Open(c, hs, u, e)
      BY <2>1, <2>3 DEF Open, EndsOpen
    <3>2. CASE ~IsBranch(i)
      <4>1. StopsNow(d, hs, u, G)
        BY <2>1, <2>3, <3>2 DEF Leads, StopsNow
      <4> QED
        BY <1>2, <3>1, <4>1 DEF Becomes
    <3>3. CASE IsBranch(i)
      <4>1. Halts(i)
        BY <3>3 DEF IsBranch, Halts
      <4>2. PICK t \in BB \ {u} : i.to = {t} /\ Onto(c, hs, t) = {} /\ Stops(c, hs, t) = G
        BY <3>3, <4>1 DEF Leads
      <4>3. GoesOn(c, hs, d, hs, u, t, G)
        BY <2>1, <2>3, <3>3, <4>2 DEF GoesOn
      <4> QED
        BY <1>2, <3>1, <4>3 DEF Becomes
    <3> QED
      BY <3>2, <3>3
  <2> QED
    BY <1>1, <2>2, <2>3, AppendAt
<1> QED
  BY <1>3, <1>4

\* Blocks from which control goes nowhere else.
LEMMA StopsFinal ==
    ASSUME NEW c \in Code, NEW hs, NEW bs \in SUBSET BB, \A b \in bs : Onto(c, hs, b) = {}
    PROVE  FirstStops(c, hs, bs) = UNION {Stops(c, hs, b) : b \in bs}
<1>1. Least(c, hs, bs, Through(c, hs, bs))
  BY CodeGoes, ThroughLeast
<1>2. IsClosed(c, hs, bs)
  BY DEF IsClosed
<1>3. Through(c, hs, bs) = bs
  BY <1>1, <1>2 DEF Least, Spreads
<1> QED
  BY <1>3 DEF FirstStops

\* From no block control stops nowhere.
LEMMA NoStops ==
    ASSUME NEW c \in Code, NEW hs
    PROVE  FirstStops(c, hs, {}) = {}
BY StopsFinal

\* A block that passes control on to none.
LEMMA StopsAlone ==
    ASSUME NEW c \in Code, NEW hs, NEW b \in BB, Onto(c, hs, b) = {}
    PROVE  FirstStops(c, hs, {b}) = Stops(c, hs, b)
BY StopsFinal

\* Where control stops first behind a place, when i has come to the end of
\* block u.
LEMMA AppendNext ==
    ASSUME NEW c \in Code, NEW hs, NEW u \in BB, NEW i \in Instr, NEW G, Leads(c, hs, u, i, G),
           NEW d, d = AppendTo(c, u, i)
    PROVE  /\ \A bs \in SUBSET BB : FirstStops(d, hs, bs) = Subst(End(c, u), G, FirstStops(c, hs, bs))
           /\ \A p \in Places(c) : NextInCode(d, hs, p) = Subst(End(c, u), G, NextInCode(c, hs, p))
<1> DEFINE e == End(c, u)
<1>1. /\ d \in Code /\ \A b \in BB \ {u} : d[b] = c[b]
      /\ \A k \in 1..Len(c[u]) : d[u][k] = c[u][k]
  BY Appends1
<1>2. GoesToBlocks(c, hs) /\ GoesToBlocks(d, hs)
  BY <1>1, CodeGoes
<1>3. SameAround(c, hs, d, hs, u, e) /\ Becomes(c, hs, d, hs, u, e, G)
  BY AppendBecomes
<1>4. ASSUME NEW bs \in SUBSET BB
      PROVE  FirstStops(d, hs, bs) = Subst(e, G, FirstStops(c, hs, bs))
  BY <1>2, <1>3, FirstStopsChange
<1>5. ASSUME NEW p \in Places(c)
      PROVE  NextInCode(d, hs, p) = Subst(e, G, NextInCode(c, hs, p))
  <2> DEFINE b == p[1]
             k == p[2]
  <2>1. b \in BB /\ k \in 0..Len(c[b])
    BY DEF Places
  <2> HIDE DEF b, k
  <2>2. k > 0 => k \in 1..Len(c[b]) /\ d[b][k] = c[b][k]
    <3>1. k > 0 => k \in 1..Len(c[b])
      BY <2>1
    <3>2. b # u => d[b] = c[b]
      BY <1>1, <2>1
    <3> QED
      BY <1>1, <3>1, <3>2
  <2>3. CASE k > 0 /\ IsTerm(c[b][k])
    <3>1. /\ NextInCode(c, hs, p) = FirstStops(c, hs, c[b][k].to)
          /\ NextInCode(d, hs, p) = FirstStops(d, hs, c[b][k].to)
      BY <2>2, <2>3 DEF NextInCode, b, k
    <3>2. c[b][k].to \in SUBSET BB
      BY <2>1, <2>2, <2>3, CodeGoes
    <3> QED
      BY <1>4, <3>1, <3>2
  <2>4. CASE ~(k > 0 /\ IsTerm(c[b][k]))
    <3>1. /\ NextInCode(c, hs, p) = StopsAt(c, b, k) \cup FirstStops(c, hs, PassesTo(c, b, k))
          /\ NextInCode(d, hs, p) = StopsAt(d, b, k) \cup FirstStops(d, hs, PassesTo(d, b, k))
      BY <2>2, <2>4 DEF NextInCode, b, k
    <3>2. PassesTo(c, b, k) \in SUBSET BB
      BY <2>1, CodeGoes
    <3>3. FirstStops(d, hs, PassesTo(c, b, k)) = Subst(e, G, FirstStops(c, hs, PassesTo(c, b, k)))
      BY <1>4, <3>2
    <3>4. CASE /\ StopsAt(d, b, k) = StopsAt(c, b, k) /\ PassesTo(d, b, k) = PassesTo(c, b, k)
               /\ e \notin StopsAt(c, b, k)
      BY <3>1, <3>3, <3>4 DEF Subst
    <3>5. CASE b # u
      <4>1. d[b] = c[b]
        BY <1>1, <2>1, <3>5
      <4>2. StopsAt(d, b, k) = StopsAt(c, b, k) /\ PassesTo(d, b, k) = PassesTo(c, b, k)
        BY <4>1 DEF StopsAt, PassesTo
      <4>3. e \notin StopsAt(c, b, k)
        BY <3>5 DEF StopsAt, End
      <4> QED
        BY <3>4, <4>2, <4>3
    <3>6. CASE b = u /\ KeptAt(c, d, u, k) /\ e \notin StopsAt(c, u, k)
      BY <3>4, <3>6 DEF KeptAt
    <3>7. CASE /\ b = u /\ EndsOpen(c, u, k)
               /\ ~Halts(i) => StopsAt(d, u, k) = {<<u, Len(c[u]) + 2>>} /\ PassesTo(d, u, k) = {}
               /\ Halts(i) /\ ~IsBranch(i) => StopsAt(d, u, k) = {End(c, u)} /\ PassesTo(d, u, k) = {}
               /\ IsBranch(i) => StopsAt(d, u, k) = {} /\ PassesTo(d, u, k) = i.to
      <4>1. FirstStops(c, hs, {}) = {} /\ FirstStops(d, hs, {}) = {}
        BY <1>1, NoStops
      <4>2. NextInCode(c, hs, p) = {e}
        BY <3>1, <3>7, <4>1 DEF EndsOpen
      <4>3. CASE ~IsBranch(i)
        <5>1. NextInCode(d, hs, p) = G
          BY <3>1, <3>7, <4>1, <4>3 DEF Leads
        <5> QED
          BY <4>2, <5>1 DEF Subst
      <4>4. CASE IsBranch(i)
        <5>1. Halts(i)
          BY <4>4 DEF IsBranch, Halts
        <5>2. PICK t \in BB \ {u} : i.to = {t} /\ Onto(c, hs, t) = {} /\ Stops(c, hs, t) = G
          BY <4>4, <5>1 DEF Leads
        <5>3. NextInCode(d, hs, p) = FirstStops(d, hs, {t})
          BY <3>1, <3>7, <4>4, <5>2
        <5>4. Onto(d, hs, t) = {} /\ Stops(d, hs, t) = G
          BY <1>3, <5>2 DEF SameAround
        <5>5. FirstStops(d, hs, {t}) = G
          BY <1>1, <5>4, StopsAlone
        <5> QED
          BY <4>2, <5>3, <5>5 DEF Subst
      <4> QED
        BY <4>3, <4>4
    <3> QED
      BY <2>1, <3>5, <3>6, <3>7, AppendAt
  <2> QED
    BY <2>3, <2>4
<1> QED
  BY <1>4, <1>5

----------------------------------------------------------------------------
\* An empty block becomes a head.

\* Control stops at the end of an empty block.
LEMMA EmptyBlock ==
    ASSUME NEW c \in Code, NEW hs, NEW t \in BB, c[t] = <<>>
    PROVE  /\ End(c, t) = <<t, 1>>
           /\ StopsAt(c, t, 0) = {<<t, 1>>} /\ PassesTo(c, t, 0) = {}
           /\ <<t, 0>> \notin hs => Stops(c, hs, t) = {<<t, 1>>} /\ Onto(c, hs, t) = {}
<1>1. Stop(c[t], 0) = 1
  <2>1. c[t] \in Seq(Instr) /\ Len(c[t]) = 0
    BY DEF Code
  <2>2. Stop(c[t], Len(c[t])) = Len(c[t]) + 1
    BY <2>1, StopAtEnd
  <2> QED
    BY <2>1, <2>2
<1>2. Len(c[t]) = 0
  OBVIOUS
<1>3. ~Passes(c[t], 0)
  BY <1>1, <1>2 DEF Passes
<1> QED
  BY <1>1, <1>2, <1>3 DEF End, StopsAt, PassesTo, Stops, Onto

\* Control stops at a head.
LEMMA HeadBlock ==
    ASSUME NEW c, NEW hs, NEW t, <<t, 0>> \in hs
    PROVE  Stops(c, hs, t) = {<<t, 0>>} /\ Onto(c, hs, t) = {}
BY DEF Stops, Onto

\* An empty block becomes a head: control that stopped at its end now stops
\* at the head.
LEMMA HeadNext ==
    ASSUME NEW c \in Code, NEW hs, NEW t \in BB, c[t] = <<>>, <<t, 0>> \notin hs,
           NEW gs, gs = hs \cup {<<t, 0>>}
    PROVE  \A p \in Places(c) : p[1] # t =>
              NextInCode(c, gs, p) = Subst(End(c, t), {<<t, 0>>}, NextInCode(c, hs, p))
<1> DEFINE e == End(c, t)
           G == {<<t, 0>>}
<1>1. GoesToBlocks(c, hs) /\ GoesToBlocks(c, gs)
  BY CodeGoes
<1>2. /\ Stops(c, hs, t) = {e} /\ Onto(c, hs, t) = {}
      /\ Stops(c, gs, t) = G /\ Onto(c, gs, t) = {}
  BY EmptyBlock, HeadBlock
<1>3. SameAround(c, hs, c, gs, t, e)
  BY DEF SameAround, Stops, Onto, StopsAt, End
<1>4. Becomes(c, hs, c, gs, t, e, G)
  BY <1>2 DEF Becomes, Open, StopsNow
<1> HIDE DEF G
<1>5. ASSUME NEW bs \in SUBSET BB
      PROVE  FirstStops(c, gs, bs) = Subst(e, G, FirstStops(c, hs, bs))
  BY <1>1, <1>3, <1>4, FirstStopsChange
<1> SUFFICES ASSUME NEW p \in Places(c), p[1] # t
             PROVE  NextInCode(c, gs, p) = Subst(e, G, NextInCode(c, hs, p))
  BY DEF G
<1> DEFINE b == p[1]
           k == p[2]
<1>6. b \in BB /\ k \in 0..Len(c[b]) /\ b # t
  BY DEF Places
<1> HIDE DEF b, k
<1>7. CASE k > 0 /\ IsTerm(c[b][k])
  <2>1. /\ NextInCode(c, hs, p) = FirstStops(c, hs, c[b][k].to)
        /\ NextInCode(c, gs, p) = FirstStops(c, gs, c[b][k].to)
    BY <1>7 DEF NextInCode, b, k
  <2>2. c[b][k].to \in SUBSET BB
    <3>1. k \in 1..Len(c[b])
      BY <1>6, <1>7
    <3> QED
      BY <1>6, <3>1, CodeGoes
  <2> QED
    BY <1>5, <2>1, <2>2
<1>8. CASE ~(k > 0 /\ IsTerm(c[b][k]))
  <2>1. /\ NextInCode(c, hs, p) = StopsAt(c, b, k) \cup FirstStops(c, hs, PassesTo(c, b, k))
        /\ NextInCode(c, gs, p) = StopsAt(c, b, k) \cup FirstStops(c, gs, PassesTo(c, b, k))
    BY <1>8 DEF NextInCode, b, k
  <2>2. FirstStops(c, gs, PassesTo(c, b, k)) = Subst(e, G, FirstStops(c, hs, PassesTo(c, b, k)))
    <3>1. PassesTo(c, b, k) \in SUBSET BB
      BY <1>6, CodeGoes
    <3> QED
      BY <1>5, <3>1
  <2>3. e \notin StopsAt(c, b, k)
    BY <1>6 DEF StopsAt, End
  <2> QED
    BY <2>1, <2>2, <2>3 DEF Subst
<1> QED
  BY <1>7, <1>8

----------------------------------------------------------------------------
\* What the code is up to, while it is being generated.

\* Behind each point of P the code c comes to what is next to it in F, and to
\* the ends of the blocks where W has it wait.
Beyond(c, F, W, p) ==
    {q \in BB \X Nat : <<p, q>> \in F} \cup {End(c, b) : b \in {x \in BB : <<p, x>> \in W}}

Fits(c, hs, F, W, P) ==
    /\ P \subseteq Places(c) /\ F \subseteq P \X P /\ W \subseteq P \X BB
    /\ \A p \in P : NextInCode(c, hs, p) = Beyond(c, F, W, p)

\* An instruction that does not stop control comes to the end of a block.
LEMMA FitsSilent ==
    ASSUME NEW c \in Code, NEW hs, NEW F, NEW W, NEW P, Fits(c, hs, F, W, P),
           NEW u \in BB, NEW i \in Instr, ~Halts(i)
    PROVE  Fits(AppendTo(c, u, i), hs, F, W, P)
<1> DEFINE d == AppendTo(c, u, i)
           G == {<<u, Len(c[u]) + 2>>}
           e == End(c, u)
<1>1. d \in Code /\ Len(d[u]) = Len(c[u]) + 1 /\ \A b \in BB \ {u} : d[b] = c[b]
  BY Appends1
<1>2. Len(c[u]) \in Nat /\ Len(d[u]) + 1 = Len(c[u]) + 2
  BY <1>1 DEF Code
<1>3. Leads(c, hs, u, i, G)
  BY DEF Leads
<1>4. \A p \in Places(c) : NextInCode(d, hs, p) = Subst(e, G, NextInCode(c, hs, p))
  <2> HIDE DEF G, e, d
  <2> QED
    BY <1>3, AppendNext DEF e, d
<1> HIDE DEF d
<1>5. Places(c) \subseteq Places(d)
  BY <1>1, <1>2 DEF Places
<1>6. /\ P \subseteq Places(c) /\ F \subseteq P \X P /\ W \subseteq P \X BB
      /\ \A p \in P : NextInCode(c, hs, p) = Beyond(c, F, W, p)
  BY DEF Fits
<1>7. \A b \in BB \ {u} : End(d, b) = End(c, b) /\ End(c, b) # e
  BY <1>1 DEF End
<1>8. End(d, u) = <<u, Len(c[u]) + 2>>
  BY <1>2 DEF End
<1>9. \A q \in P : q # e
  BY <1>2, <1>6 DEF Places, End
<1>10. ASSUME NEW p \in P
       PROVE  Subst(e, G, Beyond(c, F, W, p)) = Beyond(d, F, W, p)
  <2>1. \A q : <<p, q>> \in F => q # e
    BY <1>6, <1>9
  <2>2. e \in Beyond(c, F, W, p) <=> <<p, u>> \in W
    BY <1>7, <2>1 DEF Beyond
  <2> HIDE DEF e
  <2> QED
    BY <1>7, <1>8, <2>1, <2>2 DEF Subst, Beyond
<1> QED
  BY <1>4, <1>5, <1>6, <1>10 DEF Fits, d

\* The points of A wait at u, and what R says; x waits at each block of T.
Wait(A, u, R) == (A \X {u}) \cup R

Each(x, T, R) == ({x} \X T) \cup R

Elsewhere(R, u) == \A d \in R : d[2] # u

\* What waits are points, and it waits at blocks.
LEMMA FitsWaits ==
    ASSUME NEW c, NEW hs, NEW F, NEW P, NEW u \in BB, NEW A, NEW R,
           Fits(c, hs, F, Wait(A, u, R), P)
    PROVE  A \subseteq P /\ R \subseteq P \X BB
<1>1. Wait(A, u, R) \subseteq P \X BB
  BY DEF Fits
<1>2. \A a \in A : <<a, u>> \in P \X BB
  BY <1>1 DEF Wait, Each
<1> QED
  BY <1>1, <1>2 DEF Wait, Each

\* What is waited for at block u, and what is waited for elsewhere.
SplitAt(c, F, A, u, R, G, p) ==
    /\ Beyond(c, F, Wait(A, u, R), p) =
          Beyond(c, F, R, p) \cup (IF p \in A THEN {End(c, u)} ELSE {})
    /\ Subst(End(c, u), G, Beyond(c, F, Wait(A, u, R), p)) =
          Beyond(c, F, R, p) \cup (IF p \in A THEN G ELSE {})

\* What is beyond p, by what waits at u and what waits elsewhere.
LEMMA BeyondSplit ==
    ASSUME NEW c \in Code, NEW hs, NEW F, NEW P, NEW u \in BB, NEW A, NEW R,
           Fits(c, hs, F, Wait(A, u, R), P), Elsewhere(R, u),
           NEW G, NEW p \in P
    PROVE  SplitAt(c, F, A, u, R, G, p)
<1> DEFINE e == End(c, u)
           W == Wait(A, u, R)
<1>0. P \subseteq Places(c) /\ F \subseteq P \X P
  BY DEF Fits
<1>1. \A b \in BB : <<p, b>> \in W <=> (p \in A /\ b = u) \/ <<p, b>> \in R
  BY DEF Wait, Each
<1>2. Beyond(c, F, W, p) = Beyond(c, F, R, p) \cup (IF p \in A THEN {e} ELSE {})
  <2> HIDE DEF W
  <2> QED
    BY <1>1 DEF Beyond
<1>3. \A q : <<p, q>> \in F => q # e
  <2>1. Len(c[u]) \in Nat
    BY DEF Code
  <2>2. \A q \in P : q # e
    BY <1>0, <2>1 DEF Places, End
  <2> QED
    BY <1>0, <2>2
<1>4. \A b \in BB : <<p, b>> \in R => End(c, b) # e
  BY DEF Elsewhere, End
<1>5. e \notin Beyond(c, F, R, p)
  BY <1>3, <1>4 DEF Beyond
<1> HIDE DEF W, e
<1> QED
  BY <1>2, <1>5 DEF Subst, SplitAt, W, e

\* The other ends stay where they are.
LEMMA BeyondSame ==
    ASSUME NEW c \in Code, NEW u \in BB, NEW i \in Instr, NEW F,
           NEW R, Elsewhere(R, u), NEW p
    PROVE  Beyond(AppendTo(c, u, i), F, R, p) = Beyond(c, F, R, p)
<1> DEFINE d == AppendTo(c, u, i)
<1>1. \A b \in BB \ {u} : d[b] = c[b]
  BY Appends1
<1>2. \A b \in BB : <<p, b>> \in R => End(d, b) = End(c, b)
  BY <1>1 DEF Elsewhere, End
<1> HIDE DEF d
<1> QED
  BY <1>2 DEF Beyond, d

\* The places are still there when an instruction is added.
LEMMA PlacesGrow ==
    ASSUME NEW c \in Code, NEW u \in BB, NEW i \in Instr
    PROVE  /\ Places(c) \subseteq Places(AppendTo(c, u, i))
           /\ End(c, u) \in Places(AppendTo(c, u, i)) /\ End(c, u) \notin Places(c)
           /\ End(AppendTo(c, u, i), u) = <<u, Len(c[u]) + 2>>
<1> DEFINE d == AppendTo(c, u, i)
<1>1. d \in Code /\ Len(d[u]) = Len(c[u]) + 1 /\ \A b \in BB \ {u} : d[b] = c[b]
  BY Appends1
<1>2. Len(c[u]) \in Nat /\ Len(d[u]) + 1 = Len(c[u]) + 2
  BY <1>1 DEF Code
<1> HIDE DEF d
<1> QED
  BY <1>1, <1>2 DEF Places, End, d

ContinuesIn(d, hs, x, T) == T \subseteq BB /\ NextInCode(d, hs, x) = {End(d, b) : b \in T}

\* An event comes to the end of block u, and control goes on in the blocks T.
LEMMA FitsEvent ==
    ASSUME NEW c \in Code, NEW hs, NEW F, NEW P, NEW u \in BB, NEW A, NEW R,
           Fits(c, hs, F, Wait(A, u, R), P), Elsewhere(R, u),
           NEW i \in Instr, Halts(i), ~IsBranch(i),
           NEW d, d = AppendTo(c, u, i), NEW x, x = End(c, u),
           NEW T, ContinuesIn(d, hs, x, T)
    PROVE  Fits(d, hs, Wait(A, x, F), Each(x, T, R), P \cup {x})
<1>0. A \subseteq P /\ R \subseteq P \X BB
  BY FitsWaits
<1> DEFINE W == Wait(A, u, R)
           E == Wait(A, x, F)
           V == Each(x, T, R)
           Q == P \cup {x}
<1>1. /\ P \subseteq Places(c) /\ F \subseteq P \X P
      /\ \A p \in P : NextInCode(c, hs, p) = Beyond(c, F, W, p)
  BY DEF Fits
<1>2. Q \subseteq Places(d) /\ x \notin P
  BY <1>1, PlacesGrow
<1>3. E \subseteq Q \X Q /\ V \subseteq Q \X BB
  BY <1>0, <1>1 DEF ContinuesIn, Wait, Each
<1>4. ASSUME NEW p \in P
      PROVE  NextInCode(d, hs, p) = Beyond(d, E, V, p)
  <2>1. Leads(c, hs, u, i, {x})
    BY DEF Leads
  <2>2. NextInCode(d, hs, p) = Subst(x, {x}, NextInCode(c, hs, p))
    <3>1. \A q \in Places(c) :
             NextInCode(AppendTo(c, u, i), hs, q) = Subst(End(c, u), {x}, NextInCode(c, hs, q))
      BY <2>1, AppendNext
    <3> QED
      BY <1>1, <3>1
  <2>3. NextInCode(d, hs, p) = Beyond(c, F, R, p) \cup (IF p \in A THEN {x} ELSE {})
    <3>1. SplitAt(c, F, A, u, R, {x}, p)
      BY BeyondSplit
    <3>2. Subst(End(c, u), {x}, Beyond(c, F, W, p)) =
             Beyond(c, F, R, p) \cup (IF p \in A THEN {x} ELSE {})
      BY <3>1 DEF SplitAt
    <3> HIDE DEF W
    <3> QED
      BY <1>1, <2>2, <3>2
  <2>4. Beyond(d, F, R, p) = Beyond(c, F, R, p)
    <3>1. Beyond(AppendTo(c, u, i), F, R, p) = Beyond(c, F, R, p)
      BY BeyondSame
    <3> QED
      BY <3>1
  <2>5. \A b \in BB : <<p, b>> \in V <=> <<p, b>> \in R
    BY <1>2 DEF Wait, Each
  <2>6. \A q : <<p, q>> \in E <=> <<p, q>> \in F \/ (p \in A /\ q = x)
    BY DEF Wait, Each
  <2>7. x \in BB \X Nat
    BY <1>2 DEF Places
  <2> HIDE DEF V, E
  <2>8. Beyond(d, E, V, p) = Beyond(d, F, R, p) \cup (IF p \in A THEN {x} ELSE {})
    BY <2>5, <2>6, <2>7 DEF Beyond
  <2> QED
    BY <2>3, <2>4, <2>8
<1>5. NextInCode(d, hs, x) = Beyond(d, E, V, x)
  <2>1. \A q : <<x, q>> \notin E
    BY <1>0, <1>1, <1>2 DEF Wait, Each
  <2>2. \A b \in BB : <<x, b>> \in V <=> b \in T
    BY <1>0, <1>2 DEF Wait, Each
  <2> HIDE DEF V, E
  <2>3. Beyond(d, E, V, x) = {End(d, b) : b \in T}
    BY <2>1, <2>2 DEF Beyond, ContinuesIn
  <2> QED
    BY <2>3 DEF ContinuesIn
<1> HIDE DEF E, V
<1> QED
  BY <1>2, <1>3, <1>4, <1>5 DEF Fits, E, V

\* An access or a call: control goes on behind it.
LEMMA FitsStep ==
    ASSUME NEW c \in Code, NEW hs, NEW F, NEW P, NEW u \in BB, NEW A, NEW R,
           Fits(c, hs, F, Wait(A, u, R), P), Elsewhere(R, u),
           NEW i \in Instr, IsEvent(i), ~IsTerm(i)
    PROVE  LET x == End(c, u)
           IN  Fits(AppendTo(c, u, i), hs, Wait(A, x, F), Wait({x}, u, R), P \cup {x})
<1> DEFINE d == AppendTo(c, u, i)
           x == End(c, u)
<1>1. Halts(i) /\ ~IsBranch(i)
  BY DEF Halts, IsBranch
<1>2. /\ d \in Code /\ Len(d[u]) = Len(c[u]) + 1 /\ d[u][Len(c[u]) + 1] = i
      /\ Len(c[u]) \in Nat
  BY Appends1 DEF Code
<1>3. NextInCode(d, hs, x) = {End(d, b) : b \in {u}}
  <2>1. Stop(d[u], Len(d[u])) = Len(d[u]) + 1
    BY <1>2, StopAtEnd DEF Code
  <2>2. x[1] = u /\ x[2] = Len(d[u])
    BY <1>2 DEF End
  <2>3. ~Passes(d[u], Len(d[u]))
    BY <1>2, <2>1 DEF Passes
  <2>4. StopsAt(d, u, Len(d[u])) = {End(d, u)} /\ PassesTo(d, u, Len(d[u])) = {}
    BY <2>1, <2>3 DEF StopsAt, PassesTo, End
  <2>5. ~IsTerm(d[u][Len(d[u])])
    BY <1>2
  <2>6. FirstStops(d, hs, {}) = {}
    BY <1>2, NoStops
  <2> HIDE DEF d, x
  <2> QED
    BY <2>2, <2>4, <2>5, <2>6 DEF NextInCode
<1>4. d = AppendTo(c, u, i) /\ x = End(c, u)
  OBVIOUS
<1>5. ContinuesIn(d, hs, x, {u})
  BY <1>3 DEF ContinuesIn
<1> HIDE DEF d, x
<1>6. Fits(d, hs, Wait(A, x, F), Each(x, {u}, R), P \cup {x})
  BY <1>1, <1>4, <1>5, FitsEvent
<1>7. Each(x, {u}, R) = Wait({x}, u, R)
  BY DEF Each, Wait
<1> QED
  BY <1>6, <1>7 DEF d, x

\* A return, or a branch on a condition to blocks without code.
LEMMA FitsLeave ==
    ASSUME NEW c \in Code, NEW hs, NEW F, NEW P, NEW u \in BB, NEW A, NEW R,
           Fits(c, hs, F, Wait(A, u, R), P), Elsewhere(R, u),
           NEW i \in Instr, IsTerm(i), ~IsBranch(i),
           \A t \in i.to : t # u /\ c[t] = <<>> /\ <<t, 0>> \notin hs
    PROVE  LET x == End(c, u)
           IN  Fits(AppendTo(c, u, i), hs, Wait(A, x, F), Each(x, i.to, R), P \cup {x})
<1> DEFINE d == AppendTo(c, u, i)
           x == End(c, u)
<1>1. Halts(i) /\ i.to \in SUBSET BB
  BY DEF Halts, Instr
<1>2. /\ d \in Code /\ d[u][Len(c[u]) + 1] = i /\ Len(c[u]) \in Nat
      /\ \A b \in BB \ {u} : d[b] = c[b]
  BY Appends1 DEF Code
<1>3. NextInCode(d, hs, x) = {End(d, b) : b \in i.to}
  <2>1. x[1] = u /\ x[2] = Len(c[u]) + 1 /\ Len(c[u]) + 1 > 0
    BY <1>2 DEF End
  <2>2. NextInCode(d, hs, x) = FirstStops(d, hs, i.to)
    BY <1>2, <2>1 DEF NextInCode
  <2>3. ASSUME NEW t \in i.to
        PROVE  Stops(d, hs, t) = {End(d, t)} /\ Onto(d, hs, t) = {}
    <3>1. t \in BB /\ d[t] = <<>> /\ <<t, 0>> \notin hs
      BY <1>1, <1>2
    <3> QED
      BY <1>2, <3>1, EmptyBlock
  <2>4. FirstStops(d, hs, i.to) = UNION {Stops(d, hs, b) : b \in i.to}
    BY <1>1, <1>2, <2>3, StopsFinal
  <2> HIDE DEF d, x
  <2> QED
    BY <2>2, <2>3, <2>4
<1>4. d = AppendTo(c, u, i) /\ x = End(c, u)
  OBVIOUS
<1>5. ContinuesIn(d, hs, x, i.to)
  BY <1>1, <1>3 DEF ContinuesIn
<1> HIDE DEF d, x
<1>6. Fits(d, hs, Wait(A, x, F), Each(x, i.to, R), P \cup {x})
  BY <1>1, <1>4, <1>5, FitsEvent
<1> QED
  BY <1>6 DEF d, x

\* A branch to a block without code: what waited here waits there.
LEMMA FitsBranch ==
    ASSUME NEW c \in Code, NEW hs, NEW F, NEW P, NEW u \in BB, NEW A, NEW R,
           Fits(c, hs, F, Wait(A, u, R), P), Elsewhere(R, u),
           NEW t \in BB, t # u, c[t] = <<>>, <<t, 0>> \notin hs
    PROVE  Fits(AppendTo(c, u, Br(t)), hs, F, Wait(A, t, R), P)
<1> DEFINE d == AppendTo(c, u, Br(t))
           W == Wait(A, u, R)
           V == Wait(A, t, R)
<1>0. A \subseteq P /\ R \subseteq P \X BB
  BY FitsWaits
<1>1. /\ P \subseteq Places(c) /\ F \subseteq P \X P
      /\ \A p \in P : NextInCode(c, hs, p) = Beyond(c, F, W, p)
  BY DEF Fits
<1>2. Br(t) \in Instr /\ IsBranch(Br(t)) /\ Br(t).to = {t}
  BY InstrType DEF Br, IsBranch, IsTerm
<1>3. Stops(c, hs, t) = {End(c, t)} /\ Onto(c, hs, t) = {}
  BY EmptyBlock
<1>4. Leads(c, hs, u, Br(t), {End(c, t)})
  BY <1>2, <1>3 DEF Leads
<1>5. P \subseteq Places(d) /\ V \subseteq P \X BB
  BY <1>0, <1>1, <1>2, PlacesGrow DEF Wait, Each
<1>6. End(d, t) = End(c, t)
  <2>1. d[t] = c[t]
    BY <1>2, Appends1
  <2> QED
    BY <2>1 DEF End
<1>7. ASSUME NEW p \in P
      PROVE  NextInCode(d, hs, p) = Beyond(d, F, V, p)
  <2>1. NextInCode(d, hs, p) = Subst(End(c, u), {End(c, t)}, NextInCode(c, hs, p))
    <3>1. \A q \in Places(c) :
             NextInCode(AppendTo(c, u, Br(t)), hs, q) =
                Subst(End(c, u), {End(c, t)}, NextInCode(c, hs, q))
      BY <1>2, <1>4, AppendNext
    <3> QED
      BY <1>1, <3>1
  <2>2. Subst(End(c, u), {End(c, t)}, Beyond(c, F, Wait(A, u, R), p)) =
           Beyond(c, F, R, p) \cup (IF p \in A THEN {End(c, t)} ELSE {})
    <3>1. SplitAt(c, F, A, u, R, {End(c, t)}, p)
      BY BeyondSplit
    <3> QED
      BY <3>1 DEF SplitAt
  <2>3. Beyond(d, F, R, p) = Beyond(c, F, R, p)
    <3>1. Beyond(AppendTo(c, u, Br(t)), F, R, p) = Beyond(c, F, R, p)
      BY <1>2, BeyondSame
    <3> QED
      BY <3>1
  <2>4. \A b \in BB : <<p, b>> \in V <=> (p \in A /\ b = t) \/ <<p, b>> \in R
    BY DEF Wait, Each
  <2>5. NextInCode(c, hs, p) = Beyond(c, F, Wait(A, u, R), p)
    BY <1>1
  <2> HIDE DEF V, d
  <2>6. Beyond(d, F, V, p) = Beyond(d, F, R, p) \cup (IF p \in A THEN {End(d, t)} ELSE {})
    BY <2>4 DEF Beyond
  <2> QED
    BY <1>6, <2>1, <2>2, <2>3, <2>5, <2>6
<1> HIDE DEF V, d
<1> QED
  BY <1>1, <1>5, <1>7 DEF Fits, V, d

\* A branch to a head: what waited here has got there.
LEMMA FitsLoop ==
    ASSUME NEW c \in Code, NEW hs, NEW F, NEW P, NEW u \in BB, NEW A, NEW R,
           Fits(c, hs, F, Wait(A, u, R), P), Elsewhere(R, u),
           NEW t \in BB, t # u, <<t, 0>> \in hs, <<t, 0>> \in P
    PROVE  Fits(AppendTo(c, u, Br(t)), hs, Wait(A, <<t, 0>>, F), R, P)
<1> DEFINE d == AppendTo(c, u, Br(t))
           W == Wait(A, u, R)
           h == <<t, 0>>
           E == Wait(A, h, F)
<1>0. A \subseteq P /\ R \subseteq P \X BB
  BY FitsWaits
<1>1. /\ P \subseteq Places(c) /\ F \subseteq P \X P
      /\ \A p \in P : NextInCode(c, hs, p) = Beyond(c, F, W, p)
  BY DEF Fits
<1>2. Br(t) \in Instr /\ IsBranch(Br(t)) /\ Br(t).to = {t}
  BY InstrType DEF Br, IsBranch, IsTerm
<1>3. Stops(c, hs, t) = {h} /\ Onto(c, hs, t) = {}
  BY HeadBlock
<1>4. Leads(c, hs, u, Br(t), {h})
  BY <1>2, <1>3 DEF Leads
<1>5. P \subseteq Places(d) /\ E \subseteq P \X P
  BY <1>0, <1>1, <1>2, PlacesGrow DEF Wait, Each
<1>7. ASSUME NEW p \in P
      PROVE  NextInCode(d, hs, p) = Beyond(d, E, R, p)
  <2>1. NextInCode(d, hs, p) = Subst(End(c, u), {h}, NextInCode(c, hs, p))
    <3>1. \A q \in Places(c) :
             NextInCode(AppendTo(c, u, Br(t)), hs, q) = Subst(End(c, u), {h}, NextInCode(c, hs, q))
      BY <1>2, <1>4, AppendNext
    <3> QED
      BY <1>1, <3>1
  <2>2. Subst(End(c, u), {h}, Beyond(c, F, Wait(A, u, R), p)) =
           Beyond(c, F, R, p) \cup (IF p \in A THEN {h} ELSE {})
    <3>1. SplitAt(c, F, A, u, R, {h}, p)
      BY BeyondSplit
    <3> QED
      BY <3>1 DEF SplitAt
  <2>3. Beyond(d, F, R, p) = Beyond(c, F, R, p)
    <3>1. Beyond(AppendTo(c, u, Br(t)), F, R, p) = Beyond(c, F, R, p)
      BY <1>2, BeyondSame
    <3> QED
      BY <3>1
  <2>4. \A q : <<p, q>> \in E <=> (p \in A /\ q = h) \/ <<p, q>> \in F
    BY DEF Wait, Each
  <2>5. NextInCode(c, hs, p) = Beyond(c, F, Wait(A, u, R), p)
    BY <1>1
  <2>7. h \in BB \X Nat
    OBVIOUS
  <2> HIDE DEF E, d, h
  <2>6. Beyond(d, E, R, p) = Beyond(d, F, R, p) \cup (IF p \in A THEN {h} ELSE {})
    BY <2>4, <2>7 DEF Beyond
  <2> QED
    BY <2>1, <2>2, <2>3, <2>5, <2>6
<1> HIDE DEF E, d
<1> QED
  BY <1>0, <1>1, <1>5, <1>7 DEF Fits, E, d

\* Block t becomes a head: control goes on from there.
LEMMA FitsHead ==
    ASSUME NEW c \in Code, NEW hs, NEW F, NEW P, NEW t \in BB, NEW A, NEW R,
           Fits(c, hs, F, Wait(A, t, R), P), Elsewhere(R, t),
           c[t] = <<>>, <<t, 0>> \notin hs, <<t, 0>> \notin P
    PROVE  LET h == <<t, 0>>
           IN  Fits(c, hs \cup {h}, Wait(A, h, F), Wait({h}, t, R), P \cup {h})
<1> DEFINE W == Wait(A, t, R)
           h == <<t, 0>>
           gs == hs \cup {h}
           E == Wait(A, h, F)
           V == Wait({h}, t, R)
           Q == P \cup {h}
<1>0. A \subseteq P /\ R \subseteq P \X BB
  BY FitsWaits
<1>1. /\ P \subseteq Places(c) /\ F \subseteq P \X P
      /\ \A p \in P : NextInCode(c, hs, p) = Beyond(c, F, W, p)
  BY DEF Fits
<1>2. Len(c[t]) = 0 /\ h \in BB \X Nat /\ h \in Places(c) /\ h \notin P
  BY DEF Places
<1>3. Q \subseteq Places(c) /\ E \subseteq Q \X Q /\ V \subseteq Q \X BB
  BY <1>0, <1>1, <1>2 DEF Wait, Each
<1>4. \A p \in P : p[1] # t
  BY <1>1, <1>2 DEF Places
<1>5. ASSUME NEW p \in P
      PROVE  NextInCode(c, gs, p) = Beyond(c, E, V, p)
  <2>1. NextInCode(c, gs, p) = Subst(End(c, t), {h}, NextInCode(c, hs, p))
    <3>1. \A q \in Places(c) : q[1] # t =>
             NextInCode(c, hs \cup {<<t, 0>>}, q) = Subst(End(c, t), {<<t, 0>>}, NextInCode(c, hs, q))
      BY HeadNext
    <3> QED
      BY <1>1, <1>4, <3>1
  <2>2. Subst(End(c, t), {h}, Beyond(c, F, Wait(A, t, R), p)) =
           Beyond(c, F, R, p) \cup (IF p \in A THEN {h} ELSE {})
    <3>1. SplitAt(c, F, A, t, R, {h}, p)
      BY BeyondSplit
    <3> QED
      BY <3>1 DEF SplitAt
  <2>3. NextInCode(c, hs, p) = Beyond(c, F, Wait(A, t, R), p)
    BY <1>1
  <2>4. \A q : <<p, q>> \in E <=> (p \in A /\ q = h) \/ <<p, q>> \in F
    BY DEF Wait, Each
  <2>5. \A b \in BB : <<p, b>> \in V <=> <<p, b>> \in R
    BY <1>2 DEF Wait, Each
  <2> HIDE DEF E, V, h, gs
  <2>6. Beyond(c, E, V, p) = Beyond(c, F, R, p) \cup (IF p \in A THEN {h} ELSE {})
    BY <1>2, <2>4, <2>5 DEF Beyond
  <2> QED
    BY <2>1, <2>2, <2>3, <2>6
<1>6. NextInCode(c, gs, h) = Beyond(c, E, V, h)
  <2>1. StopsAt(c, t, 0) = {End(c, t)} /\ PassesTo(c, t, 0) = {}
    BY EmptyBlock
  <2>2. FirstStops(c, gs, {}) = {}
    BY NoStops
  <2>3. h[1] = t /\ h[2] = 0 /\ ~(0 > 0)
    OBVIOUS
  <2>4. NextInCode(c, gs, h) = {End(c, t)}
    <3> HIDE DEF h, gs
    <3>1. NextInCode(c, gs, h) = StopsAt(c, h[1], h[2]) \cup FirstStops(c, gs, PassesTo(c, h[1], h[2]))
      BY <2>3 DEF NextInCode
    <3> QED
      BY <2>1, <2>2, <2>3, <3>1
  <2>5. \A q : <<h, q>> \notin E
    BY <1>0, <1>1, <1>2 DEF Wait, Each
  <2>6. \A b \in BB : <<h, b>> \in V <=> b = t
    BY <1>0, <1>2 DEF Wait, Each
  <2> HIDE DEF E, V, h
  <2>7. Beyond(c, E, V, h) = {End(c, t)}
    BY <2>5, <2>6 DEF Beyond
  <2> QED
    BY <2>4, <2>7
<1> HIDE DEF E, V, h, gs
<1>7. Fits(c, gs, E, V, Q)
  BY <1>3, <1>5, <1>6 DEF Fits
<1> QED
  BY <1>7 DEF E, V, h, gs

\* Nothing is waited for at the end of a block that has a terminator there.
LEMMA FitsClosed ==
    ASSUME NEW c \in Code, NEW hs, NEW F, NEW W, NEW P, Fits(c, hs, F, W, P),
           NEW u \in BB, HasTerminator(c[u]), NEW p
    PROVE  <<p, u>> \notin W
<1> SUFFICES ASSUME <<p, u>> \in W PROVE FALSE
  OBVIOUS
<1> DEFINE e == End(c, u)
<1>1. p \in P /\ p \in Places(c) /\ NextInCode(c, hs, p) = Beyond(c, F, W, p)
  BY DEF Fits
<1>2. e \in NextInCode(c, hs, p)
  BY <1>1 DEF Beyond
<1>3. /\ c[u] \in Seq(Instr) /\ Len(c[u]) \in Nat /\ Len(c[u]) > 0
      /\ IsTerm(c[u][Len(c[u])])
  BY EmptySeq DEF Code, HasTerminator
<1>4. \A k \in Nat : k < Len(c[u]) => Stop(c[u], k) <= Len(c[u])
  BY <1>3, StopBeforeEnd
<1>5. \A b \in BB : \A k \in Nat : k < Len(c[u]) \/ b # u => e \notin StopsAt(c, b, k)
  BY <1>3, <1>4 DEF StopsAt, End
<1>6. ASSUME NEW bs \in SUBSET BB
      PROVE  e \notin FirstStops(c, hs, bs)
  <2>1. Through(c, hs, bs) \subseteq BB
    BY CodeGoes, ThroughLeast DEF Least, Spreads
  <2>2. ASSUME NEW b \in BB PROVE e \notin Stops(c, hs, b)
    <3>1. 0 \in Nat /\ (0 < Len(c[u]) \/ b # u)
      BY <1>3
    <3>2. e \notin StopsAt(c, b, 0)
      BY <1>5, <3>1
    <3>3. e # <<b, 0>>
      BY <1>3 DEF End
    <3> QED
      BY <3>2, <3>3 DEF Stops
  <2> QED
    BY <2>1, <2>2 DEF FirstStops
<1> DEFINE b == p[1]
           k == p[2]
<1>7. b \in BB /\ k \in 0..Len(c[b])
  BY <1>1 DEF Places
<1> HIDE DEF b, k, e
<1>8. CASE k > 0 /\ IsTerm(c[b][k])
  <2>1. NextInCode(c, hs, p) = FirstStops(c, hs, c[b][k].to)
    BY <1>8 DEF NextInCode, b, k
  <2>2. c[b][k].to \in SUBSET BB
    <3>1. k \in 1..Len(c[b])
      BY <1>7, <1>8
    <3> QED
      BY <1>7, <3>1, CodeGoes
  <2> QED
    BY <1>2, <1>6, <2>1, <2>2
<1>9. CASE ~(k > 0 /\ IsTerm(c[b][k]))
  <2>1. NextInCode(c, hs, p) = StopsAt(c, b, k) \cup FirstStops(c, hs, PassesTo(c, b, k))
    BY <1>9 DEF NextInCode, b, k
  <2>2. PassesTo(c, b, k) \in SUBSET BB
    BY <1>7, CodeGoes
  <2>3. k < Len(c[u]) \/ b # u
    BY <1>3, <1>7, <1>9
  <2>4. e \notin StopsAt(c, b, k)
    BY <1>5, <1>7, <2>3
  <2> QED
    BY <1>2, <1>6, <2>1, <2>2, <2>4
<1> QED
  BY <1>8, <1>9

----------------------------------------------------------------------------
\* The events that come to one block in a step.

EventsFrom(d, u, m) == {<<u, k>> : k \in {j \in (m + 1)..Len(d[u]) : IsEvent(d[u][j])}}

\* All places of es come before x, in one block.
Before(es, x) == x[2] \in Nat /\ \A q \in es : q[2] \in Nat /\ q[2] < x[2]

ComesAfter(from, es, x) ==
    /\ Along(from, es \cup {x}) = Along(from, es) \cup (After(from, es) \X {x})
    /\ After(from, es \cup {x}) = {x}

\* One more event comes after the others.
LEMMA AlongAppend ==
    ASSUME NEW from, NEW es, NEW x, Before(es, x)
    PROVE  ComesAfter(from, es, x)
<1> DEFINE fs == es \cup {x}
<1>1. x[2] \in Nat /\ x \notin es /\ \A q \in es : q[2] \in Nat /\ q[2] <= x[2] /\ ~(x[2] <= q[2])
  BY DEF Before
<1>2. Latest(fs) = {x}
  BY <1>1 DEF Latest
<1>3. After(from, fs) = {x}
  BY <1>2 DEF After
<1>4. \A ys : ys \subseteq es /\ ys # {} => Earliest(ys \cup {x}) = Earliest(ys)
  BY <1>1 DEF Earliest
<1>5. Earliest({x}) = {x} /\ Earliest({}) = {}
  BY <1>1 DEF Earliest
<1>6. from \X Earliest(fs) = (from \X Earliest(es)) \cup (IF es = {} THEN from \X {x} ELSE {})
  <2>1. CASE es = {}
    <3>1. fs = {x}
      BY <2>1
    <3> HIDE DEF fs
    <3> QED
      BY <1>5, <2>1, <3>1
  <2>2. CASE es # {}
    BY <1>4, <2>2
  <2> QED
    BY <2>1, <2>2
<1> DEFINE Next1(gs) == {d \in gs \X gs : d[2] \in Earliest({q \in gs : d[1][2] < q[2]})}
<1>7. Next1(fs) = Next1(es) \cup (Latest(es) \X {x})
  <2>1. ASSUME NEW y \in es, NEW z \in es
        PROVE  z \in Earliest({q \in fs : y[2] < q[2]}) <=> z \in Earliest({q \in es : y[2] < q[2]})
    <3> DEFINE ys == {q \in es : y[2] < q[2]}
    <3>1. {q \in fs : y[2] < q[2]} = ys \cup {x}
      BY <1>1, <2>1 DEF Before
    <3>2. CASE ys # {}
      BY <1>4, <3>1, <3>2
    <3>3. CASE ys = {}
      BY <1>1, <1>5, <3>1, <3>3
    <3> QED
      BY <3>2, <3>3
  <2>2. ASSUME NEW y \in es
        PROVE  x \in Earliest({q \in fs : y[2] < q[2]}) <=> y \in Latest(es)
    <3> DEFINE ys == {q \in es : y[2] < q[2]}
    <3>1. {q \in fs : y[2] < q[2]} = ys \cup {x}
      BY <1>1, <2>2 DEF Before
    <3>2. x \in Earliest(ys \cup {x}) <=> ys = {}
      BY <1>1 DEF Earliest
    <3>3. ys = {} <=> y \in Latest(es)
      BY <1>1 DEF Latest
    <3> QED
      BY <3>1, <3>2, <3>3
  <2>3. ASSUME NEW z \in fs
        PROVE  z \notin Earliest({q \in fs : x[2] < q[2]})
    <3>1. {q \in fs : x[2] < q[2]} = {}
      BY <1>1
    <3> QED
      BY <1>5, <3>1
  <2>4. ASSUME NEW y \in fs, NEW z \in fs
        PROVE  <<y, z>> \in Next1(fs) <=> <<y, z>> \in Next1(es) \/ (y \in Latest(es) /\ z = x)
    <3>1. /\ <<y, z>> \in Next1(fs) <=> z \in Earliest({q \in fs : y[2] < q[2]})
          /\ <<y, z>> \in Next1(es) <=> y \in es /\ z \in es /\ z \in Earliest({q \in es : y[2] < q[2]})
      OBVIOUS
    <3>2. \A w \in Latest(es) : w \in es
      BY DEF Latest
    <3> HIDE DEF Next1
    <3>3. CASE y \in es /\ z \in es
      BY <1>1, <2>1, <3>1, <3>3
    <3>4. CASE y \in es /\ z = x
      BY <1>1, <2>2, <3>1, <3>4
    <3>5. CASE y = x
      BY <1>1, <2>3, <3>1, <3>2, <3>5
    <3> QED
      BY <3>3, <3>4, <3>5
  <2>5. Latest(es) \subseteq es
    BY DEF Latest
  <2>6. Next1(fs) \subseteq fs \X fs /\ Next1(es) \subseteq fs \X fs
        /\ Latest(es) \X {x} \subseteq fs \X fs
    BY <2>5
  <2> HIDE DEF Next1, fs
  <2> QED
    BY <2>4, <2>6
<1>8. Along(from, fs) = (from \X Earliest(fs)) \cup Next1(fs)
      /\ Along(from, es) = (from \X Earliest(es)) \cup Next1(es)
  BY DEF Along
<1>9. After(from, es) \X {x} = (Latest(es) \X {x}) \cup (IF es = {} THEN from \X {x} ELSE {})
  <2>1. Latest({}) = {}
    BY DEF Latest
  <2> QED
    BY <2>1 DEF After
<1> HIDE DEF Next1, fs
<1> QED
  BY <1>3, <1>6, <1>7, <1>8, <1>9 DEF fs, ComesAfter

\* Without events nothing happens.
LEMMA AlongNothing ==
    ASSUME NEW from
    PROVE  Along(from, {}) = {} /\ After(from, {}) = from
<1>1. Earliest({}) = {}
  BY DEF Earliest
<1> QED
  BY <1>1 DEF Along, After

\* Control has gone from A through the events that are in block u behind
\* index m, and is at the end of u.
Flows(d, u, m, hs, F, A, R, P) ==
    Fits(d, hs, F \cup Along(A, EventsFrom(d, u, m)), Wait(After(A, EventsFrom(d, u, m)), u, R),
         P \cup EventsFrom(d, u, m))

EventAdded(c, u, i, m) ==
    /\ EventsFrom(AppendTo(c, u, i), u, m) =
          EventsFrom(c, u, m) \cup (IF IsEvent(i) THEN {End(c, u)} ELSE {})
    /\ Before(EventsFrom(c, u, m), End(c, u))
    /\ m \in 0..Len(AppendTo(c, u, i)[u])

\* One more instruction.
LEMMA EventsAppend ==
    ASSUME NEW c \in Code, NEW u \in BB, NEW i \in Instr, NEW m \in 0..Len(c[u])
    PROVE  EventAdded(c, u, i, m)
<1> DEFINE d == AppendTo(c, u, i)
           n == Len(c[u])
<1>1. /\ Len(d[u]) = n + 1 /\ d[u][n + 1] = i /\ n \in Nat
      /\ \A k \in 1..n : d[u][k] = c[u][k]
  BY Appends1 DEF Code
<1>2. End(c, u) = <<u, n + 1>>
  BY DEF End
<1> HIDE DEF d, n
<1>3. \A j : j \in (m + 1)..(n + 1) <=> j \in (m + 1)..n \/ j = n + 1
  BY <1>1 DEF n
<1>4. \A j \in (m + 1)..n : d[u][j] = c[u][j]
  BY <1>1
<1>5. EventsFrom(c, u, m) = {<<u, k>> : k \in {j \in (m + 1)..n : IsEvent(c[u][j])}}
  BY DEF EventsFrom, n
<1>6. {j \in (m + 1)..(n + 1) : IsEvent(d[u][j])} =
         {j \in (m + 1)..n : IsEvent(c[u][j])} \cup (IF IsEvent(i) THEN {n + 1} ELSE {})
  BY <1>1, <1>3, <1>4
<1>7. EventsFrom(d, u, m) = EventsFrom(c, u, m) \cup (IF IsEvent(i) THEN {<<u, n + 1>>} ELSE {})
  BY <1>1, <1>5, <1>6 DEF EventsFrom
<1>8. Before(EventsFrom(c, u, m), End(c, u))
  BY <1>1, <1>2, <1>5 DEF Before
<1>9. m \in 0..Len(d[u])
  BY <1>1 DEF n
<1> QED
  BY <1>2, <1>7, <1>8, <1>9 DEF d, EventAdded

\* Before anything has been added.
LEMMA FlowsStart ==
    ASSUME NEW c \in Code, NEW hs, NEW F, NEW P, NEW u \in BB, NEW A, NEW R,
           Fits(c, hs, F, Wait(A, u, R), P)
    PROVE  Flows(c, u, Len(c[u]), hs, F, A, R, P)
<1>1. (Len(c[u]) + 1)..Len(c[u]) = {}
  BY DEF Code
<1>2. EventsFrom(c, u, Len(c[u])) = {}
  BY <1>1 DEF EventsFrom
<1> QED
  BY <1>2, AlongNothing DEF Flows

\* What does not stop control adds nothing to it.
LEMMA FlowsSilent ==
    ASSUME NEW c \in Code, NEW hs, NEW F, NEW P, NEW u \in BB, NEW m \in 0..Len(c[u]),
           NEW A, NEW R, Flows(c, u, m, hs, F, A, R, P),
           NEW v \in BB, NEW i \in Instr, ~Halts(i)
    PROVE  /\ Flows(AppendTo(c, v, i), u, m, hs, F, A, R, P)
           /\ m \in 0..Len(AppendTo(c, v, i)[u])
<1> DEFINE d == AppendTo(c, v, i)
           N == EventsFrom(c, u, m)
<1>1. EventsFrom(d, u, m) = N /\ m \in 0..Len(d[u])
  <2>1. CASE u = v
    <3>1. ~IsEvent(i)
      BY DEF Halts
    <3>2. EventAdded(c, u, i, m)
      BY EventsAppend
    <3>3. EventsFrom(AppendTo(c, u, i), u, m) = N /\ m \in 0..Len(AppendTo(c, u, i)[u])
      BY <3>1, <3>2 DEF EventAdded
    <3> QED
      BY <2>1, <3>3
  <2>2. CASE u # v
    <3>1. d[u] = c[u]
      BY <2>2, Appends1
    <3> QED
      BY <3>1 DEF EventsFrom
  <2> QED
    BY <2>1, <2>2
<1>2. Fits(c, hs, F \cup Along(A, N), Wait(After(A, N), u, R), P \cup N)
  BY DEF Flows
<1>3. Fits(d, hs, F \cup Along(A, N), Wait(After(A, N), u, R), P \cup N)
  BY <1>2, FitsSilent
<1> HIDE DEF d, N
<1> QED
  BY <1>1, <1>3 DEF Flows, d

\* An event is added to those that control has gone through.
LEMMA FlowsStep ==
    ASSUME NEW c \in Code, NEW hs, NEW F, NEW P, NEW u \in BB, NEW m \in 0..Len(c[u]),
           NEW A, NEW R, Flows(c, u, m, hs, F, A, R, P), Elsewhere(R, u),
           NEW i \in Instr, IsEvent(i), ~IsTerm(i)
    PROVE  /\ Flows(AppendTo(c, u, i), u, m, hs, F, A, R, P)
           /\ m \in 0..Len(AppendTo(c, u, i)[u])
<1> DEFINE d == AppendTo(c, u, i)
           N == EventsFrom(c, u, m)
           x == End(c, u)
           B == After(A, N)
           E == F \cup Along(A, N)
<1>1. EventsFrom(d, u, m) = N \cup {x} /\ m \in 0..Len(d[u]) /\ Before(N, x)
  <2>1. EventAdded(c, u, i, m)
    BY EventsAppend
  <2> QED
    BY <2>1 DEF EventAdded
<1>2. Fits(c, hs, E, Wait(B, u, R), P \cup N)
  BY DEF Flows
<1>3. Along(A, N \cup {x}) = Along(A, N) \cup (B \X {x}) /\ After(A, N \cup {x}) = {x}
  <2>1. ComesAfter(A, N, x)
    BY <1>1, AlongAppend
  <2> QED
    BY <2>1 DEF ComesAfter
<1>4. Wait(B, x, E) = F \cup Along(A, N \cup {x})
  BY <1>3 DEF Wait
<1> HIDE DEF E, B, N
<1>5. Fits(d, hs, Wait(B, x, E), Wait({x}, u, R), (P \cup N) \cup {x})
  BY <1>2, FitsStep
<1>6. (P \cup N) \cup {x} = P \cup (N \cup {x})
  OBVIOUS
<1> HIDE DEF d, x
<1> QED
  BY <1>1, <1>3, <1>4, <1>5, <1>6 DEF Flows, d

\* Other blocks that have no code.
Unused(c, hs, u, T) == \A x \in T : x # u /\ x \in BB /\ c[x] = <<>> /\ <<x, 0>> \notin hs

\* Control has gone through N to the terminator x, and waits at the blocks T.
Departs(d, hs, F, A, R, P, N, x, T) ==
    Fits(d, hs, F \cup Along(A, N), Each(x, T, R), P \cup N) /\ After(A, N) = {x}

\* A return or a branch on a condition comes last.
LEMMA FlowsLeave ==
    ASSUME NEW c \in Code, NEW hs, NEW F, NEW P, NEW u \in BB, NEW m \in 0..Len(c[u]),
           NEW A, NEW R, Flows(c, u, m, hs, F, A, R, P), Elsewhere(R, u),
           NEW i \in Instr, IsTerm(i), ~IsBranch(i), Unused(c, hs, u, i.to),
           NEW d, d = AppendTo(c, u, i)
    PROVE  Departs(d, hs, F, A, R, P, EventsFrom(d, u, m), End(c, u), i.to)
<1> DEFINE N == EventsFrom(c, u, m)
           x == End(c, u)
           B == After(A, N)
           E == F \cup Along(A, N)
<1>1. EventsFrom(d, u, m) = N \cup {x} /\ Before(N, x)
  <2>1. EventAdded(c, u, i, m)
    BY EventsAppend
  <2>2. IsEvent(i)
    BY DEF IsEvent
  <2> QED
    BY <2>1, <2>2 DEF EventAdded
<1>2. Fits(c, hs, E, Wait(B, u, R), P \cup N)
  BY DEF Flows
<1>3. Along(A, N \cup {x}) = Along(A, N) \cup (B \X {x}) /\ After(A, N \cup {x}) = {x}
  <2>1. ComesAfter(A, N, x)
    BY <1>1, AlongAppend
  <2> QED
    BY <2>1 DEF ComesAfter
<1>4. Wait(B, x, E) = F \cup Along(A, N \cup {x})
  BY <1>3 DEF Wait
<1> HIDE DEF E, B, N
<1>5. Fits(d, hs, Wait(B, x, E), Each(x, i.to, R), (P \cup N) \cup {x})
  <2>1. \A t \in i.to : t # u /\ c[t] = <<>> /\ <<t, 0>> \notin hs
    BY DEF Unused
  <2> QED
    BY <1>2, <2>1, FitsLeave
<1>6. (P \cup N) \cup {x} = P \cup (N \cup {x})
  OBVIOUS
<1> HIDE DEF x
<1> QED
  BY <1>1, <1>3, <1>4, <1>5, <1>6 DEF x, Departs

\* A branch adds no event.
LEMMA EventsBranch ==
    ASSUME NEW c \in Code, NEW u \in BB, NEW t \in BB, NEW m \in 0..Len(c[u])
    PROVE  EventsFrom(AppendTo(c, u, Br(t)), u, m) = EventsFrom(c, u, m)
<1>1. Br(t) \in Instr /\ ~IsEvent(Br(t))
  BY InstrType DEF IsEvent, IsBranch, IsTerm, Br
<1>2. EventAdded(c, u, Br(t), m)
  BY <1>1, EventsAppend
<1> QED
  BY <1>1, <1>2 DEF EventAdded

\* The code added to u ends in a branch to an empty block.
LEMMA FlowsBranch ==
    ASSUME NEW c \in Code, NEW hs, NEW F, NEW P, NEW u \in BB, NEW m \in 0..Len(c[u]),
           NEW A, NEW R, Flows(c, u, m, hs, F, A, R, P), Elsewhere(R, u),
           NEW t \in BB, t # u, c[t] = <<>>, <<t, 0>> \notin hs,
           NEW d, d = AppendTo(c, u, Br(t)), NEW N, N = EventsFrom(d, u, m)
    PROVE  Fits(d, hs, F \cup Along(A, N), Wait(After(A, N), t, R), P \cup N)
<1>1. N = EventsFrom(c, u, m)
  BY EventsBranch
<1> DEFINE E == F \cup Along(A, N)
           B == After(A, N)
           Q == P \cup N
<1>2. Fits(c, hs, E, Wait(B, u, R), Q)
  BY <1>1 DEF Flows
<1> HIDE DEF E, B, Q
<1>3. Fits(AppendTo(c, u, Br(t)), hs, E, Wait(B, t, R), Q)
  BY <1>2, FitsBranch
<1> QED
  BY <1>3 DEF E, B, Q

\* The code added to u ends in a branch to a head.
LEMMA FlowsLoop ==
    ASSUME NEW c \in Code, NEW hs, NEW F, NEW P, NEW u \in BB, NEW m \in 0..Len(c[u]),
           NEW A, NEW R, Flows(c, u, m, hs, F, A, R, P), Elsewhere(R, u),
           NEW t \in BB, t # u, <<t, 0>> \in hs, <<t, 0>> \in P,
           NEW d, d = AppendTo(c, u, Br(t)), NEW N, N = EventsFrom(d, u, m)
    PROVE  Fits(d, hs, F \cup Along(A, N) \cup (After(A, N) \X {<<t, 0>>}), R, P \cup N)
<1>1. N = EventsFrom(c, u, m)
  BY EventsBranch
<1> DEFINE E == F \cup Along(A, N)
           B == After(A, N)
           Q == P \cup N
<1>2. Fits(c, hs, E, Wait(B, u, R), Q) /\ <<t, 0>> \in Q
  BY <1>1 DEF Flows
<1>3. F \cup Along(A, N) \cup (After(A, N) \X {<<t, 0>>}) = Wait(B, <<t, 0>>, E)
  BY DEF Wait
<1> HIDE DEF E, B, Q
<1>4. Fits(AppendTo(c, u, Br(t)), hs, Wait(B, <<t, 0>>, E), R, Q)
  BY <1>2, FitsLoop
<1> QED
  BY <1>3, <1>4 DEF Q

----------------------------------------------------------------------------
\* Emit as a sequence of such steps.

\* Emit with one instruction, with none, and with one more.
LEMMA EmitOne ==
    ASSUME NEW c \in Code, NEW u \in BB, NEW i \in Instr
    PROVE  Emit(c, u, <<i>>) = AppendTo(c, u, i)
<1>1. u # NoBB
  BY DEF BB, NoBB
<1>2. c[u] \in Seq(Instr)
  BY DEF Code
<1>3. c[u] \o <<i>> = Append(c[u], i)
  BY <1>2, AppendIsConcat
<1>4. Emit(c, u, <<i>>) = [c EXCEPT ![u] = c[u] \o <<i>>]
  BY <1>1 DEF Emit
<1> QED
  BY <1>3, <1>4 DEF AppendTo

LEMMA EmitNothing ==
    ASSUME NEW c \in Code, NEW u \in BB
    PROVE  Emit(c, u, <<>>) = c
<1>1. c[u] \o <<>> = c[u]
  BY ConcatEmptySeq DEF Code
<1>2. [c EXCEPT ![u] = c[u] \o <<>>] = c
  BY <1>1 DEF Code
<1> QED
  BY <1>2 DEF Emit

LEMMA AssociativeCode ==
    ASSUME NEW x \in Seq(Instr), NEW y \in Seq(Instr), NEW z \in Seq(Instr)
    PROVE  (x \o y) \o z = x \o (y \o z)
BY ConcatAssociative

LEMMA EmitAppend ==
    ASSUME NEW c \in Code, NEW u \in BB, NEW s \in Seq(Instr), NEW i \in Instr
    PROVE  Emit(c, u, Append(s, i)) = AppendTo(Emit(c, u, s), u, i)
<1>1. u # NoBB
  BY DEF BB, NoBB
<1>2. c[u] \in Seq(Instr) /\ <<i>> \in Seq(Instr)
  BY DEF Code
<1>3. c[u] \o s \in Seq(Instr)
  BY <1>2
<1>4. c[u] \o Append(s, i) = Append(c[u] \o s, i)
  <2>1. Append(s, i) = s \o <<i>> /\ Append(c[u] \o s, i) = (c[u] \o s) \o <<i>>
    BY <1>2, <1>3, AppendIsConcat
  <2>2. (c[u] \o s) \o <<i>> = c[u] \o (s \o <<i>>)
    BY <1>2, AssociativeCode
  <2> QED
    BY <2>1, <2>2
<1> DEFINE d == [c EXCEPT ![u] = c[u] \o s]
<1>5. Emit(c, u, s) = d
  BY <1>1 DEF Emit
<1>6. d[u] = c[u] \o s
  BY DEF Code
<1>7. [d EXCEPT ![u] = Append(d[u], i)] = [c EXCEPT ![u] = Append(c[u] \o s, i)]
  BY <1>6 DEF Code
<1>8. Emit(c, u, Append(s, i)) = [c EXCEPT ![u] = Append(c[u] \o s, i)]
  BY <1>1, <1>4 DEF Emit
<1> HIDE DEF d
<1> QED
  BY <1>5, <1>7, <1>8 DEF AppendTo

\* The code of an expression is empty or one event.
LEMMA ExprCodeOne ==
    ASSUME NEW bl \in Seq(Scope), NEW e, ~Throws(bl, e)
    PROVE  \/ ExprCode(bl, e) = <<>>
           \/ \E i \in Instr : ExprCode(bl, e) = <<i>> /\ IsEvent(i) /\ ~IsTerm(i)
<1>1. CASE e \in Vars
  <2>1. Access(GetVar(bl, e)) \in Instr
    BY <1>1, GetVarType, InstrType DEF Throws
  <2>2. IsEvent(Access(GetVar(bl, e))) /\ ~IsTerm(Access(GetVar(bl, e)))
    BY DEF Access, IsEvent, IsTerm
  <2> QED
    BY <1>1, <2>1, <2>2 DEF ExprCode
<1>2. CASE e \notin Vars /\ e \in FuncNames
  <2>1. Call \in Instr /\ IsEvent(Call) /\ ~IsTerm(Call)
    BY InstrType DEF Call, IsEvent, IsTerm
  <2> QED
    BY <1>2, <2>1 DEF ExprCode
<1>3. CASE e \notin Vars /\ e \notin FuncNames
  BY <1>3 DEF ExprCode
<1> QED
  BY <1>1, <1>2, <1>3

\* From c to d, what is added to block u is what control goes through.
GoesThrough(c, d, u, m, hs, F, A, R, P) ==
    /\ d \in Code /\ Flows(d, u, m, hs, F, A, R, P) /\ m \in 0..Len(d[u])
    /\ \A b \in BB \ {u} : d[b] = c[b]

\* Control goes through the code of an expression.
LEMMA FlowsExpr ==
    ASSUME NEW c \in Code, NEW hs, NEW F, NEW P, NEW u \in BB, NEW m \in 0..Len(c[u]),
           NEW A, NEW R, Flows(c, u, m, hs, F, A, R, P), Elsewhere(R, u),
           NEW bl \in Seq(Scope), NEW e, ~Throws(bl, e),
           NEW d, d = Emit(c, u, ExprCode(bl, e))
    PROVE  GoesThrough(c, d, u, m, hs, F, A, R, P)
<1>1. CASE ExprCode(bl, e) = <<>>
  <2>1. d = c
    BY <1>1, EmitNothing
  <2> QED
    BY <2>1 DEF GoesThrough
<1>2. CASE \E i \in Instr : ExprCode(bl, e) = <<i>> /\ IsEvent(i) /\ ~IsTerm(i)
  <2>1. PICK i \in Instr : ExprCode(bl, e) = <<i>> /\ IsEvent(i) /\ ~IsTerm(i)
    BY <1>2
  <2>2. d = AppendTo(c, u, i)
    BY <2>1, EmitOne
  <2>3. /\ Flows(AppendTo(c, u, i), u, m, hs, F, A, R, P)
        /\ m \in 0..Len(AppendTo(c, u, i)[u])
    BY <2>1, FlowsStep
  <2>4. d \in Code /\ \A b \in BB \ {u} : d[b] = c[b]
    BY <2>2, Appends1
  <2> QED
    BY <2>2, <2>3, <2>4 DEF GoesThrough
<1> QED
  BY <1>1, <1>2, ExprCodeOne

----------------------------------------------------------------------------
\* The invariant.

\* The points of code c whose blocks have owners o, with the heads hs: those
\* of the printing functions and of no function are left out.
Foreign == IOFuncs \cup {NoFunc}

PointsOf(c, o, hs) ==
    hs \cup UNION {EventsFrom(c, b, 0) : b \in {x \in BB : o[x] \notin Foreign}}

\* The points, by the owners of the blocks.
LEMMA PointsAre == Points = PointsOf(instrs, owner, heads)
<1>1. \A b : {j \in 1..Len(instrs[b]) : IsEvent(instrs[b][j])} =
             {j \in (0 + 1)..Len(instrs[b]) : IsEvent(instrs[b][j])}
  OBVIOUS
<1>2. Events = UNION {EventsFrom(instrs, b, 0) : b \in Owned}
  <2>1. \A b : EventsFrom(instrs, b, 0) = {<<b, k>> : k \in {j \in 1..Len(instrs[b]) : IsEvent(instrs[b][j])}}
    BY <1>1 DEF EventsFrom
  <2> QED
    BY <2>1 DEF Events
<1>3. \A b : \A p \in EventsFrom(instrs, b, 0) : p[1] = b
  BY DEF EventsFrom
<1>4. \A p : p \in Points <=> p \in heads \/ \E b \in Owned : p \in EventsFrom(instrs, b, 0) /\ owner[b] \notin IOFuncs
  BY <1>2, <1>3 DEF Points
<1>5. \A b : b \in Owned /\ owner[b] \notin IOFuncs <=> b \in BB /\ owner[b] \notin Foreign
  BY DEF Owned, Foreign
<1>6. \A p : p \in PointsOf(instrs, owner, heads) <=>
             p \in heads \/ \E b \in BB : p \in EventsFrom(instrs, b, 0) /\ owner[b] \notin Foreign
  BY DEF PointsOf
<1> QED
  BY <1>4, <1>5, <1>6

LEMMA PointsAreNext == Points' = PointsOf(instrs', owner', heads')
<1>1. (Points = PointsOf(instrs, owner, heads))'
  BY PointsAre, PTL
<1> QED
  BY <1>1 DEF PointsOf, EventsFrom

\* The events behind index n are among those behind a lower index.
LEMMA EventsSplit ==
    ASSUME NEW c \in Code, NEW d \in Code, Extends(c, d), NEW b \in BB
    PROVE  EventsFrom(d, b, 0) = EventsFrom(c, b, 0) \cup EventsFrom(d, b, Len(c[b]))
<1>1. /\ Len(c[b]) \in Nat /\ Len(d[b]) \in Nat /\ Len(c[b]) <= Len(d[b])
      /\ \A k \in 1..Len(c[b]) : d[b][k] = c[b][k]
  BY DEF Code, Extends
<1>2. \A k : k \in (0 + 1)..Len(d[b]) <=> k \in (0 + 1)..Len(c[b]) \/ k \in (Len(c[b]) + 1)..Len(d[b])
  BY <1>1
<1>3. \A k \in (0 + 1)..Len(c[b]) : d[b][k] = c[b][k]
  BY <1>1
<1>4. {j \in (0 + 1)..Len(d[b]) : IsEvent(d[b][j])} =
         {j \in (0 + 1)..Len(c[b]) : IsEvent(c[b][j])}
         \cup {j \in (Len(c[b]) + 1)..Len(d[b]) : IsEvent(d[b][j])}
  BY <1>2, <1>3
<1> QED
  BY <1>4 DEF EventsFrom

\* A step that adds code to blocks of a function adds points there.
LEMMA PointsGrow ==
    ASSUME NEW c \in Code, NEW d \in Code, Extends(c, d), NEW o, NEW q,
           NEW hs, NEW gs, hs \subseteq gs,
           \A b \in BB : o[b] # NoFunc => q[b] = o[b],
           \A b \in BB : o[b] = NoFunc => c[b] = <<>>,
           \A b \in BB : d[b] # c[b] => q[b] \notin Foreign
    PROVE  PointsOf(d, q, gs) =
              PointsOf(c, o, hs) \cup gs \cup UNION {EventsFrom(d, b, Len(c[b])) : b \in BB}
<1>1. \A b \in BB : EventsFrom(d, b, 0) = EventsFrom(c, b, 0) \cup EventsFrom(d, b, Len(c[b]))
  BY EventsSplit
<1>2. ASSUME NEW b \in BB, EventsFrom(c, b, 0) # {}
      PROVE  q[b] = o[b]
  <2>1. c[b] # <<>>
    BY <1>2 DEF EventsFrom
  <2> QED
    BY <2>1
<1>3. ASSUME NEW b \in BB, EventsFrom(d, b, Len(c[b])) # {}
      PROVE  q[b] \notin Foreign
  <2>1. d[b] # c[b]
    <3>1. (Len(c[b]) + 1)..Len(c[b]) = {}
      BY DEF Code
    <3> QED
      BY <1>3, <3>1 DEF EventsFrom
  <2> QED
    BY <2>1
<1>4. \A p : p \in PointsOf(d, q, gs) <=>
             p \in gs \/ \E b \in BB : p \in EventsFrom(d, b, 0) /\ q[b] \notin Foreign
  BY DEF PointsOf
<1>5. \A p : p \in PointsOf(c, o, hs) <=>
             p \in hs \/ \E b \in BB : p \in EventsFrom(c, b, 0) /\ o[b] \notin Foreign
  BY DEF PointsOf
<1>6. ASSUME NEW b \in BB, NEW p
      PROVE  p \in EventsFrom(d, b, 0) /\ q[b] \notin Foreign <=>
                \/ p \in EventsFrom(c, b, 0) /\ o[b] \notin Foreign
                \/ p \in EventsFrom(d, b, Len(c[b]))
  <2>1. p \in EventsFrom(d, b, 0) <=> p \in EventsFrom(c, b, 0) \/ p \in EventsFrom(d, b, Len(c[b]))
    BY <1>1
  <2>2. p \in EventsFrom(c, b, 0) => q[b] = o[b]
    BY <1>2
  <2>3. p \in EventsFrom(d, b, Len(c[b])) => q[b] \notin Foreign
    BY <1>3
  <2> QED
    BY <2>1, <2>2, <2>3
<1> QED
  BY <1>4, <1>5, <1>6

\* What waits at blocks that are not inserted yet: the points that an else, or
\* what follows an if or a for, goes on from.
PendingOf(h, o) ==
    CASE h.kind = "then" -> o.start \X {h.bb + 1}
      [] h.kind = "else" -> o.exits \X {h.bb + 1}
      [] h.kind = "for"  -> o.exits \X {h.bb + 4}
      [] OTHER -> {}

Pend(fr, ot, k) == UNION {PendingOf(fr[i], ot[i]) : i \in 1..k}

\* All that waits.
Pending == Pend(frames, outer, Len(frames))

\* What is recorded for a handler.
Holds(h, o, hs) ==
    /\ h.kind = "then" => o.exits = {}
    /\ h.kind = "else" => o.start = {}
    /\ h.kind = "for"  => o.start = {<<h.bb + 1, 0>>} /\ <<h.bb + 1, 0>> \in hs

Record == [exits : SUBSET (BB \X Nat), start : SUBSET (BB \X Nat)]

\* One record for each handler.
Recorded ==
    /\ outer \in Seq(Record) /\ Len(outer) = Len(frames)
    /\ \A i \in 1..Len(frames) : Holds(frames[i], outer[i], heads)

\* The code is as the source, as far as it has been generated: control is at
\* the insertion point, and waits at the blocks that are inserted later.
FlowFits == Fits(instrs, heads, flow, Wait(last, insertBB, Pending), Points)

\* Heads are the beginnings of blocks of functions.
HeadsPlaced ==
    \A h \in heads : h \in BB \X {0} /\ owner[h[1]] \notin {NoFunc, GlobalFunc}

\* The temporary function has no code.
NoGlobalCode == \A b \in BB : owner[b] = GlobalFunc => instrs[b] = <<>>

\* Between two functions control is nowhere.
Outside == currentFunc = NoFunc => last = {} /\ ~inDef

\* The printing functions come first, and are not defined again.
PrintersFirst ==
    /\ currentFunc \notin IOFuncs
    /\ status # "io" => IOFuncs \subseteq funcs
    /\ status = "io" =>
          heads = {} /\ currentFunc = NoFunc /\ \A b \in BB : owner[b] \in Foreign

FInv ==
    FlowFits /\ Recorded /\ HeadsPlaced /\ NoGlobalCode /\ Outside /\ PrintersFirst

----------------------------------------------------------------------------
\* What waits.

\* The same handler, as far as it waits for something.
Like(g, h) ==
    (g.kind = h.kind /\ g.bb = h.bb) \/ {g.kind, h.kind} \cap {"then", "else", "for"} = {}

\* A handler of the same kind and block has the same pending.
LEMMA PendingSame ==
    ASSUME NEW h, NEW g, Like(g, h), NEW o
    PROVE  PendingOf(g, o) = PendingOf(h, o)
BY DEF PendingOf, Like

LEMMA HoldsSame ==
    ASSUME NEW h, NEW g, Like(g, h), NEW o, NEW hs, NEW gs, hs \subseteq gs, Holds(h, o, hs)
    PROVE  Holds(g, o, gs)
BY DEF Holds, Like

\* What is pending for a handler waits at a block that it has still to
\* insert.
LEMMA PendingBlock ==
    ASSUME NEW h, NEW o, NEW d \in PendingOf(h, o)
    PROVE  d[2] \in ToInsert(h)
BY DEF PendingOf, ToInsert

\* What is pending for one more handler.
LEMMA PendNext ==
    ASSUME NEW fr, NEW ot, NEW k \in Nat
    PROVE  Pend(fr, ot, k + 1) = Pend(fr, ot, k) \cup PendingOf(fr[k + 1], ot[k + 1])
<1>1. \A i : i \in 1..(k + 1) <=> i \in 1..k \/ i = k + 1
  OBVIOUS
<1> QED
  BY <1>1, Zenon DEF Pend

LEMMA PendSame ==
    ASSUME NEW fr, NEW ot, NEW gr, NEW pt, NEW k \in Nat,
           \A i \in 1..k : PendingOf(gr[i], pt[i]) = PendingOf(fr[i], ot[i])
    PROVE  Pend(gr, pt, k) = Pend(fr, ot, k)
BY Zenon DEF Pend

\* What is pending waits at blocks that the handlers have still to insert.
LEMMA PendBlocks ==
    ASSUME NEW fr, NEW ot, NEW k \in Nat, NEW d \in Pend(fr, ot, k)
    PROVE  d[2] \in Below(fr, k)
<1>1. PICK i \in 1..k : d \in PendingOf(fr[i], ot[i])
  BY Zenon DEF Pend
<1>2. d[2] \in ToInsert(fr[i])
  BY <1>1, PendingBlock
<1> QED
  BY <1>2, Zenon DEF Below

\* Nothing waits at a block of a function, or at one that is new.
LEMMA PendAway ==
    ASSUME IInv, BInv, NEW ot, NEW k \in 0..Len(frames), NEW u \in BB,
           owner[u] # NoFunc \/ u > nbb
    PROVE  Elsewhere(Pend(frames, ot, k), u)
<1>1. k \in Nat /\ Len(frames) \in Nat /\ k <= Len(frames) /\ nbb \in Nat
  BY DEF IInv, TypeOK
<1>2. Below(frames, k) \subseteq Waiting(frames, 0)
  BY <1>1, WaitingSplit
<1>3. u \notin Waiting(frames, 0)
  <2>1. u \in Waiting(frames, 0) => u <= nbb /\ owner[u] = NoFunc
    BY DEF BInv, PendingBlocks
  <2> QED
    BY <1>1, <2>1 DEF BB
<1> QED
  BY <1>1, <1>2, <1>3, PendBlocks DEF Elsewhere

\* What the outer handlers wait for is not at a block of an inner one.
LEMMA PendApart ==
    ASSUME IInv, BInv, NEW ot, NEW k \in 0..Len(frames), NEW i \in (k + 1)..Len(frames),
           NEW u \in ToInsert(frames[i])
    PROVE  Elsewhere(Pend(frames, ot, k), u)
<1>1. k \in Nat /\ Len(frames) \in Nat /\ k <= Len(frames)
  BY DEF IInv, TypeOK
<1>2. Below(frames, k) \cap Waiting(frames, k) = {}
  BY <1>1, WaitingSplit DEF BInv, PendingBlocks
<1>3. u \in Waiting(frames, k)
  BY Zenon DEF Waiting
<1> QED
  BY <1>1, <1>2, <1>3, PendBlocks DEF Elsewhere

----------------------------------------------------------------------------
\* Steps that add code to a function.

\* Code is added to the blocks of S, blocks are inserted into function f.
Grows(S, f) ==
    /\ status = "running" /\ status' = "running"
    /\ f \in FuncNames \ IOFuncs /\ funcs \subseteq funcs'
    /\ instrs' \in Code /\ Extends(instrs, instrs')
    /\ \A b \in BB : b \notin S => instrs'[b] = instrs[b]
    /\ \A b \in BB : owner'[b] = owner[b] \/ (owner[b] = NoFunc /\ owner'[b] = f)
    /\ \A b \in BB : b \in S => owner'[b] = f

\* New heads are blocks of the function.
HeadsGrow(f) ==
    /\ heads \subseteq heads'
    /\ \A h \in heads' : h \in heads \/ (h \in BB \X {0} /\ owner'[h[1]] = f)

\* The types that the lemmas below need.
LEMMA CodeType ==
    ASSUME IInv
    PROVE  /\ instrs \in Code /\ owner \in Owners /\ frames \in Seq(FrameRec)
           /\ Len(frames) \in Nat /\ nbb \in 0..MaxBB
           /\ \A b \in BB : Len(instrs[b]) \in Nat
<1>1. instrs \in [BB -> Seq(Instr)] /\ owner \in Owners /\ frames \in Seq(FrameRec) /\ nbb \in 0..MaxBB
  BY DEF IInv, TypeOK, Owners
<1> QED
  BY <1>1 DEF Code

\* The points of a step are the new heads and the new events.
LEMMA GrowsPoints ==
    ASSUME IInv, BInv, NEW S, NEW f, Grows(S, f), HeadsGrow(f)
    PROVE  Points' = Points \cup heads' \cup
                     UNION {EventsFrom(instrs', b, Len(instrs[b])) : b \in BB \cap S}
<1>1. instrs \in Code /\ instrs' \in Code /\ Extends(instrs, instrs') /\ heads \subseteq heads'
  BY CodeType DEF Grows, HeadsGrow
<1>2. f \notin Foreign
  BY FuncAssumption DEF Grows, Foreign
<1>3. \A b \in BB : owner[b] # NoFunc => owner'[b] = owner[b]
  BY DEF Grows
<1>4. \A b \in BB : owner[b] = NoFunc => instrs[b] = <<>>
  BY DEF BInv, FreshBlocks
<1>5. \A b \in BB : instrs'[b] # instrs[b] => owner'[b] \notin Foreign
  BY <1>2 DEF Grows
<1>6. PointsOf(instrs', owner', heads') =
         PointsOf(instrs, owner, heads) \cup heads'
         \cup UNION {EventsFrom(instrs', b, Len(instrs[b])) : b \in BB}
  BY <1>1, <1>3, <1>4, <1>5, PointsGrow
<1>7. ASSUME NEW b \in BB, b \notin S
      PROVE  EventsFrom(instrs', b, Len(instrs[b])) = {}
  <2>1. instrs'[b] = instrs[b]
    BY <1>7 DEF Grows
  <2>2. (Len(instrs[b]) + 1)..Len(instrs[b]) = {}
    BY <1>1 DEF Code
  <2> QED
    BY <2>1, <2>2 DEF EventsFrom
<1>8. UNION {EventsFrom(instrs', b, Len(instrs[b])) : b \in BB} =
         UNION {EventsFrom(instrs', b, Len(instrs[b])) : b \in BB \cap S}
  BY <1>7
<1> QED
  BY <1>6, <1>8, PointsAre, PointsAreNext

\* Code is added to one block.
LEMMA PointsOne ==
    ASSUME IInv, BInv, NEW u \in BB, NEW f, Grows({u}, f), heads' = heads
    PROVE  Points' = Points \cup EventsFrom(instrs', u, Len(instrs[u]))
<1>1. HeadsGrow(f)
  BY DEF HeadsGrow
<1>2. UNION {EventsFrom(instrs', b, Len(instrs[b])) : b \in BB \cap {u}} =
         EventsFrom(instrs', u, Len(instrs[u]))
  <2>1. BB \cap {u} = {u}
    OBVIOUS
  <2> QED
    BY <2>1
<1>3. heads \subseteq Points
  BY DEF Points
<1> QED
  BY <1>1, <1>2, <1>3, GrowsPoints

\* Code is added to two blocks.
LEMMA PointsTwo ==
    ASSUME IInv, BInv, NEW u \in BB, NEW v \in BB, NEW f, Grows({u, v}, f), HeadsGrow(f)
    PROVE  Points' = Points \cup heads' \cup EventsFrom(instrs', u, Len(instrs[u]))
                            \cup EventsFrom(instrs', v, Len(instrs[v]))
<1>1. UNION {EventsFrom(instrs', b, Len(instrs[b])) : b \in BB \cap {u, v}} =
         EventsFrom(instrs', u, Len(instrs[u])) \cup EventsFrom(instrs', v, Len(instrs[v]))
  <2>1. BB \cap {u, v} = {u, v}
    OBVIOUS
  <2> QED
    BY <2>1
<1> QED
  BY <1>1, GrowsPoints

\* The rest of the invariant holds when code is added to a function.
LEMMA GrowsKeeps ==
    ASSUME FInv, NEW S, NEW f, Grows(S, f), HeadsGrow(f),
           currentFunc' \in {f, NoFunc}, Outside', FlowFits', Recorded'
    PROVE  FInv'
<1>1. f # NoFunc /\ f # GlobalFunc /\ f \notin IOFuncs /\ NoFunc \notin IOFuncs
  BY FuncAssumption DEF Grows
<1>2. HeadsPlaced'
  <2> SUFFICES ASSUME NEW h \in heads'
               PROVE  h \in BB \X {0} /\ owner'[h[1]] \notin {NoFunc, GlobalFunc}
    BY DEF HeadsPlaced
  <2>1. CASE h \in heads
    BY <2>1 DEF FInv, HeadsPlaced, Grows
  <2>2. CASE h \in BB \X {0} /\ owner'[h[1]] = f
    BY <1>1, <2>2
  <2> QED
    BY <2>1, <2>2 DEF HeadsGrow
<1>3. NoGlobalCode'
  <2> SUFFICES ASSUME NEW b \in BB, owner'[b] = GlobalFunc
               PROVE  instrs'[b] = <<>>
    BY DEF NoGlobalCode
  <2>1. owner[b] = GlobalFunc /\ b \notin S
    BY <1>1 DEF Grows
  <2> QED
    BY <2>1 DEF FInv, NoGlobalCode, Grows
<1>4. PrintersFirst'
  BY <1>1 DEF FInv, PrintersFirst, Grows
<1> QED
  BY <1>2, <1>3, <1>4 DEF FInv

\* A step of the function that is being generated.
Inside ==
    /\ status = "running" /\ status' = "running" /\ currentFunc # NoFunc
    /\ funcs' = funcs
    /\ \A b \in BB : owner'[b] = owner[b] \/ (owner[b] = NoFunc /\ owner'[b] = currentFunc)

\* The current handler emits to one block, or to one block after another.
LEMMA GrowsOnce ==
    ASSUME IInv, FInv, Inside, NEW u \in BB, owner'[u] = currentFunc,
           NEW s \in Seq(Instr), instrs' = Emit(instrs, u, s)
    PROVE  Grows({u}, currentFunc)
<1>1. currentFunc \in FuncNames \ IOFuncs
  BY DEF IInv, TypeOK, FInv, PrintersFirst, Inside
<1>2. instrs \in [BB -> Seq(Instr)]
  BY DEF IInv, TypeOK
<1>3. /\ instrs' \in [BB -> Seq(Instr)] /\ Extends(instrs, instrs')
      /\ \A x \in BB : x # u => instrs'[x] = instrs[x]
  BY <1>2, EmitAdds
<1> QED
  BY <1>1, <1>3 DEF Grows, Inside, Code

LEMMA GrowsTwice ==
    ASSUME IInv, FInv, Inside, NEW u \in BB, owner'[u] = currentFunc,
           NEW v \in BB, owner'[v] = currentFunc,
           NEW s \in Seq(Instr), NEW t \in Seq(Instr),
           instrs' = Emit(Emit(instrs, u, s), v, t)
    PROVE  Grows({u, v}, currentFunc)
<1>1. currentFunc \in FuncNames \ IOFuncs
  BY DEF IInv, TypeOK, FInv, PrintersFirst, Inside
<1>2. instrs \in [BB -> Seq(Instr)]
  BY DEF IInv, TypeOK
<1>3. /\ instrs' \in [BB -> Seq(Instr)] /\ Extends(instrs, instrs')
      /\ SameBut(instrs, instrs', {u, v})
  BY <1>2, EmitTwiceAdds
<1> QED
  BY <1>1, <1>3 DEF Grows, Inside, Code, SameBut

\* No block is inserted.
LEMMA InsideSame ==
    ASSUME status = "running", status' = "running", currentFunc # NoFunc, funcs' = funcs,
           owner' = owner
    PROVE  Inside /\ \A b \in BB : owner[b] = currentFunc => owner'[b] = currentFunc
BY DEF Inside

\* Control starts at the insertion point; nothing else waits there.
Starts(R) ==
    /\ Flows(instrs, insertBB, Len(instrs[insertBB]), heads, flow, last, R, Points)
    /\ Elsewhere(R, insertBB) /\ Len(instrs[insertBB]) \in 0..Len(instrs[insertBB])

\* Where a statement begins, control is at the insertion point.
LEMMA InsideStarts ==
    ASSUME IInv, BInv, FInv, currentFunc # NoFunc,
           NEW R, R = Pending
    PROVE  Starts(R)
<1>1. insertBB \in BB /\ owner[insertBB] # NoFunc
  BY DEF IInv, TypeOK, InCurrentFunc, NoBB
<1>2. instrs \in Code /\ Len(frames) \in 0..Len(frames)
  BY CodeType
<1>3. Fits(instrs, heads, flow, Wait(last, insertBB, R), Points)
  BY DEF FInv, FlowFits
<1>4. Flows(instrs, insertBB, Len(instrs[insertBB]), heads, flow, last, R, Points)
  BY <1>1, <1>2, <1>3, FlowsStart
<1>5. Elsewhere(R, insertBB)
  BY <1>1, <1>2, PendAway DEF Pending
<1>6. Len(instrs[insertBB]) \in 0..Len(instrs[insertBB])
  BY <1>1, <1>2 DEF Code
<1> QED
  BY <1>4, <1>5, <1>6 DEF Starts

----------------------------------------------------------------------------
\* The records, while handlers come and go.

\* The lower k handlers stay, with what they have recorded.
LEMMA RecordedStep ==
    ASSUME Recorded, heads \subseteq heads', Len(frames) \in Nat, Len(frames') \in Nat,
           outer' \in Seq(Record), Len(outer') = Len(frames'),
           NEW k \in Nat, k <= Len(frames), k <= Len(frames'),
           \A i \in 1..k : Like(frames'[i], frames[i]) /\ outer'[i] = outer[i],
           \A i \in (k + 1)..Len(frames') : Holds(frames'[i], outer'[i], heads')
    PROVE  Recorded' /\ Pend(frames', outer', k) = Pend(frames, outer, k)
<1>1. \A i \in 1..k : PendingOf(frames'[i], outer'[i]) = PendingOf(frames[i], outer[i])
  BY PendingSame
<1>2. Pend(frames', outer', k) = Pend(frames, outer, k)
  BY <1>1, PendSame
<1>3. ASSUME NEW i \in 1..Len(frames')
      PROVE  Holds(frames'[i], outer'[i], heads')
  <2>1. CASE i \in 1..k
    <3>1. Holds(frames[i], outer[i], heads)
      <4>1. i \in 1..Len(frames)
        BY <2>1
      <4> QED
        BY <4>1 DEF Recorded
    <3>2. Like(frames'[i], frames[i]) /\ outer'[i] = outer[i]
      BY <2>1
    <3>3. Holds(frames'[i], outer[i], heads')
      BY <3>1, <3>2, HoldsSame
    <3> QED
      BY <3>2, <3>3
  <2>2. CASE i \in (k + 1)..Len(frames')
    BY <2>2
  <2> QED
    BY <2>1, <2>2
<1> QED
  BY <1>2, <1>3 DEF Recorded

\* The same handlers go on.
LEMMA SameKept ==
    ASSUME IInv, FInv, heads \subseteq heads', outer' = outer, Len(frames') = Len(frames),
           \A i \in 1..Len(frames) : Like(frames'[i], frames[i])
    PROVE  Recorded' /\ Pending' = Pending
<1>1. Len(frames) \in Nat /\ Recorded
  BY CodeType DEF FInv
<1>2. outer \in Seq(Record) /\ Len(outer) = Len(frames)
  BY <1>1 DEF Recorded
<1>3. (Len(frames) + 1)..Len(frames) = {}
  BY <1>1
<1>4. Recorded' /\ Pend(frames', outer', Len(frames)) = Pend(frames, outer, Len(frames))
  BY <1>1, <1>2, <1>3, RecordedStep
<1> QED
  BY <1>4 DEF Pending

\* The top handler has taken a child.
LEMMA TookKept ==
    ASSUME IInv, FInv, status = "running", heads \subseteq heads', outer' = outer,
           NEW m \in BOOLEAN, frames' = Took(m)
    PROVE  Recorded' /\ Pending' = Pending
<1>1. /\ Len(frames') = Len(frames)
      /\ \A i \in 1..Len(frames) : frames'[i].kind = frames[i].kind /\ frames'[i].bb = frames[i].bb
  <2>1. frames \in Seq(FrameRec) /\ frames # <<>>
    BY TopFacts
  <2> QED
    BY <2>1, TookType
<1>2. \A i \in 1..Len(frames) : Like(frames'[i], frames[i])
  BY <1>1 DEF Like
<1> QED
  BY <1>1, <1>2, SameKept

\* A handler is called.
LEMMA CallKept ==
    ASSUME IInv, FInv, heads \subseteq heads', NEW h,
           Len(frames') = Len(frames) + 1, frames'[Len(frames) + 1] = h,
           \A i \in 1..Len(frames) : Like(frames'[i], frames[i]),
           NEW o \in Record, Holds(h, o, heads'), outer' = Append(outer, o)
    PROVE  Recorded' /\ Pending' = Pending \cup PendingOf(h, o)
<1> DEFINE n == Len(frames)
<1>1. n \in Nat /\ Recorded /\ n <= n + 1 /\ n + 1 \in Nat
  BY CodeType DEF FInv
<1>2. outer \in Seq(Record) /\ Len(outer) = n
  BY <1>1 DEF Recorded
<1>3. /\ outer' \in Seq(Record) /\ Len(outer') = n + 1 /\ outer'[n + 1] = o
      /\ \A i \in 1..n : outer'[i] = outer[i]
  BY <1>2, Pushed
<1> HIDE DEF n
<1>4. (n + 1)..(n + 1) = {n + 1}
  BY <1>1
<1>5. Len(frames') = n + 1 /\ Len(frames) = n /\ frames'[n + 1] = h
      /\ \A i \in 1..n : Like(frames'[i], frames[i])
  BY DEF n
<1>6. \A i \in (n + 1)..Len(frames') : Holds(frames'[i], outer'[i], heads')
  BY <1>3, <1>4, <1>5
<1>7. Recorded' /\ Pend(frames', outer', n) = Pend(frames, outer, n)
  BY <1>1, <1>3, <1>5, <1>6, RecordedStep
<1>8. Pend(frames', outer', n + 1) = Pend(frames', outer', n) \cup PendingOf(h, o)
  <2>1. Pend(frames', outer', n + 1) =
           Pend(frames', outer', n) \cup PendingOf(frames'[n + 1], outer'[n + 1])
    BY <1>1, PendNext
  <2> QED
    BY <1>3, <1>5, <2>1
<1> QED
  BY <1>5, <1>7, <1>8 DEF Pending

\* Handlers are left.
LEMMA PopKept ==
    ASSUME IInv, FInv, heads \subseteq heads', NEW k \in {1, 2}, k <= Len(frames),
           frames' = SubSeq(frames, 1, Len(frames) - k),
           outer' = SubSeq(outer, 1, Len(outer) - k)
    PROVE  Recorded' /\ Pending' = Pend(frames, outer, Len(frames) - k)
<1> DEFINE n == Len(frames)
<1>1. n \in Nat /\ Recorded /\ k \in 1..n /\ frames \in Seq(FrameRec)
  BY CodeType DEF FInv
<1>2. outer \in Seq(Record) /\ Len(outer) = n
  BY <1>1 DEF Recorded
<1>3. /\ outer' \in Seq(Record) /\ Len(outer') = n - k
      /\ \A i \in 1..Len(outer') : outer'[i] = outer[i]
  BY <1>1, <1>2, Popped
<1>4. Len(frames') = n - k /\ \A i \in 1..Len(frames') : frames'[i] = frames[i]
  BY <1>1, Popped
<1>5. \A i \in 1..(n - k) : Like(frames'[i], frames[i]) /\ outer'[i] = outer[i]
  BY <1>3, <1>4 DEF Like
<1>6. n - k \in Nat /\ n - k <= n /\ Len(frames) = n
  BY <1>1
<1> HIDE DEF n
<1>7. ((n - k) + 1)..(n - k) = {}
  BY <1>6
<1>8. Recorded' /\ Pend(frames', outer', n - k) = Pend(frames, outer, n - k)
  <2> DEFINE m == n - k
  <2>1. /\ m \in Nat /\ m <= Len(frames) /\ m <= Len(frames') /\ Len(frames') \in Nat
        /\ Len(frames) \in Nat /\ Len(outer') = Len(frames')
        /\ (m + 1)..Len(frames') = {}
    BY <1>1, <1>3, <1>4, <1>6, <1>7
  <2>2. \A i \in 1..m : Like(frames'[i], frames[i]) /\ outer'[i] = outer[i]
    BY <1>5
  <2> HIDE DEF m
  <2>3. Recorded' /\ Pend(frames', outer', m) = Pend(frames, outer, m)
    BY <1>1, <1>3, <2>1, <2>2, RecordedStep
  <2> QED
    BY <2>3 DEF m
<1> QED
  BY <1>4, <1>6, <1>8 DEF Pending, n

\* Handlers that record nothing have nothing pending.
LEMMA SimplyPlain ==
    /\ Simply \in Record /\ Simply.exits = {} /\ Simply.start = {}
    /\ \A h : PendingOf(h, Simply) = {}
    /\ \A e, s \in SUBSET (BB \X Nat) :
          Handler(e, s) \in Record /\ Handler(e, s).exits = e /\ Handler(e, s).start = s
<1>1. \A e, s \in SUBSET (BB \X Nat) :
         Handler(e, s) \in Record /\ Handler(e, s).exits = e /\ Handler(e, s).start = s
  BY DEF Handler, Record
<1>2. Simply \in Record /\ Simply.exits = {} /\ Simply.start = {}
  BY <1>1 DEF Simply
<1>3. \A h : PendingOf(h, Simply) = {}
  BY <1>2 DEF PendingOf
<1> QED
  BY <1>1, <1>2, <1>3

\* Points are places.
LEMMA PointsPlaces ==
    ASSUME FInv
    PROVE  /\ Points \subseteq BB \X Nat
           /\ last \subseteq BB \X Nat /\ \A h \in heads : h \in Points
<1>1. /\ Points \subseteq Places(instrs)
      /\ Wait(last, insertBB, Pending) \subseteq Points \X BB
  BY DEF FInv, FlowFits, Fits
<1>2. Points \subseteq BB \X Nat
  BY <1>1 DEF Places
<1>3. \A a \in last : <<a, insertBB>> \in Points \X BB
  BY <1>1 DEF Wait
<1> QED
  BY <1>2, <1>3 DEF Points

----------------------------------------------------------------------------
\* Statements without branches.

\* The new events of ControlFlow are those of Flows.
LEMMA NewEventsAre == \A b : NewEvents(b) = EventsFrom(instrs', b, Len(instrs[b]))
BY DEF NewEvents, EventsFrom

\* The code of an expression and an instruction behind it.
LEMMA ExprThen ==
    ASSUME NEW c \in Code, NEW hs, NEW F, NEW P, NEW u \in BB, NEW m \in 0..Len(c[u]),
           NEW A, NEW R, Flows(c, u, m, hs, F, A, R, P), Elsewhere(R, u),
           NEW bl \in Seq(Scope), NEW e, ~Throws(bl, e), NEW i \in Instr,
           NEW d, d = Emit(c, u, Append(ExprCode(bl, e), i))
    PROVE  \E k \in Code : d = AppendTo(k, u, i) /\ GoesThrough(c, k, u, m, hs, F, A, R, P)
<1> DEFINE k == Emit(c, u, ExprCode(bl, e))
<1>1. ExprCode(bl, e) \in Seq(Instr)
  BY ExprCodeType
<1>2. d = AppendTo(k, u, i)
  BY <1>1, EmitAppend
<1>3. k = Emit(c, u, ExprCode(bl, e))
  OBVIOUS
<1> HIDE DEF k
<1>4. GoesThrough(c, k, u, m, hs, F, A, R, P)
  BY <1>3, FlowsExpr
<1>5. k \in Code
  BY <1>4 DEF GoesThrough
<1> QED
  BY <1>2, <1>4, <1>5

\* A step that adds code at the insertion point.
LEMMA InOrderFits ==
    ASSUME InOrder, insertBB' = insertBB, Pending' = Pending,
           Flows(instrs', insertBB, Len(instrs[insertBB]), heads, flow, last, Pending, Points),
           Points' = Points \cup EventsFrom(instrs', insertBB, Len(instrs[insertBB]))
    PROVE  FlowFits'
<1> DEFINE N == EventsFrom(instrs', insertBB, Len(instrs[insertBB]))
<1>1. /\ flow' = flow \cup Along(last, N) /\ last' = After(last, N) /\ heads' = heads
  BY NewEventsAre DEF InOrder
<1>2. Points' = Points \cup N
  OBVIOUS
<1>3. Fits(instrs', heads, flow \cup Along(last, N), Wait(After(last, N), insertBB, Pending), Points \cup N)
  BY DEF Flows
<1> HIDE DEF N
<1>4. Fits(instrs', heads', flow', Wait(last', insertBB', Pending'), Points')
  BY <1>1, <1>2, <1>3
<1> QED
  BY <1>4 DEF FlowFits

\* A step that leaves code, points and history alone.
LEMMA SameFits ==
    ASSUME FInv, UNCHANGED <<instrs, owner, insertBB, heads, flow, last>>, Pending' = Pending
    PROVE  FlowFits'
<1>1. Points' = Points
  BY PointsAre, PointsAreNext
<1> QED
  BY <1>1 DEF FInv, FlowFits

\* A step of a function that adds no code.
LEMMA StillFits ==
    ASSUME IInv, FInv, status = "running", status' = "running", funcs' = funcs,
           currentFunc # NoFunc, currentFunc' = currentFunc,
           UNCHANGED <<instrs, owner, insertBB, heads, flow, last>>,
           Recorded', Pending' = Pending
    PROVE  FInv'
<1>1. FlowFits'
  BY SameFits
<1>2. HeadsPlaced' /\ NoGlobalCode'
  BY DEF FInv, HeadsPlaced, NoGlobalCode
<1>3. PrintersFirst' /\ Outside'
  BY DEF FInv, PrintersFirst, Outside
<1> QED
  BY <1>1, <1>2, <1>3 DEF FInv

\* An expression statement: its accesses and calls in their order.
LEMMA ExprStmtFlow ==
    ASSUME IInv, BInv, FInv, NEW e \in Exprs, ExprStmt(e), InOrder
    PROVE  FInv'
<1> DEFINE u == insertBB
<1>1. Running /\ InStmts /\ ~Throws(blocks, e) /\ frames' = Took(FALSE)
      /\ instrs' = Emit(instrs, u, ExprCode(blocks, e))
      /\ UNCHANGED <<status, funcs, currentFunc, owner, insertBB, inDef>>
  BY DEF ExprStmt, StmtPosition, func
<1>2. status = "running" /\ currentFunc # NoFunc /\ u \in BB /\ owner[u] = currentFunc
  BY <1>1, StmtFacts, TopFacts
<1>3. blocks \in Seq(Scope) /\ instrs \in Code
  BY CodeType DEF IInv, TypeOK
<1>4. Inside /\ owner'[u] = currentFunc
  BY <1>1, <1>2, InsideSame
<1>5. Recorded' /\ Pending' = Pending
  BY <1>1, <1>2, TookKept DEF InOrder
<1>6. Starts(Pending)
  BY <1>2, InsideStarts
<1> HIDE DEF u
<1>7. Flows(instrs', u, Len(instrs[u]), heads, flow, last, Pending, Points)
  <2>1. GoesThrough(instrs, instrs', u, Len(instrs[u]), heads, flow, last, Pending, Points)
    BY <1>1, <1>2, <1>3, <1>6, FlowsExpr DEF Starts, u
  <2> QED
    BY <2>1 DEF GoesThrough
<1>8. ExprCode(blocks, e) \in Seq(Instr)
  BY <1>1, <1>3, ExprCodeType
<1>9. Grows({u}, currentFunc)
  BY <1>1, <1>2, <1>4, <1>8, GrowsOnce
<1>10. Points' = Points \cup EventsFrom(instrs', u, Len(instrs[u]))
  BY <1>2, <1>9, PointsOne DEF InOrder
<1>11. FlowFits'
  BY <1>1, <1>5, <1>7, <1>10, InOrderFits DEF u
<1>12. HeadsGrow(currentFunc) /\ Outside' /\ currentFunc' \in {currentFunc, NoFunc}
  BY <1>1, <1>2 DEF HeadsGrow, InOrder, Outside
<1> QED
  BY <1>5, <1>9, <1>11, <1>12, GrowsKeeps

\* An empty statement, and the beginning of a body, add no code.
LEMMA EmptyStmtFlow ==
    ASSUME IInv, FInv, EmptyStmt, UNCHANGED history
    PROVE  FInv'
<1>1. Running /\ InStmts /\ frames' = Took(FALSE)
      /\ UNCHANGED <<status, funcs, currentFunc, instrs, owner, insertBB>>
  BY DEF EmptyStmt, func, code
<1>2. status = "running" /\ currentFunc # NoFunc
  BY <1>1, StmtFacts, TopFacts
<1>3. UNCHANGED <<heads, flow, last, outer>>
  BY DEF history
<1>4. Recorded' /\ Pending' = Pending
  BY <1>1, <1>2, <1>3, TookKept
<1> QED
  BY <1>1, <1>2, <1>3, <1>4, StillFits

LEMMA BeginBodyFlow ==
    ASSUME IInv, FInv, BeginBody, UNCHANGED history
    PROVE  FInv'
<1>1. /\ Running /\ Top.kind = "params" /\ frames' = [frames EXCEPT ![Len(frames)].kind = "body"]
      /\ UNCHANGED <<status, funcs, currentFunc, instrs, owner, insertBB>>
  BY DEF BeginBody, func, code
<1>2. /\ status = "running" /\ currentFunc # NoFunc /\ frames \in Seq(FrameRec)
      /\ Len(frames) \in 1..Len(frames) /\ Top = frames[Len(frames)]
  BY <1>1, TopFacts DEF Running
<1>3. UNCHANGED <<heads, flow, last, outer>>
  BY DEF history
<1> DEFINE n == Len(frames)
<1>4. Len(frames') = n
  BY <1>1, <1>2
<1>5. ASSUME NEW i \in 1..n
      PROVE  Like(frames'[i], frames[i])
  <2>1. CASE i # n
    <3>1. frames'[i] = frames[i]
      BY <1>1, <1>2, <2>1
    <3> QED
      BY <3>1 DEF Like
  <2>2. CASE i = n
    <3>1. frames'[n] = [Top EXCEPT !.kind = "body"] /\ frames[n].kind = "params"
      BY <1>1, <1>2
    <3>2. Top \in FrameRec
      BY <1>2
    <3>3. frames'[n].kind = "body"
      BY <3>1, <3>2 DEF FrameRec
    <3> QED
      BY <2>2, <3>1, <3>3 DEF Like
  <2> QED
    BY <2>1, <2>2
<1>6. Recorded' /\ Pending' = Pending
  BY <1>3, <1>4, <1>5, SameKept
<1> QED
  BY <1>1, <1>2, <1>3, <1>6, StillFits

\* The scope that is open is at a block of the function.
LEMMA HomeFacts ==
    ASSUME IInv, status = "running", currentFunc # NoFunc
    PROVE  /\ GetCurrentBlock \in BB /\ owner[GetCurrentBlock] = currentFunc
           /\ insertBB \in BB /\ owner[insertBB] = currentFunc
           /\ blocks \in Seq(Scope)
<1>1. /\ GetCurrentBlock \in BB /\ blocks \in Seq(Scope) /\ Len(blocks) = Len(frames)
      /\ Len(frames) \in 1..Len(frames)
  BY TopFacts
<1>2. /\ Len(blocks) > 1 /\ insertBB # NoBB /\ owner[insertBB] = currentFunc
      /\ \A i \in 2..Len(blocks) : owner[blocks[i].bb] = currentFunc
  BY DEF IInv, InCurrentFunc
<1>3. Len(blocks) \in 2..Len(blocks)
  BY <1>1, <1>2
<1>4. insertBB \in BB
  BY <1>2 DEF IInv, TypeOK
<1> QED
  BY <1>1, <1>2, <1>3, <1>4 DEF GetCurrentBlock

\* Which instructions are events and terminators.
LEMMA NotHalting ==
    /\ Alloca \in Instr /\ ~Halts(Alloca) /\ ~IsEvent(Alloca) /\ Call \in Instr /\ Ret \in Instr
    /\ \A p \in Ptr : Access(p) \in Instr /\ IsEvent(Access(p)) /\ ~IsTerm(Access(p))
BY InstrType DEF Halts, IsEvent, IsBranch, IsTerm, Alloca, Access

\* The code with the alloca of a variable, which is no event.
AllocaFlows(k, home, u) ==
    /\ k \in Code /\ k = AppendTo(instrs, home, Alloca)
    /\ Flows(k, u, Len(instrs[u]), heads, flow, last, Pending, Points)
    /\ Len(instrs[u]) \in 0..Len(k[u])

\* An alloca changes no flow, wherever it goes.
LEMMA AllocaSilent ==
    ASSUME IInv, BInv, FInv, currentFunc # NoFunc, NEW u \in BB, u = insertBB,
           NEW home \in BB, NEW k, k = Emit(instrs, home, <<Alloca>>)
    PROVE  AllocaFlows(k, home, u)
<1>1. instrs \in Code /\ Alloca \in Instr /\ ~Halts(Alloca)
  BY CodeType, NotHalting
<1>2. Starts(Pending)
  BY InsideStarts
<1>3. /\ Flows(instrs, u, Len(instrs[u]), heads, flow, last, Pending, Points)
      /\ Len(instrs[u]) \in 0..Len(instrs[u])
  BY <1>2 DEF Starts
<1>4. k = AppendTo(instrs, home, Alloca)
  BY <1>1, EmitOne
<1> DEFINE m == Len(instrs[u])
<1>5. m \in 0..Len(instrs[u]) /\ Flows(instrs, u, m, heads, flow, last, Pending, Points)
  BY <1>3
<1> HIDE DEF m
<1>6. /\ Flows(AppendTo(instrs, home, Alloca), u, m, heads, flow, last, Pending, Points)
      /\ m \in 0..Len(AppendTo(instrs, home, Alloca)[u])
  BY <1>1, <1>5, FlowsSilent
<1>7. AppendTo(instrs, home, Alloca) \in Code
  BY <1>1, Appends1
<1> QED
  BY <1>4, <1>6, <1>7 DEF AllocaFlows, m

\* The points that come with a variable are those of its initial value.
LEMMA AllocaPoints ==
    ASSUME IInv, BInv, NEW u \in BB, NEW home \in BB, NEW f, Grows({home, u}, f),
           heads' = heads, NEW k, k = AppendTo(instrs, home, Alloca),
           \A b \in BB \ {u} : instrs'[b] = k[b]
    PROVE  Points' = Points \cup EventsFrom(instrs', u, Len(instrs[u]))
<1>1. Points' = Points \cup heads' \cup EventsFrom(instrs', home, Len(instrs[home]))
                       \cup EventsFrom(instrs', u, Len(instrs[u]))
  <2>1. HeadsGrow(f)
    BY DEF HeadsGrow
  <2> QED
    BY <2>1, PointsTwo
<1>2. heads \subseteq Points
  BY DEF Points
<1>3. CASE home = u
  BY <1>1, <1>2, <1>3
<1>4. CASE home # u
  <2> DEFINE m == Len(instrs[home])
  <2>1. instrs \in Code /\ m \in 0..Len(instrs[home]) /\ Alloca \in Instr /\ ~IsEvent(Alloca)
    BY CodeType, NotHalting
  <2>2. EventsFrom(instrs, home, m) = {}
    <3>1. (m + 1)..m = {}
      BY <2>1
    <3> QED
      BY <3>1 DEF EventsFrom
  <2> HIDE DEF m
  <2>3. EventAdded(instrs, home, Alloca, m)
    BY <2>1, EventsAppend
  <2>4. EventsFrom(AppendTo(instrs, home, Alloca), home, m) = {}
    BY <2>1, <2>2, <2>3 DEF EventAdded
  <2>5. instrs'[home] = AppendTo(instrs, home, Alloca)[home]
    BY <1>4
  <2>6. EventsFrom(instrs', home, m) = EventsFrom(AppendTo(instrs, home, Alloca), home, m)
    BY <2>5 DEF EventsFrom
  <2> QED
    BY <1>1, <1>2, <2>4, <2>6 DEF m
<1> QED
  BY <1>3, <1>4

\* A variable, and its initial value at the insertion point.
LEMMA VariableFlow ==
    ASSUME IInv, BInv, FInv, Inside, owner' = owner, currentFunc' = currentFunc,
           insertBB' = insertBB, InOrder,
           Len(frames') = Len(frames), \A i \in 1..Len(frames) : Like(frames'[i], frames[i]),
           NEW home, home = GetCurrentBlock, NEW s \in Seq(Instr),
           NEW k, k = Emit(instrs, home, <<Alloca>>), instrs' = Emit(k, insertBB, s),
           GoesThrough(k, instrs', insertBB, Len(instrs[insertBB]), heads, flow, last, Pending, Points)
    PROVE  FInv'
<1> DEFINE u == insertBB
<1>1. u \in BB /\ home \in BB /\ owner[u] = currentFunc /\ owner[home] = currentFunc
      /\ status = "running" /\ currentFunc # NoFunc
  BY HomeFacts DEF Inside
<1>2. <<Alloca>> \in Seq(Instr)
  BY NotHalting
<1> HIDE DEF u
<1>3. instrs' = Emit(Emit(instrs, home, <<Alloca>>), u, s)
  BY DEF u
<1>4. Grows({home, u}, currentFunc)
  BY <1>1, <1>2, <1>3, GrowsTwice
<1>5. Recorded' /\ Pending' = Pending
  BY SameKept DEF InOrder
<1>6. k = AppendTo(instrs, home, Alloca)
  BY <1>1, EmitOne, CodeType, NotHalting
<1>7. /\ Flows(instrs', u, Len(instrs[u]), heads, flow, last, Pending, Points)
      /\ \A b \in BB \ {u} : instrs'[b] = k[b]
  BY DEF GoesThrough, u
<1>8. Points' = Points \cup EventsFrom(instrs', u, Len(instrs[u]))
  BY <1>1, <1>4, <1>6, <1>7, AllocaPoints DEF InOrder
<1>9. FlowFits'
  BY <1>5, <1>7, <1>8, InOrderFits DEF u
<1>10. HeadsGrow(currentFunc) /\ Outside' /\ currentFunc' \in {currentFunc, NoFunc}
  BY <1>1 DEF HeadsGrow, InOrder, Outside
<1> QED
  BY <1>4, <1>5, <1>9, <1>10, GrowsKeeps

\* An access comes behind k.
LEMMA AccessFlows ==
    ASSUME NEW c, NEW k, NEW hs, NEW F, NEW P, NEW u \in BB, NEW m, NEW A, NEW R,
           GoesThrough(c, k, u, m, hs, F, A, R, P), Elsewhere(R, u), NEW p \in Ptr,
           NEW d, d = AppendTo(k, u, Access(p))
    PROVE  GoesThrough(c, d, u, m, hs, F, A, R, P)
<1>1. /\ k \in Code /\ Flows(k, u, m, hs, F, A, R, P) /\ m \in 0..Len(k[u])
      /\ \A b \in BB \ {u} : k[b] = c[b]
  BY DEF GoesThrough
<1>2. Access(p) \in Instr /\ IsEvent(Access(p)) /\ ~IsTerm(Access(p))
  BY NotHalting
<1>3. /\ Flows(AppendTo(k, u, Access(p)), u, m, hs, F, A, R, P)
      /\ m \in 0..Len(AppendTo(k, u, Access(p))[u])
  BY <1>1, <1>2, FlowsStep
<1>4. d \in Code /\ \A b \in BB \ {u} : d[b] = k[b]
  BY <1>1, <1>2, Appends1
<1> QED
  BY <1>1, <1>3, <1>4 DEF GoesThrough

\* A parameter: an alloca, and the access that stores the argument.
LEMMA AddParamFlow ==
    ASSUME IInv, BInv, FInv, NEW v \in Vars, AddParam(v), InOrder
    PROVE  FInv'
<1> DEFINE home == GetCurrentBlock
           p == <<home, Len(instrs[home]) + 1>>
           k == Emit(instrs, home, <<Alloca>>)
           u == insertBB
<1>1. /\ status = "running" /\ Top.kind = "params"
      /\ instrs' = Emit(k, u, <<Access(p)>>)
      /\ UNCHANGED <<status, funcs, currentFunc, owner, insertBB, frames, inDef>>
  BY DEF AddParam, Running, func
<1>2. currentFunc # NoFunc
  BY <1>1, TopFacts
<1>3. home \in BB /\ owner[home] = currentFunc /\ u \in BB /\ owner[u] = currentFunc
  BY <1>1, <1>2, HomeFacts
<1>4. p \in Ptr
  <2>1. Len(instrs[home]) \in Nat
    BY <1>3, CodeType
  <2> QED
    BY <1>3, <2>1 DEF Ptr
<1>5. Inside
  BY <1>1, <1>2, InsideSame
<1>6. home = GetCurrentBlock /\ k = Emit(instrs, home, <<Alloca>>) /\ u = insertBB
  OBVIOUS
<1> HIDE DEF home, p, k, u
<1>7. AllocaFlows(k, home, u)
  BY <1>2, <1>3, <1>6, AllocaSilent
<1>8. GoesThrough(k, k, u, Len(instrs[u]), heads, flow, last, Pending, Points)
  BY <1>7 DEF AllocaFlows, GoesThrough
<1>9. Access(p) \in Instr /\ k \in Code /\ Elsewhere(Pending, u)
  <2>1. Starts(Pending)
    BY <1>2, InsideStarts
  <2> QED
    BY <1>4, <1>6, <1>7, <2>1, NotHalting DEF AllocaFlows, Starts
<1>10. instrs' = AppendTo(k, u, Access(p))
  BY <1>1, <1>3, <1>9, EmitOne
<1>11. GoesThrough(k, instrs', u, Len(instrs[u]), heads, flow, last, Pending, Points)
  BY <1>3, <1>4, <1>8, <1>9, <1>10, AccessFlows
<1>12. <<Access(p)>> \in Seq(Instr)
  BY <1>9
<1>13. Len(frames') = Len(frames) /\ \A i \in 1..Len(frames) : Like(frames'[i], frames[i])
  BY <1>1 DEF Like
<1> DEFINE s == <<Access(p)>>
<1>14. s \in Seq(Instr) /\ instrs' = Emit(k, insertBB, s)
  BY <1>1, <1>6, <1>12
<1> HIDE DEF s
<1> QED
  BY <1>1, <1>5, <1>6, <1>11, <1>13, <1>14, VariableFlow

\* A variable: an alloca in the block of the scope, the rest at the insertion
\* point.
LEMMA DefineVarFlow ==
    ASSUME ~GlobalVars, IInv, BInv, FInv,
           NEW v \in Vars, NEW init \in Exprs \cup {NoExpr}, NEW more \in BOOLEAN,
           DefineVar(v, init, more), InOrder
    PROVE  FInv'
<1> DEFINE home == GetCurrentBlock
           p == <<home, Len(instrs[home]) + 1>>
           scope == AddLocalVar(blocks, p, v)
           k == Emit(instrs, home, <<Alloca>>)
           u == insertBB
           value == IF init = NoExpr THEN <<>> ELSE Append(ExprCode(scope, init), Access(p))
<1>1. /\ status = "running" /\ (inDef \/ VarDefPosition) /\ ~Throws(scope, init)
      /\ instrs' = Emit(k, u, value)
      /\ frames' = IF inDef THEN frames ELSE Took(FALSE)
      /\ UNCHANGED <<status, funcs, currentFunc, owner, insertBB>>
  BY DEF DefineVar, func
<1>2. currentFunc # NoFunc
  <2>1. CASE inDef
    BY <2>1 DEF FInv, Outside
  <2>2. CASE ~inDef
    <3>1. StmtPosition
      BY <1>1, <2>2 DEF VarDefPosition
    <3> QED
      BY <1>1, <3>1, StmtFacts, TopFacts DEF StmtPosition
  <2> QED
    BY <2>1, <2>2
<1>3. home \in BB /\ owner[home] = currentFunc /\ u \in BB /\ owner[u] = currentFunc
      /\ blocks \in Seq(Scope)
  BY <1>1, <1>2, HomeFacts
<1>4. p \in Ptr
  <2>1. Len(instrs[home]) \in Nat
    BY <1>3, CodeType
  <2> QED
    BY <1>3, <2>1 DEF Ptr
<1>5. Inside
  BY <1>1, <1>2, InsideSame
<1>6. home = GetCurrentBlock /\ k = Emit(instrs, home, <<Alloca>>) /\ u = insertBB
  OBVIOUS
<1>7. scope \in Seq(Scope)
  BY <1>3, <1>4, AddLocalVarType
<1> HIDE DEF home, p, k, u, scope
<1>8. AllocaFlows(k, home, u)
  BY <1>2, <1>3, <1>6, AllocaSilent
<1> DEFINE m == Len(instrs[u])
<1>9. /\ k \in Code /\ Flows(k, u, m, heads, flow, last, Pending, Points) /\ m \in 0..Len(k[u])
      /\ GoesThrough(k, k, u, m, heads, flow, last, Pending, Points)
  BY <1>8 DEF AllocaFlows, GoesThrough
<1>10. Access(p) \in Instr /\ Elsewhere(Pending, u)
  <2>1. Starts(Pending)
    BY <1>2, InsideStarts
  <2> QED
    BY <1>4, <1>6, <2>1, NotHalting DEF Starts
<1> HIDE DEF m
<1>11. GoesThrough(k, instrs', u, m, heads, flow, last, Pending, Points) /\ value \in Seq(Instr)
  <2>1. CASE init = NoExpr
    <3>1. value = <<>> /\ Emit(k, u, <<>>) = k
      BY <1>3, <1>9, <2>1, EmitNothing
    <3> HIDE DEF value
    <3>2. instrs' = k
      BY <1>1, <3>1
    <3>3. <<>> \in Seq(Instr)
      OBVIOUS
    <3> QED
      BY <1>9, <3>1, <3>2, <3>3
  <2>2. CASE init # NoExpr
    <3>1. value = Append(ExprCode(scope, init), Access(p))
      BY <2>2
    <3>2. ExprCode(scope, init) \in Seq(Instr)
      BY <1>1, <1>7, ExprCodeType
    <3>3. value \in Seq(Instr)
      BY <1>10, <3>1, <3>2
    <3>4. instrs' = Emit(k, u, Append(ExprCode(scope, init), Access(p)))
      BY <1>1, <3>1
    <3>5. PICK j \in Code : /\ instrs' = AppendTo(j, u, Access(p))
                            /\ GoesThrough(k, j, u, m, heads, flow, last, Pending, Points)
      BY <1>1, <1>3, <1>7, <1>9, <1>10, <3>4, ExprThen
    <3>6. GoesThrough(k, instrs', u, m, heads, flow, last, Pending, Points)
      BY <1>3, <1>4, <1>10, <3>5, AccessFlows
    <3> QED
      BY <3>3, <3>6
  <2> HIDE DEF value
  <2> QED
    BY <2>1, <2>2
<1>12. Len(frames') = Len(frames) /\ \A i \in 1..Len(frames) : Like(frames'[i], frames[i])
  <2>1. frames \in Seq(FrameRec) /\ frames # <<>>
    BY <1>1, TopFacts
  <2> QED
    BY <1>1, <2>1, TookType DEF Like
<1>13. instrs' = Emit(k, insertBB, value) /\ m = Len(instrs[insertBB])
  BY <1>1, <1>6 DEF m
<1> HIDE DEF value
<1>14. GoesThrough(k, instrs', insertBB, Len(instrs[insertBB]), heads, flow, last, Pending, Points)
  BY <1>6, <1>11, <1>13
<1> QED
  BY <1>1, <1>5, <1>6, <1>11, <1>12, <1>13, <1>14, VariableFlow

----------------------------------------------------------------------------
\* Returns, and the end of a function.

\* No events before anything has been added.
LEMMA NothingNew == \A c \in Code : \A u \in BB : EventsFrom(c, u, Len(c[u])) = {}
<1> SUFFICES ASSUME NEW c \in Code, NEW u \in BB PROVE EventsFrom(c, u, Len(c[u])) = {}
  OBVIOUS
<1>1. (Len(c[u]) + 1)..Len(c[u]) = {}
  BY DEF Code
<1> QED
  BY <1>1 DEF EventsFrom

\* A ret and a conditional branch are events, for they are no unconditional
\* branches.
LEMMA NoBranches ==
    /\ Ret \in Instr /\ IsTerm(Ret) /\ ~IsBranch(Ret) /\ Ret.to = {}
    /\ \A t, e \in BB : t # e => /\ CondBr(t, e) \in Instr /\ IsTerm(CondBr(t, e))
                                 /\ ~IsBranch(CondBr(t, e)) /\ CondBr(t, e).to = {t, e}
    /\ \A t \in BB : Br(t) \in Instr
<1>1. ~IsBranch(Ret)
  BY TermTypes DEF IsBranch
<1>2. ASSUME NEW t \in BB, NEW e \in BB, t # e
      PROVE  ~IsBranch(CondBr(t, e))
  <2>1. CondBr(t, e).to = {t, e}
    BY TermTypes
  <2> QED
    BY <1>2, <2>1 DEF IsBranch
<1> QED
  BY <1>1, <1>2, InstrType, TermTypes

\* A return comes last.
LEMMA ReturnFits ==
    ASSUME NEW c, NEW k, NEW hs, NEW F, NEW P, NEW u \in BB, NEW m, NEW A, NEW R,
           GoesThrough(c, k, u, m, hs, F, A, R, P), Elsewhere(R, u),
           NEW d, d = AppendTo(k, u, Ret), NEW N, N = EventsFrom(d, u, m)
    PROVE  Fits(d, hs, F \cup Along(A, N), R, P \cup N)
<1>1. k \in Code /\ Flows(k, u, m, hs, F, A, R, P) /\ m \in 0..Len(k[u])
  BY DEF GoesThrough
<1>2. Ret \in Instr /\ IsTerm(Ret) /\ ~IsBranch(Ret)
      /\ Unused(k, hs, u, Ret.to)
  BY NoBranches DEF Unused
<1>3. Departs(d, hs, F, A, R, P, EventsFrom(d, u, m), End(k, u), Ret.to)
  BY <1>1, <1>2, FlowsLeave
<1>4. Each(End(k, u), Ret.to, R) = R
  BY NoBranches DEF Each
<1> QED
  BY <1>3, <1>4 DEF Departs

\* Nothing comes after a return.
LEMMA LeaveFits ==
    ASSUME LeaveFunc, NEW N, N = EventsFrom(instrs', insertBB, Len(instrs[insertBB])),
           Fits(instrs', heads, flow \cup Along(last, N), Pending', Points \cup N),
           Points' = Points \cup N
    PROVE  FlowFits'
<1>1. /\ flow' = flow \cup Along(last, N) /\ last' = {} /\ heads' = heads
  BY NewEventsAre DEF LeaveFunc
<1>2. Wait({}, insertBB', Pending') = Pending'
  BY DEF Wait
<1>3. Fits(instrs', heads', flow', Wait(last', insertBB', Pending'), Points')
  BY <1>1, <1>2
<1> QED
  BY <1>3 DEF FlowFits

\* A return, with what its expression does before it.
LEMMA ReturnFlow ==
    ASSUME IInv, BInv, FInv, NEW e \in Exprs \cup {NoExpr}, Return(e), LeaveFunc, UNCHANGED outer
    PROVE  FInv'
<1> DEFINE u == insertBB
           N == EventsFrom(instrs', u, Len(instrs[u]))
<1>1. Running /\ InStmts /\ ~Throws(blocks, e) /\ frames' = Took(FALSE)
      /\ instrs' = Emit(instrs, u, Append(ExprCode(blocks, e), Ret))
      /\ UNCHANGED <<status, funcs, currentFunc, owner, insertBB, inDef>>
  BY DEF Return, ReturnPosition, AnyStmt, StmtPosition, func
<1>2. status = "running" /\ currentFunc # NoFunc /\ u \in BB /\ owner[u] = currentFunc
  BY <1>1, StmtFacts, TopFacts
<1>3. blocks \in Seq(Scope) /\ instrs \in Code /\ Ret \in Instr
  BY CodeType, NoBranches DEF IInv, TypeOK
<1>4. Inside /\ owner'[u] = currentFunc
  BY <1>1, <1>2, InsideSame
<1>5. Recorded' /\ Pending' = Pending
  BY <1>1, <1>2, TookKept DEF LeaveFunc
<1>6. Starts(Pending)
  BY <1>2, InsideStarts
<1>0. N = EventsFrom(instrs', insertBB, Len(instrs[insertBB]))
  OBVIOUS
<1> HIDE DEF u, N
<1>7. Fits(instrs', heads, flow \cup Along(last, N), Pending, Points \cup N)
  <2>1. PICK k \in Code :
           /\ instrs' = AppendTo(k, u, Ret)
           /\ GoesThrough(instrs, k, u, Len(instrs[u]), heads, flow, last, Pending, Points)
    BY <1>1, <1>2, <1>3, <1>6, ExprThen DEF Starts, u
  <2>2. Elsewhere(Pending, u) /\ N = EventsFrom(instrs', u, Len(instrs[u]))
    BY <1>6, <1>0 DEF Starts, u
  <2> QED
    BY <1>2, <2>1, <2>2, ReturnFits
<1>8. Append(ExprCode(blocks, e), Ret) \in Seq(Instr)
  BY <1>1, <1>3, ExprCodeType
<1>9. Grows({u}, currentFunc)
  BY <1>1, <1>2, <1>4, <1>8, GrowsOnce
<1>10. Points' = Points \cup N
  BY <1>2, <1>9, <1>0, PointsOne DEF LeaveFunc, u
<1>11. FlowFits'
  BY <1>0, <1>5, <1>7, <1>10, LeaveFits
<1>12. HeadsGrow(currentFunc) /\ Outside' /\ currentFunc' \in {currentFunc, NoFunc}
  BY <1>1, <1>2 DEF HeadsGrow, LeaveFunc, Outside
<1> QED
  BY <1>5, <1>9, <1>11, <1>12, GrowsKeeps

\* What waits for the top handler, and for the others.
LEMMA PendTop ==
    ASSUME IInv, FInv, status = "running"
    PROVE  /\ Pending = Pend(frames, outer, Len(frames) - 1) \cup PendingOf(Top, Inner)
           /\ Inner = outer[Len(frames)] /\ Holds(Top, Inner, heads) /\ Inner \in Record
           /\ Len(outer) = Len(frames) /\ outer \in Seq(Record)
<1> DEFINE n == Len(frames)
<1>1. n \in 1..n /\ Top = frames[n] /\ Recorded /\ n \in Nat
  BY TopFacts, CodeType DEF FInv
<1>2. outer \in Seq(Record) /\ Len(outer) = n /\ Holds(frames[n], outer[n], heads)
  BY <1>1 DEF Recorded
<1>3. Inner = outer[n] /\ Inner \in Record
  BY <1>1, <1>2, ElementOfSeq DEF Inner
<1>4. n - 1 \in Nat /\ (n - 1) + 1 = n
  BY <1>1
<1> HIDE DEF n
<1>5. Pend(frames, outer, (n - 1) + 1) =
         Pend(frames, outer, n - 1) \cup PendingOf(frames[(n - 1) + 1], outer[(n - 1) + 1])
  <2> DEFINE m == n - 1
  <2>1. m \in Nat
    BY <1>4
  <2> HIDE DEF m
  <2>2. Pend(frames, outer, m + 1) = Pend(frames, outer, m) \cup PendingOf(frames[m + 1], outer[m + 1])
    BY <2>1, PendNext
  <2> QED
    BY <2>2 DEF m
<1>6. Pend(frames, outer, n) = Pend(frames, outer, n - 1) \cup PendingOf(Top, Inner)
  BY <1>1, <1>3, <1>4, <1>5
<1> QED
  BY <1>1, <1>2, <1>3, <1>6 DEF Pending, n

\* A handler that nothing waits for is left.
LEMMA PopPlain ==
    ASSUME IInv, FInv, status = "running", Top.kind \notin {"then", "else", "for"},
           frames' = PopFrame, outer' = Around, heads \subseteq heads'
    PROVE  Recorded' /\ Pending' = Pending
<1>1. PendingOf(Top, Inner) = {}
  BY DEF PendingOf
<1>2. 1 <= Len(frames)
  BY TopFacts
<1>3. Recorded' /\ Pending' = Pend(frames, outer, Len(frames) - 1)
  BY <1>2, PopKept DEF PopFrame, Around
<1> QED
  BY <1>1, <1>3, PendTop

\* The end of a block adds no code.
LEMMA EndBlockFlow ==
    ASSUME IInv, FInv, EndBlock, LeavePlain
    PROVE  FInv'
<1>1. /\ Running /\ Top.kind = "block" /\ frames' = PopFrame
      /\ UNCHANGED <<status, funcs, currentFunc, instrs, owner, insertBB>>
  BY DEF EndBlock, func, code
<1>2. status = "running" /\ currentFunc # NoFunc
  BY <1>1, CloseFacts
<1>3. outer' = Around /\ UNCHANGED <<heads, flow, last>>
  BY DEF LeavePlain
<1>4. Recorded' /\ Pending' = Pending
  BY <1>1, <1>2, <1>3, PopPlain
<1> QED
  BY <1>1, <1>2, <1>3, <1>4, StillFits

\* The end of a function, with its default return.
LEMMA EndFuncFlow ==
    ASSUME IInv, BInv, FInv, EndFunc, LeaveFunc, outer' = Around
    PROVE  FInv'
<1> DEFINE u == insertBB
           N == EventsFrom(instrs', u, Len(instrs[u]))
<1>1. /\ Running /\ Top.kind = "body" /\ frames' = PopFrame
      /\ instrs' = IF HasTerminator(instrs[u]) THEN instrs ELSE Emit(instrs, u, <<Ret>>)
      /\ currentFunc' = NoFunc
      /\ UNCHANGED <<status, funcs, owner, insertBB, inDef>>
  BY DEF EndFunc, DefaultReturn
<1>2. /\ status = "running" /\ ~inDef /\ currentFunc # NoFunc /\ u \in BB /\ owner[u] = currentFunc
  BY <1>1, TopFacts DEF Running
<1>3. instrs \in Code /\ Ret \in Instr
  BY CodeType, NoBranches
<1>4. Inside /\ owner'[u] = currentFunc
  BY <1>1, <1>2, InsideSame
<1>5. Recorded' /\ Pending' = Pending
  BY <1>1, <1>2, PopPlain DEF LeaveFunc
<1>6. Starts(Pending)
  BY <1>2, InsideStarts
<1>0. N = EventsFrom(instrs', insertBB, Len(instrs[insertBB])) /\ u = insertBB
  OBVIOUS
<1> HIDE DEF u, N
<1>7. /\ Fits(instrs', heads, flow \cup Along(last, N), Pending, Points \cup N)
      /\ Grows({u}, currentFunc)
  <2>1. CASE HasTerminator(instrs[u])
    <3>1. instrs' = instrs /\ instrs' = Emit(instrs, u, <<>>) /\ <<>> \in Seq(Instr)
      BY <1>1, <1>2, <1>3, <2>1, EmitNothing
    <3>2. Grows({u}, currentFunc)
      BY <1>2, <1>4, <3>1, GrowsOnce
    <3>3. Fits(instrs, heads, flow, Wait(last, u, Pending), Points)
      BY <1>0 DEF FInv, FlowFits
    <3>4. \A p : <<p, u>> \notin Wait(last, u, Pending)
      BY <1>2, <1>3, <2>1, <3>3, FitsClosed
    <3>5. last = {} /\ Wait(last, u, Pending) = Pending
      BY <3>4 DEF Wait
    <3>6. N = {} /\ Along(last, N) = {}
      <4>1. N = {}
        BY <1>0, <1>2, <1>3, <3>1, NothingNew
      <4> QED
        BY <4>1, AlongNothing
    <3> QED
      BY <3>1, <3>2, <3>3, <3>5, <3>6
  <2>2. CASE ~HasTerminator(instrs[u])
    <3>1. instrs' = Emit(instrs, u, <<Ret>>) /\ <<Ret>> \in Seq(Instr)
      BY <1>1, <1>3, <2>2
    <3>2. instrs' = AppendTo(instrs, u, Ret)
      BY <1>2, <1>3, <3>1, EmitOne
    <3>3. Grows({u}, currentFunc)
      BY <1>2, <1>4, <3>1, GrowsOnce
    <3>4. /\ GoesThrough(instrs, instrs, u, Len(instrs[u]), heads, flow, last, Pending, Points)
          /\ Elsewhere(Pending, u)
      BY <1>0, <1>3, <1>6 DEF Starts, GoesThrough
    <3>5. N = EventsFrom(instrs', u, Len(instrs[u]))
      BY <1>0
    <3>6. Fits(instrs', heads, flow \cup Along(last, N), Pending, Points \cup N)
      BY <1>2, <3>2, <3>4, <3>5, ReturnFits
    <3> QED
      BY <3>3, <3>6
  <2> QED
    BY <2>1, <2>2
<1>8. Points' = Points \cup N
  BY <1>0, <1>2, <1>7, PointsOne DEF LeaveFunc
<1>9. FlowFits'
  BY <1>0, <1>5, <1>7, <1>8, LeaveFits
<1>10. HeadsGrow(currentFunc) /\ Outside' /\ currentFunc' \in {currentFunc, NoFunc}
  BY <1>1, <1>2 DEF HeadsGrow, LeaveFunc, Outside
<1> QED
  BY <1>5, <1>7, <1>9, <1>10, GrowsKeeps

----------------------------------------------------------------------------
\* Branches.

\* A block of no function has no code, and nothing is known of it.
LEMMA FreeBlock ==
    ASSUME IInv, BInv, FInv, NEW t \in BB, owner[t] = NoFunc
    PROVE  instrs[t] = <<>> /\ <<t, 0>> \notin heads /\ <<t, 0>> \notin Points
<1>1. instrs[t] = <<>>
  BY DEF BInv, FreshBlocks
<1>2. <<t, 0>> \notin heads
  <2>1. \A h \in heads : owner[h[1]] # NoFunc
    BY DEF FInv, HeadsPlaced
  <2> QED
    BY <2>1
<1>3. <<t, 0>> \notin Events
  BY <1>1 DEF Events
<1> QED
  BY <1>1, <1>2, <1>3 DEF Points

\* A new block is a block of no function.
LEMMA NewBlock ==
    ASSUME IInv, BInv, NEW t \in BB, t > nbb
    PROVE  owner[t] = NoFunc
BY DEF BInv, FreshBlocks

\* A step that only branches to block t.
LEMMA BranchFlow ==
    ASSUME IInv, BInv, FInv, currentFunc # NoFunc, NEW u, u = insertBB,
           NEW t \in BB, owner[t] = NoFunc, Elsewhere(Pending, u),
           NEW d, d = Emit(instrs, u, <<Br(t)>>)
    PROVE  /\ Fits(d, heads, flow, Wait(last, t, Pending), Points)
           /\ d \in Code /\ u \in BB /\ t # u /\ <<Br(t)>> \in Seq(Instr)
           /\ EventsFrom(d, u, Len(instrs[u])) = {}
           /\ \A b \in BB \ {u} : d[b] = instrs[b]
<1>1. u \in BB /\ owner[u] # NoFunc
  BY DEF IInv, TypeOK, InCurrentFunc, NoBB
<1>2. instrs \in Code /\ Br(t) \in Instr
  BY CodeType, NoBranches
<1>3. instrs[t] = <<>> /\ <<t, 0>> \notin heads /\ t # u
  BY <1>1, FreeBlock
<1>4. d = AppendTo(instrs, u, Br(t))
  BY <1>1, <1>2, EmitOne
<1>5. Fits(instrs, heads, flow, Wait(last, u, Pending), Points)
  BY DEF FInv, FlowFits
<1>6. Fits(AppendTo(instrs, u, Br(t)), heads, flow, Wait(last, t, Pending), Points)
  BY <1>1, <1>2, <1>3, <1>5, FitsBranch
<1>7. EventsFrom(d, u, Len(instrs[u])) = {}
  <2> DEFINE m == Len(instrs[u])
  <2>1. m \in 0..Len(instrs[u])
    BY <1>1, <1>2, CodeType
  <2>2. EventsFrom(instrs, u, m) = {}
    BY <1>1, <1>2, NothingNew
  <2> HIDE DEF m
  <2>3. EventsFrom(AppendTo(instrs, u, Br(t)), u, m) = EventsFrom(instrs, u, m)
    BY <1>1, <1>2, <2>1, EventsBranch
  <2> QED
    BY <1>4, <2>2, <2>3 DEF m
<1>8. d \in Code /\ \A b \in BB \ {u} : d[b] = instrs[b]
  <2>1. /\ AppendTo(instrs, u, Br(t)) \in Code
        /\ \A b \in BB \ {u} : AppendTo(instrs, u, Br(t))[b] = instrs[b]
    BY <1>1, <1>2, Appends1
  <2> QED
    BY <1>4, <2>1
<1> QED
  BY <1>1, <1>2, <1>3, <1>4, <1>6, <1>7, <1>8

\* Where the insertion point is nothing else waits.
LEMMA PendingAway ==
    ASSUME IInv, BInv, currentFunc # NoFunc
    PROVE  Elsewhere(Pending, insertBB)
<1>1. insertBB \in BB /\ owner[insertBB] # NoFunc
  BY DEF IInv, TypeOK, InCurrentFunc, NoBB
<1>2. Len(frames) \in 0..Len(frames)
  BY CodeType
<1> QED
  BY <1>1, <1>2, PendAway DEF Pending

\* A block or a for statement begins.
LEMMA BeginPlainFlow ==
    ASSUME IInv, BInv, FInv, BeginBlock \/ BeginFor, EnterPlain
    PROVE  FInv'
<1> DEFINE b == nbb + 1
           u == insertBB
<1>1. PICK h \in {Frame("block", b), Frame("forinit", b)} :
         /\ AnyStmt /\ frames' = Append(Took(TRUE), h)
         /\ b <= MaxBB
         /\ instrs' = Emit(instrs, u, <<Br(b)>>)
         /\ owner' = [owner EXCEPT ![b] = currentFunc] /\ insertBB' = b
         /\ UNCHANGED <<status, funcs, currentFunc, inDef>>
  <2>1. BeginFor => b + 4 <= MaxBB
    BY DEF BeginFor
  <2>2. b \in Nat
    BY CodeType
  <2>3. BeginFor => b <= MaxBB
    BY <2>1, <2>2, MaxBBAssumption
  <2> QED
    BY <2>3 DEF BeginBlock, BeginFor, Place, func
<1>2. /\ status = "running" /\ currentFunc # NoFunc /\ u \in BB /\ owner[u] = currentFunc
      /\ Running /\ InStmts
  BY <1>1, StmtFacts, TopFacts DEF AnyStmt, StmtPosition
<1>3. b \in BB /\ b > nbb /\ owner[b] = NoFunc
  <2>1. b \in BB /\ b > nbb
    BY <1>1, CodeType, MaxBBAssumption DEF BB
  <2> QED
    BY <2>1, NewBlock
<1>4. /\ h \in FrameRec /\ h.kind \in {"block", "forinit"}
  BY <1>3, FrameType DEF FrameKinds, ListKinds
<1>5. u = insertBB
  OBVIOUS
<1> HIDE DEF b, u
<1>6. Inside /\ owner'[u] = currentFunc /\ owner'[b] = currentFunc
  <2>1. owner \in Owners
    BY CodeType
  <2> QED
    BY <1>1, <1>2, <1>3, <2>1 DEF Inside, Owners
<1>7. Recorded' /\ Pending' = Pending
  <2>1. /\ Len(frames') = Len(frames) + 1 /\ frames'[Len(frames) + 1] = h
        /\ \A i \in 1..Len(frames) : Like(frames'[i], frames[i])
    BY <1>1, <1>4, CallsFacts DEF Calls, Like
  <2>2. heads \subseteq heads' /\ outer' = Append(outer, Simply)
    BY DEF EnterPlain
  <2>3. Simply \in Record /\ Holds(h, Simply, heads') /\ PendingOf(h, Simply) = {}
    BY <1>4, SimplyPlain DEF Holds
  <2>4. Recorded' /\ Pending' = Pending \cup PendingOf(h, Simply)
    BY <2>1, <2>2, <2>3, CallKept
  <2> QED
    BY <2>3, <2>4
<1>8. /\ Fits(instrs', heads, flow, Wait(last, b, Pending), Points)
      /\ <<Br(b)>> \in Seq(Instr)
      /\ EventsFrom(instrs', u, Len(instrs[u])) = {}
  <2>1. Elsewhere(Pending, u)
    BY <1>2, <1>5, PendingAway
  <2> QED
    BY <1>1, <1>2, <1>3, <1>5, <2>1, BranchFlow
<1>9. Grows({u}, currentFunc)
  BY <1>1, <1>2, <1>6, <1>8, GrowsOnce
<1>10. heads' = heads /\ flow' = flow /\ last' = last
  BY DEF EnterPlain
<1>11. Points' = Points
  BY <1>2, <1>8, <1>9, <1>10, PointsOne
<1>12. FlowFits'
  BY <1>1, <1>7, <1>8, <1>10, <1>11 DEF FlowFits
<1>13. HeadsGrow(currentFunc) /\ Outside' /\ currentFunc' \in {currentFunc, NoFunc}
  BY <1>1, <1>2, <1>10 DEF HeadsGrow, Outside
<1> QED
  BY <1>7, <1>9, <1>12, <1>13, GrowsKeeps

\* A block that waits to be inserted has no code, and nothing is known of it.
LEMMA WaitingFree ==
    ASSUME IInv, BInv, FInv, currentFunc # NoFunc, NEW i \in 1..Len(frames),
           NEW t \in ToInsert(frames[i])
    PROVE  /\ t \in BB /\ owner[t] = NoFunc /\ t # insertBB
           /\ instrs[t] = <<>> /\ <<t, 0>> \notin heads /\ <<t, 0>> \notin Points
<1>1. t \in BB /\ owner[t] = NoFunc /\ t # insertBB
  BY WaitingEmpty
<1> QED
  BY <1>1, FreeBlock

\* What waits at the end of a block are points.
LEMMA WaitsPlaces ==
    ASSUME NEW c, NEW hs, NEW F, NEW P, NEW u \in BB, NEW A, NEW R, Fits(c, hs, F, Wait(A, u, R), P)
    PROVE  A \in SUBSET (BB \X Nat)
<1>1. A \subseteq P
  BY FitsWaits
<1>2. P \subseteq BB \X Nat
  BY DEF Fits, Places
<1> QED
  BY <1>1, <1>2

\* Control has gone from A through the events N of a condition, and waits at
\* t and at e.
Divides(c, d, u, hs, F, A, R, P, N, t, e) ==
    /\ Fits(d, hs, F \cup Along(A, N), Wait(After(A, N), t, (After(A, N) \X {e}) \cup R), P \cup N)
    /\ d \in Code /\ \A b \in BB \ {u} : d[b] = c[b]

\* Control leaves through a terminator to blocks nobody has gone to.
LEMMA DepartFits ==
    ASSUME NEW c, NEW k, NEW hs, NEW F, NEW P, NEW u \in BB, NEW m, NEW A, NEW R,
           GoesThrough(c, k, u, m, hs, F, A, R, P), Elsewhere(R, u),
           NEW i \in Instr, IsTerm(i), ~IsBranch(i), Unused(c, hs, u, i.to),
           NEW d, d = AppendTo(k, u, i)
    PROVE  Departs(d, hs, F, A, R, P, EventsFrom(d, u, m), End(k, u), i.to)
<1>1. /\ k \in Code /\ Flows(k, u, m, hs, F, A, R, P) /\ m \in 0..Len(k[u])
      /\ \A b \in BB \ {u} : k[b] = c[b]
  BY DEF GoesThrough
<1>2. Unused(k, hs, u, i.to)
  BY <1>1 DEF Unused
<1> QED
  BY <1>1, <1>2, FlowsLeave

\* The terminator is a conditional branch.
LEMMA CondFits ==
    ASSUME NEW c, NEW k, NEW hs, NEW F, NEW P, NEW u \in BB, NEW m, NEW A, NEW R,
           GoesThrough(c, k, u, m, hs, F, A, R, P), Elsewhere(R, u),
           NEW t \in BB, NEW e \in BB, t # e, Unused(c, hs, u, {t, e}),
           NEW d, d = AppendTo(k, u, CondBr(t, e)), NEW N, N = EventsFrom(d, u, m)
    PROVE  Divides(c, d, u, hs, F, A, R, P, N, t, e)
<1> DEFINE i == CondBr(t, e)
<1>1. k \in Code /\ \A b \in BB \ {u} : k[b] = c[b]
  BY DEF GoesThrough
<1>2. i \in Instr /\ IsTerm(i) /\ ~IsBranch(i)
  BY NoBranches
<1>3. i.to = {t, e}
  BY NoBranches
<1>4. d = AppendTo(k, u, i) /\ Unused(c, hs, u, i.to)
  BY <1>3
<1> HIDE DEF i
<1>5. Departs(d, hs, F, A, R, P, EventsFrom(d, u, m), End(k, u), i.to)
  BY <1>2, <1>4, DepartFits
<1>6. Each(End(k, u), i.to, R) = Wait(After(A, N), t, (After(A, N) \X {e}) \cup R)
  <2>1. After(A, N) = {End(k, u)}
    BY <1>5 DEF Departs
  <2>2. \A x : {x} \X {t, e} = ({x} \X {t}) \cup ({x} \X {e})
    OBVIOUS
  <2> QED
    BY <1>3, <2>1, <2>2 DEF Each, Wait
<1>7. d \in Code /\ \A b \in BB \ {u} : d[b] = k[b]
  <2>1. /\ AppendTo(k, u, i) \in Code
        /\ \A b \in BB \ {u} : AppendTo(k, u, i)[b] = k[b]
    BY <1>1, <1>2, Appends1
  <2> QED
    BY <1>4, <2>1
<1> QED
  BY <1>1, <1>5, <1>6, <1>7 DEF Divides, Departs

\* An if: its condition, and control in both branches.
LEMMA BeginIfFlow ==
    ASSUME IInv, BInv, FInv, NEW e \in Exprs, BeginIf(e), EnterIf
    PROVE  FInv'
<1> DEFINE u == insertBB
           b == nbb + 1
           a == b + 1
           h == Frame("then", b)
           N == EventsFrom(instrs', u, Len(instrs[u]))
           L == After(last, N)
           o == Handler({}, L)
<1>1. /\ AnyStmt /\ frames' = Append(Took(TRUE), h) /\ ~Throws(blocks, e)
      /\ b + 2 <= MaxBB
      /\ instrs' = Emit(instrs, u, Append(ExprCode(blocks, e), CondBr(b, a)))
      /\ owner' = [owner EXCEPT ![b] = currentFunc] /\ insertBB' = b
      /\ UNCHANGED <<status, funcs, currentFunc, inDef>>
  BY DEF BeginIf, Place, func
<1>2. /\ status = "running" /\ currentFunc # NoFunc /\ u \in BB /\ owner[u] = currentFunc
      /\ Running /\ InStmts
  BY <1>1, StmtFacts, TopFacts DEF AnyStmt, StmtPosition
<1>3. /\ b \in BB /\ b > nbb /\ owner[b] = NoFunc
      /\ a \in BB /\ a > nbb /\ owner[a] = NoFunc /\ a # b
  <2>1. b \in BB /\ b > nbb /\ a \in BB /\ a > nbb /\ a # b
    BY <1>1, CodeType, MaxBBAssumption DEF BB
  <2> QED
    BY <2>1, NewBlock
<1>4. h \in FrameRec /\ h.kind = "then" /\ h.bb = b
  BY <1>3, FrameType DEF FrameKinds
<1>5. /\ flow' = flow \cup Along(last, N) /\ last' = L /\ heads' = heads
      /\ outer' = Append(outer, o)
  BY NewEventsAre DEF EnterIf
<1>6. u = insertBB /\ N = EventsFrom(instrs', u, Len(instrs[u])) /\ a = b + 1 /\ L = After(last, N)
  OBVIOUS
<1> HIDE DEF b, u, N, h, L, a
<1>7. Inside /\ owner'[u] = currentFunc /\ owner'[b] = currentFunc
  <2>1. owner \in Owners
    BY CodeType
  <2> QED
    BY <1>1, <1>2, <1>3, <2>1 DEF Inside, Owners
<1>8. blocks \in Seq(Scope) /\ instrs \in Code /\ CondBr(b, a) \in Instr
  BY <1>3, CodeType, NoBranches DEF IInv, TypeOK
<1>9. Starts(Pending)
  BY <1>2, InsideStarts
<1>10. Divides(instrs, instrs', u, heads, flow, last, Pending, Points, N, b, a)
  <2>1. PICK k \in Code :
           /\ instrs' = AppendTo(k, u, CondBr(b, a))
           /\ GoesThrough(instrs, k, u, Len(instrs[u]), heads, flow, last, Pending, Points)
    BY <1>1, <1>2, <1>6, <1>8, <1>9, ExprThen DEF Starts
  <2>2. Elsewhere(Pending, u)
    BY <1>6, <1>9 DEF Starts
  <2>3. Unused(instrs, heads, u, {b, a})
    BY <1>2, <1>3, FreeBlock DEF Unused
  <2> QED
    BY <1>2, <1>3, <1>6, <2>1, <2>2, <2>3, CondFits
<1>11. Fits(instrs', heads, flow \cup Along(last, N), Wait(L, b, (L \X {a}) \cup Pending), Points \cup N)
  BY <1>6, <1>10 DEF Divides
<1>12. o \in Record /\ o.exits = {} /\ o.start = L
  <2>1. L \in SUBSET (BB \X Nat)
    BY <1>3, <1>11, WaitsPlaces
  <2> QED
    BY <2>1, SimplyPlain
<1> HIDE DEF o
<1>13. Recorded' /\ Pending' = Pending \cup (L \X {a})
  <2>1. /\ Len(frames') = Len(frames) + 1 /\ frames'[Len(frames) + 1] = h
        /\ \A i \in 1..Len(frames) : Like(frames'[i], frames[i])
    BY <1>1, <1>4, CallsFacts DEF Calls, Like
  <2>2. Holds(h, o, heads') /\ PendingOf(h, o) = L \X {a}
    BY <1>4, <1>6, <1>12 DEF Holds, PendingOf
  <2>3. Recorded' /\ Pending' = Pending \cup PendingOf(h, o)
    BY <1>5, <1>12, <2>1, <2>2, CallKept
  <2> QED
    BY <2>2, <2>3
<1>14. Append(ExprCode(blocks, e), CondBr(b, a)) \in Seq(Instr)
  BY <1>1, <1>8, ExprCodeType
<1>15. Grows({u}, currentFunc)
  BY <1>1, <1>2, <1>7, <1>14, GrowsOnce
<1>16. Points' = Points \cup N
  BY <1>2, <1>5, <1>6, <1>15, PointsOne
<1>17. FlowFits'
  <2>1. (L \X {a}) \cup Pending = Pending'
    BY <1>13
  <2> QED
    BY <1>1, <1>5, <1>11, <1>16, <2>1 DEF FlowFits
<1>18. HeadsGrow(currentFunc) /\ Outside' /\ currentFunc' \in {currentFunc, NoFunc}
  BY <1>1, <1>2, <1>5 DEF HeadsGrow, Outside
<1> QED
  BY <1>13, <1>15, <1>17, <1>18, GrowsKeeps

\* The top handler becomes handler h.
LEMMA TurnKept ==
    ASSUME IInv, FInv, status = "running", heads \subseteq heads', NEW h \in FrameRec,
           frames' = Append(PopFrame, h),
           NEW o \in Record, Holds(h, o, heads'), outer' = Append(Around, o)
    PROVE  Recorded' /\ Pending' = Pend(frames, outer, Len(frames) - 1) \cup PendingOf(h, o)
<1> DEFINE n == Len(frames)
           k == n - 1
           fr == PopFrame
           ot == Around
<1>1. n \in 1..n /\ n \in Nat /\ Recorded /\ frames \in Seq(FrameRec)
  BY TopFacts, CodeType DEF FInv
<1>2. outer \in Seq(Record) /\ Len(outer) = n
  BY <1>1 DEF Recorded
<1>3. k \in Nat /\ k + 1 = n /\ k <= n
  BY <1>1
<1>4. fr \in Seq(FrameRec) /\ Len(fr) = k /\ \A i \in 1..k : fr[i] = frames[i]
  <2>1. 1 \in 1..n
    BY <1>1
  <2> QED
    BY <1>1, <2>1, Popped DEF PopFrame
<1>5. ot \in Seq(Record) /\ Len(ot) = k /\ \A i \in 1..k : ot[i] = outer[i]
  <2>1. 1 \in 1..Len(outer)
    BY <1>1, <1>2
  <2> QED
    BY <1>2, <2>1, Popped DEF Around
<1> HIDE DEF fr, ot
<1>6. /\ Len(frames') = k + 1 /\ frames'[k + 1] = h
      /\ \A i \in 1..k : frames'[i] = fr[i]
  <2>1. frames' = Append(fr, h)
    BY DEF fr
  <2> QED
    BY <1>4, <2>1, Pushed
<1>7. /\ outer' \in Seq(Record) /\ Len(outer') = k + 1 /\ outer'[k + 1] = o
      /\ \A i \in 1..k : outer'[i] = ot[i]
  <2>1. outer' = Append(ot, o)
    BY DEF ot
  <2> QED
    BY <1>5, <2>1, Pushed
<1>8. \A i \in 1..k : Like(frames'[i], frames[i]) /\ outer'[i] = outer[i]
  BY <1>4, <1>5, <1>6, <1>7 DEF Like
<1> HIDE DEF k
<1>9. \A i \in (k + 1)..Len(frames') : Holds(frames'[i], outer'[i], heads')
  <2>1. (k + 1)..(k + 1) = {k + 1}
    BY <1>3
  <2> QED
    BY <1>6, <1>7, <2>1
<1>10. Recorded' /\ Pend(frames', outer', k) = Pend(frames, outer, k)
  <2>1. k <= Len(frames) /\ Len(frames) \in Nat /\ Len(frames') \in Nat /\ k <= Len(frames')
        /\ Len(outer') = Len(frames')
    BY <1>1, <1>3, <1>6, <1>7
  <2> QED
    BY <1>1, <1>3, <1>7, <1>8, <1>9, <2>1, RecordedStep
<1>11. Pend(frames', outer', k + 1) =
          Pend(frames', outer', k) \cup PendingOf(frames'[k + 1], outer'[k + 1])
  BY <1>3, PendNext
<1> QED
  BY <1>6, <1>7, <1>10, <1>11 DEF Pending, k

\* A branch at the end of block x.
BranchAdded(c, d, x) ==
    /\ d \in Code /\ EventsFrom(d, x, Len(c[x])) = {} /\ \A b \in BB \ {x} : d[b] = c[b]

\* A branch is no event.
LEMMA BranchAdds ==
    ASSUME NEW c \in Code, NEW x \in BB, NEW t \in BB, NEW d, d = AppendTo(c, x, Br(t))
    PROVE  BranchAdded(c, d, x)
<1> DEFINE m == Len(c[x])
<1>1. m \in 0..Len(c[x]) /\ EventsFrom(c, x, m) = {}
  <2>1. Len(c[x]) \in Nat
    BY DEF Code
  <2>2. m \in 0..Len(c[x])
    BY <2>1
  <2> QED
    BY <2>2, NothingNew
<1>2. Br(t) \in Instr
  BY NoBranches
<1>3. /\ AppendTo(c, x, Br(t)) \in Code
      /\ \A b \in BB \ {x} : AppendTo(c, x, Br(t))[b] = c[b]
  BY <1>2, Appends1
<1> HIDE DEF m
<1>4. EventsFrom(AppendTo(c, x, Br(t)), x, m) = EventsFrom(c, x, m)
  BY <1>1, EventsBranch
<1> QED
  BY <1>1, <1>3, <1>4 DEF BranchAdded, m

\* Control branches from the insertion point to a block of the top handler,
\* or of the one that called it.
BranchTo(d, u, t) ==
    /\ Fits(d, heads, flow, Wait(last, t, Pending), Points)
    /\ d \in Code /\ u \in BB /\ t \in BB /\ t # u /\ <<Br(t)>> \in Seq(Instr)
    /\ EventsFrom(d, u, Len(instrs[u])) = {}
    /\ \A b \in BB \ {u} : d[b] = instrs[b]

\* The block is one that an active handler has still to insert.
LEMMA WaitingBranch ==
    ASSUME IInv, BInv, FInv, currentFunc # NoFunc, NEW u, u = insertBB,
           NEW i \in 1..Len(frames), NEW t \in ToInsert(frames[i]),
           NEW d, d = Emit(instrs, u, <<Br(t)>>)
    PROVE  BranchTo(d, u, t)
<1>1. t \in BB /\ owner[t] = NoFunc
  BY WaitingFree
<1>2. Elsewhere(Pending, u)
  BY PendingAway
<1> QED
  BY <1>1, <1>2, BranchFlow DEF BranchTo

\* The end of a branch with an else: control waits where the branches merge.
LEMMA ThenElseFlow ==
    ASSUME IInv, BInv, FInv, ThenElse, EnterElse
    PROVE  FInv'
<1> DEFINE u == insertBB
           b == Top.bb
           e == b + 1
           t == b + 2
           h == Frame("else", e)
           o == Handler(last, {})
           R == Pend(frames, outer, Len(frames) - 1)
<1>1. /\ Running /\ Top.kind = "then" /\ frames' = Append(PopFrame, h)
      /\ instrs' = Emit(instrs, u, <<Br(t)>>)
      /\ owner' = [owner EXCEPT ![e] = currentFunc] /\ insertBB' = e
      /\ UNCHANGED <<status, funcs, currentFunc, inDef>>
  BY DEF ThenElse, Place, func
<1>2. /\ status = "running" /\ currentFunc # NoFunc /\ u \in BB /\ owner[u] = currentFunc
      /\ Len(frames) \in 1..Len(frames) /\ Top = frames[Len(frames)] /\ b \in BB
  BY <1>1, CloseFacts
<1>3. {e, t} = ToInsert(frames[Len(frames)])
  BY <1>1, <1>2 DEF ToInsert
<1>4. e \in BB /\ owner[e] = NoFunc
  BY <1>2, <1>3, WaitingFree
<1>5. h \in FrameRec /\ h.kind = "else" /\ h.bb = e
  BY <1>4, FrameType DEF FrameKinds
<1>6. /\ last' = Inner.start /\ outer' = Append(Around, o) /\ heads' = heads /\ flow' = flow
  BY DEF EnterElse
<1>7. u = insertBB /\ e + 1 = t
  BY <1>2 DEF BB
<1>8. /\ Pending = R \cup PendingOf(Top, Inner) /\ PendingOf(Top, Inner) = Inner.start \X {e}
  BY <1>1, <1>2, PendTop DEF PendingOf
<1>9. o \in Record /\ o.exits = last /\ o.start = {}
  <2>1. last \in SUBSET (BB \X Nat)
    BY PointsPlaces
  <2> QED
    BY <2>1, SimplyPlain
<1> HIDE DEF u, b, h, o, R, e, t
<1>10. Inside /\ owner'[u] = currentFunc /\ owner'[e] = currentFunc
  <2>1. owner \in Owners
    BY CodeType
  <2> QED
    BY <1>1, <1>2, <1>4, <2>1 DEF Inside, Owners
<1>11. BranchTo(instrs', u, t)
  BY <1>1, <1>2, <1>3, <1>7, WaitingBranch
<1>12. Grows({u}, currentFunc)
  BY <1>1, <1>2, <1>10, <1>11, GrowsOnce DEF BranchTo
<1>13. Points' = Points
  BY <1>2, <1>6, <1>11, <1>12, PointsOne DEF BranchTo
<1>14. Recorded' /\ Pending' = R \cup (last \X {t})
  <2>1. Holds(h, o, heads') /\ PendingOf(h, o) = last \X {t}
    BY <1>5, <1>7, <1>9 DEF Holds, PendingOf
  <2>2. Recorded' /\ Pending' = Pend(frames, outer, Len(frames) - 1) \cup PendingOf(h, o)
    BY <1>1, <1>2, <1>5, <1>6, <1>9, <2>1, TurnKept
  <2> QED
    BY <2>1, <2>2 DEF R
<1>15. FlowFits'
  <2>1. Wait(last, t, Pending) = Wait(Inner.start, e, Pending')
    BY <1>8, <1>14 DEF Wait
  <2> QED
    BY <1>1, <1>6, <1>11, <1>13, <2>1 DEF FlowFits, BranchTo
<1>16. HeadsGrow(currentFunc) /\ Outside' /\ currentFunc' \in {currentFunc, NoFunc}
  BY <1>1, <1>2, <1>6 DEF HeadsGrow, Outside
<1> QED
  BY <1>12, <1>14, <1>15, <1>16, GrowsKeeps

\* The end of an if without an else, whose else block is a branch only.
LEMMA EndThenFlow ==
    ASSUME IInv, BInv, FInv, EndThen, LeaveIf
    PROVE  FInv'
<1> DEFINE u == insertBB
           b == Top.bb
           e == b + 1
           t == b + 2
           R == Pend(frames, outer, Len(frames) - 1)
           c == Emit(instrs, u, <<Br(t)>>)
           S == Inner.start
<1>1. /\ Running /\ Top.kind = "then" /\ frames' = PopFrame
      /\ instrs' = Emit(c, e, <<Br(t)>>)
      /\ owner' = [owner EXCEPT ![e] = currentFunc, ![t] = currentFunc] /\ insertBB' = t
      /\ UNCHANGED <<status, funcs, currentFunc, inDef>>
  BY DEF EndThen, func
<1>2. /\ status = "running" /\ currentFunc # NoFunc /\ u \in BB /\ owner[u] = currentFunc
      /\ Len(frames) \in 1..Len(frames) /\ Top = frames[Len(frames)] /\ b \in BB
  BY <1>1, CloseFacts
<1>3. {e, t} = ToInsert(frames[Len(frames)])
  BY <1>1, <1>2 DEF ToInsert
<1>4. /\ e \in BB /\ owner[e] = NoFunc /\ e # u /\ instrs[e] = <<>>
      /\ t \in BB /\ owner[t] = NoFunc /\ t # u /\ instrs[t] = <<>> /\ <<t, 0>> \notin heads
  BY <1>2, <1>3, WaitingFree
<1>5. last' = last \cup Inner.exits \cup S /\ outer' = Around /\ heads' = heads /\ flow' = flow
  BY DEF LeaveIf
<1>6. u = insertBB /\ t # e /\ c = Emit(instrs, u, <<Br(t)>>)
  BY <1>2 DEF BB
<1>7. Pending = R \cup (S \X {e}) /\ Inner.exits = {}
  <2>1. PendingOf(Top, Inner) = S \X {e}
    BY <1>1 DEF PendingOf
  <2>2. Pending = R \cup PendingOf(Top, Inner) /\ Holds(Top, Inner, heads)
    BY <1>2, PendTop
  <2> QED
    BY <1>1, <2>1, <2>2 DEF Holds
<1>8. Elsewhere(R, e)
  <2> DEFINE k == Len(frames) - 1
  <2>1. k \in 0..Len(frames) /\ Len(frames) \in (k + 1)..Len(frames)
    BY <1>2
  <2> HIDE DEF k
  <2>2. Elsewhere(Pend(frames, outer, k), e)
    BY <1>3, <2>1, PendApart
  <2> QED
    BY <2>2 DEF k
<1>9. Recorded' /\ Pending' = R
  <2>1. 1 <= Len(frames)
    BY <1>2
  <2> QED
    BY <1>1, <1>5, <2>1, PopKept DEF PopFrame, Around
<1> HIDE DEF u, b, R, e, t, c, S
<1>10. Inside /\ owner'[u] = currentFunc /\ owner'[e] = currentFunc
  <2>1. owner \in Owners
    BY CodeType
  <2> QED
    BY <1>1, <1>2, <1>4, <2>1 DEF Inside, Owners
<1>11. BranchTo(c, u, t)
  BY <1>2, <1>3, <1>6, WaitingBranch
<1>12. instrs' = AppendTo(c, e, Br(t)) /\ BranchAdded(c, instrs', e) /\ Elsewhere(Wait(last, t, R), e)
  <2>1. c \in Code /\ Br(t) \in Instr
    BY <1>4, <1>11, NoBranches DEF BranchTo
  <2>2. instrs' = AppendTo(c, e, Br(t))
    BY <1>1, <1>4, <2>1, EmitOne
  <2>3. Elsewhere(Wait(last, t, R), e)
    BY <1>6, <1>8 DEF Elsewhere, Wait
  <2> QED
    BY <1>4, <2>1, <2>2, <2>3, BranchAdds
<1>13. Fits(instrs', heads, flow, Wait(S, t, Wait(last, t, R)), Points)
  <2>1. Wait(last, t, Pending) = Wait(S, e, Wait(last, t, R))
    BY <1>7 DEF Wait
  <2>2. /\ Fits(c, heads, flow, Wait(S, e, Wait(last, t, R)), Points)
        /\ c \in Code /\ c[t] = <<>>
    BY <1>4, <1>11, <2>1 DEF BranchTo
  <2>3. Fits(AppendTo(c, e, Br(t)), heads, flow, Wait(S, t, Wait(last, t, R)), Points)
    BY <1>4, <1>6, <1>12, <2>2, FitsBranch
  <2> QED
    BY <1>12, <2>3
<1>14. Grows({u, e}, currentFunc)
  BY <1>1, <1>2, <1>4, <1>6, <1>10, <1>11, GrowsTwice DEF BranchTo
<1>15. Points' = Points
  <2>1. EventsFrom(instrs', u, Len(instrs[u])) = {}
    <3>1. instrs'[u] = c[u]
      BY <1>2, <1>4, <1>12 DEF BranchAdded
    <3> QED
      BY <1>11, <3>1 DEF BranchTo, EventsFrom
  <2>2. EventsFrom(instrs', e, Len(instrs[e])) = {}
    <3>1. c[e] = instrs[e]
      BY <1>4, <1>11 DEF BranchTo
    <3> QED
      BY <1>12, <3>1 DEF BranchAdded
  <2>3. HeadsGrow(currentFunc)
    BY <1>5 DEF HeadsGrow
  <2>4. heads \subseteq Points
    BY DEF Points
  <2>5. Points' = Points \cup heads' \cup EventsFrom(instrs', u, Len(instrs[u]))
                         \cup EventsFrom(instrs', e, Len(instrs[e]))
    BY <1>2, <1>4, <1>14, <2>3, PointsTwo
  <2> QED
    BY <1>5, <2>1, <2>2, <2>4, <2>5
<1>16. FlowFits'
  <2>1. Wait(S, t, Wait(last, t, R)) = Wait(last', t, Pending')
    BY <1>5, <1>7, <1>9 DEF Wait
  <2> QED
    BY <1>1, <1>5, <1>13, <1>15, <2>1 DEF FlowFits
<1>17. HeadsGrow(currentFunc) /\ Outside' /\ currentFunc' \in {currentFunc, NoFunc}
  BY <1>1, <1>2, <1>5 DEF HeadsGrow, Outside
<1> QED
  BY <1>9, <1>14, <1>16, <1>17, GrowsKeeps

\* The end of an else, where the branches merge.
LEMMA EndElseFlow ==
    ASSUME IInv, BInv, FInv, EndElse, LeaveIf
    PROVE  FInv'
<1> DEFINE u == insertBB
           t == Top.bb + 1
           R == Pend(frames, outer, Len(frames) - 1)
           X == Inner.exits
<1>1. /\ Running /\ Top.kind = "else" /\ frames' = PopFrame
      /\ instrs' = Emit(instrs, u, <<Br(t)>>)
      /\ owner' = [owner EXCEPT ![t] = currentFunc] /\ insertBB' = t
      /\ UNCHANGED <<status, funcs, currentFunc, inDef>>
  BY DEF EndElse, Place, func
<1>2. /\ status = "running" /\ currentFunc # NoFunc /\ u \in BB /\ owner[u] = currentFunc
      /\ Len(frames) \in 1..Len(frames) /\ Top = frames[Len(frames)]
  BY <1>1, CloseFacts
<1>3. t \in ToInsert(frames[Len(frames)])
  BY <1>1, <1>2 DEF ToInsert
<1>4. t \in BB /\ owner[t] = NoFunc
  BY <1>2, <1>3, WaitingFree
<1>5. last' = last \cup X \cup Inner.start /\ outer' = Around /\ heads' = heads /\ flow' = flow
  BY DEF LeaveIf
<1>6. Pending = R \cup (X \X {t}) /\ Inner.start = {}
  <2>1. PendingOf(Top, Inner) = X \X {t}
    BY <1>1 DEF PendingOf
  <2>2. Pending = R \cup PendingOf(Top, Inner) /\ Holds(Top, Inner, heads)
    BY <1>2, PendTop
  <2> QED
    BY <1>1, <2>1, <2>2 DEF Holds
<1>7. Recorded' /\ Pending' = R
  <2>1. 1 <= Len(frames)
    BY <1>2
  <2> QED
    BY <1>1, <1>5, <2>1, PopKept DEF PopFrame, Around
<1>8. u = insertBB
  OBVIOUS
<1> HIDE DEF u, t, R, X
<1>9. Inside /\ owner'[u] = currentFunc
  <2>1. owner \in Owners
    BY CodeType
  <2> QED
    BY <1>1, <1>2, <1>4, <2>1 DEF Inside, Owners
<1>10. BranchTo(instrs', u, t)
  BY <1>1, <1>2, <1>3, <1>8, WaitingBranch
<1>11. Grows({u}, currentFunc)
  BY <1>1, <1>2, <1>9, <1>10, GrowsOnce DEF BranchTo
<1>12. Points' = Points
  BY <1>2, <1>5, <1>10, <1>11, PointsOne DEF BranchTo
<1>13. FlowFits'
  <2>1. Wait(last, t, Pending) = Wait(last', t, Pending')
    BY <1>5, <1>6, <1>7 DEF Wait
  <2> QED
    BY <1>1, <1>5, <1>10, <1>12, <2>1 DEF FlowFits, BranchTo
<1>14. HeadsGrow(currentFunc) /\ Outside' /\ currentFunc' \in {currentFunc, NoFunc}
  BY <1>1, <1>2, <1>5 DEF HeadsGrow, Outside
<1> QED
  BY <1>7, <1>11, <1>13, <1>14, GrowsKeeps

\* The top handler becomes handler g and calls handler h.
LEMMA LoopKept ==
    ASSUME IInv, FInv, status = "running", heads \subseteq heads',
           NEW g \in FrameRec, NEW h \in FrameRec,
           frames' = Append([frames EXCEPT ![Len(frames)] = g], h),
           NEW o \in Record, Holds(g, o, heads'), Holds(h, Simply, heads'),
           outer' = Append(Append(Around, o), Simply)
    PROVE  Recorded' /\ Pending' = Pend(frames, outer, Len(frames) - 1) \cup PendingOf(g, o)
<1> DEFINE n == Len(frames)
           k == n - 1
           fr == [frames EXCEPT ![n] = g]
           ot == Around
           pt == Append(ot, o)
<1>1. n \in 1..n /\ n \in Nat /\ Recorded /\ frames \in Seq(FrameRec)
  BY TopFacts, CodeType DEF FInv
<1>2. outer \in Seq(Record) /\ Len(outer) = n
  BY <1>1 DEF Recorded
<1>3. k \in Nat /\ k + 1 = n /\ k <= n /\ k + 2 = n + 1 /\ (k + 1) + 1 = k + 2 /\ k + 1 \in Nat
      /\ \A i \in 1..k : i \in 1..n /\ i # n
  BY <1>1
<1>4. /\ fr \in Seq(FrameRec) /\ Len(fr) = n
      /\ \A i \in 1..n : fr[i] = IF i = n THEN g ELSE frames[i]
  BY <1>1, ExceptSeq
<1>5. ot \in Seq(Record) /\ Len(ot) = k /\ \A i \in 1..k : ot[i] = outer[i]
  <2>1. 1 \in 1..Len(outer)
    BY <1>1, <1>2
  <2> QED
    BY <1>2, <2>1, Popped DEF Around
<1> HIDE DEF fr, ot
<1>6. /\ Len(frames') = n + 1 /\ frames'[n + 1] = h
      /\ \A i \in 1..n : frames'[i] = fr[i]
  <2>1. frames' = Append(fr, h)
    BY DEF fr
  <2> QED
    BY <1>4, <2>1, Pushed
<1>7. pt \in Seq(Record) /\ Len(pt) = k + 1 /\ pt[k + 1] = o /\ \A i \in 1..k : pt[i] = ot[i]
  BY <1>5, Pushed
<1> HIDE DEF pt
<1>8. /\ outer' \in Seq(Record) /\ Len(outer') = n + 1 /\ outer'[n + 1] = Simply
      /\ \A i \in 1..n : outer'[i] = pt[i]
  <2>1. outer' = Append(pt, Simply) /\ Simply \in Record
    BY SimplyPlain DEF pt, ot
  <2>2. Len(pt) = n
    BY <1>3, <1>7
  <2>3. pt \in Seq(Record)
    BY <1>7
  <2> DEFINE s == Simply
             q == Append(pt, s)
  <2> HIDE DEF s
  <2>4. s \in Record /\ outer' = q
    BY <2>1 DEF s
  <2>5. /\ q \in Seq(Record) /\ Len(q) = Len(pt) + 1 /\ q[Len(q)] = s
        /\ \A i \in 1..Len(pt) : q[i] = pt[i]
    BY <2>3, <2>4, Pushed
  <2> HIDE DEF q
  <2> QED
    BY <2>2, <2>4, <2>5 DEF s
<1>9. /\ frames'[k + 1] = g /\ outer'[k + 1] = o /\ frames'[k + 2] = h /\ outer'[k + 2] = Simply
      /\ \A i \in 1..k : frames'[i] = frames[i] /\ outer'[i] = outer[i]
  <2>1. frames'[n] = g /\ outer'[n] = pt[n]
    BY <1>1, <1>4, <1>6, <1>8
  <2>2. \A i \in 1..k : frames'[i] = frames[i] /\ outer'[i] = outer[i]
    BY <1>3, <1>4, <1>5, <1>6, <1>7, <1>8
  <2> QED
    BY <1>3, <1>6, <1>7, <1>8, <2>1, <2>2
<1>10. \A i \in 1..k : Like(frames'[i], frames[i]) /\ outer'[i] = outer[i]
  BY <1>9 DEF Like
<1> HIDE DEF k
<1>11. \A i \in (k + 1)..Len(frames') : Holds(frames'[i], outer'[i], heads')
  <2>1. (k + 1)..Len(frames') = {k + 1, k + 2}
    BY <1>3, <1>6, LastTwo
  <2> QED
    BY <1>9, <2>1
<1>12. Recorded' /\ Pend(frames', outer', k) = Pend(frames, outer, k)
  <2>1. k <= Len(frames) /\ Len(frames) \in Nat /\ Len(frames') \in Nat /\ k <= Len(frames')
        /\ Len(outer') = Len(frames')
    BY <1>1, <1>3, <1>6, <1>8
  <2> QED
    BY <1>1, <1>3, <1>8, <1>10, <1>11, <2>1, RecordedStep
<1>13. Pend(frames', outer', k + 1) =
          Pend(frames', outer', k) \cup PendingOf(frames'[k + 1], outer'[k + 1])
  BY <1>3, PendNext
<1>14. Pend(frames', outer', (k + 1) + 1) =
          Pend(frames', outer', k + 1) \cup PendingOf(frames'[(k + 1) + 1], outer'[(k + 1) + 1])
  <2> DEFINE j == k + 1
  <2>1. j \in Nat
    BY <1>3
  <2> HIDE DEF j
  <2>2. Pend(frames', outer', j + 1) = Pend(frames', outer', j) \cup PendingOf(frames'[j + 1], outer'[j + 1])
    BY <2>1, PendNext
  <2> QED
    BY <2>2 DEF j
<1>15. PendingOf(h, Simply) = {}
  BY SimplyPlain
<1>16. Pending' = Pend(frames', outer', k + 2)
  BY <1>3, <1>6 DEF Pending
<1> QED
  BY <1>3, <1>9, <1>12, <1>13, <1>14, <1>15, <1>16 DEF k

----------------------------------------------------------------------------
\* Loops.

\* Control comes from the insertion point to a head at t, where it has not
\* been before.
LEMMA HeadStarts ==
    ASSUME IInv, BInv, FInv, NEW u, NEW t, NEW d, BranchTo(d, u, t),
           instrs[t] = <<>>, <<t, 0>> \notin heads, <<t, 0>> \notin Points,
           NEW R, R = Pending, Elsewhere(R, t), NEW h, h = <<t, 0>>
    PROVE  Flows(d, t, 0, heads \cup {h}, Wait(last, h, flow), {h}, R, Points \cup {h})
<1>1. /\ Fits(d, heads, flow, Wait(last, t, R), Points) /\ d \in Code /\ t \in BB
      /\ d[t] = <<>>
  BY DEF BranchTo
<1>2. Fits(d, heads \cup {<<t, 0>>}, Wait(last, <<t, 0>>, flow), Wait({<<t, 0>>}, t, R),
           Points \cup {<<t, 0>>})
  BY <1>1, FitsHead
<1> DEFINE hs == heads \cup {h}
           F == Wait(last, h, flow)
           P == Points \cup {h}
           A == {h}
<1>3. Fits(d, hs, F, Wait(A, t, R), P)
  BY <1>2
<1> HIDE DEF hs, F, P, A
<1>4. Flows(d, t, Len(d[t]), hs, F, A, R, P)
  BY <1>1, <1>3, FlowsStart
<1> QED
  BY <1>1, <1>4 DEF hs, F, P, A

\* The condition of a for statement: control goes on to t, and what leaves
\* the loop waits at e.
Loops(c, d, v, hs, F, A, R, P, N, t, X, e) ==
    /\ Fits(d, hs, F \cup Along(A, N), Wait(After(A, N), t, (X \X {e}) \cup R), P \cup N)
    /\ d \in Code /\ \A b \in BB \ {v} : d[b] = c[b]

\* The end i of the test of a loop, and what leaves the loop there.
TestEnds(cond, i, t, e, X, L) ==
    /\ i = IF cond = NoExpr THEN Br(t) ELSE CondBr(t, e)
    /\ X = IF cond = NoExpr THEN {} ELSE L

\* With a condition control divides, without one it only goes on.
LEMMA LoopTest ==
    ASSUME NEW c, NEW k, NEW hs, NEW F, NEW P, NEW v \in BB, NEW m, NEW A, NEW R,
           GoesThrough(c, k, v, m, hs, F, A, R, P), Elsewhere(R, v),
           NEW t \in BB, NEW e \in BB, t # e, Unused(c, hs, v, {t, e}), NEW i,
           NEW d, d = AppendTo(k, v, i), NEW N, N = EventsFrom(d, v, m),
           NEW cond, NEW X, TestEnds(cond, i, t, e, X, After(A, N))
    PROVE  Loops(c, d, v, hs, F, A, R, P, N, t, X, e)
<1>1. CASE cond = NoExpr
  <2>1. /\ k \in Code /\ Flows(k, v, m, hs, F, A, R, P) /\ m \in 0..Len(k[v])
        /\ \A b \in BB \ {v} : k[b] = c[b]
    BY DEF GoesThrough
  <2>2. t # v /\ k[t] = <<>> /\ <<t, 0>> \notin hs
    BY <2>1 DEF Unused
  <2>3. d = AppendTo(k, v, Br(t)) /\ X = {}
    BY <1>1 DEF TestEnds
  <2>4. Fits(d, hs, F \cup Along(A, N), Wait(After(A, N), t, R), P \cup N)
    BY <2>1, <2>2, <2>3, FlowsBranch
  <2>5. BranchAdded(k, d, v)
    BY <2>1, <2>3, BranchAdds
  <2>6. (X \X {e}) \cup R = R
    BY <2>3
  <2>7. d \in Code /\ \A b \in BB \ {v} : d[b] = c[b]
    BY <2>1, <2>5 DEF BranchAdded
  <2> QED
    BY <2>4, <2>6, <2>7 DEF Loops
<1>2. CASE cond # NoExpr
  <2>1. d = AppendTo(k, v, CondBr(t, e)) /\ X = After(A, N)
    BY <1>2 DEF TestEnds
  <2>2. Divides(c, d, v, hs, F, A, R, P, N, t, e)
    BY <2>1, CondFits
  <2> QED
    BY <2>1, <2>2 DEF Divides, Loops
<1> QED
  BY <1>1, <1>2

\* The condition of a for: a head, then the test, then the body.
LEMMA ForConditionFlow ==
    ASSUME IInv, BInv, FInv, NEW cond \in Exprs \cup {NoExpr}, ForCondition(cond), EnterLoop(cond)
    PROVE  FInv'
<1> DEFINE u == insertBB
           b == Top.bb
           v == b + 1
           t == b + 2
           e == b + 4
           h == <<v, 0>>
           A == {h}
           R == Pend(frames, outer, Len(frames) - 1)
           c == Emit(instrs, u, <<Br(v)>>)
           hs == heads \cup {h}
           F == Wait(last, h, flow)
           P == Points \cup {h}
           N == EventsFrom(instrs', v, 0)
           X == IF cond = NoExpr THEN {} ELSE After(A, N)
           g == [Top EXCEPT !.kind = "for", !.branched = TRUE]
           l == Frame("loopbody", t)
           o == Handler(X, A)
           exit == IF cond = NoExpr THEN Br(t) ELSE CondBr(t, e)
           w == Append(ExprCode(blocks, cond), exit)
<1>1. /\ Top.kind = "forinit" /\ ~Throws(blocks, cond)
      /\ frames' = Append([frames EXCEPT ![Len(frames)] = g], l)
      /\ instrs' = Emit(c, v, w)
      /\ owner' = [owner EXCEPT ![v] = currentFunc, ![t] = currentFunc] /\ insertBB' = t
      /\ UNCHANGED <<status, funcs, currentFunc, inDef>>
  BY DEF ForCondition, func
<1>2. /\ status = "running" /\ currentFunc # NoFunc /\ u \in BB /\ owner[u] = currentFunc
      /\ Len(frames) \in 1..Len(frames) /\ Top = frames[Len(frames)] /\ Top \in FrameRec
      /\ b \in BB
  <2>1. status = "running"
    BY DEF ForCondition, Running
  <2> QED
    BY <1>1, <2>1, TopFacts DEF FrameRec
<1>3. {v, t, e} \subseteq ToInsert(frames[Len(frames)])
  BY <1>1, <1>2 DEF ToInsert
<1>4. /\ v \in BB /\ owner[v] = NoFunc /\ v # u /\ instrs[v] = <<>>
      /\ <<v, 0>> \notin heads /\ <<v, 0>> \notin Points
      /\ t \in BB /\ owner[t] = NoFunc /\ t # u /\ instrs[t] = <<>> /\ <<t, 0>> \notin heads
      /\ e \in BB /\ owner[e] = NoFunc /\ e # u /\ instrs[e] = <<>> /\ <<e, 0>> \notin heads
  BY <1>2, <1>3, WaitingFree
<1>5. v # t /\ v # e /\ t # e
  BY <1>2 DEF BB
<1>6. g \in FrameRec /\ g.kind = "for" /\ g.bb = b
  BY <1>2 DEF FrameRec, FrameKinds
<1>7. l \in FrameRec /\ l.kind = "loopbody"
  BY <1>4, FrameType DEF FrameKinds
<1>8. /\ Len(instrs[v]) = 0 /\ NewEvents(v) = N
  <2>1. Len(instrs[v]) = 0
    BY <1>4
  <2> QED
    BY <2>1, NewEventsAre
<1>9. /\ heads' = hs /\ flow' = F \cup Along(A, N) /\ last' = After(A, N)
      /\ outer' = Append(Append(Around, o), Simply)
  BY <1>8 DEF EnterLoop, Wait
<1>10. /\ u = insertBB /\ h = <<v, 0>> /\ A = {h} /\ hs = heads \cup {h} /\ F = Wait(last, h, flow)
       /\ P = Points \cup {h} /\ N = EventsFrom(instrs', v, 0) /\ g.bb + 1 = v /\ g.bb + 4 = e
       /\ X = (IF cond = NoExpr THEN {} ELSE After(A, N))
       /\ exit = (IF cond = NoExpr THEN Br(t) ELSE CondBr(t, e))
       /\ w = Append(ExprCode(blocks, cond), exit) /\ c = Emit(instrs, u, <<Br(v)>>)
  BY <1>6
<1>11. Pending = R
  BY <1>1, <1>2, PendTop DEF PendingOf
<1>12. Elsewhere(R, v)
  <2> DEFINE k == Len(frames) - 1
  <2>1. k \in 0..Len(frames) /\ Len(frames) \in (k + 1)..Len(frames)
    BY <1>2
  <2> HIDE DEF k
  <2>2. Elsewhere(Pend(frames, outer, k), v)
    BY <1>3, <2>1, PendApart
  <2> QED
    BY <2>2 DEF k
<1>13. R = Pend(frames, outer, Len(frames) - 1) /\ o = Handler(X, A)
  OBVIOUS
<1> HIDE DEF u, b, v, t, e, h, A, R, c, hs, F, P, N, X, g, l, o, exit, w
<1>14. Inside /\ owner'[u] = currentFunc /\ owner'[v] = currentFunc
  <2>1. owner \in Owners
    BY CodeType
  <2> QED
    BY <1>1, <1>2, <1>4, <2>1 DEF Inside, Owners
<1>15. BranchTo(c, u, v)
  <2>1. v \in ToInsert(frames[Len(frames)])
    BY <1>3
  <2> QED
    BY <1>2, <1>10, <2>1, WaitingBranch
<1>16. Flows(c, v, 0, hs, F, A, R, P)
  <2>1. Flows(c, v, 0, heads \cup {h}, Wait(last, h, flow), {h}, R, Points \cup {h})
    BY <1>4, <1>10, <1>11, <1>12, <1>15, HeadStarts
  <2> QED
    BY <1>10, <2>1
<1>17. /\ c \in Code /\ 0 \in 0..Len(c[v]) /\ c[v] = <<>> /\ c[t] = <<>> /\ c[e] = <<>>
  BY <1>4, <1>15 DEF BranchTo
<1>18. exit \in Instr /\ blocks \in Seq(Scope) /\ w \in Seq(Instr)
  <2>1. exit \in Instr
    BY <1>4, <1>5, <1>10, NoBranches
  <2>2. blocks \in Seq(Scope)
    BY DEF IInv, TypeOK
  <2>3. ExprCode(blocks, cond) \in Seq(Instr)
    BY <1>1, <2>2, ExprCodeType
  <2> QED
    BY <1>10, <2>1, <2>2, <2>3
<1>19. Loops(c, instrs', v, hs, F, A, R, P, N, t, X, e)
  <2>1. PICK k \in Code : /\ instrs' = AppendTo(k, v, exit)
                          /\ GoesThrough(c, k, v, 0, hs, F, A, R, P)
    <3>1. instrs' = Emit(c, v, Append(ExprCode(blocks, cond), exit))
      BY <1>1, <1>10
    <3> QED
      BY <1>1, <1>4, <1>12, <1>16, <1>17, <1>18, <3>1, ExprThen
  <2>2. Unused(c, hs, v, {t, e})
    BY <1>4, <1>5, <1>10, <1>17 DEF Unused
  <2>3. TestEnds(cond, exit, t, e, X, After(A, N))
    BY <1>10 DEF TestEnds
  <2>4. /\ N = EventsFrom(instrs', v, 0)
        /\ v \in BB /\ t \in BB /\ e \in BB /\ t # e
    BY <1>4, <1>5, <1>10
  <2> DEFINE d == instrs'
             m == 0
  <2>5. /\ d = AppendTo(k, v, exit) /\ N = EventsFrom(d, v, m) /\ GoesThrough(c, k, v, m, hs, F, A, R, P)
    BY <2>1, <2>4
  <2> HIDE DEF d, m
  <2>6. Loops(c, d, v, hs, F, A, R, P, N, t, X, e)
    BY <1>12, <2>2, <2>3, <2>4, <2>5, LoopTest
  <2> QED
    BY <2>6 DEF d
<1>20. /\ Fits(instrs', hs, F \cup Along(A, N), Wait(After(A, N), t, (X \X {e}) \cup R), P \cup N)
       /\ \A x \in BB \ {v} : instrs'[x] = c[x]
  BY <1>19 DEF Loops
<1>21. o \in Record /\ o.exits = X /\ o.start = A
  <2>1. After(A, N) \in SUBSET (BB \X Nat)
    BY <1>4, <1>20, WaitsPlaces
  <2>2. A \in SUBSET (BB \X Nat)
    <3>1. A = {h} /\ h = <<v, 0>> /\ v \in BB
      BY <1>4, <1>10
    <3> QED
      BY <3>1
  <2>3. X = {} \/ X = After(A, N)
    BY <1>10
  <2>4. X \in SUBSET (BB \X Nat)
    BY <2>1, <2>3
  <2> QED
    BY <1>13, <2>2, <2>4, SimplyPlain
<1>22. Recorded' /\ Pending' = R \cup (X \X {e})
  <2>1. Holds(g, o, heads') /\ PendingOf(g, o) = X \X {e}
    BY <1>6, <1>9, <1>10, <1>21 DEF Holds, PendingOf
  <2>2. Holds(l, Simply, heads')
    BY <1>7 DEF Holds
  <2>3. heads \subseteq heads'
    BY <1>9, <1>10
  <2>4. Recorded' /\ Pending' = Pend(frames, outer, Len(frames) - 1) \cup PendingOf(g, o)
    BY <1>1, <1>2, <1>6, <1>7, <1>9, <1>21, <2>1, <2>2, <2>3, LoopKept
  <2> QED
    BY <1>13, <2>1, <2>4
<1>23. Grows({u, v}, currentFunc)
  <2>1. instrs' = Emit(Emit(instrs, u, <<Br(v)>>), v, w) /\ <<Br(v)>> \in Seq(Instr)
    BY <1>1, <1>10, <1>15 DEF BranchTo
  <2> QED
    BY <1>2, <1>4, <1>14, <1>18, <2>1, GrowsTwice
<1>24. HeadsGrow(currentFunc)
  BY <1>4, <1>9, <1>10, <1>14 DEF HeadsGrow
<1>25. Points' = P \cup N
  <2>1. EventsFrom(instrs', u, Len(instrs[u])) = {}
    <3>1. instrs'[u] = c[u]
      BY <1>2, <1>4, <1>20
    <3> QED
      BY <1>15, <3>1 DEF BranchTo, EventsFrom
  <2>2. EventsFrom(instrs', v, Len(instrs[v])) = N
    BY <1>8, <1>10
  <2>3. heads \subseteq Points
    BY DEF Points
  <2>4. Points' = Points \cup heads' \cup EventsFrom(instrs', u, Len(instrs[u]))
                         \cup EventsFrom(instrs', v, Len(instrs[v]))
    BY <1>2, <1>4, <1>23, <1>24, PointsTwo
  <2>5. Points' = Points \cup hs \cup N
    BY <1>9, <2>1, <2>2, <2>4
  <2> QED
    BY <1>10, <2>3, <2>5
<1>26. FlowFits'
  <2>1. Wait(After(A, N), t, (X \X {e}) \cup R) = Wait(last', insertBB', Pending')
    BY <1>1, <1>9, <1>22 DEF Wait
  <2> QED
    BY <1>9, <1>20, <1>25, <2>1 DEF FlowFits
<1>27. Outside' /\ currentFunc' \in {currentFunc, NoFunc}
  BY <1>1, <1>2 DEF Outside
<1> QED
  BY <1>22, <1>23, <1>24, <1>26, <1>27, GrowsKeeps

\* The loop whose body is the top handler.
LEMMA LoopAround ==
    ASSUME IInv, FInv, Running, Top.kind = "loopbody",
           NEW b, b = frames[Len(frames) - 1].bb, NEW r, r = outer[Len(frames) - 1]
    PROVE  /\ Pending = Pend(frames, outer, Len(frames) - 2) \cup (r.exits \X {b + 4})
           /\ r.start = {<<b + 1, 0>>} /\ <<b + 1, 0>> \in heads
           /\ b \in BB /\ b + 1 \in BB /\ b + 4 \in BB
           /\ ToInsert(frames[Len(frames) - 1]) = {b + 3, b + 4}
<1> DEFINE n == Len(frames)
           k == n - 2
           h == frames[n - 1]
<1>1. /\ status = "running" /\ n \in Nat /\ n > 3 /\ h.kind = "for" /\ frames \in Seq(FrameRec)
      /\ Top = frames[n]
  BY CloseFacts
<1>2. /\ n - 1 \in 1..n /\ k \in Nat /\ k + 1 = n - 1 /\ (n - 1) + 1 = n /\ n - 1 \in Nat
  BY <1>1
<1>3. Holds(h, r, heads)
  BY <1>1, <1>2 DEF FInv, Recorded
<1>4. b \in BB /\ b + 1 \in BB /\ b + 4 \in BB
  <2>1. h \in FrameRec
    BY <1>1, <1>2, ElementOfSeq
  <2>2. b + Ahead(h.kind) <= nbb
    BY <1>2 DEF IInv, HandlersNested, WellNested
  <2>3. b \in BB
    BY <2>1 DEF FrameRec
  <2>4. b + 4 <= nbb /\ nbb \in 0..MaxBB
    BY <1>1, <2>2, AheadOf DEF IInv, TypeOK
  <2> QED
    BY <2>3, <2>4, BlocksAhead
<1>5. ToInsert(h) = {b + 3, b + 4}
  BY <1>1 DEF ToInsert
<1>6. Pending = Pend(frames, outer, n - 1)
  <2>1. Pending = Pend(frames, outer, n - 1) \cup PendingOf(Top, Inner)
    BY <1>1, PendTop
  <2>2. PendingOf(Top, Inner) = {}
    BY DEF PendingOf
  <2> QED
    BY <2>1, <2>2
<1>7. Pend(frames, outer, n - 1) = Pend(frames, outer, k) \cup PendingOf(h, r)
  <2>1. k \in Nat
    BY <1>2
  <2> HIDE DEF k
  <2>2. Pend(frames, outer, k + 1) = Pend(frames, outer, k) \cup PendingOf(frames[k + 1], outer[k + 1])
    BY <2>1, PendNext
  <2> QED
    BY <1>2, <2>2
<1>8. PendingOf(h, r) = r.exits \X {b + 4}
  BY <1>1 DEF PendingOf
<1> QED
  BY <1>1, <1>3, <1>4, <1>5, <1>6, <1>7, <1>8 DEF Holds

\* The end of a for: the increment, the branch back, and control where the
\* loop is left.
LEMMA EndForFlow ==
    ASSUME IInv, BInv, FInv, NEW incr \in Exprs \cup {NoExpr}, EndFor(incr), LeaveFor
    PROVE  FInv'
<1> DEFINE u == insertBB
           n == Len(frames)
           b == frames[n - 1].bb
           a == b + 1
           v == b + 3
           e == b + 4
           h == <<a, 0>>
           r == outer[n - 1]
           X == r.exits
           R == Pend(frames, outer, n - 2)
           Q == Pending
           c == Emit(instrs, u, <<Br(v)>>)
           N == EventsFrom(instrs', v, 0)
           loop == PopBasicBlock(blocks)
           w == Append(ExprCode(loop, incr), Br(a))
<1>1. /\ Running /\ Top.kind = "loopbody" /\ ~Throws(loop, incr)
      /\ frames' = SubSeq(frames, 1, n - 2)
      /\ instrs' = Emit(c, v, w)
      /\ owner' = [owner EXCEPT ![v] = currentFunc, ![e] = currentFunc] /\ insertBB' = e
      /\ UNCHANGED <<status, funcs, currentFunc, inDef>>
  BY DEF EndFor, func
<1>2. /\ status = "running" /\ currentFunc # NoFunc /\ u \in BB /\ owner[u] = currentFunc
      /\ n \in Nat /\ n > 3 /\ blocks \in Seq(Scope) /\ Len(blocks) = n
  BY <1>1, CloseFacts
<1>3. /\ Q = R \cup (X \X {e}) /\ r.start = {h} /\ h \in heads
      /\ b \in BB /\ a \in BB /\ e \in BB /\ ToInsert(frames[n - 1]) = {v, e}
  BY <1>1, LoopAround
<1>4. n - 1 \in 1..n /\ n - 2 \in 0..n /\ n - 1 \in ((n - 2) + 1)..n
  BY <1>2
<1>5. v \in BB /\ owner[v] = NoFunc /\ v # u /\ instrs[v] = <<>> /\ owner[e] = NoFunc
  <2> DEFINE j == n - 1
  <2>1. j \in 1..Len(frames) /\ v \in ToInsert(frames[j]) /\ e \in ToInsert(frames[j])
    BY <1>3, <1>4
  <2> HIDE DEF j
  <2>2. v \in BB /\ owner[v] = NoFunc /\ v # insertBB /\ instrs[v] = <<>>
    BY <1>2, <2>1, WaitingFree
  <2>3. owner[e] = NoFunc
    BY <1>2, <2>1, WaitingFree
  <2> QED
    BY <2>2, <2>3
<1>6. v # e /\ v # a
  BY <1>3 DEF BB
<1>7. Elsewhere(Q, v)
  <2> DEFINE k == n - 2
             j == n - 1
  <2>1. k \in 0..Len(frames) /\ j \in (k + 1)..Len(frames) /\ v \in ToInsert(frames[j])
    BY <1>3, <1>4
  <2> HIDE DEF k, j
  <2>2. Elsewhere(Pend(frames, outer, k), v)
    BY <2>1, PendApart
  <2>3. Elsewhere(R, v)
    BY <2>2 DEF k
  <2> QED
    BY <1>3, <1>6, <2>3 DEF Elsewhere
<1>8. Len(instrs[v]) = 0 /\ NewEvents(v) = N
  <2>1. Len(instrs[v]) = 0
    BY <1>5
  <2> QED
    BY <2>1, NewEventsAre
<1>9. Len(outer) = n
  BY DEF FInv, Recorded
<1>10. /\ heads' = heads /\ flow' = flow \cup Along(last, N) \cup (After(last, N) \X {h})
       /\ last' = X /\ outer' = SubSeq(outer, 1, n - 2)
  BY <1>3, <1>8, <1>9 DEF LeaveFor
<1>11. Recorded' /\ Pending' = R
  <2>1. 2 \in {1, 2} /\ 2 <= Len(frames) /\ heads \subseteq heads'
    BY <1>2, <1>10
  <2>2. /\ frames' = SubSeq(frames, 1, Len(frames) - 2)
        /\ outer' = SubSeq(outer, 1, Len(outer) - 2)
    BY <1>1, <1>9, <1>10
  <2>3. Recorded' /\ Pending' = Pend(frames, outer, Len(frames) - 2)
    BY <2>1, <2>2, PopKept
  <2> QED
    BY <2>3
<1>12. loop \in Seq(Scope)
  <2>1. 1 \in 1..Len(blocks)
    BY <1>2
  <2> QED
    BY <1>2, <2>1, Popped DEF PopBasicBlock
<1>13. u = insertBB /\ Q = Pending /\ h = <<a, 0>> /\ N = EventsFrom(instrs', v, 0)
       /\ w = Append(ExprCode(loop, incr), Br(a)) /\ c = Emit(instrs, u, <<Br(v)>>)
  OBVIOUS
<1>14. v \in ToInsert(frames[n - 1]) /\ n - 1 \in 1..Len(frames)
  BY <1>3, <1>4
<1> HIDE DEF u, b, a, v, e, h, r, X, R, Q, c, N, loop, w
<1>15. Inside /\ owner'[u] = currentFunc /\ owner'[v] = currentFunc
  <2>1. owner \in Owners
    BY CodeType
  <2> QED
    BY <1>1, <1>2, <1>3, <1>5, <2>1 DEF Inside, Owners
<1>16. BranchTo(c, u, v)
  BY <1>2, <1>13, <1>14, WaitingBranch
<1>17. /\ c \in Code /\ Len(c[v]) = 0 /\ 0 \in 0..Len(c[v])
  <2>1. c \in Code /\ c[v] = <<>>
    BY <1>5, <1>16 DEF BranchTo
  <2> QED
    BY <2>1
<1>18. Flows(c, v, 0, heads, flow, last, Q, Points)
  <2>1. Fits(c, heads, flow, Wait(last, v, Q), Points)
    BY <1>13, <1>16 DEF BranchTo
  <2>2. Flows(c, v, Len(c[v]), heads, flow, last, Q, Points)
    BY <1>5, <1>17, <2>1, FlowsStart
  <2> QED
    BY <1>17, <2>2
<1>19. Br(a) \in Instr /\ w \in Seq(Instr)
  <2>1. Br(a) \in Instr
    BY <1>3, NoBranches
  <2>2. ExprCode(loop, incr) \in Seq(Instr)
    BY <1>1, <1>12, ExprCodeType
  <2> QED
    BY <1>13, <2>1, <2>2
<1> DEFINE d == instrs'
           m == 0
<1>20. PICK k \in Code : d = AppendTo(k, v, Br(a)) /\ GoesThrough(c, k, v, m, heads, flow, last, Q, Points)
  <2>1. d = Emit(c, v, Append(ExprCode(loop, incr), Br(a)))
    BY <1>1, <1>13
  <2> QED
    BY <1>1, <1>5, <1>7, <1>12, <1>17, <1>18, <1>19, <2>1, ExprThen
<1>21. N = EventsFrom(d, v, m)
  BY <1>13
<1> HIDE DEF d, m
<1>22. Fits(d, heads, flow \cup Along(last, N) \cup (After(last, N) \X {h}), Q, Points \cup N)
  <2>1. Flows(k, v, m, heads, flow, last, Q, Points) /\ m \in 0..Len(k[v])
    BY <1>20 DEF GoesThrough
  <2>2. /\ <<a, 0>> \in heads /\ <<a, 0>> \in Points /\ a \in BB /\ a # v
    BY <1>3, <1>6, <1>13, PointsPlaces
  <2>3. Fits(d, heads, flow \cup Along(last, N) \cup (After(last, N) \X {<<a, 0>>}), Q, Points \cup N)
    BY <1>5, <1>7, <1>20, <1>21, <2>1, <2>2, FlowsLoop
  <2> QED
    BY <1>13, <2>3
<1>23. \A x \in BB \ {v} : d[x] = c[x]
  <2>1. \A x \in BB \ {v} : k[x] = c[x]
    BY <1>20 DEF GoesThrough
  <2>2. \A x \in BB \ {v} : AppendTo(k, v, Br(a))[x] = k[x]
    BY <1>5, <1>19, <1>20, Appends1
  <2> QED
    BY <1>20, <2>1, <2>2
<1>24. Grows({u, v}, currentFunc)
  <2>1. instrs' = Emit(Emit(instrs, u, <<Br(v)>>), v, w) /\ <<Br(v)>> \in Seq(Instr)
    BY <1>1, <1>13, <1>16 DEF BranchTo
  <2> QED
    BY <1>2, <1>5, <1>15, <1>19, <2>1, GrowsTwice
<1>25. HeadsGrow(currentFunc)
  BY <1>10 DEF HeadsGrow
<1>26. Points' = Points \cup N
  <2>1. EventsFrom(instrs', u, Len(instrs[u])) = {}
    <3>1. instrs'[u] = c[u]
      BY <1>2, <1>5, <1>23 DEF d
    <3> QED
      BY <1>16, <3>1 DEF BranchTo, EventsFrom
  <2>2. EventsFrom(instrs', v, Len(instrs[v])) = N
    BY <1>8, <1>13
  <2>3. heads \subseteq Points
    BY DEF Points
  <2>4. Points' = Points \cup heads' \cup EventsFrom(instrs', u, Len(instrs[u]))
                         \cup EventsFrom(instrs', v, Len(instrs[v]))
    BY <1>2, <1>5, <1>24, <1>25, PointsTwo
  <2> QED
    BY <1>10, <2>1, <2>2, <2>3, <2>4
<1>27. FlowFits'
  <2>1. Q = Wait(last', insertBB', Pending')
    BY <1>1, <1>3, <1>10, <1>11 DEF Wait
  <2> QED
    BY <1>10, <1>22, <1>26, <2>1 DEF FlowFits, d
<1>28. Outside' /\ currentFunc' \in {currentFunc, NoFunc}
  BY <1>1, <1>2 DEF Outside
<1> QED
  BY <1>11, <1>24, <1>25, <1>27, <1>28, GrowsKeeps

----------------------------------------------------------------------------
\* The functions of a program, and the program.

\* Outside of functions control is nowhere and nothing is pending.
LEMMA NothingPending ==
    ASSUME IInv, FInv, currentFunc = NoFunc
    PROVE  last = {} /\ Pending = {}
<1>1. last = {}
  BY DEF FInv, Outside
<1>2. \A i \in 1..Len(frames) : frames[i].kind = "prog"
  <2>1. Len(frames) \in Nat /\ ~(Len(frames) > 1)
    BY CodeType DEF IInv, HandlersNested
  <2>2. \A i \in 1..Len(frames) : i = 1
    BY <2>1
  <2> QED
    BY <2>2 DEF IInv, HandlersNested, WellNested
<1>3. \A i \in 1..Len(frames) : PendingOf(frames[i], outer[i]) = {}
  BY <1>2 DEF PendingOf
<1> QED
  BY <1>1, <1>3 DEF Pending, Pend

\* A function begins at a head.
LEMMA BeginFuncFlow ==
    ASSUME IInv, BInv, FInv, NEW f \in FuncNames, NEW void \in BOOLEAN, BeginFunc(f, void), Enter
    PROVE  FInv'
<1> DEFINE t == nbb + 1
           e == Frame("params", t)
           fr == Took(FALSE)
           h == <<t, 0>>
<1>1. /\ Running /\ Top.kind = "prog" /\ f \notin funcs /\ funcs' = funcs \cup {f}
      /\ currentFunc' = f /\ owner' = [owner EXCEPT ![t] = f] /\ insertBB' = t
      /\ frames' = Append(fr, e) /\ UNCHANGED <<status, instrs, inDef>>
  BY DEF BeginFunc
<1>2. /\ status = "running" /\ currentFunc = NoFunc /\ frames # <<>> /\ frames \in Seq(FrameRec)
      /\ Len(frames) \in Nat
  BY <1>1, TopFacts, CodeType DEF Running
<1>3. t \in BB /\ t > nbb /\ "params" \in FrameKinds
  BY MaxBBAssumption DEF BeginFunc, IInv, TypeOK, BB, FrameKinds
<1>4. owner[t] = NoFunc /\ instrs[t] = <<>> /\ <<t, 0>> \notin heads /\ <<t, 0>> \notin Points
  BY <1>3, NewBlock, FreeBlock
<1>5. e \in FrameRec /\ e.kind = "params" /\ e.bb = t
  BY <1>3, FrameType
<1>6. /\ fr \in Seq(FrameRec) /\ Len(fr) = Len(frames)
      /\ \A i \in 1..Len(frames) : fr[i].kind = frames[i].kind /\ fr[i].bb = frames[i].bb
  BY <1>2, TookType
<1>7. /\ heads' = heads \cup {h} /\ last' = {h} /\ flow' = flow /\ outer' = Append(outer, Simply)
  BY DEF Enter
<1>8. h = <<t, 0>>
  OBVIOUS
<1>9. last = {} /\ Pending = {}
  BY <1>2, NothingPending
<1> HIDE DEF t, e, fr, h
<1>10. Recorded' /\ Pending' = {}
  <2>1. /\ Len(frames') = Len(fr) + 1 /\ frames'[Len(fr) + 1] = e
        /\ \A i \in 1..Len(fr) : frames'[i] = fr[i]
    BY <1>1, <1>5, <1>6, Pushed
  <2>2. /\ Len(frames') = Len(frames) + 1 /\ frames'[Len(frames) + 1] = e
        /\ \A i \in 1..Len(frames) : Like(frames'[i], frames[i])
    BY <1>6, <2>1 DEF Like
  <2>3. Holds(e, Simply, heads') /\ PendingOf(e, Simply) = {} /\ Simply \in Record
    BY <1>5, SimplyPlain DEF Holds
  <2>4. Recorded' /\ Pending' = Pending \cup PendingOf(e, Simply)
    BY <1>7, <2>2, <2>3, CallKept
  <2> QED
    BY <1>9, <2>3, <2>4
<1>11. instrs \in Code /\ instrs' = instrs /\ owner \in Owners
  BY <1>1, CodeType
<1>12. Grows({}, f) /\ HeadsGrow(f)
  <2>1. f \notin IOFuncs
    BY <1>1, <1>2 DEF FInv, PrintersFirst
  <2>2. Extends(instrs, instrs')
    BY <1>11 DEF Extends, Code
  <2>3. \A b \in BB : owner'[b] = owner[b] \/ (owner[b] = NoFunc /\ owner'[b] = f)
    BY <1>1, <1>3, <1>4, <1>11 DEF Owners
  <2>4. owner'[t] = f
    BY <1>1, <1>3, <1>11 DEF Owners
  <2>5. HeadsGrow(f)
    BY <1>3, <1>7, <1>8, <2>4 DEF HeadsGrow
  <2> QED
    BY <1>1, <1>2, <1>11, <2>1, <2>2, <2>3, <2>5 DEF Grows
<1>13. Points' = Points \cup {h}
  <2>1. Points' = Points \cup heads' \cup
                     UNION {EventsFrom(instrs', b, Len(instrs[b])) : b \in BB \cap {}}
    BY <1>12, GrowsPoints
  <2>2. heads \subseteq Points
    BY DEF Points
  <2> QED
    BY <1>7, <2>1, <2>2
<1>14. Fits(instrs, heads \cup {h}, flow, Wait({h}, t, {}), Points \cup {h})
  <2>1. Fits(instrs, heads, flow, Wait({}, insertBB, {}), Points)
    BY <1>9 DEF FInv, FlowFits
  <2>2. Wait({}, insertBB, {}) = Wait({}, t, {}) /\ Elsewhere({}, t) /\ Wait({}, h, flow) = flow
    BY DEF Wait, Elsewhere
  <2>3. Fits(instrs, heads, flow, Wait({}, t, {}), Points)
    BY <2>1, <2>2
  <2>4. Fits(instrs, heads \cup {<<t, 0>>}, Wait({}, <<t, 0>>, flow), Wait({<<t, 0>>}, t, {}),
             Points \cup {<<t, 0>>})
    BY <1>3, <1>4, <1>11, <2>2, <2>3, FitsHead
  <2> QED
    BY <1>8, <2>2, <2>4
<1>15. FlowFits'
  BY <1>1, <1>7, <1>10, <1>13, <1>14 DEF FlowFits
<1>16. Outside' /\ currentFunc' \in {f, NoFunc}
  BY <1>1, FuncAssumption DEF Outside
<1> QED
  BY <1>10, <1>12, <1>15, <1>16, GrowsKeeps

\* No point, no flow.
LEMMA NoPoints ==
    ASSUME NEW c, NEW u
    PROVE  Fits(c, {}, {}, Wait({}, u, {}), {})
BY DEF Fits, Wait

\* While the printing functions are made there is no flow.
LEMMA IOFlow ==
    ASSUME IInv, FInv, status = "io"
    PROVE  /\ heads = {} /\ flow = {} /\ last = {} /\ currentFunc = NoFunc /\ Pending = {}
           /\ frames = <<>> /\ Len(frames) = 0 /\ ~inDef
           /\ \A b \in BB : owner[b] \in Foreign
<1>1. heads = {} /\ currentFunc = NoFunc /\ \A b \in BB : owner[b] \in Foreign
  BY DEF FInv, PrintersFirst
<1>2. Points = {}
  BY <1>1, PointsAre DEF PointsOf
<1>3. flow = {}
  BY <1>2 DEF FInv, FlowFits, Fits
<1> QED
  BY <1>1, <1>3, NothingPending DEF IInv, HandlersNested, FInv, Outside

\* The temporary function is neither a printing function nor none.
LEMMA NotForeign == GlobalFunc \notin Foreign
BY FuncAssumption DEF Foreign

\* A printing function, the beginning and the end of the program add no
\* points.
LEMMA CreatePrintFuncFlow ==
    ASSUME IInv, FInv, NEW f \in FuncNames, CreatePrintFunc(f), UNCHANGED history
    PROVE  FInv'
<1>1. /\ status = "io" /\ f \in IOFuncs /\ owner' = [owner EXCEPT ![nbb + 1] = f]
      /\ UNCHANGED <<status, currentFunc, insertBB, frames, inDef>>
      /\ UNCHANGED <<heads, flow, last, outer>>
  BY DEF CreatePrintFunc, history
<1>2. /\ heads = {} /\ flow = {} /\ last = {} /\ currentFunc = NoFunc /\ Pending = {}
      /\ frames = <<>> /\ Len(frames) = 0 /\ ~inDef /\ \A b \in BB : owner[b] \in Foreign
  BY <1>1, IOFlow
<1>3. \A b \in BB : owner'[b] \in Foreign
  <2>1. owner \in Owners
    BY CodeType
  <2> QED
    BY <1>1, <1>2, <2>1 DEF Owners, Foreign
<1>4. Recorded' /\ Pending' = {}
  <2>1. Len(frames') = Len(frames) /\ \A i \in 1..Len(frames) : Like(frames'[i], frames[i])
    BY <1>1 DEF Like
  <2>2. Recorded' /\ Pending' = Pending
    BY <1>1, <2>1, SameKept
  <2> QED
    BY <1>2, <2>2
<1>5. Points' = {}
  BY <1>1, <1>2, <1>3, PointsAreNext DEF PointsOf
<1>6. FlowFits'
  BY <1>1, <1>2, <1>4, <1>5, NoPoints DEF FlowFits
<1>7. HeadsPlaced' /\ NoGlobalCode' /\ Outside'
  BY <1>1, <1>2, <1>3, NotForeign DEF HeadsPlaced, NoGlobalCode, Outside
<1>8. PrintersFirst'
  <2>1. NoFunc \notin IOFuncs
    BY FuncAssumption
  <2> QED
    BY <1>1, <1>2, <1>3, <2>1 DEF PrintersFirst
<1> QED
  BY <1>4, <1>6, <1>7, <1>8 DEF FInv

LEMMA BeginProgFlow ==
    ASSUME IInv, BInv, FInv, BeginProg, EnterPlain
    PROVE  FInv'
<1> DEFINE t == nbb + 1
           e == Frame("prog", t)
<1>1. /\ status = "io" /\ status' = "running" /\ IOFuncs \subseteq funcs
      /\ owner' = [owner EXCEPT ![t] = GlobalFunc] /\ frames' = <<e>>
      /\ UNCHANGED <<funcs, currentFunc, instrs, insertBB, inDef>>
      /\ UNCHANGED <<heads, flow, last>> /\ outer' = Append(outer, Simply)
  BY DEF BeginProg, EnterPlain, func
<1>2. /\ heads = {} /\ flow = {} /\ last = {} /\ currentFunc = NoFunc /\ Pending = {}
      /\ frames = <<>> /\ Len(frames) = 0 /\ ~inDef /\ \A b \in BB : owner[b] \in Foreign
  BY <1>1, IOFlow
<1>3. t \in BB /\ t > nbb /\ "prog" \in FrameKinds
  BY MaxBBAssumption DEF BeginProg, IInv, TypeOK, BB, FrameKinds, ListKinds
<1>4. e \in FrameRec /\ e.kind = "prog"
  BY <1>3, FrameType
<1>5. owner[t] = NoFunc /\ instrs[t] = <<>>
  <2>1. owner[t] = NoFunc
    BY <1>3, NewBlock
  <2> QED
    BY <1>3, <2>1 DEF BInv, FreshBlocks
<1> HIDE DEF t, e
<1>6. \A b \in BB : (b = t /\ owner'[b] = GlobalFunc) \/ (b # t /\ owner'[b] \in Foreign)
  <2>1. owner \in Owners
    BY CodeType
  <2> QED
    BY <1>1, <1>2, <2>1 DEF Owners
<1>7. Recorded' /\ Pending' = {}
  <2>1. Len(frames') = Len(frames) + 1 /\ frames'[Len(frames) + 1] = e
    BY <1>1, <1>2
  <2>2. \A i \in 1..Len(frames) : Like(frames'[i], frames[i])
    BY <1>2
  <2>3. Holds(e, Simply, heads') /\ PendingOf(e, Simply) = {} /\ Simply \in Record
    BY <1>4, SimplyPlain DEF Holds
  <2>4. Recorded' /\ Pending' = Pending \cup PendingOf(e, Simply)
    BY <1>1, <2>1, <2>2, <2>3, CallKept
  <2> QED
    BY <1>2, <2>3, <2>4
<1>8. Points' = {}
  <2>1. EventsFrom(instrs', t, 0) = {}
    BY <1>1, <1>5 DEF EventsFrom
  <2>2. \A b \in {x \in BB : owner'[x] \notin Foreign} : EventsFrom(instrs', b, 0) = {}
    BY <1>6, <2>1
  <2>3. PointsOf(instrs', owner', heads') = {}
    BY <1>1, <1>2, <2>2 DEF PointsOf
  <2> QED
    BY <2>3, PointsAreNext
<1>9. FlowFits'
  BY <1>1, <1>2, <1>7, <1>8, NoPoints DEF FlowFits
<1>10. HeadsPlaced' /\ NoGlobalCode' /\ Outside'
  BY <1>1, <1>2, <1>5, <1>6, NotForeign DEF HeadsPlaced, NoGlobalCode, Outside
<1>11. PrintersFirst'
  <2>1. NoFunc \notin IOFuncs
    BY FuncAssumption
  <2> QED
    BY <1>1, <1>2, <2>1 DEF PrintersFirst
<1> QED
  BY <1>7, <1>9, <1>10, <1>11 DEF FInv

LEMMA EndProgFlow ==
    ASSUME IInv, BInv, FInv, EndProg, LeavePlain
    PROVE  FInv'
<1> DEFINE b == Top.bb
<1>1. /\ Running /\ Top.kind = "prog" /\ status' = "generated"
      /\ instrs' = [instrs EXCEPT ![b] = <<>>] /\ owner' = [owner EXCEPT ![b] = NoFunc]
      /\ frames' = PopFrame /\ UNCHANGED <<funcs, currentFunc, insertBB, inDef>>
      /\ UNCHANGED <<heads, flow, last>> /\ outer' = Around
  BY DEF EndProg, LeavePlain, func
<1>2. status = "running" /\ frames # <<>> /\ Top = frames[1] /\ b \in BB
  BY <1>1, TopFacts DEF Running, FrameRec
<1>3. owner[b] = GlobalFunc /\ instrs[b] = <<>>
  <2>1. owner[b] = GlobalFunc
    BY <1>2 DEF BInv, GlobalBlock
  <2> QED
    BY <1>2, <2>1 DEF FInv, NoGlobalCode
<1> HIDE DEF b
<1>4. instrs' = instrs
  BY <1>1, <1>2, <1>3, CodeType DEF Code
<1>5. /\ owner'[b] = NoFunc /\ \A x \in BB : x # b => owner'[x] = owner[x]
  BY <1>1, <1>2, CodeType DEF Owners
<1>6. Recorded' /\ Pending' = Pending
  BY <1>1, <1>2, PopPlain
<1>7. Points' = Points
  <2>1. EventsFrom(instrs, b, 0) = {}
    BY <1>3 DEF EventsFrom
  <2>2. NoFunc \in Foreign
    BY DEF Foreign
  <2>3. PointsOf(instrs, owner', heads) = PointsOf(instrs, owner, heads)
    <3>1. UNION {EventsFrom(instrs, x, 0) : x \in {y \in BB : owner'[y] \notin Foreign}}
            = UNION {EventsFrom(instrs, x, 0) : x \in {y \in BB : owner[y] \notin Foreign}}
      BY <1>5, <2>1, <2>2
    <3> QED
      BY <3>1 DEF PointsOf
  <2> QED
    BY <1>1, <1>4, <2>3, PointsAre, PointsAreNext
<1>8. FlowFits'
  BY <1>1, <1>4, <1>6, <1>7 DEF FInv, FlowFits
<1>9. HeadsPlaced'
  BY <1>1, <1>3, <1>5 DEF FInv, HeadsPlaced
<1>10. NoGlobalCode' /\ Outside'
  <2>1. NoFunc # GlobalFunc
    BY FuncAssumption
  <2> QED
    BY <1>1, <1>4, <1>5, <2>1 DEF FInv, NoGlobalCode, Outside
<1>11. PrintersFirst'
  BY <1>1, <1>2 DEF FInv, PrintersFirst
<1> QED
  BY <1>6, <1>8, <1>9, <1>10, <1>11 DEF FInv

\* Nothing but the status changes.
LEMMA UnchangedFlow ==
    ASSUME IInv, FInv, status' = status \/ {status, status'} \cap {"io"} = {},
           UNCHANGED <<funcs, currentFunc, instrs, owner, insertBB, frames, inDef>>,
           UNCHANGED <<heads, flow, last, outer>>
    PROVE  FInv'
<1>1. Recorded' /\ Pending' = Pending
  <2>1. Len(frames') = Len(frames) /\ \A i \in 1..Len(frames) : Like(frames'[i], frames[i])
    BY DEF Like
  <2> QED
    BY <2>1, SameKept
<1>2. FlowFits'
  BY <1>1, SameFits
<1>3. HeadsPlaced' /\ NoGlobalCode' /\ Outside'
  BY DEF FInv, HeadsPlaced, NoGlobalCode, Outside
<1>4. PrintersFirst'
  BY DEF FInv, PrintersFirst
<1> QED
  BY <1>1, <1>2, <1>3, <1>4 DEF FInv

----------------------------------------------------------------------------
\* The invariant holds, and with it the flow of finished programs.

\* In the beginning there is no code.
LEMMA InitFInv == Init /\ FlowInit => FInv
<1> SUFFICES ASSUME Init, FlowInit PROVE FInv
  OBVIOUS
<1>1. /\ heads = {} /\ flow = {} /\ last = {} /\ outer = <<>>
      /\ status = "io" /\ currentFunc = NoFunc /\ frames = <<>> /\ Len(frames) = 0 /\ ~inDef
      /\ owner = [b \in BB |-> NoFunc] /\ instrs = [b \in BB |-> <<>>]
  BY DEF Init, FlowInit
<1>2. \A b \in BB : owner[b] = NoFunc /\ owner[b] \in Foreign
  BY <1>1 DEF Foreign
<1>3. Pending = {}
  <2>1. \A i \in 1..Len(frames) : FALSE
    BY <1>1
  <2> QED
    BY <2>1 DEF Pending, Pend
<1>4. Recorded
  BY <1>1 DEF Recorded
<1>5. Points = {}
  BY <1>1, <1>2, PointsAre DEF PointsOf
<1>6. FlowFits
  BY <1>1, <1>3, <1>5, NoPoints DEF FlowFits
<1>7. HeadsPlaced /\ NoGlobalCode /\ Outside
  BY <1>1 DEF HeadsPlaced, NoGlobalCode, Outside
<1>8. PrintersFirst
  BY <1>1, <1>2, FuncAssumption DEF PrintersFirst
<1> QED
  BY <1>4, <1>6, <1>7, <1>8 DEF FInv

\* A step with its history is a step of CodeGen.
LEMMA FlowNextIsNext == [FlowNext]_<<vars, history>> => [Next]_vars
BY DEF FlowNext, Next, Step

\* Every step keeps the invariant.
LEMMA NextFInv ==
    ASSUME ~GlobalVars, IInv, BInv, FInv, [FlowNext]_<<vars, history>>
    PROVE  FInv'
<1>1. ASSUME NEW f \in FuncNames, CreatePrintFunc(f), UNCHANGED history PROVE FInv'
  BY <1>1, CreatePrintFuncFlow
<1>2. ASSUME BeginBody \/ EmptyStmt \/ Abort, UNCHANGED history PROVE FInv'
  <2>1. CASE BeginBody
    BY <1>2, <2>1, BeginBodyFlow
  <2>2. CASE EmptyStmt
    BY <1>2, <2>2, EmptyStmtFlow
  <2>3. CASE Abort
    <3>1. status = "running" /\ status' = "aborted" /\ UNCHANGED <<func, code, frames, inDef>>
      BY <2>3 DEF Abort
    <3> QED
      BY <1>2, <3>1, UnchangedFlow DEF func, code, history
  <2> QED
    BY <1>2, <2>1, <2>2, <2>3
<1>3. ASSUME BeginProg \/ BeginBlock \/ BeginFor, EnterPlain PROVE FInv'
  BY <1>3, BeginProgFlow, BeginPlainFlow
<1>4. ASSUME EndProg \/ EndBlock, LeavePlain PROVE FInv'
  BY <1>4, EndProgFlow, EndBlockFlow
<1>5. ASSUME NEW f \in FuncNames, NEW void \in BOOLEAN, BeginFunc(f, void), Enter PROVE FInv'
  BY <1>5, BeginFuncFlow
<1>6. ASSUME NEW v \in Vars, AddParam(v), InOrder PROVE FInv'
  BY <1>6, AddParamFlow
<1>7. ASSUME EndFunc, LeaveFunc, outer' = Around PROVE FInv'
  BY <1>7, EndFuncFlow
<1>8. ASSUME NEW e \in Exprs, ExprStmt(e), InOrder PROVE FInv'
  BY <1>8, ExprStmtFlow
<1>9. ASSUME NEW v \in Vars, NEW e \in Exprs \cup {NoExpr}, NEW more \in BOOLEAN,
             DefineVar(v, e, more), InOrder
      PROVE  FInv'
  BY <1>9, DefineVarFlow
<1>10. ASSUME NEW e \in Exprs, BeginIf(e), EnterIf PROVE FInv'
  BY <1>10, BeginIfFlow
<1>11. ASSUME ThenElse, EnterElse PROVE FInv'
  BY <1>11, ThenElseFlow
<1>12. ASSUME EndThen \/ EndElse, LeaveIf PROVE FInv'
  BY <1>12, EndThenFlow, EndElseFlow
<1>13. ASSUME NEW e \in Exprs \cup {NoExpr}, ForCondition(e), EnterLoop(e) PROVE FInv'
  BY <1>13, ForConditionFlow
<1>14. ASSUME NEW e \in Exprs \cup {NoExpr}, EndFor(e), LeaveFor PROVE FInv'
  BY <1>14, EndForFlow
<1>15. ASSUME NEW e \in Exprs \cup {NoExpr}, Return(e), LeaveFunc, UNCHANGED outer PROVE FInv'
  BY <1>15, ReturnFlow
<1>16. ASSUME UNCHANGED vars, UNCHANGED history PROVE FInv'
  BY <1>16, UnchangedFlow DEF vars, func, code, history
<1>17. CASE UNCHANGED <<vars, history>>
  BY <1>16, <1>17
<1>18. CASE FlowNext
  BY <1>1, <1>2, <1>3, <1>4, <1>5, <1>6, <1>7, <1>8, <1>9, <1>10, <1>11, <1>12, <1>13,
     <1>14, <1>15, <1>16, <1>18 DEF FlowNext, Ended
<1> QED
  BY <1>17, <1>18

\* While a program without global variables is generated, the code leads from
\* each access, call, condition and loop head to what the source has next, or
\* to where the active handlers go on (CodeGenContext's Builder, and the blocks
\* that IfStmt and ForStmt::CodeGen have still to insert).
THEOREM FlowInductive ==
    ASSUME ~GlobalVars
    PROVE  FlowSpec => [](IInv /\ BInv /\ FInv)
<1>1. Init /\ FlowInit => IInv /\ BInv /\ FInv
  BY InitIInv, InitBInv, InitFInv
<1>2. IInv /\ BInv /\ FInv /\ [FlowNext]_<<vars, history>> => (IInv /\ BInv /\ FInv)'
  BY FlowNextIsNext, NextIInv, NextBInv, NextFInv
<1> QED
  BY <1>1, <1>2, PTL DEF FlowSpec

\* After every access, call and condition of a generated program without global
\* variables comes what the source has next: through the ends of ifs that meet,
\* loops that come back and what is dropped after a return (Block, IfStmt,
\* ForStmt, ReturnStmt and FuncBody::CodeGen).
THEOREM FlowIsAsWritten ==
    ASSUME ~GlobalVars
    PROVE  FlowSpec => []FlowAsWritten
<1>1. IInv /\ FInv => FlowAsWritten
  <2> SUFFICES ASSUME IInv, FInv, Generated, NEW p \in Points
               PROVE  NextInCode(instrs, heads, p) = NextInSource(p)
    BY DEF FlowAsWritten
  <2>1. currentFunc = NoFunc
    <3>1. Len(frames) = 0
      BY DEF Generated, IInv, HandlersNested
    <3> QED
      BY <3>1 DEF IInv, HandlersNested
  <2>2. last = {} /\ Pending = {}
    BY <2>1, NothingPending
  <2>3. Fits(instrs, heads, flow, {}, Points)
    <3>1. Wait({}, insertBB, {}) = {}
      BY DEF Wait
    <3> QED
      BY <2>2, <3>1 DEF FInv, FlowFits
  <2>4. NextInCode(instrs, heads, p) = Beyond(instrs, flow, {}, p) /\ flow \subseteq Points \X Points
    BY <2>3 DEF Fits
  <2>5. Beyond(instrs, flow, {}, p) = {q \in BB \X Nat : <<p, q>> \in flow}
    BY DEF Beyond
  <2>6. Points \subseteq BB \X Nat
    BY PointsPlaces
  <2>7. NextInSource(p) = {q \in BB \X Nat : <<p, q>> \in flow}
    BY <2>4, <2>6 DEF NextInSource
  <2> QED
    BY <2>4, <2>5, <2>7
<1> QED
  BY <1>1, FlowInductive, PTL
=============================================================================
