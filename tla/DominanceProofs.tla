-------------------------- MODULE DominanceProofs --------------------------
(***************************************************************************)
(* In a program without global variables the alloca of every variable that *)
(* is accessed comes before the access: earlier in its block, or in a      *)
(* block that is on every path from the entry to it (DefDominatesUse),     *)
(* wherever the program returns and declares.  That the alloca is not      *)
(* behind the end of its block is WellFormed.                              *)
(*                                                                         *)
(* For each block d with allocas there is a set of blocks, the region of   *)
(* d, that no branch enters but at d itself.  While the scope of d is      *)
(* open, the region holds the block of the Builder and all that the        *)
(* handlers called in the scope have still to insert; once it is closed,   *)
(* nothing that is still to come belongs to it.  The scope stack finds a   *)
(* variable only as long as its scope is open, so each access is in the    *)
(* region.  In d itself the instructions are in the order in which they    *)
(* were emitted (Ordered).                                                 *)
(***************************************************************************)
EXTENDS ScopeProofs

\* The blocks that handler h may still branch to or write to: what it has to
\* insert and, in a for statement past its initialization, the condition.
Future(h) == ToInsert(h) \cup (IF h.kind = "for" THEN {h.bb + 1} ELSE {})

\* The scope of a for statement is that of its initialization, which holds
\* the rest of the statement.
Loop(h) == h.kind \in {"forinit", "for"}

\* What the j-th handler has still to insert is in the scope of the k-th.
Encloses(fr, k, j) == k < j \/ (k = j /\ Loop(fr[k]))

\* The parts of a region S of d: it begins at d; branches enter it at d only;
\* it holds all of an open scope; it holds nothing to come of any other; and
\* what accesses a variable of d is in it.
Begins(d, S) == \A x \in S : d <= x /\ x <= nbb

Entered(d, S) == \A x \in BB \ S : \A i \in Elems(instrs[x]) : i.to \cap S \subseteq {d}

HoldsOpen(d, S) ==
    \A k \in 2..Len(frames) : frames[k].bb = d =>
        /\ insertBB \in S
        /\ \A j \in k..Len(frames) : Encloses(frames, k, j) => Future(frames[j]) \subseteq S

HoldsOnly(d, S) ==
    \A j \in 2..Len(frames) : \A t \in Future(frames[j]) \cap S :
        \E k \in 2..j : frames[k].bb = d /\ Encloses(frames, k, j)

HoldsUses(d, S) ==
    \A x \in BB : \A i \in Elems(instrs[x]) : i.op = "access" /\ i.ptr[1] = d => x \in S

Region(d, S) ==
    /\ Begins(d, S) /\ Entered(d, S) /\ HoldsUses(d, S)
    /\ HoldsOpen(d, S) /\ HoldsOnly(d, S)

\* In the block of an alloca the accesses come after it.
Ordered(c) ==
    \A x \in BB : \A k \in 1..Len(c[x]) :
        c[x][k].op = "access" /\ c[x][k].ptr[1] = x => c[x][k].ptr[2] < k

DInv == Ordered(instrs) /\ \A d \in BB : \E S \in SUBSET BB : Region(d, S)

----------------------------------------------------------------------------
\* How a region goes through a step.

\* p is a variable of an open scope of the function.
InScope(p) == \E k \in 2..Len(frames) : p[1] = frames[k].bb

\* p is a variable that what the m-th handler has still to insert can access.
Inside(p, m) == \E k \in 2..m : p[1] = frames[k].bb /\ Encloses(frames, k, m)

\* What is new is no access and no branch, or it is in the block of the
\* Builder, accesses what is in scope and branches to T.
Adds(T) ==
    \A x \in BB : \A i \in Elems(instrs'[x]) :
        \/ i \in Elems(instrs[x])
        \/ i.to = {} /\ i.op # "access"
        \/ x = insertBB /\ i.to \subseteq T /\ (i.op = "access" => InScope(i.ptr))

\* The same, or it is in a block that the m-th handler has still to insert.
AddsLater(m) ==
    \A x \in BB : \A i \in Elems(instrs'[x]) :
        \/ i \in Elems(instrs[x])
        \/ x = insertBB /\ i.to \subseteq Future(frames[m]) /\ (i.op = "access" => InScope(i.ptr))
        \/ /\ x \in Future(frames[m]) /\ i.to \subseteq Future(frames[m])
           /\ i.op = "access" => Inside(i.ptr, m)

SameHandler(k) ==
    /\ frames'[k].bb = frames[k].bb /\ Future(frames'[k]) = Future(frames[k])
    /\ Loop(frames'[k]) <=> Loop(frames[k])

\* Handlers are left, the others stay what they are.
Leaves ==
    /\ Len(frames) \in Nat /\ Len(frames') \in Nat
    /\ \A k \in 2..Len(frames') : k <= Len(frames) /\ SameHandler(k)

Grows == nbb \in Nat /\ nbb' \in Nat /\ nbb <= nbb'

\* Code without branches leaves the region as it is.
LEMMA QuietRegion ==
    ASSUME NEW d \in BB, NEW S \in SUBSET BB, Region(d, S),
           Grows, Leaves, insertBB' = insertBB, Adds({})
    PROVE  Region(d, S)'
<1>1. Begins(d, S)'
  BY MaxBBAssumption DEF Region, Begins, Grows, BB
<1>2. Entered(d, S)'
  BY DEF Region, Entered, Adds
<1>3. HoldsUses(d, S)'
  BY DEF Region, HoldsUses, HoldsOpen, Adds, InScope
<1>4. HoldsOpen(d, S)'
  <2> SUFFICES ASSUME NEW k \in 2..Len(frames'), frames'[k].bb = d
               PROVE  /\ insertBB' \in S
                      /\ \A j \in k..Len(frames') :
                            Encloses(frames', k, j) => Future(frames'[j]) \subseteq S
    BY DEF HoldsOpen
  <2>1. k \in 2..Len(frames) /\ frames[k].bb = d /\ (Loop(frames'[k]) <=> Loop(frames[k]))
    BY DEF Leaves, SameHandler
  <2>2. ASSUME NEW j \in k..Len(frames'), Encloses(frames', k, j)
        PROVE  Future(frames'[j]) \subseteq S
    <3>1. j \in k..Len(frames) /\ Future(frames'[j]) = Future(frames[j])
      BY DEF Leaves, SameHandler
    <3>2. Encloses(frames, k, j)
      BY <2>1, <2>2 DEF Encloses
    <3> QED
      BY <2>1, <3>1, <3>2 DEF Region, HoldsOpen
  <2> QED
    BY <2>1, <2>2 DEF Region, HoldsOpen
<1>5. HoldsOnly(d, S)'
  <2> SUFFICES ASSUME NEW j \in 2..Len(frames'), NEW t \in Future(frames'[j]) \cap S
               PROVE  \E k \in 2..j : frames'[k].bb = d /\ Encloses(frames', k, j)
    BY DEF HoldsOnly
  <2>1. j \in 2..Len(frames) /\ t \in Future(frames[j]) \cap S
    BY DEF Leaves, SameHandler
  <2>2. PICK k \in 2..j : frames[k].bb = d /\ Encloses(frames, k, j)
    BY <2>1 DEF Region, HoldsOnly
  <2>3. k \in 2..Len(frames')
    BY DEF Leaves
  <2>4. frames'[k].bb = d /\ Encloses(frames', k, j)
    BY <2>2, <2>3 DEF Leaves, SameHandler, Encloses
  <2> QED
    BY <2>4
<1> QED
  BY <1>1, <1>2, <1>3, <1>4, <1>5 DEF Region

\* The blocks that a step creates.
Created == {x \in BB : nbb < x /\ x <= nbb'}

\* The top handler calls another one.
CallsOne ==
    /\ Len(frames) \in Nat /\ Len(frames') = Len(frames) + 1
    /\ \A k \in 2..Len(frames) : SameHandler(k)
    /\ Future(frames'[Len(frames')]) \subseteq Created

\* Code goes on in a block that has been created, and so do the branches.
Advances == insertBB' \in Created /\ Adds(Created)

\* No branch goes to a block that does not exist.
OldTargets == \A x \in BB : \A i \in Elems(instrs[x]) : i.to \cap Created = {}

OldFutures == \A j \in 2..Len(frames) : Future(frames[j]) \cap Created = {}

IsOpen(d) == \E k \in 2..Len(frames) : frames[k].bb = d

\* A statement that opens a scope adds its blocks to the scopes that are open.
LEMMA CallRegion ==
    ASSUME NEW d \in BB, NEW S \in SUBSET BB, Region(d, S),
           Grows, CallsOne, Advances, OldTargets, OldFutures,
           IsOpen(d) => d <= nbb, frames'[Len(frames')].bb # d
    PROVE  \E T \in SUBSET BB : Region(d, T)'
<1>0. PICK T \in SUBSET BB : T = S \cup (IF IsOpen(d) THEN Created ELSE {})
  <2>1. Created \subseteq BB
    BY DEF Created
  <2> QED
    BY <2>1
<1>1. S \subseteq T /\ T \subseteq S \cup Created /\ T \subseteq BB /\ S \cap Created = {}
  <2>1. \A x \in S : x <= nbb /\ x \in Nat
    BY DEF Region, Begins, BB
  <2>2. \A x \in Created : x \in BB /\ x \in Nat /\ nbb < x
    BY DEF Created, BB
  <2>3. \A x \in S : x \notin Created
    BY <2>1, <2>2 DEF Grows
  <2> QED
    BY <1>0, <2>2, <2>3
<1>2. IsOpen(d) => Created \subseteq T
  BY <1>0
<1>3. ~IsOpen(d) => T = S
  BY <1>0
<1>4. IsOpen(d) => insertBB \in S
  BY DEF IsOpen, Region, HoldsOpen
<1>5. ASSUME NEW x \in T PROVE d <= x /\ x <= nbb'
  <2>1. CASE x \in S
    <3>1. d <= x /\ x <= nbb
      BY <2>1 DEF Region, Begins
    <3> QED
      BY <2>1, <3>1 DEF Grows, BB
  <2>2. CASE x \in Created /\ IsOpen(d)
    BY <2>2 DEF Created, Grows, BB
  <2> QED
    BY <1>1, <1>3, <2>1, <2>2
<1>6. ASSUME NEW x \in BB \ T, NEW i \in Elems(instrs'[x])
      PROVE  i.to \cap T \subseteq {d}
  <2>1. CASE i \in Elems(instrs[x])
    <3>1. i.to \cap S \subseteq {d} /\ i.to \cap Created = {}
      BY <1>1, <2>1 DEF Region, Entered, OldTargets
    <3> QED
      BY <1>1, <3>1
  <2>2. CASE x = insertBB /\ i.to \subseteq Created
    BY <1>1, <1>3, <1>4, <2>2
  <2> QED
    BY <2>1, <2>2 DEF Advances, Adds
<1>7. ASSUME NEW x \in BB, NEW i \in Elems(instrs'[x]), i.op = "access", i.ptr[1] = d
      PROVE  x \in T
  <2>1. CASE i \in Elems(instrs[x])
    BY <1>1, <1>7, <2>1 DEF Region, HoldsUses
  <2>2. CASE x = insertBB /\ InScope(i.ptr)
    BY <1>1, <1>4, <1>7, <2>2 DEF InScope, IsOpen
  <2> QED
    BY <1>7, <2>1, <2>2 DEF Advances, Adds
<1>8. ASSUME NEW k \in 2..Len(frames'), frames'[k].bb = d
      PROVE  /\ insertBB' \in T
             /\ \A j \in k..Len(frames') : Encloses(frames', k, j) => Future(frames'[j]) \subseteq T
  <2>1. k \in 2..Len(frames) /\ frames[k].bb = d /\ (Loop(frames'[k]) <=> Loop(frames[k]))
    BY <1>8 DEF CallsOne, SameHandler
  <2>2. Created \subseteq T
    BY <1>2, <2>1 DEF IsOpen
  <2>3. ASSUME NEW j \in k..Len(frames'), Encloses(frames', k, j)
        PROVE  Future(frames'[j]) \subseteq T
    <3>1. CASE j = Len(frames')
      BY <2>2, <3>1 DEF CallsOne
    <3>2. CASE j # Len(frames')
      <4>1. j \in k..Len(frames) /\ Future(frames'[j]) = Future(frames[j])
        BY <3>2 DEF CallsOne, SameHandler
      <4>2. Encloses(frames, k, j)
        BY <2>1, <2>3 DEF Encloses
      <4> QED
        BY <1>1, <2>1, <4>1, <4>2 DEF Region, HoldsOpen
    <3> QED
      BY <3>1, <3>2
  <2> QED
    BY <2>2, <2>3 DEF Advances
<1>9. ASSUME NEW j \in 2..Len(frames'), NEW t \in Future(frames'[j]) \cap T
      PROVE  \E k \in 2..j : frames'[k].bb = d /\ Encloses(frames', k, j)
  <2>1. CASE j = Len(frames')
    <3>1. t \in Created /\ t \notin S
      BY <1>1, <2>1 DEF CallsOne
    <3>2. PICK k \in 2..Len(frames) : frames[k].bb = d
      BY <1>3, <3>1 DEF IsOpen
    <3>3. k \in 2..j /\ k < j /\ frames'[k].bb = d
      BY <2>1, <3>2 DEF CallsOne, SameHandler
    <3> QED
      BY <3>3 DEF Encloses
  <2>2. CASE j # Len(frames')
    <3>1. j \in 2..Len(frames) /\ t \in Future(frames[j])
      BY <2>2 DEF CallsOne, SameHandler
    <3>2. t \in S
      BY <1>1, <3>1 DEF OldFutures
    <3>3. PICK k \in 2..j : frames[k].bb = d /\ Encloses(frames, k, j)
      BY <3>1, <3>2 DEF Region, HoldsOnly
    <3>4. k \in 2..Len(frames)
      BY <3>1
    <3>5. frames'[k].bb = d /\ Encloses(frames', k, j)
      BY <3>3, <3>4 DEF CallsOne, SameHandler, Encloses
    <3> QED
      BY <3>5
  <2> QED
    BY <2>1, <2>2
<1>10. Begins(d, T)' /\ Entered(d, T)'
  BY <1>5, <1>6 DEF Begins, Entered
<1>11. HoldsUses(d, T)'
  BY <1>7 DEF HoldsUses
<1>12. HoldsOpen(d, T)'
  BY <1>8 DEF HoldsOpen
<1>13. HoldsOnly(d, T)'
  BY <1>9 DEF HoldsOnly
<1> QED
  BY <1>10, <1>11, <1>12, <1>13 DEF Region

\* The m-th handler inserts blocks; it goes on with what it has left, or is
\* left itself, and those below it stay what they are.
Passes(m) ==
    /\ Len(frames) \in Nat /\ Len(frames') \in Nat
    /\ m \in 2..Len(frames) /\ m - 1 <= Len(frames')
    /\ \A k \in 2..(m - 1) : SameHandler(k)
    /\ \A j \in m..Len(frames') : Future(frames'[j]) \subseteq Future(frames[m])

\* A for statement stays there for its body.
LoopStays(m) ==
    m <= Len(frames') /\ Loop(frames[m]) => frames'[m].bb = frames[m].bb /\ Loop(frames'[m])

\* d is not the block of a scope that is opened.
NotOpened(d, m) ==
    \A j \in m..Len(frames') : frames'[j].bb = d => j = m /\ Loop(frames[m]) /\ frames[m].bb = d

\* Code goes on in a block that the m-th handler inserts, and so do the branches.
GoesOn(m) == insertBB' \in Future(frames[m]) /\ AddsLater(m)

\* An if or a for statement that goes on stays in the scopes it is in.
LEMMA LaterRegion ==
    ASSUME NEW d \in BB, NEW S \in SUBSET BB, Region(d, S), nbb' = nbb,
           NEW m, Passes(m), LoopStays(m), NotOpened(d, m), GoesOn(m)
    PROVE  Region(d, S)'
<1>1. m \in 2..Len(frames) /\ m \in Nat /\ Len(frames) \in Nat /\ Len(frames') \in Nat
  BY DEF Passes
<1>2. ASSUME NEW k \in 2..m, frames[k].bb = d, Encloses(frames, k, m)
      PROVE  Future(frames[m]) \subseteq S
  BY <1>1, <1>2 DEF Region, HoldsOpen
<1>3. ASSUME NEW t \in Future(frames[m]) \cap S
      PROVE  /\ Future(frames[m]) \subseteq S /\ insertBB \in S
             /\ \E k \in 2..m : frames[k].bb = d /\ Encloses(frames, k, m)
  <2>1. PICK k \in 2..m : frames[k].bb = d /\ Encloses(frames, k, m)
    BY <1>1 DEF Region, HoldsOnly
  <2>2. insertBB \in S
    BY <1>1, <2>1 DEF Region, HoldsOpen
  <2> QED
    BY <1>2, <2>1, <2>2
<1>4. Begins(d, S)'
  BY DEF Region, Begins
<1>5. Entered(d, S)'
  <2> SUFFICES ASSUME NEW x \in BB \ S, NEW i \in Elems(instrs'[x])
               PROVE  i.to \cap S \subseteq {d}
    BY DEF Entered
  <2>1. CASE i \in Elems(instrs[x])
    BY <2>1 DEF Region, Entered
  <2>2. CASE x = insertBB /\ i.to \subseteq Future(frames[m])
    BY <1>3, <2>2
  <2>3. CASE x \in Future(frames[m]) /\ i.to \subseteq Future(frames[m])
    BY <1>3, <2>3
  <2> QED
    BY <2>1, <2>2, <2>3 DEF GoesOn, AddsLater
<1>6. HoldsUses(d, S)'
  <2> SUFFICES ASSUME NEW x \in BB, NEW i \in Elems(instrs'[x]), i.op = "access", i.ptr[1] = d
               PROVE  x \in S
    BY DEF HoldsUses
  <2>1. CASE i \in Elems(instrs[x])
    BY <2>1 DEF Region, HoldsUses
  <2>2. CASE x = insertBB /\ InScope(i.ptr)
    BY <2>2 DEF InScope, Region, HoldsOpen
  <2>3. CASE x \in Future(frames[m]) /\ Inside(i.ptr, m)
    BY <1>2, <2>3 DEF Inside
  <2> QED
    BY <2>1, <2>2, <2>3 DEF GoesOn, AddsLater
<1>7. HoldsOpen(d, S)'
  <2> SUFFICES ASSUME NEW k \in 2..Len(frames'), frames'[k].bb = d
               PROVE  /\ insertBB' \in S
                      /\ \A j \in k..Len(frames') :
                            Encloses(frames', k, j) => Future(frames'[j]) \subseteq S
    BY DEF HoldsOpen
  <2>1. k \in 2..m /\ frames[k].bb = d /\ Encloses(frames, k, m)
    <3>1. CASE k < m
      <4>1. k \in 2..(m - 1) /\ k \in 2..m
        BY <1>1, <3>1
      <4>2. frames[k].bb = d
        BY <4>1 DEF Passes, SameHandler
      <4> QED
        BY <3>1, <4>1, <4>2 DEF Encloses
    <3>2. CASE ~(k < m)
      <4>1. k \in m..Len(frames')
        BY <1>1, <3>2
      <4>2. k = m /\ Loop(frames[m]) /\ frames[m].bb = d
        BY <4>1 DEF NotOpened
      <4> QED
        BY <4>2 DEF Encloses
    <3> QED
      BY <3>1, <3>2
  <2>2. Future(frames[m]) \subseteq S
    BY <1>2, <2>1
  <2>3. ASSUME NEW j \in k..Len(frames'), Encloses(frames', k, j)
        PROVE  Future(frames'[j]) \subseteq S
    <3>1. CASE j < m
      <4>1. j \in 2..(m - 1) /\ k \in 2..(m - 1) /\ j \in k..Len(frames) /\ k \in 2..Len(frames)
        BY <1>1, <3>1
      <4>2. Future(frames'[j]) = Future(frames[j]) /\ (Loop(frames'[k]) <=> Loop(frames[k]))
        BY <4>1 DEF Passes, SameHandler
      <4>3. Encloses(frames, k, j)
        BY <2>3, <4>2 DEF Encloses
      <4> QED
        BY <2>1, <4>1, <4>2, <4>3 DEF Region, HoldsOpen
    <3>2. CASE ~(j < m)
      <4>1. j \in m..Len(frames')
        BY <1>1, <3>2
      <4> QED
        BY <2>2, <4>1 DEF Passes
    <3> QED
      BY <3>1, <3>2
  <2> QED
    BY <2>2, <2>3 DEF GoesOn
<1>8. HoldsOnly(d, S)'
  <2> SUFFICES ASSUME NEW j \in 2..Len(frames'), NEW t \in Future(frames'[j]) \cap S
               PROVE  \E k \in 2..j : frames'[k].bb = d /\ Encloses(frames', k, j)
    BY DEF HoldsOnly
  <2>1. CASE j < m
    <3>1. j \in 2..(m - 1) /\ j \in 2..Len(frames) /\ j \in Nat
      BY <1>1, <2>1
    <3>2. t \in Future(frames[j]) \cap S
      BY <3>1 DEF Passes, SameHandler
    <3>3. PICK k \in 2..j : frames[k].bb = d /\ Encloses(frames, k, j)
      BY <3>1, <3>2 DEF Region, HoldsOnly
    <3>4. k \in 2..(m - 1)
      BY <1>1, <3>1
    <3>5. frames'[k].bb = d /\ Encloses(frames', k, j)
      BY <3>3, <3>4 DEF Passes, SameHandler, Encloses
    <3> QED
      BY <3>5
  <2>2. CASE ~(j < m)
    <3>1. j \in m..Len(frames')
      BY <1>1, <2>2
    <3>2. t \in Future(frames[m]) \cap S
      BY <3>1 DEF Passes
    <3>3. PICK k \in 2..m : frames[k].bb = d /\ Encloses(frames, k, m)
      BY <1>3, <3>2
    <3>4. CASE k < m
      <4>1. k \in 2..(m - 1) /\ k \in 2..j /\ k < j
        BY <1>1, <3>1, <3>4
      <4>2. frames'[k].bb = d
        BY <3>3, <4>1 DEF Passes, SameHandler
      <4> QED
        BY <4>1, <4>2 DEF Encloses
    <3>5. CASE ~(k < m)
      <4>1. k = m /\ Loop(frames[m]) /\ k \in 2..j /\ m <= Len(frames')
        BY <1>1, <3>1, <3>3, <3>5 DEF Encloses
      <4>2. frames'[k].bb = d /\ Loop(frames'[k])
        BY <3>3, <4>1 DEF LoopStays
      <4>3. k < j \/ k = j
        BY <1>1, <3>1, <4>1
      <4> QED
        BY <4>1, <4>2, <4>3 DEF Encloses
    <3> QED
      BY <3>4, <3>5
  <2> QED
    BY <2>1, <2>2
<1> QED
  BY <1>4, <1>5, <1>6, <1>7, <1>8 DEF Region

\* The region of a scope that is opened: its block, and the rest of a for statement.
First(h) == {h.bb} \cup (IF Loop(h) THEN Future(h) ELSE {})

\* The top handler has just opened its scope at block c.
JustOpened(c) ==
    LET n == Len(frames')
    IN  /\ n \in Nat /\ n > 1 /\ frames'[n].bb = c /\ insertBB' = c
        /\ First(frames'[n]) \subseteq BB
        /\ \A x \in First(frames'[n]) : c <= x /\ x <= nbb'
        /\ \A j \in 2..(n - 1) : frames'[j].bb # c /\ Future(frames'[j]) \cap First(frames'[n]) = {}
        /\ c \notin Future(frames'[n])

\* Nothing branches to the rest of a for statement that has been opened.
Untouched(c) ==
    LET h == frames'[Len(frames')]
    IN  Loop(h) => \A x \in BB : \A i \in Elems(instrs'[x]) : i.to \cap Future(h) = {}

\* Nothing accesses a variable of block c.
Unused(c) == \A x \in BB : \A i \in Elems(instrs'[x]) : i.op = "access" => i.ptr[1] # c

LEMMA FirstRegion ==
    ASSUME NEW c \in BB, JustOpened(c), Untouched(c), Unused(c)
    PROVE  \E S \in SUBSET BB : Region(c, S)'
<1> DEFINE n == Len(frames')
           h == frames'[n]
<1>1. /\ n \in Nat /\ n > 1 /\ h.bb = c /\ insertBB' = c
      /\ First(h) \subseteq BB /\ \A x \in First(h) : c <= x /\ x <= nbb'
      /\ \A j \in 2..(n - 1) : frames'[j].bb # c /\ Future(frames'[j]) \cap First(h) = {}
      /\ c \notin Future(h)
  BY DEF JustOpened
<1>2. PICK S \in SUBSET BB : S = First(h)
  BY <1>1
<1> HIDE DEF n
<1>3. c \in S /\ (Loop(h) => Future(h) \subseteq S) /\ (~Loop(h) => S = {c})
      /\ (Loop(h) => S \subseteq {c} \cup Future(h))
  BY <1>1, <1>2 DEF First
<1>4. Begins(c, S)'
  BY <1>1, <1>2 DEF Begins
<1>5. Entered(c, S)'
  <2>1. ASSUME NEW x \in BB, NEW i \in Elems(instrs'[x])
        PROVE  i.to \cap S \subseteq {c}
    <3>1. CASE Loop(h)
      BY <1>3, <3>1 DEF Untouched, n
    <3>2. CASE ~Loop(h)
      BY <1>3, <3>2
    <3> QED
      BY <3>1, <3>2
  <2> QED
    BY <2>1 DEF Entered
<1>6. HoldsUses(c, S)'
  BY DEF HoldsUses, Unused
<1>7. HoldsOpen(c, S)'
  <2> SUFFICES ASSUME NEW k \in 2..n, frames'[k].bb = c
               PROVE  /\ insertBB' \in S
                      /\ \A j \in k..n : Encloses(frames', k, j) => Future(frames'[j]) \subseteq S
    BY DEF HoldsOpen, n
  <2>1. k = n
    BY <1>1
  <2> QED
    BY <1>1, <1>3, <2>1 DEF Encloses
<1>8. HoldsOnly(c, S)'
  <2> SUFFICES ASSUME NEW j \in 2..n, NEW t \in Future(frames'[j]) \cap S
               PROVE  \E k \in 2..j : frames'[k].bb = c /\ Encloses(frames', k, j)
    BY DEF HoldsOnly, n
  <2>1. j = n
    <3>1. ~(j \in 2..(n - 1))
      BY <1>1, <1>2
    <3> QED
      BY <1>1, <3>1
  <2>2. Loop(h)
    BY <1>1, <1>3, <2>1
  <2> QED
    BY <1>1, <2>1, <2>2 DEF Encloses
<1> QED
  BY <1>4, <1>5, <1>6, <1>7, <1>8 DEF Region

----------------------------------------------------------------------------
\* What the code that is appended accesses.

\* A program without global variables binds names in the scopes of a function only.
LEMMA VisibleAt ==
    ASSUME IInv, Bound(blocks, instrs), NoGlobals, ~GlobalVars,
           NEW bl, Len(bl) \in Nat, Len(bl) <= Len(blocks), \A i \in 1..Len(bl) : bl[i] = blocks[i],
           NEW p, Visible(bl, p)
    PROVE  Known(instrs, p) /\ \E k \in 2..Len(bl) : p[1] = frames[k].bb
<1>1. PICK i \in 1..Len(bl), v \in Vars : p = bl[i].vars[v] /\ p # NoPtr
  BY DEF Visible
<1>2. Len(blocks) \in Nat /\ Len(frames) = Len(blocks)
  BY DEF IInv, TypeOK, StackDiscipline
<1>3. i \in 1..Len(blocks) /\ p = blocks[i].vars[v]
  BY <1>1, <1>2
<1>4. p[1] = frames[i].bb /\ Known(instrs, p)
  BY <1>1, <1>2, <1>3 DEF Bound, IInv, StackDiscipline
<1>5. i # 1
  <2>1. ASSUME i = 1 PROVE FALSE
    <3>1. blocks # <<>>
      BY <1>3
    <3>2. blocks[1].vars[v] = NoPtr
      BY <3>1 DEF NoGlobals
    <3> QED
      BY <1>1, <1>3, <2>1, <3>2
  <2> QED
    BY <2>1
<1>6. i \in 2..Len(bl)
  BY <1>1, <1>5
<1> QED
  BY <1>4, <1>6

LEMMA VisibleInScope ==
    ASSUME IInv, VInv, ~GlobalVars, NEW p, Visible(blocks, p)
    PROVE  Known(instrs, p) /\ InScope(p)
<1>1. Len(blocks) \in Nat /\ Len(frames) = Len(blocks)
  BY DEF IInv, TypeOK, StackDiscipline
<1>2. Known(instrs, p) /\ \E k \in 2..Len(blocks) : p[1] = frames[k].bb
  BY <1>1, VisibleAt DEF VInv
<1> QED
  BY <1>1, <1>2 DEF InScope

\* What is new is in the block of the Builder.
AddsHere(T) ==
    \A x \in BB : \A i \in Elems(instrs'[x]) :
        \/ i \in Elems(instrs[x])
        \/ x = insertBB /\ i.to \subseteq T /\ (i.op = "access" => InScope(i.ptr))

LEMMA HereAdds ==
    ASSUME NEW T, AddsHere(T)
    PROVE  Adds(T)
BY DEF AddsHere, Adds

LEMMA HereAddsLater ==
    ASSUME NEW m, AddsHere(Future(frames[m]))
    PROVE  AddsLater(m)
BY DEF AddsHere, AddsLater

LEMMA NothingAdds ==
    ASSUME UNCHANGED instrs, NEW T
    PROVE  AddsHere(T)
BY DEF AddsHere

\* What accesses variables in scope, after the scope has changed too.
Uses(s) == \A i \in Elems(s) : i.op = "access" => InScope(i.ptr)

LEMMA LooksUses ==
    ASSUME IInv, VInv, ~GlobalVars, NEW s, Looks(blocks, s)
    PROVE  Uses(s)
BY VisibleInScope DEF Looks, Uses

LEMMA OneAdds ==
    ASSUME IInv, NEW s \in Seq(Instr), Uses(s), NEW T, Goes(s, T),
           instrs' = Emit(instrs, insertBB, s)
    PROVE  AddsHere(T)
<1> DEFINE d == instrs'
<1>1. instrs \in [BB -> Seq(Instr)] /\ insertBB \in BB \cup {NoBB} /\ NoBB \in BB \cup {NoBB}
      /\ <<>> \in Seq(Instr)
  BY DEF IInv, TypeOK
<1>2. d = Emit(Emit(instrs, insertBB, s), NoBB, <<>>)
  BY EmitNowhere
<1> HIDE DEF d
<1>3. AddsOnly(instrs, d, insertBB, s, NoBB, <<>>)
  BY <1>1, <1>2, EmitTwiceAdds
<1>4. ASSUME NEW x \in BB, NEW i \in Elems(d[x])
      PROVE  \/ i \in Elems(instrs[x])
             \/ x = insertBB /\ i.to \subseteq T /\ (i.op = "access" => InScope(i.ptr))
  BY <1>3, NoElem DEF AddsOnly, Uses, Goes
<1> QED
  BY <1>4 DEF AddsHere, d

\* The same at the insertion point and in a block of the m-th handler.
LEMMA TwoAdds ==
    ASSUME IInv, NEW s \in Seq(Instr), Uses(s), NEW m, Goes(s, Future(frames[m])),
           NEW b \in BB, b \in Future(frames[m]), NEW t \in Seq(Instr), Goes(t, Future(frames[m])),
           \A i \in Elems(t) : i.op = "access" => Inside(i.ptr, m),
           instrs' = Emit(Emit(instrs, insertBB, s), b, t)
    PROVE  AddsLater(m)
<1> DEFINE d == instrs'
<1>1. instrs \in [BB -> Seq(Instr)] /\ insertBB \in BB \cup {NoBB} /\ b \in BB \cup {NoBB}
  BY DEF IInv, TypeOK
<1>2. d = Emit(Emit(instrs, insertBB, s), b, t)
  OBVIOUS
<1> HIDE DEF d
<1>3. AddsOnly(instrs, d, insertBB, s, b, t)
  BY <1>1, <1>2, EmitTwiceAdds
<1>4. ASSUME NEW x \in BB, NEW i \in Elems(d[x])
      PROVE  \/ i \in Elems(instrs[x])
             \/ x = insertBB /\ i.to \subseteq Future(frames[m]) /\ (i.op = "access" => InScope(i.ptr))
             \/ /\ x \in Future(frames[m]) /\ i.to \subseteq Future(frames[m])
                /\ i.op = "access" => Inside(i.ptr, m)
  BY <1>3 DEF AddsOnly, Uses, Goes
<1> QED
  BY <1>4 DEF AddsLater, d

\* A new variable: its alloca is in the block of the scope, the rest at the insertion point.
LEMMA AllocaAdds ==
    ASSUME IInv, NEW a \in BB, NEW t \in Seq(Instr), Uses(t), Straight(t),
           instrs' = Emit(Emit(instrs, a, <<Alloca>>), insertBB, t)
    PROVE  Adds({})
<1> DEFINE d == instrs'
           s == <<Alloca>>
<1>1. /\ instrs \in [BB -> Seq(Instr)] /\ insertBB \in BB \cup {NoBB} /\ a \in BB \cup {NoBB}
      /\ s \in Seq(Instr)
  BY InstrType DEF IInv, TypeOK
<1>2. d = Emit(Emit(instrs, a, s), insertBB, t)
  OBVIOUS
<1>3. \A i \in Elems(s) : i.to = {} /\ i.op # "access"
  BY OneElem DEF Alloca
<1> HIDE DEF d, s
<1>4. AddsOnly(instrs, d, a, s, insertBB, t)
  BY <1>1, <1>2, EmitTwiceAdds
<1>5. ASSUME NEW x \in BB, NEW i \in Elems(d[x])
      PROVE  \/ i \in Elems(instrs[x])
             \/ i.to = {} /\ i.op # "access"
             \/ x = insertBB /\ i.to \subseteq {} /\ (i.op = "access" => InScope(i.ptr))
  BY <1>3, <1>4 DEF AddsOnly, Uses, Straight
<1> QED
  BY <1>5 DEF Adds, d

----------------------------------------------------------------------------
\* The steps that do not branch.

Quiet == Grows /\ Leaves /\ insertBB' = insertBB /\ Adds({})

LEMMA SameKind ==
    ASSUME NEW k, frames'[k].kind = frames[k].kind, frames'[k].bb = frames[k].bb
    PROVE  SameHandler(k)
BY ToInsertSame DEF SameHandler, Future, Loop

\* The handlers stay, or the top one is left.
LEMMA StayLeaves ==
    ASSUME IInv, Len(frames') = Len(frames),
           \A i \in 1..Len(frames) :
              frames'[i].kind = frames[i].kind /\ frames'[i].bb = frames[i].bb
    PROVE  Leaves
<1>1. Len(frames) \in Nat
  BY DEF IInv, TypeOK
<1>2. \A k \in 2..Len(frames) : k \in 1..Len(frames) /\ k <= Len(frames)
  BY <1>1
<1> QED
  BY <1>1, <1>2, SameKind DEF Leaves

LEMMA PopLeaves ==
    ASSUME IInv, status = "running", frames' = PopFrame
    PROVE  Leaves
<1> DEFINE fr == PopFrame
<1>1. frames \in Seq(FrameRec) /\ Len(frames) \in 1..Len(frames) /\ Len(frames) \in Nat
  BY TopFacts
<1>2. 1 \in 1..Len(frames)
  BY <1>1
<1>3. Len(fr) = Len(frames) - 1 /\ \A i \in 1..Len(fr) : fr[i] = frames[i]
  BY <1>1, <1>2, Popped DEF PopFrame
<1> HIDE DEF fr
<1>4. \A k \in 2..Len(fr) : k \in 1..Len(fr) /\ k <= Len(frames)
  BY <1>1, <1>3
<1>5. frames' = fr
  BY DEF fr
<1>6. \A k \in 2..Len(fr) : frames'[k].kind = frames[k].kind /\ frames'[k].bb = frames[k].bb
  BY <1>3, <1>4, <1>5
<1>7. Len(fr) \in Nat
  BY <1>1, <1>3
<1> QED
  BY <1>1, <1>4, <1>5, <1>6, <1>7, SameKind DEF Leaves

LEMMA NoNewBlock ==
    ASSUME IInv, UNCHANGED nbb
    PROVE  Grows
BY DEF IInv, TypeOK, Grows

\* Statements without blocks, the body of a function and the ends of scopes.
LEMMA PlainStmtQuiet ==
    ASSUME IInv, VInv, ~GlobalVars,
           EmptyStmt \/ \E e \in Exprs \cup {NoExpr} : ExprStmt(e) \/ Return(e)
    PROVE  Quiet
<1>1. Running /\ InStmts
  BY DEF EmptyStmt, ExprStmt, Return, ReturnPosition, AnyStmt, StmtPosition
<1>2. frames' = Took(FALSE) /\ UNCHANGED <<nbb, insertBB>>
  BY DEF EmptyStmt, ExprStmt, Return, code
<1>3. Leaves /\ Grows
  BY <1>1, <1>2, StmtFacts, StayLeaves, NoNewBlock
<1>4. blocks \in Seq(Scope)
  BY DEF IInv, TypeOK
<1>5. Adds({})
  <2>1. CASE EmptyStmt
    BY <2>1, NothingAdds, HereAdds DEF EmptyStmt, code
  <2>2. ASSUME NEW e \in Exprs \cup {NoExpr}, ExprStmt(e) \/ Return(e)
        PROVE  Adds({})
    <3>1. ~Throws(blocks, e) /\ Ret \in Instr /\ Ret.to = {} /\ Ret.op # "access"
      BY <2>2, InstrType, TermTypes, OtherOps DEF ExprStmt, Return
    <3>2. PICK s \in Seq(Instr) :
              Straight(s) /\ Looks(blocks, s) /\ instrs' = Emit(instrs, insertBB, s)
      <4>1. CASE ExprStmt(e)
        BY <1>4, <3>1, <4>1, StraightCode, ExprLooks DEF ExprStmt
      <4>2. CASE Return(e)
        BY <1>4, <3>1, <4>2, StraightCode, ExprThenLooks DEF Return
      <4> QED
        BY <2>2, <4>1, <4>2
    <3>3. Goes(s, {}) /\ Uses(s)
      BY <3>2, LooksUses DEF Straight, Goes
    <3> QED
      BY <3>2, <3>3, OneAdds, HereAdds
  <2> QED
    BY <2>1, <2>2
<1> QED
  BY <1>2, <1>3, <1>5 DEF Quiet

LEMMA EndFuncQuiet ==
    ASSUME IInv, VInv, ~GlobalVars, EndFunc
    PROVE  Quiet
<1>1. status = "running" /\ frames' = PopFrame /\ UNCHANGED <<nbb, insertBB>>
  BY DEF EndFunc, Running
<1>2. Adds({})
  <2>1. CASE HasTerminator(instrs[insertBB])
    BY <2>1, NothingAdds, HereAdds DEF EndFunc, DefaultReturn
  <2>2. CASE ~HasTerminator(instrs[insertBB])
    <3>1. instrs' = Emit(instrs, insertBB, <<Ret>>)
      BY <2>2 DEF EndFunc, DefaultReturn
    <3>2. <<Ret>> \in Seq(Instr) /\ Goes(<<Ret>>, {}) /\ Uses(<<Ret>>)
      BY InstrType, TermTypes, OtherOps, OneElem DEF Goes, Uses
    <3> QED
      BY <3>1, <3>2, OneAdds, HereAdds
  <2> QED
    BY <2>1, <2>2
<1> QED
  BY <1>1, <1>2, PopLeaves, NoNewBlock DEF Quiet

LEMMA EndBlockQuiet ==
    ASSUME IInv, EndBlock
    PROVE  Quiet
<1>1. status = "running" /\ frames' = PopFrame /\ UNCHANGED <<nbb, insertBB, instrs>>
  BY DEF EndBlock, Running, code
<1> QED
  BY <1>1, PopLeaves, NoNewBlock, NothingAdds, HereAdds DEF Quiet

LEMMA BeginBodyQuiet ==
    ASSUME IInv, BeginBody
    PROVE  Quiet
<1>1. status = "running" /\ Top.kind = "params"
  BY DEF BeginBody, Running
<1>2. frames \in Seq(FrameRec) /\ Len(frames) = 2 /\ Top \in FrameRec /\ Top = frames[2]
  BY <1>1, TopFacts
<1> DEFINE e == [Top EXCEPT !.kind = "body"]
<1>3. e \in FrameRec /\ e.kind = "body" /\ e.bb = Top.bb
  BY <1>2 DEF FrameRec, FrameKinds, ListKinds
<1>4. frames' = [frames EXCEPT ![2] = e] /\ UNCHANGED <<nbb, insertBB, instrs>>
  BY <1>2 DEF BeginBody, code
<1> HIDE DEF e
<1>5. Len(frames') = 2 /\ frames'[2] = e
  BY <1>2, <1>3, <1>4, SecondReplaced
<1>6. ToInsert(frames[2]) = {} /\ ToInsert(e) = {}
  BY <1>1, <1>2, <1>3 DEF ToInsert
<1>7. SameHandler(2)
  BY <1>1, <1>2, <1>3, <1>5, <1>6 DEF SameHandler, Future, Loop
<1>8. \A k \in 2..2 : k = 2
  OBVIOUS
<1>9. Leaves
  BY <1>2, <1>5, <1>7, <1>8 DEF Leaves
<1> QED
  BY <1>4, <1>9, NoNewBlock, NothingAdds, HereAdds DEF Quiet

\* Declarations: the variable is one of the innermost scope, in a function.
LEMMA NextInScope ==
    ASSUME IInv, status = "running", Len(frames) > 1
    PROVE  InScope(NextPlace)
<1>1. Len(frames) \in 1..Len(frames) /\ Len(blocks) = Len(frames)
  BY TopFacts
<1>2. Len(frames) \in 2..Len(frames)
  BY <1>1
<1>3. GetCurrentBlock = frames[Len(frames)].bb
  BY <1>1 DEF GetCurrentBlock, IInv, StackDiscipline
<1> QED
  BY <1>2, <1>3 DEF InScope, NextPlace

LEMMA AddParamQuiet ==
    ASSUME IInv, NEW v \in Vars, AddParam(v)
    PROVE  Quiet
<1>1. status = "running" /\ Top.kind = "params" /\ UNCHANGED <<nbb, insertBB, frames>>
  BY DEF AddParam, Running
<1>2. GetCurrentBlock \in BB /\ Len(frames) > 1
  BY <1>1, TopFacts
<1>3. NextPlace \in Ptr
  BY <1>2 DEF NextPlace, Ptr, IInv, TypeOK
<1>4. instrs' = Emit(Emit(instrs, GetCurrentBlock, <<Alloca>>), insertBB, <<Access(NextPlace)>>)
  BY DEF AddParam, NextPlace
<1>5. InScope(NextPlace)
  BY <1>1, <1>2, NextInScope
<1> DEFINE p == NextPlace
<1>6. <<Access(p)>> \in Seq(Instr) /\ Access(p).ptr = p /\ Access(p).to = {}
  BY <1>3, InstrType DEF Access
<1> HIDE DEF p
<1>7. Uses(<<Access(p)>>) /\ Straight(<<Access(p)>>)
  BY <1>5, <1>6, OneElem DEF Uses, Straight, p
<1>8. Adds({})
  BY <1>2, <1>4, <1>6, <1>7, AllocaAdds DEF p
<1> QED
  BY <1>1, <1>8, StayLeaves, NoNewBlock DEF Quiet

LEMMA DefineVarQuiet ==
    ASSUME IInv, VInv, ~GlobalVars,
           NEW v \in Vars, NEW init \in Exprs \cup {NoExpr}, NEW more \in BOOLEAN,
           DefineVar(v, init, more)
    PROVE  Quiet
<1> DEFINE p == NextPlace
           scope == AddLocalVar(blocks, p, v)
           t == Value(scope, init)
<1>1. /\ status = "running" /\ scope \in Seq(Scope) /\ ~Throws(scope, init) /\ p \in Ptr
      /\ t \in Seq(Instr) /\ GetCurrentBlock \in BB /\ blocks \in Seq(Scope)
      /\ instrs' = Emit(Emit(instrs, GetCurrentBlock, <<Alloca>>), insertBB, t)
  BY DefineVarFacts DEF IInv, TypeOK
<1>2. Len(frames) > 1
  BY DefineVarInside DEF VInv
<1>3. InScope(p)
  BY <1>1, <1>2, NextInScope
<1>4. blocks # <<>>
  <2>1. Len(blocks) > 0
    BY <1>1, TopFacts
  <2> QED
    BY <2>1, NotEmpty
<1>5. \A q : Visible(scope, q) => InScope(q)
  BY <1>1, <1>3, <1>4, AddedVisible, VisibleInScope
<1>6. UNCHANGED <<nbb, insertBB>> /\ frames' = (IF inDef THEN frames ELSE Took(FALSE))
  BY DEF DefineVar
<1>7. Leaves
  <2>1. frames # <<>> /\ frames \in Seq(FrameRec)
    BY <1>1, TopFacts
  <2> QED
    BY <1>6, <2>1, TookType, StayLeaves
<1> HIDE DEF p, scope
<1>8. Access(p) \in Instr /\ Access(p).ptr = p /\ Access(p).to = {}
  BY <1>1, InstrType DEF Access
<1>9. Straight(t) /\ Uses(t)
  <2>1. CASE init = NoExpr
    BY <2>1, NoElem DEF Value, Straight, Uses
  <2>2. CASE init # NoExpr
    <3> DEFINE s == ExprCode(scope, init)
    <3>1. s \in Seq(Instr) /\ Looks(scope, s) /\ Straight(s)
      BY <1>1, ExprCodeType, ExprLooks, ExprCodeElems DEF Straight
    <3>2. t = Append(s, Access(p))
      BY <2>2 DEF Value, p
    <3> HIDE DEF s, t
    <3>3. Elems(t) = Elems(s) \cup {Access(p)}
      BY <1>8, <3>1, <3>2, AppendElems
    <3> QED
      BY <1>3, <1>5, <1>8, <3>1, <3>3 DEF Looks, Uses, Straight
  <2> QED
    BY <2>1, <2>2
<1> HIDE DEF t
<1>10. Adds({})
  BY <1>1, <1>9, AllocaAdds
<1> QED
  BY <1>6, <1>7, <1>10, NoNewBlock DEF Quiet

\* The steps of the program, and the end.
LEMMA PrintFuncQuiet ==
    ASSUME IInv, NEW f \in FuncNames, CreatePrintFunc(f)
    PROVE  Quiet
<1> DEFINE b == nbb + 1
           s == <<Call, Ret>>
           d == instrs'
<1>0. b \in BB /\ nbb \in Nat
  BY PrintFuncScopes DEF IInv, TypeOK
<1>1. nbb' = b /\ instrs' = Emit(instrs, b, s) /\ UNCHANGED <<insertBB, frames>>
  BY DEF CreatePrintFunc
<1>2. s \in Seq(Instr)
  BY InstrType
<1>3. Elems(s) = {Call, Ret}
  BY DEF Elems
<1>4. \A i \in Elems(s) : i.to = {} /\ i.op # "access"
  BY <1>3 DEF Call, Ret
<1>5. /\ instrs \in [BB -> Seq(Instr)] /\ b \in BB \cup {NoBB} /\ NoBB \in BB \cup {NoBB}
      /\ <<>> \in Seq(Instr) /\ d = Emit(Emit(instrs, b, s), NoBB, <<>>)
  BY <1>0, <1>1, EmitNowhere DEF IInv, TypeOK
<1>6. Grows
  BY <1>0, <1>1 DEF Grows
<1> HIDE DEF s, d, b
<1>7. AddsOnly(instrs, d, b, s, NoBB, <<>>)
  BY <1>2, <1>5, EmitTwiceAdds
<1>8. \A x \in BB : \A i \in Elems(d[x]) : i \in Elems(instrs[x]) \/ (i.to = {} /\ i.op # "access")
  BY <1>4, <1>7, NoElem DEF AddsOnly
<1>9. Adds({})
  BY <1>8 DEF Adds, d
<1> QED
  BY <1>1, <1>6, <1>9, StayLeaves DEF Quiet

LEMMA BeginProgQuiet ==
    ASSUME IInv, IInv', BeginProg
    PROVE  Quiet
<1>1. /\ Len(frames') = 1 /\ frames = <<>> /\ nbb \in Nat /\ nbb' = nbb + 1
      /\ UNCHANGED <<insertBB, instrs>>
  BY DEF BeginProg, IInv, HandlersNested, TypeOK
<1>2. Grows /\ Leaves
  BY <1>1 DEF Grows, Leaves
<1> QED
  BY <1>1, <1>2, NothingAdds, HereAdds DEF Quiet

LEMMA EndProgQuiet ==
    ASSUME IInv, EndProg
    PROVE  Quiet
<1>1. status = "running" /\ frames' = PopFrame /\ UNCHANGED <<nbb, insertBB>>
  BY DEF EndProg, Running
<1>2. \A x \in BB : instrs'[x] = <<>> \/ instrs'[x] = instrs[x]
  BY DEF EndProg, IInv, TypeOK
<1>3. Adds({})
  BY <1>2, NoElem DEF Adds
<1> QED
  BY <1>1, <1>3, PopLeaves, NoNewBlock DEF Quiet

LEMMA StopQuiet ==
    ASSUME IInv, Abort \/ Ended \/ UNCHANGED vars
    PROVE  Quiet
<1>1. UNCHANGED <<nbb, insertBB, instrs, frames>>
  BY DEF Abort, Ended, vars, code
<1> QED
  BY <1>1, StayLeaves, NoNewBlock, NothingAdds, HereAdds DEF Quiet

LEMMA QuietSteps ==
    ASSUME IInv, IInv', VInv, ~GlobalVars,
           \/ EmptyStmt \/ \E e \in Exprs \cup {NoExpr} : ExprStmt(e) \/ Return(e)
           \/ EndFunc \/ EndBlock \/ BeginBody \/ BeginProg \/ EndProg
           \/ \E v \in Vars : AddParam(v)
           \/ \E v \in Vars, e \in Exprs \cup {NoExpr}, more \in BOOLEAN : DefineVar(v, e, more)
           \/ \E f \in FuncNames : CreatePrintFunc(f)
           \/ Abort \/ Ended \/ UNCHANGED vars
    PROVE  Quiet
BY PlainStmtQuiet, EndFuncQuiet, EndBlockQuiet, BeginBodyQuiet, BeginProgQuiet, EndProgQuiet,
   AddParamQuiet, DefineVarQuiet, PrintFuncQuiet, StopQuiet

----------------------------------------------------------------------------
\* The steps that open a scope.

\* What a handler branches to later comes after its block and has been created.
LEMMA FutureBounds ==
    ASSUME NEW fr \in Seq(FrameRec), NEW m \in 0..MaxBB, WellNested(fr, m), NEW j \in 1..Len(fr)
    PROVE  /\ fr[j].bb \in BB /\ fr[j].bb <= m
           /\ \A t \in Future(fr[j]) : t \in BB /\ fr[j].bb < t /\ t <= m
<1> DEFINE b == fr[j].bb
           k == fr[j].kind
<1>1. fr[j] \in FrameRec
  BY ElementOfSeq
<1>2. b \in BB /\ b \in Nat /\ 1 <= b
  BY <1>1 DEF FrameRec, BB
<1>3. b + Ahead(k) <= m /\ Ahead(k) \in Nat
  BY AheadType DEF WellNested
<1>4. Future(fr[j]) =
        CASE k = "forinit" -> {b + 1, b + 2, b + 3, b + 4}
          [] k = "for"     -> {b + 3, b + 4} \cup {b + 1}
          [] k = "then"    -> {b + 1, b + 2}
          [] k = "else"    -> {b + 1}
          [] OTHER -> {}
  BY DEF Future, ToInsert
<1> DEFINE F == Future(fr[j])
<1> HIDE DEF b, k, F
<1>5. m \in Nat /\ m <= MaxBB /\ MaxBB \in Nat
  BY MaxBBAssumption
<1>6. b <= m
  BY <1>2, <1>3, <1>5
<1>7. ASSUME NEW t \in F
      PROVE  t \in Nat /\ b < t /\ t <= m
  <2>1. CASE k = "forinit" \/ k = "for"
    <3>1. b + 4 <= m
      BY <1>3, <2>1, AheadOf
    <3>2. t \in {b + 1, b + 2, b + 3, b + 4}
      BY <1>4, <2>1 DEF F
    <3> QED
      BY <1>2, <1>5, <3>1, <3>2
  <2>2. CASE k = "then"
    <3>1. b + 2 <= m
      BY <1>3, <2>2, AheadOf
    <3>2. t \in {b + 1, b + 2}
      BY <1>4, <2>2 DEF F
    <3> QED
      BY <1>2, <1>5, <3>1, <3>2
  <2>3. CASE k = "else"
    <3>1. b + 1 <= m
      BY <1>3, <2>3, AheadOf
    <3>2. t = b + 1
      BY <1>4, <2>3 DEF F
    <3> QED
      BY <1>2, <1>5, <3>1, <3>2
  <2>4. k \in {"forinit", "for", "then", "else"}
    BY <1>4 DEF F
  <2> QED
    BY <2>1, <2>2, <2>3, <2>4
<1>8. \A t \in F : t \in BB
  BY <1>2, <1>5, <1>7 DEF BB
<1> QED
  BY <1>2, <1>6, <1>7, <1>8 DEF b, F

LEMMA OldBlocks ==
    ASSUME IInv, BInv
    PROVE  OldTargets /\ OldFutures /\ \A d : IsOpen(d) => d <= nbb
<1>1. /\ frames \in Seq(FrameRec) /\ nbb \in 0..MaxBB /\ WellNested(frames, nbb)
      /\ Len(frames) \in Nat
  BY DEF IInv, TypeOK, HandlersNested
<1>2. \A j \in 2..Len(frames) : j \in 1..Len(frames)
  BY <1>1
<1>3. \A x \in Created : x \in BB /\ x > nbb /\ ~(x <= nbb)
  BY <1>1 DEF Created, BB
<1>4. ASSUME NEW j \in 2..Len(frames)
      PROVE  frames[j].bb <= nbb /\ \A t \in Future(frames[j]) : t <= nbb
  BY <1>1, <1>2, FutureBounds
<1>5. OldFutures
  BY <1>3, <1>4 DEF OldFutures
<1>6. ASSUME NEW x \in BB, NEW i \in Elems(instrs[x]), NEW t \in i.to
      PROVE  t \notin Created
  <2>1. owner[x] # NoFunc
    BY NoElem DEF BInv, FreshBlocks
  <2>2. owner[t] = owner[x] \/ t \in Waiting(frames, 0)
    BY DEF BInv, Targeted
  <2>3. t \in Created => owner[t] = NoFunc
    BY <1>3 DEF BInv, FreshBlocks
  <2>4. t \in Waiting(frames, 0) => t <= nbb
    BY DEF BInv, PendingBlocks
  <2> QED
    BY <1>3, <2>1, <2>2, <2>3, <2>4
<1>7. OldTargets
  BY <1>6 DEF OldTargets
<1> QED
  BY <1>4, <1>5, <1>7 DEF IsOpen

\* Every access is to an alloca that exists, so none is to a block without code.
LEMMA EmptyUnused ==
    ASSUME IInv', Accessed', ~GlobalVars, NEW c \in BB, Elems(instrs'[c]) = {}
    PROVE  Unused(c)
<1> SUFFICES ASSUME NEW x \in BB, NEW i \in Elems(instrs'[x]), i.op = "access", i.ptr[1] = c
             PROVE  FALSE
  BY DEF Unused
<1>1. Known(instrs', i.ptr)
  BY DEF Accessed, Reaches
<1>2. i.ptr[2] \in Nat \ {0} /\ i.ptr[2] <= Len(instrs'[c])
  BY <1>1 DEF Known, Ptr
<1>3. Len(instrs'[c]) \in Nat
  BY DEF IInv, TypeOK
<1>4. i.ptr[2] \in 1..Len(instrs'[c])
  BY <1>2, <1>3
<1> QED
  BY <1>4 DEF Elems

\* Handler h is called: its block is the first of those that are created, and
\* what is added branches to T.
Begun(h, T) ==
    /\ status = "running" /\ h \in FrameRec /\ h.bb = nbb + 1
    /\ nbb' = nbb + 1 + Ahead(h.kind)
    /\ Len(frames') = Len(frames) + 1 /\ frames'[Len(frames) + 1] = h
    /\ \A i \in 1..Len(frames) :
          frames'[i].kind = frames[i].kind /\ frames'[i].bb = frames[i].bb
    /\ insertBB' = nbb + 1 /\ AddsHere(T)
    /\ T \subseteq Created /\ (Loop(h) => T \subseteq {nbb + 1})

LEMMA BegunFacts ==
    ASSUME IInv, IInv', BInv, VInv', ~GlobalVars, NEW h, NEW T, Begun(h, T)
    PROVE  /\ Grows /\ CallsOne /\ Advances /\ nbb + 1 \in BB
           /\ JustOpened(nbb + 1) /\ Untouched(nbb + 1) /\ Unused(nbb + 1)
           /\ frames'[Len(frames')].bb = nbb + 1
<1> DEFINE c == nbb + 1
           n == Len(frames')
<1>1. /\ frames \in Seq(FrameRec) /\ nbb \in 0..MaxBB /\ WellNested(frames, nbb)
      /\ frames' \in Seq(FrameRec) /\ nbb' \in 0..MaxBB /\ WellNested(frames', nbb')
  BY DEF IInv, TypeOK, HandlersNested
<1>2. nbb \in Nat /\ nbb' \in Nat /\ Len(frames) \in Nat /\ n = Len(frames) + 1
  BY <1>1 DEF Begun
<1>3. c \in BB /\ c <= nbb' /\ nbb <= nbb' /\ c \in Created
  <2>1. c <= nbb' /\ nbb <= nbb'
    BY <1>2, AheadType DEF Begun
  <2>2. c \in BB
    BY <1>1, <1>2, <2>1, MaxBBAssumption DEF BB
  <2> QED
    BY <1>2, <2>1, <2>2 DEF Created
<1>4. n > 1 /\ n \in 1..n /\ frames'[n] = h /\ insertBB' = c
  <2>1. Len(frames) \in 1..Len(frames)
    BY TopFacts DEF Begun
  <2> QED
    BY <1>2, <2>1 DEF Begun
<1>5. ASSUME NEW k \in 2..(n - 1)
      PROVE  SameHandler(k) /\ k \in 2..Len(frames) /\ k \in 1..Len(frames)
  BY <1>2, SameKind DEF Begun
<1>6. \A t \in Future(h) : t \in BB /\ c < t /\ t <= nbb'
  BY <1>1, <1>4, FutureBounds DEF Begun
<1>7. Future(h) \subseteq Created
  BY <1>2, <1>6 DEF Created, BB
<1>8. CallsOne
  BY <1>2, <1>4, <1>5, <1>7 DEF CallsOne
<1>9. Advances
  BY <1>3, <1>4, HereAdds DEF Advances, Adds, Begun
<1>10. OldTargets /\ OldFutures
  BY OldBlocks
<1>11. JustOpened(c)
  <2>1. First(h) \subseteq {c} \cup Future(h)
    BY DEF First, Begun
  <2>2. First(h) \subseteq BB /\ \A x \in First(h) : c <= x /\ x <= nbb'
    BY <1>2, <1>3, <1>6, <2>1 DEF BB
  <2>3. c \notin Future(h)
    BY <1>2, <1>6
  <2>4. First(h) \subseteq Created
    BY <1>3, <1>7, <2>1
  <2>5. ASSUME NEW j \in 2..(n - 1)
        PROVE  frames'[j].bb # c /\ Future(frames'[j]) \cap First(h) = {}
    <3>1. frames'[j].bb = frames[j].bb /\ Future(frames'[j]) = Future(frames[j])
      BY <1>5 DEF SameHandler
    <3>2. frames[j].bb <= nbb /\ frames[j].bb \in BB
      BY <1>1, <1>5, FutureBounds
    <3>3. Future(frames[j]) \cap Created = {}
      BY <1>5, <1>10 DEF OldFutures
    <3> QED
      BY <1>2, <2>4, <3>1, <3>2, <3>3 DEF BB
  <2> QED
    BY <1>2, <1>4, <2>2, <2>3, <2>5 DEF JustOpened, Begun
<1>12. Untouched(c)
  <2> SUFFICES ASSUME Loop(h), NEW x \in BB, NEW i \in Elems(instrs'[x])
               PROVE  i.to \cap Future(h) = {}
    BY <1>4 DEF Untouched
  <2>1. CASE i \in Elems(instrs[x])
    BY <1>7, <1>10, <2>1 DEF OldTargets
  <2>2. CASE i.to \subseteq {c}
    <3>1. c \notin Future(h)
      BY <1>2, <1>6
    <3> QED
      BY <2>2, <3>1
  <2> QED
    BY <2>1, <2>2 DEF AddsHere, Begun
<1>13. Unused(c)
  <2>1. owner[c] = NoFunc /\ c # NoBB
    BY <1>2, <1>3 DEF BInv, FreshBlocks, NoBB
  <2>2. instrs[c] = <<>> /\ insertBB # c
    BY <1>3, <2>1 DEF BInv, FreshBlocks, BuilderPlaced
  <2>3. Elems(instrs'[c]) = {}
    BY <1>3, <2>2, NoElem DEF AddsHere, Begun
  <2> QED
    BY <1>3, <2>3, EmptyUnused DEF VInv
<1>14. Grows
  BY <1>2, <1>3 DEF Grows
<1> QED
  BY <1>3, <1>4, <1>8, <1>9, <1>11, <1>12, <1>13, <1>14 DEF Begun

\* A statement with a scope of its own.
LEMMA StmtBegun ==
    ASSUME IInv, AnyStmt, NEW kind \in {"block", "then", "forinit"}, nbb + 1 \in BB,
           nbb' = nbb + 1 + Ahead(kind), Calls(Frame(kind, nbb + 1)), insertBB' = nbb + 1,
           NEW T, T \subseteq Created, kind = "forinit" => T \subseteq {nbb + 1}, AddsHere(T)
    PROVE  Begun(Frame(kind, nbb + 1), T)
<1> DEFINE h == Frame(kind, nbb + 1)
<1>1. h \in FrameRec /\ h.kind = kind /\ h.bb = nbb + 1
  BY FrameType DEF FrameKinds, ListKinds
<1>2. status = "running"
  BY DEF AnyStmt, StmtPosition, Running
<1> HIDE DEF h
<1>3. Calls(h)
  BY DEF h
<1>4. /\ Len(frames') = Len(frames) + 1 /\ frames'[Len(frames) + 1] = h
      /\ \A i \in 1..Len(frames) :
            frames'[i].kind = frames[i].kind /\ frames'[i].bb = frames[i].bb
  BY <1>1, <1>3, CallsFacts
<1>5. Loop(h) => T \subseteq {nbb + 1}
  BY <1>1 DEF Loop
<1>6. Begun(h, T)
  BY <1>1, <1>2, <1>4, <1>5 DEF Begun
<1> QED
  BY <1>6 DEF h

LEMMA BeginBegun ==
    ASSUME IInv, BInv, VInv, ~GlobalVars, BeginBlock \/ BeginFor \/ \E e \in Exprs : BeginIf(e)
    PROVE  \E h, T : Begun(h, T)
<1> DEFINE c == nbb + 1
<1>1. AnyStmt /\ c \in BB /\ insertBB' = c /\ nbb \in Nat /\ blocks \in Seq(Scope)
  <2>1. AnyStmt /\ insertBB' = c
    BY DEF BeginBlock, BeginFor, BeginIf, Place
  <2>2. nbb \in Nat /\ blocks \in Seq(Scope)
    BY DEF IInv, TypeOK
  <2> QED
    BY <2>1, <2>2, OpensOne
<1>2. Ahead("block") = 0 /\ Ahead("then") = 2 /\ Ahead("forinit") = 4
  BY DEF Ahead
<1>3. ASSUME NEW kind \in {"block", "forinit"}, nbb' = c + Ahead(kind), Calls(Frame(kind, c)),
             instrs' = Emit(instrs, insertBB, <<Br(c)>>)
      PROVE  Begun(Frame(kind, c), {c})
  <2>1. Br(c) \in Instr /\ Br(c).to = {c} /\ Br(c).op # "access"
    BY <1>1, InstrType, TermTypes, OtherOps
  <2>2. <<Br(c)>> \in Seq(Instr) /\ Goes(<<Br(c)>>, {c}) /\ Uses(<<Br(c)>>)
    BY <2>1, OneElem DEF Goes, Uses
  <2>3. AddsHere({c})
    BY <1>3, <2>2, OneAdds
  <2>4. {c} \subseteq Created
    <3>1. Ahead(kind) \in Nat
      BY AheadType
    <3> QED
      BY <1>1, <1>3, <3>1 DEF Created
  <2> QED
    BY <1>1, <1>3, <2>3, <2>4, StmtBegun
<1>4. CASE BeginBlock
  <2>1. nbb' = c + Ahead("block")
    BY <1>1, <1>2, <1>4 DEF BeginBlock
  <2>2. Calls(Frame("block", c)) /\ instrs' = Emit(instrs, insertBB, <<Br(c)>>)
    BY <1>4 DEF BeginBlock, Calls
  <2>3. Begun(Frame("block", c), {c})
    BY <1>3, <2>1, <2>2
  <2> QED
    BY <2>3
<1>5. CASE BeginFor
  <2>1. nbb' = c + Ahead("forinit")
    BY <1>1, <1>2, <1>5 DEF BeginFor
  <2>2. Calls(Frame("forinit", c)) /\ instrs' = Emit(instrs, insertBB, <<Br(c)>>)
    BY <1>5 DEF BeginFor, Calls
  <2>3. Begun(Frame("forinit", c), {c})
    BY <1>3, <2>1, <2>2
  <2> QED
    BY <2>3
<1>6. ASSUME NEW e \in Exprs, BeginIf(e)
      PROVE  Begun(Frame("then", c), {c, c + 1})
  <2> DEFINE i == CondBr(c, c + 1)
             s == Append(ExprCode(blocks, e), i)
  <2>1. nbb' = c + 2 /\ c + 2 <= MaxBB /\ ~Throws(blocks, e)
    BY <1>6 DEF BeginIf
  <2>2. Calls(Frame("then", c)) /\ instrs' = Emit(instrs, insertBB, s)
    BY <1>6 DEF BeginIf, Calls
  <2>3. c + 1 \in BB /\ {c, c + 1} \subseteq Created
    BY <1>1, <2>1, MaxBBAssumption DEF BB, Created
  <2>4. i \in Instr /\ i.to = {c, c + 1} /\ i.op # "access" /\ IsTerm(i)
    BY <1>1, <2>3, InstrType, TermTypes, OtherOps
  <2> HIDE DEF i
  <2>5. s \in Seq(Instr) /\ Looks(blocks, s) /\ Goes(s, {c, c + 1})
    BY <1>1, <2>1, <2>4, ExprThenLooks, BranchElems
  <2> HIDE DEF s
  <2>6. AddsHere({c, c + 1})
    BY <2>2, <2>5, LooksUses, OneAdds
  <2> QED
    BY <1>1, <1>2, <2>1, <2>2, <2>3, <2>6, StmtBegun
<1> QED
  BY <1>4, <1>5, <1>6

LEMMA FuncBegun ==
    ASSUME IInv, NEW f \in FuncNames, NEW void \in BOOLEAN, BeginFunc(f, void)
    PROVE  \E h, T : Begun(h, T)
<1> DEFINE c == nbb + 1
           h == Frame("params", c)
<1>1. status = "running" /\ Top.kind = "prog"
  BY DEF BeginFunc, Running
<1>2. Len(frames) = 1 /\ frames # <<>> /\ frames \in Seq(FrameRec)
  BY <1>1, TopFacts
<1>3. nbb \in Nat /\ c \in BB
  BY MaxBBAssumption DEF BeginFunc, IInv, TypeOK, BB
<1>4. nbb' = c /\ insertBB' = c /\ instrs' = instrs /\ frames' = Append(Took(FALSE), h)
  BY DEF BeginFunc
<1>5. h \in FrameRec /\ h.kind = "params" /\ h.bb = c
  BY <1>3, FrameType DEF FrameKinds
<1> HIDE DEF h
<1>6. /\ Len(frames') = Len(frames) + 1 /\ frames'[Len(frames) + 1] = h
      /\ \A i \in 1..Len(frames) :
            frames'[i].kind = frames[i].kind /\ frames'[i].bb = frames[i].bb
  <2> DEFINE fr == Took(FALSE)
  <2>1. /\ fr \in Seq(FrameRec) /\ Len(fr) = Len(frames)
        /\ \A i \in 1..Len(frames) : fr[i].kind = frames[i].kind /\ fr[i].bb = frames[i].bb
    BY <1>2, TookType
  <2> DEFINE gr == Append(fr, h)
  <2> HIDE DEF fr
  <2>2. Len(gr) = Len(fr) + 1 /\ gr[Len(gr)] = h /\ \A i \in 1..Len(fr) : gr[i] = fr[i]
    BY <1>5, <2>1, Pushed
  <2> HIDE DEF gr
  <2>3. frames' = gr
    BY <1>4 DEF fr, gr
  <2> QED
    BY <2>1, <2>2, <2>3
<1>7. nbb' = c + Ahead(h.kind)
  <2>1. Ahead("params") = 0
    BY DEF Ahead
  <2> QED
    BY <1>3, <1>4, <1>5, <2>1
<1>8. AddsHere({}) /\ ~Loop(h)
  BY <1>4, <1>5, NothingAdds DEF Loop
<1>9. Begun(h, {})
  BY <1>1, <1>4, <1>5, <1>6, <1>7, <1>8 DEF Begun
<1> QED
  BY <1>9

\* Every block keeps a region, or has one now.
LEMMA BegunRegions ==
    ASSUME IInv, IInv', BInv, VInv', ~GlobalVars, NEW h, NEW T, Begun(h, T),
           NEW d \in BB, NEW S \in SUBSET BB, Region(d, S)
    PROVE  \E R \in SUBSET BB : Region(d, R)'
<1>1. /\ Grows /\ CallsOne /\ Advances /\ nbb + 1 \in BB
      /\ JustOpened(nbb + 1) /\ Untouched(nbb + 1) /\ Unused(nbb + 1)
      /\ frames'[Len(frames')].bb = nbb + 1
  BY BegunFacts
<1>2. CASE d = nbb + 1
  BY <1>1, <1>2, FirstRegion
<1>3. CASE d # nbb + 1
  <2>1. OldTargets /\ OldFutures /\ (IsOpen(d) => d <= nbb)
    BY OldBlocks
  <2> QED
    BY <1>1, <1>3, <2>1, CallRegion
<1> QED
  BY <1>2, <1>3

----------------------------------------------------------------------------
\* The steps that go on with an if or a for statement.

\* A block that waits to be inserted is not that of another handler, and no
\* other handler branches to it.
LEMMA WaitsForOne ==
    ASSUME IInv, BInv, currentFunc # NoFunc, NEW m \in 1..Len(frames), NEW c \in ToInsert(frames[m])
    PROVE  /\ c \in BB /\ c # insertBB /\ instrs[c] = <<>>
           /\ \A j \in 2..Len(frames) : frames[j].bb # c
           /\ \A j \in 2..Len(frames) : j # m => c \notin Future(frames[j])
<1>1. c \in BB /\ owner[c] = NoFunc /\ c # insertBB /\ instrs[c] = <<>>
  BY WaitingEmpty
<1>2. Len(blocks) = Len(frames) /\ Len(frames) \in Nat
  BY DEF IInv, TypeOK, StackDiscipline
<1>3. ASSUME NEW j \in 2..Len(frames)
      PROVE  frames[j].bb # c
  <2>1. j \in 2..Len(blocks) /\ j \in 1..Len(frames)
    BY <1>2
  <2>2. owner[blocks[j].bb] = currentFunc /\ frames[j].bb = blocks[j].bb
    BY <2>1 DEF IInv, InCurrentFunc, StackDiscipline
  <2> QED
    BY <1>1, <2>2
<1>4. ASSUME NEW j \in 2..Len(frames), j # m
      PROVE  c \notin Future(frames[j])
  <2>1. j \in (0 + 1)..Len(frames) /\ m \in (0 + 1)..Len(frames) /\ j \in 1..Len(frames)
    BY <1>2
  <2>2. c \notin ToInsert(frames[j])
    <3>1. ToInsert(frames[j]) \cap ToInsert(frames[m]) = {}
      BY <1>4, <2>1 DEF BInv, PendingBlocks, InsertedOnce
    <3> QED
      BY <3>1
  <2>3. frames[j].kind = "for" => c # frames[j].bb + 1
    BY <1>1, <2>1 DEF BInv, LoopHeads
  <2> QED
    BY <2>2, <2>3 DEF Future
<1> QED
  BY <1>1, <1>3, <1>4

\* The m-th handler goes on; c is the block of the scope that it opens, if any.
Follows(m, c) ==
    /\ nbb' = nbb /\ Passes(m) /\ LoopStays(m) /\ GoesOn(m)
    /\ \A d : d # c => NotOpened(d, m)

\* The handlers below the m-th stay, the others are left or replaced.
LEMMA EndPasses ==
    ASSUME IInv, NEW k \in {1, 2}, NEW m, m = Len(frames) - k + 1, m \in 2..Len(frames), Returns(k)
    PROVE  /\ Passes(m) /\ LoopStays(m) /\ \A d : NotOpened(d, m)
<1>1. frames \in Seq(FrameRec) /\ Len(frames) \in Nat
  BY DEF IInv, TypeOK
<1>2. k \in 1..Len(frames) /\ m \in Nat
  BY <1>1
<1> DEFINE fr == SubSeq(frames, 1, Len(frames) - k)
<1>3. Len(fr) = Len(frames) - k /\ \A i \in 1..Len(fr) : fr[i] = frames[i]
  BY <1>1, <1>2, Popped
<1> HIDE DEF fr
<1>4. frames' = fr
  BY DEF fr, Returns
<1>5. Len(fr) = m - 1 /\ Len(fr) \in Nat
  BY <1>1, <1>2, <1>3
<1>6. \A i \in 2..(m - 1) : i \in 1..Len(fr)
  BY <1>5
<1>7. \A i \in 2..(m - 1) : frames'[i].kind = frames[i].kind /\ frames'[i].bb = frames[i].bb
  BY <1>3, <1>4, <1>6
<1>8. \A i \in 2..(m - 1) : SameHandler(i)
  BY <1>7, SameKind
<1>9. Len(frames') = m - 1 /\ ~(m <= Len(frames'))
  BY <1>2, <1>4, <1>5
<1>10. \A j \in m..Len(frames') : FALSE
  BY <1>2, <1>9
<1>11. Passes(m)
  BY <1>1, <1>2, <1>8, <1>9, <1>10 DEF Passes
<1> QED
  BY <1>9, <1>10, <1>11 DEF LoopStays, NotOpened

LEMMA EndIfFollows ==
    ASSUME IInv, EndThen \/ EndElse
    PROVE  Follows(Len(frames), NoBB)
<1> DEFINE b == Top.bb
           m == Len(frames)
           F == Future(frames[m])
<1>1. Running /\ Top.kind \in {"then", "else"}
  BY DEF EndThen, EndElse
<1>2. /\ m \in Nat /\ m > 2 /\ b \in BB /\ b + Ahead(Top.kind) <= MaxBB /\ Top = frames[m]
  BY <1>1, CloseFacts
<1>3. F = IF Top.kind = "then" THEN {b + 1, b + 2} ELSE {b + 1}
  BY <1>1, <1>2 DEF Future, ToInsert
<1>4. b + 1 \in BB /\ (Top.kind = "then" => b + 2 \in BB)
  BY <1>1, <1>2, MaxBBAssumption DEF Ahead, BB
<1>5. Returns(1) /\ nbb' = nbb
  BY DEF EndThen, EndElse, Returns, PopFrame
<1>6. Passes(m) /\ LoopStays(m) /\ \A d : NotOpened(d, m)
  <2>1. m = m - 1 + 1 /\ m \in 2..m
    BY <1>2
  <2> HIDE DEF m
  <2> QED
    BY <1>5, <2>1, EndPasses DEF m
<1>7. \A u \in BB : u \in F => /\ <<Br(u)>> \in Seq(Instr) /\ Goes(<<Br(u)>>, F)
                               /\ Uses(<<Br(u)>>)
  BY InstrType, TermTypes, OtherOps, OneElem DEF Goes, Uses
<1>8. CASE EndElse
  <2>1. instrs' = Emit(instrs, insertBB, <<Br(b + 1)>>) /\ insertBB' = b + 1 /\ Top.kind = "else"
    BY <1>8 DEF EndElse, Place
  <2>2. b + 1 \in F
    BY <1>3, <2>1
  <2> HIDE DEF F, b
  <2>3. AddsHere(F)
    BY <1>4, <1>7, <2>1, <2>2, OneAdds
  <2>4. GoesOn(m)
    BY <2>1, <2>2, <2>3, HereAddsLater DEF GoesOn, F
  <2> QED
    BY <1>5, <1>6, <2>4 DEF Follows
<1>9. CASE EndThen
  <2> DEFINE s == <<Br(b + 2)>>
  <2>1. /\ instrs' = Emit(Emit(instrs, insertBB, s), b + 1, s)
        /\ insertBB' = b + 2 /\ Top.kind = "then"
    BY <1>9 DEF EndThen
  <2>2. b + 1 \in F /\ b + 2 \in F
    BY <1>3, <2>1
  <2> HIDE DEF F, b
  <2>3. s \in Seq(Instr) /\ Goes(s, F) /\ Uses(s)
    BY <1>4, <1>7, <2>1, <2>2
  <2>4. \A i \in Elems(s) : i.op # "access"
    BY OneElem, OtherOps
  <2> HIDE DEF s
  <2>5. AddsLater(m)
    BY <1>4, <2>1, <2>2, <2>3, <2>4, TwoAdds DEF F
  <2>6. GoesOn(m)
    BY <2>1, <2>2, <2>5 DEF GoesOn, F
  <2> QED
    BY <1>5, <1>6, <2>6 DEF Follows
<1> QED
  BY <1>8, <1>9

\* What is in scope up to a for statement is in the scope of the rest of it.
LEMMA ForInside ==
    ASSUME IInv, VInv, ~GlobalVars, NEW bl, NEW m \in 2..Len(frames), Loop(frames[m]),
           Len(bl) = m, \A i \in 1..Len(bl) : bl[i] = blocks[i], NEW t, Looks(bl, t)
    PROVE  \A i \in Elems(t) : i.op = "access" => Inside(i.ptr, m)
<1>1. Len(blocks) = Len(frames) /\ Len(frames) \in Nat /\ m \in Nat /\ m <= Len(blocks)
  BY DEF IInv, TypeOK, StackDiscipline
<1>2. ASSUME NEW p, Visible(bl, p)
      PROVE  Inside(p, m)
  <2>1. PICK k \in 2..m : p[1] = frames[k].bb
    BY <1>1, <1>2, VisibleAt DEF VInv
  <2>2. k < m \/ k = m
    BY <1>1
  <2>3. Encloses(frames, k, m)
    BY <2>2 DEF Encloses
  <2> QED
    BY <2>1, <2>3 DEF Inside
<1> QED
  BY <1>2 DEF Looks

LEMMA EndForFollows ==
    ASSUME IInv, VInv, ~GlobalVars, NEW e \in Exprs \cup {NoExpr}, EndFor(e)
    PROVE  Follows(Len(frames) - 1, NoBB)
<1> DEFINE n == Len(frames)
           m == n - 1
           b == frames[m].bb
           loop == PopBasicBlock(blocks)
           s == <<Br(b + 3)>>
           t == Append(ExprCode(loop, e), Br(b + 1))
           F == Future(frames[m])
<1>1. Running /\ Top.kind = "loopbody" /\ ~Throws(loop, e)
  BY DEF EndFor
<1>2. /\ frames \in Seq(FrameRec) /\ n \in Nat /\ n > 3 /\ frames[m].kind = "for"
      /\ blocks \in Seq(Scope) /\ Len(blocks) = n
  BY <1>1, CloseFacts
<1>3. m \in 1..n /\ m \in 2..n /\ m = n - 2 + 1 /\ m \in Nat
  BY <1>2
<1>4. F = {b + 3, b + 4} \cup {b + 1} /\ Loop(frames[m])
  BY <1>2 DEF Future, ToInsert, Loop
<1>5. b + 1 \in BB /\ b + 3 \in BB /\ b + 4 \in BB
  <2>1. \A u \in F : u \in BB
    BY <1>2, <1>3, FutureBounds DEF IInv, TypeOK, HandlersNested
  <2> QED
    BY <1>4, <2>1
<1>6. /\ instrs' = Emit(Emit(instrs, insertBB, s), b + 3, t) /\ insertBB' = b + 4
      /\ Returns(2) /\ nbb' = nbb
  BY DEF EndFor, Returns
<1>7. loop \in Seq(Scope) /\ Len(loop) = m /\ \A i \in 1..Len(loop) : loop[i] = blocks[i]
  <2>1. 1 \in 1..Len(blocks)
    BY <1>2
  <2> QED
    BY <1>2, <2>1, Popped DEF PopBasicBlock
<1> HIDE DEF b, F, loop
<1>8. s \in Seq(Instr) /\ Goes(s, F) /\ Uses(s)
  BY <1>4, <1>5, InstrType, TermTypes, OtherOps, OneElem DEF Goes, Uses
<1>9. t \in Seq(Instr) /\ Goes(t, F) /\ Looks(loop, t)
  <2>1. Br(b + 1) \in Instr /\ IsTerm(Br(b + 1)) /\ Br(b + 1).op # "access"
    BY <1>5, InstrType, TermTypes, OtherOps
  <2>2. Br(b + 1).to \subseteq F
    BY <1>4, TermTypes
  <2>3. t \in Seq(Instr) /\ Looks(loop, t)
    BY <1>1, <1>7, <2>1, ExprThenLooks
  <2>4. Goes(t, F)
    BY <1>1, <1>7, <2>1, <2>2, BranchElems
  <2> QED
    BY <2>3, <2>4
<1> HIDE DEF s, t
<1>10. Passes(m) /\ LoopStays(m) /\ \A d : NotOpened(d, m)
  BY <1>3, <1>6, EndPasses
<1> HIDE DEF m
<1>11. \A i \in Elems(t) : i.op = "access" => Inside(i.ptr, m)
  BY <1>3, <1>4, <1>7, <1>9, ForInside
<1>12. b + 3 \in F /\ b + 4 \in F
  BY <1>4
<1>13. AddsLater(m)
  BY <1>5, <1>6, <1>8, <1>9, <1>11, <1>12, TwoAdds DEF F
<1>14. GoesOn(m)
  BY <1>6, <1>12, <1>13 DEF GoesOn, F
<1> QED
  BY <1>6, <1>10, <1>14 DEF Follows, m

\* The block of the else branch, and that of a loop body, is the first of a scope.
Opening(c) == c \in BB /\ JustOpened(c) /\ Untouched(c) /\ Unused(c)

LEMMA FreshOpening ==
    ASSUME IInv', VInv', ~GlobalVars, NEW c \in BB, NEW n \in Nat, n > 1, Len(frames') = n,
           frames'[n].bb = c, ~Loop(frames'[n]), c \notin Future(frames'[n]),
           insertBB' = c, c <= nbb', instrs'[c] = <<>>,
           \A j \in 2..(n - 1) : frames'[j].bb # c /\ c \notin Future(frames'[j])
    PROVE  Opening(c)
<1>1. First(frames'[n]) = {c}
  BY DEF First
<1>2. c <= c
  BY DEF BB
<1>3. JustOpened(c)
  BY <1>1, <1>2 DEF JustOpened
<1>4. Untouched(c)
  BY DEF Untouched
<1>5. Unused(c)
  BY NoElem, EmptyUnused DEF VInv
<1> QED
  BY <1>3, <1>4, <1>5 DEF Opening

LEMMA ThenElseFollows ==
    ASSUME IInv, IInv', BInv, VInv', ~GlobalVars, ThenElse
    PROVE  Follows(Len(frames), Top.bb + 1) /\ Opening(Top.bb + 1)
<1> DEFINE b == Top.bb
           n == Len(frames)
           m == n - 1
           e == Frame("else", b + 1)
           F == Future(frames[n])
           s == <<Br(b + 2)>>
<1>1. Running /\ Top.kind = "then"
  BY DEF ThenElse
<1>2. /\ frames \in Seq(FrameRec) /\ n \in Nat /\ n > 2 /\ Top = frames[n]
      /\ b \in BB /\ nbb \in Nat /\ currentFunc # NoFunc
      /\ b + Ahead(Top.kind) <= MaxBB /\ b + Ahead(Top.kind) <= nbb
  BY <1>1, CloseFacts, TopFacts DEF Running
<1>3. b + 1 \in BB /\ b + 2 \in BB /\ b \in Nat /\ b + 1 <= nbb
  BY <1>1, <1>2, MaxBBAssumption DEF BB, Ahead
<1>4. e \in FrameRec /\ e.kind = "else" /\ e.bb = b + 1
  BY <1>3, FrameType DEF FrameKinds
<1>5. m \in Nat /\ n = m + 1 /\ m \in 1..n /\ n \in 1..n /\ n \in 2..n
  BY <1>2
<1>6. Len(frames') = n /\ frames'[n] = e /\ \A i \in 1..m : frames'[i] = frames[i]
  <2> DEFINE fr == PopFrame
  <2>1. fr \in Seq(FrameRec) /\ Len(fr) = m /\ \A i \in 1..m : fr[i] = frames[i]
    BY <1>2, <1>5, Popped DEF PopFrame
  <2>2. frames' = Append(fr, e)
    BY DEF ThenElse
  <2> HIDE DEF fr, e
  <2>3. Len(frames') = m + 1 /\ frames'[m + 1] = e /\ \A i \in 1..m : frames'[i] = frames[i]
    BY <1>4, <2>1, <2>2, Pushed
  <2> HIDE DEF m, n
  <2> QED
    BY <1>5, <2>3
<1> HIDE DEF e
<1>7. F = {b + 1, b + 2} /\ ToInsert(frames[n]) = F
  BY <1>1, <1>2 DEF Future, ToInsert
<1>8. Future(frames'[n]) = {b + 2} /\ ~Loop(frames'[n]) /\ ~Loop(frames[n])
  <2>1. b + 1 + 1 = b + 2
    BY <1>3
  <2> QED
    BY <1>1, <1>2, <1>4, <1>6, <2>1 DEF Future, ToInsert, Loop
<1>9. /\ instrs' = Emit(instrs, insertBB, s) /\ insertBB' = b + 1 /\ nbb' = nbb
  BY DEF ThenElse, Place
<1>10. /\ b + 1 # insertBB /\ instrs[b + 1] = <<>>
       /\ \A j \in 2..n : frames[j].bb # b + 1
       /\ \A j \in 2..n : j # n => b + 1 \notin Future(frames[j])
  <2>1. b + 1 \in ToInsert(frames[n])
    BY <1>7
  <2> QED
    BY <1>2, <1>5, <2>1, WaitsForOne
<1>11. s \in Seq(Instr) /\ Goes(s, F) /\ Uses(s)
  BY <1>3, <1>7, InstrType, TermTypes, OtherOps, OneElem DEF Goes, Uses
<1> HIDE DEF F, s, b
<1>12. GoesOn(n)
  <2>1. AddsHere(F) /\ b + 1 \in F
    BY <1>7, <1>9, <1>11, OneAdds
  <2> QED
    BY <1>9, <2>1, HereAddsLater DEF GoesOn, F
<1>13. \A i \in 2..m : frames'[i] = frames[i] /\ i \in 2..n /\ i # n
  <2> HIDE DEF m, n
  <2>1. \A i \in 2..m : i \in 1..m /\ i \in 2..n /\ i # n
    BY <1>5
  <2> QED
    BY <1>6, <2>1
<1>14. Passes(n)
  <2>1. \A i \in 2..m : SameHandler(i)
    BY <1>13, SameKind
  <2>2. \A j \in n..n : j = n
    BY <1>2
  <2>3. Future(frames'[n]) \subseteq Future(frames[n])
    BY <1>7, <1>8 DEF F
  <2> HIDE DEF n
  <2> QED
    BY <1>2, <1>5, <1>6, <2>1, <2>2, <2>3 DEF Passes, n
<1>15. LoopStays(n) /\ \A d : d # b + 1 => NotOpened(d, n)
  <2>1. \A j \in n..n : j = n
    BY <1>2
  <2> QED
    BY <1>4, <1>6, <1>8, <2>1 DEF LoopStays, NotOpened
<1>16. instrs'[b + 1] = <<>>
  <2>1. instrs \in [BB -> Seq(Instr)]
    BY DEF IInv, TypeOK
  <2> QED
    BY <1>3, <1>9, <1>10, <2>1 DEF Emit
<1>17. b + 1 \notin {b + 2}
  BY <1>3
<1> HIDE DEF n
<1>18. Opening(b + 1)
  <2>1. \A j \in 2..(n - 1) : frames'[j].bb # b + 1 /\ b + 1 \notin Future(frames'[j])
    BY <1>10, <1>13
  <2>2. frames'[n].bb = b + 1 /\ b + 1 \notin Future(frames'[n]) /\ b + 1 <= nbb' /\ n > 1
    BY <1>2, <1>3, <1>4, <1>6, <1>8, <1>9, <1>17
  <2> QED
    BY <1>2, <1>3, <1>6, <1>8, <1>9, <1>16, <2>1, <2>2, FreshOpening
<1> QED
  BY <1>9, <1>12, <1>14, <1>15, <1>18 DEF Follows, n, b

LEMMA ForConditionFollows ==
    ASSUME IInv, IInv', BInv, VInv, VInv', ~GlobalVars,
           NEW c \in Exprs \cup {NoExpr}, ForCondition(c)
    PROVE  Follows(Len(frames), Top.bb + 2) /\ Opening(Top.bb + 2)
<1> DEFINE b == Top.bb
           n == Len(frames)
           m == n - 1
           h == [Top EXCEPT !.kind = "for", !.branched = TRUE]
           e == Frame("loopbody", b + 2)
           exit == IF c = NoExpr THEN Br(b + 2) ELSE CondBr(b + 2, b + 4)
           s == <<Br(b + 1)>>
           t == Append(ExprCode(blocks, c), exit)
           F == Future(frames[n])
<1>1. status = "running" /\ Top.kind = "forinit" /\ ~Throws(blocks, c)
  BY DEF ForCondition, Running
<1>2. /\ frames \in Seq(FrameRec) /\ blocks \in Seq(Scope) /\ nbb \in 0..MaxBB /\ nbb \in Nat
      /\ n \in Nat /\ n > 1 /\ currentFunc # NoFunc /\ Len(blocks) = n
      /\ Top = frames[n] /\ Top \in FrameRec /\ b + Ahead(Top.kind) <= nbb
  <2>1. nbb \in 0..MaxBB /\ nbb \in Nat
    BY DEF IInv, TypeOK
  <2> QED
    BY <1>1, <2>1, TopFacts
<1>3. /\ b \in BB /\ b + 1 \in BB /\ b + 2 \in BB /\ b + 4 \in BB /\ b \in Nat /\ b + 2 <= nbb
  <2>1. b \in BB /\ b + 4 <= nbb
    BY <1>1, <1>2, AheadOf DEF FrameRec
  <2> HIDE DEF b
  <2>2. b \in Nat
    BY <2>1 DEF BB
  <2>3. b + 2 <= nbb
    BY <1>2, <2>1, <2>2
  <2> QED
    BY <1>2, <2>1, <2>2, <2>3, BlocksAhead
<1>4. h \in FrameRec /\ h.kind = "for" /\ h.bb = b
  BY <1>2 DEF FrameRec, FrameKinds
<1>5. e \in FrameRec /\ e.kind = "loopbody" /\ e.bb = b + 2
  BY <1>3, FrameType DEF FrameKinds
<1>6. m \in Nat /\ n = m + 1 /\ n \in 1..n /\ n \in 2..n /\ n + 1 \in Nat
  BY <1>2
<1>7. /\ Len(frames') = n + 1 /\ frames'[n] = h /\ frames'[n + 1] = e
      /\ \A i \in 1..m : frames'[i] = frames[i]
  <2> DEFINE fr == [frames EXCEPT ![n] = h]
  <2>1. frames' = Append(fr, e)
    BY DEF ForCondition
  <2> HIDE DEF h, e
  <2>2. /\ fr \in Seq(FrameRec) /\ Len(fr) = n
        /\ \A i \in 1..n : fr[i] = IF i = n THEN h ELSE frames[i]
    BY <1>2, <1>4, <1>6, ExceptSeq
  <2> HIDE DEF fr
  <2>3. /\ Len(frames') = n + 1 /\ frames'[n + 1] = e
        /\ \A i \in 1..n : frames'[i] = fr[i]
    BY <1>5, <2>1, <2>2, Pushed
  <2>4. fr[n] = h /\ \A i \in 1..m : fr[i] = frames[i]
    <3>1. n \in 1..n /\ \A i \in 1..m : i \in 1..n /\ i # n
      BY <1>2
    <3> QED
      BY <2>2, <3>1, Zenon
  <2>5. \A i \in 1..m : i \in 1..n
    BY <1>6
  <2> QED
    BY <1>6, <2>3, <2>4, <2>5, Zenon
<1> HIDE DEF h, e
<1>8. F = {b + 1, b + 2, b + 3, b + 4} /\ ToInsert(frames[n]) = F /\ Loop(frames[n])
  BY <1>1, <1>2 DEF Future, ToInsert, Loop
<1>9. /\ Future(frames'[n]) = {b + 3, b + 4} \cup {b + 1} /\ Loop(frames'[n])
      /\ Future(frames'[n + 1]) = {} /\ ~Loop(frames'[n + 1])
  BY <1>4, <1>5, <1>7 DEF Future, ToInsert, Loop
<1>10. /\ instrs' = Emit(Emit(instrs, insertBB, s), b + 1, t) /\ insertBB' = b + 2 /\ nbb' = nbb
  BY DEF ForCondition
<1>11. /\ b + 2 # insertBB /\ instrs[b + 2] = <<>>
       /\ \A j \in 2..n : frames[j].bb # b + 2
       /\ \A j \in 2..n : j # n => b + 2 \notin Future(frames[j])
  <2>1. b + 2 \in ToInsert(frames[n])
    BY <1>8
  <2> QED
    BY <1>2, <1>6, <2>1, WaitsForOne
<1>12. s \in Seq(Instr) /\ Goes(s, F) /\ Uses(s)
  BY <1>3, <1>8, InstrType, TermTypes, OtherOps, OneElem DEF Goes, Uses
<1>13. t \in Seq(Instr) /\ Goes(t, F) /\ Looks(blocks, t)
  <2>1. exit \in Instr /\ IsTerm(exit) /\ exit.op # "access" /\ exit.to \subseteq F
    BY <1>3, <1>8, InstrType, TermTypes, OtherOps
  <2> HIDE DEF exit
  <2> QED
    BY <1>1, <1>2, <2>1, ExprThenLooks, BranchElems
<1>14. \A i \in Elems(t) : i.op = "access" => Inside(i.ptr, n)
  <2> HIDE DEF t, n
  <2> QED
    BY <1>2, <1>6, <1>8, <1>13, ForInside DEF n
<1>15. b + 1 \in F /\ b + 2 \in F /\ b + 2 # b + 1 /\ b + 2 # b
       /\ b + 2 \notin {b + 3, b + 4} \cup {b + 1}
  BY <1>3, <1>8
<1> HIDE DEF F, s, t, b
<1>16. GoesOn(n)
  <2>1. AddsLater(n)
    BY <1>3, <1>10, <1>12, <1>13, <1>14, <1>15, TwoAdds DEF F
  <2> QED
    BY <1>10, <1>15, <2>1 DEF GoesOn, F
<1>17. \A i \in 2..m : frames'[i] = frames[i] /\ i \in 2..n /\ i # n
  <2> HIDE DEF m, n
  <2>1. \A i \in 2..m : i \in 1..m /\ i \in 2..n /\ i # n
    BY <1>6
  <2> QED
    BY <1>7, <2>1
<1>18. \A j \in n..(n + 1) : j = n \/ j = n + 1
  BY <1>2
<1>19. Passes(n)
  <2>1. \A i \in 2..m : SameHandler(i)
    BY <1>17, SameKind
  <2>2. Future(frames'[n]) \subseteq Future(frames[n]) /\ Future(frames'[n + 1]) \subseteq Future(frames[n])
    BY <1>8, <1>9 DEF F
  <2>3. m <= n + 1
    BY <1>6
  <2> HIDE DEF n
  <2> QED
    BY <1>2, <1>6, <1>7, <1>18, <2>1, <2>2, <2>3 DEF Passes, n
<1>20. LoopStays(n) /\ \A d : d # b + 2 => NotOpened(d, n)
  BY <1>2, <1>4, <1>5, <1>7, <1>8, <1>9, <1>18 DEF LoopStays, NotOpened, b
<1>21. instrs'[b + 2] = <<>>
  <2>1. instrs \in [BB -> Seq(Instr)] /\ insertBB \in BB \cup {NoBB} /\ b + 1 \in BB \cup {NoBB}
    BY <1>3 DEF IInv, TypeOK
  <2> DEFINE d == instrs'
  <2>2. d = Emit(Emit(instrs, insertBB, s), b + 1, t)
    BY <1>10
  <2> HIDE DEF d
  <2>3. SameBut(instrs, d, {insertBB, b + 1})
    BY <1>12, <1>13, <2>1, <2>2, EmitTwiceAdds
  <2> QED
    BY <1>3, <1>11, <1>15, <2>3 DEF SameBut, d
<1>22. Opening(b + 2)
  <2> DEFINE d == b + 2
             p == n + 1
  <2>1. ASSUME NEW j \in 2..(p - 1)
        PROVE  frames'[j].bb # b + 2 /\ b + 2 \notin Future(frames'[j])
    <3>1. CASE j = n
      BY <1>4, <1>7, <1>9, <1>15, <3>1
    <3>2. CASE j # n
      <4>1. j \in 2..m
        <5> HIDE DEF n, m
        <5> QED
          BY <1>2, <1>6, <3>2
      <4> QED
        BY <1>11, <1>17, <4>1
    <3> QED
      BY <3>1, <3>2
  <2>2. frames'[n + 1].bb = b + 2 /\ b + 2 \notin Future(frames'[n + 1]) /\ b + 2 <= nbb' /\ n + 1 > 1
    BY <1>2, <1>3, <1>5, <1>7, <1>9, <1>10
  <2> HIDE DEF n
  <2>3. d \in BB /\ p \in Nat /\ p > 1 /\ Len(frames') = p
    BY <1>3, <1>6, <1>7, <2>2
  <2>4. /\ frames'[p].bb = d /\ ~Loop(frames'[p]) /\ d \notin Future(frames'[p])
        /\ insertBB' = d /\ d <= nbb' /\ instrs'[d] = <<>>
    BY <1>9, <1>10, <1>21, <2>2
  <2>5. \A j \in 2..(p - 1) : frames'[j].bb # d /\ d \notin Future(frames'[j])
    BY <2>1
  <2> HIDE DEF d, p
  <2>6. Opening(d)
    BY <2>3, <2>4, <2>5, FreshOpening
  <2> QED
    BY <2>6 DEF d
<1> QED
  BY <1>10, <1>16, <1>19, <1>20, <1>22 DEF Follows, b

\* Every block keeps its region, or has one now.
LEMMA FollowsRegions ==
    ASSUME NEW m, NEW c, Follows(m, c), c = NoBB \/ Opening(c),
           NEW d \in BB, NEW S \in SUBSET BB, Region(d, S)
    PROVE  \E R \in SUBSET BB : Region(d, R)'
<1>1. CASE d = c
  <2>1. Opening(c)
    BY <1>1 DEF BB, NoBB
  <2> QED
    BY <1>1, <2>1, FirstRegion DEF Opening
<1>2. CASE d # c
  <2>1. Region(d, S)'
    BY <1>2, LaterRegion DEF Follows
  <2> QED
    BY <2>1
<1> QED
  BY <1>1, <1>2

----------------------------------------------------------------------------
\* An access comes after the alloca.

LEMMA EmitOrdered ==
    ASSUME NEW c \in [BB -> Seq(Instr)], Ordered(c), NEW a \in BB \cup {NoBB}, NEW s \in Seq(Instr),
           \A i \in Elems(s) : i.op = "access" => Known(c, i.ptr)
    PROVE  Ordered(Emit(c, a, s))
<1> DEFINE d == Emit(c, a, s)
<1>1. EmitsAt(c, a, s, d)
  BY EmitAt
<1> HIDE DEF d
<1> SUFFICES ASSUME NEW x \in BB, NEW k \in 1..Len(d[x]), d[x][k].op = "access", d[x][k].ptr[1] = x
             PROVE  d[x][k].ptr[2] < k
  BY DEF Ordered, d
<1>2. CASE x # a
  BY <1>1, <1>2 DEF EmitsAt, Ordered
<1>3. CASE x = a
  <2>5. Len(c[x]) \in Nat /\ Len(s) \in Nat
    OBVIOUS
  <2>6. a \in BB
    BY <1>3
  <2>7. /\ Len(d[a]) = Len(c[a]) + Len(s)
        /\ \A j \in 1..Len(c[a]) : d[a][j] = c[a][j]
        /\ \A j \in 1..Len(s) : d[a][Len(c[a]) + j] = s[j]
    BY ONLY <1>1, <2>6, Zenon DEF EmitsAt
  <2>1. /\ Len(d[x]) = Len(c[x]) + Len(s) /\ Len(c[x]) \in Nat /\ Len(s) \in Nat
        /\ \A j \in 1..Len(c[x]) : d[x][j] = c[x][j]
        /\ \A j \in 1..Len(s) : d[x][Len(c[x]) + j] = s[j]
    BY ONLY <1>3, <2>5, <2>7, Zenon
  <2>2. CASE k <= Len(c[x])
    <3>1. k \in 1..Len(c[x])
      BY <2>1, <2>2
    <3> QED
      BY <2>1, <3>1 DEF Ordered
  <2>3. CASE ~(k <= Len(c[x]))
    <3> DEFINE j == k - Len(c[x])
    <3>1. j \in 1..Len(s) /\ k = Len(c[x]) + j
      BY <2>1, <2>3
    <3>2. d[x][k] = s[j] /\ s[j] \in Elems(s)
      BY <2>1, <3>1 DEF Elems
    <3>3. Known(c, d[x][k].ptr)
      BY <3>2
    <3>4. d[x][k].ptr[2] \in Nat /\ d[x][k].ptr[2] <= Len(c[x])
      BY <3>3 DEF Known, Ptr
    <3> QED
      BY <2>1, <2>3, <3>4
  <2> QED
    BY <2>2, <2>3
<1> QED
  BY <1>2, <1>3

LEMMA ScopeOrdered ==
    ASSUME IInv, VInv, Ordered(instrs), SeesScope
    PROVE  Ordered(instrs')
<1>1. PICK a \in BB \cup {NoBB}, b \in BB \cup {NoBB}, s \in Seq(Instr), t \in Seq(Instr) :
          Writes(a, s, b, t) /\ Looks(blocks, s) /\ Looks(blocks, t)
  BY DEF SeesScope
<1>2. instrs \in [BB -> Seq(Instr)]
  BY DEF IInv, TypeOK
<1>3. \A p : Visible(blocks, p) => Known(instrs, p)
  BY DEF VInv, Visible, Bound
<1>4. \A i \in Elems(s) \cup Elems(t) : i.op = "access" => Known(instrs, i.ptr)
  BY <1>1, <1>3 DEF Looks
<1> DEFINE m == Emit(instrs, a, s)
<1>5. m \in [BB -> Seq(Instr)] /\ Extends(instrs, m) /\ Ordered(m)
  BY <1>2, <1>4, EmitAdds, EmitOrdered
<1>6. instrs' = Emit(m, b, t)
  BY <1>1 DEF Writes
<1> HIDE DEF m
<1>7. \A i \in Elems(t) : i.op = "access" => Known(m, i.ptr)
  BY <1>2, <1>4, <1>5, KnownKept
<1>8. Ordered(Emit(m, b, t))
  BY <1>5, <1>7, EmitOrdered
<1> QED
  BY <1>6, <1>8

\* A declaration: its alloca first, then the code that may access it.
LEMMA AllocaOrdered ==
    ASSUME IInv, Ordered(instrs), NEW a \in BB, NEW b \in BB \cup {NoBB}, NEW t \in Seq(Instr),
           instrs' = Emit(Emit(instrs, a, <<Alloca>>), b, t),
           \A i \in Elems(t) : i.op = "access" =>
              Known(instrs, i.ptr) \/ i.ptr = <<a, Len(instrs[a]) + 1>>
    PROVE  Ordered(instrs')
<1> DEFINE s == <<Alloca>>
           m == Emit(instrs, a, s)
<1>1. instrs \in [BB -> Seq(Instr)] /\ s \in Seq(Instr) /\ a \in BB \cup {NoBB}
      /\ NoBB \in BB \cup {NoBB} /\ <<>> \in Seq(Instr)
  BY InstrType DEF IInv, TypeOK
<1>2. \A i \in Elems(s) : i.op # "access"
  BY OneElem DEF Alloca
<1>3. Known(m, <<a, Len(instrs[a]) + 1>>)
  <2>1. Known(Emit(m, NoBB, <<>>), <<a, Len(instrs[a]) + 1>>)
    BY <1>1, AllocaAt
  <2> QED
    BY <2>1, EmitNowhere
<1> HIDE DEF s
<1>4. m \in [BB -> Seq(Instr)] /\ Extends(instrs, m) /\ Ordered(m)
  BY <1>1, <1>2, EmitAdds, EmitOrdered
<1>5. instrs' = Emit(m, b, t)
  BY DEF s
<1> HIDE DEF m
<1>6. \A i \in Elems(t) : i.op = "access" => Known(m, i.ptr)
  BY <1>1, <1>3, <1>4, KnownKept
<1>7. Ordered(Emit(m, b, t))
  BY <1>4, <1>6, EmitOrdered
<1> QED
  BY <1>5, <1>7

LEMMA AddParamOrdered ==
    ASSUME IInv, Ordered(instrs), NEW v \in Vars, AddParam(v)
    PROVE  Ordered(instrs')
<1>1. status = "running"
  BY DEF AddParam, Running
<1>2. GetCurrentBlock \in BB /\ insertBB \in BB \cup {NoBB}
  BY <1>1, TopFacts DEF IInv, TypeOK
<1> DEFINE p == NextPlace
<1>3. p \in Ptr
  BY <1>2 DEF NextPlace, Ptr, IInv, TypeOK
<1>4. instrs' = Emit(Emit(instrs, GetCurrentBlock, <<Alloca>>), insertBB, <<Access(p)>>)
  BY DEF AddParam, NextPlace
<1>5. p = <<GetCurrentBlock, Len(instrs[GetCurrentBlock]) + 1>>
  BY DEF NextPlace
<1> HIDE DEF p
<1>6. <<Access(p)>> \in Seq(Instr) /\ \A i \in Elems(<<Access(p)>>) : i.ptr = p
  BY <1>3, InstrType, OneElem DEF Access
<1> QED
  BY <1>2, <1>4, <1>5, <1>6, AllocaOrdered

LEMMA DefineVarOrdered ==
    ASSUME IInv, VInv, Ordered(instrs),
           NEW v \in Vars, NEW init \in Exprs \cup {NoExpr}, NEW more \in BOOLEAN,
           DefineVar(v, init, more)
    PROVE  Ordered(instrs')
<1> DEFINE p == NextPlace
           scope == AddLocalVar(blocks, p, v)
           t == Value(scope, init)
<1>1. /\ status = "running" /\ scope \in Seq(Scope) /\ ~Throws(scope, init) /\ p \in Ptr
      /\ t \in Seq(Instr) /\ GetCurrentBlock \in BB /\ blocks \in Seq(Scope)
      /\ instrs' = Emit(Emit(instrs, GetCurrentBlock, <<Alloca>>), insertBB, t)
      /\ insertBB \in BB \cup {NoBB}
  BY DefineVarFacts DEF IInv, TypeOK
<1>2. blocks # <<>>
  <2>1. Len(blocks) > 0
    BY <1>1, TopFacts
  <2> QED
    BY <2>1, NotEmpty
<1>3. \A q : Visible(blocks, q) => Known(instrs, q)
  BY DEF VInv, Visible, Bound
<1>4. \A q : Visible(scope, q) => Known(instrs, q) \/ q = p
  BY <1>1, <1>2, <1>3, AddedVisible
<1>5. p = <<GetCurrentBlock, Len(instrs[GetCurrentBlock]) + 1>>
  BY DEF NextPlace
<1> HIDE DEF p, scope
<1>6. \A i \in Elems(t) : i.op = "access" => Known(instrs, i.ptr) \/ i.ptr = p
  <2>1. CASE init = NoExpr
    BY <2>1, NoElem DEF Value
  <2>2. CASE init # NoExpr
    <3> DEFINE s == ExprCode(scope, init)
    <3>1. s \in Seq(Instr) /\ Looks(scope, s)
      BY <1>1, ExprCodeType, ExprLooks
    <3>2. t = Append(s, Access(p)) /\ Access(p) \in Instr /\ Access(p).ptr = p
      BY <1>1, <2>2, InstrType DEF Value, p, Access
    <3> HIDE DEF s, t
    <3>3. Elems(t) = Elems(s) \cup {Access(p)}
      BY <3>1, <3>2, AppendElems
    <3> QED
      BY <1>4, <3>1, <3>2, <3>3 DEF Looks
  <2> QED
    BY <2>1, <2>2
<1> HIDE DEF t
<1> QED
  BY <1>1, <1>5, <1>6, AllocaOrdered

LEMMA OrderedStep ==
    ASSUME IInv, IInv', BInv, VInv, Ordered(instrs), [Next]_vars
    PROVE  Ordered(instrs')
<1>1. ASSUME NEW f \in FuncNames, CreatePrintFunc(f)
      PROVE  Ordered(instrs')
  <2> DEFINE s == <<Call, Ret>>
  <2>1. nbb + 1 \in BB \cup {NoBB} /\ instrs' = Emit(instrs, nbb + 1, s)
    BY <1>1, PrintFuncScopes DEF CreatePrintFunc
  <2>2. s \in Seq(Instr) /\ instrs \in [BB -> Seq(Instr)]
    BY InstrType DEF IInv, TypeOK
  <2>3. Elems(s) = {Call, Ret}
    BY DEF Elems
  <2>4. \A i \in Elems(s) : i.op # "access"
    BY <2>3, OtherOps
  <2> HIDE DEF s
  <2>5. Ordered(Emit(instrs, nbb + 1, s))
    BY <2>1, <2>2, <2>4, EmitOrdered
  <2> QED
    BY <2>1, <2>5
<1>2. ASSUME NEW v \in Vars, AddParam(v) PROVE Ordered(instrs')
  BY <1>2, AddParamOrdered
<1>3. ASSUME NEW v \in Vars, NEW e \in Exprs \cup {NoExpr}, NEW more \in BOOLEAN,
             DefineVar(v, e, more)
      PROVE  Ordered(instrs')
  BY <1>3, DefineVarOrdered
<1>4. CASE \/ BeginBody \/ EmptyStmt \/ EndBlock \/ EndFunc
           \/ \E e \in Exprs : ExprStmt(e)
           \/ \E e \in Exprs \cup {NoExpr} : Return(e)
  BY <1>4, PlainAccesses, ScopeOrdered
<1>5. CASE \/ BeginBlock \/ BeginFor \/ \E e \in Exprs : BeginIf(e)
           \/ \E f \in FuncNames, void \in BOOLEAN : BeginFunc(f, void)
  BY <1>5, BeginAccesses, ScopeOrdered
<1>6. CASE ThenElse \/ EndThen \/ EndElse
  BY <1>6, IfAccesses, ScopeOrdered
<1>7. ASSUME NEW e \in Exprs \cup {NoExpr}, ForCondition(e) PROVE Ordered(instrs')
  BY <1>7, ForConditionAccesses, ScopeOrdered
<1>8. ASSUME NEW e \in Exprs \cup {NoExpr}, EndFor(e) PROVE Ordered(instrs')
  BY <1>8, EndForAccesses, ScopeOrdered
<1>9. CASE EndProg
  <2>1. \A x \in BB : instrs'[x] = <<>> \/ instrs'[x] = instrs[x]
    BY <1>9 DEF EndProg, IInv, TypeOK
  <2>2. 1..Len(<<>>) = {}
    OBVIOUS
  <2> QED
    BY <2>1, <2>2 DEF Ordered
<1>10. CASE BeginProg \/ Abort \/ Ended \/ UNCHANGED vars
  <2>1. instrs' = instrs
    BY <1>10 DEF BeginProg, Abort, Ended, vars, code
  <2> QED
    BY <2>1
<1> QED
  BY <1>1, <1>2, <1>3, <1>4, <1>5, <1>6, <1>7, <1>8, <1>9, <1>10 DEF Next, Step

----------------------------------------------------------------------------
\* The invariant and the theorem.

LEMMA InitDInv == Init => DInv
<1> SUFFICES ASSUME Init PROVE DInv
  OBVIOUS
<1>1. /\ nbb = 0 /\ frames = <<>> /\ instrs = [x \in BB |-> <<>>]
  BY DEF Init
<1>2. \A x \in BB : Elems(instrs[x]) = {} /\ Len(instrs[x]) = 0
  BY <1>1, NoElem
<1>3. Ordered(instrs)
  BY <1>2 DEF Ordered
<1>4. ASSUME NEW d \in BB
      PROVE  Region(d, {})
  <2>1. 2..Len(frames) = {}
    BY <1>1
  <2> QED
    BY <1>2, <2>1 DEF Region, Begins, Entered, HoldsUses, HoldsOpen, HoldsOnly
<1> QED
  BY <1>3, <1>4 DEF DInv

LEMMA RegionStep ==
    ASSUME IInv, IInv', BInv, VInv, VInv', ~GlobalVars, [Next]_vars,
           NEW d \in BB, NEW S \in SUBSET BB, Region(d, S)
    PROVE  \E R \in SUBSET BB : Region(d, R)'
<1>1. CASE \/ EmptyStmt \/ \E e \in Exprs \cup {NoExpr} : ExprStmt(e) \/ Return(e)
           \/ EndFunc \/ EndBlock \/ BeginBody \/ BeginProg \/ EndProg
           \/ \E v \in Vars : AddParam(v)
           \/ \E v \in Vars, e \in Exprs \cup {NoExpr}, more \in BOOLEAN : DefineVar(v, e, more)
           \/ \E f \in FuncNames : CreatePrintFunc(f)
           \/ Abort \/ Ended \/ UNCHANGED vars
  <2>1. Quiet
    BY <1>1, QuietSteps
  <2>2. Region(d, S)'
    BY <2>1, QuietRegion DEF Quiet
  <2> QED
    BY <2>2
<1>2. CASE \/ BeginBlock \/ BeginFor \/ \E e \in Exprs : BeginIf(e)
           \/ \E f \in FuncNames, void \in BOOLEAN : BeginFunc(f, void)
  <2>1. PICK h, T : Begun(h, T)
    BY <1>2, BeginBegun, FuncBegun
  <2> QED
    BY <2>1, BegunRegions
<1>3. CASE EndThen \/ EndElse
  BY <1>3, EndIfFollows, FollowsRegions
<1>4. CASE ThenElse
  BY <1>4, ThenElseFollows, FollowsRegions
<1>5. ASSUME NEW e \in Exprs \cup {NoExpr}, ForCondition(e)
      PROVE  \E R \in SUBSET BB : Region(d, R)'
  BY <1>5, ForConditionFollows, FollowsRegions
<1>6. ASSUME NEW e \in Exprs \cup {NoExpr}, EndFor(e)
      PROVE  \E R \in SUBSET BB : Region(d, R)'
  BY <1>6, EndForFollows, FollowsRegions
<1> QED
  BY <1>1, <1>2, <1>3, <1>4, <1>5, <1>6 DEF Next, Step

LEMMA NextDInv ==
    ASSUME IInv, IInv', BInv, VInv, VInv', ~GlobalVars, DInv, [Next]_vars
    PROVE  DInv'
<1>1. Ordered(instrs')
  BY OrderedStep DEF DInv
<1>2. ASSUME NEW d \in BB
      PROVE  \E R \in SUBSET BB : Region(d, R)'
  <2>1. PICK S \in SUBSET BB : Region(d, S)
    BY DEF DInv
  <2> QED
    BY <2>1, RegionStep
<1> QED
  BY <1>1, <1>2 DEF DInv

\* The entry of a function is the first of its blocks.
LEMMA EntryFirst ==
    ASSUME NEW b \in Owned
    PROVE  /\ Entry(b) \in Owned /\ owner[Entry(b)] = owner[b]
           /\ \A o \in Owned : owner[o] = owner[b] => Entry(b) <= o
<1> DEFINE T == {e \in Owned : owner[e] = owner[b]}
<1>1. T \subseteq Nat /\ T # {}
  BY DEF Owned, BB
<1>2. \E m \in T : \A n \in T : m <= n
  BY <1>1, MinNat
<1>3. \E e \in Owned : owner[e] = owner[b] /\ \A o \in Owned : owner[o] = owner[b] => e <= o
  BY <1>2
<1> QED
  BY <1>3 DEF Entry

LEMMA RegionDominates ==
    ASSUME IInv, BInv, Generated, NEW b \in Owned, NEW d \in Owned, owner[d] = owner[b], d # b,
           NEW S \in SUBSET BB, Region(d, S), b \in S
    PROVE  Dominates(d, b)
<1> SUFFICES ASSUME d # Entry(b)
             PROVE  Dominates(d, b)
  BY DEF Dominates
<1> DEFINE around == {x \in Owned : owner[x] = owner[b] /\ x \notin S /\ x # d}
           e == Entry(b)
<1>1. e \in Owned /\ owner[e] = owner[b] /\ e <= d
  BY EntryFirst
<1>2. e \notin S
  <2>1. e \in S => d <= e
    BY DEF Region, Begins
  <2>2. e \in Nat /\ d \in Nat
    BY <1>1 DEF Owned, BB
  <2> HIDE DEF e
  <2>3. e # d
    BY DEF e
  <2> QED
    BY <1>1, <2>1, <2>2, <2>3
<1>3. e \in around
  BY <1>1, <1>2
<1>4. around \in SUBSET {x \in Owned : owner[x] = owner[b] /\ x \notin {d, b}}
  OBVIOUS
<1>5. ASSUME NEW x \in around
      PROVE  Targets(x) \ {d} \subseteq around
  <2> SUFFICES ASSUME NEW k \in 1..Len(instrs[x]), NEW t \in instrs[x][k].to, t # d
               PROVE  t \in around
    BY DEF Targets
  <2>1. x \in BB /\ x \notin S /\ owner[x] = owner[b] /\ owner[b] # NoFunc
    BY DEF Owned
  <2>2. instrs[x][k] \in Elems(instrs[x])
    BY DEF Elems
  <2>3. t \notin S
    BY <2>1, <2>2 DEF Region, Entered
  <2>4. Len(frames) <= 2
    BY DEF IInv, HandlersNested, Generated
  <2>5. t \in BB /\ owner[t] = owner[x]
    BY <2>1, <2>2, <2>4, BranchesStay
  <2> QED
    BY <2>1, <2>3, <2>5 DEF Owned
<1> HIDE DEF around
<1> QED
  BY <1>3, <1>4, <1>5 DEF Dominates

LEMMA DInvDominates ==
    ASSUME IInv, BInv, VInv, DInv, ~GlobalVars
    PROVE  DefDominatesUse
<1> SUFFICES ASSUME Generated, NEW b \in Owned, NEW k \in Accesses(b)
             PROVE  LET p == instrs[b][k].ptr
                    IN  IF p[1] = b THEN p[2] < k ELSE Dominates(p[1], b)
  BY DEF DefDominatesUse
<1> DEFINE i == instrs[b][k]
           p == i.ptr
<1>1. b \in BB /\ owner[b] # NoFunc /\ k \in 1..Len(instrs[b]) /\ i.op = "access"
  BY DEF Owned, Accesses
<1>2. i \in Elems(instrs[b])
  BY <1>1 DEF Elems
<1>3. Known(instrs, p) /\ owner[p[1]] = owner[b]
  BY <1>1, <1>2 DEF VInv, Accessed, Reaches
<1>4. p[1] \in Owned
  BY <1>1, <1>3 DEF Known, Ptr, Owned
<1>5. CASE p[1] = b
  BY <1>1, <1>5 DEF DInv, Ordered
<1>6. CASE p[1] # b
  <2>1. p[1] \in BB
    BY <1>4 DEF Owned
  <2>2. PICK S \in SUBSET BB : Region(p[1], S)
    BY <2>1 DEF DInv
  <2>3. b \in S
    BY <1>1, <1>2, <2>2 DEF Region, HoldsUses
  <2>4. Dominates(p[1], b)
    BY <1>3, <1>4, <1>6, <2>2, <2>3, RegionDominates
  <2> QED
    BY <1>6, <2>4
<1> QED
  BY <1>5, <1>6

\* The alloca of each variable that is accessed comes earlier in the block of
\* the access, or is in a block that every path to it goes through, in every
\* program without global variables: wherever it returns, branches, loops or
\* declares, a variable is found only where the block of its scope dominates.
\* For a disciplined program DisciplinedWellFormed adds that no alloca is
\* behind the end of its block, so that it is executed before the access.
THEOREM DefsDominateUses ==
    ASSUME ~GlobalVars
    PROVE  Spec => []DefDominatesUse
<1>1. Init => IInv /\ BInv /\ VInv /\ DInv
  BY InitIInv, InitBInv, InitVInv, InitDInv
<1>2. IInv /\ BInv /\ VInv /\ DInv /\ [Next]_vars => (IInv /\ BInv /\ VInv /\ DInv)'
  BY NextIInv, NextBInv, NextVInv, NextDInv
<1>3. IInv /\ BInv /\ VInv /\ DInv => DefDominatesUse
  BY DInvDominates
<1> QED
  BY <1>1, <1>2, <1>3, PTL DEF Spec
=============================================================================
