---------------------------- MODULE ControlFlow ----------------------------
(***************************************************************************)
(* CodeGen with the flow of control that the source means, recorded while  *)
(* the code is generated: what an if, a for, a block and a return do after *)
(* one another, by the structure of the statements alone.                  *)
(*                                                                         *)
(* A place <<b, k>> is that of the k-th instruction of block b, or of the  *)
(* end of what b has so far.  The points are the events of the code, an    *)
(* access, a call, a branch on a condition or a return, and the heads      *)
(* <<b, 0>>: the entry of a function and the place a loop comes back to.   *)
(***************************************************************************)
EXTENDS CodeGen

VARIABLES heads, \* the heads
          flow,  \* pairs of points: the second may come right after the first
          last,  \* the points after which control is at the current statement
          outer  \* for each active handler: the points after which control is at
                 \* its end, and those its else or its next round starts from

history == <<heads, flow, last, outer>>

\* An unconditional branch is no event.
IsBranch(i) == IsTerm(i) /\ \E t \in i.to : i.to = {t}

IsEvent(i) == i.op \in {"access", "call"} \/ (IsTerm(i) /\ ~IsBranch(i))

\* The events that a step adds to block b.
NewEvents(b) ==
    {<<b, k>> : k \in {j \in (Len(instrs[b]) + 1)..Len(instrs'[b]) : IsEvent(instrs'[b][j])}}

Earliest(es) == {p \in es : \A q \in es : p[2] <= q[2]}
Latest(es)   == {p \in es : \A q \in es : q[2] <= p[2]}

\* The events es of one block one after another, when control comes from the
\* points `from': the pairs that this adds, and where control is then.
Along(from, es) ==
    (from \X Earliest(es)) \cup
    {d \in es \X es : d[2] \in Earliest({q \in es : d[1][2] < q[2]})}

After(from, es) == IF es = {} THEN from ELSE Latest(es)

\* What is added at the insertion point happens in its order.
InOrder ==
    /\ flow' = flow \cup Along(last, NewEvents(insertBB))
    /\ last' = After(last, NewEvents(insertBB))
    /\ UNCHANGED <<heads, outer>>

\* Nothing in the function comes after a return.
LeaveFunc ==
    /\ flow' = flow \cup Along(last, NewEvents(insertBB))
    /\ last' = {}
    /\ UNCHANGED heads

FlowInit == heads = {} /\ flow = {} /\ last = {} /\ outer = <<>>

Handler(exits, start) == [exits |-> exits, start |-> start]
Simply == Handler({}, {})

Inner == outer[Len(outer)]
Around  == SubSeq(outer, 1, Len(outer) - 1)

Enter ==
    /\ heads' = heads \cup {<<nbb + 1, 0>>}
    /\ last' = {<<nbb + 1, 0>>}
    /\ outer' = Append(outer, Simply)
    /\ UNCHANGED flow

EnterPlain == outer' = Append(outer, Simply) /\ UNCHANGED <<heads, flow, last>>
LeavePlain == outer' = Around /\ UNCHANGED <<heads, flow, last>>

\* An if goes to one branch or the other from its condition.
EnterIf ==
    /\ flow' = flow \cup Along(last, NewEvents(insertBB))
    /\ last' = After(last, NewEvents(insertBB))
    /\ outer' = Append(outer, Handler({}, last'))
    /\ UNCHANGED heads

EnterElse ==
    /\ last' = Inner.start
    /\ outer' = Append(Around, Handler(last, {}))
    /\ UNCHANGED <<heads, flow>>

LeaveIf ==
    /\ last' = last \cup Inner.exits \cup Inner.start
    /\ outer' = Around
    /\ UNCHANGED <<heads, flow>>

\* A for tests its condition before each round; without one it has no exit.
EnterLoop(cond) ==
    LET head == <<Top.bb + 1, 0>>
        test == NewEvents(Top.bb + 1)
    IN  /\ heads' = heads \cup {head}
        /\ flow' = flow \cup (last \X {head}) \cup Along({head}, test)
        /\ last' = After({head}, test)
        /\ outer' = Append(Append(Around, Handler(IF cond = NoExpr THEN {} ELSE last', {head})), Simply)

\* After a round comes the increment, then the condition again.
LeaveFor ==
    LET for  == outer[Len(outer) - 1]
        incr == NewEvents(frames[Len(frames) - 1].bb + 3)
    IN  /\ flow' = flow \cup Along(last, incr) \cup (After(last, incr) \X for.start)
        /\ last' = for.exits
        /\ outer' = SubSeq(outer, 1, Len(outer) - 2)
        /\ UNCHANGED heads

FlowNext ==
    \/ \E f \in FuncNames : CreatePrintFunc(f) /\ UNCHANGED history
    \/ (BeginBody \/ EmptyStmt \/ Abort) /\ UNCHANGED history
    \/ (BeginProg \/ BeginBlock \/ BeginFor) /\ EnterPlain
    \/ (EndProg \/ EndBlock) /\ LeavePlain
    \/ \E f \in FuncNames, void \in BOOLEAN : BeginFunc(f, void) /\ Enter
    \/ \E v \in Vars : AddParam(v) /\ InOrder
    \/ EndFunc /\ LeaveFunc /\ outer' = Around
    \/ \E e \in Exprs : ExprStmt(e) /\ InOrder
    \/ \E v \in Vars, e \in Exprs \cup {NoExpr}, more \in BOOLEAN :
           DefineVar(v, e, more) /\ InOrder
    \/ \E e \in Exprs : BeginIf(e) /\ EnterIf
    \/ ThenElse /\ EnterElse
    \/ (EndThen \/ EndElse) /\ LeaveIf
    \/ \E e \in Exprs \cup {NoExpr} : ForCondition(e) /\ EnterLoop(e)
    \/ \E e \in Exprs \cup {NoExpr} : EndFor(e) /\ LeaveFor
    \/ \E e \in Exprs \cup {NoExpr} : Return(e) /\ LeaveFunc /\ UNCHANGED outer
    \/ Ended /\ UNCHANGED history

FlowSpec == Init /\ FlowInit /\ [][FlowNext]_<<vars, history>>

----------------------------------------------------------------------------
\* The first event or terminator of a block s behind index k; its end if none.
Stop(s, k) ==
    CHOOSE j \in (k + 1)..(Len(s) + 1) :
        /\ j <= Len(s) => IsTerm(s[j]) \/ IsEvent(s[j])
        /\ \A i \in (k + 1)..(j - 1) : ~IsTerm(s[i]) /\ ~IsEvent(s[i])

Passes(s, k) == Stop(s, k) <= Len(s) /\ IsBranch(s[Stop(s, k)])

\* Where control stops in block b of the code c behind index k, or else the
\* blocks it passes on to.
StopsAt(c, b, k)  == IF Passes(c[b], k) THEN {} ELSE {<<b, Stop(c[b], k)>>}
PassesTo(c, b, k) == IF Passes(c[b], k) THEN c[b][Stop(c[b], k)].to ELSE {}

\* The same from the beginning of a block: control stops at a head of hs.
Stops(c, hs, b) == IF <<b, 0>> \in hs THEN {<<b, 0>>} ELSE StopsAt(c, b, 0)
Onto(c, hs, b)  == IF <<b, 0>> \in hs THEN {} ELSE PassesTo(c, b, 0)

\* The blocks of bs and those that control gets to from them without a stop,
\* in so many steps; there are no more than MaxBB.
Further(c, hs, bs) == bs \cup UNION {Onto(c, hs, b) : b \in bs}

Within(c, hs, bs) ==
    LET within[n \in 0..MaxBB] == IF n = 0 THEN bs ELSE Further(c, hs, within[n - 1])
    IN  within

Through(c, hs, bs) == Within(c, hs, bs)[MaxBB]

\* Where control stops first from the blocks bs on.
FirstStops(c, hs, bs) == UNION {Stops(c, hs, b) : b \in Through(c, hs, bs)}

\* Where control stops first behind a point.
NextInCode(c, hs, p) ==
    LET b == p[1]
        k == p[2]
    IN  IF k > 0 /\ IsTerm(c[b][k]) THEN FirstStops(c, hs, c[b][k].to)
        ELSE StopsAt(c, b, k) \cup FirstStops(c, hs, PassesTo(c, b, k))

Events ==
    UNION {{<<b, k>> : k \in {j \in 1..Len(instrs[b]) : IsEvent(instrs[b][j])}} : b \in Owned}

Points == heads \cup {p \in Events : owner[p[1]] \notin IOFuncs}

NextInSource(p) == {d[2] : d \in {e \in flow : e[1] = p}}

\* Control flows through the generated blocks as the statements say: after
\* each access, call and condition comes what the source has next, through
\* branches that meet, loops that come back and statements that are missing
\* (Block, IfStmt, ForStmt and FuncBody::CodeGen).
FlowAsWritten ==
    Generated => \A p \in Points : NextInCode(instrs, heads, p) = NextInSource(p)
=============================================================================
