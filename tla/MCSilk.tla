------------------------------- MODULE MCSilk -------------------------------
(***************************************************************************)
(* Programs for Silk, built with the compiler's fragments.                 *)
(***************************************************************************)
EXTENDS Silk

D == INSTANCE Digest

f == <<"f">>
g == <<"g">>
h == <<"f", "h">>

Cond == D!Compare(D!Variable, D!Number)
Say == D!PrintOf(D!Text)
SetX == D!Assign(D!Variable, D!Number)
CallG == D!CallOf(g, <<>>)
CallF == D!CallOf(f, <<>>)
CallF2 == D!CallOf(f, <<D!Number, D!Text>>)

-----------------------------------------------------------------------------
(* Programs that use each construct the way the documentation's examples    *)
(* do: definitions first, an else behind its if or one statement later,     *)
(* assignments outside blocks and nested loops, a return inside a statement *)
(* only in blocks the top level calls.                                      *)

Simple == {SetX, Say, D!If(Cond, SetX), D!If(Cond, Say) \o D!Else(SetX), D!While(Cond, Say)}

Statements ==
    {D!If(Cond, s) \o Say : s \in Simple}
    \cup {D!While(Cond, s \o Say) : s \in Simple}
    \cup {D!If(Cond, s) \o D!Else(t) \o Say : s, t \in Simple}
    \cup {D!If(Cond, Say) \o s \o D!Else(Say) \o Say : s \in {Say, SetX, D!VarInit(D!Text)}}

\* Bodies of a block g that may be called from anywhere.
PlainBodies ==
    {<<>>, Say, D!Return(D!Number), D!Return(D!Text),
     D!If(Cond, Say) \o D!Else(Say) \o D!Return(D!Arith(D!Variable, D!Number)),
     D!While(Cond, Say) \o D!Return(D!Unary(D!Variable))}

\* Bodies that return from inside a statement.
EarlyBodies ==
    {D!If(Cond, D!Return(D!Number)) \o Say,
     D!If(Cond, Say) \o D!Else(D!Return(D!Text)) \o Say,
     D!While(Cond, D!If(Cond, D!Return(D!Number)) \o Say)}

TopUses ==
    {CallG, D!PrintOf(CallG), D!Assign(D!Variable, D!Arith(D!Number, CallG)) \o Say, CallG \o CallG}

EarlyPrograms == {<<D!Block("g", <<>>, b), u>> : b \in EarlyBodies \cup PlainBodies, u \in TopUses}

InnerUses ==
    {D!PrintOf(CallG), D!VarInit(CallG), D!Return(CallG),
     D!Return(D!Arith(D!Text, CallG)),
     D!If(CallG, Say) \o D!Else(D!PrintOf(CallG)), D!While(CallG, Say)}

TopCallers == {CallF, D!If(Cond, CallF) \o D!Else(Say), D!While(Cond, CallF \o Say)}

NestedPrograms ==
    {<<D!Block("g", <<>>, b), D!Block("f", <<>>, u), c>> :
       b \in PlainBodies, u \in InnerUses, c \in TopCallers}
    \cup {<<D!Block("g", <<>>, b), D!Block("f", <<>>, CallG \o Say \o CallG), c>> :
            b \in {<<>>, Say}, c \in TopCallers}

InnerBlockPrograms ==
    {<<D!Block("f", <<>>, D!Block("h", <<>>, b) \o u), CallF, CallF, D!PrintOf(D!CallOf(h, <<>>))>> :
       b \in PlainBodies,
       u \in {Say, D!Return(D!CallOf(h, <<>>)), D!If(Cond, D!PrintOf(D!CallOf(h, <<>>)))}}

ParamPrograms ==
    {<<D!Block("f", p, b), u>> :
       p \in {<<D!Param, D!Param>>, <<D!Param, D!ParamDefault(D!Number)>>},
       b \in PlainBodies,
       u \in {D!PrintOf(CallF2), D!If(Cond, D!PrintOf(CallF2)) \o Say}}
    \cup {<<D!Block("f", <<D!ParamDefault(D!Text)>>, Say), CallF>>}

DataPrograms ==
    {<<D!Var, D!VarJson, D!AddElement(D!Number), D!SetElement(D!Number, D!Text)>>,
     <<D!VarInit(D!Time), D!PrintOf(D!Element(D!Text)), D!CocoonCall(<<D!Text, D!Void>>)>>}

Documented ==
    {D!Program(p) : p \in EarlyPrograms \cup NestedPrograms \cup InnerBlockPrograms
                          \cup ParamPrograms \cup DataPrograms \cup {<<s>> : s \in Statements}}

-----------------------------------------------------------------------------
(* Programs that compile as well, and reach every way larva_silk can stop.  *)

\* Number after number fills the stack.
Fill == D!FlattenSeq([i \in 1 .. StackSize |-> D!Number])

Legal ==
    {D!Program(p) : p \in {
        <<D!Block("f", <<>>, Say), D!Block("f", <<>>, Say)>>,
        <<D!Block("g", <<>>, <<>>), D!Arith(CallG, CallG)>>,
        <<D!Block("g", <<>>, <<>>), D!Assign(CallG, CallG)>>,
        <<D!Block("g", <<>>, <<>>), D!CocoonCall(<<CallG, CallG>>)>>,
        <<D!Block("g", <<>>, <<>>), D!CallOf(g, <<CallG, CallG>>)>>,
        <<D!Block("g", <<>>, <<>>), CallG, D!Block("f", <<>>, Say), CallF>>,
        <<D!Block("g", <<>>, <<>>), Fill, CallG>>,
        <<D!Block("f", <<D!Param>>, Say), CallF>>,
        <<D!Block("f", <<D!Param>>, Say),
          D!If(Cond, D!CallOf(f, <<D!Number, D!Number>>)), CallF>>,
        <<D!Block("f", <<D!ParamDefault(D!Number)>>, Say), D!Arith(D!Number, CallF)>>,
        <<Fill, D!PrintOf(D!Number)>>,
        <<Fill, Say>>,
        <<Fill, D!CocoonCall(<<>>)>>,
        <<D!If(Say, Say)>>,
        <<D!PrintOf(Say)>>,
        <<D!Else(SetX), D!While(Cond, D!If(Cond, D!Return(<<>>)))>>,
        <<D!Block("g", <<>>, D!AddElement(D!Number)), CallG>>,
        <<D!Block("g", <<>>, D!While(Cond, SetX)), CallG>>,
        <<D!If(Cond, Say), D!While(Cond, Say), D!Else(Say)>>,
        <<D!If(Cond, D!While(Cond, SetX))>>,
        <<D!Block("g", <<>>, D!Return(D!Number)), D!If(Cond, Say), D!PrintOf(CallG), D!Else(Say)>>,
        <<D!Block("f", <<>>, D!If(Cond, D!Return(D!Number)) \o CallF), CallF>>}}

-----------------------------------------------------------------------------
(* A program on which the code disagrees with what is said of it.           *)

\* A block returns from inside an if, to a block and not to the top level.
ReturnInIf ==
    {D!Program(<<D!Block("g", <<>>, D!If(Cond, D!Return(D!Number))),
                 D!Block("f", <<>>, D!PrintOf(CallG) \o Say), CallF>>)}
=============================================================================
