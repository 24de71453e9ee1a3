------------------------------- MODULE Digest -------------------------------
(***************************************************************************)
(* The byte-code larva_digest (core/larva.c) and the expression parser     *)
(* (core/expression.c) emit for each form of the language: a fragment of   *)
(* source is the sequence of instructions it is compiled to.  Expressions, *)
(* statements and bodies are such sequences; a statement follows another   *)
(* by concatenation.                                                       *)
(***************************************************************************)
EXTENDS Integers, Sequences, SequencesExt

Op(op) == <<[op |-> op, name |-> <<>>, n |-> 0]>>
Named(op, name) == <<[op |-> op, name |-> name, n |-> 0]>>
Counted(op, n) == <<[op |-> op, name |-> <<>>, n |-> n]>>

-----------------------------------------------------------------------------
(* Expressions.                                                             *)

Variable == Op("AS_VAR")
Number == Op("AS_DOUBLE")
Text == Op("AS_STRING")
Void == Op("AS_VOID")
Time == Op("MICROTIME")

Arith(e1, e2) == e1 \o e2 \o Op("ARITHMETIC")
Compare(e1, e2) == e1 \o e2 \o Op("COMPARE")
Unary(e) == e \o Op("UNARY")
Assign(e1, e2) == e1 \o e2 \o Op("SET")
PrintOf(e) == e \o Op("PRINT")

Element(index) == index \o Op("ACCESS")
SetElement(index, e) == index \o e \o Op("SET_ELEM")
AddElement(e) == e \o Op("ADD_ELEM")

\* The count of arguments is emitted before the CALL; a zero reads as IDLE.
CallOf(name, args) ==
    FlattenSeq(args)
    \o (IF args = <<>> THEN Op("IDLE") ELSE Counted("REVERSE_STACK", Len(args)))
    \o Named("CALL", name)

CocoonCall(args) == FlattenSeq(args) \o Counted("XCALL", Len(args))

-----------------------------------------------------------------------------
(* Statements.                                                              *)

Var == Op("VAR")
VarInit(e) == e \o Op("VARX")
VarJson == Op("FROM_JSON") \o Op("VARX")

Braces(body) == Op("BLOCK_START") \o body \o Op("BLOCK_END")

If(cond, body) == Op("IF") \o cond \o Op("CEIT") \o Braces(body)
Else(body) == Op("ELSE") \o Braces(body)
While(cond, body) == Op("WHILE") \o cond \o Op("CEIT") \o Braces(body)

\* "return" alone compiles no expression: e is <<>>.
Return(e) == Op("CLEAR_STACK") \o e \o Op("RETURN")

Param == Op("PARAM")
ParamDefault(e) == e \o Op("PARAMX")

\* The parameters stand inside the braces of the block.
Block(name, params, body) ==
    Named("BLOCK_DEF", <<name>>) \o Braces(FlattenSeq(params) \o body)

\* bc_ready ends the byte-code with a zero.
Program(statements) == FlattenSeq(statements) \o Op("IDLE")
=============================================================================
