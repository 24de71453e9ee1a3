-------------------------------- MODULE Vars --------------------------------
(***************************************************************************)
(* The vars that the functions of the cocoons take and return.             *)
(***************************************************************************)
EXTENDS Integers, Sequences

NULL == <<"NULL">>      \* the pointer, where a string or a result may be missing

Value(type, val, slots, data_size) ==
    [type |-> type, val |-> val, num |-> 0, slots |-> slots, data_size |-> data_size]
Nothing == Value("UNSET", <<>>, <<>>, 0)
Double(x) == [Value("DOUBLE", <<>>, <<>>, 8) EXCEPT !.num = x]
String(s) == Value("STRING", s, <<>>, Len(s) + 1)
Array(elements) == Value("ARRAY", <<>>, elements, 24)
Map(entries) == Value("MAP", <<>>, entries, 24)
Failure(how) == Value(how, <<>>, <<>>, 0)       \* "ERROR", "CRASH", "UNDEFINED" or "HANGS"
=============================================================================
