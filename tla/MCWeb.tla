-------------------------------- MODULE MCWeb --------------------------------
(***************************************************************************)
(* Directories and requests for WebServer.                                 *)
(***************************************************************************)
EXTENDS WebServer

ServerHome == <<"srv">>

Ask(dir, head, body) == [dir |-> dir, exists |-> TRUE, head |-> head, body |-> body]
Missing == [dir |-> <<"www", "a">>, exists |-> FALSE, head |-> <<>>, body |-> <<>>]

\* The documentation's example.
Example == Ask(<<"www", "a">>, <<"use", "include">>, <<"render">>)

\* A program without cocoons.
Plain == Ask(<<"www", "b">>, <<"include">>, <<"print">>)

\* A program that sends headers, then a body, and then tries a header.
Late == Ask(<<"www", "a">>, <<"use", "use">>, <<"cookie", "print", "cookie">>)

Mixed == {Missing, Example, Plain, Late}
ExampleOnly == {Example}
=============================================================================
