--------------------------- MODULE WebServerProofs ---------------------------
(***************************************************************************)
(* WebServer for any number of threads and any requests.                   *)
(***************************************************************************)
EXTENDS WebServer, TLAPS

USE RequestsAssumption, HomeAssumption, DirnameAssumption, NobodyAssumption

\* Where the tables of larva_init are in use.
Running == {"init", "silk", "render_chdir", "render_read", "render_back"}

\* Where the response of a request is put together.
Serving == Running \cup {"open", "getcwd", "chdir", "setjmp", "finish"}

\* The headers of o end with the separator at k; failed: an error text may
\* stand among them.
EndedAt(o, k, failed) ==
    /\ \A i \in DOMAIN o : o[i] = "separator" <=> i = k
    /\ \A i \in DOMAIN o : i > k => o[i] = "body"
    /\ ~ failed => \A i \in DOMAIN o : i < k => o[i] = "header"

Ended(o, failed) == \E k \in DOMAIN o : EndedAt(o, k, failed)

\* The headers of o have not ended.
Open(o, failed) ==
    /\ \A i \in DOMAIN o : o[i] # "separator"
    /\ ~ failed => \A i \in DOMAIN o : o[i] = "header"

\* The response of a thread, in progress and sent.
Response(e) ==
    /\ e.pc = "start" => e.out = <<>>
    /\ e.pc \in Serving => IF e.body_started THEN Ended(e.out, e.gl_error)
                                             ELSE Open(e.out, e.gl_error)
    /\ e.pc = "idle" /\ e.out # <<>> => Ended(e.out, e.gl_error)

\* While its program runs a request has not failed, render is one of its
\* statements, and larva_stop's tables are there until they are freed.
Life(e) ==
    /\ e.pc \in Running \cup {"open", "getcwd", "chdir"} => ~ e.gl_error
    /\ e.pc \in Running \/ (e.pc = "setjmp" /\ e.gl_error) => e.tables = "live"
    /\ e.pc \in {"render_chdir", "render_read", "render_back"} => e.todo # <<>>

\* The inductive invariant.
IInv == TypeOK /\ \A t \in Threads : Response(env[t]) /\ Life(env[t])

-----------------------------------------------------------------------------
(* Text put after the separator leaves the headers ended: what print,      *)
(* render and larva_error put out once body_started is set.                 *)
LEMMA EndedGrows ==
    ASSUME NEW o \in Seq({"header", "separator", "body"}), NEW failed \in BOOLEAN,
           NEW worse \in BOOLEAN, failed => worse, Ended(o, failed)
    PROVE  Ended(o \o <<"body">>, worse) /\ Ended(o, worse)
<1>1. PICK k \in DOMAIN o : EndedAt(o, k, failed)
    BY DEF Ended
<1>2. EndedAt(o, k, worse)
    BY <1>1 DEF EndedAt
<1>3. k \in DOMAIN (o \o <<"body">>) /\ EndedAt(o \o <<"body">>, k, worse)
    BY <1>1 DEF EndedAt
<1> QED
    BY <1>2, <1>3 DEF Ended

(* The separator ends open headers, alone (web.c at the end of a request)  *)
(* or with the first text of the body (var_echo, render).                   *)
LEMMA OpenEnds ==
    ASSUME NEW o \in Seq({"header", "separator", "body"}), NEW failed \in BOOLEAN,
           Open(o, failed)
    PROVE  Ended(Append(o, "separator"), failed) /\ Ended(o \o <<"separator", "body">>, failed)
<1> DEFINE k == Len(o) + 1
<1>1. k \in DOMAIN Append(o, "separator") /\ EndedAt(Append(o, "separator"), k, failed)
    BY DEF Open, EndedAt
<1>2. k \in DOMAIN (o \o <<"separator", "body">>)
      /\ EndedAt(o \o <<"separator", "body">>, k, failed)
    BY DEF Open, EndedAt
<1> QED
    BY <1>1, <1>2 DEF Ended

(* Open headers stay open when a header is added (cookie), and when a      *)
(* failed request puts an error text among them.                            *)
LEMMA OpenGrows ==
    ASSUME NEW o \in Seq({"header", "separator", "body"}), NEW failed \in BOOLEAN,
           Open(o, failed)
    PROVE  Open(Append(o, "header"), failed) /\ Open(o, TRUE) /\ Open(o \o <<"body">>, TRUE)
BY DEF Open

-----------------------------------------------------------------------------
(* A part of a path is one of Parts: dirname, which web.c and render call  *)
(* on LEAF_FILENAME, yields a path.                                         *)
LEMMA DirnameType == \A path \in Seq(Parts) : dirname(path) \in Seq(Parts) /\ Cut(path) \in Seq(Parts)
BY DEF dirname, Cut

(* What a request asks for is well typed.                                   *)
LEMMA RequestType ==
    ASSUME NEW r \in Requests
    PROVE  /\ Append(r.dir, "x.leaf") \in Seq(Parts)
           /\ r.head \in Seq(Setup \cup Statements)
           /\ r.body \in Seq(Setup \cup Statements)
           /\ r.exists \in BOOLEAN
<1>1. r \in Request
    OBVIOUS
<1>2. r.dir \in Seq(Parts) /\ "x.leaf" \in Parts
    BY <1>1 DEF Request, Parts
<1> QED
    BY <1>1, <1>2 DEF Request

(* A longjmp to web.c's setjmp, with the text of the error or without,      *)
(* keeps the response in order and finds the tables alive.                  *)
LEMMA RaiseStep ==
    ASSUME IInv, NEW t \in Threads, NEW text \in {<<>>, <<"body">>},
           env[t].pc \in Running, Raise(t, text)
    PROVE  \E e \in Env : Become(t, e) /\ Response(e) /\ Life(e)
<1> DEFINE o == env[t].out
           e == [env[t] EXCEPT !.pc = "setjmp", !.gl_error = TRUE, !.out = @ \o text]
<1>1. env[t] \in Env /\ env[t].gl_error = FALSE /\ env[t].tables = "live"
    BY DEF IInv, TypeOK, Life, Env
<1>2. o \in Seq({"header", "separator", "body"}) /\ env[t].body_started \in BOOLEAN
    BY <1>1 DEF Env
<1>3. o \o text \in Seq({"header", "separator", "body"}) /\ (text = <<>> => o \o text = o)
  <2>1. CASE text = <<>>
    BY <1>2, <2>1
  <2>2. CASE text = <<"body">>
    BY <1>2, <2>2
  <2> QED
    BY <2>1, <2>2
<1>4. IF env[t].body_started THEN Ended(o, FALSE) ELSE Open(o, FALSE)
    BY <1>1 DEF IInv, Response, Serving
<1>5. IF env[t].body_started THEN Ended(o \o text, TRUE) ELSE Open(o \o text, TRUE)
    BY <1>2, <1>3, <1>4, EndedGrows, OpenGrows
<1>6. e \in Env
    BY <1>1, <1>3 DEF Env, Places
<1>7. Response(e) /\ Life(e)
    BY <1>1, <1>5 DEF Response, Life, Env, Running, Serving
<1> QED
    BY <1>6, <1>7 DEF Raise

(* Text put out by print or render starts the body once.                    *)
LEMMA BodyStep ==
    ASSUME NEW e \in Env, IF e.body_started THEN Ended(e.out, e.gl_error)
                                            ELSE Open(e.out, e.gl_error)
    PROVE  /\ Body(e) = [e EXCEPT !.body_started = TRUE, !.out = Body(e).out]
           /\ Body(e).out \in Seq({"header", "separator", "body"})
           /\ Ended(Body(e).out, e.gl_error)
<1>1. e.out \in Seq({"header", "separator", "body"}) /\ e.gl_error \in BOOLEAN
    BY DEF Env
<1>2. CASE e.body_started
  <2>1. Body(e) = [e EXCEPT !.body_started = TRUE, !.out = @ \o <<"body">>]
    BY <1>2 DEF Body
  <2>2. Body(e).out = e.out \o <<"body">>
    BY <2>1 DEF Env
  <2>3. Ended(e.out \o <<"body">>, e.gl_error)
    BY <1>1, <1>2, EndedGrows
  <2> QED
    BY <1>1, <2>1, <2>2, <2>3
<1>3. CASE ~ e.body_started
  <2>1. Body(e) = [e EXCEPT !.body_started = TRUE, !.out = @ \o <<"separator", "body">>]
    BY <1>3 DEF Body
  <2>2. Body(e).out = e.out \o <<"separator", "body">>
    BY <2>1 DEF Env
  <2>3. Ended(e.out \o <<"separator", "body">>, e.gl_error)
    BY <1>1, <1>3, OpenEnds
  <2> QED
    BY <1>1, <2>1, <2>2, <2>3
<1> QED
    BY <1>2, <1>3

(* One step of a thread: its new record has its type, a response in order  *)
(* and tables that are alive where they are used.                           *)
LEMMA ThreadStep ==
    ASSUME IInv, NEW t \in Threads, Listen(t) \/ Serve(t)
    PROVE  \E e \in Env : Become(t, e) /\ Response(e) /\ Life(e)
<1> DEFINE o == env[t].out
<1>1. env[t] \in Env /\ Response(env[t]) /\ Life(env[t]) /\ cwd \in Seq(Parts)
    BY DEF IInv, TypeOK
<1>2. o \in Seq({"header", "separator", "body"})
    BY <1>1 DEF Env
<1> USE DEF Response, Life, Running, Serving
<1>3. CASE Start(t)
  <2> DEFINE e == [env[t] EXCEPT !.pc = "idle", !.tables = "live"]
  <2>1. e \in Env /\ Response(e) /\ Life(e)
    BY <1>1, <1>3 DEF Start, At, Env, Places
  <2> QED
    BY <1>3, <2>1 DEF Start
<1>4. CASE StartFails(t) \/ AcceptFails(t)
  <2> DEFINE e == [env[t] EXCEPT !.pc = "gone"]
  <2>1. e \in Env /\ Response(e) /\ Life(e)
    BY <1>1, <1>4 DEF Env, Places
  <2> QED
    BY <1>4, <2>1 DEF StartFails, AcceptFails, Goto
<1>5. CASE LockAccept(t)
  <2> DEFINE e == [env[t] EXCEPT !.pc = "accepting"]
  <2>1. e \in Env /\ Response(e) /\ Life(e)
    BY <1>1, <1>5 DEF Env, Places
  <2> QED
    BY <1>5, <2>1 DEF LockAccept, Goto
<1>6. CASE Accept(t)
  <2> DEFINE e(r) == [env[t] EXCEPT !.pc = IF r.exists THEN "open" ELSE "finish",
                                    !.req = r, !.filename = Append(r.dir, "x.leaf"),
                                    !.gl_error = FALSE, !.body_started = FALSE,
                                    !.out = <<"header">>]
  <2>1. PICK r \in Requests : Become(t, e(r))
    BY <1>6 DEF Accept
  <2>2. Open(<<"header">>, FALSE) /\ <<"header">> \in Seq({"header", "separator", "body"})
    BY DEF Open
  <2>3. e(r) \in Env
    BY <1>1, <2>2, RequestType DEF Env, Places
  <2>4. Response(e(r)) /\ Life(e(r))
    BY <1>1, <2>2, RequestType DEF Env, Places
  <2> QED
    BY <2>1, <2>3, <2>4
<1>7. CASE LockSetup(t)
  <2> DEFINE e == [env[t] EXCEPT !.pc = "getcwd"]
  <2>1. e \in Env /\ Response(e) /\ Life(e)
    BY <1>1, <1>7 DEF LockSetup, At, Env, Places
  <2> QED
    BY <1>7, <2>1 DEF LockSetup, Goto
<1>8. CASE GetHome(t)
  <2> DEFINE e == [env[t] EXCEPT !.pc = "chdir", !.dir_home = cwd]
  <2>1. e \in Env /\ Response(e) /\ Life(e)
    BY <1>1, <1>8 DEF GetHome, At, Env, Places
  <2> QED
    BY <1>8, <2>1 DEF GetHome
<1>9. CASE EnterLeaf(t)
  <2> DEFINE e == [env[t] EXCEPT !.pc = "setjmp", !.filename = Cut(@)]
  <2>1. e \in Env /\ Response(e) /\ Life(e)
    BY <1>1, <1>9, DirnameType DEF EnterLeaf, At, Env, Places
  <2> QED
    BY <1>9, <2>1 DEF EnterLeaf
<1>10. CASE LarvaInit(t)
  <2> DEFINE e == [env[t] EXCEPT !.pc = "init", !.tables = "live", !.cocoon = FALSE,
                                 !.todo = env[t].req.head]
  <2>1. env[t].req.head \in Seq(Setup \cup Statements)
    BY <1>1, RequestType DEF Env
  <2>2. e \in Env /\ Response(e) /\ Life(e)
    BY <1>1, <1>10, <2>1 DEF LarvaInit, At, Env, Places
  <2> QED
    BY <1>10, <2>2 DEF LarvaInit
<1>11. CASE StopAfterError(t)
  <2> DEFINE e == [env[t] EXCEPT !.pc = "finish", !.tables = "freed"]
  <2>1. e \in Env /\ Response(e) /\ Life(e)
    BY <1>1, <1>11 DEF StopAfterError, At, Env, Places
  <2> QED
    BY <1>11, <2>1 DEF StopAfterError
<1>12. CASE Use(t)
  <2> DEFINE opens == ~ env[t].cocoon /\ env[t].dir_home = Home
             e == [env[t] EXCEPT !.cocoon = @ \/ opens, !.todo = Tail(@)]
  <2>1. env[t].pc = "init" /\ Tail(env[t].todo) \in Seq(Setup \cup Statements)
    BY <1>1, <1>12 DEF Use, Facing, At, Env
  <2>2. env[t].cocoon \/ opens \in BOOLEAN
    OBVIOUS
  <2>3. e \in Env /\ Response(e) /\ Life(e)
    BY <1>1, <2>1, <2>2 DEF Env
  <2> QED
    BY <1>12, <2>3 DEF Use
<1>13. CASE Include(t)
  <2> DEFINE e == [env[t] EXCEPT !.todo = Tail(@)]
  <2>1. env[t].pc = "init" /\ Tail(env[t].todo) \in Seq(Setup \cup Statements)
    BY <1>1, <1>13 DEF Include, Facing, At, Env
  <2>2. e \in Env /\ Response(e) /\ Life(e)
    BY <1>1, <2>1 DEF Env
  <2>3. Become(t, e) \/ Raise(t, <<"body">>)
    BY <1>13 DEF Include
  <2> QED
    BY <2>1, <2>2, <2>3, RaiseStep
<1>14. CASE LarvaDigest(t)
  <2> DEFINE e == [env[t] EXCEPT !.pc = "silk", !.todo = env[t].req.body]
  <2>1. env[t].req.body \in Seq(Setup \cup Statements)
    BY <1>1, RequestType DEF Env
  <2>2. e \in Env /\ Response(e) /\ Life(e)
    BY <1>1, <1>14, <2>1 DEF LarvaDigest, At, Env, Places
  <2> QED
    BY <1>14, <2>2 DEF LarvaDigest
<1>15. CASE Error(t) \/ NoCocoon(t) \/ RenderFails(t)
  <2>1. \E text \in {<<>>, <<"body">>} : Raise(t, text)
    BY <1>15 DEF Error, NoCocoon, RenderFails
  <2>2. env[t].pc \in Running
    BY <1>15 DEF Error, NoCocoon, RenderFails, Facing, At
  <2> QED
    BY <2>1, <2>2, RaiseStep
<1>16. CASE Echo(t)
  <2> DEFINE e == [Body(env[t]) EXCEPT !.todo = Tail(@)]
  <2>1. env[t].pc = "silk" /\ Tail(env[t].todo) \in Seq(Setup \cup Statements)
    BY <1>1, <1>16 DEF Echo, Facing, At, Env
  <2>2. e = [env[t] EXCEPT !.body_started = TRUE, !.out = Body(env[t]).out, !.todo = Tail(@)]
    BY <1>1, <2>1, BodyStep DEF Env
  <2>3. Body(env[t]).out \in Seq({"header", "separator", "body"})
        /\ Ended(Body(env[t]).out, env[t].gl_error)
    BY <1>1, <2>1, BodyStep
  <2>4. e \in Env /\ Response(e) /\ Life(e)
    BY <1>1, <2>1, <2>2, <2>3 DEF Env
  <2> QED
    BY <1>16, <2>4 DEF Echo
<1>17. CASE Cookie(t)
  <2> DEFINE e == [env[t] EXCEPT !.out = Append(@, "header"), !.todo = Tail(@)]
  <2>1. env[t].pc = "silk" /\ Tail(env[t].todo) \in Seq(Setup \cup Statements)
    BY <1>1, <1>17 DEF Cookie, Facing, At, Env
  <2>2. CASE env[t].body_started
    BY <1>17, <2>1, <2>2, RaiseStep DEF Cookie
  <2>3. CASE ~ env[t].body_started
    <3>1. Open(o, env[t].gl_error) /\ env[t].gl_error \in BOOLEAN
      BY <1>1, <2>1, <2>3 DEF Env
    <3>2. Open(Append(o, "header"), env[t].gl_error)
      BY <1>2, <3>1, OpenGrows, Zenon
    <3>3. Append(o, "header") \in Seq({"header", "separator", "body"})
      BY <1>2
    <3>4. e \in Env /\ Response(e) /\ Life(e)
      BY <1>1, <2>1, <2>3, <3>2, <3>3 DEF Env
    <3> QED
      BY <1>17, <2>3, <3>4 DEF Cookie
  <2> QED
    BY <2>2, <2>3
<1>18. CASE RenderSave(t)
  <2> DEFINE e == [env[t] EXCEPT !.pc = "render_chdir", !.saved = cwd]
  <2>1. e \in Env /\ Response(e) /\ Life(e)
    BY <1>1, <1>18 DEF RenderSave, Facing, At, Env, Places
  <2> QED
    BY <1>18, <2>1 DEF RenderSave
<1>19. CASE RenderEnter(t)
  <2> DEFINE e == [env[t] EXCEPT !.pc = "render_read", !.filename = Cut(@)]
  <2>1. e \in Env /\ Response(e) /\ Life(e)
    BY <1>1, <1>19, DirnameType DEF RenderEnter, At, Env, Places
  <2> QED
    BY <1>19, <2>1 DEF RenderEnter
<1>20. CASE RenderRead(t)
  <2>1. env[t].pc = "render_read"
    BY <1>20 DEF RenderRead, At
  <2>2. CASE \E r \in Requests : cwd = r.dir
    <3> DEFINE e == [Body(env[t]) EXCEPT !.pc = "render_back"]
    <3>1. e = [env[t] EXCEPT !.pc = "render_back", !.body_started = TRUE,
                             !.out = Body(env[t]).out]
      BY <1>1, <2>1, BodyStep DEF Env
    <3>2. Body(env[t]).out \in Seq({"header", "separator", "body"})
          /\ Ended(Body(env[t]).out, env[t].gl_error)
      BY <1>1, <2>1, BodyStep
    <3>3. e \in Env /\ Response(e) /\ Life(e)
      BY <1>1, <2>1, <3>1, <3>2 DEF Env, Places
    <3> QED
      BY <1>20, <2>2, <3>3 DEF RenderRead
  <2>3. CASE ~ \E r \in Requests : cwd = r.dir
    <3> DEFINE e == [env[t] EXCEPT !.pc = "render_back"]
    <3>1. e \in Env /\ Response(e) /\ Life(e)
      BY <1>1, <2>1 DEF Env, Places
    <3> QED
      BY <1>20, <2>3, <3>1 DEF RenderRead
  <2> QED
    BY <2>2, <2>3
<1>21. CASE RenderBack(t)
  <2> DEFINE e == [env[t] EXCEPT !.pc = "silk", !.todo = Tail(@), !.saved = <<>>]
  <2>1. Tail(env[t].todo) \in Seq(Setup \cup Statements) /\ <<>> \in Seq(Parts)
    BY <1>1, <1>21 DEF RenderBack, At, Env
  <2>2. e \in Env /\ Response(e) /\ Life(e)
    BY <1>1, <1>21, <2>1 DEF RenderBack, At, Env, Places
  <2> QED
    BY <1>21, <2>2 DEF RenderBack
<1>22. CASE LarvaStop(t)
  <2> DEFINE e == [env[t] EXCEPT !.pc = "finish", !.tables = "freed"]
  <2>1. e \in Env /\ Response(e) /\ Life(e)
    BY <1>1, <1>22 DEF LarvaStop, At, Env, Places
  <2> QED
    BY <1>22, <2>1 DEF LarvaStop
<1>23. CASE Finish(t)
  <2> DEFINE sent == IF env[t].body_started THEN o ELSE Append(o, "separator")
             e == [env[t] EXCEPT !.pc = "idle", !.filename = <<>>, !.dir_home = <<>>,
                                 !.saved = <<>>, !.todo = <<>>, !.out = sent]
  <2>1. sent \in Seq({"header", "separator", "body"}) /\ Ended(sent, env[t].gl_error)
    BY <1>1, <1>2, <1>23, OpenEnds DEF Finish, At, Env
  <2>2. <<>> \in Seq(Parts) /\ <<>> \in Seq(Setup \cup Statements)
    OBVIOUS
  <2>3. e \in Env
    BY <1>1, <2>1, <2>2 DEF Env, Places
  <2>4. Response(e) /\ Life(e)
    BY <1>1, <2>1 DEF Env
  <2> QED
    BY <1>23, <2>3, <2>4 DEF Finish
<1> QED
    BY <1>3, <1>4, <1>5, <1>6, <1>7, <1>8, <1>9, <1>10, <1>11, <1>12, <1>13, <1>14, <1>15,
       <1>16, <1>17, <1>18, <1>19, <1>20, <1>21, <1>22, <1>23 DEF Listen, Serve

-----------------------------------------------------------------------------
\* The locks as the places of the threads tell them.
Locks ==
    /\ accept_mutex \in Threads \cup {Nobody}
    /\ setup_mutex \in Threads \cup {Nobody}
    /\ \A t \in Threads : accept_mutex = t <=> env[t].pc = "accepting"
    /\ \A t \in Threads : setup_mutex = t <=> InSetup(t)

(* accept_mutex and setup_mutex are held by the thread between lock and     *)
(* unlock, and by no other: no path out of web.c's loop keeps one.          *)
LEMMA LockStep ==
    ASSUME IInv, NEW t \in Threads, Listen(t) \/ Serve(t),
           env' \in [Threads -> Env], \A s \in Threads \ {t} : env'[s] = env[s]
    PROVE  Locks'
<1> DEFINE from == env[t].pc
           to == env'[t].pc
<1>1. Locks /\ env[t] \in Env /\ env \in [Threads -> Env]
    BY DEF IInv, TypeOK, Locks
<1> USE DEF Become, Goto, At
<1>2. CASE LockAccept(t)
  <2>1. from = "idle" /\ to = "accepting" /\ accept_mutex = Nobody /\ accept_mutex' = t
        /\ setup_mutex' = setup_mutex
    BY <1>1, <1>2 DEF LockAccept, Env
  <2> QED
    BY <1>1, <2>1 DEF Locks, InSetup
<1>3. CASE Accept(t) \/ AcceptFails(t)
  <2>1. from = "accepting" /\ accept_mutex' = Nobody /\ setup_mutex' = setup_mutex
    BY <1>3 DEF Accept, AcceptFails
  <2>2. CASE AcceptFails(t)
    <3>1. to = "gone"
      BY <1>1, <2>2 DEF AcceptFails, Env
    <3> QED
      BY <1>1, <2>1, <3>1 DEF Locks, InSetup
  <2>3. CASE Accept(t)
    <3>1. to \in {"open", "finish"}
      BY <1>1, <2>3 DEF Accept, Env
    <3> QED
      BY <1>1, <2>1, <3>1 DEF Locks, InSetup
  <2> QED
    BY <1>3, <2>2, <2>3
<1>4. CASE LockSetup(t)
  <2>1. from = "open" /\ to = "getcwd" /\ setup_mutex = Nobody /\ setup_mutex' = t
        /\ accept_mutex' = accept_mutex
    BY <1>1, <1>4 DEF LockSetup, Env
  <2> QED
    BY <1>1, <2>1 DEF Locks, InSetup
<1>5. CASE EnterLeaf(t)
  <2>1. from = "chdir" /\ to = "setjmp" /\ setup_mutex' = Nobody /\ accept_mutex' = accept_mutex
    BY <1>1, <1>5 DEF EnterLeaf, Env
  <2> QED
    BY <1>1, <2>1 DEF Locks, InSetup
<1>6. ASSUME UNCHANGED <<accept_mutex, setup_mutex>>,
             from = "accepting" <=> to = "accepting",
             from \in {"getcwd", "chdir"} <=> to \in {"getcwd", "chdir"}
      PROVE  Locks'
    BY <1>1, <1>6 DEF Locks, InSetup
<1>7. ASSUME NEW text, Raise(t, text)
      PROVE  to = "setjmp"
    BY <1>1, <1>7 DEF Raise, Env
<1>8. CASE Start(t)
    BY <1>1, <1>6, <1>8 DEF Start, Env
<1>9. CASE StartFails(t)
    BY <1>1, <1>6, <1>9 DEF StartFails, Env
<1>10. CASE GetHome(t)
    BY <1>1, <1>6, <1>10 DEF GetHome, Env
<1>11. CASE LarvaInit(t)
    BY <1>1, <1>6, <1>11 DEF LarvaInit, Env
<1>12. CASE StopAfterError(t)
    BY <1>1, <1>6, <1>12 DEF StopAfterError, Env
<1>13. CASE Use(t)
    BY <1>1, <1>6, <1>13 DEF Use, Facing, Env
<1>14. CASE Include(t)
  <2>1. from = "init" /\ UNCHANGED <<accept_mutex, setup_mutex>>
    BY <1>14 DEF Include, Facing
  <2>2. to \in {"init", "setjmp"}
    BY <1>1, <1>7, <1>14 DEF Include, Facing, Env
  <2> QED
    BY <1>6, <2>1, <2>2
<1>15. CASE LarvaDigest(t)
    BY <1>1, <1>6, <1>15 DEF LarvaDigest, Env
<1>16. CASE Error(t)
  <2>1. from \in {"init", "silk"} /\ to = "setjmp" /\ UNCHANGED <<accept_mutex, setup_mutex>>
    BY <1>7, <1>16 DEF Error
  <2> QED
    BY <1>6, <2>1
<1>17. CASE Echo(t)
    BY <1>1, <1>6, <1>17 DEF Echo, Facing, Body, Env
<1>18. CASE NoCocoon(t)
    BY <1>1, <1>6, <1>18 DEF NoCocoon, Facing, Raise, Env
<1>19. CASE Cookie(t)
  <2>1. from = "silk" /\ UNCHANGED <<accept_mutex, setup_mutex>>
    BY <1>19 DEF Cookie, Facing
  <2>2. CASE env[t].body_started
    BY <1>6, <1>7, <1>19, <2>1, <2>2 DEF Cookie
  <2>3. CASE ~ env[t].body_started
    <3>1. env' = [env EXCEPT ![t] = [env[t] EXCEPT !.out = Append(@, "header"), !.todo = Tail(@)]]
      BY <1>19, <2>3 DEF Cookie
    <3>2. to = from
      BY <1>1, <3>1 DEF Env
    <3> QED
      BY <1>6, <2>1, <3>2
  <2> QED
    BY <2>2, <2>3
<1>20. CASE RenderSave(t)
    BY <1>1, <1>6, <1>20 DEF RenderSave, Facing, Env
<1>21. CASE RenderEnter(t)
    BY <1>1, <1>6, <1>21 DEF RenderEnter, Env
<1>22. CASE RenderRead(t)
    BY <1>1, <1>6, <1>22 DEF RenderRead, Body, Env
<1>23. CASE RenderBack(t)
    BY <1>1, <1>6, <1>23 DEF RenderBack, Env
<1>24. CASE RenderFails(t)
    BY <1>1, <1>6, <1>24 DEF RenderFails, Raise, Env
<1>25. CASE LarvaStop(t)
    BY <1>1, <1>6, <1>25 DEF LarvaStop, Env
<1>26. CASE Finish(t)
    BY <1>1, <1>6, <1>26 DEF Finish, Env
<1> QED
    BY <1>2, <1>3, <1>4, <1>5, <1>8, <1>9, <1>10, <1>11, <1>12, <1>13, <1>14, <1>15, <1>16,
       <1>17, <1>18, <1>19, <1>20, <1>21, <1>22, <1>23, <1>24, <1>25, <1>26
       DEF Listen, Serve

(* chdir goes to the directory of the Leaf file, to dir_home, or back to    *)
(* where render was called.                                                 *)
LEMMA CwdStep ==
    ASSUME IInv, NEW t \in Threads, Listen(t) \/ Serve(t)
    PROVE  cwd' \in Seq(Parts)
<1>1. cwd \in Seq(Parts) /\ env[t].dir_home \in Seq(Parts) /\ env[t].saved \in Seq(Parts)
      /\ dirname(env[t].filename) \in Seq(Parts)
    BY DirnameType DEF IInv, TypeOK, Env
<1>2. \/ cwd' = cwd
      \/ cwd' = env[t].dir_home
      \/ cwd' = env[t].saved
      \/ cwd' = dirname(env[t].filename)
    BY DEF Listen, Serve, Start, StartFails, LockAccept, Accept, AcceptFails, LockSetup,
           GetHome, EnterLeaf, LarvaInit, StopAfterError, Use, Include, LarvaDigest, Error,
           Echo, NoCocoon, Cookie, RenderSave, RenderEnter, RenderRead, RenderBack,
           RenderFails, LarvaStop, Finish
<1> QED
    BY <1>1, <1>2

-----------------------------------------------------------------------------
(* The server starts in the invariant.                                      *)
LEMMA IInvInit == Init => IInv
<1> SUFFICES ASSUME Init PROVE IInv
    OBVIOUS
<1>1. PICK r \in Requests :
        env = [t \in Threads |->
                 [pc |-> "start", req |-> r, filename |-> <<>>, dir_home |-> <<>>,
                  saved |-> <<>>, tables |-> "none", cocoon |-> FALSE, todo |-> <<>>,
                  gl_error |-> FALSE, body_started |-> FALSE, out |-> <<>>]]
    BY DEF Init
<1>2. /\ <<>> \in Seq(Parts) /\ <<>> \in Seq(Setup \cup Statements)
      /\ <<>> \in Seq({"header", "separator", "body"})
    OBVIOUS
<1>3. env \in [Threads -> Env]
    BY <1>1, <1>2 DEF Env, Places
<1>4. TypeOK
    BY <1>1, <1>3 DEF Init, TypeOK, InSetup
<1>5. \A t \in Threads : Response(env[t]) /\ Life(env[t])
    BY <1>1 DEF Response, Life, Running, Serving
<1> QED
    BY <1>4, <1>5 DEF IInv

(* Every step of a thread keeps it, for that thread and the others.         *)
LEMMA IInvStep == IInv /\ [Next]_vars => IInv'
<1> SUFFICES ASSUME IInv, [Next]_vars PROVE IInv'
    OBVIOUS
<1>1. ASSUME NEW t \in Threads, Listen(t) \/ Serve(t)
      PROVE  IInv'
  <2>1. PICK e \in Env : Become(t, e) /\ Response(e) /\ Life(e)
    BY <1>1, ThreadStep
  <2>2. env \in [Threads -> Env]
    BY DEF IInv, TypeOK
  <2>3. env' \in [Threads -> Env] /\ env'[t] = e /\ \A s \in Threads \ {t} : env'[s] = env[s]
    BY <2>1, <2>2 DEF Become
  <2>4. TypeOK'
    BY <1>1, <2>3, LockStep, CwdStep DEF Locks, TypeOK
  <2>5. \A s \in Threads : Response(env'[s]) /\ Life(env'[s])
    BY <2>1, <2>3 DEF IInv
  <2> QED
    BY <2>4, <2>5 DEF IInv
<1>2. CASE UNCHANGED vars
    BY <1>2 DEF IInv, TypeOK, vars, InSetup
<1> QED
    BY <1>1, <1>2 DEF Next, AllGone

(* The invariant holds in every behaviour of the server.                    *)
LEMMA Inductive == Spec => []IInv
BY IInvInit, IInvStep, PTL DEF Spec

(* The threads of web.c keep their types, and each of the two locks is     *)
(* held exactly by the thread between its lock and its unlock, for any     *)
(* number of threads.                                                       *)
THEOREM TypeCorrect == Spec => []TypeOK
<1>1. IInv => TypeOK
    BY DEF IInv
<1> QED
    BY <1>1, Inductive, PTL

(* Every response that was sent is well formed, whatever programs the       *)
(* requests run and wherever they fail: the headers end with exactly one   *)
(* separator (web.c:107, 182, var.c:412, cocoons/web/web.c:108, 149).       *)
THEOREM FramedHolds == Spec => []Framed
<1>1. IInv => Framed
    BY DEF IInv, Framed, At, Response, Ended, EndedAt
<1> QED
    BY <1>1, Inductive, PTL

(* larva_stop never frees tables twice, nor tables that larva_init of the  *)
(* same request did not create (web.c:162-175, larva.c:17-22, 514-517).     *)
THEOREM FreedOnceHolds == Spec => FreedOnce
<1>1. IInv => [\A t \in Threads : LarvaStop(t) \/ StopAfterError(t) => env[t].tables = "live"]_vars
    BY DEF IInv, Life, Running, LarvaStop, StopAfterError, At
<1> QED
    BY <1>1, Inductive, PTL DEF FreedOnce
=============================================================================
