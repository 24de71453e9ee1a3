------------------------------ MODULE WebServer ------------------------------
(***************************************************************************)
(* The web version (web.c): threads that accept FastCGI requests and run   *)
(* one Leaf program for each, with what the programs do to the state the   *)
(* threads share, the working directory of the process, and to the         *)
(* response: larva_init's use and include (core/larva.c, core/cocoon.c),   *)
(* print (core/var.c), and render and cookie of the web cocoon             *)
(* (cocoons/web/web.c).                                                    *)
(*                                                                         *)
(* A request names a Leaf file by its directory; its program is the use    *)
(* and include lines larva_init runs, and the statements larva_silk runs.  *)
(* A path is the sequence of its parts.  The core is built without         *)
(* BOMBYX_WEB, which only web.c defines: larva_init creates the tables and *)
(* larva_stop destroys them, in every request.                             *)
(***************************************************************************)
EXTENDS Integers, Sequences, FiniteSets, Functions

CONSTANTS
    Threads,
    Requests,        \* [dir, exists, head, body]: what clients may ask for
    Home,            \* the directory the server was started in, with cocoons/
    DirnameModifies, \* dirname() cuts its argument in place (glibc does)
    Nobody           \* no thread

Parts == (UNION {Range(r.dir) : r \in Requests}) \cup Range(Home) \cup {"x.leaf"}
Setup == {"use", "include"}
Statements == {"print", "cookie", "render"}
Request == [dir : Seq(Parts), exists : BOOLEAN, head : Seq(Setup), body : Seq(Statements)]

ASSUME RequestsAssumption == Requests \subseteq Request /\ Requests # {}
ASSUME HomeAssumption == Home \in Seq(Parts)
ASSUME DirnameAssumption == DirnameModifies \in BOOLEAN
ASSUME NobodyAssumption == Nobody \notin Threads

VARIABLES
    accept_mutex,   \* the thread that holds it, or Nobody
    setup_mutex,
    cwd,            \* the working directory, one for the process
    env             \* the bombyx_env_t of each thread, and where the thread is

vars == <<accept_mutex, setup_mutex, cwd, env>>

Places == {"start", "idle", "accepting", "open", "getcwd", "chdir", "setjmp", "init", "silk",
           "render_chdir", "render_read", "render_back", "finish", "gone"}

Env == [
    pc           : Places,
    req          : Requests,
    filename     : Seq(Parts),      \* LEAF_FILENAME, in the request's parameters
    dir_home     : Seq(Parts),
    saved        : Seq(Parts),      \* render's own dir_home
    tables       : {"none", "live", "freed"},  \* vars, blocks, cocoons, pool_of_doubles
    cocoon       : BOOLEAN,         \* the web cocoon is in the table
    todo         : Seq(Setup \cup Statements),
    gl_error     : BOOLEAN,
    body_started : BOOLEAN,
    out          : Seq({"header", "separator", "body"})]

\* The thread is between locking and unlocking setup_mutex.
InSetup(t) == env[t].pc \in {"getcwd", "chdir"}

TypeOK ==
    /\ accept_mutex \in Threads \cup {Nobody}
    /\ setup_mutex \in Threads \cup {Nobody}
    /\ cwd \in Seq(Parts)
    /\ env \in [Threads -> Env]
    /\ \A t \in Threads : accept_mutex = t <=> env[t].pc = "accepting"
    /\ \A t \in Threads : setup_mutex = t <=> InSetup(t)

Init ==
    /\ accept_mutex = Nobody
    /\ setup_mutex = Nobody
    /\ cwd = Home
    /\ \E r \in Requests :
         env = [t \in Threads |->
                  [pc |-> "start", req |-> r, filename |-> <<>>, dir_home |-> <<>>,
                   saved |-> <<>>, tables |-> "none", cocoon |-> FALSE, todo |-> <<>>,
                   gl_error |-> FALSE, body_started |-> FALSE, out |-> <<>>]]

-----------------------------------------------------------------------------
At(t, place) == env[t].pc = place
Become(t, e) == env' = [env EXCEPT ![t] = e]
Goto(t, place) == Become(t, [env[t] EXCEPT !.pc = place])

\* The next use, include or statement of t's program.
Facing(t, place, what) == At(t, place) /\ env[t].todo # <<>> /\ Head(env[t].todo) = what

dirname(path) == IF path = <<>> THEN path ELSE SubSeq(path, 1, Len(path) - 1)

\* LEAF_FILENAME after a call of dirname on it.
Cut(path) == IF DirnameModifies THEN dirname(path) ELSE path

(* Seeded fault: longjmp is not told from the first return of setjmp.       *)
RaiseUnmarked(t, text) ==
    Become(t, [env[t] EXCEPT !.pc = "setjmp", !.out = @ \o text])

\* larva_error, and runtime_error unless it is given none, put a text out;
\* then longjmp.
Raise(t, text) ==
    Become(t, [env[t] EXCEPT !.pc = "setjmp", !.gl_error = TRUE, !.out = @ \o text])

\* web.c's thread(): storages for the thread, which larva_init replaces.
Start(t) ==
    /\ At(t, "start")
    /\ Become(t, [env[t] EXCEPT !.pc = "idle", !.tables = "live"])
    /\ UNCHANGED <<accept_mutex, setup_mutex, cwd>>

StartFails(t) ==
    /\ At(t, "start")
    /\ Goto(t, "gone")
    /\ UNCHANGED <<accept_mutex, setup_mutex, cwd>>

LockAccept(t) ==
    /\ At(t, "idle")
    /\ accept_mutex = Nobody
    /\ accept_mutex' = t
    /\ Goto(t, "accepting")
    /\ UNCHANGED <<setup_mutex, cwd>>

(* Seeded fault: the error of the request before is not forgotten.          *)
AcceptStaleError(t) ==
    /\ At(t, "accepting")
    /\ accept_mutex' = Nobody
    /\ \E r \in Requests :
         Become(t, [env[t] EXCEPT !.pc = IF r.exists THEN "open" ELSE "finish",
                                  !.req = r, !.filename = Append(r.dir, "x.leaf"),
                                  !.body_started = FALSE, !.out = <<"header">>])
    /\ UNCHANGED <<setup_mutex, cwd>>

\* A request arrives: the headers are put, the file is opened by its full name.
Accept(t) ==
    /\ At(t, "accepting")
    /\ accept_mutex' = Nobody
    /\ \E r \in Requests :
         Become(t, [env[t] EXCEPT !.pc = IF r.exists THEN "open" ELSE "finish",
                                  !.req = r, !.filename = Append(r.dir, "x.leaf"),
                                  !.gl_error = FALSE, !.body_started = FALSE,
                                  !.out = <<"header">>])
    /\ UNCHANGED <<setup_mutex, cwd>>

AcceptFails(t) ==
    /\ At(t, "accepting")
    /\ accept_mutex' = Nobody
    /\ Goto(t, "gone")
    /\ UNCHANGED <<setup_mutex, cwd>>

LockSetup(t) ==
    /\ At(t, "open")
    /\ setup_mutex = Nobody
    /\ setup_mutex' = t
    /\ Goto(t, "getcwd")
    /\ UNCHANGED <<accept_mutex, cwd>>

GetHome(t) ==
    /\ At(t, "getcwd")
    /\ Become(t, [env[t] EXCEPT !.pc = "chdir", !.dir_home = cwd])
    /\ UNCHANGED <<accept_mutex, setup_mutex, cwd>>

(* Seeded fault: setup_mutex is not unlocked.                               *)
EnterLeafLocked(t) ==
    /\ At(t, "chdir")
    /\ cwd' = dirname(env[t].filename)
    /\ Become(t, [env[t] EXCEPT !.pc = "setjmp", !.filename = Cut(@)])
    /\ UNCHANGED <<accept_mutex, setup_mutex>>

EnterLeaf(t) ==
    /\ At(t, "chdir")
    /\ cwd' = dirname(env[t].filename)
    /\ Become(t, [env[t] EXCEPT !.pc = "setjmp", !.filename = Cut(@)])
    /\ setup_mutex' = Nobody
    /\ UNCHANGED accept_mutex

\* setjmp returns for the first time: larva_init creates the tables.
LarvaInit(t) ==
    /\ At(t, "setjmp")
    /\ ~ env[t].gl_error
    /\ Become(t, [env[t] EXCEPT !.pc = "init", !.tables = "live", !.cocoon = FALSE,
                                !.todo = env[t].req.head])
    /\ UNCHANGED <<accept_mutex, setup_mutex, cwd>>

\* setjmp returns from a longjmp: larva_stop destroys them.
StopAfterError(t) ==
    /\ At(t, "setjmp")
    /\ env[t].gl_error
    /\ Become(t, [env[t] EXCEPT !.pc = "finish", !.tables = "freed"])
    /\ UNCHANGED <<accept_mutex, setup_mutex, cwd>>

-----------------------------------------------------------------------------
(* larva_init's pass over the program.                                      *)

\* cocoon_add opens dir_home/cocoons/web.ccn and changes to dir_home; a cocoon
\* that is there already, or that cannot be opened, is passed over silently.
Use(t) ==
    /\ Facing(t, "init", "use")
    /\ LET opens == ~ env[t].cocoon /\ env[t].dir_home = Home IN
         /\ Become(t, [env[t] EXCEPT !.cocoon = @ \/ opens, !.todo = Tail(@)])
         /\ cwd' = IF opens THEN env[t].dir_home ELSE cwd
    /\ UNCHANGED <<accept_mutex, setup_mutex>>

\* A file of the included name stands beside every Leaf file.
Include(t) ==
    /\ Facing(t, "init", "include")
    /\ IF \E r \in Requests : cwd = r.dir
       THEN Become(t, [env[t] EXCEPT !.todo = Tail(@)])
       ELSE Raise(t, <<"body">>)
    /\ UNCHANGED <<accept_mutex, setup_mutex, cwd>>

LarvaDigest(t) ==
    /\ At(t, "init") /\ env[t].todo = <<>>
    /\ Become(t, [env[t] EXCEPT !.pc = "silk", !.todo = env[t].req.body])
    /\ UNCHANGED <<accept_mutex, setup_mutex, cwd>>

\* The program does not compile, or an operation of it fails.
Error(t) ==
    /\ \/ At(t, "init") /\ Raise(t, <<"body">>)
       \/ /\ At(t, "silk") /\ env[t].todo # <<>>
          /\ \E text \in {<<>>, <<"body">>} : Raise(t, text)
    /\ UNCHANGED <<accept_mutex, setup_mutex, cwd>>

-----------------------------------------------------------------------------
(* Statements.                                                              *)

(* Seeded fault: the output does not note that the body has begun.          *)
BodyUnnoted(e) ==
    [e EXCEPT !.out = @ \o (IF e.body_started THEN <<"body">> ELSE <<"separator", "body">>)]

\* Output that starts the body if nothing did yet.
Body(e) ==
    [e EXCEPT !.body_started = TRUE,
              !.out = @ \o (IF e.body_started THEN <<"body">> ELSE <<"separator", "body">>)]

\* var_echo.
Echo(t) ==
    /\ Facing(t, "silk", "print")
    /\ Become(t, [Body(env[t]) EXCEPT !.todo = Tail(@)])
    /\ UNCHANGED <<accept_mutex, setup_mutex, cwd>>

\* A function of a cocoon that was not loaded.
NoCocoon(t) ==
    /\ Facing(t, "silk", "cookie") \/ Facing(t, "silk", "render")
    /\ ~ env[t].cocoon
    /\ Raise(t, <<"body">>)
    /\ UNCHANGED <<accept_mutex, setup_mutex, cwd>>

Cookie(t) ==
    /\ Facing(t, "silk", "cookie")
    /\ env[t].cocoon
    /\ IF env[t].body_started
       THEN Raise(t, <<"body">>)
       ELSE Become(t, [env[t] EXCEPT !.out = Append(@, "header"), !.todo = Tail(@)])
    /\ UNCHANGED <<accept_mutex, setup_mutex, cwd>>

\* render: getcwd, ...
RenderSave(t) ==
    /\ Facing(t, "silk", "render")
    /\ env[t].cocoon
    /\ Become(t, [env[t] EXCEPT !.pc = "render_chdir", !.saved = cwd])
    /\ UNCHANGED <<accept_mutex, setup_mutex, cwd>>

\* ... chdir, ...
RenderEnter(t) ==
    /\ At(t, "render_chdir")
    /\ cwd' = dirname(env[t].filename)
    /\ Become(t, [env[t] EXCEPT !.pc = "render_read", !.filename = Cut(@)])
    /\ UNCHANGED <<accept_mutex, setup_mutex>>

\* ... the template, which stands beside every Leaf file and is put out with
\* its variables filled in, ...
RenderRead(t) ==
    /\ At(t, "render_read")
    /\ Become(t, [(IF \E r \in Requests : cwd = r.dir THEN Body(env[t]) ELSE env[t])
                  EXCEPT !.pc = "render_back"])
    /\ UNCHANGED <<accept_mutex, setup_mutex, cwd>>

\* ... chdir back.  The parameters may turn out to be no map.
RenderBack(t) ==
    /\ At(t, "render_back")
    /\ cwd' = env[t].saved
    /\ Become(t, [env[t] EXCEPT !.pc = "silk", !.todo = Tail(@), !.saved = <<>>])
    /\ UNCHANGED <<accept_mutex, setup_mutex>>

RenderFails(t) ==
    /\ At(t, "render_read")
    /\ cwd' = env[t].saved
    /\ Raise(t, <<"body">>)
    /\ UNCHANGED <<accept_mutex, setup_mutex>>

\* The end of larva_silk, and larva_stop.
LarvaStop(t) ==
    /\ At(t, "silk") /\ env[t].todo = <<>>
    /\ Become(t, [env[t] EXCEPT !.pc = "finish", !.tables = "freed"])
    /\ UNCHANGED <<accept_mutex, setup_mutex, cwd>>

\* "no body was sent": the separator is put now.  FCGX_Finish_r sends it all and
\* frees the parameters; what the next request overwrites unread is forgotten.
Finish(t) ==
    /\ At(t, "finish")
    /\ Become(t, [env[t] EXCEPT !.pc = "idle", !.filename = <<>>, !.dir_home = <<>>,
                                !.saved = <<>>, !.todo = <<>>,
                                !.out = IF env[t].body_started THEN @ ELSE Append(@, "separator")])
    /\ UNCHANGED <<accept_mutex, setup_mutex, cwd>>

-----------------------------------------------------------------------------
\* What a thread does for a request it has accepted.
Serve(t) ==
    \/ LockSetup(t) \/ GetHome(t) \/ EnterLeaf(t) \/ LarvaInit(t) \/ StopAfterError(t)
    \/ Use(t) \/ Include(t) \/ LarvaDigest(t) \/ Error(t)
    \/ Echo(t) \/ NoCocoon(t) \/ Cookie(t)
    \/ RenderSave(t) \/ RenderEnter(t) \/ RenderRead(t) \/ RenderBack(t) \/ RenderFails(t)
    \/ LarvaStop(t) \/ Finish(t)

Listen(t) == Start(t) \/ StartFails(t) \/ LockAccept(t) \/ Accept(t) \/ AcceptFails(t)

\* main joins the threads and returns.
AllGone == (\A t \in Threads : At(t, "gone")) /\ UNCHANGED vars

Next == (\E t \in Threads : Listen(t) \/ Serve(t)) \/ AllGone

Spec == Init /\ [][Next]_vars

\* Every thread runs on with the request it has; clients may stay away.
FairSpec == Spec /\ \A t \in Threads : WF_vars(Serve(t))

-----------------------------------------------------------------------------
(* A response is well formed whatever the order of prints, cookies,         *)
(* templates and errors: exactly one separator ends the headers, no header  *)
(* follows it (web.c:107, 182, var.c:412, cocoons/web/web.c:108, 149), and  *)
(* unless the program failed no text comes before it.                       *)
Framed ==
    \A t \in Threads :
        LET o == env[t].out IN
        At(t, "idle") /\ o # <<>> =>
            \E k \in DOMAIN o :
                /\ \A i \in DOMAIN o : o[i] = "separator" <=> i = k
                /\ \A i \in DOMAIN o : i > k => o[i] = "body"
                /\ ~ env[t].gl_error => \A i \in DOMAIN o : i < k => o[i] = "header"

(* larva_stop frees the tables of the request once: it is reached by        *)
(* running on or by a longjmp, in this request or a later one of the        *)
(* thread, and always after larva_init has created them anew                *)
(* (web.c:162-175, larva.c:17-22, 514-517).                                 *)
FreedOnce ==
    [][\A t \in Threads : LarvaStop(t) \/ StopAfterError(t) => env[t].tables = "live"]_vars

(* A request whose file was read is answered: no error, however late,       *)
(* brings a thread into a loop of setjmp and longjmp or leaves it with the  *)
(* lock (web.c:112-188).                                                    *)
Answered ==
    \A t \in Threads :
        (env[t].pc \notin {"start", "idle", "accepting", "open", "gone"}) ~> At(t, "idle")

(* In the documentation's example (docs/index.html:225-229) "use web" is    *)
(* followed by an include and a template named relative to the Leaf file:   *)
(* both are looked for in its directory.                                    *)
FilesBesideLeaf ==
    [][\A t \in Threads : Include(t) \/ RenderRead(t) => cwd = env[t].req.dir]_vars
=============================================================================
