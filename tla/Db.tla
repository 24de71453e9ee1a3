--------------------------------- MODULE Db ---------------------------------
(***************************************************************************)
(* The db cocoon (cocoons/db/db.c): the functions share a connection and   *)
(* the results that are read from it; a script calls them in any order.    *)
(* The MySQL client library is modelled from what db.c asks of it: one     *)
(* unbuffered result at a time is read row by row from the connection.     *)
(***************************************************************************)
EXTENDS Vars, FiniteSets, SequencesExt

CONSTANTS
    Answers,        \* what the server may have for a query: [kind, rows]
    MaxQueries      \* how many queries a script makes

\* The rows of the answers, sequences of fields.
Rows == UNION {Range(a.rows) : a \in {b \in Answers : b.kind = "rows"}}

ASSUME AnswersAssumption ==
    \A a \in Answers : \/ a.kind = "ok" /\ a.rows = NULL
                       \/ a.kind = "rows" /\ a.rows \in Seq(Rows) /\ a.rows # NULL
ASSUME MaxQueriesAssumption == MaxQueries \in Nat

VARIABLES
    link,           \* the connection: "none", "ready", "use" (a result is being read)
    lost,           \* whether the server has gone away
    results,        \* the results opened: [rows, eof, freed, opener]
    got,            \* what fetchRow_ and row_ made of each result's rows
    status          \* "run", "error" (runtime_error), "crash"

db == <<link, lost, results, got>>

DbInit ==
    /\ link = "none" /\ lost = FALSE /\ results = <<>> /\ got = <<>>
    /\ status = "run"

-----------------------------------------------------------------------------
Linked == status = "run" /\ link # "none"

RuntimeError == status' = "error" /\ UNCHANGED db

Connect == status = "run" /\ link = "none" /\ link' = "ready" /\ UNCHANGED <<lost, results, got, status>>
ConnectFails == status = "run" /\ link = "none" /\ RuntimeError

ServerLeaves ==
    /\ Linked /\ ~lost
    /\ lost' = TRUE
    /\ UNCHANGED <<link, results, got, status>>

Result(answer, eof, freed, opener) == [rows |-> answer.rows, eof |-> eof, freed |-> freed, opener |-> opener]

\* mysql_query succeeds: no result is being read, the server is there and has
\* an answer.  One without rows, of an INSERT, has no result either.
Asks(answer) ==
    /\ Linked /\ link = "ready" /\ ~lost
    /\ Len(results) < MaxQueries
    /\ answer \in Answers

query_(answer) ==
    /\ Asks(answer)
    /\ results' = Append(results, Result(answer, answer.kind = "ok", FALSE, "query"))
    /\ got' = Append(got, <<>>)
    /\ link' = IF answer.kind = "ok" THEN "ready" ELSE "use"
    /\ UNCHANGED <<lost, status>>

\* "Commands out of sync", the server has gone or does not like the query.
QueryFails ==
    /\ Linked /\ Len(results) < MaxQueries
    /\ RuntimeError

\* fetchRow_ without a result.
FetchFails == Linked /\ RuntimeError

\* A field that is NULL stays unset.
Field(f) == IF f = NULL THEN Nothing ELSE String(f)
RowOf(row) == Array([i \in DOMAIN row |-> Field(row[i])])

\* mysql_fetch_row has a row for an open result while the server is there.
HasRow(r) == ~results[r].eof /\ link = "use" /\ ~lost /\ Len(got[r]) < Len(results[r].rows)
Held == {r \in DOMAIN results : results[r].opener = "query"}
NoResult(r) == results[r].eof /\ results[r].rows = NULL

\* Seeded fault: a row is fetched to look whether there is one, and the next
\* one is returned.
FetchSecond(r) ==
    /\ Linked /\ r \in Held
    /\ HasRow(r)
    /\ LET rows == results[r].rows
           next == IF Len(got[r]) + 2 <= Len(rows) THEN Len(got[r]) + 2 ELSE Len(rows)
       IN  got' = [got EXCEPT ![r] = Append(@, RowOf(rows[next]))]
    /\ UNCHANGED <<link, lost, results, status>>

fetchRow_(r) ==
    /\ Linked /\ r \in Held
    /\ HasRow(r)
    /\ got' = [got EXCEPT ![r] = Append(@, RowOf(results[r].rows[Len(@) + 1]))]
    /\ UNCHANGED <<link, lost, results, status>>

\* The end of the rows and the loss of the server look the same: nothing was
\* fetched.  The connection is free again.
FetchEnd(r) ==
    /\ Linked /\ r \in Held
    /\ ~HasRow(r) /\ ~NoResult(r)
    /\ results' = [results EXCEPT ![r].eof = TRUE]
    /\ link' = IF results[r].eof THEN link ELSE "ready"
    /\ UNCHANGED <<lost, got, status>>

\* query_ returns a pointer that is NULL, and mysql_fetch_row follows it.
FetchCrash(r) ==
    /\ Linked /\ r \in Held
    /\ NoResult(r)
    /\ status' = "crash"
    /\ UNCHANGED db

\* Seeded fault: the result is not freed, so that its other rows are not read.
RowKept(answer) ==
    /\ Asks(answer) /\ answer.kind = "rows"
    /\ results' = Append(results, Result(answer, answer.rows = <<>>, FALSE, "row"))
    /\ got' = Append(got, IF answer.rows = <<>> THEN <<>> ELSE <<RowOf(answer.rows[1])>>)
    /\ link' = IF answer.rows = <<>> THEN "ready" ELSE "use"
    /\ UNCHANGED <<lost, status>>

\* The first row, if there is one; freeing the result reads the others.  A
\* result without rows has been read to its end, but is not freed.
row_(answer) ==
    /\ Asks(answer) /\ answer.kind = "rows"
    /\ results' = Append(results, Result(answer, TRUE, answer.rows # <<>>, "row"))
    /\ got' = Append(got, IF answer.rows = <<>> THEN <<>> ELSE <<RowOf(answer.rows[1])>>)
    /\ link' = "ready"
    /\ UNCHANGED <<lost, status>>

\* The server goes before the first row has come.
RowLost(answer) ==
    /\ Asks(answer) /\ answer.kind = "rows"
    /\ results' = Append(results, Result(answer, TRUE, FALSE, "row"))
    /\ got' = Append(got, <<>>)
    /\ lost' = TRUE
    /\ UNCHANGED <<link, status>>

RowCrash(answer) ==
    /\ Asks(answer) /\ answer.kind = "ok"
    /\ status' = "crash"
    /\ UNCHANGED db

DbNext ==
    \/ Connect \/ ConnectFails \/ ServerLeaves \/ QueryFails \/ FetchFails
    \/ \E answer \in Answers : query_(answer) \/ row_(answer) \/ RowLost(answer) \/ RowCrash(answer)
    \/ \E r \in DOMAIN results : fetchRow_(r) \/ FetchEnd(r) \/ FetchCrash(r)

DbSpec == DbInit /\ [][DbNext]_<<db, status>>

-----------------------------------------------------------------------------
(* Properties.                                                              *)

\* A connection is busy exactly while the script holds one result that it has not
\* read to its end: row_ always leaves the connection as it found it, whatever
\* the number of rows, so that a script that uses nothing else is never out of
\* sync.
Open == {r \in DOMAIN results : ~results[r].eof}
InSync ==
    /\ link = "use" <=> Open # {}
    /\ Cardinality(Open) <= 1 /\ Open \subseteq Held

\* A result's rows come in order and none is left out; all have come when the
\* end is reported, unless the server has gone, which nobody tells the script.
RowsInOrder ==
    \A r \in DOMAIN results :
        results[r].rows # NULL =>
            LET rows == [i \in DOMAIN results[r].rows |-> RowOf(results[r].rows[i])]
            IN  /\ IsPrefix(got[r], rows)
                /\ results[r].opener = "query" /\ results[r].eof /\ ~lost => got[r] = rows
=============================================================================
