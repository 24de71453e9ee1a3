------------------------------ MODULE DbProofs ------------------------------
(***************************************************************************)
(* Db for any answers of the server and any number of queries.             *)
(***************************************************************************)
EXTENDS Db, FiniteSetTheorems, TLAPS

USE AnswersAssumption, MaxQueriesAssumption

dbvars == <<db, status>>

RowVars == {RowOf(row) : row \in Rows}
Entry == [rows : Seq(Rows) \cup {NULL}, eof : BOOLEAN, freed : BOOLEAN, opener : {"query", "row"}]

DbType ==
    /\ link \in {"none", "ready", "use"}
    /\ lost \in BOOLEAN
    /\ results \in Seq(Entry)
    /\ got \in Seq(Seq(RowVars))
    /\ Len(got) = Len(results)

\* The connection is busy for the one result that is open, which query_ opened
\* and which has rows.
OneOpen ==
    /\ link = "use" <=> Open # {}
    /\ \A r, s \in Open : r = s
    /\ Open \subseteq Held
    /\ \A r \in Open : results[r].rows # NULL

\* Row for row, what was fetched of a result is what the server sent; of one
\* that query_ opened and that was read to its end, all of it.
Fetched(g, x, gone) ==
    /\ Len(g) <= Len(x.rows)
    /\ \A i \in DOMAIN g : g[i] = RowOf(x.rows[i])
    /\ x.opener = "query" /\ x.eof /\ ~gone => Len(g) = Len(x.rows)
AllFetched ==
    \A r \in DOMAIN results : results[r].rows # NULL => Fetched(got[r], results[r], lost)

\* The inductive invariant.
IInv == DbType /\ OneOpen /\ AllFetched

-----------------------------------------------------------------------------
(* An answer's rows, and the array that fetchRow_ makes of one, have their *)
(* types.                                                                   *)
LEMMA AnswerType ==
    ASSUME NEW answer \in Answers, NEW eof \in BOOLEAN, NEW freed \in BOOLEAN,
           NEW opener \in {"query", "row"}
    PROVE  /\ Result(answer, eof, freed, opener) \in Entry
           /\ answer.kind = "rows" => answer.rows \in Seq(Rows) /\ answer.rows # NULL
           /\ answer.kind # "rows" => answer.kind = "ok" /\ answer.rows = NULL
           /\ \A rows \in Seq(Rows) : \A i \in DOMAIN rows : RowOf(rows[i]) \in RowVars
BY DEF Result, Entry, RowVars

(* query_ and row_ add a result behind the others, which stay as they are. *)
LEMMA Added ==
    ASSUME IInv, NEW x \in Entry, NEW g \in Seq(RowVars),
           results' = Append(results, x), got' = Append(got, g)
    PROVE  /\ results' \in Seq(Entry) /\ got' \in Seq(Seq(RowVars)) /\ Len(got') = Len(results')
           /\ DOMAIN results' = DOMAIN results \cup {Len(results) + 1}
           /\ \A r \in DOMAIN results : results'[r] = results[r] /\ got'[r] = got[r]
           /\ results'[Len(results) + 1] = x /\ got'[Len(results) + 1] = g
           /\ Len(results) + 1 \notin DOMAIN results
           /\ Open' = IF x.eof THEN Open ELSE Open \cup {Len(results) + 1}
<1>1. results \in Seq(Entry) /\ got \in Seq(Seq(RowVars)) /\ Len(got) = Len(results)
    BY DEF IInv, DbType
<1>2. /\ results' \in Seq(Entry) /\ got' \in Seq(Seq(RowVars)) /\ Len(got') = Len(results')
      /\ DOMAIN results' = DOMAIN results \cup {Len(results) + 1}
      /\ \A r \in DOMAIN results : results'[r] = results[r] /\ got'[r] = got[r]
      /\ results'[Len(results) + 1] = x /\ got'[Len(results) + 1] = g
      /\ Len(results) + 1 \notin DOMAIN results
    BY <1>1
<1> QED
    BY <1>2 DEF Open

(* What has been fetched of the other results stays what it is.             *)
LEMMA AddedFetched ==
    ASSUME IInv, NEW x \in Entry, NEW g \in Seq(RowVars), lost' = lost \/ lost' = TRUE,
           results' = Append(results, x), got' = Append(got, g),
           x.rows # NULL => Fetched(g, x, lost')
    PROVE  AllFetched'
<1> SUFFICES ASSUME NEW r \in DOMAIN results', results'[r].rows # NULL
             PROVE  Fetched(got'[r], results'[r], lost')
    BY DEF AllFetched
<1>1. CASE r \in DOMAIN results
  <2>1. results'[r] = results[r] /\ got'[r] = got[r]
    BY <1>1, Added
  <2>2. Fetched(got[r], results[r], lost)
    BY <1>1, <2>1 DEF IInv, AllFetched
  <2> QED
    BY <2>1, <2>2 DEF Fetched
<1>2. CASE r = Len(results) + 1
    BY <1>2, Added
<1> QED
    BY <1>1, <1>2, Added

-----------------------------------------------------------------------------
(* query_ opens a result with rows, and then the connection is busy; or it *)
(* leaves a NULL pointer, and then it is not.                               *)
LEMMA QueryStep ==
    ASSUME IInv, NEW answer \in Answers, query_(answer)
    PROVE  IInv'
<1> DEFINE x == Result(answer, answer.kind = "ok", FALSE, "query")
           n == Len(results) + 1
<1>1. link = "ready" /\ ~lost /\ lost' = lost /\ Open = {}
    BY DEF query_, Asks, IInv, OneOpen
<1>2. x \in Entry
    BY AnswerType
<1>3. results' = Append(results, x) /\ got' = Append(got, <<>>)
    BY DEF query_
<1> HIDE DEF x
<1>4. /\ results' \in Seq(Entry) /\ got' \in Seq(Seq(RowVars)) /\ Len(got') = Len(results')
      /\ DOMAIN results' = DOMAIN results \cup {n}
      /\ \A r \in DOMAIN results : results'[r] = results[r] /\ got'[r] = got[r]
      /\ results'[n] = x /\ got'[n] = <<>>
      /\ Open' = IF x.eof THEN Open ELSE Open \cup {n}
  <2>1. <<>> \in Seq(RowVars)
    OBVIOUS
  <2> QED
    BY <1>2, <1>3, <2>1, Added
<1>5. x.rows = answer.rows /\ x.opener = "query" /\ (x.eof <=> answer.kind = "ok")
    BY DEF x, Result
<1>6. DbType'
    BY <1>1, <1>4 DEF query_, IInv, DbType
<1>7. CASE answer.kind = "ok"
  <2>1. x.eof /\ x.rows = NULL /\ link' = "ready" /\ Open' = {}
    BY <1>1, <1>4, <1>5, <1>7, AnswerType DEF query_
  <2>2. OneOpen'
    BY <2>1 DEF OneOpen
  <2>3. AllFetched'
    <3>1. <<>> \in Seq(RowVars)
      OBVIOUS
    <3> QED
      BY <1>1, <1>2, <1>3, <2>1, <3>1, AddedFetched
  <2> QED
    BY <1>6, <2>2, <2>3 DEF IInv
<1>8. CASE answer.kind # "ok"
  <2>1. ~x.eof /\ x.rows # NULL /\ x.rows \in Seq(Rows) /\ link' = "use" /\ Open' = {n}
    BY <1>1, <1>4, <1>5, <1>8, AnswerType DEF query_
  <2>2. OneOpen'
    BY <1>4, <1>5, <2>1 DEF OneOpen, Held
  <2>3. Fetched(<<>>, x, lost')
    BY <2>1 DEF Fetched
  <2>4. AllFetched'
    <3>1. <<>> \in Seq(RowVars)
      OBVIOUS
    <3> QED
      BY <1>1, <1>2, <1>3, <2>3, <3>1, AddedFetched
  <2> QED
    BY <1>6, <2>2, <2>4 DEF IInv
<1> QED
    BY <1>7, <1>8

(* row_ reads its result to the end, or the server goes before it can:     *)
(* either way nothing stays open.                                           *)
LEMMA RowStep ==
    ASSUME IInv, NEW answer \in Answers, row_(answer) \/ RowLost(answer)
    PROVE  IInv'
<1> DEFINE n == Len(results) + 1
<1>1. link = "ready" /\ link' = "ready" /\ lost = FALSE /\ lost' \in BOOLEAN /\ Open = {}
      /\ answer.kind = "rows"
    BY DEF row_, RowLost, Asks, IInv, OneOpen, DbType
<1>2. answer.rows \in Seq(Rows) /\ answer.rows # NULL
    BY <1>1, AnswerType
<1>3. PICK freed \in BOOLEAN : results' = Append(results, Result(answer, TRUE, freed, "row"))
    BY DEF row_, RowLost
<1> DEFINE x == Result(answer, TRUE, freed, "row")
<1>4. PICK g \in Seq(RowVars) :
        /\ got' = Append(got, g)
        /\ g = <<>> \/ (answer.rows # <<>> /\ g = <<RowOf(answer.rows[1])>>)
  <2>1. CASE row_(answer) /\ answer.rows # <<>>
    <3>1. 1 \in DOMAIN answer.rows
      BY <1>2, <2>1
    <3>2. <<RowOf(answer.rows[1])>> \in Seq(RowVars)
      BY <1>2, <3>1, AnswerType
    <3> QED
      BY <2>1, <3>2 DEF row_
  <2>2. CASE RowLost(answer) \/ answer.rows = <<>>
    <3>1. <<>> \in Seq(RowVars)
      OBVIOUS
    <3> QED
      BY <2>2, <3>1 DEF row_, RowLost
  <2> QED
    BY <2>1, <2>2
<1>5. x \in Entry /\ x.rows = answer.rows /\ x.opener = "row" /\ x.eof = TRUE
    BY AnswerType DEF Result
<1> HIDE DEF x
<1>6. /\ results' \in Seq(Entry) /\ got' \in Seq(Seq(RowVars)) /\ Len(got') = Len(results')
      /\ DOMAIN results' = DOMAIN results \cup {n}
      /\ \A r \in DOMAIN results : results'[r] = results[r] /\ got'[r] = got[r]
      /\ results'[n] = x /\ got'[n] = g
      /\ Open' = IF x.eof THEN Open ELSE Open \cup {n}
    BY <1>3, <1>4, <1>5, Added DEF x
<1>7. DbType'
    BY <1>1, <1>6 DEF IInv, DbType
<1>8. OneOpen'
    BY <1>1, <1>5, <1>6 DEF OneOpen
<1>9. Fetched(g, x, lost')
  <2>1. CASE g = <<>>
    BY <1>2, <1>5, <2>1 DEF Fetched
  <2>2. CASE answer.rows # <<>> /\ g = <<RowOf(answer.rows[1])>>
    BY <1>2, <1>5, <2>2 DEF Fetched
  <2> QED
    BY <1>4, <2>1, <2>2
<1>10. AllFetched'
  <2>1. lost' = lost \/ lost' = TRUE
    BY DEF row_, RowLost
  <2> QED
    BY <1>3, <1>4, <1>5, <1>9, <2>1, AddedFetched DEF x
<1> QED
    BY <1>7, <1>8, <1>10 DEF IInv

(* fetchRow_ takes the next row of a result that is open.                   *)
LEMMA FetchStep ==
    ASSUME IInv, NEW r \in DOMAIN results, fetchRow_(r)
    PROVE  IInv'
<1> DEFINE row == RowOf(results[r].rows[Len(got[r]) + 1])
<1>1. /\ UNCHANGED <<link, lost, results>>
      /\ got' = [got EXCEPT ![r] = Append(@, row)]
      /\ ~results[r].eof /\ ~lost /\ Len(got[r]) < Len(results[r].rows)
    BY DEF fetchRow_, HasRow
<1>2. r \in Open /\ results[r].rows # NULL /\ results[r] \in Entry /\ Fetched(got[r], results[r], lost)
    BY <1>1 DEF Open, IInv, OneOpen, DbType, AllFetched
<1>3. results[r].rows \in Seq(Rows)
    BY <1>2 DEF Entry
<1>4. got[r] \in Seq(RowVars) /\ r \in DOMAIN got /\ DOMAIN got = DOMAIN results
    BY DEF IInv, DbType
<1>5. Len(got[r]) + 1 \in DOMAIN results[r].rows
    BY <1>1, <1>3, <1>4
<1>6. row \in RowVars
    BY <1>3, <1>5 DEF RowVars
<1> HIDE DEF row
<1>7. /\ got' \in Seq(Seq(RowVars)) /\ Len(got') = Len(got)
      /\ got'[r] = Append(got[r], row)
      /\ \A s \in DOMAIN results \ {r} : got'[s] = got[s]
    BY <1>1, <1>4, <1>6 DEF IInv, DbType
<1>8. DbType'
    BY <1>1, <1>7 DEF IInv, DbType
<1>9. OneOpen'
    BY <1>1 DEF IInv, OneOpen, Open, Held
<1>10. Fetched(got'[r], results'[r], lost')
    BY <1>1, <1>2, <1>4, <1>5, <1>7 DEF Fetched, row
<1>11. AllFetched'
    BY <1>1, <1>7, <1>10 DEF IInv, AllFetched, Fetched
<1> QED
    BY <1>8, <1>9, <1>11 DEF IInv

(* fetchRow_ reports the end: nothing is open any more, and unless the     *)
(* server has gone all rows have come.                                      *)
LEMMA EndStep ==
    ASSUME IInv, NEW r \in DOMAIN results, FetchEnd(r)
    PROVE  IInv'
<1>1. /\ UNCHANGED <<lost, got>>
      /\ results' = [results EXCEPT ![r].eof = TRUE]
      /\ link' = IF results[r].eof THEN link ELSE "ready"
      /\ ~HasRow(r) /\ r \in Held
    BY DEF FetchEnd
<1>2. results \in Seq(Entry) /\ results[r] \in Entry
    BY DEF IInv, DbType
<1>3. /\ results' \in Seq(Entry) /\ Len(results') = Len(results) /\ DOMAIN results' = DOMAIN results
      /\ \A s \in DOMAIN results \ {r} : results'[s] = results[s]
      /\ results'[r].eof = TRUE /\ results'[r].rows = results[r].rows
      /\ results'[r].opener = results[r].opener
  <2>1. results' = [results EXCEPT ![r] = [results[r] EXCEPT !.eof = TRUE]]
    BY <1>1
  <2>2. [results[r] EXCEPT !.eof = TRUE] \in Entry
    BY <1>2 DEF Entry
  <2> QED
    BY <1>2, <2>1, <2>2 DEF Entry
<1>4. Open' = Open \ {r} /\ Held' = Held
    BY <1>3 DEF Open, Held
<1>5. DbType'
    BY <1>1, <1>3 DEF IInv, DbType
<1>6. CASE results[r].eof
  <2>1. r \notin Open /\ link' = link
    BY <1>1, <1>6 DEF Open
  <2>2. OneOpen'
    BY <1>3, <1>4, <2>1 DEF IInv, OneOpen, Open
  <2>3. AllFetched'
    BY <1>1, <1>3, <1>6 DEF IInv, AllFetched, Fetched
  <2> QED
    BY <1>5, <2>2, <2>3 DEF IInv
<1>7. CASE ~results[r].eof
  <2>1. r \in Open /\ link = "use" /\ link' = "ready"
    BY <1>1, <1>7 DEF IInv, OneOpen, Open
  <2>2. Open' = {}
    BY <1>4, <2>1 DEF IInv, OneOpen
  <2>3. OneOpen'
    BY <2>1, <2>2 DEF OneOpen
  <2>4. results[r].rows # NULL /\ results[r].rows \in Seq(Rows) /\ Fetched(got[r], results[r], lost)
    BY <1>2, <2>1 DEF IInv, OneOpen, Entry, AllFetched
  <2>5. got[r] \in Seq(RowVars)
    BY DEF IInv, DbType
  <2>6. lost \/ Len(got[r]) = Len(results[r].rows)
    BY <1>1, <1>7, <2>1, <2>4, <2>5 DEF HasRow, Fetched
  <2>7. Fetched(got'[r], results'[r], lost')
    BY <1>1, <1>3, <2>4, <2>6 DEF Fetched
  <2>8. AllFetched'
    BY <1>1, <1>3, <2>7 DEF IInv, AllFetched, Fetched
  <2> QED
    BY <1>5, <2>3, <2>8 DEF IInv
<1> QED
    BY <1>6, <1>7

-----------------------------------------------------------------------------
(* A script starts without a connection and without results.                *)
LEMMA IInvInit == DbInit => IInv
<1> SUFFICES ASSUME DbInit PROVE IInv
    OBVIOUS
<1>1. results = <<>> /\ got = <<>> /\ DOMAIN results = {} /\ Open = {}
    BY DEF DbInit, Open
<1>2. <<>> \in Seq(Entry) /\ <<>> \in Seq(Seq(RowVars))
    OBVIOUS
<1>3. DbType
    BY <1>1, <1>2 DEF DbInit, DbType
<1> QED
    BY <1>1, <1>3 DEF DbInit, IInv, OneOpen, AllFetched

(* Every function of db, and the server's leaving, keep the invariant.     *)
LEMMA IInvStep == IInv /\ [DbNext]_dbvars => IInv'
<1> SUFFICES ASSUME IInv, [DbNext]_dbvars PROVE IInv'
    OBVIOUS
<1>1. ASSUME UNCHANGED db PROVE IInv'
    BY <1>1 DEF db, IInv, DbType, OneOpen, Open, Held, AllFetched, Fetched
<1>2. CASE Connect
  <2>1. link = "none" /\ link' = "ready" /\ UNCHANGED <<lost, results, got>>
    BY <1>2 DEF Connect
  <2> QED
    BY <2>1 DEF IInv, DbType, OneOpen, Open, Held, AllFetched, Fetched
<1>3. CASE ServerLeaves
  <2>1. lost' = TRUE /\ UNCHANGED <<link, results, got>>
    BY <1>3 DEF ServerLeaves
  <2> QED
    BY <2>1 DEF IInv, DbType, OneOpen, Open, Held, AllFetched, Fetched
<1>4. CASE ConnectFails \/ QueryFails \/ FetchFails
    BY <1>1, <1>4 DEF ConnectFails, QueryFails, FetchFails, RuntimeError
<1>5. ASSUME NEW answer \in Answers, RowCrash(answer) PROVE IInv'
    BY <1>1, <1>5 DEF RowCrash
<1>6. ASSUME NEW r \in DOMAIN results, FetchCrash(r) PROVE IInv'
    BY <1>1, <1>6 DEF FetchCrash
<1>7. CASE UNCHANGED dbvars
    BY <1>1, <1>7 DEF dbvars
<1> QED
    BY <1>2, <1>3, <1>4, <1>5, <1>6, <1>7, QueryStep, RowStep, FetchStep, EndStep DEF DbNext

(* The invariant holds in every behaviour of a script.                      *)
LEMMA Inductive == DbSpec => []IInv
BY IInvInit, IInvStep, PTL DEF DbSpec, dbvars

(* However a script mixes query, fetchRow and row, and whenever the server *)
(* goes, the connection is busy exactly while the one result that query_   *)
(* opened last has not been read to its end: row_ never leaves it out of   *)
(* sync (db.c:73-192).                                                      *)
THEOREM InSyncHolds == DbSpec => []InSync
<1>1. ASSUME IInv PROVE InSync
  <2>1. (link = "use" <=> Open # {}) /\ Open \subseteq Held
    BY <1>1 DEF IInv, OneOpen
  <2>2. Cardinality(Open) <= 1
    <3>1. CASE Open = {}
      BY <3>1, FS_EmptySet
    <3>2. ASSUME NEW r \in Open PROVE Cardinality(Open) <= 1
      <4>1. Open = {r}
        BY <1>1, <3>2 DEF IInv, OneOpen
      <4>2. Cardinality({r}) = 1
        BY FS_Singleton, Zenon
      <4> QED
        BY <4>1, <4>2
    <3> QED
      BY <3>1, <3>2
  <2> QED
    BY <2>1, <2>2 DEF InSync
<1> QED
    BY <1>1, Inductive, PTL

(* The rows a script gets of a result are the server's, in order and       *)
(* without a gap, and all of them when the end is reported while the        *)
(* server is there (db.c:101-138).                                          *)
THEOREM RowsInOrderHolds == DbSpec => []RowsInOrder
<1>1. ASSUME IInv, NEW r \in DOMAIN results, results[r].rows # NULL
      PROVE  LET rows == [i \in DOMAIN results[r].rows |-> RowOf(results[r].rows[i])]
             IN  /\ IsPrefix(got[r], rows)
                 /\ results[r].opener = "query" /\ results[r].eof /\ ~lost => got[r] = rows
  <2> DEFINE sent == results[r].rows
             rows == [i \in DOMAIN sent |-> RowOf(sent[i])]
  <2>1. results[r] \in Entry /\ got[r] \in Seq(RowVars)
    BY <1>1 DEF IInv, DbType
  <2>2. sent \in Seq(Rows) /\ got[r] \in Seq(RowVars) /\ Fetched(got[r], results[r], lost)
    BY <1>1, <2>1 DEF IInv, Entry, AllFetched
  <2>3. rows \in Seq(RowVars) /\ Len(rows) = Len(sent)
    BY <2>2 DEF RowVars
  <2>4. \A i \in DOMAIN got[r] : i \in DOMAIN sent /\ got[r][i] = rows[i]
    BY <2>2 DEF Fetched
  <2>5. Len(got[r]) <= Len(rows)
    BY <2>2, <2>3 DEF Fetched
  <2> HIDE DEF rows
  <2>6. IsPrefix(got[r], rows)
    BY <2>2, <2>3, <2>4, <2>5 DEF IsPrefix
  <2>7. Len(got[r]) = Len(rows) => got[r] = rows
    BY <2>2, <2>3, <2>4
  <2> QED
    BY <2>2, <2>3, <2>6, <2>7 DEF Fetched, rows
<1>2. IInv => RowsInOrder
    BY <1>1 DEF RowsInOrder
<1> QED
    BY <1>2, Inductive, PTL
=============================================================================
