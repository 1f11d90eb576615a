---------------------------- MODULE ForecastReads ----------------------------
(***************************************************************************)
(* A client that reads a published forecast page by page                   *)
(* (vertex/api/app.py, vertex/api/repository.py) while later versions are  *)
(* published.  A request names the current version of a contract, one      *)
(* version, or the newest version of a run (the explorer); every page      *)
(* resolves it anew and continues after the row of its token.  A row is    *)
(* <<entity, date, horizon, publication id>>, the order it is sorted by.   *)
(***************************************************************************)
EXTENDS Integers, SequencesExt

CONSTANTS
  Versions,  \* in the order of publication: run, rows and announced number
  Requests,  \* mode, version, run, entity, dates, horizons and limit
  Absent       \* no token, no filter

\* What a row forecasts, whichever publication it belongs to.
Forecast(r) == <<r[1], r[2], r[3]>>

HasAnnouncedRows(v) == Cardinality(Versions[v].rows) = Versions[v].announced

\* A publication has a row of every forecast of its run and no two of one,
\* unless rows are missing (build_manual_publication_records); entities, dates
\* and ids are in the order of their numbers, and a page has room for a row.
ASSUME ReadsAssumption ==
  /\ Versions \in Seq(ToSet(Versions)) /\ Versions # <<>>
  /\ \A p \in ToSet(Versions) :
       /\ IsFiniteSet(p.rows) /\ p.rows \subseteq Int \X Int \X Int \X Int
       /\ \A r, s \in p.rows : Forecast(r) = Forecast(s) => r = s
  /\ \A v, w \in DOMAIN Versions :
       /\ Versions[v].run = Versions[w].run
       /\ HasAnnouncedRows(v) /\ HasAnnouncedRows(w)
       => {Forecast(r) : r \in Versions[v].rows} = {Forecast(r) : r \in Versions[w].rows}
  /\ Absent \notin Int \X Int \X Int \X Int
  /\ \A q \in Requests : /\ q.mode \in {"current", "version", "explorer"}
                         /\ q.limit \in Nat \ {0}

VARIABLES
  shown,   \* how many versions have been published
  reader   \* request, token, pages read so far and state

reads == <<shown, reader>>

\* Where two rows first differ, r is the later one.
After(c, r) ==
  \E i \in 1 .. 4 : c[i] < r[i] /\ \A j \in 1 .. (i - 1) : c[j] = r[j]

\* The publication a request reads, as a position; 0 when there is none.
Scope(q) ==
  LET candidates == CASE q.mode = "current" -> 1 .. shown
                      [] q.mode = "version" -> {q.version} \intersect (1 .. shown)
                      [] q.mode = "explorer" ->
                           {v \in 1 .. shown : Versions[v].run = q.run}
  IN CHOOSE v \in candidates \union {0} : \A w \in candidates : w <= v

\* fetch_page counts the rows of the version; the explorer does not.
Complete(q, v) == q.mode = "explorer" \/ HasAnnouncedRows(v)

Matches(q, r) ==
  /\ q.entity \in {Absent, r[1]}
  /\ q.dates = Absent \/ r[2] \in q.dates
  /\ q.horizons = Absent \/ r[3] \in q.horizons

\* Faulty variant: a page goes on with the next entity.
RestOfNextEntity(q, v, token) ==
  {r \in Versions[v].rows : Matches(q, r) /\ (token # Absent => token[1] < r[1])}

\* The matching rows after the token.
Rest(q, v, token) ==
  {r \in Versions[v].rows : Matches(q, r) /\ (token # Absent => After(token, r))}

InOrder(rows) ==
  [i \in 1 .. Cardinality(rows) |->
     CHOOSE r \in rows : Cardinality({s \in rows : After(s, r)}) = i - 1]

Page(q, v, token) ==
  LET rest == InOrder(Rest(q, v, token))
  IN SubSeq(rest, 1, IF Len(rest) < q.limit THEN Len(rest) ELSE q.limit)

-----------------------------------------------------------------------------

ReadsInit ==
  /\ shown = 1
  /\ reader \in [request : Requests, token : {Absent}, pages : {<<>>},
                 state : {"reading"}]

\* A later version is published, or a run of a later origin.
PublishNext ==
  /\ shown < Len(Versions)
  /\ reader.state = "reading"
  /\ shown' = shown + 1
  /\ UNCHANGED reader

ReadPage ==
  LET q == reader.request
      v == Scope(q)
  IN /\ reader.state = "reading"
     /\ v # 0
     /\ Complete(q, v)
     /\ q.mode = "explorer" => Rest(q, v, reader.token) # {}
     /\ LET page == Page(q, v, reader.token)
            more == Cardinality(Rest(q, v, reader.token)) > q.limit
        IN reader' = [reader EXCEPT
             !.pages = Append(@, [version |-> v, rows |-> page]),
             !.token = IF more THEN page[Len(page)] ELSE Absent,
             !.state = IF more THEN "reading" ELSE "read"]
     /\ UNCHANGED shown

\* No such publication (404), or it is incomplete (409).
RefuseRead ==
  LET v == Scope(reader.request)
  IN /\ reader.state = "reading"
     /\ v # 0 =>
          \/ ~Complete(reader.request, v)
          \/ /\ reader.request.mode = "explorer"
             /\ Rest(reader.request, v, reader.token) = {}
     /\ reader' = [reader EXCEPT !.state = "refused"]
     /\ UNCHANGED shown

ReadsNext == PublishNext \/ ReadPage \/ RefuseRead

-----------------------------------------------------------------------------

\* What the client has read, page after page.
RowsRead ==
  FlattenSeq([i \in DOMAIN reader.pages |-> reader.pages[i].rows])

\* Whoever has read to the end has met no row twice and none out of order,
\* whatever was published in between.  Pages of one version add up to it: every
\* matching row once, and all announced rows when nothing was filtered.  When
\* complete versions of one run came in between, no forecast was skipped.
PagesPartition ==
  LET q == reader.request
      versions == {reader.pages[i].version : i \in DOMAIN reader.pages}
      wanted(v) == {r \in Versions[v].rows : Matches(q, r)}
  IN reader.state = "read" =>
     /\ \A i, j \in DOMAIN RowsRead : i < j => After(RowsRead[i], RowsRead[j])
     /\ \A v \in versions : versions = {v} =>
          /\ RowsRead = InOrder(wanted(v))
          /\ wanted(v) = Versions[v].rows /\ q.mode # "explorer" =>
               Len(RowsRead) = Versions[v].announced
     /\ (\A v, w \in versions :
           Versions[v].run = Versions[w].run /\ HasAnnouncedRows(v)) =>
          \A v \in versions : \A r \in wanted(v) :
            \E s \in ToSet(RowsRead) : Forecast(s) = Forecast(r)
=============================================================================
