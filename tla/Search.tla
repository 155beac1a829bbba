------------------------------- MODULE Search -------------------------------
(***************************************************************************)
(* Looking sessions up: by what is in the sessions table, and by text in   *)
(* an engine that has documents of its own, with the table as fallback.    *)
(*                                                                         *)
(* A text is one word.  A filter either is empty or asks for a value of    *)
(* one column; asking for a window of time or for errors is such a value.  *)
(***************************************************************************)
EXTENDS Integers, Sequences, FiniteSets, SequencesExt

CONSTANTS
  Ids,         \* of sessions, numbers: the higher one was created later
  Rows,        \* what a session may be: its columns, its words and its tags
  Bm25,        \* id -> how well its document fits the text, boosts aside
  Boost,       \* what the re-ranking adds for the text in the summary
  Pool,        \* rerankPoolSize
  PageSize,    \* defaultSearchLimit
  MaxWrites,
  None

Columns == {"project", "remote", "branch", "provider", "owner", "type", "category", "status", "errors", "since"}
Values  == {"a", "b"}

VARIABLES
  engine,    \* what buildSearchEngine made of the configuration
  up,        \* whether the engine's database or server answers
  rows,      \* the sessions table
  docs,      \* the engine's documents
  unindexed, \* sessions captured and not yet indexed, as they were captured
  writes

searchVars == <<engine, up, rows, docs, unindexed, writes>>

Stored == {i \in Ids : rows[i] # None}
Newest(ids) == SetToSortSeq(ids, LAMBDA i, j : i > j)

\* A request without filters, and one with.
Anything == [c \in Columns |-> None]
Fits(row, filters) == \A c \in Columns : filters[c] \in {None, row[c]}
Only(filters, known) == [c \in Columns |-> IF c \in known THEN filters[c] ELSE None]

-----------------------------------------------------------------------------
(* The table.                                                              *)

\* The keyword is looked for in the summary.
buildSearchWhere(text, filters) ==
  {i \in Stored : Fits(rows[i], filters) /\ (text # "" => text \in rows[i].summary)}

Page(hits, limit, offset) == SubSeq(hits, offset + 1, IF offset + limit < Len(hits) THEN offset + limit ELSE Len(hits))
Limit(limit) == IF limit <= 0 THEN PageSize ELSE limit

StoreSearch(text, filters, limit, offset) ==
  LET found == buildSearchWhere(text, filters) IN
  [hits |-> Page(Newest(found), Limit(limit), offset), total |-> Cardinality(found)]

\* How many of them have each value of a column.
SearchFacets(text, filters, c) ==
  LET found == buildSearchWhere(text, filters)
      value(i) == IF c = "project" /\ rows[i].remote # "" THEN rows[i].remote ELSE rows[i][c]
  IN [v \in {value(i) : i \in found} \ {""} |-> Cardinality({i \in found : value(i) = v})]

-----------------------------------------------------------------------------
(* The engines: which columns they know, which words they look at.         *)

DocumentFromSession(row) == row

\* The filters that searchViaEngine passes on.
Passed == Columns \ {"owner", "status"}
Knows(e) ==
  CASE e = "fts5"          -> {"project", "branch", "provider", "type"}
    [] e = "elasticsearch" -> Passed
    [] e = "like"          -> Passed

LikeSearch(text, filters, limit, offset) ==
  StoreSearch(text, Only(filters, Knows("like")), Limit(limit), offset)

Matching(e, text, filters) ==
  {i \in Ids : /\ docs[i] # None
               /\ text \in docs[i].summary \cup docs[i].content
               /\ Fits(docs[i], Only(filters, Knows(e)))}

\* The boosts are for the whole text in the summary.
rerankScore(i, text) == Bm25[i] + (IF text \in docs[i].summary THEN Boost ELSE 0)
rerank(pool, text) ==
  SetToSortSeq(Range(pool), LAMBDA i, j : rerankScore(i, text) > rerankScore(j, text))

\* Mutation of Fts5Search: the pool holds one page more than is skipped.
Fts5SearchPool(text, filters, limit, offset) ==
  LET found == Matching("fts5", text, filters)
      best  == SetToSortSeq(found, LAMBDA i, j : Bm25[i] > Bm25[j])
  IN [hits |-> Page(rerank(SubSeq(best, 1, IF offset + limit < Len(best) THEN offset + limit ELSE Len(best)), text),
                    limit, offset),
      total |-> Cardinality(found)]

\* The page is taken from a pool of the best ones, ranked again.
Fts5Search(text, filters, limit, offset) ==
  LET found == Matching("fts5", text, filters)
      best  == SetToSortSeq(found, LAMBDA i, j : Bm25[i] > Bm25[j])
      size  == IF offset + limit > Pool THEN offset + limit ELSE Pool
  IN [hits |-> Page(rerank(SubSeq(best, 1, IF size < Len(best) THEN size ELSE Len(best)), text), limit, offset),
      total |-> Cardinality(found)]

\* The server ranks and takes the page; its response has the number of all of them.
buildSearchQuery(text, filters) == Matching("elasticsearch", text, filters)
parseSearchResponse(found, page) == [hits |-> page, total |-> Cardinality(found)]
ElasticSearch(text, filters, limit, offset) ==
  LET found == buildSearchQuery(text, filters) IN
  parseSearchResponse(found, Page(SetToSortSeq(found, LAMBDA i, j : Bm25[i] > Bm25[j]), limit, offset))

\* The first engine that answers: behind the others is the table.
ChainSearch(text, filters, limit, offset) ==
  CASE engine = "fts5" /\ up          -> Fts5Search(text, filters, Limit(limit), offset)
    [] engine = "elasticsearch" /\ up -> ElasticSearch(text, filters, Limit(limit), offset)
    [] OTHER                          -> LikeSearch(text, filters, limit, offset)

-----------------------------------------------------------------------------
(* The service.                                                            *)

searchViaEngine(text, filters, limit, offset) ==
  IF engine = "none" \/ text = "" THEN StoreSearch(text, filters, limit, offset)
  ELSE ChainSearch(text, filters, limit, offset)

\* The tags are looked at when the page is there.
ServiceSearch(text, filters, tags, limit, offset) ==
  LET result == searchViaEngine(text, filters, limit, offset) IN
  [result EXCEPT !.hits = SelectSeq(@, LAMBDA i : tags = {} \/ (i \in Stored /\ tags \subseteq rows[i].tags))]

filterSummaries(ids, filters) == SelectSeq(ids, LAMBDA i : Fits(rows[i], Only(filters, {"since", "type"})))

\* A keyword makes it a search.  The address, the tags and the limit are for what the
\* search returned, the limit a second time.
ServiceList(text, filters, tags, limit) ==
  LET asked  == Only(filters, {"project", "branch", "provider", "owner", "type", "since"})
      listed == IF text # "" THEN ServiceSearch(text, asked, {}, limit, 0).hits
                ELSE filterSummaries(Newest(buildSearchWhere("", Only(asked, Columns \ {"since", "type"}))), filters)
      column(i, c) == IF rows[i] # None THEN rows[i][c] ELSE docs[i][c]
      kept   == SelectSeq(listed, LAMBDA i : /\ filters.remote \in {None, column(i, "remote")}
                                             /\ tags = {} \/ (i \in Stored /\ tags \subseteq rows[i].tags))
  IN IF limit > 0 THEN Page(kept, limit, 0) ELSE kept

-----------------------------------------------------------------------------
(* What changes the table and the documents.                               *)

Engines == {"none", "like", "fts5", "elasticsearch"}
Write == writes < MaxWrites /\ writes' = writes + 1

SearchTypeOK ==
  /\ engine \in Engines /\ up \in BOOLEAN /\ writes \in 0 .. MaxWrites
  /\ \A i \in Ids : rows[i] \in Rows \cup {None} /\ docs[i] \in Rows \cup {None}

SearchInit ==
  /\ engine \in Engines /\ up = TRUE /\ writes = 0
  /\ rows = [i \in Ids |-> None] /\ docs = rows /\ unindexed = rows

\* The documents are written by the pass after a capture.
Capture(i, row) ==
  /\ Write
  /\ rows' = [rows EXCEPT ![i] = row]
  /\ unindexed' = [unindexed EXCEPT ![i] = row]
  /\ UNCHANGED <<engine, up, docs>>

HasDocs == engine \in {"fts5", "elasticsearch"}
Indexed(new) == docs' = IF HasDocs /\ up THEN [i \in Ids |-> IF new[i] = None THEN docs[i] ELSE new[i]] ELSE docs

\* An engine that does not answer is not told again.
IndexSession(i) ==
  /\ unindexed[i] # None
  /\ Indexed([j \in Ids |-> IF j = i THEN DocumentFromSession(unindexed[i]) ELSE None])
  /\ unindexed' = [unindexed EXCEPT ![i] = None]
  /\ UNCHANGED <<engine, up, rows, writes>>

\* What is there already is skipped only by an engine that is asked for it, and no
\* engine is used without a chain around it, which cannot be asked.
IndexAllSessions ==
  /\ Write
  /\ Indexed([i \in Ids |-> IF rows[i] = None THEN None ELSE DocumentFromSession(rows[i])])
  /\ UNCHANGED <<engine, up, rows, unindexed>>

\* Nothing tells the engine.
Delete(i) ==
  /\ Write
  /\ rows[i] # None
  /\ rows' = [rows EXCEPT ![i] = None]
  /\ UNCHANGED <<engine, up, docs, unindexed>>

Fails == up /\ HasDocs /\ Write /\ up' = FALSE /\ UNCHANGED <<engine, rows, docs, unindexed>>
Recovers == ~up /\ up' = TRUE /\ UNCHANGED <<engine, rows, docs, unindexed, writes>>

SearchNext ==
  \/ \E i \in Ids : IndexSession(i) \/ Delete(i) \/ \E row \in Rows : Capture(i, row)
  \/ IndexAllSessions \/ Fails \/ Recovers

SearchSpec == SearchInit /\ [][SearchNext]_searchVars

-----------------------------------------------------------------------------
(* Properties.                                                             *)

\* The engine's documents show the sessions as they are.
InStep == HasDocs => docs = rows

\* The columns whose filters are looked at when a text is searched for.
Looked == CASE engine = "none" -> Columns [] engine = "like" \/ ~up -> Knows("like") [] OTHER -> Knows(engine)
Single(columns) == {Anything} \cup {[Anything EXCEPT ![c] = v] : c \in columns, v \in Values}
InSummary(filters) == buildSearchWhere("x", filters)
InText(filters) == {i \in Stored : Fits(rows[i], filters) /\ "x" \in rows[i].summary \cup rows[i].content}

\* While the documents are in step, a search returns only what it was asked for, and
\* nothing that has the text in its summary is missing from its pages, whichever engine
\* answers.
FoundIsAsked ==
  InStep =>
    \A filters \in Single(Looked) :
      LET found == Range(ServiceSearch("x", filters, {}, Cardinality(Ids), 0).hits)
      IN InSummary(filters) \subseteq found /\ found \subseteq InText(filters)

\* The pages of a search, one after the other, have every result once, and as many as
\* the first one says, if there are no more than the pool holds.
PagesAreWhole ==
  LET page(n) == ServiceSearch("x", Anything, {}, 1, n) IN
  page(0).total <= Pool =>
    LET pages == FlattenSeq([n \in 1 .. Cardinality(Ids) |-> page(n - 1).hits])
    IN Len(pages) = page(0).total /\ IsInjective(pages)

\* Whoever picks a value beside the list gets as many sessions as were counted for it,
\* and no session with a value is without a count.
FacetsLead ==
  \A filters \in Single(Columns), c \in Columns \ {"project", "errors", "since"} :
    LET counts == SearchFacets("", filters, c) IN
    filters[c] = None =>
      \A v \in Values :
        StoreSearch("", [filters EXCEPT ![c] = v], 0, 0).total = (IF v \in DOMAIN counts THEN counts[v] ELSE 0)

\* The list without a keyword, and a search for anything, show the same.
ListIsSearch ==
  \A filters \in Single(Columns \ {"category", "status", "errors", "remote"}) :
    ServiceList("", filters, {}, 0) = ServiceSearch("", filters, {}, Cardinality(Ids), 0).hits
=============================================================================
