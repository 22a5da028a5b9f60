---------------------------- MODULE ListResponse ----------------------------
(***************************************************************************)
(* How a list request is streamed: the paginator's slice with one sentinel  *)
(* row, the ObservableIterator that counts what it returns and tells the    *)
(* page, the ChunkedQuerySetIterator that reads ahead, the observers that   *)
(* collect the identifiers of embedded objects, the peek at the first item  *)
(* while an error can still change the status, the rendering of the page,   *)
(* its embedded sections and its footer, and the output buffer.             *)
(*                                                                          *)
(* One behaviour is one request. Each database round trip and each call of  *)
(* a serializer may raise; the client may go away at every yield.           *)
(***************************************************************************)
EXTENDS Integers, SequencesExt

CONSTANTS
  MaxRows,     \* bound: the rows that match the filters of the request
  PageSize,    \* per_page
  MaxPage,     \* the highest page number served (100 in the code)
  NotANumber,  \* a value of ?page= that int() does not accept
  ChunkSize,   \* ChunkedQuerySetIterator.chunk_size
  BufferSize,  \* chunk_size of _chunked_output, in parts instead of bytes
  Embeds,      \* the embedded fields, in rendering order (a sequence)
  Keys,        \* Keys[e][r]: what get_related_ids returns for row r, a set. It
               \* holds foreign keys, or the row's own key for reverse and M2M fields
  Joined       \* Joined[e]: the pairs <<key, object>> of the join that answers to
               \* related_id_field__in; an M2M join may give an object several times

ASSUME SizesAssumption ==
  /\ MaxRows \in Nat
  /\ PageSize \in Nat \ {0}
  /\ MaxPage \in Nat \ {0}
  /\ ChunkSize \in Nat \ {0}
  /\ BufferSize \in Nat
  /\ NotANumber \notin Nat

EmbedNames == {Embeds[i] : i \in 1 .. Len(Embeds)}

ASSUME EmbedsAssumption ==
  /\ Embeds \in Seq(EmbedNames)
  /\ \A e \in EmbedNames :
       /\ \A r \in 1 .. MaxRows : Keys[e][r] \subseteq Nat
       /\ Joined[e] \subseteq Nat \X Nat
       /\ IsFiniteSet(Joined[e])

VARIABLES
  req,     \* the request: page, format, paginated, expand, prefetch
  total,   \* the number of rows that match it
  it,      \* the ObservableIterator over the slice, with the DSOPage that
           \* watches it: returned, hasNext, iterated
  chunk,   \* rows read but not served yet (instances of ChunkedQuerySetIterator)
  step,    \* what the main iterator does next: fill, prefetch, serve, stop
  ids,     \* id_list of each EmbeddedResultSet
  held,    \* the item in hand, from the peek on: a sequence of at most one row
  part,    \* paginate and view (the request handler), then where the renderer
           \* is: head, main, section, embed, footer, end
  nr,      \* the embedded field whose section is being rendered, by its place
  found,   \* the objects of the embedded section still to be rendered
  buffer,  \* the parts in the buffer of _chunked_output
  status, body, ended  \* what the client sees: see PageResponse

iteration == <<it, chunk, step, ids>>
rendering == <<held, part, nr, found, buffer>>
response == <<status, body, ended>>
vars == <<req, total, iteration, rendering, response>>

(***************************************************************************)
(* The parts of a rendered page.                                            *)
(***************************************************************************)
Head0 == [kind |-> "head"]
Row(r) == [kind |-> "row", id |-> r]
Section(e) == [kind |-> "section", of |-> e]
Embedded(e, id) == [kind |-> "embedded", of |-> e, id |-> id]
Footer(next, previous) == [kind |-> "footer", next |-> next, previous |-> previous]
Marker == [kind |-> "marker"]

(***************************************************************************)
(* Requests. HAL-JSON is always paginated; CSV and GeoJSON only when the    *)
(* request has a page size, and CSV has no embedded sections.               *)
(***************************************************************************)
Formats == {"hal", "geojson", "csv"}

Requests ==
  {r \in [page : 0 .. MaxPage + 1 \cup {NotANumber}, format : Formats,
          paginated : BOOLEAN, expand : SUBSET EmbedNames, prefetch : BOOLEAN] :
     /\ r.format = "hal" => r.paginated
     /\ r.format = "csv" => r.expand = {}
     /\ ~r.paginated => r.page = 1}

\* DSOSerializer.expanded_fields also runs for the rows of a list and wants a
\* format that can embed in a detail page, which GeoJSON cannot.
EmbedsSupported == req.format = "geojson" => req.expand = {}

\* DSOPaginator.page: the slice of the page with one sentinel row behind it.
SliceStart == IF req.paginated THEN (req.page - 1) * PageSize ELSE 0
SliceEnd ==
  LET top == SliceStart + PageSize + 1
  IN  IF req.paginated /\ top < total THEN top ELSE total
SliceLength == IF SliceEnd < SliceStart THEN 0 ELSE SliceEnd - SliceStart

(***************************************************************************)
(* Output. _chunked_output collects parts and flushes when the buffer is    *)
(* full. An exception flushes what there is, and StreamingResponse adds the *)
(* marker; before the first byte it becomes an error status instead.        *)
(***************************************************************************)
Emit(p) ==
  IF Len(buffer) + 1 > BufferSize
  THEN /\ body' = Append(body \o buffer, p)
       /\ buffer' = <<>>
  ELSE /\ buffer' = Append(buffer, p)
       /\ UNCHANGED body

InView == part \in {"paginate", "view"}

Refuse(statuses) ==
  /\ status' \in statuses
  /\ ended' = "complete"
  /\ UNCHANGED <<body, buffer>>

\* Mutant: the exception is not reported in the stream.
AbortSilently ==
  /\ body' = body \o buffer
  /\ buffer' = <<>>
  /\ ended' = "aborted"
  /\ UNCHANGED status

Abort ==
  /\ body' = Append(body \o buffer, Marker)
  /\ buffer' = <<>>
  /\ ended' = "aborted"
  /\ UNCHANGED status

Raise(statuses) ==
  /\ IF InView THEN Refuse(statuses) ELSE Abort
  /\ UNCHANGED <<req, total, iteration, held, part, nr, found>>

\* A database or serializer exception: permission denied, a coordinate
\* transform that is not possible, or anything else.
Errors == {"400", "403", "500"}

(***************************************************************************)
(* The request handler: the page number, then the first item. The response  *)
(* has its status as soon as peek_iterable returns.                         *)
(***************************************************************************)
\* Mutant: only the upper limit of the page number is checked.
PageAcceptedUpTo == ~req.paginated \/ (req.page \in Nat /\ req.page <= MaxPage)

PageAccepted == ~req.paginated \/ req.page \in 1 .. MaxPage

\* Mutant: the view answers without the peek at the first item.
AcceptWithoutPeek ==
  /\ part = "paginate"
  /\ PageAccepted
  /\ part' = "head"
  /\ status' = "200"
  /\ UNCHANGED <<req, total, iteration, held, nr, found, buffer, body, ended>>

AcceptPage ==
  /\ part = "paginate"
  /\ PageAccepted
  /\ part' = "view"
  /\ UNCHANGED <<req, total, iteration, held, nr, found, buffer, response>>

RefuseEmbeds ==
  /\ part = "view"
  /\ ~EmbedsSupported
  /\ Raise({"400"})

\* The message for a page below 1 holds the number of pages: a COUNT query,
\* which may fail.
PageRefusal ==
  CASE req.page = NotANumber -> {"404"}
    [] req.page # NotANumber /\ req.page > MaxPage -> {"403"}
    [] OTHER -> {"404"} \cup Errors

RefusePage ==
  /\ part = "paginate"
  /\ ~PageAccepted
  /\ Raise(PageRefusal)

Peeked ==
  IF part = "view"
  THEN part' = "head" /\ status' = "200"
  ELSE UNCHANGED <<part, status>>

(***************************************************************************)
(* The main iterator. It works only when its consumer asks for an item: the *)
(* peek of the view, or the renderer once the item in hand is written.      *)
(***************************************************************************)
Wanted == part \in {"view", "main"} /\ EmbedsSupported /\ held = <<>>

\* Mutant: the prefetches are done for the whole queryset at once.
LimitAll == IF req.prefetch THEN MaxRows + 1 ELSE 1

\* How many rows are read at a time: a chunk when related objects are
\* prefetched, one when the queryset is simply iterated.
Limit == IF req.prefetch THEN ChunkSize ELSE 1

Filling == Wanted /\ step = "fill"
Reading == Filling /\ Len(chunk) < Limit /\ ~it.iterated

\* Mutant: the sentinel is not thrown away.
IsSentinelNever(n) == n < 0

\* DSOPage._watch_object_list for the n-th row that is returned. The sentinel
\* makes it call next() once more, which ends the iterator before the row is
\* handed over.
IsSentinel(n) == req.paginated /\ n = PageSize + 1

\* Mutant: a full page is taken for the sign of a next page.
WatchedFullPage(n) ==
  [returned |-> n, hasNext |-> req.paginated /\ n >= PageSize, iterated |-> IsSentinel(n)]

Watched(n) ==
  [returned |-> n, hasNext |-> req.paginated /\ n > PageSize, iterated |-> IsSentinel(n)]

ReadRow ==
  /\ Reading
  /\ it.returned < SliceLength
  /\ LET n == it.returned + 1
     IN  /\ it' = Watched(n)
         /\ chunk' = IF IsSentinel(n) THEN chunk ELSE Append(chunk, SliceStart + n)
  /\ UNCHANGED <<req, total, step, ids, rendering, response>>

\* The database has no more rows: ObservableIterator sees StopIteration.
Exhausted == Reading /\ it.returned = SliceLength

\* DSOPage._empty_object_list
IsEmptyPage == it.returned = 0 /\ req.paginated /\ req.page > 1

Exhaust ==
  /\ Exhausted
  /\ ~IsEmptyPage
  /\ it' = [it EXCEPT !.iterated = TRUE]
  /\ UNCHANGED <<req, total, chunk, step, ids, rendering, response>>

RefuseEmptyPage ==
  /\ Exhausted
  /\ IsEmptyPage
  /\ Raise({"404"})

\* Mutant: an empty chunk does not end the loop.
EndChunkLoops ==
  /\ Filling
  /\ Len(chunk) = Limit \/ it.iterated
  /\ step' = IF chunk = <<>> THEN "fill" ELSE IF req.prefetch THEN "prefetch" ELSE "serve"
  /\ UNCHANGED <<req, total, it, chunk, ids, rendering, response>>

\* islice() returns: the chunk is full or the rows are finished.
EndChunk ==
  /\ Filling
  /\ Len(chunk) = Limit \/ it.iterated
  /\ step' = IF chunk = <<>> THEN "stop" ELSE IF req.prefetch THEN "prefetch" ELSE "serve"
  /\ UNCHANGED <<req, total, it, chunk, ids, rendering, response>>

Prefetch ==
  /\ Wanted
  /\ step = "prefetch"
  /\ step' = "serve"
  /\ UNCHANGED <<req, total, it, chunk, ids, rendering, response>>

\* One row passes the observers of the embedded sections and the serializer.
Serve ==
  /\ Wanted
  /\ step = "serve"
  /\ ids' = [e \in EmbedNames |->
               IF e \in req.expand THEN ids[e] \cup Keys[e][Head(chunk)] ELSE ids[e]]
  /\ held' = <<Head(chunk)>>
  /\ chunk' = Tail(chunk)
  /\ step' = IF Len(chunk) = 1 THEN "fill" ELSE "serve"
  /\ Peeked
  /\ UNCHANGED <<req, total, it, nr, found, buffer, body, ended>>

\* The peek finds no item at all.
PeekNothing ==
  /\ part = "view"
  /\ step = "stop"
  /\ Peeked
  /\ UNCHANGED <<req, total, iteration, held, nr, found, buffer, body, ended>>

\* Reading, prefetching and serializing can all raise.
IterationFails ==
  /\ Wanted
  /\ step # "stop"
  /\ Raise(Errors)

(***************************************************************************)
(* The renderers.                                                           *)
(***************************************************************************)
RenderHead ==
  /\ part = "head"
  /\ Emit(Head0)
  /\ part' = "main"
  /\ UNCHANGED <<req, total, iteration, held, nr, found, status, ended>>

RenderRow ==
  /\ part = "main"
  /\ held # <<>>
  /\ Emit(Row(Head(held)))
  /\ held' = <<>>
  /\ UNCHANGED <<req, total, iteration, part, nr, found, status, ended>>

\* The embedded fields of the response whose sections are still to come.
Later == {i \in nr + 1 .. Len(Embeds) : Embeds[i] \in req.expand}

\* The next embedded section, or the footer after the last one.
NextCollection ==
  IF Later # {}
  THEN /\ part' = "section"
       /\ nr' = Min(Later)
       /\ Emit(Section(Embeds[Min(Later)]))
  ELSE /\ part' = "footer"
       /\ UNCHANGED <<nr, buffer, body>>

EndMain ==
  /\ part = "main"
  /\ held = <<>>
  /\ step = "stop"
  /\ NextCollection
  /\ UNCHANGED <<req, total, iteration, held, found, status, ended>>

\* get_embedded_objects_by_id for the keys that were collected, one result per
\* row of the join; there is no query when there are none. The database answers
\* in the order of the objects.
Precedes(a, b) == a[2] < b[2] \/ (a[2] = b[2] /\ a[1] < b[1])
Before(j, answers) == {k \in answers : Precedes(k, j)}
Objects(e, keys) ==
  LET answers == {j \in Joined[e] : j[1] \in keys}
      At(i) == CHOOSE j \in answers : Cardinality(Before(j, answers)) = i - 1
  IN  [i \in 1 .. Cardinality(answers) |-> At(i)[2]]

OpenSection ==
  /\ part = "section"
  /\ found' = Objects(Embeds[nr], ids[Embeds[nr]])
  /\ part' = "embed"
  /\ UNCHANGED <<req, total, iteration, held, nr, buffer, response>>

RenderEmbedded ==
  /\ part = "embed"
  /\ found # <<>>
  /\ Emit(Embedded(Embeds[nr], Head(found)))
  /\ found' = Tail(found)
  /\ UNCHANGED <<req, total, iteration, held, part, nr, status, ended>>

EndSection ==
  /\ part = "embed"
  /\ found = <<>>
  /\ NextCollection
  /\ UNCHANGED <<req, total, iteration, held, found, status, ended>>

SectionFails ==
  /\ \/ part = "section" /\ ids[Embeds[nr]] # {}
     \/ part = "embed" /\ found # <<>>
  /\ Raise(Errors)

\* The links: has_next() is None as long as the page is not iterated.
NextLink == req.paginated /\ it.iterated /\ it.hasNext
PreviousLink == req.paginated /\ req.page > 1

RenderFooter ==
  /\ part = "footer"
  /\ IF req.format = "csv"
     THEN UNCHANGED <<buffer, body>>
     ELSE Emit(Footer(NextLink, PreviousLink))
  /\ part' = "end"
  /\ UNCHANGED <<req, total, iteration, held, nr, found, status, ended>>

EndStream ==
  /\ part = "end"
  /\ body' = body \o buffer
  /\ buffer' = <<>>
  /\ ended' = "complete"
  /\ UNCHANGED <<req, total, iteration, held, part, nr, found, status>>

\* The server closes the generator, which only happens where it yielded: the
\* buffer has just been written, or nothing was asked for yet.
ClientGone ==
  /\ ~InView
  /\ buffer = <<>>
  /\ ended' = "closed"
  /\ UNCHANGED <<req, total, iteration, rendering, status, body>>

Init ==
  /\ req \in Requests
  /\ total \in 0 .. MaxRows
  /\ it = [returned |-> 0, hasNext |-> FALSE, iterated |-> FALSE]
  /\ chunk = <<>>
  /\ step = "fill"
  /\ ids = [e \in EmbedNames |-> {}]
  /\ held = <<>>
  /\ part = "paginate"
  /\ nr = 0
  /\ found = <<>>
  /\ buffer = <<>>
  /\ status = "none"
  /\ body = <<>>
  /\ ended = "no"

Work ==
  \/ AcceptPage \/ RefusePage \/ RefuseEmbeds
  \/ ReadRow \/ Exhaust \/ RefuseEmptyPage \/ EndChunk \/ Prefetch
  \/ Serve \/ PeekNothing
  \/ RenderHead \/ RenderRow \/ EndMain
  \/ OpenSection \/ RenderEmbedded \/ EndSection
  \/ RenderFooter \/ EndStream

Next == ended = "no" /\ (Work \/ IterationFails \/ SectionFails \/ ClientGone)

Spec == Init /\ [][Next]_vars

\* The WSGI server keeps asking for the next piece of the response, and every
\* database call returns or raises (statement timeouts). Nothing obliges a call
\* to fail, or the client to leave.
FairSpec == Spec /\ WF_vars(ended = "no" /\ Work)

(***************************************************************************)
(* The page as it should be, from the rows alone.                           *)
(***************************************************************************)
PageEnd ==
  LET last == SliceStart + PageSize
  IN  IF req.paginated /\ last < total THEN last ELSE total
PageRows == SliceStart + 1 .. PageEnd
PageKeys(e) == UNION {Keys[e][r] : r \in PageRows}
MoreRows == req.paginated /\ total > req.page * PageSize

RowParts == [i \in 1 .. Cardinality(PageRows) |-> Row(SliceStart + i)]
SectionParts(e) ==
  LET objects == Objects(e, PageKeys(e))
  IN  <<Section(e)>> \o [i \in DOMAIN objects |-> Embedded(e, objects[i])]
FooterParts ==
  IF req.format = "csv" THEN <<>> ELSE <<Footer(MoreRows, PreviousLink)>>

\* The page from the section of the i-th embedded field on.
Rest[i \in 1 .. Len(Embeds) + 1] ==
  IF i > Len(Embeds) THEN FooterParts
  ELSE IF Embeds[i] \in req.expand THEN SectionParts(Embeds[i]) \o Rest[i + 1]
  ELSE Rest[i + 1]

EmptyLaterPage == req.paginated /\ req.page > 1 /\ total <= (req.page - 1) * PageSize
Servable == PageAccepted /\ EmbedsSupported /\ ~EmptyLaterPage
Complete ==
  IF Servable THEN <<Head0>> \o (RowParts \o Rest[1]) ELSE <<>>
Refusals ==
  IF ~PageAccepted THEN PageRefusal
  ELSE IF ~EmbedsSupported THEN {"400"}
  ELSE IF EmptyLaterPage THEN Errors \cup {"404"} ELSE Errors

Promise == INSTANCE PageResponse
  WITH complete <- Complete, servable <- Servable, refusals <- Refusals

(***************************************************************************)
(* Properties.                                                              *)
(***************************************************************************)
Parts == {Head0, Marker} \cup {Row(r) : r \in 1 .. MaxRows}
           \cup {Section(e) : e \in EmbedNames}
           \cup (UNION {{Embedded(e, j[2]) : j \in Joined[e]} : e \in EmbedNames})
           \cup {Footer(n, p) : n, p \in BOOLEAN}

\* Every variable has its type; in particular only rows and objects that
\* exist are ever put in the response.
TypeOK ==
  /\ req \in Requests
  /\ total \in 0 .. MaxRows
  /\ it \in [returned : 0 .. MaxRows, hasNext : BOOLEAN, iterated : BOOLEAN]
  /\ chunk \in Seq(1 .. MaxRows)
  /\ step \in {"fill", "prefetch", "serve", "stop"}
  /\ ids \in [EmbedNames -> SUBSET Nat]
  /\ held \in {<<>>} \cup {<<r>> : r \in 1 .. MaxRows}
  /\ part \in {"paginate", "view", "head", "main", "section", "embed", "footer", "end"}
  /\ nr \in 0 .. Len(Embeds)
  /\ found \in Seq(Nat)
  /\ buffer \in Seq(Parts)
  /\ status \in {"none", "200", "404"} \cup Errors
  /\ body \in Seq(Parts)
  /\ ended \in {"no", "complete", "aborted", "closed"}

\* The response keeps the promise of PageResponse: whatever fails and whenever
\* the client leaves, the body is the beginning of the one complete rendering
\* of the page, and it stops short of it only with the marker or because the
\* client left (StreamingResponse, _chunked_output, DSOPage together).
KeepsPromise == Promise!Spec

\* The links are only rendered when the number of rows is known, and then the
\* page has a next page exactly when the data has more rows than it shows
\* (DSOPage.has_next, get_footer and _get_links are called last).
FooterKnows ==
  part \in {"footer", "end"} =>
    /\ it.iterated
    /\ NextLink <=> MoreRows

\* The keys collected for an embedded section come from rows of the
\* page only, never from the sentinel, and from all of them by the time the
\* section is queried (ObservableIterator in _as_hal_with_embeds).
EmbedsMatchPage ==
  Servable =>
    \A e \in req.expand :
      /\ ids[e] \subseteq PageKeys(e)
      /\ part \in {"section", "embed"} => ids[e] = PageKeys(e)

\* The status is sent only after the first row of the page went through the
\* database, the prefetches and the serializer (peek_iterable), so that those
\* errors still get a status of their own.
StatusAfterFirstRow ==
  status = "200" =>
    \/ it.iterated /\ PageRows = {}
    \/ held = <<SliceStart + 1>>
    \/ \E i \in DOMAIN (body \o buffer) : (body \o buffer)[i] = Row(SliceStart + 1)

RowsSent == Cardinality({i \in DOMAIN body : body[i].kind = "row"})

\* However many rows match, the server never holds more of them than one chunk, or
\* one row of a list without prefetches, next to those in the output buffer; and what it
\* has read beyond the rows sent, the sentinel included, fits in these two
\* (ChunkedQuerySetIterator, ObservableIterator, _chunked_output).
BoundedMemory ==
  LET ahead == IF req.prefetch THEN ChunkSize ELSE 1
  IN  /\ Len(chunk) + Len(held) <= ahead
      /\ it.returned <= RowsSent + BufferSize + ahead

\* Every request is answered to the end, or cut off visibly.
AlwaysEnds == <>(ended # "no")
=============================================================================
