------------------------- MODULE ListResponseProofs -------------------------
(***************************************************************************)
(* Proofs about the streaming of a list: for every number of rows, every   *)
(* join, every size of pages, chunks and buffers, and wherever a query     *)
(* fails, the footer tells the truth, the embedded sections get the        *)
(* identifiers of the page, the status is settled by the first row, memory *)
(* stays bounded, and the stream as a whole keeps the promise of           *)
(* PageResponse.                                                           *)
(***************************************************************************)
EXTENDS ListResponse, FiniteSetTheorems, SequenceTheorems, WellFoundedInduction, TLAPS

(***************************************************************************)
(* Natural numbers, for sets instead of predicates.                        *)
(***************************************************************************)
\* A set of natural numbers that is not empty has a smallest element.
LEMMA LeastElement ==
  ASSUME NEW T, T \subseteq Nat, T # {}
  PROVE  \E n \in T : \A m \in T : n <= m
<1> DEFINE R == OpToRel(<, Nat)
<1>1. \A m, n \in Nat : <<m, n>> \in R <=> m < n
  BY DEF OpToRel
<1>2. IsWellFoundedOn(R, Nat)
  BY NatLessThanWellFounded
<1> HIDE DEF R
<1>3. PICK n \in T : \A m \in T : ~(<<m, n>> \in R)
  BY <1>2, WFMin
<1>4. \A m \in T : ~(m < n)
  BY <1>1, <1>3
<1> QED
  BY <1>4

\* Induction over the natural numbers, for a set instead of a predicate.
LEMMA Induction ==
  ASSUME NEW T, 0 \in T, \A n \in Nat : n \in T => n + 1 \in T
  PROVE  Nat \subseteq T
<1> SUFFICES ASSUME Nat \ T # {}
             PROVE  FALSE
  OBVIOUS
<1>1. PICK n \in Nat \ T : \A m \in Nat \ T : n <= m
  BY LeastElement
<1>2. n - 1 \in Nat /\ n - 1 \in T
  BY <1>1
<1> QED
  BY <1>1, <1>2

USE SizesAssumption

\* How many rows were kept of those that the database returned: all but the
\* sentinel. Those that are not in the chunk passed the serializer.
Kept == IF req.paginated /\ it.returned > PageSize THEN PageSize ELSE it.returned
Passed == Kept - Len(chunk)
FirstRows(n) == SliceStart + 1 .. SliceStart + n

Types ==
  /\ req \in Requests /\ total \in Nat
  /\ it \in [returned : Nat, hasNext : BOOLEAN, iterated : BOOLEAN]
  /\ chunk \in Seq(Nat)
  /\ step \in {"fill", "prefetch", "serve", "stop"}
  /\ part \in {"paginate", "view", "head", "main", "section", "embed", "footer", "end"}

\* Nothing happens to the iterators before the page is accepted.
Fresh ==
  /\ it = [returned |-> 0, hasNext |-> FALSE, iterated |-> FALSE]
  /\ chunk = <<>> /\ step = "fill" /\ held = <<>>
  /\ \A e \in req.expand : ids[e] = {}

\* The iterator is at its end after the last row of the slice, and only then.
Counted ==
  /\ PageAccepted
  /\ it.returned <= SliceLength
  /\ it.hasNext <=> req.paginated /\ it.returned > PageSize
  /\ it.iterated => it.returned = SliceLength
  /\ it.hasNext => it.iterated

\* The chunk has the kept rows that follow those that were passed on.
ReadAhead ==
  /\ Len(chunk) <= Kept
  /\ \A i \in 1 .. Len(chunk) : chunk[i] = SliceStart + Passed + i

Collected ==
  \A e \in req.expand : ids[e] = UNION {Keys[e][r] : r \in FirstRows(Passed)}

Phases ==
  /\ step \in {"prefetch", "serve"} => chunk # <<>>
  /\ step = "stop" => it.iterated /\ chunk = <<>>
  /\ part \in {"section", "embed", "footer", "end"} => step = "stop"
  /\ part = "view" => Passed = 0
  /\ InView => status # "200"

\* What was put out is a sequence, of whatever parts.
Output == \E P : body \in Seq(P) /\ buffer \in Seq(P)

IInv ==
  /\ Types /\ Phases /\ Output /\ StatusAfterFirstRow
  /\ part = "paginate" => Fresh
  /\ part # "paginate" => Counted /\ ReadAhead /\ Collected

Sent(x) == \E i \in DOMAIN (body \o buffer) : (body \o buffer)[i] = x

-----------------------------------------------------------------------------
\* The slice and the page.

\* The slice of the database has the rows of the page, and the sentinel exactly
\* when there is a next page.
LEMMA SliceFacts ==
  ASSUME Types, PageAccepted
  PROVE  /\ SliceStart \in Nat /\ SliceLength \in Nat
         /\ req.paginated \in BOOLEAN
         /\ req.paginated => SliceLength <= PageSize + 1
         /\ MoreRows <=> req.paginated /\ SliceLength > PageSize
         /\ PageRows = FirstRows(IF req.paginated /\ SliceLength > PageSize
                                 THEN PageSize ELSE SliceLength)
<1>1. req.paginated \in BOOLEAN
  BY DEF Types, Requests
<1>2. CASE ~req.paginated
  BY <1>1, <1>2
     DEF Types, SliceStart, SliceEnd, SliceLength, MoreRows, PageRows, PageEnd, FirstRows
<1>3. CASE req.paginated
  <2>1. req.page \in Nat \ {0}
    BY <1>3 DEF PageAccepted
  <2> DEFINE s == (req.page - 1) * PageSize
  <2>2. s \in Nat /\ req.page * PageSize = s + PageSize
    BY <2>1
  <2>3. SliceStart = s
    BY <1>3 DEF SliceStart
  <2> HIDE DEF s
  <2>4. SliceLength = IF total < s THEN 0
                      ELSE IF s + PageSize + 1 < total THEN PageSize + 1 ELSE total - s
    BY <1>3, <2>2, <2>3 DEF Types, SliceLength, SliceEnd
  <2>5. PageEnd = IF s + PageSize < total THEN s + PageSize ELSE total
    BY <1>3, <2>3 DEF PageEnd
  <2>6. MoreRows <=> total > s + PageSize
    BY <1>3, <2>2 DEF MoreRows
  <2> QED
    BY <1>1, <1>3, <2>2, <2>3, <2>4, <2>5, <2>6 DEF Types, PageRows, FirstRows
<1> QED
  BY <1>1, <1>2, <1>3

\* What was kept is on the page, and is the page when the iterator ends.
LEMMA KeptFacts ==
  ASSUME Types, Counted, ReadAhead
  PROVE  /\ Kept \in Nat /\ Passed \in Nat
         /\ FirstRows(Passed) \subseteq PageRows
         /\ it.iterated => FirstRows(Kept) = PageRows
<1>1. Kept \in Nat /\ Passed \in Nat /\ Passed <= Kept
  BY DEF Types, Kept, Passed, ReadAhead
<1>2. it.returned \in Nat /\ it.returned <= SliceLength
  BY DEF Types, Counted
<1> DEFINE n == IF req.paginated /\ SliceLength > PageSize THEN PageSize ELSE SliceLength
<1>3. PageRows = FirstRows(n) /\ n \in Nat /\ SliceStart \in Nat
  BY SliceFacts DEF Counted
<1>4. Kept <= n /\ (it.iterated => Kept = n)
  BY <1>2, SliceFacts DEF Kept, Counted
<1> HIDE DEF n
<1> QED
  BY <1>1, <1>3, <1>4 DEF FirstRows

-----------------------------------------------------------------------------
\* What was put out stays.

LEMMA AppendToBoth ==
  ASSUME NEW S, NEW s \in Seq(S), NEW t \in Seq(S), NEW x \in S
  PROVE  /\ s \o Append(t, x) = Append(s \o t, x)
         /\ Append(s \o t, x) \o <<>> = Append(s \o t, x)
<1>1. s \o t \in Seq(S) /\ Append(s \o t, x) \in Seq(S)
  OBVIOUS
<1>2. s \o Append(t, x) \in Seq(S)
  OBVIOUS
<1>3. Len(s \o Append(t, x)) = Len(Append(s \o t, x))
  OBVIOUS
<1>4. ASSUME NEW i \in 1 .. Len(Append(s \o t, x))
      PROVE  (s \o Append(t, x))[i] = Append(s \o t, x)[i]
  OBVIOUS
<1>5. s \o Append(t, x) = Append(s \o t, x)
  BY <1>1, <1>2, <1>3, <1>4
<1> QED
  BY <1>1, <1>5

LEMMA EmitKeeps ==
  ASSUME Output, NEW p, Emit(p)
  PROVE  Output' /\ Sent(p)' /\ \A x : Sent(x) => Sent(x)'
<1>1. PICK P : body \in Seq(P) /\ buffer \in Seq(P)
  BY DEF Output
<1> DEFINE Q == P \cup {p}
           all == Append(body \o buffer, p)
<1>2. body \in Seq(Q) /\ buffer \in Seq(Q) /\ p \in Q
  BY <1>1
<1> HIDE DEF Q
<1>3. all \in Seq(Q)
  BY <1>2
<1>4. body' \in Seq(Q) /\ buffer' \in Seq(Q) /\ (body \o buffer)' = all
  <2>1. CASE Len(buffer) + 1 > BufferSize
    <3>1. body' = all /\ buffer' = <<>>
      BY <2>1 DEF Emit
    <3>2. all \o <<>> = all
      BY <1>2, AppendToBoth
    <3> QED
      BY <1>3, <3>1, <3>2
  <2>2. CASE ~(Len(buffer) + 1 > BufferSize)
    <3>1. body' = body /\ buffer' = Append(buffer, p)
      BY <2>2 DEF Emit
    <3>2. body \o Append(buffer, p) = all
      BY <1>2, AppendToBoth
    <3> QED
      BY <1>2, <3>1, <3>2
  <2> QED
    BY <2>1, <2>2
<1>5. /\ all[Len(all)] = p
      /\ \A i \in 1 .. Len(body \o buffer) : all[i] = (body \o buffer)[i]
  BY <1>2
<1>6. DOMAIN all = 1 .. Len(all) /\ DOMAIN (body \o buffer) = 1 .. Len(body \o buffer)
  BY <1>2, <1>3
<1>7. Len(body \o buffer) \in Nat /\ Len(all) = Len(body \o buffer) + 1
  BY <1>2
<1>8. Output'
  BY <1>4 DEF Output
<1>9. Sent(p)'
  BY <1>4, <1>5, <1>6, <1>7 DEF Sent
<1>10. ASSUME NEW x, Sent(x)
       PROVE  Sent(x)'
  <2>1. PICK i \in DOMAIN (body \o buffer) : (body \o buffer)[i] = x
    BY <1>10 DEF Sent
  <2>2. i \in DOMAIN all /\ all[i] = x
    BY <1>5, <1>6, <1>7, <2>1
  <2> QED
    BY <1>4, <2>2 DEF Sent
<1> QED
  BY <1>8, <1>9, <1>10

LEMMA AbortKeeps ==
  ASSUME Output, Abort
  PROVE  Output' /\ \A x : Sent(x) => Sent(x)'
<1>1. PICK P : body \in Seq(P) /\ buffer \in Seq(P)
  BY DEF Output
<1> DEFINE Q == P \cup {Marker}
           all == Append(body \o buffer, Marker)
<1>2. body \in Seq(Q) /\ buffer \in Seq(Q) /\ Marker \in Q
  BY <1>1
<1> HIDE DEF Q
<1>3. body' = all /\ buffer' = <<>> /\ all \in Seq(Q)
  BY <1>2 DEF Abort
<1>4. (body \o buffer)' = all
  BY <1>2, <1>3
<1>5. \A i \in 1 .. Len(body \o buffer) : all[i] = (body \o buffer)[i]
  BY <1>2
<1>6. DOMAIN all = 1 .. Len(body \o buffer) + 1
      /\ DOMAIN (body \o buffer) = 1 .. Len(body \o buffer) /\ Len(body \o buffer) \in Nat
  BY <1>2
<1> HIDE DEF all
<1>7. Output'
  BY <1>3 DEF Output
<1> QED
  BY <1>4, <1>5, <1>6, <1>7 DEF Sent

LEMMA EndKeeps ==
  ASSUME Output, body' = body \o buffer, buffer' = <<>>
  PROVE  Output' /\ \A x : Sent(x) => Sent(x)'
<1>1. PICK P : body \in Seq(P) /\ buffer \in Seq(P)
  BY DEF Output
<1>2. body' \in Seq(P) /\ (body \o buffer)' = body \o buffer
  BY <1>1
<1> QED
  BY <1>2 DEF Output, Sent

LEMMA SilenceKeeps ==
  ASSUME Output, UNCHANGED <<body, buffer>>
  PROVE  Output' /\ \A x : Sent(x) => Sent(x)'
BY DEF Output, Sent

-----------------------------------------------------------------------------
\* Steps that leave the iterators and the collected identifiers alone.

LEMMA StillCounted ==
  ASSUME Counted, ReadAhead, Collected, UNCHANGED <<req, total, it, chunk, ids>>
  PROVE  Counted' /\ ReadAhead' /\ Collected' /\ Passed' = Passed
<1>1. Passed' = Passed /\ Kept' = Kept /\ SliceStart' = SliceStart
  BY DEF Passed, Kept, SliceStart
<1>2. SliceLength' = SliceLength
  BY DEF SliceLength, SliceEnd, SliceStart
<1> QED
  BY <1>1, <1>2 DEF Counted, PageAccepted, ReadAhead, Collected, FirstRows

\* Once the first row is in hand or put out, or the page is known to be empty,
\* this stays so: a row leaves the hand only when it is put out.
LEMMA FirstRowStays ==
  ASSUME StatusAfterFirstRow, UNCHANGED <<req, total>>,
         it.iterated => it'.iterated,
         status' = "200" => status = "200",
         \A r : held = <<r>> => held' = held \/ Sent(Row(r))',
         \A x : Sent(x) => Sent(x)'
  PROVE  StatusAfterFirstRow'
<1>1. SliceStart' = SliceStart /\ PageRows' = PageRows
  BY DEF SliceStart, PageRows, PageEnd
<1>2. PICK k : k = SliceStart + 1
  OBVIOUS
<1> SUFFICES ASSUME status' = "200"
             PROVE  (it'.iterated /\ PageRows' = {}) \/ held' = <<k>> \/ Sent(Row(k))'
  BY <1>1, <1>2 DEF StatusAfterFirstRow, Sent
<1>3. (it.iterated /\ PageRows = {}) \/ held = <<k>> \/ Sent(Row(k))
  BY <1>2 DEF StatusAfterFirstRow, Sent
<1>4. CASE it.iterated /\ PageRows = {}
  BY <1>1, <1>4
<1>5. CASE held = <<k>>
  BY <1>5
<1>6. CASE Sent(Row(k))
  BY <1>6
<1> QED
  BY <1>3, <1>4, <1>5, <1>6

\* A step of the view or the renderers that leaves the iterators alone.
LEMMA StillKeeps ==
  ASSUME IInv, part # "paginate", UNCHANGED <<req, total, it, chunk, step, ids>>,
         part' \in {"view", "head", "main", "section", "embed", "footer", "end"},
         part' = "view" => part = "view",
         part' \in {"section", "embed", "footer", "end"} => step = "stop",
         part' = "view" => status' # "200",
         Output', StatusAfterFirstRow'
  PROVE  IInv'
<1>1. Counted' /\ ReadAhead' /\ Collected' /\ Passed' = Passed
  BY StillCounted DEF IInv
<1>2. Types'
  BY DEF IInv, Types, Requests, Formats
<1>3. Phases'
  BY <1>1 DEF IInv, Phases, InView
<1> QED
  BY <1>1, <1>2, <1>3 DEF IInv

LEMMA RaiseKeeps ==
  ASSUME IInv, NEW S, "200" \notin S, Raise(S)
  PROVE  IInv'
<1>1. UNCHANGED <<req, total, it, chunk, step, ids, held, part>>
  BY DEF Raise, iteration
<1>2. status' = "200" => status = "200" /\ ~InView
  BY DEF Raise, Refuse, Abort, IInv, Phases
<1>3. Output' /\ \A x : Sent(x) => Sent(x)'
  <2>1. CASE InView
    BY <2>1, SilenceKeeps DEF Raise, Refuse, IInv
  <2>2. CASE ~InView
    BY <2>2, AbortKeeps DEF Raise, IInv
  <2> QED
    BY <2>1, <2>2
<1>4. StatusAfterFirstRow'
  BY <1>1, <1>2, <1>3, FirstRowStays DEF IInv
<1>5. CASE part = "paginate"
  <2>1. Fresh'
    BY <1>1, <1>5 DEF IInv, Fresh
  <2>2. Types'
    BY <1>1 DEF IInv, Types, Requests, Formats
  <2>3. Phases'
    BY <1>1, <1>2, <1>5 DEF IInv, Phases, InView
  <2> QED
    BY <1>1, <1>3, <1>4, <1>5, <2>1, <2>2, <2>3 DEF IInv
<1>6. CASE part # "paginate"
  <2>1. part' \in {"view", "head", "main", "section", "embed", "footer", "end"}
    BY <1>1, <1>6 DEF IInv, Types
  <2>2. part' \in {"section", "embed", "footer", "end"} => step = "stop"
    BY <1>1 DEF IInv, Phases
  <2>3. part' = "view" => status' # "200"
    BY <1>1, <1>2 DEF InView
  <2> QED
    BY <1>1, <1>3, <1>4, <1>6, <2>1, <2>2, <2>3, StillKeeps
<1> QED
  BY <1>5, <1>6

-----------------------------------------------------------------------------
\* The steps of the iterators.

LEMMA AcceptPageKeeps ==
  ASSUME IInv, AcceptPage
  PROVE  IInv'
<1>1. /\ part = "paginate" /\ part' = "view"
      /\ UNCHANGED <<req, total, it, chunk, step, ids, held, status>>
      /\ UNCHANGED <<body, buffer>> /\ PageAccepted /\ Fresh
  BY DEF AcceptPage, iteration, response, IInv
<1>2. SliceLength \in Nat /\ SliceStart \in Nat /\ req.paginated \in BOOLEAN
  BY <1>1, SliceFacts DEF IInv
<1>3. Counted
  BY <1>1, <1>2 DEF Counted, Fresh
<1>4. Kept = 0 /\ Passed = 0
  BY <1>1, <1>2 DEF Fresh, Kept, Passed
<1>5. ReadAhead
  BY <1>1, <1>4 DEF ReadAhead, Fresh
<1>6. Collected
  BY <1>1, <1>2, <1>4 DEF Collected, Fresh, FirstRows
<1>7. Counted' /\ ReadAhead' /\ Collected' /\ Passed' = Passed
  BY <1>1, <1>3, <1>5, <1>6, StillCounted
<1>8. Types'
  BY <1>1 DEF IInv, Types, Requests, Formats
<1>11. Phases'
  BY <1>1, <1>4, <1>7 DEF IInv, Phases, Fresh, InView
<1>9. Output' /\ \A x : Sent(x) => Sent(x)'
  BY <1>1, SilenceKeeps DEF IInv
<1>10. StatusAfterFirstRow'
  BY <1>1, <1>9, FirstRowStays DEF IInv
<1> QED
  BY <1>1, <1>7, <1>8, <1>9, <1>10, <1>11 DEF IInv

\* A step of the iterators changes nothing of the response but, at the peek,
\* the status.
LEMMA IteratingKeeps ==
  ASSUME IInv, part \in {"view", "main"},
         UNCHANGED <<req, total, part, held, buffer, body, status>>,
         it.iterated => it'.iterated,
         Types', Counted', ReadAhead', Collected', Phases'
  PROVE  IInv'
<1>1. Output' /\ \A x : Sent(x) => Sent(x)'
  BY SilenceKeeps DEF IInv
<1>2. StatusAfterFirstRow'
  BY <1>1, FirstRowStays DEF IInv
<1> QED
  BY <1>1, <1>2 DEF IInv

LEMMA ReadRowKeeps ==
  ASSUME IInv, ReadRow
  PROVE  IInv' /\ Passed' = Passed
<1> DEFINE n == it.returned + 1
<1>1. /\ part \in {"view", "main"} /\ step = "fill" /\ ~it.iterated
      /\ it.returned < SliceLength
      /\ it' = Watched(n)
      /\ chunk' = IF IsSentinel(n) THEN chunk ELSE Append(chunk, SliceStart + n)
      /\ UNCHANGED <<req, total, step, ids, part, held, buffer, status, body>>
  BY DEF ReadRow, Reading, Filling, Wanted, rendering, response
<1>2. Types /\ Counted /\ ReadAhead /\ Collected /\ Phases
  BY <1>1 DEF IInv
<1>3. /\ SliceLength \in Nat /\ SliceStart \in Nat /\ req.paginated \in BOOLEAN
      /\ req.paginated => SliceLength <= PageSize + 1
      /\ n \in Nat /\ n <= SliceLength /\ it.returned = n - 1
      /\ Kept \in Nat /\ Passed \in Nat
      /\ chunk \in Seq(Nat)
  <2>1. /\ SliceLength \in Nat /\ SliceStart \in Nat /\ req.paginated \in BOOLEAN
        /\ req.paginated => SliceLength <= PageSize + 1
    BY <1>2, SliceFacts DEF Counted
  <2>2. Kept \in Nat /\ Passed \in Nat
    BY <1>2, KeptFacts
  <2>3. it.returned \in Nat /\ chunk \in Seq(Nat)
    BY <1>2 DEF Types
  <2> QED
    BY <1>1, <2>1, <2>2, <2>3
<1>4. SliceLength' = SliceLength /\ SliceStart' = SliceStart /\ PageAccepted'
  BY <1>1, <1>2 DEF SliceLength, SliceEnd, SliceStart, Counted, PageAccepted
<1>5. it.returned <= PageSize \/ ~req.paginated
  BY <1>1, <1>2, <1>3 DEF Counted
<1>6. /\ it'.returned = n /\ (it'.hasNext <=> req.paginated /\ n > PageSize)
      /\ it'.iterated <=> req.paginated /\ n = PageSize + 1
      /\ it' \in [returned : Nat, hasNext : BOOLEAN, iterated : BOOLEAN]
  BY <1>1, <1>3 DEF Watched, IsSentinel
<1> HIDE DEF n
<1>7. Counted'
  BY <1>1, <1>3, <1>4, <1>6 DEF Counted
<1>8. Kept = it.returned
  BY <1>3, <1>5 DEF Kept
<1>9. ReadAhead' /\ Passed' = Passed /\ chunk' \in Seq(Nat)
  <2>1. CASE req.paginated /\ n = PageSize + 1
    <3>1. chunk' = chunk
      BY <1>1, <2>1 DEF IsSentinel
    <3>2. Kept' = PageSize
      BY <1>1, <1>6, <2>1 DEF Kept
    <3>3. Kept' = Kept
      BY <1>3, <1>8, <2>1, <3>2
    <3> QED
      BY <1>2, <1>3, <1>4, <3>1, <3>3 DEF ReadAhead, Passed
  <2>2. CASE ~(req.paginated /\ n = PageSize + 1)
    <3>1. chunk' = Append(chunk, SliceStart + n) /\ chunk' \in Seq(Nat)
          /\ Len(chunk') = Len(chunk) + 1
      BY <1>1, <1>3, <2>2 DEF IsSentinel
    <3>2. Kept' = n /\ n = Kept + 1
      BY <1>1, <1>3, <1>5, <1>6, <1>8, <2>2 DEF Kept
    <3>3. Passed' = Passed /\ n = Passed + Len(chunk')
      BY <1>3, <3>1, <3>2 DEF Passed
    <3>4. ASSUME NEW i \in 1 .. Len(chunk')
          PROVE  chunk'[i] = SliceStart + Passed + i
      <4>1. CASE i = Len(chunk')
        BY <1>3, <3>1, <3>3, <4>1
      <4>2. CASE i # Len(chunk')
        <5>1. i \in 1 .. Len(chunk) /\ chunk'[i] = chunk[i]
          BY <1>3, <3>1, <4>2
        <5> QED
          BY <1>2, <5>1 DEF ReadAhead
      <4> QED
        BY <4>1, <4>2
    <3>5. Len(chunk') <= Kept'
      BY <1>2, <1>3, <3>1, <3>2 DEF ReadAhead
    <3> QED
      BY <1>4, <3>1, <3>3, <3>4, <3>5 DEF ReadAhead
  <2> QED
    BY <2>1, <2>2
<1>10. Collected'
  BY <1>1, <1>2, <1>4, <1>9 DEF Collected, FirstRows
<1>11. Types' /\ Phases'
  BY <1>1, <1>2, <1>6, <1>9 DEF Types, Requests, Formats, Phases, InView
<1> QED
  BY <1>1, <1>7, <1>9, <1>10, <1>11, IteratingKeeps

LEMMA ExhaustKeeps ==
  ASSUME IInv, Exhaust
  PROVE  IInv' /\ Passed' = Passed
<1>1. /\ part \in {"view", "main"} /\ step = "fill"
      /\ it.returned = SliceLength
      /\ it' = [it EXCEPT !.iterated = TRUE]
      /\ UNCHANGED <<req, total, chunk, step, ids, part, held, buffer, status, body>>
  BY DEF Exhaust, Exhausted, Reading, Filling, Wanted, rendering, response
<1>2. Types /\ Counted /\ ReadAhead /\ Collected /\ Phases
  BY <1>1 DEF IInv
<1>3. /\ it'.returned = it.returned /\ it'.hasNext = it.hasNext /\ it'.iterated
      /\ it' \in [returned : Nat, hasNext : BOOLEAN, iterated : BOOLEAN]
  BY <1>1, <1>2 DEF Types
<1>4. SliceLength' = SliceLength /\ SliceStart' = SliceStart /\ PageAccepted'
  BY <1>1, <1>2 DEF SliceLength, SliceEnd, SliceStart, Counted, PageAccepted
<1>5. Counted'
  BY <1>1, <1>2, <1>3, <1>4 DEF Counted
<1>6. Kept' = Kept /\ Passed' = Passed
  BY <1>1, <1>3 DEF Kept, Passed
<1>7. ReadAhead' /\ Collected'
  BY <1>1, <1>2, <1>4, <1>6 DEF ReadAhead, Collected, FirstRows
<1>8. Types' /\ Phases'
  BY <1>1, <1>2, <1>3, <1>6 DEF Types, Requests, Formats, Phases, InView
<1> QED
  BY <1>1, <1>3, <1>5, <1>6, <1>7, <1>8, IteratingKeeps

\* The end of a chunk and the prefetches only decide what comes next.
LEMMA StepKeeps ==
  ASSUME IInv, EndChunk \/ Prefetch
  PROVE  IInv' /\ Passed' = Passed
<1>1. /\ part \in {"view", "main"} /\ step \in {"fill", "prefetch"}
      /\ UNCHANGED <<req, total, it, chunk, ids, part, held, buffer, status, body>>
  BY DEF EndChunk, Prefetch, Filling, Wanted, rendering, response
<1>2. Counted' /\ ReadAhead' /\ Collected' /\ Passed' = Passed
  BY <1>1, StillCounted DEF IInv
<1>3. /\ step' \in {"prefetch", "serve", "stop"}
      /\ step' = "stop" => it.iterated /\ chunk = <<>>
      /\ step' \in {"prefetch", "serve"} => chunk # <<>>
  <2>1. CASE EndChunk
    <3>1. Limit \in Nat \ {0} /\ Len(<<>>) = 0
      BY DEF Limit
    <3> QED
      BY <2>1, <3>1 DEF EndChunk
  <2>2. CASE Prefetch
    BY <2>2 DEF Prefetch, IInv, Phases
  <2> QED
    BY <2>1, <2>2
<1>4. Types' /\ Phases'
  BY <1>1, <1>2, <1>3 DEF IInv, Types, Requests, Formats, Phases, InView
<1> QED
  BY <1>1, <1>2, <1>4, IteratingKeeps

\* The row that is served is the next row of the page; at the peek it is the
\* first one.
LEMMA ServeKeeps ==
  ASSUME IInv, Serve
  PROVE  IInv' /\ Passed' = Passed + 1 /\ Head(chunk) = SliceStart + Passed + 1
<1> DEFINE r == Head(chunk)
<1>1. /\ part \in {"view", "main"} /\ step = "serve" /\ held = <<>>
      /\ ids' = [e \in EmbedNames |-> IF e \in req.expand THEN ids[e] \cup Keys[e][r] ELSE ids[e]]
      /\ held' = <<r>> /\ chunk' = Tail(chunk)
      /\ step' = IF Len(chunk) = 1 THEN "fill" ELSE "serve"
      /\ UNCHANGED <<req, total, it, buffer, body>>
  BY DEF Serve, Wanted
<1>2. /\ part = "view" => part' = "head"
      /\ part = "main" => part' = "main" /\ status' = status
  BY DEF Serve, Peeked
<1>3. Types /\ Counted /\ ReadAhead /\ Collected /\ Phases
  BY <1>1 DEF IInv
<1>4. /\ SliceLength \in Nat /\ SliceStart \in Nat
      /\ Kept \in Nat /\ Passed \in Nat /\ Passed = Kept - Len(chunk)
      /\ chunk \in Seq(Nat) /\ chunk # <<>> /\ Len(chunk) \in Nat /\ Len(chunk) > 0
  BY <1>1, <1>3, SliceFacts, KeptFacts DEF Counted, Types, Phases, Passed
<1>5. SliceLength' = SliceLength /\ SliceStart' = SliceStart /\ PageAccepted' /\ Kept' = Kept
  BY <1>1, <1>3 DEF SliceLength, SliceEnd, SliceStart, Counted, PageAccepted, Kept
<1>6. r = SliceStart + Passed + 1
  <2>1. r = chunk[1] /\ 1 \in 1 .. Len(chunk)
    BY <1>4
  <2> QED
    BY <1>3, <2>1 DEF ReadAhead
<1>7. /\ chunk' \in Seq(Nat) /\ Len(chunk') = Len(chunk) - 1
      /\ \A i \in 1 .. Len(chunk') : chunk'[i] = chunk[i + 1]
  BY <1>1, <1>4
<1> HIDE DEF r
<1>8. Passed' = Passed + 1
  BY <1>4, <1>5, <1>7 DEF Passed
<1>9. Counted'
  BY <1>1, <1>3, <1>5 DEF Counted
<1>10. ReadAhead'
  <2>1. Len(chunk') <= Kept'
    BY <1>3, <1>4, <1>5, <1>7 DEF ReadAhead
  <2>2. ASSUME NEW i \in 1 .. Len(chunk')
        PROVE  chunk'[i] = SliceStart' + Passed' + i
    <3>1. chunk'[i] = chunk[i + 1] /\ i + 1 \in 1 .. Len(chunk)
      BY <1>4, <1>7
    <3>2. chunk[i + 1] = SliceStart + Passed + (i + 1)
      BY <1>3, <3>1 DEF ReadAhead
    <3> QED
      BY <1>4, <1>5, <1>8, <3>1, <3>2
  <2> QED
    BY <2>1, <2>2 DEF ReadAhead
<1>11. FirstRows(Passed + 1) = FirstRows(Passed) \cup {r}
  BY <1>4, <1>6 DEF FirstRows
<1>12. Collected'
  <2>1. req.expand \subseteq EmbedNames
    BY <1>3 DEF Types, Requests
  <2>2. ASSUME NEW e \in req.expand
        PROVE  ids'[e] = UNION {Keys[e][k] : k \in FirstRows(Passed + 1)}
    <3>1. ids'[e] = ids[e] \cup Keys[e][r]
      BY <1>1, <2>1
    <3>2. ids[e] = UNION {Keys[e][k] : k \in FirstRows(Passed)}
      BY <1>3 DEF Collected
    <3> QED
      BY <1>11, <3>1, <3>2, Zenon
  <2> QED
    BY <1>1, <1>5, <1>8, <2>2 DEF Collected, FirstRows
<1>13. chunk' = <<>> <=> Len(chunk) = 1
  <2>1. chunk' = <<>> <=> Len(chunk') = 0
    BY <1>7
  <2> QED
    BY <1>4, <1>7, <2>1
<1>14. Types' /\ Phases'
  BY <1>1, <1>2, <1>3, <1>7, <1>13 DEF Types, Requests, Formats, Phases, InView, IInv
<1>15. Output' /\ \A x : Sent(x) => Sent(x)'
  BY <1>1, SilenceKeeps DEF IInv
<1>16. StatusAfterFirstRow'
  <2>1. CASE part = "main"
    BY <1>1, <1>2, <1>15, <2>1, FirstRowStays DEF IInv
  <2>2. CASE part = "view"
    <3>1. Passed = 0
      BY <1>3, <2>2 DEF Phases
    <3>2. r = SliceStart' + 1
      BY <1>4, <1>5, <1>6, <3>1
    <3>3. held' = <<SliceStart' + 1>>
      BY <1>1, <3>2
    <3> QED
      BY <3>3 DEF StatusAfterFirstRow
  <2> QED
    BY <1>1, <2>1, <2>2
<1> QED
  BY <1>1, <1>2, <1>6, <1>8, <1>9, <1>10, <1>12, <1>14, <1>15, <1>16 DEF IInv, r

-----------------------------------------------------------------------------
\* The steps of the renderers.

\* The peek of an empty page.
LEMMA PeekNothingKeeps ==
  ASSUME IInv, PeekNothing
  PROVE  IInv'
<1>1. /\ part = "view" /\ part' = "head" /\ step = "stop"
      /\ UNCHANGED <<req, total, it, chunk, step, ids, held, buffer, body>>
  BY DEF PeekNothing, Peeked, iteration
<1>2. Output'
  BY <1>1, SilenceKeeps DEF IInv
<1>3. it.iterated /\ chunk = <<>> /\ Passed = 0
  BY <1>1 DEF IInv, Phases
<1>4. PageRows = {}
  <2>1. Kept = 0 /\ FirstRows(Kept) = PageRows /\ SliceStart \in Nat
    BY <1>1, <1>3, KeptFacts, SliceFacts DEF IInv, Counted, Passed
  <2> QED
    BY <2>1 DEF FirstRows
<1>5. StatusAfterFirstRow'
  BY <1>1, <1>3, <1>4 DEF StatusAfterFirstRow, PageRows, PageEnd, SliceStart
<1> QED
  BY <1>1, <1>2, <1>5, StillKeeps

\* A step that puts out a part.
LEMMA RenderKeeps ==
  ASSUME IInv, part \notin {"paginate", "view"},
         UNCHANGED <<req, total, it, chunk, step, ids, status>>,
         part' \in {"head", "main", "section", "embed", "footer", "end"},
         part' \in {"section", "embed", "footer", "end"} => step = "stop",
         NEW p, Emit(p),
         held' = held \/ held = <<>> \/ p = Row(Head(held))
  PROVE  IInv'
<1>1. Output' /\ Sent(p)' /\ \A x : Sent(x) => Sent(x)'
  BY EmitKeeps DEF IInv
<1>2. ASSUME NEW r, held = <<r>>, held' # held
      PROVE  Sent(Row(r))'
  <2>1. held # <<>> /\ Head(held) = r
    BY <1>2
  <2>2. p = Row(r)
    BY <1>2, <2>1
  <2> QED
    BY <1>1, <2>2
<1>3. StatusAfterFirstRow'
  BY <1>1, <1>2, FirstRowStays DEF IInv
<1> QED
  BY <1>1, <1>3, StillKeeps

\* A step that puts out nothing.
LEMMA SilentKeeps ==
  ASSUME IInv, part \notin {"paginate", "view"},
         UNCHANGED <<req, total, it, chunk, step, ids, status, held>>,
         part' \in {"head", "main", "section", "embed", "footer", "end"},
         part' \in {"section", "embed", "footer", "end"} => step = "stop",
         UNCHANGED <<buffer, body>> \/ (body' = body \o buffer /\ buffer' = <<>>)
  PROVE  IInv'
<1>1. Output' /\ \A x : Sent(x) => Sent(x)'
  BY SilenceKeeps, EndKeeps DEF IInv
<1>2. StatusAfterFirstRow'
  BY <1>1, FirstRowStays DEF IInv
<1> QED
  BY <1>1, <1>2, StillKeeps

LEMMA NextCollectionKeeps ==
  ASSUME IInv, EndMain \/ EndSection
  PROVE  IInv'
<1>1. /\ part \in {"main", "embed"} /\ step = "stop"
      /\ NextCollection
      /\ UNCHANGED <<req, total, it, chunk, step, ids, status, held>>
  BY DEF EndMain, EndSection, iteration, IInv, Phases
<1>2. CASE Later # {}
  <2>1. part' = "section" /\ Emit(Section(Embeds[Min(Later)]))
    BY <1>1, <1>2 DEF NextCollection
  <2> QED
    BY <1>1, <2>1, RenderKeeps
<1>3. CASE Later = {}
  <2>1. part' = "footer" /\ UNCHANGED <<buffer, body>>
    BY <1>1, <1>3 DEF NextCollection
  <2> QED
    BY <1>1, <2>1, SilentKeeps
<1> QED
  BY <1>2, <1>3

LEMMA RenderingKeeps ==
  ASSUME IInv, \/ RenderHead \/ RenderRow \/ OpenSection \/ RenderEmbedded
               \/ RenderFooter \/ EndStream \/ ClientGone
  PROVE  IInv'
<1>1. CASE RenderHead
  BY <1>1, RenderKeeps DEF RenderHead, iteration
<1>2. CASE RenderRow
  BY <1>2, RenderKeeps DEF RenderRow, iteration
<1>3. CASE OpenSection
  BY <1>3, SilentKeeps DEF OpenSection, iteration, response, IInv, Phases
<1>4. CASE RenderEmbedded
  BY <1>4, RenderKeeps DEF RenderEmbedded, iteration, IInv, Phases
<1>5. CASE RenderFooter
  <2>1. CASE req.format = "csv"
    BY <1>5, <2>1, SilentKeeps DEF RenderFooter, iteration, IInv, Phases
  <2>2. CASE req.format # "csv"
    BY <1>5, <2>2, RenderKeeps DEF RenderFooter, iteration, IInv, Phases
  <2> QED
    BY <2>1, <2>2
<1>6. CASE EndStream
  BY <1>6, SilentKeeps DEF EndStream, iteration, IInv, Phases
<1>7. CASE ClientGone
  <2>1. part \notin {"paginate", "view"}
        /\ UNCHANGED <<req, total, it, chunk, step, ids, held, part, status, buffer, body>>
    BY <1>7 DEF ClientGone, iteration, rendering, InView
  <2>2. part \in {"section", "embed", "footer", "end"} => step = "stop"
    BY DEF IInv, Phases
  <2>3. part' \in {"head", "main", "section", "embed", "footer", "end"}
    BY <2>1 DEF IInv, Types
  <2> QED
    BY <2>1, <2>2, <2>3, SilentKeeps
<1> QED
  BY <1>1, <1>2, <1>3, <1>4, <1>5, <1>6, <1>7

-----------------------------------------------------------------------------
\* The invariant.

LEMMA InitIInv == Init => IInv
<1> SUFFICES ASSUME Init
             PROVE  IInv
  OBVIOUS
<1>1. Types
  BY DEF Init, Types
<1>2. Fresh
  <2>1. req.expand \subseteq EmbedNames
    BY DEF Init, Requests
  <2> QED
    BY <2>1 DEF Init, Fresh
<1>3. Phases /\ StatusAfterFirstRow
  BY DEF Init, Phases, InView, StatusAfterFirstRow
<1>4. Output
  BY DEF Init, Output
<1> QED
  BY <1>1, <1>2, <1>3, <1>4 DEF Init, IInv

LEMMA StutterKeeps ==
  ASSUME IInv, UNCHANGED vars
  PROVE  IInv'
<1>1. UNCHANGED <<req, total, it, chunk, step, ids, held, part, buffer, status, body>>
  BY DEF vars, iteration, rendering, response
<1>2. /\ Types' <=> Types
      /\ Phases' <=> Phases
      /\ Fresh' <=> Fresh
  BY <1>1 DEF Types, Requests, Phases, Passed, Kept, InView, Fresh
<1>3. Output' /\ \A x : Sent(x) => Sent(x)'
  BY <1>1, SilenceKeeps DEF IInv
<1>4. StatusAfterFirstRow'
  BY <1>1, <1>3, FirstRowStays DEF IInv
<1>5. part # "paginate" => Counted' /\ ReadAhead' /\ Collected'
  BY <1>1, StillCounted DEF IInv
<1> QED
  BY <1>1, <1>2, <1>3, <1>4, <1>5 DEF IInv

LEMMA NextIInv == IInv /\ [Next]_vars => IInv'
<1> SUFFICES ASSUME IInv, [Next]_vars
             PROVE  IInv'
  OBVIOUS
<1>1. CASE AcceptPage
  BY <1>1, AcceptPageKeeps
<1>2. CASE \/ RefusePage \/ RefuseEmbeds \/ RefuseEmptyPage \/ IterationFails \/ SectionFails
  <2>1. "200" \notin PageRefusal /\ "200" \notin Errors
    BY DEF PageRefusal, Errors
  <2> QED
    BY <1>2, <2>1, RaiseKeeps
       DEF RefusePage, RefuseEmbeds, RefuseEmptyPage, IterationFails, SectionFails
<1>3. CASE ReadRow
  BY <1>3, ReadRowKeeps
<1>4. CASE Exhaust
  BY <1>4, ExhaustKeeps
<1>5. CASE EndChunk \/ Prefetch
  BY <1>5, StepKeeps
<1>6. CASE Serve
  BY <1>6, ServeKeeps
<1>7. CASE PeekNothing
  BY <1>7, PeekNothingKeeps
<1>8. CASE EndMain \/ EndSection
  BY <1>8, NextCollectionKeeps
<1>9. CASE \/ RenderHead \/ RenderRow \/ OpenSection \/ RenderEmbedded
           \/ RenderFooter \/ EndStream \/ ClientGone
  BY <1>9, RenderingKeeps
<1>10. CASE UNCHANGED vars
  BY <1>10, StutterKeeps
<1> QED
  BY <1>1, <1>2, <1>3, <1>4, <1>5, <1>6, <1>7, <1>8, <1>9, <1>10 DEF Next, Work

THEOREM Invariance == Spec => []IInv
<1>1. Init => IInv
  BY InitIInv
<1>2. IInv /\ [Next]_vars => IInv'
  BY NextIInv
<1> QED
  BY <1>1, <1>2, PTL DEF Spec

\* The links of the footer are asked for when the rows are counted.
LEMMA FooterAnswer == IInv => FooterKnows
<1> SUFFICES ASSUME IInv, part \in {"footer", "end"}
             PROVE  it.iterated /\ (NextLink <=> MoreRows)
  BY DEF FooterKnows
<1>1. it.iterated /\ Counted
  BY DEF IInv, Phases
<1>2. it.hasNext <=> req.paginated /\ SliceLength > PageSize
  BY <1>1 DEF Counted
<1>3. MoreRows <=> req.paginated /\ SliceLength > PageSize
  BY <1>1, SliceFacts DEF IInv, Counted
<1> QED
  BY <1>1, <1>2, <1>3 DEF NextLink

\* The rows that pass the observers are those of the page.
LEMMA SectionKeys == IInv => EmbedsMatchPage
<1> SUFFICES ASSUME IInv, NEW e \in req.expand
             PROVE  /\ ids[e] \subseteq PageKeys(e)
                    /\ part \in {"section", "embed"} => ids[e] = PageKeys(e)
  BY DEF EmbedsMatchPage
<1>1. CASE part = "paginate"
  BY <1>1 DEF IInv, Fresh
<1>2. CASE part # "paginate"
  <2>1. ids[e] = UNION {Keys[e][r] : r \in FirstRows(Passed)}
    BY <1>2 DEF IInv, Collected
  <2>2. FirstRows(Passed) \subseteq PageRows /\ (it.iterated => FirstRows(Kept) = PageRows)
    BY <1>2, KeptFacts DEF IInv
  <2>3. part \in {"section", "embed"} => FirstRows(Passed) = PageRows
    <3> SUFFICES ASSUME part \in {"section", "embed"}
                 PROVE  FirstRows(Passed) = PageRows
      OBVIOUS
    <3>1. it.iterated /\ chunk = <<>>
      BY DEF IInv, Phases
    <3>2. Kept \in Nat
      BY <1>2, KeptFacts DEF IInv
    <3>3. Passed = Kept
      BY <3>1, <3>2 DEF Passed
    <3> QED
      BY <2>2, <3>1, <3>3
  <2> QED
    BY <2>1, <2>2, <2>3, Zenon DEF PageKeys
<1> QED
  BY <1>1, <1>2

\* For every page: when the footer is rendered the iterator has come to its
\* end, and its next link is there exactly when the data has more rows than
\* the page shows (DSOPage.has_next, which answers from the sentinel row).
THEOREM FooterKnowsHolds == Spec => []FooterKnows
BY FooterAnswer, Invariance, PTL

\* For every page: an embedded section is asked for the keys of exactly the
\* rows of the page, never for that of the sentinel (EmbeddedResultSet as an
\* observer of the rows that were returned).
THEOREM EmbedsMatchPageHolds == Spec => []EmbedsMatchPage
BY SectionKeys, Invariance, PTL

\* For every page, chunk and buffer: status 200 is only sent once the first
\* row went through the database and the serializer, or there is no row at
\* all; from then on that row is in hand or put out (peek_iterable).
THEOREM StatusAfterFirstRowHolds == Spec => []StatusAfterFirstRow
<1>1. IInv => StatusAfterFirstRow
  BY DEF IInv
<1> QED
  BY <1>1, Invariance, PTL

-----------------------------------------------------------------------------
\* The type of what is rendered.

\* A set of answers of the join that is not empty has a first one.
LEMMA FirstAnswer ==
  ASSUME NEW A \in SUBSET (Nat \X Nat), A # {}
  PROVE  \E m \in A : \A j \in A \ {m} : Precedes(m, j)
<1>1. ASSUME NEW j \in A
      PROVE  j[1] \in Nat /\ j[2] \in Nat /\ j = <<j[1], j[2]>>
  <2>1. \E a, b \in Nat : j = <<a, b>>
    OBVIOUS
  <2> QED
    BY <2>1
<1>2. PICK y \in {j[2] : j \in A} : \A z \in {j[2] : j \in A} : y <= z
  <2>1. {j[2] : j \in A} # {} /\ {j[2] : j \in A} \subseteq Nat
    BY <1>1
  <2> QED
    BY <2>1, LeastElement
<1> DEFINE B == {j \in A : j[2] = y}
<1>3. PICK x \in {j[1] : j \in B} : \A z \in {j[1] : j \in B} : x <= z
  <2>1. {j[1] : j \in B} # {} /\ {j[1] : j \in B} \subseteq Nat
    BY <1>1, <1>2
  <2> QED
    BY <2>1, LeastElement
<1>4. <<x, y>> \in A
  BY <1>1, <1>3
<1>5. ASSUME NEW j \in A \ {<<x, y>>}
      PROVE  Precedes(<<x, y>>, j)
  <2>1. j[2] \in Nat /\ y \in Nat /\ y <= j[2] /\ j[1] \in Nat /\ x \in Nat
    BY <1>1, <1>2, <1>4
  <2>2. CASE j[2] = y
    <3>1. x <= j[1] /\ j[1] # x
      BY <1>1, <1>3, <2>2
    <3> QED
      BY <2>1, <2>2, <3>1 DEF Precedes
  <2>3. CASE j[2] # y
    BY <2>1, <2>3 DEF Precedes
  <2> QED
    BY <2>2, <2>3
<1> QED
  BY <1>4, <1>5

\* Every place in the order of the answers is taken by one of them.
LEMMA Ranks ==
  ASSUME NEW A \in SUBSET (Nat \X Nat), IsFiniteSet(A), NEW i \in 1 .. Cardinality(A)
  PROVE  \E j \in A : Cardinality(Before(j, A)) = i - 1
<1> DEFINE Ranked(S) ==
             \A x \in 1 .. Cardinality(S) :
               \E j \in S : Cardinality(Before(j, S)) = x - 1
           T == {n \in Nat : \A S \in SUBSET (Nat \X Nat) :
                               IsFiniteSet(S) /\ Cardinality(S) = n => Ranked(S)}
<1>1. 0 \in T
  OBVIOUS
<1>2. ASSUME NEW n \in Nat, n \in T
      PROVE  n + 1 \in T
  <2> SUFFICES ASSUME NEW S \in SUBSET (Nat \X Nat), IsFiniteSet(S), Cardinality(S) = n + 1
               PROVE  Ranked(S)
    <3> HIDE DEF Ranked
    <3> QED
      OBVIOUS
  <2> SUFFICES ASSUME NEW x \in 1 .. n + 1
               PROVE  \E j \in S : Cardinality(Before(j, S)) = x - 1
    OBVIOUS
  <2>1. S # {}
    BY FS_EmptySet
  <2>2. PICK m \in S : \A j \in S \ {m} : Precedes(m, j)
    BY <2>1, FirstAnswer
  <2>3. IsFiniteSet(S \ {m}) /\ Cardinality(S \ {m}) = n
    <3>1. Cardinality(S \ {m}) = Cardinality(S) - 1
      BY FS_RemoveElement
    <3> QED
      BY <3>1, FS_RemoveElement
  <2>4. \A a, b \in S : ~(Precedes(a, b) /\ Precedes(b, a)) /\ ~Precedes(a, a)
    <3> SUFFICES ASSUME NEW a \in S, NEW b \in S
                 PROVE  ~(Precedes(a, b) /\ Precedes(b, a)) /\ ~Precedes(a, a)
      OBVIOUS
    <3>1. a[1] \in Nat /\ a[2] \in Nat /\ b[1] \in Nat /\ b[2] \in Nat
      OBVIOUS
    <3> QED
      BY <3>1 DEF Precedes
  <2>5. CASE x = 1
    <3>1. Before(m, S) = {}
      BY <2>2, <2>4 DEF Before
    <3> QED
      BY <2>5, <3>1, FS_EmptySet
  <2>6. CASE x # 1
    <3>1. x - 1 \in 1 .. n
      BY <2>6
    <3>2. Ranked(S \ {m})
      BY <1>2, <2>3
    <3>3. PICK j \in S \ {m} : Cardinality(Before(j, S \ {m})) = x - 1 - 1
      BY <2>3, <3>1, <3>2
    <3>4. Before(j, S) = Before(j, S \ {m}) \cup {m} /\ m \notin Before(j, S \ {m})
      BY <2>2 DEF Before
    <3>5. IsFiniteSet(Before(j, S \ {m}))
      BY <2>3, FS_Subset DEF Before
    <3>6. Cardinality(Before(j, S)) = x - 1
      <4> DEFINE B == Before(j, S \ {m})
      <4>1. IsFiniteSet(B) /\ m \notin B /\ Before(j, S) = B \cup {m} /\ Cardinality(B) = x - 1 - 1
        BY <3>3, <3>4, <3>5
      <4> HIDE DEF B
      <4>2. Cardinality(B \cup {m}) = Cardinality(B) + 1
        BY <4>1, FS_AddElement
      <4> QED
        BY <4>1, <4>2
    <3> QED
      BY <3>4, <3>6
  <2> QED
    BY <2>5, <2>6
<1>3. Cardinality(A) \in Nat
  BY FS_CardinalityType
<1> HIDE DEF T
<1>4. Cardinality(A) \in T
  BY <1>1, <1>2, <1>3, Induction
<1> QED
  BY <1>4 DEF T

JoinedObjects(e) == {j[2] : j \in Joined[e]}

\* A section shows objects that the join returned.
LEMMA ObjectsType ==
  ASSUME NEW e \in EmbedNames, NEW keys
  PROVE  Objects(e, keys) \in Seq(JoinedObjects(e))
<1> DEFINE A == {j \in Joined[e] : j[1] \in keys}
           At(i) == CHOOSE j \in A : Cardinality(Before(j, A)) = i - 1
<1>1. A \in SUBSET (Nat \X Nat) /\ IsFiniteSet(A) /\ Cardinality(A) \in Nat
  <2>1. Joined[e] \subseteq Nat \X Nat /\ IsFiniteSet(Joined[e])
    BY EmbedsAssumption
  <2> QED
    BY <2>1, FS_Subset, FS_CardinalityType
<1>2. ASSUME NEW i \in 1 .. Cardinality(A)
      PROVE  At(i) \in A
  <2>1. \E j \in A : Cardinality(Before(j, A)) = i - 1
    <3> HIDE DEF A
    <3> QED
      BY <1>1, Ranks
  <2> QED
    BY <2>1
<1>3. A \subseteq Joined[e]
  OBVIOUS
<1>4. Objects(e, keys) = [i \in 1 .. Cardinality(A) |-> At(i)[2]]
  BY DEF Objects
<1> HIDE DEF A, At
<1>5. \A i \in 1 .. Cardinality(A) : At(i)[2] \in JoinedObjects(e)
  BY <1>2, <1>3 DEF JoinedObjects
<1> QED
  BY <1>1, <1>4, <1>5

\* What is rendered, and what is kept for it.
RenderTypes ==
  /\ ids \in [EmbedNames -> SUBSET Nat]
  /\ held \in {<<>>} \cup {<<r>> : r \in 1 .. MaxRows}
  /\ nr \in 0 .. Len(Embeds)
  /\ found \in Seq(Nat)
  /\ buffer \in Seq(Parts)
  /\ status \in {"none", "200", "404"} \cup Errors
  /\ body \in Seq(Parts)
  /\ ended \in {"no", "complete", "aborted", "closed"}

\* The section in hand was asked for, and shows objects of its own field.
Placed ==
  /\ part \in {"section", "embed"} => nr \in 1 .. Len(Embeds) /\ Embeds[nr] \in req.expand
  /\ part = "embed" => found \in Seq(JoinedObjects(Embeds[nr]))

TInv == IInv /\ total \in 0 .. MaxRows /\ RenderTypes /\ Placed

LEMMA RowTypes ==
  ASSUME IInv, total \in 0 .. MaxRows
  PROVE  it.returned \in 0 .. MaxRows /\ chunk \in Seq(1 .. MaxRows)
<1>1. CASE part = "paginate"
  BY <1>1 DEF IInv, Fresh
<1>2. CASE part # "paginate"
  <2>1. /\ SliceStart \in Nat /\ SliceLength \in Nat /\ Kept \in Nat /\ Passed \in Nat
        /\ Passed = Kept - Len(chunk) /\ Kept <= it.returned
        /\ it.returned \in Nat /\ it.returned <= SliceLength /\ chunk \in Seq(Nat)
    BY <1>2, SliceFacts, KeptFacts DEF IInv, Types, Counted, Passed, Kept
  <2>2. SliceEnd <= total /\ SliceEnd \in Int
    BY <2>1 DEF SliceEnd
  <2>3. SliceLength # 0 => SliceStart + SliceLength <= MaxRows
    BY <2>1, <2>2 DEF SliceLength
  <2>4. ASSUME NEW i \in 1 .. Len(chunk)
        PROVE  chunk[i] \in 1 .. MaxRows
    <3>1. chunk[i] = SliceStart + Passed + i
      BY <1>2 DEF IInv, ReadAhead
    <3> QED
      BY <2>1, <2>3, <3>1
  <2> QED
    BY <2>1, <2>3, <2>4
<1> QED
  BY <1>1, <1>2

LEMMA TInvTypes == TInv => TypeOK
BY RowTypes DEF TInv, IInv, Types, RenderTypes, TypeOK

LEMMA PartTypes ==
  /\ Head0 \in Parts /\ Marker \in Parts
  /\ \A r \in 1 .. MaxRows : Row(r) \in Parts
  /\ \A e \in EmbedNames : Section(e) \in Parts
  /\ \A e \in EmbedNames : \A o \in JoinedObjects(e) : Embedded(e, o) \in Parts
  /\ \A n, p \in BOOLEAN : Footer(n, p) \in Parts
<1>1. /\ Head0 \in Parts /\ Marker \in Parts
      /\ \A r \in 1 .. MaxRows : Row(r) \in Parts
      /\ \A e \in EmbedNames : Section(e) \in Parts
  BY DEF Parts
<1>2. ASSUME NEW e \in EmbedNames, NEW o \in JoinedObjects(e)
      PROVE  Embedded(e, o) \in Parts
  <2>1. PICK j \in Joined[e] : o = j[2]
    BY DEF JoinedObjects
  <2> DEFINE Shown(f) == {Embedded(f, k[2]) : k \in Joined[f]}
  <2>2. Embedded(e, o) \in Shown(e)
    BY <2>1
  <2>3. Shown(e) \in {Shown(f) : f \in EmbedNames}
    OBVIOUS
  <2>4. Embedded(e, o) \in UNION {Shown(f) : f \in EmbedNames}
    BY <2>2, <2>3, Zenon
  <2> DEFINE All == UNION {Shown(f) : f \in EmbedNames}
  <2>5. Parts = {Head0, Marker} \cup {Row(r) : r \in 1 .. MaxRows}
                  \cup {Section(f) : f \in EmbedNames} \cup All
                  \cup {Footer(n, p) : n, p \in BOOLEAN}
    BY DEF Parts
  <2> HIDE DEF All, Shown
  <2> QED
    BY <2>4, <2>5 DEF All
<1>3. \A n, p \in BOOLEAN : Footer(n, p) \in Parts
  BY DEF Parts
<1> QED
  BY <1>1, <1>2, <1>3

LEMMA EmitTypes ==
  ASSUME buffer \in Seq(Parts), body \in Seq(Parts), NEW p \in Parts, Emit(p)
  PROVE  buffer' \in Seq(Parts) /\ body' \in Seq(Parts)
<1>1. Append(body \o buffer, p) \in Seq(Parts) /\ Append(buffer, p) \in Seq(Parts)
  <2>1. body \o buffer \in Seq(Parts)
    OBVIOUS
  <2> QED
    BY <2>1
<1>2. <<>> \in Seq(Parts)
  OBVIOUS
<1> QED
  BY <1>1, <1>2 DEF Emit

LEMMA RaiseTypes ==
  ASSUME TInv, IInv', NEW S \in SUBSET ({"404"} \cup Errors), Raise(S)
  PROVE  TInv'
<1>1. UNCHANGED <<req, total, ids, held, part, nr, found>>
  BY DEF Raise, iteration
<1>2. /\ status' \in {"none", "200", "404"} \cup Errors
      /\ ended' \in {"no", "complete", "aborted", "closed"}
      /\ buffer' \in Seq(Parts) /\ body' \in Seq(Parts)
  <2>1. CASE InView
    BY <2>1 DEF Raise, Refuse, TInv, RenderTypes
  <2>2. CASE ~InView
    <3>1. Append(body \o buffer, Marker) \in Seq(Parts) /\ <<>> \in Seq(Parts)
      <4>1. body \o buffer \in Seq(Parts)
        BY DEF TInv, RenderTypes
      <4> QED
        BY <4>1, PartTypes
    <3> QED
      BY <2>2, <3>1 DEF Raise, Abort, TInv, RenderTypes
  <2> QED
    BY <2>1, <2>2
<1> QED
  BY <1>1, <1>2 DEF TInv, RenderTypes, Placed

\* The steps of the iterators put out nothing.
LEMMA IteratingTypes ==
  ASSUME TInv, IInv', AcceptPage \/ ReadRow \/ Exhaust \/ EndChunk \/ Prefetch
  PROVE  TInv'
<1>1. /\ UNCHANGED <<req, total, ids, held, nr, found, buffer, status, body, ended>>
      /\ part' \notin {"section", "embed"}
  BY DEF AcceptPage, ReadRow, Exhaust, EndChunk, Prefetch, Exhausted, Reading, Filling, Wanted,
         iteration, rendering, response
<1> QED
  BY <1>1 DEF TInv, RenderTypes, Placed

LEMMA ServeTypes ==
  ASSUME TInv, IInv', Serve
  PROVE  TInv'
<1> DEFINE r == Head(chunk)
<1>1. /\ UNCHANGED <<req, total, nr, found, buffer, body, ended>>
      /\ held' = <<r>> /\ part' \notin {"section", "embed"}
      /\ ids' = [e \in EmbedNames |-> IF e \in req.expand THEN ids[e] \cup Keys[e][r] ELSE ids[e]]
      /\ status' = "200" \/ status' = status
  BY DEF Serve, Wanted, Peeked
<1>2. r \in 1 .. MaxRows
  <2>1. chunk \in Seq(1 .. MaxRows) /\ chunk # <<>>
    BY RowTypes DEF TInv, IInv, Phases, Serve
  <2> QED
    BY <2>1
<1> HIDE DEF r
<1>3. ids' \in [EmbedNames -> SUBSET Nat]
  <2>1. \A e \in EmbedNames : Keys[e][r] \subseteq Nat
    BY <1>2, EmbedsAssumption
  <2>2. \A e \in EmbedNames : ids[e] \subseteq Nat
    BY DEF TInv, RenderTypes
  <2> QED
    BY <1>1, <2>1, <2>2
<1> QED
  BY <1>1, <1>2, <1>3 DEF TInv, RenderTypes, Placed

LEMMA MinLater ==
  ASSUME nr \in 0 .. Len(Embeds), Later # {}
  PROVE  /\ Min(Later) \in Later /\ Min(Later) \in nr + 1 .. Len(Embeds)
         /\ \A i \in nr + 1 .. Min(Later) - 1 : Embeds[i] \notin req.expand
<1>1. Len(Embeds) \in Nat
  BY EmbedsAssumption
<1>2. Later \subseteq Nat /\ Later \subseteq nr + 1 .. Len(Embeds)
  BY <1>1 DEF Later
<1>3. \E x \in Later : \A y \in Later : x <= y
  BY <1>2, LeastElement
<1>4. Min(Later) \in Later /\ \A y \in Later : Min(Later) <= y
  BY <1>3 DEF Min
<1>5. ASSUME NEW i \in nr + 1 .. Min(Later) - 1
      PROVE  Embeds[i] \notin req.expand
  <2>1. Min(Later) \in nr + 1 .. Len(Embeds)
    BY <1>2, <1>4
  <2>2. i \in nr + 1 .. Len(Embeds) /\ ~(Min(Later) <= i)
    BY <1>1, <2>1
  <2>3. i \notin Later
    BY <1>4, <2>2
  <2> QED
    BY <2>2, <2>3 DEF Later
<1> QED
  BY <1>2, <1>4, <1>5

LEMMA NextCollectionTypes ==
  ASSUME TInv, IInv', EndMain \/ EndSection
  PROVE  TInv'
<1>1. NextCollection /\ UNCHANGED <<req, total, ids, held, found, status, ended>>
  BY DEF EndMain, EndSection, iteration
<1>2. CASE Later # {}
  <2>1. Min(Later) \in Later /\ Min(Later) \in nr + 1 .. Len(Embeds)
    BY <1>2, MinLater DEF TInv, RenderTypes
  <2>2. Min(Later) \in 1 .. Len(Embeds) /\ Embeds[Min(Later)] \in req.expand
    BY <2>1 DEF Later, TInv, RenderTypes
  <2>3. Section(Embeds[Min(Later)]) \in Parts
    BY <2>2, PartTypes DEF EmbedNames
  <2>4. part' = "section" /\ nr' = Min(Later) /\ Emit(Section(Embeds[Min(Later)]))
    BY <1>1, <1>2 DEF NextCollection
  <2>5. buffer' \in Seq(Parts) /\ body' \in Seq(Parts)
    BY <2>3, <2>4, EmitTypes DEF TInv, RenderTypes
  <2> QED
    BY <1>1, <2>2, <2>4, <2>5 DEF TInv, RenderTypes, Placed
<1>3. CASE Later = {}
  <2>1. part' = "footer" /\ UNCHANGED <<nr, buffer, body>>
    BY <1>1, <1>3 DEF NextCollection
  <2> QED
    BY <1>1, <2>1 DEF TInv, RenderTypes, Placed
<1> QED
  BY <1>2, <1>3

\* A step that puts out one part and moves to no other section.
LEMMA EmitKeepsTypes ==
  ASSUME TInv, IInv', NEW p \in Parts, Emit(p),
         UNCHANGED <<req, total, ids, nr, status, ended>>,
         held' \in {held, <<>>},
         part' = part \/ part' \notin {"section", "embed"},
         found' = found \/ (part = "embed" /\ found # <<>> /\ found' = Tail(found))
  PROVE  TInv'
<1>1. buffer' \in Seq(Parts) /\ body' \in Seq(Parts)
  BY EmitTypes DEF TInv, RenderTypes
<1>2. found' \in Seq(Nat)
  <2>1. found \in Seq(Nat)
    BY DEF TInv, RenderTypes
  <2>2. found # <<>> => Tail(found) \in Seq(Nat)
    BY <2>1
  <2> QED
    BY <2>1, <2>2
<1>3. part' = "embed" => found' \in Seq(JoinedObjects(Embeds[nr]))
  <2> SUFFICES ASSUME part' = "embed"
               PROVE  found' \in Seq(JoinedObjects(Embeds[nr]))
    OBVIOUS
  <2>1. found \in Seq(JoinedObjects(Embeds[nr]))
    BY DEF TInv, Placed
  <2>2. found # <<>> => Tail(found) \in Seq(JoinedObjects(Embeds[nr]))
    BY <2>1
  <2> QED
    BY <2>1, <2>2
<1> QED
  BY <1>1, <1>2, <1>3 DEF TInv, RenderTypes, Placed

LEMMA FooterTypes ==
  ASSUME Types, PageAccepted
  PROVE  NextLink \in BOOLEAN /\ PreviousLink \in BOOLEAN
<1>1. req.paginated \in BOOLEAN /\ (req.paginated => req.page \in Nat)
  BY DEF Types, Requests, PageAccepted
<1> QED
  BY <1>1 DEF Types, NextLink, PreviousLink

LEMMA RenderingTypes ==
  ASSUME TInv, IInv', \/ RenderHead \/ RenderRow \/ OpenSection \/ RenderEmbedded
                      \/ RenderFooter \/ EndStream \/ ClientGone \/ PeekNothing
  PROVE  TInv'
<1>1. CASE RenderHead
  BY <1>1, PartTypes, EmitKeepsTypes DEF RenderHead, iteration
<1>2. CASE RenderRow
  <2>1. Row(Head(held)) \in Parts
    <3>1. PICK r \in 1 .. MaxRows : held = <<r>>
      BY <1>2 DEF RenderRow, TInv, RenderTypes
    <3>2. Head(held) = r
      BY <3>1
    <3> QED
      BY <3>2, PartTypes
  <2> QED
    BY <1>2, <2>1, EmitKeepsTypes DEF RenderRow, iteration
<1>3. CASE OpenSection
  <2>1. /\ found' = Objects(Embeds[nr], ids[Embeds[nr]]) /\ part = "section" /\ part' = "embed"
        /\ UNCHANGED <<req, total, ids, held, nr, buffer, status, body, ended>>
    BY <1>3 DEF OpenSection, iteration, response
  <2>2. nr \in 1 .. Len(Embeds) /\ Embeds[nr] \in EmbedNames
    BY <2>1 DEF TInv, Placed, EmbedNames
  <2>3. found' \in Seq(JoinedObjects(Embeds[nr]))
    BY <2>1, <2>2, ObjectsType
  <2>4. JoinedObjects(Embeds[nr]) \subseteq Nat
    <3>1. Joined[Embeds[nr]] \subseteq Nat \X Nat
      BY <2>2, EmbedsAssumption
    <3> QED
      BY <3>1 DEF JoinedObjects
  <2>5. found' \in Seq(Nat)
    BY <2>3, <2>4
  <2> QED
    BY <2>1, <2>2, <2>3, <2>5 DEF TInv, RenderTypes, Placed
<1>4. CASE RenderEmbedded
  <2>1. /\ Emit(Embedded(Embeds[nr], Head(found)))
        /\ part = "embed" /\ found # <<>> /\ found' = Tail(found)
        /\ UNCHANGED <<req, total, ids, held, part, nr, status, ended>>
    BY <1>4 DEF RenderEmbedded, iteration
  <2>2. /\ nr \in 1 .. Len(Embeds) /\ Embeds[nr] \in EmbedNames
        /\ Head(found) \in JoinedObjects(Embeds[nr])
    BY <2>1 DEF TInv, Placed, EmbedNames
  <2>3. Embedded(Embeds[nr], Head(found)) \in Parts
    BY <2>2, PartTypes
  <2> QED
    BY <2>1, <2>3, EmitKeepsTypes
<1>5. CASE RenderFooter
  <2>1. /\ part' = "end"
        /\ UNCHANGED <<req, total, ids, held, nr, found, status, ended>>
        /\ UNCHANGED <<buffer, body>> \/ Emit(Footer(NextLink, PreviousLink))
    BY <1>5 DEF RenderFooter, iteration
  <2>2. Footer(NextLink, PreviousLink) \in Parts
    BY <1>5, FooterTypes, PartTypes DEF RenderFooter, TInv, IInv, Counted
  <2>3. CASE UNCHANGED <<buffer, body>>
    BY <2>1, <2>3 DEF TInv, RenderTypes, Placed
  <2> QED
    BY <2>1, <2>2, <2>3, EmitKeepsTypes
<1>6. CASE EndStream
  <2>1. body \o buffer \in Seq(Parts)
    BY DEF TInv, RenderTypes
  <2> QED
    BY <1>6, <2>1 DEF EndStream, iteration, TInv, RenderTypes, Placed
<1>7. CASE ClientGone
  BY <1>7 DEF ClientGone, iteration, rendering, TInv, RenderTypes, Placed
<1>8. CASE PeekNothing
  BY <1>8 DEF PeekNothing, Peeked, iteration, TInv, RenderTypes, Placed
<1> QED
  BY <1>1, <1>2, <1>3, <1>4, <1>5, <1>6, <1>7, <1>8

LEMMA InitTInv == Init => TInv
<1> SUFFICES ASSUME Init
             PROVE  TInv
  OBVIOUS
<1>1. IInv
  BY InitIInv
<1>2. RenderTypes
  BY EmbedsAssumption DEF Init, RenderTypes
<1> QED
  BY <1>1, <1>2 DEF Init, TInv, Placed

LEMMA NextTInv == TInv /\ [Next]_vars => TInv'
<1> SUFFICES ASSUME TInv, [Next]_vars
             PROVE  TInv'
  OBVIOUS
<1>1. IInv'
  BY NextIInv DEF TInv
<1>2. CASE AcceptPage \/ ReadRow \/ Exhaust \/ EndChunk \/ Prefetch
  BY <1>1, <1>2, IteratingTypes
<1>3. CASE \/ RefusePage \/ RefuseEmbeds \/ RefuseEmptyPage \/ IterationFails \/ SectionFails
  <2>1. PageRefusal \subseteq {"404"} \cup Errors
    BY DEF PageRefusal, Errors
  <2>2. {"400"} \subseteq {"404"} \cup Errors
    BY DEF Errors
  <2> QED
    BY <1>1, <1>3, <2>1, <2>2, RaiseTypes
       DEF RefusePage, RefuseEmbeds, RefuseEmptyPage, IterationFails, SectionFails
<1>4. CASE Serve
  BY <1>1, <1>4, ServeTypes
<1>5. CASE EndMain \/ EndSection
  BY <1>1, <1>5, NextCollectionTypes
<1>6. CASE \/ RenderHead \/ RenderRow \/ OpenSection \/ RenderEmbedded
           \/ RenderFooter \/ EndStream \/ ClientGone \/ PeekNothing
  BY <1>1, <1>6, RenderingTypes
<1>7. CASE UNCHANGED vars
  BY <1>1, <1>7 DEF vars, iteration, rendering, response, TInv, RenderTypes, Placed
<1> QED
  BY <1>2, <1>3, <1>4, <1>5, <1>6, <1>7 DEF Next, Work

THEOREM TypeInvariance == Spec => []TInv
<1>1. Init => TInv
  BY InitTInv
<1>2. TInv /\ [Next]_vars => TInv'
  BY NextTInv
<1> QED
  BY <1>1, <1>2, PTL DEF Spec

\* For every list and every join: every variable keeps its type, and only rows
\* and objects that exist are put in the response.
THEOREM TypeCorrect == Spec => []TypeOK
BY TInvTypes, TypeInvariance, PTL

-----------------------------------------------------------------------------
\* Memory: what was read and is not yet sent is in the chunk, in hand or in the
\* buffer.

RowsAt(s) == {i \in DOMAIN s : s[i].kind = "row"}

\* Passed counts the rows that left the chunk: they are put out or in hand. The
\* chunk, the row in hand and the sentinel together are never more than one chunk.
Memory ==
  /\ Len(buffer) <= BufferSize
  /\ part # "paginate" => Passed <= Cardinality(RowsAt(body \o buffer)) + Len(held)
  /\ Len(chunk) + Len(held) + (it.returned - Kept) <= Limit

MInv == TInv /\ Memory

LEMMA RowsAreFinite ==
  ASSUME NEW S, NEW s \in Seq(S)
  PROVE  /\ RowsAt(s) \subseteq 1 .. Len(s)
         /\ IsFiniteSet(RowsAt(s)) /\ Cardinality(RowsAt(s)) \in Nat
<1>1. RowsAt(s) \subseteq 1 .. Len(s) /\ Len(s) \in Nat
  BY DEF RowsAt
<1>2. IsFiniteSet(1 .. Len(s))
  BY <1>1, FS_Interval
<1> QED
  BY <1>1, <1>2, FS_Subset, FS_CardinalityType

LEMMA RowsGrow ==
  ASSUME NEW S, NEW s \in Seq(S), NEW p \in S
  PROVE  LET n == Cardinality(RowsAt(s))
             m == Cardinality(RowsAt(Append(s, p)))
         IN  n \in Nat /\ m \in Nat /\ n <= m /\ (p.kind = "row" => n + 1 <= m)
<1> DEFINE A == RowsAt(s)
           B == RowsAt(Append(s, p))
<1>1. Append(s, p) \in Seq(S) /\ Len(Append(s, p)) = Len(s) + 1 /\ Len(s) \in Nat
  OBVIOUS
<1>2. IsFiniteSet(A) /\ IsFiniteSet(B) /\ Cardinality(A) \in Nat /\ Cardinality(B) \in Nat
  BY <1>1, RowsAreFinite
<1>3. A \subseteq B /\ A \subseteq 1 .. Len(s) /\ (p.kind = "row" => Len(s) + 1 \in B)
  BY DEF RowsAt
<1> HIDE DEF A, B
<1>4. Cardinality(A) <= Cardinality(B)
  BY <1>2, <1>3, FS_Subset
<1>5. ASSUME p.kind = "row"
      PROVE  Cardinality(A) + 1 <= Cardinality(B)
  <2>1. A \cup {Len(s) + 1} \subseteq B /\ Len(s) + 1 \notin A
    <3>1. Len(s) + 1 \notin 1 .. Len(s)
      BY <1>1
    <3> QED
      BY <1>3, <1>5, <3>1, Zenon
  <2>2. Cardinality(A \cup {Len(s) + 1}) = Cardinality(A) + 1
    BY <1>2, <2>1, FS_AddElement
  <2>3. Cardinality(A \cup {Len(s) + 1}) <= Cardinality(B)
    BY <1>2, <2>1, FS_Subset
  <2> QED
    BY <2>2, <2>3
<1> QED
  BY <1>2, <1>4, <1>5 DEF A, B

LEMMA RowsSplit ==
  ASSUME NEW S, NEW s \in Seq(S), NEW t \in Seq(S)
  PROVE  /\ Cardinality(RowsAt(s \o t)) <= Cardinality(RowsAt(s)) + Len(t)
         /\ Cardinality(RowsAt(s)) \in Nat /\ Cardinality(RowsAt(s \o t)) \in Nat
<1> DEFINE A == RowsAt(s)
           B == Len(s) + 1 .. Len(s) + Len(t)
<1>1. s \o t \in Seq(S) /\ Len(s) \in Nat /\ Len(t) \in Nat
  OBVIOUS
<1>2. IsFiniteSet(A) /\ Cardinality(A) \in Nat /\ Cardinality(RowsAt(s \o t)) \in Nat
  BY <1>1, RowsAreFinite
<1>3. IsFiniteSet(B) /\ Cardinality(B) = Len(t)
  <2> DEFINE a == Len(s) + 1
             b == Len(s) + Len(t)
  <2>1. a \in Int /\ b \in Int /\ (IF a > b THEN 0 ELSE b - a + 1) = Len(t)
    BY <1>1
  <2> HIDE DEF a, b
  <2>2. IsFiniteSet(a .. b) /\ Cardinality(a .. b) = IF a > b THEN 0 ELSE b - a + 1
    BY <2>1, FS_Interval
  <2> QED
    BY <2>1, <2>2 DEF a, b
<1>4. RowsAt(s \o t) \subseteq A \cup B
  BY DEF RowsAt
<1> HIDE DEF A, B
<1>5. IsFiniteSet(A \cup B) /\ IsFiniteSet(A \cap B)
      /\ Cardinality(A \cup B) = Cardinality(A) + Cardinality(B) - Cardinality(A \cap B)
  BY <1>2, <1>3, FS_Union, FS_Intersection
<1>6. Cardinality(A \cap B) \in Nat
  BY <1>5, FS_CardinalityType
<1>7. Cardinality(RowsAt(s \o t)) <= Cardinality(A \cup B)
  BY <1>4, <1>5, FS_Subset
<1> QED
  BY <1>1, <1>2, <1>3, <1>5, <1>6, <1>7 DEF A

\* What is put out goes behind what was put out before.
LEMMA EmitAppends ==
  ASSUME buffer \in Seq(Parts), body \in Seq(Parts), NEW p \in Parts, Emit(p)
  PROVE  /\ (body \o buffer)' = Append(body \o buffer, p)
         /\ Len(buffer) <= BufferSize => Len(buffer') <= BufferSize
<1>1. CASE Len(buffer) + 1 > BufferSize
  <2>1. body' = Append(body \o buffer, p) /\ buffer' = <<>>
    BY <1>1 DEF Emit
  <2>2. (body \o buffer)' = Append(body \o buffer, p)
    BY <2>1, AppendToBoth
  <2> QED
    BY <2>1, <2>2
<1>2. CASE ~(Len(buffer) + 1 > BufferSize)
  <2>1. body' = body /\ buffer' = Append(buffer, p)
    BY <1>2 DEF Emit
  <2>2. (body \o buffer)' = Append(body \o buffer, p)
    BY <2>1, AppendToBoth
  <2> QED
    BY <1>2, <2>1, <2>2
<1> QED
  BY <1>1, <1>2

\* A step that reads nothing, and puts out p or nothing.
LEMMA StillBounded ==
  ASSUME MInv, TInv', UNCHANGED <<req, it, chunk>>, part # "paginate",
         \/ UNCHANGED <<held, body, buffer>>
         \/ UNCHANGED held /\ body' = body \o buffer /\ buffer' = <<>>
         \/ \E p \in Parts : /\ Emit(p)
                             /\ \/ UNCHANGED held
                                \/ p.kind = "row" /\ held' = <<>>
  PROVE  MInv'
<1> DEFINE n == Cardinality(RowsAt(body \o buffer))
<1>1. buffer \in Seq(Parts) /\ body \in Seq(Parts) /\ body \o buffer \in Seq(Parts)
  BY DEF MInv, TInv, RenderTypes
<1>2. Kept' = Kept /\ Passed' = Passed /\ Limit' = Limit
  BY DEF Kept, Passed, Limit
<1>3. /\ Kept \in Nat /\ Passed \in Nat /\ Len(chunk) \in Nat /\ it.returned \in Nat /\ n \in Nat
      /\ Len(held) \in Nat /\ Len(held) <= 1 /\ Limit \in Nat
  <2>1. Kept \in Nat /\ Passed \in Nat
    BY KeptFacts DEF MInv, TInv, IInv
  <2>2. Len(chunk) \in Nat /\ it.returned \in Nat
    BY DEF MInv, TInv, IInv, Types
  <2>3. Len(held) \in Nat /\ Len(held) <= 1
    <3>1. held = <<>> \/ \E r \in 1 .. MaxRows : held = <<r>>
      BY DEF MInv, TInv, RenderTypes
    <3>2. CASE held = <<>>
      BY <3>2
    <3>3. ASSUME NEW r, held = <<r>>
          PROVE  Len(held) \in Nat /\ Len(held) <= 1
      BY <3>3
    <3> QED
      BY <3>1, <3>2, <3>3
  <2>4. Limit \in Nat
    BY DEF Limit
  <2> QED
    BY <1>1, <2>1, <2>2, <2>3, <2>4, RowsAreFinite
<1>4. Memory
  BY DEF MInv
<1>5. CASE UNCHANGED <<held, body, buffer>>
  <2>1. Memory'
    BY <1>2, <1>4, <1>5 DEF Memory
  <2> QED
    BY <2>1 DEF MInv
<1>6. CASE UNCHANGED held /\ body' = body \o buffer /\ buffer' = <<>>
  <2>1. (body \o buffer)' = body \o buffer /\ Len(buffer') = 0
    BY <1>1, <1>6
  <2>2. Memory'
    BY <1>2, <1>4, <1>6, <2>1 DEF Memory
  <2> QED
    BY <2>2 DEF MInv
<1>7. CASE \E p \in Parts : Emit(p) /\ (UNCHANGED held \/ (p.kind = "row" /\ held' = <<>>))
  <2>1. PICK p \in Parts : Emit(p) /\ (UNCHANGED held \/ (p.kind = "row" /\ held' = <<>>))
    BY <1>7
  <2>2. /\ (body \o buffer)' = Append(body \o buffer, p)
        /\ Len(buffer') <= BufferSize
    BY <1>1, <1>4, <2>1, EmitAppends DEF Memory
  <2> DEFINE m == Cardinality(RowsAt(body \o buffer))'
  <2>3. m \in Nat /\ n <= m /\ (p.kind = "row" => n + 1 <= m)
    BY <1>1, <2>2, RowsGrow
  <2>4. Len(held') \in Nat /\ (held' = <<>> => Len(held') = 0)
    BY DEF TInv, RenderTypes
  <2>5. Passed <= m + Len(held') /\ Len(held') <= Len(held)
    <3>1. Passed <= n + Len(held)
      BY <1>4 DEF Memory
    <3>2. CASE UNCHANGED held
      BY <1>3, <2>3, <3>1, <3>2
    <3>3. CASE p.kind = "row" /\ held' = <<>>
      BY <1>3, <2>3, <2>4, <3>1, <3>3
    <3> QED
      BY <2>1, <3>2, <3>3
  <2>6. Memory'
    <3>1. Len(chunk) + Len(held) + (it.returned - Kept) <= Limit
      BY <1>4 DEF Memory
    <3>2. Len(chunk) + Len(held') + (it.returned - Kept) <= Limit
      BY <1>3, <2>4, <2>5, <3>1
    <3> QED
      BY <1>2, <2>2, <2>5, <3>2 DEF Memory
  <2> QED
    BY <2>6 DEF MInv
<1> QED
  BY <1>5, <1>6, <1>7

LEMMA ReadRowBounded ==
  ASSUME MInv, TInv', ReadRow
  PROVE  MInv'
<1> DEFINE n == it.returned + 1
<1>1. /\ held = <<>> /\ Len(chunk) < Limit /\ ~it.iterated /\ part # "paginate" /\ part' = part
      /\ it' = Watched(n)
      /\ chunk' = IF IsSentinel(n) THEN chunk ELSE Append(chunk, SliceStart + n)
      /\ it.returned < SliceLength
      /\ UNCHANGED <<req, total, held, body, buffer>>
  BY DEF ReadRow, Reading, Filling, Wanted, rendering, response
<1>2. /\ Types /\ Counted /\ Memory /\ SliceStart \in Nat /\ SliceLength \in Nat
      /\ req.paginated => SliceLength <= PageSize + 1
      /\ req.paginated \in BOOLEAN
      /\ chunk \in Seq(Nat) /\ it.returned \in Nat /\ Limit \in Nat
  BY <1>1, SliceFacts DEF MInv, TInv, IInv, Types, Counted, Limit
<1>3. Kept = it.returned
  BY <1>1, <1>2 DEF Counted, Kept
<1>4. it'.returned = n
  BY <1>1 DEF Watched
<1>5. CASE IsSentinel(n)
  <2>1. Kept' = it.returned /\ chunk' = chunk
    BY <1>1, <1>2, <1>4, <1>5 DEF Kept, IsSentinel
  <2>2. Passed' = Passed /\ Limit' = Limit
    BY <1>1, <1>3, <2>1 DEF Passed, Limit
  <2>3. Len(chunk') + Len(held') + (it'.returned - Kept') <= Limit
    BY <1>1, <1>2, <1>4, <2>1
  <2>4. Memory'
    BY <1>1, <1>2, <2>2, <2>3 DEF Memory
  <2> QED
    BY <2>4 DEF MInv
<1>6. CASE ~IsSentinel(n)
  <2>1. Kept' = n /\ Len(chunk') = Len(chunk) + 1
    BY <1>1, <1>2, <1>4, <1>6 DEF Kept, IsSentinel
  <2>2. Passed' = Passed /\ Limit' = Limit
    BY <1>1, <1>2, <1>3, <2>1 DEF Passed, Limit
  <2>3. Len(chunk') + Len(held') + (it'.returned - Kept') <= Limit
    BY <1>1, <1>2, <1>4, <2>1
  <2>4. Memory'
    BY <1>1, <1>2, <2>2, <2>3 DEF Memory
  <2> QED
    BY <2>4 DEF MInv
<1> QED
  BY <1>5, <1>6

LEMMA ServeBounded ==
  ASSUME MInv, TInv', Serve
  PROVE  MInv'
<1>1. /\ held = <<>> /\ held' = <<Head(chunk)>> /\ chunk' = Tail(chunk) /\ chunk # <<>>
      /\ part # "paginate" /\ UNCHANGED <<req, total, it, body, buffer>>
  BY DEF Serve, Wanted, MInv, TInv, IInv, Phases
<1>2. /\ Memory /\ chunk \in Seq(Nat) /\ Kept \in Nat /\ it.returned \in Nat /\ Passed \in Nat
  BY <1>1, KeptFacts DEF MInv, TInv, IInv, Types
<1>3. Len(held) = 0 /\ Len(held') = 1 /\ Len(chunk') = Len(chunk) - 1 /\ Len(chunk) \in Nat
  BY <1>1, <1>2
<1>4. Kept' = Kept /\ Passed' = Passed + 1 /\ Limit' = Limit
  <2>1. Kept' = Kept /\ Limit' = Limit
    BY <1>1 DEF Kept, Limit
  <2> QED
    BY <1>2, <1>3, <2>1 DEF Passed
<1>5. Cardinality(RowsAt(body \o buffer)) \in Nat
      /\ Cardinality(RowsAt(body \o buffer))' = Cardinality(RowsAt(body \o buffer))
  <2>1. body \o buffer \in Seq(Parts)
    BY DEF MInv, TInv, RenderTypes
  <2> QED
    BY <1>1, <2>1, RowsAreFinite
<1>6. Passed' <= Cardinality(RowsAt(body \o buffer)) + Len(held')
  BY <1>1, <1>2, <1>3, <1>4, <1>5 DEF Memory
<1>7. Len(chunk') + Len(held') + (it'.returned - Kept') <= Limit
  <2>1. Len(chunk) + Len(held) + (it.returned - Kept) <= Limit
    BY <1>2 DEF Memory
  <2>2. Len(chunk') + Len(held') = Len(chunk) + Len(held)
    BY <1>3
  <2> QED
    BY <1>1, <1>4, <2>1, <2>2
<1>8. Memory'
  BY <1>1, <1>2, <1>4, <1>5, <1>6, <1>7 DEF Memory
<1> QED
  BY <1>8 DEF MInv

\* The other steps of the iterators keep the number of rows that were read.
LEMMA IteratingBounded ==
  ASSUME MInv, TInv', AcceptPage \/ Exhaust \/ EndChunk \/ Prefetch \/ PeekNothing
  PROVE  MInv'
<1>1. /\ UNCHANGED <<req, chunk, held, body, buffer>>
      /\ it'.returned = it.returned
  BY DEF AcceptPage, Exhaust, EndChunk, Prefetch, PeekNothing, iteration, response,
         rendering, Filling, Wanted, MInv, TInv, IInv, Types
<1>2. Kept' = Kept /\ Passed' = Passed /\ Limit' = Limit
  BY <1>1 DEF Kept, Passed, Limit
<1>3. Memory
  BY DEF MInv
<1>4. part # "paginate" => Memory'
  BY <1>1, <1>2, <1>3 DEF Memory
<1>5. part = "paginate" => Memory'
  <2> SUFFICES ASSUME part = "paginate"
               PROVE  Memory'
    OBVIOUS
  <2>1. Passed = 0
    BY DEF MInv, TInv, IInv, Fresh, Passed, Kept
  <2>2. Cardinality(RowsAt(body \o buffer)) \in Nat
    <3>1. body \o buffer \in Seq(Parts)
      BY DEF MInv, TInv, RenderTypes
    <3> QED
      BY <3>1, RowsAreFinite
  <2>3. Len(held) = 0
    BY DEF MInv, TInv, IInv, Fresh
  <2>4. Passed' <= Cardinality(RowsAt(body \o buffer))' + Len(held')
    BY <1>1, <1>2, <2>1, <2>2, <2>3
  <2> QED
    BY <1>1, <1>2, <1>3, <2>4 DEF Memory
<1> QED
  BY <1>4, <1>5 DEF MInv

LEMMA RaiseBounded ==
  ASSUME MInv, TInv', NEW S, Raise(S)
  PROVE  MInv'
<1>1. UNCHANGED <<req, total, it, chunk, held, part>>
  BY DEF Raise, iteration
<1>2. CASE InView
  <2>1. UNCHANGED <<body, buffer>>
    BY <1>2 DEF Raise, Refuse
  <2>2. Kept' = Kept /\ Passed' = Passed /\ Limit' = Limit
    BY <1>1 DEF Kept, Passed, Limit
  <2>3. Memory'
    BY <1>1, <2>1, <2>2 DEF MInv, Memory
  <2> QED
    BY <2>3 DEF MInv
<1>3. CASE ~InView
  <2>1. buffer \in Seq(Parts) /\ body \in Seq(Parts) /\ body \o buffer \in Seq(Parts)
    BY DEF MInv, TInv, RenderTypes
  <2>2. body' = Append(body \o buffer, Marker) /\ buffer' = <<>>
    BY <1>3 DEF Raise, Abort
  <2>3. (body \o buffer)' = Append(body \o buffer, Marker)
    BY <2>1, <2>2, PartTypes, AppendToBoth
  <2>4. /\ Cardinality(RowsAt(body \o buffer)) \in Nat
        /\ Cardinality(RowsAt(body \o buffer))' \in Nat
        /\ Cardinality(RowsAt(body \o buffer)) <= Cardinality(RowsAt(body \o buffer))'
    BY <2>1, <2>3, PartTypes, RowsGrow
  <2>5. Kept' = Kept /\ Passed' = Passed /\ Limit' = Limit
    BY <1>1 DEF Kept, Passed, Limit
  <2>6. Len(held) \in Nat /\ Len(buffer') = 0
    BY <2>2 DEF MInv, TInv, RenderTypes
  <2>7. Passed \in Nat
    BY <1>3, KeptFacts DEF InView, MInv, TInv, IInv
  <2>8. Passed <= Cardinality(RowsAt(body \o buffer))' + Len(held)
    <3>1. Passed <= Cardinality(RowsAt(body \o buffer)) + Len(held)
      BY <1>3 DEF InView, MInv, Memory
    <3> QED
      BY <2>4, <2>6, <2>7, <3>1
  <2>9. Memory'
    BY <1>1, <2>5, <2>6, <2>8 DEF MInv, Memory
  <2> QED
    BY <2>9 DEF MInv
<1> QED
  BY <1>2, <1>3

LEMMA RenderingBounded ==
  ASSUME MInv, TInv', \/ RenderHead \/ RenderRow \/ EndMain \/ OpenSection \/ RenderEmbedded
                      \/ EndSection \/ RenderFooter \/ EndStream \/ ClientGone
  PROVE  MInv'
<1>1. part # "paginate" /\ UNCHANGED <<req, it, chunk>>
  BY DEF RenderHead, RenderRow, EndMain, OpenSection, RenderEmbedded, EndSection, RenderFooter,
         EndStream, ClientGone, InView, iteration, rendering
<1>2. nr \in 0 .. Len(Embeds) /\ Len(Embeds) \in Nat
  BY EmbedsAssumption DEF MInv, TInv, RenderTypes
<1>3. CASE RenderHead
  BY <1>1, <1>3, PartTypes, StillBounded DEF RenderHead
<1>4. CASE RenderRow
  <2>1. PICK r \in 1 .. MaxRows : held = <<r>>
    BY <1>4 DEF RenderRow, MInv, TInv, RenderTypes
  <2>2. Row(r) \in Parts /\ Row(r).kind = "row" /\ Emit(Row(r)) /\ held' = <<>>
    BY <1>4, <2>1, PartTypes DEF RenderRow, Row
  <2> QED
    BY <1>1, <2>2, StillBounded
<1>5. CASE EndMain \/ EndSection
  <2>1. UNCHANGED held /\ NextCollection
    BY <1>5 DEF EndMain, EndSection
  <2>2. CASE Later # {}
    <3>1. Section(Embeds[Min(Later)]) \in Parts /\ Emit(Section(Embeds[Min(Later)]))
      <4>1. Min(Later) \in 1 .. Len(Embeds)
        BY <1>2, <2>2, MinLater
      <4> QED
        BY <2>1, <2>2, <4>1, PartTypes DEF NextCollection, EmbedNames
    <3> QED
      BY <1>1, <2>1, <3>1, StillBounded
  <2>3. CASE Later = {}
    BY <1>1, <2>1, <2>3, StillBounded DEF NextCollection
  <2> QED
    BY <2>2, <2>3
<1>6. CASE OpenSection
  BY <1>1, <1>6, StillBounded DEF OpenSection, response
<1>7. CASE RenderEmbedded
  <2>1. Embedded(Embeds[nr], Head(found)) \in Parts
    <3>1. /\ nr \in 1 .. Len(Embeds) /\ Embeds[nr] \in EmbedNames
          /\ Head(found) \in JoinedObjects(Embeds[nr])
      BY <1>7 DEF RenderEmbedded, MInv, TInv, Placed, EmbedNames
    <3> QED
      BY <3>1, PartTypes
  <2> QED
    BY <1>1, <1>7, <2>1, StillBounded DEF RenderEmbedded
<1>8. CASE RenderFooter
  <2>1. Footer(NextLink, PreviousLink) \in Parts
    BY <1>8, FooterTypes, PartTypes DEF RenderFooter, MInv, TInv, IInv, Counted
  <2> QED
    BY <1>1, <1>8, <2>1, StillBounded DEF RenderFooter
<1>9. CASE EndStream
  BY <1>1, <1>9, StillBounded DEF EndStream
<1>10. CASE ClientGone
  BY <1>1, <1>10, StillBounded DEF ClientGone, rendering
<1> QED
  BY <1>3, <1>4, <1>5, <1>6, <1>7, <1>8, <1>9, <1>10

LEMMA InitMInv == Init => MInv
<1> SUFFICES ASSUME Init
             PROVE  MInv
  OBVIOUS
<1>1. Len(buffer) = 0 /\ Len(chunk) = 0 /\ Len(held) = 0 /\ Kept = 0 /\ it.returned = 0
  BY DEF Init, Kept
<1> QED
  BY <1>1, InitTInv DEF Init, MInv, Memory, Limit

LEMMA NextMInv == MInv /\ [Next]_vars => MInv'
<1> SUFFICES ASSUME MInv, [Next]_vars
             PROVE  MInv'
  OBVIOUS
<1>1. TInv'
  BY NextTInv DEF MInv
<1>2. CASE ReadRow
  BY <1>1, <1>2, ReadRowBounded
<1>3. CASE Serve
  BY <1>1, <1>3, ServeBounded
<1>4. CASE AcceptPage \/ Exhaust \/ EndChunk \/ Prefetch \/ PeekNothing
  BY <1>1, <1>4, IteratingBounded
<1>5. CASE \/ RefusePage \/ RefuseEmbeds \/ RefuseEmptyPage \/ IterationFails \/ SectionFails
  BY <1>1, <1>5, RaiseBounded
     DEF RefusePage, RefuseEmbeds, RefuseEmptyPage, IterationFails, SectionFails
<1>6. CASE \/ RenderHead \/ RenderRow \/ EndMain \/ OpenSection \/ RenderEmbedded
           \/ EndSection \/ RenderFooter \/ EndStream \/ ClientGone
  BY <1>1, <1>6, RenderingBounded
<1>7. CASE UNCHANGED vars
  <2>1. UNCHANGED <<req, it, chunk, held, body, buffer, part>>
    BY <1>7 DEF vars, iteration, rendering, response
  <2>2. Kept' = Kept /\ Passed' = Passed /\ Limit' = Limit
    BY <2>1 DEF Kept, Passed, Limit
  <2> QED
    BY <1>1, <2>1, <2>2 DEF MInv, Memory
<1> QED
  BY <1>2, <1>3, <1>4, <1>5, <1>6, <1>7 DEF Next, Work

\* For every number of rows and every size of the chunks and the buffer: next to the
\* buffer at most one chunk of rows is held, one row if the list has no prefetches, and
\* the rows read beyond those sent, the sentinel among them, fit in these two
\* (ChunkedQuerySetIterator, _chunked_output).
THEOREM BoundedMemoryHolds == Spec => []BoundedMemory
<1>1. MInv => BoundedMemory
  <2> SUFFICES ASSUME MInv
               PROVE  /\ Len(chunk) + Len(held) <= Limit
                      /\ it.returned <= RowsSent + BufferSize + Limit
    BY DEF BoundedMemory, Limit
  <2>1. RowsSent = Cardinality(RowsAt(body))
    BY DEF RowsSent, RowsAt
  <2>2. /\ Cardinality(RowsAt(body \o buffer)) <= Cardinality(RowsAt(body)) + Len(buffer)
        /\ Cardinality(RowsAt(body)) \in Nat /\ Cardinality(RowsAt(body \o buffer)) \in Nat
    BY RowsSplit DEF MInv, TInv, RenderTypes
  <2>3. Len(buffer) \in Nat /\ Len(held) \in Nat /\ Len(chunk) \in Nat
        /\ Limit \in Nat /\ it.returned \in Nat
    BY DEF MInv, TInv, RenderTypes, IInv, Types, Limit
  <2>4. CASE part = "paginate"
    BY <2>1, <2>2, <2>3, <2>4 DEF MInv, Memory, TInv, IInv, Fresh
  <2>5. CASE part # "paginate"
    <3>1. Kept \in Nat /\ Passed = Kept - Len(chunk)
      BY <2>5, KeptFacts DEF MInv, TInv, IInv, Passed
    <3>2. Kept <= it.returned
      BY <2>3, SizesAssumption DEF Kept
    <3> QED
      BY <2>1, <2>2, <2>3, <2>5, <3>1, <3>2 DEF MInv, Memory
  <2> QED
    BY <2>4, <2>5
<1>2. Init => MInv
  BY InitMInv
<1>3. MInv /\ [Next]_vars => MInv'
  BY NextMInv
<1> QED
  BY <1>1, <1>2, <1>3, PTL DEF Spec

-----------------------------------------------------------------------------
\* The promise of PageResponse: what was put out, followed by what is still to
\* be rendered, is the complete page.

\* The rows of the page behind the first n.
RowsFrom(n) == [i \in 1 .. Cardinality(PageRows) - n |-> Row(SliceStart + n + i)]
Drawn == Passed - Len(held)
EmbeddedParts(e, objects) == [i \in DOMAIN objects |-> Embedded(e, objects[i])]

Served ==
  /\ InView => body = <<>> /\ buffer = <<>> /\ status = "none"
  /\ ~InView => Servable /\ status = "200"

\* The iterator only works for a request that can be answered, and it comes to
\* an end only on a page that exists.
Admitted ==
  /\ step # "fill" => EmbedsSupported
  /\ it.iterated => ~IsEmptyPage

InHand ==
  /\ held = <<>> \/ (Passed > 0 /\ held = <<SliceStart + Passed>>)
  /\ part = "view" => held = <<>>

Out == body \o buffer

Progress ==
  /\ part \in {"paginate", "view", "head", "main"} => nr = 0
  /\ part = "head" => Out = <<>> /\ Drawn = 0
  /\ part = "main" => Out \o (RowsFrom(Drawn) \o Rest[1]) = Complete
  /\ part = "section" =>
       LET e == Embeds[nr]
       IN  Out \o (EmbeddedParts(e, Objects(e, PageKeys(e))) \o Rest[nr + 1]) = Complete
  /\ part = "embed" => Out \o (EmbeddedParts(Embeds[nr], found) \o Rest[nr + 1]) = Complete
  /\ part = "footer" => Out \o FooterParts = Complete
  /\ part = "end" => Out = Complete

PInv == TInv /\ (ended = "no" => Served /\ Admitted /\ InHand /\ Progress)

Refines == [Promise!Next]_(Promise!vars)

\* The recursive definition of the rest of the page has a solution.
LEMMA RestEquation ==
  ASSUME NEW i \in 1 .. Len(Embeds) + 1
  PROVE  Rest[i] = IF i > Len(Embeds) THEN FooterParts
                   ELSE IF Embeds[i] \in req.expand THEN SectionParts(Embeds[i]) \o Rest[i + 1]
                   ELSE Rest[i + 1]
<1> DEFINE N == Len(Embeds)
           At(k, f) == IF k > N THEN FooterParts
                       ELSE IF Embeds[k] \in req.expand THEN SectionParts(Embeds[k]) \o f[k + 1]
                       ELSE f[k + 1]
           Solves(n, f) == f = [k \in N + 1 - n .. N + 1 |-> At(k, f)]
           T == {n \in Nat : n <= N => \E f : Solves(n, f)}
<1>1. N \in Nat
  BY EmbedsAssumption
<1>2. 0 \in T
  <2> DEFINE f == [k \in N + 1 .. N + 1 |-> FooterParts]
  <2>1. N + 1 - 0 = N + 1 /\ \A k \in N + 1 .. N + 1 : k > N
    BY <1>1
  <2>2. \A k \in N + 1 .. N + 1 : At(k, f) = FooterParts
    BY <2>1
  <2>3. Solves(0, f)
    <3> HIDE DEF At, N
    <3> QED
      BY <2>1, <2>2
  <2> HIDE DEF f, Solves
  <2> QED
    BY <2>3
<1>3. ASSUME NEW n \in Nat, n \in T
      PROVE  n + 1 \in T
  <2> SUFFICES ASSUME n + 1 <= N
               PROVE  \E f : Solves(n + 1, f)
    <3> HIDE DEF Solves
    <3> QED
      OBVIOUS
  <2>1. PICK f : Solves(n, f)
    <3>1. n <= N
      BY <1>1
    <3> HIDE DEF Solves, N
    <3> QED
      BY <1>3, <3>1
  <2> DEFINE m == N + 1 - (n + 1)
             g == [k \in m .. N + 1 |-> IF k = m THEN At(k, f) ELSE f[k]]
  <2>2. ASSUME NEW k \in m .. N + 1
        PROVE  g[k] = At(k, g)
    <3>1. k = m => k + 1 \in m .. N + 1 /\ g[k + 1] = f[k + 1]
      BY <1>1
    <3>2. k # m => k \in N + 1 - n .. N + 1
      BY <1>1
    <3>3. k # m => f[k] = At(k, f)
      BY <2>1, <3>2
    <3>4. k # m /\ k <= N => k + 1 \in m .. N + 1 /\ g[k + 1] = f[k + 1]
      BY <1>1
    <3> QED
      BY <1>1, <3>1, <3>3, <3>4
  <2>3. Solves(n + 1, g)
    BY <2>2
  <2>4. \E h : Solves(n + 1, h)
    <3> HIDE DEF g, Solves
    <3> QED
      BY <2>3
  <2> QED
    BY <2>4
<1>4. \E f : Solves(N, f)
  <2> HIDE DEF T
  <2>1. N \in T
    BY <1>1, <1>2, <1>3, Induction
  <2>2. N <= N => \E f : Solves(N, f)
    <3> HIDE DEF Solves, N
    <3> QED
      BY <2>1 DEF T
  <2>3. N <= N
    BY <1>1
  <2> HIDE DEF Solves, N
  <2> QED
    BY <2>2, <2>3
<1>5. \E f : f = [k \in 1 .. Len(Embeds) + 1 |->
                   IF k > Len(Embeds) THEN FooterParts
                   ELSE IF Embeds[k] \in req.expand THEN SectionParts(Embeds[k]) \o f[k + 1]
                   ELSE f[k + 1]]
  <2>1. N + 1 - N = 1
    BY <1>1
  <2>2. PICK f : Solves(N, f)
    BY <1>4
  <2>3. f = [k \in 1 .. N + 1 |-> At(k, f)]
    <3> HIDE DEF At
    <3> QED
      BY <2>1, <2>2
  <2> QED
    BY <2>3
<1>6. Rest = [k \in 1 .. Len(Embeds) + 1 |->
                IF k > Len(Embeds) THEN FooterParts
                ELSE IF Embeds[k] \in req.expand THEN SectionParts(Embeds[k]) \o Rest[k + 1]
                ELSE Rest[k + 1]]
  BY <1>5 DEF Rest
<1> QED
  BY <1>6

\* The page that was asked for stays the same.
LEMMA SamePage ==
  ASSUME UNCHANGED <<req, total>>
  PROVE  /\ Complete' = Complete /\ Servable' = Servable /\ Refusals' = Refusals
         /\ Rest' = Rest /\ FooterParts' = FooterParts
         /\ SliceStart' = SliceStart /\ EmbedsSupported' = EmbedsSupported
         /\ \A n : RowsFrom(n)' = RowsFrom(n)
         /\ \A e : PageKeys(e)' = PageKeys(e)
         /\ PageRows' = PageRows
<1>1. FooterParts' = FooterParts
  BY DEF FooterParts, MoreRows, PreviousLink
<1>2. SliceStart' = SliceStart /\ PageRows' = PageRows
  BY DEF PageRows, PageEnd, SliceStart
<1>3. \A e : PageKeys(e)' = PageKeys(e)
  BY <1>2 DEF PageKeys
<1>4. \A e : SectionParts(e)' = SectionParts(e)
  BY <1>3 DEF SectionParts
<1>5. Rest' = Rest
  BY <1>1, <1>4 DEF Rest
<1>6. EmbedsSupported' = EmbedsSupported /\ PageAccepted' = PageAccepted
      /\ EmptyLaterPage' = EmptyLaterPage /\ PageRefusal' = PageRefusal
  BY DEF EmbedsSupported, PageAccepted, EmptyLaterPage, PageRefusal
<1>7. Servable' = Servable /\ Refusals' = Refusals
  BY <1>6 DEF Servable, Refusals
<1>8. RowParts' = RowParts /\ \A n : RowsFrom(n)' = RowsFrom(n)
  BY <1>2 DEF RowParts, RowsFrom
<1>9. Complete' = Complete
  BY <1>5, <1>7, <1>8 DEF Complete
<1> QED
  BY <1>1, <1>2, <1>3, <1>5, <1>6, <1>7, <1>8, <1>9

\* Sequences.
LEMMA ConcatFirst ==
  ASSUME NEW S, NEW s \in Seq(S), NEW x \in S, NEW t \in Seq(S)
  PROVE  /\ s \o (<<x>> \o t) = Append(s, x) \o t
         /\ <<x>> \o t \in Seq(S) /\ <<x>> \in Seq(S)
<1>1. <<x>> \in Seq(S)
  OBVIOUS
<1>2. s \o (<<x>> \o t) = (s \o <<x>>) \o t
  BY <1>1, ConcatAssociative
<1>3. Append(s, x) = s \o <<x>>
  BY AppendIsConcat
<1>4. <<x>> \o t \in Seq(S)
  BY <1>1, ConcatProperties
<1> QED
  BY <1>1, <1>2, <1>3, <1>4

LEMMA PrefixOf ==
  ASSUME NEW S, NEW s \in Seq(S), NEW t \in Seq(S)
  PROVE  /\ s = SubSeq(s \o t, 1, Len(s)) /\ Len(s) <= Len(s \o t)
         /\ Len(s) \in Nat /\ Len(s \o t) \in Nat
<1>1. s \o t \in Seq(S) /\ Len(s \o t) = Len(s) + Len(t) /\ Len(s) \in Nat /\ Len(t) \in Nat
  OBVIOUS
<1>2. \A i \in 1 .. Len(s) : (s \o t)[i] = s[i] /\ s[i] \in S
  OBVIOUS
<1>3. /\ SubSeq(s \o t, 1, Len(s)) \in Seq(S)
      /\ Len(SubSeq(s \o t, 1, Len(s))) = IF 1 <= Len(s) THEN Len(s) - 1 + 1 ELSE 0
      /\ \A i \in 1 .. Len(s) - 1 + 1 : SubSeq(s \o t, 1, Len(s))[i] = (s \o t)[1 + i - 1]
  BY <1>1, <1>2, SubSeqProperties
<1>4. \A i \in 1 .. Len(s) : SubSeq(s \o t, 1, Len(s))[i] = s[i]
  BY <1>1, <1>2, <1>3
<1>5. Len(SubSeq(s \o t, 1, Len(s))) = Len(s)
  BY <1>1, <1>3
<1>6. s = SubSeq(s \o t, 1, Len(s))
  BY <1>3, <1>4, <1>5, SeqEqual
<1> QED
  BY <1>1, <1>6

\* What is still to be rendered is made of parts.
LEMMA PartsToCome ==
  ASSUME TInv, PageAccepted
  PROVE  /\ Cardinality(PageRows) \in Nat /\ SliceStart \in Nat
         /\ \A n \in Nat : FirstRows(n) \subseteq PageRows => n <= Cardinality(PageRows)
         /\ \A n \in Nat : FirstRows(n) = PageRows => n = Cardinality(PageRows)
         /\ \A n \in Nat : RowsFrom(n) \in Seq(Parts)
         /\ FooterParts \in Seq(Parts)
         /\ \A e \in EmbedNames : \A s \in Seq(JoinedObjects(e)) : EmbeddedParts(e, s) \in Seq(Parts)
         /\ \A i \in 1 .. Len(Embeds) + 1 : Rest[i] \in Seq(Parts)
<1> DEFINE m == IF req.paginated /\ SliceLength > PageSize THEN PageSize ELSE SliceLength
<1>1. PageRows = FirstRows(m) /\ m \in Nat /\ SliceStart \in Nat /\ req.paginated \in BOOLEAN
  BY SliceFacts DEF TInv, IInv
<1>2. SliceStart + m <= total \/ m = 0
  <2>1. total \in Nat /\ SliceEnd <= total /\ SliceEnd \in Int
    BY <1>1 DEF SliceEnd, TInv
  <2>2. SliceLength # 0 => SliceStart + SliceLength <= total
    BY <1>1, <2>1 DEF SliceLength
  <2>3. SliceLength \in Nat /\ m <= SliceLength
    BY SliceFacts DEF TInv, IInv
  <2> QED
    BY <1>1, <2>1, <2>2, <2>3
<1> HIDE DEF m
<1>3. Cardinality(PageRows) = m
  <2> DEFINE a == SliceStart + 1
             b == SliceStart + m
  <2>1. a \in Int /\ b \in Int /\ (IF a > b THEN 0 ELSE b - a + 1) = m
    BY <1>1
  <2>2. PageRows = a .. b
    BY <1>1 DEF FirstRows
  <2> HIDE DEF a, b
  <2>3. Cardinality(a .. b) = IF a > b THEN 0 ELSE b - a + 1
    BY <2>1, FS_Interval
  <2> QED
    BY <2>1, <2>2, <2>3
<1>4. ASSUME NEW n \in Nat
      PROVE  /\ FirstRows(n) \subseteq PageRows => n <= m
             /\ FirstRows(n) = PageRows => n = m
             /\ RowsFrom(n) \in Seq(Parts)
  <2>1. FirstRows(n) \subseteq FirstRows(m) => n <= m
    <3>1. n > 0 => SliceStart + n \in FirstRows(n)
      BY <1>1 DEF FirstRows
    <3>2. SliceStart + n \in FirstRows(m) => n <= m
      BY <1>1 DEF FirstRows
    <3> QED
      BY <1>1, <3>1, <3>2
  <2>2. FirstRows(m) \subseteq FirstRows(n) => m <= n
    <3>1. m > 0 => SliceStart + m \in FirstRows(m)
      BY <1>1 DEF FirstRows
    <3>2. SliceStart + m \in FirstRows(n) => m <= n
      BY <1>1 DEF FirstRows
    <3> QED
      BY <1>1, <3>1, <3>2
  <2>3. RowsFrom(n) \in Seq(Parts)
    <3>1. m - n \in Int /\ total <= MaxRows /\ total \in Nat
      BY <1>1 DEF TInv
    <3>2. ASSUME NEW i \in 1 .. m - n
          PROVE  Row(SliceStart + n + i) \in Parts
      <4>1. SliceStart + n + i \in 1 .. MaxRows
        BY <1>1, <1>2, <3>1
      <4> QED
        BY <4>1, PartTypes
    <3>3. RowsFrom(n) = [i \in 1 .. m - n |-> Row(SliceStart + n + i)]
      BY <1>3 DEF RowsFrom
    <3>4. CASE m - n >= 0
      <4>1. m - n \in Nat
        BY <3>1, <3>4
      <4> HIDE DEF Row
      <4> QED
        BY <3>2, <3>3, <4>1
    <3>5. CASE m - n < 0
      <4>1. 1 .. m - n = {} /\ 1 .. 0 = {}
        BY <3>1, <3>5
      <4>2. RowsFrom(n) = [i \in 1 .. 0 |-> Row(SliceStart + n + i)]
        BY <3>3, <4>1
      <4> QED
        BY <4>1, <4>2
    <3> QED
      BY <3>1, <3>4, <3>5
  <2> QED
    BY <1>1, <2>1, <2>2, <2>3
<1>5. FooterParts \in Seq(Parts)
  <2>1. req.page \in Nat \/ ~req.paginated
    BY DEF PageAccepted
  <2>2. MoreRows \in BOOLEAN /\ PreviousLink \in BOOLEAN
    BY <1>1, <2>1 DEF MoreRows, PreviousLink, TInv
  <2>3. Footer(MoreRows, PreviousLink) \in Parts
    BY <2>2, PartTypes
  <2> QED
    BY <2>3 DEF FooterParts
<1>6. ASSUME NEW e \in EmbedNames, NEW s \in Seq(JoinedObjects(e))
      PROVE  EmbeddedParts(e, s) \in Seq(Parts)
  <2>1. DOMAIN s = 1 .. Len(s) /\ Len(s) \in Nat /\ \A i \in 1 .. Len(s) : s[i] \in JoinedObjects(e)
    OBVIOUS
  <2>2. \A i \in 1 .. Len(s) : Embedded(e, s[i]) \in Parts
    BY <2>1, PartTypes
  <2> HIDE DEF Embedded
  <2> QED
    BY <2>1, <2>2 DEF EmbeddedParts
<1>7. ASSUME NEW e \in EmbedNames
      PROVE  SectionParts(e) \in Seq(Parts)
  <2>1. Objects(e, PageKeys(e)) \in Seq(JoinedObjects(e))
    BY ObjectsType
  <2>2. EmbeddedParts(e, Objects(e, PageKeys(e))) \in Seq(Parts)
    BY <1>6, <2>1
  <2>3. SectionParts(e) = <<Section(e)>> \o EmbeddedParts(e, Objects(e, PageKeys(e)))
    BY DEF SectionParts, EmbeddedParts
  <2>4. <<Section(e)>> \in Seq(Parts)
    BY PartTypes
  <2> QED
    BY <2>2, <2>3, <2>4
<1>8. ASSUME NEW j \in 1 .. Len(Embeds) + 1
      PROVE  Rest[j] \in Seq(Parts)
  <2> DEFINE N == Len(Embeds)
             T == {n \in Nat : n <= N => Rest[N + 1 - n] \in Seq(Parts)}
  <2>1. N \in Nat
    BY EmbedsAssumption
  <2>2. 0 \in T
    <3>1. Rest[N + 1] = FooterParts
      BY <2>1, RestEquation
    <3> QED
      BY <1>5, <2>1, <3>1
  <2>3. ASSUME NEW n \in Nat, n \in T
        PROVE  n + 1 \in T
    <3> SUFFICES ASSUME n + 1 <= N
                 PROVE  Rest[N + 1 - (n + 1)] \in Seq(Parts)
      OBVIOUS
    <3> DEFINE i == N + 1 - (n + 1)
    <3>1. i \in 1 .. N /\ i + 1 = N + 1 - n /\ n <= N
      BY <2>1
    <3>2. Rest[i + 1] \in Seq(Parts)
      BY <2>3, <3>1
    <3>3. Embeds[i] \in EmbedNames
      BY <3>1 DEF EmbedNames
    <3>4. Rest[i] = IF Embeds[i] \in req.expand THEN SectionParts(Embeds[i]) \o Rest[i + 1]
                    ELSE Rest[i + 1]
      BY <2>1, <3>1, RestEquation
    <3> QED
      BY <1>7, <3>2, <3>3, <3>4
  <2>4. N + 1 - j \in Nat /\ N + 1 - j <= N /\ N + 1 - (N + 1 - j) = j
    BY <2>1
  <2> HIDE DEF T
  <2>5. N + 1 - j \in T
    BY <2>2, <2>3, <2>4, Induction
  <2> QED
    BY <2>4, <2>5 DEF T
<1> QED
  BY <1>1, <1>3, <1>4, <1>5, <1>6, <1>8

\* A section that was not asked for adds nothing to the rest of the page.
LEMMA RestSkips ==
  ASSUME NEW i \in Nat, NEW k \in Nat, 1 <= i, i <= k, k <= Len(Embeds) + 1,
         \A j \in i .. k - 1 : Embeds[j] \notin req.expand
  PROVE  Rest[i] = Rest[k]
<1> DEFINE T == {n \in Nat : i + n <= k => Rest[i] = Rest[i + n]}
<1>1. Len(Embeds) \in Nat
  BY EmbedsAssumption
<1>2. 0 \in T
  OBVIOUS
<1>3. ASSUME NEW n \in Nat, n \in T
      PROVE  n + 1 \in T
  <2> SUFFICES ASSUME i + (n + 1) <= k
               PROVE  Rest[i] = Rest[i + (n + 1)]
    OBVIOUS
  <2> DEFINE j == i + n
  <2>1. /\ j \in 1 .. Len(Embeds) + 1 /\ ~(j > Len(Embeds))
        /\ j \in i .. k - 1 /\ j + 1 = i + (n + 1) /\ i + n <= k
    BY <1>1
  <2>2. Rest[j] = Rest[j + 1]
    BY <2>1, RestEquation
  <2> QED
    BY <1>3, <2>1, <2>2
<1>4. k - i \in Nat /\ i + (k - i) = k /\ k <= k
  OBVIOUS
<1> HIDE DEF T
<1>5. k - i \in T
  BY <1>2, <1>3, <1>4, Induction
<1> QED
  BY <1>4, <1>5 DEF T

LEMMA CompleteParts ==
  ASSUME TInv, Servable
  PROVE  /\ Complete = <<Head0>> \o (RowsFrom(0) \o Rest[1])
         /\ RowsFrom(0) \o Rest[1] \in Seq(Parts) /\ Complete \in Seq(Parts)
<1>1. PageAccepted
  BY DEF Servable
<1>2. Cardinality(PageRows) \in Nat /\ SliceStart \in Nat /\ RowsFrom(0) \in Seq(Parts)
  BY <1>1, PartsToCome
<1>3. RowParts = RowsFrom(0)
  BY <1>2 DEF RowParts, RowsFrom
<1>4. Rest[1] \in Seq(Parts)
  <2>1. 1 \in 1 .. Len(Embeds) + 1
    BY EmbedsAssumption
  <2> QED
    BY <1>1, <2>1, PartsToCome
<1>5. RowsFrom(0) \o Rest[1] \in Seq(Parts)
  BY <1>2, <1>4
<1>6. Complete = <<Head0>> \o (RowsFrom(0) \o Rest[1])
  BY <1>3 DEF Complete
<1>7. <<Head0>> \o (RowsFrom(0) \o Rest[1]) \in Seq(Parts)
  BY <1>5, PartTypes, ConcatFirst
<1> QED
  BY <1>5, <1>6, <1>7

\* What was put out so far is the beginning of the complete page.
LEMMA OutIsPrefix ==
  ASSUME TInv, Servable, NEW rest \in Seq(Parts), Out \o rest = Complete
  PROVE  /\ Out \in Seq(Parts) /\ Len(Out) \in Len(body) .. Len(Complete)
         /\ Len(Out) \in Nat /\ Len(body) \in Nat
         /\ Out = SubSeq(Complete, 1, Len(Out))
<1>1. body \in Seq(Parts) /\ buffer \in Seq(Parts) /\ Out \in Seq(Parts)
  BY DEF TInv, RenderTypes, Out
<1>2. Len(body) \in Nat /\ Len(Out) \in Nat /\ Len(body) <= Len(Out)
  BY <1>1 DEF Out
<1>3. Out = SubSeq(Complete, 1, Len(Out)) /\ Len(Out) <= Len(Complete) /\ Len(Complete) \in Nat
  BY <1>1, PrefixOf
<1> QED
  BY <1>1, <1>2, <1>3

\* Before the page is finished there is something that completes it.
LEMMA SomethingToCome ==
  ASSUME PInv, ended = "no", ~InView
  PROVE  \E rest \in Seq(Parts) : Out \o rest = Complete
<1>1. TInv /\ Servable /\ PageAccepted /\ Progress
  BY DEF PInv, Served, Servable
<1>2. /\ \A n \in Nat : RowsFrom(n) \in Seq(Parts)
      /\ FooterParts \in Seq(Parts)
      /\ \A e \in EmbedNames : \A s \in Seq(JoinedObjects(e)) : EmbeddedParts(e, s) \in Seq(Parts)
      /\ \A i \in 1 .. Len(Embeds) + 1 : Rest[i] \in Seq(Parts)
  BY <1>1, PartsToCome
<1>3. Len(Embeds) \in Nat
  BY EmbedsAssumption
<1>4. part \in {"head", "main", "section", "embed", "footer", "end"}
  BY <1>1 DEF InView, TInv, IInv, Types
<1>5. CASE part = "head"
  <2>1. Out = <<>> /\ Complete \in Seq(Parts)
    BY <1>1, <1>5, CompleteParts DEF Progress
  <2>2. Out \o Complete = Complete
    BY <2>1
  <2> QED
    BY <2>1, <2>2
<1>6. CASE part = "main"
  <2>1. Out \o (RowsFrom(Drawn) \o Rest[1]) = Complete
    BY <1>1, <1>6 DEF Progress
  <2>2. Drawn \in Nat
    <3>1. Passed \in Nat
      BY <1>1, <1>6, KeptFacts DEF TInv, IInv
    <3>2. CASE held = <<>>
      BY <3>1, <3>2 DEF Drawn
    <3>3. CASE Passed > 0 /\ held = <<SliceStart + Passed>>
      <4>1. Len(held) = 1
        BY <3>3
      <4> QED
        BY <3>1, <3>3, <4>1 DEF Drawn
    <3> QED
      BY <3>2, <3>3 DEF PInv, InHand
  <2>3. RowsFrom(Drawn) \o Rest[1] \in Seq(Parts)
    BY <1>2, <1>3, <2>2
  <2> QED
    BY <2>1, <2>3
<1>7. CASE part \in {"section", "embed"}
  <2>1. nr \in 1 .. Len(Embeds) /\ Embeds[nr] \in EmbedNames
    BY <1>1, <1>7 DEF TInv, Placed, EmbedNames
  <2>2. Rest[nr + 1] \in Seq(Parts)
    BY <1>2, <1>3, <2>1
  <2>3. CASE part = "section"
    <3> DEFINE o == EmbeddedParts(Embeds[nr], Objects(Embeds[nr], PageKeys(Embeds[nr])))
    <3>1. o \in Seq(Parts)
      BY <1>2, <2>1, ObjectsType
    <3>2. Out \o (o \o Rest[nr + 1]) = Complete
      BY <1>1, <2>3 DEF Progress
    <3>3. o \o Rest[nr + 1] \in Seq(Parts)
      BY <2>2, <3>1, ConcatProperties
    <3> HIDE DEF o
    <3> QED
      BY <3>2, <3>3
  <2>4. CASE part = "embed"
    <3> DEFINE o == EmbeddedParts(Embeds[nr], found)
    <3>1. o \in Seq(Parts)
      BY <1>1, <1>2, <2>1, <2>4 DEF TInv, Placed
    <3>2. Out \o (o \o Rest[nr + 1]) = Complete
      BY <1>1, <2>4 DEF Progress
    <3>3. o \o Rest[nr + 1] \in Seq(Parts)
      BY <2>2, <3>1, ConcatProperties
    <3> HIDE DEF o
    <3> QED
      BY <3>2, <3>3
  <2> QED
    BY <1>7, <2>3, <2>4
<1>8. CASE part = "footer"
  BY <1>1, <1>2, <1>8 DEF Progress
<1>9. CASE part = "end"
  <2>1. Out = Complete /\ Out \in Seq(Parts)
    BY <1>1, <1>9 DEF Progress, TInv, RenderTypes, Out
  <2>2. Out \o <<>> = Complete /\ <<>> \in Seq(Parts)
    BY <2>1
  <2> QED
    BY <2>2
<1> QED
  BY <1>4, <1>5, <1>6, <1>7, <1>8, <1>9

\* A step that the client does not see.
LEMMA UnseenStep ==
  ASSUME UNCHANGED <<req, total, status, body, ended>>
  PROVE  Refines
BY SamePage DEF Refines, Promise!vars, Promise!page

\* A step that puts out the next part of the page.
LEMMA EmitAdvances ==
  ASSUME PInv, ended = "no", ~InView, NEW p \in Parts, NEW rest \in Seq(Parts),
         Out \o (<<p>> \o rest) = Complete, Emit(p), UNCHANGED <<req, total, status, ended>>
  PROVE  Out' \o rest = Complete /\ Refines
<1>1. TInv /\ Servable /\ status = "200"
  BY DEF PInv, Served
<1>2. body \in Seq(Parts) /\ buffer \in Seq(Parts) /\ Out \in Seq(Parts)
  BY <1>1 DEF TInv, RenderTypes, Out
<1>3. Out' = Append(Out, p)
  BY <1>2, EmitAppends DEF Out
<1>4. Append(Out, p) \o rest = Complete /\ Append(Out, p) \in Seq(Parts)
  <2>1. Out \o (<<p>> \o rest) = Append(Out, p) \o rest
    BY <1>2, ConcatFirst
  <2>2. Append(Out, p) \in Seq(Parts)
    BY <1>2, AppendProperties
  <2> QED
    BY <2>1, <2>2
<1>5. CASE UNCHANGED body
  BY <1>3, <1>4, <1>5, UnseenStep
<1>6. CASE body' = Append(Out, p)
  <2>1. /\ body' = SubSeq(Complete, 1, Len(body')) /\ Len(body') <= Len(Complete)
        /\ Len(body') \in Nat /\ Len(Complete) \in Nat
    BY <1>4, <1>6, PrefixOf
  <2>2. Len(body') = Len(Out) + 1 /\ Len(body) <= Len(Out) /\ Len(Out) \in Nat /\ Len(body) \in Nat
    BY <1>2, <1>6 DEF Out
  <2>3. Len(body') \in Len(body) + 1 .. Len(Complete)
    BY <2>1, <2>2
  <2>4. Promise!Send
    <3> HIDE DEF Out
    <3> QED
      BY <1>1, <2>1, <2>3 DEF Promise!Send, Promise!Streaming, Promise!Upto
  <2>5. Promise!Next
    BY <2>4, SamePage DEF Promise!Next, Promise!page
  <2> QED
    BY <1>3, <1>4, <2>5 DEF Refines
<1>7. UNCHANGED body \/ body' = Append(Out, p)
  BY DEF Emit, Out
<1> QED
  BY <1>5, <1>6, <1>7

\* The first part of a piece of the page is put out; the others are to come.
LEMMA EmitFirst ==
  ASSUME PInv, ended = "no", ~InView, NEW p \in Parts, NEW some \in Seq(Parts),
         NEW rest \in Seq(Parts), NEW piece, piece = <<p>> \o some,
         Out \o (piece \o rest) = Complete,
         Emit(p), UNCHANGED <<req, total, status, ended>>
  PROVE  Out' \o (some \o rest) = Complete /\ Refines
<1>1. <<p>> \in Seq(Parts) /\ some \o rest \in Seq(Parts)
  BY ConcatFirst, ConcatProperties
<1>2. piece \o rest = <<p>> \o (some \o rest)
  BY <1>1, ConcatAssociative
<1>3. Out \o (<<p>> \o (some \o rest)) = Complete
  BY <1>2
<1> HIDE DEF Out, Emit, Complete, Refines
<1> QED
  BY <1>1, <1>3, EmitAdvances

\* An exception before the response has its status is answered with an error.
LEMMA RefuseRefines ==
  ASSUME PInv, ended = "no", InView, NEW S, S \subseteq Refusals, Refuse(S),
         UNCHANGED <<req, total>>
  PROVE  Refines
<1>1. status = "none"
  BY DEF PInv, Served
<1>2. Promise!Refuse
  BY <1>1 DEF Refuse, Promise!Refuse
<1> QED
  BY <1>2, SamePage DEF Refines, Promise!Next, Promise!page

\* One after it cuts off the page, with the marker.
LEMMA AbortRefines ==
  ASSUME PInv, ended = "no", ~InView, Abort, UNCHANGED <<req, total>>
  PROVE  Refines
<1>1. TInv /\ Servable /\ status = "200"
  BY DEF PInv, Served
<1>2. PICK rest \in Seq(Parts) : Out \o rest = Complete
  BY SomethingToCome
<1>3. Len(Out) \in Len(body) .. Len(Complete) /\ Out = SubSeq(Complete, 1, Len(Out))
  BY <1>1, <1>2, OutIsPrefix
<1>4. body' = Append(SubSeq(Complete, 1, Len(Out)), Marker)
  BY <1>3 DEF Abort, Out
<1>5. Promise!Abort
  BY <1>1, <1>3, <1>4 DEF Abort, Promise!Abort, Promise!Streaming, Promise!Upto
<1> QED
  BY <1>5, SamePage DEF Refines, Promise!Next, Promise!page

\* Every error of the handler is one that the promise allows.
LEMMA RaiseRefines ==
  ASSUME PInv, TInv', ended = "no",
         \/ RefusePage \/ RefuseEmbeds \/ RefuseEmptyPage \/ IterationFails \/ SectionFails
  PROVE  PInv' /\ Refines
<1>1. PICK S : Raise(S)
  BY DEF RefusePage, RefuseEmbeds, RefuseEmptyPage, IterationFails, SectionFails
<1>2. UNCHANGED <<req, total>> /\ ended' # "no"
  BY <1>1 DEF Raise, Refuse, Abort
<1>3. CASE ~InView
  <2>1. Abort
    BY <1>1, <1>3 DEF Raise
  <2> QED
    BY <1>2, <1>3, <2>1, AbortRefines DEF PInv
<1>4. CASE InView
  <2>1. PICK R : Raise(R) /\ R \subseteq Refusals
    <3>1. CASE RefusePage
      BY <3>1 DEF RefusePage, Refusals
    <3>2. CASE RefuseEmbeds
      <4>1. PageAccepted
        BY <3>2 DEF RefuseEmbeds, PInv, TInv, IInv, Counted
      <4> QED
        BY <3>2, <4>1 DEF RefuseEmbeds, Refusals
    <3>3. CASE RefuseEmptyPage
      <4>1. Wanted /\ IsEmptyPage /\ it.returned = SliceLength /\ Raise({"404"})
        BY <3>3 DEF RefuseEmptyPage, Exhausted, Reading, Filling
      <4>2. PageAccepted /\ EmbedsSupported
        BY <4>1 DEF Wanted, PInv, TInv, IInv, Counted
      <4>3. req.paginated /\ req.page > 1 /\ SliceLength = 0
        BY <4>1 DEF IsEmptyPage
      <4>4. EmptyLaterPage
        <5>1. req.page \in Nat \ {0} /\ total \in Nat
          BY <4>2, <4>3 DEF PageAccepted, PInv, TInv
        <5> DEFINE s == (req.page - 1) * PageSize
        <5>2. s \in Nat /\ SliceStart = s
          BY <4>3, <5>1 DEF SliceStart
        <5> HIDE DEF s
        <5>3. SliceLength = IF total < s THEN 0
                            ELSE IF s + PageSize + 1 < total THEN PageSize + 1 ELSE total - s
          BY <4>3, <5>1, <5>2 DEF SliceLength, SliceEnd
        <5>4. total <= s
          BY <4>3, <5>1, <5>2, <5>3
        <5> QED
          BY <4>3, <5>4 DEF EmptyLaterPage, s
      <4> QED
        BY <4>1, <4>2, <4>4 DEF Refusals
    <3>4. CASE IterationFails
      <4>1. Raise(Errors) /\ EmbedsSupported /\ PageAccepted
        BY <3>4 DEF IterationFails, Wanted, PInv, TInv, IInv, Counted
      <4> QED
        BY <4>1 DEF Refusals
    <3>5. CASE SectionFails
      BY <1>4, <3>5 DEF SectionFails, InView
    <3> QED
      BY <3>1, <3>2, <3>3, <3>4, <3>5
  <2>2. Refuse(R)
    BY <1>4, <2>1 DEF Raise
  <2> QED
    BY <1>2, <1>4, <2>1, <2>2, RefuseRefines DEF PInv
<1> QED
  BY <1>3, <1>4

\* The steps of the iterators before the row is served.
LEMMA FillingRefines ==
  ASSUME PInv, TInv', ended = "no", AcceptPage \/ ReadRow \/ Exhaust \/ EndChunk \/ Prefetch
  PROVE  PInv' /\ Refines
<1>1. UNCHANGED <<req, total, held, nr, found, buffer, status, body, ended>>
  BY DEF AcceptPage, ReadRow, Exhaust, EndChunk, Prefetch, Exhausted, Reading, Filling, Wanted,
         iteration, rendering, response
<1>2. TInv /\ IInv /\ Served /\ Admitted /\ InHand /\ Progress
  BY DEF PInv, TInv
<1>3. part' = part \/ (part = "paginate" /\ part' = "view")
  BY DEF AcceptPage, ReadRow, Exhaust, EndChunk, Prefetch, Exhausted, Reading, Filling, Wanted,
         iteration, rendering, response
<1>4. Passed' = Passed
  <2>1. AcceptPage => Passed' = Passed
    BY DEF AcceptPage, iteration, Passed, Kept
  <2> QED
    BY <1>2, <2>1, ReadRowKeeps, ExhaustKeeps, StepKeeps
<1>5. Admitted'
  <2>1. EmbedsSupported' = EmbedsSupported
    BY <1>1, SamePage
  <2>2. step' # "fill" => EmbedsSupported
    BY <1>2 DEF AcceptPage, ReadRow, Exhaust, EndChunk, Prefetch, Exhausted, Reading, Filling,
                Wanted, iteration, Admitted
  <2>3. it'.iterated => ~IsEmptyPage'
    <3>1. CASE ReadRow
      <4>1. it'.returned = it.returned + 1 /\ it.returned \in Nat
        BY <1>2, <3>1 DEF ReadRow, Watched, IInv, Types
      <4> QED
        BY <4>1 DEF IsEmptyPage
    <3>2. CASE Exhaust
      <4>1. it'.returned = it.returned
        BY <1>2, <3>2 DEF Exhaust, IInv, Types
      <4> QED
        BY <1>1, <3>2, <4>1 DEF Exhaust, IsEmptyPage
    <3>3. CASE AcceptPage \/ EndChunk \/ Prefetch
      <4>1. it' = it
        BY <3>3 DEF AcceptPage, EndChunk, Prefetch, iteration
      <4> QED
        BY <1>1, <1>2, <4>1 DEF Admitted, IsEmptyPage
    <3> QED
      BY <3>1, <3>2, <3>3
  <2> QED
    BY <2>1, <2>2, <2>3 DEF Admitted
<1>6. Served'
  BY <1>1, <1>2, <1>3, SamePage DEF Served, InView
<1>7. InHand'
  <2>1. part = "paginate" => held = <<>>
    BY <1>2 DEF IInv, Fresh
  <2> QED
    BY <1>1, <1>2, <1>3, <1>4, <2>1, SamePage DEF InHand
<1>8. Progress'
  <2>1. Drawn' = Drawn /\ Out' = Out
    BY <1>1, <1>4 DEF Drawn, Out
  <2>2. \A n : RowsFrom(n)' = RowsFrom(n)
    BY <1>1, SamePage
  <2>3. part \in {"paginate", "view", "main"}
    BY DEF AcceptPage, ReadRow, Exhaust, EndChunk, Prefetch, Exhausted, Reading, Filling, Wanted
  <2>4. part' = "main" => Out' \o (RowsFrom(Drawn)' \o Rest[1]') = Complete'
    BY <1>1, <1>2, <1>3, <2>1, <2>2, SamePage DEF Progress
  <2> QED
    BY <1>1, <1>2, <1>3, <2>3, <2>4 DEF Progress
<1> QED
  BY <1>1, <1>5, <1>6, <1>7, <1>8, UnseenStep DEF PInv

\* A page that has a row, or that is the first one, can be served.
LEMMA ServableAtPeek ==
  ASSUME PInv, ended = "no", part = "view", EmbedsSupported,
         SliceLength > 0 \/ ~(req.paginated /\ req.page > 1)
  PROVE  Servable
<1>1. PageAccepted /\ total \in Nat /\ req.paginated \in BOOLEAN /\ SliceLength \in Nat
  BY SliceFacts DEF PInv, TInv, IInv, Counted, Types, Requests
<1>2. ~EmptyLaterPage
  <2> SUFFICES ASSUME req.paginated, req.page > 1
               PROVE  ~(total <= (req.page - 1) * PageSize)
    BY <1>1 DEF EmptyLaterPage
  <2>1. req.page \in Nat \ {0}
    BY <1>1 DEF PageAccepted
  <2> DEFINE s == (req.page - 1) * PageSize
  <2>2. s \in Nat /\ SliceStart = s
    BY <2>1 DEF SliceStart
  <2> HIDE DEF s
  <2>3. SliceLength = IF total < s THEN 0
                      ELSE IF s + PageSize + 1 < total THEN PageSize + 1 ELSE total - s
    BY <1>1, <2>2 DEF SliceLength, SliceEnd
  <2>4. ~(total <= s)
    BY <1>1, <2>2, <2>3
  <2> QED
    BY <2>4 DEF s
<1> QED
  BY <1>1, <1>2 DEF Servable

LEMMA AcceptRefines ==
  ASSUME PInv, ended = "no", part = "view", Servable, status' = "200",
         UNCHANGED <<req, total, body, ended>>
  PROVE  Refines
<1>1. Promise!Accept
  BY DEF PInv, Served, InView, Promise!Accept
<1> QED
  BY <1>1, SamePage DEF Refines, Promise!Next, Promise!page

LEMMA ServeRefines ==
  ASSUME PInv, TInv', ended = "no", Serve
  PROVE  PInv' /\ Refines
<1>1. /\ part \in {"view", "main"} /\ step = "serve" /\ held = <<>> /\ EmbedsSupported
      /\ held' = <<Head(chunk)>>
      /\ UNCHANGED <<req, total, it, nr, found, buffer, body, ended>>
      /\ part = "view" => part' = "head" /\ status' = "200"
      /\ part = "main" => part' = "main" /\ status' = status
  BY DEF Serve, Wanted, Peeked
<1>2. TInv /\ IInv /\ Served /\ Admitted /\ InHand /\ Progress /\ Types /\ Phases
  BY DEF PInv, TInv, IInv
<1>3. Passed' = Passed + 1 /\ Head(chunk) = SliceStart + Passed + 1
  BY <1>2, ServeKeeps
<1>4. Passed \in Nat /\ Kept \in Nat /\ SliceStart \in Nat /\ Len(chunk) \in Nat \ {0}
      /\ SliceLength \in Nat
  <2>1. Passed \in Nat /\ Kept \in Nat
    BY <1>1, <1>2, KeptFacts DEF IInv
  <2>2. SliceStart \in Nat /\ SliceLength \in Nat
    BY <1>1, <1>2, SliceFacts DEF IInv, Counted
  <2>3. chunk \in Seq(Nat) /\ chunk # <<>>
    BY <1>1, <1>2 DEF Types, Phases
  <2> QED
    BY <2>1, <2>2, <2>3
<1>5. SliceLength > 0
  <2>1. Len(chunk) <= Kept /\ Kept <= it.returned /\ it.returned <= SliceLength /\ it.returned \in Nat
    BY <1>1, <1>2 DEF IInv, ReadAhead, Counted, Kept, Types
  <2> QED
    BY <1>4, <2>1
<1>6. part = "view" => Servable
  BY <1>1, <1>5, ServableAtPeek
<1>7. Servable' = Servable /\ SliceStart' = SliceStart /\ EmbedsSupported'
      /\ Complete' = Complete /\ Rest' = Rest /\ \A n : RowsFrom(n)' = RowsFrom(n)
  BY <1>1, SamePage
<1>8. Served'
  BY <1>1, <1>2, <1>6, <1>7 DEF Served, InView
<1>9. Admitted'
  BY <1>1, <1>2, <1>7 DEF Admitted, IsEmptyPage
<1>10. InHand'
  <2>1. Passed' > 0 /\ SliceStart' + Passed' = Head(chunk)
    BY <1>3, <1>4, <1>7
  <2> QED
    BY <1>1, <2>1 DEF InHand
<1>11. Drawn' = Drawn /\ Out' = Out /\ Drawn = Passed
  <2>1. Len(held) = 0 /\ Len(held') = 1
    BY <1>1
  <2> QED
    BY <1>1, <1>3, <1>4, <2>1 DEF Drawn, Out
<1>12. Progress'
  <2>1. CASE part = "view"
    <3>1. Out = <<>> /\ Passed = 0
      BY <1>2, <2>1 DEF Served, InView, Out, Phases
    <3> QED
      BY <1>1, <1>2, <1>11, <2>1, <3>1 DEF Progress
  <2>2. CASE part = "main"
    <3>1. Out' \o (RowsFrom(Drawn)' \o Rest[1]') = Complete'
      BY <1>2, <1>7, <1>11, <2>2 DEF Progress
    <3> QED
      BY <1>1, <1>2, <2>2, <3>1 DEF Progress
  <2> QED
    BY <1>1, <2>1, <2>2
<1>13. Refines
  BY <1>1, <1>6, AcceptRefines, UnseenStep
<1> QED
  BY <1>8, <1>9, <1>10, <1>12, <1>13 DEF PInv

LEMMA PeekNothingRefines ==
  ASSUME PInv, TInv', ended = "no", PeekNothing
  PROVE  PInv' /\ Refines
<1>1. /\ part = "view" /\ part' = "head" /\ step = "stop" /\ status' = "200"
      /\ UNCHANGED <<req, total, it, chunk, step, held, nr, found, buffer, body, ended>>
  BY DEF PeekNothing, Peeked, iteration
<1>2. TInv /\ IInv /\ Served /\ Admitted /\ InHand /\ Progress /\ Types /\ Phases
  BY DEF PInv, TInv, IInv
<1>3. EmbedsSupported /\ ~IsEmptyPage /\ chunk = <<>> /\ Passed = 0 /\ it.iterated
  BY <1>1, <1>2 DEF Admitted, Phases
<1>4. it.returned = 0
  <2>1. Kept = 0 /\ it.returned \in Nat
    BY <1>1, <1>2, <1>3, KeptFacts DEF IInv, Passed, Types
  <2> QED
    BY <2>1 DEF Kept
<1>5. Servable
  BY <1>1, <1>3, <1>4, ServableAtPeek DEF IsEmptyPage
<1>6. Passed' = Passed /\ held = <<>> /\ Out = <<>> /\ Out' = <<>>
  BY <1>1, <1>2 DEF Passed, Kept, InHand, Out, Served, InView
<1>7. Servable' /\ EmbedsSupported'
  BY <1>1, <1>3, <1>5, SamePage
<1>8. Served' /\ Admitted' /\ InHand'
  BY <1>1, <1>2, <1>6, <1>7 DEF Served, InView, Admitted, InHand, IsEmptyPage
<1>9. Progress'
  <2>1. Drawn' = Passed' - Len(held')
    BY DEF Drawn
  <2>2. Passed' = 0
    BY <1>3, <1>6
  <2>3. Len(held') = 0
    BY <1>1, <1>6
  <2>4. Drawn' = 0
    BY <2>1, <2>2, <2>3
  <2> QED
    BY <1>1, <1>2, <1>6, <2>4 DEF Progress
<1> QED
  BY <1>1, <1>5, <1>8, <1>9, AcceptRefines DEF PInv

LEMMA RenderHeadRefines ==
  ASSUME PInv, TInv', ended = "no", RenderHead
  PROVE  PInv' /\ Refines
<1>1. /\ part = "head" /\ part' = "main" /\ Emit(Head0) /\ ~InView
      /\ UNCHANGED <<req, total, it, chunk, step, held, nr, found, status, ended>>
  BY DEF RenderHead, iteration, InView
<1>2. TInv /\ Served /\ Admitted /\ InHand /\ Progress /\ Servable
  BY <1>1 DEF PInv, Served
<1>3. Out = <<>> /\ Drawn = 0 /\ nr = 0
  BY <1>1, <1>2 DEF Progress
<1>4. Complete = <<Head0>> \o (RowsFrom(0) \o Rest[1]) /\ RowsFrom(0) \o Rest[1] \in Seq(Parts)
      /\ Complete \in Seq(Parts)
  BY <1>2, CompleteParts
<1>5. Out \o (<<Head0>> \o (RowsFrom(0) \o Rest[1])) = Complete
  BY <1>3, <1>4, ConcatEmptySeq
<1>6. Out' \o (RowsFrom(0) \o Rest[1]) = Complete /\ Refines
  BY <1>1, <1>4, <1>5, PartTypes, EmitAdvances
<1>7. Passed' = Passed /\ Drawn' = 0
  BY <1>1, <1>3 DEF Passed, Kept, Drawn
<1>8. Servable' /\ EmbedsSupported' = EmbedsSupported /\ SliceStart' = SliceStart
      /\ Complete' = Complete /\ Rest' = Rest /\ \A n : RowsFrom(n)' = RowsFrom(n)
  BY <1>1, <1>2, SamePage
<1>9. Progress'
  <2>1. Out' \o (RowsFrom(Drawn)' \o Rest[1]') = Complete'
    BY <1>6, <1>7, <1>8
  <2> QED
    BY <1>1, <1>3, <2>1 DEF Progress
<1>10. Served' /\ Admitted' /\ InHand'
  BY <1>1, <1>2, <1>7, <1>8 DEF Served, InView, Admitted, InHand, IsEmptyPage
<1> QED
  BY <1>6, <1>9, <1>10 DEF PInv

LEMMA RenderRowRefines ==
  ASSUME PInv, TInv', ended = "no", RenderRow
  PROVE  PInv' /\ Refines
<1> DEFINE p == Row(SliceStart + Passed)
<1>1. /\ part = "main" /\ part' = "main" /\ held # <<>> /\ held' = <<>> /\ ~InView
      /\ Emit(Row(Head(held)))
      /\ UNCHANGED <<req, total, it, chunk, step, nr, found, status, ended>>
  BY DEF RenderRow, iteration, InView
<1>2. TInv /\ IInv /\ Served /\ Admitted /\ InHand /\ Progress /\ Servable
  BY <1>1 DEF PInv, Served, TInv
<1>3. held = <<SliceStart + Passed>> /\ Passed > 0
  BY <1>1, <1>2 DEF InHand
<1>4. Passed \in Nat /\ Passed <= Cardinality(PageRows) /\ Cardinality(PageRows) \in Nat
      /\ SliceStart \in Nat
  <2>1. Passed \in Nat /\ FirstRows(Passed) \subseteq PageRows
    BY <1>1, <1>2, KeptFacts DEF IInv
  <2> QED
    BY <1>2, <2>1, PartsToCome DEF Servable
<1>5. Head(held) = SliceStart + Passed /\ Len(held) = 1 /\ Len(held') = 0
  BY <1>1, <1>3
<1>6. Emit(p) /\ Drawn = Passed - 1 /\ Drawn' = Passed /\ Passed' = Passed
  BY <1>1, <1>4, <1>5 DEF Drawn, Passed, Kept
<1>7. p \in Parts
  <2>1. SliceStart + Passed \in 1 .. MaxRows
    <3>1. PICK r \in 1 .. MaxRows : held = <<r>>
      BY <1>1, <1>2 DEF TInv, RenderTypes
    <3>2. Head(held) = r
      BY <3>1
    <3> QED
      BY <1>5, <3>2
  <2> QED
    BY <2>1, PartTypes
<1>8. /\ RowsFrom(Passed) \in Seq(Parts) /\ RowsFrom(Passed - 1) \in Seq(Parts)
      /\ Rest[1] \in Seq(Parts)
  <2>1. 1 \in 1 .. Len(Embeds) + 1
    BY EmbedsAssumption
  <2>2. Passed - 1 \in Nat
    BY <1>3, <1>4
  <2> QED
    BY <1>2, <1>4, <2>1, <2>2, PartsToCome DEF Servable
<1>9. RowsFrom(Passed - 1) = <<p>> \o RowsFrom(Passed)
  <2> DEFINE m == Cardinality(PageRows) - Passed
  <2>1. m \in Nat /\ Cardinality(PageRows) - (Passed - 1) = m + 1
    BY <1>3, <1>4
  <2>2. /\ RowsFrom(Passed) = [i \in 1 .. m |-> Row(SliceStart + Passed + i)]
        /\ RowsFrom(Passed - 1) = [i \in 1 .. m + 1 |-> Row(SliceStart + (Passed - 1) + i)]
    BY <2>1 DEF RowsFrom
  <2> HIDE DEF m
  <2>3. Len(RowsFrom(Passed)) = m /\ Len(RowsFrom(Passed - 1)) = m + 1
    BY <2>1, <2>2
  <2>4. <<p>> \in Seq(Parts) /\ Len(<<p>>) = 1 /\ <<p>>[1] = p
    BY <1>7
  <2>5. /\ <<p>> \o RowsFrom(Passed) \in Seq(Parts)
        /\ Len(<<p>> \o RowsFrom(Passed)) = m + 1
        /\ \A i \in 1 .. 1 + m : (<<p>> \o RowsFrom(Passed))[i] =
             IF i <= 1 THEN <<p>>[i] ELSE RowsFrom(Passed)[i - 1]
    <3> HIDE DEF p
    <3> QED
      BY <1>8, <2>1, <2>3, <2>4, ConcatProperties
  <2>6. ASSUME NEW i \in 1 .. m + 1
        PROVE  RowsFrom(Passed - 1)[i] = (<<p>> \o RowsFrom(Passed))[i]
    <3>1. RowsFrom(Passed - 1)[i] = Row(SliceStart + (Passed - 1) + i)
      BY <2>2
    <3>2. CASE i = 1
      <4>1. SliceStart + (Passed - 1) + i = SliceStart + Passed
        BY <1>4, <3>2
      <4> QED
        BY <2>1, <2>4, <2>5, <3>1, <3>2, <4>1
    <3>3. CASE i # 1
      <4>1. i - 1 \in 1 .. m /\ SliceStart + (Passed - 1) + i = SliceStart + Passed + (i - 1)
            /\ ~(i <= 1) /\ i \in 1 .. 1 + m
        BY <1>4, <2>1, <3>3
      <4>2. RowsFrom(Passed)[i - 1] = Row(SliceStart + Passed + (i - 1))
        BY <2>2, <4>1
      <4> QED
        BY <2>5, <3>1, <4>1, <4>2
    <3> QED
      BY <3>2, <3>3
  <2> QED
    BY <1>8, <2>1, <2>3, <2>5, <2>6, SeqEqual
<1> HIDE DEF p
<1>10. Out \o (RowsFrom(Passed - 1) \o Rest[1]) = Complete
  BY <1>1, <1>2, <1>6 DEF Progress
<1>11. Out' \o (RowsFrom(Passed) \o Rest[1]) = Complete /\ Refines
  BY <1>1, <1>6, <1>7, <1>8, <1>9, <1>10, EmitFirst
<1>12. Servable' /\ EmbedsSupported' = EmbedsSupported /\ SliceStart' = SliceStart
       /\ Complete' = Complete /\ Rest' = Rest /\ \A n : RowsFrom(n)' = RowsFrom(n)
  BY <1>1, <1>2, SamePage
<1>13. Progress'
  <2>1. Out' \o (RowsFrom(Drawn)' \o Rest[1]') = Complete'
    BY <1>6, <1>11, <1>12
  <2> QED
    BY <1>1, <1>2, <2>1 DEF Progress
<1>14. Served' /\ Admitted' /\ InHand'
  BY <1>1, <1>2, <1>12 DEF Served, InView, Admitted, InHand, IsEmptyPage
<1> QED
  BY <1>11, <1>13, <1>14 DEF PInv

\* The step to the next section, from the end of the rows or of a section.
LEMMA NextCollectionRefines ==
  ASSUME PInv, TInv', ended = "no", NextCollection, Out \o Rest[nr + 1] = Complete, ~InView,
         UNCHANGED <<req, total, it, chunk, step, ids, held, found, status, ended>>
  PROVE  PInv' /\ Refines
<1>1. TInv /\ IInv /\ Served /\ Admitted /\ InHand /\ Progress /\ Servable /\ PageAccepted
  BY DEF PInv, Served, TInv, Servable
<1>2. nr \in 0 .. Len(Embeds) /\ Len(Embeds) \in Nat
  BY <1>1, EmbedsAssumption DEF TInv, RenderTypes
<1>3. part' \in {"section", "footer"}
  BY DEF NextCollection
<1>4. Servable' /\ EmbedsSupported' = EmbedsSupported /\ SliceStart' = SliceStart
      /\ Complete' = Complete /\ Rest' = Rest /\ FooterParts' = FooterParts
      /\ PageRows' = PageRows
  BY <1>1, SamePage
<1>5. Passed' = Passed
  BY DEF Passed, Kept
<1>6. Served' /\ Admitted' /\ InHand'
  BY <1>1, <1>3, <1>4, <1>5 DEF Served, InView, Admitted, InHand, IsEmptyPage
<1>7. CASE Later # {}
  <2>0. PICK k : k = Min(Later)
    OBVIOUS
  <2> DEFINE e == Embeds[k]
             o == EmbeddedParts(e, Objects(e, PageKeys(e)))
  <2>1. k \in Later /\ k \in nr + 1 .. Len(Embeds)
        /\ \A i \in nr + 1 .. k - 1 : Embeds[i] \notin req.expand
    BY <1>2, <1>7, <2>0, MinLater
  <2>2. e \in req.expand /\ k \in 1 .. Len(Embeds)
    BY <1>2, <2>1 DEF Later
  <2>3. part' = "section" /\ nr' = k /\ Emit(Section(e))
    BY <1>7, <2>0 DEF NextCollection
  <2>4. Rest[nr + 1] = Rest[k]
    <3>1. nr + 1 \in Nat /\ k \in Nat /\ 1 <= nr + 1 /\ nr + 1 <= k /\ k <= Len(Embeds) + 1
      BY <1>2, <2>1
    <3> QED
      BY <2>1, <3>1, RestSkips
  <2> HIDE DEF e, o
  <2>5. e \in EmbedNames /\ k + 1 \in 1 .. Len(Embeds) + 1
    BY <1>2, <2>2 DEF EmbedNames, e
  <2>6. Rest[k] = SectionParts(e) \o Rest[k + 1]
    <3>1. k \in 1 .. Len(Embeds) + 1 /\ ~(k > Len(Embeds))
      BY <1>2, <2>2
    <3> QED
      BY <2>2, <3>1, RestEquation DEF e
  <2>7. SectionParts(e) = <<Section(e)>> \o o
    BY DEF SectionParts, EmbeddedParts, o
  <2>8. Section(e) \in Parts
    BY <2>5, PartTypes
  <2>9. o \in Seq(Parts) /\ Rest[k + 1] \in Seq(Parts)
    <3>1. Objects(e, PageKeys(e)) \in Seq(JoinedObjects(e))
      BY <2>5, ObjectsType
    <3> QED
      BY <1>1, <2>5, <3>1, PartsToCome DEF o
  <2>10. Out \o (SectionParts(e) \o Rest[k + 1]) = Complete
    BY <2>4, <2>6
  <2>11. Out' \o (o \o Rest[k + 1]) = Complete /\ Refines
    BY <2>3, <2>7, <2>8, <2>9, <2>10, EmitFirst
  <2>12. Progress'
    <3>1. Embeds[nr]' = e
      BY <2>3 DEF e
    <3>2. PageKeys(Embeds[nr])' = PageKeys(e)
      BY <1>4, <3>1 DEF PageKeys
    <3>3. EmbeddedParts(Embeds[nr], Objects(Embeds[nr], PageKeys(Embeds[nr])))' = o
      BY <3>1, <3>2 DEF o
    <3>4. Rest[nr + 1]' = Rest[k + 1]
      BY <1>4, <2>3
    <3>5. (Out \o (EmbeddedParts(Embeds[nr], Objects(Embeds[nr], PageKeys(Embeds[nr])))
                     \o Rest[nr + 1]) = Complete)'
      BY <1>4, <2>11, <3>3, <3>4
    <3> QED
      BY <2>3, <3>5 DEF Progress
  <2> QED
    BY <1>6, <2>11, <2>12 DEF PInv
<1>8. CASE Later = {}
  <2>1. part' = "footer" /\ UNCHANGED <<nr, buffer, body>>
    BY <1>8 DEF NextCollection
  <2>2. Rest[nr + 1] = FooterParts
    <3> DEFINE N1 == Len(Embeds) + 1
    <3>1. \A i \in nr + 1 .. N1 - 1 : Embeds[i] \notin req.expand
      BY <1>2, <1>8 DEF Later
    <3>2. nr + 1 \in Nat /\ N1 \in Nat /\ 1 <= nr + 1 /\ nr + 1 <= N1 /\ N1 <= Len(Embeds) + 1
          /\ N1 > Len(Embeds) /\ N1 \in 1 .. Len(Embeds) + 1
      BY <1>2
    <3>3. Rest[nr + 1] = Rest[N1]
      <4> HIDE DEF N1
      <4> QED
        BY <3>1, <3>2, RestSkips
    <3>4. Rest[N1] = FooterParts
      <4> HIDE DEF N1
      <4> QED
        BY <3>2, RestEquation
    <3> QED
      BY <3>3, <3>4
  <2>3. Out' = Out /\ Out' \o FooterParts' = Complete'
    BY <1>4, <2>1, <2>2 DEF Out
  <2>4. Progress'
    BY <2>1, <2>3 DEF Progress
  <2> QED
    BY <1>6, <2>1, <2>4, UnseenStep DEF PInv
<1> QED
  BY <1>7, <1>8
\* The last row is followed by the first section.
LEMMA EndMainRefines ==
  ASSUME PInv, TInv', ended = "no", EndMain
  PROVE  PInv' /\ Refines
<1>1. /\ part = "main" /\ held = <<>> /\ step = "stop" /\ NextCollection /\ ~InView
      /\ UNCHANGED <<req, total, it, chunk, step, ids, held, found, status, ended>>
  BY DEF EndMain, iteration, InView
<1>2. TInv /\ IInv /\ Served /\ Progress /\ Servable /\ Phases /\ PageAccepted
  BY <1>1 DEF PInv, Served, TInv, IInv, Servable
<1>3. it.iterated /\ chunk = <<>>
  BY <1>1, <1>2 DEF Phases
<1>4. Kept \in Nat /\ Kept = Cardinality(PageRows)
  <2>1. Kept \in Nat /\ FirstRows(Kept) = PageRows
    BY <1>1, <1>2, <1>3, KeptFacts DEF IInv
  <2> QED
    BY <1>2, <2>1, PartsToCome
<1>5. Drawn = Kept
  <2>1. Len(chunk) = 0 /\ Len(held) = 0
    BY <1>1, <1>3
  <2> QED
    BY <1>4, <2>1 DEF Drawn, Passed
<1>6. RowsFrom(Drawn) = <<>>
  <2>1. Cardinality(PageRows) - Drawn = 0
    BY <1>4, <1>5
  <2>2. RowsFrom(Drawn) = [i \in 1 .. 0 |-> Row(SliceStart + Drawn + i)]
    BY <2>1 DEF RowsFrom
  <2>3. 1 .. 0 = {}
    OBVIOUS
  <2> QED
    BY <2>2, <2>3
<1>7. Rest[1] \in Seq(Parts)
  <2>1. 1 \in 1 .. Len(Embeds) + 1
    BY EmbedsAssumption
  <2> QED
    BY <1>2, <2>1, PartsToCome
<1>8. Out \o Rest[nr + 1] = Complete
  <2>1. Out \o (RowsFrom(Drawn) \o Rest[1]) = Complete /\ nr + 1 = 1
    BY <1>1, <1>2 DEF Progress
  <2>2. <<>> \o Rest[1] = Rest[1]
    BY <1>7, ConcatEmptySeq
  <2> QED
    BY <1>6, <2>1, <2>2
<1> QED
  BY <1>1, <1>8, NextCollectionRefines

LEMMA EndSectionRefines ==
  ASSUME PInv, TInv', ended = "no", EndSection
  PROVE  PInv' /\ Refines
<1>1. /\ part = "embed" /\ found = <<>> /\ NextCollection /\ ~InView
      /\ UNCHANGED <<req, total, it, chunk, step, ids, held, found, status, ended>>
  BY DEF EndSection, iteration, InView
<1>2. TInv /\ Progress /\ PageAccepted /\ nr \in 1 .. Len(Embeds)
  BY <1>1 DEF PInv, Served, Servable, TInv, Placed
<1>3. EmbeddedParts(Embeds[nr], found) = <<>>
  <2>1. DOMAIN found = {}
    BY <1>1
  <2> QED
    BY <2>1 DEF EmbeddedParts
<1>4. Rest[nr + 1] \in Seq(Parts)
  <2>1. nr + 1 \in 1 .. Len(Embeds) + 1
    BY <1>2, EmbedsAssumption
  <2> QED
    BY <1>2, <2>1, PartsToCome
<1>5. Out \o Rest[nr + 1] = Complete
  <2>1. Out \o (EmbeddedParts(Embeds[nr], found) \o Rest[nr + 1]) = Complete
    BY <1>1, <1>2 DEF Progress
  <2>2. <<>> \o Rest[nr + 1] = Rest[nr + 1]
    BY <1>4, ConcatEmptySeq
  <2> QED
    BY <1>3, <2>1, <2>2
<1> QED
  BY <1>1, <1>5, NextCollectionRefines

\* A section is asked for the keys of the page, so it gets the objects it must show.
LEMMA OpenSectionRefines ==
  ASSUME PInv, TInv', ended = "no", OpenSection
  PROVE  PInv' /\ Refines
<1>1. /\ part = "section" /\ part' = "embed"
      /\ found' = Objects(Embeds[nr], ids[Embeds[nr]])
      /\ UNCHANGED <<req, total, it, chunk, step, ids, held, nr, buffer, status, body, ended>>
  BY DEF OpenSection, iteration, response
<1>2. TInv /\ IInv /\ Served /\ Admitted /\ InHand /\ Progress /\ Servable
  BY <1>1 DEF PInv, Served, InView, TInv
<1>3. Embeds[nr] \in req.expand
  BY <1>1, <1>2 DEF TInv, Placed
<1>4. ids[Embeds[nr]] = PageKeys(Embeds[nr])
  BY <1>1, <1>2, <1>3, SectionKeys DEF EmbedsMatchPage
<1>5. Servable' /\ EmbedsSupported' = EmbedsSupported /\ SliceStart' = SliceStart
      /\ Complete' = Complete /\ Rest' = Rest
  BY <1>1, <1>2, SamePage
<1>6. Passed' = Passed /\ Out' = Out
  BY <1>1 DEF Passed, Kept, Out
<1>7. Progress'
  <2>1. found' = Objects(Embeds[nr], PageKeys(Embeds[nr]))
    BY <1>1, <1>4
  <2>2. Out \o (EmbeddedParts(Embeds[nr], found') \o Rest[nr + 1]) = Complete
    BY <1>1, <1>2, <2>1 DEF Progress
  <2>3. EmbeddedParts(Embeds[nr], found)' = EmbeddedParts(Embeds[nr], found')
    BY <1>1 DEF EmbeddedParts
  <2>4. (Out \o (EmbeddedParts(Embeds[nr], found) \o Rest[nr + 1]) = Complete)'
    BY <1>1, <1>5, <1>6, <2>2, <2>3
  <2> QED
    BY <1>1, <2>4 DEF Progress
<1>8. Served' /\ Admitted' /\ InHand'
  BY <1>1, <1>2, <1>5, <1>6 DEF Served, InView, Admitted, InHand, IsEmptyPage
<1> QED
  BY <1>1, <1>7, <1>8, UnseenStep DEF PInv

LEMMA FirstEmbedded ==
  ASSUME TInv, PageAccepted, NEW e \in EmbedNames, NEW s \in Seq(JoinedObjects(e)), s # <<>>
  PROVE  EmbeddedParts(e, s) = <<Embedded(e, Head(s))>> \o EmbeddedParts(e, Tail(s))
<1>0. PICK p, t, E, F : /\ p = Embedded(e, Head(s)) /\ t = Tail(s)
                        /\ E = EmbeddedParts(e, s) /\ F = EmbeddedParts(e, t)
  OBVIOUS
<1>1. Head(s) \in JoinedObjects(e) /\ t \in Seq(JoinedObjects(e))
      /\ Len(s) \in Nat \ {0} /\ Len(t) = Len(s) - 1 /\ Head(s) = s[1]
      /\ \A i \in 1 .. Len(t) : t[i] = s[i + 1]
  BY <1>0, HeadTailProperties
<1>2. p \in Parts /\ E \in Seq(Parts) /\ F \in Seq(Parts)
  BY <1>0, <1>1, PartTypes, PartsToCome
<1>3. DOMAIN s = 1 .. Len(s) /\ DOMAIN t = 1 .. Len(t) /\ Len(t) \in Nat
  BY <1>1, LenProperties
<1>4. E = [i \in 1 .. Len(s) |-> Embedded(e, s[i])] /\ F = [i \in 1 .. Len(t) |-> Embedded(e, t[i])]
  BY <1>0, <1>3 DEF EmbeddedParts
<1>5. Len(E) = Len(s) /\ Len(F) = Len(t)
  <2>1. DOMAIN E = 1 .. Len(s) /\ DOMAIN F = 1 .. Len(t)
    BY <1>4
  <2> QED
    BY <1>1, <1>2, <1>3, <2>1, LenProperties
<1>6. ASSUME NEW i \in 1 .. Len(s)
      PROVE  E[i] = IF i <= 1 THEN p ELSE F[i - 1]
  <2>1. E[i] = Embedded(e, s[i])
    BY <1>4
  <2>2. CASE i = 1
    BY <1>0, <1>1, <2>1, <2>2
  <2>3. CASE i # 1
    <3>1. i - 1 \in 1 .. Len(t) /\ ~(i <= 1) /\ (i - 1) + 1 = i
      BY <1>1, <2>3
    <3>2. F[i - 1] = Embedded(e, t[i - 1]) /\ t[i - 1] = s[i]
      BY <1>1, <1>4, <3>1
    <3> QED
      BY <2>1, <3>1, <3>2
  <2> QED
    BY <2>2, <2>3
<1>7. <<p>> \in Seq(Parts) /\ Len(<<p>>) = 1 /\ <<p>>[1] = p
  BY <1>2
<1>8. /\ <<p>> \o F \in Seq(Parts) /\ Len(<<p>> \o F) = Len(s)
      /\ \A i \in 1 .. Len(s) : (<<p>> \o F)[i] = IF i <= 1 THEN p ELSE F[i - 1]
  BY <1>1, <1>2, <1>5, <1>7, ConcatProperties
<1>9. E = <<p>> \o F
  BY <1>2, <1>5, <1>6, <1>8, SeqEqual
<1> QED
  BY <1>0, <1>9

LEMMA RenderEmbeddedRefines ==
  ASSUME PInv, TInv', ended = "no", RenderEmbedded
  PROVE  PInv' /\ Refines
<1> DEFINE e == Embeds[nr]
           p == Embedded(e, Head(found))
<1>1. /\ part = "embed" /\ found # <<>> /\ Emit(p) /\ found' = Tail(found) /\ ~InView
      /\ UNCHANGED <<req, total, it, chunk, step, ids, held, part, nr, status, ended>>
  BY DEF RenderEmbedded, iteration, InView
<1>2. TInv /\ Served /\ Admitted /\ InHand /\ Progress /\ Servable /\ PageAccepted
  BY <1>1 DEF PInv, Served, Servable
<1>3. nr \in 1 .. Len(Embeds) /\ e \in EmbedNames /\ found \in Seq(JoinedObjects(e))
  BY <1>1, <1>2 DEF TInv, Placed, EmbedNames
<1>4. Head(found) \in JoinedObjects(e) /\ Tail(found) \in Seq(JoinedObjects(e))
  BY <1>1, <1>3, HeadTailProperties
<1>5. p \in Parts /\ EmbeddedParts(e, Tail(found)) \in Seq(Parts)
      /\ EmbeddedParts(e, found) \in Seq(Parts)
  BY <1>2, <1>3, <1>4, PartTypes, PartsToCome
<1>6. Rest[nr + 1] \in Seq(Parts)
  <2>1. nr + 1 \in 1 .. Len(Embeds) + 1
    BY <1>3, EmbedsAssumption
  <2> QED
    BY <1>2, <2>1, PartsToCome
<1>7. EmbeddedParts(e, found) = <<p>> \o EmbeddedParts(e, Tail(found))
  BY <1>1, <1>2, <1>3, FirstEmbedded
<1>8. Out \o (EmbeddedParts(e, found) \o Rest[nr + 1]) = Complete
  BY <1>1, <1>2 DEF Progress
<1>9. Out' \o (EmbeddedParts(e, Tail(found)) \o Rest[nr + 1]) = Complete /\ Refines
  BY <1>1, <1>5, <1>6, <1>7, <1>8, EmitFirst
<1>10. Servable' /\ EmbedsSupported' = EmbedsSupported /\ SliceStart' = SliceStart
       /\ Complete' = Complete /\ Rest' = Rest
  BY <1>1, <1>2, SamePage
<1>11. Progress'
  <2>1. EmbeddedParts(Embeds[nr], found)' = EmbeddedParts(Embeds[nr], Tail(found))
    BY <1>1 DEF EmbeddedParts
  <2>2. (Out \o (EmbeddedParts(Embeds[nr], found) \o Rest[nr + 1]) = Complete)'
    BY <1>1, <1>9, <1>10, <2>1
  <2> QED
    BY <1>1, <2>2 DEF Progress
<1>12. Passed' = Passed
  BY <1>1 DEF Passed, Kept
<1>13. Served' /\ Admitted' /\ InHand'
  BY <1>1, <1>2, <1>10, <1>12 DEF Served, InView, Admitted, InHand, IsEmptyPage
<1> QED
  BY <1>9, <1>11, <1>13 DEF PInv

\* The footer tells what the page should tell.
LEMMA RenderFooterRefines ==
  ASSUME PInv, TInv', ended = "no", RenderFooter
  PROVE  PInv' /\ Refines
<1> DEFINE p == Footer(NextLink, PreviousLink)
<1>1. /\ part = "footer" /\ part' = "end" /\ ~InView
      /\ IF req.format = "csv" THEN UNCHANGED <<buffer, body>> ELSE Emit(p)
      /\ UNCHANGED <<req, total, it, chunk, step, ids, held, nr, found, status, ended>>
  BY DEF RenderFooter, iteration, InView
<1>2. TInv /\ IInv /\ Served /\ Admitted /\ InHand /\ Progress /\ Servable
      /\ PageAccepted /\ Types
  BY <1>1 DEF PInv, Served, Servable, TInv, IInv
<1>3. Out \o FooterParts = Complete
  BY <1>1, <1>2 DEF Progress
<1>4. Out \in Seq(Parts) /\ Out' \in Seq(Parts)
  BY <1>2 DEF TInv, RenderTypes, Out
<1>5. Out \o <<>> = Out /\ Out' \o <<>> = Out'
  BY <1>4, ConcatEmptySeq
<1>6. ASSUME req.format = "csv"
      PROVE  Out' = Complete /\ Refines
  <2>1. FooterParts = <<>>
    BY <1>6 DEF FooterParts
  <2>2. Out' = Out /\ UNCHANGED <<buffer, body>>
    BY <1>1, <1>6 DEF Out
  <2>3. Out' = Complete
    BY <1>3, <1>5, <2>1, <2>2
  <2>4. Refines
    BY <1>1, <2>2, UnseenStep
  <2> QED
    BY <2>3, <2>4
<1>7. ASSUME req.format # "csv"
      PROVE  Out' = Complete /\ Refines
  <2>1. NextLink \in BOOLEAN /\ PreviousLink \in BOOLEAN /\ (NextLink <=> MoreRows)
    BY <1>1, <1>2, FooterTypes, FooterAnswer DEF FooterKnows
  <2>2. MoreRows \in BOOLEAN
    BY <1>2, SliceFacts DEF MoreRows
  <2>3. FooterParts = <<p>>
    BY <1>7, <2>1, <2>2 DEF FooterParts
  <2>4. p \in Parts /\ <<>> \in Seq(Parts)
    BY <2>1, PartTypes
  <2>5. Emit(p)
    BY <1>1, <1>7
  <2> HIDE DEF p
  <2>6. <<p>> \o <<>> = <<p>>
    BY <2>4
  <2>7. Out \o (<<p>> \o <<>>) = Complete
    BY <1>3, <2>3, <2>6
  <2>8. Out' \o <<>> = Complete /\ Refines
    BY <1>1, <2>4, <2>5, <2>7, EmitAdvances
  <2> QED
    BY <1>5, <2>8
<1>8. Servable' /\ EmbedsSupported' = EmbedsSupported /\ SliceStart' = SliceStart
      /\ Complete' = Complete
  BY <1>1, <1>2, SamePage
<1>9. Progress'
  BY <1>1, <1>6, <1>7, <1>8 DEF Progress
<1>10. Passed' = Passed
  BY <1>1 DEF Passed, Kept
<1>11. Served' /\ Admitted' /\ InHand'
  BY <1>1, <1>2, <1>8, <1>10 DEF Served, InView, Admitted, InHand, IsEmptyPage
<1> QED
  BY <1>6, <1>7, <1>9, <1>11 DEF PInv

\* The end: the rest of the buffer is sent, or the client left before.
LEMMA EndRefines ==
  ASSUME PInv, TInv', ended = "no", EndStream \/ ClientGone
  PROVE  PInv' /\ Refines
<1>1. UNCHANGED <<req, total, status>> /\ ~InView /\ ended' # "no"
  BY DEF EndStream, ClientGone, iteration, rendering, InView
<1>2. TInv /\ Served /\ Progress /\ status = "200"
  BY <1>1 DEF PInv, Served
<1>3. CASE ClientGone
  <2>1. Promise!Close
    BY <1>1, <1>2, <1>3 DEF ClientGone, Promise!Close, Promise!Streaming
  <2> QED
    BY <1>1, <2>1, SamePage DEF PInv, Refines, Promise!Next, Promise!page
<1>4. CASE EndStream
  <2>1. part = "end" /\ body' = Out /\ ended' = "complete"
    BY <1>4 DEF EndStream, Out
  <2>2. body' = Complete
    BY <1>2, <2>1 DEF Progress
  <2>3. body \in Seq(Parts) /\ buffer \in Seq(Parts)
    BY <1>2 DEF TInv, RenderTypes
  <2>4. CASE buffer = <<>>
    <3>1. body' = body
      BY <2>1, <2>3, <2>4, ConcatEmptySeq DEF Out
    <3>2. Promise!Finish
      BY <1>1, <1>2, <2>1, <2>2, <3>1 DEF Promise!Finish, Promise!Streaming
    <3> QED
      BY <1>1, <3>2, SamePage DEF PInv, Refines, Promise!Next, Promise!page
  <2>5. CASE buffer # <<>>
    <3>1. /\ Len(body) \in Nat /\ Len(buffer) \in Nat \ {0}
          /\ Len(Out) = Len(body) + Len(buffer) /\ Out \in Seq(Parts)
      BY <2>3, <2>5 DEF Out
    <3>2. Out = SubSeq(Out, 1, Len(Out))
      <4>1. Out \o <<>> = Out /\ <<>> \in Seq(Parts)
        BY <3>1, ConcatEmptySeq
      <4> HIDE DEF Out
      <4> QED
        BY <3>1, <4>1, PrefixOf
    <3>3. /\ Complete = Out /\ Len(Complete) \in Len(body) + 1 .. Len(Complete)
          /\ body' = SubSeq(Complete, 1, Len(Complete))
      BY <2>1, <2>2, <3>1, <3>2
    <3>4. Promise!Send
      <4> HIDE DEF Out
      <4> QED
        BY <1>1, <1>2, <2>1, <2>2, <3>3 DEF Promise!Send, Promise!Streaming, Promise!Upto
    <3> QED
      BY <1>1, <3>4, SamePage DEF PInv, Refines, Promise!Next, Promise!page
  <2> QED
    BY <2>4, <2>5
<1> QED
  BY <1>3, <1>4

LEMMA InitRefines == Init => PInv /\ Promise!Init
<1> SUFFICES ASSUME Init
             PROVE  PInv /\ Promise!Init
  OBVIOUS
<1>1. TInv
  BY InitTInv
<1>2. Served /\ Admitted /\ InHand /\ Progress
  BY DEF Init, Served, InView, Admitted, InHand, Progress
<1>3. Servable \in BOOLEAN
  BY DEF Servable
<1> QED
  BY <1>1, <1>2, <1>3 DEF Init, PInv, Promise!Init

LEMMA StepRefines == PInv /\ [Next]_vars => PInv' /\ Refines
<1> SUFFICES ASSUME PInv, [Next]_vars
             PROVE  PInv' /\ Refines
  OBVIOUS
<1>1. TInv'
  BY NextTInv DEF PInv
<1>2. CASE UNCHANGED vars
  <2>1. UNCHANGED <<req, total, it, chunk, step, ids, held, part, nr, found, buffer,
                    status, body, ended>>
    BY <1>2 DEF vars, iteration, rendering, response
  <2>2. Refines
    BY <2>1, UnseenStep
  <2>3. Servable' = Servable /\ EmbedsSupported' = EmbedsSupported /\ SliceStart' = SliceStart
        /\ Complete' = Complete /\ Rest' = Rest /\ FooterParts' = FooterParts
        /\ PageRows' = PageRows
    BY <2>1, SamePage
  <2>4. Passed' = Passed /\ Out' = Out /\ Drawn' = Drawn
    BY <2>1 DEF Passed, Kept, Out, Drawn
  <2>5. Served' = Served /\ Admitted' = Admitted /\ InHand' = InHand
    BY <2>1, <2>3, <2>4 DEF Served, InView, Admitted, InHand, IsEmptyPage
  <2>6. Progress' = Progress
    <3>1. RowsFrom(Drawn)' = RowsFrom(Drawn)
      BY <2>3, <2>4 DEF RowsFrom
    <3>2. PageKeys(Embeds[nr])' = PageKeys(Embeds[nr])
      BY <2>1, <2>3 DEF PageKeys
    <3>3. /\ EmbeddedParts(Embeds[nr], found)' = EmbeddedParts(Embeds[nr], found)
          /\ EmbeddedParts(Embeds[nr], Objects(Embeds[nr], PageKeys(Embeds[nr])))'
               = EmbeddedParts(Embeds[nr], Objects(Embeds[nr], PageKeys(Embeds[nr])))
      BY <2>1, <3>2 DEF EmbeddedParts
    <3> QED
      BY <2>1, <2>3, <2>4, <3>1, <3>3 DEF Progress
  <2> QED
    BY <1>1, <2>1, <2>2, <2>5, <2>6 DEF PInv
<1>3. CASE Next
  <2>1. ended = "no"
    BY <1>3 DEF Next
  <2>2. CASE \/ RefusePage \/ RefuseEmbeds \/ RefuseEmptyPage \/ IterationFails \/ SectionFails
    BY <1>1, <2>1, <2>2, RaiseRefines
  <2>3. CASE AcceptPage \/ ReadRow \/ Exhaust \/ EndChunk \/ Prefetch
    BY <1>1, <2>1, <2>3, FillingRefines
  <2>4. CASE Serve \/ PeekNothing
    BY <1>1, <2>1, <2>4, ServeRefines, PeekNothingRefines
  <2>5. CASE RenderHead \/ RenderRow \/ EndMain
    BY <1>1, <2>1, <2>5, RenderHeadRefines, RenderRowRefines, EndMainRefines
  <2>6. CASE OpenSection \/ RenderEmbedded \/ EndSection
    BY <1>1, <2>1, <2>6, OpenSectionRefines, RenderEmbeddedRefines, EndSectionRefines
  <2>7. CASE RenderFooter \/ EndStream \/ ClientGone
    BY <1>1, <2>1, <2>7, RenderFooterRefines, EndRefines
  <2> QED
    BY <1>3, <2>2, <2>3, <2>4, <2>5, <2>6, <2>7 DEF Next, Work
<1> QED
  BY <1>2, <1>3

\* For every page, join, chunk and buffer, whatever fails and whenever the
\* client leaves: the body is the beginning of the one complete rendering of
\* the page, and stops short of it only with the marker or for a client that
\* left (DSOPage, ObservableIterator, EmbeddedResultSet, _chunked_output and
\* StreamingResponse together).
THEOREM KeepsPromiseHolds == Spec => KeepsPromise
<1>1. Init => PInv /\ Promise!Init
  BY InitRefines
<1>2. PInv /\ [Next]_vars => PInv' /\ [Promise!Next]_(Promise!vars)
  BY StepRefines DEF Refines
<1> QED
  BY <1>1, <1>2, PTL DEF Spec, KeepsPromise, Promise!Spec
=============================================================================
