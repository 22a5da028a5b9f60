---------------------------- MODULE PageResponse ----------------------------
(***************************************************************************)
(* What a list request promises to its client: either an error status and   *)
(* nothing of the listing, or status 200 and a body that grows towards the  *)
(* complete rendering of the page. The body stops short of it only with a   *)
(* visible marker, or because the client itself went away.                  *)
(*                                                                          *)
(* This is the promise of rest_framework_dso/response.py and of the page    *)
(* classes, without any of the streaming machinery that keeps it.           *)
(***************************************************************************)
EXTENDS Sequences, Naturals

CONSTANT
  Marker     \* the part that tells the client that the rendering was aborted

VARIABLES
  complete,  \* the full rendering of the requested page, a sequence of parts
  servable,  \* is there such a page at all?
  refusals,  \* the statuses that may answer the request instead of a page
  status,    \* "none" before the response starts, or the HTTP status
  body,      \* the parts sent to the client
  ended      \* how the response ended: "no", "complete", "aborted", "closed"

\* What the request and the data determine, once and for all.
page == <<complete, servable, refusals>>
vars == <<page, status, body, ended>>

Init ==
  /\ servable \in BOOLEAN
  /\ status = "none" /\ body = <<>> /\ ended = "no"

\* The first n parts of the complete rendering.
Upto(n) == SubSeq(complete, 1, n)

Refuse ==
  /\ status = "none"
  /\ status' \in refusals
  /\ ended' = "complete"
  /\ UNCHANGED body

Accept ==
  /\ servable
  /\ status = "none"
  /\ status' = "200"
  /\ UNCHANGED <<body, ended>>

Streaming == status = "200" /\ ended = "no"

Send ==
  /\ Streaming
  /\ \E n \in Len(body) + 1 .. Len(complete) : body' = Upto(n)
  /\ ended' \in {"no"} \cup {e \in {"complete"} : body' = complete}
  /\ UNCHANGED status

Abort ==
  /\ Streaming
  /\ \E n \in Len(body) .. Len(complete) : body' = Append(Upto(n), Marker)
  /\ ended' = "aborted"
  /\ UNCHANGED status

\* The client closes the connection.
Close ==
  /\ Streaming
  /\ ended' = "closed"
  /\ UNCHANGED <<status, body>>

\* Everything was sent already when the generator ends.
Finish ==
  /\ Streaming
  /\ body = complete
  /\ ended' = "complete"
  /\ UNCHANGED <<status, body>>

Next ==
  /\ Refuse \/ Accept \/ Send \/ Abort \/ Close \/ Finish
  /\ UNCHANGED page

Spec == Init /\ [][Next]_vars
=============================================================================
