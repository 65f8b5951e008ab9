------------------------------- MODULE MCClient -------------------------------
(***************************************************************************)
(* A small instance of Client: every kind of request, an answer, a refusal *)
(* that is final and one that is tried again.                              *)
(***************************************************************************)
EXTENDS Client

SomeHttpStatuses == {200, 400, 503}
SomeApiStatuses == {"none"}
AllRequests == {"good", "rejected", "unencodable"}

=============================================================================
