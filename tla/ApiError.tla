------------------------------- MODULE ApiError -------------------------------
(***************************************************************************)
(* The category of an error decides whether the call that met it is tried  *)
(* again (error.hpp, error.cpp), and the answer of the API decides the     *)
(* category (wire::parse_api_error).                                       *)
(***************************************************************************)
EXTENDS Naturals

ErrorCode == {"kTransport", "kTimeout", "kCancelled", "kInvalidArgument",
              "kUnauthenticated", "kNotFound", "kRateLimited", "kServer",
              "kHttp", "kParse", "kBlocked", "kConfig", "kIo"}

Retryable(code) == code \in {"kTransport", "kTimeout", "kRateLimited", "kServer"}

\* 2xx, the only answers whose body is read as a result.
Success(status) == 200 <= status /\ status < 300

\* The status string of the error body wins over the HTTP status.
CodeForStatus(status, api_status) ==
    CASE api_status = "RESOURCE_EXHAUSTED" -> "kRateLimited"
      [] api_status = "DEADLINE_EXCEEDED"  -> "kTimeout"
      [] OTHER ->
            CASE status = 400          -> "kInvalidArgument"
              [] status \in {401, 403} -> "kUnauthenticated"
              [] status = 404          -> "kNotFound"
              [] status = 408          -> "kTimeout"
              [] status = 429          -> "kRateLimited"
              [] status \in 500..599   -> "kServer"
              [] OTHER                 -> "kHttp"

=============================================================================
