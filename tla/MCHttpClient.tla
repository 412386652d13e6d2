---------------------------- MODULE MCHttpClient ----------------------------
(***************************************************************************)
(* Requests for HttpClient: with and without a payload, one that fills the *)
(* buffer, one that does not fit after its headers, one that transport()   *)
(* refuses, and one that asks for the connection to be closed.             *)
(***************************************************************************)
EXTENDS HttpClient

Request(head, body, good, close_) ==
    [head |-> head, body |-> body, good |-> good, close |-> close_]

SomeRequests ==
    {Request(1, 0, TRUE, FALSE), Request(1, 2, TRUE, FALSE), Request(1, 3, TRUE, FALSE),
     Request(1, 0, FALSE, FALSE), Request(2, 0, TRUE, TRUE)}
=============================================================================
