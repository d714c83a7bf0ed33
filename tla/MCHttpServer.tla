---------------------------- MODULE MCHttpServer ----------------------------
(* Three clients and two slots; limits and timeouts of one to three units.   *)
EXTENDS HttpServer

\* Requests on the wire: well formed ones without and with a body (and bytes after
\* it), headers too long, lengths that disagree, a body over the limit.
Get  == [head |-> 2, line |-> TRUE, fields |-> 1, badField |-> 0, chunked |-> FALSE,
         lengths |-> <<>>, method |-> "GET", sent |-> 0]
Post == [Get EXCEPT !.method = "POST", !.lengths = <<1>>, !.sent = 2]
MCRequests == {Get, Post, [Get EXCEPT !.head = 3], [Post EXCEPT !.lengths = <<2, 1>>],
               [Post EXCEPT !.lengths = <<3>>]}
=============================================================================
