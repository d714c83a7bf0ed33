------------------------------ MODULE HttpServer ------------------------------
(***************************************************************************)
(* net::http::Server: one thread, poll(2) over every socket, one request a *)
(* connection.  Between its steps the clients do what they like.  A request *)
(* is abstracted to what parse_request looks at, lengths to small units.   *)
(***************************************************************************)
EXTENDS Integers, Sequences, FiniteSets, FiniteSetsExt, Functions

CONSTANTS Clients, Requests,      \* who connects, and what each may set out to send
          MaxHeader, MaxFields, MaxBody,   \* ParseLimits
          MaxConnections, IdleTimeout, RequestTimeout,
          Chunk, AnswerSize,      \* bytes one recv takes, bytes of a response
          Waits                   \* how long one round may take

(* A malformed header line is one of the request's.  The limits and lengths *)
(* are size_t; what a content-length field says may be no number.           *)
ASSUME HttpAssumption ==
    /\ {MaxHeader, MaxFields, MaxBody, MaxConnections} \subseteq Nat
    /\ \A r \in Requests :
          /\ {r.head, r.fields, r.sent} \subseteq Nat /\ r.badField \in 0..r.fields
          /\ r.line \in BOOLEAN /\ r.chunked \in BOOLEAN /\ r.lengths \in Seq(Int)

VARIABLES 
    conns,     \* the open connections, by client
    phase,     \* where in the loop the thread is
    due        \* the polled connections it has still to serve

vars == <<conns, phase, due>>

-----------------------------------------------------------------------------
(* parse_request.  A request has `head` bytes up to its blank line, a       *)
(* request line that is well formed or not, `fields` header lines of which  *)
(* the first malformed one is number `badField` (0: none), the values of    *)
(* its content-length fields (-1: not a number), and `sent` body bytes.     *)
HasBody(r) == r.method \in {"POST", "PUT", "PATCH"}
BodyLength(r) == IF r.lengths = <<>> THEN 0 ELSE r.lengths[1]

\* A version without the test of a header that arrived whole.
RefusalOfPieces(r) ==
    IF ~r.line \/ r.badField \in 1..(MaxFields + 1) THEN 400
    ELSE IF r.fields > MaxFields THEN 431
    ELSE IF r.chunked THEN 501
    ELSE IF Len(r.lengths) > 1 \/ BodyLength(r) < 0 THEN 400
    ELSE IF BodyLength(r) > MaxBody THEN 413
    ELSE IF r.lengths = <<>> /\ HasBody(r) THEN 411
    ELSE 0
Refusal(r) ==   \* the tests in the order the code makes them
    IF r.head > MaxHeader THEN 431
    ELSE IF ~r.line \/ r.badField \in 1..(MaxFields + 1) THEN 400
    ELSE IF r.fields > MaxFields THEN 431
    ELSE IF r.chunked THEN 501
    ELSE IF Len(r.lengths) > 1 \/ BodyLength(r) < 0 THEN 400
    ELSE IF BodyLength(r) > MaxBody THEN 413
    ELSE IF r.lengths = <<>> /\ HasBody(r) THEN 411
    ELSE 0

Incomplete == 0
Complete == 200
Parse(r, got) ==
    IF got < r.head THEN (IF got > MaxHeader THEN 431 ELSE Incomplete)
    ELSE IF Refusal(r) # 0 THEN Refusal(r)
    ELSE IF got < r.head + BodyLength(r) THEN Incomplete
    ELSE Complete

-----------------------------------------------------------------------------
(* One connection's share of a round.                                       *)
Opened(r) == [req |-> r, got |-> 0, said |-> <<>>, left |-> 0, idle |-> 0, age |-> 0]
Responding(c) == c.said # <<>>   \* said: the statuses answered on it

(* A complete request goes to the handler, which may throw; a bad one is    *)
(* answered at once.  From here on the age of the connection is not read.   *)
Respond(c) ==
    LET status == Parse(c.req, c.got)
        Saying(s) == [c EXCEPT !.said = Append(@, s), !.left = AnswerSize, !.age = 0]
    IN  CASE status = Incomplete -> {c}
          [] status = Complete   -> {Saying(200), Saying(500)}
          [] OTHER               -> {Saying(status)}

\* recv: nothing there, or up to a chunk of what the client still has to send.
Received(c) ==
    IF Responding(c) THEN {c}
    ELSE {c} \cup UNION {Respond([c EXCEPT !.got = @ + n, !.idle = 0]) :
                            n \in 1..Min({Chunk, c.req.head + c.req.sent - c.got})}

\* send: the socket is full, or takes some of the answer.
Sent(c) ==
    IF Responding(c)
    THEN {c} \cup {[c EXCEPT !.left = @ - n, !.idle = 0] : n \in 1..c.left}
    ELSE {c}

\* A version that waits for a client to read its answer.
TimedOutReading(c) == ~Responding(c) /\ (c.idle > IdleTimeout \/ c.age > RequestTimeout)
TimedOut(c) == c.idle > IdleTimeout \/ (~Responding(c) /\ c.age > RequestTimeout)

Ended(c) == (Responding(c) /\ c.left = 0) \/ TimedOut(c)

Aged(c, d) ==
    [c EXCEPT !.idle = Min({@ + d, IdleTimeout + 1}), !.age = IF Responding(c) THEN 0 ELSE @ + d]

-----------------------------------------------------------------------------
Init == conns = <<>> /\ phase = "poll" /\ due = {}

(* Server::run, one round.  poll returns after d; the time of the round is  *)
(* read once, and the sockets that were polled are the ones to serve.       *)
Poll(d) ==
    /\ phase = "poll"
    /\ phase' = "accept" /\ due' = DOMAIN conns
    /\ conns' = [c \in DOMAIN conns |-> Aged(conns[c], d)]

(* The accept loop; over the limit a connection is closed at once.          *)
Accept(c, r) ==
    /\ phase = "accept" /\ c \notin DOMAIN conns
    /\ Cardinality(DOMAIN conns) < MaxConnections
    /\ conns' = [x \in DOMAIN conns \cup {c} |-> IF x = c THEN Opened(r) ELSE conns[x]]
    /\ UNCHANGED <<phase, due>>

NoneWaiting ==
    /\ phase = "accept" /\ phase' = "serve"
    /\ UNCHANGED <<conns, due>>

HangsUp(c) == conns' = Restrict(conns, DOMAIN conns \ {c})

(* A connection is lost when the peer is gone, or ends when its answer is   *)
(* out or its time is up.  Connections share nothing, so any order will do. *)
Serve ==
    /\ phase = "serve" /\ due # {}
    /\ LET c == Min(due) IN
          /\ due' = due \ {c}
          /\ \/ HangsUp(c)
             \/ \E read \in Received(conns[c]) : \E after \in Sent(read) :
                   IF Ended(after) THEN HangsUp(c) ELSE conns' = [conns EXCEPT ![c] = after]
    /\ UNCHANGED phase

EndRound ==
    /\ phase = "serve" /\ due = {} /\ phase' = "poll"
    /\ UNCHANGED <<conns, due>>

Next ==
    \/ \E d \in Waits : Poll(d)
    \/ \E c \in Clients, r \in Requests : Accept(c, r)
    \/ NoneWaiting \/ Serve \/ EndRound

(* The loop runs for as long as the process does, each round has finitely   *)
(* many connections to accept and to serve; poll returns at once only when  *)
(* a socket is ready, and of endlessly many rounds endlessly many take time. *)
Fairness == WF_vars(Next) /\ SF_vars(Poll(1))

Spec == Init /\ [][Next]_vars /\ Fairness

-----------------------------------------------------------------------------
TypeOK ==
    /\ DOMAIN conns \subseteq Clients
    /\ Cardinality(DOMAIN conns) <= MaxConnections

WellFormed(r) ==
    /\ r.line /\ r.badField = 0 /\ ~r.chunked
    /\ r.head <= MaxHeader /\ r.fields <= MaxFields
    /\ Len(r.lengths) <= 1 /\ BodyLength(r) \in 0..MaxBody
    /\ HasBody(r) => r.lengths # <<>>

(* http.hpp:8-17.  However its bytes are cut up, a request gets one answer: *)
(* the handler sees it whole and well formed or not at all, a refused one   *)
(* is refused for a reason, and while an answer is outstanding no more is   *)
(* buffered than one whole request within the limits.                       *)
AnsweredOnce ==
    /\ TypeOK
    /\ \A c \in Range(conns) :
          /\ Len(c.said) <= 1
          /\ c.said = <<>> => c.got <= MaxHeader + MaxBody
          /\ c.said # <<>> =>
                IF c.said[1] \in {200, 500}
                THEN WellFormed(c.req) /\ c.got >= c.req.head + BodyLength(c.req)
                ELSE ~WellFormed(c.req)

(* http.hpp:13-16.  A slot always comes back: from a client that says       *)
(* nothing, one that sends a byte every round and never finishes, and one   *)
(* that reads its answer byte by byte or not at all.                        *)
EveryConnectionEnds ==
    \A c \in Clients : (c \in DOMAIN conns) ~> (c \notin DOMAIN conns)

=============================================================================
