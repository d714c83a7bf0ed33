------------------------------ MODULE RateLimit ------------------------------
(***************************************************************************)
(* Api::limit and Api::take: token buckets per client address, session and *)
(* for all sign-ins together, and Api::client_of, which says whose address *)
(* a request counts for behind a reverse proxy.  Times are kept as ages.   *)
(***************************************************************************)
EXTENDS Integers, Sequences, FiniteSets, FiniteSetsExt, Functions

CONSTANTS Requests,        \* [origin, peer, headers, kind, token] a request may be
          Proxies,         \* the peers inside trusted_proxies
          Plausible,       \* header values that look like an address
          Tokens,          \* tokens of open sessions
          Rate, Burst,     \* by kind of bucket: tokens a unit of time, tokens at once
          LabCost, Idle, TableSize,
          MaxRequests, MaxElapsed   \* bounds

VARIABLES
    buckets,    \* Api::buckets_: key -> tokens, and the age of the last take
    watch,      \* history: who is watched, for how long, what they were granted
    made        \* requests so far (bounded)

vars == <<buckets, watch, made>>

-----------------------------------------------------------------------------
\* A version that believes the header whoever sends it.
ClientOfHeader(req) ==
    IF Len(req.headers) = 1 /\ req.headers[1] \in Plausible THEN req.headers[1] ELSE req.peer
(* The configured header counts only once, from a trusted proxy, and if it  *)
(* looks like an address; else the peer is the client.                      *)
ClientOf(req) ==
    IF req.peer \in Proxies /\ Len(req.headers) = 1 /\ req.headers[1] \in Plausible
    THEN req.headers[1] ELSE req.peer

(* Buckets idle for long are dropped when the table is too big, and all of  *)
(* them if it still is.                                                     *)
Fits(bs) == Cardinality(DOMAIN bs) <= TableSize
Pruned(bs) ==
    IF Fits(bs) THEN bs
    ELSE LET busy == Restrict(bs, {k \in DOMAIN bs : bs[k].age <= Idle})
         IN  IF Fits(busy) THEN busy ELSE <<>>

Kind(key) == key[1]
Filled(bs, key) ==
    IF key \in DOMAIN bs
    THEN Min({Burst[Kind(key)], bs[key].tokens + bs[key].age * Rate[Kind(key)]})
    ELSE Burst[Kind(key)]

Grants(bs, key, cost) == Filled(Pruned(bs), key) >= cost
Take(bs, key, cost) ==
    LET kept == Pruned(bs)
        left == Filled(kept, key) - (IF Filled(kept, key) >= cost THEN cost ELSE 0)
    IN  [k \in DOMAIN kept \cup {key} |-> IF k = key THEN [tokens |-> left, age |-> 0] ELSE kept[k]]

(* limit, then the sign-in's own bucket: a request is charged to its        *)
(* address; then to its session, or for lack of one to the address's        *)
(* anonymous budget; then to all sign-ins.  The first that refuses ends it. *)
Cost(req) == IF req.kind = "lab" THEN LabCost ELSE 1
AddressOf(req) == <<"a", ClientOf(req)>>
BudgetOf(req) == IF req.token \in Tokens THEN <<"s", req.token>> ELSE <<"n", ClientOf(req)>>

ChargeOne(sofar, key, cost) ==
    IF ~sofar.pass THEN sofar
    ELSE [buckets |-> Take(sofar.buckets, key, cost), pass |-> Grants(sofar.buckets, key, cost)]

Charge(bs, req) ==     \* the buckets after it, and whether it passes
    LET address == ChargeOne([buckets |-> bs, pass |-> TRUE], AddressOf(req), Cost(req))
        budget  == IF req.kind = "file" THEN address ELSE ChargeOne(address, BudgetOf(req), Cost(req))
    IN  IF req.kind = "login" THEN ChargeOne(budget, <<"login">>, 1) ELSE budget

-----------------------------------------------------------------------------
NoWatch == [of |-> "nobody", elapsed |-> 0, spent |-> 0, unnamed |-> 0, logins |-> 0]

Counted(req) ==
    LET mine == req.origin = watch.of
    IN  [watch EXCEPT
           !.spent   = IF mine THEN @ + Cost(req) ELSE @,
           !.unnamed = IF mine /\ req.kind # "file" /\ req.token \notin Tokens THEN @ + Cost(req) ELSE @,
           !.logins  = IF req.kind = "login" THEN @ + 1 ELSE @]

Handle(req) ==
    /\ made < MaxRequests /\ made' = made + 1
    /\ \E charged \in {Charge(buckets, req)} :
          /\ buckets' = charged.buckets
          \* A flood of addresses that empties the table ends the watch.
          /\ watch' = IF \E k \in DOMAIN buckets : k \notin DOMAIN charged.buckets /\ buckets[k].age <= Idle
                      THEN NoWatch
                      ELSE IF charged.pass THEN Counted(req) ELSE watch

Watch(who) ==
    /\ watch' = [NoWatch EXCEPT !.of = who] /\ watch.of = "nobody"
    /\ UNCHANGED <<buckets, made>>

Elapse ==
    /\ watch.elapsed < MaxElapsed
    /\ buckets' = [k \in DOMAIN buckets |-> [buckets[k] EXCEPT !.age = Min({@ + 1, Idle + 1})]]
    /\ watch' = IF watch.of = "nobody" THEN watch ELSE [watch EXCEPT !.elapsed = @ + 1]
    /\ UNCHANGED made

Init == buckets = <<>> /\ watch = NoWatch /\ made = 0

Next ==
    \/ \E req \in Requests : Handle(req)
    \/ \E req \in Requests : Watch(req.origin)
    \/ Elapse

Spec == Init /\ [][Next]_vars

-----------------------------------------------------------------------------
(* api.hpp:20-22, 46-58.  Over any stretch of time nobody gets more through *)
(* than a burst and the rate, counted by where requests really come from:   *)
(* headers a client writes itself, tokens that name no session, buckets     *)
(* dropped while idle and charges for requests then refused all included.   *)
RateIsHeld ==
    watch.of # "nobody" =>
        /\ watch.spent   <= Burst["a"] + watch.elapsed * Rate["a"]
        /\ watch.unnamed <= Burst["n"] + watch.elapsed * Rate["n"]
        /\ watch.logins  <= Burst["login"] + watch.elapsed * Rate["login"]

=============================================================================
