------------------------------- MODULE MCFront -------------------------------
(* What stands in front of the platform in safetrail_server besides the socket *)
(* loop: the console's sessions and gates, the scenario clock, the locks on    *)
(* signing in and the rate limits.  A behaviour looks at one of them.  The     *)
(* answer last given is read by no action, so states are told apart without    *)
(* it; what an answer shows is checked on every step that gives one.           *)
EXTENDS Access, FiniteSetsExt, TLC

CONSTANTS Parts,                   \* the ones looked at
          Told, Speeds, Elapsed, Steps, Overtime,
          Users, Addresses, Limit, LockFor, Forgive, Forget, TableSize,
          Requests, Proxies, Plausible, Tokens, Rate, Burst, LabCost, Idle,
          MaxRequests, MaxElapsed

(* A request comes from its peer, or a trusted proxy says from whom; a lock   *)
(* holds no longer than failures count, and failures are not forgotten while  *)
(* they do; a bucket left alone until it may be dropped is full; and the       *)
(* table holds more buckets than one request is charged to.                   *)
ASSUME FrontAssumption ==
    /\ \A req \in Requests :
          IF req.peer \in Proxies THEN req.headers = <<req.origin>> /\ req.origin \in Plausible
          ELSE req.peer = req.origin
    /\ LabCost \in Nat /\ Idle \in Nat /\ TableSize \in Nat /\ TableSize >= 3
    /\ \A kind \in {"a", "n", "s", "login"} :
          Rate[kind] \in Nat /\ Burst[kind] \in Nat /\ Burst[kind] <= (Idle + 1) * Rate[kind]
    /\ Forgive \in Nat /\ Forget \in Nat /\ Forgive <= Forget
    /\ \A kind \in {"ip", "u|ip", "u"} :
          Limit[kind] \in Nat \ {0} /\ LockFor[kind] \in Nat /\ LockFor[kind] <= Forgive

VARIABLES part,
          id, state, accum, speed, next, clock, played, credit,
          throttle, watched, seen,
          buckets, watch, made

-----------------------------------------------------------------------------
(* The stories scenario.cpp builds: what happens when, in seconds.  Where the  *)
(* actors walk and what the narration says are left out.                      *)
Act(at, kind, who, group) == [at |-> at, kind |-> kind, who |-> who, group |-> group]
Says(times) == [i \in DOMAIN times |-> Act(times[i], "Narrate", 0, "")]
Each(members, at, kind, group) ==
    [i \in DOMAIN members |-> Act(at, kind, members[i], group)]

(* enrol: create the group, add its members, opt in, each step narrated.    *)
Enrol(t0, group, members, narrate) ==
    << Act(t0, "CreateGroup", 0, group) >>
    \o Each(members, t0 + 3, "Join", group)
    \o Each(members, t0 + 8, "ConsentAndShare", group)
    \o (IF narrate THEN Says(<<t0, t0 + 3, t0 + 8>>) ELSE <<>>)

Walkers(group, n) == [i \in 1..n |-> <<group, i>>]

Normal(t0, narrate) ==
    Enrol(t0, "A", Walkers("A", 5), narrate) \o Says(IF narrate THEN <<t0 + 60>> ELSE <<>>)

Entry(t0, narrate) ==
    << Act(t0 + 12, "CreateZone", 0, "") >>
    \o Enrol(t0, "B", Walkers("B", 4), narrate)
    \o Says(IF narrate THEN [i \in 1..6 |-> t0 + <<12, 200, 300, 430, 470, 620>>[i]] ELSE <<>>)

Separation(t0, narrate) ==
    Enrol(t0, "C", Walkers("C", 6), narrate)
    \o Says(IF narrate THEN [i \in 1..5 |-> t0 + <<195, 290, 500, 560, 600>>[i]] ELSE <<>>)

Offline(t0, narrate) ==
    << Act(t0 + 8, "ConsentAndShare", <<"D", 1>>, ""),
       Act(t0 + 120, "GoOffline", <<"D", 1>>, ""),
       Act(t0 + 720, "Reconnect", <<"D", 1>>, "") >>
    \o Says(IF narrate THEN [i \in 1..4 |-> t0 + <<8, 120, 245, 720>>[i]] ELSE <<>>)

Walkthrough ==
    Says(<<0>>) \o Normal(0, FALSE) \o Separation(5, FALSE) \o Entry(20, FALSE)
    \o Offline(30, FALSE)
    \o Says(<<40, 32, 220, 215, 320, 275, 310, 450, 540, 600, 750, 820>>)

(* load: a stable sort by time. *)
Sorted(acts) ==
    LET keys == SortSeq([i \in DOMAIN acts |-> acts[i].at * Len(acts) + i], <)
    IN  [k \in DOMAIN keys |->
            LET i == ((keys[k] - 1) % Len(acts)) + 1 IN acts[i]]

Catalogue ==
    [walkthrough |-> [duration |-> 900, script |-> Sorted(Walkthrough)],
     normal      |-> [duration |-> 600, script |-> Sorted(Normal(0, TRUE))],
     entry       |-> [duration |-> 780, script |-> Sorted(Entry(0, TRUE))],
     separation  |-> [duration |-> 780, script |-> Sorted(Separation(0, TRUE))],
     offline     |-> [duration |-> 840, script |-> Sorted(Offline(0, TRUE))]]

-----------------------------------------------------------------------------
C == INSTANCE Scenario WITH Stories <- Told, now <- clock, world <- played
S == INSTANCE SignIn
R == INSTANCE RateLimit

(* A story's steps are in the order of their times and within its length, and *)
(* told in that order from the start, every one of them takes.                *)
ASSUME StoryAssumption ==
    /\ Speeds \subseteq Nat /\ Elapsed \subseteq Nat /\ Steps \subseteq Nat
    /\ \A story \in Told :
          \E d \in {Catalogue[story].duration}, acts \in {Catalogue[story].script} :
             /\ d \in Nat /\ Len(acts) \in Nat /\ DOMAIN acts = 1..Len(acts)
             /\ \A i \in DOMAIN acts : acts[i].at \in 0..d
             /\ \A i, j \in DOMAIN acts : i <= j => acts[i].at <= acts[j].at
             /\ \A m \in 0..Len(acts) : C!Takes(C!After(C!FreshWorld, acts, 0, m))

deskVars  == vars
clockVars == <<id, state, accum, speed, next, clock, played, credit>>
lockVars  == <<throttle, watched, seen>>
rateVars  == <<buckets, watch, made>>
allVars   == <<part, deskVars, clockVars, lockVars, rateVars>>
MCView    == <<part, core, clockVars, lockVars, rateVars>>

Off == <<>>
DeskOff ==
    /\ users = Off /\ cases = Off /\ access = Off /\ now = Off /\ sessions = Off
    /\ people = Off /\ liveAudit = Off /\ calls = Off /\ asked = [code |-> 0]
    /\ loaded = Off /\ outlived = Off /\ leftOver = Off
ClockOff ==
    /\ id = Off /\ state = "off" /\ accum = Off /\ speed = Off
    /\ next = Off /\ clock = Off /\ played = Off /\ credit = Off
LocksOff == throttle = Off /\ watched = Off /\ seen = Off
RatesOff == buckets = Off /\ watch = Off /\ made = Off

FrontInit ==
    /\ part \in Parts
    /\ IF part = "console" THEN Init ELSE DeskOff
    /\ IF part = "clock" THEN C!Init ELSE ClockOff
    /\ IF part = "locks" THEN S!Init ELSE LocksOff
    /\ IF part = "rates" THEN R!Init ELSE RatesOff

FrontNext ==
    /\ UNCHANGED part
    /\ IF part = "console" THEN Next ELSE UNCHANGED deskVars
    /\ IF part = "clock" THEN C!Next ELSE UNCHANGED clockVars
    /\ IF part = "locks" THEN S!Next ELSE UNCHANGED lockVars
    /\ IF part = "rates" THEN R!Next ELSE UNCHANGED rateVars

FrontSpec == FrontInit /\ [][FrontNext]_allVars

(* The script and its clock: Scenario.                                         *)
RunKeepsTime == part = "clock" => C!RunKeepsTime
(* Guessing passwords is bounded: SignIn.                                      *)
GuessesAreBounded == S!GuessesAreBounded
(* Nobody gets more than the rate: RateLimit.                                  *)
RateIsHeld == part = "rates" => R!RateIsHeld

-----------------------------------------------------------------------------
\* The instance: two people at the console, an operator with a responder or with a tourist,
\* or an administrator with one whose account is registered at run time; two names to
\* register, each as a tourist or an administrator; one simulated tourist; a server started
\* with or without a story.
MCPairs == {{"operator", "responder"}, {"operator", "tourist"}, {"admin", "new"}}
MCActors == <<"sim">>
MCNewAccounts == {"new", "next"}
MCSwitched == {"tourist"}

MCLimit   == ("ip" :> 3) @@ ("u|ip" :> 2) @@ ("u" :> 4)
MCLockFor == ("ip" :> 3) @@ ("u|ip" :> 1) @@ ("u" :> 2)

\* A direct client that may write the proxy's header itself, and one behind the proxy.
Direct(headers, kind, token) ==
    [origin |-> "near", peer |-> "near", headers |-> headers, kind |-> kind, token |-> token]
Proxied(kind, token) ==
    [origin |-> "x", peer |-> "proxy", headers |-> <<"x">>, kind |-> kind, token |-> token]
MCRequests == {Direct(<<>>, "api", "none"), Direct(<<"x">>, "api", "none"),
               Direct(<<>>, "lab", "stale"), Direct(<<"x">>, "login", "none"),
               Direct(<<"x", "x">>, "file", "none"),
               Proxied("api", "none"), Proxied("login", "none"), Proxied("api", "tok")}
MCRate  == ("a" :> 2) @@ ("n" :> 1) @@ ("s" :> 2) @@ ("login" :> 1)
MCBurst == ("a" :> 4) @@ ("n" :> 2) @@ ("s" :> 3) @@ ("login" :> 2)

=============================================================================
