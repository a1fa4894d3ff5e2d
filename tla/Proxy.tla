-------------------------------- MODULE Proxy --------------------------------
(***************************************************************************)
(* The attested query proxy (worker/src/index.js): a Worker that forwards  *)
(* visitors' queries to the gateway under a shared key, behind an edge     *)
(* cache and a per-IP limiter that keeps its counters in the same cache.   *)
(*                                                                         *)
(* One handler runs per request, and every await lets the others run: the  *)
(* lookup, the reading of the counter, its writing, and the request to the *)
(* gateway are steps of their own, and the cache is filled after the       *)
(* answer is given.  Cache entries expire, and may be evicted at any time. *)
(***************************************************************************)
EXTENDS Gateway, Integers

CONSTANTS Handlers,      \* requests in progress at a time
          IPs, Deployments, AllowedDeployments,
          Queries, ForwardedQueries,  \* those that pass the checks on the body
          Key, SignedDomain,     \* what the indexer behind the gateway signs with
          MaxPerWindow, Window,  \* RATE_LIMIT: uncached queries in a window
          TTL,           \* EDGE_TTL_SECONDS
          MaxClock, MaxRequests  \* bounds

ASSUME ProxyAssumption ==
  /\ AllowedDeployments \subseteq Deployments
  /\ ForwardedQueries \subseteq Queries
  /\ Key # NoAddress
  /\ {TTL, MaxClock, MaxRequests} \subseteq Nat
  /\ {MaxPerWindow, Window} \subseteq Nat \ {0}

VARIABLES
  clock,
  handler,    \* of each handler: the request, where it is, what it has read
  requests,   \* how many there have been
  cached,     \* answers: [deployment, query] -> [reply, until]
  counters,   \* limiter entries: [ip, bucket] -> [n, until]
  admitted,   \* history: how often the limiter let an IP pass in a window
  lost        \* history: how often a count of it was lost

proxyVars == <<clock, handler, requests, cached, counters, admitted, lost>>

Windows == [ip : IPs, bucket : {t \div Window : t \in 0 .. MaxClock}]

Request(h) == [deployment |-> handler[h].deployment, query |-> handler[h].query]

-----------------------------------------------------------------------------
(* The cache: an entry is found until its max-age has passed. *)

Found(cache, key) == key \in DOMAIN cache /\ clock < cache[key].until

Put(cache, key, entry) == [k \in DOMAIN cache \cup {key} |-> IF k = key THEN entry ELSE cache[k]]

Without(cache, key) == [k \in DOMAIN cache \ {key} |-> cache[k]]

\* Mutant: the deployment is not part of the key.
QueryKey(request) == [deployment |-> CHOOSE d \in AllowedDeployments : TRUE, query |-> request.query]

\* The key is of the deployment and the exact body.
CacheKey(request) == request

\* Whose window it is.
WindowOf(h) == [ip |-> handler[h].ip, bucket |-> handler[h].bucket]

\* Mutant: one counter for everybody.
SharedCounterKey(h) == [ip |-> CHOOSE ip \in IPs : TRUE, bucket |-> handler[h].bucket]

CounterKey(h) == [ip |-> handler[h].ip, bucket |-> handler[h].bucket]

Seen(h) == IF Found(counters, CounterKey(h)) THEN counters[CounterKey(h)].n ELSE 0

-----------------------------------------------------------------------------
(* The handler. *)

Idle == [pc |-> "idle"]

\* The answer is given.
Answer(h, pc, reply) ==
  handler' = [handler EXCEPT ![h] =
    [pc |-> pc, deployment |-> @.deployment, query |-> @.query, reply |-> reply]]

\* Everything that is declined before the cache is looked up: the switch as it
\* is then (503), the deployment (404), the body (413, 400).
Declined(disabled, request) ==
  \/ disabled
  \/ request.deployment \notin AllowedDeployments
  \/ request.query \notin ForwardedQueries

Arrive(h) ==
  /\ handler[h].pc = "idle" /\ requests < MaxRequests
  /\ requests' = requests + 1
  /\ \E disabled \in BOOLEAN, ip \in IPs, d \in Deployments, q \in Queries :
       handler' = [handler EXCEPT ![h] =
         IF Declined(disabled, [deployment |-> d, query |-> q]) THEN [pc |-> "declined"]
         ELSE [pc |-> "lookup", ip |-> ip, deployment |-> d, query |-> q]]
  /\ UNCHANGED <<clock, cached, counters, admitted, lost>>

\* The window is the one in which the lookup came back empty.
Lookup(h) ==
  /\ handler[h].pc = "lookup"
  /\ IF Found(cached, CacheKey(Request(h)))
     THEN Answer(h, "answered", cached[CacheKey(Request(h))].reply)
     ELSE handler' = [handler EXCEPT ![h] =
            [pc |-> "limit", ip |-> @.ip, deployment |-> @.deployment, query |-> @.query,
             bucket |-> clock \div Window, n |-> 0]]
  /\ UNCHANGED <<clock, requests, cached, counters, admitted, lost>>

\* Mutant: one query too many.
ReadCounterLate(h) ==
  /\ handler[h].pc = "limit"
  /\ handler' = [handler EXCEPT ![h] =
       IF Seen(h) > MaxPerWindow THEN [@ EXCEPT !.pc = "refused"]
       ELSE [@ EXCEPT !.pc = "count", !.n = Seen(h)]]
  /\ UNCHANGED <<clock, requests, cached, counters, admitted, lost>>

ReadCounter(h) ==
  /\ handler[h].pc = "limit"
  /\ handler' = [handler EXCEPT ![h] =
       IF Seen(h) >= MaxPerWindow THEN [@ EXCEPT !.pc = "refused"]
       ELSE [@ EXCEPT !.pc = "count", !.n = Seen(h)]]
  /\ UNCHANGED <<clock, requests, cached, counters, admitted, lost>>

WriteCounter(h) ==
  /\ handler[h].pc = "count"
  /\ LET w == CounterKey(h)
     IN /\ counters' = Put(counters, w, [n |-> handler[h].n + 1, until |-> clock + Window])
        /\ admitted' = [admitted EXCEPT ![WindowOf(h)] = @ + 1]
        /\ lost' = IF w \in DOMAIN counters /\ counters[w].n > handler[h].n
                   THEN [lost EXCEPT ![WindowOf(h)] = @ + 1] ELSE lost
  /\ handler' = [handler EXCEPT ![h].pc = "fetch"]
  /\ UNCHANGED <<clock, requests, cached>>

\* The gateway answers, with or without an attestation (of which the body is
\* taken to tell), declines or is not reached.
GatewayReplies(request) ==
  LET body(signed) == [deployment |-> request.deployment, query |-> request.query, signed |-> signed]
  IN {NotFound, Unattested(body(FALSE)),
      Attested(Attest(SignedDomain, Key, request.deployment,
                      CanonicalRequest(ClientPostBody(request.query)), body(TRUE)), body(TRUE))}

\* Only an answer with status 200 is kept for the cache.
AskGateway(h) ==
  /\ handler[h].pc = "fetch"
  /\ \E reply \in GatewayReplies(Request(h)) :
       Answer(h, IF reply.ok THEN "fill" ELSE "answered", reply)
  /\ UNCHANGED <<clock, requests, cached, counters, admitted, lost>>

\* Mutant: the copy for the cache is made of the body alone.
FillBodyOnly(h) ==
  /\ handler[h].pc = "fill"
  /\ cached' = Put(cached, CacheKey(Request(h)),
                   [reply |-> Unattested(handler[h].reply.body[1]), until |-> clock + TTL])
  /\ handler' = [handler EXCEPT ![h].pc = "answered"]
  /\ UNCHANGED <<clock, requests, counters, admitted, lost>>

\* waitUntil: after the answer is given, or never.
Fill(h) ==
  /\ handler[h].pc = "fill"
  /\ \/ cached' = Put(cached, CacheKey(Request(h)), [reply |-> handler[h].reply, until |-> clock + TTL])
     \/ UNCHANGED cached
  /\ handler' = [handler EXCEPT ![h].pc = "answered"]
  /\ UNCHANGED <<clock, requests, counters, admitted, lost>>

End(h) ==
  /\ handler[h].pc \in {"answered", "refused", "declined"}
  /\ handler' = [handler EXCEPT ![h] = Idle]
  /\ UNCHANGED <<clock, requests, cached, counters, admitted, lost>>

-----------------------------------------------------------------------------
(* Around it. *)

Tick ==
  /\ clock < MaxClock /\ clock' = clock + 1
  /\ UNCHANGED <<handler, requests, cached, counters, admitted, lost>>

\* An evicted answer is like an expired one; an evicted counter is not.
EvictCounter ==
  /\ \E w \in DOMAIN counters :
       /\ counters' = Without(counters, w)
       /\ lost' = [lost EXCEPT ![w] = @ + 1]
  /\ UNCHANGED <<clock, handler, requests, cached, admitted>>

ProxyInit ==
  /\ clock = 0 /\ requests = 0
  /\ handler = [h \in Handlers |-> Idle]
  /\ cached = <<>> /\ counters = <<>>
  /\ admitted = [w \in Windows |-> 0] /\ lost = [w \in Windows |-> 0]

Handle(h) ==
  Lookup(h) \/ ReadCounter(h) \/ WriteCounter(h) \/ AskGateway(h) \/ Fill(h) \/ End(h)

ProxyNext == Tick \/ EvictCounter \/ \E h \in Handlers : Arrive(h) \/ Handle(h)

ProxySpec == ProxyInit /\ [][ProxyNext]_proxyVars

-----------------------------------------------------------------------------
(* Properties. *)

(***************************************************************************)
(* Type invariant.  No counter goes past the limit, and none says more     *)
(* than were let pass: what is lost is only ever lost in one direction.    *)
(***************************************************************************)
ProxyTypeOK ==
  /\ clock \in 0 .. MaxClock /\ requests \in 0 .. MaxRequests
  /\ DOMAIN counters \subseteq Windows
  /\ \A w \in DOMAIN counters : counters[w].n \in 1 .. MaxPerWindow /\ counters[w].n <= admitted[w]
  /\ DOMAIN cached \subseteq [deployment : AllowedDeployments, query : ForwardedQueries]
  /\ \A key \in DOMAIN cached : cached[key].reply.ok
  /\ \A h \in Handlers : handler[h].pc = "count" => handler[h].n < MaxPerWindow

(***************************************************************************)
(* index.js:55-56, the limiter is approximate: this is by how much.  Each  *)
(* count lost is worth at most one more allowance: one overwritten by an   *)
(* overlapping request, evicted, or expired under a request that outlived  *)
(* its window.                                                             *)
(***************************************************************************)
AllowanceHolds == \A w \in Windows : admitted[w] <= MaxPerWindow * (1 + lost[w])

(***************************************************************************)
(* A visitor is refused only if that visitor has had the whole allowance   *)
(* of that window: neither others nor races use it up.                     *)
(***************************************************************************)
RefusalJustified ==
  \A h \in Handlers : handler[h].pc = "refused" => admitted[WindowOf(h)] >= MaxPerWindow

(***************************************************************************)
(* index.js:16-20, a cached response is as verifiable as a fresh one.      *)
(* What a visitor gets, however it raced with other requests and with the  *)
(* filling of the cache, is an answer of the gateway to exactly this       *)
(* request, with its attestation if it had one, and that verifies.         *)
(***************************************************************************)
AnswersVerify ==
  \A h \in Handlers : handler[h].pc \in {"fill", "answered"} /\ handler[h].reply.ok =>
    LET reply == handler[h].reply
        bundle == Bundle(handler[h].query, reply, handler[h].deployment, NoAddress)
    IN /\ reply.body[1].deployment = handler[h].deployment
       /\ reply.body[1].query = handler[h].query
       /\ reply.body[1].signed <=> reply.attestation # <<>>
       /\ reply.body[1].signed => Verifies(bundle, SignedDomain)
=============================================================================
