---------------------------- MODULE Proxy_proofs ----------------------------
(***************************************************************************)
(* Theorems about Proxy, for any number of handlers, visitors, deployments *)
(* and queries, every allowance, window and cache lifetime.                *)
(***************************************************************************)
EXTENDS Proxy, TLAPS

Requests == [deployment : AllowedDeployments, query : ForwardedQueries]

Buckets == {t \div Window : t \in 0 .. MaxClock}

AllReplies == UNION {GatewayReplies(request) : request \in Requests}

\* A handler before it has a request to forward, at the lookup, at the limiter
\* or behind it, and with an answer.
Resting == [pc : {"idle", "declined"}]

Looking == [pc : {"lookup"}, ip : IPs, deployment : AllowedDeployments, query : ForwardedQueries]

Limited ==
  [pc : {"limit", "count", "fetch", "refused"}, ip : IPs, deployment : AllowedDeployments,
   query : ForwardedQueries, bucket : Buckets, n : Nat]

Replied ==
  [pc : {"fill", "answered"}, deployment : AllowedDeployments, query : ForwardedQueries,
   reply : AllReplies]

TypedInv ==
  /\ clock \in 0 .. MaxClock /\ requests \in 0 .. MaxRequests
  /\ handler \in [Handlers -> Resting \cup Looking \cup Limited \cup Replied]
  /\ DOMAIN cached \subseteq Requests
  /\ DOMAIN counters \subseteq Windows
  /\ \A w \in DOMAIN counters : counters[w].n \in 1 .. MaxPerWindow
  /\ admitted \in [Windows -> Nat] /\ lost \in [Windows -> Nat]

\* Answers, given or cached, are the gateway's to the request they are under.
RepliesInv ==
  /\ \A key \in DOMAIN cached : cached[key].reply \in GatewayReplies(key) /\ cached[key].reply.ok
  /\ \A h \in Handlers : handler[h].pc \in {"fill", "answered"} =>
       handler[h].reply \in GatewayReplies(Request(h))
  /\ \A h \in Handlers : handler[h].pc = "fill" => handler[h].reply.ok

\* What a window's counter says, and what a handler has read there, was let
\* pass; and what was let pass is in the counter or was lost.
Count(w) == IF w \in DOMAIN counters THEN counters[w].n ELSE 0

CountsInv ==
  /\ \A w \in DOMAIN counters : counters[w].n <= admitted[w]
  /\ \A h \in Handlers : handler[h].pc = "count" =>
       handler[h].n < MaxPerWindow /\ handler[h].n <= admitted[WindowOf(h)]
  /\ \A h \in Handlers : handler[h].pc = "refused" => MaxPerWindow <= admitted[WindowOf(h)]
  /\ \A w \in Windows : admitted[w] <= Count(w) + MaxPerWindow * lost[w]

ProxyInv == TypedInv /\ RepliesInv /\ CountsInv

-----------------------------------------------------------------------------
(* Where a handler is says what it holds. *)

LEMMA AtLookup ==
  ASSUME TypedInv, NEW h \in Handlers, handler[h].pc = "lookup"
  PROVE  handler[h] \in Looking /\ Request(h) \in Requests
<1>1. handler[h] \in Looking  BY DEF TypedInv, Resting, Looking, Limited, Replied
<1>2. QED  BY <1>1 DEF Looking, Request, Requests

LEMMA AtLimiter ==
  ASSUME TypedInv, NEW h \in Handlers, handler[h].pc \in {"limit", "count", "fetch", "refused"}
  PROVE  /\ handler[h] \in Limited
         /\ WindowOf(h) \in Windows /\ CounterKey(h) = WindowOf(h)
         /\ Request(h) \in Requests
<1>1. handler[h] \in Limited  BY DEF TypedInv, Resting, Looking, Limited, Replied
<1>2. QED  BY <1>1 DEF Limited, WindowOf, CounterKey, Windows, Buckets, Request, Requests

LEMMA WithReply ==
  ASSUME TypedInv, NEW h \in Handlers, handler[h].pc \in {"fill", "answered"}
  PROVE  handler[h] \in Replied /\ Request(h) \in Requests
<1>1. handler[h] \in Replied  BY DEF TypedInv, Resting, Looking, Limited, Replied
<1>2. QED  BY <1>1 DEF Replied, Request, Requests

LEMMA SeenIsCounted ==
  ASSUME ProxyInv, NEW h \in Handlers, handler[h].pc = "limit"
  PROVE  Seen(h) \in 0 .. MaxPerWindow /\ Seen(h) <= admitted[WindowOf(h)]
<1>1. WindowOf(h) \in Windows /\ CounterKey(h) = WindowOf(h)  BY AtLimiter DEF ProxyInv
<1>2. admitted[WindowOf(h)] \in Nat  BY <1>1 DEF ProxyInv, TypedInv
<1>3. QED  BY <1>1, <1>2, ProxyAssumption DEF Seen, Found, ProxyInv, TypedInv, CountsInv

-----------------------------------------------------------------------------
(* The steps. *)

\* A step that moves one handler and nothing the limiter knows.
LEMMA HandlerMoves ==
  ASSUME ProxyInv, NEW h \in Handlers, NEW x, handler' = [handler EXCEPT ![h] = x],
         UNCHANGED <<clock, counters, admitted, lost>>,
         x \in Resting \cup Looking \cup Limited \cup Replied,
         requests' \in 0 .. MaxRequests,
         DOMAIN cached' \subseteq Requests,
         \A key \in DOMAIN cached' : cached'[key].reply \in GatewayReplies(key) /\ cached'[key].reply.ok,
         x.pc \in {"fill", "answered"} =>
           x.reply \in GatewayReplies([deployment |-> x.deployment, query |-> x.query]),
         x.pc = "fill" => x.reply.ok,
         x.pc = "count" => x.n < MaxPerWindow /\ x.n <= admitted[[ip |-> x.ip, bucket |-> x.bucket]],
         x.pc = "refused" => MaxPerWindow <= admitted[[ip |-> x.ip, bucket |-> x.bucket]]
  PROVE  ProxyInv'
<1>1. handler'[h] = x /\ \A g \in Handlers \ {h} : handler'[g] = handler[g]
  BY DEF ProxyInv, TypedInv
<1>2. TypedInv'  BY DEF ProxyInv, TypedInv
<1>3. RepliesInv'  BY <1>1 DEF ProxyInv, RepliesInv, Request
<1>4. CountsInv'
  <2>1. \A w \in Windows : admitted'[w] <= Count(w)' + MaxPerWindow * lost'[w]
    BY DEF ProxyInv, CountsInv, Count
  <2>2. QED  BY <1>1, <2>1 DEF ProxyInv, CountsInv, WindowOf
<1>5. QED  BY <1>2, <1>3, <1>4 DEF ProxyInv

LEMMA InitHolds ==
  ASSUME ProxyInit
  PROVE  ProxyInv
<1>1. TypedInv  BY ProxyAssumption DEF ProxyInit, TypedInv, Idle, Resting
<1>2. RepliesInv  BY DEF ProxyInit, RepliesInv, Idle
<1>3. CountsInv
  <2>1. \A w \in Windows : admitted[w] = 0 /\ lost[w] = 0 /\ Count(w) = 0
    BY DEF ProxyInit, Count
  <2>2. QED  BY <2>1, ProxyAssumption DEF ProxyInit, CountsInv, Idle
<1>4. QED  BY <1>1, <1>2, <1>3 DEF ProxyInv

LEMMA ArriveKeeps ==
  ASSUME ProxyInv, NEW h \in Handlers, Arrive(h)
  PROVE  ProxyInv'
<1>1. requests' \in 0 .. MaxRequests
  BY ProxyAssumption DEF Arrive, ProxyInv, TypedInv
<1>2. PICK x \in Resting \cup Looking : handler' = [handler EXCEPT ![h] = x]
  <2>1. PICK disabled \in BOOLEAN, ip \in IPs, d \in Deployments, q \in Queries :
          handler' = [handler EXCEPT ![h] =
            IF Declined(disabled, [deployment |-> d, query |-> q]) THEN [pc |-> "declined"]
            ELSE [pc |-> "lookup", ip |-> ip, deployment |-> d, query |-> q]]
    BY DEF Arrive
  <2>2. CASE Declined(disabled, [deployment |-> d, query |-> q])
    <3>1. [pc |-> "declined"] \in Resting  BY DEF Resting
    <3>2. QED  BY <2>1, <2>2, <3>1
  <2>3. CASE ~Declined(disabled, [deployment |-> d, query |-> q])
    <3>1. d \in AllowedDeployments /\ q \in ForwardedQueries  BY <2>3 DEF Declined
    <3>2. [pc |-> "lookup", ip |-> ip, deployment |-> d, query |-> q] \in Looking  BY <3>1 DEF Looking
    <3>3. QED  BY <2>1, <2>3, <3>2
  <2>4. QED  BY <2>2, <2>3
<1>3. x.pc \notin {"fill", "answered", "count", "refused"}  BY DEF Resting, Looking
<1>4. UNCHANGED <<clock, cached, counters, admitted, lost>>  BY DEF Arrive
<1>5. QED  BY <1>1, <1>2, <1>3, <1>4, HandlerMoves DEF ProxyInv, TypedInv, RepliesInv

LEMMA LookupKeeps ==
  ASSUME ProxyInv, NEW h \in Handlers, Lookup(h)
  PROVE  ProxyInv'
<1>1. handler[h] \in Looking /\ Request(h) \in Requests  BY AtLookup DEF ProxyInv, Lookup
<1>2. UNCHANGED <<clock, requests, cached, counters, admitted, lost>>  BY DEF Lookup
<1>3. CASE Found(cached, CacheKey(Request(h)))
  <2>1. Request(h) \in DOMAIN cached /\ CacheKey(Request(h)) = Request(h)
    BY <1>3 DEF Found, CacheKey
  <2>2. cached[Request(h)].reply \in GatewayReplies(Request(h))  BY <2>1 DEF ProxyInv, RepliesInv
  <2> DEFINE x == [pc |-> "answered", deployment |-> handler[h].deployment,
                   query |-> handler[h].query, reply |-> cached[Request(h)].reply]
  <2>3. handler' = [handler EXCEPT ![h] = x]
    BY <1>3, <2>1 DEF Lookup, Answer, ProxyInv, TypedInv
  <2>4. x \in Replied  BY <1>1, <2>2 DEF Looking, Replied, AllReplies
  <2>5. QED  BY <1>2, <2>2, <2>3, <2>4, HandlerMoves DEF ProxyInv, TypedInv, RepliesInv, Request
<1>4. CASE ~Found(cached, CacheKey(Request(h)))
  <2> DEFINE x == [pc |-> "limit", ip |-> handler[h].ip, deployment |-> handler[h].deployment,
                   query |-> handler[h].query, bucket |-> clock \div Window, n |-> 0]
  <2>1. handler' = [handler EXCEPT ![h] = x]  BY <1>4 DEF Lookup, ProxyInv, TypedInv
  <2>2. x \in Limited  BY <1>1 DEF Looking, Limited, Buckets, ProxyInv, TypedInv
  <2>3. QED  BY <1>2, <2>1, <2>2, HandlerMoves DEF ProxyInv, TypedInv, RepliesInv
<1>5. QED  BY <1>3, <1>4

LEMMA ReadCounterKeeps ==
  ASSUME ProxyInv, NEW h \in Handlers, ReadCounter(h)
  PROVE  ProxyInv'
<1>1. handler[h] \in Limited /\ WindowOf(h) \in Windows  BY AtLimiter DEF ProxyInv, ReadCounter
<1>2. Seen(h) \in 0 .. MaxPerWindow /\ Seen(h) <= admitted[WindowOf(h)]  BY SeenIsCounted DEF ReadCounter
<1>3. UNCHANGED <<clock, requests, cached, counters, admitted, lost>>  BY DEF ReadCounter
<1>4. admitted[WindowOf(h)] \in Nat  BY <1>1 DEF ProxyInv, TypedInv
<1>5. CASE Seen(h) >= MaxPerWindow
  <2> DEFINE x == [handler[h] EXCEPT !.pc = "refused"]
  <2>1. handler' = [handler EXCEPT ![h] = x]  BY <1>5 DEF ReadCounter, ProxyInv, TypedInv
  <2>2. x \in Limited /\ [ip |-> x.ip, bucket |-> x.bucket] = WindowOf(h) /\ x.pc = "refused"
    BY <1>1 DEF Limited, WindowOf
  <2>3. MaxPerWindow <= admitted[WindowOf(h)]  BY <1>2, <1>4, <1>5, ProxyAssumption
  <2> HIDE DEF x
  <2>4. QED  BY <1>3, <2>1, <2>2, <2>3, HandlerMoves DEF ProxyInv, TypedInv, RepliesInv
<1>6. CASE ~(Seen(h) >= MaxPerWindow)
  <2> DEFINE x == [handler[h] EXCEPT !.pc = "count", !.n = Seen(h)]
  <2>1. handler' = [handler EXCEPT ![h] = x]  BY <1>6 DEF ReadCounter, ProxyInv, TypedInv
  <2>2. x \in Limited /\ [ip |-> x.ip, bucket |-> x.bucket] = WindowOf(h) /\ x.pc = "count"
        /\ x.n = Seen(h)
    <3>1. Seen(h) \in Nat  BY <1>2, ProxyAssumption
    <3> HIDE DEF x
    <3>2. x = [handler[h] EXCEPT !.pc = "count", !.n = Seen(h)]  BY DEF x
    <3>3. QED  BY <1>1, <3>1, <3>2 DEF Limited, WindowOf
  <2>3. Seen(h) < MaxPerWindow  BY <1>2, <1>6, ProxyAssumption
  <2> HIDE DEF x
  <2>4. QED  BY <1>2, <1>3, <2>1, <2>2, <2>3, HandlerMoves DEF ProxyInv, TypedInv, RepliesInv
<1>7. QED  BY <1>5, <1>6

\* One more is let pass, and the counter says so or a count is lost.
LEMMA WriteCounterKeeps ==
  ASSUME ProxyInv, NEW h \in Handlers, WriteCounter(h)
  PROVE  ProxyInv'
<1> DEFINE w == WindowOf(h)
           n == handler[h].n
<1>1. handler[h] \in Limited /\ w \in Windows /\ CounterKey(h) = w
  BY AtLimiter DEF ProxyInv, WriteCounter
<1>2. n \in Nat /\ n < MaxPerWindow /\ n <= admitted[w]
  BY <1>1 DEF Limited, ProxyInv, CountsInv, WriteCounter
<1>3. /\ counters' = Put(counters, w, [n |-> n + 1, until |-> clock + Window])
      /\ admitted' = [admitted EXCEPT ![w] = @ + 1]
      /\ lost' = IF w \in DOMAIN counters /\ counters[w].n > n THEN [lost EXCEPT ![w] = @ + 1] ELSE lost
      /\ handler' = [handler EXCEPT ![h].pc = "fetch"]
      /\ UNCHANGED <<clock, requests, cached>>
  BY <1>1 DEF WriteCounter
<1> HIDE DEF n
<1>4. /\ handler' \in [Handlers -> Resting \cup Looking \cup Limited \cup Replied]
      /\ handler'[h].pc = "fetch"
      /\ \A g \in Handlers \ {h} : handler'[g] = handler[g]
  BY <1>1, <1>3 DEF Limited, ProxyInv, TypedInv
<1> HIDE DEF w
<1>5. /\ DOMAIN counters' = DOMAIN counters \cup {w}
      /\ counters'[w].n = n + 1
      /\ \A v \in DOMAIN counters \ {w} : counters'[v] = counters[v]
  BY <1>3 DEF Put
<1>6. /\ admitted' \in [Windows -> Nat] /\ lost' \in [Windows -> Nat]
      /\ admitted'[w] = admitted[w] + 1
      /\ \A v \in Windows \ {w} : admitted'[v] = admitted[v] /\ lost'[v] = lost[v]
  BY <1>1, <1>3 DEF ProxyInv, TypedInv
<1>7. MaxPerWindow \in Nat \ {0}  BY ProxyAssumption
<1>8. TypedInv'
  <2>1. \A v \in DOMAIN counters' : counters'[v].n \in 1 .. MaxPerWindow
    BY <1>2, <1>5, <1>7 DEF ProxyInv, TypedInv
  <2>2. QED  BY <1>1, <1>3, <1>4, <1>5, <1>6, <2>1 DEF ProxyInv, TypedInv
<1>9. RepliesInv'  BY <1>3, <1>4 DEF ProxyInv, RepliesInv, Request
<1>10. CountsInv'
  <2>1. \A v \in DOMAIN counters' : counters'[v].n <= admitted'[v]
    BY <1>1, <1>2, <1>5, <1>6 DEF ProxyInv, TypedInv, CountsInv
  <2>2. \A v \in Windows : admitted[v] <= admitted'[v] /\ admitted[v] \in Nat /\ admitted'[v] \in Nat
    BY <1>1, <1>6 DEF ProxyInv, TypedInv
  <2>3. \A g \in Handlers : handler'[g].pc = "count" =>
          handler'[g].n < MaxPerWindow /\ handler'[g].n <= admitted'[WindowOf(g)']
    <3> SUFFICES ASSUME NEW g \in Handlers, handler'[g].pc = "count"
                 PROVE  handler'[g].n < MaxPerWindow /\ handler'[g].n <= admitted'[WindowOf(g)']
      OBVIOUS
    <3>1. g # h /\ handler'[g] = handler[g]  BY <1>4
    <3>2. handler[g] \in Limited /\ WindowOf(g) \in Windows  BY <3>1, AtLimiter DEF ProxyInv
    <3>3. WindowOf(g)' = WindowOf(g)  BY <3>1 DEF WindowOf
    <3>4. handler[g].n \in Nat  BY <3>2 DEF Limited
    <3>5. QED  BY <2>2, <3>1, <3>2, <3>3, <3>4 DEF ProxyInv, CountsInv
  <2>4. \A g \in Handlers : handler'[g].pc = "refused" => MaxPerWindow <= admitted'[WindowOf(g)']
    <3> SUFFICES ASSUME NEW g \in Handlers, handler'[g].pc = "refused"
                 PROVE  MaxPerWindow <= admitted'[WindowOf(g)']
      OBVIOUS
    <3>1. g # h /\ handler'[g] = handler[g]  BY <1>4
    <3>2. WindowOf(g) \in Windows  BY <3>1, AtLimiter DEF ProxyInv
    <3>3. WindowOf(g)' = WindowOf(g)  BY <3>1 DEF WindowOf
    <3>4. QED  BY <1>7, <2>2, <3>1, <3>2, <3>3 DEF ProxyInv, CountsInv
  <2>5. \A v \in Windows : admitted'[v] <= Count(v)' + MaxPerWindow * lost'[v]
    <3> SUFFICES ASSUME NEW v \in Windows
                 PROVE  admitted'[v] <= Count(v)' + MaxPerWindow * lost'[v]
      OBVIOUS
    <3>1. CASE v # w
      <4>1. Count(v)' = Count(v)  BY <1>5, <3>1 DEF Count
      <4>2. QED  BY <1>6, <3>1, <4>1 DEF ProxyInv, CountsInv
    <3>2. CASE v = w
      <4>1. Count(v)' = n + 1  BY <1>5, <3>2 DEF Count
      <4>2. Count(w) \in 0 .. MaxPerWindow  BY <1>7 DEF Count, ProxyInv, TypedInv
      <4>3. admitted[w] <= Count(w) + MaxPerWindow * lost[w]  BY <1>1 DEF ProxyInv, CountsInv
      <4>4. lost[w] \in Nat /\ admitted[w] \in Nat  BY <1>1 DEF ProxyInv, TypedInv
      <4>5. CASE w \in DOMAIN counters /\ counters[w].n > n
        <5>1. lost'[w] = lost[w] + 1  BY <1>1, <1>3, <4>5 DEF ProxyInv, TypedInv
        <5>2. MaxPerWindow * lost'[w] = MaxPerWindow * lost[w] + MaxPerWindow  BY <1>7, <4>4, <5>1
        <5>3. MaxPerWindow * lost[w] \in Nat  BY <1>7, <4>4
        <5>4. QED  BY <1>2, <1>6, <1>7, <3>2, <4>1, <4>2, <4>3, <4>4, <5>2, <5>3
      <4>6. CASE ~(w \in DOMAIN counters /\ counters[w].n > n)
        <5>1. lost' = lost  BY <1>3, <4>6
        <5>2. Count(w) <= n  BY <1>2, <1>7, <4>6 DEF Count, ProxyInv, TypedInv
        <5>3. MaxPerWindow * lost[w] \in Nat  BY <1>7, <4>4
        <5>4. QED  BY <1>2, <1>6, <3>2, <4>1, <4>2, <4>3, <4>4, <5>1, <5>2, <5>3
      <4>7. QED  BY <4>5, <4>6
    <3>3. QED  BY <3>1, <3>2
  <2>6. QED  BY <2>1, <2>3, <2>4, <2>5 DEF CountsInv
<1>11. QED  BY <1>8, <1>9, <1>10 DEF ProxyInv

LEMMA FetchKeeps ==
  ASSUME ProxyInv, NEW h \in Handlers, AskGateway(h)
  PROVE  ProxyInv'
<1>1. handler[h] \in Limited /\ Request(h) \in Requests  BY AtLimiter DEF ProxyInv, AskGateway
<1>2. UNCHANGED <<clock, requests, cached, counters, admitted, lost>>  BY DEF AskGateway
<1>3. PICK reply \in GatewayReplies(Request(h)) :
        Answer(h, IF reply.ok THEN "fill" ELSE "answered", reply)
  BY DEF AskGateway
<1> DEFINE x == [pc |-> IF reply.ok THEN "fill" ELSE "answered", deployment |-> handler[h].deployment,
                 query |-> handler[h].query, reply |-> reply]
<1>4. handler' = [handler EXCEPT ![h] = x]  BY <1>3 DEF Answer, ProxyInv, TypedInv
<1>5. x \in Replied  BY <1>1 DEF Limited, Replied, AllReplies
<1>6. [deployment |-> x.deployment, query |-> x.query] = Request(h)  BY DEF Request
<1>7. x.reply = reply /\ x.pc \in {"fill", "answered"} /\ (x.pc = "fill" => reply.ok)  OBVIOUS
<1> HIDE DEF x
<1>8. QED  BY <1>2, <1>4, <1>5, <1>6, <1>7, HandlerMoves DEF ProxyInv, TypedInv, RepliesInv

LEMMA FillKeeps ==
  ASSUME ProxyInv, NEW h \in Handlers, Fill(h)
  PROVE  ProxyInv'
<1>1. handler[h] \in Replied /\ Request(h) \in Requests  BY WithReply DEF ProxyInv, Fill
<1>2. handler[h].reply \in GatewayReplies(Request(h)) /\ handler[h].reply.ok
  BY DEF ProxyInv, RepliesInv, Fill
<1>3. UNCHANGED <<clock, requests, counters, admitted, lost>>  BY DEF Fill
<1> DEFINE x == [handler[h] EXCEPT !.pc = "answered"]
<1>4. handler' = [handler EXCEPT ![h] = x]  BY DEF Fill, ProxyInv, TypedInv
<1>5. /\ x \in Replied /\ x.pc = "answered" /\ x.reply = handler[h].reply
      /\ [deployment |-> x.deployment, query |-> x.query] = Request(h)
  BY <1>1 DEF Replied, Request
<1>6. /\ DOMAIN cached' \subseteq Requests
      /\ \A key \in DOMAIN cached' : cached'[key].reply \in GatewayReplies(key) /\ cached'[key].reply.ok
  <2>1. CASE cached' = Put(cached, CacheKey(Request(h)), [reply |-> handler[h].reply, until |-> clock + TTL])
    BY <1>1, <1>2, <2>1 DEF Put, CacheKey, ProxyInv, TypedInv, RepliesInv
  <2>2. CASE UNCHANGED cached  BY <2>2 DEF ProxyInv, TypedInv, RepliesInv
  <2>3. QED  BY <2>1, <2>2 DEF Fill
<1> HIDE DEF x
<1>7. QED  BY <1>2, <1>3, <1>4, <1>5, <1>6, HandlerMoves DEF ProxyInv, TypedInv

LEMMA EndKeeps ==
  ASSUME ProxyInv, NEW h \in Handlers, End(h)
  PROVE  ProxyInv'
<1>1. Idle \in Resting /\ Idle.pc = "idle"  BY DEF Idle, Resting
<1>2. handler' = [handler EXCEPT ![h] = Idle] /\ UNCHANGED <<clock, requests, cached, counters, admitted, lost>>
  BY DEF End
<1>3. QED  BY <1>1, <1>2, HandlerMoves DEF ProxyInv, TypedInv, RepliesInv

\* An evicted counter is a count lost, worth at most one allowance.
LEMMA EvictCounterKeeps ==
  ASSUME ProxyInv, EvictCounter
  PROVE  ProxyInv'
<1>1. PICK w \in DOMAIN counters :
        counters' = Without(counters, w) /\ lost' = [lost EXCEPT ![w] = @ + 1]
  BY DEF EvictCounter
<1>2. UNCHANGED <<clock, handler, requests, cached, admitted>>  BY DEF EvictCounter
<1>3. DOMAIN counters' = DOMAIN counters \ {w} /\ \A v \in DOMAIN counters' : counters'[v] = counters[v]
  BY <1>1 DEF Without
<1>4. w \in Windows /\ MaxPerWindow \in Nat \ {0}  BY ProxyAssumption DEF ProxyInv, TypedInv
<1>5. /\ lost' \in [Windows -> Nat] /\ lost'[w] = lost[w] + 1 /\ lost[w] \in Nat /\ admitted[w] \in Nat
      /\ \A v \in Windows \ {w} : lost'[v] = lost[v]
  BY <1>1, <1>4 DEF ProxyInv, TypedInv
<1>6. TypedInv'  BY <1>2, <1>3, <1>5 DEF ProxyInv, TypedInv
<1>7. RepliesInv'  BY <1>2 DEF ProxyInv, RepliesInv, Request
<1>8. \A v \in Windows : admitted'[v] <= Count(v)' + MaxPerWindow * lost'[v]
  <2> SUFFICES ASSUME NEW v \in Windows
               PROVE  admitted'[v] <= Count(v)' + MaxPerWindow * lost'[v]
    OBVIOUS
  <2>1. CASE v # w
    <3>1. Count(v)' = Count(v)  BY <1>3, <2>1 DEF Count
    <3>2. QED  BY <1>2, <1>5, <2>1, <3>1 DEF ProxyInv, CountsInv
  <2>2. CASE v = w
    <3>1. Count(w)' = 0  BY <1>3 DEF Count
    <3>2. Count(w) \in 0 .. MaxPerWindow  BY <1>4 DEF Count, ProxyInv, TypedInv
    <3>3. admitted[w] <= Count(w) + MaxPerWindow * lost[w]  BY <1>4 DEF ProxyInv, CountsInv
    <3>4. MaxPerWindow * lost'[w] = MaxPerWindow * lost[w] + MaxPerWindow /\ MaxPerWindow * lost[w] \in Nat  BY <1>4, <1>5
    <3>5. QED  BY <1>2, <1>4, <1>5, <2>2, <3>1, <3>2, <3>3, <3>4
  <2>3. QED  BY <2>1, <2>2
<1>9. CountsInv'  BY <1>2, <1>3, <1>8 DEF ProxyInv, CountsInv, WindowOf
<1>10. QED  BY <1>6, <1>7, <1>9 DEF ProxyInv

LEMMA StepKeeps ==
  ASSUME ProxyInv, [ProxyNext]_proxyVars
  PROVE  ProxyInv'
<1>1. ASSUME Tick  PROVE ProxyInv'
  <2>1. /\ clock' \in 0 .. MaxClock
        /\ UNCHANGED <<handler, requests, cached, counters, admitted, lost>>
    BY <1>1, ProxyAssumption DEF Tick, ProxyInv, TypedInv
  <2>2. TypedInv' /\ RepliesInv'  BY <2>1 DEF ProxyInv, TypedInv, RepliesInv, Request
  <2>3. CountsInv'  BY <2>1 DEF ProxyInv, CountsInv, WindowOf, Count
  <2>4. QED  BY <2>2, <2>3 DEF ProxyInv
<1>2. CASE EvictCounter  BY <1>2, EvictCounterKeeps
<1>3. ASSUME NEW h \in Handlers, Arrive(h) \/ Handle(h)  PROVE ProxyInv'
  BY <1>3, ArriveKeeps, LookupKeeps, ReadCounterKeeps, WriteCounterKeeps, FetchKeeps, FillKeeps, EndKeeps
     DEF Handle
<1>4. CASE UNCHANGED proxyVars
  <2>1. TypedInv' /\ RepliesInv'  BY <1>4 DEF ProxyInv, TypedInv, RepliesInv, Request, proxyVars
  <2>2. CountsInv'  BY <1>4 DEF ProxyInv, CountsInv, WindowOf, Count, proxyVars
  <2>3. QED  BY <2>1, <2>2 DEF ProxyInv
<1>5. QED  BY <1>1, <1>2, <1>3, <1>4 DEF ProxyNext

LEMMA ProxyInvariant == ProxySpec => []ProxyInv
<1>1. ProxyInit => ProxyInv  BY InitHolds
<1>2. ProxyInv /\ [ProxyNext]_proxyVars => ProxyInv'  BY StepKeeps
<1>3. QED  BY <1>1, <1>2, PTL DEF ProxySpec

-----------------------------------------------------------------------------
(***************************************************************************)
(* Types: no counter goes past the limit, none says more than were let     *)
(* pass, and only answers with status 200 are kept in the cache            *)
(* (index.js:60-72 and 152-160).                                           *)
(***************************************************************************)
THEOREM TypeCorrect == ProxySpec => []ProxyTypeOK
<1>1. ProxyInv => ProxyTypeOK
  BY DEF ProxyInv, TypedInv, RepliesInv, CountsInv, ProxyTypeOK, Requests
<1>2. QED  BY <1>1, ProxyInvariant, PTL

(***************************************************************************)
(* The limiter lets an IP pass at most MaxPerWindow times in a window, and *)
(* once more that for each count that is lost, to whatever loses it.       *)
(***************************************************************************)
THEOREM AllowanceAlwaysHolds == ProxySpec => []AllowanceHolds
<1>1. ProxyInv => AllowanceHolds
  <2> SUFFICES ASSUME ProxyInv, NEW w \in Windows
               PROVE  admitted[w] <= MaxPerWindow * (1 + lost[w])
    BY DEF AllowanceHolds
  <2>1. MaxPerWindow \in Nat \ {0} /\ lost[w] \in Nat /\ admitted[w] \in Nat
    BY ProxyAssumption DEF ProxyInv, TypedInv
  <2>2. Count(w) \in 0 .. MaxPerWindow  BY <2>1 DEF Count, ProxyInv, TypedInv
  <2>3. admitted[w] <= Count(w) + MaxPerWindow * lost[w]  BY DEF ProxyInv, CountsInv
  <2>4. /\ MaxPerWindow * (1 + lost[w]) = MaxPerWindow + MaxPerWindow * lost[w]
        /\ MaxPerWindow * lost[w] \in Nat
    BY <2>1
  <2>5. QED  BY <2>1, <2>2, <2>3, <2>4
<1>2. QED  BY <1>1, ProxyInvariant, PTL

(***************************************************************************)
(* A visitor is refused only after having been let pass MaxPerWindow times *)
(* in that window, whoever else is asking and however requests overlap.    *)
(***************************************************************************)
THEOREM RefusalAlwaysJustified == ProxySpec => []RefusalJustified
<1>1. ProxyInv => RefusalJustified
  <2> SUFFICES ASSUME ProxyInv, NEW h \in Handlers, handler[h].pc = "refused"
               PROVE  admitted[WindowOf(h)] >= MaxPerWindow
    BY DEF RefusalJustified
  <2>1. WindowOf(h) \in Windows  BY AtLimiter DEF ProxyInv
  <2>2. admitted[WindowOf(h)] \in Nat  BY <2>1 DEF ProxyInv, TypedInv
  <2>3. QED  BY <2>2, ProxyAssumption DEF ProxyInv, CountsInv
<1>2. QED  BY <1>1, ProxyInvariant, PTL

\* An answer of the gateway is to the request, and its attestation verifies.
LEMMA GatewayRepliesVerify ==
  ASSUME NEW request, NEW reply \in GatewayReplies(request), reply.ok
  PROVE  /\ reply.body[1].deployment = request.deployment
         /\ reply.body[1].query = request.query
         /\ reply.body[1].signed <=> reply.attestation # <<>>
         /\ reply.body[1].signed =>
              Verifies(Bundle(request.query, reply, request.deployment, NoAddress), SignedDomain)
<1> DEFINE body(signed) == [deployment |-> request.deployment, query |-> request.query, signed |-> signed]
           att == Attest(SignedDomain, Key, request.deployment,
                         CanonicalRequest(ClientPostBody(request.query)), body(TRUE))
<1>1. CASE reply = Unattested(body(FALSE))  BY <1>1 DEF Unattested
<1>2. CASE reply = Attested(att, body(TRUE))
  <2>1. /\ reply.body[1] = body(TRUE) /\ reply.attestation[1] = att /\ reply.attestation # <<>>
    BY <1>2 DEF Attested
  <2> DEFINE b == Bundle(request.query, reply, request.deployment, NoAddress)
  <2>2. /\ b.request = [query |-> request.query, variables |-> <<>>] /\ b.response = body(TRUE)
        /\ b.attestation = att /\ b.deployment = request.deployment
    BY <2>1 DEF Bundle, CanonicalRequestString
  <2>3. /\ att.requestCID = [query |-> request.query, variables |-> <<>>]
        /\ att.responseCID = body(TRUE) /\ att.deployment = request.deployment
        /\ att.signature.key = Key
        /\ att.signature.over = <<SignedDomain, att.requestCID, att.responseCID, att.deployment>>
    BY DEF Attest, CanonicalRequest, ClientPostBody
  <2> HIDE DEF b, att
  <2>4. RecoverAllocation(SignedDomain, att) # <<>>
    BY <2>3, ProxyAssumption DEF RecoverAllocation, Address
  <2>5. Verifies(b, SignedDomain)
    <3> DEFINE checks == OfflineChecks(b, SignedDomain)
    <3>1. /\ checks.responseCID /\ checks.requestCID /\ checks.subgraphDeploymentID
          /\ checks.eip712Recovery
      BY <2>2, <2>3, <2>4 DEF OfflineChecks
    <3>2. DOMAIN checks = {"responseCID", "requestCID", "subgraphDeploymentID", "eip712Recovery"}
      BY DEF OfflineChecks
    <3>3. QED  BY <3>1, <3>2 DEF Verifies
  <2>6. QED  BY <2>1, <2>5 DEF b
<1>3. CASE reply = NotFound  BY <1>3 DEF NotFound
<1>4. QED  BY <1>1, <1>2, <1>3 DEF GatewayReplies

(***************************************************************************)
(* What a visitor gets, from the cache or not, is the gateway's answer to  *)
(* that visitor's deployment and query, with the attestation it came with, *)
(* and verifies.                                                           *)
(***************************************************************************)
THEOREM AnswersAlwaysVerify == ProxySpec => []AnswersVerify
<1>1. ProxyInv => AnswersVerify
  <2> SUFFICES ASSUME ProxyInv, NEW h \in Handlers, handler[h].pc \in {"fill", "answered"},
                      handler[h].reply.ok
               PROVE  LET reply == handler[h].reply
                          bundle == Bundle(handler[h].query, reply, handler[h].deployment, NoAddress)
                      IN /\ reply.body[1].deployment = handler[h].deployment
                         /\ reply.body[1].query = handler[h].query
                         /\ reply.body[1].signed <=> reply.attestation # <<>>
                         /\ reply.body[1].signed => Verifies(bundle, SignedDomain)
    BY DEF AnswersVerify
  <2>1. handler[h].reply \in GatewayReplies(Request(h))  BY DEF ProxyInv, RepliesInv
  <2>2. Request(h).deployment = handler[h].deployment /\ Request(h).query = handler[h].query
    BY DEF Request
  <2>3. QED  BY <2>1, <2>2, GatewayRepliesVerify
<1>2. QED  BY <1>1, ProxyInvariant, PTL
=============================================================================
