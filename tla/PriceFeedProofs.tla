--------------------------- MODULE PriceFeedProofs ---------------------------
(***************************************************************************)
(* The price feed of an account for any number of runs, symbols, logins,   *)
(* sockets and lost connections: what is served is fresh, no socket is     *)
(* left behind, and a connected feed streams what it knows.                *)
(***************************************************************************)
EXTENDS PriceFeed, TLAPS

USE DEF feed

\* A reader between get() and stale() holds the last tick of its one symbol,
\* unless a new tick came in between.
HoldsLastTick ==
  \A r \in Readers : reader[r].pc = "stale" =>
    \E s \in Symbols :
      /\ reader[r].symbol = {s}
      /\ reader[r].tick # Never =>
           reader[r].overtaken \/ reader[r].tick = cache[reader[r].of][s]
FreshInv == TypeOK /\ HoldsLastTick

\* The feeds come one after the other, and those to come are untouched.
InOrder ==
  /\ current <= token
  /\ \A r \in Readers : source[r] <= current /\ reader[r].of <= current
  /\ \A f \in Tokens : f > current => ticker[f] = NoTicker /\ known[f] = {}

\* The ticker of a feed, and the one being built for it, are sockets of its own.
OwnSockets ==
  /\ \A f \in Tokens : ticker[f] # NoTicker =>
       sockets[ticker[f]].state # "none" /\ sockets[ticker[f]].of = f
  /\ \A r \in Readers : reader[r].pc = "assign" =>
       /\ reader[r].socket \in Ids
       /\ sockets[reader[r].socket].state # "none"
       /\ sockets[reader[r].socket].of = reader[r].of
ShapeInv == TypeOK /\ InOrder /\ OwnSockets

Races == {"raced", "revived"}

-----------------------------------------------------------------------------
(* Types.                                                                  *)

LEMMA ChosenSocket ==
  ASSUME NEW S \in SUBSET Ids, S # {}
  PROVE  (CHOOSE x \in S : TRUE) \in S
OBVIOUS

LEMMA SentType ==
  ASSUME TypeOK, NEW f \in Tokens, NEW S \in SUBSET Symbols
  PROVE  Subscribed(f, S) \in [Ids -> Socket]
<1>1. \A s \in Ids : [sockets[s] EXCEPT !.subs = @ \cup S] \in Socket
  BY DEF TypeOK, Socket
<1>2. \A s \in Ids : Subscribed(f, S)[s] \in Socket
  BY <1>1 DEF Subscribed, TypeOK
<1> QED BY <1>2 DEF Subscribed

LEMMA InitTypes == Init => TypeOK
<1> SUFFICES ASSUME Init PROVE TypeOK
  OBVIOUS
<1>1. 1 \in Tokens
  BY FeedAssumption DEF Tokens
<1>2. reader \in [Readers -> Reading]
  BY <1>1 DEF Init, Idle, Reading, Never, NoTicker
<1>3. sockets \in [Ids -> Socket]
  BY <1>1 DEF Init, NoSocket, Socket
<1>4. cache \in [Tokens -> [Symbols -> -1..clock]]
  BY DEF Init, Never
<1> QED BY <1>1, <1>2, <1>3, <1>4 DEF Init, TypeOK

LEMMA NextTypes == TypeOK /\ [Next]_vars => TypeOK'
<1> SUFFICES ASSUME TypeOK, [Next]_vars PROVE TypeOK'
  OBVIOUS
<1>a. /\ clock \in Nat /\ token \in Tokens /\ current \in Tokens /\ source \in [Readers -> Tokens]
      /\ ticker \in [Tokens -> Ids \cup {NoTicker}] /\ known \in [Tokens -> SUBSET Symbols]
      /\ cache \in [Tokens -> [Symbols -> -1..clock]] /\ sockets \in [Ids -> Socket]
      /\ reader \in [Readers -> Reading] /\ drops \in Nat /\ disturbed \subseteq Races
  BY DEF TypeOK, Races
<1>b. 1 \in Tokens /\ Tokens \subseteq Int /\ Ids \subseteq Int /\ NoTicker \notin Ids
  BY FeedAssumption DEF Tokens, Ids, NoTicker
<1>c. \A r \in Readers : reader[r] \in Reading
  BY <1>a
<1>1. ASSUME NEW r \in Readers, GetQuotes(r) PROVE TypeOK'
  <2>1. PICK S \in Asked : reader' = [reader EXCEPT ![r].pc = "ticker", ![r].of = source[r],
                                                    ![r].left = S]
    BY <1>1 DEF GetQuotes
  <2>2. S \in SUBSET Symbols
    BY FeedAssumption
  <2> DEFINE x == [reader[r] EXCEPT !.pc = "ticker", !.of = source[r], !.left = S]
  <2>3. x \in Reading
    BY <1>a, <1>c, <2>2 DEF Reading
  <2>4. reader' = [reader EXCEPT ![r] = x]
    BY <2>1
  <2>5. reader' \in [Readers -> Reading]
    BY <1>a, <2>3, <2>4
  <2> QED BY <1>1, <1>a, <2>5 DEF GetQuotes, TypeOK, Races
<1>2. ASSUME NEW r \in Readers, BuildTicker(r) PROVE TypeOK'
  <2> DEFINE free == {s \in Ids : sockets[s].state = "none"}
             s == CHOOSE x \in free : TRUE
  <2>1. s \in Ids
    BY <1>2, ChosenSocket DEF BuildTicker
  <2>2. reader[r].of \in Tokens
    BY <1>a DEF Reading
  <2> HIDE DEF s
  <2>3. /\ sockets' = [sockets EXCEPT ![s] = [NoSocket EXCEPT !.state = "opening", !.of = reader[r].of]]
        /\ reader' = [reader EXCEPT ![r].pc = "assign", ![r].socket = s]
        /\ disturbed' \subseteq disturbed \cup Races
    BY <1>2 DEF BuildTicker, s, Races
  <2>4. [NoSocket EXCEPT !.state = "opening", !.of = reader[r].of] \in Socket
    BY <2>2 DEF NoSocket, Socket
  <2>5. sockets' \in [Ids -> Socket]
    BY <1>a, <2>1, <2>3, <2>4
  <2>6. [reader[r] EXCEPT !.pc = "assign", !.socket = s] \in Reading
    BY <1>c, <2>1 DEF Reading
  <2>7. reader' = [reader EXCEPT ![r] = [reader[r] EXCEPT !.pc = "assign", !.socket = s]]
    BY <2>3
  <2>8. reader' \in [Readers -> Reading]
    BY <1>a, <2>6, <2>7
  <2> QED BY <1>2, <1>a, <2>3, <2>5, <2>8 DEF BuildTicker, TypeOK, Races
<1>3. ASSUME NEW r \in Readers, AssignTicker(r) PROVE TypeOK'
  <2>1. reader[r].of \in Tokens /\ reader[r].socket \in Ids \cup {NoTicker}
    BY <1>a DEF Reading
  <2>2. /\ ticker' = [ticker EXCEPT ![reader[r].of] = reader[r].socket]
        /\ reader' = [reader EXCEPT ![r].pc = "resolve", ![r].socket = NoTicker]
        /\ disturbed' \subseteq disturbed \cup Races
    BY <1>3 DEF AssignTicker, Races
  <2>3. [reader[r] EXCEPT !.pc = "resolve", !.socket = NoTicker] \in Reading
    BY <1>c DEF Reading
  <2>4. reader' = [reader EXCEPT ![r] = [reader[r] EXCEPT !.pc = "resolve", !.socket = NoTicker]]
    BY <2>2
  <2>5. reader' \in [Readers -> Reading]
    BY <1>a, <2>3, <2>4
  <2> QED BY <1>3, <1>a, <2>1, <2>2, <2>5 DEF AssignTicker, TypeOK, Races
<1>4. ASSUME NEW r \in Readers, TickerIsThere(r) \/ TickerFails(r) PROVE TypeOK'
  <2>1. PICK pc \in {"resolve", "get"} : GoTo(r, pc)
    BY <1>4 DEF TickerIsThere, TickerFails
  <2>2. [reader[r] EXCEPT !.pc = pc] \in Reading
    BY <1>c DEF Reading
  <2>3. reader' = [reader EXCEPT ![r] = [reader[r] EXCEPT !.pc = pc]]
    BY <2>1 DEF GoTo
  <2>4. reader' \in [Readers -> Reading]
    BY <1>a, <2>2, <2>3
  <2> QED BY <1>4, <1>a, <2>4 DEF TickerIsThere, TickerFails, TypeOK, Races
<1>5. ASSUME NEW r \in Readers, Resolve(r) PROVE TypeOK'
  <2>1. reader[r].of \in Tokens /\ reader[r].left \in SUBSET Symbols
    BY <1>a DEF Reading
  <2>2. PICK found \in SUBSET (reader[r].left \ known[reader[r].of]) :
          /\ known' = [known EXCEPT ![reader[r].of] = @ \cup found]
          /\ reader' = [reader EXCEPT ![r].pc = IF found = {} THEN "get" ELSE "subscribe",
                                      ![r].symbol = found]
    BY <1>5 DEF Resolve
  <2> DEFINE x == [reader[r] EXCEPT !.pc = IF found = {} THEN "get" ELSE "subscribe",
                                    !.symbol = found]
  <2>3. x \in Reading
    BY <1>c, <2>1 DEF Reading
  <2>4. reader' = [reader EXCEPT ![r] = x]
    BY <2>2
  <2>5. reader' \in [Readers -> Reading]
    BY <1>a, <2>3, <2>4
  <2>6. known' \in [Tokens -> SUBSET Symbols]
    BY <1>a, <2>1, <2>2
  <2> QED BY <1>5, <1>a, <2>5, <2>6 DEF Resolve, TypeOK, Races
<1>6. ASSUME NEW r \in Readers, Subscribe(r) PROVE TypeOK'
  <2>1. reader[r].of \in Tokens /\ reader[r].symbol \in SUBSET Symbols
    BY <1>a DEF Reading
  <2>2. sockets' \in [Ids -> Socket]
    BY <1>6, <2>1, SentType DEF Subscribe
  <2>3. [reader[r] EXCEPT !.pc = "get", !.symbol = {}] \in Reading
    BY <1>c DEF Reading
  <2>4. reader' = [reader EXCEPT ![r] = [reader[r] EXCEPT !.pc = "get", !.symbol = {}]]
    BY <1>6 DEF Subscribe
  <2>5. reader' \in [Readers -> Reading]
    BY <1>a, <2>3, <2>4
  <2> QED BY <1>6, <1>a, <2>2, <2>5 DEF Subscribe, TypeOK, Races
<1>7. ASSUME NEW r \in Readers, Get(r) PROVE TypeOK'
  <2>1. PICK s \in reader[r].left :
          reader' = [reader EXCEPT ![r].pc = "stale", ![r].left = {}, ![r].symbol = {s},
                                   ![r].tick = cache[reader[r].of][s]]
    BY <1>7 DEF Get
  <2>2. s \in Symbols /\ reader[r].of \in Tokens
    BY <1>a DEF Reading
  <2>3. cache[reader[r].of][s] \in Int
    BY <1>a, <2>2
  <2> DEFINE x == [reader[r] EXCEPT !.pc = "stale", !.left = {}, !.symbol = {s},
                                    !.tick = cache[reader[r].of][s]]
  <2>4. x \in Reading
    BY <1>c, <2>2, <2>3 DEF Reading
  <2>5. reader' = [reader EXCEPT ![r] = x]
    BY <2>1
  <2>6. reader' \in [Readers -> Reading]
    BY <1>a, <2>4, <2>5
  <2> QED BY <1>7, <1>a, <2>6 DEF Get, TypeOK, Races
<1>8. ASSUME NEW r \in Readers, Check(r) PROVE TypeOK'
  <2>1. Idle \in Reading
    BY <1>b DEF Idle, Reading, Never, NoTicker
  <2> QED BY <1>8, <1>a, <2>1 DEF Check, TypeOK, Races
<1>9. ASSUME NEW s \in Ids, OnConnect(s) PROVE TypeOK'
  <2>1. known[sockets[s].of] \in SUBSET Symbols
    BY <1>a DEF Socket
  <2> DEFINE x == [sockets[s] EXCEPT !.state = "up", !.subs = {}, !.calling = TRUE,
                                     !.tokens = known[sockets[s].of]]
  <2>2. x \in Socket
    BY <1>a, <2>1 DEF Socket
  <2>3. sockets' = [sockets EXCEPT ![s] = x]
    BY <1>9 DEF OnConnect
  <2>4. sockets' \in [Ids -> Socket]
    BY <1>a, <2>2, <2>3
  <2> QED BY <1>9, <1>a, <2>4 DEF OnConnect, TypeOK, Races
<1>10. ASSUME NEW s \in Ids, Resubscribe(s) PROVE TypeOK'
  <2>1. sockets[s].of \in Tokens /\ sockets[s].tokens \in SUBSET Symbols
    BY <1>a DEF Socket
  <2> DEFINE sent == Subscribed(sockets[s].of, sockets[s].tokens)
  <2>2. sent \in [Ids -> Socket]
    BY <2>1, SentType
  <2>3. sockets' = [sent EXCEPT ![s] = [sent[s] EXCEPT !.calling = FALSE, !.tokens = {}]]
    BY <1>10 DEF Resubscribe
  <2> HIDE DEF sent
  <2>4. [sent[s] EXCEPT !.calling = FALSE, !.tokens = {}] \in Socket
    BY <2>2 DEF Socket
  <2>5. sockets' \in [Ids -> Socket]
    BY <2>2, <2>3, <2>4
  <2> QED BY <1>10, <1>a, <2>5 DEF Resubscribe, TypeOK, Races
<1>11. ASSUME NEW s \in Ids, OnClose(s) PROVE TypeOK'
  <2>1. [sockets[s] EXCEPT !.state = "down", !.subs = {}] \in Socket
    BY <1>a DEF Socket
  <2>2. sockets' = [sockets EXCEPT ![s] = [sockets[s] EXCEPT !.state = "down", !.subs = {}]]
    BY <1>11 DEF OnClose
  <2>3. sockets' \in [Ids -> Socket]
    BY <1>a, <2>1, <2>2
  <2> QED BY <1>11, <1>a, <2>3 DEF OnClose, TypeOK, Races
<1>12. ASSUME NEW s \in Ids, OnTicks(s) PROVE TypeOK'
  <2> DEFINE f == sockets[s].of
  <2>1. PICK S \in SUBSET sockets[s].subs \ {{}} :
          /\ cache' = [cache EXCEPT ![f] = [x \in Symbols |-> IF x \in S THEN clock ELSE @[x]]]
          /\ reader' = [r \in Readers |->
                          IF reader[r].pc = "stale" /\ reader[r].of = f /\ reader[r].symbol \subseteq S
                            THEN [reader[r] EXCEPT !.overtaken = reader[r].tick # Never]
                            ELSE reader[r]]
    BY <1>12 DEF OnTicks
  <2>2. f \in Tokens
    BY <1>a DEF Socket
  <2>3. clock \in -1..clock
    BY <1>a
  <2>4. [x \in Symbols |-> IF x \in S THEN clock ELSE cache[f][x]] \in [Symbols -> -1..clock]
    BY <1>a, <2>2, <2>3
  <2>5. cache' \in [Tokens -> [Symbols -> -1..clock]]
    BY <1>a, <2>1, <2>2, <2>4
  <2>6. \A r \in Readers : [reader[r] EXCEPT !.overtaken = reader[r].tick # Never] \in Reading
    BY <1>a DEF Reading
  <2>7. reader' \in [Readers -> Reading]
    BY <1>a, <2>1, <2>6
  <2> QED BY <1>12, <1>a, <2>5, <2>7 DEF OnTicks, TypeOK, Races
<1>13. ASSUME Login PROVE TypeOK'
  <2>1. token' \in Tokens
    BY <1>13, <1>a, FeedAssumption DEF Login, Tokens
  <2> QED BY <1>13, <1>a, <2>1 DEF Login, TypeOK, Races
<1>14. ASSUME NEW r \in Readers, FeedFor(r) PROVE TypeOK'
  <2>1. Stopped(current) \in [Tokens -> Ids \cup {NoTicker}]
    BY <1>a DEF Stopped
  <2>2. \A s \in Ids : [sockets[s] EXCEPT !.state = "closed", !.subs = {}] \in Socket
    BY <1>a DEF Socket
  <2>3. Closed(current) \in [Ids -> Socket]
    BY <1>a, <2>2 DEF Closed
  <2>4. ticker' \in [Tokens -> Ids \cup {NoTicker}] /\ sockets' \in [Ids -> Socket]
    BY <1>a, <1>14, <2>1, <2>3 DEF FeedFor
  <2>5. disturbed' \subseteq Races
    BY <1>a, <1>14 DEF FeedFor, Races
  <2> QED BY <1>14, <1>a, <2>4, <2>5 DEF FeedFor, TypeOK, Races
<1>15. ASSUME TimePasses PROVE TypeOK'
  <2>1. clock' \in Nat /\ -1..clock \subseteq -1..clock'
    BY <1>15, <1>a DEF TimePasses
  <2>2. cache \in [Tokens -> [Symbols -> -1..clock']]
    BY <1>a, <2>1
  <2> QED BY <1>15, <1>a, <2>1, <2>2 DEF TimePasses, TypeOK, Races
<1>16. CASE UNCHANGED vars
  BY <1>16, <1>a DEF vars, TypeOK, Races
<1> QED BY <1>1, <1>2, <1>3, <1>4, <1>5, <1>6, <1>7, <1>8, <1>9, <1>10, <1>11, <1>12, <1>13,
           <1>14, <1>15, <1>16 DEF Next, Read, Callback

\* Every variable stays in its type and no tick is stamped ahead of the clock
\* (live/pricefeed.py), for any runs, symbols, logins and sockets.
THEOREM TypeCorrect == Spec => []TypeOK
<1>1. Init => TypeOK
  BY InitTypes
<1>2. TypeOK /\ [Next]_vars => TypeOK'
  BY NextTypes
<1> QED BY <1>1, <1>2, PTL DEF Spec

-----------------------------------------------------------------------------
(* What is served.                                                         *)

LEMMA InitFresh == Init => FreshInv
BY InitTypes DEF FreshInv, HoldsLastTick, Init, Idle

LEMMA NextFresh == FreshInv /\ [Next]_vars => FreshInv'
<1> SUFFICES ASSUME FreshInv, [Next]_vars PROVE FreshInv'
  OBVIOUS
<1>a. TypeOK /\ TypeOK'
  BY NextTypes DEF FreshInv
<1>b. reader \in [Readers -> Reading] /\ cache \in [Tokens -> [Symbols -> -1..clock]]
  BY <1>a DEF TypeOK
<1>c. HoldsLastTick
  BY DEF FreshInv
<1>1. ASSUME NEW r \in Readers,
             cache' = cache, \A q \in Readers : q # r => reader'[q] = reader[q],
             reader'[r].pc # "stale"
      PROVE  HoldsLastTick'
  BY <1>1, <1>c DEF HoldsLastTick
<1>2. ASSUME UNCHANGED <<cache, reader>> PROVE HoldsLastTick'
  BY <1>2, <1>c DEF HoldsLastTick
<1>3. ASSUME NEW r \in Readers, Read(r), ~Get(r) PROVE HoldsLastTick'
  <2>1. cache' = cache /\ \A q \in Readers : q # r => reader'[q] = reader[q]
    BY <1>3, <1>b DEF Read, GetQuotes, BuildTicker, AssignTicker, TickerIsThere, TickerFails,
          Resolve, Subscribe, Check, GoTo
  <2>2. reader'[r].pc # "stale"
    <3>1. CASE GetQuotes(r)
      BY <3>1, <1>b DEF GetQuotes, Reading
    <3>2. CASE BuildTicker(r) \/ AssignTicker(r)
      BY <3>2, <1>b DEF BuildTicker, AssignTicker, Reading
    <3>3. CASE TickerIsThere(r) \/ TickerFails(r)
      BY <3>3, <1>b DEF TickerIsThere, TickerFails, GoTo, Reading
    <3>4. CASE Resolve(r)
      BY <3>4, <1>b DEF Resolve, Reading
    <3>5. CASE Subscribe(r) \/ Check(r)
      BY <3>5, <1>b DEF Subscribe, Check, Idle, Reading
    <3> QED BY <1>3, <3>1, <3>2, <3>3, <3>4, <3>5 DEF Read
  <2> QED BY <1>1, <2>1, <2>2
<1>4. ASSUME NEW r \in Readers, Get(r) PROVE HoldsLastTick'
  <2>1. PICK s \in reader[r].left :
          reader' = [reader EXCEPT ![r].pc = "stale", ![r].left = {}, ![r].symbol = {s},
                                   ![r].tick = cache[reader[r].of][s]]
    BY <1>4 DEF Get
  <2>2. s \in Symbols
    BY <1>b DEF Reading
  <2>3. /\ reader'[r].symbol = {s} /\ reader'[r].of = reader[r].of
        /\ reader'[r].tick = cache[reader[r].of][s]
    BY <1>b, <2>1 DEF Reading
  <2>4. cache' = cache /\ \A q \in Readers : q # r => reader'[q] = reader[q]
    BY <1>4, <1>b, <2>1 DEF Get
  <2>5. ASSUME NEW q \in Readers, reader'[q].pc = "stale"
        PROVE  \E x \in Symbols :
                 /\ reader'[q].symbol = {x}
                 /\ reader'[q].tick # Never =>
                      reader'[q].overtaken \/ reader'[q].tick = cache'[reader'[q].of][x]
    <3>1. CASE q = r
      BY <3>1, <2>2, <2>3, <2>4
    <3>2. CASE q # r
      BY <3>2, <2>4, <2>5, <1>c DEF HoldsLastTick
    <3> QED BY <3>1, <3>2
  <2> QED BY <2>5 DEF HoldsLastTick
<1>5. ASSUME NEW s \in Ids, OnTicks(s) PROVE HoldsLastTick'
  <2> DEFINE f == sockets[s].of
  <2>1. PICK S \in SUBSET sockets[s].subs \ {{}} :
          /\ cache' = [cache EXCEPT ![f] = [x \in Symbols |-> IF x \in S THEN clock ELSE @[x]]]
          /\ reader' = [r \in Readers |->
                          IF reader[r].pc = "stale" /\ reader[r].of = f /\ reader[r].symbol \subseteq S
                            THEN [reader[r] EXCEPT !.overtaken = reader[r].tick # Never]
                            ELSE reader[r]]
    BY <1>5 DEF OnTicks
  <2>2. f \in Tokens
    BY <1>a DEF TypeOK, Socket
  <2> HIDE DEF f
  <2>3. ASSUME NEW q \in Readers, reader'[q].pc = "stale"
        PROVE  \E x \in Symbols :
                 /\ reader'[q].symbol = {x}
                 /\ reader'[q].tick # Never =>
                      reader'[q].overtaken \/ reader'[q].tick = cache'[reader'[q].of][x]
    <3>1. /\ reader'[q].pc = reader[q].pc /\ reader'[q].of = reader[q].of
          /\ reader'[q].symbol = reader[q].symbol /\ reader'[q].tick = reader[q].tick
      BY <1>b, <2>1 DEF Reading
    <3>2. PICK x \in Symbols :
            /\ reader[q].symbol = {x}
            /\ reader[q].tick # Never =>
                 reader[q].overtaken \/ reader[q].tick = cache[reader[q].of][x]
      BY <2>3, <3>1, <1>c DEF HoldsLastTick
    <3>3. CASE reader[q].of = f /\ x \in S
      <4>1. reader'[q] = [reader[q] EXCEPT !.overtaken = reader[q].tick # Never]
        BY <2>1, <2>3, <3>1, <3>2, <3>3
      <4>2. reader'[q].overtaken = (reader[q].tick # Never)
        BY <4>1, <1>b DEF Reading
      <4> QED BY <3>1, <3>2, <4>2
    <3>4. CASE ~(reader[q].of = f /\ x \in S)
      <4>1. reader'[q] = reader[q]
        BY <2>1, <3>2, <3>4
      <4>2. reader[q].of \in Tokens
        BY <1>b DEF Reading
      <4>3. cache'[reader[q].of][x] = cache[reader[q].of][x]
        <5>1. CASE reader[q].of = f
          BY <5>1, <2>1, <2>2, <3>4, <1>b
        <5>2. CASE reader[q].of # f
          BY <5>2, <2>1, <4>2, <1>b
        <5> QED BY <5>1, <5>2
      <4> QED BY <4>1, <4>3, <3>2
    <3> QED BY <3>3, <3>4
  <2> QED BY <2>3 DEF HoldsLastTick
<1>6. ASSUME NEW s \in Ids, Callback(s), ~OnTicks(s) PROVE HoldsLastTick'
  BY <1>2, <1>6 DEF Callback, OnConnect, Resubscribe, OnClose
<1>7. ASSUME (\E r \in Readers : FeedFor(r)) \/ Login \/ TimePasses \/ UNCHANGED vars
      PROVE  HoldsLastTick'
  BY <1>2, <1>7 DEF FeedFor, Login, TimePasses, vars
<1> QED BY <1>a, <1>3, <1>4, <1>5, <1>6, <1>7 DEF FreshInv, Next, Read

\* FeedQuoteSource serves no price older than ws_feed_stale_s (live/pricefeed.py),
\* but for a tick that lands between its get() and its stale().
THEOREM FreshPrices == Spec => []ServedFresh
<1>1. FreshInv => ServedFresh
  <2> SUFFICES ASSUME FreshInv, NEW r \in Readers, Serves(r), ~reader[r].overtaken
               PROVE  clock - reader[r].tick <= Stale
    BY DEF ServedFresh
  <2>1. PICK s \in Symbols : reader[r].symbol = {s} /\ reader[r].tick = cache[reader[r].of][s]
    BY DEF FreshInv, HoldsLastTick, Serves
  <2>2. cache[reader[r].of][s] # Never /\ ~(clock - cache[reader[r].of][s] > Stale)
    BY <2>1 DEF Serves, IsStale
  <2>3. clock \in Int /\ reader[r].tick \in Int
    BY DEF FreshInv, TypeOK, Reading
  <2> QED BY <2>1, <2>2, <2>3, FeedAssumption
<1> QED BY <1>1, InitFresh, NextFresh, PTL DEF Spec

-----------------------------------------------------------------------------
(* The order of the feeds and the sockets they own.                        *)

\* What is sent reaches one socket at most, and only adds to it.
LEMMA SentIs ==
  ASSUME TypeOK, NEW f \in Tokens, NEW S \in SUBSET Symbols, NEW s \in Ids
  PROVE  /\ Subscribed(f, S)[s].state = sockets[s].state
         /\ Subscribed(f, S)[s].of = sockets[s].of
         /\ Subscribed(f, S)[s].calling = sockets[s].calling
         /\ Subscribed(f, S)[s].tokens = sockets[s].tokens
         /\ sockets[s].subs \subseteq Subscribed(f, S)[s].subs
         /\ s = ticker[f] /\ Up(s) => S \subseteq Subscribed(f, S)[s].subs
<1>1. sockets[s] \in Socket
  BY DEF TypeOK
<1>2. CASE s = ticker[f] /\ Up(s)
  <2>1. Subscribed(f, S)[s] = [sockets[s] EXCEPT !.subs = @ \cup S]
    BY <1>2 DEF Subscribed
  <2> QED BY <1>1, <2>1 DEF Socket
<1>3. CASE ~(s = ticker[f] /\ Up(s))
  <2>1. Subscribed(f, S)[s] = sockets[s]
    BY <1>3 DEF Subscribed
  <2> QED BY <1>3, <2>1
<1> QED BY <1>2, <1>3

\* A socket is closed with the feed that owns it.
LEMMA ClosedIs ==
  ASSUME TypeOK, NEW f \in Tokens, NEW s \in Ids
  PROVE  /\ Closed(f)[s].of = sockets[s].of
         /\ s = ticker[f] => Closed(f)[s].state = "closed"
         /\ s # ticker[f] => Closed(f)[s] = sockets[s]
BY DEF TypeOK, Closed, Socket

\* The steps of the sockets, and what is sent to them, keep what they are of.
LEMMA SocketsKeep ==
  ASSUME TypeOK, NEW s \in Ids,
         \/ \E r \in Readers : Subscribe(r) \/ FeedFor(r)
         \/ \E x \in Ids : Callback(x)
  PROVE  sockets'[s].of = sockets[s].of /\ (sockets[s].state # "none" => sockets'[s].state # "none")
<1>a. sockets \in [Ids -> Socket] /\ reader \in [Readers -> Reading] /\ current \in Tokens
  BY DEF TypeOK
<1>1. ASSUME NEW r \in Readers, Subscribe(r)
      PROVE  sockets'[s].of = sockets[s].of /\ sockets'[s].state = sockets[s].state
  <2>1. reader[r].of \in Tokens /\ reader[r].symbol \in SUBSET Symbols
    BY <1>a DEF Reading
  <2> QED BY <1>1, <2>1, SentIs DEF Subscribe
<1>2. ASSUME NEW r \in Readers, FeedFor(r)
      PROVE  sockets'[s].of = sockets[s].of /\ (sockets[s].state # "none" => sockets'[s].state # "none")
  BY <1>2, <1>a, ClosedIs DEF FeedFor
<1>3. ASSUME NEW x \in Ids, OnConnect(x) \/ OnClose(x) \/ OnTicks(x)
      PROVE  sockets'[s].of = sockets[s].of /\ (sockets[s].state # "none" => sockets'[s].state # "none")
  BY <1>3, <1>a DEF OnConnect, OnClose, OnTicks, Socket
<1>4. ASSUME NEW x \in Ids, Resubscribe(x)
      PROVE  sockets'[s].of = sockets[s].of /\ sockets'[s].state = sockets[s].state
  <2>1. sockets[x].of \in Tokens /\ sockets[x].tokens \in SUBSET Symbols
    BY <1>a DEF Socket
  <2> DEFINE sent == Subscribed(sockets[x].of, sockets[x].tokens)
  <2>2. sent \in [Ids -> Socket]
    BY <2>1, SentType
  <2>3. sent[s].of = sockets[s].of /\ sent[s].state = sockets[s].state
    BY <2>1, SentIs
  <2>4. sockets' = [sent EXCEPT ![x].calling = FALSE, ![x].tokens = {}]
    BY <1>4 DEF Resubscribe
  <2> HIDE DEF sent
  <2> QED BY <2>2, <2>3, <2>4 DEF Socket
<1> QED BY <1>1, <1>2, <1>3, <1>4 DEF Callback

LEMMA InitShape == Init => ShapeInv
<1> SUFFICES ASSUME Init PROVE ShapeInv
  OBVIOUS
<1>1. InOrder
  BY DEF Init, InOrder, Idle, Tokens, NoTicker
<1>2. OwnSockets
  BY DEF Init, OwnSockets, Idle
<1> QED BY <1>1, <1>2, InitTypes DEF ShapeInv

LEMMA NextInOrder == ShapeInv /\ [Next]_vars => InOrder'
<1> SUFFICES ASSUME ShapeInv, [Next]_vars PROVE InOrder'
  OBVIOUS
<1>a. TypeOK /\ InOrder
  BY DEF ShapeInv
<1>b. /\ reader \in [Readers -> Reading] /\ source \in [Readers -> Tokens]
      /\ ticker \in [Tokens -> Ids \cup {NoTicker}] /\ known \in [Tokens -> SUBSET Symbols]
      /\ token \in Int /\ current \in Int /\ Tokens \subseteq Int /\ current >= 1
      /\ \A r \in Readers : reader[r].of \in Tokens /\ source[r] \in Tokens
  BY <1>a, FeedAssumption DEF TypeOK, Tokens, Reading
<1>1. ASSUME NEW r \in Readers, GetQuotes(r) PROVE InOrder'
  <2>1. \A q \in Readers : reader'[q].of \in {reader[q].of, source[q]}
    BY <1>1, <1>b DEF GetQuotes, Reading
  <2> QED BY <1>1, <1>a, <2>1 DEF GetQuotes, InOrder
<1>2. ASSUME NEW r \in Readers,
             BuildTicker(r) \/ TickerIsThere(r) \/ TickerFails(r) \/ Subscribe(r) \/ Get(r)
      PROVE  InOrder'
  <2>1. \A q \in Readers : reader'[q].of = reader[q].of
    <3>1. CASE BuildTicker(r)
      BY <3>1, <1>b DEF BuildTicker, Reading
    <3>2. CASE TickerIsThere(r) \/ TickerFails(r)
      BY <3>2, <1>b DEF TickerIsThere, TickerFails, GoTo, Reading
    <3>3. CASE Subscribe(r)
      BY <3>3, <1>b DEF Subscribe, Reading
    <3>4. CASE Get(r)
      BY <3>4, <1>b DEF Get, Reading
    <3> QED BY <1>2, <3>1, <3>2, <3>3, <3>4
  <2> QED BY <1>2, <1>a, <2>1 DEF BuildTicker, TickerIsThere, TickerFails, Subscribe, Get, InOrder
<1>3. ASSUME NEW r \in Readers, AssignTicker(r) PROVE InOrder'
  <2>1. \A q \in Readers : reader'[q].of = reader[q].of
    BY <1>3, <1>b DEF AssignTicker, Reading
  <2>2. \A f \in Tokens : f # reader[r].of => ticker'[f] = ticker[f]
    BY <1>3, <1>b DEF AssignTicker
  <2> QED BY <1>3, <1>a, <1>b, <2>1, <2>2 DEF AssignTicker, InOrder
<1>4. ASSUME NEW r \in Readers, Resolve(r) PROVE InOrder'
  <2>1. \A q \in Readers : reader'[q].of = reader[q].of
    BY <1>4, <1>b DEF Resolve, Reading
  <2>2. \A f \in Tokens : f # reader[r].of => known'[f] = known[f]
    BY <1>4, <1>b DEF Resolve
  <2> QED BY <1>4, <1>a, <1>b, <2>1, <2>2 DEF Resolve, InOrder
<1>5. ASSUME NEW r \in Readers, Check(r) PROVE InOrder'
  <2>1. \A q \in Readers : reader'[q].of \in {reader[q].of, 1}
    BY <1>5, <1>b DEF Check, Idle
  <2> QED BY <1>5, <1>a, <1>b, <2>1 DEF Check, InOrder
<1>6. ASSUME NEW s \in Ids, OnConnect(s) \/ Resubscribe(s) \/ OnClose(s) PROVE InOrder'
  BY <1>6, <1>a DEF OnConnect, Resubscribe, OnClose, InOrder
<1>7. ASSUME NEW s \in Ids, OnTicks(s) PROVE InOrder'
  <2>1. \A q \in Readers : reader'[q].of = reader[q].of
    BY <1>7, <1>b DEF OnTicks, Reading
  <2> QED BY <1>7, <1>a, <2>1 DEF OnTicks, InOrder
<1>8. ASSUME NEW r \in Readers, FeedFor(r) PROVE InOrder'
  <2>1. current' = token /\ \A q \in Readers : source'[q] \in {source[q], token}
    BY <1>8, <1>b DEF FeedFor
  <2>2. \A f \in Tokens : ticker'[f] \in {ticker[f], NoTicker}
    BY <1>8, <1>b DEF FeedFor, Stopped
  <2>3. \A f \in Tokens : f > token => f > current
    BY <1>a, <1>b DEF InOrder
  <2>4. token' = token /\ known' = known /\ reader' = reader
    BY <1>8 DEF FeedFor
  <2>5. \A q \in Readers : source'[q] <= current' /\ reader'[q].of <= current'
    <3>1. \A q \in Readers : source[q] <= token /\ reader[q].of <= token
      BY <1>a, <1>b DEF InOrder, Tokens
    <3>2. token <= token
      BY <1>b
    <3> QED BY <2>1, <2>4, <3>1, <3>2
  <2>6. \A f \in Tokens : f > current' => ticker'[f] = NoTicker /\ known'[f] = {}
    <3>1. \A f \in Tokens : f > token => ticker[f] = NoTicker /\ known[f] = {}
      BY <1>a, <2>3 DEF InOrder
    <3> QED BY <2>1, <2>2, <2>4, <3>1
  <2> QED BY <1>b, <2>1, <2>4, <2>5, <2>6 DEF InOrder
<1>9. ASSUME Login PROVE InOrder'
  BY <1>9, <1>a, <1>b DEF Login, InOrder
<1>10. ASSUME TimePasses \/ UNCHANGED vars PROVE InOrder'
  BY <1>10, <1>a DEF TimePasses, vars, InOrder
<1> QED BY <1>1, <1>2, <1>3, <1>4, <1>5, <1>6, <1>7, <1>8, <1>9, <1>10 DEF Next, Read, Callback

LEMMA NextOwnSockets == ShapeInv /\ [Next]_vars => OwnSockets'
<1> SUFFICES ASSUME ShapeInv, [Next]_vars PROVE OwnSockets'
  OBVIOUS
<1>a. TypeOK /\ OwnSockets
  BY DEF ShapeInv
<1>b. /\ reader \in [Readers -> Reading] /\ sockets \in [Ids -> Socket]
      /\ ticker \in [Tokens -> Ids \cup {NoTicker}]
      /\ \A r \in Readers : reader[r].of \in Tokens
  BY <1>a DEF TypeOK, Reading
<1>c. NoTicker \notin Ids
  BY FeedAssumption DEF Ids, NoTicker
<1>1. ASSUME \A f \in Tokens : ticker'[f] \in {ticker[f], NoTicker},
             \A s \in Ids : /\ sockets'[s].of = sockets[s].of
                            /\ sockets[s].state # "none" => sockets'[s].state # "none",
             \A r \in Readers : reader'[r].pc = "assign" =>
               /\ reader[r].pc = "assign" /\ reader'[r].socket = reader[r].socket
               /\ reader'[r].of = reader[r].of
      PROVE  OwnSockets'
  <2>1. ASSUME NEW f \in Tokens, ticker'[f] # NoTicker
        PROVE  sockets'[ticker'[f]].state # "none" /\ sockets'[ticker'[f]].of = f
    <3>1. ticker'[f] = ticker[f] /\ ticker[f] \in Ids
      BY <1>1, <1>b, <2>1
    <3> QED BY <1>1, <1>a, <2>1, <3>1 DEF OwnSockets
  <2>2. ASSUME NEW r \in Readers, reader'[r].pc = "assign"
        PROVE  /\ reader'[r].socket \in Ids
               /\ sockets'[reader'[r].socket].state # "none"
               /\ sockets'[reader'[r].socket].of = reader'[r].of
    BY <1>1, <1>a, <2>2 DEF OwnSockets
  <2> QED BY <2>1, <2>2 DEF OwnSockets
<1>2. ASSUME NEW r \in Readers, Read(r), ~BuildTicker(r), ~AssignTicker(r) PROVE OwnSockets'
  <2>1. ticker' = ticker
    BY <1>2 DEF Read, GetQuotes, TickerIsThere, TickerFails, Resolve, Subscribe, Get, Check
  <2>2. \A s \in Ids : /\ sockets'[s].of = sockets[s].of
                       /\ sockets[s].state # "none" => sockets'[s].state # "none"
    <3>1. CASE Subscribe(r)
      BY <3>1, <1>a, SocketsKeep
    <3>2. CASE ~Subscribe(r)
      BY <1>2, <3>2 DEF Read, GetQuotes, TickerIsThere, TickerFails, Resolve, Get, Check
    <3> QED BY <3>1, <3>2
  <2>3. reader'[r].pc # "assign" /\ \A q \in Readers : q # r => reader'[q] = reader[q]
    <3>1. CASE GetQuotes(r)
      BY <3>1, <1>b DEF GetQuotes, Reading
    <3>2. CASE TickerIsThere(r) \/ TickerFails(r)
      BY <3>2, <1>b DEF TickerIsThere, TickerFails, GoTo, Reading
    <3>3. CASE Resolve(r)
      BY <3>3, <1>b DEF Resolve, Reading
    <3>4. CASE Subscribe(r) \/ Check(r)
      BY <3>4, <1>b DEF Subscribe, Check, Idle, Reading
    <3>5. CASE Get(r)
      BY <3>5, <1>b DEF Get, Reading
    <3> QED BY <1>2, <3>1, <3>2, <3>3, <3>4, <3>5 DEF Read
  <2> QED BY <1>1, <2>1, <2>2, <2>3
<1>3. ASSUME NEW r \in Readers, BuildTicker(r) PROVE OwnSockets'
  <2> DEFINE free == {s \in Ids : sockets[s].state = "none"}
             s == CHOOSE x \in free : TRUE
  <2>1. s \in Ids /\ sockets[s].state = "none"
    BY <1>3, ChosenSocket DEF BuildTicker
  <2> HIDE DEF s
  <2>2. /\ sockets' = [sockets EXCEPT ![s] = [NoSocket EXCEPT !.state = "opening", !.of = reader[r].of]]
        /\ reader' = [reader EXCEPT ![r].pc = "assign", ![r].socket = s]
        /\ ticker' = ticker
    BY <1>3 DEF BuildTicker, s
  <2>3. sockets'[s].state # "none" /\ sockets'[s].of = reader[r].of
    BY <2>1, <2>2, <1>b DEF NoSocket
  <2>4. \A x \in Ids : x # s => sockets'[x] = sockets[x]
    BY <2>1, <2>2, <1>b
  <2>5. ASSUME NEW f \in Tokens, ticker'[f] # NoTicker
        PROVE  sockets'[ticker'[f]].state # "none" /\ sockets'[ticker'[f]].of = f
    <3>1. ticker'[f] = ticker[f] /\ ticker[f] \in Ids /\ ticker[f] # s
      BY <1>a, <1>b, <2>1, <2>2, <2>5 DEF OwnSockets
    <3> QED BY <1>a, <2>4, <2>5, <3>1 DEF OwnSockets
  <2>6. ASSUME NEW q \in Readers, reader'[q].pc = "assign"
        PROVE  /\ reader'[q].socket \in Ids
               /\ sockets'[reader'[q].socket].state # "none"
               /\ sockets'[reader'[q].socket].of = reader'[q].of
    <3>1. CASE q = r
      <4>1. reader'[q].socket = s /\ reader'[q].of = reader[r].of
        BY <3>1, <2>2, <1>b DEF Reading
      <4> QED BY <4>1, <2>1, <2>3
    <3>2. CASE q # r
      <4>1. reader'[q] = reader[q]
        BY <3>2, <2>2, <1>b
      <4>2. reader[q].socket \in Ids /\ reader[q].socket # s
        BY <4>1, <1>a, <2>1, <2>6 DEF OwnSockets
      <4> QED BY <4>1, <4>2, <1>a, <2>4, <2>6 DEF OwnSockets
    <3> QED BY <3>1, <3>2
  <2> QED BY <2>5, <2>6 DEF OwnSockets
<1>4. ASSUME NEW r \in Readers, AssignTicker(r) PROVE OwnSockets'
  <2>1. /\ reader[r].pc = "assign" /\ sockets' = sockets
        /\ ticker' = [ticker EXCEPT ![reader[r].of] = reader[r].socket]
        /\ reader' = [reader EXCEPT ![r].pc = "resolve", ![r].socket = NoTicker]
    BY <1>4 DEF AssignTicker
  <2>2. reader'[r].pc = "resolve" /\ \A q \in Readers : q # r => reader'[q] = reader[q]
    BY <2>1, <1>b DEF Reading
  <2>3. ASSUME NEW f \in Tokens, ticker'[f] # NoTicker
        PROVE  sockets[ticker'[f]].state # "none" /\ sockets[ticker'[f]].of = f
    <3>1. CASE f = reader[r].of
      BY <3>1, <1>a, <1>b, <2>1 DEF OwnSockets
    <3>2. CASE f # reader[r].of
      BY <3>2, <1>a, <1>b, <2>1, <2>3 DEF OwnSockets
    <3> QED BY <3>1, <3>2
  <2>4. \A q \in Readers : reader'[q].pc = "assign" => reader'[q] = reader[q]
    BY <2>2
  <2>5. \A q \in Readers : reader'[q].pc = "assign" =>
          /\ reader'[q].socket \in Ids
          /\ sockets[reader'[q].socket].state # "none"
          /\ sockets[reader'[q].socket].of = reader'[q].of
    BY <1>a, <2>4 DEF OwnSockets
  <2> QED BY <2>1, <2>3, <2>5 DEF OwnSockets
<1>5. ASSUME NEW s \in Ids, Callback(s) PROVE OwnSockets'
  <2>1. ticker' = ticker
    BY <1>5 DEF Callback, OnConnect, Resubscribe, OnClose, OnTicks
  <2>2. \A r \in Readers : /\ reader'[r].pc = reader[r].pc /\ reader'[r].socket = reader[r].socket
                           /\ reader'[r].of = reader[r].of
    <3>1. CASE OnTicks(s)
      BY <3>1, <1>b DEF OnTicks, Reading
    <3>2. CASE ~OnTicks(s)
      BY <3>2, <1>5 DEF Callback, OnConnect, Resubscribe, OnClose
    <3> QED BY <3>1, <3>2
  <2>3. \A x \in Ids : /\ sockets'[x].of = sockets[x].of
                       /\ sockets[x].state # "none" => sockets'[x].state # "none"
    BY <1>5, <1>a, SocketsKeep
  <2> QED BY <1>1, <2>1, <2>2, <2>3
<1>6. ASSUME NEW r \in Readers, FeedFor(r) PROVE OwnSockets'
  <2>1. \A f \in Tokens : ticker'[f] \in {ticker[f], NoTicker}
    BY <1>6, <1>b DEF FeedFor, Stopped
  <2>2. \A x \in Ids : /\ sockets'[x].of = sockets[x].of
                       /\ sockets[x].state # "none" => sockets'[x].state # "none"
    BY <1>6, <1>a, SocketsKeep
  <2>3. reader' = reader
    BY <1>6 DEF FeedFor
  <2> QED BY <1>1, <2>1, <2>2, <2>3
<1>7. ASSUME Login \/ TimePasses \/ UNCHANGED vars PROVE OwnSockets'
  BY <1>7, <1>1 DEF Login, TimePasses, vars
<1> QED BY <1>2, <1>3, <1>4, <1>5, <1>6, <1>7 DEF Next, Read

LEMMA NextShape == ShapeInv /\ [Next]_vars => ShapeInv'
BY NextTypes, NextInOrder, NextOwnSockets DEF ShapeInv

-----------------------------------------------------------------------------
(* One socket per account.                                                 *)

\* A race is never forgotten.
LEMMA RacesStay == [Next]_vars /\ Without(Races)' => Without(Races)
<1> SUFFICES ASSUME [Next]_vars PROVE disturbed \subseteq disturbed'
  BY DEF Without
<1>1. ASSUME NEW r \in Readers, Read(r) \/ FeedFor(r) PROVE disturbed \subseteq disturbed'
  BY <1>1 DEF Read, FeedFor, GetQuotes, BuildTicker, AssignTicker, TickerIsThere, TickerFails,
        Resolve, Subscribe, Get, Check
<1>2. ASSUME NEW s \in Ids, Callback(s) PROVE disturbed \subseteq disturbed'
  BY <1>2 DEF Callback, OnConnect, Resubscribe, OnClose, OnTicks
<1>3. ASSUME Login \/ TimePasses \/ UNCHANGED vars PROVE disturbed \subseteq disturbed'
  BY <1>3 DEF Login, TimePasses, vars
<1> QED BY <1>1, <1>2, <1>3 DEF Next

Alive(s) == sockets[s].state \in {"opening", "up", "down"}
\* The sockets that are open belong to the current feed or to its builder.
Accounted ==
  \A s \in Ids : Alive(s) =>
    ticker[current] = s \/ \E r \in Readers : reader[r].pc = "assign" /\ reader[r].socket = s
\* At most one thread builds, for the current feed, and only that has a ticker.
Alone ==
  /\ \A r \in Readers : reader[r].pc = "assign" =>
       reader[r].of = current /\ ticker[current] = NoTicker
  /\ \A r, q \in Readers : reader[r].pc = "assign" /\ reader[q].pc = "assign" => r = q
  /\ \A f \in Tokens : f # current => ticker[f] = NoTicker
SocketInv == ShapeInv /\ (Without(Races) => Alone /\ Accounted)

LEMMA InitSockets == Init => SocketInv
<1> SUFFICES ASSUME Init PROVE Alone /\ Accounted
  BY InitShape DEF SocketInv
<1>1. Alone
  BY DEF Init, Idle, Alone
<1>2. Accounted
  BY DEF Init, NoSocket, Accounted, Alive
<1> QED BY <1>1, <1>2

\* The steps of the readers that build nothing.
LEMMA ReadingIs ==
  ASSUME TypeOK, NEW r \in Readers, Read(r), ~BuildTicker(r), ~AssignTicker(r)
  PROVE  /\ ticker' = ticker /\ current' = current /\ disturbed' = disturbed
         /\ reader[r].pc # "assign" /\ reader'[r].pc # "assign"
         /\ \A q \in Readers : q # r => reader'[q] = reader[q]
         /\ \A s \in Ids : sockets'[s].state = sockets[s].state
<1>a. reader \in [Readers -> Reading]
  BY DEF TypeOK
<1>1. ticker' = ticker /\ current' = current /\ disturbed' = disturbed /\ reader[r].pc # "assign"
  BY DEF Read, GetQuotes, TickerIsThere, TickerFails, Resolve, Subscribe, Get, Check
<1>2. reader'[r].pc # "assign" /\ \A q \in Readers : q # r => reader'[q] = reader[q]
  <2>1. CASE GetQuotes(r)
    BY <2>1, <1>a DEF GetQuotes, Reading
  <2>2. CASE TickerIsThere(r) \/ TickerFails(r)
    BY <2>2, <1>a DEF TickerIsThere, TickerFails, GoTo, Reading
  <2>3. CASE Resolve(r)
    BY <2>3, <1>a DEF Resolve, Reading
  <2>4. CASE Subscribe(r) \/ Check(r)
    BY <2>4, <1>a DEF Subscribe, Check, Idle, Reading
  <2>5. CASE Get(r)
    BY <2>5, <1>a DEF Get, Reading
  <2> QED BY <2>1, <2>2, <2>3, <2>4, <2>5 DEF Read
<1>3. \A s \in Ids : sockets'[s].state = sockets[s].state
  <2>1. CASE Subscribe(r)
    <3>1. reader[r].of \in Tokens /\ reader[r].symbol \in SUBSET Symbols
      BY <1>a DEF Reading
    <3> QED BY <2>1, <3>1, SentIs DEF Subscribe
  <2>2. CASE ~Subscribe(r)
    BY <2>2 DEF Read, GetQuotes, TickerIsThere, TickerFails, Resolve, Get, Check
  <2> QED BY <2>1, <2>2
<1> QED BY <1>1, <1>2, <1>3

\* The sockets' own steps open none.
LEMMA CallbackIs ==
  ASSUME TypeOK, NEW s \in Ids, Callback(s)
  PROVE  /\ ticker' = ticker /\ current' = current /\ disturbed' = disturbed
         /\ \A r \in Readers : /\ reader'[r].pc = reader[r].pc /\ reader'[r].of = reader[r].of
                               /\ reader'[r].socket = reader[r].socket
                               /\ reader'[r].symbol = reader[r].symbol
         /\ \A x \in Ids : Alive(x)' => Alive(x)
<1>a. reader \in [Readers -> Reading] /\ sockets \in [Ids -> Socket]
  BY DEF TypeOK
<1>1. ticker' = ticker /\ current' = current /\ disturbed' = disturbed
  BY DEF Callback, OnConnect, Resubscribe, OnClose, OnTicks
<1>2. \A r \in Readers : /\ reader'[r].pc = reader[r].pc /\ reader'[r].of = reader[r].of
                         /\ reader'[r].socket = reader[r].socket
                         /\ reader'[r].symbol = reader[r].symbol
  <2>1. CASE OnTicks(s)
    BY <2>1, <1>a DEF OnTicks, Reading
  <2>2. CASE ~OnTicks(s)
    BY <2>2 DEF Callback, OnConnect, Resubscribe, OnClose
  <2> QED BY <2>1, <2>2
<1>3. \A x \in Ids : Alive(x)' => Alive(x)
  <2>1. CASE OnConnect(s) \/ OnClose(s)
    BY <2>1, <1>a DEF OnConnect, OnClose, Up, Alive, Socket
  <2>2. CASE OnTicks(s)
    BY <2>2 DEF OnTicks, Alive
  <2>3. CASE Resubscribe(s)
    <3>1. sockets[s].of \in Tokens /\ sockets[s].tokens \in SUBSET Symbols
      BY <1>a DEF Socket
    <3> DEFINE sent == Subscribed(sockets[s].of, sockets[s].tokens)
    <3>2. sent \in [Ids -> Socket] /\ \A x \in Ids : sent[x].state = sockets[x].state
      BY <3>1, SentType, SentIs
    <3>3. sockets' = [sent EXCEPT ![s].calling = FALSE, ![s].tokens = {}]
      BY <2>3 DEF Resubscribe
    <3> HIDE DEF sent
    <3>4. \A x \in Ids : sockets'[x].state = sockets[x].state
      BY <3>2, <3>3 DEF Socket
    <3> QED BY <3>4 DEF Alive
  <2> QED BY <2>1, <2>2, <2>3 DEF Callback
<1> QED BY <1>1, <1>2, <1>3

LEMMA NextSockets == SocketInv /\ [Next]_vars => SocketInv'
<1> SUFFICES ASSUME SocketInv, [Next]_vars, Without(Races)' PROVE Alone' /\ Accounted'
  <2>1. SocketInv /\ [Next]_vars => ShapeInv'
    BY NextShape DEF SocketInv
  <2>2. ShapeInv' /\ (Without(Races)' => Alone' /\ Accounted') => SocketInv'
    BY DEF SocketInv
  <2> QED BY <2>1, <2>2
<1>a. ShapeInv /\ TypeOK /\ Alone /\ Accounted /\ Without(Races) /\ OwnSockets /\ InOrder
  BY RacesStay DEF SocketInv, ShapeInv
<1>b. /\ reader \in [Readers -> Reading] /\ sockets \in [Ids -> Socket]
      /\ ticker \in [Tokens -> Ids \cup {NoTicker}] /\ current \in Tokens
      /\ \A r \in Readers : reader[r].of \in Tokens
  BY <1>a DEF TypeOK, Reading
<1>c. NoTicker \notin Ids /\ Tokens \subseteq Int
  BY FeedAssumption DEF Ids, NoTicker, Tokens
<1>1. ASSUME NEW r \in Readers, BuildTicker(r) PROVE Alone' /\ Accounted'
  <2> DEFINE free == {s \in Ids : sockets[s].state = "none"}
             s == CHOOSE x \in free : TRUE
  <2>1. s \in Ids /\ sockets[s].state = "none"
    BY <1>1, ChosenSocket DEF BuildTicker
  <2> HIDE DEF s
  <2>2. /\ sockets' = [sockets EXCEPT ![s] = [NoSocket EXCEPT !.state = "opening", !.of = reader[r].of]]
        /\ reader' = [reader EXCEPT ![r].pc = "assign", ![r].socket = s]
        /\ ticker' = ticker /\ current' = current
        /\ reader[r].pc = "ticker" /\ ticker[reader[r].of] = NoTicker
    BY <1>1 DEF BuildTicker, s
  <2>3. reader[r].of = current /\ ~Building(current)
    BY <1>1 DEF BuildTicker, Without, Races
  <2>4. \A q \in Readers : reader[q].pc # "assign"
    BY <1>a, <2>3 DEF Alone, Building
  <2>5. /\ reader'[r].pc = "assign" /\ reader'[r].of = current /\ reader'[r].socket = s
        /\ \A q \in Readers : q # r => reader'[q] = reader[q]
    BY <1>b, <2>2, <2>3 DEF Reading
  <2>6. Alone'
    BY <1>a, <2>2, <2>3, <2>4, <2>5 DEF Alone
  <2>7. \A x \in Ids : x # s => ~Alive(x)'
    <3>1. \A x \in Ids : x # s => sockets'[x] = sockets[x]
      BY <1>b, <2>1, <2>2
    <3>2. \A x \in Ids : ~Alive(x)
      BY <1>a, <1>c, <2>2, <2>3, <2>4 DEF Accounted
    <3> QED BY <3>1, <3>2 DEF Alive
  <2>8. Accounted'
    BY <2>5, <2>7 DEF Accounted
  <2> QED BY <2>6, <2>8
<1>2. ASSUME NEW r \in Readers, AssignTicker(r) PROVE Alone' /\ Accounted'
  <2>1. /\ reader[r].pc = "assign" /\ sockets' = sockets /\ current' = current
        /\ ticker' = [ticker EXCEPT ![reader[r].of] = reader[r].socket]
        /\ reader' = [reader EXCEPT ![r].pc = "resolve", ![r].socket = NoTicker]
    BY <1>2 DEF AssignTicker
  <2>2. reader[r].of = current /\ ticker[current] = NoTicker
    BY <1>a, <2>1 DEF Alone
  <2>3. reader'[r].pc = "resolve" /\ \A q \in Readers : q # r => reader'[q] = reader[q]
    BY <2>1, <1>b DEF Reading
  <2>4. \A q \in Readers : reader'[q].pc # "assign"
    BY <1>a, <2>1, <2>3 DEF Alone
  <2>5. /\ ticker'[current] = reader[r].socket
        /\ \A f \in Tokens : f # current => ticker'[f] = ticker[f]
    BY <1>b, <2>1, <2>2
  <2>6. Alone'
    BY <1>a, <2>1, <2>4, <2>5 DEF Alone
  <2>7. \A x \in Ids : Alive(x) => x = reader[r].socket
    BY <1>a, <1>c, <2>1, <2>2 DEF Accounted, Alone
  <2>8. Accounted'
    BY <2>1, <2>5, <2>7 DEF Accounted, Alive
  <2> QED BY <2>6, <2>8
<1>3. ASSUME NEW r \in Readers, Read(r), ~BuildTicker(r), ~AssignTicker(r)
      PROVE  Alone' /\ Accounted'
  <2>1. /\ ticker' = ticker /\ current' = current
        /\ reader[r].pc # "assign" /\ reader'[r].pc # "assign"
        /\ \A q \in Readers : q # r => reader'[q] = reader[q]
        /\ \A s \in Ids : sockets'[s].state = sockets[s].state
    BY <1>3, <1>a, ReadingIs
  <2>2. \A q \in Readers : reader'[q].pc = "assign" <=> reader[q].pc = "assign"
    BY <2>1
  <2>3. \A q \in Readers : reader[q].pc = "assign" => reader'[q] = reader[q]
    BY <2>1
  <2>4. Alone'
    BY <1>a, <2>1, <2>2, <2>3 DEF Alone
  <2>5. Accounted'
    <3> SUFFICES ASSUME NEW x \in Ids, Alive(x)'
                 PROVE  ticker'[current'] = x
                        \/ \E q \in Readers : reader'[q].pc = "assign" /\ reader'[q].socket = x
      BY DEF Accounted
    <3>1. Alive(x)
      BY <2>1 DEF Alive
    <3> QED BY <1>a, <2>1, <2>2, <2>3, <3>1 DEF Accounted
  <2> QED BY <2>4, <2>5
<1>4. ASSUME NEW s \in Ids, Callback(s) PROVE Alone' /\ Accounted'
  <2>1. /\ ticker' = ticker /\ current' = current
        /\ \A r \in Readers : /\ reader'[r].pc = reader[r].pc /\ reader'[r].of = reader[r].of
                              /\ reader'[r].socket = reader[r].socket
        /\ \A x \in Ids : Alive(x)' => Alive(x)
    BY <1>4, <1>a, CallbackIs
  <2>2. Alone'
    BY <1>a, <2>1 DEF Alone
  <2>3. Accounted'
    <3> SUFFICES ASSUME NEW x \in Ids, Alive(x)'
                 PROVE  ticker'[current'] = x
                        \/ \E q \in Readers : reader'[q].pc = "assign" /\ reader'[q].socket = x
      BY DEF Accounted
    <3> QED BY <1>a, <2>1 DEF Accounted
  <2> QED BY <2>2, <2>3
<1>5. ASSUME NEW r \in Readers, FeedFor(r) PROVE Alone' /\ Accounted'
  <2>1. current' = token /\ reader' = reader
    BY <1>5 DEF FeedFor
  <2>2. CASE current = token
    <3>1. UNCHANGED <<ticker, sockets, current, reader>>
      BY <1>5, <2>2 DEF FeedFor
    <3> QED BY <1>a, <3>1 DEF Alone, Accounted, Alive
  <2>3. CASE current # token
    <3>1. ticker' = Stopped(current) /\ sockets' = Closed(current) /\ ~Building(current)
      BY <1>5, <2>3 DEF FeedFor, Without, Races
    <3>2. \A q \in Readers : reader[q].pc # "assign"
      BY <1>a, <3>1 DEF Alone, Building
    <3>3. \A f \in Tokens : ticker'[f] = NoTicker
      BY <1>a, <1>b, <3>1 DEF Stopped, Alone
    <3>4. \A x \in Ids : ~Alive(x)'
      <4> SUFFICES ASSUME NEW x \in Ids PROVE ~Alive(x)'
        OBVIOUS
      <4>1. CASE x = ticker[current]
        BY <4>1, <1>a, <1>b, <3>1, ClosedIs DEF Alive
      <4>2. CASE x # ticker[current]
        <5>1. ~Alive(x)
          BY <1>a, <3>2, <4>2 DEF Accounted
        <5>2. sockets'[x] = sockets[x]
          BY <1>a, <1>b, <3>1, <4>2, ClosedIs
        <5> QED BY <5>1, <5>2 DEF Alive
      <4> QED BY <4>1, <4>2
    <3> QED BY <2>1, <3>2, <3>3, <3>4 DEF Alone, Accounted
  <2> QED BY <2>2, <2>3
<1>6. ASSUME Login \/ TimePasses \/ UNCHANGED vars PROVE Alone' /\ Accounted'
  <2>1. UNCHANGED <<ticker, sockets, current, reader>>
    BY <1>6 DEF Login, TimePasses, vars
  <2> QED BY <1>a, <2>1 DEF Alone, Accounted, Alive
<1> QED BY <1>1, <1>2, <1>3, <1>4, <1>5, <1>6 DEF Next

\* The account has one connection (live/pricefeed.py): unless two threads build
\* a ticker at once, or a feed is revived after its stop, no socket is open
\* that the current feed or its builder does not hold.
THEOREM OneConnection == Spec => []NoStraySocket
<1>1. SocketInv => NoStraySocket
  BY DEF SocketInv, Accounted, Alive, NoStraySocket, Races
<1> QED BY <1>1, InitSockets, NextSockets, PTL DEF Spec

-----------------------------------------------------------------------------
(* What is known is subscribed.                                            *)

\* The callback of the ticker of f, or a reader of f, has yet to send x.
Sending(f, x) ==
  \/ sockets[ticker[f]].calling /\ x \in sockets[ticker[f]].tokens
  \/ \E r \in Readers :
       reader[r].pc = "subscribe" /\ reader[r].of = f /\ x \in reader[r].symbol
\* A current feed without a ticker has resolved nothing, and nobody does for it.
NothingYet ==
  ticker[current] = NoTicker =>
    /\ known[current] = {}
    /\ \A r \in Readers : reader[r].pc \in {"resolve", "subscribe"} => reader[r].of # current
AllSent ==
  \A f \in Tokens : ticker[f] # NoTicker /\ Up(ticker[f]) =>
    \A x \in known[f] : x \in sockets[ticker[f]].subs \/ Sending(f, x)
SentInv == SocketInv /\ (Without(Races) => NothingYet /\ AllSent)

LEMMA InitSent == Init => SentInv
<1> SUFFICES ASSUME Init PROVE NothingYet /\ AllSent
  BY InitSockets DEF SentInv
<1>1. NothingYet
  BY FeedAssumption DEF Init, Idle, NothingYet, Tokens
<1>2. AllSent
  BY DEF Init, AllSent
<1> QED BY <1>1, <1>2

\* Every step but the four that touch tickers and subscriptions leaves them.
LEMMA KeepsSent ==
  ASSUME NothingYet, AllSent, UNCHANGED <<ticker, known, sockets, current>>,
         \A r \in Readers : reader'[r].pc = "subscribe" \/ reader[r].pc = "subscribe" =>
           /\ reader'[r].pc = reader[r].pc /\ reader'[r].of = reader[r].of
           /\ reader'[r].symbol = reader[r].symbol,
         \A r \in Readers : reader'[r].pc = "resolve" =>
           \/ ticker[reader'[r].of] # NoTicker
           \/ reader[r].pc = "resolve" /\ reader'[r].of = reader[r].of
  PROVE  NothingYet' /\ AllSent'
<1>1. NothingYet'
  <2> SUFFICES ASSUME ticker[current] = NoTicker
               PROVE  /\ known[current] = {}
                      /\ \A r \in Readers :
                           reader'[r].pc \in {"resolve", "subscribe"} => reader'[r].of # current
    BY DEF NothingYet
  <2>1. ASSUME NEW r \in Readers, reader'[r].pc \in {"resolve", "subscribe"}
        PROVE  reader'[r].of # current
    <3>1. CASE reader'[r].pc = "resolve"
      BY <3>1 DEF NothingYet
    <3>2. CASE reader'[r].pc = "subscribe"
      BY <3>2 DEF NothingYet
    <3> QED BY <2>1, <3>1, <3>2
  <2> QED BY <2>1 DEF NothingYet
<1>2. \A f \in Tokens : \A x : Sending(f, x) => Sending(f, x)'
  BY DEF Sending
<1>3. AllSent'
  BY <1>2 DEF AllSent, Up
<1> QED BY <1>1, <1>3

LEMMA NextSent == SentInv /\ [Next]_vars => SentInv'
<1> SUFFICES ASSUME SentInv, [Next]_vars, Without(Races)' PROVE NothingYet' /\ AllSent'
  BY NextSockets DEF SentInv
<1>a. SocketInv /\ ShapeInv /\ TypeOK /\ Without(Races) /\ NothingYet /\ AllSent
  BY RacesStay DEF SentInv, SocketInv, ShapeInv
<1>b. /\ reader \in [Readers -> Reading] /\ sockets \in [Ids -> Socket]
      /\ ticker \in [Tokens -> Ids \cup {NoTicker}] /\ known \in [Tokens -> SUBSET Symbols]
      /\ current \in Tokens /\ token \in Tokens
      /\ \A r \in Readers : reader[r].of \in Tokens /\ reader[r].symbol \in SUBSET Symbols
      /\ \A s \in Ids : sockets[s].of \in Tokens /\ sockets[s].tokens \in SUBSET Symbols
  BY <1>a DEF TypeOK, Reading, Socket
<1>c. NoTicker \notin Ids /\ Tokens \subseteq Int
  BY FeedAssumption DEF Ids, NoTicker, Tokens
<1>d. OwnSockets /\ InOrder /\ Alone
  BY <1>a DEF SocketInv, ShapeInv
<1>e. Alone'
  <2>1. SocketInv'
    BY <1>a, NextSockets
  <2> QED BY <2>1 DEF SocketInv
<1>1. ASSUME NEW r \in Readers, GetQuotes(r) \/ TickerFails(r) \/ Check(r) \/ Get(r)
      PROVE  NothingYet' /\ AllSent'
  <2>1. /\ reader'[r].pc \notin {"resolve", "subscribe"} /\ reader[r].pc # "subscribe"
        /\ \A q \in Readers : q # r => reader'[q] = reader[q]
    <3>1. CASE GetQuotes(r)
      BY <3>1, <1>b DEF GetQuotes, Reading
    <3>2. CASE TickerFails(r) \/ Check(r)
      BY <3>2, <1>b DEF TickerFails, GoTo, Check, Idle, Reading
    <3>3. CASE Get(r)
      BY <3>3, <1>b DEF Get, Reading
    <3> QED BY <1>1, <3>1, <3>2, <3>3
  <2>2. UNCHANGED <<ticker, known, sockets, current>>
    BY <1>1 DEF GetQuotes, TickerFails, Check, Get
  <2>3. \A q \in Readers : reader'[q].pc = "subscribe" \/ reader[q].pc = "subscribe" =>
          /\ reader'[q].pc = reader[q].pc /\ reader'[q].of = reader[q].of
          /\ reader'[q].symbol = reader[q].symbol
    BY <2>1
  <2>4. \A q \in Readers : reader'[q].pc = "resolve" =>
          reader[q].pc = "resolve" /\ reader'[q].of = reader[q].of
    BY <2>1
  <2> QED BY <1>a, <2>2, <2>3, <2>4, KeepsSent
<1>2. ASSUME NEW r \in Readers, TickerIsThere(r) PROVE NothingYet' /\ AllSent'
  <2>1. /\ reader'[r].pc = "resolve" /\ reader'[r].of = reader[r].of /\ reader[r].pc = "ticker"
        /\ ticker[reader[r].of] # NoTicker
        /\ \A q \in Readers : q # r => reader'[q] = reader[q]
    BY <1>2, <1>b DEF TickerIsThere, GoTo, Reading
  <2>2. UNCHANGED <<ticker, known, sockets, current>>
    BY <1>2 DEF TickerIsThere
  <2>3. \A q \in Readers : reader'[q].pc = "subscribe" \/ reader[q].pc = "subscribe" =>
          /\ reader'[q].pc = reader[q].pc /\ reader'[q].of = reader[q].of
          /\ reader'[q].symbol = reader[q].symbol
    BY <2>1
  <2>4. \A q \in Readers : reader'[q].pc = "resolve" =>
          \/ ticker[reader'[q].of] # NoTicker
          \/ reader[q].pc = "resolve" /\ reader'[q].of = reader[q].of
    BY <2>1
  <2> QED BY <1>a, <2>2, <2>3, <2>4, KeepsSent
<1>3. ASSUME NEW r \in Readers, BuildTicker(r) PROVE NothingYet' /\ AllSent'
  <2> DEFINE free == {s \in Ids : sockets[s].state = "none"}
             s == CHOOSE x \in free : TRUE
  <2>1. s \in Ids /\ sockets[s].state = "none"
    BY <1>3, ChosenSocket DEF BuildTicker
  <2> HIDE DEF s
  <2>2. /\ sockets' = [sockets EXCEPT ![s] = [NoSocket EXCEPT !.state = "opening", !.of = reader[r].of]]
        /\ reader' = [reader EXCEPT ![r].pc = "assign", ![r].socket = s]
        /\ UNCHANGED <<ticker, known, current>> /\ reader[r].pc = "ticker"
    BY <1>3 DEF BuildTicker, s
  <2>3. /\ reader'[r].pc = "assign"
        /\ \A q \in Readers : q # r => reader'[q] = reader[q]
    BY <1>b, <2>2 DEF Reading
  <2>4. \A x \in Ids : x # s => sockets'[x] = sockets[x]
    BY <1>b, <2>1, <2>2
  <2>5. NothingYet'
    BY <1>a, <2>2, <2>3 DEF NothingYet
  <2>6. ASSUME NEW f \in Tokens, ticker[f] # NoTicker
        PROVE  /\ sockets'[ticker[f]] = sockets[ticker[f]]
               /\ \A x : Sending(f, x) => Sending(f, x)'
    <3>1. ticker[f] \in Ids /\ ticker[f] # s
      BY <1>b, <1>d, <2>1, <2>6 DEF OwnSockets
    <3>2. sockets'[ticker[f]] = sockets[ticker[f]]
      BY <2>4, <3>1
    <3> QED BY <2>2, <2>3, <3>2 DEF Sending
  <2>7. AllSent'
    BY <1>a, <2>2, <2>6 DEF AllSent, Up
  <2> QED BY <2>5, <2>7
<1>4. ASSUME NEW r \in Readers, AssignTicker(r) PROVE NothingYet' /\ AllSent'
  <2>1. /\ reader[r].pc = "assign" /\ UNCHANGED <<known, current>>
        /\ ticker' = [ticker EXCEPT ![reader[r].of] = reader[r].socket]
    BY <1>4 DEF AssignTicker
  <2>2. reader[r].of = current /\ ticker[current] = NoTicker
    BY <1>d, <2>1 DEF Alone
  <2>3. ticker'[current] = reader[r].socket /\ reader[r].socket \in Ids
    BY <1>b, <1>d, <2>1, <2>2 DEF OwnSockets
  <2>4. NothingYet'
    BY <1>c, <2>1, <2>3 DEF NothingYet
  <2>5. known'[current] = {} /\ \A f \in Tokens : f # current => ticker'[f] = NoTicker
    BY <1>a, <1>e, <2>1, <2>2 DEF NothingYet, Alone
  <2>6. AllSent'
    BY <2>5 DEF AllSent
  <2> QED BY <2>4, <2>6
<1>5. ASSUME NEW r \in Readers, Resolve(r) PROVE NothingYet' /\ AllSent'
  <2> DEFINE f == reader[r].of
  <2>1. PICK found \in SUBSET (reader[r].left \ known[f]) :
          /\ known' = [known EXCEPT ![f] = @ \cup found]
          /\ reader' = [reader EXCEPT ![r].pc = IF found = {} THEN "get" ELSE "subscribe",
                                      ![r].symbol = found]
    BY <1>5 DEF Resolve
  <2>2. reader[r].pc = "resolve" /\ UNCHANGED <<ticker, sockets, current>> /\ f \in Tokens
    BY <1>5, <1>b DEF Resolve
  <2>3. /\ reader'[r].of = f /\ reader'[r].symbol = found
        /\ reader'[r].pc # "resolve" /\ (found # {} => reader'[r].pc = "subscribe")
        /\ \A q \in Readers : q # r => reader'[q] = reader[q]
    BY <1>b, <2>1 DEF Reading
  <2>4. known'[f] = known[f] \cup found /\ \A g \in Tokens : g # f => known'[g] = known[g]
    BY <1>b, <2>1, <2>2
  <2>5. NothingYet'
    <3> SUFFICES ASSUME ticker[current] = NoTicker
                 PROVE  /\ known'[current] = {}
                        /\ \A q \in Readers :
                             reader'[q].pc \in {"resolve", "subscribe"} => reader'[q].of # current
      BY <2>2 DEF NothingYet
    <3>1. f # current /\ known[current] = {}
      BY <1>a, <2>2 DEF NothingYet
    <3>2. \A q \in Readers : q # r /\ reader[q].pc \in {"resolve", "subscribe"} => reader[q].of # current
      BY <1>a DEF NothingYet
    <3> QED BY <1>b, <2>3, <2>4, <3>1, <3>2
  <2>6. \A g \in Tokens : \A x : Sending(g, x) => Sending(g, x)'
    BY <2>2, <2>3 DEF Sending
  <2>7. \A g \in Tokens, x \in found : g = f => Sending(g, x)'
    BY <2>3 DEF Sending
  <2>8. ASSUME NEW g \in Tokens, ticker[g] # NoTicker, Up(ticker[g]), NEW x \in known'[g]
        PROVE  x \in sockets[ticker[g]].subs \/ Sending(g, x)'
    <3>1. CASE x \in known[g]
      BY <3>1, <1>a, <2>6, <2>8 DEF AllSent
    <3>2. CASE x \notin known[g]
      <4>1. g = f /\ x \in found
        BY <3>2, <2>4, <2>8
      <4> QED BY <4>1, <2>7
    <3> QED BY <3>1, <3>2
  <2>9. AllSent'
    BY <2>2, <2>8 DEF AllSent, Up
  <2> QED BY <2>5, <2>9
<1>6. ASSUME NEW r \in Readers, Subscribe(r) PROVE NothingYet' /\ AllSent'
  <2> DEFINE g == reader[r].of
             S == reader[r].symbol
  <2>1. /\ reader[r].pc = "subscribe" /\ UNCHANGED <<ticker, known, current>>
        /\ sockets' = Subscribed(g, S)
        /\ reader' = [reader EXCEPT ![r].pc = "get", ![r].symbol = {}]
    BY <1>6 DEF Subscribe
  <2>2. reader'[r].pc = "get" /\ \A q \in Readers : q # r => reader'[q] = reader[q]
    BY <1>b, <2>1 DEF Reading
  <2>3. NothingYet'
    BY <1>a, <2>1, <2>2 DEF NothingYet
  <2>4. ASSUME NEW f \in Tokens, ticker[f] # NoTicker, Up(ticker[f])', NEW x \in known[f]
        PROVE  x \in sockets'[ticker[f]].subs \/ Sending(f, x)'
    <3>1. ticker[f] \in Ids /\ g \in Tokens /\ S \in SUBSET Symbols
      BY <1>b, <2>4
    <3> DEFINE s == ticker[f]
    <3>2. /\ sockets'[s].state = sockets[s].state /\ sockets'[s].calling = sockets[s].calling
          /\ sockets'[s].tokens = sockets[s].tokens /\ sockets[s].subs \subseteq sockets'[s].subs
          /\ s = ticker[g] /\ Up(s) => S \subseteq sockets'[s].subs
      BY <1>a, <2>1, <3>1, SentIs
    <3>3. Up(s)
      BY <2>1, <2>4, <3>2 DEF Up
    <3>4. x \in sockets[s].subs \/ Sending(f, x)
      BY <1>a, <2>4, <3>3 DEF AllSent
    <3>5. CASE x \in sockets[s].subs
      BY <3>2, <3>5
    <3>6. CASE sockets[s].calling /\ x \in sockets[s].tokens
      BY <2>1, <3>2, <3>6 DEF Sending
    <3>7. ASSUME NEW q \in Readers, reader[q].pc = "subscribe", reader[q].of = f,
                 x \in reader[q].symbol
          PROVE  x \in sockets'[s].subs \/ Sending(f, x)'
      <4>1. CASE q = r
        BY <4>1, <3>2, <3>3, <3>7
      <4>2. CASE q # r
        BY <4>2, <2>2, <3>7 DEF Sending
      <4> QED BY <4>1, <4>2
    <3> QED BY <3>4, <3>5, <3>6, <3>7 DEF Sending
  <2>5. AllSent'
    BY <2>1, <2>4 DEF AllSent, Up
  <2> QED BY <2>3, <2>5
<1>7. ASSUME NEW s \in Ids, OnConnect(s) PROVE NothingYet' /\ AllSent'
  <2>1. UNCHANGED <<ticker, known, current, reader>>
    BY <1>7 DEF OnConnect
  <2>2. sockets'[s].calling /\ sockets'[s].tokens = known[sockets[s].of]
    BY <1>7, <1>b DEF OnConnect, Socket
  <2>3. \A x \in Ids : x # s => sockets'[x] = sockets[x]
    BY <1>7, <1>b DEF OnConnect
  <2>4. NothingYet'
    BY <1>a, <2>1 DEF NothingYet
  <2>5. ASSUME NEW f \in Tokens, ticker[f] # NoTicker, Up(ticker[f])', NEW x \in known[f]
        PROVE  x \in sockets'[ticker[f]].subs \/ Sending(f, x)'
    <3>1. CASE ticker[f] = s
      <4>1. sockets[s].of = f
        BY <3>1, <1>d, <2>5 DEF OwnSockets
      <4> QED BY <3>1, <4>1, <2>1, <2>2, <2>5 DEF Sending
    <3>2. CASE ticker[f] # s
      <4>1. sockets'[ticker[f]] = sockets[ticker[f]]
        BY <3>2, <1>b, <2>3, <2>5
      <4>2. x \in sockets[ticker[f]].subs \/ Sending(f, x)
        BY <1>a, <4>1, <2>1, <2>5 DEF AllSent, Up
      <4>3. Sending(f, x) => Sending(f, x)'
        BY <2>1, <4>1 DEF Sending
      <4> QED BY <4>1, <4>2, <4>3
    <3> QED BY <3>1, <3>2
  <2>6. AllSent'
    BY <2>1, <2>5 DEF AllSent, Up
  <2> QED BY <2>4, <2>6
<1>8. ASSUME NEW s \in Ids, Resubscribe(s) PROVE NothingYet' /\ AllSent'
  <2> DEFINE g == sockets[s].of
             S == sockets[s].tokens
             sent == Subscribed(g, S)
  <2>1. /\ UNCHANGED <<ticker, known, current, reader>>
        /\ sockets' = [sent EXCEPT ![s].calling = FALSE, ![s].tokens = {}]
    BY <1>8 DEF Resubscribe
  <2>2. NothingYet'
    BY <1>a, <2>1 DEF NothingYet
  <2>3. sent \in [Ids -> Socket] /\ g \in Tokens /\ S \in SUBSET Symbols
    BY <1>a, <1>b, SentType
  <2>4. ASSUME NEW f \in Tokens, ticker[f] # NoTicker, Up(ticker[f])', NEW x \in known[f]
        PROVE  x \in sockets'[ticker[f]].subs \/ Sending(f, x)'
    <3> DEFINE t == ticker[f]
    <3>1. t \in Ids
      BY <1>b, <2>4
    <3>2. /\ sent[t].state = sockets[t].state /\ sent[t].calling = sockets[t].calling
          /\ sent[t].tokens = sockets[t].tokens /\ sockets[t].subs \subseteq sent[t].subs
          /\ t = ticker[g] /\ Up(t) => S \subseteq sent[t].subs
      BY <1>a, <2>3, <3>1, SentIs
    <3> HIDE DEF sent
    <3>3. /\ sockets'[t].state = sent[t].state /\ sockets'[t].subs = sent[t].subs
          /\ t # s => sockets'[t] = sent[t]
      BY <2>1, <2>3, <3>1 DEF Socket
    <3>4. Up(t)
      BY <2>1, <2>4, <3>2, <3>3 DEF Up
    <3>5. x \in sockets[t].subs \/ Sending(f, x)
      BY <1>a, <2>4, <3>4 DEF AllSent
    <3>6. CASE x \in sockets[t].subs
      BY <3>2, <3>3, <3>6
    <3>7. CASE sockets[t].calling /\ x \in sockets[t].tokens
      <4>1. CASE t = s
        <5>1. g = f
          BY <4>1, <1>d, <2>4 DEF OwnSockets
        <5> QED BY <4>1, <5>1, <3>2, <3>3, <3>4, <3>7
      <4>2. CASE t # s
        <5>1. sockets'[t].calling /\ x \in sockets'[t].tokens
          BY <4>2, <3>2, <3>3, <3>7
        <5> QED BY <5>1, <2>1 DEF Sending
      <4> QED BY <4>1, <4>2
    <3>8. CASE \E q \in Readers : reader[q].pc = "subscribe" /\ reader[q].of = f /\ x \in reader[q].symbol
      BY <3>8, <2>1 DEF Sending
    <3> QED BY <3>5, <3>6, <3>7, <3>8 DEF Sending
  <2>5. AllSent'
    BY <2>1, <2>4 DEF AllSent, Up
  <2> QED BY <2>2, <2>5
<1>9. ASSUME NEW s \in Ids, OnClose(s) PROVE NothingYet' /\ AllSent'
  <2>1. UNCHANGED <<ticker, known, current, reader>>
    BY <1>9 DEF OnClose
  <2>2. sockets'[s].state = "down" /\ \A x \in Ids : x # s => sockets'[x] = sockets[x]
    BY <1>9, <1>b DEF OnClose, Socket
  <2>3. NothingYet'
    BY <1>a, <2>1 DEF NothingYet
  <2>4. ASSUME NEW f \in Tokens, ticker[f] # NoTicker, Up(ticker[f])', NEW x \in known[f]
        PROVE  x \in sockets'[ticker[f]].subs \/ Sending(f, x)'
    <3>1. sockets'[ticker[f]] = sockets[ticker[f]]
      BY <1>b, <2>1, <2>2, <2>4 DEF Up
    <3>2. x \in sockets[ticker[f]].subs \/ Sending(f, x)
      BY <1>a, <3>1, <2>1, <2>4 DEF AllSent, Up
    <3>3. Sending(f, x) => Sending(f, x)'
      BY <2>1, <3>1 DEF Sending
    <3> QED BY <3>1, <3>2, <3>3
  <2>5. AllSent'
    BY <2>1, <2>4 DEF AllSent, Up
  <2> QED BY <2>3, <2>5
<1>10. ASSUME NEW s \in Ids, OnTicks(s) PROVE NothingYet' /\ AllSent'
  <2>1. UNCHANGED <<ticker, known, sockets, current>>
    BY <1>10 DEF OnTicks
  <2>2. \A r \in Readers : /\ reader'[r].pc = reader[r].pc /\ reader'[r].of = reader[r].of
                           /\ reader'[r].symbol = reader[r].symbol
    BY <1>10, <1>b DEF OnTicks, Reading
  <2> QED BY <1>a, <2>1, <2>2, KeepsSent
<1>11. ASSUME NEW r \in Readers, FeedFor(r) PROVE NothingYet' /\ AllSent'
  <2>1. current' = token /\ UNCHANGED <<known, reader>>
    BY <1>11 DEF FeedFor
  <2>2. CASE current = token
    <3>1. UNCHANGED <<ticker, known, sockets, current>>
      BY <1>11, <2>2 DEF FeedFor
    <3> QED BY <1>a, <2>1, <3>1, KeepsSent
  <2>3. CASE current # token
    <3>1. current < token
      BY <1>b, <1>c, <1>d, <2>3 DEF InOrder
    <3>2. ticker[token] = NoTicker /\ known[token] = {}
      BY <1>b, <1>d, <3>1 DEF InOrder
    <3>3. \A q \in Readers : reader[q].of # token
      BY <1>b, <1>c, <1>d, <3>1 DEF InOrder
    <3>4. NothingYet'
      BY <2>1, <3>2, <3>3 DEF NothingYet
    <3>5. ticker' = Stopped(current)
      BY <1>11, <2>3 DEF FeedFor
    <3>6. \A f \in Tokens : ticker'[f] = NoTicker
      BY <1>b, <1>d, <3>5 DEF Stopped, Alone
    <3>7. AllSent'
      BY <3>6 DEF AllSent
    <3> QED BY <3>4, <3>7
  <2> QED BY <2>2, <2>3
<1>12. ASSUME Login \/ TimePasses \/ UNCHANGED vars PROVE NothingYet' /\ AllSent'
  <2>1. UNCHANGED <<ticker, known, sockets, current, reader>>
    BY <1>12 DEF Login, TimePasses, vars
  <2> QED BY <1>a, <2>1, KeepsSent
<1> QED BY <1>1, <1>2, <1>3, <1>4, <1>5, <1>6, <1>7, <1>8, <1>9, <1>10, <1>11, <1>12
       DEF Next, Read, Callback

\* A connected feed streams every symbol it has resolved, however resolution,
\* connection, loss and login interleave (live/pricefeed.py), but for the two
\* races that leave a feed with a ticker that is not its own.
THEOREM KnownIsStreamed == Spec => []KnownIsSubscribed
<1>1. SentInv => KnownIsSubscribed
  <2> SUFFICES ASSUME SentInv, Without(Races), NEW f \in Tokens,
                      ticker[f] # NoTicker, Up(ticker[f]),
                      \A x \in Ids : ~sockets[x].calling,
                      \A r \in Readers : reader[r].pc = "subscribe" => reader[r].of # f,
                      NEW x \in known[f]
               PROVE  x \in sockets[ticker[f]].subs
    BY DEF KnownIsSubscribed, Races
  <2>1. x \in sockets[ticker[f]].subs \/ Sending(f, x)
    BY DEF SentInv, AllSent
  <2>2. ticker[f] \in Ids
    BY DEF SentInv, SocketInv, ShapeInv, TypeOK
  <2> QED BY <2>1, <2>2 DEF Sending
<1> QED BY <1>1, InitSent, NextSent, PTL DEF Spec
=============================================================================
