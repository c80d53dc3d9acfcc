------------------------------ MODULE PriceFeed ------------------------------
(***************************************************************************)
(* The streaming price feed of one Zerodha account (live/pricefeed.py): a  *)
(* KiteTickerFeed per login token holds the last tick of each symbol, the  *)
(* runs of the account read it through FeedQuoteSource in their tick       *)
(* threads, and build_quote_source gives a run the feed of the current     *)
(* token on the event loop.  The sockets call back on a thread of their    *)
(* own.                                                                    *)
(*                                                                         *)
(* Abstractions.  A feed is known by its token.  A price is the time of    *)
(* its tick.  A call is followed for one of its symbols.  A symbol the     *)
(* feed cannot serve is asked over REST, which changes nothing here.  A    *)
(* read of a field under the lock is one step, as is stop().  KiteTicker   *)
(* (external) reconnects by itself and drops what is sent while it is not  *)
(* connected.                                                              *)
(***************************************************************************)
EXTENDS Integers, FiniteSets

CONSTANTS
  Readers,                  \* tick threads, one per run
  Symbols,
  Asked,                    \* the lists of symbols the runs ask for
  Stale,                    \* ws_feed_stale_s
  MaxClock,                 \* bound: time
  MaxTokens,                \* bound: login tokens, the first included
  MaxSockets, MaxDrops      \* bounds: sockets opened; connections lost

ASSUME FeedAssumption ==
  /\ Asked \subseteq SUBSET Symbols
  /\ Stale \in Nat /\ MaxClock \in Nat /\ MaxTokens \in Nat \ {0}
  /\ MaxSockets \in Nat /\ MaxDrops \in Nat

VARIABLES
  clock,                    \* time.monotonic()
  token,                    \* the account's access token
  current,                  \* _feeds[account]
  source,                   \* the feed of each run's quote_source
  ticker,                   \* KiteTickerFeed._ticker
  known,                    \* _token_of
  cache,                    \* _cache: when each symbol last ticked
  sockets,                  \* every KiteTicker made
  reader,                   \* the get_quotes under way
  drops,
  disturbed                 \* the races so far

feed == <<ticker, known, cache>>
vars == <<clock, token, current, source, feed, sockets, reader, drops, disturbed>>

Tokens == 1..MaxTokens
Ids == 1..MaxSockets
NoTicker == 0
Never == -1

Idle == [pc |-> "idle", of |-> 1, left |-> {}, symbol |-> {}, socket |-> NoTicker,
         tick |-> Never, overtaken |-> FALSE]
NoSocket == [state |-> "none", of |-> 1, subs |-> {}, calling |-> FALSE, tokens |-> {}]
Up(s) == sockets[s].state = "up"
Building(f) == \E r \in Readers : reader[r].pc = "assign" /\ reader[r].of = f
GoTo(r, pc) == reader' = [reader EXCEPT ![r].pc = pc]

Init ==
  /\ clock = 0 /\ token = 1
  /\ current = 1 /\ source = [r \in Readers |-> 1]
  /\ ticker = [f \in Tokens |-> NoTicker]
  /\ known = [f \in Tokens |-> {}]
  /\ cache = [f \in Tokens |-> [s \in Symbols |-> Never]]
  /\ sockets = [s \in Ids |-> NoSocket]
  /\ reader = [r \in Readers |-> Idle]
  /\ drops = 0 /\ disturbed = {}

-----------------------------------------------------------------------------
(* FeedQuoteSource.get_quotes, in a tick thread.                           *)

GetQuotes(r) ==
  /\ reader[r].pc = "idle"
  /\ \E S \in Asked \ {{}} :
       reader' = [reader EXCEPT ![r].pc = "ticker", ![r].of = source[r], ![r].left = S]
  /\ UNCHANGED <<clock, token, current, source, feed, sockets, drops, disturbed>>

\* _ensure_ticker: the socket begins to connect before the feed knows it.
BuildTicker(r) ==
  LET f == reader[r].of
      free == {s \in Ids : sockets[s].state = "none"}
  IN  /\ reader[r].pc = "ticker" /\ ticker[f] = NoTicker /\ free # {}
      /\ LET s == CHOOSE x \in free : TRUE
         IN  /\ sockets' = [sockets EXCEPT ![s] = [NoSocket EXCEPT !.state = "opening", !.of = f]]
             /\ reader' = [reader EXCEPT ![r].pc = "assign", ![r].socket = s]
      /\ disturbed' = disturbed \cup (IF Building(f) THEN {"raced"} ELSE {})
                                \cup (IF f # current THEN {"revived"} ELSE {})
      /\ UNCHANGED <<clock, token, current, source, feed, drops>>

AssignTicker(r) ==
  LET f == reader[r].of
  IN  /\ reader[r].pc = "assign"
      /\ ticker' = [ticker EXCEPT ![f] = reader[r].socket]
      /\ reader' = [reader EXCEPT ![r].pc = "resolve", ![r].socket = NoTicker]
      /\ disturbed' = disturbed \cup (IF ticker[f] # NoTicker THEN {"raced"} ELSE {})
                                \cup (IF f # current THEN {"revived"} ELSE {})
      /\ UNCHANGED <<clock, token, current, source, known, cache, sockets, drops>>

TickerIsThere(r) ==
  /\ reader[r].pc = "ticker" /\ ticker[reader[r].of] # NoTicker
  /\ GoTo(r, "resolve")
  /\ UNCHANGED <<clock, token, current, source, feed, sockets, drops, disturbed>>

\* The factory or connect raises: the read goes on without.
TickerFails(r) ==
  /\ reader[r].pc = "ticker" /\ ticker[reader[r].of] = NoTicker
  /\ GoTo(r, "get")
  /\ UNCHANGED <<clock, token, current, source, feed, sockets, drops, disturbed>>

\* The adapter resolves some of the unknown symbols, none when it fails.
Resolve(r) ==
  LET f == reader[r].of
      unknown == reader[r].left \ known[f]
  IN  /\ reader[r].pc = "resolve"
      /\ \E found \in SUBSET unknown :
           /\ known' = [known EXCEPT ![f] = @ \cup found]
           /\ reader' = [reader EXCEPT ![r].pc = IF found = {} THEN "get" ELSE "subscribe",
                                       ![r].symbol = found]
      /\ UNCHANGED <<clock, token, current, source, ticker, cache, sockets, drops, disturbed>>

\* On the ticker the feed has by now; what a socket that is not up is sent is lost.
Subscribed(f, tokens) ==
  [s \in Ids |-> IF s = ticker[f] /\ Up(s) THEN [sockets[s] EXCEPT !.subs = @ \cup tokens]
                 ELSE sockets[s]]

Subscribe(r) ==
  /\ reader[r].pc = "subscribe"
  /\ sockets' = Subscribed(reader[r].of, reader[r].symbol)
  /\ reader' = [reader EXCEPT ![r].pc = "get", ![r].symbol = {}]
  /\ UNCHANGED <<clock, token, current, source, feed, drops, disturbed>>

Get(r) ==
  /\ reader[r].pc = "get"
  /\ \E s \in reader[r].left :
       reader' = [reader EXCEPT ![r].pc = "stale", ![r].left = {}, ![r].symbol = {s},
                                ![r].tick = cache[reader[r].of][s]]
  /\ UNCHANGED <<clock, token, current, source, feed, sockets, drops, disturbed>>

\* Mutant of IsStale: whatever the feed has seen will do.
IsStaleIfAbsent(f, s) == cache[f][s] = Never

IsStale(f, s) == cache[f][s] = Never \/ clock - cache[f][s] > Stale

\* stale() reads the cache again, and what get() had is served.
Serves(r) ==
  /\ reader[r].pc = "stale" /\ reader[r].tick # Never
  /\ \A s \in reader[r].symbol : ~IsStale(reader[r].of, s)

\* The symbol is served, or left to REST.
Check(r) ==
  /\ reader[r].pc = "stale"
  /\ reader' = [reader EXCEPT ![r] = Idle]
  /\ UNCHANGED <<clock, token, current, source, feed, sockets, drops, disturbed>>

-----------------------------------------------------------------------------
(* The socket's thread.                                                    *)

\* Mutant of OnConnect: a reconnected socket keeps the subscriptions it had.
OnConnectAsIs(s) ==
  /\ sockets[s].state \in {"opening", "down"}
  /\ sockets' = [sockets EXCEPT ![s].state = "up", ![s].subs = {}]
  /\ UNCHANGED <<clock, token, current, source, feed, reader, drops, disturbed>>

\* _on_connect, up to the tokens it reads under the lock.
OnConnect(s) ==
  /\ sockets[s].state \in {"opening", "down"}
  /\ \A x \in Ids : ~sockets[x].calling
  /\ sockets' = [sockets EXCEPT ![s].state = "up", ![s].subs = {}, ![s].calling = TRUE,
                                ![s].tokens = known[sockets[s].of]]
  /\ UNCHANGED <<clock, token, current, source, feed, reader, drops, disturbed>>

\* ... and the rest: the tokens go to the feed's ticker, whichever it is.
Resubscribe(s) ==
  /\ sockets[s].calling
  /\ sockets' = [Subscribed(sockets[s].of, sockets[s].tokens) EXCEPT
                   ![s].calling = FALSE, ![s].tokens = {}]
  /\ UNCHANGED <<clock, token, current, source, feed, reader, drops, disturbed>>

OnClose(s) ==
  /\ Up(s) /\ drops < MaxDrops /\ drops' = drops + 1
  /\ sockets' = [sockets EXCEPT ![s].state = "down", ![s].subs = {}]
  /\ UNCHANGED <<clock, token, current, source, feed, reader, disturbed>>

\* Mutant of OnTicks: the stamp is ahead of the clock.
OnTicksAhead(s) ==
  LET f == sockets[s].of
  IN  /\ Up(s)
      /\ \E S \in SUBSET sockets[s].subs \ {{}} :
           cache' = [cache EXCEPT ![f] = [x \in Symbols |-> IF x \in S THEN clock + 1 ELSE @[x]]]
      /\ UNCHANGED <<clock, token, current, source, ticker, known, sockets, reader, drops, disturbed>>

\* Reactor callbacks come one at a time.
OnTicks(s) ==
  LET f == sockets[s].of
  IN  /\ Up(s) /\ \A x \in Ids : ~sockets[x].calling
      /\ \E S \in SUBSET sockets[s].subs \ {{}} :
           /\ cache' = [cache EXCEPT ![f] = [x \in Symbols |-> IF x \in S THEN clock ELSE @[x]]]
           /\ reader' = [r \in Readers |->
                           IF reader[r].pc = "stale" /\ reader[r].of = f /\ reader[r].symbol \subseteq S
                             THEN [reader[r] EXCEPT !.overtaken = reader[r].tick # Never]
                             ELSE reader[r]]
      /\ UNCHANGED <<clock, token, current, source, ticker, known, sockets, drops, disturbed>>

-----------------------------------------------------------------------------
(* The event loop: logins, and the runs given a new quote source.          *)

Login ==
  /\ token < MaxTokens /\ token' = token + 1
  /\ UNCHANGED <<clock, current, source, feed, sockets, reader, drops, disturbed>>

\* stop() of a feed: its ticker is forgotten and closed.
Stopped(f) == [ticker EXCEPT ![f] = NoTicker]
Closed(f) ==
  [s \in Ids |-> IF s = ticker[f] THEN [sockets[s] EXCEPT !.state = "closed", !.subs = {}]
                 ELSE sockets[s]]

\* Mutant of FeedFor: the feed of the old token is replaced, and left running.
FeedForRunning(r) ==
  /\ current' = token /\ source' = [source EXCEPT ![r] = token]
  /\ UNCHANGED <<clock, token, feed, sockets, reader, drops, disturbed>>

\* build_quote_source and feed_for, for the run of r.
FeedFor(r) ==
  /\ source[r] # token
  /\ current' = token /\ source' = [source EXCEPT ![r] = token]
  /\ IF current = token THEN UNCHANGED <<ticker, sockets>>
     ELSE ticker' = Stopped(current) /\ sockets' = Closed(current)
  /\ disturbed' = disturbed \cup IF current # token /\ Building(current) THEN {"revived"} ELSE {}
  /\ UNCHANGED <<clock, token, known, cache, reader, drops>>

TimePasses ==
  /\ clock < MaxClock /\ clock' = clock + 1
  /\ UNCHANGED <<token, current, source, feed, sockets, reader, drops, disturbed>>

Read(r) ==
  \/ GetQuotes(r) \/ BuildTicker(r) \/ AssignTicker(r) \/ TickerIsThere(r) \/ TickerFails(r)
  \/ Resolve(r) \/ Subscribe(r) \/ Get(r) \/ Check(r)
Callback(s) == OnConnect(s) \/ Resubscribe(s) \/ OnClose(s) \/ OnTicks(s)
Next ==
  \/ \E r \in Readers : Read(r) \/ FeedFor(r)
  \/ \E s \in Ids : Callback(s)
  \/ Login \/ TimePasses

Spec == Init /\ [][Next]_vars

-----------------------------------------------------------------------------
(* Properties.                                                             *)

Reading ==
  [pc : {"idle", "ticker", "assign", "resolve", "subscribe", "get", "stale"}, of : Tokens,
   left : SUBSET Symbols, symbol : SUBSET Symbols, socket : Ids \cup {NoTicker},
   tick : Int, overtaken : BOOLEAN]
Socket ==
  [state : {"none", "opening", "up", "down", "closed"}, of : Tokens, subs : SUBSET Symbols,
   calling : BOOLEAN, tokens : SUBSET Symbols]

\* Every variable stays in its type, and no tick is stamped ahead of the clock.
TypeOK ==
  /\ clock \in Nat /\ token \in Tokens /\ current \in Tokens
  /\ source \in [Readers -> Tokens]
  /\ ticker \in [Tokens -> Ids \cup {NoTicker}]
  /\ known \in [Tokens -> SUBSET Symbols]
  /\ cache \in [Tokens -> [Symbols -> -1..clock]]
  /\ sockets \in [Ids -> Socket]
  /\ reader \in [Readers -> Reading]
  /\ drops \in Nat
  /\ disturbed \subseteq {"raced", "revived"}

Without(what) == disturbed \cap what = {}

\* A price the feed serves is at most Stale old.  A tick between get() and
\* stale() breaks it: the old price passes on the new one's stamp.
ServedFresh ==
  \A r \in Readers : Serves(r) => clock - reader[r].tick <= Stale \/ reader[r].overtaken

\* A feed that is connected streams every symbol it knows, however resolution,
\* connection and reconnection interleave, so that no symbol is left to REST.
\* Two threads that build the ticker at once break it, and a feed revived
\* after its stop.
KnownIsSubscribed ==
  \A f \in Tokens :
    LET s == ticker[f]
    IN  /\ Without({"raced", "revived"}) /\ s # NoTicker /\ Up(s)
        /\ \A x \in Ids : ~sockets[x].calling
        /\ \A r \in Readers : reader[r].pc = "subscribe" => reader[r].of # f
        => known[f] \subseteq sockets[s].subs

\* One connection per account: every socket that is not closed belongs to the
\* current feed, or to the thread that is building it.  The same two races
\* leave a socket that nobody closes any more.
NoStraySocket ==
  Without({"raced", "revived"}) =>
    \A s \in Ids : sockets[s].state \in {"opening", "up", "down"} =>
      \/ ticker[current] = s
      \/ \E r \in Readers : reader[r].pc = "assign" /\ reader[r].socket = s
=============================================================================
