----------------------------- MODULE MarketData -----------------------------
(***************************************************************************)
(* Quotes, bars, streams, option data, positions and P&L: the functions of *)
(* ibkr_core/market_data.py and account.py that ask Interactive Brokers on *)
(* the connection of one client, and what they take and have to give back: *)
(* a handler of the error event, market data lines, the subscriptions to   *)
(* positions and P&L, and the client's RequestTimeout.                     *)
(*                                                                         *)
(* The functions call each other; the stack of calls is a sequence of      *)
(* frames.  An exception is raised by the top frame and handed down.       *)
(*                                                                         *)
(* Every function begins with ensure_connected, which connects the same    *)
(* client again: it keeps its handlers, its RequestTimeout and its         *)
(* streams, which know nothing of the lines that went with the connection. *)
(*                                                                         *)
(* IB knows a line by its request.  The code cancels it by the contract,   *)
(* which means the last request for that contract, if it still runs.       *)
(***************************************************************************)
EXTENDS Naturals, Sequences, FiniteSets

CONSTANTS
  Specs,            \* SymbolSpecs, with the defaults applied
  Symbol,           \* Symbol[spec]
  Rolls,            \* the specs of a future without an expiry
  Quoted,           \* the specs that quotes are asked for
  Streams,          \* StreamingQuote objects
  StreamSpec,       \* StreamSpec[s]
  MaxRolls,         \* bound on the months that pass
  None

VARIABLES
  connected,        \* client.is_connected
  month,            \* the front month of every future
  cache,            \* _contract_cache
  stack,            \* the calls, the running one last
  raised,           \* the exception that is handed down, or "none"
  handlers,         \* the handlers of the error event, by their owner
  lines,            \* lines[c]: the streaming lines for contract c
  last,             \* last[c]: the last request for c, if it still runs
  positions, pnl,   \* the subscriptions
  limited,          \* RequestTimeout is the one of a call
  active,           \* the streams that are active
  contractOf,       \* contractOf[s]: _contract of stream s
  broken,           \* history: the streams whose start broke off, and not stopped yet
  asked,            \* history: the streams that asked for their line on this connection
  answer            \* the last quotes: for which specs, with the data of which contracts

client == <<connected, handlers, lines, last, positions, pnl, limited>>
streams == <<active, contractOf, broken, asked>>
feedsVars == <<client, streams, month, cache, stack, raised, answer>>

Months == 0 .. MaxRolls
Contracts == Specs \X Months
LineFns == {"quote", "quotes", "bars", "greeks", "chain", "stream"}
AccountFns == {"positions", "pnl", "summary"}
Stages ==
  {"connect", "resolve", "quoted", "register", "request", "poll", "begin", "sleep", "summary", "end"}
Errors == {"contract", "data", "account", "other"}
Requests == {"none", "snapshot", "streaming"}

Frames ==
  [fn : LineFns \cup AccountFns, of : SUBSET Specs, todo : SUBSET Specs, at : Stages,
   has : [Specs -> Contracts \cup {None}], stream : Streams \cup {None}]

ASSUME SpecAssumption == Rolls \subseteq Specs /\ Quoted \subseteq Specs
ASSUME StreamAssumption == StreamSpec \in [Streams -> Specs]
ASSUME RollAssumption == MaxRolls \in Nat
ASSUME NoneAssumption == None \notin Streams \cup Contracts
ASSUME OwnerAssumption == Streams \cap LineFns = {}

Init ==
  /\ connected = TRUE /\ month = 0
  /\ cache = [p \in Specs |-> None]
  /\ stack = <<>> /\ raised = "none"
  /\ handlers = {}
  /\ lines = [c \in Contracts |-> 0] /\ last = [c \in Contracts |-> "none"]
  /\ positions = FALSE /\ pnl = FALSE /\ limited = FALSE
  /\ active = {} /\ broken = {} /\ asked = {}
  /\ contractOf = [s \in Streams |-> None]
  /\ answer = None

(***************************************************************************)
(* Frames                                                                  *)
(***************************************************************************)

Top == stack[Len(stack)]
Below == SubSeq(stack, 1, Len(stack) - 1)
Running == stack # <<>> /\ raised = "none"
At(fns, stage) == Running /\ Top.fn \in fns /\ Top.at = stage

Frame(fn, of, s) ==
  [fn |-> fn, of |-> of, todo |-> of, at |-> "connect", has |-> [p \in Specs |-> None],
   stream |-> s]

Owner == IF Top.stream = None THEN Top.fn ELSE Top.stream
With(frame) == stack' = Append(Below, frame)
GoTo(stage) == With([Top EXCEPT !.at = stage, !.todo = Top.of])
Enter(stage, fn, of) ==
  stack' = Append(Append(Below, [Top EXCEPT !.at = stage]), Frame(fn, of, None))

\* The contracts that the top frame works with.
Mine == {Top.has[p] : p \in Top.of} \ {None}

\* Mutant: as if every request were a line that is still open.
CancelBlindly(cs) ==
  /\ lines' = [c \in Contracts |-> IF c \in cs THEN lines[c] - 1 ELSE lines[c]]
  /\ last' = [c \in Contracts |-> IF c \in cs THEN "none" ELSE last[c]]

\* cancel_market_data for each of the contracts.
CancelLines(cs) ==
  /\ lines' = [c \in Contracts |->
       IF c \in cs /\ last[c] = "streaming" THEN lines[c] - 1 ELSE lines[c]]
  /\ last' = [c \in Contracts |-> IF c \in cs THEN "none" ELSE last[c]]

\* Mutant: the subscription outlives an exception.
ReleaseOnSuccess(e) ==
  LET protected == Top.at \in {"request", "poll"} IN
  /\ handlers' = IF protected THEN handlers \ {Owner} ELSE handlers
  /\ CancelLines(IF protected /\ Top.fn # "bars" /\ e = "none" THEN Mine ELSE {})
  /\ positions' = (positions /\ Top.fn # "positions")
  /\ pnl' = (pnl /\ Top.fn # "pnl")
  /\ limited' = (limited /\ Top.fn # "summary")

\* The finally of the top frame.
Release(e) ==
  LET protected == Top.at \in {"request", "poll"} IN
  /\ handlers' = IF protected THEN handlers \ {Owner} ELSE handlers
  /\ CancelLines(IF protected /\ Top.fn # "bars" THEN Mine ELSE {})
  /\ positions' = (positions /\ Top.fn # "positions")
  /\ pnl' = (pnl /\ Top.fn # "pnl")
  /\ limited' = (limited /\ Top.fn # "summary")

\* The top frame returns or raises e.
LeaveStack(e) ==
  /\ Release(e)
  /\ stack' = Below
  /\ raised' = IF Below = <<>> THEN "none" ELSE e
  /\ UNCHANGED <<streams, month, cache>>

Leave(e) == LeaveStack(e) /\ UNCHANGED connected

Continue == UNCHANGED <<streams, month, raised, answer>>

(***************************************************************************)
(* The connection                                                          *)
(***************************************************************************)

\* ensure_connected, before anything else.
EnsureConnected ==
  /\ At(LineFns \cup AccountFns, "connect")
  /\ connected' = TRUE
  /\ GoTo(IF Top.fn \in LineFns THEN "resolve" ELSE "begin")
  /\ UNCHANGED <<handlers, lines, last, positions, pnl, limited, cache>> /\ Continue

\* connect raises, before the handshake or, with the connection made, after it.
ConnectFails ==
  /\ At(LineFns \cup AccountFns, "connect") /\ ~connected
  /\ connected' \in BOOLEAN
  /\ LeaveStack("other")
  /\ UNCHANGED answer

\* With the connection go the lines and the subscriptions.
Lose ==
  /\ connected /\ connected' = FALSE
  /\ lines' = [c \in Contracts |-> 0] /\ last' = [c \in Contracts |-> "none"]
  /\ positions' = FALSE /\ pnl' = FALSE
  /\ asked' = {}
  /\ UNCHANGED <<handlers, limited, active, contractOf, broken, month, cache, stack, raised, answer>>

\* The next call of a tool has a client of its own; the cache is the process's.
NewClient ==
  /\ stack = <<>>
  /\ connected' = TRUE
  /\ lines' = [c \in Contracts |-> 0] /\ last' = [c \in Contracts |-> "none"]
  /\ positions' = FALSE /\ pnl' = FALSE /\ limited' = FALSE /\ handlers' = {}
  /\ active' = {} /\ broken' = {} /\ asked' = {} /\ contractOf' = [s \in Streams |-> None]
  /\ UNCHANGED <<month, cache, stack, raised, answer>>

(***************************************************************************)
(* Contracts                                                               *)
(***************************************************************************)

\* Mutant: the key of the cache is the symbol.
KeyBySymbol(p) == CHOOSE q \in Specs : Symbol[q] = Symbol[p]

\* _make_key: all of the spec.
Key(p) == p

\* The contract that IB names: for a future without an expiry the front month.
Named(p) == <<p, IF p \in Rolls THEN month ELSE 0>>

\* With the contract of its last spec a call goes on, an option's with its quote.
Resolved(frame) ==
  IF frame.todo # {} THEN With(frame)
  ELSE IF frame.fn \in {"greeks", "chain"}
    THEN stack' = Append(Append(Below, [frame EXCEPT !.at = "quoted"]),
                         Frame("quote", frame.of, None))
    ELSE With([frame EXCEPT !.at = "register", !.todo = frame.of])

\* resolve_contract.  The contracts of get_quotes are kept by symbol.
Resolve ==
  /\ At(LineFns, "resolve")
  /\ \E p \in Top.todo :
       LET cached == cache[Key(p)]
           c == IF cached # None THEN cached ELSE Named(p) IN
       /\ cached = None => connected
       /\ cache' = [cache EXCEPT ![Key(p)] = c]
       /\ Resolved([Top EXCEPT !.todo = @ \ {p},
            !.has = [q \in Specs |-> IF Symbol[q] = Symbol[p] THEN c ELSE @[q]]])
  /\ UNCHANGED client /\ Continue

\* There is no such contract, or the client is not connected.
ResolveFails ==
  /\ At(LineFns, "resolve")
  /\ Leave("contract")
  /\ UNCHANGED answer

(***************************************************************************)
(* Market data                                                             *)
(***************************************************************************)

\* get_option_snapshot goes on to the greeks, get_option_chain to the parameters and
\* the contracts of the chain.
Quote ==
  \/ /\ At({"greeks"}, "quoted")
     /\ GoTo("register")
     /\ UNCHANGED <<client, cache>> /\ Continue
  \/ /\ At({"chain"}, "quoted")
     /\ \E e \in {"none", "data", "other"} : Leave(e)
     /\ UNCHANGED answer

AddHandler ==
  /\ At(LineFns, "register")
  /\ handlers' = handlers \cup {Owner}
  /\ GoTo(IF Top.fn = "bars" THEN "poll" ELSE "request")
  /\ contractOf' = [s \in Streams |->
       IF s = Top.stream THEN Top.has[StreamSpec[s]] ELSE contractOf[s]]
  /\ UNCHANGED <<connected, lines, last, positions, pnl, limited, active, broken, asked>>
  /\ UNCHANGED <<cache, month, raised, answer>>

\* request_market_data: a stream and the greeks are not snapshots.
RequestLine ==
  /\ At(LineFns, "request") /\ connected
  /\ \E p \in Top.todo :
       LET c == Top.has[p]
           streaming == Top.fn \in {"stream", "greeks"} IN
       /\ lines' = IF streaming THEN [lines EXCEPT ![c] = @ + 1] ELSE lines
       /\ last' = [last EXCEPT ![c] = IF streaming THEN "streaming" ELSE "snapshot"]
       /\ With([Top EXCEPT !.todo = @ \ {p}, !.at = IF Top.todo = {p} THEN "poll" ELSE @])
  /\ asked' = asked \cup ({Top.stream} \ {None})
  /\ UNCHANGED <<connected, handlers, positions, pnl, limited, active, contractOf, broken>>
  /\ UNCHANGED <<cache, month, raised, answer>>

Answered ==
  answer' = IF Top.fn \in {"quote", "quotes"} THEN [of |-> Top.of, has |-> Top.has] ELSE answer

Polls == LineFns \ {"stream"}

\* There is data.
Data ==
  /\ At(Polls, "poll")
  /\ Answered
  /\ Leave("none")

\* get_quotes goes on after the errors that IB reports; get_historical_bars makes
\* all of them its own.
PollErrors ==
  CASE Top.fn = "quotes" -> {"other"}
    [] Top.fn = "bars" -> {"contract", "data"}
    [] OTHER -> {"contract", "data", "other"}

\* IB reports an error, or the connection is lost.
PollFails ==
  /\ At(Polls, "poll")
  /\ \E e \in PollErrors : Leave(e)
  /\ UNCHANGED answer

RequestFails ==
  /\ At(Polls, "request")
  /\ Leave("other")
  /\ UNCHANGED answer

\* Mutant: get_quotes waits for every instrument.
TimeOutOne ==
  /\ At(Polls \ {"quotes"}, "poll")
  /\ IF Top.fn = "greeks" THEN Leave("none") ELSE Leave("data")
  /\ UNCHANGED answer

\* The deadline has passed.  get_quotes and get_option_snapshot do with what there is.
TimeOut ==
  /\ At(Polls, "poll")
  /\ IF Top.fn \in {"quotes", "greeks"}
       THEN Answered /\ Leave("none")
       ELSE UNCHANGED answer /\ Leave("data")

(***************************************************************************)
(* StreamingQuote                                                          *)
(***************************************************************************)

Started ==
  /\ At({"stream"}, "poll")
  /\ active' = active \cup {Top.stream}
  /\ stack' = Below
  /\ UNCHANGED <<client, contractOf, broken, asked, month, cache, raised, answer>>

\* start calls stop, after an error of IB or the timeout.
StartFails ==
  /\ At({"stream"}, "poll")
  /\ Leave("data")
  /\ UNCHANGED answer

\* The request, or the wait, raises an exception: nothing is given back.
StartBreaks ==
  /\ At({"stream"}, "poll") \/ At({"stream"}, "request")
  /\ stack' = Below
  /\ broken' = broken \cup {Top.stream}
  /\ UNCHANGED <<client, active, contractOf, asked, month, cache, raised, answer>>

\* stop, whether the stream is active or not: its contract is still there.
Stop(s) ==
  /\ stack = <<>>
  /\ active' = active \ {s}
  /\ broken' = broken \ {s}
  /\ handlers' = handlers \ {s}
  /\ CancelLines({contractOf[s]})
  /\ UNCHANGED <<connected, positions, pnl, limited, contractOf, asked>>
  /\ UNCHANGED <<month, cache, stack, raised, answer>>

(***************************************************************************)
(* The account                                                             *)
(***************************************************************************)

\* get_positions and get_pnl subscribe; get_account_summary sets its timeout, and may
\* answer from what an earlier call has left.
Subscribe ==
  /\ At(AccountFns, "begin") /\ (connected \/ Top.fn = "summary")
  /\ positions' = (positions \/ Top.fn = "positions")
  /\ pnl' = (pnl \/ Top.fn = "pnl")
  /\ limited' = (limited \/ Top.fn = "summary")
  /\ GoTo("sleep")
  /\ UNCHANGED <<connected, handlers, lines, last, cache>> /\ Continue

PnlStep ==
  /\ \/ At({"pnl"}, "sleep") /\ Enter("summary", "positions", {})
     \/ At({"pnl"}, "summary") /\ Enter("end", "summary", {})
  /\ UNCHANGED <<client, cache>> /\ Continue

AccountDone ==
  /\ At({"positions", "summary"}, "sleep") \/ At({"pnl"}, "end")
  /\ Leave("none")
  /\ UNCHANGED answer

\* There is no account, or a request raises an exception.
AccountFails ==
  /\ \/ At(AccountFns, "begin") /\ \E e \in {"other", "account"} : Leave(e)
     \/ (At(AccountFns, "sleep") \/ At({"pnl"}, "summary")) /\ Leave("account")
  /\ UNCHANGED answer

(***************************************************************************)
(* Exceptions and calls                                                    *)
(***************************************************************************)

\* get_option_chain does without the quote, and get_pnl without the summary.
Handled ==
  \/ Top.fn = "chain" /\ raised = "data"
  \/ Top.fn = "pnl" /\ Top.at = "end" /\ raised = "account"

Catch ==
  /\ stack # <<>> /\ raised # "none" /\ Handled
  /\ raised' = "none"
  /\ UNCHANGED <<client, streams, month, cache, stack, answer>>

Unwind ==
  /\ stack # <<>> /\ raised # "none" /\ ~Handled
  /\ Leave(IF Top.fn = "pnl" THEN "account" ELSE raised)
  /\ UNCHANGED answer

Call ==
  /\ stack = <<>>
  /\ \/ \E fn \in AccountFns : stack' = <<Frame(fn, {}, None)>>
     \/ \E fn \in Polls \ {"quotes"}, p \in Quoted : stack' = <<Frame(fn, {p}, None)>>
     \/ \E of \in SUBSET Quoted \ {{}} : stack' = <<Frame("quotes", of, None)>>
  /\ UNCHANGED <<client, streams, month, cache, raised, answer>>

Start(s) ==
  /\ stack = <<>> /\ s \notin active \cup broken
  /\ stack' = <<Frame("stream", {StreamSpec[s]}, s)>>
  /\ UNCHANGED <<client, streams, month, cache, raised, answer>>

Roll ==
  /\ month < MaxRolls
  /\ month' = month + 1
  /\ UNCHANGED <<client, streams, cache, stack, raised, answer>>

\* What the code does by itself, and the answers to requests without a time limit.
Step ==
  \/ EnsureConnected \/ ConnectFails
  \/ Resolve \/ ResolveFails \/ Quote \/ AddHandler \/ RequestLine \/ RequestFails \/ TimeOut
  \/ StartFails \/ StartBreaks
  \/ Subscribe \/ PnlStep \/ AccountDone \/ AccountFails \/ Catch \/ Unwind

Next ==
  \/ Call \/ Step \/ Data \/ PollFails \/ Started
  \/ Lose \/ NewClient \/ Roll
  \/ \E s \in Streams : Start(s) \/ Stop(s)

Fairness == WF_feedsVars(Step)

Spec == Init /\ [][Next]_feedsVars /\ Fairness

(***************************************************************************)
(* Properties                                                              *)
(***************************************************************************)

\* The types of the variables.
TypeOK ==
  /\ connected \in BOOLEAN /\ month \in Months
  /\ cache \in [Specs -> Contracts \cup {None}]
  /\ \A i \in 1 .. Len(stack) : stack[i] \in Frames
  /\ raised \in Errors \cup {"none"}
  /\ handlers \subseteq LineFns \cup Streams
  /\ lines \in [Contracts -> Nat] /\ last \in [Contracts -> Requests]
  /\ positions \in BOOLEAN /\ pnl \in BOOLEAN /\ limited \in BOOLEAN
  /\ active \subseteq Streams /\ broken \subseteq Streams /\ asked \subseteq Streams
  /\ contractOf \in [Streams -> Contracts \cup {None}]
  /\ answer # None => answer.of \subseteq Specs /\ answer.has \in [Specs -> Contracts \cup {None}]

\* The instrument of a stream is asked for by somebody else on the same client too:
\* its line is cancelled by the other's contract, or cannot be any more.
Shared(p) ==
  \E s \in Streams :
    StreamSpec[s] = p /\ (p \in Quoted \/ \E t \in Streams \ {s} : StreamSpec[t] = p)

\* However a call ends, by whichever exception of whichever call inside it, there is
\* nothing left of it: no handler, no subscription, no line and no timeout; but for a
\* stream whose start breaks off, until it is stopped.
NothingLeftOpen ==
  stack = <<>> =>
    /\ handlers = active \cup broken
    /\ ~positions /\ ~pnl /\ ~limited
    /\ \A c \in Contracts : ~Shared(c[1]) =>
         lines[c] <= Cardinality({s \in active \cup broken : contractOf[s] = c})

\* As long as the connection lasts on which an active stream asked for its line, nobody
\* cancels it but its stop.  After that the stream stays active, without a line, on the
\* connection that the next call makes.
StreamsStayOpen ==
  \A s \in active \cap asked : ~Shared(StreamSpec[s]) => lines[contractOf[s]] = 1

\* Every quote has the data of its instrument, whichever contracts the cache holds;
\* but for the instruments of one call that have the same symbol.
RightInstrument ==
  answer # None =>
    \A p \in answer.of :
      (\A q \in answer.of \ {p} : Symbol[q] # Symbol[p]) => answer.has[p][1] = p

\* A call ends, if IB answers the requests that have no time limit.
CallsEnd == stack # <<>> ~> stack = <<>>
=============================================================================
