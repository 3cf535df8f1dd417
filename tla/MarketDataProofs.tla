-------------------------- MODULE MarketDataProofs --------------------------
(***************************************************************************)
(* What the calls of one client owe and give back, for any number of       *)
(* instruments, streams and months.                                        *)
(*                                                                         *)
(* A call gives back what it took when its frame leaves the stack, so the  *)
(* inductive invariant says what each frame of the stack owes: the running *)
(* one a handler and, once its request is out, a line; those below it,     *)
(* which wait for a call of theirs, neither.                               *)
(***************************************************************************)
EXTENDS MarketData, SequenceTheorems, FiniteSetTheorems, TLAPS

(***************************************************************************)
(* Frames and the stack                                                    *)
(***************************************************************************)

\* The stages with a finally that takes the handler down and cancels the lines.
Protected == {"request", "poll"}
Streaming == {"stream", "greeks"}

\* The stages at which a call has no contract yet.
Early == {"connect", "resolve"}

\* The calls that wait for one of theirs.
Waiting(f) ==
  f.fn \in {"greeks", "chain", "pnl"} /\ f.at \in {"quoted", "summary", "end"}

\* No other instrument of the call has this one's symbol.
Alone(p, of) == \A q \in of \ {p} : Symbol[q] # Symbol[p]

\* What a frame has resolved is for its own instruments, and once it is past
\* resolving it has a contract for each of them.
FrameOK(f) ==
  /\ f.todo \subseteq f.of
  /\ f.at # "connect" =>
       ((f.fn \in AccountFns) <=> (f.at \in {"begin", "sleep", "summary", "end"}))
  /\ IF f.fn = "stream" THEN f.stream \in Streams /\ f.of = {StreamSpec[f.stream]}
     ELSE f.stream = None /\ f.of \subseteq Quoted
  /\ (f.fn \in LineFns \ {"quotes"}) => \E p \in Specs : f.of = {p}
  /\ \A p \in f.of : (f.has[p] # None) => (f.has[p][1] \in f.of)
  /\ \A p \in f.of : (f.fn \in LineFns /\ (f.at \notin Early \/ p \notin f.todo)) =>
       f.has[p] # None /\ (Alone(p, f.of) => f.has[p][1] = p)

StackOK ==
  /\ stack \in Seq(Frames)
  /\ \A i \in 1 .. Len(stack) : FrameOK(stack[i])
  /\ \A i \in 1 .. Len(stack) - 1 : Waiting(stack[i])

\* The functions that are being called.
Fns == {stack[i].fn : i \in 1 .. Len(stack)}

\* What is left of a sequence without its last elements.
LEMMA PrefixType ==
  ASSUME NEW S, NEW q \in Seq(S), NEW n \in Nat, n <= Len(q)
  PROVE  /\ SubSeq(q, 1, n) \in Seq(S)
         /\ Len(SubSeq(q, 1, n)) = n
         /\ \A i \in 1 .. n : SubSeq(q, 1, n)[i] = q[i]
<1>1. \A j \in 1 .. n : q[j] \in S
  OBVIOUS
<1>2. QED BY <1>1, SubSeqProperties

LEMMA TopBelow ==
  ASSUME StackOK, stack # <<>>
  PROVE  /\ Len(stack) \in Nat \ {0}
         /\ Top \in Frames /\ FrameOK(Top) /\ Top.fn \in Fns
         /\ Below \in Seq(Frames) /\ Len(Below) = Len(stack) - 1
         /\ \A i \in 1 .. Len(stack) - 1 : Below[i] = stack[i]
<1>1. Len(stack) \in Nat \ {0}
  BY EmptySeq DEF StackOK
<1>2. Len(stack) \in 1 .. Len(stack)
  BY <1>1
<1>3. Top \in Frames /\ FrameOK(Top) /\ Top.fn \in Fns
  <2>1. Top = stack[Len(stack)]
    BY DEF Top
  <2>2. Top \in Frames
    BY <1>2, <2>1, ElementOfSeq DEF StackOK
  <2>3. FrameOK(Top)
    BY <1>2, <2>1 DEF StackOK
  <2>4. Top.fn \in Fns
    BY <1>2, <2>1 DEF Fns
  <2>5. QED BY <2>2, <2>3, <2>4
<1>4. /\ Below \in Seq(Frames) /\ Len(Below) = Len(stack) - 1
      /\ \A i \in 1 .. Len(stack) - 1 : Below[i] = stack[i]
  <2>1. Len(stack) - 1 \in Nat /\ Len(stack) - 1 <= Len(stack)
    BY <1>1
  <2>2. QED BY <2>1, PrefixType DEF StackOK, Below
<1>5. QED BY <1>1, <1>3, <1>4

\* The top frame goes on.
LEMMA WithOK ==
  ASSUME StackOK, stack # <<>>, NEW f \in Frames, FrameOK(f), f.fn = Top.fn, With(f)
  PROVE  StackOK' /\ stack' # <<>> /\ Top' = f /\ Fns' = Fns
<1>1. /\ Len(stack) \in Nat \ {0} /\ Below \in Seq(Frames) /\ Len(Below) = Len(stack) - 1
      /\ \A i \in 1 .. Len(stack) - 1 : Below[i] = stack[i]
  BY TopBelow
<1>2. /\ stack' \in Seq(Frames) /\ Len(stack') = Len(stack) /\ stack'[Len(stack)] = f
      /\ \A i \in 1 .. Len(stack) - 1 : stack'[i] = stack[i]
  BY <1>1, AppendProperties DEF With
<1>3. stack' # <<>> /\ Top' = f
  BY <1>1, <1>2, EmptySeq DEF Top
<1>4. \A i \in 1 .. Len(stack) : i \in 1 .. Len(stack) - 1 \/ i = Len(stack)
  BY <1>1
<1>5. StackOK'
  BY <1>2, <1>4 DEF StackOK
<1>6. \A i \in 1 .. Len(stack) : stack'[i].fn = stack[i].fn
  <2>1. stack'[Len(stack)].fn = stack[Len(stack)].fn
    BY <1>2 DEF Top
  <2>2. QED BY <1>2, <1>4, <2>1
<1>7. Fns' = Fns
  BY <1>2, <1>6 DEF Fns
<1>8. QED BY <1>3, <1>5, <1>7

\* The top frame calls another function.
LEMMA EnterOK ==
  ASSUME StackOK, stack # <<>>, NEW g \in Frames, FrameOK(g), Waiting(g), g.fn = Top.fn,
         NEW f \in Frames, FrameOK(f), stack' = Append(Append(Below, g), f)
  PROVE  StackOK' /\ stack' # <<>> /\ Top' = f /\ Fns \subseteq Fns'
<1>1. /\ Len(stack) \in Nat \ {0} /\ Below \in Seq(Frames) /\ Len(Below) = Len(stack) - 1
      /\ \A i \in 1 .. Len(stack) - 1 : Below[i] = stack[i]
  BY TopBelow
<1>2. /\ Append(Below, g) \in Seq(Frames) /\ Len(Append(Below, g)) = Len(stack)
      /\ Append(Below, g)[Len(stack)] = g
      /\ \A i \in 1 .. Len(stack) - 1 : Append(Below, g)[i] = stack[i]
  BY <1>1, AppendProperties
<1>3. /\ stack' \in Seq(Frames) /\ Len(stack') = Len(stack) + 1 /\ stack'[Len(stack) + 1] = f
      /\ stack'[Len(stack)] = g
      /\ \A i \in 1 .. Len(stack) - 1 : stack'[i] = stack[i]
  BY <1>1, <1>2, AppendProperties
<1>4. stack' # <<>> /\ Top' = f
  BY <1>1, <1>3, EmptySeq DEF Top
<1>5. \A i \in 1 .. Len(stack') : i \in 1 .. Len(stack) - 1 \/ i = Len(stack) \/ i = Len(stack')
  BY <1>1, <1>3
<1>6. StackOK'
  <2>1. \A i \in 1 .. Len(stack') : FrameOK(stack'[i])
    BY <1>1, <1>3, <1>5 DEF StackOK
  <2>2. \A i \in 1 .. Len(stack') - 1 : i \in 1 .. Len(stack) - 1 \/ i = Len(stack)
    BY <1>1, <1>3
  <2>3. \A i \in 1 .. Len(stack') - 1 : Waiting(stack'[i])
    BY <1>3, <2>2 DEF StackOK
  <2>4. QED BY <1>3, <2>1, <2>3 DEF StackOK
<1>7. \A i \in 1 .. Len(stack) : i \in 1 .. Len(stack') /\ stack'[i].fn = stack[i].fn
  BY <1>1, <1>3, <1>5 DEF Top
<1>8. Fns \subseteq Fns'
  BY <1>7 DEF Fns
<1>9. QED BY <1>4, <1>6, <1>8

\* The top frame is gone: the one that waited for it goes on.
LEMMA BelowOK ==
  ASSUME StackOK, stack # <<>>, stack' = Below
  PROVE  /\ StackOK'
         /\ stack' # <<>> => Waiting(Top')
         /\ Fns \subseteq Fns' \cup {Top.fn}
<1>1. /\ Len(stack) \in Nat \ {0} /\ Below \in Seq(Frames) /\ Len(Below) = Len(stack) - 1
      /\ \A i \in 1 .. Len(stack) - 1 : Below[i] = stack[i]
  BY TopBelow
<1>2. StackOK'
  BY <1>1 DEF StackOK
<1>3. stack' # <<>> => Waiting(Top')
  <2>1. SUFFICES ASSUME stack' # <<>> PROVE Waiting(Top')
    OBVIOUS
  <2>2. Len(stack') \in 1 .. Len(stack) - 1
    BY <1>1, <2>1, EmptySeq
  <2>3. Top' = stack[Len(stack')]
    BY <1>1, <2>2 DEF Top
  <2>4. QED BY <2>2, <2>3 DEF StackOK
<1>4. Fns \subseteq Fns' \cup {Top.fn}
  <2>1. SUFFICES ASSUME NEW i \in 1 .. Len(stack) PROVE stack[i].fn \in Fns' \cup {Top.fn}
    BY DEF Fns
  <2>2. CASE i = Len(stack)
    BY <2>2 DEF Top
  <2>3. CASE i \in 1 .. Len(stack) - 1
    BY <1>1, <2>3 DEF Fns
  <2>4. QED BY <1>1, <2>2, <2>3
<1>5. QED BY <1>2, <1>3, <1>4

\* A call from outside.
LEMMA CallOK ==
  ASSUME NEW f \in Frames, FrameOK(f), stack' = <<f>>
  PROVE  StackOK' /\ stack' # <<>> /\ Top' = f /\ Fns' = {f.fn}
<1>1. stack' \in Seq(Frames) /\ Len(stack') = 1 /\ stack'[1] = f /\ stack' # <<>>
  OBVIOUS
<1>2. \A i \in 1 .. Len(stack') : i = 1
  BY <1>1
<1>3. QED BY <1>1, <1>2 DEF StackOK, Top, Fns

LEMMA NewFrame ==
  ASSUME NEW fn \in LineFns \cup AccountFns, NEW of \in SUBSET Specs, NEW s \in Streams \cup {None},
         IF fn = "stream" THEN s \in Streams /\ of = {StreamSpec[s]}
         ELSE s = None /\ of \subseteq Quoted,
         (fn \in LineFns \ {"quotes"}) => \E p \in Specs : of = {p}
  PROVE  /\ Frame(fn, of, s) \in Frames /\ FrameOK(Frame(fn, of, s))
         /\ Frame(fn, of, s).fn = fn /\ Frame(fn, of, s).stream = s
         /\ Frame(fn, of, s).at = "connect"
<1>1. Frame(fn, of, s) \in Frames
  BY DEF Frame, Frames, Stages, Contracts
<1>2. FrameOK(Frame(fn, of, s))
  BY DEF Frame, FrameOK, LineFns, AccountFns, Early
<1>3. QED BY <1>1, <1>2 DEF Frame

(***************************************************************************)
(* What is owed                                                            *)
(***************************************************************************)

KeptOK ==
  /\ month \in Months
  /\ cache \in [Specs -> Contracts \cup {None}]
  /\ raised \in Errors \cup {"none"}
  /\ active \subseteq Streams /\ broken \subseteq Streams /\ asked \subseteq Streams
  /\ contractOf \in [Streams -> Contracts \cup {None}]
  /\ \A p \in Specs : (cache[p] # None) => cache[p][1] = p

\* A stream that runs, or broke off, has the contract of its instrument; one that is
\* being started is neither.
StreamsOK ==
  /\ \A s \in Streams : (contractOf[s] # None) => contractOf[s][1] = StreamSpec[s]
  /\ \A s \in active \cup broken : contractOf[s] # None
  /\ (stack # <<>> /\ Top.fn = "stream") =>
       /\ Top.stream \notin active \cup broken
       /\ (Top.at \in Protected) => contractOf[Top.stream] = Top.has[StreamSpec[Top.stream]]

ClientOK ==
  /\ connected \in BOOLEAN
  /\ lines \in [Contracts -> Nat] /\ last \in [Contracts -> Requests]
  /\ positions \in BOOLEAN /\ pnl \in BOOLEAN /\ limited \in BOOLEAN

HandlersOwed ==
  handlers = active \cup broken \cup
               (IF stack # <<>> /\ Top.at \in Protected THEN {Owner} ELSE {})

SubscriptionsOwed ==
  /\ positions => "positions" \in Fns
  /\ pnl => "pnl" \in Fns
  /\ limited => "summary" \in Fns

\* A line that a stream, or the running call, is to cancel.
StreamHolds(c) == \E s \in active \cup broken : contractOf[s] = c
TopHolds(c) == stack # <<>> /\ Top.fn \in Streaming /\ Top.at = "poll" /\ c \in Mine

\* What can be cancelled is there.  A contract that only one party asks for has one
\* line, which that party can cancel, or none.
LinesOwed ==
  /\ \A c \in Contracts : last[c] = "streaming" => lines[c] > 0
  /\ \A c \in Contracts : (~Shared(c[1]) /\ lines[c] > 0) =>
       lines[c] = 1 /\ last[c] = "streaming" /\ (TopHolds(c) \/ StreamHolds(c))

\* A stream that asked for its line on this connection has it.
StreamsOpen ==
  /\ \A s \in active \cap asked : ~Shared(StreamSpec[s]) => lines[contractOf[s]] = 1
  /\ (stack # <<>> /\ Top.fn = "stream" /\ Top.at = "poll" /\ Top.stream \in asked
       /\ ~Shared(StreamSpec[Top.stream]))
       => lines[Top.has[StreamSpec[Top.stream]]] = 1

AnswerOK ==
  answer # None =>
    /\ answer.of \subseteq Specs /\ answer.has \in [Specs -> Contracts \cup {None}]
    /\ \A p \in answer.of : Alone(p, answer.of) => answer.has[p][1] = p

Owed == ClientOK /\ HandlersOwed /\ SubscriptionsOwed /\ LinesOwed /\ StreamsOpen

FeedsInv == StackOK /\ KeptOK /\ StreamsOK /\ Owed /\ AnswerOK

LEMMA FrameFields ==
  ASSUME NEW f \in Frames
  PROVE  /\ f.fn \in LineFns \cup AccountFns /\ f.at \in Stages
         /\ f.of \subseteq Specs /\ f.todo \subseteq Specs
         /\ f.has \in [Specs -> Contracts \cup {None}]
         /\ f.stream \in Streams \cup {None}
BY DEF Frames

\* The contracts of a call are of its own instruments.
LEMMA MineFacts ==
  ASSUME StackOK, stack # <<>>, NEW c \in Mine
  PROVE  c \in Contracts /\ c[1] \in Top.of
<1>1. Top \in Frames /\ FrameOK(Top)
  BY TopBelow
<1>2. PICK p \in Top.of : c = Top.has[p] /\ c # None
  BY DEF Mine
<1>3. c \in Contracts
  BY <1>1, <1>2, FrameFields
<1>4. c[1] \in Top.of
  BY <1>1, <1>2 DEF FrameOK
<1>5. QED BY <1>3, <1>4

\* No call works with the contract of a stream that is alone with it.
LEMMA NotMine ==
  ASSUME StackOK, KeptOK, StreamsOK, NEW s \in active \cup broken, ~Shared(StreamSpec[s])
  PROVE  /\ s \in Streams /\ contractOf[s] \in Contracts /\ contractOf[s][1] = StreamSpec[s]
         /\ stack # <<>> => contractOf[s] \notin Mine
<1>1. s \in Streams /\ contractOf[s] \in Contracts /\ contractOf[s][1] = StreamSpec[s]
  BY DEF KeptOK, StreamsOK
<1>2. SUFFICES ASSUME stack # <<>>, contractOf[s] \in Mine PROVE FALSE
  BY <1>1
<1>3. FrameOK(Top) /\ StreamSpec[s] \in Top.of
  BY <1>1, <1>2, MineFacts, TopBelow
<1>4. CASE Top.fn = "stream"
  <2>1. Top.stream \in Streams \ {s} /\ StreamSpec[Top.stream] = StreamSpec[s]
    BY <1>2, <1>3, <1>4 DEF FrameOK, StreamsOK
  <2>2. QED BY <1>1, <2>1 DEF Shared
<1>5. CASE Top.fn # "stream"
  BY <1>1, <1>3, <1>5 DEF FrameOK, Shared
<1>6. QED BY <1>4, <1>5

LEMMA OwnerFacts ==
  ASSUME StackOK, KeptOK, StreamsOK, stack # <<>>, Top.fn \in LineFns
  PROVE  /\ Owner \in LineFns \cup Streams /\ Owner \notin active \cup broken
         /\ Top.fn = "stream" => Owner = Top.stream /\ Top.stream \in Streams
         /\ Top.fn # "stream" => Top.stream = None
<1>1. FrameOK(Top)
  BY TopBelow
<1>2. CASE Top.fn = "stream"
  BY <1>1, <1>2, NoneAssumption DEF FrameOK, Owner, StreamsOK
<1>3. CASE Top.fn # "stream"
  BY <1>1, <1>3, OwnerAssumption DEF FrameOK, Owner, KeptOK
<1>4. QED BY <1>2, <1>3

LEMMA CancelFacts ==
  ASSUME ClientOK, NEW cs, CancelLines(cs),
         \A c \in Contracts : last[c] = "streaming" => lines[c] > 0
  PROVE  /\ lines' \in [Contracts -> Nat] /\ last' \in [Contracts -> Requests]
         /\ \A c \in Contracts : last'[c] = "streaming" => lines'[c] > 0
         /\ \A c \in Contracts \ cs : lines'[c] = lines[c] /\ last'[c] = last[c]
         /\ \A c \in Contracts : lines[c] = 1 /\ last[c] = "streaming" /\ c \in cs => lines'[c] = 0
         /\ \A c \in Contracts : lines'[c] <= lines[c]
<1>1. \A c \in Contracts : lines[c] \in Nat /\ last[c] \in Requests
  BY DEF ClientOK
<1>2. /\ \A c \in Contracts :
           /\ lines'[c] = IF c \in cs /\ last[c] = "streaming" THEN lines[c] - 1 ELSE lines[c]
           /\ last'[c] = IF c \in cs THEN "none" ELSE last[c]
  BY DEF CancelLines
<1>3. \A c \in Contracts : lines'[c] \in Nat /\ last'[c] \in Requests
  BY <1>1, <1>2 DEF Requests
<1>4. lines' \in [Contracts -> Nat] /\ last' \in [Contracts -> Requests]
  BY <1>3 DEF CancelLines
<1>5. QED BY <1>1, <1>2, <1>4

(***************************************************************************)
(* Steps                                                                   *)
(***************************************************************************)

Kept == StackOK /\ KeptOK /\ StreamsOK /\ Owed

LEMMA WaitingFacts ==
  ASSUME StackOK, stack # <<>>, Waiting(Top)
  PROVE  Top.at \notin Protected /\ Top.at # "poll" /\ Top.fn # "stream"
BY DEF Waiting, Protected

LEMMA ProtectedFacts ==
  ASSUME StackOK, stack # <<>>
  PROVE  /\ Top.at \in Protected => Top.fn \in LineFns
         /\ Top.fn \in {"greeks", "stream"} => Top.fn \in LineFns
BY TopBelow, FrameFields DEF FrameOK, Protected, LineFns

\* A frame that leaves the stack, returning or not, takes with it what it owes and
\* nothing else.
LEMMA LeaveKeeps ==
  ASSUME Kept, stack # <<>>, NEW e \in Errors \cup {"none"}, LeaveStack(e),
         connected' \in BOOLEAN
  PROVE  Kept'
<1> USE DEF Kept, Owed
<1> DEFINE cs == IF Top.at \in Protected /\ Top.fn # "bars" THEN Mine ELSE {}
<1>1. /\ StackOK'
      /\ stack' # <<>> => Waiting(Top')
      /\ Fns \subseteq Fns' \cup {Top.fn}
  BY BelowOK DEF LeaveStack
<1>2. stack' # <<>> => /\ Top'.at \notin Protected /\ Top'.at # "poll" /\ Top'.fn # "stream"
  BY <1>1 DEF Waiting, Protected
<1>3. /\ asked' = asked /\ active' = active /\ broken' = broken
      /\ contractOf' = contractOf /\ month' = month /\ cache' = cache
      /\ raised' \in Errors \cup {"none"}
  BY DEF LeaveStack, streams
<1>4. KeptOK'
  BY <1>3 DEF KeptOK
<1>5. StreamsOK'
  BY <1>2, <1>3 DEF StreamsOK
<1>6. CancelLines(cs)
  BY DEF LeaveStack, Release, Protected
<1>7. /\ lines' \in [Contracts -> Nat] /\ last' \in [Contracts -> Requests]
      /\ \A c \in Contracts : last'[c] = "streaming" => lines'[c] > 0
      /\ \A c \in Contracts \ cs : lines'[c] = lines[c] /\ last'[c] = last[c]
      /\ \A c \in Contracts : lines[c] = 1 /\ last[c] = "streaming" /\ c \in cs => lines'[c] = 0
      /\ \A c \in Contracts : lines'[c] <= lines[c]
  <2> HIDE DEF cs
  <2>1. QED BY <1>6, CancelFacts DEF LinesOwed
<1>8. /\ positions' = (positions /\ Top.fn # "positions")
      /\ pnl' = (pnl /\ Top.fn # "pnl")
      /\ limited' = (limited /\ Top.fn # "summary")
  BY DEF LeaveStack, Release
<1>9. ClientOK'
  BY <1>3, <1>7, <1>8 DEF ClientOK
<1>10. HandlersOwed'
  <2>1. handlers' = active \cup broken
    <3>1. CASE Top.at \in Protected
      <4>1. Owner \notin active \cup broken
        BY <3>1, ProtectedFacts, OwnerFacts
      <4>2. QED BY <3>1, <4>1 DEF LeaveStack, Release, HandlersOwed, Protected
    <3>2. CASE Top.at \notin Protected
      BY <3>2 DEF LeaveStack, Release, HandlersOwed, Protected
    <3>3. QED BY <3>1, <3>2
  <2>2. QED BY <1>2, <1>3, <2>1 DEF HandlersOwed
<1>11. SubscriptionsOwed'
  BY <1>1, <1>8 DEF SubscriptionsOwed
<1>12. LinesOwed'
  <2>1. SUFFICES ASSUME NEW c \in Contracts, ~Shared(c[1]), lines'[c] > 0
                 PROVE  lines'[c] = 1 /\ last'[c] = "streaming" /\ StreamHolds(c)'
    BY <1>7 DEF LinesOwed
  <2>2. lines[c] = 1 /\ last[c] = "streaming" /\ (TopHolds(c) \/ StreamHolds(c))
    BY <1>7, <2>1 DEF LinesOwed, ClientOK
  <2>3. c \notin cs
    BY <1>7, <2>1, <2>2
  <2>4. StreamHolds(c)
    BY <2>2, <2>3 DEF TopHolds, Streaming, Protected
  <2>5. QED BY <1>3, <1>7, <2>1, <2>2, <2>3, <2>4 DEF StreamHolds
<1>13. StreamsOpen'
  <2>1. SUFFICES ASSUME NEW s \in active \cap asked, ~Shared(StreamSpec[s])
                 PROVE  lines'[contractOf[s]] = 1
    BY <1>2, <1>3 DEF StreamsOpen
  <2>2. contractOf[s] \in Contracts /\ contractOf[s] \notin Mine
    BY <2>1, NotMine
  <2>3. QED BY <1>7, <2>1, <2>2 DEF StreamsOpen
<1>14. QED BY <1>1, <1>4, <1>5, <1>9, <1>10, <1>11, <1>12, <1>13

\* A step that leaves the client and the streams alone and comes to no stage where
\* something is owed.
LEMMA QuietKeeps ==
  ASSUME Kept, UNCHANGED <<client, streams>>, KeptOK', StackOK',
         stack # <<>> => Top.at \notin Protected,
         stack' # <<>> => Top'.at \notin Protected,
         (stack' # <<>> /\ Top'.fn = "stream") => Top'.stream \notin active \cup broken,
         Fns \subseteq Fns'
  PROVE  Kept'
<1> USE DEF Kept, Owed
<1>1. /\ connected' = connected /\ handlers' = handlers /\ lines' = lines /\ last' = last
      /\ positions' = positions /\ pnl' = pnl /\ limited' = limited
      /\ active' = active /\ broken' = broken /\ contractOf' = contractOf /\ asked' = asked
  BY DEF client, streams
<1>2. StreamsOK'
  BY <1>1 DEF StreamsOK
<1>3. ClientOK' /\ HandlersOwed' /\ SubscriptionsOwed'
  BY <1>1 DEF ClientOK, HandlersOwed, SubscriptionsOwed
<1>4. LinesOwed'
  BY <1>1 DEF LinesOwed, TopHolds, StreamHolds, Protected
<1>5. StreamsOpen'
  BY <1>1 DEF StreamsOpen, Protected
<1>6. QED BY <1>2, <1>3, <1>4, <1>5

\* A frame that goes on to another stage, with what it has resolved.
LEMMA MovedFrame ==
  ASSUME NEW f \in Frames, FrameOK(f), NEW g \in Frames,
         g.fn = f.fn, g.of = f.of, g.has = f.has, g.stream = f.stream,
         g.todo \subseteq g.of,
         (g.fn \in AccountFns) <=> (g.at \in {"begin", "sleep", "summary", "end"}),
         g.fn \in LineFns => g.at \notin Early /\ (f.at \notin Early \/ f.todo = {})
  PROVE  FrameOK(g)
BY DEF FrameOK

\* A frame that has resolved one of its instruments: those of the call with the same
\* symbol get its contract.
LEMMA ResolvedFrame ==
  ASSUME NEW f \in Frames, FrameOK(f), f.fn \in LineFns, f.at = "resolve",
         NEW p \in f.todo, NEW c \in Contracts, c[1] = p, NEW g \in Frames,
         g.fn = f.fn, g.of = f.of, g.stream = f.stream, g.at = "resolve",
         g.todo = f.todo \ {p},
         \A q \in Specs : g.has[q] = IF Symbol[q] = Symbol[p] THEN c ELSE f.has[q]
  PROVE  FrameOK(g)
<1>1. p \in Specs /\ p \in f.of /\ f.of \subseteq Specs /\ c # None
  BY FrameFields, NoneAssumption DEF FrameOK
<1>2. \A q \in g.of : (g.has[q] # None) => (g.has[q][1] \in g.of)
  BY <1>1 DEF FrameOK
<1>3. ASSUME NEW q \in g.of, q \notin g.todo
      PROVE  g.has[q] # None /\ (Alone(q, g.of) => g.has[q][1] = q)
  <2>1. CASE q = p
    BY <1>1, <2>1
  <2>2. CASE q # p
    <3>1. f.has[q] # None /\ (Alone(q, f.of) => f.has[q][1] = q)
      BY <1>3, <2>2 DEF FrameOK, Early
    <3>2. Symbol[q] = Symbol[p] => ~Alone(q, f.of)
      BY <1>1, <2>2 DEF Alone
    <3>3. QED BY <1>1, <1>3, <3>1, <3>2
  <2>3. QED BY <2>1, <2>2
<1>4. QED BY <1>2, <1>3 DEF FrameOK, Early

LEMMA NamedType ==
  ASSUME NEW p \in Specs, KeptOK
  PROVE  Named(p) \in Contracts /\ Named(p)[1] = p
BY RollAssumption DEF Named, Contracts, KeptOK, Months

LEMMA ResolveKeeps ==
  ASSUME Kept, Resolve
  PROVE  Kept'
<1> USE DEF Kept
<1>1. stack # <<>> /\ Top.fn \in LineFns /\ Top.at = "resolve"
  BY DEF Resolve, At, Running
<1>2. PICK p \in Top.todo :
        LET cached == cache[Key(p)]
            c == IF cached # None THEN cached ELSE Named(p) IN
        /\ cached = None => connected
        /\ cache' = [cache EXCEPT ![Key(p)] = c]
        /\ Resolved([Top EXCEPT !.todo = @ \ {p},
             !.has = [q \in Specs |-> IF Symbol[q] = Symbol[p] THEN c ELSE @[q]]])
  BY DEF Resolve
<1> DEFINE c == IF cache[p] # None THEN cache[p] ELSE Named(p)
           g == [Top EXCEPT !.todo = @ \ {p},
                  !.has = [q \in Specs |-> IF Symbol[q] = Symbol[p] THEN c ELSE @[q]]]
<1>3. Top \in Frames /\ FrameOK(Top) /\ p \in Specs
  BY <1>1, TopBelow, FrameFields
<1>4. c \in Contracts /\ c[1] = p
  BY <1>3, NamedType DEF KeptOK
<1>5. cache' = [cache EXCEPT ![p] = c] /\ Resolved(g)
  BY <1>2 DEF Key
<1>6. UNCHANGED <<client, streams>> /\ month' = month /\ raised' = raised
  BY DEF Resolve, Continue
<1>7. KeptOK'
  BY <1>3, <1>4, <1>5, <1>6 DEF KeptOK, streams
<1>8. /\ g \in Frames /\ FrameOK(g)
      /\ g.fn = Top.fn /\ g.of = Top.of /\ g.stream = Top.stream /\ g.at = "resolve"
  <2> HIDE DEF c
  <2>1. /\ g \in Frames
        /\ g.fn = Top.fn /\ g.of = Top.of /\ g.stream = Top.stream /\ g.at = "resolve"
        /\ g.todo = Top.todo \ {p}
        /\ \A q \in Specs : g.has[q] = IF Symbol[q] = Symbol[p] THEN c ELSE Top.has[q]
    BY <1>1, <1>3, <1>4 DEF Frames
  <2> HIDE DEF g
  <2>2. QED BY <1>1, <1>3, <1>4, <2>1, ResolvedFrame
<1> HIDE DEF g, c
<1>9. /\ StackOK' /\ Fns \subseteq Fns' /\ stack' # <<>>
      /\ Top'.at \notin Protected
      /\ Top'.fn = "stream" => Top.fn = "stream" /\ Top'.stream = Top.stream
  <2>1. CASE g.todo # {}
    <3>1. With(g)
      BY <1>5, <2>1 DEF Resolved
    <3>2. StackOK' /\ stack' # <<>> /\ Top' = g /\ Fns' = Fns
      BY <1>1, <1>8, <3>1, WithOK
    <3>3. QED BY <1>8, <3>2 DEF Protected
  <2>2. CASE g.todo = {} /\ g.fn \in {"greeks", "chain"}
    <3> DEFINE w == [g EXCEPT !.at = "quoted"]
               f == Frame("quote", g.of, None)
    <3>1. stack' = Append(Append(Below, w), f)
      BY <1>5, <2>2 DEF Resolved
    <3>2. /\ w \in Frames /\ w.fn = g.fn /\ w.of = g.of /\ w.has = g.has
          /\ w.stream = g.stream /\ w.at = "quoted" /\ w.todo = g.todo
      BY <1>8 DEF Frames, Stages
    <3>3. FrameOK(w)
      <4> HIDE DEF w
      <4>1. g.todo \subseteq g.of /\ g.fn \notin AccountFns
        BY <1>8, <2>2 DEF FrameOK, AccountFns
      <4>2. QED BY <1>8, <2>2, <3>2, <4>1, MovedFrame DEF Early
    <3>4. Waiting(w)
      BY <2>2, <3>2 DEF Waiting
    <3>5. f \in Frames /\ FrameOK(f) /\ f.fn = "quote" /\ f.at = "connect"
      <4>1. g.of \subseteq Specs /\ g.of \subseteq Quoted /\ \E q \in Specs : g.of = {q}
        BY <1>8, <2>2, FrameFields DEF FrameOK, LineFns
      <4>2. "quote" \in LineFns /\ "quote" \in LineFns \ {"quotes"}
        BY DEF LineFns
      <4>3. QED BY <4>1, <4>2, NewFrame DEF Frame
    <3> HIDE DEF w, f
    <3>6. StackOK' /\ stack' # <<>> /\ Top' = f /\ Fns \subseteq Fns'
      BY <1>1, <1>8, <3>1, <3>2, <3>3, <3>4, <3>5, EnterOK
    <3>7. QED BY <3>5, <3>6 DEF Protected
  <2>3. CASE g.todo = {} /\ g.fn \notin {"greeks", "chain"}
    <3> DEFINE r == [g EXCEPT !.at = "register", !.todo = g.of]
    <3>1. With(r)
      BY <1>5, <2>3 DEF Resolved
    <3>2. /\ r \in Frames /\ r.fn = g.fn /\ r.of = g.of /\ r.has = g.has
          /\ r.stream = g.stream /\ r.at = "register" /\ r.todo = g.of
      BY <1>8 DEF Frames, Stages
    <3> HIDE DEF r
    <3>3. FrameOK(r)
      <4>1. g.fn \notin AccountFns
        BY <1>1, <1>8 DEF LineFns, AccountFns
      <4>2. QED BY <1>8, <2>3, <3>2, <4>1, MovedFrame DEF Early
    <3>4. StackOK' /\ stack' # <<>> /\ Top' = r /\ Fns' = Fns
      BY <1>1, <1>8, <3>1, <3>2, <3>3, WithOK
    <3>5. QED BY <1>8, <3>2, <3>4 DEF Protected
  <2>4. QED BY <2>1, <2>2, <2>3
<1>10. QED
  BY <1>1, <1>6, <1>7, <1>9, QuietKeeps DEF Protected, StreamsOK

AccountStages == {"begin", "sleep", "summary", "end"}

LEMMA GoToOK ==
  ASSUME StackOK, stack # <<>>, NEW at \in Stages, GoTo(at),
         (Top.fn \in AccountFns) <=> (at \in AccountStages),
         Top.fn \in LineFns => at \notin Early /\ Top.at \notin Early
  PROVE  /\ StackOK' /\ stack' # <<>> /\ Fns' = Fns
         /\ Top'.fn = Top.fn /\ Top'.of = Top.of /\ Top'.has = Top.has
         /\ Top'.stream = Top.stream /\ Top'.at = at
<1> DEFINE g == [Top EXCEPT !.at = at, !.todo = Top.of]
<1>1. Top \in Frames /\ FrameOK(Top)
  BY TopBelow
<1>2. /\ g \in Frames /\ g.fn = Top.fn /\ g.of = Top.of /\ g.has = Top.has
      /\ g.stream = Top.stream /\ g.at = at /\ g.todo = Top.of
  BY <1>1 DEF Frames
<1>3. With(g)
  BY DEF GoTo
<1> HIDE DEF g
<1>4. FrameOK(g)
  BY <1>1, <1>2, MovedFrame DEF AccountStages
<1>5. StackOK' /\ stack' # <<>> /\ Top' = g /\ Fns' = Fns
  BY <1>1, <1>2, <1>3, <1>4, WithOK
<1>6. QED BY <1>2, <1>5

\* A line of the code that runs: which functions and stages there are.
LEMMA AtFacts ==
  ASSUME NEW fns, NEW at, At(fns, at)
  PROVE  stack # <<>> /\ raised = "none" /\ Top.fn \in fns /\ Top.at = at
BY DEF At, Running

LEMMA GreeksKeeps ==
  ASSUME Kept, At({"greeks"}, "quoted"), GoTo("register"), UNCHANGED <<client, cache>>, Continue
  PROVE  Kept'
<1> USE DEF Kept
<1>1. stack # <<>> /\ Top.fn = "greeks" /\ Top.at = "quoted"
  BY AtFacts
<1>2. /\ StackOK' /\ stack' # <<>> /\ Fns' = Fns
      /\ Top'.fn = Top.fn /\ Top'.at = "register"
  <2>1. Top.fn \notin AccountFns /\ "register" \in Stages /\ "register" \notin AccountStages
    BY <1>1 DEF AccountFns, AccountStages, Stages
  <2>2. QED BY <1>1, <2>1, GoToOK DEF Early
<1>3. UNCHANGED <<client, streams>> /\ KeptOK'
  BY DEF Continue, KeptOK, streams
<1>4. QED BY <1>1, <1>2, <1>3, QuietKeeps DEF Protected

LEMMA AddHandlerKeeps ==
  ASSUME Kept, AddHandler
  PROVE  Kept'
<1> USE DEF Kept, Owed
<1>1. stack # <<>> /\ Top.fn \in LineFns /\ Top.at = "register"
  BY AtFacts DEF AddHandler
<1> DEFINE next == IF Top.fn = "bars" THEN "poll" ELSE "request"
<1>2. /\ StackOK' /\ stack' # <<>> /\ Fns' = Fns
      /\ Top'.fn = Top.fn /\ Top'.of = Top.of /\ Top'.has = Top.has
      /\ Top'.stream = Top.stream /\ Top'.at = next
  <2>1. /\ next \in Stages /\ next \notin AccountStages /\ next \notin Early
        /\ Top.fn \notin AccountFns /\ GoTo(next)
    BY <1>1 DEF Stages, AccountStages, LineFns, AccountFns, AddHandler, Early
  <2> HIDE DEF next
  <2>2. QED BY <1>1, <2>1, GoToOK DEF Early
<1>3. Top \in Frames /\ FrameOK(Top)
  BY <1>1, TopBelow
<1>4. /\ connected' = connected /\ lines' = lines /\ last' = last /\ positions' = positions
      /\ pnl' = pnl /\ limited' = limited /\ active' = active /\ broken' = broken
      /\ asked' = asked /\ cache' = cache /\ month' = month /\ raised' = raised
      /\ handlers' = handlers \cup {Owner}
  BY DEF AddHandler
<1>5. \A s \in Streams :
        contractOf'[s] = IF s = Top.stream THEN Top.has[StreamSpec[s]] ELSE contractOf[s]
  BY DEF AddHandler
<1>6. ASSUME NEW s \in Streams, s = Top.stream
      PROVE  /\ Top.fn = "stream" /\ s \notin active \cup broken
             /\ Top.has[StreamSpec[s]] \in Contracts
             /\ Top.has[StreamSpec[s]][1] = StreamSpec[s]
  <2>1. Top.fn = "stream" /\ Top.of = {StreamSpec[s]}
    BY <1>3, <1>6, NoneAssumption DEF FrameOK
  <2>2. Alone(StreamSpec[s], Top.of)
    BY <2>1 DEF Alone
  <2>3. Top.has[StreamSpec[s]] # None /\ Top.has[StreamSpec[s]][1] = StreamSpec[s]
    BY <1>1, <1>3, <2>1, <2>2 DEF FrameOK, Early
  <2>4. Top.has[StreamSpec[s]] \in Contracts
    BY <1>3, <2>3, StreamAssumption, FrameFields
  <2>5. QED BY <1>1, <1>6, <2>1, <2>3, <2>4 DEF StreamsOK
<1>7. KeptOK'
  <2>1. contractOf' \in [Streams -> Contracts \cup {None}]
    <3>1. \A s \in Streams : contractOf'[s] \in Contracts \cup {None}
      BY <1>5, <1>6 DEF KeptOK
    <3>2. QED BY <3>1 DEF AddHandler
  <2>2. QED BY <1>4, <2>1 DEF KeptOK
<1>8. \A s \in active \cup broken : s \in Streams /\ contractOf'[s] = contractOf[s]
  BY <1>5, <1>6 DEF KeptOK
<1>9. StreamsOK'
  <2>1. \A s \in Streams : (contractOf'[s] # None) => contractOf'[s][1] = StreamSpec[s]
    BY <1>5, <1>6 DEF StreamsOK
  <2>2. Top.fn = "stream" => /\ Top.stream \in Streams /\ Top.stream \notin active \cup broken
                             /\ contractOf'[Top.stream] = Top.has[StreamSpec[Top.stream]]
    BY <1>1, <1>3, <1>5 DEF FrameOK, StreamsOK
  <2>3. QED BY <1>2, <1>4, <1>8, <2>1, <2>2 DEF StreamsOK
<1>10. ClientOK' /\ SubscriptionsOwed'
  BY <1>2, <1>4 DEF ClientOK, SubscriptionsOwed
<1>11. HandlersOwed'
  BY <1>1, <1>2, <1>4 DEF HandlersOwed, Protected, Owner
<1>12. LinesOwed'
  <2>1. \A c : ~TopHolds(c)
    BY <1>1 DEF TopHolds
  <2>2. \A c : StreamHolds(c) => StreamHolds(c)'
    BY <1>4, <1>8 DEF StreamHolds
  <2>3. QED BY <1>4, <2>1, <2>2 DEF LinesOwed
<1>13. StreamsOpen'
  BY <1>2, <1>4, <1>8 DEF StreamsOpen
<1>14. QED BY <1>2, <1>7, <1>9, <1>10, <1>11, <1>12, <1>13

\* A request for a contract that only its stream or only its call asks for.
LEMMA RequestLineKeeps ==
  ASSUME Kept, RequestLine
  PROVE  Kept'
<1> USE DEF Kept, Owed
<1>1. stack # <<>> /\ Top.fn \in LineFns /\ Top.at = "request"
  BY AtFacts DEF RequestLine
<1>2. Top \in Frames /\ FrameOK(Top)
  BY <1>1, TopBelow
<1> DEFINE streaming == Top.fn \in {"stream", "greeks"}
<1>3. PICK p \in Top.todo :
        /\ lines' = IF streaming THEN [lines EXCEPT ![Top.has[p]] = @ + 1] ELSE lines
        /\ last' = [last EXCEPT ![Top.has[p]] = IF streaming THEN "streaming" ELSE "snapshot"]
        /\ With([Top EXCEPT !.todo = @ \ {p}, !.at = IF Top.todo = {p} THEN "poll" ELSE @])
  BY DEF RequestLine
<1> DEFINE c == Top.has[p]
           g == [Top EXCEPT !.todo = @ \ {p}, !.at = IF Top.todo = {p} THEN "poll" ELSE @]
<1>4. p \in Top.of /\ c \in Contracts /\ c \in Mine
  <2>1. p \in Top.of /\ c # None
    BY <1>1, <1>2 DEF FrameOK, Early
  <2>2. c \in Contracts
    BY <1>2, <2>1, FrameFields
  <2>3. QED BY <2>1, <2>2 DEF Mine
<1>5. /\ g \in Frames /\ g.fn = Top.fn /\ g.of = Top.of /\ g.has = Top.has
      /\ g.stream = Top.stream /\ g.todo = Top.todo \ {p}
      /\ g.at = (IF Top.todo = {p} THEN "poll" ELSE "request")
  BY <1>1, <1>2 DEF Frames, Stages
<1>6. /\ \A d \in Contracts : lines'[d] = IF streaming /\ d = c THEN lines[d] + 1 ELSE lines[d]
      /\ \A d \in Contracts :
           last'[d] = IF d # c THEN last[d] ELSE IF streaming THEN "streaming" ELSE "snapshot"
      /\ lines' \in [Contracts -> Nat] /\ last' \in [Contracts -> Requests]
  BY <1>3, <1>4 DEF ClientOK, Requests
<1> HIDE DEF g
<1>7. StackOK' /\ stack' # <<>> /\ Top' = g /\ Fns' = Fns
  <2>1. FrameOK(g)
    <3>1. /\ g.todo \subseteq g.of /\ g.fn \notin AccountFns
          /\ g.at \notin {"begin", "sleep", "summary", "end"} /\ g.at \notin Early
          /\ Top.at \notin Early
      BY <1>1, <1>2, <1>5 DEF FrameOK, LineFns, AccountFns, Early
    <3>2. QED BY <1>2, <1>5, <3>1, MovedFrame
  <2>2. With(g)
    BY <1>3 DEF g
  <2>3. QED BY <1>1, <1>5, <2>1, <2>2, WithOK
<1>8. /\ connected' = connected /\ handlers' = handlers /\ positions' = positions
      /\ pnl' = pnl /\ limited' = limited /\ active' = active /\ broken' = broken
      /\ contractOf' = contractOf /\ cache' = cache /\ month' = month /\ raised' = raised
      /\ asked' = asked \cup ({Top.stream} \ {None})
  BY DEF RequestLine
<1>9. KeptOK' /\ ClientOK'
  BY <1>2, <1>6, <1>8, FrameFields DEF KeptOK, ClientOK
<1>10. StreamsOK' /\ SubscriptionsOwed'
  BY <1>1, <1>5, <1>7, <1>8 DEF StreamsOK, SubscriptionsOwed, Protected
<1>11. HandlersOwed'
  <2>1. Owner' = Owner
    BY <1>5, <1>7 DEF Owner
  <2>2. QED BY <1>1, <1>5, <1>7, <1>8, <2>1 DEF HandlersOwed, Protected
<1>12. \A d : ~TopHolds(d)
  BY <1>1 DEF TopHolds
<1>13. \A d \in Mine : ~Shared(d[1]) => ~StreamHolds(d)
  <2>1. SUFFICES ASSUME NEW d \in Mine, ~Shared(d[1]), NEW s \in active \cup broken,
                        contractOf[s] = d
                 PROVE  FALSE
    BY DEF StreamHolds
  <2>2. contractOf[s] # None /\ s \in Streams
    BY <2>1 DEF KeptOK, StreamsOK
  <2>3. d[1] = StreamSpec[s]
    BY <2>1, <2>2 DEF StreamsOK
  <2>4. ~Shared(StreamSpec[s])
    BY <2>1, <2>3
  <2>5. QED BY <1>1, <2>1, <2>4, NotMine
<1>14. ~Shared(c[1]) => lines[c] = 0
  BY <1>4, <1>12, <1>13 DEF LinesOwed, ClientOK
<1>15. streaming => Top'.at = "poll" /\ Top'.fn \in Streaming /\ c \in Mine'
  <2>1. SUFFICES ASSUME streaming PROVE Top'.at = "poll" /\ Top'.fn \in Streaming /\ c \in Mine'
    OBVIOUS
  <2>2. PICK q \in Specs : Top.of = {q}
    BY <1>2, <2>1 DEF FrameOK, LineFns
  <2>3. Top.todo = {p}
    BY <1>2, <1>3, <2>2 DEF FrameOK
  <2>4. Mine' = Mine
    BY <1>5, <1>7 DEF Mine
  <2>5. QED BY <1>4, <1>5, <1>7, <2>1, <2>3, <2>4 DEF Streaming
<1>16. LinesOwed'
  <2>1. ASSUME NEW d \in Contracts, last'[d] = "streaming" PROVE lines'[d] > 0
    BY <1>6, <2>1 DEF LinesOwed, ClientOK
  <2>2. ASSUME NEW d \in Contracts, ~Shared(d[1]), lines'[d] > 0
        PROVE  lines'[d] = 1 /\ last'[d] = "streaming" /\ (TopHolds(d)' \/ StreamHolds(d)')
    <3>1. CASE d = c
      <4>1. lines[c] = 0 /\ lines[c] \in Nat
        BY <1>4, <1>14, <2>2, <3>1
      <4>2. streaming /\ lines'[c] = 1 /\ last'[c] = "streaming"
        BY <1>4, <1>6, <2>2, <3>1, <4>1
      <4>3. TopHolds(d)'
        BY <1>7, <1>15, <3>1, <4>2 DEF TopHolds
      <4>4. QED BY <3>1, <4>2, <4>3
    <3>2. CASE d # c
      <4>1. lines[d] = 1 /\ last[d] = "streaming" /\ StreamHolds(d)
        BY <1>6, <1>12, <2>2, <3>2 DEF LinesOwed
      <4>2. QED BY <1>6, <1>8, <3>2, <4>1 DEF StreamHolds
    <3>3. QED BY <3>1, <3>2
  <2>3. QED BY <2>1, <2>2 DEF LinesOwed
<1>17. StreamsOpen'
  <2>1. ASSUME NEW s \in active \cap asked', ~Shared(StreamSpec[s])
        PROVE  lines'[contractOf[s]] = 1
    <3>1. contractOf[s] \in Contracts /\ contractOf[s] # c
      BY <1>1, <1>4, <2>1, NotMine
    <3>2. s # Top.stream
      BY <1>1, <1>2, <2>1, NoneAssumption DEF FrameOK, StreamsOK, KeptOK
    <3>3. QED BY <1>6, <1>8, <2>1, <3>1, <3>2 DEF StreamsOpen
  <2>2. ASSUME Top'.fn = "stream", ~Shared(StreamSpec[Top'.stream])
        PROVE  lines'[Top'.has[StreamSpec[Top'.stream]]] = 1
    <3>1. Top.fn = "stream" /\ Top.of = {StreamSpec[Top.stream]} /\ Top'.stream = Top.stream
          /\ Top'.has = Top.has
      BY <1>2, <1>5, <1>7, <2>2 DEF FrameOK
    <3>2. p = StreamSpec[Top.stream]
      BY <1>4, <3>1
    <3>3. c[1] = p
      <4>1. c[1] \in Top.of
        BY <1>1, <1>4, MineFacts
      <4>2. QED BY <3>1, <3>2, <4>1
    <3>4. lines[c] = 0
      BY <1>14, <2>2, <3>1, <3>2, <3>3
    <3>5. QED BY <1>4, <1>6, <3>1, <3>2, <3>4
  <2>3. QED BY <1>8, <2>1, <2>2 DEF StreamsOpen
<1>18. QED BY <1>7, <1>9, <1>10, <1>11, <1>16, <1>17

\* The start of a stream ends: the stream has the handler and the line from now on.
LEMMA StartEndsKeeps ==
  ASSUME Kept, stack # <<>>, Top.fn = "stream", Top.at \in Protected, stack' = Below,
         UNCHANGED <<client, contractOf, asked, month, cache, raised>>,
         \/ active' = active \cup {Top.stream} /\ broken' = broken /\ Top.at = "poll"
         \/ active' = active /\ broken' = broken \cup {Top.stream}
  PROVE  Kept'
<1> USE DEF Kept, Owed
<1>1. /\ StackOK'
      /\ stack' # <<>> => Waiting(Top')
      /\ Fns \subseteq Fns' \cup {"stream"}
  BY BelowOK
<1>2. stack' # <<>> => /\ Top'.at \notin Protected /\ Top'.at # "poll" /\ Top'.fn # "stream"
  BY <1>1 DEF Waiting, Protected
<1>3. FrameOK(Top) /\ Top.stream \in Streams /\ Top.of = {StreamSpec[Top.stream]}
      /\ Top \in Frames
  BY TopBelow DEF FrameOK
<1>4. /\ connected' = connected /\ handlers' = handlers /\ lines' = lines /\ last' = last
      /\ positions' = positions /\ pnl' = pnl /\ limited' = limited
      /\ contractOf' = contractOf /\ cache' = cache /\ month' = month /\ raised' = raised
      /\ asked' = asked
  BY DEF client
<1>5. /\ (active \cup broken)' = active \cup broken \cup {Top.stream}
      /\ active' \subseteq active \cup {Top.stream}
  OBVIOUS
<1>6. contractOf[Top.stream] = Top.has[StreamSpec[Top.stream]] /\ contractOf[Top.stream] # None
  <2>1. contractOf[Top.stream] = Top.has[StreamSpec[Top.stream]]
    BY DEF StreamsOK
  <2>2. QED BY <1>3, <2>1 DEF FrameOK, Protected, LineFns, Early
<1>7. KeptOK'
  BY <1>3, <1>4 DEF KeptOK
<1>8. StreamsOK'
  BY <1>2, <1>4, <1>5, <1>6 DEF StreamsOK
<1>9. ClientOK' /\ SubscriptionsOwed'
  BY <1>1, <1>4 DEF ClientOK, SubscriptionsOwed
<1>10. HandlersOwed'
  <2>1. Owner = Top.stream
    BY OwnerFacts DEF LineFns
  <2>2. handlers = active \cup broken \cup {Top.stream}
    BY <2>1 DEF HandlersOwed
  <2>3. QED BY <1>2, <1>4, <1>5, <2>2 DEF HandlersOwed
<1>11. LinesOwed'
  <2>1. ASSUME NEW c, TopHolds(c) \/ StreamHolds(c) PROVE StreamHolds(c)'
    <3>1. CASE TopHolds(c)
      <4>1. PICK p \in Top.of : c = Top.has[p]
        BY <3>1 DEF TopHolds, Mine
      <4>2. c = contractOf[Top.stream]
        BY <1>3, <1>6, <4>1
      <4>3. QED BY <1>4, <1>5, <4>2 DEF StreamHolds
    <3>2. CASE StreamHolds(c)
      BY <1>4, <1>5, <3>2 DEF StreamHolds
    <3>3. QED BY <2>1, <3>1, <3>2
  <2>2. QED BY <1>4, <2>1 DEF LinesOwed
<1>12. StreamsOpen'
  <2>1. SUFFICES ASSUME NEW s \in active' \cap asked, ~Shared(StreamSpec[s])
                 PROVE  lines[contractOf[s]] = 1
    BY <1>2, <1>4 DEF StreamsOpen
  <2>2. CASE s \in active
    BY <2>1, <2>2 DEF StreamsOpen
  <2>3. CASE s \notin active
    <3>1. s = Top.stream /\ Top.at = "poll"
      BY <1>5, <2>1, <2>3
    <3>2. QED BY <1>6, <2>1, <3>1 DEF StreamsOpen
  <2>4. QED BY <2>2, <2>3
<1>13. QED BY <1>1, <1>7, <1>8, <1>9, <1>10, <1>11, <1>12

LEMMA SubscribeKeeps ==
  ASSUME Kept, Subscribe
  PROVE  Kept'
<1> USE DEF Kept, Owed
<1>1. stack # <<>> /\ Top.fn \in AccountFns /\ Top.at = "begin"
  BY AtFacts DEF Subscribe
<1>2. /\ StackOK' /\ stack' # <<>> /\ Fns' = Fns
      /\ Top'.fn = Top.fn /\ Top'.at = "sleep"
  <2>1. "sleep" \in Stages /\ "sleep" \in AccountStages /\ Top.fn \notin LineFns
    BY <1>1 DEF Stages, AccountStages, AccountFns, LineFns
  <2>2. QED BY <1>1, <2>1, GoToOK DEF Subscribe
<1>3. Top.fn \in Fns /\ Top.fn # "stream" /\ Top.fn \notin Streaming
  BY <1>1, TopBelow DEF AccountFns, Streaming
<1>4. /\ connected' = connected /\ handlers' = handlers /\ lines' = lines /\ last' = last
      /\ active' = active /\ broken' = broken /\ contractOf' = contractOf /\ asked' = asked
      /\ cache' = cache /\ month' = month /\ raised' = raised /\ asked' = asked
  BY DEF Subscribe, Continue, streams
<1>5. /\ positions' = (positions \/ Top.fn = "positions")
      /\ pnl' = (pnl \/ Top.fn = "pnl")
      /\ limited' = (limited \/ Top.fn = "summary")
  BY DEF Subscribe
<1>6. KeptOK' /\ ClientOK'
  BY <1>4, <1>5 DEF KeptOK, ClientOK
<1>7. StreamsOK' /\ HandlersOwed'
  BY <1>1, <1>2, <1>3, <1>4 DEF StreamsOK, HandlersOwed, Protected
<1>8. SubscriptionsOwed'
  BY <1>2, <1>3, <1>5 DEF SubscriptionsOwed
<1>9. LinesOwed'
  BY <1>3, <1>4 DEF LinesOwed, TopHolds, StreamHolds
<1>10. StreamsOpen'
  BY <1>2, <1>3, <1>4 DEF StreamsOpen
<1>11. QED BY <1>2, <1>6, <1>7, <1>8, <1>9, <1>10

LEMMA PnlStepKeeps ==
  ASSUME Kept, PnlStep
  PROVE  Kept'
<1> USE DEF Kept
<1>1. PICK stage \in {"summary", "end"}, fn \in {"positions", "summary"} :
        /\ stack # <<>> /\ Top.fn = "pnl" /\ Top.at \in {"sleep", "summary"}
        /\ Enter(stage, fn, {})
  BY AtFacts DEF PnlStep
<1> DEFINE g == [Top EXCEPT !.at = stage]
           f == Frame(fn, {}, None)
<1>2. Top \in Frames /\ FrameOK(Top)
  BY <1>1, TopBelow
<1>3. /\ g \in Frames /\ g.fn = "pnl" /\ g.of = Top.of /\ g.has = Top.has
      /\ g.stream = Top.stream /\ g.at = stage /\ g.todo = Top.todo
  BY <1>1, <1>2 DEF Frames, Stages
<1>4. stack' = Append(Append(Below, g), f)
  BY <1>1 DEF Enter
<1>5. f \in Frames /\ FrameOK(f) /\ f.fn = fn /\ f.at = "connect"
  <2>1. fn \in AccountFns /\ fn \notin LineFns /\ fn # "stream"
    BY DEF AccountFns, LineFns
  <2>2. QED BY <2>1, NewFrame DEF Frame
<1> HIDE DEF g, f
<1>6. FrameOK(g) /\ Waiting(g)
  <2>1. g.todo \subseteq g.of /\ g.fn \in AccountFns /\ g.fn \notin LineFns
    BY <1>2, <1>3 DEF FrameOK, AccountFns, LineFns
  <2>2. FrameOK(g)
    BY <1>1, <1>2, <1>3, <2>1, MovedFrame
  <2>3. QED BY <1>3, <2>2 DEF Waiting
<1>7. StackOK' /\ stack' # <<>> /\ Top' = f /\ Fns \subseteq Fns'
  BY <1>1, <1>3, <1>4, <1>5, <1>6, EnterOK
<1>8. UNCHANGED <<client, streams>> /\ KeptOK'
  BY DEF PnlStep, Continue, KeptOK, streams
<1>9. QED BY <1>1, <1>5, <1>7, <1>8, QuietKeeps DEF Protected

\* A call, or the start of a stream, begins on an empty stack.
LEMMA NewCallKeeps ==
  ASSUME Kept, stack = <<>>, NEW f \in Frames, FrameOK(f), f.at = "connect",
         f.fn = "stream" => f.stream \notin active \cup broken,
         stack' = <<f>>, UNCHANGED <<client, streams, month, cache, raised>>
  PROVE  Kept'
<1> USE DEF Kept
<1>1. StackOK' /\ stack' # <<>> /\ Top' = f
  BY CallOK
<1>2. Fns = {}
  BY DEF Fns
<1>3. KeptOK'
  BY DEF KeptOK, streams
<1>4. QED BY <1>1, <1>2, <1>3, QuietKeeps DEF Protected

LEMMA CallKeeps ==
  ASSUME Kept, Call
  PROVE  Kept'
<1>1. stack = <<>> /\ UNCHANGED <<client, streams, month, cache, raised>>
  BY DEF Call
<1>2. PICK fn \in LineFns \cup AccountFns, of \in SUBSET Quoted :
        /\ stack' = <<Frame(fn, of, None)>> /\ fn # "stream"
        /\ (fn \in LineFns \ {"quotes"}) => \E p \in Quoted : of = {p}
  <2>1. CASE \E fn \in AccountFns : stack' = <<Frame(fn, {}, None)>>
    BY <2>1 DEF AccountFns, LineFns
  <2>2. CASE \E fn \in Polls \ {"quotes"}, p \in Quoted : stack' = <<Frame(fn, {p}, None)>>
    BY <2>2 DEF Polls
  <2>3. CASE \E of \in SUBSET Quoted \ {{}} : stack' = <<Frame("quotes", of, None)>>
    BY <2>3 DEF LineFns
  <2>4. QED BY <2>1, <2>2, <2>3 DEF Call
<1> DEFINE f == Frame(fn, of, None)
<1>3. f \in Frames /\ FrameOK(f) /\ f.fn # "stream" /\ f.at = "connect"
  <2>1. of \in SUBSET Specs /\ ((fn \in LineFns \ {"quotes"}) => \E p \in Specs : of = {p})
    BY <1>2, SpecAssumption
  <2>2. QED BY <1>2, <2>1, NewFrame
<1> HIDE DEF f
<1>4. stack' = <<f>>
  BY <1>2 DEF f
<1>5. QED BY <1>1, <1>3, <1>4, NewCallKeeps

LEMMA StartKeeps ==
  ASSUME Kept, NEW s \in Streams, Start(s)
  PROVE  Kept'
<1> DEFINE f == Frame("stream", {StreamSpec[s]}, s)
<1>1. /\ stack = <<>> /\ s \notin active \cup broken /\ stack' = <<f>>
      /\ UNCHANGED <<client, streams, month, cache, raised>>
  BY DEF Start
<1>2. /\ f \in Frames /\ FrameOK(f) /\ f.fn = "stream" /\ f.stream = s
      /\ f.at = "connect"
  <2>1. StreamSpec[s] \in Specs /\ "stream" \in LineFns
    BY StreamAssumption DEF LineFns
  <2>2. QED BY <2>1, NewFrame
<1> HIDE DEF f
<1>3. QED BY <1>1, <1>2, NewCallKeeps

\* A stream that is stopped gives back the handler and the line, if there is one.
LEMMA StopKeeps ==
  ASSUME Kept, NEW s \in Streams, Stop(s)
  PROVE  Kept'
<1> USE DEF Kept, Owed
<1>1. /\ stack = <<>> /\ stack' = <<>>
      /\ active' = active \ {s} /\ broken' = broken \ {s} /\ handlers' = handlers \ {s}
      /\ CancelLines({contractOf[s]})
      /\ connected' = connected /\ positions' = positions /\ pnl' = pnl /\ limited' = limited
      /\ contractOf' = contractOf /\ cache' = cache /\ month' = month /\ raised' = raised
      /\ asked' = asked
  BY DEF Stop
<1>2. /\ lines' \in [Contracts -> Nat] /\ last' \in [Contracts -> Requests]
      /\ \A c \in Contracts : last'[c] = "streaming" => lines'[c] > 0
      /\ \A c \in Contracts \ {contractOf[s]} : lines'[c] = lines[c] /\ last'[c] = last[c]
      /\ \A c \in Contracts :
           lines[c] = 1 /\ last[c] = "streaming" /\ c \in {contractOf[s]} => lines'[c] = 0
      /\ \A c \in Contracts : lines'[c] <= lines[c]
  BY <1>1, CancelFacts DEF LinesOwed
<1>3. StackOK' /\ Fns' = Fns
  BY <1>1 DEF StackOK, Fns
<1>4. KeptOK' /\ StreamsOK' /\ ClientOK' /\ SubscriptionsOwed'
  BY <1>1, <1>2, <1>3 DEF KeptOK, StreamsOK, ClientOK, SubscriptionsOwed
<1>5. HandlersOwed'
  BY <1>1 DEF HandlersOwed
<1>6. LinesOwed'
  <2>1. SUFFICES ASSUME NEW c \in Contracts, ~Shared(c[1]), lines'[c] > 0
                 PROVE  lines'[c] = 1 /\ last'[c] = "streaming" /\ StreamHolds(c)'
    BY <1>2 DEF LinesOwed
  <2>2. lines[c] = 1 /\ last[c] = "streaming" /\ StreamHolds(c)
    BY <1>1, <1>2, <2>1 DEF LinesOwed, ClientOK, TopHolds
  <2>3. c # contractOf[s]
    BY <1>2, <2>1, <2>2
  <2>4. QED BY <1>1, <1>2, <2>1, <2>2, <2>3 DEF StreamHolds
<1>7. StreamsOpen'
  <2>1. SUFFICES ASSUME NEW t \in (active \ {s}) \cap asked, ~Shared(StreamSpec[t])
                 PROVE  lines'[contractOf[t]] = 1
    BY <1>1 DEF StreamsOpen
  <2>2. /\ t \in Streams /\ contractOf[t] \in Contracts /\ contractOf[t] # None
        /\ contractOf[t][1] = StreamSpec[t]
    BY <2>1 DEF KeptOK, StreamsOK
  <2>3. contractOf[t] # contractOf[s]
    <3>1. SUFFICES ASSUME contractOf[t] = contractOf[s] PROVE FALSE
      OBVIOUS
    <3>2. StreamSpec[s] = StreamSpec[t]
      BY <2>2, <3>1 DEF StreamsOK
    <3>3. QED BY <2>1, <2>2, <3>2 DEF Shared
  <2>4. QED BY <1>2, <2>1, <2>2, <2>3 DEF StreamsOpen
<1>8. QED BY <1>3, <1>4, <1>5, <1>6, <1>7

\* The connection is lost, with every line, or there is a new client.
LEMMA ConnectionKeeps ==
  ASSUME Kept, Lose \/ NewClient
  PROVE  Kept'
<1> USE DEF Kept, Owed
<1>1. /\ lines' = [c \in Contracts |-> 0] /\ last' = [c \in Contracts |-> "none"]
      /\ stack' = stack /\ month' = month /\ cache' = cache /\ raised' = raised
      /\ positions' = FALSE /\ pnl' = FALSE /\ asked' = {}
  BY DEF Lose, NewClient
<1>2. StackOK' /\ Fns' = Fns /\ Top' = Top /\ Owner' = Owner
  BY <1>1 DEF StackOK, Fns, Top, Owner
<1>3. LinesOwed'
  BY <1>1 DEF LinesOwed
<1>4. CASE Lose
  <2>1. /\ connected' = FALSE /\ handlers' = handlers /\ limited' = limited /\ active' = active
        /\ broken' = broken /\ contractOf' = contractOf
    BY <1>4 DEF Lose
  <2>2. KeptOK' /\ StreamsOK' /\ HandlersOwed'
    BY <1>1, <1>2, <2>1 DEF KeptOK, StreamsOK, HandlersOwed
  <2>3. ClientOK' /\ SubscriptionsOwed' /\ StreamsOpen'
    BY <1>1, <1>2, <2>1 DEF ClientOK, SubscriptionsOwed, StreamsOpen, Requests
  <2>4. QED BY <1>2, <1>3, <2>2, <2>3
<1>5. CASE NewClient
  <2>1. /\ connected' = TRUE /\ handlers' = {} /\ limited' = FALSE /\ active' = {}
        /\ broken' = {} /\ contractOf' = [s \in Streams |-> None] /\ stack = <<>>
    BY <1>5 DEF NewClient
  <2>2. KeptOK' /\ StreamsOK' /\ HandlersOwed'
    BY <1>1, <2>1 DEF KeptOK, StreamsOK, HandlersOwed
  <2>3. ClientOK' /\ SubscriptionsOwed' /\ StreamsOpen'
    BY <1>1, <2>1 DEF ClientOK, SubscriptionsOwed, StreamsOpen, Requests
  <2>4. QED BY <1>2, <1>3, <2>2, <2>3
<1>6. QED BY <1>4, <1>5

\* The client is connected, again or still: what it holds stays as it is.
LEMMA EnsureConnectedKeeps ==
  ASSUME Kept, EnsureConnected
  PROVE  Kept'
<1> USE DEF Kept, Owed
<1>1. stack # <<>> /\ Top.fn \in LineFns \cup AccountFns /\ Top.at = "connect"
  BY AtFacts DEF EnsureConnected
<1> DEFINE next == IF Top.fn \in LineFns THEN "resolve" ELSE "begin"
           g == [Top EXCEPT !.at = next, !.todo = Top.of]
<1>2. Top \in Frames /\ FrameOK(Top)
  BY <1>1, TopBelow
<1>3. /\ g \in Frames /\ g.fn = Top.fn /\ g.of = Top.of /\ g.has = Top.has
      /\ g.stream = Top.stream /\ g.at = next /\ g.todo = Top.of
  BY <1>2 DEF Frames, Stages
<1>4. With(g)
  BY DEF EnsureConnected, GoTo
<1> HIDE DEF g
<1>5. FrameOK(g)
  BY <1>1, <1>2, <1>3 DEF FrameOK, Early, LineFns, AccountFns
<1>6. StackOK' /\ stack' # <<>> /\ Top' = g /\ Fns' = Fns
  BY <1>1, <1>2, <1>3, <1>4, <1>5, WithOK
<1>7. /\ connected' = TRUE /\ handlers' = handlers /\ lines' = lines /\ last' = last
      /\ positions' = positions /\ pnl' = pnl /\ limited' = limited
      /\ active' = active /\ broken' = broken /\ contractOf' = contractOf /\ asked' = asked
      /\ cache' = cache /\ month' = month /\ raised' = raised
  BY DEF EnsureConnected, Continue, streams
<1>8. Top'.at \notin Protected /\ Top'.at # "poll"
  BY <1>3, <1>6 DEF Protected
<1>9. KeptOK' /\ ClientOK' /\ SubscriptionsOwed'
  BY <1>6, <1>7 DEF KeptOK, ClientOK, SubscriptionsOwed
<1>10. StreamsOK'
  BY <1>1, <1>3, <1>6, <1>7, <1>8 DEF StreamsOK
<1>11. HandlersOwed'
  BY <1>1, <1>7, <1>8 DEF HandlersOwed, Protected
<1>12. LinesOwed'
  BY <1>1, <1>7 DEF LinesOwed, TopHolds, StreamHolds
<1>13. StreamsOpen'
  BY <1>7, <1>8 DEF StreamsOpen
<1>14. QED BY <1>6, <1>9, <1>10, <1>11, <1>12, <1>13

\* A step of the stack's exceptions, or of time, that owes nothing.
LEMMA AsideKeeps ==
  ASSUME Kept, UNCHANGED <<client, streams, stack, cache>>,
         month' \in Months, raised' \in Errors \cup {"none"}
  PROVE  Kept'
<1> USE DEF Kept, Owed
<1>1. /\ connected' = connected /\ handlers' = handlers /\ lines' = lines /\ last' = last
      /\ positions' = positions /\ pnl' = pnl /\ limited' = limited
      /\ active' = active /\ broken' = broken /\ contractOf' = contractOf /\ asked' = asked
      /\ stack' = stack /\ cache' = cache
  BY DEF client, streams
<1>2. StackOK' /\ Fns' = Fns /\ Top' = Top /\ Owner' = Owner /\ Mine' = Mine
  BY <1>1 DEF StackOK, Fns, Top, Owner, Mine
<1>3. KeptOK' /\ StreamsOK' /\ ClientOK' /\ HandlersOwed' /\ SubscriptionsOwed'
  BY <1>1, <1>2 DEF KeptOK, StreamsOK, ClientOK, HandlersOwed, SubscriptionsOwed
<1>4. LinesOwed' /\ StreamsOpen'
  BY <1>1, <1>2 DEF LinesOwed, TopHolds, StreamHolds, StreamsOpen
<1>5. QED BY <1>2, <1>3, <1>4

LEMMA AnsweredOK ==
  ASSUME StackOK, AnswerOK, stack # <<>>, Top.fn \in LineFns, Top.at = "poll", Answered
  PROVE  AnswerOK'
<1>1. Top \in Frames /\ FrameOK(Top)
  BY TopBelow
<1>2. CASE Top.fn \in {"quote", "quotes"}
  <2>1. answer' = [of |-> Top.of, has |-> Top.has]
    BY <1>2 DEF Answered
  <2>2. answer'.of = Top.of /\ answer'.has = Top.has
    BY <2>1
  <2>3. \A p \in Top.of : Alone(p, Top.of) => Top.has[p][1] = p
    BY <1>1 DEF FrameOK, Early
  <2>4. QED BY <1>1, <2>2, <2>3, FrameFields DEF AnswerOK
<1>3. CASE Top.fn \notin {"quote", "quotes"}
  BY <1>3 DEF Answered, AnswerOK
<1>4. QED BY <1>2, <1>3

\* The steps with which a frame leaves the stack.
LEMMA EndsKeep ==
  ASSUME FeedsInv,
         \/ ConnectFails \/ ResolveFails \/ RequestFails \/ Data \/ PollFails \/ TimeOut \/ StartFails
         \/ AccountDone \/ AccountFails \/ Unwind
         \/ At({"chain"}, "quoted") /\ (\E e \in {"none", "data", "other"} : Leave(e))
              /\ UNCHANGED answer
  PROVE  FeedsInv'
<1> USE DEF FeedsInv
<1>1. PICK e \in Errors \cup {"none"} :
        /\ stack # <<>> /\ LeaveStack(e) /\ connected' \in BOOLEAN
        /\ answer' = answer \/ (Top.fn \in LineFns /\ Top.at = "poll" /\ Answered)
  <2> USE AtFacts DEF Errors, Polls, Leave
  <2>0. connected \in BOOLEAN
    BY DEF Owed, ClientOK
  <2>1. CASE ResolveFails
    BY <2>0, <2>1 DEF ResolveFails
  <2>2. CASE RequestFails
    BY <2>0, <2>2 DEF RequestFails
  <2>3. CASE Data
    BY <2>0, <2>3 DEF Data
  <2>4. CASE PollFails
    BY <2>0, <2>4 DEF PollFails, PollErrors
  <2>5. CASE TimeOut
    BY <2>0, <2>5 DEF TimeOut
  <2>6. CASE StartFails
    BY <2>0, <2>6 DEF StartFails
  <2>7. CASE AccountDone
    BY <2>0, <2>7 DEF AccountDone
  <2>8. CASE AccountFails
    BY <2>0, <2>8 DEF AccountFails
  <2>9. CASE Unwind
    BY <2>0, <2>9 DEF Unwind, KeptOK
  <2>10. CASE /\ At({"chain"}, "quoted") /\ (\E e \in {"none", "data", "other"} : Leave(e))
              /\ UNCHANGED answer
    BY <2>0, <2>10
  <2>11. CASE ConnectFails
    BY <2>11 DEF ConnectFails
  <2>12. QED BY <2>1, <2>2, <2>3, <2>4, <2>5, <2>6, <2>7, <2>8, <2>9, <2>10, <2>11
<1>2. AnswerOK'
  BY <1>1, AnsweredOK DEF AnswerOK
<1>3. Kept'
  BY <1>1, LeaveKeeps DEF Kept
<1>4. QED BY <1>2, <1>3 DEF Kept

LEMMA FeedsInit == Init => FeedsInv
<1> SUFFICES ASSUME Init PROVE FeedsInv
  OBVIOUS
<1>1. StackOK /\ Fns = {}
  BY DEF Init, StackOK, Fns
<1>2. KeptOK
  BY RollAssumption DEF Init, KeptOK, Months
<1>3. StreamsOK /\ ClientOK /\ AnswerOK
  BY DEF Init, StreamsOK, ClientOK, AnswerOK, Requests
<1>4. HandlersOwed /\ SubscriptionsOwed /\ LinesOwed /\ StreamsOpen
  BY DEF Init, HandlersOwed, SubscriptionsOwed, LinesOwed, StreamsOpen
<1>5. QED BY <1>1, <1>2, <1>3, <1>4 DEF FeedsInv, Owed

LEMMA FeedsNext ==
  ASSUME FeedsInv, Next
  PROVE  FeedsInv'
<1> USE DEF FeedsInv
<1>0. Kept
  BY DEF Kept
<1>1. ASSUME Kept', answer' = answer PROVE FeedsInv'
  BY <1>1 DEF Kept, AnswerOK
<1>2. CASE Resolve
  BY <1>0, <1>1, <1>2, ResolveKeeps DEF Resolve, Continue
<1>3. CASE Quote
  <2>1. CASE At({"greeks"}, "quoted") /\ GoTo("register") /\ UNCHANGED <<client, cache>> /\ Continue
    BY <1>0, <1>1, <2>1, GreeksKeeps DEF Continue
  <2>2. CASE /\ At({"chain"}, "quoted") /\ (\E e \in {"none", "data", "other"} : Leave(e))
             /\ UNCHANGED answer
    BY <2>2, EndsKeep
  <2>3. QED BY <1>3, <2>1, <2>2 DEF Quote
<1>4. CASE AddHandler
  BY <1>0, <1>1, <1>4, AddHandlerKeeps DEF AddHandler
<1>5. CASE RequestLine
  BY <1>0, <1>1, <1>5, RequestLineKeeps DEF RequestLine, Continue
<1>6. CASE StartBreaks
  BY <1>0, <1>1, <1>6, StartEndsKeeps, AtFacts DEF StartBreaks, Protected
<1>7. CASE Started
  BY <1>0, <1>1, <1>7, StartEndsKeeps, AtFacts DEF Started, Protected
<1>8. CASE Subscribe
  BY <1>0, <1>1, <1>8, SubscribeKeeps DEF Subscribe, Continue
<1>9. CASE PnlStep
  BY <1>0, <1>1, <1>9, PnlStepKeeps DEF PnlStep, Continue
<1>10. CASE Catch
  BY <1>0, <1>1, <1>10, AsideKeeps DEF Catch, KeptOK
<1>11. CASE Roll
  <2>1. month' \in Months
    BY <1>11, RollAssumption DEF Roll, KeptOK, Months
  <2>2. QED BY <1>0, <1>1, <1>11, <2>1, AsideKeeps DEF Roll, KeptOK
<1>12. CASE Call
  BY <1>0, <1>1, <1>12, CallKeeps DEF Call
<1>13. CASE Lose \/ NewClient
  BY <1>0, <1>1, <1>13, ConnectionKeeps DEF Lose, NewClient
<1>14. ASSUME NEW s \in Streams, Start(s) PROVE FeedsInv'
  BY <1>0, <1>1, <1>14, StartKeeps DEF Start
<1>15. ASSUME NEW s \in Streams, Stop(s) PROVE FeedsInv'
  BY <1>0, <1>1, <1>15, StopKeeps DEF Stop
<1>16. CASE EnsureConnected
  BY <1>0, <1>1, <1>16, EnsureConnectedKeeps DEF EnsureConnected, Continue
<1>17. QED
  BY <1>2, <1>3, <1>4, <1>5, <1>6, <1>7, <1>8, <1>9, <1>10, <1>11, <1>12, <1>13, <1>14, <1>15,
     <1>16, EndsKeep DEF Next, Step

LEMMA FeedsInvHolds == Spec => []FeedsInv
<1>1. FeedsInv /\ UNCHANGED feedsVars => FeedsInv'
  <2> SUFFICES ASSUME FeedsInv, UNCHANGED feedsVars PROVE FeedsInv'
    OBVIOUS
  <2>1. UNCHANGED <<client, streams, stack, cache>> /\ month' = month /\ raised' = raised
        /\ answer' = answer
    BY DEF feedsVars
  <2>2. Kept'
    BY <2>1, AsideKeeps DEF FeedsInv, Kept, KeptOK
  <2>3. QED BY <2>1, <2>2 DEF FeedsInv, Kept, AnswerOK
<1>2. FeedsInv /\ [Next]_feedsVars => FeedsInv'
  BY <1>1, FeedsNext
<1>3. QED BY <1>2, FeedsInit, PTL DEF Spec

(***************************************************************************)
(* What the calls promise                                                  *)
(***************************************************************************)

\* The frames and what the client holds keep their types: no line is cancelled more
\* often than it was asked for.
THEOREM FeedsTypeCorrect == Spec => []TypeOK
<1>1. FeedsInv => TypeOK
  <2> SUFFICES ASSUME FeedsInv PROVE TypeOK
    OBVIOUS
  <2> USE DEF FeedsInv, Owed
  <2>1. \A i \in 1 .. Len(stack) : stack[i] \in Frames
    BY ElementOfSeq DEF StackOK
  <2>2. handlers \subseteq LineFns \cup Streams
    BY ProtectedFacts, OwnerFacts DEF HandlersOwed, KeptOK
  <2>3. QED BY <2>1, <2>2 DEF TypeOK, KeptOK, ClientOK, AnswerOK
<1>2. QED BY <1>1, FeedsInvHolds, PTL

\* However a call ends, by whichever exception of whichever call inside it, nothing
\* is left of it but what the streams hold that run or whose start broke off.
THEOREM CallsGiveBack == Spec => []NothingLeftOpen
<1>1. FeedsInv => NothingLeftOpen
  <2> SUFFICES ASSUME FeedsInv, stack = <<>>
               PROVE  /\ handlers = active \cup broken
                      /\ ~positions /\ ~pnl /\ ~limited
                      /\ \A c \in Contracts : ~Shared(c[1]) =>
                           lines[c] <= Cardinality({s \in active \cup broken : contractOf[s] = c})
    BY DEF NothingLeftOpen
  <2> USE DEF FeedsInv, Owed
  <2>1. handlers = active \cup broken
    BY DEF HandlersOwed
  <2>2. ~positions /\ ~pnl /\ ~limited
    BY DEF SubscriptionsOwed, Fns
  <2>3. ASSUME NEW c \in Contracts, ~Shared(c[1])
        PROVE  lines[c] <= Cardinality({s \in active \cup broken : contractOf[s] = c})
    <3> DEFINE S == {s \in active \cup broken : contractOf[s] = c}
    <3>1. lines[c] \in Nat /\ lines[c] <= 1
      BY <2>3 DEF LinesOwed, ClientOK
    <3>2. CASE S = {}
      <4>1. lines[c] = 0
        BY <2>3, <3>1, <3>2 DEF LinesOwed, TopHolds, StreamHolds
      <4>2. Cardinality(S) = 0
        BY <3>2, FS_EmptySet
      <4>3. QED BY <4>1, <4>2
    <3>3. CASE S # {}
      <4>1. PICK s \in S : TRUE
        BY <3>3
      <4>2. \A t \in S : t \in Streams /\ StreamSpec[t] = c[1]
        BY NoneAssumption DEF KeptOK, StreamsOK
      <4>3. S = {s}
        BY <2>3, <4>1, <4>2 DEF Shared
      <4>4. Cardinality(S) = 1
        BY <4>3, FS_Singleton
      <4>5. QED BY <3>1, <4>4
    <3>4. QED BY <3>2, <3>3
  <2>4. QED BY <2>1, <2>2, <2>3
<1>2. QED BY <1>1, FeedsInvHolds, PTL

\* As long as the connection lasts on which an active stream asked for its line, nobody
\* cancels it but its stop, unless somebody else asks for its instrument on the client.
THEOREM StreamsKept == Spec => []StreamsStayOpen
<1>1. FeedsInv => StreamsStayOpen
  BY DEF FeedsInv, Owed, StreamsOpen, StreamsStayOpen
<1>2. QED BY <1>1, FeedsInvHolds, PTL

\* Every quote has the data of its instrument, whatever the cache holds and whichever
\* months pass, unless another instrument of the call has its symbol.
THEOREM QuotesAreRight == Spec => []RightInstrument
<1>1. FeedsInv => RightInstrument
  BY DEF FeedsInv, AnswerOK, Alone, RightInstrument
<1>2. QED BY <1>1, FeedsInvHolds, PTL
=============================================================================
