------------------------------ MODULE Approval ------------------------------
(***************************************************************************)
(* The approval store (mcp_server/telegram/approval.py), the Telegram bot  *)
(* that resolves its records (bot.py) and the tools of mcp_server/main.py  *)
(* that request, poll and consume them.                                    *)
(*                                                                         *)
(* A server process runs its coroutines on one asyncio loop.  What a       *)
(* coroutine does between two awaits is a SECTION: no other coroutine of   *)
(* the same server runs meanwhile, but another server that shares the      *)
(* SQLite file may, between two transactions of the section.  The steps of *)
(* this module are those transactions; Free(s) says that no coroutine of s *)
(* is inside a section.                                                    *)
(*                                                                         *)
(* Times are ages: how long ago a pending record was requested, or an      *)
(* approved one resolved.  The code only compares an age with its limit,   *)
(* so it saturates one past that.                                          *)
(***************************************************************************)
EXTENDS Naturals, Sequences

CONSTANTS
  Approvals,        \* approval ids (uuid4: each is created once)
  Calls,            \* slots for concurrent tool calls
  Servers,          \* server processes that share one database
  ServerOf,         \* ServerOf[c]: the server that runs call c
  ClientIds,        \* the clientOrderId of an order
  Params,           \* what else an order says (symbol, side, quantity, type)
  Intents,          \* persisted trade intents
  Live, Paper,      \* the two environments
  Timeout,          \* Timeout[t]: how long a request of type t stays pending
  UnusedExpiry,     \* approved_unused_expiry_seconds
  WaitLimit,        \* how long a request tool polls before it answers
  MaxTaps,          \* bound on the operator's button presses
  NoApproval,       \* "no approval"
  NoGoal            \* "no request"

Types == {"trade", "trade_intent", "environment_change"}
Order == [coid : ClientIds, params : Params]
Envs == {Live, Paper}

\* What a request of each type is about.
SubjectsOf(t) ==
  CASE t = "trade" -> Order
    [] t = "trade_intent" -> Intents
    [] t = "environment_change" -> Envs

Goals == UNION {[type : {t}, subject : SubjectsOf(t)] : t \in Types}

ASSUME ServerAssumption == ServerOf \in [Calls -> Servers]
ASSUME TimeAssumption ==
  /\ Timeout \in [Types -> Nat]
  /\ UnusedExpiry \in Nat /\ WaitLimit \in Nat /\ MaxTaps \in Nat

VARIABLES
  \* table approvals
  status,           \* status[a]; "none" before the record is inserted
  request,          \* request[a]: the type and request_data of a
  age,              \* age[a]: time since requested_at, since resolved_at once approved
  \* Telegram
  buttons,          \* the approvals whose message still shows its two buttons
  updates,          \* button presses the bot has not yet handled, oldest first
  taps,             \* how many presses the operator has made
  \* server processes
  mode,             \* MCP_ORDER_APPROVAL_MODE
  pc,               \* pc[c]: where tool call c is
  appr,             \* appr[c]: the approval call c works on
  goal,             \* goal[c]: what call c acts on
  waited,           \* waited[c]: how long c has polled
  \* files and the broker, as far as the consumers change them
  locked,           \* control.json disables orders
  env,              \* the environment config.json points at
  performed,        \* orders and intents handed to the broker
  \* history
  grants,           \* grants[a]: Approve taps and auto-approvals of a
  uses,             \* uses[a]: how often a call went on to act on a
  verdict           \* verdict[a]: the last answer about a that was recorded

store == <<status, request, age>>
telegram == <<buttons, updates, taps>>
call == <<pc, appr, goal, waited>>
effects == <<locked, env, performed>>
history == <<grants, uses, verdict>>
vars == <<store, telegram, mode, call, effects, history>>

Statuses == {"none", "pending", "approved", "denied", "expired", "used"}
Verdicts == {"approved", "denied"}

Init ==
  /\ status = [a \in Approvals |-> "none"]
  /\ request = [a \in Approvals |-> NoGoal]
  /\ age = [a \in Approvals |-> 0]
  /\ buttons = {} /\ updates = << >> /\ taps = 0
  /\ mode \in {"telegram", "yolo"}
  /\ pc = [c \in Calls |-> "idle"]
  /\ appr = [c \in Calls |-> NoApproval]
  /\ goal = [c \in Calls |-> NoGoal]
  /\ waited = [c \in Calls |-> 0]
  /\ locked = TRUE /\ env = Paper /\ performed = {}
  /\ grants = [a \in Approvals |-> 0]
  /\ uses = [a \in Approvals |-> 0]
  /\ verdict = [a \in Approvals |-> "none"]

InSection(c) == pc[c] \in {"fetching", "validated", "locking", "switching"}
Free(s) == \A c \in Calls : ServerOf[c] = s => ~InSection(c)
CanStart(c) == pc[c] = "idle" /\ Free(ServerOf[c])

(***************************************************************************)
(* approval.py                                                             *)
(***************************************************************************)

\* expires_at for a pending record, the unused window for an approved one.
Limit(a) ==
  IF status[a] = "pending" THEN Timeout[request[a].type] ELSE UnusedExpiry

\* Mutant: the second category of _expire_stale is missing.
StalePendingOnly(a) == status[a] = "pending" /\ age[a] > Limit(a)

Stale(a) == status[a] \in {"pending", "approved"} /\ age[a] > Limit(a)

SweptStatus == [a \in Approvals |-> IF Stale(a) THEN "expired" ELSE status[a]]

\* Every reader sweeps the whole table before it looks at a row.
ExpireStale ==
  /\ status' = SweptStatus
  /\ age' = [a \in Approvals |-> IF Stale(a) THEN 0 ELSE age[a]]
  /\ UNCHANGED request

\* Writes status and resolved_at, whatever the record's status was.
SetStatus(a, s) ==
  /\ status' = [status EXCEPT ![a] = s]
  /\ age' = [age EXCEPT ![a] = 0]

\* uuid4: the id is fresh, and which fresh id it is does not matter.
FreshId == CHOOSE a \in Approvals : status[a] = "none"

Insert(a, g, s) ==
  /\ status[a] = "none" /\ a = FreshId
  /\ SetStatus(a, s)
  /\ request' = [request EXCEPT ![a] = g]

Enter(c, step, a, g) ==
  /\ pc' = [pc EXCEPT ![c] = step]
  /\ appr' = [appr EXCEPT ![c] = a]
  /\ goal' = [goal EXCEPT ![c] = g]
  /\ waited' = [waited EXCEPT ![c] = 0]

Return(c) == Enter(c, "idle", NoApproval, NoGoal)

Goto(c, step) ==
  /\ pc' = [pc EXCEPT ![c] = step]
  /\ UNCHANGED <<appr, goal, waited>>

Grant(a) ==
  /\ grants' = [grants EXCEPT ![a] = @ + 1]
  /\ verdict' = [verdict EXCEPT ![a] = "approved"]
  /\ UNCHANGED uses

(***************************************************************************)
(* The request tools: trade, trade intent and environment change.          *)
(***************************************************************************)

\* Mutant: the message is built before the tool knows the record's id.
RequestApprovalWithoutId(c, a, g) ==
  /\ mode = "telegram"
  /\ CanStart(c)
  /\ Insert(a, g, "pending")
  /\ Enter(c, "sending", NoApproval, NoGoal)
  /\ UNCHANGED <<telegram, mode, effects, history>>

\* Insert the pending record, then await the Telegram message.
RequestApproval(c, a, g) ==
  /\ mode = "telegram"
  /\ CanStart(c)
  /\ Insert(a, g, "pending")
  /\ Enter(c, "sending", a, NoGoal)
  /\ UNCHANGED <<telegram, mode, effects, history>>

\* The message reached the chat or it did not; either way the tool polls on.
SendDone(c, delivered) ==
  /\ pc[c] = "sending" /\ Free(ServerOf[c])
  /\ buttons' = IF delivered THEN buttons \cup {appr[c]} ELSE buttons
  /\ Goto(c, "waiting")
  /\ UNCHANGED <<store, updates, taps, mode, effects, history>>

\* One turn of _wait_for_approval_resolution; the tool answers with what it
\* read, or with the still pending record once the limit is reached.
WaitPoll(c) ==
  /\ pc[c] = "waiting" /\ Free(ServerOf[c])
  /\ ExpireStale
  /\ IF status'[appr[c]] # "pending" \/ waited[c] >= WaitLimit
       THEN Return(c) ELSE UNCHANGED call
  /\ UNCHANGED <<telegram, mode, effects, history>>

\* The MCP client cancels the request: the tool is left at its await and answers
\* nobody, the record stays, and the message on its way arrives or does not.  (For
\* the consumers this is ExecuteDone and EnvDone: what they await goes on.)
ClientCancels(c, delivered) ==
  /\ pc[c] \in {"sending", "waiting"} /\ Free(ServerOf[c])
  /\ buttons' = IF pc[c] = "sending" /\ delivered THEN buttons \cup {appr[c]} ELSE buttons
  /\ Return(c)
  /\ UNCHANGED <<store, updates, taps, mode, effects, history>>

\* yolo: insert and approve in one section, then read the record back.
RequestAutoApproval(c, a, g) ==
  /\ mode = "yolo"
  /\ CanStart(c)
  /\ Insert(a, g, "approved")
  /\ Grant(a)
  /\ Enter(c, "fetching", a, NoGoal)
  /\ UNCHANGED <<telegram, mode, effects>>

FetchResolved(c) ==
  /\ pc[c] = "fetching"
  /\ ExpireStale
  /\ Return(c)
  /\ UNCHANGED <<telegram, mode, effects, history>>

\* check_approval_status, and every consumer whose validation fails.
CheckApprovalStatus(c) ==
  /\ CanStart(c)
  /\ ExpireStale
  /\ UNCHANGED <<telegram, mode, call, effects, history>>

(***************************************************************************)
(* The operator and the bot                                                *)
(***************************************************************************)

Tap(a, v) ==
  /\ a \in buttons /\ taps < MaxTaps
  /\ taps' = taps + 1
  /\ updates' = Append(updates, [approval |-> a, verdict |-> v])
  /\ UNCHANGED <<store, buttons, mode, call, effects, history>>

\* query.answer() failed: the handler is left before it writes anything.
DropTap(s) ==
  /\ Free(s) /\ updates # << >>
  /\ updates' = Tail(updates)
  /\ UNCHANGED <<store, buttons, taps, mode, call, effects, history>>

RecordVerdict(edited) ==
  LET u == Head(updates) IN
  /\ updates # << >>
  /\ updates' = Tail(updates)
  /\ SetStatus(u.approval, u.verdict)
  /\ IF u.verdict = "approved"
       THEN Grant(u.approval)
       ELSE /\ verdict' = [verdict EXCEPT ![u.approval] = "denied"]
            /\ UNCHANGED <<grants, uses>>
  /\ buttons' = IF edited THEN buttons \ {u.approval} ELSE buttons
  /\ UNCHANGED <<request, taps, mode, call, effects>>

\* Mutant: the callback may run in the middle of another coroutine's section.
HandleTapAnytime(s, edited) == RecordVerdict(edited)

\* _on_callback: the status is written unconditionally; the edit that removes
\* the buttons may fail, and a second press may already be queued.
HandleTap(s, edited) ==
  /\ Free(s)
  /\ RecordVerdict(edited)

(***************************************************************************)
(* The consumers                                                           *)
(***************************************************************************)

Approved(t) ==
  {a \in Approvals : SweptStatus[a] = "approved" /\ request[a].type = t}

Latest(S) == {a \in S : \A b \in S : age[a] <= age[b]}

ByClientId(o) ==
  Latest({a \in Approved("trade") : request[a].subject.coid = o.coid})
ByParams(o) ==
  Latest({a \in Approved("trade") : request[a].subject.params = o.params})

\* place_order without an approval_id.
AutoResolved(o) == IF ByClientId(o) # {} THEN ByClientId(o) ELSE ByParams(o)

\* place_order and submit_trade_intent: validation finds an approved record,
\* the one the caller named (any of the type) or the one that matches.
ValidateApproval(c, a, g) ==
  /\ mode = "telegram"
  /\ CanStart(c)
  /\ \/ a \in Approved(g.type)
     \/ g.type = "trade" /\ a \in AutoResolved(g.subject)
  /\ g.type # "environment_change"
  /\ ExpireStale
  /\ Enter(c, "validated", a, g)
  /\ UNCHANGED <<telegram, mode, effects, history>>

Use(a) ==
  /\ uses' = [uses EXCEPT ![a] = @ + 1]
  /\ UNCHANGED <<grants, verdict>>

ConsumeIfApproved(a) ==
  /\ IF status[a] = "approved" THEN SetStatus(a, "used")
     ELSE UNCHANGED <<status, age>>
  /\ UNCHANGED request

\* Mutant: the approval is acted on and left approved.
MarkUsedForgotten(c) ==
  /\ pc[c] = "validated"
  /\ Use(appr[c])
  /\ Goto(c, "executing")
  /\ UNCHANGED <<store, telegram, mode, effects>>

\* mark_used, then the broker call is awaited.  Nobody looks at the row count.
MarkUsed(c) ==
  /\ pc[c] = "validated"
  /\ ConsumeIfApproved(appr[c])
  /\ Use(appr[c])
  /\ Goto(c, "executing")
  /\ UNCHANGED <<telegram, mode, effects>>

\* yolo: no approval gate.
ExecuteUngated(c, g) ==
  /\ mode = "yolo" /\ g.type # "environment_change"
  /\ CanStart(c)
  /\ Enter(c, "executing", NoApproval, g)
  /\ UNCHANGED <<store, telegram, mode, effects, history>>

\* The broker call ends: placed, or simulated, refused or timed out.
ExecuteDone(c, placed) ==
  /\ pc[c] = "executing" /\ Free(ServerOf[c])
  /\ performed' = IF placed THEN performed \cup {goal[c]} ELSE performed
  /\ Return(c)
  /\ UNCHANGED <<store, telegram, mode, locked, env, history>>

\* execute_environment_change, in one section up to its only await: check the
\* approval and write the safety lock, ...
EnvBegin(c, a, e) ==
  /\ CanStart(c)
  /\ a \in Approved("environment_change") /\ request[a].subject = e
  /\ ExpireStale
  /\ locked' = TRUE
  /\ Enter(c, "locking", a, [type |-> "environment_change", subject |-> e])
  /\ UNCHANGED <<telegram, mode, env, performed, history>>

\* ... point config.json at the new environment, ...
EnvSwitch(c) ==
  /\ pc[c] = "locking"
  /\ env' = goal[c].subject
  /\ Goto(c, "switching")
  /\ UNCHANGED <<store, telegram, mode, locked, performed, history>>

\* ... and consume the approval; invalidate_client is awaited after that.
EnvConsume(c) ==
  /\ pc[c] = "switching"
  /\ ConsumeIfApproved(appr[c])
  /\ Use(appr[c])
  /\ Goto(c, "disconnecting")
  /\ UNCHANGED <<telegram, mode, effects>>

EnvDone(c) ==
  /\ pc[c] = "disconnecting" /\ Free(ServerOf[c])
  /\ Return(c)
  /\ UNCHANGED <<store, telegram, mode, effects, history>>

\* Mutant: the admin tool writes while another coroutine is in its section.
AdminUnlockAnytime(c) ==
  /\ locked' = FALSE
  /\ UNCHANGED <<store, telegram, mode, call, env, performed, history>>

\* admin_update_trading_control enables orders again.
AdminUnlock(c) ==
  /\ CanStart(c)
  /\ locked' = FALSE
  /\ UNCHANGED <<store, telegram, mode, call, env, performed, history>>

(***************************************************************************)
(* Time and crashes                                                        *)
(***************************************************************************)

Tick ==
  /\ age' = [a \in Approvals |->
               IF status[a] \in {"pending", "approved"} /\ ~Stale(a)
                 THEN age[a] + 1 ELSE age[a]]
  /\ waited' = [c \in Calls |->
                  IF pc[c] = "waiting" /\ waited[c] < WaitLimit
                    THEN waited[c] + 1 ELSE waited[c]]
  /\ UNCHANGED <<status, request, telegram, mode, pc, appr, goal, effects, history>>

\* A server dies and starts again: its calls are gone, the table stays, and the
\* bot drops the presses it missed.  A bot that fails to start (or stops) only
\* takes RequestApproval, DropTap and HandleTap away.
Restart(s) ==
  /\ pc' = [c \in Calls |-> IF ServerOf[c] = s THEN "idle" ELSE pc[c]]
  /\ appr' = [c \in Calls |-> IF ServerOf[c] = s THEN NoApproval ELSE appr[c]]
  /\ goal' = [c \in Calls |-> IF ServerOf[c] = s THEN NoGoal ELSE goal[c]]
  /\ waited' = [c \in Calls |-> IF ServerOf[c] = s THEN 0 ELSE waited[c]]
  /\ updates' = << >>
  /\ UNCHANGED <<store, buttons, taps, mode, effects, history>>

RequestStep(c) ==
  \/ \E a \in Approvals, g \in Goals :
       RequestApproval(c, a, g) \/ RequestAutoApproval(c, a, g)
  \/ \E delivered \in BOOLEAN : SendDone(c, delivered) \/ ClientCancels(c, delivered)
  \/ WaitPoll(c) \/ FetchResolved(c) \/ CheckApprovalStatus(c)

ConsumeStep(c) ==
  \/ \E a \in Approvals, g \in Goals : ValidateApproval(c, a, g)
  \/ \E g \in Goals : ExecuteUngated(c, g)
  \/ MarkUsed(c)
  \/ \E placed \in BOOLEAN : ExecuteDone(c, placed)
  \/ \E a \in Approvals, e \in Envs : EnvBegin(c, a, e)
  \/ EnvSwitch(c) \/ EnvConsume(c) \/ EnvDone(c) \/ AdminUnlock(c)

ServerStep(s) ==
  \/ DropTap(s)
  \/ \E edited \in BOOLEAN : HandleTap(s, edited)
  \/ Restart(s)

Next ==
  \/ \E c \in Calls : RequestStep(c) \/ ConsumeStep(c)
  \/ \E s \in Servers : ServerStep(s)
  \/ \E a \in Approvals, v \in Verdicts : Tap(a, v)
  \/ Tick

Spec == Init /\ [][Next]_vars

(***************************************************************************)
(* Properties                                                              *)
(***************************************************************************)

\* The types of the variables.
TypeOK ==
  /\ status \in [Approvals -> Statuses]
  /\ request \in [Approvals -> Goals \cup {NoGoal}]
  /\ age \in [Approvals -> Nat]
  /\ buttons \subseteq Approvals
  /\ updates \in Seq([approval : Approvals, verdict : Verdicts])
  /\ taps \in 0 .. MaxTaps
  /\ mode \in {"telegram", "yolo"}
  /\ pc \in [Calls -> {"idle", "sending", "waiting", "fetching", "validated",
                        "locking", "switching", "executing", "disconnecting"}]
  /\ appr \in [Calls -> Approvals \cup {NoApproval}]
  /\ goal \in [Calls -> Goals \cup {NoGoal}]
  /\ waited \in [Calls -> 0 .. WaitLimit]
  /\ locked \in BOOLEAN /\ env \in Envs /\ performed \subseteq Goals
  /\ grants \in [Approvals -> Nat]
  /\ uses \in [Approvals -> Nat]
  /\ verdict \in [Approvals -> Verdicts \cup {"none"}]

\* mark_used "prevents replay" (approval.py:176): every action taken on the
\* strength of an approval is paid for by an approval of its own, whatever the
\* order of taps, polls, sweeps, concurrent consumers and restarts.
UsesBackedByGrants == \A a \in Approvals : uses[a] <= grants[a]

\* A tool never acts on an approval after the bot has recorded a denial of it:
\* validation and consumption share a section with no callback in between.
DenyIsRespected ==
  [][\A a \in Approvals : uses'[a] # uses[a] => verdict[a] = "approved"]_vars

AcceptsFreshOnly ==
  \A c \in Calls :
    (pc[c] = "idle" /\ pc'[c] \in {"validated", "locking"})
      => age[appr'[c]] <= UnusedExpiry

\* Expiry is lazy (a stale row keeps saying approved until somebody sweeps), and
\* still no consumer accepts an approval older than the unused window.
ValidatedWithinWindow == [][AcceptsFreshOnly]_vars

\* config.json is pointed at another environment only while the safety lock of
\* control.json is engaged, also when the call dies between its two writes.
SwitchOnlyWhileLocked == [][env' # env => locked]_vars

\* The store implements the token ledger.
Ledger == INSTANCE ApprovalLedger WITH
  token <- [a \in Approvals |-> status[a] = "approved"],
  granted <- grants,
  spent <- uses
ImplementsLedger == Ledger!LedgerSpec

\* "order submission requires Telegram approval" (README.md:44): what reaches
\* the broker in telegram mode is what the operator was shown and approved.
PerformedWasApproved ==
  mode = "telegram" =>
    \A g \in performed : \E a \in Approvals : request[a] = g /\ grants[a] > 0
=============================================================================
