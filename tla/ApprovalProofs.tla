--------------------------- MODULE ApprovalProofs ---------------------------
(***************************************************************************)
(* Theorems about Approval for every set of approvals, calls and servers,  *)
(* every timeout and every number of taps.                                 *)
(*                                                                         *)
(* The type invariant needs CallsOK, which says what a call carries at     *)
(* each step.  The safety theorems hold for one server process             *)
(* (SingleServer): with two, another server's transaction may fall between *)
(* validation and mark_used.  What holds all the same is at the end.       *)
(***************************************************************************)
EXTENDS Approval, TLAPS

\* One process owns the database: one client at a time over stdio, or HTTP.
SingleServer == \A s, t \in Servers : s = t

\* What a call carries at each step.
CallsOK ==
  \A c \in Calls :
    /\ pc[c] \notin {"idle", "executing", "disconnecting"} => appr[c] \in Approvals
    /\ pc[c] \in {"validated", "executing"} => goal[c] \in Goals
    /\ pc[c] = "locking" => goal[c].subject \in Envs

TypeInv == TypeOK /\ CallsOK

LEMMA EnvGoal ==
  \A e \in Envs : [type |-> "environment_change", subject |-> e] \in Goals
<1> SUFFICES ASSUME NEW e \in Envs
             PROVE  [type |-> "environment_change", subject |-> e] \in Goals
  OBVIOUS
<1>1. [type |-> "environment_change", subject |-> e]
        \in [type : {"environment_change"}, subject : SubjectsOf("environment_change")]
  BY DEF SubjectsOf
<1>2. QED BY <1>1 DEF Goals, Types

Press == [approval : Approvals, verdict : Verdicts]

\* The oldest press of a non-empty queue, and the queue without it.
LEMMA HeadType ==
  ASSUME updates \in Seq(Press), updates # << >>
  PROVE  /\ Head(updates).approval \in Approvals
         /\ Head(updates).verdict \in Verdicts
<1>1. Head(updates) \in Press OBVIOUS
<1>2. QED BY <1>1 DEF Press

LEMMA TailType ==
  ASSUME updates \in Seq(Press), updates # << >>
  PROVE  Tail(updates) \in Seq(Press)
OBVIOUS

\* Consuming a record keeps the table well typed.
LEMMA ConsumeType ==
  ASSUME status \in [Approvals -> Statuses], age \in [Approvals -> Nat],
         NEW a \in Approvals, ConsumeIfApproved(a)
  PROVE  /\ status' \in [Approvals -> Statuses]
         /\ age' \in [Approvals -> Nat]
         /\ UNCHANGED request
<1>1. CASE status[a] = "approved"
  BY <1>1 DEF ConsumeIfApproved, SetStatus, Statuses
<1>2. CASE status[a] # "approved"
  BY <1>2 DEF ConsumeIfApproved
<1>3. QED BY <1>1, <1>2

LEMMA UseType ==
  ASSUME uses \in [Approvals -> Nat], NEW a \in Approvals, Use(a)
  PROVE  uses' \in [Approvals -> Nat] /\ UNCHANGED <<grants, verdict>>
BY DEF Use

LEMMA GrantType ==
  ASSUME grants \in [Approvals -> Nat],
         verdict \in [Approvals -> Verdicts \cup {"none"}],
         NEW a \in Approvals, Grant(a)
  PROVE  /\ grants' \in [Approvals -> Nat]
         /\ verdict' \in [Approvals -> Verdicts \cup {"none"}]
         /\ UNCHANGED uses
BY DEF Grant, Verdicts

LEMMA TypeInit == Init => TypeInv
BY TimeAssumption DEF Init, TypeInv, TypeOK, CallsOK, Statuses, Verdicts, Envs

LEMMA TypeStep == TypeInv /\ [Next]_vars => TypeInv'
<1> SUFFICES ASSUME TypeInv, [Next]_vars PROVE TypeInv'
  OBVIOUS
<1> USE TimeAssumption, ServerAssumption
    DEF TypeInv, TypeOK, CallsOK, Statuses, Verdicts, Press,
        vars, store, telegram, call, effects, history
<1>1. ASSUME NEW c \in Calls, NEW a \in Approvals, NEW g \in Goals,
             RequestApproval(c, a, g)
      PROVE  TypeInv'
  BY <1>1 DEF RequestApproval, Insert, SetStatus, Enter
<1>2. ASSUME NEW c \in Calls, NEW a \in Approvals, NEW g \in Goals,
             RequestAutoApproval(c, a, g)
      PROVE  TypeInv'
  BY <1>2 DEF RequestAutoApproval, Insert, SetStatus, Grant, Enter
<1>3. ASSUME NEW c \in Calls, NEW delivered \in BOOLEAN, SendDone(c, delivered)
      PROVE  TypeInv'
  BY <1>3 DEF SendDone, Goto
<1>4. ASSUME NEW c \in Calls, WaitPoll(c) PROVE TypeInv'
  <2>1. CASE Return(c)
    BY <1>4, <2>1 DEF WaitPoll, ExpireStale, SweptStatus, Return, Enter
  <2>2. CASE UNCHANGED call
    BY <1>4, <2>2 DEF WaitPoll, ExpireStale, SweptStatus
  <2>3. QED BY <1>4, <2>1, <2>2 DEF WaitPoll
<1>5. ASSUME NEW c \in Calls, FetchResolved(c) PROVE TypeInv'
  BY <1>5 DEF FetchResolved, ExpireStale, SweptStatus, Return, Enter
<1>6. ASSUME NEW c \in Calls, CheckApprovalStatus(c) PROVE TypeInv'
  BY <1>6 DEF CheckApprovalStatus, ExpireStale, SweptStatus
<1>7. ASSUME NEW c \in Calls, NEW a \in Approvals, NEW g \in Goals,
             ValidateApproval(c, a, g)
      PROVE  TypeInv'
  BY <1>7 DEF ValidateApproval, ExpireStale, SweptStatus, Enter
<1>8. ASSUME NEW c \in Calls, NEW g \in Goals, ExecuteUngated(c, g) PROVE TypeInv'
  BY <1>8 DEF ExecuteUngated, Enter
<1>9. ASSUME NEW c \in Calls, MarkUsed(c) PROVE TypeInv'
  <2>1. appr[c] \in Approvals
    BY <1>9 DEF MarkUsed
  <2>2. ConsumeIfApproved(appr[c]) /\ Use(appr[c])
    BY <1>9 DEF MarkUsed
  <2>3. /\ status' \in [Approvals -> Statuses]
        /\ age' \in [Approvals -> Nat]
        /\ UNCHANGED request
    BY <2>1, <2>2, ConsumeType
  <2>4. uses' \in [Approvals -> Nat] /\ UNCHANGED <<grants, verdict>>
    BY <2>1, <2>2, UseType
  <2>5. QED BY <1>9, <2>3, <2>4 DEF MarkUsed, Goto
<1>10. ASSUME NEW c \in Calls, NEW placed \in BOOLEAN, ExecuteDone(c, placed)
       PROVE  TypeInv'
  BY <1>10 DEF ExecuteDone, Return, Enter
<1>11. ASSUME NEW c \in Calls, NEW a \in Approvals, NEW e \in Envs, EnvBegin(c, a, e)
       PROVE  TypeInv'
  BY <1>11, EnvGoal DEF EnvBegin, ExpireStale, SweptStatus, Enter
<1>12. ASSUME NEW c \in Calls, EnvSwitch(c) PROVE TypeInv'
  BY <1>12 DEF EnvSwitch, Goto
<1>13. ASSUME NEW c \in Calls, EnvConsume(c) PROVE TypeInv'
  <2>1. appr[c] \in Approvals
    BY <1>13 DEF EnvConsume
  <2>2. ConsumeIfApproved(appr[c]) /\ Use(appr[c])
    BY <1>13 DEF EnvConsume
  <2>3. /\ status' \in [Approvals -> Statuses]
        /\ age' \in [Approvals -> Nat]
        /\ UNCHANGED request
    BY <2>1, <2>2, ConsumeType
  <2>4. uses' \in [Approvals -> Nat] /\ UNCHANGED <<grants, verdict>>
    BY <2>1, <2>2, UseType
  <2>5. QED BY <1>13, <2>3, <2>4 DEF EnvConsume, Goto
<1>14. ASSUME NEW c \in Calls, EnvDone(c) PROVE TypeInv'
  BY <1>14 DEF EnvDone, Return, Enter
<1>15. ASSUME NEW c \in Calls, AdminUnlock(c) PROVE TypeInv'
  BY <1>15 DEF AdminUnlock
<1>16. ASSUME NEW s \in Servers, DropTap(s) PROVE TypeInv'
  <2>1. updates' \in Seq(Press)
    BY <1>16, TailType DEF DropTap
  <2>2. QED BY <1>16, <2>1 DEF DropTap
<1>17. ASSUME NEW s \in Servers, NEW edited \in BOOLEAN, HandleTap(s, edited)
       PROVE  TypeInv'
  <2> DEFINE u == Head(updates)
  <2>1. /\ u.approval \in Approvals
        /\ u.verdict \in Verdicts
    BY <1>17, HeadType DEF HandleTap, RecordVerdict
  <2>2. updates' \in Seq(Press)
    BY <1>17, TailType DEF HandleTap, RecordVerdict
  <2>3. /\ grants' \in [Approvals -> Nat]
        /\ uses' \in [Approvals -> Nat]
        /\ verdict' \in [Approvals -> Verdicts \cup {"none"}]
    <3>1. CASE u.verdict = "approved"
      <4>1. Grant(u.approval) BY <1>17, <3>1 DEF HandleTap, RecordVerdict
      <4>2. QED BY <2>1, <4>1, GrantType
    <3>2. CASE u.verdict # "approved"
      BY <1>17, <2>1, <3>2 DEF HandleTap, RecordVerdict
    <3>3. QED BY <3>1, <3>2
  <2>4. buttons' \subseteq Approvals
    BY <1>17 DEF HandleTap, RecordVerdict
  <2>5. /\ status' \in [Approvals -> Statuses]
        /\ age' \in [Approvals -> Nat]
    BY <1>17, <2>1 DEF HandleTap, RecordVerdict, SetStatus
  <2>6. QED
    BY <1>17, <2>2, <2>3, <2>4, <2>5 DEF HandleTap, RecordVerdict
<1>18. ASSUME NEW s \in Servers, Restart(s) PROVE TypeInv'
  BY <1>18 DEF Restart
<1>19. ASSUME NEW a \in Approvals, NEW v \in Verdicts, Tap(a, v) PROVE TypeInv'
  BY <1>19 DEF Tap
<1>20. ASSUME Tick PROVE TypeInv'
  BY <1>20 DEF Tick
<1>21. ASSUME UNCHANGED vars PROVE TypeInv'
  BY <1>21
<1>22. ASSUME NEW c \in Calls, NEW delivered \in BOOLEAN, ClientCancels(c, delivered)
       PROVE  TypeInv'
  <2>1. CASE pc[c] = "sending" /\ delivered
    <3>1. appr[c] \in Approvals /\ buttons' = buttons \cup {appr[c]}
      BY <1>22, <2>1 DEF ClientCancels
    <3>2. buttons' \subseteq Approvals
      BY <3>1
    <3>3. QED BY <1>22, <3>2 DEF ClientCancels, Return, Enter
  <2>2. CASE ~(pc[c] = "sending" /\ delivered)
    BY <1>22, <2>2 DEF ClientCancels, Return, Enter
  <2>3. QED BY <2>1, <2>2
<1>23. QED
  BY <1>1, <1>2, <1>3, <1>4, <1>5, <1>6, <1>7, <1>8, <1>9, <1>10, <1>11, <1>12,
     <1>13, <1>14, <1>15, <1>16, <1>17, <1>18, <1>19, <1>20, <1>21, <1>22
  DEF Next, RequestStep, ConsumeStep, ServerStep

LEMMA TypeInvariant == Spec => []TypeInv
BY TypeInit, TypeStep, PTL DEF Spec

\* The variables keep their types.
THEOREM TypeCorrect == Spec => []TypeOK
<1>1. TypeInv => TypeOK BY DEF TypeInv
<1>2. QED BY <1>1, TypeInvariant, PTL

(***************************************************************************)
(* One server: the inductive invariant.                                    *)
(***************************************************************************)

Token(a) == IF status[a] = "approved" THEN 1 ELSE 0

\* Uses and the token still on the table are covered by grants.
Balance == \A a \in Approvals : uses[a] + Token(a) <= grants[a]

\* An approved record was last answered with an approval.
VerdictFits == \A a \in Approvals : status[a] = "approved" => verdict[a] = "approved"

\* At most one coroutine is inside a section.
Exclusive == \A c, d \in Calls : InSection(c) /\ InSection(d) => c = d

\* A consumer's approval stays approved for the rest of its section.
HeldIsApproved ==
  \A c \in Calls :
    pc[c] \in {"validated", "locking", "switching"} => status[appr[c]] = "approved"

\* The safety lock stays engaged until config.json is written.
LockHeld == \A c \in Calls : pc[c] = "locking" => locked

SectionInv == Exclusive /\ HeldIsApproved /\ LockHeld
LedgerInv == Balance /\ VerdictFits
IInv == TypeInv /\ SectionInv /\ LedgerInv

LEMMA IInvInit == Init => IInv
<1> SUFFICES ASSUME Init PROVE IInv
  OBVIOUS
<1>1. TypeInv BY TypeInit
<1>2. SectionInv
  BY DEF Init, SectionInv, Exclusive, HeldIsApproved, LockHeld, InSection
<1>3. LedgerInv
  BY DEF Init, LedgerInv, Balance, Token, VerdictFits
<1>4. QED BY <1>1, <1>2, <1>3 DEF IInv

\* The loop of the only server being free, no call is inside a section.
LEMMA FreeLoop ==
  ASSUME SingleServer, NEW s \in Servers, Free(s)
  PROVE  \A d \in Calls : ~InSection(d)
BY ServerAssumption DEF SingleServer, Free

\* A call that does not enter a section leaves the sections empty.
LEMMA StaysOutside ==
  ASSUME \A d \in Calls : ~InSection(d),
         \A d \in Calls : pc'[d] = pc[d] \/ ~InSection(d)'
  PROVE  SectionInv'
BY DEF SectionInv, Exclusive, HeldIsApproved, LockHeld, InSection

\* A step that leaves the section state alone preserves its invariant.
LEMMA SectionFrame ==
  ASSUME SectionInv, UNCHANGED <<pc, appr, status, locked>>
  PROVE  SectionInv'
BY DEF SectionInv, Exclusive, HeldIsApproved, LockHeld, InSection

\* When c alone is inside a section and leaves it, nobody is.
LEMMA LeavesSection ==
  ASSUME TypeOK, SectionInv, NEW c \in Calls, InSection(c),
         NEW step, step \notin {"fetching", "validated", "locking", "switching"},
         pc' = [pc EXCEPT ![c] = step]
  PROVE  SectionInv'
<1>1. \A d \in Calls : ~InSection(d)'
  BY DEF TypeOK, SectionInv, Exclusive, InSection
<1>2. QED
  BY <1>1 DEF SectionInv, Exclusive, HeldIsApproved, LockHeld, InSection

LEMMA SectionStep ==
  ASSUME SingleServer, TypeInv, SectionInv, [Next]_vars
  PROVE  SectionInv'
<1> USE ServerAssumption DEF vars, store, telegram, call, effects, history
<1>0. TypeOK BY DEF TypeInv
<1>1. ASSUME NEW c \in Calls, NEW a \in Approvals, NEW g \in Goals,
             RequestApproval(c, a, g)
      PROVE  SectionInv'
  BY <1>0, <1>1, FreeLoop, StaysOutside
  DEF RequestApproval, CanStart, Enter, InSection, TypeOK
<1>2. ASSUME NEW c \in Calls, NEW a \in Approvals, NEW g \in Goals,
             RequestAutoApproval(c, a, g)
      PROVE  SectionInv'
  <2>1. \A d \in Calls : ~InSection(d)
    BY <1>2, FreeLoop DEF RequestAutoApproval, CanStart
  <2>2. pc' = [pc EXCEPT ![c] = "fetching"]
    BY <1>2 DEF RequestAutoApproval, Enter
  <2>3. QED
    BY <1>0, <2>1, <2>2
    DEF TypeOK, SectionInv, Exclusive, HeldIsApproved, LockHeld, InSection
<1>3. ASSUME NEW c \in Calls, NEW delivered \in BOOLEAN, SendDone(c, delivered)
      PROVE  SectionInv'
  BY <1>0, <1>3, FreeLoop, StaysOutside DEF SendDone, Goto, InSection, TypeOK
<1>4. ASSUME NEW c \in Calls, WaitPoll(c) PROVE SectionInv'
  <2>1. \A d \in Calls : ~InSection(d)
    BY <1>4, FreeLoop DEF WaitPoll
  <2>2. CASE Return(c)
    BY <1>0, <2>1, <2>2, StaysOutside DEF Return, Enter, InSection, TypeOK
  <2>3. CASE UNCHANGED call
    BY <2>1, <2>3, StaysOutside
  <2>4. QED BY <1>4, <2>2, <2>3 DEF WaitPoll
<1>5. ASSUME NEW c \in Calls, FetchResolved(c) PROVE SectionInv'
  BY <1>0, <1>5, LeavesSection DEF FetchResolved, Return, Enter, InSection
<1>6. ASSUME NEW c \in Calls, CheckApprovalStatus(c) PROVE SectionInv'
  BY <1>6, FreeLoop, StaysOutside DEF CheckApprovalStatus, CanStart
<1>7. ASSUME NEW c \in Calls, NEW a \in Approvals, NEW g \in Goals,
             ValidateApproval(c, a, g)
      PROVE  SectionInv'
  <2>1. \A d \in Calls : ~InSection(d)
    BY <1>7, FreeLoop DEF ValidateApproval, CanStart
  <2>2. SweptStatus[a] = "approved"
    BY <1>7
    DEF ValidateApproval, Approved, AutoResolved, ByClientId, ByParams, Latest
  <2>3. status'[a] = "approved"
    BY <1>7, <2>2 DEF ValidateApproval, ExpireStale
  <2>4. /\ pc' = [pc EXCEPT ![c] = "validated"]
        /\ appr' = [appr EXCEPT ![c] = a]
    BY <1>7 DEF ValidateApproval, Enter
  <2>5. QED
    BY <1>0, <2>1, <2>3, <2>4
    DEF TypeOK, SectionInv, Exclusive, HeldIsApproved, LockHeld, InSection
<1>8. ASSUME NEW c \in Calls, NEW g \in Goals, ExecuteUngated(c, g) PROVE SectionInv'
  BY <1>0, <1>8, FreeLoop, StaysOutside
  DEF ExecuteUngated, CanStart, Enter, InSection, TypeOK
<1>9. ASSUME NEW c \in Calls, MarkUsed(c) PROVE SectionInv'
  BY <1>0, <1>9, LeavesSection DEF MarkUsed, Goto, InSection
<1>10. ASSUME NEW c \in Calls, NEW placed \in BOOLEAN, ExecuteDone(c, placed)
       PROVE  SectionInv'
  BY <1>0, <1>10, FreeLoop, StaysOutside
  DEF ExecuteDone, Return, Enter, InSection, TypeOK
<1>11. ASSUME NEW c \in Calls, NEW a \in Approvals, NEW e \in Envs, EnvBegin(c, a, e)
       PROVE  SectionInv'
  <2>1. \A d \in Calls : ~InSection(d)
    BY <1>11, FreeLoop DEF EnvBegin, CanStart
  <2>2. status'[a] = "approved" /\ locked'
    BY <1>11 DEF EnvBegin, Approved, ExpireStale
  <2>3. /\ pc' = [pc EXCEPT ![c] = "locking"]
        /\ appr' = [appr EXCEPT ![c] = a]
    BY <1>11 DEF EnvBegin, Enter
  <2>4. QED
    BY <1>0, <2>1, <2>2, <2>3
    DEF TypeOK, SectionInv, Exclusive, HeldIsApproved, LockHeld, InSection
<1>12. ASSUME NEW c \in Calls, EnvSwitch(c) PROVE SectionInv'
  BY <1>0, <1>12
  DEF EnvSwitch, Goto, TypeOK, SectionInv, Exclusive, HeldIsApproved, LockHeld, InSection
<1>13. ASSUME NEW c \in Calls, EnvConsume(c) PROVE SectionInv'
  BY <1>0, <1>13, LeavesSection DEF EnvConsume, Goto, InSection
<1>14. ASSUME NEW c \in Calls, EnvDone(c) PROVE SectionInv'
  BY <1>0, <1>14, FreeLoop, StaysOutside DEF EnvDone, Return, Enter, InSection, TypeOK
<1>15. ASSUME NEW c \in Calls, AdminUnlock(c) PROVE SectionInv'
  BY <1>15, FreeLoop, StaysOutside DEF AdminUnlock, CanStart
<1>16. ASSUME NEW s \in Servers, DropTap(s) PROVE SectionInv'
  BY <1>16, SectionFrame DEF DropTap
<1>17. ASSUME NEW s \in Servers, NEW edited \in BOOLEAN, HandleTap(s, edited)
       PROVE  SectionInv'
  BY <1>17, FreeLoop, StaysOutside DEF HandleTap, RecordVerdict
<1>18. ASSUME NEW s \in Servers, Restart(s) PROVE SectionInv'
  <2>1. \A d \in Calls : pc'[d] = "idle"
    BY <1>18 DEF Restart, SingleServer
  <2>2. QED
    BY <2>1 DEF SectionInv, Exclusive, HeldIsApproved, LockHeld, InSection
<1>19. ASSUME NEW a \in Approvals, NEW v \in Verdicts, Tap(a, v) PROVE SectionInv'
  BY <1>19, SectionFrame DEF Tap
<1>20. ASSUME Tick PROVE SectionInv'
  BY <1>20, SectionFrame DEF Tick
<1>21. ASSUME UNCHANGED vars PROVE SectionInv'
  BY <1>21, SectionFrame
<1>22. ASSUME NEW c \in Calls, NEW delivered \in BOOLEAN, ClientCancels(c, delivered)
       PROVE  SectionInv'
  BY <1>0, <1>22, FreeLoop, StaysOutside DEF ClientCancels, Return, Enter, InSection, TypeOK
<1>23. QED
  BY <1>1, <1>2, <1>3, <1>4, <1>5, <1>6, <1>7, <1>8, <1>9, <1>10, <1>11, <1>12,
     <1>13, <1>14, <1>15, <1>16, <1>17, <1>18, <1>19, <1>20, <1>21, <1>22
  DEF Next, RequestStep, ConsumeStep, ServerStep

(***************************************************************************)
(* What each kind of step does to the table, seen from the ledger.         *)
(***************************************************************************)

LEMMA FrameLedger ==
  ASSUME LedgerInv, UNCHANGED <<status, history>>
  PROVE  LedgerInv'
BY DEF LedgerInv, Balance, Token, VerdictFits, history

LEMMA SweepLedger ==
  ASSUME TypeOK, LedgerInv, ExpireStale, UNCHANGED history
  PROVE  LedgerInv'
BY DEF TypeOK, LedgerInv, Balance, Token, VerdictFits, ExpireStale, SweptStatus, history

LEMMA GrantLedger ==
  ASSUME TypeOK, LedgerInv, NEW a \in Approvals, SetStatus(a, "approved"), Grant(a)
  PROVE  LedgerInv'
BY DEF TypeOK, LedgerInv, Balance, Token, VerdictFits, SetStatus, Grant

\* A pending insertion or a denial.
LEMMA UngrantLedger ==
  ASSUME TypeOK, LedgerInv, NEW a \in Approvals, NEW s, s # "approved",
         SetStatus(a, s), UNCHANGED <<grants, uses>>,
         NEW v, verdict' = [verdict EXCEPT ![a] = v]
  PROVE  LedgerInv'
BY DEF TypeOK, LedgerInv, Balance, Token, VerdictFits, SetStatus

LEMMA ConsumeLedger ==
  ASSUME TypeOK, LedgerInv, NEW a \in Approvals, status[a] = "approved",
         ConsumeIfApproved(a), Use(a)
  PROVE  LedgerInv'
BY DEF TypeOK, LedgerInv, Balance, Token, VerdictFits, ConsumeIfApproved, SetStatus, Use

\* The five things a step can do to the table and its history.
TableStep ==
  \/ UNCHANGED <<status, history>>
  \/ ExpireStale /\ UNCHANGED history
  \/ \E a \in Approvals : SetStatus(a, "approved") /\ Grant(a)
  \/ \E a \in Approvals, s \in Statuses \ {"approved"}, v \in Verdicts \cup {"none"} :
       /\ SetStatus(a, s)
       /\ UNCHANGED <<grants, uses>>
       /\ verdict' = [verdict EXCEPT ![a] = v]
  \/ \E a \in Approvals :
       status[a] = "approved" /\ ConsumeIfApproved(a) /\ Use(a)

LEMMA StepKinds ==
  ASSUME TypeInv, SectionInv, [Next]_vars
  PROVE  TableStep
<1> USE DEF vars, store, telegram, call, effects
<1>0. TypeOK /\ CallsOK /\ SectionInv
  BY DEF TypeInv
<1>1. ASSUME NEW c \in Calls, NEW a \in Approvals, NEW g \in Goals,
             RequestApproval(c, a, g)
      PROVE  TableStep
  <2>1. verdict' = [verdict EXCEPT ![a] = verdict[a]]
    BY <1>0, <1>1 DEF TableStep, RequestApproval, TypeOK, history
  <2>2. verdict[a] \in Verdicts \cup {"none"} /\ "pending" \in Statuses \ {"approved"}
    BY <1>0 DEF TypeOK, Statuses
  <2>3. QED
    BY <1>1, <2>1, <2>2 DEF TableStep, RequestApproval, Insert, history
<1>2. ASSUME NEW c \in Calls, NEW a \in Approvals, NEW g \in Goals,
             RequestAutoApproval(c, a, g)
      PROVE  TableStep
  BY <1>0, <1>2 DEF TableStep, RequestAutoApproval, Insert
<1>3. ASSUME NEW c \in Calls, NEW delivered \in BOOLEAN, SendDone(c, delivered)
      PROVE  TableStep
  BY <1>0, <1>3 DEF TableStep, SendDone
<1>4. ASSUME NEW c \in Calls, WaitPoll(c) PROVE TableStep
  BY <1>0, <1>4 DEF TableStep, WaitPoll
<1>5. ASSUME NEW c \in Calls, FetchResolved(c) PROVE TableStep
  BY <1>0, <1>5 DEF TableStep, FetchResolved
<1>6. ASSUME NEW c \in Calls, CheckApprovalStatus(c) PROVE TableStep
  BY <1>0, <1>6 DEF TableStep, CheckApprovalStatus
<1>7. ASSUME NEW c \in Calls, NEW a \in Approvals, NEW g \in Goals,
             ValidateApproval(c, a, g)
      PROVE  TableStep
  BY <1>0, <1>7 DEF TableStep, ValidateApproval
<1>8. ASSUME NEW c \in Calls, NEW g \in Goals, ExecuteUngated(c, g) PROVE TableStep
  BY <1>0, <1>8 DEF TableStep, ExecuteUngated
<1>9. ASSUME NEW c \in Calls, MarkUsed(c) PROVE TableStep
  <2>1. appr[c] \in Approvals /\ status[appr[c]] = "approved"
    BY <1>0, <1>9 DEF TableStep, MarkUsed, CallsOK, SectionInv, HeldIsApproved
  <2>2. QED BY <1>0, <1>9, <2>1 DEF TableStep, MarkUsed
<1>10. ASSUME NEW c \in Calls, NEW placed \in BOOLEAN, ExecuteDone(c, placed)
       PROVE  TableStep
  BY <1>0, <1>10 DEF TableStep, ExecuteDone
<1>11. ASSUME NEW c \in Calls, NEW a \in Approvals, NEW e \in Envs, EnvBegin(c, a, e)
       PROVE  TableStep
  BY <1>0, <1>11 DEF TableStep, EnvBegin
<1>12. ASSUME NEW c \in Calls, EnvSwitch(c) PROVE TableStep
  BY <1>0, <1>12 DEF TableStep, EnvSwitch
<1>13. ASSUME NEW c \in Calls, EnvConsume(c) PROVE TableStep
  <2>1. appr[c] \in Approvals /\ status[appr[c]] = "approved"
    BY <1>0, <1>13 DEF TableStep, EnvConsume, CallsOK, SectionInv, HeldIsApproved
  <2>2. QED BY <1>0, <1>13, <2>1 DEF TableStep, EnvConsume
<1>14. ASSUME NEW c \in Calls, EnvDone(c) PROVE TableStep
  BY <1>0, <1>14 DEF TableStep, EnvDone
<1>15. ASSUME NEW c \in Calls, AdminUnlock(c) PROVE TableStep
  BY <1>0, <1>15 DEF TableStep, AdminUnlock
<1>16. ASSUME NEW s \in Servers, DropTap(s) PROVE TableStep
  BY <1>0, <1>16 DEF TableStep, DropTap
<1>17. ASSUME NEW s \in Servers, NEW edited \in BOOLEAN, HandleTap(s, edited)
       PROVE  TableStep
  <2>1. Head(updates).approval \in Approvals /\ Head(updates).verdict \in Verdicts
    BY <1>0, <1>17, HeadType DEF TableStep, HandleTap, RecordVerdict, TypeOK, Press
  <2>2. CASE Head(updates).verdict = "approved"
    BY <1>0, <1>17, <2>1, <2>2 DEF TableStep, HandleTap, RecordVerdict
  <2>3. CASE Head(updates).verdict # "approved"
    <3>1. Head(updates).verdict = "denied" BY <2>1, <2>3 DEF Verdicts
    <3>2. QED
      BY <1>17, <2>1, <3>1 DEF TableStep, HandleTap, RecordVerdict, Statuses, Verdicts
  <2>4. QED BY <2>2, <2>3
<1>18. ASSUME NEW s \in Servers, Restart(s) PROVE TableStep
  BY <1>0, <1>18 DEF TableStep, Restart
<1>19. ASSUME NEW a \in Approvals, NEW v \in Verdicts, Tap(a, v) PROVE TableStep
  BY <1>0, <1>19 DEF TableStep, Tap
<1>20. ASSUME Tick PROVE TableStep
  BY <1>0, <1>20 DEF TableStep, Tick
<1>21. ASSUME UNCHANGED vars PROVE TableStep
  BY <1>0, <1>21 DEF TableStep
<1>22. ASSUME NEW c \in Calls, NEW delivered \in BOOLEAN, ClientCancels(c, delivered)
       PROVE  TableStep
  BY <1>0, <1>22 DEF TableStep, ClientCancels
<1>23. QED
  BY <1>1, <1>2, <1>3, <1>4, <1>5, <1>6, <1>7, <1>8, <1>9, <1>10, <1>11, <1>12,
     <1>13, <1>14, <1>15, <1>16, <1>17, <1>18, <1>19, <1>20, <1>21, <1>22
  DEF Next, RequestStep, ConsumeStep, ServerStep

LEMMA LedgerStep ==
  ASSUME IInv, [Next]_vars
  PROVE  LedgerInv'
<1>1. TypeInv /\ TypeOK /\ SectionInv /\ LedgerInv BY DEF IInv, TypeInv
<1>2. TableStep BY <1>1, StepKinds
<1>3. QED
  BY <1>1, <1>2, FrameLedger, SweepLedger, GrantLedger, UngrantLedger, ConsumeLedger
  DEF TableStep

LEMMA Invariant == SingleServer => (Spec => []IInv)
<1> SUFFICES ASSUME SingleServer PROVE Spec => []IInv
  OBVIOUS
<1>1. IInv /\ [Next]_vars => IInv'
  BY TypeStep, SectionStep, LedgerStep DEF IInv
<1>2. QED BY IInvInit, <1>1, PTL DEF Spec

\* approval.py:176, mark_used "prevents replay": with one server no approval
\* pays for two actions.
THEOREM UsesAreBacked == SingleServer => (Spec => []UsesBackedByGrants)
<1>1. ASSUME IInv, NEW a \in Approvals PROVE uses[a] <= grants[a]
  <2>1. uses[a] \in Nat /\ grants[a] \in Nat
    BY <1>1 DEF IInv, TypeInv, TypeOK
  <2>2. Token(a) \in Nat BY DEF Token
  <2>3. uses[a] + Token(a) <= grants[a]
    BY <1>1 DEF IInv, LedgerInv, Balance
  <2>4. QED BY <2>1, <2>2, <2>3
<1>2. IInv => UsesBackedByGrants BY <1>1 DEF UsesBackedByGrants
<1>3. QED BY <1>2, Invariant, PTL

(***************************************************************************)
(* Every step is a step of the ledger, or leaves it alone.                 *)
(***************************************************************************)

LSTEP == [Ledger!LedgerNext]_(Ledger!ledgerVars)

LEMMA FrameSim ==
  ASSUME UNCHANGED <<status, history>>
  PROVE  LSTEP
BY DEF LSTEP, Ledger!ledgerVars, history

LEMMA SweepSim ==
  ASSUME ExpireStale, UNCHANGED history
  PROVE  LSTEP
<1> DEFINE S == {a \in Approvals : Stale(a)}
<1>1. Ledger!Withdraw(S)
  BY DEF Ledger!Withdraw, ExpireStale, SweptStatus, history
<1>2. S \in SUBSET Approvals OBVIOUS
<1>3. \E T \in SUBSET Approvals : Ledger!Withdraw(T)
  <2> HIDE DEF S
  <2>1. QED BY <1>1, <1>2 DEF Ledger!Withdraw
<1>4. Ledger!LedgerNext
  BY <1>3 DEF Ledger!LedgerNext
<1>5. QED BY <1>4 DEF LSTEP

LEMMA GrantSim ==
  ASSUME TypeOK, NEW a \in Approvals, SetStatus(a, "approved"), Grant(a)
  PROVE  LSTEP
<1>1. Ledger!Grant(a)
  BY DEF Ledger!Grant, SetStatus, Grant, TypeOK
<1>2. QED BY <1>1 DEF LSTEP, Ledger!LedgerNext

LEMMA UngrantSim ==
  ASSUME TypeOK, NEW a \in Approvals, NEW s, s # "approved",
         SetStatus(a, s), UNCHANGED <<grants, uses>>
  PROVE  LSTEP
<1>1. Ledger!Withdraw({a})
  BY DEF Ledger!Withdraw, SetStatus, TypeOK
<1>2. QED BY <1>1 DEF LSTEP, Ledger!LedgerNext

LEMMA ConsumeSim ==
  ASSUME TypeOK, NEW a \in Approvals, status[a] = "approved",
         ConsumeIfApproved(a), Use(a)
  PROVE  LSTEP
<1>1. Ledger!Spend(a)
  BY DEF Ledger!Spend, ConsumeIfApproved, SetStatus, Use, TypeOK
<1>2. QED BY <1>1 DEF LSTEP, Ledger!LedgerNext

LEMMA LedgerInit == Init => Ledger!LedgerInit
BY DEF Init, Ledger!LedgerInit

LEMMA LedgerSim ==
  ASSUME TypeInv, SectionInv, [Next]_vars
  PROVE  LSTEP
<1>1. TypeOK BY DEF TypeInv
<1>2. TableStep BY StepKinds
<1>3. QED
  BY <1>1, <1>2, FrameSim, SweepSim, GrantSim, UngrantSim, ConsumeSim DEF TableStep

\* The lifecycle of approval.py, as the tools rely on it: with one server the
\* store is a ledger of tokens that are granted, withdrawn and spent.
THEOREM Refinement == SingleServer => (Spec => ImplementsLedger)
<1> SUFFICES ASSUME SingleServer PROVE Spec => ImplementsLedger
  OBVIOUS
<1>1. Spec => []IInv BY Invariant
<1>2. IInv /\ [Next]_vars => [Ledger!LedgerNext]_(Ledger!ledgerVars)
  BY LedgerSim DEF IInv, LSTEP
<1>3. QED
  BY <1>1, <1>2, LedgerInit, PTL DEF Spec, ImplementsLedger, Ledger!LedgerSpec

\* bot.py:58-66: a recorded denial is final for the tool calls: with one server
\* nothing is done on the strength of an approval after it.
THEOREM DenialHolds == SingleServer => (Spec => DenyIsRespected)
<1> SUFFICES ASSUME SingleServer PROVE Spec => DenyIsRespected
  OBVIOUS
<1>1. ASSUME IInv, [Next]_vars, NEW a \in Approvals, uses'[a] # uses[a]
      PROVE  verdict[a] = "approved"
  <2>1. TypeOK /\ TypeInv /\ SectionInv /\ LedgerInv
    BY <1>1 DEF IInv, TypeInv
  <2>2. PICK b \in Approvals : status[b] = "approved" /\ Use(b)
    BY <1>1, <2>1, StepKinds DEF TableStep, Grant, history
  <2>3. a = b
    BY <1>1, <2>1, <2>2 DEF Use, TypeOK
  <2>4. QED
    BY <2>1, <2>2, <2>3 DEF LedgerInv, VerdictFits
<1>2. IInv /\ [Next]_vars =>
        [\A a \in Approvals : uses'[a] # uses[a] => verdict[a] = "approved"]_vars
  BY <1>1
<1>3. QED BY Invariant, <1>2, PTL DEF Spec, DenyIsRespected

\* Only one step of one tool points config.json elsewhere.
LEMMA WhoSwitches ==
  ASSUME [Next]_vars, env' # env
  PROVE  \E c \in Calls : EnvSwitch(c)
BY DEF Next, RequestStep, ConsumeStep, ServerStep, vars, effects,
       RequestApproval, RequestAutoApproval, SendDone, ClientCancels, WaitPoll, FetchResolved,
       CheckApprovalStatus, ValidateApproval, ExecuteUngated, MarkUsed, ExecuteDone,
       EnvBegin, EnvConsume, EnvDone, AdminUnlock, DropTap, HandleTap, RecordVerdict,
       Restart, Tap, Tick

\* main.py:1500-1545: orders are disabled whenever the environment changes,
\* with one server, wherever the call is cut off.
THEOREM SwitchUnderLock == SingleServer => (Spec => SwitchOnlyWhileLocked)
<1> SUFFICES ASSUME SingleServer PROVE Spec => SwitchOnlyWhileLocked
  OBVIOUS
<1>1. ASSUME IInv, [Next]_vars, env' # env PROVE locked
  <2>1. PICK c \in Calls : EnvSwitch(c)
    BY <1>1, WhoSwitches
  <2>2. QED
    BY <1>1, <2>1 DEF EnvSwitch, IInv, SectionInv, LockHeld
<1>2. IInv /\ [Next]_vars => [env' # env => locked]_vars
  BY <1>1
<1>3. QED BY Invariant, <1>2, PTL DEF Spec, SwitchOnlyWhileLocked

(***************************************************************************)
(* Only a validation and the start of an environment change enter a        *)
(* consumer's section, and both sweep before they look.                    *)
(***************************************************************************)

Accepts(c) == pc[c] = "idle" /\ pc'[c] \in {"validated", "locking"}

LEMMA AutoResolvedIsApproved ==
  ASSUME NEW o, NEW a \in AutoResolved(o)
  PROVE  a \in Approvals /\ SweptStatus[a] = "approved"
BY DEF AutoResolved, ByClientId, ByParams, Latest, Approved

LEMMA AcceptedIsFresh ==
  ASSUME TypeOK, NEW c \in Calls, NEW a \in Approvals, NEW step, NEW g,
         Enter(c, step, a, g), SweptStatus[a] = "approved",
         NEW d \in Calls, Accepts(d)
  PROVE  age[appr'[d]] <= UnusedExpiry
<1>1. d = c /\ appr'[d] = a
  BY DEF Accepts, Enter, TypeOK
<1>2. status[a] = "approved" /\ ~ Stale(a)
  BY DEF SweptStatus
<1>3. ~ (age[a] > UnusedExpiry)
  BY <1>2 DEF Stale, Limit
<1>4. age[a] \in Nat /\ UnusedExpiry \in Nat
  BY TimeAssumption DEF TypeOK
<1>5. QED
  BY <1>1, <1>3, <1>4

LEMMA AcceptKinds ==
  ASSUME TypeOK, Next, NEW d \in Calls, Accepts(d)
  PROVE  \E c \in Calls, a \in Approvals, g \in Goals :
           ValidateApproval(c, a, g) \/ \E e \in Envs : EnvBegin(c, a, e)
<1>1. pc \in [Calls -> {"idle", "sending", "waiting", "fetching", "validated",
                        "locking", "switching", "executing", "disconnecting"}]
  BY DEF TypeOK
<1> USE DEF call, Accepts, Enter, Return, Goto
<1>2. ASSUME NEW c \in Calls, RequestStep(c) PROVE FALSE
  BY <1>1, <1>2
  DEF RequestStep, RequestApproval, RequestAutoApproval, SendDone, ClientCancels, WaitPoll,
      FetchResolved, CheckApprovalStatus
<1>3. ASSUME NEW s \in Servers, ServerStep(s) PROVE FALSE
  BY <1>1, <1>3 DEF ServerStep, DropTap, HandleTap, RecordVerdict, Restart
<1>4. ASSUME Tick \/ \E a \in Approvals, v \in Verdicts : Tap(a, v) PROVE FALSE
  BY <1>1, <1>4 DEF Tick, Tap
<1>5. PICK c \in Calls : ConsumeStep(c)
  BY <1>2, <1>3, <1>4 DEF Next
<1>6. ~ \E g \in Goals : ExecuteUngated(c, g)
  BY <1>1 DEF ExecuteUngated
<1>7. ~ (MarkUsed(c) \/ EnvSwitch(c) \/ EnvConsume(c) \/ EnvDone(c) \/ AdminUnlock(c))
  BY <1>1 DEF MarkUsed, EnvSwitch, EnvConsume, EnvDone, AdminUnlock
<1>8. ~ \E placed \in BOOLEAN : ExecuteDone(c, placed)
  BY <1>1 DEF ExecuteDone
<1>9. CASE \E a \in Approvals, g \in Goals : ValidateApproval(c, a, g)
  BY <1>9
<1>10. CASE \E a \in Approvals, e \in Envs : EnvBegin(c, a, e)
  BY <1>10, EnvGoal
<1>11. QED
  BY <1>5, <1>6, <1>7, <1>8, <1>9, <1>10 DEF ConsumeStep

\* approval.py:264-292: no consumer ever accepts an approval older than the
\* unused window, with any number of servers and however late the sweeps come.
THEOREM ExpiryEnforced == Spec => ValidatedWithinWindow
<1>1. ASSUME TypeOK, [Next]_vars, NEW d \in Calls, Accepts(d)
      PROVE  age[appr'[d]] <= UnusedExpiry
  <2>1. Next
    BY <1>1 DEF vars, call, Accepts
  <2>2. PICK c \in Calls, a \in Approvals, g \in Goals :
          ValidateApproval(c, a, g) \/ \E e \in Envs : EnvBegin(c, a, e)
    BY <1>1, <2>1, AcceptKinds
  <2>3. CASE ValidateApproval(c, a, g)
    <3>1. SweptStatus[a] = "approved"
      BY <2>3, AutoResolvedIsApproved DEF ValidateApproval, Approved
    <3>2. QED
      BY <1>1, <2>3, <3>1, AcceptedIsFresh DEF ValidateApproval
  <2>4. CASE \E e \in Envs : EnvBegin(c, a, e)
    BY <1>1, <2>4, AcceptedIsFresh DEF EnvBegin, Approved
  <2>5. QED BY <2>2, <2>3, <2>4
<1>2. TypeOK /\ [Next]_vars => [AcceptsFreshOnly]_vars
  BY <1>1 DEF Accepts, AcceptsFreshOnly
<1>3. QED BY TypeCorrect, <1>2, PTL DEF Spec, ValidatedWithinWindow

(***************************************************************************)
(* Any number of servers                                                   *)
(*                                                                         *)
(* Each step may come between any two of another server, so this rests on  *)
(* what only grows: the records, what is in them, grants and uses.         *)
(***************************************************************************)

\* The records of the table.
Known == {a \in Approvals : status[a] # "none"}

Grows ==
  /\ Known \subseteq Known'
  /\ \A a \in Known : request'[a] = request[a]
  /\ \A a \in Approvals : (grants[a] > 0 => grants'[a] > 0) /\ (uses[a] > 0 => uses'[a] > 0)

\* A call on its way to act on an approval, or acting on one.
Acting(c) ==
  pc[c] \in {"validated", "locking", "switching"} \/ (pc[c] = "executing" /\ mode = "telegram")

EnvironmentOf(g) == [type |-> "environment_change", subject |-> g.subject]

\* It has one that was granted, of the type of its goal; an environment change has
\* the one of its goal.
CallBacked(c) ==
  /\ pc[c] = "sending" => appr[c] \in Known
  /\ Acting(c) =>
       /\ appr[c] \in Known /\ grants[appr[c]] > 0
       /\ request[appr[c]].type = goal[c].type
       /\ pc[c] = "locking" => request[appr[c]] = EnvironmentOf(goal[c])
       /\ pc[c] = "executing" => uses[appr[c]] > 0

RecordBacked(a) ==
  /\ a \in Known => request[a] \in Goals
  /\ status[a] = "approved" => grants[a] > 0
  /\ uses[a] > 0 => grants[a] > 0
  /\ grants[a] > 0 => a \in Known

PressesKnown ==
  /\ buttons \subseteq Known
  /\ updates \in Seq([approval : Known, verdict : Verdicts])

\* In telegram mode whatever is handed to the broker has an approval of its type, which
\* somebody granted and mark_used was called for.
ActsAreApproved ==
  mode = "telegram" =>
    \A g \in performed :
      \E a \in Approvals : request[a].type = g.type /\ uses[a] > 0 /\ grants[a] > 0

\* config.json is pointed only at an environment that a granted approval names, in
\* either mode.
SwitchIsApproved ==
  [][env' # env =>
       \E a \in Approvals :
         /\ request[a] = [type |-> "environment_change", subject |-> env']
         /\ grants[a] > 0]_vars

RecordsBacked == \A a \in Approvals : RecordBacked(a)
CallsBacked == \A c \in Calls : CallBacked(c)
BackedInv == TypeInv /\ RecordsBacked /\ PressesKnown /\ CallsBacked

LEMMA BackedInit == Init => RecordsBacked /\ PressesKnown /\ CallsBacked /\ ActsAreApproved
BY DEF Init, RecordsBacked, RecordBacked, PressesKnown, CallsBacked, CallBacked, Acting,
       ActsAreApproved, Known

\* What steps do to the table, whoever's they are.
LEMMA FrameBacked ==
  ASSUME RecordsBacked, UNCHANGED <<status, request, grants, uses>>
  PROVE  Grows /\ RecordsBacked'
BY DEF RecordsBacked, RecordBacked, Grows, Known

LEMMA SweepBacked ==
  ASSUME TypeOK, RecordsBacked, ExpireStale, UNCHANGED <<grants, uses>>
  PROVE  Grows /\ RecordsBacked'
BY DEF TypeOK, RecordsBacked, RecordBacked, Grows, Known, ExpireStale, SweptStatus, Stale

\* Nobody's uses change; the grants of those in S go up, if granted.
Granted(S, granted) ==
  /\ uses' = uses
  /\ \A b \in Approvals : IF granted /\ b \in S THEN grants'[b] > 0 ELSE grants'[b] = grants[b]

LEMMA GrantedBy ==
  ASSUME TypeOK, NEW a \in Approvals, NEW v,
         IF v = "approved" THEN Grant(a) ELSE UNCHANGED <<grants, uses>>
  PROVE  Granted({a}, v = "approved")
<1>1. CASE v = "approved"
  BY <1>1 DEF TypeOK, Grant, Granted
<1>2. CASE v # "approved"
  BY <1>2 DEF Granted
<1>3. QED BY <1>1, <1>2

LEMMA InsertBacked ==
  ASSUME TypeOK, RecordsBacked, NEW a \in Approvals, NEW g \in Goals, NEW s \in Statuses \ {"none"},
         Insert(a, g, s), IF s = "approved" THEN Grant(a) ELSE UNCHANGED <<grants, uses>>
  PROVE  Grows /\ RecordsBacked' /\ a \in Known'
<1>1. /\ status' = [status EXCEPT ![a] = s] /\ request' = [request EXCEPT ![a] = g]
      /\ status[a] = "none" /\ s # "none"
  BY DEF Insert, SetStatus
<1>2. Granted({a}, s = "approved")
  BY GrantedBy
<1>3. QED BY <1>1, <1>2 DEF TypeOK, RecordsBacked, RecordBacked, Grows, Known, Granted

LEMMA VerdictBacked ==
  ASSUME TypeOK, RecordsBacked, NEW a \in Known, NEW v \in Verdicts, SetStatus(a, v),
         UNCHANGED request, IF v = "approved" THEN Grant(a) ELSE UNCHANGED <<grants, uses>>
  PROVE  Grows /\ RecordsBacked'
<1>1. status' = [status EXCEPT ![a] = v] /\ request' = request /\ v # "none"
  BY DEF SetStatus, Verdicts
<1>2. Granted({a}, v = "approved")
  BY GrantedBy DEF Known
<1>3. QED BY <1>1, <1>2 DEF TypeOK, RecordsBacked, RecordBacked, Grows, Known, Granted

LEMMA ConsumeBacked ==
  ASSUME TypeOK, RecordsBacked, NEW a \in Known, grants[a] > 0, ConsumeIfApproved(a), Use(a)
  PROVE  Grows /\ RecordsBacked' /\ uses'[a] > 0
<1>1. \/ status' = [status EXCEPT ![a] = "used"]
      \/ status' = status
  BY DEF ConsumeIfApproved, SetStatus
<1>2. /\ uses' = [uses EXCEPT ![a] = @ + 1] /\ grants' = grants
      /\ request' = request
  BY DEF ConsumeIfApproved, Use
<1>3. uses'[a] > 0
  BY <1>2 DEF TypeOK, Known
<1>4. QED BY <1>1, <1>2, <1>3 DEF TypeOK, RecordsBacked, RecordBacked, Grows, Known

\* A call that stands still keeps what it has.
LEMMA OthersBacked ==
  ASSUME CallsBacked, Grows, mode' = mode, NEW c \in Calls,
         pc'[c] = pc[c], appr'[c] = appr[c], goal'[c] = goal[c]
  PROVE  CallBacked(c)'
<1>1. appr[c] \in Known => appr[c] \in Known' /\ request'[appr[c]] = request[appr[c]]
  BY DEF Grows
<1>2. appr[c] \in Known =>
        /\ grants[appr[c]] > 0 => grants'[appr[c]] > 0
        /\ uses[appr[c]] > 0 => uses'[appr[c]] > 0
  BY DEF Grows, Known
<1>3. CallBacked(c)
  BY DEF CallsBacked
<1>4. Acting(c)' = Acting(c)
  BY DEF Acting
<1>5. QED BY <1>1, <1>2, <1>3, <1>4 DEF CallBacked

LEMMA SeqOfMore ==
  ASSUME NEW S, NEW T, S \subseteq T, NEW q \in Seq(S)
  PROVE  q \in Seq(T) /\ << >> \in Seq(T) /\ (q # << >> => Tail(q) \in Seq(T))
OBVIOUS

LEMMA PressesOfMore ==
  ASSUME NEW K, NEW L, K \subseteq L, NEW q \in Seq([approval : K, verdict : Verdicts]),
         NEW r, r \in {q, << >>} \/ (q # << >> /\ r = Tail(q))
  PROVE  r \in Seq([approval : L, verdict : Verdicts])
<1> DEFINE S == [approval : K, verdict : Verdicts]
           T == [approval : L, verdict : Verdicts]
<1>1. S \subseteq T
  OBVIOUS
<1>2. q \in Seq(S)
  OBVIOUS
<1> HIDE DEF S, T
<1>3. r \in Seq(T)
  BY <1>1, <1>2, SeqOfMore
<1>4. QED BY <1>3 DEF T

LEMMA PressesKept ==
  ASSUME PressesKnown, Grows, buttons' \subseteq buttons,
         updates' \in {updates, << >>} \/ (updates # << >> /\ updates' = Tail(updates))
  PROVE  PressesKnown'
<1>1. Known \subseteq Known'
  BY DEF Grows
<1>2. updates' \in Seq([approval : Known', verdict : Verdicts])
  BY <1>1, PressesOfMore DEF PressesKnown
<1>3. QED BY <1>1, <1>2 DEF PressesKnown

\* One call goes on.
LEMMA OneCallBacked ==
  ASSUME CallsBacked, Grows, mode' = mode, NEW c \in Calls, CallBacked(c)',
         \A d \in Calls \ {c} : pc'[d] = pc[d] /\ appr'[d] = appr[d] /\ goal'[d] = goal[d]
  PROVE  CallsBacked'
<1>1. \A d \in Calls \ {c} : CallBacked(d)'
  BY OthersBacked
<1>2. QED BY <1>1 DEF CallsBacked

LEMMA EnterBacked ==
  ASSUME TypeOK, CallsBacked, Grows, mode' = mode, NEW c \in Calls, NEW step, NEW a, NEW g,
         Enter(c, step, a, g),
         step = "sending" => a \in Known',
         step \in {"validated", "locking"} =>
           /\ a \in Known' /\ grants'[a] > 0 /\ request'[a].type = g.type
           /\ step = "locking" => request'[a] = EnvironmentOf(g),
         step # "switching", step = "executing" => mode # "telegram"
  PROVE  CallsBacked'
<1>1. /\ pc'[c] = step /\ appr'[c] = a /\ goal'[c] = g
      /\ \A d \in Calls \ {c} : pc'[d] = pc[d] /\ appr'[d] = appr[d] /\ goal'[d] = goal[d]
  BY DEF Enter, TypeOK
<1>2. CallBacked(c)'
  BY <1>1 DEF CallBacked, Acting
<1>3. QED BY <1>1, <1>2, OneCallBacked

LEMMA ReturnBacked ==
  ASSUME TypeOK, CallsBacked, Grows, mode' = mode, NEW c \in Calls, Return(c)
  PROVE  CallsBacked'
<1>1. Enter(c, "idle", NoApproval, NoGoal)
  BY DEF Return
<1>2. QED BY <1>1, EnterBacked

LEMMA GotoBacked ==
  ASSUME TypeOK, CallsBacked, Grows, mode' = mode, NEW c \in Calls, NEW step, Goto(c, step),
         \/ step \in {"waiting", "disconnecting"}
         \/ pc[c] = "locking" /\ step = "switching"
         \/ pc[c] = "validated" /\ step = "executing" /\ uses'[appr[c]] > 0
  PROVE  CallsBacked'
<1>1. /\ pc'[c] = step /\ appr'[c] = appr[c] /\ goal'[c] = goal[c]
      /\ \A d \in Calls \ {c} : pc'[d] = pc[d] /\ appr'[d] = appr[d] /\ goal'[d] = goal[d]
  BY DEF Goto, TypeOK
<1>2. CallBacked(c)'
  <2>1. CASE step \in {"waiting", "disconnecting"}
    BY <1>1, <2>1 DEF CallBacked, Acting
  <2>2. CASE pc[c] \in {"locking", "validated"}
    <3>1. /\ appr[c] \in Known /\ grants[appr[c]] > 0
          /\ request[appr[c]].type = goal[c].type
      BY <2>2 DEF CallsBacked, CallBacked, Acting
    <3>2. /\ appr[c] \in Known' /\ grants'[appr[c]] > 0
          /\ request'[appr[c]] = request[appr[c]]
      BY <3>1 DEF Grows, Known
    <3>3. QED BY <1>1, <2>2, <3>1, <3>2 DEF CallBacked, Acting
  <2>3. QED BY <2>1, <2>2
<1>3. QED BY <1>1, <1>2, OneCallBacked

LEMMA HeadPress ==
  ASSUME NEW K, updates \in Seq([approval : K, verdict : Verdicts]), updates # << >>
  PROVE  Head(updates).approval \in K /\ Head(updates).verdict \in Verdicts
<1> DEFINE S == [approval : K, verdict : Verdicts]
<1>1. updates \in Seq(S)
  OBVIOUS
<1>2. Head(updates) \in S
  <2> HIDE DEF S
  <2>1. QED BY <1>1
<1>3. QED BY <1>2

LEMMA AppendPress ==
  ASSUME NEW K, NEW q \in Seq([approval : K, verdict : Verdicts]), NEW a \in K,
         NEW v \in Verdicts
  PROVE  Append(q, [approval |-> a, verdict |-> v]) \in Seq([approval : K, verdict : Verdicts])
OBVIOUS

\* What a consumer accepts is granted.
LEMMA AcceptedIsGranted ==
  ASSUME TypeOK, RecordsBacked, NEW a \in Approvals, SweptStatus[a] = "approved"
  PROVE  a \in Known /\ grants[a] > 0
<1>1. status[a] = "approved"
  BY DEF SweptStatus
<1>2. QED BY <1>1 DEF RecordsBacked, RecordBacked, Known

Backs == Grows /\ RecordsBacked' /\ PressesKnown' /\ CallsBacked'

LEMMA RequestBacked ==
  ASSUME BackedInv, NEW c \in Calls, RequestStep(c)
  PROVE  Backs
<1> USE DEF store, telegram, call, effects, history
<1>0. TypeOK /\ CallsOK /\ RecordsBacked /\ PressesKnown /\ CallsBacked
  BY DEF BackedInv, TypeInv
<1>1. ASSUME NEW a \in Approvals, NEW g \in Goals, RequestApproval(c, a, g) PROVE Backs
  <2>1. Grows /\ RecordsBacked' /\ a \in Known'
    BY <1>0, <1>1, InsertBacked DEF RequestApproval, Statuses
  <2>2. PressesKnown'
    BY <1>0, <1>1, <2>1, PressesKept DEF RequestApproval
  <2>3. CallsBacked'
    BY <1>0, <1>1, <2>1, EnterBacked DEF RequestApproval
  <2>4. QED BY <2>1, <2>2, <2>3 DEF Backs
<1>2. ASSUME NEW a \in Approvals, NEW g \in Goals, RequestAutoApproval(c, a, g) PROVE Backs
  <2>1. Grows /\ RecordsBacked' /\ a \in Known'
    BY <1>0, <1>2, InsertBacked DEF RequestAutoApproval, Statuses
  <2>2. PressesKnown'
    BY <1>0, <1>2, <2>1, PressesKept DEF RequestAutoApproval
  <2>3. CallsBacked'
    BY <1>0, <1>2, <2>1, EnterBacked DEF RequestAutoApproval
  <2>4. QED BY <2>1, <2>2, <2>3 DEF Backs
<1>3. ASSUME NEW delivered \in BOOLEAN, SendDone(c, delivered) \/ ClientCancels(c, delivered)
      PROVE  Backs
  <2>1. Grows /\ RecordsBacked'
    BY <1>0, <1>3, FrameBacked DEF SendDone, ClientCancels
  <2>2. buttons' \subseteq Known' /\ updates' = updates /\ Known' = Known
    BY <1>0, <1>3 DEF SendDone, ClientCancels, CallsBacked, CallBacked, PressesKnown, Known
  <2>3. PressesKnown'
    BY <1>0, <2>2 DEF PressesKnown
  <2>4. CallsBacked'
    BY <1>0, <1>3, <2>1, GotoBacked, ReturnBacked DEF SendDone, ClientCancels
  <2>5. QED BY <2>1, <2>3, <2>4 DEF Backs
<1>4. ASSUME WaitPoll(c) \/ FetchResolved(c) \/ CheckApprovalStatus(c) PROVE Backs
  <2>1. Grows /\ RecordsBacked'
    BY <1>0, <1>4, SweepBacked DEF WaitPoll, FetchResolved, CheckApprovalStatus
  <2>2. PressesKnown'
    BY <1>0, <1>4, <2>1, PressesKept DEF WaitPoll, FetchResolved, CheckApprovalStatus
  <2>3. mode' = mode /\ (Return(c) \/ UNCHANGED call)
    BY <1>4 DEF WaitPoll, FetchResolved, CheckApprovalStatus
  <2>4. CallsBacked'
    <3>1. CASE Return(c)
      BY <1>0, <2>1, <2>3, <3>1, ReturnBacked
    <3>2. CASE UNCHANGED call
      BY <1>0, <2>1, <2>3, <3>2, OthersBacked DEF CallsBacked
    <3>3. QED BY <2>3, <3>1, <3>2
  <2>5. QED BY <2>1, <2>2, <2>4 DEF Backs
<1>5. QED BY <1>1, <1>2, <1>3, <1>4 DEF RequestStep

LEMMA ConsumeStepBacked ==
  ASSUME BackedInv, NEW c \in Calls, ConsumeStep(c)
  PROVE  Backs
<1> USE DEF store, telegram, call, effects, history
<1>0. TypeOK /\ CallsOK /\ RecordsBacked /\ PressesKnown /\ CallsBacked
  BY DEF BackedInv, TypeInv
<1>1. ASSUME NEW a \in Approvals, NEW g \in Goals, ValidateApproval(c, a, g) PROVE Backs
  <2>1. Grows /\ RecordsBacked' /\ UNCHANGED <<request, history>>
    BY <1>0, <1>1, SweepBacked DEF ValidateApproval, ExpireStale
  <2>2. PressesKnown'
    BY <1>0, <1>1, <2>1, PressesKept DEF ValidateApproval
  <2>3. SweptStatus[a] = "approved" /\ request[a].type = g.type
    BY <1>1, AutoResolvedIsApproved
       DEF ValidateApproval, Approved, AutoResolved, ByClientId, ByParams, Latest
  <2>4. a \in Known' /\ grants'[a] > 0 /\ request'[a].type = g.type
    BY <1>0, <2>1, <2>3, AcceptedIsGranted DEF Grows
  <2>5. CallsBacked'
    BY <1>0, <1>1, <2>1, <2>4, EnterBacked DEF ValidateApproval
  <2>6. QED BY <2>1, <2>2, <2>5 DEF Backs
<1>2. ASSUME NEW g \in Goals, ExecuteUngated(c, g) PROVE Backs
  <2>1. Grows /\ RecordsBacked'
    BY <1>0, <1>2, FrameBacked DEF ExecuteUngated
  <2>2. PressesKnown'
    BY <1>0, <1>2, <2>1, PressesKept DEF ExecuteUngated
  <2>3. CallsBacked'
    BY <1>0, <1>2, <2>1, EnterBacked DEF ExecuteUngated
  <2>4. QED BY <2>1, <2>2, <2>3 DEF Backs
<1>3. ASSUME MarkUsed(c) \/ EnvConsume(c) PROVE Backs
  <2>1. appr[c] \in Known /\ grants[appr[c]] > 0
    BY <1>0, <1>3 DEF MarkUsed, EnvConsume, CallsBacked, CallBacked, Acting
  <2>2. Grows /\ RecordsBacked' /\ uses'[appr[c]] > 0
    BY <1>0, <1>3, <2>1, ConsumeBacked DEF MarkUsed, EnvConsume
  <2>3. PressesKnown'
    BY <1>0, <1>3, <2>2, PressesKept DEF MarkUsed, EnvConsume
  <2>4. CallsBacked'
    BY <1>0, <1>3, <2>2, GotoBacked DEF MarkUsed, EnvConsume
  <2>5. QED BY <2>2, <2>3, <2>4 DEF Backs
<1>4. ASSUME NEW a \in Approvals, NEW e \in Envs, EnvBegin(c, a, e) PROVE Backs
  <2>1. Grows /\ RecordsBacked' /\ UNCHANGED <<request, history>>
    BY <1>0, <1>4, SweepBacked DEF EnvBegin, ExpireStale
  <2>2. PressesKnown'
    BY <1>0, <1>4, <2>1, PressesKept DEF EnvBegin
  <2>3. SweptStatus[a] = "approved" /\ a \in Known /\ grants[a] > 0
    BY <1>0, <1>4, AcceptedIsGranted DEF EnvBegin, Approved
  <2>4. request[a] = [type |-> "environment_change", subject |-> e]
    <3>1. request[a].type = "environment_change" /\ request[a].subject = e
      BY <1>4 DEF EnvBegin, Approved
    <3>2. request[a] \in Goals
      BY <1>0, <2>3 DEF RecordsBacked, RecordBacked
    <3>3. QED BY <3>1, <3>2 DEF Goals
  <2>5. a \in Known' /\ grants'[a] > 0 /\ request'[a] = request[a]
    BY <2>1, <2>3 DEF Grows
  <2>6. CallsBacked'
    BY <1>0, <1>4, <2>1, <2>4, <2>5, EnterBacked DEF EnvBegin, EnvironmentOf
  <2>7. QED BY <2>1, <2>2, <2>6 DEF Backs
<1>5. ASSUME \/ \E placed \in BOOLEAN : ExecuteDone(c, placed)
             \/ EnvSwitch(c) \/ EnvDone(c) \/ AdminUnlock(c)
      PROVE  Backs
  <2>1. Grows /\ RecordsBacked' /\ mode' = mode
    BY <1>0, <1>5, FrameBacked DEF ExecuteDone, EnvSwitch, EnvDone, AdminUnlock
  <2>2. PressesKnown'
    BY <1>0, <1>5, <2>1, PressesKept DEF ExecuteDone, EnvSwitch, EnvDone, AdminUnlock
  <2>3. Return(c) \/ UNCHANGED call \/ (Goto(c, "switching") /\ pc[c] = "locking")
    BY <1>5 DEF ExecuteDone, EnvSwitch, EnvDone, AdminUnlock
  <2>4. CallsBacked'
    <3>1. CASE UNCHANGED call
      BY <1>0, <2>1, <3>1, OthersBacked DEF CallsBacked
    <3>2. QED BY <1>0, <2>1, <2>3, <3>1, ReturnBacked, GotoBacked
  <2>5. QED BY <2>1, <2>2, <2>4 DEF Backs
<1>6. QED BY <1>1, <1>2, <1>3, <1>4, <1>5 DEF ConsumeStep

LEMMA ServerStepBacked ==
  ASSUME BackedInv, NEW s \in Servers, ServerStep(s)
  PROVE  Backs
<1> USE DEF store, telegram, call, effects, history
<1>0. TypeOK /\ RecordsBacked /\ PressesKnown /\ CallsBacked
  BY DEF BackedInv, TypeInv
<1>1. CASE DropTap(s)
  <2>1. Grows /\ RecordsBacked'
    BY <1>0, <1>1, FrameBacked DEF DropTap
  <2>2. PressesKnown'
    BY <1>0, <1>1, <2>1, PressesKept DEF DropTap
  <2>3. CallsBacked'
    BY <1>0, <1>1, <2>1, OthersBacked DEF DropTap, CallsBacked
  <2>4. QED BY <2>1, <2>2, <2>3 DEF Backs
<1>2. ASSUME NEW edited \in BOOLEAN, HandleTap(s, edited) PROVE Backs
  <2>1. Head(updates).approval \in Known /\ Head(updates).verdict \in Verdicts
    BY <1>0, <1>2, HeadPress DEF HandleTap, RecordVerdict, PressesKnown
  <2>2. Grows /\ RecordsBacked'
    BY <1>0, <1>2, <2>1, VerdictBacked DEF HandleTap, RecordVerdict, Verdicts
  <2>3. PressesKnown'
    BY <1>0, <1>2, <2>2, PressesKept DEF HandleTap, RecordVerdict
  <2>4. CallsBacked'
    BY <1>0, <1>2, <2>2, OthersBacked DEF HandleTap, RecordVerdict, CallsBacked
  <2>5. QED BY <2>2, <2>3, <2>4 DEF Backs
<1>3. CASE Restart(s)
  <2>1. Grows /\ RecordsBacked'
    BY <1>0, <1>3, FrameBacked DEF Restart
  <2>2. PressesKnown'
    BY <1>0, <1>3, <2>1, PressesKept DEF Restart
  <2>3. ASSUME NEW c \in Calls PROVE CallBacked(c)'
    <3>1. CASE ServerOf[c] = s
      <4>1. pc'[c] = "idle"
        BY <1>3, <3>1 DEF Restart
      <4>2. QED BY <4>1 DEF CallBacked, Acting
    <3>2. CASE ServerOf[c] # s
      BY <1>0, <1>3, <2>1, <3>2, OthersBacked DEF Restart
    <3>3. QED BY <3>1, <3>2
  <2>4. QED BY <2>1, <2>2, <2>3 DEF Backs, CallsBacked
<1>4. QED BY <1>1, <1>2, <1>3 DEF ServerStep

LEMMA OtherStepBacked ==
  ASSUME BackedInv,
         Tick \/ UNCHANGED vars \/ \E a \in Approvals, v \in Verdicts : Tap(a, v)
  PROVE  Backs
<1> USE DEF store, telegram, call, effects, history
<1>0. TypeOK /\ RecordsBacked /\ PressesKnown /\ CallsBacked
  BY DEF BackedInv, TypeInv
<1>1. UNCHANGED <<status, request, grants, uses, pc, appr, goal, mode>>
  BY DEF Tick, Tap, vars
<1>2. Grows /\ RecordsBacked'
  BY <1>0, <1>1, FrameBacked
<1>3. CallsBacked'
  BY <1>0, <1>1, <1>2, OthersBacked DEF CallsBacked
<1>4. PressesKnown'
  <2>1. CASE UNCHANGED <<buttons, updates>>
    BY <1>0, <1>2, <2>1, PressesKept
  <2>2. ASSUME NEW a \in Approvals, NEW v \in Verdicts, Tap(a, v) PROVE PressesKnown'
    <3>1. Known' = Known
      BY <1>1 DEF Known
    <3>2. a \in Known /\ updates' = Append(updates, [approval |-> a, verdict |-> v])
            /\ buttons' = buttons
      BY <1>0, <2>2 DEF Tap, PressesKnown
    <3>3. QED BY <1>0, <3>1, <3>2, AppendPress DEF PressesKnown
  <2>3. QED BY <2>1, <2>2 DEF Tick, vars
<1>5. QED BY <1>2, <1>3, <1>4 DEF Backs

LEMMA BackedStep == BackedInv /\ [Next]_vars => Backs
BY RequestBacked, ConsumeStepBacked, ServerStepBacked, OtherStepBacked DEF Next

\* Only the end of a call that executes hands anything to the broker.
LEMMA WhoPerforms ==
  ASSUME Next, performed' # performed
  PROVE  \E c \in Calls : pc[c] = "executing" /\ performed' = performed \cup {goal[c]}
<1>1. ASSUME NEW c \in Calls, RequestStep(c) PROVE FALSE
  BY <1>1
  DEF RequestStep, RequestApproval, RequestAutoApproval, SendDone, ClientCancels, WaitPoll,
      FetchResolved, CheckApprovalStatus, effects
<1>2. ASSUME NEW s \in Servers, ServerStep(s) PROVE FALSE
  BY <1>2 DEF ServerStep, DropTap, HandleTap, RecordVerdict, Restart, effects
<1>3. ASSUME Tick \/ \E a \in Approvals, v \in Verdicts : Tap(a, v) PROVE FALSE
  BY <1>3 DEF Tick, Tap, effects
<1>4. PICK c \in Calls : ConsumeStep(c)
  BY <1>1, <1>2, <1>3 DEF Next
<1>5. PICK placed \in BOOLEAN : ExecuteDone(c, placed)
  BY <1>4
  DEF ConsumeStep, ValidateApproval, ExecuteUngated, MarkUsed, EnvBegin, EnvSwitch, EnvConsume,
      EnvDone, AdminUnlock, effects
<1>6. QED BY <1>5 DEF ExecuteDone

LEMMA ModeStays ==
  ASSUME [Next]_vars
  PROVE  mode' = mode
BY DEF Next, RequestStep, ConsumeStep, ServerStep, vars,
       RequestApproval, RequestAutoApproval, SendDone, ClientCancels, WaitPoll, FetchResolved,
       CheckApprovalStatus, ValidateApproval, ExecuteUngated, MarkUsed, ExecuteDone,
       EnvBegin, EnvSwitch, EnvConsume, EnvDone, AdminUnlock, DropTap, HandleTap, RecordVerdict,
       Restart, Tap, Tick

LEMMA ActsKept ==
  ASSUME BackedInv, ActsAreApproved, [Next]_vars
  PROVE  ActsAreApproved'
<1>1. Grows /\ RecordsBacked'
  BY BackedStep DEF Backs
<1>2. SUFFICES ASSUME mode' = "telegram", NEW g \in performed'
               PROVE  \E a \in Approvals :
                        request'[a].type = g.type /\ uses'[a] > 0 /\ grants'[a] > 0
  BY DEF ActsAreApproved
<1>3. mode = "telegram"
  BY <1>2, ModeStays
<1>4. PICK a \in Known : request[a].type = g.type /\ uses[a] > 0 /\ grants[a] > 0
  <2>1. CASE g \in performed
    BY <1>3, <2>1 DEF ActsAreApproved, BackedInv, RecordsBacked, RecordBacked
  <2>2. CASE g \notin performed
    <3>1. Next
      BY <1>2, <2>2 DEF vars, effects
    <3>2. PICK c \in Calls : pc[c] = "executing" /\ g = goal[c]
      BY <1>2, <2>2, <3>1, WhoPerforms
    <3>3. QED BY <1>3, <3>2 DEF BackedInv, CallsBacked, CallBacked, Acting
  <2>3. QED BY <2>1, <2>2
<1>5. QED BY <1>1, <1>4 DEF Grows, Known

LEMMA BackedHolds == Spec => [](BackedInv /\ ActsAreApproved)
<1>1. Init => BackedInv /\ ActsAreApproved
  BY TypeInit, BackedInit DEF BackedInv
<1>2. BackedInv /\ ActsAreApproved /\ [Next]_vars => (BackedInv /\ ActsAreApproved)'
  BY TypeStep, BackedStep, ActsKept DEF BackedInv, Backs
<1>3. QED BY <1>1, <1>2, PTL DEF Spec

\* README.md:44, "order submission requires Telegram approval", as far as it holds: for
\* any number of servers, what the broker gets has been paid for by a granted approval
\* of its type, though not by one of its own content (PerformedWasApproved).
THEOREM OnlyApprovedActs == Spec => []ActsAreApproved
BY BackedHolds, PTL

\* An environment change, unlike an order, is bound to what was approved, whatever other
\* servers do to the record between the check and the switch.
THEOREM SwitchNeedsApproval == Spec => SwitchIsApproved
<1>1. ASSUME BackedInv, [Next]_vars, env' # env
      PROVE  \E a \in Approvals :
               /\ request[a] = [type |-> "environment_change", subject |-> env']
               /\ grants[a] > 0
  <2>1. PICK c \in Calls : EnvSwitch(c)
    BY <1>1, WhoSwitches
  <2>2. /\ appr[c] \in Approvals /\ grants[appr[c]] > 0 /\ request[appr[c]] = EnvironmentOf(goal[c])
    BY <1>1, <2>1 DEF EnvSwitch, BackedInv, CallsBacked, CallBacked, Acting, Known
  <2>3. env' = goal[c].subject
    BY <2>1 DEF EnvSwitch
  <2>4. QED BY <2>2, <2>3 DEF EnvironmentOf
<1>2. BackedInv /\ ActsAreApproved /\ [Next]_vars
        => [env' # env =>
              \E a \in Approvals :
                /\ request[a] = [type |-> "environment_change", subject |-> env']
                /\ grants[a] > 0]_vars
  BY <1>1
<1>3. QED BY <1>2, BackedHolds, PTL DEF Spec, SwitchIsApproved
=============================================================================
