--------------------------- MODULE ApprovalLedger ---------------------------
(***************************************************************************)
(* What the approval store of mcp_server/telegram promises to the tools    *)
(* that trade: an approval is a token.  A grant (the operator's Approve    *)
(* tap, or the auto-approval of yolo mode) puts the token on the table, a  *)
(* denial or an expiry takes it away, and a tool call that acts on it      *)
(* spends it.  Nothing is spent that is not on the table, and spending     *)
(* takes the token away, so every use is paid for by a grant of its own.   *)
(***************************************************************************)
EXTENDS Naturals

CONSTANT Approvals      \* approval records

VARIABLES
  token,                \* token[a]: a may be acted on
  granted,              \* granted[a]: how often a was granted
  spent                 \* spent[a]: how often a tool call acted on a

ledgerVars == <<token, granted, spent>>

LedgerInit ==
  /\ token = [a \in Approvals |-> FALSE]
  /\ granted = [a \in Approvals |-> 0]
  /\ spent = [a \in Approvals |-> 0]

Grant(a) ==
  /\ token' = [token EXCEPT ![a] = TRUE]
  /\ granted' = [granted EXCEPT ![a] = @ + 1]
  /\ UNCHANGED spent

\* A denial takes one token away, a sweep of stale records any number.
Withdraw(S) ==
  /\ token' = [a \in Approvals |-> token[a] /\ a \notin S]
  /\ UNCHANGED <<granted, spent>>

Spend(a) ==
  /\ token[a]
  /\ token' = [token EXCEPT ![a] = FALSE]
  /\ spent' = [spent EXCEPT ![a] = @ + 1]
  /\ UNCHANGED granted

LedgerNext ==
  \/ \E a \in Approvals : Grant(a) \/ Spend(a)
  \/ \E S \in SUBSET Approvals : Withdraw(S)

LedgerSpec == LedgerInit /\ [][LedgerNext]_ledgerVars
=============================================================================
