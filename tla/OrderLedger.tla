---------------------------- MODULE OrderLedger ----------------------------
(***************************************************************************)
(* What place_order promises to whoever retries it: a client order id      *)
(* stands for one order.  An order is placed under it only while no other  *)
(* is open or was filled; an open order is filled or ends, and a fill is   *)
(* for good.  No failure, time-out or restart shows in this specification: *)
(* whatever they do, they do none of this.                                 *)
(***************************************************************************)
CONSTANTS
  Keys,             \* what an order is placed for
  Ids               \* the orders that may be placed for a key

VARIABLES
  open,             \* open[k]: the orders for k that may still be filled
  filled            \* filled[k]: those that are, and are no longer open

ledgerVars == <<open, filled>>

LedgerInit ==
  /\ open = [k \in Keys |-> {}]
  /\ filled = [k \in Keys |-> {}]

Keep(k) == open'[k] = open[k] /\ filled'[k] = filled[k]

Place(k) ==
  /\ open[k] = {} /\ filled[k] = {}
  /\ \E i \in open'[k] : open'[k] = {i}
  /\ filled'[k] = {}

\* An open order ends, with a fill or without.
Finish(k) ==
  \E i \in open[k] :
    /\ open'[k] = open[k] \ {i}
    /\ filled'[k] \in {filled[k], filled[k] \cup {i}}

\* Either way what is open changes, which is what TLC looks at first.
LedgerNext ==
  /\ open' # open
  /\ \E k \in Keys :
       /\ Place(k) \/ Finish(k)
       /\ \A other \in Keys \ {k} : Keep(other)
  /\ open' \in [Keys -> SUBSET Ids] /\ filled' \in [Keys -> SUBSET Ids]

LedgerSpec == LedgerInit /\ [][LedgerNext]_ledgerVars
=============================================================================
