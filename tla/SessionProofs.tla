--------------------------- MODULE SessionProofs ----------------------------
(***************************************************************************)
(* Theorems about Session for any number of calls, clients and gateways.   *)
(*                                                                         *)
(* The properties rest on the discipline of the lock and the queue: a call *)
(* that has a job waits for it, only the owner of the lock connects and    *)
(* disconnects, and when a connect has ended for its call the worker has   *)
(* nothing left to do.                                                     *)
(***************************************************************************)
EXTENDS Session, SequenceTheorems, TLAPS

\* A call is in the part of get_client that the lock protects iff it has it.
LockInv == \A c \in Calls : pc[c] \in Holding <=> owner = c

\* A job that was not given up has a call that waits for it, and for it alone.
JobInv ==
  /\ \A i \in DOMAIN waiting :
       waiting[i].call \in Calls /\ pc[waiting[i].call] = AtJob[waiting[i].kind]
  /\ \A i, j \in DOMAIN waiting : i # j => waiting[i].call # waiting[j].call
  /\ (running # None /\ running.call # None) =>
       /\ pc[running.call] = AtJob[running.kind]
       /\ \A i \in DOMAIN waiting : waiting[i].call # running.call

\* A call whose connect has ended finds the worker without a job.
CalmInv == \A c \in Calls : pc[c] = "connected" => waiting = << >> /\ running = None

\* The client is there while its connect is awaited and while it is used.
ClientInv ==
  /\ \A i \in DOMAIN waiting : waiting[i].kind = "operate" => waiting[i].client \in open
  /\ (running # None /\ running.kind = "operate") => running.client \in open
  /\ \A c \in Calls : pc[c] = "connected" => client \in open
  /\ (stage \in {"handshake", "asking"} /\ running.call # None) =>
       running.client = client
  /\ stage = "asking" => running.client \in open

\* Its gateway is one that was configured since the call began.
GatewayInv ==
  /\ \A c \in Calls : pc[c] # "idle" => env \in seen[c]
  /\ \A c \in Calls : pc[c] \in {"connecting", "connected"} =>
       client \in Clients /\ gateway[client] \in seen[c]
  /\ \A i \in DOMAIN waiting : waiting[i].kind = "operate" =>
       gateway[waiting[i].client] \in seen[waiting[i].call]
  /\ (running # None /\ running.kind = "operate" /\ running.call # None) =>
       gateway[running.client] \in seen[running.call]

QueueInv == JobInv /\ OperationsDoNotWait /\ CalmInv
IInv == TypeOK /\ LockInv /\ QueueInv /\ ClientInv /\ GatewayInv

(***************************************************************************)
(* What the helpers do to the queue of the executor.                       *)
(***************************************************************************)

LEMMA RemoveAtProperties ==
  ASSUME NEW S, NEW q \in Seq(S), NEW n \in DOMAIN q, NEW r,
         r = SubSeq(q, 1, n-1) \o SubSeq(q, n+1, Len(q))
  PROVE  /\ r \in Seq(S)
         /\ Len(r) = Len(q) - 1
         /\ \A i \in DOMAIN r : r[i] = q[IF i < n THEN i ELSE i+1]
<1> DEFINE a == SubSeq(q, 1, n-1)
           b == SubSeq(q, n+1, Len(q))
<1>1. n \in 1..Len(q) /\ Len(q) \in Nat OBVIOUS
<1>2. a \in Seq(S) /\ Len(a) = n-1 /\ \A i \in 1..(n-1) : a[i] = q[i]
  BY <1>1
<1>3. b \in Seq(S) /\ Len(b) = Len(q) - n /\ \A i \in 1..(Len(q)-n) : b[i] = q[n+i]
  BY <1>1
<1>4. r = a \o b OBVIOUS
<1> HIDE DEF a, b
<1>c. /\ r \in Seq(S) /\ Len(r) = Len(a) + Len(b)
      /\ \A i \in 1..(Len(a) + Len(b)) : r[i] = IF i <= Len(a) THEN a[i] ELSE b[i - Len(a)]
  <2>1. a \in Seq(S) /\ b \in Seq(S) BY <1>2, <1>3
  <2>2. QED BY <1>4, <2>1, ConcatProperties, Zenon
<1>5. r \in Seq(S) /\ Len(r) = Len(q) - 1
  <2>1. Len(a) = n-1 /\ Len(b) = Len(q) - n BY <1>2, <1>3
  <2>2. (n-1) + (Len(q) - n) = Len(q) - 1 BY <1>1
  <2>3. QED BY <1>c, <2>1, <2>2
<1>6. ASSUME NEW i \in 1..(Len(q) - 1)
      PROVE  r[i] = q[IF i < n THEN i ELSE i+1]
  <2>0. i \in 1..(Len(a) + Len(b)) /\ (i <= Len(a) <=> i < n)
    BY <1>1, <1>2, <1>3
  <2>c. r[i] = IF i <= Len(a) THEN a[i] ELSE b[i - Len(a)]
    BY <1>c, <2>0
  <2>1. CASE i < n
    <3>1. i \in 1..(n-1) BY <1>1, <2>1
    <3>2. QED BY <1>2, <2>0, <2>c, <2>1, <3>1
  <2>2. CASE ~(i < n)
    <3>1. r[i] = b[i - (n-1)] BY <1>2, <2>0, <2>c, <2>2
    <3>2. i - (n-1) \in 1..(Len(q)-n) /\ n + (i - (n-1)) = i + 1 BY <1>1, <2>2
    <3>3. QED BY <1>2, <1>3, <2>2, <3>1, <3>2
  <2>3. QED BY <2>1, <2>2
<1>7. DOMAIN r = 1..(Len(q) - 1) BY <1>1, <1>5, LenProperties
<1>8. QED BY <1>5, <1>6, <1>7

\* After Withdraw(c) no job has c; the others keep their order.
LEMMA WithdrawProperties ==
  ASSUME TypeOK, JobInv, NEW c \in Calls, Withdraw(c)
  PROVE  /\ waiting' \in Seq(Jobs) /\ running' \in Jobs \cup {None}
         /\ \A i \in DOMAIN waiting' : \E m \in DOMAIN waiting :
              /\ i <= m /\ waiting'[i] = waiting[m] /\ waiting[m].call # c
         /\ \A i, j \in DOMAIN waiting' : i # j => waiting'[i].call # waiting'[j].call
         /\ waiting = << >> => waiting' = << >>
         /\ running' = None <=> running = None
         /\ running # None =>
              /\ running'.kind = running.kind /\ running'.client = running.client
              /\ running'.call = IF running.call = c THEN None ELSE running.call
<1>1. /\ running' \in Jobs \cup {None}
      /\ running' = None <=> running = None
      /\ running # None =>
           /\ running'.kind = running.kind /\ running'.client = running.client
           /\ running'.call = IF running.call = c THEN None ELSE running.call
  <2>1. CASE running = None
    BY <2>1 DEF Withdraw
  <2>2. CASE running # None
    <3>1. running \in Jobs BY <2>2 DEF TypeOK
    <3>2. running' = IF running.call = c THEN [running EXCEPT !.call = None] ELSE running
      BY <2>2 DEF Withdraw
    <3>3. CASE running.call = c
      <4>1. running' = [kind |-> running.kind, client |-> running.client, call |-> None]
        BY <3>1, <3>2, <3>3 DEF Jobs
      <4>2. running' \in Jobs BY <3>1, <4>1 DEF Jobs
      <4>3. QED BY <2>2, <3>3, <4>1, <4>2, NoneAssumption
    <3>4. CASE running.call # c
      BY <2>2, <3>1, <3>2, <3>4
    <3>5. QED BY <3>3, <3>4
  <2>3. QED BY <2>1, <2>2
<1>2. CASE UNCHANGED waiting /\ \A i \in DOMAIN waiting : waiting[i].call # c
  BY <1>1, <1>2 DEF TypeOK, JobInv
<1>3. ASSUME NEW n \in DOMAIN waiting, waiting[n].call = c,
             waiting' = SubSeq(waiting, 1, n-1) \o SubSeq(waiting, n+1, Len(waiting))
      PROVE  /\ waiting' \in Seq(Jobs)
             /\ \A i \in DOMAIN waiting' : \E m \in DOMAIN waiting :
                  /\ i <= m /\ waiting'[i] = waiting[m] /\ waiting[m].call # c
             /\ \A i, j \in DOMAIN waiting' : i # j => waiting'[i].call # waiting'[j].call
             /\ waiting # << >>
  <2> DEFINE at(i) == IF i < n THEN i ELSE i+1
  <2>1. /\ waiting' \in Seq(Jobs) /\ Len(waiting') = Len(waiting) - 1
        /\ \A i \in DOMAIN waiting' : waiting'[i] = waiting[at(i)]
    <3>1. waiting \in Seq(Jobs) BY DEF TypeOK
    <3>2. QED BY <1>3, <3>1, RemoveAtProperties, Zenon
  <2>s. /\ DOMAIN waiting = 1..Len(waiting) /\ Len(waiting) \in Nat
        /\ DOMAIN waiting' = 1..Len(waiting')
    BY <2>1, LenProperties DEF TypeOK
  <2>2. \A i \in DOMAIN waiting' : at(i) \in DOMAIN waiting /\ i <= at(i) /\ at(i) # n
    BY <1>3, <2>1, <2>s
  <2>3. \A i, j \in DOMAIN waiting' : i # j => at(i) # at(j)
    BY <1>3, <2>1, <2>s
  <2> HIDE DEF at
  <2>4. \A i \in DOMAIN waiting' : waiting[at(i)].call # c
    BY <1>3, <2>2 DEF JobInv
  <2>5. \A i, j \in DOMAIN waiting' : i # j => waiting'[i].call # waiting'[j].call
    BY <2>1, <2>2, <2>3 DEF JobInv
  <2>6. waiting # << >> BY <1>3
  <2>7. QED BY <2>1, <2>2, <2>4, <2>5, <2>6
<1>4. QED BY <1>1, <1>2, <1>3 DEF Withdraw

\* Removing a call from the waiters of the lock.
LEMMA WaitersType ==
  ASSUME waiters \in Seq(Calls), NEW n \in DOMAIN waiters,
         waiters' = SubSeq(waiters, 1, n-1) \o SubSeq(waiters, n+1, Len(waiters))
  PROVE  waiters' \in Seq(Calls)
BY RemoveAtProperties

\* The client of StartConnect is one of the unused ones.
LEMMA FreshClient ==
  ASSUME NEW c \in Calls, StartConnect(c)
  PROVE  \E k \in Clients :
           /\ Unused(k) /\ client' = k
           /\ gateway' = [gateway EXCEPT ![k] = env]
           /\ Submit(c, "connect", None)
           /\ UNCHANGED open
BY DEF StartConnect

(***************************************************************************)
(* Types                                                                   *)
(***************************************************************************)

LEMMA AtJobs ==
  /\ AtJob["connect"] = "connecting"
  /\ AtJob["disconnect"] = "disconnecting"
  /\ AtJob["operate"] = "operating"
BY DEF AtJob

PCs == {"idle", "locking", "operating", "answered"} \cup Holding

LEMMA ReturnType ==
  ASSUME TypeOK, NEW c \in Calls, Return(c)
  PROVE  /\ pc' \in [Calls -> PCs] /\ kind' \in [Calls -> Kinds \cup {None}]
         /\ seen' \in [Calls -> SUBSET Envs] /\ owner' \in Calls \cup {None}
BY DEF TypeOK, PCs, Return, Goto

LEMMA SubmitType ==
  ASSUME TypeOK, NEW c \in Calls, NEW job \in JobKinds, NEW k \in Clients \cup {None},
         Submit(c, job, k)
  PROVE  /\ pc' \in [Calls -> PCs] /\ waiting' \in Seq(Jobs)
         /\ UNCHANGED <<running, stage>>
<1>1. [kind |-> job, client |-> k, call |-> c] \in Jobs
  BY DEF Jobs
<1>2. AtJob[job] \in PCs
  BY DEF JobKinds, AtJob, PCs, Holding
<1>3. QED BY <1>1, <1>2 DEF TypeOK, PCs, Submit, Goto

LEMMA FinishType ==
  ASSUME TypeOK, running # None, NEW p \in PCs, Finish(p)
  PROVE  /\ pc' \in [Calls -> PCs] /\ running' = None /\ stage' = "idle"
         /\ UNCHANGED <<kind, owner, waiters, client, waiting, env, seen>>
<1>1. running.call \in Calls \cup {None} BY DEF TypeOK, Jobs
<1>2. QED BY <1>1 DEF TypeOK, PCs, Finish

LEMMA WithdrawType ==
  ASSUME TypeOK, NEW c \in Calls, Withdraw(c)
  PROVE  /\ waiting' \in Seq(Jobs) /\ running' \in Jobs \cup {None}
         /\ running' = None <=> running = None
         /\ running # None =>
              running'.client = running.client /\ running'.kind = running.kind
         /\ UNCHANGED stage
<1>1. /\ running' \in Jobs \cup {None} /\ (running' = None <=> running = None)
      /\ running # None =>
           running'.client = running.client /\ running'.kind = running.kind
  <2>1. CASE running = None
    BY <2>1 DEF Withdraw
  <2>2. CASE running # None
    <3>1. running \in Jobs BY <2>2 DEF TypeOK
    <3>2. /\ [running EXCEPT !.call = None] \in Jobs
          /\ [running EXCEPT !.call = None].client = running.client
          /\ [running EXCEPT !.call = None].kind = running.kind
      BY <3>1 DEF Jobs
    <3>3. QED BY <2>2, <3>1, <3>2, NoneAssumption DEF Withdraw
  <2>3. QED BY <2>1, <2>2
<1>2. waiting' \in Seq(Jobs)
  <2>1. waiting \in Seq(Jobs) BY DEF TypeOK
  <2>2. CASE UNCHANGED waiting BY <2>1, <2>2
  <2>3. ASSUME NEW n \in DOMAIN waiting,
               waiting' = SubSeq(waiting, 1, n-1) \o SubSeq(waiting, n+1, Len(waiting))
        PROVE  waiting' \in Seq(Jobs)
    BY <2>1, <2>3, RemoveAtProperties, Zenon
  <2>4. QED BY <2>2, <2>3 DEF Withdraw
<1>3. QED BY <1>1, <1>2 DEF Withdraw

LEMMA AdmittedType ==
  ASSUME TypeOK, NEW c \in Calls, Admitted(c)
  PROVE  waiters' \in Seq(Calls)
BY DEF TypeOK, Admitted

LEMMA TypeInit == Init => TypeOK
BY DEF Init, TypeOK, Holding

LEMMA TypeStep == TypeOK /\ [Next]_vars => TypeOK'
<1> SUFFICES ASSUME TypeOK, [Next]_vars PROVE TypeOK'
  OBVIOUS
<1> USE DEF vars, loop, executor, clients
<1>0. "idle" \in PCs /\ "locking" \in PCs /\ "answered" \in PCs /\ Holding \subseteq PCs
  BY DEF PCs, Holding
<1>1. ASSUME NEW c \in Calls, Acquire(c) PROVE TypeOK'
  <2>1. waiters' \in Seq(Calls)
    BY <1>1, AdmittedType DEF Acquire
  <2>2. CASE client # None /\ StartDisconnect(c)
    <3>1. pc' \in [Calls -> PCs] /\ waiting' \in Seq(Jobs) /\ UNCHANGED <<running, stage>>
      BY <2>2, SubmitType DEF StartDisconnect, JobKinds, TypeOK
    <3>2. QED BY <1>1, <2>1, <2>2, <3>1 DEF TypeOK, PCs, Acquire, StartDisconnect
  <2>3. CASE StartConnect(c)
    <3>1. pc' \in [Calls -> PCs] /\ waiting' \in Seq(Jobs) /\ UNCHANGED <<running, stage>>
      BY <2>3, SubmitType DEF StartConnect, JobKinds
    <3>2. client' \in Clients /\ gateway' \in [Clients -> Envs] /\ UNCHANGED open
      BY <2>3, FreshClient DEF TypeOK
    <3>3. QED BY <1>1, <2>1, <3>1, <3>2 DEF TypeOK, PCs, Acquire
  <2>4. QED BY <1>1, <2>2, <2>3 DEF Acquire
<1>2. ASSUME NEW c \in Calls, DropNothing(c) PROVE TypeOK'
  BY <1>2, AdmittedType, ReturnType DEF DropNothing, TypeOK, PCs
<1>3. ASSUME NEW c \in Calls, ConfigFails(c) PROVE TypeOK'
  BY <1>3, AdmittedType, ReturnType DEF ConfigFails, TypeOK, PCs
<1>4. ASSUME NEW c \in Calls, Disconnected(c) PROVE TypeOK'
  <2>1. CASE Return(c) /\ UNCHANGED <<client, executor, clients>>
    BY <1>4, <2>1, ReturnType DEF Disconnected, TypeOK, PCs
  <2>2. CASE StartConnect(c) /\ UNCHANGED <<kind, owner, seen>>
    <3>1. pc' \in [Calls -> PCs] /\ waiting' \in Seq(Jobs) /\ UNCHANGED <<running, stage>>
      BY <2>2, SubmitType DEF StartConnect, JobKinds
    <3>2. client' \in Clients /\ gateway' \in [Clients -> Envs] /\ UNCHANGED open
      BY <2>2, FreshClient DEF TypeOK
    <3>3. QED BY <1>4, <2>2, <3>1, <3>2 DEF TypeOK, PCs, Disconnected
  <2>3. QED BY <1>4, <2>1, <2>2 DEF Disconnected
<1>5. ASSUME NEW c \in Calls, Connected(c) PROVE TypeOK'
  <2>1. CASE Return(c) /\ UNCHANGED executor
    BY <1>5, <2>1, ReturnType DEF Connected, TypeOK, PCs
  <2>2. CASE owner' = None /\ Submit(c, "operate", client) /\ UNCHANGED <<kind, seen>>
    <3>1. pc' \in [Calls -> PCs] /\ waiting' \in Seq(Jobs) /\ UNCHANGED <<running, stage>>
      BY <2>2, SubmitType DEF JobKinds, TypeOK
    <3>2. QED BY <1>5, <2>2, <3>1 DEF TypeOK, PCs, Connected
  <2>3. QED BY <1>5, <2>1, <2>2 DEF Connected
<1>6. ASSUME NEW c \in Calls, ConnectFails(c) PROVE TypeOK'
  BY <1>6, ReturnType, WithdrawType DEF ConnectFails, TypeOK, PCs
<1>7. ASSUME NEW c \in Calls, OperationEnds(c) PROVE TypeOK'
  BY <1>7, ReturnType, WithdrawType DEF OperationEnds, TypeOK, PCs
<1>8. ASSUME NEW c \in Calls, Cancel(c) PROVE TypeOK'
  <2>1. waiters \in Seq(Calls) BY DEF TypeOK
  <2>2. waiters' \in Seq(Calls)
    BY <1>8, <2>1, WaitersType DEF Cancel
  <2>3. QED BY <1>8, <2>2, ReturnType, WithdrawType DEF Cancel, TypeOK, PCs
<1>9. ASSUME NEW c \in Calls, NEW kd \in Kinds, Begin(c, kd) PROVE TypeOK'
  BY <1>9 DEF Begin, Goto, TypeOK
<1>10. ASSUME NEW e \in Envs, ChangeEnvironment(e) PROVE TypeOK'
  BY <1>10 DEF ChangeEnvironment, TypeOK
<1>11. ASSUME TakeJob PROVE TypeOK'
  <2>1. Head(waiting) \in Jobs /\ Tail(waiting) \in Seq(Jobs)
    BY <1>11 DEF TakeJob, TypeOK
  <2>2. QED BY <1>11, <2>1, NoneAssumption DEF TakeJob, TypeOK
<1>12. ASSUME Disconnect PROVE TypeOK'
  <2>1. running # None BY <1>12 DEF Disconnect, TypeOK
  <2>2. "disconnected" \in PCs BY DEF PCs, Holding
  <2>3. QED BY <1>12, <2>1, <2>2, FinishType DEF Disconnect, TypeOK, PCs
<1>13. ASSUME Connect PROVE TypeOK'
  <2>1. running \in Jobs BY <1>13 DEF Connect, TypeOK
  <2>2. running # None BY <2>1, NoneAssumption
  <2>3. "refused" \in PCs /\ "connected" \in PCs BY DEF PCs, Holding
  <2>4. CASE Finish("refused") \/ Finish("connected")
    BY <1>13, <2>2, <2>3, <2>4, FinishType DEF Connect, TypeOK, PCs
  <2>5. CASE /\ client # None
             /\ running' = [running EXCEPT !.client = client]
             /\ stage' = "handshake"
             /\ UNCHANGED <<loop, waiting, env, seen>>
    <3>1. running' \in Jobs /\ running'.client # None /\ running'.kind = "connect"
      BY <1>13, <2>1, <2>5 DEF Connect, Jobs, TypeOK
    <3>2. QED BY <1>13, <2>5, <3>1, NoneAssumption DEF Connect, TypeOK
  <2>6. QED BY <1>13, <2>4, <2>5 DEF Connect
<1>14. ASSUME Handshake PROVE TypeOK'
  <2>1. running.client \in Clients
    BY <1>14 DEF Handshake, TypeOK, Jobs
  <2>2. QED BY <1>14, <2>1 DEF Handshake, TypeOK
<1>15. ASSUME HandshakeFails PROVE TypeOK'
  <2>1. running # None BY <1>15 DEF HandshakeFails, TypeOK
  <2>2. "refused" \in PCs BY DEF PCs, Holding
  <2>3. QED BY <1>15, <2>1, <2>2, FinishType DEF HandshakeFails, TypeOK, PCs
<1>16. ASSUME NEW p \in {"connected", "refused"}, AskTime(p) PROVE TypeOK'
  <2>1. running # None BY <1>16 DEF AskTime, TypeOK
  <2>2. p \in PCs BY DEF PCs, Holding
  <2>3. QED BY <1>16, <2>1, <2>2, FinishType DEF AskTime, TypeOK, PCs
<1>17. ASSUME Operate PROVE TypeOK'
  <2>1. running # None BY <1>17 DEF Operate, TypeOK
  <2>2. QED BY <1>0, <1>17, <2>1, FinishType DEF Operate, TypeOK, PCs
<1>18. ASSUME UNCHANGED vars PROVE TypeOK'
  BY <1>18 DEF TypeOK
<1>19. QED
  BY <1>1, <1>2, <1>3, <1>4, <1>5, <1>6, <1>7, <1>8, <1>9, <1>10, <1>11, <1>12,
     <1>13, <1>14, <1>15, <1>16, <1>17, <1>18
  DEF Next, Proceed, Work

(***************************************************************************)
(* The lock                                                                *)
(***************************************************************************)

\* A job that ends for a call leaves it inside or outside of the lock.
LEMMA FinishLock ==
  ASSUME TypeOK, LockInv, JobInv, running # None, NEW p \in PCs, Finish(p),
         p \in Holding <=> AtJob[running.kind] \in Holding
  PROVE  LockInv'
<1>1. CASE running.call = None
  BY <1>1 DEF Finish, LockInv
<1>2. CASE running.call # None
  <2>1. running.call \in Calls BY <1>2 DEF TypeOK, Jobs
  <2>2. pc[running.call] = AtJob[running.kind] BY <1>2 DEF JobInv
  <2>3. pc' = [pc EXCEPT ![running.call] = p] /\ owner' = owner
    BY <1>2 DEF Finish
  <2>4. QED BY <2>1, <2>2, <2>3 DEF LockInv, TypeOK
<1>3. QED BY <1>1, <1>2

LEMMA LockStep ==
  ASSUME TypeOK, LockInv, JobInv, [Next]_vars
  PROVE  LockInv'
<1> USE NoneAssumption DEF vars, loop, executor, clients, Goto
<1>0. /\ pc \in [Calls -> PCs] /\ \A c \in Calls : c # None
      /\ \A job \in JobKinds : AtJob[job] \in Holding <=> job # "operate"
  BY DEF TypeOK, PCs, JobKinds, AtJob, Holding
<1>1. ASSUME NEW c \in Calls, Return(c) PROVE LockInv'
  BY <1>0, <1>1 DEF Return, LockInv, Holding
<1>2. ASSUME NEW c \in Calls, Acquire(c) PROVE LockInv'
  <2>1. \E job \in {"connect", "disconnect"}, k \in Clients \cup {None} : Submit(c, job, k)
    BY <1>2 DEF Acquire, StartConnect, StartDisconnect, TypeOK
  <2>2. pc' = [pc EXCEPT ![c] = "connecting"] \/ pc' = [pc EXCEPT ![c] = "disconnecting"]
    BY <2>1, AtJobs DEF Submit
  <2>3. owner = None /\ owner' = c
    BY <1>2 DEF Acquire, Admitted
  <2>4. QED BY <1>0, <2>2, <2>3 DEF LockInv, Holding
<1>3. ASSUME NEW c \in Calls, Disconnected(c) PROVE LockInv'
  <2>1. CASE StartConnect(c) /\ UNCHANGED owner
    <3>1. Submit(c, "connect", None)
      BY <2>1, FreshClient
    <3>2. pc' = [pc EXCEPT ![c] = "connecting"]
      BY <3>1, AtJobs DEF Submit
    <3>3. QED BY <1>0, <1>3, <2>1, <3>2 DEF Disconnected, LockInv, Holding
  <2>2. QED BY <1>1, <1>3, <2>1 DEF Disconnected
<1>4. ASSUME NEW c \in Calls, Connected(c) PROVE LockInv'
  <2>1. CASE owner' = None /\ Submit(c, "operate", client)
    <3>1. pc' = [pc EXCEPT ![c] = "operating"]
      BY <2>1 DEF Submit, AtJob
    <3>2. QED BY <1>0, <1>4, <2>1, <3>1 DEF Connected, LockInv, Holding
  <2>2. QED BY <1>1, <1>4, <2>1 DEF Connected
<1>5. ASSUME NEW c \in Calls, NEW kd \in Kinds, Begin(c, kd) PROVE LockInv'
  BY <1>0, <1>5 DEF Begin, LockInv, Holding
<1>6. ASSUME Work PROVE LockInv'
  <2>1. CASE UNCHANGED loop
    BY <2>1 DEF LockInv
  <2>2. ASSUME Disconnect PROVE LockInv'
    BY <2>2, FinishLock DEF Disconnect, TypeOK, AtJob, Holding, PCs
  <2>3. ASSUME Connect PROVE LockInv'
    BY <2>1, <2>3, FinishLock DEF Connect, TypeOK, AtJob, Holding, PCs
  <2>4. ASSUME Operate PROVE LockInv'
    BY <2>4, FinishLock DEF Operate, TypeOK, AtJob, Holding, PCs
  <2>5. ASSUME HandshakeFails \/ \E p \in {"connected", "refused"} : AskTime(p)
        PROVE  LockInv'
    BY <2>5, FinishLock DEF HandshakeFails, AskTime, TypeOK, AtJob, Holding, PCs
  <2>6. QED
    BY <1>6, <2>1, <2>2, <2>3, <2>4, <2>5 DEF Work, TakeJob, Handshake
<1>7. CASE UNCHANGED <<pc, owner>>
  BY <1>7 DEF LockInv
<1>8. QED
  BY <1>1, <1>2, <1>3, <1>4, <1>5, <1>6, <1>7
  DEF Next, Proceed, DropNothing, ConfigFails, ConnectFails, OperationEnds, Cancel,
      ChangeEnvironment

(***************************************************************************)
(* The queue                                                               *)
(***************************************************************************)

LEMMA FirstJob ==
  ASSUME TypeOK, waiting # << >>
  PROVE  1 \in DOMAIN waiting
<1>1. waiting \in Seq(Jobs) BY DEF TypeOK
<1>2. Len(waiting) \in Nat /\ DOMAIN waiting = 1..Len(waiting) BY <1>1, LenProperties
<1>3. Len(waiting) # 0 BY <1>1, EmptySeq, Zenon
<1>4. QED BY <1>2, <1>3

Waits == {"connecting", "disconnecting", "operating"}

\* A call that does not wait for a job has none.
LEMMA NoJob ==
  ASSUME TypeOK, JobInv, NEW c \in Calls, pc[c] \notin Waits
  PROVE  /\ \A i \in DOMAIN waiting : waiting[i].call # c
         /\ running # None => running.call # c
<1>1. \A i \in DOMAIN waiting : waiting[i] \in Jobs
  BY ElementOfSeq, LenProperties DEF TypeOK
<1>2. \A job \in Jobs : AtJob[job.kind] \in Waits
  BY DEF Jobs, JobKinds, AtJob, Waits
<1>3. running # None => running \in Jobs
  BY DEF TypeOK
<1>4. QED BY <1>1, <1>2, <1>3, NoneAssumption DEF JobInv

LEMMA SubmitJob ==
  ASSUME TypeOK, JobInv, NEW c \in Calls, NEW job \in JobKinds, NEW k \in Clients \cup {None},
         pc[c] \notin Waits, Submit(c, job, k)
  PROVE  /\ JobInv'
         /\ Len(waiting') = Len(waiting) + 1
         /\ \A i \in DOMAIN waiting : waiting'[i] = waiting[i]
         /\ waiting'[Len(waiting) + 1] = [kind |-> job, client |-> k, call |-> c]
         /\ DOMAIN waiting' = 1..(Len(waiting) + 1) /\ DOMAIN waiting = 1..Len(waiting)
<1>1. [kind |-> job, client |-> k, call |-> c] \in Jobs
  BY DEF Jobs
<1>2. /\ waiting \in Seq(Jobs) /\ Len(waiting) \in Nat
      /\ waiting' = Append(waiting, [kind |-> job, client |-> k, call |-> c])
      /\ pc' = [pc EXCEPT ![c] = AtJob[job]] /\ UNCHANGED running
  BY LenProperties DEF TypeOK, Submit, Goto
<1>3. /\ Len(waiting') = Len(waiting) + 1
      /\ \A i \in DOMAIN waiting : waiting'[i] = waiting[i]
      /\ waiting'[Len(waiting) + 1] = [kind |-> job, client |-> k, call |-> c]
      /\ DOMAIN waiting' = 1..(Len(waiting) + 1) /\ DOMAIN waiting = 1..Len(waiting)
  BY <1>1, <1>2, AppendProperties, LenProperties
<1>4. /\ \A i \in DOMAIN waiting : waiting[i].call # c
      /\ running # None => running.call # c
  BY NoJob
<1>5. pc'[c] = AtJob[job] /\ \A d \in Calls : d # c => pc'[d] = pc[d]
  BY <1>2 DEF TypeOK
<1>6. \A i \in DOMAIN waiting' : i \in DOMAIN waiting \/ i = Len(waiting) + 1
  BY <1>2, <1>3
<1>7. \A i \in DOMAIN waiting' :
        waiting'[i].call \in Calls /\ pc'[waiting'[i].call] = AtJob[waiting'[i].kind]
  BY <1>3, <1>4, <1>5, <1>6 DEF JobInv
<1>8. \A i, j \in DOMAIN waiting' : i # j => waiting'[i].call # waiting'[j].call
  BY <1>3, <1>4, <1>6 DEF JobInv
<1>9. (running # None /\ running.call # None) =>
        /\ pc'[running.call] = AtJob[running.kind]
        /\ \A i \in DOMAIN waiting' : waiting'[i].call # running.call
  <2>1. ASSUME running # None, running.call # None PROVE running.call \in Calls
    BY <2>1 DEF TypeOK, Jobs
  <2>2. QED BY <1>3, <1>4, <1>5, <1>6, <2>1 DEF JobInv
<1>10. JobInv' BY <1>2, <1>7, <1>8, <1>9 DEF JobInv
<1>11. QED BY <1>3, <1>10

\* A job that the owner of the lock submits, other than an operation.
LEMMA SubmitQueue ==
  ASSUME TypeOK, LockInv, QueueInv, NEW c \in Calls, owner \in {c, None},
         pc[c] \in {"locking", "disconnected"},
         NEW job \in {"connect", "disconnect"}, NEW k \in Clients \cup {None},
         Submit(c, job, k)
  PROVE  QueueInv'
<1>1. job \in JobKinds /\ pc[c] \notin Waits
  BY DEF JobKinds, Waits
<1>2. /\ JobInv'
      /\ \A i \in DOMAIN waiting : waiting'[i] = waiting[i]
      /\ waiting'[Len(waiting) + 1].kind = job
      /\ DOMAIN waiting' = 1..(Len(waiting) + 1) /\ DOMAIN waiting = 1..Len(waiting)
  <2>1. JobInv BY DEF QueueInv
  <2>2. /\ JobInv'
        /\ \A i \in DOMAIN waiting : waiting'[i] = waiting[i]
        /\ waiting'[Len(waiting) + 1] = [kind |-> job, client |-> k, call |-> c]
        /\ DOMAIN waiting' = 1..(Len(waiting) + 1) /\ DOMAIN waiting = 1..Len(waiting)
    BY <1>1, <2>1, SubmitJob, Zenon
  <2>3. QED BY <2>2
<1>3. UNCHANGED running /\ Len(waiting) \in Nat
  BY LenProperties DEF Submit, TypeOK
<1>4. OperationsDoNotWait'
  BY <1>2, <1>3 DEF QueueInv, OperationsDoNotWait
<1>5. \A d \in Calls : pc[d] = "connected" => FALSE
  BY NoneAssumption DEF LockInv, Holding
<1>6. \A d \in Calls : pc'[d] # "connected"
  <2>1. pc' = [pc EXCEPT ![c] = AtJob[job]] BY DEF Submit, Goto
  <2>2. AtJob[job] # "connected" BY AtJobs
  <2>3. QED BY <1>5, <2>1, <2>2 DEF TypeOK
<1>7. QED BY <1>2, <1>4, <1>6 DEF QueueInv, CalmInv

\* A call ends and leaves the executor alone.
LEMMA ReturnQueue ==
  ASSUME TypeOK, QueueInv, NEW c \in Calls, pc[c] \notin Waits, Return(c),
         UNCHANGED executor
  PROVE  QueueInv'
<1>1. /\ \A i \in DOMAIN waiting : waiting[i].call # c
      /\ running # None => running.call # c
  BY NoJob DEF QueueInv
<1>2. pc'[c] = "idle" /\ \A d \in Calls : d # c => pc'[d] = pc[d]
  BY DEF Return, Goto, TypeOK
<1>3. UNCHANGED <<running, waiting>> BY DEF executor
<1>4. (running # None /\ running.call # None) => running.call \in Calls
  BY DEF TypeOK, Jobs
<1>5. JobInv'
  BY <1>1, <1>2, <1>3, <1>4 DEF QueueInv, JobInv
<1>6. OperationsDoNotWait' /\ CalmInv'
  BY <1>2, <1>3 DEF QueueInv, OperationsDoNotWait, CalmInv
<1>7. QED BY <1>5, <1>6 DEF QueueInv

\* A call ends and gives up what it has submitted.
LEMMA GiveUpQueue ==
  ASSUME TypeOK, QueueInv, NEW c \in Calls, Withdraw(c), Return(c)
  PROVE  QueueInv'
<1>1. JobInv BY DEF QueueInv
<1>2. pc'[c] = "idle" /\ \A d \in Calls : d # c => pc'[d] = pc[d]
  BY DEF Return, Goto, TypeOK
<1>3. /\ \A i \in DOMAIN waiting' : \E m \in DOMAIN waiting :
           /\ i <= m /\ waiting'[i] = waiting[m] /\ waiting[m].call # c
      /\ \A i, j \in DOMAIN waiting' : i # j => waiting'[i].call # waiting'[j].call
      /\ waiting = << >> => waiting' = << >>
      /\ running' = None <=> running = None
      /\ running # None =>
           /\ running'.kind = running.kind /\ running'.client = running.client
           /\ running'.call = IF running.call = c THEN None ELSE running.call
  BY <1>1, WithdrawProperties
<1>4. \A i \in DOMAIN waiting' :
        waiting'[i].call \in Calls /\ pc'[waiting'[i].call] = AtJob[waiting'[i].kind]
  BY <1>1, <1>2, <1>3 DEF JobInv
<1>5. (running' # None /\ running'.call # None) =>
        /\ pc'[running'.call] = AtJob[running'.kind]
        /\ \A i \in DOMAIN waiting' : waiting'[i].call # running'.call
  <2>1. (running # None /\ running.call # None) => running.call \in Calls
    BY DEF TypeOK, Jobs
  <2>2. QED BY <1>1, <1>2, <1>3, <2>1 DEF JobInv
<1>6. OperationsDoNotWait'
  <2>1. ASSUME NEW i \in DOMAIN waiting', waiting'[i].kind = "operate"
        PROVE  i = 1 /\ running' = None
    <3>1. PICK m \in DOMAIN waiting : i <= m /\ waiting'[i] = waiting[m]
      BY <1>3
    <3>2. m = 1 /\ running = None
      BY <2>1, <3>1 DEF QueueInv, OperationsDoNotWait
    <3>3. waiting' \in Seq(Jobs) BY <1>1, WithdrawProperties
    <3>4. i \in 1..Len(waiting') /\ Len(waiting') \in Nat
      BY <3>3, LenProperties
    <3>5. QED BY <1>3, <3>1, <3>2, <3>4
  <2>2. QED BY <2>1 DEF OperationsDoNotWait
<1>7. CalmInv'
  BY <1>2, <1>3 DEF QueueInv, CalmInv
<1>8. QED BY <1>3, <1>4, <1>5, <1>6, <1>7 DEF QueueInv, JobInv

\* The worker ends a job.
LEMMA FinishQueue ==
  ASSUME TypeOK, LockInv, QueueInv, running # None, NEW p \in PCs, Finish(p),
         p = "connected" => running.kind = "connect"
  PROVE  QueueInv'
<1>1. running' = None /\ UNCHANGED waiting BY DEF Finish
<1>2. \A i \in DOMAIN waiting :
        waiting[i] \in Jobs /\ waiting[i].call # running.call /\ waiting[i].call # None
  <2>1. \A i \in DOMAIN waiting : waiting[i] \in Jobs
    BY ElementOfSeq, LenProperties DEF TypeOK
  <2>2. QED BY <2>1, NoneAssumption DEF QueueInv, JobInv
<1>3. \A d \in Calls : pc'[d] = IF d = running.call THEN p ELSE pc[d]
  BY NoneAssumption DEF Finish, TypeOK
<1>4. JobInv'
  BY <1>1, <1>2, <1>3 DEF QueueInv, JobInv
<1>5. OperationsDoNotWait'
  BY <1>1 DEF QueueInv, OperationsDoNotWait
<1>6. ASSUME NEW d \in Calls, pc'[d] = "connected" PROVE waiting = << >>
  <2>1. d = running.call /\ running.kind = "connect" /\ pc[d] = "connecting"
    BY <1>3, <1>6, AtJobs, NoneAssumption DEF QueueInv, CalmInv, JobInv
  <2>2. owner = d BY <2>1 DEF LockInv, Holding
  <2>3. ASSUME NEW i \in DOMAIN waiting PROVE FALSE
    <3>1. waiting[i].kind # "operate"
      BY <2>3 DEF QueueInv, OperationsDoNotWait
    <3>2. AtJob[waiting[i].kind] \in Holding
      BY <1>2, <3>1 DEF Jobs, JobKinds, AtJob, Holding
    <3>3. owner = waiting[i].call
      BY <3>2 DEF QueueInv, JobInv, LockInv
    <3>4. QED BY <1>2, <2>1, <2>2, <3>3
  <2>4. QED BY <2>3, FirstJob
<1>7. QED BY <1>1, <1>4, <1>5, <1>6 DEF QueueInv, CalmInv

\* The operation of a call whose connect has ended is alone.
LEMMA OperateQueue ==
  ASSUME TypeOK, LockInv, QueueInv, NEW c \in Calls, pc[c] = "connected",
         Submit(c, "operate", client)
  PROVE  QueueInv'
<1>1. waiting = << >> /\ running = None /\ JobInv
  BY DEF QueueInv, CalmInv
<1>2. /\ JobInv'
      /\ DOMAIN waiting' = 1..(Len(waiting) + 1)
  <2>1. "operate" \in JobKinds /\ pc[c] \notin Waits /\ client \in Clients \cup {None}
    BY DEF JobKinds, Waits, TypeOK
  <2>2. QED BY <1>1, <2>1, SubmitJob, Zenon
<1>3. UNCHANGED running /\ Len(waiting) = 0
  BY <1>1 DEF Submit
<1>4. OperationsDoNotWait'
  BY <1>1, <1>2, <1>3 DEF OperationsDoNotWait
<1>5. \A d \in Calls : pc[d] = "connected" => d = c
  BY DEF LockInv, Holding
<1>6. \A d \in Calls : pc'[d] # "connected"
  <2>1. pc' = [pc EXCEPT ![c] = "operating"] BY AtJobs DEF Submit, Goto
  <2>2. QED BY <1>5, <2>1 DEF TypeOK
<1>7. QED BY <1>2, <1>4, <1>6 DEF QueueInv, CalmInv

\* The worker takes the oldest job; the others move up.
LEMMA TakeJobProperties ==
  ASSUME TypeOK, TakeJob
  PROVE  /\ 1 \in DOMAIN waiting /\ running' = waiting[1] /\ running' \in Jobs
         /\ \A i \in DOMAIN waiting' : i + 1 \in DOMAIN waiting /\ i + 1 # 1
                                       /\ waiting'[i] = waiting[i + 1]
<1>1. waiting \in Seq(Jobs) /\ waiting # << >> BY DEF TypeOK, TakeJob
<1>2. 1 \in DOMAIN waiting BY <1>1, FirstJob
<1>3. DOMAIN waiting = 1..Len(waiting) /\ Len(waiting) \in Nat
  BY <1>1, LenProperties
<1>4. running' = Head(waiting) /\ waiting' = Tail(waiting)
  BY DEF TakeJob
<1>5. /\ Head(waiting) \in Jobs /\ Tail(waiting) \in Seq(Jobs)
      /\ Len(Tail(waiting)) = Len(waiting) - 1
      /\ \A i \in 1..Len(Tail(waiting)) : Tail(waiting)[i] = waiting[i + 1]
  BY <1>1, HeadTailProperties, Zenon
<1>6. DOMAIN waiting' = 1..(Len(waiting) - 1)
  BY <1>4, <1>5, LenProperties
<1>7. Head(waiting) = waiting[1] BY <1>1
<1>8. QED BY <1>2, <1>3, <1>4, <1>5, <1>6, <1>7

LEMMA TakeJobQueue ==
  ASSUME TypeOK, QueueInv, TakeJob
  PROVE  QueueInv'
<1>1. /\ 1 \in DOMAIN waiting /\ running' = waiting[1] /\ running' \in Jobs
      /\ \A i \in DOMAIN waiting' : i + 1 \in DOMAIN waiting /\ i + 1 # 1
                                    /\ waiting'[i] = waiting[i + 1]
  BY TakeJobProperties
<1>2. \A i, j \in DOMAIN waiting' : i # j => i + 1 # j + 1
  <2>1. waiting' \in Seq(Jobs) BY DEF TakeJob, TypeOK
  <2>2. DOMAIN waiting' = 1..Len(waiting') /\ Len(waiting') \in Nat
    BY <2>1, LenProperties
  <2>3. QED BY <2>2
<1>3. UNCHANGED pc /\ waiting # << >> BY DEF TakeJob, loop
<1>4. JobInv'
  BY <1>1, <1>2, <1>3 DEF QueueInv, JobInv
<1>5. OperationsDoNotWait'
  BY <1>1 DEF QueueInv, OperationsDoNotWait
<1>6. CalmInv'
  BY <1>3 DEF QueueInv, CalmInv
<1>7. QED BY <1>4, <1>5, <1>6 DEF QueueInv

\* Where the steps of the calls that leave the lock to somebody find them.
LEMMA FirstSubmit ==
  ASSUME TypeOK, NEW c \in Calls, Acquire(c) \/ (Disconnected(c) /\ kind[c] # "drop")
  PROVE  /\ pc[c] \in {"locking", "disconnected"}
         /\ pc[c] = "locking" => owner = None
         /\ \E job \in {"connect", "disconnect"}, k \in Clients \cup {None} :
              Submit(c, job, k)
<1>1. CASE Acquire(c)
  <2>1. CASE StartDisconnect(c)
    BY <1>1, <2>1 DEF Acquire, Admitted, StartDisconnect, TypeOK
  <2>2. CASE StartConnect(c)
    BY <1>1, <2>2, FreshClient DEF Acquire, Admitted
  <2>3. QED BY <1>1, <2>1, <2>2 DEF Acquire
<1>2. CASE Disconnected(c) /\ kind[c] # "drop"
  BY <1>2, FreshClient DEF Disconnected
<1>3. QED BY <1>1, <1>2

LEMMA QueueStep ==
  ASSUME TypeOK, LockInv, QueueInv, [Next]_vars
  PROVE  QueueInv'
<1> USE DEF vars, loop, executor, clients
<1>1. ASSUME NEW c \in Calls, Acquire(c) \/ (Disconnected(c) /\ kind[c] # "drop")
      PROVE  QueueInv'
  <2>1. /\ pc[c] \in {"locking", "disconnected"} /\ owner \in {c, None}
        /\ \E job \in {"connect", "disconnect"}, k \in Clients \cup {None} :
             Submit(c, job, k)
    BY <1>1, FirstSubmit DEF LockInv, Holding
  <2>2. QED BY <2>1, SubmitQueue
<1>2. ASSUME NEW c \in Calls, Return(c), UNCHANGED executor, pc[c] \notin Waits
      PROVE  QueueInv'
  BY <1>2, ReturnQueue
<1>3. ASSUME NEW c \in Calls,
             DropNothing(c) \/ ConfigFails(c) \/ (Disconnected(c) /\ kind[c] = "drop")
      PROVE  QueueInv'
  BY <1>2, <1>3 DEF DropNothing, ConfigFails, Disconnected, Admitted, Waits
<1>4. ASSUME NEW c \in Calls, Connected(c) PROVE QueueInv'
  <2>1. CASE Return(c) /\ UNCHANGED executor
    BY <1>2, <1>4, <2>1 DEF Connected, Waits
  <2>2. CASE Submit(c, "operate", client)
    BY <1>4, <2>2, OperateQueue DEF Connected
  <2>3. QED BY <1>4, <2>1, <2>2 DEF Connected
<1>5. ASSUME NEW c \in Calls, ConnectFails(c) \/ OperationEnds(c) \/ Cancel(c)
      PROVE  QueueInv'
  BY <1>5, GiveUpQueue DEF ConnectFails, OperationEnds, Cancel
<1>6. ASSUME NEW c \in Calls, NEW kd \in Kinds, Begin(c, kd) PROVE QueueInv'
  <2>1. /\ \A i \in DOMAIN waiting : waiting[i].call # c
        /\ running # None => running.call # c
    BY <1>6, NoJob DEF Begin, Waits, QueueInv
  <2>2. /\ \A d \in Calls : pc'[d] = IF d = c THEN "locking" ELSE pc[d]
        /\ UNCHANGED <<running, waiting>>
    BY <1>6 DEF Begin, Goto, TypeOK
  <2>3. (running # None /\ running.call # None) => running.call \in Calls
    BY DEF TypeOK, Jobs
  <2>4. JobInv' BY <2>1, <2>2, <2>3 DEF QueueInv, JobInv
  <2>5. OperationsDoNotWait' /\ CalmInv'
    BY <2>2 DEF QueueInv, OperationsDoNotWait, CalmInv
  <2>6. QED BY <2>4, <2>5 DEF QueueInv
<1>7. CASE UNCHANGED <<pc, running, waiting>>
  BY <1>7 DEF QueueInv, JobInv, OperationsDoNotWait, CalmInv
<1>8. CASE Disconnect \/ Operate \/ HandshakeFails
  <2>1. /\ running # None
        /\ \E p \in {"disconnected", "answered", "refused"} : Finish(p)
    BY <1>8 DEF Disconnect, Operate, HandshakeFails, TypeOK
  <2>2. QED BY <2>1, FinishQueue DEF PCs, Holding
<1>9. ASSUME NEW p \in {"connected", "refused"}, AskTime(p) PROVE QueueInv'
  BY <1>9, FinishQueue DEF AskTime, TypeOK, PCs, Holding
<1>10. ASSUME Connect PROVE QueueInv'
  <2>0. running \in Jobs /\ running # None /\ running.kind = "connect"
    BY <1>10, NoneAssumption DEF Connect, TypeOK
  <2>1. CASE Finish("refused") \/ Finish("connected")
    BY <2>0, <2>1, FinishQueue DEF PCs, Holding
  <2>2. CASE running' = [running EXCEPT !.client = client] /\ UNCHANGED <<loop, waiting>>
    <3>1. running'.kind = running.kind /\ running'.call = running.call
      BY <2>0, <2>2 DEF Jobs
    <3>2. \A d \in Calls : pc[d] # "connected"
      BY <2>0 DEF QueueInv, CalmInv
    <3>3. \A i \in DOMAIN waiting : waiting[i].kind # "operate"
      BY <2>0 DEF QueueInv, OperationsDoNotWait
    <3>4. QED
      BY <2>0, <2>2, <3>1, <3>2, <3>3 DEF QueueInv, JobInv, OperationsDoNotWait, CalmInv
  <2>3. QED BY <1>10, <2>1, <2>2 DEF Connect
<1>11. QED
  BY <1>1, <1>3, <1>4, <1>5, <1>6, <1>7, <1>8, <1>9, <1>10, TakeJobQueue
  DEF Next, Proceed, Work, Disconnected, ChangeEnvironment, Handshake

(***************************************************************************)
(* The client                                                              *)
(***************************************************************************)

\* A client that the field takes anew is no business of a call that has the lock.
LEMMA ClientStep ==
  ASSUME TypeOK, LockInv, QueueInv, ClientInv, [Next]_vars
  PROVE  ClientInv'
<1> USE DEF vars, loop, executor, clients
<1>0. /\ pc \in [Calls -> PCs] /\ JobInv
      /\ \A i \in DOMAIN waiting : waiting[i] \in Jobs
      /\ running # None => running \in Jobs
      /\ "idle" \notin Waits /\ None \notin Calls
  BY ElementOfSeq, LenProperties, NoneAssumption DEF TypeOK, PCs, Waits, QueueInv
\* The owner of the lock changes the field: nobody is connected or connecting.
<1>1. ASSUME NEW c \in Calls, Acquire(c) \/ (Disconnected(c) /\ kind[c] # "drop")
      PROVE  ClientInv'
  <2>1. PICK job \in {"connect", "disconnect"}, k \in Clients \cup {None} :
          Submit(c, job, k)
    BY <1>1, FirstSubmit
  <2>2. /\ pc[c] \in {"locking", "disconnected"}
        /\ pc[c] = "locking" => owner = None
    BY <1>1, FirstSubmit
  <2>3. /\ \A i \in DOMAIN waiting : waiting'[i] = waiting[i]
        /\ waiting'[Len(waiting) + 1] = [kind |-> job, client |-> k, call |-> c]
        /\ DOMAIN waiting' = 1..(Len(waiting) + 1) /\ DOMAIN waiting = 1..Len(waiting)
    <3>1. job \in JobKinds /\ pc[c] \notin Waits BY <2>2 DEF JobKinds, Waits
    <3>2. QED BY <1>0, <2>1, <3>1, SubmitJob, Zenon
  <2>4. UNCHANGED <<running, stage, open>>
    BY <1>1, <2>1, FreshClient DEF Acquire, Disconnected, StartDisconnect, Submit
  <2>5. \A d \in Calls : pc[d] \notin {"connecting", "connected"}
    BY <2>2, <1>0 DEF LockInv, Holding
  <2>6. \A d \in Calls : pc'[d] # "connected"
    <3>1. pc' = [pc EXCEPT ![c] = AtJob[job]] BY <2>1 DEF Submit, Goto
    <3>2. AtJob[job] # "connected" BY AtJobs
    <3>3. QED BY <1>0, <2>5, <3>1, <3>2
  <2>7. ~(stage \in {"handshake", "asking"} /\ running.call # None)
    <3>1. ASSUME stage \in {"handshake", "asking"}, running.call # None PROVE FALSE
      <4>1. running \in Jobs /\ running # None /\ running.kind = "connect"
        BY <1>0, <3>1, NoneAssumption DEF TypeOK
      <4>2. running.call \in Calls BY <3>1, <4>1 DEF Jobs
      <4>3. pc[running.call] = "connecting" BY <1>0, <3>1, <4>1, AtJobs DEF JobInv
      <4>4. QED BY <2>5, <4>2, <4>3
    <3>2. QED BY <3>1
  <2>8. \A i \in DOMAIN waiting' : waiting'[i].kind = "operate" => waiting'[i].client \in open'
    <3>1. Len(waiting) \in Nat BY LenProperties DEF TypeOK
    <3>2. \A i \in DOMAIN waiting' : i \in DOMAIN waiting \/ i = Len(waiting) + 1
      BY <2>3, <3>1
    <3>3. QED BY <2>3, <2>4, <3>2 DEF ClientInv
  <2>9. QED BY <2>4, <2>6, <2>7, <2>8 DEF ClientInv
<1>2. ASSUME NEW c \in Calls, Return(c), UNCHANGED <<executor, client, open>>
      PROVE  ClientInv'
  BY <1>0, <1>2 DEF ClientInv, Return, Goto
<1>3. ASSUME NEW c \in Calls, Connected(c) PROVE ClientInv'
  <2>1. CASE Return(c) /\ UNCHANGED executor
    BY <1>2, <1>3, <2>1 DEF Connected
  <2>2. CASE Submit(c, "operate", client)
    <3>1. waiting = << >> /\ running = None /\ client \in open
      BY <1>3 DEF Connected, QueueInv, CalmInv, ClientInv
    <3>2. waiting' = << [kind |-> "operate", client |-> client, call |-> c] >>
      BY <2>2, <3>1 DEF Submit
    <3>3. UNCHANGED <<running, stage, client, open>> /\ stage = "idle"
      BY <1>3, <2>2, <3>1 DEF Connected, Submit, TypeOK
    <3>4. \A i \in DOMAIN waiting' : waiting'[i].client \in open'
      BY <3>1, <3>2, <3>3
    <3>5. \A d \in Calls : pc'[d] = "connected" => client' \in open'
      BY <3>1, <3>3
    <3>6. QED BY <3>1, <3>3, <3>4, <3>5 DEF ClientInv
  <2>3. QED BY <1>3, <2>1, <2>2 DEF Connected
<1>4. ASSUME NEW c \in Calls, Withdraw(c), Return(c), UNCHANGED open,
             UNCHANGED client \/ pc[c] \in Holding
      PROVE  ClientInv'
  <2>1. /\ \A i \in DOMAIN waiting' : \E m \in DOMAIN waiting : waiting'[i] = waiting[m]
        /\ running' = None <=> running = None
        /\ running # None =>
             /\ running'.kind = running.kind /\ running'.client = running.client
             /\ running'.call = IF running.call = c THEN None ELSE running.call
    BY <1>0, <1>4, WithdrawProperties
  <2>2. UNCHANGED stage BY <1>4 DEF Withdraw
  <2>3. \A d \in Calls : pc'[d] = IF d = c THEN "idle" ELSE pc[d]
    BY <1>0, <1>4 DEF Return, Goto
  <2>4. ASSUME NEW d \in Calls, d # c, pc[d] \in Holding PROVE UNCHANGED client
    BY <1>4, <2>4 DEF LockInv
  <2>5. \A d \in Calls : pc'[d] = "connected" => client' \in open'
    BY <1>4, <2>3, <2>4 DEF ClientInv, Holding
  <2>6. ASSUME stage \in {"handshake", "asking"}, running'.call # None
        PROVE  running'.client = client'
    <3>1. running \in Jobs /\ running # None /\ running.kind = "connect"
      BY <1>0, <2>6, NoneAssumption DEF TypeOK
    <3>2. running.call # c /\ running.call # None BY <2>1, <2>6, <3>1
    <3>3. running.call \in Calls BY <3>1, <3>2 DEF Jobs
    <3>4. pc[running.call] \in Holding BY <1>0, <3>1, <3>2, AtJobs DEF JobInv, Holding
    <3>5. UNCHANGED client BY <2>4, <3>2, <3>3, <3>4
    <3>6. QED BY <2>1, <2>6, <3>1, <3>2, <3>5 DEF ClientInv
  <2>7. stage = "idle" <=> running = None BY DEF TypeOK
  <2>8. QED BY <1>4, <2>1, <2>2, <2>5, <2>6, <2>7 DEF ClientInv
<1>5. ASSUME NEW c \in Calls, ConnectFails(c) \/ OperationEnds(c) \/ Cancel(c)
      PROVE  ClientInv'
  BY <1>4, <1>5 DEF ConnectFails, OperationEnds, Cancel, Holding
<1>6. ASSUME NEW c \in Calls, NEW kd \in Kinds, Begin(c, kd) PROVE ClientInv'
  BY <1>0, <1>6 DEF Begin, Goto, ClientInv
<1>7. CASE TakeJob
  BY <1>7, TakeJobProperties DEF TakeJob, ClientInv
<1>8. ASSUME NEW p \in PCs, Finish(p), running # None,
             (p = "connected" /\ running.call # None) => client \in open'
      PROVE  ClientInv'
  <2>1. running' = None /\ stage' = "idle" /\ UNCHANGED <<waiting, client>>
    BY <1>8 DEF Finish
  <2>2. \A i \in DOMAIN waiting : waiting[i].kind # "operate"
    BY <1>8 DEF QueueInv, OperationsDoNotWait
  <2>3. \A d \in Calls : pc[d] # "connected"
    BY <1>8 DEF QueueInv, CalmInv
  <2>4. ASSUME NEW d \in Calls, pc'[d] = "connected"
        PROVE  p = "connected" /\ running.call # None
    BY <1>0, <1>8, <2>3, <2>4 DEF Finish
  <2>5. QED BY <1>8, <2>1, <2>2, <2>4 DEF ClientInv
<1>9. CASE Disconnect \/ Operate \/ HandshakeFails
  <2>1. /\ running # None
        /\ \E p \in {"disconnected", "answered", "refused"} : Finish(p)
    BY <1>9 DEF Disconnect, Operate, HandshakeFails, TypeOK
  <2>2. QED BY <1>8, <2>1 DEF PCs, Holding
<1>10. ASSUME NEW p \in {"connected", "refused"}, AskTime(p) PROVE ClientInv'
  <2>1. running # None /\ p \in PCs /\ Finish(p) /\ UNCHANGED open
    BY <1>10 DEF AskTime, TypeOK, PCs, Holding
  <2>2. running.call # None => client \in open
    BY <1>10 DEF AskTime, ClientInv
  <2>3. QED BY <1>8, <2>1, <2>2
<1>11. ASSUME Connect PROVE ClientInv'
  <2>0. running \in Jobs /\ running # None /\ running.kind = "connect"
    BY <1>11, NoneAssumption DEF Connect, TypeOK
  <2>1. CASE Finish("refused") \/ (client \in open /\ Finish("connected"))
    BY <1>8, <1>11, <2>0, <2>1 DEF Connect, PCs, Holding
  <2>2. CASE /\ running' = [running EXCEPT !.client = client]
             /\ stage' = "handshake"
             /\ UNCHANGED <<loop, waiting, env, seen>>
    <3>1. /\ running'.kind = running.kind /\ running'.call = running.call
          /\ running'.client = client
      BY <2>0, <2>2 DEF Jobs
    <3>2. QED BY <1>11, <2>0, <2>2, <3>1 DEF Connect, ClientInv
  <2>3. QED BY <1>11, <2>1, <2>2 DEF Connect
<1>12. CASE Handshake
  BY <1>12 DEF Handshake, ClientInv
<1>13. CASE UNCHANGED <<loop, executor, open>>
  BY <1>13 DEF ClientInv
<1>14. QED
  BY <1>1, <1>2, <1>3, <1>5, <1>6, <1>7, <1>9, <1>10, <1>11, <1>12, <1>13
  DEF Next, Proceed, Work, DropNothing, ConfigFails, Disconnected, ChangeEnvironment

(***************************************************************************)
(* The environment                                                         *)
(***************************************************************************)

\* The gateway of a new client is configured now, and nobody has the client yet.
LEMMA GatewayStep ==
  ASSUME TypeOK, LockInv, QueueInv, GatewayInv, [Next]_vars
  PROVE  GatewayInv'
<1> USE DEF vars, loop, executor, clients
<1>0. /\ pc \in [Calls -> PCs] /\ seen \in [Calls -> SUBSET Envs] /\ JobInv
      /\ \A i \in DOMAIN waiting : waiting[i] \in Jobs /\ waiting[i].call \in Calls
      /\ running # None => running \in Jobs
      /\ (running # None /\ running.call # None) => running.call \in Calls
      /\ None \notin Calls
  <2>1. \A i \in DOMAIN waiting : waiting[i] \in Jobs
    BY ElementOfSeq, LenProperties DEF TypeOK
  <2>2. \A i \in DOMAIN waiting : waiting[i].call \in Calls
    BY DEF QueueInv, JobInv
  <2>3. (running # None /\ running.call # None) => running.call \in Calls
    BY DEF TypeOK, Jobs
  <2>4. QED BY <2>1, <2>2, <2>3, NoneAssumption DEF TypeOK, PCs, QueueInv
<1>1. ASSUME NEW c \in Calls, Acquire(c) \/ (Disconnected(c) /\ kind[c] # "drop")
      PROVE  GatewayInv'
  <2>1. PICK job \in {"connect", "disconnect"}, k \in Clients \cup {None} :
          Submit(c, job, k)
    BY <1>1, FirstSubmit
  <2>2. /\ pc[c] \in {"locking", "disconnected"}
        /\ pc[c] = "locking" => owner = None
    BY <1>1, FirstSubmit
  <2>3. /\ \A i \in DOMAIN waiting : waiting'[i] = waiting[i]
        /\ waiting'[Len(waiting) + 1] = [kind |-> job, client |-> k, call |-> c]
        /\ DOMAIN waiting' = 1..(Len(waiting) + 1) /\ DOMAIN waiting = 1..Len(waiting)
    <3>1. job \in JobKinds /\ pc[c] \notin Waits BY <2>2 DEF JobKinds, Waits
    <3>2. QED BY <1>0, <2>1, <3>1, SubmitJob, Zenon
  <2>4. UNCHANGED <<running, env, seen>>
    BY <1>1, <2>1 DEF Acquire, Disconnected, Submit
  <2>5. \A d \in Calls : d # c => pc'[d] = pc[d]
    BY <1>0, <2>1 DEF Submit, Goto
  <2>6. \A d \in Calls : pc[d] \notin {"connecting", "connected"}
    BY <1>0, <2>2 DEF LockInv, Holding
  <2>7. env \in seen[c] BY <2>2 DEF GatewayInv
  <2>8. \A i \in DOMAIN waiting' : waiting'[i].kind = "operate" =>
          i \in DOMAIN waiting /\ waiting'[i] = waiting[i]
    <3>1. Len(waiting) \in Nat BY LenProperties DEF TypeOK
    <3>2. \A i \in DOMAIN waiting' : i \in DOMAIN waiting \/ i = Len(waiting) + 1
      BY <2>3, <3>1
    <3>3. QED BY <2>3, <3>2
  <2>9. CASE StartDisconnect(c)
    <3>1. UNCHANGED gateway /\ pc'[c] = "disconnecting"
      BY <1>0, <2>9, AtJobs DEF StartDisconnect, Submit, Goto
    <3>2. QED BY <2>4, <2>5, <2>6, <2>7, <2>8, <3>1 DEF GatewayInv
  <2>10. CASE StartConnect(c)
    <3>1. PICK n \in Clients : /\ Unused(n) /\ client' = n
                               /\ gateway' = [gateway EXCEPT ![n] = env]
      BY <2>10, FreshClient
    <3>2. gateway'[n] = env /\ \A m \in Clients : m # n => gateway'[m] = gateway[m]
      BY <3>1 DEF TypeOK
    <3>3. \A m : m \notin Clients => gateway'[m] = gateway[m]
      BY <3>1 DEF TypeOK
    <3>4. /\ \A i \in DOMAIN waiting : waiting[i].client # n
          /\ running # None => running.client # n
      BY <3>1 DEF Unused, Backlog
    <3>5. \A d \in Calls : pc'[d] # "idle" => env' \in seen'[d]
      BY <2>4, <2>5, <2>7 DEF GatewayInv
    <3>6. \A d \in Calls : pc'[d] \in {"connecting", "connected"} =>
            client' \in Clients /\ gateway'[client'] \in seen'[d]
      BY <2>4, <2>5, <2>6, <2>7, <3>1, <3>2
    <3>7. \A i \in DOMAIN waiting' : waiting'[i].kind = "operate" =>
            gateway'[waiting'[i].client] \in seen'[waiting'[i].call]
      BY <2>4, <2>8, <3>2, <3>3, <3>4 DEF GatewayInv
    <3>8. (running' # None /\ running'.kind = "operate" /\ running'.call # None) =>
            gateway'[running'.client] \in seen'[running'.call]
      BY <2>4, <3>2, <3>3, <3>4 DEF GatewayInv
    <3>9. QED BY <3>5, <3>6, <3>7, <3>8 DEF GatewayInv
  <2>11. QED BY <1>1, <2>9, <2>10 DEF Acquire, Disconnected
<1>2. ASSUME NEW c \in Calls, Return(c), pc[c] \notin Waits,
             UNCHANGED <<executor, client, gateway, env>>
      PROVE  GatewayInv'
  <2>1. /\ \A i \in DOMAIN waiting : waiting[i].call # c
        /\ running # None => running.call # c
    BY <1>0, <1>2, NoJob
  <2>2. /\ pc'[c] = "idle"
        /\ \A d \in Calls : d # c => pc'[d] = pc[d] /\ seen'[d] = seen[d]
    BY <1>0, <1>2 DEF Return, Goto
  <2>3. QED BY <1>0, <1>2, <2>1, <2>2 DEF GatewayInv
<1>3. ASSUME NEW c \in Calls,
             DropNothing(c) \/ ConfigFails(c) \/ (Disconnected(c) /\ kind[c] = "drop")
      PROVE  GatewayInv'
  BY <1>2, <1>3 DEF DropNothing, ConfigFails, Disconnected, Admitted, Waits
<1>4. ASSUME NEW c \in Calls, Connected(c) PROVE GatewayInv'
  <2>1. CASE Return(c) /\ UNCHANGED executor
    BY <1>2, <1>4, <2>1 DEF Connected, Waits
  <2>2. CASE Submit(c, "operate", client) /\ UNCHANGED seen
    <3>1. waiting = << >> /\ running = None /\ gateway[client] \in seen[c] /\ env \in seen[c]
      BY <1>4 DEF Connected, QueueInv, CalmInv, GatewayInv
    <3>2. waiting' = << [kind |-> "operate", client |-> client, call |-> c] >>
      BY <2>2, <3>1 DEF Submit
    <3>3. UNCHANGED <<running, client, gateway, env, seen>>
      BY <1>4, <2>2 DEF Connected, Submit
    <3>4. pc' = [pc EXCEPT ![c] = "operating"]
      BY <2>2, AtJobs DEF Submit, Goto
    <3>5. \A i \in DOMAIN waiting' : gateway'[waiting'[i].client] \in seen'[waiting'[i].call]
      BY <3>1, <3>2, <3>3
    <3>6. \A d \in Calls : pc'[d] # "idle" => env' \in seen'[d]
      BY <1>0, <3>1, <3>3, <3>4 DEF GatewayInv
    <3>7. \A d \in Calls : pc'[d] \in {"connecting", "connected"} =>
            client' \in Clients /\ gateway'[client'] \in seen'[d]
      BY <1>0, <3>3, <3>4 DEF GatewayInv
    <3>8. QED BY <3>1, <3>3, <3>5, <3>6, <3>7 DEF GatewayInv
  <2>3. QED BY <1>4, <2>1, <2>2 DEF Connected
<1>5. ASSUME NEW c \in Calls, Withdraw(c), Return(c), UNCHANGED <<gateway, env>>,
             UNCHANGED client \/ pc[c] \in Holding
      PROVE  GatewayInv'
  <2>1. /\ \A i \in DOMAIN waiting' : \E m \in DOMAIN waiting :
             waiting'[i] = waiting[m] /\ waiting[m].call # c
        /\ running' = None <=> running = None
        /\ running # None =>
             /\ running'.kind = running.kind /\ running'.client = running.client
             /\ running'.call = IF running.call = c THEN None ELSE running.call
    BY <1>0, <1>5, WithdrawProperties
  <2>2. /\ pc'[c] = "idle"
        /\ \A d \in Calls : d # c => pc'[d] = pc[d] /\ seen'[d] = seen[d]
    BY <1>0, <1>5 DEF Return, Goto
  <2>3. \A d \in Calls : pc'[d] # "idle" => env' \in seen'[d]
    BY <1>5, <2>2 DEF GatewayInv
  <2>4. \A d \in Calls : pc'[d] \in {"connecting", "connected"} =>
          client' \in Clients /\ gateway'[client'] \in seen'[d]
    <3>1. ASSUME NEW d \in Calls, pc'[d] \in {"connecting", "connected"}
          PROVE  d # c /\ pc'[d] = pc[d] /\ seen'[d] = seen[d] /\ UNCHANGED client
      BY <1>5, <2>2, <3>1 DEF LockInv, Holding
    <3>2. QED BY <1>5, <3>1 DEF GatewayInv
  <2>5. \A i \in DOMAIN waiting' : waiting'[i].kind = "operate" =>
          gateway'[waiting'[i].client] \in seen'[waiting'[i].call]
    BY <1>0, <1>5, <2>1, <2>2 DEF GatewayInv
  <2>6. (running' # None /\ running'.kind = "operate" /\ running'.call # None) =>
          gateway'[running'.client] \in seen'[running'.call]
    BY <1>0, <1>5, <2>1, <2>2 DEF GatewayInv
  <2>7. QED BY <2>3, <2>4, <2>5, <2>6 DEF GatewayInv
<1>6. ASSUME NEW c \in Calls, ConnectFails(c) \/ OperationEnds(c) \/ Cancel(c)
      PROVE  GatewayInv'
  BY <1>5, <1>6 DEF ConnectFails, OperationEnds, Cancel, Holding
<1>7. ASSUME NEW c \in Calls, NEW kd \in Kinds, Begin(c, kd) PROVE GatewayInv'
  <2>1. /\ \A i \in DOMAIN waiting : waiting[i].call # c
        /\ running # None => running.call # c
    BY <1>0, <1>7, NoJob DEF Begin, Waits
  <2>2. /\ pc'[c] = "locking" /\ seen'[c] = {env}
        /\ \A d \in Calls : d # c => pc'[d] = pc[d] /\ seen'[d] = seen[d]
    BY <1>0, <1>7 DEF Begin, Goto
  <2>3. UNCHANGED <<running, waiting, client, gateway, env>>
    BY <1>7 DEF Begin
  <2>4. QED BY <1>0, <2>1, <2>2, <2>3 DEF GatewayInv
<1>8. ASSUME NEW e \in Envs, ChangeEnvironment(e) PROVE GatewayInv'
  <2>1. \A d \in Calls : pc[d] # "idle" => seen'[d] = seen[d] \cup {e}
    BY <1>8 DEF ChangeEnvironment
  <2>2. UNCHANGED <<pc, running, waiting, client, gateway>> /\ env' = e
    BY <1>8 DEF ChangeEnvironment
  <2>3. \A job \in JobKinds : AtJob[job] # "idle"
    BY AtJobs DEF JobKinds
  <2>4. /\ \A i \in DOMAIN waiting : pc[waiting[i].call] # "idle"
        /\ (running # None /\ running.call # None) => pc[running.call] # "idle"
    BY <1>0, <2>3 DEF JobInv, Jobs
  <2>5. QED BY <1>0, <2>1, <2>2, <2>4 DEF GatewayInv
<1>9. CASE TakeJob
  BY <1>9, TakeJobProperties DEF TakeJob, GatewayInv
<1>10. ASSUME NEW p \in PCs \ {"connecting"}, Finish(p), running # None, UNCHANGED gateway,
              p = "connected" => running.kind = "connect"
       PROVE  GatewayInv'
  <2>1. running' = None /\ UNCHANGED <<waiting, client, env, seen>>
    BY <1>10 DEF Finish
  <2>2. \A d \in Calls : pc'[d] = IF d = running.call THEN p ELSE pc[d]
    BY <1>0, <1>10 DEF Finish
  <2>3. \A d \in Calls : d = running.call => pc[d] = AtJob[running.kind]
    BY <1>0, <1>10 DEF JobInv
  <2>4. AtJob[running.kind] # "idle" /\ AtJob["connect"] = "connecting"
    BY <1>0, <1>10, AtJobs DEF Jobs, JobKinds
  <2>5. QED BY <1>10, <2>1, <2>2, <2>3, <2>4 DEF GatewayInv
<1>11. CASE Disconnect \/ Operate \/ HandshakeFails
  <2>1. /\ running # None
        /\ \E p \in {"disconnected", "answered", "refused"} : Finish(p)
        /\ UNCHANGED gateway
    BY <1>11 DEF Disconnect, Operate, HandshakeFails, TypeOK
  <2>2. QED BY <1>10, <2>1 DEF PCs, Holding
<1>12. ASSUME NEW p \in {"connected", "refused"}, AskTime(p) PROVE GatewayInv'
  <2>1. running # None /\ running.kind = "connect" /\ UNCHANGED gateway /\ Finish(p)
    BY <1>12 DEF AskTime, TypeOK
  <2>2. QED BY <1>10, <2>1 DEF PCs, Holding
<1>13. ASSUME Connect PROVE GatewayInv'
  <2>0. running \in Jobs /\ running # None /\ running.kind = "connect" /\ UNCHANGED gateway
    BY <1>13, NoneAssumption DEF Connect, TypeOK
  <2>1. CASE Finish("refused") \/ Finish("connected")
    BY <1>10, <2>0, <2>1 DEF PCs, Holding
  <2>2. CASE /\ running' = [running EXCEPT !.client = client]
             /\ UNCHANGED <<loop, waiting, env, seen>>
    <3>1. running'.kind = "connect"
      BY <2>0, <2>2 DEF Jobs
    <3>2. QED BY <2>0, <2>2, <3>1 DEF GatewayInv
  <2>3. QED BY <1>13, <2>1, <2>2 DEF Connect
<1>14. CASE UNCHANGED <<loop, running, waiting, gateway, env, seen>>
  BY <1>14 DEF GatewayInv
<1>15. QED
  BY <1>1, <1>3, <1>4, <1>6, <1>7, <1>8, <1>9, <1>11, <1>12, <1>13, <1>14
  DEF Next, Proceed, Work, Disconnected, Handshake

(***************************************************************************)
(* The theorems                                                            *)
(***************************************************************************)

LEMMA InitIInv == Init => IInv
<1> SUFFICES ASSUME Init PROVE IInv
  OBVIOUS
<1>1. DOMAIN waiting = {} BY DEF Init
<1>2. TypeOK BY TypeInit
<1>3. LockInv BY NoneAssumption DEF Init, LockInv, Holding
<1>4. QueueInv BY <1>1 DEF Init, QueueInv, JobInv, OperationsDoNotWait, CalmInv
<1>5. ClientInv /\ GatewayInv BY <1>1 DEF Init, ClientInv, GatewayInv
<1>6. QED BY <1>2, <1>3, <1>4, <1>5 DEF IInv

LEMMA StepIInv == IInv /\ [Next]_vars => IInv'
<1> SUFFICES ASSUME IInv, [Next]_vars PROVE IInv'
  OBVIOUS
<1>1. TypeOK /\ LockInv /\ QueueInv /\ JobInv /\ ClientInv /\ GatewayInv
  BY DEF IInv, QueueInv
<1>2. QED
  BY <1>1, TypeStep, LockStep, QueueStep, ClientStep, GatewayStep DEF IInv

LEMMA Invariant == Spec => []IInv
BY InitIInv, StepIInv, PTL DEF Spec

\* The state of the session always has its type, and the stage of the worker
\* agrees with the job that it has taken.
THEOREM TypeCorrect == Spec => []TypeOK
<1>1. IInv => TypeOK BY DEF IInv
<1>2. QED BY <1>1, Invariant, PTL

\* An operation that waits or runs always has an open client, whatever is given
\* up, cancelled or disconnected beside it (run_with_client, _disconnect_locked).
THEOREM OperationsAreConnected == Spec => []OperatesOnOpenClient
<1>1. IInv => OperatesOnOpenClient
  BY DEF IInv, ClientInv, OperatesOnOpenClient, Operations, Backlog
<1>2. QED BY <1>1, Invariant, PTL

\* An operation runs in an environment that was configured after its call began
\* (get_client disconnects whatever client is there).
THEOREM EnvironmentIsCurrent == Spec => []OperatesInConfiguredEnvironment
<1>1. IInv => OperatesInConfiguredEnvironment
  BY DEF IInv, GatewayInv, OperatesInConfiguredEnvironment, Operations, Backlog
<1>2. QED BY <1>1, Invariant, PTL

\* No operation waits behind another job of the worker, so that its time limit
\* measures nothing but itself.
THEOREM OperationsStartAtOnce == Spec => []OperationsDoNotWait
<1>1. IInv => OperationsDoNotWait BY DEF IInv, QueueInv
<1>2. QED BY <1>1, Invariant, PTL

(***************************************************************************)
(* Nobody waits for nobody                                                 *)
(*                                                                         *)
(* What is behind CallsEnd besides fairness: a call that does not go on    *)
(* waits for a job that the executor has, or in line for a lock whose      *)
(* owner does not itself stand in that line.                               *)
(***************************************************************************)

Once(q) == \A i, j \in DOMAIN q : i # j => q[i] # q[j]

\* The line of the lock has the calls that want it, each once.
LineInv ==
  /\ \A c \in Calls : pc[c] = "locking" <=> \E i \in DOMAIN waiters : waiters[i] = c
  /\ Once(waiters)

HasJob(c) == \E job \in Backlog : job.call = c

WaitInv == \A c \in Calls : pc[c] \in Waits => HasJob(c)

\* A step of its own is next, or the executor has a job that it waits for.
GoesOn(c) ==
  \/ pc[c] \in {"connected", "refused", "disconnected", "answered"}
  \/ \E job \in Backlog : job.call = c /\ pc[c] = AtJob[job.kind]

\* Every call goes on, or is in line for the lock; then the owner of the lock goes on, or
\* nobody owns it and the call in front is there to take it.
NobodyWaitsForNobody ==
  \A c \in Calls :
    \/ pc[c] = "idle"
    \/ GoesOn(c)
    \/ /\ pc[c] = "locking"
       /\ IF owner = None
            THEN waiters # << >> /\ Head(waiters) \in Calls /\ pc[Head(waiters)] = "locking"
            ELSE owner \in Calls /\ GoesOn(owner)

\* r has the elements of q but the n-th, each once.
Without(r, q, n) ==
  /\ \A i \in DOMAIN r : r[i] # q[n] /\ \E m \in DOMAIN q : r[i] = q[m]
  /\ \A m \in DOMAIN q : m # n => \E i \in DOMAIN r : r[i] = q[m]
  /\ Once(r)

\* Taking out one element of a sequence without repetitions takes it out for good.
LEMMA RemoveOnce ==
  ASSUME NEW S, NEW q \in Seq(S), NEW n \in DOMAIN q, NEW r,
         r = SubSeq(q, 1, n-1) \o SubSeq(q, n+1, Len(q)), Once(q)
  PROVE  Without(r, q, n)
<1>a. /\ r \in Seq(S) /\ Len(r) = Len(q) - 1
      /\ \A i \in DOMAIN r : r[i] = q[IF i < n THEN i ELSE i+1]
  BY RemoveAtProperties, Zenon
<1> DEFINE at(i) == IF i < n THEN i ELSE i+1
           back(m) == IF m < n THEN m ELSE m-1
<1>1. /\ r \in Seq(S) /\ Len(r) = Len(q) - 1
      /\ \A i \in DOMAIN r : r[i] = q[at(i)]
  BY <1>a
<1>2. /\ DOMAIN q = 1..Len(q) /\ Len(q) \in Nat
      /\ DOMAIN r = 1..Len(r)
  BY <1>1, LenProperties
<1>3. \A i \in DOMAIN r : at(i) \in DOMAIN q /\ at(i) # n
  BY <1>1, <1>2
<1>4. ASSUME NEW m \in DOMAIN q, m # n
      PROVE  back(m) \in DOMAIN r /\ at(back(m)) = m
  <2>1. DOMAIN r = 1..(Len(q) - 1) /\ n \in 1..Len(q) /\ m \in 1..Len(q)
    BY <1>1, <1>2
  <2>2. QED BY <1>2, <1>4, <2>1
<1>5. \A i, j \in DOMAIN r : i # j => at(i) # at(j)
  BY <1>1, <1>2
<1> HIDE DEF at, back
<1>6. \A m \in DOMAIN q : m # n => r[back(m)] = q[m] /\ back(m) \in DOMAIN r
  BY <1>1, <1>4
<1>7. \A i \in DOMAIN r : r[i] # q[n]
  BY <1>1, <1>3 DEF Once
<1>8. ASSUME NEW i \in DOMAIN r, NEW j \in DOMAIN r, i # j PROVE r[i] # r[j]
  <2>1. r[i] = q[at(i)] /\ r[j] = q[at(j)]
    BY <1>1
  <2>2. at(i) \in DOMAIN q /\ at(j) \in DOMAIN q /\ at(i) # at(j)
    BY <1>3, <1>5, <1>8
  <2>3. QED BY <2>1, <2>2 DEF Once
<1>9. QED BY <1>1, <1>3, <1>6, <1>7, <1>8 DEF Once, Without

LEMMA TailOnce ==
  ASSUME NEW S, NEW q \in Seq(S), q # << >>
  PROVE  /\ 1 \in DOMAIN q /\ Head(q) = q[1]
         /\ \A i \in DOMAIN Tail(q) : i + 1 \in DOMAIN q /\ i + 1 # 1 /\ Tail(q)[i] = q[i + 1]
         /\ \A m \in DOMAIN q : m # 1 => m - 1 \in DOMAIN Tail(q) /\ Tail(q)[m - 1] = q[m]
         /\ \A i, j \in DOMAIN Tail(q) : i # j => i + 1 # j + 1
<1>1. Len(q) \in Nat /\ DOMAIN q = 1..Len(q) /\ Len(q) # 0
  BY LenProperties, EmptySeq
<1>2. /\ Tail(q) \in Seq(S) /\ Len(Tail(q)) = Len(q) - 1
      /\ \A i \in 1..Len(Tail(q)) : Tail(q)[i] = q[i + 1]
  BY HeadTailProperties, Zenon
<1>3. DOMAIN Tail(q) = 1..(Len(q) - 1)
  BY <1>2, LenProperties
<1>4. Head(q) = q[1]
  OBVIOUS
<1>5. \A m \in DOMAIN q : m # 1 => m - 1 \in 1..(Len(q) - 1) /\ (m - 1) + 1 = m
  BY <1>1
<1>6. \A i \in 1..(Len(q) - 1) : i + 1 \in 1..Len(q) /\ i + 1 # 1
  BY <1>1
<1>7. QED BY <1>1, <1>2, <1>3, <1>4, <1>5, <1>6

(***************************************************************************)
(* The line                                                                *)
(***************************************************************************)

\* What a call does that is not in line.
LEMMA LineSame ==
  ASSUME LineInv, UNCHANGED waiters,
         \A d \in Calls : pc'[d] = "locking" <=> pc[d] = "locking"
  PROVE  LineInv'
BY DEF LineInv

LEMMA LineAdmits ==
  ASSUME TypeOK, LineInv, NEW c \in Calls, Admitted(c), pc'[c] # "locking",
         \A d \in Calls \ {c} : pc'[d] = pc[d]
  PROVE  LineInv'
<1>1. /\ 1 \in DOMAIN waiters /\ c = waiters[1]
      /\ \A i \in DOMAIN waiters' : i + 1 \in DOMAIN waiters /\ i + 1 # 1
                                    /\ waiters'[i] = waiters[i + 1]
      /\ \A m \in DOMAIN waiters : m # 1 => m - 1 \in DOMAIN waiters'
                                            /\ waiters'[m - 1] = waiters[m]
      /\ \A i, j \in DOMAIN waiters' : i # j => i + 1 # j + 1
  BY TailOnce DEF TypeOK, Admitted
<1>2. \A i \in DOMAIN waiters' : waiters'[i] # c
  BY <1>1 DEF LineInv, Once
<1>3. ASSUME NEW d \in Calls \ {c}
      PROVE  (\E i \in DOMAIN waiters : waiters[i] = d)
               <=> (\E i \in DOMAIN waiters' : waiters'[i] = d)
  BY <1>1, <1>3
<1>4. \A d \in Calls : pc'[d] = "locking" <=> \E i \in DOMAIN waiters' : waiters'[i] = d
  BY <1>2, <1>3 DEF LineInv
<1>5. Once(waiters')
  BY <1>1 DEF LineInv, Once
<1>6. QED BY <1>4, <1>5 DEF LineInv

LEMMA LineJoined ==
  ASSUME TypeOK, LineInv, NEW c \in Calls, NEW kd \in Kinds, Begin(c, kd)
  PROVE  LineInv'
<1>1. /\ waiters \in Seq(Calls) /\ Len(waiters) \in Nat /\ DOMAIN waiters = 1..Len(waiters)
      /\ waiters' = Append(waiters, c)
  BY LenProperties DEF TypeOK, Begin
<1>2. /\ DOMAIN waiters' = 1..(Len(waiters) + 1)
      /\ \A i \in DOMAIN waiters : waiters'[i] = waiters[i]
      /\ waiters'[Len(waiters) + 1] = c
  BY <1>1, AppendProperties, LenProperties
<1>3. \A i \in DOMAIN waiters' : i \in DOMAIN waiters \/ i = Len(waiters) + 1
  BY <1>1, <1>2
<1>4. /\ DOMAIN waiters \subseteq DOMAIN waiters' /\ Len(waiters) + 1 \in DOMAIN waiters'
      /\ \A i \in DOMAIN waiters : waiters[i] # c
  BY <1>1, <1>2 DEF LineInv, Begin
<1>5. pc'[c] = "locking" /\ \A d \in Calls \ {c} : pc'[d] = pc[d]
  BY DEF TypeOK, Begin, Goto
<1>6. \A d \in Calls : pc'[d] = "locking" <=> \E i \in DOMAIN waiters' : waiters'[i] = d
  BY <1>2, <1>3, <1>4, <1>5 DEF LineInv
<1>7. Once(waiters')
  BY <1>2, <1>3, <1>4 DEF LineInv, Once
<1>8. QED BY <1>6, <1>7 DEF LineInv

LEMMA LineLeft ==
  ASSUME TypeOK, LineInv, NEW c \in Calls, Cancel(c)
  PROVE  LineInv'
<1>1. pc'[c] = "idle" /\ \A d \in Calls \ {c} : pc'[d] = pc[d]
  BY DEF TypeOK, Cancel, Return, Goto
<1>2. CASE (\A i \in DOMAIN waiters : waiters[i] # c) /\ UNCHANGED waiters
  BY <1>1, <1>2 DEF LineInv
<1>3. ASSUME NEW n \in DOMAIN waiters, waiters[n] = c,
             waiters' = SubSeq(waiters, 1, n-1) \o SubSeq(waiters, n+1, Len(waiters))
      PROVE  LineInv'
  <2>1. waiters \in Seq(Calls)
    BY DEF TypeOK
  <2>2. Once(waiters)
    BY DEF LineInv
  <2>3. Without(waiters', waiters, n)
    BY <1>3, <2>1, <2>2, RemoveOnce, Zenon
  <2>4. ASSUME NEW d \in Calls \ {c}
        PROVE  (\E i \in DOMAIN waiters : waiters[i] = d)
                 <=> (\E i \in DOMAIN waiters' : waiters'[i] = d)
    <3>1. \A m \in DOMAIN waiters : waiters[m] = d => m # n
      BY <1>3, <2>4
    <3>2. QED BY <2>3, <3>1 DEF Without
  <2>5. \A i \in DOMAIN waiters' : waiters'[i] # c
    BY <1>3, <2>3 DEF Without
  <2>6. \A d \in Calls : pc'[d] = "locking" <=> \E i \in DOMAIN waiters' : waiters'[i] = d
    BY <1>1, <2>4, <2>5 DEF LineInv
  <2>7. QED BY <2>3, <2>6 DEF LineInv, Without
<1>4. QED BY <1>2, <1>3 DEF Cancel

\* A job that ends never leaves its call in line, nor takes it out of it.
LEMMA FinishLine ==
  ASSUME TypeOK, JobInv, LineInv, running # None, NEW p \in PCs \ {"locking"}, Finish(p)
  PROVE  LineInv'
<1>1. running \in Jobs /\ UNCHANGED waiters
  BY DEF TypeOK, Finish
<1>2. running.call # None => running.call \in Calls /\ pc[running.call] # "locking"
  BY <1>1 DEF JobInv, Jobs, JobKinds, AtJob
<1>3. \A d \in Calls : pc'[d] = "locking" <=> pc[d] = "locking"
  BY <1>1, <1>2 DEF TypeOK, Finish
<1>4. QED BY <1>1, <1>3, LineSame

LEMMA LineStep ==
  ASSUME TypeOK, QueueInv, LineInv, [Next]_vars
  PROVE  LineInv'
<1> USE DEF vars, loop, executor, clients
<1>0. JobInv /\ pc \in [Calls -> PCs]
  BY DEF QueueInv, TypeOK, PCs
<1>1. ASSUME NEW c \in Calls, Return(c)
      PROVE  pc'[c] = "idle" /\ \A d \in Calls \ {c} : pc'[d] = pc[d]
  BY <1>0, <1>1 DEF Return, Goto
<1>2. ASSUME NEW c \in Calls, NEW job \in JobKinds, NEW k \in Clients \cup {None},
             Submit(c, job, k)
      PROVE  pc'[c] # "locking" /\ \A d \in Calls \ {c} : pc'[d] = pc[d]
  BY <1>0, <1>2 DEF Submit, Goto, AtJob, JobKinds
<1>3. ASSUME NEW c \in Calls, Acquire(c) PROVE LineInv'
  <2>1. pc'[c] # "locking" /\ \A d \in Calls \ {c} : pc'[d] = pc[d]
    BY <1>2, <1>3, FirstSubmit DEF JobKinds
  <2>2. QED BY <1>3, <2>1, LineAdmits DEF Acquire
<1>4. ASSUME NEW c \in Calls, DropNothing(c) \/ (ConfigFails(c) /\ Admitted(c)) PROVE LineInv'
  <2>1. pc'[c] # "locking" /\ \A d \in Calls \ {c} : pc'[d] = pc[d]
    BY <1>1, <1>4 DEF DropNothing, ConfigFails
  <2>2. QED BY <1>4, <2>1, LineAdmits DEF DropNothing
<1>5. ASSUME NEW c \in Calls, pc[c] # "locking", pc'[c] # "locking",
             \A d \in Calls \ {c} : pc'[d] = pc[d], UNCHANGED waiters
      PROVE  LineInv'
  BY <1>5, LineSame
<1>6. ASSUME NEW c \in Calls, Return(c), pc[c] # "locking", UNCHANGED waiters PROVE LineInv'
  BY <1>1, <1>5, <1>6
<1>7. ASSUME NEW c \in Calls, \/ ConfigFails(c) /\ ~Admitted(c)
                              \/ ConnectFails(c) \/ OperationEnds(c)
                              \/ Disconnected(c) /\ kind[c] = "drop"
      PROVE  LineInv'
  BY <1>6, <1>7 DEF ConfigFails, ConnectFails, OperationEnds, Disconnected
<1>8. ASSUME NEW c \in Calls, Disconnected(c), kind[c] # "drop" PROVE LineInv'
  <2>1. \E job \in {"connect", "disconnect"}, k \in Clients \cup {None} : Submit(c, job, k)
    BY <1>8, FirstSubmit
  <2>2. pc'[c] # "locking" /\ \A d \in Calls \ {c} : pc'[d] = pc[d]
    BY <1>2, <2>1 DEF JobKinds
  <2>3. QED BY <1>5, <1>8, <2>2 DEF Disconnected
<1>9. ASSUME NEW c \in Calls, Connected(c) PROVE LineInv'
  <2>1. CASE Return(c)
    BY <1>6, <1>9, <2>1 DEF Connected
  <2>2. CASE Submit(c, "operate", client)
    <3>1. "operate" \in JobKinds /\ client \in Clients \cup {None}
      BY DEF JobKinds, TypeOK
    <3>2. pc'[c] # "locking" /\ \A d \in Calls \ {c} : pc'[d] = pc[d]
      BY <1>2, <2>2, <3>1
    <3>3. QED BY <1>5, <1>9, <3>2 DEF Connected
  <2>3. QED BY <1>9, <2>1, <2>2 DEF Connected
<1>10. ASSUME NEW c \in Calls, Cancel(c) PROVE LineInv'
  BY <1>10, LineLeft
<1>11. ASSUME NEW c \in Calls, NEW kd \in Kinds, Begin(c, kd) PROVE LineInv'
  BY <1>11, LineJoined
<1>12. CASE UNCHANGED <<pc, waiters>>
  BY <1>12 DEF LineInv
<1>13. ASSUME Disconnect \/ Operate \/ HandshakeFails PROVE LineInv'
  <2>1. /\ running # None
        /\ \E p \in {"disconnected", "answered", "refused"} : Finish(p)
    BY <1>13 DEF Disconnect, Operate, HandshakeFails, TypeOK
  <2>2. QED BY <1>0, <2>1, FinishLine DEF PCs, Holding
<1>14. ASSUME NEW p \in {"connected", "refused"}, AskTime(p) PROVE LineInv'
  BY <1>0, <1>14, FinishLine DEF AskTime, TypeOK, PCs, Holding
<1>15. ASSUME Connect PROVE LineInv'
  <2>1. running # None
    BY <1>15 DEF Connect, TypeOK
  <2>2. CASE Finish("refused") \/ Finish("connected")
    BY <1>0, <2>1, <2>2, FinishLine DEF PCs, Holding
  <2>3. QED BY <1>12, <1>15, <2>2 DEF Connect
<1>16. QED
  BY <1>3, <1>4, <1>7, <1>8, <1>9, <1>10, <1>11, <1>12, <1>13, <1>14, <1>15
  DEF Next, Proceed, Work, ChangeEnvironment, TakeJob, Handshake

(***************************************************************************)
(* The jobs that are waited for                                            *)
(***************************************************************************)

\* Where to look for a call's job.
LEMMA JobPlaces ==
  ASSUME NEW c \in Calls
  PROVE  HasJob(c) <=> \/ \E i \in DOMAIN waiting : waiting[i].call = c
                       \/ running # None /\ running.call = c
BY DEF HasJob, Backlog

LEMMA SubmitWait ==
  ASSUME TypeOK, QueueInv, WaitInv, NEW c \in Calls, NEW job \in JobKinds,
         NEW k \in Clients \cup {None}, pc[c] \notin Waits, Submit(c, job, k)
  PROVE  WaitInv'
<1>1. /\ \A i \in DOMAIN waiting : waiting'[i] = waiting[i]
      /\ waiting'[Len(waiting) + 1] = [kind |-> job, client |-> k, call |-> c]
      /\ DOMAIN waiting' = 1..(Len(waiting) + 1) /\ DOMAIN waiting = 1..Len(waiting)
  BY SubmitJob, Zenon DEF QueueInv
<1>2. /\ Len(waiting) + 1 \in DOMAIN waiting' /\ DOMAIN waiting \subseteq DOMAIN waiting'
  <2>1. Len(waiting) \in Nat BY LenProperties DEF TypeOK
  <2>2. QED BY <1>1, <2>1
<1>3. UNCHANGED running /\ pc' = [pc EXCEPT ![c] = AtJob[job]]
  BY DEF Submit, Goto
<1>4. HasJob(c)'
  BY <1>1, <1>2 DEF HasJob, Backlog
<1>5. \A d \in Calls : HasJob(d) => HasJob(d)'
  BY <1>1, <1>2, <1>3 DEF HasJob, Backlog
<1>6. \A d \in Calls \ {c} : pc'[d] = pc[d]
  BY <1>3 DEF TypeOK
<1>7. QED BY <1>4, <1>5, <1>6 DEF WaitInv

\* What is given up is nobody else's.
LEMMA GiveUpWait ==
  ASSUME TypeOK, QueueInv, WaitInv, NEW c \in Calls, Withdraw(c), Return(c)
  PROVE  WaitInv'
<1>1. \A d \in Calls : pc'[d] = IF d = c THEN "idle" ELSE pc[d]
  BY DEF TypeOK, Return, Goto
<1>2. ASSUME NEW i \in DOMAIN waiting, waiting[i].call # c
      PROVE  \E n \in DOMAIN waiting' : waiting'[n] = waiting[i]
  <2>1. CASE UNCHANGED waiting
    BY <2>1
  <2>2. ASSUME NEW m \in DOMAIN waiting, waiting[m].call = c,
               waiting' = SubSeq(waiting, 1, m-1) \o SubSeq(waiting, m+1, Len(waiting))
        PROVE  \E n \in DOMAIN waiting' : waiting'[n] = waiting[i]
    <3>1. Once(waiting)
      BY DEF QueueInv, JobInv, Once
    <3>2. waiting \in Seq(Jobs)
      BY DEF TypeOK
    <3>3. Without(waiting', waiting, m)
      BY <2>2, <3>1, <3>2, RemoveOnce, Zenon
    <3>4. QED BY <1>2, <2>2, <3>3 DEF Without
  <2>3. QED BY <2>1, <2>2 DEF Withdraw
<1>3. running # None => /\ running' # None
                        /\ running.call # c => running'.call = running.call
  <2>1. /\ running' = None <=> running = None
        /\ running # None => running'.call = IF running.call = c THEN None ELSE running.call
    BY WithdrawProperties DEF QueueInv
  <2>2. QED BY <2>1
<1>4. \A d \in Calls \ {c} : HasJob(d) => HasJob(d)'
  BY <1>2, <1>3 DEF HasJob, Backlog
<1>5. QED BY <1>1, <1>4 DEF WaitInv, Waits

\* A job that is over is waited for no more.
LEMMA FinishWait ==
  ASSUME TypeOK, WaitInv, running # None, NEW p \in PCs \ Waits, Finish(p)
  PROVE  WaitInv'
<1>1. \A d \in Calls : pc'[d] = IF d = running.call THEN p ELSE pc[d]
  BY NoneAssumption DEF Finish, TypeOK
<1>2. running' = None /\ UNCHANGED waiting
  BY DEF Finish
<1>3. ASSUME NEW d \in Calls, d # running.call, HasJob(d)
      PROVE  HasJob(d)'
  BY <1>2, <1>3 DEF HasJob, Backlog
<1>4. QED BY <1>1, <1>3 DEF WaitInv

LEMMA TakeJobWait ==
  ASSUME TypeOK, WaitInv, TakeJob
  PROVE  WaitInv'
<1>1. /\ waiting \in Seq(Jobs) /\ waiting # << >> /\ running = None
      /\ running' = Head(waiting) /\ waiting' = Tail(waiting)
      /\ UNCHANGED pc
  BY DEF TypeOK, TakeJob, loop
<1>2. /\ Head(waiting) = waiting[1] /\ waiting[1] \in Jobs
      /\ \A m \in DOMAIN waiting : m # 1 =>
           m - 1 \in DOMAIN Tail(waiting) /\ Tail(waiting)[m - 1] = waiting[m]
  <2>1. /\ 1 \in DOMAIN waiting /\ Head(waiting) = waiting[1]
        /\ \A m \in DOMAIN waiting : m # 1 =>
             m - 1 \in DOMAIN Tail(waiting) /\ Tail(waiting)[m - 1] = waiting[m]
    BY <1>1, TailOnce
  <2>2. QED BY <1>1, <2>1, ElementOfSeq, LenProperties
<1>3. running' # None
  BY <1>1, <1>2, NoneAssumption
<1>4. \A d \in Calls : HasJob(d) => HasJob(d)'
  BY <1>1, <1>2, <1>3 DEF HasJob, Backlog
<1>5. QED BY <1>1, <1>4 DEF WaitInv

LEMMA WaitStep ==
  ASSUME TypeOK, LockInv, QueueInv, WaitInv, [Next]_vars
  PROVE  WaitInv'
<1> USE DEF vars, loop, executor, clients
<1>0. pc \in [Calls -> PCs]
  BY DEF TypeOK, PCs
<1>1. ASSUME UNCHANGED <<running, waiting>>, NEW c \in Calls, pc'[c] \notin Waits,
             \A d \in Calls \ {c} : pc'[d] = pc[d]
      PROVE  WaitInv'
  BY <1>1 DEF WaitInv, HasJob, Backlog
<1>2. ASSUME NEW c \in Calls, Return(c), UNCHANGED executor PROVE WaitInv'
  BY <1>0, <1>1, <1>2 DEF Return, Goto, Waits
<1>3. ASSUME NEW c \in Calls, Acquire(c) \/ (Disconnected(c) /\ kind[c] # "drop")
      PROVE  WaitInv'
  <2>1. /\ pc[c] \notin Waits
        /\ \E job \in {"connect", "disconnect"}, k \in Clients \cup {None} : Submit(c, job, k)
    BY <1>3, FirstSubmit DEF Waits
  <2>2. QED BY <2>1, SubmitWait DEF JobKinds
<1>4. ASSUME NEW c \in Calls, \/ DropNothing(c) \/ ConfigFails(c)
                              \/ Disconnected(c) /\ kind[c] = "drop"
      PROVE  WaitInv'
  BY <1>2, <1>4 DEF DropNothing, ConfigFails, Disconnected
<1>5. ASSUME NEW c \in Calls, Connected(c) PROVE WaitInv'
  <2>1. CASE Return(c) /\ UNCHANGED executor
    BY <1>2, <2>1
  <2>2. CASE Submit(c, "operate", client)
    BY <1>5, <2>2, SubmitWait DEF Connected, Waits, JobKinds, TypeOK
  <2>3. QED BY <1>5, <2>1, <2>2 DEF Connected
<1>6. ASSUME NEW c \in Calls, ConnectFails(c) \/ OperationEnds(c) \/ Cancel(c) PROVE WaitInv'
  BY <1>6, GiveUpWait DEF ConnectFails, OperationEnds, Cancel
<1>7. ASSUME NEW c \in Calls, NEW kd \in Kinds, Begin(c, kd) PROVE WaitInv'
  BY <1>0, <1>1, <1>7 DEF Begin, Goto, Waits
<1>8. CASE UNCHANGED <<pc, running, waiting>>
  BY <1>8 DEF WaitInv, HasJob, Backlog
<1>9. ASSUME Disconnect \/ Operate \/ HandshakeFails PROVE WaitInv'
  <2>1. /\ running # None
        /\ \E p \in {"disconnected", "answered", "refused"} : Finish(p)
    BY <1>9 DEF Disconnect, Operate, HandshakeFails, TypeOK
  <2>2. QED BY <2>1, FinishWait DEF PCs, Holding, Waits
<1>10. ASSUME NEW p \in {"connected", "refused"}, AskTime(p) PROVE WaitInv'
  BY <1>10, FinishWait DEF AskTime, TypeOK, PCs, Holding, Waits
<1>11. ASSUME Connect PROVE WaitInv'
  <2>1. running # None /\ running \in Jobs
    BY <1>11 DEF Connect, TypeOK
  <2>2. CASE Finish("refused") \/ Finish("connected")
    BY <2>1, <2>2, FinishWait DEF PCs, Holding, Waits
  <2>3. CASE running' = [running EXCEPT !.client = client] /\ UNCHANGED <<loop, waiting>>
    <3>1. running' # None /\ running'.call = running.call
      BY <2>1, <2>3, NoneAssumption DEF Jobs, TypeOK
    <3>2. \A d \in Calls : HasJob(d) => HasJob(d)'
      BY <2>1, <2>3, <3>1 DEF HasJob, Backlog
    <3>3. QED BY <2>3, <3>2 DEF WaitInv
  <2>4. QED BY <1>11, <2>2, <2>3 DEF Connect
<1>12. QED
  BY <1>3, <1>4, <1>5, <1>6, <1>7, <1>8, <1>9, <1>10, <1>11, TakeJobWait
  DEF Next, Proceed, Work, Disconnected, ChangeEnvironment, Handshake

\* A call that waits for a job waits for the one it has.
LEMMA WaiterGoesOn ==
  ASSUME TypeOK, QueueInv, WaitInv, NEW c \in Calls, pc[c] \in Waits
  PROVE  GoesOn(c)
<1>1. CASE \E i \in DOMAIN waiting : waiting[i].call = c
  BY <1>1 DEF QueueInv, JobInv, GoesOn, Backlog
<1>2. CASE running # None /\ running.call = c
  BY <1>2, NoneAssumption DEF QueueInv, JobInv, GoesOn, Backlog
<1>3. QED BY <1>1, <1>2, JobPlaces DEF WaitInv

\* The lock and the one worker never make a call wait for itself or for nobody: whatever is
\* given up, withdrawn or cancelled, each call goes on, has a job that the executor will run,
\* or stands in line for a lock whose owner does (get_client, _run_blocking).
THEOREM NoCallIsStuck == Spec => []NobodyWaitsForNobody
<1>1. Init => LineInv /\ WaitInv
  <2>1. ASSUME Init PROVE DOMAIN waiters = {}
    BY <2>1 DEF Init
  <2>2. QED BY <2>1 DEF Init, LineInv, Once, WaitInv, Waits
<1>2. IInv /\ LineInv /\ WaitInv /\ [Next]_vars => LineInv' /\ WaitInv'
  BY LineStep, WaitStep DEF IInv
<1>3. IInv /\ LineInv /\ WaitInv => NobodyWaitsForNobody
  <2> SUFFICES ASSUME IInv, LineInv, WaitInv, NEW c \in Calls, pc[c] # "idle", ~GoesOn(c)
               PROVE  /\ pc[c] = "locking"
                      /\ IF owner = None
                           THEN /\ waiters # << >> /\ Head(waiters) \in Calls
                                /\ pc[Head(waiters)] = "locking"
                           ELSE owner \in Calls /\ GoesOn(owner)
    BY DEF NobodyWaitsForNobody
  <2>1. TypeOK /\ QueueInv /\ LockInv
    BY DEF IInv
  <2>2. \A d \in Calls : pc[d] \in PCs \ {"idle", "locking"} => GoesOn(d)
    BY <2>1, WaiterGoesOn DEF PCs, Holding, Waits, GoesOn
  <2>3. pc[c] = "locking"
    BY <2>1, <2>2 DEF TypeOK, PCs
  <2>4. waiters # << >> /\ Head(waiters) \in Calls /\ pc[Head(waiters)] = "locking"
    <3>1. PICK i \in DOMAIN waiters : waiters[i] = c
      BY <2>3 DEF LineInv
    <3>2. waiters \in Seq(Calls) /\ waiters # << >>
      BY <2>1, <3>1 DEF TypeOK
    <3>3. 1 \in DOMAIN waiters /\ Head(waiters) = waiters[1]
      BY <3>2, TailOnce
    <3>4. Head(waiters) \in Calls
      BY <3>2
    <3>5. QED BY <3>2, <3>3, <3>4 DEF LineInv
  <2>5. CASE owner # None
    <3>1. owner \in Calls /\ pc[owner] \in Holding
      BY <2>1, <2>5 DEF TypeOK, LockInv
    <3>2. pc[owner] \in PCs \ {"idle", "locking"}
      BY <3>1 DEF PCs, Holding
    <3>3. QED BY <2>2, <2>3, <2>5, <3>1, <3>2
  <2>6. QED BY <2>3, <2>4, <2>5
<1>4. QED BY <1>1, <1>2, <1>3, Invariant, PTL DEF Spec
=============================================================================
