------------------------ MODULE TradingControlProofs ------------------------
(***************************************************************************)
(* What holds of control.json and its cache for any number of processes.   *)
(***************************************************************************)
EXTENDS TradingControl, TLAPS

(***************************************************************************)
(* Types                                                                   *)
(***************************************************************************)

\* A thread that is to write or to keep settings holds some.
Holding == {"store", "decide"} \cup WriteSteps
AfterWrite == {"load", "store", "decide", "reset", "sign"}
HoldOK ==
  \A t \in Threads :
    /\ pc[t] \in Holding => hold[t] \in Settings
    /\ pc[t] \in WriteSteps => then[t] \in AfterWrite

TypeInv == TypeOK /\ HoldOK

LEMMA ThreadHasProc == \A t \in Threads : ProcOf(t) \in Procs
BY DEF Threads, ProcOf

LEMMA SigType == DiskOK => Sig \in Signatures
BY DEF DiskOK, Sig, Signatures

LEMMA DefaultsType == Defaults \in Settings
BY DEF Defaults, Settings

\* Finish, Goto and StartWrite keep the variables of the thread well-typed.
LEMMA FinishType ==
  ASSUME LocalOK, HoldOK, NEW t \in Threads, Finish(t)
  PROVE  LocalOK' /\ HoldOK'
BY DEF LocalOK, HoldOK, Finish, Jobs, Steps, Holding, WriteSteps

LEMMA GotoType ==
  ASSUME LocalOK, HoldOK, NEW t \in Threads, NEW step \in Steps, Goto(t, step),
         job' \in [Threads -> Jobs], sig' \in [Threads -> Signatures \cup {Nothing}],
         UNCHANGED <<hold, then>>,
         step \in Holding => hold[t] \in Settings,
         step \in WriteSteps => then[t] \in AfterWrite
  PROVE  LocalOK' /\ HoldOK'
BY DEF LocalOK, HoldOK, Goto

LEMMA StartWriteType ==
  ASSUME LocalOK, HoldOK, NEW t \in Threads, NEW c \in Settings, NEW next \in AfterWrite,
         StartWrite(t, c, next)
  PROVE  LocalOK' /\ HoldOK'
BY DEF LocalOK, HoldOK, StartWrite, Goto, Steps, ConfigSteps, WriteSteps, AfterWrite, Holding

LEMMA InitType == Init => TypeInv
BY StampAssumption
   DEF Init, TypeInv, TypeOK, DiskOK, GlobalsOK, LocalOK, HistoryOK, HoldOK, Jobs, Steps,
       Holding, WriteSteps

LEMMA WriteType ==
  ASSUME TypeInv, NEW t \in Threads, WriteStep(t)
  PROVE  TypeInv'
<1> USE DEF TypeInv, TypeOK
<1>1. CASE CheckExists(t)
  <2>1. LocalOK' /\ HoldOK'
    BY <1>1, GotoType DEF CheckExists, LocalOK, HoldOK, Steps, Holding, WriteSteps
  <2>2. QED
    BY <1>1, <2>1 DEF CheckExists, DiskOK, GlobalsOK, HistoryOK, disk, globals, history
<1>2. CASE Unlink(t)
  <2>1. LocalOK' /\ HoldOK'
    <3>1. CASE control # Missing
      BY <1>2, <3>1, GotoType DEF Unlink, LocalOK, HoldOK, Steps, Holding, WriteSteps
    <3>2. CASE control = Missing /\ job[t] = "start"
      BY <1>2, <3>2, GotoType DEF Unlink, LocalOK, Steps, ConfigSteps, Holding, WriteSteps
    <3>3. CASE control = Missing /\ job[t] # "start"
      BY <1>2, <3>3, FinishType DEF Unlink
    <3>4. QED BY <3>1, <3>2, <3>3
  <2>2. HistoryOK'
    BY <1>2 DEF Unlink, Overtake, HistoryOK
  <2>3. QED BY <1>2, <2>1, <2>2 DEF Unlink, DiskOK, GlobalsOK, globals
<1>3. CASE Rename(t)
  <2>1. hold[t] \in Settings /\ then[t] \in AfterWrite
    BY <1>3 DEF Rename, HoldOK, Holding, WriteSteps
  <2>2. LocalOK' /\ HoldOK'
    <3>1. CASE job[t] = "start"
      BY <1>3, <3>1, FinishType DEF Rename
    <3>2. CASE job[t] # "start"
      BY <1>3, <2>1, <3>2
         DEF Rename, Goto, LocalOK, HoldOK, AfterWrite, Holding, WriteSteps, Steps, ConfigSteps
    <3>3. QED BY <3>1, <3>2
  <2>3. DiskOK'
    BY <1>3, <2>1 DEF Rename, DiskOK, Fresh
  <2>4. HistoryOK'
    BY <1>3 DEF Rename, Overtake, HistoryOK
  <2>5. QED BY <1>3, <2>2, <2>3, <2>4 DEF Rename, GlobalsOK, globals
<1>4. QED BY <1>1, <1>2, <1>3 DEF WriteStep

LEMMA LoadType ==
  ASSUME TypeInv, NEW t \in Threads, NEW next \in {"store", "decide"}, LoadControl(t, next)
  PROVE  LocalOK' /\ HoldOK'
<1> USE DEF TypeInv, TypeOK
<1>1. CASE StartWrite(t, Defaults, next)
  BY <1>1, StartWriteType, DefaultsType DEF AfterWrite
<1>2. CASE ~ StartWrite(t, Defaults, next)
  BY <1>2, DefaultsType
     DEF LoadControl, Goto, DiskOK, LocalOK, HoldOK, Steps, ConfigSteps, WriteSteps
<1>3. QED BY <1>1, <1>2

LEMMA ConfigType ==
  ASSUME TypeInv, NEW t \in Threads, ConfigStep(t)
  PROVE  TypeInv'
<1> USE DEF TypeInv, TypeOK
<1>1. ProcOf(t) \in Procs
  BY ThreadHasProc
<1>2. CASE Sign(t)
  <2>1. LocalOK' /\ HoldOK'
    BY <1>2, SigType, GotoType
       DEF Sign, LocalOK, Steps, ConfigSteps, Holding, WriteSteps
  <2>2. QED BY <1>2, <2>1 DEF Sign, DiskOK, GlobalsOK, HistoryOK, disk, globals, history
<1>3. CASE Compare(t)
  <2>1. LocalOK' /\ HoldOK'
    BY <1>3, GotoType DEF Compare, LocalOK, Steps, ConfigSteps, Holding, WriteSteps
  <2>2. QED BY <1>3, <2>1 DEF Compare, DiskOK, GlobalsOK, HistoryOK, disk, globals, history
<1>4. CASE Ensure(t)
  <2>1. LocalOK' /\ HoldOK'
    BY <1>4, StartWriteType, FinishType, GotoType, DefaultsType
       DEF Ensure, LocalOK, Steps, ConfigSteps, Holding, WriteSteps, AfterWrite
  <2>2. QED BY <1>4, <2>1 DEF Ensure, DiskOK, GlobalsOK, HistoryOK, disk, globals, history
<1>5. CASE Load(t)
  <2>1. LocalOK' /\ HoldOK'
    BY <1>5, LoadType DEF Load
  <2>2. QED BY <1>5, <2>1 DEF Load, DiskOK, GlobalsOK, HistoryOK, disk, globals, history
<1>6. CASE Store(t)
  <2>1. hold[t] \in Settings
    BY <1>6 DEF Store, HoldOK, Holding
  <2>2. LocalOK' /\ HoldOK'
    BY <1>6 DEF Store, Goto, LocalOK, HoldOK, Steps, ConfigSteps, Holding, WriteSteps
  <2>3. GlobalsOK'
    BY <1>1, <1>6, <2>1 DEF Store, GlobalsOK
  <2>4. QED BY <1>6, <2>2, <2>3 DEF Store, DiskOK, HistoryOK, disk, history
<1>7. CASE Resign(t)
  <2>1. LocalOK' /\ HoldOK'
    BY <1>7, GotoType DEF Resign, LocalOK, Steps, ConfigSteps, Holding, WriteSteps
  <2>2. GlobalsOK'
    BY <1>1, <1>7, SigType DEF Resign, GlobalsOK
  <2>3. QED BY <1>7, <2>1, <2>2 DEF Resign, DiskOK, HistoryOK, disk, history
<1>8. CASE Result(t)
  <2>1. LocalOK' /\ HoldOK'
    BY <1>8, GotoType, FinishType DEF Result, LocalOK, Steps, ConfigSteps, Holding, WriteSteps
  <2>2. QED BY <1>8, <2>1 DEF Result, DiskOK, GlobalsOK, HistoryOK, disk, globals, history
<1>9. QED BY <1>2, <1>3, <1>4, <1>5, <1>6, <1>7, <1>8 DEF ConfigStep

LEMMA BeginType ==
  ASSUME LocalOK, HoldOK, NEW t \in Threads, NEW j \in Jobs, NEW step \in {"sign", "read"},
         Begin(t, j, step)
  PROVE  LocalOK' /\ HoldOK'
BY GotoType DEF Begin, LocalOK, Steps, ConfigSteps, Holding, WriteSteps

LEMMA CallType ==
  ASSUME TypeInv, NEW t \in Threads, Consult(t) \/ Place(t) \/ Placed(t)
  PROVE  TypeInv'
<1> USE DEF TypeInv, TypeOK
<1>1. LocalOK' /\ HoldOK'
  <2>1. CASE Consult(t) \/ Place(t)
    BY <2>1, BeginType DEF Consult, Place, Jobs
  <2>2. CASE Placed(t)
    BY <2>2, GotoType DEF Placed, LocalOK, Jobs, Steps, ConfigSteps, Holding, WriteSteps
  <2>3. QED BY <2>1, <2>2
<1>2. QED
  BY <1>1 DEF Consult, Place, Placed, DiskOK, GlobalsOK, HistoryOK, disk, globals, history

LEMMA ToolType ==
  ASSUME TypeInv, NEW t \in Threads, ToolStep(t)
  PROVE  TypeInv'
<1> USE DEF TypeInv, TypeOK
<1>1. ASSUME NEW j \in {"update", "stop", "lock"}, BeginTool(t, j) PROVE TypeInv'
  <2>1. LocalOK' /\ HoldOK'
    BY <1>1, BeginType DEF BeginTool, Jobs
  <2>2. QED BY <1>1, <2>1 DEF BeginTool, DiskOK, GlobalsOK, HistoryOK, disk, globals, history
<1>2. CASE Read(t)
  <2>1. LocalOK' /\ HoldOK'
    BY <1>2, LoadType DEF Read
  <2>2. QED BY <1>2, <2>1 DEF Read, DiskOK, GlobalsOK, HistoryOK, disk, globals, history
<1>3. ASSUME NEW u \in Settings, Decide(t, u) PROVE TypeInv'
  <2>1. LocalOK' /\ HoldOK'
    BY <1>3 DEF Decide, Goto, LocalOK, HoldOK, Jobs, Steps, ConfigSteps, Holding, WriteSteps,
                AfterWrite
  <2>2. QED BY <1>3, <2>1 DEF Decide, DiskOK, GlobalsOK, HistoryOK, disk, globals, history
<1>4. CASE DecideNothing(t)
  BY <1>4, FinishType DEF DecideNothing, DiskOK, GlobalsOK, HistoryOK, disk, globals
<1>5. CASE Reset(t)
  <2>1. GlobalsOK'
    BY <1>5, ThreadHasProc DEF Reset, GlobalsOK
  <2>2. HistoryOK'
    BY <1>5 DEF Reset, HistoryOK
  <2>3. QED BY <1>5, <2>1, <2>2, FinishType DEF Reset, DiskOK, disk
<1>6. CASE Switch(t)
  <2>1. DiskOK'
    BY <1>6 DEF Switch, DiskOK, Fresh
  <2>2. QED BY <1>6, <2>1, FinishType DEF Switch, GlobalsOK, HistoryOK, globals
<1>7. CASE AuditFails(t)
  BY <1>7, FinishType DEF AuditFails, DiskOK, GlobalsOK, HistoryOK, disk, globals, history
<1>8. QED BY <1>1, <1>2, <1>3, <1>4, <1>5, <1>6, <1>7 DEF ToolStep

LEMMA RestartType ==
  ASSUME TypeInv, NEW p \in Procs, Restart(p)
  PROVE  TypeInv'
<1> USE DEF TypeInv, TypeOK
<1>1. GlobalsOK' /\ HistoryOK' /\ DiskOK'
  BY DEF Restart, GlobalsOK, HistoryOK, DiskOK, disk
<1>2. LocalOK' /\ HoldOK'
  BY DEF Restart, LocalOK, HoldOK, Jobs, Steps, ConfigSteps, Holding, WriteSteps
<1>3. QED BY <1>1, <1>2

LEMMA TypeInvHolds == Spec => []TypeInv
<1>1. TypeInv /\ UNCHANGED vars => TypeInv'
  BY DEF TypeInv, TypeOK, DiskOK, GlobalsOK, LocalOK, HistoryOK, HoldOK, vars, disk, globals,
         local, history
<1>2. TypeInv /\ [Next]_vars => TypeInv'
  BY <1>1, WriteType, ConfigType, CallType, ToolType, RestartType DEF Next, ThreadStep
<1>3. QED BY InitType, <1>2, PTL DEF Spec

\* No interleaving of the file operations leaves anything but settings in the
\* file and in the caches.
THEOREM TypeCorrect == Spec => []TypeOK
BY TypeInvHolds, PTL DEF TypeInv

(***************************************************************************)
(* The cache                                                               *)
(***************************************************************************)

\* What a thread has loaded and not yet signed is what the file says, until the
\* file changes: that is what overtaken records.
LoadInv ==
  \A t \in Threads :
    (~overtaken[ProcOf(t)] /\ control # Missing) =>
      /\ pc[t] = "store" => hold[t] = control
      /\ pc[t] = "resign" => cache[ProcOf(t)] \in {Nothing, control}

CurrentInv ==
  \A p \in Procs :
    (~overtaken[p] /\ cache[p] # Nothing /\ cacheSig[p] = Sig /\ control # Missing)
      => cache[p] = control

CacheInv == LoadInv /\ CurrentInv

\* A step that leaves file, globals and history alone and neither starts to store
\* nor to sign.
LEMMA CacheUndisturbed ==
  ASSUME CacheInv, UNCHANGED <<disk, globals, overtaken>>,
         \A t \in Threads : pc'[t] \in {"store", "resign"} =>
                              pc'[t] = pc[t] /\ hold'[t] = hold[t]
  PROVE  CacheInv'
BY DEF CacheInv, LoadInv, CurrentInv, Sig, disk, globals

LEMMA QuietSteps ==
  ASSUME TypeInv, CacheInv, NEW t \in Threads,
         \/ CheckExists(t) \/ Sign(t) \/ Compare(t) \/ Ensure(t) \/ Result(t)
         \/ Consult(t) \/ Place(t) \/ Placed(t)
         \/ \E j \in {"update", "stop", "lock"} : BeginTool(t, j)
         \/ Read(t) \/ DecideNothing(t) \/ AuditFails(t)
         \/ \E u \in Settings : Decide(t, u)
  PROVE  CacheInv'
<1>1. UNCHANGED <<disk, globals, overtaken>>
  BY DEF CheckExists, Sign, Compare, Ensure, Result, Consult, Place, Placed, BeginTool, Read,
         Decide, DecideNothing, AuditFails, history
<1>2. ASSUME NEW u \in Threads, pc'[u] \in {"store", "resign"}
      PROVE  pc'[u] = pc[u] /\ hold'[u] = hold[u]
  BY <1>2
     DEF CheckExists, Sign, Compare, Ensure, Result, Consult, Place, Placed, BeginTool, Read,
         Decide, DecideNothing, AuditFails, LoadControl, StartWrite, Begin, Goto, Finish, TypeInv, TypeOK,
         LocalOK
<1>3. QED BY <1>1, <1>2, CacheUndisturbed

LEMMA LoadKeepsCache ==
  ASSUME TypeInv, CacheInv, NEW t \in Threads, Load(t)
  PROVE  CacheInv'
<1>1. UNCHANGED <<disk, globals, overtaken>>
  BY DEF Load, history
<1>2. CurrentInv'
  BY <1>1 DEF CacheInv, CurrentInv, Sig, disk, globals
<1>3. ASSUME NEW u \in Threads, ~overtaken[ProcOf(u)], control # Missing
      PROVE  /\ pc'[u] = "store" => hold'[u] = control
             /\ pc'[u] = "resign" => cache[ProcOf(u)] \in {Nothing, control}
  BY <1>3 DEF Load, LoadControl, Goto, CacheInv, LoadInv, TypeInv, TypeOK, LocalOK
<1>4. QED BY <1>1, <1>2, <1>3 DEF CacheInv, LoadInv, disk, globals

LEMMA StoreKeepsCache ==
  ASSUME TypeInv, CacheInv, NEW t \in Threads, Store(t)
  PROVE  CacheInv'
<1>1. ProcOf(t) \in Procs /\ UNCHANGED <<disk, cacheSig, overtaken>>
  BY ThreadHasProc DEF Store, history
<1>2. (~overtaken[ProcOf(t)] /\ control # Missing) => hold[t] = control
  BY DEF Store, CacheInv, LoadInv
<1>3. \A p \in Procs : cache'[p] = IF p = ProcOf(t) THEN hold[t] ELSE cache[p]
  BY <1>1 DEF Store, TypeInv, TypeOK, GlobalsOK
<1>4. CurrentInv'
  BY <1>1, <1>2, <1>3 DEF CacheInv, CurrentInv, Sig, disk
<1>5. ASSUME NEW u \in Threads
      PROVE  /\ pc'[u] = "store" => pc[u] = "store" /\ hold'[u] = hold[u]
             /\ pc'[u] = "resign" => pc[u] = "resign" \/ u = t
  BY DEF Store, Goto, TypeInv, TypeOK, LocalOK
<1>6. LoadInv'
  BY <1>1, <1>2, <1>3, <1>5, ThreadHasProc DEF CacheInv, LoadInv, disk
<1>7. QED BY <1>4, <1>6 DEF CacheInv

LEMMA ResignKeepsCache ==
  ASSUME TypeInv, CacheInv, NEW t \in Threads, Resign(t)
  PROVE  CacheInv'
<1>1. ProcOf(t) \in Procs /\ UNCHANGED <<disk, cache, overtaken>>
  BY ThreadHasProc DEF Resign, history
<1>2. (~overtaken[ProcOf(t)] /\ control # Missing)
        => cache[ProcOf(t)] \in {Nothing, control}
  BY DEF Resign, CacheInv, LoadInv
<1>3. \A p \in Procs : cacheSig'[p] = IF p = ProcOf(t) THEN Sig ELSE cacheSig[p]
  BY <1>1 DEF Resign, TypeInv, TypeOK, GlobalsOK
<1>4. CurrentInv'
  BY <1>1, <1>2, <1>3 DEF CacheInv, CurrentInv, Sig, disk
<1>5. ASSUME NEW u \in Threads, pc'[u] \in {"store", "resign"}
      PROVE  pc'[u] = pc[u] /\ hold'[u] = hold[u]
  BY <1>5 DEF Resign, Goto, TypeInv, TypeOK, LocalOK
<1>6. LoadInv'
  BY <1>1, <1>5 DEF CacheInv, LoadInv, disk
<1>7. QED BY <1>4, <1>6 DEF CacheInv

LEMMA UnlinkKeepsCache ==
  ASSUME CacheInv, NEW t \in Threads, Unlink(t)
  PROVE  CacheInv'
BY DEF Unlink, CacheInv, LoadInv, CurrentInv

LEMMA RenameKeepsCache ==
  ASSUME SeesControl, TypeInv, CacheInv, NEW t \in Threads, Rename(t)
  PROVE  CacheInv'
<1> USE DEF TypeInv, TypeOK
<1>1. hold[t] \in Settings /\ control' = hold[t] /\ stamp' \in Fresh(2)
  BY DEF Rename, HoldOK, Holding, WriteSteps
<1>2. \A p \in Procs : cacheSig[p] # Sig'
  <2>1. Sig' = <<edition, stamp'>>
    BY <1>1, MissingAssumption DEF Sig, Rename
  <2>2. stamp' \in Stamps /\ edition \in Stamps
    BY <1>1 DEF Fresh, DiskOK
  <2>3. ASSUME NEW p \in Procs, cacheSig[p] # Nothing PROVE cacheSig[p][2] # stamp'
    BY <1>1, <2>3 DEF Fresh, Remembered
  <2>4. Sig' # Nothing
    BY <2>1, <2>2, NothingAssumption DEF Signatures
  <2>5. QED BY <2>1, <2>3, <2>4
<1>3. CurrentInv'
  BY <1>2 DEF Rename, CurrentInv, globals
<1>4. ASSUME NEW u \in Threads, ~overtaken'[ProcOf(u)], pc'[u] \in {"store", "resign"}
      PROVE  u = t /\ pc'[u] = "store" /\ hold'[u] = control'
  <2>1. ProcOf(u) \in Procs
    BY ThreadHasProc
  <2>2. u = t
    <3>1. SUFFICES ASSUME u # t PROVE FALSE
      OBVIOUS
    <3>2. pc[u] = pc'[u]
      BY <3>1 DEF Rename, Goto, Finish, LocalOK
    <3>3. overtaken'[ProcOf(u)]
      BY <1>4, <2>1, <3>1, <3>2 DEF Rename, Overtake
    <3>4. QED BY <1>4, <3>3
  <2>3. pc[t] = "rename" /\ then[t] \in AfterWrite
    BY DEF Rename, HoldOK, WriteSteps
  <2>4. pc'[t] = "store" /\ hold'[t] = hold[t]
    BY <1>4, <2>2, <2>3 DEF Rename, Goto, Finish, LocalOK, AfterWrite
  <2>5. QED BY <1>1, <2>2, <2>4
<1>5. LoadInv'
  BY <1>4 DEF LoadInv
<1>6. QED BY <1>3, <1>5 DEF CacheInv

LEMMA ResetKeepsCache ==
  ASSUME TypeInv, CacheInv, NEW t \in Threads, Reset(t)
  PROVE  CacheInv'
<1>1. ProcOf(t) \in Procs /\ UNCHANGED <<disk, overtaken>>
  BY ThreadHasProc DEF Reset
<1>2. \A p \in Procs : cache'[p] = (IF p = ProcOf(t) THEN Nothing ELSE cache[p])
                       /\ (p # ProcOf(t) => cacheSig'[p] = cacheSig[p])
  BY <1>1 DEF Reset, TypeInv, TypeOK, GlobalsOK
<1>3. ASSUME NEW u \in Threads, pc'[u] \in {"store", "resign"}
      PROVE  pc'[u] = pc[u] /\ hold'[u] = hold[u]
  BY <1>3 DEF Reset, Finish, TypeInv, TypeOK, LocalOK
<1>4. CurrentInv'
  BY <1>1, <1>2 DEF CacheInv, CurrentInv, Sig, disk
<1>5. LoadInv'
  BY <1>1, <1>2, <1>3, ThreadHasProc DEF CacheInv, LoadInv, disk
<1>6. QED BY <1>4, <1>5 DEF CacheInv

LEMMA SwitchKeepsCache ==
  ASSUME TypeInv, CacheInv, NEW t \in Threads, Switch(t)
  PROVE  CacheInv'
<1> USE DEF TypeInv, TypeOK
<1>1. edition' \in Fresh(1) /\ UNCHANGED <<control, stamp, globals, overtaken>>
  BY DEF Switch
<1>2. \A p \in Procs : cacheSig[p] # Sig'
  <2>1. /\ Sig' = <<edition', IF SeesControl /\ control # Missing THEN stamp ELSE Missing>>
        /\ edition' \in Stamps
    BY <1>1 DEF Sig, Fresh
  <2>2. ASSUME NEW p \in Procs, cacheSig[p] # Nothing PROVE cacheSig[p][1] # edition'
    BY <1>1, <2>2 DEF Fresh, Remembered
  <2>3. Sig' # Nothing
    BY <2>1, NothingAssumption DEF Signatures, DiskOK
  <2>4. QED BY <2>1, <2>2, <2>3
<1>3. CurrentInv'
  BY <1>1, <1>2 DEF CurrentInv, globals
<1>4. ASSUME NEW u \in Threads, pc'[u] \in {"store", "resign"}
      PROVE  pc'[u] = pc[u] /\ hold'[u] = hold[u]
  BY <1>4 DEF Switch, Finish, LocalOK
<1>5. LoadInv'
  BY <1>1, <1>4 DEF CacheInv, LoadInv, globals
<1>6. QED BY <1>3, <1>5 DEF CacheInv

LEMMA RestartKeepsCache ==
  ASSUME TypeInv, CacheInv, NEW p \in Procs, Restart(p)
  PROVE  CacheInv'
<1> USE DEF TypeInv, TypeOK
<1>1. \A q \in Procs : /\ q = p => cache'[q] = Nothing
                       /\ q # p => /\ cache'[q] = cache[q] /\ cacheSig'[q] = cacheSig[q]
                                   /\ overtaken'[q] = overtaken[q]
  BY DEF Restart, GlobalsOK, HistoryOK
<1>2. ASSUME NEW u \in Threads, pc'[u] \in {"store", "resign"}
      PROVE  ProcOf(u) # p /\ pc'[u] = pc[u] /\ hold'[u] = hold[u]
  BY <1>2 DEF Restart
<1>3. CurrentInv'
  BY <1>1 DEF Restart, CacheInv, CurrentInv, Sig, disk
<1>4. LoadInv'
  BY <1>1, <1>2, ThreadHasProc DEF Restart, CacheInv, LoadInv, disk
<1>5. QED BY <1>3, <1>4 DEF CacheInv

LEMMA CacheInvKept ==
  ASSUME SeesControl, TypeInv, CacheInv, [Next]_vars
  PROVE  CacheInv'
<1>1. CASE UNCHANGED vars
  BY <1>1, CacheUndisturbed DEF vars, disk, globals, local, history
<1>2. ASSUME NEW t \in Threads, ThreadStep(t) PROVE CacheInv'
  BY <1>2, QuietSteps, LoadKeepsCache, StoreKeepsCache, ResignKeepsCache, UnlinkKeepsCache,
     RenameKeepsCache, ResetKeepsCache, SwitchKeepsCache
     DEF ThreadStep, WriteStep, ConfigStep, ToolStep
<1>3. QED BY <1>1, <1>2, RestartKeepsCache DEF Next

\* Whatever the threads of however many processes do, a configuration whose
\* signature matches the files is the one of the files, unless control.json
\* changed between the two halves of a reload.
THEOREM CacheCorrect == Spec => []CacheIsCurrent
<1>1. CASE SeesControl
  <2>1. Init => CacheInv
    BY DEF Init, CacheInv, LoadInv, CurrentInv
  <2>2. TypeInv /\ CacheInv /\ [Next]_vars => CacheInv'
    BY <1>1, CacheInvKept
  <2>3. CacheInv => CacheIsCurrent
    BY DEF CacheInv, CurrentInv, CacheIsCurrent
  <2>4. QED BY <2>1, <2>2, <2>3, TypeInvHolds, PTL DEF Spec
<1>2. CASE ~ SeesControl
  <2>1. CacheIsCurrent
    BY <1>2 DEF CacheIsCurrent
  <2>2. QED BY <2>1, PTL
<1>3. QED BY <1>1, <1>2

(***************************************************************************)
(* The stop                                                                *)
(***************************************************************************)

Tools == {"update", "enable", "stop", "lock"}

\* Tools run on the loop.  What a thread is to write, has read or has written agrees
\* with whether trading has been stopped.
ThreadOK(t) ==
  /\ job[t] \in Tools => ~IsWorker(t)
  /\ pc[t] \in {"read", "decide", "reset", "switch"} => job[t] \in Tools
  /\ pc[t] = "switch" => job[t] = "lock"
  /\ (pc[t] \in WriteSteps /\ then[t] \in {"decide", "reset"}) => job[t] \in Tools
  /\ (pc[t] \in WriteSteps /\ hold[t] = TRUE)
       => job[t] = "enable" \/ (job[t] = "update" /\ ~stopped)
  /\ pc[t] = "decide" => (hold[t] = TRUE => ~stopped) /\ (hold[t] = FALSE => control # TRUE)
  /\ (pc[t] = "reset" /\ job[t] = "stop") => control # TRUE
  /\ (job[t] = "lock" /\ \/ pc[t] \in ConfigSteps \cup {"switch"}
                         \/ pc[t] \in WriteSteps /\ then[t] \in {"load", "store"})
       => control # TRUE

StopInv ==
  /\ stopped => control # TRUE
  /\ \A t \in Threads : ThreadOK(t)

LEMMA OneLoop ==
  ASSUME OneProcess, NEW t \in Threads, NEW u \in Threads, ~IsWorker(t), u # t
  PROVE  IsWorker(u)
BY DEF OneProcess, Threads, Roles, IsWorker

Elsewhere(t) ==
  \A u \in Threads \ {t} :
    job'[u] = job[u] /\ pc'[u] = pc[u] /\ hold'[u] = hold[u] /\ then'[u] = then[u]

LEMMA OtherThread ==
  ASSUME OneProcess, NEW t \in Threads, NEW u \in Threads, u # t, Elsewhere(t), ThreadOK(u),
         \/ ~IsWorker(t)
         \/ stopped' = stopped /\ (control' = control \/ control' # TRUE)
  PROVE  ThreadOK(u)'
<1>1. job'[u] = job[u] /\ pc'[u] = pc[u] /\ hold'[u] = hold[u] /\ then'[u] = then[u]
  BY DEF Elsewhere
<1>2. CASE ~IsWorker(t)
  <2>1. IsWorker(u)
    BY <1>2, OneLoop
  <2>2. job[u] \notin Tools
    BY <2>1 DEF ThreadOK
  <2>3. QED BY <1>1, <2>2 DEF ThreadOK, Tools
<1>3. CASE stopped' = stopped /\ (control' = control \/ control' # TRUE)
  BY <1>1, <1>3 DEF ThreadOK
<1>4. QED BY <1>2, <1>3

LEMMA StopByThread ==
  ASSUME OneProcess, StopInv, NEW t \in Threads, Elsewhere(t), ThreadOK(t)',
         stopped' => control' # TRUE,
         \/ ~IsWorker(t)
         \/ stopped' = stopped /\ (control' = control \/ control' # TRUE)
  PROVE  StopInv'
BY OtherThread DEF StopInv

LEMMA StepsElsewhere ==
  ASSUME TypeInv, NEW t \in Threads, ThreadStep(t)
  PROVE  Elsewhere(t)
<1> USE DEF TypeInv, TypeOK, LocalOK
<1>1. CASE WriteStep(t)
  BY <1>1 DEF WriteStep, CheckExists, Unlink, Rename, Goto, Finish, Elsewhere
<1>2. CASE ConfigStep(t)
  BY <1>2 DEF ConfigStep, Sign, Compare, Ensure, Load, LoadControl, Store, Resign, Result, Goto,
              Finish, StartWrite, Elsewhere
<1>3. CASE ToolStep(t)
  BY <1>3 DEF ToolStep, BeginTool, Begin, Read, LoadControl, Decide, DecideNothing, AuditFails,
              Reset, Switch, Goto, Finish, StartWrite, Elsewhere
<1>4. CASE Consult(t) \/ Place(t) \/ Placed(t)
  BY <1>4 DEF Consult, Place, Placed, Begin, Goto, Elsewhere
<1>5. QED BY <1>1, <1>2, <1>3, <1>4 DEF ThreadStep

LEMMA NotTrue == Missing # TRUE /\ Nothing # TRUE /\ Nothing # FALSE /\ Defaults = FALSE
BY MissingAssumption, NothingAssumption DEF Settings, Defaults

\* A thread that is through with its job.
LEMMA FinishOK ==
  ASSUME TypeInv, NEW t \in Threads, Finish(t)
  PROVE  ThreadOK(t)'
<1>1. job'[t] = "idle" /\ pc'[t] = "idle"
  BY DEF Finish, TypeInv, TypeOK, LocalOK
<1>2. QED BY <1>1 DEF ThreadOK, Tools, WriteSteps, ConfigSteps

LEMMA WriteStops ==
  ASSUME OneProcess, TypeInv, StopInv, NEW t \in Threads, WriteStep(t)
  PROVE  StopInv'
<1> USE DEF TypeInv, TypeOK, LocalOK
<1>1. Elsewhere(t) /\ ThreadOK(t)
  BY StepsElsewhere DEF ThreadStep, StopInv
<1>2. CASE CheckExists(t)
  <2>1. /\ job'[t] = job[t] /\ pc'[t] \in {"unlink", "rename"} /\ pc[t] = "check"
        /\ hold'[t] = hold[t] /\ then'[t] = then[t]
        /\ control' = control /\ stopped' = stopped
    BY <1>2 DEF CheckExists, Goto, disk, history
  <2>2. ThreadOK(t)'
    BY <1>1, <2>1 DEF ThreadOK, WriteSteps, ConfigSteps
  <2>3. QED BY <1>1, <2>1, <2>2, StopByThread DEF StopInv
<1>3. CASE Unlink(t)
  <2>1. control' = Missing /\ stopped' = stopped /\ control' # TRUE
    BY <1>3, NotTrue DEF Unlink
  <2>2. ThreadOK(t)'
    <3>1. CASE control # Missing
      <4>1. /\ job'[t] = job[t] /\ pc'[t] = "rename" /\ pc[t] = "unlink"
            /\ hold'[t] = hold[t] /\ then'[t] = then[t]
        BY <1>3, <3>1 DEF Unlink, Goto
      <4>2. QED BY <1>1, <2>1, <4>1 DEF ThreadOK, WriteSteps, ConfigSteps
    <3>2. CASE control = Missing /\ job[t] = "start"
      <4>1. job'[t] = "start" /\ pc'[t] = "ensure"
        BY <1>3, <3>2 DEF Unlink, Goto
      <4>2. QED BY <4>1 DEF ThreadOK, WriteSteps, ConfigSteps, Tools
    <3>3. CASE control = Missing /\ job[t] # "start"
      BY <1>3, <3>3, FinishOK DEF Unlink
    <3>4. QED BY <3>1, <3>2, <3>3
  <2>3. QED BY <1>1, <2>1, <2>2, StopByThread
<1>4. CASE Rename(t)
  <2>1. /\ pc[t] = "rename" /\ control' = hold[t] /\ hold[t] \in Settings
        /\ then[t] \in AfterWrite
        /\ stopped' = (IF job[t] = "enable" THEN FALSE ELSE stopped)
    BY <1>4 DEF Rename, HoldOK, Holding, WriteSteps
  <2>2. hold[t] = TRUE => job[t] = "enable" \/ (job[t] = "update" /\ ~stopped)
    BY <1>1, <2>1 DEF ThreadOK, WriteSteps
  <2>3. stopped' => control' # TRUE
    BY <2>1, <2>2
  <2>4. hold[t] = TRUE => ~IsWorker(t)
    BY <1>1, <2>2 DEF ThreadOK, Tools
  <2>5. ThreadOK(t)'
    <3>1. CASE job[t] = "start"
      BY <1>4, <3>1, FinishOK DEF Rename
    <3>2. CASE job[t] # "start"
      <4>1. /\ job'[t] = job[t] /\ pc'[t] = then[t]
            /\ hold'[t] = (IF then[t] \in {"decide", "store"} THEN hold[t] ELSE Nothing)
        BY <1>4, <3>2 DEF Rename, Goto
      <4>2. then[t] \in {"decide", "reset"} => job[t] \in Tools
        BY <1>1, <2>1 DEF ThreadOK, WriteSteps
      <4>3. hold[t] = TRUE => job[t] \notin {"stop", "lock"} /\ ~stopped'
        BY <2>1, <2>2
      <4>4. job[t] \in Tools => ~IsWorker(t)
        BY <1>1 DEF ThreadOK
      <4>5. pc'[t] \notin WriteSteps /\ pc'[t] \notin {"read", "switch"}
        BY <2>1, <4>1 DEF AfterWrite, WriteSteps
      <4>6. QED BY <2>1, <4>1, <4>2, <4>3, <4>4, <4>5, NotTrue DEF ThreadOK
    <3>3. QED BY <3>1, <3>2
  <2>6. ~IsWorker(t) \/ (stopped' = stopped /\ control' # TRUE)
    BY <1>1, <2>1, <2>4 DEF ThreadOK, Tools
  <2>7. QED BY <1>1, <2>3, <2>5, <2>6, StopByThread
<1>5. QED BY <1>2, <1>3, <1>4 DEF WriteStep

LEMMA ConfigStops ==
  ASSUME OneProcess, TypeInv, StopInv, NEW t \in Threads, ConfigStep(t)
  PROVE  StopInv'
<1> USE DEF TypeInv, TypeOK, LocalOK
<1>1. Elsewhere(t) /\ ThreadOK(t)
  BY StepsElsewhere DEF ThreadStep, StopInv
<1>2. control' = control /\ stopped' = stopped
  BY DEF ConfigStep, Sign, Compare, Ensure, Load, Store, Resign, Result, disk, history
<1>3. pc[t] \in ConfigSteps
  BY DEF ConfigStep, Sign, Compare, Ensure, Load, Store, Resign, Result, ConfigSteps
<1>4. \/ Finish(t)
      \/ /\ job'[t] = job[t]
         /\ \/ pc'[t] \in ConfigSteps \cup {"armed"}
            \/ pc'[t] = "switch" /\ job[t] = "lock"
            \/ pc'[t] = "check" /\ hold'[t] = FALSE /\ then'[t] \in {"load", "store"}
  <2>1. CASE Sign(t) \/ Compare(t) \/ Store(t) \/ Resign(t)
    BY <2>1 DEF Sign, Compare, Store, Resign, Goto, ConfigSteps
  <2>2. CASE Ensure(t)
    BY <2>2, NotTrue DEF Ensure, StartWrite, Goto, ConfigSteps
  <2>3. CASE Load(t)
    BY <2>3, NotTrue DEF Load, LoadControl, StartWrite, Goto, ConfigSteps
  <2>4. CASE Result(t)
    BY <2>4 DEF Result, Goto
  <2>5. QED BY <2>1, <2>2, <2>3, <2>4 DEF ConfigStep
<1>5. ThreadOK(t)'
  <2>1. CASE Finish(t)
    BY <2>1, FinishOK
  <2>2. CASE job'[t] = job[t] /\ pc'[t] \in ConfigSteps \cup {"armed"}
    BY <1>1, <1>2, <1>3, <2>2 DEF ThreadOK, WriteSteps, ConfigSteps
  <2>3. CASE job'[t] = job[t] /\ pc'[t] = "switch" /\ job[t] = "lock"
    BY <1>1, <1>2, <1>3, <2>3 DEF ThreadOK, WriteSteps, ConfigSteps, Tools
  <2>4. CASE job'[t] = job[t] /\ pc'[t] = "check" /\ hold'[t] = FALSE
               /\ then'[t] \in {"load", "store"}
    BY <1>1, <1>2, <1>3, <2>4 DEF ThreadOK, WriteSteps, ConfigSteps
  <2>5. QED BY <1>4, <2>1, <2>2, <2>3, <2>4
<1>6. QED BY <1>1, <1>2, <1>5, StopByThread DEF StopInv

LEMMA ToolStops ==
  ASSUME OneProcess, TypeInv, StopInv, NEW t \in Threads, ToolStep(t)
  PROVE  StopInv'
<1> USE DEF TypeInv, TypeOK, LocalOK
<1>1. Elsewhere(t) /\ ThreadOK(t)
  BY StepsElsewhere DEF ThreadStep, StopInv
<1>2. ASSUME NEW j \in {"update", "stop", "lock"}, BeginTool(t, j) PROVE StopInv'
  <2>1. /\ ~IsWorker(t) /\ job'[t] = j /\ pc'[t] = "read"
        /\ control' = control /\ stopped' = stopped
    BY <1>2 DEF BeginTool, Begin, Goto, disk, history
  <2>2. ThreadOK(t)'
    BY <2>1 DEF ThreadOK, Tools, WriteSteps, ConfigSteps
  <2>3. QED BY <1>1, <2>1, <2>2, StopByThread DEF StopInv
<1>3. CASE Read(t)
  <2>1. /\ pc[t] = "read" /\ job'[t] = job[t]
        /\ control' = control /\ stopped' = stopped
        /\ \/ pc'[t] = "decide" /\ hold'[t] = control /\ control # Missing
           \/ pc'[t] = "decide" /\ hold'[t] = FALSE /\ control = Missing
           \/ pc'[t] = "check" /\ hold'[t] = FALSE /\ then'[t] = "decide"
    BY <1>3, NotTrue DEF Read, LoadControl, StartWrite, Goto, disk, history
  <2>2. ThreadOK(t)'
    <3>1. CASE pc'[t] = "decide"
      BY <1>1, <2>1, <3>1, NotTrue DEF ThreadOK, StopInv, WriteSteps, ConfigSteps
    <3>2. CASE pc'[t] = "check" /\ hold'[t] = FALSE /\ then'[t] = "decide"
      BY <1>1, <2>1, <3>2 DEF ThreadOK, WriteSteps, ConfigSteps
    <3>3. QED BY <2>1, <3>1, <3>2
  <2>3. QED BY <1>1, <2>1, <2>2, StopByThread DEF StopInv
<1>4. ASSUME NEW u \in Settings, Decide(t, u) PROVE StopInv'
  <2>1. /\ pc[t] = "decide" /\ pc'[t] = "check" /\ hold'[t] = u
        /\ job[t] = "update" \/ u = FALSE
        /\ job'[t] = IF u /\ ~hold[t] THEN "enable" ELSE job[t]
        /\ then'[t] \in {"sign", "reset"}
        /\ control' = control /\ stopped' = stopped
    BY <1>4 DEF Decide, Goto, disk, history
  <2>2. job[t] \in Tools /\ ~IsWorker(t) /\ (hold[t] = TRUE => ~stopped) /\ hold[t] \in BOOLEAN
    BY <1>1, <2>1 DEF ThreadOK, HoldOK, Holding, Settings
  <2>3. ThreadOK(t)'
    <3>1. job'[t] \in Tools
      BY <2>1, <2>2 DEF Tools
    <3>2. hold'[t] = TRUE => job'[t] = "enable" \/ (job'[t] = "update" /\ ~stopped)
      BY <2>1, <2>2
    <3>3. QED BY <2>1, <2>2, <3>1, <3>2 DEF ThreadOK, WriteSteps, ConfigSteps
  <2>4. QED BY <1>1, <2>1, <2>3, StopByThread DEF StopInv
<1>5. CASE DecideNothing(t)
  <2>1. /\ pc[t] = "decide" /\ control' = control /\ Finish(t)
        /\ stopped' = stopped \/ (hold[t] = FALSE /\ stopped' = TRUE)
    BY <1>5 DEF DecideNothing, disk, HoldOK, Holding, Settings
  <2>2. ~IsWorker(t) /\ (hold[t] = FALSE => control # TRUE)
    BY <1>1, <2>1 DEF ThreadOK
  <2>3. ThreadOK(t)'
    BY <2>1, FinishOK
  <2>4. stopped => control # TRUE
    BY DEF StopInv
  <2>5. stopped' => control' # TRUE
    <3>1. CASE stopped' = stopped
      BY <2>1, <2>4, <3>1
    <3>2. CASE hold[t] = FALSE /\ stopped' = TRUE
      BY <2>1, <2>2, <3>2
    <3>3. QED BY <2>1, <3>1, <3>2
  <2>6. QED BY <1>1, <2>2, <2>3, <2>5, StopByThread
<1>6. CASE Reset(t)
  <2>1. /\ pc[t] = "reset" /\ control' = control /\ Finish(t)
        /\ stopped' = (stopped \/ job[t] = "stop")
    BY <1>6 DEF Reset, disk
  <2>2. ~IsWorker(t) /\ (job[t] = "stop" => control # TRUE)
    BY <1>1, <2>1 DEF ThreadOK
  <2>3. QED BY <1>1, <2>1, <2>2, FinishOK, StopByThread DEF StopInv
<1>7. CASE Switch(t)
  <2>1. pc[t] = "switch" /\ control' = control /\ Finish(t)
    BY <1>7 DEF Switch
  <2>2. ~IsWorker(t) /\ control # TRUE
    BY <1>1, <2>1 DEF ThreadOK
  <2>3. QED BY <1>1, <2>1, <2>2, FinishOK, StopByThread
<1>8. CASE AuditFails(t)
  <2>1. control' = control /\ stopped' = stopped /\ Finish(t)
    BY <1>8 DEF AuditFails, disk, history
  <2>2. QED BY <1>1, <2>1, FinishOK, StopByThread DEF StopInv
<1>9. QED BY <1>2, <1>3, <1>4, <1>5, <1>6, <1>7, <1>8 DEF ToolStep

LEMMA CallStops ==
  ASSUME OneProcess, TypeInv, StopInv, NEW t \in Threads, Consult(t) \/ Place(t) \/ Placed(t)
  PROVE  StopInv'
<1> USE DEF TypeInv, TypeOK, LocalOK
<1>1. Elsewhere(t)
  BY StepsElsewhere DEF ThreadStep
<1>2. /\ job'[t] \in {"config", "place"} /\ pc'[t] = "sign"
      /\ control' = control /\ stopped' = stopped
  BY DEF Consult, Place, Placed, Begin, Goto, disk, history
<1>3. ThreadOK(t)'
  BY <1>2 DEF ThreadOK, Tools, WriteSteps, ConfigSteps
<1>4. QED BY <1>1, <1>2, <1>3, StopByThread DEF StopInv

LEMMA RestartStops ==
  ASSUME TypeInv, StopInv, NEW p \in Procs, Restart(p)
  PROVE  StopInv'
<1>1. control' = control /\ stopped' = stopped
  BY DEF Restart, disk
<1>2. ASSUME NEW t \in Threads PROVE ThreadOK(t)'
  <2>1. CASE ProcOf(t) = p
    <3>1. job'[t] \in {"idle", "start"} /\ pc'[t] \in {"idle", "ensure"}
      BY <2>1 DEF Restart
    <3>2. QED BY <3>1 DEF ThreadOK, Tools, WriteSteps, ConfigSteps
  <2>2. CASE ProcOf(t) # p
    <3>1. job'[t] = job[t] /\ pc'[t] = pc[t] /\ hold'[t] = hold[t] /\ then'[t] = then[t]
      BY <2>2 DEF Restart
    <3>2. QED BY <1>1, <3>1 DEF StopInv, ThreadOK
  <2>3. QED BY <2>1, <2>2
<1>3. QED BY <1>1, <1>2 DEF StopInv

LEMMA StopInvHolds == OneProcess /\ Spec => []StopInv
<1> SUFFICES ASSUME OneProcess PROVE Spec => []StopInv
  OBVIOUS
<1>1. Init => StopInv
  BY DEF Init, StopInv, ThreadOK, Tools, WriteSteps, ConfigSteps
<1>2. TypeInv /\ StopInv /\ [Next]_vars => StopInv'
  <2>1. ASSUME StopInv, UNCHANGED vars PROVE StopInv'
    BY <2>1 DEF StopInv, ThreadOK, vars, disk, local, history
  <2>2. ASSUME TypeInv, StopInv, NEW t \in Threads, ThreadStep(t) PROVE StopInv'
    BY <2>2, WriteStops, ConfigStops, ToolStops, CallStops DEF ThreadStep
  <2>3. ASSUME TypeInv, StopInv, NEW p \in Procs, Restart(p) PROVE StopInv'
    BY <2>3, RestartStops
  <2>4. QED BY <2>1, <2>2, <2>3 DEF Next
<1>3. QED BY <1>1, <1>2, TypeInvHolds, PTL DEF Spec

\* With one process, trading that a tool has disabled stays disabled on disk until an
\* update that finds it disabled asks for it.
THEOREM StopIsKept == Spec => []StopHolds
<1>1. CASE OneProcess
  <2>1. TypeInv /\ StopInv => StopHolds
    BY DEF TypeInv, TypeOK, DiskOK, Settings, StopInv, StopHolds
  <2>2. QED BY <1>1, <2>1, StopInvHolds, TypeInvHolds, PTL
<1>2. CASE ~OneProcess
  <2>1. StopHolds
    BY <1>2 DEF StopHolds
  <2>2. QED BY <2>1, PTL
<1>3. QED BY <1>1, <1>2

(***************************************************************************)
(* What a stop means for placements                                        *)
(***************************************************************************)

\* Orders that a thread has loaded as real, and not yet signed, are real on disk.
EnabledInv ==
  \A t \in Threads :
    ~overtaken[ProcOf(t)] =>
      /\ (pc[t] = "store" /\ hold[t] = TRUE) => control = TRUE
      /\ (pc[t] = "resign" /\ cache[ProcOf(t)] = TRUE) => control = TRUE

\* A cache that allows orders under the signature of a missing file is about to be
\* signed again.
UnsignedInv ==
  \A p \in Procs :
    (~overtaken[p] /\ cache[p] = TRUE /\ cacheSig[p] # Nothing /\ cacheSig[p][2] = Missing)
      => \E t \in Threads : ProcOf(t) = p /\ pc[t] = "resign"

\* The signature that a placement took after the stop is not the one of a cache that
\* allows orders, so it never has such a cache before it.
AfterStopOK(t) ==
  afterStop[t] =>
    /\ stopped
    /\ ~overtaken[ProcOf(t)] =>
         /\ (pc[t] = "compare" /\ cacheSig[ProcOf(t)] = sig[t]) => cache[ProcOf(t)] # TRUE
         /\ pc[t] = "result" => cache[ProcOf(t)] # TRUE
         /\ pc[t] # "armed"

EffectInv ==
  /\ EnabledInv
  /\ UnsignedInv
  /\ \A t \in Threads : AfterStopOK(t)

LEMMA SigElsewhere ==
  ASSUME TypeInv, NEW t \in Threads, ThreadStep(t), NEW u \in Threads, u # t
  PROVE  sig'[u] = sig[u]
<1> USE DEF TypeInv, TypeOK, LocalOK
<1>1. CASE WriteStep(t)
  BY <1>1 DEF WriteStep, CheckExists, Unlink, Rename, Finish
<1>2. CASE ConfigStep(t)
  BY <1>2 DEF ConfigStep, Sign, Compare, Ensure, Load, LoadControl, Store, Resign, Result,
              Finish, StartWrite
<1>3. CASE ToolStep(t)
  BY <1>3 DEF ToolStep, BeginTool, Begin, Read, LoadControl, Decide, DecideNothing, AuditFails,
              Reset, Switch, Finish, StartWrite
<1>4. CASE Consult(t) \/ Place(t) \/ Placed(t)
  BY <1>4 DEF Consult, Place, Placed, Begin
<1>5. QED BY <1>1, <1>2, <1>3, <1>4 DEF ThreadStep

\* What a step does to the cache of a process: it stores, signs or resets it, or
\* leaves it alone.
LEMMA CacheSteps ==
  ASSUME TypeInv, NEW t \in Threads, ThreadStep(t), NEW p \in Procs
  PROVE  \/ Store(t) /\ p = ProcOf(t) /\ cache'[p] = hold[t] /\ cacheSig'[p] = cacheSig[p]
         \/ Resign(t) /\ p = ProcOf(t) /\ cache'[p] = cache[p] /\ cacheSig'[p] = Sig
         \/ cache'[p] = Nothing
         \/ cache'[p] = cache[p] /\ cacheSig'[p] = cacheSig[p]
<1> USE ThreadHasProc DEF TypeInv, TypeOK, GlobalsOK
<1>1. CASE Store(t)
  BY <1>1 DEF Store
<1>2. CASE Resign(t)
  BY <1>2 DEF Resign
<1>3. CASE Reset(t)
  BY <1>3 DEF Reset
<1>4. CASE ~Store(t) /\ ~Resign(t) /\ ~Reset(t)
  BY <1>4 DEF ThreadStep, WriteStep, CheckExists, Unlink, Rename, ConfigStep, Sign, Compare,
              Ensure, Load, Result, ToolStep, BeginTool, Read, Decide, DecideNothing, AuditFails,
              Switch, Consult, Place, Placed, globals
<1>5. QED BY <1>1, <1>2, <1>3, <1>4

\* The file changes only under threads for which that is recorded.
LEMMA OvertakeSteps ==
  ASSUME TypeInv, NEW t \in Threads, ThreadStep(t)
  PROVE  /\ \A p \in Procs : overtaken[p] => overtaken'[p]
         /\ \A u \in Threads \ {t} : pc[u] \in {"store", "resign"} =>
              control' = control \/ overtaken'[ProcOf(u)]
<1> USE ThreadHasProc DEF TypeInv, TypeOK, HistoryOK
<1>1. CASE Unlink(t)
  BY <1>1 DEF Unlink, Overtake
<1>2. CASE Rename(t)
  BY <1>2 DEF Rename, Overtake
<1>3. CASE ~Unlink(t) /\ ~Rename(t)
  BY <1>3 DEF ThreadStep, WriteStep, CheckExists, ConfigStep, Sign, Compare, Ensure, Load, Store,
              Resign, Result, ToolStep, BeginTool, Read, Decide, DecideNothing, AuditFails, Reset,
              Switch, Consult, Place, Placed, disk, history
<1>4. QED BY <1>1, <1>2, <1>3

\* How a thread comes to store, to sign again, to have a configuration or to be past
\* the settings.
LEMMA Arrivals ==
  ASSUME TypeInv, NEW t \in Threads, ThreadStep(t)
  PROVE  /\ pc'[t] = "store" => (hold'[t] = TRUE => control' = TRUE)
         /\ pc'[t] = "resign" => Store(t)
         /\ pc'[t] = "compare" => Sign(t)
         /\ pc'[t] = "result" => (Compare(t) /\ UpToDate(t)) \/ Resign(t)
         /\ pc'[t] = "armed" => Result(t) /\ cache[ProcOf(t)] = TRUE
<1> USE DEF TypeInv, TypeOK, LocalOK
<1>1. CASE CheckExists(t)
  BY <1>1 DEF CheckExists, Goto
<1>2. CASE Unlink(t)
  BY <1>2 DEF Unlink, Goto, Finish
<1>3. CASE Rename(t)
  <2>1. control' = hold[t] /\ then[t] \in AfterWrite
    BY <1>3 DEF Rename, HoldOK, WriteSteps
  <2>2. CASE job[t] = "start"
    BY <1>3, <2>2 DEF Rename, Finish
  <2>3. CASE job[t] # "start"
    <3>1. pc'[t] = then[t] /\ (then[t] = "store" => hold'[t] = hold[t])
      BY <1>3, <2>3 DEF Rename, Goto
    <3>2. QED BY <2>1, <3>1 DEF AfterWrite
  <2>4. QED BY <2>2, <2>3
<1>4. CASE Sign(t) \/ Compare(t) \/ Store(t) \/ Resign(t)
  BY <1>4 DEF Sign, Compare, Store, Resign, Goto
<1>5. CASE Ensure(t)
  BY <1>5 DEF Ensure, StartWrite, Goto, Finish
<1>6. CASE Load(t)
  BY <1>6, NotTrue DEF Load, LoadControl, StartWrite, Goto, disk
<1>7. CASE Result(t)
  BY <1>7 DEF Result, Goto, Finish
<1>8. CASE ToolStep(t)
  BY <1>8 DEF ToolStep, BeginTool, Begin, Read, LoadControl, Decide, DecideNothing, AuditFails,
              Reset, Switch, Goto, Finish, StartWrite
<1>9. CASE Consult(t) \/ Place(t) \/ Placed(t)
  BY <1>9 DEF Consult, Place, Placed, Begin, Goto
<1>10. QED BY <1>1, <1>2, <1>3, <1>4, <1>5, <1>6, <1>7, <1>8, <1>9
           DEF ThreadStep, WriteStep, ConfigStep

LEMMA EnabledKept ==
  ASSUME TypeInv, EnabledInv, NEW t \in Threads, ThreadStep(t)
  PROVE  EnabledInv'
<1> SUFFICES ASSUME NEW u \in Threads, ~overtaken'[ProcOf(u)]
             PROVE  /\ (pc'[u] = "store" /\ hold'[u] = TRUE) => control' = TRUE
                    /\ (pc'[u] = "resign" /\ cache'[ProcOf(u)] = TRUE) => control' = TRUE
  BY DEF EnabledInv
<1>1. ProcOf(u) \in Procs /\ ~overtaken[ProcOf(u)]
  BY ThreadHasProc, OvertakeSteps
<1>2. CASE u = t
  <2>1. (pc'[u] = "resign" /\ cache'[ProcOf(u)] = TRUE) => control' = TRUE
    <3>1. SUFFICES ASSUME Store(t), cache'[ProcOf(t)] = TRUE PROVE control' = TRUE
      BY <1>2, Arrivals
    <3>2. hold[t] = TRUE /\ pc[t] = "store" /\ control' = control
      BY <1>1, <1>2, <3>1 DEF Store, disk, TypeInv, TypeOK, GlobalsOK
    <3>3. QED BY <1>1, <1>2, <3>2 DEF EnabledInv
  <2>2. QED BY <1>2, <2>1, Arrivals
<1>3. CASE u # t
  <2>1. pc'[u] = pc[u] /\ hold'[u] = hold[u]
    BY <1>3, StepsElsewhere DEF Elsewhere
  <2>2. pc[u] \in {"store", "resign"} => control' = control
    BY <1>3, OvertakeSteps
  <2>3. cache'[ProcOf(u)] = TRUE => cache[ProcOf(u)] = TRUE \/ control' = TRUE \/ pc[u] # "resign"
    <3>1. SUFFICES ASSUME Store(t), ProcOf(u) = ProcOf(t), hold[t] = TRUE PROVE control' = TRUE
      BY <1>1, CacheSteps, NotTrue
    <3>2. pc[t] = "store" /\ control' = control
      BY <3>1 DEF Store, disk
    <3>3. QED BY <1>1, <3>1, <3>2 DEF EnabledInv
  <2>4. QED BY <1>1, <2>1, <2>2, <2>3 DEF EnabledInv
<1>4. QED BY <1>2, <1>3

\* A file with real orders in it is there to be signed.
LEMMA SignedAsPresent ==
  ASSUME SeesControl, DiskOK, control = TRUE
  PROVE  Sig[2] # Missing
BY NotTrue, StampAssumption DEF Sig, DiskOK

LEMMA UnsignedKept ==
  ASSUME SeesControl, TypeInv, EnabledInv, UnsignedInv, NEW t \in Threads, ThreadStep(t)
  PROVE  UnsignedInv'
<1> SUFFICES ASSUME NEW p \in Procs, ~overtaken'[p], cache'[p] = TRUE, cacheSig'[p] # Nothing,
                    cacheSig'[p][2] = Missing
             PROVE  \E u \in Threads : ProcOf(u) = p /\ pc'[u] = "resign"
  BY DEF UnsignedInv
<1>1. ~overtaken[p]
  BY OvertakeSteps
<1>2. CASE Store(t) /\ p = ProcOf(t)
  BY <1>2 DEF Store, Goto, TypeInv, TypeOK, LocalOK
<1>3. CASE Resign(t) /\ p = ProcOf(t)
  <2>1. cache[p] = TRUE /\ cacheSig'[p] = Sig /\ pc[t] = "resign"
    BY <1>3 DEF Resign, TypeInv, TypeOK, GlobalsOK
  <2>2. control = TRUE
    BY <1>1, <1>3, <2>1 DEF EnabledInv
  <2>3. QED BY <2>1, <2>2, SignedAsPresent DEF TypeInv, TypeOK
<1>4. CASE ~(Store(t) /\ p = ProcOf(t)) /\ ~(Resign(t) /\ p = ProcOf(t))
  <2>1. cache[p] = TRUE /\ cacheSig'[p] = cacheSig[p]
    BY <1>4, CacheSteps, NotTrue
  <2>2. PICK u \in Threads : ProcOf(u) = p /\ pc[u] = "resign"
    BY <1>1, <2>1 DEF UnsignedInv
  <2>3. CASE u = t
    <3>1. Resign(t)
      BY <2>2, <2>3 DEF ThreadStep, WriteStep, CheckExists, Unlink, Rename, ConfigStep, Sign,
                        Compare, Ensure, Load, Store, Result, ToolStep, BeginTool, Read, Decide,
                        DecideNothing, AuditFails, Reset, Switch, Consult, Place, Placed, Begin
    <3>2. QED BY <1>4, <2>2, <2>3, <3>1
  <2>4. CASE u # t
    BY <2>2, <2>4, StepsElsewhere DEF Elsewhere
  <2>5. QED BY <2>3, <2>4
<1>5. QED BY <1>2, <1>3, <1>4

\* While trading is stopped, a cache that allows orders is an old one under its old
\* signature, which is not that of the files.
LEMMA OnlyStaleCaches ==
  ASSUME TypeInv, StopInv, EnabledInv, stopped, NEW t \in Threads, ThreadStep(t),
         NEW p \in Procs, ~overtaken[p], cache'[p] = TRUE
  PROVE  cache[p] = TRUE /\ cacheSig'[p] = cacheSig[p]
<1>1. control # TRUE
  BY DEF StopInv
<1>2. ~(Store(t) /\ p = ProcOf(t) /\ hold[t] = TRUE)
  BY <1>1 DEF Store, EnabledInv
<1>3. ~(Resign(t) /\ p = ProcOf(t) /\ cache[p] = TRUE)
  BY <1>1 DEF Resign, EnabledInv
<1>4. QED BY <1>2, <1>3, CacheSteps, NotTrue

LEMMA StaleUnsigned ==
  ASSUME SeesControl, TypeInv, CacheInv, StopInv, EnabledInv, UnsignedInv, stopped,
         NEW p \in Procs, ~overtaken[p], cache[p] = TRUE
  PROVE  cacheSig[p] # Sig
<1>1. control # TRUE
  BY DEF StopInv
<1>2. SUFFICES ASSUME cacheSig[p] = Sig PROVE FALSE
  OBVIOUS
<1>3. CASE control # Missing
  BY <1>1, <1>2, <1>3, NotTrue DEF CacheInv, CurrentInv
<1>4. CASE control = Missing
  <2>1. cacheSig[p] # Nothing /\ cacheSig[p][2] = Missing
    BY <1>2, <1>4, SigType, NothingAssumption DEF Sig, TypeInv, TypeOK
  <2>2. QED BY <1>1, <2>1 DEF UnsignedInv, EnabledInv
<1>5. QED BY <1>3, <1>4

\* A placement is marked when it begins, and an update that enables trading clears
\* the marks.
LEMMA Marks ==
  ASSUME TypeInv, NEW t \in Threads, ThreadStep(t), NEW u \in Threads, afterStop'[u],
         afterStop[u] => stopped
  PROVE  /\ stopped' = TRUE
         /\ afterStop[u] \/ (u = t /\ Place(t))
<1> USE DEF TypeInv, TypeOK, HistoryOK
<1>1. CASE Rename(t)
  <2>1. job[t] # "enable"
    BY <1>1 DEF Rename
  <2>2. QED BY <1>1, <2>1 DEF Rename
<1>2. CASE Place(t)
  <2>1. CASE u = t
    BY <1>2, <2>1 DEF Place
  <2>2. CASE u # t
    BY <1>2, <2>2 DEF Place
  <2>3. QED BY <2>1, <2>2
<1>3. CASE Placed(t)
  BY <1>3 DEF Placed
<1>4. CASE DecideNothing(t) \/ Reset(t) \/ Switch(t)
  BY <1>4 DEF DecideNothing, Reset, Switch
<1>5. CASE UNCHANGED <<stopped, afterStop>>
  BY <1>5
<1>6. QED
  BY <1>1, <1>2, <1>3, <1>4, <1>5
     DEF ThreadStep, WriteStep, CheckExists, Unlink, ConfigStep, Sign, Compare, Ensure, Load,
         Store, Resign, Result, ToolStep, BeginTool, Read, Decide, AuditFails, Consult, history

LEMMA AfterStopKept ==
  ASSUME SeesControl, TypeInv, CacheInv, StopInv, EffectInv, NEW t \in Threads, ThreadStep(t),
         NEW u \in Threads
  PROVE  AfterStopOK(u)'
<1> DEFINE p == ProcOf(u)
<1> SUFFICES ASSUME afterStop'[u], ~overtaken'[p]
             PROVE  /\ (pc'[u] = "compare" /\ cacheSig'[p] = sig'[u]) => cache'[p] # TRUE
                    /\ pc'[u] = "result" => cache'[p] # TRUE
                    /\ pc'[u] # "armed"
  BY Marks DEF EffectInv, AfterStopOK
<1>1. p \in Procs /\ ~overtaken[p]
  BY ThreadHasProc, OvertakeSteps
<1>2. afterStop[u] \/ (u = t /\ Place(t))
  BY Marks DEF EffectInv, AfterStopOK
<1>3. CASE u = t /\ Place(t)
  BY <1>3 DEF Place, Begin, Goto, TypeInv, TypeOK, LocalOK
<1>4. CASE afterStop[u]
  <2>1. stopped
    BY <1>4 DEF EffectInv, AfterStopOK
  <2>2. cache'[p] = TRUE => cache[p] = TRUE /\ cacheSig'[p] = cacheSig[p]
    BY <1>1, <2>1, OnlyStaleCaches DEF EffectInv
  <2>3. cache[p] = TRUE => cacheSig[p] # Sig
    BY <1>1, <2>1, StaleUnsigned DEF EffectInv
  <2>4. CASE u # t
    <3>1. pc'[u] = pc[u] /\ sig'[u] = sig[u]
      BY <2>4, StepsElsewhere, SigElsewhere DEF Elsewhere
    <3>2. QED BY <1>1, <1>4, <2>2, <3>1 DEF EffectInv, AfterStopOK
  <2>5. CASE u = t
    <3>1. (pc'[u] = "compare" /\ cacheSig'[p] = sig'[u]) => cache'[p] # TRUE
      <4>1. SUFFICES ASSUME Sign(t), cache'[p] = TRUE PROVE cacheSig'[p] # sig'[u]
        BY <2>5, Arrivals
      <4>2. sig'[u] = Sig
        BY <2>5, <4>1 DEF Sign, TypeInv, TypeOK, LocalOK
      <4>3. QED BY <2>2, <2>3, <4>1, <4>2
    <3>2. pc'[u] = "result" => cache'[p] # TRUE
      <4>1. SUFFICES ASSUME pc'[u] = "result", cache'[p] = TRUE PROVE FALSE
        OBVIOUS
      <4>2. CASE Compare(t) /\ UpToDate(t)
        BY <1>1, <1>4, <2>2, <2>5, <4>1, <4>2 DEF Compare, UpToDate, EffectInv, AfterStopOK
      <4>3. CASE Resign(t)
        BY <1>1, <2>1, <2>2, <2>5, <4>1, <4>3 DEF Resign, EffectInv, EnabledInv, StopInv
      <4>4. QED BY <2>5, <4>1, <4>2, <4>3, Arrivals
    <3>3. pc'[u] # "armed"
      BY <1>1, <1>4, <2>5, Arrivals DEF Result, EffectInv, AfterStopOK
    <3>4. QED BY <3>1, <3>2, <3>3
  <2>6. QED BY <2>4, <2>5
<1>5. QED BY <1>2, <1>3, <1>4

LEMMA RestartKeepsEffect ==
  ASSUME TypeInv, EffectInv, NEW p \in Procs, Restart(p)
  PROVE  EffectInv'
<1> USE DEF TypeInv, TypeOK
<1>1. \A q \in Procs : /\ q = p => cache'[q] = Nothing
                       /\ q # p => /\ cache'[q] = cache[q] /\ cacheSig'[q] = cacheSig[q]
                                   /\ overtaken'[q] = overtaken[q]
  BY DEF Restart, GlobalsOK, HistoryOK
<1>2. \A u \in Threads : ProcOf(u) = p => pc'[u] \in {"idle", "ensure"} /\ ~afterStop'[u]
  BY DEF Restart
<1>3. \A u \in Threads : ProcOf(u) # p =>
        /\ pc'[u] = pc[u] /\ hold'[u] = hold[u] /\ sig'[u] = sig[u]
        /\ afterStop'[u] = afterStop[u]
  BY DEF Restart, HistoryOK
<1>4. control' = control /\ stopped' = stopped
  BY DEF Restart, disk
<1>5. EnabledInv'
  BY <1>1, <1>2, <1>3, <1>4, ThreadHasProc DEF EffectInv, EnabledInv
<1>6. UnsignedInv'
  <2> SUFFICES ASSUME NEW q \in Procs, ~overtaken'[q], cache'[q] = TRUE, cacheSig'[q] # Nothing,
                      cacheSig'[q][2] = Missing
               PROVE  \E u \in Threads : ProcOf(u) = q /\ pc'[u] = "resign"
    BY DEF UnsignedInv
  <2>1. q # p
    BY <1>1, NotTrue
  <2>2. PICK u \in Threads : ProcOf(u) = q /\ pc[u] = "resign"
    BY <1>1, <2>1 DEF EffectInv, UnsignedInv
  <2>3. QED BY <1>3, <2>1, <2>2
<1>7. ASSUME NEW u \in Threads PROVE AfterStopOK(u)'
  <2>1. CASE ProcOf(u) = p
    BY <1>2, <2>1 DEF AfterStopOK
  <2>2. CASE ProcOf(u) # p
    <3>1. /\ cache'[ProcOf(u)] = cache[ProcOf(u)]
          /\ cacheSig'[ProcOf(u)] = cacheSig[ProcOf(u)]
          /\ overtaken'[ProcOf(u)] = overtaken[ProcOf(u)]
      BY <1>1, <2>2, ThreadHasProc
    <3>2. /\ pc'[u] = pc[u] /\ sig'[u] = sig[u]
          /\ afterStop'[u] = afterStop[u] /\ stopped' = stopped
      BY <1>3, <1>4, <2>2
    <3>3. AfterStopOK(u)
      BY DEF EffectInv
    <3>4. CASE ~afterStop[u]
      BY <3>2, <3>4 DEF AfterStopOK
    <3>5. CASE afterStop[u]
      <4>1. stopped'
        BY <3>2, <3>3, <3>5 DEF AfterStopOK
      <4>2. QED BY <3>1, <3>2, <3>3, <3>5, <4>1 DEF AfterStopOK
    <3>6. QED BY <3>4, <3>5
  <2>3. QED BY <2>1, <2>2
<1>8. QED BY <1>5, <1>6, <1>7 DEF EffectInv

LEMMA EffectInvHolds == OneProcess /\ SeesControl /\ Spec => []EffectInv
<1> SUFFICES ASSUME OneProcess, SeesControl PROVE Spec => []EffectInv
  OBVIOUS
<1>1. Init => EffectInv /\ CacheInv
  <2> SUFFICES ASSUME Init PROVE EffectInv /\ CacheInv
    OBVIOUS
  <2>1. EffectInv
    BY ThreadHasProc, NotTrue DEF Init, EffectInv, EnabledInv, UnsignedInv, AfterStopOK
  <2>2. CacheInv
    BY DEF Init, CacheInv, LoadInv, CurrentInv
  <2>3. QED BY <2>1, <2>2
<1>2. TypeInv /\ CacheInv /\ StopInv /\ EffectInv /\ [Next]_vars => EffectInv'
  <2>1. ASSUME EffectInv, UNCHANGED vars PROVE EffectInv'
    BY <2>1 DEF EffectInv, EnabledInv, UnsignedInv, AfterStopOK, vars, disk, globals, local, history
  <2>2. ASSUME TypeInv, CacheInv, StopInv, EffectInv, NEW t \in Threads, ThreadStep(t)
        PROVE  EffectInv'
    <3>1. EnabledInv' /\ UnsignedInv'
      BY <2>2, EnabledKept, UnsignedKept DEF EffectInv
    <3>2. \A u \in Threads : AfterStopOK(u)'
      BY <2>2, AfterStopKept
    <3>3. QED BY <3>1, <3>2 DEF EffectInv
  <2>3. ASSUME TypeInv, EffectInv, NEW p \in Procs, Restart(p) PROVE EffectInv'
    BY <2>3, RestartKeepsEffect
  <2>4. QED BY <2>1, <2>2, <2>3 DEF Next
<1>3. TypeInv /\ CacheInv /\ [Next]_vars => CacheInv'
  BY CacheInvKept
<1>4. QED BY <1>1, <1>2, <1>3, TypeInvHolds, StopInvHolds, PTL DEF Spec

\* With one process, a placement that begins when trading has been disabled does not
\* get past the settings, unless control.json changed between the two halves of a
\* reload: whatever the loop writes, resets or reloads meanwhile.
THEOREM StopTakesEffect == Spec => []StopIsEffective
<1>1. CASE OneProcess /\ SeesControl
  <2>1. EffectInv => StopIsEffective
    BY DEF EffectInv, AfterStopOK, StopIsEffective
  <2>2. QED BY <1>1, <2>1, EffectInvHolds, PTL
<1>2. CASE ~(OneProcess /\ SeesControl)
  <2>1. StopIsEffective
    BY <1>2 DEF StopIsEffective
  <2>2. QED BY <2>1, PTL
<1>3. QED BY <1>1, <1>2
=============================================================================
