--------------------------- MODULE TradingControl ---------------------------
(***************************************************************************)
(* control.json (ibkr_core/control.py), the configuration that caches it   *)
(* (ibkr_core/config.py) and the tools of mcp_server/main.py that write    *)
(* it.                                                                     *)
(*                                                                         *)
(* A process has two threads that come here: its event loop, which runs    *)
(* the tools, and the worker of services.py, which places orders.  Neither *)
(* the file nor the two globals of config.py are behind a lock, so the     *)
(* steps of this module are single file operations and single reads and    *)
(* writes of the globals, and threads interleave between any two of them.  *)
(* What a tool does here contains no await: the loop of a process does one *)
(* thing at a time.                                                        *)
(***************************************************************************)
CONSTANTS
  Procs,            \* server processes that share the data directory
  SeesControl,      \* config.json names the directory that control.json is in
                    \* (FALSE: MM_IBKR_CONTROL_DIR points elsewhere)
  Stamps,           \* modification times (more of them than are remembered)
  Missing,          \* the file does not exist
  Nothing           \* None, the initial value of the globals

Roles == {"loop", "worker"}
Threads == Procs \X Roles
ProcOf(t) == t[1]
IsWorker(t) == t[2] = "worker"

\* Of the settings, whether orders are real: orders_enabled and not dry_run.
Settings == BOOLEAN

\* Mutant: a setting that is not there stays unset.
DefaultsUnset == Nothing

\* Mutant: what is not blocked is allowed.
DefaultsEnabled == TRUE

\* ControlState.defaults()
Defaults == FALSE

Signatures == Stamps \X (Stamps \cup {Missing})

ASSUME StampAssumption == Stamps # {} /\ Missing \notin Stamps
ASSUME NothingAssumption == Nothing \notin Settings \cup Signatures
ASSUME MissingAssumption == Missing \notin Settings

VARIABLES
  \* the data directory
  control,          \* control.json
  stamp,            \* its modification time
  edition,          \* that of config.json
  \* ibkr_core/config.py, in each process
  cache,            \* _config
  cacheSig,         \* _config_signature
  \* threads
  job,              \* job[t]: what t is doing
  pc,               \* pc[t]: its next step
  hold,             \* hold[t]: the settings it has read or is to write
  sig,              \* sig[t]: the signature it computed
  then,             \* then[t]: where it goes when its write is done
  \* history
  stopped,          \* a tool that disables trading has returned since one enabled it
  afterStop,        \* afterStop[w]: the placement of w began while it was so
  overtaken         \* overtaken[p]: control.json changed under a loading thread

disk == <<control, stamp, edition>>
globals == <<cache, cacheSig>>
local == <<job, pc, hold, sig, then>>
history == <<stopped, afterStop, overtaken>>
vars == <<disk, globals, local, history>>

ConfigSteps == {"sign", "compare", "ensure", "load", "store", "resign", "result"}
WriteSteps == {"check", "unlink", "rename"}
Steps == {"idle", "read", "decide", "reset", "switch", "armed"} \cup ConfigSteps \cup WriteSteps
Jobs == {"idle", "start", "config", "place", "update", "enable", "stop", "lock"}

\* _current_config_signature
Sig == <<edition, IF SeesControl /\ control # Missing THEN stamp ELSE Missing>>

\* A file that is replaced gets a time that no signature holds; which does not
\* matter.
Remembered == {cacheSig[p] : p \in Procs} \cup {sig[t] : t \in Threads}
Fresh(i) == {s \in Stamps : \A r \in Remembered \ {Nothing} : r[i] # s}

Init ==
  /\ control \in Settings
  /\ stamp = CHOOSE s \in Stamps : TRUE
  /\ edition = stamp
  /\ cache = [p \in Procs |-> Nothing]
  /\ cacheSig = [p \in Procs |-> Nothing]
  /\ job = [t \in Threads |-> "idle"]
  /\ pc = [t \in Threads |-> "idle"]
  /\ hold = [t \in Threads |-> Nothing]
  /\ sig = [t \in Threads |-> Nothing]
  /\ then = [t \in Threads |-> "idle"]
  /\ stopped = FALSE
  /\ afterStop = [t \in Threads |-> FALSE]
  /\ overtaken = [p \in Procs |-> FALSE]

Starting(p) == job[<<p, "loop">>] = "start"

Goto(t, step) == pc' = [pc EXCEPT ![t] = step]

\* The thread is through with its job.
Finish(t) ==
  /\ job' = [job EXCEPT ![t] = "idle"]
  /\ pc' = [pc EXCEPT ![t] = "idle"]
  /\ hold' = [hold EXCEPT ![t] = Nothing]
  /\ sig' = [sig EXCEPT ![t] = Nothing]
  /\ then' = [then EXCEPT ![t] = "idle"]

Begin(t, j, step) ==
  /\ pc[t] = "idle" /\ ~Starting(ProcOf(t))
  /\ job' = [job EXCEPT ![t] = j]
  /\ Goto(t, step)
  /\ UNCHANGED <<hold, sig, then>>

\* write_control(c), and then on to another step.
StartWrite(t, c, next) ==
  /\ hold' = [hold EXCEPT ![t] = c]
  /\ then' = [then EXCEPT ![t] = next]
  /\ Goto(t, "check")
  /\ UNCHANGED <<job, sig>>

(***************************************************************************)
(* write_control                                                           *)
(***************************************************************************)

\* The file changes under the threads that have loaded and not yet signed.
Overtake(t) ==
  overtaken' = [p \in Procs |->
    overtaken[p] \/ \E u \in Threads \ {t} : ProcOf(u) = p /\ pc[u] \in {"store", "resign"}]

CheckExists(t) ==
  /\ pc[t] = "check"
  /\ Goto(t, IF control = Missing THEN "rename" ELSE "unlink")
  /\ UNCHANGED <<disk, globals, job, hold, sig, then, history>>

\* Another thread may have unlinked the file meanwhile: the write fails, and the
\* job with it.
Unlink(t) ==
  /\ pc[t] = "unlink"
  /\ control' = Missing
  /\ IF control # Missing THEN Goto(t, "rename") /\ UNCHANGED <<job, hold, sig, then>>
     ELSE IF job[t] = "start" THEN Goto(t, "ensure") /\ UNCHANGED <<job, hold, sig, then>>
     ELSE Finish(t)
  /\ Overtake(t)
  /\ UNCHANGED <<stamp, edition, globals, stopped, afterStop>>

\* The temporary file takes the place of whatever is there.
Rename(t) ==
  /\ pc[t] = "rename" /\ Fresh(2) # {}
  /\ control' = hold[t]
  /\ stamp' = CHOOSE s \in Fresh(2) : TRUE
  /\ IF job[t] = "start" THEN Finish(t)
     ELSE /\ Goto(t, then[t])
          /\ then' = [then EXCEPT ![t] = "idle"]
          /\ hold' = [hold EXCEPT ![t] = IF then[t] \in {"decide", "store"} THEN @ ELSE Nothing]
          /\ UNCHANGED <<job, sig>>
  /\ Overtake(t)
  /\ IF job[t] = "enable"
       THEN stopped' = FALSE /\ afterStop' = [u \in Threads |-> FALSE]
       ELSE UNCHANGED <<stopped, afterStop>>
  /\ UNCHANGED <<edition, globals>>

WriteStep(t) == CheckExists(t) \/ Unlink(t) \/ Rename(t)

(***************************************************************************)
(* get_config                                                              *)
(***************************************************************************)

\* A caller of get_config that needs nothing else of it, on either thread.
Consult(t) ==
  /\ Begin(t, "config", "sign")
  /\ UNCHANGED <<disk, globals, history>>

Sign(t) ==
  /\ pc[t] = "sign"
  /\ sig' = [sig EXCEPT ![t] = Sig]
  /\ Goto(t, "compare")
  /\ UNCHANGED <<disk, globals, job, hold, then, history>>

\* Mutant: a configuration that was loaded is kept.
UpToDateAlways(t) == cache[ProcOf(t)] # Nothing

UpToDate(t) == cache[ProcOf(t)] # Nothing /\ cacheSig[ProcOf(t)] = sig[t]

Compare(t) ==
  /\ pc[t] = "compare"
  /\ Goto(t, IF UpToDate(t) THEN "result" ELSE "ensure")
  /\ sig' = [sig EXCEPT ![t] = Nothing]
  /\ UNCHANGED <<disk, globals, job, hold, then, history>>

\* ensure_control_file, at the start of load_config and of the process.
Ensure(t) ==
  /\ pc[t] = "ensure"
  /\ IF control = Missing THEN StartWrite(t, Defaults, "load")
     ELSE IF job[t] = "start" THEN Finish(t)
     ELSE Goto(t, "load") /\ UNCHANGED <<job, hold, sig, then>>
  /\ UNCHANGED <<disk, globals, history>>

\* load_control.  The file may vanish before exists() is asked, then the defaults
\* are written, or between that and open(), then they are only assumed.
LoadControl(t, next) ==
  \/ /\ control # Missing
     /\ hold' = [hold EXCEPT ![t] = control]
     /\ Goto(t, next)
     /\ UNCHANGED <<job, sig, then>>
  \/ /\ control = Missing
     /\ hold' = [hold EXCEPT ![t] = Defaults]
     /\ Goto(t, next)
     /\ UNCHANGED <<job, sig, then>>
  \/ /\ control = Missing
     /\ StartWrite(t, Defaults, next)

Load(t) ==
  /\ pc[t] = "load"
  /\ LoadControl(t, "store")
  /\ UNCHANGED <<disk, globals, history>>

Store(t) ==
  /\ pc[t] = "store"
  /\ cache' = [cache EXCEPT ![ProcOf(t)] = hold[t]]
  /\ hold' = [hold EXCEPT ![t] = Nothing]
  /\ Goto(t, "resign")
  /\ UNCHANGED <<disk, cacheSig, job, sig, then, history>>

\* The signature is computed again, after the load.
Resign(t) ==
  /\ pc[t] = "resign"
  /\ cacheSig' = [cacheSig EXCEPT ![ProcOf(t)] = Sig]
  /\ Goto(t, "result")
  /\ UNCHANGED <<disk, cache, job, hold, sig, then, history>>

\* The global is read once more; it is None if the loop has just reset it, and
\* the worker's call fails.  place_order goes on if the settings let it.
Result(t) ==
  LET c == cache[ProcOf(t)] IN
  /\ pc[t] = "result"
  /\ IF job[t] = "lock" THEN Goto(t, "switch") /\ UNCHANGED <<job, hold, sig, then>>
     ELSE IF job[t] = "place" /\ c = TRUE
       THEN Goto(t, "armed") /\ UNCHANGED <<job, hold, sig, then>>
     ELSE Finish(t)
  /\ UNCHANGED <<disk, globals, history>>

ConfigStep(t) ==
  \/ Sign(t) \/ Compare(t) \/ Ensure(t) \/ Load(t) \/ Store(t) \/ Resign(t) \/ Result(t)

(***************************************************************************)
(* Placing an order                                                        *)
(***************************************************************************)

Place(t) ==
  /\ IsWorker(t)
  /\ Begin(t, "place", "sign")
  /\ afterStop' = [afterStop EXCEPT ![t] = stopped]
  /\ UNCHANGED <<disk, globals, stopped, overtaken>>

\* The order goes out, or is refused further on; the settings are not looked at
\* again before that, and get_config is called once more after it.
Placed(t) ==
  /\ pc[t] = "armed"
  /\ job' = [job EXCEPT ![t] = "config"]
  /\ Goto(t, "sign")
  /\ afterStop' = [afterStop EXCEPT ![t] = FALSE]
  /\ UNCHANGED <<disk, globals, hold, sig, then, stopped, overtaken>>

(***************************************************************************)
(* The tools that write                                                    *)
(***************************************************************************)

\* admin_update_trading_control, emergency_stop after its cancellations, and
\* execute_environment_change once the approval is checked.
BeginTool(t, j) ==
  /\ ~IsWorker(t)
  /\ Begin(t, j, "read")
  /\ UNCHANGED <<disk, globals, history>>

Read(t) ==
  /\ pc[t] = "read"
  /\ LoadControl(t, "decide")
  /\ UNCHANGED <<disk, globals, history>>

\* What the tool makes of the settings it read, whatever they are by now.  An
\* update may change what is abstracted away here, and leave u as it was.
Decide(t, u) ==
  /\ pc[t] = "decide"
  /\ job[t] = "update" \/ u = FALSE
  /\ hold' = [hold EXCEPT ![t] = u]
  /\ job' = IF u /\ ~hold[t] THEN [job EXCEPT ![t] = "enable"] ELSE job
  /\ then' = [then EXCEPT ![t] = IF job[t] = "lock" THEN "sign" ELSE "reset"]
  /\ Goto(t, "check")
  /\ UNCHANGED <<disk, globals, sig, history>>

\* The expectation does not match, or nothing is to change.
DecideNothing(t) ==
  /\ pc[t] = "decide"
  /\ \/ job[t] = "update" /\ UNCHANGED stopped
     \/ job[t] = "stop" /\ ~hold[t] /\ stopped' = TRUE
  /\ Finish(t)
  /\ UNCHANGED <<disk, globals, afterStop, overtaken>>

\* Mutant: the reset looks at the file and keeps the cached configuration.
ResetSignatureOnly(t) ==
  /\ pc[t] = "reset"
  /\ cacheSig' = [cacheSig EXCEPT ![ProcOf(t)] = Sig]
  /\ stopped' = (stopped \/ job[t] = "stop")
  /\ Finish(t)
  /\ UNCHANGED <<disk, cache, afterStop, overtaken>>

\* reset_config, with which the write is in force.
Reset(t) ==
  /\ pc[t] = "reset"
  /\ cache' = [cache EXCEPT ![ProcOf(t)] = Nothing]
  /\ cacheSig' = [cacheSig EXCEPT ![ProcOf(t)] = Nothing]
  /\ stopped' = (stopped \/ job[t] = "stop")
  /\ Finish(t)
  /\ UNCHANGED <<disk, afterStop, overtaken>>

\* control.log cannot be written: the tool fails with control.json replaced.
AuditFails(t) ==
  /\ pc[t] = "reset" \/ (job[t] = "lock" /\ pc[t] = "sign")
  /\ Finish(t)
  /\ UNCHANGED <<disk, globals, history>>

\* write_config_data replaces config.json in one step.
Switch(t) ==
  /\ pc[t] = "switch" /\ Fresh(1) # {}
  /\ edition' = CHOOSE s \in Fresh(1) : TRUE
  /\ stopped' = TRUE
  /\ Finish(t)
  /\ UNCHANGED <<control, stamp, globals, afterStop, overtaken>>

ToolStep(t) ==
  \/ \E j \in {"update", "stop", "lock"} : BeginTool(t, j)
  \/ Read(t)
  \/ \E u \in Settings : Decide(t, u)
  \/ DecideNothing(t) \/ AuditFails(t) \/ Reset(t) \/ Switch(t)

\* A process dies at any point and starts again, with ensure_runtime_files first.
Restart(p) ==
  /\ cache' = [cache EXCEPT ![p] = Nothing]
  /\ cacheSig' = [cacheSig EXCEPT ![p] = Nothing]
  /\ LET Mine == {t \in Threads : ProcOf(t) = p} IN
     /\ job' = [t \in Threads |->
          IF t \notin Mine THEN job[t] ELSE IF IsWorker(t) THEN "idle" ELSE "start"]
     /\ pc' = [t \in Threads |->
          IF t \notin Mine THEN pc[t] ELSE IF IsWorker(t) THEN "idle" ELSE "ensure"]
     /\ hold' = [t \in Threads |-> IF t \in Mine THEN Nothing ELSE hold[t]]
     /\ sig' = [t \in Threads |-> IF t \in Mine THEN Nothing ELSE sig[t]]
     /\ then' = [t \in Threads |-> IF t \in Mine THEN "idle" ELSE then[t]]
     /\ afterStop' = [t \in Threads |-> t \notin Mine /\ afterStop[t]]
  /\ overtaken' = [overtaken EXCEPT ![p] = FALSE]
  /\ UNCHANGED <<disk, stopped>>

ThreadStep(t) ==
  \/ WriteStep(t) \/ ConfigStep(t) \/ ToolStep(t)
  \/ Consult(t) \/ Place(t) \/ Placed(t)

Next ==
  \/ \E t \in Threads : ThreadStep(t)
  \/ \E p \in Procs : Restart(p)

Spec == Init /\ [][Next]_vars

(***************************************************************************)
(* Properties                                                              *)
(***************************************************************************)

DiskOK ==
  /\ control \in Settings \cup {Missing}
  /\ stamp \in Stamps /\ edition \in Stamps

GlobalsOK ==
  /\ cache \in [Procs -> Settings \cup {Nothing}]
  /\ cacheSig \in [Procs -> Signatures \cup {Nothing}]

LocalOK ==
  /\ job \in [Threads -> Jobs]
  /\ pc \in [Threads -> Steps]
  /\ hold \in [Threads -> Settings \cup {Nothing}]
  /\ sig \in [Threads -> Signatures \cup {Nothing}]
  /\ then \in [Threads -> Steps]

HistoryOK ==
  /\ stopped \in BOOLEAN
  /\ afterStop \in [Threads -> BOOLEAN]
  /\ overtaken \in [Procs -> BOOLEAN]

\* The types of the variables.
TypeOK == DiskOK /\ GlobalsOK /\ LocalOK /\ HistoryOK

\* A process whose signature is up to date has the settings of the file, unless
\* the file changed once between a load and the signature taken after it.
CacheIsCurrent ==
  \A p \in Procs :
    (SeesControl /\ ~overtaken[p] /\ cache[p] # Nothing /\ cacheSig[p] = Sig /\ control # Missing)
      => cache[p] = control

\* Trading that a tool has disabled stays disabled on disk until an update that
\* finds it disabled asks for it: no default, retry or stale write enables it.
OneProcess == \A p, q \in Procs : p = q
StopHolds ==
  (OneProcess /\ stopped /\ control # Missing) => control = FALSE

\* A placement that begins when trading has been disabled does not get past the
\* settings, with the same exception as the cache.
StopIsEffective ==
  \A t \in Threads :
    (OneProcess /\ SeesControl /\ pc[t] = "armed" /\ afterStop[t] /\ stopped)
      => overtaken[ProcOf(t)]
=============================================================================
