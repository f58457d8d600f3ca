------------------------------ MODULE Snowflake ------------------------------
(***************************************************************************)
(* The snowflake generator of orm/id_generator.go: one sfNode for the      *)
(* process, created by whichever caller comes first, that numbers the      *)
(* calls of one millisecond under its mutex and spins with the mutex held  *)
(* when the numbers of a millisecond run out.  The wall clock advances by  *)
(* itself and may be set back.                                             *)
(***************************************************************************)
EXTENDS Integers

CONSTANTS
  Procs,        \* goroutines that insert rows
  DataSources,  \* registered data sources
  WorkerOf,     \* Setting.SnowflakeWorkerID of each data source (0: not set)
  None,         \* no worker id yet, no goroutine
  SequenceSize, \* 4096 in the code: sequence numbers of a millisecond
  WorkerSize,   \* 1024 in the code: worker ids
  MaxClock,     \* bound: calls start and the idle clock advances up to here
  MaxStepBacks  \* bound: times the clock is set back

ASSUME ConstantsAssumption ==
  /\ DataSources # {}
  /\ WorkerOf \in [DataSources -> Nat]
  /\ None \notin Procs
  /\ None \notin Nat
  /\ SequenceSize \in Nat \ {0}
  /\ WorkerSize \in Nat \ {0}
  /\ MaxClock \in Nat \ {0}
  /\ MaxStepBacks \in Nat

VARIABLES
  clock,     \* time.Now().UnixMilli(), from the epoch on
  stepBacks, \* times the clock was set back
  workerID,  \* sfNode.workerID, None until snowflakeOnce fires
  sequence,  \* sfNode.sequence
  lastTime,  \* sfNode.lastTime
  holder,    \* the goroutine that holds sfNode.mu
  pc,        \* where each goroutine is
  ds,        \* the data source its insert is routed to
  now,       \* the time it has read
  issued     \* ids returned so far

nodeVars == <<workerID, sequence, lastTime, holder>>
procVars == <<pc, ds, now>>
vars == <<clock, stepBacks, nodeVars, procVars, issued>>

PCs == {"idle", "once", "lock", "read", "spin", "issue"}

AnySource == CHOOSE d \in DataSources : TRUE

Init ==
  /\ clock = 1
  /\ stepBacks = 0
  /\ workerID = None
  /\ sequence = 0
  /\ lastTime = 0
  /\ holder = None
  /\ pc = [p \in Procs |-> "idle"]
  /\ ds = [p \in Procs |-> AnySource]
  /\ now = [p \in Procs |-> 0]
  /\ issued = {}

Goto(p, l) == pc' = [pc EXCEPT ![p] = l]

\* Time (41 bits in the code), worker id and sequence number side by side.
Id(t, w, s) == (t * WorkerSize + w) * SequenceSize + s

NewId(p) == Id(now[p], workerID, sequence)

-----------------------------------------------------------------------------
\* fillIdIfZero or generateId return early: the entity has its id already, no
\* generator is configured, or the argument is no entity.
NoIdNeeded(p) ==
  /\ pc[p] = "idle"
  /\ UNCHANGED vars

\* fillIdIfZero: an insert of an entity without id, on some data source.
Call(p) ==
  /\ pc[p] = "idle"
  /\ clock <= MaxClock
  /\ \E d \in DataSources : ds' = [ds EXCEPT ![p] = d]
  /\ Goto(p, "once")
  /\ UNCHANGED <<clock, stepBacks, nodeVars, now, issued>>

\* The default is worker 1; the id is cut to its width.
WorkerFor(d) == (IF WorkerOf[d] > 0 THEN WorkerOf[d] ELSE 1) % WorkerSize

\* snowflakeOnce.Do(...)
Once(p) ==
  /\ pc[p] = "once"
  /\ workerID' = IF workerID = None THEN WorkerFor(ds[p]) ELSE workerID
  /\ Goto(p, "lock")
  /\ UNCHANGED <<clock, stepBacks, sequence, lastTime, holder, ds, now, issued>>

LockIgnored(p) ==
  /\ pc[p] = "lock"
  /\ holder' = p
  /\ Goto(p, "read")
  /\ UNCHANGED <<clock, stepBacks, workerID, sequence, lastTime, ds, now, issued>>

\* n.mu.Lock()
Lock(p) ==
  /\ pc[p] = "lock"
  /\ holder = None
  /\ holder' = p
  /\ Goto(p, "read")
  /\ UNCHANGED <<clock, stepBacks, workerID, sequence, lastTime, ds, now, issued>>

ReadNoMask(p) ==
  /\ pc[p] = "read"
  /\ now' = [now EXCEPT ![p] = clock]
  /\ \/ /\ clock > lastTime
        /\ sequence' = 0
     \/ /\ clock <= lastTime
        /\ sequence' = sequence + 1
  /\ Goto(p, "issue")
  /\ UNCHANGED <<clock, stepBacks, workerID, lastTime, holder, ds, issued>>

\* The clock is read.  In a new millisecond the sequence restarts; otherwise
\* the next number is taken, and if there is none left the caller spins.
Read(p) ==
  /\ pc[p] = "read"
  /\ now' = [now EXCEPT ![p] = clock]
  /\ \/ /\ clock > lastTime
        /\ sequence' = 0
        /\ Goto(p, "issue")
     \/ /\ clock <= lastTime
        /\ sequence' = (sequence + 1) % SequenceSize
        /\ Goto(p, IF sequence' = 0 THEN "spin" ELSE "issue")
  /\ UNCHANGED <<clock, stepBacks, workerID, lastTime, holder, ds, issued>>

SpinOnce(p) ==
  /\ pc[p] = "spin"
  /\ now' = [now EXCEPT ![p] = clock]
  /\ Goto(p, "issue")
  /\ UNCHANGED <<clock, stepBacks, nodeVars, ds, issued>>

SpinOnOldTime(p) ==
  /\ pc[p] = "spin"
  /\ Goto(p, IF now[p] > lastTime THEN "issue" ELSE "spin")
  /\ UNCHANGED <<clock, stepBacks, nodeVars, ds, now, issued>>

\* for now <= n.lastTime: the iteration that reads a later time.
Spin(p) ==
  /\ pc[p] = "spin"
  /\ clock > lastTime
  /\ now' = [now EXCEPT ![p] = clock]
  /\ Goto(p, "issue")
  /\ UNCHANGED <<clock, stepBacks, nodeVars, ds, issued>>

\* lastTime is stored, the mutex released, the id returned; the call's locals go.
Issue(p) ==
  /\ pc[p] = "issue"
  /\ lastTime' = now[p]
  /\ holder' = None
  /\ issued' = issued \union {NewId(p)}
  /\ Goto(p, "idle")
  /\ ds' = [ds EXCEPT ![p] = AnySource]
  /\ now' = [now EXCEPT ![p] = 0]
  /\ UNCHANGED <<clock, stepBacks, workerID, sequence>>

-----------------------------------------------------------------------------
\* Bound: the clock stops when nobody needs it to advance.
Tick ==
  /\ clock < MaxClock \/ \E p \in Procs : pc[p] = "spin" /\ clock <= lastTime
  /\ clock' = clock + 1
  /\ UNCHANGED <<stepBacks, nodeVars, procVars, issued>>

\* The wall clock is set back (NTP, an administrator).
StepBack ==
  /\ stepBacks < MaxStepBacks
  /\ \E t \in 1..(clock - 1) : clock' = t
  /\ stepBacks' = stepBacks + 1
  /\ UNCHANGED <<nodeVars, procVars, issued>>

Step(p) == Once(p) \/ Lock(p) \/ Read(p) \/ Spin(p) \/ Issue(p)

Next ==
  \/ \E p \in Procs : NoIdNeeded(p) \/ Call(p) \/ Step(p)
  \/ Tick
  \/ StepBack

\* The clock advances; a goroutine that can take the mutex again and again
\* gets it (sync.Mutex is fair to waiters), and the others are scheduled.
Fairness ==
  /\ WF_vars(Tick)
  /\ \A p \in Procs :
       /\ WF_vars(Once(p) \/ Read(p) \/ Spin(p) \/ Issue(p))
       /\ SF_vars(Lock(p))

Spec == Init /\ [][Next]_vars /\ Fairness

-----------------------------------------------------------------------------
TypeOK ==
  /\ clock \in Nat \ {0}
  /\ stepBacks \in 0..MaxStepBacks
  /\ workerID \in 0..(WorkerSize - 1) \union {None}
  /\ sequence \in 0..(SequenceSize - 1)
  /\ lastTime \in Nat
  /\ holder \in Procs \union {None}
  /\ pc \in [Procs -> PCs]
  /\ ds \in [Procs -> DataSources]
  /\ now \in [Procs -> Nat]
  /\ issued \subseteq Nat

\* While the clock is never set back, the id a caller is about to return is
\* greater than every id returned before: no two goroutines get the same id,
\* across exhausted milliseconds and whoever created the node.
IdsIncrease ==
  stepBacks = 0 => \A p \in Procs : pc[p] = "issue" => \A i \in issued : i < NewId(p)

\* Every caller gets its id: whoever spins, with the mutex held, for the next
\* millisecond is released, even if the clock was set back meanwhile.
CallReturns == \A p \in Procs : pc[p] # "idle" ~> pc[p] = "idle"

\* What the comment in snowflakeIdGenerator says: the worker id is that of the
\* data source of the statement.
WorkerIdOfDataSource ==
  \A p \in Procs : pc[p] = "issue" => workerID = WorkerFor(ds[p])
=============================================================================
