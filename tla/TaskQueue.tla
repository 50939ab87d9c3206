------------------------------ MODULE TaskQueue ------------------------------
(***************************************************************************)
(* The background task queue: the class TaskQueueBroker of                 *)
(* backend/api/tasks.py, drained by the 10-second job of run.py.           *)
(*                                                                         *)
(* Nothing is awaited while the broker's lock is held (put and get of an   *)
(* unbounded queue that is not empty do not suspend), so every method is   *)
(* one step, and so is the end of a serial task with the choice of the     *)
(* next one.  The only waits are those inside the tasks.                   *)
(*                                                                         *)
(* A kind stands for a call site's task: its function with its arguments.  *)
(***************************************************************************)
EXTENDS Naturals, Sequences, FiniteSets

CONSTANTS Kinds,          \* the tasks call sites ask for
          Concurrent,     \* those with execution_mode "concurrent"
          NameOf,         \* NameOf[k]: task["name"]
          IdentityOf,     \* IdentityOf[k]: task_key, or the name without one
          PriorityOf,     \* PriorityOf[k]: smaller runs first
          NoKind          \* None

Serial == Kinds \ Concurrent

ASSUME QueueAssumption ==
    /\ Concurrent \subseteq Kinds
    /\ PriorityOf \in [Kinds -> Nat]
    /\ NoKind \notin Kinds

VARIABLES status,         \* self.__status
          queue,          \* self.__task_queue, in the order it is drained
          names,          \* self.__task_names
          concurrent,     \* the kinds in self.__concurrent_tasks
          runningTask,    \* self.__running_task
          owed            \* history: asked for, and nothing of its name begun since

queueVars == <<status, queue, names, concurrent, runningTask, owed>>

Queued == {queue[i] : i \in DOMAIN queue}

QueueTypeOK ==
    /\ status \in {"running", "paused"}
    /\ queue \in Seq(Serial)
    /\ names \subseteq {NameOf[k] : k \in Serial}
    /\ concurrent \subseteq Concurrent
    /\ runningTask \in Serial \union {NoKind}
    /\ owed \subseteq Serial

QueueInit ==
    /\ status = "running"
    /\ queue = <<>>
    /\ names = {}
    /\ concurrent = {}
    /\ runningTask = NoKind
    /\ owed = {}

-----------------------------------------------------------------------------
(* add_task                                                                 *)

\* Altered: the least urgent first.
Place_Reversed(k) ==
    1 + Cardinality({i \in DOMAIN queue : PriorityOf[queue[i]] >= PriorityOf[k]})

\* Entries leave by priority and, within a priority, in order of arrival.
Place(k) ==
    1 + Cardinality({i \in DOMAIN queue : PriorityOf[queue[i]] <= PriorityOf[k]})

QueueWith(k) ==
    [i \in 1..Len(queue) + 1 |->
        IF i < Place(k) THEN queue[i]
        ELSE IF i = Place(k) THEN k
        ELSE queue[i - 1]]

\* A concurrent task starts at once, paused or not, unless its identity runs.
AddConcurrent(k) ==
    /\ k \in Concurrent
    /\ IF \E j \in concurrent : IdentityOf[j] = IdentityOf[k]
       THEN UNCHANGED concurrent
       ELSE concurrent' = concurrent \union {k}
    /\ UNCHANGED <<status, queue, names, runningTask, owed>>

\* Altered: a task is refused while it is running, too.
AddSerial_NotWhileRunning(k) ==
    /\ k \in Serial
    /\ owed' = owed \union {k}
    /\ IF NameOf[k] \in names \/ k = runningTask
       THEN UNCHANGED <<queue, names>>
       ELSE /\ queue' = QueueWith(k)
            /\ names' = names \union {NameOf[k]}
    /\ UNCHANGED <<status, concurrent, runningTask>>

\* A serial task is queued unless one of its name is queued already.
AddSerial(k) ==
    /\ k \in Serial
    /\ owed' = owed \union {k}
    /\ IF NameOf[k] \in names
       THEN UNCHANGED <<queue, names>>
       ELSE /\ queue' = QueueWith(k)
            /\ names' = names \union {NameOf[k]}
    /\ UNCHANGED <<status, concurrent, runningTask>>

AddTask(k) == AddConcurrent(k) \/ AddSerial(k)

\* _run_concurrent_task returns or raises: its identity is free again.
ConcurrentEnds(k) ==
    /\ k \in concurrent
    /\ concurrent' = concurrent \ {k}
    /\ UNCHANGED <<status, queue, names, runningTask, owed>>

-----------------------------------------------------------------------------
(* execute_tasks                                                            *)

Leave == runningTask' = NoKind /\ UNCHANGED <<queue, names, owed>>

\* The next task begins, and its name may be queued again from now on.
Begin ==
    /\ runningTask' = Head(queue)
    /\ queue' = Tail(queue)
    /\ names' = names \ {NameOf[Head(queue)]}
    /\ owed' = {k \in owed : NameOf[k] # NameOf[Head(queue)]}

\* One turn of the loop.
TakeNext ==
    /\ \/ (status = "paused" \/ queue = <<>>) /\ Leave
       \/ (status # "paused" /\ queue # <<>>) /\ Begin
    /\ UNCHANGED <<status, concurrent>>

\* The scheduler starts a drain; it never runs two instances of a job.
Tick ==
    /\ runningTask = NoKind
    /\ status # "paused"
    /\ TakeNext

\* The running function returns or raises, and the loop goes on.
SerialEnds ==
    /\ runningTask # NoKind
    /\ TakeNext

ToggleStatus ==
    /\ status' = IF status = "paused" THEN "running" ELSE "paused"
    /\ UNCHANGED <<queue, names, concurrent, runningTask, owed>>

QueueNext ==
    \/ \E k \in Kinds : AddTask(k) \/ ConcurrentEnds(k)
    \/ Tick
    \/ SerialEnds
    \/ ToggleStatus

\* The job ticks for ever, and every task ends.
QueueFairness ==
    /\ WF_queueVars(Tick)
    /\ WF_queueVars(SerialEnds)
    /\ \A k \in Concurrent : WF_queueVars(ConcurrentEnds(k))

QueueSafety == QueueInit /\ [][QueueNext]_queueVars

QueueSpec == QueueSafety /\ QueueFairness

-----------------------------------------------------------------------------
\* The set of names add_task looks in says exactly what is queued, and nothing
\* is queued twice under one name.
NamesMatchQueue ==
    /\ names = {NameOf[k] : k \in Queued}
    /\ \A i, j \in DOMAIN queue : NameOf[queue[i]] = NameOf[queue[j]] => i = j

\* A serial task asked for since one of its name last began has one of its name
\* in the queue, whatever was asked for, begun, paused and ended in between: what
\* was changed while it ran is looked at by another run.  (A name is all add_task
\* looks at: two guides named alike are one to it.)
OwedIsQueued == \A k \in owed : \E j \in Queued : NameOf[j] = NameOf[k]

\* While the queue is paused no serial task begins, not even from a drain that
\* was under way.
PauseHolds ==
    [][status = "paused" => runningTask' \in {runningTask, NoKind}]_queueVars

\* Once the queue is left running and nothing as urgent is asked for any more,
\* a queued task begins, whatever else is asked for.
UrgentIsServed ==
    \A k \in Serial :
        /\ <>[](status = "running")
        /\ <>[][\A j \in Serial :
                   AddSerial(j) => PriorityOf[j] > PriorityOf[k]]_queueVars
        => (k \in Queued ~> runningTask = k)
=============================================================================
