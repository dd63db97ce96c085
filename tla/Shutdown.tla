------------------------------ MODULE Shutdown ------------------------------
(***************************************************************************)
(* shutdown.Shutdowner (pkg/shutdown/shutdown.go) with a worker pool as    *)
(* one of its tasks, in the tier its comment gives pools: High closes the  *)
(* sockets, Medium the worker pools, Low loggers and metrics.  Shutdown    *)
(* may be called more than once, tasks registered meanwhile, and the pool  *)
(* closed by others: Callers are the Closers that are calls of Shutdown.   *)
(* A task other than the pool's returns some time, whatever it does.       *)
(***************************************************************************)
EXTENDS WorkerPool

CONSTANTS Callers,
          High, Medium, Low,  \* the registered functions, by priority
          PoolHook,           \* the one that is pool.Close
          Late                \* those that may be registered while Shutdown runs

Hooks == High \cup Medium \cup Low
ASSUME HookAssumption == /\ Callers \subseteq Closers
                         /\ PoolHook \in Medium \ Late
                         /\ High \cap Medium = {} /\ High \cap Low = {} /\ Medium \cap Low = {}

VARIABLES registered,  \* s.tasks
          tier,        \* per Shutdown call: where it is
          snapshot,    \* per call: highTasks, mediumTasks and lowTasks
          running,     \* per call: the tasks of the tier that have not returned
          returned     \* history: per call, the tasks that have returned

callVars == <<tier, snapshot, running, returned>>
hookVars == <<registered, callVars>>

Tiers == <<"high", "medium", "low", "done">>
InTier(t) == CASE t = "high" -> High [] t = "medium" -> Medium [] t = "low" -> Low
               [] t = "done" -> {}

ShutInit == /\ Init
            /\ registered = Hooks \ Late
            /\ tier = [c \in Callers |-> "start"]
            /\ snapshot = [c \in Callers |-> {}]
            /\ running = [c \in Callers |-> {}]
            /\ returned = [c \in Callers |-> {}]

\* RegisterFunc and Register
Register(h) == /\ ~crashed
               /\ h \in Late \ registered
               /\ registered' = registered \cup {h}
               /\ UNCHANGED <<vars, callVars>>

\* The three lists are read once, under the lock.
ShutdownStart(c) == /\ ~crashed
                    /\ tier[c] = "start"
                    /\ tier' = [tier EXCEPT ![c] = "high"]
                    /\ snapshot' = [snapshot EXCEPT ![c] = registered]
                    /\ running' = [running EXCEPT ![c] = registered \cap High]
                    /\ UNCHANGED <<vars, registered, returned>>

\* A goroutine per task; what a task returns is ignored.
TaskReturns(c, h) == /\ ~crashed
                     /\ h \in running[c]
                     /\ h = PoolHook => closePC[c] \in CloseReturns
                     /\ running' = [running EXCEPT ![c] = @ \ {h}]
                     /\ returned' = [returned EXCEPT ![c] = @ \cup {h}]
                     /\ UNCHANGED <<vars, registered, tier, snapshot>>

\* wg.Wait, and the next tier starts.
Barrier_NoWait(c) ==
    /\ ~crashed
    /\ \E i \in 1..3 : /\ tier[c] = Tiers[i]
                       /\ tier' = [tier EXCEPT ![c] = Tiers[i+1]]
                       /\ running' = [running EXCEPT ![c] = @ \cup (snapshot[c] \cap InTier(Tiers[i+1]))]
    /\ UNCHANGED <<vars, registered, snapshot, returned>>
Barrier(c) ==
    /\ ~crashed
    /\ running[c] = {}
    /\ \E i \in 1..3 : /\ tier[c] = Tiers[i]
                       /\ tier' = [tier EXCEPT ![c] = Tiers[i+1]]
                       /\ running' = [running EXCEPT ![c] = snapshot[c] \cap InTier(Tiers[i+1])]
    /\ UNCHANGED <<vars, registered, snapshot, returned>>

PoolClose(c) == PoolHook \in running[c] /\ Close(c) /\ UNCHANGED hookVars

Shutdowner(c) == \/ ShutdownStart(c) \/ Barrier(c) \/ PoolClose(c)
                 \/ \E h \in Hooks : TaskReturns(c, h)

ShutNext == \/ \E t \in Tasks : Submit(t) /\ UNCHANGED hookVars
            \/ \E w \in Workers : Worker(w) /\ UNCHANGED hookVars
            \/ \E h \in Late : Register(h)
            \/ \E c \in Callers : Shutdowner(c)
            \/ \E c \in Closers \ Callers : Close(c) /\ UNCHANGED hookVars

ShutSpec == ShutInit /\ [][ShutNext]_<<vars, hookVars>>

\* As in WorkerPool: nobody need call Shutdown, or go on with a call of it.
ShutFairness ==
    /\ \A t \in Tasks : WF_<<vars, hookVars>>(Submit(t) /\ UNCHANGED hookVars)
    /\ \A w \in Workers : WF_<<vars, hookVars>>(Worker(w) /\ UNCHANGED hookVars)
FairShutSpec == ShutSpec /\ ShutFairness

-----------------------------------------------------------------------------
(* Properties *)

\* No tier begins before the last task of the tier above has returned, in the same
\* call, and when Shutdown returns every task that was registered when it was
\* called has run; one registered later has not.
TiersInOrder ==
    \A c \in Callers : \A i \in 1..4 : tier[c] = Tiers[i] =>
        /\ \A j \in 1..i-1 : snapshot[c] \cap InTier(Tiers[j]) \subseteq returned[c]
        /\ running[c] \cup returned[c] \subseteq snapshot[c]

\* When a logger is closed, no worker of the pool can still write to it, and no
\* accepted task is left, whatever Submits, a Shutdown and another Close do
\* meanwhile.  Not so if the pool's Close gave up at its deadline, or was refused
\* because another Close was under way, which Shutdown then does not wait for.
LoggersLast ==
    \A c \in Callers : running[c] \cap Low # {} =>
        \/ closePC[c] \in {"expired", "timedOut", "errPoolClosed"}
        \/ gone = Workers /\ Accepted \subseteq Executed

\* "Shuts the layers one after the other with hard barriers" (shutdown.go:50).
HardBarriers == TiersInOrder /\ LoggersLast
=============================================================================
