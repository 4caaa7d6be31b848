----------------------------- MODULE Dispatcher -----------------------------
(***************************************************************************)
(* The scheduler's dispatcher (event_loop.rs), on top of the event loop: a *)
(* thread that takes the poller's wakeups and calls the poll function of   *)
(* the task that was parked with each of them.                             *)
(*                                                                         *)
(* A dispatcher is a client of the event loop that only calls take_wakeups.*)
(* task[x] says where a thread is outside the event loop's functions:      *)
(*   idle              a client that starts or stops no dispatcher         *)
(*   flag, join        shutdown_dispatcher, after it has emptied the slot  *)
(*   unborn, exited    a dispatcher that does not run                      *)
(*   check             dispatcher_thread_main, about to load `shutdown`    *)
(*   take, taking      about to call take_wakeups, inside it               *)
(*   dispatch          in the loop over the wakeups taken                  *)
(***************************************************************************)
EXTENDS EventLoop

CONSTANTS Dispatchers, NoDispatcher

ASSUME DispatcherAssumption ==
  Dispatchers \subseteq Clients /\ NoDispatcher \notin Dispatchers

VARIABLES
  running,   \* SCHEDULER_DISPATCHER
  stopping,  \* per dispatcher: SchedulerDispatcher.shutdown
  taken,     \* per dispatcher: wakeups taken whose task it has not polled
  task,      \* per client: see above
  stopped,   \* per client: the dispatcher it shuts down
  unpolled   \* history: tokens ready since their task was last polled

dispatcherVars == <<running, stopping, taken, task, stopped, unpolled>>

Users == Clients \ Dispatchers

DispatcherInit ==
  /\ Init
  /\ running = NoDispatcher
  /\ stopping = [d \in Dispatchers |-> FALSE]
  /\ taken = [d \in Dispatchers |-> <<>>]
  /\ task = [x \in Clients |-> IF x \in Dispatchers THEN "unborn" ELSE "idle"]
  /\ stopped = [c \in Users |-> NoDispatcher]
  /\ unpolled = {}

At(x, label) == task' = [task EXCEPT ![x] = label]

----------------------------------------------------------------------------
(* start_dispatcher, which starts a poller when none runs, and             *)
(* shutdown_dispatcher, which leaves the poller alone.                     *)

StartDispatcher(c, d) ==
  /\ pc[c] = "ready" /\ task[c] = "idle"
  /\ running = NoDispatcher
  /\ task[d] = "unborn"
  /\ IF slot # NoPoller THEN UNCHANGED vars ELSE \E p \in Pollers : StartPoller(c, p)
  /\ running' = d
  /\ At(d, "check")
  /\ UNCHANGED <<stopping, taken, stopped, unpolled>>

BeginStop(c) ==
  /\ pc[c] = "ready" /\ task[c] = "idle"
  /\ running # NoDispatcher
  /\ stopped' = [stopped EXCEPT ![c] = running]
  /\ running' = NoDispatcher
  /\ At(c, "flag")
  /\ UNCHANGED <<vars, stopping, taken, unpolled>>

SetStop(c) ==
  /\ task[c] = "flag"
  /\ stopping' = [stopping EXCEPT ![stopped[c]] = TRUE]
  /\ At(c, "join")
  /\ UNCHANGED <<vars, running, taken, stopped, unpolled>>

JoinDispatcher(c) ==
  /\ task[c] = "join"
  /\ task[stopped[c]] = "exited"
  /\ At(c, "idle")
  /\ UNCHANGED <<vars, running, stopping, taken, stopped, unpolled>>

----------------------------------------------------------------------------
(* dispatcher_thread_main. *)

CheckStop(d) ==
  /\ task[d] = "check"
  /\ At(d, IF stopping[d] THEN "exited" ELSE "take")
  /\ UNCHANGED <<vars, running, stopping, taken, stopped, unpolled>>

\* Mutant of Take: the dispatcher waits without limit.
TakeForever(d) ==
  /\ task[d] = "take"
  /\ IF slot = NoPoller THEN At(d, "check") /\ UNCHANGED vars
     ELSE At(d, "taking") /\ BeginTake(d, "forever")
  /\ UNCHANGED <<running, stopping, taken, stopped, unpolled>>

\* Wakeups are waited for with a timeout; without a poller there are none.
Take(d) ==
  /\ task[d] = "take"
  /\ IF slot = NoPoller THEN At(d, "check") /\ UNCHANGED vars
     ELSE At(d, "taking") /\ BeginTake(d, "timed")
  /\ UNCHANGED <<running, stopping, taken, stopped, unpolled>>

Wait(d) ==
  /\ task[d] = "taking"
  /\ WaitForWakeup(d) \/ TimeOut(d)
  /\ UNCHANGED dispatcherVars

\* take_wakeups returns what it drains into the dispatcher's buffer.
Taken(d) ==
  /\ task[d] = "taking"
  /\ Drain(d)
  /\ taken' = [taken EXCEPT ![d] =
                 SubSeq(queue[target[d]], 1, Len(queue[target[d]]) - Len(queue'[target[d]]))]
  /\ At(d, "dispatch")
  /\ UNCHANGED <<running, stopping, stopped, unpolled>>

\* Mutant of Dispatch: a stop is heeded between two wakeups of one batch.
DispatchUntilStopped(d) ==
  /\ task[d] = "dispatch"
  /\ IF taken[d] = <<>> \/ stopping[d] THEN At(d, "check") /\ UNCHANGED <<taken, unpolled>>
     ELSE /\ taken' = [taken EXCEPT ![d] = Tail(@)]
          /\ unpolled' = unpolled \ {Head(taken[d])}
          /\ UNCHANGED task
  /\ UNCHANGED <<vars, running, stopping, stopped>>

\* The poll function of the next wakeup's task is called, or the batch ends.
Dispatch(d) ==
  /\ task[d] = "dispatch"
  /\ IF taken[d] = <<>> THEN At(d, "check") /\ UNCHANGED <<taken, unpolled>>
     ELSE /\ taken' = [taken EXCEPT ![d] = Tail(@)]
          /\ unpolled' = unpolled \ {Head(taken[d])}
          /\ UNCHANGED task
  /\ UNCHANGED <<vars, running, stopping, stopped>>

----------------------------------------------------------------------------
DispatcherStep(d) ==
  CheckStop(d) \/ Take(d) \/ Wait(d) \/ Taken(d) \/ Dispatch(d)

UserStep(c) ==
  \/ ClientStep(c) /\ UNCHANGED dispatcherVars
  \/ SetStop(c)
  \/ JoinDispatcher(c)

\* The users leave polling to the poller and the wakeups to the dispatcher.
UserCall(c) ==
  \/ /\ task[c] = "idle"
     /\ \/ \E accepted \in BOOLEAN : Register(c, accepted)
        \/ \E p \in Pollers : StartPoller(c, p)
        \/ BeginShutdown(c)
     /\ UNCHANGED dispatcherVars
  \/ /\ task[c] = "idle"
     /\ \E k \in registered : Deregister(c, k) /\ unpolled' = unpolled \ {k}
     /\ UNCHANGED <<running, stopping, taken, task, stopped>>
  \/ \E d \in Dispatchers : StartDispatcher(c, d)
  \/ BeginStop(c)

DispatcherNext ==
  \/ \E d \in Dispatchers : DispatcherStep(d)
  \/ \E c \in Users : UserStep(c) \/ UserCall(c)
  \/ /\ \/ \E p \in Pollers : PollerStep(p)
        \/ \E x \in Clients : SpuriousWake(x)
        \/ \E x \in Threads : PollNothing(x)
     /\ UNCHANGED dispatcherVars
  \/ /\ \E k \in Token : BecomeReady(k) /\ unpolled' = unpolled \cup {k}
     /\ UNCHANGED <<running, stopping, taken, task, stopped>>

\* As in EventLoop, with the dispatchers among the threads that are scheduled.
DispatcherSpec ==
  /\ DispatcherInit /\ [][DispatcherNext]_<<vars, dispatcherVars>>
  /\ \A p \in Pollers :
       /\ WF_<<vars, dispatcherVars>>(PollerStep(p) /\ UNCHANGED dispatcherVars)
       /\ SF_<<vars, dispatcherVars>>(Harvest(p) /\ UNCHANGED dispatcherVars)
  /\ \A c \in Users : WF_<<vars, dispatcherVars>>(UserStep(c))
  /\ \A d \in Dispatchers : WF_<<vars, dispatcherVars>>(DispatcherStep(d))

----------------------------------------------------------------------------
(* Properties *)

\* shutdown_dispatcher ends although nobody wakes the dispatcher, also when
\* the poller it takes from is shut down, or restarted, at the same time.
DispatcherStops == \A c \in Users : task[c] = "flag" ~> task[c] = "idle"

\* When the fd of a parked task becomes ready, its task is polled after that,
\* unless the fd is deregistered or the poller or the dispatcher is shut down
\* before the dispatcher has the wakeup; one that has it polls the task before
\* it heeds a shutdown.
ParkedTasksPolled ==
  \A k \in Token :
    (k \in unpolled /\ slot # NoPoller /\ running # NoDispatcher) ~>
      \/ k \notin unpolled
      \/ /\ slot = NoPoller \/ running = NoDispatcher
         /\ \A d \in Dispatchers : k \notin ToSet(taken[d])
=============================================================================
