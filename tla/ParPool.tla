------------------------------ MODULE ParPool ------------------------------
(***************************************************************************)
(* The long-lived worker pool behind `par {}` blocks: karac_par_run,       *)
(* worker_loop, execute_task and the FrameGuard registry of                *)
(* src/runtime/src/lib.rs.                                                 *)
(*                                                                         *)
(* A thread is a pool worker or a root (a thread that enters Kara code     *)
(* from outside the pool: main, the scheduler's dispatcher). Each thread   *)
(* has a stack of activations: a "call" activation is a karac_par_run in   *)
(* progress, a "task" activation is an execute_task in progress. A waiting *)
(* caller helps: it pops any task of the queue and runs it on top of its   *)
(* own stack, and that task may call karac_par_run again.                  *)
(*                                                                         *)
(* One action is one critical section or one access to shared memory.      *)
(* pc[t] says where thread t is:                                           *)
(*   off         the pool, hence this worker, does not exist yet           *)
(*   idle        worker_loop, about to lock the queue                      *)
(*   cv          worker_loop, asleep on pool.cv                            *)
(*   user        running Kara code: a root, or the branch of a task        *)
(*   enqueue, notifyPool, check, help, block, asleep                       *)
(*               inside karac_par_run, in program order                    *)
(*   start, finish, notifyCall                                             *)
(*               inside execute_task, before and after the branch          *)
(***************************************************************************)
EXTENDS Naturals, Sequences, FiniteSets

CONSTANTS
  Workers,      \* the pool's threads
  Roots,        \* threads outside the pool that run Kara code
  MaxCalls,     \* bound: karac_par_run is called at most MaxCalls times
  MaxWidth,     \* bound: a par block has at most MaxWidth branches
  TrackFrames,  \* runtime_debug_metadata_enabled()
  CanPanic      \* can a branch unwind? (not in the release profile: a panic aborts)

Threads == Workers \cup Roots

ASSUME ParPoolAssumption ==
  /\ Workers \cap Roots = {}
  /\ MaxCalls \in Nat
  /\ MaxWidth \in Nat
  /\ TrackFrames \in BOOLEAN
  /\ CanPanic \in BOOLEAN

CallId == 1 .. MaxCalls
Branch == 1 .. MaxWidth

\* A task is its call and its branch index; its KaracFrame has its identity.
Task == CallId \X Branch
NoFrame == <<0, 0>>
FrameRef == Task \cup {NoFrame}

\* What a thread's stack holds: <<c, i>> is task i of call c being executed,
\* <<c, 0>> is call c being waited for.
Activation == CallId \X (0 .. MaxWidth)
CallActivation(c) == <<c, 0>>
IsCall(a) == a[2] = 0

VARIABLES
  queue,      \* Pool.queue: the VecDeque of tasks not yet popped
  ncalls,     \* calls made so far: call c is the c-th
  count,      \* per call: the number of its branches
  parent,     \* per call: ParCall.parent_addr
  remaining,  \* per call: ParCall.remaining
  cancel,     \* per call: ParCall.cancel
  status,     \* per task: new, queued, popped, done (decremented)
  stack,      \* per thread: its activations, the innermost last
  pc,         \* per thread: see above
  cur,        \* per thread: CURRENT_FRAME
  prev,       \* per task: FrameGuard.prev_current while its guard lives
  active      \* ACTIVE_FRAMES

vars == <<queue, ncalls, count, parent, remaining, cancel, status, stack, pc,
          cur, prev, active>>

Top(t) == stack[t][Len(stack[t])]
Pop(s) == SubSeq(s, 1, Len(s) - 1)

\* Where a thread whose top activation ends resumes.
ResumeAt(s) == IF Len(s) = 1 THEN "idle" ELSE "check"

Init ==
  /\ queue = <<>>
  /\ ncalls = 0
  /\ count = [c \in CallId |-> 0]
  /\ parent = [c \in CallId |-> NoFrame]
  /\ remaining = [c \in CallId |-> 0]
  /\ cancel = [c \in CallId |-> FALSE]
  /\ status = [x \in Task |-> "new"]
  /\ stack = [t \in Threads |-> <<>>]
  /\ pc = [t \in Threads |-> IF t \in Workers THEN "off" ELSE "user"]
  /\ cur = [t \in Threads |-> NoFrame]
  /\ prev = [x \in Task |-> NoFrame]
  /\ active = {}

----------------------------------------------------------------------------
(* karac_par_run.  count = 0 returns before anything happens. *)

\* Mutant of ParRun: `remaining` starts one short.
ParRunOneShort(t, n) ==
  /\ pc[t] = "user"
  /\ ncalls < MaxCalls
  /\ ncalls' = ncalls + 1
  /\ count' = [count EXCEPT ![ncalls + 1] = n]
  /\ parent' = [parent EXCEPT ![ncalls + 1] = IF TrackFrames THEN cur[t] ELSE NoFrame]
  /\ remaining' = [remaining EXCEPT ![ncalls + 1] = n - 1]
  /\ stack' = [stack EXCEPT ![t] = Append(@, CallActivation(ncalls + 1))]
  /\ pc' = [u \in Threads |-> IF u = t THEN "enqueue"
                              ELSE IF pc[u] = "off" THEN "idle" ELSE pc[u]]
  /\ UNCHANGED <<queue, cancel, status, cur, prev, active>>

\* Creates the ParCall and, on the first call, the pool with its threads.
ParRun(t, n) ==
  /\ pc[t] = "user"
  /\ ncalls < MaxCalls
  /\ ncalls' = ncalls + 1
  /\ count' = [count EXCEPT ![ncalls + 1] = n]
  /\ parent' = [parent EXCEPT ![ncalls + 1] = IF TrackFrames THEN cur[t] ELSE NoFrame]
  /\ remaining' = [remaining EXCEPT ![ncalls + 1] = n]
  /\ stack' = [stack EXCEPT ![t] = Append(@, CallActivation(ncalls + 1))]
  /\ pc' = [u \in Threads |-> IF u = t THEN "enqueue"
                              ELSE IF pc[u] = "off" THEN "idle" ELSE pc[u]]
  /\ UNCHANGED <<queue, cancel, status, cur, prev, active>>

\* Mutant of Enqueue: the notification of pool.cv is forgotten.
EnqueueSilently(t) ==
  /\ pc[t] = "enqueue"
  /\ LET c == Top(t)[1] IN
     /\ queue' = queue \o [i \in 1 .. count[c] |-> <<c, i>>]
     /\ status' = [x \in Task |-> IF x[1] = c /\ x[2] <= count[c]
                                  THEN "queued" ELSE status[x]]
  /\ pc' = [pc EXCEPT ![t] = "check"]
  /\ UNCHANGED <<ncalls, count, parent, remaining, cancel, stack, cur, prev, active>>

\* Pushes every branch of the call under one lock of the queue.
Enqueue(t) ==
  /\ pc[t] = "enqueue"
  /\ LET c == Top(t)[1] IN
     /\ queue' = queue \o [i \in 1 .. count[c] |-> <<c, i>>]
     /\ status' = [x \in Task |-> IF x[1] = c /\ x[2] <= count[c]
                                  THEN "queued" ELSE status[x]]
  /\ pc' = [pc EXCEPT ![t] = "notifyPool"]
  /\ UNCHANGED <<ncalls, count, parent, remaining, cancel, stack, cur, prev, active>>

\* p.cv.notify_all(), after the queue is unlocked.
NotifyPool(t) ==
  /\ pc[t] = "notifyPool"
  /\ pc' = [u \in Threads |-> IF u = t THEN "check"
                              ELSE IF pc[u] = "cv" THEN "idle" ELSE pc[u]]
  /\ UNCHANGED <<queue, ncalls, count, parent, remaining, cancel, status, stack,
                 cur, prev, active>>

\* Mutants of Return: it returns while a task is still running; it trusts the
\* wakeup and does not read `remaining` again.
ReturnOneEarly(t) ==
  /\ pc[t] \in {"check", "block"}
  /\ remaining[Top(t)[1]] <= 1
  /\ stack' = [stack EXCEPT ![t] = Pop(@)]
  /\ pc' = [pc EXCEPT ![t] = "user"]
  /\ UNCHANGED <<queue, ncalls, count, parent, remaining, cancel, status, cur,
                 prev, active>>

ReturnWithoutRecheck(t) ==
  /\ \/ pc[t] = "check" /\ remaining[Top(t)[1]] = 0
     \/ pc[t] = "block"
  /\ stack' = [stack EXCEPT ![t] = Pop(@)]
  /\ pc' = [pc EXCEPT ![t] = "user"]
  /\ UNCHANGED <<queue, ncalls, count, parent, remaining, cancel, status, cur,
                 prev, active>>

\* remaining is zero at either of the two checks of the wait loop.
Return(t) ==
  /\ pc[t] \in {"check", "block"}
  /\ remaining[Top(t)[1]] = 0
  /\ stack' = [stack EXCEPT ![t] = Pop(@)]
  /\ pc' = [pc EXCEPT ![t] = "user"]
  /\ UNCHANGED <<queue, ncalls, count, parent, remaining, cancel, status, cur,
                 prev, active>>

\* Mutant of NotDone: a waiting caller does not help.
NotDoneNoHelp(t) ==
  /\ pc[t] = "check"
  /\ remaining[Top(t)[1]] # 0
  /\ pc' = [pc EXCEPT ![t] = "block"]
  /\ UNCHANGED <<queue, ncalls, count, parent, remaining, cancel, status, stack,
                 cur, prev, active>>

NotDone(t) ==
  /\ pc[t] = "check"
  /\ remaining[Top(t)[1]] # 0
  /\ pc' = [pc EXCEPT ![t] = "help"]
  /\ UNCHANGED <<queue, ncalls, count, parent, remaining, cancel, status, stack,
                 cur, prev, active>>

NothingToHelp(t) ==
  /\ pc[t] = "help"
  /\ queue = <<>>
  /\ pc' = [pc EXCEPT ![t] = "block"]
  /\ UNCHANGED <<queue, ncalls, count, parent, remaining, cancel, status, stack,
                 cur, prev, active>>

\* notify.wait releases `remaining` as it falls asleep.
WaitForCall(t) ==
  /\ pc[t] = "block"
  /\ remaining[Top(t)[1]] # 0
  /\ pc' = [pc EXCEPT ![t] = "asleep"]
  /\ UNCHANGED <<queue, ncalls, count, parent, remaining, cancel, status, stack,
                 cur, prev, active>>

----------------------------------------------------------------------------
(* worker_loop, and the pop it shares with the helping caller. *)

\* Mutant of TakeTask: the task is read and left in the queue.
PeekTask(t) ==
  /\ pc[t] \in {"idle", "help"}
  /\ queue # <<>>
  /\ status' = [status EXCEPT ![Head(queue)] = "popped"]
  /\ stack' = [stack EXCEPT ![t] = Append(@, Head(queue))]
  /\ pc' = [pc EXCEPT ![t] = "start"]
  /\ UNCHANGED <<queue, ncalls, count, parent, remaining, cancel, cur, prev, active>>

TakeTask(t) ==
  /\ pc[t] \in {"idle", "help"}
  /\ queue # <<>>
  /\ queue' = Tail(queue)
  /\ status' = [status EXCEPT ![Head(queue)] = "popped"]
  /\ stack' = [stack EXCEPT ![t] = Append(@, Head(queue))]
  /\ pc' = [pc EXCEPT ![t] = "start"]
  /\ UNCHANGED <<ncalls, count, parent, remaining, cancel, cur, prev, active>>

WaitForTask(t) ==
  /\ pc[t] = "idle"
  /\ queue = <<>>
  /\ pc' = [pc EXCEPT ![t] = "cv"]
  /\ UNCHANGED <<queue, ncalls, count, parent, remaining, cancel, status, stack,
                 cur, prev, active>>

\* A Condvar may wake its waiter without a notification.
SpuriousWake(t) ==
  /\ pc[t] \in {"cv", "asleep"}
  /\ pc' = [pc EXCEPT ![t] = IF @ = "cv" THEN "idle" ELSE "check"]
  /\ UNCHANGED <<queue, ncalls, count, parent, remaining, cancel, status, stack,
                 cur, prev, active>>

----------------------------------------------------------------------------
(* execute_task. *)

\* The Relaxed load of cancel reads TRUE: the branch is skipped.
SkipTask(t) ==
  /\ pc[t] = "start"
  /\ cancel[Top(t)[1]]
  /\ pc' = [pc EXCEPT ![t] = "finish"]
  /\ UNCHANGED <<queue, ncalls, count, parent, remaining, cancel, status, stack,
                 cur, prev, active>>

\* The load reads FALSE, which a Relaxed load may do after the store of TRUE;
\* FrameGuard::new replaces CURRENT_FRAME and registers the frame.
BeginTask(t) ==
  /\ pc[t] = "start"
  /\ pc' = [pc EXCEPT ![t] = "user"]
  /\ IF TrackFrames
     THEN /\ prev' = [prev EXCEPT ![Top(t)] = cur[t]]
          /\ cur' = [cur EXCEPT ![t] = Top(t)]
          /\ active' = active \cup {Top(t)}
     ELSE UNCHANGED <<cur, prev, active>>
  /\ UNCHANGED <<queue, ncalls, count, parent, remaining, cancel, status, stack>>

\* Mutants of EndTask: CURRENT_FRAME is cleared; it is left as it is.
EndTaskClearsFrame(t, panicked) ==
  /\ pc[t] = "user"
  /\ stack[t] # <<>>
  /\ panicked => CanPanic
  /\ active' = active \ {Top(t)}
  /\ cur' = [cur EXCEPT ![t] = NoFrame]
  /\ prev' = [prev EXCEPT ![Top(t)] = NoFrame]
  /\ cancel' = [cancel EXCEPT ![Top(t)[1]] = @ \/ panicked]
  /\ pc' = [pc EXCEPT ![t] = "finish"]
  /\ UNCHANGED <<queue, ncalls, count, parent, remaining, status, stack>>

EndTaskKeepsFrame(t, panicked) ==
  /\ pc[t] = "user"
  /\ stack[t] # <<>>
  /\ panicked => CanPanic
  /\ active' = active \ {Top(t)}
  /\ cancel' = [cancel EXCEPT ![Top(t)[1]] = @ \/ panicked]
  /\ pc' = [pc EXCEPT ![t] = "finish"]
  /\ UNCHANGED <<queue, ncalls, count, parent, remaining, status, stack, cur, prev>>

\* The branch returns or unwinds: FrameGuard::drop deregisters the frame and
\* restores CURRENT_FRAME, and an unwind then cancels the call.
EndTask(t, panicked) ==
  /\ pc[t] = "user"
  /\ stack[t] # <<>>
  /\ panicked => CanPanic
  /\ IF TrackFrames
     THEN /\ active' = active \ {Top(t)}
          /\ cur' = [cur EXCEPT ![t] = prev[Top(t)]]
          /\ prev' = [prev EXCEPT ![Top(t)] = NoFrame]
     ELSE UNCHANGED <<cur, prev, active>>
  /\ cancel' = [cancel EXCEPT ![Top(t)[1]] = @ \/ panicked]
  /\ pc' = [pc EXCEPT ![t] = "finish"]
  /\ UNCHANGED <<queue, ncalls, count, parent, remaining, status, stack>>

\* Mutant of FinishTask: the last task does not notify its caller.
FinishTaskSilently(t) ==
  /\ pc[t] = "finish"
  /\ remaining' = [remaining EXCEPT ![Top(t)[1]] = @ - 1]
  /\ status' = [status EXCEPT ![Top(t)] = "done"]
  /\ pc' = [pc EXCEPT ![t] = ResumeAt(stack[t])]
  /\ stack' = [stack EXCEPT ![t] = Pop(@)]
  /\ UNCHANGED <<queue, ncalls, count, parent, cancel, cur, prev, active>>

\* Decrements remaining under its lock; the last task goes on to notify.
FinishTask(t) ==
  /\ pc[t] = "finish"
  /\ LET c == Top(t)[1] IN
     /\ remaining' = [remaining EXCEPT ![c] = @ - 1]
     /\ status' = [status EXCEPT ![Top(t)] = "done"]
     /\ IF remaining[c] = 1
        THEN /\ pc' = [pc EXCEPT ![t] = "notifyCall"]
             /\ UNCHANGED stack
        ELSE /\ pc' = [pc EXCEPT ![t] = ResumeAt(stack[t])]
             /\ stack' = [stack EXCEPT ![t] = Pop(@)]
  /\ UNCHANGED <<queue, ncalls, count, parent, cancel, cur, prev, active>>

\* call.notify.notify_all(), after `remaining` is unlocked.
NotifyCall(t) ==
  /\ pc[t] = "notifyCall"
  /\ pc' = [u \in Threads |->
              IF u = t THEN ResumeAt(stack[t])
              ELSE IF pc[u] = "asleep" /\ Top(u)[1] = Top(t)[1] THEN "check"
              ELSE pc[u]]
  /\ stack' = [stack EXCEPT ![t] = Pop(@)]
  /\ UNCHANGED <<queue, ncalls, count, parent, remaining, cancel, status, cur,
                 prev, active>>

----------------------------------------------------------------------------
\* The steps a thread takes by itself once it has been scheduled.
Step(t) ==
  \/ \E n \in Branch : ParRun(t, n)
  \/ Enqueue(t)
  \/ NotifyPool(t)
  \/ Return(t)
  \/ NotDone(t)
  \/ NothingToHelp(t)
  \/ WaitForCall(t)
  \/ TakeTask(t)
  \/ WaitForTask(t)
  \/ SkipTask(t)
  \/ BeginTask(t)
  \/ \E panicked \in BOOLEAN : EndTask(t, panicked)
  \/ FinishTask(t)
  \/ NotifyCall(t)

Next == \E t \in Threads : Step(t) \/ SpuriousWake(t)

Spec == Init /\ [][Next]_vars

\* The operating system schedules every thread that is not blocked, and a
\* branch ends: nothing is assumed of which step a thread takes.
FairSpec == Spec /\ \A t \in Threads : WF_vars(Step(t))

----------------------------------------------------------------------------
(* Properties *)

Calls == 1 .. ncalls
OnStack(t, a) == \E k \in 1 .. Len(stack[t]) : stack[t][k] = a
Open(c) == \E t \in Threads : OnStack(t, CallActivation(c))

\* Tasks of call c that have not decremented `remaining`.
Unfinished(c) == {i \in 1 .. count[c] : status[<<c, i>>] # "done"}

\* Every variable holds a value of its type.
TypeOK ==
  /\ queue \in Seq(Task)
  /\ ncalls \in 0 .. MaxCalls
  /\ count \in [CallId -> 0 .. MaxWidth]
  /\ parent \in [CallId -> FrameRef]
  /\ remaining \in [CallId -> 0 .. MaxWidth]
  /\ cancel \in [CallId -> BOOLEAN]
  /\ status \in [Task -> {"new", "queued", "popped", "done"}]
  /\ stack \in [Threads -> Seq(Activation)]
  /\ pc \in [Threads -> {"off", "idle", "cv", "user", "enqueue", "notifyPool",
                         "check", "help", "block", "asleep", "start", "finish",
                         "notifyCall"}]
  /\ cur \in [Threads -> FrameRef]
  /\ prev \in [Task -> FrameRef]
  /\ active \in SUBSET Task

\* karac_par_run is a join: once a call has returned, each of its branches has
\* run or been skipped, exactly as the scoped threads it replaced guaranteed.
JoinBeforeReturn ==
  \A c \in Calls : ~ Open(c) => Unfinished(c) = {}

\* A branch is executed by one thread only, and a call waited for by one: no
\* task is in the queue and on a stack, or on two stacks, or twice in either,
\* although every waiting caller and every worker pops from the same queue.
NoTaskTwice ==
  /\ \A j, k \in 1 .. Len(queue) : queue[j] = queue[k] => j = k
  /\ \A t, u \in Threads : \A j \in 1 .. Len(stack[t]), k \in 1 .. Len(stack[u]) :
       stack[t][j] = stack[u][k] => t = u /\ j = k
  /\ \A t \in Threads : \A j \in 1 .. Len(queue), k \in 1 .. Len(stack[t]) :
       queue[j] # stack[t][k]

\* No wakeup is lost: a caller asleep on a call whose last task has finished,
\* and a worker asleep while tasks are queued, still have a notify_all coming,
\* although both condition variables are signalled outside their locks.
NoLostWakeup ==
  /\ \A t \in Threads : pc[t] = "asleep" =>
       \/ remaining[Top(t)[1]] # 0
       \/ \E u \in Threads : pc[u] = "notifyCall" /\ Top(u)[1] = Top(t)[1]
  /\ (\E t \in Threads : pc[t] = "cv") /\ queue # <<>> =>
       \E u \in Threads : pc[u] = "notifyPool"

\* A thread that cannot move without another one.
Blocked(t) ==
  \/ pc[t] \in {"off", "cv", "asleep"}
  \/ pc[t] = "user" /\ stack[t] = <<>>

\* Nested par blocks do not deadlock whatever the size of the pool: while a
\* call is open, some thread inside the runtime or inside a branch can move.
NoDeadlock ==
  (\E c \in Calls : Open(c)) => \E t \in Threads : ~ Blocked(t)

\* The pointer stored in a child's `parent` field never dangles: a registered
\* frame's parent is null or itself still registered.
ParentFrameAlive ==
  \A x \in active : parent[x[1]] = NoFrame \/ parent[x[1]] \in active

\* CURRENT_FRAME is the frame of the innermost task running on this thread: a
\* caller that helped with foreign tasks gets its own frame back.
Running(t) ==
  {k \in 1 .. Len(stack[t]) :
     /\ ~ IsCall(stack[t][k])
     /\ k = Len(stack[t]) => pc[t] = "user"}
CurrentFrameRestored ==
  TrackFrames => \A t \in Threads :
    \/ Running(t) = {} /\ cur[t] = NoFrame
    \/ \E k \in Running(t) : /\ \A j \in Running(t) : j <= k
                             /\ cur[t] = stack[t][k]

\* The pool implements structured fork-join.  With frame tracking on, a call's
\* parent pointer is the branch that encloses it.
ForkJoinSpec ==
  INSTANCE ForkJoin WITH
    forked <- ncalls,
    enclosing <- parent,
    pending <- [c \in CallId |-> Unfinished(c)],
    open <- {c \in CallId : Open(c)}

\* Nested calls join before the branch that made them ends, and a call returns
\* only when all its branches have ended, whoever executed them.
ImplementsForkJoin == ForkJoinSpec!Spec

\* Every par block ends: its call returns whatever other threads do.
EveryCallReturns == \A c \in CallId : Open(c) ~> ~ Open(c)
=============================================================================
