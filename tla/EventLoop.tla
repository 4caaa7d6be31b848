----------------------------- MODULE EventLoop -----------------------------
(***************************************************************************)
(* The process-wide event loop and its background poller:                  *)
(* src/runtime/src/event_loop.rs.                                          *)
(*                                                                         *)
(* Clients are the threads that call the karac_runtime_event_loop_*        *)
(* functions; a poller is the thread of one start_background_thread, from  *)
(* its start to its shutdown.  mio and the kernel are external: readiness  *)
(* is edge-triggered, an event is returned by one poll and then gone.      *)
(*                                                                         *)
(* One action is one critical section (of the slot, of the fds, of a       *)
(* queue), one blocking call, or one access to an atomic.  pc says where a *)
(* thread is:                                                              *)
(*   ready               a client, outside the event loop                  *)
(*   unborn, exited      a poller that does not run                        *)
(*   check               poller_thread_main, about to load `shutdown`      *)
(*   lock, poll, extract run_once                                          *)
(*   deposit, notify     poller_thread_main, after run_once                *)
(*   take, waiting, woken                                                  *)
(*                       take_wakeups: before the queue is locked, in the  *)
(*                       wait, and after it                                *)
(*   flag, wake, signal, join, drain                                       *)
(*                       shutdown_background_thread, in program order      *)
(***************************************************************************)
EXTENDS Naturals, Sequences, FiniteSets, SequencesExt

CONSTANTS
  Clients,      \* threads that call the runtime
  Pollers,      \* background pollers: the bound on the number of starts
  NoPoller,     \* BACKGROUND_POLLER is None
  MaxTokens,    \* bound: registrations
  MaxEdges,     \* bound: times one fd becomes ready
  MaxOut,       \* the buffer size that callers of poll and take_wakeups pass
  DirectPolls   \* do clients call karac_runtime_event_loop_poll?

ASSUME EventLoopAssumption ==
  /\ Clients \cap Pollers = {}
  /\ NoPoller \notin Pollers
  /\ MaxTokens \in Nat
  /\ MaxEdges \in Nat
  /\ MaxOut \in Nat
  /\ DirectPolls \in BOOLEAN

Token == 1 .. MaxTokens
Threads == Clients \cup Pollers
TakeMode == {"forever", "timed", "nowait"}

VARIABLES
  nextToken,   \* EventLoopFds.next_token
  registered,  \* EventLoopFds.by_token and the registrations of the kernel
  edges,       \* kernel: registered fds with an event not yet returned
  waker,       \* kernel: the waker has an event not yet returned
  pollLock,    \* is EventLoop.poll locked?
  slot,        \* BACKGROUND_POLLER
  shutdown,    \* per poller: EventLoopPoller.shutdown
  queue,       \* per poller: EventLoopPoller.queue
  pc,          \* per thread: see above
  batch,       \* per thread: the events its poll returned
  target,      \* per client: the poller it holds an Arc of
  mode,        \* per client: the timeout of its take_wakeups
  raised,      \* history, per token: times the fd became ready
  delivered,   \* history, per token: wakeups handed to clients
  owed         \* history: tokens with an event no client has been handed

vars == <<nextToken, registered, edges, waker, pollLock, slot, shutdown, queue,
          pc, batch, target, mode, raised, delivered, owed>>

fdVars == <<nextToken, registered, edges, raised, owed>>
clientVars == <<target, mode>>

Init ==
  /\ nextToken = 1
  /\ registered = {}
  /\ edges = {}
  /\ waker = FALSE
  /\ pollLock = FALSE
  /\ slot = NoPoller
  /\ shutdown = [p \in Pollers |-> FALSE]
  /\ queue = [p \in Pollers |-> <<>>]
  /\ pc = [x \in Threads |-> IF x \in Clients THEN "ready" ELSE "unborn"]
  /\ batch = [x \in Threads |-> {}]
  /\ target = [c \in Clients |-> NoPoller]
  /\ mode = [c \in Clients |-> "nowait"]
  /\ raised = [k \in Token |-> 0]
  /\ delivered = [k \in Token |-> 0]
  /\ owed = {}

Goto(x, label) == pc' = [pc EXCEPT ![x] = label]

\* Hands the wakeups of the tokens in K to the caller.
Deliver(K) ==
  /\ delivered' = [k \in Token |-> IF k \in K THEN delivered[k] + 1 ELSE delivered[k]]
  /\ owed' = owed \ K

----------------------------------------------------------------------------
(* Registrations, under the lock of fds. *)

\* A registration the kernel refuses uses up its token.
Register(c, accepted) ==
  /\ pc[c] = "ready"
  /\ nextToken <= MaxTokens
  /\ nextToken' = nextToken + 1
  /\ registered' = IF accepted THEN registered \cup {nextToken} ELSE registered
  /\ UNCHANGED <<edges, waker, pollLock, slot, shutdown, queue, pc, batch, clientVars,
                 raised, delivered, owed>>

Deregister(c, k) ==
  /\ pc[c] = "ready"
  /\ k \in registered
  /\ registered' = registered \ {k}
  /\ edges' = edges \ {k}
  /\ owed' = owed \ {k}
  /\ UNCHANGED <<nextToken, waker, pollLock, slot, shutdown, queue, pc, batch,
                 clientVars, raised, delivered>>

\* The kernel: the fd of token k becomes ready.
BecomeReady(k) ==
  /\ k \in registered
  /\ raised[k] < MaxEdges
  /\ edges' = edges \cup {k}
  /\ raised' = [raised EXCEPT ![k] = @ + 1]
  /\ owed' = owed \cup {k}
  /\ UNCHANGED <<nextToken, registered, waker, pollLock, slot, shutdown, queue, pc,
                 batch, clientVars, delivered>>

----------------------------------------------------------------------------
(* run_once, by a poller or by a client of the direct poll. *)

LockPoll(x) ==
  /\ pc[x] = "lock"
  /\ ~ pollLock
  /\ pollLock' = TRUE
  /\ Goto(x, "poll")
  /\ UNCHANGED <<fdVars, waker, slot, shutdown, queue, batch, clientVars, delivered>>

\* The poll returns every pending event; the waker's is filtered out later.
Harvest(x) ==
  /\ pc[x] = "poll"
  /\ edges # {} \/ waker
  /\ batch' = [batch EXCEPT ![x] = edges]
  /\ edges' = {}
  /\ waker' = FALSE
  /\ Goto(x, "extract")
  /\ UNCHANGED <<nextToken, registered, raised, owed, pollLock, slot, shutdown, queue,
                 clientVars, delivered>>

\* The poll fails, or its max_wait elapses (a poller waits without limit): run_once
\* returns nothing.
PollNothing(x) ==
  /\ pc[x] = "poll"
  /\ pollLock' = FALSE
  /\ Goto(x, IF x \in Clients THEN "ready" ELSE "check")
  /\ UNCHANGED <<fdVars, waker, slot, shutdown, queue, batch, clientVars, delivered>>

\* The events of tokens that are no longer registered are skipped.
Extracted(x) == batch[x] \cap registered

\* Mutants of PollerExtract: one stale event drops the batch; the lock is kept.
PollerExtractAllOrNone(p) ==
  /\ pc[p] = "extract"
  /\ batch' = [batch EXCEPT ![p] = IF @ \subseteq registered THEN @ ELSE {}]
  /\ pollLock' = FALSE
  /\ Goto(p, IF batch[p] \subseteq registered /\ batch[p] # {} THEN "deposit" ELSE "check")
  /\ UNCHANGED <<fdVars, waker, slot, shutdown, queue, clientVars, delivered>>

PollerExtractLocked(p) ==
  /\ pc[p] = "extract"
  /\ batch' = [batch EXCEPT ![p] = Extracted(p)]
  /\ Goto(p, IF Extracted(p) = {} THEN "check" ELSE "deposit")
  /\ UNCHANGED <<fdVars, waker, pollLock, slot, shutdown, queue, clientVars, delivered>>

PollerExtract(p) ==
  /\ pc[p] = "extract"
  /\ batch' = [batch EXCEPT ![p] = Extracted(p)]
  /\ pollLock' = FALSE
  /\ Goto(p, IF Extracted(p) = {} THEN "check" ELSE "deposit")
  /\ UNCHANGED <<fdVars, waker, slot, shutdown, queue, clientVars, delivered>>

\* karac_runtime_event_loop_poll copies what fits and drops the rest.
ClientExtract(c, K) ==
  /\ pc[c] = "extract"
  /\ K \subseteq Extracted(c)
  /\ Cardinality(K) = MaxOut \/ (K = Extracted(c) /\ Cardinality(K) < MaxOut)
  /\ Deliver(K)
  /\ batch' = [batch EXCEPT ![c] = {}]
  /\ pollLock' = FALSE
  /\ Goto(c, "ready")
  /\ UNCHANGED <<nextToken, registered, edges, raised, waker, slot, shutdown, queue,
                 clientVars>>

\* A direct poll returns 0 at once while a background poller runs.
BeginPoll(c) ==
  /\ pc[c] = "ready"
  /\ DirectPolls
  /\ slot = NoPoller
  /\ Goto(c, "lock")
  /\ UNCHANGED <<fdVars, waker, pollLock, slot, shutdown, queue, batch, clientVars,
                 delivered>>

----------------------------------------------------------------------------
(* poller_thread_main. *)

CheckShutdown(p) ==
  /\ pc[p] = "check"
  /\ Goto(p, IF shutdown[p] THEN "exited" ELSE "lock")
  /\ UNCHANGED <<fdVars, waker, pollLock, slot, shutdown, queue, batch, clientVars,
                 delivered>>

\* The order of the events of one poll is the kernel's; nothing depends on it.
Deposit(p) ==
  /\ pc[p] = "deposit"
  /\ queue' = [queue EXCEPT ![p] = @ \o SetToSeq(batch[p])]
  /\ batch' = [batch EXCEPT ![p] = {}]
  /\ Goto(p, "notify")
  /\ UNCHANGED <<fdVars, waker, pollLock, slot, shutdown, clientVars, delivered>>

\* poller.notify.notify_all(), by thread x going on to label.
NotifyTakers(x, p, label) ==
  pc' = [y \in Threads |-> IF y = x THEN label
                           ELSE IF pc[y] = "waiting" /\ target[y] = p THEN "woken"
                           ELSE pc[y]]

NotifyDeposit(p) ==
  /\ pc[p] = "notify"
  /\ NotifyTakers(p, p, "check")
  /\ UNCHANGED <<fdVars, waker, pollLock, slot, shutdown, queue, batch, clientVars,
                 delivered>>

----------------------------------------------------------------------------
(* start_background_thread, under the lock of the slot; when a poller runs it *)
(* changes nothing.                                                        *)

StartPoller(c, p) ==
  /\ pc[c] = "ready"
  /\ slot = NoPoller
  /\ pc[p] = "unborn"
  /\ slot' = p
  /\ Goto(p, "check")
  /\ UNCHANGED <<fdVars, waker, pollLock, shutdown, queue, batch, clientVars, delivered>>

----------------------------------------------------------------------------
(* take_wakeups. *)

\* Clones the Arc of the poller; without a poller the call returns 0.
BeginTake(c, m) ==
  /\ pc[c] = "ready"
  /\ slot # NoPoller
  /\ target' = [target EXCEPT ![c] = slot]
  /\ mode' = [mode EXCEPT ![c] = m]
  /\ Goto(c, "take")
  /\ UNCHANGED <<fdVars, waker, pollLock, slot, shutdown, queue, batch, delivered>>

\* An empty queue is waited on once, whatever woke the thread.
WaitForWakeup(c) ==
  /\ pc[c] = "take"
  /\ queue[target[c]] = <<>>
  /\ mode[c] # "nowait"
  /\ Goto(c, "waiting")
  /\ UNCHANGED <<fdVars, waker, pollLock, slot, shutdown, queue, batch, clientVars,
                 delivered>>

TimeOut(c) ==
  /\ pc[c] = "waiting"
  /\ mode[c] = "timed"
  /\ Goto(c, "woken")
  /\ UNCHANGED <<fdVars, waker, pollLock, slot, shutdown, queue, batch, clientVars,
                 delivered>>

\* A Condvar may wake its waiter without a notification.
SpuriousWake(c) ==
  /\ pc[c] = "waiting"
  /\ Goto(c, "woken")
  /\ UNCHANGED <<fdVars, waker, pollLock, slot, shutdown, queue, batch, clientVars,
                 delivered>>

\* Mutant of Drain: the wakeups are copied and stay in the queue.
DrainKeeps(c) ==
  /\ \/ pc[c] = "take" /\ (queue[target[c]] # <<>> \/ mode[c] = "nowait")
     \/ pc[c] = "woken"
  /\ LET q == queue[target[c]]
         n == IF Len(q) < MaxOut THEN Len(q) ELSE MaxOut
     IN  Deliver(ToSet(SubSeq(q, 1, n)))
  /\ Goto(c, "ready")
  /\ UNCHANGED <<nextToken, registered, edges, raised, waker, pollLock, slot, shutdown,
                 queue, batch, clientVars>>

\* Pops what fits into the caller's buffer, maybe nothing.
Drain(c) ==
  /\ \/ pc[c] = "take" /\ (queue[target[c]] # <<>> \/ mode[c] = "nowait")
     \/ pc[c] = "woken"
  /\ LET q == queue[target[c]]
         n == IF Len(q) < MaxOut THEN Len(q) ELSE MaxOut
     IN  /\ Deliver(ToSet(SubSeq(q, 1, n)))
         /\ queue' = [queue EXCEPT ![target[c]] = SubSeq(q, n + 1, Len(q))]
  /\ Goto(c, "ready")
  /\ UNCHANGED <<nextToken, registered, edges, raised, waker, pollLock, slot, shutdown,
                 batch, clientVars>>

----------------------------------------------------------------------------
(* shutdown_background_thread; without a poller it returns -1. *)

BeginShutdown(c) ==
  /\ pc[c] = "ready"
  /\ slot # NoPoller
  /\ target' = [target EXCEPT ![c] = slot]
  /\ slot' = NoPoller
  /\ Goto(c, "flag")
  /\ UNCHANGED <<fdVars, waker, pollLock, shutdown, queue, batch, mode, delivered>>

SetShutdown(c) ==
  /\ pc[c] = "flag"
  /\ shutdown' = [shutdown EXCEPT ![target[c]] = TRUE]
  /\ Goto(c, "wake")
  /\ UNCHANGED <<fdVars, waker, pollLock, slot, queue, batch, clientVars, delivered>>

\* Mutant of WakeLoop: the poll is not interrupted.
WakeLoopForgotten(c) ==
  /\ pc[c] = "wake"
  /\ Goto(c, "signal")
  /\ UNCHANGED <<fdVars, waker, pollLock, slot, shutdown, queue, batch, clientVars,
                 delivered>>

\* karac_runtime_event_loop_wake: wakes before the next poll coalesce.
WakeLoop(c) ==
  /\ pc[c] = "wake"
  /\ waker' = TRUE
  /\ Goto(c, "signal")
  /\ UNCHANGED <<fdVars, pollLock, slot, shutdown, queue, batch, clientVars, delivered>>

NotifyShutdown(c) ==
  /\ pc[c] = "signal"
  /\ NotifyTakers(c, target[c], "join")
  /\ UNCHANGED <<fdVars, waker, pollLock, slot, shutdown, queue, batch, clientVars,
                 delivered>>

Join(c) ==
  /\ pc[c] = "join"
  /\ pc[target[c]] = "exited"
  /\ Goto(c, "drain")
  /\ UNCHANGED <<fdVars, waker, pollLock, slot, shutdown, queue, batch, clientVars,
                 delivered>>

\* run_once(ZERO), its result ignored: meant for the waker's event, it takes
\* every event there is.
DrainWaker(c) ==
  /\ pc[c] = "drain"
  /\ ~ pollLock
  /\ edges' = {}
  /\ waker' = FALSE
  /\ Goto(c, "ready")
  /\ UNCHANGED <<nextToken, registered, raised, owed, pollLock, slot, shutdown, queue,
                 batch, clientVars, delivered>>

----------------------------------------------------------------------------
PollerStep(p) ==
  \/ CheckShutdown(p)
  \/ LockPoll(p)
  \/ Harvest(p)
  \/ PollerExtract(p)
  \/ Deposit(p)
  \/ NotifyDeposit(p)

\* The steps of a client inside a call.
ClientStep(c) ==
  \/ LockPoll(c)
  \/ Harvest(c)
  \/ \E K \in SUBSET batch[c] : ClientExtract(c, K)
  \/ WaitForWakeup(c)
  \/ TimeOut(c)
  \/ Drain(c)
  \/ SetShutdown(c)
  \/ WakeLoop(c)
  \/ NotifyShutdown(c)
  \/ Join(c)
  \/ DrainWaker(c)

\* A client enters a call.
Call(c) ==
  \/ \E accepted \in BOOLEAN : Register(c, accepted)
  \/ \E k \in registered : Deregister(c, k)
  \/ \E p \in Pollers : StartPoller(c, p)
  \/ \E m \in TakeMode : BeginTake(c, m)
  \/ BeginShutdown(c)
  \/ BeginPoll(c)

Next ==
  \/ \E p \in Pollers : PollerStep(p)
  \/ \E c \in Clients : ClientStep(c) \/ Call(c) \/ SpuriousWake(c)
  \/ \E x \in Threads : PollNothing(x)
  \/ \E k \in Token : BecomeReady(k)

Spec == Init /\ [][Next]_vars

\* The operating system schedules every thread that is not blocked; a client
\* need not call anything.  The failures of a poll are transient, so a poll that
\* is retried while an event is pending returns it.
FairSpec ==
  /\ Spec
  /\ \A p \in Pollers : WF_vars(PollerStep(p)) /\ SF_vars(Harvest(p))
  /\ \A c \in Clients : WF_vars(ClientStep(c))

----------------------------------------------------------------------------
(* Properties *)

\* Every variable holds a value of its type.
TypeOK ==
  /\ nextToken \in 1 .. MaxTokens + 1
  /\ registered \subseteq Token
  /\ edges \subseteq registered
  /\ waker \in BOOLEAN
  /\ pollLock \in BOOLEAN
  /\ slot \in Pollers \cup {NoPoller}
  /\ shutdown \in [Pollers -> BOOLEAN]
  /\ \A p \in Pollers : queue[p] \in Seq(Token)
  /\ \A c \in Clients :
       pc[c] \in {"ready", "lock", "poll", "extract", "take", "waiting", "woken",
                  "flag", "wake", "signal", "join", "drain"}
  /\ \A p \in Pollers :
       pc[p] \in {"unborn", "check", "lock", "poll", "extract", "deposit", "notify",
                  "exited"}
  /\ batch \in [Threads -> SUBSET Token]
  /\ target \in [Clients -> Pollers \cup {NoPoller}]
  /\ mode \in [Clients -> TakeMode]
  /\ raised \in [Token -> 0 .. MaxEdges]
  /\ delivered \in [Token -> Nat]
  /\ owed \subseteq registered

\* Where an event of token k is on its way to a client: threads that have polled
\* it, places of the pollers' queues, the kernel.
Polled(k) == {x \in Threads : k \in batch[x]}
Queued(k) == UNION {{p} \X {j \in 1 .. Len(queue[p]) : queue[p][j] = k} : p \in Pollers}
InFlight(k) ==
  Cardinality(Polled(k)) + Cardinality(Queued(k)) + (IF k \in edges THEN 1 ELSE 0)

\* A task is resumed at most once per readiness of its fd, whatever clients and
\* pollers, old and new, poll and drain at the same time.
WakeupsNotDuplicated ==
  \A k \in Token : delivered[k] + InFlight(k) <= raised[k]

\* A poller that has been started and whose shutdown has begun.
Retired(p) == pc[p] # "unborn" /\ slot # p

\* A client's poll drops the events that do not fit its buffer.
BuffersSuffice == DirectPolls => MaxTokens <= MaxOut

\* Until a shutdown, and while buffers hold every registration, no wakeup is lost:
\* the event of a registered fd is in the kernel, in a poll's batch or in the
\* queue until some client is handed it.
NoWakeupLost ==
  BuffersSuffice /\ (\A p \in Pollers : ~ Retired(p)) =>
    \A k \in owed : InFlight(k) > 0

\* A take_wakeups call that waits without limit is woken when the poller stops:
\* shutdown "signals the queue's Condvar to release any waiting take_wakeups
\* callers".
NoTakerStranded ==
  \A c \in Clients : pc[c] = "waiting" /\ mode[c] = "forever" =>
    \/ pc[target[c]] # "exited"
    \/ \E d \in Clients : target[d] = target[c] /\ pc[d] \in {"flag", "wake", "signal"}

\* A shutdown ends: the poller is woken whatever it is doing and is joined.
ShutdownReturns == \A c \in Clients : pc[c] = "flag" ~> pc[c] = "ready"

\* While a poller runs, the event of a registered fd leaves the kernel.
EventsArePolled ==
  \A k \in Token : (k \in edges /\ slot # NoPoller) ~> (k \notin edges \/ slot = NoPoller)
=============================================================================
