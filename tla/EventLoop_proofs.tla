-------------------------- MODULE EventLoop_proofs --------------------------
(***************************************************************************)
(* Theorems about EventLoop for every number of clients, pollers, fds and  *)
(* events: no wakeup is handed out twice, and none is lost before a        *)
(* shutdown.                                                               *)
(***************************************************************************)
EXTENDS Dispatcher, Integers, FiniteSetTheorems, SequenceTheorems, TLAPS

(***************************************************************************)
(* Types, and what a thread holds at each pc.                              *)
(***************************************************************************)
InTake == {"take", "waiting", "woken"}
InShutdown == {"flag", "wake", "signal", "join", "drain"}
InPoll == {"lock", "poll", "extract"}
ClientPc == {"ready"} \cup InPoll \cup InTake \cup InShutdown
PollerPc == {"unborn", "check", "deposit", "notify", "exited"} \cup InPoll

PcTypes ==
  /\ pc \in [Threads -> ClientPc \cup PollerPc]
  /\ \A c \in Clients : pc[c] \in ClientPc
  /\ \A p \in Pollers : pc[p] \in PollerPc

DataTypes ==
  /\ nextToken \in 1 .. MaxTokens + 1
  /\ registered \subseteq Token
  /\ edges \subseteq registered
  /\ waker \in BOOLEAN
  /\ pollLock \in BOOLEAN
  /\ slot \in Pollers \cup {NoPoller}
  /\ shutdown \in [Pollers -> BOOLEAN]
  /\ queue \in [Pollers -> Seq(Token)]
  /\ batch \in [Threads -> SUBSET Token]
  /\ target \in [Clients -> Pollers \cup {NoPoller}]
  /\ mode \in [Clients -> TakeMode]
  /\ raised \in [Token -> 0 .. MaxEdges]
  /\ delivered \in [Token -> Nat]
  /\ owed \subseteq registered

Types == PcTypes /\ DataTypes

\* A poller in the slot has been started.
SlotStarted == slot # NoPoller => pc[slot] # "unborn"

\* Only a thread between its poll and the hand-over holds events.
BatchHeld == \A x \in Threads : pc[x] \notin {"extract", "deposit"} => batch[x] = {}

\* A client in take_wakeups or in a shutdown holds the Arc of a poller; the one
\* it shuts down has left the slot for good.
TargetHeld ==
  \A c \in Clients :
    /\ pc[c] \in InTake \cup InShutdown => target[c] \in Pollers
    /\ pc[c] \in InShutdown => Retired(target[c])

Held == SlotStarted /\ BatchHeld /\ TargetHeld

LEMMA TypesInit == Init => Types
<1> SUFFICES ASSUME Init PROVE Types
  OBVIOUS
<1>1. queue \in [Pollers -> Seq(Token)]
  BY EmptySeq DEF Init
<1>2. pc \in [Threads -> ClientPc \cup PollerPc]
  BY DEF Init, ClientPc, PollerPc, Threads
<1>3. /\ \A c \in Clients : pc[c] = "ready"
      /\ \A p \in Pollers : pc[p] = "unborn"
  BY EventLoopAssumption DEF Init, Threads
<1>4. nextToken \in 1 .. MaxTokens + 1
  BY EventLoopAssumption DEF Init
<1>5. /\ shutdown \in [Pollers -> BOOLEAN]
      /\ batch \in [Threads -> SUBSET Token]
      /\ target \in [Clients -> Pollers \cup {NoPoller}]
      /\ mode \in [Clients -> TakeMode]
  BY DEF Init, TakeMode
<1>6. /\ raised \in [Token -> 0 .. MaxEdges]
      /\ delivered \in [Token -> Nat]
  BY EventLoopAssumption DEF Init
<1>7. /\ registered = {} /\ edges = {} /\ owed = {}
      /\ waker \in BOOLEAN /\ pollLock \in BOOLEAN /\ slot = NoPoller
  BY DEF Init
<1> QED
  BY <1>1, <1>2, <1>3, <1>4, <1>5, <1>6, <1>7
  DEF Types, PcTypes, DataTypes, ClientPc, PollerPc

\* The type invariant of the module.
LEMMA TypesTypeOK == Types => TypeOK
BY DEF Types, TypeOK, DataTypes, PcTypes, ClientPc, PollerPc, InPoll, InTake, InShutdown

LEMMA HeldInit == Init => Held
<1> SUFFICES ASSUME Init PROVE Held
  OBVIOUS
<1>1. \A c \in Clients : pc[c] = "ready"
  BY DEF Init, Threads
<1> QED
  BY <1>1 DEF Init, Held, SlotStarted, BatchHeld, TargetHeld, InTake, InShutdown

\* What a sequence with the elements of a finite set looks like.
LEMMA SetToSeqFacts ==
  ASSUME NEW S, IsFiniteSet(S)
  PROVE  /\ SetToSeq(S) \in Seq(S)
         /\ \A i, j \in 1 .. Len(SetToSeq(S)) :
              SetToSeq(S)[i] = SetToSeq(S)[j] => i = j
         /\ \A x \in S : \E i \in 1 .. Len(SetToSeq(S)) : SetToSeq(S)[i] = x
<1> DEFINE n == Cardinality(S)
           f == SetToSeq(S)
<1>1. n \in Nat /\ ExistsBijection(1 .. n, S)
  BY FS_CardinalityType
<1>2. PICK g : g \in Bijection(1 .. n, S)
  BY <1>1 DEF ExistsBijection
<1>3. g \in [1 .. n -> S] /\ IsInjective(g)
  BY <1>2 DEF Bijection, Injection, IsInjective
<1>4. f \in [1 .. n -> S] /\ IsInjective(f)
  BY <1>3 DEF SetToSeq
<1>5. f \in Injection(1 .. n, S)
  BY <1>4 DEF Injection, IsInjective
<1>6. Cardinality(1 .. n) = n
  BY <1>1, FS_Interval
<1>7. f \in Surjection(1 .. n, S)
  BY <1>5, <1>6, FS_Injection
<1>8. f \in Seq(S) /\ Len(f) = n
  BY <1>1, <1>4
<1> QED
  BY <1>4, <1>7, <1>8 DEF Surjection, IsInjective

LEMMA TokensFinite == \A S \in SUBSET Token : IsFiniteSet(S)
<1>1. IsFiniteSet(Token)
  BY EventLoopAssumption, FS_Interval DEF Token
<1> QED
  BY <1>1, FS_Subset

(***************************************************************************)
(* Types are preserved.                                                    *)
(***************************************************************************)

\* A step that sends thread x to a label it may have.
LEMMA GotoKeepsPc ==
  ASSUME Types, NEW x \in Threads, NEW label, Goto(x, label),
         x \in Clients => label \in ClientPc,
         x \in Pollers => label \in PollerPc
  PROVE  /\ PcTypes'
         /\ pc'[x] = label
         /\ \A y \in Threads : y # x => pc'[y] = pc[y]
<1>1. /\ \A c \in Clients : pc[c] \in ClientPc
      /\ \A p \in Pollers : pc[p] \in PollerPc
      /\ pc \in [Threads -> ClientPc \cup PollerPc]
  BY DEF Types, PcTypes
<1>2. pc' = [pc EXCEPT ![x] = label]
  BY DEF Goto
<1>3. label \in ClientPc \cup PollerPc
  BY DEF Threads
<1> QED
  BY <1>1, <1>2, <1>3 DEF Threads, PcTypes

\* notify_all wakes the clients that wait for poller p.
LEMMA NotifyKeepsPc ==
  ASSUME Types, NEW x \in Threads, NEW p \in Pollers, NEW label,
         NotifyTakers(x, p, label),
         x \in Clients => label \in ClientPc,
         x \in Pollers => label \in PollerPc
  PROVE  /\ PcTypes'
         /\ pc'[x] = label
         /\ \A y \in Threads : y # x =>
              \/ pc'[y] = pc[y]
              \/ y \in Clients /\ pc[y] = "waiting" /\ pc'[y] = "woken"
<1>1. /\ \A c \in Clients : pc[c] \in ClientPc
      /\ \A q \in Pollers : pc[q] \in PollerPc /\ pc[q] # "waiting"
      /\ pc \in [Threads -> ClientPc \cup PollerPc]
  BY DEF Types, PcTypes, PollerPc, InPoll
<1>2. pc' = [y \in Threads |-> IF y = x THEN label
                               ELSE IF pc[y] = "waiting" /\ target[y] = p THEN "woken"
                               ELSE pc[y]]
  BY DEF NotifyTakers
<1>3. label \in ClientPc \cup PollerPc /\ "woken" \in ClientPc
  BY DEF Threads, ClientPc, InTake
<1>4. \A y \in Threads : /\ y \in Clients \/ y \in Pollers
                         /\ y \in Clients => y \in Threads
                         /\ y \in Pollers => pc[y] # "waiting"
  BY <1>1 DEF Threads
<1> QED
  BY <1>1, <1>2, <1>3, <1>4 DEF Threads, PcTypes

LEMMA PcNext == Types /\ TargetHeld /\ [Next]_vars => PcTypes'
<1> SUFFICES ASSUME Types, TargetHeld, [Next]_vars PROVE PcTypes'
  OBVIOUS
<1>0. /\ Clients \subseteq Threads /\ Pollers \subseteq Threads
      /\ \A c \in Clients : c \notin Pollers
      /\ PcTypes
  BY EventLoopAssumption DEF Threads, Types
<1>1. CASE UNCHANGED pc
  BY <1>0, <1>1 DEF PcTypes
<1>2. ASSUME NEW p \in Pollers, PollerStep(p) PROVE PcTypes'
  <2>1. ASSUME NEW label \in PollerPc, Goto(p, label) PROVE PcTypes'
    BY <1>0, <2>1, GotoKeepsPc
  <2>2. CASE NotifyDeposit(p)
    BY <1>0, <2>2, NotifyKeepsPc DEF NotifyDeposit, PollerPc
  <2> QED
    BY <1>2, <2>1, <2>2
    DEF PollerStep, CheckShutdown, LockPoll, Harvest, PollerExtract, Deposit, PollerPc, InPoll
<1>3. ASSUME NEW c \in Clients, ClientStep(c) \/ Call(c) \/ SpuriousWake(c)
      PROVE  PcTypes'
  <2>1. ASSUME NEW label \in ClientPc, Goto(c, label) PROVE PcTypes'
    BY <1>0, <2>1, GotoKeepsPc
  <2>2. CASE NotifyShutdown(c)
    <3>1. target[c] \in Pollers
      BY <2>2 DEF NotifyShutdown, TargetHeld, InShutdown
    <3> QED
      BY <1>0, <2>2, <3>1, NotifyKeepsPc DEF NotifyShutdown, ClientPc, InShutdown
  <2>3. ASSUME NEW p \in Pollers, StartPoller(c, p) PROVE PcTypes'
    BY <1>0, <2>3, GotoKeepsPc DEF StartPoller, PollerPc
  <2>4. /\ \A K : ClientExtract(c, K) => Goto(c, "ready")
        /\ \A m : BeginTake(c, m) => Goto(c, "take")
        /\ \A k : Deregister(c, k) => UNCHANGED pc
        /\ \A b : Register(c, b) => UNCHANGED pc
    BY DEF ClientExtract, BeginTake, Deregister, Register
  <2> QED
    BY <1>1, <1>3, <2>1, <2>2, <2>3, <2>4
    DEF ClientStep, LockPoll, Harvest, WaitForWakeup, TimeOut, Drain, SetShutdown,
        WakeLoop, Join, DrainWaker, Call, BeginShutdown, BeginPoll, SpuriousWake,
        ClientPc, InPoll, InTake, InShutdown
<1>4. ASSUME NEW x \in Threads, PollNothing(x) PROVE PcTypes'
  BY <1>0, <1>4, GotoKeepsPc DEF PollNothing, Threads, ClientPc, PollerPc
<1>5. ASSUME NEW k \in Token, BecomeReady(k) PROVE PcTypes'
  BY <1>1, <1>5 DEF BecomeReady
<1> QED
  BY <1>1, <1>2, <1>3, <1>4, <1>5 DEF Next, vars

\* What take_wakeups pops is a prefix of the queue.
LEMMA DrainFacts ==
  ASSUME Types, TargetHeld, NEW c \in Clients, Drain(c)
  PROVE  LET q == queue[target[c]]
             n == IF Len(q) < MaxOut THEN Len(q) ELSE MaxOut
         IN  /\ target[c] \in Pollers
             /\ Len(q) \in Nat /\ n \in 0 .. Len(q)
             /\ queue' \in [Pollers -> Seq(Token)]
             /\ \A p \in Pollers : p # target[c] => queue'[p] = queue[p]
             /\ Len(queue'[target[c]]) = Len(q) - n
             /\ \A j \in 1 .. Len(q) - n : queue'[target[c]][j] = q[n + j]
             /\ \A k : k \in ToSet(SubSeq(q, 1, n)) <=> \E j \in 1 .. n : q[j] = k
<1> DEFINE q == queue[target[c]]
           n == IF Len(q) < MaxOut THEN Len(q) ELSE MaxOut
<1>1. target[c] \in Pollers /\ queue \in [Pollers -> Seq(Token)] /\ q \in Seq(Token)
  BY DEF Drain, TargetHeld, InTake, Types, DataTypes
<1>2. Len(q) \in Nat /\ n \in 0 .. Len(q) /\ n \in Int /\ n + 1 \in Int
  BY <1>1, LenProperties, EventLoopAssumption
<1>3. \A i \in 1 .. Len(q) : q[i] \in Token
  BY <1>1, ElementOfSeq
<1>4. /\ SubSeq(q, n + 1, Len(q)) \in Seq(Token)
      /\ Len(SubSeq(q, n + 1, Len(q))) = Len(q) - n
      /\ \A j \in 1 .. Len(q) - n : SubSeq(q, n + 1, Len(q))[j] = q[n + j]
  BY <1>1, <1>2, <1>3
<1>5. /\ Len(SubSeq(q, 1, n)) = n
      /\ DOMAIN SubSeq(q, 1, n) = 1 .. n
      /\ \A j \in 1 .. n : SubSeq(q, 1, n)[j] = q[j]
  BY <1>1, <1>2, <1>3
<1>6. \A k : k \in ToSet(SubSeq(q, 1, n)) <=> \E j \in 1 .. n : q[j] = k
  BY <1>5 DEF ToSet
<1>7. queue' = [queue EXCEPT ![target[c]] = SubSeq(q, n + 1, Len(q))]
  BY DEF Drain
<1> QED
  BY <1>1, <1>2, <1>4, <1>6, <1>7

\* A deposit appends each token of the batch once.
LEMMA DepositFacts ==
  ASSUME Types, NEW p \in Pollers, Deposit(p)
  PROVE  /\ queue' \in [Pollers -> Seq(Token)]
         /\ \A u \in Pollers : u # p => queue'[u] = queue[u]
         /\ Len(queue[p]) \in Nat /\ Len(queue'[p]) \in Nat
         /\ Len(queue[p]) <= Len(queue'[p])
         /\ \A j \in 1 .. Len(queue[p]) : queue'[p][j] = queue[p][j]
         /\ \A k : k \in batch[p] =>
              \E i \in Len(queue[p]) + 1 .. Len(queue'[p]) :
                \A j \in Len(queue[p]) + 1 .. Len(queue'[p]) :
                  queue'[p][j] = k <=> j = i
         /\ \A k : k \notin batch[p] =>
              \A j \in Len(queue[p]) + 1 .. Len(queue'[p]) : queue'[p][j] # k
<1> DEFINE q == queue[p]
           e == SetToSeq(batch[p])
<1>1. /\ queue \in [Pollers -> Seq(Token)] /\ q \in Seq(Token)
      /\ batch[p] \subseteq Token
  BY DEF Types, DataTypes, Threads
<1>2. IsFiniteSet(batch[p])
  BY <1>1, TokensFinite
<1>3. /\ e \in Seq(batch[p])
      /\ \A i, j \in 1 .. Len(e) : e[i] = e[j] => i = j
      /\ \A k \in batch[p] : \E i \in 1 .. Len(e) : e[i] = k
  BY <1>2, SetToSeqFacts
<1>4. e \in Seq(Token) /\ Len(e) \in Nat /\ Len(q) \in Nat
  BY <1>1, <1>3, SeqMonotonic, LenProperties
<1>5. /\ q \o e \in Seq(Token) /\ Len(q \o e) = Len(q) + Len(e)
      /\ \A i \in 1 .. Len(q) + Len(e) :
           (q \o e)[i] = IF i <= Len(q) THEN q[i] ELSE e[i - Len(q)]
  BY <1>1, <1>4, ConcatProperties
<1>6. queue' = [queue EXCEPT ![p] = q \o e]
  BY DEF Deposit
<1>7. queue' \in [Pollers -> Seq(Token)] /\ queue'[p] = q \o e
      /\ \A u \in Pollers : u # p => queue'[u] = queue[u]
  BY <1>1, <1>5, <1>6
<1>8. \A l, m \in Nat : \A j \in l + 1 .. l + m :
        /\ j - l \in 1 .. m /\ j \in 1 .. l + m /\ ~ (j <= l) /\ (j - l) + l = j
  OBVIOUS
<1>9. Len(queue'[p]) = Len(q) + Len(e)
  BY <1>5, <1>7
<1>10. \A j \in Len(q) + 1 .. Len(q) + Len(e) :
         j - Len(q) \in 1 .. Len(e) /\ queue'[p][j] = e[j - Len(q)]
  BY <1>4, <1>5, <1>7, <1>8, Zenon
<1>11. ASSUME NEW k \in batch[p]
       PROVE  \E i \in Len(q) + 1 .. Len(queue'[p]) :
                \A j \in Len(q) + 1 .. Len(queue'[p]) : queue'[p][j] = k <=> j = i
  <2>1. PICK m \in 1 .. Len(e) : e[m] = k
    BY <1>3
  <2>2. \A l, n \in Nat : \A i \in 1 .. n : i + l \in l + 1 .. l + n /\ i + l - l = i
    OBVIOUS
  <2>3. m + Len(q) \in Len(q) + 1 .. Len(q) + Len(e) /\ m + Len(q) - Len(q) = m
    BY <1>4, <2>2
  <2>4. ASSUME NEW j \in Len(q) + 1 .. Len(q) + Len(e)
        PROVE  queue'[p][j] = k <=> j = m + Len(q)
    <3>1. queue'[p][j] = e[j - Len(q)] /\ j - Len(q) \in 1 .. Len(e)
          /\ (j - Len(q)) + Len(q) = j
      BY <1>4, <1>8, <1>10, Zenon
    <3>2. queue'[p][j] = k <=> j - Len(q) = m
      BY <1>3, <2>1, <3>1, Zenon
    <3>3. \A l \in Nat : \A i \in l + 1 .. l + Len(e) : i - l = m <=> i = m + l
      BY <1>4
    <3> QED
      BY <1>4, <3>2, <3>3, Zenon
  <2> DEFINE i == m + Len(q)
  <2>5. i \in Len(q) + 1 .. Len(queue'[p])
    BY <1>9, <2>3, Zenon
  <2>6. \A j \in Len(q) + 1 .. Len(queue'[p]) : queue'[p][j] = k <=> j = i
    BY <1>9, <2>4, Zenon
  <2> HIDE DEF i
  <2> QED
    BY <2>5, <2>6, Zenon
<1>12. ASSUME NEW k, k \notin batch[p], NEW j \in Len(q) + 1 .. Len(queue'[p])
       PROVE  queue'[p][j] # k
  <2>1. j - Len(q) \in 1 .. Len(e) /\ queue'[p][j] = e[j - Len(q)]
    BY <1>9, <1>10, <1>12, Zenon
  <2>2. e[j - Len(q)] \in batch[p]
    BY <1>3, <2>1, ElementOfSeq
  <2> QED
    BY <1>12, <2>1, <2>2, Zenon
<1>13. /\ Len(queue'[p]) \in Nat /\ Len(q) <= Len(queue'[p])
       /\ \A j \in 1 .. Len(q) : queue'[p][j] = q[j]
  <2>0. \A l, m \in Nat : /\ l + m \in Nat /\ l <= l + m
                         /\ \A j \in 1 .. l : j \in 1 .. l + m /\ j <= l
    OBVIOUS
  <2>1. /\ Len(q) + Len(e) \in Nat /\ Len(q) <= Len(q) + Len(e)
        /\ \A j \in 1 .. Len(q) : j \in 1 .. Len(q) + Len(e) /\ j <= Len(q)
    BY <1>4, <2>0, Zenon
  <2>2. \A j \in 1 .. Len(q) : queue'[p][j] = q[j]
    BY <1>5, <1>7, <2>1, Zenon
  <2> QED
    BY <1>9, <2>1, <2>2, Zenon
<1> QED
  BY <1>4, <1>7, <1>11, <1>12, <1>13, Zenon

LEMMA DataNext == Types /\ TargetHeld /\ [Next]_vars => DataTypes'
<1> SUFFICES ASSUME Types, TargetHeld, [Next]_vars PROVE DataTypes'
  OBVIOUS
<1>0. DataTypes /\ Clients \subseteq Threads /\ Pollers \subseteq Threads
  BY DEF Types, Threads
<1>1. CASE UNCHANGED vars
  BY <1>0, <1>1 DEF DataTypes, vars
\* Steps of run_once, and the deposit.
<1>2. ASSUME NEW x \in Threads, Harvest(x) PROVE DataTypes'
  BY <1>0, <1>2 DEF Harvest, DataTypes, clientVars
<1>3. ASSUME NEW p \in Pollers, PollerExtract(p) PROVE DataTypes'
  BY <1>0, <1>3 DEF PollerExtract, DataTypes, Extracted, fdVars, clientVars
<1>4. ASSUME NEW K, Deliver(K)
      PROVE  delivered' \in [Token -> Nat] /\ owed' \subseteq registered
  BY <1>0, <1>4 DEF DataTypes, Deliver
<1>5. ASSUME NEW c \in Clients, NEW K, ClientExtract(c, K) PROVE DataTypes'
  BY <1>0, <1>4, <1>5 DEF ClientExtract, DataTypes, clientVars
<1>6. ASSUME NEW p \in Pollers, Deposit(p) PROVE DataTypes'
  <2>1. queue' \in [Pollers -> Seq(Token)]
    BY <1>6, DepositFacts
  <2> QED
    BY <1>0, <1>6, <2>1 DEF Deposit, DataTypes, fdVars, clientVars
<1>7. ASSUME NEW c \in Clients, Drain(c) PROVE DataTypes'
  <2>1. queue' \in [Pollers -> Seq(Token)]
    BY <1>7, DrainFacts
  <2>2. delivered' \in [Token -> Nat] /\ owed' \subseteq registered
    BY <1>4, <1>7 DEF Drain
  <2> QED
    BY <1>0, <1>7, <2>1, <2>2 DEF Drain, DataTypes, clientVars
\* Registrations and the kernel.
<1>8. ASSUME NEW c \in Clients, NEW b \in BOOLEAN, Register(c, b) PROVE DataTypes'
  <2>1. nextToken \in Token /\ nextToken + 1 \in 1 .. MaxTokens + 1
    BY <1>0, <1>8, EventLoopAssumption DEF Register, DataTypes, Token
  <2> QED
    BY <1>0, <1>8, <2>1 DEF Register, DataTypes, clientVars
<1>9. ASSUME NEW c \in Clients, NEW k \in registered, Deregister(c, k) PROVE DataTypes'
  BY <1>0, <1>9 DEF Deregister, DataTypes, clientVars
<1>10. ASSUME NEW k \in Token, BecomeReady(k) PROVE DataTypes'
  <2>1. raised' \in [Token -> 0 .. MaxEdges]
    BY <1>0, <1>10, EventLoopAssumption DEF BecomeReady, DataTypes
  <2> QED
    BY <1>0, <1>10, <2>1 DEF BecomeReady, DataTypes, clientVars
<1>11. ASSUME NEW c \in Clients, DrainWaker(c) PROVE DataTypes'
  BY <1>0, <1>11 DEF DrainWaker, DataTypes, clientVars
\* The rest: the slot, the Arcs, and the flags.
<1>12. ASSUME NEW c \in Clients, NEW p \in Pollers, StartPoller(c, p) PROVE DataTypes'
  BY <1>0, <1>12 DEF StartPoller, DataTypes, fdVars, clientVars
<1>13. ASSUME NEW c \in Clients, NEW m \in TakeMode, BeginTake(c, m) PROVE DataTypes'
  BY <1>0, <1>13 DEF BeginTake, DataTypes, fdVars
<1>14. ASSUME NEW c \in Clients, BeginShutdown(c) PROVE DataTypes'
  BY <1>0, <1>14 DEF BeginShutdown, DataTypes, fdVars
<1>15. ASSUME NEW c \in Clients, SetShutdown(c) PROVE DataTypes'
  BY <1>0, <1>15 DEF SetShutdown, DataTypes, fdVars, clientVars
<1>16. ASSUME UNCHANGED <<fdVars, slot, shutdown, queue, batch, clientVars, delivered>>,
              waker' \in BOOLEAN, pollLock' \in BOOLEAN
       PROVE  DataTypes'
  BY <1>0, <1>16 DEF DataTypes, fdVars, clientVars
<1>17. ASSUME NEW x \in Threads, LockPoll(x) \/ PollNothing(x) PROVE DataTypes'
  BY <1>0, <1>16, <1>17 DEF LockPoll, PollNothing, DataTypes
<1>18. ASSUME NEW p \in Pollers, CheckShutdown(p) \/ NotifyDeposit(p) PROVE DataTypes'
  BY <1>0, <1>16, <1>18 DEF CheckShutdown, NotifyDeposit, DataTypes
<1>19. ASSUME NEW c \in Clients,
              \/ WaitForWakeup(c) \/ TimeOut(c) \/ WakeLoop(c) \/ NotifyShutdown(c)
              \/ Join(c) \/ BeginPoll(c) \/ SpuriousWake(c)
       PROVE  DataTypes'
  BY <1>0, <1>16, <1>19
  DEF WaitForWakeup, TimeOut, WakeLoop, NotifyShutdown, Join, BeginPoll, SpuriousWake,
      DataTypes
<1> QED
  BY <1>0, <1>1, <1>2, <1>3, <1>5, <1>6, <1>7, <1>8, <1>9, <1>10, <1>11, <1>12, <1>13,
     <1>14, <1>15, <1>17, <1>18, <1>19
  DEF Next, PollerStep, ClientStep, Call

LEMMA HeldNext == Types /\ Held /\ [Next]_vars => Held'
<1> SUFFICES ASSUME Types, Held, [Next]_vars PROVE Held'
  OBVIOUS
<1>0. /\ Clients \subseteq Threads /\ Pollers \subseteq Threads
      /\ \A c \in Clients : c \notin Pollers
      /\ SlotStarted /\ BatchHeld /\ TargetHeld
      /\ slot # NoPoller => slot \in Pollers
      /\ NoPoller \notin Pollers
      /\ batch \in [Threads -> SUBSET Token]
      /\ target \in [Clients -> Pollers \cup {NoPoller}]
      /\ pc \in [Threads -> ClientPc \cup PollerPc]
      /\ \A p \in Pollers : pc[p] \in PollerPc
  BY EventLoopAssumption DEF Threads, Held, Types, DataTypes, PcTypes
\* A thread's own step changes nothing for the others, but for waking takers.
<1>1. ASSUME NEW x \in Threads, slot' = slot,
             \A y \in Threads : y # x =>
               /\ batch'[y] = batch[y]
               /\ \/ pc'[y] = pc[y]
                  \/ y \in Clients /\ pc[y] = "waiting" /\ pc'[y] = "woken",
             \A d \in Clients : d # x => target'[d] = target[d],
             pc'[x] \notin {"extract", "deposit"} => batch'[x] = {},
             x \in Pollers /\ pc[x] # "unborn" => pc'[x] # "unborn",
             x \in Clients => /\ pc'[x] \in InTake \cup InShutdown => target'[x] \in Pollers
                              /\ pc'[x] \in InShutdown => Retired(target'[x])
      PROVE  Held'
  <2>1. \A p \in Pollers : pc[p] # "unborn" => pc'[p] # "unborn"
    BY <1>0, <1>1
  <2>2. SlotStarted'
    BY <1>0, <1>1, <2>1 DEF SlotStarted
  <2>3. BatchHeld'
    BY <1>0, <1>1 DEF BatchHeld
  <2>4. ASSUME NEW c \in Clients
        PROVE  /\ pc'[c] \in InTake \cup InShutdown => target'[c] \in Pollers
               /\ pc'[c] \in InShutdown => Retired(target'[c])
    BY <1>0, <1>1, <2>4 DEF TargetHeld, InTake, InShutdown
  <2>5. \A p \in Pollers : Retired(p) => Retired(p)'
    BY <1>1, <2>1 DEF Retired
  <2>6. TargetHeld'
    BY <2>4, <2>5 DEF TargetHeld, Retired, InTake, InShutdown
  <2> QED
    BY <2>2, <2>3, <2>6 DEF Held
<1>2. CASE UNCHANGED vars
  BY <1>0, <1>2 DEF vars, Held, SlotStarted, BatchHeld, TargetHeld, Retired
<1>3. ASSUME NEW p \in Pollers, PollerStep(p) PROVE Held'
  <2>1. /\ slot' = slot /\ target' = target /\ p \in Threads /\ p \notin Clients
        /\ pc[p] # "unborn"
    BY <1>0, <1>3
    DEF PollerStep, CheckShutdown, LockPoll, Harvest, PollerExtract, Deposit, NotifyDeposit,
        clientVars
  <2>2. ASSUME NEW label \in PollerPc, Goto(p, label), label # "unborn",
               \A y \in Threads : y # p => batch'[y] = batch[y],
               label \notin {"extract", "deposit"} => batch'[p] = {}
        PROVE  Held'
    <3>1. pc'[p] = label /\ \A y \in Threads : y # p => pc'[y] = pc[y]
      BY <1>0, <2>1, <2>2, GotoKeepsPc
    <3> QED
      BY <1>1, <2>1, <2>2, <3>1
  <2>3. CASE CheckShutdown(p) \/ LockPoll(p)
    <3>1. UNCHANGED batch /\ batch[p] = {}
      BY <1>0, <2>1, <2>3 DEF CheckShutdown, LockPoll, BatchHeld
    <3>2. \E label \in {"exited", "lock", "poll"} : Goto(p, label)
      BY <2>3 DEF CheckShutdown, LockPoll
    <3> QED
      BY <2>2, <3>1, <3>2 DEF PollerPc, InPoll
  <2>4. CASE Harvest(p)
    BY <1>0, <2>2, <2>4 DEF Harvest, PollerPc, InPoll
  <2>5. CASE PollerExtract(p)
    <3>1. batch' = [batch EXCEPT ![p] = Extracted(p)]
      BY <2>5 DEF PollerExtract
    <3>2. /\ batch'[p] = Extracted(p)
          /\ \A y \in Threads : y # p => batch'[y] = batch[y]
      BY <1>0, <2>1, <3>1
    <3>3. Goto(p, IF Extracted(p) = {} THEN "check" ELSE "deposit")
      BY <2>5 DEF PollerExtract
    <3> QED
      BY <2>2, <3>2, <3>3 DEF PollerPc
  <2>6. CASE Deposit(p)
    <3>1. /\ batch'[p] = {}
          /\ \A y \in Threads : y # p => batch'[y] = batch[y]
      BY <1>0, <2>1, <2>6 DEF Deposit
    <3> QED
      BY <2>2, <2>6, <3>1 DEF Deposit, PollerPc
  <2>7. CASE NotifyDeposit(p)
    <3>1. /\ pc'[p] = "check"
          /\ \A y \in Threads : y # p =>
               \/ pc'[y] = pc[y]
               \/ y \in Clients /\ pc[y] = "waiting" /\ pc'[y] = "woken"
      BY <1>0, <2>1, <2>7, NotifyKeepsPc DEF NotifyDeposit, PollerPc
    <3>2. UNCHANGED batch /\ batch[p] = {}
      BY <1>0, <2>1, <2>7 DEF NotifyDeposit, BatchHeld
    <3> QED
      BY <1>1, <2>1, <3>1, <3>2
  <2> QED
    BY <1>3, <2>3, <2>4, <2>5, <2>6, <2>7 DEF PollerStep
<1>4. ASSUME NEW x \in Threads, PollNothing(x) PROVE Held'
  <2>1. /\ UNCHANGED <<slot, batch, target>> /\ batch[x] = {}
        /\ Goto(x, IF x \in Clients THEN "ready" ELSE "check")
    BY <1>0, <1>4 DEF PollNothing, BatchHeld, clientVars
  <2>2. /\ pc'[x] \in {"ready", "check"}
        /\ \A y \in Threads : y # x => pc'[y] = pc[y]
    BY <1>0, <2>1, GotoKeepsPc DEF Threads, ClientPc, PollerPc
  <2> QED
    BY <1>1, <2>1, <2>2 DEF InTake, InShutdown
\* The steps of a client that neither start nor shut down a poller.
<1>5. ASSUME NEW c \in Clients, NEW label \in ClientPc, Goto(c, label), slot' = slot,
             \A y \in Threads : y # c => batch'[y] = batch[y],
             \A d \in Clients : d # c => target'[d] = target[d],
             label # "extract" => batch'[c] = {},
             label \in InTake => target'[c] \in Pollers,
             label \in InShutdown =>
               pc[c] \in InShutdown /\ target'[c] = target[c]
      PROVE  Held'
  <2>1. pc'[c] = label /\ \A y \in Threads : y # c => pc'[y] = pc[y]
    BY <1>0, <1>5, GotoKeepsPc
  <2>2. label \in InShutdown => target'[c] \in Pollers /\ Retired(target'[c])
    BY <1>0, <1>5 DEF TargetHeld
  <2>3. c \in Threads /\ c \notin Pollers
    BY <1>0
  <2> QED
    BY <1>1, <1>5, <2>1, <2>2, <2>3
<1>6. ASSUME NEW c \in Clients, ClientStep(c) \/ SpuriousWake(c) PROVE Held'
  <2>1. /\ slot' = slot /\ target' = target /\ c \in Threads
    BY <1>0, <1>6
    DEF ClientStep, LockPoll, Harvest, ClientExtract, WaitForWakeup, TimeOut, Drain,
        SetShutdown, WakeLoop, NotifyShutdown, Join, DrainWaker, SpuriousWake, clientVars
  <2>2. CASE Harvest(c)
    BY <1>0, <1>5, <2>1, <2>2 DEF Harvest, ClientPc, InPoll, InTake, InShutdown
  <2>3. ASSUME NEW K, ClientExtract(c, K) PROVE Held'
    <3>1. /\ batch'[c] = {}
          /\ \A y \in Threads : y # c => batch'[y] = batch[y]
      BY <1>0, <2>1, <2>3 DEF ClientExtract
    <3> QED
      BY <1>5, <2>1, <2>3, <3>1 DEF ClientExtract, ClientPc, InTake, InShutdown
  <2>4. CASE NotifyShutdown(c)
    <3>1. target[c] \in Pollers /\ Retired(target[c]) /\ batch[c] = {} /\ batch' = batch
      BY <1>0, <2>1, <2>4 DEF NotifyShutdown, TargetHeld, BatchHeld, InShutdown
    <3>2. /\ pc'[c] = "join"
          /\ \A y \in Threads : y # c =>
               \/ pc'[y] = pc[y]
               \/ y \in Clients /\ pc[y] = "waiting" /\ pc'[y] = "woken"
      BY <1>0, <2>1, <2>4, <3>1, NotifyKeepsPc DEF NotifyShutdown, ClientPc, InShutdown
    <3>3. c \notin Pollers
      BY <1>0
    <3> QED
      BY <1>1, <2>1, <3>1, <3>2, <3>3
  <2>5. CASE \/ LockPoll(c) \/ WaitForWakeup(c) \/ TimeOut(c) \/ Drain(c)
             \/ SetShutdown(c) \/ WakeLoop(c) \/ Join(c) \/ DrainWaker(c) \/ SpuriousWake(c)
    <3>1. batch' = batch /\ pc[c] \notin {"extract", "deposit"}
      BY <2>5
      DEF LockPoll, WaitForWakeup, TimeOut, Drain, SetShutdown, WakeLoop, Join, DrainWaker,
          SpuriousWake
    <3>2. batch'[c] = {}
      BY <1>0, <2>1, <3>1 DEF BatchHeld
    <3>3. pc[c] \in InTake => target[c] \in Pollers
      BY <1>0 DEF TargetHeld
    <3>4. \E label \in ClientPc :
            /\ Goto(c, label) /\ label # "extract"
            /\ label \in InTake => pc[c] \in InTake
            /\ label \in InShutdown => pc[c] \in InShutdown
      BY <2>5
      DEF LockPoll, WaitForWakeup, TimeOut, Drain, SetShutdown, WakeLoop, Join, DrainWaker,
          SpuriousWake, ClientPc, InPoll, InTake, InShutdown
    <3> QED
      BY <1>5, <2>1, <3>1, <3>2, <3>3, <3>4
  <2> QED
    BY <1>6, <2>2, <2>3, <2>4, <2>5 DEF ClientStep
<1>7. ASSUME NEW c \in Clients, Call(c) PROVE Held'
  <2>0. pc[c] = "ready" /\ c \in Threads /\ c \notin Pollers /\ batch[c] = {}
    BY <1>0, <1>7
    DEF Call, Register, Deregister, StartPoller, BeginTake, BeginShutdown, BeginPoll,
        BatchHeld
  <2>1. ASSUME NEW b, Register(c, b) PROVE Held'
    BY <1>0, <2>1 DEF Register, Held, SlotStarted, BatchHeld, TargetHeld, Retired, clientVars
  <2>2. ASSUME NEW k, Deregister(c, k) PROVE Held'
    BY <1>0, <2>2 DEF Deregister, Held, SlotStarted, BatchHeld, TargetHeld, Retired,
                      clientVars
  <2>3. ASSUME NEW m, BeginTake(c, m) PROVE Held'
    <3>1. /\ Goto(c, "take") /\ slot' = slot /\ batch' = batch
          /\ target' = [target EXCEPT ![c] = slot] /\ slot \in Pollers
      BY <1>0, <2>3 DEF BeginTake
    <3>2. target'[c] = slot /\ \A d \in Clients : d # c => target'[d] = target[d]
      BY <1>0, <3>1
    <3> QED
      BY <1>5, <2>0, <3>1, <3>2 DEF ClientPc, InTake, InShutdown
  <2>4. CASE BeginPoll(c)
    BY <1>5, <2>0, <2>4 DEF BeginPoll, ClientPc, InPoll, InTake, InShutdown, clientVars
  \* A poller is started once; the pollers retired before stay so.
  <2>5. ASSUME NEW p \in Pollers, StartPoller(c, p) PROVE Held'
    <3>1. /\ slot = NoPoller /\ slot' = p /\ pc[p] = "unborn" /\ Goto(p, "check")
          /\ UNCHANGED <<batch, target>> /\ p \in Threads
      BY <1>0, <2>5 DEF StartPoller, clientVars
    <3>2. pc'[p] = "check" /\ \A y \in Threads : y # p => pc'[y] = pc[y]
      BY <1>0, <3>1, GotoKeepsPc DEF PollerPc
    <3>3. \A q \in Pollers : Retired(q) => Retired(q)'
      BY <1>0, <3>1, <3>2 DEF Retired
    <3>4. BatchHeld'
      BY <1>0, <3>1, <3>2 DEF BatchHeld
    <3>5. TargetHeld'
      BY <1>0, <3>1, <3>2, <3>3 DEF TargetHeld, Retired
    <3> QED
      BY <3>1, <3>2, <3>4, <3>5 DEF Held, SlotStarted
  <2>6. CASE BeginShutdown(c)
    <3>1. /\ slot \in Pollers /\ slot' = NoPoller /\ Goto(c, "flag") /\ UNCHANGED batch
          /\ target' = [target EXCEPT ![c] = slot] /\ pc[slot] # "unborn"
      BY <1>0, <2>6 DEF BeginShutdown, SlotStarted
    <3>2. pc'[c] = "flag" /\ \A y \in Threads : y # c => pc'[y] = pc[y]
      BY <1>0, <2>0, <3>1, GotoKeepsPc DEF ClientPc, InShutdown
    <3>3. target'[c] = slot /\ \A d \in Clients : d # c => target'[d] = target[d]
      BY <1>0, <3>1
    <3>4. \A q \in Pollers : Retired(q) \/ q = slot => Retired(q)'
      <4>1. \A q \in Pollers : q # c /\ q \in Threads
        BY <1>0
      <4>2. \A q \in Pollers : pc'[q] = pc[q] /\ q # NoPoller
        BY <1>0, <3>2, <4>1
      <4> QED
        BY <3>1, <4>2 DEF Retired
    <3>5. BatchHeld'
      BY <1>0, <2>0, <3>1, <3>2 DEF BatchHeld
    <3>6. TargetHeld'
      <4>1. ASSUME NEW d \in Clients
            PROVE  /\ pc'[d] \in InTake \cup InShutdown => target'[d] \in Pollers
                   /\ pc'[d] \in InShutdown =>
                        \E q \in Pollers : q = target'[d] /\ (Retired(q) \/ q = slot)
        BY <1>0, <3>1, <3>2, <3>3 DEF TargetHeld
      <4> QED
        BY <3>4, <4>1 DEF TargetHeld, Retired
    <3> QED
      BY <3>1, <3>5, <3>6 DEF Held, SlotStarted
  <2> QED
    BY <1>7, <2>1, <2>2, <2>3, <2>4, <2>5, <2>6 DEF Call
<1>8. ASSUME NEW k, BecomeReady(k) PROVE Held'
  BY <1>0, <1>8 DEF BecomeReady, Held, SlotStarted, BatchHeld, TargetHeld, Retired, clientVars
<1> QED
  BY <1>2, <1>3, <1>4, <1>6, <1>7, <1>8 DEF Next

LEMMA HeldInvariant == Spec => [](Types /\ Held)
<1>1. Types /\ Held /\ [Next]_vars => (Types /\ Held)'
  BY PcNext, DataNext, HeldNext DEF Types, Held
<1> QED
  BY <1>1, TypesInit, HeldInit, PTL DEF Spec

\* Every variable holds a value of its type.
THEOREM TypeCorrect == Spec => []TypeOK
BY HeldInvariant, TypesTypeOK, PTL

(***************************************************************************)
(* Counting the events on their way: which steps change the number of      *)
(* threads and of places in the queues that hold an event of token k.      *)
(***************************************************************************)
Finite == \A k \in Token : IsFiniteSet(Polled(k)) /\ IsFiniteSet(Queued(k))

One(b) == IF b THEN 1 ELSE 0

LEMMA QueuedAt ==
  \A k, z : z \in Queued(k) <=>
    \E p \in Pollers : \E j \in 1 .. Len(queue[p]) : z = <<p, j>> /\ queue[p][j] = k
BY DEF Queued

LEMMA QueuedAtNext ==
  \A k, z : z \in Queued(k)' <=>
    \E p \in Pollers : \E j \in 1 .. Len(queue'[p]) : z = <<p, j>> /\ queue'[p][j] = k
BY DEF Queued

\* A thread that holds batch B from now on.
LEMMA PolledCount ==
  ASSUME Types, Finite, NEW x \in Threads, NEW B,
         batch' = [batch EXCEPT ![x] = B]
  PROVE  \A k \in Token :
           /\ IsFiniteSet(Polled(k))'
           /\ Cardinality(Polled(k)) \in Nat /\ Cardinality(Polled(k))' \in Nat
           /\ Cardinality(Polled(k))' =
                Cardinality(Polled(k)) + One(k \in B) - One(k \in batch[x])
<1> SUFFICES ASSUME NEW k \in Token
             PROVE  /\ IsFiniteSet(Polled(k)')
                    /\ Cardinality(Polled(k)) \in Nat /\ Cardinality(Polled(k)') \in Nat
                    /\ Cardinality(Polled(k)') =
                         Cardinality(Polled(k)) + One(k \in B) - One(k \in batch[x])
  OBVIOUS
<1>1. IsFiniteSet(Polled(k)) /\ Cardinality(Polled(k)) \in Nat
  BY FS_CardinalityType DEF Finite
<1>2. batch'[x] = B /\ \A y \in Threads : y # x => batch'[y] = batch[y]
  BY DEF Types, DataTypes
<1>3. x \in Polled(k) <=> k \in batch[x]
  BY DEF Polled
<1>4. CASE k \in B
  <2>1. Polled(k)' = Polled(k) \cup {x}
    BY <1>2, <1>4 DEF Polled
  <2> QED
    BY <1>1, <1>3, <1>4, <2>1, FS_AddElement, FS_CardinalityType DEF One
<1>5. CASE k \notin B
  <2>1. Polled(k)' = Polled(k) \ {x}
    BY <1>2, <1>5 DEF Polled
  <2> QED
    BY <1>1, <1>3, <1>5, <2>1, FS_RemoveElement, FS_CardinalityType DEF One
<1> QED
  BY <1>4, <1>5

\* Deposit puts every event of the batch at one more place.
LEMMA DepositCount ==
  ASSUME Types, Finite, NEW p \in Pollers, Deposit(p)
  PROVE  \A k \in Token :
           /\ IsFiniteSet(Queued(k)')
           /\ Cardinality(Queued(k)) \in Nat /\ Cardinality(Queued(k)') \in Nat
           /\ Cardinality(Queued(k)') = Cardinality(Queued(k)) + One(k \in batch[p])
<1> SUFFICES ASSUME NEW k \in Token
             PROVE  /\ IsFiniteSet(Queued(k)')
                    /\ Cardinality(Queued(k)) \in Nat /\ Cardinality(Queued(k)') \in Nat
                    /\ Cardinality(Queued(k)') = Cardinality(Queued(k)) + One(k \in batch[p])
  OBVIOUS
<1>1. IsFiniteSet(Queued(k)) /\ Cardinality(Queued(k)) \in Nat
  BY FS_CardinalityType DEF Finite
<1> DEFINE m == Len(queue[p])
           n == Len(queue'[p])
<1>2. /\ \A u \in Pollers : u # p => queue'[u] = queue[u]
      /\ m \in Nat /\ n \in Nat /\ m <= n
      /\ \A j \in 1 .. m : queue'[p][j] = queue[p][j]
  BY DepositFacts
<1>3. \A j : j \in 1 .. n <=> j \in 1 .. m \/ j \in m + 1 .. n
  BY <1>2
<1>4. \A z : z \in Queued(k)' <=>
        \/ z \in Queued(k)
        \/ \E j \in m + 1 .. n : z = <<p, j>> /\ queue'[p][j] = k
  BY <1>2, <1>3, QueuedAt, QueuedAtNext
<1>5. CASE k \in batch[p]
  <2>1. PICK i \in m + 1 .. n : \A j \in m + 1 .. n : queue'[p][j] = k <=> j = i
    BY <1>5, DepositFacts
  <2>2. Queued(k)' = Queued(k) \cup {<<p, i>>}
    BY <1>4, <2>1
  <2>3. <<p, i>> \notin Queued(k)
    BY <1>2, <2>1, QueuedAt
  <2> QED
    BY <1>1, <1>5, <2>2, <2>3, FS_AddElement, FS_CardinalityType DEF One
<1>6. CASE k \notin batch[p]
  <2>1. \A j \in m + 1 .. n : queue'[p][j] # k
    BY <1>6, DepositFacts
  <2>2. Queued(k)' = Queued(k)
    BY <1>4, <2>1
  <2> QED
    BY <1>1, <1>6, <2>2 DEF One
<1> QED
  BY <1>5, <1>6

\* What a client drains.
Drained(c) ==
  LET q == queue[target[c]]
      n == IF Len(q) < MaxOut THEN Len(q) ELSE MaxOut
  IN  ToSet(SubSeq(q, 1, n))

\* Every event a client drains leaves a place: the places that remain move up.
LEMMA DrainCount ==
  ASSUME Types, TargetHeld, Finite, NEW c \in Clients, Drain(c)
  PROVE  \A k \in Token :
           /\ IsFiniteSet(Queued(k)')
           /\ Cardinality(Queued(k)) \in Nat /\ Cardinality(Queued(k)') \in Nat
           /\ Cardinality(Queued(k)') + One(k \in Drained(c)) <= Cardinality(Queued(k))
           /\ k \notin Drained(c) /\ Queued(k) # {} => Queued(k)' # {}
<1> DEFINE p == target[c]
           q == queue[p]
           n == IF Len(q) < MaxOut THEN Len(q) ELSE MaxOut
<1>0. SUFFICES ASSUME NEW k \in Token
      PROVE  /\ IsFiniteSet(Queued(k)')
             /\ Cardinality(Queued(k)) \in Nat /\ Cardinality(Queued(k)') \in Nat
             /\ Cardinality(Queued(k)') + One(k \in Drained(c)) <= Cardinality(Queued(k))
             /\ k \notin Drained(c) /\ Queued(k) # {} => Queued(k)' # {}
  OBVIOUS
<1>1. IsFiniteSet(Queued(k)) /\ Cardinality(Queued(k)) \in Nat
  BY FS_CardinalityType DEF Finite
<1>2. /\ p \in Pollers
      /\ Len(q) \in Nat /\ n \in 0 .. Len(q)
      /\ \A u \in Pollers : u # p => queue'[u] = queue[u]
      /\ Len(queue'[p]) = Len(q) - n
      /\ \A j \in 1 .. Len(q) - n : queue'[p][j] = q[n + j]
      /\ k \in Drained(c) <=> \E j \in 1 .. n : q[j] = k
  BY DrainFacts DEF Drained
<1> HIDE DEF n, q
<1>3. n \in Nat /\ p \notin Clients
  BY <1>2, EventLoopAssumption
<1>4. \A j \in 1 .. Len(q) - n : n + j \in 1 .. Len(q) /\ j \in Nat
  BY <1>2, <1>3
\* A place after the drain comes from one before it, further back in the queue.
<1> DEFINE from(z) == IF z[1] = p THEN <<p, n + z[2]>> ELSE z
           f == [z \in Queued(k)' |-> from(z)]
<1>5. ASSUME NEW z \in Queued(k)'
      PROVE  /\ from(z) \in Queued(k)
             /\ \A j \in 1 .. n : from(z) # <<p, j>>
             /\ z = <<z[1], z[2]>>
             /\ z[1] = p => z[2] \in Nat
  <2>1. PICK u \in Pollers :
         \E j \in 1 .. Len(queue'[u]) : z = <<u, j>> /\ queue'[u][j] = k
    BY QueuedAtNext
  <2>0. PICK j \in 1 .. Len(queue'[u]) : z = <<u, j>> /\ queue'[u][j] = k
    BY <2>1
  <2>2. CASE u = p
    <3>1. j \in 1 .. Len(q) - n /\ from(z) = <<p, n + j>> /\ q[n + j] = k
      BY <1>2, <2>0, <2>2
    <3>2. \A i \in 1 .. n : n + j # i
      BY <1>3, <1>4, <3>1
    <3> QED
      BY <1>2, <1>4, <2>0, <2>2, <3>1, <3>2, QueuedAt DEF q
  <2>3. CASE u # p
    BY <1>2, <2>0, <2>3, QueuedAt
  <2> QED
    BY <2>2, <2>3
<1>6. ASSUME NEW T, \A z \in Queued(k)' : from(z) \in T
      PROVE  f \in Injection(Queued(k)', T)
  <2>1. f \in [Queued(k)' -> T]
    BY <1>6
  <2>2. ASSUME NEW y \in Queued(k)', NEW z \in Queued(k)', from(y) = from(z)
        PROVE  y = z
    <3>1. y[1] = p <=> z[1] = p
      BY <1>5, <2>2
    <3>2. CASE y[1] = p
      <4>1. n + y[2] = n + z[2] /\ y[2] \in Nat /\ z[2] \in Nat
        BY <1>5, <2>2, <3>1, <3>2
      <4>2. y[2] = z[2]
        BY <1>3, <4>1
      <4>3. y = <<y[1], y[2]>> /\ z = <<z[1], z[2]>>
        BY <1>5, <2>2, Zenon
      <4>4. y[1] = z[1]
        BY <3>1, <3>2, Zenon
      <4> QED
        BY <4>2, <4>3, <4>4, Zenon
    <3>3. CASE y[1] # p
      BY <2>2, <3>1, <3>3
    <3> QED
      BY <3>2, <3>3
  <2> QED
    BY <2>1, <2>2 DEF Injection, IsInjective
<1>7. CASE k \in Drained(c)
  <2>1. PICK i \in 1 .. n : q[i] = k
    BY <1>2, <1>7
  <2> DEFINE T == Queued(k) \ {<<p, i>>}
  <2>2. i \in 1 .. Len(q)
    BY <1>2, <2>1
  <2>3. <<p, i>> \in Queued(k)
    BY <1>2, <2>1, <2>2, QueuedAt DEF q
  <2>4. IsFiniteSet(T) /\ Cardinality(T) = Cardinality(Queued(k)) - 1
    BY <1>1, <2>3, FS_RemoveElement
  <2>5. f \in Injection(Queued(k)', T)
    BY <1>5, <1>6
  <2>6. IsFiniteSet(Queued(k)') /\ Cardinality(Queued(k)') <= Cardinality(T)
    BY <2>4, <2>5, FS_Injection
  <2> QED
    BY <1>1, <1>7, <2>4, <2>6, FS_CardinalityType DEF One
<1>8. CASE k \notin Drained(c)
  <2>1. f \in Injection(Queued(k)', Queued(k))
    BY <1>5, <1>6
  <2>2. IsFiniteSet(Queued(k)') /\ Cardinality(Queued(k)') <= Cardinality(Queued(k))
    BY <1>1, <2>1, FS_Injection
  <2>3. ASSUME NEW z \in Queued(k) PROVE Queued(k)' # {}
    <3>1. PICK u \in Pollers :
           \E j \in 1 .. Len(queue[u]) : z = <<u, j>> /\ queue[u][j] = k
      BY QueuedAt
    <3>0. PICK j \in 1 .. Len(queue[u]) : z = <<u, j>> /\ queue[u][j] = k
      BY <3>1
    <3>2. CASE u = p
      <4>1. j \in 1 .. Len(q) /\ j \notin 1 .. n /\ q[j] = k
        BY <1>2, <1>8, <3>0, <3>2 DEF q
      <4>2. j - n \in 1 .. Len(q) - n /\ n + (j - n) = j
        BY <1>2, <1>3, <4>1
      <4>3. queue'[p][j - n] = k /\ j - n \in 1 .. Len(queue'[p])
        BY <1>2, <4>1, <4>2
      <4> QED
        BY <1>2, <4>3, QueuedAtNext
    <3>3. CASE u # p
      BY <1>2, <3>0, <3>3, QueuedAtNext
    <3> QED
      BY <3>2, <3>3
  <2> QED
    BY <1>1, <1>8, <2>2, <2>3, FS_CardinalityType DEF One
<1> QED
  BY <1>7, <1>8

(***************************************************************************)
(* No wakeup is handed out twice.                                          *)
(***************************************************************************)
\* An event on its way, in terms of One.
LEMMA InFlightSum ==
  ASSUME NEW k
  PROVE  /\ InFlight(k) = Cardinality(Polled(k)) + Cardinality(Queued(k)) + One(k \in edges)
         /\ InFlight(k)' =
              Cardinality(Polled(k)') + Cardinality(Queued(k)') + One(k \in edges')
         /\ One(k \in edges) \in {0, 1} /\ One(k \in edges') \in {0, 1}
BY DEF InFlight, One

LEMMA CountsFacts ==
  ASSUME Types, Finite, NEW k \in Token
  PROVE  /\ IsFiniteSet(Polled(k)) /\ IsFiniteSet(Queued(k))
         /\ Cardinality(Polled(k)) \in Nat /\ Cardinality(Queued(k)) \in Nat
         /\ delivered[k] \in Nat /\ raised[k] \in Nat
BY FS_CardinalityType, EventLoopAssumption DEF Finite, Types, DataTypes

Counted == Finite /\ WakeupsNotDuplicated

LEMMA CountedInit == Init => Counted
<1> SUFFICES ASSUME Init, NEW k \in Token
             PROVE  /\ IsFiniteSet(Polled(k)) /\ IsFiniteSet(Queued(k))
                    /\ delivered[k] + InFlight(k) <= raised[k]
  BY DEF Counted, Finite, WakeupsNotDuplicated
<1>1. Polled(k) = {}
  BY DEF Init, Polled
<1>2. Queued(k) = {}
  BY EmptySeq, QueuedAt DEF Init
<1>3. delivered[k] = 0 /\ raised[k] = 0 /\ k \notin edges
  BY DEF Init
<1> QED
  BY <1>1, <1>2, <1>3, FS_EmptySet DEF InFlight

LEMMA CountedNext == Types /\ Held /\ Counted /\ [Next]_vars => Counted'
<1> SUFFICES ASSUME Types, Held, Counted, [Next]_vars PROVE Counted'
  OBVIOUS
<1>0. /\ Finite /\ BatchHeld /\ TargetHeld
      /\ Clients \subseteq Threads /\ Pollers \subseteq Threads
      /\ batch \in [Threads -> SUBSET Token] /\ edges \subseteq Token
      /\ \A k \in Token : delivered[k] + InFlight(k) <= raised[k]
  BY DEF Counted, Held, Threads, Types, DataTypes, WakeupsNotDuplicated
<1>g. ASSUME \A k \in Token : /\ IsFiniteSet(Polled(k)') /\ IsFiniteSet(Queued(k)')
                              /\ delivered'[k] + InFlight(k)' <= raised'[k]
      PROVE  Counted'
  BY <1>g DEF Counted, Finite, WakeupsNotDuplicated
\* A step that moves no event, or loses some in the kernel.
<1>1. ASSUME UNCHANGED <<batch, queue, raised, delivered>>, edges' \subseteq edges
      PROVE  Counted'
  <2>1. ASSUME NEW k \in Token
        PROVE  /\ IsFiniteSet(Polled(k)') /\ IsFiniteSet(Queued(k)')
               /\ delivered'[k] + InFlight(k)' <= raised'[k]
    <3>1. Polled(k)' = Polled(k) /\ Queued(k)' = Queued(k)
      BY <1>1 DEF Polled, Queued
    <3>2. One(k \in edges') <= One(k \in edges)
      BY <1>1 DEF One
    <3> QED
      BY <1>0, <1>1, <3>1, <3>2, InFlightSum, CountsFacts
  <2> QED
    BY <1>g, <2>1
\* A step of thread x that leaves it with batch B, and the queues alone.
<1>2. ASSUME NEW x \in Threads, NEW B, batch' = [batch EXCEPT ![x] = B],
             UNCHANGED <<queue, raised>>,
             \A k \in Token :
               /\ delivered'[k] \in Nat
               /\ delivered'[k] + One(k \in B) + One(k \in edges')
                    <= delivered[k] + One(k \in batch[x]) + One(k \in edges)
      PROVE  Counted'
  <2>1. ASSUME NEW k \in Token
        PROVE  /\ IsFiniteSet(Polled(k)') /\ IsFiniteSet(Queued(k)')
               /\ delivered'[k] + InFlight(k)' <= raised'[k]
    <3>1. Queued(k)' = Queued(k)
      BY <1>2 DEF Queued
    <3>2. /\ IsFiniteSet(Polled(k)')
          /\ Cardinality(Polled(k)') \in Nat
          /\ Cardinality(Polled(k)') =
               Cardinality(Polled(k)) + One(k \in B) - One(k \in batch[x])
      BY <1>0, <1>2, PolledCount
    <3>3. \A b : One(b) \in {0, 1}
      BY DEF One
    <3>4. delivered[k] + (Cardinality(Polled(k)) + Cardinality(Queued(k))
            + One(k \in edges)) <= raised[k]
      BY <1>0, InFlightSum
    <3>5. delivered'[k] + (Cardinality(Polled(k)') + Cardinality(Queued(k)')
            + One(k \in edges')) <= raised'[k]
      BY <1>0, <1>2, <3>1, <3>2, <3>3, <3>4, CountsFacts
    <3> QED
      BY <1>0, <3>1, <3>2, <3>5, InFlightSum, CountsFacts
  <2> QED
    BY <1>g, <2>1
<1>3. ASSUME NEW x \in Threads, Harvest(x) PROVE Counted'
  <2>1. /\ batch' = [batch EXCEPT ![x] = edges] /\ edges' = {} /\ batch[x] = {}
        /\ UNCHANGED <<queue, raised, delivered>>
    BY <1>0, <1>3 DEF Harvest, BatchHeld
  <2>2. ASSUME NEW k \in Token
        PROVE  /\ delivered'[k] \in Nat
               /\ delivered'[k] + One(k \in edges) + One(k \in edges')
                    <= delivered[k] + One(k \in batch[x]) + One(k \in edges)
    <3>1. One(k \in edges') = 0 /\ One(k \in batch[x]) = 0 /\ One(k \in edges) \in {0, 1}
      BY <2>1 DEF One
    <3> QED
      BY <1>0, <2>1, <3>1, CountsFacts
  <2> QED
    BY <1>2, <2>1, <2>2
<1>4. ASSUME NEW p \in Pollers, PollerExtract(p) PROVE Counted'
  <2>1. /\ batch' = [batch EXCEPT ![p] = Extracted(p)] /\ Extracted(p) \subseteq batch[p]
        /\ UNCHANGED <<queue, raised, delivered, edges>> /\ p \in Threads
    BY <1>0, <1>4 DEF PollerExtract, Extracted, fdVars
  <2>2. ASSUME NEW k \in Token
        PROVE  /\ delivered'[k] \in Nat
               /\ delivered'[k] + One(k \in Extracted(p)) + One(k \in edges')
                    <= delivered[k] + One(k \in batch[p]) + One(k \in edges)
    <3>1. /\ One(k \in Extracted(p)) <= One(k \in batch[p]) /\ One(k \in edges) \in {0, 1}
          /\ One(k \in Extracted(p)) \in {0, 1} /\ One(k \in batch[p]) \in {0, 1}
      BY <2>1 DEF One
    <3> QED
      BY <1>0, <2>1, <3>1, CountsFacts
  <2> QED
    BY <1>2, <2>1, <2>2
<1>5. ASSUME NEW c \in Clients, NEW K \in SUBSET batch[c], ClientExtract(c, K)
      PROVE  Counted'
  <2>1. /\ batch' = [batch EXCEPT ![c] = {}] /\ c \in Threads
        /\ UNCHANGED <<queue, raised, edges>>
        /\ \A k \in Token : delivered'[k] = delivered[k] + One(k \in K)
    BY <1>0, <1>5, CountsFacts DEF ClientExtract, Deliver, One
  <2>2. ASSUME NEW k \in Token
        PROVE  /\ delivered'[k] \in Nat
               /\ delivered'[k] + One(k \in {}) + One(k \in edges')
                    <= delivered[k] + One(k \in batch[c]) + One(k \in edges)
    <3>1. /\ One(k \in K) <= One(k \in batch[c]) /\ One(k \in edges) \in {0, 1}
          /\ One(k \in K) \in {0, 1} /\ One(k \in batch[c]) \in {0, 1} /\ One(k \in {}) = 0
      BY DEF One
    <3> QED
      BY <1>0, <2>1, <3>1, CountsFacts
  <2> QED
    BY <1>2, <2>1, <2>2
<1>6. ASSUME NEW p \in Pollers, Deposit(p) PROVE Counted'
  <2>0. /\ batch' = [batch EXCEPT ![p] = {}] /\ p \in Threads
        /\ UNCHANGED <<raised, delivered, edges>>
    BY <1>0, <1>6 DEF Deposit, fdVars
  <2>1. ASSUME NEW k \in Token
        PROVE  /\ IsFiniteSet(Polled(k)') /\ IsFiniteSet(Queued(k)')
               /\ delivered'[k] + InFlight(k)' <= raised'[k]
    <3>1. /\ IsFiniteSet(Queued(k)') /\ Cardinality(Queued(k)') \in Nat
          /\ Cardinality(Queued(k)') = Cardinality(Queued(k)) + One(k \in batch[p])
      BY <1>0, <1>6, DepositCount
    <3>2. /\ IsFiniteSet(Polled(k)') /\ Cardinality(Polled(k)') \in Nat
          /\ Cardinality(Polled(k)') =
               Cardinality(Polled(k)) + One(k \in {}) - One(k \in batch[p])
      BY <1>0, <2>0, PolledCount
    <3>3. One(k \in {}) = 0 /\ One(k \in batch[p]) \in {0, 1}
      BY DEF One
    <3>4. delivered[k] + (Cardinality(Polled(k)) + Cardinality(Queued(k))
            + One(k \in edges)) <= raised[k]
      BY <1>0, InFlightSum
    <3>5. delivered'[k] + (Cardinality(Polled(k)') + Cardinality(Queued(k)')
            + One(k \in edges')) <= raised'[k]
      BY <1>0, <2>0, <3>1, <3>2, <3>3, <3>4, CountsFacts, InFlightSum
    <3> QED
      BY <3>1, <3>2, <3>5, InFlightSum
  <2> QED
    BY <1>g, <2>1
<1>7. ASSUME NEW c \in Clients, Drain(c) PROVE Counted'
  <2>0. /\ UNCHANGED <<batch, raised, edges>>
        /\ \A k \in Token : delivered'[k] = delivered[k] + One(k \in Drained(c))
    BY <1>0, <1>7, CountsFacts DEF Drain, Deliver, Drained, One
  <2>1. ASSUME NEW k \in Token
        PROVE  /\ IsFiniteSet(Polled(k)') /\ IsFiniteSet(Queued(k)')
               /\ delivered'[k] + InFlight(k)' <= raised'[k]
    <3>1. /\ IsFiniteSet(Queued(k)') /\ Cardinality(Queued(k)') \in Nat
          /\ Cardinality(Queued(k)') + One(k \in Drained(c)) <= Cardinality(Queued(k))
      BY <1>0, <1>7, DrainCount
    <3>2. Polled(k)' = Polled(k)
      BY <2>0 DEF Polled
    <3>3. One(k \in Drained(c)) \in {0, 1}
      BY DEF One
    <3>4. delivered[k] + (Cardinality(Polled(k)) + Cardinality(Queued(k))
            + One(k \in edges)) <= raised[k]
      BY <1>0, InFlightSum
    <3>5. delivered'[k] + (Cardinality(Polled(k)') + Cardinality(Queued(k)')
            + One(k \in edges')) <= raised'[k]
      BY <1>0, <2>0, <3>1, <3>2, <3>3, <3>4, CountsFacts, InFlightSum
    <3> QED
      BY <1>0, <3>1, <3>2, <3>5, InFlightSum, CountsFacts
  <2> QED
    BY <1>g, <2>1
<1>8. ASSUME NEW e \in Token, BecomeReady(e) PROVE Counted'
  <2>0. /\ UNCHANGED <<batch, queue, delivered>> /\ edges' = edges \cup {e}
        /\ raised' = [raised EXCEPT ![e] = @ + 1]
        /\ raised \in [Token -> 0 .. MaxEdges]
    BY <1>8 DEF BecomeReady, clientVars, Types, DataTypes
  <2>1. ASSUME NEW k \in Token
        PROVE  /\ IsFiniteSet(Polled(k)') /\ IsFiniteSet(Queued(k)')
               /\ delivered'[k] + InFlight(k)' <= raised'[k]
    <3>1. Polled(k)' = Polled(k) /\ Queued(k)' = Queued(k)
      BY <2>0 DEF Polled, Queued
    <3>2. raised'[k] = raised[k] + One(k = e)
      BY <2>0, CountsFacts, <1>0 DEF One
    <3>3. /\ One(k \in edges') <= One(k \in edges) + One(k = e)
          /\ One(k \in edges) \in {0, 1} /\ One(k = e) \in {0, 1}
          /\ One(k \in edges') \in {0, 1}
      BY <2>0 DEF One
    <3>4. delivered[k] + (Cardinality(Polled(k)) + Cardinality(Queued(k))
            + One(k \in edges)) <= raised[k]
      BY <1>0, InFlightSum
    <3>5. delivered'[k] + (Cardinality(Polled(k)') + Cardinality(Queued(k)')
            + One(k \in edges')) <= raised'[k]
      BY <1>0, <2>0, <3>1, <3>2, <3>3, <3>4, CountsFacts
    <3> QED
      BY <1>0, <3>1, <3>5, InFlightSum, CountsFacts
  <2> QED
    BY <1>g, <2>1
<1>9. CASE UNCHANGED vars
  BY <1>1, <1>9 DEF vars
<1>10. ASSUME NEW p \in Pollers, PollerStep(p) PROVE Counted'
  <2>1. CASE CheckShutdown(p) \/ LockPoll(p) \/ NotifyDeposit(p)
    BY <1>1, <2>1 DEF CheckShutdown, LockPoll, NotifyDeposit, fdVars
  <2> QED
    BY <1>0, <1>3, <1>4, <1>6, <1>10, <2>1 DEF PollerStep
<1>11. ASSUME NEW c \in Clients, ClientStep(c) PROVE Counted'
  <2>1. CASE \/ LockPoll(c) \/ WaitForWakeup(c) \/ TimeOut(c) \/ SetShutdown(c)
             \/ WakeLoop(c) \/ NotifyShutdown(c) \/ Join(c) \/ DrainWaker(c)
    BY <1>1, <2>1 DEF LockPoll, WaitForWakeup, TimeOut, SetShutdown, WakeLoop,
                      NotifyShutdown, Join, DrainWaker, fdVars
  <2> QED
    BY <1>0, <1>3, <1>5, <1>7, <1>11, <2>1 DEF ClientStep
<1>12. ASSUME NEW c \in Clients, Call(c) \/ SpuriousWake(c) PROVE Counted'
  BY <1>1, <1>12
  DEF Call, Register, Deregister, StartPoller, BeginTake, BeginShutdown, BeginPoll,
      SpuriousWake, fdVars
<1>13. ASSUME NEW x \in Threads, PollNothing(x) PROVE Counted'
  BY <1>1, <1>13 DEF PollNothing, fdVars
<1> QED
  BY <1>8, <1>9, <1>10, <1>11, <1>12, <1>13 DEF Next

\* A task is resumed at most once per readiness of its fd: what clients have been
\* handed and what is on its way are together no more than the events there were
\* (run_once, poller_thread_main, take_wakeups and the direct poll together).
THEOREM WakeupsOnce == Spec => []WakeupsNotDuplicated
<1>1. Spec => []Counted
  BY HeldInvariant, CountedInit, CountedNext, PTL DEF Spec
<1> QED
  BY <1>1, PTL DEF Counted

(***************************************************************************)
(* No wakeup is lost before a shutdown.                                    *)
(***************************************************************************)
\* Only the direct poll brings a client into run_once.
PollsDirect == \A c \in Clients : pc[c] \in InPoll => DirectPolls

LEMMA PollsDirectInit == Init => PollsDirect
BY DEF Init, PollsDirect, Threads, InPoll

LEMMA PollsDirectNext == Types /\ TargetHeld /\ PollsDirect /\ [Next]_vars => PollsDirect'
<1> SUFFICES ASSUME Types, TargetHeld, PollsDirect, [Next]_vars PROVE PollsDirect'
  OBVIOUS
<1>0. /\ Clients \subseteq Threads /\ Pollers \subseteq Threads
      /\ \A c \in Clients : c \notin Pollers
      /\ pc \in [Threads -> ClientPc \cup PollerPc]
  BY EventLoopAssumption DEF Threads, Types, PcTypes
<1>1. CASE UNCHANGED pc
  BY <1>1 DEF PollsDirect
<1>2. ASSUME NEW x \in Threads, NEW label, Goto(x, label),
             x \in Clients /\ label \in InPoll => DirectPolls
      PROVE  PollsDirect'
  BY <1>0, <1>2 DEF PollsDirect, Goto
<1>3. ASSUME NEW x \in Threads, NEW p, NEW label, NotifyTakers(x, p, label),
             label \notin InPoll
      PROVE  PollsDirect'
  <2>1. "woken" \notin InPoll
    BY DEF InPoll
  <2> QED
    BY <1>0, <1>3, <2>1 DEF PollsDirect, NotifyTakers
<1>4. ASSUME NEW p \in Pollers, PollerStep(p) PROVE PollsDirect'
  <2>1. NotifyDeposit(p) \/ \E label : Goto(p, label)
    BY <1>4 DEF PollerStep, CheckShutdown, LockPoll, Harvest, PollerExtract, Deposit
  <2>2. CASE NotifyDeposit(p)
    BY <1>0, <1>3, <2>2 DEF NotifyDeposit, InPoll
  <2> QED
    BY <1>0, <1>2, <2>1, <2>2
<1>5. ASSUME NEW c \in Clients, ClientStep(c) \/ SpuriousWake(c) PROVE PollsDirect'
  <2>1. CASE NotifyShutdown(c)
    BY <1>0, <1>3, <2>1 DEF NotifyShutdown, InPoll
  <2>2. \/ NotifyShutdown(c)
        \/ \E label : Goto(c, label) /\ (label \in InPoll => pc[c] \in InPoll)
    BY <1>5
    DEF ClientStep, LockPoll, Harvest, ClientExtract, WaitForWakeup, TimeOut, Drain,
        SetShutdown, WakeLoop, Join, DrainWaker, SpuriousWake, InPoll
  <2> QED
    BY <1>0, <1>2, <2>1, <2>2 DEF PollsDirect
<1>6. ASSUME NEW c \in Clients, Call(c) PROVE PollsDirect'
  <2>1. \/ UNCHANGED pc
        \/ \E x \in Threads : \E label :
             Goto(x, label) /\ (x \in Clients /\ label \in InPoll => DirectPolls)
    BY <1>0, <1>6
    DEF Call, Register, Deregister, StartPoller, BeginTake, BeginShutdown, BeginPoll, InPoll
  <2> QED
    BY <1>1, <1>2, <2>1
<1>7. ASSUME NEW x \in Threads, PollNothing(x) PROVE PollsDirect'
  BY <1>2, <1>7 DEF PollNothing, InPoll
<1>8. ASSUME NEW k, BecomeReady(k) PROVE PollsDirect'
  BY <1>1, <1>8 DEF BecomeReady
<1> QED
  BY <1>1, <1>4, <1>5, <1>6, <1>7, <1>8 DEF Next, vars

\* A poller whose shutdown has begun never returns to the slot.
LEMMA RetiredStays ==
  ASSUME Types, TargetHeld, [Next]_vars, NEW p \in Pollers, Retired(p)
  PROVE  Retired(p)'
<1>0. /\ Clients \subseteq Threads /\ Pollers \subseteq Threads
      /\ \A c \in Clients : c \notin Pollers
      /\ pc \in [Threads -> ClientPc \cup PollerPc] /\ NoPoller \notin Pollers
      /\ pc[p] # "unborn" /\ slot # p
  BY EventLoopAssumption DEF Threads, Types, PcTypes, Retired
<1>1. ASSUME NEW x \in Threads, NEW label, Goto(x, label), label # "unborn"
      PROVE  pc'[p] # "unborn"
  BY <1>0, <1>1 DEF Goto
<1>2. ASSUME NEW x \in Threads, NEW q, NEW label, NotifyTakers(x, q, label),
             label # "unborn"
      PROVE  pc'[p] # "unborn"
  BY <1>0, <1>2 DEF NotifyTakers
<1>3. pc'[p] # "unborn"
  <2>1. CASE UNCHANGED pc
    BY <1>0, <2>1
  <2>2. ASSUME NEW q \in Pollers, PollerStep(q) PROVE pc'[p] # "unborn"
    BY <1>0, <1>1, <1>2, <2>2
    DEF PollerStep, CheckShutdown, LockPoll, Harvest, PollerExtract, Deposit, NotifyDeposit
  <2>3. ASSUME NEW c \in Clients, ClientStep(c) \/ SpuriousWake(c) PROVE pc'[p] # "unborn"
    BY <1>0, <1>1, <1>2, <2>3
    DEF ClientStep, LockPoll, Harvest, ClientExtract, WaitForWakeup, TimeOut, Drain,
        SetShutdown, WakeLoop, NotifyShutdown, Join, DrainWaker, SpuriousWake
  <2>4. ASSUME NEW c \in Clients, Call(c) PROVE pc'[p] # "unborn"
    BY <1>0, <1>1, <2>1, <2>4
    DEF Call, Register, Deregister, StartPoller, BeginTake, BeginShutdown, BeginPoll
  <2>5. ASSUME NEW x \in Threads, PollNothing(x) PROVE pc'[p] # "unborn"
    BY <1>1, <2>5 DEF PollNothing
  <2>6. ASSUME NEW k, BecomeReady(k) PROVE pc'[p] # "unborn"
    BY <2>1, <2>6 DEF BecomeReady
  <2> QED
    BY <2>1, <2>2, <2>3, <2>4, <2>5, <2>6 DEF Next, vars
<1>4. slot' # p
  <2>1. CASE UNCHANGED slot
    BY <1>0, <2>1
  <2>2. ASSUME NEW c \in Clients, Call(c) PROVE slot' # p
    BY <1>0, <2>2
    DEF Call, Register, Deregister, StartPoller, BeginTake, BeginShutdown, BeginPoll
  <2>3. \/ UNCHANGED slot
        \/ \E c \in Clients : Call(c)
    <3>1. ASSUME NEW q \in Pollers, PollerStep(q) PROVE UNCHANGED slot
      BY <3>1
      DEF PollerStep, CheckShutdown, LockPoll, Harvest, PollerExtract, Deposit, NotifyDeposit
    <3>2. ASSUME NEW c \in Clients, ClientStep(c) \/ SpuriousWake(c) PROVE UNCHANGED slot
      BY <3>2
      DEF ClientStep, LockPoll, Harvest, ClientExtract, WaitForWakeup, TimeOut, Drain,
          SetShutdown, WakeLoop, NotifyShutdown, Join, DrainWaker, SpuriousWake
    <3>3. ASSUME NEW x, PollNothing(x) PROVE UNCHANGED slot
      BY <3>3 DEF PollNothing
    <3>4. ASSUME NEW k, BecomeReady(k) PROVE UNCHANGED slot
      BY <3>4 DEF BecomeReady
    <3> QED
      BY <3>1, <3>2, <3>3, <3>4 DEF Next, vars
  <2> QED
    BY <2>1, <2>2, <2>3
<1> QED
  BY <1>3, <1>4 DEF Retired

\* What is owed to clients is somewhere on its way.
Present(k) == k \in edges \/ Polled(k) # {} \/ Queued(k) # {}

NoneRetired == \A p \in Pollers : ~ Retired(p)

OwedPresent == BuffersSuffice /\ NoneRetired => \A k \in owed : Present(k)

\* A direct poll that has room for every registration drops nothing.
LEMMA RoomForAll ==
  ASSUME Types, NEW c \in Clients, NEW K \in SUBSET batch[c], ClientExtract(c, K),
         MaxTokens <= MaxOut
  PROVE  K = Extracted(c)
<1>1. Extracted(c) \subseteq Token /\ K \subseteq Extracted(c)
  BY DEF Types, DataTypes, Extracted, ClientExtract
<1>2. IsFiniteSet(Token) /\ Cardinality(Token) = MaxTokens
  <2>1. MaxTokens \in Int /\ 1 \in Int /\ MaxTokens - 1 + 1 = MaxTokens /\ MaxTokens >= 0
    BY EventLoopAssumption
  <2> QED
    BY <2>1, FS_Interval DEF Token
<1>3. /\ IsFiniteSet(Extracted(c))
      /\ Cardinality(Extracted(c)) \in Nat /\ Cardinality(Extracted(c)) <= MaxTokens
  BY <1>1, <1>2, FS_Subset, FS_CardinalityType
<1>4. /\ Cardinality(K) \in Nat /\ Cardinality(K) <= Cardinality(Extracted(c))
      /\ Cardinality(K) = Cardinality(Extracted(c)) => K = Extracted(c)
  BY <1>1, <1>3, FS_Subset, FS_CardinalityType
<1>5. Cardinality(K) = MaxOut \/ K = Extracted(c)
  BY DEF ClientExtract
<1> QED
  BY <1>3, <1>4, <1>5, EventLoopAssumption

LEMMA OwedPresentNext ==
  Types /\ Held /\ Counted /\ PollsDirect /\ OwedPresent /\ [Next]_vars => OwedPresent'
<1> SUFFICES ASSUME Types, Held, Counted, PollsDirect, OwedPresent, [Next]_vars,
                    BuffersSuffice, NoneRetired', NEW k \in owed'
             PROVE  Present(k)'
  BY DEF OwedPresent, BuffersSuffice
<1>0. /\ Finite /\ BatchHeld /\ TargetHeld
      /\ Clients \subseteq Threads /\ Pollers \subseteq Threads
      /\ batch \in [Threads -> SUBSET Token] /\ owed \subseteq registered
      /\ queue \in [Pollers -> Seq(Token)]
  BY DEF Counted, Held, Threads, Types, DataTypes
<1>1. NoneRetired
  BY <1>0, RetiredStays DEF NoneRetired
<1>2. \A j \in owed : Present(j)
  BY <1>1 DEF OwedPresent
\* Steps that move no event.
<1>3. ASSUME UNCHANGED <<batch, queue>>, k \in owed, k \in edges => k \in edges'
      PROVE  Present(k)'
  BY <1>2, <1>3 DEF Present, Polled, Queued
<1>4. ASSUME NEW x \in Threads, Harvest(x) PROVE Present(k)'
  <2>1. /\ k \in owed /\ batch'[x] = edges /\ batch[x] = {} /\ queue' = queue
        /\ \A y \in Threads : y # x => batch'[y] = batch[y]
    BY <1>0, <1>4 DEF Harvest, BatchHeld
  <2>2. CASE k \in edges
    BY <2>1, <2>2 DEF Present, Polled
  <2>3. CASE k \notin edges
    BY <1>2, <2>1, <2>3 DEF Present, Polled, Queued
  <2> QED
    BY <2>2, <2>3
\* Thread x keeps at least the events of registered fds.
<1>5. ASSUME NEW x \in Threads, k \in owed, UNCHANGED <<queue, edges>>,
             k \in batch[x] => k \in batch'[x],
             \A y \in Threads : y # x => batch'[y] = batch[y]
      PROVE  Present(k)'
  BY <1>2, <1>5 DEF Present, Polled, Queued
<1>6. ASSUME NEW p \in Pollers, PollerExtract(p) PROVE Present(k)'
  <2>1. /\ k \in owed /\ k \in registered /\ UNCHANGED <<queue, edges>>
        /\ batch'[p] = Extracted(p) /\ \A y \in Threads : y # p => batch'[y] = batch[y]
    BY <1>0, <1>6 DEF PollerExtract, fdVars
  <2> QED
    BY <1>0, <1>5, <2>1 DEF Extracted
<1>7. ASSUME NEW c \in Clients, NEW K \in SUBSET batch[c], ClientExtract(c, K)
      PROVE  Present(k)'
  <2>1. /\ k \in owed /\ k \in registered /\ k \notin K /\ UNCHANGED <<queue, edges>>
        /\ c \in Threads /\ \A y \in Threads : y # c => batch'[y] = batch[y]
    BY <1>0, <1>7 DEF ClientExtract, Deliver
  <2>2. MaxTokens <= MaxOut
    BY <1>7 DEF ClientExtract, PollsDirect, InPoll, BuffersSuffice
  <2>3. k \notin batch[c]
    BY <1>7, <2>1, <2>2, RoomForAll DEF Extracted
  <2> QED
    BY <1>5, <2>1, <2>3
<1>8. ASSUME NEW p \in Pollers, Deposit(p) PROVE Present(k)'
  <2>1. /\ k \in owed /\ edges' = edges /\ p \in Threads
        /\ \A y \in Threads : y # p => batch'[y] = batch[y]
    BY <1>0, <1>8 DEF Deposit, fdVars
  <2>2. /\ \A u \in Pollers : u # p => queue'[u] = queue[u]
        /\ Len(queue[p]) \in Nat /\ Len(queue'[p]) \in Nat
        /\ Len(queue[p]) <= Len(queue'[p])
        /\ \A j \in 1 .. Len(queue[p]) : queue'[p][j] = queue[p][j]
        /\ k \in batch[p] => \E i \in Len(queue[p]) + 1 .. Len(queue'[p]) : queue'[p][i] = k
    BY <1>0, <1>8, DepositFacts
  <2>3. CASE k \in batch[p]
    <3>1. PICK i \in Len(queue[p]) + 1 .. Len(queue'[p]) : queue'[p][i] = k
      BY <2>2, <2>3
    <3>2. i \in 1 .. Len(queue'[p])
      BY <2>2, <3>1
    <3>3. <<p, i>> \in Queued(k)'
      BY <3>1, <3>2, QueuedAtNext
    <3> QED
      BY <3>3 DEF Present
  <2>4. CASE Queued(k) # {}
    <3>1. PICK u \in Pollers : \E j \in 1 .. Len(queue[u]) : queue[u][j] = k
      BY <2>4, QueuedAt
    <3>2. PICK j \in 1 .. Len(queue[u]) : queue[u][j] = k
      BY <3>1
    <3>3. j \in 1 .. Len(queue'[u]) /\ queue'[u][j] = k
      BY <2>2, <3>2
    <3>4. <<u, j>> \in Queued(k)'
      BY <3>3, QueuedAtNext
    <3> QED
      BY <3>4 DEF Present
  <2>5. CASE k \in edges
    BY <2>1, <2>5 DEF Present
  <2>6. CASE \E y \in Threads : y # p /\ k \in batch[y]
    BY <2>1, <2>6 DEF Present, Polled
  <2> QED
    BY <1>2, <2>1, <2>3, <2>4, <2>5, <2>6 DEF Present, Polled
<1>9. ASSUME NEW c \in Clients, Drain(c) PROVE Present(k)'
  <2>1. k \in owed /\ k \notin Drained(c) /\ UNCHANGED <<batch, edges>>
    BY <1>9 DEF Drain, Deliver, Drained
  <2>2. k \in Token
    BY <1>0, <2>1 DEF Types, DataTypes
  <2>3. Queued(k) # {} => Queued(k)' # {}
    BY <1>0, <1>9, <2>1, <2>2, DrainCount
  <2> QED
    BY <1>2, <2>1, <2>3 DEF Present, Polled
<1>10. ASSUME NEW e, BecomeReady(e) PROVE Present(k)'
  BY <1>2, <1>10 DEF BecomeReady, clientVars, Present, Polled, Queued
<1>11. ASSUME NEW c \in Clients, DrainWaker(c) PROVE FALSE
  BY <1>1, <1>0, <1>11 DEF DrainWaker, TargetHeld, InShutdown, NoneRetired
<1>12. CASE UNCHANGED vars
  BY <1>3, <1>12 DEF vars
<1>13. ASSUME NEW p \in Pollers, PollerStep(p) PROVE Present(k)'
  <2>1. CASE CheckShutdown(p) \/ LockPoll(p) \/ NotifyDeposit(p)
    BY <1>3, <2>1 DEF CheckShutdown, LockPoll, NotifyDeposit, fdVars
  <2> QED
    BY <1>0, <1>4, <1>6, <1>8, <1>13, <2>1 DEF PollerStep
<1>14. ASSUME NEW c \in Clients, ClientStep(c) PROVE Present(k)'
  <2>1. CASE \/ LockPoll(c) \/ WaitForWakeup(c) \/ TimeOut(c) \/ SetShutdown(c)
             \/ WakeLoop(c) \/ NotifyShutdown(c) \/ Join(c)
    BY <1>3, <2>1 DEF LockPoll, WaitForWakeup, TimeOut, SetShutdown, WakeLoop,
                      NotifyShutdown, Join, fdVars
  <2> QED
    BY <1>0, <1>4, <1>7, <1>9, <1>11, <1>14, <2>1 DEF ClientStep
<1>15. ASSUME NEW c \in Clients, Call(c) \/ SpuriousWake(c) PROVE Present(k)'
  BY <1>3, <1>15
  DEF Call, Register, Deregister, StartPoller, BeginTake, BeginShutdown, BeginPoll,
      SpuriousWake, fdVars
<1>16. ASSUME NEW x \in Threads, PollNothing(x) PROVE Present(k)'
  BY <1>3, <1>16 DEF PollNothing, fdVars
<1> QED
  BY <1>10, <1>12, <1>13, <1>14, <1>15, <1>16 DEF Next

LEMMA PresentInFlight ==
  ASSUME Types, Finite, NEW k \in Token, Present(k)
  PROVE  InFlight(k) > 0
<1>1. /\ IsFiniteSet(Polled(k)) /\ IsFiniteSet(Queued(k))
      /\ Cardinality(Polled(k)) \in Nat /\ Cardinality(Queued(k)) \in Nat
  BY CountsFacts
<1>2. /\ Polled(k) # {} => Cardinality(Polled(k)) # 0
      /\ Queued(k) # {} => Cardinality(Queued(k)) # 0
  BY <1>1, FS_EmptySet
<1> QED
  BY <1>1, <1>2 DEF Present, InFlight

\* Until a shutdown, and while buffers hold every registration, the event of a
\* registered fd stays in the kernel, in a batch or in a queue until some client is
\* handed it (poller_thread_main, take_wakeups and the direct poll together).
THEOREM WakeupsKept == Spec => []NoWakeupLost
<1>1. Init => OwedPresent
  BY DEF Init, OwedPresent
<1>2. Spec => [](Types /\ Held /\ Counted /\ PollsDirect /\ OwedPresent)
  <2>1. Types /\ Held /\ Counted /\ PollsDirect /\ OwedPresent /\ [Next]_vars
          => (Counted /\ PollsDirect /\ OwedPresent)'
    BY CountedNext, PollsDirectNext, OwedPresentNext DEF Held
  <2> QED
    BY <1>1, <2>1, HeldInvariant, CountedInit, PollsDirectInit, PTL DEF Spec
<1>3. Types /\ Counted /\ OwedPresent => NoWakeupLost
  <2>1. Types => owed \subseteq Token
    BY DEF Types, DataTypes
  <2> QED
    BY <2>1, PresentInFlight DEF Counted, OwedPresent, NoneRetired, NoWakeupLost
<1> QED
  BY <1>2, <1>3, PTL
-----------------------------------------------------------------------------
(***************************************************************************)
(* Theorems about Dispatcher for every number of users, dispatchers,       *)
(* pollers and fds: the event loop keeps its properties when dispatchers   *)
(* consume its wakeups, and a wakeup is kept on all the way from the       *)
(* kernel to the poll function of its task.                                *)
(***************************************************************************)

allVars == <<vars, dispatcherVars>>

(***************************************************************************)
(* Each step is a step of the event loop, or changes nothing of it.        *)
(***************************************************************************)
LEMMA LoopStep ==
  ASSUME [DispatcherNext]_allVars
  PROVE  [Next]_vars
<1>0. Dispatchers \subseteq Clients /\ Users \subseteq Clients /\ "timed" \in TakeMode
  BY DispatcherAssumption DEF Users, TakeMode
<1>1. CASE UNCHANGED allVars
  BY <1>1 DEF allVars
<1>2. ASSUME NEW d \in Dispatchers, DispatcherStep(d) PROVE [Next]_vars
  <2>1. CASE CheckStop(d) \/ Dispatch(d)
    BY <2>1 DEF CheckStop, Dispatch
  <2>2. CASE Take(d)
    <3>1. UNCHANGED vars \/ BeginTake(d, "timed")
      BY <2>2 DEF Take
    <3> QED
      BY <1>0, <3>1 DEF Next, Call
  <2>3. CASE Wait(d)
    BY <1>0, <2>3 DEF Wait, Next, ClientStep
  <2>4. CASE Taken(d)
    BY <1>0, <2>4 DEF Taken, Next, ClientStep
  <2> QED
    BY <1>2, <2>1, <2>2, <2>3, <2>4 DEF DispatcherStep
<1>3. ASSUME NEW c \in Users, UserStep(c) PROVE [Next]_vars
  <2>1. ClientStep(c) \/ UNCHANGED vars
    BY <1>3 DEF UserStep, SetStop, JoinDispatcher
  <2> QED
    BY <1>0, <2>1 DEF Next
<1>4. ASSUME NEW c \in Users, UserCall(c) PROVE [Next]_vars
  <2>1. \/ \E accepted \in BOOLEAN : Register(c, accepted)
        \/ \E p \in Pollers : StartPoller(c, p)
        \/ BeginShutdown(c)
        \/ \E k \in registered : Deregister(c, k)
        \/ UNCHANGED vars
    BY <1>4 DEF UserCall, StartDispatcher, BeginStop
  <2> QED
    BY <1>0, <2>1 DEF Next, Call
<1>5. CASE \/ \E p \in Pollers : PollerStep(p)
           \/ \E x \in Clients : SpuriousWake(x)
           \/ \E x \in Threads : PollNothing(x)
           \/ \E k \in Token : BecomeReady(k)
  BY <1>5 DEF Next
<1> QED
  BY <1>1, <1>2, <1>3, <1>4, <1>5 DEF DispatcherNext

\* Every behaviour with dispatchers is a behaviour of the event loop, so that
\* its theorems hold for programs that use the scheduler (start_dispatcher and
\* dispatcher_thread_main call nothing but the loop's own functions).
THEOREM LoopUnderDispatcher == DispatcherSpec => Spec
<1>1. DispatcherInit => Init
  BY DEF DispatcherInit
<1>2. [DispatcherNext]_<<vars, dispatcherVars>> => [Next]_vars
  BY LoopStep DEF allVars
<1> QED
  BY <1>1, <1>2, PTL DEF DispatcherSpec, Spec

(***************************************************************************)
(* Where users and dispatchers can be.                                     *)
(***************************************************************************)
UserTask == {"idle", "flag", "join"}
DispatcherTask == {"unborn", "exited", "check", "take", "taking", "dispatch"}

TaskTypes ==
  /\ running \in Dispatchers \cup {NoDispatcher}
  /\ stopping \in [Dispatchers -> BOOLEAN]
  /\ taken \in [Dispatchers -> Seq(Token)]
  /\ task \in [Clients -> UserTask \cup DispatcherTask]
  /\ \A c \in Users : task[c] \in UserTask

\* Users take no wakeups and do not poll; dispatchers do nothing but take them.
Roles ==
  /\ \A c \in Users : pc[c] \in {"ready"} \cup InShutdown
  /\ \A d \in Dispatchers : pc[d] \in {"ready"} \cup InTake

\* A dispatcher holds wakeups in the loop over them only, and leaves only when
\* it is told to.
Emptied ==
  \A d \in Dispatchers : /\ taken[d] # <<>> => task[d] = "dispatch"
                         /\ task[d] = "exited" => stopping[d]

Placed == TaskTypes /\ Roles /\ Emptied

LEMMA PlacedInit == DispatcherInit => Placed
<1> SUFFICES ASSUME DispatcherInit PROVE Placed
  OBVIOUS
<1>1. \A x \in Clients : pc[x] = "ready"
  BY DEF DispatcherInit, Init, Threads
<1>2. Roles
  BY <1>1, DispatcherAssumption DEF Roles, Users
<1>3. TaskTypes
  <2>1. <<>> \in Seq(Token)
    BY EmptySeq
  <2> QED
    BY <2>1 DEF TaskTypes, DispatcherInit, UserTask, DispatcherTask, Users
<1>4. Emptied
  BY DispatcherAssumption DEF Emptied, DispatcherInit
<1> QED
  BY <1>2, <1>3, <1>4 DEF Placed

\* A step of thread x to label, which may wake takers, keeps all in their roles.
LEMMA RolesKept ==
  ASSUME Roles, NEW x, NEW label,
         x \in Users => label \in {"ready"} \cup InShutdown,
         x \in Dispatchers => label \in {"ready"} \cup InTake,
         \A y \in Clients : \/ pc'[y] = pc[y]
                            \/ y = x /\ pc'[y] = label
                            \/ pc[y] = "waiting" /\ pc'[y] = "woken"
  PROVE  Roles'
<1>1. Users \subseteq Clients /\ Dispatchers \subseteq Clients
  BY DispatcherAssumption DEF Users
<1>2. "waiting" \notin {"ready"} \cup InShutdown /\ "woken" \in InTake
  BY DEF InShutdown, InTake
<1> QED
  BY <1>1, <1>2 DEF Roles

\* Where a step of the event loop leaves the clients, when they keep to their
\* roles: the steps of direct polls are not taken, and users drain nothing.
LEMMA RolesGoto ==
  ASSUME Types, Roles, NEW x \in Threads, NEW label, Goto(x, label),
         x \in Users => label \in {"ready"} \cup InShutdown,
         x \in Dispatchers => label \in {"ready"} \cup InTake
  PROVE  Roles'
<1>1. pc' = [pc EXCEPT ![x] = label] /\ DOMAIN pc = Threads
  BY DEF Goto, Types, PcTypes
<1>2. \A y \in Clients : pc'[y] = pc[y] \/ (y = x /\ pc'[y] = label)
  BY <1>1 DEF Threads
<1> QED
  BY <1>2, RolesKept

LEMMA RolesNotify ==
  ASSUME Types, Roles, NEW x \in Threads, NEW p, NEW label, NotifyTakers(x, p, label),
         x \in Users => label \in {"ready"} \cup InShutdown,
         x \in Dispatchers => label \in {"ready"} \cup InTake
  PROVE  Roles'
<1>1. \A y \in Clients : \/ pc'[y] = pc[y]
                         \/ y = x /\ pc'[y] = label
                         \/ pc[y] = "waiting" /\ pc'[y] = "woken"
  BY DEF NotifyTakers, Threads
<1> QED
  BY <1>1, RolesKept

LEMMA RolesNext ==
  ASSUME Types, Held, Placed, [DispatcherNext]_allVars
  PROVE  Roles'
<1>0. /\ Roles /\ Dispatchers \subseteq Clients /\ Users \subseteq Clients
      /\ Clients \subseteq Threads /\ Pollers \subseteq Threads
      /\ \A c \in Clients : c \notin Pollers /\ (c \in Users <=> c \notin Dispatchers)
      /\ "check" \notin {"ready"} \cup InShutdown
  BY DispatcherAssumption, EventLoopAssumption DEF Placed, Users, Threads, InShutdown
<1>1. CASE UNCHANGED pc
  BY <1>0, <1>1 DEF Roles
<1>2. ASSUME NEW d \in Dispatchers, DispatcherStep(d) PROVE Roles'
  <2>1. CASE UNCHANGED vars
    BY <1>1, <2>1 DEF vars
  <2>2. CASE ~ UNCHANGED vars
    <3>1. \/ Goto(d, "take") \/ Goto(d, "waiting") \/ Goto(d, "woken") \/ Goto(d, "ready")
      BY <1>2, <2>2 DEF DispatcherStep, CheckStop, Take, BeginTake, Wait, WaitForWakeup,
         TimeOut, Taken, Drain, Dispatch
    <3>2. {"take", "waiting", "woken", "ready"} \subseteq {"ready"} \cup InTake
      BY DEF InTake
    <3> QED
      BY <1>0, <3>1, <3>2, RolesGoto
  <2> QED
    BY <2>1, <2>2
<1>3. ASSUME NEW c \in Users, UserStep(c) PROVE Roles'
  <2>1. CASE UNCHANGED vars
    BY <1>1, <2>1 DEF vars
  <2>2. CASE ClientStep(c)
    <3>1. pc[c] \in {"ready"} \cup InShutdown
      BY <1>0 DEF Roles
    <3>2. \/ SetShutdown(c) \/ WakeLoop(c) \/ NotifyShutdown(c) \/ Join(c) \/ DrainWaker(c)
      BY <2>2, <3>1 DEF ClientStep, LockPoll, Harvest, ClientExtract, WaitForWakeup,
         TimeOut, Drain, InShutdown
    <3>3. \/ Goto(c, "wake") \/ Goto(c, "signal") \/ Goto(c, "drain") \/ Goto(c, "ready")
          \/ NotifyTakers(c, target[c], "join")
      BY <3>2 DEF SetShutdown, WakeLoop, NotifyShutdown, Join, DrainWaker
    <3>4. {"wake", "signal", "drain", "join", "ready"} \subseteq {"ready"} \cup InShutdown
      BY DEF InShutdown
    <3> QED
      BY <1>0, <3>3, <3>4, RolesGoto, RolesNotify
  <2> QED
    BY <1>3, <2>1, <2>2 DEF UserStep, SetStop, JoinDispatcher
<1>4. ASSUME NEW c \in Users, UserCall(c) PROVE Roles'
  <2>1. \/ UNCHANGED pc \/ Goto(c, "flag") \/ \E p \in Pollers : Goto(p, "check")
    BY <1>4 DEF UserCall, StartDispatcher, BeginStop, Register, Deregister, StartPoller,
       BeginShutdown, vars
  <2>2. "flag" \in InShutdown
    BY DEF InShutdown
  <2> QED
    BY <1>0, <1>1, <2>1, <2>2, RolesGoto
<1>5. ASSUME NEW p \in Pollers, PollerStep(p) PROVE Roles'
  <2>1. (\E label : Goto(p, label)) \/ NotifyTakers(p, p, "check")
    BY <1>5 DEF PollerStep, CheckShutdown, LockPoll, Harvest, PollerExtract, Deposit,
       NotifyDeposit
  <2> QED
    BY <1>0, <2>1, RolesGoto, RolesNotify
<1>6. ASSUME NEW x \in Clients, SpuriousWake(x) PROVE Roles'
  <2>1. pc[x] = "waiting" /\ Goto(x, "woken")
    BY <1>6 DEF SpuriousWake
  <2>2. "waiting" \notin {"ready"} \cup InShutdown /\ "woken" \in InTake
    BY DEF InShutdown, InTake
  <2> QED
    BY <1>0, <2>1, <2>2, RolesGoto DEF Roles
<1>7. ASSUME NEW x \in Threads, PollNothing(x) PROVE Roles'
  <2>1. pc[x] = "poll" /\ \E label : Goto(x, label)
    BY <1>7 DEF PollNothing
  <2>2. x \notin Clients
    BY <1>0, <2>1 DEF Roles, InShutdown, InTake
  <2> QED
    BY <1>0, <2>1, <2>2, RolesGoto
<1>8. ASSUME NEW k \in Token, BecomeReady(k) PROVE Roles'
  BY <1>1, <1>8 DEF BecomeReady
<1> QED
  BY <1>1, <1>2, <1>3, <1>4, <1>5, <1>6, <1>7, <1>8 DEF DispatcherNext, allVars, vars
\* What Taken takes is what the drain removes.
LEMMA TakenFacts ==
  ASSUME Types, Held, TaskTypes, NEW d \in Dispatchers, Taken(d)
  PROVE  /\ taken' \in [Dispatchers -> Seq(Token)]
         /\ \A e \in Dispatchers : e # d => taken'[e] = taken[e]
         /\ ToSet(taken'[d]) = Drained(d)
         /\ owed' = owed \ Drained(d)
<1> DEFINE p == target[d]
           q == queue[p]
           n == IF Len(q) < MaxOut THEN Len(q) ELSE MaxOut
<1>1. Drain(d) /\ d \in Clients /\ TargetHeld
  BY DispatcherAssumption DEF Taken, Held
<1>2. /\ p \in Pollers /\ Len(q) \in Nat /\ n \in 0 .. Len(q)
      /\ Len(queue'[p]) = Len(q) - n
  BY <1>1, DrainFacts
<1>3. queue \in [Pollers -> Seq(Token)] /\ q \in Seq(Token)
  BY <1>2 DEF Types, DataTypes
<1>4. taken' = [taken EXCEPT ![d] = SubSeq(q, 1, Len(q) - Len(queue'[p]))]
  BY DEF Taken
<1>5. Len(q) - Len(queue'[p]) = n
  BY <1>2
<1>6. SubSeq(q, 1, n) \in Seq(Token)
  BY <1>2, <1>3, SubSeqProperties
<1>7. taken' = [taken EXCEPT ![d] = SubSeq(q, 1, n)] /\ taken \in [Dispatchers -> Seq(Token)]
  BY <1>4, <1>5 DEF TaskTypes
<1>8. Drained(d) = ToSet(SubSeq(q, 1, n)) /\ owed' = owed \ ToSet(SubSeq(q, 1, n))
  BY <1>1 DEF Drained, Drain, Deliver
<1> HIDE DEF n, q, p
<1> QED
  BY <1>6, <1>7, <1>8

LEMMA TasksNext ==
  ASSUME Types, Held, Placed, [DispatcherNext]_allVars
  PROVE  TaskTypes' /\ Emptied'
<1>0. /\ TaskTypes /\ Emptied /\ Dispatchers \subseteq Clients /\ Users \subseteq Clients
      /\ \A c \in Clients : c \in Users <=> c \notin Dispatchers
      /\ taken \in [Dispatchers -> Seq(Token)]
      /\ task \in [Clients -> UserTask \cup DispatcherTask]
      /\ stopping \in [Dispatchers -> BOOLEAN]
  BY DispatcherAssumption DEF Placed, Users, TaskTypes
<1>1. CASE UNCHANGED <<running, stopping, taken, task>>
  BY <1>0, <1>1 DEF TaskTypes, Emptied
<1>2. ASSUME NEW x \in Clients, NEW label, At(x, label),
             x \in Users => label \in UserTask,
             x \in Dispatchers => label \in DispatcherTask
      PROVE  /\ task' \in [Clients -> UserTask \cup DispatcherTask]
             /\ \A c \in Users : task'[c] \in UserTask
             /\ task'[x] = label
             /\ \A y \in Clients : y # x => task'[y] = task[y]
  BY <1>0, <1>2 DEF At, TaskTypes
<1>3. ASSUME NEW d \in Dispatchers, DispatcherStep(d) PROVE TaskTypes' /\ Emptied'
  <2>1. UNCHANGED <<running, stopping>>
    BY <1>3 DEF DispatcherStep, CheckStop, Take, Wait, Taken, Dispatch, dispatcherVars
  <2>2. {"exited", "take", "check", "taking", "dispatch"} \subseteq DispatcherTask
    BY DEF DispatcherTask
  <2>3. CASE CheckStop(d)
    <3>1. /\ taken' = taken /\ task[d] = "check"
          /\ At(d, IF stopping[d] THEN "exited" ELSE "take")
      BY <2>3 DEF CheckStop
    <3> QED
      BY <1>0, <1>2, <2>1, <2>2, <3>1 DEF TaskTypes, Emptied
  <2>4. CASE Take(d)
    <3>1. taken' = taken /\ task[d] = "take" /\ (At(d, "check") \/ At(d, "taking"))
      BY <2>4 DEF Take
    <3> QED
      BY <1>0, <1>2, <2>1, <2>2, <3>1 DEF TaskTypes, Emptied
  <2>5. CASE Wait(d)
    BY <1>1, <2>5 DEF Wait, dispatcherVars
  <2>6. CASE Taken(d)
    <3>1. At(d, "dispatch")
      BY <2>6 DEF Taken
    <3>2. /\ taken' \in [Dispatchers -> Seq(Token)]
          /\ \A e \in Dispatchers : e # d => taken'[e] = taken[e]
      BY <1>0, <2>6, TakenFacts
    <3> QED
      BY <1>0, <1>2, <2>1, <2>2, <3>1, <3>2 DEF TaskTypes, Emptied
  <2>7. CASE Dispatch(d)
    <3>1. CASE taken[d] = <<>>
      <4>1. taken' = taken /\ At(d, "check")
        BY <2>7, <3>1 DEF Dispatch
      <4> QED
        BY <1>0, <1>2, <2>1, <2>2, <3>1, <4>1 DEF TaskTypes, Emptied
    <3>2. CASE taken[d] # <<>>
      <4>1. /\ taken' = [taken EXCEPT ![d] = Tail(taken[d])] /\ task' = task
            /\ task[d] = "dispatch"
        BY <2>7, <3>2 DEF Dispatch
      <4>2. Tail(taken[d]) \in Seq(Token)
        BY <1>0, <3>2, HeadTailProperties
      <4> QED
        BY <1>0, <2>1, <4>1, <4>2 DEF TaskTypes, Emptied
    <3> QED
      BY <3>1, <3>2
  <2> QED
    BY <1>3, <2>3, <2>4, <2>5, <2>6, <2>7 DEF DispatcherStep
<1>4. ASSUME NEW c \in Users, UserStep(c) PROVE TaskTypes' /\ Emptied'
  <2>1. {"join", "idle"} \subseteq UserTask
    BY DEF UserTask
  <2>2. CASE SetStop(c)
    <3>1. /\ At(c, "join") /\ taken' = taken /\ running' = running
          /\ stopping' = [stopping EXCEPT ![stopped[c]] = TRUE]
      BY <2>2 DEF SetStop
    <3>2. stopping' \in [Dispatchers -> BOOLEAN]
      BY <1>0, <3>1
    <3>3. \A d \in Dispatchers : stopping[d] => stopping'[d]
      BY <1>0, <3>1
    <3> QED
      BY <1>0, <1>2, <2>1, <3>1, <3>2, <3>3 DEF TaskTypes, Emptied
  <2>3. CASE JoinDispatcher(c)
    <3>1. At(c, "idle") /\ taken' = taken /\ running' = running /\ stopping' = stopping
      BY <2>3 DEF JoinDispatcher
    <3> QED
      BY <1>0, <1>2, <2>1, <3>1 DEF TaskTypes, Emptied
  <2> QED
    BY <1>1, <1>4, <2>2, <2>3 DEF UserStep, dispatcherVars
<1>5. ASSUME NEW c \in Users, UserCall(c) PROVE TaskTypes' /\ Emptied'
  <2>1. ASSUME NEW d \in Dispatchers, StartDispatcher(c, d) PROVE TaskTypes' /\ Emptied'
    <3>1. /\ At(d, "check") /\ taken' = taken /\ stopping' = stopping /\ running' = d
          /\ task[d] = "unborn" /\ "check" \in DispatcherTask
      BY <2>1 DEF StartDispatcher, DispatcherTask
    <3> QED
      BY <1>0, <1>2, <3>1 DEF TaskTypes, Emptied
  <2>2. CASE BeginStop(c)
    <3>1. /\ At(c, "flag") /\ taken' = taken /\ stopping' = stopping
          /\ running' = NoDispatcher /\ "flag" \in UserTask
      BY <2>2 DEF BeginStop, UserTask
    <3> QED
      BY <1>0, <1>2, <3>1 DEF TaskTypes, Emptied
  <2> QED
    BY <1>1, <1>5, <2>1, <2>2 DEF UserCall, dispatcherVars
<1> QED
  BY <1>1, <1>3, <1>4, <1>5 DEF DispatcherNext, allVars, dispatcherVars

\* The event loop's invariants hold, and everyone is in their place.
LEMMA PlacedInvariant == DispatcherSpec => [](Types /\ Held /\ Placed)
<1>1. DispatcherSpec => [](Types /\ Held)
  BY LoopUnderDispatcher, HeldInvariant, PTL
<1>2. Types /\ Held /\ Placed /\ [DispatcherNext]_<<vars, dispatcherVars>> => Placed'
  BY RolesNext, TasksNext DEF Placed, allVars
<1> QED
  BY <1>1, <1>2, PlacedInit, PTL DEF DispatcherSpec

\* A dispatcher leaves only when it is stopped, and never with a wakeup in hand:
\* what shutdown_dispatcher joins has called the poll function of every wakeup
\* it took.
StopsEmptyHanded ==
  \A d \in Dispatchers : task[d] = "exited" => stopping[d] /\ taken[d] = <<>>

THEOREM DispatchedBeforeStop == DispatcherSpec => []StopsEmptyHanded
<1>1. Placed => StopsEmptyHanded
  BY DEF Placed, Emptied, StopsEmptyHanded
<1> QED
  BY <1>1, PlacedInvariant, PTL

(***************************************************************************)
(* The way of a wakeup.                                                    *)
(***************************************************************************)

\* A token whose task is still to be polled has an event nobody has been handed,
\* or is in the hands of a dispatcher.
Handed == \A k \in unpolled : k \in owed \/ \E d \in Dispatchers : k \in ToSet(taken[d])

LEMMA HandedNext ==
  ASSUME Types, Held, Placed, Handed, [DispatcherNext]_allVars
  PROVE  Handed'
<1>0. /\ TaskTypes /\ Emptied /\ Roles /\ Dispatchers \subseteq Clients
      /\ taken \in [Dispatchers -> Seq(Token)]
      /\ \A x \in Clients : x \notin Pollers
  BY DispatcherAssumption, EventLoopAssumption DEF Placed, TaskTypes
<1>1. CASE owed \subseteq owed' /\ taken' = taken /\ unpolled' \subseteq unpolled
  BY <1>1 DEF Handed
<1>2. ASSUME NEW d \in Dispatchers, DispatcherStep(d) PROVE Handed'
  <2>1. CASE CheckStop(d) \/ Take(d) \/ Wait(d)
    <3>1. owed' = owed /\ taken' = taken /\ unpolled' = unpolled
      BY <2>1 DEF CheckStop, Take, Wait, BeginTake, WaitForWakeup, TimeOut, fdVars, vars,
         dispatcherVars
    <3> QED
      BY <1>1, <3>1
  <2>2. CASE Taken(d)
    <3>1. task[d] = "taking" /\ unpolled' = unpolled /\ taken[d] = <<>>
      BY <1>0, <2>2 DEF Taken, Emptied
    <3>2. ToSet(taken[d]) = {}
      BY <3>1 DEF ToSet
    <3>3. /\ \A e \in Dispatchers : e # d => taken'[e] = taken[e]
          /\ ToSet(taken'[d]) = Drained(d)
          /\ owed' = owed \ Drained(d)
      BY <1>0, <2>2, TakenFacts
    <3> QED
      BY <3>1, <3>2, <3>3 DEF Handed
  <2>3. CASE Dispatch(d)
    <3>1. owed' = owed
      BY <2>3 DEF Dispatch, vars
    <3>2. CASE taken[d] = <<>>
      BY <1>1, <2>3, <3>1, <3>2 DEF Dispatch
    <3>3. CASE taken[d] # <<>>
      <4>1. /\ taken' = [taken EXCEPT ![d] = Tail(taken[d])]
            /\ unpolled' = unpolled \ {Head(taken[d])}
        BY <2>3, <3>3 DEF Dispatch
      <4>2. ASSUME NEW k \in ToSet(taken[d]), k # Head(taken[d])
            PROVE  k \in ToSet(Tail(taken[d]))
        <5>1. PICK i \in 1 .. Len(taken[d]) : taken[d][i] = k
          BY <1>0, <4>2 DEF ToSet
        <5>2. /\ Len(taken[d]) \in Nat
              /\ DOMAIN Tail(taken[d]) = 1 .. Len(taken[d]) - 1
              /\ \A j \in 1 .. Len(taken[d]) - 1 : Tail(taken[d])[j] = taken[d][j + 1]
              /\ Head(taken[d]) = taken[d][1]
          <6>1. taken[d] \in Seq(Token)
            BY <1>0
          <6> QED
            BY <3>3, <6>1
        <5>3. i # 1
          BY <4>2, <5>1, <5>2
        <5>4. i - 1 \in 1 .. Len(taken[d]) - 1 /\ Tail(taken[d])[i - 1] = k
          BY <5>1, <5>2, <5>3
        <5> QED
          BY <5>2, <5>4 DEF ToSet
      <4>3. /\ taken'[d] = Tail(taken[d])
            /\ \A e \in Dispatchers : e # d => taken'[e] = taken[e]
        BY <1>0, <4>1
      <4> QED
        BY <3>1, <4>1, <4>2, <4>3 DEF Handed
    <3> QED
      BY <3>2, <3>3
  <2> QED
    BY <1>2, <2>1, <2>2, <2>3 DEF DispatcherStep
<1>3. ASSUME NEW c \in Users, UserStep(c) PROVE Handed'
  <2>1. CASE UNCHANGED vars /\ taken' = taken /\ unpolled' = unpolled
    BY <1>1, <2>1 DEF vars
  <2>2. CASE ClientStep(c) /\ UNCHANGED dispatcherVars
    <3>1. pc[c] \in {"ready"} \cup InShutdown
      BY <1>0 DEF Roles
    <3>2. \/ SetShutdown(c) \/ WakeLoop(c) \/ NotifyShutdown(c) \/ Join(c) \/ DrainWaker(c)
      BY <2>2, <3>1 DEF ClientStep, LockPoll, Harvest, ClientExtract, WaitForWakeup,
         TimeOut, Drain, InShutdown
    <3>3. owed' = owed
      BY <3>2 DEF SetShutdown, WakeLoop, NotifyShutdown, Join, DrainWaker, fdVars
    <3> QED
      BY <1>1, <2>2, <3>3 DEF dispatcherVars
  <2> QED
    BY <1>3, <2>1, <2>2 DEF UserStep, SetStop, JoinDispatcher
<1>4. ASSUME NEW c \in Users, UserCall(c) PROVE Handed'
  <2>1. CASE \E k \in registered : Deregister(c, k) /\ unpolled' = unpolled \ {k} /\ taken' = taken
    <3>1. PICK k \in registered : owed' = owed \ {k} /\ unpolled' = unpolled \ {k} /\ taken' = taken
      BY <2>1 DEF Deregister
    <3> QED
      BY <3>1 DEF Handed
  <2>2. CASE owed' = owed /\ taken' = taken /\ unpolled' = unpolled
    BY <1>1, <2>2
  <2> QED
    BY <1>4, <2>1, <2>2 DEF UserCall, StartDispatcher, BeginStop, Register, StartPoller,
       BeginShutdown, vars, fdVars, dispatcherVars
<1>5. ASSUME NEW p \in Pollers, PollerStep(p), UNCHANGED dispatcherVars PROVE Handed'
  <2>1. owed' = owed
    BY <1>5 DEF PollerStep, CheckShutdown, LockPoll, Harvest, PollerExtract, Deposit,
       NotifyDeposit, fdVars
  <2> QED
    BY <1>1, <1>5, <2>1 DEF dispatcherVars
<1>6. CASE /\ UNCHANGED dispatcherVars
           /\ (\E x \in Clients : SpuriousWake(x)) \/ \E x \in Threads : PollNothing(x)
  <2>1. owed' = owed
    BY <1>6 DEF SpuriousWake, PollNothing, fdVars
  <2> QED
    BY <1>1, <1>6, <2>1 DEF dispatcherVars
<1>7. ASSUME NEW k \in Token, BecomeReady(k), unpolled' = unpolled \cup {k}, taken' = taken
      PROVE  Handed'
  <2>1. owed' = owed \cup {k}
    BY <1>7 DEF BecomeReady
  <2> QED
    BY <1>7, <2>1 DEF Handed
<1>8. CASE UNCHANGED allVars
  BY <1>1, <1>8 DEF allVars, vars, dispatcherVars
<1> QED
  BY <1>2, <1>3, <1>4, <1>5, <1>6, <1>7, <1>8 DEF DispatcherNext

\* Until a poller is shut down, a task whose fd became ready and that has not been
\* polled since is not forgotten: its event is in the kernel, in a poll's batch,
\* in a queue or in the buffer of a dispatcher.  (The safety part of
\* ParkedTasksPolled.)
WakeupOnItsWay ==
  BuffersSuffice /\ NoneRetired =>
    \A k \in unpolled : InFlight(k) > 0 \/ \E d \in Dispatchers : k \in ToSet(taken[d])

THEOREM ParkedTasksKept == DispatcherSpec => []WakeupOnItsWay
<1>1. DispatcherInit => Handed
  BY DEF DispatcherInit, Handed
<1>2. Types /\ Held /\ Placed /\ Handed /\ [DispatcherNext]_<<vars, dispatcherVars>> => Handed'
  BY HandedNext DEF allVars
<1>3. DispatcherSpec => []Handed
  BY <1>1, <1>2, PlacedInvariant, PTL DEF DispatcherSpec
<1>4. DispatcherSpec => []NoWakeupLost
  BY LoopUnderDispatcher, WakeupsKept, PTL
<1>5. Handed /\ NoWakeupLost => WakeupOnItsWay
  BY DEF Handed, NoWakeupLost, NoneRetired, WakeupOnItsWay
<1> QED
  BY <1>3, <1>4, <1>5, PTL
=============================================================================
