--------------------------- MODULE ParPool_proofs ---------------------------
(***************************************************************************)
(* Theorems about ParPool for every pool size, number of roots, number of  *)
(* calls and width of par blocks.                                          *)
(***************************************************************************)
EXTENDS ParPool, FiniteSetTheorems, SequenceTheorems, WellFoundedInduction, TLAPS

(***************************************************************************)
(* Stacks and queues.                                                      *)
(***************************************************************************)

\* Popping a stack keeps its other elements and their places.
LEMMA PopProperties ==
  ASSUME NEW S, NEW s \in Seq(S), s # <<>>
  PROVE  /\ Pop(s) \in Seq(S)
         /\ Len(s) \in Nat \ {0}
         /\ Len(Pop(s)) = Len(s) - 1
         /\ \A k \in 1 .. Len(s) - 1 : Pop(s)[k] = s[k]
<1>1. Len(s) \in Nat \ {0}
  BY EmptySeq
<1>2. \A k \in 1 .. Len(s) - 1 : s[k] \in S
  BY <1>1, ElementOfSeq
<1>3. \A m, n \in Int : (\A i \in m .. n : s[i] \in S) =>
        /\ SubSeq(s, m, n) \in Seq(S)
        /\ Len(SubSeq(s, m, n)) = IF m <= n THEN n - m + 1 ELSE 0
        /\ \A i \in 1 .. n - m + 1 : SubSeq(s, m, n)[i] = s[m + i - 1]
  BY SubSeqProperties
<1>4. /\ SubSeq(s, 1, Len(s) - 1) \in Seq(S)
      /\ Len(SubSeq(s, 1, Len(s) - 1)) = IF 1 <= Len(s) - 1 THEN Len(s) - 1 - 1 + 1 ELSE 0
      /\ \A i \in 1 .. Len(s) - 1 - 1 + 1 : SubSeq(s, 1, Len(s) - 1)[i] = s[1 + i - 1]
  BY <1>1, <1>2, <1>3
<1>5. \A k \in 1 .. Len(s) - 1 : k \in 1 .. Len(s) - 1 - 1 + 1 /\ 1 + k - 1 = k
  BY <1>1
<1>6. \A k \in 1 .. Len(s) - 1 : SubSeq(s, 1, Len(s) - 1)[k] = s[k]
  BY <1>4, <1>5, Zenon
<1>7. \A n \in Nat \ {0} : (IF 1 <= n - 1 THEN n - 1 - 1 + 1 ELSE 0) = n - 1
  OBVIOUS
<1> QED
  BY <1>1, <1>4, <1>6, <1>7, Zenon DEF Pop

\* A task is a legal activation, and never the null frame.
LEMMA TaskFacts ==
  /\ Task \subseteq Activation
  /\ NoFrame \notin Task
  /\ \A a \in Activation : IsCall(a) \/ a \in Task
  /\ \A x \in Task : ~ IsCall(x) /\ x[1] \in CallId /\ x[2] \in Branch
                     /\ x = <<x[1], x[2]>>
  /\ \A c \in CallId : CallActivation(c) \in Activation
BY ParPoolAssumption DEF Task, Activation, IsCall, CallActivation, CallId, Branch, NoFrame

\* Facts on a stack that is not empty.
LEMMA TopFacts ==
  ASSUME stack \in [Threads -> Seq(Activation)],
         NEW t \in Threads, stack[t] # <<>>
  PROVE  /\ Len(stack[t]) \in Nat \ {0}
         /\ Top(t) \in Activation
         /\ Len(stack[t]) \in 1 .. Len(stack[t])
<1>1. stack[t] \in Seq(Activation)
  OBVIOUS
<1>2. Len(stack[t]) \in Nat \ {0}
  BY <1>1, EmptySeq
<1>3. Len(stack[t]) \in 1 .. Len(stack[t])
  BY <1>2
<1> QED
  BY <1>1, <1>2, <1>3, ElementOfSeq DEF Top

\* A step that pushes activation a on the stack of t.
Pushes(t, a) == stack' = [stack EXCEPT ![t] = Append(@, a)]

LEMMA PushFacts ==
  ASSUME stack \in [Threads -> Seq(Activation)],
         NEW t \in Threads, NEW a \in Activation, Pushes(t, a)
  PROVE  /\ stack' \in [Threads -> Seq(Activation)]
         /\ \A u \in Threads : u # t => stack'[u] = stack[u]
         /\ stack'[t] # <<>>
         /\ Len(stack[t]) \in Nat
         /\ Len(stack'[t]) = Len(stack[t]) + 1
         /\ \A k \in 1 .. Len(stack[t]) : stack'[t][k] = stack[t][k]
         /\ stack'[t][Len(stack[t]) + 1] = a
         /\ Top(t)' = a
<1> DEFINE s == stack[t]
<1>1. s \in Seq(Activation)
  OBVIOUS
<1>2. stack'[t] = Append(s, a) /\ \A u \in Threads : u # t => stack'[u] = stack[u]
  BY DEF Pushes
<1>3. /\ Append(s, a) \in Seq(Activation)
      /\ Append(s, a) # <<>>
      /\ Len(Append(s, a)) = Len(s) + 1
      /\ \A k \in 1 .. Len(s) : Append(s, a)[k] = s[k]
      /\ Append(s, a)[Len(s) + 1] = a
      /\ Len(s) \in Nat
  BY <1>1, AppendProperties, LenProperties
<1>4. stack' \in [Threads -> Seq(Activation)]
  BY <1>3 DEF Pushes
<1> QED
  BY <1>2, <1>3, <1>4, Zenon DEF Top

\* A step that pops the stack of t.
Pops(t) == stack' = [stack EXCEPT ![t] = Pop(@)]

LEMMA PopFacts ==
  ASSUME stack \in [Threads -> Seq(Activation)],
         NEW t \in Threads, stack[t] # <<>>, Pops(t)
  PROVE  /\ stack' \in [Threads -> Seq(Activation)]
         /\ \A u \in Threads : u # t => stack'[u] = stack[u]
         /\ Len(stack[t]) \in Nat \ {0}
         /\ Len(stack'[t]) = Len(stack[t]) - 1
         /\ \A k \in 1 .. Len(stack[t]) - 1 : stack'[t][k] = stack[t][k]
<1> DEFINE s == stack[t]
<1>1. s \in Seq(Activation) /\ s # <<>>
  OBVIOUS
<1>2. stack'[t] = Pop(s) /\ \A u \in Threads : u # t => stack'[u] = stack[u]
  BY DEF Pops
<1>3. /\ Pop(s) \in Seq(Activation)
      /\ Len(s) \in Nat \ {0}
      /\ Len(Pop(s)) = Len(s) - 1
      /\ \A k \in 1 .. Len(s) - 1 : Pop(s)[k] = s[k]
  BY <1>1, PopProperties
<1>4. stack' \in [Threads -> Seq(Activation)]
  BY <1>3 DEF Pops
<1> QED
  BY <1>2, <1>3, <1>4, Zenon

(***************************************************************************)
(* First part of the inductive invariant: types, except that `remaining`   *)
(* does not go below zero, and what the stack looks like at each pc.       *)
(***************************************************************************)
Types ==
  /\ queue \in Seq(Task)
  /\ ncalls \in 0 .. MaxCalls
  /\ count \in [CallId -> 0 .. MaxWidth]
  /\ parent \in [CallId -> FrameRef]
  /\ remaining \in [CallId -> Int]
  /\ cancel \in [CallId -> BOOLEAN]
  /\ status \in [Task -> {"new", "queued", "popped", "done"}]
  /\ stack \in [Threads -> Seq(Activation)]
  /\ pc \in [Threads -> {"off", "idle", "cv", "user", "enqueue", "notifyPool",
                         "check", "help", "block", "asleep", "start", "finish",
                         "notifyCall"}]
  /\ cur \in [Threads -> FrameRef]
  /\ prev \in [Task -> FrameRef]
  /\ active \in SUBSET Task

AtBase == {"off", "idle", "cv"}
InCall == {"enqueue", "notifyPool", "check", "help", "block", "asleep"}
InTask == {"start", "finish", "notifyCall"}

\* The pc of t fits the top of its stack.
PcFits(t) ==
  /\ pc[t] \in AtBase => t \in Workers /\ stack[t] = <<>>
  /\ pc[t] = "user" => IF stack[t] = <<>> THEN t \in Roots ELSE ~ IsCall(Top(t))
  /\ pc[t] \in InCall => stack[t] # <<>> /\ IsCall(Top(t))
  /\ pc[t] \in InTask => stack[t] # <<>> /\ ~ IsCall(Top(t))

\* Calls and tasks alternate on a stack: a root begins with a call, a worker
\* with a task.
Alternates(t) ==
  /\ stack[t] # <<>> => (IsCall(stack[t][1]) <=> t \in Roots)
  /\ \A k \in 1 .. Len(stack[t]) - 1 : IsCall(stack[t][k]) <=> ~ IsCall(stack[t][k + 1])

Shape == Types /\ \A t \in Threads : PcFits(t) /\ Alternates(t)

\* A thread that only wakes up, or does nothing, keeps its shape.
Wakes(u) ==
  /\ stack'[u] = stack[u]
  /\ \/ pc'[u] = pc[u]
     \/ pc[u] \in {"off", "cv"} /\ pc'[u] = "idle"
     \/ pc[u] = "asleep" /\ pc'[u] = "check"

LEMMA WakesKeepsShape ==
  ASSUME NEW u \in Threads, PcFits(u), Alternates(u), Wakes(u)
  PROVE  PcFits(u)' /\ Alternates(u)'
BY DEF PcFits, Alternates, Wakes, AtBase, InCall, InTask, Top

\* What a thread that takes a step must show, the others being undisturbed.
LEMMA ShapeByThread ==
  ASSUME Shape, Types', NEW t \in Threads, PcFits(t)', Alternates(t)',
         \A u \in Threads : u # t => Wakes(u)
  PROVE  Shape'
BY WakesKeepsShape DEF Shape

LEMMA PushKeepsAlternates ==
  ASSUME Shape, NEW t \in Threads, NEW a \in Activation, Pushes(t, a),
         IF stack[t] = <<>> THEN IsCall(a) <=> t \in Roots
                            ELSE IsCall(a) <=> ~ IsCall(Top(t))
  PROVE  Alternates(t)'
<1>1. stack \in [Threads -> Seq(Activation)] /\ Alternates(t)
  BY DEF Shape, Types
<1>2. /\ stack'[t] # <<>>
      /\ Len(stack[t]) \in Nat
      /\ Len(stack'[t]) = Len(stack[t]) + 1
      /\ \A k \in 1 .. Len(stack[t]) : stack'[t][k] = stack[t][k]
      /\ stack'[t][Len(stack[t]) + 1] = a
  BY <1>1, PushFacts
<1>3. CASE stack[t] = <<>>
  <2>1. Len(stack[t]) = 0
    BY <1>3
  <2> QED
    BY <1>2, <1>3, <2>1 DEF Alternates
<1>4. CASE stack[t] # <<>>
  <2>1. Len(stack[t]) \in Nat \ {0} /\ Len(stack[t]) \in 1 .. Len(stack[t])
    BY <1>1, <1>4, TopFacts
  <2>2. IsCall(stack'[t][1]) <=> t \in Roots
    BY <1>1, <1>2, <1>4, <2>1 DEF Alternates
  <2>3. ASSUME NEW k \in 1 .. Len(stack'[t]) - 1
        PROVE  IsCall(stack'[t][k]) <=> ~ IsCall(stack'[t][k + 1])
    <3>1. CASE k = Len(stack[t])
      BY <1>2, <1>4, <2>1, <3>1 DEF Top
    <3>2. CASE k # Len(stack[t])
      <4>1. k \in 1 .. Len(stack[t]) - 1 /\ k \in 1 .. Len(stack[t])
            /\ k + 1 \in 1 .. Len(stack[t])
        BY <1>2, <2>1, <3>2
      <4> QED
        BY <1>1, <1>2, <4>1 DEF Alternates
    <3> QED
      BY <3>1, <3>2
  <2> QED
    BY <2>2, <2>3 DEF Alternates
<1> QED
  BY <1>3, <1>4

\* After a pop, the activation below the one popped is of the other kind.
LEMMA PopKeepsAlternates ==
  ASSUME Shape, NEW t \in Threads, stack[t] # <<>>, Pops(t)
  PROVE  /\ Alternates(t)'
         /\ Len(stack[t]) \in Nat \ {0}
         /\ Len(stack[t]) = 1 => stack'[t] = <<>> /\ (IsCall(Top(t)) <=> t \in Roots)
         /\ Len(stack[t]) # 1 => stack'[t] # <<>> /\ (IsCall(Top(t))' <=> ~ IsCall(Top(t)))
<1>1. stack \in [Threads -> Seq(Activation)] /\ Alternates(t)
  BY DEF Shape, Types
<1>2. /\ stack' \in [Threads -> Seq(Activation)]
      /\ Len(stack[t]) \in Nat \ {0}
      /\ Len(stack'[t]) = Len(stack[t]) - 1
      /\ \A k \in 1 .. Len(stack[t]) - 1 : stack'[t][k] = stack[t][k]
  BY <1>1, PopFacts
<1>3. CASE Len(stack[t]) = 1
  <2>1. stack'[t] = <<>>
    BY <1>2, <1>3, EmptySeq
  <2>2. Alternates(t)'
    BY <2>1 DEF Alternates
  <2> QED
    BY <1>1, <1>2, <1>3, <2>1, <2>2 DEF Alternates, Top
<1>4. CASE Len(stack[t]) # 1
  <2> \A n \in Nat \ {0} : n # 1 => n - 1 \in 1 .. n - 1 /\ 1 \in 1 .. n - 1
                                    /\ n - 1 + 1 = n /\ n - 1 # 0
    OBVIOUS
  <2>0. /\ Len(stack[t]) - 1 \in 1 .. Len(stack[t]) - 1
        /\ 1 \in 1 .. Len(stack[t]) - 1
        /\ Len(stack[t]) - 1 + 1 = Len(stack[t])
        /\ Len(stack[t]) - 1 # 0
    BY <1>2, <1>4, Zenon
  <2>1. /\ Len(stack'[t]) \in 1 .. Len(stack[t]) - 1
        /\ 1 \in 1 .. Len(stack[t]) - 1
    BY <1>2, <2>0, Zenon
  <2>2. stack'[t] # <<>>
    <3>1. Len(stack'[t]) # 0
      BY <1>2, <2>0, Zenon
    <3> QED
      BY <3>1, EmptySeq, Zenon
  <2>3. Alternates(t)'
    <3>1. ASSUME NEW k \in 1 .. Len(stack'[t]) - 1
          PROVE  IsCall(stack'[t][k]) <=> ~ IsCall(stack'[t][k + 1])
      <4>1. k \in 1 .. Len(stack[t]) - 1 /\ k + 1 \in 1 .. Len(stack[t]) - 1
        BY <1>2
      <4> QED
        BY <1>1, <1>2, <4>1 DEF Alternates
    <3> QED
      BY <1>1, <1>2, <2>1, <2>2, <3>1 DEF Alternates
  <2>4. IsCall(Top(t))' <=> ~ IsCall(Top(t))
    <3>1. /\ Len(stack[t]) - 1 \in 1 .. Len(stack[t]) - 1
          /\ Len(stack[t]) - 1 + 1 = Len(stack[t])
      BY <2>0, Zenon
    <3>2. Top(t)' = stack[t][Len(stack[t]) - 1]
      BY <1>2, <3>1 DEF Top
    <3> QED
      BY <1>1, <3>1, <3>2 DEF Alternates, Top
  <2> QED
    BY <1>2, <1>4, <2>2, <2>3, <2>4
<1> QED
  BY <1>3, <1>4

LEMMA ShapeInit == Init => Shape
<1> SUFFICES ASSUME Init PROVE Shape
  OBVIOUS
<1>1. Types
  BY ParPoolAssumption, EmptySeq
  DEF Init, Types, FrameRef, CallId, Task, Threads
<1>2. ASSUME NEW t \in Threads PROVE PcFits(t) /\ Alternates(t)
  <2>1. stack[t] = <<>> /\ pc[t] = (IF t \in Workers THEN "off" ELSE "user")
    BY DEF Init
  <2>2. Len(stack[t]) = 0
    BY <2>1
  <2> QED
    BY <2>1, <2>2 DEF PcFits, Alternates, AtBase, InCall, InTask, Threads
<1> QED
  BY <1>1, <1>2 DEF Shape

\* Types are preserved by a step whose thread has the shape its pc requires.
LEMMA TypesNext ==
  ASSUME Shape, NEW t \in Threads, Step(t) \/ SpuriousWake(t)
  PROVE  Types'
<1> USE DEF Shape
<1>0. Types /\ PcFits(t)
  OBVIOUS
<1>1. pc[t] \notin AtBase /\ (pc[t] = "user" => stack[t] # <<>>)
        => /\ stack[t] # <<>> /\ Top(t) \in Activation /\ Top(t)[1] \in CallId
           /\ (IsCall(Top(t)) \/ Top(t) \in Task)
  BY TopFacts, TaskFacts DEF Types, PcFits, AtBase, InCall, InTask, Activation
<1>2. ASSUME NEW n \in Branch, ParRun(t, n) PROVE Types'
  <2>1. ncalls + 1 \in CallId /\ n \in 0 .. MaxWidth /\ ncalls' \in 0 .. MaxCalls
    BY <1>2, ParPoolAssumption DEF ParRun, Types, CallId, Branch
  <2>2. stack' \in [Threads -> Seq(Activation)]
    BY <1>2, <2>1, PushFacts, TaskFacts DEF ParRun, Pushes, Types
  <2> QED
    BY <1>2, <2>1, <2>2 DEF ParRun, Types, FrameRef
<1>3. CASE Enqueue(t)
  <2> DEFINE c == Top(t)[1]
             tasks == [i \in 1 .. count[c] |-> <<c, i>>]
  <2>1. c \in CallId /\ count[c] \in 0 .. MaxWidth
    BY <1>1, <1>3 DEF Enqueue, Types, AtBase
  <2>2. \A i \in 1 .. count[c] : <<c, i>> \in Task
    BY <2>1, ParPoolAssumption DEF Task, Branch
  <2>3. tasks \in Seq(Task)
    BY <2>1, <2>2, IsASeq
  <2>4. queue \o tasks \in Seq(Task)
    BY <2>3, ConcatProperties DEF Types
  <2> QED
    BY <1>3, <2>4 DEF Enqueue, Types
<1>4. CASE NotifyPool(t)
  BY <1>4 DEF NotifyPool, Types
<1>5. CASE Return(t)
  <2>1. stack' \in [Threads -> Seq(Activation)]
    BY <1>1, <1>5, PopFacts DEF Return, Pops, Types, AtBase
  <2> QED
    BY <1>5, <2>1 DEF Return, Types
<1>6. CASE NotDone(t)
  BY <1>6 DEF NotDone, Types
<1>7. CASE NothingToHelp(t)
  BY <1>7 DEF NothingToHelp, Types
<1>8. CASE WaitForCall(t)
  BY <1>8 DEF WaitForCall, Types
<1>9. CASE TakeTask(t)
  <2>1. Head(queue) \in Task /\ Tail(queue) \in Seq(Task)
    BY <1>9, HeadTailProperties DEF TakeTask, Types
  <2>2. stack' \in [Threads -> Seq(Activation)]
    BY <1>9, <2>1, PushFacts, TaskFacts DEF TakeTask, Pushes, Types
  <2> QED
    BY <1>9, <2>1, <2>2 DEF TakeTask, Types
<1>10. CASE WaitForTask(t)
  BY <1>10 DEF WaitForTask, Types
<1>11. CASE SkipTask(t)
  BY <1>11 DEF SkipTask, Types
<1>12. CASE BeginTask(t)
  <2>1. Top(t) \in Task
    BY <1>0, <1>1, <1>12 DEF BeginTask, PcFits, AtBase, InTask
  <2>2. /\ cur' \in [Threads -> FrameRef]
        /\ prev' \in [Task -> FrameRef]
        /\ active' \in SUBSET Task
    <3>1. CASE TrackFrames
      BY <1>12, <2>1, <3>1 DEF BeginTask, Types, FrameRef
    <3>2. CASE ~ TrackFrames
      BY <1>12, <3>2 DEF BeginTask, Types
    <3> QED
      BY <3>1, <3>2
  <2> QED
    BY <1>12, <2>2 DEF BeginTask, Types
<1>13. ASSUME NEW panicked \in BOOLEAN, EndTask(t, panicked) PROVE Types'
  <2>1. Top(t) \in Task /\ Top(t)[1] \in CallId
    BY <1>0, <1>1, <1>13 DEF EndTask, PcFits, AtBase
  <2>2. cancel' \in [CallId -> BOOLEAN]
    BY <1>13, <2>1 DEF EndTask, Types
  <2>3. /\ cur' \in [Threads -> FrameRef]
        /\ prev' \in [Task -> FrameRef]
        /\ active' \in SUBSET Task
    <3>1. CASE TrackFrames
      BY <1>13, <2>1, <3>1 DEF EndTask, Types, FrameRef
    <3>2. CASE ~ TrackFrames
      BY <1>13, <3>2 DEF EndTask, Types
    <3> QED
      BY <3>1, <3>2
  <2>4. /\ pc' = [pc EXCEPT ![t] = "finish"]
        /\ UNCHANGED <<queue, ncalls, count, parent, remaining, status, stack>>
    BY <1>13 DEF EndTask
  <2> QED
    BY <2>2, <2>3, <2>4 DEF Types
<1>14. CASE FinishTask(t)
  <2>1. stack[t] # <<>> /\ Top(t) \in Task /\ Top(t)[1] \in CallId
    BY <1>0, <1>1, <1>14 DEF FinishTask, PcFits, AtBase, InTask
  <2>2. stack' \in [Threads -> Seq(Activation)]
    BY <1>14, <2>1, PopFacts DEF FinishTask, Pops, Types
  <2>3. ResumeAt(stack[t]) \in {"idle", "check"}
    BY DEF ResumeAt
  <2>4. /\ remaining' \in [CallId -> Int]
        /\ status' \in [Task -> {"new", "queued", "popped", "done"}]
    BY <1>14, <2>1 DEF FinishTask, Types
  <2>5. pc' = [pc EXCEPT ![t] = "notifyCall"] \/ pc' = [pc EXCEPT ![t] = ResumeAt(stack[t])]
    BY <1>14 DEF FinishTask
  <2>6. UNCHANGED <<queue, ncalls, count, parent, cancel, cur, prev, active>>
    BY <1>14 DEF FinishTask
  <2> QED
    BY <2>2, <2>3, <2>4, <2>5, <2>6 DEF Types
<1>15. CASE NotifyCall(t)
  <2>1. stack' \in [Threads -> Seq(Activation)]
    BY <1>1, <1>15, PopFacts DEF NotifyCall, Pops, Types, AtBase
  <2>2. ResumeAt(stack[t]) \in {"idle", "check"}
    BY DEF ResumeAt
  <2> QED
    BY <1>15, <2>1, <2>2 DEF NotifyCall, Types
<1>16. CASE SpuriousWake(t)
  BY <1>16 DEF SpuriousWake, Types
<1> QED
  BY <1>2, <1>3, <1>4, <1>5, <1>6, <1>7, <1>8, <1>9, <1>10, <1>11, <1>12,
     <1>13, <1>14, <1>15, <1>16 DEF Step

LEMMA ShapeNext == Shape /\ [Next]_vars => Shape'
<1> SUFFICES ASSUME Shape, [Next]_vars PROVE Shape'
  OBVIOUS
<1>1. CASE UNCHANGED vars
  BY <1>1 DEF vars, Shape, Types, PcFits, Alternates, Top
<1>2. ASSUME NEW t \in Threads, Step(t) \/ SpuriousWake(t)
      PROVE  Shape'
  <2> USE DEF AtBase, InCall, InTask
  <2>1. Types'
    BY <1>2, TypesNext
  <2>2. Types /\ PcFits(t) /\ Alternates(t)
    BY DEF Shape
  <2>3. stack[t] # <<>> => Top(t) \in Activation
    BY <2>2, TopFacts DEF Types
  <2> SUFFICES PcFits(t)' /\ Alternates(t)' /\ \A u \in Threads : u # t => Wakes(u)
    BY <2>1, ShapeByThread
  <2>4. ASSUME UNCHANGED stack PROVE Alternates(t)' /\ Top(t)' = Top(t)
    BY <2>2, <2>4 DEF Alternates, Top
  <2>5. ASSUME NEW n \in Branch, ParRun(t, n)
        PROVE  PcFits(t)' /\ Alternates(t)' /\ \A u \in Threads : u # t => Wakes(u)
    <3> DEFINE a == CallActivation(ncalls + 1)
    <3>1. a \in Activation /\ IsCall(a)
      BY <2>2, <2>5, ParPoolAssumption, TaskFacts
      DEF ParRun, Types, CallId, CallActivation, IsCall
    <3>2. Pushes(t, a)
      BY <2>5 DEF ParRun, Pushes
    <3>3. Alternates(t)'
      BY <2>2, <2>5, <3>1, <3>2, PushKeepsAlternates DEF ParRun, PcFits
    <3>4. /\ stack'[t] # <<>>
          /\ Top(t)' = a
          /\ \A u \in Threads : u # t => stack'[u] = stack[u]
      BY <2>2, <3>1, <3>2, PushFacts DEF Types
    <3>5. pc'[t] = "enqueue" /\ \A u \in Threads : u # t => Wakes(u)
      BY <2>2, <2>5, <3>4 DEF ParRun, Types, Wakes
    <3> QED
      BY <3>1, <3>3, <3>4, <3>5 DEF PcFits
  <2>6. CASE Enqueue(t)
    BY <2>2, <2>4, <2>6 DEF Enqueue, Types, PcFits, Wakes
  <2>7. CASE NotifyPool(t)
    BY <2>2, <2>4, <2>7 DEF NotifyPool, Types, PcFits, Wakes
  <2>8. CASE Return(t)
    <3>1. stack[t] # <<>> /\ IsCall(Top(t)) /\ Pops(t)
      BY <2>2, <2>8 DEF Return, PcFits, Pops
    <3>2. \A u \in Threads : u # t => stack'[u] = stack[u]
      BY <2>2, <3>1, PopFacts DEF Types
    <3> QED
      BY <2>2, <2>8, <3>1, <3>2, PopKeepsAlternates DEF Return, Types, PcFits, Wakes
  <2>9. CASE NotDone(t)
    BY <2>2, <2>4, <2>9 DEF NotDone, Types, PcFits, Wakes
  <2>10. CASE NothingToHelp(t)
    BY <2>2, <2>4, <2>10 DEF NothingToHelp, Types, PcFits, Wakes
  <2>11. CASE WaitForCall(t)
    BY <2>2, <2>4, <2>11 DEF WaitForCall, Types, PcFits, Wakes
  <2>12. CASE TakeTask(t)
    <3> DEFINE a == Head(queue)
    <3>1. a \in Activation /\ ~ IsCall(a)
      BY <2>2, <2>12, HeadTailProperties, TaskFacts DEF TakeTask, Types
    <3>2. Pushes(t, a)
      BY <2>12 DEF TakeTask, Pushes
    <3>3. Alternates(t)'
      BY <2>2, <2>12, <3>1, <3>2, PushKeepsAlternates, ParPoolAssumption
      DEF TakeTask, PcFits
    <3>4. /\ stack'[t] # <<>>
          /\ Top(t)' = a
          /\ \A u \in Threads : u # t => stack'[u] = stack[u]
      BY <2>2, <3>1, <3>2, PushFacts DEF Types
    <3> QED
      BY <2>2, <2>12, <3>1, <3>3, <3>4 DEF TakeTask, Types, PcFits, Wakes
  <2>13. CASE WaitForTask(t)
    BY <2>2, <2>4, <2>13 DEF WaitForTask, Types, PcFits, Wakes
  <2>14. CASE SkipTask(t)
    BY <2>2, <2>4, <2>14 DEF SkipTask, Types, PcFits, Wakes
  <2>15. CASE BeginTask(t)
    BY <2>2, <2>4, <2>15 DEF BeginTask, Types, PcFits, Wakes
  <2>16. ASSUME NEW panicked \in BOOLEAN, EndTask(t, panicked)
         PROVE  PcFits(t)' /\ Alternates(t)' /\ \A u \in Threads : u # t => Wakes(u)
    <3>1. /\ pc[t] = "user" /\ stack[t] # <<>>
          /\ pc' = [pc EXCEPT ![t] = "finish"]
          /\ UNCHANGED stack
      BY <2>16 DEF EndTask
    <3> QED
      BY <2>2, <2>4, <3>1 DEF Types, PcFits, Wakes
  <2>17. ASSUME stack[t] # <<>>, ~ IsCall(Top(t)), Pops(t), pc'[t] = ResumeAt(stack[t])
         PROVE  PcFits(t)' /\ Alternates(t)'
    BY <2>2, <2>17, PopKeepsAlternates, ParPoolAssumption DEF PcFits, ResumeAt, Threads
  <2>18. CASE FinishTask(t)
    <3>1. stack[t] # <<>> /\ ~ IsCall(Top(t))
      BY <2>2, <2>18 DEF FinishTask, PcFits
    <3>2. CASE remaining[Top(t)[1]] = 1
      BY <2>2, <2>4, <2>18, <3>1, <3>2 DEF FinishTask, Types, PcFits, Wakes
    <3>3. CASE remaining[Top(t)[1]] # 1
      <4>1. Pops(t) /\ pc' = [pc EXCEPT ![t] = ResumeAt(stack[t])]
        BY <2>18, <3>3 DEF FinishTask, Pops
      <4>2. \A u \in Threads : u # t => stack'[u] = stack[u]
        BY <2>2, <3>1, <4>1, PopFacts DEF Types
      <4> QED
        BY <2>2, <2>17, <3>1, <4>1, <4>2 DEF Types, Wakes
    <3> QED
      BY <3>2, <3>3
  <2>19. CASE NotifyCall(t)
    <3>1. stack[t] # <<>> /\ ~ IsCall(Top(t)) /\ Pops(t)
      BY <2>2, <2>19 DEF NotifyCall, PcFits, Pops
    <3>2. \A u \in Threads : u # t => stack'[u] = stack[u]
      BY <2>2, <3>1, PopFacts DEF Types
    <3>3. pc'[t] = ResumeAt(stack[t]) /\ \A u \in Threads : u # t => Wakes(u)
      BY <2>2, <2>19, <3>2 DEF NotifyCall, Types, Wakes
    <3> QED
      BY <2>17, <3>1, <3>3
  <2>20. CASE SpuriousWake(t)
    BY <2>2, <2>4, <2>20 DEF SpuriousWake, Types, PcFits, Wakes
  <2> QED
    BY <1>2, <2>5, <2>6, <2>7, <2>8, <2>9, <2>10, <2>11, <2>12, <2>13, <2>14,
       <2>15, <2>16, <2>18, <2>19, <2>20 DEF Step
<1> QED
  BY <1>1, <1>2 DEF Next

THEOREM ShapeInvariant == Spec => []Shape
BY ShapeInit, ShapeNext, PTL DEF Spec

(***************************************************************************)
(* Second part: every unfinished task is in exactly one place.             *)
(***************************************************************************)

\* Activation a is at depth k of the stack of t; task x is at place j of the
\* queue.
At(t, k, a) == k \in 1 .. Len(stack[t]) /\ stack[t][k] = a
Queued(j, x) == j \in 1 .. Len(queue) /\ queue[j] = x

LEMMA PushAt ==
  ASSUME stack \in [Threads -> Seq(Activation)],
         NEW t \in Threads, NEW a \in Activation, Pushes(t, a)
  PROVE  /\ Len(stack[t]) \in Nat
         /\ \A u \in Threads : u # t => Len(stack'[u]) = Len(stack[u])
         /\ Len(stack'[t]) = Len(stack[t]) + 1
         /\ \A u \in Threads, k \in Nat, b \in Activation :
              At(u, k, b)' <=> At(u, k, b) \/ (u = t /\ k = Len(stack[t]) + 1 /\ b = a)
<1>1. /\ \A u \in Threads : u # t => stack'[u] = stack[u]
      /\ Len(stack[t]) \in Nat
      /\ Len(stack'[t]) = Len(stack[t]) + 1
      /\ \A k \in 1 .. Len(stack[t]) : stack'[t][k] = stack[t][k]
      /\ stack'[t][Len(stack[t]) + 1] = a
  BY PushFacts
<1>2. ASSUME NEW k \in Nat, NEW b \in Activation
      PROVE  At(t, k, b)' <=> At(t, k, b) \/ (k = Len(stack[t]) + 1 /\ b = a)
  <2>1. k \in 1 .. Len(stack[t]) + 1 <=> k \in 1 .. Len(stack[t]) \/ k = Len(stack[t]) + 1
    BY <1>1
  <2>2. k = Len(stack[t]) + 1 => k \notin 1 .. Len(stack[t])
    BY <1>1
  <2> QED
    BY <1>1, <2>1, <2>2 DEF At
<1>3. ASSUME NEW u \in Threads, u # t, NEW k \in Nat, NEW b \in Activation
      PROVE  At(u, k, b)' <=> At(u, k, b)
  BY <1>1, <1>3 DEF At
<1> QED
  BY <1>1, <1>2, <1>3

LEMMA PopAt ==
  ASSUME stack \in [Threads -> Seq(Activation)],
         NEW t \in Threads, stack[t] # <<>>, Pops(t)
  PROVE  /\ Len(stack[t]) \in Nat \ {0}
         /\ \A u \in Threads : u # t => Len(stack'[u]) = Len(stack[u])
         /\ Len(stack'[t]) = Len(stack[t]) - 1
         /\ \A u \in Threads, k \in Nat, b \in Activation :
              At(u, k, b)' <=> At(u, k, b) /\ ~ (u = t /\ k = Len(stack[t]))
<1>1. /\ \A u \in Threads : u # t => stack'[u] = stack[u]
      /\ Len(stack[t]) \in Nat \ {0}
      /\ Len(stack'[t]) = Len(stack[t]) - 1
      /\ \A k \in 1 .. Len(stack[t]) - 1 : stack'[t][k] = stack[t][k]
  BY PopFacts
<1>2. ASSUME NEW k \in Nat, NEW b \in Activation
      PROVE  At(t, k, b)' <=> At(t, k, b) /\ k # Len(stack[t])
  <2>1. k \in 1 .. Len(stack[t]) - 1 <=> k \in 1 .. Len(stack[t]) /\ k # Len(stack[t])
    BY <1>1
  <2> QED
    BY <1>1, <2>1 DEF At
<1>3. ASSUME NEW u \in Threads, u # t, NEW k \in Nat, NEW b \in Activation
      PROVE  At(u, k, b)' <=> At(u, k, b)
  BY <1>1, <1>3 DEF At
<1> QED
  BY <1>1, <1>2, <1>3

\* The top of a stack is at its depth, and nothing is above it.
LEMMA TopAt ==
  ASSUME stack \in [Threads -> Seq(Activation)], NEW t \in Threads
  PROVE  /\ Len(stack[t]) \in Nat
         /\ stack[t] # <<>> => Top(t) \in Activation /\ At(t, Len(stack[t]), Top(t))
         /\ \A k \in Nat, a \in Activation : At(t, k, a) =>
              stack[t] # <<>> /\ k <= Len(stack[t])
         /\ \A k \in Nat, a, b \in Activation : At(t, k, a) /\ At(t, k, b) => a = b
<1>1. Len(stack[t]) \in Nat
  BY LenProperties
<1>2. stack[t] = <<>> => Len(stack[t]) = 0
  BY EmptySeq
<1> QED
  BY <1>1, <1>2, TopFacts DEF At, Top

LEMMA EnqueueAt ==
  ASSUME Types, NEW c \in CallId,
         queue' = queue \o [i \in 1 .. count[c] |-> <<c, i>>]
  PROVE  /\ Len(queue) \in Nat /\ count[c] \in Nat
         /\ \A i \in 1 .. count[c] : <<c, i>> \in Task
         /\ \A j \in Nat, x \in Task :
              Queued(j, x)' <=> \/ Queued(j, x)
                                \/ \E i \in 1 .. count[c] : x = <<c, i>> /\ j = Len(queue) + i
<1> DEFINE tasks == [i \in 1 .. count[c] |-> <<c, i>>]
<1>1. count[c] \in 0 .. MaxWidth /\ count[c] \in Nat /\ \A i \in 1 .. count[c] : <<c, i>> \in Task
  BY ParPoolAssumption DEF Types, Task, Branch
<1>2. tasks \in Seq(Task)
  BY <1>1, IsASeq
<1>3. Len(tasks) = count[c] /\ \A i \in 1 .. count[c] : tasks[i] = <<c, i>>
  <2>1. DOMAIN tasks = 1 .. Len(tasks) /\ Len(tasks) \in Nat
    BY <1>2, LenProperties
  <2>2. DOMAIN tasks = 1 .. count[c]
    OBVIOUS
  <2>3. \A m, n \in Nat : 1 .. m = 1 .. n => m = n
    <3> SUFFICES ASSUME NEW m \in Nat, NEW n \in Nat, 1 .. m = 1 .. n PROVE m = n
      OBVIOUS
    <3>1. (m \in 1 .. m <=> m \in 1 .. n) /\ (n \in 1 .. m <=> n \in 1 .. n)
      OBVIOUS
    <3> QED
      BY <3>1
  <2> QED
    BY <1>1, <2>1, <2>2, <2>3
<1> HIDE DEF tasks
<1>4. /\ queue' \in Seq(Task)
      /\ Len(queue') = Len(queue) + count[c]
      /\ Len(queue) \in Nat
      /\ \A i \in 1 .. Len(queue) + count[c] :
           queue'[i] = IF i <= Len(queue) THEN queue[i] ELSE tasks[i - Len(queue)]
  BY <1>2, <1>3, ConcatProperties, LenProperties DEF Types, tasks
<1>5. ASSUME NEW j \in Nat, NEW x \in Task
      PROVE  Queued(j, x)' <=> \/ Queued(j, x)
                               \/ \E i \in 1 .. count[c] : x = <<c, i>> /\ j = Len(queue) + i
  <2>1. CASE j <= Len(queue)
    <3>1. Queued(j, x)' <=> Queued(j, x)
      BY <1>1, <1>4, <2>1 DEF Queued
    <3>2. ~ \E i \in 1 .. count[c] : j = Len(queue) + i
      BY <1>1, <1>4, <2>1
    <3> QED
      BY <3>1, <3>2
  <2>2. CASE ~ (j <= Len(queue))
    <3>1. ~ Queued(j, x)
      BY <1>4, <2>2 DEF Queued
    <3>2. ASSUME Queued(j, x)'
          PROVE  \E i \in 1 .. count[c] : x = <<c, i>> /\ j = Len(queue) + i
      <4>1. j - Len(queue) \in 1 .. count[c] /\ j = Len(queue) + (j - Len(queue))
            /\ j \in 1 .. Len(queue) + count[c]
        BY <1>1, <1>4, <2>2, <3>2 DEF Queued
      <4>2. x = tasks[j - Len(queue)]
        BY <1>4, <2>2, <3>2, <4>1 DEF Queued
      <4> QED
        BY <1>3, <4>1, <4>2
    <3>3. ASSUME NEW i \in 1 .. count[c], x = <<c, i>>, j = Len(queue) + i
          PROVE  Queued(j, x)'
      <4>1. j \in 1 .. Len(queue) + count[c] /\ j - Len(queue) = i
        BY <1>1, <1>4, <3>3
      <4> QED
        BY <1>3, <1>4, <2>2, <3>3, <4>1 DEF Queued
    <3> QED
      BY <3>1, <3>2, <3>3
  <2> QED
    BY <2>1, <2>2
<1> QED
  BY <1>1, <1>4, <1>5

LEMMA TakeAt ==
  ASSUME queue \in Seq(Task), queue # <<>>, queue' = Tail(queue)
  PROVE  /\ Head(queue) \in Task /\ Queued(1, Head(queue))
         /\ \A j \in Nat, x \in Task :
              Queued(j, x)' <=> j # 0 /\ Queued(j + 1, x)
<1>1. /\ Head(queue) \in Task
      /\ Tail(queue) \in Seq(Task)
      /\ Len(Tail(queue)) = Len(queue) - 1
      /\ \A i \in 1 .. Len(Tail(queue)) : Tail(queue)[i] = queue[i + 1]
  BY HeadTailProperties
<1>2. Len(queue) \in Nat \ {0} /\ Head(queue) = queue[1]
  BY EmptySeq
<1>3. ASSUME NEW j \in Nat, NEW x \in Task
      PROVE  Queued(j, x)' <=> j # 0 /\ Queued(j + 1, x)
  <2>1. j \in 1 .. Len(queue) - 1 <=> j # 0 /\ j + 1 \in 1 .. Len(queue)
    BY <1>2
  <2> QED
    BY <1>1, <2>1 DEF Queued
<1> QED
  BY <1>1, <1>2, <1>3 DEF Queued

\* A task is new exactly until its call has pushed it.
StatusNew ==
  /\ \A x \in Task : status[x] # "new" => x[1] <= ncalls /\ x[2] <= count[x[1]]
  /\ \A t \in Threads : pc[t] = "enqueue" =>
       \A x \in Task : x[1] = Top(t)[1] => status[x] = "new"
  /\ \A x \in Task : x[1] <= ncalls /\ x[2] <= count[x[1]] /\ status[x] = "new" =>
       \E t \in Threads : pc[t] = "enqueue" /\ Top(t)[1] = x[1]

\* A task is queued exactly while it is in the queue, at one place.
StatusQueued ==
  /\ \A j \in Nat, x \in Task : Queued(j, x) => status[x] = "queued"
  /\ \A x \in Task : status[x] = "queued" => \E j \in Nat : Queued(j, x)
  /\ \A i, j \in Nat, x \in Task : Queued(i, x) /\ Queued(j, x) => i = j

\* A task is popped exactly while it is on a stack and has not decremented
\* `remaining`; it then stays on top until its thread has notified.
StatusPopped ==
  /\ \A t \in Threads, k \in Nat, x \in Task : At(t, k, x) =>
       status[x] = IF k = Len(stack[t]) /\ pc[t] = "notifyCall" THEN "done" ELSE "popped"
  /\ \A x \in Task : status[x] = "popped" =>
       \E t \in Threads, k \in Nat : At(t, k, x)

\* A task is executed, and a call waited for, at one place of one stack.
OnePlace ==
  \A a \in Activation, t, u \in Threads, j, k \in Nat :
    At(t, j, a) /\ At(u, k, a) => t = u /\ j = k

\* A call is younger than everything below it on its stack.
CallsIncrease ==
  /\ \A t \in Threads, k \in Nat, a \in Activation : At(t, k, a) => a[1] <= ncalls
  /\ \A t \in Threads, j, k \in Nat, a, b \in Activation :
       At(t, j, a) /\ At(t, k, b) /\ j < k /\ IsCall(b) => a[1] < b[1]

Ownership == StatusNew /\ StatusQueued /\ StatusPopped /\ OnePlace /\ CallsIncrease

LEMMA OwnershipInit == Init => Ownership
<1> SUFFICES ASSUME Init PROVE Ownership
  OBVIOUS
<1>1. \A t \in Threads : stack[t] = <<>> /\ pc[t] # "enqueue" /\ Len(stack[t]) = 0
  BY DEF Init
<1>2. \A t \in Threads, k \in Nat, a \in Activation : ~ At(t, k, a)
  BY <1>1 DEF At
<1>3. \A j \in Nat, x \in Task : ~ Queued(j, x)
  BY DEF Init, Queued
<1>4. \A x \in Task : status[x] = "new" /\ count[x[1]] = 0 /\ x[2] \in Nat \ {0}
  BY ParPoolAssumption DEF Init, Task, Branch
<1> QED
  BY <1>1, <1>2, <1>3, <1>4, TaskFacts
  DEF Ownership, StatusNew, StatusQueued, StatusPopped, OnePlace, CallsIncrease

\* Steps that move no task and no call.
LEMMA OwnershipQuiet ==
  ASSUME Shape, Ownership,
         UNCHANGED <<queue, ncalls, count, status, stack>>,
         \A u \in Threads : /\ pc'[u] = "enqueue" <=> pc[u] = "enqueue"
                            /\ pc'[u] = "notifyCall" <=> pc[u] = "notifyCall"
  PROVE  Ownership'
<1>1. \A t \in Threads, k \in Nat, a \in Activation : At(t, k, a)' <=> At(t, k, a)
  BY DEF At
<1>2. \A j \in Nat, x \in Task : Queued(j, x)' <=> Queued(j, x)
  BY DEF Queued
<1>3. \A t \in Threads : Top(t)' = Top(t) /\ Len(stack[t])' = Len(stack[t])
  BY DEF Top
<1>4. StatusNew'
  BY <1>3 DEF Ownership, StatusNew
<1>5. StatusQueued'
  BY <1>2 DEF Ownership, StatusQueued
<1>6. StatusPopped'
  BY <1>1, <1>3, TaskFacts DEF Ownership, StatusPopped
<1>7. OnePlace' /\ CallsIncrease'
  BY <1>1 DEF Ownership, OnePlace, CallsIncrease
<1> QED
  BY <1>4, <1>5, <1>6, <1>7 DEF Ownership

LEMMA OwnershipParRun ==
  ASSUME Shape, Ownership, NEW t \in Threads, NEW n \in Branch, ParRun(t, n)
  PROVE  Ownership'
<1> DEFINE d == ncalls + 1
           a == CallActivation(d)
<1>0. Types /\ stack \in [Threads -> Seq(Activation)] /\ PcFits(t)
  BY DEF Shape, Types
<1>1. /\ ncalls \in Nat /\ d \in CallId /\ ncalls' = d
      /\ a \in Activation /\ IsCall(a) /\ a[1] = d /\ a \notin Task
  BY <1>0, ParPoolAssumption, TaskFacts
  DEF ParRun, Types, CallId, CallActivation, IsCall, Activation
<1>2. Pushes(t, a) /\ pc[t] = "user"
  BY DEF ParRun, Pushes
<1>3. /\ Len(stack[t]) \in Nat
      /\ \A u \in Threads : u # t => Len(stack'[u]) = Len(stack[u])
      /\ Len(stack'[t]) = Len(stack[t]) + 1
      /\ \A u \in Threads, k \in Nat, b \in Activation :
           At(u, k, b)' <=> At(u, k, b) \/ (u = t /\ k = Len(stack[t]) + 1 /\ b = a)
  BY <1>0, <1>1, <1>2, PushAt
<1>4. /\ \A u \in Threads : u # t => Top(u)' = Top(u)
      /\ Top(t)' = a
  BY <1>0, <1>1, <1>2, PushFacts DEF Top
<1>5. /\ pc'[t] = "enqueue"
      /\ \A u \in Threads : u # t => /\ pc'[u] = "enqueue" <=> pc[u] = "enqueue"
                                     /\ pc'[u] = "notifyCall" <=> pc[u] = "notifyCall"
  BY <1>0 DEF ParRun, Types
<1>6. UNCHANGED <<queue, status>> /\ \A c \in CallId : c # d => count'[c] = count[c]
  BY <1>0, <1>1 DEF ParRun, Types
<1>7. \A x \in Task : x[1] \in Nat /\ x[2] \in Nat /\ x[1] \in CallId /\ x \in Activation
  BY ParPoolAssumption, TaskFacts DEF CallId, Branch
<1>8. \A x \in Task : x[1] = d => status[x] = "new"
  BY <1>1, <1>7 DEF Ownership, StatusNew
<1>9. StatusNew'
  <2>1. ASSUME NEW x \in Task, status'[x] # "new"
        PROVE  x[1] <= ncalls' /\ x[2] <= count'[x[1]]
    <3>1. x[1] <= ncalls /\ x[2] <= count[x[1]]
      BY <1>6, <2>1 DEF Ownership, StatusNew
    <3> QED
      BY <1>1, <1>6, <1>7, <3>1
  <2>2. ASSUME NEW u \in Threads, pc'[u] = "enqueue", NEW x \in Task, x[1] = Top(u)'[1]
        PROVE  status'[x] = "new"
    <3>1. CASE u = t
      BY <1>1, <1>4, <1>6, <1>8, <2>2, <3>1
    <3>2. CASE u # t
      BY <1>4, <1>5, <1>6, <2>2, <3>2 DEF Ownership, StatusNew
    <3> QED
      BY <3>1, <3>2
  <2>3. ASSUME NEW x \in Task, x[1] <= ncalls', x[2] <= count'[x[1]], status'[x] = "new"
        PROVE  \E u \in Threads : pc'[u] = "enqueue" /\ Top(u)'[1] = x[1]
    <3>1. CASE x[1] = d
      BY <1>1, <1>4, <1>5, <3>1
    <3>2. CASE x[1] # d
      <4>1. x[1] <= ncalls /\ x[2] <= count[x[1]] /\ status[x] = "new"
        BY <1>1, <1>6, <1>7, <2>3, <3>2
      <4>2. PICK u \in Threads : pc[u] = "enqueue" /\ Top(u)[1] = x[1]
        BY <4>1 DEF Ownership, StatusNew
      <4> QED
        BY <1>2, <1>4, <1>5, <4>2
    <3> QED
      BY <3>1, <3>2
  <2> QED
    BY <2>1, <2>2, <2>3 DEF StatusNew
<1>10. StatusQueued'
  <2>1. \A j \in Nat, x \in Task : Queued(j, x)' <=> Queued(j, x)
    BY <1>6 DEF Queued
  <2> QED
    BY <1>6, <2>1 DEF Ownership, StatusQueued
<1>11. StatusPopped'
  <2>1. \A u \in Threads, k \in Nat, x \in Task : At(u, k, x)' <=> At(u, k, x)
    BY <1>1, <1>3, <1>7
  <2>2. ASSUME NEW u \in Threads, NEW k \in Nat, NEW x \in Task, At(u, k, x)'
        PROVE  status'[x] = IF k = Len(stack'[u]) /\ pc'[u] = "notifyCall" THEN "done" ELSE "popped"
    <3>1. At(u, k, x) /\ status[x] = IF k = Len(stack[u]) /\ pc[u] = "notifyCall" THEN "done" ELSE "popped"
      BY <2>1, <2>2 DEF Ownership, StatusPopped
    <3>2. CASE u = t
      BY <1>2, <1>5, <1>6, <3>1, <3>2
    <3>3. CASE u # t
      BY <1>3, <1>5, <1>6, <3>1, <3>3
    <3> QED
      BY <3>2, <3>3
  <2> QED
    BY <1>6, <2>1, <2>2 DEF Ownership, StatusPopped
<1>12. \A u \in Threads, k \in Nat, b \in Activation : At(u, k, b) => b[1] <= ncalls /\ b # a
  BY <1>1 DEF Ownership, CallsIncrease
<1>13. OnePlace'
  BY <1>3, <1>12 DEF Ownership, OnePlace
<1>14. CallsIncrease'
  <2>0. \A b \in Activation : b[1] \in Nat
    BY DEF Activation, CallId
  <2>1. ASSUME NEW u \in Threads, NEW k \in Nat, NEW b \in Activation, At(u, k, b)'
        PROVE  b[1] <= ncalls'
    BY <1>1, <1>3, <1>12, <2>0, <2>1
  <2>2. ASSUME NEW u \in Threads, NEW j \in Nat, NEW k \in Nat,
               NEW b \in Activation, NEW e \in Activation,
               At(u, j, b)', At(u, k, e)', j < k, IsCall(e)
        PROVE  b[1] < e[1]
    <3>1. CASE At(u, k, e)
      <4>1. k \in 1 .. Len(stack[u])
        BY <3>1 DEF At
      <4>2. At(u, j, b)
        BY <1>3, <2>2, <4>1
      <4> QED
        BY <2>2, <3>1, <4>2 DEF Ownership, CallsIncrease
    <3>2. CASE u = t /\ k = Len(stack[t]) + 1 /\ e = a
      <4>1. At(u, j, b)
        BY <1>3, <2>2, <3>2
      <4> QED
        BY <1>1, <1>12, <2>0, <3>2, <4>1
    <3> QED
      BY <1>3, <2>2, <3>1, <3>2
  <2> QED
    BY <2>1, <2>2 DEF CallsIncrease
<1> QED
  BY <1>9, <1>10, <1>11, <1>13, <1>14 DEF Ownership

LEMMA OwnershipEnqueue ==
  ASSUME Shape, Ownership, NEW t \in Threads, Enqueue(t)
  PROVE  Ownership'
<1> DEFINE c == Top(t)[1]
<1>0. /\ Types /\ stack \in [Threads -> Seq(Activation)] /\ PcFits(t)
      /\ pc[t] = "enqueue" /\ stack[t] # <<>> /\ IsCall(Top(t))
  BY DEF Shape, Types, PcFits, InCall, Enqueue
<1>1. Top(t) \in Activation /\ c \in CallId /\ c <= ncalls /\ At(t, Len(stack[t]), Top(t))
      /\ Len(stack[t]) \in Nat
  BY <1>0, TopAt DEF Activation, Ownership, CallsIncrease
<1>2. /\ queue' = queue \o [i \in 1 .. count[c] |-> <<c, i>>]
      /\ status' = [x \in Task |-> IF x[1] = c /\ x[2] <= count[c] THEN "queued" ELSE status[x]]
      /\ pc'[t] = "notifyPool" /\ \A u \in Threads : u # t => pc'[u] = pc[u]
      /\ UNCHANGED <<ncalls, count, stack>>
  BY <1>0 DEF Enqueue, Types
<1>3. /\ Len(queue) \in Nat /\ count[c] \in Nat
      /\ \A i \in 1 .. count[c] : <<c, i>> \in Task
      /\ \A j \in Nat, x \in Task :
           Queued(j, x)' <=> \/ Queued(j, x)
                             \/ \E i \in 1 .. count[c] : x = <<c, i>> /\ j = Len(queue) + i
  BY <1>0, <1>1, <1>2, EnqueueAt
<1>4. /\ \A u \in Threads : Top(u)' = Top(u) /\ Len(stack'[u]) = Len(stack[u])
      /\ \A u \in Threads, k \in Nat, b \in Activation : At(u, k, b)' <=> At(u, k, b)
  BY <1>2 DEF Top, At
<1>5. ASSUME NEW u \in Threads, u # t, pc[u] = "enqueue" PROVE Top(u)[1] # c
  <2>1. stack[u] # <<>> /\ IsCall(Top(u)) /\ PcFits(u)
    BY <1>5 DEF Shape, PcFits, InCall
  <2>2. Top(u) \in Activation /\ At(u, Len(stack[u]), Top(u)) /\ Len(stack[u]) \in Nat
    BY <1>0, <2>1, TopAt
  <2>3. Top(u) # Top(t)
    BY <1>1, <1>5, <2>2 DEF Ownership, OnePlace
  <2> QED
    BY <1>0, <1>1, <2>1, <2>2, <2>3 DEF Activation, IsCall
<1>6. \A x \in Task : /\ x[1] \in CallId /\ x[2] \in Nat \ {0} /\ x = <<x[1], x[2]>>
                      /\ x \in Activation
  BY ParPoolAssumption, TaskFacts DEF Branch
<1>7. \A x \in Task : x[1] = c => status[x] = "new"
  BY <1>0 DEF Ownership, StatusNew
<1>8. \A x \in Task : status'[x] = IF x[1] = c /\ x[2] <= count[c] THEN "queued" ELSE status[x]
  BY <1>2
<1>9. StatusNew'
  <2>1. ASSUME NEW x \in Task, status'[x] # "new"
        PROVE  x[1] <= ncalls' /\ x[2] <= count'[x[1]]
    BY <1>1, <1>2, <1>8, <2>1 DEF Ownership, StatusNew
  <2>2. ASSUME NEW u \in Threads, pc'[u] = "enqueue", NEW x \in Task, x[1] = Top(u)'[1]
        PROVE  status'[x] = "new"
    <3>1. u # t /\ pc[u] = "enqueue"
      BY <1>2, <2>2
    <3> QED
      BY <1>4, <1>5, <1>8, <2>2, <3>1 DEF Ownership, StatusNew
  <2>3. ASSUME NEW x \in Task, x[1] <= ncalls', x[2] <= count'[x[1]], status'[x] = "new"
        PROVE  \E u \in Threads : pc'[u] = "enqueue" /\ Top(u)'[1] = x[1]
    <3>1. x[1] # c /\ status[x] = "new"
      BY <1>2, <1>8, <2>3
    <3>2. PICK u \in Threads : pc[u] = "enqueue" /\ Top(u)[1] = x[1]
      BY <1>2, <2>3, <3>1 DEF Ownership, StatusNew
    <3> QED
      BY <1>2, <1>4, <3>1, <3>2
  <2> QED
    BY <2>1, <2>2, <2>3 DEF StatusNew
<1>10. \A j \in Nat, x \in Task : Queued(j, x) => j <= Len(queue) /\ x[1] # c
  BY <1>3, <1>7 DEF Ownership, StatusQueued, Queued
<1>11. StatusQueued'
  <2>1. ASSUME NEW j \in Nat, NEW x \in Task, Queued(j, x)'
        PROVE  status'[x] = "queued"
    BY <1>3, <1>8, <2>1 DEF Ownership, StatusQueued
  <2>2. ASSUME NEW x \in Task, status'[x] = "queued"
        PROVE  \E j \in Nat : Queued(j, x)'
    <3>1. CASE x[1] = c /\ x[2] <= count[c]
      <4>1. x[2] \in 1 .. count[c] /\ Len(queue) + x[2] \in Nat
        BY <1>3, <1>6, <3>1
      <4>2. x = <<c, x[2]>>
        BY <1>6, <3>1
      <4>3. PICK j \in Nat : j = Len(queue) + x[2]
        BY <4>1
      <4>4. Queued(j, x)'
        BY <1>3, <4>1, <4>2, <4>3
      <4> QED
        BY <4>4
    <3>2. CASE ~ (x[1] = c /\ x[2] <= count[c])
      BY <1>3, <1>8, <2>2, <3>2 DEF Ownership, StatusQueued
    <3> QED
      BY <3>1, <3>2
  <2>3. ASSUME NEW i \in Nat, NEW j \in Nat, NEW x \in Task, Queued(i, x)', Queued(j, x)'
        PROVE  i = j
    <3>1. CASE x[1] # c
      <4>1. Queued(i, x) /\ Queued(j, x)
        BY <1>3, <2>3, <3>1
      <4> QED
        BY <4>1 DEF Ownership, StatusQueued
    <3>2. CASE x[1] = c
      BY <1>3, <1>10, <2>3, <3>2
    <3> QED
      BY <3>1, <3>2
  <2> QED
    BY <2>1, <2>2, <2>3 DEF StatusQueued
<1>12. StatusPopped'
  <2>1. ASSUME NEW u \in Threads, NEW k \in Nat, NEW x \in Task, At(u, k, x)
        PROVE  /\ status[x] # "new" /\ status'[x] = status[x]
               /\ status'[x] = IF k = Len(stack'[u]) /\ pc'[u] = "notifyCall" THEN "done" ELSE "popped"
    <3>1. status[x] = IF k = Len(stack[u]) /\ pc[u] = "notifyCall" THEN "done" ELSE "popped"
      BY <2>1 DEF Ownership, StatusPopped
    <3>2. status'[x] = status[x]
      BY <1>7, <1>8, <3>1
    <3>3. pc'[u] = "notifyCall" <=> pc[u] = "notifyCall"
      BY <1>0, <1>2
    <3> QED
      BY <1>4, <3>1, <3>2, <3>3
  <2>2. ASSUME NEW x \in Task, status'[x] = "popped"
        PROVE  \E u \in Threads, k \in Nat : At(u, k, x)'
    <3>1. status[x] = "popped"
      BY <1>8, <2>2
    <3>2. PICK u \in Threads, k \in Nat : At(u, k, x)
      BY <3>1 DEF Ownership, StatusPopped
    <3> QED
      BY <1>4, <1>6, <3>2
  <2> QED
    BY <1>4, <1>6, <2>1, <2>2 DEF StatusPopped
<1>13. OnePlace'
  BY <1>4 DEF Ownership, OnePlace
<1>14. CallsIncrease'
  BY <1>2, <1>4 DEF Ownership, CallsIncrease
<1> QED
  BY <1>9, <1>11, <1>12, <1>13, <1>14 DEF Ownership

LEMMA OwnershipTake ==
  ASSUME Shape, Ownership, NEW t \in Threads, TakeTask(t)
  PROVE  Ownership'
<1> DEFINE a == Head(queue)
<1>0. /\ Types /\ stack \in [Threads -> Seq(Activation)] /\ queue \in Seq(Task)
      /\ queue # <<>> /\ queue' = Tail(queue) /\ Pushes(t, a)
      /\ pc[t] \in {"idle", "help"} /\ pc'[t] = "start"
      /\ \A u \in Threads : u # t => pc'[u] = pc[u]
      /\ UNCHANGED <<ncalls, count>>
  BY DEF Shape, Types, TakeTask, Pushes
<1>1. /\ a \in Task /\ Queued(1, a)
      /\ \A j \in Nat, x \in Task : Queued(j, x)' <=> j # 0 /\ Queued(j + 1, x)
  BY <1>0, TakeAt
<1>2. a \in Activation /\ ~ IsCall(a) /\ \A x \in Task : x \in Activation
  BY <1>1, TaskFacts
<1>3. /\ Len(stack[t]) \in Nat
      /\ \A u \in Threads : u # t => Len(stack'[u]) = Len(stack[u])
      /\ Len(stack'[t]) = Len(stack[t]) + 1
      /\ \A u \in Threads, k \in Nat, b \in Activation :
           At(u, k, b)' <=> At(u, k, b) \/ (u = t /\ k = Len(stack[t]) + 1 /\ b = a)
  BY <1>0, <1>2, PushAt
<1>4. \A u \in Threads : u # t => Top(u)' = Top(u)
  BY <1>0, <1>2, PushFacts DEF Top
<1>5. status[a] = "queued"
  BY <1>1 DEF Ownership, StatusQueued
<1>6. status'[a] = "popped" /\ \A x \in Task : x # a => status'[x] = status[x]
  BY <1>0, <1>1 DEF TakeTask, Types
<1>7. StatusNew'
  <2>1. ASSUME NEW x \in Task, status'[x] # "new"
        PROVE  x[1] <= ncalls' /\ x[2] <= count'[x[1]]
    BY <1>0, <1>5, <1>6, <2>1 DEF Ownership, StatusNew
  <2>2. ASSUME NEW u \in Threads, pc'[u] = "enqueue", NEW x \in Task, x[1] = Top(u)'[1]
        PROVE  status'[x] = "new"
    <3>1. u # t /\ pc[u] = "enqueue" /\ Top(u)' = Top(u)
      BY <1>0, <1>4, <2>2
    <3>2. status[x] = "new"
      BY <2>2, <3>1 DEF Ownership, StatusNew
    <3> QED
      BY <1>5, <1>6, <3>2
  <2>3. ASSUME NEW x \in Task, x[1] <= ncalls', x[2] <= count'[x[1]], status'[x] = "new"
        PROVE  \E u \in Threads : pc'[u] = "enqueue" /\ Top(u)'[1] = x[1]
    <3>1. status[x] = "new"
      BY <1>6, <2>3
    <3>2. PICK u \in Threads : pc[u] = "enqueue" /\ Top(u)[1] = x[1]
      BY <1>0, <2>3, <3>1 DEF Ownership, StatusNew
    <3> QED
      BY <1>0, <1>4, <3>2
  <2> QED
    BY <2>1, <2>2, <2>3 DEF StatusNew
<1>8. StatusQueued'
  <2>1. ASSUME NEW j \in Nat, NEW x \in Task, Queued(j, x)'
        PROVE  x # a /\ status'[x] = "queued"
    <3>1. j + 1 \in Nat /\ j + 1 # 1 /\ Queued(j + 1, x)
      BY <1>1, <2>1
    <3>2. x # a /\ status[x] = "queued"
      BY <1>1, <3>1 DEF Ownership, StatusQueued
    <3> QED
      BY <1>6, <3>2
  <2>2. ASSUME NEW x \in Task, status'[x] = "queued"
        PROVE  \E j \in Nat : Queued(j, x)'
    <3>1. x # a /\ status[x] = "queued"
      BY <1>6, <2>2
    <3>2. PICK j \in Nat : Queued(j, x)
      BY <3>1 DEF Ownership, StatusQueued
    <3>3. j # 1 /\ j # 0
      BY <1>1, <3>1, <3>2 DEF Queued
    <3>4. j - 1 \in Nat /\ j - 1 # 0 /\ (j - 1) + 1 = j
      BY <3>3
    <3> QED
      BY <1>1, <3>2, <3>4
  <2>3. ASSUME NEW i \in Nat, NEW j \in Nat, NEW x \in Task, Queued(i, x)', Queued(j, x)'
        PROVE  i = j
    <3>1. i + 1 \in Nat /\ j + 1 \in Nat /\ Queued(i + 1, x) /\ Queued(j + 1, x)
      BY <1>1, <2>3
    <3>2. i + 1 = j + 1
      BY <3>1 DEF Ownership, StatusQueued
    <3> QED
      BY <3>2
  <2> QED
    BY <2>1, <2>2, <2>3 DEF StatusQueued
<1>9. \A u \in Threads, k \in Nat : ~ At(u, k, a)
  BY <1>1, <1>5 DEF Ownership, StatusPopped
<1>10. StatusPopped'
  <2>1. ASSUME NEW u \in Threads, NEW k \in Nat, NEW x \in Task, At(u, k, x)'
        PROVE  status'[x] = IF k = Len(stack'[u]) /\ pc'[u] = "notifyCall" THEN "done" ELSE "popped"
    <3>1. CASE x = a
      <4>1. u = t
        BY <1>3, <1>9, <2>1, <3>1, <1>2
      <4> QED
        BY <1>0, <1>6, <3>1, <4>1
    <3>2. CASE x # a
      <4>1. At(u, k, x)
        BY <1>2, <1>3, <2>1, <3>2
      <4>2. status[x] = IF k = Len(stack[u]) /\ pc[u] = "notifyCall" THEN "done" ELSE "popped"
        BY <4>1 DEF Ownership, StatusPopped
      <4>3. CASE u = t
        BY <1>0, <1>6, <3>2, <4>2, <4>3
      <4>4. CASE u # t
        BY <1>0, <1>3, <1>6, <3>2, <4>2, <4>4
      <4> QED
        BY <4>3, <4>4
    <3> QED
      BY <3>1, <3>2
  <2>2. ASSUME NEW x \in Task, status'[x] = "popped"
        PROVE  \E u \in Threads, k \in Nat : At(u, k, x)'
    <3>1. CASE x = a
      <4>1. Len(stack[t]) + 1 \in Nat
        BY <1>3
      <4> QED
        BY <1>2, <1>3, <3>1, <4>1
    <3>2. CASE x # a
      <4>1. status[x] = "popped"
        BY <1>6, <2>2, <3>2
      <4>2. PICK u \in Threads, k \in Nat : At(u, k, x)
        BY <4>1 DEF Ownership, StatusPopped
      <4> QED
        BY <1>2, <1>3, <4>2
    <3> QED
      BY <3>1, <3>2
  <2> QED
    BY <2>1, <2>2 DEF StatusPopped
<1>11. OnePlace'
  BY <1>3, <1>9 DEF Ownership, OnePlace
<1>12. CallsIncrease'
  <2>1. a[1] <= ncalls
    BY <1>1, <1>5 DEF Ownership, StatusNew
  <2>2. \A u \in Threads, k \in Nat, b \in Activation : At(u, k, b)' => b[1] <= ncalls
    BY <1>3, <2>1 DEF Ownership, CallsIncrease
  <2>3. ASSUME NEW u \in Threads, NEW j \in Nat, NEW k \in Nat,
               NEW b \in Activation, NEW e \in Activation,
               At(u, j, b)', At(u, k, e)', j < k, IsCall(e)
        PROVE  b[1] < e[1]
    <3>1. At(u, k, e)
      BY <1>2, <1>3, <2>3
    <3>2. k \in 1 .. Len(stack[u])
      BY <3>1 DEF At
    <3>3. At(u, j, b)
      BY <1>3, <2>3, <3>2
    <3> QED
      BY <2>3, <3>1, <3>3 DEF Ownership, CallsIncrease
  <2> QED
    BY <1>0, <2>2, <2>3 DEF CallsIncrease
<1> QED
  BY <1>7, <1>8, <1>10, <1>11, <1>12 DEF Ownership

\* Steps that end the top activation of t: a call returns, or a task is done.
LEMMA OwnershipPop ==
  ASSUME Shape, Ownership, NEW t \in Threads, stack[t] # <<>>, Pops(t),
         UNCHANGED <<queue, ncalls, count>>,
         pc[t] # "enqueue", pc'[t] \notin {"enqueue", "notifyCall"},
         \A u \in Threads : u # t => /\ pc'[u] = "enqueue" <=> pc[u] = "enqueue"
                                     /\ pc'[u] = "notifyCall" <=> pc[u] = "notifyCall",
         \A x \in Task : status'[x] = IF x = Top(t) THEN "done" ELSE status[x]
  PROVE  Ownership'
<1>0. Types /\ stack \in [Threads -> Seq(Activation)]
  BY DEF Shape, Types
<1>1. /\ Len(stack[t]) \in Nat \ {0}
      /\ \A u \in Threads : u # t => Len(stack'[u]) = Len(stack[u])
      /\ Len(stack'[t]) = Len(stack[t]) - 1
      /\ \A u \in Threads, k \in Nat, b \in Activation :
           At(u, k, b)' <=> At(u, k, b) /\ ~ (u = t /\ k = Len(stack[t]))
  BY <1>0, PopAt
<1>2. \A u \in Threads : u # t => Top(u)' = Top(u)
  BY <1>0, PopFacts DEF Top
<1>3. Top(t) \in Activation /\ At(t, Len(stack[t]), Top(t)) /\ Len(stack[t]) \in Nat
  BY <1>0, TopAt
<1>4. \A x \in Task : x \in Activation
  BY TaskFacts
<1>5. Top(t) \in Task => status[Top(t)] \in {"popped", "done"}
  BY <1>3 DEF Ownership, StatusPopped
<1>6. StatusNew'
  <2>1. ASSUME NEW x \in Task, status'[x] # "new"
        PROVE  x[1] <= ncalls' /\ x[2] <= count'[x[1]]
    <3>1. status[x] # "new"
      BY <1>5, <2>1
    <3> QED
      BY <3>1 DEF Ownership, StatusNew
  <2>2. ASSUME NEW u \in Threads, pc'[u] = "enqueue", NEW x \in Task, x[1] = Top(u)'[1]
        PROVE  status'[x] = "new"
    <3>1. u # t /\ pc[u] = "enqueue" /\ x[1] = Top(u)[1]
      BY <1>2, <2>2
    <3>2. status[x] = "new"
      BY <3>1 DEF Ownership, StatusNew
    <3> QED
      BY <1>5, <3>2
  <2>3. ASSUME NEW x \in Task, x[1] <= ncalls', x[2] <= count'[x[1]], status'[x] = "new"
        PROVE  \E u \in Threads : pc'[u] = "enqueue" /\ Top(u)'[1] = x[1]
    <3>1. status[x] = "new"
      BY <2>3
    <3>2. PICK u \in Threads : pc[u] = "enqueue" /\ Top(u)[1] = x[1]
      BY <2>3, <3>1 DEF Ownership, StatusNew
    <3> QED
      BY <1>2, <3>2
  <2> QED
    BY <2>1, <2>2, <2>3 DEF StatusNew
<1>7. StatusQueued'
  <2>1. \A j \in Nat, x \in Task : Queued(j, x)' <=> Queued(j, x)
    BY DEF Queued
  <2>2. \A x \in Task : status'[x] = "queued" <=> status[x] = "queued"
    BY <1>5
  <2> QED
    BY <2>1, <2>2 DEF Ownership, StatusQueued
<1>8. \A u \in Threads, k \in Nat, b \in Activation : At(u, k, b)' => At(u, k, b) /\ b # Top(t)
  BY <1>1, <1>3 DEF Ownership, OnePlace
<1>9. StatusPopped'
  <2>1. ASSUME NEW u \in Threads, NEW k \in Nat, NEW x \in Task, At(u, k, x)'
        PROVE  status'[x] = IF k = Len(stack'[u]) /\ pc'[u] = "notifyCall" THEN "done" ELSE "popped"
    <3>1. At(u, k, x) /\ status'[x] = status[x] /\ ~ (u = t /\ k = Len(stack[t]))
      BY <1>1, <1>4, <1>8, <2>1
    <3>2. status[x] = IF k = Len(stack[u]) /\ pc[u] = "notifyCall" THEN "done" ELSE "popped"
      BY <3>1 DEF Ownership, StatusPopped
    <3>3. CASE u = t
      BY <3>1, <3>2, <3>3
    <3>4. CASE u # t
      BY <1>1, <3>1, <3>2, <3>4
    <3> QED
      BY <3>3, <3>4
  <2>2. ASSUME NEW x \in Task, status'[x] = "popped"
        PROVE  \E u \in Threads, k \in Nat : At(u, k, x)'
    <3>1. x # Top(t) /\ status[x] = "popped"
      BY <2>2
    <3>2. PICK u \in Threads, k \in Nat : At(u, k, x)
      BY <3>1 DEF Ownership, StatusPopped
    <3>3. ~ (u = t /\ k = Len(stack[t]))
      BY <3>1, <3>2 DEF At, Top
    <3> QED
      BY <1>1, <1>4, <3>2, <3>3
  <2> QED
    BY <2>1, <2>2 DEF StatusPopped
<1>10. OnePlace'
  BY <1>8 DEF Ownership, OnePlace
<1>11. CallsIncrease'
  BY <1>8 DEF Ownership, CallsIncrease
<1> QED
  BY <1>6, <1>7, <1>9, <1>10, <1>11 DEF Ownership

\* The last task of a call is done and stays on its stack to notify.
LEMMA OwnershipLast ==
  ASSUME Shape, Ownership, NEW t \in Threads, FinishTask(t), remaining[Top(t)[1]] = 1
  PROVE  Ownership'
<1>0. /\ Types /\ stack \in [Threads -> Seq(Activation)]
      /\ stack[t] # <<>> /\ ~ IsCall(Top(t)) /\ pc[t] = "finish"
      /\ pc'[t] = "notifyCall" /\ \A u \in Threads : u # t => pc'[u] = pc[u]
      /\ UNCHANGED <<queue, ncalls, count, stack>>
  BY DEF Shape, Types, PcFits, InTask, FinishTask
<1>1. Top(t) \in Task /\ At(t, Len(stack[t]), Top(t)) /\ Len(stack[t]) \in Nat
  BY <1>0, TopAt, TaskFacts
<1>2. status[Top(t)] = "popped"
  BY <1>0, <1>1 DEF Ownership, StatusPopped
<1>3. \A x \in Task : status'[x] = IF x = Top(t) THEN "done" ELSE status[x]
  BY <1>0, <1>1 DEF FinishTask, Types
<1>4. /\ \A u \in Threads : Top(u)' = Top(u) /\ Len(stack'[u]) = Len(stack[u])
      /\ \A u \in Threads, k \in Nat, b \in Activation : At(u, k, b)' <=> At(u, k, b)
      /\ \A j \in Nat, x \in Task : Queued(j, x)' <=> Queued(j, x)
  BY <1>0 DEF Top, At, Queued
<1>5. \A u \in Threads : pc'[u] = "enqueue" <=> pc[u] = "enqueue"
  BY <1>0
<1>6. StatusNew'
  <2>1. \A x \in Task : status'[x] = "new" <=> status[x] = "new"
    BY <1>2, <1>3
  <2> QED
    BY <1>0, <1>4, <1>5, <2>1 DEF Ownership, StatusNew
<1>7. StatusQueued'
  <2>1. \A x \in Task : status'[x] = "queued" <=> status[x] = "queued"
    BY <1>2, <1>3
  <2> QED
    BY <1>4, <2>1 DEF Ownership, StatusQueued
<1>8. StatusPopped'
  <2>0. \A x \in Task : x \in Activation
    BY TaskFacts
  <2>1. ASSUME NEW u \in Threads, NEW k \in Nat, NEW x \in Task, At(u, k, x)'
        PROVE  status'[x] = IF k = Len(stack'[u]) /\ pc'[u] = "notifyCall" THEN "done" ELSE "popped"
    <3>1. At(u, k, x)
      BY <1>4, <2>0, <2>1
    <3>2. status[x] = IF k = Len(stack[u]) /\ pc[u] = "notifyCall" THEN "done" ELSE "popped"
      BY <3>1 DEF Ownership, StatusPopped
    <3>3. CASE x = Top(t)
      <4>1. u = t /\ k = Len(stack[t])
        BY <1>1, <2>0, <3>1, <3>3 DEF Ownership, OnePlace
      <4> QED
        BY <1>0, <1>3, <1>4, <3>3, <4>1
    <3>4. CASE x # Top(t)
      <4>1. ~ (u = t /\ k = Len(stack[t]))
        BY <3>1, <3>4 DEF At, Top
      <4> QED
        BY <1>0, <1>3, <1>4, <3>2, <3>4, <4>1
    <3> QED
      BY <3>3, <3>4
  <2>2. ASSUME NEW x \in Task, status'[x] = "popped"
        PROVE  \E u \in Threads, k \in Nat : At(u, k, x)'
    BY <1>3, <1>4, <2>0, <2>2 DEF Ownership, StatusPopped
  <2> QED
    BY <2>1, <2>2 DEF StatusPopped
<1>9. OnePlace'
  BY <1>4 DEF Ownership, OnePlace
<1>10. CallsIncrease'
  BY <1>0, <1>4 DEF Ownership, CallsIncrease
<1> QED
  BY <1>6, <1>7, <1>8, <1>9, <1>10 DEF Ownership

LEMMA OwnershipNext == Shape /\ Ownership /\ [Next]_vars => Ownership'
<1> SUFFICES ASSUME Shape, Ownership, [Next]_vars PROVE Ownership'
  OBVIOUS
<1>1. CASE UNCHANGED vars
  BY <1>1, OwnershipQuiet DEF vars
<1>2. ASSUME NEW t \in Threads, Step(t) \/ SpuriousWake(t)
      PROVE  Ownership'
  <2>0. Types /\ PcFits(t)
    BY DEF Shape
  <2>1. ASSUME stack[t] # <<>>, ~ IsCall(Top(t))
        PROVE  /\ Top(t) \in Task /\ At(t, Len(stack[t]), Top(t)) /\ Len(stack[t]) \in Nat
               /\ status[Top(t)] = IF pc[t] = "notifyCall" THEN "done" ELSE "popped"
    <3>1. Top(t) \in Task /\ At(t, Len(stack[t]), Top(t)) /\ Len(stack[t]) \in Nat
      BY <2>0, <2>1, TopAt, TaskFacts DEF Types
    <3> QED
      BY <3>1 DEF Ownership, StatusPopped
  <2>2. \A n \in Branch : ParRun(t, n) => Ownership'
    BY OwnershipParRun
  <2>3. Enqueue(t) => Ownership'
    BY OwnershipEnqueue
  <2>4. NotifyPool(t) => Ownership'
    BY <2>0, OwnershipQuiet DEF NotifyPool, Types
  <2>5. CASE Return(t)
    <3>1. stack[t] # <<>> /\ IsCall(Top(t)) /\ Pops(t)
      BY <2>0, <2>5 DEF Return, PcFits, InCall, Pops
    <3>2. \A x \in Task : x # Top(t)
      BY <3>1, TaskFacts
    <3> QED
      BY <2>0, <2>5, <3>1, <3>2, OwnershipPop DEF Return, Types
  <2>6. NotDone(t) => Ownership'
    BY <2>0, OwnershipQuiet DEF NotDone, Types
  <2>7. NothingToHelp(t) => Ownership'
    BY <2>0, OwnershipQuiet DEF NothingToHelp, Types
  <2>8. WaitForCall(t) => Ownership'
    BY <2>0, OwnershipQuiet DEF WaitForCall, Types
  <2>9. TakeTask(t) => Ownership'
    BY OwnershipTake
  <2>10. WaitForTask(t) => Ownership'
    BY <2>0, OwnershipQuiet DEF WaitForTask, Types
  <2>11. SkipTask(t) => Ownership'
    BY <2>0, OwnershipQuiet DEF SkipTask, Types
  <2>12. BeginTask(t) => Ownership'
    BY <2>0, OwnershipQuiet DEF BeginTask, Types
  <2>13. ASSUME NEW panicked \in BOOLEAN, EndTask(t, panicked) PROVE Ownership'
    <3>1. /\ pc[t] = "user" /\ pc' = [pc EXCEPT ![t] = "finish"]
          /\ UNCHANGED <<queue, ncalls, count, status, stack>>
      BY <2>13 DEF EndTask
    <3> QED
      BY <2>0, <3>1, OwnershipQuiet DEF Types
  <2>14. CASE FinishTask(t)
    <3>1. stack[t] # <<>> /\ ~ IsCall(Top(t))
      BY <2>0, <2>14 DEF FinishTask, PcFits, InTask
    <3>2. CASE remaining[Top(t)[1]] # 1
      <4>1. Pops(t) /\ pc[t] = "finish" /\ pc' = [pc EXCEPT ![t] = ResumeAt(stack[t])]
            /\ UNCHANGED <<queue, ncalls, count>>
        BY <2>14, <3>2 DEF FinishTask, Pops
      <4>2. ResumeAt(stack[t]) \in {"idle", "check"}
        BY DEF ResumeAt
      <4>3. \A x \in Task : status'[x] = IF x = Top(t) THEN "done" ELSE status[x]
        BY <2>0, <2>1, <2>14, <3>1 DEF FinishTask, Types
      <4>4. /\ pc'[t] \notin {"enqueue", "notifyCall"}
            /\ \A u \in Threads : u # t => pc'[u] = pc[u]
        BY <2>0, <4>1, <4>2 DEF Types
      <4> QED
        BY <3>1, <4>1, <4>3, <4>4, OwnershipPop
    <3> QED
      BY <2>14, <3>2, OwnershipLast
  <2>15. CASE NotifyCall(t)
    <3>1. stack[t] # <<>> /\ ~ IsCall(Top(t)) /\ Pops(t) /\ pc[t] = "notifyCall"
      BY <2>0, <2>15 DEF NotifyCall, PcFits, InTask, Pops
    <3>2. ResumeAt(stack[t]) \in {"idle", "check"}
      BY DEF ResumeAt
    <3>3. \A x \in Task : status'[x] = IF x = Top(t) THEN "done" ELSE status[x]
      BY <2>1, <2>15, <3>1 DEF NotifyCall
    <3>4. /\ pc'[t] \notin {"enqueue", "notifyCall"}
          /\ \A u \in Threads : u # t => /\ pc'[u] = "enqueue" <=> pc[u] = "enqueue"
                                         /\ pc'[u] = "notifyCall" <=> pc[u] = "notifyCall"
      BY <2>0, <2>15, <3>2 DEF NotifyCall, Types
    <3>5. UNCHANGED <<queue, ncalls, count>>
      BY <2>15 DEF NotifyCall
    <3> QED
      BY <3>1, <3>3, <3>4, <3>5, OwnershipPop
  <2>16. SpuriousWake(t) => Ownership'
    BY <2>0, OwnershipQuiet DEF SpuriousWake, Types
  <2> QED
    BY <1>2, <2>2, <2>3, <2>4, <2>5, <2>6, <2>7, <2>8, <2>9, <2>10, <2>11,
       <2>12, <2>13, <2>14, <2>15, <2>16 DEF Step
<1> QED
  BY <1>1, <1>2 DEF Next

LEMMA OwnershipInvariant == Spec => [](Shape /\ Ownership)
BY ShapeInit, ShapeNext, OwnershipInit, OwnershipNext, PTL DEF Spec

\* A branch is executed by one thread only (karac_par_run, worker_loop).
THEOREM EachTaskOnce == Spec => []NoTaskTwice
<1>1. ASSUME Shape, Ownership PROVE NoTaskTwice
  <2>0. stack \in [Threads -> Seq(Activation)] /\ queue \in Seq(Task)
        /\ Len(queue) \in Nat
    BY <1>1, LenProperties DEF Shape, Types
  <2>1. ASSUME NEW j \in 1 .. Len(queue)
        PROVE  j \in Nat /\ queue[j] \in Task /\ Queued(j, queue[j])
    BY <2>0, <2>1, ElementOfSeq DEF Queued
  <2>2. ASSUME NEW t \in Threads, NEW k \in 1 .. Len(stack[t])
        PROVE  k \in Nat /\ stack[t][k] \in Activation /\ At(t, k, stack[t][k])
    BY <2>0, <2>2, ElementOfSeq, LenProperties DEF At
  <2>3. \A j, k \in 1 .. Len(queue) : queue[j] = queue[k] => j = k
    BY <1>1, <2>1 DEF Ownership, StatusQueued
  <2>4. \A t, u \in Threads : \A j \in 1 .. Len(stack[t]), k \in 1 .. Len(stack[u]) :
          stack[t][j] = stack[u][k] => t = u /\ j = k
    BY <1>1, <2>2 DEF Ownership, OnePlace
  <2>5. ASSUME NEW t \in Threads, NEW j \in 1 .. Len(queue), NEW k \in 1 .. Len(stack[t]),
               queue[j] = stack[t][k]
        PROVE  FALSE
    <3>1. At(t, k, queue[j]) /\ Queued(j, queue[j]) /\ queue[j] \in Task
          /\ j \in Nat /\ k \in Nat
      BY <2>1, <2>2, <2>5
    <3>2. status[queue[j]] = "queued" /\ status[queue[j]] \in {"done", "popped"}
      BY <1>1, <3>1 DEF Ownership, StatusQueued, StatusPopped
    <3> QED
      BY <3>2
  <2> QED
    BY <2>3, <2>4, <2>5 DEF NoTaskTwice
<1> QED
  BY <1>1, OwnershipInvariant, PTL

(***************************************************************************)
(* Third part: `remaining` counts the unfinished tasks.                    *)
(***************************************************************************)
Counted ==
  \A c \in CallId : /\ IsFiniteSet(Unfinished(c))
                    /\ remaining[c] = Cardinality(Unfinished(c))

LEMMA UpTo ==
  ASSUME NEW n \in Nat
  PROVE  IsFiniteSet(1 .. n) /\ Cardinality(1 .. n) = n
BY FS_Interval

LEMMA UnfinishedFinite ==
  ASSUME NEW c \in CallId, count[c] \in 0 .. MaxWidth
  PROVE  /\ IsFiniteSet(Unfinished(c))
         /\ Cardinality(Unfinished(c)) \in 0 .. MaxWidth
<1>1. count[c] \in Int /\ count[c] >= 0 /\ count[c] <= MaxWidth /\ MaxWidth \in Int
  BY ParPoolAssumption
<1>2. IsFiniteSet(1 .. count[c]) /\ Cardinality(1 .. count[c]) = count[c]
  BY <1>1, UpTo
<1>3. Unfinished(c) \in SUBSET (1 .. count[c])
  BY DEF Unfinished
<1>4. IsFiniteSet(Unfinished(c)) /\ Cardinality(Unfinished(c)) <= count[c]
  BY <1>2, <1>3, FS_Subset
<1>5. Cardinality(Unfinished(c)) \in Nat
  BY <1>4, FS_CardinalityType
<1> QED
  BY <1>1, <1>4, <1>5

LEMMA CountedInit == Init => Counted
<1> SUFFICES ASSUME Init, NEW c \in CallId
             PROVE  /\ IsFiniteSet(Unfinished(c))
                    /\ remaining[c] = Cardinality(Unfinished(c))
  BY DEF Counted
<1>1. Unfinished(c) = {} /\ remaining[c] = 0
  BY DEF Init, Unfinished
<1> QED
  BY <1>1, FS_EmptySet

\* Steps after which the same tasks are unfinished.
LEMMA CountedQuiet ==
  ASSUME Counted, UNCHANGED <<count, remaining>>,
         \A x \in Task : status'[x] = "done" <=> status[x] = "done",
         count \in [CallId -> 0 .. MaxWidth]
  PROVE  Counted'
<1> SUFFICES ASSUME NEW c \in CallId PROVE Unfinished(c)' = Unfinished(c)
  BY DEF Counted
<1>1. \A i \in 1 .. count[c] : <<c, i>> \in Task
  BY ParPoolAssumption DEF Task, Branch
<1> QED
  BY <1>1 DEF Unfinished

LEMMA CountedNext == Shape /\ Ownership /\ Counted /\ [Next]_vars => Counted'
<1> SUFFICES ASSUME Shape, Ownership, Counted, [Next]_vars PROVE Counted'
  OBVIOUS
<1>0. Types
  BY DEF Shape
<1>1. CASE UNCHANGED vars
  BY <1>0, <1>1, CountedQuiet DEF vars, Types
<1>2. ASSUME NEW t \in Threads, Step(t) \/ SpuriousWake(t)
      PROVE  Counted'
  <2>0. PcFits(t) /\ count \in [CallId -> 0 .. MaxWidth]
    BY <1>0 DEF Shape, Types
  <2>1. ASSUME NEW n \in Branch, ParRun(t, n) PROVE Counted'
    <3>0. ncalls + 1 \in CallId /\ ncalls \in Nat /\ n \in Nat \ {0}
      BY <1>0, <2>1, ParPoolAssumption DEF ParRun, Types, CallId, Branch
    <3> PICK d \in CallId : d = ncalls + 1
      BY <3>0
    <3>1. d \in CallId /\ ncalls \in Nat /\ n \in Nat \ {0} /\ d \in Nat
      BY <3>0
    <3>2. /\ count' = [count EXCEPT ![d] = n] /\ remaining' = [remaining EXCEPT ![d] = n]
          /\ status' = status
      BY <2>1 DEF ParRun
    <3>3. ASSUME NEW c \in CallId, c # d
          PROVE  Unfinished(c)' = Unfinished(c) /\ remaining'[c] = remaining[c]
      BY <1>0, <3>2, <3>3 DEF Unfinished, Types
    <3>4. Unfinished(d)' = 1 .. n
      <4>1. ASSUME NEW i \in 1 .. n PROVE status[<<d, i>>] = "new"
        <5>1. <<d, i>> \in Task /\ ~ (d <= ncalls)
          BY <3>1, ParPoolAssumption DEF Task, Branch
        <5> QED
          BY <5>1 DEF Ownership, StatusNew
      <4>2. count'[d] = n
        BY <1>0, <3>1, <3>2 DEF Types
      <4>3. Unfinished(d)' = {i \in 1 .. n : status[<<d, i>>] # "done"}
        BY <3>2, <4>2 DEF Unfinished
      <4> QED
        BY <4>1, <4>3
    <3>5. IsFiniteSet(1 .. n) /\ Cardinality(1 .. n) = n
      BY <3>1, UpTo
    <3>6. remaining'[d] = n
      BY <1>0, <3>1, <3>2 DEF Types
    <3>7. ASSUME NEW c \in CallId
          PROVE  /\ IsFiniteSet(Unfinished(c)')
                 /\ remaining'[c] = Cardinality(Unfinished(c)')
      <4>1. CASE c = d
        BY <3>4, <3>5, <3>6, <4>1
      <4>2. CASE c # d
        BY <3>3, <4>2 DEF Counted
      <4> QED
        BY <4>1, <4>2
    <3> QED
      BY <3>7 DEF Counted
  <2>2. CASE Enqueue(t)
    <3>1. stack[t] # <<>> /\ Top(t)[1] \in CallId
      BY <1>0, <2>0, <2>2, TopFacts DEF Enqueue, PcFits, InCall, Types, Activation
    <3>2. \A x \in Task : x[1] = Top(t)[1] => status[x] = "new"
      BY <2>2 DEF Enqueue, Ownership, StatusNew
    <3>3. \A x \in Task : status'[x] = "done" <=> status[x] = "done"
      BY <2>2, <3>2 DEF Enqueue
    <3>4. UNCHANGED <<count, remaining>>
      BY <2>2 DEF Enqueue
    <3> QED
      BY <2>0, <3>3, <3>4, CountedQuiet
  <2>3. CASE TakeTask(t)
    <3>1. Head(queue) \in Task /\ Queued(1, Head(queue))
      BY <1>0, <2>3, TakeAt DEF TakeTask, Types
    <3>2. status[Head(queue)] = "queued"
      BY <3>1 DEF Ownership, StatusQueued
    <3>3. \A x \in Task : status'[x] = "done" <=> status[x] = "done"
      BY <1>0, <2>3, <3>1, <3>2 DEF TakeTask, Types
    <3>4. UNCHANGED <<count, remaining>>
      BY <2>3 DEF TakeTask
    <3> QED
      BY <2>0, <3>3, <3>4, CountedQuiet
  <2>4. CASE FinishTask(t)
    <3>1. stack[t] # <<>> /\ Top(t) \in Task /\ pc[t] = "finish"
          /\ At(t, Len(stack[t]), Top(t)) /\ Len(stack[t]) \in Nat
      BY <1>0, <2>0, <2>4, TopAt, TaskFacts DEF FinishTask, PcFits, InTask, Types
    <3>2. status[Top(t)] = "popped"
      BY <3>1 DEF Ownership, StatusPopped
    <3> PICK c \in CallId, i \in Branch : Top(t) = <<c, i>>
      BY <3>1 DEF Task
    <3>3. c \in CallId /\ i \in Nat \ {0} /\ Top(t) = <<c, i>> /\ i <= count[c]
      BY <3>1, <3>2, ParPoolAssumption DEF Branch, Ownership, StatusNew
    <3>4. i \in Unfinished(c)
      BY <2>0, <3>2, <3>3 DEF Unfinished
    <3>5. /\ status' = [status EXCEPT ![<<c, i>>] = "done"]
          /\ remaining' = [remaining EXCEPT ![c] = @ - 1]
          /\ count' = count
      BY <2>4, <3>3 DEF FinishTask
    <3>6. \A e \in CallId : \A k \in 1 .. count[e] : <<e, k>> \in Task
      BY <2>0, ParPoolAssumption DEF Task, Branch
    <3>7. \A x \in Task : status'[x] = IF x = <<c, i>> THEN "done" ELSE status[x]
      BY <1>0, <3>5 DEF Types
    <3>8. Unfinished(c)' = Unfinished(c) \ {i}
      <4>1. Unfinished(c)' = {k \in 1 .. count[c] : status'[<<c, k>>] # "done"}
        BY <3>5 DEF Unfinished
      <4>2. \A k \in 1 .. count[c] : status'[<<c, k>>] = IF k = i THEN "done" ELSE status[<<c, k>>]
        BY <3>3, <3>6, <3>7
      <4>3. Unfinished(c) = {k \in 1 .. count[c] : status[<<c, k>>] # "done"}
        BY DEF Unfinished
      <4> QED
        BY <4>1, <4>2, <4>3
    <3>9. ASSUME NEW e \in CallId, e # c PROVE Unfinished(e)' = Unfinished(e)
      BY <3>5, <3>6, <3>7, <3>9 DEF Unfinished
    <3>10. /\ IsFiniteSet(Unfinished(c)) /\ Cardinality(Unfinished(c)) = remaining[c]
      BY <3>3 DEF Counted
    <3>11. /\ IsFiniteSet(Unfinished(c) \ {i})
           /\ Cardinality(Unfinished(c) \ {i}) = remaining[c] - 1
      BY <3>4, <3>10, FS_RemoveElement
    <3>12. remaining'[c] = remaining[c] - 1 /\ \A e \in CallId : e # c => remaining'[e] = remaining[e]
      BY <1>0, <3>3, <3>5 DEF Types
    <3>13. ASSUME NEW e \in CallId
           PROVE  /\ IsFiniteSet(Unfinished(e)')
                  /\ remaining'[e] = Cardinality(Unfinished(e)')
      <4>1. CASE e = c
        BY <3>8, <3>11, <3>12, <4>1
      <4>2. CASE e # c
        BY <3>9, <3>12, <4>2 DEF Counted
      <4> QED
        BY <4>1, <4>2
    <3> QED
      BY <3>13 DEF Counted
  <2>5. CASE UNCHANGED <<count, remaining, status>>
    BY <2>0, <2>5, CountedQuiet
  <2> QED
    BY <1>2, <2>1, <2>2, <2>3, <2>4, <2>5
    DEF Step, NotifyPool, Return, NotDone, NothingToHelp, WaitForCall, WaitForTask,
        SkipTask, BeginTask, EndTask, NotifyCall, SpuriousWake
<1> QED
  BY <1>1, <1>2 DEF Next

LEMMA CountedInvariant == Spec => [](Shape /\ Ownership /\ Counted)
BY ShapeInit, ShapeNext, OwnershipInit, OwnershipNext, CountedInit, CountedNext, PTL
   DEF Spec

\* Every variable keeps its type; `remaining` never goes below zero.
THEOREM TypeCorrect == Spec => []TypeOK
<1>1. ASSUME Shape, Counted PROVE TypeOK
  <2>1. Types /\ count \in [CallId -> 0 .. MaxWidth]
    BY <1>1 DEF Shape, Types
  <2>2. \A c \in CallId : remaining[c] \in 0 .. MaxWidth
    BY <1>1, <2>1, UnfinishedFinite DEF Counted
  <2>3. remaining \in [CallId -> 0 .. MaxWidth]
    BY <2>1, <2>2 DEF Types
  <2> QED
    BY <2>1, <2>3 DEF Types, TypeOK
<1> QED
  BY <1>1, CountedInvariant, PTL

(***************************************************************************)
(* karac_par_run is a join.                                                *)
(***************************************************************************)

\* A call is open exactly while it is at some place of some stack.
LEMMA OpenAt ==
  ASSUME stack \in [Threads -> Seq(Activation)]
  PROVE  \A c \in CallId :
           Open(c) <=> \E t \in Threads, k \in Nat : At(t, k, CallActivation(c))
<1>1. \A t \in Threads : Len(stack[t]) \in Nat
  BY LenProperties
<1>2. ASSUME NEW c \in CallId, NEW t \in Threads
      PROVE  OnStack(t, CallActivation(c)) <=> \E k \in Nat : At(t, k, CallActivation(c))
  BY <1>1 DEF OnStack, At
<1> QED
  BY <1>2 DEF Open

LEMMA OpenAtNext ==
  ASSUME stack' \in [Threads -> Seq(Activation)]
  PROVE  \A c \in CallId :
           Open(c)' <=> \E t \in Threads, k \in Nat : At(t, k, CallActivation(c))'
<1>1. \A t \in Threads : Len(stack'[t]) \in Nat
  BY LenProperties
<1>2. ASSUME NEW c \in CallId, NEW t \in Threads
      PROVE  OnStack(t, CallActivation(c))' <=> \E k \in Nat : At(t, k, CallActivation(c))'
  BY <1>1 DEF OnStack, At
<1> QED
  BY <1>2 DEF Open

LEMMA CallActivationFacts ==
  \A c, d \in CallId : /\ CallActivation(c) \in Activation /\ IsCall(CallActivation(c))
                       /\ CallActivation(c) \notin Task /\ CallActivation(c)[1] = c
                       /\ CallActivation(c) = CallActivation(d) => c = d
BY TaskFacts DEF CallActivation, IsCall

LEMMA JoinInit == Init => JoinBeforeReturn
BY DEF Init, JoinBeforeReturn, Calls

\* Steps that call and return nothing.
LEMMA JoinQuiet ==
  ASSUME Shape, JoinBeforeReturn, ncalls' = ncalls, Types',
         \A c \in CallId : Open(c) => Open(c)',
         \A c \in CallId : Unfinished(c)' \subseteq Unfinished(c)
  PROVE  JoinBeforeReturn'
<1>1. \A c \in Calls : c \in CallId
  BY ParPoolAssumption DEF Shape, Types, Calls, CallId
<1> QED
  BY <1>1 DEF JoinBeforeReturn, Calls

LEMMA JoinNext ==
  Shape /\ Ownership /\ Counted /\ JoinBeforeReturn /\ [Next]_vars => JoinBeforeReturn'
<1> SUFFICES ASSUME Shape, Ownership, Counted, JoinBeforeReturn, [Next]_vars
             PROVE  JoinBeforeReturn'
  OBVIOUS
<1>0. Types /\ Types' /\ stack \in [Threads -> Seq(Activation)]
      /\ stack' \in [Threads -> Seq(Activation)]
  BY ShapeNext DEF Shape, Types
<1>1. CASE UNCHANGED vars
  <2>1. \A c : (Open(c) => Open(c)') /\ Unfinished(c)' = Unfinished(c)
    BY <1>1 DEF vars, Open, OnStack, Unfinished
  <2> QED
    BY <1>0, <1>1, <2>1, JoinQuiet DEF vars
<1>2. ASSUME NEW t \in Threads, Step(t) \/ SpuriousWake(t)
      PROVE  JoinBeforeReturn'
  <2>0. PcFits(t)
    BY DEF Shape
  <2>1. ASSUME NEW n \in Branch, ParRun(t, n) PROVE JoinBeforeReturn'
    <3>1. ncalls + 1 \in CallId /\ ncalls \in Nat /\ ncalls' = ncalls + 1
      BY <1>0, <2>1, ParPoolAssumption DEF ParRun, Types, CallId, Branch
    <3>2. Pushes(t, CallActivation(ncalls + 1)) /\ CallActivation(ncalls + 1) \in Activation
      BY <2>1, <3>1, CallActivationFacts DEF ParRun, Pushes
    <3>3. /\ Len(stack[t]) + 1 \in Nat
          /\ \A u \in Threads, k \in Nat, b \in Activation :
               At(u, k, b)' <=> \/ At(u, k, b)
                                \/ u = t /\ k = Len(stack[t]) + 1 /\ b = CallActivation(ncalls + 1)
      BY <1>0, <3>2, PushAt
    <3>4. ASSUME NEW c \in Calls', ~ Open(c)' PROVE Unfinished(c)' = {}
      <4>1. c \in CallId
        BY <1>0, <3>4, ParPoolAssumption DEF Types, Calls, CallId
      <4>2. \A u \in Threads, k \in Nat : ~ At(u, k, CallActivation(c))'
        BY <1>0, <3>4, <4>1, OpenAtNext
      <4>3. c # ncalls + 1
        BY <3>2, <3>3, <4>2
      <4>4. ~ Open(c)
        BY <1>0, <3>3, <4>1, <4>2, OpenAt, CallActivationFacts
      <4>5. Unfinished(c) = {}
        BY <3>1, <3>4, <4>3, <4>4 DEF JoinBeforeReturn, Calls
      <4>6. Unfinished(c)' = Unfinished(c)
        BY <1>0, <2>1, <4>1, <4>3 DEF ParRun, Unfinished, Types
      <4> QED
        BY <4>5, <4>6
    <3> QED
      BY <3>4 DEF JoinBeforeReturn
  <2>2. ASSUME stack[t] # <<>>, ~ IsCall(Top(t)), Pops(t), ncalls' = ncalls,
               \A c \in CallId : Unfinished(c)' \subseteq Unfinished(c)
        PROVE  JoinBeforeReturn'
    <3>1. \A u \in Threads, k \in Nat, b \in Activation :
            At(u, k, b)' <=> At(u, k, b) /\ ~ (u = t /\ k = Len(stack[t]))
      BY <1>0, <2>2, PopAt
    <3>2. \A c \in CallId : ~ At(t, Len(stack[t]), CallActivation(c))
      BY <2>2, CallActivationFacts DEF At, Top
    <3>3. \A c \in CallId : Open(c) => Open(c)'
      BY <1>0, <3>1, <3>2, OpenAt, OpenAtNext, CallActivationFacts
    <3> QED
      BY <1>0, <2>2, <3>3, JoinQuiet
  <2>3. ASSUME UNCHANGED <<stack, ncalls>>,
               \A c \in CallId : Unfinished(c)' \subseteq Unfinished(c)
        PROVE  JoinBeforeReturn'
    <3>1. \A c : Open(c) => Open(c)'
      BY <2>3 DEF Open, OnStack
    <3> QED
      BY <1>0, <2>3, <3>1, JoinQuiet
  <2>4. ASSUME UNCHANGED count, \A x \in Task : status[x] = "done" => status'[x] = "done"
        PROVE  \A c \in CallId : Unfinished(c)' \subseteq Unfinished(c)
    <3>1. \A c \in CallId : \A i \in 1 .. count[c] : <<c, i>> \in Task
      BY <1>0, ParPoolAssumption DEF Types, Task, Branch
    <3> QED
      BY <2>4, <3>1 DEF Unfinished
  <2>5. CASE Enqueue(t)
    <3>1. Top(t)[1] \in CallId /\ pc[t] = "enqueue"
      BY <1>0, <2>0, <2>5, TopFacts DEF Enqueue, PcFits, InCall, Activation
    <3>2. \A x \in Task : status[x] = "done" => status'[x] = "done"
      BY <2>5, <3>1 DEF Enqueue, Ownership, StatusNew
    <3> QED
      BY <2>3, <2>4, <2>5, <3>2 DEF Enqueue
  <2>6. CASE Return(t)
    <3>1. stack[t] # <<>> /\ IsCall(Top(t)) /\ Pops(t) /\ remaining[Top(t)[1]] = 0
          /\ UNCHANGED <<ncalls, count, status>>
      BY <2>0, <2>6 DEF Return, PcFits, InCall, Pops
    <3>2. Top(t) \in Activation /\ Top(t)[1] \in CallId /\ Top(t) = CallActivation(Top(t)[1])
      BY <1>0, <3>1, TopFacts DEF Activation, IsCall, CallActivation
    <3>3. Unfinished(Top(t)[1]) = {}
      BY <3>1, <3>2, FS_EmptySet DEF Counted
    <3>4. \A u \in Threads, k \in Nat, b \in Activation :
            At(u, k, b)' <=> At(u, k, b) /\ ~ (u = t /\ k = Len(stack[t]))
      BY <1>0, <3>1, PopAt
    <3>5. ASSUME NEW c \in CallId, c # Top(t)[1], Open(c) PROVE Open(c)'
      <4>1. PICK u \in Threads, k \in Nat : At(u, k, CallActivation(c))
        BY <1>0, <3>5, OpenAt
      <4>2. ~ (u = t /\ k = Len(stack[t]))
        BY <3>2, <3>5, <4>1, CallActivationFacts DEF At, Top
      <4>3. At(u, k, CallActivation(c))'
        BY <3>4, <4>1, <4>2, CallActivationFacts
      <4> QED
        BY <1>0, <4>3, OpenAtNext
    <3>6. ASSUME NEW c \in Calls', ~ Open(c)' PROVE Unfinished(c)' = {}
      <4>1. c \in CallId /\ c \in Calls
        BY <1>0, <3>1, <3>6, ParPoolAssumption DEF Types, Calls, CallId
      <4>2. Unfinished(c) = {}
        BY <3>3, <3>5, <3>6, <4>1 DEF JoinBeforeReturn
      <4> QED
        BY <3>1, <4>2 DEF Unfinished
    <3> QED
      BY <3>6 DEF JoinBeforeReturn
  <2>7. CASE TakeTask(t)
    <3>1. Head(queue) \in Task /\ Queued(1, Head(queue))
      BY <1>0, <2>7, TakeAt DEF TakeTask, Types
    <3>2. status[Head(queue)] = "queued"
      BY <3>1 DEF Ownership, StatusQueued
    <3>3. \A x \in Task : status[x] = "done" => status'[x] = "done"
      BY <1>0, <2>7, <3>1, <3>2 DEF TakeTask, Types
    <3>4. Pushes(t, Head(queue)) /\ Head(queue) \in Activation
      BY <2>7, <3>1, TaskFacts DEF TakeTask, Pushes
    <3>5. \A u \in Threads, k \in Nat, b \in Activation : At(u, k, b) => At(u, k, b)'
      BY <1>0, <3>4, PushAt
    <3>6. \A c \in CallId : Open(c) => Open(c)'
      BY <1>0, <3>5, OpenAt, OpenAtNext, CallActivationFacts
    <3> QED
      BY <1>0, <2>4, <2>7, <3>3, <3>6, JoinQuiet DEF TakeTask
  <2>8. CASE FinishTask(t)
    <3>1. stack[t] # <<>> /\ ~ IsCall(Top(t)) /\ UNCHANGED <<ncalls, count>>
          /\ (Pops(t) \/ UNCHANGED stack)
      BY <2>0, <2>8 DEF FinishTask, PcFits, InTask, Pops
    <3>2. \A x \in Task : status[x] = "done" => status'[x] = "done"
      BY <1>0, <2>8 DEF FinishTask, Types
    <3> QED
      BY <2>2, <2>3, <2>4, <3>1, <3>2
  <2>9. CASE NotifyCall(t)
    <3>1. stack[t] # <<>> /\ ~ IsCall(Top(t)) /\ Pops(t) /\ UNCHANGED <<ncalls, count, status>>
      BY <2>0, <2>9 DEF NotifyCall, PcFits, InTask, Pops
    <3> QED
      BY <2>2, <2>4, <3>1
  <2>10. CASE UNCHANGED <<stack, ncalls, count, status>>
    BY <2>3, <2>4, <2>10
  <2> QED
    BY <1>2, <2>1, <2>5, <2>6, <2>7, <2>8, <2>9, <2>10
    DEF Step, NotifyPool, NotDone, NothingToHelp, WaitForCall, WaitForTask,
        SkipTask, BeginTask, EndTask, SpuriousWake
<1> QED
  BY <1>1, <1>2 DEF Next

\* Once a call has returned, each of its branches has run or been skipped.
THEOREM JoinCorrect == Spec => []JoinBeforeReturn
BY CountedInvariant, JoinInit, JoinNext, PTL DEF Spec

(***************************************************************************)
(* Wakeups.                                                                *)
(***************************************************************************)

\* A caller stops helping only after all its tasks have been popped.
OwnTasksPopped ==
  \A t \in Threads : pc[t] \in {"block", "asleep"} =>
    \A j \in Nat, x \in Task : Queued(j, x) => x[1] # Top(t)[1]

CallerWakeup ==
  \A t \in Threads : pc[t] = "asleep" =>
    \/ remaining[Top(t)[1]] # 0
    \/ \E u \in Threads : pc[u] = "notifyCall" /\ Top(u)[1] = Top(t)[1]

WorkerWakeup ==
  (\E t \in Threads : pc[t] = "cv") /\ queue # <<>> =>
    \E u \in Threads : pc[u] = "notifyPool"

Wakeups == OwnTasksPopped /\ CallerWakeup /\ WorkerWakeup

LEMMA WakeupsInit == Init => Wakeups
BY DEF Init, Wakeups, OwnTasksPopped, CallerWakeup, WorkerWakeup

\* What threads other than t may do in a step of t.
LEMMA OthersStill ==
  ASSUME Shape, NEW t \in Threads, Step(t) \/ SpuriousWake(t),
         NEW u \in Threads, u # t
  PROVE  /\ Top(u)' = Top(u)
         /\ \/ pc'[u] = pc[u]
            \/ pc[u] \in {"off", "cv"} /\ pc'[u] = "idle"
            \/ pc[u] = "asleep" /\ pc'[u] = "check"
<1>0. Types /\ PcFits(t) /\ (stack[t] # <<>> => Top(t) \in Activation)
  BY TopFacts DEF Shape, Types
<1>1. stack'[u] = stack[u]
  <2>1. \A n : ParRun(t, n) => stack'[u] = stack[u]
    BY <1>0 DEF ParRun, Types
  <2>2. Return(t) \/ TakeTask(t) \/ FinishTask(t) \/ NotifyCall(t) => stack'[u] = stack[u]
    BY <1>0 DEF Return, TakeTask, FinishTask, NotifyCall, Types
  <2>3. \A b : EndTask(t, b) => stack'[u] = stack[u]
    BY DEF EndTask
  <2> QED
    BY <2>1, <2>2, <2>3
    DEF Step, Enqueue, NotifyPool, NotDone, NothingToHelp, WaitForCall, WaitForTask,
        SkipTask, BeginTask, SpuriousWake
<1>2. \/ pc'[u] = pc[u]
      \/ pc[u] \in {"off", "cv"} /\ pc'[u] = "idle"
      \/ pc[u] = "asleep" /\ pc'[u] = "check"
  <2>1. \A n : ParRun(t, n) => pc'[u] = pc[u] \/ (pc[u] = "off" /\ pc'[u] = "idle")
    BY <1>0 DEF ParRun, Types
  <2>2. NotifyPool(t) => pc'[u] = pc[u] \/ (pc[u] = "cv" /\ pc'[u] = "idle")
    BY <1>0 DEF NotifyPool, Types
  <2>3. NotifyCall(t) => pc'[u] = pc[u] \/ (pc[u] = "asleep" /\ pc'[u] = "check")
    BY <1>0 DEF NotifyCall, Types
  <2>4. \A b : EndTask(t, b) => pc'[u] = pc[u]
    BY <1>0 DEF EndTask, Types
  <2>5. FinishTask(t) => pc'[u] = pc[u]
    BY <1>0 DEF FinishTask, Types
  <2>6. Enqueue(t) \/ Return(t) \/ NotDone(t) \/ NothingToHelp(t) \/ WaitForCall(t)
          \/ TakeTask(t) \/ WaitForTask(t) \/ SkipTask(t) \/ BeginTask(t)
          \/ SpuriousWake(t) => pc'[u] = pc[u]
    BY <1>0 DEF Enqueue, Return, NotDone, NothingToHelp, WaitForCall, TakeTask,
                WaitForTask, SkipTask, BeginTask, SpuriousWake, Types
  <2> QED
    BY <2>1, <2>2, <2>3, <2>4, <2>5, <2>6 DEF Step
<1> QED
  BY <1>1, <1>2 DEF Top

LEMMA OwnTasksPoppedNext ==
  Shape /\ Ownership /\ OwnTasksPopped /\ [Next]_vars => OwnTasksPopped'
<1> SUFFICES ASSUME Shape, Ownership, OwnTasksPopped, [Next]_vars PROVE OwnTasksPopped'
  OBVIOUS
<1>0. Types /\ stack \in [Threads -> Seq(Activation)]
  BY DEF Shape, Types
<1>1. CASE UNCHANGED vars
  BY <1>1 DEF vars, OwnTasksPopped, Queued, Top
<1>2. ASSUME NEW t \in Threads, Step(t) \/ SpuriousWake(t),
             NEW u \in Threads, pc'[u] \in {"block", "asleep"},
             NEW j \in Nat, NEW x \in Task, Queued(j, x)'
      PROVE  x[1] # Top(u)'[1]
  <2>0. PcFits(t) /\ PcFits(u)
    BY DEF Shape
  <2>1. CASE u # t
    <3>1. pc[u] \in {"block", "asleep"} /\ Top(u)' = Top(u)
      BY <1>2, <2>1, OthersStill
    <3>2. CASE queue' = queue
      BY <1>2, <3>1, <3>2 DEF OwnTasksPopped, Queued
    <3>3. CASE TakeTask(t)
      <4>1. j + 1 \in Nat /\ Queued(j + 1, x)
        BY <1>0, <1>2, <3>3, TakeAt DEF TakeTask, Types
      <4> QED
        BY <3>1, <4>1 DEF OwnTasksPopped
    <3>4. CASE Enqueue(t)
      <4>1. /\ stack[t] # <<>> /\ IsCall(Top(t)) /\ stack[u] # <<>> /\ IsCall(Top(u))
        BY <2>0, <3>1, <3>4 DEF Enqueue, PcFits, InCall
      <4>2. /\ Top(t) \in Activation /\ At(t, Len(stack[t]), Top(t)) /\ Len(stack[t]) \in Nat
            /\ Top(u) \in Activation /\ At(u, Len(stack[u]), Top(u)) /\ Len(stack[u]) \in Nat
            /\ Top(t)[1] \in CallId
        BY <1>0, <4>1, TopAt DEF Activation
      <4>3. Top(t)[1] # Top(u)[1]
        BY <2>1, <4>1, <4>2 DEF Ownership, OnePlace, Activation, IsCall
      <4>4. Queued(j, x) \/ x[1] = Top(t)[1]
        <5>1. queue' = queue \o [i \in 1 .. count[Top(t)[1]] |-> <<Top(t)[1], i>>]
          BY <3>4 DEF Enqueue
        <5>2. Queued(j, x)' <=> \/ Queued(j, x)
                               \/ \E i \in 1 .. count[Top(t)[1]] :
                                    j = Len(queue) + i /\ x = <<Top(t)[1], i>>
          BY <1>0, <4>2, <5>1, EnqueueAt
        <5> QED
          BY <1>2, <5>2
      <4> QED
        BY <3>1, <4>3, <4>4 DEF OwnTasksPopped
    <3> QED
      BY <1>2, <3>2, <3>3, <3>4
      DEF Step, ParRun, NotifyPool, Return, NotDone, NothingToHelp, WaitForCall,
          WaitForTask, SkipTask, BeginTask, EndTask, FinishTask, NotifyCall, SpuriousWake
  <2>2. CASE u = t
    <3>1. \/ NothingToHelp(t)
          \/ WaitForCall(t)
      <4>1. ResumeAt(stack[t]) \in {"idle", "check"}
        BY DEF ResumeAt
      <4>2. \A n : ~ ParRun(t, n)
        BY <1>0, <1>2, <2>2 DEF ParRun, Types
      <4>3. \A b : ~ EndTask(t, b)
        BY <1>0, <1>2, <2>2 DEF EndTask, Types
      <4>4. ~ FinishTask(t) /\ ~ NotifyCall(t)
        BY <1>0, <1>2, <2>2, <4>1 DEF FinishTask, NotifyCall, Types
      <4>5. /\ ~ Enqueue(t) /\ ~ NotifyPool(t) /\ ~ Return(t) /\ ~ NotDone(t)
            /\ ~ TakeTask(t) /\ ~ WaitForTask(t) /\ ~ SkipTask(t) /\ ~ BeginTask(t)
            /\ ~ SpuriousWake(t)
        BY <1>0, <1>2, <2>2 DEF Enqueue, NotifyPool, Return, NotDone, TakeTask, WaitForTask,
                                SkipTask, BeginTask, SpuriousWake, Types
      <4> QED
        BY <1>2, <4>2, <4>3, <4>4, <4>5 DEF Step
    <3>2. CASE NothingToHelp(t)
      BY <1>2, <3>2 DEF NothingToHelp, Queued
    <3>3. CASE WaitForCall(t)
      BY <1>2, <2>2, <3>3 DEF WaitForCall, OwnTasksPopped, Queued, Top
    <3> QED
      BY <3>1, <3>2, <3>3
  <2> QED
    BY <2>1, <2>2
<1> QED
  BY <1>1, <1>2 DEF Next, OwnTasksPopped

LEMMA WorkerWakeupNext == Shape /\ WorkerWakeup /\ [Next]_vars => WorkerWakeup'
<1> SUFFICES ASSUME Shape, WorkerWakeup, [Next]_vars PROVE WorkerWakeup'
  OBVIOUS
<1>0. Types
  BY DEF Shape
<1>1. CASE UNCHANGED vars
  BY <1>1 DEF vars, WorkerWakeup
<1>2. ASSUME NEW t \in Threads, Step(t) \/ SpuriousWake(t),
             NEW v \in Threads, pc'[v] = "cv", queue' # <<>>
      PROVE  \E u \in Threads : pc'[u] = "notifyPool"
  <2>1. CASE Enqueue(t)
    BY <1>0, <2>1 DEF Enqueue, Types
  <2>2. CASE NotifyPool(t)
    BY <1>0, <1>2, <2>2 DEF NotifyPool, Types
  <2>3. CASE WaitForTask(t)
    BY <1>2, <2>3 DEF WaitForTask
  <2>4. ASSUME pc[v] = "cv", queue # <<>>, pc[t] # "notifyPool"
        PROVE  \E u \in Threads : pc'[u] = "notifyPool"
    <3>1. PICK u \in Threads : pc[u] = "notifyPool"
      BY <2>4 DEF WorkerWakeup
    <3> QED
      BY <1>2, <2>4, <3>1, OthersStill
  <2>5. CASE TakeTask(t)
    BY <1>0, <1>2, <2>4, <2>5 DEF TakeTask, Types
  <2>6. CASE \E n \in Branch : ParRun(t, n)
    BY <1>0, <1>2, <2>4, <2>6 DEF ParRun, Types
  <2>7. CASE \E b \in BOOLEAN : EndTask(t, b)
    BY <1>0, <1>2, <2>4, <2>7 DEF EndTask, Types
  <2>8. CASE FinishTask(t) \/ NotifyCall(t)
    <3>1. ResumeAt(stack[t]) \in {"idle", "check"}
      BY DEF ResumeAt
    <3> QED
      BY <1>0, <1>2, <2>4, <2>8, <3>1 DEF FinishTask, NotifyCall, Types
  <2>9. CASE Return(t) \/ NotDone(t) \/ NothingToHelp(t) \/ WaitForCall(t) \/ SkipTask(t)
             \/ BeginTask(t) \/ SpuriousWake(t)
    BY <1>0, <1>2, <2>4, <2>9 DEF Return, NotDone, NothingToHelp, WaitForCall, SkipTask,
                                  BeginTask, SpuriousWake, Types
  <2> QED
    BY <1>2, <2>1, <2>2, <2>3, <2>5, <2>6, <2>7, <2>8, <2>9 DEF Step
<1> QED
  BY <1>1, <1>2 DEF Next, WorkerWakeup

LEMMA CallerWakeupNext ==
  Shape /\ Ownership /\ CallerWakeup /\ [Next]_vars => CallerWakeup'
<1> SUFFICES ASSUME Shape, Ownership, CallerWakeup, [Next]_vars PROVE CallerWakeup'
  OBVIOUS
<1>0. Types /\ stack \in [Threads -> Seq(Activation)]
  BY DEF Shape, Types
<1>1. CASE UNCHANGED vars
  BY <1>1 DEF vars, CallerWakeup, Top
<1>2. ASSUME NEW t \in Threads, Step(t) \/ SpuriousWake(t),
             NEW v \in Threads, pc'[v] = "asleep"
      PROVE  \/ remaining'[Top(v)'[1]] # 0
             \/ \E u \in Threads : pc'[u] = "notifyCall" /\ Top(u)'[1] = Top(v)'[1]
  <2>0. PcFits(t) /\ PcFits(v)
    BY DEF Shape
  <2>1. CASE WaitForCall(t) /\ v = t
    BY <2>1 DEF WaitForCall, Top
  <2>2. v = t => WaitForCall(t)
    <3>1. ResumeAt(stack[t]) \in {"idle", "check"}
      BY DEF ResumeAt
    <3>2. v = t => /\ \A n : ~ ParRun(t, n)
                   /\ \A b : ~ EndTask(t, b)
      BY <1>0, <1>2 DEF ParRun, EndTask, Types
    <3>3. v = t => ~ FinishTask(t) /\ ~ NotifyCall(t)
      BY <1>0, <1>2, <3>1 DEF FinishTask, NotifyCall, Types
    <3>4. v = t => /\ ~ Enqueue(t) /\ ~ NotifyPool(t) /\ ~ Return(t) /\ ~ NotDone(t)
                   /\ ~ NothingToHelp(t) /\ ~ TakeTask(t) /\ ~ WaitForTask(t)
                   /\ ~ SkipTask(t) /\ ~ BeginTask(t) /\ ~ SpuriousWake(t)
      BY <1>0, <1>2 DEF Enqueue, NotifyPool, Return, NotDone, NothingToHelp, TakeTask,
                        WaitForTask, SkipTask, BeginTask, SpuriousWake, Types
    <3> QED
      BY <1>2, <3>2, <3>3, <3>4 DEF Step
  <2>3. CASE v # t
    <3>1. pc[v] = "asleep" /\ Top(v)' = Top(v)
      BY <1>2, <2>3, OthersStill
    <3>2. /\ stack[v] # <<>> /\ Top(v) \in Activation /\ Top(v)[1] \in CallId
          /\ At(v, Len(stack[v]), Top(v)) /\ Len(stack[v]) \in Nat
      BY <1>0, <2>0, <3>1, TopAt DEF PcFits, InCall, Activation
    <3>3. CASE NotifyCall(t)
      <4>1. Top(t)[1] # Top(v)[1]
        BY <1>0, <1>2, <2>3, <3>1, <3>3 DEF NotifyCall, Types
      <4>2. remaining' = remaining
        BY <3>3 DEF NotifyCall
      <4>3. \A u \in Threads : pc[u] = "notifyCall" /\ Top(u)[1] = Top(v)[1]
              => pc'[u] = "notifyCall" /\ Top(u)'[1] = Top(v)'[1]
        BY <1>2, <3>1, <4>1, OthersStill
      <4> QED
        BY <3>1, <4>2, <4>3 DEF CallerWakeup
    <3>4. CASE FinishTask(t)
      <4>1. stack[t] # <<>> /\ Top(t) \in Activation /\ Top(t)[1] \in CallId
        BY <1>0, <2>0, <3>4, TopAt DEF FinishTask, PcFits, InTask, Activation
      <4>2. remaining' = [remaining EXCEPT ![Top(t)[1]] = @ - 1] /\ pc[t] = "finish"
        BY <3>4 DEF FinishTask
      <4>3. CASE Top(t)[1] = Top(v)[1] /\ remaining[Top(t)[1]] = 1
        <5>1. pc'[t] = "notifyCall" /\ Top(t)' = Top(t)
          BY <1>0, <3>4, <4>3 DEF FinishTask, Types, Top
        <5> QED
          BY <3>1, <4>3, <5>1
      <4>4. CASE Top(t)[1] = Top(v)[1] /\ remaining[Top(t)[1]] # 1
        <5>1. remaining'[Top(v)[1]] = remaining[Top(t)[1]] - 1 /\ remaining[Top(t)[1]] \in Int
          BY <1>0, <4>1, <4>2, <4>4 DEF Types
        <5> QED
          BY <3>1, <4>4, <5>1
      <4>5. CASE Top(t)[1] # Top(v)[1]
        <5>1. remaining'[Top(v)[1]] = remaining[Top(v)[1]]
          BY <1>0, <3>2, <4>1, <4>2, <4>5 DEF Types
        <5>2. \A u \in Threads : pc[u] = "notifyCall" /\ Top(u)[1] = Top(v)[1]
                => pc'[u] = "notifyCall" /\ Top(u)'[1] = Top(v)'[1]
          BY <1>2, <3>1, <4>2, OthersStill
        <5> QED
          BY <3>1, <5>1, <5>2 DEF CallerWakeup
      <4> QED
        BY <4>3, <4>4, <4>5
    <3>5. ASSUME pc[t] # "notifyCall", remaining'[Top(v)[1]] = remaining[Top(v)[1]]
          PROVE  \/ remaining'[Top(v)'[1]] # 0
                 \/ \E u \in Threads : pc'[u] = "notifyCall" /\ Top(u)'[1] = Top(v)'[1]
      <4>1. \A u \in Threads : pc[u] = "notifyCall" /\ Top(u)[1] = Top(v)[1]
              => pc'[u] = "notifyCall" /\ Top(u)'[1] = Top(v)'[1]
        BY <1>2, <3>1, <3>5, OthersStill
      <4> QED
        BY <3>1, <3>5, <4>1 DEF CallerWakeup
    <3>6. ASSUME NEW n \in Branch, ParRun(t, n)
          PROVE  pc[t] # "notifyCall" /\ remaining'[Top(v)[1]] = remaining[Top(v)[1]]
      <4>1. Top(v)[1] <= ncalls /\ ncalls \in Nat /\ Top(v)[1] \in Nat
        BY <1>0, <3>2, ParPoolAssumption DEF Ownership, CallsIncrease, Types, CallId
      <4>2. Top(v)[1] # ncalls + 1
        BY <4>1
      <4> QED
        BY <1>0, <3>2, <3>6, <4>2 DEF ParRun, Types
    <3>7. ASSUME NEW b \in BOOLEAN, EndTask(t, b)
          PROVE  pc[t] # "notifyCall" /\ remaining'[Top(v)[1]] = remaining[Top(v)[1]]
      BY <3>7 DEF EndTask
    <3>8. CASE Enqueue(t) \/ NotifyPool(t) \/ Return(t) \/ NotDone(t) \/ NothingToHelp(t)
               \/ WaitForCall(t) \/ TakeTask(t) \/ WaitForTask(t) \/ SkipTask(t)
               \/ BeginTask(t) \/ SpuriousWake(t)
      <4>1. pc[t] # "notifyCall" /\ remaining' = remaining
        BY <3>8 DEF Enqueue, NotifyPool, Return, NotDone, NothingToHelp, WaitForCall,
                    TakeTask, WaitForTask, SkipTask, BeginTask, SpuriousWake
      <4> QED
        BY <3>5, <4>1
    <3> QED
      BY <1>2, <3>3, <3>4, <3>5, <3>6, <3>7, <3>8 DEF Step
  <2> QED
    BY <2>1, <2>2, <2>3
<1> QED
  BY <1>1, <1>2 DEF Next, CallerWakeup

LEMMA WakeupsInvariant == Spec => [](Shape /\ Ownership /\ Counted /\ Wakeups)
<1>1. Shape /\ Ownership /\ Wakeups /\ [Next]_vars => Wakeups'
  BY OwnTasksPoppedNext, CallerWakeupNext, WorkerWakeupNext DEF Wakeups
<1> QED
  BY <1>1, CountedInvariant, WakeupsInit, PTL DEF Spec

\* No thread sleeps through the notification it needs.
THEOREM WakeupsNotLost == Spec => []NoLostWakeup
<1>1. Wakeups => NoLostWakeup
  BY DEF Wakeups, CallerWakeup, WorkerWakeup, NoLostWakeup
<1> QED
  BY <1>1, WakeupsInvariant, PTL

(***************************************************************************)
(* No deadlock.  If every thread were blocked, the youngest open call would *)
(* be waited for by a sleeping thread, hence have an unfinished task; that  *)
(* task is on the stack of another thread, which sleeps in a younger call.  *)
(***************************************************************************)
LEMMA YoungestCall ==
  ASSUME NEW S \in SUBSET CallId, S # {}
  PROVE  \E c \in S : \A d \in S : d <= c
<1> DEFINE Less == {ss \in Nat \X Nat : ss[1] < ss[2]}
           T == {n \in Nat : \E c \in S : n = MaxCalls - c}
<1>1. IsWellFoundedOn(Less, Nat)
  BY NatLessThanWellFounded, Zenon DEF OpToRel
<1>2. \A c \in S : c \in Nat /\ MaxCalls - c \in Nat /\ MaxCalls \in Nat
  BY ParPoolAssumption DEF CallId
<1>3. T \subseteq Nat /\ T # {}
  BY <1>2
<1>4. PICK n \in T : \A m \in T : ~ (<<m, n>> \in Less)
  <2> HIDE DEF T, Less
  <2> QED
    BY <1>1, <1>3, WFMin
<1>5. PICK c \in S : n = MaxCalls - c
  OBVIOUS
<1>6. ASSUME NEW d \in S PROVE d <= c
  <2>1. MaxCalls - d \in T
    BY <1>2
  <2>2. ~ (MaxCalls - d < n)
    BY <1>2, <1>4, <1>5, <2>1
  <2> QED
    BY <1>2, <1>5, <2>2
<1> QED
  BY <1>6

\* A blocked thread with anything on its stack sleeps in the call on its top.
LEMMA BlockedAsleep ==
  ASSUME Shape, NEW t \in Threads, Blocked(t), stack[t] # <<>>
  PROVE  pc[t] = "asleep" /\ IsCall(Top(t))
BY DEF Shape, PcFits, Blocked, AtBase, InCall

LEMMA SomeThreadMoves ==
  Shape /\ Ownership /\ Counted /\ Wakeups => NoDeadlock
<1> SUFFICES ASSUME Shape, Ownership, Counted, Wakeups,
                    NEW b \in Calls, Open(b), \A t \in Threads : Blocked(t)
             PROVE  FALSE
  BY DEF NoDeadlock
<1>0. /\ Types /\ stack \in [Threads -> Seq(Activation)]
      /\ ncalls \in Nat /\ Calls \subseteq CallId
  BY ParPoolAssumption DEF Shape, Types, Calls, CallId
<1>1. PICK c \in CallId : /\ Open(c)
                          /\ \A d \in CallId : Open(d) => d <= c
  <2>1. PICK c \in {d \in CallId : Open(d)} : \A d \in {e \in CallId : Open(e)} : d <= c
    BY <1>0, YoungestCall
  <2> QED
    BY <2>1
<1>2. PICK t \in Threads, k \in Nat : At(t, k, CallActivation(c))
  BY <1>0, <1>1, OpenAt
<1>3. ASSUME NEW u \in Threads, NEW j \in Nat, NEW a \in Activation, At(u, j, a)
      PROVE  /\ pc[u] = "asleep" /\ IsCall(Top(u)) /\ Top(u) \in Activation
             /\ At(u, Len(stack[u]), Top(u)) /\ Len(stack[u]) \in Nat
             /\ j <= Len(stack[u])
             /\ Top(u)[1] \in CallId /\ Top(u)[1] <= c
             /\ j # Len(stack[u]) => a[1] < Top(u)[1]
             /\ j = Len(stack[u]) => a = Top(u)
  <2>1. /\ stack[u] # <<>> /\ Len(stack[u]) \in Nat /\ j <= Len(stack[u])
        /\ Top(u) \in Activation /\ At(u, Len(stack[u]), Top(u))
    BY <1>0, <1>3, TopAt
  <2>2. pc[u] = "asleep" /\ IsCall(Top(u))
    BY <2>1, BlockedAsleep
  <2>3. Top(u)[1] \in CallId /\ Top(u) = CallActivation(Top(u)[1])
    BY <2>1, <2>2 DEF Activation, IsCall, CallActivation
  <2>4. Open(Top(u)[1])
    BY <1>0, <2>1, <2>3, OpenAt
  <2>5. j # Len(stack[u]) => a[1] < Top(u)[1]
    BY <1>3, <2>1, <2>2 DEF Ownership, CallsIncrease
  <2>6. j = Len(stack[u]) => a = Top(u)
    BY <1>0, <1>3, <2>1, TopAt
  <2> QED
    BY <1>1, <2>1, <2>2, <2>3, <2>4, <2>5, <2>6
<1>4. pc[t] = "asleep" /\ Top(t)[1] = c
  <2>1. CallActivation(c) \in Activation /\ CallActivation(c)[1] = c /\ c \in Nat
    BY CallActivationFacts DEF CallId
  <2>2. pc[t] = "asleep" /\ Top(t)[1] <= c /\ Top(t)[1] \in Nat
        /\ (k # Len(stack[t]) => c < Top(t)[1])
        /\ (k = Len(stack[t]) => CallActivation(c) = Top(t))
    BY <1>2, <1>3, <2>1 DEF CallId
  <2> QED
    BY <2>1, <2>2
<1>5. PICK i \in 1 .. count[c] : status[<<c, i>>] # "done"
  <2>1. remaining[c] # 0
    BY <1>4 DEF Wakeups, CallerWakeup, Blocked
  <2>2. Unfinished(c) # {}
    BY <2>1, FS_EmptySet DEF Counted
  <2> QED
    BY <2>2 DEF Unfinished
<1>6. <<c, i>> \in Task /\ <<c, i>>[1] = c /\ <<c, i>>[2] = i /\ <<c, i>> \in Activation
      /\ ~ IsCall(<<c, i>>)
  <2>1. count[c] \in 0 .. MaxWidth /\ MaxWidth \in Nat
    BY <1>0, ParPoolAssumption DEF Types
  <2>2. i \in Branch
    BY <2>1 DEF Branch
  <2> QED
    BY <2>2, TaskFacts DEF Task, IsCall, Branch
<1>7. c <= ncalls
  BY <1>2, CallActivationFacts DEF Ownership, CallsIncrease
<1>8. status[<<c, i>>] # "new"
  BY <1>6, <1>7 DEF Ownership, StatusNew, Blocked
<1>9. status[<<c, i>>] # "queued"
  BY <1>4, <1>6 DEF Ownership, StatusQueued, Wakeups, OwnTasksPopped
<1>10. PICK u \in Threads, j \in Nat : At(u, j, <<c, i>>)
  <2>1. status[<<c, i>>] = "popped"
    BY <1>0, <1>5, <1>6, <1>8, <1>9 DEF Types
  <2> QED
    BY <1>6, <2>1 DEF Ownership, StatusPopped
<1>11. j # Len(stack[u])
  BY <1>3, <1>6, <1>10
<1>12. c < Top(u)[1] /\ Top(u)[1] <= c /\ Top(u)[1] \in Nat /\ c \in Nat
  BY <1>3, <1>6, <1>10, <1>11 DEF CallId
<1> QED
  BY <1>12

\* Nested par blocks never deadlock, whatever the number of workers.
THEOREM DeadlockFree == Spec => []NoDeadlock
BY SomeThreadMoves, WakeupsInvariant, PTL
-----------------------------------------------------------------------------
(***************************************************************************)
(* ParPool implements ForkJoin, and what frame tracking stores is the      *)
(* structure of the fork-join: CURRENT_FRAME is the innermost running      *)
(* branch of a thread, a call's parent pointer the branch that made it.    *)
(***************************************************************************)

(***************************************************************************)
(* Calls and tasks alternate on a stack, so below a call is the task that  *)
(* made it, and two below a task is the task of the same thread it         *)
(* interrupted.                                                            *)
(***************************************************************************)

\* The activation at depth k of the stack of t, taken for a frame.
StackFrame(t, k) == IF k \in 1 .. Len(stack[t]) THEN stack[t][k] ELSE NoFrame

\* Depth k of t is in its branch: the thread runs it, or waits above it.
Runs(t, k) ==
  k \in 1 .. Len(stack[t]) /\ (k < Len(stack[t]) \/ pc[t] = "user")

\* The depth of the frame in CURRENT_FRAME.
CurDepth(t) ==
  IF pc[t] = "user" THEN Len(stack[t])
  ELSE IF pc[t] \in InCall THEN Len(stack[t]) - 1
  ELSE Len(stack[t]) - 2

\* CURRENT_FRAME, and the frame that each live guard will restore.
FramesOf(t) ==
  /\ cur[t] = StackFrame(t, CurDepth(t))
  /\ \A k \in Nat : Runs(t, k) /\ ~ IsCall(stack[t][k]) =>
       prev[stack[t][k]] = StackFrame(t, k - 2)

Frames == TrackFrames => \A t \in Threads : FramesOf(t)

\* Where an activation stays, the frames at its depth stay.
LEMMA StackFramePush ==
  ASSUME stack \in [Threads -> Seq(Activation)],
         NEW t \in Threads, NEW a \in Activation, Pushes(t, a)
  PROVE  \A k \in Int :
           StackFrame(t, k)' = IF k = Len(stack[t]) + 1 THEN a ELSE StackFrame(t, k)
<1>1. /\ Len(stack[t]) \in Nat
      /\ Len(stack'[t]) = Len(stack[t]) + 1
      /\ \A k \in 1 .. Len(stack[t]) : stack'[t][k] = stack[t][k]
      /\ stack'[t][Len(stack[t]) + 1] = a
  BY PushFacts
<1>2. Len(stack[t]) + 1 \in 1 .. Len(stack'[t])
  BY <1>1
<1>3. ASSUME NEW k \in Int, k # Len(stack[t]) + 1
      PROVE  k \in 1 .. Len(stack'[t]) <=> k \in 1 .. Len(stack[t])
  BY <1>1, <1>3
<1> QED
  BY <1>1, <1>2, <1>3 DEF StackFrame

LEMMA StackFramePop ==
  ASSUME stack \in [Threads -> Seq(Activation)],
         NEW t \in Threads, stack[t] # <<>>, Pops(t)
  PROVE  \A k \in Int : k # Len(stack[t]) => StackFrame(t, k)' = StackFrame(t, k)
<1>1. /\ Len(stack[t]) \in Nat \ {0}
      /\ Len(stack'[t]) = Len(stack[t]) - 1
      /\ \A k \in 1 .. Len(stack[t]) - 1 : stack'[t][k] = stack[t][k]
  BY PopFacts
<1>2. ASSUME NEW k \in Int, k # Len(stack[t])
      PROVE  k \in 1 .. Len(stack'[t]) <=> k \in 1 .. Len(stack[t])
  BY <1>1, <1>2
<1> QED
  BY <1>1, <1>2 DEF StackFrame

LEMMA FramesInit == Init => Frames
<1> SUFFICES ASSUME Init, NEW t \in Threads PROVE FramesOf(t)
  BY DEF Frames
<1>1. stack[t] = <<>> /\ cur[t] = NoFrame /\ Len(stack[t]) = 0
  BY DEF Init
<1>2. \A k : k \notin 1 .. Len(stack[t])
  BY <1>1
<1> QED
  BY <1>1, <1>2 DEF FramesOf, StackFrame, Runs

\* A step of t leaves the stacks of other threads alone.
LEMMA StacksStill ==
  ASSUME Shape, NEW t \in Threads, Step(t) \/ SpuriousWake(t),
         NEW u \in Threads, u # t
  PROVE  stack'[u] = stack[u]
<1>1. \A n : ParRun(t, n) => stack'[u] = stack[u]
  BY DEF ParRun, Shape, Types
<1>2. Return(t) \/ TakeTask(t) \/ FinishTask(t) \/ NotifyCall(t) => stack'[u] = stack[u]
  BY DEF Return, TakeTask, FinishTask, NotifyCall, Shape, Types
<1>3. \A b : EndTask(t, b) => stack'[u] = stack[u]
  BY DEF EndTask
<1> QED
  BY <1>1, <1>2, <1>3
  DEF Step, Enqueue, NotifyPool, NotDone, NothingToHelp, WaitForCall, WaitForTask,
      SkipTask, BeginTask, SpuriousWake

\* A thread whose stack and frames are left alone, and that at most wakes up.
LEMMA FramesStill ==
  ASSUME Shape, NEW u \in Threads, FramesOf(u), Wakes(u), cur'[u] = cur[u],
         \A k \in Nat : Runs(u, k) /\ ~ IsCall(stack[u][k]) =>
           prev'[stack[u][k]] = prev[stack[u][k]]
  PROVE  FramesOf(u)'
<1>1. pc[u] \in {"off", "cv"} => Len(stack[u]) = 0
  BY DEF Shape, PcFits, AtBase
<1>2. \A k : StackFrame(u, k)' = StackFrame(u, k)
  BY DEF Wakes, StackFrame
<1>3. \A k : Runs(u, k)' <=> Runs(u, k)
  BY DEF Wakes, Runs
<1>4. CurDepth(u)' = CurDepth(u)
  BY DEF Wakes, CurDepth, InCall
<1> QED
  BY <1>2, <1>3, <1>4 DEF FramesOf, Wakes

LEMMA FramesNext ==
  Shape /\ Ownership /\ Frames /\ [Next]_vars => Frames'
<1> SUFFICES ASSUME Shape, Ownership, Frames, [Next]_vars, TrackFrames
             PROVE  \A u \in Threads : FramesOf(u)'
  BY DEF Frames
<1>0. /\ Types /\ Types' /\ stack \in [Threads -> Seq(Activation)]
      /\ \A u \in Threads : FramesOf(u)
  BY ShapeNext DEF Shape, Types, Frames
<1>1. CASE UNCHANGED vars
  BY <1>0, <1>1 DEF vars, FramesOf, StackFrame, CurDepth, Runs
<1>2. ASSUME NEW t \in Threads, Step(t) \/ SpuriousWake(t)
      PROVE  \A u \in Threads : FramesOf(u)'
  <2> DEFINE n == Len(stack[t])
  <2>0. /\ PcFits(t) /\ FramesOf(t) /\ Alternates(t)
        /\ n \in Nat /\ (n = 0 <=> stack[t] = <<>>)
    BY <1>0, LenProperties, EmptySeq DEF Shape
  <2>1. ASSUME NEW u \in Threads, u # t PROVE Wakes(u)
    BY <1>2, <2>1, OthersStill, StacksStill DEF Wakes
  \* Other threads: their guards are those of other tasks.
  <2>2. ASSUME NEW u \in Threads, u # t PROVE FramesOf(u)'
    <3>1. cur'[u] = cur[u]
      <4>1. \A b : EndTask(t, b) => cur'[u] = cur[u]
        BY <1>0, <2>2 DEF EndTask, Types
      <4>2. \A m : ParRun(t, m) => cur'[u] = cur[u]
        BY DEF ParRun
      <4>3. BeginTask(t) => cur'[u] = cur[u]
        BY <1>0, <2>2 DEF BeginTask, Types
      <4> QED
        BY <1>2, <4>1, <4>2, <4>3
        DEF Step, Enqueue, NotifyPool, Return, NotDone, NothingToHelp, WaitForCall,
            TakeTask, WaitForTask, SkipTask, FinishTask, NotifyCall, SpuriousWake
    <3>2. ASSUME NEW k \in Nat, Runs(u, k), ~ IsCall(stack[u][k])
          PROVE  prev'[stack[u][k]] = prev[stack[u][k]]
      <4> DEFINE x == stack[u][k]
      <4>1. x \in Task /\ x \in Activation /\ At(u, k, x)
        BY <1>0, <3>2, ElementOfSeq, TaskFacts DEF Runs, At
      <4>2. stack[t] # <<>> => x # Top(t)
        BY <1>0, <2>0, <2>2, <4>1, TopAt DEF Ownership, OnePlace
      <4>3. \A b : EndTask(t, b) => prev'[x] = prev[x]
        BY <1>0, <4>1, <4>2 DEF EndTask, Types
      <4>4. \A m : ParRun(t, m) => prev'[x] = prev[x]
        BY DEF ParRun
      <4>5. BeginTask(t) => prev'[x] = prev[x]
        BY <1>0, <2>0, <4>1, <4>2 DEF BeginTask, Types, PcFits, InTask
      <4> QED
        BY <1>2, <4>3, <4>4, <4>5
        DEF Step, Enqueue, NotifyPool, Return, NotDone, NothingToHelp, WaitForCall,
            TakeTask, WaitForTask, SkipTask, FinishTask, NotifyCall, SpuriousWake
    <3> QED
      BY <1>0, <2>1, <2>2, <3>1, <3>2, FramesStill
  <2> SUFFICES FramesOf(t)'
    BY <2>2
  <2>3. ASSUME UNCHANGED <<stack, cur, prev>>, pc[t] # "user", pc'[t] # "user",
               pc'[t] \in InCall <=> pc[t] \in InCall
        PROVE  FramesOf(t)'
    BY <2>0, <2>3 DEF FramesOf, StackFrame, CurDepth, Runs
  <2>4. ASSUME NEW a \in Activation, Pushes(t, a), UNCHANGED <<cur, prev>>,
               pc'[t] # "user",
               IsCall(a) => pc[t] = "user" /\ pc'[t] \in InCall,
               ~ IsCall(a) => pc[t] \in InCall \cup AtBase /\ pc'[t] \notin InCall
        PROVE  FramesOf(t)'
    <3>1. \A k \in Int : StackFrame(t, k)' = IF k = n + 1 THEN a ELSE StackFrame(t, k)
      BY <1>0, <2>4, StackFramePush
    <3>2. /\ Len(stack'[t]) = n + 1
          /\ \A k \in 1 .. n : stack'[t][k] = stack[t][k]
      BY <1>0, <2>4, PushFacts
    <3>3. cur'[t] = StackFrame(t, CurDepth(t))'
      <4>1. CASE pc[t] \in AtBase
        <5>1. n = 0 /\ CurDepth(t) = 0 - 2 /\ CurDepth(t)' = 1 - 2
          BY <2>0, <2>4, <3>2, <4>1 DEF PcFits, CurDepth, AtBase, InCall
        <5>2. cur[t] = NoFrame /\ StackFrame(t, CurDepth(t))' = NoFrame
          BY <2>0, <3>2, <5>1 DEF FramesOf, StackFrame
        <5> QED
          BY <2>4, <5>2
      <4>2. CASE pc[t] \notin AtBase
        <5>1. CurDepth(t)' = CurDepth(t) /\ CurDepth(t) \in Int /\ CurDepth(t) # n + 1
          BY <2>0, <2>4, <3>2, <4>2 DEF CurDepth, InCall
        <5>2. StackFrame(t, CurDepth(t))' = StackFrame(t, CurDepth(t))
          BY <3>1, <5>1 DEF StackFrame
        <5> QED
          BY <2>0, <2>4, <5>2 DEF FramesOf
      <4> QED
        BY <4>1, <4>2
    <3>4. ASSUME NEW k \in Nat, Runs(t, k)', ~ IsCall(stack'[t][k])
          PROVE  prev'[stack'[t][k]] = StackFrame(t, k - 2)'
      <4>1. k \in 1 .. n /\ stack'[t][k] = stack[t][k]
        BY <2>0, <2>4, <3>2, <3>4 DEF Runs
      <4>2. Runs(t, k)
        <5>1. k = n => pc[t] \notin InCall /\ pc[t] \notin AtBase
          BY <2>0, <3>4, <4>1 DEF PcFits, Top
        <5> QED
          BY <2>0, <2>4, <4>1, <5>1, <2>4 DEF Runs
      <4>3. StackFrame(t, k - 2)' = StackFrame(t, k - 2)
        BY <2>0, <3>1, <4>1
      <4> QED
        BY <2>0, <2>4, <3>4, <4>1, <4>2, <4>3 DEF FramesOf
    <3> QED
      BY <3>3, <3>4 DEF FramesOf
  <2>5. ASSUME stack[t] # <<>>, Pops(t), UNCHANGED <<cur, prev>>,
               \/ pc[t] \in InCall /\ pc'[t] = "user"
               \/ pc[t] \in InTask /\ pc'[t] = ResumeAt(stack[t])
        PROVE  FramesOf(t)'
    <3>1. \A k \in Int : k # n => StackFrame(t, k)' = StackFrame(t, k)
      BY <1>0, <2>5, StackFramePop
    <3>2. /\ n \in Nat \ {0}
          /\ Len(stack'[t]) = n - 1
          /\ \A k \in 1 .. n - 1 : stack'[t][k] = stack[t][k]
      BY <1>0, <2>5, PopFacts
    <3>3. cur'[t] = StackFrame(t, CurDepth(t))'
      <4>1. CASE pc[t] \in InTask /\ n = 1
        <5>1. CurDepth(t) = 1 - 2 /\ CurDepth(t)' = 0 - 2
          BY <2>5, <3>2, <4>1 DEF CurDepth, InTask, InCall, ResumeAt
        <5>2. cur[t] = NoFrame /\ StackFrame(t, CurDepth(t))' = NoFrame
          BY <2>0, <3>2, <5>1 DEF FramesOf, StackFrame
        <5> QED
          BY <2>5, <5>2
      <4>2. CASE ~ (pc[t] \in InTask /\ n = 1)
        <5>1. CurDepth(t)' = CurDepth(t) /\ CurDepth(t) \in Int /\ CurDepth(t) # n
          BY <2>5, <3>2, <4>2 DEF CurDepth, InTask, InCall, ResumeAt
        <5>2. StackFrame(t, CurDepth(t))' = StackFrame(t, CurDepth(t))
          BY <3>1, <5>1 DEF StackFrame
        <5> QED
          BY <2>0, <2>5, <5>2 DEF FramesOf
      <4> QED
        BY <4>1, <4>2
    <3>4. ASSUME NEW k \in Nat, Runs(t, k)', ~ IsCall(stack'[t][k])
          PROVE  prev'[stack'[t][k]] = StackFrame(t, k - 2)'
      <4>1. k \in 1 .. n - 1 /\ stack'[t][k] = stack[t][k] /\ Runs(t, k)
        BY <3>2, <3>4 DEF Runs
      <4>2. StackFrame(t, k - 2)' = StackFrame(t, k - 2)
        BY <3>1, <3>2, <4>1
      <4> QED
        BY <2>0, <2>5, <3>4, <4>1, <4>2 DEF FramesOf
    <3> QED
      BY <3>3, <3>4 DEF FramesOf
  <2>6. CASE BeginTask(t)
    <3>1. /\ pc[t] = "start" /\ pc'[t] = "user" /\ UNCHANGED stack
          /\ prev' = [prev EXCEPT ![Top(t)] = cur[t]]
          /\ cur' = [cur EXCEPT ![t] = Top(t)]
      BY <1>0, <2>6 DEF BeginTask, Types
    <3>2. n \in Nat \ {0} /\ Top(t) \in Task /\ At(t, n, Top(t))
      BY <1>0, <2>0, <3>1, TopAt, TaskFacts DEF PcFits, InTask
    <3>3. \A k : StackFrame(t, k)' = StackFrame(t, k)
      BY <3>1 DEF StackFrame
    <3>4. cur'[t] = StackFrame(t, CurDepth(t))'
      BY <1>0, <3>1, <3>2 DEF CurDepth, StackFrame, Top, Types
    <3>5. ASSUME NEW k \in Nat, Runs(t, k)', ~ IsCall(stack'[t][k])
          PROVE  prev'[stack'[t][k]] = StackFrame(t, k - 2)'
      <4>1. k \in 1 .. n /\ stack'[t][k] = stack[t][k]
        BY <3>1, <3>5 DEF Runs
      <4>2. CASE k = n
        <5>1. prev'[Top(t)] = cur[t] /\ stack[t][k] = Top(t)
          BY <1>0, <3>1, <3>2, <4>2 DEF Types, Top
        <5>2. cur[t] = StackFrame(t, k - 2)
          BY <2>0, <3>1, <4>2 DEF FramesOf, CurDepth, InCall
        <5> QED
          BY <3>3, <4>1, <5>1, <5>2
      <4>3. CASE k # n
        <5>1. Runs(t, k)
          BY <2>0, <4>1, <4>3 DEF Runs
        <5>2. stack[t][k] \in Activation /\ At(t, k, stack[t][k])
          BY <1>0, <4>1, ElementOfSeq DEF At
        <5>3. stack[t][k] # Top(t)
          BY <2>0, <3>2, <4>3, <5>2, TaskFacts DEF Ownership, OnePlace
        <5>4. prev'[stack[t][k]] = prev[stack[t][k]]
          BY <3>1, <5>3
        <5> QED
          BY <2>0, <3>3, <3>5, <4>1, <5>1, <5>4 DEF FramesOf
      <4> QED
        BY <4>2, <4>3
    <3> QED
      BY <3>4, <3>5 DEF FramesOf
  <2>7. ASSUME NEW b \in BOOLEAN, EndTask(t, b) PROVE FramesOf(t)'
    <3>1. /\ pc[t] = "user" /\ pc'[t] = "finish" /\ UNCHANGED stack /\ stack[t] # <<>>
          /\ prev' = [prev EXCEPT ![Top(t)] = NoFrame]
          /\ cur' = [cur EXCEPT ![t] = prev[Top(t)]]
      BY <1>0, <2>7 DEF EndTask, Types
    <3>2. n \in Nat \ {0} /\ Top(t) \in Task /\ At(t, n, Top(t)) /\ ~ IsCall(Top(t))
      BY <1>0, <2>0, <3>1, TopAt, TaskFacts DEF PcFits
    <3>3. \A k : StackFrame(t, k)' = StackFrame(t, k)
      BY <3>1 DEF StackFrame
    <3>4. cur'[t] = StackFrame(t, CurDepth(t))'
      <4>1. Runs(t, n) /\ Top(t) = stack[t][n]
        BY <3>1, <3>2 DEF Runs, Top
      <4>2. prev[Top(t)] = StackFrame(t, n - 2)
        BY <2>0, <3>2, <4>1 DEF FramesOf
      <4>3. CurDepth(t)' = n - 2
        BY <3>1 DEF CurDepth, InCall
      <4>4. cur'[t] = prev[Top(t)]
        BY <1>0, <3>1 DEF Types
      <4> QED
        BY <3>1, <4>2, <4>3, <4>4 DEF StackFrame
    <3>5. ASSUME NEW k \in Nat, Runs(t, k)', ~ IsCall(stack'[t][k])
          PROVE  prev'[stack'[t][k]] = StackFrame(t, k - 2)'
      <4>1. k \in 1 .. n /\ k < n /\ stack'[t][k] = stack[t][k]
        BY <3>1, <3>5 DEF Runs
      <4>2. Runs(t, k)
        BY <2>0, <4>1 DEF Runs
      <4>3. stack[t][k] \in Activation /\ At(t, k, stack[t][k])
        BY <1>0, <4>1, ElementOfSeq DEF At
      <4>4. stack[t][k] # Top(t)
        BY <2>0, <3>2, <4>1, <4>3, TaskFacts DEF Ownership, OnePlace
      <4>5. prev'[stack[t][k]] = prev[stack[t][k]]
        BY <3>1, <4>4
      <4> QED
        BY <2>0, <3>3, <3>5, <4>1, <4>2, <4>5 DEF FramesOf
    <3> QED
      BY <3>4, <3>5 DEF FramesOf
  <2>8. ASSUME NEW m \in Branch, ParRun(t, m) PROVE FramesOf(t)'
    <3>1. ncalls + 1 \in CallId
      BY <1>0, <2>8, ParPoolAssumption DEF ParRun, Types, CallId
    <3>2. Pushes(t, CallActivation(ncalls + 1)) /\ CallActivation(ncalls + 1) \in Activation
          /\ IsCall(CallActivation(ncalls + 1)) /\ UNCHANGED <<cur, prev>>
      BY <2>8, <3>1, CallActivationFacts DEF ParRun, Pushes
    <3>3. pc[t] = "user" /\ pc'[t] = "enqueue"
      BY <1>0, <2>8 DEF ParRun, Types
    <3> QED
      BY <2>4, <3>2, <3>3 DEF InCall
  <2>9. CASE TakeTask(t)
    <3>1. Head(queue) \in Activation /\ ~ IsCall(Head(queue))
      BY <1>0, <2>9, TakeAt, TaskFacts DEF TakeTask, Types
    <3>2. Pushes(t, Head(queue)) /\ UNCHANGED <<cur, prev>>
          /\ pc[t] \in InCall \cup AtBase /\ pc'[t] = "start"
      BY <1>0, <2>9 DEF TakeTask, Types, Pushes, InCall, AtBase
    <3> QED
      BY <2>4, <3>1, <3>2 DEF InCall
  <2>10. CASE Return(t)
    <3>1. stack[t] # <<>> /\ Pops(t) /\ UNCHANGED <<cur, prev>>
          /\ pc[t] \in InCall /\ pc'[t] = "user"
      BY <1>0, <2>0, <2>10 DEF Return, Types, Pops, PcFits, InCall
    <3> QED
      BY <2>5, <3>1
  <2>11. CASE FinishTask(t) \/ NotifyCall(t)
    <3>1. stack[t] # <<>> /\ pc[t] \in InTask /\ UNCHANGED <<cur, prev>>
      BY <1>0, <2>0, <2>11 DEF FinishTask, NotifyCall, PcFits, InTask
    <3>2. \/ Pops(t) /\ pc'[t] = ResumeAt(stack[t])
          \/ UNCHANGED stack /\ pc'[t] = "notifyCall"
      BY <1>0, <2>11 DEF FinishTask, NotifyCall, Pops, Types
    <3> QED
      BY <2>3, <2>5, <3>1, <3>2 DEF InTask, InCall
  <2>12. CASE \/ Enqueue(t) \/ NotifyPool(t) \/ NotDone(t) \/ NothingToHelp(t)
              \/ WaitForCall(t) \/ WaitForTask(t) \/ SkipTask(t) \/ SpuriousWake(t)
    BY <1>0, <2>3, <2>12
    DEF Enqueue, NotifyPool, NotDone, NothingToHelp, WaitForCall, WaitForTask, SkipTask,
        SpuriousWake, Types, InCall
  <2> QED
    BY <1>2, <2>6, <2>7, <2>8, <2>9, <2>10, <2>11, <2>12 DEF Step
<1> QED
  BY <1>1, <1>2 DEF Next

\* Every thread's CURRENT_FRAME is the frame of its innermost running task.
LEMMA InnermostFrame == Shape /\ Frames => CurrentFrameRestored
<1> SUFFICES ASSUME Shape, Frames, TrackFrames, NEW t \in Threads
             PROVE  \/ Running(t) = {} /\ cur[t] = NoFrame
                    \/ \E k \in Running(t) : /\ \A j \in Running(t) : j <= k
                                             /\ cur[t] = stack[t][k]
  BY DEF CurrentFrameRestored
<1> DEFINE n == Len(stack[t])
           d == CurDepth(t)
<1>1. /\ Types /\ PcFits(t) /\ Alternates(t) /\ cur[t] = StackFrame(t, d)
      /\ stack[t] \in Seq(Activation)
      /\ n \in Nat /\ (n = 0 <=> stack[t] = <<>>)
  BY LenProperties, EmptySeq DEF Shape, Types, Frames, FramesOf
<1>2. d \in Int /\ d <= n
  BY <1>1 DEF CurDepth
<1>3. \A j \in Running(t) : j \in 1 .. n /\ j <= d
  <2> SUFFICES ASSUME NEW j \in Running(t) PROVE j \in 1 .. n /\ j <= d
    OBVIOUS
  <2>1. j \in 1 .. n /\ ~ IsCall(stack[t][j]) /\ (j = n => pc[t] = "user")
    BY DEF Running
  <2>2. n # 0 /\ pc[t] \notin AtBase
    BY <1>1, <2>1 DEF PcFits
  <2>3. j # n => (IsCall(stack[t][j + 1]) /\ j + 1 \in 1 .. n)
    BY <1>1, <2>1 DEF Alternates
  <2>4. pc[t] # "user" => pc[t] \in InCall \cup InTask
    BY <1>1, <2>2 DEF Types, AtBase, InCall, InTask
  <2>5. pc[t] \in InTask => ~ IsCall(stack[t][n]) /\ pc[t] # "user" /\ pc[t] \notin InCall
    BY <1>1 DEF PcFits, Top, InTask, InCall
  <2> QED
    BY <1>1, <2>1, <2>3, <2>4, <2>5 DEF CurDepth
<1>4. d \in 1 .. n => d \in Running(t)
  <2> SUFFICES ASSUME d \in 1 .. n PROVE d \in Running(t)
    OBVIOUS
  <2>1. n # 0 /\ pc[t] \notin AtBase /\ n \in 1 .. n
    BY <1>1 DEF PcFits
  <2>2. CASE pc[t] = "user"
    BY <1>1, <2>1, <2>2 DEF PcFits, Running, CurDepth, Top
  <2>3. CASE pc[t] \in InCall
    <3>1. IsCall(stack[t][n]) /\ d = n - 1 /\ d + 1 = n
      BY <1>1, <2>3 DEF PcFits, CurDepth, InCall, Top
    <3>2. ~ IsCall(stack[t][d])
      <4>1. \A k \in 1 .. n - 1 : IsCall(stack[t][k]) <=> ~ IsCall(stack[t][k + 1])
        BY <1>1 DEF Alternates
      <4>2. d \in 1 .. n - 1
        BY <1>1, <3>1
      <4>3. IsCall(stack[t][d]) <=> ~ IsCall(stack[t][d + 1])
        BY <4>1, <4>2, Zenon
      <4> QED
        BY <3>1, <4>3, Zenon
    <3> QED
      BY <1>1, <3>1, <3>2 DEF Running
  <2>4. CASE pc[t] \in InTask
    <3>1. ~ IsCall(stack[t][n]) /\ d = n - 2 /\ n - 1 \in 1 .. n - 1 /\ d \in 1 .. n - 1
          /\ n - 1 + 1 = n /\ d + 1 = n - 1
      BY <1>1, <2>4 DEF PcFits, CurDepth, InTask, InCall, Top
    <3>2. IsCall(stack[t][n - 1]) /\ ~ IsCall(stack[t][d])
      BY <1>1, <3>1 DEF Alternates
    <3> QED
      BY <1>1, <3>1, <3>2 DEF Running
  <2> QED
    BY <1>1, <2>1, <2>2, <2>3, <2>4 DEF Types, AtBase, InCall, InTask
<1>5. CASE d \in 1 .. n
  BY <1>1, <1>3, <1>4, <1>5 DEF StackFrame
<1>6. CASE d \notin 1 .. n
  BY <1>1, <1>2, <1>3, <1>6 DEF StackFrame
<1> QED
  BY <1>5, <1>6

LEMMA FramesInvariant == Spec => [](Shape /\ Ownership /\ Frames)
BY OwnershipInvariant, FramesInit, FramesNext, PTL DEF Spec

\* CURRENT_FRAME is the frame of the innermost task running on the thread,
\* whatever foreign tasks it has helped with in between.
THEOREM CurrentFrameCorrect == Spec => []CurrentFrameRestored
BY FramesInvariant, InnermostFrame, PTL

(***************************************************************************)
(* Parent pointers and registered frames.                                  *)
(***************************************************************************)

\* An open call's parent is the task below it on the stack of its caller.
Parents ==
  \A t \in Threads, k \in Nat, c \in CallId : At(t, k, CallActivation(c)) =>
    parent[c] = IF TrackFrames THEN StackFrame(t, k - 1) ELSE NoFrame

\* The registered frames are those of the tasks that are in their branch.
RunsAt(t, k, x) == At(t, k, x) /\ Runs(t, k)

Actives ==
  \A x \in Task :
    x \in active <=> TrackFrames /\ \E t \in Threads, k \in Nat : RunsAt(t, k, x)

LEMMA ParentsInit == Init => Parents /\ Actives
<1> SUFFICES ASSUME Init PROVE Parents /\ Actives
  OBVIOUS
<1>1. \A t \in Threads : Len(stack[t]) = 0
  BY DEF Init
<1>2. \A t \in Threads, k \in Nat : k \notin 1 .. Len(stack[t])
  BY <1>1
<1> QED
  BY <1>2 DEF Init, Parents, Actives, RunsAt, At

LEMMA ParentsNext ==
  Shape /\ Ownership /\ Frames /\ Parents /\ [Next]_vars => Parents'
<1> SUFFICES ASSUME Shape, Ownership, Frames, Parents, [Next]_vars PROVE Parents'
  OBVIOUS
<1>0. /\ Types /\ stack \in [Threads -> Seq(Activation)]
      /\ \A u \in Threads : Len(stack[u]) \in Nat
  BY LenProperties DEF Shape, Types
<1>1. ASSUME UNCHANGED <<stack, parent>> PROVE Parents'
  BY <1>1 DEF Parents, At, StackFrame
<1>2. ASSUME NEW t \in Threads, Step(t) \/ SpuriousWake(t) PROVE Parents'
  <2>0. PcFits(t)
    BY DEF Shape
  <2>1. \A u \in Threads : u # t => stack'[u] = stack[u]
    BY <1>2, StacksStill
  <2>2. ASSUME NEW m \in Branch, ParRun(t, m) PROVE Parents'
    <3> DEFINE d == ncalls + 1
               n == Len(stack[t])
    <3>1. d \in CallId /\ ncalls \in Nat
      BY <1>0, <2>2, ParPoolAssumption DEF ParRun, Types, CallId
    <3>2. /\ Pushes(t, CallActivation(d)) /\ CallActivation(d) \in Activation
          /\ parent' = [parent EXCEPT ![d] = IF TrackFrames THEN cur[t] ELSE NoFrame]
          /\ pc[t] = "user"
      BY <2>2, <3>1, CallActivationFacts DEF ParRun, Pushes
    <3>3. \A u \in Threads, k \in Nat, b \in Activation :
            At(u, k, b)' <=> At(u, k, b) \/ (u = t /\ k = n + 1 /\ b = CallActivation(d))
      BY <1>0, <3>2, PushAt
    <3>4. \A k \in Int : StackFrame(t, k)' =
            IF k = n + 1 THEN CallActivation(d) ELSE StackFrame(t, k)
      BY <1>0, <3>2, StackFramePush
    <3>5. TrackFrames => cur[t] = StackFrame(t, n)
      BY <3>2 DEF Frames, FramesOf, CurDepth
    <3>6. ASSUME NEW u \in Threads, NEW k \in Nat, NEW c \in CallId,
                 At(u, k, CallActivation(c))'
          PROVE  parent'[c] = IF TrackFrames THEN StackFrame(u, k - 1)' ELSE NoFrame
      <4>1. CASE At(u, k, CallActivation(c))
        <5>1. c <= ncalls /\ c \in Nat
          BY <4>1, CallActivationFacts DEF Ownership, CallsIncrease, CallId
        <5>2. parent'[c] = parent[c]
          BY <1>0, <3>1, <3>2, <5>1 DEF Types
        <5>3. k - 1 \in Int /\ k <= Len(stack[u])
          BY <4>1 DEF At
        <5>4. StackFrame(u, k - 1)' = StackFrame(u, k - 1)
          BY <1>0, <2>1, <3>4, <5>3 DEF StackFrame
        <5> QED
          BY <4>1, <5>2, <5>4 DEF Parents
      <4>2. CASE u = t /\ k = n + 1 /\ CallActivation(c) = CallActivation(d)
        <5>1. c = d /\ k - 1 = n /\ n \in Int /\ n # n + 1
          BY <1>0, <3>1, <4>2, CallActivationFacts
        <5>2. parent'[c] = IF TrackFrames THEN cur[t] ELSE NoFrame
          BY <1>0, <3>1, <3>2, <5>1 DEF Types
        <5>3. StackFrame(u, k - 1)' = StackFrame(t, n)
          BY <3>4, <4>2, <5>1 DEF StackFrame
        <5> QED
          BY <3>5, <5>2, <5>3
      <4> QED
        BY <3>3, <3>6, <4>1, <4>2, CallActivationFacts
    <3> QED
      BY <3>6 DEF Parents
  <2>3. CASE TakeTask(t)
    <3> DEFINE n == Len(stack[t])
    <3>1. Head(queue) \in Task /\ Head(queue) \in Activation
      BY <1>0, <2>3, TakeAt, TaskFacts DEF TakeTask, Types
    <3>2. Pushes(t, Head(queue)) /\ UNCHANGED parent
      BY <2>3 DEF TakeTask, Pushes
    <3>3. \A u \in Threads, k \in Nat, b \in Activation :
            At(u, k, b)' <=> At(u, k, b) \/ (u = t /\ k = n + 1 /\ b = Head(queue))
      BY <1>0, <3>1, <3>2, PushAt
    <3>4. \A k \in Int : StackFrame(t, k)' = IF k = n + 1 THEN Head(queue) ELSE StackFrame(t, k)
      BY <1>0, <3>1, <3>2, StackFramePush
    <3>5. ASSUME NEW u \in Threads, NEW k \in Nat, NEW c \in CallId,
                 At(u, k, CallActivation(c))'
          PROVE  parent'[c] = IF TrackFrames THEN StackFrame(u, k - 1)' ELSE NoFrame
      <4>1. At(u, k, CallActivation(c))
        BY <3>1, <3>3, <3>5, CallActivationFacts
      <4>2. k - 1 \in Int /\ k <= Len(stack[u])
        BY <4>1 DEF At
      <4>3. StackFrame(u, k - 1)' = StackFrame(u, k - 1)
        BY <1>0, <2>1, <3>4, <4>2 DEF StackFrame
      <4> QED
        BY <3>2, <4>1, <4>3 DEF Parents
    <3> QED
      BY <3>5 DEF Parents
  <2>4. ASSUME stack[t] # <<>>, Pops(t), UNCHANGED parent PROVE Parents'
    <3> DEFINE n == Len(stack[t])
    <3>1. \A u \in Threads, k \in Nat, b \in Activation :
            At(u, k, b)' <=> At(u, k, b) /\ ~ (u = t /\ k = n)
      BY <1>0, <2>4, PopAt
    <3>2. \A k \in Int : k # n => StackFrame(t, k)' = StackFrame(t, k)
      BY <1>0, <2>4, StackFramePop
    <3>3. ASSUME NEW u \in Threads, NEW k \in Nat, NEW c \in CallId,
                 At(u, k, CallActivation(c))'
          PROVE  parent'[c] = IF TrackFrames THEN StackFrame(u, k - 1)' ELSE NoFrame
      <4>1. At(u, k, CallActivation(c))
        BY <3>1, <3>3, CallActivationFacts
      <4>2. k - 1 \in Int /\ k <= Len(stack[u])
        BY <4>1 DEF At
      <4>3. StackFrame(u, k - 1)' = StackFrame(u, k - 1)
        BY <1>0, <2>1, <3>2, <4>2 DEF StackFrame
      <4> QED
        BY <2>4, <4>1, <4>3 DEF Parents
    <3> QED
      BY <3>3 DEF Parents
  <2>5. CASE Return(t)
    BY <2>0, <2>4, <2>5 DEF Return, PcFits, InCall, Pops
  <2>6. CASE FinishTask(t) \/ NotifyCall(t)
    <3>1. stack[t] # <<>> /\ UNCHANGED parent /\ (Pops(t) \/ UNCHANGED stack)
      BY <2>0, <2>6 DEF FinishTask, NotifyCall, PcFits, InTask, Pops
    <3> QED
      BY <1>1, <2>4, <3>1
  <2> QED
    BY <1>1, <1>2, <2>2, <2>3, <2>5, <2>6
    DEF Step, Enqueue, NotifyPool, NotDone, NothingToHelp, WaitForCall, WaitForTask,
        SkipTask, BeginTask, EndTask, SpuriousWake
<1> QED
  BY <1>1, <1>2 DEF Next, vars

LEMMA ActivesNext ==
  Shape /\ Ownership /\ Actives /\ [Next]_vars => Actives'
<1> SUFFICES ASSUME Shape, Ownership, Actives, [Next]_vars PROVE Actives'
  OBVIOUS
<1>0. /\ Types /\ stack \in [Threads -> Seq(Activation)]
      /\ \A u \in Threads : Len(stack[u]) \in Nat
  BY LenProperties DEF Shape, Types
<1>1. CASE UNCHANGED vars
  BY <1>1 DEF vars, Actives, RunsAt, At, Runs
<1>2. ASSUME NEW t \in Threads, Step(t) \/ SpuriousWake(t) PROVE Actives'
  <2> DEFINE n == Len(stack[t])
  <2>0. /\ PcFits(t) /\ Alternates(t)
        /\ n \in Nat /\ (n = 0 <=> stack[t] = <<>>)
    BY <1>0, EmptySeq DEF Shape
  <2>1. \A u \in Threads, k \in Nat, x \in Task :
          u # t => (RunsAt(u, k, x)' <=> RunsAt(u, k, x))
    BY <1>2, StacksStill, OthersStill DEF RunsAt, At, Runs
  \* Steps that leave the running branches of t as they are.
  <2>2. ASSUME UNCHANGED active,
               \A k \in Nat, x \in Task : RunsAt(t, k, x)' <=> RunsAt(t, k, x)
        PROVE  Actives'
    BY <2>1, <2>2 DEF Actives
  <2>3. ASSUME UNCHANGED <<stack, active>>, pc[t] # "user", pc'[t] # "user"
        PROVE  Actives'
    BY <2>2, <2>3 DEF RunsAt, At, Runs
  <2>4. ASSUME NEW a \in Activation, Pushes(t, a), UNCHANGED active, pc'[t] # "user",
               IsCall(a) => pc[t] = "user",
               ~ IsCall(a) => pc[t] \in InCall \cup AtBase
        PROVE  Actives'
    <3>1. /\ Len(stack'[t]) = n + 1
          /\ \A k \in Nat, b \in Activation :
               At(t, k, b)' <=> At(t, k, b) \/ (k = n + 1 /\ b = a)
      BY <1>0, <2>4, PushAt
    <3>2. ASSUME NEW k \in Nat, NEW x \in Task
          PROVE  RunsAt(t, k, x)' <=> RunsAt(t, k, x)
      <4>1. x \in Activation /\ ~ IsCall(x)
        BY TaskFacts
      <4>2. RunsAt(t, k, x)' <=> At(t, k, x)
        BY <2>0, <2>4, <3>1, <4>1 DEF RunsAt, Runs, At
      <4>3. At(t, k, x) => RunsAt(t, k, x)
        <5>1. At(t, k, x) /\ k = n => ~ IsCall(Top(t)) /\ n # 0
          BY <2>0, <4>1 DEF At, Top
        <5>2. At(t, k, x) /\ k = n => pc[t] = "user"
          BY <2>0, <2>4, <5>1 DEF PcFits
        <5> QED
          BY <2>0, <5>2 DEF RunsAt, Runs, At
      <4> QED
        BY <4>2, <4>3 DEF RunsAt
    <3> QED
      BY <2>2, <2>4, <3>2
  <2>5. ASSUME stack[t] # <<>>, Pops(t), UNCHANGED active,
               \/ pc[t] \in InCall /\ pc'[t] = "user"
               \/ pc[t] \in InTask /\ pc'[t] = ResumeAt(stack[t])
        PROVE  Actives'
    <3>1. /\ n \in Nat \ {0} /\ Len(stack'[t]) = n - 1
          /\ \A k \in Nat, b \in Activation : At(t, k, b)' <=> At(t, k, b) /\ k # n
      BY <1>0, <2>5, PopAt
    <3>2. ASSUME NEW k \in Nat, NEW x \in Task
          PROVE  RunsAt(t, k, x)' <=> RunsAt(t, k, x)
      <4>1. x \in Activation /\ ~ IsCall(x)
        BY TaskFacts
      <4>2. RunsAt(t, k, x) <=> At(t, k, x) /\ k # n
        <5>1. At(t, n, x) => ~ IsCall(Top(t))
          BY <4>1 DEF At, Top
        <5>2. pc[t] # "user"
          BY <2>5 DEF InCall, InTask
        <5> QED
          BY <2>0, <2>5, <5>1, <5>2 DEF RunsAt, Runs, At
      <4>3. At(t, k, x) /\ k # n => (k < n - 1 \/ pc'[t] = "user")
        <5>1. CASE pc[t] \in InTask
          <6>1. ~ IsCall(stack[t][n])
            BY <2>0, <5>1 DEF PcFits, Top
          <6>2. n # 1 => IsCall(stack[t][n - 1])
            <7>1. \A m \in Nat \ {0} : m # 1 => m - 1 \in 1 .. m - 1 /\ m - 1 + 1 = m
              OBVIOUS
            <7> QED
              BY <2>0, <3>1, <6>1, <7>1, Zenon DEF Alternates
          <6>3. At(t, k, x) => k # n - 1
            <7>1. At(t, k, x) => k \in Nat \ {0} /\ stack[t][k] = x
              BY <2>0 DEF At
            <7>2. k \in Nat \ {0} /\ k = n - 1 => n # 1
              BY <2>0
            <7> QED
              BY <4>1, <6>2, <7>1, <7>2
          <6> QED
            BY <3>1, <6>3 DEF At
        <5> QED
          BY <2>5, <5>1
      <4>4. RunsAt(t, k, x)' <=> At(t, k, x) /\ k # n /\ (k < n - 1 \/ pc'[t] = "user")
        BY <3>1, <4>1 DEF RunsAt, Runs, At
      <4> QED
        BY <4>2, <4>3, <4>4
    <3> QED
      BY <2>2, <2>5, <3>2
  <2>6. CASE BeginTask(t)
    <3>1. /\ pc[t] = "start" /\ pc'[t] = "user" /\ UNCHANGED stack
          /\ active' = IF TrackFrames THEN active \cup {Top(t)} ELSE active
      BY <1>0, <2>6 DEF BeginTask, Types
    <3>2. n \in Nat \ {0} /\ Top(t) \in Task /\ At(t, n, Top(t))
      BY <1>0, <2>0, <3>1, TopAt, TaskFacts DEF PcFits, InTask
    <3>3. \A k \in Nat, x \in Task :
            RunsAt(t, k, x)' <=> RunsAt(t, k, x) \/ (k = n /\ x = Top(t))
      BY <2>0, <3>1, <3>2 DEF RunsAt, Runs, At, Top
    <3> QED
      BY <2>1, <3>1, <3>2, <3>3 DEF Actives
  <2>7. ASSUME NEW b \in BOOLEAN, EndTask(t, b) PROVE Actives'
    <3>1. /\ pc[t] = "user" /\ pc'[t] = "finish" /\ UNCHANGED stack /\ stack[t] # <<>>
          /\ active' = IF TrackFrames THEN active \ {Top(t)} ELSE active
      BY <1>0, <2>7 DEF EndTask, Types
    <3>2. n \in Nat \ {0} /\ Top(t) \in Task /\ At(t, n, Top(t))
      BY <1>0, <2>0, <3>1, TopAt, TaskFacts DEF PcFits
    <3>3. \A k \in Nat, x \in Task :
            RunsAt(t, k, x)' <=> RunsAt(t, k, x) /\ k # n
      BY <2>0, <3>1, <3>2 DEF RunsAt, Runs, At
    <3>4. \A u \in Threads, k \in Nat, x \in Task :
            RunsAt(u, k, x) /\ x = Top(t) => u = t /\ k = n
      BY <2>0, <3>2, TaskFacts DEF RunsAt, Ownership, OnePlace
    <3>5. \A k \in Nat, x \in Task : At(t, k, x) /\ k = n => x = Top(t)
      BY DEF At, Top
    <3> QED
      BY <2>1, <3>1, <3>2, <3>3, <3>4, <3>5 DEF Actives, RunsAt
  <2>8. ASSUME NEW m \in Branch, ParRun(t, m) PROVE Actives'
    <3>1. ncalls + 1 \in CallId
      BY <1>0, <2>8, ParPoolAssumption DEF ParRun, Types, CallId
    <3>2. Pushes(t, CallActivation(ncalls + 1)) /\ CallActivation(ncalls + 1) \in Activation
          /\ IsCall(CallActivation(ncalls + 1)) /\ UNCHANGED active
      BY <2>8, <3>1, CallActivationFacts DEF ParRun, Pushes
    <3>3. pc[t] = "user" /\ pc'[t] = "enqueue"
      BY <1>0, <2>8 DEF ParRun, Types
    <3> QED
      BY <2>4, <3>2, <3>3
  <2>9. CASE TakeTask(t)
    <3>1. Head(queue) \in Activation /\ ~ IsCall(Head(queue))
      BY <1>0, <2>9, TakeAt, TaskFacts DEF TakeTask, Types
    <3>2. Pushes(t, Head(queue)) /\ UNCHANGED active
          /\ pc[t] \in InCall \cup AtBase /\ pc'[t] = "start"
      BY <1>0, <2>9 DEF TakeTask, Types, Pushes, InCall, AtBase
    <3> QED
      BY <2>4, <3>1, <3>2
  <2>10. CASE Return(t)
    <3>1. stack[t] # <<>> /\ Pops(t) /\ UNCHANGED active
          /\ pc[t] \in InCall /\ pc'[t] = "user"
      BY <1>0, <2>0, <2>10 DEF Return, Types, Pops, PcFits, InCall
    <3> QED
      BY <2>5, <3>1
  <2>11. CASE FinishTask(t) \/ NotifyCall(t)
    <3>1. stack[t] # <<>> /\ pc[t] \in InTask /\ UNCHANGED active
      BY <1>0, <2>0, <2>11 DEF FinishTask, NotifyCall, PcFits, InTask
    <3>2. \/ Pops(t) /\ pc'[t] = ResumeAt(stack[t])
          \/ UNCHANGED stack /\ pc'[t] = "notifyCall"
      BY <1>0, <2>11 DEF FinishTask, NotifyCall, Pops, Types
    <3> QED
      BY <2>3, <2>5, <3>1, <3>2 DEF InTask
  <2>12. CASE \/ Enqueue(t) \/ NotifyPool(t) \/ NotDone(t) \/ NothingToHelp(t)
              \/ WaitForCall(t) \/ WaitForTask(t) \/ SkipTask(t) \/ SpuriousWake(t)
    BY <1>0, <2>3, <2>12
    DEF Enqueue, NotifyPool, NotDone, NothingToHelp, WaitForCall, WaitForTask, SkipTask,
        SpuriousWake, Types
  <2> QED
    BY <1>2, <2>6, <2>7, <2>8, <2>9, <2>10, <2>11, <2>12 DEF Step
<1> QED
  BY <1>1, <1>2 DEF Next

LEMMA ActivesInvariant ==
  Spec => [](Shape /\ Ownership /\ Frames /\ Parents /\ Actives)
BY FramesInvariant, ParentsInit, ParentsNext, ActivesNext, PTL DEF Spec

LEMMA ParentRegistered ==
  Shape /\ Ownership /\ Parents /\ Actives /\ JoinBeforeReturn => ParentFrameAlive
<1> SUFFICES ASSUME Shape, Ownership, Parents, Actives, JoinBeforeReturn,
                    NEW x \in active
             PROVE  parent[x[1]] = NoFrame \/ parent[x[1]] \in active
  BY DEF ParentFrameAlive
<1>0. Types /\ stack \in [Threads -> Seq(Activation)] /\ x \in Task
  BY DEF Shape, Types
\* A frame that is registered is on a stack, so its call has not joined.
<1>1. PICK t \in Threads, k \in Nat : At(t, k, x) /\ Runs(t, k)
  BY <1>0 DEF Actives, RunsAt
<1> DEFINE c == x[1]
<1>2. status[x] = "popped" /\ c \in CallId /\ x[2] \in 1 .. count[c]
  <2>1. status[x] = "popped" /\ c \in CallId
    BY <1>0, <1>1, TaskFacts DEF Ownership, StatusPopped, Runs
  <2>2. x[2] <= count[c] /\ x[2] \in Nat \ {0}
    BY <1>0, <2>1, TaskFacts DEF Ownership, StatusNew, Branch
  <2> QED
    BY <1>0, <2>1, <2>2 DEF Types
<1>3. c \in Calls
  BY <1>0, <1>1, <1>2, TaskFacts DEF Ownership, CallsIncrease, Calls, CallId, Types
<1>4. x[2] \in Unfinished(c)
  BY <1>0, <1>2, TaskFacts DEF Unfinished
<1>5. PICK u \in Threads, j \in Nat : At(u, j, CallActivation(c))
  BY <1>0, <1>2, <1>3, <1>4, OpenAt DEF JoinBeforeReturn
\* Its parent pointer is the task below the call, which waits for it.
<1>6. TrackFrames
  BY <1>0 DEF Actives
<1>7. parent[c] = StackFrame(u, j - 1)
  BY <1>2, <1>5, <1>6 DEF Parents
<1>8. CASE j = 1
  BY <1>7, <1>8 DEF StackFrame
<1>9. CASE j # 1
  <2>1. /\ Len(stack[u]) \in Nat /\ j \in 1 .. Len(stack[u])
        /\ j - 1 \in 1 .. Len(stack[u]) - 1 /\ j - 1 + 1 = j
        /\ j - 1 \in 1 .. Len(stack[u]) /\ j - 1 < Len(stack[u]) /\ j - 1 \in Nat
    BY <1>0, <1>5, <1>9, LenProperties DEF At
  <2>2. IsCall(stack[u][j])
    BY <1>2, <1>5, CallActivationFacts DEF At
  <2>3. ~ IsCall(stack[u][j - 1])
    BY <2>1, <2>2 DEF Shape, Alternates
  <2>4. stack[u][j - 1] \in Task
    BY <1>0, <2>1, <2>3, ElementOfSeq, TaskFacts
  <2>5. RunsAt(u, j - 1, stack[u][j - 1])
    BY <2>1 DEF RunsAt, Runs, At
  <2>6. stack[u][j - 1] \in active
    BY <1>6, <2>1, <2>4, <2>5 DEF Actives
  <2> QED
    BY <1>7, <2>1, <2>6 DEF StackFrame
<1> QED
  BY <1>5, <1>8, <1>9 DEF At

\* The parent pointer a child frame carries never dangles: the frame it names
\* is still in ACTIVE_FRAMES for as long as the child is.
THEOREM ParentAlive == Spec => []ParentFrameAlive
BY ActivesInvariant, JoinCorrect, ParentRegistered, PTL

(***************************************************************************)
(* ParPool implements ForkJoin.  Under the mapping, karac_par_run forks,   *)
(* the decrement of `remaining` ends a branch, the return of karac_par_run *)
(* joins, and every other step stutters.                                   *)
(***************************************************************************)
Pending == [c \in CallId |-> Unfinished(c)]
OpenCalls == {c \in CallId : Open(c)}

LEMMA ForkJoinStutters ==
  ASSUME UNCHANGED <<ncalls, parent>>,
         \A c \in CallId : Unfinished(c)' = Unfinished(c),
         \A c \in CallId : Open(c)' <=> Open(c)
  PROVE  UNCHANGED ForkJoinSpec!vars
<1>1. Pending' = Pending /\ OpenCalls' = OpenCalls
  BY DEF Pending, OpenCalls
<1> QED
  BY <1>1 DEF ForkJoinSpec!vars, Pending, OpenCalls

LEMMA ForkJoinInit == Init => ForkJoinSpec!Init
<1> SUFFICES ASSUME Init PROVE ForkJoinSpec!Init
  OBVIOUS
<1>1. \A c \in CallId : Unfinished(c) = {}
  BY DEF Init, Unfinished
<1>2. \A t \in Threads : Len(stack[t]) = 0
  BY DEF Init
<1>3. \A c \in CallId : ~ Open(c)
  BY <1>2 DEF Open, OnStack
<1>4. Pending = [c \in CallId |-> {}] /\ OpenCalls = {}
  BY <1>1, <1>3 DEF Pending, OpenCalls
<1> QED
  BY <1>4 DEF Init, ForkJoinSpec!Init, ForkJoinSpec!CallId, ForkJoinSpec!NoTask, CallId,
              NoFrame, Pending, OpenCalls

\* A task on a stack is a live branch until it decrements `remaining`.
LEMMA OnStackLive ==
  ASSUME Shape, Ownership, JoinBeforeReturn,
         NEW t \in Threads, NEW k \in Nat, NEW x \in Task, At(t, k, x),
         k = Len(stack[t]) => pc[t] # "notifyCall"
  PROVE  /\ x[1] \in CallId /\ x[2] \in Unfinished(x[1]) /\ Open(x[1])
         /\ x \in ForkJoinSpec!Live
<1>0. Types /\ stack \in [Threads -> Seq(Activation)] /\ x[1] \in CallId
      /\ x[2] \in Branch /\ x = <<x[1], x[2]>> /\ x \in Activation
  BY TaskFacts DEF Shape, Types
<1>1. status[x] = "popped"
  BY DEF Ownership, StatusPopped
<1>2. x[2] <= count[x[1]]
  BY <1>1 DEF Ownership, StatusNew
<1>3. x[2] \in Unfinished(x[1])
  <2>1. count[x[1]] \in 0 .. MaxWidth /\ x[2] \in Nat \ {0}
    BY <1>0 DEF Types, Branch
  <2>2. x[2] \in 1 .. count[x[1]]
    BY <1>2, <2>1, ParPoolAssumption
  <2> QED
    BY <1>0, <1>1, <2>2 DEF Unfinished
<1>4. x[1] \in Calls
  BY <1>0 DEF Ownership, CallsIncrease, Calls, CallId, Types
<1>5. Open(x[1])
  BY <1>3, <1>4 DEF JoinBeforeReturn
<1>6. x[1] \in OpenCalls /\ Pending[x[1]] = Unfinished(x[1])
  BY <1>0, <1>5 DEF OpenCalls, Pending
<1>7. x \in OpenCalls \X Branch /\ x[2] \in Pending[x[1]]
  BY <1>0, <1>3, <1>6
<1> QED
  BY <1>0, <1>3, <1>5, <1>7
  DEF ForkJoinSpec!Live, ForkJoinSpec!Branch, Branch, Pending, OpenCalls

LEMMA ForkStep ==
  ASSUME Shape, Shape', Ownership, Frames, JoinBeforeReturn,
         NEW t \in Threads, NEW m \in Branch, ParRun(t, m)
  PROVE  ForkJoinSpec!Next
<1> DEFINE d == ncalls + 1
           n == Len(stack[t])
           y == IF TrackFrames THEN cur[t] ELSE NoFrame
<1>0. /\ Types /\ Types' /\ stack \in [Threads -> Seq(Activation)]
      /\ stack' \in [Threads -> Seq(Activation)] /\ PcFits(t)
  BY DEF Shape, Types
<1>1. d \in CallId /\ ncalls \in Nat /\ ncalls < MaxCalls /\ ncalls' = d /\ pc[t] = "user"
  BY <1>0, ParPoolAssumption DEF ParRun, Types, CallId
<1>2. /\ Pushes(t, CallActivation(d)) /\ CallActivation(d) \in Activation
      /\ parent' = [parent EXCEPT ![d] = y]
      /\ count' = [count EXCEPT ![d] = m] /\ status' = status
  BY <1>1, CallActivationFacts DEF ParRun, Pushes
<1>3. y \in ForkJoinSpec!Live \cup {ForkJoinSpec!NoTask}
  <2>1. CASE y = NoFrame
    BY <2>1 DEF ForkJoinSpec!NoTask, NoFrame
  <2>2. CASE y # NoFrame
    <3>1. n \in Nat /\ n \in 1 .. n /\ y = stack[t][n]
      BY <1>0, <1>1, <2>2, LenProperties DEF Frames, FramesOf, CurDepth, StackFrame
    <3>2. stack[t] # <<>> /\ y = Top(t) /\ Top(t) \in Activation
      BY <1>0, <3>1, ElementOfSeq, EmptySeq DEF Top
    <3>3. y \in Task /\ At(t, n, y)
      BY <1>0, <1>1, <3>1, <3>2, TaskFacts DEF PcFits, At
    <3> QED
      BY <1>1, <3>1, <3>3, OnStackLive
  <2> QED
    BY <2>1, <2>2
<1>4. Pending' = [Pending EXCEPT ![d] = 1 .. m]
  <2>1. ASSUME NEW c \in CallId
        PROVE  Unfinished(c)' = IF c = d THEN 1 .. m ELSE Unfinished(c)
    <3>1. CASE c = d
      <4>1. count'[c] = m /\ \A i \in 1 .. m : <<c, i>> \in Task
        BY <1>0, <1>1, <1>2, <3>1, ParPoolAssumption DEF Types, Task, Branch
      <4>2. \A x \in Task : x[1] = d => status[x] = "new"
        BY <1>1 DEF Ownership, StatusNew
      <4> QED
        BY <1>2, <3>1, <4>1, <4>2 DEF Unfinished
    <3>2. CASE c # d
      BY <1>0, <1>1, <1>2, <3>2 DEF Unfinished, Types
    <3> QED
      BY <3>1, <3>2
  <2> QED
    BY <1>1, <2>1 DEF Pending
<1>5. OpenCalls' = OpenCalls \cup {d}
  <2>1. \A u \in Threads, k \in Nat, b \in Activation :
          At(u, k, b)' <=> At(u, k, b) \/ (u = t /\ k = n + 1 /\ b = CallActivation(d))
    BY <1>0, <1>2, PushAt
  <2>2. n + 1 \in Nat
    BY <1>0, LenProperties
  <2>3. ASSUME NEW c \in CallId PROVE Open(c)' <=> Open(c) \/ c = d
    BY <1>0, <1>1, <2>1, <2>2, OpenAt, OpenAtNext, CallActivationFacts
  <2> QED
    BY <1>1, <2>3 DEF OpenCalls
<1>6. ForkJoinSpec!Fork(m, y)
  BY <1>1, <1>2, <1>4, <1>5 DEF ForkJoinSpec!Fork, Pending, OpenCalls
<1> QED
  BY <1>3, <1>6 DEF ForkJoinSpec!Next, ForkJoinSpec!Branch, Branch

\* A branch that ends has no call of its own open: it would be below it.
LEMMA EndStep ==
  ASSUME Shape, Shape', Ownership, Parents, JoinBeforeReturn,
         NEW t \in Threads, FinishTask(t)
  PROVE  ForkJoinSpec!Next
<1> DEFINE x == Top(t)
           n == Len(stack[t])
<1>0. /\ Types /\ Types' /\ stack \in [Threads -> Seq(Activation)]
      /\ stack' \in [Threads -> Seq(Activation)] /\ PcFits(t)
  BY DEF Shape, Types
<1>1. stack[t] # <<>> /\ x \in Task /\ x \in Activation /\ At(t, n, x) /\ n \in Nat
      /\ pc[t] = "finish" /\ x[1] \in CallId /\ x[2] \in Branch /\ x = <<x[1], x[2]>>
  BY <1>0, TopAt, TaskFacts DEF FinishTask, PcFits, InTask
<1>2. x[2] \in Unfinished(x[1]) /\ Open(x[1]) /\ x \in ForkJoinSpec!Live
  BY <1>1, OnStackLive
<1>3. \A c \in OpenCalls : parent[c] # x
  <2> SUFFICES ASSUME NEW c \in CallId, Open(c), parent[c] = x PROVE FALSE
    BY DEF OpenCalls
  <2>1. PICK u \in Threads, k \in Nat : At(u, k, CallActivation(c))
    BY <1>0, OpenAt
  <2>2. x = StackFrame(u, k - 1) /\ x # NoFrame
    BY <1>1, <2>1, TaskFacts DEF Parents
  <2>3. k - 1 \in Nat /\ At(u, k - 1, x) /\ k <= Len(stack[u])
    BY <2>1, <2>2 DEF StackFrame, At
  <2>4. u = t /\ k - 1 = n
    BY <1>1, <2>3 DEF Ownership, OnePlace
  <2> QED
    BY <1>1, <2>3, <2>4
<1>4. Pending' = [Pending EXCEPT ![x[1]] = @ \ {x[2]}]
  <2>1. UNCHANGED count /\ status' = [status EXCEPT ![x] = "done"]
    BY DEF FinishTask
  <2>2. ASSUME NEW c \in CallId
        PROVE  Unfinished(c)' = IF c = x[1] THEN Unfinished(c) \ {x[2]} ELSE Unfinished(c)
    <3>1. \A i \in 1 .. count[c] : <<c, i>> \in Task /\ (<<c, i>> = x <=> c = x[1] /\ i = x[2])
      <4>1. count[c] \in 0 .. MaxWidth /\ MaxWidth \in Nat
        BY <1>0, ParPoolAssumption DEF Types
      <4>2. \A i \in 1 .. count[c] : i \in Branch
        BY <4>1 DEF Branch
      <4>3. PICK c0 \in CallId, i0 \in Branch : x = <<c0, i0>> /\ x[1] = c0 /\ x[2] = i0
        BY <1>1
      <4> HIDE DEF x
      <4> QED
        BY <4>2, <4>3 DEF Task
    <3>2. \A i \in 1 .. count[c] : status'[<<c, i>>] # "done" <=>
                                   status[<<c, i>>] # "done" /\ ~ (c = x[1] /\ i = x[2])
      BY <1>0, <1>1, <2>1, <3>1 DEF Types
    <3> QED
      BY <2>1, <3>2 DEF Unfinished
  <2> QED
    BY <1>1, <2>2 DEF Pending
<1>5. OpenCalls' = OpenCalls
  <2>1. CASE UNCHANGED stack
    BY <2>1 DEF OpenCalls, Open, OnStack
  <2>2. CASE Pops(t)
    <3>1. \A u \in Threads, k \in Nat, b \in Activation :
            At(u, k, b)' <=> At(u, k, b) /\ ~ (u = t /\ k = n)
      BY <1>0, <1>1, <2>2, PopAt
    <3>2. \A c \in CallId : ~ At(t, n, CallActivation(c))
      BY <1>1, CallActivationFacts DEF At, Top
    <3>3. \A c \in CallId : Open(c)' <=> Open(c)
      BY <1>0, <3>1, <3>2, OpenAt, OpenAtNext, CallActivationFacts
    <3> QED
      BY <3>3 DEF OpenCalls
  <2> QED
    BY <2>1, <2>2 DEF FinishTask, Pops
<1>6. UNCHANGED <<ncalls, parent>>
  BY DEF FinishTask
<1>7. ForkJoinSpec!End(x)
  BY <1>2, <1>3, <1>4, <1>5, <1>6 DEF ForkJoinSpec!End, Pending, OpenCalls
<1> QED
  BY <1>2, <1>7 DEF ForkJoinSpec!Next

LEMMA JoinStep ==
  ASSUME Shape, Shape', Ownership, Counted, NEW t \in Threads, Return(t)
  PROVE  ForkJoinSpec!Next
<1> DEFINE c == Top(t)[1]
           n == Len(stack[t])
<1>0. /\ Types /\ stack \in [Threads -> Seq(Activation)]
      /\ stack' \in [Threads -> Seq(Activation)] /\ PcFits(t)
  BY DEF Shape, Types
<1>1. stack[t] # <<>> /\ IsCall(Top(t)) /\ Pops(t) /\ remaining[c] = 0
      /\ UNCHANGED <<ncalls, parent, count, status>>
  BY <1>0 DEF Return, PcFits, InCall, Pops
<1>2. c \in CallId /\ At(t, n, CallActivation(c)) /\ n \in Nat
  <2>1. Top(t) \in Activation /\ At(t, n, Top(t)) /\ n \in Nat
    BY <1>0, <1>1, TopAt
  <2>2. c \in CallId /\ Top(t) = CallActivation(c)
    BY <1>1, <2>1 DEF Activation, IsCall, CallActivation
  <2> QED
    BY <2>1, <2>2
<1>3. Unfinished(c) = {}
  BY <1>1, <1>2, FS_EmptySet DEF Counted
<1>4. c \in OpenCalls
  BY <1>0, <1>2, OpenAt DEF OpenCalls
<1>5. OpenCalls' = OpenCalls \ {c}
  <2>1. \A u \in Threads, k \in Nat, b \in Activation :
          At(u, k, b)' <=> At(u, k, b) /\ ~ (u = t /\ k = n)
    BY <1>0, <1>1, PopAt
  <2>2. \A u \in Threads, k \in Nat, e \in CallId :
          At(u, k, CallActivation(e)) => ((u = t /\ k = n) <=> e = c)
    BY <1>2, CallActivationFacts DEF Ownership, OnePlace, At
  <2>3. \A e \in CallId : Open(e)' <=> Open(e) /\ e # c
    BY <1>0, <2>1, <2>2, OpenAt, OpenAtNext, CallActivationFacts
  <2> QED
    BY <2>3 DEF OpenCalls
<1>6. Pending' = Pending /\ Pending[c] = {}
  BY <1>1, <1>2, <1>3 DEF Pending, Unfinished
<1>7. ForkJoinSpec!Join(c)
  BY <1>1, <1>4, <1>5, <1>6 DEF ForkJoinSpec!Join, Pending, OpenCalls
<1> QED
  BY <1>4, <1>7 DEF ForkJoinSpec!Next, OpenCalls

LEMMA ForkJoinNext ==
  /\ Shape /\ Shape' /\ Ownership /\ Counted /\ Frames /\ Parents /\ JoinBeforeReturn
  /\ [Next]_vars
  => [ForkJoinSpec!Next]_ForkJoinSpec!vars
<1> SUFFICES ASSUME Shape, Shape', Ownership, Counted, Frames, Parents, JoinBeforeReturn,
                    [Next]_vars
             PROVE  ForkJoinSpec!Next \/ UNCHANGED ForkJoinSpec!vars
  OBVIOUS
<1>0. /\ Types /\ Types' /\ stack \in [Threads -> Seq(Activation)]
      /\ stack' \in [Threads -> Seq(Activation)]
  BY DEF Shape, Types
<1>1. ASSUME UNCHANGED <<ncalls, parent, count, status, stack>>
      PROVE  UNCHANGED ForkJoinSpec!vars
  BY <1>1, ForkJoinStutters DEF Unfinished, Open, OnStack
<1>2. ASSUME NEW t \in Threads, Step(t) \/ SpuriousWake(t)
      PROVE  ForkJoinSpec!Next \/ UNCHANGED ForkJoinSpec!vars
  <2>0. PcFits(t)
    BY DEF Shape
  <2>1. ASSUME UNCHANGED count, \A x \in Task : status'[x] = "done" <=> status[x] = "done"
        PROVE  \A c \in CallId : Unfinished(c)' = Unfinished(c)
    <3>1. \A c \in CallId : \A i \in 1 .. count[c] : <<c, i>> \in Task
      BY <1>0, ParPoolAssumption DEF Types, Task, Branch
    <3> QED
      BY <2>1, <3>1 DEF Unfinished
  <2>2. CASE Enqueue(t)
    <3>1. \A x \in Task : status'[x] = "done" <=> status[x] = "done"
      BY <2>2 DEF Enqueue, Ownership, StatusNew
    <3>2. UNCHANGED <<ncalls, parent, count, stack>>
      BY <2>2 DEF Enqueue
    <3>3. \A c : Open(c)' <=> Open(c)
      BY <3>2 DEF Open, OnStack
    <3> QED
      BY <2>1, <3>1, <3>2, <3>3, ForkJoinStutters
  <2>3. CASE TakeTask(t)
    <3>1. Head(queue) \in Task /\ Queued(1, Head(queue))
      BY <1>0, <2>3, TakeAt DEF TakeTask, Types
    <3>2. status[Head(queue)] = "queued"
      BY <3>1 DEF Ownership, StatusQueued
    <3>3. \A x \in Task : status'[x] = "done" <=> status[x] = "done"
      BY <1>0, <2>3, <3>1, <3>2 DEF TakeTask, Types
    <3>4. Pushes(t, Head(queue)) /\ Head(queue) \in Activation
          /\ UNCHANGED <<ncalls, parent, count>>
      BY <2>3, <3>1, TaskFacts DEF TakeTask, Pushes
    <3>5. \A u \in Threads, k \in Nat, b \in Activation :
            At(u, k, b)' <=> \/ At(u, k, b)
                             \/ u = t /\ k = Len(stack[t]) + 1 /\ b = Head(queue)
      BY <1>0, <3>4, PushAt
    <3>6. \A c \in CallId : Open(c)' <=> Open(c)
      BY <1>0, <3>1, <3>5, OpenAt, OpenAtNext, CallActivationFacts
    <3> QED
      BY <2>1, <3>3, <3>4, <3>6, ForkJoinStutters
  <2>4. CASE NotifyCall(t)
    <3>1. stack[t] # <<>> /\ ~ IsCall(Top(t)) /\ Pops(t)
          /\ UNCHANGED <<ncalls, parent, count, status>>
      BY <2>0, <2>4 DEF NotifyCall, PcFits, InTask, Pops
    <3>2. \A u \in Threads, k \in Nat, b \in Activation :
            At(u, k, b)' <=> At(u, k, b) /\ ~ (u = t /\ k = Len(stack[t]))
      BY <1>0, <3>1, PopAt
    <3>3. \A c \in CallId : ~ At(t, Len(stack[t]), CallActivation(c))
      BY <3>1, CallActivationFacts DEF At, Top
    <3>4. \A c \in CallId : Open(c)' <=> Open(c)
      BY <1>0, <3>2, <3>3, OpenAt, OpenAtNext, CallActivationFacts
    <3> QED
      BY <2>1, <3>1, <3>4, ForkJoinStutters
  <2> QED
    BY <1>1, <1>2, <2>2, <2>3, <2>4, ForkStep, EndStep, JoinStep
    DEF Step, NotifyPool, NotDone, NothingToHelp, WaitForCall, WaitForTask,
        SkipTask, BeginTask, EndTask, SpuriousWake
<1> QED
  BY <1>1, <1>2 DEF Next, vars

\* The pool is a structured fork-join: a nested call joins before the branch
\* that made it ends, and a call returns only when all its branches have ended.
THEOREM ParPoolImplementsForkJoin == Spec => ImplementsForkJoin
<1>1. Spec => [](Shape /\ Ownership /\ Counted /\ Frames /\ Parents /\ JoinBeforeReturn)
  BY ActivesInvariant, CountedInvariant, JoinCorrect, PTL
<1>2. Shape /\ [Next]_vars => Shape'
  BY ShapeNext
<1> QED
  BY <1>1, <1>2, ForkJoinInit, ForkJoinNext, PTL DEF Spec, ImplementsForkJoin, ForkJoinSpec!Spec
=============================================================================
