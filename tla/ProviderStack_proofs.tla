----------------------- MODULE ProviderStack_proofs -----------------------
(***************************************************************************)
(* Theorems about ProviderStack for every pool size, number of calls, par  *)
(* width and number of providers: the pool keeps its promises under        *)
(* with_provider, and with par blocks that do not nest and one thread that *)
(* enters them, a lookup finds the lexically innermost provider, alive.    *)
(***************************************************************************)
EXTENDS ProviderStack, ParPool_proofs

(***************************************************************************)
(* With providers the pool takes no step it does not take without.         *)
(***************************************************************************)
LEMMA PoolSteps == [ProviderNext]_allVars => [Next]_vars
<1> SUFFICES ASSUME [ProviderNext]_allVars PROVE Next \/ UNCHANGED vars
  OBVIOUS
<1>1. CASE UNCHANGED allVars
  BY <1>1 DEF allVars
<1>2. ASSUME NEW t \in Threads, NEW n \in Branch, Fork(t, n)
      PROVE  Step(t)
  BY <1>2 DEF Fork, Step
<1>3. ASSUME NEW t \in Threads, StartBranch(t) PROVE Step(t)
  BY <1>3 DEF StartBranch, Step
<1>4. ASSUME NEW t \in Threads, EnterProvider(t) \/ LeaveProvider(t)
      PROVE  UNCHANGED vars
  BY <1>4 DEF EnterProvider, LeaveProvider
<1>5. ASSUME NEW t \in Threads, EndBranch(t) PROVE Step(t)
  BY <1>5 DEF EndBranch, Step
<1>6. ASSUME NEW t \in Threads, PoolStep(t) PROVE Step(t) \/ SpuriousWake(t)
  BY <1>6 DEF PoolStep, Step
<1> QED
  BY <1>1, <1>2, <1>3, <1>4, <1>5, <1>6 DEF ProviderNext, Next

\* Whatever the provider calls around and inside its branches, the pool is
\* ParPool: its joins, its wakeups and its freedom from deadlock carry over.
THEOREM PoolUnderProviders == ProviderSpec => Spec
<1>1. ProviderInit => Init
  BY DEF ProviderInit
<1> QED
  BY <1>1, PoolSteps, PTL DEF ProviderSpec, Spec

(***************************************************************************)
(* Types.                                                                  *)
(***************************************************************************)
Depth(t, k) == scopes[t][k][1]
FrameAt(t, k) == scopes[t][k][2]

\* Every head, link and captured head is a frame or null.
ScopeTypes ==
  /\ head \in [Threads -> Frame \cup {NullFrame}]
  /\ link \in [Frame -> Frame \cup {NullFrame}]
  /\ scopes \in [Threads -> Seq(Nat \X Frame)]
  /\ captured \in [CallId -> Frame \cup {NullFrame}]

LEMMA ScopeFacts ==
  ASSUME ScopeTypes, NEW t \in Threads
  PROVE  /\ Len(scopes[t]) \in Nat
         /\ \A k \in 1 .. Len(scopes[t]) :
              Depth(t, k) \in Nat /\ FrameAt(t, k) \in Frame
<1>1. scopes[t] \in Seq(Nat \X Frame)
  BY DEF ScopeTypes
<1>2. Len(scopes[t]) \in Nat
  BY <1>1, LenProperties
<1>3. \A k \in 1 .. Len(scopes[t]) : scopes[t][k] \in Nat \X Frame
  BY <1>1, ElementOfSeq
<1>4. \A k \in 1 .. Len(scopes[t]) : Depth(t, k) \in Nat /\ FrameAt(t, k) \in Frame
  BY <1>3 DEF Depth, FrameAt
<1> QED
  BY <1>2, <1>4

\* The body a thread enters, and the one it leaves.
LEMMA EnterFacts ==
  ASSUME ScopeTypes, NEW t \in Threads, NEW d \in Nat, NEW f \in Frame,
         scopes' = [scopes EXCEPT ![t] = Append(@, <<d, f>>)]
  PROVE  /\ scopes' \in [Threads -> Seq(Nat \X Frame)]
         /\ Len(scopes[t]) \in Nat
         /\ Len(scopes'[t]) = Len(scopes[t]) + 1
         /\ \A k \in 1 .. Len(scopes[t]) :
              Depth(t, k)' = Depth(t, k) /\ FrameAt(t, k)' = FrameAt(t, k)
         /\ scopes'[t][Len(scopes[t]) + 1] = <<d, f>>
         /\ \A u \in Threads : u # t => scopes'[u] = scopes[u]
<1> DEFINE s == scopes[t]
<1>1. s \in Seq(Nat \X Frame) /\ <<d, f>> \in Nat \X Frame
  BY DEF ScopeTypes
<1>2. scopes'[t] = Append(s, <<d, f>>) /\ \A u \in Threads : u # t => scopes'[u] = scopes[u]
  BY DEF ScopeTypes
<1> HIDE DEF s
<1>3. /\ Append(s, <<d, f>>) \in Seq(Nat \X Frame)
      /\ Len(Append(s, <<d, f>>)) = Len(s) + 1
      /\ \A k \in 1 .. Len(s) : Append(s, <<d, f>>)[k] = s[k]
      /\ Append(s, <<d, f>>)[Len(s) + 1] = <<d, f>>
      /\ Len(s) \in Nat
  BY <1>1, AppendProperties, LenProperties
<1>4. scopes' \in [Threads -> Seq(Nat \X Frame)]
  BY <1>3 DEF ScopeTypes, s
<1> QED
  BY <1>2, <1>3, <1>4, Zenon DEF Depth, FrameAt, s

LEMMA LeaveFacts ==
  ASSUME ScopeTypes, NEW t \in Threads, scopes[t] # <<>>,
         scopes' = [scopes EXCEPT ![t] = Pop(@)]
  PROVE  /\ scopes' \in [Threads -> Seq(Nat \X Frame)]
         /\ Len(scopes[t]) \in Nat \ {0}
         /\ Len(scopes'[t]) = Len(scopes[t]) - 1
         /\ \A k \in 1 .. Len(scopes[t]) - 1 :
              Depth(t, k)' = Depth(t, k) /\ FrameAt(t, k)' = FrameAt(t, k)
         /\ \A u \in Threads : u # t => scopes'[u] = scopes[u]
<1> DEFINE s == scopes[t]
<1>1. s \in Seq(Nat \X Frame) /\ s # <<>>
  BY DEF ScopeTypes
<1>2. scopes'[t] = Pop(s) /\ \A u \in Threads : u # t => scopes'[u] = scopes[u]
  BY DEF ScopeTypes
<1> HIDE DEF s
<1>3. /\ Pop(s) \in Seq(Nat \X Frame)
      /\ Len(s) \in Nat \ {0}
      /\ Len(Pop(s)) = Len(s) - 1
      /\ \A k \in 1 .. Len(s) - 1 : Pop(s)[k] = s[k]
  BY <1>1, PopProperties
<1>4. scopes' \in [Threads -> Seq(Nat \X Frame)]
  BY <1>3 DEF ScopeTypes, s
<1> QED
  BY <1>2, <1>3, <1>4, Zenon DEF Depth, FrameAt, s

LEMMA ScopeTypesInit == ProviderInit => ScopeTypes
<1> SUFFICES ASSUME ProviderInit PROVE ScopeTypes
  OBVIOUS
<1>1. <<>> \in Seq(Nat \X Frame) /\ Len(<<>>) = 0
  BY EmptySeq
<1>2. \A t \in Threads : scopes[t] = <<>> /\ Len(scopes[t]) = 0
  BY <1>1 DEF ProviderInit
<1> QED
  BY <1>1, <1>2 DEF ProviderInit, ScopeTypes

LEMMA ScopeTypesNext == Shape /\ ScopeTypes /\ [ProviderNext]_allVars => ScopeTypes'
<1> SUFFICES ASSUME Shape, ScopeTypes, [ProviderNext]_allVars PROVE ScopeTypes'
  OBVIOUS
<1>1. CASE UNCHANGED allVars
  BY <1>1 DEF allVars, providerVars, ScopeTypes
<1>2. CASE ProviderNext
  <2> PICK t \in Threads :
        \/ \E n \in Branch : Fork(t, n)
        \/ StartBranch(t)
        \/ EnterProvider(t)
        \/ LeaveProvider(t)
        \/ EndBranch(t)
        \/ PoolStep(t)
    BY <1>2 DEF ProviderNext
  <2>1. CASE EndBranch(t) \/ PoolStep(t)
    BY <2>1 DEF EndBranch, PoolStep, providerVars, ScopeTypes
  <2>2. ASSUME NEW n \in Branch, Fork(t, n) PROVE ScopeTypes'
    BY <2>2 DEF Fork, ScopeTypes
  <2>3. CASE StartBranch(t)
    <3>1. pc[t] = "start"
      BY <2>3 DEF StartBranch, BeginTask
    <3>2. Top(t) \in Task
      BY <3>1, TopFacts, TaskFacts DEF Shape, Types, PcFits, InTask
    <3>3. captured[Top(t)[1]] \in Frame \cup {NullFrame}
      BY <3>2, TaskFacts DEF ScopeTypes
    <3> QED
      BY <2>3, <3>3 DEF StartBranch, ScopeTypes
  <2>4. CASE EnterProvider(t)
    <3>1. PICK f \in Frame \ LiveFrames :
            /\ link' = [link EXCEPT ![f] = head[t]]
            /\ head' = [head EXCEPT ![t] = f]
            /\ scopes' = [scopes EXCEPT ![t] = Append(@, <<Len(stack[t]), f>>)]
      BY <2>4 DEF EnterProvider
    <3>2. Len(stack[t]) \in Nat
      BY LenProperties DEF Shape, Types
    <3>3. scopes' \in [Threads -> Seq(Nat \X Frame)]
      BY <3>1, <3>2, EnterFacts
    <3> QED
      BY <2>4, <3>1, <3>3 DEF EnterProvider, ScopeTypes
  <2>5. CASE LeaveProvider(t)
    <3>1. scopes[t] # <<>>
      BY <2>5, EmptySeq DEF LeaveProvider, OwnScopes
    <3>2. scopes' \in [Threads -> Seq(Nat \X Frame)]
      BY <2>5, <3>1, LeaveFacts DEF LeaveProvider
    <3>3. head' \in [Threads -> Frame \cup {NullFrame}]
      BY <2>5 DEF LeaveProvider, ScopeTypes
    <3> QED
      BY <2>5, <3>2, <3>3 DEF LeaveProvider, ScopeTypes
  <2> QED
    BY <2>1, <2>2, <2>3, <2>4, <2>5
<1> QED
  BY <1>1, <1>2

\* The pool's invariants hold under ProviderSpec, with the types of the frames.
PoolInv == Shape /\ Ownership /\ JoinBeforeReturn

LEMMA TypesInvariant == ProviderSpec => [](PoolInv /\ ScopeTypes)
<1>1. Spec => []PoolInv
  BY CountedInvariant, JoinCorrect, PTL DEF PoolInv
<1>2. ProviderSpec => []PoolInv
  BY <1>1, PoolUnderProviders, PTL
<1>3. ProviderInit => ScopeTypes
  BY ScopeTypesInit
<1>4. PoolInv /\ ScopeTypes /\ [ProviderNext]_allVars => ScopeTypes'
  BY ScopeTypesNext DEF PoolInv
<1> QED
  BY <1>2, <1>3, <1>4, PTL DEF ProviderSpec

LEMMA ProvidersTyped == ProviderSpec => []ProviderTypeOK
<1>1. TypeOK /\ ScopeTypes => ProviderTypeOK
  BY DEF ScopeTypes, ProviderTypeOK
<1>2. ProviderSpec => []TypeOK
  BY PoolUnderProviders, TypeCorrect, PTL
<1> QED
  BY <1>1, <1>2, TypesInvariant, PTL

(***************************************************************************)
(* Par blocks that do not nest, entered by one thread.                     *)
(***************************************************************************)

\* The hypothesis of the theorems below.  With a par block inside a branch a
\* lookup may read a freed frame (ProviderStack_nested), and so it may when two
\* threads fork, for the waiting caller helps with the other's branches.
OneForker == ~ Nesting /\ \A r, s \in Roots : r = s

\* What the activation at depth d inherits, and what a body it enters sees on
\* top of the n outermost bodies of its thread.
Base(t, d) == IF d = 0 THEN NullFrame ELSE captured[stack[t][d][1]]
Visible(t, n, d) ==
  IF n # 0 /\ Depth(t, n) = d THEN FrameAt(t, n) ELSE Base(t, d)

\* The root waits for one call and helps with its tasks; a worker runs one task.
Flat(t) ==
  /\ IF t \in Roots THEN Len(stack[t]) <= 2 ELSE Len(stack[t]) <= 1
  /\ Len(stack[t]) = 2 => stack[t][2][1] = stack[t][1][1]

\* Only user code has bodies of its own; those below it are of the root itself.
Depths(t) ==
  \A k \in 1 .. Len(scopes[t]) :
    /\ Depth(t, k) <= Len(stack[t])
    /\ IF t \in Roots THEN Depth(t, k) \in {0, 2} ELSE Depth(t, k) = 1
    /\ Depth(t, k) = Len(stack[t]) => pc[t] = "user"
    /\ \A j \in 1 .. k : Depth(t, j) <= Depth(t, k)

\* ProviderFrame.prev is the frame the body was entered in.
Linked(t) ==
  \A k \in 1 .. Len(scopes[t]) :
    link[FrameAt(t, k)] = Visible(t, k - 1, Depth(t, k))

HeadRight(t) ==
  pc[t] = "user" => head[t] = Visible(t, Len(scopes[t]), Len(stack[t]))

\* A par block in progress has captured the root's innermost body, which stays
\* open, and the root's head is that frame whenever it runs no branch.
Borrowed(t) ==
  t \in Roots /\ stack[t] # <<>> =>
    /\ \E n \in Nat :
         /\ n <= Len(scopes[t])
         /\ \A k \in 1 .. Len(scopes[t]) : Depth(t, k) = 0 <=> k <= n
         /\ captured[stack[t][1][1]] = Visible(t, n, 0)
    /\ pc[t] # "user" => head[t] = captured[stack[t][1][1]]

Scoped(t) == Flat(t) /\ Depths(t) /\ Linked(t) /\ HeadRight(t) /\ Borrowed(t)
Nested == \A t \in Threads : Scoped(t)

LEMMA StackFacts ==
  ASSUME PoolInv, NEW t \in Threads
  PROVE  /\ Len(stack[t]) \in Nat
         /\ stack[t] = <<>> <=> Len(stack[t]) = 0
         /\ ncalls \in Nat
         /\ \A d \in 1 .. Len(stack[t]) : stack[t][d] \in Activation /\ stack[t][d][1] \in 1 .. ncalls
<1>1. stack[t] \in Seq(Activation) /\ ncalls \in Nat
  BY ParPoolAssumption DEF PoolInv, Shape, Types
<1>2. Len(stack[t]) \in Nat /\ (stack[t] = <<>> <=> Len(stack[t]) = 0)
  BY <1>1, EmptySeq, LenProperties
<1>3. ASSUME NEW d \in 1 .. Len(stack[t])
      PROVE  stack[t][d] \in Activation /\ stack[t][d][1] \in 1 .. ncalls
  <2>1. stack[t][d] \in Activation
    BY <1>1, ElementOfSeq
  <2>2. At(t, d, stack[t][d]) /\ d \in Nat
    BY <1>2 DEF At
  <2>3. stack[t][d][1] <= ncalls
    BY <2>1, <2>2, Zenon DEF PoolInv, Ownership, CallsIncrease
  <2>4. stack[t][d][1] \in CallId
    BY <2>1 DEF Activation
  <2> QED
    BY <1>1, <2>1, <2>3, <2>4 DEF CallId
<1> QED
  BY <1>1, <1>2, <1>3

\* How many activations a thread has, by what it is doing.
LEMMA Levels ==
  ASSUME PoolInv, NEW t \in Threads, Flat(t)
  PROVE  /\ pc[t] \in AtBase => t \notin Roots /\ Len(stack[t]) = 0
         /\ pc[t] = "user" => IF t \in Roots THEN Len(stack[t]) \in {0, 2} ELSE Len(stack[t]) = 1
         /\ pc[t] \in InCall => t \in Roots /\ Len(stack[t]) = 1
         /\ pc[t] \in InTask => Len(stack[t]) = IF t \in Roots THEN 2 ELSE 1
<1>1. /\ PcFits(t) /\ Alternates(t)
      /\ t \in Workers <=> t \notin Roots
      /\ Len(stack[t]) \in Nat /\ (stack[t] = <<>> <=> Len(stack[t]) = 0)
  BY StackFacts, ParPoolAssumption DEF PoolInv, Shape, Threads
<1>2. Len(stack[t]) = 1 => Top(t) = stack[t][1] /\ (IsCall(Top(t)) <=> t \in Roots)
  BY <1>1 DEF Alternates, Top
<1>3. Len(stack[t]) = 2 => Top(t) = stack[t][2] /\ ~ IsCall(Top(t)) /\ t \in Roots
  <2>1. SUFFICES ASSUME Len(stack[t]) = 2
                 PROVE  Top(t) = stack[t][2] /\ ~ IsCall(Top(t)) /\ t \in Roots
    OBVIOUS
  <2>2. t \in Roots
    BY <2>1 DEF Flat
  <2>3. IsCall(stack[t][1]) /\ (IsCall(stack[t][1]) <=> ~ IsCall(stack[t][2]))
    <3>1. 1 \in 1 .. Len(stack[t]) - 1 /\ 1 + 1 = 2
      BY <2>1
    <3> QED
      BY <1>1, <2>1, <2>2, <3>1 DEF Alternates
  <2> QED
    BY <2>1, <2>2, <2>3 DEF Top
<1>4. Len(stack[t]) \in {0, 1, 2}
  <2>1. \A n \in Nat : n <= 1 \/ n <= 2 => n \in {0, 1, 2}
    OBVIOUS
  <2> QED
    BY <1>1, <2>1, Zenon DEF Flat
<1>5. ASSUME pc[t] \in AtBase PROVE t \notin Roots /\ Len(stack[t]) = 0
  BY <1>1, <1>5 DEF PcFits
<1>6. ASSUME pc[t] = "user"
      PROVE  IF t \in Roots THEN Len(stack[t]) \in {0, 2} ELSE Len(stack[t]) = 1
  BY <1>1, <1>2, <1>3, <1>4, <1>6 DEF PcFits
<1>7. ASSUME pc[t] \in InCall PROVE t \in Roots /\ Len(stack[t]) = 1
  BY <1>1, <1>2, <1>3, <1>4, <1>7 DEF PcFits
<1>8. ASSUME pc[t] \in InTask PROVE Len(stack[t]) = IF t \in Roots THEN 2 ELSE 1
  BY <1>1, <1>2, <1>3, <1>4, <1>8 DEF PcFits
<1> QED
  BY <1>5, <1>6, <1>7, <1>8

\* A task that has not finished is of the call the root is waiting for.
LEMMA CallOpen ==
  ASSUME PoolInv, \A u \in Threads : Flat(u), NEW x \in Task,
         status[x] \in {"queued", "popped"}
  PROVE  \E r \in Roots : stack[r] # <<>> /\ stack[r][1] = CallActivation(x[1])
<1>1. x[1] \in CallId /\ x[2] \in Nat \ {0} /\ x = <<x[1], x[2]>>
  BY TaskFacts, ParPoolAssumption DEF Branch
<1>2. x[1] <= ncalls /\ x[2] <= count[x[1]] /\ count[x[1]] \in Nat
  <2>1. status[x] # "new"
    OBVIOUS
  <2>2. x[1] <= ncalls /\ x[2] <= count[x[1]]
    BY <2>1, Zenon DEF PoolInv, Ownership, StatusNew
  <2>3. count[x[1]] \in Nat
    BY <1>1, ParPoolAssumption DEF PoolInv, Shape, Types
  <2> QED
    BY <2>2, <2>3
<1>3. x[2] \in Unfinished(x[1])
  BY <1>1, <1>2 DEF Unfinished
<1>4. x[1] \in Calls
  BY <1>1, <1>2, ParPoolAssumption DEF Calls, CallId, PoolInv, Shape, Types
<1>5. Open(x[1])
  BY <1>3, <1>4 DEF PoolInv, JoinBeforeReturn
<1>6. PICK r \in Threads, k \in Nat : At(r, k, CallActivation(x[1]))
  BY <1>1, <1>5, OpenAt DEF PoolInv, Shape, Types
<1>7. /\ Len(stack[r]) \in Nat /\ (stack[r] = <<>> <=> Len(stack[r]) = 0)
      /\ Alternates(r) /\ Flat(r)
  BY StackFacts DEF PoolInv, Shape
<1>8. k \in 1 .. Len(stack[r]) /\ stack[r][k] = CallActivation(x[1]) /\ IsCall(stack[r][k])
  BY <1>1, <1>6, CallActivationFacts DEF At
<1>9. k = 1
  <2>1. SUFFICES ASSUME k # 1 PROVE FALSE
    OBVIOUS
  <2>2. r \in Roots /\ k = 2 /\ Len(stack[r]) = 2
    <3>1. \A n \in Nat : n <= 1 /\ k \in 1 .. n => k = 1
      OBVIOUS
    <3>2. \A n \in Nat : n <= 2 /\ k \in 1 .. n /\ k # 1 => k = 2 /\ n = 2
      OBVIOUS
    <3> QED
      BY <1>7, <1>8, <2>1, <3>1, <3>2, Zenon DEF Flat
  <2>3. 1 \in 1 .. Len(stack[r]) - 1 /\ 1 + 1 = 2
    BY <2>2
  <2> QED
    BY <1>7, <1>8, <2>2, <2>3 DEF Alternates
<1> QED
  BY <1>7, <1>8, <1>9 DEF Alternates

LEMMA NestedInit == ProviderInit => Nested
<1> SUFFICES ASSUME ProviderInit, NEW t \in Threads PROVE Scoped(t)
  BY DEF Nested
<1>1. /\ stack[t] = <<>> /\ scopes[t] = <<>> /\ head[t] = NullFrame
      /\ Len(stack[t]) = 0 /\ Len(scopes[t]) = 0
  BY DEF ProviderInit, Init
<1>2. Flat(t)
  BY <1>1 DEF Flat
<1>3. \A k \in 1 .. Len(scopes[t]) : FALSE
  BY <1>1
<1>4. Depths(t) /\ Linked(t) /\ Borrowed(t)
  BY <1>1, <1>3 DEF Depths, Linked, Borrowed
<1>5. HeadRight(t)
  BY <1>1 DEF HeadRight, Visible, Base
<1> QED
  BY <1>2, <1>4, <1>5 DEF Scoped

\* A step of another thread.
LEMMA UntouchedStays ==
  ASSUME PoolInv, ScopeTypes, NEW t \in Threads, Scoped(t),
         stack'[t] = stack[t], scopes'[t] = scopes[t], head'[t] = head[t],
         pc'[t] = "user" <=> pc[t] = "user",
         \A c \in 1 .. ncalls : captured'[c] = captured[c],
         \A f \in LiveFrames : link'[f] = link[f]
  PROVE  Scoped(t)'
<1>1. /\ Len(stack[t]) \in Nat /\ (stack[t] = <<>> <=> Len(stack[t]) = 0)
      /\ Len(stack'[t]) = Len(stack[t]) /\ Len(scopes'[t]) = Len(scopes[t])
      /\ Len(scopes[t]) \in Nat
  BY StackFacts, ScopeFacts
<1>2. \A k \in Nat : Depth(t, k)' = Depth(t, k) /\ FrameAt(t, k)' = FrameAt(t, k)
  BY DEF Depth, FrameAt
<1>3. \A d \in 0 .. Len(stack[t]) : Base(t, d)' = Base(t, d)
  <2> SUFFICES ASSUME NEW d \in 0 .. Len(stack[t]), d # 0
               PROVE  captured'[stack'[t][d][1]] = captured[stack[t][d][1]]
    BY DEF Base
  <2>1. stack[t][d][1] \in 1 .. ncalls
    BY <1>1, StackFacts
  <2> QED
    BY <2>1
<1>4. \A n \in Nat, d \in 0 .. Len(stack[t]) : Visible(t, n, d)' = Visible(t, n, d)
  BY <1>2, <1>3 DEF Visible
<1>5. Flat(t)'
  BY DEF Flat, Scoped
<1>6. Depths(t)'
  <2> SUFFICES ASSUME NEW k \in 1 .. Len(scopes[t])
      PROVE /\ Depth(t, k) <= Len(stack[t])
            /\ IF t \in Roots THEN Depth(t, k) \in {0, 2} ELSE Depth(t, k) = 1
            /\ Depth(t, k) = Len(stack[t]) => pc'[t] = "user"
            /\ \A j \in 1 .. k : Depth(t, j) <= Depth(t, k)
    BY <1>1 DEF Depths, Depth
  <2> QED
    BY DEF Scoped, Depths
<1>7. Linked(t)'
  <2> SUFFICES ASSUME NEW k \in 1 .. Len(scopes'[t])
               PROVE  link'[FrameAt(t, k)'] = Visible(t, k - 1, Depth(t, k))'
    BY DEF Linked
  <2>1. k \in 1 .. Len(scopes[t]) /\ k - 1 \in Nat /\ k \in Nat
    BY <1>1
  <2>2. FrameAt(t, k) \in LiveFrames /\ Depth(t, k) \in 0 .. Len(stack[t])
    BY <1>1, <2>1, ScopeFacts DEF Scoped, Depths, LiveFrames, FrameAt
  <2>3. link'[FrameAt(t, k)'] = link[FrameAt(t, k)]
    BY <1>2, <2>1, <2>2
  <2>4. PICK d \in 0 .. Len(stack[t]) : d = Depth(t, k)
    BY <2>2
  <2>5. Visible(t, k - 1, d)' = Visible(t, k - 1, d)
    BY <1>4, <2>1
  <2>6. Visible(t, k - 1, Depth(t, k))' = Visible(t, k - 1, d)'
    BY <1>2, <2>1, <2>4
  <2>7. link[FrameAt(t, k)] = Visible(t, k - 1, d)
    BY <2>1, <2>4 DEF Scoped, Linked
  <2> QED
    BY <2>3, <2>5, <2>6, <2>7
<1>8. HeadRight(t)'
  <2> SUFFICES ASSUME pc'[t] = "user"
               PROVE  head'[t] = Visible(t, Len(scopes[t]), Len(stack[t]))'
    BY DEF HeadRight
  <2>1. PICK n \in Nat, d \in 0 .. Len(stack[t]) : n = Len(scopes[t]) /\ d = Len(stack[t])
    BY <1>1
  <2>2. head[t] = Visible(t, n, d)
    BY <2>1 DEF Scoped, HeadRight
  <2>3. Visible(t, Len(scopes[t]), Len(stack[t]))' = Visible(t, n, d)'
    BY <1>1, <2>1
  <2> QED
    BY <1>4, <2>2, <2>3
<1>9. Borrowed(t)'
  <2> SUFFICES ASSUME t \in Roots, stack[t] # <<>>
               PROVE  /\ \E n \in Nat :
                           /\ n <= Len(scopes'[t])
                           /\ \A k \in 1 .. Len(scopes'[t]) : Depth(t, k)' = 0 <=> k <= n
                           /\ captured'[stack'[t][1][1]] = Visible(t, n, 0)'
                      /\ pc'[t] # "user" => head'[t] = captured'[stack'[t][1][1]]
    BY DEF Borrowed
  <2>1. PICK n \in Nat : /\ n <= Len(scopes[t])
                         /\ \A k \in 1 .. Len(scopes[t]) : Depth(t, k) = 0 <=> k <= n
                         /\ captured[stack[t][1][1]] = Visible(t, n, 0)
    BY DEF Scoped, Borrowed
  <2>2. captured'[stack'[t][1][1]] = captured[stack[t][1][1]]
    <3>1. 1 \in 1 .. Len(stack[t])
      BY <1>1
    <3> QED
      BY <3>1, StackFacts
  <2>3. Visible(t, n, 0)' = Visible(t, n, 0)
    BY <1>1, <1>4
  <2>4. \A k \in 1 .. Len(scopes'[t]) : Depth(t, k)' = 0 <=> k <= n
    BY <1>1, <1>2, <2>1
  <2>5. pc'[t] # "user" => head'[t] = captured'[stack'[t][1][1]]
    BY <2>2 DEF Scoped, Borrowed
  <2> QED
    BY <1>1, <2>1, <2>2, <2>3, <2>4, <2>5
<1> QED
  BY <1>5, <1>6, <1>7, <1>8, <1>9 DEF Scoped

\* A thread that calls, returns, takes or finishes a task keeps its bodies.
Resizes(t) ==
  /\ UNCHANGED <<scopes, link>>
  /\ \A c \in 1 .. ncalls : captured'[c] = captured[c]
  /\ Len(stack'[t]) \in Nat
  /\ \A d \in 1 .. Len(stack[t]) : d <= Len(stack'[t]) => stack'[t][d] = stack[t][d]
  /\ \A k \in 1 .. Len(scopes[t]) :
       /\ Depth(t, k) <= Len(stack'[t])
       /\ Depth(t, k) = Len(stack'[t]) => pc'[t] = "user"

LEMMA ResizedStays ==
  ASSUME PoolInv, ScopeTypes, NEW t \in Threads, Scoped(t), Resizes(t)
  PROVE  /\ Depths(t)' /\ Linked(t)'
         /\ \A n \in Nat, d \in 0 .. Len(stack[t]) : d <= Len(stack'[t]) =>
              Visible(t, n, d)' = Visible(t, n, d)
<1>1. /\ Len(stack[t]) \in Nat /\ (stack[t] = <<>> <=> Len(stack[t]) = 0)
      /\ Len(scopes'[t]) = Len(scopes[t]) /\ Len(stack'[t]) \in Nat
      /\ Len(scopes[t]) \in Nat
  BY StackFacts, ScopeFacts DEF Resizes
<1>2. \A k \in Nat : Depth(t, k)' = Depth(t, k) /\ FrameAt(t, k)' = FrameAt(t, k)
  BY DEF Depth, FrameAt, Resizes
<1>3. \A d \in 0 .. Len(stack[t]) : d <= Len(stack'[t]) => Base(t, d)' = Base(t, d)
  <2> SUFFICES ASSUME NEW d \in 0 .. Len(stack[t]), d # 0, d <= Len(stack'[t])
               PROVE  captured'[stack'[t][d][1]] = captured[stack[t][d][1]]
    BY DEF Base
  <2>1. d \in 1 .. Len(stack[t])
    BY <1>1
  <2>2. stack[t][d][1] \in 1 .. ncalls /\ stack'[t][d] = stack[t][d]
    BY <2>1, StackFacts DEF Resizes
  <2> QED
    BY <2>2 DEF Resizes
<1>4. \A n \in Nat, d \in 0 .. Len(stack[t]) : d <= Len(stack'[t]) =>
        Visible(t, n, d)' = Visible(t, n, d)
  BY <1>2, <1>3 DEF Visible
<1>5. Depths(t)'
  <2> SUFFICES ASSUME NEW k \in 1 .. Len(scopes[t])
      PROVE /\ Depth(t, k) <= Len(stack'[t])
            /\ IF t \in Roots THEN Depth(t, k) \in {0, 2} ELSE Depth(t, k) = 1
            /\ Depth(t, k) = Len(stack'[t]) => pc'[t] = "user"
            /\ \A j \in 1 .. k : Depth(t, j) <= Depth(t, k)
    BY <1>1 DEF Depths, Depth, Resizes
  <2> QED
    BY DEF Scoped, Depths, Resizes
<1>6. Linked(t)'
  <2> SUFFICES ASSUME NEW k \in 1 .. Len(scopes'[t])
               PROVE  link'[FrameAt(t, k)'] = Visible(t, k - 1, Depth(t, k))'
    BY DEF Linked
  <2>1. k \in 1 .. Len(scopes[t]) /\ k - 1 \in Nat /\ k \in Nat
    BY <1>1
  <2>2. Depth(t, k) \in 0 .. Len(stack[t]) /\ Depth(t, k) <= Len(stack'[t])
    BY <1>1, <2>1, ScopeFacts DEF Scoped, Depths, Resizes
  <2>3. link'[FrameAt(t, k)'] = link[FrameAt(t, k)]
    BY <1>2, <2>1 DEF Resizes
  <2>4. PICK d \in 0 .. Len(stack[t]) : d = Depth(t, k)
    BY <2>2
  <2>5. Visible(t, k - 1, d)' = Visible(t, k - 1, d)
    BY <1>4, <2>1, <2>2, <2>4
  <2>6. Visible(t, k - 1, Depth(t, k))' = Visible(t, k - 1, d)'
    BY <1>2, <2>1, <2>4
  <2>7. link[FrameAt(t, k)] = Visible(t, k - 1, d)
    BY <2>1, <2>4 DEF Scoped, Linked
  <2> QED
    BY <2>3, <2>5, <2>6, <2>7
<1> QED
  BY <1>4, <1>5, <1>6

\* A root between its call and its branch still borrows the same frame.
LEMMA BorrowedStays ==
  ASSUME PoolInv, ScopeTypes, NEW t \in Threads, Scoped(t), Resizes(t),
         t \in Roots => stack[t] # <<>> /\ 1 <= Len(stack'[t]),
         t \in Roots /\ pc'[t] # "user" => head'[t] = captured[stack[t][1][1]]
  PROVE  Borrowed(t)'
<1> SUFFICES ASSUME t \in Roots
             PROVE  /\ \E n \in Nat :
                         /\ n <= Len(scopes'[t])
                         /\ \A k \in 1 .. Len(scopes'[t]) : Depth(t, k)' = 0 <=> k <= n
                         /\ captured'[stack'[t][1][1]] = Visible(t, n, 0)'
                    /\ pc'[t] # "user" => head'[t] = captured'[stack'[t][1][1]]
  BY DEF Borrowed
<1>1. /\ Len(stack[t]) \in Nat /\ Len(stack[t]) # 0 /\ stack[t] # <<>>
      /\ Len(scopes'[t]) = Len(scopes[t]) /\ Len(stack'[t]) \in Nat
      /\ Len(scopes[t]) \in Nat
  BY StackFacts, ScopeFacts DEF Resizes
<1>2. PICK n \in Nat : /\ n <= Len(scopes[t])
                       /\ \A k \in 1 .. Len(scopes[t]) : Depth(t, k) = 0 <=> k <= n
                       /\ captured[stack[t][1][1]] = Visible(t, n, 0)
  BY <1>1 DEF Scoped, Borrowed
<1>3. captured'[stack'[t][1][1]] = captured[stack[t][1][1]]
  <2>1. 1 \in 1 .. Len(stack[t])
    BY <1>1
  <2>2. stack'[t][1] = stack[t][1] /\ stack[t][1][1] \in 1 .. ncalls
    BY <2>1, StackFacts DEF Resizes
  <2> QED
    BY <2>2 DEF Resizes
<1>4. Visible(t, n, 0)' = Visible(t, n, 0)
  <2>1. 0 \in 0 .. Len(stack[t]) /\ 0 <= Len(stack'[t])
    BY <1>1
  <2>2. \A m \in Nat, d \in 0 .. Len(stack[t]) : d <= Len(stack'[t]) =>
          Visible(t, m, d)' = Visible(t, m, d)
    BY ResizedStays
  <2> QED
    BY <2>1, <2>2, Zenon
<1>5. \A k \in 1 .. Len(scopes'[t]) : Depth(t, k)' = 0 <=> k <= n
  BY <1>1, <1>2 DEF Depth, Resizes
<1>6. pc'[t] # "user" => head'[t] = captured'[stack'[t][1][1]]
  BY <1>3
<1> QED
  BY <1>1, <1>2, <1>3, <1>4, <1>5, <1>6

\* Outside user code no body is entered at the top of the stack.
LEMMA NoOwnScopes ==
  ASSUME PoolInv, ScopeTypes, NEW t \in Threads, Scoped(t)
  PROVE  /\ \A k \in 1 .. Len(scopes[t]) :
              Depth(t, k) \in Nat /\ Depth(t, k) <= Len(stack[t])
         /\ pc[t] # "user" \/ OwnScopes(t) = {} =>
              \A k \in 1 .. Len(scopes[t]) : Depth(t, k) # Len(stack[t])
         /\ pc[t] # "user" => OwnScopes(t) = {}
         /\ OwnScopes(t) # {} =>
              /\ Len(scopes[t]) \in 1 .. Len(scopes[t])
              /\ Depth(t, Len(scopes[t])) = Len(stack[t])
<1>1. \A k \in 1 .. Len(scopes[t]) :
        /\ Depth(t, k) \in Nat /\ Depth(t, k) <= Len(stack[t])
        /\ Depth(t, k) = Len(stack[t]) => pc[t] = "user"
        /\ \A j \in 1 .. k : Depth(t, j) <= Depth(t, k)
  BY ScopeFacts DEF Scoped, Depths
<1>2. Len(stack[t]) \in Nat /\ Len(scopes[t]) \in Nat
  BY StackFacts, ScopeFacts
<1>3. OwnScopes(t) = {k \in 1 .. Len(scopes[t]) : Depth(t, k) = Len(stack[t])}
  BY DEF OwnScopes, Depth
<1>4. ASSUME OwnScopes(t) # {}
      PROVE  /\ Len(scopes[t]) \in 1 .. Len(scopes[t])
             /\ Depth(t, Len(scopes[t])) = Len(stack[t])
  <2>1. PICK j \in 1 .. Len(scopes[t]) : Depth(t, j) = Len(stack[t])
    BY <1>3, <1>4
  <2>2. Len(scopes[t]) \in 1 .. Len(scopes[t]) /\ j \in 1 .. Len(scopes[t])
    BY <1>2
  <2>3. PICK n \in 1 .. Len(scopes[t]) : n = Len(scopes[t])
    BY <2>2
  <2>4. Depth(t, n) \in Nat /\ Depth(t, n) <= Len(stack[t]) /\ Depth(t, j) <= Depth(t, n)
    BY <1>1, <2>2, <2>3
  <2> QED
    BY <1>2, <2>1, <2>2, <2>3, <2>4
<1> QED
  BY <1>1, <1>3, <1>4

\* A worker takes a task, or the waiting root helps with one of its own.
LEMMA TakeStays ==
  ASSUME PoolInv, ScopeTypes, Nested, OneForker, NEW t \in Threads, TakeTask(t),
         UNCHANGED providerVars
  PROVE  Scoped(t)'
<1> DEFINE x == Head(queue)
<1>1. /\ pc[t] \in {"idle", "help"} /\ pc'[t] = "start" /\ Flat(t) /\ Scoped(t)
      /\ head'[t] = head[t]
  BY DEF TakeTask, Nested, Scoped, PoolInv, Shape, Types, providerVars
<1>2. queue \in Seq(Task) /\ queue # <<>> /\ Pushes(t, x)
  BY DEF PoolInv, Shape, Types, TakeTask, Pushes
<1>3. x \in Task /\ x \in Activation /\ status[x] = "queued"
  <2>1. x \in Task
    BY <1>2, HeadTailProperties
  <2>2. Queued(1, x)
    BY <1>2, EmptySeq DEF Queued
  <2> QED
    BY <2>1, <2>2, TaskFacts DEF PoolInv, Ownership, StatusQueued
<1> HIDE DEF x
<1>4. /\ stack'[t] # <<>>
      /\ Len(stack[t]) \in Nat
      /\ Len(stack'[t]) = Len(stack[t]) + 1
      /\ \A k \in 1 .. Len(stack[t]) : stack'[t][k] = stack[t][k]
      /\ stack'[t][Len(stack[t]) + 1] = x
  BY <1>2, <1>3, PushFacts DEF PoolInv, Shape, Types
<1>5. Len(stack[t]) = IF t \in Roots THEN 1 ELSE 0
  BY <1>1, Levels DEF AtBase, InCall
<1>6. Flat(t)'
  <2>1. CASE t \notin Roots
    BY <1>4, <1>5, <2>1 DEF Flat
  <2>2. CASE t \in Roots
    <3>1. PICK r \in Roots : stack[r] # <<>> /\ stack[r][1] = CallActivation(x[1])
      BY <1>3, CallOpen DEF Nested, Scoped
    <3>2. r = t
      BY <2>2, <3>1 DEF OneForker
    <3>3. 1 \in 1 .. Len(stack[t]) /\ Len(stack'[t]) = 2 /\ Len(stack[t]) + 1 = 2
      BY <1>4, <1>5, <2>2
    <3>4. stack'[t][1] = CallActivation(x[1]) /\ stack'[t][2] = x
      BY <1>4, <3>1, <3>2, <3>3
    <3> QED
      BY <2>2, <3>3, <3>4 DEF Flat, CallActivation
  <2> QED
    BY <2>1, <2>2
<1>7. Resizes(t)
  <2>1. \A k \in 1 .. Len(scopes[t]) : Depth(t, k) \in Nat /\ Depth(t, k) <= Len(stack[t])
    BY <1>1, NoOwnScopes
  <2> QED
    BY <1>4, <2>1 DEF Resizes, providerVars
<1>8. Borrowed(t)'
  <2>1. t \in Roots => stack[t] # <<>> /\ 1 <= Len(stack'[t])
    BY <1>4, <1>5, EmptySeq
  <2>2. t \in Roots => head'[t] = captured[stack[t][1][1]]
    BY <1>1, <2>1 DEF Scoped, Borrowed
  <2> QED
    BY <1>1, <1>7, <2>1, <2>2, BorrowedStays
<1>9. HeadRight(t)'
  BY <1>1 DEF HeadRight
<1> QED
  BY <1>1, <1>6, <1>7, <1>8, <1>9, ResizedStays DEF Scoped

\* A thread pops the task it has finished.
LEMMA PopStays ==
  ASSUME PoolInv, ScopeTypes, NEW t \in Threads, Scoped(t), pc[t] \in InTask,
         Pops(t), pc'[t] = ResumeAt(stack[t]), UNCHANGED providerVars
  PROVE  Scoped(t)'
<1>1. Len(stack[t]) = IF t \in Roots THEN 2 ELSE 1
  BY Levels DEF Scoped
<1>2. stack[t] # <<>> /\ stack \in [Threads -> Seq(Activation)]
  <2>1. stack \in [Threads -> Seq(Activation)]
    BY DEF PoolInv, Shape, Types
  <2>2. Len(stack[t]) # 0
    BY <1>1
  <2> QED
    BY <2>1, <2>2, StackFacts
<1>3. /\ Len(stack[t]) \in Nat \ {0}
      /\ Len(stack'[t]) = Len(stack[t]) - 1
      /\ \A k \in 1 .. Len(stack[t]) - 1 : stack'[t][k] = stack[t][k]
  BY <1>2, PopFacts
<1>4. Flat(t)'
  BY <1>1, <1>3 DEF Flat
<1>5. pc[t] # "user" /\ pc'[t] # "user" /\ head'[t] = head[t]
  BY DEF ResumeAt, InTask, providerVars
<1>6. Resizes(t)
  <2>1. \A k \in 1 .. Len(scopes[t]) :
          Depth(t, k) \in Nat /\ Depth(t, k) <= Len(stack[t]) /\ Depth(t, k) # Len(stack[t])
    BY <1>5, NoOwnScopes
  <2>2. \A k \in 1 .. Len(scopes[t]) : Depth(t, k) <= Len(stack'[t])
    BY <1>3, <2>1
  <2>3. ASSUME NEW k \in 1 .. Len(scopes[t]) PROVE Depth(t, k) # Len(stack'[t])
    <3>1. IF t \in Roots THEN Depth(t, k) \in {0, 2} ELSE Depth(t, k) = 1
      BY DEF Scoped, Depths
    <3> QED
      BY <1>1, <1>3, <2>1, <3>1
  <2>4. \A d \in 1 .. Len(stack[t]) : d <= Len(stack'[t]) => stack'[t][d] = stack[t][d]
    BY <1>3
  <2> QED
    BY <1>3, <2>2, <2>3, <2>4 DEF Resizes, providerVars
<1>7. Borrowed(t)'
  <2>1. t \in Roots => stack[t] # <<>> /\ 1 <= Len(stack'[t])
    BY <1>1, <1>2, <1>3
  <2>2. t \in Roots => head'[t] = captured[stack[t][1][1]]
    BY <1>5, <2>1 DEF Scoped, Borrowed
  <2> QED
    BY <1>5, <1>6, <2>1, <2>2, BorrowedStays
<1>8. HeadRight(t)'
  BY <1>5 DEF HeadRight
<1> QED
  BY <1>4, <1>6, <1>7, <1>8, ResizedStays DEF Scoped

\* The root returns from its call and sees its innermost body again.
LEMMA ReturnStays ==
  ASSUME PoolInv, ScopeTypes, NEW t \in Threads, Scoped(t), Return(t),
         UNCHANGED providerVars
  PROVE  Scoped(t)'
<1>1. pc[t] \in InCall /\ pc[t] # "user" /\ pc'[t] = "user" /\ Pops(t)
  BY DEF Return, Pops, InCall, PoolInv, Shape, Types
<1>2. t \in Roots /\ Len(stack[t]) = 1 /\ Flat(t)
  BY <1>1, Levels DEF Scoped
<1>3. stack[t] # <<>> /\ stack \in [Threads -> Seq(Activation)]
  <2>1. stack \in [Threads -> Seq(Activation)]
    BY DEF PoolInv, Shape, Types
  <2>2. Len(stack[t]) # 0
    BY <1>2
  <2> QED
    BY <2>1, <2>2, StackFacts
<1>4. Len(stack'[t]) = 0 /\ stack'[t] = <<>>
  <2>1. Len(stack'[t]) = 0 /\ stack'[t] \in Seq(Activation)
    <3>1. /\ stack' \in [Threads -> Seq(Activation)]
          /\ Len(stack'[t]) = Len(stack[t]) - 1
      BY <1>1, <1>3, PopFacts
    <3> QED
      BY <1>2, <3>1
  <2> QED
    BY <2>1, EmptySeq
<1>5. Flat(t)' /\ Borrowed(t)'
  BY <1>4 DEF Flat, Borrowed
<1>6. \A k \in 1 .. Len(scopes[t]) : Depth(t, k) = 0
  <2>1. ASSUME NEW k \in 1 .. Len(scopes[t]) PROVE Depth(t, k) = 0
    <3>1. Depth(t, k) \in {0, 2} /\ Depth(t, k) <= 1
      BY <1>2 DEF Scoped, Depths
    <3> QED
      BY <3>1
  <2> QED
    BY <2>1
<1>7. Resizes(t)
  BY <1>1, <1>2, <1>4, <1>6 DEF Resizes, providerVars
<1>8. HeadRight(t)'
  <2>1. PICK n \in Nat : /\ n <= Len(scopes[t])
                         /\ \A k \in 1 .. Len(scopes[t]) : Depth(t, k) = 0 <=> k <= n
                         /\ captured[stack[t][1][1]] = Visible(t, n, 0)
    BY <1>2, <1>3 DEF Scoped, Borrowed
  <2>2. n = Len(scopes[t])
    <3>1. Len(scopes[t]) \in Nat
      BY ScopeFacts
    <3>2. Len(scopes[t]) # 0 => Len(scopes[t]) \in 1 .. Len(scopes[t])
      BY <3>1
    <3>3. \A k \in 1 .. Len(scopes[t]) : k <= n
      BY <1>6, <2>1
    <3> QED
      BY <2>1, <3>1, <3>2, <3>3
  <2>3. head'[t] = Visible(t, n, 0)
    BY <1>1, <1>2, <1>3, <2>1 DEF Scoped, Borrowed, providerVars
  <2>4. Visible(t, n, 0)' = Visible(t, n, 0)
    BY <1>2 DEF Visible, Base, Depth, FrameAt, providerVars
  <2>5. Visible(t, Len(scopes[t]), Len(stack[t]))' = Visible(t, n, 0)'
    BY <1>4, <2>2 DEF providerVars
  <2> QED
    BY <2>3, <2>4, <2>5 DEF HeadRight
<1> QED
  BY <1>5, <1>7, <1>8, ResizedStays DEF Scoped

\* emit_par_run captures the head the root has outside any par block.
LEMMA ForkStays ==
  ASSUME PoolInv, ScopeTypes, NEW t \in Threads, Scoped(t), OneForker,
         NEW n \in Branch, Fork(t, n)
  PROVE  Scoped(t)'
<1>1. /\ stack[t] = <<>> /\ pc[t] = "user" /\ pc'[t] = "enqueue"
      /\ Pushes(t, CallActivation(ncalls + 1))
      /\ captured' = [captured EXCEPT ![ncalls + 1] = head[t]]
      /\ head'[t] = head[t] /\ UNCHANGED <<scopes, link, head>>
  BY DEF Fork, ParRun, OneForker, Pushes
<1>2. Len(stack[t]) = 0 /\ t \in Roots
  <2>1. Len(stack[t]) = 0
    BY <1>1
  <2>2. IF t \in Roots THEN Len(stack[t]) \in {0, 2} ELSE Len(stack[t]) = 1
    BY <1>1, Levels DEF Scoped
  <2> QED
    BY <2>1, <2>2
<1>3. ncalls + 1 \in CallId /\ CallActivation(ncalls + 1) \in Activation /\ ncalls \in Nat
  BY TaskFacts, ParPoolAssumption
  DEF Fork, ParRun, CallId, PoolInv, Shape, Types
<1>4. PICK c \in CallId : c = ncalls + 1
  BY <1>3
<1>5. /\ Len(stack'[t]) = 1 /\ stack'[t][1] = CallActivation(c)
      /\ stack'[t][1][1] = c
  <2>1. Pushes(t, CallActivation(c)) /\ CallActivation(c) \in Activation
    BY <1>1, <1>3, <1>4
  <2>2. Len(stack'[t]) = 0 + 1 /\ stack'[t][0 + 1] = CallActivation(c)
    BY <1>2, <2>1, PushFacts DEF PoolInv, Shape, Types
  <2> QED
    BY <2>2 DEF CallActivation
<1>6. captured'[c] = head[t] /\ \A b \in 1 .. ncalls : captured'[b] = captured[b]
  BY <1>1, <1>3, <1>4 DEF ScopeTypes
<1>7. \A k \in 1 .. Len(scopes[t]) : Depth(t, k) = 0
  <2>1. ASSUME NEW k \in 1 .. Len(scopes[t]) PROVE Depth(t, k) = 0
    <3>1. Depth(t, k) \in Nat /\ Depth(t, k) <= 0
      BY <1>2, NoOwnScopes
    <3> QED
      BY <3>1
  <2> QED
    BY <2>1
<1>8. Resizes(t)
  BY <1>1, <1>2, <1>5, <1>6, <1>7 DEF Resizes
<1>9. Flat(t)' /\ HeadRight(t)'
  BY <1>1, <1>2, <1>5 DEF Flat, HeadRight
<1>10. Borrowed(t)'
  <2>1. Len(scopes[t]) \in Nat
    BY ScopeFacts
  <2>2. PICK m \in Nat : m = Len(scopes[t])
    BY <2>1
  <2>3. head[t] = Visible(t, m, 0)
    BY <1>1, <1>2, <2>2 DEF Scoped, HeadRight
  <2>4. Visible(t, m, 0)' = Visible(t, m, 0)
    BY <1>1 DEF Visible, Base, Depth, FrameAt
  <2>5. m <= Len(scopes'[t]) /\ \A k \in 1 .. Len(scopes'[t]) : Depth(t, k)' = 0 <=> k <= m
    BY <1>1, <1>7, <2>1, <2>2 DEF Depth
  <2>6. captured'[stack'[t][1][1]] = head[t]
    BY <1>5, <1>6
  <2> QED
    BY <1>1, <2>3, <2>4, <2>5, <2>6 DEF Borrowed
<1> QED
  BY <1>8, <1>9, <1>10, ResizedStays DEF Scoped

\* The prologue of a branch gives the thread the head its call captured, and a
\* root is back on that head when its branch ends.
LEMMA BranchStays ==
  ASSUME PoolInv, ScopeTypes, NEW t \in Threads, Scoped(t),
         StartBranch(t) \/ EndBranch(t)
  PROVE  Scoped(t)'
<1>1. /\ UNCHANGED <<stack, scopes, link, captured>>
      /\ pc[t] # "user" \/ OwnScopes(t) = {}
  BY DEF StartBranch, BeginTask, EndBranch, EndTask, providerVars
<1>2. /\ Len(stack[t]) \in Nat /\ (stack[t] = <<>> <=> Len(stack[t]) = 0)
      /\ Len(scopes[t]) \in Nat
      /\ \A k \in 1 .. Len(scopes[t]) :
           Depth(t, k) \in Nat /\ Depth(t, k) <= Len(stack[t]) /\ Depth(t, k) # Len(stack[t])
  BY <1>1, StackFacts, ScopeFacts, NoOwnScopes
<1>3. Len(stack[t]) = (IF t \in Roots THEN 2 ELSE 1) /\ stack[t] # <<>>
  <2>1. CASE StartBranch(t)
    <3>1. pc[t] \in InTask
      BY <2>1 DEF StartBranch, BeginTask, InTask
    <3> QED
      BY <1>2, <3>1, Levels DEF Scoped
  <2>2. CASE EndBranch(t)
    <3>1. pc[t] = "user" /\ stack[t] # <<>>
      BY <2>2 DEF EndBranch, EndTask
    <3>2. IF t \in Roots THEN Len(stack[t]) \in {0, 2} ELSE Len(stack[t]) = 1
      BY <3>1, Levels DEF Scoped
    <3> QED
      BY <1>2, <3>1, <3>2
  <2> QED
    BY <2>1, <2>2
<1>4. Visible(t, Len(scopes[t]), Len(stack[t])) = captured[Top(t)[1]]
  <2>1. PICK n \in Nat, d \in Nat : n = Len(scopes[t]) /\ d = Len(stack[t])
    BY <1>2
  <2>2. d # 0 /\ (n # 0 => Depth(t, n) # d)
    BY <1>2, <1>3, <2>1
  <2>3. Visible(t, n, d) = captured[stack[t][d][1]]
    BY <2>2 DEF Visible, Base
  <2> QED
    BY <2>1, <2>3 DEF Top
<1>5. Flat(t)'
  BY <1>1 DEF Scoped, Flat
<1>6. Resizes(t)
  BY <1>1, <1>2 DEF Resizes
<1>7. HeadRight(t)'
  <2>1. CASE StartBranch(t)
    <3>1. head'[t] = captured[Top(t)[1]]
      BY <2>1 DEF StartBranch, ScopeTypes
    <3>2. Visible(t, Len(scopes[t]), Len(stack[t]))' = Visible(t, Len(scopes[t]), Len(stack[t]))
      BY <1>1 DEF Visible, Base, Depth, FrameAt
    <3> QED
      BY <1>4, <3>1, <3>2 DEF HeadRight
  <2>2. CASE EndBranch(t)
    <3>1. pc'[t] = "finish"
      BY <2>2 DEF EndBranch, EndTask, PoolInv, Shape, Types
    <3> QED
      BY <3>1 DEF HeadRight
  <2> QED
    BY <2>1, <2>2
<1>8. Borrowed(t)'
  <2>1. t \in Roots => stack[t] # <<>> /\ 1 <= Len(stack'[t])
    BY <1>1, <1>3
  <2>2. ASSUME t \in Roots, pc'[t] # "user" PROVE head'[t] = captured[stack[t][1][1]]
    <3>1. CASE StartBranch(t)
      BY <2>2, <3>1 DEF StartBranch, BeginTask, PoolInv, Shape, Types
    <3>2. CASE EndBranch(t)
      <4>1. pc[t] = "user" /\ head'[t] = head[t]
        BY <3>2 DEF EndBranch, EndTask, providerVars
      <4>2. head[t] = captured[Top(t)[1]]
        BY <1>4, <4>1 DEF Scoped, HeadRight
      <4>3. Top(t)[1] = stack[t][1][1]
        BY <1>3, <2>2 DEF Top, Scoped, Flat
      <4> QED
        BY <4>1, <4>2, <4>3
    <3> QED
      BY <3>1, <3>2
  <2> QED
    BY <1>6, <2>1, <2>2, BorrowedStays
<1> QED
  BY <1>5, <1>6, <1>7, <1>8, ResizedStays DEF Scoped

\* A body is entered: its frame is linked to what was visible, and is now.
LEMMA EnterStays ==
  ASSUME PoolInv, ScopeTypes, NEW t \in Threads, Scoped(t), EnterProvider(t)
  PROVE  Scoped(t)'
<1>1. PICK f \in Frame \ LiveFrames :
        /\ pc[t] = "user" /\ pc'[t] = "user" /\ UNCHANGED <<stack, captured>>
        /\ link' = [link EXCEPT ![f] = head[t]]
        /\ head' = [head EXCEPT ![t] = f]
        /\ scopes' = [scopes EXCEPT ![t] = Append(@, <<Len(stack[t]), f>>)]
  BY DEF EnterProvider, vars
<1>2. Len(stack[t]) \in Nat /\ Len(scopes[t]) \in Nat
  BY StackFacts, ScopeFacts
<1>3. PICK d \in Nat, n \in Nat : d = Len(stack[t]) /\ n = Len(scopes[t])
  BY <1>2
<1>4. /\ Len(scopes'[t]) = n + 1
      /\ \A k \in 1 .. n : Depth(t, k)' = Depth(t, k) /\ FrameAt(t, k)' = FrameAt(t, k)
      /\ scopes'[t][n + 1] = <<d, f>>
  <2>1. scopes' = [scopes EXCEPT ![t] = Append(@, <<d, f>>)]
    BY <1>1, <1>3
  <2>2. /\ Len(scopes'[t]) = Len(scopes[t]) + 1
        /\ \A k \in 1 .. Len(scopes[t]) :
             Depth(t, k)' = Depth(t, k) /\ FrameAt(t, k)' = FrameAt(t, k)
        /\ scopes'[t][Len(scopes[t]) + 1] = <<d, f>>
    BY <2>1, EnterFacts, Zenon
  <2> QED
    BY <1>3, <2>2, Zenon
<1>5. Depth(t, n + 1)' = d /\ FrameAt(t, n + 1)' = f
  BY <1>4 DEF Depth, FrameAt
<1>6. /\ head'[t] = f /\ link'[f] = head[t]
      /\ \A g \in LiveFrames : link'[g] = link[g]
  BY <1>1 DEF ScopeTypes
<1>7. \A e \in Nat : Base(t, e)' = Base(t, e)
  BY <1>1 DEF Base
<1>8. \A k \in 1 .. n : /\ Depth(t, k) \in Nat /\ Depth(t, k) <= d
                        /\ FrameAt(t, k) \in LiveFrames
  BY <1>3, NoOwnScopes DEF LiveFrames, FrameAt
<1>9. \A m \in 0 .. n, e \in Nat : Visible(t, m, e)' = Visible(t, m, e)
  <2> SUFFICES ASSUME NEW m \in 0 .. n, NEW e \in Nat
               PROVE  Visible(t, m, e)' = Visible(t, m, e)
    OBVIOUS
  <2>1. m # 0 => m \in 1 .. n
    BY <1>3
  <2> QED
    BY <1>4, <1>7, <2>1 DEF Visible
<1>10. Flat(t)'
  BY <1>1 DEF Scoped, Flat
<1>11. Depths(t)'
  <2>1. ASSUME NEW k \in 1 .. n + 1
        PROVE  /\ Depth(t, k)' <= d
               /\ IF t \in Roots THEN Depth(t, k)' \in {0, 2} ELSE Depth(t, k)' = 1
               /\ \A j \in 1 .. k : Depth(t, j)' <= Depth(t, k)'
    <3>1. CASE k = n + 1
      <4>1. IF t \in Roots THEN d \in {0, 2} ELSE d = 1
        BY <1>1, <1>3, Levels DEF Scoped
      <4>2. ASSUME NEW j \in 1 .. k PROVE Depth(t, j)' <= d
        <5>1. CASE j = n + 1
          BY <1>5, <5>1
        <5>2. CASE j # n + 1
          <6>1. j \in 1 .. n
            BY <3>1, <5>2
          <6> QED
            BY <1>4, <1>8, <6>1
        <5> QED
          BY <5>1, <5>2
      <4>3. Depth(t, k)' = d
        BY <1>5, <3>1
      <4> QED
        BY <4>1, <4>2, <4>3
    <3>2. CASE k # n + 1
      <4>1. k \in 1 .. n /\ k \in 1 .. Len(scopes[t]) /\ \A j \in 1 .. k : j \in 1 .. n
        BY <1>3, <3>2
      <4>2. /\ IF t \in Roots THEN Depth(t, k) \in {0, 2} ELSE Depth(t, k) = 1
            /\ \A j \in 1 .. k : Depth(t, j) <= Depth(t, k)
        BY <4>1 DEF Scoped, Depths
      <4> QED
        BY <1>4, <1>8, <4>1, <4>2
    <3> QED
      BY <3>1, <3>2
  <2> QED
    BY <1>1, <1>3, <1>4, <2>1 DEF Depths
<1>12. Linked(t)'
  <2> SUFFICES ASSUME NEW k \in 1 .. n + 1
               PROVE  link'[FrameAt(t, k)'] = Visible(t, k - 1, Depth(t, k))'
    BY <1>4 DEF Linked
  <2>1. CASE k = n + 1
    <3>1. k - 1 = n /\ n \in 0 .. n
      BY <2>1
    <3>2. link'[FrameAt(t, k)'] = head[t] /\ Depth(t, k)' = d
      BY <1>5, <1>6, <2>1
    <3>3. head[t] = Visible(t, n, d)
      BY <1>1, <1>3 DEF Scoped, HeadRight
    <3>4. Visible(t, n, d)' = Visible(t, n, d)
      BY <1>9, <3>1
    <3>5. Visible(t, k - 1, Depth(t, k))' = Visible(t, n, d)'
      BY <3>1, <3>2
    <3> QED
      BY <3>2, <3>3, <3>4, <3>5
  <2>2. CASE k # n + 1
    <3>1. k \in 1 .. n /\ k \in 1 .. Len(scopes[t]) /\ k - 1 \in 0 .. n
      BY <1>3, <2>2
    <3>2. PICK e \in Nat : e = Depth(t, k)
      BY <1>8, <3>1
    <3>3. link'[FrameAt(t, k)'] = link[FrameAt(t, k)]
      BY <1>4, <1>6, <1>8, <3>1
    <3>4. link[FrameAt(t, k)] = Visible(t, k - 1, e)
      BY <3>1, <3>2 DEF Scoped, Linked
    <3>5. Visible(t, k - 1, e)' = Visible(t, k - 1, e)
      BY <1>9, <3>1
    <3>6. Visible(t, k - 1, Depth(t, k))' = Visible(t, k - 1, e)'
      BY <1>4, <3>1, <3>2
    <3> QED
      BY <3>3, <3>4, <3>5, <3>6
  <2> QED
    BY <2>1, <2>2
<1>13. HeadRight(t)'
  <2>1. Visible(t, n + 1, d)' = f
    BY <1>5 DEF Visible
  <2>2. Visible(t, Len(scopes[t]), Len(stack[t]))' = Visible(t, n + 1, d)'
    BY <1>1, <1>3, <1>4
  <2> QED
    BY <1>6, <2>1, <2>2 DEF HeadRight
<1>14. Borrowed(t)'
  <2> SUFFICES ASSUME t \in Roots, stack[t] # <<>>
               PROVE  \E m \in Nat :
                        /\ m <= Len(scopes'[t])
                        /\ \A k \in 1 .. Len(scopes'[t]) : Depth(t, k)' = 0 <=> k <= m
                        /\ captured'[stack'[t][1][1]] = Visible(t, m, 0)'
    BY <1>1 DEF Borrowed
  <2>1. PICK m \in Nat : /\ m <= n
                         /\ \A k \in 1 .. n : Depth(t, k) = 0 <=> k <= m
                         /\ captured[stack[t][1][1]] = Visible(t, m, 0)
    BY <1>3 DEF Scoped, Borrowed
  <2>2. d # 0
    BY <1>3, StackFacts
  <2>3. ASSUME NEW k \in 1 .. n + 1 PROVE Depth(t, k)' = 0 <=> k <= m
    <3>1. CASE k = n + 1
      BY <1>5, <2>1, <2>2, <3>1
    <3>2. CASE k # n + 1
      <4>1. k \in 1 .. n
        BY <3>2
      <4> QED
        BY <1>4, <2>1, <4>1
    <3> QED
      BY <3>1, <3>2
  <2>4. Visible(t, m, 0)' = Visible(t, m, 0) /\ m <= n + 1
    BY <1>9, <2>1
  <2> QED
    BY <1>1, <1>4, <2>1, <2>3, <2>4
<1> QED
  BY <1>10, <1>11, <1>12, <1>13, <1>14 DEF Scoped

\* A body is left: what it was entered in is visible again.
LEMMA LeaveStays ==
  ASSUME PoolInv, ScopeTypes, NEW t \in Threads, Scoped(t), LeaveProvider(t)
  PROVE  Scoped(t)'
<1>1. /\ pc[t] = "user" /\ pc'[t] = "user" /\ UNCHANGED <<stack, captured, link>>
      /\ OwnScopes(t) # {}
      /\ head' = [head EXCEPT ![t] = IF @ = NullFrame THEN @ ELSE link[@]]
      /\ scopes' = [scopes EXCEPT ![t] = Pop(@)]
  BY DEF LeaveProvider, vars
<1>2. /\ Len(scopes[t]) \in 1 .. Len(scopes[t])
      /\ Depth(t, Len(scopes[t])) = Len(stack[t])
  BY <1>1, NoOwnScopes
<1>3. Len(stack[t]) \in Nat /\ Len(scopes[t]) \in Nat
  BY StackFacts, ScopeFacts
<1>4. PICK d \in Nat, n \in Nat : d = Len(stack[t]) /\ n + 1 = Len(scopes[t])
  <2>1. Len(scopes[t]) - 1 \in Nat /\ Len(scopes[t]) - 1 + 1 = Len(scopes[t])
    BY <1>2, <1>3
  <2> QED
    BY <1>3, <2>1
<1>5. /\ Len(scopes'[t]) = n
      /\ \A k \in 1 .. n : Depth(t, k)' = Depth(t, k) /\ FrameAt(t, k)' = FrameAt(t, k)
  <2>1. scopes[t] # <<>>
    BY <1>2, EmptySeq
  <2>2. /\ Len(scopes'[t]) = Len(scopes[t]) - 1
        /\ \A k \in 1 .. Len(scopes[t]) - 1 :
             Depth(t, k)' = Depth(t, k) /\ FrameAt(t, k)' = FrameAt(t, k)
    BY <1>1, <2>1, LeaveFacts
  <2>3. Len(scopes[t]) - 1 = n
    BY <1>3, <1>4
  <2> QED
    BY <2>2, <2>3
<1>6. n + 1 \in 1 .. Len(scopes[t]) /\ \A k \in 1 .. n : k \in 1 .. Len(scopes[t])
  BY <1>4
<1>7. Depth(t, n + 1) = d /\ FrameAt(t, n + 1) \in Frame
  <2>1. \A k \in 1 .. Len(scopes[t]) : FrameAt(t, k) \in Frame
    BY ScopeFacts
  <2> QED
    BY <1>2, <1>4, <1>6, <2>1
<1>8. \A m \in 0 .. n, e \in Nat : Visible(t, m, e)' = Visible(t, m, e)
  <2> SUFFICES ASSUME NEW m \in 0 .. n, NEW e \in Nat
               PROVE  Visible(t, m, e)' = Visible(t, m, e)
    OBVIOUS
  <2>1. Base(t, e)' = Base(t, e)
    BY <1>1 DEF Base
  <2>2. m # 0 => m \in 1 .. n
    BY <1>4
  <2> QED
    BY <1>5, <2>1, <2>2 DEF Visible
<1>9. head'[t] = Visible(t, n, d)
  <2>1. head[t] = FrameAt(t, n + 1)
    <3>1. head[t] = Visible(t, n + 1, d)
      BY <1>1, <1>4 DEF Scoped, HeadRight
    <3> QED
      BY <1>4, <1>7, <3>1 DEF Visible
  <2>2. head[t] # NullFrame
    BY <1>7, <2>1 DEF Frame, NullFrame
  <2>3. head'[t] = link[FrameAt(t, n + 1)]
    BY <1>1, <2>1, <2>2 DEF ScopeTypes
  <2>4. link[FrameAt(t, n + 1)] = Visible(t, (n + 1) - 1, Depth(t, n + 1))
    BY <1>6 DEF Scoped, Linked
  <2>5. (n + 1) - 1 = n
    BY <1>4
  <2> QED
    BY <1>7, <2>3, <2>4, <2>5
<1>10. Flat(t)'
  BY <1>1 DEF Scoped, Flat
<1>11. Depths(t)'
  <2>1. ASSUME NEW k \in 1 .. n
        PROVE  /\ Depth(t, k)' <= Len(stack[t])
               /\ IF t \in Roots THEN Depth(t, k)' \in {0, 2} ELSE Depth(t, k)' = 1
               /\ \A j \in 1 .. k : Depth(t, j)' <= Depth(t, k)'
    <3>1. /\ Depth(t, k) <= Len(stack[t])
          /\ IF t \in Roots THEN Depth(t, k) \in {0, 2} ELSE Depth(t, k) = 1
          /\ \A j \in 1 .. k : Depth(t, j) <= Depth(t, k)
      BY <1>6 DEF Scoped, Depths
    <3>2. \A j \in 1 .. k : j \in 1 .. n
      BY <1>4
    <3> QED
      BY <1>5, <3>1, <3>2
  <2> QED
    BY <1>1, <1>5, <2>1 DEF Depths
<1>12. Linked(t)'
  <2> SUFFICES ASSUME NEW k \in 1 .. n
               PROVE  link'[FrameAt(t, k)'] = Visible(t, k - 1, Depth(t, k))'
    BY <1>5 DEF Linked
  <2>1. k \in 1 .. Len(scopes[t]) /\ k - 1 \in 0 .. n
    BY <1>6
  <2>2. PICK e \in Nat : e = Depth(t, k)
    BY <2>1, ScopeFacts
  <2>3. link[FrameAt(t, k)] = Visible(t, k - 1, e)
    BY <2>1, <2>2 DEF Scoped, Linked
  <2>4. Visible(t, k - 1, e)' = Visible(t, k - 1, e)
    BY <1>8, <2>1
  <2>5. Visible(t, k - 1, Depth(t, k))' = Visible(t, k - 1, e)'
    BY <1>5, <2>2
  <2> QED
    BY <1>1, <1>5, <2>3, <2>4, <2>5
<1>13. HeadRight(t)'
  <2>1. Visible(t, n, d)' = Visible(t, n, d)
    BY <1>4, <1>8
  <2>2. Visible(t, Len(scopes[t]), Len(stack[t]))' = Visible(t, n, d)'
    BY <1>1, <1>4, <1>5
  <2> QED
    BY <1>9, <2>1, <2>2 DEF HeadRight
<1>14. Borrowed(t)'
  <2> SUFFICES ASSUME t \in Roots, stack[t] # <<>>
               PROVE  \E m \in Nat :
                        /\ m <= Len(scopes'[t])
                        /\ \A k \in 1 .. Len(scopes'[t]) : Depth(t, k)' = 0 <=> k <= m
                        /\ captured'[stack'[t][1][1]] = Visible(t, m, 0)'
    BY <1>1 DEF Borrowed
  <2>1. PICK m \in Nat : /\ m <= Len(scopes[t])
                         /\ \A k \in 1 .. Len(scopes[t]) : Depth(t, k) = 0 <=> k <= m
                         /\ captured[stack[t][1][1]] = Visible(t, m, 0)
    BY DEF Scoped, Borrowed
  <2>2. d # 0
    BY <1>4, StackFacts
  <2>3. m <= n
    <3>1. ~ (n + 1 <= m)
      BY <1>6, <1>7, <2>1, <2>2
    <3> QED
      BY <1>4, <3>1
  <2>4. \A k \in 1 .. n : Depth(t, k)' = 0 <=> k <= m
    BY <1>5, <1>6, <2>1
  <2>5. Visible(t, m, 0)' = Visible(t, m, 0)
    BY <1>8, <2>3
  <2> QED
    BY <1>1, <1>5, <2>1, <2>3, <2>4, <2>5
<1> QED
  BY <1>10, <1>11, <1>12, <1>13, <1>14 DEF Scoped

LEMMA PoolStepStays ==
  ASSUME PoolInv, ScopeTypes, Nested, OneForker, NEW t \in Threads, PoolStep(t),
         NEW u \in Threads
  PROVE  Scoped(u)'
<1>1. /\ Scoped(u) /\ Scoped(t) /\ UNCHANGED providerVars
      /\ stack \in [Threads -> Seq(Activation)]
      /\ DOMAIN pc = Threads /\ pc \in [Threads -> {"off", "idle", "cv", "user",
           "enqueue", "notifyPool", "check", "help", "block", "asleep", "start",
           "finish", "notifyCall"}]
  BY DEF Nested, PoolStep, PoolInv, Shape, Types
<1>2. ASSUME stack'[u] = stack[u], pc'[u] = "user" <=> pc[u] = "user"
      PROVE  Scoped(u)'
  BY <1>1, <1>2, UntouchedStays DEF providerVars
<1>3. CASE \/ Enqueue(t) \/ NotifyPool(t) \/ NotDone(t) \/ NothingToHelp(t)
           \/ WaitForCall(t) \/ WaitForTask(t) \/ SpuriousWake(t)
  <2>1. stack' = stack
    BY <1>3 DEF Enqueue, NotifyPool, NotDone, NothingToHelp, WaitForCall,
                WaitForTask, SpuriousWake
  <2>2. pc'[u] = "user" <=> pc[u] = "user"
    BY <1>1, <1>3 DEF Enqueue, NotifyPool, NotDone, NothingToHelp, WaitForCall,
                      WaitForTask, SpuriousWake
  <2> QED
    BY <1>2, <2>1, <2>2
<1>4. CASE Return(t)
  <2>1. CASE u = t
    BY <1>1, <1>4, <2>1, ReturnStays
  <2>2. CASE u # t
    BY <1>1, <1>2, <1>4, <2>2 DEF Return
  <2> QED
    BY <2>1, <2>2
<1>5. CASE TakeTask(t)
  <2>1. CASE u = t
    BY <1>1, <1>5, <2>1, TakeStays
  <2>2. CASE u # t
    BY <1>1, <1>2, <1>5, <2>2 DEF TakeTask
  <2> QED
    BY <2>1, <2>2
<1>6. CASE FinishTask(t)
  <2>1. CASE remaining[Top(t)[1]] = 1
    <3>1. stack' = stack /\ (pc'[u] = "user" <=> pc[u] = "user")
      BY <1>1, <1>6, <2>1 DEF FinishTask
    <3> QED
      BY <1>2, <3>1
  <2>2. CASE remaining[Top(t)[1]] # 1
    <3>1. /\ pc[t] = "finish" /\ pc' = [pc EXCEPT ![t] = ResumeAt(stack[t])]
          /\ Pops(t)
      BY <1>6, <2>2 DEF FinishTask, Pops
    <3>2. CASE u = t
      <4>1. pc[t] \in InTask /\ pc'[t] = ResumeAt(stack[t])
        BY <1>1, <3>1 DEF InTask
      <4> QED
        BY <1>1, <3>1, <3>2, <4>1, PopStays
    <3>3. CASE u # t
      BY <1>1, <1>2, <3>1, <3>3 DEF Pops
    <3> QED
      BY <3>2, <3>3
  <2> QED
    BY <2>1, <2>2
<1>7. CASE NotifyCall(t)
  <2>1. pc[t] = "notifyCall" /\ Pops(t)
    BY <1>7 DEF NotifyCall, Pops
  <2>2. CASE u = t
    <3>1. pc[t] \in InTask /\ pc'[t] = ResumeAt(stack[t])
      BY <1>1, <1>7, <2>1 DEF InTask, NotifyCall
    <3> QED
      BY <1>1, <2>1, <2>2, <3>1, PopStays
  <2>3. CASE u # t
    <3>1. pc'[u] = "user" <=> pc[u] = "user"
      BY <1>1, <1>7, <2>3 DEF NotifyCall
    <3>2. stack'[u] = stack[u]
      BY <1>1, <2>1, <2>3 DEF Pops
    <3> QED
      BY <1>2, <3>1, <3>2
  <2> QED
    BY <2>2, <2>3
<1> QED
  BY <1>3, <1>4, <1>5, <1>6, <1>7 DEF PoolStep

LEMMA NestedNext ==
  PoolInv /\ ScopeTypes /\ Nested /\ OneForker /\ [ProviderNext]_allVars => Nested'
<1> SUFFICES ASSUME PoolInv, ScopeTypes, Nested, OneForker, [ProviderNext]_allVars,
                    NEW u \in Threads
             PROVE  Scoped(u)'
  BY DEF Nested
<1>1. Scoped(u)
  BY DEF Nested
<1>2. CASE UNCHANGED allVars
  BY <1>1, <1>2, UntouchedStays DEF allVars, vars, providerVars
<1>3. CASE ProviderNext
  <2> PICK t \in Threads :
        \/ \E n \in Branch : Fork(t, n)
        \/ StartBranch(t)
        \/ EnterProvider(t)
        \/ LeaveProvider(t)
        \/ EndBranch(t)
        \/ PoolStep(t)
    BY <1>3 DEF ProviderNext
  <2>1. Scoped(t)
    BY DEF Nested
  <2>2. ASSUME NEW n \in Branch, Fork(t, n) PROVE Scoped(u)'
    <3>1. CASE u = t
      BY <2>1, <2>2, <3>1, ForkStays
    <3>2. CASE u # t
      <4>1. stack'[u] = stack[u] /\ (pc'[u] = "user" <=> pc[u] = "user")
        BY <2>2, <3>2 DEF Fork, ParRun, PoolInv, Shape, Types
      <4>2. \A c \in 1 .. ncalls : captured'[c] = captured[c]
        BY <2>2, ParPoolAssumption DEF Fork, PoolInv, Shape, Types, ScopeTypes, CallId
      <4>3. scopes' = scopes /\ head' = head /\ link' = link
        BY <2>2 DEF Fork
      <4> QED
        BY <1>1, <4>1, <4>2, <4>3, UntouchedStays
    <3> QED
      BY <3>1, <3>2
  <2>3. CASE StartBranch(t) \/ EndBranch(t)
    <3>1. CASE u = t
      BY <2>1, <2>3, <3>1, BranchStays
    <3>2. CASE u # t
      <4>1. stack'[u] = stack[u] /\ (pc'[u] = "user" <=> pc[u] = "user")
        BY <2>3, <3>2 DEF StartBranch, BeginTask, EndBranch, EndTask, PoolInv, Shape, Types
      <4>2. scopes' = scopes /\ head'[u] = head[u] /\ link' = link /\ captured' = captured
        BY <2>3, <3>2 DEF StartBranch, EndBranch, providerVars, ScopeTypes
      <4> QED
        BY <1>1, <4>1, <4>2, UntouchedStays
    <3> QED
      BY <3>1, <3>2
  <2>4. CASE EnterProvider(t)
    <3>1. CASE u = t
      BY <2>1, <2>4, <3>1, EnterStays
    <3>2. CASE u # t
      <4>1. stack' = stack /\ pc' = pc /\ captured' = captured
        BY <2>4 DEF EnterProvider, vars
      <4>2. scopes'[u] = scopes[u] /\ head'[u] = head[u]
        BY <2>4, <3>2 DEF EnterProvider, ScopeTypes
      <4>3. \A f \in LiveFrames : link'[f] = link[f]
        BY <2>4 DEF EnterProvider, ScopeTypes
      <4> QED
        BY <1>1, <4>1, <4>2, <4>3, UntouchedStays
    <3> QED
      BY <3>1, <3>2
  <2>5. CASE LeaveProvider(t)
    <3>1. CASE u = t
      BY <2>1, <2>5, <3>1, LeaveStays
    <3>2. CASE u # t
      <4>1. stack' = stack /\ pc' = pc /\ captured' = captured /\ link' = link
        BY <2>5 DEF LeaveProvider, vars
      <4>2. scopes'[u] = scopes[u] /\ head'[u] = head[u]
        BY <2>5, <3>2 DEF LeaveProvider, ScopeTypes
      <4> QED
        BY <1>1, <4>1, <4>2, UntouchedStays
    <3> QED
      BY <3>1, <3>2
  <2>6. CASE PoolStep(t)
    BY <2>6, PoolStepStays
  <2> QED
    BY <2>2, <2>3, <2>4, <2>5, <2>6
<1> QED
  BY <1>2, <1>3

LEMMA NestedInvariant ==
  ASSUME OneForker
  PROVE  ProviderSpec => [](PoolInv /\ ScopeTypes /\ Nested)
<1>1. PoolInv /\ ScopeTypes /\ Nested /\ [ProviderNext]_allVars => Nested'
  BY NestedNext
<1> QED
  BY <1>1, NestedInit, TypesInvariant, PTL DEF ProviderSpec

\* With par blocks that do not nest and one thread outside the pool, a resource
\* call resolves to the innermost with_provider around it, on every thread,
\* although nothing restores the head when a branch ends.
THEOREM LookupsLexical ==
  ASSUME OneForker
  PROVE  ProviderSpec => []LookupIsLexical
<1>1. ASSUME PoolInv, ScopeTypes, Nested PROVE LookupIsLexical
  <2> SUFFICES ASSUME NEW t \in Threads, pc[t] = "user"
      PROVE head[t] = IF OwnScopes(t) # {} THEN Innermost(t)
                      ELSE IF stack[t] = <<>> THEN NullFrame
                      ELSE captured[Top(t)[1]]
    BY DEF LookupIsLexical
  <2>1. Scoped(t)
    BY <1>1 DEF Nested
  <2>2. /\ Len(stack[t]) \in Nat /\ (stack[t] = <<>> <=> Len(stack[t]) = 0)
        /\ Len(scopes[t]) \in Nat
    BY <1>1, StackFacts, ScopeFacts
  <2>3. PICK n \in Nat, d \in Nat : n = Len(scopes[t]) /\ d = Len(stack[t])
    BY <2>2
  <2>4. head[t] = Visible(t, n, d)
    BY <2>1, <2>3 DEF Scoped, HeadRight
  <2>5. CASE OwnScopes(t) # {}
    <3>1. n # 0 /\ Depth(t, n) = d
      BY <1>1, <2>1, <2>3, <2>5, NoOwnScopes
    <3> QED
      BY <2>3, <2>4, <2>5, <3>1 DEF Visible, Innermost, FrameAt
  <2>6. CASE OwnScopes(t) = {}
    <3>1. \A k \in 1 .. n : Depth(t, k) # d
      BY <1>1, <2>1, <2>3, <2>6, NoOwnScopes
    <3>2. n # 0 => n \in 1 .. n
      BY <2>3
    <3>3. head[t] = Base(t, d)
      BY <2>4, <3>1, <3>2 DEF Visible
    <3> QED
      BY <2>2, <2>3, <2>6, <3>3 DEF Base, Top
  <2> QED
    BY <2>5, <2>6
<1> QED
  BY <1>1, NestedInvariant, PTL

(***************************************************************************)
(* The walk of karac_provider_lookup.                                      *)
(***************************************************************************)

\* Every set of frames closed under prev that holds f, holds the walk from f.
LEMMA WalkInside ==
  ASSUME NEW L \in SUBSET Frame, NEW f \in L \cup {NullFrame},
         \A g \in L : link[g] \in L \cup {NullFrame}
  PROVE  Walk(f) \subseteq L
BY DEF Walk

\* What a thread inherits is live: the head a call captured belongs to a body of
\* the root that stays open until the call returns.
LEMMA CapturedLive ==
  ASSUME ScopeTypes, Nested, NEW r \in Roots, stack[r] # <<>>
  PROVE  captured[stack[r][1][1]] \in LiveFrames \cup {NullFrame}
<1>1. r \in Threads /\ Scoped(r)
  BY DEF Threads, Nested
<1>2. PICK n \in Nat : /\ n <= Len(scopes[r])
                       /\ \A k \in 1 .. Len(scopes[r]) : Depth(r, k) = 0 <=> k <= n
                       /\ captured[stack[r][1][1]] = Visible(r, n, 0)
  BY <1>1 DEF Scoped, Borrowed
<1>3. CASE n = 0
  BY <1>2, <1>3 DEF Visible, Base
<1>4. CASE n # 0
  <2>1. n \in 1 .. Len(scopes[r])
    BY <1>1, <1>2, <1>4, ScopeFacts
  <2>2. Visible(r, n, 0) = FrameAt(r, n)
    BY <1>2, <1>4, <2>1 DEF Visible
  <2>3. FrameAt(r, n) \in LiveFrames
    BY <1>1, <2>1 DEF LiveFrames, FrameAt
  <2> QED
    BY <1>2, <2>2, <2>3
<1> QED
  BY <1>3, <1>4

LEMMA UserBaseLive ==
  ASSUME PoolInv, ScopeTypes, Nested, NEW t \in Threads, pc[t] = "user"
  PROVE  Base(t, Len(stack[t])) \in LiveFrames \cup {NullFrame}
<1>1. /\ Scoped(t) /\ Flat(t)
      /\ Len(stack[t]) \in Nat /\ (stack[t] = <<>> <=> Len(stack[t]) = 0)
      /\ IF t \in Roots THEN Len(stack[t]) \in {0, 2} ELSE Len(stack[t]) = 1
  BY StackFacts, Levels DEF Nested, Scoped
<1>2. CASE Len(stack[t]) = 0
  BY <1>2 DEF Base
<1>3. CASE Len(stack[t]) = 2
  <2>1. t \in Roots /\ stack[t] # <<>> /\ stack[t][2][1] = stack[t][1][1]
    BY <1>1, <1>3 DEF Flat
  <2>2. Base(t, 2) = captured[stack[t][1][1]]
    BY <2>1 DEF Base
  <2> QED
    BY <1>3, <2>1, <2>2, CapturedLive
<1>4. CASE Len(stack[t]) = 1
  <2>1. stack[t] # <<>> /\ 1 \in 1 .. Len(stack[t]) /\ Top(t) = stack[t][1] /\ t \notin Roots
    BY <1>1, <1>4 DEF Top
  <2>2. stack[t][1] \in Activation /\ ~ IsCall(stack[t][1])
    BY <2>1, StackFacts DEF PoolInv, Shape, PcFits
  <2>3. PICK x \in Task : x = stack[t][1]
    BY <2>2, TaskFacts
  <2>4. status[x] = "popped"
    <3>1. At(t, 1, x) /\ pc[t] # "notifyCall" /\ 1 \in Nat
      BY <2>1, <2>3 DEF At
    <3> QED
      BY <3>1 DEF PoolInv, Ownership, StatusPopped
  <2>5. PICK r \in Roots : stack[r] # <<>> /\ stack[r][1] = CallActivation(x[1])
    BY <2>4, CallOpen DEF Nested, Scoped
  <2>6. Base(t, 1) = captured[stack[r][1][1]]
    BY <2>3, <2>5 DEF Base, CallActivation
  <2> QED
    BY <1>4, <2>5, <2>6, CapturedLive
<1> QED
  BY <1>1, <1>2, <1>3, <1>4

\* A frame that is live is linked to one that is.
LEMMA LinksLive ==
  ASSUME PoolInv, ScopeTypes, Nested, NEW f \in LiveFrames
  PROVE  link[f] \in LiveFrames \cup {NullFrame}
<1>1. PICK t \in Threads : \E k \in 1 .. Len(scopes[t]) : f = FrameAt(t, k)
  BY DEF LiveFrames, FrameAt
<1> PICK k \in 1 .. Len(scopes[t]) : f = FrameAt(t, k)
  BY <1>1
<1>2. /\ Scoped(t) /\ Flat(t) /\ Len(scopes[t]) \in Nat /\ Len(stack[t]) \in Nat
      /\ link[f] = Visible(t, k - 1, Depth(t, k))
      /\ IF t \in Roots THEN Depth(t, k) \in {0, 2} ELSE Depth(t, k) = 1
      /\ Depth(t, k) <= Len(stack[t])
      /\ Depth(t, k) = Len(stack[t]) => pc[t] = "user"
      /\ IF t \in Roots THEN Len(stack[t]) <= 2 ELSE Len(stack[t]) <= 1
  BY ScopeFacts, StackFacts DEF Nested, Scoped, Linked, Depths, Flat
<1>3. Base(t, Depth(t, k)) \in LiveFrames \cup {NullFrame}
  <2>1. CASE Depth(t, k) = 0
    BY <2>1 DEF Base
  <2>2. CASE Depth(t, k) # 0
    <3>1. Depth(t, k) = Len(stack[t])
      BY <1>2, <2>2
    <3> QED
      BY <1>2, <3>1, UserBaseLive
  <2> QED
    BY <2>1, <2>2
<1>4. k - 1 # 0 => FrameAt(t, k - 1) \in LiveFrames
  <2>1. SUFFICES ASSUME k - 1 # 0 PROVE FrameAt(t, k - 1) \in LiveFrames
    OBVIOUS
  <2>2. k - 1 \in 1 .. Len(scopes[t])
    BY <1>2, <2>1
  <2> QED
    BY <2>2 DEF LiveFrames, FrameAt
<1> QED
  BY <1>2, <1>3, <1>4 DEF Visible

\* The same hypothesis: karac_provider_lookup walks frames whose with_provider
\* body is still open, on the thread that pushed them or, borrowed through a par
\* block, on any other.
THEOREM LookupsLive ==
  ASSUME OneForker
  PROVE  ProviderSpec => []LookupReadsLiveFrames
<1>1. ASSUME PoolInv, ScopeTypes, Nested PROVE LookupReadsLiveFrames
  <2> SUFFICES ASSUME NEW t \in Threads, pc[t] = "user"
               PROVE  Walk(head[t]) \subseteq LiveFrames
    BY DEF LookupReadsLiveFrames
  <2>1. LiveFrames \in SUBSET Frame
    <3>1. ASSUME NEW u \in Threads, NEW k \in 1 .. Len(scopes[u])
          PROVE  scopes[u][k][2] \in Frame
      BY <1>1, ScopeFacts DEF FrameAt
    <3> QED
      BY <3>1 DEF LiveFrames
  <2>2. \A g \in LiveFrames : link[g] \in LiveFrames \cup {NullFrame}
    BY <1>1, LinksLive
  <2>3. head[t] \in LiveFrames \cup {NullFrame}
    <3>1. PICK n \in Nat : n = Len(scopes[t])
      BY <1>1, ScopeFacts
    <3>2. head[t] = Visible(t, n, Len(stack[t]))
      BY <1>1, <3>1 DEF Nested, Scoped, HeadRight
    <3>3. n # 0 => FrameAt(t, n) \in LiveFrames
      <4>1. n # 0 => n \in 1 .. Len(scopes[t])
        BY <3>1
      <4> QED
        BY <4>1 DEF LiveFrames, FrameAt
    <3>4. Base(t, Len(stack[t])) \in LiveFrames \cup {NullFrame}
      BY <1>1, UserBaseLive
    <3> QED
      BY <3>2, <3>3, <3>4 DEF Visible
  <2> QED
    BY <1>1, <2>1, <2>2, <2>3, WalkInside
<1> QED
  BY <1>1, NestedInvariant, PTL
=============================================================================
