--------------------------- MODULE ProviderStack ---------------------------
(***************************************************************************)
(* The provider stack behind `with_provider[R](p, || body)`, on top of the *)
(* worker pool: karac_provider_push / pop / set_stack_head of              *)
(* src/runtime/src/lib.rs, as the code of compile_with_provider and of     *)
(* emit_par_branch_fn (src/src/codegen) calls them.                        *)
(*                                                                         *)
(* Each thread has one PROVIDER_STACK_HEAD.  A par block captures the      *)
(* head of its caller, and the prologue of each branch stores the captured *)
(* head on the thread that executes it, be it a worker or a waiting caller *)
(* that helps; nothing restores the head when the branch ends.             *)
(***************************************************************************)
EXTENDS ParPool

CONSTANTS
  MaxProviders,  \* bound: at most MaxProviders bodies are open at a time
  Nesting        \* may a branch contain a par block?

ASSUME ProviderStackAssumption ==
  /\ MaxProviders \in Nat
  /\ Nesting \in BOOLEAN
  /\ CanPanic = FALSE  \* the release profile, in which a panic aborts

\* The addresses of ProviderFrames; 0 is the null pointer.
Frame == 1 .. MaxProviders
NullFrame == 0

VARIABLES
  head,      \* per thread: PROVIDER_STACK_HEAD
  link,      \* per address: ProviderFrame.prev, as last stored there
  scopes,    \* per thread: its open with_provider bodies, the innermost last:
             \* <<depth of the activation that entered it, frame>>
  captured   \* per call: the head stored in the par block's environment

providerVars == <<head, link, scopes, captured>>
allVars == <<vars, providerVars>>

\* The open bodies the current activation of t entered itself.
OwnScopes(t) == {k \in 1 .. Len(scopes[t]) : scopes[t][k][1] = Len(stack[t])}
Innermost(t) == scopes[t][Len(scopes[t])][2]

\* The frames whose with_provider body is still open.
LiveFrames ==
  UNION {{scopes[t][k][2] : k \in 1 .. Len(scopes[t])} : t \in Threads}

ProviderInit ==
  /\ Init
  /\ head = [t \in Threads |-> NullFrame]
  /\ link = [f \in Frame |-> NullFrame]
  /\ scopes = [t \in Threads |-> <<>>]
  /\ captured = [c \in CallId |-> NullFrame]

\* emit_par_run: a par block of at least two statements reads the head into
\* its environment and calls karac_par_run.
Fork(t, n) ==
  /\ n >= 2
  /\ Nesting \/ stack[t] = <<>>
  /\ ParRun(t, n)
  /\ captured' = [captured EXCEPT ![ncalls + 1] = head[t]]
  /\ UNCHANGED <<head, link, scopes>>

\* Mutant of StartBranch: the prologue does not seed the head.
StartBranchUnseeded(t) ==
  /\ BeginTask(t)
  /\ UNCHANGED providerVars

\* The branch prologue: karac_provider_set_stack_head(captured head).
StartBranch(t) ==
  /\ BeginTask(t)
  /\ head' = [head EXCEPT ![t] = captured[Top(t)[1]]]
  /\ UNCHANGED <<link, scopes, captured>>

\* karac_provider_push, before the body of a with_provider.  Its frame has one
\* place in the stack frame of the function, which serves each time it is
\* entered, and a later function may use it again: any place will do that no
\* open body has.
EnterProvider(t) ==
  /\ pc[t] = "user"
  /\ \E f \in Frame \ LiveFrames :
       /\ link' = [link EXCEPT ![f] = head[t]]
       /\ head' = [head EXCEPT ![t] = f]
       /\ scopes' = [scopes EXCEPT ![t] = Append(@, <<Len(stack[t]), f>>)]
  /\ UNCHANGED <<captured, vars>>

\* karac_provider_pop, after it: the pop is given no frame, it unlinks the head.
LeaveProvider(t) ==
  /\ pc[t] = "user"
  /\ OwnScopes(t) # {}
  /\ head' = [head EXCEPT ![t] = IF @ = NullFrame THEN @ ELSE link[@]]
  /\ scopes' = [scopes EXCEPT ![t] = Pop(@)]
  /\ UNCHANGED <<link, captured, vars>>

\* A branch ends once its with_provider bodies have.
EndBranch(t) ==
  /\ EndTask(t, FALSE)
  /\ OwnScopes(t) = {}
  /\ UNCHANGED providerVars

\* The steps of the pool that do not touch the provider stack; without a panic
\* no task is skipped.
PoolStep(t) ==
  /\ \/ Enqueue(t)
     \/ NotifyPool(t)
     \/ Return(t)
     \/ NotDone(t)
     \/ NothingToHelp(t)
     \/ WaitForCall(t)
     \/ TakeTask(t)
     \/ WaitForTask(t)
     \/ SpuriousWake(t)
     \/ FinishTask(t)
     \/ NotifyCall(t)
  /\ UNCHANGED providerVars

ProviderNext ==
  \E t \in Threads :
    \/ \E n \in Branch : Fork(t, n)
    \/ StartBranch(t)
    \/ EnterProvider(t)
    \/ LeaveProvider(t)
    \/ EndBranch(t)
    \/ PoolStep(t)

ProviderSpec == ProviderInit /\ [][ProviderNext]_allVars

----------------------------------------------------------------------------
(* Properties *)

\* Every variable holds a value of its type.
ProviderTypeOK ==
  /\ TypeOK
  /\ head \in [Threads -> Frame \cup {NullFrame}]
  /\ link \in [Frame -> Frame \cup {NullFrame}]
  /\ \A t \in Threads : scopes[t] \in Seq(Nat \X Frame)
  /\ captured \in [CallId -> Frame \cup {NullFrame}]

\* The frames karac_provider_lookup reads on a thread whose head is f, if no
\* resource matches: those in every set that holds f and is closed under prev.
\* Behind a head that dangles the walk may come back to where it was.
Walk(f) ==
  {g \in Frame : \A S \in SUBSET Frame :
     f \in S \cup {NullFrame} /\ (\A h \in S : link[h] \in S \cup {NullFrame}) => g \in S}

\* A lookup dereferences live frames only, on whatever thread it runs: lib.rs
\* says that "frames don't deallocate until matching pops on the same thread".
LookupReadsLiveFrames ==
  \A t \in Threads : pc[t] = "user" => Walk(head[t]) \subseteq LiveFrames

\* A resource call resolves to the innermost with_provider around it: the
\* head is the frame this activation pushed last, else what its call captured.
LookupIsLexical ==
  \A t \in Threads : pc[t] = "user" =>
    head[t] = IF OwnScopes(t) # {} THEN Innermost(t)
              ELSE IF stack[t] = <<>> THEN NullFrame
              ELSE captured[Top(t)[1]]
=============================================================================
