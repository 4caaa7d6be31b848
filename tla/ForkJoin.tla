----------------------------- MODULE ForkJoin -----------------------------
(***************************************************************************)
(* What `par {}` promises (structured concurrency), with neither threads   *)
(* nor queue: a call forks branches, a branch may itself fork, a branch    *)
(* ends only after the calls made inside it have joined, and a call joins  *)
(* once all its branches have ended.  ParPool implements it.               *)
(***************************************************************************)
EXTENDS Naturals

CONSTANTS MaxCalls, MaxWidth

CallId == 1 .. MaxCalls
Branch == 1 .. MaxWidth
NoTask == <<0, 0>>

VARIABLES
  forked,     \* calls forked so far
  enclosing,  \* per call: the branch that made it, or NoTask
  pending,    \* per call: its branches that have not ended
  open        \* the calls that have not joined

vars == <<forked, enclosing, pending, open>>

Init ==
  /\ forked = 0
  /\ enclosing = [c \in CallId |-> NoTask]
  /\ pending = [c \in CallId |-> {}]
  /\ open = {}

\* Branches that may be running.
Live == {x \in open \X Branch : x[2] \in pending[x[1]]}

Fork(n, x) ==
  /\ forked < MaxCalls
  /\ forked' = forked + 1
  /\ enclosing' = [enclosing EXCEPT ![forked + 1] = x]
  /\ pending' = [pending EXCEPT ![forked + 1] = 1 .. n]
  /\ open' = open \cup {forked + 1}

End(x) ==
  /\ x \in Live
  /\ \A c \in open : enclosing[c] # x
  /\ pending' = [pending EXCEPT ![x[1]] = @ \ {x[2]}]
  /\ UNCHANGED <<forked, enclosing, open>>

Join(c) ==
  /\ c \in open
  /\ pending[c] = {}
  /\ open' = open \ {c}
  /\ UNCHANGED <<forked, enclosing, pending>>

Next ==
  \/ \E n \in Branch, x \in Live \cup {NoTask} : Fork(n, x)
  \/ \E x \in Live : End(x)
  \/ \E c \in open : Join(c)

Spec == Init /\ [][Next]_vars
=============================================================================
