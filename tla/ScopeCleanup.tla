---------------------------- MODULE ScopeCleanup ----------------------------
(***************************************************************************)
(* What generated code does with the heap buffers of Vec and String        *)
(* locals.  The compiler keeps a stack of frames with the slots to clean   *)
(* up; a frame is emptied by code it emits where a loop body or a match    *)
(* arm ends, and all frames by the code before each return.  A slot owns   *)
(* its buffer if its capacity is not zero; a move zeroes the capacity of   *)
(* the slot moved from.                                                    *)
(*                                                                         *)
(* Compile emits the code of a function, a sequence of instructions        *)
(* <<operation, operand>> with relative jumps; the actions run it.         *)
(***************************************************************************)
EXTENDS Integers, Sequences, SequencesExt, TLC

CONSTANTS
  Functions,   \* the functions: [body, tail]
  MaxTurns     \* how many turns the loops of a function take together

VARIABLES
  prog,    \* the function
  code,    \* what Compile makes of it
  pc,      \* the instruction to run next, 0 after the return
  turns,   \* turns taken so far
  slots,   \* the values of the locals stored so far
  heap,    \* the buffers allocated so far, in order
  value,   \* the value of the expression at hand, in the end the result
  broken   \* a buffer was freed twice, or used after, or a slot read before its store

vars == <<prog, code, pc, turns, slots, heap, value, broken>>

-----------------------------------------------------------------------------
(* Emission.  `open` is false once the block at hand has a terminator.     *)

Emit(st, instructions) == [st EXCEPT !.code = @ \o instructions]

\* The code that follows is assembled apart.
Apart(st) == [st EXCEPT !.code = <<>>, !.open = TRUE]

PushFrame(st) == [st EXCEPT !.frames = Append(@, <<>>)]
PopFrame(st) == [st EXCEPT !.frames = Front(@)]

Track(st, slot) == [st EXCEPT !.frames = Front(@) \o <<Append(Last(@), slot)>>]

Frees(frame) == [i \in DOMAIN frame |-> <<"free", frame[i]>>]

DrainTopFrame(st) == PopFrame(Emit(st, Frees(Last(st.frames))))

\* Mutant of EmitScopeCleanup: only the innermost frame is cleaned up.
EmitScopeCleanupInnermost(st) == Emit(st, Frees(Last(st.frames)))

EmitScopeCleanup(st) == Emit(st, Frees(FlattenSeq(Reverse(st.frames))))

Return(st) == [Emit(EmitScopeCleanup(st), <<<<"return", 0>>>>) EXCEPT !.open = FALSE]

Bind(st, x) ==
  Emit([st EXCEPT !.slots = @ + 1, !.variables = (x :> st.slots + 1) @@ @],
       <<<<"store", st.slots + 1>>>>)

TrackLatest(st) == Track(st, st.slots)

Suppress(st, e) ==
  IF e.kind = "name" THEN Emit(st, <<<<"disown", st.variables[e.name]>>>>) ELSE st

\* The consumer of e owns the buffer now: the named slot, or the accumulator
\* of an interpolated string, does not.
Transfer(st, e, accumulator) ==
  IF e.kind = "fstring" THEN Emit(st, <<<<"disown", accumulator>>>>) ELSE Suppress(st, e)

\* Placeholders of jumps that leave c for `there`.
Resolve(c, placeholder, there) ==
  [i \in DOMAIN c |-> IF c[i][1] = placeholder THEN <<"jump", there - i>> ELSE c[i]]

\* The block that was assembled apart as `st` goes behind c.
Behind(c, st) == [st EXCEPT !.code = c \o @, !.open = TRUE]

Forked(c) == <<<<"fork", Len(c) + 1>>>> \o c

\* An interpolated string is put together in a slot of its own.
Interpolated(st, e) ==
  Emit(TrackLatest([st EXCEPT !.slots = @ + 1]),
       <<<<"call", 0>>, <<"store", st.slots + 1>>>>
       \o (IF e.name = "none" THEN <<>> ELSE <<<<"use", st.variables[e.name]>>>>)
       \o <<<<"load", st.slots + 1>>>>)

\* An arm that binds a payload receives a fresh buffer.
Matched(st, x) ==
  IF x = "none" THEN st ELSE TrackLatest(Bind(Emit(st, <<<<"call", 0>>>>), x))

LeaveArm(st, arm) ==
  Emit(DrainTopFrame(IF arm.body = <<>> THEN Suppress(st, arm.tail) ELSE st),
       <<<<"leave", 0>>>>)

LeaveLoop(st) ==
  IF ~st.open THEN PopFrame(st)
  ELSE LET d == DrainTopFrame(st) IN Emit(d, <<<<"jump", -(Len(d.code) + 1)>>>>)

Looping(c) ==
  LET turn == <<<<"turn", Len(c) + 1>>>> \o c
  IN  Resolve(Resolve(turn, "break", Len(turn) + 1), "continue", 1)

Alternatives(c, then, else) ==
  LET taken == IF then.open THEN <<<<"jump", Len(else.code) + 1>>>> ELSE <<>>
  IN  Behind(c \o Forked(then.code \o taken), else)

RECURSIVE Value(_, _), Block(_, _), Stmt(_, _)

\* The arms of a match, each assembled apart; the last one is not tested.
Arms(st, arms) ==
  LET body(s, arm) == Block(Matched(PushFrame(Apart(s)), arm.binds), arm.body)
      ended(s, arm) ==
        IF ~s.open THEN PopFrame(s)
        ELSE LeaveArm(IF arm.tail.kind = "none" THEN s ELSE Value(s, arm.tail), arm)
      arm(s, i) ==
        LET a == ended(body(s, arms[i]), arms[i])
        IN  Behind(s.code, IF i = Len(arms) THEN a ELSE [a EXCEPT !.code = Forked(@)])
  IN  FoldLeftDomain(arm, st, arms)

\* Code that leaves the value of e in `value`.
Value(st, e) ==
  CASE e.kind \in {"call", "literal"} -> Emit(st, <<<<e.kind, 0>>>>)
    [] e.kind = "name" -> Emit(st, <<<<"load", st.variables[e.name]>>>>)
    [] e.kind = "fstring" -> Interpolated(st, e)
    [] e.kind = "match" ->
         LET all == Arms(Apart(st), e.arms)
         IN  Behind(st.code, [all EXCEPT !.code = Resolve(@, "leave", Len(@) + 1)])

Block(st, stmts) ==
  FoldLeft(LAMBDA s, stmt : IF s.open THEN Stmt(s, stmt) ELSE s, st, stmts)

Stmt(st, stmt) ==
  CASE stmt.kind = "let" ->
         Transfer(TrackLatest(Bind(Value(st, stmt.value), stmt.name)),
                  stmt.value, st.slots + 1)
    [] stmt.kind = "assign" ->
         LET slot == st.variables[stmt.name]
             old == IF stmt.value.kind = "fstring" THEN <<<<"free", slot>>>> ELSE <<>>
         IN  Transfer(Emit(Value(st, stmt.value), old \o <<<<"store", slot>>>>),
                      stmt.value, st.slots + 1)
    [] stmt.kind = "push" ->
         Emit(Suppress(Value(st, stmt.value), stmt.value),
              <<<<"push", st.variables[stmt.name]>>>>)
    [] stmt.kind = "use" -> Emit(st, <<<<"use", st.variables[stmt.name]>>>>)
    [] stmt.kind = "do" -> Value(st, stmt.value)
    [] stmt.kind = "return" ->
         Return(IF stmt.value.kind = "none" THEN Emit(st, <<<<"literal", 0>>>>)
                ELSE Value(Suppress(st, stmt.value), stmt.value))
    [] stmt.kind = "try" ->
         Emit(st, Forked(Return(Emit(Apart(st), <<<<"literal", 0>>>>)).code))
    [] stmt.kind \in {"break", "continue"} ->
         [Emit(st, <<<<stmt.kind, 0>>>>) EXCEPT !.open = FALSE]
    [] stmt.kind = "if" ->
         LET else(then) == Alternatives(st.code, then, Block(Apart(then), stmt.else))
         IN  else(Block(Apart(st), stmt.body))
    [] stmt.kind = "loop" ->
         LET turning(s) == Behind(st.code, [s EXCEPT !.code = Looping(@)])
         IN  turning(LeaveLoop(Block(PushFrame(Apart(st)), stmt.body)))

\* A function: its body, its tail expression, the clean-up at its end.
Compile(f) ==
  LET entry == [code |-> <<>>, frames |-> <<<<>>>>, variables |-> <<>>, slots |-> 0,
                open |-> TRUE]
      ended(st) ==
        IF ~st.open THEN st
        ELSE Return(IF f.tail.kind = "none" THEN Emit(st, <<<<"literal", 0>>>>)
                    ELSE Transfer(Value(st, f.tail), f.tail, st.slots + 1))
  IN  ended(Block(entry, f.body)).code

-----------------------------------------------------------------------------
(* Execution.                                                              *)

Static == [buffer |-> 0, owned |-> FALSE]

Init ==
  /\ prog \in Functions
  /\ code = Compile(prog)
  /\ pc = 1
  /\ turns = 0
  /\ slots = <<>>
  /\ heap = <<>>
  /\ value = Static
  /\ broken = FALSE

Arg == code[pc][2]
At(operation) == pc # 0 /\ code[pc][1] = operation
Advance == pc' = pc + 1

Stored == Arg \in DOMAIN slots
Alive(b) == b = 0 \/ heap[b].live

\* The buffers freed with a value: its own and those of its elements.
Owned(v) ==
  LET elements == {e \in ToSet(heap[v.buffer].elements) : e.owned}
  IN  IF v.owned THEN {v.buffer} \cup {e.buffer : e \in elements} ELSE {}

\* A value computed by a call: a fresh buffer.
Call ==
  /\ At("call") /\ Advance
  /\ heap' = Append(heap, [live |-> TRUE, elements |-> <<>>])
  /\ value' = [buffer |-> Len(heap'), owned |-> TRUE]
  /\ UNCHANGED <<turns, slots, broken>>

Literal ==
  /\ At("literal") /\ Advance
  /\ value' = Static
  /\ UNCHANGED <<turns, slots, heap, broken>>

Load ==
  /\ At("load") /\ Advance
  /\ value' = IF Stored THEN slots[Arg] ELSE Static
  /\ broken' = (broken \/ ~Stored)
  /\ UNCHANGED <<turns, slots, heap>>

Store ==
  /\ At("store") /\ Advance
  /\ slots' = (Arg :> value) @@ slots
  /\ UNCHANGED <<turns, heap, value, broken>>

Disown ==
  /\ At("disown") /\ Advance
  /\ slots' = IF Stored THEN [slots EXCEPT ![Arg].owned = FALSE] ELSE slots
  /\ UNCHANGED <<turns, heap, value, broken>>

Free ==
  /\ At("free") /\ Advance
  /\ LET gone == IF Stored THEN Owned(slots[Arg]) ELSE {}
     IN  /\ broken' = (broken \/ ~Stored \/ \E b \in gone : ~Alive(b))
         /\ heap' = [b \in DOMAIN heap |->
                       IF b \in gone THEN [heap[b] EXCEPT !.live = FALSE] ELSE heap[b]]
  /\ UNCHANGED <<turns, slots, value>>

Use ==
  /\ At("use") /\ Advance
  /\ broken' = (broken \/ ~Stored \/ ~Alive(slots[Arg].buffer))
  /\ UNCHANGED <<turns, slots, heap, value>>

Push ==
  /\ At("push") /\ Advance
  /\ broken' = (broken \/ ~Stored \/ ~Alive(slots[Arg].buffer))
  /\ heap' = [heap EXCEPT ![slots[Arg].buffer].elements = Append(@, value)]
  /\ UNCHANGED <<turns, slots, value>>

Jump ==
  /\ At("jump")
  /\ pc' = pc + Arg
  /\ UNCHANGED <<turns, slots, heap, value, broken>>

\* A condition, a `?` or the test of an arm.
Fork ==
  /\ At("fork")
  /\ pc' \in {pc + 1, pc + Arg}
  /\ UNCHANGED <<turns, slots, heap, value, broken>>

Turn ==
  /\ At("turn")
  /\ \/ turns < MaxTurns /\ Advance /\ turns' = turns + 1
     \/ pc' = pc + Arg /\ UNCHANGED turns
  /\ UNCHANGED <<slots, heap, value, broken>>

Leave ==
  /\ At("return")
  /\ pc' = 0
  /\ UNCHANGED <<turns, slots, heap, value, broken>>

Next ==
  /\ UNCHANGED <<prog, code>>
  /\ \/ Call \/ Literal \/ Load \/ Store \/ Disown \/ Free \/ Use \/ Push
     \/ Jump \/ Fork \/ Turn \/ Leave

Spec == Init /\ [][Next]_vars

-----------------------------------------------------------------------------
(* No path through the function frees a buffer twice, touches a freed one, *)
(* or cleans up a local that was never stored, and what is alive after the *)
(* return is what the caller owns with the result.                         *)
BuffersFreedOnce ==
  /\ ~broken
  /\ pc = 0 => {b \in DOMAIN heap : heap[b].live} = Owned(value)
=============================================================================
