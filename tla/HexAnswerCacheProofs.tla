------------------------ MODULE HexAnswerCacheProofs -------------------------
(***************************************************************************)
(* IInv is an invariant of HexAnswerCache, for every choice of programs,   *)
(* external atoms, operators, limit and bound: so every operand pointer an *)
(* operator has collected stays valid until the operator is applied, and   *)
(* the lock counters are exact. So are LimitInv and what reduceCache       *)
(* achieves.                                                               *)
(***************************************************************************)
EXTENDS HexAnswerCacheInvariant, FiniteSetTheorems, TLAPS

-----------------------------------------------------------------------------
(***************************************************************************)
(* What evaluating a program or applying an operator returns.              *)
(***************************************************************************)

\* The null pointer is not the answer of anything.
LEMMA NullNotAnswer == NULL \notin Answers
BY ProgramsAssumption DEF NULL, Answers

\* A program that has read the answers it inspects has an answer.
LEMMA EvaluateType ==
  ASSUME NEW p \in Programs,
         NEW seen \in [Exprs -> Answers \cup {NULL}],
         \A e \in Reads[p] : seen[e] # NULL
  PROVE  Evaluate(p, seen) \in Answers
<1>1. \A e \in Reads[p] : seen[e] \in SUBSET (SUBSET Atoms)
  BY UseAssumption DEF Answers
<1>2. Solutions[p] \in SUBSET (SUBSET Atoms)
  BY ProgramsAssumption DEF Answers
<1>3. UNION {UNION seen[e] : e \in Reads[p]} \subseteq Atoms
  BY <1>1
<1>4. QED
  BY <1>2, <1>3 DEF Evaluate, Answers

\* An operator that accepts its arguments returns an answer.
LEMMA ApplyType ==
  ASSUME NEW op \in Operators, NEW n \in Nat,
         NEW inputs \in [1 .. n -> Answers],
         NEW kv \in Seq(KeyValues), Accepts(op, n, kv)
  PROVE  Apply(op, inputs, kv) \in Answers
<1>1. ASSUME op \in BuiltIn
      PROVE  inputs[1] \in Answers /\ inputs[2] \in Answers
  <2>1. 1 \in 1 .. n /\ 2 \in 1 .. n
    BY <1>1 DEF Accepts
  <2>2. QED
    BY <2>1
<1>2. CASE op = "union"
  <2>1. OpUnion(inputs[1], inputs[2]) \in Answers
    BY <1>1, <1>2 DEF OpUnion, Answers, BuiltIn
  <2>2. QED
    BY <1>2, <2>1 DEF Apply
<1>3. CASE op = "setminus"
  <2>1. OpSetminus(inputs[1], inputs[2]) \in Answers
    BY <1>1, <1>3 DEF OpSetminus, Answers, BuiltIn
  <2>2. QED
    BY <1>3, <2>1 DEF Apply
<1>4. CASE op \notin BuiltIn
  <2>1. Contribution[op][Range(kv)] \in SUBSET (SUBSET Atoms)
    <3>1. op \in UserOperators
      BY <1>4 DEF Operators
    <3>2. Range(kv) \in SUBSET KeyValues
      BY DEF Range
    <3>3. QED
      BY <3>1, <3>2, OperatorsAssumption DEF Answers
  <2>2. UNION {UNION inputs[i] : i \in DOMAIN inputs} \subseteq Atoms
    <3>1. \A i \in DOMAIN inputs : inputs[i] \in SUBSET (SUBSET Atoms)
      BY DEF Answers
    <3>2. QED
      BY <3>1
  <2>3. UserOperator(op, inputs, kv) \in Answers
    BY <2>1, <2>2 DEF UserOperator, Answers
  <2>4. QED
    BY <1>4, <2>3 DEF Apply, BuiltIn
<1>5. QED
  BY <1>2, <1>3, <1>4 DEF BuiltIn

-----------------------------------------------------------------------------
(***************************************************************************)
(* The call stack.                                                         *)
(***************************************************************************)
\* A new frame is well typed.
LEMMA FrameType ==
  ASSUME NEW h \in Nat, NEW c,
         NEW caller \in {"main", "request", "read", "operand"},
         NEW e \in Exprs \cup {Nothing}
  PROVE  LoadFrame(h, c, caller, e) \in Frames
BY DEF LoadFrame, Frame, Frames

\* The stack is a non-empty sequence of frames.
LEMMA StackFacts ==
  ASSUME TypeOK
  PROVE  /\ Depth \in Nat /\ Depth >= 1
         /\ DOMAIN stack = 1 .. Depth
         /\ \A i \in 1 .. Depth : stack[i] \in Frames
         /\ Top \in Frames
BY DEF TypeOK, Depth, Top

\* Replacing the top frame leaves the frames below it alone.
LEMMA ReplaceFacts ==
  ASSUME TypeOK, NEW f \in Frames, Replace(f)
  PROVE  /\ stack' \in Seq(Frames) /\ stack' # <<>>
         /\ Depth' = Depth
         /\ \A i \in 1 .. Depth : stack'[i] = IF i = Depth THEN f ELSE stack[i]
         /\ Top' = f
BY DEF TypeOK, Depth, Top, Replace

\* The empty sequence is a sequence over any set.
LEMMA EmptySequence ==
  ASSUME NEW S
  PROVE  <<>> \in Seq(S)
OBVIOUS

\* A sequence and one more element.
LEMMA AppendFacts ==
  ASSUME NEW S, NEW s \in Seq(S), NEW x \in S, NEW u, u = Append(s, x)
  PROVE  /\ u \in Seq(S) /\ Len(u) = Len(s) + 1
         /\ \A i \in 1 .. Len(s) : u[i] = s[i]
         /\ u[Len(s) + 1] = x
OBVIOUS

\* Pushing a frame g after the top frame became f.
PushOver(f, g) == stack' = Append([stack EXCEPT ![Depth] = f], g)

LEMMA PushFacts ==
  ASSUME TypeOK, NEW f \in Frames, NEW g \in Frames, PushOver(f, g)
  PROVE  /\ stack' \in Seq(Frames) /\ stack' # <<>>
         /\ Depth' = Depth + 1
         /\ \A i \in 1 .. Depth : stack'[i] = IF i = Depth THEN f ELSE stack[i]
         /\ stack'[Depth + 1] = g
         /\ Top' = g
<1> DEFINE t == [stack EXCEPT ![Depth] = f]
<1>1. /\ t \in Seq(Frames) /\ Len(t) = Depth /\ Depth \in Nat
      /\ \A i \in 1 .. Depth : t[i] = IF i = Depth THEN f ELSE stack[i]
  BY DEF TypeOK, Depth
<1>2. stack' = Append(t, g)
  BY DEF PushOver
<1> HIDE DEF t
<1>3. /\ stack' \in Seq(Frames) /\ Len(stack') = Depth + 1
      /\ \A i \in 1 .. Depth : stack'[i] = t[i]
      /\ stack'[Depth + 1] = g
  <2>1. t \in Seq(Frames) /\ Len(t) = Depth /\ g \in Frames
    BY <1>1
  <2>2. Append(t, g) \in Seq(Frames)
    BY <2>1
  <2>21. stack' \in Seq(Frames)
    BY <2>2, <1>2
  <2>3. Len(stack') = Depth + 1
    BY <2>1, <1>2
  <2>4. \A i \in 1 .. Depth : stack'[i] = t[i]
    BY <2>1, <1>2
  <2>5. stack'[Depth + 1] = g
    BY <2>1, <1>2
  <2>6. QED
    BY <2>21, <2>3, <2>4, <2>5
<1>4. Depth' = Depth + 1 /\ Top' = g /\ stack' # <<>>
  BY <1>1, <1>3 DEF Depth, Top
<1>5. QED
  BY <1>1, <1>3, <1>4

\* The same, by positions.
LEMMA PushedFrames ==
  ASSUME TypeOK, NEW n \in Nat, n + 1 = Depth,
         NEW f \in Frames, NEW g \in Frames, PushOver(f, g)
  PROVE  /\ stack' \in Seq(Frames) /\ stack' # <<>>
         /\ Depth' = n + 2 /\ Top' = g
         /\ \A i \in 1 .. n : stack'[i] = stack[i]
         /\ stack'[n + 1] = f /\ stack'[n + 2] = g
<1>1. /\ stack' \in Seq(Frames) /\ stack' # <<>>
      /\ Depth' = Depth + 1
      /\ \A i \in 1 .. Depth : stack'[i] = IF i = Depth THEN f ELSE stack[i]
      /\ stack'[Depth + 1] = g
      /\ Top' = g
  BY PushFacts
<1>2. Depth + 1 = n + 2 /\ Depth = n + 1 /\ Depth \in Nat
  OBVIOUS
<1>3. n + 1 \in 1 .. Depth /\ \A i \in 1 .. n : i \in 1 .. Depth /\ i # Depth
  BY <1>2
<1>4. QED
  BY <1>1, <1>2, <1>3

\* Pushing over the frame that is on top already.
LEMMA PushOverTop ==
  ASSUME TypeOK, NEW g, Push(g)
  PROVE  PushOver(Top, g)
<1>1. stack \in Seq(Frames) /\ stack = [stack EXCEPT ![Depth] = Top]
  BY StackFacts DEF TypeOK, Top
<1>2. QED
  BY <1>1 DEF Push, PushOver

\* Returning into the frame below the top one, which becomes f.
LEMMA ReturnFacts ==
  ASSUME TypeOK, NEW f \in Frames, Depth > 1, ReturnInto(f)
  PROVE  /\ stack' \in Seq(Frames) /\ stack' # <<>>
         /\ Depth' = Depth - 1
         /\ \A i \in 1 .. Depth - 1 : stack'[i] = IF i = Depth - 1 THEN f ELSE stack[i]
         /\ Top' = f
<1>1. Depth - 1 \in Nat /\ Depth - 1 >= 1
  BY StackFacts
<1>2. stack' \in [1 .. Depth - 1 -> Frames]
  BY StackFacts, <1>1 DEF ReturnInto
<1>3. stack' \in Seq(Frames) /\ Len(stack') = Depth - 1
  BY <1>1, <1>2
<1>4. \A i \in 1 .. Depth - 1 : stack'[i] = IF i = Depth - 1 THEN f ELSE stack[i]
  BY DEF ReturnInto
<1>5. Depth' = Depth - 1 /\ stack' # <<>>
  BY <1>1, <1>3 DEF Depth
<1>6. Top' = f
  BY <1>1, <1>4, <1>5 DEF Top
<1>7. QED
  BY <1>3, <1>4, <1>5, <1>6

-----------------------------------------------------------------------------
(***************************************************************************)
(* Types of the programs and calls the actions refer to.                   *)
(***************************************************************************)
\* A frame that evaluates a program evaluates one of Programs.
LEMMA ProgramType ==
  ASSUME IInv, Top.pc = "evaluate"
  PROVE  ProgramOf(Top) \in Programs
<1>1. FrameWellFormed(Depth, stack[Depth])
  BY StackFacts DEF IInv, StackWellFormed
<1>2. Top = stack[Depth]
  BY DEF Top
<1>3. CASE Depth = 1
  BY <1>1, <1>2, <1>3, ProgramsAssumption DEF FrameWellFormed, ProgramOf
<1>4. CASE Depth # 1
  <2>1. Top.index \in Handles /\ IsProgram(calls[Top.index])
    BY <1>1, <1>2, <1>4 DEF FrameWellFormed
  <2>2. Top.index # Nowhere
    BY <2>1 DEF Handles, Nowhere, IInv, TypeOK
  <2>3. QED
    BY <2>1, <2>2 DEF ProgramOf, IInv, CallsWellFormed
<1>5. QED
  BY <1>3, <1>4

\* The call an external atom makes is a call on handles obtained before.
LEMMA CallType ==
  ASSUME IInv, Top.pc = "evaluate", NEW e \in Exprs, Ready(e)
  PROVE  LET c == CallOf(e, Top.got) IN
         /\ c \in Calls
         /\ IsProgram(c) => c.subject \in Programs /\ c.args = <<>>
         /\ ~IsProgram(c) =>
              /\ c.subject \in Operators
              /\ \A j \in DOMAIN c.args : c.args[j] \in 0 .. size - 1
<1> DEFINE b == Body[e]
           args == [i \in DOMAIN b.args |-> Top.got[b.args[i]]]
<1>1. b \in Bodies
  BY BodyAssumption
<1>2. /\ b.type \in CallTypes /\ b.subject \in Programs \cup Operators
      /\ b.args \in Seq(Exprs) /\ b.kv \in Seq(KeyValues)
  BY <1>1 DEF Bodies
<1>3. \A i \in DOMAIN b.args : b.args[i] \in Exprs /\ b.args[i] \in Range(b.args)
  BY <1>2 DEF Range
<1>4. FrameWellFormed(Depth, stack[Depth])
  BY StackFacts DEF IInv, StackWellFormed
<1>5. \A d \in Exprs : Top.got[d] \in Handles \cup {Nowhere}
  BY <1>4 DEF FrameWellFormed, Top
<1>6. \A i \in DOMAIN b.args : Top.got[b.args[i]] \in Handles
  BY <1>3, <1>5 DEF Ready
<1>7. size \in Nat
  BY DEF IInv, TypeOK
<1>8. \A i \in DOMAIN b.args : Top.got[b.args[i]] \in Nat
  BY <1>6, <1>7 DEF Handles
<1>9. args \in Seq(Nat)
  <2>1. Len(b.args) \in Nat /\ DOMAIN b.args = 1 .. Len(b.args)
    BY <1>2
  <2>2. args \in [1 .. Len(b.args) -> Nat]
    BY <1>8, <2>1
  <2>3. QED
    BY <2>1, <2>2
<1>10. CallOf(e, Top.got) = [b EXCEPT !.args = args]
  BY DEF CallOf
<1> HIDE DEF args
<1>11. CallOf(e, Top.got) = [type |-> b.type, subject |-> b.subject,
                              args |-> args, kv |-> b.kv]
  BY <1>1, <1>10 DEF Bodies
<1> HIDE DEF b
<1>12. ASSUME IsProgram(b)
       PROVE  b.subject \in Programs /\ args = <<>>
  <2>1. b.subject \in Programs /\ b.args = <<>>
    BY <1>12, BodyAssumption DEF b
  <2>2. QED
    BY <2>1 DEF args, b
<1>13. ASSUME ~IsProgram(b)
       PROVE  b.subject \in Operators /\ \A j \in DOMAIN args : args[j] \in 0 .. size - 1
  <2>1. b.subject \in Operators
    BY <1>13, BodyAssumption DEF b
  <2>2. QED
    BY <2>1, <1>6 DEF args, b, Handles
<1>14. QED
  BY <1>2, <1>9, <1>11, <1>12, <1>13 DEF IsProgram, Calls
-----------------------------------------------------------------------------
(***************************************************************************)
(* Steps that keep the entries: calls are never changed, answers are not   *)
(* deleted, new entries may be appended.                                   *)
(***************************************************************************)
Grows ==
  /\ size' \in Nat /\ size <= size'
  /\ \A h \in Handles : calls'[h] = calls[h]

Keeps == \A h \in Handles : answer[h] # NULL => answer'[h] # NULL

\* The handles below a greater bound are more.
LEMMA RangeGrows ==
  ASSUME NEW m \in Nat, NEW n \in Nat, m <= n
  PROVE  0 .. m - 1 \subseteq 0 .. n - 1
OBVIOUS

\* Handles are never given back.
LEMMA HandlesGrow ==
  ASSUME TypeOK, Grows
  PROVE  Handles \subseteq Handles'
<1>1. size \in Nat /\ size' \in Nat /\ size <= size'
  BY DEF Grows, TypeOK
<1>2. QED
  BY <1>1, RangeGrows DEF Handles

\* A frame that is well formed stays well formed, if it is not changed.
LEMMA FrameKept ==
  ASSUME TypeOK, Grows, NEW i \in Nat, NEW f \in Frames,
         FrameWellFormed(i, f), OperandsWellFormed(f)
  PROVE  /\ FrameWellFormed(i, f)'
         /\ OperandsWellFormed(f)'
         /\ f.pc \in {"operands", "release"} => ArgsOf(f)' = ArgsOf(f)
         /\ \A h : HeldBy(f, h)' = HeldBy(f, h)
<1>1. Handles \subseteq Handles'
  BY HandlesGrow
<1>2. f.index \in Handles => calls'[f.index] = calls[f.index]
  BY DEF Grows
<1>3. f.pc # "evaluate" => f.index \in Handles
  BY DEF FrameWellFormed
<1>4. FrameWellFormed(i, f)'
  <2>1. \A e \in Exprs : f.got[e] \in Handles' \cup {Nowhere}
    BY <1>1 DEF FrameWellFormed
  <2>2. CASE i = 1
    BY <2>1, <2>2 DEF FrameWellFormed
  <2>3. CASE i # 1
    BY <2>1, <2>3, <1>1, <1>2 DEF FrameWellFormed, IsProgram
  <2>4. QED
    BY <2>2, <2>3
<1>5. f.pc \in {"operands", "release"} => ArgsOf(f)' = ArgsOf(f)
  BY <1>2, <1>3 DEF ArgsOf
<1>6. OperandsWellFormed(f)'
  BY <1>5 DEF OperandsWellFormed
<1>7. \A h : HeldBy(f, h)' = HeldBy(f, h)
  BY <1>5 DEF HeldBy
<1>8. QED
  BY <1>4, <1>5, <1>6, <1>7

\* What a frame of the stack satisfies.
LEMMA FrameOfStack ==
  ASSUME IInv, NEW i \in 1 .. Depth
  PROVE  /\ stack[i] \in Frames
         /\ FrameWellFormed(i, stack[i])
         /\ OperandsWellFormed(stack[i])
         /\ i < Depth => FrameAbove(stack[i], stack[i + 1])
         /\ stack[i].pc = "operands" => OperandsValid(stack[i])
<1>1. i < Depth => i \in 1 .. Depth - 1
  BY StackFacts DEF IInv
<1>2. FrameWellFormed(i, stack[i]) /\ OperandsWellFormed(stack[i])
  BY DEF IInv, StackWellFormed
<1>3. i < Depth => FrameAbove(stack[i], stack[i + 1])
  BY <1>1 DEF IInv, StackWellFormed
<1>4. stack[i].pc = "operands" => OperandsValid(stack[i])
  BY DEF IInv, OperandsResident, Collecting
<1>5. QED
  BY <1>2, <1>3, <1>4, StackFacts DEF IInv

\* A frame waits for the frame above it, whatever is appended to the cache;
\* only the index and the caller of the latter matter.
LEMMA AboveKept ==
  ASSUME TypeOK, Grows, NEW i \in Nat, NEW f \in Frames, NEW g, NEW k,
         FrameWellFormed(i, f), OperandsWellFormed(f), FrameAbove(f, g),
         k.index = g.index, k.caller = g.caller
  PROVE  FrameAbove(f, k)'
<1>1. f.pc = "operands" => ArgsOf(f)' = ArgsOf(f)
  BY FrameKept
<1>2. QED
  BY <1>1 DEF FrameAbove

\* Collected operands stay valid while no answer is deleted.
LEMMA OperandsKept ==
  ASSUME IInv, Grows, Keeps, NEW i \in 1 .. Depth,
         NEW f, f = stack[i], f.pc = "operands"
  PROVE  OperandsValid(f)'
<1>2. /\ f \in Frames /\ FrameWellFormed(i, f) /\ OperandsWellFormed(f)
      /\ OperandsValid(f)
  BY FrameOfStack
<1>3. i \in Nat
  OBVIOUS
<1>4. ArgsOf(f)' = ArgsOf(f)
  BY <1>2, <1>3, FrameKept DEF IInv
<1>5. \A j \in 1 .. Len(f.operands) : f.operands[j] \in Handles
  <2>1. i # 1 /\ f.index \in Handles /\ ~IsProgram(calls[f.index])
    BY <1>2 DEF FrameWellFormed
  <2>2. \A j \in DOMAIN ArgsOf(f) : ArgsOf(f)[j] \in 0 .. f.index - 1
    BY <2>1 DEF IInv, CallsWellFormed, ArgsOf
  <2>3. Len(f.operands) \in Nat /\ f.locked \in Nat
    BY <1>2 DEF Frames
  <2>4. Len(f.operands) <= Len(ArgsOf(f))
    <3>1. ArgsOf(f) \in Seq(Nat)
      BY <2>1 DEF IInv, TypeOK, Calls, ArgsOf
    <3>2. QED
      BY <1>2, <2>3, <3>1 DEF OperandsWellFormed
  <2>5. ArgsOf(f) \in Seq(Nat)
    BY <2>1 DEF IInv, TypeOK, Calls, ArgsOf
  <2>6. \A j \in 1 .. Len(f.operands) : j \in DOMAIN ArgsOf(f)
    BY <2>3, <2>4, <2>5
  <2>7. \A j \in 1 .. Len(f.operands) : f.operands[j] \in 0 .. f.index - 1
    BY <2>2, <2>6, <1>2 DEF OperandsValid
  <2>8. size \in Nat
    BY DEF IInv, TypeOK
  <2>9. QED
    BY <2>1, <2>7, <2>8 DEF Handles
<1>6. \A j \in 1 .. Len(f.operands) : answer'[f.operands[j]] # NULL
  BY <1>2, <1>5 DEF Keeps, OperandsValid
<1>7. OperandsValid(f)'
  BY <1>2, <1>4, <1>6 DEF OperandsValid
<1>8. QED
  BY <1>7

-----------------------------------------------------------------------------
(***************************************************************************)
(* The three ways the stack changes, and what has to be shown of the       *)
(* frames that are new.                                                    *)
(***************************************************************************)
\* The well-formed frames of a prefix of the stack that does not change.
LEMMA PrefixKept ==
  ASSUME IInv, Grows, NEW n \in Nat, n <= Depth,
         \A i \in 1 .. n : stack'[i] = stack[i]
  PROVE  /\ \A i \in 1 .. n : FrameWellFormed(i, stack[i])' /\ OperandsWellFormed(stack[i])'
         /\ \A i \in 1 .. n - 1 : FrameAbove(stack[i], stack[i + 1])'
<1>1. \A i \in 1 .. n : i \in 1 .. Depth /\ i \in Nat
  BY StackFacts DEF IInv
<1>2. TypeOK
  BY DEF IInv
<1>3. ASSUME NEW i \in 1 .. n
      PROVE  FrameWellFormed(i, stack[i])' /\ OperandsWellFormed(stack[i])'
  <2>1. PICK f : f = stack[i]
    OBVIOUS
  <2>2. f \in Frames /\ FrameWellFormed(i, f) /\ OperandsWellFormed(f)
    BY <1>1, <2>1, FrameOfStack
  <2>3. FrameWellFormed(i, f)' /\ OperandsWellFormed(f)'
    BY <1>1, <1>2, <2>2, FrameKept
  <2>4. f = stack'[i]
    BY <2>1
  <2>5. QED
    BY <2>3, <2>4
<1>4. ASSUME NEW i \in 1 .. n - 1
      PROVE  FrameAbove(stack[i], stack[i + 1])'
  <2>1. i \in 1 .. n /\ i + 1 \in 1 .. n /\ i \in Nat /\ i < Depth
    BY StackFacts, <1>2
  <2>2. PICK f : f = stack[i]
    OBVIOUS
  <2>3. PICK g : g = stack[i + 1]
    OBVIOUS
  <2>4. i \in 1 .. Depth
    BY <1>1, <2>1
  <2>5. /\ f \in Frames /\ FrameWellFormed(i, f) /\ OperandsWellFormed(f)
        /\ FrameAbove(f, g)
    BY <2>1, <2>2, <2>3, <2>4, FrameOfStack
  <2>6. FrameAbove(f, g)'
    BY <1>2, <2>1, <2>5, AboveKept
  <2>7. f = stack'[i] /\ g = stack'[i + 1]
    BY <2>1, <2>2, <2>3
  <2>8. QED
    BY <2>6, <2>7
<1>5. QED
  BY <1>3, <1>4

\* The stack is well formed if the frames at its top are.
LEMMA StackFromTop ==
  ASSUME IInv, Grows, NEW n \in Nat, NEW f \in Frames, n + 1 <= Depth,
         \A i \in 1 .. n : stack'[i] = stack[i],
         stack'[n + 1] = f,
         f.index = stack[n + 1].index, f.caller = stack[n + 1].caller,
         FrameWellFormed(n + 1, f)', OperandsWellFormed(f)'
  PROVE  /\ \A i \in 1 .. n + 1 : FrameWellFormed(i, stack[i])' /\ OperandsWellFormed(stack[i])'
         /\ \A i \in 1 .. n : FrameAbove(stack[i], stack[i + 1])'
<1>1. n <= Depth /\ TypeOK
  BY StackFacts DEF IInv
<1>2. /\ \A i \in 1 .. n : FrameWellFormed(i, stack[i])' /\ OperandsWellFormed(stack[i])'
      /\ \A i \in 1 .. n - 1 : FrameAbove(stack[i], stack[i + 1])'
  BY <1>1, PrefixKept
<1>3. FrameWellFormed(n + 1, stack[n + 1])' /\ OperandsWellFormed(stack[n + 1])'
  OBVIOUS
<1>4. \A i \in 1 .. n + 1 : FrameWellFormed(i, stack[i])' /\ OperandsWellFormed(stack[i])'
  <2>1. \A i \in 1 .. n + 1 : i \in 1 .. n \/ i = n + 1
    OBVIOUS
  <2>2. QED
    BY <1>2, <1>3, <2>1
<1>5. ASSUME n \in 1 .. n
      PROVE  FrameAbove(stack[n], stack[n + 1])'
  <2>1. PICK k : k = stack[n]
    OBVIOUS
  <2>2. n \in 1 .. Depth /\ n < Depth
    BY <1>1, <1>5, StackFacts
  <2>3. /\ k \in Frames /\ FrameWellFormed(n, k) /\ OperandsWellFormed(k)
        /\ FrameAbove(k, stack[n + 1])
    BY <2>1, <2>2, FrameOfStack
  <2>4. FrameAbove(k, f)'
    BY <1>1, <2>3, AboveKept
  <2>5. k = stack'[n] /\ f = stack'[n + 1]
    BY <2>1, <1>5
  <2>6. QED
    BY <2>4, <2>5
<1>6. \A i \in 1 .. n : FrameAbove(stack[i], stack[i + 1])'
  <2>1. \A i \in 1 .. n : i \in 1 .. n - 1 \/ (i = n /\ n \in 1 .. n)
    OBVIOUS
  <2>2. QED
    BY <1>2, <1>5, <2>1
<1>7. QED
  BY <1>4, <1>6

\* The top frame makes progress.
LEMMA StackReplaced ==
  ASSUME IInv, Grows, NEW n \in Nat, n + 1 = Depth, NEW f \in Frames, Replace(f),
         f.index = Top.index, f.caller = Top.caller,
         FrameWellFormed(n + 1, f)', OperandsWellFormed(f)',
         f.pc = "operands" => f.locked = Len(f.operands)
  PROVE  StackWellFormed'
<1>1. TypeOK
  BY DEF IInv
<1>2. /\ Depth' = n + 1 /\ Top' = f
      /\ \A i \in 1 .. n : stack'[i] = stack[i]
      /\ stack'[n + 1] = f
  BY <1>1, ReplaceFacts
<1>3. f.index = stack[n + 1].index /\ f.caller = stack[n + 1].caller
  BY DEF Top
<1>4. n + 1 <= Depth
  OBVIOUS
<1>5. /\ \A i \in 1 .. n + 1 : FrameWellFormed(i, stack[i])' /\ OperandsWellFormed(stack[i])'
      /\ \A i \in 1 .. n : FrameAbove(stack[i], stack[i + 1])'
  BY <1>2, <1>3, <1>4, StackFromTop
<1>6. Depth' - 1 = n
  BY <1>2
<1>7. QED
  BY <1>2, <1>5, <1>6 DEF StackWellFormed

\* The top frame becomes f and calls load, whose frame is g.
LEMMA StackPushed ==
  ASSUME IInv, Grows, NEW n \in Nat, n + 1 = Depth, NEW f \in Frames, NEW g \in Frames,
         PushOver(f, g),
         f.index = Top.index, f.caller = Top.caller,
         FrameWellFormed(n + 1, f)', OperandsWellFormed(f)', FrameAbove(f, g)',
         FrameWellFormed(n + 2, g)', OperandsWellFormed(g)',
         g.pc = "operands" => g.locked = Len(g.operands)
  PROVE  StackWellFormed'
<1>1. TypeOK
  BY DEF IInv
<1>2. /\ Depth' = n + 2 /\ Top' = g
      /\ \A i \in 1 .. n : stack'[i] = stack[i]
      /\ stack'[n + 1] = f /\ stack'[n + 2] = g
  BY <1>1, PushedFrames
<1>3. f.index = stack[n + 1].index /\ f.caller = stack[n + 1].caller
  BY DEF Top
<1>4. n + 1 <= Depth
  OBVIOUS
<1>5. /\ \A i \in 1 .. n + 1 : FrameWellFormed(i, stack[i])' /\ OperandsWellFormed(stack[i])'
      /\ \A i \in 1 .. n : FrameAbove(stack[i], stack[i + 1])'
  BY <1>2, <1>3, <1>4, StackFromTop
<1>6. /\ FrameWellFormed(n + 2, stack[n + 2])' /\ OperandsWellFormed(stack[n + 2])'
      /\ FrameAbove(stack[n + 1], stack[n + 2])'
  BY <1>2
<1>7. \A i \in 1 .. n + 2 : FrameWellFormed(i, stack[i])' /\ OperandsWellFormed(stack[i])'
  <2>1. \A i \in 1 .. n + 2 : i \in 1 .. n + 1 \/ i = n + 2
    OBVIOUS
  <2>2. QED
    BY <1>5, <1>6, <2>1
<1>8. \A i \in 1 .. n + 1 : FrameAbove(stack[i], stack[i + 1])'
  <2>1. \A i \in 1 .. n + 1 : i \in 1 .. n \/ (i = n + 1 /\ i + 1 = n + 2)
    OBVIOUS
  <2>2. QED
    BY <1>5, <1>6, <2>1
<1>9. Depth' - 1 = n + 1
  BY <1>2
<1>10. QED
  BY <1>2, <1>7, <1>8, <1>9 DEF StackWellFormed

\* load returns to the frame below, which becomes f.
LEMMA StackReturned ==
  ASSUME IInv, Grows, NEW n \in Nat, n + 2 = Depth, NEW f \in Frames, ReturnInto(f),
         f.index = Parent.index, f.caller = Parent.caller,
         FrameWellFormed(n + 1, f)', OperandsWellFormed(f)',
         f.pc = "operands" => f.locked = Len(f.operands)
  PROVE  StackWellFormed'
<1>1. TypeOK
  BY DEF IInv
<1>2. /\ Depth' = n + 1 /\ Top' = f
      /\ \A i \in 1 .. n : stack'[i] = stack[i]
      /\ stack'[n + 1] = f
  <2>1. Depth > 1 /\ Depth - 1 = n + 1
    OBVIOUS
  <2>2. QED
    BY <1>1, <2>1, ReturnFacts
<1>3. f.index = stack[n + 1].index /\ f.caller = stack[n + 1].caller
  <2>1. Depth - 1 = n + 1
    OBVIOUS
  <2>2. QED
    BY <2>1 DEF Parent
<1>4. n + 1 <= Depth
  OBVIOUS
<1>5. /\ \A i \in 1 .. n + 1 : FrameWellFormed(i, stack[i])' /\ OperandsWellFormed(stack[i])'
      /\ \A i \in 1 .. n : FrameAbove(stack[i], stack[i + 1])'
  BY <1>2, <1>3, <1>4, StackFromTop
<1>6. Depth' - 1 = n
  BY <1>2
<1>7. QED
  BY <1>2, <1>5, <1>6 DEF StackWellFormed

-----------------------------------------------------------------------------
(***************************************************************************)
(* The operands that are held locked.                                      *)
(***************************************************************************)
\* What it is to be a holder, before and after a step.
LEMMA HoldersMember ==
  ASSUME NEW h
  PROVE  /\ \A x : x \in Holders(h) <=>
              \E i \in 1 .. Depth : \E j \in HeldBy(stack[i], h) : x = <<i, j>>
         /\ \A x : x \in Holders(h)' <=>
              \E i \in 1 .. Depth' : \E j \in HeldBy(stack[i], h)' : x = <<i, j>>
<1>1. \A x : x \in Holders(h) <=>
         \E i \in 1 .. Depth : \E j \in HeldBy(stack[i], h) : x = <<i, j>>
  BY DEF Holders
<1>2. \A x : x \in Holders(h)' <=>
         \E i \in 1 .. Depth' : \E j \in HeldBy(stack[i], h)' : x = <<i, j>>
  BY DEF Holders
<1>3. QED
  BY <1>1, <1>2

\* If only the frame at n + 1 changes what it holds, and frames above it come
\* and go holding nothing, then the other holders stay.
LEMMA HoldersChange ==
  ASSUME IInv, Grows, NEW h, NEW n \in Nat, n + 1 <= Depth,
         NEW m \in Nat, m = Depth', n + 1 <= m,
         \A i \in 1 .. n : stack'[i] = stack[i],
         \A i \in n + 2 .. Depth : HeldBy(stack[i], h) = {},
         \A i \in n + 2 .. m : HeldBy(stack[i], h)' = {}
  PROVE  /\ \A x : x \in Holders(h) <=>
              \/ \E i \in 1 .. n : \E j \in HeldBy(stack[i], h) : x = <<i, j>>
              \/ \E j \in HeldBy(stack[n + 1], h) : x = <<n + 1, j>>
         /\ \A x : x \in Holders(h)' <=>
              \/ \E i \in 1 .. n : \E j \in HeldBy(stack[i], h) : x = <<i, j>>
              \/ \E j \in HeldBy(stack[n + 1], h)' : x = <<n + 1, j>>
<1>1. TypeOK /\ Depth \in Nat
  BY StackFacts DEF IInv
<1>2. \A i \in 1 .. n : HeldBy(stack[i], h)' = HeldBy(stack[i], h)
  <2>1. SUFFICES ASSUME NEW i \in 1 .. n
                 PROVE  HeldBy(stack[i], h)' = HeldBy(stack[i], h)
    OBVIOUS
  <2>2. PICK f : f = stack[i]
    OBVIOUS
  <2>3. i \in 1 .. Depth /\ i \in Nat
    BY <1>1
  <2>4. f \in Frames /\ FrameWellFormed(i, f) /\ OperandsWellFormed(f)
    BY <2>2, <2>3, FrameOfStack
  <2>5. HeldBy(f, h)' = HeldBy(f, h)
    BY <1>1, <2>3, <2>4, FrameKept
  <2>6. f = stack'[i]
    BY <2>2
  <2>7. QED
    BY <2>2, <2>5, <2>6
<1>3. \A i \in 1 .. Depth : i \in 1 .. n \/ i = n + 1 \/ i \in n + 2 .. Depth
  BY <1>1
<1>4. \A i \in 1 .. m : i \in 1 .. n \/ i = n + 1 \/ i \in n + 2 .. m
  OBVIOUS
<1>5. /\ \A i \in 1 .. n : i \in 1 .. Depth /\ i \in 1 .. m
      /\ n + 1 \in 1 .. Depth /\ n + 1 \in 1 .. m
  BY <1>1
<1>6. \A x : x \in Holders(h) <=>
         \/ \E i \in 1 .. n : \E j \in HeldBy(stack[i], h) : x = <<i, j>>
         \/ \E j \in HeldBy(stack[n + 1], h) : x = <<n + 1, j>>
  BY <1>3, <1>5, HoldersMember
<1>7. \A x : x \in Holders(h)' <=>
         \/ \E i \in 1 .. n : \E j \in HeldBy(stack[i], h) : x = <<i, j>>
         \/ \E j \in HeldBy(stack[n + 1], h)' : x = <<n + 1, j>>
  BY <1>2, <1>4, <1>5, HoldersMember
<1>8. QED
  BY <1>6, <1>7

\* A step that changes neither what is held nor the locks of a handle.
LEMMA HoldersKept ==
  ASSUME IInv, Grows, NEW h \in Handles, NEW n \in Nat, n + 1 <= Depth,
         NEW m \in Nat, m = Depth', n + 1 <= m,
         \A i \in 1 .. n : stack'[i] = stack[i],
         \A i \in n + 2 .. Depth : HeldBy(stack[i], h) = {},
         \A i \in n + 2 .. m : HeldBy(stack[i], h)' = {},
         HeldBy(stack[n + 1], h)' = HeldBy(stack[n + 1], h),
         locks'[h] = locks[h]
  PROVE  IsFiniteSet(Holders(h))' /\ locks'[h] = Cardinality(Holders(h))'
<1>1. \A x : x \in Holders(h)' <=> x \in Holders(h)
  BY HoldersChange
<1>2. Holders(h)' = Holders(h)
  BY <1>1
<1>3. IsFiniteSet(Holders(h)) /\ locks[h] = Cardinality(Holders(h))
  BY DEF IInv, HoldersFinite, LocksCountHolders
<1>4. QED
  BY <1>2, <1>3

\* One operand more is held, and locked once more.
LEMMA HoldersAdd ==
  ASSUME IInv, Grows, NEW h \in Handles, NEW n \in Nat, n + 1 <= Depth,
         NEW m \in Nat, m = Depth', n + 1 <= m,
         \A i \in 1 .. n : stack'[i] = stack[i],
         \A i \in n + 2 .. Depth : HeldBy(stack[i], h) = {},
         \A i \in n + 2 .. m : HeldBy(stack[i], h)' = {},
         NEW k, k \notin HeldBy(stack[n + 1], h),
         HeldBy(stack[n + 1], h)' = HeldBy(stack[n + 1], h) \cup {k},
         locks'[h] = locks[h] + 1
  PROVE  IsFiniteSet(Holders(h))' /\ locks'[h] = Cardinality(Holders(h))'
<1> DEFINE below(x) == \E i \in 1 .. n : \E j \in HeldBy(stack[i], h) : x = <<i, j>>
<1>0. /\ \A x : x \in Holders(h) <=>
            below(x) \/ \E j \in HeldBy(stack[n + 1], h) : x = <<n + 1, j>>
      /\ \A x : x \in Holders(h)' <=>
            below(x) \/ \E j \in HeldBy(stack[n + 1], h)' : x = <<n + 1, j>>
  BY HoldersChange
<1>1. \A x : x \in Holders(h)' <=> x \in Holders(h) \/ x = <<n + 1, k>>
  <2> HIDE DEF below
  <2>1. QED
    BY <1>0
<1>2. Holders(h)' = Holders(h) \cup {<<n + 1, k>>}
  BY <1>1
<1>3. <<n + 1, k>> \notin Holders(h)
  <2>1. \A i \in 1 .. n : i # n + 1
    OBVIOUS
  <2>2. ~ below(<<n + 1, k>>)
    BY <2>1
  <2> HIDE DEF below
  <2>3. QED
    BY <2>2, <1>0
<1>4. IsFiniteSet(Holders(h)) /\ locks[h] = Cardinality(Holders(h))
  BY DEF IInv, HoldersFinite, LocksCountHolders
<1>5. /\ IsFiniteSet(Holders(h) \cup {<<n + 1, k>>})
      /\ Cardinality(Holders(h) \cup {<<n + 1, k>>}) = Cardinality(Holders(h)) + 1
  BY <1>3, <1>4, FS_AddElement
<1>6. QED
  BY <1>2, <1>4, <1>5

\* One operand is held no more, and unlocked once.
LEMMA HoldersRemove ==
  ASSUME IInv, Grows, NEW h \in Handles, NEW n \in Nat, n + 1 <= Depth,
         NEW m \in Nat, m = Depth', n + 1 <= m,
         \A i \in 1 .. n : stack'[i] = stack[i],
         \A i \in n + 2 .. Depth : HeldBy(stack[i], h) = {},
         \A i \in n + 2 .. m : HeldBy(stack[i], h)' = {},
         NEW k, k \in HeldBy(stack[n + 1], h),
         HeldBy(stack[n + 1], h)' = HeldBy(stack[n + 1], h) \ {k},
         locks'[h] = locks[h] - 1
  PROVE  IsFiniteSet(Holders(h))' /\ locks'[h] = Cardinality(Holders(h))'
<1> DEFINE below(x) == \E i \in 1 .. n : \E j \in HeldBy(stack[i], h) : x = <<i, j>>
<1>0. /\ \A x : x \in Holders(h) <=>
            below(x) \/ \E j \in HeldBy(stack[n + 1], h) : x = <<n + 1, j>>
      /\ \A x : x \in Holders(h)' <=>
            below(x) \/ \E j \in HeldBy(stack[n + 1], h)' : x = <<n + 1, j>>
  BY HoldersChange
<1>1. ~ below(<<n + 1, k>>)
  <2>1. \A i \in 1 .. n : i # n + 1
    OBVIOUS
  <2>2. QED
    BY <2>1
<1> HIDE DEF below
<1>2. \A x : x \in Holders(h)' <=> x \in Holders(h) /\ x # <<n + 1, k>>
  BY <1>0, <1>1
<1>3. Holders(h)' = Holders(h) \ {<<n + 1, k>>}
  BY <1>2
<1>4. <<n + 1, k>> \in Holders(h)
  BY <1>0
<1>5. IsFiniteSet(Holders(h)) /\ locks[h] = Cardinality(Holders(h))
  BY DEF IInv, HoldersFinite, LocksCountHolders
<1>6. /\ IsFiniteSet(Holders(h) \ {<<n + 1, k>>})
      /\ Cardinality(Holders(h) \ {<<n + 1, k>>}) = Cardinality(Holders(h)) - 1
  BY <1>4, <1>5, FS_RemoveElement
<1>7. QED
  BY <1>3, <1>5, <1>6

\* A collected operand is held, so its entry is locked.
LEMMA OperandLocked ==
  ASSUME IInv, NEW i \in 1 .. Depth, stack[i].pc = "operands",
         NEW j \in 1 .. stack[i].locked
  PROVE  ArgsOf(stack[i])[j] \in Handles /\ locks[ArgsOf(stack[i])[j]] # 0
<1> DEFINE f == stack[i]
           h == ArgsOf(f)[j]
<1>1. /\ f \in Frames /\ FrameWellFormed(i, f) /\ OperandsWellFormed(f)
      /\ f.pc = "operands"
  BY FrameOfStack
<1> HIDE DEF f
<1>2. i # 1 /\ f.index \in Handles /\ ~IsProgram(calls[f.index])
  BY <1>1 DEF FrameWellFormed
<1>3. \A k \in DOMAIN ArgsOf(f) : ArgsOf(f)[k] \in 0 .. f.index - 1
  BY <1>2 DEF IInv, CallsWellFormed, ArgsOf
<1>4. ArgsOf(f) \in Seq(Nat)
  BY <1>2 DEF IInv, TypeOK, Calls, ArgsOf
<1>5. j \in DOMAIN ArgsOf(f) /\ j \in f.released + 1 .. f.locked
  <2>1. f.locked \in Nat /\ f.released = 0 /\ f.locked <= Len(ArgsOf(f))
    BY <1>1 DEF Frames, OperandsWellFormed
  <2>2. j \in 1 .. f.locked
    BY DEF f
  <2>3. QED
    BY <2>1, <2>2, <1>4
<1>6. h \in Handles
  <2>1. h \in 0 .. f.index - 1
    BY <1>3, <1>5
  <2>2. size \in Nat
    BY DEF IInv, TypeOK
  <2>3. QED
    BY <1>2, <2>1, <2>2 DEF Handles
<1>7. j \in HeldBy(f, h)
  BY <1>1, <1>5 DEF HeldBy
<1>8. <<i, j>> \in Holders(h)
  BY <1>7, HoldersMember DEF f
<1>9. Cardinality(Holders(h)) # 0
  BY <1>6, <1>8, FS_EmptySet DEF IInv, HoldersFinite
<1>10. QED
  BY <1>6, <1>9 DEF IInv, LocksCountHolders, f

-----------------------------------------------------------------------------
(***************************************************************************)
(* The parts of IInv that most steps keep for the same reason.             *)
(***************************************************************************)
\* The top frame, and the position below it.
LEMMA TopFacts ==
  ASSUME IInv
  PROVE  /\ Top \in Frames
         /\ \E n \in Nat : n + 1 = Depth /\ FrameWellFormed(n + 1, Top)
         /\ OperandsWellFormed(Top)
         /\ Top.pc = "operands" => OperandsValid(Top) /\ Top.locked = Len(Top.operands)
<1>1. Depth \in Nat /\ Depth >= 1
  BY StackFacts DEF IInv
<1>2. Depth \in 1 .. Depth /\ Depth - 1 \in Nat /\ (Depth - 1) + 1 = Depth
  BY <1>1
<1>3. /\ Top \in Frames /\ FrameWellFormed(Depth, Top) /\ OperandsWellFormed(Top)
      /\ Top.pc = "operands" => OperandsValid(Top)
  BY <1>2, FrameOfStack DEF Top
<1>4. Top.pc = "operands" => Top.locked = Len(Top.operands)
  BY DEF IInv, StackWellFormed
<1>5. QED
  BY <1>2, <1>3, <1>4

\* Every operand that has been collected stays collected and valid.
LEMMA OperandsResidentKept ==
  ASSUME IInv, Grows, Keeps, NEW m \in Nat, m = Depth',
         NEW n \in Nat, n <= Depth, \A i \in 1 .. n : stack'[i] = stack[i],
         \A i \in n + 1 .. m : stack'[i].pc = "operands" => OperandsValid(stack[i])'
  PROVE  OperandsResident'
<1>1. Depth \in Nat
  BY StackFacts DEF IInv
<1>2. ASSUME NEW i \in 1 .. n, stack'[i].pc = "operands"
      PROVE  OperandsValid(stack[i])'
  <2>1. PICK f : f = stack[i]
    OBVIOUS
  <2>2. f.pc = "operands" /\ i \in 1 .. Depth /\ f = stack'[i]
    BY <1>1, <1>2, <2>1
  <2>3. OperandsValid(f)'
    BY <2>1, <2>2, OperandsKept
  <2>4. QED
    BY <2>2, <2>3
<1>3. \A i \in 1 .. m : i \in 1 .. n \/ i \in n + 1 .. m
  OBVIOUS
<1>4. QED
  BY <1>2, <1>3 DEF OperandsResident, Collecting

\* A step that changes no call, no stack and no lock.
LEMMA StackUnchanged ==
  ASSUME IInv, UNCHANGED <<size, calls, locks, stack>>
  PROVE  CallsWellFormed' /\ StackWellFormed' /\ HoldersFinite' /\ LocksCountHolders'
<1>1. CallsWellFormed'
  BY DEF IInv, CallsWellFormed, Handles, IsProgram
<1>2. StackWellFormed'
  BY DEF IInv, StackWellFormed, FrameWellFormed, OperandsWellFormed, FrameAbove,
         Handles, IsProgram, ArgsOf, Top, Depth
<1>3. \A h : Holders(h)' = Holders(h)
  BY DEF Holders, HeldBy, ArgsOf, Depth
<1>4. HoldersFinite' /\ LocksCountHolders'
  BY <1>3 DEF IInv, HoldersFinite, LocksCountHolders, Handles
<1>5. QED
  BY <1>1, <1>2, <1>4

\* If it changes no answer either, the operands stay resident.
LEMMA AnswersUnchanged ==
  ASSUME IInv, UNCHANGED <<calls, answer, stack>>
  PROVE  OperandLoaded' /\ OperandsResident'
<1>1. OperandLoaded'
  BY DEF IInv, OperandLoaded, Top, Depth
<1>2. OperandsResident'
  BY DEF IInv, OperandsResident, Collecting, OperandsValid, ArgsOf, Depth
<1>3. QED
  BY <1>1, <1>2

\* No search goes on unless reduceCache runs.
LEMMA ScanIdle ==
  ASSUME ~Running("reduce")'
  PROVE  ScanWellFormed'
BY DEF ScanWellFormed

\* The top frame has become f: what is left to be shown of it.
LEMMA TopReplaced ==
  ASSUME IInv, TypeOK', size' = size, calls' = calls, locks' = locks, Keeps,
         NEW n \in Nat, n + 1 = Depth, NEW f \in Frames, Replace(f),
         f.index = Top.index, f.caller = Top.caller,
         FrameWellFormed(n + 1, f), OperandsWellFormed(f),
         \A h : HeldBy(f, h) = HeldBy(Top, h),
         f.pc # "operands"
  PROVE  /\ CallsWellFormed' /\ StackWellFormed'
         /\ HoldersFinite' /\ LocksCountHolders' /\ OperandsResident'
<1>1. TypeOK /\ size \in Nat
  BY DEF IInv, TypeOK
<1>2. Grows
  BY <1>1 DEF Grows
<1>3. FrameWellFormed(n + 1, f)' /\ OperandsWellFormed(f)' /\ \A h : HeldBy(f, h)' = HeldBy(f, h)
  BY <1>1, <1>2, FrameKept
<1>4. CallsWellFormed'
  BY DEF IInv, CallsWellFormed, Handles, IsProgram
<1>5. StackWellFormed'
  BY <1>2, <1>3, StackReplaced
<1>6. /\ Depth' = n + 1 /\ Depth \in Nat /\ Top = stack[n + 1]
      /\ \A i \in 1 .. n : stack'[i] = stack[i]
      /\ stack'[n + 1] = f
  BY <1>1, ReplaceFacts DEF Top
<1>7. ASSUME NEW h \in Handles
      PROVE  IsFiniteSet(Holders(h))' /\ locks'[h] = Cardinality(Holders(h))'
  <2>1. HeldBy(stack[n + 1], h)' = HeldBy(stack[n + 1], h)
    BY <1>3, <1>6
  <2>2. n + 2 .. Depth = {} /\ n + 2 .. n + 1 = {} /\ n + 1 \in Nat
    OBVIOUS
  <2>3. QED
    BY <1>2, <1>6, <2>1, <2>2, HoldersKept
<1>8. HoldersFinite' /\ LocksCountHolders'
  BY <1>7 DEF HoldersFinite, LocksCountHolders, Handles
<1>9. OperandsResident'
  <2>1. \A i \in n + 1 .. n + 1 : i = n + 1
    OBVIOUS
  <2>2. n <= Depth /\ n + 1 \in Nat
    OBVIOUS
  <2>3. QED
    BY <1>2, <1>6, <2>1, <2>2, OperandsResidentKept
<1>10. QED
  BY <1>4, <1>5, <1>8, <1>9

-----------------------------------------------------------------------------
(***************************************************************************)
(* One lemma per action.                                                   *)
(***************************************************************************)
\* The evaluation ends, with or without an exception.
LEMMA EndStep ==
  ASSUME IInv, FinishMain \/ EvaluationThrows \/ OperatorThrows
  PROVE  IInv'
<1>1. /\ UNCHANGED <<size, calls, answer, locks, accessCounter, elementsInCache,
                     stack, scan, repeats>>
      /\ status' \in {"done", "failed"}
  BY DEF FinishMain, EvaluationThrows, OperatorThrows
<1>2. TypeOK'
  BY <1>1 DEF IInv, TypeOK, Handles
<1>3. ScanWellFormed'
  BY <1>1, ScanIdle DEF Running
<1>4. QED
  BY <1>1, <1>2, <1>3, StackUnchanged, AnswersUnchanged DEF IInv

\* The frames of programs in evaluation, with new handles and answers.
LEMMA ProgramFrame ==
  ASSUME IInv, Running("evaluate"), NEW f \in Frames, NEW n \in Nat, n + 1 = Depth,
         f.index = Top.index, f.caller = Top.caller, f.want = Top.want,
         f.pc = "evaluate",
         \A e \in Exprs : f.got[e] \in Handles \cup {Nowhere}
  PROVE  /\ FrameWellFormed(n + 1, f) /\ OperandsWellFormed(f)
         /\ \A h : HeldBy(f, h) = HeldBy(Top, h)
<1>1. FrameWellFormed(n + 1, Top) /\ Top.pc = "evaluate"
  BY TopFacts DEF Running
<1>2. QED
  BY <1>1 DEF FrameWellFormed, OperandsWellFormed, HeldBy

LEMMA RequestFoundStep ==
  ASSUME IInv, NEW e \in Exprs, RequestFound(e)
  PROVE  IInv'
<1>1. PICK h \in Handles : Replace([Top EXCEPT !.got[e] = h])
  BY DEF RequestFound
<1>2. PICK n \in Nat : n + 1 = Depth /\ FrameWellFormed(n + 1, Top)
  BY TopFacts
<1> DEFINE f == [Top EXCEPT !.got[e] = h]
<1>3. h \in Nat /\ size \in Nat
  BY DEF IInv, TypeOK, Handles
<1>4. /\ f \in Frames /\ f.index = Top.index /\ f.caller = Top.caller
      /\ f.want = Top.want /\ f.pc = Top.pc
      /\ f.got = [Top.got EXCEPT ![e] = h]
      /\ Top.got \in [Exprs -> Nat \cup {Nowhere}]
  BY <1>3, TopFacts DEF Frames
<1>5. Replace(f)
  BY <1>1
<1> HIDE DEF f
<1>6. \A d \in Exprs : f.got[d] \in Handles \cup {Nowhere}
  BY <1>2, <1>4 DEF FrameWellFormed
<1>7. Running("evaluate") /\ UNCHANGED <<size, calls, answer, locks, accessCounter,
                                         elementsInCache, scan, status>>
      /\ Again(Top.got[e] # Nowhere)
  BY DEF RequestFound
<1>8. f.pc = "evaluate"
  BY <1>4, <1>7 DEF Running
<1>9. TypeOK /\ repeats' \in Nat
  BY <1>7 DEF IInv, TypeOK, Again
<1>10. TypeOK'
  BY <1>4, <1>5, <1>7, <1>9, ReplaceFacts DEF TypeOK, Handles
<1>11. FrameWellFormed(n + 1, f) /\ OperandsWellFormed(f) /\ \A k : HeldBy(f, k) = HeldBy(Top, k)
  BY <1>2, <1>4, <1>6, <1>7, <1>8, ProgramFrame
<1>12. Keeps
  BY <1>7 DEF Keeps
<1>13. /\ CallsWellFormed' /\ StackWellFormed'
       /\ HoldersFinite' /\ LocksCountHolders' /\ OperandsResident'
  BY <1>2, <1>4, <1>5, <1>7, <1>8, <1>10, <1>11, <1>12, TopReplaced
<1>14. Top' = f
  BY <1>4, <1>5, <1>9, ReplaceFacts
<1>15. ScanWellFormed' /\ OperandLoaded'
  BY <1>8, <1>14, ScanIdle DEF Running, OperandLoaded
<1>16. QED
  BY <1>10, <1>13, <1>15 DEF IInv

\* access() counts every entry, also for an index of none.
LEMMA AccessType ==
  ASSUME TypeOK, size' = size, NEW h, Access(h)
  PROVE  accessCounter' \in [Handles' -> Nat]
BY DEF TypeOK, Access, Handles

LEMMA ReadResidentStep ==
  ASSUME IInv, NEW e \in Exprs, ReadResident(e)
  PROVE  IInv'
<1>1. PICK a : a = answer[Top.got[e]]
  OBVIOUS
<1>2. PICK n \in Nat : n + 1 = Depth /\ FrameWellFormed(n + 1, Top)
  BY TopFacts
<1>3. a \in Answers \cup {NULL}
  BY <1>1 DEF ReadResident, Readable, IInv, TypeOK
<1> DEFINE f == [Top EXCEPT !.seen[e] = a]
<1>4. /\ f \in Frames /\ f.index = Top.index /\ f.caller = Top.caller
      /\ f.want = Top.want /\ f.pc = Top.pc /\ f.got = Top.got
  BY <1>3, TopFacts DEF Frames
<1>5. Replace(f)
  BY <1>1 DEF ReadResident
<1> HIDE DEF f
<1>6. \A d \in Exprs : f.got[d] \in Handles \cup {Nowhere}
  BY <1>2, <1>4 DEF FrameWellFormed
<1>7. /\ Running("evaluate")
      /\ UNCHANGED <<size, calls, answer, locks, elementsInCache, scan, status>>
      /\ Again(Top.seen[e] # NULL)
      /\ Access(Top.got[e])
  BY DEF ReadResident, Readable
<1>8. f.pc = "evaluate"
  BY <1>4, <1>7 DEF Running
<1>9. TypeOK /\ repeats' \in Nat /\ accessCounter' \in [Handles' -> Nat]
  BY <1>7, AccessType DEF IInv, TypeOK, Again
<1>10. TypeOK'
  BY <1>4, <1>5, <1>7, <1>9, ReplaceFacts DEF TypeOK, Handles
<1>11. FrameWellFormed(n + 1, f) /\ OperandsWellFormed(f) /\ \A k : HeldBy(f, k) = HeldBy(Top, k)
  BY <1>2, <1>4, <1>6, <1>7, <1>8, ProgramFrame
<1>12. Keeps
  BY <1>7 DEF Keeps
<1>13. /\ CallsWellFormed' /\ StackWellFormed'
       /\ HoldersFinite' /\ LocksCountHolders' /\ OperandsResident'
  BY <1>2, <1>4, <1>5, <1>7, <1>8, <1>10, <1>11, <1>12, TopReplaced
<1>14. Top' = f
  BY <1>4, <1>5, <1>9, ReplaceFacts
<1>15. ScanWellFormed' /\ OperandLoaded'
  BY <1>8, <1>14, ScanIdle DEF Running, OperandLoaded
<1>16. QED
  BY <1>10, <1>13, <1>15 DEF IInv

\* The operand pointers the operator dereferences point to answers.
LEMMA OperandsAreAnswers ==
  ASSUME IInv, Collected
  PROVE  [i \in DOMAIN Top.operands |-> answer[Top.operands[i]]]
           \in [1 .. Len(ArgsOf(Top)) -> Answers]
<1>1. Top \in Frames /\ OperandsValid(Top) /\ Top.locked = Len(Top.operands)
  BY TopFacts DEF Collected, Running
<1>2. Depth \in 1 .. Depth /\ stack[Depth] = Top /\ stack[Depth].pc = "operands"
  BY StackFacts DEF IInv, Collected, Running, Top
<1>3. DOMAIN Top.operands = 1 .. Len(ArgsOf(Top))
  BY <1>1 DEF Collected, Frames
<1>4. \A i \in 1 .. Len(ArgsOf(Top)) : Top.operands[i] \in Handles
  BY <1>1, <1>2, OperandLocked DEF Collected, OperandsValid
<1>5. \A i \in 1 .. Len(ArgsOf(Top)) : answer[Top.operands[i]] \in Answers
  BY <1>1, <1>4 DEF Collected, OperandsValid, IInv, TypeOK
<1>6. QED
  BY <1>3, <1>5

LEMMA ApplyOperatorStep ==
  ASSUME IInv, ApplyOperator
  PROVE  IInv'
<1> DEFINE c == calls[Top.index]
           inputs == [i \in DOMAIN Top.operands |-> answer[Top.operands[i]]]
<1>1. PICK r : r = Apply(c.subject, inputs, c.kv)
  OBVIOUS
<1>2. PICK n \in Nat : n + 1 = Depth /\ FrameWellFormed(n + 1, Top)
  BY TopFacts
<1>3. /\ Running("operands") /\ Len(Top.operands) = Len(ArgsOf(Top))
      /\ Collected /\ Accepts(c.subject, Len(c.args), c.kv)
      /\ UNCHANGED <<size, calls, answer, locks, accessCounter, elementsInCache,
                     scan, status, repeats>>
  BY DEF ApplyOperator, Collected
<1>4. Top.pc = "operands" /\ Top.index \in Handles /\ ~IsProgram(c) /\ n + 1 # 1
  BY <1>2, <1>3 DEF FrameWellFormed, Running
<1>5. c \in Calls /\ c.subject \in Operators
  BY <1>4 DEF IInv, TypeOK, CallsWellFormed
<1>6. r \in Answers
  <2>1. inputs \in [1 .. Len(c.args) -> Answers]
    BY <1>3, OperandsAreAnswers DEF ArgsOf
  <2>2. Len(c.args) \in Nat /\ c.kv \in Seq(KeyValues)
    BY <1>5 DEF Calls
  <2>3. QED
    BY <1>1, <1>3, <1>5, <2>1, <2>2, ApplyType
<1> DEFINE f == [Top EXCEPT !.pc = "release", !.result = r]
<1>7. Replace(f)
  BY <1>1 DEF ApplyOperator
<1>8. /\ f \in Frames /\ f.index = Top.index /\ f.caller = Top.caller
      /\ f.want = Top.want /\ f.pc = "release" /\ f.got = Top.got
      /\ f.locked = Top.locked /\ f.released = Top.released /\ f.result = r
  BY <1>6, TopFacts DEF Frames
<1> HIDE DEF f, c, inputs
<1>9. TypeOK
  BY DEF IInv
<1>10. TypeOK'
  BY <1>3, <1>7, <1>8, <1>9, ReplaceFacts DEF TypeOK, Handles
<1>11. FrameWellFormed(n + 1, f)
  BY <1>2, <1>4, <1>8 DEF FrameWellFormed, c
<1>12. OperandsWellFormed(f) /\ \A k : HeldBy(f, k) = HeldBy(Top, k)
  <2>1. /\ Top.released = 0 /\ Top.locked = Len(Top.operands)
        /\ Top.locked \in Nat
    BY <1>4, TopFacts DEF OperandsWellFormed, Frames
  <2>2. ArgsOf(f) = ArgsOf(Top)
    BY <1>8 DEF ArgsOf
  <2>3. OperandsWellFormed(f)
    BY <1>3, <1>6, <1>8, <2>1, <2>2 DEF OperandsWellFormed
  <2>4. \A k : HeldBy(f, k) = HeldBy(Top, k)
    BY <1>4, <1>8, <2>2 DEF HeldBy
  <2>5. QED
    BY <2>3, <2>4
<1>13. Keeps
  BY <1>3 DEF Keeps
<1>14. /\ CallsWellFormed' /\ StackWellFormed'
       /\ HoldersFinite' /\ LocksCountHolders' /\ OperandsResident'
  BY <1>2, <1>3, <1>7, <1>8, <1>10, <1>11, <1>12, <1>13, TopReplaced
<1>15. Top' = f
  BY <1>7, <1>8, <1>9, ReplaceFacts
<1>16. ScanWellFormed' /\ OperandLoaded'
  BY <1>8, <1>15, ScanIdle DEF Running, OperandLoaded
<1>17. QED
  BY <1>10, <1>14, <1>16 DEF IInv

\* An answer is stored, by a frame that holds no operand any more.
LEMMA StoreStep ==
  ASSUME IInv, status = "running", NEW r \in Answers, NEW f \in Frames, Store(f, r),
         Top.index # Nowhere,
         f.index = Top.index, f.caller = Top.caller, f.want = Top.want, f.got = Top.got,
         \A h : HeldBy(Top, h) = {}
  PROVE  IInv'
<1>1. PICK n \in Nat : n + 1 = Depth /\ FrameWellFormed(n + 1, Top)
  BY TopFacts
<1>2. n + 1 # 1 /\ Top.index \in Handles
  BY <1>1 DEF FrameWellFormed
<1> DEFINE g == [f EXCEPT !.pc = "reduce"]
<1>3. /\ g \in Frames /\ g.index = Top.index /\ g.caller = Top.caller
      /\ g.want = Top.want /\ g.pc = "reduce" /\ g.got = Top.got
  BY DEF Frames
<1>4. Replace(g)
  BY DEF Store
<1> HIDE DEF g
<1>5. /\ answer' = [answer EXCEPT ![Top.index] = r]
      /\ elementsInCache' = elementsInCache + 1
      /\ scan' = [next |-> 0, oldest |-> Nowhere]
      /\ UNCHANGED <<size, calls, locks, accessCounter, status, repeats>>
  BY DEF Store
<1>6. r # NULL
  BY NullNotAnswer
<1>7. TypeOK /\ answer \in [Handles -> Answers \cup {NULL}]
  BY DEF IInv, TypeOK
<1>8. /\ answer' \in [Handles -> Answers \cup {NULL}] /\ answer'[Top.index] # NULL
      /\ \A h \in Handles : answer[h] # NULL => answer'[h] # NULL
  BY <1>2, <1>5, <1>6, <1>7
<1>9. TypeOK'
  <2>1. answer' \in [Handles' -> Answers \cup {NULL}]
    BY <1>5, <1>8 DEF Handles
  <2>2. elementsInCache' \in Int
    BY <1>5, <1>7 DEF TypeOK
  <2>3. scan' \in [next : Nat, oldest : Nat \cup {Nowhere}]
    BY <1>5
  <2>4. QED
    BY <1>3, <1>4, <1>5, <1>7, <2>1, <2>2, <2>3, ReplaceFacts DEF TypeOK, Handles
<1>10. FrameWellFormed(n + 1, g)
  BY <1>1, <1>2, <1>3 DEF FrameWellFormed
<1>11. OperandsWellFormed(g) /\ \A h : HeldBy(g, h) = HeldBy(Top, h)
  BY <1>3 DEF OperandsWellFormed, HeldBy
<1>12. Keeps
  BY <1>8 DEF Keeps
<1>13. g.pc # "operands"
  BY <1>3
<1>14. /\ CallsWellFormed' /\ StackWellFormed'
       /\ HoldersFinite' /\ LocksCountHolders' /\ OperandsResident'
  BY <1>1, <1>3, <1>4, <1>5, <1>9, <1>10, <1>11, <1>12, <1>13, TopReplaced
<1>15. Top' = g
  BY <1>3, <1>4, <1>7, ReplaceFacts
<1>16. OperandLoaded'
  BY <1>3, <1>8, <1>15 DEF OperandLoaded
<1>17. ScanWellFormed'
  BY <1>5, <1>7 DEF ScanWellFormed, TypeOK
<1>18. QED
  BY <1>9, <1>14, <1>16, <1>17 DEF IInv

LEMMA LoadHexProgramStep ==
  ASSUME IInv, LoadHexProgram
  PROVE  IInv'
<1>1. /\ Running("evaluate") /\ Top.index # Nowhere
      /\ Store(Top, Evaluate(ProgramOf(Top), Top.seen))
      /\ \A e \in Reads[ProgramOf(Top)] : Top.seen[e] # NULL
  BY DEF LoadHexProgram, Evaluated
<1>2. Top \in Frames /\ Top.pc = "evaluate" /\ status = "running"
  BY <1>1, TopFacts DEF Running
<1>3. ProgramOf(Top) \in Programs
  BY <1>2, ProgramType
<1>4. Top.seen \in [Exprs -> Answers \cup {NULL}]
  BY <1>2 DEF Frames
<1>5. Evaluate(ProgramOf(Top), Top.seen) \in Answers
  BY <1>1, <1>3, <1>4, EvaluateType
<1>6. \A h : HeldBy(Top, h) = {}
  BY <1>2 DEF HeldBy
<1>7. QED
  BY <1>1, <1>2, <1>5, <1>6, StoreStep

LEMMA LoadOperatorCallStep ==
  ASSUME IInv, LoadOperatorCall
  PROVE  IInv'
<1> DEFINE f == [Top EXCEPT !.operands = <<>>, !.result = NULL]
<1>1. /\ status = "running" /\ Top.pc = "release" /\ Top.released = Len(ArgsOf(Top))
      /\ Store(f, Top.result)
  BY DEF LoadOperatorCall, Running
<1>2. /\ f \in Frames /\ f.index = Top.index /\ f.caller = Top.caller
      /\ f.want = Top.want /\ f.got = Top.got
  <2>1. PICK none \in Seq(Nat) : none = <<>>
    BY EmptySequence
  <2>2. PICK null \in Answers \cup {NULL} : null = NULL
    OBVIOUS
  <2>3. f = [Top EXCEPT !.operands = none, !.result = null]
    BY <2>1, <2>2
  <2>4. QED
    BY <2>3, TopFacts DEF Frames
<1> HIDE DEF f
<1>3. Top.result \in Answers /\ Top.locked = Top.released
  BY <1>1, TopFacts DEF OperandsWellFormed
<1>4. PICK n \in Nat : n + 1 = Depth /\ FrameWellFormed(n + 1, Top)
  BY TopFacts
<1>5. Top.index \in Handles /\ size \in Nat
  BY <1>1, <1>4 DEF FrameWellFormed, IInv, TypeOK
<1>6. Top.index # Nowhere
  BY <1>5 DEF Handles, Nowhere
<1>7. Top.released \in Nat
  BY TopFacts DEF Frames
<1>8. Top.released + 1 .. Top.locked = {}
  BY <1>3, <1>7
<1>9. \A h : HeldBy(Top, h) = {}
  BY <1>8 DEF HeldBy
<1>10. QED
  BY <1>1, <1>2, <1>3, <1>6, <1>9, StoreStep

LEMMA ScanEntryStep ==
  ASSUME IInv, ScanEntry
  PROVE  IInv'
<1>1. /\ scan.next < size
      /\ scan' = [next |-> scan.next + 1,
                  oldest |-> IF Older(scan.next) THEN scan.next ELSE scan.oldest]
      /\ UNCHANGED <<size, calls, answer, locks, accessCounter, elementsInCache,
                     stack, status, repeats>>
      /\ Running("reduce")
  BY DEF ScanEntry
<1>2. size \in Nat /\ scan \in [next : Nat, oldest : Nat \cup {Nowhere}]
  BY DEF IInv, TypeOK
<1>3. scan.next \in Nat /\ scan.next \in Handles /\ scan.next + 1 <= size
  <2>1. PICK k \in Nat : k = scan.next
    BY <1>2
  <2>2. PICK m \in Nat : m = size
    BY <1>2
  <2>3. k < m
    BY <1>1, <2>1, <2>2
  <2>4. k \in 0 .. m - 1 /\ k + 1 <= m
    BY <2>3
  <2>5. QED
    BY <2>1, <2>2, <2>4 DEF Handles
<1>4. scan' \in [next : Nat, oldest : Nat \cup {Nowhere}]
  BY <1>1, <1>2, <1>3
<1>5. TypeOK'
  BY <1>1, <1>4 DEF IInv, TypeOK, Handles
<1>6. scan.oldest # Nowhere => scan.oldest \in Handles /\ Evictable(scan.oldest)
  BY <1>1 DEF IInv, ScanWellFormed
<1>7. /\ scan'.next <= size
      /\ scan'.oldest # Nowhere => scan'.oldest \in Handles /\ Evictable(scan'.oldest)
  <2>1. CASE Older(scan.next)
    BY <1>1, <1>3, <2>1 DEF Older
  <2>2. CASE ~Older(scan.next)
    BY <1>1, <1>3, <1>6, <2>2
  <2>3. QED
    BY <2>1, <2>2
<1>8. ScanWellFormed'
  BY <1>1, <1>7 DEF ScanWellFormed, Handles, Evictable
<1>9. QED
  BY <1>1, <1>5, <1>8, StackUnchanged, AnswersUnchanged DEF IInv

\* The operands of the call a frame computes.
LEMMA ArgsFacts ==
  ASSUME IInv, NEW n \in Nat, n + 1 = Depth, Top.pc \in {"operands", "release"}
  PROVE  /\ n >= 1 /\ FrameWellFormed(n + 1, Top) /\ Top.index \in Handles
         /\ ~IsProgram(calls[Top.index])
         /\ ArgsOf(Top) \in Seq(Nat)
         /\ \A j \in 1 .. Len(ArgsOf(Top)) : ArgsOf(Top)[j] \in Handles /\ ArgsOf(Top)[j] < Top.index
<1>1. FrameWellFormed(n + 1, Top)
  BY TopFacts
<1>2. n + 1 # 1 /\ Top.index \in Handles /\ ~IsProgram(calls[Top.index])
  BY <1>1 DEF FrameWellFormed
<1>3. ArgsOf(Top) \in Seq(Nat)
  BY <1>2 DEF IInv, TypeOK, Calls, ArgsOf
<1>4. \A j \in DOMAIN ArgsOf(Top) : ArgsOf(Top)[j] \in 0 .. Top.index - 1
  BY <1>2 DEF IInv, CallsWellFormed, ArgsOf
<1>5. size \in Nat /\ Top.index \in Nat /\ Top.index < size
  BY <1>2 DEF IInv, TypeOK, Handles
<1>6. \A x \in 0 .. Top.index - 1 : x \in Handles /\ x < Top.index
  BY <1>5 DEF Handles
<1>7. QED
  BY <1>1, <1>2, <1>3, <1>4, <1>6

LEMMA ReleaseOperandStep ==
  ASSUME IInv, ReleaseOperand
  PROVE  IInv'
<1>1. PICK k : k = Top.released + 1
  OBVIOUS
<1>0. PICK f : f = [Top EXCEPT !.released = k]
  OBVIOUS
<1> DEFINE h == ArgsOf(Top)[k]
<1>2. /\ status = "running" /\ Top.pc = "release"
      /\ Top.released < Len(ArgsOf(Top))
      /\ locks' = [locks EXCEPT ![h] = @ - 1]
      /\ Replace(f)
      /\ UNCHANGED <<size, calls, answer, accessCounter, elementsInCache, scan,
                     status, repeats>>
  BY <1>0, <1>1 DEF ReleaseOperand, Running, Unlock
<1>3. PICK n \in Nat : n + 1 = Depth
  BY TopFacts
<1>4. /\ n >= 1 /\ FrameWellFormed(n + 1, Top) /\ Top.index \in Handles
      /\ ArgsOf(Top) \in Seq(Nat)
      /\ \A j \in 1 .. Len(ArgsOf(Top)) : ArgsOf(Top)[j] \in Handles
  BY <1>2, <1>3, ArgsFacts
<1>5. /\ Top.released \in Nat /\ Top.locked \in Nat
      /\ Top.locked = Len(ArgsOf(Top))
      /\ k \in Nat /\ k \in 1 .. Top.locked /\ k <= Top.locked
      /\ k \in Top.released + 1 .. Top.locked
  BY <1>1, <1>2, <1>4, TopFacts DEF Frames, OperandsWellFormed
<1>6. /\ f \in Frames /\ f.index = Top.index /\ f.caller = Top.caller
      /\ f.want = Top.want /\ f.pc = "release" /\ f.got = Top.got
      /\ f.locked = Top.locked /\ f.released = k /\ f.result = Top.result
  BY <1>0, <1>2, <1>5, TopFacts DEF Frames
<1>7. h \in Handles
  BY <1>4, <1>5
<1> HIDE DEF h
<1>8. TypeOK /\ size \in Nat /\ locks \in [Handles -> Int]
  BY DEF IInv, TypeOK
<1>9. /\ locks' \in [Handles -> Int] /\ locks'[h] = locks[h] - 1
      /\ \A x \in Handles : x # h => locks'[x] = locks[x]
  BY <1>2, <1>7, <1>8
<1>10. TypeOK'
  BY <1>2, <1>6, <1>8, <1>9, ReplaceFacts DEF TypeOK, Handles
<1>11. Grows /\ Keeps
  BY <1>2, <1>8 DEF Grows, Keeps
<1>12. FrameWellFormed(n + 1, f)
  BY <1>2, <1>4, <1>6 DEF FrameWellFormed
<1>13. OperandsWellFormed(f)
  <2>1. ArgsOf(f) = ArgsOf(Top) /\ Top.result \in Answers
    BY <1>2, <1>6, TopFacts DEF ArgsOf, OperandsWellFormed
  <2>2. QED
    BY <1>5, <1>6, <2>1 DEF OperandsWellFormed
<1>14. /\ FrameWellFormed(n + 1, f)' /\ OperandsWellFormed(f)'
       /\ \A x : HeldBy(f, x)' = HeldBy(f, x)
  BY <1>6, <1>8, <1>11, <1>12, <1>13, FrameKept
<1>15. CallsWellFormed'
  BY <1>2 DEF IInv, CallsWellFormed, Handles, IsProgram
<1>16. StackWellFormed'
  BY <1>2, <1>3, <1>6, <1>11, <1>14, StackReplaced
<1>17. /\ Depth' = n + 1 /\ Depth \in Nat /\ Top = stack[n + 1] /\ Top' = f
       /\ \A i \in 1 .. n : stack'[i] = stack[i]
       /\ stack'[n + 1] = f
  BY <1>2, <1>3, <1>6, <1>8, ReplaceFacts DEF Top
<1>18. /\ n + 2 .. Depth = {} /\ n + 2 .. n + 1 = {} /\ n + 1 \in Nat
       /\ n + 1 <= Depth /\ n <= Depth
  BY <1>3
<1>19. \A x : HeldBy(f, x) = HeldBy(Top, x) \ {k}
  <2>1. ArgsOf(f) = ArgsOf(Top)
    BY <1>6 DEF ArgsOf
  <2>2. \A j : j \in k + 1 .. Top.locked <=> j \in Top.released + 1 .. Top.locked /\ j # k
    BY <1>1, <1>5
  <2>3. QED
    BY <1>2, <1>6, <2>1, <2>2 DEF HeldBy
<1>20. \A x : k \in HeldBy(Top, x) <=> x = h
  BY <1>2, <1>5 DEF HeldBy, h
<1>21. ASSUME NEW x \in Handles
       PROVE  IsFiniteSet(Holders(x))' /\ locks'[x] = Cardinality(Holders(x))'
  <2>1. HeldBy(stack[n + 1], x)' = HeldBy(stack[n + 1], x) \ {k}
    BY <1>14, <1>17, <1>19
  <2>2. CASE x = h
    BY <1>9, <1>11, <1>17, <1>18, <1>20, <2>1, <2>2, HoldersRemove
  <2>3. CASE x # h
    <3>1. HeldBy(stack[n + 1], x)' = HeldBy(stack[n + 1], x)
      BY <1>17, <1>20, <2>1, <2>3
    <3>2. QED
      BY <1>9, <1>11, <1>17, <1>18, <2>3, <3>1, HoldersKept
  <2>4. QED
    BY <2>2, <2>3
<1>22. HoldersFinite' /\ LocksCountHolders'
  BY <1>2, <1>21 DEF HoldersFinite, LocksCountHolders, Handles
<1>23. OperandsResident'
  <2>1. \A i \in n + 1 .. n + 1 : stack'[i].pc # "operands"
    BY <1>6, <1>17
  <2>2. QED
    BY <1>11, <1>17, <1>18, <2>1, OperandsResidentKept
<1>24. ScanWellFormed' /\ OperandLoaded'
  BY <1>6, <1>17, ScanIdle DEF Running, OperandLoaded
<1>25. QED
  BY <1>10, <1>15, <1>16, <1>22, <1>23, <1>24 DEF IInv

\* The entries and the operand that LockOperand is about.
LEMMA LockFacts ==
  ASSUME IInv, LockOperand, NEW n \in Nat, n + 1 = Depth,
         NEW k, k = Top.locked + 1, NEW h, h = ArgsOf(Top)[k]
  PROVE  /\ status = "running" /\ Top.pc = "operands" /\ Top.released = 0
         /\ Top.locked \in Nat /\ Top.locked = Len(Top.operands)
         /\ k \in 1 .. Len(ArgsOf(Top)) /\ h \in Handles /\ h < Top.index
         /\ n >= 1 /\ FrameWellFormed(n + 1, Top) /\ Top.index \in Handles
         /\ ArgsOf(Top) \in Seq(Nat)
         /\ locks' = [locks EXCEPT ![h] = @ + 1]
         /\ UNCHANGED <<size, calls, answer, accessCounter, elementsInCache, scan,
                        status, repeats>>
         /\ Grows /\ Keeps
<1>1. /\ status = "running" /\ Top.pc = "operands"
      /\ Top.locked < Len(ArgsOf(Top)) /\ Top.locked = Len(Top.operands)
      /\ locks' = [locks EXCEPT ![h] = @ + 1]
      /\ UNCHANGED <<size, calls, answer, accessCounter, elementsInCache, scan,
                     status, repeats>>
  BY DEF LockOperand, Running
<1>2. /\ n >= 1 /\ FrameWellFormed(n + 1, Top) /\ Top.index \in Handles
      /\ ArgsOf(Top) \in Seq(Nat)
      /\ \A j \in 1 .. Len(ArgsOf(Top)) : ArgsOf(Top)[j] \in Handles /\ ArgsOf(Top)[j] < Top.index
  BY <1>1, ArgsFacts
<1>3. Top.released = 0 /\ Top.locked \in Nat
  BY <1>1, TopFacts DEF Frames, OperandsWellFormed
<1>4. k \in 1 .. Len(ArgsOf(Top))
  BY <1>1, <1>2, <1>3
<1>5. h \in Handles /\ h < Top.index
  BY <1>2, <1>4
<1>6. size \in Nat
  BY DEF IInv, TypeOK
<1>7. Grows /\ Keeps
  BY <1>1, <1>6 DEF Grows, Keeps
<1>8. QED
  BY <1>1, <1>2, <1>3, <1>4, <1>5, <1>7

\* The lock that is added is the one of the operand that is now held.
LEMMA LockCounted ==
  ASSUME IInv, LockOperand, NEW n \in Nat, n + 1 = Depth,
         NEW f \in Frames, f.index = Top.index, f.pc = "operands",
         f.released = Top.released, f.locked = Top.locked + 1,
         FrameWellFormed(n + 1, f), OperandsWellFormed(f),
         NEW m \in Nat, m = Depth', n + 1 <= m,
         \A i \in 1 .. n : stack'[i] = stack[i], stack'[n + 1] = f,
         \A h : \A i \in n + 2 .. m : HeldBy(stack[i], h)' = {}
  PROVE  locks' \in [Handles' -> Int] /\ HoldersFinite' /\ LocksCountHolders'
<1>1. PICK k : k = Top.locked + 1
  OBVIOUS
<1>2. PICK h : h = ArgsOf(Top)[k]
  OBVIOUS
<1>3. /\ Top.pc = "operands" /\ Top.released = 0 /\ Top.locked \in Nat
      /\ h \in Handles /\ locks' = [locks EXCEPT ![h] = @ + 1]
      /\ size' = size /\ Grows
  BY <1>1, <1>2, LockFacts
<1>4. TypeOK /\ locks \in [Handles -> Int]
  BY DEF IInv, TypeOK
<1>5. /\ locks' \in [Handles -> Int] /\ locks'[h] = locks[h] + 1
      /\ \A x \in Handles : x # h => locks'[x] = locks[x]
  BY <1>3, <1>4
<1>6. Depth \in Nat /\ stack[n + 1] = Top /\ n + 1 <= Depth /\ n + 2 .. Depth = {}
  BY <1>4, StackFacts DEF Top
<1>7. \A x : HeldBy(f, x)' = HeldBy(f, x)
  BY <1>3, <1>4, FrameKept
<1>8. ArgsOf(f) = ArgsOf(Top)
  BY DEF ArgsOf
<1>9. \A j : j \in 1 .. k <=> j \in 1 .. Top.locked \/ j = k
  BY <1>1, <1>3
<1>10. 0 + 1 = 1
  OBVIOUS
<1>11. /\ \A x, j : j \in HeldBy(f, x) <=> j \in 1 .. k /\ ArgsOf(Top)[j] = x
       /\ \A x, j : j \in HeldBy(Top, x) <=> j \in 1 .. Top.locked /\ ArgsOf(Top)[j] = x
  BY <1>1, <1>3, <1>8, <1>10 DEF HeldBy
<1>12. k \notin 1 .. Top.locked
  BY <1>1, <1>3
<1>13. HeldBy(f, h) = HeldBy(Top, h) \cup {k} /\ k \notin HeldBy(Top, h)
  BY <1>2, <1>9, <1>11, <1>12
<1>14. ASSUME NEW x, x # h
       PROVE  HeldBy(f, x) = HeldBy(Top, x)
  <2>1. \A j : j \in HeldBy(f, x) <=> j \in HeldBy(Top, x)
    BY <1>2, <1>9, <1>11, <1>14
  <2>2. QED
    BY <2>1
<1>15. ASSUME NEW x \in Handles
       PROVE  IsFiniteSet(Holders(x))' /\ locks'[x] = Cardinality(Holders(x))'
  <2>1. HeldBy(stack[n + 1], x)' = HeldBy(f, x)
    BY <1>7
  <2>2. CASE x = h
    <3>1. HeldBy(stack[n + 1], x)' = HeldBy(stack[n + 1], x) \cup {k}
      BY <1>6, <1>13, <2>1, <2>2
    <3>2. k \notin HeldBy(stack[n + 1], x)
      BY <1>6, <1>13, <2>2
    <3>3. QED
      BY <1>3, <1>5, <1>6, <2>2, <3>1, <3>2, HoldersAdd
  <2>3. CASE x # h
    <3>1. HeldBy(stack[n + 1], x)' = HeldBy(stack[n + 1], x)
      BY <1>6, <1>14, <2>1, <2>3
    <3>2. QED
      BY <1>3, <1>5, <1>6, <2>3, <3>1, HoldersKept
  <2>4. QED
    BY <2>2, <2>3
<1>16. HoldersFinite' /\ LocksCountHolders'
  BY <1>3, <1>15 DEF HoldersFinite, LocksCountHolders, Handles
<1>17. locks' \in [Handles' -> Int]
  <2>1. Handles' = Handles
    BY <1>3 DEF Handles
  <2>2. QED
    BY <1>5, <2>1
<1>18. QED
  BY <1>16, <1>17

\* The next operand is resident.
LEMMA LockResidentStep ==
  ASSUME IInv, LockOperand, ~Missing(ArgsOf(Top)[Top.locked + 1])
  PROVE  IInv'
<1>1. PICK k : k = Top.locked + 1
  OBVIOUS
<1>2. PICK h : h = ArgsOf(Top)[k]
  OBVIOUS
<1>3. PICK n \in Nat : n + 1 = Depth
  BY TopFacts
<1>4. PICK f : f = [Top EXCEPT !.locked = k, !.operands = Append(@, h)]
  OBVIOUS
<1>5. /\ status = "running" /\ Top.pc = "operands" /\ Top.released = 0
      /\ Top.locked \in Nat /\ Top.locked = Len(Top.operands)
      /\ k \in 1 .. Len(ArgsOf(Top)) /\ h \in Handles
      /\ n >= 1 /\ FrameWellFormed(n + 1, Top) /\ Top.index \in Handles
      /\ UNCHANGED <<size, calls, answer, accessCounter, elementsInCache, scan,
                     status, repeats>>
      /\ Grows /\ Keeps
  BY <1>1, <1>2, <1>3, LockFacts
<1>6. Replace(f) /\ answer[h] # NULL
  <2>1. ~Missing(h) /\ h = ArgsOf(Top)[Top.locked + 1]
    BY <1>1, <1>2
  <2>2. f = [[Top EXCEPT !.locked = @ + 1] EXCEPT !.operands = Append(@, h)]
    BY <1>1, <1>4, TopFacts DEF Frames
  <2>3. Replace(f)
    BY <2>1, <2>2 DEF LockOperand
  <2>4. QED
    BY <2>1, <2>3 DEF Missing
<1>7. TypeOK /\ size \in Nat
  BY DEF IInv, TypeOK
<1>8. h \in Nat /\ k \in Nat
  BY <1>1, <1>5, <1>7 DEF Handles
<1>9. PICK os \in Seq(Nat) : os = Append(Top.operands, h)
  <2>1. Top.operands \in Seq(Nat)
    BY TopFacts DEF Frames
  <2>2. Append(Top.operands, h) \in Seq(Nat)
    BY <1>8, <2>1
  <2>3. QED
    BY <2>2
<1>10. /\ f \in Frames /\ f.index = Top.index /\ f.caller = Top.caller
       /\ f.want = Top.want /\ f.pc = "operands" /\ f.got = Top.got
       /\ f.locked = k /\ f.released = Top.released /\ f.operands = os
  <2>1. f = [Top EXCEPT !.locked = k, !.operands = os]
    BY <1>4, <1>9
  <2>2. QED
    BY <1>5, <1>8, <2>1, TopFacts DEF Frames
<1>11. /\ Len(os) = k /\ os[k] = h
       /\ \A j \in 1 .. Len(Top.operands) : os[j] = Top.operands[j]
  <2>1. Top.operands \in Seq(Nat)
    BY TopFacts DEF Frames
  <2>2. /\ Len(os) = Len(Top.operands) + 1 /\ os[Len(Top.operands) + 1] = h
        /\ \A j \in 1 .. Len(Top.operands) : os[j] = Top.operands[j]
    BY <1>8, <1>9, <2>1, AppendFacts
  <2>3. QED
    BY <1>1, <1>5, <2>2
<1>12. ArgsOf(f) = ArgsOf(Top)
  BY <1>10 DEF ArgsOf
<1>13. FrameWellFormed(n + 1, f)
  BY <1>5, <1>10 DEF FrameWellFormed
<1>14. OperandsWellFormed(f)
  <2>1. k <= Len(ArgsOf(f))
    BY <1>5, <1>12
  <2>2. QED
    BY <1>5, <1>8, <1>10, <1>11, <2>1 DEF OperandsWellFormed
<1>15. /\ FrameWellFormed(n + 1, f)' /\ OperandsWellFormed(f)' /\ ArgsOf(f)' = ArgsOf(f)
  BY <1>5, <1>7, <1>10, <1>13, <1>14, FrameKept
<1>16. OperandsValid(f)'
  <2>1. OperandsValid(Top)
    BY <1>5, TopFacts
  <2>2. \A j \in 1 .. k : j \in 1 .. Len(Top.operands) \/ j = k
    BY <1>1, <1>5
  <2>3. \A j \in 1 .. k : os[j] = ArgsOf(Top)[j] /\ answer[os[j]] # NULL
    BY <1>2, <1>6, <1>11, <2>1, <2>2 DEF OperandsValid
  <2>4. \A j \in 1 .. Len(f.operands) :
          f.operands[j] = ArgsOf(f)'[j] /\ answer'[f.operands[j]] # NULL
    BY <1>5, <1>10, <1>11, <1>12, <1>15, <2>3
  <2>5. QED
    BY <2>4 DEF OperandsValid
<1>17. /\ Depth' = n + 1 /\ Depth \in Nat /\ Top' = f
       /\ stack' \in Seq(Frames) /\ stack' # <<>>
       /\ \A i \in 1 .. n : stack'[i] = stack[i]
       /\ stack'[n + 1] = f
  <2>1. /\ stack' \in Seq(Frames) /\ stack' # <<>> /\ Top' = f
        /\ Depth' = Depth
        /\ \A i \in 1 .. Depth : stack'[i] = IF i = Depth THEN f ELSE stack[i]
    BY <1>6, <1>7, <1>10, ReplaceFacts
  <2>2. Depth = n + 1 /\ n + 1 \in 1 .. n + 1 /\ \A i \in 1 .. n : i \in 1 .. n + 1 /\ i # n + 1
    BY <1>3
  <2>3. QED
    BY <2>1, <2>2
<1>18. n + 2 .. n + 1 = {} /\ n + 1 \in Nat /\ n <= Depth
  BY <1>3
<1>19. locks' \in [Handles' -> Int] /\ HoldersFinite' /\ LocksCountHolders'
  <2>1. f.locked = Top.locked + 1
    BY <1>1, <1>10
  <2>2. PICK m \in Nat : m = Depth' /\ n + 1 <= m /\ n + 2 .. m = {}
    BY <1>17, <1>18
  <2>3. \A x : \A i \in n + 2 .. m : HeldBy(stack[i], x)' = {}
    BY <2>2
  <2>4. QED
    BY <1>3, <1>10, <1>13, <1>14, <1>17, <2>1, <2>2, <2>3, LockCounted
<1>20. TypeOK'
  BY <1>5, <1>7, <1>17, <1>19 DEF TypeOK, Handles
<1>21. CallsWellFormed'
  BY <1>5 DEF IInv, CallsWellFormed, Handles, IsProgram
<1>22. StackWellFormed'
  <2>1. f.locked = Len(f.operands)
    BY <1>10, <1>11
  <2>2. QED
    BY <1>3, <1>5, <1>6, <1>10, <1>15, <2>1, StackReplaced
<1>23. OperandsResident'
  <2>1. \A i \in n + 1 .. n + 1 : OperandsValid(stack[i])'
    BY <1>16, <1>17
  <2>2. QED
    BY <1>5, <1>17, <1>18, <2>1, OperandsResidentKept
<1>24. ScanWellFormed' /\ OperandLoaded'
  BY <1>10, <1>17, ScanIdle DEF Running, OperandLoaded
<1>25. QED
  BY <1>19, <1>20, <1>21, <1>22, <1>23, <1>24 DEF IInv

\* The frame of load holds nothing yet.
LEMMA LoadFrameFacts ==
  ASSUME TypeOK, NEW i \in Nat, i # 1, NEW g \in Frames,
         g.index \in Handles, g.caller # "main",
         g.caller # "operand" => g.want \in Exprs,
         g.pc = IF IsProgram(calls[g.index]) THEN "evaluate" ELSE "operands",
         g.got = [d \in Exprs |-> Nowhere],
         g.locked = 0, g.released = 0, g.operands = <<>>
  PROVE  /\ g.pc # "reduce"
         /\ FrameWellFormed(i, g) /\ OperandsWellFormed(g)
         /\ g.locked = Len(g.operands) /\ OperandsValid(g)
         /\ \A x : HeldBy(g, x) = {}
<1>1. Len(g.operands) = 0 /\ 0 + 1 .. 0 = {} /\ 1 .. 0 = {}
  OBVIOUS
<1>2. FrameWellFormed(i, g)
  BY DEF FrameWellFormed
<1>3. Len(ArgsOf(g)) \in Nat
  BY DEF ArgsOf, TypeOK, Calls
<1>4. OperandsWellFormed(g)
  BY <1>1, <1>3 DEF OperandsWellFormed
<1>5. OperandsValid(g)
  BY <1>1 DEF OperandsValid
<1>6. \A x : HeldBy(g, x) = {}
  BY <1>1 DEF HeldBy
<1>7. QED
  BY <1>1, <1>2, <1>4, <1>5, <1>6

\* The next operand has to be loaded first.
LEMMA LockMissingStep ==
  ASSUME IInv, LockOperand, Missing(ArgsOf(Top)[Top.locked + 1])
  PROVE  IInv'
<1>1. PICK k : k = Top.locked + 1
  OBVIOUS
<1>2. PICK h : h = ArgsOf(Top)[k]
  OBVIOUS
<1>3. PICK n \in Nat : n + 1 = Depth
  BY TopFacts
<1>4. PICK f : f = [Top EXCEPT !.locked = k]
  OBVIOUS
<1>5. PICK g : g = LoadFrame(h, calls[h], "operand", Nothing)
  OBVIOUS
<1>6. /\ status = "running" /\ Top.pc = "operands" /\ Top.released = 0
      /\ Top.locked \in Nat /\ Top.locked = Len(Top.operands)
      /\ k \in 1 .. Len(ArgsOf(Top)) /\ h \in Handles
      /\ n >= 1 /\ FrameWellFormed(n + 1, Top) /\ Top.index \in Handles
      /\ UNCHANGED <<size, calls, answer, accessCounter, elementsInCache, scan,
                     status, repeats>>
      /\ Grows /\ Keeps
  BY <1>1, <1>2, <1>3, LockFacts
<1>7. PushOver(f, g)
  <2>1. Missing(h) /\ h = ArgsOf(Top)[Top.locked + 1]
    BY <1>1, <1>2
  <2>2. f = [Top EXCEPT !.locked = @ + 1]
    BY <1>1, <1>4
  <2>3. QED
    BY <1>5, <2>1, <2>2 DEF LockOperand, PushOver
<1>8. TypeOK /\ CallsWellFormed /\ size \in Nat /\ k \in Nat
  BY <1>1, <1>6 DEF IInv, TypeOK
<1>9. /\ g \in Frames /\ g.index = h /\ g.caller = "operand"
      /\ g.pc # "reduce"
      /\ FrameWellFormed(n + 2, g) /\ OperandsWellFormed(g)
      /\ g.locked = Len(g.operands)
      /\ \A x : HeldBy(g, x) = {}
      /\ OperandsValid(g)
  <2>1. n + 2 \in Nat /\ n + 2 # 1
    OBVIOUS
  <2>2. h \in Nat
    BY <1>6, <1>8 DEF Handles
  <2>3. g \in Frames
    BY <1>5, <2>2, FrameType
  <2>4. /\ g.index = h /\ g.caller = "operand"
        /\ g.pc = IF IsProgram(calls[h]) THEN "evaluate" ELSE "operands"
        /\ g.got = [d \in Exprs |-> Nowhere]
        /\ g.locked = 0 /\ g.released = 0 /\ g.operands = <<>>
    BY <1>5 DEF LoadFrame, Frame
  <2>5. QED
    BY <1>6, <1>8, <2>1, <2>3, <2>4, LoadFrameFacts
<1>10. /\ f \in Frames /\ f.index = Top.index /\ f.caller = Top.caller
       /\ f.want = Top.want /\ f.pc = "operands" /\ f.got = Top.got
       /\ f.locked = k /\ f.released = Top.released /\ f.operands = Top.operands
  BY <1>4, <1>6, <1>8, TopFacts DEF Frames
<1>11. ArgsOf(f) = ArgsOf(Top)
  BY <1>10 DEF ArgsOf
<1>12. FrameWellFormed(n + 1, f)
  BY <1>6, <1>10 DEF FrameWellFormed
<1>13. OperandsWellFormed(f)
  <2>1. k <= Len(ArgsOf(f)) /\ Len(f.operands) <= k
    BY <1>1, <1>6, <1>10, <1>11
  <2>2. QED
    BY <1>6, <1>10, <2>1 DEF OperandsWellFormed
<1>14. FrameAbove(f, g)
  BY <1>1, <1>2, <1>6, <1>9, <1>10, <1>11 DEF FrameAbove
<1>15. /\ FrameWellFormed(n + 1, f)' /\ OperandsWellFormed(f)' /\ ArgsOf(f)' = ArgsOf(f)
  BY <1>6, <1>8, <1>10, <1>12, <1>13, FrameKept
<1>16. /\ FrameWellFormed(n + 2, g)' /\ OperandsWellFormed(g)'
       /\ \A x : HeldBy(g, x)' = HeldBy(g, x)
  BY <1>6, <1>8, <1>9, FrameKept
<1>17. FrameAbove(f, g)'
  BY <1>6, <1>8, <1>10, <1>12, <1>13, <1>14, AboveKept
<1>18. /\ stack' \in Seq(Frames) /\ stack' # <<>>
       /\ Depth' = n + 2 /\ Top' = g
       /\ \A i \in 1 .. n : stack'[i] = stack[i]
       /\ stack'[n + 1] = f /\ stack'[n + 2] = g
  BY <1>3, <1>7, <1>8, <1>9, <1>10, PushedFrames
<1>19. PICK m \in Nat : m = Depth' /\ m = n + 2 /\ n + 1 <= m
  BY <1>18
<1>20. locks' \in [Handles' -> Int] /\ HoldersFinite' /\ LocksCountHolders'
  <2>1. f.locked = Top.locked + 1
    BY <1>1, <1>10
  <2>2. \A i \in n + 2 .. m : i = n + 2
    BY <1>19
  <2>3. \A x : \A i \in n + 2 .. m : HeldBy(stack[i], x)' = {}
    BY <1>9, <1>16, <1>18, <2>2
  <2>4. QED
    BY <1>3, <1>10, <1>12, <1>13, <1>18, <1>19, <2>1, <2>3, LockCounted
<1>21. TypeOK'
  BY <1>6, <1>8, <1>18, <1>20 DEF TypeOK, Handles
<1>22. CallsWellFormed'
  BY <1>6 DEF IInv, CallsWellFormed, Handles, IsProgram
<1>23. StackWellFormed'
  BY <1>3, <1>6, <1>7, <1>9, <1>10, <1>15, <1>16, <1>17, StackPushed
<1>24. OperandsResident'
  <2>1. OperandsValid(f)'
    <3>1. OperandsValid(Top)
      BY <1>6, TopFacts
    <3>2. OperandsValid(f)
      BY <1>10, <1>11, <3>1 DEF OperandsValid
    <3>3. QED
      BY <1>6, <1>15, <3>2 DEF OperandsValid
  <2>2. OperandsValid(g)'
    BY <1>6, <1>9 DEF OperandsValid, ArgsOf
  <2>3. \A i \in n + 1 .. m : i = n + 1 \/ i = n + 2
    BY <1>19
  <2>4. \A i \in n + 1 .. m : OperandsValid(stack[i])'
    BY <1>18, <2>1, <2>2, <2>3
  <2>5. n <= Depth
    BY <1>3
  <2>6. QED
    BY <1>6, <1>18, <1>19, <2>4, <2>5, OperandsResidentKept
<1>25. ScanWellFormed' /\ OperandLoaded'
  BY <1>9, <1>18, ScanIdle DEF Running, OperandLoaded
<1>26. QED
  BY <1>20, <1>21, <1>22, <1>23, <1>24, <1>25 DEF IInv

\* The operand that an operator call waits for is locked.
LEMMA LoadedLocked ==
  ASSUME IInv, Top.pc = "reduce", Top.caller = "operand"
  PROVE  locks[Top.index] # 0
<1>1. PICK n \in Nat : n + 1 = Depth /\ FrameWellFormed(n + 1, Top)
  BY TopFacts
<1>2. n + 1 # 1
  BY <1>1 DEF FrameWellFormed
<1>3. n \in 1 .. Depth /\ n < Depth /\ Top = stack[n + 1]
  BY <1>1, <1>2 DEF Top
<1>4. stack[n] \in Frames /\ FrameAbove(stack[n], Top)
  BY <1>3, FrameOfStack
<1>5. /\ stack[n].pc = "operands"
      /\ stack[n].locked = Len(stack[n].operands) + 1
      /\ Top.index = ArgsOf(stack[n])[stack[n].locked]
  BY <1>4 DEF FrameAbove
<1>6. Len(stack[n].operands) \in Nat
  BY <1>4 DEF Frames
<1>7. stack[n].locked \in 1 .. stack[n].locked
  BY <1>5, <1>6
<1>8. QED
  BY <1>3, <1>5, <1>7, OperandLocked

\* Nothing is evicted that an operator call in progress uses.
LEMMA EvictStep ==
  ASSUME IInv, Evict
  PROVE  IInv'
<1>1. PICK h : h = scan.oldest
  OBVIOUS
<1>2. /\ Running("reduce") /\ h # Nowhere
      /\ answer' = [answer EXCEPT ![h] = NULL]
      /\ accessCounter' = [accessCounter EXCEPT ![h] = 0]
      /\ elementsInCache' = elementsInCache - 1
      /\ scan' = [next |-> 0, oldest |-> Nowhere]
      /\ UNCHANGED <<size, calls, locks, stack, status, repeats>>
  BY <1>1 DEF Evict, Delete
<1>3. h \in Handles /\ locks[h] = 0
  BY <1>1, <1>2 DEF IInv, ScanWellFormed, Evictable
<1>4. TypeOK
  BY DEF IInv
<1>5. /\ answer \in [Handles -> Answers \cup {NULL}]
      /\ accessCounter \in [Handles -> Nat]
  BY <1>4 DEF TypeOK
<1>6. /\ answer' \in [Handles -> Answers \cup {NULL}]
      /\ accessCounter' \in [Handles -> Nat]
      /\ \A x \in Handles : x # h => answer'[x] = answer[x]
  BY <1>2, <1>3, <1>5
<1>7. TypeOK'
  <2>1. elementsInCache' \in Int
    BY <1>2, <1>4 DEF TypeOK
  <2>2. scan' \in [next : Nat, oldest : Nat \cup {Nowhere}]
    BY <1>2
  <2>3. Handles' = Handles
    BY <1>2 DEF Handles
  <2>4. QED
    BY <1>2, <1>4, <1>6, <2>1, <2>2, <2>3 DEF TypeOK
<1>8. ScanWellFormed'
  <2>1. 0 <= size
    BY <1>4 DEF TypeOK
  <2>2. QED
    BY <1>2, <2>1 DEF ScanWellFormed
<1>9. OperandsResident'
  <2>1. SUFFICES ASSUME NEW i \in 1 .. Depth, stack[i].pc = "operands",
                        NEW j \in 1 .. Len(stack[i].operands)
                 PROVE  /\ stack[i].operands[j] = ArgsOf(stack[i])[j]
                        /\ answer'[stack[i].operands[j]] # NULL
    BY <1>2 DEF OperandsResident, Collecting, OperandsValid, Depth, ArgsOf
  <2>2. OperandsValid(stack[i]) /\ OperandsWellFormed(stack[i]) /\ stack[i] \in Frames
    BY <2>1, FrameOfStack
  <2>3. stack[i].operands[j] = ArgsOf(stack[i])[j] /\ answer[stack[i].operands[j]] # NULL
    BY <2>1, <2>2 DEF OperandsValid
  <2>4. j \in 1 .. stack[i].locked
    <3>1. Len(stack[i].operands) \in Nat /\ stack[i].locked \in Nat
      BY <2>2 DEF Frames
    <3>2. Len(stack[i].operands) <= stack[i].locked
      BY <2>1, <2>2 DEF OperandsWellFormed
    <3>3. QED
      BY <2>1, <3>1, <3>2
  <2>5. stack[i].operands[j] \in Handles /\ locks[stack[i].operands[j]] # 0
    BY <2>1, <2>3, <2>4, OperandLocked
  <2>6. answer'[stack[i].operands[j]] = answer[stack[i].operands[j]]
    BY <1>3, <1>6, <2>5
  <2>7. QED
    BY <2>3, <2>6
<1>10. OperandLoaded'
  <2>1. SUFFICES ASSUME Top.pc = "reduce", Top.caller = "operand"
                 PROVE  answer'[Top.index] # NULL
    BY <1>2 DEF OperandLoaded, Top, Depth
  <2>2. locks[Top.index] # 0 /\ answer[Top.index] # NULL
    BY <2>1, LoadedLocked DEF IInv, OperandLoaded
  <2>3. Top.index \in Handles
    BY <2>1, TopFacts DEF FrameWellFormed
  <2>4. QED
    BY <1>3, <1>6, <2>2, <2>3
<1>11. QED
  BY <1>2, <1>7, <1>8, <1>9, <1>10, StackUnchanged DEF IInv

\* Where load returns to.
LEMMA ParentFacts ==
  ASSUME IInv, Reduced
  PROVE  /\ \E n \in Nat : n + 2 = Depth /\ Parent = stack[n + 1] /\ FrameWellFormed(n + 1, Parent)
         /\ Parent \in Frames /\ OperandsWellFormed(Parent)
         /\ FrameAbove(Parent, Top)
         /\ Parent.pc = "operands" => OperandsValid(Parent)
         /\ Top \in Frames /\ Top.pc = "reduce" /\ status = "running"
         /\ Top.index \in Handles /\ Top.caller # "main"
         /\ Top.caller # "operand" => Top.want \in Exprs
<1>1. Top \in Frames /\ Top.pc = "reduce" /\ status = "running"
  BY TopFacts DEF Reduced, Running
<1>2. PICK k \in Nat : k + 1 = Depth /\ FrameWellFormed(k + 1, Top)
  BY TopFacts
<1>3. k # 0
  BY <1>1, <1>2 DEF FrameWellFormed
<1>4. PICK n \in Nat : n + 1 = k
  <2>1. k - 1 \in Nat /\ (k - 1) + 1 = k
    BY <1>3
  <2>2. QED
    BY <2>1
<1>5. /\ n + 2 = Depth /\ n + 1 = Depth - 1 /\ n + 1 \in 1 .. Depth
      /\ n + 1 < Depth /\ (n + 1) + 1 = Depth
  BY <1>2, <1>4
<1>6. Parent = stack[n + 1] /\ Top = stack[(n + 1) + 1]
  BY <1>5 DEF Parent, Top
<1>7. /\ Parent \in Frames /\ FrameWellFormed(n + 1, Parent) /\ OperandsWellFormed(Parent)
      /\ FrameAbove(Parent, Top)
      /\ Parent.pc = "operands" => OperandsValid(Parent)
  BY <1>5, <1>6, FrameOfStack
<1>8. /\ Top.index \in Handles /\ Top.caller # "main"
      /\ Top.caller # "operand" => Top.want \in Exprs
  BY <1>2, <1>3 DEF FrameWellFormed
<1>9. QED
  BY <1>1, <1>5, <1>6, <1>7, <1>8

\* load returns into the frame below, which becomes f.
LEMMA ReturnStep ==
  ASSUME IInv, Reduced, UNCHANGED <<size, calls, answer, locks, elementsInCache, scan, repeats>>,
         accessCounter' \in [Handles' -> Nat],
         status' \in {"running", "done", "failed", "crashed"},
         NEW f \in Frames, ReturnInto(f),
         f.index = Parent.index, f.caller = Parent.caller, f.want = Parent.want,
         f.pc = Parent.pc, f.locked = Parent.locked, f.released = Parent.released,
         \A e \in Exprs : f.got[e] \in Handles \cup {Nowhere},
         f.pc = "operands" => f.locked = Len(f.operands) /\ OperandsValid(f)
  PROVE  IInv'
<1>1. PICK n \in Nat : n + 2 = Depth /\ Parent = stack[n + 1] /\ FrameWellFormed(n + 1, Parent)
  BY ParentFacts
<1>2. /\ Parent \in Frames /\ OperandsWellFormed(Parent) /\ FrameAbove(Parent, Top)
      /\ Top.pc = "reduce"
  BY ParentFacts
<1>3. TypeOK /\ size \in Nat
  BY DEF IInv, TypeOK
<1>4. Grows /\ Keeps
  BY <1>3 DEF Grows, Keeps
<1>5. f.pc \in {"evaluate", "operands"}
  BY <1>2 DEF FrameAbove
<1>6. FrameWellFormed(n + 1, f)
  BY <1>1 DEF FrameWellFormed
<1>7. ArgsOf(f) = ArgsOf(Parent)
  BY DEF ArgsOf
<1>8. OperandsWellFormed(f)
  <2>1. f.pc = "operands" => Len(f.operands) <= f.locked
    <3>1. f.locked \in Nat
      BY DEF Frames
    <3>2. QED
      BY <3>1
  <2>2. QED
    BY <1>2, <1>5, <1>7, <2>1 DEF OperandsWellFormed
<1>9. \A x : HeldBy(f, x) = HeldBy(Parent, x)
  BY <1>7 DEF HeldBy
<1>10. n + 1 \in Nat
  OBVIOUS
<1>11. /\ FrameWellFormed(n + 1, f)' /\ OperandsWellFormed(f)'
       /\ f.pc \in {"operands", "release"} => ArgsOf(f)' = ArgsOf(f)
       /\ \A x : HeldBy(f, x)' = HeldBy(f, x)
  BY <1>3, <1>4, <1>6, <1>8, <1>10, FrameKept
<1>12. /\ stack' \in Seq(Frames) /\ stack' # <<>>
       /\ Depth' = n + 1 /\ Top' = f /\ Depth \in Nat
       /\ \A i \in 1 .. n : stack'[i] = stack[i]
       /\ stack'[n + 1] = f
  <2>1. Depth > 1 /\ Depth - 1 = n + 1
    BY <1>1
  <2>2. /\ stack' \in Seq(Frames) /\ stack' # <<>> /\ Top' = f
        /\ Depth' = Depth - 1
        /\ \A i \in 1 .. Depth - 1 : stack'[i] = IF i = Depth - 1 THEN f ELSE stack[i]
    BY <1>3, <2>1, ReturnFacts
  <2>3. n + 1 \in 1 .. n + 1 /\ \A i \in 1 .. n : i \in 1 .. n + 1 /\ i # n + 1
    OBVIOUS
  <2>4. QED
    BY <1>1, <2>1, <2>2, <2>3
<1>13. TypeOK'
  BY <1>3, <1>12 DEF TypeOK, Handles
<1>14. CallsWellFormed'
  BY DEF IInv, CallsWellFormed, Handles, IsProgram
<1>15. StackWellFormed'
  BY <1>1, <1>4, <1>11, StackReturned
<1>16. ASSUME NEW x \in Handles
       PROVE  IsFiniteSet(Holders(x))' /\ locks'[x] = Cardinality(Holders(x))'
  <2>1. HeldBy(stack[n + 1], x)' = HeldBy(stack[n + 1], x)
    BY <1>1, <1>9, <1>11, <1>12
  <2>2. PICK m \in Nat : m = Depth' /\ n + 1 <= m /\ n + 2 .. m = {}
    BY <1>12
  <2>3. \A i \in n + 2 .. Depth : HeldBy(stack[i], x) = {}
    <3>1. \A i \in n + 2 .. Depth : i = Depth
      BY <1>1
    <3>2. HeldBy(Top, x) = {}
      BY <1>2 DEF HeldBy
    <3>3. QED
      BY <3>1, <3>2 DEF Top
  <2>4. n + 1 <= Depth
    BY <1>1
  <2>5. QED
    BY <1>4, <1>12, <2>1, <2>2, <2>3, <2>4, HoldersKept
<1>17. HoldersFinite' /\ LocksCountHolders'
  BY <1>16 DEF HoldersFinite, LocksCountHolders, Handles
<1>18. OperandsResident'
  <2>1. f.pc = "operands" => OperandsValid(f)'
    BY <1>11 DEF OperandsValid
  <2>2. PICK m \in Nat : m = Depth' /\ m = n + 1
    BY <1>12
  <2>3. \A i \in n + 1 .. m : stack'[i].pc = "operands" => OperandsValid(stack[i])'
    BY <1>12, <2>1, <2>2
  <2>4. n <= Depth
    BY <1>1
  <2>5. QED
    BY <1>4, <1>12, <2>2, <2>3, <2>4, OperandsResidentKept
<1>19. ScanWellFormed' /\ OperandLoaded'
  BY <1>5, <1>12, ScanIdle DEF Running, OperandLoaded
<1>20. QED
  BY <1>13, <1>14, <1>15, <1>17, <1>18, <1>19 DEF IInv

LEMMA ReturnHandleStep ==
  ASSUME IInv, ReturnHandle
  PROVE  IInv'
<1>1. /\ Reduced /\ Top.caller = "request" /\ Access(Top.index)
      /\ ReturnInto([Parent EXCEPT !.got[Top.want] = Top.index])
      /\ UNCHANGED <<size, calls, answer, locks, elementsInCache, scan, status, repeats>>
  BY DEF ReturnHandle
<1>2. /\ Parent \in Frames /\ FrameAbove(Parent, Top)
      /\ Top.index \in Handles /\ Top.want \in Exprs
      /\ \A e \in Exprs : Parent.got[e] \in Handles \cup {Nowhere}
  BY <1>1, ParentFacts DEF FrameWellFormed
<1>3. TypeOK /\ Top.index \in Nat
  BY <1>2 DEF IInv, TypeOK, Handles
<1>4. PICK f : f = [Parent EXCEPT !.got[Top.want] = Top.index]
  OBVIOUS
<1>5. /\ f \in Frames /\ f.index = Parent.index /\ f.caller = Parent.caller
      /\ f.want = Parent.want /\ f.pc = Parent.pc
      /\ f.locked = Parent.locked /\ f.released = Parent.released
      /\ f.got = [Parent.got EXCEPT ![Top.want] = Top.index]
      /\ Parent.got \in [Exprs -> Nat \cup {Nowhere}]
  BY <1>2, <1>3, <1>4 DEF Frames
<1>6. \A e \in Exprs : f.got[e] \in Handles \cup {Nowhere}
  BY <1>2, <1>5
<1>7. f.pc # "operands"
  BY <1>1, <1>2, <1>5 DEF FrameAbove
<1>8. accessCounter' \in [Handles' -> Nat] /\ status' \in {"running", "done", "failed", "crashed"}
  BY <1>1, <1>3, AccessType DEF TypeOK
<1>9. ReturnInto(f)
  BY <1>1, <1>4
<1>10. QED
  BY <1>1, <1>5, <1>6, <1>7, <1>8, <1>9, ReturnStep

LEMMA ReturnAnswerStep ==
  ASSUME IInv, ReturnAnswer
  PROVE  IInv'
<1>1. PICK a : a = answer[Top.index]
  OBVIOUS
<1>2. /\ Reduced /\ Top.caller = "read" /\ Access(Top.index)
      /\ ReturnInto([Parent EXCEPT !.seen[Top.want] = a])
      /\ UNCHANGED <<size, calls, answer, locks, elementsInCache, scan, repeats>>
      /\ status' = "crashed" \/ status' = status
  BY <1>1 DEF ReturnAnswer
<1>3. /\ Parent \in Frames /\ FrameAbove(Parent, Top)
      /\ Top.index \in Handles /\ Top.want \in Exprs
      /\ \A e \in Exprs : Parent.got[e] \in Handles \cup {Nowhere}
  BY <1>2, ParentFacts DEF FrameWellFormed
<1>4. TypeOK /\ a \in Answers \cup {NULL}
  BY <1>1, <1>3 DEF IInv, TypeOK
<1>5. PICK f : f = [Parent EXCEPT !.seen[Top.want] = a]
  OBVIOUS
<1>6. /\ f \in Frames /\ f.index = Parent.index /\ f.caller = Parent.caller
      /\ f.want = Parent.want /\ f.pc = Parent.pc
      /\ f.locked = Parent.locked /\ f.released = Parent.released
      /\ f.got = Parent.got
  BY <1>3, <1>4, <1>5 DEF Frames
<1>7. f.pc # "operands"
  BY <1>2, <1>3, <1>6 DEF FrameAbove
<1>8. accessCounter' \in [Handles' -> Nat] /\ status' \in {"running", "done", "failed", "crashed"}
  BY <1>2, <1>4, AccessType DEF TypeOK
<1>9. ReturnInto(f)
  BY <1>2, <1>5
<1>10. QED
  BY <1>2, <1>3, <1>6, <1>7, <1>8, <1>9, ReturnStep

LEMMA ReturnOperandStep ==
  ASSUME IInv, ReturnOperand
  PROVE  IInv'
<1>1. /\ Reduced /\ Top.caller = "operand"
      /\ ReturnInto([Parent EXCEPT !.operands = Append(@, Top.index)])
      /\ UNCHANGED <<size, calls, answer, locks, accessCounter, elementsInCache,
                     scan, status, repeats>>
  BY DEF ReturnOperand
<1>2. /\ Parent \in Frames /\ FrameAbove(Parent, Top) /\ OperandsWellFormed(Parent)
      /\ Parent.pc = "operands" => OperandsValid(Parent)
      /\ Top.index \in Handles /\ Top.pc = "reduce"
      /\ \A e \in Exprs : Parent.got[e] \in Handles \cup {Nowhere}
  BY <1>1, ParentFacts DEF FrameWellFormed
<1>3. /\ Parent.pc = "operands" /\ OperandsValid(Parent)
      /\ Parent.locked = Len(Parent.operands) + 1
      /\ Top.index = ArgsOf(Parent)[Parent.locked]
  BY <1>1, <1>2 DEF FrameAbove
<1>4. answer[Top.index] # NULL
  BY <1>1, <1>2 DEF IInv, OperandLoaded
<1>5. TypeOK /\ Top.index \in Nat
  BY <1>2 DEF IInv, TypeOK, Handles
<1>6. Parent.operands \in Seq(Nat)
  BY <1>2 DEF Frames
<1>7. PICK os \in Seq(Nat) : os = Append(Parent.operands, Top.index)
  <2>1. Append(Parent.operands, Top.index) \in Seq(Nat)
    BY <1>5, <1>6
  <2>2. QED
    BY <2>1
<1>8. PICK f : f = [Parent EXCEPT !.operands = os]
  OBVIOUS
<1>9. /\ f \in Frames /\ f.index = Parent.index /\ f.caller = Parent.caller
      /\ f.want = Parent.want /\ f.pc = Parent.pc
      /\ f.locked = Parent.locked /\ f.released = Parent.released
      /\ f.got = Parent.got /\ f.operands = os
  BY <1>2, <1>8 DEF Frames
<1>10. /\ Len(os) = Len(Parent.operands) + 1 /\ os[Len(Parent.operands) + 1] = Top.index
       /\ \A j \in 1 .. Len(Parent.operands) : os[j] = Parent.operands[j]
  BY <1>5, <1>6, <1>7, AppendFacts
<1>11. OperandsValid(f)
  <2>1. ArgsOf(f) = ArgsOf(Parent)
    BY <1>9 DEF ArgsOf
  <2>2. \A j \in 1 .. Len(os) : j \in 1 .. Len(Parent.operands) \/ j = Len(Parent.operands) + 1
    BY <1>6, <1>10
  <2>3. \A j \in 1 .. Len(os) : os[j] = ArgsOf(Parent)[j] /\ answer[os[j]] # NULL
    BY <1>3, <1>4, <1>10, <2>2 DEF OperandsValid
  <2>4. QED
    BY <1>9, <2>1, <2>3 DEF OperandsValid
<1>12. f.locked = Len(f.operands)
  BY <1>3, <1>9, <1>10
<1>13. accessCounter' \in [Handles' -> Nat] /\ status' \in {"running", "done", "failed", "crashed"}
  BY <1>1, <1>5 DEF TypeOK, Handles
<1>14. ReturnInto(f)
  BY <1>1, <1>7, <1>8
<1>15. QED
  BY <1>1, <1>2, <1>9, <1>11, <1>12, <1>13, <1>14, ReturnStep

\* Only handles are held.
LEMMA OnlyHandlesHeld ==
  ASSUME IInv, NEW h, h \notin Handles
  PROVE  Holders(h) = {}
<1>1. SUFFICES ASSUME NEW i \in 1 .. Depth, NEW j \in HeldBy(stack[i], h)
               PROVE  FALSE
  BY HoldersMember
<1>2. PICK f : f = stack[i]
  OBVIOUS
<1>3. f \in Frames /\ FrameWellFormed(i, f) /\ OperandsWellFormed(f)
  BY <1>2, FrameOfStack
<1>4. /\ f.pc \in {"operands", "release"}
      /\ j \in f.released + 1 .. f.locked /\ ArgsOf(f)[j] = h
  BY <1>1, <1>2 DEF HeldBy
<1>5. f.index \in Handles /\ ~IsProgram(calls[f.index])
  BY <1>3, <1>4 DEF FrameWellFormed
<1>6. ArgsOf(f) \in Seq(Nat)
  BY <1>5 DEF IInv, TypeOK, Calls, ArgsOf
<1>7. \A k \in DOMAIN ArgsOf(f) : ArgsOf(f)[k] \in 0 .. f.index - 1
  BY <1>5 DEF IInv, CallsWellFormed, ArgsOf
<1>8. f.released \in Nat /\ f.locked \in Nat /\ f.locked <= Len(ArgsOf(f))
  BY <1>3, <1>4, <1>6 DEF Frames, OperandsWellFormed
<1>9. j \in DOMAIN ArgsOf(f)
  BY <1>4, <1>6, <1>8
<1>10. h \in 0 .. f.index - 1
  BY <1>4, <1>7, <1>9
<1>11. size \in Nat
  BY DEF IInv, TypeOK
<1>12. h \in Handles
  BY <1>5, <1>10, <1>11 DEF Handles
<1>13. QED
  BY <1>12

\* A program calls load, for an entry that may be new.
LEMMA LoadStep ==
  ASSUME IInv, Running("evaluate"), Grows, Keeps,
         NEW g \in Frames, Push(g),
         g.caller # "operand", g.pc # "reduce",
         g.locked = Len(g.operands),
         \A i \in Nat : i # 1 => FrameWellFormed(i, g)',
         OperandsWellFormed(g)', OperandsValid(g)',
         \A h : HeldBy(g, h)' = {},
         CallsWellFormed', stack' \in Seq(Frames) /\ stack' # <<>> => TypeOK',
         \A h \in Handles : locks'[h] = locks[h],
         \A h \in Handles' : h \notin Handles => locks'[h] = 0
  PROVE  IInv'
<1>1. PICK f : f = Top
  OBVIOUS
<1>2. PICK n \in Nat : n + 1 = Depth /\ FrameWellFormed(n + 1, f)
  BY <1>1, TopFacts
<1>3. /\ f \in Frames /\ f.pc = "evaluate" /\ OperandsWellFormed(f)
      /\ f.index = Top.index /\ f.caller = Top.caller
  BY <1>1, TopFacts DEF Running
<1>4. TypeOK
  BY DEF IInv
<1>5. PushOver(f, g)
  <2>1. [stack EXCEPT ![Depth] = f] = stack
    BY <1>1, <1>4, StackFacts DEF Top, TypeOK
  <2>2. QED
    BY <2>1 DEF PushOver, Push
<1>6. /\ stack' \in Seq(Frames) /\ stack' # <<>>
      /\ Depth' = n + 2 /\ Top' = g
      /\ \A i \in 1 .. n : stack'[i] = stack[i]
      /\ stack'[n + 1] = f /\ stack'[n + 2] = g
  BY <1>2, <1>3, <1>4, <1>5, PushedFrames
<1>7. n + 1 \in Nat /\ n + 2 \in Nat /\ n + 2 # 1
  OBVIOUS
<1>8. FrameWellFormed(n + 1, f)' /\ OperandsWellFormed(f)'
  BY <1>2, <1>3, <1>4, <1>7, FrameKept
<1>9. FrameAbove(f, g)'
  BY <1>3 DEF FrameAbove
<1>10. StackWellFormed'
  BY <1>2, <1>3, <1>5, <1>7, <1>8, <1>9, StackPushed
<1>11. PICK m \in Nat : m = Depth' /\ m = n + 2 /\ n + 1 <= m
  BY <1>6
<1>12. n + 2 .. Depth = {} /\ n + 1 <= Depth /\ n <= Depth /\ Depth \in Nat
  BY <1>2
<1>13. ASSUME NEW h
       PROVE  /\ \A i \in n + 2 .. m : HeldBy(stack[i], h)' = {}
              /\ HeldBy(stack[n + 1], h)' = HeldBy(stack[n + 1], h)
  <2>1. \A i \in n + 2 .. m : i = n + 2
    BY <1>11
  <2>2. HeldBy(f, h) = {} /\ HeldBy(f, h)' = {}
    BY <1>3 DEF HeldBy
  <2>3. stack[n + 1] = f
    BY <1>1, <1>2 DEF Top
  <2>4. QED
    BY <1>6, <2>1, <2>2, <2>3
<1>14. ASSUME NEW h \in Handles'
       PROVE  IsFiniteSet(Holders(h))' /\ locks'[h] = Cardinality(Holders(h))'
  <2>1. CASE h \in Handles
    BY <1>6, <1>11, <1>12, <1>13, <2>1, HoldersKept
  <2>2. CASE h \notin Handles
    <3>1. Holders(h) = {}
      BY <2>2, OnlyHandlesHeld
    <3>2. \A x : x \in Holders(h)' <=> x \in Holders(h)
      BY <1>6, <1>11, <1>12, <1>13, HoldersChange
    <3>3. Holders(h)' = {}
      BY <3>1, <3>2
    <3>4. QED
      BY <2>2, <3>3, FS_EmptySet
  <2>3. QED
    BY <2>1, <2>2
<1>15. HoldersFinite' /\ LocksCountHolders'
  BY <1>14 DEF HoldersFinite, LocksCountHolders
<1>16. OperandsResident'
  <2>1. \A i \in n + 1 .. m : i = n + 1 \/ i = n + 2
    BY <1>11
  <2>2. \A i \in n + 1 .. m : stack'[i].pc = "operands" => OperandsValid(stack[i])'
    BY <1>3, <1>6, <2>1
  <2>3. QED
    BY <1>6, <1>11, <1>12, <2>2, OperandsResidentKept
<1>17. ScanWellFormed' /\ OperandLoaded'
  BY <1>6, ScanIdle DEF Running, OperandLoaded
<1>18. QED
  BY <1>6, <1>10, <1>15, <1>16, <1>17 DEF IInv

\* The frame of load after a step that may have appended its entry.
LEMMA LoadFrameNext ==
  ASSUME calls' \in [Handles' -> Calls], NEW g \in Frames,
         g.index \in Handles', g.caller # "main",
         g.caller # "operand" => g.want \in Exprs,
         g.pc = IF IsProgram(calls'[g.index]) THEN "evaluate" ELSE "operands",
         g.got = [d \in Exprs |-> Nowhere],
         g.locked = 0, g.released = 0, g.operands = <<>>
  PROVE  /\ g.pc # "reduce"
         /\ \A i \in Nat : i # 1 => FrameWellFormed(i, g)'
         /\ OperandsWellFormed(g)' /\ OperandsValid(g)'
         /\ g.locked = Len(g.operands)
         /\ \A h : HeldBy(g, h)' = {}
<1>1. Len(g.operands) = 0 /\ 0 + 1 .. 0 = {} /\ 1 .. 0 = {}
  OBVIOUS
<1>2. \A i \in Nat : i # 1 => FrameWellFormed(i, g)'
  BY DEF FrameWellFormed, IsProgram
<1>3. Len(ArgsOf(g)') \in Nat
  BY DEF ArgsOf, Calls
<1>4. OperandsWellFormed(g)'
  BY <1>1, <1>3 DEF OperandsWellFormed
<1>5. OperandsValid(g)'
  BY <1>1 DEF OperandsValid
<1>6. \A h : HeldBy(g, h)' = {}
  BY <1>1 DEF HeldBy
<1>7. QED
  BY <1>1, <1>2, <1>4, <1>5, <1>6

LEMMA ReadEvictedStep ==
  ASSUME IInv, NEW e \in Exprs, ReadEvicted(e)
  PROVE  IInv'
<1>1. PICK h : h = Top.got[e]
  OBVIOUS
<1>2. PICK g : g = LoadFrame(h, calls[h], "read", e)
  OBVIOUS
<1>3. /\ Running("evaluate") /\ h \in Handles /\ Push(g)
      /\ UNCHANGED <<size, calls, answer, locks, accessCounter, elementsInCache,
                     scan, status>>
      /\ Again(Top.seen[e] # NULL)
  BY <1>1, <1>2 DEF ReadEvicted, Readable
<1>4. TypeOK /\ size \in Nat /\ repeats' \in Nat /\ h \in Nat
  BY <1>3 DEF IInv, TypeOK, Again, Handles
<1>5. Handles' = Handles
  BY <1>3 DEF Handles
<1>6. Grows /\ Keeps
  BY <1>3, <1>4 DEF Grows, Keeps
<1>7. g \in Frames
  BY <1>2, <1>4, FrameType
<1>8. /\ g.index = h /\ g.caller = "read" /\ g.want = e
      /\ g.pc = IF IsProgram(calls[h]) THEN "evaluate" ELSE "operands"
      /\ g.got = [d \in Exprs |-> Nowhere]
      /\ g.locked = 0 /\ g.released = 0 /\ g.operands = <<>>
  BY <1>2 DEF LoadFrame, Frame
<1>9. calls' \in [Handles' -> Calls]
  BY <1>3, <1>4, <1>5 DEF TypeOK
<1>10. /\ g.pc # "reduce"
       /\ \A i \in Nat : i # 1 => FrameWellFormed(i, g)'
       /\ OperandsWellFormed(g)' /\ OperandsValid(g)'
       /\ g.locked = Len(g.operands)
       /\ \A x : HeldBy(g, x)' = {}
  <2>1. g.pc = IF IsProgram(calls'[g.index]) THEN "evaluate" ELSE "operands"
    BY <1>3, <1>8
  <2>2. QED
    BY <1>3, <1>5, <1>7, <1>8, <1>9, <2>1, LoadFrameNext
<1>11. CallsWellFormed'
  BY <1>3 DEF IInv, CallsWellFormed, Handles, IsProgram
<1>12. stack' \in Seq(Frames) /\ stack' # <<>> => TypeOK'
  BY <1>3, <1>4, <1>5, <1>9 DEF TypeOK
<1>13. /\ \A x \in Handles : locks'[x] = locks[x]
       /\ \A x \in Handles' : x \notin Handles => locks'[x] = 0
  BY <1>3, <1>5
<1>14. g.caller # "operand"
  BY <1>8
<1>15. QED
  BY <1>3, <1>6, <1>7, <1>10, <1>11, <1>12, <1>13, <1>14, LoadStep

LEMMA RequestNewStep ==
  ASSUME IInv, NEW e \in Exprs, RequestNew(e)
  PROVE  IInv'
<1>1. PICK c : c = CallOf(e, Top.got)
  OBVIOUS
<1>2. PICK g : g = LoadFrame(size, c, "request", e)
  OBVIOUS
<1>3. /\ Running("evaluate") /\ Ready(e) /\ Again(Top.got[e] # Nowhere)
      /\ size' = size + 1
      /\ calls' = [h \in 0 .. size |-> IF h = size THEN c ELSE calls[h]]
      /\ answer' = [h \in 0 .. size |-> IF h = size THEN NULL ELSE answer[h]]
      /\ locks' = [h \in 0 .. size |-> IF h = size THEN 0 ELSE locks[h]]
      /\ accessCounter' = [h \in 0 .. size |-> IF h = size THEN 0 ELSE accessCounter[h]]
      /\ Push(g)
      /\ UNCHANGED <<elementsInCache, scan, status>>
  BY <1>1, <1>2 DEF RequestNew
<1>4. TypeOK /\ size \in Nat /\ repeats' \in Nat
  BY <1>3 DEF IInv, TypeOK, Again
<1>5. /\ size' \in Nat /\ size <= size' /\ Handles' = 0 .. size
      /\ \A h \in 0 .. size : h = size \/ h \in Handles
      /\ \A h \in Handles : h # size /\ h \in 0 .. size
      /\ size \in 0 .. size
  <2>1. PICK m \in Nat : m = size
    BY <1>4
  <2>2. (m + 1) - 1 = m /\ m + 1 \in Nat /\ m <= m + 1
    OBVIOUS
  <2>3. /\ \A h \in 0 .. m : h = m \/ h \in 0 .. m - 1
        /\ \A h \in 0 .. m - 1 : h # m /\ h \in 0 .. m
        /\ m \in 0 .. m
    OBVIOUS
  <2>4. QED
    BY <1>3, <2>1, <2>2, <2>3 DEF Handles
<1>6. /\ c \in Calls
      /\ IsProgram(c) => c.subject \in Programs /\ c.args = <<>>
      /\ ~IsProgram(c) =>
           /\ c.subject \in Operators
           /\ \A j \in DOMAIN c.args : c.args[j] \in 0 .. size - 1
  <2>1. Top.pc = "evaluate"
    BY <1>3 DEF Running
  <2>2. QED
    BY <1>1, <1>3, <2>1, CallType
<1>7. /\ calls'[size] = c
      /\ \A h \in Handles : calls'[h] = calls[h] /\ answer'[h] = answer[h] /\ locks'[h] = locks[h]
      /\ locks'[size] = 0
  BY <1>3, <1>5
<1>8. Grows /\ Keeps
  BY <1>5, <1>7 DEF Grows, Keeps
<1>9. /\ calls' \in [Handles' -> Calls]
      /\ answer' \in [Handles' -> Answers \cup {NULL}]
      /\ locks' \in [Handles' -> Int]
      /\ accessCounter' \in [Handles' -> Nat]
  <2>1. calls \in [Handles -> Calls]
    BY <1>4 DEF TypeOK
  <2>2. calls' \in [0 .. size -> Calls]
    BY <1>3, <1>5, <1>6, <2>1
  <2>3. answer \in [Handles -> Answers \cup {NULL}]
    BY <1>4 DEF TypeOK
  <2>4. answer' \in [0 .. size -> Answers \cup {NULL}]
    BY <1>3, <1>5, <2>3
  <2>5. locks \in [Handles -> Int] /\ accessCounter \in [Handles -> Nat]
    BY <1>4 DEF TypeOK
  <2>6. locks' \in [0 .. size -> Int]
    BY <1>3, <1>5, <2>5
  <2>7. accessCounter' \in [0 .. size -> Nat]
    BY <1>3, <1>5, <2>5
  <2>8. QED
    BY <1>5, <2>2, <2>4, <2>6, <2>7
<1>10. g \in Frames
  BY <1>2, <1>4, FrameType
<1>11. /\ g.index = size /\ g.caller = "request" /\ g.want = e
       /\ g.pc = IF IsProgram(c) THEN "evaluate" ELSE "operands"
       /\ g.got = [d \in Exprs |-> Nowhere]
       /\ g.locked = 0 /\ g.released = 0 /\ g.operands = <<>>
  BY <1>2 DEF LoadFrame, Frame
<1>12. /\ g.pc # "reduce"
       /\ \A i \in Nat : i # 1 => FrameWellFormed(i, g)'
       /\ OperandsWellFormed(g)' /\ OperandsValid(g)'
       /\ g.locked = Len(g.operands)
       /\ \A x : HeldBy(g, x)' = {}
  <2>1. g.pc = IF IsProgram(calls'[g.index]) THEN "evaluate" ELSE "operands"
    BY <1>7, <1>11
  <2>2. g.index \in Handles'
    BY <1>5, <1>11
  <2>3. QED
    BY <1>9, <1>10, <1>11, <2>1, <2>2, LoadFrameNext
<1>13. CallsWellFormed'
  <2>1. SUFFICES ASSUME NEW h \in 0 .. size
                 PROVE  IF IsProgram(calls'[h])
                          THEN calls'[h].subject \in Programs /\ calls'[h].args = <<>>
                          ELSE /\ calls'[h].subject \in Operators
                               /\ \A j \in DOMAIN calls'[h].args : calls'[h].args[j] \in 0 .. h - 1
    BY <1>5 DEF CallsWellFormed, IsProgram
  <2>2. CASE h = size
    BY <1>6, <1>7, <2>2
  <2>3. CASE h \in Handles
    BY <1>7, <2>3 DEF IInv, CallsWellFormed
  <2>4. QED
    BY <1>5, <2>2, <2>3
<1>14. stack' \in Seq(Frames) /\ stack' # <<>> => TypeOK'
  BY <1>3, <1>4, <1>5, <1>9 DEF TypeOK
<1>15. \A x \in Handles' : x \notin Handles => locks'[x] = 0
  BY <1>5, <1>7
<1>16. g.caller # "operand"
  BY <1>11
<1>17. QED
  BY <1>3, <1>7, <1>8, <1>10, <1>12, <1>13, <1>14, <1>15, <1>16, LoadStep

-----------------------------------------------------------------------------
(***************************************************************************)
(* The theorems.                                                           *)
(***************************************************************************)
\* Initially the cache is empty and only the main program is running.
LEMMA InitInvariant == Init => IInv
<1> SUFFICES ASSUME Init
             PROVE  IInv
  OBVIOUS
<1>1. PICK f : f = Frame(Nowhere, "evaluate", "main", Nothing)
  OBVIOUS
<1>2. /\ f \in Frames /\ f.pc = "evaluate" /\ f.index = Nowhere
      /\ f.got = [d \in Exprs |-> Nowhere]
  BY <1>1 DEF Frame, Frames
<1>3. /\ size = 0
      /\ calls = <<>> /\ answer = <<>> /\ locks = <<>> /\ accessCounter = <<>>
      /\ elementsInCache = 0
      /\ stack = <<f>>
      /\ scan = [next |-> 0, oldest |-> Nowhere]
      /\ status = "running"
      /\ repeats = 0
  BY <1>1 DEF Init
<1>4. Handles = {}
  BY <1>3 DEF Handles
<1>5. /\ stack \in Seq(Frames) /\ stack # <<>> /\ Depth = 1
      /\ stack[1] = f /\ Top = f
  BY <1>2, <1>3 DEF Depth, Top
<1>6. ASSUME NEW S
      PROVE  <<>> \in [{} -> S]
  OBVIOUS
<1>7. TypeOK
  <2>1. /\ calls \in [Handles -> Calls] /\ answer \in [Handles -> Answers \cup {NULL}]
        /\ locks \in [Handles -> Int] /\ accessCounter \in [Handles -> Nat]
    BY <1>3, <1>4, <1>6
  <2>2. size \in Nat /\ elementsInCache \in Int /\ repeats \in Nat
    BY <1>3
  <2>3. scan \in [next : Nat, oldest : Nat \cup {Nowhere}]
    BY <1>3
  <2>4. status \in {"running", "done", "failed", "crashed"}
    BY <1>3
  <2>5. QED
    BY <1>5, <2>1, <2>2, <2>3, <2>4 DEF TypeOK
<1>8. 1 .. 1 = {1} /\ 1 .. 0 = {} /\ 1 - 1 = 0
  OBVIOUS
<1>9. CallsWellFormed /\ HoldersFinite /\ LocksCountHolders
  BY <1>4 DEF CallsWellFormed, HoldersFinite, LocksCountHolders
<1>10. StackWellFormed
  <2>1. FrameWellFormed(1, f)
    BY <1>2 DEF FrameWellFormed
  <2>2. OperandsWellFormed(f)
    BY <1>2 DEF OperandsWellFormed
  <2>3. QED
    BY <1>2, <1>5, <1>8, <2>1, <2>2 DEF StackWellFormed
<1>11. ScanWellFormed /\ OperandLoaded
  BY <1>2, <1>5 DEF ScanWellFormed, OperandLoaded, Running
<1>12. OperandsResident
  BY <1>2, <1>5, <1>8 DEF OperandsResident, Collecting
<1>13. QED
  BY <1>7, <1>9, <1>10, <1>11, <1>12 DEF IInv

\* Every step keeps the invariant.
LEMMA NextInvariant == IInv /\ [Next]_vars => IInv'
<1> SUFFICES ASSUME IInv, [Next]_vars
             PROVE  IInv'
  OBVIOUS
<1>1. ASSUME NEW e \in Exprs, RequestFound(e)
      PROVE  IInv'
  BY <1>1, RequestFoundStep
<1>2. ASSUME NEW e \in Exprs, RequestNew(e)
      PROVE  IInv'
  BY <1>2, RequestNewStep
<1>3. ASSUME NEW e \in Exprs, ReadResident(e)
      PROVE  IInv'
  BY <1>3, ReadResidentStep
<1>4. ASSUME NEW e \in Exprs, ReadEvicted(e)
      PROVE  IInv'
  BY <1>4, ReadEvictedStep
<1>5. CASE LoadHexProgram
  BY <1>5, LoadHexProgramStep
<1>6. CASE FinishMain \/ EvaluationThrows \/ OperatorThrows
  BY <1>6, EndStep
<1>7. CASE LockOperand
  BY <1>7, LockResidentStep, LockMissingStep
<1>8. CASE ApplyOperator
  BY <1>8, ApplyOperatorStep
<1>9. CASE ReleaseOperand
  BY <1>9, ReleaseOperandStep
<1>10. CASE LoadOperatorCall
  BY <1>10, LoadOperatorCallStep
<1>11. CASE ScanEntry
  BY <1>11, ScanEntryStep
<1>12. CASE Evict
  BY <1>12, EvictStep
<1>13. CASE ReturnHandle
  BY <1>13, ReturnHandleStep
<1>14. CASE ReturnAnswer
  BY <1>14, ReturnAnswerStep
<1>15. CASE ReturnOperand
  BY <1>15, ReturnOperandStep
<1>16. CASE UNCHANGED vars
  <2>1. UNCHANGED <<size, calls, answer, locks, accessCounter, elementsInCache,
                    stack, scan, status, repeats>>
    BY <1>16 DEF vars
  <2>2. TypeOK'
    BY <2>1 DEF IInv, TypeOK, Handles
  <2>3. ScanWellFormed'
    BY <2>1 DEF IInv, ScanWellFormed, Running, Top, Depth, Handles, Evictable
  <2>4. QED
    BY <2>1, <2>2, <2>3, StackUnchanged, AnswersUnchanged DEF IInv
<1>17. QED
  BY <1>1, <1>2, <1>3, <1>4, <1>5, <1>6, <1>7, <1>8, <1>9, <1>10, <1>11,
     <1>12, <1>13, <1>14, <1>15, <1>16 DEF Next, Terminated

\* IInv holds in every state of every evaluation, whatever the programs, the
\* operators, the external atoms, the limit and the bound on repetitions are.
THEOREM Invariant == Spec => []IInv
<1>1. Init => IInv
  BY InitInvariant
<1>2. IInv /\ [Next]_vars => IInv'
  BY NextInvariant
<1>3. QED
  BY <1>1, <1>2, PTL DEF Spec

\* The vectors cache, locks and accessCounter always have one element per
\* handle, and every frame is of a call the code can be in.
THEOREM TypeCorrect == Spec => []TypeOK
<1>1. IInv => TypeOK
  BY DEF IInv
<1>2. QED
  BY <1>1, Invariant, PTL

\* The operand pointers loadOperatorCall has collected stay valid until the
\* operator is applied, for every nesting of operator calls and programs and
\* every limit: reduceCache never deletes an answer an operator will use.
THEOREM OperandsStayResident == Spec => []OperandsResident
<1>1. IInv => OperandsResident
  BY DEF IInv
<1>2. QED
  BY <1>1, Invariant, PTL

\* The lock counter of an entry is the number of uses of the entry as an
\* operand by operator calls in progress, so no unlock underflows
\* (assert(locks[*it] > 0) in loadOperatorCall) and no lock is left behind.
THEOREM LocksAreExact == Spec => []LocksCountHolders
<1>1. IInv => LocksCountHolders
  BY DEF IInv
<1>2. QED
  BY <1>1, Invariant, PTL

-----------------------------------------------------------------------------
(***************************************************************************)
(* What reduceCache achieves: whenever a program or an operator call goes  *)
(* on, the cache is within its limit or all that it holds is locked, and   *)
(* without a limit the answer that load stored is there for its caller.    *)
(***************************************************************************)
\* A program or an operator call goes on: nothing becomes resident and nothing
\* is unlocked.
LEMMA ContinuesWithinLimit ==
  ASSUME LimitInv, Top.pc \in {"evaluate", "operands"}, Top'.pc # "reduce",
         elementsInCache' = elementsInCache, status' = status,
         \A h \in Handles' : answer'[h] # NULL =>
           h \in Handles /\ answer[h] # NULL /\ locks'[h] >= locks[h],
         locks' \in [Handles' -> Int]
  PROVE  ScanExhaustive' /\ LimitExceededOnlyForOperands' /\ StoredStays'
<1>1. ScanExhaustive' /\ StoredStays'
  BY DEF ScanExhaustive, StoredStays, Running, LimitInv
<1>2. LimitExceededOnlyForOperands'
  <2>1. SUFFICES ASSUME MaxCacheEntries >= 0, elementsInCache > MaxCacheEntries,
                        NEW h \in Handles', answer'[h] # NULL
                 PROVE  locks'[h] > 0
    BY DEF LimitExceededOnlyForOperands, Resident
  <2>2. h \in Resident /\ locks'[h] >= locks[h]
    BY <2>1 DEF Resident
  <2>3. locks[h] > 0
    BY <2>1, <2>2 DEF LimitInv, LimitExceededOnlyForOperands
  <2>4. locks[h] \in Int /\ locks'[h] \in Int
    BY <2>2 DEF LimitInv, IInv, TypeOK, Resident
  <2>5. QED
    BY <2>2, <2>3, <2>4
<1>3. QED
  BY <1>1, <1>2

\* Asking for a call that is in the cache, or reading an answer that is there.
LEMMA ReplacedWithinLimit ==
  ASSUME LimitInv, Top.pc = "evaluate", NEW f \in Frames, Replace(f), f.pc = "evaluate",
         UNCHANGED <<size, answer, locks, elementsInCache, status>>
  PROVE  ScanExhaustive' /\ LimitExceededOnlyForOperands' /\ StoredStays'
<1>1. TypeOK
  BY DEF LimitInv, IInv
<1>2. Top'.pc # "reduce"
  BY <1>1, ReplaceFacts
<1>3. Handles' = Handles /\ locks \in [Handles -> Int]
  BY <1>1 DEF Handles, TypeOK
<1>4. \A h \in Handles : locks[h] >= locks[h]
  BY <1>3
<1>5. QED
  BY <1>2, <1>3, <1>4, ContinuesWithinLimit

\* Loading an entry again, as an answer to read or as an operand.
LEMMA LoadedWithinLimit ==
  ASSUME LimitInv, Top.pc \in {"evaluate", "operands"}, NEW f \in Frames, NEW g \in Frames,
         PushOver(f, g), g.pc # "reduce",
         UNCHANGED <<size, answer, elementsInCache, status>>,
         locks' \in [Handles -> Int], \A h \in Handles : locks'[h] >= locks[h]
  PROVE  ScanExhaustive' /\ LimitExceededOnlyForOperands' /\ StoredStays'
<1>1. TypeOK
  BY DEF LimitInv, IInv
<1>2. Top' = g
  BY <1>1, PushFacts
<1>3. Handles' = Handles
  BY DEF Handles
<1>4. QED
  BY <1>2, <1>3, ContinuesWithinLimit

LEMMA RequestsWithinLimit ==
  ASSUME LimitInv, NEW e \in Exprs,
         RequestFound(e) \/ RequestNew(e) \/ ReadResident(e) \/ ReadEvicted(e)
  PROVE  ScanExhaustive' /\ LimitExceededOnlyForOperands' /\ StoredStays'
<1>1. IInv /\ TypeOK /\ size \in Nat /\ Top \in Frames
  BY StackFacts DEF LimitInv, IInv, TypeOK
<1>2. CASE RequestFound(e)
  <2>1. PICK h \in Handles : Replace([Top EXCEPT !.got[e] = h])
    BY <1>2 DEF RequestFound
  <2>2. [Top EXCEPT !.got[e] = h] \in Frames
    BY <1>1, <2>1 DEF Handles, Frames
  <2>3. [Top EXCEPT !.got[e] = h].pc = Top.pc
    BY <1>1 DEF Frames
  <2>4. QED
    BY <1>2, <2>1, <2>2, <2>3, ReplacedWithinLimit DEF RequestFound, Running
<1>3. CASE ReadResident(e)
  <2>1. Top.got[e] \in Handles /\ Top.pc = "evaluate"
    BY <1>3 DEF ReadResident, Readable, Running
  <2>2. answer[Top.got[e]] \in Answers \cup {NULL}
    BY <1>1, <2>1 DEF TypeOK
  <2>3. [Top EXCEPT !.seen[e] = answer[Top.got[e]]] \in Frames
    BY <1>1, <2>2 DEF Frames
  <2>4. [Top EXCEPT !.seen[e] = answer[Top.got[e]]].pc = Top.pc
    BY <1>1 DEF Frames
  <2>5. QED
    BY <1>3, <2>1, <2>3, <2>4, ReplacedWithinLimit DEF ReadResident
<1>4. CASE ReadEvicted(e)
  <2>1. Top.got[e] \in Handles /\ Top.pc = "evaluate"
    BY <1>4 DEF ReadEvicted, Readable, Running
  <2>2. PICK g : g = LoadFrame(Top.got[e], calls[Top.got[e]], "read", e)
    OBVIOUS
  <2>3. g \in Frames /\ g.pc # "reduce"
    <3>1. Top.got[e] \in Nat
      BY <1>1, <2>1 DEF Handles
    <3>2. QED
      BY <2>2, <3>1, FrameType DEF LoadFrame, Frame
  <2>4. PushOver(Top, g)
    BY <1>1, <1>4, <2>2, PushOverTop DEF ReadEvicted
  <2>5. locks' = locks /\ locks \in [Handles -> Int]
    BY <1>1, <1>4 DEF ReadEvicted, TypeOK
  <2>6. \A h \in Handles : locks'[h] >= locks[h]
    BY <2>5
  <2>7. QED
    BY <1>1, <1>4, <2>1, <2>3, <2>4, <2>5, <2>6, LoadedWithinLimit DEF ReadEvicted
<1>5. CASE RequestNew(e)
  <2>1. PICK g : g = LoadFrame(size, CallOf(e, Top.got), "request", e)
    OBVIOUS
  <2>2. g \in Frames /\ g.pc # "reduce"
    BY <1>1, <2>1, FrameType DEF LoadFrame, Frame
  <2>3. PushOver(Top, g)
    BY <1>1, <1>5, <2>1, PushOverTop DEF RequestNew
  <2>4. Top'.pc # "reduce"
    BY <1>1, <2>2, <2>3, PushFacts
  <2>5. /\ size' = size + 1
        /\ answer' = [h \in 0 .. size |-> IF h = size THEN NULL ELSE answer[h]]
        /\ locks' = [h \in 0 .. size |-> IF h = size THEN 0 ELSE locks[h]]
        /\ UNCHANGED <<elementsInCache, status>> /\ Top.pc = "evaluate"
    BY <1>5 DEF RequestNew, Running
  <2>6. Handles' = 0 .. size /\ \A h \in 0 .. size : h # size => h \in Handles
    BY <1>1, <2>5 DEF Handles
  <2>7. locks \in [Handles -> Int] /\ locks' \in [Handles' -> Int]
    BY <1>1, <2>5, <2>6 DEF TypeOK
  <2>8. \A h \in Handles' : answer'[h] # NULL =>
          h \in Handles /\ answer[h] # NULL /\ locks'[h] = locks[h]
    BY <2>5, <2>6
  <2>9. \A h \in Handles' : answer'[h] # NULL => locks'[h] >= locks[h]
    BY <2>7, <2>8
  <2>10. QED
    BY <2>4, <2>5, <2>7, <2>8, <2>9, ContinuesWithinLimit
<1>6. QED
  BY <1>2, <1>3, <1>4, <1>5

LEMMA LockWithinLimit ==
  ASSUME LimitInv, LockOperand
  PROVE  ScanExhaustive' /\ LimitExceededOnlyForOperands' /\ StoredStays'
<1>1. IInv /\ TypeOK /\ size \in Nat /\ Top \in Frames
  BY StackFacts DEF LimitInv, IInv, TypeOK
<1>2. PICK n \in Nat : n + 1 = Depth
  BY <1>1, TopFacts
<1>3. PICK k, h : k = Top.locked + 1 /\ h = ArgsOf(Top)[k]
  OBVIOUS
<1>4. /\ Top.pc = "operands" /\ h \in Handles /\ Top.locked \in Nat
      /\ locks' = [locks EXCEPT ![h] = @ + 1]
      /\ UNCHANGED <<size, calls, answer, accessCounter, elementsInCache, scan,
                     status, repeats>>
  BY <1>1, <1>2, <1>3, LockFacts
<1>5. locks \in [Handles -> Int] /\ Handles' = Handles
  BY <1>1, <1>4 DEF TypeOK, Handles
<1>6. locks' \in [Handles -> Int] /\ \A x \in Handles : locks'[x] >= locks[x]
  BY <1>4, <1>5
<1>7. PICK f : f = [Top EXCEPT !.locked = k]
  OBVIOUS
<1>8. f \in Frames /\ f.pc = "operands"
  <2>1. k \in Nat
    BY <1>3, <1>4
  <2>2. QED
    BY <1>1, <1>4, <1>7, <2>1 DEF Frames
<1>9. CASE ~Missing(h)
  <2>1. PICK g : g = [f EXCEPT !.operands = Append(@, h)]
    OBVIOUS
  <2>2. h \in Nat
    BY <1>1, <1>4 DEF Handles
  <2>3. Append(f.operands, h) \in Seq(Nat)
    BY <1>8, <2>2 DEF Frames
  <2>4. g \in Frames /\ g.pc = "operands"
    BY <1>8, <2>1, <2>3 DEF Frames
  <2>5. Replace(g)
    BY <1>3, <1>7, <1>9, <2>1 DEF LockOperand
  <2>6. Top'.pc # "reduce"
    BY <1>1, <2>4, <2>5, ReplaceFacts
  <2>7. QED
    BY <1>4, <1>5, <1>6, <2>6, ContinuesWithinLimit
<1>10. CASE Missing(h)
  <2>1. PICK g : g = LoadFrame(h, calls[h], "operand", Nothing)
    OBVIOUS
  <2>2. h \in Nat
    BY <1>1, <1>4 DEF Handles
  <2>3. g \in Frames /\ g.pc # "reduce"
    BY <2>1, <2>2, FrameType DEF LoadFrame, Frame
  <2>4. PushOver(f, g)
    BY <1>3, <1>7, <1>10, <2>1 DEF LockOperand, PushOver
  <2>5. QED
    BY <1>1, <1>4, <1>6, <1>8, <2>3, <2>4, LoadedWithinLimit
<1>11. QED
  BY <1>9, <1>10

\* The answer is stored, and reduceCache begins.
LEMMA StoreWithinLimit ==
  ASSUME LimitInv, NEW f \in Frames, NEW r \in Answers, Store(f, r),
         f.index = Top.index, f.index \in Handles
  PROVE  ScanExhaustive' /\ LimitExceededOnlyForOperands' /\ StoredStays'
<1>1. TypeOK /\ answer \in [Handles -> Answers \cup {NULL}]
  BY DEF LimitInv, IInv, TypeOK
<1>2. PICK g : g = [f EXCEPT !.pc = "reduce"]
  OBVIOUS
<1>3. g \in Frames /\ g.pc = "reduce" /\ g.index = f.index
  BY <1>2 DEF Frames
<1>4. Top' = g
  BY <1>1, <1>2, <1>3, ReplaceFacts DEF Store
<1>5. scan' = [next |-> 0, oldest |-> Nowhere] /\ status' = status
  BY DEF Store
<1>6. ScanExhaustive'
  <2>1. \A h \in Handles' : ~(h < 0)
    BY <1>1 DEF Handles, TypeOK, Store
  <2>2. QED
    BY <1>5, <2>1 DEF ScanExhaustive
<1>7. answer'[f.index] = r
  BY <1>1 DEF Store
<1>8. StoredStays'
  BY <1>3, <1>4, <1>5, <1>7, NullNotAnswer DEF StoredStays, LimitInv
<1>9. LimitExceededOnlyForOperands'
  BY <1>3, <1>4 DEF LimitExceededOnlyForOperands
<1>10. QED
  BY <1>6, <1>8, <1>9

LEMMA LoadsWithinLimit ==
  ASSUME LimitInv, LoadHexProgram \/ LoadOperatorCall
  PROVE  ScanExhaustive' /\ LimitExceededOnlyForOperands' /\ StoredStays'
<1>1. IInv /\ TypeOK
  BY DEF LimitInv, IInv
<1>2. PICK n \in Nat : n + 1 = Depth /\ FrameWellFormed(n + 1, Top)
  BY <1>1, TopFacts
<1>3. Top \in Frames /\ OperandsWellFormed(Top)
  BY <1>1, TopFacts
<1>4. CASE LoadHexProgram
  <2>1. Top.pc = "evaluate" /\ Top.index # Nowhere /\ Evaluated
    BY <1>4 DEF LoadHexProgram, Evaluated, Running
  <2>2. Top.index \in Handles
    BY <1>2, <2>1 DEF FrameWellFormed
  <2>3. ProgramOf(Top) \in Programs /\ Top.seen \in [Exprs -> Answers \cup {NULL}]
    BY <1>1, <1>3, <2>1, ProgramType DEF Frames
  <2>4. Evaluate(ProgramOf(Top), Top.seen) \in Answers
    BY <2>1, <2>3, EvaluateType DEF Evaluated
  <2>5. QED
    BY <1>3, <1>4, <2>2, <2>4, StoreWithinLimit DEF LoadHexProgram
<1>5. CASE LoadOperatorCall
  <2>1. Top.pc = "release"
    BY <1>5 DEF LoadOperatorCall, Running
  <2>2. Top.index \in Handles /\ Top.result \in Answers
    BY <1>2, <1>3, <2>1 DEF FrameWellFormed, OperandsWellFormed
  <2>3. PICK f : f = [Top EXCEPT !.operands = <<>>, !.result = NULL]
    OBVIOUS
  <2>4. f \in Frames /\ f.index = Top.index
    <3>1. PICK none \in Seq(Nat) : none = <<>>
      BY EmptySequence
    <3>2. PICK null \in Answers \cup {NULL} : null = NULL
      OBVIOUS
    <3>3. f = [Top EXCEPT !.operands = none, !.result = null]
      BY <2>3, <3>1, <3>2
    <3>4. QED
      BY <1>3, <3>3 DEF Frames
  <2>5. QED
    BY <1>5, <2>2, <2>3, <2>4, StoreWithinLimit DEF LoadOperatorCall
<1>6. QED
  BY <1>4, <1>5

\* The operator is applied, and its operands are unlocked.
LEMMA OperatorWithinLimit ==
  ASSUME LimitInv, ApplyOperator \/ ReleaseOperand
  PROVE  ScanExhaustive' /\ LimitExceededOnlyForOperands' /\ StoredStays'
<1>1. IInv /\ TypeOK /\ Top \in Frames
  BY StackFacts DEF LimitInv, IInv
<1>2. status' = status
  BY DEF ApplyOperator, ReleaseOperand
<1>3. Top'.pc = "release"
  <2>1. CASE ApplyOperator
    <3>1. PICK r : Replace([Top EXCEPT !.pc = "release", !.result = r]) /\ r \in Answers
      <4>1. PICK inputs : inputs = [i \in DOMAIN Top.operands |-> answer[Top.operands[i]]]
        OBVIOUS
      <4>2. PICK c : c = calls[Top.index]
        OBVIOUS
      <4>3. /\ Collected /\ Accepts(c.subject, Len(c.args), c.kv)
            /\ Replace([Top EXCEPT !.pc = "release", !.result = Apply(c.subject, inputs, c.kv)])
        BY <2>1, <4>1, <4>2 DEF ApplyOperator
      <4>4. inputs \in [1 .. Len(c.args) -> Answers]
        BY <1>1, <4>1, <4>2, <4>3, OperandsAreAnswers DEF ArgsOf
      <4>5. PICK n \in Nat : n + 1 = Depth /\ FrameWellFormed(n + 1, Top)
        BY <1>1, TopFacts
      <4>6. Top.index \in Handles /\ ~IsProgram(c)
        BY <1>1, <4>2, <4>3, <4>5, ArgsFacts DEF Collected, Running
      <4>7. c.subject \in Operators /\ c.kv \in Seq(KeyValues) /\ Len(c.args) \in Nat
        BY <1>1, <4>2, <4>6 DEF IInv, CallsWellFormed, TypeOK, Calls
      <4>8. Apply(c.subject, inputs, c.kv) \in Answers
        BY <4>3, <4>4, <4>7, ApplyType
      <4>9. QED
        BY <4>3, <4>8
    <3>2. [Top EXCEPT !.pc = "release", !.result = r] \in Frames
      BY <1>1, <3>1 DEF Frames
    <3>3. [Top EXCEPT !.pc = "release", !.result = r].pc = "release"
      BY <1>1 DEF Frames
    <3>4. QED
      BY <1>1, <3>1, <3>2, <3>3, ReplaceFacts
  <2>2. CASE ReleaseOperand
    <3>1. PICK k, f : k = Top.released + 1 /\ f = [Top EXCEPT !.released = k]
      OBVIOUS
    <3>2. f \in Frames /\ f.pc = Top.pc
      <4>1. k \in Nat
        BY <1>1, <3>1 DEF Frames
      <4>2. QED
        BY <1>1, <3>1, <4>1 DEF Frames
    <3>3. Replace(f) /\ Top.pc = "release"
      BY <2>2, <3>1 DEF ReleaseOperand, Running
    <3>4. QED
      BY <1>1, <3>2, <3>3, ReplaceFacts
  <2>3. QED
    BY <2>1, <2>2
<1>4. QED
  BY <1>2, <1>3 DEF ScanExhaustive, LimitExceededOnlyForOperands, StoredStays, Running, LimitInv

\* The search of reduceCache.
LEMMA ReduceWithinLimit ==
  ASSUME LimitInv, ScanEntry \/ Evict
  PROVE  ScanExhaustive' /\ LimitExceededOnlyForOperands' /\ StoredStays'
<1>1. IInv /\ TypeOK /\ size \in Nat /\ scan.next \in Nat
  BY DEF LimitInv, IInv, TypeOK
<1>2. /\ OverLimit /\ Running("reduce")
      /\ UNCHANGED <<size, calls, locks, stack, status>>
  BY DEF ScanEntry, Evict
<1>3. MaxCacheEntries >= 0 /\ MaxCacheEntries \in Int
  BY <1>2, ProgramsAssumption DEF OverLimit
<1>4. StoredStays'
  BY <1>3 DEF StoredStays
<1>5. Top' = Top /\ Handles' = Handles
  BY <1>2 DEF Top, Depth, Handles
<1>6. LimitExceededOnlyForOperands'
  BY <1>2, <1>5 DEF LimitExceededOnlyForOperands, Running
<1>7. ScanExhaustive'
  <2>1. CASE ScanEntry
    <3>1. /\ scan' = [next |-> scan.next + 1,
                      oldest |-> IF Older(scan.next) THEN scan.next ELSE scan.oldest]
          /\ answer' = answer /\ scan.next < size
      BY <2>1 DEF ScanEntry
    <3>2. SUFFICES ASSUME scan'.oldest = Nowhere, NEW h \in Handles, h < scan.next + 1
                   PROVE  ~Evictable(h)
      BY <1>2, <1>5, <3>1 DEF ScanExhaustive, Evictable
    <3>3. scan.next # Nowhere /\ scan.next \in Handles
      BY <1>1, <3>1 DEF Nowhere, Handles
    <3>4. scan.oldest = Nowhere /\ ~Older(scan.next)
      BY <3>1, <3>2, <3>3
    <3>5. ~Evictable(scan.next)
      BY <3>4 DEF Older
    <3>6. h < scan.next \/ h = scan.next
      BY <1>1, <3>2 DEF Handles
    <3>7. QED
      BY <1>2, <3>4, <3>5, <3>6 DEF LimitInv, ScanExhaustive
  <2>2. CASE Evict
    <3>1. scan' = [next |-> 0, oldest |-> Nowhere]
      BY <2>2 DEF Evict
    <3>2. \A h \in Handles : ~(h < 0)
      BY <1>1 DEF Handles
    <3>3. QED
      BY <1>5, <3>1, <3>2 DEF ScanExhaustive
  <2>3. QED
    BY <2>1, <2>2
<1>8. QED
  BY <1>4, <1>6, <1>7

\* When reduceCache gives up, all that is resident is locked.
LEMMA GivesUpWhenLocked ==
  ASSUME LimitInv, Reduced, OverLimit
  PROVE  \A h \in Resident : locks[h] > 0
<1>1. scan.next = size /\ scan.oldest = Nowhere /\ Running("reduce")
  BY DEF Reduced
<1>2. SUFFICES ASSUME NEW h \in Handles, answer[h] # NULL
               PROVE  locks[h] > 0
  BY DEF Resident
<1>3. h < size
  BY DEF Handles, LimitInv, IInv, TypeOK
<1>4. locks[h] # 0
  BY <1>1, <1>2, <1>3 DEF LimitInv, ScanExhaustive, Evictable
<1>5. locks[h] \in Nat
  <2>1. IsFiniteSet(Holders(h)) /\ locks[h] = Cardinality(Holders(h))
    BY DEF LimitInv, IInv, HoldersFinite, LocksCountHolders
  <2>2. QED
    BY <2>1, FS_CardinalityType
<1>6. QED
  BY <1>4, <1>5

\* load returns into a frame that goes on: the frame that waits for a handle,
\* an answer or an operand.
LEMMA ReturnedFrame ==
  ASSUME IInv, ReturnHandle \/ ReturnAnswer \/ ReturnOperand
  PROVE  \E f \in Frames : ReturnInto(f) /\ f.pc = Parent.pc
<1>1. /\ Reduced /\ Parent \in Frames /\ Top \in Frames
      /\ Top.index \in Handles /\ Top.caller # "operand" => Top.want \in Exprs
  BY ParentFacts DEF ReturnHandle, ReturnAnswer, ReturnOperand
<1>2. /\ Top.index \in Handles /\ Top.index \in Nat
      /\ answer[Top.index] \in Answers \cup {NULL}
  BY <1>1, ParentFacts DEF IInv, TypeOK, Handles
<1>3. CASE ReturnHandle
  <2>1. PICK f : f = [Parent EXCEPT !.got[Top.want] = Top.index]
    OBVIOUS
  <2>2. f \in Frames /\ f.pc = Parent.pc
    BY <1>1, <1>2, <2>1 DEF Frames
  <2>3. QED
    BY <1>3, <2>1, <2>2 DEF ReturnHandle
<1>4. CASE ReturnAnswer
  <2>1. PICK f : f = [Parent EXCEPT !.seen[Top.want] = answer[Top.index]]
    OBVIOUS
  <2>2. f \in Frames /\ f.pc = Parent.pc
    BY <1>1, <1>2, <2>1 DEF Frames
  <2>3. QED
    BY <1>4, <2>1, <2>2 DEF ReturnAnswer
<1>5. CASE ReturnOperand
  <2>1. PICK f : f = [Parent EXCEPT !.operands = Append(@, Top.index)]
    OBVIOUS
  <2>2. Append(Parent.operands, Top.index) \in Seq(Nat)
    BY <1>1, <1>2 DEF Frames
  <2>3. f \in Frames /\ f.pc = Parent.pc
    BY <1>1, <2>1, <2>2 DEF Frames
  <2>4. QED
    BY <1>5, <2>1, <2>3 DEF ReturnOperand
<1>6. QED
  BY <1>3, <1>4, <1>5

LEMMA ReturnsWithinLimit ==
  ASSUME LimitInv, ReturnHandle \/ ReturnAnswer \/ ReturnOperand
  PROVE  ScanExhaustive' /\ LimitExceededOnlyForOperands' /\ StoredStays'
<1>1. IInv /\ TypeOK /\ Reduced
  BY DEF LimitInv, IInv, ReturnHandle, ReturnAnswer, ReturnOperand
<1>2. PICK f \in Frames : ReturnInto(f) /\ f.pc = Parent.pc
  BY <1>1, ReturnedFrame
<1>3. f.pc \in {"evaluate", "operands"} /\ Top.pc = "reduce" /\ Depth > 1
  BY <1>1, <1>2, ParentFacts DEF FrameAbove
<1>4. Top'.pc # "reduce"
  BY <1>1, <1>2, <1>3, ReturnFacts
<1>5. UNCHANGED <<size, answer, locks, elementsInCache, scan>>
  BY DEF ReturnHandle, ReturnAnswer, ReturnOperand
<1>6. ScanExhaustive'
  BY <1>4 DEF ScanExhaustive, Running
<1>7. StoredStays'
  <2>1. SUFFICES ASSUME MaxCacheEntries < 0
                 PROVE  status' # "crashed"
    BY <1>4 DEF StoredStays
  <2>2. status # "crashed" /\ answer[Top.index] # NULL
    BY <1>3, <2>1 DEF LimitInv, StoredStays
  <2>3. QED
    BY <2>2 DEF ReturnHandle, ReturnAnswer, ReturnOperand
<1>8. LimitExceededOnlyForOperands'
  <2>1. SUFFICES ASSUME MaxCacheEntries >= 0, elementsInCache > MaxCacheEntries
                 PROVE  \A h \in Resident : locks[h] > 0
    BY <1>5 DEF LimitExceededOnlyForOperands, Resident, Handles
  <2>2. QED
    BY <1>1, <2>1, GivesUpWhenLocked DEF OverLimit
<1>9. QED
  BY <1>6, <1>7, <1>8

\* Steps that only end the process, or do nothing.
LEMMA EndWithinLimit ==
  ASSUME LimitInv,
         FinishMain \/ EvaluationThrows \/ OperatorThrows \/ UNCHANGED vars
  PROVE  ScanExhaustive' /\ LimitExceededOnlyForOperands' /\ StoredStays'
<1>1. UNCHANGED <<size, answer, locks, elementsInCache, stack, scan>>
  BY DEF FinishMain, EvaluationThrows, OperatorThrows, vars
<1>2. status' # "running" \/ status' = status
  BY DEF FinishMain, EvaluationThrows, OperatorThrows, vars
<1>3. Top' = Top /\ Handles' = Handles /\ Resident' = Resident
  BY <1>1 DEF Top, Depth, Handles, Resident
<1>4. status' = "crashed" => status = "crashed"
  BY DEF FinishMain, EvaluationThrows, OperatorThrows, vars
<1>5. LimitExceededOnlyForOperands'
  BY <1>1, <1>3 DEF LimitInv, LimitExceededOnlyForOperands
<1>6. ScanExhaustive'
  BY <1>1, <1>2, <1>3 DEF LimitInv, ScanExhaustive, Running, Evictable
<1>7. StoredStays'
  BY <1>1, <1>3, <1>4 DEF LimitInv, StoredStays
<1>8. QED
  BY <1>5, <1>6, <1>7

-----------------------------------------------------------------------------
(***************************************************************************)
(* The theorems.                                                           *)
(***************************************************************************)
\* LimitInv holds in every state of every evaluation.
THEOREM LimitInvariant == Spec => []LimitInv
<1>1. Init => LimitInv
  <2> SUFFICES ASSUME Init
               PROVE  LimitInv
    OBVIOUS
  <2>1. IInv
    BY InitInvariant
  <2>2. PICK f : f = Frame(Nowhere, "evaluate", "main", Nothing)
    OBVIOUS
  <2>3. Top.pc = "evaluate"
    BY <2>2 DEF Init, Top, Depth, Frame
  <2>4. Resident = {}
    BY DEF Init, Resident, Handles
  <2>5. QED
    BY <2>1, <2>3, <2>4 DEF Init, LimitInv, ScanExhaustive, StoredStays, Running,
       LimitExceededOnlyForOperands
<1>2. LimitInv /\ [Next]_vars => LimitInv'
  <2> SUFFICES ASSUME LimitInv, [Next]_vars
               PROVE  LimitInv'
    OBVIOUS
  <2>1. IInv'
    BY NextInvariant DEF LimitInv
  <2>2. CASE \E e \in Exprs :
               RequestFound(e) \/ RequestNew(e) \/ ReadResident(e) \/ ReadEvicted(e)
    BY <2>1, <2>2, RequestsWithinLimit DEF LimitInv
  <2>3. CASE LockOperand
    BY <2>1, <2>3, LockWithinLimit DEF LimitInv
  <2>4. CASE LoadHexProgram \/ LoadOperatorCall
    BY <2>1, <2>4, LoadsWithinLimit DEF LimitInv
  <2>5. CASE ApplyOperator \/ ReleaseOperand
    BY <2>1, <2>5, OperatorWithinLimit DEF LimitInv
  <2>6. CASE ScanEntry \/ Evict
    BY <2>1, <2>6, ReduceWithinLimit DEF LimitInv
  <2>7. CASE ReturnHandle \/ ReturnAnswer \/ ReturnOperand
    BY <2>1, <2>7, ReturnsWithinLimit DEF LimitInv
  <2>8. CASE FinishMain \/ EvaluationThrows \/ OperatorThrows \/ UNCHANGED vars
    BY <2>1, <2>8, EndWithinLimit DEF LimitInv
  <2>9. QED
    BY <2>2, <2>3, <2>4, <2>5, <2>6, <2>7, <2>8 DEF Next, Terminated
<1>3. QED
  BY <1>1, <1>2, PTL DEF Spec

\* The cache exceeds its limit only while operator applications need all that
\* it holds ("the cache may contain an arbitrary number of elements temporarily
\* if this is necessary for operator applications", HexAnswerCache.h): whenever
\* load has returned, reduceCache has met the limit or found everything locked.
THEOREM LimitKept == Spec => []LimitExceededOnlyForOperands
<1>1. LimitInv => LimitExceededOnlyForOperands
  BY DEF LimitInv
<1>2. QED
  BY <1>1, LimitInvariant, PTL

\* Without a limit, which is how the plugin builds its cache, operator[](int)
\* never dereferences a null pointer: the answer that load stored is still
\* there when load returns.  (With a limit it can be gone: the run
\* read_after_eviction.)
THEOREM NoNullWithoutLimit == MaxCacheEntries < 0 => (Spec => []NoNullDereference)
<1> SUFFICES ASSUME MaxCacheEntries < 0
             PROVE  Spec => []NoNullDereference
  OBVIOUS
<1>1. LimitInv => NoNullDereference
  BY DEF LimitInv, StoredStays, NoNullDereference
<1>2. QED
  BY <1>1, LimitInvariant, PTL
=============================================================================
