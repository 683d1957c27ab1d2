---------------------- MODULE HexAnswerCacheInvariant -----------------------
(***************************************************************************)
(* The inductive invariant of HexAnswerCache: what relates the frames of   *)
(* the call stack to each other, to the entries and to the locks.          *)
(***************************************************************************)
EXTENDS HexAnswerCache

\* Programs have no operands; an operator is applied to earlier entries only.
CallsWellFormed ==
  \A h \in Handles :
    IF IsProgram(calls[h])
      THEN calls[h].subject \in Programs /\ calls[h].args = <<>>
      ELSE /\ calls[h].subject \in Operators
           /\ \A j \in DOMAIN calls[h].args : calls[h].args[j] \in 0 .. h - 1

\* A frame by itself: the main program is at the bottom, every other frame
\* loads an entry and does so in the way the type of the call demands.
FrameWellFormed(i, f) ==
  /\ \A e \in Exprs : f.got[e] \in Handles \cup {Nowhere}
  /\ IF i = 1
       THEN f.index = Nowhere /\ f.pc = "evaluate"
       ELSE /\ f.index \in Handles
            /\ f.caller # "main"
            /\ f.caller # "operand" => f.want \in Exprs
            /\ f.pc = "evaluate" => IsProgram(calls[f.index])
            /\ f.pc \in {"operands", "release"} => ~IsProgram(calls[f.index])

\* The counters of a frame that computes an operator call.
OperandsWellFormed(f) ==
  /\ f.pc = "operands" =>
       /\ f.released = 0
       /\ Len(f.operands) <= f.locked /\ f.locked <= Len(ArgsOf(f))
  /\ f.pc = "release" =>
       /\ f.locked = Len(ArgsOf(f)) /\ f.released <= f.locked
       /\ f.result \in Answers

\* A frame f and the frame g above it, which f is waiting for.
FrameAbove(f, g) ==
  /\ f.pc \in {"evaluate", "operands"}
  /\ f.pc = "operands" <=> g.caller = "operand"
  /\ f.pc = "operands" =>
       f.locked = Len(f.operands) + 1 /\ g.index = ArgsOf(f)[f.locked]

StackWellFormed ==
  /\ \A i \in 1 .. Depth : FrameWellFormed(i, stack[i])
  /\ \A i \in 1 .. Depth : OperandsWellFormed(stack[i])
  /\ \A i \in 1 .. Depth - 1 : FrameAbove(stack[i], stack[i + 1])
  /\ Top.pc = "operands" => Top.locked = Len(Top.operands)

\* The candidate reduceCache has found so far may be evicted.
ScanWellFormed ==
  Running("reduce") =>
    /\ scan.next <= size
    /\ scan.oldest # Nowhere => scan.oldest \in Handles /\ Evictable(scan.oldest)

\* reduceCache does not evict the operand that has just been loaded.
OperandLoaded ==
  Top.pc = "reduce" /\ Top.caller = "operand" => answer[Top.index] # NULL

HoldersFinite == \A h \in Handles : IsFiniteSet(Holders(h))

IInv ==
  /\ TypeOK
  /\ CallsWellFormed
  /\ StackWellFormed
  /\ ScanWellFormed
  /\ OperandLoaded
  /\ HoldersFinite /\ LocksCountHolders
  /\ OperandsResident

-----------------------------------------------------------------------------
(***************************************************************************)
(* What the limit of the cache needs, on top of IInv.                      *)
(***************************************************************************)
\* While the search of reduceCache has no candidate, it passed none.
ScanExhaustive ==
  Running("reduce") /\ scan.oldest = Nowhere =>
    \A h \in Handles : h < scan.next => ~Evictable(h)

\* Without a limit, an answer that was stored is there when load returns.
StoredStays ==
  MaxCacheEntries < 0 =>
    status # "crashed" /\ (Top.pc = "reduce" => answer[Top.index] # NULL)

LimitInv ==
  /\ IInv
  /\ ScanExhaustive /\ LimitExceededOnlyForOperands
  /\ StoredStays

-----------------------------------------------------------------------------
(***************************************************************************)
(* What the handles stand for.                                             *)
(***************************************************************************)
\* The external atoms that are evaluated at all.
Wanted == UNION {Wants[p] : p \in Programs}

\* No two entries have the same call.
CallsDistinct ==
  \A h, k \in Handles : Equivalent(calls[h], calls[k]) => h = k

\* D gives the handle that an external atom has wherever it is evaluated: no
\* two programs obtain different handles for it.
Denotations == [Exprs -> Nat \cup {Nowhere}]

\* r bounds the nesting of the loads of an entry: whatever loading it may load
\* has a lower rank, so no load can meet itself on the call stack.
EntryRanked(r, h) ==
  LET c == calls[h] IN
  IF IsProgram(c)
    THEN /\ \A e \in Exprs : Body[e].subject = c.subject => r[h] <= Rank[e]
         /\ \A d \in Wants[c.subject] : Rank[d] < r[h]
    ELSE /\ \A j \in DOMAIN c.args : r[c.args[j]] < r[h]
         /\ \A n \in Nat : (\A j \in DOMAIN c.args : r[c.args[j]] < n) => r[h] <= n

\* m gives the answers that the entries have whenever they are resident.
Meanings == {Meaning[e] : e \in Exprs} \cup {NULL}

EntryMeans(m, h) ==
  LET c == calls[h] IN
  m[h] = IF IsProgram(c)
           THEN Evaluate(c.subject, [d \in Reads[c.subject] |-> Meaning[d]])
           ELSE Apply(c.subject, [j \in DOMAIN c.args |-> m[c.args[j]]], c.kv)

AtomExplained(D, r, m, e) ==
  /\ D[e] \in Handles
  /\ Equivalent(calls[D[e]], CallOf(e, D))
  /\ \A d \in Range(Body[e].args) : D[d] # Nowhere
  /\ r[D[e]] <= Rank[e]
  /\ m[D[e]] = Meaning[e]

EntriesExplained(D, r, m) ==
  /\ CallsDistinct
  /\ \A h \in Handles : \E e \in Wanted : D[e] = h
  /\ \A h \in Handles : EntryRanked(r, h) /\ EntryMeans(m, h)
  /\ \A e \in Exprs : D[e] # Nowhere => AtomExplained(D, r, m, e)

\* The handles and answers a frame has, and the result it computed.
FrameExplained(D, m, f) ==
  /\ \A e \in Exprs : f.got[e] # Nowhere =>
       /\ f.got[e] = D[e]
       /\ \A d \in Range(Body[e].args) : f.got[d] # Nowhere
  /\ \A e \in Exprs : f.seen[e] # NULL => f.seen[e] = Meaning[e]
  /\ f.pc = "release" => f.result = m[f.index]

\* g loads the entry of the external atom that the frame f below it evaluates.
LoadExplained(D, f, g) ==
  g.caller \in {"request", "read"} =>
    /\ D[g.want] = g.index
    /\ \A d \in Range(Body[g.want].args) : f.got[d] # Nowhere

StackExplained(D, r, m) ==
  /\ \A i \in 1 .. Depth : FrameExplained(D, m, stack[i])
  /\ \A i \in 1 .. Depth - 1 : LoadExplained(D, stack[i], stack[i + 1])
  /\ \A i, j \in 2 .. Depth : i < j => r[stack[j].index] < r[stack[i].index]

AnswersExplained(m) == \A h \in Handles : answer[h] # NULL => answer[h] = m[h]

\* An entry is being loaded for the first time until its program has evaluated
\* its external atoms; these have handles from then on.
FirstLoad(f, h) == f.index = h /\ f.caller = "request" /\ f.pc = "evaluate"

Settled(D) ==
  \A h \in Handles :
    \/ ~IsProgram(calls[h])
    \/ \A e \in Wants[calls[h].subject] : D[e] # Nowhere
    \/ \E i \in 2 .. Depth : FirstLoad(stack[i], h)

Explained(D, r, m) ==
  /\ EntriesExplained(D, r, m)
  /\ StackExplained(D, r, m)
  /\ AnswersExplained(m)
  /\ Settled(D)

\* Operands are loaded again, never for the first time.
OperandsReloaded ==
  \A i, j \in 1 .. Depth :
    i < j /\ stack[i].pc = "operands" => stack[j].caller # "request"

\* An entry stays empty while it is being loaded.
LoadsEmpty ==
  \A i \in 2 .. Depth : stack[i].pc # "reduce" => answer[stack[i].index] = NULL

\* Nothing is evicted from an unlimited cache.
ResidentOrLoading ==
  MaxCacheEntries < 0 =>
    \A h \in Handles : answer[h] = NULL =>
      \E i \in 2 .. Depth : stack[i].index = h /\ stack[i].pc # "reduce"

LoadsInOrder ==
  /\ OperandsReloaded /\ LoadsEmpty /\ CountMatchesResident
  /\ ResidentOrLoading /\ LoadedOnce

HandleInv ==
  /\ IInv
  /\ LoadsInOrder
  /\ \E D \in Denotations, r \in [Nat -> Nat], m \in [Nat -> Meanings] : Explained(D, r, m)
=============================================================================
