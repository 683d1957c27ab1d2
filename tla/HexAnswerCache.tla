--------------------------- MODULE HexAnswerCache ---------------------------
(***************************************************************************)
(* The answer cache of the merging plugin, and the nested evaluation of    *)
(* HEX programs through it.                                                *)
(*                                                                         *)
(* A program asks the cache for the handle of a call (a nested program, a  *)
(* program file, or an operator applied to handles) and then reads the     *)
(* answer behind the handle.  Loading an entry evaluates a nested program, *)
(* which asks the same cache, so the C++ call stack is part of the state:  *)
(* `stack' holds one frame per call of HexAnswerCache::load in progress,   *)
(* on top of the frame of the main program.  The process is single         *)
(* threaded: only the top frame takes steps.                               *)
(*                                                                         *)
(* A handle is a position in the vectors cache, locks and accessCounter    *)
(* (0-based, like in the code).  cache[h] is split into calls[h] (the key) *)
(* and answer[h] (the pointer; NULL when the entry is not resident).       *)
(***************************************************************************)
EXTENDS MergeOperators, HexCalls, Integers, FiniteSets

CONSTANTS
  Programs,        \* texts or paths of programs, with arguments and facts
  Main,            \* the program dlvhex was started with
  Broken,          \* programs whose evaluation throws
  Solutions,       \* the answer sets a program has of its own
  Exprs,           \* the external atoms the programs can evaluate
  Body,            \* Exprs -> the call an external atom makes
  Wants,           \* Programs -> the external atoms its evaluation evaluates
  Reads,           \* Programs -> those whose answers it also inspects
  Rank,            \* Exprs -> Nat, witness that nesting is well founded
  MaxCacheEntries, \* the limit given to the constructor; negative: none
  MaxRepeats,      \* bound on repeated evaluations of an external atom
  Nothing          \* neither an atom nor an external atom

\* The null pointer to an answer.
NULL == {{Nothing}}

\* What Body gives for an external atom: a HexCall whose operands, if any,
\* are still the external atoms that will deliver their handles.
Bodies == [type : CallTypes, subject : Programs \cup Operators,
           args : Seq(Exprs), kv : Seq(KeyValues)]

ASSUME ProgramsAssumption ==
  /\ Main \in Programs
  /\ Broken \subseteq Programs
  /\ Programs \cap Operators = {}
  /\ Solutions \in [Programs -> Answers]
  /\ MaxCacheEntries \in Int
  /\ MaxRepeats \in Nat
  /\ Nothing \notin Atoms \cup Exprs

ASSUME BodyAssumption ==
  /\ Body \in [Exprs -> Bodies]
  /\ \A e \in Exprs :
       IF IsProgram(Body[e])
         THEN /\ Body[e].subject \in Programs
              /\ Body[e].args = <<>> /\ Body[e].kv = <<>>
         ELSE Body[e].subject \in Operators

\* A program inspects only answers it asked for, and applies operators only
\* to handles it obtained (or was given, which comes to the same here).
ASSUME UseAssumption ==
  /\ Wants \in [Programs -> SUBSET Exprs]
  /\ Reads \in [Programs -> SUBSET Exprs]
  /\ \A p \in Programs :
       /\ Reads[p] \subseteq Wants[p]
       /\ \A e \in Wants[p] : Range(Body[e].args) \subseteq Wants[p]

\* Nested programs are part of the text of the program that calls them, and
\* files do not call themselves: the evaluation of a program never needs, at
\* any depth, the program itself.
ASSUME NestingAssumption ==
  /\ Rank \in [Exprs -> Nat]
  /\ \A e \in Exprs :
       IF IsProgram(Body[e])
         THEN \A d \in Wants[Body[e].subject] : Rank[d] < Rank[e]
         ELSE \A d \in Range(Body[e].args) : Rank[d] < Rank[e]

VARIABLES
  size,            \* cache.size()
  calls,           \* cache[h].first
  answer,          \* cache[h].second
  locks,
  accessCounter,
  elementsInCache,
  stack,           \* activation records, the top one last
  scan,            \* the search loop of reduceCache
  status,          \* "running", "done", "failed" (exception), "crashed"
  repeats          \* external atoms evaluated again so far

vars == <<size, calls, answer, locks, accessCounter, elementsInCache,
          stack, scan, status, repeats>>

entries == <<size, calls>>

Handles == 0 .. size - 1

Nowhere == -1      \* a handle not obtained yet; the index of the main frame

Resident == {h \in Handles : answer[h] # NULL}

-----------------------------------------------------------------------------
(***************************************************************************)
(* Activation records.  A frame is one call of load(index) together with   *)
(* loadHexProgram, loadHexFile or loadOperatorCall under it, and with the  *)
(* function that called load: operator[](HexCall) ("request"),             *)
(* operator[](int) ("read") or loadOperatorCall ("operand").               *)
(***************************************************************************)
Frames ==
  [index    : Nat \cup {Nowhere},       \* the entry being loaded
   caller   : {"main", "request", "read", "operand"},
   want     : Exprs \cup {Nothing},       \* the atom the caller evaluates
   pc       : {"evaluate", "operands", "release", "reduce"},
   got      : [Exprs -> Nat \cup {Nowhere}],   \* a program: handles obtained
   seen     : [Exprs -> Answers \cup {NULL}],  \* a program: answers read
   locked   : Nat,                      \* an operator: operands locked
   released : Nat,                      \* an operator: operands unlocked
   operands : Seq(Nat),                 \* an operator: vector `answers'
   result   : Answers \cup {NULL}]

Frame(h, pc, caller, e) ==
  [index |-> h, caller |-> caller, want |-> e, pc |-> pc,
   got |-> [d \in Exprs |-> Nowhere], seen |-> [d \in Exprs |-> NULL],
   locked |-> 0, released |-> 0, operands |-> <<>>, result |-> NULL]

\* The frame of load(h): the switch over the type of the call.
LoadFrame(h, c, caller, e) ==
  Frame(h, IF IsProgram(c) THEN "evaluate" ELSE "operands", caller, e)

Depth == Len(stack)
Top == stack[Depth]
Running(pc) == status = "running" /\ Top.pc = pc

Replace(f) == stack' = [stack EXCEPT ![Depth] = f]
Push(f) == stack' = Append(stack, f)
\* The top frame returns, leaving the frame below as f.
ReturnInto(f) ==
  stack' = [i \in 1 .. Depth - 1 |-> IF i = Depth - 1 THEN f ELSE stack[i]]

-----------------------------------------------------------------------------
\* The linear search of operator[](HexCall).
FoundAt(h, d) ==
  /\ MayEqual(calls[h], d)
  /\ \A k \in 0 .. h - 1 : ~MustEqual(calls[k], d)

\* Mutant: entries whose answer was evicted are not found.
NotFoundResident(d) ==
  \A k \in Handles : answer[k] = NULL \/ ~MustEqual(calls[k], d)

NotFound(d) == \A k \in Handles : ~MustEqual(calls[k], d)

\* The call an external atom makes, given the handles obtained so far.
CallOf(e, got) ==
  [Body[e] EXCEPT !.args = [i \in DOMAIN Body[e].args |-> got[Body[e].args[i]]]]

-----------------------------------------------------------------------------
\* void access(index)
Access(h) ==
  accessCounter' = [i \in Handles |-> IF i = h THEN 0 ELSE accessCounter[i] + 1]

\* cache[h].second == NULL. The mutant is a load that does not look.
MissingAssumed(h) == h \in Handles

Missing(h) == answer[h] = NULL

\* The program whose evaluation a frame is.
ProgramOf(f) == IF f.index = Nowhere THEN Main ELSE calls[f.index].subject

\* The operands of the operator call a frame computes.
ArgsOf(f) == calls[f.index].args

\* An external atom may be evaluated once for every input interpretation.
Again(done) ==
  IF done THEN repeats < MaxRepeats /\ repeats' = repeats + 1
          ELSE UNCHANGED repeats

\* e can be evaluated: the handles it is applied to are known.  The mutant
\* applies operators to handles it was never given.
ReadyUnchecked(e) == e \in Wants[ProgramOf(Top)]

Ready(e) ==
  /\ e \in Wants[ProgramOf(Top)]
  /\ \A d \in Range(Body[e].args) : Top.got[d] # Nowhere

-----------------------------------------------------------------------------
(***************************************************************************)
(* operator[](const HexCall).                                              *)
(***************************************************************************)
\* The call is in the cache: its index is returned, without access().
RequestFound(e) ==
  /\ Running("evaluate") /\ ProgramOf(Top) \notin Broken
  /\ Ready(e)
  /\ Again(Top.got[e] # Nowhere)
  /\ \E h \in Handles :
       /\ FoundAt(h, CallOf(e, Top.got))
       /\ Replace([Top EXCEPT !.got[e] = h])
  /\ UNCHANGED <<size, calls, answer, locks, accessCounter, elementsInCache,
                 scan, status>>

\* It is not: an entry without answer is appended and loaded.
RequestNew(e) ==
  LET c == CallOf(e, Top.got) IN
  /\ Running("evaluate") /\ ProgramOf(Top) \notin Broken
  /\ Ready(e)
  /\ Again(Top.got[e] # Nowhere)
  /\ NotFound(c)
  /\ size' = size + 1
  /\ calls' = [h \in 0 .. size |-> IF h = size THEN c ELSE calls[h]]
  /\ answer' = [h \in 0 .. size |-> IF h = size THEN NULL ELSE answer[h]]
  /\ locks' = [h \in 0 .. size |-> IF h = size THEN 0 ELSE locks[h]]
  /\ accessCounter' = [h \in 0 .. size |-> IF h = size THEN 0 ELSE accessCounter[h]]
  /\ Push(LoadFrame(size, c, "request", e))
  /\ UNCHANGED <<elementsInCache, scan, status>>

(***************************************************************************)
(* operator[](const int), on an entry that is resident, and on one that    *)
(* has to be loaded again.                                                 *)
(***************************************************************************)
Readable(e) ==
  /\ Running("evaluate") /\ ProgramOf(Top) \notin Broken
  /\ e \in Reads[ProgramOf(Top)]
  /\ Top.got[e] \in Handles
  /\ Again(Top.seen[e] # NULL)

ReadResident(e) ==
  /\ Readable(e)
  /\ ~Missing(Top.got[e])
  /\ Access(Top.got[e])
  /\ Replace([Top EXCEPT !.seen[e] = answer[Top.got[e]]])
  /\ UNCHANGED <<size, calls, answer, locks, elementsInCache, scan, status>>

ReadEvicted(e) ==
  /\ Readable(e)
  /\ Missing(Top.got[e])
  /\ Push(LoadFrame(Top.got[e], calls[Top.got[e]], "read", e))
  /\ UNCHANGED <<size, calls, answer, locks, accessCounter, elementsInCache,
                 scan, status>>

-----------------------------------------------------------------------------
(***************************************************************************)
(* load(index), once the answer is there: it is stored, counted, and       *)
(* reduceCache begins.                                                     *)
(***************************************************************************)
Store(f, result) ==
  /\ answer' = [answer EXCEPT ![f.index] = result]
  /\ elementsInCache' = elementsInCache + 1
  /\ Replace([f EXCEPT !.pc = "reduce"])
  /\ scan' = [next |-> 0, oldest |-> Nowhere]
  /\ UNCHANGED <<size, calls, locks, accessCounter, status, repeats>>

\* evaluateSubprogram: a program has its own answer sets, each extended by
\* atoms taken over from the answers it inspected.
Evaluate(p, seen) ==
  {s \cup UNION {UNION seen[e] : e \in Reads[p]} : s \in Solutions[p]}

\* The program has evaluated all its external atoms.
Evaluated ==
  /\ Running("evaluate") /\ ProgramOf(Top) \notin Broken
  /\ \A e \in Wants[ProgramOf(Top)] : Top.got[e] # Nowhere
  /\ \A e \in Reads[ProgramOf(Top)] : Top.seen[e] # NULL

\* loadHexProgram and loadHexFile.
LoadHexProgram ==
  /\ Evaluated
  /\ Top.index # Nowhere
  /\ Store(Top, Evaluate(ProgramOf(Top), Top.seen))

\* The main program is finished.
FinishMain ==
  /\ Evaluated
  /\ Top.index = Nowhere
  /\ status' = "done"
  /\ UNCHANGED <<size, calls, answer, locks, accessCounter, elementsInCache,
                 stack, scan, repeats>>

\* The evaluation throws; no function on the way up handles the exception,
\* the external atom turns it into a PluginError and dlvhex terminates.
EvaluationThrows ==
  /\ Running("evaluate") /\ ProgramOf(Top) \in Broken
  /\ status' = "failed"
  /\ UNCHANGED <<size, calls, answer, locks, accessCounter, elementsInCache,
                 stack, scan, repeats>>

-----------------------------------------------------------------------------
(***************************************************************************)
(* loadOperatorCall: collect the operands, apply, unlock the operands.     *)
(***************************************************************************)
\* The next operand is locked; its answer pointer is collected at once if it
\* is resident, and after loading it otherwise.
LockOperand ==
  LET f == Top
      h == ArgsOf(f)[f.locked + 1]
      g == [f EXCEPT !.locked = @ + 1]
  IN
  /\ Running("operands")
  /\ f.locked = Len(f.operands)
  /\ f.locked < Len(ArgsOf(f))
  /\ locks' = [locks EXCEPT ![h] = @ + 1]
  /\ IF Missing(h)
       THEN stack' = Append([stack EXCEPT ![Depth] = g],
                            LoadFrame(h, calls[h], "operand", Nothing))
       ELSE Replace([g EXCEPT !.operands = Append(@, h)])
  /\ UNCHANGED <<size, calls, answer, accessCounter, elementsInCache, scan,
                 status, repeats>>

Collected ==
  /\ Running("operands")
  /\ Len(Top.operands) = Len(ArgsOf(Top))

\* The operands are dereferenced and the operator is applied.
ApplyOperator ==
  LET c == calls[Top.index]
      inputs == [i \in DOMAIN Top.operands |-> answer[Top.operands[i]]]
  IN
  /\ Collected
  /\ Accepts(c.subject, Len(c.args), c.kv)
  /\ Replace([Top EXCEPT !.pc = "release", !.result = Apply(c.subject, inputs, c.kv)])
  /\ UNCHANGED <<size, calls, answer, locks, accessCounter, elementsInCache,
                 scan, status, repeats>>

\* A parameter is not recognised or the operator throws.
OperatorThrows ==
  /\ Collected
  /\ ~Accepts(calls[Top.index].subject, Len(ArgsOf(Top)), calls[Top.index].kv)
  /\ status' = "failed"
  /\ UNCHANGED <<size, calls, answer, locks, accessCounter, elementsInCache,
                 stack, scan, repeats>>

\* Mutant: a lock is a flag, not a counter.
UnlockAll(h) == locks' = [locks EXCEPT ![h] = 0]

Unlock(h) == locks' = [locks EXCEPT ![h] = @ - 1]

ReleaseOperand ==
  LET h == ArgsOf(Top)[Top.released + 1] IN
  /\ Running("release")
  /\ Top.released < Len(ArgsOf(Top))
  /\ Unlock(h)
  /\ Replace([Top EXCEPT !.released = @ + 1])
  /\ UNCHANGED <<size, calls, answer, accessCounter, elementsInCache, scan,
                 status, repeats>>

LoadOperatorCall ==
  /\ Running("release")
  /\ Top.released = Len(ArgsOf(Top))
  /\ Store([Top EXCEPT !.operands = <<>>, !.result = NULL], Top.result)

-----------------------------------------------------------------------------
(***************************************************************************)
(* reduceCache.  The search compares access counters with the *index* of   *)
(* the candidate found so far.                                             *)
(***************************************************************************)
\* Mutants: a negative limit is not recognised, and an off-by-one.
OverAnyLimit == elementsInCache > MaxCacheEntries
OverLimitByTwo == MaxCacheEntries >= 0 /\ elementsInCache > MaxCacheEntries + 1

OverLimit == MaxCacheEntries >= 0 /\ elementsInCache > MaxCacheEntries

\* Mutant: locks are not respected.
EvictableLocked(h) == answer[h] # NULL

Evictable(h) == locks[h] = 0 /\ answer[h] # NULL

Older(i) ==
  /\ Evictable(i)
  /\ scan.oldest = Nowhere \/ accessCounter[i] > scan.oldest

ScanEntry ==
  /\ Running("reduce") /\ OverLimit
  /\ scan.next < size
  /\ scan' = [next |-> scan.next + 1,
              oldest |-> IF Older(scan.next) THEN scan.next ELSE scan.oldest]
  /\ UNCHANGED <<size, calls, answer, locks, accessCounter, elementsInCache,
                 stack, status, repeats>>

\* Mutant: the deletion is not counted.
DeleteUncounted(h) ==
  /\ answer' = [answer EXCEPT ![h] = NULL]
  /\ accessCounter' = [accessCounter EXCEPT ![h] = 0]
  /\ UNCHANGED elementsInCache

Delete(h) ==
  /\ answer' = [answer EXCEPT ![h] = NULL]
  /\ accessCounter' = [accessCounter EXCEPT ![h] = 0]
  /\ elementsInCache' = elementsInCache - 1

\* The candidate is deleted, and the search starts again.
Evict ==
  /\ Running("reduce") /\ OverLimit
  /\ scan.next = size
  /\ scan.oldest # Nowhere
  /\ Delete(scan.oldest)
  /\ scan' = [next |-> 0, oldest |-> Nowhere]
  /\ UNCHANGED <<size, calls, locks, stack, status, repeats>>

\* Mutant: the search does not give up when no entry can be removed.
ReducedToLimit == Running("reduce") /\ ~OverLimit

\* The limit is met, or no entry can be removed: reduceCache and load return.
Reduced ==
  /\ Running("reduce")
  /\ ~OverLimit \/ (scan.next = size /\ scan.oldest = Nowhere)

(***************************************************************************)
(* What the caller of load does next.                                      *)
(***************************************************************************)
Parent == stack[Depth - 1]

ReturnHandle ==
  /\ Reduced /\ Top.caller = "request"
  /\ Access(Top.index)
  /\ ReturnInto([Parent EXCEPT !.got[Top.want] = Top.index])
  /\ UNCHANGED <<size, calls, answer, locks, elementsInCache, scan, status, repeats>>

\* "Now it's in the cache for sure": if it is not, a null pointer is
\* dereferenced.
ReturnAnswer ==
  /\ Reduced /\ Top.caller = "read"
  /\ Access(Top.index)
  /\ ReturnInto([Parent EXCEPT !.seen[Top.want] = answer[Top.index]])
  /\ status' = IF answer[Top.index] = NULL THEN "crashed" ELSE status
  /\ UNCHANGED <<size, calls, answer, locks, elementsInCache, scan, repeats>>

ReturnOperand ==
  /\ Reduced /\ Top.caller = "operand"
  /\ ReturnInto([Parent EXCEPT !.operands = Append(@, Top.index)])
  /\ UNCHANGED <<size, calls, answer, locks, accessCounter, elementsInCache,
                 scan, status, repeats>>
-----------------------------------------------------------------------------
Init ==
  /\ size = 0
  /\ calls = <<>> /\ answer = <<>> /\ locks = <<>> /\ accessCounter = <<>>
  /\ elementsInCache = 0
  /\ stack = <<Frame(Nowhere, "evaluate", "main", Nothing)>>
  /\ scan = [next |-> 0, oldest |-> Nowhere]
  /\ status = "running"
  /\ repeats = 0

\* The process has ended, so that a state without successor is a deadlock.
Terminated == status # "running" /\ UNCHANGED vars

Next ==
  \/ \E e \in Exprs : RequestFound(e)
  \/ \E e \in Exprs : RequestNew(e)
  \/ \E e \in Exprs : ReadResident(e)
  \/ \E e \in Exprs : ReadEvicted(e)
  \/ LoadHexProgram
  \/ FinishMain
  \/ EvaluationThrows
  \/ LockOperand
  \/ ApplyOperator
  \/ OperatorThrows
  \/ ReleaseOperand
  \/ LoadOperatorCall
  \/ ScanEntry
  \/ Evict
  \/ ReturnHandle
  \/ ReturnAnswer
  \/ ReturnOperand
  \/ Terminated

Spec == Init /\ [][Next]_vars

\* The process is the only thread and its steps do not wait for anything.
FairSpec == Spec /\ WF_vars(Next)
-----------------------------------------------------------------------------
(***************************************************************************)
(* Properties.                                                             *)
(***************************************************************************)
Calls == [type : CallTypes, subject : Programs \cup Operators,
          args : Seq(Nat), kv : Seq(KeyValues)]

\* The three vectors have one element per handle; frames are well formed.
TypeOK ==
  /\ size \in Nat
  /\ calls \in [Handles -> Calls]
  /\ answer \in [Handles -> Answers \cup {NULL}]
  /\ locks \in [Handles -> Int]
  /\ accessCounter \in [Handles -> Nat]
  /\ elementsInCache \in Int
  /\ stack \in Seq(Frames) /\ stack # <<>>
  /\ scan \in [next : Nat, oldest : Nat \cup {Nowhere}]
  /\ status \in {"running", "done", "failed", "crashed"}
  /\ repeats \in Nat

\* The frames of operator calls that are collecting operands.
Collecting == {i \in 1 .. Depth : stack[i].pc = "operands"}

\* Every operand pointer an operator has collected still points to the answer
\* of that operand, however many nested programs and operators are evaluated
\* and however many entries are evicted before the operator is applied
\* (loadOperatorCall keeps raw pointers in `answers' while it loads others).
OperandsValid(f) ==
  \A j \in 1 .. Len(f.operands) :
    f.operands[j] = ArgsOf(f)[j] /\ answer[f.operands[j]] # NULL

OperandsResident == \A i \in Collecting : OperandsValid(stack[i])

\* The operand positions through which an operator call holds entry h locked.
HeldBy(f, h) ==
  IF f.pc \in {"operands", "release"}
    THEN {j \in f.released + 1 .. f.locked : ArgsOf(f)[j] = h}
    ELSE {}

Holders(h) == UNION {{i} \X HeldBy(stack[i], h) : i \in 1 .. Depth}

\* An entry is locked as often as operator calls in progress use it: nested
\* and repeated uses of one operand do not unlock it early, nothing stays
\* locked, and assert(locks[*it] > 0) cannot fail.
LocksCountHolders == \A h \in Handles : locks[h] = Cardinality(Holders(h))

\* elementsInCache, on which the limit is enforced, is the number of answers
\* that are in memory, also after nested loads and evictions within a load.
CountMatchesResident == elementsInCache = Cardinality(Resident)

\* load is entered only for entries that are not in the cache and not being
\* loaded further down the call stack, and the entry is still empty when the
\* answer is stored (assert(cache[index].second == NULL); a second answer
\* would leak the first and be counted twice).
LoadsAreDisjoint ==
  /\ \A i \in 2 .. Depth : stack[i].pc # "reduce" => answer[stack[i].index] = NULL
  /\ \A i, j \in 2 .. Depth : stack[i].index = stack[j].index => i = j

\* Whenever a program or an operator call continues, the cache is within its
\* limit or all that it holds is locked by operator applications: "the cache
\* may contain an arbitrary number of elements temporarily if this is
\* necessary for operator applications" (HexAnswerCache.h), and only then.
LimitExceededOnlyForOperands ==
  /\ MaxCacheEntries >= 0
  /\ elementsInCache > MaxCacheEntries
  /\ Top.pc \in {"evaluate", "operands"}
  => \A h \in Resident : locks[h] > 0

\* Two calls that ask for the same thing.
Equivalent(c, d) ==
  /\ c.type = d.type /\ c.subject = d.subject
  /\ c.args = d.args
  /\ Range(c.kv) = Range(d.kv)

\* operator[](HexCall) returns the handle of the call it was given ("True in
\* case that the calls are equivalent", HexAnswerCache.h on operator==), and
\* the handle goes on standing for that call.
HandleDenotesCall ==
  \A i \in 1 .. Depth : \A e \in Exprs :
    LET f == stack[i] IN
    f.got[e] # Nowhere =>
      /\ f.got[e] \in Handles
      /\ Equivalent(calls[f.got[e]], CallOf(e, f.got))

\* The answer of an external atom, by evaluating everything below it anew.
Meaning[e \in Exprs] ==
  LET b == Body[e] IN
  IF IsProgram(b)
    THEN Evaluate(b.subject, [d \in Reads[b.subject] |-> Meaning[d]])
    ELSE Apply(b.subject, [i \in DOMAIN b.args |-> Meaning[b.args[i]]], b.kv)

\* Caching is transparent: whatever was found, evicted and loaded again, in
\* whatever order, a program reads through a handle the answer that evaluating
\* the call from scratch would give.
ReadsDeliverMeaning ==
  \A i \in 1 .. Depth : \A e \in Exprs :
    stack[i].seen[e] # NULL => stack[i].seen[e] = Meaning[e]

\* Reading through a handle never dereferences a null pointer ("now it's in
\* the cache for sure", HexAnswerCache.cpp).
NoNullDereference == status # "crashed"

\* The unlimited cache of the plugin evaluates every program and applies every
\* operator once: load is only ever called for a new entry.
LoadedOnce ==
  MaxCacheEntries < 0 => \A i \in 2 .. Depth : stack[i].caller = "request"

\* loadOperatorCall goes on using a reference into the vector `cache' after it
\* loaded operands: loading an operand again never appends an entry, which
\* could move the vector and leave the reference dangling.
CallReferenceValid == [][Collecting # {} => UNCHANGED entries]_vars

\* reduceCache is about to delete an entry.
Victim(h) ==
  Running("reduce") /\ OverLimit /\ scan.next = size /\ scan.oldest = h

\* "find element with oldes access timestamp ... remove oldest element"
\* (HexAnswerCache.cpp, reduceCache).
EvictsOldest ==
  \A h \in Handles : Victim(h) =>
    \A k \in Handles : Evictable(k) => accessCounter[k] <= accessCounter[h]

\* Every evaluation comes to an end: nested loads and the search for entries
\* to evict, even if all of them are locked, terminate.
Termination == <>(status # "running")
=============================================================================
