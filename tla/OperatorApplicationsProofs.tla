---------------------- MODULE OperatorApplicationsProofs ----------------------
(***************************************************************************)
(* Proofs about dbo and dalal, applied in turns: the names in a written    *)
(* program are pairwise different, and every renamed predicate is known    *)
(* when it is looked up, for all sources, all parameters and any number of *)
(* applications. The two operators have counters of their own and share    *)
(* the rest, so what a step does to the program is stated once and shown   *)
(* of the actions of both.                                                 *)
(***************************************************************************)
EXTENDS OperatorApplications, RecursionLemmas, FiniteSetTheorems

-------------------------------------------------------------------------------
(***************************************************************************)
(* What a step does to the program, whichever operator takes it.           *)
(***************************************************************************)
\* A role gets a name that is not in use, wherever the counter stands.
MakesName(role, prefix) ==
  \E n \in Int :
    /\ Candidate(prefix, n) \notin UsedPredNames
    /\ names' = [r \in DOMAIN names \cup {role} |->
                   IF r = role THEN Candidate(prefix, n) ELSE names[r]]

Begins ==
  /\ call' \in Calls \cup DalalCalls
  /\ names' = <<>> /\ merged' = <<>>
  /\ at' = 1 /\ src' = 1 /\ pc' = "naming"

NamesGlobal ==
  /\ pc = "naming"
  /\ at \in DOMAIN GlobalRoles
  /\ MakesName(GlobalRoles[at], Plain(GlobalRoles[at][1]))
  /\ at' \in Nat \ {0} /\ pc' \in {"naming", "parsing"}
  /\ UNCHANGED <<call, src, merged>>

NamesLocal ==
  /\ pc = "renaming" /\ pc' = "renaming"
  /\ src <= Arity
  /\ LET p == PropositionOrder[at]
     IN  \/ /\ p \in SourceAtoms
            /\ MakesName(Local(src, p.pred), p.pred)
         \/ /\ p \in SourceAtoms => Local(src, p.pred) \in DOMAIN names
            /\ UNCHANGED names
  /\ at' = at + 1
  /\ UNCHANGED <<call, src, merged>>

AllRenamed ==
  /\ pc = "renaming" /\ pc' = "selecting"
  /\ src <= Arity
  /\ at > Len(PropositionOrder)
  /\ at' = 1
  /\ UNCHANGED <<call, src, names, merged>>

NamesSelector ==
  /\ pc = "selecting" /\ pc' = "selecting"
  /\ at <= Len(call.sources[src])
  /\ MakesName(Selector(src, at), Plain("as_"))
  /\ at' = at + 1
  /\ UNCHANGED <<call, src, merged>>

ChargesSource ==
  /\ pc = "selecting" /\ pc' = "renaming"
  /\ \E m : merged' = Append(merged, m)
  /\ src' = src + 1 /\ at' = 1
  /\ UNCHANGED <<call, names>>

StartsRenaming ==
  /\ pc = "parsing" /\ pc' = "renaming"
  /\ at' = 1
  /\ UNCHANGED <<call, src, names, merged>>

Proceeds ==
  /\ pc' \notin {"renaming", "selecting"}
  /\ at' \in {at, at + 1}
  /\ UNCHANGED <<call, src, names, merged>>

ProgramUnchanged == UNCHANGED <<pc, call, at, src, names, merged>>

ProgramStep ==
  \/ Begins \/ NamesGlobal \/ NamesLocal \/ AllRenamed \/ NamesSelector
  \/ ChargesSource \/ StartsRenaming \/ Proceeds \/ ProgramUnchanged

-------------------------------------------------------------------------------
(***************************************************************************)
(* The inductive invariant.                                                *)
(***************************************************************************)
\* Variables that only bound each other within a step.
ScalarsOK ==
  /\ ri \in Nat /\ dalalRi \in Nat
  /\ sourceNr \in Nat /\ dalalSourceNr \in Nat
  /\ noPredicate \in {0, 1}
  /\ "noPred" \in DOMAIN setting /\ setting.noPred \in {0, 1}
  /\ applications \in 0 .. MaxApplications
  /\ pc \in {"idle", "naming", "parsing", "renaming", "selecting", "solving", "done", "failed"}
  /\ operator \in {"none", "dbo", "dalal", "majorityselection", "relationmerging"}

\* The predicates of the atoms before the current one have been renamed for
\* the current source, or those of all atoms.
RenamedBefore ==
  \A j \in DOMAIN PropositionOrder :
    j < at /\ PropositionOrder[j] \in SourceAtoms =>
      Local(src, PropositionOrder[j].pred) \in DOMAIN names

RenamedAll ==
  \A j \in DOMAIN PropositionOrder :
    PropositionOrder[j] \in SourceAtoms =>
      Local(src, PropositionOrder[j].pred) \in DOMAIN names

ProgramInv ==
  /\ call \in Calls \cup DalalCalls \cup {NoCall}
  /\ at \in Nat \ {0}
  /\ src \in 1 .. Arity + 1
  /\ DOMAIN names \subseteq Roles
  /\ \E S : merged \in Seq(S)
  /\ Len(merged) < src
  /\ NamesApart
  /\ pc = "renaming" => RenamedBefore
  /\ pc = "selecting" => RenamedAll /\ src <= Arity

ApplicationsInv == ScalarsOK /\ ProgramInv

-------------------------------------------------------------------------------
(***************************************************************************)
(* The program.                                                            *)
(***************************************************************************)
\* Sources are sequences of answers, which are sequences of answer sets.
LEMMA SourcesAreLists ==
  ASSUME call \in Calls \cup DalalCalls \cup {NoCall}
  PROVE  /\ call.sources \in Seq(Seq(SUBSET [prop : Propositions, neg : BOOLEAN]))
         /\ Arity \in Nat
<1>1. CASE call = NoCall
  <2>1. call.sources = <<>>
    BY <1>1 DEF NoCall
  <2>2. QED
    BY <2>1 DEF Arity
<1>2. CASE call \in Calls \cup DalalCalls
  <2>1. call.sources \in Seq(Seq(SUBSET [prop : Propositions, neg : BOOLEAN]))
    BY <1>2, CallsAssumption, DalalAssumption
  <2>2. QED
    BY <2>1 DEF Arity
<1>3. QED
  BY <1>1, <1>2

\* What depends on the sources only.
LEMMA SameSources ==
  ASSUME UNCHANGED call
  PROVE  /\ SourceAtoms' = SourceAtoms /\ SourcePredicates' = SourcePredicates
         /\ Arity' = Arity /\ Roles' = Roles
BY DEF SourceAtoms, SourcePredicates, Arity, Roles

\* A new name differs from every name and from every predicate of the sources.
LEMMA FreshName ==
  ASSUME NamesApart, NEW role, NEW prefix, MakesName(role, prefix), UNCHANGED call
  PROVE  NamesApart'
<1>1. PICK n \in Int :
        /\ Candidate(prefix, n) \notin UsedPredNames
        /\ names' = [r \in DOMAIN names \cup {role} |->
                       IF r = role THEN Candidate(prefix, n) ELSE names[r]]
  BY DEF MakesName
<1>2. SourcePredicates' = SourcePredicates
  BY SameSources
<1>3. Candidate(prefix, n) \notin SourcePredicates
  BY <1>1 DEF UsedPredNames
<1>4. \A r \in DOMAIN names : names[r] # Candidate(prefix, n)
  BY <1>1 DEF UsedPredNames
<1>5. DOMAIN names' = DOMAIN names \cup {role}
  BY <1>1
<1>6. \A r \in DOMAIN names' : names'[r] \notin SourcePredicates
  BY <1>1, <1>3, <1>5 DEF NamesApart
<1>7. \A r, q \in DOMAIN names' : names'[r] = names'[q] => r = q
  BY <1>1, <1>4, <1>5 DEF NamesApart
<1>8. QED
  BY <1>2, <1>6, <1>7 DEF NamesApart

\* A name that is made is that of one more role.
LEMMA MoreNames ==
  ASSUME NEW role, NEW prefix, MakesName(role, prefix)
  PROVE  DOMAIN names' = DOMAIN names \cup {role}
BY DEF MakesName

\* Names that are not touched stay apart.
LEMMA SameNames ==
  ASSUME NamesApart, UNCHANGED <<names, call>>
  PROVE  NamesApart'
BY SameSources DEF NamesApart

\* An application begins without names.
LEMMA BeginKept ==
  ASSUME Begins
  PROVE  ProgramInv'
<1>1. DOMAIN names' = {}
  BY DEF Begins
<1>2. merged' \in Seq({}) /\ Len(merged') = 0
  BY DEF Begins
<1>3. Arity' \in Nat
  <2>1. call'.sources \in Seq(Seq(SUBSET [prop : Propositions, neg : BOOLEAN]))
    BY CallsAssumption, DalalAssumption DEF Begins
  <2>2. QED
    BY <2>1 DEF Arity
<1>4. \E S : merged' \in Seq(S)
  BY <1>2
<1>5. NamesApart' /\ DOMAIN names' \subseteq Roles'
  BY <1>1 DEF NamesApart
<1>6. src' \in 1 .. Arity' + 1 /\ Len(merged') < src' /\ at' \in Nat \ {0}
  <2>1. src' = 1 /\ at' = 1
    BY DEF Begins
  <2>2. src' \in 1 .. Arity' + 1
    <3>1. \A n \in Nat : 1 \in 1 .. n + 1
      OBVIOUS
    <3>2. QED
      BY <1>3, <2>1, <3>1
  <2>3. Len(merged') < src'
    BY <1>2, <2>1
  <2>4. QED
    BY <2>1, <2>2, <2>3
<1>7. call' \in Calls \cup DalalCalls \cup {NoCall} /\ pc' = "naming"
  BY DEF Begins
<1>8. ProgramInv' = /\ call' \in Calls \cup DalalCalls \cup {NoCall}
                    /\ at' \in Nat \ {0}
                    /\ src' \in 1 .. Arity' + 1
                    /\ DOMAIN names' \subseteq Roles'
                    /\ \E S : merged' \in Seq(S)
                    /\ Len(merged') < src'
                    /\ NamesApart'
                    /\ pc' = "renaming" => RenamedBefore'
                    /\ pc' = "selecting" => RenamedAll' /\ src' <= Arity'
  BY DEF ProgramInv
<1>9. QED
  BY <1>4, <1>5, <1>6, <1>7, <1>8

\* The names of the optimisation atom and of the cost atoms.
LEMMA GlobalKept ==
  ASSUME ProgramInv, NamesGlobal
  PROVE  ProgramInv'
<1>1. GlobalRoles[at] \in Roles
  BY DEF NamesGlobal, GlobalRoles, Roles
<1>2. DOMAIN names' = DOMAIN names \cup {GlobalRoles[at]}
  BY MoreNames DEF NamesGlobal
<1>3. NamesApart'
  BY FreshName DEF NamesGlobal, ProgramInv
<1>4. QED
  BY <1>1, <1>2, <1>3, SameSources DEF NamesGlobal, ProgramInv

\* Naming one more atom lets the renamed part grow by one.
LEMMA LocalKept ==
  ASSUME ProgramInv, NamesLocal
  PROVE  ProgramInv'
<1> DEFINE p == PropositionOrder[at]
<1>1. at \in Nat \ {0} /\ at' = at + 1 /\ RenamedBefore /\ UNCHANGED <<call, src, merged>>
  BY DEF NamesLocal, ProgramInv
<1>2. SourceAtoms' = SourceAtoms /\ Roles' = Roles /\ Arity' = Arity
  BY <1>1, SameSources
<1>3. /\ DOMAIN names \subseteq DOMAIN names' /\ DOMAIN names' \subseteq Roles
      /\ p \in SourceAtoms => Local(src, p.pred) \in DOMAIN names'
      /\ NamesApart'
  <2>1. CASE p \in SourceAtoms /\ MakesName(Local(src, p.pred), p.pred)
    <3>1. DOMAIN names' = DOMAIN names \cup {Local(src, p.pred)}
      BY <2>1, MoreNames
    <3>2. Local(src, p.pred) \in Roles
      <4>1. Arity \in Nat
        BY SourcesAreLists DEF ProgramInv
      <4>2. src \in 1 .. Arity
        BY <4>1 DEF NamesLocal, ProgramInv
      <4>3. QED
        BY <2>1, <4>2 DEF Roles
    <3>3. NamesApart'
      BY <1>1, <2>1, FreshName DEF ProgramInv
    <3>4. QED
      BY <3>1, <3>2, <3>3 DEF ProgramInv
  <2>2. CASE (p \in SourceAtoms => Local(src, p.pred) \in DOMAIN names) /\ UNCHANGED names
    BY <1>1, <2>2, SameNames DEF ProgramInv
  <2>3. QED
    BY <2>1, <2>2 DEF NamesLocal
<1>4. RenamedBefore'
  <2> SUFFICES ASSUME NEW j \in DOMAIN PropositionOrder,
                      j < at + 1, PropositionOrder[j] \in SourceAtoms
               PROVE  Local(src, PropositionOrder[j].pred) \in DOMAIN names'
    BY <1>1, <1>2 DEF RenamedBefore, Local
  <2>1. j \in Nat
    BY OrderAssumption
  <2>2. CASE j = at
    BY <2>2, <1>3
  <2>3. CASE j < at
    BY <2>3, <1>1, <1>3 DEF RenamedBefore
  <2>4. QED
    BY <2>1, <2>2, <2>3, <1>1
<1>5. QED
  BY <1>1, <1>2, <1>3, <1>4 DEF NamesLocal, ProgramInv

\* After the last atom, all predicates have names for the source.
LEMMA RenamedKept ==
  ASSUME ProgramInv, AllRenamed
  PROVE  ProgramInv'
<1>1. UNCHANGED <<call, src, names, merged>> /\ pc' = "selecting" /\ at' = 1
  BY DEF AllRenamed
<1>2. /\ SourceAtoms' = SourceAtoms /\ Roles' = Roles /\ Arity' = Arity
      /\ NamesApart'
  BY <1>1, SameSources, SameNames DEF ProgramInv
<1>3. \A j \in DOMAIN PropositionOrder : j < at
  <2>1. Len(PropositionOrder) \in Nat /\ DOMAIN PropositionOrder = 1 .. Len(PropositionOrder)
    BY OrderAssumption
  <2>2. at \in Nat /\ at > Len(PropositionOrder)
    BY DEF AllRenamed, ProgramInv
  <2>3. QED
    BY <2>1, <2>2
<1>4. RenamedAll'
  BY <1>1, <1>2, <1>3 DEF AllRenamed, ProgramInv, RenamedBefore, RenamedAll, Local
<1>5. QED
  BY <1>1, <1>2, <1>4 DEF AllRenamed, ProgramInv

\* The names of the atoms that select an answer set.
LEMMA SelectorKept ==
  ASSUME ProgramInv, NamesSelector
  PROVE  ProgramInv'
<1>1. UNCHANGED <<call, src, merged>> /\ pc' = "selecting" /\ at' = at + 1 /\ at \in Nat \ {0}
  BY DEF NamesSelector, ProgramInv
<1>2. /\ SourceAtoms' = SourceAtoms /\ Roles' = Roles /\ Arity' = Arity
      /\ NamesApart'
  BY <1>1, SameSources, FreshName DEF NamesSelector, ProgramInv
<1>3. DOMAIN names' = DOMAIN names \cup {Selector(src, at)}
  BY MoreNames DEF NamesSelector
<1>4. Selector(src, at) \in Roles
  <2>1. call.sources \in Seq(Seq(SUBSET [prop : Propositions, neg : BOOLEAN])) /\ Arity \in Nat
    BY SourcesAreLists DEF ProgramInv
  <2>2. src \in DOMAIN call.sources
    BY <2>1 DEF NamesSelector, ProgramInv, Arity
  <2>3. at \in DOMAIN call.sources[src]
    BY <1>1, <2>1, <2>2 DEF NamesSelector
  <2> DEFINE F(s) == {Selector(s, a) : a \in DOMAIN call.sources[s]}
  <2>4. Selector(src, at) \in F(src)
    BY <2>3
  <2>5. UNION {F(s) : s \in DOMAIN call.sources} \subseteq Roles
    BY DEF Roles
  <2> HIDE DEF F
  <2>6. QED
    BY <2>2, <2>4, <2>5
<1>5. RenamedAll'
  BY <1>1, <1>2, <1>3 DEF NamesSelector, ProgramInv, RenamedAll, Local
<1>6. QED
  BY <1>1, <1>2, <1>3, <1>4, <1>5 DEF NamesSelector, ProgramInv

\* The next source starts with no predicate renamed for it.
LEMMA ChargeKept ==
  ASSUME ProgramInv, ChargesSource
  PROVE  ProgramInv'
<1>1. UNCHANGED <<call, names>> /\ pc' = "renaming" /\ at' = 1 /\ src' = src + 1
  BY DEF ChargesSource
<1>2. /\ SourceAtoms' = SourceAtoms /\ Roles' = Roles /\ Arity' = Arity
      /\ NamesApart'
  BY <1>1, SameSources, SameNames DEF ProgramInv
<1>3. src' \in 1 .. Arity' + 1
  <2>1. Arity \in Nat
    BY SourcesAreLists DEF ProgramInv
  <2>2. src \in 1 .. Arity + 1 /\ src <= Arity
    BY DEF ChargesSource, ProgramInv
  <2>3. QED
    BY <1>1, <1>2, <2>1, <2>2
<1>4. (\E S : merged' \in Seq(S)) /\ Len(merged') < src'
  <2>1. PICK S : merged \in Seq(S)
    BY DEF ProgramInv
  <2>2. PICK m : merged' = Append(merged, m)
    BY DEF ChargesSource
  <2>3. merged \in Seq(S \cup {m})
    BY <2>1
  <2>4. merged' \in Seq(S \cup {m}) /\ Len(merged') = Len(merged) + 1 /\ Len(merged) \in Nat
    BY <2>2, <2>3
  <2>5. Arity \in Nat /\ src \in 1 .. Arity + 1 /\ Len(merged) < src
    BY SourcesAreLists DEF ProgramInv
  <2>6. src \in Int
    BY <2>5
  <2>7. Len(merged') < src'
    BY <1>1, <2>4, <2>5, <2>6
  <2>8. QED
    BY <2>4, <2>7
<1>5. RenamedBefore'
  BY <1>1, OrderAssumption DEF RenamedBefore
<1>6. QED
  BY <1>1, <1>2, <1>3, <1>4, <1>5 DEF ProgramInv

\* Steps that leave names and sources alone.
LEMMA OthersKept ==
  ASSUME ProgramInv, StartsRenaming \/ Proceeds \/ ProgramUnchanged
  PROVE  ProgramInv'
<1>1. UNCHANGED <<call, src, names, merged>> /\ at' \in Nat \ {0}
  BY DEF StartsRenaming, Proceeds, ProgramUnchanged, ProgramInv
<1>2. /\ SourceAtoms' = SourceAtoms /\ Roles' = Roles /\ Arity' = Arity
      /\ NamesApart'
  BY <1>1, SameSources, SameNames DEF ProgramInv
<1>3. CASE StartsRenaming
  <2>1. RenamedBefore'
    BY <1>3, OrderAssumption DEF StartsRenaming, RenamedBefore
  <2>2. QED
    BY <1>1, <1>2, <1>3, <2>1 DEF StartsRenaming, ProgramInv
<1>4. CASE Proceeds
  BY <1>1, <1>2, <1>4 DEF Proceeds, ProgramInv
<1>5. CASE ProgramUnchanged
  <2>1. RenamedAll' = RenamedAll /\ RenamedBefore' = RenamedBefore
    BY <1>2, <1>5 DEF ProgramUnchanged, RenamedAll, RenamedBefore
  <2>2. QED
    BY <1>1, <1>2, <1>5, <2>1 DEF ProgramUnchanged, ProgramInv
<1>6. QED
  BY <1>3, <1>4, <1>5

\* Whichever operator takes a step, the program stays well formed.
LEMMA ProgramKept ==
  ASSUME ProgramInv, ProgramStep
  PROVE  ProgramInv'
BY BeginKept, GlobalKept, LocalKept, RenamedKept, SelectorKept, ChargeKept, OthersKept
   DEF ProgramStep

-------------------------------------------------------------------------------
(***************************************************************************)
(* The actions of dbo.                                                     *)
(***************************************************************************)
\* findUniqueAtomName of dbo makes a name, and its counter goes on.
LEMMA DboMakesName ==
  ASSUME ri \in Nat, NEW role, NEW prefix, FindUniqueAtomName(role, prefix)
  PROVE  MakesName(role, prefix) /\ ri' \in Nat
BY DEF FindUniqueAtomName, MakesName

\* The steps that make names.
LEMMA DboNamesScalars ==
  ASSUME ScalarsOK,
         NameGlobal \/ RenameSourceAtom \/ WriteAnswerSetSelection,
         UNCHANGED <<dalalVars, operator>>
  PROVE  ScalarsOK'
<1>1. ri' \in Nat
  BY DboMakesName DEF ScalarsOK, NameGlobal, RenameSourceAtom, WriteAnswerSetSelection
<1>2. UNCHANGED <<sourceNr, noPredicate, applications, setting>>
  BY DEF NameGlobal, RenameSourceAtom, WriteAnswerSetSelection
<1>3. pc' \in {pc, "parsing"}
  BY DEF NameGlobal, RenameSourceAtom, WriteAnswerSetSelection
<1>4. QED
  BY <1>1, <1>2, <1>3 DEF ScalarsOK, dalalVars

\* No parameter touches what the option is restored to.
LEMMA ParsedKeepsOption ==
  ASSUME "noPred" \in DOMAIN setting, NEW p
  PROVE  "noPred" \in DOMAIN Parsed(p) /\ Parsed(p).noPred = setting.noPred
BY DEF Parsed

\* No step of dbo leaves the range of a variable.
LEMMA DboScalars ==
  ASSUME ScalarsOK, Continue, UNCHANGED <<dalalVars, operator>>
  PROVE  ScalarsOK'
<1>1. CASE NameGlobal \/ RenameSourceAtom \/ WriteAnswerSetSelection
  BY <1>1, DboNamesScalars
<1>2. CASE ParseParameter
  BY <1>2, ParsedKeepsOption DEF ParseParameter, ScalarsOK, dalalVars
<1>3. CASE RejectParameter \/ RejectAggregate \/ SourceRenamed \/ Solve \/ SolverThrows \/ Return
  BY <1>3 DEF RejectParameter, RejectAggregate, SourceRenamed, Solve, SolverThrows, Return,
     ScalarsOK, dalalVars
<1>4. CASE BuildAggregateFunction \/ ProgramComplete
  BY <1>4 DEF BuildAggregateFunction, ProgramComplete, ScalarsOK, dalalVars
<1>5. CASE WriteCostComputation
  BY <1>5 DEF WriteCostComputation, ScalarsOK, dalalVars
<1>6. QED
  BY <1>1, <1>2, <1>3, <1>4, <1>5 DEF Continue

\* Every step of dbo does one of the things above.
LEMMA DboSteps ==
  ASSUME ScalarsOK, ProgramInv, Continue
  PROVE  ProgramStep
<1>0. ri \in Nat /\ at \in Nat \ {0}
  BY DEF ScalarsOK, ProgramInv
<1>1. CASE NameGlobal
  <2>1. at \in DOMAIN GlobalRoles /\ MakesName(GlobalRoles[at], Plain(GlobalRoles[at][1]))
    BY <1>0, <1>1, DboMakesName DEF NameGlobal, GlobalRoles
  <2>2. QED
    BY <1>0, <1>1, <2>1 DEF NameGlobal, NamesGlobal, ProgramStep
<1>2. CASE RenameSourceAtom
  <2>1. NamesLocal
    BY <1>0, <1>2, DboMakesName DEF RenameSourceAtom, NamesLocal
  <2>2. QED
    BY <2>1 DEF ProgramStep
<1>3. CASE WriteAnswerSetSelection
  BY <1>0, <1>3, DboMakesName DEF WriteAnswerSetSelection, NamesSelector, ProgramStep
<1>4. CASE SourceRenamed
  BY <1>4 DEF SourceRenamed, AllRenamed, ProgramStep
<1>5. CASE WriteCostComputation
  BY <1>5 DEF WriteCostComputation, ChargesSource, ProgramStep
<1>6. CASE BuildAggregateFunction
  BY <1>6 DEF BuildAggregateFunction, StartsRenaming, ProgramStep
<1>7. CASE ParseParameter \/ RejectParameter \/ RejectAggregate
  BY <1>0, <1>7 DEF ParseParameter, RejectParameter, RejectAggregate, Proceeds, ProgramStep
<1>8. CASE ProgramComplete \/ Solve \/ SolverThrows \/ Return
  BY <1>0, <1>8 DEF ProgramComplete, Solve, SolverThrows, Return, Proceeds, ProgramStep
<1>9. QED
  BY <1>1, <1>2, <1>3, <1>4, <1>5, <1>6, <1>7, <1>8 DEF Continue

-------------------------------------------------------------------------------
(***************************************************************************)
(* The actions of dalal, with its own counters.                            *)
(***************************************************************************)
\* Names, roles and atoms do not depend on the counters.
LEMMA DalalSharesNames ==
  /\ Dalal!SourceAtoms = SourceAtoms /\ Dalal!SourcePredicates = SourcePredicates
  /\ Dalal!UsedPredNames = UsedPredNames
  /\ Dalal!Arity = Arity /\ Dalal!GlobalRoles = GlobalRoles
  /\ \A text : Dalal!Plain(text) = Plain(text)
  /\ \A prefix, n : Dalal!Candidate(prefix, n) = Candidate(prefix, n)
  /\ \A s, x : Dalal!Local(s, x) = Local(s, x) /\ Dalal!Selector(s, x) = Selector(s, x)
<1>1. Dalal!SourceAtoms = SourceAtoms
  BY DEF Dalal!SourceAtoms, SourceAtoms
<1>2. Dalal!SourcePredicates = SourcePredicates
  BY <1>1 DEF Dalal!SourcePredicates, SourcePredicates
<1>3. Dalal!UsedPredNames = UsedPredNames
  BY <1>2 DEF Dalal!UsedPredNames, UsedPredNames
<1>4. Dalal!Arity = Arity /\ Dalal!GlobalRoles = GlobalRoles
  BY DEF Dalal!Arity, Arity, Dalal!GlobalRoles, GlobalRoles, Dalal!OptAtom, OptAtom,
     Dalal!CostAtom, CostAtom, Dalal!CostSum, CostSum
<1>5. /\ \A text : Dalal!Plain(text) = Plain(text)
      /\ \A s, x : Dalal!Local(s, x) = Local(s, x) /\ Dalal!Selector(s, x) = Selector(s, x)
  BY DEF Dalal!Plain, Plain, Dalal!Local, Local, Dalal!Selector, Selector
<1>6. \A prefix, n : Dalal!Candidate(prefix, n) = Candidate(prefix, n)
  BY DEF Dalal!Candidate, Candidate, Dalal!Shift, Shift
<1>7. QED
  BY <1>1, <1>2, <1>3, <1>4, <1>5, <1>6

\* findUniqueAtomName of dalal makes a name, and its counter goes on.
LEMMA DalalMakesName ==
  ASSUME dalalRi \in Nat, NEW role, NEW prefix, Dalal!FindUniqueAtomName(role, prefix)
  PROVE  MakesName(role, prefix) /\ dalalRi' \in Nat
<1>1. dalalRi' \in Nat
  BY DEF Dalal!FindUniqueAtomName
<1>2. \E n \in Int :
        /\ Dalal!Candidate(prefix, n) \notin Dalal!UsedPredNames
        /\ names' = [r \in DOMAIN names \cup {role} |->
                       IF r = role THEN Dalal!Candidate(prefix, n) ELSE names[r]]
  BY DEF Dalal!FindUniqueAtomName
<1>3. MakesName(role, prefix)
  BY <1>2, DalalSharesNames DEF MakesName
<1>4. QED
  BY <1>1, <1>3

\* The steps that make names.
LEMMA DalalNamesScalars ==
  ASSUME ScalarsOK,
         Dalal!NameGlobal \/ Dalal!RenameSourceAtom \/ Dalal!WriteAnswerSetSelection,
         UNCHANGED <<dboVars, operator>>
  PROVE  ScalarsOK'
<1>1. dalalRi' \in Nat
  BY DalalMakesName
     DEF ScalarsOK, Dalal!NameGlobal, Dalal!RenameSourceAtom, Dalal!WriteAnswerSetSelection
<1>2. UNCHANGED <<dalalSourceNr, noPredicate, applications, setting>>
  BY DEF Dalal!NameGlobal, Dalal!RenameSourceAtom, Dalal!WriteAnswerSetSelection
<1>3. pc' \in {pc, "parsing"}
  BY DEF Dalal!NameGlobal, Dalal!RenameSourceAtom, Dalal!WriteAnswerSetSelection
<1>4. QED
  BY <1>1, <1>2, <1>3 DEF ScalarsOK, dboVars

\* No parameter touches what the option is restored to.
LEMMA DalalParsedKeepsOption ==
  ASSUME "noPred" \in DOMAIN setting, NEW p
  PROVE  "noPred" \in DOMAIN Dalal!Parsed(p) /\ Dalal!Parsed(p).noPred = setting.noPred
BY DEF Dalal!Parsed

\* No step of dalal leaves the range of a variable.
LEMMA DalalScalars ==
  ASSUME ScalarsOK, Dalal!Continue, UNCHANGED <<dboVars, operator>>
  PROVE  ScalarsOK'
<1>1. CASE Dalal!NameGlobal \/ Dalal!RenameSourceAtom \/ Dalal!WriteAnswerSetSelection
  BY <1>1, DalalNamesScalars
<1>2. CASE Dalal!ParseParameter
  BY <1>2, DalalParsedKeepsOption DEF Dalal!ParseParameter, ScalarsOK, dboVars
<1>3. CASE \/ Dalal!RejectParameter \/ Dalal!RejectAggregate \/ Dalal!SourceRenamed
           \/ Dalal!Solve \/ Dalal!SolverThrows \/ Dalal!Return
  BY <1>3 DEF Dalal!RejectParameter, Dalal!RejectAggregate, Dalal!SourceRenamed, Dalal!Solve,
     Dalal!SolverThrows, Dalal!Return, ScalarsOK, dboVars
<1>4. CASE Dalal!BuildAggregateFunction \/ Dalal!ProgramComplete
  BY <1>4 DEF Dalal!BuildAggregateFunction, Dalal!ProgramComplete, ScalarsOK, dboVars
<1>5. CASE Dalal!WriteCostComputation
  BY <1>5 DEF Dalal!WriteCostComputation, ScalarsOK, dboVars
<1>6. QED
  BY <1>1, <1>2, <1>3, <1>4, <1>5 DEF Dalal!Continue

\* Every step of dalal does one of the things above.
LEMMA DalalSteps ==
  ASSUME ScalarsOK, ProgramInv, Dalal!Continue
  PROVE  ProgramStep
<1>0. dalalRi \in Nat /\ at \in Nat \ {0}
  BY DEF ScalarsOK, ProgramInv
<1>1. CASE Dalal!NameGlobal
  <2>1. at \in DOMAIN GlobalRoles /\ MakesName(GlobalRoles[at], Plain(GlobalRoles[at][1]))
    BY <1>0, <1>1, DalalMakesName, DalalSharesNames DEF Dalal!NameGlobal, GlobalRoles
  <2>2. QED
    BY <1>0, <1>1, <2>1, DalalSharesNames DEF Dalal!NameGlobal, NamesGlobal, ProgramStep
<1>2. CASE Dalal!RenameSourceAtom
  <2>1. NamesLocal
    BY <1>0, <1>2, DalalMakesName, DalalSharesNames DEF Dalal!RenameSourceAtom, NamesLocal
  <2>2. QED
    BY <2>1 DEF ProgramStep
<1>3. CASE Dalal!WriteAnswerSetSelection
  BY <1>0, <1>3, DalalMakesName, DalalSharesNames
     DEF Dalal!WriteAnswerSetSelection, NamesSelector, ProgramStep
<1>4. CASE Dalal!SourceRenamed
  BY <1>4, DalalSharesNames DEF Dalal!SourceRenamed, AllRenamed, ProgramStep
<1>5. CASE Dalal!WriteCostComputation
  BY <1>5 DEF Dalal!WriteCostComputation, ChargesSource, ProgramStep
<1>6. CASE Dalal!BuildAggregateFunction
  BY <1>6 DEF Dalal!BuildAggregateFunction, StartsRenaming, ProgramStep
<1>7. CASE Dalal!ParseParameter \/ Dalal!RejectParameter \/ Dalal!RejectAggregate
  BY <1>0, <1>7 DEF Dalal!ParseParameter, Dalal!RejectParameter, Dalal!RejectAggregate,
     Proceeds, ProgramStep
<1>8. CASE Dalal!ProgramComplete \/ Dalal!Solve \/ Dalal!SolverThrows \/ Dalal!Return
  BY <1>0, <1>8 DEF Dalal!ProgramComplete, Dalal!Solve, Dalal!SolverThrows, Dalal!Return,
     Proceeds, ProgramStep
<1>9. QED
  BY <1>1, <1>2, <1>3, <1>4, <1>5, <1>6, <1>7, <1>8 DEF Dalal!Continue

-------------------------------------------------------------------------------
(***************************************************************************)
(* All applications.                                                       *)
(***************************************************************************)
\* No application has begun.
LEMMA InitKept == InitAll => ApplicationsInv
<1> SUFFICES ASSUME InitAll
             PROVE  ApplicationsInv
  OBVIOUS
<1>1. ScalarsOK
  BY OrderAssumption DEF InitAll, Init, ScalarsOK, NoSetting
<1>2. call = NoCall /\ at = 1 /\ src = 1 /\ pc = "idle"
  BY DEF InitAll, Init
<1>3. DOMAIN names = {}
  BY DEF InitAll, Init
<1>4. merged \in Seq({}) /\ Len(merged) = 0
  BY DEF InitAll, Init
<1>5. Arity \in Nat
  BY <1>2, SourcesAreLists
<1>6. src \in 1 .. Arity + 1
  BY <1>2, <1>5
<1>7. QED
  BY <1>1, <1>2, <1>3, <1>4, <1>6 DEF ApplicationsInv, ProgramInv, NamesApart

\* What an application starts with, whoever it is that applies.
LEMMA SettingOption ==
  ASSUME NEW S, "noPred" \in DOMAIN S, NEW w, NEW v, NEW T,
         T = [S EXCEPT !.weights = w, !.noPred = v]
  PROVE  "noPred" \in DOMAIN T /\ T.noPred = v
OBVIOUS

\* The settings without parameters save the option.
LEMMA NoSettingHasOption == "noPred" \in DOMAIN NoSetting /\ "noPred" \in DOMAIN Dalal!NoSetting
BY DEF NoSetting, Dalal!NoSetting

\* Both operators begin in the same way; those without state leave all as it is.
LEMMA ApplyKept ==
  ASSUME ApplicationsInv, DboApply \/ DalalApply \/ Select \/ MergeRelations
  PROVE  ApplicationsInv'
<1>0. MaxApplications \in Nat
  BY OrderAssumption
<1>1. CASE DboApply
  <2>1. PICK c \in Calls : Apply(c)
    BY <1>1 DEF DboApply
  <2>2. Begins
    BY <2>1 DEF Apply, Begins
  <2>3. ScalarsOK'
    <3>1. "noPred" \in DOMAIN setting' /\ setting'.noPred = noPredicate
      BY <2>1, NoSettingHasOption, SettingOption DEF Apply
    <3>2. /\ applications' \in 0 .. MaxApplications
          /\ noPredicate' = 0 /\ pc' = "naming" /\ UNCHANGED <<ri, sourceNr>>
      BY <1>0, <2>1 DEF Apply, ApplicationsInv, ScalarsOK
    <3>3. operator' = "dbo" /\ UNCHANGED dalalVars
      BY <1>1 DEF DboApply
    <3>4. QED
      BY <3>1, <3>2, <3>3 DEF ApplicationsInv, ScalarsOK, dalalVars
  <2>4. QED
    BY <2>2, <2>3, BeginKept DEF ApplicationsInv
<1>2. CASE DalalApply
  <2>1. PICK c \in DalalCalls : Dalal!Apply(c)
    BY <1>2 DEF DalalApply
  <2>2. Begins
    BY <2>1 DEF Dalal!Apply, Begins
  <2>3. ScalarsOK'
    <3>1. "noPred" \in DOMAIN setting' /\ setting'.noPred = noPredicate
      BY <2>1, NoSettingHasOption, SettingOption DEF Dalal!Apply
    <3>2. /\ applications' \in 0 .. MaxApplications
          /\ noPredicate' = 0 /\ pc' = "naming" /\ UNCHANGED <<dalalRi, dalalSourceNr>>
      BY <1>0, <2>1 DEF Dalal!Apply, ApplicationsInv, ScalarsOK
    <3>3. operator' = "dalal" /\ UNCHANGED dboVars
      BY <1>2 DEF DalalApply
    <3>4. QED
      BY <3>1, <3>2, <3>3 DEF ApplicationsInv, ScalarsOK, dboVars
  <2>4. QED
    BY <2>2, <2>3, BeginKept DEF ApplicationsInv
<1>3. CASE Select \/ MergeRelations
  <2>1. /\ applications < MaxApplications /\ applications' = applications + 1
        /\ operator' \in {"majorityselection", "relationmerging"}
        /\ UNCHANGED <<ri, sourceNr, noPredicate, setting, dalalRi, dalalSourceNr>>
        /\ ProgramUnchanged
    BY <1>3 DEF Select, MergeRelations, Stateless, ProgramUnchanged, dalalVars
  <2>2. ScalarsOK'
    BY <1>0, <2>1 DEF ApplicationsInv, ScalarsOK, ProgramUnchanged
  <2>3. QED
    BY <2>1, <2>2, OthersKept DEF ApplicationsInv
<1>4. QED
  BY <1>1, <1>2, <1>3

\* Any step of any operator.
LEMMA NextKept ==
  ASSUME ApplicationsInv, [NextAll]_allVars
  PROVE  ApplicationsInv'
<1>1. CASE DboApply \/ DalalApply \/ Select \/ MergeRelations
  BY <1>1, ApplyKept
<1>2. CASE DboContinue
  <2>1. Continue /\ UNCHANGED <<dalalVars, operator>>
    BY <1>2 DEF DboContinue
  <2>2. QED
    BY <2>1, DboScalars, DboSteps, ProgramKept DEF ApplicationsInv
<1>3. CASE DalalContinue
  <2>1. Dalal!Continue /\ UNCHANGED <<dboVars, operator>>
    BY <1>3 DEF DalalContinue, DalalParameter, DalalAggregate, DalalNames, DalalSelection,
       DalalCosts, DalalRun, Dalal!Continue
  <2>2. QED
    BY <2>1, DalalScalars, DalalSteps, ProgramKept DEF ApplicationsInv
<1>4. CASE UNCHANGED allVars
  <2>1. ProgramUnchanged
    BY <1>4 DEF allVars, vars, ProgramUnchanged
  <2>2. ScalarsOK'
    BY <1>4 DEF allVars, vars, dalalVars, ApplicationsInv, ScalarsOK
  <2>3. QED
    BY <2>1, <2>2, OthersKept DEF ApplicationsInv
<1>5. QED
  BY <1>1, <1>2, <1>3, <1>4 DEF NextAll

-------------------------------------------------------------------------------
(***************************************************************************)
(* The theorems.                                                           *)
(***************************************************************************)
\* The inductive invariant of all applications of all operators.
THEOREM ApplicationsInvariant == SpecAll => []ApplicationsInv
<1>1. InitAll => ApplicationsInv
  BY InitKept
<1>2. ApplicationsInv /\ [NextAll]_allVars => ApplicationsInv'
  BY NextKept
<1>3. QED
  BY <1>1, <1>2, PTL DEF SpecAll

\* The positions in the loops over sources, atoms and parameters stay within
\* what the current call has, and only roles of the current program are named,
\* whichever of the two operators it belongs to.
THEOREM TypesCorrect == SpecAll => []AllTypeOK
<1>1. ApplicationsInv => AllTypeOK
  <2> SUFFICES ASSUME ApplicationsInv
               PROVE  AllTypeOK
    OBVIOUS
  <2>1. CASE call \in Calls \cup {NoCall}
    BY <2>1 DEF ApplicationsInv, ScalarsOK, ProgramInv, AllTypeOK, TypeOK
  <2>2. CASE call \in DalalCalls
    BY <2>2 DEF ApplicationsInv, ScalarsOK, ProgramInv, AllTypeOK, Dalal!TypeOK,
       Arity, Dalal!Arity, Roles, Dalal!Roles, SourceAtoms, Dalal!SourceAtoms,
       OptAtom, CostAtom, CostSum, Local, Selector,
       Dalal!OptAtom, Dalal!CostAtom, Dalal!CostSum, Dalal!Local, Dalal!Selector
  <2>3. QED
    BY <2>1, <2>2 DEF ApplicationsInv, ProgramInv
<1>2. QED
  BY <1>1, ApplicationsInvariant, PTL

\* The optimisation atom, the cost atoms, the selectors and the renamed
\* predicates of all sources have different names, none of which a source
\* uses, in every application, however the sources are called
\* (findUniqueAtomName).
THEOREM AlwaysNamesApart == SpecAll => []NamesApart
<1>1. ApplicationsInv => NamesApart
  BY DEF ApplicationsInv, ProgramInv
<1>2. QED
  BY <1>1, ApplicationsInvariant, PTL

\* The assertion in writeAnswerSetSelectionRules holds, and the lookups after
\* it find a name, in every application.
THEOREM AlwaysLocalNamesKnown == SpecAll => []LocalNamesKnown
<1>1. ASSUME ApplicationsInv
      PROVE  LocalNamesKnown
  <2> SUFFICES ASSUME pc = "selecting",
                      NEW a \in DOMAIN call.sources[src], NEW l \in call.sources[src][a]
               PROVE  Local(src, l.prop.pred) \in DOMAIN names
    BY DEF LocalNamesKnown
  <2>1. call.sources \in Seq(Seq(SUBSET [prop : Propositions, neg : BOOLEAN])) /\ Arity \in Nat
    BY <1>1, SourcesAreLists DEF ApplicationsInv, ProgramInv
  <2>2. src \in DOMAIN call.sources
    BY <1>1, <2>1 DEF ApplicationsInv, ProgramInv, Arity
  <2>3. l.prop \in Propositions /\ l.prop \in SourceAtoms
    BY <2>1, <2>2 DEF SourceAtoms
  <2>4. PICK j \in DOMAIN PropositionOrder : PropositionOrder[j] = l.prop
    BY <2>3, OrderAssumption
  <2>5. QED
    BY <1>1, <2>3, <2>4 DEF ApplicationsInv, ProgramInv, RenamedAll
<1>2. QED
  BY <1>1, ApplicationsInvariant, PTL
-------------------------------------------------------------------------------
(***************************************************************************)
(* The lists that Kept keeps.                                              *)
(***************************************************************************)
\* f[n] are the elements of the first n that are among some.
Keeps(f, list, some, n) ==
  f = [k \in 0 .. n |-> IF k = 0 THEN <<>>
                        ELSE IF list[k] \in some THEN Append(f[k - 1], list[k])
                        ELSE f[k - 1]]

LEMMA KeepsAt ==
  ASSUME NEW f, NEW list, NEW some, NEW n, Keeps(f, list, some, n), NEW k \in 0 .. n
  PROVE  f[k] = IF k = 0 THEN <<>>
                ELSE IF list[k] \in some THEN Append(f[k - 1], list[k])
                ELSE f[k - 1]
<1> DEFINE e(j) == IF j = 0 THEN <<>>
                   ELSE IF list[j] \in some THEN Append(f[j - 1], list[j])
                   ELSE f[j - 1]
<1>1. f = [j \in 0 .. n |-> e(j)]
  BY DEF Keeps
<1> HIDE DEF e
<1>2. f[k] = e(k)
  BY <1>1
<1>3. QED
  BY <1>2 DEF e

\* There is such a function.
LEMMA KeepsExists ==
  ASSUME NEW list, NEW some, NEW n \in Nat
  PROVE  \E f : Keeps(f, list, some, n)
<1> DEFINE S == {k \in Nat : ~ \E f : Keeps(f, list, some, k)}
<1>1. ASSUME S # {}
      PROVE  FALSE
  <2>1. S \in SUBSET Nat
    OBVIOUS
  <2>2. PICK m \in S : \A q \in S : m <= q
    BY <1>1, <2>1, LeastOf
  <2>3. m \in Nat /\ ~ \E f : Keeps(f, list, some, m)
    BY <2>2
  <2>4. CASE m = 0
    <3>1. PICK f : f = [k \in 0 .. 0 |-> <<>>]
      OBVIOUS
    <3>2. f = [k \in 0 .. 0 |-> IF k = 0 THEN <<>>
                               ELSE IF list[k] \in some THEN Append(f[k - 1], list[k])
                               ELSE f[k - 1]]
      BY <3>1
    <3>3. QED
      BY <2>3, <2>4, <3>2 DEF Keeps
  <2>5. CASE m # 0
    <3>1. m - 1 \in Nat /\ ~(m <= m - 1)
      BY <2>3, <2>5
    <3>2. m - 1 \notin S
      BY <2>2, <3>1
    <3>3. PICK g : Keeps(g, list, some, m - 1)
      BY <3>1, <3>2
    <3>4. PICK f : f = [k \in 0 .. m |-> IF k = 0 THEN <<>>
                                        ELSE IF list[k] \in some THEN Append(g[k - 1], list[k])
                                        ELSE g[k - 1]]
      OBVIOUS
    <3>5. \A k \in 0 .. m - 1 : f[k] = g[k]
      <4>1. SUFFICES ASSUME NEW k \in 0 .. m - 1
                     PROVE  f[k] = g[k]
        OBVIOUS
      <4>2. g[k] = IF k = 0 THEN <<>> ELSE IF list[k] \in some THEN Append(g[k - 1], list[k])
                   ELSE g[k - 1]
        BY <3>3, KeepsAt
      <4>3. k \in 0 .. m
        BY <2>3
      <4>4. f[k] = IF k = 0 THEN <<>> ELSE IF list[k] \in some THEN Append(g[k - 1], list[k])
                   ELSE g[k - 1]
        BY <3>4, <4>3
      <4>5. QED
        BY <4>2, <4>4
    <3>6. \A k \in 0 .. m : k # 0 => f[k - 1] = g[k - 1]
      <4>1. \A k \in 0 .. m : k # 0 => k - 1 \in 0 .. m - 1
        BY <2>3
      <4>2. QED
        BY <3>5, <4>1
    <3>7. f = [k \in 0 .. m |-> IF k = 0 THEN <<>>
                               ELSE IF list[k] \in some THEN Append(f[k - 1], list[k])
                               ELSE f[k - 1]]
      BY <3>4, <3>6
    <3>8. QED
      BY <2>3, <3>7 DEF Keeps
  <2>6. QED
    BY <2>4, <2>5
<1>2. QED
  BY <1>1

LEMMA KeptIsLast ==
  ASSUME NEW list, Len(list) \in Nat, NEW some
  PROVE  \E f : Keeps(f, list, some, Len(list)) /\ Kept(list, some) = f[Len(list)]
<1>1. PICK c : c = CHOOSE f : Keeps(f, list, some, Len(list))
  OBVIOUS
<1>2. Keeps(c, list, some, Len(list))
  BY <1>1, KeepsExists
<1>3. Kept(list, some) = c[Len(list)]
  BY <1>1 DEF Kept, Keeps
<1>4. QED
  BY <1>2, <1>3

\* It does not depend on what follows.
LEMMA KeepsAgree ==
  ASSUME NEW some, NEW s, NEW t, NEW n \in Nat, NEW m \in Nat, n <= m,
         \A k \in 1 .. n : s[k] = t[k],
         NEW f, Keeps(f, s, some, n), NEW g, Keeps(g, t, some, m)
  PROVE  f[n] = g[n]
<1> DEFINE S == {k \in 0 .. n : f[k] # g[k]}
<1>1. ASSUME S # {}
      PROVE  FALSE
  <2>1. S \in SUBSET Nat
    OBVIOUS
  <2>2. PICK k \in S : \A q \in S : k <= q
    BY <1>1, <2>1, LeastOf
  <2>3. k \in 0 .. n /\ k \in 0 .. m /\ f[k] # g[k]
    BY <2>2
  <2>4. /\ f[k] = IF k = 0 THEN <<>> ELSE IF s[k] \in some THEN Append(f[k - 1], s[k]) ELSE f[k - 1]
        /\ g[k] = IF k = 0 THEN <<>> ELSE IF t[k] \in some THEN Append(g[k - 1], t[k]) ELSE g[k - 1]
    BY <2>3, KeepsAt
  <2>5. k # 0
    BY <2>3, <2>4
  <2>6. k - 1 \in 0 .. n /\ ~(k <= k - 1) /\ k \in 1 .. n
    BY <2>3, <2>5
  <2>7. f[k - 1] = g[k - 1] /\ s[k] = t[k]
    BY <2>2, <2>6
  <2>8. QED
    BY <2>3, <2>4, <2>5, <2>7
<1>2. QED
  BY <1>1

LEMMA KeptEmpty ==
  ASSUME NEW some
  PROVE  Kept(<<>>, some) = <<>>
<1>1. Len(<<>>) = 0
  OBVIOUS
<1>2. PICK f : Keeps(f, <<>>, some, 0) /\ Kept(<<>>, some) = f[0]
  BY <1>1, KeptIsLast
<1>3. 0 \in 0 .. 0
  OBVIOUS
<1>4. f[0] = <<>>
  BY <1>2, <1>3, KeepsAt
<1>5. QED
  BY <1>2, <1>4

LEMMA KeptAppend ==
  ASSUME NEW T, NEW s \in Seq(T), NEW e \in T, NEW some
  PROVE  Kept(Append(s, e), some) = IF e \in some THEN Append(Kept(s, some), e) ELSE Kept(s, some)
<1> DEFINE t == Append(s, e)
           n == Len(s)
<1>1. /\ n \in Nat /\ n <= n + 1 /\ Len(t) = n + 1 /\ t[n + 1] = e /\ n + 1 \in 0 .. n + 1
      /\ \A k \in 1 .. n : s[k] = t[k]
  OBVIOUS
<1> HIDE DEF t
<1>2. PICK f : Keeps(f, s, some, n) /\ Kept(s, some) = f[n]
  BY <1>1, KeptIsLast
<1>3. PICK g : Keeps(g, t, some, n + 1) /\ Kept(t, some) = g[n + 1]
  BY <1>1, KeptIsLast
<1> HIDE DEF n
<1>4. n + 1 \in Nat /\ n + 1 # 0 /\ (n + 1) - 1 = n
  BY <1>1
<1>5. f[n] = g[n]
  BY <1>1, <1>2, <1>3, <1>4, KeepsAgree
<1>6. g[n + 1] = IF n + 1 = 0 THEN <<>>
                 ELSE IF t[n + 1] \in some THEN Append(g[(n + 1) - 1], t[n + 1])
                 ELSE g[(n + 1) - 1]
  BY <1>1, <1>3, KeepsAt
<1>7. QED
  BY <1>1, <1>2, <1>3, <1>4, <1>5, <1>6 DEF t

LEMMA KeptType ==
  ASSUME NEW T, NEW some
  PROVE  \A s \in Seq(T) : Kept(s, some) \in Seq(T)
<1> DEFINE W == {s \in Seq(T) : Kept(s, some) \in Seq(T)}
<1>1. <<>> \in W
  <2>1. <<>> \in Seq(T) /\ Kept(<<>>, some) = <<>>
    BY KeptEmpty
  <2>2. QED
    BY <2>1
<1>2. ASSUME NEW s \in Seq(T), NEW e \in T, s \in W
      PROVE  Append(s, e) \in W
  <2>1. Kept(Append(s, e), some) = IF e \in some THEN Append(Kept(s, some), e) ELSE Kept(s, some)
    BY KeptAppend
  <2>2. Kept(s, some) \in Seq(T)
    BY <1>2
  <2>3. Append(s, e) \in Seq(T) /\ Append(Kept(s, some), e) \in Seq(T)
    BY <2>2
  <2>4. QED
    BY <2>1, <2>2, <2>3
<1> HIDE DEF W
<1>3. \A s \in Seq(T) : s \in W
  BY <1>1, <1>2, ByAppending
<1>4. QED
  BY <1>3 DEF W

LEMMA KeptAmong ==
  ASSUME NEW T, NEW some
  PROVE  \A s \in Seq(T) : \A k \in DOMAIN Kept(s, some) : Kept(s, some)[k] \in some
<1> DEFINE W == {s \in Seq(T) : \A k \in DOMAIN Kept(s, some) : Kept(s, some)[k] \in some}
<1>1. <<>> \in W
  BY KeptEmpty
<1>2. ASSUME NEW s \in Seq(T), NEW e \in T, s \in W
      PROVE  Append(s, e) \in W
  <2> DEFINE kept == Kept(s, some)
  <2>1. kept \in Seq(T) /\ Append(s, e) \in Seq(T)
    BY KeptType
  <2>2. \A k \in DOMAIN kept : kept[k] \in some
    BY <1>2
  <2>3. Kept(Append(s, e), some) = IF e \in some THEN Append(kept, e) ELSE kept
    BY KeptAppend
  <2> HIDE DEF kept
  <2>4. e \in some => \A k \in DOMAIN Append(kept, e) : Append(kept, e)[k] \in some
    BY <2>1, <2>2
  <2>5. QED
    BY <2>1, <2>2, <2>3, <2>4
<1> HIDE DEF W
<1>3. \A s \in Seq(T) : s \in W
  BY <1>1, <1>2, ByAppending
<1>4. QED
  BY <1>3 DEF W

LEMMA KeptTwice ==
  ASSUME NEW T, NEW U, NEW V
  PROVE  \A s \in Seq(T) : Kept(Kept(s, U), V) = Kept(s, U \cap V)
<1> DEFINE W == {s \in Seq(T) : Kept(Kept(s, U), V) = Kept(s, U \cap V)}
<1>1. <<>> \in W
  BY KeptEmpty
<1>2. ASSUME NEW s \in Seq(T), NEW e \in T, s \in W
      PROVE  Append(s, e) \in W
  <2>1. Kept(s, U) \in Seq(T) /\ Append(s, e) \in Seq(T)
    BY KeptType
  <2>2. Kept(Append(s, e), U) = IF e \in U THEN Append(Kept(s, U), e) ELSE Kept(s, U)
    BY KeptAppend
  <2>3. Kept(Append(s, e), U \cap V) =
          IF e \in U \cap V THEN Append(Kept(s, U \cap V), e) ELSE Kept(s, U \cap V)
    BY KeptAppend
  <2>4. Kept(Append(Kept(s, U), e), V) =
          IF e \in V THEN Append(Kept(Kept(s, U), V), e) ELSE Kept(Kept(s, U), V)
    BY <2>1, KeptAppend
  <2>5. Kept(Kept(s, U), V) = Kept(s, U \cap V)
    BY <1>2
  <2>6. e \in U \cap V <=> e \in U /\ e \in V
    OBVIOUS
  <2> HIDE DEF W
  <2>7. Kept(Kept(Append(s, e), U), V) = Kept(Append(s, e), U \cap V)
    BY <2>2, <2>3, <2>4, <2>5, <2>6, Zenon
  <2>8. QED
    BY <2>1, <2>7 DEF W
<1> HIDE DEF W
<1>3. \A s \in Seq(T) : s \in W
  BY <1>1, <1>2, ByAppending
<1>4. QED
  BY <1>3 DEF W

\* Only what the elements of the list are counts.
LEMMA KeptSame ==
  ASSUME NEW T, NEW U, NEW V
  PROVE  \A s \in Seq(T) : (\A k \in DOMAIN s : s[k] \in U <=> s[k] \in V) => Kept(s, U) = Kept(s, V)
<1> DEFINE Same(s) == \A k \in DOMAIN s : s[k] \in U <=> s[k] \in V
           W == {s \in Seq(T) : Same(s) => Kept(s, U) = Kept(s, V)}
<1>1. <<>> \in W
  BY KeptEmpty
<1>2. ASSUME NEW s \in Seq(T), NEW e \in T, s \in W
      PROVE  Append(s, e) \in W
  <2>1. Append(s, e) \in Seq(T)
    OBVIOUS
  <2>2. Same(Append(s, e)) => Same(s) /\ (e \in U <=> e \in V)
    <3> DEFINE t == Append(s, e)
    <3>1. /\ Len(s) + 1 \in DOMAIN t /\ t[Len(s) + 1] = e
          /\ \A k \in DOMAIN s : k \in DOMAIN t /\ t[k] = s[k]
      OBVIOUS
    <3> HIDE DEF t
    <3>2. Same(t) => Same(s) /\ (e \in U <=> e \in V)
      BY <3>1
    <3>3. QED
      BY <3>2 DEF t
  <2>3. Kept(Append(s, e), U) = IF e \in U THEN Append(Kept(s, U), e) ELSE Kept(s, U)
    BY KeptAppend
  <2>4. Kept(Append(s, e), V) = IF e \in V THEN Append(Kept(s, V), e) ELSE Kept(s, V)
    BY KeptAppend
  <2>5. Same(s) => Kept(s, U) = Kept(s, V)
    BY <1>2
  <2> HIDE DEF Same
  <2>6. QED
    BY <2>1, <2>2, <2>3, <2>4, <2>5
<1> HIDE DEF W
<1>3. \A s \in Seq(T) : s \in W
  BY <1>1, <1>2, ByAppending
<1>4. QED
  BY <1>3 DEF W

LEMMA KeptCount ==
  ASSUME NEW T, NEW U
  PROVE  \A s \in Seq(T) : Len(Kept(s, U)) = Cardinality({k \in DOMAIN s : s[k] \in U})
<1> DEFINE P(s) == {k \in DOMAIN s : s[k] \in U}
           W == {s \in Seq(T) : Len(Kept(s, U)) = Cardinality(P(s))}
<1>1. <<>> \in W
  <2>1. P(<<>>) = {}
    OBVIOUS
  <2>2. QED
    BY <2>1, KeptEmpty, FS_EmptySet
<1>2. ASSUME NEW s \in Seq(T), NEW e \in T, s \in W
      PROVE  Append(s, e) \in W
  <2>1. Append(s, e) \in Seq(T) /\ Kept(s, U) \in Seq(T)
    BY KeptType
  <2>2. P(Append(s, e)) = IF e \in U THEN P(s) \cup {Len(s) + 1} ELSE P(s)
    <3> DEFINE t == Append(s, e)
               n == Len(s)
    <3>1. /\ n \in Nat /\ DOMAIN s = 1 .. n /\ DOMAIN t = 1 .. n + 1 /\ t[n + 1] = e
          /\ \A k \in 1 .. n : t[k] = s[k]
      OBVIOUS
    <3> HIDE DEF t, n
    <3>2. P(t) = IF e \in U THEN P(s) \cup {n + 1} ELSE P(s)
      BY <3>1
    <3>3. QED
      BY <3>2 DEF t, n
  <2>3. IsFiniteSet(P(s)) /\ Len(s) + 1 \notin P(s)
    <3>1. /\ P(s) \subseteq 1 .. Len(s) /\ Len(s) \in Nat
          /\ Len(s) + 1 \notin P(s)
      OBVIOUS
    <3>2. IsFiniteSet(1 .. Len(s))
      BY <3>1, FS_Interval
    <3>3. QED
      BY <3>1, <3>2, FS_Subset
  <2>4. Cardinality(P(s) \cup {Len(s) + 1}) = Cardinality(P(s)) + 1
    BY <2>3, FS_AddElement
  <2>5. Kept(Append(s, e), U) = IF e \in U THEN Append(Kept(s, U), e) ELSE Kept(s, U)
    BY KeptAppend
  <2>6. e \in U => Len(Append(Kept(s, U), e)) = Len(Kept(s, U)) + 1
    BY <2>1
  <2>7. Len(Kept(s, U)) = Cardinality(P(s))
    BY <1>2
  <2>8. CASE e \in U
    <3>1. Len(Kept(Append(s, e), U)) = Cardinality(P(s)) + 1
      BY <2>5, <2>6, <2>7, <2>8
    <3>2. Cardinality(P(Append(s, e))) = Cardinality(P(s)) + 1
      BY <2>2, <2>4, <2>8
    <3>3. QED
      BY <2>1, <3>1, <3>2
  <2>9. CASE e \notin U
    BY <2>1, <2>2, <2>5, <2>7, <2>9
  <2>10. QED
    BY <2>8, <2>9
<1> HIDE DEF W
<1>3. \A s \in Seq(T) : s \in W
  BY <1>1, <1>2, ByAppending
<1>4. QED
  BY <1>3 DEF W


-------------------------------------------------------------------------------
(***************************************************************************)
(* The operators without state.                                            *)
(***************************************************************************)
\* What the operators without state have returned is what they compute.
ReturnedInv ==
  /\ operator = "majorityselection" =>
       returned.call \in MajorityCalls /\ returned.outcome = MajoritySelect(returned.call)
  /\ operator = "relationmerging" =>
       returned.call \in RelationCalls /\ returned.outcome = RelationMerge(returned.call)

THEOREM ReturnedInvariant == SpecAll => []ReturnedInv
<1>1. InitAll => ReturnedInv
  BY DEF InitAll, ReturnedInv
<1>2. ASSUME ReturnedInv, [NextAll]_allVars
      PROVE  ReturnedInv'
  <2>1. CASE DboApply
    BY <2>1 DEF DboApply, ReturnedInv
  <2>2. CASE DboContinue
    BY <1>2, <2>2 DEF DboContinue, ReturnedInv
  <2>3. CASE DalalApply
    BY <2>3 DEF DalalApply, ReturnedInv
  <2>4. CASE DalalContinue
    BY <1>2, <2>4 DEF DalalContinue, DalalParameter, DalalAggregate, DalalNames, DalalSelection,
       DalalCosts, DalalRun, ReturnedInv
  <2>5. CASE Select
    BY <2>5 DEF Select, Stateless, ReturnedInv
  <2>6. CASE MergeRelations
    BY <2>6 DEF MergeRelations, Stateless, ReturnedInv
  <2>7. CASE UNCHANGED allVars
    BY <1>2, <2>7 DEF allVars, ReturnedInv
  <2>8. QED
    BY <1>2, <2>1, <2>2, <2>3, <2>4, <2>5, <2>6, <2>7 DEF NextAll
<1>3. QED
  BY <1>1, <1>2, PTL DEF SpecAll


-------------------------------------------------------------------------------
(***************************************************************************)
(* majorityselection.                                                      *)
(***************************************************************************)
\* The first "majorityOf" is the one that the search finds.
LEMMA OneFirstNamed ==
  ASSUME NEW params, IsList(params), NEW n \in DOMAIN params, IsFirstNamed(params, n)
  PROVE  (CHOOSE m \in DOMAIN params : IsFirstNamed(params, m)) = n
<1> DEFINE S == ToSet(params)
<1>1. params \in Seq(S)
  BY DEF IsList
<1> HIDE DEF S
<1>2. \A m \in DOMAIN params : m \in Nat \ {0}
  BY <1>1
<1>3. ASSUME NEW m \in DOMAIN params, IsFirstNamed(params, m), m # n
      PROVE  FALSE
  <2>1. m \in 1 .. n - 1 \/ n \in 1 .. m - 1
    BY <1>2, <1>3
  <2>2. QED
    BY <1>3, <2>1 DEF IsFirstNamed
<1>4. QED
  BY <1>3

\* As many answer sets hold the literal as there are votes.
LEMMA VotesCounted ==
  ASSUME NEW T, NEW sets \in Seq(T), NEW name, NEW neg
  PROVE  Len(Kept(sets, Voting(sets, name, neg))) = Votes(sets, name, neg)
<1> DEFINE U == Voting(sets, name, neg)
<1>1. \A k \in DOMAIN sets : sets[k] \in U <=> \E l \in sets[k] : l.prop.pred = name /\ l.neg = neg
  BY DEF Voting, ToSet
<1> HIDE DEF U
<1>2. {k \in DOMAIN sets : sets[k] \in U}
        = {k \in DOMAIN sets : \E l \in sets[k] : l.prop.pred = name /\ l.neg = neg}
  BY <1>1
<1>3. Len(Kept(sets, U)) = Cardinality({k \in DOMAIN sets : sets[k] \in U})
  BY KeptCount
<1>4. QED
  BY <1>2, <1>3 DEF U, Votes

Ballot == SUBSET [prop : Propositions, neg : BOOLEAN]

\* The answer sets with a vote that are among some are those of V.
VotersAmong(sets, name, U, V) ==
  \A k \in DOMAIN sets :
    (sets[k] \in U /\ \E l \in sets[k] : l.prop.pred = name) <=> sets[k] \in V

\* Of the answer sets that remain, those with a vote are those of the answer
\* that are among some.
LEMMA DecidedAmong ==
  ASSUME NEW sets \in Seq(Ballot), NEW name, NEW U, NEW V, NEW answer, answer = Kept(sets, U),
         VotersAmong(sets, name, U, V)
  PROVE  Decided(answer, name) = Kept(sets, V)
<1> DEFINE votes  == Voting(answer, name, FALSE) \cup Voting(answer, name, TRUE)
           Some   == {a \in Ballot : \E l \in a : l.prop.pred = name}
<1>1. answer \in Seq(Ballot)
  BY KeptType
<1>2. ASSUME NEW k \in DOMAIN answer
      PROVE  answer[k] \in votes <=> answer[k] \in Some
  <2>1. answer[k] \in Ballot /\ answer[k] \in ToSet(answer)
    BY <1>1, ElementOfSeq DEF ToSet
  <2>2. \A l \in answer[k] : l.neg \in BOOLEAN
    BY <2>1 DEF Ballot
  <2>3. answer[k] \in votes <=> \E l \in answer[k] : l.prop.pred = name /\ (l.neg = FALSE \/ l.neg = TRUE)
    BY <2>1 DEF Voting
  <2>4. QED
    BY <2>1, <2>2, <2>3
<1>3. Kept(answer, votes) = Kept(answer, Some)
  <2> HIDE DEF votes, Some
  <2>1. QED
    BY <1>1, <1>2, KeptSame
<1>4. Kept(answer, Some) = Kept(sets, U \cap Some)
  <2> HIDE DEF Some
  <2>1. QED
    BY KeptTwice
<1>5. \A k \in DOMAIN sets : sets[k] \in U \cap Some <=> sets[k] \in V
  BY ElementOfSeq DEF VotersAmong
<1> HIDE DEF Some
<1>6. Kept(sets, U \cap Some) = Kept(sets, V)
  BY <1>5, KeptSame
<1>7. QED
  BY <1>3, <1>4, <1>6 DEF Decided

\* What is promised of one call.
Follows(sets, name, answer) ==
  LET pro     == Kept(sets, Voting(sets, name, FALSE))
      con     == Kept(sets, Voting(sets, name, TRUE))
      decided == Decided(answer, name)
  IN  /\ Len(pro) > Len(con) => decided = pro
      /\ Len(pro) < Len(con) => decided = con
      /\ Len(pro) = Len(con) => answer = sets

LEMMA MajorityFollows ==
  ASSUME NEW sets \in Seq(Ballot), NEW name, ~NotPropositional(sets, name),
         \A k \in DOMAIN sets : \A l, m \in sets[k] :
           l.prop.pred = m.prop.pred /\ l.prop.args = m.prop.args => l.neg = m.neg
  PROVE  Follows(sets, name, Majority(sets, name))
<1> DEFINE acc  == Votes(sets, name, FALSE)
           deny == Votes(sets, name, TRUE)
           pro  == Voting(sets, name, FALSE)
           con  == Voting(sets, name, TRUE)
           U    == {a \in ToSet(sets) : Accepts(a, name) = (acc > deny)}
<1>1. Len(Kept(sets, pro)) = acc /\ Len(Kept(sets, con)) = deny
  BY VotesCounted
<1>2. acc \in Nat /\ deny \in Nat
  <2>1. Kept(sets, pro) \in Seq(Ballot) /\ Kept(sets, con) \in Seq(Ballot)
    BY KeptType
  <2> HIDE DEF acc, deny, pro, con
  <2>2. QED
    BY <1>1, <2>1, LenProperties
<1>3. Majority(sets, name) = IF acc = deny THEN sets ELSE Kept(sets, U)
  BY DEF Majority
<1>4. ASSUME NEW k \in DOMAIN sets
      PROVE  /\ sets[k] \in pro <=> Accepts(sets[k], name)
             /\ sets[k] \in con <=> \E l \in sets[k] : l.prop.pred = name /\ l.neg
             /\ acc > deny => (sets[k] \in U <=> Accepts(sets[k], name))
             /\ ~(acc > deny) => (sets[k] \in U <=> ~Accepts(sets[k], name))
             /\ (\E l \in sets[k] : l.prop.pred = name) <=> sets[k] \in pro \/ sets[k] \in con
             /\ ~(sets[k] \in pro /\ sets[k] \in con)
  <2>1. sets[k] \in Ballot /\ sets[k] \in ToSet(sets)
    BY ElementOfSeq DEF ToSet
  <2>2. \A l \in sets[k] : l.neg \in BOOLEAN
    BY <2>1 DEF Ballot
  <2>3. sets[k] \in pro <=> Accepts(sets[k], name)
    BY <2>1, <2>2 DEF Voting, Accepts
  <2>4. sets[k] \in con <=> \E l \in sets[k] : l.prop.pred = name /\ l.neg
    BY <2>1, <2>2 DEF Voting
  <2>5. /\ acc > deny => (sets[k] \in U <=> Accepts(sets[k], name))
        /\ ~(acc > deny) => (sets[k] \in U <=> ~Accepts(sets[k], name))
    <3> HIDE DEF acc, deny
    <3>1. Accepts(sets[k], name) \in BOOLEAN /\ (acc > deny) \in BOOLEAN
      BY DEF Accepts
    <3>2. QED
      BY <2>1, <3>1, Zenon
  <2>6. (\E l \in sets[k] : l.prop.pred = name) <=> sets[k] \in pro \/ sets[k] \in con
    BY <2>2, <2>3, <2>4 DEF Accepts
  <2>7. ASSUME sets[k] \in pro, sets[k] \in con
        PROVE  FALSE
    <3>1. PICK l \in sets[k] : l.prop.pred = name /\ ~l.neg
      BY <2>3, <2>7 DEF Accepts
    <3>2. PICK m \in sets[k] : m.prop.pred = name /\ m.neg
      BY <2>4, <2>7
    <3>3. l.prop.args = <<>> /\ m.prop.args = <<>>
      BY <3>1, <3>2 DEF NotPropositional
    <3>4. l.neg = m.neg
      BY <3>1, <3>2, <3>3
    <3>5. QED
      BY <3>1, <3>2, <3>4
  <2>8. QED
    BY <2>3, <2>4, <2>5, <2>6, <2>7
<1> DEFINE answer  == Majority(sets, name)
           decided == Decided(answer, name)
<1>5. ASSUME acc > deny
      PROVE  decided = Kept(sets, pro)
  <2>1. VotersAmong(sets, name, U, pro)
    <3> HIDE DEF U, pro, con, acc, deny
    <3>1. QED
      BY <1>4, <1>5 DEF VotersAmong
  <2>2. answer = Kept(sets, U)
    <3>1. acc # deny
      <4> HIDE DEF acc, deny
      <4>1. QED
        BY <1>2, <1>5
    <3>2. QED
      BY <1>3, <3>1, Zenon
  <2>3. decided = Kept(sets, pro)
    <3> HIDE DEF U, pro, answer
    <3>1. QED
      BY <2>1, <2>2, DecidedAmong
  <2>4. QED
    BY <2>3
<1>6. ASSUME acc < deny
      PROVE  decided = Kept(sets, con)
  <2>1. ~(acc > deny)
    <3> HIDE DEF acc, deny
    <3>1. QED
      BY <1>2, <1>6
  <2>2. VotersAmong(sets, name, U, con)
    <3> HIDE DEF U, pro, con, acc, deny
    <3>1. QED
      BY <1>4, <2>1 DEF VotersAmong
  <2>3. answer = Kept(sets, U)
    <3>1. acc # deny
      <4> HIDE DEF acc, deny
      <4>1. QED
        BY <1>2, <1>6
    <3>2. QED
      BY <1>3, <3>1, Zenon
  <2>4. decided = Kept(sets, con)
    <3> HIDE DEF U, con, answer
    <3>1. QED
      BY <2>2, <2>3, DecidedAmong
  <2>5. QED
    BY <2>4
<1>7. acc = deny => answer = sets
  BY <1>3
<1>8. QED
  <2> HIDE DEF acc, deny, pro, con, answer
  <2>1. /\ Len(Kept(sets, pro)) > Len(Kept(sets, con)) => decided = Kept(sets, pro)
        /\ Len(Kept(sets, pro)) < Len(Kept(sets, con)) => decided = Kept(sets, con)
        /\ Len(Kept(sets, pro)) = Len(Kept(sets, con)) => answer = sets
    BY <1>1, <1>5, <1>6, <1>7
  <2>2. QED
    BY <2>1 DEF Follows, pro, con, answer

\* Of the answer sets of one answer, those with a vote that remain are those
\* that voted with the majority, in their order, whatever the answer, and all
\* remain when votes are equal (OpMajoritySelection::apply).
THEOREM MajorityAlwaysFollowed == SpecAll => []MajorityFollowed
<1>1. ASSUME ReturnedInv
      PROVE  MajorityFollowed
  <2> DEFINE c    == returned.call
             sets == c.sources[1]
  <2> SUFFICES ASSUME operator = "majorityselection", ~returned.outcome.thrown,
                      NEW n \in DOMAIN c.params, IsFirstNamed(c.params, n)
               PROVE  Follows(sets, c.params[n].value, returned.outcome.answer)
    BY DEF MajorityFollowed, Follows, Decided
  <2>1. c \in MajorityCalls /\ returned.outcome = MajoritySelect(c)
    BY <1>1 DEF ReturnedInv
  <2>2. /\ IsList(c.params) /\ c.sources \in Seq(Seq(Ballot))
        /\ \A s \in DOMAIN c.sources : \A k \in DOMAIN c.sources[s] : \A l, m \in c.sources[s][k] :
             l.prop.pred = m.prop.pred /\ l.prop.args = m.prop.args => l.neg = m.neg
    BY <2>1, MajorityAssumption DEF Ballot
  <2> HIDE DEF c
  <2> DEFINE name == c.params[n].value
  <2>3. /\ Len(c.sources) = 1 /\ ~NotPropositional(sets, name)
        /\ returned.outcome = Answered(Majority(sets, name))
    <3>1. (CHOOSE m \in DOMAIN c.params : IsFirstNamed(c.params, m)) = n
      BY <2>2, OneFirstNamed
    <3>2. MajoritySelect(c) # Exception
      BY <2>1 DEF Exception
    <3> HIDE DEF sets
    <3>3. QED
      BY <2>1, <3>1, <3>2 DEF MajoritySelect, sets
  <2>4. 1 \in DOMAIN c.sources /\ sets \in Seq(Ballot)
    BY <2>2, <2>3, ElementOfSeq
  <2>5. \A k \in DOMAIN sets : \A l, m \in sets[k] :
           l.prop.pred = m.prop.pred /\ l.prop.args = m.prop.args => l.neg = m.neg
    BY <2>2, <2>4
  <2>6. Follows(sets, name, Majority(sets, name))
    BY <2>3, <2>4, <2>5, MajorityFollows
  <2>7. QED
    BY <2>3, <2>6 DEF Answered
<1>2. QED
  BY <1>1, ReturnedInvariant, PTL

-------------------------------------------------------------------------------
(***************************************************************************)
(* relationmerging.                                                        *)
(***************************************************************************)
LEMMA CountedFromZero ==
  ASSUME NEW n \in Nat
  PROVE  IsFiniteSet(0 .. n - 1) /\ Cardinality(0 .. n - 1) = n
<1>1. 0 \in Int /\ n - 1 \in Int
  OBVIOUS
<1>2. /\ IsFiniteSet(0 .. n - 1)
      /\ Cardinality(0 .. n - 1) = IF 0 > n - 1 THEN 0 ELSE (n - 1) - 0 + 1
  BY <1>1, FS_Interval, Zenon
<1>3. QED
  BY <1>2

\* The positions of the key, when it comes first.
LEMMA FirstIndices ==
  ASSUME NEW schema, IsList(schema), NEW key, IsList(key), KeyMatches(schema, key),
         SubSeq(schema, 1, Len(key)) = key
  PROVE  /\ Len(key) \in Nat /\ Len(key) <= Len(schema)
         /\ KeyIndices(schema, key) = 0 .. Len(key) - 1
         /\ KeyIndicesOrdered(schema, key) = [j \in 1 .. Len(key) |-> j - 1]
         /\ \A n \in 1 .. Len(key) : schema[n] = key[n]
<1> DEFINE I == KeyIndices(schema, key)
           L == Len(key)
           S == ToSet(schema)
           K == ToSet(key)
           rank(i) == Cardinality({h \in I : h < i})
<1>1. schema \in Seq(S) /\ key \in Seq(K)
  BY DEF IsList
<1> HIDE DEF S
<1>2. L \in Nat /\ Len(schema) \in Nat /\ DOMAIN key = 1 .. L /\ DOMAIN schema = 1 .. Len(schema)
  BY <1>1
<1>3. I \subseteq 0 .. Len(schema) - 1
  BY DEF KeyIndices
<1>4. IsFiniteSet(0 .. Len(schema) - 1) /\ Cardinality(0 .. Len(schema) - 1) = Len(schema)
  BY <1>2, CountedFromZero
<1>5. IsFiniteSet(I) /\ Cardinality(I) \in Nat /\ Cardinality(I) <= Len(schema)
  BY <1>3, <1>4, FS_Subset, FS_CardinalityType
<1>6. KeyIndicesOrdered(schema, key) = [j \in 1 .. Cardinality(I) |-> CHOOSE i \in I : rank(i) = j - 1]
  BY DEF KeyIndicesOrdered
<1>7. Cardinality(I) = L
  <2> DEFINE f == KeyIndicesOrdered(schema, key)
  <2>1. DOMAIN f = 1 .. Cardinality(I)
    BY <1>6
  <2>2. Len(f) = L
    BY DEF KeyMatches
  <2> HIDE DEF f, I
  <2>3. f = [j \in 1 .. Cardinality(I) |-> f[j]]
    BY <1>6 DEF f
  <2>4. Len(f) = Cardinality(I)
    BY <1>5, <2>1, <2>3, IsAList
  <2>5. QED
    BY <2>2, <2>4
<1>8. L <= Len(schema)
  BY <1>5, <1>7
<1>9. \A n \in 1 .. L : schema[n] = key[n]
  <2>1. SUFFICES ASSUME NEW n \in 1 .. L
                 PROVE  schema[n] = key[n]
    OBVIOUS
  <2>2. SubSeq(schema, 1, L)[n] = schema[1 + n - 1]
    BY <1>1, <1>2, <1>8, <2>1, SubSeqProperties
  <2>3. 1 + n - 1 = n
    BY <1>2
  <2>4. QED
    BY <2>2, <2>3
<1>10. 0 .. L - 1 \subseteq I
  <2>1. SUFFICES ASSUME NEW i \in 0 .. L - 1
                 PROVE  i \in I
    OBVIOUS
  <2>2. i + 1 \in 1 .. L /\ i \in 0 .. Len(schema) - 1
    BY <1>2, <1>8
  <2>3. schema[i + 1] \in ToSet(key)
    BY <1>2, <1>9, <2>2 DEF ToSet
  <2>4. QED
    BY <2>2, <2>3 DEF KeyIndices
<1>11. IsFiniteSet(0 .. L - 1) /\ Cardinality(0 .. L - 1) = L
  BY <1>2, CountedFromZero
<1>12. I = 0 .. L - 1
  BY <1>5, <1>7, <1>10, <1>11, FS_Subset
<1>13. ASSUME NEW i \in 0 .. L - 1
       PROVE  rank(i) = i
  <2>1. {h \in 0 .. L - 1 : h < i} = 0 .. i - 1 /\ i \in Nat
    BY <1>2
  <2>2. Cardinality(0 .. i - 1) = i
    BY <2>1, CountedFromZero
  <2>3. QED
    BY <1>12, <2>1, <2>2
<1>14. ASSUME NEW j \in 1 .. L
       PROVE  (CHOOSE i \in I : rank(i) = j - 1) = j - 1
  <2>1. j - 1 \in I /\ rank(j - 1) = j - 1
    BY <1>2, <1>12, <1>13
  <2>2. \A i \in I : rank(i) = i
    BY <1>12, <1>13
  <2> HIDE DEF rank, I
  <2>3. QED
    BY <2>1, <2>2
<1>15. KeyIndicesOrdered(schema, key) = [j \in 1 .. L |-> j - 1]
  <2> HIDE DEF I, rank
  <2>1. QED
    BY <1>6, <1>7, <1>14
<1>16. QED
  BY <1>2, <1>8, <1>9, <1>12, <1>15

\* Then the key of a tuple is its first part.
LEMMA FirstKey ==
  ASSUME NEW schema, IsList(schema), NEW key, IsList(key), KeyMatches(schema, key),
         SubSeq(schema, 1, Len(key)) = key,
         NEW t, IsList(t), Len(t) = Len(schema)
  PROVE  KeyOf(t, schema, key) = SubSeq(t, 1, Len(key))
<1> DEFINE L == Len(key)
           K == ToSet(t)
           x == SubSeq(t, 1, L)
<1>1. L \in Nat /\ L <= Len(schema) /\ KeyIndicesOrdered(schema, key) = [j \in 1 .. L |-> j - 1]
  BY FirstIndices
<1>2. t \in Seq(K)
  BY DEF IsList
<1> HIDE DEF K, L
<1>3. KeyOf(t, schema, key) = [j \in 1 .. L |-> t[j]]
  <2>1. \A j \in 1 .. L : [h \in 1 .. L |-> h - 1][j] + 1 = j
    BY <1>1
  <2>2. QED
    BY <1>1, <2>1 DEF KeyOf
<1>4. x = [j \in 1 .. L |-> t[j]]
  <2>1. x \in Seq(K) /\ Len(x) = L /\ \A j \in 1 .. L : x[j] = t[j]
    BY <1>1, <1>2
  <2>2. DOMAIN x = 1 .. L /\ x = [j \in DOMAIN x |-> x[j]]
    BY <2>1
  <2> HIDE DEF x
  <2>3. QED
    BY <2>1, <2>2
<1>5. QED
  BY <1>3, <1>4 DEF L

\* A call whose sources can be merged, and list the key first.
Mergeable(c) ==
  /\ c \in RelationCalls
  /\ KeyFirst(c)
  /\ ~Unmergeable(c.sources, c.key)

Facts(c) == UNION {RewriteSource(s, c.sources[s], c.key) : s \in DOMAIN c.sources}

LEMMA SourceKeys ==
  ASSUME NEW c, Mergeable(c), NEW s \in DOMAIN c.sources
  PROVE  LET schema == c.sources[s].schemas[1]
         IN  /\ KeyIndices(schema, c.key) = 0 .. Len(c.key) - 1
             /\ Len(c.key) \in Nat
             /\ DOMAIN schema \subseteq Nat \ {0}
             /\ \A n \in DOMAIN schema : n <= Len(c.key) => schema[n] \in ToSet(c.key)
             /\ \A t \in c.sources[s].data : KeyOf(t, schema, c.key) = SubSeq(t, 1, Len(c.key))
<1> DEFINE schema == c.sources[s].schemas[1]
           key    == c.key
           S      == ToSet(schema)
<1>1. /\ Len(c.sources[s].schemas) = 1 /\ KeyMatches(schema, key)
      /\ SubSeq(schema, 1, Len(key)) = key
  BY DEF Mergeable, Unmergeable, KeyFirst
<1>2. /\ IsList(key) /\ IsList(schema)
      /\ \A t \in c.sources[s].data : IsList(t) /\ Len(t) = Len(schema)
  BY <1>1, RelationAssumption DEF Mergeable
<1> HIDE DEF schema, key
<1>3. /\ Len(key) \in Nat /\ KeyIndices(schema, key) = 0 .. Len(key) - 1
      /\ \A n \in 1 .. Len(key) : schema[n] = key[n]
  BY <1>1, <1>2, FirstIndices
<1>4. schema \in Seq(S)
  BY <1>2 DEF IsList
<1>5. DOMAIN schema \subseteq Nat \ {0}
  <2> HIDE DEF S
  <2>1. QED
    BY <1>4
<1>6. ASSUME NEW n \in DOMAIN schema, n <= Len(key)
      PROVE  schema[n] \in ToSet(key)
  <2>1. n \in 1 .. Len(key)
    BY <1>3, <1>5, <1>6
  <2>2. n \in DOMAIN key
    <3>1. key \in Seq(ToSet(key))
      BY <1>2 DEF IsList
    <3>2. QED
      BY <2>1, <3>1, LenProperties
  <2>3. QED
    BY <1>3, <2>1, <2>2 DEF ToSet
<1>7. \A t \in c.sources[s].data : KeyOf(t, schema, key) = SubSeq(t, 1, Len(key))
  BY <1>1, <1>2, FirstKey
<1>8. QED
  BY <1>3, <1>5, <1>6, <1>7 DEF schema, key

LEMMA FactsAre ==
  ASSUME NEW c, Mergeable(c), NEW a, a \notin ToSet(c.key), NEW k, NEW s \in DOMAIN c.sources
  PROVE  {f.value : f \in {g \in Facts(c) : g.att = a /\ g.key = k /\ g.source = s}} = ValuesIn(c, s, k, a)
<1> DEFINE schema == c.sources[s].schemas[1]
           data   == c.sources[s].data
           key    == c.key
           L      == Len(key)
           Fact(t, n) == [att |-> schema[n], source |-> s, key |-> SubSeq(t, 1, L), value |-> t[n]]
           T == {t \in data : SubSeq(t, 1, L) = k}
           N == {n \in DOMAIN schema : schema[n] = a}
<1>1. /\ KeyIndices(schema, key) = 0 .. L - 1 /\ L \in Nat
      /\ DOMAIN schema \subseteq Nat \ {0}
      /\ \A n \in DOMAIN schema : n <= L => schema[n] \in ToSet(key)
      /\ \A t \in data : KeyOf(t, schema, key) = SubSeq(t, 1, L)
  BY SourceKeys
<1>2. \A f \in Facts(c) : f.source = s => f \in RewriteSource(s, c.sources[s], key)
  BY DEF Facts, RewriteSource
<1>3. RewriteSource(s, c.sources[s], key) \subseteq Facts(c)
  BY DEF Facts
<1>4. RewriteSource(s, c.sources[s], key)
        = {[att |-> schema[n], source |-> s, key |-> KeyOf(t, schema, key), value |-> t[n]] :
             t \in data, n \in DOMAIN schema \ KeyIndices(schema, key)}
  BY DEF RewriteSource
<1>5. \A n \in N : n \notin KeyIndices(schema, key)
  <2>1. SUFFICES ASSUME NEW n \in N
                 PROVE  ~(n <= L)
    BY <1>1
  <2>2. n \in DOMAIN schema /\ schema[n] \notin ToSet(key)
    OBVIOUS
  <2> HIDE DEF N, schema, key, L
  <2>3. QED
    BY <1>1, <2>2
<1> HIDE DEF schema, data, key
<1>6. ASSUME NEW f \in Facts(c), f.att = a, f.key = k, f.source = s
      PROVE  \E t \in T, n \in N : f.value = t[n]
  <2>1. PICK t \in data, n \in DOMAIN schema \ KeyIndices(schema, key) :
          f = [att |-> schema[n], source |-> s, key |-> KeyOf(t, schema, key), value |-> t[n]]
    BY <1>2, <1>4, <1>6
  <2>2. f.value = t[n] /\ schema[n] = a /\ SubSeq(t, 1, L) = k
    BY <1>1, <1>6, <2>1
  <2>3. t \in T /\ n \in N
    BY <2>1, <2>2
  <2>4. QED
    BY <2>2, <2>3
<1>7. ASSUME NEW t \in T, NEW n \in N
      PROVE  \E f \in Facts(c) : f.att = a /\ f.key = k /\ f.source = s /\ f.value = t[n]
  <2> DEFINE f == [att |-> schema[n], source |-> s, key |-> KeyOf(t, schema, key), value |-> t[n]]
  <2>1. t \in data /\ SubSeq(t, 1, L) = k /\ n \in DOMAIN schema \ KeyIndices(schema, key) /\ schema[n] = a
    BY <1>5
  <2>2. f \in Facts(c)
    BY <1>3, <1>4, <2>1
  <2>3. f.att = a /\ f.key = k /\ f.source = s /\ f.value = t[n]
    BY <1>1, <2>1
  <2>4. QED
    BY <2>2, <2>3
<1>8. ValuesIn(c, s, k, a) = {t[n] : t \in T, n \in N}
  BY DEF ValuesIn, schema, data, key
<1> HIDE DEF T, N
<1>9. QED
  BY <1>6, <1>7, <1>8

\* Every fact comes from a source.
LEMMA FactsHaveSources ==
  ASSUME NEW c, NEW f \in Facts(c)
  PROVE  f.source \in DOMAIN c.sources
  BY DEF Facts, RewriteSource

LEMMA GivenAre ==
  ASSUME NEW c, Mergeable(c), NEW a, a \notin ToSet(c.key), NEW k
  PROVE  Given(Facts(c), a, k) = AllValues(c, k, a)
<1> DEFINE From(s) == {f.value : f \in {g \in Facts(c) : g.att = a /\ g.key = k /\ g.source = s}}
<1>1. \A s \in DOMAIN c.sources : From(s) = ValuesIn(c, s, k, a)
  BY FactsAre
<1>2. Given(Facts(c), a, k) = UNION {From(s) : s \in DOMAIN c.sources}
  BY FactsHaveSources DEF Given
<1> HIDE DEF From
<1>3. QED
  BY <1>1, <1>2 DEF AllValues

LEMMA PreferredAre ==
  ASSUME NEW c, Mergeable(c), NEW a, a \notin ToSet(c.key), NEW k
  PROVE  {f.value : f \in {g \in Facts(c) : /\ a \in DOMAIN c.rules
                                            /\ g.att = a
                                            /\ g.key = k
                                            /\ g.source = c.rules[a]}} = Preferred(c, k, a)
<1> DEFINE From(s) == {f.value : f \in {g \in Facts(c) : g.att = a /\ g.key = k /\ g.source = s}}
           Rules == {r \in DOMAIN c.sources : a \in DOMAIN c.rules /\ c.rules[a] = r}
           Ruled == {f.value : f \in {g \in Facts(c) : /\ a \in DOMAIN c.rules
                                                       /\ g.att = a
                                                       /\ g.key = k
                                                       /\ g.source = c.rules[a]}}
<1>1. \A s \in Rules : From(s) = ValuesIn(c, s, k, a)
  BY FactsAre
<1>2. Ruled = UNION {From(s) : s \in Rules}
  BY FactsHaveSources
<1>3. Preferred(c, k, a) = UNION {ValuesIn(c, s, k, a) : s \in Rules}
  BY DEF Preferred
<1> HIDE DEF From, Rules
<1>4. QED
  BY <1>1, <1>2, <1>3

LEMMA FinalExpected ==
  ASSUME NEW c, Mergeable(c), NEW a, a \notin ToSet(c.key), NEW k
  PROVE  Final(c, Facts(c), a, k) = Expected(c, k, a)
<1> DEFINE given   == Given(Facts(c), a, k)
           stated  == Stated(c, Facts(c), a, k)
           default == {c.defaults[b] : b \in DOMAIN c.defaults \cap {a}}
           all     == AllValues(c, k, a)
           pref    == Preferred(c, k, a)
<1>1. given = all
  BY GivenAre
<1>2. stated = pref \cup (IF a \in DOMAIN c.defaults /\ given = {} THEN {c.defaults[a]} ELSE {})
  BY PreferredAre DEF Stated
<1>3. pref \subseteq all
  BY DEF Preferred, AllValues
<1>4. default = IF a \in DOMAIN c.defaults THEN {c.defaults[a]} ELSE {}
  OBVIOUS
<1>5. Expected(c, k, a) = IF pref # {} THEN pref ELSE IF all = {} THEN default
                          ELSE {v \in all : all = {v}}
  BY DEF Expected, AllValues, Preferred
<1>6. Final(c, Facts(c), a, k) = IF stated # {} THEN stated ELSE {v \in given : \A w \in given : w = v}
  BY DEF Final
<1> HIDE DEF given, stated, default, all, pref
<1>7. {v \in given : \A w \in given : w = v} = {v \in all : all = {v}}
  BY <1>1
<1>8. CASE pref # {}
  BY <1>1, <1>2, <1>3, <1>5, <1>6, <1>8
<1>9. CASE pref = {} /\ all = {}
  BY <1>1, <1>2, <1>4, <1>5, <1>6, <1>7, <1>9
<1>10. CASE pref = {} /\ all # {}
  BY <1>1, <1>2, <1>5, <1>6, <1>7, <1>10
<1>11. QED
  BY <1>8, <1>9, <1>10

\* A final value is one that is stated.
LEMMA FinalGiven ==
  ASSUME NEW c, NEW a, NEW k
  PROVE  Final(c, Facts(c), a, k)
           \subseteq {f.value : f \in Facts(c)} \cup {c.defaults[b] : b \in DOMAIN c.defaults}
<1> DEFINE values == {f.value : f \in Facts(c)} \cup {c.defaults[b] : b \in DOMAIN c.defaults}
<1>1. Stated(c, Facts(c), a, k) \subseteq values
  BY DEF Stated
<1>2. Given(Facts(c), a, k) \subseteq values
  BY DEF Given
<1> HIDE DEF values
<1>3. Final(c, Facts(c), a, k) \subseteq values
  BY <1>1, <1>2 DEF Final
<1>4. QED
  BY <1>3 DEF values

LEMMA IndividualsAre ==
  ASSUME NEW c, Mergeable(c)
  PROVE  Individuals(c.sources, c.key) = KeysOf(c)
<1>1. ASSUME NEW s \in DOMAIN c.sources
      PROVE  {KeyOf(t, c.sources[s].schemas[1], c.key) : t \in c.sources[s].data}
               = {SubSeq(t, 1, Len(c.key)) : t \in c.sources[s].data}
  <2>1. \A t \in c.sources[s].data : KeyOf(t, c.sources[s].schemas[1], c.key) = SubSeq(t, 1, Len(c.key))
    BY SourceKeys
  <2>2. QED
    BY <2>1
<1>2. QED
  BY <1>1 DEF Individuals, KeysOf

\* A value for each of some places, from the set for that place.
ValuesFrom(D, X, F) == {w \in [D -> X] : \A n \in D : w[n] \in F[n]}

LEMMA SameChoices ==
  ASSUME NEW D, NEW X, NEW F, NEW G, \A n \in D : F[n] = G[n] /\ F[n] \subseteq X
  PROVE  ValuesFrom(D, X, F) = ValuesFrom(D, UNION {G[n] : n \in D}, G)
<1>1. ASSUME NEW w \in [D -> X], \A n \in D : w[n] \in F[n]
      PROVE  w \in [D -> UNION {G[n] : n \in D}] /\ \A n \in D : w[n] \in G[n]
  BY <1>1
<1>2. ASSUME NEW w \in [D -> UNION {G[n] : n \in D}], \A n \in D : w[n] \in G[n]
      PROVE  w \in [D -> X] /\ \A n \in D : w[n] \in F[n]
  BY <1>2
<1>3. QED
  BY <1>1, <1>2 DEF ValuesFrom

LEMMA ResultPromised ==
  ASSUME NEW c, Mergeable(c)
  PROVE  ResultExtraction(c, Facts(c)) = Promised(c)
<1> DEFINE rest == NonKey(c)
           X == {f.value : f \in Facts(c)} \cup {c.defaults[a] : a \in DOMAIN c.defaults}
           Got(k)    == {w \in [DOMAIN rest -> X] : \A n \in DOMAIN w : w[n] \in Final(c, Facts(c), rest[n], k)}
           Wanted(k) == {w \in [DOMAIN rest -> UNION {Expected(c, k, rest[n]) : n \in DOMAIN rest}] :
                           \A n \in DOMAIN rest : w[n] \in Expected(c, k, rest[n])}
<1>1. \A n \in DOMAIN rest : rest[n] \notin ToSet(c.key)
  <2> DEFINE S == ToSet(c.schema)
  <2>1. c.schema \in Seq(S)
    BY RelationAssumption DEF Mergeable, IsList
  <2> HIDE DEF S
  <2>2. \A n \in DOMAIN rest : rest[n] \in ToSet(c.schema) \ ToSet(c.key)
    BY <2>1, KeptAmong DEF NonKey
  <2>3. QED
    BY <2>2
<1>2. ResultExtraction(c, Facts(c)) = UNION {{k \o v : v \in Got(k)} : k \in Individuals(c.sources, c.key)}
  BY DEF ResultExtraction
<1>3. Promised(c) = UNION {{k \o v : v \in Wanted(k)} : k \in KeysOf(c)}
  BY DEF Promised
<1> HIDE DEF rest
<1>4. ASSUME NEW k
      PROVE  Got(k) = Wanted(k)
  <2> DEFINE F == [n \in DOMAIN rest |-> Final(c, Facts(c), rest[n], k)]
             G == [n \in DOMAIN rest |-> Expected(c, k, rest[n])]
  <2>1. \A n \in DOMAIN rest : F[n] = G[n] /\ F[n] \subseteq X
    <3>1. SUFFICES ASSUME NEW n \in DOMAIN rest
                   PROVE  F[n] = G[n] /\ F[n] \subseteq X
      OBVIOUS
    <3>2. Final(c, Facts(c), rest[n], k) = Expected(c, k, rest[n])
      BY <1>1, FinalExpected
    <3>3. Final(c, Facts(c), rest[n], k) \subseteq X
      BY FinalGiven
    <3> HIDE DEF X
    <3>4. QED
      BY <3>2, <3>3
  <2> HIDE DEF X
  <2>2. Got(k) = ValuesFrom(DOMAIN rest, X, F)
    BY DEF ValuesFrom
  <2>3. {Expected(c, k, rest[n]) : n \in DOMAIN rest} = {G[n] : n \in DOMAIN rest}
    OBVIOUS
  <2>4. Wanted(k) = ValuesFrom(DOMAIN rest, UNION {G[n] : n \in DOMAIN rest}, G)
    BY <2>3 DEF ValuesFrom
  <2> HIDE DEF F, G, Got, Wanted
  <2>5. QED
    BY <2>1, <2>2, <2>4, SameChoices
<1>5. Individuals(c.sources, c.key) = KeysOf(c)
  BY IndividualsAre
<1> HIDE DEF Got, Wanted
<1>6. ASSUME NEW x \in ResultExtraction(c, Facts(c))
      PROVE  x \in Promised(c)
  <2>1. PICK k \in KeysOf(c) : x \in {k \o v : v \in Got(k)}
    BY <1>2, <1>5, <1>6
  <2>2. x \in {k \o v : v \in Wanted(k)}
    BY <1>4, <2>1
  <2>3. QED
    BY <1>3, <2>2
<1>7. ASSUME NEW x \in Promised(c)
      PROVE  x \in ResultExtraction(c, Facts(c))
  <2>1. PICK k \in KeysOf(c) : x \in {k \o v : v \in Wanted(k)}
    BY <1>3, <1>7
  <2>2. x \in {k \o v : v \in Got(k)}
    BY <1>4, <2>1
  <2>3. QED
    BY <1>2, <1>5, <2>2
<1>8. QED
  BY <1>6, <1>7

\* Whatever relations are merged, by whatever rules and defaults: if the key
\* comes first in each source, the result has the tuples that the sources, the
\* rules and the defaults call for, and no others (OpRelationMerging::apply).
THEOREM RelationAlwaysMerged == SpecAll => []RelationMerged
<1>1. ASSUME ReturnedInv
      PROVE  RelationMerged
  <2> DEFINE c == returned.call
  <2> SUFFICES ASSUME operator = "relationmerging", ~returned.outcome.thrown, KeyFirst(c)
               PROVE  returned.outcome.data = Promised(c)
    BY DEF RelationMerged, Promised
  <2>1. c \in RelationCalls /\ returned.outcome = RelationMerge(c)
    BY <1>1 DEF ReturnedInv
  <2>2. RelationMerge(c) # NoRelation
    BY <2>1 DEF NoRelation
  <2> HIDE DEF c
  <2>3. /\ ~Unmergeable(c.sources, c.key)
        /\ RelationMerge(c).data = ResultExtraction(c, Facts(c))
    BY <2>2 DEF RelationMerge, Facts
  <2>4. Mergeable(c)
    BY <2>1, <2>3 DEF Mergeable
  <2>5. QED
    BY <2>1, <2>3, <2>4, ResultPromised
<1>2. QED
  BY <1>1, ReturnedInvariant, PTL
===============================================================================
