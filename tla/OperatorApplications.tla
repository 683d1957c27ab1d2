------------------------- MODULE OperatorApplications -------------------------
(***************************************************************************)
(* The operators of the plugin's sources that decide between belief bases, *)
(* applied one after the other, as the evaluation of a merging plan does.  *)
(* dbo and dalal are two classes with the same code: each has its static   *)
(* counters, and both set the same option of dlvhex. What is local to an   *)
(* application is shared here, since an application runs to its end before *)
(* the next one starts. majorityselection and relationmerging keep nothing.*)
(***************************************************************************)
EXTENDS DistanceBasedMerging, MajoritySelection, RelationMerging

CONSTANTS
  DalalCalls,     \* what dalal is applied to
  MajorityCalls,  \* what majorityselection is applied to
  RelationCalls   \* what relationmerging is applied to

ASSUME DalalAssumption ==
  \A c \in DalalCalls : c.sources \in Seq(Seq(SUBSET [prop : Propositions, neg : BOOLEAN]))

IsList(list) == list \in Seq(ToSet(list))

\* An answer set does not hold a literal and its negation.
ASSUME MajorityAssumption ==
  \A c \in MajorityCalls :
    /\ IsList(c.params)
    /\ c.sources \in Seq(Seq(SUBSET [prop : Propositions, neg : BOOLEAN]))
    /\ \A s \in DOMAIN c.sources : \A k \in DOMAIN c.sources[s] : \A l, m \in c.sources[s][k] :
         l.prop.pred = m.prop.pred /\ l.prop.args = m.prop.args => l.neg = m.neg

\* The tuples of a source list a value for every attribute of its schema.
ASSUME RelationAssumption ==
  \A c \in RelationCalls :
    /\ IsList(c.key)
    /\ IsList(c.schema)
    /\ \A s \in DOMAIN c.sources : Len(c.sources[s].schemas) = 1 =>
         /\ IsList(c.sources[s].schemas[1])
         /\ \A t \in c.sources[s].data : IsList(t) /\ Len(t) = Len(c.sources[s].schemas[1])

VARIABLES
  dalalRi,        \* static counters of OpDalal
  dalalSourceNr,
  operator,       \* the operator applied last
  returned        \* what the operators without state returned last

dalalVars == <<dalalRi, dalalSourceNr>>

dboVars == <<ri, sourceNr>>

allVars == <<vars, dalalVars, operator, returned>>

Dalal ==
  INSTANCE DistanceBasedMerging WITH
    DistanceKey <- "penalize",
    Aberrations <- {"aberration"},
    Calls <- DalalCalls,
    ri <- dalalRi,
    sourceNr <- dalalSourceNr

Nothing == [call |-> NoCall, outcome |-> Exception]

InitAll ==
  /\ Init
  /\ dalalRi = 0
  /\ dalalSourceNr = 0
  /\ operator = "none"
  /\ returned = Nothing

DboApply ==
  /\ \E c \in Calls : Apply(c)
  /\ operator' = "dbo"
  /\ returned' = Nothing
  /\ UNCHANGED dalalVars

DboContinue ==
  /\ operator = "dbo"
  /\ Continue
  /\ UNCHANGED <<dalalVars, operator, returned>>

DalalApply ==
  /\ \E c \in DalalCalls : Dalal!Apply(c)
  /\ operator' = "dalal"
  /\ returned' = Nothing
  /\ UNCHANGED dboVars

DalalParameter ==
  /\ operator = "dalal"
  /\ Dalal!ParseParameter \/ Dalal!RejectParameter
  /\ UNCHANGED <<dboVars, operator, returned>>

DalalAggregate ==
  /\ operator = "dalal"
  /\ Dalal!BuildAggregateFunction \/ Dalal!RejectAggregate
  /\ UNCHANGED <<dboVars, operator, returned>>

DalalNames ==
  /\ operator = "dalal"
  /\ Dalal!NameGlobal \/ Dalal!RenameSourceAtom \/ Dalal!SourceRenamed
  /\ UNCHANGED <<dboVars, operator, returned>>

DalalSelection ==
  /\ operator = "dalal"
  /\ Dalal!WriteAnswerSetSelection
  /\ UNCHANGED <<dboVars, operator, returned>>

DalalCosts ==
  /\ operator = "dalal"
  /\ Dalal!WriteCostComputation
  /\ UNCHANGED <<dboVars, operator, returned>>

DalalRun ==
  /\ operator = "dalal"
  /\ Dalal!ProgramComplete \/ Dalal!Solve \/ Dalal!SolverThrows \/ Dalal!Return
  /\ UNCHANGED <<dboVars, operator, returned>>

\* The operators without state: one call, one answer or exception.
Stateless(name, c, outcome) ==
  /\ pc = "idle"
  /\ applications < MaxApplications
  /\ applications' = applications + 1
  /\ operator' = name
  /\ returned' = [call |-> c, outcome |-> outcome]
  /\ UNCHANGED <<ri, sourceNr, noPredicate, pc, call, at, src, names, setting, merged, result,
                 dalalVars>>

Select == \E c \in MajorityCalls : Stateless("majorityselection", c, MajoritySelect(c))

MergeRelations == \E c \in RelationCalls : Stateless("relationmerging", c, RelationMerge(c))

DalalContinue ==
  DalalParameter \/ DalalAggregate \/ DalalNames \/ DalalSelection \/ DalalCosts \/ DalalRun

NextAll ==
  DboApply \/ DboContinue \/ DalalApply \/ DalalContinue \/ Select \/ MergeRelations

SpecAll == InitAll /\ [][NextAll]_allVars

\* An application that was started is run to its end: the program is
\* sequential, and nothing waits.
FairSpecAll == SpecAll /\ WF_allVars(DboContinue \/ DalalContinue)

-------------------------------------------------------------------------------
(* Properties.                                                             *)

\* The type invariant.
AllTypeOK ==
  /\ TypeOK \/ Dalal!TypeOK
  /\ dalalRi \in Nat
  /\ dalalSourceNr \in Nat
  /\ operator \in {"none", "dbo", "dalal", "majorityselection", "relationmerging"}

\* Every application ends, with an answer or an exception: the search for an
\* unused name finds one however many names the sources use and however far
\* the static counter has got (the do-while loop of findUniqueAtomName).
ApplicationsEnd == pc # "idle" ~> pc = "idle"

\* dbo and dalal keep the closest group decisions (MinimisesDistance).
DistanceMinimised == IF operator = "dalal" THEN Dalal!MinimisesDistance ELSE MinimisesDistance

\* The shortcuts of the cost model mean what the help texts of dbo and dalal
\* say (ShortcutsAsDocumented).
ShortcutsMeanTheirTriples ==
  IF operator = "dalal" THEN Dalal!ShortcutsAsDocumented ELSE ShortcutsAsDocumented

\* A later application of dbo or dalal minimises as the first one does
\* (EveryApplicationMinimises).
LaterApplicationsMinimise ==
  IF operator = "dalal" THEN Dalal!EveryApplicationMinimises ELSE EveryApplicationMinimises

\* Ignored predicates are irrelevant for dbo and dalal (IgnoredIsIrrelevant).
IgnoredPredicatesIrrelevant ==
  IF operator = "dalal" THEN Dalal!IgnoredIsIrrelevant ELSE IgnoredIsIrrelevant

\* OpDBO.cpp:44: a program passed to dbo as the aggregate "may use cost(B,sum,C)
\* to access the total cost C for a certain belief base B". With such a program
\* dbo minimises the total (DocumentedProgramMinimises); buildAggregateFunction
\* only replaces "cost", and writeSumRule derives costSum(B,C).
UserAggregatesMinimise ==
  IF operator = "dalal" THEN Dalal!DocumentedProgramMinimises ELSE DocumentedProgramMinimises

\* The answer sets of an answer that hold the atom, or its strong negation.
Voting(answer, name, neg) ==
  {a \in ToSet(answer) : \E l \in a : l.prop.pred = name /\ l.neg = neg}

\* The answer sets of an answer that have a vote.
Decided(answer, name) ==
  Kept(answer, Voting(answer, name, FALSE) \cup Voting(answer, name, TRUE))

\* majorityselection does not touch the answer when votes are equal; otherwise
\* every answer set that voted with the majority remains, in order, and no
\* answer set that voted against it (the help text and its example). Answer
\* sets without a vote are left open here; what the help text says of them is
\* OnlyFollowersRemain.
MajorityFollowed ==
  operator = "majorityselection" /\ ~returned.outcome.thrown =>
    LET sets    == returned.call.sources[1]
        params  == returned.call.params
        answer  == returned.outcome.answer
    IN  \A n \in DOMAIN params :
          IsFirstNamed(params, n) =>
            LET name    == params[n].value
                pro     == Kept(sets, Voting(sets, name, FALSE))
                con     == Kept(sets, Voting(sets, name, TRUE))
                decided == Decided(answer, name)
            IN  /\ Len(pro) > Len(con) => decided = pro
                /\ Len(pro) < Len(con) => decided = con
                /\ Len(pro) = Len(con) => answer = sets

\* When the votes decide, "only those answer-sets that follow this majority will
\* remain; the others are deleted" (the help text of majorityselection): none
\* remains that does not vote. apply() keeps all that do not accept the atom
\* when the majority denies it.
OnlyFollowersRemain ==
  operator = "majorityselection" /\ ~returned.outcome.thrown =>
    LET sets    == returned.call.sources[1]
        params  == returned.call.params
        answer  == returned.outcome.answer
    IN  \A n \in DOMAIN params :
          IsFirstNamed(params, n) =>
            \/ Votes(sets, params[n].value, FALSE) = Votes(sets, params[n].value, TRUE)
            \/ answer = Decided(answer, params[n].value)

\* The relation that relationmerging should deliver: for every key of some
\* source, each other attribute is taken from the source a rule prefers, or
\* has the only value that is given, or its default value if none is given.
\* A tuple of a source lists its key first, and a value wherever the schema
\* names the attribute.
ValuesIn(c, s, k, a) ==
  LET schema == c.sources[s].schemas[1]
  IN  {t[n] : t \in {u \in c.sources[s].data : SubSeq(u, 1, Len(c.key)) = k},
              n \in {m \in DOMAIN schema : schema[m] = a}}

AllValues(c, k, a) == UNION {ValuesIn(c, s, k, a) : s \in DOMAIN c.sources}

Preferred(c, k, a) ==
  UNION {ValuesIn(c, s, k, a) :
           s \in {r \in DOMAIN c.sources : a \in DOMAIN c.rules /\ c.rules[a] = r}}

Expected(c, k, a) ==
  IF Preferred(c, k, a) # {} THEN Preferred(c, k, a)
  ELSE IF AllValues(c, k, a) = {} THEN {c.defaults[b] : b \in DOMAIN c.defaults \cap {a}}
  ELSE {v \in AllValues(c, k, a) : AllValues(c, k, a) = {v}}

KeysOf(c) == UNION {{SubSeq(t, 1, Len(c.key)) : t \in c.sources[s].data} : s \in DOMAIN c.sources}

Promised(c) ==
  LET rest == NonKey(c)
  IN  UNION {{k \o v : v \in {w \in [DOMAIN rest -> UNION {Expected(c, k, rest[n]) : n \in DOMAIN rest}] :
                                \A n \in DOMAIN rest : w[n] \in Expected(c, k, rest[n])}} :
               k \in KeysOf(c)}

\* The key attributes come first.
KeyFirst(c) ==
  \A s \in DOMAIN c.sources : SubSeq(c.sources[s].schemas[1], 1, Len(c.key)) = c.key

\* relationmerging gives a key exactly the expected values, and leaves the key
\* out if an attribute has none or sources contradict each other, provided
\* that the key attributes come first in every source: the position of an
\* attribute is compared with key positions counted otherwise
\* (OpRelationMerging.cpp, rewriteSource), so that the attribute before a
\* later key attribute is lost (AgreedValuesCopied).
RelationMerged ==
  operator = "relationmerging" /\ ~returned.outcome.thrown /\ KeyFirst(returned.call) =>
    returned.outcome.data = Promised(returned.call)

\* A tuple of a source as a function from the names of its attributes.
Rows(source) ==
  LET schema == source.schemas[1]
  IN  {[a \in ToSet(schema) |-> t[CHOOSE n \in DOMAIN schema : schema[n] = a]] : t \in source.data}

AllRows(c) == UNION {Rows(c.sources[s]) : s \in DOMAIN c.sources}

RowKey(c, row) == [n \in DOMAIN c.key |-> row[c.key[n]]]

ValuesByName(c, k, a) ==
  {row[a] : row \in {r \in AllRows(c) : a \in DOMAIN r /\ RowKey(c, r) = k}}

\* Without rules of the user, values are "copied into the result" when "all
\* sources agree" on them, wherever the key attributes, which "must also be
\* contained in each source", stand in its schema (the help text of
\* relationmerging, which also calls the operator buggy).
AgreedValuesCopied ==
  LET c == returned.call
  IN  operator = "relationmerging" /\ ~returned.outcome.thrown /\ c.rules = <<>> =>
        \A k \in {RowKey(c, row) : row \in AllRows(c)} :
          (\A a \in ToSet(NonKey(c)) : \E v \in ValuesByName(c, k, a) : ValuesByName(c, k, a) = {v}) =>
            k \o [n \in DOMAIN NonKey(c) |-> CHOOSE v \in ValuesByName(c, k, NonKey(c)[n]) : TRUE]
              \in returned.outcome.data
===============================================================================
