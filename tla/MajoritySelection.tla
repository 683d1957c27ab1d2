-------------------------- MODULE MajoritySelection --------------------------
(***************************************************************************)
(* The operator majorityselection (OpMajoritySelection.cpp): of the answer *)
(* sets of one answer, those remain that follow the majority for or        *)
(* against a propositional atom. An answer is a sequence of answer sets, a *)
(* literal a record of a proposition and its sign.                         *)
(***************************************************************************)
EXTENDS Integers, Sequences, FiniteSets, Selection

Exception == [thrown |-> TRUE, answer |-> <<>>]

Answered(answer) == [thrown |-> FALSE, answer |-> answer]

Accepts(answerSet, name) == \E l \in answerSet : l.prop.pred = name /\ ~l.neg

\* How many answer sets hold the atom, or with neg its strong negation.
Votes(answer, name, neg) ==
  Cardinality({k \in DOMAIN answer : \E l \in answer[k] : l.prop.pred = name /\ l.neg = neg})

\* The predicate is used with arguments in some answer set.
NotPropositional(answer, name) ==
  \E k \in DOMAIN answer : \E l \in answer[k] : l.prop.pred = name /\ l.prop.args # <<>>

\* Mutant: the minority is followed.
Minority(answer, name) ==
  LET acc  == Votes(answer, name, FALSE)
      deny == Votes(answer, name, TRUE)
  IN  IF acc = deny THEN answer
      ELSE Kept(answer, {a \in ToSet(answer) : Accepts(a, name) = (acc < deny)})

\* The answer sets that remain: with fewer votes for than against the atom
\* those, too, that do not mention it.
Majority(answer, name) ==
  LET acc  == Votes(answer, name, FALSE)
      deny == Votes(answer, name, TRUE)
  IN  IF acc = deny THEN answer
      ELSE Kept(answer, {a \in ToSet(answer) : Accepts(a, name) = (acc > deny)})

\* Only the first "majorityOf" is looked at.
IsFirstNamed(params, n) ==
  n \in DOMAIN params /\ params[n].key = "majorityOf" /\ \A m \in 1 .. n - 1 : params[m].key # "majorityOf"

MajoritySelect(call) ==
  IF Len(call.sources) # 1 \/ \A n \in DOMAIN call.params : ~IsFirstNamed(call.params, n)
    THEN Exception
    ELSE LET name == call.params[CHOOSE n \in DOMAIN call.params : IsFirstNamed(call.params, n)].value
         IN  IF NotPropositional(call.sources[1], name) THEN Exception
             ELSE Answered(Majority(call.sources[1], name))
===============================================================================
