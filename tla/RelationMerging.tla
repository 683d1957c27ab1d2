--------------------------- MODULE RelationMerging ---------------------------
(***************************************************************************)
(* The operator relationmerging (OpRelationMerging.cpp): relations with a  *)
(* common key are merged attribute by attribute. A source is an answer     *)
(* that should consist of one answer set with one schema atom; tuples list *)
(* the values of the attributes in the order of the schema. The written    *)
(* program is stratified, so that it is modelled by what it derives.       *)
(***************************************************************************)
EXTENDS Integers, Sequences, FiniteSets, Selection

NoRelation == [thrown |-> TRUE, schema |-> <<>>, data |-> {}]

\* The positions of the key attributes in a schema, counted from 0.
KeyIndices(schema, key) == {i \in 0 .. Len(schema) - 1 : schema[i + 1] \in ToSet(key)}

KeyIndicesOrdered(schema, key) ==
  LET indices == KeyIndices(schema, key)
  IN  [j \in 1 .. Cardinality(indices) |->
         CHOOSE i \in indices : Cardinality({h \in indices : h < i}) = j - 1]

KeyMatches(schema, key) ==
  LET indices == KeyIndicesOrdered(schema, key)
  IN  /\ Len(indices) = Len(key)
      /\ \A j \in DOMAIN indices : schema[indices[j] + 1] = key[j]

KeyOf(tuple, schema, key) ==
  LET indices == KeyIndicesOrdered(schema, key)
  IN  [j \in DOMAIN indices |-> tuple[indices[j] + 1]]

\* The facts written for a source: the position of an attribute, which is
\* counted from 1, is looked up among key positions that are counted from 0.
RewriteSource(s, source, key) ==
  {[att |-> source.schemas[1][n], source |-> s, key |-> KeyOf(t, source.schemas[1], key), value |-> t[n]] :
     t \in source.data, n \in DOMAIN source.schemas[1] \ KeyIndices(source.schemas[1], key)}

Individuals(sources, key) ==
  UNION {{KeyOf(t, sources[s].schemas[1], key) : t \in sources[s].data} : s \in DOMAIN sources}

\* What rewriteSources throws for.
Unmergeable(sources, key) ==
  \E s \in DOMAIN sources :
    \/ sources[s].answerSets # 1
    \/ Len(sources[s].schemas) # 1
    \/ ~KeyMatches(sources[s].schemas[1], key)

\* Values that the sources give for an attribute of a key.
Given(facts, a, k) == {f.value : f \in {g \in facts : g.att = a /\ g.key = k}}

\* Values that are stated for the merged relation: by a rule of the user, which
\* prefers a source, or by default if no source gives any.
Stated(call, facts, a, k) ==
  {f.value : f \in {g \in facts : /\ a \in DOMAIN call.rules
                                  /\ g.att = a
                                  /\ g.key = k
                                  /\ g.source = call.rules[a]}}
  \cup (IF a \in DOMAIN call.defaults /\ Given(facts, a, k) = {} THEN {call.defaults[a]} ELSE {})

\* Mutant: contradictory values are not excluded.
FinalContradictory(call, facts, a, k) ==
  LET stated == Stated(call, facts, a, k)
  IN  IF stated # {} THEN stated ELSE Given(facts, a, k)

\* Stated values are final, otherwise the only one that is given.
Final(call, facts, a, k) ==
  LET stated == Stated(call, facts, a, k)
      given  == Given(facts, a, k)
  IN  IF stated # {} THEN stated ELSE {v \in given : \A w \in given : w = v}

NonKey(call) == Kept(call.schema, ToSet(call.schema) \ ToSet(call.key))

\* The tuples of the result: the key, then the other attributes.
ResultExtraction(call, facts) ==
  UNION {{k \o v : v \in {w \in [DOMAIN NonKey(call) -> {f.value : f \in facts} \cup {call.defaults[a] : a \in DOMAIN call.defaults}] :
                            \A n \in DOMAIN w : w[n] \in Final(call, facts, NonKey(call)[n], k)}} :
           k \in Individuals(call.sources, call.key)}

\* Without a key, or without other attributes, the written rules are no rules.
RelationMerge(call) ==
  IF Unmergeable(call.sources, call.key) \/ call.key = <<>> \/ NonKey(call) = <<>>
    THEN NoRelation
    ELSE [thrown |-> FALSE,
          schema |-> call.schema,
          data   |-> ResultExtraction(call, UNION {RewriteSource(s, call.sources[s], call.key) :
                                                     s \in DOMAIN call.sources})]
===============================================================================
