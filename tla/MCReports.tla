------------------------------ MODULE MCReports ------------------------------
EXTENDS Reports

\* One template of each type, and a score of 11 levels that is not admitted.
EveryType == {[type |-> "choice", n |-> 3], [type |-> "score", n |-> 3],
              [type |-> "score", n |-> 11], [type |-> "noul", n |-> 2]}

\* p over the keys of t in order, and 0 for the keys it does not name.
Over(t, p) == [k \in KeySet(t) |->
                 LET i == CHOOSE i \in DOMAIN Keys(t) : Keys(t)[i] = k IN
                 IF i \in DOMAIN p THEN p[i] ELSE 0]

\* Two equal ones, one certain, the sum at either edge of the tolerance and
\* past it, values out of range, keys missing and a key of nobody's.
Edges(t) ==
  {Over(t, p) : p \in {<<500, 500>>, <<1000, 1>>, <<1000, 2>>, <<499, 499>>,
                       <<1000, 1000>>, <<-1, 1001>>}}
    \cup (IF t.n > 2 THEN {Over(t, <<0, 500, 500>>), Over(t, <<333, 333, 333>>)} ELSE {})
    \cup (IF t.n > 10 THEN {Over(t, <<0, 0, 500, 0, 0, 0, 0, 0, 0, 0, 500>>)} ELSE {})
    \cup {<<>>, [k \in {1} |-> 1000], [k \in KeySet(t) \cup {99} |-> IF k = 1 THEN 1000 ELSE 0]}

Json(json, v) == [json |-> json, v |-> v]

EveryTruth == {Json("string", 0), Json("string", 1), Json("string", 3), Json("int", -1),
               Json("int", 0), Json("int", 2), Json("int", 3), Json("bool", 0),
               Json("bool", 1), Json("null", 0), Json("absent", 0)}
=============================================================================
