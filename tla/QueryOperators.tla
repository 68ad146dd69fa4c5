--------------------------- MODULE QueryOperators ---------------------------
(***************************************************************************)
(* The executors of a query above its scans, as functions from the tuples  *)
(* of their children to their own (execution/executors/): joins,           *)
(* aggregation, sort, limit and projection, and the rewriting of a join    *)
(* (optimizer/optimizer.cpp). Each Init/Next pair is drained once.         *)
(* An unordered_map is left without order; std::sort may return any        *)
(* arrangement that its comparator allows.                                 *)
(***************************************************************************)
EXTENDS Expressions, FiniteSets, SequencesExt, FiniteSetsExt

-----------------------------------------------------------------------------
(* Joins. *)

\* Left tuples in order; for each of them the matching right ones in order.
NestedLoopJoin(lefts, rights, pred) ==
  FlattenSeq([i \in DOMAIN lefts |->
    LET hits == SelectSeq(rights, LAMBDA r : HoldsJoin(pred, lefts[i], r))
    IN  [j \in DOMAIN hits |-> lefts[i] \o hits[j]]])

\* Build on the left, probe from the right, with keys as strings.
HashJoin(lefts, rights, leftKey, rightKey) ==
  FlattenSeq([j \in DOMAIN rights |->
    LET key  == ValueToString(Evaluate(rightKey, rights[j]))
        hits == SelectSeq(lefts, LAMBDA l : ValueToString(Evaluate(leftKey, l)) = key)
    IN  [i \in DOMAIN hits |-> hits[i] \o rights[j]]])

\* The rewriting applies to an equality of two columns of different sides.
IsEquiJoin(pred) ==
  /\ pred.kind = "comparison" /\ pred.op = "="
  /\ pred.left.kind = "column" /\ pred.right.kind = "column"
  /\ pred.left.tuple # pred.right.tuple

\* Mistake: the sides of right.col = left.col are not swapped.
KeysAsWritten(pred) == <<ColumnValue(0, pred.left.col), ColumnValue(0, pred.right.col)>>

\* <<left_key_expr, right_key_expr>>
JoinKeys(pred) ==
  IF pred.left.tuple = 0
  THEN <<ColumnValue(0, pred.left.col), ColumnValue(0, pred.right.col)>>
  ELSE <<ColumnValue(0, pred.right.col), ColumnValue(0, pred.left.col)>>

\* Execution of a join plan after OptimizeNLJToHashJoin.
OptimizedJoin(lefts, rights, pred) ==
  IF IsEquiJoin(pred)
  THEN HashJoin(lefts, rights, JoinKeys(pred)[1], JoinKeys(pred)[2])
  ELSE NestedLoopJoin(lefts, rights, pred)

-----------------------------------------------------------------------------
(* Aggregation. An aggregate is [agg: name, arg: expression]; the binder   *)
(* declares every output column INTEGER.                                   *)

\* The value of a new group, and of an empty input without GROUP BY.
InitialAggregate(a) ==
  IF a.agg \in {"CountStar", "Count"} THEN Val("INTEGER", 0) ELSE NullVal("INTEGER")

\* Mistake: MIN and MAX start from the number of a NULL.
UpdateAggregateFromZero(a, old, v) ==
  CASE a.agg \in {"CountStar", "Count"} -> Add(old, Val(old.type, 1))
    [] a.agg = "Sum" -> IF old.null THEN v ELSE Add(old, v)
    [] a.agg = "Min" -> IF Compare("<", v, old) THEN v ELSE old
    [] a.agg = "Max" -> IF Compare("<", old, v) THEN v ELSE old

UpdateAggregate(a, old, v) ==
  CASE a.agg = "CountStar" -> Add(old, Val(old.type, 1))
    [] a.agg = "Count" -> IF v.null THEN old ELSE Add(old, Val(old.type, 1))
    [] a.agg = "Sum" -> IF v.null THEN old ELSE IF old.null THEN v ELSE Add(old, v)
    [] a.agg = "Min" -> IF v.null THEN old
                        ELSE IF old.null \/ Compare("<", v, old) THEN v ELSE old
    [] a.agg = "Max" -> IF v.null THEN old
                        ELSE IF old.null \/ Compare("<", old, v) THEN v ELSE old

\* Keys of groups: the strings of the values.
GroupKey(groupBys, tuple) == [i \in DOMAIN groupBys |-> ValueToString(Evaluate(groupBys[i], tuple))]

\* Take one tuple into groups (key to [vals, aggs]); the first one names the group.
AddToGroup(groups, tuple, groupBys, aggs) ==
  LET key == GroupKey(groupBys, tuple)
      old == IF key \in DOMAIN groups THEN groups[key]
             ELSE [vals |-> [i \in DOMAIN groupBys |-> Evaluate(groupBys[i], tuple)],
                   aggs |-> [i \in DOMAIN aggs |-> InitialAggregate(aggs[i])]]
      new == [old EXCEPT !.aggs = [i \in DOMAIN aggs |->
                UpdateAggregate(aggs[i], @[i], Evaluate(aggs[i].arg, tuple))]]
  IN  [k \in DOMAIN groups \union {key} |-> IF k = key THEN new ELSE groups[k]]

Aggregation(tuples, groupBys, aggs) ==
  LET groups == FoldLeft(LAMBDA g, t : AddToGroup(g, t, groupBys, aggs), <<>>, tuples)
  IN  IF tuples = <<>> /\ groupBys = <<>>
      THEN {[i \in DOMAIN aggs |-> InitialAggregate(aggs[i])]}
      ELSE {groups[k].vals \o groups[k].aggs : k \in DOMAIN groups}

-----------------------------------------------------------------------------
(* Sort, limit, projection. An order is a sequence of [asc, expr]. *)

\* Mistake: the comparator accepts equal keys.
ComesBeforeOrEqual(order, a, b) ==
  LET va(i) == Evaluate(order[i].expr, a)
      vb(i) == Evaluate(order[i].expr, b)
  IN  \A i \in DOMAIN order :
        Compare(IF order[i].asc THEN "<=" ELSE ">=", va(i), vb(i))

\* The comparator: the first key that differs decides.
ComesBefore(order, a, b) ==
  LET va(i) == Evaluate(order[i].expr, a)
      vb(i) == Evaluate(order[i].expr, b)
      differ == {i \in DOMAIN order : ~Compare("=", va(i), vb(i))}
      i == Min(differ)
  IN  differ # {} /\ Compare(IF order[i].asc THEN "<" ELSE ">", va(i), vb(i))

\* Every arrangement std::sort may leave: nothing comes before an earlier tuple.
Sorted(tuples, order) ==
  IF order = <<>> THEN {tuples}
  ELSE {[i \in DOMAIN tuples |-> tuples[p[i]]] :
          p \in {q \in Permutations(DOMAIN tuples) :
                   \A i, j \in DOMAIN tuples :
                     i < j => ~ComesBefore(order, tuples[q[j]], tuples[q[i]])}}

Limit(tuples, n) == SubSeq(tuples, 1, Min({n, Len(tuples)}))

Projection(tuples, exprs) ==
  [i \in DOMAIN tuples |-> [k \in DOMAIN exprs |-> Evaluate(exprs[k], tuples[i])]]

-----------------------------------------------------------------------------
(* References the executors are compared with. *)

\* Same tuples, each as often.
SameTuples(s, u) ==
  /\ Len(s) = Len(u)
  /\ \A x \in Range(s) \union Range(u) :
       Cardinality({i \in DOMAIN s : s[i] = x}) = Cardinality({i \in DOMAIN u : u[i] = x})

\* Different values of the expressions print differently.
PrintsApart(values) == \A v, w \in values : ValueToString(v) = ValueToString(w) => v = w

\* One group by its definition over all tuples.
GroupOf(tuples, groupBys, g) ==
  {i \in DOMAIN tuples : \A k \in DOMAIN groupBys : Evaluate(groupBys[k], tuples[i]) = g[k]}

\* An aggregate by its definition over a non-empty group.
AggregateOf(tuples, rows, a) ==
  LET arg(i) == Evaluate(a.arg, tuples[i])
      type   == arg(CHOOSE i \in rows : TRUE).type
  IN  CASE a.agg \in {"CountStar", "Count"} -> Val("INTEGER", Cardinality(rows))
        [] a.agg = "Sum" -> Val(type, MapThenSumSet(LAMBDA i : arg(i).n, rows))
        [] a.agg = "Min" -> Val(type, Min({arg(i).n : i \in rows}))
        [] a.agg = "Max" -> Val(type, Max({arg(i).n : i \in rows}))

AggregationByDefinition(tuples, groupBys, aggs) ==
  LET keys == {[k \in DOMAIN groupBys |-> Evaluate(groupBys[k], tuples[i])] : i \in DOMAIN tuples}
  IN  {g \o [k \in DOMAIN aggs |-> AggregateOf(tuples, GroupOf(tuples, groupBys, g), aggs[k])] :
         g \in keys}
=============================================================================
