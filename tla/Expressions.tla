----------------------------- MODULE Expressions -----------------------------
(***************************************************************************)
(* Values (type/value.cpp), tuples (storage/table/tuple.cpp) and the bound *)
(* expressions of a plan (execution/expressions/).                         *)
(*                                                                         *)
(* A FLOAT is counted in thousandths. Expressions are as deep as the       *)
(* statements of the models need: a leaf, or an operator over two leaves;  *)
(* a predicate is absent, a comparison, or AND/OR of two comparisons.      *)
(***************************************************************************)
EXTENDS Integers, Sequences

\* A value that is not NULL, and the NULL of a type: its number is 0.
Val(type, n) == [type |-> type, null |-> FALSE, n |-> n]

NullVal(type) == [type |-> type, null |-> TRUE, n |-> 0]

\* Stands for the exception of a failed ONEBASE_ASSERT.
Thrown == NullVal("throw")

\* What ToString can tell apart: NULL, an integer, a float to two decimals.
\* (Halves, which depend on the binary fraction, are not used.)
ValueToString(v) ==
  IF v.null THEN <<"NULL">>
  ELSE IF v.type = "FLOAT" THEN <<"decimals", (v.n + 5) \div 10>>
  ELSE <<"digits", v.n>>

\* CompareEquals and its siblings, for values of one type; NULL counts as 0.
Compare(op, a, b) ==
  CASE op = "="  -> a.n = b.n
    [] op = "<>" -> a.n # b.n
    [] op = "<"  -> a.n < b.n
    [] op = "<=" -> a.n <= b.n
    [] op = ">"  -> a.n > b.n
    [] op = ">=" -> a.n >= b.n

Add(a, b) == Val(a.type, a.n + b.n)

Abs(n) == IF n < 0 THEN -n ELSE n

\* Division of C++ rounds towards zero.
Quotient(a, b) == IF (a < 0) = (b < 0) THEN Abs(a) \div Abs(b) ELSE -(Abs(a) \div Abs(b))

\* Arithmetic of INTEGER operands.
Arithmetic(op, a, b) ==
  CASE op = "+" -> Add(a, b)
    [] op = "-" -> Val(a.type, a.n - b.n)
    [] op = "*" -> Val(a.type, a.n * b.n)
    [] op = "/" -> IF b.n = 0 THEN Thrown ELSE Val(a.type, Quotient(a.n, b.n))
    [] op = "%" -> IF b.n = 0 THEN Thrown ELSE Val(a.type, a.n - b.n * Quotient(a.n, b.n))

-----------------------------------------------------------------------------
(* Tuples. A stored row holds only numbers: SerializeTo writes neither the *)
(* types nor whether a value was NULL. A deleted slot reads as the empty   *)
(* tuple.                                                                  *)

Deleted == <<>>

Serialize(values) == [i \in DOMAIN values |-> values[i].n]

\* GetValue with the types of a schema.
GetValue(schema, row, col) == Val(schema[col], row[col])

Values(schema, row) == [col \in DOMAIN row |-> GetValue(schema, row, col)]

-----------------------------------------------------------------------------
(* Expressions. A tuple here is a sequence of values. *)

ColumnValue(tuple_idx, col) == [kind |-> "column", tuple |-> tuple_idx, col |-> col]

ConstantValue(v) == [kind |-> "constant", val |-> v]

ArithmeticOf(op, l, r) == [kind |-> "arithmetic", op |-> op, left |-> l, right |-> r]

EvaluateLeaf(e, left, right) ==
  IF e.kind = "constant" THEN e.val
  ELSE IF e.tuple = 0 THEN left[e.col] ELSE right[e.col]

EvaluateJoin(e, left, right) ==
  IF e.kind = "arithmetic"
  THEN Arithmetic(e.op, EvaluateLeaf(e.left, left, right), EvaluateLeaf(e.right, left, right))
  ELSE EvaluateLeaf(e, left, right)

\* Evaluate does not look at the tuple index of a column.
Evaluate(e, tuple) == EvaluateJoin(e, tuple, tuple)

NoPredicate == [kind |-> "none"]

Comparison(op, l, r) == [kind |-> "comparison", op |-> op, left |-> l, right |-> r]

LogicOf(op, p, q) == [kind |-> "logic", op |-> op, left |-> p, right |-> q]

\* Operands that throw, or of two types, make the statement fail in the code; the
\* statements of the models have neither (Database!SafePredicate).
HoldsComparison(p, left, right) ==
  Compare(p.op, EvaluateJoin(p.left, left, right), EvaluateJoin(p.right, left, right))

HoldsJoin(p, left, right) ==
  CASE p.kind = "none" -> TRUE
    [] p.kind = "comparison" -> HoldsComparison(p, left, right)
    [] p.kind = "logic" -> LET l == HoldsComparison(p.left, left, right)
                               r == HoldsComparison(p.right, left, right)
                           IN  IF p.op = "and" THEN l /\ r ELSE l \/ r

Holds(p, tuple) == HoldsJoin(p, tuple, tuple)
=============================================================================
