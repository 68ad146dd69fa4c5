----------------------------- MODULE MCDatabase -----------------------------
(* Two tables r and s with columns a INTEGER, b INTEGER, c FLOAT.           *)
EXTENDS Database

MCSchema == <<"INTEGER", "INTEGER", "FLOAT">>

A == ColumnValue(0, 1)
B == ColumnValue(0, 2)
C == ColumnValue(0, 3)
IntConst(n) == ConstantValue(Val("INTEGER", n))

\* Rows: two scores print alike, one divisor is zero.
Row1 == <<1, 2, 1001>>
Row2 == <<2, 1, 1004>>
Row3 == <<1, 0, 2000>>

MCSeeds == {("r" :> rr) @@ ("s" :> ss) :
              rr \in {<<>>, <<Row1>>, <<Row1, Row2>>, <<Row1, Row3>>, <<Row2, Row1, Row3>>},
              ss \in {<<>>, <<Row2, Row1>>}}

\* Indexes on a column that can be looked up, on a FLOAT, on two columns.
MCKeyAttrs == {<<1>>, <<3>>, <<2, 1>>}

MCDropLists == {<<"i">>, <<"i", "j">>, <<"j", "i">>}

AIsOne == Comparison("=", A, IntConst(1))

Write(kind, t, src, p, set) == [kind |-> kind, table |-> t, source |-> src, pred |-> p, set |-> set]

MCWrites == {
  Write("delete", "r", "r", AIsOne, <<>>),
  Write("delete", "r", "r", LogicOf("or", Comparison("<", C, ConstantValue(Val("FLOAT", 1002))),
                                          Comparison(">=", A, IntConst(3))), <<>>),
  Write("update", "r", "r", AIsOne, 1 :> ArithmeticOf("+", A, IntConst(1))),
  Write("update", "r", "r", NoPredicate, 1 :> ArithmeticOf("/", IntConst(2), B)),
  Write("insert", "r", "s", LogicOf("and", Comparison("<=", A, B), Comparison("<>", B, IntConst(0))), <<>>),
  Write("insert", "s", "r", NoPredicate, <<>>),
  Write("insert", "r", "r", Comparison("=", IntConst(1), A), <<>>)}

MCSelects == {
  [table |-> "r", pred |-> AIsOne, limit |-> 5, exprs |-> <<A, B, C>>, order |-> <<>>],
  [table |-> "r", pred |-> NoPredicate, limit |-> 2, exprs |-> <<C, ArithmeticOf("*", A, B)>>,
   order |-> <<[asc |-> FALSE, expr |-> A], [asc |-> TRUE, expr |-> B]>>]}

MCJoinPredicates == {
  Comparison("=", A, ColumnValue(1, 2)),
  Comparison("=", ColumnValue(1, 2), A),
  Comparison("=", C, ColumnValue(1, 3)),
  LogicOf("and", Comparison("=", A, ColumnValue(1, 1)), Comparison(">", C, ColumnValue(1, 3)))}

MCGroupLists == {<<>>, <<A>>, <<C>>, <<B, ArithmeticOf("-", A, IntConst(1))>>, <<ArithmeticOf("%", A, IntConst(2))>>}

MCAggregates == <<[agg |-> "CountStar", arg |-> A], [agg |-> "Count", arg |-> B], [agg |-> "Sum", arg |-> A],
                  [agg |-> "Min", arg |-> C], [agg |-> "Max", arg |-> B]>>
=============================================================================
