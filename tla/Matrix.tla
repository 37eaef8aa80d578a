------------------------------- MODULE Matrix -------------------------------
(***************************************************************************)
(* math::matrix: its numbers of rows and columns and its elements, row by  *)
(* row, in data.  Indices of rows and columns begin with 0, as in the      *)
(* code; what was not written yet is Unset.                                *)
(***************************************************************************)
EXTENDS Integers, Sequences

\* integer matrices
IsMatrix(m) == m \in [rows : Nat, cols : Nat, data : Seq(Int)] /\ Len(m.data) = m.rows * m.cols

Unset == -999

\* matrix(rows, cols): the elements are not initialized
NewMatrix(rows, cols) == [rows |-> rows, cols |-> cols, data |-> [i \in 1 .. rows * cols |-> Unset]]

\* at(row, col), and what of src is element inx
at(m, row, col) == m.data[row * m.cols + col + 1]
Elem(m, inx) == m.data[inx + 1]
Filled(rows, cols, F(_)) == [rows |-> rows, cols |-> cols, data |-> [i \in 1 .. rows * cols |-> F(i - 1)]]

\* load of a vector: no more elements than there are on either side
load(m, d) == [m EXCEPT !.data = [i \in 1 .. Len(@) |-> IF i <= Len(d) THEN d[i] ELSE @[i]]]
\* load of a pointer to as many elements as the matrix has
LoadArray(m, d) == [m EXCEPT !.data = SubSeq(d, 1, Len(@))]

\* The loop of min and max: where the first least key is.  inx is n - 1.
FirstLeast(key, count) ==
  LET best[n \in 1 .. count] ==
        IF n = 1 THEN 0 ELSE IF key[n - 1] < key[best[n - 1]] THEN n - 1 ELSE best[n - 1]
  IN  best[count]
IndexOf(m, i) == [row |-> i \div m.cols, col |-> i % m.cols]
min(m) ==
  LET i == FirstLeast([inx \in 0 .. Len(m.data) - 1 |-> Elem(m, inx)], Len(m.data))
  IN  [val |-> Elem(m, i), index |-> IndexOf(m, i)]
\* src[inx] > val
max(m) ==
  LET i == FirstLeast([inx \in 0 .. Len(m.data) - 1 |-> -Elem(m, inx)], Len(m.data))
  IN  [val |-> Elem(m, i), index |-> IndexOf(m, i)]

\* *dest = 0, and what the loop over inx adds to it
Sum(term, count) ==
  LET dest[n \in 0 .. count] == IF n = 0 THEN 0 ELSE dest[n - 1] + term[n - 1]
  IN  dest[count]
\* element c of row r of the product: lpos goes along the row, rpos down the column
DotElement(a, b, r, c) ==
  Sum([inx \in 0 .. a.cols - 1 |-> Elem(a, r * a.cols + inx) * Elem(b, c + inx * b.cols)], a.cols)

dot(a, b) ==
  Filled(a.rows, b.cols, LAMBDA inx : DotElement(a, b, inx \div b.cols, inx % b.cols))

\* Fault: the columns are counted with the number of rows.
M_transpose(m) == Filled(m.cols, m.rows, LAMBDA inx : Elem(m, (inx \div m.cols) + (inx % m.cols) * m.rows))

\* dest goes along row c of the result while row_pos goes down column c
transpose(m) == Filled(m.cols, m.rows, LAMBDA inx : Elem(m, (inx \div m.rows) + (inx % m.rows) * m.cols))

\* func is a function on the values of the elements
apply(m, func) == Filled(m.rows, m.cols, LAMBDA inx : func[Elem(m, inx)])

Plus(a, b) == Filled(a.rows, a.cols, LAMBDA inx : Elem(a, inx) + Elem(b, inx))
PlusScalar(a, x) == Filled(a.rows, a.cols, LAMBDA inx : Elem(a, inx) + x)
Minus(a, b) == Filled(a.rows, a.cols, LAMBDA inx : Elem(a, inx) - Elem(b, inx))
MinusScalar(a, x) == Filled(a.rows, a.cols, LAMBDA inx : Elem(a, inx) - x)
Times(a, b) == Filled(a.rows, a.cols, LAMBDA inx : Elem(a, inx) * Elem(b, inx))
TimesScalar(a, x) == Filled(a.rows, a.cols, LAMBDA inx : Elem(a, inx) * x)
Over(a, b) == Filled(a.rows, a.cols, LAMBDA inx : Elem(a, inx) \div Elem(b, inx))
OverScalar(a, x) == Filled(a.rows, a.cols, LAMBDA inx : Elem(a, inx) \div x)
ScalarMinus(x, a) == Filled(a.rows, a.cols, LAMBDA inx : x - Elem(a, inx))
ScalarOver(x, a) == Filled(a.rows, a.cols, LAMBDA inx : x \div Elem(a, inx))

-----------------------------------------------------------------------------
\* The index arithmetic of the flat array is that of rows and columns: a transpose has
\* the columns as its rows, (AB)' = B'A' and A'' = A.
TransposeLaws(a, b) ==
  /\ transpose(dot(a, b)) = dot(transpose(b), transpose(a))
  /\ transpose(transpose(a)) = a
  /\ \A r \in 0 .. a.rows - 1, c \in 0 .. a.cols - 1 : at(transpose(a), c, r) = at(a, r, c)

\* A product is linear: (A + C)B = AB + CB and (xA)B = x(AB).
LinearLaws(a, c, b, x) ==
  /\ dot(Plus(a, c), b) = Plus(dot(a, b), dot(c, b))
  /\ dot(TimesScalar(a, x), b) = TimesScalar(dot(a, b), x)

\* min finds the first of the least elements, and max that of the negated matrix.
MinMaxLaws(a) ==
  Len(a.data) # 0 =>
    LET row == min(a).index.row
        col == min(a).index.col
    IN  /\ row < a.rows /\ col < a.cols /\ at(a, row, col) = min(a).val
        /\ \A r \in 0 .. a.rows - 1, c \in 0 .. a.cols - 1 :
             /\ min(a).val <= at(a, r, c)
             /\ at(a, r, c) = min(a).val => row < r \/ (row = r /\ col <= c)
        /\ min(transpose(a)).val = min(a).val
        /\ max(a) = [min(TimesScalar(a, -1)) EXCEPT !.val = -@]

\* The element-wise operations with another matrix and with a scalar undo each other, and
\* load what was loaded.
ElementLaws(a, c, x) ==
  /\ Minus(Plus(a, c), c) = a
  /\ MinusScalar(PlusScalar(a, x), x) = a
  /\ ScalarMinus(x, ScalarMinus(x, a)) = a
  /\ load(NewMatrix(a.rows, a.cols), a.data) = a
  /\ LoadArray(NewMatrix(a.rows, a.cols), a.data \o <<x>>) = a
  /\ Len(a.data) # 0 => at(load(NewMatrix(a.rows, a.cols), <<x>>), 0, 0) = x

\* So do the divisions, by what is positive; what x divided by a rounds off is the
\* remainder.
Positive(a) == \A i \in 1 .. Len(a.data) : a.data[i] > 0
DivisionLaws(a, c, x) ==
  /\ Positive(c) => Over(Times(a, c), c) = a
  /\ x > 0 => OverScalar(TimesScalar(a, x), x) = a
  /\ x >= 0 /\ Positive(a) =>
       Times(ScalarOver(x, a), a) = apply(a, [e \in {a.data[i] : i \in 1 .. Len(a.data)} |-> x - (x % e)])

Laws(a, c, b, x) ==
  TransposeLaws(a, b) /\ LinearLaws(a, c, b, x) /\ MinMaxLaws(a) /\ ElementLaws(a, c, x) /\ DivisionLaws(a, c, x)
=============================================================================
