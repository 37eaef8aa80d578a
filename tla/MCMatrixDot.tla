---------------------------- MODULE MCMatrixDot ----------------------------
\* MatrixDot on matrices of up to three rows, split into two blocks, into three, or not
\* at all.
EXTENDS MatrixDot, TLC

MCMatrix(rows, cols) ==
  Filled(rows, cols, LAMBDA inx : CASE inx % 3 = 0 -> 2 [] inx % 3 = 1 -> 5 [] OTHER -> 1 + inx)

MCOperands ==
  {<<MCMatrix(s[1], s[2]), MCMatrix(s[2], s[3])>> : s \in {<<3, 1, 2>>, <<3, 1, 3>>, <<2, 3, 1>>, <<1, 2, 3>>, <<3, 1, 1>>}}

MCLawData == {-1, 2}

\* Workers are interchangeable.
Symmetry == Permutations(Workers)
=============================================================================
