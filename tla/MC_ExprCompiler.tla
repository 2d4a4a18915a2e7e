-------------------------- MODULE MC_ExprCompiler --------------------------
(***************************************************************************)
(* Model-checking instance of the expression compiler: Z_7, an extended    *)
(* domain of 4 rows with rot_scale 2, one fixed, advice and instance       *)
(* column, one challenge, two column tables.                               *)
(***************************************************************************)
EXTENDS ExprCompiler

C0 == ConstE(0)
C1 == ConstE(1)
C2 == ConstE(2)
C3 == ConstE(3)
A0 == QueryE("Advice", 0, 0)
A1 == QueryE("Advice", 0, 1)
Fm == QueryE("Fixed", 0, -1)
I0 == QueryE("Instance", 0, 0)
Ch == ChallengeE(0)

Leaves == {C0, C1, C2, C3, A0, A1, Fm, Ch}
PairLeaves == {C0, C1, C2, A0, A1, Fm}

\* The leaves, their negations and scalings, sums, products and
\* differences of the leaves that exercise a rewrite (0, 1, 2, two
\* rotations of one column, another column), and the depth-two shapes the
\* peephole rules look into: -(x*y) with a zero factor, and (a+b)*(b+a),
\* whose operands canonicalise to one Add and so to a Square.
MC_GatePolys ==
  Leaves
  \cup {NegE(a) : a \in Leaves}
  \cup {ScaledE(a, f) : a \in Leaves, f \in {0, 1, 3}}
  \cup {SumE(a, b) : a, b \in PairLeaves}
  \cup {ProdE(a, b) : a, b \in PairLeaves}
  \cup {SumE(a, NegE(b)) : a, b \in PairLeaves}
  \cup {NegE(ProdE(a, b)) : a, b \in {C0, A0}}
  \cup {ProdE(SumE(a, b), SumE(b, a)) : a, b \in {A0, A1, C2}}

MC_LookupExprs == {C0, C3, A0, Fm, I0}

Row(a, b, c, d) == [r \in 0..3 |-> CASE r = 0 -> a [] r = 1 -> b [] r = 2 -> c [] r = 3 -> d]

MC_Witnesses ==
  { [fixed |-> [c \in {0} |-> Row(3, 0, 5, 1)],
     advice |-> [c \in {0} |-> Row(2, 6, 0, 4)],
     instance |-> [c \in {0} |-> Row(1, 1, 0, 2)],
     challenges |-> [i \in {0} |-> 5]],
    [fixed |-> [c \in {0} |-> Row(0, 4, 4, 6)],
     advice |-> [c \in {0} |-> Row(1, 3, 5, 2)],
     instance |-> [c \in {0} |-> Row(6, 0, 3, 3)],
     challenges |-> [i \in {0} |-> 2]] }
=============================================================================
