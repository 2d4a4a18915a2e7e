------------------------------ MODULE GraphOps ------------------------------
(***************************************************************************)
(* The straight-line program built by the expression compiler of           *)
(* evaluation.rs: ValueSource, Calculation, CalculationInfo and the three  *)
(* graph-building operations of GraphEvaluator (add_rotation, add_constant *)
(* and add_calculation), starting from GraphEvaluator::default.            *)
(*                                                                         *)
(* The operations are pure operators on a graph record, so that the        *)
(* compiler (ExprCompiler) can thread a graph through add_expression and   *)
(* the graph-building specification (GraphEvaluator) can take them as      *)
(* actions.                                                                *)
(***************************************************************************)
EXTENDS Field, Sequences

(***************************************************************************)
(* ValueSource (evaluation.rs:41-66) is a triple <<tag, x, z>>.  The tag   *)
(* is the variant's position in the enum, so that the derived PartialOrd   *)
(* (variant first, then fields left to right) is the lexicographic order   *)
(* on the triples.                                                         *)
(***************************************************************************)
Constant(i)     == <<0, i, 0>>
Intermediate(t) == <<1, t, 0>>
Fixed(c, r)     == <<2, c, r>>
Advice(c, r)    == <<3, c, r>>
Instance(c, r)  == <<4, c, r>>
Challenge(i)    == <<5, i, 0>>
Beta            == <<6, 0, 0>>
Gamma           == <<7, 0, 0>>
Theta           == <<8, 0, 0>>
Y               == <<9, 0, 0>>
PreviousValue   == <<10, 0, 0>>

ColumnTags == {2, 3, 4}
ScalarSources == {Beta, Gamma, Theta, Y, PreviousValue}

\* #[derive(PartialOrd)] on ValueSource: u <= v.
VsLeq(u, v) ==
  \/ u[1] < v[1]
  \/ u[1] = v[1] /\ u[2] < v[2]
  \/ u[1] = v[1] /\ u[2] = v[2] /\ u[3] <= v[3]

(***************************************************************************)
(* Calculation (evaluation.rs:113-132).  A record with the opcode, the two *)
(* operands a and b and the Horner parts; the fields an opcode does not    *)
(* have hold fixed defaults, so record equality is the derived PartialEq.  *)
(* Horner(start, parts, factor) has a = start, b = factor.                 *)
(***************************************************************************)
Calc(op, a, b, parts) == [op |-> op, a |-> a, b |-> b, parts |-> parts]
AddCalc(a, b)    == Calc("Add", a, b, <<>>)
SubCalc(a, b)    == Calc("Sub", a, b, <<>>)
MulCalc(a, b)    == Calc("Mul", a, b, <<>>)
SquareCalc(v)    == Calc("Square", v, Constant(0), <<>>)
DoubleCalc(v)    == Calc("Double", v, Constant(0), <<>>)
NegateCalc(v)    == Calc("Negate", v, Constant(0), <<>>)
StoreCalc(v)     == Calc("Store", v, Constant(0), <<>>)
HornerCalc(s, parts, f) == Calc("Horner", s, f, parts)

BinaryOps == {"Add", "Sub", "Mul"}
UnaryOps  == {"Square", "Double", "Negate", "Store"}

\* Every ValueSource a calculation reads.
Operands(c) == {c.a, c.b} \cup {c.parts[k] : k \in DOMAIN c.parts}

(***************************************************************************)
(* GraphEvaluator (evaluation.rs:196-207, 218-225) and its Default         *)
(* (evaluation.rs:993-1007): constants seeded with 0, 1, 2.                *)
(***************************************************************************)
DefaultGraph ==
  [constants         |-> <<0, 1, 2 % P>>,
   rotations         |-> <<>>,
   calculations      |-> <<>>,
   num_intermediates |-> 0]

\* Iterator::position: the 0-based index of the first element equal to x.
Position(s, x) == CHOOSE k \in 0..(Len(s) - 1) :
                    /\ s[k + 1] = x
                    /\ \A j \in 0..(k - 1) : s[j + 1] # x

InSeq(s, x) == \E k \in 1..Len(s) : s[k] = x

(***************************************************************************)
(* add_rotation (evaluation.rs:1010-1020): <<graph', slot>>.               *)
(***************************************************************************)
\* Mutant: the new rotation inserted at the front (Vec::insert(0, ..)).
AddRotationGFront(g, rot) ==
  IF InSeq(g.rotations, rot)
  THEN <<g, Position(g.rotations, rot)>>
  ELSE <<[g EXCEPT !.rotations = <<rot>> \o @], 0>>

AddRotationG(g, rot) ==
  IF InSeq(g.rotations, rot)
  THEN <<g, Position(g.rotations, rot)>>
  ELSE <<[g EXCEPT !.rotations = Append(@, rot)], Len(g.rotations)>>

(***************************************************************************)
(* add_constant (evaluation.rs:1022-1032): <<graph', Constant(slot)>>.     *)
(***************************************************************************)
\* Mutant: add_constant without the position() lookup, always pushing.
AddConstantGNoDedup(g, c) ==
  <<[g EXCEPT !.constants = Append(@, c)], Constant(Len(g.constants))>>

AddConstantG(g, c) ==
  IF InSeq(g.constants, c)
  THEN <<g, Constant(Position(g.constants, c))>>
  ELSE <<[g EXCEPT !.constants = Append(@, c)], Constant(Len(g.constants))>>

(***************************************************************************)
(* add_calculation (evaluation.rs:1034-1055): a structurally equal         *)
(* calculation is reused, otherwise the calculation is appended with       *)
(* target num_intermediates, which is then incremented.                    *)
(***************************************************************************)
FindCalc(g, c) == CHOOSE k \in 1..Len(g.calculations) :
                    /\ g.calculations[k].calculation = c
                    /\ \A j \in 1..(k - 1) : g.calculations[j].calculation # c

\* Mutant: add_calculation without `self.num_intermediates += 1`.
AddCalculationGNoIncrement(g, c) ==
  IF \E k \in 1..Len(g.calculations) : g.calculations[k].calculation = c
  THEN <<g, Intermediate(g.calculations[FindCalc(g, c)].target)>>
  ELSE <<[g EXCEPT !.calculations =
                     Append(@, [calculation |-> c, target |-> g.num_intermediates])],
         Intermediate(g.num_intermediates)>>

AddCalculationG(g, c) ==
  IF \E k \in 1..Len(g.calculations) : g.calculations[k].calculation = c
  THEN <<g, Intermediate(g.calculations[FindCalc(g, c)].target)>>
  ELSE <<[g EXCEPT !.calculations =
                     Append(@, [calculation |-> c, target |-> g.num_intermediates]),
                   !.num_intermediates = @ + 1],
         Intermediate(g.num_intermediates)>>

(***************************************************************************)
(* A well-formed graph is a straight-line program, which is what lets      *)
(* GraphEvaluator::evaluate reuse one scratch buffer for every row and     *)
(* lets the compiler's peephole rules test a ValueSource instead of a      *)
(* value:                                                                  *)
(*  - the constant pool starts with 0, 1, 2 and has no duplicates, so      *)
(*    Constant(0) is the only source of the value 0 in the pool;           *)
(*  - the k-th calculation writes intermediate k-1, and num_intermediates  *)
(*    counts them, so every slot of the scratch has one writer;            *)
(*  - every operand names a defined slot, and every intermediate it reads  *)
(*    is written by an earlier calculation of the same row, never one left *)
(*    in the scratch by the previous row;                                  *)
(*  - no calculation appears twice (add_calculation's deduplication).      *)
(***************************************************************************)
SeededConstants(g) ==
  /\ Len(g.constants) >= 3
  /\ g.constants[1] = 0 /\ g.constants[2] = 1 /\ g.constants[3] = 2 % P

ConstantsDistinct(g) ==
  \A i, j \in 1..Len(g.constants) : i # j => g.constants[i] # g.constants[j]

TargetsArePositions(g) ==
  /\ g.num_intermediates = Len(g.calculations)
  /\ \A k \in 1..Len(g.calculations) : g.calculations[k].target = k - 1

\* v names a slot of g that is filled before intermediate t is written.
SlotDefined(g, v, t) ==
  /\ v[1] = 0 => v[2] \in 0..(Len(g.constants) - 1)
  /\ v[1] = 1 => v[2] \in 0..(t - 1)
  /\ v[1] \in ColumnTags => v[3] \in 0..(Len(g.rotations) - 1)

OperandsDefined(g) ==
  \A k \in 1..Len(g.calculations) :
    \A v \in Operands(g.calculations[k].calculation) :
      SlotDefined(g, v, g.calculations[k].target)

CalculationsDistinct(g) ==
  \A j, k \in 1..Len(g.calculations) :
    j # k => g.calculations[j].calculation # g.calculations[k].calculation

WellFormedG(g) ==
  /\ SeededConstants(g)
  /\ ConstantsDistinct(g)
  /\ TargetsArePositions(g)
  /\ OperandsDefined(g)
  /\ CalculationsDistinct(g)

=============================================================================
