--------------------------- MODULE GraphEvaluator ---------------------------
(***************************************************************************)
(* The graph-building operations of GraphEvaluator (add_rotation,          *)
(* add_constant, add_calculation; evaluation.rs:1009-1055) as a            *)
(* specification, starting from GraphEvaluator::default.  Callers pass     *)
(* only the operands a caller of the graph can hold: sources the graph has *)
(* already handed out, column cells at rotation slots it has registered,   *)
(* challenges and the distinguished scalars.                               *)
(***************************************************************************)
EXTENDS GraphOps

CONSTANTS
  Values,           \* field elements a caller may add as constants
  RotationAmounts,  \* rotation amounts a caller may register
  Queries,          \* <<tag, column index>> of fixed/advice/instance queries
  ChallengeIndices, \* indices of verifier challenges
  Scalars,          \* distinguished scalar sources callers pass
  Ops,              \* opcodes a caller may request
  MaxParts,         \* bound on the number of parts of a Horner calculation
  MaxCalcs          \* bound on the number of calculations

ASSUME GraphAssumption ==
  /\ Values \subseteq F
  /\ RotationAmounts \subseteq Int
  /\ Queries \subseteq ColumnTags \X Nat
  /\ ChallengeIndices \subseteq Nat
  /\ Scalars \subseteq ScalarSources
  /\ Ops \subseteq BinaryOps \cup UnaryOps \cup {"Horner"}
  /\ MaxParts \in Nat
  /\ MaxCalcs \in Nat

VARIABLE graph

vars == <<graph>>

\* The sources a caller of the graph can hold.
HeldSources(g) ==
  {Constant(i) : i \in 0..(Len(g.constants) - 1)}
  \cup {Intermediate(t) : t \in 0..(g.num_intermediates - 1)}
  \cup {<<q[1], q[2], r>> : q \in Queries, r \in 0..(Len(g.rotations) - 1)}
  \cup {Challenge(i) : i \in ChallengeIndices}
  \cup Scalars

PartSeqs(S) == UNION {[1..n -> S] : n \in 0..MaxParts}

Requests(g) ==
  LET H == HeldSources(g) IN
  {Calc(op, a, b, <<>>) : op \in BinaryOps \cap Ops, a \in H, b \in H}
  \cup {Calc(op, v, Constant(0), <<>>) : op \in UnaryOps \cap Ops, v \in H}
  \cup (IF "Horner" \in Ops
        THEN {HornerCalc(s, ps, f) : s \in H, ps \in PartSeqs(H), f \in H}
        ELSE {})

Init == graph = DefaultGraph

AddRotation(rot) == graph' = AddRotationG(graph, rot)[1]

AddConstant(c) == graph' = AddConstantG(graph, c)[1]

AddCalculation(c) ==
  /\ graph.num_intermediates < MaxCalcs
  /\ graph' = AddCalculationG(graph, c)[1]

Next ==
  \/ \E rot \in RotationAmounts : AddRotation(rot)
  \/ \E c \in Values : AddConstant(c)
  \/ \E c \in Requests(graph) : AddCalculation(c)

Spec == Init /\ [][Next]_vars

-----------------------------------------------------------------------------
VsSet == (0..10) \X Int \X Int
CalcSet == [op : BinaryOps \cup UnaryOps \cup {"Horner"},
            a : VsSet, b : VsSet, parts : Seq(VsSet)]

GraphType ==
  [constants : Seq(F), rotations : Seq(Int),
   calculations : Seq([calculation : CalcSet, target : Nat]),
   num_intermediates : Nat]

TypeOK == graph \in GraphType

(***************************************************************************)
(* Whatever sequence of add_rotation, add_constant and add_calculation     *)
(* calls the callers make, the graph stays a well-formed straight-line     *)
(* program (GraphOps!WellFormedG): seeded, duplicate-free constant pool,   *)
(* one target per calculation equal to its position, every intermediate   *)
(* operand written earlier in the same row, no duplicate calculation.      *)
(***************************************************************************)
WellFormed == WellFormedG(graph)


\* s is an initial segment of t.
PrefixOf(s, t) == Len(s) <= Len(t) /\ SubSeq(t, 1, Len(s)) = s

(***************************************************************************)
(* A ValueSource is an index into the constant pool, the rotation list or  *)
(* the intermediates, and the compiler keeps the sources it was handed     *)
(* (in later calculations and in the lookup and gate graphs).  No call of  *)
(* add_rotation, add_constant or add_calculation may move what an index    *)
(* already handed out points to: the pool, the rotations and the          *)
(* calculations only grow at the end, so every source held before a call  *)
(* denotes the same constant, rotation and calculation after it.           *)
(***************************************************************************)
HandlesStable ==
  /\ PrefixOf(graph.constants, graph'.constants)
  /\ PrefixOf(graph.rotations, graph'.rotations)
  /\ PrefixOf(graph.calculations, graph'.calculations)

HandlesStableProp == [][HandlesStable]_vars

=============================================================================
