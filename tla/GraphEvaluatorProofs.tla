------------------------ MODULE GraphEvaluatorProofs ------------------------
(***************************************************************************)
(* Proofs, for every value of the constants, that the graph built by any   *)
(* sequence of add_rotation / add_constant / add_calculation calls is      *)
(* well typed and a well-formed straight-line program.                     *)
(***************************************************************************)
EXTENDS GraphEvaluator, SequenceTheorems, TLAPS

\* The sources a caller can hold are ValueSource triples.
LEMMA HeldSourcesTyped ==
  ASSUME TypeOK
  PROVE  HeldSources(graph) \subseteq VsSet
<1>1. Len(graph.constants) \in Nat /\ Len(graph.rotations) \in Nat
  BY LenProperties DEF TypeOK, GraphType
<1>2. graph.num_intermediates \in Nat
  BY DEF TypeOK, GraphType
<1> QED
  BY <1>1, <1>2, GraphAssumption
  DEF HeldSources, VsSet, Constant, Intermediate, Challenge, ScalarSources,
      Beta, Gamma, Theta, Y, PreviousValue, ColumnTags

\* Every calculation a caller can request is a Calculation.
LEMMA RequestsTyped ==
  ASSUME TypeOK
  PROVE  Requests(graph) \subseteq CalcSet
<1> DEFINE H == HeldSources(graph)
<1>1. H \subseteq VsSet
  BY HeldSourcesTyped
<1>2. Constant(0) \in VsSet
  BY DEF Constant, VsSet
<1>3. PartSeqs(H) \subseteq Seq(VsSet)
  <2> SUFFICES ASSUME NEW n \in 0..MaxParts, NEW ps \in [1..n -> H]
               PROVE  ps \in Seq(VsSet)
    BY DEF PartSeqs
  <2> QED
    BY <1>1, GraphAssumption, IsASeq
<1>4. <<>> \in Seq(VsSet)
  BY EmptySeq
<1>5. ASSUME NEW op \in BinaryOps \cup UnaryOps \cup {"Horner"},
             NEW a \in VsSet, NEW b \in VsSet, NEW ps \in Seq(VsSet)
      PROVE  Calc(op, a, b, ps) \in CalcSet
  BY <1>5 DEF CalcSet, Calc
<1>6. {Calc(op, a, b, <<>>) : op \in BinaryOps \cap Ops, a \in H, b \in H} \subseteq CalcSet
  <2> SUFFICES ASSUME NEW op \in BinaryOps \cap Ops, NEW a \in H, NEW b \in H
               PROVE  Calc(op, a, b, <<>>) \in CalcSet
    OBVIOUS
  <2> QED
    BY <1>1, <1>4, <1>5
<1>7. {Calc(op, v, Constant(0), <<>>) : op \in UnaryOps \cap Ops, v \in H} \subseteq CalcSet
  <2> SUFFICES ASSUME NEW op \in UnaryOps \cap Ops, NEW v \in H
               PROVE  Calc(op, v, Constant(0), <<>>) \in CalcSet
    OBVIOUS
  <2> QED
    BY <1>1, <1>2, <1>4, <1>5
<1>8. {HornerCalc(s, ps, f) : s \in H, ps \in PartSeqs(H), f \in H} \subseteq CalcSet
  BY <1>1, <1>3, <1>5 DEF HornerCalc
<1> QED
  BY <1>6, <1>7, <1>8 DEF Requests

\* The graph is always a record of the GraphEvaluator fields' types.
THEOREM TypeCorrect == Spec => []TypeOK
<1>1. Init => TypeOK
  <2>1. <<0, 1, 2 % P>> \in Seq(F)
    BY PAssumption DEF F
  <2> QED
    BY <2>1, EmptySeq DEF Init, TypeOK, GraphType, DefaultGraph
<1>2. TypeOK /\ [Next]_vars => TypeOK'
  <2> SUFFICES ASSUME TypeOK, [Next]_vars PROVE TypeOK'
    OBVIOUS
  <2>1. ASSUME NEW rot \in RotationAmounts, AddRotation(rot) PROVE TypeOK'
    <3>1. Append(graph.rotations, rot) \in Seq(Int)
      BY GraphAssumption, AppendProperties DEF TypeOK, GraphType
    <3> QED
      BY <2>1, <3>1 DEF AddRotation, AddRotationG, TypeOK, GraphType
  <2>2. ASSUME NEW c \in Values, AddConstant(c) PROVE TypeOK'
    <3>1. Append(graph.constants, c) \in Seq(F)
      BY GraphAssumption, AppendProperties DEF TypeOK, GraphType
    <3> QED
      BY <2>2, <3>1 DEF AddConstant, AddConstantG, TypeOK, GraphType
  <2>3. ASSUME NEW c \in Requests(graph), AddCalculation(c) PROVE TypeOK'
    <3> DEFINE info == [calculation |-> c, target |-> graph.num_intermediates]
    <3>1. info \in [calculation : CalcSet, target : Nat]
      BY RequestsTyped DEF TypeOK, GraphType
    <3>2. Append(graph.calculations, info) \in Seq([calculation : CalcSet, target : Nat])
      BY <3>1, AppendProperties DEF TypeOK, GraphType
    <3>3. CASE \E k \in 1..Len(graph.calculations) : graph.calculations[k].calculation = c
      <4>1. graph' = graph
        BY <2>3, <3>3 DEF AddCalculation, AddCalculationG
      <4> QED
        BY <4>1 DEF TypeOK, GraphType
    <3>4. CASE ~\E k \in 1..Len(graph.calculations) : graph.calculations[k].calculation = c
      <4>1. graph' = [constants |-> graph.constants, rotations |-> graph.rotations,
                      calculations |-> Append(graph.calculations, info),
                      num_intermediates |-> graph.num_intermediates + 1]
        BY <2>3, <3>4 DEF AddCalculation, AddCalculationG, TypeOK, GraphType
      <4> QED
        BY <4>1, <3>2 DEF TypeOK, GraphType
    <3> QED
      BY <3>3, <3>4
  <2>4. CASE UNCHANGED vars
    BY <2>4 DEF vars, TypeOK, GraphType
  <2> QED
    BY <2>1, <2>2, <2>3, <2>4 DEF Next
<1> QED
  BY <1>1, <1>2, PTL DEF Spec

-----------------------------------------------------------------------------
(***************************************************************************)
(* Well-formedness.  The lemmas are stated for any graph record g, so that *)
(* each graph operation is shown to preserve WellFormedG once.             *)
(***************************************************************************)

\* A slot stays defined when the constant pool and rotation table grow.
LEMMA SlotMonotone ==
  ASSUME NEW g, NEW h, NEW v, NEW t,
         Len(g.constants) \in Nat, Len(h.constants) \in Nat,
         Len(g.rotations) \in Nat, Len(h.rotations) \in Nat,
         Len(g.constants) <= Len(h.constants),
         Len(g.rotations) <= Len(h.rotations),
         SlotDefined(g, v, t)
  PROVE  SlotDefined(h, v, t)
BY DEF SlotDefined

\* Every source a caller can hold, and Constant(0), names a slot filled
\* before the next intermediate.
LEMMA HeldSlots ==
  ASSUME NEW g \in GraphType, SeededConstants(g),
         NEW v \in HeldSources(g) \cup {Constant(0)}
  PROVE  SlotDefined(g, v, g.num_intermediates)
<1>1. Len(g.constants) \in Nat /\ Len(g.rotations) \in Nat /\ g.num_intermediates \in Nat
  BY LenProperties DEF GraphType
<1>2. CASE v = Constant(0)
  BY <1>1, <1>2 DEF SeededConstants, SlotDefined, Constant, ColumnTags
<1>3. CASE v \in {Constant(i) : i \in 0..(Len(g.constants) - 1)}
  BY <1>1, <1>3 DEF SlotDefined, Constant, ColumnTags
<1>4. CASE v \in {Intermediate(t) : t \in 0..(g.num_intermediates - 1)}
  BY <1>1, <1>4 DEF SlotDefined, Intermediate, ColumnTags
<1>5. CASE v \in {<<q[1], q[2], r>> : q \in Queries, r \in 0..(Len(g.rotations) - 1)}
  BY <1>1, <1>5, GraphAssumption DEF SlotDefined, ColumnTags
<1>6. CASE v \in {Challenge(i) : i \in ChallengeIndices} \cup Scalars
  BY <1>6, GraphAssumption
  DEF SlotDefined, Challenge, ColumnTags, ScalarSources, Beta, Gamma, Theta, Y, PreviousValue
<1> QED
  BY <1>2, <1>3, <1>4, <1>5, <1>6 DEF HeldSources

\* A requested calculation reads only held sources and Constant(0).
LEMMA RequestOperands ==
  ASSUME NEW g, NEW c \in Requests(g)
  PROVE  Operands(c) \subseteq HeldSources(g) \cup {Constant(0)}
<1> DEFINE H == HeldSources(g)
<1>1. CASE c \in {Calc(op, a, b, <<>>) : op \in BinaryOps \cap Ops, a \in H, b \in H}
  BY <1>1 DEF Operands, Calc
<1>2. CASE c \in {Calc(op, v, Constant(0), <<>>) : op \in UnaryOps \cap Ops, v \in H}
  BY <1>2 DEF Operands, Calc
<1>3. CASE c \in {HornerCalc(s, ps, f) : s \in H, ps \in PartSeqs(H), f \in H}
  <2> PICK s \in H, ps \in PartSeqs(H), f \in H : c = HornerCalc(s, ps, f)
    BY <1>3
  <2>1. PICK n \in 0..MaxParts : ps \in [1..n -> H]
    BY DEF PartSeqs
  <2> QED
    BY <2>1 DEF Operands, HornerCalc, Calc
<1> QED
  BY <1>1, <1>2, <1>3 DEF Requests

\* add_rotation keeps the graph well formed: only the rotation table grows.
LEMMA AddRotationWF ==
  ASSUME NEW g \in GraphType, WellFormedG(g), NEW rot \in Int
  PROVE  /\ AddRotationG(g, rot)[1] \in GraphType
         /\ WellFormedG(AddRotationG(g, rot)[1])
<1>1. CASE InSeq(g.rotations, rot)
  BY <1>1 DEF AddRotationG
<1>2. CASE ~InSeq(g.rotations, rot)
  <2> DEFINE h == [g EXCEPT !.rotations = Append(@, rot)]
  <2>1. AddRotationG(g, rot)[1] = h
    BY <1>2 DEF AddRotationG
  <2>2. /\ Append(g.rotations, rot) \in Seq(Int)
        /\ Len(Append(g.rotations, rot)) = Len(g.rotations) + 1
    BY AppendProperties DEF GraphType
  <2>3. h \in GraphType
    BY <2>2 DEF GraphType
  <2>4. /\ h.constants = g.constants /\ h.calculations = g.calculations
        /\ h.num_intermediates = g.num_intermediates
        /\ h.rotations = Append(g.rotations, rot)
    BY DEF GraphType
  <2>5. Len(g.constants) \in Nat /\ Len(g.rotations) \in Nat
    BY LenProperties DEF GraphType
  <2> HIDE DEF h
  <2>6. OperandsDefined(h)
    <3> SUFFICES ASSUME NEW k \in 1..Len(h.calculations),
                        NEW v \in Operands(h.calculations[k].calculation)
                 PROVE  SlotDefined(h, v, h.calculations[k].target)
      BY DEF OperandsDefined
    <3>1. SlotDefined(g, v, g.calculations[k].target)
      BY <2>4 DEF WellFormedG, OperandsDefined
    <3> QED
      BY <3>1, <2>2, <2>4, <2>5, SlotMonotone
  <2> QED
    BY <2>1, <2>3, <2>4, <2>6
    DEF WellFormedG, SeededConstants, ConstantsDistinct, TargetsArePositions,
        CalculationsDistinct
<1> QED
  BY <1>1, <1>2

\* add_constant keeps the graph well formed: a value already in the pool is
\* reused, so the pool stays duplicate-free and keeps its seed.
LEMMA AddConstantWF ==
  ASSUME NEW g \in GraphType, WellFormedG(g), NEW c \in F
  PROVE  /\ AddConstantG(g, c)[1] \in GraphType
         /\ WellFormedG(AddConstantG(g, c)[1])
<1>1. CASE InSeq(g.constants, c)
  BY <1>1 DEF AddConstantG
<1>2. CASE ~InSeq(g.constants, c)
  <2> DEFINE h == [g EXCEPT !.constants = Append(@, c)]
  <2> DEFINE cs == Append(g.constants, c)
  <2>1. AddConstantG(g, c)[1] = h
    BY <1>2 DEF AddConstantG
  <2>2. /\ cs \in Seq(F)
        /\ Len(cs) = Len(g.constants) + 1
        /\ \A i \in 1..Len(g.constants) : cs[i] = g.constants[i]
        /\ cs[Len(g.constants) + 1] = c
    BY AppendProperties DEF GraphType
  <2>3. h \in GraphType
    BY <2>2 DEF GraphType
  <2>4. /\ h.rotations = g.rotations /\ h.calculations = g.calculations
        /\ h.num_intermediates = g.num_intermediates
        /\ h.constants = cs
    BY DEF GraphType
  <2>5. Len(g.constants) \in Nat /\ Len(g.rotations) \in Nat
    BY LenProperties DEF GraphType
  <2> HIDE DEF h
  <2>6. SeededConstants(h)
    BY <2>2, <2>4, <2>5 DEF WellFormedG, SeededConstants
  <2>7. ConstantsDistinct(h)
    <3> SUFFICES ASSUME NEW i \in 1..Len(cs), NEW j \in 1..Len(cs), i # j
                 PROVE  cs[i] # cs[j]
      BY <2>4 DEF ConstantsDistinct
    <3>1. \A k \in 1..Len(g.constants) : g.constants[k] # c
      BY <1>2 DEF InSeq
    <3> QED
      BY <2>2, <2>5, <3>1 DEF WellFormedG, ConstantsDistinct
  <2>8. OperandsDefined(h)
    <3> SUFFICES ASSUME NEW k \in 1..Len(h.calculations),
                        NEW v \in Operands(h.calculations[k].calculation)
                 PROVE  SlotDefined(h, v, h.calculations[k].target)
      BY DEF OperandsDefined
    <3>1. SlotDefined(g, v, g.calculations[k].target)
      BY <2>4 DEF WellFormedG, OperandsDefined
    <3> QED
      BY <3>1, <2>2, <2>4, <2>5, SlotMonotone
  <2> QED
    BY <2>1, <2>3, <2>4, <2>6, <2>7, <2>8
    DEF WellFormedG, TargetsArePositions, CalculationsDistinct
<1> QED
  BY <1>1, <1>2

\* add_calculation keeps the graph well formed: a new calculation gets the
\* next target, reads only slots filled before it, and is not a duplicate.
LEMMA AddCalculationWF ==
  ASSUME NEW g \in GraphType, WellFormedG(g), NEW c \in Requests(g), c \in CalcSet
  PROVE  /\ AddCalculationG(g, c)[1] \in GraphType
         /\ WellFormedG(AddCalculationG(g, c)[1])
<1>1. CASE \E k \in 1..Len(g.calculations) : g.calculations[k].calculation = c
  BY <1>1 DEF AddCalculationG
<1>2. CASE ~\E k \in 1..Len(g.calculations) : g.calculations[k].calculation = c
  <2> DEFINE L == Len(g.calculations)
  <2> DEFINE info == [calculation |-> c, target |-> g.num_intermediates]
  <2> DEFINE cs == Append(g.calculations, info)
  <2> DEFINE h == [constants |-> g.constants, rotations |-> g.rotations,
                   calculations |-> cs, num_intermediates |-> g.num_intermediates + 1]
  <2>1. AddCalculationG(g, c)[1] = h
    BY <1>2 DEF AddCalculationG, GraphType
  <2>2. L \in Nat /\ g.num_intermediates = L
    BY LenProperties DEF GraphType, WellFormedG, TargetsArePositions
  <2>3. info \in [calculation : CalcSet, target : Nat]
    BY <2>2
  <2>4. /\ cs \in Seq([calculation : CalcSet, target : Nat])
        /\ Len(cs) = L + 1
        /\ \A i \in 1..L : cs[i] = g.calculations[i]
        /\ cs[L + 1] = info
    BY <2>3, AppendProperties DEF GraphType
  <2>5. /\ h.constants = g.constants /\ h.rotations = g.rotations
        /\ h.calculations = cs /\ h.num_intermediates = L + 1
    BY <2>2 DEF GraphType
  <2>6. h \in GraphType
    BY <2>2, <2>4, <2>5 DEF GraphType
  <2>7. Len(g.constants) \in Nat /\ Len(g.rotations) \in Nat
    BY LenProperties DEF GraphType
  <2> HIDE DEF h, cs, info
  <2>8. TargetsArePositions(h)
    <3>1. \A k \in 1..L : cs[k].target = k - 1
      BY <2>4 DEF WellFormedG, TargetsArePositions
    <3>2. cs[L + 1].target = L
      BY <2>2, <2>4 DEF info
    <3>3. \A k \in 1..(L + 1) : cs[k].target = k - 1
      <4> TAKE k \in 1..(L + 1)
      <4>1. k \in 1..L \/ k = L + 1
        BY <2>2
      <4>2. CASE k = L + 1
        <5>1. k - 1 = L
          BY <4>2, <2>2
        <5> QED
          BY <4>2, <5>1, <3>2
      <4>3. CASE k \in 1..L
        BY <4>3, <3>1
      <4> QED
        BY <4>1, <4>2, <4>3
    <3> QED
      BY <3>3, <2>4, <2>5 DEF TargetsArePositions
  <2>9. OperandsDefined(h)
    <3> SUFFICES ASSUME NEW k \in 1..(L + 1),
                        NEW v \in Operands(cs[k].calculation)
                 PROVE  SlotDefined(h, v, cs[k].target)
      BY <2>4, <2>5 DEF OperandsDefined
    <3>1. CASE k \in 1..L
      <4>1. cs[k] = g.calculations[k]
        BY <3>1, <2>4
      <4>2. SlotDefined(g, v, cs[k].target)
        BY <3>1, <4>1 DEF WellFormedG, OperandsDefined
      <4> QED
        BY <4>2, <2>5, <2>7, SlotMonotone
    <3>2. CASE k = L + 1
      <4>1. v \in HeldSources(g) \cup {Constant(0)}
        BY <3>2, <2>4, RequestOperands DEF info
      <4>2. SlotDefined(g, v, g.num_intermediates)
        BY <4>1, HeldSlots DEF WellFormedG
      <4> QED
        BY <3>2, <4>2, <2>4, <2>5, <2>7, SlotMonotone DEF info
    <3> QED
      BY <3>1, <3>2, <2>2
  <2>10. CalculationsDistinct(h)
    <3> SUFFICES ASSUME NEW i \in 1..(L + 1), NEW j \in 1..(L + 1), i # j
                 PROVE  cs[i].calculation # cs[j].calculation
      BY <2>4, <2>5 DEF CalculationsDistinct
    <3>1. \A k \in 1..L : g.calculations[k].calculation # c
      BY <1>2
    <3>2. \A k \in 1..L : cs[k].calculation # cs[L + 1].calculation
      <4>1. cs[L + 1].calculation = c
        BY <2>4 DEF info
      <4> QED
        BY <3>1, <4>1, <2>4
    <3>3. CASE i \in 1..L /\ j \in 1..L
      BY <3>3, <2>4 DEF WellFormedG, CalculationsDistinct
    <3> QED
      BY <3>2, <3>3, <2>2
  <2> QED
    BY <2>1, <2>5, <2>6, <2>8, <2>9, <2>10
    DEF WellFormedG, SeededConstants, ConstantsDistinct
<1> QED
  BY <1>1, <1>2

\* The graph built from GraphEvaluator::default by any sequence of
\* add_rotation, add_constant and add_calculation calls is a well-formed
\* straight-line program (GraphEvaluator!WellFormed), for every value of
\* the constants: this is what lets evaluate() reuse one scratch for all
\* rows and the compiler test ValueSources instead of values.
THEOREM WellFormedInvariant == Spec => []WellFormed
<1> DEFINE IInv == TypeOK /\ WellFormed
<1>1. Init => WellFormed
  <2> SUFFICES ASSUME Init PROVE WellFormedG(DefaultGraph)
    BY DEF Init, WellFormed
  <2>1. 2 % P = 2
    BY PAssumption
  <2> QED
    BY <2>1 DEF WellFormedG, DefaultGraph, SeededConstants, ConstantsDistinct,
               TargetsArePositions, OperandsDefined, CalculationsDistinct
<1>2. TypeOK /\ WellFormed /\ [Next]_vars => WellFormed'
  <2> SUFFICES ASSUME TypeOK, WellFormed, [Next]_vars PROVE WellFormedG(graph')
    BY DEF WellFormed
  <2>0. graph \in GraphType /\ WellFormedG(graph)
    BY DEF TypeOK, WellFormed
  <2>1. ASSUME NEW rot \in RotationAmounts, AddRotation(rot) PROVE WellFormedG(graph')
    BY <2>0, <2>1, GraphAssumption, AddRotationWF DEF AddRotation
  <2>2. ASSUME NEW c \in Values, AddConstant(c) PROVE WellFormedG(graph')
    BY <2>0, <2>2, GraphAssumption, AddConstantWF DEF AddConstant
  <2>3. ASSUME NEW c \in Requests(graph), AddCalculation(c) PROVE WellFormedG(graph')
    <3>1. c \in CalcSet
      BY RequestsTyped
    <3> QED
      BY <2>0, <2>3, <3>1, AddCalculationWF DEF AddCalculation
  <2>4. CASE UNCHANGED vars
    BY <2>0, <2>4 DEF vars
  <2> QED
    BY <2>1, <2>2, <2>3, <2>4 DEF Next
<1> QED
  BY <1>1, <1>2, TypeCorrect, PTL DEF Spec

-----------------------------------------------------------------------------
(***************************************************************************)
(* Handles.  Each operation leaves the three lists alone or appends one    *)
(* element, and appending keeps the old list as a prefix.                  *)
(***************************************************************************)
LEMMA PrefixSelf ==
  ASSUME NEW S, NEW s \in Seq(S)
  PROVE  PrefixOf(s, s)
BY DEF PrefixOf

LEMMA PrefixAppend ==
  ASSUME NEW S, NEW s \in Seq(S), NEW x
  PROVE  PrefixOf(s, Append(s, x))
BY DEF PrefixOf

\* No add_rotation, add_constant or add_calculation call moves what a
\* ValueSource handed out before it denotes, for every field, column set and
\* bound: the pool, rotations and calculations only grow at their ends.
THEOREM HandlesStableThm == Spec => HandlesStableProp
<1>1. TypeOK /\ [Next]_vars => HandlesStable
  <2> SUFFICES ASSUME TypeOK, [Next]_vars PROVE HandlesStable
    OBVIOUS
  <2>0. /\ graph.constants \in Seq(F) /\ graph.rotations \in Seq(Int)
        /\ graph.calculations \in Seq([calculation : CalcSet, target : Nat])
    BY DEF TypeOK, GraphType
  <2>1. ASSUME NEW rot \in RotationAmounts, AddRotation(rot) PROVE HandlesStable
    <3>1. CASE InSeq(graph.rotations, rot)
      BY <2>0, <2>1, <3>1, PrefixSelf DEF AddRotation, AddRotationG, HandlesStable
    <3>2. CASE ~InSeq(graph.rotations, rot)
      <4>1. graph' = [graph EXCEPT !.rotations = Append(@, rot)]
        BY <2>1, <3>2 DEF AddRotation, AddRotationG
      <4>2. PrefixOf(graph.rotations, Append(graph.rotations, rot))
        BY <2>0, PrefixAppend
      <4> QED
        BY <2>0, <4>1, <4>2, PrefixSelf DEF HandlesStable, TypeOK, GraphType
    <3> QED
      BY <3>1, <3>2
  <2>2. ASSUME NEW c \in Values, AddConstant(c) PROVE HandlesStable
    <3>1. CASE InSeq(graph.constants, c)
      BY <2>0, <2>2, <3>1, PrefixSelf DEF AddConstant, AddConstantG, HandlesStable
    <3>2. CASE ~InSeq(graph.constants, c)
      <4>1. graph' = [graph EXCEPT !.constants = Append(@, c)]
        BY <2>2, <3>2 DEF AddConstant, AddConstantG
      <4>2. PrefixOf(graph.constants, Append(graph.constants, c))
        BY <2>0, PrefixAppend
      <4> QED
        BY <2>0, <4>1, <4>2, PrefixSelf DEF HandlesStable, TypeOK, GraphType
    <3> QED
      BY <3>1, <3>2
  <2>3. ASSUME NEW c \in Requests(graph), AddCalculation(c) PROVE HandlesStable
    <3>1. CASE \E k \in 1..Len(graph.calculations) : graph.calculations[k].calculation = c
      BY <2>0, <2>3, <3>1, PrefixSelf DEF AddCalculation, AddCalculationG, HandlesStable
    <3>2. CASE ~\E k \in 1..Len(graph.calculations) : graph.calculations[k].calculation = c
      <4> DEFINE info == [calculation |-> c, target |-> graph.num_intermediates]
      <4>1. graph' = [graph EXCEPT !.calculations = Append(@, info),
                                   !.num_intermediates = @ + 1]
        BY <2>3, <3>2 DEF AddCalculation, AddCalculationG
      <4>2. PrefixOf(graph.calculations, Append(graph.calculations, info))
        BY <2>0, PrefixAppend
      <4> QED
        BY <2>0, <4>1, <4>2, PrefixSelf DEF HandlesStable, TypeOK, GraphType
    <3> QED
      BY <3>1, <3>2
  <2>4. CASE UNCHANGED vars
    BY <2>0, <2>4, PrefixSelf DEF vars, HandlesStable
  <2> QED
    BY <2>1, <2>2, <2>3, <2>4 DEF Next
<1> QED
  BY <1>1, TypeCorrect, PTL DEF Spec, HandlesStableProp

=============================================================================
