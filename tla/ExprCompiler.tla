---------------------------- MODULE ExprCompiler ----------------------------
(***************************************************************************)
(* The expression compiler and the row evaluator of evaluation.rs:         *)
(*  - GraphEvaluator::add_expression (lines 1057-1158), which lowers an    *)
(*    Expression tree into the graph with its peephole rewrites;           *)
(*  - Evaluator::new (lines 227-282), which compiles every gate            *)
(*    polynomial into one graph ending in Horner(PreviousValue, parts, Y)  *)
(*    and each lookup argument into a graph of its own;                    *)
(*  - GraphEvaluator::instance / evaluate, Calculation::evaluate and       *)
(*    ValueSource::get (lines 75-185, 1160-1213), which run a graph on one *)
(*    row with a per-worker scratch buffer;                                *)
(*  - the simple evaluator `evaluate` (lines 1216-1254), the reference the *)
(*    compiled graphs are checked against.                                 *)
(* add_expression and the reference are recursive over the expression, so *)
(* this module is for TLC only; the graph operations it uses are proved    *)
(* about in GraphEvaluatorProofs.                                          *)
(***************************************************************************)
EXTENDS GraphOps, SequencesExt

CONSTANTS
  NE,             \* extended domain size N' (= isize)
  RotScale,       \* rot_scale = 2^(extended_k - k)
  Witnesses,      \* candidate column tables: [fixed, advice, instance, challenges]
  BetaV, GammaV, ThetaV, YV,  \* the verifier challenges beta, gamma, theta, y
  PrevValues,     \* previous_value accumulators fed to the custom-gate graph
  GatePolys,      \* candidate gate polynomials (Expressions)
  LookupExprs,    \* candidate lookup input / table expressions
  MaxPolys,       \* bound on the number of gate polynomials
  MaxLookups,     \* bound on the number of lookup arguments
  MaxLookupWidth  \* bound on the number of expressions per lookup side

ASSUME CompilerAssumption ==
  /\ NE \in Nat \ {0}
  /\ RotScale \in Nat \ {0}
  /\ {BetaV, GammaV, ThetaV, YV} \subseteq F
  /\ PrevValues \subseteq F
  /\ MaxPolys \in Nat /\ MaxLookups \in Nat /\ MaxLookupWidth \in Nat \ {0}

Rows == 0..(NE - 1)

(***************************************************************************)
(* Expression (halo2 plonk::Expression): records by kind.  Selectors are   *)
(* eliminated before the compiler sees an expression and are not modelled. *)
(***************************************************************************)
ConstE(c)       == [kind |-> "Constant", val |-> c]
QueryE(k, c, r) == [kind |-> k, col |-> c, rot |-> r]
ChallengeE(i)   == [kind |-> "Challenge", idx |-> i]
NegE(a)         == [kind |-> "Negated", a |-> a]
SumE(a, b)      == [kind |-> "Sum", a |-> a, b |-> b]
ProdE(a, b)     == [kind |-> "Product", a |-> a, b |-> b]
ScaledE(a, f)   == [kind |-> "Scaled", a |-> a, f |-> f]

QueryTag == [Fixed |-> 2, Advice |-> 3, Instance |-> 4]

(***************************************************************************)
(* add_expression (evaluation.rs:1057-1158): <<graph', source>>.           *)
(***************************************************************************)
RECURSIVE AddExpression(_, _)

\* Negated(a): a negated constant folds into the pool; -x of a zero source
\* stays Constant(0).
AddNegated(g, e) ==
  IF e.a.kind = "Constant"
  THEN AddConstantG(g, FNeg(e.a.val))
  ELSE LET ra == AddExpression(g, e.a) IN
       IF ra[2] = Constant(0) THEN ra
       ELSE AddCalculationG(ra[1], NegateCalc(ra[2]))

\* Mutant: 0 - b compiled to b ("return the other operand").
AddSumNegateDropped(g, e) ==
  IF e.b.kind = "Negated"
  THEN LET ra == AddExpression(g, e.a)
           rb == AddExpression(ra[1], e.b.a)
       IN CASE ra[2] = Constant(0) -> rb
            [] rb[2] = Constant(0) -> <<rb[1], ra[2]>>
            [] OTHER               -> AddCalculationG(rb[1], SubCalc(ra[2], rb[2]))
  ELSE LET ra == AddExpression(g, e.a)
           rb == AddExpression(ra[1], e.b)
       IN CASE ra[2] = Constant(0) -> rb
            [] rb[2] = Constant(0) -> <<rb[1], ra[2]>>
            [] VsLeq(ra[2], rb[2]) -> AddCalculationG(rb[1], AddCalc(ra[2], rb[2]))
            [] OTHER               -> AddCalculationG(rb[1], AddCalc(rb[2], ra[2]))

\* Sum(a, Negated(b)) is undone into Sub; otherwise zero operands are
\* dropped and the operands of Add are put in ValueSource order.
AddSum(g, e) ==
  IF e.b.kind = "Negated"
  THEN LET ra == AddExpression(g, e.a)
           rb == AddExpression(ra[1], e.b.a)
       IN CASE ra[2] = Constant(0) -> AddCalculationG(rb[1], NegateCalc(rb[2]))
            [] rb[2] = Constant(0) -> <<rb[1], ra[2]>>
            [] OTHER               -> AddCalculationG(rb[1], SubCalc(ra[2], rb[2]))
  ELSE LET ra == AddExpression(g, e.a)
           rb == AddExpression(ra[1], e.b)
       IN CASE ra[2] = Constant(0) -> rb
            [] rb[2] = Constant(0) -> <<rb[1], ra[2]>>
            [] VsLeq(ra[2], rb[2]) -> AddCalculationG(rb[1], AddCalc(ra[2], rb[2]))
            [] OTHER               -> AddCalculationG(rb[1], AddCalc(rb[2], ra[2]))

AddProduct(g, e) ==
  LET ra == AddExpression(g, e.a)
      rb == AddExpression(ra[1], e.b)
      a == ra[2]
      b == rb[2]
  IN CASE a = Constant(0) \/ b = Constant(0) -> <<rb[1], Constant(0)>>
       [] a = Constant(1) -> <<rb[1], b>>
       [] b = Constant(1) -> <<rb[1], a>>
       [] a = Constant(2) -> AddCalculationG(rb[1], DoubleCalc(b))
       [] b = Constant(2) -> AddCalculationG(rb[1], DoubleCalc(a))
       [] a = b           -> AddCalculationG(rb[1], SquareCalc(a))
       [] VsLeq(a, b)     -> AddCalculationG(rb[1], MulCalc(a, b))
       [] OTHER           -> AddCalculationG(rb[1], MulCalc(b, a))

AddScaled(g, e) ==
  CASE e.f = 0 -> <<g, Constant(0)>>
    [] e.f = 1 -> AddExpression(g, e.a)
    [] OTHER   -> LET cst == AddConstantG(g, e.f)
                      ra  == AddExpression(cst[1], e.a)
                  IN AddCalculationG(ra[1], MulCalc(ra[2], cst[2]))

\* A column query registers its rotation and stores the cell.
AddQuery(g, e) ==
  LET rr == AddRotationG(g, e.rot) IN
  AddCalculationG(rr[1], StoreCalc(<<QueryTag[e.kind], e.col, rr[2]>>))

AddExpression(g, e) ==
  CASE e.kind = "Constant"  -> AddConstantG(g, e.val)
    [] e.kind \in DOMAIN QueryTag -> AddQuery(g, e)
    [] e.kind = "Challenge" -> AddCalculationG(g, StoreCalc(Challenge(e.idx)))
    [] e.kind = "Negated"   -> AddNegated(g, e)
    [] e.kind = "Sum"       -> AddSum(g, e)
    [] e.kind = "Product"   -> AddProduct(g, e)
    [] e.kind = "Scaled"    -> AddScaled(g, e)

\* Compiles a sequence of expressions in order: <<graph', sources>>.
AddExpressions(g, es) ==
  FoldLeft(LAMBDA acc, e : LET r == AddExpression(acc[1], e)
                           IN <<r[1], Append(acc[2], r[2])>>,
           <<g, <<>>>>, es)

-----------------------------------------------------------------------------
(***************************************************************************)
(* Row evaluation.  A scratch (EvaluationData) is                          *)
(* [rotations, intermediates]; w is a column table.                        *)
(***************************************************************************)

\* ValueSource::get (evaluation.rs:75-110).
GetValue(v, rots, consts, inter, w, prev) ==
  CASE v[1] = 0  -> consts[v[2] + 1]
    [] v[1] = 1  -> inter[v[2] + 1]
    [] v[1] = 2  -> w.fixed[v[2]][rots[v[3] + 1]]
    [] v[1] = 3  -> w.advice[v[2]][rots[v[3] + 1]]
    [] v[1] = 4  -> w.instance[v[2]][rots[v[3] + 1]]
    [] v[1] = 5  -> w.challenges[v[2]]
    [] v[1] = 6  -> BetaV
    [] v[1] = 7  -> GammaV
    [] v[1] = 8  -> ThetaV
    [] v[1] = 9  -> YV
    [] v[1] = 10 -> prev

\* Calculation::evaluate (evaluation.rs:134-185).
CalcEval(c, rots, consts, inter, w, prev) ==
  LET get(v) == GetValue(v, rots, consts, inter, w, prev) IN
  CASE c.op = "Add"    -> FAdd(get(c.a), get(c.b))
    [] c.op = "Sub"    -> FSub(get(c.a), get(c.b))
    [] c.op = "Mul"    -> FMul(get(c.a), get(c.b))
    [] c.op = "Square" -> FSquare(get(c.a))
    [] c.op = "Double" -> FDouble(get(c.a))
    [] c.op = "Negate" -> FNeg(get(c.a))
    [] c.op = "Store"  -> get(c.a)
    [] c.op = "Horner" ->
         FoldLeft(LAMBDA acc, p : FAdd(FMul(acc, get(c.b)), get(p)), get(c.a), c.parts)

\* GraphEvaluator::instance (evaluation.rs:1160-1166).
NewScratch(g) ==
  [intermediates |-> [k \in 1..g.num_intermediates |-> 0],
   rotations     |-> [k \in 1..Len(g.rotations) |-> 0]]

\* GraphEvaluator::evaluate (evaluation.rs:1168-1213): <<scratch', value>>.
Evaluate(g, data, w, prev, idx) ==
  LET rots  == [j \in 1..Len(g.rotations) |->
                  GetRotationIdx(idx, g.rotations[j], RotScale, NE)]
      inter == FoldLeft(LAMBDA im, ci :
                          [im EXCEPT ![ci.target + 1] =
                             CalcEval(ci.calculation, rots, g.constants, im, w, prev)],
                        data.intermediates, g.calculations)
      value == IF g.calculations = <<>> THEN 0
               ELSE inter[Last(g.calculations).target + 1]
  IN <<[rotations |-> rots, intermediates |-> inter], value>>

\* One worker running a graph over rows 0..NE-1 with a single scratch, as
\* the chunk loops of evaluate_h do: for each row, the scratch after it and
\* the value evaluate returned.
RunRows(g, w, prev) ==
  FoldLeft(LAMBDA acc, idx :
             LET data == IF acc = <<>> THEN NewScratch(g) ELSE Last(acc).scratch
                 r    == Evaluate(g, data, w, prev, idx)
             IN Append(acc, [scratch |-> r[1], value |-> r[2]]),
           <<>>, [k \in 1..NE |-> k - 1])

\* The value of source v read from the scratch a row left behind.
SourceIn(g, v, s, w, prev) ==
  GetValue(v, s.rotations, g.constants, s.intermediates, w, prev)

(***************************************************************************)
(* The reference: the simple evaluator (evaluation.rs:1216-1254) folding   *)
(* an expression directly over the rotated column values.                  *)
(***************************************************************************)
RECURSIVE RefEval(_, _, _)
RefEval(e, w, idx) ==
  LET cell(tbl) == tbl[e.col][GetRotationIdx(idx, e.rot, RotScale, NE)] IN
  CASE e.kind = "Constant"  -> e.val
    [] e.kind = "Fixed"     -> cell(w.fixed)
    [] e.kind = "Advice"    -> cell(w.advice)
    [] e.kind = "Instance"  -> cell(w.instance)
    [] e.kind = "Challenge" -> w.challenges[e.idx]
    [] e.kind = "Negated"   -> FNeg(RefEval(e.a, w, idx))
    [] e.kind = "Sum"       -> FAdd(RefEval(e.a, w, idx), RefEval(e.b, w, idx))
    [] e.kind = "Product"   -> FMul(RefEval(e.a, w, idx), RefEval(e.b, w, idx))
    [] e.kind = "Scaled"    -> FMul(RefEval(e.a, w, idx), e.f)

-----------------------------------------------------------------------------
(***************************************************************************)
(* Evaluator::new (evaluation.rs:227-282) as a loop over the constraint    *)
(* system: one step per gate polynomial compiled into the custom-gate      *)
(* graph, the closing Horner(PreviousValue, parts, Y), then one step per   *)
(* lookup argument, each compiled into a fresh graph.  The polynomials and *)
(* lookup arguments compiled so far are kept (polys, lookupArgs) so the    *)
(* graphs can be compared with the expressions they came from.            *)
(***************************************************************************)
VARIABLES
  customGates,  \* ev.custom_gates
  parts,        \* the sources of the gate polynomials compiled so far
  polys,        \* the gate polynomials compiled so far
  lookupGraphs, \* ev.lookups
  lookupArgs,   \* the lookup arguments compiled so far
  phase         \* "gates" | "lookups" | "done"

cvars == <<customGates, parts, polys, lookupGraphs, lookupArgs, phase>>

Init ==
  /\ customGates = DefaultGraph
  /\ parts = <<>>
  /\ polys = <<>>
  /\ lookupGraphs = <<>>
  /\ lookupArgs = <<>>
  /\ phase = "gates"

\* for gate in cs.gates, for poly in gate.polynomials(): add_expression.
CompileGatePolynomial(e) ==
  /\ phase = "gates"
  /\ Len(polys) < MaxPolys
  /\ LET r == AddExpression(customGates, e) IN
       /\ customGates' = r[1]
       /\ parts' = Append(parts, r[2])
  /\ polys' = Append(polys, e)
  /\ UNCHANGED <<lookupGraphs, lookupArgs, phase>>

\* ev.custom_gates.add_calculation(Horner(PreviousValue(), parts, Y())).
FinishGates ==
  /\ phase = "gates"
  /\ customGates' = AddCalculationG(customGates, HornerCalc(PreviousValue, parts, Y))[1]
  /\ phase' = "lookups"
  /\ UNCHANGED <<parts, polys, lookupGraphs, lookupArgs>>

\* Mutant: beta and gamma swapped between the two sides.
LookupGraphSwapped(input, table) ==
  LET lc(g, es) == LET r == AddExpressions(g, es)
                   IN AddCalculationG(r[1], HornerCalc(Constant(0), r[2], Theta))
      inp   == lc(DefaultGraph, input)
      tab   == lc(inp[1], table)
      right == AddCalculationG(tab[1], AddCalc(tab[2], Beta))
      left  == AddCalculationG(right[1], AddCalc(inp[2], Gamma))
  IN AddCalculationG(left[1], MulCalc(left[2], right[2]))[1]

\* One iteration of `for lookup in cs.lookups`: evaluate_lc on the inputs
\* and on the tables, then Add(table, Gamma), Add(input, Beta) and their Mul.
LookupGraph(input, table) ==
  LET lc(g, es) == LET r == AddExpressions(g, es)
                   IN AddCalculationG(r[1], HornerCalc(Constant(0), r[2], Theta))
      inp   == lc(DefaultGraph, input)
      tab   == lc(inp[1], table)
      right == AddCalculationG(tab[1], AddCalc(tab[2], Gamma))
      left  == AddCalculationG(right[1], AddCalc(inp[2], Beta))
  IN AddCalculationG(left[1], MulCalc(left[2], right[2]))[1]

LookupSides == UNION {[1..n -> LookupExprs] : n \in 1..MaxLookupWidth}

CompileLookup(input, table) ==
  /\ phase = "lookups"
  /\ Len(lookupGraphs) < MaxLookups
  /\ lookupGraphs' = Append(lookupGraphs, LookupGraph(input, table))
  /\ lookupArgs' = Append(lookupArgs, [input |-> input, table |-> table])
  /\ UNCHANGED <<customGates, parts, polys, phase>>

\* The loop over cs.lookups ends; Evaluator::new returns.
FinishLookups ==
  /\ phase = "lookups"
  /\ phase' = "done"
  /\ UNCHANGED <<customGates, parts, polys, lookupGraphs, lookupArgs>>

Next ==
  \/ \E e \in GatePolys : CompileGatePolynomial(e)
  \/ FinishGates
  \/ \E input, table \in LookupSides : CompileLookup(input, table)
  \/ FinishLookups

Spec == Init /\ [][Next]_cvars

-----------------------------------------------------------------------------
TypeOK ==
  /\ phase \in {"gates", "lookups", "done"}
  /\ Len(parts) = Len(polys)
  /\ Len(lookupGraphs) = Len(lookupArgs)
  /\ polys \in Seq(GatePolys)

\* Horner by explicit powers: start * y^n + sum_k parts[k] * y^(n-k), the
\* combination the quotient's previous_value contract promises.
PowerSum(start, vals, y) ==
  LET n == Len(vals) IN
  FoldLeft(LAMBDA acc, k : FAdd(acc, FMul(vals[k], FPow(y, n - k))),
           FMul(start, FPow(y, n)), [k \in 1..n |-> k])

(***************************************************************************)
(* CSE correctness (spec 8): every compiled gate polynomial, read from the *)
(* shared, deduplicated graph at any row by a worker that reuses its       *)
(* scratch from row to row, has the value the simple evaluator gives the   *)
(* polynomial; and once the closing Horner is emitted, evaluate returns    *)
(* previous_value * y^n + sum_k p_k * y^(n-k).  Breaks if a peephole       *)
(* rewrite of add_expression changes a value, if deduplication hands back  *)
(* the wrong slot, or if a calculation reads a slot left by the previous   *)
(* row.                                                                    *)
(***************************************************************************)
GatesMatchReference ==
  \A w \in Witnesses, prev \in PrevValues :
    \A run \in {RunRows(customGates, w, prev)} : \A idx \in Rows :
      LET ref == [k \in 1..Len(polys) |-> RefEval(polys[k], w, idx)] IN
      /\ \A k \in 1..Len(parts) :
           SourceIn(customGates, parts[k], run[idx + 1].scratch, w, prev) = ref[k]
      /\ phase # "gates" => run[idx + 1].value = PowerSum(prev, ref, YV)

(***************************************************************************)
(* Every lookup graph returns, at every row, (compressed input + beta) *   *)
(* (compressed table + gamma), where a side is compressed as               *)
(* sum_k e_k * theta^(m-k): the table_value of evaluate_h's lookup pass.   *)
(* Breaks if the last calculation of the graph is not the product (for    *)
(* instance because add_calculation deduplicated it), or if the input and  *)
(* table compressions share a slot they should not.                        *)
(***************************************************************************)
LookupsMatchReference ==
  \A n \in 1..Len(lookupGraphs), w \in Witnesses :
    \A run \in {RunRows(lookupGraphs[n], w, 0)} : \A idx \in Rows :
      LET side(es) == PowerSum(0, [k \in 1..Len(es) |-> RefEval(es[k], w, idx)], ThetaV)
      IN run[idx + 1].value
             = FMul(FAdd(side(lookupArgs[n].input), BetaV),
                  FAdd(side(lookupArgs[n].table), GammaV))

\* Every graph the constructor builds is well formed (GraphOps!WellFormedG).
GraphsWellFormed ==
  /\ WellFormedG(customGates)
  /\ \A n \in 1..Len(lookupGraphs) : WellFormedG(lookupGraphs[n])

=============================================================================
