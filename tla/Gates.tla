--------------------------------- MODULE Gates ---------------------------------
(***************************************************************************)
(* How one evaluation turns what the worker holds into a candidate         *)
(* intervention: the gate that mines frequent patterns                     *)
(* (src/src/gates/fast/prefixSpanFastGate.ts), the one that matches a      *)
(* fixed list (mockFastGate.ts), the two slow gates                        *)
(* (src/src/gates/slow/onnxSlowGate.ts, mockSlowGate.ts) and the           *)
(* arbitration between fast and slow (src/src/gates/arbitration.ts).       *)
(*                                                                         *)
(* A confidence is compared with a threshold and recorded, nothing more:   *)
(* that of a model's head is its reaching the threshold or not. Latencies, *)
(* reasons and the time of issue are left out.                             *)
(***************************************************************************)
EXTENDS SequenceMining

CONSTANTS
  Types, NoType,        \* intervention types, and no command at all
  Declared,             \* fastGatePatterns: a function from patterns to types
  DeclaredOrder,        \* its keys in the order they were inserted
  MinSupport, MinConfidence,
  MaxPatterns, MaxPatternLength, MaxCorpusSequences

NoOp == "no_op"

ASSUME GatesAssumption ==
  /\ NoType \notin Types /\ NoOp \notin Types
  /\ Declared \in [Range(DeclaredOrder) -> Types \cup {NoOp}] /\ IsInjective(DeclaredOrder)
  /\ DeclaredOrder \in Seq(Sequence \ {<< >>})
  /\ MinSupport \in Nat \ {0} /\ MinConfidence \in 0..1000
  /\ MaxPatterns \in Nat \ {0} /\ MaxPatternLength \in Nat \ {0}
  /\ MaxCorpusSequences \in Nat \ {0}
  /\ {"expand_tooltip", "offer_assistance", "simplify_options"} \subseteq Types

(* GateDecision: a miss has no type and no pattern.                         *)
Miss == [type |-> NoType, pattern |-> << >>]
Hit(pattern) == [type |-> Declared[pattern], pattern |-> pattern]
Decisions == {Miss} \cup {Hit(p) : p \in DOMAIN Declared}
FirstHit(patterns, firing) == IF firing = {} THEN Miss ELSE Hit(patterns[Min(firing)])
Latest(s, n) == IF Len(s) > n THEN SubSeq(s, Len(s) - n + 1, Len(s)) ELSE s
-----------------------------------------------------------------------------
(* The corpus: the latest sequences of the history, then the current one.   *)
Corpus(history, current) == Append(Latest(history, MaxCorpusSequences), current)

(* Support, then length, then the joined key.                               *)
Rank(symbol) == CHOOSE k \in DOMAIN Symbols : Symbols[k] = symbol
KeyBefore(p, q) ==
  \E k \in DOMAIN p : Rank(p[k]) < Rank(q[k]) /\ \A j \in 1..(k - 1) : p[j] = q[j]
RanksBefore(a, b) ==
  \/ a.support > b.support
  \/ a.support = b.support /\ Len(a.pattern) > Len(b.pattern)
  \/ a.support = b.support /\ Len(a.pattern) = Len(b.pattern) /\ KeyBefore(a.pattern, b.pattern)

(* matches(): the pattern's symbols in their order, found with one cursor.  *)
Advance(cursor, symbol, pattern) ==
  IF cursor <= Len(pattern) /\ symbol = pattern[cursor] THEN cursor + 1 ELSE cursor
Matches(current, pattern) ==
  FoldLeft(LAMBDA cursor, symbol : Advance(cursor, symbol, pattern), 1, current) > Len(pattern)

(* What is considered of the mined patterns: ranked first, then filtered,   *)
(* and of these the first MaxPatterns. In a mutant the cut comes first.     *)
Actionable(mined, total) ==
  /\ Len(mined.pattern) <= MaxPatternLength
  /\ Confidence(mined.support, total) >= MinConfidence
CandidatesCutFirst(patterns, total) ==
  LET Passes(m) == Actionable(m, total)
      ranked == SetToSortSeq(patterns, RanksBefore)
  IN  SelectSeq(SubSeq(ranked, 1, IF Len(ranked) > MaxPatterns THEN MaxPatterns
                                  ELSE Len(ranked)), Passes)
Candidates(patterns, total) ==
  LET Passes(m) == Actionable(m, total)
  IN  SelectSeq(SetToSortSeq(patterns, RanksBefore), Passes)

(* The miner of one evaluation: its WASM module can be loaded, cannot be, or*)
(* is still loading when the deadline of the mining passes.                 *)
MinerStates == {"ready", "unloadable", "late"}
(* minePatternsDirect() answers null (no member) for want of a module; the  *)
(* worker makes no patterns of that; runBounded() stops waiting for a late  *)
(* answer and drops it.                                                     *)
MinePatternsDirect(sequences, miner) ==
  IF miner = "unloadable" THEN {} ELSE {MinePrefixSpan(sequences, MinSupport)}
MinePatterns(sequences, miner) == UNION MinePatternsDirect(sequences, miner)
RunBounded(sequences, miner) ==
  IF miner = "late" THEN [patterns |-> {}, timedOut |-> TRUE]
  ELSE [patterns |-> MinePatterns(sequences, miner), timedOut |-> FALSE]

(* evaluate(): the first candidate that the current sequence contains and   *)
(* that has a declared intervention.                                        *)
PrefixSpanDecision(history, current, miner) ==
  LET corpus == Corpus(history, current)
      candidates == Candidates(RunBounded(corpus, miner).patterns, Len(corpus))
      patterns == [k \in DOMAIN candidates |-> candidates[k].pattern]
      firing == {k \in 1..MaxPatterns :
                   k \in DOMAIN patterns /\ Matches(current, patterns[k])
                                        /\ patterns[k] \in DOMAIN Declared}
  IN  IF current = << >> THEN Miss ELSE FirstHit(patterns, firing)

(* MockFastGate.evaluate(): the patterns it was given, in insertion order,  *)
(* each against the end of the sequence (exactMatchOnly is never set).      *)
CheckMatch(current, pattern) == IsSuffix(pattern, current)
MockDecision(current, patterns) ==
  IF current = << >> THEN Miss
  ELSE FirstHit(patterns, {k \in DOMAIN patterns : CheckMatch(current, patterns[k])})
-----------------------------------------------------------------------------
(* The outcome classes and the ablation's table.                            *)
OutcomeClasses == {"NO_OUTCOME", "CLICK", "FORM_SUBMIT", "BACKTRACK", "RAPID_SCROLL",
                   "HOVER_DWELL", "ABANDON"}
DefaultOutcomeInterventions ==
  [o \in OutcomeClasses |->
     CASE o = "HOVER_DWELL" -> "expand_tooltip"
       [] o \in {"BACKTRACK", "ABANDON"} -> "offer_assistance"
       [] o = "RAPID_SCROLL" -> "simplify_options"
       [] OTHER -> NoOp]

(* What the two heads answer: the class each ranks first and whether its    *)
(* probability reaches the threshold.                                       *)
Heads == [outcome: OutcomeClasses, outcomeSure: BOOLEAN,
          intervention: Types \cup {NoOp}, interventionSure: BOOLEAN]

(* A command below the threshold, or of no_op, is none.                     *)
Built(type, sure) == IF sure /\ type # NoOp THEN type ELSE NoType

SlowResult(outcome, type, mapping) == [outcome |-> outcome, type |-> type, mapping |-> mapping]

(* Loading the slow gate. A model that is asked for is fetched or loading   *)
(* fails as a whole, with no bundle; with the bundle in hand, warmup()      *)
(* leaves the gate in place, also when it holds no model, and without it a  *)
(* mock stands in for the rest of the worker's life.                        *)
Models == {"foundation", "intervention"}
CreateSingleSession(model, fetchable) == {model} \cap fetchable
GetSession(requested, fetchable) ==
  IF \E m \in requested : CreateSingleSession(m, fetchable) = {} THEN {} ELSE {requested}
Warmup(requested, fetchable) == GetSession(requested, fetchable) # {}
CreateSlowGate(mode, requested, fetchable) ==
  IF mode = "onnx" /\ Warmup(requested, fetchable) THEN "onnx" ELSE "mock"

(* OnnxSlowGate.infer() on the models that were loaded. The table is used   *)
(* when the second head is not loaded, and in the ablation that leaves it   *)
(* out (useDeterministicMapping).                                           *)
OutcomeHead(heads, loaded) ==
  IF "foundation" \in loaded THEN [class |-> heads.outcome, sure |-> heads.outcomeSure]
  ELSE [class |-> "NO_OUTCOME", sure |-> FALSE]
OnnxResult(heads, loaded, useDeterministicMapping) ==
  LET outcome == OutcomeHead(heads, loaded)
  IN  IF loaded = {} THEN SlowResult("NO_OUTCOME", NoType, "none")
      ELSE IF useDeterministicMapping \/ "intervention" \notin loaded
      THEN SlowResult(outcome.class,
                      Built(DefaultOutcomeInterventions[outcome.class], outcome.sure),
                      "deterministic_mapping")
      ELSE SlowResult(outcome.class, Built(heads.intervention, heads.interventionSure),
                      "learned_head")

(* MockSlowGate.infer() with its defaults: an outcome, never a command.     *)
MockResult == SlowResult("HOVER_DWELL", NoType, "none")
(* The inference throws: arbitration goes on without a slow result.         *)
NoResult == SlowResult("none", NoType, "none")
-----------------------------------------------------------------------------
(* AdaptiveInferenceEngine.evaluate(): a fast command that is not a no_op   *)
(* wins, and the slow gate is not asked.                                    *)
Verdict(gate, type, mapping, pattern) ==
  [gate |-> gate, type |-> type, mapping |-> mapping, pattern |-> pattern]
SlowVerdict(slow, fast) ==
  IF slow.type # NoType THEN Verdict("slow", slow.type, slow.mapping, fast.pattern)
  ELSE Verdict("none", NoType, "none", fast.pattern)
Arbitrate(fast, slow) ==
  IF fast.type \in Types THEN Verdict("fast", fast.type, "fast_gate_pattern", fast.pattern)
  ELSE SlowVerdict(slow, fast)
-----------------------------------------------------------------------------
(* The reference for the mining gate. A pattern counts when it is short     *)
(* enough and frequent enough in the corpus, by the definition of support   *)
(* and not by the miner, and when fewer than MaxPatterns others go before   *)
(* it; it decides when it is the first of those that occur in the current   *)
(* sequence and are declared.                                               *)
Frequent(corpus) ==
  {m \in {[pattern |-> p, support |-> SupportOf(p, corpus)] : p \in PatternsUpTo(MaxPatternLength)} :
     m.support >= MinSupport /\ Confidence(m.support, Len(corpus)) >= MinConfidence}
Considered(corpus) ==
  LET frequent == Frequent(corpus)
  IN  {m \in frequent : Cardinality({n \in frequent : RanksBefore(n, m)}) < MaxPatterns}
Deciding(corpus, current) ==
  LET firing == {m \in Considered(corpus) :
                   Contained(m.pattern, current) /\ m.pattern \in DOMAIN Declared}
  IN  {m.pattern : m \in {n \in firing : \A other \in firing \ {n} : RanksBefore(n, other)}}
=============================================================================
