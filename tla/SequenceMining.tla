---------------------------- MODULE SequenceMining ----------------------------
(***************************************************************************)
(* The miner of the deterministic gate: PrefixSpan over sequences of macro *)
(* symbols (src/wasm-vectorizer/src/prefix_span.rs), and the definition of *)
(* a frequent pattern it is measured against. A mined pattern is a record  *)
(* of the pattern and its support; the order the miner returns them in is  *)
(* of no account, since the gate sorts them anew.                          *)
(***************************************************************************)
EXTENDS Naturals, Sequences, FiniteSets, SequencesExt

CONSTANT Symbols   \* the macro symbols, in the order localeCompare gives them

ASSUME SymbolsAssumption == Symbols \in Seq(STRING) /\ IsInjective(Symbols)

Symbol == Range(Symbols)
Sequence == Seq(Symbol)

(* Number of sequences of the database an item occurs in.                   *)
ItemCount(db, item) == Cardinality({k \in DOMAIN db : item \in Range(db[k])})

(* What follows the first occurrence of the item in each sequence that has  *)
(* it, the empty suffixes left out.                                         *)
FirstAt(s, item) ==
  CHOOSE k \in DOMAIN s : s[k] = item /\ \A j \in 1..(k - 1) : s[j] # item
SuffixAfter(s, item) == SubSeq(s, FirstAt(s, item) + 1, Len(s))
Projected(db, item) ==
  LET Follows(s) == item \in Range(s) /\ SuffixAfter(s, item) # << >>
      following == SelectSeq(db, Follows)
  IN  [k \in DOMAIN following |-> SuffixAfter(following[k], item)]

(* mine_projected(): every frequent item extends the prefix and is projected*)
(* on in its turn.                                                          *)
MineProjected(prefix0, db0, minSupport) ==
  LET mine[p \in [prefix: Sequence, db: Seq(Sequence)]] ==
        UNION { LET longer == Append(p.prefix, item) IN
                {[pattern |-> longer, support |-> ItemCount(p.db, item)]}
                  \cup mine[[prefix |-> longer, db |-> Projected(p.db, item)]]
                : item \in {i \in Symbol : ItemCount(p.db, i) >= minSupport} }
  IN  mine[[prefix |-> prefix0, db |-> db0]]

MinePrefixSpan(sequences, minSupport) ==
  IF sequences = << >> \/ minSupport = 0 THEN {}
  ELSE MineProjected(<< >>, sequences, minSupport)

(* A confidence is support / total rounded to three decimals; here in       *)
(* thousandths.                                                             *)
Confidence(support, total) == (2000 * support + total) \div (2 * total)
-----------------------------------------------------------------------------
(* The reference: a pattern is contained in a sequence when its symbols     *)
(* occur in it in their order, and its support is the number of sequences   *)
(* that contain it.                                                         *)
Embeddings(p, s) ==
  {f \in [DOMAIN p -> DOMAIN s] :
     /\ \A j, k \in DOMAIN p : j < k => f[j] < f[k]
     /\ \A k \in DOMAIN p : s[f[k]] = p[k]}
Contained(p, s) == Embeddings(p, s) # {}
SupportOf(p, sequences) == Cardinality({k \in DOMAIN sequences : Contained(p, sequences[k])})
PatternsUpTo(n) == UNION {[1..k -> Symbol] : k \in 1..n}
=============================================================================
