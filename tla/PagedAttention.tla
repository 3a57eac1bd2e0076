--------------------------- MODULE PagedAttention ---------------------------
(***************************************************************************)
(* Decode attention of one head of one request over a long context:        *)
(* paged_attention_v2 and cascade_attention_multi, of which                *)
(* cascade_attention is the case of one prefix.  One simdgroup per         *)
(* partition of the context, or of a shared prefix, keeps a softmax        *)
(* relative to the largest score so far; another merges the partitions.    *)
(*                                                                         *)
(* Scores are integers and arithmetic on them is symbolic: a sum of        *)
(* exponentials is the sequence of its terms, pairs of a token and an      *)
(* exponent, and stands both for the sum of the weights and for that of    *)
(* the values so weighted.  A partition divides its values by its sum and  *)
(* the merge multiplies by it, which cancels.  The 1e-6 that the merge     *)
(* adds to the denominator is left out.                                    *)
(***************************************************************************)
EXTENDS Integers, Sequences, FiniteSets, SequencesExt

CONSTANTS
  block_size, partition_size,
  Columns,      \* of the block table
  Inputs        \* [prefixes, context_len, block_table, window, score, sink]

NEG_INF == -1000    \* below every score
NoSink  == NEG_INF
Sink    == <<-1, 0>>

PagedAssumption ==
  /\ {block_size, partition_size, Columns} \subseteq Nat \ {0}
  /\ partition_size % block_size = 0
  /\ \A x \in Inputs :
       /\ x.context_len \in 0 .. Columns * block_size
       /\ x.prefixes # <<>> => x.window = 0 /\ x.sink = NoSink

VARIABLES
  input,        \* a member of Inputs
  partials,     \* by partition: the largest score and the terms, <<>> before
  merged        \* the terms of output and denominator, <<>> before

vars == <<input, partials, merged>>

\* At least one partition, and as many as the table could need.
Parts(tokens) == 0 .. Max({1, (tokens + partition_size - 1) \div partition_size}) - 1

\* The prefixes are levels from 1, the paged context is level 0.
Partition ==
  UNION {{<<level, p>> : p \in Parts(input.prefixes[level])} : level \in DOMAIN input.prefixes}
    \cup {<<0, p>> : p \in Parts(Columns * block_size)}

Init ==
  /\ input \in Inputs
  /\ partials = [p \in Partition |-> <<>>]
  /\ merged = <<>>

From(level, first, end) == [i \in 1 .. Max({0, end - first}) |-> <<level, first + i - 1>>]

\* The tokens of a partition of the context, in the window and in a block.
ContextTokens(p) ==
  LET start == p * partition_size
      end   == Min({start + partition_size, input.context_len})
      first == IF input.window > 0 THEN Max({start, input.context_len - input.window}) ELSE start
  IN  SelectSeq(From(0, first, end), LAMBDA x : input.block_table[x[2] \div block_size] >= 0)

PrefixTokens(level, p) ==
  LET start == p * partition_size
  IN  From(level, start, Min({start + partition_size, input.prefixes[level]}))

\* Faulty variant: the terms keep the exponents they have.
Unscaled(terms, e) == terms

\* Multiplied by exp(e).
Scaled(terms, e) == [i \in DOMAIN terms |-> <<terms[i][1], terms[i][2] + e>>]

\* A token is added to a softmax, relative to the larger of m and its score.
Add(s, tok) ==
  LET score == input.score[tok]
      new_m == Max({s.m, score})
  IN  [m |-> new_m, terms |-> Append(Scaled(s.terms, s.m - new_m), <<tok, score - new_m>>)]

Attended(tokens) == FoldLeft(Add, [m |-> NEG_INF, terms |-> <<>>], tokens)

Attend(p) ==
  /\ partials[p] = <<>>
  /\ partials' = [partials EXCEPT ![p] =
       Attended(IF p[1] = 0 THEN ContextTokens(p[2]) ELSE PrefixTokens(p[1], p[2]))]
  /\ UNCHANGED <<input, merged>>

Reduce ==
  LET gm   == Max({partials[p].m : p \in Partition} \cup {input.sink})
      live == {p \in Partition : partials[p].m # NEG_INF}
      sum  == FoldLeft(LAMBDA terms, p : terms \o Scaled(partials[p].terms, partials[p].m - gm),
                       <<>>, SetToSeq(live))
      sink == IF input.sink = NoSink THEN <<>> ELSE <<<<Sink, input.sink - gm>>>>
  IN  /\ \A p \in Partition : partials[p] # <<>>
      /\ merged = <<>>
      /\ merged' = [out |-> sum, gden |-> sum \o sink]
      /\ UNCHANGED <<input, partials>>

Next == (\E p \in Partition : Attend(p)) \/ Reduce

Spec == Init /\ [][Next]_vars
-----------------------------------------------------------------------------
\* The tokens a query sees: all prefixes, and the context's window where it has blocks.
Visible ==
  {<<level, t>> \in DOMAIN input.score :
     IF level > 0 THEN level \in DOMAIN input.prefixes /\ t < input.prefixes[level]
     ELSE /\ t < input.context_len
          /\ input.window > 0 => t >= input.context_len - input.window
          /\ input.block_table[t \div block_size] >= 0}

(***************************************************************************)
(* paged_attention_reduce: however the context is cut into partitions, and *)
(* whichever of them are empty, every visible token has one term, in the   *)
(* output and in the denominator, the sink one in the denominator alone,   *)
(* and all are relative to the largest score, so that none overflows.      *)
(***************************************************************************)
SoftmaxOfContext ==
  merged # <<>> =>
    LET sink  == IF input.sink = NoSink THEN {} ELSE {input.sink}
        best  == Max({NEG_INF} \cup {input.score[x] : x \in Visible} \cup sink)
        terms == {<<x, input.score[x] - best>> : x \in Visible}
    IN  /\ IsInjective(merged.gden)
        /\ ToSet(merged.out) = terms
        /\ ToSet(merged.gden) = terms \cup {<<Sink, x - best>> : x \in sink}
=============================================================================
