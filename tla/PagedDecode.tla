---------------------------- MODULE PagedDecode ----------------------------
(***************************************************************************)
(* chunked_prefill_paged_decode of patches/chunked_prefill_paged_decode.py:*)
(* attention for one batch in which some sequences bring several new       *)
(* tokens (prefill) and some bring one (decode).                           *)
(*                                                                         *)
(* The wrapper launches the prefill kernel for the former, then either the *)
(* ROCm kernel or kernel_paged_attention_2d for the latter.  A program of  *)
(* kernel_paged_attention_2d serves one sequence and one key/value head.   *)
(* It goes over the keys and values in tiles, which need not divide the    *)
(* blocks that the cache is paged in, and keeps a running softmax: the     *)
(* maximum score so far, the sum of the weights, and the weighted sum of   *)
(* the values.                                                             *)
(*                                                                         *)
(* A value is known by the token it belongs to and a weight exp(e) by its  *)
(* exponent e, so a sum is the set of the terms that make it up; exp(e)    *)
(* is 0 when e <= Underflow.  The query heads of a program differ in their *)
(* scores only and are kept together.  Head and cache data types, strides  *)
(* within a block and alibi slopes are left out.                           *)
(***************************************************************************)
EXTENDS Integers, Sequences, FiniteSets, FiniteSetsExt

CONSTANTS
  Batches,       \* the batches that are considered
  MaxTile,       \* MAX_TRITON_BLOCK_SIZE, 128 in the code
  OddTile,       \* the tile for blocks that are no power of 2, 32 in the code
  Partition,     \* _PARTITION_SIZE_ROCM, 256 in the code
  Masked,        \* the score outside of the sliding window, -10000 in the code
  NegInf,        \* float("-inf"): below Masked and all sums with it
  Underflow,     \* exp of this or less is 0
  PowersOfTwo,   \* the block sizes that are powers of 2
  NoSink,        \* no sink
  Garbage,       \* a slot of the cache that nobody has written
  Unwritten      \* a row of the output that nobody has written

Positive == Nat \ {0}

\* What a row of the output may hold for a head.
Terms == [of : Nat \X Nat, e : Int, tile : Int]
Cells == [by : {"prefill", "custom"}]
         \cup [by : {"decode"}, kv : Nat, acc : SUBSET Terms, denom : SUBSET Terms]

\* The arguments of a call.  Sequence s has len tokens and a row of the block table;
\* its new tokens have the rows of the output from start[s] on (query_start_loc).
ArgumentTypes(b) ==
  /\ b.seqs \in Seq([len : Nat, row : Seq(Nat)]) /\ b.seqs # <<>>
  /\ b.start \in [1 .. Len(b.seqs) + 1 -> Nat]
  /\ b.phys \in Positive /\ b.window \in Nat /\ b.maxSeqLen \in Nat
  /\ b.kvHeads \in Positive /\ b.perKv \in Positive /\ b.padded \in Nat /\ b.perKv <= b.padded
  /\ b.custom \in BOOLEAN /\ b.native \in BOOLEAN /\ b.knownType \in BOOLEAN
  /\ b.sink \in Int \cup {NoSink} /\ b.score \in [0 .. b.maxSeqLen - 1 -> Int]

\* New tokens are among the tokens, rows follow each other, and only behind the others
\* is there padding, which has no rows.
RowsInOrder(b) ==
  /\ \A i, j \in DOMAIN b.start : i <= j => b.start[i] <= b.start[j]
  /\ \A s \in DOMAIN b.seqs :
       /\ b.start[s + 1] - b.start[s] <= b.seqs[s].len /\ b.seqs[s].len <= b.maxSeqLen
       /\ b.start[s + 1] = b.start[s] => b.start[s] = b.start[Len(b.seqs) + 1]

\* The table is a rectangle with an entry for each token, and no block has tokens of two
\* entries (sharing of prefixes, where sequences have a token in common, is left out).
TableCovers(b) ==
  /\ \A s, u \in DOMAIN b.seqs : Len(b.seqs[s].row) = Len(b.seqs[u].row)
  /\ \A s \in DOMAIN b.seqs : \A t \in 0 .. b.seqs[s].len - 1 :
       t \div b.phys + 1 <= Len(b.seqs[s].row)
EntriesApart(b) ==
  \A s, u \in DOMAIN b.seqs :
    \A t \in 0 .. b.seqs[s].len - 1, v \in 0 .. b.seqs[u].len - 1 :
      b.seqs[s].row[t \div b.phys + 1] = b.seqs[u].row[v \div b.phys + 1] =>
        s = u /\ t \div b.phys = v \div b.phys

\* Next to the score of a token the weight of Masked is 0, and everything is finite.
ScoresFinite(b) ==
  /\ \A t \in DOMAIN b.score : Masked - b.score[t] <= Underflow /\ b.score[t] < -NegInf
  /\ b.sink # NoSink => NegInf - b.sink <= Underflow /\ b.sink < -NegInf

ASSUME PagedDecodeAssumption ==
  /\ MaxTile \in Positive /\ OddTile \in Positive
  /\ Masked \in Int /\ NegInf \in Int /\ Underflow \in Int
  /\ Underflow < 0 /\ NegInf - Masked <= Underflow
  /\ NoSink \notin Int /\ Garbage \notin Nat \X Nat /\ Unwritten \notin Cells
  /\ \A b \in Batches :
       ArgumentTypes(b) /\ RowsInOrder(b) /\ TableCovers(b) /\ EntriesApart(b) /\ ScoresFinite(b)

VARIABLES
  batch,         \* the arguments of the call
  pc,            \* "entered", "prefilled", "decoding", "returned" or "raised"
  at,            \* at[p]: the next tile of program p; Gone once it is through
  top,           \* top[p]: M of the kernel
  denom,         \* denom[p]: L of the kernel
  acc,           \* acc[p]: acc of the kernel
  output         \* output[row][head]

vars == <<batch, pc, at, top, denom, acc, output>>

-----------------------------------------------------------------------------
(* The batch: a block has phys slots; tokens older than window are not     *)
(* attended to (0: all are); score[t] is the score of token t.             *)

Seqs == DOMAIN batch.seqs
SeqLen(s) == batch.seqs[s].len
Start(s) == batch.start[s]
QueryLen(s) == Start(s + 1) - Start(s)

\* max_query_len
MaxQueryLen == Max({QueryLen(s) : s \in Seqs})

\* The rows of the output: one for each new token, and one row of padding.
RowsOf(s) == Start(s) .. Start(s) + QueryLen(s) - 1
Rows == 0 .. Start(Len(batch.seqs) + 1)
Heads == 0 .. batch.kvHeads * batch.perKv - 1

\* The block that entry i of a row of the table names: past the end of a row
\* begins the next one, past the last row there is some other memory.
TableEntry(s, i) ==
  LET width == Len(batch.seqs[s].row)
      flat == (s - 1) * width + i IN
  IF flat < Len(batch.seqs) * width
  THEN batch.seqs[flat \div width + 1].row[(flat % width) + 1]
  ELSE 0

\* What the cache update left in a slot: a token of a sequence, or nothing.
Slot(block, i) ==
  LET kept == {st \in Seqs \X (0 .. batch.maxSeqLen - 1) :
                 /\ st[2] < SeqLen(st[1])
                 /\ batch.seqs[st[1]].row[st[2] \div batch.phys + 1] = block
                 /\ st[2] % batch.phys = i} IN
  IF kept = {} THEN Garbage ELSE CHOOSE st \in kept : TRUE

\* Where a term comes from: token t of sequence s, or the sink.
SinkSource == <<0, 0>>
Term(of, e, tile) == [of |-> of, e |-> e, tile |-> tile]

-----------------------------------------------------------------------------
(* The wrapper.                                                            *)

\* context_attention_fwd with skip_decode: the sequences with more than one new
\* token; launched first, and on the same stream.
Prefill ==
  /\ pc = "entered" /\ MaxQueryLen > 1
  /\ output' = [r \in Rows |->
                  IF \E s \in Seqs : QueryLen(s) > 1 /\ r \in RowsOf(s)
                  THEN [h \in Heads |-> [by |-> "prefill"]] ELSE output[r]]
  /\ pc' = "prefilled"
  /\ UNCHANGED <<batch, at, top, denom, acc>>

IsPowerOfTwo == batch.phys \in PowersOfTwo

\* use_rocm_custom_paged_attention, has_native_kv_cache_layout and is_pow2.
UseCustom == batch.custom /\ IsPowerOfTwo /\ batch.native

\* The prefill kernel, if any, is launched.
Decoding == pc = "prefilled" \/ (pc = "entered" /\ MaxQueryLen <= 1)

\* raise ValueError on the type of the cache; the prefill has been launched.
CacheTypeRaises ==
  /\ Decoding /\ ~ batch.knownType
  /\ pc' = "raised"
  /\ UNCHANGED <<batch, at, top, denom, acc, output>>

\* paged_attention_rocm: the sequences with one new token; it takes the blocks
\* to be packed one after the other.
CustomDecode ==
  /\ Decoding /\ batch.knownType /\ UseCustom
  /\ Partition % batch.phys = 0
  /\ output' = [r \in Rows |->
                  IF \E s \in Seqs : QueryLen(s) = 1 /\ r \in RowsOf(s)
                  THEN [h \in Heads |-> [by |-> IF batch.native THEN "custom" ELSE "misread"]]
                  ELSE output[r]]
  /\ pc' = "returned"
  /\ UNCHANGED <<batch, at, top, denom, acc>>

\* assert _PARTITION_SIZE_ROCM % block_size == 0
CustomRaises ==
  /\ Decoding /\ batch.knownType /\ UseCustom
  /\ Partition % batch.phys # 0
  /\ pc' = "raised"
  /\ UNCHANGED <<batch, at, top, denom, acc, output>>

TritonDecode ==
  /\ Decoding /\ batch.knownType /\ ~ UseCustom
  /\ pc' = "decoding"
  /\ UNCHANGED <<batch, at, top, denom, acc, output>>

-----------------------------------------------------------------------------
(* kernel_paged_attention_2d.                                              *)

Programs == Seqs \X (0 .. batch.kvHeads - 1)

\* TRITON_BLOCK_SIZE
TileSize == IF IsPowerOfTwo THEN Min({batch.phys, MaxTile}) ELSE OddTile
NumTiles(s) == (SeqLen(s) + TileSize - 1) \div TileSize
NotBegun == -1
Through(s) == NumTiles(s) + 1

\* filter_by_query_len
Filtered(s) == QueryLen(s) > 1

Skip(p) ==
  /\ pc = "decoding" /\ at[p] = NotBegun
  /\ Filtered(p[1])
  /\ at' = [at EXCEPT ![p] = Through(p[1])]
  /\ UNCHANGED <<batch, pc, top, denom, acc, output>>

\* A sink is a score without a value.
Begin(p) ==
  /\ pc = "decoding" /\ at[p] = NotBegun
  /\ ~ Filtered(p[1])
  /\ at' = [at EXCEPT ![p] = 0]
  /\ top' = [top EXCEPT ![p] = IF batch.sink = NoSink THEN NegInf ELSE batch.sink]
  /\ denom' = [denom EXCEPT ![p] =
                 IF batch.sink = NoSink THEN {} ELSE {Term(SinkSource, 0, NotBegun)}]
  /\ UNCHANGED <<batch, pc, acc, output>>

\* S: no score behind the sequence, a low one before the window.
Score(s, t) ==
  IF t >= SeqLen(s) THEN NegInf
  ELSE IF batch.window > 0 /\ SeqLen(s) - 1 - t >= batch.window THEN Masked
  ELSE batch.score[t]

\* Mutant: the slots behind the sequence are loaded as well.
LoadedAll(s, t) == TRUE

\* kv_load_mask
Loaded(s, t) == t < SeqLen(s)

\* p is not 0
Counts(x, m) == m # NegInf /\ x - m > Underflow

\* Times alpha = exp(old - new); what is not a number stays so.
Rescaled(terms, old, new) ==
  {Term(x.of, x.e + old - new, x.tile) :
     x \in {x \in terms : x.of # Garbage /\ old # NegInf /\ x.e + old - new > Underflow}}
  \cup {x \in terms : x.of = Garbage}

\* Mutant of NewDenom: the sum of the weights keeps its old scale.
NewDenomUnscaled(p, m, weights) == denom[p] \cup weights

NewDenom(p, m, weights) == Rescaled(denom[p], top[p], m) \cup weights

\* One round of the loop over the tiles.
NextTile(p) ==
  LET s == p[1]
      j == at[p]
      tokens == j * TileSize .. j * TileSize + TileSize - 1
      m == Max({top[p]} \cup {Score(s, t) : t \in tokens})
      kv == [t \in tokens |-> Slot(TableEntry(s, t \div batch.phys), t % batch.phys)]
      counted == {t \in tokens : Counts(Score(s, t), m)}
      poison == {t \in tokens : Loaded(s, t) /\ kv[t] = Garbage} IN
  /\ pc = "decoding" /\ j \in 0 .. NumTiles(s) - 1
  /\ top' = [top EXCEPT ![p] = m]
  /\ denom' = [denom EXCEPT ![p] =
                 NewDenom(p, m, {Term(<<s, t>>, Score(s, t) - m, j) : t \in counted})]
  /\ acc' = [acc EXCEPT ![p] =
               Rescaled(acc[p], top[p], m)
               \cup {Term(kv[t], Score(s, t) - m, j) : t \in {t \in counted : Loaded(s, t)}}
               \cup {Term(Garbage, 0, j) : t \in poison}]
  /\ at' = [at EXCEPT ![p] = j + 1]
  /\ UNCHANGED <<batch, pc, output>>

\* Mutant: the padding of the heads is stored as far as there are heads.
HeadMaskPadded(kv, h) == h \in kv * batch.perKv .. kv * batch.perKv + batch.padded - 1

\* head_mask
HeadMask(kv, h) ==
  /\ h \in kv * batch.perKv .. kv * batch.perKv + batch.padded - 1
  /\ h < (kv + 1) * batch.perKv

\* The epilogue: acc / L goes to the row of the first new token.
Store(p) ==
  /\ pc = "decoding" /\ at[p] = NumTiles(p[1])
  /\ output' = [output EXCEPT ![Start(p[1])] =
                  [h \in Heads |-> IF HeadMask(p[2], h)
                                   THEN [by |-> "decode", kv |-> p[2],
                                         acc |-> acc[p], denom |-> denom[p]]
                                   ELSE @[h]]]
  /\ at' = [at EXCEPT ![p] = Through(p[1])]
  /\ UNCHANGED <<batch, pc, top, denom, acc>>

Return ==
  /\ pc = "decoding"
  /\ \A p \in Programs : at[p] = Through(p[1])
  /\ pc' = "returned"
  /\ UNCHANGED <<batch, at, top, denom, acc, output>>

-----------------------------------------------------------------------------

Init ==
  /\ batch \in Batches
  /\ pc = "entered"
  /\ at = [p \in Programs |-> NotBegun]
  /\ top = [p \in Programs |-> NegInf]
  /\ denom = [p \in Programs |-> {}]
  /\ acc = [p \in Programs |-> {}]
  /\ output = [r \in Rows |-> [h \in Heads |-> Unwritten]]

Next ==
  \/ Prefill
  \/ CacheTypeRaises
  \/ CustomDecode
  \/ CustomRaises
  \/ TritonDecode
  \/ \E p \in Programs : Skip(p) \/ Begin(p) \/ NextTile(p) \/ Store(p)
  \/ Return

Spec == Init /\ [][Next]_vars

-----------------------------------------------------------------------------
(* Properties.                                                             *)

\* The tokens that the new token of s attends to, and the softmax over them.
Attended(s) ==
  {t \in 0 .. SeqLen(s) - 1 : batch.window = 0 \/ SeqLen(s) - 1 - t < batch.window}
Peak(s) ==
  Max({batch.score[t] : t \in Attended(s)} \cup (IF batch.sink = NoSink THEN {} ELSE {batch.sink}))
Weights(s) ==
  {<<<<s, t>>, batch.score[t] - Peak(s)>> :
     t \in {t \in Attended(s) : batch.score[t] - Peak(s) > Underflow}}
SinkWeight(s) ==
  IF batch.sink = NoSink \/ batch.sink - Peak(s) <= Underflow
  THEN {} ELSE {<<SinkSource, batch.sink - Peak(s)>>}

\* A set of terms is a set of weights when none of them is in it twice.
Amounts(terms, weights) ==
  /\ {<<x.of, x.e>> : x \in terms} = weights
  /\ Cardinality(terms) = Cardinality(weights)

\* Each new token is answered: by the prefill kernel where the sequence has more
\* than one, otherwise with the softmax over exactly its own attended tokens,
\* in every head, whatever the tiles, the blocks and the order of the programs.
Answered ==
  pc = "returned" => \A s \in Seqs : \A r \in RowsOf(s) : \A h \in Heads :
    LET cell == output[r][h] IN
    /\ cell # Unwritten
    /\ QueryLen(s) > 1 => cell.by = "prefill"
    /\ QueryLen(s) = 1 =>
         \/ cell.by = "custom"
         \/ /\ cell.by = "decode" /\ cell.kv = h \div batch.perKv
            /\ Amounts(cell.acc, Weights(s))
            /\ Amounts(cell.denom, Weights(s) \cup SinkWeight(s))

\* A row of the cache that no token of the sequence has been written to may hold
\* anything, NaN included: it never gets into the sum, not even with weight 0.
NoPoison == \A p \in Programs : \A x \in acc[p] : x.of # Garbage

\* No kernel and no program writes a new token's row after another has: not the
\* decode kernel the rows of a prefill, not one head the rows of the next, not
\* a padding sequence the row of a real one.
WrittenOnce ==
  [][\A s \in Seqs : \A r \in RowsOf(s) : \A h \in Heads :
       output[r][h] # Unwritten => output'[r][h] = output[r][h]]_vars

-----------------------------------------------------------------------------
(* The inductive invariant.                                                *)

\* The tokens of the tiles before tile j.
Seen(s, j) == {t \in 0 .. NumTiles(s) * TileSize - 1 : t \div TileSize < j}

\* The scores that program p has compared: the sink and what it has seen.
Compared(s, j) ==
  {IF batch.sink = NoSink THEN NegInf ELSE batch.sink} \cup {Score(s, t) : t \in Seen(s, j)}

\* The sum over the tokens before tile j, and the weight of the sink, below maximum m.
Summed(s, j, m) ==
  {Term(<<s, t>>, Score(s, t) - m, t \div TileSize) :
     t \in {t \in Seen(s, j) : Loaded(s, t) /\ Counts(Score(s, t), m)}}
SinkTerms(m) ==
  IF batch.sink = NoSink \/ ~ (batch.sink - m > Underflow)
  THEN {} ELSE {Term(SinkSource, batch.sink - m, NotBegun)}

\* Where the wrapper and the programs may be.
Progress ==
  /\ batch \in Batches
  /\ pc \in {"entered", "prefilled", "decoding", "returned", "raised"}
  /\ at \in [Programs -> Int] /\ DOMAIN top = Programs
  /\ DOMAIN denom = Programs /\ DOMAIN acc = Programs
  /\ pc = "decoding" => ~ UseCustom
  /\ \A p \in Programs :
       /\ at[p] \in {NotBegun} \cup 0 .. Through(p[1])
       /\ Filtered(p[1]) => at[p] \in {NotBegun, Through(p[1])}
       /\ at[p] # NotBegun => pc \in {"decoding", "returned"} /\ ~ UseCustom
       /\ pc = "returned" /\ ~ UseCustom => at[p] = Through(p[1])

\* The running softmax: the maximum of what has been compared, and the sums below it.
RunningSoftmax ==
  \A p \in Programs :
    IF at[p] = NotBegun \/ Filtered(p[1]) THEN acc[p] = {} /\ denom[p] = {} /\ top[p] = NegInf
    ELSE /\ top[p] \in Compared(p[1], at[p])
         /\ \A x \in Compared(p[1], at[p]) : x <= top[p]
         /\ acc[p] = Summed(p[1], at[p], top[p])
         /\ denom[p] = Summed(p[1], at[p], top[p]) \cup SinkTerms(top[p])

\* The cells of the new tokens' rows hold what has been done for them, and nothing else.
Contents(s, h) ==
  LET p == <<s, h \div batch.perKv>> IN
  IF QueryLen(s) > 1 THEN (IF pc = "entered" THEN Unwritten ELSE [by |-> "prefill"])
  ELSE IF pc = "returned" /\ UseCustom THEN [by |-> "custom"]
  ELSE IF at[p] = Through(s)
       THEN [by |-> "decode", kv |-> p[2], acc |-> acc[p], denom |-> denom[p]]
       ELSE Unwritten
OwnCells ==
  /\ DOMAIN output = Rows /\ \A r \in Rows : DOMAIN output[r] = Heads
  /\ \A s \in Seqs : \A r \in RowsOf(s) : \A h \in Heads : output[r][h] = Contents(s, h)

IInv == Progress /\ RunningSoftmax /\ OwnCells
=============================================================================
