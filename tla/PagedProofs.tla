---------------------------- MODULE PagedProofs ----------------------------
(***************************************************************************)
(* Proofs about PagedDecode, for every batch: any sequences, cache blocks, *)
(* tiles, scores, windows, sinks and heads, and any order of the programs. *)
(***************************************************************************)
EXTENDS PagedDecode, FiniteSetTheorems, SequenceTheorems, WellFoundedInduction, TLAPS

-----------------------------------------------------------------------------
(* Numbers.                                                                *)

LEMMA DivMod ==
  ASSUME NEW a \in Nat, NEW b \in Nat \ {0}
  PROVE  /\ a \div b \in Nat /\ a % b \in 0 .. b - 1
         /\ a = b * (a \div b) + (a % b)
OBVIOUS

LEMMA DivUnique ==
  ASSUME NEW b \in Nat \ {0}, NEW q \in Nat, NEW r \in 0 .. b - 1, NEW a, a = b * q + r
  PROVE  a \div b = q /\ a % b = r
OBVIOUS

\* k lies in tile j exactly when k \div b is j.
LEMMA TileNumber ==
  ASSUME NEW b \in Nat \ {0}, NEW j \in Nat, NEW k \in Nat
  PROVE  k \in j * b .. j * b + b - 1 <=> k \div b = j
<1>1. /\ k \div b \in Nat /\ k % b \in 0 .. b - 1 /\ k = b * (k \div b) + (k % b)
  BY DivMod
<1>2. ASSUME k \in j * b .. j * b + b - 1
      PROVE  k \div b = j
  <2>1. j * b \in Nat /\ k - j * b \in 0 .. b - 1 /\ k = b * j + (k - j * b)
    BY <1>2
  <2>2. QED
    BY <2>1, DivUnique
<1>3. ASSUME k \div b = j
      PROVE  k \in j * b .. j * b + b - 1
  BY <1>1, <1>3
<1>4. QED
  BY <1>2, <1>3

LEMMA QuotientBelow ==
  ASSUME NEW b \in Nat \ {0}, NEW n \in Nat, NEW k \in Nat
  PROVE  k \div b < n <=> k < n * b
<1>1. /\ k \div b \in Nat /\ k % b \in 0 .. b - 1 /\ k = b * (k \div b) + (k % b)
  BY DivMod
<1>2. ASSUME k \div b < n
      PROVE  k < n * b
  <2>1. (k \div b) + 1 <= n
    BY <1>1, <1>2
  <2>2. b * ((k \div b) + 1) <= b * n
    BY <1>1, <2>1
  <2>3. QED
    BY <1>1, <2>2
<1>3. ASSUME n <= k \div b
      PROVE  n * b <= k
  <2>1. b * n <= b * (k \div b)
    BY <1>1, <1>3
  <2>2. QED
    BY <1>1, <2>1
<1>4. QED
  BY <1>1, <1>2, <1>3

\* The natural numbers are well-founded.
LEMMA LeastExists ==
  ASSUME NEW S \in SUBSET Nat, S # {}
  PROVE  \E x \in S : \A y \in S : x <= y
<1> DEFINE R == OpToRel(<, Nat)
<1>1. IsWellFoundedOn(R, Nat)
  BY NatLessThanWellFounded
<1>2. ASSUME NEW x \in Nat, NEW y \in Nat, ~ (<<y, x>> \in R)
      PROVE  x <= y
  BY <1>2 DEF OpToRel
<1> HIDE DEF R
<1>3. PICK x \in S : \A y \in S : ~ (<<y, x>> \in R)
  BY <1>1, WFMin
<1>4. ASSUME NEW y \in S
      PROVE  x <= y
  <2>1. ~ (<<y, x>> \in R)
    BY <1>3
  <2>2. QED
    BY <2>1, <1>2
<1>5. QED
  BY <1>4

\* A set of integers that has a bound has a maximum.
LEMMA MaxFacts ==
  ASSUME NEW S \in SUBSET Int, S # {}, NEW u \in Int, \A x \in S : x <= u
  PROVE  Max(S) \in S /\ \A x \in S : x <= Max(S)
<1> DEFINE N == {n \in Nat : u - n \in S}
<1>1. N \in SUBSET Nat
  OBVIOUS
<1>2. ASSUME NEW x \in S
      PROVE  u - x \in N
  <2>1. u - x \in Nat /\ u - (u - x) = x
    OBVIOUS
  <2>2. QED
    BY <2>1
<1>3. N # {}
  BY <1>2
<1>4. \A n \in N : u - n \in S
  OBVIOUS
<1> HIDE DEF N
<1>5. PICK n \in N : \A k \in N : n <= k
  BY <1>1, <1>3, LeastExists
<1>6. u - n \in S /\ n \in Nat
  BY <1>1, <1>4
<1>7. ASSUME NEW x \in S
      PROVE  x <= u - n
  <2>1. n <= u - x
    BY <1>2, <1>5
  <2>2. QED
    BY <2>1, <1>6
<1>8. QED
  BY <1>6, <1>7 DEF Max

LEMMA MaxUnique ==
  ASSUME NEW S \in SUBSET Int, NEW m \in S, \A x \in S : x <= m
  PROVE  Max(S) = m
<1>1. Max(S) \in S /\ \A x \in S : x <= Max(S)
  BY DEF Max
<1>2. m <= Max(S) /\ Max(S) <= m /\ m \in Int /\ Max(S) \in Int
  BY <1>1
<1>3. QED
  BY <1>2

-----------------------------------------------------------------------------
(* The batch.                                                              *)

LEMMA BatchFacts ==
  ASSUME batch \in Batches
  PROVE  /\ Len(batch.seqs) \in Nat \ {0} /\ Seqs = 1 .. Len(batch.seqs)
         /\ batch.seqs \in Seq([len : Nat, row : Seq(Nat)])
         /\ batch.start \in [1 .. Len(batch.seqs) + 1 -> Nat]
         /\ batch.phys \in Nat \ {0} /\ batch.window \in Nat /\ batch.maxSeqLen \in Nat
         /\ batch.kvHeads \in Nat \ {0} /\ batch.perKv \in Nat \ {0}
         /\ batch.padded \in Nat /\ batch.perKv <= batch.padded
         /\ batch.sink \in Int \cup {NoSink}
         /\ batch.score \in [0 .. batch.maxSeqLen - 1 -> Int]
<1>1. ArgumentTypes(batch)
  BY PagedDecodeAssumption
<1>2. /\ batch.seqs \in Seq([len : Nat, row : Seq(Nat)]) /\ batch.seqs # <<>>
      /\ batch.start \in [1 .. Len(batch.seqs) + 1 -> Nat]
  BY <1>1 DEF ArgumentTypes
<1>3. Len(batch.seqs) \in Nat \ {0} /\ Seqs = 1 .. Len(batch.seqs)
  <2> DEFINE q == batch.seqs
  <2>1. q \in Seq([len : Nat, row : Seq(Nat)]) /\ q # <<>>
    BY <1>2
  <2> HIDE DEF q
  <2>2. Len(q) \in Nat /\ DOMAIN q = 1 .. Len(q) /\ Len(q) # 0
    BY <2>1
  <2>3. QED
    BY <2>2 DEF q, Seqs
<1>4. /\ batch.phys \in Nat \ {0} /\ batch.window \in Nat /\ batch.maxSeqLen \in Nat
      /\ batch.kvHeads \in Nat \ {0} /\ batch.perKv \in Nat \ {0}
      /\ batch.padded \in Nat /\ batch.perKv <= batch.padded
      /\ batch.sink \in Int \cup {NoSink}
      /\ batch.score \in [0 .. batch.maxSeqLen - 1 -> Int]
  BY <1>1 DEF ArgumentTypes, Positive
<1>5. QED
  BY <1>2, <1>3, <1>4

LEMMA TileSizeType ==
  ASSUME batch \in Batches
  PROVE  TileSize \in Nat \ {0}
<1>1. batch.phys \in Nat \ {0} /\ MaxTile \in Nat \ {0} /\ OddTile \in Nat \ {0}
  BY BatchFacts, PagedDecodeAssumption DEF Positive
<1>2. Min({batch.phys, MaxTile}) \in {batch.phys, MaxTile}
  BY <1>1 DEF Min
<1>3. QED
  BY <1>1, <1>2 DEF TileSize

LEMMA SeqFacts ==
  ASSUME batch \in Batches, NEW s \in Seqs
  PROVE  /\ s \in Nat \ {0} /\ s <= Len(batch.seqs) /\ SeqLen(s) \in Nat
         /\ SeqLen(s) <= batch.maxSeqLen /\ batch.seqs[s].row \in Seq(Nat)
<1>1. /\ batch.seqs \in Seq([len : Nat, row : Seq(Nat)])
      /\ s \in 1 .. Len(batch.seqs) /\ Len(batch.seqs) \in Nat
  BY BatchFacts
<1>2. batch.seqs[s] \in [len : Nat, row : Seq(Nat)]
  BY <1>1, ElementOfSeq
<1>3. RowsInOrder(batch)
  BY PagedDecodeAssumption
<1>4. batch.seqs[s].len <= batch.maxSeqLen
  BY <1>3 DEF RowsInOrder, Seqs
<1>5. QED
  BY <1>1, <1>2, <1>4 DEF SeqLen

LEMMA StartFacts ==
  ASSUME batch \in Batches, NEW s \in Seqs
  PROVE  /\ Start(s) \in Nat /\ Start(s + 1) \in Nat /\ Start(s) <= Start(s + 1)
         /\ QueryLen(s) \in Nat /\ QueryLen(s) <= SeqLen(s)
<1>1. /\ s \in 1 .. Len(batch.seqs) /\ Len(batch.seqs) \in Nat
      /\ batch.start \in [1 .. Len(batch.seqs) + 1 -> Nat]
  BY BatchFacts
<1>2. /\ s \in DOMAIN batch.start /\ s + 1 \in DOMAIN batch.start /\ s <= s + 1
      /\ Start(s) \in Nat /\ Start(s + 1) \in Nat
  BY <1>1 DEF Start
<1>3. RowsInOrder(batch)
  BY PagedDecodeAssumption
<1>4. Start(s) <= Start(s + 1)
  BY <1>2, <1>3 DEF RowsInOrder, Start
<1>5. Start(s + 1) - Start(s) <= SeqLen(s)
  BY <1>3 DEF RowsInOrder, Seqs, SeqLen, Start
<1>6. QED
  BY <1>2, <1>4, <1>5 DEF QueryLen

LEMMA NumTilesFacts ==
  ASSUME batch \in Batches, NEW s \in Seqs
  PROVE  /\ NumTiles(s) \in Nat /\ SeqLen(s) <= NumTiles(s) * TileSize
         /\ NumTiles(s) > 0 => SeqLen(s) > 0
<1> DEFINE a == SeqLen(s) + TileSize - 1
           q == a \div TileSize
<1>1. TileSize \in Nat \ {0} /\ SeqLen(s) \in Nat
  BY SeqFacts, TileSizeType
<1>2. a \in Nat
  BY <1>1
<1>3. q \in Nat /\ a % TileSize \in 0 .. TileSize - 1 /\ a = TileSize * q + (a % TileSize)
  BY <1>1, <1>2, DivMod
<1>4. q = NumTiles(s)
  BY DEF NumTiles
<1>5. SeqLen(s) <= q * TileSize
  BY <1>1, <1>3
<1>6. ASSUME SeqLen(s) = 0
      PROVE  q = 0
  <2>1. a \in 0 .. TileSize - 1 /\ a = TileSize * 0 + a
    BY <1>1, <1>6
  <2>2. QED
    BY <1>1, <2>1, DivUnique
<1>7. QED
  BY <1>1, <1>3, <1>4, <1>5, <1>6

\* The tokens of a sequence have scores, above that of no token and below infinity.
LEMMA ScoreFacts ==
  ASSUME batch \in Batches, NEW s \in Seqs, NumTiles(s) > 0, NEW t \in Nat
  PROVE  /\ Score(s, t) \in Int /\ NegInf <= Score(s, t) /\ Score(s, t) <= -NegInf
         /\ t < SeqLen(s) => NegInf < Score(s, t)
         /\ t >= SeqLen(s) => Score(s, t) = NegInf
<1>1. /\ batch.score \in [0 .. batch.maxSeqLen - 1 -> Int] /\ batch.maxSeqLen \in Nat
      /\ SeqLen(s) \in Nat \ {0} /\ SeqLen(s) <= batch.maxSeqLen
      /\ batch.window \in Nat
  <2>1. /\ batch.score \in [0 .. batch.maxSeqLen - 1 -> Int] /\ batch.maxSeqLen \in Nat
        /\ batch.window \in Nat
    BY BatchFacts
  <2>2. SeqLen(s) \in Nat /\ SeqLen(s) <= batch.maxSeqLen
    BY SeqFacts
  <2>3. SeqLen(s) > 0
    BY NumTilesFacts
  <2>4. QED
    BY <2>1, <2>2, <2>3
<1>2. Masked \in Int /\ NegInf \in Int /\ Underflow \in Int /\ Underflow < 0 /\ NegInf - Masked <= Underflow
  BY PagedDecodeAssumption
<1>3. ASSUME NEW u \in 0 .. batch.maxSeqLen - 1
      PROVE  /\ batch.score[u] \in Int /\ Masked < batch.score[u] /\ batch.score[u] < -NegInf
             /\ NegInf < Masked
  <2>1. ScoresFinite(batch)
    BY PagedDecodeAssumption
  <2>2. Masked - batch.score[u] <= Underflow /\ batch.score[u] < -NegInf /\ batch.score[u] \in Int
    BY <1>1, <2>1 DEF ScoresFinite
  <2>3. QED
    BY <2>2, <1>2
<1>4. 0 \in 0 .. batch.maxSeqLen - 1
  BY <1>1
<1>5. NegInf < Masked /\ Masked < -NegInf
  <2>1. /\ batch.score[0] \in Int /\ Masked < batch.score[0] /\ batch.score[0] < -NegInf
        /\ NegInf < Masked
    BY <1>3, <1>4
  <2>2. QED
    BY <2>1, <1>2
<1>6. CASE t >= SeqLen(s)
  BY <1>1, <1>2, <1>5, <1>6 DEF Score
<1>7. CASE t < SeqLen(s)
  <2>1. t \in 0 .. batch.maxSeqLen - 1
    BY <1>1, <1>7
  <2>2. batch.score[t] \in Int /\ Masked < batch.score[t] /\ batch.score[t] < -NegInf
    BY <1>3, <2>1
  <2>3. Score(s, t) \in {Masked, batch.score[t]}
    BY <1>1, <1>7 DEF Score
  <2>4. QED
    BY <1>1, <1>2, <1>5, <1>7, <2>2, <2>3
<1>8. QED
  BY <1>1, <1>6, <1>7

LEMMA SinkFacts ==
  ASSUME batch \in Batches, batch.sink # NoSink
  PROVE  batch.sink \in Int /\ NegInf < batch.sink /\ batch.sink < -NegInf
<1>1. NegInf \in Int /\ Underflow \in Int /\ Underflow < 0 /\ batch.sink \in Int
  BY BatchFacts, PagedDecodeAssumption
<1>2. NegInf - batch.sink <= Underflow /\ batch.sink < -NegInf
  BY PagedDecodeAssumption DEF ScoresFinite
<1>3. QED
  BY <1>1, <1>2

LEMMA EntryFacts ==
  ASSUME batch \in Batches, NEW s \in Seqs, NEW t \in Nat, t < SeqLen(s)
  PROVE  TableEntry(s, t \div batch.phys) = batch.seqs[s].row[t \div batch.phys + 1]
<1> DEFINE i == t \div batch.phys
           w == Len(batch.seqs[s].row)
           n == Len(batch.seqs)
           flat == (s - 1) * w + i
<1>1. /\ batch.phys \in Nat \ {0} /\ n \in Nat /\ s \in 1 .. n
      /\ batch.seqs[s].row \in Seq(Nat) /\ SeqLen(s) \in Nat
  BY BatchFacts, SeqFacts
<1>2. w \in Nat
  BY <1>1
<1>3. i \in Nat
  BY <1>1, DivMod
<1>4. i + 1 <= w
  <2>1. t \in 0 .. batch.seqs[s].len - 1 /\ s \in DOMAIN batch.seqs
    BY <1>1 DEF SeqLen, Seqs
  <2>2. QED
    BY <2>1, PagedDecodeAssumption DEF TableCovers
<1> HIDE DEF i, w, n
<1>5. flat = (s - 1) * w + i
  OBVIOUS
<1> HIDE DEF flat
<1>6. flat < n * w /\ flat \div w = s - 1 /\ flat % w = i
  <2>1. (s - 1) * w \in Nat /\ s * w = (s - 1) * w + w /\ (s - 1) * w = w * (s - 1)
    BY <1>1, <1>2
  <2>2. s * w <= n * w
    BY <1>1, <1>2
  <2>3. w \in Nat \ {0} /\ s - 1 \in Nat /\ i \in 0 .. w - 1
    BY <1>1, <1>2, <1>3, <1>4
  <2>4. flat < n * w
    BY <1>1, <1>2, <1>5, <2>1, <2>2, <2>3
  <2>5. flat = w * (s - 1) + i
    BY <1>5, <2>1
  <2>6. flat \div w = s - 1 /\ flat % w = i
    BY <2>3, <2>5, DivUnique
  <2>7. QED
    BY <2>4, <2>6
<1>7. TableEntry(s, i) = IF flat < n * w THEN batch.seqs[flat \div w + 1].row[(flat % w) + 1] ELSE 0
  BY DEF TableEntry, w, n, flat
<1>8. (s - 1) + 1 = s
  BY <1>1
<1>9. QED
  BY <1>6, <1>7, <1>8 DEF i

\* The table leads from a token to the slot that it was written to, whatever tiles
\* the kernel goes by.
LEMMA SlotFacts ==
  ASSUME batch \in Batches, NEW s \in Seqs, NEW t \in Nat, t < SeqLen(s)
  PROVE  Slot(TableEntry(s, t \div batch.phys), t % batch.phys) = <<s, t>>
<1> DEFINE block == TableEntry(s, t \div batch.phys)
           i == t % batch.phys
           kept == {st \in Seqs \X (0 .. batch.maxSeqLen - 1) :
                      /\ st[2] < SeqLen(st[1])
                      /\ batch.seqs[st[1]].row[st[2] \div batch.phys + 1] = block
                      /\ st[2] % batch.phys = i}
<1>1. /\ batch.phys \in Nat \ {0} /\ batch.maxSeqLen \in Nat
      /\ SeqLen(s) \in Nat /\ SeqLen(s) <= batch.maxSeqLen
  BY BatchFacts, SeqFacts
<1>2. block = batch.seqs[s].row[t \div batch.phys + 1]
  BY EntryFacts
<1> HIDE DEF block
<1>3. <<s, t>> \in kept
  BY <1>1, <1>2
<1>4. ASSUME NEW u \in Seqs, NEW v \in Nat, v < SeqLen(u),
             batch.seqs[u].row[v \div batch.phys + 1] = block, v % batch.phys = i
      PROVE  u = s /\ v = t
  <2>1. SeqLen(u) \in Nat
    BY SeqFacts
  <2>2. /\ v \in 0 .. batch.seqs[u].len - 1 /\ t \in 0 .. batch.seqs[s].len - 1
        /\ u \in DOMAIN batch.seqs /\ s \in DOMAIN batch.seqs /\ EntriesApart(batch)
    BY <1>1, <1>4, <2>1, PagedDecodeAssumption DEF SeqLen, Seqs
  <2>3. u = s /\ v \div batch.phys = t \div batch.phys
    BY <1>2, <1>4, <2>2 DEF EntriesApart
  <2>4. v = batch.phys * (v \div batch.phys) + (v % batch.phys)
    BY <1>1, DivMod
  <2>5. t = batch.phys * (t \div batch.phys) + (t % batch.phys)
    BY <1>1, DivMod
  <2>6. QED
    BY <1>4, <2>3, <2>4, <2>5
<1>5. ASSUME NEW st \in kept
      PROVE  st = <<s, t>>
  <2>1. /\ st = <<st[1], st[2]>> /\ st[1] \in Seqs /\ st[2] \in Nat /\ st[2] < SeqLen(st[1])
        /\ batch.seqs[st[1]].row[st[2] \div batch.phys + 1] = block /\ st[2] % batch.phys = i
    BY <1>1
  <2>2. QED
    BY <1>4, <2>1
<1>6. Slot(block, i) = IF kept = {} THEN Garbage ELSE CHOOSE st \in kept : TRUE
  BY DEF Slot
<1> HIDE DEF kept
<1>7. QED
  BY <1>3, <1>5, <1>6 DEF block

-----------------------------------------------------------------------------
(* Tiles.                                                                  *)

LEMMA SeenFacts ==
  ASSUME batch \in Batches, NEW s \in Seqs
  PROVE  /\ Seen(s, 0) = {}
         /\ Seen(s, NumTiles(s)) = 0 .. NumTiles(s) * TileSize - 1
         /\ Seen(s, Through(s)) = 0 .. NumTiles(s) * TileSize - 1
         /\ \A j \in 0 .. NumTiles(s) - 1 :
              Seen(s, j + 1) = Seen(s, j) \cup (j * TileSize .. j * TileSize + TileSize - 1)
<1> DEFINE T == TileSize
           all == 0 .. NumTiles(s) * T - 1
<1>1. T \in Nat \ {0} /\ NumTiles(s) \in Nat
  BY TileSizeType, NumTilesFacts
<1>2. ASSUME NEW t \in all
      PROVE  t \in Nat /\ t \div T \in Nat /\ t \div T < NumTiles(s)
  <2>1. t \in Nat /\ t < NumTiles(s) * T
    BY <1>1
  <2>2. t \div T < NumTiles(s)
    BY <1>1, <2>1, QuotientBelow
  <2>3. QED
    BY <1>1, <2>1, <2>2, DivMod
<1>3. /\ Seen(s, 0) = {}
      /\ Seen(s, NumTiles(s)) = all
      /\ Seen(s, Through(s)) = all
  BY <1>1, <1>2 DEF Seen, Through
<1>4. ASSUME NEW j \in 0 .. NumTiles(s) - 1
      PROVE  Seen(s, j + 1) = Seen(s, j) \cup (j * T .. j * T + T - 1)
  <2> DEFINE tokens == j * T .. j * T + T - 1
  <2>1. j \in Nat /\ j * T \in Nat /\ j * T + T <= NumTiles(s) * T
    <3>1. j \in Nat /\ j + 1 <= NumTiles(s) /\ j + 1 \in Nat
      BY <1>1
    <3>2. (j + 1) * T <= NumTiles(s) * T /\ (j + 1) * T = j * T + T
      BY <1>1, <3>1
    <3>3. QED
      BY <1>1, <3>1, <3>2
  <2>2. tokens \subseteq all
    BY <1>1, <2>1
  <2>3. ASSUME NEW t \in all
        PROVE  t \div T < j + 1 <=> t \div T < j \/ t \in tokens
    <3>1. t \in Nat /\ t \div T \in Nat
      BY <1>2
    <3>2. t \in tokens <=> t \div T = j
      BY <1>1, <2>1, <3>1, TileNumber
    <3>3. QED
      BY <2>1, <3>1, <3>2
  <2> HIDE DEF tokens
  <2>4. Seen(s, j + 1) = Seen(s, j) \cup tokens
    BY <2>2, <2>3 DEF Seen
  <2>5. QED
    BY <2>4 DEF tokens
<1>5. QED
  BY <1>3, <1>4

\* Every score a program compares is an integer, and either that of nothing or so far
\* above it that nothing has no weight.
LEMMA ComparedFacts ==
  ASSUME batch \in Batches, NEW s \in Seqs, NEW j, NEW x \in Compared(s, j)
  PROVE  /\ x \in Int /\ NegInf <= x
         /\ x = NegInf \/ NegInf - x <= Underflow
         /\ NumTiles(s) > 0 => x <= -NegInf
<1>1. NegInf \in Int /\ Underflow \in Int /\ Masked \in Int /\ NegInf - Masked <= Underflow
  BY PagedDecodeAssumption
<1>2. CASE x = IF batch.sink = NoSink THEN NegInf ELSE batch.sink
  <2>1. CASE batch.sink = NoSink
    <3>1. NumTiles(s) > 0 => NegInf <= Score(s, 0) /\ Score(s, 0) <= -NegInf /\ Score(s, 0) \in Int
      BY ScoreFacts
    <3>2. QED
      BY <1>1, <1>2, <2>1, <3>1
  <2>2. CASE batch.sink # NoSink
    <3>1. x \in Int /\ NegInf < x /\ x < -NegInf
      BY <1>2, <2>2, SinkFacts
    <3>2. NegInf - x <= Underflow
      BY <1>2, <2>2, PagedDecodeAssumption DEF ScoresFinite
    <3>3. QED
      BY <1>1, <3>1, <3>2
  <2>3. QED
    BY <2>1, <2>2
<1>3. ASSUME NEW t \in Seen(s, j), x = Score(s, t)
      PROVE  /\ x \in Int /\ NegInf <= x /\ x <= -NegInf
             /\ x = NegInf \/ NegInf - x <= Underflow
  <2>1. t \in 0 .. NumTiles(s) * TileSize - 1
    BY DEF Seen
  <2>2. NumTiles(s) \in Nat /\ TileSize \in Nat \ {0}
    BY NumTilesFacts, TileSizeType
  <2>3. t \in Nat /\ NumTiles(s) > 0
    BY <2>1, <2>2
  <2>4. x \in Int /\ NegInf <= x /\ x <= -NegInf
    BY <1>3, <2>3, ScoreFacts
  <2>5. CASE t >= SeqLen(s)
    BY <1>1, <1>3, <2>4, <2>5 DEF Score
  <2>6. CASE t < SeqLen(s)
    <3>1. t \in DOMAIN batch.score /\ batch.score[t] \in Int
      <4>1. SeqLen(s) \in Nat /\ SeqLen(s) <= batch.maxSeqLen
        BY SeqFacts
      <4>2. batch.score \in [0 .. batch.maxSeqLen - 1 -> Int] /\ batch.maxSeqLen \in Nat
        BY BatchFacts
      <4>3. t \in 0 .. batch.maxSeqLen - 1
        BY <2>3, <2>6, <4>1, <4>2
      <4>4. QED
        BY <4>2, <4>3
    <3>2. ScoresFinite(batch)
      BY PagedDecodeAssumption
    <3>3. Masked - batch.score[t] <= Underflow
      BY <3>1, <3>2 DEF ScoresFinite
    <3>4. NegInf - batch.score[t] <= Underflow
      BY <1>1, <3>1, <3>3, PagedDecodeAssumption
    <3>5. x \in {Masked, batch.score[t]}
      <4>1. SeqLen(s) \in Nat
        BY SeqFacts
      <4>2. QED
        BY <1>3, <2>3, <2>6, <4>1 DEF Score
    <3>6. QED
      BY <1>1, <2>4, <3>4, <3>5
  <2>7. SeqLen(s) \in Nat
    BY SeqFacts
  <2>8. QED
    BY <2>3, <2>5, <2>6, <2>7
<1>4. QED
  BY <1>2, <1>3 DEF Compared

-----------------------------------------------------------------------------
(* The running softmax.                                                    *)

LEMMA SeenToken ==
  ASSUME batch \in Batches, NEW s \in Seqs, NEW j, NEW t \in Seen(s, j)
  PROVE  /\ t \in Nat /\ t < NumTiles(s) * TileSize /\ NumTiles(s) > 0
         /\ Score(s, t) \in Int /\ NegInf <= Score(s, t)
         /\ Loaded(s, t) => NegInf < Score(s, t)
<1>1. t \in 0 .. NumTiles(s) * TileSize - 1
  BY DEF Seen
<1>2. NumTiles(s) \in Nat /\ TileSize \in Nat \ {0}
  BY NumTilesFacts, TileSizeType
<1>3. t \in Nat /\ t < NumTiles(s) * TileSize /\ NumTiles(s) > 0
  BY <1>1, <1>2
<1>4. QED
  BY <1>3, ScoreFacts DEF Loaded

LEMMA SourcesAreTokens ==
  ASSUME NEW s \in Nat, NEW t \in Nat
  PROVE  <<s, t>> # Garbage /\ SinkSource # Garbage
BY PagedDecodeAssumption DEF SinkSource

LEMMA RescaledUnion ==
  ASSUME NEW A, NEW B, NEW old, NEW new
  PROVE  Rescaled(A \cup B, old, new) = Rescaled(A, old, new) \cup Rescaled(B, old, new)
BY DEF Rescaled

\* A sum below one maximum becomes the sum below a larger one: what vanishes now, and
\* what had vanished before, is what the larger maximum leaves no weight.
LEMMA SummedRescaled ==
  ASSUME batch \in Batches, NEW s \in Seqs, NEW j, NEW old \in Int, NEW m \in Int,
         NegInf <= old, old <= m, \A t \in Seen(s, j) : Score(s, t) <= old
  PROVE  Rescaled(Summed(s, j, old), old, m) = Summed(s, j, m)
<1>1. NegInf \in Int /\ Underflow \in Int /\ s \in Nat
  BY PagedDecodeAssumption, SeqFacts
<1>2. ASSUME NEW t \in Seen(s, j), Loaded(s, t)
      PROVE  /\ Score(s, t) \in Int /\ old # NegInf /\ m # NegInf
             /\ t \in Nat /\ <<s, t>> # Garbage
             /\ Score(s, t) - old + old - m = Score(s, t) - m
             /\ Score(s, t) - m > Underflow => Score(s, t) - old > Underflow
  <2>1. Score(s, t) \in Int /\ NegInf < Score(s, t) /\ t \in Nat /\ Score(s, t) <= old
    BY <1>2, SeenToken
  <2>2. <<s, t>> # Garbage
    BY <1>1, <2>1, SourcesAreTokens
  <2>3. QED
    BY <1>1, <2>1, <2>2
<1>3. ASSUME NEW y \in Rescaled(Summed(s, j, old), old, m)
      PROVE  y \in Summed(s, j, m)
  <2>1. PICK x \in Summed(s, j, old) :
          \/ /\ y = Term(x.of, x.e + old - m, x.tile)
             /\ x.e + old - m > Underflow
          \/ x.of = Garbage
    BY <1>3 DEF Rescaled
  <2>2. PICK t \in Seen(s, j) :
          Loaded(s, t) /\ x = Term(<<s, t>>, Score(s, t) - old, t \div TileSize)
    BY DEF Summed
  <2>3. x.of = <<s, t>> /\ x.e = Score(s, t) - old /\ x.tile = t \div TileSize
    BY <2>2 DEF Term
  <2>4. /\ y = Term(<<s, t>>, Score(s, t) - m, t \div TileSize)
        /\ Score(s, t) - m > Underflow /\ m # NegInf
    BY <1>2, <2>1, <2>2, <2>3
  <2>5. QED
    BY <2>2, <2>4 DEF Summed, Counts
<1>4. ASSUME NEW y \in Summed(s, j, m)
      PROVE  y \in Rescaled(Summed(s, j, old), old, m)
  <2>1. PICK t \in Seen(s, j) :
          /\ Loaded(s, t) /\ Counts(Score(s, t), m)
          /\ y = Term(<<s, t>>, Score(s, t) - m, t \div TileSize)
    BY DEF Summed
  <2> DEFINE x == Term(<<s, t>>, Score(s, t) - old, t \div TileSize)
  <2>2. x \in Summed(s, j, old)
    BY <1>2, <2>1 DEF Summed, Counts
  <2>3. x.of = <<s, t>> /\ x.e = Score(s, t) - old /\ x.tile = t \div TileSize
    BY DEF Term
  <2>4. x.of # Garbage /\ old # NegInf /\ x.e + old - m = Score(s, t) - m /\ x.e + old - m > Underflow
    BY <1>2, <2>1, <2>3 DEF Counts
  <2>5. y = Term(x.of, x.e + old - m, x.tile)
    BY <2>1, <2>3, <2>4
  <2> HIDE DEF x
  <2>6. QED
    BY <2>2, <2>4, <2>5 DEF Rescaled
<1>5. QED
  BY <1>3, <1>4

LEMMA SinkRescaled ==
  ASSUME batch \in Batches, NEW old \in Int, NEW m \in Int, old <= m,
         batch.sink # NoSink => batch.sink <= old
  PROVE  Rescaled(SinkTerms(old), old, m) = SinkTerms(m)
<1>1. NegInf \in Int /\ Underflow \in Int /\ SinkSource # Garbage
  BY PagedDecodeAssumption, SourcesAreTokens
<1>2. CASE batch.sink = NoSink
  BY <1>2 DEF SinkTerms, Rescaled
<1>3. CASE batch.sink # NoSink
  <2> DEFINE k == batch.sink
  <2>1. k \in Int /\ NegInf < k /\ k <= old
    BY <1>3, SinkFacts
  <2>2. old # NegInf /\ k - old + old - m = k - m /\ (k - m > Underflow => k - old > Underflow)
    BY <1>1, <2>1
  <2>3. CASE k - old > Underflow
    <3> DEFINE x == Term(SinkSource, k - old, NotBegun)
    <3>1. SinkTerms(old) = {x}
      BY <1>3, <2>3 DEF SinkTerms
    <3>2. x.of = SinkSource /\ x.e = k - old /\ x.tile = NotBegun
      BY DEF Term
    <3> HIDE DEF x
    <3>3. CASE k - m > Underflow
      <4>1. Rescaled({x}, old, m) = {Term(SinkSource, k - m, NotBegun)}
        BY <1>1, <2>2, <3>2, <3>3 DEF Rescaled
      <4>2. QED
        BY <1>3, <3>1, <3>3, <4>1 DEF SinkTerms
    <3>4. CASE ~ (k - m > Underflow)
      <4>1. Rescaled({x}, old, m) = {}
        BY <1>1, <2>2, <3>2, <3>4 DEF Rescaled
      <4>2. QED
        BY <1>3, <3>1, <3>4, <4>1 DEF SinkTerms
    <3>5. QED
      BY <3>3, <3>4
  <2>4. CASE ~ (k - old > Underflow)
    <3>1. SinkTerms(old) = {} /\ SinkTerms(m) = {}
      BY <1>3, <2>2, <2>4 DEF SinkTerms
    <3>2. QED
      BY <3>1 DEF Rescaled
  <2>5. QED
    BY <2>3, <2>4
<1>4. QED
  BY <1>2, <1>3

\* The tokens of tile j.
Tokens(j) == j * TileSize .. j * TileSize + TileSize - 1

LEMMA TileTokens ==
  ASSUME batch \in Batches, NEW s \in Seqs, NEW j \in 0 .. NumTiles(s) - 1
  PROVE  /\ Seen(s, j + 1) = Seen(s, j) \cup Tokens(j)
         /\ \A t \in Tokens(j) : t \in Nat /\ t \div TileSize = j
         /\ j * TileSize \in Tokens(j)
<1>1. TileSize \in Nat \ {0} /\ j \in Nat
  BY TileSizeType, NumTilesFacts
<1>2. j * TileSize \in Nat
  BY <1>1
<1>3. ASSUME NEW t \in Tokens(j)
      PROVE  t \in Nat /\ t \div TileSize = j
  <2>1. t \in Nat
    BY <1>1, <1>2 DEF Tokens
  <2>2. QED
    BY <1>1, <2>1, TileNumber DEF Tokens
<1>4. j * TileSize \in Tokens(j)
  BY <1>1, <1>2 DEF Tokens
<1>5. Seen(s, j + 1) = Seen(s, j) \cup Tokens(j)
  BY SeenFacts DEF Tokens
<1>6. QED
  BY <1>3, <1>4, <1>5

LEMMA ComparedNext ==
  ASSUME batch \in Batches, NEW s \in Seqs, NEW j \in 0 .. NumTiles(s) - 1
  PROVE  Compared(s, j + 1) = Compared(s, j) \cup {Score(s, t) : t \in Tokens(j)}
<1>1. Seen(s, j + 1) = Seen(s, j) \cup Tokens(j)
  BY TileTokens
<1>2. QED
  BY <1>1 DEF Compared

\* The maximum over the tile is the maximum of all that has been compared.
LEMMA NextTop ==
  ASSUME batch \in Batches, NEW s \in Seqs, NEW j \in 0 .. NumTiles(s) - 1,
         NEW old \in Compared(s, j), \A x \in Compared(s, j) : x <= old,
         NEW m, m = Max({old} \cup {Score(s, t) : t \in Tokens(j)})
  PROVE  /\ m \in Compared(s, j + 1) /\ old <= m
         /\ \A x \in Compared(s, j + 1) : x <= m
<1> DEFINE S == {old} \cup {Score(s, t) : t \in Tokens(j)}
<1>1. Compared(s, j + 1) = Compared(s, j) \cup {Score(s, t) : t \in Tokens(j)}
  BY ComparedNext
<1>2. NumTiles(s) \in Nat /\ NumTiles(s) > 0 /\ NegInf \in Int
  BY NumTilesFacts, PagedDecodeAssumption
<1>3. ASSUME NEW x \in Compared(s, j + 1)
      PROVE  x \in Int /\ x <= -NegInf
  BY <1>2, <1>3, ComparedFacts
<1>4. S \subseteq Compared(s, j + 1)
  BY <1>1
<1>5. S \in SUBSET Int /\ S # {} /\ \A x \in S : x <= -NegInf
  BY <1>3, <1>4
<1> HIDE DEF S
<1>6. Max(S) \in S /\ \A x \in S : x <= Max(S)
  <2>1. -NegInf \in Int
    BY <1>2
  <2>2. QED
    BY <1>5, <2>1, MaxFacts
<1>7. m = Max(S)
  BY DEF S
<1>8. m \in Compared(s, j + 1)
  BY <1>4, <1>6, <1>7
<1>9. old <= m
  BY <1>6, <1>7 DEF S
<1>10. ASSUME NEW x \in Compared(s, j + 1)
       PROVE  x <= m
  <2>1. CASE x \in Compared(s, j)
    <3>1. x \in Int /\ m \in Int /\ old \in Int
      BY <1>1, <1>3, <1>8
    <3>2. QED
      BY <1>9, <2>1, <3>1
  <2>2. CASE x \in S
    BY <1>6, <1>7, <2>2
  <2>3. QED
    BY <1>1, <2>1, <2>2 DEF S
<1>11. QED
  BY <1>8, <1>9, <1>10

\* What tile j adds below the maximum m.
TileTerms(s, j, m) ==
  {Term(<<s, t>>, Score(s, t) - m, j) : t \in {t \in Tokens(j) : Counts(Score(s, t), m)}}

\* Only tokens of the sequence count: the score behind it has no weight.
LEMMA CountedIsLoaded ==
  ASSUME batch \in Batches, NEW s \in Seqs, NEW m \in Int,
         m = NegInf \/ NegInf - m <= Underflow,
         NEW t \in Nat, Counts(Score(s, t), m)
  PROVE  Loaded(s, t)
<1>1. SeqLen(s) \in Nat /\ NegInf \in Int /\ Underflow \in Int
  BY SeqFacts, PagedDecodeAssumption
<1>2. CASE t >= SeqLen(s)
  <2>1. Score(s, t) = NegInf
    BY <1>2 DEF Score
  <2>2. QED
    BY <1>1, <2>1 DEF Counts
<1>3. QED
  BY <1>1, <1>2 DEF Loaded

LEMMA SummedNext ==
  ASSUME batch \in Batches, NEW s \in Seqs, NEW j \in 0 .. NumTiles(s) - 1, NEW m \in Int,
         m = NegInf \/ NegInf - m <= Underflow
  PROVE  Summed(s, j + 1, m) = Summed(s, j, m) \cup TileTerms(s, j, m)
<1>1. /\ Seen(s, j + 1) = Seen(s, j) \cup Tokens(j)
      /\ \A t \in Tokens(j) : t \in Nat /\ t \div TileSize = j
  BY TileTokens
<1>2. \A t \in Tokens(j) : Counts(Score(s, t), m) => Loaded(s, t)
  BY <1>1, CountedIsLoaded
<1>3. {Term(<<s, t>>, Score(s, t) - m, t \div TileSize) :
         t \in {t \in Tokens(j) : Loaded(s, t) /\ Counts(Score(s, t), m)}} = TileTerms(s, j, m)
  BY <1>1, <1>2 DEF TileTerms
<1>4. Summed(s, j + 1, m) =
        Summed(s, j, m) \cup
        {Term(<<s, t>>, Score(s, t) - m, t \div TileSize) :
           t \in {t \in Tokens(j) : Loaded(s, t) /\ Counts(Score(s, t), m)}}
  BY <1>1 DEF Summed
<1>5. QED
  BY <1>3, <1>4

-----------------------------------------------------------------------------
(* Rows and heads.                                                         *)

\* Everything that is read off the batch stays.
LEMMA SameBatch ==
  ASSUME batch' = batch
  PROVE  /\ Seqs' = Seqs /\ Programs' = Programs /\ Rows' = Rows /\ Heads' = Heads
         /\ UseCustom' = UseCustom
         /\ \A s : /\ QueryLen(s)' = QueryLen(s) /\ RowsOf(s)' = RowsOf(s)
                   /\ Filtered(s)' = Filtered(s) /\ NumTiles(s)' = NumTiles(s)
                   /\ Through(s)' = Through(s)
         /\ \A s, j : Compared(s, j)' = Compared(s, j)
         /\ \A s, j, m : Summed(s, j, m)' = Summed(s, j, m)
         /\ \A m : SinkTerms(m)' = SinkTerms(m)
<1>1. Seqs' = Seqs /\ Programs' = Programs /\ Rows' = Rows /\ Heads' = Heads
  BY DEF Seqs, Programs, Rows, Heads, Start
<1>2. UseCustom' = UseCustom /\ TileSize' = TileSize
  BY DEF UseCustom, TileSize, IsPowerOfTwo
<1>3. \A s : SeqLen(s)' = SeqLen(s) /\ QueryLen(s)' = QueryLen(s) /\ RowsOf(s)' = RowsOf(s)
  BY DEF SeqLen, QueryLen, RowsOf, Start
<1>4. \A s : Filtered(s)' = Filtered(s) /\ NumTiles(s)' = NumTiles(s)
  BY <1>2, <1>3 DEF Filtered, NumTiles
<1>5. \A s : Through(s)' = Through(s)
  BY <1>4 DEF Through
<1>6. \A s, t : Score(s, t)' = Score(s, t) /\ Loaded(s, t)' = Loaded(s, t)
  BY <1>3 DEF Score, Loaded
<1>7. \A s, j : Seen(s, j)' = Seen(s, j)
  BY <1>2, <1>4 DEF Seen
<1>8. \A s, j : Compared(s, j)' = Compared(s, j)
  BY <1>6, <1>7 DEF Compared
<1>9. \A s, j, m : Summed(s, j, m)' = Summed(s, j, m)
  BY <1>2, <1>6, <1>7 DEF Summed, Counts
<1>10. \A m : SinkTerms(m)' = SinkTerms(m)
  BY DEF SinkTerms
<1>11. QED
  BY <1>1, <1>2, <1>3, <1>4, <1>5, <1>8, <1>9, <1>10

LEMMA ProgramFacts ==
  ASSUME NEW p \in Programs
  PROVE  p = <<p[1], p[2]>> /\ p[1] \in Seqs /\ p[2] \in 0 .. batch.kvHeads - 1
BY DEF Programs

LEMMA StartsInOrder ==
  ASSUME batch \in Batches, NEW i \in 1 .. Len(batch.seqs) + 1,
         NEW j \in 1 .. Len(batch.seqs) + 1, i <= j
  PROVE  Start(i) \in Nat /\ Start(j) \in Nat /\ Start(i) <= Start(j)
<1>1. batch.start \in [1 .. Len(batch.seqs) + 1 -> Nat]
  BY BatchFacts
<1>2. RowsInOrder(batch)
  BY PagedDecodeAssumption
<1>3. Start(i) <= Start(j)
  BY <1>1, <1>2 DEF RowsInOrder, Start
<1>4. QED
  BY <1>1, <1>3 DEF Start

LEMMA RowFacts ==
  ASSUME batch \in Batches, NEW s \in Seqs, NEW r \in RowsOf(s)
  PROVE  /\ r \in Rows /\ r \in Nat /\ Start(s) <= r /\ r < Start(s + 1)
         /\ r < Start(Len(batch.seqs) + 1) /\ QueryLen(s) >= 1
<1>1. Start(s) \in Nat /\ Start(s + 1) \in Nat /\ Start(s) <= Start(s + 1)
  BY StartFacts
<1>2. Start(s) <= r /\ r < Start(s + 1) /\ r \in Nat /\ QueryLen(s) >= 1
  BY <1>1 DEF RowsOf, QueryLen
<1>3. Len(batch.seqs) \in Nat \ {0} /\ s \in 1 .. Len(batch.seqs)
  BY BatchFacts
<1>4. s + 1 \in 1 .. Len(batch.seqs) + 1 /\ Len(batch.seqs) + 1 \in 1 .. Len(batch.seqs) + 1
      /\ s + 1 <= Len(batch.seqs) + 1
  BY <1>3
<1>5. Start(s + 1) <= Start(Len(batch.seqs) + 1) /\ Start(Len(batch.seqs) + 1) \in Nat
  BY <1>4, StartsInOrder
<1>6. r < Start(Len(batch.seqs) + 1)
  BY <1>1, <1>2, <1>5
<1>7. QED
  BY <1>2, <1>5, <1>6 DEF Rows

\* A row belongs to one sequence.
LEMMA RowsApart ==
  ASSUME batch \in Batches, NEW s \in Seqs, NEW u \in Seqs, NEW r \in RowsOf(s), r \in RowsOf(u)
  PROVE  s = u
<1>1. Len(batch.seqs) \in Nat \ {0} /\ s \in 1 .. Len(batch.seqs) /\ u \in 1 .. Len(batch.seqs)
  BY BatchFacts
<1>2. r \in Nat /\ Start(s) <= r /\ r < Start(s + 1)
  BY RowFacts
<1>3. Start(u) <= r /\ r < Start(u + 1)
  BY RowFacts
<1>4. ASSUME s < u
      PROVE  FALSE
  <2>1. s + 1 \in 1 .. Len(batch.seqs) + 1 /\ u \in 1 .. Len(batch.seqs) + 1 /\ s + 1 <= u
    BY <1>1, <1>4
  <2>2. Start(s + 1) \in Nat /\ Start(u) \in Nat /\ Start(s + 1) <= Start(u)
    BY <2>1, StartsInOrder
  <2>3. QED
    BY <1>2, <1>3, <2>2
<1>5. ASSUME u < s
      PROVE  FALSE
  <2>1. u + 1 \in 1 .. Len(batch.seqs) + 1 /\ s \in 1 .. Len(batch.seqs) + 1 /\ u + 1 <= s
    BY <1>1, <1>5
  <2>2. Start(u + 1) \in Nat /\ Start(s) \in Nat /\ Start(u + 1) <= Start(s)
    BY <2>1, StartsInOrder
  <2>3. QED
    BY <1>2, <1>3, <2>2
<1>6. QED
  BY <1>1, <1>4, <1>5

\* The row a decode program stores to is that of its own sequence, or padding: behind
\* a sequence without new tokens there are only such, so it starts behind all rows.
LEMMA StoredRow ==
  ASSUME batch \in Batches, NEW s \in Seqs, NEW u \in Seqs, ~ Filtered(u), Start(u) \in RowsOf(s)
  PROVE  s = u
<1>1. Start(u) \in Nat /\ Start(u + 1) \in Nat /\ QueryLen(u) \in Nat
  BY StartFacts
<1>2. QueryLen(u) = 0 \/ QueryLen(u) = 1
  BY <1>1 DEF Filtered
<1>3. CASE QueryLen(u) = 1
  <2>1. Start(u) \in RowsOf(u)
    BY <1>1, <1>3 DEF RowsOf
  <2>2. QED
    BY <2>1, RowsApart
<1>4. CASE QueryLen(u) = 0
  <2>1. Start(u + 1) = Start(u)
    BY <1>1, <1>4 DEF QueryLen
  <2>2. RowsInOrder(batch)
    BY PagedDecodeAssumption
  <2>3. Start(u) = Start(Len(batch.seqs) + 1)
    BY <2>1, <2>2 DEF RowsInOrder, Start, Seqs
  <2>4. Start(u) < Start(Len(batch.seqs) + 1)
    BY RowFacts
  <2>5. QED
    BY <1>1, <2>3, <2>4
<1>5. QED
  BY <1>2, <1>3, <1>4

\* Each head is that of one program.
LEMMA HeadFacts ==
  ASSUME batch \in Batches, NEW h \in Heads
  PROVE  /\ h \in Nat /\ h \div batch.perKv \in 0 .. batch.kvHeads - 1
         /\ \A s \in Seqs : <<s, h \div batch.perKv>> \in Programs
         /\ \A kv \in 0 .. batch.kvHeads - 1 : HeadMask(kv, h) <=> h \div batch.perKv = kv
<1>1. /\ batch.kvHeads \in Nat \ {0} /\ batch.perKv \in Nat \ {0}
      /\ batch.padded \in Nat /\ batch.perKv <= batch.padded
  BY BatchFacts
<1>2. batch.kvHeads * batch.perKv \in Nat
  BY <1>1
<1>3. h \in Nat /\ h < batch.kvHeads * batch.perKv
  BY <1>2 DEF Heads
<1>4. h \div batch.perKv \in Nat /\ h \div batch.perKv < batch.kvHeads
  BY <1>1, <1>3, DivMod, QuotientBelow
<1>5. h \div batch.perKv \in 0 .. batch.kvHeads - 1
  BY <1>1, <1>4
<1>6. ASSUME NEW kv \in 0 .. batch.kvHeads - 1
      PROVE  HeadMask(kv, h) <=> h \div batch.perKv = kv
  <2>1. kv \in Nat /\ kv * batch.perKv \in Nat /\ (kv + 1) * batch.perKv = kv * batch.perKv + batch.perKv
    BY <1>1
  <2>2. h \in kv * batch.perKv .. kv * batch.perKv + batch.perKv - 1 <=> h \div batch.perKv = kv
    BY <1>1, <1>3, <2>1, TileNumber
  <2>3. HeadMask(kv, h) <=> h \in kv * batch.perKv .. kv * batch.perKv + batch.perKv - 1
    BY <1>1, <1>3, <2>1 DEF HeadMask
  <2>4. QED
    BY <2>2, <2>3
<1>7. QED
  BY <1>3, <1>5, <1>6 DEF Programs

LEMMA MaxQueryLenFacts ==
  ASSUME batch \in Batches, NEW s \in Seqs
  PROVE  QueryLen(s) <= MaxQueryLen /\ MaxQueryLen \in Nat
<1> DEFINE S == {QueryLen(u) : u \in Seqs}
<1>1. batch.maxSeqLen \in Nat
  BY BatchFacts
<1>2. ASSUME NEW u \in Seqs
      PROVE  QueryLen(u) \in Nat /\ QueryLen(u) <= batch.maxSeqLen
  <2>1. QueryLen(u) \in Nat /\ QueryLen(u) <= SeqLen(u)
    BY StartFacts
  <2>2. SeqLen(u) \in Nat /\ SeqLen(u) <= batch.maxSeqLen
    BY SeqFacts
  <2>3. QED
    BY <1>1, <2>1, <2>2
<1>3. S \in SUBSET Int /\ S \subseteq Nat /\ QueryLen(s) \in S /\ \A x \in S : x <= batch.maxSeqLen
  BY <1>2
<1> HIDE DEF S
<1>4. Max(S) \in S /\ \A x \in S : x <= Max(S)
  <2>1. S \in SUBSET Int /\ S # {}
    BY <1>3
  <2>2. batch.maxSeqLen \in Int /\ \A x \in S : x <= batch.maxSeqLen
    BY <1>1, <1>3
  <2>3. QED
    BY <2>1, <2>2, MaxFacts
<1>5. Max(S) = MaxQueryLen
  BY DEF S, MaxQueryLen
<1>6. QED
  BY <1>3, <1>4, <1>5

-----------------------------------------------------------------------------
(* The wrapper keeps the invariant.                                        *)

LEMMA InitInvariant == Init => IInv
<1> SUFFICES ASSUME Init PROVE IInv
  OBVIOUS
<1>1. batch \in Batches
  BY DEF Init
<1>2. ASSUME NEW p \in Programs
      PROVE  at[p] = NotBegun /\ acc[p] = {} /\ denom[p] = {} /\ top[p] = NegInf
  BY DEF Init
<1>3. Progress
  <2>1. NotBegun \in Int
    BY DEF NotBegun
  <2>2. QED
    BY <1>1, <1>2, <2>1 DEF Init, Progress
<1>4. RunningSoftmax
  BY <1>2 DEF RunningSoftmax
<1>5. ASSUME NEW s \in Seqs, NEW r \in RowsOf(s), NEW h \in Heads
      PROVE  output[r][h] = Contents(s, h)
  <2>1. r \in Rows
    BY <1>1, RowFacts
  <2>2. output[r][h] = Unwritten /\ pc = "entered"
    BY <2>1 DEF Init
  <2>3. <<s, h \div batch.perKv>> \in Programs
    BY <1>1, HeadFacts
  <2>4. NumTiles(s) \in Nat
    BY <1>1, NumTilesFacts
  <2>5. at[<<s, h \div batch.perKv>>] # Through(s)
    BY <1>2, <2>3, <2>4 DEF Through, NotBegun
  <2>6. QED
    BY <2>2, <2>5 DEF Contents
<1>6. OwnCells
  BY <1>5 DEF OwnCells, Init
<1>7. QED
  BY <1>3, <1>4, <1>6 DEF IInv

LEMMA SoftmaxStays ==
  ASSUME RunningSoftmax, UNCHANGED <<batch, at, top, denom, acc>>
  PROVE  RunningSoftmax'
BY SameBatch DEF RunningSoftmax

\* The wrapper moves on without writing.
LEMMA CellsStay ==
  ASSUME OwnCells, UNCHANGED <<batch, at, top, denom, acc, output>>,
         (pc = "entered" <=> pc' = "entered") \/ \A s \in Seqs : ~ (QueryLen(s) > 1),
         UseCustom => pc # "returned" /\ pc' # "returned"
  PROVE  OwnCells'
<1>1. ASSUME NEW s \in Seqs, NEW h
      PROVE  Contents(s, h)' = Contents(s, h)
  BY SameBatch DEF Contents
<1>2. QED
  BY <1>1, SameBatch DEF OwnCells

\* With nothing but single tokens there is no prefill.
LEMMA NotPrefilled ==
  ASSUME batch \in Batches, Decoding
  PROVE  pc \in {"entered", "prefilled"} /\ (pc = "prefilled" \/ \A s \in Seqs : ~ (QueryLen(s) > 1))
<1>1. ASSUME MaxQueryLen <= 1, NEW s \in Seqs
      PROVE  ~ (QueryLen(s) > 1)
  <2>1. QueryLen(s) <= MaxQueryLen /\ MaxQueryLen \in Nat
    BY MaxQueryLenFacts
  <2>2. QueryLen(s) \in Nat
    BY StartFacts
  <2>3. QED
    BY <1>1, <2>1, <2>2
<1>2. QED
  BY <1>1 DEF Decoding

LEMMA ChoiceInvariant ==
  ASSUME IInv, CacheTypeRaises \/ CustomRaises \/ TritonDecode \/ Return
  PROVE  IInv'
<1>1. /\ UNCHANGED <<batch, at, top, denom, acc, output>>
      /\ pc' \in {"raised", "decoding", "returned"} /\ batch \in Batches
  BY DEF IInv, Progress, CacheTypeRaises, CustomRaises, TritonDecode, Return
<1>2. RunningSoftmax'
  BY <1>1, SoftmaxStays DEF IInv
<1>3. CASE Return
  <2>1. pc = "decoding" /\ pc' = "returned" /\ ~ UseCustom /\ \A p \in Programs : at[p] = Through(p[1])
    BY <1>3 DEF Return, IInv, Progress
  <2>2. Progress'
    BY <1>1, <2>1, SameBatch DEF IInv, Progress
  <2>3. OwnCells'
    BY <1>1, <2>1, CellsStay DEF IInv
  <2>4. QED
    BY <1>2, <2>2, <2>3 DEF IInv
<1>4. CASE CacheTypeRaises \/ CustomRaises \/ TritonDecode
  <2>1. Decoding /\ (pc' = "raised" \/ (pc' = "decoding" /\ ~ UseCustom))
    BY <1>4 DEF CacheTypeRaises, CustomRaises, TritonDecode
  <2>2. pc \in {"entered", "prefilled"} /\ (pc = "prefilled" \/ \A s \in Seqs : ~ (QueryLen(s) > 1))
    BY <1>1, <2>1, NotPrefilled
  <2>3. \A p \in Programs : at[p] = NotBegun
    BY <2>2 DEF IInv, Progress
  <2>4. Progress'
    BY <1>1, <2>1, <2>3, SameBatch DEF IInv, Progress
  <2>5. OwnCells'
    BY <1>1, <2>1, <2>2, CellsStay DEF IInv
  <2>6. QED
    BY <1>2, <2>4, <2>5 DEF IInv
<1>5. QED
  BY <1>3, <1>4

LEMMA PrefillInvariant ==
  ASSUME IInv, Prefill
  PROVE  IInv'
<1>1. /\ UNCHANGED <<batch, at, top, denom, acc>> /\ pc = "entered" /\ pc' = "prefilled"
      /\ batch \in Batches /\ DOMAIN output = Rows
  BY DEF IInv, Progress, OwnCells, Prefill
<1>2. RunningSoftmax'
  BY <1>1, SoftmaxStays DEF IInv
<1>3. \A p \in Programs : at[p] = NotBegun
  BY <1>1 DEF IInv, Progress
<1>4. Progress'
  BY <1>1, <1>3, SameBatch DEF IInv, Progress
<1>5. ASSUME NEW r \in Rows
      PROVE  output'[r] = IF \E s \in Seqs : QueryLen(s) > 1 /\ r \in RowsOf(s)
                          THEN [h \in Heads |-> [by |-> "prefill"]] ELSE output[r]
  BY DEF Prefill
<1>6. DOMAIN output' = Rows /\ \A r \in Rows : DOMAIN output'[r] = Heads
  <2>1. DOMAIN output' = Rows
    BY DEF Prefill
  <2>2. QED
    BY <1>5, <2>1 DEF IInv, OwnCells
<1>7. ASSUME NEW s \in Seqs, NEW r \in RowsOf(s), NEW h \in Heads
      PROVE  output'[r][h] = Contents(s, h)'
  <2>1. r \in Rows
    BY <1>1, RowFacts
  <2>2. CASE QueryLen(s) > 1
    <3>1. output'[r][h] = [by |-> "prefill"]
      BY <1>5, <2>1, <2>2
    <3>2. QED
      BY <1>1, <2>2, <3>1, SameBatch DEF Contents
  <2>3. CASE ~ (QueryLen(s) > 1)
    <3>1. ASSUME NEW u \in Seqs, r \in RowsOf(u)
          PROVE  ~ (QueryLen(u) > 1)
      BY <1>1, <2>3, <3>1, RowsApart
    <3>2. output'[r] = output[r]
      BY <1>5, <2>1, <3>1
    <3>3. Contents(s, h)' = Contents(s, h)
      BY <1>1, <2>3, SameBatch DEF Contents
    <3>4. QED
      BY <3>2, <3>3 DEF IInv, OwnCells
  <2>4. QED
    BY <2>2, <2>3
<1>8. OwnCells'
  BY <1>1, <1>6, <1>7, SameBatch DEF OwnCells
<1>9. QED
  BY <1>2, <1>4, <1>8 DEF IInv

LEMMA CustomInvariant ==
  ASSUME IInv, CustomDecode
  PROVE  IInv'
<1>1. /\ UNCHANGED <<batch, at, top, denom, acc>> /\ pc' = "returned" /\ Decoding
      /\ UseCustom /\ batch.native /\ batch \in Batches
  BY DEF IInv, Progress, CustomDecode, UseCustom
<1>2. RunningSoftmax'
  BY <1>1, SoftmaxStays DEF IInv
<1>3. pc \in {"entered", "prefilled"} /\ (pc = "prefilled" \/ \A s \in Seqs : ~ (QueryLen(s) > 1))
  BY <1>1, NotPrefilled
<1>4. \A p \in Programs : at[p] = NotBegun
  BY <1>3 DEF IInv, Progress
<1>5. Progress'
  BY <1>1, <1>4, SameBatch DEF IInv, Progress
<1>6. ASSUME NEW r \in Rows
      PROVE  output'[r] = IF \E s \in Seqs : QueryLen(s) = 1 /\ r \in RowsOf(s)
                          THEN [h \in Heads |-> [by |-> "custom"]] ELSE output[r]
  BY <1>1 DEF CustomDecode
<1>7. DOMAIN output' = Rows /\ \A r \in Rows : DOMAIN output'[r] = Heads
  <2>1. DOMAIN output' = Rows
    BY DEF CustomDecode
  <2>2. QED
    BY <1>6, <2>1 DEF IInv, OwnCells
<1>8. ASSUME NEW s \in Seqs, NEW r \in RowsOf(s), NEW h \in Heads
      PROVE  output'[r][h] = Contents(s, h)'
  <2>1. r \in Rows /\ QueryLen(s) >= 1 /\ QueryLen(s) \in Nat
    BY <1>1, RowFacts, StartFacts
  <2>2. CASE QueryLen(s) = 1
    <3>1. output'[r][h] = [by |-> "custom"]
      BY <1>6, <2>1, <2>2
    <3>2. ~ (QueryLen(s) > 1)
      BY <2>2
    <3>3. QED
      BY <1>1, <3>1, <3>2, SameBatch DEF Contents
  <2>3. CASE QueryLen(s) > 1
    <3>1. ASSUME NEW u \in Seqs, r \in RowsOf(u)
          PROVE  ~ (QueryLen(u) = 1)
      <4>1. u = s
        BY <1>1, <3>1, RowsApart
      <4>2. QED
        BY <2>3, <4>1
    <3>2. output'[r] = output[r]
      BY <1>6, <2>1, <3>1
    <3>3. Contents(s, h)' = Contents(s, h)
      BY <1>1, <1>3, <2>3, SameBatch DEF Contents
    <3>4. QED
      BY <3>2, <3>3 DEF IInv, OwnCells
  <2>4. QED
    BY <2>1, <2>2, <2>3
<1>9. OwnCells'
  BY <1>1, <1>7, <1>8, SameBatch DEF OwnCells
<1>10. QED
  BY <1>2, <1>5, <1>9 DEF IInv

-----------------------------------------------------------------------------
(* The programs keep the invariant.                                        *)

\* A program that is not through leaves the cells alone.
LEMMA ProgramCells ==
  ASSUME IInv, NEW p \in Programs, NEW k, UNCHANGED <<batch, pc, output>>,
         at[p] # Through(p[1]), k # Through(p[1]) \/ Filtered(p[1]), at' = [at EXCEPT ![p] = k],
         \A q \in Programs : q # p => acc'[q] = acc[q] /\ denom'[q] = denom[q]
  PROVE  OwnCells'
<1>1. batch \in Batches /\ at \in [Programs -> Int]
  BY DEF IInv, Progress
<1>2. ASSUME NEW s \in Seqs, NEW h \in Heads
      PROVE  Contents(s, h)' = Contents(s, h)
  <2> DEFINE q == <<s, h \div batch.perKv>>
  <2>1. q \in Programs /\ q[1] = s
    BY <1>1, HeadFacts
  <2>2. CASE q = p
    <3>1. at[q] # Through(s) /\ (at'[q] # Through(s) \/ QueryLen(s) > 1)
      BY <1>1, <2>1, <2>2 DEF Filtered
    <3>2. QED
      BY <3>1, SameBatch DEF Contents
  <2>3. CASE q # p
    <3>1. at'[q] = at[q] /\ acc'[q] = acc[q] /\ denom'[q] = denom[q]
      BY <1>1, <2>1, <2>3
    <3>2. QED
      BY <3>1, SameBatch DEF Contents
  <2>4. QED
    BY <2>2, <2>3
<1>3. ASSUME NEW s \in Seqs, NEW r \in RowsOf(s), NEW h \in Heads
      PROVE  output'[r][h] = Contents(s, h)'
  BY <1>2 DEF IInv, OwnCells
<1>4. QED
  BY <1>3, SameBatch DEF IInv, OwnCells

\* Where the other programs are is where they were.
LEMMA ProgramProgress ==
  ASSUME IInv, NEW p \in Programs, NEW k \in Int, UNCHANGED <<batch, pc>>, pc = "decoding",
         at' = [at EXCEPT ![p] = k], k \in 0 .. Through(p[1]),
         Filtered(p[1]) => k = Through(p[1]),
         DOMAIN top' = DOMAIN top, DOMAIN denom' = DOMAIN denom, DOMAIN acc' = DOMAIN acc
  PROVE  Progress'
<1>1. /\ batch \in Batches /\ at \in [Programs -> Int] /\ ~ UseCustom
      /\ DOMAIN top = Programs /\ DOMAIN denom = Programs /\ DOMAIN acc = Programs
  BY DEF IInv, Progress
<1>2. at' \in [Programs -> Int] /\ at'[p] = k
  BY <1>1
<1>3. ASSUME NEW q \in Programs
      PROVE  /\ at'[q] \in {NotBegun} \cup 0 .. Through(q[1])
             /\ Filtered(q[1]) => at'[q] \in {NotBegun, Through(q[1])}
  <2>1. CASE q = p
    BY <1>2, <2>1
  <2>2. CASE q # p
    BY <1>1, <2>2 DEF IInv, Progress
  <2>3. QED
    BY <2>1, <2>2
<1>4. QED
  BY <1>1, <1>2, <1>3, SameBatch DEF Progress

LEMMA SkipInvariant ==
  ASSUME IInv, NEW p \in Programs, Skip(p)
  PROVE  IInv'
<1>1. /\ UNCHANGED <<batch, pc, top, denom, acc, output>> /\ pc = "decoding" /\ at[p] = NotBegun
      /\ Filtered(p[1]) /\ at' = [at EXCEPT ![p] = Through(p[1])]
      /\ batch \in Batches /\ at \in [Programs -> Int]
  BY DEF IInv, Progress, Skip
<1>2. NumTiles(p[1]) \in Nat
  BY <1>1, NumTilesFacts, ProgramFacts
<1>3. Through(p[1]) \in Int /\ Through(p[1]) \in 0 .. Through(p[1]) /\ at[p] # Through(p[1])
  BY <1>1, <1>2 DEF Through, NotBegun
<1>4. Progress'
  BY <1>1, <1>3, ProgramProgress
<1>5. OwnCells'
  BY <1>1, <1>3, ProgramCells
<1>6. ASSUME NEW q \in Programs
      PROVE  at'[q] = at[q] \/ (Filtered(q[1]) /\ at[q] = NotBegun)
  BY <1>1
<1>7. ASSUME NEW q \in Programs
      PROVE  IF at'[q] = NotBegun \/ Filtered(q[1])
             THEN acc'[q] = {} /\ denom'[q] = {} /\ top'[q] = NegInf
             ELSE /\ top'[q] \in Compared(q[1], at'[q])
                  /\ \A x \in Compared(q[1], at'[q]) : x <= top'[q]
                  /\ acc'[q] = Summed(q[1], at'[q], top'[q])
                  /\ denom'[q] = Summed(q[1], at'[q], top'[q]) \cup SinkTerms(top'[q])
  <2>1. acc'[q] = acc[q] /\ denom'[q] = denom[q] /\ top'[q] = top[q]
    BY <1>1
  <2>2. QED
    BY <1>6, <2>1 DEF IInv, RunningSoftmax
<1>8. RunningSoftmax'
  <2>1. batch' = batch
    BY <1>1
  <2>2. QED
    BY <1>7, <2>1, SameBatch DEF RunningSoftmax
<1>9. QED
  BY <1>4, <1>5, <1>8 DEF IInv

\* The softmax of one program is enough to look at, if it is the one that moves.
LEMMA ProgramSoftmax ==
  ASSUME IInv, NEW p \in Programs, NEW k, NEW m, NEW a, NEW d, UNCHANGED batch,
         at' = [at EXCEPT ![p] = k], top' = [top EXCEPT ![p] = m],
         denom' = [denom EXCEPT ![p] = d], acc'[p] = a, \A q \in Programs \ {p} : acc'[q] = acc[q],
         k # NotBegun, ~ Filtered(p[1]),
         m \in Compared(p[1], k), \A x \in Compared(p[1], k) : x <= m,
         a = Summed(p[1], k, m), d = Summed(p[1], k, m) \cup SinkTerms(m)
  PROVE  RunningSoftmax'
<1>1. /\ at \in [Programs -> Int] /\ DOMAIN top = Programs
      /\ DOMAIN denom = Programs /\ DOMAIN acc = Programs
  BY DEF IInv, Progress
<1>2. at'[p] = k /\ top'[p] = m /\ acc'[p] = a /\ denom'[p] = d
  BY <1>1
<1>3. ASSUME NEW q \in Programs, q # p
      PROVE  at'[q] = at[q] /\ top'[q] = top[q] /\ acc'[q] = acc[q] /\ denom'[q] = denom[q]
  BY <1>1, <1>3
<1>4. ASSUME NEW q \in Programs
      PROVE  IF at'[q] = NotBegun \/ Filtered(q[1])
             THEN acc'[q] = {} /\ denom'[q] = {} /\ top'[q] = NegInf
             ELSE /\ top'[q] \in Compared(q[1], at'[q])
                  /\ \A x \in Compared(q[1], at'[q]) : x <= top'[q]
                  /\ acc'[q] = Summed(q[1], at'[q], top'[q])
                  /\ denom'[q] = Summed(q[1], at'[q], top'[q]) \cup SinkTerms(top'[q])
  <2>1. CASE q = p
    BY <1>2, <2>1
  <2>2. CASE q # p
    BY <1>3, <2>2 DEF IInv, RunningSoftmax
  <2>3. QED
    BY <2>1, <2>2
<1>5. QED
  BY <1>4, SameBatch DEF RunningSoftmax

LEMMA BeginInvariant ==
  ASSUME IInv, NEW p \in Programs, Begin(p)
  PROVE  IInv'
<1> DEFINE s == p[1]
           m == IF batch.sink = NoSink THEN NegInf ELSE batch.sink
           d == IF batch.sink = NoSink THEN {} ELSE {Term(SinkSource, 0, NotBegun)}
<1>1. /\ UNCHANGED <<batch, pc, acc, output>> /\ pc = "decoding" /\ at[p] = NotBegun
      /\ ~ Filtered(s) /\ at' = [at EXCEPT ![p] = 0]
      /\ top' = [top EXCEPT ![p] = m] /\ denom' = [denom EXCEPT ![p] = d]
      /\ batch \in Batches /\ at \in [Programs -> Int]
      /\ DOMAIN top = Programs /\ DOMAIN denom = Programs /\ DOMAIN acc = Programs
  BY DEF IInv, Progress, Begin
<1>2. s \in Seqs /\ NumTiles(s) \in Nat /\ Seen(s, 0) = {} /\ 0 # NotBegun
  BY <1>1, NumTilesFacts, ProgramFacts, SeenFacts DEF NotBegun
<1>3. 0 \in 0 .. Through(s) /\ 0 # Through(s) /\ at[p] # Through(s)
  BY <1>1, <1>2 DEF Through, NotBegun
<1>4. Progress'
  <2>1. DOMAIN top' = DOMAIN top /\ DOMAIN denom' = DOMAIN denom /\ DOMAIN acc' = DOMAIN acc /\ 0 \in Int
    BY <1>1
  <2>2. QED
    BY <1>1, <1>3, <2>1, ProgramProgress
<1>5. OwnCells'
  BY <1>1, <1>3, ProgramCells
<1>6. acc[p] = {}
  BY <1>1 DEF IInv, RunningSoftmax
<1>7. acc'[p] = {} /\ \A q \in Programs \ {p} : acc'[q] = acc[q]
  BY <1>1, <1>6
<1>8. Compared(s, 0) = {m} /\ Summed(s, 0, m) = {}
  BY <1>2 DEF Compared, Summed
<1>9. m <= m
  BY <1>1, SinkFacts, PagedDecodeAssumption
<1>10. d = {} \cup SinkTerms(m)
  <2>1. CASE batch.sink = NoSink
    BY <2>1 DEF SinkTerms
  <2>2. CASE batch.sink # NoSink
    <3>1. batch.sink \in Int /\ Underflow \in Int /\ Underflow < 0
      BY <1>1, <2>2, SinkFacts, PagedDecodeAssumption
    <3>2. batch.sink - batch.sink = 0 /\ batch.sink - batch.sink > Underflow /\ m = batch.sink
      BY <2>2, <3>1
    <3>3. QED
      BY <2>2, <3>2 DEF SinkTerms
  <2>3. QED
    BY <2>1, <2>2
<1> HIDE DEF m, d, s
<1>11. RunningSoftmax'
  <2>1. /\ m \in Compared(s, 0) /\ \A x \in Compared(s, 0) : x <= m
        /\ {} = Summed(s, 0, m) /\ d = Summed(s, 0, m) \cup SinkTerms(m)
    BY <1>8, <1>9, <1>10
  <2>2. QED
    BY <1>1, <1>2, <1>7, <2>1, ProgramSoftmax DEF s
<1>12. QED
  BY <1>4, <1>5, <1>11 DEF IInv

\* What tile j contributes to the values: each counted token with its own value, for
\* the table leads to it, and nothing that nobody has written.
LEMMA TileValues ==
  ASSUME batch \in Batches, NEW s \in Seqs, NEW j \in 0 .. NumTiles(s) - 1, NEW m \in Int,
         m = NegInf \/ NegInf - m <= Underflow,
         NEW kv, kv = [t \in Tokens(j) |-> Slot(TableEntry(s, t \div batch.phys), t % batch.phys)]
  PROVE  /\ {Term(kv[t], Score(s, t) - m, j) :
               t \in {t \in {t \in Tokens(j) : Counts(Score(s, t), m)} : Loaded(s, t)}} = TileTerms(s, j, m)
         /\ {t \in Tokens(j) : Loaded(s, t) /\ kv[t] = Garbage} = {}
<1>1. ASSUME NEW t \in Tokens(j), Loaded(s, t)
      PROVE  kv[t] = <<s, t>> /\ kv[t] # Garbage
  <2>1. t \in Nat /\ t < SeqLen(s) /\ s \in Nat
    BY <1>1, TileTokens, SeqFacts DEF Loaded
  <2>2. Slot(TableEntry(s, t \div batch.phys), t % batch.phys) = <<s, t>>
    BY <2>1, SlotFacts
  <2>3. QED
    BY <2>1, <2>2, SourcesAreTokens
<1>2. ASSUME NEW t \in Tokens(j), Counts(Score(s, t), m)
      PROVE  Loaded(s, t)
  BY <1>2, TileTokens, CountedIsLoaded
<1>3. {t \in {t \in Tokens(j) : Counts(Score(s, t), m)} : Loaded(s, t)}
        = {t \in Tokens(j) : Counts(Score(s, t), m)}
  BY <1>2
<1>4. {Term(kv[t], Score(s, t) - m, j) : t \in {t \in Tokens(j) : Counts(Score(s, t), m)}}
        = TileTerms(s, j, m)
  BY <1>1, <1>2 DEF TileTerms
<1>5. QED
  BY <1>1, <1>3, <1>4

LEMMA NextTileInvariant ==
  ASSUME IInv, NEW p \in Programs, NextTile(p)
  PROVE  IInv'
<1> DEFINE s == p[1]
           j == at[p]
           m == Max({top[p]} \cup {Score(s, t) : t \in Tokens(j)})
           kv == [t \in Tokens(j) |-> Slot(TableEntry(s, t \div batch.phys), t % batch.phys)]
           values == {Term(kv[t], Score(s, t) - m, j) :
                        t \in {t \in {t \in Tokens(j) : Counts(Score(s, t), m)} : Loaded(s, t)}}
           poison == {t \in Tokens(j) : Loaded(s, t) /\ kv[t] = Garbage}
           a == Rescaled(acc[p], top[p], m) \cup values \cup {Term(Garbage, 0, j) : t \in poison}
           d == Rescaled(denom[p], top[p], m) \cup TileTerms(s, j, m)
<1>1. /\ batch \in Batches /\ at \in [Programs -> Int] /\ s \in Seqs
      /\ DOMAIN top = Programs /\ DOMAIN denom = Programs /\ DOMAIN acc = Programs
  BY ProgramFacts DEF IInv, Progress
<1>2. /\ UNCHANGED <<batch, pc, output>> /\ pc = "decoding" /\ j \in 0 .. NumTiles(s) - 1
      /\ at' = [at EXCEPT ![p] = j + 1] /\ top' = [top EXCEPT ![p] = m]
  BY DEF NextTile, Tokens
<1>3. denom' = [denom EXCEPT ![p] = d]
  BY DEF NextTile, NewDenom, Tokens, TileTerms
<1>4. acc' = [acc EXCEPT ![p] = a]
  BY DEF NextTile, Tokens
<1>5. NumTiles(s) \in Nat /\ NumTiles(s) > 0 /\ j \in Nat /\ j + 1 <= NumTiles(s)
  BY <1>1, <1>2, NumTilesFacts
<1>6. /\ at[p] # Through(s) /\ at[p] # NotBegun /\ j + 1 # Through(s) /\ j + 1 # NotBegun
      /\ j + 1 \in 0 .. Through(s) /\ j + 1 \in Int
  BY <1>5 DEF Through, NotBegun
<1>7. ~ Filtered(s)
  BY <1>6 DEF IInv, Progress
<1>8. /\ top[p] \in Compared(s, j) /\ \A x \in Compared(s, j) : x <= top[p]
      /\ acc[p] = Summed(s, j, top[p])
      /\ denom[p] = Summed(s, j, top[p]) \cup SinkTerms(top[p])
  BY <1>6, <1>7 DEF IInv, RunningSoftmax
<1>9. m \in Compared(s, j + 1) /\ top[p] <= m /\ \A x \in Compared(s, j + 1) : x <= m
  <2> HIDE DEF m
  <2>1. m = Max({top[p]} \cup {Score(s, t) : t \in Tokens(j)})
    BY DEF m
  <2> HIDE DEF s, j
  <2>2. QED
    BY <1>1, <1>2, <1>8, <2>1, NextTop
<1>10. top[p] \in Int /\ NegInf <= top[p]
  BY <1>1, <1>8, ComparedFacts
<1>11. m \in Int /\ (m = NegInf \/ NegInf - m <= Underflow)
  BY <1>1, <1>9, ComparedFacts
<1> HIDE DEF m
<1>12. Rescaled(Summed(s, j, top[p]), top[p], m) = Summed(s, j, m)
  <2>1. \A t \in Seen(s, j) : Score(s, t) <= top[p]
    BY <1>8 DEF Compared
  <2>2. QED
    BY <1>1, <1>9, <1>10, <1>11, <2>1, SummedRescaled
<1>13. Rescaled(SinkTerms(top[p]), top[p], m) = SinkTerms(m)
  <2>1. batch.sink # NoSink => batch.sink <= top[p]
    BY <1>8 DEF Compared
  <2>2. QED
    BY <1>1, <1>9, <1>10, <1>11, <2>1, SinkRescaled
<1>14. Summed(s, j + 1, m) = Summed(s, j, m) \cup TileTerms(s, j, m)
  BY <1>1, <1>2, <1>11, SummedNext
<1>15. d = Summed(s, j + 1, m) \cup SinkTerms(m)
  BY <1>8, <1>12, <1>13, <1>14, RescaledUnion
<1>16. values = TileTerms(s, j, m) /\ poison = {}
  <2> DEFINE k == kv
  <2>1. k = [t \in Tokens(j) |-> Slot(TableEntry(s, t \div batch.phys), t % batch.phys)]
    OBVIOUS
  <2> HIDE DEF k
  <2>2. /\ {Term(k[t], Score(s, t) - m, j) :
               t \in {t \in {t \in Tokens(j) : Counts(Score(s, t), m)} : Loaded(s, t)}} = TileTerms(s, j, m)
        /\ {t \in Tokens(j) : Loaded(s, t) /\ k[t] = Garbage} = {}
    BY <1>1, <1>2, <1>11, <2>1, TileValues
  <2>3. QED
    BY <2>2 DEF k
<1> HIDE DEF values, poison, kv
<1>17. a = Summed(s, j + 1, m)
  <2>1. {Term(Garbage, 0, j) : t \in poison} = {}
    BY <1>16
  <2>2. QED
    BY <1>8, <1>12, <1>14, <1>16, <2>1
<1> HIDE DEF a, d, s, j
<1>18. acc'[p] = a /\ \A q \in Programs \ {p} : acc'[q] = acc[q] /\ denom'[q] = denom[q]
  BY <1>1, <1>3, <1>4
<1>19. RunningSoftmax'
  BY <1>1, <1>2, <1>3, <1>6, <1>7, <1>9, <1>15, <1>17, <1>18, ProgramSoftmax DEF s
<1>20. Progress'
  <2>1. DOMAIN top' = DOMAIN top /\ DOMAIN denom' = DOMAIN denom /\ DOMAIN acc' = DOMAIN acc
    BY <1>2, <1>3, <1>4
  <2>2. QED
    BY <1>2, <1>6, <1>7, <2>1, ProgramProgress DEF s
<1>21. OwnCells'
  BY <1>2, <1>6, <1>18, ProgramCells DEF s
<1>22. QED
  BY <1>19, <1>20, <1>21 DEF IInv

LEMMA StoreFacts ==
  ASSUME IInv, NEW p \in Programs, Store(p)
  PROVE  /\ UNCHANGED <<batch, pc, top, denom, acc>> /\ pc = "decoding" /\ ~ UseCustom
         /\ at[p] = NumTiles(p[1]) /\ at' = [at EXCEPT ![p] = Through(p[1])]
         /\ at[p] # Through(p[1]) /\ at[p] # NotBegun /\ ~ Filtered(p[1])
         /\ NumTiles(p[1]) \in Nat
         /\ \A s \in Seqs : \A r \in RowsOf(s) : \A h \in Heads :
              output'[r][h] =
                IF <<s, h \div batch.perKv>> = p
                THEN [by |-> "decode", kv |-> p[2], acc |-> acc[p], denom |-> denom[p]]
                ELSE output[r][h]
         /\ DOMAIN output' = Rows /\ \A r \in Rows : DOMAIN output'[r] = Heads
<1>1. /\ batch \in Batches /\ p[1] \in Seqs /\ p[2] \in 0 .. batch.kvHeads - 1 /\ p = <<p[1], p[2]>>
      /\ DOMAIN output = Rows /\ \A r \in Rows : DOMAIN output[r] = Heads
  BY ProgramFacts DEF IInv, Progress, OwnCells
<1>2. /\ UNCHANGED <<batch, pc, top, denom, acc>> /\ pc = "decoding"
      /\ at[p] = NumTiles(p[1]) /\ at' = [at EXCEPT ![p] = Through(p[1])]
  BY DEF Store
<1>3. NumTiles(p[1]) \in Nat
  BY <1>1, NumTilesFacts
<1>4. at[p] # Through(p[1]) /\ at[p] # NotBegun
  BY <1>2, <1>3 DEF Through, NotBegun
<1>5. ~ UseCustom /\ ~ Filtered(p[1])
  BY <1>2, <1>4 DEF IInv, Progress
<1> DEFINE row == [h \in Heads |-> IF HeadMask(p[2], h)
                                   THEN [by |-> "decode", kv |-> p[2], acc |-> acc[p], denom |-> denom[p]]
                                   ELSE output[Start(p[1])][h]]
<1>6. output' = [output EXCEPT ![Start(p[1])] = row]
  BY DEF Store
<1>7. DOMAIN output' = Rows /\ \A r \in Rows : DOMAIN output'[r] = Heads
  BY <1>1, <1>6
<1>8. \A h \in Heads : row[h] = IF HeadMask(p[2], h)
                                THEN [by |-> "decode", kv |-> p[2], acc |-> acc[p], denom |-> denom[p]]
                                ELSE output[Start(p[1])][h]
  OBVIOUS
<1> HIDE DEF row
<1>9. ASSUME NEW s \in Seqs, NEW r \in RowsOf(s), NEW h \in Heads
      PROVE  output'[r][h] =
               IF <<s, h \div batch.perKv>> = p
               THEN [by |-> "decode", kv |-> p[2], acc |-> acc[p], denom |-> denom[p]]
               ELSE output[r][h]
  <2>1. r \in Rows
    BY <1>1, RowFacts
  <2>2. HeadMask(p[2], h) <=> h \div batch.perKv = p[2]
    BY <1>1, HeadFacts
  <2>3. CASE r = Start(p[1])
    <3>1. s = p[1]
      BY <1>1, <1>5, <2>3, StoredRow
    <3>2. output'[r] = row
      BY <1>1, <1>6, <2>1, <2>3
    <3>3. <<s, h \div batch.perKv>> = p <=> HeadMask(p[2], h)
      BY <1>1, <2>2, <3>1
    <3>4. QED
      BY <1>8, <2>3, <3>2, <3>3
  <2>4. CASE r # Start(p[1])
    <3>1. output'[r] = output[r]
      BY <1>1, <1>6, <2>1, <2>4
    <3>2. ASSUME s = p[1]
          PROVE  FALSE
      <4>1. Start(s) \in Nat /\ QueryLen(s) \in Nat /\ QueryLen(s) >= 1
        BY <1>1, RowFacts, StartFacts
      <4>2. QueryLen(s) = 1
        BY <1>5, <3>2, <4>1 DEF Filtered
      <4>3. r = Start(s)
        BY <4>1, <4>2 DEF RowsOf
      <4>4. QED
        BY <2>4, <3>2, <4>3
    <3>3. <<s, h \div batch.perKv>> # p
      BY <1>1, <3>2
    <3>4. QED
      BY <3>1, <3>3
  <2>5. QED
    BY <2>3, <2>4
<1>10. QED
  BY <1>2, <1>3, <1>4, <1>5, <1>7, <1>9

LEMMA StoreInvariant ==
  ASSUME IInv, NEW p \in Programs, Store(p)
  PROVE  IInv'
<1> DEFINE s == p[1]
<1>1. /\ batch \in Batches /\ s \in Seqs /\ at \in [Programs -> Int]
  BY ProgramFacts DEF IInv, Progress
<1>2. /\ UNCHANGED <<batch, pc, top, denom, acc>> /\ pc = "decoding" /\ ~ UseCustom
      /\ at[p] = NumTiles(s) /\ at' = [at EXCEPT ![p] = Through(s)]
      /\ at[p] # Through(s) /\ at[p] # NotBegun /\ ~ Filtered(s)
      /\ NumTiles(s) \in Nat
  BY StoreFacts
<1>3. Through(s) \in Int /\ Through(s) \in 0 .. Through(s) /\ Through(s) # NotBegun
  BY <1>2 DEF Through, NotBegun
<1>4. Progress'
  BY <1>2, <1>3, ProgramProgress
<1>5. Seen(s, Through(s)) = Seen(s, NumTiles(s))
  BY <1>1, SeenFacts
<1>6. /\ Compared(s, Through(s)) = Compared(s, NumTiles(s))
      /\ \A m : Summed(s, Through(s), m) = Summed(s, NumTiles(s), m)
  BY <1>5 DEF Compared, Summed
<1>7. ASSUME NEW q \in Programs
      PROVE  IF at'[q] = NotBegun \/ Filtered(q[1])
             THEN acc'[q] = {} /\ denom'[q] = {} /\ top'[q] = NegInf
             ELSE /\ top'[q] \in Compared(q[1], at'[q])
                  /\ \A x \in Compared(q[1], at'[q]) : x <= top'[q]
                  /\ acc'[q] = Summed(q[1], at'[q], top'[q])
                  /\ denom'[q] = Summed(q[1], at'[q], top'[q]) \cup SinkTerms(top'[q])
  <2>1. acc'[q] = acc[q] /\ denom'[q] = denom[q] /\ top'[q] = top[q]
    BY <1>2
  <2>2. CASE q = p
    <3>1. at'[q] = Through(s)
      BY <1>1, <1>2, <2>2
    <3>2. /\ top[q] \in Compared(s, NumTiles(s)) /\ \A x \in Compared(s, NumTiles(s)) : x <= top[q]
          /\ acc[q] = Summed(s, NumTiles(s), top[q])
          /\ denom[q] = Summed(s, NumTiles(s), top[q]) \cup SinkTerms(top[q])
      BY <1>2, <2>2 DEF IInv, RunningSoftmax
    <3>3. QED
      BY <1>2, <1>3, <1>6, <2>1, <2>2, <3>1, <3>2
  <2>3. CASE q # p
    <3>1. at'[q] = at[q]
      BY <1>1, <1>2, <2>3
    <3>2. QED
      BY <2>1, <3>1 DEF IInv, RunningSoftmax
  <2>4. QED
    BY <2>2, <2>3
<1>8. RunningSoftmax'
  <2>1. batch' = batch
    BY <1>2
  <2>2. QED
    BY <1>7, <2>1, SameBatch DEF RunningSoftmax
<1>9. ASSUME NEW u \in Seqs, NEW r \in RowsOf(u), NEW h \in Heads
      PROVE  output'[r][h] = Contents(u, h)'
  <2> DEFINE q == <<u, h \div batch.perKv>>
  <2>1. q \in Programs /\ q[1] = u /\ q[2] = h \div batch.perKv
    BY <1>1, HeadFacts
  <2>2. output[r][h] = Contents(u, h)
    BY DEF IInv, OwnCells
  <2>3. output'[r][h] =
          IF q = p THEN [by |-> "decode", kv |-> p[2], acc |-> acc[p], denom |-> denom[p]]
          ELSE output[r][h]
    BY StoreFacts
  <2>4. CASE q = p
    <3>1. at'[q] = Through(u) /\ ~ (QueryLen(u) > 1)
      BY <1>1, <1>2, <2>1, <2>4 DEF Filtered
    <3>2. QED
      BY <1>2, <2>3, <2>4, <3>1, SameBatch DEF Contents
  <2>5. CASE q # p
    <3>1. at'[q] = at[q]
      BY <1>1, <1>2, <2>1, <2>5
    <3>2. Contents(u, h)' = Contents(u, h)
      BY <1>2, <3>1, SameBatch DEF Contents
    <3>3. QED
      BY <2>2, <2>3, <2>5, <3>2
  <2>6. QED
    BY <2>4, <2>5
<1>10. OwnCells'
  <2>1. batch' = batch /\ DOMAIN output' = Rows /\ \A r \in Rows : DOMAIN output'[r] = Heads
    BY StoreFacts
  <2>2. QED
    BY <1>9, <2>1, SameBatch DEF OwnCells
<1>11. QED
  BY <1>4, <1>8, <1>10 DEF IInv

LEMMA StutterInvariant ==
  ASSUME IInv, UNCHANGED vars
  PROVE  IInv'
<1>1. UNCHANGED <<batch, pc, at, top, denom, acc, output>>
  BY DEF vars
<1>2. RunningSoftmax'
  BY <1>1, SoftmaxStays DEF IInv
<1>3. Progress'
  BY <1>1, SameBatch DEF IInv, Progress
<1>4. OwnCells'
  <2>1. \A s \in Seqs, h \in Heads : Contents(s, h)' = Contents(s, h)
    BY <1>1, SameBatch DEF Contents
  <2>2. QED
    BY <1>1, <2>1, SameBatch DEF IInv, OwnCells
<1>5. QED
  BY <1>2, <1>3, <1>4 DEF IInv

-----------------------------------------------------------------------------
(* The theorems.                                                           *)

\* At every moment every program holds the softmax over exactly the tokens it has gone
\* over, scaled by their maximum, and every row of a new token holds what the one
\* kernel and the one program that answer for it have done, and nothing else.
THEOREM InvariantHolds == Spec => []IInv
<1>1. Init => IInv
  BY InitInvariant
<1>2. IInv /\ [Next]_vars => IInv'
  <2> SUFFICES ASSUME IInv, [Next]_vars
               PROVE  IInv'
    OBVIOUS
  <2>1. CASE Prefill
    BY <2>1, PrefillInvariant
  <2>2. CASE CacheTypeRaises \/ CustomRaises \/ TritonDecode \/ Return
    BY <2>2, ChoiceInvariant
  <2>3. CASE CustomDecode
    BY <2>3, CustomInvariant
  <2>4. ASSUME NEW p \in Programs, Skip(p) \/ Begin(p) \/ NextTile(p) \/ Store(p)
        PROVE  IInv'
    BY <2>4, SkipInvariant, BeginInvariant, NextTileInvariant, StoreInvariant
  <2>5. CASE UNCHANGED vars
    BY <2>5, StutterInvariant
  <2>6. QED
    BY <2>1, <2>2, <2>3, <2>4, <2>5 DEF Next
<1>3. QED
  BY <1>1, <1>2, PTL DEF Spec

\* A slot that no token of the sequence was written to never gets into a sum, whatever
\* the table names: the mask of the load and the scores agree on the sequence's end.
THEOREM NoPoisonHolds == Spec => []NoPoison
<1>1. IInv => NoPoison
  <2> SUFFICES ASSUME IInv, NEW p \in Programs, NEW x \in acc[p]
               PROVE  x.of # Garbage
    BY DEF NoPoison
  <2>1. batch \in Batches /\ p[1] \in Seqs
    BY ProgramFacts DEF IInv, Progress
  <2>2. acc[p] = Summed(p[1], at[p], top[p])
    BY DEF IInv, RunningSoftmax
  <2>3. PICK t \in Seen(p[1], at[p]) : x = Term(<<p[1], t>>, Score(p[1], t) - top[p], t \div TileSize)
    BY <2>2 DEF Summed
  <2>4. t \in Nat /\ p[1] \in Nat /\ x.of = <<p[1], t>>
    BY <2>1, <2>3, SeenToken, SeqFacts DEF Term
  <2>5. QED
    BY <2>4, SourcesAreTokens
<1>2. QED
  BY <1>1, InvariantHolds, PTL

LEMMA CellsUnwritten ==
  ASSUME IInv, pc = "entered", NEW s \in Seqs, NEW h \in Heads
  PROVE  Contents(s, h) = Unwritten
<1>1. batch \in Batches
  BY DEF IInv, Progress
<1>2. <<s, h \div batch.perKv>> \in Programs
  BY <1>1, HeadFacts
<1>3. at[<<s, h \div batch.perKv>>] = NotBegun
  BY <1>2 DEF IInv, Progress
<1>4. NumTiles(s) \in Nat
  BY <1>1, NumTilesFacts
<1>5. QED
  BY <1>3, <1>4 DEF Contents, Through, NotBegun

\* What is in a cell stays there: not one head is written over by the padding of the
\* heads before it, no row by the program of a sequence without new tokens, and the
\* decode kernel leaves to the prefill kernel what is its own.
THEOREM WrittenOnceHolds == Spec => WrittenOnce
<1> DEFINE Kept == \A s \in Seqs : \A r \in RowsOf(s) : \A h \in Heads :
                     output[r][h] # Unwritten => output'[r][h] = output[r][h]
<1>1. IInv /\ [Next]_vars => Kept
  <2> SUFFICES ASSUME IInv, [Next]_vars,
                      NEW s \in Seqs, NEW r \in RowsOf(s), NEW h \in Heads, output[r][h] # Unwritten
               PROVE  output'[r][h] = output[r][h]
    OBVIOUS
  <2>1. output[r][h] = Contents(s, h) /\ batch \in Batches
    BY DEF IInv, OwnCells, Progress
  <2>2. pc # "entered"
    BY <2>1, CellsUnwritten
  <2>3. CASE CustomDecode
    <3>1. Decoding
      BY <2>3 DEF CustomDecode
    <3>2. pc = "prefilled"
      BY <2>1, <2>2, <3>1, NotPrefilled
    <3>3. <<s, h \div batch.perKv>> \in Programs
      BY <2>1, HeadFacts
    <3>4. at[<<s, h \div batch.perKv>>] = NotBegun
      BY <3>2, <3>3 DEF IInv, Progress
    <3>5. NumTiles(s) \in Nat
      BY <2>1, NumTilesFacts
    <3>6. QueryLen(s) > 1
      BY <2>1, <3>2, <3>4, <3>5 DEF Contents, Through, NotBegun
    <3>7. ASSUME NEW u \in Seqs, r \in RowsOf(u)
          PROVE  ~ (QueryLen(u) = 1)
      <4>1. u = s
        BY <2>1, <3>7, RowsApart
      <4>2. QED
        BY <3>6, <4>1
    <3>8. r \in Rows
      BY <2>1, RowFacts
    <3>9. QED
      BY <2>3, <3>7, <3>8 DEF CustomDecode
  <2>4. ASSUME NEW p \in Programs, Store(p)
        PROVE  output'[r][h] = output[r][h]
    <3>1. CASE <<s, h \div batch.perKv>> = p
      <4>1. at[p] # Through(p[1]) /\ ~ Filtered(p[1]) /\ pc = "decoding" /\ p[1] = s
        BY <2>4, <3>1, StoreFacts
      <4>2. Contents(s, h) = Unwritten
        BY <3>1, <4>1 DEF Contents, Filtered
      <4>3. QED
        BY <2>1, <4>2
    <3>2. CASE <<s, h \div batch.perKv>> # p
      <4>1. output'[r][h] =
              IF <<s, h \div batch.perKv>> = p
              THEN [by |-> "decode", kv |-> p[2], acc |-> acc[p], denom |-> denom[p]]
              ELSE output[r][h]
        BY <2>4, StoreFacts
      <4>2. QED
        BY <3>2, <4>1
    <3>3. QED
      BY <3>1, <3>2
  <2>5. CASE UNCHANGED output
    BY <2>5
  <2>6. ~ Prefill
    BY <2>2 DEF Prefill
  <2>7. CacheTypeRaises \/ CustomRaises \/ TritonDecode \/ Return => UNCHANGED output
    BY DEF CacheTypeRaises, CustomRaises, TritonDecode, Return
  <2>8. \A p \in Programs : Skip(p) \/ Begin(p) \/ NextTile(p) => UNCHANGED output
    BY DEF Skip, Begin, NextTile
  <2>9. UNCHANGED vars => UNCHANGED output
    BY DEF vars
  <2>10. QED
    BY <2>3, <2>4, <2>5, <2>6, <2>7, <2>8, <2>9 DEF Next
<1>2. Kept => [Kept]_vars
  OBVIOUS
<1>3. Spec => [][Kept]_vars
  BY <1>1, <1>2, InvariantHolds, PTL DEF Spec
<1>4. QED
  BY <1>3 DEF WrittenOnce

\* A set of terms that differ in their source or exponent is a set of weights.
LEMMA AmountsFacts ==
  ASSUME NEW terms, IsFiniteSet(terms),
         \A x, y \in terms : x.of = y.of /\ x.e = y.e => x = y
  PROVE  Amounts(terms, {<<x.of, x.e>> : x \in terms})
<1> DEFINE W == {<<x.of, x.e>> : x \in terms}
           f == [x \in terms |-> <<x.of, x.e>>]
<1>1. f \in Injection(terms, W)
  <2>1. f \in [terms -> W]
    OBVIOUS
  <2>2. ASSUME NEW x \in terms, NEW y \in terms, f[x] = f[y]
        PROVE  x = y
    BY <2>2
  <2>3. QED
    BY <2>1, <2>2 DEF Injection, IsInjective
<1>2. f \in Surjection(terms, W)
  BY DEF Surjection
<1>3. f \in Bijection(terms, W)
  BY <1>1, <1>2 DEF Bijection
<1> HIDE DEF f, W
<1>4. Cardinality(terms) = Cardinality(W)
  BY <1>3, FS_Bijection DEF ExistsBijection
<1>5. QED
  BY <1>4 DEF Amounts, W

LEMMA ImageFinite ==
  ASSUME NEW S, IsFiniteSet(S), NEW T, NEW f \in [S -> T], \A y \in T : \E x \in S : f[x] = y
  PROVE  IsFiniteSet(T)
<1>1. f \in Surjection(S, T)
  BY DEF Surjection
<1>2. QED
  BY <1>1, FS_Surjection

LEMMA SummedFinite ==
  ASSUME batch \in Batches, NEW s \in Seqs, NEW j, NEW m
  PROVE  IsFiniteSet(Summed(s, j, m)) /\ IsFiniteSet(Summed(s, j, m) \cup SinkTerms(m))
<1> DEFINE W == {t \in Seen(s, j) : Loaded(s, t) /\ Counts(Score(s, t), m)}
           f == [t \in W |-> Term(<<s, t>>, Score(s, t) - m, t \div TileSize)]
<1>1. NumTiles(s) * TileSize - 1 \in Int
  <2>1. NumTiles(s) \in Nat /\ TileSize \in Nat
    BY NumTilesFacts, TileSizeType
  <2>2. QED
    BY <2>1
<1>2. IsFiniteSet(0 .. NumTiles(s) * TileSize - 1)
  BY <1>1, FS_Interval
<1>3. W \in SUBSET (0 .. NumTiles(s) * TileSize - 1)
  BY DEF Seen
<1>4. IsFiniteSet(W)
  BY <1>2, <1>3, FS_Subset
<1>5. f \in [W -> Summed(s, j, m)] /\ \A y \in Summed(s, j, m) : \E x \in W : f[x] = y
  BY DEF Summed
<1> HIDE DEF f, W
<1>6. IsFiniteSet(Summed(s, j, m))
  BY <1>4, <1>5, ImageFinite
<1>7. IsFiniteSet(SinkTerms(m))
  <2>1. SinkTerms(m) = {} \/ \E x : SinkTerms(m) = {x}
    BY DEF SinkTerms
  <2>2. QED
    BY <2>1, FS_EmptySet, FS_Singleton
<1>8. QED
  BY <1>6, <1>7, FS_Union

\* The weights that are left when the program is through: those of the attended tokens.
LEMMA AttendedFacts ==
  ASSUME batch \in Batches, NEW s \in Seqs, QueryLen(s) = 1
  PROVE  /\ SeqLen(s) \in Nat \ {0} /\ NumTiles(s) > 0
         /\ SeqLen(s) - 1 \in Attended(s)
         /\ \A t \in Attended(s) : /\ t \in Seen(s, Through(s)) /\ t \in Nat /\ t < SeqLen(s)
                                   /\ Score(s, t) = batch.score[t] /\ batch.score[t] \in Int
                                   /\ Masked - batch.score[t] <= Underflow
         /\ \A t \in Seen(s, Through(s)) \ Attended(s) : Score(s, t) \in {NegInf, Masked}
<1>1. /\ SeqLen(s) \in Nat /\ SeqLen(s) <= batch.maxSeqLen /\ QueryLen(s) <= SeqLen(s)
      /\ batch.window \in Nat /\ batch.score \in [0 .. batch.maxSeqLen - 1 -> Int]
      /\ batch.maxSeqLen \in Nat
  BY BatchFacts, SeqFacts, StartFacts
<1>2. SeqLen(s) \in Nat \ {0}
  BY <1>1
<1>3. NumTiles(s) \in Nat /\ TileSize \in Nat \ {0} /\ SeqLen(s) <= NumTiles(s) * TileSize
  BY NumTilesFacts, TileSizeType
<1>4. NumTiles(s) > 0
  <2>1. CASE NumTiles(s) = 0
    BY <1>2, <1>3, <2>1
  <2>2. QED
    BY <1>3, <2>1
<1>5. SeqLen(s) - 1 \in Attended(s)
  BY <1>1, <1>2 DEF Attended
<1>6. Seen(s, Through(s)) = 0 .. NumTiles(s) * TileSize - 1
  BY SeenFacts
<1>7. NumTiles(s) * TileSize \in Nat
  BY <1>3
<1>8. ASSUME NEW t \in Attended(s)
      PROVE  /\ t \in Seen(s, Through(s)) /\ t \in Nat /\ t < SeqLen(s)
             /\ Score(s, t) = batch.score[t] /\ batch.score[t] \in Int
             /\ Masked - batch.score[t] <= Underflow
  <2>1. /\ t \in Nat /\ t < SeqLen(s) /\ t \in 0 .. batch.maxSeqLen - 1
        /\ batch.window = 0 \/ SeqLen(s) - 1 - t < batch.window
    BY <1>1 DEF Attended
  <2>2. t \in 0 .. NumTiles(s) * TileSize - 1
    BY <1>1, <1>3, <1>7, <2>1
  <2>3. Score(s, t) = batch.score[t]
    BY <1>1, <2>1 DEF Score
  <2>4. batch.score[t] \in Int /\ t \in DOMAIN batch.score
    BY <1>1, <2>1
  <2>5. ScoresFinite(batch)
    BY PagedDecodeAssumption
  <2>6. QED
    BY <1>6, <2>1, <2>2, <2>3, <2>4, <2>5 DEF ScoresFinite
<1>9. ASSUME NEW t \in Seen(s, Through(s)) \ Attended(s)
      PROVE  Score(s, t) \in {NegInf, Masked}
  <2>1. t \in Nat
    BY <1>6, <1>7
  <2>2. CASE t >= SeqLen(s)
    BY <2>2 DEF Score
  <2>3. CASE ~ (t >= SeqLen(s))
    <3>1. t \in 0 .. SeqLen(s) - 1
      BY <1>1, <2>1, <2>3
    <3>2. ~ (batch.window = 0 \/ SeqLen(s) - 1 - t < batch.window)
      BY <1>9, <3>1 DEF Attended
    <3>3. batch.window > 0 /\ SeqLen(s) - 1 - t >= batch.window
      BY <1>1, <2>1, <3>2
    <3>4. QED
      BY <2>3, <3>3 DEF Score
  <2>4. QED
    BY <2>2, <2>3
<1>10. QED
  BY <1>2, <1>4, <1>5, <1>8, <1>9

\* Their maximum is the one that the program ends with.
LEMMA PeakFacts ==
  ASSUME batch \in Batches, NEW s \in Seqs, QueryLen(s) = 1,
         NEW m \in Compared(s, Through(s)), \A x \in Compared(s, Through(s)) : x <= m
  PROVE  /\ Peak(s) = m /\ m \in Int /\ m # NegInf /\ Masked - m <= Underflow
<1> DEFINE S == {batch.score[t] : t \in Attended(s)}
                  \cup (IF batch.sink = NoSink THEN {} ELSE {batch.sink})
           last == SeqLen(s) - 1
<1>1. NegInf \in Int /\ Masked \in Int /\ Underflow \in Int /\ Underflow < 0 /\ NegInf - Masked <= Underflow
  BY PagedDecodeAssumption
<1>2. /\ last \in Attended(s)
      /\ \A t \in Attended(s) : /\ t \in Seen(s, Through(s)) /\ Score(s, t) = batch.score[t]
                                /\ batch.score[t] \in Int
                                /\ Masked - batch.score[t] <= Underflow
      /\ \A t \in Seen(s, Through(s)) \ Attended(s) : Score(s, t) \in {NegInf, Masked}
  BY AttendedFacts
<1>3. m \in Int
  BY ComparedFacts
<1>4. \A t \in Attended(s) : batch.score[t] <= m
  BY <1>2 DEF Compared
<1>5. /\ batch.score[last] \in Int /\ batch.score[last] <= m
      /\ Masked - batch.score[last] <= Underflow
  BY <1>2, <1>4
<1> HIDE DEF last
<1>6. Masked - m <= Underflow /\ Masked < m /\ NegInf < m
  BY <1>1, <1>3, <1>5
<1>7. batch.sink # NoSink => batch.sink <= m /\ batch.sink \in Int
  BY SinkFacts DEF Compared
<1>8. S \in SUBSET Int /\ \A x \in S : x <= m
  BY <1>2, <1>4, <1>7
<1>9. m \in S
  <2>1. CASE m = IF batch.sink = NoSink THEN NegInf ELSE batch.sink
    BY <1>1, <1>3, <1>6, <2>1
  <2>2. ASSUME NEW t \in Seen(s, Through(s)), m = Score(s, t)
        PROVE  m \in S
    <3>1. t \in Attended(s)
      BY <1>1, <1>2, <1>3, <1>6, <2>2
    <3>2. QED
      BY <1>2, <2>2, <3>1
  <2>3. QED
    BY <2>1, <2>2 DEF Compared
<1>10. Peak(s) = Max(S)
  BY DEF Peak
<1> HIDE DEF S
<1>11. Max(S) = m
  BY <1>8, <1>9, MaxUnique
<1>12. QED
  BY <1>1, <1>3, <1>6, <1>10, <1>11

\* The sum of a program that is through is made of the weights of the softmax.
LEMMA FinalSum ==
  ASSUME batch \in Batches, NEW s \in Seqs, QueryLen(s) = 1,
         NEW m \in Compared(s, Through(s)), \A x \in Compared(s, Through(s)) : x <= m
  PROVE  Summed(s, Through(s), m) =
           {Term(<<s, t>>, batch.score[t] - Peak(s), t \div TileSize) :
              t \in {t \in Attended(s) : batch.score[t] - Peak(s) > Underflow}}
<1> DEFINE S == Seen(s, Through(s))
           counted == {t \in S : Loaded(s, t) /\ Counts(Score(s, t), m)}
           heavy == {t \in Attended(s) : batch.score[t] - m > Underflow}
<1>1. /\ NegInf \in Int /\ Masked \in Int /\ Underflow \in Int /\ Underflow < 0
      /\ NegInf - Masked <= Underflow
  BY PagedDecodeAssumption
<1>2. Peak(s) = m /\ m \in Int /\ m # NegInf /\ Masked - m <= Underflow
  BY PeakFacts
<1>3. /\ \A t \in Attended(s) : /\ t \in S /\ t < SeqLen(s) /\ Score(s, t) = batch.score[t]
      /\ \A t \in S \ Attended(s) : Score(s, t) \in {NegInf, Masked}
  BY AttendedFacts
<1>4. NegInf - m <= Underflow
  BY <1>1, <1>2
<1>5. \A t \in S \ Attended(s) : ~ Counts(Score(s, t), m)
  BY <1>1, <1>2, <1>3, <1>4 DEF Counts
<1>6. \A t \in Attended(s) : Loaded(s, t) /\ (Counts(Score(s, t), m) <=> batch.score[t] - m > Underflow)
  BY <1>2, <1>3 DEF Counts, Loaded
<1>7. counted = heavy
  BY <1>3, <1>5, <1>6
<1>8. \A t \in heavy : Score(s, t) = batch.score[t]
  BY <1>3
<1>9. Summed(s, Through(s), m) = {Term(<<s, t>>, Score(s, t) - m, t \div TileSize) : t \in counted}
  BY DEF Summed
<1> HIDE DEF counted
<1>10. Summed(s, Through(s), m) = {Term(<<s, t>>, batch.score[t] - m, t \div TileSize) : t \in heavy}
  BY <1>7, <1>8, <1>9
<1>11. QED
  BY <1>2, <1>10

\* No term is in the sum twice, and the exponents are those of the weights.
LEMMA FinalAmounts ==
  ASSUME batch \in Batches, NEW s \in Seqs, QueryLen(s) = 1,
         NEW m \in Compared(s, Through(s)), \A x \in Compared(s, Through(s)) : x <= m
  PROVE  /\ Amounts(Summed(s, Through(s), m), Weights(s))
         /\ Amounts(Summed(s, Through(s), m) \cup SinkTerms(m), Weights(s) \cup SinkWeight(s))
<1> DEFINE heavy == {t \in Attended(s) : batch.score[t] - Peak(s) > Underflow}
           A == Summed(s, Through(s), m)
           D == A \cup SinkTerms(m)
<1>1. A = {Term(<<s, t>>, batch.score[t] - Peak(s), t \div TileSize) : t \in heavy}
  BY FinalSum
<1>2. Peak(s) = m /\ m \in Int /\ s \in Nat \ {0} /\ Underflow \in Int
  BY PeakFacts, SeqFacts, PagedDecodeAssumption
<1>3. ASSUME NEW x \in A
      PROVE  \E t \in heavy : x = Term(<<s, t>>, batch.score[t] - Peak(s), t \div TileSize)
  BY <1>1
<1>4. \A x, y \in A : x.of = y.of => x = y
  BY <1>3 DEF Term
<1>5. \A x \in A : x.of # SinkSource
  BY <1>2, <1>3 DEF Term, SinkSource
<1>6. {<<x.of, x.e>> : x \in A} = Weights(s)
  <2>1. Weights(s) = {<<<<s, t>>, batch.score[t] - Peak(s)>> : t \in heavy}
    BY DEF Weights
  <2>2. ASSUME NEW t \in heavy
        PROVE  \E x \in A : x.of = <<s, t>> /\ x.e = batch.score[t] - Peak(s)
    <3> DEFINE y == Term(<<s, t>>, batch.score[t] - Peak(s), t \div TileSize)
    <3>1. y \in A
      BY <1>1
    <3>2. y.of = <<s, t>> /\ y.e = batch.score[t] - Peak(s)
      BY DEF Term
    <3> HIDE DEF y
    <3>3. QED
      BY <3>1, <3>2
  <2>3. ASSUME NEW x \in A
        PROVE  \E t \in heavy : x.of = <<s, t>> /\ x.e = batch.score[t] - Peak(s)
    BY <1>3 DEF Term
  <2> HIDE DEF heavy, A
  <2>4. {<<x.of, x.e>> : x \in A} = {<<<<s, t>>, batch.score[t] - Peak(s)>> : t \in heavy}
    BY <2>2, <2>3
  <2>5. QED
    BY <2>1, <2>4
<1>7. IsFiniteSet(A) /\ IsFiniteSet(D)
  BY SummedFinite
<1> HIDE DEF heavy, A
<1>8. Amounts(A, Weights(s))
  BY <1>4, <1>6, <1>7, AmountsFacts
<1>9. /\ \A x, y \in SinkTerms(m) : x = y
      /\ \A x \in SinkTerms(m) : x.of = SinkSource
  BY DEF SinkTerms, Term
<1>10. {<<x.of, x.e>> : x \in SinkTerms(m)} = SinkWeight(s)
  <2>1. CASE batch.sink = NoSink
    BY <2>1 DEF SinkTerms, SinkWeight
  <2>2. CASE batch.sink # NoSink
    <3>1. batch.sink \in Int
      BY <2>2, SinkFacts
    <3>2. batch.sink - m > Underflow <=> ~ (batch.sink - Peak(s) <= Underflow)
      BY <1>2, <3>1
    <3>3. CASE batch.sink - m > Underflow
      <4> DEFINE x == Term(SinkSource, batch.sink - m, NotBegun)
      <4>1. SinkTerms(m) = {x} /\ SinkWeight(s) = {<<SinkSource, batch.sink - m>>}
        BY <1>2, <2>2, <3>2, <3>3 DEF SinkTerms, SinkWeight
      <4>2. x.of = SinkSource /\ x.e = batch.sink - m
        BY DEF Term
      <4> HIDE DEF x
      <4>3. QED
        BY <4>1, <4>2
    <3>4. CASE ~ (batch.sink - m > Underflow)
      <4>1. SinkTerms(m) = {} /\ SinkWeight(s) = {}
        BY <2>2, <3>2, <3>4 DEF SinkTerms, SinkWeight
      <4>2. QED
        BY <4>1
    <3>5. QED
      BY <3>3, <3>4
  <2>3. QED
    BY <2>1, <2>2
<1>11. \A x, y \in D : x.of = y.of /\ x.e = y.e => x = y
  BY <1>4, <1>5, <1>9
<1>12. {<<x.of, x.e>> : x \in D} = Weights(s) \cup SinkWeight(s)
  BY <1>6, <1>10
<1> HIDE DEF D
<1>13. Amounts(D, Weights(s) \cup SinkWeight(s))
  BY <1>7, <1>11, <1>12, AmountsFacts
<1>14. QED
  BY <1>8, <1>13 DEF A, D

LEMMA SumTypes ==
  ASSUME batch \in Batches, NEW s \in Seqs, NEW j, NEW m \in Int
  PROVE  Summed(s, j, m) \cup SinkTerms(m) \in SUBSET Terms
<1>1. ASSUME NEW x \in Summed(s, j, m)
      PROVE  x \in Terms
  <2>1. PICK t \in Seen(s, j) : x = Term(<<s, t>>, Score(s, t) - m, t \div TileSize)
    BY DEF Summed
  <2>2. s \in Nat /\ t \in Nat /\ Score(s, t) \in Int /\ TileSize \in Nat \ {0}
    BY SeqFacts, SeenToken, TileSizeType
  <2>3. Score(s, t) - m \in Int /\ t \div TileSize \in Int
    BY <2>2, DivMod
  <2>4. QED
    BY <2>1, <2>2, <2>3 DEF Term, Terms
<1>2. ASSUME NEW x \in SinkTerms(m)
      PROVE  x \in Terms
  <2>1. batch.sink # NoSink /\ x = Term(SinkSource, batch.sink - m, NotBegun)
    BY DEF SinkTerms
  <2>2. batch.sink - m \in Int /\ NotBegun \in Int
    BY <2>1, SinkFacts DEF NotBegun
  <2>3. QED
    BY <2>1, <2>2 DEF Term, Terms, SinkSource
<1>3. QED
  BY <1>1, <1>2

\* When the call returns each new token of the batch has its answer: from the prefill
\* kernel where its sequence has several, and otherwise in every head the softmax over
\* exactly the tokens it attends to, whatever tiles, blocks, order and company.
THEOREM AnsweredHolds == Spec => []Answered
<1>1. ASSUME IInv, pc = "returned", NEW s \in Seqs, NEW r \in RowsOf(s), NEW h \in Heads
      PROVE  LET cell == output[r][h] IN
             /\ cell # Unwritten
             /\ QueryLen(s) > 1 => cell.by = "prefill"
             /\ QueryLen(s) = 1 =>
                  \/ cell.by = "custom"
                  \/ /\ cell.by = "decode" /\ cell.kv = h \div batch.perKv
                     /\ Amounts(cell.acc, Weights(s))
                     /\ Amounts(cell.denom, Weights(s) \cup SinkWeight(s))
  <2> DEFINE p == <<s, h \div batch.perKv>>
             cell == output[r][h]
  <2>1. cell = Contents(s, h) /\ batch \in Batches
    BY <1>1 DEF IInv, OwnCells, Progress
  <2>2. p \in Programs /\ p[1] = s /\ p[2] = h \div batch.perKv /\ p[2] \in Nat
    BY <2>1, HeadFacts
  <2>3. QueryLen(s) \in Nat /\ QueryLen(s) >= 1
    BY <2>1, RowFacts, StartFacts
  <2>4. Unwritten \notin Cells
    BY PagedDecodeAssumption
  <2>5. CASE QueryLen(s) > 1
    <3>1. cell = [by |-> "prefill"]
      BY <1>1, <2>1, <2>5 DEF Contents
    <3>2. cell \in Cells
      BY <3>1 DEF Cells
    <3>3. QED
      BY <2>4, <2>5, <3>1, <3>2
  <2>6. CASE QueryLen(s) = 1 /\ UseCustom
    <3>1. cell = [by |-> "custom"]
      BY <1>1, <2>1, <2>6 DEF Contents
    <3>2. cell \in Cells
      BY <3>1 DEF Cells
    <3>3. QED
      BY <2>4, <2>6, <3>1, <3>2
  <2>7. CASE QueryLen(s) = 1 /\ ~ UseCustom
    <3> DEFINE a == acc[p]
               d == denom[p]
               m == top[p]
    <3>1. at[p] = Through(s) /\ ~ Filtered(s)
      BY <1>1, <2>2, <2>7 DEF IInv, Progress, Filtered
    <3>2. NumTiles(s) \in Nat
      BY <2>1, NumTilesFacts
    <3>3. at[p] # NotBegun
      BY <3>1, <3>2 DEF Through, NotBegun
    <3>4. /\ m \in Compared(s, Through(s)) /\ \A x \in Compared(s, Through(s)) : x <= m
          /\ a = Summed(s, Through(s), m) /\ d = Summed(s, Through(s), m) \cup SinkTerms(m)
      BY <1>1, <2>2, <3>1, <3>3 DEF IInv, RunningSoftmax
    <3>5. cell = [by |-> "decode", kv |-> p[2], acc |-> a, denom |-> d]
      BY <1>1, <2>1, <2>2, <2>7, <3>1 DEF Contents
    <3> HIDE DEF a, d, m, p
    <3>6. Amounts(a, Weights(s)) /\ Amounts(d, Weights(s) \cup SinkWeight(s))
      BY <2>1, <2>7, <3>4, FinalAmounts
    <3>7. m \in Int
      BY <2>1, <3>4, ComparedFacts
    <3>8. a \in SUBSET Terms /\ d \in SUBSET Terms
      <4>1. Summed(s, Through(s), m) \cup SinkTerms(m) \in SUBSET Terms
        BY <2>1, <3>7, SumTypes
      <4>2. QED
        BY <3>4, <4>1
    <3>9. cell \in Cells
      BY <2>2, <3>5, <3>8 DEF Cells
    <3> HIDE DEF cell
    <3>10. QED
      BY <2>2, <2>4, <2>7, <3>5, <3>6, <3>9 DEF cell
  <2>8. QED
    BY <2>3, <2>5, <2>6, <2>7
<1>2. IInv => Answered
  BY <1>1 DEF Answered
<1>3. QED
  BY <1>2, InvariantHolds, PTL
=============================================================================
