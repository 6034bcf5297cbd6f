---------------------------- MODULE Chunker_proofs ----------------------------
(***************************************************************************)
(* Proofs that chunks cover their document in order, and that a document   *)
(* is refused as too large only for a single block, perhaps under          *)
(* headings, for any document and any limits.                              *)
(*                                                                         *)
(* The argument: at every moment the cores and the core that is packed are *)
(* a partition of the blocks packed so far into runs of consecutive        *)
(* numbers.  Closing, growing, merging and splitting such runs at one      *)
(* point give such runs again; that the point exists at all, for the       *)
(* rebalancing and for the overlap, is the least-number principle (Least). *)
(*                                                                         *)
(* The size of a chunk is a sum over its blocks, defined by recursion on   *)
(* its length; SizeGrows and SizeAdds say what one more block and two      *)
(* chunks in one make of it.  Every core and every draft then fits, or is  *)
(* one block under headings (SizeInv).                                     *)
(***************************************************************************)
EXTENDS Chunker, SequenceTheorems, WellFoundedInduction, TLAPS

Blocks == [kind : {"heading", "body"}, size : Nat, path : Seq(Titles)]

Drafts == [core : Seq(Nat), overlap : Seq(Nat)]

\* Every variable has its type.
ChunkerTypeOK ==
    /\ phase \in {"read", "pack", "rebalance", "overlap", "done", "refused"}
    /\ path \in Seq(Titles) /\ blocks \in Seq(Blocks)
    /\ next \in Nat \ {0} /\ count \in Nat
    /\ cores \in Seq(Seq(Nat)) /\ current \in Seq(Nat)
    /\ drafts \in Seq(Drafts)

\* What is there in each phase.
PhaseInv ==
    /\ phase = "read" => cores = <<>> /\ current = <<>>
    /\ phase = "pack" => next \in 1 .. Len(blocks) + 1
    /\ phase \notin {"read", "pack"} => current = <<>>
    /\ phase \in {"read", "pack", "rebalance"} => drafts = <<>>
    /\ phase = "overlap" => next \in 1 .. Len(cores) + 1 /\ Len(drafts) = next - 1

\* The two parts of ChunksCoverDocument.
Covered == Partition(cores, current, Packed)

Drafted == \A i \in DOMAIN drafts :
              drafts[i].core = cores[i] /\ Consecutive(Chunk(i))

ChunkInv == ChunkerTypeOK /\ PhaseInv /\ Covered /\ Drafted

-----------------------------------------------------------------------------
(* Numbers and sizes.                                                      *)

LEMMA Least ==
    ASSUME NEW T \in SUBSET Nat, T # {}
    PROVE  \E x \in T : \A y \in T : x <= y
<1>1. \E x \in T : \A y \in T : ~ (<<y, x>> \in OpToRel(<, Nat))
  BY NatLessThanWellFounded, WFMin
<1>2. PICK x \in T : \A y \in T : ~ (<<y, x>> \in OpToRel(<, Nat))
  BY <1>1
<1>3. \A y \in T : ~ (y < x)
  BY <1>2 DEF OpToRel
<1> QED BY <1>3

\* Induction over 0 .. n, for a set of numbers.
LEMMA UpTo ==
    ASSUME NEW n \in Nat, NEW T \in SUBSET (0 .. n), 0 \in T,
           \A k \in 1 .. n : k - 1 \in T => k \in T
    PROVE  T = 0 .. n
<1> SUFFICES ASSUME T # 0 .. n PROVE FALSE
  OBVIOUS
<1> DEFINE U == {k \in 0 .. n : k \notin T}
<1>1. PICK x \in U : \A y \in U : x <= y
  <2>1. PICK z \in 0 .. n : z \notin T
    OBVIOUS
  <2>2. U # {}
    BY <2>1
  <2>3. U \in SUBSET Nat
    OBVIOUS
  <2> HIDE DEF U
  <2> QED BY <2>2, <2>3, Least
<1>2. x \in 1 .. n /\ x - 1 \in 0 .. n /\ ~ (x <= x - 1)
  BY <1>1
<1>3. x - 1 \in T
  BY <1>1, <1>2
<1> QED BY <1>1, <1>2, <1>3

\* There are partial sums of any numbers.
LEMMA Sums ==
    ASSUME NEW n \in Nat, NEW w \in [1 .. n -> Nat]
    PROVE  \E g \in [0 .. n -> Nat] :
              g[0] = 0 /\ \A k \in 1 .. n : g[k] = g[k - 1] + w[k]
<1> DEFINE Summed(m, g) ==
             g[0] = 0 /\ \A k \in 1 .. m : g[k] = g[k - 1] + w[k]
           T == {m \in 0 .. n : \E g \in [0 .. m -> Nat] : Summed(m, g)}
<1>1. 0 \in T
  <2> DEFINE z == [k \in 0 .. 0 |-> 0]
  <2>1. z \in [0 .. 0 -> Nat] /\ Summed(0, z) /\ 0 \in 0 .. n
    OBVIOUS
  <2> HIDE DEF z, Summed
  <2> QED BY <2>1
<1>2. ASSUME NEW m \in 1 .. n, m - 1 \in T PROVE m \in T
  <2>1. PICK g \in [0 .. m - 1 -> Nat] : Summed(m - 1, g)
    BY <1>2
  <2> DEFINE h == [k \in 0 .. m |-> IF k = m THEN g[m - 1] + w[m] ELSE g[k]]
  <2>2. m - 1 \in 0 .. m - 1 /\ g[m - 1] \in Nat /\ w[m] \in Nat
    OBVIOUS
  <2>3. h \in [0 .. m -> Nat]
    <3> SUFFICES ASSUME NEW k \in 0 .. m PROVE h[k] \in Nat
      OBVIOUS
    <3>1. CASE k = m
      BY <2>2, <3>1
    <3>2. CASE k # m
      <4>1. k \in 0 .. m - 1
        BY <3>2
      <4> QED BY <3>2, <4>1
    <3> QED BY <3>1, <3>2
  <2>4. h[0] = 0
    BY <2>1
  <2>5. ASSUME NEW k \in 1 .. m PROVE h[k] = h[k - 1] + w[k]
    <3>1. CASE k = m
      BY <3>1
    <3>2. CASE k # m
      <4>1. /\ k \in 1 .. m - 1 /\ k \in 0 .. m /\ k - 1 \in 0 .. m
            /\ k - 1 # m
        BY <3>2
      <4>2. h[k] = g[k] /\ h[k - 1] = g[k - 1]
        BY <3>2, <4>1
      <4> QED BY <2>1, <4>1, <4>2
    <3> QED BY <3>1, <3>2
  <2> HIDE DEF h
  <2>6. Summed(m, h) /\ m \in 0 .. n
    BY <2>4, <2>5
  <2> HIDE DEF Summed
  <2> QED BY <2>3, <2>6
<1>3. T = 0 .. n
  <2>1. T \in SUBSET (0 .. n)
    OBVIOUS
  <2> HIDE DEF T
  <2>2. \A k \in 1 .. n : k - 1 \in T => k \in T
    BY <1>2
  <2> QED BY <1>1, <2>1, <2>2, UpTo
<1>4. n \in T
  <2> HIDE DEF T
  <2> QED BY <1>3
<1> QED BY <1>4

\* What a core of the blocks bs weighs.
SizeOf(bs, core) ==
    LET sum[n \in 0 .. Len(core)] ==
            IF n = 0 THEN 0 ELSE sum[n - 1] + bs[core[n]].size
    IN sum[Len(core)]

LEMMA SizeIsOfBlocks ==
    /\ \A core : Size(core) = SizeOf(blocks, core)
    /\ \A core : Size(core)' = SizeOf(blocks', core')
BY DEF Size, SizeOf

\* The size of a core is the last of its partial sums, and these are unique.
LEMMA SizeSums ==
    ASSUME NEW bs \in Seq(Blocks), NEW s \in Seq(1 .. Len(bs)),
           NEW g \in [0 .. Len(s) -> Nat], g[0] = 0,
           \A k \in 1 .. Len(s) : g[k] = g[k - 1] + bs[s[k]].size
    PROVE  SizeOf(bs, s) = g[Len(s)]
<1> DEFINE n == Len(s)
           Step(h) == [k \in 0 .. n |-> IF k = 0 THEN 0
                                        ELSE h[k - 1] + bs[s[k]].size]
           h == CHOOSE sum : sum = Step(sum)
           T == {k \in 0 .. n : h[k] = g[k]}
<1>0. n \in Nat
  BY LenProperties
<1>1. g = Step(g)
  <2> SUFFICES ASSUME NEW k \in 0 .. n PROVE g[k] = Step(g)[k]
    OBVIOUS
  <2>1. CASE k = 0
    BY <2>1
  <2>2. CASE k # 0
    <3>1. k \in 1 .. n
      BY <1>0, <2>2
    <3> QED BY <2>2, <3>1
  <2> QED BY <2>1, <2>2
<1>2. h = Step(h)
  BY <1>1
<1>3. SizeOf(bs, s) = h[n]
  BY DEF SizeOf
<1> HIDE DEF h
<1>4. \A k \in 0 .. n : h[k] = IF k = 0 THEN 0 ELSE h[k - 1] + bs[s[k]].size
  BY <1>2
<1>5. T = 0 .. n
  <2>1. 0 \in T /\ T \in SUBSET (0 .. n)
    BY <1>0, <1>4
  <2>2. ASSUME NEW k \in 1 .. n, k - 1 \in T PROVE k \in T
    <3>1. k \in 0 .. n /\ k # 0
      BY <1>0
    <3>2. h[k] = h[k - 1] + bs[s[k]].size /\ g[k] = g[k - 1] + bs[s[k]].size
      BY <1>4, <3>1
    <3> QED BY <2>2, <3>1, <3>2
  <2> HIDE DEF T, n
  <2>3. \A k \in 1 .. n : k - 1 \in T => k \in T
    BY <2>2
  <2> QED BY <1>0, <2>1, <2>3, UpTo
<1>6. n \in T
  <2> HIDE DEF n, T
  <2> QED BY <1>0, <1>5
<1> QED BY <1>3, <1>6

LEMMA SizeHasSums ==
    ASSUME NEW bs \in Seq(Blocks), NEW s \in Seq(1 .. Len(bs))
    PROVE  \E g \in [0 .. Len(s) -> Nat] :
              /\ g[0] = 0 /\ \A k \in 1 .. Len(s) : g[k] = g[k - 1] + bs[s[k]].size
              /\ SizeOf(bs, s) = g[Len(s)]
<1> DEFINE w == [k \in 1 .. Len(s) |-> bs[s[k]].size]
<1>0. Len(s) \in Nat /\ Len(bs) \in Nat
  BY LenProperties
<1>1. w \in [1 .. Len(s) -> Nat]
  <2> SUFFICES ASSUME NEW k \in 1 .. Len(s) PROVE bs[s[k]].size \in Nat
    OBVIOUS
  <2>1. s[k] \in 1 .. Len(bs)
    BY ElementOfSeq
  <2>2. bs[s[k]] \in Blocks
    BY <2>1, ElementOfSeq
  <2> QED BY <2>2 DEF Blocks
<1>2. \A k \in 1 .. Len(s) : w[k] = bs[s[k]].size
  OBVIOUS
<1> HIDE DEF w
<1>3. PICK g \in [0 .. Len(s) -> Nat] :
         g[0] = 0 /\ \A k \in 1 .. Len(s) : g[k] = g[k - 1] + w[k]
  BY <1>0, <1>1, Sums
<1>4. \A k \in 1 .. Len(s) : g[k] = g[k - 1] + bs[s[k]].size
  BY <1>2, <1>3
<1>5. SizeOf(bs, s) = g[Len(s)]
  BY <1>3, <1>4, SizeSums
<1> QED BY <1>3, <1>4, <1>5

LEMMA SizeIsNatural ==
    ASSUME NEW bs \in Seq(Blocks), NEW s \in Seq(1 .. Len(bs))
    PROVE  SizeOf(bs, s) \in Nat
<1>1. PICK g \in [0 .. Len(s) -> Nat] : SizeOf(bs, s) = g[Len(s)]
  BY SizeHasSums
<1>2. Len(s) \in 0 .. Len(s)
  BY LenProperties
<1> QED BY <1>1, <1>2

LEMMA SizeOfNothing == ASSUME NEW bs \in Seq(Blocks) PROVE SizeOf(bs, <<>>) = 0
<1>1. <<>> \in Seq(1 .. Len(bs)) /\ Len(<<>>) = 0
  OBVIOUS
<1>2. PICK s \in Seq(1 .. Len(bs)) : s = <<>> /\ Len(s) = 0
  BY <1>1, Zenon
<1>3. PICK g \in [0 .. Len(s) -> Nat] : g[0] = 0 /\ SizeOf(bs, s) = g[Len(s)]
  BY SizeHasSums
<1> QED BY <1>2, <1>3

\* One block more.
LEMMA SizeGrows ==
    ASSUME NEW bs \in Seq(Blocks), NEW s \in Seq(1 .. Len(bs)), NEW b \in 1 .. Len(bs)
    PROVE  SizeOf(bs, Append(s, b)) = SizeOf(bs, s) + bs[b].size
<1> DEFINE t == Append(s, b)
           n == Len(s)
<1>0. /\ n \in Nat /\ t \in Seq(1 .. Len(bs)) /\ Len(t) = n + 1
      /\ \A k \in 1 .. n : t[k] = s[k]
      /\ t[n + 1] = b
  BY AppendProperties, LenProperties
<1> HIDE DEF t
<1>1. PICK g \in [0 .. n -> Nat] :
        /\ g[0] = 0 /\ \A k \in 1 .. n : g[k] = g[k - 1] + bs[s[k]].size
        /\ SizeOf(bs, s) = g[n]
  BY SizeHasSums
<1> HIDE DEF n
<1> DEFINE h == [k \in 0 .. n + 1 |-> IF k = n + 1 THEN g[n] + bs[b].size ELSE g[k]]
<1>2. bs[b].size \in Nat
  <2>1. bs[b] \in Blocks
    BY ElementOfSeq
  <2> QED BY <2>1 DEF Blocks
<1>3. h \in [0 .. n + 1 -> Nat]
  <2> SUFFICES ASSUME NEW k \in 0 .. n + 1, k # n + 1 PROVE g[k] \in Nat
    <3>1. g[n] \in Nat
      BY <1>0
    <3> QED BY <1>2, <3>1
  <2>1. k \in 0 .. n
    BY <1>0
  <2> QED BY <2>1
<1>4. h[0] = 0 /\ h[n + 1] = g[n] + bs[b].size
  BY <1>0, <1>1
<1>5. ASSUME NEW k \in 1 .. n + 1 PROVE h[k] = h[k - 1] + bs[t[k]].size
  <2>1. CASE k = n + 1
    <3>1. h[k - 1] = g[n] /\ t[k] = b
      BY <1>0, <2>1
    <3> QED BY <1>4, <2>1, <3>1
  <2>2. CASE k # n + 1
    <3>1. /\ k \in 1 .. n /\ k \in 0 .. n + 1 /\ k - 1 \in 0 .. n + 1 /\ k - 1 # n + 1
      BY <1>0, <2>2
    <3>2. h[k] = g[k] /\ h[k - 1] = g[k - 1] /\ t[k] = s[k]
      BY <1>0, <2>2, <3>1
    <3> QED BY <1>1, <3>1, <3>2
  <2> QED BY <2>1, <2>2
<1> HIDE DEF h
<1>6. SizeOf(bs, t) = h[Len(t)]
  <2>1. h \in [0 .. Len(t) -> Nat]
    BY <1>0, <1>3
  <2>2. \A k \in 1 .. Len(t) : h[k] = h[k - 1] + bs[t[k]].size
    BY <1>0, <1>5
  <2> QED BY <1>0, <1>4, <2>1, <2>2, SizeSums
<1> QED BY <1>0, <1>1, <1>4, <1>6 DEF t

LEMMA ConcatAppend ==
    ASSUME NEW S, NEW s \in Seq(S), NEW p \in Seq(S), NEW b \in S
    PROVE  s \o Append(p, b) = Append(s \o p, b) /\ s \o p \in Seq(S)
<1>0. <<b>> \in Seq(S)
  OBVIOUS
<1>1. PICK u \in Seq(S) : u = <<b>>
  BY <1>0, Zenon
<1>2. s \o p \in Seq(S)
  BY ConcatProperties
<1>3. Append(p, b) = p \o u /\ Append(s \o p, b) = (s \o p) \o u
  BY <1>1, <1>2, AppendIsConcat
<1>4. s \o (p \o u) = (s \o p) \o u
  BY ConcatAssociative
<1> QED BY <1>2, <1>3, <1>4

\* The size of two runs is the sum of their sizes.
LEMMA SizeAdds ==
    ASSUME NEW bs \in Seq(Blocks), NEW s \in Seq(1 .. Len(bs)),
           NEW t \in Seq(1 .. Len(bs))
    PROVE  SizeOf(bs, s \o t) = SizeOf(bs, s) + SizeOf(bs, t)
<1> DEFINE S == 1 .. Len(bs)
           part(k) == SubSeq(t, 1, k)
           T == {k \in 0 .. Len(t) :
                    SizeOf(bs, s \o part(k)) = SizeOf(bs, s) + SizeOf(bs, part(k))}
<1>0. Len(t) \in Nat /\ s \in Seq(S) /\ t \in Seq(S)
  BY LenProperties
<1>1. 0 \in T
  <2>1. part(0) = <<>>
    BY <1>0, SubSeqEmpty
  <2> HIDE DEF part
  <2>2. s \o part(0) = s /\ SizeOf(bs, part(0)) = 0 /\ SizeOf(bs, s) \in Nat
    BY <2>1, ConcatEmptySeq, SizeOfNothing, SizeIsNatural
  <2>3. SizeOf(bs, s \o part(0)) = SizeOf(bs, s)
    BY <2>2, Zenon
  <2>4. SizeOf(bs, s \o part(0)) = SizeOf(bs, s) + SizeOf(bs, part(0))
    BY <2>2, <2>3
  <2> QED BY <1>0, <2>4
<1>2. ASSUME NEW k \in 1 .. Len(t), k - 1 \in T PROVE k \in T
  <2>1. /\ part(k - 1) \in Seq(S) /\ part(k) \in Seq(S) /\ t[k] \in S
        /\ part(k) = Append(part(k - 1), t[k])
    <3>1. \A i \in 1 .. Len(t) : t[i] \in S
      BY <1>0, ElementOfSeq
    <3>2. /\ part(k - 1) \in Seq(S) /\ part(k) \in Seq(S)
      BY <1>0, <3>1, SubSeqProperties
    <3>3. part(k) = part(k - 1) \o <<t[k]>>
      BY <1>0, SubSeqRecursiveSecond
    <3> QED BY <3>1, <3>2, <3>3, AppendIsConcat
  <2> DEFINE p == part(k - 1)
             q == part(k)
             b == t[k]
  <2>2. /\ p \in Seq(S) /\ q \in Seq(S) /\ b \in S /\ q = Append(p, b)
        /\ SizeOf(bs, s \o p) = SizeOf(bs, s) + SizeOf(bs, p)
    BY <1>2, <2>1
  <2> HIDE DEF p, q, b, part, S
  <2>3. s \o q = Append(s \o p, b) /\ s \o p \in Seq(S)
    BY <1>0, <2>2, ConcatAppend
  <2>4. SizeOf(bs, s \o q) = SizeOf(bs, s \o p) + bs[b].size
    BY <2>2, <2>3, SizeGrows DEF S
  <2>5. SizeOf(bs, q) = SizeOf(bs, p) + bs[b].size
    BY <2>2, SizeGrows DEF S
  <2>6. bs[b].size \in Nat
    <3>1. bs[b] \in Blocks
      BY <2>2, ElementOfSeq DEF S
    <3> QED BY <3>1 DEF Blocks
  <2>7. SizeOf(bs, s) \in Nat /\ SizeOf(bs, p) \in Nat
    BY <2>2, SizeIsNatural DEF S
  <2>8. SizeOf(bs, s \o q) = SizeOf(bs, s) + SizeOf(bs, q)
    BY <2>2, <2>4, <2>5, <2>6, <2>7
  <2>9. k \in 0 .. Len(t)
    BY <1>0
  <2> QED BY <2>8, <2>9 DEF q
<1>3. T = 0 .. Len(t)
  <2>1. T \in SUBSET (0 .. Len(t))
    OBVIOUS
  <2> HIDE DEF T
  <2> QED BY <1>0, <1>1, <1>2, <2>1, UpTo
<1>4. Len(t) \in T
  <2> HIDE DEF T
  <2> QED BY <1>0, <1>3
<1>5. part(Len(t)) = t
  BY <1>0, SubSeqFull
<1> HIDE DEF part
<1> QED BY <1>4, <1>5

-----------------------------------------------------------------------------
(* Runs of consecutive numbers.                                            *)

LEMMA Ends ==
    ASSUME NEW s \in Seq(Nat), s # <<>>
    PROVE  /\ Len(s) \in Nat \ {0} /\ DOMAIN s = 1 .. Len(s)
           /\ Head(s) = s[1] /\ Last(s) = s[Len(s)]
           /\ Head(s) \in Nat /\ Last(s) \in Nat
<1>1. Len(s) \in Nat \ {0} /\ DOMAIN s = 1 .. Len(s)
  BY EmptySeq, LenProperties
<1>2. Head(s) = s[1] /\ Last(s) = s[Len(s)]
  BY <1>1, HeadTailProperties DEF Last
<1>3. s[1] \in Nat /\ s[Len(s)] \in Nat
  BY <1>1, ElementOfSeq
<1> QED BY <1>1, <1>2, <1>3

LEMMA Grown ==
    ASSUME NEW s \in Seq(Nat), NEW n \in Nat, Consecutive(s),
           s # <<>> => n = Last(s) + 1
    PROVE  /\ Append(s, n) \in Seq(Nat) /\ Append(s, n) # <<>>
           /\ Consecutive(Append(s, n)) /\ Last(Append(s, n)) = n
           /\ Head(Append(s, n)) = IF s = <<>> THEN n ELSE Head(s)
<1> DEFINE t == Append(s, n)
<1>1. /\ t \in Seq(Nat) /\ Len(s) \in Nat /\ Len(t) = Len(s) + 1
      /\ \A i \in 1 .. Len(s) : t[i] = s[i]
      /\ t[Len(s) + 1] = n
  BY AppendProperties
<1> HIDE DEF t
<1>2. t # <<>>
  BY <1>1, EmptySeq
<1>3. Head(t) = t[1] /\ Last(t) = n
  BY <1>1, <1>2, Ends
<1>4. CASE s = <<>>
  <2>1. Len(s) = 0
    BY <1>4, EmptySeq
  <2>2. Len(t) = 1 /\ t[1] = n
    BY <1>1, <2>1
  <2>3. Consecutive(t)
    BY <2>2 DEF Consecutive
  <2> QED BY <1>1, <1>2, <1>3, <1>4, <2>2, <2>3 DEF t
<1>5. CASE s # <<>>
  <2>1. Len(s) \in Nat \ {0} /\ Head(s) = s[1] /\ n = s[Len(s)] + 1
    BY <1>5, Ends
  <2>2. Consecutive(t)
    <3> SUFFICES ASSUME NEW i \in 1 .. Len(t) - 1 PROVE t[i + 1] = t[i] + 1
      BY DEF Consecutive
    <3>1. i \in 1 .. Len(s) /\ i \in Nat
      BY <1>1
    <3>2. CASE i = Len(s)
      BY <1>1, <2>1, <3>1, <3>2
    <3>3. CASE i # Len(s)
      <4>1. i \in 1 .. Len(s) - 1 /\ i + 1 \in 1 .. Len(s)
        BY <1>1, <3>1, <3>3
      <4>2. t[i] = s[i] /\ t[i + 1] = s[i + 1]
        BY <1>1, <3>1, <4>1
      <4> QED BY <4>1, <4>2 DEF Consecutive
    <3> QED BY <3>2, <3>3
  <2> QED BY <1>1, <1>2, <1>3, <1>5, <2>1, <2>2 DEF t
<1> QED BY <1>4, <1>5

LEMMA Joined ==
    ASSUME NEW s \in Seq(Nat), NEW t \in Seq(Nat), s # <<>>, t # <<>>,
           Consecutive(s), Consecutive(t), Head(t) = Last(s) + 1
    PROVE  /\ s \o t \in Seq(Nat) /\ s \o t # <<>> /\ Consecutive(s \o t)
           /\ Head(s \o t) = Head(s) /\ Last(s \o t) = Last(t)
<1> DEFINE u == s \o t
<1>1. /\ u \in Seq(Nat) /\ Len(u) = Len(s) + Len(t)
      /\ \A i \in 1 .. Len(s) + Len(t) :
           u[i] = IF i <= Len(s) THEN s[i] ELSE t[i - Len(s)]
  BY ConcatProperties
<1> HIDE DEF u
<1>2. /\ Len(s) \in Nat \ {0} /\ Head(s) = s[1] /\ Last(s) = s[Len(s)]
      /\ Len(t) \in Nat \ {0} /\ Head(t) = t[1] /\ Last(t) = t[Len(t)]
  BY Ends
<1>3. u # <<>>
  BY <1>1, <1>2, EmptySeq
<1>4. Head(u) = u[1] /\ Last(u) = u[Len(u)]
  BY <1>1, <1>3, Ends
<1>5. Consecutive(u)
  <2> SUFFICES ASSUME NEW i \in 1 .. Len(u) - 1 PROVE u[i + 1] = u[i] + 1
    BY DEF Consecutive
  <2>0. /\ Len(s) \in Nat \ {0} /\ Len(t) \in Nat \ {0}
        /\ i \in 1 .. Len(s) + Len(t) - 1
    BY <1>1, <1>2
  <2>1. CASE i < Len(s)
    <3>1. /\ i \in 1 .. Len(s) - 1 /\ i + 1 <= Len(s) /\ i <= Len(s)
          /\ i \in 1 .. Len(s) + Len(t) /\ i + 1 \in 1 .. Len(s) + Len(t)
      BY <2>0, <2>1
    <3>2. u[i] = s[i] /\ u[i + 1] = s[i + 1]
      BY <1>1, <3>1
    <3>3. s[i + 1] = s[i] + 1
      BY <3>1 DEF Consecutive
    <3> QED BY <3>2, <3>3
  <2>2. CASE i = Len(s)
    <3>1. /\ (i + 1) - Len(s) = 1 /\ ~ (i + 1 <= Len(s)) /\ i <= Len(s)
          /\ i \in 1 .. Len(s) + Len(t) /\ i + 1 \in 1 .. Len(s) + Len(t)
      BY <2>0, <2>2
    <3>2. u[i] = s[Len(s)] /\ u[i + 1] = t[1]
      BY <1>1, <2>2, <3>1
    <3> QED BY <1>2, <3>1, <3>2
  <2>3. CASE i > Len(s)
    <3>1. /\ i - Len(s) \in 1 .. Len(t) - 1 /\ (i + 1) - Len(s) = (i - Len(s)) + 1
          /\ ~ (i + 1 <= Len(s)) /\ ~ (i <= Len(s))
          /\ i \in 1 .. Len(s) + Len(t) /\ i + 1 \in 1 .. Len(s) + Len(t)
      BY <2>0, <2>3
    <3>2. u[i] = t[i - Len(s)]
      BY <1>1, <3>1
    <3>3. u[i + 1] = t[(i + 1) - Len(s)]
      BY <1>1, <3>1
    <3>4. t[(i - Len(s)) + 1] = t[i - Len(s)] + 1
      BY <3>1 DEF Consecutive
    <3> QED BY <3>1, <3>2, <3>3, <3>4
  <2> QED BY <2>0, <2>1, <2>2, <2>3
<1> QED BY <1>1, <1>2, <1>3, <1>4, <1>5 DEF u

LEMMA PartEnds ==
    ASSUME NEW a \in Nat \ {0}, NEW b \in Nat, a <= b, NEW n, n = b - a + 1
    PROVE  1 \in 1 .. b - a + 1 /\ n \in 1 .. b - a + 1 /\ a + 1 - 1 = a /\ a + n - 1 = b
OBVIOUS

LEMMA Part ==
    ASSUME NEW s \in Seq(Nat), Consecutive(s), NEW a \in Nat \ {0}, NEW b \in Nat,
           b <= Len(s)
    PROVE  /\ SubSeq(s, a, b) \in Seq(Nat) /\ Consecutive(SubSeq(s, a, b))
           /\ (SubSeq(s, a, b) = <<>>) = (a > b)
           /\ a <= b => /\ Head(SubSeq(s, a, b)) = s[a]
                        /\ Last(SubSeq(s, a, b)) = s[b]
<1> DEFINE t == SubSeq(s, a, b)
<1>1. /\ t \in Seq(Nat) /\ Len(s) \in Nat
      /\ Len(t) \in Nat /\ Len(t) = IF a <= b THEN b - a + 1 ELSE 0
      /\ \A i \in 1 .. b - a + 1 : t[i] = s[a + i - 1]
  <2>1. Len(s) \in Nat /\ \A i \in a .. b : s[i] \in Nat
    BY LenProperties, ElementOfSeq
  <2> QED BY <2>1, SubSeqProperties
<1> HIDE DEF t
<1>2. (t = <<>>) = (a > b)
  BY <1>1, EmptySeq
<1>3. Consecutive(t)
  <2> SUFFICES ASSUME NEW i \in 1 .. Len(t) - 1 PROVE t[i + 1] = t[i] + 1
    BY DEF Consecutive
  <2>1. a + i - 1 \in 1 .. Len(s) - 1 /\ a + (i + 1) - 1 = (a + i - 1) + 1
    <3>1. Len(t) = b - a + 1 /\ b \in Nat /\ a \in Nat \ {0} /\ b <= Len(s)
      BY <1>1
    <3> QED BY <1>1, <3>1
  <2>2. i \in 1 .. b - a + 1 /\ i + 1 \in 1 .. b - a + 1
    BY <1>1
  <2>3. t[i] = s[a + i - 1] /\ t[i + 1] = s[(a + i - 1) + 1]
    BY <1>1, <2>1, <2>2
  <2>4. s[(a + i - 1) + 1] = s[a + i - 1] + 1
    BY <2>1 DEF Consecutive
  <2> QED BY <2>3, <2>4
<1>4. ASSUME a <= b PROVE Head(t) = s[a] /\ Last(t) = s[b]
  <2>1. Head(t) = t[1] /\ Last(t) = t[Len(t)]
    <3>1. a <= b /\ ~ (a > b)
      BY <1>4
    <3>2. t \in Seq(Nat) /\ t # <<>>
      BY <1>1, <1>2, <3>1
    <3> QED BY <3>2, Ends
  <2>0. Len(t) = b - a + 1
    BY <1>1, <1>4
  <2>2. /\ 1 \in 1 .. b - a + 1 /\ Len(t) \in 1 .. b - a + 1
        /\ a + 1 - 1 = a /\ a + Len(t) - 1 = b
    BY <1>4, <2>0, PartEnds
  <2>3. t[1] = s[a + 1 - 1] /\ t[Len(t)] = s[a + Len(t) - 1]
    BY <1>1, <2>2
  <2> QED BY <2>1, <2>2, <2>3
<1> QED BY <1>1, <1>2, <1>3, <1>4 DEF t

-----------------------------------------------------------------------------
(* Partitions.                                                             *)

LEMMA Cores ==
    ASSUME NEW cs \in Seq(Seq(Nat))
    PROVE  /\ Len(cs) \in Nat /\ DOMAIN cs = 1 .. Len(cs)
           /\ (cs = <<>>) = (Len(cs) = 0)
           /\ \A k \in 1 .. Len(cs) : cs[k] \in Seq(Nat)
           /\ Last(cs) = cs[Len(cs)]
BY EmptySeq, LenProperties, ElementOfSeq DEF Last

\* A partition with nothing open.
LEMMA Uncut ==
    ASSUME NEW cs \in Seq(Seq(Nat)), NEW n \in Nat, cs # <<>>
    PROVE  Partition(cs, <<>>, n) <=>
             /\ \A k \in 1 .. Len(cs) : cs[k] # <<>> /\ Consecutive(cs[k])
             /\ \A k \in 1 .. Len(cs) - 1 : Head(cs[k + 1]) = Last(cs[k]) + 1
             /\ Head(cs[1]) = 1
             /\ n = Last(cs[Len(cs)])
<1>1. Consecutive(<<>>)
  BY EmptySeq DEF Consecutive
<1>2. DOMAIN cs = 1 .. Len(cs) /\ Last(cs) = cs[Len(cs)]
  BY Cores
<1> QED BY <1>1, <1>2, Zenon DEF Partition

\* The core that is packed is closed.
LEMMA Closed ==
    ASSUME NEW cs \in Seq(Seq(Nat)), NEW r \in Seq(Nat), NEW n \in Nat,
           r # <<>>, Partition(cs, r, n)
    PROVE  /\ Append(cs, r) \in Seq(Seq(Nat))
           /\ Partition(Append(cs, r), <<>>, n)
<1> DEFINE t == Append(cs, r)
<1>1. /\ t \in Seq(Seq(Nat)) /\ Len(cs) \in Nat /\ Len(t) = Len(cs) + 1
      /\ \A i \in 1 .. Len(cs) : t[i] = cs[i]
      /\ t[Len(cs) + 1] = r
  BY AppendProperties
<1> HIDE DEF t
<1>2. /\ DOMAIN t = 1 .. Len(cs) + 1 /\ t # <<>> /\ Last(t) = r
      /\ DOMAIN cs = 1 .. Len(cs) /\ (cs = <<>>) = (Len(cs) = 0)
      /\ Last(cs) = cs[Len(cs)]
  BY <1>1, Cores
<1>3. \A k \in DOMAIN t : t[k] # <<>> /\ Consecutive(t[k])
  <2> SUFFICES ASSUME NEW k \in 1 .. Len(cs) + 1
               PROVE  t[k] # <<>> /\ Consecutive(t[k])
    BY <1>2
  <2>1. CASE k = Len(cs) + 1
    BY <1>1, <2>1 DEF Partition
  <2>2. CASE k # Len(cs) + 1
    <3>1. k \in 1 .. Len(cs) /\ k \in DOMAIN cs
      BY <1>1, <1>2, <2>2
    <3> QED BY <1>1, <3>1 DEF Partition
  <2> QED BY <2>1, <2>2
<1>4. \A k \in 1 .. Len(t) - 1 : Head(t[k + 1]) = Last(t[k]) + 1
  <2> SUFFICES ASSUME NEW k \in 1 .. Len(cs)
               PROVE  Head(t[k + 1]) = Last(t[k]) + 1
    BY <1>1
  <2>1. CASE k = Len(cs)
    <3>1. cs # <<>> /\ t[k] = Last(cs) /\ t[k + 1] = r
      BY <1>1, <1>2, <2>1
    <3> QED BY <3>1 DEF Partition
  <2>2. CASE k # Len(cs)
    <3>1. k \in 1 .. Len(cs) - 1 /\ k + 1 \in 1 .. Len(cs)
      BY <1>1, <2>2
    <3>2. t[k] = cs[k] /\ t[k + 1] = cs[k + 1]
      BY <1>1, <3>1
    <3> QED BY <3>1, <3>2 DEF Partition
  <2> QED BY <2>1, <2>2
<1>5. Head(t[1]) = 1
  <2>1. CASE cs = <<>>
    BY <1>1, <1>2, <2>1 DEF Partition
  <2>2. CASE cs # <<>>
    <3>1. 1 \in 1 .. Len(cs)
      BY <1>1, <1>2, <2>2
    <3> QED BY <1>1, <2>2, <3>1 DEF Partition
  <2> QED BY <2>1, <2>2
<1>6. n = Last(Last(t))
  BY <1>2 DEF Partition
<1>7. Consecutive(<<>>)
  BY DEF Consecutive
<1>8. Partition(t, <<>>, n)
  BY <1>2, <1>3, <1>4, <1>5, <1>6, <1>7 DEF Partition
<1> QED BY <1>1, <1>8 DEF t

\* The core that is packed takes the next block.
LEMMA Extended ==
    ASSUME NEW cs \in Seq(Seq(Nat)), NEW r \in Seq(Nat), NEW n \in Nat,
           Partition(cs, r, n)
    PROVE  /\ Append(r, n + 1) \in Seq(Nat) /\ Append(r, n + 1) # <<>>
           /\ Partition(cs, Append(r, n + 1), n + 1)
<1>1. Consecutive(r) /\ (r # <<>> => n + 1 = Last(r) + 1)
  BY DEF Partition
<1>2. /\ Append(r, n + 1) \in Seq(Nat) /\ Append(r, n + 1) # <<>>
      /\ Consecutive(Append(r, n + 1)) /\ Last(Append(r, n + 1)) = n + 1
      /\ Head(Append(r, n + 1)) = IF r = <<>> THEN n + 1 ELSE Head(r)
  BY <1>1, Grown, n + 1 \in Nat
<1>3. Head(Append(r, n + 1)) = IF cs = <<>> THEN 1 ELSE Last(Last(cs)) + 1
  BY <1>2 DEF Partition
<1> QED BY <1>2, <1>3 DEF Partition

\* What is left is added to the last core.
LEMMA Merged ==
    ASSUME NEW cs \in Seq(Seq(Nat)), NEW r \in Seq(Nat), NEW n \in Nat,
           cs # <<>>, r # <<>>, Partition(cs, r, n)
    PROVE  /\ [cs EXCEPT ![Len(cs)] = @ \o r] \in Seq(Seq(Nat))
           /\ Partition([cs EXCEPT ![Len(cs)] = @ \o r], <<>>, n)
<1> DEFINE t == [cs EXCEPT ![Len(cs)] = @ \o r]
           c == cs[Len(cs)] \o r
<1>0. Len(cs) \in Nat \ {0}
  BY Cores
<1>1. /\ Len(cs) \in Nat \ {0} /\ DOMAIN cs = 1 .. Len(cs)
      /\ Len(cs) \in 1 .. Len(cs) /\ cs[Len(cs)] \in Seq(Nat)
      /\ Last(cs) = cs[Len(cs)]
  BY Cores
<1>2. /\ c \in Seq(Nat) /\ c # <<>> /\ Consecutive(c)
      /\ Head(c) = Head(cs[Len(cs)]) /\ Last(c) = Last(r)
  <2>1. /\ cs[Len(cs)] # <<>> /\ Consecutive(cs[Len(cs)]) /\ Consecutive(r)
        /\ Head(r) = Last(cs[Len(cs)]) + 1
    BY <1>1 DEF Partition
  <2> QED BY <1>1, <2>1, Joined
<1> HIDE DEF c
<1>3. /\ t \in Seq(Seq(Nat)) /\ Len(t) = Len(cs)
      /\ \A i \in 1 .. Len(cs) : t[i] = IF i = Len(cs) THEN c ELSE cs[i]
  BY <1>1, <1>2, ExceptSeq DEF c
<1> HIDE DEF t
<1>4. /\ DOMAIN t = 1 .. Len(cs) /\ t # <<>> /\ Last(t) = c
  BY <1>1, <1>3, Cores
<1>5. /\ \A k \in 1 .. Len(cs) : cs[k] # <<>> /\ Consecutive(cs[k])
      /\ \A k \in 1 .. Len(cs) - 1 : Head(cs[k + 1]) = Last(cs[k]) + 1
      /\ Head(cs[1]) = 1 /\ n = Last(r)
  BY <1>1, Zenon DEF Partition
<1>6. \A k \in 1 .. Len(t) : t[k] # <<>> /\ Consecutive(t[k])
  BY <1>1, <1>2, <1>3, <1>5
<1>7. \A k \in 1 .. Len(t) - 1 : Head(t[k + 1]) = Last(t[k]) + 1
  <2> SUFFICES ASSUME NEW k \in 1 .. Len(cs) - 1
               PROVE  Head(t[k + 1]) = Last(t[k]) + 1
    BY <1>3
  <2>1. k \in 1 .. Len(cs) /\ k + 1 \in 1 .. Len(cs) /\ k # Len(cs)
    BY <1>0
  <2>2. t[k] = cs[k] /\ t[k + 1] = IF k + 1 = Len(cs) THEN c ELSE cs[k + 1]
    BY <1>3, <2>1
  <2>3. Head(t[k + 1]) = Head(cs[k + 1])
    BY <1>2, <2>2
  <2> QED BY <1>5, <2>2, <2>3
<1>8. Head(t[1]) = 1
  <2>1. 1 \in 1 .. Len(cs)
    BY <1>1
  <2>2. t[1] = IF 1 = Len(cs) THEN c ELSE cs[1]
    BY <1>3, <2>1
  <2> QED BY <1>2, <1>5, <2>2
<1>9. n = Last(t[Len(t)])
  BY <1>1, <1>2, <1>3, <1>5
<1>10. Partition(t, <<>>, n)
  BY <1>3, <1>4, <1>6, <1>7, <1>8, <1>9, Uncut
<1> QED BY <1>3, <1>10 DEF t

\* A run that is divided.
LEMMA Divided ==
    ASSUME NEW s \in Seq(Nat), Consecutive(s), NEW a \in Nat \ {0}, a < Len(s)
    PROVE  LET r == SubSeq(s, 1, a)
               m == SubSeq(s, a + 1, Len(s))
           IN  /\ r \in Seq(Nat) /\ r # <<>> /\ Consecutive(r)
               /\ Head(r) = Head(s)
               /\ m \in Seq(Nat) /\ m # <<>> /\ Consecutive(m)
               /\ Head(m) = Last(r) + 1 /\ Last(m) = Last(s)
<1> DEFINE r == SubSeq(s, 1, a)
           m == SubSeq(s, a + 1, Len(s))
<1>1. /\ Len(s) \in Nat /\ a \in 1 .. Len(s) - 1 /\ s # <<>>
      /\ a + 1 \in Nat \ {0} /\ Len(s) \in Nat /\ a <= Len(s)
      /\ ~ (1 > a) /\ ~ (a + 1 > Len(s)) /\ a + 1 <= Len(s) /\ 1 <= a
  BY EmptySeq, LenProperties
<1>2. Head(s) = s[1] /\ Last(s) = s[Len(s)]
  BY <1>1, Ends
<1>3. /\ r \in Seq(Nat) /\ Consecutive(r) /\ r # <<>>
      /\ Head(r) = s[1] /\ Last(r) = s[a]
  <2>1. /\ SubSeq(s, 1, a) \in Seq(Nat) /\ Consecutive(SubSeq(s, 1, a))
        /\ (SubSeq(s, 1, a) = <<>>) = (1 > a)
        /\ 1 <= a => Head(SubSeq(s, 1, a)) = s[1] /\ Last(SubSeq(s, 1, a)) = s[a]
    <3>1. 1 \in Nat \ {0} /\ a \in Nat /\ a <= Len(s)
      BY <1>1
    <3> QED BY <3>1, Part
  <2> QED BY <1>1, <2>1
<1>4. /\ m \in Seq(Nat) /\ Consecutive(m) /\ m # <<>>
      /\ Head(m) = s[a + 1] /\ Last(m) = s[Len(s)]
  <2> DEFINE b == a + 1
             e == Len(s)
  <2>1. b \in Nat \ {0} /\ e \in Nat /\ e <= Len(s) /\ b <= e /\ ~ (b > e)
    BY <1>1
  <2>2. m = SubSeq(s, b, e) /\ s[a + 1] = s[b] /\ s[Len(s)] = s[e]
    OBVIOUS
  <2> HIDE DEF b, e
  <2>3. /\ SubSeq(s, b, e) \in Seq(Nat) /\ Consecutive(SubSeq(s, b, e))
        /\ (SubSeq(s, b, e) = <<>>) = (b > e)
        /\ b <= e => Head(SubSeq(s, b, e)) = s[b] /\ Last(SubSeq(s, b, e)) = s[e]
    BY <2>1, Part
  <2> QED BY <2>1, <2>2, <2>3
<1>5. s[a + 1] = s[a] + 1
  BY <1>1 DEF Consecutive
<1> QED BY <1>2, <1>3, <1>4, <1>5

LEMMA Replaced ==
    ASSUME NEW v \in Seq(Seq(Nat)), NEW k \in 1 .. Len(v), NEW c \in Seq(Nat),
           NEW t, t = [v EXCEPT ![k] = c]
    PROVE  /\ t \in Seq(Seq(Nat)) /\ Len(t) = Len(v)
           /\ \A i \in 1 .. Len(v) : t[i] = IF i = k THEN c ELSE v[i]
BY ExceptSeq

LEMMA ReplacedTwice ==
    ASSUME NEW cs \in Seq(Seq(Nat)),
           NEW j \in 1 .. Len(cs), NEW r \in Seq(Nat),
           NEW k \in 1 .. Len(cs), NEW c \in Seq(Nat),
           NEW v, v = [cs EXCEPT ![j] = r], NEW t, t = [v EXCEPT ![k] = c]
    PROVE  /\ t \in Seq(Seq(Nat)) /\ Len(t) = Len(cs)
           /\ \A i \in 1 .. Len(cs) :
                 t[i] = IF i = k THEN c ELSE IF i = j THEN r ELSE cs[i]
<1>1. v \in Seq(Seq(Nat)) /\ Len(v) = Len(cs)
  BY Replaced
<1>2. \A i \in 1 .. Len(cs) : v[i] = IF i = j THEN r ELSE cs[i]
  BY Replaced
<1>3. k \in 1 .. Len(v)
  BY <1>1
<1>4. t \in Seq(Seq(Nat)) /\ Len(t) = Len(v)
  BY <1>1, <1>3, Replaced
<1>5. \A i \in 1 .. Len(v) : t[i] = IF i = k THEN c ELSE v[i]
  <2> SUFFICES ASSUME NEW i \in 1 .. Len(v)
               PROVE  t[i] = IF i = k THEN c ELSE v[i]
    OBVIOUS
  <2>1. DOMAIN v = 1 .. Len(v)
    BY <1>1, Cores
  <2> QED BY <2>1
<1> QED BY <1>1, <1>2, <1>4, <1>5

LEMMA Places ==
    ASSUME NEW L \in Nat, L > 1
    PROVE  /\ L - 1 \in 1 .. L /\ L \in 1 .. L /\ 1 \in 1 .. L
           /\ L - 1 \in 1 .. L - 1 /\ (L - 1) + 1 = L /\ L # 1 /\ L # L - 1
           /\ L # 0
OBVIOUS

LEMMA Below ==
    ASSUME NEW n \in Nat, NEW i \in 1 .. n, i # n
    PROVE  i \in 1 .. n - 1
OBVIOUS

LEMMA NeighbourPlaces ==
    ASSUME NEW L \in Nat, NEW k \in 1 .. L - 1
    PROVE  k \in 1 .. L /\ k + 1 \in 1 .. L /\ k # L
OBVIOUS

\* The end of a core moves to the core after it.
LEMMA Shifted ==
    ASSUME NEW cs \in Seq(Seq(Nat)), NEW n \in Nat, Partition(cs, <<>>, n),
           NEW L \in Nat, L = Len(cs), L > 1,
           NEW r \in Seq(Nat), r # <<>>, Consecutive(r),
           NEW m \in Seq(Nat), m # <<>>, Consecutive(m),
           Head(r) = Head(cs[L - 1]), Head(m) = Last(r) + 1,
           Last(m) = Last(cs[L - 1])
    PROVE  LET t == [cs EXCEPT ![L - 1] = r, ![L] = m \o @]
           IN  t \in Seq(Seq(Nat)) /\ Partition(t, <<>>, n)
<1> DEFINE c == m \o cs[L]
           v == [cs EXCEPT ![L - 1] = r]
           t == [v EXCEPT ![L] = c]
<1>0. /\ L \in Nat /\ L - 1 \in 1 .. L /\ L \in 1 .. L /\ 1 \in 1 .. L
      /\ L - 1 \in 1 .. L - 1 /\ (L - 1) + 1 = L /\ L # 1 /\ L # L - 1
  BY Places
<1>1. /\ L \in Nat /\ L - 1 \in 1 .. L /\ L \in 1 .. L /\ cs # <<>>
      /\ DOMAIN cs = 1 .. L /\ cs[L - 1] \in Seq(Nat) /\ cs[L] \in Seq(Nat)
  BY <1>0, Cores
<1>2. /\ \A k \in 1 .. L : cs[k] # <<>> /\ Consecutive(cs[k])
      /\ \A k \in 1 .. L - 1 : Head(cs[k + 1]) = Last(cs[k]) + 1
      /\ Head(cs[1]) = 1 /\ n = Last(cs[L])
  BY <1>1, Uncut
<1>3. Head(cs[L]) = Last(m) + 1
  <2>1. Head(cs[(L - 1) + 1]) = Last(cs[L - 1]) + 1
    BY <1>0, <1>2
  <2> QED BY <1>0, <2>1
<1>8. /\ c \in Seq(Nat) /\ c # <<>> /\ Consecutive(c)
      /\ Head(c) = Head(m) /\ Last(c) = Last(cs[L])
  <2>1. cs[L] # <<>> /\ Consecutive(cs[L])
    BY <1>0, <1>2
  <2> QED BY <1>1, <1>3, <2>1, Joined
<1>9. t = [cs EXCEPT ![L - 1] = r, ![L] = m \o @]
  BY <1>0, <1>1 DEF c
<1> HIDE DEF c, t
<1>10. t \in Seq(Seq(Nat)) /\ Len(t) = L
  BY <1>1, <1>8, ReplacedTwice DEF t
<1>12. \A i \in 1 .. L : t[i] = IF i = L THEN c ELSE IF i = L - 1 THEN r ELSE cs[i]
  BY <1>1, <1>8, ReplacedTwice DEF t
<1>13. DOMAIN t = 1 .. L /\ t # <<>> /\ Last(t) = c
  <2>1. t # <<>> /\ t[L] = c
    <3>1. t[L] = c
      BY <1>0, <1>12
    <3>2. Len(t) # 0
      BY <1>0, <1>10
    <3> QED BY <3>1, <3>2, EmptySeq
  <2> QED BY <1>0, <1>10, <2>1, Cores
<1>14. \A k \in DOMAIN t : t[k] # <<>> /\ Consecutive(t[k])
  <2> SUFFICES ASSUME NEW k \in 1 .. L PROVE t[k] # <<>> /\ Consecutive(t[k])
    BY <1>13
  <2> QED BY <1>8, <1>12, <1>2
<1>15. \A k \in 1 .. Len(t) - 1 : Head(t[k + 1]) = Last(t[k]) + 1
  <2> SUFFICES ASSUME NEW k \in 1 .. L - 1
               PROVE  Head(t[k + 1]) = Last(t[k]) + 1
    BY <1>10
  <2>1. k \in 1 .. L /\ k + 1 \in 1 .. L /\ k # L
    BY NeighbourPlaces
  <2>2. CASE k = L - 1
    <3>1. t[k] = r /\ t[k + 1] = c
      BY <1>0, <1>12, <2>1, <2>2
    <3> QED BY <1>8, <3>1
  <2>3. CASE k # L - 1
    <3>1. t[k] = cs[k] /\ k + 1 # L
      BY <1>0, <1>12, <2>1, <2>3
    <3>2. Head(cs[k + 1]) = Last(cs[k]) + 1
      BY <1>2
    <3>3. t[k + 1] = IF k + 1 = L - 1 THEN r ELSE cs[k + 1]
      BY <1>12, <2>1, <3>1
    <3>4. Head(t[k + 1]) = Head(cs[k + 1])
      BY <3>3
    <3> QED BY <3>1, <3>2, <3>4
  <2> QED BY <2>2, <2>3
<1>16. Head(t[1]) = 1
  <2>2. t[1] = IF 1 = L - 1 THEN r ELSE cs[1]
    BY <1>0, <1>12
  <2> QED BY <1>2, <2>2
<1>17. n = Last(t[Len(t)])
  BY <1>0, <1>2, <1>8, <1>10, <1>12
<1>18. Partition(t, <<>>, n)
  BY <1>10, <1>13, <1>14, <1>15, <1>16, <1>17, Uncut
<1> QED BY <1>9, <1>10, <1>18

-----------------------------------------------------------------------------
(* What the two searches find.                                             *)

\* The greatest member of A up to n.
LEMMA Greatest ==
    ASSUME NEW n \in Nat, NEW A, 0 \in A
    PROVE  \E j \in 0 .. n : j \in A /\ \A i \in j + 1 .. n : i \notin A
<1> DEFINE T == {m \in 0 .. n : n - m \in A}
<1>1. T \in SUBSET Nat
  OBVIOUS
<1>2. T # {}
  <2>1. n \in 0 .. n /\ n - n = 0
    OBVIOUS
  <2> QED BY <2>1
<1> HIDE DEF T
<1>3. PICK m \in T : \A y \in T : m <= y
  BY <1>1, <1>2, Least
<1>4. m \in 0 .. n /\ n - m \in A /\ n - m \in 0 .. n
  BY <1>3 DEF T
<1>5. ASSUME NEW i \in (n - m) + 1 .. n, i \in A PROVE FALSE
  <2>1. n - i \in 0 .. n /\ n - (n - i) = i /\ ~ (m <= n - i)
    BY <1>4
  <2>2. n - i \in T
    BY <1>5, <2>1 DEF T
  <2> QED BY <1>3, <2>1, <2>2
<1> QED BY <1>4, <1>5

LEMMA LongestRepeat ==
    ASSUME NEW before \in Seq(Nat), NEW c, ConfigAssumption,
           blocks \in Seq(Blocks)
    PROVE  \E j \in 0 .. Len(before) :
              /\ Repeats(before, j, c)
              /\ \A i \in j + 1 .. Len(before) : ~Repeats(before, i, c)
<1> DEFINE n == Len(before)
           A == {i \in 0 .. n : Repeats(before, i, c)}
<1>1. n \in Nat /\ 0 \in 0 .. n /\ n - 0 + 1 > n
  BY LenProperties
<1>2. SubSeq(before, n - 0 + 1, n) = <<>>
  <2>1. Len(SubSeq(before, n + 1, n)) = 0 /\ SubSeq(before, n + 1, n) \in Seq(Nat)
    BY <1>1, SubSeqProperties, ElementOfSeq
  <2>2. n - 0 + 1 = n + 1
    BY <1>1
  <2> QED BY <2>1, <2>2, EmptySeq
<1>3. Repeats(before, 0, c)
  <2>1. Size(<<>>) <= Overlap
    BY SizeOfNothing, SizeIsOfBlocks DEF ConfigAssumption
  <2>2. /\ \A i \in DOMAIN SubSeq(before, n - 0 + 1, n) :
              blocks[SubSeq(before, n - 0 + 1, n)[i]].path
                = blocks[Head(c)].path
        /\ Size(SubSeq(before, n - 0 + 1, n)) <= Overlap
    <3>1. DOMAIN <<>> = {}
      OBVIOUS
    <3> QED BY <1>2, <2>1, <3>1
  <2> QED BY <2>2 DEF Repeats
<1>4. 0 \in A
  BY <1>1, <1>3
<1> HIDE DEF A
<1>5. PICK j \in 0 .. n : j \in A /\ \A i \in j + 1 .. n : i \notin A
  BY <1>1, <1>4, Greatest
<1>6. ASSUME NEW i \in j + 1 .. n PROVE ~Repeats(before, i, c)
  <2>1. i \in 0 .. n
    BY <1>1
  <2> QED BY <1>5, <2>1 DEF A
<1> QED BY <1>5, <1>6 DEF A

LEMMA LastGroup ==
    ASSUME NEW core \in Seq(Nat), core # <<>>
    PROVE  Before(core) \in 0 .. Len(core) - 1
<1> DEFINE n == Len(core)
           Alone(k) == /\ \A i \in k + 1 .. n :
                             blocks[core[i]].path = blocks[Last(core)].path
                       /\ k > 0 => blocks[core[k]].path # blocks[Last(core)].path
           A == {0} \cup {i \in 1 .. n :
                            blocks[core[i]].path # blocks[Last(core)].path}
<1>1. n \in Nat \ {0} /\ Last(core) = core[n] /\ n - 1 \in Nat
  BY Ends
<1>2. PICK k \in 0 .. n - 1 : k \in A /\ \A i \in k + 1 .. n - 1 : i \notin A
  <2>1. 0 \in A /\ n - 1 \in Nat
    BY <1>1
  <2> HIDE DEF n, A
  <2> QED BY <2>1, Greatest
<1>3. Alone(k)
  <2>1. ASSUME NEW i \in k + 1 .. n
        PROVE  blocks[core[i]].path = blocks[Last(core)].path
    <3>1. CASE i = n
      BY <1>1, <3>1
    <3>2. CASE i # n
      <4>1. i \in k + 1 .. n - 1 /\ i \in 1 .. n
        BY <1>1, <1>2, <3>2
      <4>2. i \notin A
        BY <1>2, <4>1
      <4> QED BY <4>1, <4>2
    <3> QED BY <3>1, <3>2
  <2>2. ASSUME k > 0 PROVE blocks[core[k]].path # blocks[Last(core)].path
    BY <1>2, <2>2
  <2> QED BY <2>1, <2>2
<1>4. \E j \in 0 .. n - 1 : Alone(j)
  BY <1>3
<1>5. Before(core) = CHOOSE j \in 0 .. n - 1 : Alone(j)
  BY DEF Before
<1> HIDE DEF Alone, n
<1>6. Before(core) \in 0 .. n - 1
  BY <1>4, <1>5
<1> QED BY <1>6 DEF n

-----------------------------------------------------------------------------
(* Reading.                                                                *)

LEMMA Start == ASSUME ConfigAssumption, Init PROVE ChunkInv
<1>1. /\ phase = "read" /\ path = <<>> /\ blocks = <<>> /\ next = 1
      /\ cores = <<>> /\ current = <<>> /\ count = 0 /\ drafts = <<>>
  BY DEF Init
<1>2. DOMAIN <<>> = {}
  OBVIOUS
<1>3. ChunkerTypeOK
  BY <1>1, EmptySeq DEF ChunkerTypeOK
<1>4. PhaseInv
  BY <1>1 DEF PhaseInv
<1>5. Covered
  <2>1. Len(<<>>) = 0
    OBVIOUS
  <2> QED BY <1>1, <1>2, <2>1 DEF Covered, Packed, Partition, Consecutive
<1>6. Drafted
  BY <1>1, <1>2 DEF Drafted
<1> QED BY <1>3, <1>4, <1>5, <1>6 DEF ChunkInv

\* Blocks are only read before anything is packed.
LEMMA KeepsWhileReading ==
    ASSUME ChunkInv, phase = "read", phase' = "read",
           UNCHANGED <<next, cores, current, count, drafts>>,
           path' \in Seq(Titles), blocks' \in Seq(Blocks)
    PROVE  ChunkInv'
<1>1. ChunkerTypeOK'
  BY DEF ChunkInv, ChunkerTypeOK
<1>2. PhaseInv'
  BY DEF ChunkInv, PhaseInv
<1>3. Covered'
  BY DEF ChunkInv, Covered, Packed, Partition
<1>4. Drafted'
  <2>1. drafts = <<>> /\ DOMAIN <<>> = {}
    BY DEF ChunkInv, PhaseInv
  <2> QED BY <2>1 DEF Drafted
<1> QED BY <1>1, <1>2, <1>3, <1>4 DEF ChunkInv

\* A block, or the two parts of an oversized one, keeps what was read a
\* sequence of blocks.
LEMMA ReadingOne ==
    ASSUME ConfigAssumption, ChunkInv,
           NEW kind \in {"heading", "body"}, NEW size \in Nat \ {0},
           NEW p \in Seq(Titles), Read(kind, size, p)
    PROVE  ChunkInv'
<1>1. blocks \in Seq(Blocks)
  BY DEF ChunkInv, ChunkerTypeOK
<1>2. PICK parts \in Parts(kind, size, p) : blocks' = blocks \o parts
  BY DEF Read
<1>3. parts \in Seq(Blocks)
  <2>1. CASE size <= Maximum
    <3>1. parts = <<Block(kind, size, p)>>
      BY <1>2, <2>1 DEF Parts
    <3>2. Block(kind, size, p) \in Blocks
      BY DEF Block, Blocks
    <3> QED BY <3>1, <3>2
  <2>2. CASE ~ (size <= Maximum)
    <3>1. PICK first \in 1 .. size - 1 :
             parts = <<Block(kind, first, p), Block(kind, size - first, p)>>
      BY <1>2, <2>2 DEF Parts
    <3>2. first \in Nat /\ size - first \in Nat
      BY <3>1
    <3>3. /\ Block(kind, first, p) \in Blocks
          /\ Block(kind, size - first, p) \in Blocks
      BY <3>2 DEF Block, Blocks
    <3> QED BY <3>1, <3>3
  <2> QED BY <2>1, <2>2
<1>4. blocks' \in Seq(Blocks)
  BY <1>1, <1>2, <1>3, ConcatProperties
<1>5. /\ phase = "read" /\ phase' = "read" /\ path' = p
      /\ UNCHANGED <<next, cores, current, count, drafts>>
  BY DEF Read
<1> QED BY <1>4, <1>5, KeepsWhileReading

LEMMA Reading == ASSUME ConfigAssumption, ChunkInv, Reads PROVE ChunkInv'
<1>1. path \in Seq(Titles)
  BY DEF ChunkInv, ChunkerTypeOK
<1>2. ASSUME NEW level \in 1 .. MaxLevel, NEW title \in Titles,
             Heading(level, title)
      PROVE  ChunkInv'
  <2> DEFINE kept == IF level - 1 <= Len(path) THEN SubSeq(path, 1, level - 1)
                     ELSE path
  <2>1. level \in Nat \ {0} /\ Len(path) \in Nat
    BY <1>1, LenProperties DEF ConfigAssumption
  <2>2. kept \in Seq(Titles)
    <3>1. CASE level - 1 <= Len(path)
      <4>1. \A i \in 1 .. level - 1 : path[i] \in Titles
        BY <1>1, <2>1, <3>1, ElementOfSeq
      <4> QED BY <1>1, <2>1, <3>1, <4>1, SubSeqProperties
    <3> QED BY <1>1, <3>1
  <2>3. Read("heading", TitleSize[title], Append(kept, title))
    BY <1>2 DEF Heading
  <2> HIDE DEF kept
  <2>4. Append(kept, title) \in Seq(Titles)
    BY <2>2, AppendProperties
  <2>5. TitleSize[title] \in Nat \ {0}
    BY DEF ConfigAssumption
  <2> QED BY <2>3, <2>4, <2>5, ReadingOne
<1>3. ASSUME NEW size \in Sizes, Body(size) PROVE ChunkInv'
  <2>1. Read("body", size, path) /\ size \in Nat \ {0}
    BY <1>3 DEF Body, ConfigAssumption
  <2> QED BY <1>1, <2>1, ReadingOne
<1> QED BY <1>2, <1>3 DEF Reads

LEMMA EndingSource == ASSUME ConfigAssumption, ChunkInv, EndOfSource PROVE ChunkInv'
<1>1. /\ phase = "read" /\ phase' = "pack" /\ next' = 1
      /\ UNCHANGED <<path, blocks, cores, current, count, drafts>>
  BY DEF EndOfSource
<1>2. ChunkerTypeOK'
  BY <1>1 DEF ChunkInv, ChunkerTypeOK
<1>3. PhaseInv'
  <2>1. Len(blocks) \in Nat
    BY LenProperties DEF ChunkInv, ChunkerTypeOK
  <2> QED BY <1>1, <2>1 DEF ChunkInv, PhaseInv
<1>4. Covered'
  <2>1. Packed' = Packed
    BY <1>1 DEF Packed
  <2> QED BY <1>1, <2>1 DEF ChunkInv, Covered, Partition
<1>5. Drafted'
  BY <1>1 DEF ChunkInv, Drafted, Chunk
<1> QED BY <1>2, <1>3, <1>4, <1>5 DEF ChunkInv

-----------------------------------------------------------------------------
(* Packing.                                                                *)

LEMMA Concatenated ==
    ASSUME NEW cs \in Seq(Seq(Nat)), NEW r \in Seq(Nat)
    PROVE  cs \o <<r>> = Append(cs, r) /\ cs \o <<>> = cs
BY AppendIsConcat, ConcatEmptySeq

\* While there are no drafts.
LEMMA NothingDrafted ==
    ASSUME drafts = <<>>, drafts' = <<>> PROVE Drafted'
<1>1. DOMAIN <<>> = {}
  OBVIOUS
<1> QED BY <1>1 DEF Drafted

LEMMA Packing == ASSUME ConfigAssumption, ChunkInv, Pack PROVE ChunkInv'
<1> DEFINE closed == IF Closes THEN <<current>> ELSE <<>>
           grown == Append(IF Closes THEN <<>> ELSE current, next)
           counted == Added + IF Closes THEN 0 ELSE count
           full == counted >= Target
           some == cores \o closed
<1>1. /\ cores \in Seq(Seq(Nat)) /\ current \in Seq(Nat) /\ count \in Nat
      /\ next \in 1 .. Len(blocks) /\ Len(blocks) \in Nat
      /\ drafts = <<>> /\ drafts' = <<>>
      /\ phase = "pack" /\ phase' = "pack" /\ next' = next + 1
      /\ path' = path /\ blocks' = blocks
      /\ blocks \in Seq(Blocks) /\ path \in Seq(Titles)
  <2>1. Len(blocks) \in Nat
    BY LenProperties DEF ChunkInv, ChunkerTypeOK
  <2> QED BY <2>1 DEF ChunkInv, ChunkerTypeOK, PhaseInv, Pack
<1>2. /\ cores' = some \o (IF full THEN <<grown>> ELSE <<>>)
      /\ current' = IF full THEN <<>> ELSE grown
      /\ count' = IF full THEN 0 ELSE counted
  BY DEF Pack
<1>3. counted \in Nat
  <2>1. blocks \in Seq(Blocks) /\ next \in 1 .. Len(blocks)
    BY <1>1
  <2>2. blocks[next] \in Blocks
    BY <2>1, ElementOfSeq
  <2>3. blocks[next].size \in Nat /\ count \in Nat
    BY <1>1, <2>2 DEF Blocks
  <2>4. Added \in Nat
    BY <2>3 DEF Added
  <2> QED BY <2>3, <2>4
<1>4. Partition(cores, current, next - 1) /\ next - 1 \in Nat /\ (next - 1) + 1 = next
  BY <1>1 DEF ChunkInv, Covered, Packed
<1>5. /\ some \in Seq(Seq(Nat)) /\ grown \in Seq(Nat) /\ grown # <<>>
      /\ Partition(some, grown, next)
  <2>1. CASE Closes
    <3>1. current # <<>> /\ some = Append(cores, current) /\ grown = Append(<<>>, next)
      BY <1>1, <2>1, Concatenated DEF Closes
    <3> HIDE DEF some, grown
    <3>2. some \in Seq(Seq(Nat)) /\ Partition(some, <<>>, next - 1)
      BY <1>1, <1>4, <3>1, Closed
    <3>3. <<>> \in Seq(Nat)
      BY EmptySeq
    <3> QED BY <1>4, <3>1, <3>2, <3>3, Extended
  <2>2. CASE ~Closes
    <3>1. some = cores /\ grown = Append(current, next)
      BY <1>1, <2>2, Concatenated
    <3> HIDE DEF some, grown
    <3> QED BY <1>1, <1>4, <3>1, Extended
  <2> QED BY <2>1, <2>2
<1> HIDE DEF some, grown, counted
<1>6. /\ cores' \in Seq(Seq(Nat)) /\ current' \in Seq(Nat) /\ count' \in Nat
      /\ Partition(cores', current', next)
  <2>1. CASE full
    <3>1. cores' = Append(some, grown) /\ current' = <<>> /\ count' = 0
      BY <1>2, <1>5, <2>1, Concatenated
    <3>2. cores' \in Seq(Seq(Nat)) /\ Partition(cores', <<>>, next)
      <4>1. next \in Nat
        BY <1>1
      <4> QED BY <1>5, <3>1, <4>1, Closed
    <3> QED BY <3>1, <3>2, EmptySeq
  <2>2. CASE ~full
    <3>1. cores' = some /\ current' = grown /\ count' = counted
      BY <1>2, <1>5, <2>2, Concatenated
    <3> QED BY <1>3, <1>5, <3>1
  <2> QED BY <2>1, <2>2
<1>7. ChunkerTypeOK'
  BY <1>1, <1>6 DEF ChunkInv, ChunkerTypeOK
<1>8. PhaseInv'
  BY <1>1 DEF PhaseInv
<1>9. Covered'
  <2>1. Packed' = next
    BY <1>1 DEF Packed
  <2> QED BY <1>6, <2>1 DEF Covered, Partition
<1>10. Drafted'
  BY <1>1, NothingDrafted
<1> QED BY <1>7, <1>8, <1>9, <1>10 DEF ChunkInv

LEMMA EndingPacking == ASSUME ConfigAssumption, ChunkInv, PackEnds PROVE ChunkInv'
<1>1. /\ cores \in Seq(Seq(Nat)) /\ current \in Seq(Nat)
      /\ Len(blocks) \in Nat /\ next = Len(blocks) + 1
      /\ drafts = <<>> /\ drafts' = <<>>
      /\ phase = "pack" /\ phase' = "rebalance" /\ current' = <<>>
      /\ UNCHANGED <<path, blocks, next, count>>
  <2>1. Len(blocks) \in Nat
    BY LenProperties DEF ChunkInv, ChunkerTypeOK
  <2> QED BY <2>1 DEF ChunkInv, ChunkerTypeOK, PhaseInv, PackEnds
<1>2. Partition(cores, current, Len(blocks))
  <2>1. Packed = Len(blocks)
    BY <1>1 DEF Packed
  <2> QED BY <2>1 DEF ChunkInv, Covered
<1>3. cores' \in Seq(Seq(Nat)) /\ Partition(cores', <<>>, Len(blocks))
  <2>1. CASE current = <<>>
    <3>1. cores' = cores
      BY <2>1 DEF PackEnds
    <3> QED BY <1>1, <1>2, <2>1, <3>1
  <2>2. CASE current # <<>> /\ cores # <<>>
                /\ cores' = [cores EXCEPT ![Len(cores)] = @ \o current]
    BY <1>1, <1>2, <2>2, Merged
  <2>3. CASE current # <<>> /\ cores' = Append(cores, current)
    BY <1>1, <1>2, <2>3, Closed
  <2> QED BY <2>1, <2>2, <2>3 DEF PackEnds
<1>4. ChunkerTypeOK'
  BY <1>1, <1>3, EmptySeq DEF ChunkInv, ChunkerTypeOK
<1>5. PhaseInv'
  BY <1>1 DEF PhaseInv
<1>6. Covered'
  <2>1. Packed' = Len(blocks)
    BY <1>1 DEF Packed
  <2> QED BY <1>1, <1>3, <2>1 DEF Covered, Partition
<1>7. Drafted'
  BY <1>1, NothingDrafted
<1> QED BY <1>4, <1>5, <1>6, <1>7 DEF ChunkInv

-----------------------------------------------------------------------------
(* Rebalancing.                                                            *)

LEMMA Rebalancing == ASSUME ConfigAssumption, ChunkInv, Rebalance PROVE ChunkInv'
<1> DEFINE L == Len(cores)
           s == cores[L - 1]
           a == Before(s)
<1>1. /\ cores \in Seq(Seq(Nat)) /\ current = <<>> /\ L \in Nat /\ L > 1
      /\ Len(blocks) \in Nat /\ drafts = <<>> /\ drafts' = <<>>
      /\ phase = "rebalance" /\ Retained # <<>>
      /\ cores' = [cores EXCEPT ![L - 1] = Retained, ![L] = Moved \o @]
      /\ UNCHANGED <<phase, path, blocks, next, current, count>>
  <2>1. Len(blocks) \in Nat /\ L \in Nat
    BY LenProperties DEF ChunkInv, ChunkerTypeOK
  <2> QED BY <2>1 DEF ChunkInv, ChunkerTypeOK, PhaseInv, Rebalance, Moves
<1>2. Retained = SubSeq(s, 1, a) /\ Moved = SubSeq(s, a + 1, Len(s))
  BY DEF Retained, Moved
<1>3. Partition(cores, <<>>, Len(blocks))
  <2>1. Packed = Len(blocks)
    BY <1>1 DEF Packed
  <2> QED BY <1>1, <2>1 DEF ChunkInv, Covered
<1>4. s \in Seq(Nat) /\ s # <<>> /\ Consecutive(s)
  <2>1. L - 1 \in 1 .. L /\ L # 0
    BY <1>1, Places
  <2>2. cores # <<>> /\ s \in Seq(Nat)
    BY <1>1, <2>1, Cores
  <2> QED BY <1>1, <1>3, <2>1, <2>2, Uncut
<1> HIDE DEF s
<1>5. a \in 0 .. Len(s) - 1 /\ Len(s) \in Nat
  BY <1>4, LastGroup, LenProperties
<1> HIDE DEF a
<1>6. a # 0
  <2>1. ASSUME a = 0 PROVE FALSE
    <3>1. SubSeq(s, 1, 0) = <<>>
      <4>1. Len(SubSeq(s, 1, 0)) = 0 /\ SubSeq(s, 1, 0) \in Seq(Nat)
        BY <1>4, SubSeqProperties
      <4> QED BY <4>1, EmptySeq
    <3> QED BY <1>1, <1>2, <2>1, <3>1
  <2> QED BY <2>1
<1>7. a \in Nat \ {0} /\ a < Len(s)
  BY <1>5, <1>6
<1>8. /\ Retained \in Seq(Nat) /\ Retained # <<>> /\ Consecutive(Retained)
      /\ Head(Retained) = Head(s)
      /\ Moved \in Seq(Nat) /\ Moved # <<>> /\ Consecutive(Moved)
      /\ Head(Moved) = Last(Retained) + 1 /\ Last(Moved) = Last(s)
  <2>1. s \in Seq(Nat) /\ Consecutive(s) /\ a \in Nat \ {0} /\ a < Len(s)
    BY <1>4, <1>7
  <2> QED BY <1>2, <2>1, Divided
<1>9. cores' \in Seq(Seq(Nat)) /\ Partition(cores', <<>>, Len(blocks))
  <2>1. Head(Retained) = Head(cores[L - 1]) /\ Last(Moved) = Last(cores[L - 1])
    BY <1>8 DEF s
  <2>2. PICK n \in Nat : n = Len(blocks)
    BY <1>1
  <2> QED BY <1>1, <1>3, <1>8, <2>1, <2>2, Shifted
<1>10. ChunkerTypeOK'
  BY <1>1, <1>9 DEF ChunkInv, ChunkerTypeOK
<1>11. PhaseInv'
  BY <1>1 DEF PhaseInv
<1>12. Covered'
  <2>1. Packed' = Len(blocks)
    BY <1>1 DEF Packed
  <2> QED BY <1>1, <1>9, <2>1 DEF Covered, Partition
<1>13. Drafted'
  BY <1>1, NothingDrafted
<1> QED BY <1>10, <1>11, <1>12, <1>13 DEF ChunkInv

LEMMA EndingRebalance ==
    ASSUME ConfigAssumption, ChunkInv, RebalanceEnds PROVE ChunkInv'
<1>1. /\ phase = "rebalance" /\ phase' = "overlap" /\ next' = 1
      /\ current = <<>> /\ drafts = <<>>
      /\ UNCHANGED <<path, blocks, cores, current, count, drafts>>
  BY DEF RebalanceEnds, ChunkInv, PhaseInv
<1>2. ChunkerTypeOK'
  BY <1>1 DEF ChunkInv, ChunkerTypeOK
<1>3. PhaseInv'
  <2>1. Len(cores) \in Nat /\ Len(<<>>) = 0
    BY LenProperties DEF ChunkInv, ChunkerTypeOK
  <2> QED BY <1>1, <2>1 DEF PhaseInv
<1>4. Covered'
  <2>1. Packed' = Packed
    BY <1>1 DEF Packed
  <2> QED BY <1>1, <2>1 DEF ChunkInv, Covered, Partition
<1>5. Drafted'
  BY <1>1, NothingDrafted
<1> QED BY <1>2, <1>3, <1>4, <1>5 DEF ChunkInv

-----------------------------------------------------------------------------
(* Overlap and validation.                                                 *)

\* What is repeated ends where the core begins.
LEMMA RepeatJoins ==
    ASSUME NEW before \in Seq(Nat), Consecutive(before),
           NEW c \in Seq(Nat), c # <<>>, Consecutive(c),
           before # <<>> => Head(c) = Last(before) + 1,
           NEW k \in 0 .. Len(before),
           NEW e, e = SubSeq(before, Len(before) - k + 1, Len(before))
    PROVE  e \in Seq(Nat) /\ Consecutive(e \o c)
<1> DEFINE b == Len(before)
           a == b - k + 1
<1>1. a \in Nat \ {0} /\ b \in Nat /\ b <= Len(before) /\ e = SubSeq(before, a, b)
  <2>1. b \in Nat
    BY LenProperties
  <2> QED BY <2>1
<1>2. before[b] = before[Len(before)]
  OBVIOUS
<1> HIDE DEF a, b
<1>3. /\ SubSeq(before, a, b) \in Seq(Nat) /\ Consecutive(SubSeq(before, a, b))
      /\ (SubSeq(before, a, b) = <<>>) = (a > b)
      /\ a <= b => Last(SubSeq(before, a, b)) = before[b]
  BY <1>1, Part
<1>4. CASE e = <<>>
  <2>1. e \o c = c
    BY <1>4, ConcatEmptySeq
  <2> QED BY <1>1, <1>3, <2>1
<1>5. CASE e # <<>>
  <2>1. a <= b
    BY <1>1, <1>3, <1>5
  <2>2. before # <<>>
    BY <1>1, <2>1, EmptySeq
  <2>3. Last(before) = before[b]
    BY <1>2, <2>2, Ends
  <2>4. e \in Seq(Nat) /\ Consecutive(e) /\ Head(c) = Last(e) + 1
    BY <1>1, <1>3, <2>1, <2>2, <2>3
  <2> QED BY <1>5, <2>4, Joined
<1> QED BY <1>4, <1>5

LEMMA Drafting == ASSUME ConfigAssumption, ChunkInv, Draft PROVE ChunkInv'
<1> DEFINE c == cores[next]
           before == IF next = 1 THEN <<>> ELSE cores[next - 1]
           longest == CHOOSE j \in 0 .. Len(before) :
                         /\ Repeats(before, j, c)
                         /\ \A i \in j + 1 .. Len(before) : ~Repeats(before, i, c)
           k == IF Size(c) < Target THEN 0 ELSE longest
           e == SubSeq(before, Len(before) - k + 1, Len(before))
           d == [core |-> c, overlap |-> e]
<1>1. /\ cores \in Seq(Seq(Nat)) /\ drafts \in Seq(Drafts) /\ Len(cores) \in Nat
      /\ next \in 1 .. Len(cores) /\ Len(drafts) = next - 1
      /\ phase = "overlap" /\ current = <<>> /\ next' = next + 1
      /\ UNCHANGED <<phase, path, blocks, cores, current, count>>
      /\ drafts' = Append(drafts, d)
  <2>1. Len(cores) \in Nat
    BY LenProperties DEF ChunkInv, ChunkerTypeOK
  <2> QED BY <2>1 DEF ChunkInv, ChunkerTypeOK, PhaseInv, Draft
<1>2. /\ \A i \in 1 .. Len(cores) : cores[i] # <<>> /\ Consecutive(cores[i])
      /\ \A i \in 1 .. Len(cores) - 1 : Head(cores[i + 1]) = Last(cores[i]) + 1
  <2>1. DOMAIN cores = 1 .. Len(cores)
    BY <1>1, Cores
  <2> QED BY <1>1, <2>1, Zenon DEF ChunkInv, Covered, Partition
<1>3. /\ c \in Seq(Nat) /\ c # <<>> /\ Consecutive(c)
      /\ before \in Seq(Nat) /\ Consecutive(before)
      /\ before # <<>> => Head(c) = Last(before) + 1
  <2>1. c \in Seq(Nat) /\ c # <<>> /\ Consecutive(c)
    BY <1>1, <1>2, Cores
  <2>2. CASE next = 1
    <3>1. <<>> \in Seq(Nat) /\ Consecutive(<<>>)
      BY EmptySeq DEF Consecutive
    <3> QED BY <2>1, <2>2, <3>1
  <2>3. CASE next # 1
    <3>1. /\ next - 1 \in 1 .. Len(cores) - 1 /\ next - 1 \in 1 .. Len(cores)
          /\ (next - 1) + 1 = next
      BY <1>1, <2>3
    <3>2. before = cores[next - 1] /\ before \in Seq(Nat) /\ Consecutive(before)
      BY <1>1, <1>2, <2>3, <3>1, Cores
    <3>3. Head(cores[(next - 1) + 1]) = Last(cores[next - 1]) + 1
      BY <1>2, <3>1
    <3> QED BY <2>1, <3>1, <3>2, <3>3
  <2> QED BY <2>2, <2>3
<1> HIDE DEF before, c
<1>4. longest \in 0 .. Len(before)
  <2>1. blocks \in Seq(Blocks)
    BY DEF ChunkInv, ChunkerTypeOK
  <2> QED BY <1>3, <2>1, LongestRepeat
<1> HIDE DEF longest
<1>5. k \in 0 .. Len(before)
  <2>1. Len(before) \in Nat
    BY <1>3, LenProperties
  <2> QED BY <1>4, <2>1
<1> HIDE DEF k
<1>6. e \in Seq(Nat) /\ Consecutive(e \o c)
  BY <1>3, <1>5, RepeatJoins
<1> HIDE DEF e
<1>7. d \in Drafts /\ d.core = c /\ d.overlap = e
  BY <1>3, <1>6 DEF Drafts
<1> HIDE DEF d
<1>8. /\ drafts' \in Seq(Drafts) /\ Len(drafts') = next
      /\ \A i \in 1 .. next - 1 : drafts'[i] = drafts[i]
      /\ drafts'[next] = d
  <2>1. (next - 1) + 1 = next /\ drafts \in Seq(Drafts)
    BY <1>1
  <2>2. drafts' = Append(drafts, d) /\ Len(drafts) = next - 1
    BY <1>1
  <2> QED BY <1>7, <2>1, <2>2, AppendProperties
<1>9. ChunkerTypeOK'
  BY <1>1, <1>8 DEF ChunkInv, ChunkerTypeOK
<1>10. PhaseInv'
  BY <1>1, <1>8 DEF PhaseInv
<1>11. Covered'
  <2>1. Packed' = Packed
    BY <1>1 DEF Packed
  <2> QED BY <1>1, <2>1 DEF ChunkInv, Covered, Partition
<1>12. Drafted'
  <2>1. DOMAIN drafts' = 1 .. next /\ DOMAIN drafts = 1 .. next - 1
    BY <1>1, <1>8, LenProperties
  <2> SUFFICES ASSUME NEW i \in 1 .. next
               PROVE  /\ drafts'[i].core = cores'[i]
                      /\ Consecutive(drafts'[i].overlap \o drafts'[i].core)
    BY <2>1 DEF Drafted, Chunk, Consecutive
  <2>2. CASE i = next
    <3>1. drafts'[i] = d /\ cores'[i] = c
      BY <1>1, <1>8, <2>2 DEF c
    <3> QED BY <1>6, <1>7, <3>1
  <2>3. CASE i # next
    <3>0. next \in Nat
      BY <1>1
    <3>1. i \in 1 .. next - 1
      BY <2>3, <3>0, Below
    <3>2. drafts[i].core = cores[i] /\ Consecutive(drafts[i].overlap \o drafts[i].core)
      BY <2>1, <3>1 DEF ChunkInv, Drafted, Chunk
    <3> QED BY <1>1, <1>8, <3>1, <3>2
  <2> QED BY <2>2, <2>3
<1> QED BY <1>9, <1>10, <1>11, <1>12 DEF ChunkInv

LEMMA Validating ==
    ASSUME ConfigAssumption, ChunkInv, \E valid \in BOOLEAN : Validate(valid)
    PROVE  ChunkInv'
<1>1. /\ phase = "overlap" /\ phase' \in {"done", "refused"}
      /\ UNCHANGED <<path, blocks, next, cores, current, count, drafts>>
  BY DEF Validate
<1>2. ChunkerTypeOK'
  BY <1>1 DEF ChunkInv, ChunkerTypeOK
<1>3. PhaseInv'
  BY <1>1 DEF ChunkInv, PhaseInv
<1>4. Covered'
  <2>1. Packed' = Packed
    BY <1>1 DEF Packed
  <2> QED BY <1>1, <2>1 DEF ChunkInv, Covered, Partition
<1>5. Drafted'
  <2>1. Drafted /\ drafts' = drafts /\ cores' = cores
    BY <1>1 DEF ChunkInv
  <2>2. SUFFICES ASSUME NEW i \in DOMAIN drafts
                PROVE  /\ drafts'[i].core = cores'[i]
                       /\ Consecutive(drafts'[i].overlap \o drafts'[i].core)
    BY <2>1 DEF Drafted, Chunk, Consecutive
  <2>3. /\ drafts[i].core = cores[i]
        /\ Consecutive(drafts[i].overlap \o drafts[i].core)
    BY <2>1, Zenon DEF Drafted, Chunk
  <2> QED BY <2>1, <2>3, Zenon
<1> QED BY <1>2, <1>3, <1>4, <1>5 DEF ChunkInv

-----------------------------------------------------------------------------

LEMMA Idle == ASSUME ChunkInv, UNCHANGED vars PROVE ChunkInv'
BY DEF vars, ChunkInv, ChunkerTypeOK, PhaseInv, Covered, Partition, Packed,
       Consecutive, Drafted, Chunk

\* In every phase of chunker.py the variables keep their types, and the cores,
\* the core that is packed and the drafts cover what was packed so far.
THEOREM ChunksAreSound == Spec => []ChunkInv
<1>1. Init => ChunkInv
  BY ConfigAssumption, Start
<1>2. ChunkInv /\ [Next]_vars => ChunkInv'
  <2> SUFFICES ASSUME ChunkInv, [Next]_vars PROVE ChunkInv'
    OBVIOUS
  <2>1. CASE Reads
    BY <2>1, ConfigAssumption, Reading
  <2>2. CASE EndOfSource
    BY <2>2, ConfigAssumption, EndingSource
  <2>3. CASE Pack
    BY <2>3, ConfigAssumption, Packing
  <2>4. CASE PackEnds
    BY <2>4, ConfigAssumption, EndingPacking
  <2>5. CASE Rebalance
    BY <2>5, ConfigAssumption, Rebalancing
  <2>6. CASE RebalanceEnds
    BY <2>6, ConfigAssumption, EndingRebalance
  <2>7. CASE Draft
    BY <2>7, ConfigAssumption, Drafting
  <2>8. CASE \E valid \in BOOLEAN : Validate(valid)
    BY <2>8, ConfigAssumption, Validating
  <2>9. CASE Decided \/ UNCHANGED vars
    BY <2>9, Idle DEF Decided
  <2> QED BY <2>1, <2>2, <2>3, <2>4, <2>5, <2>6, <2>7, <2>8, <2>9 DEF Next
<1> QED BY <1>1, <1>2, PTL DEF Spec

\* Chunks hold the document in order, nothing lost and only overlaps repeated
\* (chunker.py and docs/ingestion-design.md), for every document and limits.
THEOREM DocumentIsCovered == Spec => []ChunksCoverDocument
<1>1. ChunkInv => ChunksCoverDocument
  BY DEF ChunkInv, Covered, Drafted, ChunksCoverDocument
<1> QED BY <1>1, ChunksAreSound, PTL
-----------------------------------------------------------------------------
(* What is too large.                                                      *)

\* A core or chunk of the blocks bs that exceeds the maximum is one block
\* under headings.
FitsIn(bs, c) ==
    SizeOf(bs, c) > Maximum => \A i \in 1 .. Len(c) - 1 : bs[c[i]].kind = "heading"

Indices == 1 .. Len(blocks)

\* The core that is packed weighs less than the target, whatever separators
\* were counted, and every core and every chunk fits.
SizeInv ==
    /\ cores \in Seq(Seq(Indices)) /\ current \in Seq(Indices)
    /\ phase = "pack" /\ current # <<>> =>
         SizeOf(blocks, current) <= count /\ count < Target
    /\ \A k \in 1 .. Len(cores) : FitsIn(blocks, cores[k])
    /\ \A i \in 1 .. Len(drafts) : FitsIn(blocks, drafts[i].overlap \o drafts[i].core)

\* What is short enough fits, and so does one block.
LEMMA SmallFits ==
    ASSUME NEW bs \in Seq(Blocks), NEW c \in Seq(1 .. Len(bs)),
           ConfigAssumption, SizeOf(bs, c) <= Maximum
    PROVE  FitsIn(bs, c)
<1>1. SizeOf(bs, c) \in Nat /\ Maximum \in Nat
  BY SizeIsNatural DEF ConfigAssumption
<1> QED BY <1>1 DEF FitsIn

\* What is retained of a core that fits is a prefix of it.
LEMMA PrefixFits ==
    ASSUME NEW bs \in Seq(Blocks), NEW c \in Seq(1 .. Len(bs)), ConfigAssumption,
           FitsIn(bs, c), NEW a \in 0 .. Len(c)
    PROVE  SubSeq(c, 1, a) \in Seq(1 .. Len(bs)) /\ FitsIn(bs, SubSeq(c, 1, a))
<1> DEFINE S == 1 .. Len(bs)
           r == SubSeq(c, 1, a)
           m == SubSeq(c, a + 1, Len(c))
<1>0. Len(c) \in Nat /\ a \in Nat /\ c \in Seq(S)
  BY LenProperties
<1>1. \A i \in 1 .. Len(c) : c[i] \in S
  BY <1>0, ElementOfSeq
<1>2. r \in Seq(S) /\ Len(r) = a /\ \A i \in 1 .. a : r[i] = c[i]
  <2>1. \A i \in 1 .. a : c[i] \in S
    BY <1>0, <1>1
  <2>2. /\ r \in Seq(S) /\ Len(r) = IF 1 <= a THEN a - 1 + 1 ELSE 0
        /\ \A i \in 1 .. a - 1 + 1 : r[i] = c[1 + i - 1]
    BY <1>0, <2>1, SubSeqProperties
  <2>3. a - 1 + 1 = a /\ \A i \in 1 .. a : 1 + i - 1 = i
    BY <1>0
  <2>4. Len(r) = a
    BY <1>0, <2>2
  <2> HIDE DEF r
  <2> QED BY <2>2, <2>3, <2>4
<1>3. m \in Seq(S)
  <2>1. \A i \in a + 1 .. Len(c) : c[i] \in S
    BY <1>0, <1>1
  <2> QED BY <1>0, <2>1, SubSeqProperties
<1>4. c = r \o m
  <2>1. 1 \in 1 .. Len(c) + 1 /\ a \in 1 - 1 .. Len(c) /\ Len(c) \in a .. Len(c)
    BY <1>0
  <2>2. SubSeq(c, 1, a) \o SubSeq(c, a + 1, Len(c)) = SubSeq(c, 1, Len(c))
    BY <1>0, <2>1, ConcatAdjacentSubSeq
  <2> QED BY <1>0, <2>2, SubSeqFull
<1> HIDE DEF r, m
<1>5. SizeOf(bs, c) = SizeOf(bs, r) + SizeOf(bs, m)
  BY <1>2, <1>3, <1>4, SizeAdds DEF S
<1>6. /\ SizeOf(bs, r) \in Nat /\ SizeOf(bs, m) \in Nat /\ Maximum \in Nat
  BY <1>2, <1>3, SizeIsNatural DEF S, ConfigAssumption
<1>7. FitsIn(bs, r)
  <2> SUFFICES ASSUME SizeOf(bs, r) > Maximum, NEW i \in 1 .. a - 1
               PROVE  bs[r[i]].kind = "heading"
    BY <1>2 DEF FitsIn
  <2>1. SizeOf(bs, c) > Maximum
    BY <1>5, <1>6
  <2>2. i \in 1 .. Len(c) - 1 /\ i \in 1 .. a
    BY <1>0
  <2> QED BY <1>2, <2>1, <2>2 DEF FitsIn
<1> QED BY <1>2, <1>7 DEF r

\* A list of cores that fit grows by one that fits.
LEMMA FitsAppended ==
    ASSUME NEW bs \in Seq(Blocks), NEW cs \in Seq(Seq(1 .. Len(bs))),
           NEW c \in Seq(1 .. Len(bs)), FitsIn(bs, c),
           \A k \in 1 .. Len(cs) : FitsIn(bs, cs[k])
    PROVE  /\ Append(cs, c) \in Seq(Seq(1 .. Len(bs)))
           /\ \A k \in 1 .. Len(Append(cs, c)) : FitsIn(bs, Append(cs, c)[k])
<1> DEFINE t == Append(cs, c)
           n == Len(cs)
<1>1. /\ n \in Nat /\ t \in Seq(Seq(1 .. Len(bs))) /\ Len(t) = n + 1
      /\ \A k \in 1 .. n : t[k] = cs[k]
      /\ t[n + 1] = c
  BY AppendProperties, LenProperties
<1> HIDE DEF t
<1>2. ASSUME NEW k \in 1 .. n + 1 PROVE FitsIn(bs, t[k])
  <2>1. CASE k = n + 1
    BY <1>1, <2>1
  <2>2. CASE k # n + 1
    <3>1. k \in 1 .. n
      BY <1>1, <2>2
    <3> QED BY <1>1, <3>1
  <2> QED BY <2>1, <2>2
<1> QED BY <1>1, <1>2 DEF t

\* ... or has one replaced by one that fits.
LEMMA FitsReplaced ==
    ASSUME NEW bs \in Seq(Blocks), NEW cs \in Seq(Seq(1 .. Len(bs))),
           NEW c \in Seq(1 .. Len(bs)), FitsIn(bs, c),
           \A k \in 1 .. Len(cs) : FitsIn(bs, cs[k]),
           NEW j \in 1 .. Len(cs), NEW t, t = [cs EXCEPT ![j] = c]
    PROVE  /\ t \in Seq(Seq(1 .. Len(bs))) /\ Len(t) = Len(cs)
           /\ \A k \in 1 .. Len(cs) : t[k] = IF k = j THEN c ELSE cs[k]
           /\ \A k \in 1 .. Len(t) : FitsIn(bs, t[k])
<1>1. /\ t \in Seq(Seq(1 .. Len(bs))) /\ Len(t) = Len(cs)
      /\ \A k \in 1 .. Len(cs) : t[k] = IF k = j THEN c ELSE cs[k]
  BY ExceptSeq
<1>2. ASSUME NEW k \in 1 .. Len(cs) PROVE FitsIn(bs, t[k])
  <2>1. CASE k = j
    BY <1>1, <2>1
  <2>2. CASE k # j
    BY <1>1, <2>2
  <2> QED BY <2>1, <2>2
<1> QED BY <1>1, <1>2

LEMMA IndicesAreNumbers ==
    ASSUME NEW n \in Nat, NEW s \in Seq(1 .. n) PROVE s \in Seq(Nat)
<1>1. Len(s) \in Nat /\ \A i \in 1 .. Len(s) : s[i] \in Nat
  BY ElementOfSeq, LenProperties
<1> QED BY <1>1

\* While the source is read there is nothing to weigh.
LEMMA NothingWeighed ==
    ASSUME cores' = <<>>, current' = <<>>, drafts' = <<>> PROVE SizeInv'
<1>1. Len(<<>>) = 0 /\ 1 .. 0 = {}
  OBVIOUS
<1> QED BY <1>1 DEF SizeInv, Indices

LEMMA PackingFits ==
    ASSUME ConfigAssumption, ChunkInv, SizeInv, Pack PROVE SizeInv'
<1> DEFINE S == 1 .. Len(blocks)
           closed == IF Closes THEN <<current>> ELSE <<>>
           before == IF Closes THEN <<>> ELSE current
           grown == Append(before, next)
           counted == Added + IF Closes THEN 0 ELSE count
           full == counted >= Target
           some == cores \o closed
           size == blocks[next].size
<1>1. /\ cores \in Seq(Seq(S)) /\ current \in Seq(S) /\ count \in Nat
      /\ next \in S /\ blocks \in Seq(Blocks) /\ blocks' = blocks
      /\ drafts = <<>> /\ drafts' = <<>> /\ phase = "pack" /\ phase' = "pack"
      /\ current # <<>> => SizeOf(blocks, current) <= count /\ count < Target
      /\ \A k \in 1 .. Len(cores) : FitsIn(blocks, cores[k])
  <2>1. next <= Len(blocks) /\ phase = "pack"
    BY DEF Pack
  <2>2. next \in S
    BY <2>1 DEF ChunkInv, PhaseInv
  <2> QED BY <2>1, <2>2 DEF ChunkInv, ChunkerTypeOK, PhaseInv, Pack, SizeInv, Indices
<1>2. /\ cores' = some \o (IF full THEN <<grown>> ELSE <<>>)
      /\ current' = IF full THEN <<>> ELSE grown
      /\ count' = IF full THEN 0 ELSE counted
  BY DEF Pack
<1>3. /\ size \in Nat /\ {Target, Maximum} \subseteq Nat /\ Target <= Maximum
      /\ SizeOf(blocks, <<>>) = 0 /\ SizeOf(blocks, current) \in Nat
      /\ Added = size + IF current = <<>> THEN 0 ELSE 1
  <2>1. blocks[next] \in Blocks
    BY <1>1, ElementOfSeq
  <2> QED BY <1>1, <2>1, SizeOfNothing, SizeIsNatural DEF Blocks, ConfigAssumption, Added
<1> HIDE DEF size, S
<1>4. before \in Seq(S) /\ grown \in Seq(S) /\ SizeOf(blocks, grown) = SizeOf(blocks, before) + size
  <2>1. before \in Seq(S)
    BY <1>1, EmptySeq
  <2> HIDE DEF before
  <2>2. grown \in Seq(S)
    BY <1>1, <2>1, AppendProperties
  <2> QED BY <1>1, <2>1, <2>2, SizeGrows DEF S, size
<1>5. counted \in Nat /\ SizeOf(blocks, grown) <= counted
  <2>1. CASE Closes
    BY <1>3, <1>4, <2>1
  <2>2. CASE ~Closes /\ current = <<>>
    BY <1>1, <1>3, <1>4, <2>2
  <2>3. CASE ~Closes /\ current # <<>>
    BY <1>1, <1>3, <1>4, <2>3
  <2> QED BY <2>1, <2>2, <2>3
\* What fills a core fits in it, or follows nothing but headings.
<1>6. FitsIn(blocks, grown)
  <2>1. CASE before = <<>>
    <3>1. Len(grown) = Len(before) + 1 /\ Len(before) = 0
      BY <1>1, <1>4, <2>1, AppendProperties
    <3>2. 1 .. Len(grown) - 1 = {}
      BY <3>1
    <3> HIDE DEF grown
    <3> QED BY <3>2 DEF FitsIn
  <2>2. CASE before # <<>> /\ count + Added <= Target
    <3>1. before = current /\ current # <<>> /\ counted = Added + count
      BY <2>2
    <3> HIDE DEF before
    <3>2. SizeOf(blocks, grown) <= Maximum
      BY <1>1, <1>3, <1>4, <2>2, <3>1
    <3> QED BY <1>1, <1>4, <3>2, SmallFits DEF S
  <2>3. CASE before # <<>> /\ OnlyHeadings(current)
    <3>1. before = current
      BY <2>3
    <3>2. /\ Len(grown) = Len(current) + 1 /\ Len(current) \in Nat
          /\ \A i \in 1 .. Len(current) : grown[i] = current[i]
      BY <1>1, <3>1, AppendProperties, LenProperties
    <3>3. \A i \in 1 .. Len(current) : blocks[current[i]].kind = "heading"
      BY <1>1, <2>3, LenProperties DEF OnlyHeadings
    <3> HIDE DEF grown
    <3>4. Len(grown) - 1 = Len(current)
      BY <3>2
    <3> QED BY <3>2, <3>3, <3>4 DEF FitsIn
  <2>4. before # <<>> => count + Added <= Target \/ OnlyHeadings(current)
    <3> SUFFICES ASSUME before # <<>> PROVE count + Added <= Target \/ OnlyHeadings(current)
      OBVIOUS
    <3>1. ~Closes /\ current # <<>>
      OBVIOUS
    <3>2. Added \in Nat
      BY <1>3
    <3> QED BY <1>1, <1>3, <3>1, <3>2 DEF Closes
  <2> QED BY <2>1, <2>2, <2>3, <2>4
<1> HIDE DEF grown, before, counted
<1>7. some \in Seq(Seq(S)) /\ \A k \in 1 .. Len(some) : FitsIn(blocks, some[k])
  <2>1. CASE Closes
    <3>1. current # <<>>
      BY <2>1 DEF Closes
    <3>2. SizeOf(blocks, current) <= Maximum
      BY <1>1, <1>3, <3>1
    <3>3. FitsIn(blocks, current)
      BY <1>1, <3>2, SmallFits DEF S
    <3>4. some = Append(cores, current)
      BY <1>1, <2>1, AppendIsConcat
    <3> HIDE DEF some
    <3> QED BY <1>1, <3>3, <3>4, FitsAppended DEF S
  <2>2. CASE ~Closes
    <3>1. some = cores
      BY <1>1, <2>2, ConcatEmptySeq
    <3> QED BY <1>1, <3>1
  <2> QED BY <2>1, <2>2
<1> HIDE DEF some
<1>8. cores' \in Seq(Seq(S)) /\ \A k \in 1 .. Len(cores') : FitsIn(blocks, cores'[k])
  <2>1. CASE full
    <3>1. cores' = Append(some, grown)
      BY <1>2, <1>4, <1>7, <2>1, AppendIsConcat
    <3> QED BY <1>1, <1>4, <1>6, <1>7, <3>1, FitsAppended DEF S
  <2>2. CASE ~full
    <3>1. cores' = some
      BY <1>2, <1>7, <2>2, ConcatEmptySeq
    <3> QED BY <1>7, <3>1
  <2> QED BY <2>1, <2>2
<1>9. current' \in Seq(S)
  BY <1>2, <1>4, EmptySeq
<1>10. current' # <<>> => SizeOf(blocks, current') <= count' /\ count' < Target
  <2> SUFFICES ASSUME current' # <<>>
               PROVE  SizeOf(blocks, current') <= count' /\ count' < Target
    OBVIOUS
  <2>1. ~full /\ current' = grown /\ count' = counted
    BY <1>2
  <2> QED BY <1>3, <1>5, <2>1
<1>11. 1 .. Len(drafts') = {}
  BY <1>1
<1> QED BY <1>1, <1>8, <1>9, <1>10, <1>11 DEF SizeInv, Indices, S

LEMMA EndingPackingFits ==
    ASSUME ConfigAssumption, ChunkInv, SizeInv, PackEnds PROVE SizeInv'
<1> DEFINE S == 1 .. Len(blocks)
           L == Len(cores)
<1>1. /\ cores \in Seq(Seq(S)) /\ current \in Seq(S)
      /\ blocks \in Seq(Blocks) /\ blocks' = blocks
      /\ drafts = <<>> /\ drafts' = <<>> /\ phase' = "rebalance" /\ current' = <<>>
      /\ current # <<>> => SizeOf(blocks, current) <= count /\ count < Target
      /\ \A k \in 1 .. L : FitsIn(blocks, cores[k])
      /\ count \in Nat
  BY DEF ChunkInv, ChunkerTypeOK, PhaseInv, PackEnds, SizeInv, Indices
<1>2. current # <<>> => FitsIn(blocks, current)
  <2> SUFFICES ASSUME current # <<>> PROVE FitsIn(blocks, current)
    OBVIOUS
  <2>1. /\ SizeOf(blocks, current) \in Nat /\ {Target, Maximum} \subseteq Nat
        /\ Target <= Maximum
    BY <1>1, SizeIsNatural DEF ConfigAssumption
  <2>2. SizeOf(blocks, current) <= Maximum
    BY <1>1, <2>1
  <2> QED BY <1>1, <2>2, SmallFits
<1>3. cores' \in Seq(Seq(S)) /\ \A k \in 1 .. Len(cores') : FitsIn(blocks, cores'[k])
  <2>1. CASE current = <<>>
    <3>1. cores' = cores
      BY <2>1 DEF PackEnds
    <3> QED BY <1>1, <3>1
  <2>2. CASE /\ current # <<>> /\ cores # <<>>
             /\ Size(Last(cores) \o current) <= Maximum
             /\ cores' = [cores EXCEPT ![L] = @ \o current]
    <3>1. L \in 1 .. L /\ cores[L] \in Seq(S)
      <4>1. L \in Nat /\ L # 0
        BY <1>1, <2>2, LenProperties, EmptySeq
      <4> QED BY <1>1, <4>1, ElementOfSeq
    <3> DEFINE c == cores[L] \o current
    <3>2. c \in Seq(S) /\ cores' = [cores EXCEPT ![L] = c]
      BY <1>1, <2>2, <3>1, ConcatProperties
    <3>3. SizeOf(blocks, c) <= Maximum
      BY <2>2, SizeIsOfBlocks DEF Last
    <3> HIDE DEF c
    <3>4. FitsIn(blocks, c)
      BY <1>1, <3>2, <3>3, SmallFits
    <3> QED BY <1>1, <3>1, <3>2, <3>4, FitsReplaced
  <2>3. CASE current # <<>> /\ cores' = Append(cores, current)
    BY <1>1, <1>2, <2>3, FitsAppended
  <2> QED BY <2>1, <2>2, <2>3 DEF PackEnds
<1>4. <<>> \in Seq(S) /\ 1 .. Len(drafts') = {}
  BY <1>1
<1> QED BY <1>1, <1>3, <1>4 DEF SizeInv, Indices

LEMMA RebalancingFits ==
    ASSUME ConfigAssumption, ChunkInv, SizeInv, Rebalance PROVE SizeInv'
<1> DEFINE S == 1 .. Len(blocks)
           L == Len(cores)
           s == cores[L - 1]
           a == Before(s)
           c == Moved \o cores[L]
           v == [cores EXCEPT ![L - 1] = Retained]
<1>1. /\ cores \in Seq(Seq(S)) /\ L \in Nat /\ L > 1
      /\ blocks \in Seq(Blocks) /\ blocks' = blocks
      /\ drafts = <<>> /\ drafts' = <<>> /\ phase' = "rebalance"
      /\ current = <<>> /\ current' = <<>>
      /\ \A k \in 1 .. L : FitsIn(blocks, cores[k])
      /\ Size(Moved \o Last(cores)) <= Maximum
      /\ cores' = [cores EXCEPT ![L - 1] = Retained, ![L] = Moved \o @]
  <2>1. L \in Nat
    BY LenProperties DEF SizeInv
  <2> QED BY <2>1 DEF ChunkInv, ChunkerTypeOK, PhaseInv, Rebalance, Moves, SizeInv, Indices
<1>2. /\ L - 1 \in 1 .. L /\ L \in 1 .. L /\ L # L - 1
      /\ s \in Seq(S) /\ cores[L] \in Seq(S) /\ FitsIn(blocks, s)
  <2>1. L - 1 \in 1 .. L /\ L \in 1 .. L /\ L # L - 1
    BY <1>1, Places
  <2> QED BY <1>1, <2>1, ElementOfSeq
<1>3. s \in Seq(Nat) /\ s # <<>>
  <2>1. cores \in Seq(Seq(Nat)) /\ Partition(cores, current, Packed)
    BY DEF ChunkInv, ChunkerTypeOK, Covered
  <2>2. L - 1 \in DOMAIN cores
    BY <1>1, <1>2, LenProperties
  <2> QED BY <1>2, <2>1, <2>2, Cores DEF Partition
<1>4. Retained = SubSeq(s, 1, a) /\ Moved = SubSeq(s, a + 1, Len(s))
  BY DEF Retained, Moved
<1> HIDE DEF s
<1>5. a \in 0 .. Len(s) /\ a \in Nat /\ Len(s) \in Nat
  <2>1. a \in 0 .. Len(s) - 1 /\ Len(s) \in Nat
    BY <1>3, LastGroup, LenProperties
  <2> QED BY <2>1
<1> HIDE DEF a
<1>6. Retained \in Seq(S) /\ FitsIn(blocks, Retained)
  BY <1>1, <1>2, <1>4, <1>5, PrefixFits
<1>7. c \in Seq(S)
  <2>1. \A i \in a + 1 .. Len(s) : s[i] \in S
    <3>1. \A i \in 1 .. Len(s) : s[i] \in S
      BY <1>2, ElementOfSeq
    <3> QED BY <1>5, <3>1
  <2>2. Moved \in Seq(S)
    BY <1>4, <1>5, <2>1, SubSeqProperties
  <2> QED BY <1>2, <2>2, ConcatProperties
<1>8. FitsIn(blocks, c)
  <2>1. SizeOf(blocks, c) <= Maximum
    BY <1>1, SizeIsOfBlocks DEF Last
  <2> HIDE DEF c
  <2> QED BY <1>1, <1>7, <2>1, SmallFits
<1>9. /\ v \in Seq(Seq(S)) /\ Len(v) = L /\ v[L] = cores[L]
      /\ \A k \in 1 .. Len(v) : FitsIn(blocks, v[k])
  <2>1. /\ v \in Seq(Seq(S)) /\ Len(v) = L
        /\ \A k \in 1 .. L : v[k] = IF k = L - 1 THEN Retained ELSE cores[k]
        /\ \A k \in 1 .. Len(v) : FitsIn(blocks, v[k])
    BY <1>1, <1>2, <1>6, FitsReplaced
  <2> HIDE DEF v
  <2> QED BY <1>2, <2>1
<1>10. cores' = [v EXCEPT ![L] = c]
  BY <1>1, <1>2, <1>9
<1> HIDE DEF v, c
<1>11. cores' \in Seq(Seq(S)) /\ \A k \in 1 .. Len(cores') : FitsIn(blocks, cores'[k])
  <2>1. L \in 1 .. Len(v) /\ blocks \in Seq(Blocks)
    BY <1>1, <1>2, <1>9
  <2> QED BY <1>7, <1>8, <1>9, <1>10, <2>1, FitsReplaced
<1>12. <<>> \in Seq(S) /\ 1 .. Len(drafts') = {}
  BY <1>1
<1> QED BY <1>1, <1>11, <1>12 DEF SizeInv, Indices

\* A core is drafted with a repetition that fits, or with none.
LEMMA DraftingFits ==
    ASSUME ConfigAssumption, ChunkInv, SizeInv, Draft PROVE SizeInv'
<1> DEFINE S == 1 .. Len(blocks)
           c == cores[next]
           before == IF next = 1 THEN <<>> ELSE cores[next - 1]
           longest == CHOOSE j \in 0 .. Len(before) :
                         /\ Repeats(before, j, c)
                         /\ \A i \in j + 1 .. Len(before) : ~Repeats(before, i, c)
           k == IF Size(c) < Target THEN 0 ELSE longest
           e == SubSeq(before, Len(before) - k + 1, Len(before))
           d == [core |-> c, overlap |-> e]
<1>1. /\ cores \in Seq(Seq(S)) /\ next \in 1 .. Len(cores) /\ Len(cores) \in Nat
      /\ blocks \in Seq(Blocks) /\ drafts \in Seq(Drafts)
      /\ phase' = "overlap" /\ current = <<>>
      /\ blocks' = blocks /\ cores' = cores /\ current' = current
      /\ \A i \in 1 .. Len(cores) : FitsIn(blocks, cores[i])
      /\ \A i \in 1 .. Len(drafts) : FitsIn(blocks, drafts[i].overlap \o drafts[i].core)
      /\ drafts' = Append(drafts, d)
  <2>1. Len(cores) \in Nat /\ next \in Nat \ {0}
    BY LenProperties DEF ChunkInv, ChunkerTypeOK
  <2> QED BY <2>1 DEF ChunkInv, ChunkerTypeOK, PhaseInv, Draft, SizeInv, Indices
<1>2. c \in Seq(S) /\ before \in Seq(S) /\ FitsIn(blocks, c) /\ Len(before) \in Nat
  <2>1. c \in Seq(S) /\ FitsIn(blocks, c)
    BY <1>1, ElementOfSeq
  <2>2. before \in Seq(S)
    <3>1. CASE next = 1
      BY <3>1, EmptySeq
    <3>2. CASE next # 1
      <4>1. next - 1 \in 1 .. Len(cores)
        BY <1>1, <3>2
      <4> QED BY <1>1, <3>2, <4>1, ElementOfSeq
    <3> QED BY <3>1, <3>2
  <2> QED BY <2>1, <2>2, LenProperties
<1> HIDE DEF before, c
<1>3. longest \in 0 .. Len(before) /\ Repeats(before, longest, c)
  <2>1. before \in Seq(Nat)
    BY <1>2, IndicesAreNumbers
  <2> QED BY <1>1, <2>1, LongestRepeat
<1> HIDE DEF longest
<1>4. k \in 0 .. Len(before) /\ (k # 0 => Size(e \o c) <= Maximum)
  <2>1. CASE k = 0
    BY <1>2, <2>1
  <2>2. CASE k # 0
    <3>1. k = longest
      BY <2>2
    <3> HIDE DEF k
    <3>2. k > 0 /\ k \in 0 .. Len(before)
      BY <1>2, <1>3, <2>2, <3>1
    <3> QED BY <1>3, <3>1, <3>2 DEF Repeats
  <2> QED BY <2>1, <2>2
<1> HIDE DEF k
<1>5. e \in Seq(S) /\ (k = 0 => e = <<>>)
  <2>1. \A i \in 1 .. Len(before) : before[i] \in S
    BY <1>2, ElementOfSeq
  <2>2. \A i \in Len(before) - k + 1 .. Len(before) : before[i] \in S
    BY <1>2, <1>4, <2>1
  <2>3. e \in Seq(S)
    BY <1>2, <1>4, <2>2, SubSeqProperties
  <2>4. ASSUME k = 0 PROVE e = <<>>
    BY <1>2, <2>4, SubSeqEmpty
  <2> QED BY <2>3, <2>4
<1> HIDE DEF e
<1>6. FitsIn(blocks, e \o c)
  <2>1. CASE k = 0
    <3>1. e \o c = c
      BY <1>2, <1>5, <2>1, ConcatEmptySeq
    <3> QED BY <1>2, <3>1
  <2>2. CASE k # 0
    <3>1. e \o c \in Seq(S)
      BY <1>2, <1>5, ConcatProperties
    <3>2. SizeOf(blocks, e \o c) <= Maximum
      BY <1>4, <2>2, SizeIsOfBlocks
    <3> QED BY <1>1, <3>1, <3>2, SmallFits
  <2> QED BY <2>1, <2>2
<1>7. d \in Drafts /\ d.overlap = e /\ d.core = c
  <2>1. e \in Seq(Nat) /\ c \in Seq(Nat)
    BY <1>2, <1>5, IndicesAreNumbers
  <2> QED BY <2>1 DEF Drafts
<1> HIDE DEF d, S
<1>8. \A i \in 1 .. Len(drafts') : FitsIn(blocks, drafts'[i].overlap \o drafts'[i].core)
  <2> DEFINE n == Len(drafts)
  <2>1. /\ n \in Nat /\ Len(drafts') = n + 1 /\ drafts'[n + 1] = d
        /\ \A i \in 1 .. n : drafts'[i] = drafts[i]
    BY <1>1, <1>7, AppendProperties, LenProperties
  <2> SUFFICES ASSUME NEW i \in 1 .. n + 1
               PROVE  FitsIn(blocks, drafts'[i].overlap \o drafts'[i].core)
    BY <2>1
  <2>2. CASE i = n + 1
    BY <1>6, <1>7, <2>1, <2>2
  <2>3. CASE i # n + 1
    <3>1. i \in 1 .. n
      BY <2>1, <2>3
    <3> QED BY <1>1, <2>1, <3>1
  <2> QED BY <2>2, <2>3
<1>9. <<>> \in Seq(S)
  BY EmptySeq
<1> QED BY <1>1, <1>8, <1>9 DEF SizeInv, Indices, S

LEMMA SizesStay ==
    ASSUME SizeInv, UNCHANGED <<blocks, cores, current, count, drafts>>,
           phase' = "pack" => phase = "pack" \/ current = <<>>
    PROVE  SizeInv'
BY DEF SizeInv, Indices

LEMMA SizeStep ==
    ASSUME ConfigAssumption, ChunkInv, SizeInv, [Next]_vars PROVE SizeInv'
<1>1. CASE Reads
  <2>1. /\ phase = "read" /\ UNCHANGED <<cores, current, drafts>>
    BY <1>1 DEF Reads, Heading, Body, Read
  <2>2. cores' = <<>> /\ current' = <<>> /\ drafts' = <<>>
    BY <2>1 DEF ChunkInv, PhaseInv
  <2> QED BY <2>2, NothingWeighed
<1>2. CASE EndOfSource
  <2>1. cores' = <<>> /\ current' = <<>> /\ drafts' = <<>>
    BY <1>2 DEF EndOfSource, ChunkInv, PhaseInv
  <2> QED BY <2>1, NothingWeighed
<1>3. CASE Pack
  BY <1>3, PackingFits
<1>4. CASE PackEnds
  BY <1>4, EndingPackingFits
<1>5. CASE Rebalance
  BY <1>5, RebalancingFits
<1>6. CASE RebalanceEnds
  BY <1>6, SizesStay DEF RebalanceEnds
<1>7. CASE Draft
  BY <1>7, DraftingFits
<1>8. CASE \E valid \in BOOLEAN : Validate(valid)
  BY <1>8, SizesStay DEF Validate
<1>9. CASE Decided \/ UNCHANGED vars
  BY <1>9, SizesStay DEF Decided, vars
<1> QED BY <1>1, <1>2, <1>3, <1>4, <1>5, <1>6, <1>7, <1>8, <1>9 DEF Next

\* The chunk of a draft is one of numbers, and its front is what comes before
\* its last block.
LEMMA FitsIsStructural ==
    ASSUME ChunkInv, SizeInv PROVE OversizeIsStructural
<1> SUFFICES ASSUME NEW i \in DOMAIN drafts, Size(Chunk(i)) > Maximum
             PROVE  OnlyHeadings(Front(Chunk(i)))
  BY DEF OversizeIsStructural
<1> DEFINE c == Chunk(i)
           n == Len(c)
<1>1. c \in Seq(Nat) /\ n \in Nat
  <2>1. drafts[i] \in Drafts
    BY ElementOfSeq, LenProperties DEF ChunkInv, ChunkerTypeOK
  <2> QED BY <2>1, ConcatProperties, LenProperties DEF Drafts, Chunk
<1>2. SizeOf(blocks, c) > Maximum
  BY SizeIsOfBlocks
<1>3. FitsIn(blocks, c)
  <2>1. i \in 1 .. Len(drafts)
    BY LenProperties DEF ChunkInv, ChunkerTypeOK
  <2> QED BY <2>1 DEF SizeInv, Chunk
<1> HIDE DEF c
<1>4. \A j \in 1 .. n - 1 : blocks[c[j]].kind = "heading"
  BY <1>2, <1>3 DEF FitsIn
<1>5. /\ DOMAIN Front(c) \subseteq 1 .. n - 1
      /\ \A j \in 1 .. n - 1 : Front(c)[j] = c[j]
  <2>1. \A j \in 1 .. n - 1 : c[j] \in Nat
    <3>1. \A j \in 1 .. n : c[j] \in Nat
      BY <1>1, ElementOfSeq
    <3> QED BY <1>1, <3>1
  <2>2. /\ Front(c) \in Seq(Nat) /\ Len(Front(c)) = IF 1 <= n - 1 THEN n - 1 - 1 + 1 ELSE 0
        /\ \A j \in 1 .. n - 1 - 1 + 1 : Front(c)[j] = c[1 + j - 1]
    BY <1>1, <2>1, SubSeqProperties DEF Front
  <2>3. DOMAIN Front(c) = 1 .. Len(Front(c))
    BY <2>2, LenProperties
  <2>4. n - 1 - 1 + 1 = n - 1 /\ \A j \in 1 .. n - 1 : 1 + j - 1 = j
    BY <1>1
  <2>5. \A j \in 1 .. n - 1 : Front(c)[j] = c[j]
    BY <2>2, <2>4
  <2>6. DOMAIN Front(c) \subseteq 1 .. n - 1
    BY <1>1, <2>2, <2>3
  <2> QED BY <2>5, <2>6
<1>6. OnlyHeadings(Front(c))
  BY <1>4, <1>5 DEF OnlyHeadings
<1> QED BY <1>6 DEF c

\* Merging, moving and repeating never make a chunk too large (chunker.py),
\* for every document and all limits: only a block that is too large itself
\* does.
THEOREM TooLargeIsStructural == Spec => []OversizeIsStructural
<1>1. Init => SizeInv
  <2>1. Len(<<>>) = 0 /\ 1 .. 0 = {}
    OBVIOUS
  <2> QED BY <2>1 DEF Init, SizeInv, Indices
<1>2. ChunkInv /\ SizeInv /\ [Next]_vars => SizeInv'
  BY ConfigAssumption, SizeStep
<1>3. ChunkInv /\ SizeInv => OversizeIsStructural
  BY FitsIsStructural
<1> QED BY <1>1, <1>2, <1>3, ChunksAreSound, PTL DEF Spec
=============================================================================
