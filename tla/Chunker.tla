------------------------------- MODULE Chunker -------------------------------
(***************************************************************************)
(* How one source document becomes chunks (parser.py and chunker.py of the *)
(* ingestion pipeline): its sections and blocks are read in order, blocks  *)
(* are packed into cores, the last two cores are rebalanced, a core may    *)
(* repeat the end of the one before, and the result is validated.          *)
(*                                                                         *)
(* A block is known by its number, its size in tokens and the headings it  *)
(* stands under; what it says is left out.  Two chunks of the same shape   *)
(* may say the same.                                                       *)
(***************************************************************************)
EXTENDS Integers, SequencesExt

CONSTANTS
    Minimum, Target, Maximum, Overlap, \* the token limits of IngestionConfig
    MaxChunks,                         \* maximum_chunks_per_document
    Titles,                            \* what headings say
    TitleSize,                         \* the tokens of each title
    Sizes,                             \* sizes of blocks in a source
    MaxLevel,                          \* bound: heading levels
    MaxBlocks                          \* bound: blocks of a document

ASSUME ConfigAssumption ==
    /\ {Minimum, Target, Maximum, MaxChunks} \subseteq Nat \ {0}
    /\ Overlap \in Nat
    /\ Minimum <= Target /\ Target <= Maximum /\ Overlap < Maximum
    /\ Sizes \subseteq Nat \ {0}
    /\ TitleSize \in [Titles -> Nat \ {0}]
    /\ MaxLevel \in Nat \ {0} /\ MaxBlocks \in Nat \ {0}

VARIABLES
    phase,   \* "read", "pack", "rebalance", "overlap", "done" or "refused"
    path,    \* the headings the parser stands under
    blocks,  \* the blocks read, oversized ones split
    next,    \* the block to pack, later the core to draft
    cores,   \* the cores: sequences of block numbers
    current, \* the core that is packed
    count,   \* current_count: its tokens as _pack_document counts them
    drafts   \* the chunks: a core and the blocks it repeats before it

vars == <<phase, path, blocks, next, cores, current, count, drafts>>

-----------------------------------------------------------------------------
(* Reading.                                                                *)

Block(kind, size, p) == [kind |-> kind, size |-> size, path |-> p]

\* An oversized block is split at sentences, and a long sentence after so
\* many words, which may have more tokens than words: a part may still exceed
\* the maximum.
Parts(kind, size, p) ==
    IF size <= Maximum THEN {<<Block(kind, size, p)>>}
    ELSE {<<Block(kind, first, p), Block(kind, size - first, p)>> :
             first \in 1 .. size - 1}

Read(kind, size, p) ==
    /\ phase = "read"
    /\ \E parts \in Parts(kind, size, p) :
          /\ Len(blocks) + Len(parts) <= MaxBlocks
          /\ blocks' = blocks \o parts
    /\ path' = p
    /\ UNCHANGED <<phase, next, cores, current, count, drafts>>

\* A heading closes the sections of its level and below; one that skips
\* levels stands under what there is.
Heading(level, title) ==
    LET kept == IF level - 1 <= Len(path) THEN SubSeq(path, 1, level - 1)
                ELSE path
    IN Read("heading", TitleSize[title], Append(kept, title))

\* A paragraph, list, table, quotation or code fence.
Body(size) == Read("body", size, path)

EndOfSource ==
    /\ phase = "read" /\ blocks # <<>>
    /\ phase' = "pack" /\ next' = 1
    /\ UNCHANGED <<path, blocks, cores, current, count, drafts>>

-----------------------------------------------------------------------------
(* Packing.                                                                *)

Size(core) ==
    LET sum[n \in 0 .. Len(core)] ==
            IF n = 0 THEN 0 ELSE sum[n - 1] + blocks[core[n]].size
    IN sum[Len(core)]

Compatible(p, q) == p = <<>> \/ q = <<>> \/ Head(p) = Head(q)

OnlyHeadings(core) == \A i \in DOMAIN core : blocks[core[i]].kind = "heading"

\* The tokens the next block adds, with the separator before it.
Added == blocks[next].size + IF current = <<>> THEN 0 ELSE 1

\* The next block opens a new core.
Closes ==
    /\ current # <<>>
    /\ \/ ~Compatible(blocks[Last(current)].path, blocks[next].path)
       \/ count + Added > Target /\ ~OnlyHeadings(current)

\* The separator is counted even when the block opens a core.
Pack ==
    LET closed == IF Closes THEN <<current>> ELSE <<>>
        grown == Append(IF Closes THEN <<>> ELSE current, next)
        counted == Added + IF Closes THEN 0 ELSE count
        full == counted >= Target
    IN /\ phase = "pack" /\ next <= Len(blocks)
       /\ cores' = cores \o closed \o (IF full THEN <<grown>> ELSE <<>>)
       /\ current' = IF full THEN <<>> ELSE grown
       /\ count' = IF full THEN 0 ELSE counted
       /\ next' = next + 1
       /\ UNCHANGED <<phase, path, blocks, drafts>>

\* Mutant: what is small is always merged.
PackEndsUnchecked ==
    /\ phase = "pack" /\ next > Len(blocks)
    /\ phase' = "rebalance"
    /\ current' = <<>>
    /\ cores' = IF current = <<>> THEN cores
                ELSE IF cores # <<>> /\ Size(current) < Minimum
                THEN [cores EXCEPT ![Len(cores)] = @ \o current]
                ELSE Append(cores, current)
    /\ UNCHANGED <<path, blocks, next, count, drafts>>

\* What is left is a core, or part of the last one if it is small and fits.
PackEnds ==
    /\ phase = "pack" /\ next > Len(blocks)
    /\ phase' = "rebalance"
    /\ current' = <<>>
    /\ cores' =
         IF current = <<>> THEN cores
         ELSE IF /\ cores # <<>> /\ Size(current) < Minimum
                 /\ Size(Last(cores) \o current) <= Maximum
         THEN [cores EXCEPT ![Len(cores)] = @ \o current]
         ELSE Append(cores, current)
    /\ UNCHANGED <<path, blocks, next, count, drafts>>

-----------------------------------------------------------------------------
(* Rebalancing.                                                            *)

Floor == IF Minimum > Target \div 2 THEN Minimum ELSE Target \div 2

\* The blocks before the last group of one path.
Before(core) ==
    CHOOSE k \in 0 .. Len(core) - 1 :
        /\ \A i \in k + 1 .. Len(core) :
              blocks[core[i]].path = blocks[Last(core)].path
        /\ k > 0 => blocks[core[k]].path # blocks[Last(core)].path

Retained == SubSeq(cores[Len(cores) - 1], 1, Before(cores[Len(cores) - 1]))
Moved == SubSeq(cores[Len(cores) - 1], Before(cores[Len(cores) - 1]) + 1,
                Len(cores[Len(cores) - 1]))

\* The last core is small, and the group before it may move to it.
Moves ==
    /\ Len(cores) > 1 /\ Size(Last(cores)) < Floor
    /\ Retained # <<>>
    /\ Compatible(blocks[Last(Moved)].path, blocks[Head(Last(cores))].path)
    /\ Size(Retained) >= Floor
    /\ Size(Moved \o Last(cores)) <= Maximum

\* Mutant: the group is copied.
RebalanceCopies ==
    /\ phase = "rebalance" /\ Moves
    /\ cores' = [cores EXCEPT ![Len(cores)] = Moved \o @]
    /\ UNCHANGED <<phase, path, blocks, next, current, count, drafts>>

Rebalance ==
    /\ phase = "rebalance" /\ Moves
    /\ cores' = [cores EXCEPT ![Len(cores) - 1] = Retained,
                              ![Len(cores)] = Moved \o @]
    /\ UNCHANGED <<phase, path, blocks, next, current, count, drafts>>

RebalanceEnds ==
    /\ phase = "rebalance" /\ ~Moves
    /\ phase' = "overlap" /\ next' = 1
    /\ UNCHANGED <<path, blocks, cores, current, count, drafts>>

-----------------------------------------------------------------------------
(* Overlap and validation.                                                 *)

\* The last k blocks of a core may be repeated before the core c.
Repeats(before, k, c) ==
    LET end == SubSeq(before, Len(before) - k + 1, Len(before))
    IN /\ \A i \in DOMAIN end : blocks[end[i]].path = blocks[Head(c)].path
       /\ Size(end) <= Overlap
       /\ k > 0 => Size(end \o c) <= Maximum

\* As many as possible, if the core is large enough to need them.
Draft ==
    LET c == cores[next]
        before == IF next = 1 THEN <<>> ELSE cores[next - 1]
        k == IF Size(c) < Target THEN 0
             ELSE CHOOSE j \in 0 .. Len(before) :
                     /\ Repeats(before, j, c)
                     /\ \A i \in j + 1 .. Len(before) : ~Repeats(before, i, c)
    IN /\ phase = "overlap" /\ next <= Len(cores)
       /\ drafts' = Append(drafts,
                           [core |-> c,
                            overlap |-> SubSeq(before, Len(before) - k + 1,
                                               Len(before))])
       /\ next' = next + 1
       /\ UNCHANGED <<phase, path, blocks, cores, current, count>>

Chunk(i) == drafts[i].overlap \o drafts[i].core

Shape(i) == [j \in DOMAIN Chunk(i) |-> <<blocks[Chunk(i)[j]].kind,
                                         blocks[Chunk(i)[j]].size>>]

Invalid ==
    \/ Len(drafts) > MaxChunks
    \/ \E i \in DOMAIN drafts :
          \/ Size(Chunk(i)) > Maximum
          \/ OnlyHeadings(Chunk(i))
          \/ Size(Chunk(i)) < Minimum /\ Len(drafts) > 1

\* Validation may take two chunks of the same shape for duplicates.
Alike == \E i, j \in DOMAIN drafts : i # j /\ Shape(i) = Shape(j)

Validate(valid) ==
    /\ phase = "overlap" /\ next > Len(cores)
    /\ valid => ~Invalid
    /\ ~valid => Invalid \/ Alike
    /\ phase' = IF valid THEN "done" ELSE "refused"
    /\ UNCHANGED <<path, blocks, next, cores, current, count, drafts>>

-----------------------------------------------------------------------------

Init ==
    /\ phase = "read" /\ path = <<>> /\ blocks = <<>> /\ next = 1
    /\ cores = <<>> /\ current = <<>> /\ count = 0 /\ drafts = <<>>

Reads ==
    \/ \E level \in 1 .. MaxLevel, title \in Titles : Heading(level, title)
    \/ \E size \in Sizes : Body(size)

Decided == phase \in {"done", "refused"} /\ UNCHANGED vars

Next ==
    \/ Reads \/ EndOfSource
    \/ Pack \/ PackEnds
    \/ Rebalance \/ RebalanceEnds
    \/ Draft \/ \E valid \in BOOLEAN : Validate(valid)
    \/ Decided

Spec == Init /\ [][Next]_vars

-----------------------------------------------------------------------------
(* What chunks are.                                                        *)

\* A sequence of consecutive block numbers.
Consecutive(s) == \A i \in 1 .. Len(s) - 1 : s[i + 1] = s[i] + 1

\* The cores are one exact partition of what was packed so far.
Partition(cs, rest, n) ==
    /\ \A k \in DOMAIN cs : cs[k] # <<>> /\ Consecutive(cs[k])
    /\ Consecutive(rest)
    /\ \A k \in 1 .. Len(cs) - 1 : Head(cs[k + 1]) = Last(cs[k]) + 1
    /\ cs # <<>> => Head(cs[1]) = 1
    /\ rest # <<>> =>
         Last(rest) = n /\ Head(rest) = IF cs = <<>> THEN 1
                                        ELSE Last(Last(cs)) + 1
    /\ rest = <<>> => n = IF cs = <<>> THEN 0 ELSE Last(Last(cs))

Packed == IF phase = "read" THEN 0
          ELSE IF phase = "pack" THEN next - 1 ELSE Len(blocks)

\* docs/ingestion-design.md: chunks "cover one exact, contiguous source-line
\* interval and include every intervening block".  Whatever is closed early,
\* merged at the end, moved by the rebalancing or repeated as overlap, the
\* cores partition the document in order and every chunk is contiguous.
ChunksCoverDocument ==
    /\ Partition(cores, current, Packed)
    /\ \A i \in DOMAIN drafts :
          drafts[i].core = cores[i] /\ Consecutive(Chunk(i))

\* Merging, moving and repeating never make a chunk too large: one that
\* exceeds the maximum, for which the document is refused, is a single block,
\* perhaps under the headings that announce it.
OversizeIsStructural ==
    \A i \in DOMAIN drafts :
        Size(Chunk(i)) > Maximum => OnlyHeadings(Front(Chunk(i)))
===============================================================================
