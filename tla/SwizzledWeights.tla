-------------------------- MODULE SwizzledWeights ---------------------------
(***************************************************************************)
(* The swizzled W4A16 layout of an expert matrix, from the checkpoint's    *)
(* words to the products a kernel adds up: the converter's permutation,    *)
(* the oracle's addressing, the Wave32 GEMV with its xor-shuffle reduce,   *)
(* and the slab the grouped WMMA kernels are fed from.                     *)
(*                                                                         *)
(* A nibble is the (row, column) it was quantised from and a scale the     *)
(* (row, group) it covers; a product is a nibble with the activation       *)
(* column it meets.  A group is 32 columns in four words of eight nibbles. *)
(***************************************************************************)
EXTENDS Integers, Sequences, FiniteSets, SequencesExt

CONSTANTS
    Shapes,     \* [rpw, lpr, iters, rows]: kCfgW13 and kCfgW2 in small
    Waves       \* waves of a block (WAVES)

VARIABLES
    pc,         \* "idle", "gemv" or "slab"
    shape,      \* the matrix the launch reads
    iter,       \* per wave: K iterations done
    offset,     \* per wave: the next shuffle offset, 0 once reduced
    acc,        \* per wave and lane: (slot, first activation) of the groups added
    output,     \* per row: what slice 0 stored
    nBase, kBase, \* the slab's first row and column
    slab        \* LDS tile: (k, n) to a weight; unfilled cells are missing

vars == <<pc, shape, iter, offset, acc, output, nBase, kBase, slab>>

Wave(s) == s.rpw * s.lpr
Groups(s) == s.iters * s.lpr
Columns(s) == Groups(s) * 32
Slots(s) == s.rows * Groups(s)

-----------------------------------------------------------------------------
(* Packing. *)

NibblePerm == <<0, 2, 4, 6, 1, 3, 5, 7>>

\* A word of the checkpoint: eight consecutive columns of a row.
SourceWord(row, word) == [n \in 0 .. 7 |-> <<row, 8 * word + n>>]

\* Mutant: the nibbles stay in the checkpoint's order.
PermuteNothing(w) == w

PermuteWord(w) == [p \in 0 .. 7 |-> w[NibblePerm[p + 1]]]

UnpermuteWord(w) == [n \in 0 .. 7 |-> w[CHOOSE p \in 0 .. 7 : NibblePerm[p + 1] = n]]

\* The converter: row-major (block, row, iteration, slice) reshaped and
\* transposed to (block, iteration, row, slice), so the digits of a slot
\* number name its row and its group.
SlotRow(s, x) == (x \div (Wave(s) * s.iters)) * s.rpw + ((x \div s.lpr) % s.rpw)

SlotGroup(s, x) == ((x \div Wave(s)) % s.iters) * s.lpr + (x % s.lpr)

Payload(s, x) ==
    [words |-> [w \in 0 .. 3 |-> PermuteWord(SourceWord(SlotRow(s, x), SlotGroup(s, x) * 4 + w))],
     scale |-> <<SlotRow(s, x), SlotGroup(s, x)>>]

\* swizzle_w4a16's destination of a row's group.
Destination(s, row, group) ==
    ((row \div s.rpw) * s.iters + group \div s.lpr) * Wave(s)
        + (row % s.rpw) * s.lpr + (group % s.lpr)

\* unswizzle_w4a16: the source words and the scale of a row's group.
Unswizzled(s, row, group) ==
    LET stored == Payload(s, Destination(s, row, group))
    IN [words |-> [w \in 0 .. 3 |-> UnpermuteWord(stored.words[w])], scale |-> stored.scale]

-----------------------------------------------------------------------------
(* The oracle's address of one element, and the weight it decodes. *)

NibbleSlot == <<0, 4, 1, 5, 2, 6, 3, 7>>

SwizzledAddress(s, row, column) ==
    LET group == column \div 32
        lane == (row % s.rpw) * s.lpr + (group % s.lpr)
    IN [slot |-> ((row \div s.rpw) * s.iters + group \div s.lpr) * Wave(s) + lane,
        word |-> (column % 32) \div 8,
        nibble |-> NibbleSlot[(column % 8) + 1]]

OracleWeight(s, row, column) ==
    LET a == SwizzledAddress(s, row, column)
    IN [nibble |-> Payload(s, a.slot).words[a.word][a.nibble],
        scale |-> Payload(s, a.slot).scale]

-----------------------------------------------------------------------------
(* The GEMV: a wave owns rpw rows, lpr lanes to a row. *)

\* The launch rounds the waves up to whole blocks.
GridWaves(s) == 0 .. ((s.rows \div s.rpw + Waves - 1) \div Waves) * Waves - 1
Lanes(s) == 0 .. Wave(s) - 1
LaneRow(s, w, lane) == w * s.rpw + lane \div s.lpr

\* Mutant: an activation pair meets neighbouring nibbles.
AdjacentNibbles(stored, base) ==
    UNION {{[nibble |-> stored.words[w][2 * p], scale |-> stored.scale, x |-> base + 2 * (4 * w + p)],
            [nibble |-> stored.words[w][2 * p + 1], scale |-> stored.scale, x |-> base + 2 * (4 * w + p) + 1]} :
           w \in 0 .. 3, p \in 0 .. 3}

\* unpack2 takes nibbles p and p + 4 of a word for the p-th activation pair.
GroupDot(stored, base) ==
    UNION {{[nibble |-> stored.words[w][p], scale |-> stored.scale, x |-> base + 2 * (4 * w + p)],
            [nibble |-> stored.words[w][p + 4], scale |-> stored.scale, x |-> base + 2 * (4 * w + p) + 1]} :
           w \in 0 .. 3, p \in 0 .. 3}

LaunchGemv(s) ==
    /\ pc = "idle"
    /\ pc' = "gemv" /\ shape' = s
    /\ iter' = [w \in GridWaves(s) |-> 0]
    /\ offset' = [w \in GridWaves(s) |-> s.lpr \div 2]
    /\ acc' = [w \in GridWaves(s) |-> [l \in Lanes(s) |-> <<>>]]
    /\ output' = <<>>
    /\ UNCHANGED <<nBase, kBase, slab>>

\* One K iteration of every lane; lanes past the matrix read nothing.
Accumulate(w) ==
    /\ pc = "gemv"
    /\ w \in GridWaves(shape) /\ iter[w] < shape.iters
    /\ acc' = [acc EXCEPT ![w] = [l \in Lanes(shape) |->
          IF LaneRow(shape, w, l) >= shape.rows THEN @[l]
          ELSE Append(@[l],
                 <<(w * shape.iters + iter[w]) * Wave(shape) + l,
                   (iter[w] * shape.lpr + (l % shape.lpr)) * 32>>)]]
    /\ iter' = [iter EXCEPT ![w] = @ + 1]
    /\ UNCHANGED <<pc, shape, offset, output, nBase, kBase, slab>>

\* The lane whose number differs in the one bit of the offset.
Partner(l, o) == IF (l \div o) % 2 = 0 THEN l + o ELSE l - o

\* One butterfly of __shfl_xor: every lane of the wave adds its partner's sum.
Shuffle(w) ==
    /\ pc = "gemv"
    /\ w \in GridWaves(shape) /\ iter[w] = shape.iters /\ offset[w] > 0
    /\ acc' = [acc EXCEPT ![w] =
          [l \in Lanes(shape) |-> @[l] \o @[Partner(l, offset[w])]]]
    /\ offset' = [offset EXCEPT ![w] = @ \div 2]
    /\ UNCHANGED <<pc, shape, iter, output, nBase, kBase, slab>>

\* Slice 0 of each row stores the row.
Store(w) ==
    /\ pc = "gemv"
    /\ w \in GridWaves(shape) /\ iter[w] = shape.iters /\ offset[w] = 0
    /\ acc[w] # <<>>
    /\ output' = [r \in DOMAIN output \union
                        {r \in 0 .. shape.rows - 1 : r \div shape.rpw = w} |->
                    IF r \in DOMAIN output THEN output[r]
                    ELSE [i \in DOMAIN acc[w][(r % shape.rpw) * shape.lpr] |->
                            LET term == acc[w][(r % shape.rpw) * shape.lpr][i]
                            IN GroupDot(Payload(shape, term[1]), term[2])]]
    /\ acc' = [acc EXCEPT ![w] = <<>>]
    /\ UNCHANGED <<pc, shape, iter, offset, nBase, kBase, slab>>

EndGemv ==
    /\ pc = "gemv"
    /\ \A w \in GridWaves(shape) : acc[w] = <<>>
    /\ pc' = "idle"
    /\ iter' = <<>> /\ offset' = <<>> /\ acc' = <<>> /\ output' = <<>>
    /\ UNCHANGED <<shape, nBase, kBase, slab>>

-----------------------------------------------------------------------------
(* The slab of the grouped kernels: [K block of two groups][N tile]. *)

TileRows(s) == (Waves * Wave(s)) \div 2

LaunchSlab(s, n, k) ==
    /\ pc = "idle"
    /\ n + TileRows(s) <= s.rows /\ n % TileRows(s) = 0
    /\ k + 64 <= Columns(s) /\ k % 64 = 0
    /\ pc' = "slab" /\ shape' = s /\ nBase' = n /\ kBase' = k /\ slab' = <<>>
    /\ UNCHANGED <<iter, offset, acc, output>>

\* grouped_dequant_w4a16_slab: thread t owns group t % 2 of row t \div 2, and
\* writes its k-th weight, pairs split over nibbles p and p + 4, at (k, row).
Dequantised(t, k) ==
    LET stored == Payload(shape, Destination(shape, nBase + t \div 2, kBase \div 32 + (t % 2)))
    IN [nibble |-> stored.words[k \div 8][((k % 8) \div 2) + (IF k % 2 = 0 THEN 0 ELSE 4)],
        scale |-> stored.scale]

\* The threads of a wave write together, the waves in any order.
FillSlab(w) ==
    LET cells == (0 .. 63) \X {n \in 0 .. TileRows(shape) - 1 : (2 * n) \div Wave(shape) = w}
    IN /\ pc = "slab"
       /\ cells \cap DOMAIN slab = {}
       /\ slab' = [c \in DOMAIN slab \union cells |->
                     IF c \in cells THEN Dequantised(2 * c[2] + c[1] \div 32, c[1] % 32)
                     ELSE slab[c]]
       /\ UNCHANGED <<pc, shape, iter, offset, acc, output, nBase, kBase>>

SlabFull == DOMAIN slab = (0 .. 63) \X (0 .. TileRows(shape) - 1)

\* After the barrier the waves read their fragments and the loop goes on.
ConsumeSlab ==
    /\ pc = "slab" /\ SlabFull
    /\ pc' = "idle" /\ slab' = <<>> /\ nBase' = 0 /\ kBase' = 0
    /\ UNCHANGED <<shape, iter, offset, acc, output>>

-----------------------------------------------------------------------------
Init ==
    /\ pc = "idle" /\ shape \in Shapes
    /\ iter = <<>> /\ offset = <<>> /\ acc = <<>> /\ output = <<>>
    /\ nBase = 0 /\ kBase = 0 /\ slab = <<>>

Next ==
    \/ \E s \in Shapes : LaunchGemv(s)
    \/ \E s \in Shapes : \E w \in GridWaves(s) : Accumulate(w) \/ Shuffle(w) \/ Store(w)
    \/ EndGemv
    \/ \E s \in Shapes : \E n \in 0 .. s.rows - 1, g \in 0 .. Groups(s) \div 2 - 1 :
          LaunchSlab(s, n, 64 * g)
    \/ \E w \in 0 .. Waves - 1 : FillSlab(w)
    \/ ConsumeSlab

Spec == Init /\ [][Next]_vars

-----------------------------------------------------------------------------
\* What unswizzling gives back, and what the oracle decodes, is the element the
\* converter was given: the two C++ walks, the oracle's address arithmetic and
\* the converter's transpose agree on every row and column.
LayoutsAgree ==
    pc = "idle" => \A s \in Shapes, row \in 0 .. shape.rows - 1 :
        s = shape =>
        /\ \A g \in 0 .. Groups(s) - 1 :
              Unswizzled(s, row, g) = [words |-> [w \in 0 .. 3 |-> SourceWord(row, 4 * g + w)],
                                       scale |-> <<row, g>>]
        /\ \A c \in 0 .. Columns(s) - 1 :
              OracleWeight(s, row, c) = [nibble |-> <<row, c>>, scale |-> <<row, c \div 32>>]

\* The row the GEMV stores is the oracle's matvec: every element of the row
\* once, each with its own activation and scale, nothing from another row.
RowsMatchOracle ==
    \A r \in DOMAIN output :
        /\ Len(output[r]) = Groups(shape)
        /\ UNION Range(output[r]) =
             {[nibble |-> OracleWeight(shape, r, c).nibble,
               scale |-> OracleWeight(shape, r, c).scale, x |-> c] : c \in 0 .. Columns(shape) - 1}

\* A finished launch has stored every row, the last partial block's included.
EveryRowStored ==
    pc = "gemv" /\ (\A w \in GridWaves(shape) : acc[w] = <<>>) =>
        DOMAIN output = 0 .. shape.rows - 1

\* Whatever order the waves fill it in, the slab holds at (k, n) the weight
\* of row nBase + n and column kBase + k, as far as it is filled.
SlabTransposed ==
    pc = "slab" => \A c \in DOMAIN slab :
        slab[c] = OracleWeight(shape, nBase + c[2], kBase + c[1])

\* The launch reads a matrix there is, stores only rows the matrix has and fills only
\* cells of the tile.
TypeOK ==
    /\ pc \in {"idle", "gemv", "slab"}
    /\ shape \in Shapes
    /\ DOMAIN output \subseteq 0 .. shape.rows - 1
    /\ DOMAIN slab \subseteq (0 .. 63) \X (0 .. TileRows(shape) - 1)
=============================================================================
