------------------------------- MODULE Diff3 --------------------------------
(***************************************************************************)
(* mergeText: the three-way merge of notes, line by line.  Both variants   *)
(* are aligned to the ancestor by a longest common subsequence; changes    *)
(* that touch are grouped into regions; a region that both sides changed   *)
(* differently fails the merge unless they replaced different lines of it. *)
(* VaultApply builds on what the merge promises: it is the same on every   *)
(* device, it keeps both sides, and merging again changes nothing.         *)
(*                                                                         *)
(* A text is a sequence of lines.  Positions count from 0, as in the code. *)
(***************************************************************************)
EXTENDS Integers, Sequences, FiniteSets, SequencesExt

CONSTANTS
    Overlap,    \* the outcome of a merge that fails: a conflict
    Failed,     \* what comes of a read of a hunk that is not there
    MaxCells    \* ceiling on the cells of the alignment table

ASSUME MaxCellsAssumption == MaxCells \in Nat

Line(text, p) == text[p + 1]
Slice(text, from, to) == SubSeq(text, from + 1, to)
Later(m, n) == IF m >= n THEN m ELSE n

\* The length of the longest common subsequence of the rests of x and y.
LcsTable(x, y) ==
    LET table[i \in 0..Len(x), j \in 0..Len(y)] ==
          IF i = Len(x) \/ j = Len(y) THEN 0
          ELSE IF Line(x, i) = Line(y, j) THEN table[i + 1, j + 1] + 1
          ELSE Later(table[i + 1, j], table[i, j + 1])
    IN table

\* The matched positions in order; a tie advances in x.
lcsMatches(x, y) ==
    LET table == LcsTable(x, y)
        walk[i \in 0..Len(x), j \in 0..Len(y)] ==
          IF i = Len(x) \/ j = Len(y) THEN <<>>
          ELSE IF Line(x, i) = Line(y, j) THEN <<<<i, j>>>> \o walk[i + 1, j + 1]
          ELSE IF table[i + 1, j] >= table[i, j + 1] THEN walk[i + 1, j]
          ELSE walk[i, j + 1]
    IN walk[0, 0]

\* What a side replaced: len ancestor lines at a position by size of its own.
diffHunks(ancestor, variant, side) ==
    LET bounds == lcsMatches(ancestor, variant) \o <<<<Len(ancestor), Len(variant)>>>>
        start(k) == IF k = 1 THEN <<0, 0>> ELSE <<bounds[k - 1][1] + 1, bounds[k - 1][2] + 1>>
        hunk(k) == [side |-> side, at |-> start(k)[1], len |-> bounds[k][1] - start(k)[1],
                    from |-> start(k)[2], size |-> bounds[k][2] - start(k)[2]]
    IN {hunk(k) : k \in {k \in DOMAIN bounds : bounds[k] # start(k)}}

End(hunk) == hunk.at + hunk.len
Shifted(hunks, p) == p + FoldLeft(LAMBDA sum, h : sum + h.size - h.len, 0, SetToSeq(hunks))

\* Where a cut of the ancestor lies in a variant: an insertion right at the cut
\* is inside a segment that starts there, and inside one that ends there.
variantStart(hunks, p) == Shifted({h \in hunks : End(h) <= p /\ h.at < p}, p)
variantEnd(hunks, p) == Shifted({h \in hunks : End(h) <= p}, p)
segmentFor(hunks, variant, region) ==
    Slice(variant, variantStart(hunks, region.start), variantEnd(hunks, region.end))

-----------------------------------------------------------------------------
(* Regions.                                                                *)

\* The default adjacency of 1: a change that touches a region joins it.
Touches(region, hunk) == hunk.at - region.end < 1

GroupHunk(regions, hunk) ==
    IF regions # <<>> /\ Touches(Last(regions), hunk)
    THEN [regions EXCEPT ![Len(regions)] =
            [start |-> @.start, end |-> Later(@.end, End(hunk)), sides |-> @.sides \cup {hunk.side}]]
    ELSE Append(regions, [start |-> hunk.at, end |-> End(hunk), sides |-> {hunk.side}])

Regions(hunks) ==
    FoldLeft(GroupHunk, <<>>,
             SetToSortSeq(hunks, LAMBDA g, h : \/ g.at < h.at
                                               \/ g.at = h.at /\ g.side = "local" /\ h.side = "remote"))

InRegion(hunk, region) == hunk.at < region.end /\ End(hunk) > region.start

\* Every hunk replaces lines one for one and lies wholly in the region.
Balanced(hunks, region) ==
    \A h \in hunks : InRegion(h, region) =>
        h.len > 0 /\ h.len = h.size /\ h.at >= region.start /\ End(h) <= region.end

\* Faulty variant: insertions into a region that both sides changed are overlooked.
insertionsNone(hunks, region) == {}

\* Insertions in the region or at its ends.
insertionsIn(hunks, region) ==
    {h \in hunks : h.len = 0 /\ h.at >= region.start /\ h.at <= region.end}
hunkCovering(hunks, p) == {h \in hunks : h.at <= p /\ p < End(h)}

\* Both sides replaced lines of the region, but no line of it twice.
mergeDisjointRegion(o, mine, theirs, a, b, region) ==
    LET span == region.start..(region.end - 1)
        owner(p) == CHOOSE h \in hunkCovering(mine \cup theirs, p) : TRUE
        replaced(p) == LET h == owner(p)
                       IN Line(IF h.side = "local" THEN a ELSE b, h.from + p - h.at) IN
    IF ~Balanced(mine, region) \/ ~Balanced(theirs, region) THEN Overlap
    ELSE IF insertionsIn(mine \cup theirs, region) # {} THEN Overlap
    ELSE IF \E p \in span : Cardinality(hunkCovering(mine \cup theirs, p)) > 1 THEN Overlap
    ELSE IF \E p \in span : hunkCovering(mine \cup theirs, p) = {} THEN Failed
    ELSE [k \in 1..(region.end - region.start) |-> replaced(region.start + k - 1)]

\* Faulty variant: the local side of a contested region wins.
mergeRegionLocalFirst(o, mine, theirs, a, b, region) ==
    IF "local" \notin region.sides THEN segmentFor(theirs, b, region) ELSE segmentFor(mine, a, region)

mergeRegion(o, mine, theirs, a, b, region) ==
    LET old == Slice(o, region.start, region.end)
        Prefer(local, remote) ==
          IF "remote" \notin region.sides \/ remote = old THEN local
          ELSE IF "local" \notin region.sides \/ local = old THEN remote
          ELSE IF local = remote THEN local
          ELSE mergeDisjointRegion(o, mine, theirs, a, b, region)
    IN Prefer(segmentFor(mine, a, region), segmentFor(theirs, b, region))

Broken(text) == text \in {Overlap, Failed}

mergeText(o, a, b) ==
    LET tooLarge(x) == (Len(o) + 1) * (Len(x) + 1) > MaxCells
        AddPart(acc, region, part) ==
          IF Broken(part) THEN [acc EXCEPT !.text = part]
          ELSE [at |-> region.end, text |-> acc.text \o Slice(o, acc.at, region.start) \o part]
        AddTail(merged) ==
          IF Broken(merged.text) THEN merged.text ELSE merged.text \o Slice(o, merged.at, Len(o))
        Merge(mine, theirs) ==
          LET step(acc, region) ==
                IF Broken(acc.text) THEN acc
                ELSE AddPart(acc, region, mergeRegion(o, mine, theirs, a, b, region))
          IN AddTail(FoldLeft(step, [at |-> 0, text |-> <<>>], Regions(mine \cup theirs)))
    IN IF tooLarge(a) \/ tooLarge(b) THEN Overlap
       ELSE Merge(diffHunks(o, a, "local"), diffHunks(o, b, "remote"))
=============================================================================
