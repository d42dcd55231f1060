------------------------------- MODULE MCParts -------------------------------
(***************************************************************************)
(* The small parts of the system, each in stories of its own.  Order:      *)
(* orderBatch over all batches of up to MaxBatch revisions over Id, with   *)
(* parents in Id and in Outsiders (revisions that are not in the batch),   *)
(* duplicates included.  Merge: mergeText over all texts of up to MaxLines *)
(* lines over Lines.  File: the stores of data.json over its one queue.    *)
(* Locks: two opposite renames and two tasks on a file of theirs.          *)
(***************************************************************************)
EXTENDS OrderBatch, Diff3, PluginData, KeyedMutex

CONSTANTS Lines, Empty, MaxLines, there, back, edit, apply

ASSUME InputAssumption == MaxLines \in Nat /\ Empty \in Lines

VARIABLES story, texts

Sides == {"ancestor", "local", "remote"}
NoText == [s \in Sides |-> <<Empty>>]

MCWanted == (there :> <<1, 2>>) @@ (back :> <<2, 1>>) @@ (edit :> <<1>>) @@ (apply :> <<1>>)

\* A text has at least one line.
Init ==
    /\ story \in {"order", "merge", "file", "locks"}
    /\ texts \in IF story = "merge" THEN [Sides -> {<<line>> : line \in Lines}] ELSE {NoText}
    /\ OrderInit /\ DataInit /\ LockInit

\* A line is added to one of the three texts.
AddLine(s) ==
    /\ story = "merge" /\ Len(texts[s]) < MaxLines
    /\ \E line \in Lines : texts' = [texts EXCEPT ![s] = Append(@, line)]
    /\ UNCHANGED <<orderVars, dataVars, lockVars>>

Next ==
    /\ \/ story = "order" /\ OrderNext /\ UNCHANGED <<texts, dataVars, lockVars>>
       \/ \E s \in Sides : AddLine(s)
       \/ story = "file" /\ DataNext /\ UNCHANGED <<orderVars, texts, lockVars>>
       \/ story = "locks" /\ LockNext /\ UNCHANGED <<orderVars, texts, dataVars>>
    /\ UNCHANGED story

Spec ==
    /\ Init /\ [][Next]_<<story, orderVars, texts, dataVars, lockVars>>
    /\ DataFairness /\ LockFairness

-----------------------------------------------------------------------------
Old == texts["ancestor"]
Mine == texts["local"]
Theirs == texts["remote"]
IsText(t) == t \notin {Overlap, Failed}

\* Two devices that merge the same two versions, each as its own local side,
\* get the same text or both a conflict copy: their merges can be recognised as
\* equivalent (mergeText, the sort of the events and the order of the branches).
SameOnBothSides(merged) == merged = mergeText(Old, Theirs, Mine)

Within(part, text) == LcsTable(part, text)[0, 0] = Len(part)
New(text) == SelectSeq(text, LAMBDA line : line \notin ToSet(Old))

\* A merge only combines, it never drops a side's change (diff3.ts:20): what a
\* side wrote is in the result, in its order; if both sides only inserted, both
\* are in it whole.  A side without changes yields the other one, the same text
\* on both sides is the result, and no input makes the merge fail.  A merge that
\* meets one of its sides again never becomes a third text: nothing changes, or
\* the lines overlap and a conflict copy is kept.  (Only where the ancestor
\* repeats a line can the alignment take that line for a new one.)
KeepsBothSides(merged) ==
    /\ Old = Theirs => merged = Mine
    /\ Mine = Theirs => merged = Mine
    /\ merged # Failed
    /\ IsText(merged) =>
         /\ Within(New(Mine), merged) /\ Within(New(Theirs), merged)
         /\ Within(Old, Mine) /\ Within(Old, Theirs) => Within(Mine, merged) /\ Within(Theirs, merged)
         /\ Cardinality(ToSet(Old)) = Len(Old) => mergeText(Old, merged, Theirs) \in {merged, Overlap}

MergeLosesNothing ==
    LET merged == mergeText(Old, Mine, Theirs)
    IN  SameOnBothSides(merged) /\ KeepsBothSides(merged)

(* Every call of the file queue and every task under the per-file lock ends: a
   failed save wedges nobody, and opposite renames cannot block each other. *)
CallsEnd == SavesEnd /\ TasksEnd
=============================================================================
