-------------------------- MODULE SyncRunnerProofs --------------------------
(***************************************************************************)
(* The device's sync loop: that everything stays of its type, that the     *)
(* durable cursor never passes an event nobody dealt with, and that no     *)
(* commit is lost.                                                         *)
(*                                                                         *)
(* The cursor is saved several awaits after the event it passes was        *)
(* chosen, so the invariant follows an event from the page to the file:    *)
(* what is due is the one after the cursor, and it is dealt with by the    *)
(* time the cursor moves.  For the queue it says that what a push takes    *)
(* for accepted is on the server.                                          *)
(***************************************************************************)
EXTENDS SyncRunner, WellFoundedInduction, TLAPS

-----------------------------------------------------------------------------
(* Recursion over a list.                                                  *)

LEMMA LeastOf ==
  ASSUME NEW T, T \subseteq Nat, T # {}
  PROVE  \E x \in T : \A y \in T : x <= y
<1>1. PICK x \in T : \A y \in T : ~(<<y, x>> \in OpToRel(<, Nat))
  BY NatLessThanWellFounded, WFMin, Zenon
<1>2. \A y \in T : ~(y < x)
  BY <1>1 DEF OpToRel
<1> QED BY <1>2

LEMMA UpTo ==
  ASSUME NEW n \in Nat, NEW T, 0 \in T, \A i \in 1..n : i - 1 \in T => i \in T
  PROVE  \A i \in 0..n : i \in T
<1> DEFINE B == {i \in 0..n : i \notin T}
<1>1. SUFFICES ASSUME B # {} PROVE FALSE
  OBVIOUS
<1>2. PICK x \in B : \A y \in B : x <= y
  <2>1. B \subseteq Nat
    OBVIOUS
  <2> HIDE DEF B
  <2> QED BY <1>1, <2>1, LeastOf
<1>3. x \in 1..n /\ x - 1 \in 0..n /\ x - 1 \notin B
  BY <1>2
<1> QED BY <1>2, <1>3

\* Step maps keep to V, and f follows them from a base.
Closed(step, n, V) == \A i \in 1..n, v \in V : step[i][v] \in V

Unrolls(f, step, base, n, V) ==
    f \in [0..n -> V] /\ f[0] = base /\ \A i \in 1..n : f[i] = step[i][f[i - 1]]

LEMMA Recursion ==
  ASSUME NEW V, NEW base \in V, NEW n \in Nat, NEW step, Closed(step, n, V)
  PROVE  \E f : Unrolls(f, step, base, n, V)
<1> DEFINE T == {m \in 0..n : \E f : Unrolls(f, step, base, m, V)}
<1>1. 0 \in T
  <2>1. Unrolls([i \in 0..0 |-> base], step, base, 0, V)
    <3>1. 0..0 = {0} /\ 1..0 = {}
      OBVIOUS
    <3> QED BY <3>1 DEF Unrolls
  <2>2. 0 \in 0..n
    OBVIOUS
  <2> QED BY <2>1, <2>2
<1>2. ASSUME NEW m \in 1..n, m - 1 \in T PROVE m \in T
  <2>1. PICK f : Unrolls(f, step, base, m - 1, V)
    BY <1>2
  <2> DEFINE g == [i \in 0..m |-> IF i = m THEN step[m][f[m - 1]] ELSE f[i]]
  <2>2. f[m - 1] \in V /\ step[m][f[m - 1]] \in V
    BY <2>1 DEF Unrolls, Closed
  <2>3. g \in [0..m -> V] /\ g[0] = base
    BY <2>1, <2>2 DEF Unrolls
  <2>4. \A i \in 1..m : g[i] = step[i][g[i - 1]]
    BY <2>1 DEF Unrolls
  <2>5. Unrolls(g, step, base, m, V)
    BY <2>3, <2>4 DEF Unrolls
  <2> QED BY <2>5
<1>3. n \in T
  <2> HIDE DEF T
  <2> QED BY <1>1, <1>2, UpTo
<1> QED BY <1>3

LEMMA ToSetOf ==
  ASSUME NEW S, NEW s \in Seq(S)
  PROVE  /\ ToSet(s) \subseteq S /\ ToSet(s) = {s[i] : i \in 1..Len(s)}
         /\ \A e : ToSet(Append(s, e)) = ToSet(s) \cup {e}
         /\ \A t \in Seq(S) : ToSet(s \o t) = ToSet(s) \cup ToSet(t)
         /\ s # <<>> => Head(s) \in ToSet(s) /\ ToSet(Tail(s)) \subseteq ToSet(s)
         /\ s # <<>> => ToSet(s) = {Head(s)} \cup ToSet(Tail(s))
<1>1. ToSet(s) \subseteq S /\ ToSet(s) = {s[i] : i \in 1..Len(s)}
  BY DEF ToSet
<1>2. ASSUME NEW e PROVE ToSet(Append(s, e)) = ToSet(s) \cup {e}
  <2>1. Append(s, e) \in Seq(S \cup {e}) /\ Len(Append(s, e)) = Len(s) + 1
        /\ Append(s, e)[Len(s) + 1] = e /\ \A i \in 1..Len(s) : Append(s, e)[i] = s[i]
    OBVIOUS
  <2> QED BY <2>1 DEF ToSet
<1>3. ASSUME NEW t \in Seq(S) PROVE ToSet(s \o t) = ToSet(s) \cup ToSet(t)
  <2>1. s \o t \in Seq(S) /\ Len(s \o t) = Len(s) + Len(t)
        /\ (\A i \in 1..Len(s) : (s \o t)[i] = s[i])
    OBVIOUS
  <2>2. ASSUME NEW i \in 1..Len(t) PROVE (s \o t)[Len(s) + i] = t[i] /\ Len(s) + i \in 1..Len(s \o t)
    BY <2>1
  <2>3. ASSUME NEW i \in 1..Len(s \o t), i > Len(s) PROVE (s \o t)[i] = t[i - Len(s)] /\ i - Len(s) \in 1..Len(t)
    BY <2>1, <2>3
  <2>4. ToSet(s \o t) \subseteq ToSet(s) \cup ToSet(t)
    <3> SUFFICES ASSUME NEW i \in 1..Len(s \o t) PROVE (s \o t)[i] \in ToSet(s) \cup ToSet(t)
      BY <2>1 DEF ToSet
    <3>1. CASE i > Len(s)
      BY <2>3, <3>1 DEF ToSet
    <3>2. CASE i <= Len(s)
      BY <2>1, <3>2 DEF ToSet
    <3> QED BY <2>1, <3>1, <3>2
  <2>5. ToSet(s) \subseteq ToSet(s \o t)
    <3>1. \A i \in 1..Len(s) : i \in 1..Len(s \o t)
      BY <2>1
    <3> QED BY <2>1, <3>1 DEF ToSet
  <2>6. ToSet(t) \subseteq ToSet(s \o t)
    <3> SUFFICES ASSUME NEW i \in 1..Len(t) PROVE t[i] \in ToSet(s \o t)
      BY DEF ToSet
    <3>1. DOMAIN (s \o t) = 1..Len(s \o t)
      BY <2>1
    <3>2. (s \o t)[Len(s) + i] \in ToSet(s \o t)
      BY <2>2, <3>1, Zenon DEF ToSet
    <3> QED BY <2>2, <3>2
  <2> QED BY <2>4, <2>5, <2>6
<1>4. ASSUME s # <<>>
      PROVE  Head(s) \in ToSet(s) /\ ToSet(Tail(s)) \subseteq ToSet(s) /\ ToSet(s) = {Head(s)} \cup ToSet(Tail(s))
  <2>1. Tail(s) \in Seq(S) /\ Len(Tail(s)) = Len(s) - 1 /\ Head(s) = s[1] /\ Len(s) >= 1
        /\ \A i \in 1..Len(Tail(s)) : Tail(s)[i] = s[i + 1]
    BY <1>4
  <2>2. ASSUME NEW i \in 2..Len(s) PROVE Tail(s)[i - 1] = s[i] /\ i - 1 \in 1..Len(Tail(s))
    BY <2>1
  <2>3. ToSet(Tail(s)) \subseteq ToSet(s) /\ Head(s) \in ToSet(s)
    <3>1. \A i \in 1..Len(Tail(s)) : i + 1 \in 1..Len(s)
      BY <2>1
    <3> QED BY <2>1, <3>1 DEF ToSet
  <2>4. ToSet(s) \subseteq {Head(s)} \cup ToSet(Tail(s))
    <3> SUFFICES ASSUME NEW i \in 1..Len(s) PROVE s[i] \in {Head(s)} \cup ToSet(Tail(s))
      BY DEF ToSet
    <3>1. CASE i = 1
      BY <2>1, <3>1
    <3>2. CASE i \in 2..Len(s)
      <4>1. DOMAIN Tail(s) = 1..Len(Tail(s))
        BY <2>1
      <4>2. Tail(s)[i - 1] \in ToSet(Tail(s))
        BY <2>2, <3>2, <4>1, Zenon DEF ToSet
      <4> QED BY <2>2, <3>2, <4>2
    <3> QED BY <3>1, <3>2
  <2> QED BY <2>3, <2>4
<1> QED BY <1>1, <1>2, <1>3, <1>4

-----------------------------------------------------------------------------
(* Lists.                                                                  *)

LEMMA AmongIs ==
  ASSUME NEW S, NEW list \in Seq(S), NEW wanted
  PROVE  Among(list, wanted) \in Seq(S) /\ ToSet(Among(list, wanted)) = ToSet(list) \cap wanted
<1> DEFINE n == Len(list)
           Keep(i, v) == IF list[i] \in wanted THEN Append(v, list[i]) ELSE v
           step == [i \in 1..n |-> [v \in Seq(S) |-> Keep(i, v)]]
           Body(g) == [i \in 0..n |-> IF i = 0 THEN <<>>
                                      ELSE IF list[i] \in wanted THEN Append(g[i - 1], list[i]) ELSE g[i - 1]]
           kept == CHOOSE g : g = Body(g)
<1>1. n \in Nat /\ \A i \in 1..n : list[i] \in S
  OBVIOUS
<1>2. \A i \in 1..n, v \in Seq(S) : step[i][v] = Keep(i, v) /\ Keep(i, v) \in Seq(S)
  BY <1>1
<1>3. PICK f : Unrolls(f, step, <<>>, n, Seq(S))
  <2>1. Closed(step, n, Seq(S)) /\ <<>> \in Seq(S)
    BY <1>2 DEF Closed
  <2> HIDE DEF step, n
  <2> QED BY <1>1, <2>1, Recursion, Zenon
<1>4. f = Body(f)
  <2>1. f \in [0..n -> Seq(S)] /\ f[0] = <<>> /\ \A i \in 1..n : f[i] = Keep(i, f[i - 1])
    <3>1. \A i \in 1..n : i - 1 \in 0..n
      BY <1>1
    <3> QED BY <1>2, <1>3, <3>1 DEF Unrolls
  <2> DEFINE B == Body(f)
  <2>2. f = [i \in 0..n |-> f[i]] /\ B = [i \in 0..n |-> B[i]]
    BY <2>1
  <2>3. \A i \in 0..n : f[i] = B[i]
    <3>1. ASSUME NEW i \in 1..n PROVE f[i] = B[i]
      BY <1>1, <2>1
    <3>2. f[0] = B[0]
      BY <1>1, <2>1
    <3> HIDE DEF B
    <3> QED BY <1>1, <3>1, <3>2
  <2> HIDE DEF B
  <2>4. f = B
    BY <2>2, <2>3
  <2> QED BY <2>4 DEF B
<1>5. kept = Body(kept)
  <2> HIDE DEF Body
  <2> QED BY <1>4
<1>6. Among(list, wanted) = kept[n]
  BY DEF Among
<1> HIDE DEF kept
<1> DEFINE T == {i \in 0..n : kept[i] \in Seq(S) /\ ToSet(kept[i]) = {list[j] : j \in 1..i} \cap wanted}
<1>7. 0 \in T
  BY <1>1, <1>5 DEF ToSet
<1>8. ASSUME NEW i \in 1..n, i - 1 \in T PROVE i \in T
  <2>1. kept[i] = IF list[i] \in wanted THEN Append(kept[i - 1], list[i]) ELSE kept[i - 1]
    <3>1. i \in 0..n /\ i # 0
      BY <1>1
    <3> QED BY <1>5, <3>1
  <2>2. {list[j] : j \in 1..i} = {list[j] : j \in 1..(i - 1)} \cup {list[i]}
    BY <1>1
  <2>3. kept[i - 1] \in Seq(S) /\ ToSet(kept[i - 1]) = {list[j] : j \in 1..(i - 1)} \cap wanted
    BY <1>8
  <2>4. CASE list[i] \in wanted
    <3>1. kept[i] = Append(kept[i - 1], list[i]) /\ kept[i] \in Seq(S)
      BY <1>1, <2>1, <2>3, <2>4
    <3>2. ToSet(kept[i]) = ToSet(kept[i - 1]) \cup {list[i]}
      BY <2>3, <3>1, ToSetOf
    <3>3. ToSet(kept[i]) = {list[j] : j \in 1..i} \cap wanted
      BY <2>2, <2>3, <2>4, <3>2, Zenon
    <3>4. i \in 0..n
      BY <1>1
    <3> QED BY <3>1, <3>3, <3>4, Zenon
  <2>5. CASE list[i] \notin wanted
    BY <2>1, <2>2, <2>3, <2>5
  <2> QED BY <2>4, <2>5
<1>9. n \in T
  <2>1. n \in 0..n
    BY <1>1
  <2> HIDE DEF T, n
  <2> QED BY <1>1, <1>7, <1>8, <2>1, UpTo
<1> QED BY <1>6, <1>9, ToSetOf

LEMMA WithoutIs ==
  ASSUME NEW outbox \in Seq(Edits), NEW x
  PROVE  Without(outbox, x) \in Seq(Edits) /\ ToSet(Without(outbox, x)) = ToSet(outbox) \ x
BY AmongIs, ToSetOf DEF Without

LEMMA PlanTyped ==
  ASSUME RunnerAssumption, NEW outbox \in Seq(Edits)
  PROVE  PlanPushBatches(outbox) \in Seq(Seq(Edits))
<1> DEFINE n == Len(outbox)
           V == [done : Seq(Seq(Edits)), items : Seq(Edits), bytes : Nat]
           none == [done |-> <<>>, items |-> <<>>, bytes |-> 0]
           step == [i \in 1..n |-> [v \in V |-> Planned(v, outbox[i])]]
           Body(g) == [i \in 0..n |-> IF i = 0 THEN none ELSE Planned(g[i - 1], outbox[i])]
           plan == CHOOSE g : g = Body(g)
<1>1. n \in Nat /\ \A i \in 1..n : outbox[i] \in Edits
  OBVIOUS
<1>2. ASSUME NEW v \in V, NEW e \in Edits PROVE Planned(v, e) \in V
  <2>1. Bytes[e] \in Nat
    BY DEF RunnerAssumption
  <2>2. <<e>> \in Seq(Edits) /\ Append(v.items, e) \in Seq(Edits) /\ Append(v.done, v.items) \in Seq(Seq(Edits))
    OBVIOUS
  <2> QED BY <2>1, <2>2, SMTT(60) DEF Planned
<1>3. PICK f : Unrolls(f, step, none, n, V)
  <2>1. Closed(step, n, V) /\ none \in V
    <3>1. none \in V
      OBVIOUS
    <3> HIDE DEF V
    <3>2. \A i \in 1..n, v \in V : step[i][v] \in V
      BY <1>1, <1>2
    <3> QED BY <3>1, <3>2 DEF Closed
  <2> HIDE DEF step, n, V, none
  <2> QED BY <1>1, <2>1, Recursion, Zenon
<1>4. f = Body(f)
  <2>1. f \in [0..n -> V] /\ f[0] = none /\ \A i \in 1..n : f[i] = Planned(f[i - 1], outbox[i])
    <3>1. \A i \in 1..n : i - 1 \in 0..n
      BY <1>1
    <3> HIDE DEF V, none
    <3> QED BY <1>3, <3>1 DEF Unrolls
  <2> HIDE DEF V, none, n
  <2> DEFINE B == Body(f)
  <2>2. f = [i \in 0..n |-> f[i]] /\ B = [i \in 0..n |-> B[i]]
    BY <2>1
  <2>3. \A i \in 0..n : f[i] = B[i]
    <3>1. ASSUME NEW i \in 1..n PROVE f[i] = B[i]
      BY <1>1, <2>1
    <3>2. f[0] = B[0]
      BY <1>1, <2>1
    <3> HIDE DEF B
    <3> QED BY <1>1, <3>1, <3>2, SMTT(60)
  <2> HIDE DEF B
  <2>4. f = B
    BY <2>2, <2>3
  <2> QED BY <2>4 DEF B
<1>5. plan = Body(plan)
  <2> HIDE DEF Body
  <2> QED BY <1>4
<1>6. PlanPushBatches(outbox) = IF plan[n].items = <<>> THEN plan[n].done ELSE Append(plan[n].done, plan[n].items)
  BY DEF PlanPushBatches
<1> HIDE DEF plan
<1> DEFINE T == {i \in 0..n : plan[i] \in V}
<1>7. 0 \in T
  BY <1>1, <1>5
<1>8. ASSUME NEW i \in 1..n, i - 1 \in T PROVE i \in T
  <2>1. plan[i] = Planned(plan[i - 1], outbox[i]) /\ i \in 0..n
    <3>1. i \in 0..n /\ i # 0
      BY <1>1
    <3> HIDE DEF none
    <3> QED BY <1>5, <3>1
  <2> HIDE DEF V
  <2> QED BY <1>1, <1>2, <1>8, <2>1, SMTT(60)
<1>9. n \in T
  <2>1. n \in 0..n
    BY <1>1
  <2> HIDE DEF T, n
  <2> QED BY <1>1, <1>7, <1>8, <2>1, UpTo
<1> QED BY <1>6, <1>9, SMTT(60)

\* The results of a push answer, and what it adds to the log
Results == Seq([id : Edits, outcome : Outcome])

AnswerOK(acc, batch) ==
    /\ acc.have \subseteq Revisions /\ acc.have \subseteq ToSet(log) \cup ToSet(acc.new)
    /\ acc.new \in Seq(Edits)
    /\ acc.results \in Results
    /\ \A i \in 1..Len(acc.results) :
         /\ acc.results[i].id \in ToSet(batch)
         /\ Accepted(acc.results[i]) => acc.results[i].id \in acc.have

LEMMA JudgedIs ==
  ASSUME TypeOK, NEW batch \in Seq(Edits), NEW acc, AnswerOK(acc, batch), NEW e \in ToSet(batch)
  PROVE  AnswerOK(Judged(acc, e), batch)
<1> DEFINE o == Decide(acc.have, e)
           new == Judged(acc, e)
<1>1. e \in Edits /\ e \in Revisions
  BY ToSetOf DEF Revisions
<1>2. o \in Outcome
  BY Zenon DEF Decide, Outcome
<1> HIDE DEF o
<1>3. new.have = (IF o = "accepted" THEN acc.have \cup {e} ELSE acc.have)
      /\ new.results = Append(acc.results, [id |-> e, outcome |-> o])
      /\ new.new = (IF o = "accepted" /\ e \notin acc.have THEN Append(acc.new, e) ELSE acc.new)
  BY DEF Judged, o
<1> HIDE DEF new
<1>4. acc.new \in Seq(Edits) /\ acc.results \in Results
  BY DEF AnswerOK
<1>5. new.have \subseteq Revisions /\ new.new \in Seq(Edits)
  BY <1>1, <1>3, <1>4 DEF AnswerOK
<1>6. new.have \subseteq ToSet(log) \cup ToSet(new.new)
  <2>1. ToSet(Append(acc.new, e)) = ToSet(acc.new) \cup {e}
    BY <1>4, ToSetOf
  <2> QED BY <1>3, <2>1 DEF AnswerOK
<1>7. /\ new.results \in Results /\ Len(new.results) = Len(acc.results) + 1
      /\ new.results[Len(acc.results) + 1] = [id |-> e, outcome |-> o]
      /\ \A i \in 1..Len(acc.results) : new.results[i] = acc.results[i]
  BY <1>1, <1>2, <1>3, <1>4 DEF Results
<1>8. \A i \in 1..Len(new.results) :
        new.results[i].id \in ToSet(batch) /\ (Accepted(new.results[i]) => new.results[i].id \in new.have)
  <2> SUFFICES ASSUME NEW i \in 1..Len(new.results)
               PROVE  new.results[i].id \in ToSet(batch) /\ (Accepted(new.results[i]) => new.results[i].id \in new.have)
    OBVIOUS
  <2>1. Len(acc.results) \in Nat
    BY <1>4 DEF Results
  <2>2. CASE i = Len(acc.results) + 1
    <3>1. new.results[i].id = e /\ new.results[i].outcome = o
      BY <1>7, <2>2
    <3> QED BY <1>3, <3>1 DEF Accepted
  <2>3. CASE i \in 1..Len(acc.results)
    BY <1>3, <1>7, <2>3 DEF AnswerOK
  <2> QED BY <1>7, <2>1, <2>2, <2>3
<1> QED BY <1>5, <1>6, <1>7, <1>8 DEF AnswerOK, new

LEMMA JudgeIs ==
  ASSUME TypeOK, NEW batch \in Seq(Edits)
  PROVE  AnswerOK(Judge(batch), batch)
<1> DEFINE n == Len(batch)
           V == {acc \in [have : SUBSET Revisions, results : Results, new : Seq(Edits)] : AnswerOK(acc, batch)}
           none == [have |-> ToSet(log), results |-> <<>>, new |-> <<>>]
           step == [i \in 1..n |-> [v \in V |-> Judged(v, batch[i])]]
           Body(g) == [i \in 0..n |-> IF i = 0 THEN none ELSE Judged(g[i - 1], batch[i])]
           judged == CHOOSE g : g = Body(g)
<1>0. none \in V
  <2>1. ToSet(log) \subseteq Revisions
    BY ToSetOf DEF TypeOK
  <2>2. <<>> \in Seq(Edits) /\ <<>> \in Results /\ Len(<<>>) = 0
    BY DEF Results
  <2>3. none \in [have : SUBSET Revisions, results : Results, new : Seq(Edits)]
    BY <2>1, <2>2
  <2>4. none.have = ToSet(log) /\ none.results = <<>> /\ none.new = <<>>
    OBVIOUS
  <2> HIDE DEF none
  <2>5. AnswerOK(none, batch)
    BY <2>1, <2>2, <2>4 DEF AnswerOK
  <2> QED BY <2>3, <2>5
<1>1. n \in Nat /\ \A i \in 1..n : batch[i] \in ToSet(batch)
  BY DEF ToSet
<1>2. ASSUME NEW v \in V, NEW e \in ToSet(batch) PROVE Judged(v, e) \in V
  <2>1. AnswerOK(Judged(v, e), batch)
    BY <1>2, JudgedIs
  <2>2. Judged(v, e) = [have |-> Judged(v, e).have, results |-> Judged(v, e).results, new |-> Judged(v, e).new]
    BY DEF Judged
  <2> QED BY <2>1, <2>2 DEF AnswerOK
<1>3. PICK f : Unrolls(f, step, none, n, V)
  <2>2. Closed(step, n, V)
    <3> HIDE DEF V
    <3>1. \A i \in 1..n, v \in V : step[i][v] \in V
      BY <1>1, <1>2
    <3> QED BY <3>1 DEF Closed
  <2> HIDE DEF step, n, V, none
  <2> QED BY <1>1, <1>0, <2>2, Recursion, Zenon
<1>4. f = Body(f)
  <2>1. f \in [0..n -> V] /\ f[0] = none /\ \A i \in 1..n : f[i] = Judged(f[i - 1], batch[i])
    <3>1. \A i \in 1..n : i - 1 \in 0..n
      BY <1>1
    <3> HIDE DEF V, none
    <3> QED BY <1>3, <3>1 DEF Unrolls
  <2> HIDE DEF V, none, n
  <2> DEFINE B == Body(f)
  <2>2. f = [i \in 0..n |-> f[i]] /\ B = [i \in 0..n |-> B[i]]
    BY <2>1
  <2>3. \A i \in 0..n : f[i] = B[i]
    <3>1. ASSUME NEW i \in 1..n PROVE f[i] = B[i]
      BY <1>1, <2>1
    <3>2. f[0] = B[0]
      BY <1>1, <2>1
    <3> HIDE DEF B
    <3> QED BY <1>1, <3>1, <3>2
  <2> HIDE DEF B
  <2>4. f = B
    BY <2>2, <2>3
  <2> QED BY <2>4 DEF B
<1>5. judged = Body(judged)
  <2> HIDE DEF Body
  <2> QED BY <1>4
<1>6. Judge(batch) = judged[n]
  BY DEF Judge
<1> HIDE DEF judged
<1> DEFINE T == {i \in 0..n : judged[i] \in V}
<1>7. 0 \in T
  <2>1. judged[0] = none
    <3>1. 0 \in 0..n
      BY <1>1
    <3> HIDE DEF none
    <3> QED BY <1>5, <3>1
  <2> HIDE DEF V, none
  <2> QED BY <1>0, <1>1, <2>1
<1>8. ASSUME NEW i \in 1..n, i - 1 \in T PROVE i \in T
  <2>1. judged[i] = Judged(judged[i - 1], batch[i]) /\ i \in 0..n
    <3>1. i \in 0..n /\ i # 0
      BY <1>1
    <3> HIDE DEF none
    <3> QED BY <1>5, <3>1
  <2> HIDE DEF V
  <2> QED BY <1>1, <1>2, <1>8, <2>1
<1>9. n \in T
  <2>1. n \in 0..n
    BY <1>1
  <2> HIDE DEF T, n
  <2> QED BY <1>1, <1>7, <1>8, <2>1, UpTo
<1> QED BY <1>6, <1>9
-----------------------------------------------------------------------------
(* The inductive invariant.                                                *)

\* What a state says is covered: all below its cursor was dealt with, and what
\* it lists of its own was committed.
StateOK(s, events, own, applied) ==
    /\ \A i \in 1..s.cursor : i \in 1..Len(events) /\ events[i] \in applied \cup own \cup s.parked
    /\ ToSet(s.outbox) \cup ToSet(s.authored) \cup s.quarantine \subseteq own

\* A push under way has only this device's commits, and what it takes for
\* accepted is on the server.
PushOK(r, events, own) ==
    /\ r.pending \subseteq own
    /\ \A i \in 1..Len(r.results) :
         r.results[i].id \in own /\ (Accepted(r.results[i]) => r.results[i].id \in ToSet(events))
    /\ r.pc = "sent" => r.queue # <<>> /\ ToSet(Head(r.queue)) \subseteq own

\* Where a pull stands against the cursor it will save: the event it deals with
\* is the next one, and it is dealt with before the cursor moves.
PullOK(r, s, events, own, applied) ==
    /\ r.page \subseteq 1..Len(events) /\ r.retried \subseteq applied
    /\ r.pc \in {"pulling", "apply", "checked", "retire", "park", "save"} => r.cursor = s.cursor
    /\ r.pc \in {"checked", "retire", "park", "save"} =>
         r.cursor + 1 \in r.page /\ \A j \in r.page : r.cursor + 1 <= j
    /\ r.pc = "retire" => events[r.cursor + 1] \in applied
    /\ r.pc = "save" => events[r.cursor + 1] \in applied \cup own \cup s.parked

RunOK(r, s, events, own, applied) == PushOK(r, events, own) /\ PullOK(r, s, events, own, applied)

IInv ==
    /\ TypeOK
    /\ StateOK(disk, log, made, vault)
    /\ \A c \in Connections : StateOK(cache[c], log, made, vault)
    /\ \A c \in Connections : RunOK(run[c], cache[c], log, made, vault)


\* What a step does beyond the connection that takes it
RestOK ==
    /\ session \in {"live", "dead"} /\ gone \subseteq Edits /\ unsaved \in BOOLEAN
    /\ faults \in 0..MaxFaults /\ crashes \in 0..MaxCrashes /\ requeues \in 0..MaxRequeues

Grows ==
    /\ \E more \in Seq(Revisions) : log' = log \o more
    /\ made \subseteq made' /\ made' \subseteq Edits
    /\ vault \subseteq vault' /\ vault' \subseteq Revisions
    /\ RestOK'

LEMMA GrowState ==
  ASSUME NEW events \in Seq(Revisions), NEW more \in Seq(Revisions), NEW s \in StateType,
         NEW own, NEW own2, own \subseteq own2, NEW applied, NEW applied2, applied \subseteq applied2,
         StateOK(s, events, own, applied)
  PROVE  StateOK(s, events \o more, own2, applied2)
<1>1. Len(events) \in Nat /\ Len(events \o more) >= Len(events)
      /\ \A i \in 1..Len(events) : (events \o more)[i] = events[i]
  OBVIOUS
<1>2. s.cursor \in Nat
  BY DEF StateType
<1> QED BY <1>1, <1>2 DEF StateOK

LEMMA GrowRun ==
  ASSUME NEW events \in Seq(Revisions), NEW more \in Seq(Revisions), NEW s \in StateType, NEW r \in RunType,
         NEW own, NEW own2, own \subseteq own2, NEW applied, NEW applied2, applied \subseteq applied2,
         RunOK(r, s, events, own, applied)
  PROVE  RunOK(r, s, events \o more, own2, applied2)
<1>1. Len(events) \in Nat /\ Len(events \o more) >= Len(events)
      /\ \A i \in 1..Len(events) : (events \o more)[i] = events[i]
  OBVIOUS
<1>2. ToSet(events \o more) = ToSet(events) \cup ToSet(more)
  BY ToSetOf
<1>3. PushOK(r, events \o more, own2)
  <2>1. PushOK(r, events, own)
    BY DEF RunOK
  <2> QED BY <1>2, <2>1, Zenon DEF PushOK
<1>4. PullOK(r, s, events \o more, own2, applied2)
  <2>1. PullOK(r, s, events, own, applied) /\ r.cursor \in Nat
    BY DEF RunOK, RunType
  <2>2. r.page \subseteq 1..Len(events \o more)
    BY <1>1, <2>1 DEF PullOK
  <2>3. ASSUME r.pc \in {"checked", "retire", "park", "save"}
        PROVE  (events \o more)[r.cursor + 1] = events[r.cursor + 1]
    BY <1>1, <2>1, <2>3 DEF PullOK
  <2> HIDE DEF RunType
  <2> QED BY <2>1, <2>2, <2>3 DEF PullOK
<1> QED BY <1>3, <1>4 DEF RunOK

LEMMA Others ==
  ASSUME IInv, Grows
  PROVE  /\ log' \in Seq(Revisions)
         /\ StateOK(disk, log', made', vault')
         /\ \A c \in Connections : StateOK(cache[c], log', made', vault')
         /\ \A c \in Connections : RunOK(run[c], cache[c], log', made', vault')
<1>1. PICK more \in Seq(Revisions) : log' = log \o more
  BY DEF Grows
<1>2. log \in Seq(Revisions) /\ disk \in StateType /\ \A c \in Connections : cache[c] \in StateType /\ run[c] \in RunType
  BY DEF IInv, TypeOK
<1>3. made \subseteq made' /\ vault \subseteq vault'
  BY DEF Grows
<1>4. log' \in Seq(Revisions)
  BY <1>1, <1>2
<1>5. StateOK(disk, log', made', vault')
  BY <1>1, <1>2, <1>3, GrowState DEF IInv
<1>6. ASSUME NEW c \in Connections PROVE StateOK(cache[c], log', made', vault')
  BY <1>1, <1>2, <1>3, GrowState DEF IInv
<1>7. ASSUME NEW c \in Connections PROVE RunOK(run[c], cache[c], log', made', vault')
  BY <1>1, <1>2, <1>3, GrowRun DEF IInv
<1> QED BY <1>4, <1>5, <1>6, <1>7

\* A step of one connection that writes nothing
LEMMA Kept ==
  ASSUME IInv, Grows, NEW c \in Connections, NEW r \in RunType,
         run' = [run EXCEPT ![c] = r], UNCHANGED <<disk, cache>>,
         RunOK(r, cache[c], log', made', vault')
  PROVE  IInv'
<1>1. /\ log' \in Seq(Revisions)
      /\ StateOK(disk, log', made', vault')
      /\ \A d \in Connections : StateOK(cache[d], log', made', vault')
      /\ \A d \in Connections : RunOK(run[d], cache[d], log', made', vault')
  BY Others
<1>2. run' \in [Connections -> RunType] /\ \A d \in Connections : run'[d] = IF d = c THEN r ELSE run[d]
  BY DEF IInv, TypeOK
<1>3. TypeOK'
  BY <1>1, <1>2 DEF IInv, TypeOK, Grows, RestOK
<1>4. \A d \in Connections : RunOK(run'[d], cache'[d], log', made', vault')
  BY <1>1, <1>2
<1>5. StateOK(disk', log', made', vault') /\ \A d \in Connections : StateOK(cache'[d], log', made', vault')
  BY <1>1
<1> QED BY <1>3, <1>4, <1>5 DEF IInv

\* A step of one connection that writes its state
LEMMA Saved ==
  ASSUME IInv, Grows, NEW c \in Connections, NEW r \in RunType, NEW s \in StateType,
         run' = [run EXCEPT ![c] = r], Save(c, s),
         StateOK(s, log', made', vault'), RunOK(r, s, log', made', vault')
  PROVE  IInv'
<1>1. /\ log' \in Seq(Revisions)
      /\ StateOK(disk, log', made', vault')
      /\ \A d \in Connections : StateOK(cache[d], log', made', vault')
      /\ \A d \in Connections : RunOK(run[d], cache[d], log', made', vault')
  BY Others
<1>2. run' \in [Connections -> RunType] /\ \A d \in Connections : run'[d] = IF d = c THEN r ELSE run[d]
  BY DEF IInv, TypeOK
<1>3. /\ disk' = s /\ cache' \in [Connections -> StateType]
      /\ \A d \in Connections : cache'[d] = IF d = c THEN s ELSE cache[d]
  BY DEF IInv, TypeOK, Save
<1>4. TypeOK'
  BY <1>1, <1>2, <1>3 DEF IInv, TypeOK, Grows, RestOK
<1>5. \A d \in Connections : RunOK(run'[d], cache'[d], log', made', vault')
  BY <1>1, <1>2, <1>3
<1>6. StateOK(disk', log', made', vault') /\ \A d \in Connections : StateOK(cache'[d], log', made', vault')
  BY <1>1, <1>3
<1> QED BY <1>4, <1>5, <1>6 DEF IInv

LEMMA HereOK ==
  ASSUME IInv, NEW c \in Connections
  PROVE  /\ run[c] \in RunType /\ cache[c] \in StateType
         /\ StateOK(cache[c], log, made, vault) /\ RunOK(run[c], cache[c], log, made, vault)
         /\ log \in Seq(Revisions) /\ made \subseteq Edits /\ vault \subseteq Revisions /\ RestOK
BY DEF IInv, TypeOK, RestOK

LEMMA LocalGrows ==
  ASSUME IInv, Local
  PROVE  Grows /\ log' = log /\ made' = made /\ vault' = vault
<1>1. log = log \o <<>> /\ <<>> \in Seq(Revisions)
  BY DEF IInv, TypeOK
<1> QED BY <1>1 DEF IInv, TypeOK, Local, budgets, Grows, RestOK

\* Neither a push request nor an event is under way in these.
Calm == {"off", "idle", "begin", "push", "results", "cascade", "pull"}

LEMMA Follows ==
  ASSUME NEW old \in RunType, NEW r \in RunType, NEW s, NEW events, NEW own, NEW applied,
         RunOK(old, s, events, own, applied),
         r.pending \subseteq old.pending, r.results \in {old.results, <<>>},
         r.page \subseteq old.page, r.retried = old.retried,
         \/ r.pc \in Calm
         \/ r.pc = old.pc /\ r.queue = old.queue /\ r.cursor = old.cursor /\ r.page = old.page
  PROVE  RunOK(r, s, events, own, applied)
<1>1. PushOK(old, events, own) /\ PullOK(old, s, events, own, applied)
  BY DEF RunOK
<1> HIDE DEF RunType
<1>2. \A i \in 1..Len(r.results) :
        r.results[i].id \in own /\ (Accepted(r.results[i]) => r.results[i].id \in ToSet(events))
  <2>1. CASE r.results = old.results
    BY <1>1, <2>1, Zenon DEF PushOK
  <2>2. CASE r.results = <<>>
    <3>1. Len(r.results) = 0
      BY <2>2
    <3> QED BY <3>1
  <2> QED BY <2>1, <2>2
<1>3. CASE r.pc \in Calm
  <2>1. PushOK(r, events, own)
    BY <1>1, <1>2, <1>3 DEF PushOK, Calm
  <2>2. PullOK(r, s, events, own, applied)
    BY <1>1, <1>3 DEF PullOK, Calm
  <2> QED BY <2>1, <2>2 DEF RunOK
<1>4. CASE r.pc = old.pc /\ r.queue = old.queue /\ r.cursor = old.cursor /\ r.page = old.page
  <2>1. PushOK(r, events, own)
    BY <1>1, <1>2, <1>4, Zenon DEF PushOK
  <2>2. PullOK(r, s, events, own, applied)
    BY <1>1, <1>4 DEF PullOK
  <2> QED BY <2>1, <2>2 DEF RunOK
<1> QED BY <1>3, <1>4

\* A cycle ends with nothing under way.
LEMMA EndedIs ==
  ASSUME NEW r \in RunType, NEW result \in {"synced", "conflict", "deferred", "offline", "unauthenticated"}
  PROVE  /\ Ended(r, result) \in RunType /\ Ended(r, result).pc \in {"begin", "idle"}
         /\ Ended(r, result).pending = {} /\ Ended(r, result).results = <<>>
         /\ Ended(r, result).page = {} /\ Ended(r, result).retried = r.retried
<1> DEFINE r1 == [r EXCEPT !.backoff = IF result = "offline" /\ r.live THEN @ + 1 ELSE @]
           o == Observed(r1, result)
<1>1. r1 \in RunType /\ r1.retried = r.retried
  <2> DEFINE n == IF result = "offline" /\ r.live THEN r.backoff + 1 ELSE r.backoff
  <2>1. n \in Nat /\ r1 = [r EXCEPT !.backoff = n]
    BY DEF RunType
  <2> HIDE DEF n, r1
  <2> QED BY <2>1 DEF RunType
<1> HIDE DEF r1
<1>2. o \in RunType /\ o.retried = r.retried
  <2>1. CASE ~r1.live
    BY <1>1, <2>1 DEF Observed
  <2>2. CASE r1.live /\ result = "offline"
    <3> DEFINE n == IF r1.failures = 3 THEN 3 ELSE r1.failures + 1
               shown == IF n = 3 THEN "offline" ELSE "retrying"
    <3>1. o = [r1 EXCEPT !.failures = n, !.status = shown]
      BY <2>2 DEF Observed
    <3>2. n \in 0..3 /\ shown \in Status
      BY <1>1 DEF RunType, Status
    <3> HIDE DEF o, n, shown
    <3> QED BY <1>1, <3>1, <3>2 DEF RunType
  <2>3. CASE r1.live /\ result # "offline"
    <3> DEFINE shown == IF result = "unauthenticated" THEN "reconnect-required" ELSE result
               lives == result # "unauthenticated"
    <3>1. o = [r1 EXCEPT !.failures = 0, !.status = shown, !.live = lives]
      BY <2>3 DEF Observed
    <3>2. shown \in Status /\ lives \in BOOLEAN /\ 0 \in 0..3
      BY <2>3 DEF Status
    <3> HIDE DEF o, shown, lives
    <3>3. o \in RunType
      BY <1>1, <3>1, <3>2 DEF RunType
    <3>4. o.retried = r1.retried
      BY <1>1, <3>1 DEF RunType
    <3> QED BY <1>1, <3>3, <3>4
  <2> QED BY <2>1, <2>2, <2>3
<1>3. Ended(r, result) =
        [o EXCEPT !.pc = IF r.rerun /\ o.live THEN "begin" ELSE "idle",
                  !.rerun = FALSE, !.backoff = IF o.live THEN @ ELSE 0,
                  !.queue = <<>>, !.batch = <<>>, !.results = <<>>, !.work = <<>>,
                  !.pending = {}, !.accepted = {}, !.dead = {},
                  !.pushFailed = FALSE, !.page = {}, !.cursor = 0, !.outcome = "synced"]
  BY DEF Ended, r1
<1>4. <<>> \in Seq(Seq(Edits)) /\ <<>> \in Seq(Edits) /\ <<>> \in Seq([id : Edits, outcome : Outcome])
  OBVIOUS
<1> DEFINE at == IF r.rerun /\ o.live THEN "begin" ELSE "idle"
           waits == IF o.live THEN o.backoff ELSE 0
<1>5. at \in PC /\ at \in {"begin", "idle"} /\ waits \in Nat
  BY <1>2 DEF PC, RunType
<1> DEFINE half == [o EXCEPT !.pc = at, !.rerun = FALSE, !.backoff = waits,
                             !.queue = <<>>, !.batch = <<>>, !.results = <<>>, !.work = <<>>]
           whole == [half EXCEPT !.pending = {}, !.accepted = {}, !.dead = {},
                                 !.pushFailed = FALSE, !.page = {}, !.cursor = 0, !.outcome = "synced"]
<1>6. Ended(r, result) = whole
  BY <1>3
<1> HIDE DEF o, at, waits
<1>7. half \in RunType
  BY <1>2, <1>4, <1>5 DEF RunType
<1>8. half.pc = at /\ half.results = <<>> /\ half.retried = o.retried
  BY <1>2 DEF RunType
<1> HIDE DEF half
<1>9. whole \in RunType
  BY <1>7 DEF RunType
<1>10. /\ whole.pc = at /\ whole.pending = {} /\ whole.results = <<>>
       /\ whole.page = {} /\ whole.retried = o.retried
  BY <1>7, <1>8 DEF RunType
<1> HIDE DEF whole
<1> QED BY <1>2, <1>5, <1>6, <1>9, <1>10

LEMMA EndCycleKeeps ==
  ASSUME IInv, Grows, NEW c \in Connections, NEW r \in RunType, r.retried = run[c].retried,
         NEW result \in {"synced", "conflict", "deferred", "offline", "unauthenticated"},
         Step(c, Ended(r, result)), UNCHANGED <<disk, cache>>
  PROVE  IInv'
<1>1. RunOK(run[c], cache[c], log', made', vault') /\ run[c] \in RunType
  BY Others, HereOK
<1> DEFINE e == Ended(r, result)
<1>2. e \in RunType /\ e.pc \in Calm /\ e.pending = {} /\ e.results = <<>> /\ e.page = {} /\ e.retried = run[c].retried
  BY EndedIs DEF Calm
<1>3. run' = [run EXCEPT ![c] = e]
  BY DEF Step
<1> HIDE DEF e
<1>4. RunOK(e, cache[c], log', made', vault')
  BY <1>1, <1>2, Follows
<1> QED BY <1>2, <1>3, <1>4, Kept

-----------------------------------------------------------------------------
(* Triggers, restarts and the world around the runner.                     *)

\* A trigger leaves a cycle under way where it is.
LEMMA TriggeredIs ==
  ASSUME NEW r \in RunType
  PROVE  /\ Triggered(r) \in RunType
         /\ Triggered(r).pc \in Calm \/ Triggered(r).pc = r.pc
         /\ Triggered(r).pending = r.pending /\ Triggered(r).results = r.results
         /\ Triggered(r).page = r.page /\ Triggered(r).retried = r.retried
         /\ Triggered(r).queue = r.queue /\ Triggered(r).cursor = r.cursor
         /\ Triggered(r).backoff = r.backoff
<1>1. CASE r.pc = "idle"
  <2> DEFINE t == [r EXCEPT !.pc = "begin"]
  <2>1. t \in RunType
    BY DEF RunType, PC
  <2>2. /\ t.pc = "begin" /\ t.pending = r.pending /\ t.results = r.results /\ t.page = r.page
        /\ t.retried = r.retried /\ t.queue = r.queue /\ t.cursor = r.cursor /\ t.backoff = r.backoff
    BY DEF RunType
  <2>3. Triggered(r) = t
    BY <1>1 DEF Triggered
  <2> HIDE DEF t
  <2> QED BY <2>1, <2>2, <2>3 DEF Calm
<1>2. CASE r.pc # "idle"
  <2> DEFINE t == [r EXCEPT !.rerun = TRUE]
  <2>1. t \in RunType
    BY DEF RunType
  <2>2. /\ t.pc = r.pc /\ t.pending = r.pending /\ t.results = r.results /\ t.page = r.page
        /\ t.retried = r.retried /\ t.queue = r.queue /\ t.cursor = r.cursor /\ t.backoff = r.backoff
    BY DEF RunType
  <2>3. Triggered(r) = t
    BY <1>2 DEF Triggered
  <2> HIDE DEF t
  <2> QED BY <2>1, <2>2, <2>3
<1> QED BY <1>1, <1>2

\* A step that only triggers, or changes what no cycle depends on
LEMMA AsideKeeps ==
  ASSUME IInv, NEW c \in Connections, NEW r \in RunType,
         r.pc \in Calm \/ r.pc = run[c].pc,
         r.pending = run[c].pending, r.results = run[c].results, r.page = run[c].page,
         r.retried = run[c].retried, r.queue = run[c].queue, r.cursor = run[c].cursor,
         Step(c, r), Local, UNCHANGED <<disk, cache>>
  PROVE  IInv'
<1>1. Grows
  BY LocalGrows
<1>2. RunOK(run[c], cache[c], log', made', vault') /\ run[c] \in RunType
  BY <1>1, Others, HereOK
<1>3. RunOK(r, cache[c], log', made', vault')
  BY <1>2, Follows
<1> QED BY <1>1, <1>3, Kept DEF Step

LEMMA TriggersKeep ==
  ASSUME IInv, NEW c \in Connections, SyncNow(c) \/ BackoffFires(c) \/ Stop(c)
  PROVE  IInv'
<1>1. run[c] \in RunType
  BY HereOK
<1> DEFINE t == Triggered(run[c])
<1>2. /\ t \in RunType /\ (t.pc \in Calm \/ t.pc = run[c].pc)
      /\ t.pending = run[c].pending /\ t.results = run[c].results /\ t.page = run[c].page
      /\ t.retried = run[c].retried /\ t.queue = run[c].queue /\ t.cursor = run[c].cursor
      /\ t.backoff = run[c].backoff
  BY <1>1, TriggeredIs
<1>3. CASE SyncNow(c)
  <2> DEFINE r == [t EXCEPT !.status = "syncing"]
  <2>1. Step(c, r) /\ Local /\ UNCHANGED <<disk, cache>>
    BY <1>3 DEF SyncNow
  <2> HIDE DEF t
  <2>2. r \in RunType
    BY <1>2 DEF RunType, Status
  <2>3. /\ r.pc = t.pc /\ r.pending = t.pending /\ r.results = t.results /\ r.page = t.page
        /\ r.retried = t.retried /\ r.queue = t.queue /\ r.cursor = t.cursor
    BY <1>2 DEF RunType
  <2> HIDE DEF r
  <2> QED BY <1>2, <2>1, <2>2, <2>3, AsideKeeps
<1>4. CASE BackoffFires(c)
  <2> DEFINE n == t.backoff - 1
             r == [t EXCEPT !.backoff = n]
  <2>1. Step(c, r) /\ Local /\ UNCHANGED <<disk, cache>> /\ run[c].backoff > 0
    BY <1>4 DEF BackoffFires
  <2>2. n \in Nat
    BY <1>2, <2>1 DEF RunType
  <2> HIDE DEF t, n
  <2>3. r \in RunType
    BY <1>2, <2>2 DEF RunType
  <2>4. /\ r.pc = t.pc /\ r.pending = t.pending /\ r.results = t.results /\ r.page = t.page
        /\ r.retried = t.retried /\ r.queue = t.queue /\ r.cursor = t.cursor
    BY <1>2 DEF RunType
  <2> HIDE DEF r
  <2> QED BY <1>2, <2>1, <2>3, <2>4, AsideKeeps
<1>5. CASE Stop(c)
  <2> DEFINE r == [run[c] EXCEPT !.live = FALSE, !.backoff = 0]
  <2>1. Step(c, r) /\ Local /\ UNCHANGED <<disk, cache>>
    BY <1>5 DEF Stop
  <2>2. r \in RunType
    BY <1>1 DEF RunType
  <2>3. /\ r.pc = run[c].pc /\ r.pending = run[c].pending /\ r.results = run[c].results
        /\ r.page = run[c].page /\ r.retried = run[c].retried /\ r.queue = run[c].queue
        /\ r.cursor = run[c].cursor
    BY <1>1 DEF RunType
  <2> HIDE DEF r
  <2> QED BY <2>1, <2>2, <2>3, AsideKeeps
<1> QED BY <1>3, <1>4, <1>5

LEMMA NewRunIs ==
  ASSUME NEW pc \in {"begin", "off"}, NEW s, NEW events, NEW own, NEW applied
  PROVE  NewRun(pc) \in RunType /\ RunOK(NewRun(pc), s, events, own, applied)
<1> DEFINE r == NewRun(pc)
<1>1. r \in RunType
  <2>1. <<>> \in Seq(Seq(Edits)) /\ <<>> \in Seq(Edits) /\ <<>> \in Seq([id : Edits, outcome : Outcome])
        /\ pc \in PC /\ "syncing" \in Status /\ 0 \in 0..3 /\ [x \in Revisions |-> 0] \in [Revisions -> Nat]
    BY DEF PC, Status
  <2> QED BY <2>1 DEF NewRun, RunType
<1>2. r.pc = pc /\ r.pending = {} /\ r.results = <<>> /\ r.page = {} /\ r.retried = {}
  BY DEF NewRun
<1> HIDE DEF r
<1>3. PushOK(r, events, own)
  <2>1. Len(r.results) = 0
    BY <1>2
  <2> QED BY <1>2, <2>1 DEF PushOK
<1>4. PullOK(r, s, events, own, applied)
  BY <1>2 DEF PullOK
<1> QED BY <1>1, <1>3, <1>4 DEF RunOK, r

LEMMA StartKeeps ==
  ASSUME IInv, RunnerAssumption, Crash \/ \E c \in Connections : Connect(c)
  PROVE  IInv'
<1>1. CASE Crash
  <2>1. UNCHANGED <<log, made, vault, disk>> /\ RestOK'
    BY <1>1 DEF Crash, IInv, TypeOK, RestOK, RunnerAssumption
  <2>2. run' = [c \in Connections |-> NewRun(IF c = 1 THEN "begin" ELSE "off")] /\ cache' = [c \in Connections |-> disk]
    BY <1>1 DEF Crash, Started
  <2>3. \A c \in Connections : run'[c] \in RunType /\ RunOK(run'[c], cache'[c], log', made', vault')
    <3> SUFFICES ASSUME NEW c \in Connections
                 PROVE  run'[c] \in RunType /\ RunOK(run'[c], cache'[c], log', made', vault')
      OBVIOUS
    <3>1. CASE c = 1
      <4>1. run'[c] = NewRun("begin")
        BY <2>2, <3>1
      <4> QED BY <4>1, NewRunIs
    <3>2. CASE c # 1
      <4>1. run'[c] = NewRun("off")
        BY <2>2, <3>2
      <4> QED BY <4>1, NewRunIs
    <3> QED BY <3>1, <3>2
  <2>4. TypeOK'
    BY <2>1, <2>2, <2>3 DEF IInv, TypeOK, RestOK
  <2> QED BY <2>1, <2>2, <2>3, <2>4 DEF IInv
<1>2. ASSUME NEW c \in Connections, Connect(c) PROVE IInv'
  <2>1. Grows /\ log' = log /\ made' = made /\ vault' = vault
    BY <1>2, LocalGrows DEF Connect
  <2>2. /\ disk' = disk /\ run' = [run EXCEPT ![c] = NewRun("begin")] /\ cache' = [cache EXCEPT ![c] = disk]
    BY <1>2 DEF Connect, Step
  <2>3. NewRun("begin") \in RunType /\ RunOK(NewRun("begin"), disk, log, made, vault)
    BY NewRunIs
  <2>4. /\ run' \in [Connections -> RunType] /\ cache' \in [Connections -> StateType]
        /\ \A d \in Connections : run'[d] = (IF d = c THEN NewRun("begin") ELSE run[d])
                                  /\ cache'[d] = (IF d = c THEN disk ELSE cache[d])
    BY <2>2, <2>3 DEF IInv, TypeOK
  <2>5. TypeOK'
    BY <2>1, <2>2, <2>4 DEF IInv, TypeOK, Grows, RestOK
  <2> QED BY <2>1, <2>2, <2>3, <2>4, <2>5 DEF IInv
<1> QED BY <1>1, <1>2

\* The same cycle against a state that lists what it listed, and more
LEMMA Restated ==
  ASSUME NEW r \in RunType, NEW s, NEW t, NEW events, NEW own, NEW applied,
         RunOK(r, s, events, own, applied), t.cursor = s.cursor, s.parked \subseteq t.parked \cup applied
  PROVE  RunOK(r, t, events, own, applied)
<1> HIDE DEF RunType
<1>1. PushOK(r, events, own) /\ PullOK(r, s, events, own, applied)
  BY DEF RunOK
<1>2. PullOK(r, t, events, own, applied)
  BY <1>1 DEF PullOK
<1> QED BY <1>1, <1>2 DEF RunOK

LEMMA AloneIs ==
  ASSUME IInv, NEW c \in Connections, UNCHANGED run
  PROVE  run' = [run EXCEPT ![c] = run[c]]
BY DEF IInv, TypeOK

LEMMA CommitKeeps ==
  ASSUME IInv, NEW c \in Connections, NEW e \in Edits, Commit(c, e)
  PROVE  IInv'
<1>1. /\ run[c] \in RunType /\ cache[c] \in StateType
      /\ log \in Seq(Revisions) /\ made \subseteq Edits /\ vault \subseteq Revisions /\ RestOK
  BY HereOK
<1>2. Grows
  <2>1. log = log \o <<>> /\ <<>> \in Seq(Revisions)
    BY <1>1
  <2> QED BY <1>1, <2>1 DEF Commit, budgets, Grows, RestOK
<1>3. StateOK(cache[c], log', made', vault') /\ RunOK(run[c], cache[c], log', made', vault')
  BY <1>2, Others
<1> DEFINE t == Triggered(run[c])
           r == [t EXCEPT !.status = "syncing"]
           outbox == Append(cache[c].outbox, e)
           s == [cache[c] EXCEPT !.outbox = outbox]
<1>4. Save(c, s) /\ run' = [run EXCEPT ![c] = r] /\ made' = made \cup {e}
  BY DEF Commit, Step
<1>5. /\ t \in RunType /\ (t.pc \in Calm \/ t.pc = run[c].pc)
      /\ t.pending = run[c].pending /\ t.results = run[c].results /\ t.page = run[c].page
      /\ t.retried = run[c].retried /\ t.queue = run[c].queue /\ t.cursor = run[c].cursor
  BY <1>1, TriggeredIs
<1> HIDE DEF t
<1>6. r \in RunType
  BY <1>5 DEF RunType, Status
<1>7. /\ r.pc = t.pc /\ r.pending = t.pending /\ r.results = t.results /\ r.page = t.page
      /\ r.retried = t.retried /\ r.queue = t.queue /\ r.cursor = t.cursor
  BY <1>5 DEF RunType
<1> HIDE DEF r
<1>8. outbox \in Seq(Edits) /\ ToSet(outbox) = ToSet(cache[c].outbox) \cup {e}
  <2>1. cache[c].outbox \in Seq(Edits)
    BY <1>1 DEF StateType
  <2> QED BY <2>1, ToSetOf
<1> HIDE DEF outbox
<1>9. s \in StateType
  BY <1>1, <1>8 DEF StateType
<1>10. /\ s.outbox = outbox /\ s.cursor = cache[c].cursor /\ s.parked = cache[c].parked
       /\ s.authored = cache[c].authored /\ s.quarantine = cache[c].quarantine
  BY <1>1 DEF StateType
<1> HIDE DEF s
<1>11. StateOK(s, log', made', vault')
  BY <1>3, <1>4, <1>8, <1>10 DEF StateOK
<1>12. RunOK(r, s, log', made', vault')
  <2>1. RunOK(r, cache[c], log', made', vault')
    BY <1>1, <1>3, <1>5, <1>6, <1>7, Follows
  <2> QED BY <1>6, <1>10, <2>1, Restated
<1> QED BY <1>2, <1>4, <1>6, <1>9, <1>11, <1>12, Saved

\* A change to the lists of a state that keeps to what was committed
LEMMA RelistKeeps ==
  ASSUME IInv, Grows, NEW c \in Connections, NEW s \in StateType, UNCHANGED run, Save(c, s),
         s.cursor = cache[c].cursor, s.parked = cache[c].parked,
         ToSet(s.outbox) \cup ToSet(s.authored) \cup s.quarantine \subseteq made'
  PROVE  IInv'
<1>1. /\ StateOK(cache[c], log', made', vault') /\ RunOK(run[c], cache[c], log', made', vault')
      /\ run[c] \in RunType /\ run' = [run EXCEPT ![c] = run[c]]
  BY Others, HereOK, AloneIs
<1>2. StateOK(s, log', made', vault')
  BY <1>1 DEF StateOK
<1>3. RunOK(run[c], s, log', made', vault')
  BY <1>1, Restated
<1> QED BY <1>1, <1>2, <1>3, Saved

LEMMA UserKeeps ==
  ASSUME IInv, RunnerAssumption, NEW c \in Connections, NEW e \in Edits, Requeue(c, e) \/ Discard(c, e)
  PROVE  IInv'
<1>1. /\ run[c] \in RunType /\ cache[c] \in StateType /\ StateOK(cache[c], log, made, vault)
      /\ log \in Seq(Revisions) /\ made \subseteq Edits /\ vault \subseteq Revisions /\ RestOK
  BY HereOK
<1>2. Grows /\ made' = made
  <2>1. log = log \o <<>> /\ <<>> \in Seq(Revisions)
    BY <1>1
  <2>2. /\ log' = log /\ made' = made /\ vault' = vault /\ session' = session /\ unsaved' = unsaved
        /\ faults' = faults /\ crashes' = crashes /\ gone' \subseteq Edits /\ requeues' \in 0..MaxRequeues
    BY <1>1, SMTT(60) DEF Requeue, Discard, RestOK, RunnerAssumption
  <2> QED BY <1>1, <2>1, <2>2 DEF Grows, RestOK
<1>3. /\ cache[c].outbox \in Seq(Edits) /\ cache[c].quarantine \subseteq Edits
      /\ ToSet(cache[c].outbox) \cup ToSet(cache[c].authored) \cup cache[c].quarantine \subseteq made
  BY <1>1 DEF StateOK, StateType
<1>4. CASE Requeue(c, e)
  <2> DEFINE rest == Without(cache[c].outbox, {e})
             outbox == Append(rest, e)
             held == cache[c].quarantine \ {e}
             s == [cache[c] EXCEPT !.outbox = outbox, !.quarantine = held]
  <2>1. Save(c, s) /\ UNCHANGED run /\ e \in cache[c].quarantine
    BY <1>4 DEF Requeue
  <2>2. rest \in Seq(Edits) /\ ToSet(rest) = ToSet(cache[c].outbox) \ {e}
    BY <1>3, WithoutIs
  <2> HIDE DEF rest
  <2>3. outbox \in Seq(Edits) /\ ToSet(outbox) = ToSet(rest) \cup {e} /\ held \subseteq Edits
    BY <1>3, <2>2, ToSetOf
  <2>4. held \subseteq cache[c].quarantine
    OBVIOUS
  <2> HIDE DEF outbox, held
  <2>5. s \in StateType
    BY <1>1, <2>3 DEF StateType
  <2>6. /\ s.outbox = outbox /\ s.cursor = cache[c].cursor /\ s.parked = cache[c].parked
        /\ s.authored = cache[c].authored /\ s.quarantine = held
    BY <1>1 DEF StateType
  <2> HIDE DEF s
  <2>7. ToSet(s.outbox) \cup ToSet(s.authored) \cup s.quarantine \subseteq made'
    BY <1>2, <1>3, <2>1, <2>2, <2>3, <2>4, <2>6
  <2> QED BY <1>2, <2>1, <2>5, <2>6, <2>7, RelistKeeps
<1>5. CASE Discard(c, e)
  <2> DEFINE held == cache[c].quarantine \ {e}
             s == [cache[c] EXCEPT !.quarantine = held]
  <2>1. Save(c, s) /\ UNCHANGED run
    BY <1>5 DEF Discard
  <2>2. held \subseteq Edits /\ held \subseteq cache[c].quarantine
    BY <1>3
  <2> HIDE DEF held
  <2>3. s \in StateType
    BY <1>1, <2>2 DEF StateType
  <2>4. /\ s.outbox = cache[c].outbox /\ s.cursor = cache[c].cursor /\ s.parked = cache[c].parked
        /\ s.authored = cache[c].authored /\ s.quarantine = held
    BY <1>1 DEF StateType
  <2> HIDE DEF s
  <2>5. ToSet(s.outbox) \cup ToSet(s.authored) \cup s.quarantine \subseteq made'
    BY <1>2, <1>3, <2>2, <2>4
  <2> QED BY <1>2, <2>1, <2>3, <2>4, <2>5, RelistKeeps
<1> QED BY <1>4, <1>5

LEMMA ParkedKeep ==
  ASSUME IInv, NEW c \in Connections, NEW p \in Revisions, RetryParked(c, p) \/ Unpark(c, p)
  PROVE  IInv'
<1>1. /\ run[c] \in RunType /\ cache[c] \in StateType /\ RunOK(run[c], cache[c], log, made, vault)
      /\ log \in Seq(Revisions) /\ made \subseteq Edits /\ vault \subseteq Revisions /\ RestOK
  BY HereOK
<1>2. Grows /\ made' = made
  <2>1. log = log \o <<>> /\ <<>> \in Seq(Revisions)
    BY <1>1
  <2> QED BY <1>1, <2>1 DEF RetryParked, Unpark, Local, budgets, Grows, RestOK
<1>3. StateOK(cache[c], log', made', vault') /\ RunOK(run[c], cache[c], log', made', vault')
  BY <1>2, Others
<1>4. CASE RetryParked(c, p)
  <2> DEFINE retried == run[c].retried \cup {p}
             r == [run[c] EXCEPT !.retried = retried]
  <2>1. run' = [run EXCEPT ![c] = r] /\ UNCHANGED <<disk, cache>> /\ vault' = vault \cup {p}
    BY <1>4 DEF RetryParked, Step
  <2>2. retried \subseteq Revisions /\ retried \subseteq vault'
    BY <1>1, <2>1 DEF RunType, RunOK, PullOK
  <2> HIDE DEF retried
  <2>3. r \in RunType
    BY <1>1, <2>2 DEF RunType
  <2>4. /\ r.pc = run[c].pc /\ r.pending = run[c].pending /\ r.results = run[c].results
        /\ r.page = run[c].page /\ r.retried = retried /\ r.queue = run[c].queue
        /\ r.cursor = run[c].cursor
    BY <1>1 DEF RunType
  <2> HIDE DEF r
  <2>5. RunOK(r, cache[c], log', made', vault')
    <3>1. PushOK(run[c], log', made') /\ PullOK(run[c], cache[c], log', made', vault')
      BY <1>3 DEF RunOK
    <3>2. PushOK(r, log', made')
      BY <2>4, <3>1, Zenon DEF PushOK
    <3>3. PullOK(r, cache[c], log', made', vault')
      BY <2>2, <2>4, <3>1 DEF PullOK
    <3> QED BY <3>2, <3>3 DEF RunOK
  <2> QED BY <1>2, <2>1, <2>3, <2>5, Kept
<1>5. CASE Unpark(c, p)
  <2> DEFINE retried == run[c].retried \ {p}
             r == [run[c] EXCEPT !.retried = retried]
             left == cache[c].parked \ {p}
             s == [cache[c] EXCEPT !.parked = left]
  <2>1. run' = [run EXCEPT ![c] = r] /\ Save(c, s) /\ p \in vault'
    BY <1>1, <1>5 DEF Unpark, Unparked, Local, Step, RunOK, PullOK
  <2>2. /\ retried \subseteq Revisions /\ retried \subseteq vault' /\ left \subseteq Revisions
        /\ left \subseteq cache[c].parked /\ cache[c].parked \subseteq left \cup vault'
    BY <1>1, <1>3, <2>1 DEF RunType, StateType, RunOK, PullOK
  <2> HIDE DEF retried, left
  <2>3. r \in RunType
    BY <1>1, <2>2 DEF RunType
  <2>4. /\ r.pc = run[c].pc /\ r.pending = run[c].pending /\ r.results = run[c].results
        /\ r.page = run[c].page /\ r.retried = retried /\ r.queue = run[c].queue
        /\ r.cursor = run[c].cursor
    BY <1>1 DEF RunType
  <2>5. s \in StateType
    BY <1>1, <2>2 DEF StateType
  <2>6. /\ s.outbox = cache[c].outbox /\ s.cursor = cache[c].cursor /\ s.parked = left
        /\ s.authored = cache[c].authored /\ s.quarantine = cache[c].quarantine
    BY <1>1 DEF StateType
  <2> HIDE DEF r, s
  <2>7. StateOK(s, log', made', vault')
    BY <1>3, <2>2, <2>6 DEF StateOK
  <2>8. RunOK(r, s, log', made', vault')
    <3>1. RunOK(r, cache[c], log', made', vault')
      <4>1. PushOK(run[c], log', made') /\ PullOK(run[c], cache[c], log', made', vault')
        BY <1>3 DEF RunOK
      <4>2. PushOK(r, log', made')
        BY <2>4, <4>1, Zenon DEF PushOK
      <4>3. PullOK(r, cache[c], log', made', vault')
        BY <2>2, <2>4, <4>1 DEF PullOK
      <4> QED BY <4>2, <4>3 DEF RunOK
    <3> QED BY <2>2, <2>3, <2>6, <3>1, Restated
  <2> QED BY <1>2, <2>1, <2>3, <2>5, <2>7, <2>8, Saved
<1> QED BY <1>4, <1>5

LEMMA WorldKeeps ==
  ASSUME IInv, RunnerAssumption, SessionRefused \/ Typing \/ EditorSaves \/ \E p \in Peers : PeerCommits(p)
  PROVE  IInv'
<1>1. UNCHANGED <<disk, cache, run>>
  BY DEF SessionRefused, Typing, EditorSaves, PeerCommits
<1>2. Grows
  <2>1. log \in Seq(Revisions) /\ made \subseteq Edits /\ vault \subseteq Revisions /\ RestOK
    BY DEF IInv, TypeOK, RestOK
  <2>2. UNCHANGED <<made, vault>> /\ RestOK'
    <3>1. ASSUME Fault PROVE faults' \in 0..MaxFaults /\ UNCHANGED <<crashes, requeues>>
      BY <2>1, <3>1 DEF Fault, RestOK, RunnerAssumption
    <3>2. CASE SessionRefused
      BY <2>1, <3>1, <3>2 DEF SessionRefused, RestOK
    <3>3. CASE Typing
      BY <2>1, <3>1, <3>3 DEF Typing, RestOK
    <3>4. CASE EditorSaves \/ \E p \in Peers : PeerCommits(p)
      BY <2>1, <3>4 DEF EditorSaves, PeerCommits, budgets, RestOK
    <3> QED BY <3>2, <3>3, <3>4
  <2>3. \E more \in Seq(Revisions) : log' = log \o more
    <3>1. CASE UNCHANGED log
      <4>1. log = log \o <<>> /\ <<>> \in Seq(Revisions)
        BY <2>1
      <4> QED BY <3>1, <4>1
    <3>2. ASSUME NEW p \in Peers, PeerCommits(p) PROVE \E more \in Seq(Revisions) : log' = log \o more
      <4>1. <<p>> \in Seq(Revisions) /\ Append(log, p) = log \o <<p>>
        BY <2>1 DEF Revisions
      <4> QED BY <3>2, <4>1 DEF PeerCommits
    <3> QED BY <3>1, <3>2 DEF SessionRefused, Typing, EditorSaves
  <2> QED BY <2>1, <2>2, <2>3 DEF Grows
<1>3. /\ log' \in Seq(Revisions)
      /\ StateOK(disk, log', made', vault')
      /\ \A c \in Connections : StateOK(cache[c], log', made', vault')
      /\ \A c \in Connections : RunOK(run[c], cache[c], log', made', vault')
  BY <1>2, Others
<1>4. TypeOK'
  BY <1>1, <1>2, <1>3 DEF IInv, TypeOK, Grows, RestOK
<1> QED BY <1>1, <1>3, <1>4 DEF IInv

-----------------------------------------------------------------------------
(* runPush.                                                                *)

\* What a step of a cycle that stays within the device starts from
LEMMA QuietHere ==
  ASSUME IInv, NEW c \in Connections, Local
  PROVE  /\ Grows /\ log' = log /\ made' = made /\ vault' = vault
         /\ run[c] \in RunType /\ cache[c] \in StateType /\ log \in Seq(Revisions)
         /\ StateOK(cache[c], log', made', vault') /\ RunOK(run[c], cache[c], log', made', vault')
         /\ PushOK(run[c], log, made) /\ PullOK(run[c], cache[c], log, made, vault)
BY LocalGrows, Others, HereOK DEF RunOK

LEMMA BeginKeeps ==
  ASSUME IInv, RunnerAssumption, NEW c \in Connections, Begin(c)
  PROVE  IInv'
<1>1. Local /\ UNCHANGED <<disk, cache>>
  BY DEF Begin
<1>2. /\ Grows /\ run[c] \in RunType /\ cache[c] \in StateType /\ made' = made
      /\ StateOK(cache[c], log', made', vault') /\ RunOK(run[c], cache[c], log', made', vault')
  BY <1>1, QuietHere
<1>3. cache[c].outbox \in Seq(Edits)
  BY <1>2 DEF StateType
<1> DEFINE queue == PlanPushBatches(cache[c].outbox)
           pending == ToSet(cache[c].outbox)
           r == [run[c] EXCEPT !.pc = "push", !.rerun = FALSE, !.queue = queue,
                               !.batch = cache[c].outbox, !.pending = pending]
<1>4. run' = [run EXCEPT ![c] = r]
  BY DEF Begin, Step
<1>5. queue \in Seq(Seq(Edits)) /\ pending \subseteq Edits /\ pending \subseteq made'
  BY <1>2, <1>3, PlanTyped, ToSetOf DEF StateOK
<1> HIDE DEF queue, pending
<1>6. r \in RunType
  BY <1>2, <1>3, <1>5 DEF RunType, PC
<1>7. /\ r.pc = "push" /\ r.pending = pending /\ r.results = run[c].results
      /\ r.page = run[c].page /\ r.retried = run[c].retried
  BY <1>2 DEF RunType
<1> HIDE DEF r
<1>8. RunOK(r, cache[c], log', made', vault')
  <2>1. PushOK(run[c], log', made') /\ PullOK(run[c], cache[c], log', made', vault')
    BY <1>2 DEF RunOK
  <2>2. PushOK(r, log', made')
    BY <1>5, <1>7, <2>1 DEF PushOK
  <2>3. PullOK(r, cache[c], log', made', vault')
    BY <1>7, <2>1 DEF PullOK
  <2> QED BY <2>2, <2>3 DEF RunOK
<1> QED BY <1>1, <1>2, <1>4, <1>6, <1>8, Kept

\* A step that leads a cycle on to a calm place
LEMMA CalmKeeps ==
  ASSUME IInv, NEW c \in Connections, NEW r \in RunType, Step(c, r), Local, UNCHANGED <<disk, cache>>,
         r.pc \in Calm, r.pending \subseteq run[c].pending,
         r.results \in {run[c].results, <<>>}, r.page \subseteq run[c].page, r.retried = run[c].retried
  PROVE  IInv'
<1>1. Grows /\ RunOK(run[c], cache[c], log', made', vault') /\ run[c] \in RunType
  BY QuietHere
<1>2. RunOK(r, cache[c], log', made', vault')
  BY <1>1, Follows
<1> QED BY <1>1, <1>2, Kept DEF Step

LEMMA SendKeeps ==
  ASSUME IInv, NEW c \in Connections, Send(c)
  PROVE  IInv'
<1>1. Local /\ UNCHANGED <<disk, cache>> /\ run[c].queue # <<>> /\ run[c].pc = "push"
  BY DEF Send
<1>2. /\ Grows /\ run[c] \in RunType /\ made' = made /\ log' = log
      /\ PushOK(run[c], log, made) /\ RunOK(run[c], cache[c], log', made', vault')
  BY <1>1, QuietHere
<1>3. run[c].queue \in Seq(Seq(Edits)) /\ run[c].pending \subseteq Edits /\ run[c].pending \subseteq made
  BY <1>2 DEF RunType, PushOK
<1>4. Head(run[c].queue) \in Seq(Edits) /\ Tail(run[c].queue) \in Seq(Seq(Edits))
  BY <1>1, <1>3
<1> DEFINE live == Live(run[c])
           tail == Tail(run[c].queue)
<1>5. live \in Seq(Edits) /\ ToSet(live) \subseteq run[c].pending
  BY <1>4, AmongIs DEF Live
<1>6. CASE live = <<>>
  <2> DEFINE r == [run[c] EXCEPT !.queue = tail]
  <2>1. Step(c, r)
    BY <1>6 DEF Send
  <2> HIDE DEF tail
  <2>2. r \in RunType
    BY <1>2, <1>4 DEF RunType, tail
  <2>3. /\ r.pc = run[c].pc /\ r.pending = run[c].pending /\ r.results = run[c].results
        /\ r.page = run[c].page /\ r.retried = run[c].retried
    BY <1>2 DEF RunType
  <2> HIDE DEF r
  <2> QED BY <1>1, <2>1, <2>2, <2>3, CalmKeeps DEF Calm
<1>7. CASE live # <<>> /\ ~(ToSet(live) \subseteq ToSet(cache[c].outbox))
  <2> DEFINE r == [run[c] EXCEPT !.pc = "pull", !.pushFailed = TRUE]
  <2>1. Step(c, r)
    BY <1>7 DEF Send
  <2>2. r \in RunType
    BY <1>2 DEF RunType, PC
  <2>3. /\ r.pc = "pull" /\ r.pending = run[c].pending /\ r.results = run[c].results
        /\ r.page = run[c].page /\ r.retried = run[c].retried
    BY <1>2 DEF RunType
  <2> HIDE DEF r
  <2> QED BY <1>1, <2>1, <2>2, <2>3, CalmKeeps DEF Calm
<1>8. CASE live # <<>> /\ ToSet(live) \subseteq ToSet(cache[c].outbox)
  <2> DEFINE queue == <<live>> \o tail
             r == [run[c] EXCEPT !.pc = "sent", !.queue = queue]
  <2>1. Step(c, r)
    BY <1>8 DEF Send
  <2>2. queue \in Seq(Seq(Edits)) /\ queue # <<>> /\ Head(queue) = live
    BY <1>4, <1>5
  <2> HIDE DEF queue, live
  <2>3. r \in RunType
    BY <1>2, <2>2 DEF RunType, PC
  <2>4. /\ r.pc = "sent" /\ r.queue = queue /\ r.pending = run[c].pending /\ r.results = run[c].results
        /\ r.page = run[c].page /\ r.retried = run[c].retried
    BY <1>2 DEF RunType
  <2> HIDE DEF r
  <2>5. RunOK(r, cache[c], log', made', vault')
    <3>1. PushOK(run[c], log', made') /\ PullOK(run[c], cache[c], log', made', vault')
      BY <1>2 DEF RunOK
    <3>2. PushOK(r, log', made')
      BY <1>2, <1>3, <1>5, <2>2, <2>4, <3>1 DEF PushOK
    <3>3. PullOK(r, cache[c], log', made', vault')
      BY <2>4, <3>1 DEF PullOK
    <3> QED BY <3>2, <3>3 DEF RunOK
  <2> QED BY <1>1, <1>2, <2>1, <2>3, <2>5, Kept DEF Step
<1> QED BY <1>6, <1>7, <1>8

LEMMA MovesOnKeep ==
  ASSUME IInv, NEW c \in Connections, Pushed(c) \/ ResultsDone(c) \/ CascadeDone(c)
  PROVE  IInv'
<1>1. PICK pc \in {"pull", "push", "results"} : Step(c, [run[c] EXCEPT !.pc = pc])
  BY DEF Pushed, ResultsDone, CascadeDone
<1>2. Local /\ UNCHANGED <<disk, cache>> /\ run[c] \in RunType
  BY HereOK DEF Pushed, ResultsDone, CascadeDone
<1> DEFINE r == [run[c] EXCEPT !.pc = pc]
<1>3. r \in RunType
  BY <1>2 DEF RunType, PC
<1>4. /\ r.pc = pc /\ r.pending = run[c].pending /\ r.results = run[c].results
      /\ r.page = run[c].page /\ r.retried = run[c].retried
  BY <1>2 DEF RunType
<1> HIDE DEF r
<1>5. r.pc \in Calm
  BY <1>4 DEF Calm
<1> QED BY <1>1, <1>2, <1>3, <1>4, <1>5, CalmKeeps DEF r

\* What is on the wire, and what the server answers to it
LEMMA WireIs ==
  ASSUME IInv, NEW c \in Connections, run[c].pc = "sent"
  PROVE  /\ OnTheWire(c) \in Seq(Edits) /\ ToSet(OnTheWire(c)) \subseteq made
         /\ run[c].queue \in Seq(Seq(Edits)) /\ Tail(run[c].queue) \in Seq(Seq(Edits))
         /\ Judge(OnTheWire(c)).new \in Seq(Edits) /\ Judge(OnTheWire(c)).new \in Seq(Revisions)
         /\ Judge(OnTheWire(c)).results \in Results
         /\ \A i \in 1..Len(Judge(OnTheWire(c)).results) :
              LET result == Judge(OnTheWire(c)).results[i] IN
              result.id \in made
              /\ (Accepted(result) => result.id \in ToSet(log \o Judge(OnTheWire(c)).new))
<1>1. run[c] \in RunType /\ PushOK(run[c], log, made) /\ TypeOK /\ log \in Seq(Revisions)
  BY HereOK DEF IInv, RunOK
<1>2. run[c].queue \in Seq(Seq(Edits)) /\ run[c].queue # <<>> /\ ToSet(OnTheWire(c)) \subseteq made
  BY <1>1 DEF RunType, PushOK, OnTheWire
<1>3. OnTheWire(c) \in Seq(Edits) /\ Tail(run[c].queue) \in Seq(Seq(Edits))
  BY <1>2 DEF OnTheWire
<1> DEFINE answer == Judge(OnTheWire(c))
<1>4. AnswerOK(answer, OnTheWire(c))
  BY <1>1, <1>3, JudgeIs
<1> HIDE DEF answer
<1>5. answer.new \in Seq(Edits) /\ answer.results \in Results
  BY <1>4 DEF AnswerOK
<1>6. answer.new \in Seq(Revisions)
  BY <1>5 DEF Revisions
<1>7. ToSet(log \o answer.new) = ToSet(log) \cup ToSet(answer.new)
  BY <1>1, <1>6, ToSetOf
<1>8. \A i \in 1..Len(answer.results) :
        /\ answer.results[i].id \in made
        /\ Accepted(answer.results[i]) => answer.results[i].id \in ToSet(log \o answer.new)
  BY <1>2, <1>4, <1>7 DEF AnswerOK
<1> QED BY <1>2, <1>3, <1>5, <1>6, <1>8 DEF answer

LEMMA AnswerKeeps ==
  ASSUME IInv, NEW c \in Connections, Answer(c)
  PROVE  IInv'
<1>1. /\ run[c] \in RunType /\ cache[c] \in StateType /\ RunOK(run[c], cache[c], log, made, vault)
      /\ log \in Seq(Revisions) /\ made \subseteq Edits /\ vault \subseteq Revisions /\ RestOK
  BY HereOK
<1> DEFINE new == Judge(OnTheWire(c)).new
           results == Judge(OnTheWire(c)).results
           tail == Tail(run[c].queue)
           r == [run[c] EXCEPT !.pc = "results", !.queue = tail, !.results = results]
<1>2. /\ Step(c, r) /\ log' = log \o new /\ UNCHANGED <<disk, cache, made, vault>> /\ run[c].pc = "sent"
      /\ UNCHANGED <<session, gone, unsaved, faults, crashes, requeues>>
  BY DEF Answer, budgets
<1>3. /\ new \in Seq(Revisions) /\ tail \in Seq(Seq(Edits)) /\ results \in Results
      /\ \A i \in 1..Len(results) :
           results[i].id \in made /\ (Accepted(results[i]) => results[i].id \in ToSet(log'))
  BY <1>2, WireIs
<1> HIDE DEF new, results, tail
<1>4. Grows
  BY <1>1, <1>2, <1>3 DEF Grows, RestOK
<1>5. RunOK(run[c], cache[c], log', made', vault')
  BY <1>4, Others
<1>6. r \in RunType
  BY <1>1, <1>3 DEF RunType, PC, Results
<1>7. /\ r.pc = "results" /\ r.pending = run[c].pending /\ r.results = results
      /\ r.page = run[c].page /\ r.retried = run[c].retried
  BY <1>1 DEF RunType
<1> HIDE DEF r
<1>8. RunOK(r, cache[c], log', made', vault')
  <2>1. PushOK(run[c], log', made') /\ PullOK(run[c], cache[c], log', made', vault')
    BY <1>5 DEF RunOK
  <2>2. PushOK(r, log', made')
    BY <1>2, <1>3, <1>7, <2>1 DEF PushOK
  <2>3. PullOK(r, cache[c], log', made', vault')
    BY <1>7, <2>1 DEF PullOK
  <2> QED BY <2>2, <2>3 DEF RunOK
<1> QED BY <1>2, <1>4, <1>6, <1>8, Kept DEF Step

LEMMA RefuseKeeps ==
  ASSUME IInv, NEW c \in Connections, Refuse(c)
  PROVE  IInv'
<1>1. Local /\ UNCHANGED <<disk, cache>> /\ run[c].pc = "sent" /\ run[c] \in RunType
  BY HereOK DEF Refuse
<1> DEFINE batch == OnTheWire(c)
           tail == Tail(run[c].queue)
<1>2. batch \in Seq(Edits) /\ tail \in Seq(Seq(Edits))
  BY <1>1, WireIs
<1>3. CASE Len(batch) = 1
  <2> DEFINE r == [run[c] EXCEPT !.pc = "cascade", !.queue = tail, !.work = batch]
  <2>1. Step(c, r)
    BY <1>3 DEF Refuse
  <2> HIDE DEF batch, tail
  <2>2. r \in RunType
    BY <1>1, <1>2 DEF RunType, PC
  <2>3. /\ r.pc = "cascade" /\ r.pending = run[c].pending /\ r.results = run[c].results
        /\ r.page = run[c].page /\ r.retried = run[c].retried
    BY <1>1 DEF RunType
  <2> HIDE DEF r
  <2> QED BY <1>1, <2>1, <2>2, <2>3, CalmKeeps DEF Calm
<1>4. CASE Len(batch) # 1
  <2> DEFINE split == [i \in 1..Len(batch) |-> <<batch[i]>>]
             queue == tail \o split
             r == [run[c] EXCEPT !.pc = "push", !.queue = queue]
  <2>1. Step(c, r)
    BY <1>4 DEF Refuse
  <2> HIDE DEF batch, tail
  <2>2. queue \in Seq(Seq(Edits))
    <3>1. Len(batch) \in Nat /\ \A i \in 1..Len(batch) : <<batch[i]>> \in Seq(Edits)
      BY <1>2
    <3>2. split \in Seq(Seq(Edits))
      BY <3>1
    <3> HIDE DEF split
    <3> QED BY <1>2, <3>2
  <2> HIDE DEF queue
  <2>3. r \in RunType
    BY <1>1, <2>2 DEF RunType, PC
  <2>4. /\ r.pc = "push" /\ r.pending = run[c].pending /\ r.results = run[c].results
        /\ r.page = run[c].page /\ r.retried = run[c].retried
    BY <1>1 DEF RunType
  <2> HIDE DEF r
  <2> QED BY <1>1, <2>1, <2>3, <2>4, CalmKeeps DEF Calm
<1> QED BY <1>3, <1>4

LEMMA PushFailsKeeps ==
  ASSUME IInv, RunnerAssumption, NEW c \in Connections, PushFails(c)
  PROVE  IInv'
<1>1. /\ run[c] \in RunType /\ cache[c] \in StateType
      /\ log \in Seq(Revisions) /\ made \subseteq Edits /\ vault \subseteq Revisions /\ RestOK
  BY HereOK
<1> DEFINE r == [run[c] EXCEPT !.pc = "pull", !.pushFailed = TRUE]
<1>2. /\ Step(c, r) /\ UNCHANGED <<disk, cache, made, vault>>
      /\ UNCHANGED <<session, gone, unsaved, crashes, requeues>> /\ faults < MaxFaults /\ faults' = faults + 1
  BY DEF PushFails, Fault
<1>3. Grows
  <2>1. \E more \in Seq(Revisions) : log' = log \o more
    <3>1. CASE UNCHANGED log
      <4>1. log = log \o <<>> /\ <<>> \in Seq(Revisions)
        BY <1>1
      <4> QED BY <3>1, <4>1
    <3>2. CASE run[c].pc = "sent" /\ log' = log \o Judge(OnTheWire(c)).new
      BY <3>2, WireIs
    <3> QED BY <3>1, <3>2 DEF PushFails
  <2>2. faults' \in 0..MaxFaults
    BY <1>1, <1>2 DEF RestOK, RunnerAssumption
  <2> QED BY <1>1, <1>2, <2>1, <2>2 DEF Grows, RestOK
<1>4. RunOK(run[c], cache[c], log', made', vault')
  BY <1>3, Others
<1>5. r \in RunType
  BY <1>1 DEF RunType, PC
<1>6. /\ r.pc = "pull" /\ r.pending = run[c].pending /\ r.results = run[c].results
      /\ r.page = run[c].page /\ r.retried = run[c].retried
  BY <1>1 DEF RunType
<1> HIDE DEF r
<1>7. RunOK(r, cache[c], log', made', vault')
  BY <1>1, <1>4, <1>5, <1>6, Follows DEF Calm
<1> QED BY <1>2, <1>3, <1>5, <1>7, Kept DEF Step

LEMMA RememberIs ==
  ASSUME RunnerAssumption, NEW authored \in Seq(Edits), NEW e \in Edits
  PROVE  /\ RememberAuthored(authored, e) \in Seq(Edits)
         /\ ToSet(RememberAuthored(authored, e)) \subseteq ToSet(authored) \cup {e}
<1>1. CASE e \in ToSet(authored)
  BY <1>1 DEF RememberAuthored
<1>2. CASE e \notin ToSet(authored) /\ Len(authored) >= MaxAuthored
  <2>1. authored # <<>> /\ Tail(authored) \in Seq(Edits)
    BY <1>2 DEF RunnerAssumption
  <2>2. Append(Tail(authored), e) \in Seq(Edits)
    BY <2>1
  <2>3. ToSet(Append(Tail(authored), e)) = ToSet(Tail(authored)) \cup {e}
    BY <2>1, ToSetOf
  <2>4. ToSet(Tail(authored)) \subseteq ToSet(authored)
    BY <2>1, ToSetOf
  <2>5. RememberAuthored(authored, e) = Append(Tail(authored), e)
    BY <1>2 DEF RememberAuthored
  <2> QED BY <2>2, <2>3, <2>4, <2>5
<1>3. CASE e \notin ToSet(authored) /\ ~(Len(authored) >= MaxAuthored)
  <2>1. RememberAuthored(authored, e) = Append(authored, e)
    BY <1>3 DEF RememberAuthored
  <2> QED BY <2>1, ToSetOf
<1> QED BY <1>1, <1>2, <1>3

\* A step of a push that writes the lists and goes on with the results
LEMMA ListedKeeps ==
  ASSUME IInv, NEW c \in Connections, NEW r \in RunType, NEW s \in StateType,
         Step(c, r), Save(c, s), Local,
         s.cursor = cache[c].cursor, s.parked = cache[c].parked,
         ToSet(s.outbox) \cup ToSet(s.authored) \cup s.quarantine \subseteq made,
         r.pc \in Calm, r.pending \subseteq run[c].pending, r.page = run[c].page, r.retried = run[c].retried,
         \A i \in 1..Len(r.results) :
           r.results[i].id \in made /\ (Accepted(r.results[i]) => r.results[i].id \in ToSet(log))
  PROVE  IInv'
<1>1. /\ Grows /\ log' = log /\ made' = made /\ vault' = vault /\ run[c] \in RunType
      /\ StateOK(cache[c], log, made, vault)
      /\ PushOK(run[c], log, made) /\ PullOK(run[c], cache[c], log, made, vault)
  BY QuietHere
<1>2. StateOK(s, log, made, vault)
  BY <1>1 DEF StateOK
<1>3. PushOK(r, log, made)
  BY <1>1 DEF PushOK, Calm
<1>4. PullOK(r, s, log, made, vault)
  BY <1>1 DEF PullOK, Calm
<1> QED BY <1>1, <1>2, <1>3, <1>4, Saved DEF Step, RunOK

LEMMA ResultKeeps ==
  ASSUME IInv, RunnerAssumption, NEW c \in Connections, Result(c)
  PROVE  IInv'
<1>1. Local /\ run[c].results # <<>> /\ run[c].pc = "results"
  BY DEF Result
<1>2. /\ Grows /\ log' = log /\ made' = made /\ vault' = vault
      /\ run[c] \in RunType /\ cache[c] \in StateType /\ log \in Seq(Revisions)
      /\ StateOK(cache[c], log', made', vault')
      /\ PushOK(run[c], log, made) /\ PullOK(run[c], cache[c], log, made, vault)
  BY <1>1, QuietHere
<1> DEFINE result == Head(run[c].results)
           tail == Tail(run[c].results)
           rest == [run[c] EXCEPT !.results = tail]
<1>3. run[c].results \in Results
  BY <1>2 DEF RunType, Results
<1>4. /\ tail \in Results /\ result.id \in Edits /\ result.id \in made
      /\ Accepted(result) => result.id \in ToSet(log)
      /\ \A i \in 1..Len(tail) : tail[i].id \in made /\ (Accepted(tail[i]) => tail[i].id \in ToSet(log))
  <2>1. /\ tail \in Results /\ result = run[c].results[1] /\ 1 \in 1..Len(run[c].results)
        /\ Len(tail) = Len(run[c].results) - 1
        /\ \A i \in 1..Len(tail) : tail[i] = run[c].results[i + 1]
    BY <1>1, <1>3, SMTT(60) DEF Results
  <2>2. result.id \in Edits
    <3> DEFINE R == [id : Edits, outcome : Outcome]
    <3>1. run[c].results \in Seq(R)
      BY <1>3 DEF Results
    <3> HIDE DEF R
    <3>2. result \in R
      BY <1>1, <3>1
    <3> QED BY <3>2 DEF R
  <2> HIDE DEF result, tail
  <2>3. \A i \in 1..Len(tail) : i + 1 \in 1..Len(run[c].results)
    BY <1>3, <2>1 DEF Results
  <2> QED BY <1>2, <2>1, <2>2, <2>3 DEF PushOK
<1> HIDE DEF result, tail
<1>5. rest \in RunType
  BY <1>2, <1>4 DEF RunType, Results
<1>6. /\ rest.pc = "results" /\ rest.pending = run[c].pending /\ rest.results = tail
      /\ rest.page = run[c].page /\ rest.retried = run[c].retried /\ rest.accepted = run[c].accepted
  BY <1>1, <1>2 DEF RunType
<1>7. CASE result.id \notin run[c].dead /\ Accepted(result) /\ Receipt(c, result.id)
           /\ Step(c, [rest EXCEPT !.pending = @ \ {result.id}, !.accepted = @ \cup {result.id}])
  <2> DEFINE pending == rest.pending \ {result.id}
             accepted == rest.accepted \cup {result.id}
             r == [rest EXCEPT !.pending = pending, !.accepted = accepted]
             outbox == Without(cache[c].outbox, {result.id})
             authored == RememberAuthored(cache[c].authored, result.id)
             s == [cache[c] EXCEPT !.outbox = outbox, !.authored = authored]
  <2>1. Step(c, r) /\ Save(c, s)
    BY <1>7 DEF Receipt
  <2>2. /\ cache[c].outbox \in Seq(Edits) /\ cache[c].authored \in Seq(Edits)
        /\ ToSet(cache[c].outbox) \cup ToSet(cache[c].authored) \cup cache[c].quarantine \subseteq made
    BY <1>2 DEF StateType, StateOK
  <2>3. /\ outbox \in Seq(Edits) /\ ToSet(outbox) \subseteq made
        /\ authored \in Seq(Edits) /\ ToSet(authored) \subseteq made
    <3>1. outbox \in Seq(Edits) /\ ToSet(outbox) = ToSet(cache[c].outbox) \ {result.id}
      BY <2>2, WithoutIs
    <3>2. authored \in Seq(Edits) /\ ToSet(authored) \subseteq ToSet(cache[c].authored) \cup {result.id}
      BY <1>4, <2>2, RememberIs
    <3> HIDE DEF outbox, authored
    <3> QED BY <1>4, <2>2, <3>1, <3>2
  <2>4. pending \subseteq Edits /\ accepted \subseteq Edits /\ pending \subseteq run[c].pending
    BY <1>4, <1>5, <1>6 DEF RunType
  <2> HIDE DEF rest, pending, accepted, outbox, authored
  <2>5. r \in RunType
    BY <1>5, <2>4 DEF RunType
  <2>6. /\ r.pc = rest.pc /\ r.pending = pending /\ r.results = rest.results
        /\ r.page = rest.page /\ r.retried = rest.retried
    BY <1>5 DEF RunType
  <2>7. s \in StateType
    BY <1>2, <2>3 DEF StateType
  <2>8. /\ s.outbox = outbox /\ s.authored = authored /\ s.cursor = cache[c].cursor
        /\ s.parked = cache[c].parked /\ s.quarantine = cache[c].quarantine
    BY <1>2 DEF StateType
  <2> HIDE DEF r, s
  <2>9. ToSet(s.outbox) \cup ToSet(s.authored) \cup s.quarantine \subseteq made
    BY <2>2, <2>3, <2>8
  <2>10. r.pc \in Calm /\ r.pending \subseteq run[c].pending /\ r.page = run[c].page /\ r.retried = run[c].retried
    BY <1>6, <2>4, <2>6 DEF Calm
  <2>11. \A i \in 1..Len(r.results) :
           r.results[i].id \in made /\ (Accepted(r.results[i]) => r.results[i].id \in ToSet(log))
    BY <1>4, <1>6, <2>6
  <2> QED BY <1>1, <2>1, <2>5, <2>7, <2>8, <2>9, <2>10, <2>11, ListedKeeps
<1>8. ASSUME NEW r \in RunType, Step(c, r), UNCHANGED <<disk, cache>>, r.pc \in Calm,
             r.pending = rest.pending, r.results = rest.results, r.page = rest.page, r.retried = rest.retried
      PROVE  IInv'
  <2>1. RunOK(r, cache[c], log', made', vault')
    <3>1. PushOK(r, log, made)
      BY <1>2, <1>4, <1>6, <1>8 DEF PushOK, Calm
    <3>2. PullOK(r, cache[c], log, made, vault)
      BY <1>2, <1>6, <1>8 DEF PullOK, Calm
    <3> QED BY <1>2, <3>1, <3>2 DEF RunOK
  <2> QED BY <1>2, <1>8, <2>1, Kept DEF Step
<1>9. CASE Step(c, [rest EXCEPT !.pc = "cascade", !.work = <<result.id>>]) /\ UNCHANGED <<disk, cache>>
  <2> DEFINE work == <<result.id>>
             r == [rest EXCEPT !.pc = "cascade", !.work = work]
  <2>1. work \in Seq(Edits)
    BY <1>4
  <2>2. Step(c, r)
    BY <1>9
  <2> HIDE DEF rest, work
  <2>3. r \in RunType
    BY <1>5, <2>1 DEF RunType, PC
  <2>4. /\ r.pc = "cascade" /\ r.pending = rest.pending /\ r.results = rest.results
        /\ r.page = rest.page /\ r.retried = rest.retried
    BY <1>5 DEF RunType
  <2> HIDE DEF r
  <2> QED BY <1>8, <1>9, <2>2, <2>3, <2>4 DEF Calm
<1>10. CASE Step(c, rest) /\ UNCHANGED <<disk, cache>>
  <2> HIDE DEF rest
  <2> QED BY <1>5, <1>6, <1>8, <1>10 DEF Calm
<1> QED BY <1>7, <1>9, <1>10 DEF Result, result, tail

LEMMA CascadeKeeps ==
  ASSUME IInv, NEW c \in Connections, Cascade(c)
  PROVE  IInv'
<1>1. Local /\ run[c].pc = "cascade" /\ run[c].work # <<>>
  BY DEF Cascade
<1>2. /\ made' = made /\ run[c] \in RunType /\ cache[c] \in StateType
      /\ StateOK(cache[c], log', made', vault') /\ PushOK(run[c], log, made)
  BY <1>1, QuietHere
<1> DEFINE e == Head(run[c].work)
           tail == Tail(run[c].work)
<1>3. e \in Edits /\ tail \in Seq(Edits)
  BY <1>1, <1>2 DEF RunType
<1>4. CASE e \in run[c].pending
  <2> DEFINE work == tail \o Followers(c, e)
             pending == run[c].pending \ {e}
             dead == run[c].dead \cup {e}
             r == [run[c] EXCEPT !.pending = pending, !.dead = dead, !.work = work]
             outbox == Without(cache[c].outbox, {e})
             held == cache[c].quarantine \cup {e}
             s == [cache[c] EXCEPT !.outbox = outbox, !.quarantine = held]
  <2>1. Step(c, r) /\ Save(c, s)
    BY <1>4 DEF Cascade, Quarantined
  <2>2. /\ cache[c].outbox \in Seq(Edits) /\ cache[c].authored \in Seq(Edits) /\ run[c].batch \in Seq(Edits)
        /\ cache[c].quarantine \subseteq Edits
        /\ ToSet(cache[c].outbox) \cup ToSet(cache[c].authored) \cup cache[c].quarantine \subseteq made
    BY <1>2 DEF StateType, StateOK, RunType
  <2>3. Followers(c, e) \in Seq(Edits)
    BY <2>2, AmongIs DEF Followers, ChildrenOf
  <2>4. /\ outbox \in Seq(Edits) /\ ToSet(outbox) \subseteq made /\ held \subseteq Edits /\ held \subseteq made
    BY <1>2, <1>3, <1>4, <2>2, WithoutIs DEF PushOK
  <2>5. pending \subseteq Edits /\ dead \subseteq Edits /\ pending \subseteq run[c].pending /\ work \in Seq(Edits)
    BY <1>2, <1>3, <2>3 DEF RunType
  <2> HIDE DEF e, tail, pending, dead, work, outbox, held
  <2>6. r \in RunType
    BY <1>2, <2>5 DEF RunType
  <2>7. /\ r.pc = run[c].pc /\ r.pending = pending /\ r.results = run[c].results
        /\ r.page = run[c].page /\ r.retried = run[c].retried
    BY <1>2 DEF RunType
  <2>8. s \in StateType
    BY <1>2, <2>4 DEF StateType
  <2>9. /\ s.outbox = outbox /\ s.authored = cache[c].authored /\ s.cursor = cache[c].cursor
        /\ s.parked = cache[c].parked /\ s.quarantine = held
    BY <1>2 DEF StateType
  <2> HIDE DEF r, s
  <2>10. ToSet(s.outbox) \cup ToSet(s.authored) \cup s.quarantine \subseteq made
    BY <2>2, <2>4, <2>9
  <2>11. r.pc \in Calm /\ r.pending \subseteq run[c].pending
    BY <1>1, <2>5, <2>7 DEF Calm
  <2>12. \A i \in 1..Len(r.results) :
           r.results[i].id \in made /\ (Accepted(r.results[i]) => r.results[i].id \in ToSet(log))
    BY <1>2, <2>7, Zenon DEF PushOK
  <2> QED BY <1>1, <2>1, <2>6, <2>7, <2>8, <2>9, <2>10, <2>11, <2>12, ListedKeeps
<1>5. CASE e \notin run[c].pending
  <2> DEFINE r == [run[c] EXCEPT !.work = tail]
  <2>1. Step(c, r) /\ UNCHANGED <<disk, cache>>
    BY <1>5 DEF Cascade
  <2> HIDE DEF tail
  <2>2. r \in RunType
    BY <1>2, <1>3 DEF RunType
  <2>3. /\ r.pc = run[c].pc /\ r.pending = run[c].pending /\ r.results = run[c].results
        /\ r.page = run[c].page /\ r.retried = run[c].retried
    BY <1>2 DEF RunType
  <2> HIDE DEF r
  <2> QED BY <1>1, <2>1, <2>2, <2>3, CalmKeeps DEF Calm
<1> QED BY <1>4, <1>5

-----------------------------------------------------------------------------
(* runPull.                                                                *)

LEMMA EndingsKeep ==
  ASSUME IInv, RunnerAssumption, NEW c \in Connections,
         HookFails(c) \/ Denied(c) \/ PullFails(c) \/ Finish(c)
  PROVE  IInv'
<1>1. run[c] \in RunType /\ log \in Seq(Revisions) /\ made \subseteq Edits /\ vault \subseteq Revisions /\ RestOK
  BY HereOK
<1>2. Grows
  <2>1. CASE Denied(c) \/ Finish(c)
    BY <2>1, LocalGrows DEF Denied, Finish
  <2>2. CASE HookFails(c) \/ PullFails(c)
    <3>1. log = log \o <<>> /\ <<>> \in Seq(Revisions)
      BY <1>1
    <3>2. UNCHANGED <<log, session, made, gone, vault, unsaved, crashes, requeues>> /\ faults < MaxFaults /\ faults' = faults + 1
      BY <2>2 DEF HookFails, PullFails, Fault
    <3>3. faults' \in 0..MaxFaults
      BY <1>1, <3>2 DEF RestOK, RunnerAssumption
    <3> QED BY <1>1, <3>1, <3>2, <3>3 DEF Grows, RestOK
  <2> QED BY <2>1, <2>2
<1>3. PICK result \in {"synced", "conflict", "deferred", "offline", "unauthenticated"} : EndCycle(c, result)
  <2>1. run[c].outcome \in {"synced", "conflict", "deferred"}
    BY <1>1 DEF RunType
  <2> QED BY <2>1 DEF HookFails, Denied, PullFails, Finish
<1> QED BY <1>1, <1>2, <1>3, EndCycleKeeps DEF EndCycle

\* A step of a pull that writes nothing and touches no file
LEMMA PullsKeep ==
  ASSUME IInv, NEW c \in Connections, NEW r \in RunType, Step(c, r), Grows, UNCHANGED <<disk, cache>>,
         r.pc # "sent", r.pending = run[c].pending, r.results = run[c].results,
         PullOK(r, cache[c], log', made', vault')
  PROVE  IInv'
<1>1. RunOK(run[c], cache[c], log', made', vault')
  BY Others
<1>2. PushOK(run[c], log', made')
  BY <1>1 DEF RunOK
<1>3. PushOK(r, log', made')
  BY <1>2 DEF PushOK
<1> QED BY <1>3, Kept DEF Step, RunOK

LEMMA PullKeeps ==
  ASSUME IInv, NEW c \in Connections, Pull(c)
  PROVE  IInv'
<1>1. Local /\ UNCHANGED <<disk, cache>> /\ Step(c, [run[c] EXCEPT !.pc = "pulling", !.cursor = cache[c].cursor])
  BY DEF Pull
<1>2. /\ Grows /\ log' = log /\ made' = made /\ vault' = vault
      /\ run[c] \in RunType /\ cache[c] \in StateType /\ PullOK(run[c], cache[c], log, made, vault)
  BY <1>1, QuietHere
<1> DEFINE r == [run[c] EXCEPT !.pc = "pulling", !.cursor = cache[c].cursor]
<1>3. cache[c].cursor \in Nat
  BY <1>2 DEF StateType
<1>4. r \in RunType
  BY <1>2, <1>3 DEF RunType, PC
<1>5. /\ r.pc = "pulling" /\ r.cursor = cache[c].cursor /\ r.pending = run[c].pending /\ r.results = run[c].results
      /\ r.page = run[c].page /\ r.retried = run[c].retried
  BY <1>2 DEF RunType
<1> HIDE DEF r
<1>6. PullOK(r, cache[c], log', made', vault')
  BY <1>2, <1>5 DEF PullOK
<1> QED BY <1>1, <1>2, <1>4, <1>5, <1>6, PullsKeep DEF r

LEMMA PageKeeps ==
  ASSUME IInv, RunnerAssumption, NEW c \in Connections, Page(c)
  PROVE  IInv'
<1>1. /\ run[c] \in RunType /\ log \in Seq(Revisions) /\ made \subseteq Edits /\ vault \subseteq Revisions /\ RestOK
      /\ PullOK(run[c], cache[c], log, made, vault)
  BY HereOK DEF RunOK
<1>2. PICK page \in SUBSET (1..Len(log)) :
        /\ UNCHANGED budgets \/ Fault
        /\ Step(c, [run[c] EXCEPT !.pc = "apply", !.page = page])
  BY DEF Page
<1>3. UNCHANGED <<log, session, disk, cache, made, gone, vault, unsaved>> /\ run[c].pc = "pulling"
  BY DEF Page
<1>4. Grows
  <2>1. log = log \o <<>> /\ <<>> \in Seq(Revisions)
    BY <1>1
  <2>2. faults' \in 0..MaxFaults /\ UNCHANGED <<crashes, requeues>>
    BY <1>1, <1>2 DEF Fault, budgets, RestOK, RunnerAssumption
  <2> QED BY <1>1, <1>3, <2>1, <2>2 DEF Grows, RestOK
<1> DEFINE r == [run[c] EXCEPT !.pc = "apply", !.page = page]
<1>5. page \subseteq Nat
  BY <1>1
<1>6. r \in RunType
  BY <1>1, <1>5 DEF RunType, PC
<1>7. /\ r.pc = "apply" /\ r.cursor = run[c].cursor /\ r.pending = run[c].pending /\ r.results = run[c].results
      /\ r.page = page /\ r.retried = run[c].retried
  BY <1>1 DEF RunType
<1> HIDE DEF r
<1>8. PullOK(r, cache[c], log', made', vault')
  BY <1>1, <1>2, <1>3, <1>7 DEF PullOK
<1> QED BY <1>2, <1>3, <1>4, <1>6, <1>7, <1>8, PullsKeep DEF r

\* The first event of a page that is not empty
LEMMA NextIs ==
  ASSUME NEW c, run[c].page \subseteq Nat, run[c].page # {}
  PROVE  Next1(c) \in run[c].page /\ \A j \in run[c].page : Next1(c) <= j
BY LeastOf DEF Next1

\* The event that is due is the one after the cursor.
LEMMA DueIs ==
  ASSUME IInv, NEW c \in Connections, run[c].pc \in {"checked", "retire", "park", "save"}
  PROVE  /\ Next1(c) = run[c].cursor + 1 /\ Event(c) = log[run[c].cursor + 1]
         /\ run[c].cursor = cache[c].cursor /\ run[c].cursor \in Nat
         /\ run[c].cursor + 1 \in 1..Len(log) /\ Event(c) \in Revisions
         /\ run[c].cursor + 1 \in run[c].page /\ \A j \in run[c].page : run[c].cursor + 1 <= j
<1>1. run[c] \in RunType /\ PullOK(run[c], cache[c], log, made, vault) /\ log \in Seq(Revisions)
  BY HereOK DEF RunOK
<1>2. /\ run[c].cursor + 1 \in run[c].page /\ (\A j \in run[c].page : run[c].cursor + 1 <= j)
      /\ run[c].page \subseteq 1..Len(log) /\ run[c].cursor = cache[c].cursor /\ run[c].cursor \in Nat
  BY <1>1 DEF PullOK, RunType
<1>3. Next1(c) \in run[c].page /\ \A j \in run[c].page : Next1(c) <= j
  <2>1. run[c].page \subseteq Nat /\ run[c].page # {}
    BY <1>1, <1>2
  <2> QED BY <2>1, NextIs
<1>4. Next1(c) = run[c].cursor + 1
  <2>1. Next1(c) <= run[c].cursor + 1 /\ run[c].cursor + 1 <= Next1(c) /\ Next1(c) \in Nat
    BY <1>1, <1>2, <1>3
  <2> QED BY <1>2, <2>1
<1>5. log[run[c].cursor + 1] \in Revisions
  BY <1>1, <1>2
<1> QED BY <1>2, <1>4, <1>5 DEF Event

LEMMA ExamineKeeps ==
  ASSUME IInv, NEW c \in Connections, Examine(c)
  PROVE  IInv'
<1>1. Local /\ UNCHANGED <<disk, cache>> /\ run[c].pc = "apply" /\ run[c].page # {}
  BY DEF Examine
<1>2. /\ Grows /\ log' = log /\ made' = made /\ vault' = vault
      /\ run[c] \in RunType /\ cache[c] \in StateType /\ log \in Seq(Revisions)
      /\ StateOK(cache[c], log', made', vault') /\ PullOK(run[c], cache[c], log, made, vault)
  BY <1>1, QuietHere
<1>3. /\ run[c].page \subseteq 1..Len(log) /\ run[c].page \subseteq Nat
      /\ run[c].cursor = cache[c].cursor /\ run[c].retried \subseteq vault
  BY <1>1, <1>2 DEF PullOK, RunType
<1>4. Next1(c) \in run[c].page /\ \A j \in run[c].page : Next1(c) <= j
  BY <1>1, <1>3, NextIs
<1>5. ASSUME NEW r \in RunType, Step(c, r), r.pending = run[c].pending, r.results = run[c].results,
             r.cursor = run[c].cursor, r.retried = run[c].retried,
             \/ r.pc = "apply" /\ r.page \subseteq run[c].page
             \/ r.pc = "checked" /\ r.page = run[c].page /\ Contiguous(c)
             \/ r.pc = "save" /\ r.page = run[c].page /\ Contiguous(c) /\ Event(c) \in made
      PROVE  IInv'
  <2>1. PullOK(r, cache[c], log, made, vault)
    <3>1. CASE r.pc = "apply" /\ r.page \subseteq run[c].page
      BY <1>3, <1>5, <3>1 DEF PullOK
    <3>2. CASE r.pc \in {"checked", "save"} /\ r.page = run[c].page /\ Contiguous(c)
               /\ (r.pc = "save" => Event(c) \in made)
      BY <1>3, <1>4, <1>5, <3>2 DEF PullOK, Contiguous, Event
    <3> QED BY <1>5, <3>1, <3>2
  <2>2. r.pc # "sent"
    BY <1>5
  <2> QED BY <1>1, <1>2, <1>5, <2>1, <2>2, PullsKeep
<1>6. CASE Next1(c) <= run[c].cursor
  <2> DEFINE page == run[c].page \ {Next1(c)}
             r == [run[c] EXCEPT !.page = page]
  <2>1. Step(c, r)
    BY <1>6 DEF Examine
  <2>2. page \subseteq run[c].page /\ page \subseteq Nat
    BY <1>3
  <2> HIDE DEF page
  <2>3. r \in RunType
    BY <1>2, <2>2 DEF RunType
  <2>4. /\ r.pc = run[c].pc /\ r.cursor = run[c].cursor /\ r.pending = run[c].pending
        /\ r.results = run[c].results /\ r.page = page /\ r.retried = run[c].retried
    BY <1>2 DEF RunType
  <2> HIDE DEF r
  <2> QED BY <1>1, <1>5, <2>1, <2>2, <2>3, <2>4
<1> DEFINE outcome == IF run[c].outcome = "conflict" THEN run[c].outcome ELSE "deferred"
<1>7. outcome \in {"synced", "conflict", "deferred"}
  BY <1>2 DEF RunType
<1>8. ASSUME NEW o \in {"synced", "conflict", "deferred"}, Step(c, [run[c] EXCEPT !.page = {}, !.outcome = o])
      PROVE  IInv'
  <2> DEFINE r == [run[c] EXCEPT !.page = {}, !.outcome = o]
  <2>1. r \in RunType
    BY <1>2 DEF RunType
  <2>2. /\ r.pc = run[c].pc /\ r.cursor = run[c].cursor /\ r.pending = run[c].pending
        /\ r.results = run[c].results /\ r.page = {} /\ r.retried = run[c].retried
    BY <1>2 DEF RunType
  <2>3. Step(c, r)
    BY <1>8
  <2> HIDE DEF r
  <2> QED BY <1>1, <1>5, <2>1, <2>2, <2>3
<1>9. CASE ~(Next1(c) <= run[c].cursor) /\ ~Contiguous(c)
  <2> DEFINE r == [run[c] EXCEPT !.page = {}]
  <2>1. Step(c, r)
    BY <1>9 DEF Examine
  <2>2. r \in RunType
    BY <1>2 DEF RunType
  <2>3. /\ r.pc = run[c].pc /\ r.cursor = run[c].cursor /\ r.pending = run[c].pending
        /\ r.results = run[c].results /\ r.page = {} /\ r.retried = run[c].retried
    BY <1>2 DEF RunType
  <2> HIDE DEF r
  <2> QED BY <1>1, <1>5, <2>1, <2>2, <2>3
<1>10. CASE ~(Next1(c) <= run[c].cursor) /\ Contiguous(c) /\ Event(c) \in ToSet(cache[c].authored)
  <2> DEFINE r == [run[c] EXCEPT !.pc = "save"]
  <2>1. Step(c, r) /\ Event(c) \in made
    BY <1>2, <1>10 DEF Examine, StateOK
  <2>2. r \in RunType
    BY <1>2 DEF RunType, PC
  <2>3. /\ r.pc = "save" /\ r.cursor = run[c].cursor /\ r.pending = run[c].pending
        /\ r.results = run[c].results /\ r.page = run[c].page /\ r.retried = run[c].retried
    BY <1>2 DEF RunType
  <2> HIDE DEF r
  <2> QED BY <1>5, <1>10, <2>1, <2>2, <2>3
<1>11. CASE ~(Next1(c) <= run[c].cursor) /\ Contiguous(c) /\ Event(c) \notin ToSet(cache[c].authored) /\ unsaved
  <2>1. Step(c, [run[c] EXCEPT !.page = {}, !.outcome = outcome])
    BY <1>11 DEF Examine
  <2> HIDE DEF outcome
  <2> QED BY <1>7, <1>8, <2>1
<1>12. CASE ~(Next1(c) <= run[c].cursor) /\ Contiguous(c) /\ Event(c) \notin ToSet(cache[c].authored) /\ ~unsaved
  <2> DEFINE r == [run[c] EXCEPT !.pc = "checked"]
  <2>1. Step(c, r)
    BY <1>12 DEF Examine
  <2>2. r \in RunType
    BY <1>2 DEF RunType, PC
  <2>3. /\ r.pc = "checked" /\ r.cursor = run[c].cursor /\ r.pending = run[c].pending
        /\ r.results = run[c].results /\ r.page = run[c].page /\ r.retried = run[c].retried
    BY <1>2 DEF RunType
  <2> HIDE DEF r
  <2> QED BY <1>5, <1>12, <2>1, <2>2, <2>3
<1> QED BY <1>6, <1>9, <1>10, <1>11, <1>12

LEMMA ApplyKeeps ==
  ASSUME IInv, NEW c \in Connections, Apply(c)
  PROVE  IInv'
<1>1. /\ run[c] \in RunType /\ log \in Seq(Revisions) /\ made \subseteq Edits /\ vault \subseteq Revisions /\ RestOK
      /\ PullOK(run[c], cache[c], log, made, vault) /\ run[c].pc = "checked"
  BY HereOK DEF RunOK, Apply
<1>2. /\ Event(c) = log[run[c].cursor + 1] /\ Event(c) \in Revisions /\ run[c].cursor = cache[c].cursor
      /\ run[c].cursor + 1 \in run[c].page /\ \A j \in run[c].page : run[c].cursor + 1 <= j
  BY <1>1, DueIs
<1>3. vault' = vault \cup {Event(c)} /\ UNCHANGED <<log, session, disk, cache, made, gone, unsaved, faults, crashes, requeues>>
  BY DEF Apply, budgets
<1>4. Grows
  <2>1. log = log \o <<>> /\ <<>> \in Seq(Revisions)
    BY <1>1
  <2> QED BY <1>1, <1>2, <1>3, <2>1 DEF Grows, RestOK
<1> DEFINE tries == [run[c].tries EXCEPT ![Event(c)] = 0]
<1>5. PICK pc \in {"save", "retire"}, outcome \in {"synced", "conflict", "deferred"} :
        Step(c, [run[c] EXCEPT !.tries = tries, !.pc = pc, !.outcome = outcome])
  <2>1. PICK conflict \in BOOLEAN :
          Step(c, [run[c] EXCEPT !.tries[Event(c)] = 0,
                                 !.pc = IF conflict THEN "save" ELSE "retire",
                                 !.outcome = IF conflict THEN "conflict" ELSE @])
    BY DEF Apply
  <2>2. run[c].outcome \in {"synced", "conflict", "deferred"}
    BY <1>1 DEF RunType
  <2>3. CASE conflict
    BY <2>1, <2>3
  <2>4. CASE ~conflict
    <3> DEFINE o == run[c].outcome
    <3>1. Step(c, [run[c] EXCEPT !.tries = tries, !.pc = "retire", !.outcome = o])
      BY <2>1, <2>4
    <3>2. o \in {"synced", "conflict", "deferred"}
      BY <2>2
    <3> HIDE DEF o, tries
    <3> QED BY <3>1, <3>2
  <2> QED BY <2>3, <2>4
<1> DEFINE r == [run[c] EXCEPT !.tries = tries, !.pc = pc, !.outcome = outcome]
<1>6. tries \in [Revisions -> Nat]
  <2>1. run[c].tries \in [Revisions -> Nat]
    BY <1>1 DEF RunType
  <2> QED BY <2>1
<1> HIDE DEF tries
<1>7. r \in RunType
  BY <1>1, <1>6 DEF RunType, PC
<1>8. /\ r.pc = pc /\ r.cursor = run[c].cursor /\ r.pending = run[c].pending
      /\ r.results = run[c].results /\ r.page = run[c].page /\ r.retried = run[c].retried
  BY <1>1 DEF RunType
<1>9. Step(c, r)
  BY <1>5
<1> HIDE DEF r
<1>10. PullOK(r, cache[c], log', made', vault')
  BY <1>1, <1>2, <1>3, <1>8 DEF PullOK
<1> QED BY <1>3, <1>4, <1>7, <1>8, <1>9, <1>10, PullsKeep

LEMMA DefersKeep ==
  ASSUME IInv, NEW c \in Connections, ApplyDeferred(c)
  PROVE  IInv'
<1>1. Local /\ UNCHANGED <<disk, cache>> /\ run[c].pc = "checked"
  BY DEF ApplyDeferred
<1>2. /\ Grows /\ log' = log /\ made' = made /\ vault' = vault
      /\ run[c] \in RunType /\ PullOK(run[c], cache[c], log, made, vault)
  BY <1>1, QuietHere
<1> DEFINE tries == [run[c].tries EXCEPT ![Event(c)] = 0]
           outcome == IF run[c].outcome = "conflict" THEN run[c].outcome ELSE "deferred"
           r == [run[c] EXCEPT !.tries = tries, !.pc = "apply", !.page = {}, !.outcome = outcome]
<1>3. Step(c, r)
  BY DEF ApplyDeferred
<1>4. tries \in [Revisions -> Nat] /\ outcome \in {"synced", "conflict", "deferred"}
  <2>1. run[c].tries \in [Revisions -> Nat] /\ run[c].outcome \in {"synced", "conflict", "deferred"}
    BY <1>2 DEF RunType
  <2> QED BY <2>1
<1> HIDE DEF tries, outcome
<1>5. r \in RunType
  BY <1>2, <1>4 DEF RunType, PC
<1>6. /\ r.pc = "apply" /\ r.cursor = run[c].cursor /\ r.pending = run[c].pending
      /\ r.results = run[c].results /\ r.page = {} /\ r.retried = run[c].retried
  BY <1>2 DEF RunType
<1> HIDE DEF r
<1>7. PullOK(r, cache[c], log', made', vault')
  BY <1>1, <1>2, <1>6 DEF PullOK
<1> QED BY <1>1, <1>2, <1>3, <1>5, <1>6, <1>7, PullsKeep

LEMMA ThrowsKeep ==
  ASSUME IInv, RunnerAssumption, NEW c \in Connections, ApplyThrows(c)
  PROVE  IInv'
<1>1. /\ run[c] \in RunType /\ log \in Seq(Revisions) /\ made \subseteq Edits /\ vault \subseteq Revisions /\ RestOK
      /\ PullOK(run[c], cache[c], log, made, vault) /\ run[c].pc = "checked"
  BY HereOK DEF RunOK, ApplyThrows
<1>2. UNCHANGED <<log, session, disk, cache, made, gone, vault, unsaved>> /\ (UNCHANGED budgets \/ Fault)
  BY DEF ApplyThrows
<1>3. Grows
  <2>1. log = log \o <<>> /\ <<>> \in Seq(Revisions)
    BY <1>1
  <2>2. faults' \in 0..MaxFaults /\ UNCHANGED <<crashes, requeues>>
    BY <1>1, <1>2 DEF Fault, budgets, RestOK, RunnerAssumption
  <2> QED BY <1>1, <1>2, <2>1, <2>2 DEF Grows, RestOK
<1>4. run[c].tries \in [Revisions -> Nat]
  BY <1>1 DEF RunType
<1>5. CASE Parks(c)
  <2> DEFINE tries == [run[c].tries EXCEPT ![Event(c)] = 0]
             r == [run[c] EXCEPT !.tries = tries, !.pc = "park"]
  <2>1. Step(c, r)
    BY <1>5 DEF ApplyThrows
  <2>2. tries \in [Revisions -> Nat]
    BY <1>4
  <2> HIDE DEF tries
  <2>3. r \in RunType
    BY <1>1, <2>2 DEF RunType, PC
  <2>4. /\ r.pc = "park" /\ r.cursor = run[c].cursor /\ r.pending = run[c].pending
        /\ r.results = run[c].results /\ r.page = run[c].page /\ r.retried = run[c].retried
    BY <1>1 DEF RunType
  <2> HIDE DEF r
  <2>5. PullOK(r, cache[c], log', made', vault')
    BY <1>1, <1>2, <2>4 DEF PullOK
  <2> QED BY <1>2, <1>3, <2>1, <2>3, <2>4, <2>5, PullsKeep
<1>6. CASE ~Parks(c)
  <2> DEFINE tries == [run[c].tries EXCEPT ![Event(c)] = @ + 1]
             r == [run[c] EXCEPT !.tries = tries]
  <2>1. Step(c, Ended(r, "offline"))
    BY <1>6 DEF ApplyThrows
  <2>2. tries \in [Revisions -> Nat]
    <3>1. Event(c) \in Revisions
      BY <1>1, DueIs
    <3> DEFINE n == run[c].tries[Event(c)] + 1
    <3>2. n \in Nat /\ tries = [run[c].tries EXCEPT ![Event(c)] = n]
      BY <1>4, <3>1
    <3> HIDE DEF n, tries
    <3> QED BY <1>4, <3>2
  <2> HIDE DEF tries
  <2>3. r \in RunType
    BY <1>1, <2>2 DEF RunType
  <2>4. r.retried = run[c].retried
    BY <1>1 DEF RunType
  <2> HIDE DEF r
  <2> QED BY <1>2, <1>3, <2>1, <2>3, <2>4, EndCycleKeeps
<1> QED BY <1>5, <1>6

LEMMA ParkKeeps ==
  ASSUME IInv, NEW c \in Connections, Park(c)
  PROVE  IInv'
<1>1. Local /\ run[c].pc = "park"
  BY DEF Park
<1>2. /\ Grows /\ log' = log /\ made' = made /\ vault' = vault
      /\ run[c] \in RunType /\ cache[c] \in StateType /\ RunOK(run[c], cache[c], log, made, vault)
      /\ StateOK(cache[c], log, made, vault)
      /\ PushOK(run[c], log, made) /\ PullOK(run[c], cache[c], log, made, vault)
  BY <1>1, QuietHere, HereOK
<1>3. Event(c) = log[run[c].cursor + 1] /\ Event(c) \in Revisions
  BY <1>1, DueIs
<1> DEFINE parked == cache[c].parked \cup {Event(c)}
           s == [cache[c] EXCEPT !.parked = parked]
           r == [run[c] EXCEPT !.pc = "save"]
<1>4. Save(c, s) /\ Step(c, r)
  BY DEF Park
<1>5. parked \subseteq Revisions
  BY <1>2, <1>3 DEF StateType
<1>6. Event(c) \in parked /\ cache[c].parked \subseteq parked
  OBVIOUS
<1> HIDE DEF parked
<1>7. s \in StateType
  BY <1>2, <1>5 DEF StateType
<1>8. /\ s.outbox = cache[c].outbox /\ s.authored = cache[c].authored /\ s.cursor = cache[c].cursor
      /\ s.parked = parked /\ s.quarantine = cache[c].quarantine
  BY <1>2 DEF StateType
<1>9. r \in RunType
  BY <1>2 DEF RunType, PC
<1>10. /\ r.pc = "save" /\ r.cursor = run[c].cursor /\ r.pending = run[c].pending
       /\ r.results = run[c].results /\ r.page = run[c].page /\ r.retried = run[c].retried
  BY <1>2 DEF RunType
<1> HIDE DEF r, s
<1>11. StateOK(s, log, made, vault)
  BY <1>2, <1>6, <1>8 DEF StateOK
<1>12. PushOK(r, log, made)
  BY <1>2, <1>10 DEF PushOK
<1>13. PullOK(r, s, log, made, vault)
  BY <1>1, <1>2, <1>3, <1>6, <1>8, <1>10 DEF PullOK
<1> QED BY <1>2, <1>4, <1>7, <1>9, <1>11, <1>12, <1>13, Saved DEF Step, RunOK

LEMMA RetireKeeps ==
  ASSUME IInv, NEW c \in Connections, Retire(c)
  PROVE  IInv'
<1>1. Local /\ run[c].pc = "retire"
  BY DEF Retire
<1>2. /\ Grows /\ log' = log /\ made' = made /\ vault' = vault
      /\ run[c] \in RunType /\ cache[c] \in StateType /\ RunOK(run[c], cache[c], log, made, vault)
      /\ StateOK(cache[c], log, made, vault)
      /\ PushOK(run[c], log, made) /\ PullOK(run[c], cache[c], log, made, vault)
  BY <1>1, QuietHere, HereOK
<1> DEFINE r == [run[c] EXCEPT !.pc = "save"]
<1>3. Step(c, r)
  BY DEF Retire
<1>4. r \in RunType
  BY <1>2 DEF RunType, PC
<1>5. /\ r.pc = "save" /\ r.cursor = run[c].cursor /\ r.pending = run[c].pending
      /\ r.results = run[c].results /\ r.page = run[c].page /\ r.retried = run[c].retried
  BY <1>2 DEF RunType
<1> HIDE DEF r
<1>6. ASSUME NEW s, s.cursor = cache[c].cursor, s.parked = cache[c].parked
      PROVE  RunOK(r, s, log, made, vault)
  <2>1. PushOK(r, log, made)
    BY <1>2, <1>5 DEF PushOK
  <2>2. PullOK(r, s, log, made, vault)
    BY <1>1, <1>2, <1>5, <1>6 DEF PullOK
  <2> QED BY <2>1, <2>2 DEF RunOK
<1>7. CASE Redundant(c) = {}
  <2>1. UNCHANGED <<disk, cache>>
    BY <1>7 DEF Retire
  <2> QED BY <1>2, <1>3, <1>4, <1>6, <2>1, Kept DEF Step
<1>8. CASE Redundant(c) # {}
  <2> DEFINE outbox == Without(cache[c].outbox, Redundant(c))
             s == [cache[c] EXCEPT !.outbox = outbox]
  <2>1. Save(c, s)
    BY <1>8 DEF Retire
  <2>2. outbox \in Seq(Edits) /\ ToSet(outbox) \subseteq ToSet(cache[c].outbox)
    <3>1. cache[c].outbox \in Seq(Edits)
      BY <1>2 DEF StateType
    <3> QED BY <3>1, WithoutIs
  <2> HIDE DEF outbox
  <2>3. s \in StateType
    BY <1>2, <2>2 DEF StateType
  <2>4. /\ s.outbox = outbox /\ s.authored = cache[c].authored /\ s.cursor = cache[c].cursor
        /\ s.parked = cache[c].parked /\ s.quarantine = cache[c].quarantine
    BY <1>2 DEF StateType
  <2> HIDE DEF s
  <2>5. StateOK(s, log, made, vault)
    BY <1>2, <2>2, <2>4 DEF StateOK
  <2> QED BY <1>2, <1>3, <1>4, <1>6, <2>1, <2>3, <2>4, <2>5, Saved DEF Step
<1> QED BY <1>7, <1>8

LEMMA SaveCursorKeeps ==
  ASSUME IInv, NEW c \in Connections, SaveCursor(c)
  PROVE  IInv'
<1>1. Local /\ run[c].pc = "save"
  BY DEF SaveCursor
<1>2. /\ Grows /\ log' = log /\ made' = made /\ vault' = vault
      /\ run[c] \in RunType /\ cache[c] \in StateType /\ RunOK(run[c], cache[c], log, made, vault)
      /\ StateOK(cache[c], log, made, vault)
      /\ PushOK(run[c], log, made) /\ PullOK(run[c], cache[c], log, made, vault)
  BY <1>1, QuietHere, HereOK
<1> DEFINE n == run[c].cursor + 1
<1>3. /\ Next1(c) = n /\ run[c].cursor = cache[c].cursor /\ run[c].cursor \in Nat /\ n \in 1..Len(log)
      /\ log[n] \in vault \cup made \cup cache[c].parked
  <2>1. /\ Next1(c) = n /\ run[c].cursor = cache[c].cursor /\ run[c].cursor \in Nat /\ n \in 1..Len(log)
    BY <1>1, DueIs
  <2>2. log[n] \in vault \cup made \cup cache[c].parked
    BY <1>1, <1>2 DEF PullOK
  <2> QED BY <2>1, <2>2
<1> DEFINE page == run[c].page \ {Next1(c)}
           s == [cache[c] EXCEPT !.cursor = Next1(c)]
           r == [run[c] EXCEPT !.pc = "apply", !.cursor = Next1(c), !.page = page]
<1>4. Save(c, s) /\ Step(c, r)
  BY DEF SaveCursor
<1>5. Next1(c) \in Nat /\ page \subseteq Nat /\ page \subseteq run[c].page
  BY <1>2, <1>3 DEF RunType
<1> HIDE DEF page
<1>6. s \in StateType
  BY <1>2, <1>5 DEF StateType
<1>7. /\ s.outbox = cache[c].outbox /\ s.authored = cache[c].authored /\ s.cursor = Next1(c)
      /\ s.parked = cache[c].parked /\ s.quarantine = cache[c].quarantine
  BY <1>2 DEF StateType
<1>8. r \in RunType
  BY <1>2, <1>5 DEF RunType, PC
<1>9. /\ r.pc = "apply" /\ r.cursor = Next1(c) /\ r.pending = run[c].pending
      /\ r.results = run[c].results /\ r.page = page /\ r.retried = run[c].retried
  BY <1>2 DEF RunType
<1> HIDE DEF r, s
<1>10. StateOK(s, log, made, vault)
  <2>1. \A i \in 1..s.cursor : i \in 1..cache[c].cursor \/ i = n
    BY <1>3, <1>7
  <2> HIDE DEF n
  <2> QED BY <1>2, <1>3, <1>7, <2>1 DEF StateOK
<1>11. PushOK(r, log, made)
  BY <1>2, <1>9 DEF PushOK
<1>12. PullOK(r, s, log, made, vault)
  BY <1>2, <1>5, <1>7, <1>9 DEF PullOK
<1> QED BY <1>2, <1>4, <1>6, <1>8, <1>10, <1>11, <1>12, Saved DEF Step, RunOK

-----------------------------------------------------------------------------
LEMMA Starts ==
  ASSUME RunnerAssumption, Init
  PROVE  IInv
<1>1. <<>> \in Seq(Edits) /\ <<>> \in Seq(Revisions) /\ Len(<<>>) = 0 /\ 0 \in 0..MaxFaults
      /\ 0 \in 0..MaxCrashes /\ 0 \in 0..MaxRequeues
  BY DEF RunnerAssumption
<1>2. EmptyState \in StateType
  BY <1>1 DEF EmptyState, StateType
<1>3. \A c \in Connections : run[c] \in RunType /\ \A s : RunOK(run[c], s, log, made, vault)
  <2> SUFFICES ASSUME NEW c \in Connections, NEW s PROVE run[c] \in RunType /\ RunOK(run[c], s, log, made, vault)
    OBVIOUS
  <2>1. CASE c = 1
    <3>1. run[c] = NewRun("begin")
      BY <2>1 DEF Init, Started
    <3> QED BY <3>1, NewRunIs
  <2>2. CASE c # 1
    <3>1. run[c] = NewRun("off")
      BY <2>2 DEF Init, Started
    <3> QED BY <3>1, NewRunIs
  <2> QED BY <2>1, <2>2
<1>4. StateOK(EmptyState, log, made, vault)
  <2>1. ToSet(<<>>) = {}
    BY ToSetOf, <1>1 DEF ToSet
  <2> QED BY <2>1 DEF EmptyState, StateOK
<1>5. TypeOK
  BY <1>1, <1>2, <1>3 DEF Init, Started, TypeOK
<1> QED BY <1>3, <1>4, <1>5 DEF Init, IInv

LEMMA CycleKeeps ==
  ASSUME IInv, RunnerAssumption, NEW c \in Connections, Cycle(c)
  PROVE  IInv'
<1>1. CASE Begin(c) \/ Send(c) \/ Pushed(c) \/ Answer(c) \/ Refuse(c)
  BY <1>1, BeginKeeps, SendKeeps, MovesOnKeep, AnswerKeeps, RefuseKeeps
<1>2. CASE Result(c) \/ ResultsDone(c) \/ Cascade(c) \/ CascadeDone(c)
  BY <1>2, ResultKeeps, MovesOnKeep, CascadeKeeps
<1>3. CASE Pull(c) \/ Page(c) \/ Denied(c) \/ Examine(c)
  BY <1>3, PullKeeps, PageKeeps, EndingsKeep, ExamineKeeps
<1>4. CASE Apply(c) \/ ApplyDeferred(c) \/ ApplyThrows(c)
  BY <1>4, ApplyKeeps, DefersKeep, ThrowsKeep
<1>5. CASE Park(c) \/ Retire(c) \/ SaveCursor(c) \/ Finish(c)
  BY <1>5, ParkKeeps, RetireKeeps, SaveCursorKeeps, EndingsKeep
<1> QED BY <1>1, <1>2, <1>3, <1>4, <1>5 DEF Cycle

LEMMA StepKeeps ==
  ASSUME IInv, RunnerAssumption, [Next]_vars
  PROVE  IInv'
<1>1. CASE UNCHANGED vars
  BY <1>1 DEF vars, budgets, IInv, TypeOK
<1>2. CASE Crash \/ SessionRefused \/ Typing \/ EditorSaves \/ \E p \in Peers : PeerCommits(p)
  BY <1>2, StartKeeps, WorldKeeps
<1>3. ASSUME NEW c \in Connections,
             \/ Cycle(c) \/ SyncNow(c) \/ BackoffFires(c) \/ Stop(c) \/ Connect(c)
             \/ HookFails(c) \/ PushFails(c) \/ PullFails(c)
      PROVE  IInv'
  BY <1>3, CycleKeeps, TriggersKeep, StartKeeps, EndingsKeep, PushFailsKeeps
<1>4. ASSUME NEW c \in Connections, NEW e \in Edits, Commit(c, e) \/ Requeue(c, e) \/ Discard(c, e)
      PROVE  IInv'
  BY <1>4, CommitKeeps, UserKeeps
<1>5. ASSUME NEW c \in Connections, NEW p \in Revisions, RetryParked(c, p) \/ Unpark(c, p)
      PROVE  IInv'
  BY <1>5, ParkedKeep
<1> QED BY <1>1, <1>2, <1>3, <1>4, <1>5 DEF Next

(***************************************************************************)
(* Everything the runner's loop, its data.json and its connections hold    *)
(* stays of its type.                                                      *)
(***************************************************************************)
THEOREM TypeCorrect == Spec => []TypeOK
<1>1. Init => IInv
  BY RunnerAssumption, Starts
<1>2. IInv /\ [Next]_vars => IInv'
  BY RunnerAssumption, StepKeeps
<1>3. IInv => TypeOK
  BY DEF IInv
<1> QED BY <1>1, <1>2, <1>3, PTL DEF Spec

(***************************************************************************)
(* The cursor never passes an event that was not dealt with: whatever lies *)
(* below the durable one is in the files, this device's own, or listed as  *)
(* parked, for any pages, faults, restarts and number of connections.      *)
(***************************************************************************)
THEOREM PullCorrect == Spec => []NothingSkipped
<1>1. Init => IInv
  BY RunnerAssumption, Starts
<1>2. IInv /\ [Next]_vars => IInv'
  BY RunnerAssumption, StepKeeps
<1>3. IInv => NothingSkipped
  BY DEF IInv, StateOK, NothingSkipped
<1> QED BY <1>1, <1>2, <1>3, PTL DEF Spec

-----------------------------------------------------------------------------
(* One connection: what it caches is what is durable, and no commit is     *)
(* lost.  A second connection writes back what it read, which is why the   *)
(* theorem assumes one.                                                    *)

QInv == IInv /\ disk = cache[1] /\ QueueAccounted

\* A step that leaves the lists of the durable state, or adds to them
LEMMA Accounts ==
  ASSUME QueueAccounted, made' = made, gone \subseteq gone', ToSet(log) \subseteq ToSet(log'),
         ToSet(disk.outbox) \cup disk.quarantine \subseteq
           ToSet(disk'.outbox) \cup disk'.quarantine \cup ToSet(log') \cup gone' \cup {e \in Edits : Retired(e)'}
  PROVE  QueueAccounted'
<1>1. \A e : Retired(e) => Retired(e)'
  BY DEF Retired
<1> QED BY <1>1 DEF QueueAccounted

LEMMA LogGrows ==
  ASSUME IInv, [Next]_vars
  PROVE  ToSet(log) \subseteq ToSet(log')
<1>1. log \in Seq(Revisions)
  BY DEF IInv, TypeOK
<1>2. CASE UNCHANGED log
  BY <1>2
<1>3. ASSUME NEW p \in Peers, PeerCommits(p) PROVE ToSet(log) \subseteq ToSet(log')
  BY <1>1, <1>3, ToSetOf DEF PeerCommits
<1>4. ASSUME NEW c \in Connections, Answer(c) \/ PushFails(c), ~UNCHANGED log
      PROVE  ToSet(log) \subseteq ToSet(log')
  <2>1. run[c].pc = "sent" /\ log' = log \o Judge(OnTheWire(c)).new
    BY <1>4 DEF Answer, PushFails
  <2>2. Judge(OnTheWire(c)).new \in Seq(Revisions)
    BY <2>1, WireIs
  <2> QED BY <1>1, <2>1, <2>2, ToSetOf
<1>5. [Next]_vars => \/ UNCHANGED log
                     \/ \E p \in Peers : PeerCommits(p)
                     \/ \E c \in Connections : Answer(c) \/ PushFails(c)
  <2>1. UNCHANGED vars => UNCHANGED log
    BY DEF vars
  <2>2. Crash \/ SessionRefused \/ Typing \/ EditorSaves => UNCHANGED log
    BY DEF Crash, SessionRefused, Typing, EditorSaves
  <2>3. ASSUME NEW c \in Connections, Cycle(c), ~Answer(c) PROVE UNCHANGED log
    BY <2>3 DEF Cycle, Begin, Send, Pushed, Refuse, Result, ResultsDone, Cascade, CascadeDone, Pull, Page,
                Denied, Examine, Apply, ApplyDeferred, ApplyThrows, Park, Retire, SaveCursor, Finish, Local
  <2>4. ASSUME NEW c \in Connections, SyncNow(c) \/ BackoffFires(c) \/ Stop(c) \/ Connect(c) \/ HookFails(c) \/ PullFails(c)
        PROVE  UNCHANGED log
    BY <2>4 DEF SyncNow, BackoffFires, Stop, Connect, HookFails, PullFails, Local
  <2>5. ASSUME NEW c \in Connections, NEW e \in Edits, Commit(c, e) \/ Requeue(c, e) \/ Discard(c, e) PROVE UNCHANGED log
    BY <2>5 DEF Commit, Requeue, Discard
  <2>6. ASSUME NEW c \in Connections, NEW q \in Revisions, RetryParked(c, q) \/ Unpark(c, q) PROVE UNCHANGED log
    BY <2>6 DEF RetryParked, Unpark, Local
  <2> QED BY <2>1, <2>2, <2>3, <2>4, <2>5, <2>6 DEF Next
<1> QED BY <1>2, <1>3, <1>4, <1>5

\* A write to the durable state of the one connection
LEMMA SaveAccounts ==
  ASSUME QInv, MaxConnections = 1, NEW c \in Connections, NEW s, Save(c, s),
         made' = made, gone \subseteq gone', ToSet(log) \subseteq ToSet(log'),
         ToSet(cache[c].outbox) \cup cache[c].quarantine \subseteq
           ToSet(s.outbox) \cup s.quarantine \cup ToSet(log') \cup gone' \cup {e \in Edits : Retired(e)'}
  PROVE  disk' = cache'[1] /\ QueueAccounted'
<1>1. c = 1 /\ cache \in [Connections -> StateType] /\ disk = cache[1] /\ QueueAccounted
  BY DEF QInv, IInv, TypeOK, Connections
<1>2. disk' = s /\ cache'[1] = s
  BY <1>1 DEF Save
<1>3. QueueAccounted'
  <2> HIDE DEF QueueAccounted
  <2> QED BY <1>1, <1>2, Accounts
<1> QED BY <1>2, <1>3

\* What the steps that write the lists take from them, or put there
LEMMA QueueWrites ==
  ASSUME QInv, RunnerAssumption, MaxConnections = 1, ToSet(log) \subseteq ToSet(log'), NEW c \in Connections
  PROVE  /\ Result(c) \/ Cascade(c) \/ Park(c) \/ Retire(c) \/ SaveCursor(c)
              => disk' = cache'[1] /\ QueueAccounted'
         /\ \A e \in Edits : Requeue(c, e) \/ Discard(c, e) => disk' = cache'[1] /\ QueueAccounted'
         /\ \A p \in Revisions : Unpark(c, p) => disk' = cache'[1] /\ QueueAccounted'
<1>1. /\ IInv /\ run[c] \in RunType /\ cache[c] \in StateType /\ log \in Seq(Revisions)
      /\ cache[c].outbox \in Seq(Edits) /\ cache[c].quarantine \subseteq Edits /\ PushOK(run[c], log, made)
      /\ c = 1 /\ disk = cache[1] /\ QueueAccounted
  <2>1. IInv /\ c = 1 /\ disk = cache[1] /\ QueueAccounted
    BY DEF QInv, Connections
  <2>2. run[c] \in RunType /\ cache[c] \in StateType /\ log \in Seq(Revisions) /\ PushOK(run[c], log, made)
    BY <2>1, HereOK DEF RunOK
  <2>3. cache[c].outbox \in Seq(Edits) /\ cache[c].quarantine \subseteq Edits
    BY <2>2 DEF StateType
  <2> QED BY <2>1, <2>2, <2>3
\* A state that lists the same
<1>2. ASSUME NEW s, Save(c, s), s.outbox = cache[c].outbox, s.quarantine = cache[c].quarantine,
             UNCHANGED <<made, gone>>
      PROVE  disk' = cache'[1] /\ QueueAccounted'
  BY <1>2, SaveAccounts
<1>3. ASSUME UNCHANGED <<disk, cache, made, gone>> PROVE disk' = cache'[1] /\ QueueAccounted'
  BY <1>1, <1>3, Accounts
<1>4. ASSUME Result(c) PROVE disk' = cache'[1] /\ QueueAccounted'
  <2>1. Local /\ run[c].results # <<>> /\ UNCHANGED <<made, gone>>
    BY <1>4 DEF Result, Local
  <2> DEFINE result == Head(run[c].results)
  <2>2. CASE Accepted(result) /\ Receipt(c, result.id)
    <3>1. result.id \in ToSet(log)
      <4>1. run[c].results \in Results
        BY <1>1 DEF RunType, Results
      <4>2. result = run[c].results[1] /\ 1 \in 1..Len(run[c].results)
        BY <2>1, <4>1 DEF Results
      <4> QED BY <1>1, <2>2, <4>2 DEF PushOK
    <3> DEFINE outbox == Without(cache[c].outbox, {result.id})
               authored == RememberAuthored(cache[c].authored, result.id)
               s == [cache[c] EXCEPT !.outbox = outbox, !.authored = authored]
    <3>2. Save(c, s)
      BY <2>2 DEF Receipt
    <3>3. ToSet(outbox) = ToSet(cache[c].outbox) \ {result.id}
      BY <1>1, WithoutIs
    <3>4. s.outbox = outbox /\ s.quarantine = cache[c].quarantine
      BY <1>1 DEF StateType
    <3> HIDE DEF result, outbox, s
    <3>5. ToSet(cache[c].outbox) \cup cache[c].quarantine \subseteq
            ToSet(s.outbox) \cup s.quarantine \cup ToSet(log') \cup gone' \cup {e \in Edits : Retired(e)'}
      BY <3>1, <3>3, <3>4
    <3> QED BY <2>1, <3>2, <3>5, SaveAccounts
  <2>3. CASE UNCHANGED <<disk, cache>>
    BY <1>3, <2>1, <2>3
  <2> QED BY <1>4, <2>2, <2>3 DEF Result
<1>5. ASSUME Cascade(c) PROVE disk' = cache'[1] /\ QueueAccounted'
  <2>1. UNCHANGED <<made, gone>>
    BY <1>5 DEF Cascade, Local
  <2> DEFINE e == Head(run[c].work)
             outbox == Without(cache[c].outbox, {e})
             held == cache[c].quarantine \cup {e}
             s == [cache[c] EXCEPT !.outbox = outbox, !.quarantine = held]
  <2>2. CASE Save(c, s)
    <3>1. ToSet(outbox) = ToSet(cache[c].outbox) \ {e}
      BY <1>1, WithoutIs
    <3>2. s.outbox = outbox /\ s.quarantine = held
      BY <1>1 DEF StateType
    <3>3. ToSet(cache[c].outbox) \cup cache[c].quarantine \subseteq ToSet(outbox) \cup held
      BY <3>1
    <3> HIDE DEF s, outbox, held
    <3> QED BY <2>1, <2>2, <3>2, <3>3, SaveAccounts
  <2>3. CASE UNCHANGED <<disk, cache>>
    BY <1>3, <2>1, <2>3
  <2> QED BY <1>5, <2>2, <2>3 DEF Cascade, Quarantined
<1>6. ASSUME Park(c) \/ SaveCursor(c) \/ \E p \in Revisions : Unpark(c, p)
      PROVE  disk' = cache'[1] /\ QueueAccounted'
  <2>1. UNCHANGED <<made, gone>>
    BY <1>6 DEF Park, SaveCursor, Unpark, Local
  <2>2. PICK s : Save(c, s) /\ \/ \E x : s = [cache[c] EXCEPT !.parked = x]
                               \/ \E x : s = [cache[c] EXCEPT !.cursor = x]
    BY <1>6, Zenon DEF Park, SaveCursor, Unpark
  <2>3. s.outbox = cache[c].outbox /\ s.quarantine = cache[c].quarantine
    BY <1>1, <2>2 DEF StateType
  <2> QED BY <1>2, <2>1, <2>2, <2>3
<1>7. ASSUME Retire(c) PROVE disk' = cache'[1] /\ QueueAccounted'
  <2>1. UNCHANGED <<made, gone, log>> /\ run[c].pc = "retire"
    BY <1>7 DEF Retire, Local
  <2>2. CASE Save(c, [cache[c] EXCEPT !.outbox = Without(cache[c].outbox, Redundant(c))])
    <3> DEFINE outbox == Without(cache[c].outbox, Redundant(c))
               s == [cache[c] EXCEPT !.outbox = outbox]
    <3>1. ToSet(outbox) = ToSet(cache[c].outbox) \ Redundant(c)
      BY <1>1, WithoutIs
    <3>2. s.outbox = outbox /\ s.quarantine = cache[c].quarantine /\ Save(c, s)
      BY <1>1, <2>2 DEF StateType
    <3>3. Redundant(c) \subseteq {e \in Edits : Retired(e)'}
      <4>1. Event(c) \in ToSet(log)
        <5>1. Event(c) = log[run[c].cursor + 1] /\ run[c].cursor + 1 \in 1..Len(log)
          BY <1>1, <2>1, DueIs
        <5> QED BY <1>1, <5>1, ToSetOf
      <4>2. Redundant(c) \subseteq Edits
        BY <1>1, ToSetOf DEF Redundant, QueuedTwins
      <4>3. \A e \in Redundant(c) : Event(c) \in Peers /\ e \in Twins[Event(c)]
        BY DEF Redundant, QueuedTwins
      <4> QED BY <2>1, <4>1, <4>2, <4>3 DEF Retired
    <3> HIDE DEF s, outbox
    <3> QED BY <2>1, <3>1, <3>2, <3>3, SaveAccounts
  <2>3. CASE UNCHANGED <<disk, cache>>
    BY <1>3, <2>1, <2>3
  <2> QED BY <1>7, <2>2, <2>3 DEF Retire
<1>8. ASSUME NEW e \in Edits, Requeue(c, e) PROVE disk' = cache'[1] /\ QueueAccounted'
  <2> DEFINE rest == Without(cache[c].outbox, {e})
             outbox == Append(rest, e)
             held == cache[c].quarantine \ {e}
             s == [cache[c] EXCEPT !.outbox = outbox, !.quarantine = held]
  <2>1. Save(c, s) /\ UNCHANGED <<made, gone>>
    BY <1>8 DEF Requeue
  <2>2. rest \in Seq(Edits) /\ ToSet(rest) = ToSet(cache[c].outbox) \ {e}
    BY <1>1, WithoutIs
  <2> HIDE DEF rest
  <2>3. ToSet(outbox) = ToSet(rest) \cup {e}
    BY <2>2, ToSetOf
  <2>4. s.outbox = outbox /\ s.quarantine = held
    BY <1>1 DEF StateType
  <2>5. ToSet(cache[c].outbox) \cup cache[c].quarantine \subseteq ToSet(outbox) \cup held
    BY <2>2, <2>3
  <2> HIDE DEF s, outbox, held
  <2> QED BY <2>1, <2>4, <2>5, SaveAccounts
<1>9. ASSUME NEW e \in Edits, Discard(c, e) PROVE disk' = cache'[1] /\ QueueAccounted'
  <2> DEFINE held == cache[c].quarantine \ {e}
             s == [cache[c] EXCEPT !.quarantine = held]
  <2>1. Save(c, s) /\ made' = made /\ gone' = gone \cup {e}
    BY <1>9 DEF Discard
  <2>2. s.outbox = cache[c].outbox /\ s.quarantine = held
    BY <1>1 DEF StateType
  <2>3. cache[c].quarantine \subseteq held \cup {e}
    OBVIOUS
  <2> HIDE DEF s, held
  <2>4. ToSet(cache[c].outbox) \cup cache[c].quarantine \subseteq
          ToSet(s.outbox) \cup s.quarantine \cup ToSet(log') \cup gone' \cup {x \in Edits : Retired(x)'}
    BY <2>1, <2>2, <2>3
  <2>5. gone \subseteq gone'
    BY <2>1
  <2> QED BY <2>1, <2>4, <2>5, SaveAccounts
<1> QED BY <1>4, <1>5, <1>6, <1>7, <1>8, <1>9

LEMMA QueueStep ==
  ASSUME QInv, RunnerAssumption, MaxConnections = 1, [Next]_vars
  PROVE  disk' = cache'[1] /\ QueueAccounted'
<1>1. ToSet(log) \subseteq ToSet(log') /\ IInv /\ disk = cache[1] /\ QueueAccounted
  BY LogGrows DEF QInv
<1>2. Connections = {1} /\ cache \in [Connections -> StateType]
  BY <1>1 DEF Connections, IInv, TypeOK
<1>3. ASSUME UNCHANGED <<disk, cache, made, gone>> PROVE disk' = cache'[1] /\ QueueAccounted'
  BY <1>1, <1>3, Accounts
<1>4. CASE UNCHANGED vars
  BY <1>3, <1>4 DEF vars
<1>5. CASE Crash
  <2>1. disk' = disk /\ cache'[1] = disk /\ UNCHANGED <<made, gone>>
    BY <1>2, <1>5 DEF Crash
  <2> QED BY <1>1, <2>1, Accounts
<1>6. CASE SessionRefused \/ Typing \/ EditorSaves \/ \E p \in Peers : PeerCommits(p)
  BY <1>3, <1>6 DEF SessionRefused, Typing, EditorSaves, PeerCommits
<1>7. ASSUME NEW c \in Connections, Cycle(c) PROVE disk' = cache'[1] /\ QueueAccounted'
  <2>1. CASE Result(c) \/ Cascade(c) \/ Park(c) \/ Retire(c) \/ SaveCursor(c)
    BY <1>1, <2>1, QueueWrites
  <2>2. CASE ~(Result(c) \/ Cascade(c) \/ Park(c) \/ Retire(c) \/ SaveCursor(c))
    <3>1. UNCHANGED <<disk, cache, made, gone>>
      BY <1>7, <2>2 DEF Cycle, Begin, Send, Pushed, Answer, Refuse, ResultsDone, CascadeDone, Pull, Page, Denied,
                        Examine, Apply, ApplyDeferred, ApplyThrows, Finish, EndCycle, Local
    <3> QED BY <1>3, <3>1
  <2> QED BY <2>1, <2>2
<1>8. ASSUME NEW c \in Connections, SyncNow(c) \/ BackoffFires(c) \/ Stop(c) \/ Connect(c)
                                    \/ HookFails(c) \/ PushFails(c) \/ PullFails(c)
      PROVE  disk' = cache'[1] /\ QueueAccounted'
  <2>1. ~Connect(c)
    BY <1>2 DEF Connect
  <2>2. UNCHANGED <<disk, cache, made, gone>>
    BY <1>8, <2>1 DEF SyncNow, BackoffFires, Stop, HookFails, PushFails, PullFails, EndCycle, Local
  <2> QED BY <1>3, <2>2
<1>9. ASSUME NEW c \in Connections, NEW e \in Edits, Commit(c, e)
      PROVE  disk' = cache'[1] /\ QueueAccounted'
  <2> DEFINE outbox == Append(cache[c].outbox, e)
             s == [cache[c] EXCEPT !.outbox = outbox]
  <2>1. Save(c, s) /\ made' = made \cup {e} /\ gone' = gone /\ c = 1
    BY <1>2, <1>9 DEF Commit
  <2>2. cache[c] \in StateType /\ cache[c].outbox \in Seq(Edits)
    BY <1>2 DEF StateType
  <2>3. ToSet(outbox) = ToSet(cache[c].outbox) \cup {e}
    BY <2>2, ToSetOf
  <2>4. s.outbox = outbox /\ s.quarantine = cache[c].quarantine
    BY <2>2 DEF StateType
  <2>5. disk' = s /\ cache'[1] = s
    BY <1>2, <2>1 DEF Save
  <2> HIDE DEF s, outbox
  <2>6. \A x : Retired(x) => Retired(x)'
    BY <1>1 DEF Retired
  <2> QED BY <1>1, <2>1, <2>3, <2>4, <2>5, <2>6 DEF QueueAccounted
<1>10. ASSUME NEW c \in Connections, NEW e \in Edits, Requeue(c, e) \/ Discard(c, e)
       PROVE  disk' = cache'[1] /\ QueueAccounted'
  BY <1>1, <1>10, QueueWrites
<1>11. ASSUME NEW c \in Connections, NEW p \in Revisions, RetryParked(c, p) \/ Unpark(c, p)
       PROVE  disk' = cache'[1] /\ QueueAccounted'
  <2>1. CASE Unpark(c, p)
    BY <1>1, <2>1, QueueWrites
  <2>2. CASE RetryParked(c, p)
    BY <1>3, <2>2 DEF RetryParked
  <2> QED BY <1>11, <2>1, <2>2
<1> QED BY <1>4, <1>5, <1>6, <1>7, <1>8, <1>9, <1>10, <1>11 DEF Next

(***************************************************************************)
(* No commit is lost: with one connection, each is queued, listed as       *)
(* dead-lettered, on the server or made redundant there, or discarded by   *)
(* the user, whatever requests, writes and processes fail on the way.      *)
(***************************************************************************)
THEOREM QueueCorrect ==
  ASSUME MaxConnections = 1
  PROVE  Spec => []QueueAccounted
<1>1. Init => QInv
  <2> SUFFICES ASSUME Init PROVE QInv
    OBVIOUS
  <2>1. IInv
    BY RunnerAssumption, Starts
  <2>2. disk = cache[1] /\ QueueAccounted
    BY DEF Init, Connections, QueueAccounted
  <2> QED BY <2>1, <2>2 DEF QInv
<1>2. QInv /\ [Next]_vars => QInv'
  <2> SUFFICES ASSUME QInv, [Next]_vars PROVE QInv'
    OBVIOUS
  <2>1. IInv'
    BY RunnerAssumption, StepKeeps DEF QInv
  <2>2. disk' = cache'[1] /\ QueueAccounted'
    BY RunnerAssumption, QueueStep
  <2> QED BY <2>1, <2>2 DEF QInv
<1>3. QInv => QueueAccounted
  BY DEF QInv
<1> QED BY <1>1, <1>2, <1>3, PTL DEF Spec
=============================================================================
