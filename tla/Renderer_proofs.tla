-------------------------- MODULE Renderer_proofs --------------------------
(***************************************************************************)
(* The layout engine keeps the promises of RenderState, whatever the walks *)
(* over documents (the constants of Renderer) answer, and writes what the  *)
(* document demands, if the walks keep the texts.                          *)
(***************************************************************************)
EXTENDS Renderer, Induction, SequenceTheorems

-----------------------------------------------------------------------------
(* The frames of the recursion over documents made of the elements E.       *)
Parts(E)  == [pre : Seq(E), prio : Seq(E), post : Seq(E)]
Marks     == [len : Nat, col : Nat, indents : Seq(State!Entries), didx : Nat, suppress : BOOLEAN]
DocFrames(E)   == [k : {"doc"}, todo : Seq(E), la : Seq(E)]
TrialFrames(E) == [k : {"trial"}, body : Seq(E), la : Seq(E), cands : Seq(Parts(E)),
                   post : BOOLEAN, cp : Marks]
Frames(E) == DocFrames(E) \cup TrialFrames(E)

MarkOf(f) == IF f.k = "trial" THEN <<f.cp>> ELSE <<>>

LEMMA MarkOfType == ASSUME NEW E, NEW f \in Frames(E) PROVE MarkOf(f) \in Seq(Marks)
<1>1. CASE f \in DocFrames(E)
  BY <1>1 DEF MarkOf, DocFrames
<1>2. CASE f \in TrialFrames(E)
  <2>1. f.cp \in Marks /\ f.k = "trial"
    BY <1>2 DEF TrialFrames
  <2>. QED BY <2>1 DEF MarkOf
<1>. QED BY <1>1, <1>2 DEF Frames

(* The checkpoints of a stack: a trial pushed adds its own behind the       *)
(* others, a document none.                                                 *)
LEMMA CheckpointsAppend ==
    ASSUME NEW E, NEW fs \in Seq(Frames(E)), NEW f \in Frames(E)
    PROVE  /\ Checkpoints(fs) \in Seq(Marks)
           /\ f \in TrialFrames(E) => Checkpoints(Append(fs, f)) = Append(Checkpoints(fs), f.cp)
           /\ f \in DocFrames(E)   => Checkpoints(Append(fs, f)) = Checkpoints(fs)
<1>. DEFINE marks == [i \in DOMAIN fs |-> MarkOf(fs[i])]
            more  == [i \in DOMAIN Append(fs, f) |-> MarkOf(Append(fs, f)[i])]
<1>1. Checkpoints(fs) = FlattenSeq(marks) /\ Checkpoints(Append(fs, f)) = FlattenSeq(more)
  BY DEF Checkpoints, MarkOf
<1>2. MarkOf(f) \in Seq(Marks) /\ \A i \in 1..Len(fs) : MarkOf(fs[i]) \in Seq(Marks)
  BY MarkOfType
<1>3. marks \in Seq(Seq(Marks)) /\ Len(marks) = Len(fs)
  BY <1>2
<1>4. more = Append(marks, MarkOf(f))
  <2>0. DOMAIN Append(fs, f) = 1..(Len(fs) + 1) /\ Len(fs) \in Nat
    OBVIOUS
  <2>1. more \in Seq(Seq(Marks)) /\ Len(more) = Len(fs) + 1
        /\ \A i \in 1..(Len(fs) + 1) : more[i] = MarkOf(Append(fs, f)[i])
    <3>1. \A i \in 1..(Len(fs) + 1) : MarkOf(Append(fs, f)[i]) \in Seq(Marks)
      BY <1>2
    <3>. QED BY <2>0, <3>1
  <2>. HIDE DEF more
  <2>2. Append(marks, MarkOf(f)) \in Seq(Seq(Marks)) /\ Len(Append(marks, MarkOf(f))) = Len(fs) + 1
    BY <1>2, <1>3
  <2>3. ASSUME NEW i \in 1..(Len(fs) + 1) PROVE more[i] = Append(marks, MarkOf(f))[i]
    <3>1. CASE i = Len(fs) + 1
      BY <1>3, <2>0, <2>1, <3>1
    <3>2. CASE i # Len(fs) + 1
      <4>1. i \in 1..Len(fs) /\ Append(fs, f)[i] = fs[i] /\ marks[i] = MarkOf(fs[i])
        BY <2>0, <3>2
      <4>. QED BY <1>3, <2>1, <4>1
    <3>. QED BY <3>1, <3>2
  <2>. QED BY <2>1, <2>2, <2>3, SeqEqual
<1>. HIDE DEF marks, more
<1>5. FlattenSeq(marks) \in Seq(Marks) /\ FlattenSeq(more) = FlattenSeq(marks) \o MarkOf(f)
  BY <1>2, <1>3, <1>4, FlattenAppend
<1>6. ASSUME f \in TrialFrames(E)
      PROVE  Checkpoints(Append(fs, f)) = Append(Checkpoints(fs), f.cp)
  <2>1. MarkOf(f) = <<f.cp>> /\ f.cp \in Marks
    BY <1>6 DEF MarkOf, TrialFrames
  <2>2. \A c \in Marks, t \in Seq(Marks) : t \o <<c>> = Append(t, c)
    OBVIOUS
  <2>. QED BY <1>1, <1>5, <2>1, <2>2
<1>7. ASSUME f \in DocFrames(E) PROVE Checkpoints(Append(fs, f)) = Checkpoints(fs)
  <2>1. MarkOf(f) = <<>>
    BY <1>7 DEF MarkOf, DocFrames
  <2>. QED BY <1>1, <1>5, <2>1, ConcatEmptySeq
<1>. QED BY <1>1, <1>5, <1>6, <1>7

LEMMA CheckpointsEmpty == Checkpoints(<<>>) = <<>>
<1>1. [i \in DOMAIN <<>> |-> IF <<>>[i].k = "trial" THEN <<(<<>>[i]).cp>> ELSE <<>>] = <<>>
  OBVIOUS
<1>. QED BY <1>1, FlattenEmpty DEF Checkpoints

-----------------------------------------------------------------------------
(* The output.                                                              *)

(* Writing leaves what was written in front. *)
LEMMA ConcatExtends ==
    ASSUME NEW X, NEW a \in Seq(X), NEW b \in Seq(X)
    PROVE  State!Extended(a, a \o b) /\ State!Extended(a, a)
  BY ConcatProperties DEF State!Extended

LEMMA ConcatBoth ==
    ASSUME NEW X, NEW a \in Seq(X), NEW b \in Seq(X), NEW c \in Seq(X)
    PROVE  a \o b \o c \in Seq(X) /\ State!Extended(a, a \o b \o c)
<1>1. b \o c \in Seq(X)
  BY ConcatProperties
<1>2. a \o b \o c = a \o (b \o c)
  BY ConcatAssociative
<1>3. a \o (b \o c) \in Seq(X) /\ State!Extended(a, a \o (b \o c))
  BY <1>1, ConcatExtends, ConcatProperties
<1>. QED BY <1>2, <1>3

(* What was in front of the output is what is in front of a longer one. *)
LEMMA CutExtended ==
    ASSUME NEW X, NEW a \in Seq(X), NEW b \in Seq(X), State!Extended(a, b),
           NEW n \in Nat, n <= Len(a)
    PROVE  SubSeq(b, 1, n) = SubSeq(a, 1, n)
<1>1. Len(a) \in Nat /\ Len(b) \in Nat /\ n <= Len(b) /\ \A i \in 1..n : a[i] = b[i] /\ a[i] \in X
  BY DEF State!Extended
<1>2. SubSeq(a, 1, n) \in Seq(X) /\ Len(SubSeq(a, 1, n)) = n
      /\ \A i \in 1..n : SubSeq(a, 1, n)[i] = a[i]
  BY <1>1, SubSeqProperties
<1>3. SubSeq(b, 1, n) \in Seq(X) /\ Len(SubSeq(b, 1, n)) = n
      /\ \A i \in 1..n : SubSeq(b, 1, n)[i] = b[i]
  BY <1>1, SubSeqProperties
<1>. QED BY <1>1, <1>2, <1>3, SeqEqual

(* A cut in front of a cut. *)
LEMMA CutCut ==
    ASSUME NEW X, NEW a \in Seq(X), NEW n \in Nat, n <= Len(a), NEW m \in Nat, m <= n
    PROVE  /\ SubSeq(a, 1, n) \in Seq(X) /\ Len(SubSeq(a, 1, n)) = n
           /\ SubSeq(SubSeq(a, 1, n), 1, m) = SubSeq(a, 1, m)
<1>1. SubSeq(a, 1, n) \in Seq(X) /\ Len(SubSeq(a, 1, n)) = n
      /\ \A i \in 1..n : SubSeq(a, 1, n)[i] = a[i]
  BY SubSeqProperties
<1>2. State!Extended(SubSeq(a, 1, n), a)
  BY <1>1 DEF State!Extended
<1>. QED BY <1>1, <1>2, CutExtended

-----------------------------------------------------------------------------
(* The indentation stack.                                                   *)
Based(s) == s \in Seq(State!Entries) /\ s # <<>> /\ s[1].nest = 0

(* A set of positions that is not empty has a last one. *)
LEMMA LastPosition ==
    ASSUME NEW n \in Nat, NEW T \in SUBSET (1..n), T # {}
    PROVE  \E k \in T : \A j \in T : j <= k
<1>. DEFINE R == {n - k : k \in T}
<1>1. R \in SUBSET Nat /\ R # {}
  <2>1. \A k \in T : n - k \in Nat
    OBVIOUS
  <2>2. PICK k \in T : TRUE
    OBVIOUS
  <2>3. n - k \in R
    OBVIOUS
  <2>. QED BY <2>1, <2>3
<1>2. PICK x \in R : \A y \in R : x <= y
  <2>. HIDE DEF R
  <2>. QED BY <1>1, LeastNat
<1>3. PICK k \in T : x = n - k
  BY <1>2
<1>4. \A j \in T : n - j \in R
  OBVIOUS
<1>. HIDE DEF R
<1>5. \A j \in T : j <= k
  BY <1>2, <1>3, <1>4
<1>. QED BY <1>5

(* Settling on a nesting is what RenderState promises of it. *)
LEMMA SettleSettles ==
    ASSUME IndentWidth \in Nat, Based(indents), NEW n \in Nat, NEW step \in {0, IndentWidth}
    PROVE  State!Settled(indents, Settle(n, step)) /\ Based(Settle(n, step))
<1>. DEFINE keep == {k \in DOMAIN indents : indents[k].nest <= n}
            k    == CHOOSE k \in keep : \A j \in keep : j <= k
            low  == SubSeq(indents, 1, k)
<1>1. Len(indents) \in Nat /\ Len(indents) >= 1 /\ DOMAIN indents = 1..Len(indents)
  BY DEF Based
<1>2. indents[1].nest = 0 /\ \A i \in 1..Len(indents) : indents[i] \in [indent : Nat, nest : Nat]
  <2>1. \A i \in 1..Len(indents) : indents[i] \in State!Entries
    BY DEF Based
  <2>. QED BY <2>1 DEF Based, State!Entries
<1>3. keep \in SUBSET (1..Len(indents)) /\ 1 \in keep
  BY <1>1, <1>2
<1>4. k \in keep /\ \A j \in keep : j <= k
  <2>. HIDE DEF keep
  <2>1. \E h \in keep : \A j \in keep : j <= h
    BY <1>1, <1>3, LastPosition
  <2>. QED BY <2>1
<1>. HIDE DEF k
<1>5. /\ k \in 1..Len(indents) /\ indents[k].nest <= n
      /\ \A j \in (k + 1)..Len(indents) : indents[j].nest > n
  <2>1. k \in 1..Len(indents) /\ indents[k].nest <= n
    BY <1>1, <1>4
  <2>2. ASSUME NEW j \in (k + 1)..Len(indents) PROVE indents[j].nest > n
    <3>1. j \in 1..Len(indents) /\ j > k /\ k \in Nat
      BY <2>1
    <3>2. ~(j \in keep)
      <4>. HIDE DEF keep
      <4>. QED BY <1>4, <3>1
    <3>3. ~(indents[j].nest <= n) /\ indents[j].nest \in Nat
      BY <1>1, <1>2, <3>1, <3>2
    <3>. QED BY <3>3
  <2>. QED BY <2>1, <2>2
<1>6. Popped(n) = low
  <2>1. keep # {}
    BY <1>3
  <2>2. Popped(n) = IF keep = {} THEN <<>> ELSE low
    BY DEF Popped, k
  <2>. QED BY <2>1, <2>2
<1>. HIDE DEF keep
<1>7. /\ low \in Seq(State!Entries) /\ Len(low) = k /\ low # <<>> /\ low[1].nest = 0
      /\ Last(low) = indents[k] /\ low[k] = indents[k]
  <2>1. indents \in Seq(State!Entries) /\ k \in Nat /\ k >= 1 /\ k <= Len(indents)
    BY <1>5 DEF Based
  <2>2. low \in Seq(State!Entries) /\ Len(low) = k /\ \A i \in 1..k : low[i] = indents[i]
    BY <2>1, SubSeqProperties
  <2>3. low # <<>>
    BY <2>1, <2>2
  <2>. HIDE DEF low
  <2>4. 1 \in 1..k /\ k \in 1..k
    BY <2>1
  <2>. QED BY <1>2, <2>2, <2>3, <2>4 DEF Last
<1>. HIDE DEF low
<1>. DEFINE e == Entry(indents[k].indent + step, n)
<1>8. Settle(n, step) = IF indents[k].nest = n THEN low ELSE Append(low, e)
  BY <1>6, <1>7 DEF Settle
<1>9. e \in State!Entries /\ e.nest = n /\ e = State!Entry(indents[k].indent + step, n)
  <2>1. indents[k].indent \in Nat /\ step \in Nat
    BY <1>2, <1>5
  <2>. QED BY <2>1 DEF Entry, State!Entry, State!Entries
<1>. HIDE DEF e
<1>10. CASE indents[k].nest = n
  <2>1. Settle(n, step) = low /\ low[Len(low)].nest = n
    BY <1>7, <1>8, <1>10
  <2>2. State!Settled(indents, low)
    <3>1. low = IF indents[k].nest = n THEN SubSeq(indents, 1, k)
                ELSE Append(SubSeq(indents, 1, k), State!Entry(indents[k].indent + step, n))
      BY <1>10 DEF low
    <3>. QED BY <1>5, <1>7, <2>1, <3>1 DEF State!Settled
  <2>. QED BY <1>7, <2>1, <2>2 DEF Based
<1>11. CASE indents[k].nest # n
  <2>1. Settle(n, step) = Append(low, e)
    BY <1>8, <1>11
  <2>. DEFINE new == Append(low, e)
  <2>2. /\ new \in Seq(State!Entries) /\ new # <<>> /\ Len(new) = k + 1 /\ new[Len(new)] = e
        /\ new[1] = low[1]
    <3>1. k \in Nat /\ k >= 1
      BY <1>5
    <3>. QED BY <1>7, <1>9, <3>1, AppendProperties
  <2>3. new = IF indents[k].nest = n THEN SubSeq(indents, 1, k)
              ELSE Append(SubSeq(indents, 1, k), State!Entry(indents[k].indent + step, n))
    BY <1>9, <1>11 DEF low
  <2>. HIDE DEF new
  <2>4. State!Settled(indents, new)
    BY <1>5, <1>9, <2>2, <2>3 DEF State!Settled
  <2>5. Based(new)
    BY <1>7, <2>2 DEF Based
  <2>. QED BY <2>1, <2>4, <2>5 DEF new
<1>. QED BY <1>10, <1>11

-----------------------------------------------------------------------------
(* The checkpoints, over the output `cells`: each holds a state outside     *)
(* disabled regions, and none was taken before the ones under it.           *)
MarksOK(cps, cells) ==
    /\ cps \in Seq(Marks)
    /\ \A i \in 1..Len(cps) : /\ cps[i].len <= Len(cells)
                              /\ Based(cps[i].indents) /\ ~cps[i].suppress
    /\ \A i, j \in 1..Len(cps) : i <= j => cps[i].len <= cps[j].len

(* The states saved are snapshots, one per checkpoint. *)
LEMMA SavedType ==
    ASSUME NEW cells \in Seq(Int), NEW cps, MarksOK(cps, cells)
    PROVE  /\ SavedIn(cells, cps) \in Seq(State!Snapshots) /\ Len(SavedIn(cells, cps)) = Len(cps)
           /\ \A i \in 1..Len(cps) : SavedIn(cells, cps)[i] = Snapshot(cells, cps[i])
<1>1. ASSUME NEW i \in 1..Len(cps) PROVE Snapshot(cells, cps[i]) \in State!Snapshots
  <2>1. cps[i] \in Marks /\ cps[i].len <= Len(cells) /\ Based(cps[i].indents)
    BY DEF MarksOK
  <2>2. cps[i].len \in Nat /\ cps[i].col \in Nat /\ cps[i].didx \in Nat /\ cps[i].suppress \in BOOLEAN
        /\ cps[i].indents \in Seq(State!Entries)
    BY <2>1 DEF Marks
  <2>3. SubSeq(cells, 1, cps[i].len) \in Seq(Int)
    BY <2>1, <2>2, CutCut
  <2>. QED BY <2>2, <2>3 DEF Snapshot, State!Snapshots
<1>2. cps \in Seq(Marks) /\ DOMAIN cps = 1..Len(cps) /\ Len(cps) \in Nat
  BY DEF MarksOK
<1>. DEFINE snap(i) == Snapshot(cells, cps[i])
<1>3. SavedIn(cells, cps) = [i \in 1..Len(cps) |-> snap(i)]
  BY <1>2 DEF SavedIn
<1>4. \A i \in 1..Len(cps) : snap(i) \in State!Snapshots
  BY <1>1
<1>. HIDE DEF snap
<1>5. SavedIn(cells, cps) \in Seq(State!Snapshots) /\ Len(SavedIn(cells, cps)) = Len(cps)
      /\ \A i \in 1..Len(cps) : SavedIn(cells, cps)[i] = snap(i)
  BY <1>2, <1>3, <1>4
<1>. QED BY <1>5 DEF snap

(* Two outputs save the same states if the checkpoints cut the same.        *)
LEMMA SavedSame ==
    ASSUME NEW cells \in Seq(Int), NEW more \in Seq(Int), NEW cps, MarksOK(cps, cells),
           MarksOK(cps, more),
           \A i \in 1..Len(cps) : SubSeq(more, 1, cps[i].len) = SubSeq(cells, 1, cps[i].len)
    PROVE  SavedIn(more, cps) = SavedIn(cells, cps)
<1>1. ASSUME NEW i \in 1..Len(cps) PROVE Snapshot(more, cps[i]) = Snapshot(cells, cps[i])
  BY DEF Snapshot
<1>. QED BY <1>1, SavedType, SeqEqual

(* Writing keeps every checkpoint and what it stands for. *)
LEMMA MarksExtended ==
    ASSUME NEW cells \in Seq(Int), NEW more \in Seq(Int), State!Extended(cells, more),
           NEW cps, MarksOK(cps, cells)
    PROVE  MarksOK(cps, more) /\ SavedIn(more, cps) = SavedIn(cells, cps)
<1>1. Len(cells) \in Nat /\ Len(more) \in Nat /\ Len(cells) <= Len(more)
  BY DEF State!Extended
<1>2. ASSUME NEW i \in 1..Len(cps)
      PROVE  cps[i].len \in Nat /\ cps[i].len <= Len(cells) /\ cps[i].len <= Len(more)
  <2>1. cps[i] \in Marks /\ cps[i].len <= Len(cells)
    BY DEF MarksOK
  <2>2. cps[i].len \in Nat
    BY <2>1 DEF Marks
  <2>. QED BY <1>1, <2>1, <2>2
<1>3. MarksOK(cps, more)
  BY <1>2 DEF MarksOK
<1>4. \A i \in 1..Len(cps) : SubSeq(more, 1, cps[i].len) = SubSeq(cells, 1, cps[i].len)
  BY <1>2, CutExtended
<1>. QED BY <1>3, <1>4, SavedSame

(* Rolling back to the newest checkpoint keeps them all as well. *)
LEMMA MarksCut ==
    ASSUME NEW cells \in Seq(Int), NEW cps, MarksOK(cps, cells), Len(cps) >= 1,
           NEW cut, cut = SubSeq(cells, 1, cps[Len(cps)].len)
    PROVE  cut \in Seq(Int) /\ MarksOK(cps, cut) /\ SavedIn(cut, cps) = SavedIn(cells, cps)
<1>1. Len(cps) \in Nat /\ Len(cps) \in 1..Len(cps)
  BY DEF MarksOK
<1>. DEFINE n == cps[Len(cps)].len
<1>2. ASSUME NEW i \in 1..Len(cps)
      PROVE  cps[i].len \in Nat /\ cps[i].len <= n /\ cps[i].len <= Len(cells)
  <2>1. cps[i] \in Marks /\ cps[i].len <= Len(cells) /\ i <= Len(cps)
    BY <1>1 DEF MarksOK
  <2>2. cps[i].len \in Nat
    BY <2>1 DEF Marks
  <2>. QED BY <1>1, <2>1, <2>2 DEF MarksOK
<1>3. n \in Nat /\ n <= Len(cells)
  BY <1>1, <1>2
<1>. HIDE DEF n
<1>4. cut \in Seq(Int) /\ Len(cut) = n
      /\ \A i \in 1..Len(cps) : SubSeq(cut, 1, cps[i].len) = SubSeq(cells, 1, cps[i].len)
  <2>1. cut = SubSeq(cells, 1, n)
    BY DEF n
  <2>. QED BY <1>2, <1>3, <2>1, CutCut
<1>5. MarksOK(cps, cut)
  BY <1>2, <1>4 DEF MarksOK
<1>. QED BY <1>4, <1>5, SavedSame

(* A checkpoint taken now stands for the state as it is. *)
LEMMA MarksPush ==
    ASSUME NEW cells \in Seq(Int), NEW cps, MarksOK(cps, cells), NEW cp \in Marks,
           cp.len = Len(cells), Based(cp.indents), ~cp.suppress
    PROVE  /\ MarksOK(Append(cps, cp), cells)
           /\ SavedIn(cells, Append(cps, cp)) = Append(SavedIn(cells, cps), Snapshot(cells, cp))
<1>. DEFINE n == Len(cps)
            new == Append(cps, cp)
<1>1. /\ n \in Nat /\ new \in Seq(Marks) /\ Len(new) = n + 1 /\ new[n + 1] = cp
      /\ \A i \in 1..n : new[i] = cps[i]
  BY DEF MarksOK
<1>. HIDE DEF new
<1>2. \A i \in 1..n : cps[i].len <= Len(cells) /\ Based(cps[i].indents) /\ ~cps[i].suppress
  BY DEF MarksOK
<1>3. \A i, j \in 1..n : i <= j => cps[i].len <= cps[j].len
  BY DEF MarksOK
<1>4. Len(cells) \in Nat
  OBVIOUS
<1>5. ASSUME NEW i \in 1..(n + 1)
      PROVE  new[i].len <= Len(cells) /\ Based(new[i].indents) /\ ~new[i].suppress
  <2>1. CASE i = n + 1
    BY <1>1, <1>4, <2>1
  <2>2. CASE i # n + 1
    <3>1. i \in 1..n
      BY <1>1, <2>2
    <3>. QED BY <1>1, <1>2, <3>1
  <2>. QED BY <2>1, <2>2
<1>6. ASSUME NEW i \in 1..(n + 1), NEW j \in 1..(n + 1), i <= j PROVE new[i].len <= new[j].len
  <2>1. CASE j = n + 1
    BY <1>1, <1>5, <2>1
  <2>2. CASE j # n + 1
    <3>1. i \in 1..n /\ j \in 1..n
      BY <1>1, <1>6, <2>2
    <3>. QED BY <1>1, <1>3, <1>6, <3>1
  <2>. QED BY <2>1, <2>2
<1>7. MarksOK(new, cells)
  BY <1>1, <1>5, <1>6 DEF MarksOK
<1>. HIDE DEF n
<1>8. /\ SavedIn(cells, new) \in Seq(State!Snapshots) /\ Len(SavedIn(cells, new)) = n + 1
      /\ \A i \in 1..(n + 1) : SavedIn(cells, new)[i] = Snapshot(cells, new[i])
  BY <1>1, <1>7, SavedType
<1>9. /\ SavedIn(cells, cps) \in Seq(State!Snapshots) /\ Len(SavedIn(cells, cps)) = n
      /\ \A i \in 1..n : SavedIn(cells, cps)[i] = Snapshot(cells, cps[i])
  BY SavedType DEF n
<1>10. Snapshot(cells, cp) \in State!Snapshots
  <2>1. n + 1 \in 1..(n + 1)
    BY <1>1
  <2>. QED BY <1>1, <1>8, <2>1, ElementOfSeq
<1>11. SavedIn(cells, new) = Append(SavedIn(cells, cps), Snapshot(cells, cp))
  <2>1. /\ Append(SavedIn(cells, cps), Snapshot(cells, cp)) \in Seq(State!Snapshots)
        /\ Len(Append(SavedIn(cells, cps), Snapshot(cells, cp))) = n + 1
        /\ \A i \in 1..n : Append(SavedIn(cells, cps), Snapshot(cells, cp))[i] = Snapshot(cells, cps[i])
        /\ Append(SavedIn(cells, cps), Snapshot(cells, cp))[n + 1] = Snapshot(cells, cp)
    BY <1>9, <1>10, AppendProperties
  <2>2. ASSUME NEW i \in 1..(n + 1)
        PROVE  SavedIn(cells, new)[i] = Append(SavedIn(cells, cps), Snapshot(cells, cp))[i]
    <3>1. CASE i = n + 1
      BY <1>1, <1>8, <2>1, <3>1
    <3>2. CASE i # n + 1
      <4>1. i \in 1..n
        BY <1>1, <3>2
      <4>. QED BY <1>1, <1>8, <2>1, <4>1
    <3>. QED BY <3>1, <3>2
  <2>. QED BY <1>8, <2>1, <2>2, SeqEqual
<1>. QED BY <1>7, <1>11 DEF new

(* Without the newest checkpoint the others stay. *)
LEMMA MarksPop ==
    ASSUME NEW cells \in Seq(Int), NEW rest \in Seq(Marks), NEW cp \in Marks,
           MarksOK(Append(rest, cp), cells)
    PROVE  LET saved == SavedIn(cells, Append(rest, cp)) IN
           /\ MarksOK(rest, cells)
           /\ saved # <<>> /\ saved[Len(saved)] = Snapshot(cells, cp)
           /\ SavedIn(cells, rest) = SubSeq(saved, 1, Len(saved) - 1)
<1>. DEFINE n == Len(rest)
            new == Append(rest, cp)
<1>1. /\ n \in Nat /\ new \in Seq(Marks) /\ Len(new) = n + 1 /\ new[n + 1] = cp
      /\ \A i \in 1..n : new[i] = rest[i]
  OBVIOUS
<1>2. MarksOK(new, cells)
  OBVIOUS
<1>. HIDE DEF new
<1>3. \A i \in 1..n : i \in 1..(n + 1)
  BY <1>1
<1>4. MarksOK(rest, cells)
  BY <1>1, <1>2, <1>3 DEF MarksOK
<1>5. /\ SavedIn(cells, new) \in Seq(State!Snapshots) /\ Len(SavedIn(cells, new)) = n + 1
      /\ \A i \in 1..(n + 1) : SavedIn(cells, new)[i] = Snapshot(cells, new[i])
  BY <1>1, <1>2, SavedType
<1>6. /\ SavedIn(cells, rest) \in Seq(State!Snapshots) /\ Len(SavedIn(cells, rest)) = n
      /\ \A i \in 1..n : SavedIn(cells, rest)[i] = Snapshot(cells, rest[i])
  BY <1>4, SavedType
<1>. HIDE DEF n
<1>7. SavedIn(cells, new) # <<>> /\ SavedIn(cells, new)[n + 1] = Snapshot(cells, cp)
  BY <1>1, <1>5
<1>8. SavedIn(cells, rest) = SubSeq(SavedIn(cells, new), 1, n)
  <2>1. n <= Len(SavedIn(cells, new)) /\ \A i \in 1..n : SavedIn(cells, new)[i] \in State!Snapshots
    BY <1>1, <1>3, <1>5, ElementOfSeq
  <2>2. /\ SubSeq(SavedIn(cells, new), 1, n) \in Seq(State!Snapshots)
        /\ Len(SubSeq(SavedIn(cells, new), 1, n)) = n
        /\ \A i \in 1..n : SubSeq(SavedIn(cells, new), 1, n)[i] = SavedIn(cells, new)[i]
    BY <1>1, <2>1, SubSeqProperties
  <2>. QED BY <1>1, <1>3, <1>5, <1>6, <2>2, SeqEqual
<1>. QED BY <1>1, <1>4, <1>5, <1>7, <1>8 DEF new

-----------------------------------------------------------------------------
(* The documents and the walks over them.                                   *)

Setting(E) == Elements(E) /\ WalksTyped(E, Seq(E))

(* The documents to lay out are made of the elements. *)
Laid(E) == \A d \in Docs : FixedUp(d) \in Seq(E) /\ Group("Regular", FixedUp(d)) \in E

Leafs(E) == {e \in E : ~IsGroup(e)}

(* An element is a text, a spacing or a group, and only one of them. *)
LEMMA ElementKinds ==
    ASSUME NEW E, Elements(E), NEW e \in E
    PROVE  /\ IsText(e) => /\ e.kind \in TextKinds /\ e.txt \in Seq(Int)
                           /\ e.nest \in Nat /\ e.off \in Nat
           /\ IsSpacing(e) => e.sp \in Spacings
           /\ IsGroup(e) => e.body \in Seq(E)
           /\ IsText(e) \/ IsSpacing(e) \/ IsGroup(e)
           /\ ~(IsText(e) /\ IsSpacing(e)) /\ ~(IsText(e) /\ IsGroup(e)) /\ ~(IsSpacing(e) /\ IsGroup(e))
  BY DEF Elements, IsText, IsSpacing, IsGroup

LEMMA TextWidthType ==
    ASSUME NEW E, Elements(E), NEW e \in E, IsText(e)
    PROVE  TextWidth(e) \in Nat
<1>1. e.txt \in Seq(Int)
  BY ElementKinds
<1>. QED BY <1>1, LenProperties DEF TextWidth

-----------------------------------------------------------------------------
(* The probe of a group on one line.                                        *)
FitStates == [ok : BOOLEAN, delta : Int, budget : Int, width : Nat, pending : Int, out : Seq(Int)]

LEMMA SpendType ==
    ASSUME NEW st \in FitStates, NEW w \in Nat, NEW cells \in Seq(Int)
    PROVE  /\ Spend(st, w, cells) \in FitStates
           /\ Spend(st, w, cells).out = st.out \o cells
           /\ Spend(st, w, cells).pending = st.pending
<1>1. /\ st.budget - w \in Int /\ st.delta - w \in Int /\ st.width + w \in Nat
      /\ st.out \o cells \in Seq(Int) /\ st.ok \in BOOLEAN /\ st.pending \in Int
  BY ConcatProperties DEF FitStates
<1>. DEFINE s == [st EXCEPT !.budget = @ - w, !.delta = @ - w, !.width = @ + w, !.out = @ \o cells]
<1>2. s \in FitStates /\ s.out = st.out \o cells /\ s.pending = st.pending
  BY <1>1 DEF FitStates
<1>3. Spend(st, w, cells) = IF s.budget < 0 THEN FitFail(s) ELSE s
  BY DEF Spend
<1>. HIDE DEF s
<1>4. FitFail(s) \in FitStates /\ FitFail(s).out = s.out /\ FitFail(s).pending = s.pending
  BY <1>2 DEF FitFail, FitStates
<1>. QED BY <1>2, <1>3, <1>4

LEMMA UncountedType ==
    ASSUME NEW st \in FitStates, NEW w \in Nat, NEW cells \in Seq(Int)
    PROVE  Uncounted(st, w, cells) \in FitStates /\ Uncounted(st, w, cells).out = st.out \o cells
<1>1. st.width + w \in Nat /\ st.out \o cells \in Seq(Int)
  BY ConcatProperties DEF FitStates
<1>. QED BY <1>1 DEF Uncounted, FitStates

(* A pending spacing writes white cells at most. *)
LEMMA FitPendingType ==
    ASSUME NEW st \in FitStates
    PROVE  /\ FitPending(st) \in FitStates
           /\ FitPending(st).ok =>
                \E gap \in {<<>>, <<SoftGap>>, <<Blank>>} : FitPending(st).out = st.out \o gap
<1>. DEFINE s == [st EXCEPT !.pending = NoSpacing]
<1>1. s \in FitStates /\ s.out = st.out
  BY DEF FitStates, NoSpacing
<1>2. FitPending(st) = s \/ FitPending(st) = Spend(s, 1, <<SoftGap>>)
      \/ FitPending(st) = Spend(s, 1, <<Blank>>) \/ FitPending(st) = FitFail(s)
  BY DEF FitPending
<1>. HIDE DEF s
<1>3. CASE FitPending(st) = s
  <2>1. st.out \o <<>> = st.out
    BY ConcatEmptySeq DEF FitStates
  <2>. QED BY <1>1, <1>3, <2>1
<1>4. CASE FitPending(st) = Spend(s, 1, <<SoftGap>>)
  <2>1. <<SoftGap>> \in Seq(Int)
    BY DEF SoftGap
  <2>. DEFINE gap == <<SoftGap>>
  <2>. HIDE DEF gap
  <2>2. Spend(s, 1, gap) \in FitStates /\ Spend(s, 1, gap).out = s.out \o gap
    BY <1>1, <2>1, SpendType DEF gap
  <2>. QED BY <1>1, <1>4, <2>2 DEF gap
<1>5. CASE FitPending(st) = Spend(s, 1, <<Blank>>)
  <2>1. <<Blank>> \in Seq(Int)
    BY DEF Blank
  <2>. DEFINE gap == <<Blank>>
  <2>. HIDE DEF gap
  <2>2. Spend(s, 1, gap) \in FitStates /\ Spend(s, 1, gap).out = s.out \o gap
    BY <1>1, <2>1, SpendType DEF gap
  <2>. QED BY <1>1, <1>5, <2>2 DEF gap
<1>6. CASE FitPending(st) = FitFail(s)
  BY <1>1, <1>6 DEF FitFail, FitStates
<1>. QED BY <1>2, <1>3, <1>4, <1>5, <1>6

(* A text writes its letters, behind a blank at most; a Trailing text       *)
(* nothing, and no directive fits.                                          *)
LEMMA FitTextType ==
    ASSUME NEW E, Elements(E), NEW e \in E, IsText(e), NEW st \in FitStates
    PROVE  /\ FitText(st, e) \in FitStates
           /\ FitText(st, e).ok =>
                /\ e.kind # "Directive"
                /\ e.kind = "Trailing" => FitText(st, e).out = st.out
                /\ e.kind # "Trailing" => \E gap \in {<<>>, <<Blank>>} :
                                            FitText(st, e).out = st.out \o (gap \o e.txt)
<1>1. e.kind \in TextKinds /\ e.txt \in Seq(Int) /\ TextWidth(e) \in Nat
  BY ElementKinds, TextWidthType
<1>2. <<Blank>> \o e.txt \in Seq(Int) /\ <<>> \o e.txt = e.txt /\ <<Blank>> \in Seq(Int)
  <2>1. <<Blank>> \in Seq(Int)
    BY DEF Blank
  <2>. QED BY <1>1, <2>1, ConcatProperties, ConcatEmptySeq
<1>. DEFINE w == TextWidth(e)
            letters == e.txt
            behind == <<Blank>> \o e.txt
<1>3. w \in Nat /\ w + 1 \in Nat /\ letters \in Seq(Int) /\ behind \in Seq(Int)
  BY <1>1, <1>2
<1>4. Spend(st, w, letters) \in FitStates /\ Spend(st, w, letters).out = st.out \o letters
  <2>. HIDE DEF w, letters
  <2>. QED BY <1>3, SpendType
<1>5. Uncounted(st, w, letters) \in FitStates /\ Uncounted(st, w, letters).out = st.out \o letters
  <2>. HIDE DEF w, letters
  <2>. QED BY <1>3, UncountedType
<1>6. Uncounted(st, w + 1, behind) \in FitStates /\ Uncounted(st, w + 1, behind).out = st.out \o behind
  <2>. HIDE DEF w, behind
  <2>. QED BY <1>3, UncountedType
<1>7. <<>> \o letters = letters
  BY <1>2
<1>8. CASE e.kind = "Regular"
  <2>1. FitText(st, e) = Spend(st, w, letters)
    BY <1>8 DEF FitText
  <2>. HIDE DEF w, letters
  <2>2. FitText(st, e) \in FitStates /\ FitText(st, e).out = st.out \o (<<>> \o letters)
    BY <1>4, <1>7, <2>1
  <2>. QED BY <1>8, <2>2 DEF letters
<1>9. CASE e.kind = "Comment"
  <2>1. FitText(st, e) = Uncounted(st, w, letters)
    BY <1>9 DEF FitText
  <2>. HIDE DEF w, letters
  <2>2. FitText(st, e) \in FitStates /\ FitText(st, e).out = st.out \o (<<>> \o letters)
    BY <1>5, <1>7, <2>1
  <2>. QED BY <1>9, <2>2 DEF letters
<1>10. CASE e.kind = "TrailingComment"
  <2>1. FitText(st, e) = Uncounted(st, w + 1, behind) \/ FitText(st, e) = Uncounted(st, w, letters)
    BY <1>10 DEF FitText
  <2>2. behind = <<Blank>> \o letters
    OBVIOUS
  <2>. HIDE DEF w, letters, behind
  <2>3. FitText(st, e) \in FitStates
    BY <1>5, <1>6, <2>1
  <2>4. \/ FitText(st, e).out = st.out \o (<<Blank>> \o letters)
        \/ FitText(st, e).out = st.out \o (<<>> \o letters)
    BY <1>5, <1>6, <1>7, <2>1, <2>2
  <2>. QED BY <1>10, <2>3, <2>4 DEF letters
<1>11. CASE e.kind = "Trailing"
  BY <1>11 DEF FitText
<1>12. CASE e.kind = "Directive"
  <2>1. FitText(st, e) = [st EXCEPT !.ok = FALSE]
    BY <1>12 DEF FitText, FitFail
  <2>2. [st EXCEPT !.ok = FALSE] \in FitStates /\ [st EXCEPT !.ok = FALSE].ok = FALSE
    BY DEF FitStates
  <2>. QED BY <2>1, <2>2
<1>. QED BY <1>1, <1>8, <1>9, <1>10, <1>11, <1>12 DEF TextKinds

LEMMA JoinType == ASSUME NEW p \in Int, NEW s \in Spacings PROVE Join(p, s) \in Int
  BY DEF Join, Merge, MergeOrdered, Spacings, NoSpacing, IsNewlines, Count, Newlines, Break, Space,
         Softspace, Hardspace, Softbreak, Hardline, Emptyline

LEMMA FitStepType ==
    ASSUME NEW E, Elements(E), NEW e \in Leafs(E), NEW st \in FitStates
    PROVE  FitStep(st, e) \in FitStates
<1>1. e \in E /\ (IsText(e) \/ IsSpacing(e)) /\ ~(IsText(e) /\ IsSpacing(e))
  BY ElementKinds DEF Leafs
<1>2. CASE ~st.ok
  BY <1>2 DEF FitStep
<1>3. CASE st.ok /\ IsSpacing(e)
  <2>1. FitStep(st, e) = [st EXCEPT !.pending = Join(@, e.sp)]
    BY <1>1, <1>3 DEF FitStep
  <2>2. Join(st.pending, e.sp) \in Int
    BY <1>1, <1>3, ElementKinds, JoinType DEF FitStates
  <2>. QED BY <2>1, <2>2 DEF FitStates
<1>4. CASE st.ok /\ IsText(e)
  <2>1. FitStep(st, e) = IF FitPending(st).ok THEN FitText(FitPending(st), e) ELSE FitPending(st)
    BY <1>1, <1>4 DEF FitStep
  <2>. QED BY <1>1, <1>4, <2>1, FitPendingType, FitTextType
<1>5. st.ok \in BOOLEAN
  BY DEF FitStates
<1>. QED BY <1>1, <1>2, <1>3, <1>4, <1>5

(* The values of a run stay in S when the steps do. *)
LEMMA RunTyped ==
    ASSUME NEW n \in Nat, n >= 1, NEW S, NEW g, g = [i \in 1..n |-> g[i]], g[1] \in S,
           \A p \in 1..n : g[p] \in S /\ p + 1 <= n => g[p + 1] \in S
    PROVE  g \in [1..n -> S]
<1>. DEFINE T == {p \in 1..n : g[p] \in S}
<1>1. 1 \in T /\ \A p \in 1..n : p \in T /\ p + 1 <= n => p + 1 \in T
  OBVIOUS
<1>2. 1..n \subseteq T
  <2>. HIDE DEF T
  <2>. QED BY <1>1, IntervalInd
<1>. QED BY <1>2

FitStart(delta, budget) ==
    [ok |-> budget >= 0, delta |-> delta, budget |-> budget,
     width |-> 0, pending |-> NoSpacing, out |-> <<>>]
FitRun(f, delta, budget, ls) ==
    /\ f[1] = FitStart(delta, budget)
    /\ \A p \in 1..Len(ls) : f[p + 1] = FitStep(f[p], ls[p])

(* A probe runs through the leaves one by one. *)
LEMMA FitsRuns ==
    ASSUME NEW E, Elements(E), NEW delta \in Int, NEW budget \in Int,
           NEW chain, LeavesOf(chain) \in Seq(Leafs(E))
    PROVE  \E f \in [1..(Len(LeavesOf(chain)) + 1) -> FitStates] :
             /\ FitRun(f, delta, budget, LeavesOf(chain))
             /\ LET end == f[Len(LeavesOf(chain)) + 1]
                IN Fits(delta, budget, chain) = IF end.ok THEN FitPending(end) ELSE end
<1>. DEFINE ls == LeavesOf(chain)
            n  == Len(ls) + 1
            start == FitStart(delta, budget)
            step  == [x \in FitStates \X (1..n) |->
                        IF x[2] = 1 THEN x[1] ELSE FitStep(x[1], ls[x[2] - 1])]
            Rec(f) == f = [i \in 1..n |-> IF i = 1 THEN start ELSE FitStep(f[i - 1], ls[i - 1])]
            g == CHOOSE h : Rec(h)
<1>0. n \in Nat /\ n >= 1 /\ \A i \in 1..n : i # 1 => ls[i - 1] \in Leafs(E)
  OBVIOUS
<1>1. Fits(delta, budget, chain) = IF g[n].ok THEN FitPending(g[n]) ELSE g[n]
  BY DEF Fits, FitStart
<1>. HIDE DEF n
<1>2. start \in FitStates
  BY DEF FitStart, FitStates, NoSpacing
<1>. HIDE DEF start
<1>3. step \in [FitStates \X (1..n) -> FitStates]
  <2>1. ASSUME NEW x \in FitStates \X (1..n), x[2] # 1
        PROVE  FitStep(x[1], ls[x[2] - 1]) \in FitStates
    BY <1>0, <2>1, FitStepType
  <2>. QED BY <2>1
<1>4. PICK f \in [1..n -> FitStates] : IsRecursive(f, n, start, step)
  <2>. HIDE DEF step
  <2>1. HasRecursive(n, FitStates, start, step)
    BY <1>0, <1>2, <1>3, RecursionExists
  <2>. QED BY <2>1 DEF HasRecursive
<1>5. Rec(f)
  <2>1. ASSUME NEW p \in 1..n, p # 1 PROVE step[<<f[p - 1], p>>] = FitStep(f[p - 1], ls[p - 1])
    <3>1. p - 1 \in 1..n
      BY <1>0, <2>1
    <3>2. f[p - 1] \in FitStates
      BY <3>1
    <3>. QED BY <2>1, <3>2
  <2>2. \A p \in 1..n : f[p] = IF p = 1 THEN start ELSE FitStep(f[p - 1], ls[p - 1])
    <3>. HIDE DEF step
    <3>. QED BY <1>4, <2>1 DEF IsRecursive
  <2>. HIDE DEF step
  <2>. QED BY <2>2
<1>6. Rec(g)
  <2>. HIDE DEF Rec
  <2>. QED BY <1>5
<1>. HIDE DEF g, ls
<1>7. g[1] = start /\ \A p \in 1..n : p + 1 <= n => g[p + 1] = FitStep(g[p], ls[p])
  <2>1. g = [i \in 1..n |-> IF i = 1 THEN start ELSE FitStep(g[i - 1], ls[i - 1])]
    BY <1>6
  <2>2. g[1] = start
    BY <1>0, <2>1
  <2>3. ASSUME NEW p \in 1..n, p + 1 <= n PROVE g[p + 1] = FitStep(g[p], ls[p])
    <3>1. p + 1 \in 1..n /\ p + 1 # 1 /\ (p + 1) - 1 = p
      BY <1>0, <2>3
    <3>. QED BY <2>1, <3>1
  <2>. QED BY <2>2, <2>3
<1>8. g \in [1..n -> FitStates]
  <2>1. g = [i \in 1..n |-> g[i]]
    BY <1>6
  <2>2. ASSUME NEW p \in 1..n, g[p] \in FitStates, p + 1 <= n PROVE g[p + 1] \in FitStates
    <3>1. p + 1 \in 1..n /\ p + 1 # 1 /\ (p + 1) - 1 = p
      BY <1>0, <2>2
    <3>2. ls[p] \in Leafs(E)
      BY <1>0, <3>1
    <3>. QED BY <1>7, <2>2, <3>2, FitStepType
  <2>. QED BY <1>0, <1>2, <1>7, <2>1, <2>2, RunTyped
<1>9. FitRun(g, delta, budget, ls)
  <2>1. ASSUME NEW p \in 1..Len(ls) PROVE g[p + 1] = FitStep(g[p], ls[p])
    <3>1. p \in 1..n /\ p + 1 <= n
      BY <1>0 DEF n
    <3>. QED BY <1>7, <3>1
  <2>. QED BY <1>7, <2>1 DEF FitRun, start
<1>. QED BY <1>1, <1>8, <1>9 DEF n, ls

LEMMA FitsType ==
    ASSUME NEW E, Elements(E), NEW delta \in Int, NEW budget \in Int,
           NEW chain, LeavesOf(chain) \in Seq(Leafs(E))
    PROVE  Fits(delta, budget, chain) \in FitStates
<1>. DEFINE n == Len(LeavesOf(chain)) + 1
<1>1. PICK f \in [1..n -> FitStates] :
        LET end == f[n] IN Fits(delta, budget, chain) = IF end.ok THEN FitPending(end) ELSE end
  BY FitsRuns
<1>2. n \in 1..n
  BY LenProperties
<1>. HIDE DEF n
<1>3. f[n] \in FitStates
  BY <1>2
<1>. QED BY <1>1, <1>3, FitPendingType

(* The width of the first line is a number of columns. *)
LineStates == [stop : BOOLEAN, width : Nat, pending : Int]

LEMMA LineStepType ==
    ASSUME NEW E, Elements(E), NEW e \in Leafs(E), NEW st \in LineStates
    PROVE  LineStep(st, e) \in LineStates
<1>1. e \in E /\ (IsText(e) \/ IsSpacing(e)) /\ ~(IsText(e) /\ IsSpacing(e)) /\ st.stop \in BOOLEAN
  BY ElementKinds DEF Leafs, LineStates
<1>2. CASE st.stop
  BY <1>2 DEF LineStep
<1>3. CASE ~st.stop /\ IsSpacing(e)
  <2>1. LineStep(st, e) = [st EXCEPT !.pending = Join(@, e.sp)]
    BY <1>1, <1>3 DEF LineStep
  <2>2. Join(st.pending, e.sp) \in Int
    BY <1>1, <1>3, ElementKinds, JoinType DEF LineStates
  <2>. QED BY <2>1, <2>2 DEF LineStates
<1>4. CASE ~st.stop /\ IsText(e)
  <2>. DEFINE gap == IF st.pending = Hardspace THEN 1 ELSE 0
              letters == IF e.kind \in {"Regular", "Trailing"} THEN TextWidth(e) ELSE 0
  <2>1. LineStep(st, e) = IF st.pending \notin {NoSpacing, Hardspace} THEN [st EXCEPT !.stop = TRUE]
                          ELSE [st EXCEPT !.pending = NoSpacing, !.width = @ + gap + letters]
    BY <1>1, <1>4 DEF LineStep
  <2>2. gap \in Nat /\ letters \in Nat
    BY <1>1, <1>4, TextWidthType
  <2>. HIDE DEF gap, letters
  <2>3. st.width + gap + letters \in Nat /\ NoSpacing \in Int
    BY <2>2 DEF LineStates, NoSpacing
  <2>. QED BY <2>1, <2>3 DEF LineStates
<1>. QED BY <1>1, <1>2, <1>3, <1>4

LEMMA LineWidthType ==
    ASSUME NEW E, Elements(E), NEW chain, LeavesOf(chain) \in Seq(Leafs(E))
    PROVE  FirstLineWidth(chain) \in Nat
<1>. DEFINE ls == LeavesOf(chain)
            n  == Len(ls) + 1
            start == [stop |-> FALSE, width |-> 0, pending |-> NoSpacing]
            step  == [x \in LineStates \X (1..n) |->
                        IF x[2] = 1 THEN x[1] ELSE LineStep(x[1], ls[x[2] - 1])]
            Rec(f) == f = [i \in 1..n |-> IF i = 1 THEN start ELSE LineStep(f[i - 1], ls[i - 1])]
            g == CHOOSE h : Rec(h)
<1>0. n \in Nat /\ n >= 1 /\ \A i \in 1..n : i # 1 => ls[i - 1] \in Leafs(E)
  OBVIOUS
<1>1. FirstLineWidth(chain) = IF ~g[n].stop /\ g[n].pending = Hardspace
                              THEN g[n].width + 1 ELSE g[n].width
  BY DEF FirstLineWidth
<1>. HIDE DEF n
<1>2. start \in LineStates
  BY DEF LineStates, NoSpacing
<1>. HIDE DEF start
<1>3. step \in [LineStates \X (1..n) -> LineStates]
  <2>1. ASSUME NEW x \in LineStates \X (1..n), x[2] # 1
        PROVE  LineStep(x[1], ls[x[2] - 1]) \in LineStates
    BY <1>0, <2>1, LineStepType
  <2>. QED BY <2>1
<1>4. PICK f \in [1..n -> LineStates] : IsRecursive(f, n, start, step)
  <2>. HIDE DEF step
  <2>1. HasRecursive(n, LineStates, start, step)
    BY <1>0, <1>2, <1>3, RecursionExists
  <2>. QED BY <2>1 DEF HasRecursive
<1>5. Rec(f)
  <2>1. ASSUME NEW p \in 1..n, p # 1 PROVE step[<<f[p - 1], p>>] = LineStep(f[p - 1], ls[p - 1])
    <3>1. p - 1 \in 1..n
      BY <1>0, <2>1
    <3>2. f[p - 1] \in LineStates
      BY <3>1
    <3>. QED BY <2>1, <3>2
  <2>2. \A p \in 1..n : f[p] = IF p = 1 THEN start ELSE LineStep(f[p - 1], ls[p - 1])
    <3>. HIDE DEF step
    <3>. QED BY <1>4, <2>1 DEF IsRecursive
  <2>. HIDE DEF step
  <2>. QED BY <2>2
<1>6. Rec(g)
  <2>. HIDE DEF Rec
  <2>. QED BY <1>5
<1>. HIDE DEF g, ls
<1>7. g \in [1..n -> LineStates]
  <2>1. g = [i \in 1..n |-> g[i]] /\ g[1] = start
    BY <1>0, <1>6
  <2>2. ASSUME NEW p \in 1..n, g[p] \in LineStates, p + 1 <= n PROVE g[p + 1] \in LineStates
    <3>1. p + 1 \in 1..n /\ p + 1 # 1 /\ (p + 1) - 1 = p
      BY <1>0, <2>2
    <3>2. ls[p] \in Leafs(E) /\ g[p + 1] = LineStep(g[p], ls[p])
      BY <1>0, <1>6, <3>1
    <3>. QED BY <2>2, <3>2, LineStepType
  <2>. QED BY <1>0, <1>2, <2>1, <2>2, RunTyped
<1>8. g[n] \in LineStates
  BY <1>0, <1>7
<1>. QED BY <1>1, <1>8 DEF LineStates

-----------------------------------------------------------------------------
(* What a step of the engine writes.                                        *)

RenderOK == /\ out \in Seq(Int) /\ col \in Nat /\ Based(indents)
            /\ didx \in Nat /\ suppress \in BOOLEAN

(* `o`, `c` and `ind` come from writing. *)
Writes(o, c, ind) ==
    /\ o \in Seq(Int) /\ State!Extended(out, o) /\ c \in Nat
    /\ ind = indents \/ State!Settled(indents, ind)
    /\ Based(ind)

LEMMA SpacesType == ASSUME NEW n \in Nat PROVE Spaces(n) \in Seq(Int)
  BY DEF Spaces, Blank

LEMMA IndentTypes ==
    ASSUME NEW s, Based(s)
    PROVE  Last(s).nest \in Nat /\ Last(s).indent \in Nat /\ IndentOf(s) \in Nat
<1>1. s # <<>> /\ Last(s) \in State!Entries
  <2>1. Len(s) \in 1..Len(s) /\ s \in Seq(State!Entries) /\ s # <<>>
    BY DEF Based
  <2>. QED BY <2>1, ElementOfSeq DEF Last
<1>. QED BY <1>1 DEF State!Entries, IndentOf

(* A compact group is written behind the output, on the indentation stack   *)
(* as it is or settled on the first text of the group.                      *)
LEMMA TryWrites ==
    ASSUME NEW E, Setting(E), RenderOK, NEW grp \in Seq(E), NEW la \in Seq(E), Try(grp, la).ok
    PROVE  Writes(Try(grp, la).out, Try(grp, la).col, Try(grp, la).indents)
<1>1. State!Extended(out, out) /\ Based(indents) /\ out \in Seq(Int) /\ col \in Nat
  BY ConcatExtends DEF RenderOK
<1>2. LineNest \in Nat /\ IndentWidth \in Nat /\ TargetWidth \in Nat
  BY <1>1, IndentTypes, RendererAssumption DEF LineNest
<1>3. FirstLineWidth(la) \in Nat /\ \A m \in Nat : WillIncrease(la, m) \in Nat
  BY <1>2, LineWidthType DEF WillIncrease, Setting, WalksTyped, Leafs
<1>4. CASE grp = <<>>
  <2>1. Try(grp, la) = [ok |-> TRUE, out |-> out, col |-> col, indents |-> indents]
    BY <1>4 DEF Try
  <2>. QED BY <1>1, <2>1 DEF Writes
<1>5. CASE grp # <<>> /\ col = 0
  <2>. DEFINE g    == SpacingDropped(grp)
              ni   == IndentAhead(g)
              m    == LineNest + (IF ni[1] > LineNest THEN IndentWidth ELSE 0)
              line == Fits(WillIncrease(la, m), TargetWidth - FirstLineWidth(la), g)
              low  == Settle(ni[1], IndentWidth)
              gap  == Spaces(IndentOf(low) + ni[2])
  <2>1. Try(grp, la) = [ok |-> line.ok, out |-> out \o gap \o line.out,
                        col |-> line.width, indents |-> low]
    BY <1>5 DEF Try, TryAtLineStart
  <2>. HIDE DEF gap
  <2>2. g \in Seq(E)
    BY DEF Setting, WalksTyped
  <2>. HIDE DEF g
  <2>3. ni[1] \in Nat /\ ni[2] \in Nat
    BY <2>2 DEF Setting, WalksTyped
  <2>. HIDE DEF ni
  <2>4. m \in Nat /\ WillIncrease(la, m) \in Int /\ TargetWidth - FirstLineWidth(la) \in Int
    <3>1. m \in Nat
      BY <1>2, <2>3
    <3>. HIDE DEF m
    <3>. QED BY <1>2, <1>3, <3>1
  <2>. HIDE DEF m
  <2>5. line.out \in Seq(Int) /\ line.width \in Nat
    <3>1. line.ok
      BY <2>1
    <3>. QED BY <2>2, <2>4, FitsType DEF Setting, WalksTyped, Leafs, FitStates
  <2>. HIDE DEF line
  <2>6. State!Settled(indents, low) /\ Based(low)
    BY <1>1, <1>2, <2>3, SettleSettles
  <2>. HIDE DEF low
  <2>7. Spaces(IndentOf(low) + ni[2]) \in Seq(Int)
    <3>1. IndentOf(low) + ni[2] \in Nat
      BY <2>3, <2>6, IndentTypes
    <3>. QED BY <3>1, SpacesType
  <2>8. out \o gap \o line.out \in Seq(Int) /\ State!Extended(out, out \o gap \o line.out)
    <3>1. gap \in Seq(Int)
      BY <2>7 DEF gap
    <3>. QED BY <1>1, <2>5, <3>1, ConcatBoth
  <2>9. Try(grp, la).out = out \o gap \o line.out /\ Try(grp, la).col = line.width
        /\ Try(grp, la).indents = low
    <3>. DEFINE t == Try(grp, la)
                cells == out \o gap \o line.out
                wide == line.width
                fine == line.ok
    <3>1. t = [ok |-> fine, out |-> cells, col |-> wide, indents |-> low]
      BY <2>1
    <3>. HIDE DEF t, cells, wide, fine
    <3>2. t.out = cells /\ t.col = wide /\ t.indents = low
      BY <3>1
    <3>. QED BY <3>2 DEF t, cells, wide
  <2>. QED BY <2>5, <2>6, <2>8, <2>9 DEF Writes
<1>6. CASE grp # <<>> /\ col # 0
  <2>. DEFINE w == WillIncrease(la, LineNest) - col
              c == TargetWidth - col - FirstLineWidth(la)
              line == Fits(w, c, grp)
  <2>1. Try(grp, la) = [ok |-> line.ok, out |-> out \o line.out, col |-> col + line.width,
                        indents |-> indents]
    BY <1>6 DEF Try, TryInLine
  <2>2. w \in Int /\ c \in Int
    <3>1. WillIncrease(la, LineNest) \in Nat
      BY <1>2, <1>3
    <3>2. \A a, b, t, f \in Nat : a - b \in Int /\ t - b - f \in Int
      OBVIOUS
    <3>. QED BY <1>1, <1>2, <1>3, <3>1, <3>2, Zenon
  <2>. HIDE DEF w, c
  <2>3. line.out \in Seq(Int) /\ line.width \in Nat
    <3>1. line.ok
      BY <2>1
    <3>. QED BY <2>2, FitsType DEF Setting, WalksTyped, Leafs, FitStates
  <2>. HIDE DEF line
  <2>4. out \o line.out \in Seq(Int) /\ State!Extended(out, out \o line.out) /\ col + line.width \in Nat
    BY <1>1, <2>3, ConcatExtends, ConcatProperties
  <2>5. Try(grp, la).out = out \o line.out /\ Try(grp, la).col = col + line.width
        /\ Try(grp, la).indents = indents
    BY <2>1
  <2>. QED BY <1>1, <2>4, <2>5 DEF Writes
<1>. QED BY <1>4, <1>5, <1>6

(* A text is written behind the output, settled on its nesting. *)
LEMMA TextWrites ==
    ASSUME NEW E, Setting(E), RenderOK, NEW e \in E, IsText(e), WriteText(e)
    PROVE  Writes(out', col', indents') /\ State!Settled(indents, indents')
<1>1. e.txt \in Seq(Int) /\ e.nest \in Nat /\ e.off \in Nat
  BY ElementKinds DEF Setting
<1>2. out \in Seq(Int) /\ col \in Nat /\ Based(indents) /\ IndentWidth \in Nat
  BY RendererAssumption DEF RenderOK
<1>. DEFINE step == IF col = 0 THEN IndentWidth ELSE 0
            low == Settle(e.nest, step)
            gap == IF col = 0 THEN Spaces(IndentOf(low) + e.off) ELSE <<>>
<1>3. indents' = low /\ out' = out \o gap \o e.txt /\ col' = col + TextWidth(e)
  BY DEF WriteText
<1>4. step \in {0, IndentWidth}
  OBVIOUS
<1>. HIDE DEF step
<1>5. State!Settled(indents, low) /\ Based(low)
  BY <1>1, <1>2, <1>4, SettleSettles
<1>. HIDE DEF low
<1>6. gap \in Seq(Int)
  <2>1. IndentOf(low) + e.off \in Nat
    BY <1>1, <1>5, IndentTypes
  <2>. QED BY <2>1, SpacesType
<1>. HIDE DEF gap
<1>7. out \o gap \o e.txt \in Seq(Int) /\ State!Extended(out, out \o gap \o e.txt)
  BY <1>1, <1>2, <1>6, ConcatBoth
<1>8. col' \in Nat
  BY <1>1, <1>2, <1>3 DEF TextWidth
<1>. QED BY <1>3, <1>5, <1>7, <1>8 DEF Writes

-----------------------------------------------------------------------------
(* The inductive invariant.                                                 *)

(* Frames with another one on them: a trial that waits has begun one of its *)
(* candidates.                                                              *)
Waiting(E, fs) ==
    /\ fs \in Seq(Frames(E))
    /\ \A i \in 1..Len(fs) : fs[i] \in TrialFrames(E) => fs[i].post /\ fs[i].cands # <<>>

(* A trial that chooses its next candidate is outside disabled regions.     *)
Innermost(E, f, quiet) ==
    f \in TrialFrames(E) => IF f.post THEN f.cands # <<>> ELSE ~quiet

StackOf(E, fs, quiet) ==
    /\ fs \in Seq(Frames(E))
    /\ fs # <<>> => Waiting(E, Front(fs)) /\ Innermost(E, Last(fs), quiet)

LInv(E) ==
    /\ RenderOK
    /\ StackOf(E, stack, suppress)
    /\ MarksOK(Checkpoints(stack), out)

LEMMA FrameKinds == ASSUME NEW E PROVE DocFrames(E) \cap TrialFrames(E) = {}
  BY DEF DocFrames, TrialFrames

LEMMA WaitingAppend ==
    ASSUME NEW E, NEW fs, Waiting(E, fs), NEW f \in Frames(E),
           f \in TrialFrames(E) => f.post /\ f.cands # <<>>
    PROVE  Waiting(E, Append(fs, f))
<1>1. /\ fs \in Seq(Frames(E)) /\ Len(fs) \in Nat
      /\ Append(fs, f) \in Seq(Frames(E)) /\ Len(Append(fs, f)) = Len(fs) + 1
      /\ Append(fs, f)[Len(fs) + 1] = f
      /\ \A i \in 1..Len(fs) : Append(fs, f)[i] = fs[i]
  BY FrontAppend DEF Waiting
<1>2. ASSUME NEW i \in 1..(Len(fs) + 1), Append(fs, f)[i] \in TrialFrames(E)
      PROVE  Append(fs, f)[i].post /\ Append(fs, f)[i].cands # <<>>
  <2>1. CASE i = Len(fs) + 1
    BY <1>1, <1>2, <2>1
  <2>2. CASE i # Len(fs) + 1
    <3>1. i \in 1..Len(fs)
      BY <1>1, <2>2
    <3>. QED BY <1>1, <1>2, <3>1 DEF Waiting
  <2>. QED BY <2>1, <2>2
<1>. QED BY <1>1, <1>2 DEF Waiting

(* A frame on waiting ones makes a stack. *)
LEMMA StackAppend ==
    ASSUME NEW E, NEW fs, Waiting(E, fs), NEW f \in Frames(E), NEW quiet, Innermost(E, f, quiet)
    PROVE  StackOf(E, Append(fs, f), quiet)
<1>1. /\ Append(fs, f) \in Seq(Frames(E))
      /\ Front(Append(fs, f)) = fs /\ Last(Append(fs, f)) = f
  BY FrontAppend DEF Waiting
<1>. QED BY <1>1 DEF StackOf

(* Waiting frames are a stack whatever the region. *)
LEMMA StackWaiting ==
    ASSUME NEW E, NEW fs, Waiting(E, fs), NEW quiet
    PROVE  StackOf(E, fs, quiet)
<1>. SUFFICES ASSUME fs # <<>> PROVE Waiting(E, Front(fs)) /\ Innermost(E, Last(fs), quiet)
  BY DEF StackOf, Waiting
<1>1. fs \in Seq(Frames(E))
  BY DEF Waiting
<1>2. /\ Front(fs) \in Seq(Frames(E)) /\ Len(Front(fs)) = Len(fs) - 1 /\ Len(fs) >= 1
      /\ \A i \in 1..Len(Front(fs)) : Front(fs)[i] = fs[i]
  BY <1>1, FrontLast
<1>3. \A i \in 1..Len(fs) : fs[i] \in TrialFrames(E) => fs[i].post /\ fs[i].cands # <<>>
  BY DEF Waiting
<1>4. Waiting(E, Front(fs))
  <2>1. \A i \in 1..Len(Front(fs)) : i \in 1..Len(fs)
    BY <1>1, <1>2
  <2>. QED BY <1>2, <1>3, <2>1 DEF Waiting
<1>5. Innermost(E, Last(fs), quiet)
  <2>1. Len(fs) \in 1..Len(fs)
    BY <1>1, <1>2
  <2>. QED BY <1>3, <2>1 DEF Innermost, Last
<1>. QED BY <1>4, <1>5

(* The stack with its top taken off. *)
LEMMA Split ==
    ASSUME NEW E, LInv(E), stack # <<>>
    PROVE  /\ Waiting(E, Front(stack)) /\ Front(stack) \in Seq(Frames(E))
           /\ Top \in Frames(E) /\ Innermost(E, Top, suppress)
           /\ stack = Append(Front(stack), Top)
<1>1. stack \in Seq(Frames(E)) /\ Waiting(E, Front(stack)) /\ Innermost(E, Top, suppress)
  BY DEF LInv, StackOf, Top
<1>2. Front(stack) \in Seq(Frames(E)) /\ Last(stack) \in Frames(E)
      /\ stack = Append(Front(stack), Last(stack))
  BY <1>1, FrontLast
<1>. QED BY <1>1, <1>2 DEF Top

LEMMA TopKind ==
    ASSUME NEW E, LInv(E), stack # <<>>
    PROVE  (Top.k = "doc" => Top \in DocFrames(E)) /\ (Top.k = "trial" => Top \in TrialFrames(E))
<1>1. Top \in Frames(E)
  BY Split
<1>. QED BY <1>1 DEF Frames, DocFrames, TrialFrames

-----------------------------------------------------------------------------
(* Steps of a document frame.                                               *)

(* The next element, what is behind it and the frame without it. *)
LEMMA ElemType ==
    ASSUME NEW E, LInv(E), OnElem
    PROVE  /\ Top \in DocFrames(E) /\ Elem \in E /\ Ahead \in Seq(E)
           /\ [Top EXCEPT !.todo = Tail(@)] \in DocFrames(E)
<1>1. Top \in DocFrames(E) /\ Top.todo # <<>>
  BY TopKind DEF OnElem
<1>2. Top.todo \in Seq(E) /\ Top.la \in Seq(E) /\ Top.k = "doc"
  BY <1>1 DEF DocFrames
<1>3. Head(Top.todo) \in E /\ Tail(Top.todo) \in Seq(E)
  BY <1>1, <1>2, HeadTailProperties
<1>4. Tail(Top.todo) \o Top.la \in Seq(E)
  BY <1>2, <1>3, ConcatProperties
<1>5. [Top EXCEPT !.todo = Tail(@)] \in DocFrames(E)
  BY <1>1, <1>3 DEF DocFrames
<1>. QED BY <1>1, <1>3, <1>4, <1>5 DEF Elem, Ahead

(* A document frame replaced by another leaves the checkpoints alone. *)
LEMMA ReplaceDoc ==
    ASSUME NEW E, LInv(E), stack # <<>>, Top \in DocFrames(E), NEW f \in DocFrames(E)
    PROVE  /\ Waiting(E, Append(Front(stack), f))
           /\ Checkpoints(Append(Front(stack), f)) = Checkpoints(stack)
           /\ Checkpoints(Front(stack)) = Checkpoints(stack)
<1>1. /\ Waiting(E, Front(stack)) /\ Front(stack) \in Seq(Frames(E))
      /\ stack = Append(Front(stack), Top)
  BY Split
<1>2. f \in Frames(E) /\ Top \in Frames(E) /\ f \notin TrialFrames(E)
  BY FrameKinds DEF Frames
<1>3. Waiting(E, Append(Front(stack), f))
  BY <1>1, <1>2, WaitingAppend
<1>4. Checkpoints(Append(Front(stack), f)) = Checkpoints(Front(stack))
      /\ Checkpoints(Append(Front(stack), Top)) = Checkpoints(Front(stack))
  BY <1>1, <1>2, CheckpointsAppend
<1>. QED BY <1>1, <1>3, <1>4

LEMMA ConsumedOK ==
    ASSUME NEW E, LInv(E), OnElem
    PROVE  /\ Waiting(E, Consumed) /\ Checkpoints(Consumed) = Checkpoints(stack)
           /\ Consumed \in Seq(Frames(E))
<1>1. stack # <<>>
  BY DEF OnElem
<1>. QED BY <1>1, ElemType, ReplaceDoc DEF Consumed, Waiting

(* A document frame pushed on waiting frames. *)
LEMMA PushDoc ==
    ASSUME NEW E, NEW fs, Waiting(E, fs), NEW todo \in Seq(E), NEW la \in Seq(E)
    PROVE  /\ Waiting(E, Append(fs, DocFrame(todo, la)))
           /\ Checkpoints(Append(fs, DocFrame(todo, la))) = Checkpoints(fs)
<1>1. DocFrame(todo, la) \in DocFrames(E)
  BY DEF DocFrame, DocFrames
<1>2. DocFrame(todo, la) \in Frames(E) /\ DocFrame(todo, la) \notin TrialFrames(E)
  BY <1>1, FrameKinds DEF Frames
<1>3. fs \in Seq(Frames(E))
  BY DEF Waiting
<1>4. Waiting(E, Append(fs, DocFrame(todo, la)))
  BY <1>2, WaitingAppend
<1>5. Checkpoints(Append(fs, DocFrame(todo, la))) = Checkpoints(fs)
  BY <1>1, <1>2, <1>3, CheckpointsAppend
<1>. QED BY <1>4, <1>5

(* Output that grows under the same checkpoints. *)
LEMMA Grows ==
    ASSUME NEW E, LInv(E), RenderOK', State!Extended(out, out'),
           StackOf(E, stack', suppress'), Checkpoints(stack') = Checkpoints(stack)
    PROVE  LInv(E)' /\ SavedIn(out', Checkpoints(stack')) = SavedIn(out, Checkpoints(stack))
<1>1. out \in Seq(Int) /\ out' \in Seq(Int) /\ MarksOK(Checkpoints(stack), out)
  BY DEF LInv, RenderOK
<1>2. MarksOK(Checkpoints(stack), out') /\ SavedIn(out', Checkpoints(stack)) = SavedIn(out, Checkpoints(stack))
  BY <1>1, MarksExtended
<1>. QED BY <1>2 DEF LInv

LEMMA WriteStep ==
    ASSUME NEW E, LInv(E), ~suppress, Writes(out', col', indents'), UNCHANGED <<didx, suppress>>,
           StackOf(E, stack', suppress'), Checkpoints(stack') = Checkpoints(stack)
    PROVE  LInv(E)' /\ State!Write
<1>1. RenderOK' /\ State!Extended(out, out')
  BY DEF Writes, RenderOK, LInv
<1>2. LInv(E)' /\ SavedIn(out', Checkpoints(stack')) = SavedIn(out, Checkpoints(stack))
  BY <1>1, Grows
<1>3. State!Written
  BY DEF Writes, State!Written
<1>. QED BY <1>2, <1>3 DEF State!Write

(* A step that leaves the state alone. *)
LEMMA QuietStep ==
    ASSUME NEW E, LInv(E), UNCHANGED rvars, StackOf(E, stack', suppress'),
           Checkpoints(stack') = Checkpoints(stack)
    PROVE  LInv(E)' /\ UNCHANGED State!vars
<1>1. RenderOK' /\ State!Extended(out, out')
  BY ConcatExtends DEF rvars, LInv, RenderOK, Based
<1>2. LInv(E)' /\ SavedIn(out', Checkpoints(stack')) = SavedIn(out, Checkpoints(stack))
  BY <1>1, Grows
<1>. QED BY <1>2 DEF State!vars, rvars

LEMMA RenderTextStep ==
    ASSUME NEW E, Setting(E), LInv(E), RenderText
    PROVE  LInv(E)' /\ State!Write
<1>1. /\ OnElem /\ IsText(Elem) /\ ~suppress /\ stack' = Consumed /\ UNCHANGED <<didx, suppress>>
  BY DEF RenderText
<1>2. Elem \in E /\ RenderOK
  BY <1>1, ElemType DEF LInv
<1>3. Writes(out', col', indents')
  <2>1. CASE ShiftsComment(Elem, Ahead)
    <3>1. out' = out \o <<Blank>> \o Elem.txt /\ col' = col + 1 + TextWidth(Elem) /\ indents' = indents
      BY <2>1 DEF RenderText
    <3>2. Elem.txt \in Seq(Int) /\ <<Blank>> \in Seq(Int) /\ out \in Seq(Int) /\ col \in Nat
      BY <1>1, <1>2, ElementKinds DEF Setting, Blank, RenderOK
    <3>3. out' \in Seq(Int) /\ State!Extended(out, out')
      BY <3>1, <3>2, ConcatBoth
    <3>4. col' \in Nat
      <4>1. TextWidth(Elem) \in Nat
        BY <3>2, LenProperties DEF TextWidth
      <4>. QED BY <3>1, <3>2, <4>1
    <3>. QED BY <1>2, <3>1, <3>3, <3>4 DEF Writes, RenderOK
  <2>2. CASE ~ShiftsComment(Elem, Ahead)
    <3>1. WriteText(Elem)
      BY <2>2 DEF RenderText
    <3>. QED BY <1>1, <1>2, <3>1, TextWrites
  <2>. QED BY <2>1, <2>2
<1>4. StackOf(E, stack', suppress') /\ Checkpoints(stack') = Checkpoints(stack)
  BY <1>1, ConsumedOK, StackWaiting
<1>. QED BY <1>1, <1>3, <1>4, WriteStep

LEMMA FeedsType == ASSUME NEW s \in Spacings PROVE LineFeeds(s) \in Nat
<1>1. s \in Nat
  BY DEF Spacings
<1>. QED BY <1>1 DEF LineFeeds, IsNewlines, Count, Break, Space, Hardline, Emptyline

LEMMA RenderSpacingStep ==
    ASSUME NEW E, Setting(E), LInv(E), RenderSpacing
    PROVE  LInv(E)' /\ State!Write
<1>1. /\ OnElem /\ IsSpacing(Elem) /\ ~suppress /\ stack' = Consumed
      /\ UNCHANGED <<indents, didx, suppress>>
  BY DEF RenderSpacing
<1>2. Elem \in E /\ RenderOK /\ Elem.sp \in Spacings
  BY <1>1, ElemType, ElementKinds DEF LInv, Setting
<1>. DEFINE s == Elem.sp
            flat == \/ s = Hardspace
                    \/ s \in {Softbreak, Softspace} /\ Flows(s, Ahead)
            feeds == IF s \in {Softbreak, Softspace} THEN 1 ELSE LineFeeds(s)
            gap   == CASE s = Softbreak -> <<>>
                       [] s = Hardspace -> <<Blank>>
                       [] OTHER         -> <<SoftGap>>
            lines == [i \in 1..feeds |-> Feed]
<1>3. /\ col = 0           => UNCHANGED <<out, col>>
      /\ col # 0 /\ flat  => out' = out \o gap /\ col' = col + Len(gap)
      /\ col # 0 /\ ~flat => out' = out \o lines /\ col' = 0
  BY DEF RenderSpacing
<1>4. gap \in Seq(Int)
  BY DEF Blank, SoftGap, Softbreak, Hardspace
<1>5. lines \in Seq(Int)
  <2>1. feeds \in Nat
    BY <1>2, FeedsType
  <2>. HIDE DEF feeds
  <2>. QED BY <2>1 DEF Feed
<1>. HIDE DEF flat, gap, lines
<1>6. out \in Seq(Int) /\ col \in Nat /\ Based(indents)
  BY <1>2 DEF RenderOK
<1>7. out' \in Seq(Int) /\ State!Extended(out, out') /\ col' \in Nat
  <2>1. CASE col = 0
    BY <1>3, <1>6, <2>1, ConcatExtends
  <2>2. CASE col # 0 /\ flat
    <3>1. out' = out \o gap /\ col' = col + Len(gap)
      BY <1>3, <2>2
    <3>. QED BY <1>4, <1>6, <3>1, ConcatExtends, ConcatProperties
  <2>3. CASE col # 0 /\ ~flat
    <3>1. out' = out \o lines /\ col' = 0
      BY <1>3, <2>3
    <3>. QED BY <1>5, <1>6, <3>1, ConcatExtends, ConcatProperties
  <2>. QED BY <2>1, <2>2, <2>3
<1>8. Writes(out', col', indents')
  BY <1>1, <1>6, <1>7 DEF Writes
<1>9. StackOf(E, stack', suppress') /\ Checkpoints(stack') = Checkpoints(stack)
  BY <1>1, ConsumedOK, StackWaiting
<1>. QED BY <1>1, <1>8, <1>9, WriteStep

LEMMA RenderCompactStep ==
    ASSUME NEW E, Setting(E), LInv(E), RenderCompact
    PROVE  LInv(E)' /\ State!Write
<1>. DEFINE t == Try(Elem.body, Ahead)
<1>1. /\ OnElem /\ IsGroup(Elem) /\ ~suppress /\ stack' = Consumed /\ t.ok /\ Adopt(t)
  BY DEF RenderCompact
<1>2. Elem.body \in Seq(E) /\ Ahead \in Seq(E) /\ RenderOK
  BY <1>1, ElemType, ElementKinds DEF LInv, Setting
<1>3. Writes(t.out, t.col, t.indents)
  BY <1>1, <1>2, TryWrites
<1>4. Writes(out', col', indents') /\ UNCHANGED <<didx, suppress>>
  BY <1>1, <1>3 DEF Adopt
<1>5. StackOf(E, stack', suppress') /\ Checkpoints(stack') = Checkpoints(stack)
  BY <1>1, ConsumedOK, StackWaiting
<1>. QED BY <1>1, <1>4, <1>5, WriteStep

LEMMA SkipStep ==
    ASSUME NEW E, LInv(E), SkipSuppressed
    PROVE  LInv(E)' /\ UNCHANGED State!vars
<1>1. OnElem /\ stack' = Consumed /\ UNCHANGED rvars
  BY DEF SkipSuppressed
<1>. QED BY <1>1, ConsumedOK, StackWaiting, QuietStep

LEMMA EnterStep ==
    ASSUME NEW E, Setting(E), LInv(E), EnterSuppressed \/ RenderExpanded
    PROVE  LInv(E)' /\ UNCHANGED State!vars
<1>1. /\ OnElem /\ IsGroup(Elem) /\ UNCHANGED rvars
      /\ stack' = Append(Consumed, DocFrame(Elem.body, Ahead))
  BY DEF EnterSuppressed, RenderExpanded
<1>2. Elem.body \in Seq(E) /\ Ahead \in Seq(E)
  BY <1>1, ElemType, ElementKinds DEF Setting
<1>3. Waiting(E, stack') /\ Checkpoints(stack') = Checkpoints(stack)
  BY <1>1, <1>2, ConsumedOK, PushDoc
<1>. QED BY <1>1, <1>3, StackWaiting, QuietStep

LEMMA ReturnStep ==
    ASSUME NEW E, LInv(E), Return
    PROVE  LInv(E)' /\ UNCHANGED State!vars
<1>1. stack # <<>> /\ Top.k = "doc" /\ stack' = Front(stack) /\ UNCHANGED rvars
  BY DEF Return
<1>2. Top \in DocFrames(E)
  BY <1>1, TopKind
<1>3. Waiting(E, stack') /\ Checkpoints(stack') = Checkpoints(stack)
  BY <1>1, <1>2, Split, ReplaceDoc
<1>. QED BY <1>1, <1>3, StackWaiting, QuietStep

LEMMA StillStep ==
    ASSUME NEW E, LInv(E), UNCHANGED <<rvars, stack>>
    PROVE  LInv(E)' /\ UNCHANGED State!vars
<1>1. UNCHANGED rvars /\ stack' = stack /\ suppress' = suppress
  BY DEF rvars
<1>2. StackOf(E, stack', suppress')
  BY <1>1 DEF LInv
<1>. QED BY <1>1, <1>2, QuietStep

(* Every marker has one of three actions. *)
ActionsOK == \A i \in DOMAIN actions : actions[i] \in {"Begin", "End", "Inert"}

(* A marker counts, whatever it does. *)
LEMMA RenderDirectiveStep ==
    ASSUME NEW E, Setting(E), LInv(E), ActionsOK, RenderDirective
    PROVE  LInv(E)' /\ (State!Begin \/ State!End \/ State!InertMarker)
<1>. DEFINE act == IF didx + 1 \in DOMAIN actions THEN actions[didx + 1] ELSE "Inert"
            line == IF col # 0 THEN <<Feed>> ELSE <<>>
<1>1. /\ OnElem /\ IsText(Elem) /\ stack' = Consumed /\ didx' = didx + 1
  BY DEF RenderDirective
<1>2. /\ act = "Begin" =>
           /\ out' = out \o line \o <<Region(didx + 1)>>
           /\ col' = 1 /\ suppress' = TRUE
           /\ UNCHANGED indents
      /\ act = "End" => suppress' = FALSE /\ UNCHANGED <<out, col, indents>>
      /\ act = "Inert" /\ suppress => UNCHANGED <<out, col, indents, suppress>>
      /\ act = "Inert" /\ ~suppress => WriteText(Elem) /\ UNCHANGED suppress
  BY DEF RenderDirective
<1>3. act \in {"Begin", "End", "Inert"}
  BY DEF ActionsOK
<1>. HIDE DEF act
<1>4. Elem \in E /\ RenderOK /\ out \in Seq(Int) /\ col \in Nat /\ Based(indents) /\ didx \in Nat
      /\ suppress \in BOOLEAN
  BY <1>1, ElemType DEF LInv, RenderOK
<1>5. StackOf(E, stack', suppress') /\ Checkpoints(stack') = Checkpoints(stack)
  BY <1>1, ConsumedOK, StackWaiting
<1>6. RenderOK' /\ State!Extended(out, out')
      => LInv(E)' /\ SavedIn(out', Checkpoints(stack')) = SavedIn(out, Checkpoints(stack))
  BY <1>5, Grows
<1>7. CASE act = "Begin"
  <2>1. line \in Seq(Int) /\ <<Region(didx + 1)>> \in Seq(Int)
    BY <1>4 DEF Feed, Region
  <2>. HIDE DEF line
  <2>2. out' = out \o line \o <<Region(didx + 1)>> /\ col' = 1 /\ suppress' = TRUE /\ indents' = indents
    BY <1>2, <1>7
  <2>3. out' \in Seq(Int) /\ State!Extended(out, out')
    BY <1>4, <2>1, <2>2, ConcatBoth
  <2>4. RenderOK'
    BY <1>1, <1>4, <2>2, <2>3 DEF RenderOK, Based
  <2>5. State!Begin
    BY <1>1, <1>6, <2>2, <2>3, <2>4 DEF State!Begin
  <2>. QED BY <1>6, <2>3, <2>4, <2>5
<1>8. CASE act = "End"
  <2>1. suppress' = FALSE /\ out' = out /\ col' = col /\ indents' = indents
    BY <1>2, <1>8
  <2>2. out' \in Seq(Int) /\ State!Extended(out, out')
    BY <1>4, <2>1, ConcatExtends
  <2>3. RenderOK'
    <3>1. Based(indents') /\ suppress' \in BOOLEAN
      BY <1>4, <2>1, Zenon
    <3>. QED BY <1>1, <1>4, <2>1, <3>1 DEF RenderOK
  <2>4. State!End
    BY <1>1, <1>6, <2>1, <2>2, <2>3 DEF State!End
  <2>. QED BY <1>6, <2>2, <2>3, <2>4
<1>9. CASE act = "Inert" /\ suppress
  <2>1. suppress' = suppress /\ out' = out /\ col' = col /\ indents' = indents
    BY <1>2, <1>9
  <2>2. State!Extended(out, out')
    BY <1>4, <2>1, ConcatExtends
  <2>3. RenderOK'
    <3>1. Based(indents') /\ suppress' \in BOOLEAN
      BY <1>4, <2>1, Zenon
    <3>. QED BY <1>1, <1>4, <2>1, <3>1 DEF RenderOK
  <2>4. State!InertMarker
    BY <1>1, <1>6, <1>9, <2>1, <2>2, <2>3 DEF State!InertMarker
  <2>. QED BY <1>6, <2>2, <2>3, <2>4
<1>10. CASE act = "Inert" /\ ~suppress
  <2>1. WriteText(Elem) /\ suppress' = suppress
    BY <1>2, <1>10
  <2>2. Writes(out', col', indents') /\ State!Settled(indents, indents')
    BY <1>1, <1>4, <2>1, TextWrites
  <2>3. RenderOK' /\ State!Extended(out, out')
    BY <1>1, <1>4, <2>1, <2>2 DEF RenderOK, Writes
  <2>4. State!InertMarker
    BY <1>1, <1>6, <1>10, <2>1, <2>2, <2>3 DEF State!InertMarker, Writes
  <2>. QED BY <1>6, <2>3, <2>4
<1>. QED BY <1>3, <1>7, <1>8, <1>9, <1>10

-----------------------------------------------------------------------------
(* Steps of a trial.                                                        *)

(* The frame of a trial keeps its checkpoint when it changes its candidates *)
(* or begins one; without the frame the newest checkpoint is gone.          *)
LEMMA ReplaceTrial ==
    ASSUME NEW E, LInv(E), stack # <<>>, Top \in TrialFrames(E)
    PROVE  LET rest == Checkpoints(Front(stack)) IN
           /\ rest \in Seq(Marks) /\ Top.cp \in Marks
           /\ Checkpoints(stack) = Append(rest, Top.cp)
           /\ \A f \in TrialFrames(E) :
                f.cp = Top.cp => Checkpoints(Append(Front(stack), f)) = Checkpoints(stack)
<1>1. /\ Front(stack) \in Seq(Frames(E)) /\ stack = Append(Front(stack), Top)
  BY Split
<1>2. Top \in Frames(E) /\ \A f \in TrialFrames(E) : f \in Frames(E)
  BY DEF Frames
<1>3. Top.cp \in Marks
  BY DEF TrialFrames
<1>4. Checkpoints(Front(stack)) \in Seq(Marks)
      /\ Checkpoints(Append(Front(stack), Top)) = Append(Checkpoints(Front(stack)), Top.cp)
  BY <1>1, <1>2, CheckpointsAppend
<1>5. ASSUME NEW f \in TrialFrames(E), f.cp = Top.cp
      PROVE  Checkpoints(Append(Front(stack), f)) = Checkpoints(stack)
  <2>1. Checkpoints(Append(Front(stack), f)) = Append(Checkpoints(Front(stack)), f.cp)
    BY <1>1, <1>2, CheckpointsAppend
  <2>. QED BY <1>1, <1>4, <1>5, <2>1
<1>. QED BY <1>1, <1>3, <1>4, <1>5

(* What the top trial's checkpoint stands for is what was saved last. *)
LEMMA TopSaved ==
    ASSUME NEW E, LInv(E), stack # <<>>, Top \in TrialFrames(E)
    PROVE  LET saved == SavedIn(out, Checkpoints(stack)) IN
           /\ saved # <<>> /\ saved[Len(saved)] = Snapshot(out, Top.cp)
           /\ MarksOK(Checkpoints(Front(stack)), out)
           /\ SavedIn(out, Checkpoints(Front(stack))) = SubSeq(saved, 1, Len(saved) - 1)
           /\ Top.cp.len \in Nat /\ Top.cp.len <= Len(out) /\ Based(Top.cp.indents) /\ ~Top.cp.suppress
<1>. DEFINE rest == Checkpoints(Front(stack))
<1>1. rest \in Seq(Marks) /\ Top.cp \in Marks /\ Checkpoints(stack) = Append(rest, Top.cp)
  BY ReplaceTrial
<1>2. MarksOK(Append(rest, Top.cp), out) /\ out \in Seq(Int)
  BY <1>1 DEF LInv, RenderOK
<1>. HIDE DEF rest
<1>3. /\ MarksOK(rest, out)
      /\ SavedIn(out, Append(rest, Top.cp)) # <<>>
      /\ LET saved == SavedIn(out, Append(rest, Top.cp)) IN
           saved[Len(saved)] = Snapshot(out, Top.cp) /\ SavedIn(out, rest) = SubSeq(saved, 1, Len(saved) - 1)
  BY <1>1, <1>2, MarksPop
<1>4. Top.cp.len \in Nat /\ Top.cp.len <= Len(out) /\ Based(Top.cp.indents) /\ ~Top.cp.suppress
  <2>1. Len(rest) + 1 \in 1..Len(Append(rest, Top.cp)) /\ Append(rest, Top.cp)[Len(rest) + 1] = Top.cp
    BY <1>1
  <2>2. Top.cp.len <= Len(out) /\ Based(Top.cp.indents) /\ ~Top.cp.suppress
    BY <1>2, <2>1 DEF MarksOK
  <2>. QED BY <1>1, <2>2 DEF Marks
<1>. QED BY <1>1, <1>3, <1>4 DEF rest

(* A checkpoint is taken. *)
LEMMA StartTrialsStep ==
    ASSUME NEW E, Setting(E), LInv(E), StartTrials
    PROVE  LInv(E)' /\ State!Checkpoint
<1>. DEFINE f == TrialFrame(Elem.body, Ahead, TrialsOf(Elem.body))
<1>1. /\ OnElem /\ IsGroup(Elem) /\ ~suppress /\ UNCHANGED rvars
      /\ stack' = Append(Consumed, f)
  BY DEF StartTrials
<1>2. Elem.body \in Seq(E) /\ Ahead \in Seq(E)
  BY <1>1, ElemType, ElementKinds DEF Setting
<1>3. TrialsOf(Elem.body) \in Seq(Parts(E))
  BY <1>2 DEF Setting, WalksTyped, Parts
<1>4. out \in Seq(Int) /\ col \in Nat /\ Based(indents) /\ didx \in Nat /\ suppress = FALSE /\ RenderOK
  BY <1>1 DEF LInv, RenderOK
<1>. DEFINE cp == [len |-> Len(out), col |-> col, indents |-> indents, didx |-> didx, suppress |-> suppress]
<1>5. cp \in Marks /\ cp.len = Len(out) /\ Based(cp.indents) /\ ~cp.suppress
  <2>1. indents \in Seq(State!Entries) /\ Len(out) \in Nat
    BY <1>4 DEF Based
  <2>. QED BY <1>4, <2>1 DEF Marks
<1>6. Snapshot(out, cp) = State!Snapshot
  <2>1. SubSeq(out, 1, Len(out)) = out
    BY <1>4, SubSeqFull
  <2>. QED BY <2>1 DEF Snapshot, State!Snapshot
<1>7. f = [k |-> "trial", body |-> Elem.body, la |-> Ahead, cands |-> TrialsOf(Elem.body),
           post |-> FALSE, cp |-> cp]
  BY DEF TrialFrame
<1>. HIDE DEF cp
<1>8. f \in TrialFrames(E) /\ f.cp = cp /\ f.post = FALSE
  <2>. HIDE DEF f
  <2>. QED BY <1>2, <1>3, <1>5, <1>7 DEF TrialFrames
<1>. HIDE DEF f
<1>9. f \in Frames(E) /\ Innermost(E, f, FALSE)
  BY <1>8 DEF Frames, Innermost
<1>10. Waiting(E, Consumed) /\ Checkpoints(Consumed) = Checkpoints(stack) /\ Consumed \in Seq(Frames(E))
  BY <1>1, ConsumedOK
<1>11. StackOf(E, stack', suppress')
  <2>1. suppress' = FALSE
    BY <1>1, <1>4 DEF rvars
  <2>. QED BY <1>1, <1>9, <1>10, <2>1, StackAppend
<1>12. Checkpoints(stack') = Append(Checkpoints(stack), cp)
  BY <1>1, <1>8, <1>9, <1>10, CheckpointsAppend
<1>13. MarksOK(Append(Checkpoints(stack), cp), out)
       /\ SavedIn(out, Append(Checkpoints(stack), cp))
                       = Append(SavedIn(out, Checkpoints(stack)), Snapshot(out, cp))
  BY <1>4, <1>5, MarksPush DEF LInv
<1>14. RenderOK' /\ out' = out
  BY <1>1, <1>4 DEF RenderOK, rvars, Based
<1>15. LInv(E)'
  BY <1>11, <1>12, <1>13, <1>14 DEF LInv
<1>16. State!Checkpoint
  BY <1>1, <1>6, <1>12, <1>13, <1>14 DEF State!Checkpoint, rvars
<1>. QED BY <1>15, <1>16

(* A rollback gives back what was saved, in front of the next candidate. *)
LEMMA RestoreStep ==
    ASSUME NEW E, LInv(E), TrialRejected \/ TrialFails
    PROVE  LInv(E)' /\ State!Restore
<1>1. stack # <<>> /\ Top.k = "trial" /\ Top.cands # <<>> /\ Restore(Top.cp) /\ stack' = NextCandidate
  <2>1. CASE TrialRejected
    BY <2>1 DEF TrialRejected, OnTrial
  <2>2. CASE TrialFails
    <3>1. stack # <<>> /\ Top.k = "trial" /\ Top.post
      BY <2>2 DEF TrialFails, OnTrial
    <3>2. Top.cands # <<>>
      BY <3>1, Split, TopKind DEF Innermost
    <3>. QED BY <2>2, <3>1, <3>2 DEF TrialFails
  <2>. QED BY <2>1, <2>2
<1>2. Top \in TrialFrames(E)
  BY <1>1, TopKind
<1>. DEFINE f == [Top EXCEPT !.cands = Tail(@), !.post = FALSE]
<1>3. f \in TrialFrames(E) /\ f.cp = Top.cp /\ f.post = FALSE
  <2>1. Tail(Top.cands) \in Seq(Parts(E))
    BY <1>1, <1>2, HeadTailProperties DEF TrialFrames
  <2>. QED BY <1>2, <2>1 DEF TrialFrames
<1>4. stack' = Append(Front(stack), f)
  BY <1>1 DEF NextCandidate
<1>. HIDE DEF f
<1>5. /\ out' = SubSeq(out, 1, Top.cp.len) /\ col' = Top.cp.col /\ indents' = Top.cp.indents
      /\ didx' = Top.cp.didx /\ suppress' = Top.cp.suppress
  BY <1>1 DEF Restore
<1>6. /\ Top.cp \in Marks /\ Top.cp.len \in Nat /\ Top.cp.len <= Len(out)
      /\ Based(Top.cp.indents) /\ ~Top.cp.suppress
  BY <1>1, <1>2, ReplaceTrial, TopSaved
<1>7. out \in Seq(Int) /\ MarksOK(Checkpoints(stack), out)
  BY DEF LInv, RenderOK
<1>8. Checkpoints(stack') = Checkpoints(stack)
  BY <1>1, <1>2, <1>3, <1>4, ReplaceTrial
<1>9. Len(Checkpoints(stack)) >= 1 /\ Checkpoints(stack)[Len(Checkpoints(stack))] = Top.cp
  <2>. DEFINE rest == Checkpoints(Front(stack))
  <2>1. rest \in Seq(Marks) /\ Checkpoints(stack) = Append(rest, Top.cp)
    BY <1>1, <1>2, ReplaceTrial
  <2>. HIDE DEF rest
  <2>. QED BY <2>1, <1>6
<1>10. /\ out' \in Seq(Int) /\ MarksOK(Checkpoints(stack), out')
       /\ SavedIn(out', Checkpoints(stack)) = SavedIn(out, Checkpoints(stack))
  BY <1>5, <1>7, <1>9, MarksCut
<1>11. RenderOK'
  <2>1. Top.cp.col \in Nat /\ Top.cp.didx \in Nat /\ Top.cp.suppress \in BOOLEAN
    BY <1>6 DEF Marks
  <2>. QED BY <1>5, <1>6, <1>10, <2>1 DEF RenderOK
<1>12. StackOf(E, stack', suppress')
  <2>1. f \in Frames(E) /\ Innermost(E, f, suppress') /\ Waiting(E, Front(stack))
    BY <1>1, <1>3, <1>5, <1>6, Split DEF Frames, Innermost
  <2>. QED BY <1>4, <2>1, StackAppend
<1>13. LInv(E)'
  BY <1>8, <1>10, <1>11, <1>12 DEF LInv
<1>14. State!Restore
  <2>. DEFINE saved == SavedIn(out, Checkpoints(stack))
  <2>1. saved # <<>> /\ saved[Len(saved)] = Snapshot(out, Top.cp)
    BY <1>1, <1>2, TopSaved
  <2>2. SavedIn(out', Checkpoints(stack')) = saved
    BY <1>8, <1>10
  <2>3. State!Top = Snapshot(out, Top.cp)
    BY <2>1 DEF State!Top
  <2>. HIDE DEF saved
  <2>4. /\ out' = State!Top.out /\ col' = State!Top.col /\ indents' = State!Top.indents
        /\ didx' = State!Top.didx /\ suppress' = State!Top.suppress
    BY <1>5, <2>3 DEF Snapshot
  <2>. QED BY <2>1, <2>2, <2>4 DEF State!Restore, saved
<1>. QED BY <1>13, <1>14

(* The part behind a candidate, laid out compactly, is a document. *)
LEMMA UnexpandType == ASSUME NEW E, Elements(E), NEW d \in Seq(E) PROVE Unexpand(d) \in Seq(E)
<1>. DEFINE piece(e) == CASE IsSpacing(e) /\ e.sp \in {Break, Softbreak} -> <<>>
                          [] IsSpacing(e) /\ e.sp \in {Space, Softspace} -> <<Sp(Hardspace)>>
                          [] OTHER -> <<e>>
            pieces == [i \in DOMAIN d |-> piece(d[i])]
<1>1. Unexpand(d) = FlattenSeq(pieces)
  BY DEF Unexpand
<1>2. ASSUME NEW e \in E PROVE piece(e) \in Seq(E)
  <2>1. Sp(Hardspace) \in E
    BY DEF Elements
  <2>. DEFINE space == Sp(Hardspace)
  <2>2. space \in E
    BY <2>1
  <2>. HIDE DEF space
  <2>3. <<>> \in Seq(E) /\ <<space>> \in Seq(E) /\ <<e>> \in Seq(E)
    BY <2>2
  <2>4. piece(e) = <<>> \/ piece(e) = <<space>> \/ piece(e) = <<e>>
    BY DEF space
  <2>. HIDE DEF piece
  <2>. QED BY <2>3, <2>4
<1>. HIDE DEF piece
<1>3. pieces \in Seq(Seq(E))
  <2>1. \A i \in 1..Len(d) : piece(d[i]) \in Seq(E)
    BY <1>2
  <2>. QED BY <2>1
<1>. HIDE DEF pieces
<1>. QED BY <1>1, <1>3, FlattenAppend

(* A trial begins: the part in front of the candidate is written. *)
LEMMA TrialBeginsStep ==
    ASSUME NEW E, Setting(E), LInv(E), TrialBegins
    PROVE  LInv(E)' /\ State!Write
<1>. DEFINE c == Head(Top.cands)
            t == Try(c.pre, c.prio \o c.post \o Top.la)
            f == [Top EXCEPT !.post = TRUE]
            la == Unexpand(c.post) \o Top.la
<1>1. /\ stack # <<>> /\ Top.k = "trial" /\ ~Top.post /\ Top.cands # <<>> /\ t.ok /\ Adopt(t)
      /\ stack' = Append(Append(Front(stack), f), DocFrame(c.prio, la))
  BY DEF TrialBegins, OnTrial
<1>2. Top \in TrialFrames(E) /\ Waiting(E, Front(stack)) /\ Innermost(E, Top, suppress)
  BY <1>1, TopKind, Split
<1>3. ~suppress
  BY <1>1, <1>2 DEF Innermost
<1>4. c \in Parts(E) /\ Top.la \in Seq(E)
  BY <1>1, <1>2, HeadTailProperties DEF TrialFrames
<1>. HIDE DEF c
<1>5. c.pre \in Seq(E) /\ c.prio \in Seq(E) /\ c.post \in Seq(E)
  BY <1>4 DEF Parts
<1>6. c.prio \o c.post \o Top.la \in Seq(E) /\ Unexpand(c.post) \o Top.la \in Seq(E)
  <2>1. c.prio \o c.post \o Top.la \in Seq(E)
    BY <1>4, <1>5, ConcatBoth
  <2>2. Unexpand(c.post) \in Seq(E)
    BY <1>5, UnexpandType DEF Setting
  <2>3. Unexpand(c.post) \o Top.la \in Seq(E)
    BY <1>4, <2>2, ConcatProperties
  <2>. QED BY <2>1, <2>3
<1>7. Writes(out', col', indents') /\ UNCHANGED <<didx, suppress>>
  <2>1. Writes(t.out, t.col, t.indents)
    BY <1>1, <1>5, <1>6, TryWrites DEF LInv
  <2>. QED BY <1>1, <2>1 DEF Adopt
<1>8. f \in TrialFrames(E) /\ f.cp = Top.cp /\ f.post /\ f.cands # <<>>
  BY <1>1, <1>2 DEF TrialFrames
<1>. HIDE DEF f, t
<1>9. /\ Waiting(E, Append(Front(stack), f))
      /\ Checkpoints(Append(Front(stack), f)) = Checkpoints(stack)
  BY <1>1, <1>2, <1>8, WaitingAppend, ReplaceTrial DEF Frames
<1>10. Waiting(E, stack') /\ Checkpoints(stack') = Checkpoints(stack)
  <2>. DEFINE fs == Append(Front(stack), f)
  <2>1. Waiting(E, fs) /\ la \in Seq(E) /\ Checkpoints(fs) = Checkpoints(stack)
    BY <1>6, <1>9
  <2>2. stack' = Append(fs, DocFrame(c.prio, la))
    BY <1>1
  <2>. HIDE DEF fs, la
  <2>3. Waiting(E, Append(fs, DocFrame(c.prio, la)))
        /\ Checkpoints(Append(fs, DocFrame(c.prio, la))) = Checkpoints(fs)
    BY <1>5, <2>1, PushDoc
  <2>. QED BY <2>1, <2>2, <2>3
<1>. QED BY <1>3, <1>7, <1>10, StackWaiting, WriteStep

(* A checkpoint is dropped: the output may grow, waiting frames are left.   *)
LEMMA DiscardStep ==
    ASSUME NEW E, LInv(E), stack # <<>>, Top \in TrialFrames(E),
           \/ UNCHANGED rvars
           \/ ~suppress /\ Writes(out', col', indents') /\ UNCHANGED <<didx, suppress>>,
           Waiting(E, stack'), Checkpoints(stack') = Checkpoints(Front(stack))
    PROVE  LInv(E)' /\ State!Discard
<1>. DEFINE rest == Checkpoints(Front(stack))
            saved == SavedIn(out, Checkpoints(stack))
<1>1. /\ saved # <<>> /\ MarksOK(rest, out)
      /\ SavedIn(out, rest) = SubSeq(saved, 1, Len(saved) - 1)
  BY TopSaved
<1>. HIDE DEF saved, rest
<1>2. RenderOK' /\ State!Extended(out, out') /\ out \in Seq(Int) /\ out' \in Seq(Int)
  <2>1. CASE UNCHANGED rvars
    BY <2>1, ConcatExtends DEF rvars, LInv, RenderOK, Based
  <2>2. CASE Writes(out', col', indents') /\ UNCHANGED <<didx, suppress>>
    BY <2>2 DEF Writes, LInv, RenderOK
  <2>. QED BY <2>1, <2>2
<1>3. MarksOK(rest, out') /\ SavedIn(out', rest) = SavedIn(out, rest)
  BY <1>1, <1>2, MarksExtended
<1>4. LInv(E)'
  BY <1>2, <1>3, StackWaiting DEF LInv, rest
<1>5. SavedIn(out', Checkpoints(stack')) = SubSeq(saved, 1, Len(saved) - 1)
  BY <1>1, <1>3 DEF rest
<1>6. State!Written \/ UNCHANGED <<out, col, indents, didx, suppress>>
  <2>1. CASE UNCHANGED rvars
    BY <2>1 DEF rvars
  <2>2. CASE ~suppress /\ Writes(out', col', indents') /\ UNCHANGED <<didx, suppress>>
    BY <2>2 DEF Writes, State!Written
  <2>. QED BY <2>1, <2>2
<1>. QED BY <1>1, <1>4, <1>5, <1>6 DEF State!Discard, saved

LEMMA TrialSucceedsStep ==
    ASSUME NEW E, Setting(E), LInv(E), TrialSucceeds
    PROVE  LInv(E)' /\ State!Discard
<1>. DEFINE c == Head(Top.cands)
<1>1. /\ stack # <<>> /\ Top.k = "trial" /\ Top.post
      /\ \/ suppress /\ stack' = Append(Front(stack), DocFrame(c.post, Top.la)) /\ UNCHANGED rvars
         \/ ~suppress /\ Try(c.post, Top.la).ok /\ Adopt(Try(c.post, Top.la)) /\ stack' = Front(stack)
  BY DEF TrialSucceeds, OnTrial
<1>2. Top \in TrialFrames(E) /\ Waiting(E, Front(stack)) /\ Innermost(E, Top, suppress)
  BY <1>1, TopKind, Split
<1>3. Top.cands # <<>>
  BY <1>1, <1>2 DEF Innermost
<1>4. c \in Parts(E) /\ Top.la \in Seq(E)
  BY <1>2, <1>3, HeadTailProperties DEF TrialFrames
<1>. HIDE DEF c
<1>5. c.post \in Seq(E)
  BY <1>4 DEF Parts
<1>6. CASE suppress
  <2>1. stack' = Append(Front(stack), DocFrame(c.post, Top.la)) /\ UNCHANGED rvars
    BY <1>1, <1>6
  <2>2. Waiting(E, stack') /\ Checkpoints(stack') = Checkpoints(Front(stack))
    BY <1>2, <1>4, <1>5, <2>1, PushDoc
  <2>. QED BY <1>1, <1>2, <2>1, <2>2, DiscardStep
<1>7. CASE ~suppress
  <2>. DEFINE t == Try(c.post, Top.la)
  <2>1. t.ok /\ Adopt(t) /\ stack' = Front(stack)
    BY <1>1, <1>7
  <2>2. Writes(t.out, t.col, t.indents)
    BY <1>4, <1>5, <2>1, TryWrites DEF LInv
  <2>. HIDE DEF t
  <2>3. Writes(out', col', indents') /\ UNCHANGED <<didx, suppress>>
    BY <2>1, <2>2 DEF Adopt
  <2>. QED BY <1>1, <1>2, <1>7, <2>1, <2>3, DiscardStep
<1>. QED BY <1>6, <1>7

LEMMA GiveUpStep ==
    ASSUME NEW E, LInv(E), GiveUpTrials
    PROVE  LInv(E)' /\ State!Discard
<1>1. /\ stack # <<>> /\ Top.k = "trial" /\ UNCHANGED rvars
      /\ stack' = Append(Front(stack), DocFrame(Top.body, Top.la))
  BY DEF GiveUpTrials, OnTrial
<1>2. Top \in TrialFrames(E) /\ Waiting(E, Front(stack)) /\ Top.body \in Seq(E) /\ Top.la \in Seq(E)
  BY <1>1, TopKind, Split DEF TrialFrames
<1>3. Waiting(E, stack') /\ Checkpoints(stack') = Checkpoints(Front(stack))
  BY <1>1, <1>2, PushDoc
<1>. QED BY <1>1, <1>2, <1>3, DiscardStep

-----------------------------------------------------------------------------
(* The refinement.                                                          *)

LEMMA LInvInit ==
    ASSUME NEW E, Setting(E), Group("Regular", doc) \in E, Init
    PROVE  LInv(E) /\ ActionsOK /\ State!Init
<1>1. PICK d \in Docs : doc = FixedUp(d) /\ actions \in ActionLists(Markers(d))
  BY DEF Init
<1>2. /\ out = <<>> /\ col = 0 /\ indents = <<Entry(0, 0)>> /\ didx = 0 /\ suppress = FALSE
      /\ stack = <<DocFrame(<<Group("Regular", doc)>>, <<>>)>>
  BY DEF Init
<1>3. Based(indents) /\ Entry(0, 0) = State!Base
  <2>1. Entry(0, 0) \in State!Entries /\ Entry(0, 0).nest = 0
    BY DEF Entry, State!Entries
  <2>. QED BY <1>2, <2>1 DEF Based, Entry, State!Base, State!Entry
<1>4. RenderOK
  <2>1. out \in Seq(Int) /\ col \in Nat /\ didx \in Nat
    BY <1>2
  <2>2. suppress \in BOOLEAN
    BY <1>2, Zenon
  <2>. QED BY <1>3, <2>1, <2>2 DEF RenderOK
<1>5. Waiting(E, <<>>)
  BY DEF Waiting
<1>6. Waiting(E, Append(<<>>, DocFrame(<<Group("Regular", doc)>>, <<>>)))
      /\ Checkpoints(Append(<<>>, DocFrame(<<Group("Regular", doc)>>, <<>>))) = <<>>
  <2>. DEFINE g == Group("Regular", doc)
  <2>1. g \in E
    OBVIOUS
  <2>. HIDE DEF g
  <2>2. <<g>> \in Seq(E) /\ <<>> \in Seq(E)
    BY <2>1
  <2>3. Waiting(E, Append(<<>>, DocFrame(<<g>>, <<>>)))
        /\ Checkpoints(Append(<<>>, DocFrame(<<g>>, <<>>))) = <<>>
    <3>. DEFINE todo == <<g>>
                la == <<>>
    <3>1. todo \in Seq(E) /\ la \in Seq(E)
      BY <2>2
    <3>. DEFINE fs == <<>>
    <3>2. Waiting(E, fs) /\ Checkpoints(fs) = <<>>
      BY <1>5, CheckpointsEmpty
    <3>. HIDE DEF todo, la, fs
    <3>3. Waiting(E, Append(fs, DocFrame(todo, la)))
          /\ Checkpoints(Append(fs, DocFrame(todo, la))) = Checkpoints(fs)
      BY <3>1, <3>2, PushDoc
    <3>. QED BY <3>2, <3>3 DEF fs, todo, la
  <2>. QED BY <2>3 DEF g
<1>7. stack = Append(<<>>, DocFrame(<<Group("Regular", doc)>>, <<>>))
  <2>1. \A x : Append(<<>>, x) = <<x>>
    OBVIOUS
  <2>. QED BY <1>2, <2>1
<1>8. StackOf(E, stack, suppress) /\ Checkpoints(stack) = <<>>
  BY <1>6, <1>7, StackWaiting
<1>9. MarksOK(<<>>, out) /\ SavedIn(out, <<>>) = <<>>
  BY DEF MarksOK, SavedIn
<1>10. ActionsOK
  <2>1. PICK n : actions \in [1..n -> {"Begin", "End", "Inert"}]
    BY <1>1 DEF ActionLists
  <2>. QED BY <2>1 DEF ActionsOK
<1>11. State!Init
  BY <1>2, <1>3, <1>8, <1>9 DEF State!Init
<1>. QED BY <1>4, <1>8, <1>9, <1>10, <1>11 DEF LInv

LEMMA ActionsKept == ASSUME ActionsOK, Next \/ UNCHANGED vars PROVE ActionsOK'
<1>1. actions' = actions
  BY DEF Next, vars, RenderText, RenderSpacing, SkipSuppressed, RenderDirective, EnterSuppressed,
         RenderCompact, RenderExpanded, StartTrials, TrialBegins, TrialRejected, TrialSucceeds,
         TrialFails, GiveUpTrials, Return, Finish, Terminated
<1>. QED BY <1>1 DEF ActionsOK

LEMMA LInvStep ==
    ASSUME NEW E, Setting(E), LInv(E), ActionsOK, Next \/ UNCHANGED vars
    PROVE  LInv(E)' /\ [State!Next]_(State!vars)
<1>1. CASE RenderText
  BY <1>1, RenderTextStep DEF State!Next
<1>2. CASE RenderSpacing
  BY <1>2, RenderSpacingStep DEF State!Next
<1>3. CASE SkipSuppressed
  BY <1>3, SkipStep
<1>4. CASE RenderDirective
  BY <1>4, RenderDirectiveStep DEF State!Next
<1>5. CASE EnterSuppressed \/ RenderExpanded
  BY <1>5, EnterStep
<1>6. CASE RenderCompact
  BY <1>6, RenderCompactStep DEF State!Next
<1>7. CASE StartTrials
  BY <1>7, StartTrialsStep DEF State!Next
<1>8. CASE TrialBegins
  BY <1>8, TrialBeginsStep DEF State!Next
<1>9. CASE TrialRejected \/ TrialFails
  BY <1>9, RestoreStep DEF State!Next
<1>10. CASE TrialSucceeds
  BY <1>10, TrialSucceedsStep DEF State!Next
<1>11. CASE GiveUpTrials
  BY <1>11, GiveUpStep DEF State!Next
<1>12. CASE Return
  BY <1>12, ReturnStep
<1>13. CASE Finish \/ Terminated \/ UNCHANGED vars
  <2>1. UNCHANGED <<rvars, stack>>
    BY <1>13 DEF Finish, Terminated, vars, rvars
  <2>. QED BY <2>1, StillStep
<1>. QED
  BY <1>1, <1>2, <1>3, <1>4, <1>5, <1>6, <1>7, <1>8, <1>9, <1>10, <1>11, <1>12, <1>13 DEF Next

(* The layout engine implements the promises of RenderState for every set   *)
(* of documents, whatever the walks over them answer: a checkpoint that     *)
(* holds the length of the output restores the state that was saved.        *)
THEOREM EngineKeepsPromises ==
    ASSUME NEW E, Setting(E), Laid(E)
    PROVE  Spec => KeepsPromises
<1>1. Init => LInv(E) /\ ActionsOK /\ State!Init
  BY LInvInit DEF Laid, Init
<1>2. LInv(E) /\ ActionsOK /\ [Next]_vars => LInv(E)' /\ ActionsOK' /\ [State!Next]_(State!vars)
  BY LInvStep, ActionsKept
<1>. QED BY <1>1, <1>2, PTL DEF Spec, KeepsPromises, State!Spec

-----------------------------------------------------------------------------
(* The cells of an output that show what was demanded.                      *)

InkOf(optional, c) == IF IsWhite(c) \/ c \in optional THEN <<>> ELSE <<c>>

LEMMA InkEmpty == ASSUME NEW optional PROVE Ink(optional, <<>>) = <<>>
<1>1. [i \in DOMAIN <<>> |-> IF IsWhite(<<>>[i]) \/ <<>>[i] \in optional THEN <<>> ELSE <<(<<>>[i])>>] = <<>>
  OBVIOUS
<1>. QED BY <1>1, FlattenEmpty DEF Ink

LEMMA InkAppend ==
    ASSUME NEW optional, NEW s \in Seq(Int), NEW c \in Int
    PROVE  /\ Ink(optional, s) \in Seq(Int) /\ InkOf(optional, c) \in Seq(Int)
           /\ Ink(optional, Append(s, c)) = Ink(optional, s) \o InkOf(optional, c)
<1>. DEFINE cell(x) == InkOf(optional, x)
            cells == [i \in DOMAIN s |-> cell(s[i])]
            more  == [i \in DOMAIN Append(s, c) |-> cell(Append(s, c)[i])]
<1>1. Ink(optional, s) = FlattenSeq(cells) /\ Ink(optional, Append(s, c)) = FlattenSeq(more)
  BY DEF Ink, InkOf
<1>3. \A x \in Int : cell(x) \in Seq(Int)
  BY DEF InkOf
<1>. HIDE DEF cell
<1>4. cells \in Seq(Seq(Int)) /\ Len(cells) = Len(s)
  <2>1. \A i \in 1..Len(s) : cell(s[i]) \in Seq(Int)
    BY <1>3, ElementOfSeq
  <2>. QED BY <2>1
<1>5. more = Append(cells, cell(c))
  <2>0. DOMAIN Append(s, c) = 1..(Len(s) + 1) /\ Len(s) \in Nat
    OBVIOUS
  <2>1. more \in Seq(Seq(Int)) /\ Len(more) = Len(s) + 1
        /\ \A i \in 1..(Len(s) + 1) : more[i] = cell(Append(s, c)[i])
    <3>1. \A i \in 1..(Len(s) + 1) : Append(s, c)[i] \in Int
      OBVIOUS
    <3>2. \A i \in 1..(Len(s) + 1) : cell(Append(s, c)[i]) \in Seq(Int)
      BY <1>3, <3>1
    <3>. QED BY <2>0, <3>2
  <2>. HIDE DEF more
  <2>2. Append(cells, cell(c)) \in Seq(Seq(Int)) /\ Len(Append(cells, cell(c))) = Len(s) + 1
    BY <1>3, <1>4
  <2>3. ASSUME NEW i \in 1..(Len(s) + 1) PROVE more[i] = Append(cells, cell(c))[i]
    <3>1. CASE i = Len(s) + 1
      <4>1. Append(s, c)[i] = c
        BY <3>1
      <4>2. Append(cells, cell(c))[Len(cells) + 1] = cell(c)
        BY <1>3, <1>4
      <4>. QED BY <1>4, <2>1, <3>1, <4>1, <4>2
    <3>2. CASE i # Len(s) + 1
      <4>1. i \in 1..Len(s) /\ Append(s, c)[i] = s[i] /\ cells[i] = cell(s[i])
        BY <2>0, <3>2
      <4>. QED BY <1>4, <2>1, <4>1
    <3>. QED BY <3>1, <3>2
  <2>. QED BY <2>1, <2>2, <2>3, SeqEqual
<1>. HIDE DEF cells, more
<1>6. FlattenSeq(cells) \in Seq(Int) /\ FlattenSeq(more) = FlattenSeq(cells) \o cell(c)
  BY <1>3, <1>4, <1>5, FlattenAppend
<1>. QED BY <1>1, <1>3, <1>6 DEF cell

LEMMA InkType == ASSUME NEW optional, NEW s \in Seq(Int) PROVE Ink(optional, s) \in Seq(Int)
<1>1. 0 \in Int
  OBVIOUS
<1>. QED BY <1>1, InkAppend

(* What is written behind shows behind. *)
LEMMA InkConcat ==
    ASSUME NEW optional, NEW a \in Seq(Int), NEW b \in Seq(Int)
    PROVE  Ink(optional, a \o b) = Ink(optional, a) \o Ink(optional, b)
<1>. DEFINE T == {s \in Seq(Int) : Ink(optional, a \o s) = Ink(optional, a) \o Ink(optional, s)}
<1>0. Ink(optional, a) \in Seq(Int)
  BY InkType
<1>1. <<>> \in T
  <2>1. Ink(optional, <<>>) = <<>>
    BY InkEmpty
  <2>. DEFINE e == <<>>
  <2>2. a \o e = a /\ Ink(optional, a) \o e = Ink(optional, a) /\ e \in Seq(Int)
        /\ Ink(optional, e) = e
    BY <1>0, <2>1, ConcatEmptySeq
  <2>. HIDE DEF e
  <2>3. Ink(optional, a \o e) = Ink(optional, a) \o Ink(optional, e)
    BY <2>2
  <2>4. e \in T
    BY <2>2, <2>3
  <2>. QED BY <2>4 DEF e
<1>2. ASSUME NEW s \in Seq(Int), NEW c \in Int, s \in T PROVE Append(s, c) \in T
  <2>. DEFINE p == Ink(optional, a)
              q == Ink(optional, s)
              r == InkOf(optional, c)
  <2>1. p \in Seq(Int) /\ q \in Seq(Int) /\ r \in Seq(Int) /\ a \o s \in Seq(Int)
    BY InkAppend, <1>0, InkType, ConcatProperties
  <2>2. a \o Append(s, c) = Append(a \o s, c)
    OBVIOUS
  <2>3. Ink(optional, Append(a \o s, c)) = Ink(optional, a \o s) \o r
        /\ Ink(optional, Append(s, c)) = q \o r
    BY <2>1, InkAppend
  <2>4. Ink(optional, a \o s) = p \o q
    BY <1>2
  <2>. HIDE DEF p, q, r
  <2>5. (p \o q) \o r = p \o (q \o r)
    <3>1. p \in Seq(Int) /\ q \in Seq(Int) /\ r \in Seq(Int)
      BY <2>1
    <3>2. Associates(p, q, r)
      BY <3>1, Associative
    <3>. QED BY <3>2 DEF Associates
  <2>6. Append(s, c) \in Seq(Int)
    OBVIOUS
  <2>. QED BY <2>2, <2>3, <2>4, <2>5, <2>6 DEF p
<1>. HIDE DEF T
<1>3. \A s \in Seq(Int) : s \in T
  BY <1>1, <1>2, SeqInd
<1>. QED BY <1>3 DEF T

(* White and optional cells show nothing, others themselves. *)
LEMMA InkNone ==
    ASSUME NEW optional, NEW s \in Seq(Int), \A i \in 1..Len(s) : IsWhite(s[i]) \/ s[i] \in optional
    PROVE  Ink(optional, s) = <<>>
<1>. DEFINE faint(t) == \A i \in 1..Len(t) : IsWhite(t[i]) \/ t[i] \in optional
            T == {t \in Seq(Int) : faint(t) => Ink(optional, t) = <<>>}
<1>1. <<>> \in T
  BY InkEmpty
<1>2. ASSUME NEW t \in Seq(Int), NEW c \in Int, t \in T PROVE Append(t, c) \in T
  <2>0. Append(t, c) \in Seq(Int)
    OBVIOUS
  <2>. SUFFICES ASSUME faint(Append(t, c)) PROVE Ink(optional, Append(t, c)) = <<>>
    BY <2>0
  <2>1. faint(t) /\ (IsWhite(c) \/ c \in optional)
    <3>1. /\ Len(t) \in Nat /\ Len(Append(t, c)) = Len(t) + 1 /\ Append(t, c)[Len(t) + 1] = c
          /\ \A i \in 1..Len(t) : Append(t, c)[i] = t[i]
      BY AppendProperties
    <3>2. Len(t) + 1 \in 1..Len(Append(t, c)) /\ \A i \in 1..Len(t) : i \in 1..Len(Append(t, c))
      BY <3>1
    <3>. QED BY <3>1, <3>2
  <2>2. InkOf(optional, c) = <<>> /\ Ink(optional, t) = <<>>
    BY <1>2, <2>1 DEF InkOf
  <2>3. Ink(optional, Append(t, c)) = Ink(optional, t) \o InkOf(optional, c)
    BY InkAppend
  <2>. QED BY <2>2, <2>3
<1>. HIDE DEF T
<1>3. \A t \in Seq(Int) : t \in T
  BY <1>1, <1>2, SeqInd
<1>. QED BY <1>3 DEF T

LEMMA InkAll ==
    ASSUME NEW optional, NEW s \in Seq(Int), \A i \in 1..Len(s) : ~IsWhite(s[i]) /\ s[i] \notin optional
    PROVE  Ink(optional, s) = s
<1>. DEFINE clear(t) == \A i \in 1..Len(t) : ~IsWhite(t[i]) /\ t[i] \notin optional
            T == {t \in Seq(Int) : clear(t) => Ink(optional, t) = t}
<1>1. <<>> \in T
  BY InkEmpty
<1>2. ASSUME NEW t \in Seq(Int), NEW c \in Int, t \in T PROVE Append(t, c) \in T
  <2>0. Append(t, c) \in Seq(Int)
    OBVIOUS
  <2>. SUFFICES ASSUME clear(Append(t, c)) PROVE Ink(optional, Append(t, c)) = Append(t, c)
    BY <2>0
  <2>1. clear(t) /\ ~IsWhite(c) /\ c \notin optional
    <3>1. /\ Len(t) \in Nat /\ Len(Append(t, c)) = Len(t) + 1 /\ Append(t, c)[Len(t) + 1] = c
          /\ \A i \in 1..Len(t) : Append(t, c)[i] = t[i]
      BY AppendProperties
    <3>2. Len(t) + 1 \in 1..Len(Append(t, c)) /\ \A i \in 1..Len(t) : i \in 1..Len(Append(t, c))
      BY <3>1
    <3>. QED BY <3>1, <3>2
  <2>2. InkOf(optional, c) = <<c>> /\ Ink(optional, t) = t
    BY <1>2, <2>1 DEF InkOf
  <2>3. Ink(optional, Append(t, c)) = Ink(optional, t) \o InkOf(optional, c)
    BY InkAppend
  <2>4. t \o <<c>> = Append(t, c)
    OBVIOUS
  <2>. QED BY <2>2, <2>3, <2>4
<1>. HIDE DEF T
<1>3. \A t \in Seq(Int) : t \in T
  BY <1>1, <1>2, SeqInd
<1>. QED BY <1>3 DEF T

(* A text shows its letters, a Trailing text nothing. *)
LEMMA TextInk ==
    ASSUME NEW E, Elements(E), NEW optional, Lettered(E, optional), NEW e \in E, IsText(e)
    PROVE  Ink(optional, e.txt) = IF e.kind = "Trailing" THEN <<>> ELSE e.txt
<1>1. e.txt \in Seq(Int)
  BY ElementKinds
<1>2. \A i \in 1..Len(e.txt) : e.txt[i] > 0 /\ (e.txt[i] \in optional <=> e.kind = "Trailing")
  BY <1>1 DEF Lettered
<1>3. \A c \in Int : c > 0 => ~IsWhite(c)
  BY DEF IsWhite, Feed, Blank, SoftGap
<1>4. CASE e.kind = "Trailing"
  BY <1>1, <1>2, <1>4, InkNone
<1>5. CASE e.kind # "Trailing"
  <2>1. \A i \in 1..Len(e.txt) : ~IsWhite(e.txt[i]) /\ e.txt[i] \notin optional
    BY <1>1, <1>2, <1>3, <1>5, ElementOfSeq
  <2>. QED BY <1>1, <1>5, <2>1, InkAll
<1>. QED BY <1>4, <1>5

(* Trimming takes white cells only. *)
LEMMA TrimmedInk ==
    ASSUME NEW optional, NEW s \in Seq(Int)
    PROVE  Trimmed(s) \in Seq(Int) /\ Ink(optional, Trimmed(s)) = Ink(optional, s)
<1>. DEFINE ink == {i \in DOMAIN s : ~IsWhite(s[i])}
<1>0. Len(s) \in Nat /\ DOMAIN s = 1..Len(s)
  OBVIOUS
<1>1. CASE ink = {}
  <2>1. \A i \in 1..Len(s) : IsWhite(s[i]) \/ s[i] \in optional
    BY <1>0, <1>1
  <2>2. Ink(optional, s) = <<>>
    BY <2>1, InkNone
  <2>3. Trimmed(s) = <<>> /\ Ink(optional, <<>>) = <<>>
    BY <1>1, InkEmpty DEF Trimmed
  <2>. QED BY <2>2, <2>3
<1>2. CASE ink # {}
  <2>. DEFINE a == CHOOSE i \in ink : \A j \in ink : i <= j
              b == CHOOSE i \in ink : \A j \in ink : i >= j
  <2>1. Trimmed(s) = SubSeq(s, a, b)
    BY <1>2 DEF Trimmed
  <2>2. ink \in SUBSET Nat /\ ink \in SUBSET (1..Len(s))
    BY <1>0
  <2>3. a \in ink /\ \A j \in ink : a <= j
    <3>. HIDE DEF ink
    <3>1. \E i \in ink : \A j \in ink : i <= j
      BY <1>2, <2>2, LeastNat
    <3>. QED BY <3>1
  <2>4. b \in ink /\ \A j \in ink : b >= j
    <3>. HIDE DEF ink
    <3>1. \E i \in ink : \A j \in ink : j <= i
      BY <1>0, <1>2, <2>2, LastPosition
    <3>2. \E i \in ink : \A j \in ink : i >= j
      BY <2>2, <3>1
    <3>. QED BY <3>2
  <2>. HIDE DEF a, b
  <2>5. a \in 1..Len(s) /\ b \in 1..Len(s) /\ a <= b
    BY <1>0, <2>3, <2>4
  <2>6. \A i \in 1..Len(s) : i < a \/ i > b => IsWhite(s[i])
    <3>1. ASSUME NEW i \in 1..Len(s), i < a \/ i > b PROVE IsWhite(s[i])
      <4>1. i \notin ink
        <5>. HIDE DEF ink
        <5>. QED BY <2>3, <2>4, <2>5, <3>1
      <4>. QED BY <1>0, <4>1
    <3>. QED BY <3>1
  <2>. HIDE DEF ink
  <2>. DEFINE pre == SubSeq(s, 1, a - 1)
              mid == SubSeq(s, a, b)
              post == SubSeq(s, b + 1, Len(s))
  <2>7. pre \in Seq(Int) /\ Ink(optional, pre) = <<>>
    <3>1. pre \in Seq(Int) /\ Len(pre) = a - 1 /\ \A i \in 1..(a - 1) : pre[i] = s[i]
      BY <1>0, <2>5, SubSeqProperties
    <3>. HIDE DEF pre
    <3>2. \A i \in 1..Len(pre) : IsWhite(pre[i]) \/ pre[i] \in optional
      BY <1>0, <2>5, <2>6, <3>1
    <3>. QED BY <3>1, <3>2, InkNone
  <2>8. post \in Seq(Int) /\ Ink(optional, post) = <<>>
    <3>1. post \in Seq(Int) /\ Len(post) = Len(s) - b /\ \A i \in 1..(Len(s) - b) : post[i] = s[b + i]
      <4>1. b + 1 \in Int /\ Len(s) \in Int /\ \A i \in (b + 1)..Len(s) : s[i] \in Int
        BY <1>0, <2>5
      <4>2. /\ SubSeq(s, b + 1, Len(s)) \in Seq(Int)
            /\ Len(SubSeq(s, b + 1, Len(s))) = IF b + 1 <= Len(s) THEN Len(s) - (b + 1) + 1 ELSE 0
            /\ \A i \in 1..(Len(s) - (b + 1) + 1) : SubSeq(s, b + 1, Len(s))[i] = s[(b + 1) + i - 1]
        <5>. DEFINE m == b + 1
                    n == Len(s)
        <5>1. m \in Int /\ n \in Int /\ \A i \in m..n : s[i] \in Int
          BY <4>1
        <5>. HIDE DEF m, n
        <5>2. /\ SubSeq(s, m, n) \in Seq(Int)
              /\ Len(SubSeq(s, m, n)) = IF m <= n THEN n - m + 1 ELSE 0
              /\ \A i \in 1..(n - m + 1) : SubSeq(s, m, n)[i] = s[m + i - 1]
          BY <5>1, SubSeqProperties
        <5>. QED BY <5>2 DEF m, n
      <4>. HIDE DEF post
      <4>3. post = SubSeq(s, b + 1, Len(s))
        BY DEF post
      <4>4. Len(post) = Len(s) - b
        <5>1. Len(post) = IF b + 1 <= Len(s) THEN Len(s) - (b + 1) + 1 ELSE 0
          BY <4>2, <4>3
        <5>2. b \in Nat /\ b <= Len(s)
          BY <2>5
        <5>3. \A n, m \in Nat : m <= n => (IF m + 1 <= n THEN n - (m + 1) + 1 ELSE 0) = n - m
          OBVIOUS
        <5>. QED BY <1>0, <5>1, <5>2, <5>3, Zenon
      <4>5. ASSUME NEW i \in 1..(Len(s) - b) PROVE post[i] = s[b + i]
        <5>1. i \in 1..(Len(s) - (b + 1) + 1) /\ (b + 1) + i - 1 = b + i
          BY <1>0, <2>5
        <5>. QED BY <4>2, <4>3, <5>1
      <4>. QED BY <4>2, <4>3, <4>4, <4>5
    <3>. HIDE DEF post
    <3>2. \A i \in 1..Len(post) : b + i \in 1..Len(s) /\ b + i > b
      BY <1>0, <2>5, <3>1
    <3>3. \A i \in 1..Len(post) : IsWhite(post[i]) \/ post[i] \in optional
      BY <1>0, <2>5, <2>6, <3>1, <3>2
    <3>. QED BY <3>1, <3>3, InkNone
  <2>9. mid \in Seq(Int)
    BY <1>0, <2>5, SubSeqProperties
  <2>10. s = pre \o (mid \o post)
    <3>1. CutsAt(s, a, b) /\ CutsAt(s, 1, a - 1)
      <4>1. a - 1 \in 0..Len(s) /\ 1 <= (a - 1) + 1 /\ b \in 0..Len(s) /\ a \in 1..(Len(s) + 1)
            /\ a <= b + 1 /\ 1 \in 1..(Len(s) + 1)
        BY <1>0, <2>5
      <4>. QED BY <4>1, CutJoin
    <3>2. mid \o post = SubSeq(s, a, Len(s))
          /\ pre \o SubSeq(s, (a - 1) + 1, Len(s)) = SubSeq(s, 1, Len(s))
      BY <3>1 DEF CutsAt
    <3>3. (a - 1) + 1 = a /\ SubSeq(s, 1, Len(s)) = s
      BY <1>0, <2>5, SubSeqFull
    <3>. QED BY <3>2, <3>3
  <2>. HIDE DEF pre, mid, post
  <2>11. Ink(optional, s) = Ink(optional, mid)
    <3>1. mid \o post \in Seq(Int)
      BY <2>8, <2>9, ConcatProperties
    <3>2. Ink(optional, s) = Ink(optional, pre) \o Ink(optional, mid \o post)
          /\ Ink(optional, mid \o post) = Ink(optional, mid) \o Ink(optional, post)
      BY <2>7, <2>8, <2>9, <2>10, <3>1, InkConcat
    <3>3. Ink(optional, mid) \in Seq(Int)
      BY <2>9, InkType
    <3>. QED BY <2>7, <2>8, <3>2, <3>3, ConcatEmptySeq
  <2>. QED BY <2>1, <2>9, <2>11 DEF mid
<1>. QED BY <1>1, <1>2

-----------------------------------------------------------------------------
(* Reading what the leaves of a document demand.                            *)
ReadStates == [k : Nat, live : BOOLEAN, cells : Seq(Int)]

(* A state that has read more letters. *)
With(st, more) == [st EXCEPT !.cells = @ \o more]

LEMMA WithType ==
    ASSUME NEW st \in ReadStates, NEW more \in Seq(Int)
    PROVE  /\ With(st, more) \in ReadStates /\ With(st, more).cells = st.cells \o more
           /\ With(st, more).k = st.k /\ With(st, more).live = st.live
<1>1. st.cells \o more \in Seq(Int)
  BY ConcatProperties DEF ReadStates
<1>. DEFINE longer == st.cells \o more
<1>2. With(st, more) = [st EXCEPT !.cells = longer]
  BY DEF With
<1>3. longer \in Seq(Int)
  BY <1>1
<1>. HIDE DEF longer
<1>4. /\ With(st, more) \in ReadStates /\ With(st, more).cells = longer
      /\ With(st, more).k = st.k /\ With(st, more).live = st.live
  BY <1>2, <1>3 DEF ReadStates
<1>. QED BY <1>4 DEF longer

LEMMA WithNone == ASSUME NEW st \in ReadStates PROVE With(st, <<>>) = st
<1>1. st.cells \o <<>> = st.cells
  BY ConcatEmptySeq DEF ReadStates
<1>2. With(st, <<>>) = [st EXCEPT !.cells = st.cells]
  BY <1>1 DEF With
<1>. QED BY <1>2 DEF ReadStates

(* A marker counts and does what its action says. *)
ActionAt(acts, k) == IF k + 1 \in DOMAIN acts THEN acts[k + 1] ELSE "Inert"

LEMMA DemandSpacing ==
    ASSUME NEW acts, NEW st \in ReadStates, NEW e, ~IsText(e)
    PROVE  DemandStep(acts, st, e) = st
<1>. DEFINE same == [st EXCEPT !.k = @ + 0, !.cells = @]
<1>1. DemandStep(acts, st, e) = same
  BY DEF DemandStep
<1>2. st.k + 0 = st.k
  BY DEF ReadStates
<1>. QED BY <1>1, <1>2 DEF ReadStates

LEMMA DemandText ==
    ASSUME NEW acts, NEW st \in ReadStates, NEW e, IsText(e), e.kind # "Directive"
    PROVE  DemandStep(acts, st, e) = IF st.live /\ e.kind # "Trailing" THEN With(st, e.txt) ELSE st
<1>. DEFINE more == IF st.live /\ e.kind # "Trailing" THEN st.cells \o e.txt ELSE st.cells
<1>1. DemandStep(acts, st, e) = [st EXCEPT !.k = @ + 0, !.cells = more]
  BY DEF DemandStep
<1>2. st.k + 0 = st.k
  BY DEF ReadStates
<1>3. DemandStep(acts, st, e) = [st EXCEPT !.cells = more]
  <2>. HIDE DEF more
  <2>. QED BY <1>1, <1>2 DEF ReadStates
<1>. QED BY <1>3 DEF With, ReadStates

LEMMA DemandMarker ==
    ASSUME NEW acts, NEW st \in ReadStates, NEW e, IsText(e), e.kind = "Directive"
    PROVE  /\ ActionAt(acts, st.k) = "Begin" =>
                DemandStep(acts, st, e) = [k |-> st.k + 1, live |-> FALSE,
                                           cells |-> Append(st.cells, Region(st.k + 1))]
           /\ ActionAt(acts, st.k) = "End" =>
                DemandStep(acts, st, e) = [k |-> st.k + 1, live |-> TRUE, cells |-> st.cells]
           /\ ActionAt(acts, st.k) \notin {"Begin", "End"} =>
                DemandStep(acts, st, e) = [k |-> st.k + 1, live |-> st.live,
                                           cells |-> IF st.live THEN st.cells \o e.txt ELSE st.cells]
<1>1. ASSUME ActionAt(acts, st.k) = "Begin"
      PROVE  DemandStep(acts, st, e) = [k |-> st.k + 1, live |-> FALSE,
                                        cells |-> Append(st.cells, Region(st.k + 1))]
  BY <1>1 DEF DemandStep, ActionAt
<1>2. ASSUME ActionAt(acts, st.k) = "End"
      PROVE  DemandStep(acts, st, e) = [k |-> st.k + 1, live |-> TRUE, cells |-> st.cells]
  <2>1. DemandStep(acts, st, e) = [st EXCEPT !.k = @ + 1, !.live = TRUE]
    BY <1>2 DEF DemandStep, ActionAt
  <2>. QED BY <2>1 DEF ReadStates
<1>3. ASSUME ActionAt(acts, st.k) \notin {"Begin", "End"}
      PROVE  DemandStep(acts, st, e) = [k |-> st.k + 1, live |-> st.live,
                                        cells |-> IF st.live THEN st.cells \o e.txt ELSE st.cells]
  <2>. DEFINE more == IF st.live THEN st.cells \o e.txt ELSE st.cells
  <2>1. DemandStep(acts, st, e) = [st EXCEPT !.k = @ + 1, !.cells = more]
    BY <1>3 DEF DemandStep, ActionAt
  <2>. HIDE DEF more
  <2>2. DemandStep(acts, st, e) = [k |-> st.k + 1, live |-> st.live, cells |-> more]
    BY <2>1 DEF ReadStates
  <2>. QED BY <2>2 DEF more
<1>. QED BY <1>1, <1>2, <1>3

LEMMA DemandStepType ==
    ASSUME NEW E, Elements(E), NEW e \in Leafs(E), NEW acts, NEW st \in ReadStates
    PROVE  DemandStep(acts, st, e) \in ReadStates
<1>1. e \in E /\ st.k + 1 \in Nat /\ st.cells \in Seq(Int) /\ st.live \in BOOLEAN
  BY DEF Leafs, ReadStates
<1>2. CASE ~IsText(e)
  BY <1>2, DemandSpacing
<1>3. CASE IsText(e) /\ e.kind # "Directive"
  <2>1. e.txt \in Seq(Int)
    BY <1>1, <1>3, ElementKinds
  <2>. QED BY <1>3, <2>1, DemandText, WithType
<1>4. CASE IsText(e) /\ e.kind = "Directive"
  <2>1. e.txt \in Seq(Int)
    BY <1>1, <1>4, ElementKinds
  <2>2. Region(st.k + 1) \in Int
    BY <1>1 DEF Region
  <2>. DEFINE r == Region(st.k + 1)
              m == st.k + 1
              cs == st.cells
              lv == st.live
  <2>3. Append(cs, r) \in Seq(Int) /\ cs \o e.txt \in Seq(Int) /\ cs \in Seq(Int)
    BY <1>1, <2>1, <2>2, ConcatProperties, AppendProperties
  <2>4. m \in Nat /\ lv \in BOOLEAN
    BY <1>1
  <2>5. \/ DemandStep(acts, st, e) = [k |-> m, live |-> FALSE, cells |-> Append(cs, r)]
        \/ DemandStep(acts, st, e) = [k |-> m, live |-> TRUE, cells |-> cs]
        \/ DemandStep(acts, st, e) = [k |-> m, live |-> lv, cells |-> IF lv THEN cs \o e.txt ELSE cs]
    BY <1>4, DemandMarker
  <2>. HIDE DEF r, m, cs, lv
  <2>. DEFINE longer == Append(cs, r)
              inked == IF lv THEN cs \o e.txt ELSE cs
  <2>6. longer \in Seq(Int) /\ inked \in Seq(Int) /\ cs \in Seq(Int)
    BY <2>3
  <2>. HIDE DEF longer, inked
  <2>7. \A c \in Seq(Int), b \in BOOLEAN : [k |-> m, live |-> b, cells |-> c] \in ReadStates
    BY <2>4 DEF ReadStates
  <2>8. \/ DemandStep(acts, st, e) = [k |-> m, live |-> FALSE, cells |-> longer]
        \/ DemandStep(acts, st, e) = [k |-> m, live |-> TRUE, cells |-> cs]
        \/ DemandStep(acts, st, e) = [k |-> m, live |-> lv, cells |-> inked]
    BY <2>5 DEF longer, inked
  <2>. QED BY <2>4, <2>6, <2>7, <2>8, Zenon
<1>. QED BY <1>2, <1>3, <1>4

ReadRun(f, acts, st, ls) ==
    /\ f[1] = st
    /\ \A p \in 1..Len(ls) : f[p + 1] = DemandStep(acts, f[p], ls[p])

IsRead(acts, st, ls) ==
    \E f \in [1..(Len(ls) + 1) -> ReadStates] :
        ReadRun(f, acts, st, ls) /\ Read(acts, st, ls) = f[Len(ls) + 1]

(* Reading runs through the leaves one by one. *)
LEMMA ReadRuns ==
    ASSUME NEW E, Elements(E), NEW acts, NEW st \in ReadStates, NEW ls \in Seq(Leafs(E))
    PROVE  IsRead(acts, st, ls)
<1>. DEFINE n == Len(ls) + 1
            step == [x \in ReadStates \X (1..n) |->
                       IF x[2] = 1 THEN x[1] ELSE DemandStep(acts, x[1], ls[x[2] - 1])]
            Rec(f) == f = [i \in 1..n |-> IF i = 1 THEN st ELSE DemandStep(acts, f[i - 1], ls[i - 1])]
            g == CHOOSE h : Rec(h)
<1>0. n \in Nat /\ n >= 1 /\ \A i \in 1..n : i # 1 => ls[i - 1] \in Leafs(E)
  OBVIOUS
<1>1. Read(acts, st, ls) = g[n]
  BY DEF Read
<1>. HIDE DEF n
<1>3. step \in [ReadStates \X (1..n) -> ReadStates]
  <2>1. ASSUME NEW x \in ReadStates \X (1..n), x[2] # 1
        PROVE  DemandStep(acts, x[1], ls[x[2] - 1]) \in ReadStates
    BY <1>0, <2>1, DemandStepType
  <2>. QED BY <2>1
<1>4. PICK f \in [1..n -> ReadStates] : IsRecursive(f, n, st, step)
  <2>. HIDE DEF step
  <2>1. HasRecursive(n, ReadStates, st, step)
    BY <1>0, <1>3, RecursionExists
  <2>. QED BY <2>1 DEF HasRecursive
<1>5. Rec(f)
  <2>1. ASSUME NEW p \in 1..n, p # 1 PROVE step[<<f[p - 1], p>>] = DemandStep(acts, f[p - 1], ls[p - 1])
    <3>1. p - 1 \in 1..n
      BY <1>0, <2>1
    <3>2. f[p - 1] \in ReadStates
      BY <3>1
    <3>. QED BY <2>1, <3>2
  <2>2. \A p \in 1..n : f[p] = IF p = 1 THEN st ELSE DemandStep(acts, f[p - 1], ls[p - 1])
    <3>. HIDE DEF step
    <3>. QED BY <1>4, <2>1 DEF IsRecursive
  <2>. HIDE DEF step
  <2>. QED BY <2>2
<1>6. Rec(g)
  <2>. HIDE DEF Rec
  <2>. QED BY <1>5
<1>. HIDE DEF g
<1>7. g[1] = st /\ \A p \in 1..n : p + 1 <= n => g[p + 1] = DemandStep(acts, g[p], ls[p])
  <2>1. g = [i \in 1..n |-> IF i = 1 THEN st ELSE DemandStep(acts, g[i - 1], ls[i - 1])]
    BY <1>6
  <2>2. g[1] = st
    BY <1>0, <2>1
  <2>3. ASSUME NEW p \in 1..n, p + 1 <= n PROVE g[p + 1] = DemandStep(acts, g[p], ls[p])
    <3>1. p + 1 \in 1..n /\ p + 1 # 1 /\ (p + 1) - 1 = p
      BY <1>0, <2>3
    <3>. QED BY <2>1, <3>1
  <2>. QED BY <2>2, <2>3
<1>8. g \in [1..n -> ReadStates]
  <2>1. g = [i \in 1..n |-> g[i]]
    BY <1>6
  <2>2. ASSUME NEW p \in 1..n, g[p] \in ReadStates, p + 1 <= n PROVE g[p + 1] \in ReadStates
    <3>1. p + 1 \in 1..n /\ p + 1 # 1 /\ (p + 1) - 1 = p
      BY <1>0, <2>2
    <3>2. ls[p] \in Leafs(E)
      BY <1>0, <3>1
    <3>. QED BY <1>7, <2>2, <3>2, DemandStepType
  <2>. QED BY <1>0, <1>7, <2>1, <2>2, RunTyped
<1>9. ReadRun(g, acts, st, ls)
  <2>1. ASSUME NEW p \in 1..Len(ls) PROVE g[p + 1] = DemandStep(acts, g[p], ls[p])
    <3>1. p \in 1..n /\ p + 1 <= n
      BY <1>0 DEF n
    <3>. QED BY <1>7, <3>1
  <2>. QED BY <1>7, <2>1 DEF ReadRun
<1>. QED BY <1>1, <1>8, <1>9 DEF n, IsRead

LEMMA ReadType ==
    ASSUME NEW E, Elements(E), NEW acts, NEW st \in ReadStates, NEW ls \in Seq(Leafs(E))
    PROVE  Read(acts, st, ls) \in ReadStates
<1>0. IsRead(acts, st, ls)
  BY ReadRuns
<1>1. PICK f \in [1..(Len(ls) + 1) -> ReadStates] : Read(acts, st, ls) = f[Len(ls) + 1]
  BY <1>0 DEF IsRead
<1>2. Len(ls) + 1 \in 1..(Len(ls) + 1)
  BY LenProperties
<1>. QED BY <1>1, <1>2

(* There is one way to read. *)
LEMMA ReadOnly ==
    ASSUME NEW E, Elements(E), NEW acts, NEW st \in ReadStates, NEW ls \in Seq(Leafs(E)),
           NEW g, ReadRun(g, acts, st, ls)
    PROVE  g[Len(ls) + 1] = Read(acts, st, ls)
<1>. DEFINE n == Len(ls) + 1
<1>0. n \in Nat /\ n >= 1 /\ Len(ls) = n - 1
  BY LenProperties
<1>0a. IsRead(acts, st, ls)
  BY ReadRuns
<1>1. PICK f \in [1..n -> ReadStates] : ReadRun(f, acts, st, ls) /\ Read(acts, st, ls) = f[n]
  BY <1>0a DEF IsRead
<1>. HIDE DEF n
<1>. DEFINE S == {p \in 1..n : f[p] = g[p]}
<1>2. 1 \in S
  BY <1>0, <1>1 DEF ReadRun
<1>3. \A p \in 1..n : p \in S /\ p + 1 <= n => p + 1 \in S
  <2>. SUFFICES ASSUME NEW p \in 1..n, p \in S, p + 1 <= n PROVE p + 1 \in S
    OBVIOUS
  <2>1. p \in 1..Len(ls) /\ p + 1 \in 1..n
    BY <1>0
  <2>2. f[p + 1] = DemandStep(acts, f[p], ls[p]) /\ g[p + 1] = DemandStep(acts, g[p], ls[p])
    BY <1>1, <2>1 DEF ReadRun
  <2>3. f[p] = g[p]
    OBVIOUS
  <2>. QED BY <2>1, <2>2, <2>3
<1>4. n \in S
  <2>. HIDE DEF S
  <2>1. 1..n \subseteq S
    BY <1>0, <1>2, <1>3, IntervalInd
  <2>. QED BY <1>0, <2>1
<1>. QED BY <1>1, <1>4 DEF n

LEMMA ReadEmpty ==
    ASSUME NEW E, Elements(E), NEW acts, NEW st \in ReadStates
    PROVE  Read(acts, st, <<>>) = st
<1>. DEFINE ls == <<>>
            g == [p \in 1..1 |-> st]
<1>1. ls \in Seq(Leafs(E)) /\ Len(ls) = 0 /\ g[1] = st
  OBVIOUS
<1>. HIDE DEF ls, g
<1>2. ReadRun(g, acts, st, ls)
  BY <1>1 DEF ReadRun
<1>3. g[Len(ls) + 1] = Read(acts, st, ls)
  BY <1>1, <1>2, ReadOnly
<1>. QED BY <1>1, <1>3 DEF ls

(* One more leaf is read behind the others. *)
LEMMA ReadAppend ==
    ASSUME NEW E, Elements(E), NEW acts, NEW st \in ReadStates, NEW ls \in Seq(Leafs(E)),
           NEW e \in Leafs(E)
    PROVE  Read(acts, st, Append(ls, e)) = DemandStep(acts, Read(acts, st, ls), e)
<1>. DEFINE n == Len(ls)
            more == Append(ls, e)
<1>1. /\ n \in Nat /\ more \in Seq(Leafs(E)) /\ Len(more) = n + 1 /\ more[n + 1] = e
      /\ \A i \in 1..n : more[i] = ls[i]
  BY AppendProperties
<1>. HIDE DEF more
<1>2. PICK f \in [1..(Len(more) + 1) -> ReadStates] :
        ReadRun(f, acts, st, more) /\ Read(acts, st, more) = f[Len(more) + 1]
  <2>1. IsRead(acts, st, more)
    BY <1>1, ReadRuns
  <2>. QED BY <2>1 DEF IsRead
<1>3. f[(n + 1) + 1] = DemandStep(acts, f[n + 1], e)
  <2>1. n + 1 \in 1..Len(more)
    BY <1>1
  <2>. QED BY <1>1, <1>2, <2>1 DEF ReadRun
<1>4. ReadRun(f, acts, st, ls)
  <2>1. ASSUME NEW p \in 1..Len(ls) PROVE f[p + 1] = DemandStep(acts, f[p], ls[p])
    <3>1. p \in 1..Len(more) /\ more[p] = ls[p]
      BY <1>1
    <3>. QED BY <1>2, <3>1 DEF ReadRun
  <2>. QED BY <1>2, <2>1 DEF ReadRun
<1>5. f[n + 1] = Read(acts, st, ls)
  BY <1>4, ReadOnly
<1>. QED BY <1>1, <1>2, <1>3, <1>5 DEF more

(* What is read in two parts is read part by part. *)
LEMMA ReadConcat ==
    ASSUME NEW E, Elements(E), NEW acts, NEW st \in ReadStates, NEW a \in Seq(Leafs(E)),
           NEW b \in Seq(Leafs(E))
    PROVE  Read(acts, st, a \o b) = Read(acts, Read(acts, st, a), b)
<1>. DEFINE mid == Read(acts, st, a)
            T == {s \in Seq(Leafs(E)) : Read(acts, st, a \o s) = Read(acts, mid, s)}
<1>0. mid \in ReadStates
  BY ReadType
<1>1. <<>> \in T
  <2>. HIDE DEF mid
  <2>1. Read(acts, mid, <<>>) = mid
    BY <1>0, ReadEmpty
  <2>2. a \o <<>> = a /\ <<>> \in Seq(Leafs(E))
    BY ConcatEmptySeq
  <2>. DEFINE e == <<>>
  <2>3. a \o e = a /\ e \in Seq(Leafs(E)) /\ Read(acts, mid, e) = mid
    BY <2>1, <2>2
  <2>. HIDE DEF e
  <2>4. Read(acts, st, a \o e) = Read(acts, mid, e)
    BY <2>3 DEF mid
  <2>5. e \in T
    BY <2>3, <2>4
  <2>. QED BY <2>5 DEF e
<1>2. ASSUME NEW s \in Seq(Leafs(E)), NEW e \in Leafs(E), s \in T PROVE Append(s, e) \in T
  <2>1. a \o s \in Seq(Leafs(E)) /\ Append(s, e) \in Seq(Leafs(E))
    BY ConcatProperties, AppendProperties
  <2>2. a \o Append(s, e) = Append(a \o s, e)
    OBVIOUS
  <2>. DEFINE as == a \o s
  <2>3. Read(acts, st, as) = Read(acts, mid, s) /\ as \in Seq(Leafs(E))
    BY <1>2, <2>1
  <2>. HIDE DEF mid, as
  <2>4. Read(acts, st, Append(as, e)) = DemandStep(acts, Read(acts, st, as), e)
    <3>1. as \in Seq(Leafs(E))
      BY <2>3
    <3>2. ASSUME NEW x \in Seq(Leafs(E))
          PROVE  Read(acts, st, Append(x, e)) = DemandStep(acts, Read(acts, st, x), e)
      BY ReadAppend
    <3>. QED BY <3>1, <3>2
  <2>5. Read(acts, mid, Append(s, e)) = DemandStep(acts, Read(acts, mid, s), e)
    BY <1>0, ReadAppend
  <2>6. Read(acts, st, a \o Append(s, e)) = Read(acts, mid, Append(s, e))
    BY <2>2, <2>3, <2>4, <2>5 DEF as
  <2>. QED BY <2>1, <2>6
<1>. HIDE DEF T
<1>3. \A s \in Seq(Leafs(E)) : s \in T
  BY <1>1, <1>2, SeqInd
<1>. QED BY <1>3 DEF T

(* Spacings are read over. *)
LEMMA ReadSpacings ==
    ASSUME NEW E, Elements(E), NEW acts, NEW st \in ReadStates, NEW ls \in Seq(Leafs(E)),
           \A i \in 1..Len(ls) : IsSpacing(ls[i])
    PROVE  Read(acts, st, ls) = st
<1>. DEFINE blank(s) == \A i \in 1..Len(s) : IsSpacing(s[i])
            T == {s \in Seq(Leafs(E)) : blank(s) => Read(acts, st, s) = st}
<1>1. <<>> \in T
  BY ReadEmpty
<1>2. ASSUME NEW s \in Seq(Leafs(E)), NEW e \in Leafs(E), s \in T PROVE Append(s, e) \in T
  <2>0. Append(s, e) \in Seq(Leafs(E))
    BY AppendProperties
  <2>. SUFFICES ASSUME blank(Append(s, e)) PROVE Read(acts, st, Append(s, e)) = st
    BY <2>0
  <2>1. blank(s) /\ IsSpacing(e)
    <3>1. /\ Len(s) \in Nat /\ Len(Append(s, e)) = Len(s) + 1 /\ Append(s, e)[Len(s) + 1] = e
          /\ \A i \in 1..Len(s) : Append(s, e)[i] = s[i]
      BY AppendProperties
    <3>2. Len(s) + 1 \in 1..Len(Append(s, e)) /\ \A i \in 1..Len(s) : i \in 1..Len(Append(s, e))
      BY <3>1
    <3>. QED BY <3>1, <3>2
  <2>2. ~IsText(e)
    BY <2>1 DEF IsText, IsSpacing
  <2>3. Read(acts, st, s) = st
    BY <1>2, <2>1
  <2>. QED BY <2>2, <2>3, ReadAppend, DemandSpacing
<1>. HIDE DEF T
<1>3. \A s \in Seq(Leafs(E)) : s \in T
  BY <1>1, <1>2, SeqInd
<1>. QED BY <1>3 DEF T

-----------------------------------------------------------------------------
(* What fits on a line is what is read.                                     *)
White(gap) == gap \in Seq(Int) /\ \A i \in 1..Len(gap) : IsWhite(gap[i])

LEMMA WhiteGaps ==
    /\ White(<<>>) /\ White(<<SoftGap>>) /\ White(<<Blank>>) /\ White(<<Feed>>)
    /\ \A n \in Nat : White(Spaces(n)) /\ White([i \in 1..n |-> Feed])
<1>1. SoftGap \in Int /\ Blank \in Int /\ Feed \in Int
      /\ IsWhite(SoftGap) /\ IsWhite(Blank) /\ IsWhite(Feed)
  BY DEF SoftGap, Blank, Feed, IsWhite
<1>2. ASSUME NEW c \in Int, IsWhite(c) PROVE White(<<c>>) /\ \A n \in Nat : White([i \in 1..n |-> c])
  BY <1>2 DEF White
<1>. QED BY <1>1, <1>2 DEF White, Spaces

LEMMA InkGap ==
    ASSUME NEW optional, NEW a \in Seq(Int), NEW gap, White(gap)
    PROVE  /\ Ink(optional, a \o gap) = Ink(optional, a)
           /\ Ink(optional, gap \o a) = Ink(optional, a)
           /\ a \o gap \in Seq(Int) /\ gap \o a \in Seq(Int)
<1>1. gap \in Seq(Int) /\ Ink(optional, gap) = <<>>
  <2>1. gap \in Seq(Int) /\ \A i \in 1..Len(gap) : IsWhite(gap[i]) \/ gap[i] \in optional
    BY DEF White
  <2>. QED BY <2>1, InkNone
<1>2. Ink(optional, a \o gap) = Ink(optional, a) \o Ink(optional, gap)
      /\ Ink(optional, gap \o a) = Ink(optional, gap) \o Ink(optional, a)
  BY <1>1, InkConcat
<1>3. Ink(optional, a) \in Seq(Int)
  BY InkType
<1>4. Ink(optional, a) \o <<>> = Ink(optional, a) /\ <<>> \o Ink(optional, a) = Ink(optional, a)
  BY <1>3, ConcatEmptySeq
<1>. QED BY <1>1, <1>2, <1>4, ConcatProperties

(* A gap, letters: only the letters show. *)
LEMMA InkBehind ==
    ASSUME NEW optional, NEW a \in Seq(Int), NEW gap, White(gap), NEW t \in Seq(Int)
    PROVE  /\ Ink(optional, a \o (gap \o t)) = Ink(optional, a) \o Ink(optional, t)
           /\ a \o (gap \o t) \in Seq(Int)
           /\ a \o (gap \o t) = (a \o gap) \o t
<1>. DEFINE more == gap \o t
<1>1. more \in Seq(Int) /\ Ink(optional, more) = Ink(optional, t)
  BY InkGap
<1>2. Associates(a, gap, t)
  <2>1. gap \in Seq(Int)
    BY DEF White
  <2>. QED BY <2>1, Associative
<1>3. (a \o gap) \o t = a \o more
  BY <1>2 DEF Associates
<1>. HIDE DEF more
<1>4. Ink(optional, a \o more) = Ink(optional, a) \o Ink(optional, more) /\ a \o more \in Seq(Int)
  BY <1>1, InkConcat, ConcatProperties
<1>. QED BY <1>1, <1>3, <1>4 DEF more

LEMMA WithWith ==
    ASSUME NEW st \in ReadStates, NEW a \in Seq(Int), NEW b \in Seq(Int)
    PROVE  With(With(st, a), b) = With(st, a \o b)
<1>. DEFINE cs == st.cells
            one == cs \o a
            both == a \o b
            two == one \o b
            all == cs \o both
<1>1. cs \in Seq(Int)
  BY DEF ReadStates
<1>2. two = all
  <2>1. Associates(cs, a, b)
    BY <1>1, Associative
  <2>. QED BY <2>1 DEF Associates
<1>3. With(st, a) = [st EXCEPT !.cells = one] /\ With(st, both) = [st EXCEPT !.cells = all]
      /\ With(With(st, a), b) = [With(st, a) EXCEPT !.cells = two]
  <2>1. With(st, a) = [st EXCEPT !.cells = one] /\ With(st, both) = [st EXCEPT !.cells = all]
    BY DEF With
  <2>2. With(st, a).cells = one
    BY WithType
  <2>. QED BY <2>1, <2>2 DEF With
<1>. HIDE DEF one, two, all, both
<1>4. With(With(st, a), b) = With(st, both)
  BY <1>2, <1>3 DEF ReadStates
<1>. QED BY <1>4 DEF both

(* A step that fits shows what reading its leaf demands. *)
ShowsStep(optional, acts, st, s, e) ==
    s.ok /\ DemandStep(acts, With(st, Ink(optional, s.out)), e) = With(st, Ink(optional, FitStep(s, e).out))

LEMMA FitStepInk ==
    ASSUME NEW E, Elements(E), NEW optional, Lettered(E, optional), NEW acts,
           NEW st \in ReadStates, st.live, NEW e \in Leafs(E), NEW s \in FitStates, FitStep(s, e).ok
    PROVE  ShowsStep(optional, acts, st, s, e)
<1>1. e \in E /\ (IsText(e) \/ IsSpacing(e)) /\ ~(IsText(e) /\ IsSpacing(e))
  BY ElementKinds DEF Leafs
<1>2. s.ok
  BY DEF FitStep
<1>3. s.out \in Seq(Int) /\ Ink(optional, s.out) \in Seq(Int)
  <2>1. s.out \in Seq(Int)
    BY DEF FitStates
  <2>. QED BY <2>1, InkType
<1>. DEFINE ink == Ink(optional, s.out)
            now == With(st, ink)
<1>4. now \in ReadStates /\ now.live
  BY <1>3, WithType
<1>5. CASE IsSpacing(e)
  <2>1. FitStep(s, e) = [s EXCEPT !.pending = Join(@, e.sp)]
    BY <1>1, <1>2, <1>5 DEF FitStep
  <2>2. FitStep(s, e).out = s.out
    BY <2>1 DEF FitStates
  <2>3. DemandStep(acts, now, e) = now
    <3>. HIDE DEF now
    <3>. QED BY <1>1, <1>4, <1>5, DemandSpacing
  <2>. QED BY <1>2, <2>2, <2>3 DEF ShowsStep
<1>6. CASE IsText(e)
  <2>. DEFINE p == FitPending(s)
  <2>1. p \in FitStates /\ p.ok /\ FitText(p, e).ok /\ FitStep(s, e) = FitText(p, e)
    <3>1. FitStep(s, e) = IF p.ok THEN FitText(p, e) ELSE p
      BY <1>1, <1>2, <1>6 DEF FitStep
    <3>2. p \in FitStates
      BY FitPendingType
    <3>. HIDE DEF p
    <3>. QED BY <3>1, <3>2
  <2>2. PICK gap \in {<<>>, <<SoftGap>>, <<Blank>>} : p.out = s.out \o gap
    BY <2>1, FitPendingType
  <2>3. White(gap)
    BY <2>2, WhiteGaps
  <2>. HIDE DEF p
  <2>4. Ink(optional, p.out) = ink /\ p.out \in Seq(Int)
    BY <1>3, <2>2, <2>3, InkGap
  <2>5. /\ e.kind # "Directive"
        /\ e.kind = "Trailing" => FitText(p, e).out = p.out
        /\ e.kind # "Trailing" => \E g \in {<<>>, <<Blank>>} : FitText(p, e).out = p.out \o (g \o e.txt)
    BY <1>1, <1>6, <2>1, FitTextType
  <2>6. e.txt \in Seq(Int) /\ Ink(optional, e.txt) = IF e.kind = "Trailing" THEN <<>> ELSE e.txt
    BY <1>1, <1>6, ElementKinds, TextInk
  <2>7. CASE e.kind = "Trailing"
    <3>1. DemandStep(acts, now, e) = now
      <4>. HIDE DEF now
      <4>. QED BY <1>4, <1>6, <2>5, <2>7, DemandText
    <3>. QED BY <1>2, <2>1, <2>4, <2>5, <2>7, <3>1 DEF ShowsStep
  <2>8. CASE e.kind # "Trailing"
    <3>1. PICK g \in {<<>>, <<Blank>>} : FitText(p, e).out = p.out \o (g \o e.txt)
      BY <2>5, <2>8
    <3>2. White(g)
      BY <3>1, WhiteGaps
    <3>3. Ink(optional, FitText(p, e).out) = ink \o e.txt
      <4>. DEFINE a == p.out
                  t == e.txt
      <4>2. a \in Seq(Int) /\ t \in Seq(Int)
        BY <2>4, <2>6
      <4>. HIDE DEF a, t
      <4>3. Ink(optional, a \o (g \o t)) = Ink(optional, a) \o Ink(optional, t)
        BY <3>2, <4>2, InkBehind
      <4>1. Ink(optional, p.out \o (g \o e.txt)) = Ink(optional, p.out) \o Ink(optional, e.txt)
        BY <4>3 DEF a, t
      <4>. QED BY <2>4, <2>6, <2>8, <3>1, <4>1
    <3>4. DemandStep(acts, now, e) = With(now, e.txt)
      <4>. HIDE DEF now
      <4>. QED BY <1>4, <1>6, <2>5, <2>8, DemandText
    <3>5. With(now, e.txt) = With(st, ink \o e.txt)
      <4>. HIDE DEF ink
      <4>1. ink \in Seq(Int)
        BY <1>3 DEF ink
      <4>. QED BY <2>6, <4>1, WithWith
    <3>. QED BY <1>2, <2>1, <3>3, <3>4, <3>5 DEF ShowsStep
  <2>. QED BY <2>7, <2>8
<1>. QED BY <1>1, <1>5, <1>6

(* A document that fits on the line shows what it demands. *)
LEMMA FitsInk ==
    ASSUME NEW E, Elements(E), NEW optional, Lettered(E, optional), NEW acts,
           NEW st \in ReadStates, st.live, NEW delta \in Int, NEW budget \in Int,
           NEW chain, LeavesOf(chain) \in Seq(Leafs(E)), Fits(delta, budget, chain).ok
    PROVE  Read(acts, st, LeavesOf(chain)) = With(st, Ink(optional, Fits(delta, budget, chain).out))
<1>. DEFINE ls == LeavesOf(chain)
            n  == Len(ls) + 1
            fit == Fits(delta, budget, chain)
<1>0. n \in Nat /\ n >= 1 /\ Len(ls) = n - 1 /\ ls \in Seq(Leafs(E))
  BY LenProperties
<1>1. PICK f \in [1..n -> FitStates] :
        FitRun(f, delta, budget, ls) /\ fit = IF f[n].ok THEN FitPending(f[n]) ELSE f[n]
  BY FitsRuns
<1>2. f[n] \in FitStates /\ f[n].ok /\ fit = FitPending(f[n])
  <2>1. n \in 1..n
    BY <1>0
  <2>2. f[n] \in FitStates
    BY <2>1
  <2>3. fit.ok
    OBVIOUS
  <2>. HIDE DEF n, fit
  <2>. QED BY <1>1, <2>2, <2>3
<1>. HIDE DEF fit, ls
<1>3. PICK g \in [1..n -> ReadStates] : ReadRun(g, acts, st, ls) /\ Read(acts, st, ls) = g[n]
  <2>1. IsRead(acts, st, ls)
    BY <1>0, ReadRuns
  <2>. QED BY <2>1 DEF IsRead
<1>. HIDE DEF n
<1>4. f[1].out = <<>>
  BY <1>1 DEF FitRun, FitStart
<1>. DEFINE S == {p \in 1..n : f[p].ok => g[p] = With(st, Ink(optional, f[p].out))}
<1>5. 1 \in S
  <2>1. g[1] = st /\ Ink(optional, <<>>) = <<>> /\ With(st, <<>>) = st
    BY <1>3, InkEmpty, WithNone DEF ReadRun
  <2>. QED BY <1>0, <1>4, <2>1
<1>6. \A p \in 1..n : p \in S /\ p + 1 <= n => p + 1 \in S
  <2>. SUFFICES ASSUME NEW p \in 1..n, p \in S, p + 1 <= n, f[p + 1].ok
                PROVE  g[p + 1] = With(st, Ink(optional, f[p + 1].out))
    OBVIOUS
  <2>1. p \in 1..Len(ls) /\ p + 1 \in 1..n
    BY <1>0
  <2>2. f[p + 1] = FitStep(f[p], ls[p]) /\ g[p + 1] = DemandStep(acts, g[p], ls[p])
    BY <1>1, <1>3, <2>1 DEF FitRun, ReadRun
  <2>3. ls[p] \in Leafs(E) /\ f[p] \in FitStates
    BY <1>0, <2>1, ElementOfSeq
  <2>. DEFINE s == f[p]
              e == ls[p]
  <2>4. s.ok /\ DemandStep(acts, With(st, Ink(optional, s.out)), e)
                = With(st, Ink(optional, FitStep(s, e).out))
    <3>1. s \in FitStates /\ e \in Leafs(E) /\ FitStep(s, e).ok
      BY <2>2, <2>3
    <3>. HIDE DEF s, e
    <3>2. ShowsStep(optional, acts, st, s, e)
      BY <3>1, FitStepInk
    <3>. QED BY <3>2 DEF ShowsStep
  <2>5. g[p] = With(st, Ink(optional, s.out))
    BY <2>4
  <2>. QED BY <2>2, <2>4, <2>5
<1>7. n \in S
  <2>. HIDE DEF S
  <2>1. 1..n \subseteq S
    BY <1>0, <1>5, <1>6, IntervalInd
  <2>. QED BY <1>0, <2>1
<1>8. g[n] = With(st, Ink(optional, f[n].out))
  BY <1>2, <1>7
<1>9. Ink(optional, fit.out) = Ink(optional, f[n].out)
  <2>. DEFINE s == f[n]
  <2>1. s \in FitStates /\ s.ok /\ fit = FitPending(s) /\ fit.ok
    BY <1>2 DEF fit
  <2>. HIDE DEF s
  <2>2. PICK gap \in {<<>>, <<SoftGap>>, <<Blank>>} : fit.out = s.out \o gap
    BY <2>1, FitPendingType
  <2>3. White(gap) /\ s.out \in Seq(Int)
    BY <2>1, <2>2, WhiteGaps DEF FitStates
  <2>. QED BY <2>2, <2>3, InkGap DEF s
<1>. QED BY <1>3, <1>8, <1>9 DEF fit, ls

-----------------------------------------------------------------------------
(* What the engine shows of what it has written.                            *)
Shown(optional, d, quiet, cells) == [k |-> d, live |-> ~quiet, cells |-> Ink(optional, cells)]

LEMMA ShownType ==
    ASSUME NEW optional, NEW d \in Nat, NEW quiet \in BOOLEAN, NEW cells \in Seq(Int)
    PROVE  /\ Shown(optional, d, quiet, cells) \in ReadStates
           /\ Shown(optional, d, quiet, cells).live = ~quiet
           /\ Shown(optional, d, quiet, cells).k = d
           /\ Shown(optional, d, quiet, cells).cells = Ink(optional, cells)
<1>1. Ink(optional, cells) \in Seq(Int)
  BY InkType
<1>. QED BY <1>1 DEF Shown, ReadStates

(* What is written more shows more. *)
LEMMA ShownMore ==
    ASSUME NEW optional, NEW d \in Nat, NEW quiet \in BOOLEAN, NEW a \in Seq(Int), NEW b \in Seq(Int)
    PROVE  With(Shown(optional, d, quiet, a), Ink(optional, b)) = Shown(optional, d, quiet, a \o b)
<1>. DEFINE ia == Ink(optional, a)
            ib == Ink(optional, b)
            both == Ink(optional, a \o b)
            lv == ~quiet
<1>1. both = ia \o ib
  BY InkConcat
<1>2. Shown(optional, d, quiet, a) = [k |-> d, live |-> lv, cells |-> ia]
      /\ Shown(optional, d, quiet, a \o b) = [k |-> d, live |-> lv, cells |-> both]
  BY DEF Shown
<1>. HIDE DEF ia, ib, both, lv
<1>3. With(Shown(optional, d, quiet, a), ib) = [k |-> d, live |-> lv, cells |-> both]
  <2>1. [[k |-> d, live |-> lv, cells |-> ia] EXCEPT !.cells = both] = [k |-> d, live |-> lv, cells |-> both]
    OBVIOUS
  <2>2. [k |-> d, live |-> lv, cells |-> ia].cells = ia
    OBVIOUS
  <2>. DEFINE from == [k |-> d, live |-> lv, cells |-> ia]
  <2>3. from.cells = ia
    BY <2>2
  <2>. HIDE DEF from
  <2>4. With(from, ib) = [from EXCEPT !.cells = both]
    BY <1>1, <2>3 DEF With
  <2>. QED BY <1>2, <2>1, <2>4 DEF from
<1>. QED BY <1>2, <1>3 DEF ib

(* Spacings in front of a document demand nothing. *)
LEMMA DroppedShows ==
    ASSUME NEW E, Setting(E), WalksKeepTexts(Seq(E)), NEW acts, NEW st \in ReadStates, NEW d \in Seq(E)
    PROVE  Read(acts, st, LeavesOf(SpacingDropped(d))) = Read(acts, st, LeavesOf(d))
<1>. DEFINE ls == LeavesOf(d)
<1>1. Elements(E) /\ ls \in Seq(Leafs(E))
  BY DEF Setting, WalksTyped, Leafs
<1>2. PICK n \in 0..Len(ls) : /\ \A i \in 1..n : IsSpacing(ls[i])
                             /\ LeavesOf(SpacingDropped(d)) = SubSeq(ls, n + 1, Len(ls))
  BY DEF WalksKeepTexts
<1>. HIDE DEF ls
<1>. DEFINE pre  == SubSeq(ls, 1, n)
            rest == SubSeq(ls, n + 1, Len(ls))
<1>3. Len(ls) \in Nat /\ n \in Nat /\ n <= Len(ls)
  BY <1>1, LenProperties
<1>4. pre \in Seq(Leafs(E)) /\ \A i \in 1..Len(pre) : IsSpacing(pre[i])
  <2>1. \A i \in 1..n : ls[i] \in Leafs(E)
    BY <1>1, <1>3
  <2>2. pre \in Seq(Leafs(E)) /\ Len(pre) = n /\ \A i \in 1..n : pre[i] = ls[i]
    BY <1>3, <2>1, SubSeqProperties
  <2>. HIDE DEF pre
  <2>. QED BY <1>2, <2>2
<1>5. rest \in Seq(Leafs(E))
  <2>1. n + 1 \in Int /\ Len(ls) \in Int /\ \A i \in (n + 1)..Len(ls) : ls[i] \in Leafs(E)
    BY <1>1, <1>3
  <2>. QED BY <2>1, SubSeqProperties
<1>6. pre \o rest = ls
  <2>1. CutsAt(ls, 1, n)
    <3>1. 1 \in 1..(Len(ls) + 1) /\ 1 <= n + 1 /\ n \in 0..Len(ls)
      BY <1>3
    <3>. QED BY <1>1, <3>1, CutJoin
  <2>2. SubSeq(ls, 1, Len(ls)) = ls
    BY <1>1, SubSeqFull
  <2>. QED BY <2>1, <2>2 DEF CutsAt
<1>. HIDE DEF pre, rest
<1>7. Read(acts, st, pre) = st
  BY <1>1, <1>4, ReadSpacings
<1>8. Read(acts, st, pre \o rest) = Read(acts, Read(acts, st, pre), rest)
  BY <1>1, <1>4, <1>5, ReadConcat
<1>. QED BY <1>2, <1>6, <1>7, <1>8 DEF ls, rest

(* A group laid out compact shows what it demands. *)
TryShows(acts, optional, grp, la) ==
    Read(acts, Shown(optional, didx, FALSE, out), LeavesOf(grp))
      = Shown(optional, didx, FALSE, Try(grp, la).out)

LEMMA TryInk ==
    ASSUME NEW E, Setting(E), WalksKeepTexts(Seq(E)), NEW optional, Lettered(E, optional), NEW acts,
           RenderOK, NEW grp \in Seq(E), NEW la \in Seq(E), Try(grp, la).ok
    PROVE  TryShows(acts, optional, grp, la)
<1>. DEFINE st == Shown(optional, didx, FALSE, out)
<1>0. Elements(E) /\ out \in Seq(Int) /\ didx \in Nat /\ col \in Nat /\ Based(indents)
  BY DEF Setting, RenderOK
<1>1. st \in ReadStates /\ st.live
  BY <1>0, ShownType
<1>2. \A d \in Seq(E) : LeavesOf(d) \in Seq(Leafs(E))
  BY DEF Setting, WalksTyped, Leafs
<1>3. LineNest \in Nat /\ IndentWidth \in Nat /\ TargetWidth \in Nat
  BY <1>0, IndentTypes, RendererAssumption DEF LineNest
<1>4. FirstLineWidth(la) \in Nat /\ \A m \in Nat : WillIncrease(la, m) \in Nat
  BY <1>0, <1>2, <1>3, LineWidthType DEF WillIncrease
<1>. DEFINE Shows(d, line, gap) ==
              /\ Read(acts, st, LeavesOf(d)) = Shown(optional, didx, FALSE, out \o (gap \o line.out))
              /\ out \o (gap \o line.out) = out \o gap \o line.out
<1>5. ASSUME NEW d \in Seq(E), NEW delta \in Int, NEW budget \in Int, Fits(delta, budget, d).ok,
             NEW gap, White(gap)
      PROVE  Shows(d, Fits(delta, budget, d), gap)
  <2>. DEFINE line == Fits(delta, budget, d).out
  <2>1. LeavesOf(d) \in Seq(Leafs(E))
    BY <1>2
  <2>2. line \in Seq(Int)
    BY <1>0, <2>1, FitsType DEF FitStates
  <2>. HIDE DEF st
  <2>3. Read(acts, st, LeavesOf(d)) = With(st, Ink(optional, line))
    BY <1>0, <1>1, <1>5, <2>1, FitsInk
  <2>. HIDE DEF line
  <2>4. gap \o line \in Seq(Int) /\ Ink(optional, gap \o line) = Ink(optional, line)
    BY <1>5, <2>2, InkGap
  <2>. DEFINE more == gap \o line
  <2>5. out \o more = (out \o gap) \o line
    BY <1>0, <1>5, <2>2, InkBehind
  <2>6. more \in Seq(Int) /\ Ink(optional, more) = Ink(optional, line)
    BY <2>4
  <2>. HIDE DEF more
  <2>7. With(st, Ink(optional, more)) = Shown(optional, didx, FALSE, out \o more)
    BY <1>0, <2>6, ShownMore DEF st
  <2>8. Read(acts, st, LeavesOf(d)) = Shown(optional, didx, FALSE, out \o more)
    BY <2>3, <2>6, <2>7
  <2>. QED BY <2>2, <2>5, <2>8 DEF line, more
<1>. HIDE DEF st, Shows
<1>6. CASE grp = <<>>
  <2>1. Try(grp, la).out = out
    BY <1>6 DEF Try
  <2>2. LeavesOf(grp) = <<>>
    BY <1>6 DEF WalksKeepTexts
  <2>3. Read(acts, st, <<>>) = st
    BY <1>0, <1>1, ReadEmpty
  <2>. QED BY <2>1, <2>2, <2>3 DEF TryShows, st
<1>7. CASE grp # <<>> /\ col = 0
  <2>. DEFINE g    == SpacingDropped(grp)
              ni   == IndentAhead(g)
              m    == LineNest + (IF ni[1] > LineNest THEN IndentWidth ELSE 0)
              w    == WillIncrease(la, m)
              c    == TargetWidth - FirstLineWidth(la)
              line == Fits(w, c, g)
              low  == Settle(ni[1], IndentWidth)
              gap  == Spaces(IndentOf(low) + ni[2])
  <2>1. Try(grp, la).ok = line.ok /\ Try(grp, la).out = out \o gap \o line.out
    BY <1>7 DEF Try, TryAtLineStart
  <2>2. g \in Seq(E)
    BY DEF Setting, WalksTyped
  <2>3. Read(acts, st, LeavesOf(g)) = Read(acts, st, LeavesOf(grp))
    BY <1>1, DroppedShows
  <2>. HIDE DEF g
  <2>4. ni[1] \in Nat /\ ni[2] \in Nat
    BY <2>2 DEF Setting, WalksTyped
  <2>. HIDE DEF ni
  <2>5. w \in Int /\ c \in Int
    <3>1. m \in Nat
      BY <1>3, <2>4
    <3>. HIDE DEF m
    <3>. QED BY <1>3, <1>4, <3>1
  <2>6. White(gap)
    <3>1. Based(low)
      BY <1>0, <1>3, <2>4, SettleSettles
    <3>. HIDE DEF low
    <3>2. IndentOf(low) + ni[2] \in Nat
      BY <2>4, <3>1, IndentTypes
    <3>. QED BY <3>2, WhiteGaps
  <2>. HIDE DEF gap, w, c
  <2>7. line.ok
    BY <2>1
  <2>8. Read(acts, st, LeavesOf(g)) = Shown(optional, didx, FALSE, out \o gap \o line.out)
    <3>1. Shows(g, Fits(w, c, g), gap)
      BY <1>5, <2>2, <2>5, <2>6, <2>7
    <3>. QED BY <3>1 DEF Shows
  <2>. QED BY <2>1, <2>3, <2>8 DEF TryShows, st
<1>8. CASE grp # <<>> /\ col # 0
  <2>. DEFINE w == WillIncrease(la, LineNest) - col
              c == TargetWidth - col - FirstLineWidth(la)
              line == Fits(w, c, grp)
              none == <<>>
  <2>1. Try(grp, la).ok = line.ok /\ Try(grp, la).out = out \o line.out
    BY <1>8 DEF Try, TryInLine
  <2>2. w \in Int /\ c \in Int
    <3>1. WillIncrease(la, LineNest) \in Nat
      BY <1>3, <1>4
    <3>2. \A a, b, t, f \in Nat : a - b \in Int /\ t - b - f \in Int
      OBVIOUS
    <3>. QED BY <1>0, <1>3, <1>4, <3>1, <3>2, Zenon
  <2>. HIDE DEF w, c
  <2>3. White(none)
    BY WhiteGaps
  <2>4. out \o none = out
    BY <1>0, ConcatEmptySeq
  <2>. HIDE DEF none
  <2>5. line.ok
    BY <2>1
  <2>6. Read(acts, st, LeavesOf(grp)) = Shown(optional, didx, FALSE, out \o (none \o line.out))
        /\ out \o (none \o line.out) = out \o none \o line.out
    <3>1. Shows(grp, Fits(w, c, grp), none)
      BY <1>5, <2>2, <2>3, <2>5
    <3>. QED BY <3>1 DEF Shows
  <2>. QED BY <2>1, <2>4, <2>6 DEF TryShows, st
<1>. QED BY <1>6, <1>7, <1>8

-----------------------------------------------------------------------------
(* What the frames still owe.                                               *)

(* The leaves a frame will show when the frames on it are done: a document  *)
(* what it has not rendered, a trial the part behind its Priority child or, *)
(* with no candidate begun, its whole body.                                 *)
Remaining(f) ==
    IF f.k = "doc" THEN LeavesOf(f.todo)
    ELSE IF f.post THEN LeavesOf(Head(f.cands).post) ELSE LeavesOf(f.body)

(* Each candidate cuts the body. *)
Cut(f) == \A i \in 1..Len(f.cands) :
    LeavesOf(f.cands[i].pre) \o LeavesOf(f.cands[i].prio) \o LeavesOf(f.cands[i].post) = LeavesOf(f.body)

(* A trial that is rolled back owes its body from its checkpoint on, and    *)
(* that leads to the same state as going on.                                *)
TrialOwes(acts, optional, cells, f, after) ==
    f.k = "trial" =>
        /\ Cut(f)
        /\ Read(acts, Shown(optional, f.cp.didx, f.cp.suppress, SubSeq(cells, 1, f.cp.len)),
                LeavesOf(f.body)) = after

(* When the frames have shown what they owe, `st` has become `total`;       *)
(* `at[i]` is the state behind frame i.                                     *)
Owing(acts, optional, cells, fs, st, total, at) ==
    /\ at[1] = total /\ at[Len(fs) + 1] = st
    /\ \A i \in 1..Len(fs) : /\ at[i] = Read(acts, at[i + 1], Remaining(fs[i]))
                             /\ TrialOwes(acts, optional, cells, fs[i], at[i])
Owed(acts, optional, cells, fs, st, total) ==
    \E at \in [1..(Len(fs) + 1) -> ReadStates] : Owing(acts, optional, cells, fs, st, total, at)

LEMMA OwedNothing ==
    ASSUME NEW acts, NEW optional, NEW cells, NEW st \in ReadStates, NEW total
    PROVE  Owed(acts, optional, cells, <<>>, st, total) <=> st = total
<1>. DEFINE fs == <<>>
<1>1. Len(fs) = 0
  OBVIOUS
<1>. HIDE DEF fs
<1>2. ASSUME Owed(acts, optional, cells, fs, st, total) PROVE st = total
  <2>1. PICK at : Owing(acts, optional, cells, fs, st, total, at)
    BY <1>2 DEF Owed
  <2>2. at[1] = total /\ at[0 + 1] = st
    BY <1>1, <2>1 DEF Owing
  <2>. QED BY <2>2
<1>3. ASSUME st = total PROVE Owed(acts, optional, cells, fs, st, total)
  <2>. DEFINE at == [i \in 1..(Len(fs) + 1) |-> st]
  <2>1. at \in [1..(Len(fs) + 1) -> ReadStates] /\ at[1] = st /\ at[Len(fs) + 1] = st
    BY <1>1
  <2>. HIDE DEF at
  <2>2. Owing(acts, optional, cells, fs, st, total, at)
    BY <1>1, <1>3, <2>1 DEF Owing
  <2>. QED BY <2>1, <2>2 DEF Owed
<1>. QED BY <1>2, <1>3 DEF fs

(* A frame put on the others shows its part first. *)
LEMMA OwedPush ==
    ASSUME NEW X, NEW fs \in Seq(X), NEW f \in X, NEW acts, NEW optional, NEW cells,
           NEW st \in ReadStates, NEW total, NEW after \in ReadStates,
           after = Read(acts, st, Remaining(f)),
           Owed(acts, optional, cells, fs, after, total), TrialOwes(acts, optional, cells, f, after)
    PROVE  Owed(acts, optional, cells, Append(fs, f), st, total)
<1>. DEFINE n == Len(fs)
            more == Append(fs, f)
<1>1. n \in Nat /\ Len(more) = n + 1 /\ more[n + 1] = f /\ \A i \in 1..n : more[i] = fs[i]
  BY AppendProperties
<1>2. PICK w \in [1..(n + 1) -> ReadStates] : Owing(acts, optional, cells, fs, after, total, w)
  BY DEF Owed
<1>. DEFINE at == [i \in 1..(n + 2) |-> IF i = n + 2 THEN st ELSE w[i]]
<1>3. /\ at \in [1..((n + 1) + 1) -> ReadStates] /\ at[(n + 1) + 1] = st
      /\ \A i \in 1..(n + 1) : at[i] = w[i]
  BY <1>1
<1>4. w[1] = total /\ w[n + 1] = after
      /\ \A i \in 1..n : /\ w[i] = Read(acts, w[i + 1], Remaining(fs[i]))
                         /\ TrialOwes(acts, optional, cells, fs[i], w[i])
  BY <1>2 DEF Owing
<1>. HIDE DEF n, more, at
<1>5. ASSUME NEW i \in 1..(n + 1)
      PROVE  /\ at[i] = Read(acts, at[i + 1], Remaining(more[i]))
             /\ TrialOwes(acts, optional, cells, more[i], at[i])
  <2>1. CASE i = n + 1
    <3>1. at[i] = after /\ at[i + 1] = st /\ more[i] = f
      BY <1>1, <1>3, <1>4, <2>1
    <3>. QED BY <3>1
  <2>2. CASE i # n + 1
    <3>1. i \in 1..n /\ i + 1 \in 1..(n + 1) /\ i \in 1..(n + 1)
      BY <1>1, <2>2
    <3>2. at[i] = w[i] /\ at[i + 1] = w[i + 1] /\ more[i] = fs[i]
      BY <1>1, <1>3, <3>1
    <3>. QED BY <1>4, <3>1, <3>2
  <2>. QED BY <2>1, <2>2
<1>6. at[1] = total
  <2>1. 1 \in 1..(n + 1)
    BY <1>1
  <2>. QED BY <1>3, <1>4, <2>1
<1>7. Owing(acts, optional, cells, more, st, total, at)
  BY <1>1, <1>3, <1>5, <1>6 DEF Owing
<1>. QED BY <1>1, <1>3, <1>7 DEF Owed, more

(* Without it the others owe what is left when it is done. *)
LEMMA OwedPop ==
    ASSUME NEW X, NEW fs \in Seq(X), NEW f \in X, NEW acts, NEW optional, NEW cells, NEW st, NEW total,
           Owed(acts, optional, cells, Append(fs, f), st, total)
    PROVE  LET after == Read(acts, st, Remaining(f)) IN
           Owed(acts, optional, cells, fs, after, total) /\ TrialOwes(acts, optional, cells, f, after)
<1>. DEFINE n == Len(fs)
            more == Append(fs, f)
<1>1. n \in Nat /\ Len(more) = n + 1 /\ more[n + 1] = f /\ \A i \in 1..n : more[i] = fs[i]
  BY AppendProperties
<1>2. PICK at \in [1..(Len(more) + 1) -> ReadStates] : Owing(acts, optional, cells, more, st, total, at)
  BY DEF Owed
<1>. HIDE DEF more
<1>3. at[1] = total /\ at[(n + 1) + 1] = st
      /\ \A i \in 1..(n + 1) : /\ at[i] = Read(acts, at[i + 1], Remaining(more[i]))
                               /\ TrialOwes(acts, optional, cells, more[i], at[i])
  BY <1>1, <1>2 DEF Owing
<1>. DEFINE w == [i \in 1..(n + 1) |-> at[i]]
<1>4. w \in [1..(n + 1) -> ReadStates] /\ \A i \in 1..(n + 1) : w[i] = at[i]
  <2>1. \A i \in 1..(n + 1) : i \in 1..(Len(more) + 1)
    BY <1>1
  <2>. QED BY <1>2, <2>1
<1>. HIDE DEF n, w
<1>5. n + 1 \in 1..(n + 1) /\ 1 \in 1..(n + 1)
  BY <1>1
<1>6. at[n + 1] = Read(acts, st, Remaining(f)) /\ TrialOwes(acts, optional, cells, f, at[n + 1])
  BY <1>1, <1>3, <1>5
<1>7. ASSUME NEW i \in 1..n
      PROVE  /\ w[i] = Read(acts, w[i + 1], Remaining(fs[i]))
             /\ TrialOwes(acts, optional, cells, fs[i], w[i])
  <2>1. i \in 1..(n + 1) /\ i + 1 \in 1..(n + 1)
    BY <1>1
  <2>2. w[i] = at[i] /\ w[i + 1] = at[i + 1] /\ more[i] = fs[i]
    BY <1>1, <1>4, <2>1
  <2>. QED BY <1>3, <2>1, <2>2
<1>8. Owing(acts, optional, cells, fs, at[n + 1], total, w)
  BY <1>3, <1>4, <1>5, <1>7 DEF Owing, n
<1>9. Owed(acts, optional, cells, fs, at[n + 1], total)
  BY <1>4, <1>8 DEF Owed, n
<1>. QED BY <1>6, <1>9

(* An output that holds what it held at the checkpoints owes the same. *)
Kept(fs, cells, more) == \A i \in 1..Len(fs) :
    fs[i].k = "trial" => SubSeq(more, 1, fs[i].cp.len) = SubSeq(cells, 1, fs[i].cp.len)

LEMMA OwedKept ==
    ASSUME NEW acts, NEW optional, NEW cells, NEW more, NEW fs, Kept(fs, cells, more), NEW st, NEW total,
           Owed(acts, optional, cells, fs, st, total)
    PROVE  Owed(acts, optional, more, fs, st, total)
<1>1. PICK at \in [1..(Len(fs) + 1) -> ReadStates] : Owing(acts, optional, cells, fs, st, total, at)
  BY DEF Owed
<1>2. ASSUME NEW i \in 1..Len(fs) PROVE TrialOwes(acts, optional, more, fs[i], at[i])
  <2>1. TrialOwes(acts, optional, cells, fs[i], at[i])
    BY <1>1 DEF Owing
  <2>2. fs[i].k = "trial" => SubSeq(more, 1, fs[i].cp.len) = SubSeq(cells, 1, fs[i].cp.len)
    BY DEF Kept
  <2>. QED BY <2>1, <2>2 DEF TrialOwes
<1>3. Owing(acts, optional, more, fs, st, total, at)
  BY <1>1, <1>2 DEF Owing
<1>. QED BY <1>1, <1>3 DEF Owed

(* The checkpoints of a stack are those of its trials. *)
LEMMA CheckpointOf ==
    ASSUME NEW E, NEW fs \in Seq(Frames(E)), NEW i \in 1..Len(fs), fs[i].k = "trial"
    PROVE  \E j \in 1..Len(Checkpoints(fs)) : Checkpoints(fs)[j] = fs[i].cp
<1>. DEFINE found(s, f) == f.k = "trial" => \E j \in 1..Len(Checkpoints(s)) : Checkpoints(s)[j] = f.cp
            T == {s \in Seq(Frames(E)) : \A m \in 1..Len(s) : found(s, s[m])}
<1>1. <<>> \in T
  OBVIOUS
<1>2. ASSUME NEW s \in Seq(Frames(E)), NEW f \in Frames(E), s \in T PROVE Append(s, f) \in T
  <2>. DEFINE more == Append(s, f)
              cps  == Checkpoints(s)
              cpm  == Checkpoints(more)
  <2>1. /\ more \in Seq(Frames(E)) /\ Len(s) \in Nat /\ Len(more) = Len(s) + 1
        /\ more[Len(s) + 1] = f /\ \A m \in 1..Len(s) : more[m] = s[m]
    BY AppendProperties
  <2>2. /\ cps \in Seq(Marks)
        /\ f \in TrialFrames(E) => cpm = Append(cps, f.cp)
        /\ f \in DocFrames(E) => cpm = cps
    BY CheckpointsAppend
  <2>3. (f.k = "trial" => f \in TrialFrames(E)) /\ (f \in TrialFrames(E) => f.cp \in Marks)
        /\ (f \in TrialFrames(E) \/ f \in DocFrames(E))
    BY DEF Frames, TrialFrames, DocFrames
  <2>. HIDE DEF more, cps, cpm
  <2>4. f \in TrialFrames(E) => /\ Len(cpm) = Len(cps) + 1 /\ cpm[Len(cps) + 1] = f.cp /\ Len(cps) \in Nat
                                /\ \A j \in 1..Len(cps) : cpm[j] = cps[j] /\ j \in 1..Len(cpm)
    <3>1. ASSUME NEW c \in Marks, cpm = Append(cps, c)
          PROVE  /\ Len(cpm) = Len(cps) + 1 /\ cpm[Len(cps) + 1] = c /\ Len(cps) \in Nat
                 /\ \A j \in 1..Len(cps) : cpm[j] = cps[j] /\ j \in 1..Len(cpm)
      BY <2>2, <3>1, AppendProperties
    <3>. QED BY <2>2, <2>3, <3>1
  <2>5. ASSUME NEW m \in 1..Len(more), more[m].k = "trial"
        PROVE  \E j \in 1..Len(cpm) : cpm[j] = more[m].cp
    <3>1. CASE m = Len(s) + 1
      <4>1. more[m] = f /\ f \in TrialFrames(E)
        BY <2>1, <2>3, <2>5, <3>1
      <4>2. Len(cps) + 1 \in 1..Len(cpm) /\ cpm[Len(cps) + 1] = f.cp
        BY <2>4, <4>1
      <4>. QED BY <4>1, <4>2
    <3>2. CASE m # Len(s) + 1
      <4>1. m \in 1..Len(s) /\ more[m] = s[m]
        BY <2>1, <3>2
      <4>2. PICK j \in 1..Len(cps) : cps[j] = s[m].cp
        BY <1>2, <2>5, <4>1 DEF cps
      <4>3. j \in 1..Len(cpm) /\ cpm[j] = cps[j]
        BY <2>2, <2>3, <2>4
      <4>. QED BY <4>1, <4>2, <4>3
    <3>. QED BY <3>1, <3>2
  <2>. QED BY <2>1, <2>5 DEF more, cpm
<1>. HIDE DEF T
<1>3. fs \in T
  BY <1>1, <1>2, SeqInd
<1>. QED BY <1>3 DEF T

LEMMA KeptSaved ==
    ASSUME NEW E, NEW fs \in Seq(Frames(E)), NEW cells, NEW more,
           SavedIn(more, Checkpoints(fs)) = SavedIn(cells, Checkpoints(fs))
    PROVE  Kept(fs, cells, more)
<1>. SUFFICES ASSUME NEW i \in 1..Len(fs), fs[i].k = "trial"
              PROVE  SubSeq(more, 1, fs[i].cp.len) = SubSeq(cells, 1, fs[i].cp.len)
  BY DEF Kept
<1>. DEFINE cps == Checkpoints(fs)
<1>1. PICK j \in 1..Len(cps) : cps[j] = fs[i].cp
  BY CheckpointOf
<1>2. j \in DOMAIN cps
  <2>1. cps \in Seq(Marks)
    <3>1. fs # <<>>
      OBVIOUS
    <3>2. Front(fs) \in Seq(Frames(E)) /\ Last(fs) \in Frames(E) /\ fs = Append(Front(fs), Last(fs))
      BY <3>1, FrontLast
    <3>. DEFINE top == Last(fs)
    <3>3. top \in Frames(E)
      BY <3>2
    <3>. QED BY CheckpointsAppend, <3>3
  <2>. HIDE DEF cps
  <2>. QED BY <2>1
<1>. HIDE DEF cps
<1>3. SavedIn(more, cps)[j] = SavedIn(cells, cps)[j]
  BY DEF cps
<1>4. Snapshot(more, cps[j]) = Snapshot(cells, cps[j])
  BY <1>2, <1>3 DEF SavedIn
<1>5. Snapshot(more, cps[j]).out = SubSeq(more, 1, cps[j].len)
      /\ Snapshot(cells, cps[j]).out = SubSeq(cells, 1, cps[j].len)
  BY DEF Snapshot
<1>. QED BY <1>1, <1>4, <1>5

-----------------------------------------------------------------------------
(* The state shown and the frames.                                          *)

(* Elements and walks as the engine gets them: besides the types, the walks *)
(* keep the texts and the letters of Trailing texts are told apart.         *)
Suited(E, optional) ==
    /\ Setting(E) /\ WalksKeepTexts(Seq(E)) /\ Lettered(E, optional)
    /\ \A c \in optional : c > 0

Now(optional) == Shown(optional, didx, suppress, out)

LEMMA NowType ==
    ASSUME NEW optional, RenderOK
    PROVE  /\ Now(optional) \in ReadStates /\ Now(optional).live = ~suppress
           /\ Now(optional).k = didx /\ Now(optional).cells = Ink(optional, out)
<1>1. didx \in Nat /\ suppress \in BOOLEAN /\ out \in Seq(Int)
  BY DEF RenderOK
<1>. QED BY <1>1, ShownType DEF Now

(* The leaves of a document are those of its head and then those behind it. *)
HeadLeaves(e) == IF IsGroup(e) THEN LeavesOf(e.body) ELSE <<e>>

LEMMA SplitLeaves ==
    ASSUME NEW E, NEW optional, Suited(E, optional), NEW acts, NEW st \in ReadStates,
           NEW d \in Seq(E), d # <<>>
    PROVE  /\ HeadLeaves(Head(d)) \in Seq(Leafs(E))
           /\ Read(acts, st, LeavesOf(d))
                           = Read(acts, Read(acts, st, HeadLeaves(Head(d))), LeavesOf(Tail(d)))
<1>1. Elements(E) /\ \A x \in Seq(E) : LeavesOf(x) \in Seq(Leafs(E))
  BY DEF Suited, Setting, WalksTyped, Leafs
<1>2. Head(d) \in E /\ Tail(d) \in Seq(E)
  BY HeadTailProperties
<1>3. LeavesOf(d) = HeadLeaves(Head(d)) \o LeavesOf(Tail(d))
  BY DEF Suited, WalksKeepTexts, HeadLeaves
<1>4. HeadLeaves(Head(d)) \in Seq(Leafs(E))
  <2>1. ASSUME NEW e \in E, IsGroup(e) PROVE HeadLeaves(e) \in Seq(Leafs(E))
    <3>. DEFINE b == e.body
    <3>1. b \in Seq(E) /\ HeadLeaves(e) = LeavesOf(b)
      BY <1>1, <2>1, ElementKinds DEF HeadLeaves
    <3>. HIDE DEF b
    <3>. QED BY <1>1, <3>1
  <2>2. ASSUME NEW e \in E, ~IsGroup(e) PROVE HeadLeaves(e) \in Seq(Leafs(E))
    <3>1. e \in Leafs(E) /\ HeadLeaves(e) = <<e>>
      BY <2>2 DEF Leafs, HeadLeaves
    <3>. QED BY <3>1
  <2>. QED BY <1>2, <2>1, <2>2
<1>. DEFINE first == HeadLeaves(Head(d))
            rest == LeavesOf(Tail(d))
<1>5. first \in Seq(Leafs(E)) /\ rest \in Seq(Leafs(E)) /\ LeavesOf(d) = first \o rest
  BY <1>1, <1>2, <1>3, <1>4
<1>. HIDE DEF first, rest
<1>6. Read(acts, st, first \o rest) = Read(acts, Read(acts, st, first), rest)
  BY <1>1, <1>5, ReadConcat
<1>. QED BY <1>4, <1>5, <1>6 DEF first, rest

LEMMA ReadOne ==
    ASSUME NEW E, Elements(E), NEW acts, NEW st \in ReadStates, NEW e \in Leafs(E)
    PROVE  Read(acts, st, <<e>>) = DemandStep(acts, st, e)
<1>. DEFINE none == <<>>
<1>1. none \in Seq(Leafs(E)) /\ Append(none, e) = <<e>> /\ Read(acts, st, none) = st
  BY ReadEmpty
<1>. HIDE DEF none
<1>2. ASSUME NEW ls \in Seq(Leafs(E))
      PROVE  Read(acts, st, Append(ls, e)) = DemandStep(acts, Read(acts, st, ls), e)
  BY ReadAppend
<1>3. Read(acts, st, Append(none, e)) = DemandStep(acts, Read(acts, st, none), e)
  BY <1>1, <1>2
<1>. QED BY <1>1, <1>3

(* With an element consumed the frames owe what is left behind it. *)
LEMMA ConsumedOwed ==
    ASSUME NEW E, NEW optional, Suited(E, optional), LInv(E), OnElem, NEW acts, NEW cells,
           NEW st \in ReadStates, NEW total, Owed(acts, optional, cells, stack, st, total)
    PROVE  Owed(acts, optional, cells, Consumed, Read(acts, st, HeadLeaves(Elem)), total)
<1>1. /\ stack # <<>> /\ Top.todo # <<>> /\ Top \in DocFrames(E)
      /\ [Top EXCEPT !.todo = Tail(@)] \in DocFrames(E)
  BY ElemType DEF OnElem
<1>. DEFINE fs == Front(stack)
            f  == [Top EXCEPT !.todo = Tail(@)]
            mid == Read(acts, st, HeadLeaves(Elem))
            after == Read(acts, st, Remaining(Top))
<1>2. fs \in Seq(Frames(E)) /\ Top \in Frames(E) /\ stack = Append(fs, Top) /\ f \in Frames(E)
  BY <1>1, Split DEF Frames
<1>3. Top.todo \in Seq(E) /\ Top.k = "doc" /\ f.k = "doc" /\ f.todo = Tail(Top.todo)
  BY <1>1 DEF DocFrames
<1>4. Consumed = Append(fs, f)
  BY DEF Consumed
<1>5. Remaining(Top) = LeavesOf(Top.todo) /\ Remaining(f) = LeavesOf(Tail(Top.todo))
  <2>. HIDE DEF f
  <2>. QED BY <1>3 DEF Remaining
<1>6. Elements(E) /\ \A x \in Seq(E) : LeavesOf(x) \in Seq(Leafs(E))
  BY DEF Suited, Setting, WalksTyped, Leafs
<1>7. HeadLeaves(Elem) \in Seq(Leafs(E)) /\ after = Read(acts, mid, Remaining(f))
  BY <1>1, <1>3, <1>5, SplitLeaves DEF Elem
<1>8. mid \in ReadStates /\ after \in ReadStates
  <2>1. Remaining(Top) \in Seq(Leafs(E))
    BY <1>3, <1>5, <1>6
  <2>. QED BY <1>6, <1>7, <2>1, ReadType
<1>9. Owed(acts, optional, cells, fs, after, total)
  <2>1. Owed(acts, optional, cells, Append(fs, Top), st, total)
    BY <1>2
  <2>. HIDE DEF fs
  <2>. QED BY <1>2, <2>1, OwedPop
<1>10. TrialOwes(acts, optional, cells, f, after)
  BY <1>3 DEF TrialOwes
<1>. HIDE DEF fs, f, mid, after
<1>11. Owed(acts, optional, cells, Append(fs, f), mid, total)
  BY <1>2, <1>7, <1>8, <1>9, <1>10, OwedPush
<1>. QED BY <1>4, <1>11 DEF mid

(* A document put on the frames, owed first. *)
LEMMA DocOwed ==
    ASSUME NEW E, NEW optional, Suited(E, optional), NEW acts, NEW cells, NEW fs \in Seq(Frames(E)),
           NEW todo \in Seq(E), NEW la \in Seq(E), NEW st \in ReadStates, NEW total,
           Owed(acts, optional, cells, fs, Read(acts, st, LeavesOf(todo)), total)
    PROVE  Owed(acts, optional, cells, Append(fs, DocFrame(todo, la)), st, total)
<1>. DEFINE f == DocFrame(todo, la)
            after == Read(acts, st, LeavesOf(todo))
<1>1. f.k = "doc" /\ f.todo = todo /\ f \in Frames(E)
  BY DEF DocFrame, DocFrames, Frames
<1>2. after \in ReadStates
  <2>1. Elements(E) /\ LeavesOf(todo) \in Seq(Leafs(E))
    BY DEF Suited, Setting, WalksTyped, Leafs
  <2>. QED BY <2>1, ReadType
<1>. HIDE DEF f
<1>3. after = Read(acts, st, Remaining(f)) /\ TrialOwes(acts, optional, cells, f, after)
  BY <1>1 DEF Remaining, TrialOwes
<1>4. Owed(acts, optional, cells, fs, after, total)
  OBVIOUS
<1>. HIDE DEF after
<1>5. Owed(acts, optional, cells, Append(fs, f), st, total)
  BY <1>1, <1>2, <1>3, <1>4, OwedPush
<1>. QED BY <1>5 DEF f

(* The output at the checkpoints stays when the output grows, and when it   *)
(* is cut to the newest.                                                    *)
LEMMA KeptExtended ==
    ASSUME NEW E, LInv(E), NEW more \in Seq(Int), State!Extended(out, more)
    PROVE  Kept(stack, out, more)
<1>1. out \in Seq(Int) /\ MarksOK(Checkpoints(stack), out) /\ stack \in Seq(Frames(E))
  BY DEF LInv, RenderOK, StackOf
<1>2. SavedIn(more, Checkpoints(stack)) = SavedIn(out, Checkpoints(stack))
  BY <1>1, MarksExtended
<1>. QED BY <1>1, <1>2, KeptSaved

LEMMA KeptCut ==
    ASSUME NEW E, LInv(E), stack # <<>>, Top \in TrialFrames(E),
           NEW cut, cut = SubSeq(out, 1, Top.cp.len)
    PROVE  Kept(stack, out, cut)
<1>1. out \in Seq(Int) /\ MarksOK(Checkpoints(stack), out) /\ stack \in Seq(Frames(E))
  BY DEF LInv, RenderOK, StackOf
<1>2. Len(Checkpoints(stack)) >= 1 /\ Checkpoints(stack)[Len(Checkpoints(stack))] = Top.cp
  <2>. DEFINE rest == Checkpoints(Front(stack))
              cp == Top.cp
  <2>1. rest \in Seq(Marks) /\ cp \in Marks /\ Checkpoints(stack) = Append(rest, cp)
    BY ReplaceTrial
  <2>. HIDE DEF rest, cp
  <2>. QED BY <2>1 DEF cp
<1>3. SavedIn(cut, Checkpoints(stack)) = SavedIn(out, Checkpoints(stack))
  BY <1>1, <1>2, MarksCut
<1>. QED BY <1>1, <1>3, KeptSaved

(* No promise but a rollback takes anything from the output. *)
LEMMA PromiseExtends ==
    ASSUME NEW E, LInv(E),
           State!Write \/ State!Begin \/ State!End \/ State!InertMarker \/ State!Checkpoint
             \/ State!Discard \/ UNCHANGED State!vars
    PROVE  Kept(stack, out, out')
<1>1. out \in Seq(Int) /\ State!Extended(out, out)
  <2>1. out \in Seq(Int)
    BY DEF LInv, RenderOK
  <2>. QED BY <2>1, ConcatExtends
<1>2. out' \in Seq(Int) /\ State!Extended(out, out')
  <2>1. CASE out' = out
    BY <1>1, <2>1
  <2>2. CASE out' # out
    BY <2>2 DEF State!Write, State!Written, State!Begin, State!End, State!InertMarker,
              State!Checkpoint, State!Discard, State!vars
  <2>. QED BY <2>1, <2>2
<1>. QED BY <1>2, KeptExtended

-----------------------------------------------------------------------------
(* Each step shows what it consumes.                                        *)
Owes(optional, total) == Owed(actions, optional, out, stack, Now(optional), total)

(* An element that shows what it demands leaves the rest owed. *)
LEMMA ElementShown ==
    ASSUME NEW E, NEW optional, Suited(E, optional), NEW total, LInv(E), OnElem, Owes(optional, total),
           Kept(stack, out, out'), stack' = Consumed, UNCHANGED actions,
           Now(optional)' = Read(actions, Now(optional), HeadLeaves(Elem))
    PROVE  Owes(optional, total)'
<1>1. Owed(actions, optional, out', stack, Now(optional), total)
  BY OwedKept DEF Owes
<1>2. Now(optional) \in ReadStates
  BY NowType DEF LInv
<1>. DEFINE cells == out'
            st == Now(optional)
<1>3. Owed(actions, optional, cells, stack, st, total) /\ st \in ReadStates
  BY <1>1, <1>2
<1>. HIDE DEF cells, st
<1>4. Owed(actions, optional, cells, Consumed, Read(actions, st, HeadLeaves(Elem)), total)
  BY <1>3, ConsumedOwed
<1>. QED BY <1>4 DEF Owes, cells, st

(* A leaf is read in one step. *)
LEMMA LeafShown ==
    ASSUME NEW E, NEW optional, Suited(E, optional), LInv(E), OnElem, ~IsGroup(Elem)
    PROVE  /\ Elem \in Leafs(E) /\ Elements(E) /\ HeadLeaves(Elem) = <<Elem>>
           /\ Now(optional) \in ReadStates
           /\ Read(actions, Now(optional), HeadLeaves(Elem)) = DemandStep(actions, Now(optional), Elem)
<1>1. Elem \in Leafs(E) /\ HeadLeaves(Elem) = <<Elem>> /\ Elements(E)
  BY ElemType DEF Leafs, HeadLeaves, Suited, Setting
<1>2. Now(optional) \in ReadStates
  BY NowType DEF LInv
<1>3. Read(actions, Now(optional), <<Elem>>) = DemandStep(actions, Now(optional), Elem)
  BY <1>1, <1>2, ReadOne
<1>. QED BY <1>1, <1>2, <1>3

(* A text is written behind a white gap. *)
LEMMA TextBehindGap ==
    ASSUME NEW E, Setting(E), RenderOK, NEW e \in E, IsText(e), WriteText(e)
    PROVE  \E gap : White(gap) /\ out' = out \o (gap \o e.txt)
<1>1. e.txt \in Seq(Int) /\ e.nest \in Nat /\ e.off \in Nat
  BY ElementKinds DEF Setting
<1>. DEFINE step == IF col = 0 THEN IndentWidth ELSE 0
            low == Settle(e.nest, step)
            gap == IF col = 0 THEN Spaces(IndentOf(low) + e.off) ELSE <<>>
<1>2. out' = out \o gap \o e.txt
  BY DEF WriteText
<1>3. White(gap)
  <2>1. CASE col = 0
    <3>1. step \in {0, IndentWidth} /\ IndentWidth \in Nat /\ Based(indents)
      BY RendererAssumption DEF RenderOK
    <3>2. Based(low)
      <4>. HIDE DEF step
      <4>. QED BY <1>1, <3>1, SettleSettles
    <3>3. IndentOf(low) \in Nat
      <4>. HIDE DEF low
      <4>. QED BY <3>2, IndentTypes
    <3>. DEFINE n == IndentOf(low) + e.off
    <3>4. n \in Nat /\ gap = Spaces(n)
      BY <1>1, <2>1, <3>3
    <3>. HIDE DEF gap, n
    <3>. QED BY <3>4, WhiteGaps
  <2>2. CASE col # 0
    <3>1. gap = <<>>
      BY <2>2
    <3>. HIDE DEF gap
    <3>. QED BY <3>1, WhiteGaps
  <2>. QED BY <2>1, <2>2
<1>. DEFINE txt == e.txt
<1>4. out' = out \o gap \o txt /\ out \in Seq(Int) /\ txt \in Seq(Int)
  BY <1>1, <1>2 DEF RenderOK
<1>. HIDE DEF gap, txt
<1>5. out \o (gap \o txt) = (out \o gap) \o txt
  BY <1>3, <1>4, InkBehind
<1>6. White(gap) /\ out' = out \o (gap \o txt)
  BY <1>3, <1>4, <1>5
<1>7. \E g : White(g) /\ out' = out \o (g \o txt)
  BY <1>6
<1>. QED BY <1>7 DEF txt

(* A text written behind a white gap shows what it demands. *)
LEMMA TextShows ==
    ASSUME NEW E, NEW optional, Suited(E, optional), NEW cells \in Seq(Int), NEW e \in E, IsText(e),
           NEW gap, White(gap)
    PROVE  Ink(optional, cells \o (gap \o e.txt))
             = IF e.kind = "Trailing" THEN Ink(optional, cells) ELSE Ink(optional, cells) \o e.txt
<1>1. e.txt \in Seq(Int)
  BY ElementKinds DEF Suited, Setting
<1>2. Ink(optional, e.txt) = IF e.kind = "Trailing" THEN <<>> ELSE e.txt
  BY TextInk DEF Suited, Setting
<1>. DEFINE txt == e.txt
<1>3. Ink(optional, cells \o (gap \o txt)) = Ink(optional, cells) \o Ink(optional, txt)
  <2>1. txt \in Seq(Int)
    BY <1>1
  <2>. HIDE DEF txt
  <2>. QED BY <2>1, InkBehind
<1>4. Ink(optional, cells) \o <<>> = Ink(optional, cells)
  BY InkType, ConcatEmptySeq
<1>. QED BY <1>2, <1>3, <1>4

LEMMA RenderTextShows ==
    ASSUME NEW E, NEW optional, Suited(E, optional), NEW total, LInv(E), RenderText,
           Owes(optional, total)
    PROVE  Owes(optional, total)'
<1>1. /\ OnElem /\ IsText(Elem) /\ Elem.kind # "Directive" /\ ~suppress
      /\ stack' = Consumed /\ UNCHANGED <<actions, didx, suppress>>
  BY DEF RenderText
<1>2. Kept(stack, out, out')
  BY RenderTextStep, PromiseExtends DEF Suited
<1>3. Elem \in E /\ ~IsGroup(Elem) /\ Elem.txt \in Seq(Int) /\ RenderOK /\ out \in Seq(Int)
  BY <1>1, ElemType, ElementKinds DEF Suited, Setting, LInv, RenderOK
<1>4. \E gap : White(gap) /\ out' = out \o (gap \o Elem.txt)
  <2>1. CASE ShiftsComment(Elem, Ahead)
    <3>. DEFINE gap == <<Blank>>
                txt == Elem.txt
    <3>1. out' = out \o gap \o txt /\ White(gap) /\ txt \in Seq(Int) /\ out \in Seq(Int)
      BY <1>3, <2>1, WhiteGaps DEF RenderText
    <3>. HIDE DEF gap, txt
    <3>2. out' = out \o (gap \o txt)
      BY <3>1, InkBehind
    <3>. QED BY <3>1, <3>2 DEF txt
  <2>2. CASE ~ShiftsComment(Elem, Ahead)
    <3>1. WriteText(Elem)
      BY <2>2 DEF RenderText
    <3>. DEFINE e == Elem
    <3>2. e \in E /\ IsText(e) /\ WriteText(e) /\ Setting(E)
      BY <1>1, <1>3, <3>1 DEF Suited
    <3>. HIDE DEF e
    <3>3. \E gap : White(gap) /\ out' = out \o (gap \o e.txt)
      BY <1>3, <3>2, TextBehindGap
    <3>. QED BY <3>3 DEF e
  <2>. QED BY <2>1, <2>2
<1>5. Ink(optional, out')
                = IF Elem.kind = "Trailing" THEN Ink(optional, out) ELSE Ink(optional, out) \o Elem.txt
  <2>1. PICK gap : White(gap) /\ out' = out \o (gap \o Elem.txt)
    BY <1>4
  <2>. DEFINE e == Elem
  <2>2. e \in E /\ IsText(e)
    BY <1>1, <1>3
  <2>. HIDE DEF e
  <2>3. Ink(optional, out \o (gap \o e.txt))
                  = IF e.kind = "Trailing" THEN Ink(optional, out) ELSE Ink(optional, out) \o e.txt
    BY <1>3, <2>1, <2>2, TextShows
  <2>. QED BY <2>1, <2>3 DEF e
<1>6. Now(optional)' = Read(actions, Now(optional), HeadLeaves(Elem))
  <2>1. /\ Now(optional) \in ReadStates /\ Now(optional).live
        /\ Read(actions, Now(optional), HeadLeaves(Elem)) = DemandStep(actions, Now(optional), Elem)
    BY <1>1, <1>3, LeafShown, NowType
  <2>2. DemandStep(actions, Now(optional), Elem)
          = IF Elem.kind # "Trailing" THEN With(Now(optional), Elem.txt) ELSE Now(optional)
    <3>. DEFINE st == Now(optional)
                e == Elem
    <3>1. st \in ReadStates /\ st.live /\ IsText(e) /\ e.kind # "Directive"
      BY <1>1, <2>1
    <3>. HIDE DEF st, e
    <3>2. DemandStep(actions, st, e) = IF st.live /\ e.kind # "Trailing" THEN With(st, e.txt) ELSE st
      BY <3>1, DemandText
    <3>. QED BY <3>1, <3>2 DEF st, e
  <2>3. Now(optional)' = [k |-> didx, live |-> ~suppress, cells |-> Ink(optional, out')]
    BY <1>1 DEF Now, Shown
  <2>4. With(Now(optional), Elem.txt) = [k |-> didx, live |-> ~suppress, cells |-> Ink(optional, out) \o Elem.txt]
        /\ Now(optional) = [k |-> didx, live |-> ~suppress, cells |-> Ink(optional, out)]
    BY DEF With, Now, Shown
  <2>5. CASE Elem.kind = "Trailing"
    BY <1>5, <2>1, <2>2, <2>3, <2>4, <2>5
  <2>6. CASE Elem.kind # "Trailing"
    BY <1>5, <2>1, <2>2, <2>3, <2>4, <2>6
  <2>. QED BY <2>5, <2>6
<1>. QED BY <1>1, <1>2, <1>6, ElementShown

(* A spacing shows nothing. *)
LEMMA RenderSpacingShows ==
    ASSUME NEW E, NEW optional, Suited(E, optional), NEW total, LInv(E), RenderSpacing,
           Owes(optional, total)
    PROVE  Owes(optional, total)'
<1>1. /\ OnElem /\ IsSpacing(Elem)
      /\ stack' = Consumed /\ UNCHANGED <<actions, didx, suppress>>
  BY DEF RenderSpacing
<1>2. Kept(stack, out, out')
  BY RenderSpacingStep, PromiseExtends DEF Suited
<1>3. /\ Elem \in E /\ ~IsGroup(Elem) /\ ~IsText(Elem) /\ Elem.sp \in Spacings
      /\ RenderOK /\ out \in Seq(Int)
  BY <1>1, ElemType, ElementKinds DEF Suited, Setting, LInv, RenderOK
<1>4. out' = out \/ \E gap : White(gap) /\ out' = out \o gap
  <2>. DEFINE s == Elem.sp
              flat == \/ s = Hardspace
                      \/ s \in {Softbreak, Softspace} /\ Flows(s, Ahead)
              feeds == IF s \in {Softbreak, Softspace} THEN 1 ELSE LineFeeds(s)
              gap   == CASE s = Softbreak -> <<>>
                         [] s = Hardspace -> <<Blank>>
                         [] OTHER         -> <<SoftGap>>
              lines == [i \in 1..feeds |-> Feed]
  <2>1. /\ col = 0 => UNCHANGED <<out, col>>
        /\ col # 0 /\ flat => out' = out \o gap
        /\ col # 0 /\ ~flat => out' = out \o lines
    BY DEF RenderSpacing
  <2>2. White(gap)
    <3>1. gap \in {<<>>, <<Blank>>, <<SoftGap>>}
      OBVIOUS
    <3>. HIDE DEF gap
    <3>. QED BY <3>1, WhiteGaps
  <2>3. White(lines)
    <3>1. feeds \in Nat
      BY <1>3, FeedsType
    <3>. HIDE DEF feeds
    <3>. QED BY <3>1, WhiteGaps
  <2>. HIDE DEF flat, gap, lines
  <2>. QED BY <2>1, <2>2, <2>3
<1>5. Ink(optional, out') = Ink(optional, out)
  <2>1. CASE out' = out
    BY <2>1
  <2>2. CASE \E gap : White(gap) /\ out' = out \o gap
    <3>1. PICK gap : White(gap) /\ out' = out \o gap
      BY <2>2
    <3>. QED BY <1>3, <3>1, InkGap
  <2>. QED BY <1>4, <2>1, <2>2
<1>6. Now(optional)' = Read(actions, Now(optional), HeadLeaves(Elem))
  <2>1. /\ Now(optional) \in ReadStates
        /\ Read(actions, Now(optional), HeadLeaves(Elem)) = DemandStep(actions, Now(optional), Elem)
    BY <1>1, <1>3, LeafShown
  <2>2. DemandStep(actions, Now(optional), Elem) = Now(optional)
    BY <1>3, <2>1, DemandSpacing
  <2>3. Now(optional)' = Now(optional)
    BY <1>1, <1>5 DEF Now, Shown
  <2>. QED BY <2>1, <2>2, <2>3
<1>. QED BY <1>1, <1>2, <1>6, ElementShown

(* Inside a disabled region a text is not demanded. *)
LEMMA SkipShows ==
    ASSUME NEW E, NEW optional, Suited(E, optional), NEW total, LInv(E), SkipSuppressed,
           Owes(optional, total)
    PROVE  Owes(optional, total)'
<1>1. /\ OnElem /\ suppress /\ (IsSpacing(Elem) \/ (IsText(Elem) /\ Elem.kind # "Directive"))
      /\ stack' = Consumed /\ UNCHANGED <<actions, out, didx, suppress>>
  BY DEF SkipSuppressed, rvars
<1>2. Kept(stack, out, out')
  BY SkipStep, PromiseExtends
<1>3. Elem \in E /\ ~IsGroup(Elem) /\ (IsSpacing(Elem) => ~IsText(Elem)) /\ RenderOK
  BY <1>1, ElemType, ElementKinds DEF Suited, Setting, LInv
<1>4. Now(optional)' = Read(actions, Now(optional), HeadLeaves(Elem))
  <2>1. /\ Now(optional) \in ReadStates /\ ~Now(optional).live
        /\ Read(actions, Now(optional), HeadLeaves(Elem)) = DemandStep(actions, Now(optional), Elem)
    BY <1>1, <1>3, LeafShown, NowType
  <2>2. DemandStep(actions, Now(optional), Elem) = Now(optional)
    BY <1>1, <1>3, <2>1, DemandSpacing, DemandText
  <2>3. Now(optional)' = Now(optional)
    BY <1>1 DEF Now, Shown
  <2>. QED BY <2>1, <2>2, <2>3
<1>. QED BY <1>1, <1>2, <1>4, ElementShown

(* A group laid out compact shows all its leaves. *)
LEMMA RenderCompactShows ==
    ASSUME NEW E, NEW optional, Suited(E, optional), NEW total, LInv(E), RenderCompact,
           Owes(optional, total)
    PROVE  Owes(optional, total)'
<1>. DEFINE grp == Elem.body
            la == Ahead
            t == Try(grp, la)
<1>1. /\ OnElem /\ IsGroup(Elem) /\ ~suppress /\ t.ok /\ Adopt(t)
      /\ stack' = Consumed /\ UNCHANGED <<actions, didx, suppress>>
  BY DEF RenderCompact, Adopt
<1>2. Kept(stack, out, out')
  BY RenderCompactStep, PromiseExtends DEF Suited
<1>3. grp \in Seq(E) /\ la \in Seq(E) /\ RenderOK /\ HeadLeaves(Elem) = LeavesOf(grp)
  BY <1>1, ElemType, ElementKinds DEF Suited, Setting, LInv, HeadLeaves
<1>4. out' = t.out
  BY <1>1 DEF Adopt
<1>5. TryShows(actions, optional, grp, la)
  <2>1. t.ok /\ Setting(E) /\ WalksKeepTexts(Seq(E)) /\ Lettered(E, optional)
    BY <1>1 DEF Suited
  <2>. HIDE DEF grp, la
  <2>. QED BY <1>3, <2>1, TryInk
<1>6. suppress = FALSE /\ suppress' = FALSE
  <2>1. suppress \in BOOLEAN
    BY <1>3 DEF RenderOK
  <2>. QED BY <1>1, <2>1
<1>7. Now(optional)' = Read(actions, Now(optional), HeadLeaves(Elem))
  <2>. HIDE DEF grp, la
  <2>. QED BY <1>1, <1>3, <1>4, <1>5, <1>6 DEF TryShows, Now
<1>. QED BY <1>1, <1>2, <1>7, ElementShown

(* A region that opens shows its source. *)
LEMMA RegionShows ==
    ASSUME NEW optional, \A c \in optional : c > 0, NEW cells \in Seq(Int), NEW gap, White(gap),
           NEW k \in Nat
    PROVE  Ink(optional, cells \o gap \o <<Region(k)>>) = Append(Ink(optional, cells), Region(k))
<1>. DEFINE r == Region(k)
<1>1. r \in Int /\ r < -9 /\ ~IsWhite(r) /\ r \notin optional
  BY DEF Region, IsWhite, Feed, Blank, SoftGap
<1>. HIDE DEF r
<1>2. cells \o gap \in Seq(Int) /\ Ink(optional, cells \o gap) = Ink(optional, cells)
  BY InkGap
<1>. DEFINE s == cells \o gap
<1>3. Ink(optional, Append(s, r)) = Ink(optional, s) \o InkOf(optional, r)
  <2>1. s \in Seq(Int)
    BY <1>2
  <2>. HIDE DEF s
  <2>. QED BY <1>1, <2>1, InkAppend
<1>4. InkOf(optional, r) = <<r>>
  BY <1>1 DEF InkOf
<1>5. \A t \in Seq(Int) : t \o <<r>> = Append(t, r)
  BY <1>1
<1>6. s \in Seq(Int) /\ Ink(optional, cells) \in Seq(Int)
  BY <1>2, InkType
<1>7. Append(s, r) = s \o <<r>>
  <2>. HIDE DEF s
  <2>. QED BY <1>5, <1>6
<1>. QED BY <1>2, <1>3, <1>4, <1>5, <1>6, <1>7 DEF r

(* A marker opens or closes a region, or shows itself as a comment.         *)
LEMMA RenderDirectiveShows ==
    ASSUME NEW E, NEW optional, Suited(E, optional), NEW total, LInv(E), ActionsOK, RenderDirective,
           Owes(optional, total)
    PROVE  Owes(optional, total)'
<1>. DEFINE act == ActionAt(actions, didx)
<1>1. /\ OnElem /\ IsText(Elem) /\ Elem.kind = "Directive"
      /\ stack' = Consumed /\ UNCHANGED <<actions>> /\ didx' = didx + 1
  BY DEF RenderDirective
<1>2. Kept(stack, out, out')
  BY RenderDirectiveStep, PromiseExtends DEF Suited
<1>3. Elem \in E /\ ~IsGroup(Elem) /\ Elem.txt \in Seq(Int) /\ RenderOK /\ out \in Seq(Int) /\ didx \in Nat
  BY <1>1, ElemType, ElementKinds DEF Suited, Setting, LInv, RenderOK
<1>4. \/ /\ act = "Begin"
         /\ out' = out \o (IF col # 0 THEN <<Feed>> ELSE <<>>) \o <<Region(didx + 1)>>
         /\ suppress' = TRUE
      \/ act = "End" /\ suppress' = FALSE /\ out' = out
      \/ act = "Inert" /\ suppress /\ out' = out /\ suppress' = suppress
      \/ act = "Inert" /\ ~suppress /\ WriteText(Elem) /\ suppress' = suppress
      \/ act \notin {"Begin", "End", "Inert"}
  BY DEF RenderDirective, ActionAt
<1>5. act \in {"Begin", "End", "Inert"}
  BY DEF ActionsOK, ActionAt
<1>6. /\ act = "Begin" => /\ out' = out \o (IF col # 0 THEN <<Feed>> ELSE <<>>) \o <<Region(didx + 1)>>
                          /\ suppress' = TRUE
      /\ act = "End" => suppress' = FALSE /\ out' = out
      /\ act = "Inert" => suppress' = suppress /\ IF suppress THEN out' = out ELSE WriteText(Elem)
  <2>. HIDE DEF act
  <2>. QED BY <1>4, <1>5
<1>. HIDE DEF act
<1>7. /\ Now(optional) \in ReadStates /\ Now(optional).k = didx
      /\ Now(optional).live = ~suppress /\ Now(optional).cells = Ink(optional, out)
      /\ Read(actions, Now(optional), HeadLeaves(Elem)) = DemandStep(actions, Now(optional), Elem)
  BY <1>1, <1>3, LeafShown, NowType
<1>8. /\ act = "Begin" => DemandStep(actions, Now(optional), Elem)
                            = [k |-> didx + 1, live |-> FALSE,
                               cells |-> Append(Ink(optional, out), Region(didx + 1))]
      /\ act = "End" => DemandStep(actions, Now(optional), Elem)
                            = [k |-> didx + 1, live |-> TRUE, cells |-> Ink(optional, out)]
      /\ act = "Inert" => DemandStep(actions, Now(optional), Elem)
                            = [k |-> didx + 1, live |-> ~suppress,
                               cells |-> IF ~suppress THEN Ink(optional, out) \o Elem.txt ELSE Ink(optional, out)]
  <2>. DEFINE st == Now(optional)
              e == Elem
  <2>1. /\ st \in ReadStates /\ IsText(e) /\ e.kind = "Directive" /\ act = ActionAt(actions, st.k)
        /\ st.k = didx /\ st.live = ~suppress /\ st.cells = Ink(optional, out)
    BY <1>1, <1>7 DEF act
  <2>. HIDE DEF st, e
  <2>2. /\ ActionAt(actions, st.k) = "Begin" =>
             DemandStep(actions, st, e) = [k |-> st.k + 1, live |-> FALSE,
                                           cells |-> Append(st.cells, Region(st.k + 1))]
        /\ ActionAt(actions, st.k) = "End" =>
             DemandStep(actions, st, e) = [k |-> st.k + 1, live |-> TRUE, cells |-> st.cells]
        /\ ActionAt(actions, st.k) \notin {"Begin", "End"} =>
             DemandStep(actions, st, e) = [k |-> st.k + 1, live |-> st.live,
                                           cells |-> IF st.live THEN st.cells \o e.txt ELSE st.cells]
    <3>1. st \in ReadStates /\ IsText(e) /\ e.kind = "Directive"
      BY <2>1
    <3>. QED BY ONLY <3>1, DemandMarker
  <2>3. act = "Inert" => act \notin {"Begin", "End"}
    OBVIOUS
  <2>. QED BY <2>1, <2>2, <2>3 DEF st, e
<1>9. Now(optional)' = [k |-> didx + 1, live |-> ~suppress', cells |-> Ink(optional, out')]
  BY <1>1 DEF Now, Shown
<1>10. Now(optional)' = DemandStep(actions, Now(optional), Elem)
  <2>1. CASE act = "Begin"
    <3>. DEFINE gap == IF col # 0 THEN <<Feed>> ELSE <<>>
    <3>1. White(gap)
      <4>1. gap \in {<<>>, <<Feed>>}
        OBVIOUS
      <4>. HIDE DEF gap
      <4>. QED BY <4>1, WhiteGaps
    <3>2. /\ out' = out \o gap \o <<Region(didx + 1)>> /\ suppress' = TRUE
          /\ didx + 1 \in Nat
      <4>1. out' = out \o gap \o <<Region(didx + 1)>> /\ suppress' = TRUE
        BY <1>6, <2>1
      <4>2. didx + 1 \in Nat
        BY <1>3
      <4>. QED BY <4>1, <4>2
    <3>. HIDE DEF gap
    <3>. DEFINE k == didx + 1
    <3>3. out' = out \o gap \o <<Region(k)>> /\ k \in Nat
      BY <3>2
    <3>. HIDE DEF k
    <3>4. Ink(optional, out \o gap \o <<Region(k)>>) = Append(Ink(optional, out), Region(k))
      BY <1>3, <3>1, <3>3, RegionShows DEF Suited
    <3>5. Ink(optional, out') = Append(Ink(optional, out), Region(didx + 1))
      BY <3>3, <3>4 DEF k
    <3>. QED BY <1>8, <1>9, <2>1, <3>2, <3>5
  <2>2. CASE act = "End"
    BY <1>6, <1>8, <1>9, <2>2
  <2>3. CASE act = "Inert" /\ suppress
    BY <1>6, <1>8, <1>9, <2>3
  <2>4. CASE act = "Inert" /\ ~suppress
    <3>1. WriteText(Elem) /\ suppress' = suppress
      BY <1>6, <2>4
    <3>. DEFINE e == Elem
    <3>2. e \in E /\ IsText(e) /\ WriteText(e) /\ Setting(E) /\ e.kind # "Trailing"
      BY <1>1, <1>3, <3>1 DEF Suited
    <3>. HIDE DEF e
    <3>3. PICK gap : White(gap) /\ out' = out \o (gap \o e.txt)
      BY <1>3, <3>2, TextBehindGap
    <3>4. Ink(optional, out \o (gap \o e.txt))
                    = IF e.kind = "Trailing" THEN Ink(optional, out) ELSE Ink(optional, out) \o e.txt
      <4>1. out \in Seq(Int) /\ e \in E /\ IsText(e) /\ White(gap)
        BY <1>3, <3>2, <3>3
      <4>. QED BY <4>1, TextShows
    <3>5. Ink(optional, out') = Ink(optional, out) \o Elem.txt
      BY <3>2, <3>3, <3>4 DEF e
    <3>. QED BY <1>8, <1>9, <2>4, <3>1, <3>5
  <2>. QED BY <1>5, <2>1, <2>2, <2>3, <2>4
<1>. QED BY <1>1, <1>2, <1>7, <1>10, ElementShown

(* A group entered: its body is owed in its place. *)
LEMMA EnterShows ==
    ASSUME NEW E, NEW optional, Suited(E, optional), NEW total,
           LInv(E), EnterSuppressed \/ RenderExpanded,
           Owes(optional, total)
    PROVE  Owes(optional, total)'
<1>1. /\ OnElem /\ IsGroup(Elem) /\ stack' = Append(Consumed, DocFrame(Elem.body, Ahead))
      /\ UNCHANGED <<actions, out, didx, suppress>>
  BY DEF EnterSuppressed, RenderExpanded, rvars
<1>. DEFINE body == Elem.body
            st == Now(optional)
            la == Ahead
<1>2. /\ body \in Seq(E) /\ la \in Seq(E) /\ HeadLeaves(Elem) = LeavesOf(body) /\ st \in ReadStates
      /\ Consumed \in Seq(Frames(E))
  BY <1>1, ElemType, ElementKinds, ConsumedOK, NowType DEF Suited, Setting, LInv, HeadLeaves
<1>3. Owed(actions, optional, out, stack, st, total)
  BY DEF Owes
<1>4. stack' = Append(Consumed, DocFrame(body, la))
  BY <1>1
<1>5. Now(optional)' = st
  BY <1>1 DEF Now, Shown
<1>. HIDE DEF body, st, la
<1>6. Owed(actions, optional, out, Consumed, Read(actions, st, LeavesOf(body)), total)
  BY <1>1, <1>2, <1>3, ConsumedOwed
<1>7. Owed(actions, optional, out, Append(Consumed, DocFrame(body, la)), st, total)
  BY <1>2, <1>6, DocOwed
<1>. QED BY <1>1, <1>4, <1>5, <1>7 DEF Owes

(* A document that is done owes nothing. *)
LEMMA ReturnShows ==
    ASSUME NEW E, NEW optional, Suited(E, optional), NEW total, LInv(E), Return, Owes(optional, total)
    PROVE  Owes(optional, total)'
<1>. DEFINE st == Now(optional)
            fs == Front(stack)
<1>1. /\ stack # <<>> /\ Top.k = "doc" /\ Top.todo = <<>> /\ stack' = fs
      /\ UNCHANGED <<actions, out, didx, suppress>>
  BY DEF Return, rvars
<1>2. fs \in Seq(Frames(E)) /\ Top \in Frames(E) /\ stack = Append(fs, Top)
  BY <1>1, Split
<1>3. Remaining(Top) = <<>>
  BY <1>1 DEF Remaining, Suited, WalksKeepTexts
<1>4. st \in ReadStates /\ Read(actions, st, <<>>) = st
  BY NowType, ReadEmpty DEF Suited, Setting, LInv
<1>5. Now(optional)' = st
  BY <1>1 DEF Now, Shown
<1>6. Owed(actions, optional, out, Append(fs, Top), st, total)
  BY <1>2 DEF Owes
<1>. HIDE DEF st, fs
<1>7. Owed(actions, optional, out, fs, Read(actions, st, Remaining(Top)), total)
  BY <1>2, <1>6, OwedPop
<1>. QED BY <1>1, <1>3, <1>4, <1>5, <1>7 DEF Owes

(* A trial that starts owes the body from here on. *)
LEMMA StartTrialsShows ==
    ASSUME NEW E, NEW optional, Suited(E, optional), NEW total, LInv(E), StartTrials,
           Owes(optional, total)
    PROVE  Owes(optional, total)'
<1>. DEFINE body == Elem.body
            cands == TrialsOf(body)
            f == TrialFrame(body, Ahead, cands)
            st == Now(optional)
            after == Read(actions, st, LeavesOf(body))
<1>1. /\ OnElem /\ IsGroup(Elem) /\ stack' = Append(Consumed, f)
      /\ UNCHANGED <<actions, out, didx, suppress>>
  BY DEF StartTrials, rvars
<1>2. /\ body \in Seq(E) /\ Ahead \in Seq(E) /\ HeadLeaves(Elem) = LeavesOf(body) /\ st \in ReadStates
      /\ Consumed \in Seq(Frames(E)) /\ out \in Seq(Int)
  BY <1>1, ElemType, ElementKinds, ConsumedOK, NowType DEF Suited, Setting, LInv, RenderOK, HeadLeaves
<1>3. LeavesOf(body) \in Seq(Leafs(E)) /\ Elements(E)
  BY <1>2 DEF Suited, Setting, WalksTyped, Leafs
<1>4. after \in ReadStates
  <2>. HIDE DEF body, st
  <2>. QED BY <1>2, <1>3, ReadType
<1>5. Owed(actions, optional, out, stack, st, total)
  BY DEF Owes
<1>6. Now(optional)' = st
  BY <1>1 DEF Now, Shown
<1>7. /\ f.k = "trial" /\ f.body = body /\ f.cands = cands /\ f.post = FALSE
      /\ f.cp.len = Len(out) /\ f.cp.didx = didx /\ f.cp.suppress = suppress
  <2>. DEFINE cp == [len |-> Len(out), col |-> col, indents |-> indents, didx |-> didx, suppress |-> suppress]
  <2>1. f = [k |-> "trial", body |-> body, la |-> Ahead, cands |-> cands, post |-> FALSE, cp |-> cp]
    BY DEF TrialFrame
  <2>2. cp.len = Len(out) /\ cp.didx = didx /\ cp.suppress = suppress
    OBVIOUS
  <2>. HIDE DEF cp, f, body, cands
  <2>. QED BY <2>1, <2>2
<1>8. Cut(f)
  <2>1. \A i \in DOMAIN cands :
            LeavesOf(cands[i].pre) \o LeavesOf(cands[i].prio) \o LeavesOf(cands[i].post) = LeavesOf(body)
    BY <1>2 DEF Suited, WalksKeepTexts
  <2>2. DOMAIN cands = 1..Len(cands)
    <3>1. cands \in Seq(Parts(E))
      BY <1>2 DEF Suited, Setting, WalksTyped, Parts
    <3>. HIDE DEF cands
    <3>. QED BY <3>1
  <2>. HIDE DEF f, cands, body
  <2>. QED BY <1>7, <2>1, <2>2 DEF Cut
<1>9. f \in Frames(E)
  <2>1. /\ stack' \in Seq(Frames(E)) /\ Consumed \in Seq(Frames(E))
        /\ Len(stack') = Len(Consumed) + 1 /\ stack'[Len(stack')] = f
    <3>1. LInv(E)'
      BY StartTrialsStep DEF Suited
    <3>2. stack' \in Seq(Frames(E))
      BY <3>1 DEF LInv, StackOf
    <3>. HIDE DEF f
    <3>. QED BY <1>1, <1>2, <3>2
  <2>2. Len(stack') \in 1..Len(stack')
    BY <2>1
  <2>. HIDE DEF f
  <2>. QED BY <2>1, <2>2
<1>10. /\ TrialOwes(actions, optional, out, f, after)
       /\ after = Read(actions, st, Remaining(f))
  <2>1. SubSeq(out, 1, Len(out)) = out
    BY <1>2, SubSeqFull
  <2>2. st = Shown(optional, didx, suppress, out)
    BY DEF Now
  <2>. HIDE DEF f, body, cands, st
  <2>3. Remaining(f) = LeavesOf(body)
    BY <1>7 DEF Remaining
  <2>4. Read(actions, Shown(optional, f.cp.didx, f.cp.suppress, SubSeq(out, 1, f.cp.len)),
                  LeavesOf(f.body)) = after
    BY <1>7, <2>1, <2>2
  <2>. QED BY <1>8, <2>3, <2>4 DEF TrialOwes
<1>. HIDE DEF f, body, st, after
<1>11. Owed(actions, optional, out, Consumed, Read(actions, st, HeadLeaves(Elem)), total)
  BY <1>1, <1>2, <1>5, ConsumedOwed
<1>12. Owed(actions, optional, out, Consumed, after, total)
  BY <1>2, <1>11 DEF after
<1>13. Owed(actions, optional, out, Append(Consumed, f), st, total)
  BY <1>2, <1>4, <1>9, <1>10, <1>12, OwedPush
<1>. QED BY <1>1, <1>6, <1>13 DEF Owes

(* What the trial on top and the frames under it owe. *)
LEMMA TopTrial ==
    ASSUME NEW E, NEW optional, Suited(E, optional), NEW total, LInv(E), OnTrial, Owes(optional, total),
           NEW cells, Kept(stack, out, cells)
    PROVE  LET after == Read(actions, Now(optional), Remaining(Top)) IN
           /\ Top \in TrialFrames(E) /\ (Top.post => Top.cands # <<>>) /\ (~Top.post => ~suppress)
           /\ Front(stack) \in Seq(Frames(E)) /\ Now(optional) \in ReadStates /\ after \in ReadStates
           /\ Owed(actions, optional, cells, Front(stack), after, total)
           /\ TrialOwes(actions, optional, cells, Top, after)
<1>1. stack # <<>> /\ Top.k = "trial"
  BY DEF OnTrial
<1>2. /\ Top \in TrialFrames(E) /\ Front(stack) \in Seq(Frames(E)) /\ Top \in Frames(E)
      /\ Innermost(E, Top, suppress) /\ stack = Append(Front(stack), Top)
  BY <1>1, TopKind, Split
<1>3. Remaining(Top) \in Seq(Leafs(E)) /\ Elements(E)
  <2>1. Elements(E) /\ \A x \in Seq(E) : LeavesOf(x) \in Seq(Leafs(E))
    BY DEF Suited, Setting, WalksTyped, Leafs
  <2>2. CASE Top.post
    <3>1. Top.cands \in Seq(Parts(E)) /\ Top.cands # <<>>
      BY <1>2, <2>2 DEF Innermost, TrialFrames
    <3>. DEFINE c == Head(Top.cands)
    <3>2. c \in Parts(E)
      BY <3>1, HeadTailProperties
    <3>. HIDE DEF c
    <3>3. c.post \in Seq(E)
      BY <3>2 DEF Parts
    <3>4. Remaining(Top) = LeavesOf(c.post)
      BY <1>1, <2>2 DEF Remaining, c
    <3>. QED BY <2>1, <3>3, <3>4
  <2>3. CASE ~Top.post
    <3>1. Top.body \in Seq(E)
      BY <1>2 DEF TrialFrames
    <3>2. Remaining(Top) = LeavesOf(Top.body)
      BY <1>1, <2>3 DEF Remaining
    <3>. QED BY <2>1, <3>1, <3>2
  <2>. QED BY <2>1, <2>2, <2>3
<1>. DEFINE st == Now(optional)
            after == Read(actions, st, Remaining(Top))
            fs == Front(stack)
<1>4. st \in ReadStates
  BY NowType DEF LInv
<1>5. Owed(actions, optional, cells, Append(fs, Top), st, total)
  <2>1. Owed(actions, optional, out, stack, st, total)
    BY DEF Owes
  <2>. HIDE DEF st
  <2>2. Owed(actions, optional, cells, stack, st, total)
    BY <2>1, OwedKept
  <2>. QED BY <1>2, <2>2
<1>. HIDE DEF st
<1>6. after \in ReadStates
  BY <1>3, <1>4, ReadType
<1>7. fs \in Seq(Frames(E))
  BY <1>2
<1>. HIDE DEF fs
<1>8. Owed(actions, optional, cells, fs, after, total) /\ TrialOwes(actions, optional, cells, Top, after)
  BY <1>2, <1>5, <1>7, OwedPop
<1>. QED BY <1>2, <1>4, <1>6, <1>7, <1>8 DEF Innermost, st, fs

(* A document laid out compact shows what it demands. *)
LEMMA CompactShown ==
    ASSUME NEW E, NEW optional, Suited(E, optional), RenderOK, ~suppress,
           NEW grp \in Seq(E), NEW la \in Seq(E),
           Try(grp, la).ok, Adopt(Try(grp, la))
    PROVE  Now(optional)' = Read(actions, Now(optional), LeavesOf(grp))
<1>1. TryShows(actions, optional, grp, la)
  BY TryInk DEF Suited
<1>2. out' = Try(grp, la).out /\ didx' = didx /\ suppress' = suppress
  BY DEF Adopt
<1>3. suppress = FALSE
  <2>1. suppress \in BOOLEAN
    BY DEF RenderOK
  <2>. QED BY <2>1
<1>. QED BY <1>1, <1>2, <1>3 DEF TryShows, Now

LEMMA ReadThree ==
    ASSUME NEW E, Elements(E), NEW acts, NEW st \in ReadStates, NEW a \in Seq(Leafs(E)),
           NEW b \in Seq(Leafs(E)), NEW c \in Seq(Leafs(E))
    PROVE  /\ Read(acts, st, a) \in ReadStates /\ Read(acts, Read(acts, st, a), b) \in ReadStates
           /\ Read(acts, st, a \o b \o c) = Read(acts, Read(acts, Read(acts, st, a), b), c)
<1>. DEFINE first == Read(acts, st, a)
            ab == a \o b
<1>1. first \in ReadStates
  BY ReadType
<1>2. ab \in Seq(Leafs(E)) /\ Read(acts, st, ab) = Read(acts, first, b)
  BY ConcatProperties, ReadConcat
<1>. HIDE DEF first, ab
<1>3. Read(acts, first, b) \in ReadStates
  BY <1>1, ReadType
<1>4. Read(acts, st, ab \o c) = Read(acts, Read(acts, st, ab), c)
  BY <1>2, ReadConcat
<1>. QED BY <1>1, <1>2, <1>3, <1>4 DEF first, ab

(* A trial that begins has shown the part before the Priority child and     *)
(* owes that child and the part behind it.                                  *)
LEMMA TrialBeginsShows ==
    ASSUME NEW E, NEW optional, Suited(E, optional), NEW total, LInv(E), TrialBegins,
           Owes(optional, total)
    PROVE  Owes(optional, total)'
<1>. DEFINE c == Head(Top.cands)
            ahead == c.prio \o c.post \o Top.la
            f == [Top EXCEPT !.post = TRUE]
            la == Unexpand(c.post) \o Top.la
            st == Now(optional)
            fs == Front(stack)
            after == Read(actions, st, Remaining(Top))
            behind == Append(fs, f)
<1>1. /\ OnTrial /\ ~Top.post /\ Top.cands # <<>> /\ Try(c.pre, ahead).ok /\ Adopt(Try(c.pre, ahead))
      /\ stack' = Append(behind, DocFrame(c.prio, la)) /\ UNCHANGED actions
  BY DEF TrialBegins
<1>2. Kept(stack, out, out')
  BY TrialBeginsStep, PromiseExtends DEF Suited
<1>. DEFINE cells == out'
<1>3. /\ Top \in TrialFrames(E) /\ ~suppress /\ fs \in Seq(Frames(E)) /\ st \in ReadStates /\ after \in ReadStates
      /\ Owed(actions, optional, cells, fs, after, total)
      /\ TrialOwes(actions, optional, cells, Top, after)
  <2>1. Kept(stack, out, cells)
    BY <1>2
  <2>. HIDE DEF cells
  <2>. QED BY <1>1, <2>1, TopTrial
<1>4. c \in Parts(E) /\ Top.la \in Seq(E) /\ Top.cands[1] = c /\ 1 \in 1..Len(Top.cands) /\ Top.k = "trial"
  BY <1>1, <1>3, HeadTailProperties DEF TrialFrames
<1>5. c.pre \in Seq(E) /\ c.prio \in Seq(E) /\ c.post \in Seq(E)
  <2>. HIDE DEF c
  <2>. QED BY <1>4 DEF Parts
<1>6. ahead \in Seq(E) /\ la \in Seq(E)
  <2>. HIDE DEF c
  <2>1. ahead \in Seq(E)
    BY <1>4, <1>5, ConcatBoth
  <2>2. Unexpand(c.post) \in Seq(E)
    BY <1>5, UnexpandType DEF Suited, Setting
  <2>3. la \in Seq(E)
    BY <1>4, <2>2, ConcatProperties
  <2>. QED BY <2>1, <2>3
<1>7. Now(optional)' = Read(actions, st, LeavesOf(c.pre))
  <2>1. Try(c.pre, ahead).ok /\ Adopt(Try(c.pre, ahead)) /\ RenderOK
    BY <1>1 DEF LInv
  <2>. DEFINE pre == c.pre
  <2>2. pre \in Seq(E) /\ Try(pre, ahead).ok /\ Adopt(Try(pre, ahead))
    BY <1>5, <2>1
  <2>. HIDE DEF pre, ahead, c
  <2>3. Now(optional)' = Read(actions, Now(optional), LeavesOf(pre))
    BY <1>3, <1>6, <2>1, <2>2, CompactShown
  <2>. QED BY <2>3 DEF pre
<1>8. /\ f \in TrialFrames(E) /\ f.k = "trial" /\ f.post /\ f.cands = Top.cands
      /\ f.body = Top.body /\ f.cp = Top.cp
  BY <1>3 DEF TrialFrames
<1>9. TrialOwes(actions, optional, cells, f, after)
  <2>. HIDE DEF f, cells, after
  <2>. QED BY <1>3, <1>4, <1>8 DEF TrialOwes, Cut
<1>. DEFINE m1 == Read(actions, st, LeavesOf(c.pre))
            m2 == Read(actions, m1, LeavesOf(c.prio))
<1>10. m1 \in ReadStates /\ m2 \in ReadStates /\ after = Read(actions, m2, LeavesOf(c.post))
  <2>1. LeavesOf(Top.body) = LeavesOf(c.pre) \o LeavesOf(c.prio) \o LeavesOf(c.post)
    <3>. HIDE DEF c, cells, after
    <3>. QED BY <1>3, <1>4 DEF TrialOwes, Cut
  <2>2. Remaining(Top) = LeavesOf(Top.body)
    BY <1>1, <1>4 DEF Remaining
  <2>. DEFINE x == LeavesOf(c.pre)
              y == LeavesOf(c.prio)
              z == LeavesOf(c.post)
  <2>3. Elements(E) /\ x \in Seq(Leafs(E)) /\ y \in Seq(Leafs(E)) /\ z \in Seq(Leafs(E))
    BY <1>5 DEF Suited, Setting, WalksTyped, Leafs
  <2>4. after = Read(actions, st, x \o y \o z)
    BY <2>1, <2>2
  <2>. HIDE DEF x, y, z, after, st
  <2>5. /\ Read(actions, st, x) \in ReadStates /\ Read(actions, Read(actions, st, x), y) \in ReadStates
        /\ Read(actions, st, x \o y \o z) = Read(actions, Read(actions, Read(actions, st, x), y), z)
    BY <1>3, <2>3, ReadThree
  <2>. QED BY <2>4, <2>5 DEF x, y, z
<1>11. Remaining(f) = LeavesOf(c.post)
  <2>. HIDE DEF f
  <2>. QED BY <1>8 DEF Remaining
<1>. HIDE DEF f, st, after, cells, m2, fs
<1>12. behind \in Seq(Frames(E)) /\ Owed(actions, optional, cells, behind, m2, total)
  <2>1. f \in Frames(E) /\ after = Read(actions, m2, Remaining(f))
    BY <1>8, <1>10, <1>11 DEF Frames
  <2>2. Owed(actions, optional, cells, Append(fs, f), m2, total)
    BY <1>3, <1>9, <1>10, <2>1, OwedPush
  <2>3. Append(fs, f) \in Seq(Frames(E))
    BY <1>3, <2>1
  <2>. QED BY <2>2, <2>3
<1>13. Owed(actions, optional, cells, Append(behind, DocFrame(c.prio, la)), m1, total)
  <2>. DEFINE prio == c.prio
  <2>1. prio \in Seq(E) /\ Owed(actions, optional, cells, behind, Read(actions, m1, LeavesOf(prio)), total)
    BY <1>5, <1>12 DEF m2
  <2>. HIDE DEF prio, behind, la, m1
  <2>2. Owed(actions, optional, cells, Append(behind, DocFrame(prio, la)), m1, total)
    BY <1>6, <1>10, <1>12, <2>1, DocOwed
  <2>. QED BY <2>2 DEF prio
<1>. QED BY <1>1, <1>7, <1>13 DEF Owes, cells

(* A rollback shows what was shown at the checkpoint and owes the body.     *)
LEMMA RestoreShows ==
    ASSUME NEW E, NEW optional, Suited(E, optional), NEW total, LInv(E), TrialRejected \/ TrialFails,
           Owes(optional, total)
    PROVE  Owes(optional, total)'
<1>1. OnTrial /\ Restore(Top.cp) /\ stack' = NextCandidate /\ UNCHANGED actions
  BY DEF TrialRejected, TrialFails
<1>2. Top \in TrialFrames(E) /\ Top.cands # <<>> /\ stack # <<>>
  <2>1. stack # <<>> /\ Top.k = "trial"
    BY <1>1 DEF OnTrial
  <2>2. Top \in TrialFrames(E) /\ Innermost(E, Top, suppress)
    BY <2>1, TopKind, Split
  <2>3. CASE TrialRejected
    BY <2>1, <2>2, <2>3 DEF TrialRejected
  <2>4. CASE TrialFails
    BY <2>1, <2>2, <2>4 DEF TrialFails, Innermost
  <2>. QED BY <2>1, <2>2, <2>3, <2>4
<1>3. /\ out' = SubSeq(out, 1, Top.cp.len) /\ didx' = Top.cp.didx /\ suppress' = Top.cp.suppress
  BY <1>1 DEF Restore
<1>. DEFINE cells == out'
            fs == Front(stack)
            after == Read(actions, Now(optional), Remaining(Top))
            f == [Top EXCEPT !.cands = Tail(@), !.post = FALSE]
<1>4. /\ fs \in Seq(Frames(E)) /\ after \in ReadStates
      /\ Owed(actions, optional, cells, fs, after, total)
      /\ TrialOwes(actions, optional, cells, Top, after)
  <2>1. Kept(stack, out, cells)
    BY <1>2, <1>3, KeptCut
  <2>. HIDE DEF cells
  <2>. QED BY <1>1, <2>1, TopTrial
<1>5. SubSeq(cells, 1, Top.cp.len) = cells
  <2>1. Top.cp.len \in Nat /\ Top.cp.len <= Len(out) /\ out \in Seq(Int)
    BY <1>2, TopSaved DEF LInv, RenderOK
  <2>2. SubSeq(SubSeq(out, 1, Top.cp.len), 1, Top.cp.len) = SubSeq(out, 1, Top.cp.len)
    BY <2>1, CutCut
  <2>. QED BY <1>3, <2>2
<1>6. Now(optional)' = Shown(optional, Top.cp.didx, Top.cp.suppress, SubSeq(cells, 1, Top.cp.len))
  BY <1>3, <1>5 DEF Now
<1>7. Cut(Top) /\ Top.k = "trial" /\ Read(actions, Now(optional)', LeavesOf(Top.body)) = after
  <2>1. Top.k = "trial"
    BY <1>2 DEF TrialFrames
  <2>. HIDE DEF cells, after
  <2>. QED BY <1>4, <1>6, <2>1 DEF TrialOwes
<1>8. /\ Top.cands \in Seq(Parts(E)) /\ Tail(Top.cands) \in Seq(Parts(E))
      /\ Len(Tail(Top.cands)) = Len(Top.cands) - 1
      /\ \A i \in 1..Len(Tail(Top.cands)) : Tail(Top.cands)[i] = Top.cands[i + 1] /\ i + 1 \in 1..Len(Top.cands)
  <2>. DEFINE cs == Top.cands
  <2>1. cs \in Seq(Parts(E)) /\ cs # <<>>
    BY <1>2 DEF TrialFrames
  <2>. HIDE DEF cs
  <2>2. /\ Tail(cs) \in Seq(Parts(E)) /\ Len(Tail(cs)) = Len(cs) - 1
        /\ \A i \in 1..Len(Tail(cs)) : Tail(cs)[i] = cs[i + 1] /\ i + 1 \in 1..Len(cs)
    BY <2>1
  <2>. QED BY <2>1, <2>2 DEF cs
<1>9. /\ f \in TrialFrames(E) /\ f.k = "trial" /\ f.post = FALSE /\ f.cands = Tail(Top.cands)
      /\ f.body = Top.body /\ f.cp = Top.cp
  BY <1>2, <1>8 DEF TrialFrames
<1>10. stack' = Append(fs, f)
  BY <1>1 DEF NextCandidate
<1>. HIDE DEF f
<1>11. Cut(f)
  <2>. SUFFICES ASSUME NEW i \in 1..Len(f.cands)
                PROVE  LeavesOf(f.cands[i].pre) \o LeavesOf(f.cands[i].prio) \o LeavesOf(f.cands[i].post)
                         = LeavesOf(f.body)
    BY DEF Cut
  <2>1. f.cands[i] = Top.cands[i + 1] /\ i + 1 \in 1..Len(Top.cands)
    BY <1>8, <1>9
  <2>. QED BY <1>7, <1>9, <2>1 DEF Cut
<1>. DEFINE st == Now(optional)'
<1>12. st \in ReadStates
  <2>1. RenderOK'
    BY RestoreStep DEF LInv
  <2>2. didx' \in Nat /\ suppress' \in BOOLEAN /\ out' \in Seq(Int)
    BY <2>1 DEF RenderOK
  <2>. QED BY <2>2, ShownType DEF Now
<1>13. /\ TrialOwes(actions, optional, cells, f, after)
       /\ after = Read(actions, st, Remaining(f)) /\ f \in Frames(E)
  <2>1. Remaining(f) = LeavesOf(Top.body)
    BY <1>9 DEF Remaining
  <2>2. Read(actions, Shown(optional, f.cp.didx, f.cp.suppress, SubSeq(cells, 1, f.cp.len)),
                  LeavesOf(f.body)) = after
    <3>1. Read(actions, Shown(optional, Top.cp.didx, Top.cp.suppress, SubSeq(cells, 1, Top.cp.len)),
                    LeavesOf(Top.body)) = after
      BY <1>6, <1>7
    <3>. HIDE DEF after, cells
    <3>. QED BY <1>9, <3>1
  <2>3. TrialOwes(actions, optional, cells, f, after)
    <3>. HIDE DEF after, cells
    <3>. QED BY <1>11, <2>2 DEF TrialOwes
  <2>. QED BY <1>7, <1>9, <2>1, <2>3 DEF Frames
<1>. HIDE DEF st, after, cells, fs
<1>14. Owed(actions, optional, cells, Append(fs, f), st, total)
  BY <1>4, <1>12, <1>13, OwedPush
<1>. QED BY <1>1, <1>10, <1>14 DEF Owes, st, cells

(* A trial that succeeds has shown its body, or owes the part behind the    *)
(* Priority child to a disabled region.                                     *)
LEMMA TrialSucceedsShows ==
    ASSUME NEW E, NEW optional, Suited(E, optional), NEW total, LInv(E), TrialSucceeds,
           Owes(optional, total)
    PROVE  Owes(optional, total)'
<1>. DEFINE c == Head(Top.cands)
            la == Top.la
            st == Now(optional)
            fs == Front(stack)
            after == Read(actions, st, Remaining(Top))
            cells == out'
<1>1. /\ OnTrial /\ Top.post /\ UNCHANGED actions
      /\ \/ suppress /\ stack' = Append(fs, DocFrame(c.post, la)) /\ UNCHANGED rvars
         \/ ~suppress /\ Try(c.post, la).ok /\ Adopt(Try(c.post, la)) /\ stack' = fs
  BY DEF TrialSucceeds
<1>2. Kept(stack, out, cells)
  BY TrialSucceedsStep, PromiseExtends DEF Suited
<1>3. /\ Top \in TrialFrames(E) /\ Top.cands # <<>> /\ fs \in Seq(Frames(E)) /\ st \in ReadStates
      /\ after \in ReadStates /\ Owed(actions, optional, cells, fs, after, total)
  <2>. HIDE DEF cells
  <2>. QED BY <1>1, <1>2, TopTrial
<1>4. c \in Parts(E) /\ la \in Seq(E) /\ Top.k = "trial"
  BY <1>3, HeadTailProperties DEF TrialFrames
<1>5. c.post \in Seq(E) /\ Remaining(Top) = LeavesOf(c.post)
  <2>1. Remaining(Top) = LeavesOf(c.post)
    BY <1>1, <1>4 DEF Remaining
  <2>. HIDE DEF c
  <2>. QED BY <1>4, <2>1 DEF Parts
<1>. DEFINE post == c.post
<1>6. post \in Seq(E) /\ after = Read(actions, st, LeavesOf(post))
  BY <1>5
<1>7. CASE suppress
  <2>1. stack' = Append(fs, DocFrame(post, la)) /\ UNCHANGED rvars
    BY <1>1, <1>7
  <2>2. Now(optional)' = st
    BY <2>1 DEF Now, Shown, rvars
  <2>. HIDE DEF post, la, fs, st, after, cells
  <2>3. Owed(actions, optional, cells, Append(fs, DocFrame(post, la)), st, total)
    BY <1>3, <1>4, <1>6, DocOwed
  <2>. QED BY <1>1, <2>1, <2>2, <2>3 DEF Owes, cells
<1>8. CASE ~suppress
  <2>1. Try(post, la).ok /\ Adopt(Try(post, la)) /\ stack' = fs /\ RenderOK
    BY <1>1, <1>8 DEF LInv
  <2>2. Now(optional)' = Read(actions, st, LeavesOf(post))
    <3>. HIDE DEF post, la
    <3>. QED BY <1>4, <1>6, <1>8, <2>1, CompactShown
  <2>. HIDE DEF post, la, fs, st, after, cells
  <2>. QED BY <1>1, <1>3, <1>6, <2>1, <2>2 DEF Owes, cells
<1>. QED BY <1>7, <1>8

(* With every candidate lost the body is rendered piece by piece. *)
LEMMA GiveUpShows ==
    ASSUME NEW E, NEW optional, Suited(E, optional), NEW total, LInv(E), GiveUpTrials,
           Owes(optional, total)
    PROVE  Owes(optional, total)'
<1>. DEFINE body == Top.body
            la == Top.la
            st == Now(optional)
            fs == Front(stack)
            after == Read(actions, st, Remaining(Top))
<1>1. /\ OnTrial /\ ~Top.post /\ stack' = Append(fs, DocFrame(body, la))
      /\ UNCHANGED <<actions, out, didx, suppress>>
  BY DEF GiveUpTrials, rvars
<1>2. Kept(stack, out, out)
  BY DEF Kept
<1>3. /\ Top \in TrialFrames(E) /\ fs \in Seq(Frames(E)) /\ st \in ReadStates
      /\ after \in ReadStates /\ Owed(actions, optional, out, fs, after, total)
  BY <1>1, <1>2, TopTrial
<1>4. body \in Seq(E) /\ la \in Seq(E) /\ Top.k = "trial"
  BY <1>3 DEF TrialFrames
<1>5. after = Read(actions, st, LeavesOf(body))
  BY <1>1, <1>4 DEF Remaining
<1>6. Now(optional)' = st
  BY <1>1 DEF Now, Shown
<1>. HIDE DEF body, la, fs, st, after
<1>7. Owed(actions, optional, out, Append(fs, DocFrame(body, la)), st, total)
  BY <1>3, <1>4, <1>5, DocOwed
<1>. QED BY <1>1, <1>6, <1>7 DEF Owes

(* With nothing owed the result shows all. *)
LEMMA FinishShows ==
    ASSUME NEW E, NEW optional, LInv(E), NEW total, Owes(optional, total), Finish
    PROVE  Ink(optional, result'[1]) = total.cells
<1>1. stack = <<>> /\ result' = <<Append(Trimmed(out), Feed)>> /\ out \in Seq(Int)
  BY DEF Finish, LInv, RenderOK
<1>2. Now(optional) \in ReadStates /\ Now(optional).cells = Ink(optional, out)
  BY NowType DEF LInv
<1>3. total = Now(optional)
  <2>1. Owed(actions, optional, out, <<>>, Now(optional), total)
    BY <1>1 DEF Owes
  <2>. QED BY <1>2, <2>1, OwedNothing
<1>4. Trimmed(out) \in Seq(Int) /\ Ink(optional, Trimmed(out)) = Ink(optional, out)
  BY <1>1, TrimmedInk
<1>5. Feed \in Int /\ InkOf(optional, Feed) = <<>>
  BY DEF InkOf, IsWhite, Feed
<1>6. Ink(optional, Append(Trimmed(out), Feed)) = Ink(optional, Trimmed(out)) \o InkOf(optional, Feed)
  BY <1>4, <1>5, InkAppend
<1>7. Ink(optional, out) \o <<>> = Ink(optional, out)
  BY <1>1, InkType, ConcatEmptySeq
<1>8. result'[1] = Append(Trimmed(out), Feed)
  BY <1>1
<1>. QED BY <1>2, <1>3, <1>4, <1>5, <1>6, <1>7, <1>8

-----------------------------------------------------------------------------
(* Each text comes out once.                                                *)

(* What a document and the walks over it must be like for the engine to     *)
(* show it: made of elements of E, and the letters of its Trailing texts    *)
(* are theirs alone.                                                        *)
Suits(E, d) ==
    /\ Setting(E) /\ WalksKeepTexts(Seq(E)) /\ Lettered(E, TrailingLetters(d))
    /\ d \in Seq(E) /\ Group("Regular", d) \in E

LEMMA SuitsSuited == ASSUME NEW E, NEW d, Suits(E, d) PROVE Suited(E, TrailingLetters(d))
<1>. DEFINE leaves == LeavesOf(d)
<1>1. leaves \in Seq(Leafs(E))
  BY DEF Suits, Setting, WalksTyped, Leafs
<1>2. ASSUME NEW c \in TrailingLetters(d) PROVE c > 0
  <2>1. PICK x \in ToSet(leaves) : IsText(x) /\ c \in ToSet(x.txt)
    BY DEF TrailingLetters
  <2>2. x \in E
    <3>. HIDE DEF leaves
    <3>1. PICK j \in DOMAIN leaves : x = leaves[j]
      BY DEF ToSet
    <3>. QED BY <1>1, <3>1 DEF Leafs
  <2>3. PICK i \in DOMAIN x.txt : c = x.txt[i]
    BY <2>1 DEF ToSet
  <2>4. x.txt[i] > 0
    BY <2>1, <2>2, <2>3 DEF Suits, Lettered
  <2>. QED BY <2>3, <2>4
<1>. QED BY <1>2 DEF Suits, Suited

Demand == Read(actions, AtFirst, LeavesOf(doc))

DemandInv(E) ==
    /\ Suits(E, doc) /\ LInv(E) /\ ActionsOK
    /\ Owes(TrailingLetters(doc), Demand)
    /\ DemandedExactlyOnce

(* At first the document is owed. *)
LEMMA InitOwes ==
    ASSUME NEW E, NEW optional, Suited(E, optional), doc \in Seq(E), Group("Regular", doc) \in E, Init
    PROVE  Owes(optional, Demand)
<1>1. /\ out = <<>> /\ didx = 0 /\ suppress = FALSE
      /\ stack = <<DocFrame(<<Group("Regular", doc)>>, <<>>)>>
  BY DEF Init
<1>2. Now(optional) = AtFirst
  BY <1>1, InkEmpty DEF Now, Shown, AtFirst
<1>3. AtFirst \in ReadStates
  BY DEF AtFirst, ReadStates
<1>. DEFINE g == Group("Regular", doc)
            todo == <<g>>
            none == <<>>
<1>4. g \in E /\ IsGroup(g) /\ g.body = doc
  BY DEF Group, IsGroup
<1>5. todo \in Seq(E) /\ todo # <<>> /\ Head(todo) = g /\ Tail(todo) = none /\ none \in Seq(E)
      /\ none \in Seq(Frames(E)) /\ stack = Append(none, DocFrame(todo, none))
  <2>. DEFINE frame == DocFrame(todo, none)
  <2>1. stack = Append(none, frame) /\ none \in Seq(Frames(E))
    <3>1. stack = <<frame>>
      BY <1>1
    <3>. HIDE DEF frame
    <3>. QED BY <3>1
  <2>2. todo \in Seq(E) /\ todo # <<>> /\ Head(todo) = g /\ Tail(todo) = none /\ none \in Seq(E)
    <3>1. g \in E
      BY <1>4
    <3>. HIDE DEF g
    <3>. QED BY <3>1
  <2>. QED BY <2>1, <2>2
<1>6. LeavesOf(todo) = LeavesOf(doc)
  <2>. HIDE DEF todo, g, none
  <2>1. LeavesOf(todo) = LeavesOf(doc) \o LeavesOf(none)
    BY <1>4, <1>5 DEF Suited, WalksKeepTexts
  <2>2. LeavesOf(none) = <<>> /\ LeavesOf(doc) \in Seq(Leafs(E))
    BY DEF Suited, Setting, WalksKeepTexts, WalksTyped, Leafs, none
  <2>. QED BY <2>1, <2>2, ConcatEmptySeq
<1>7. Demand \in ReadStates /\ Demand = Read(actions, AtFirst, LeavesOf(todo))
  <2>1. LeavesOf(doc) \in Seq(Leafs(E)) /\ Elements(E)
    BY DEF Suited, Setting, WalksTyped, Leafs
  <2>. HIDE DEF todo
  <2>. QED BY <1>3, <1>6, <2>1, ReadType DEF Demand
<1>. DEFINE total == Demand
            st == AtFirst
<1>8. Owed(actions, optional, out, none, Read(actions, st, LeavesOf(todo)), total)
  <2>1. total \in ReadStates /\ total = Read(actions, st, LeavesOf(todo))
    BY <1>7
  <2>. HIDE DEF total, todo, st
  <2>2. Owed(actions, optional, out, <<>>, total, total)
    BY <2>1, OwedNothing
  <2>. QED BY <2>1, <2>2
<1>. HIDE DEF none, todo, total, st
<1>9. Owed(actions, optional, out, Append(none, DocFrame(todo, none)), st, total)
  BY <1>3, <1>5, <1>8, DocOwed DEF st
<1>. QED BY <1>2, <1>5, <1>9 DEF Owes, total, st

(* Every step keeps what is owed. *)
LEMMA NextOwes ==
    ASSUME NEW E, NEW optional, Suited(E, optional), NEW total, LInv(E), ActionsOK,
           Owes(optional, total),
           Next \/ UNCHANGED vars
    PROVE  Owes(optional, total)'
<1>1. CASE RenderText \/ RenderSpacing \/ SkipSuppressed \/ RenderDirective
  BY <1>1, RenderTextShows, RenderSpacingShows, SkipShows, RenderDirectiveShows
<1>2. CASE EnterSuppressed \/ RenderCompact \/ RenderExpanded \/ StartTrials
  BY <1>2, EnterShows, RenderCompactShows, StartTrialsShows
<1>3. CASE TrialBegins \/ TrialRejected \/ TrialSucceeds \/ TrialFails \/ GiveUpTrials
  BY <1>3, TrialBeginsShows, RestoreShows, TrialSucceedsShows, GiveUpShows
<1>4. CASE Return
  BY <1>4, ReturnShows
<1>5. CASE Finish \/ Terminated \/ UNCHANGED vars
  <2>1. UNCHANGED <<actions, out, didx, suppress, stack>>
    BY <1>5 DEF Finish, Terminated, vars, rvars
  <2>. QED BY <2>1 DEF Owes, Now, Shown
<1>. QED BY <1>1, <1>2, <1>3, <1>4, <1>5 DEF Next

LEMMA DemandStepKeeps ==
    ASSUME NEW E, DemandInv(E), Next \/ UNCHANGED vars
    PROVE  DemandInv(E)'
<1>1. PICK optional, total : optional = TrailingLetters(doc) /\ total = Demand
  OBVIOUS
<1>2. /\ Suits(E, doc) /\ LInv(E) /\ ActionsOK /\ Owes(optional, total) /\ DemandedExactlyOnce
      /\ Suited(E, optional) /\ Setting(E)
  BY <1>1, SuitsSuited DEF DemandInv, Suits
<1>3. Owes(optional, total)'
  BY <1>2, NextOwes
<1>4. LInv(E)' /\ ActionsOK'
  BY <1>2, LInvStep, ActionsKept
<1>5. doc' = doc /\ actions' = actions /\ (result' = result \/ Finish)
  BY DEF Next, vars, RenderText, RenderSpacing, SkipSuppressed, RenderDirective, EnterSuppressed,
         RenderCompact, RenderExpanded, StartTrials, TrialBegins, TrialRejected, TrialSucceeds,
         TrialFails, GiveUpTrials, Return, Finish, Terminated
<1>6. TrailingLetters(doc') = optional /\ Demand' = total
  BY <1>1, <1>5 DEF Demand
<1>7. DemandedExactlyOnce'
  <2>1. CASE Finish
    <3>1. Ink(optional, result'[1]) = total.cells
      BY <1>2, <2>1, FinishShows
    <3>. QED BY <1>6, <3>1 DEF DemandedExactlyOnce, Demanded, Demand
  <2>2. CASE result' = result
    BY <1>2, <1>5, <2>2 DEF DemandedExactlyOnce, Demanded, Done
  <2>. QED BY <1>5, <2>1, <2>2
<1>. QED BY <1>2, <1>3, <1>4, <1>5, <1>6, <1>7 DEF DemandInv

(* Whatever was tried, measured and rolled back, each text and each region  *)
(* of a document comes out exactly once and in order: for every document    *)
(* and all widths, if the walks over documents keep the texts.              *)
THEOREM EachTextOnce ==
    ASSUME \A d \in Docs : \E E : Suits(E, FixedUp(d))
    PROVE  Spec => []DemandedExactlyOnce
<1>. DEFINE I == \E E : DemandInv(E)
<1>1. Init => I
  <2>. SUFFICES ASSUME Init PROVE I
    OBVIOUS
  <2>1. PICK d \in Docs : doc = FixedUp(d)
    BY DEF Init
  <2>2. PICK E : Suits(E, doc)
    BY <2>1
  <2>3. PICK optional : optional = TrailingLetters(doc)
    OBVIOUS
  <2>4. Suited(E, optional) /\ Setting(E) /\ doc \in Seq(E) /\ Group("Regular", doc) \in E
    BY <2>2, <2>3, SuitsSuited DEF Suits
  <2>5. LInv(E) /\ ActionsOK
    BY <2>4, LInvInit
  <2>6. Owes(optional, Demand)
    BY <2>4, InitOwes
  <2>7. DemandedExactlyOnce
    BY DEF Init, DemandedExactlyOnce, Done
  <2>8. DemandInv(E)
    BY <2>2, <2>3, <2>5, <2>6, <2>7 DEF DemandInv
  <2>. QED BY <2>8
<1>2. I /\ [Next]_vars => I'
  <2>. SUFFICES ASSUME I, Next \/ UNCHANGED vars PROVE I'
    OBVIOUS
  <2>1. PICK E : DemandInv(E)
    OBVIOUS
  <2>2. DemandInv(E)'
    BY <2>1, DemandStepKeeps
  <2>. QED BY <2>2
<1>3. I => DemandedExactlyOnce
  BY DEF DemandInv
<1>. HIDE DEF I
<1>. QED BY <1>1, <1>2, <1>3, PTL DEF Spec

-----------------------------------------------------------------------------
(* Counting steps.  A sum over the elements of a sequence.                  *)

LEMMA TotalFolds ==
    ASSUME NEW X, NEW f, \A x \in X : f[x] \in Nat, NEW s \in Seq(X)
    PROVE  Folded(Total(f, s), Nat, 0, [p \in Nat \X X |-> p[1] + f[p[2]]], s)
<1>. DEFINE step == [p \in Nat \X X |-> p[1] + f[p[2]]]
            Rec(h) == h = [t \in SUBSET DOMAIN s |-> IF t = {} THEN 0 ELSE h[t \ {Max(t)}] + f[s[Max(t)]]]
            n == Len(s)
<1>0. DOMAIN s = 1..n /\ n \in Nat /\ \A k \in 1..n : s[k] \in X
  OBVIOUS
<1>1. step \in [Nat \X X -> Nat] /\ \A a \in Nat, x \in X : step[<<a, x>>] = a + f[x]
  OBVIOUS
<1>. HIDE DEF step
<1>2. PICK h \in [SUBSET (1..n) -> Nat] : IsIteration(h, n, 0, step, s)
  <2>1. 0 \in Nat
    OBVIOUS
  <2>. QED BY <1>1, <2>1, IterationExists
<1>3. \A t \in SUBSET (1..n) : t # {} => Max(t) \in 1..n
  BY <1>0, MaxOfPart
<1>4. Rec(h)
  <2>1. ASSUME NEW t \in SUBSET (1..n)
        PROVE  h[t] = IF t = {} THEN 0 ELSE h[t \ {Max(t)}] + f[s[Max(t)]]
    <3>1. CASE t = {}
      BY <1>2, <3>1 DEF IsIteration
    <3>2. CASE t # {}
      <4>1. h[t \ {Max(t)}] \in Nat /\ s[Max(t)] \in X
        BY <1>0, <1>3, <3>2
      <4>2. h[t] = step[<<h[t \ {Max(t)}], s[Max(t)]>>]
        BY <1>2, <3>2 DEF IsIteration
      <4>. QED BY <1>1, <3>2, <4>1, <4>2
    <3>. QED BY <3>1, <3>2
  <2>. QED BY <1>0, <2>1
<1>. DEFINE g == CHOOSE h2 : Rec(h2)
<1>5. Rec(g)
  <2>. HIDE DEF Rec
  <2>. QED BY <1>4
<1>6. Total(f, s) = g[1..n]
  <2>1. Total(f, s) = (CHOOSE h2 : Rec(h2))[DOMAIN s]
    BY DEF Total, FoldLeft, MapThenFoldSet
  <2>. QED BY <1>0, <2>1
<1>. HIDE DEF g
<1>7. StepsWhereTyped(g, n, Nat, 0, step, s)
  <2>1. \A t \in SUBSET (1..n) : g[t] = IF t = {} THEN 0 ELSE g[t \ {Max(t)}] + f[s[Max(t)]]
    BY <1>0, <1>5
  <2>. HIDE DEF Rec
  <2>2. g[{}] = 0
    BY <2>1
  <2>3. ASSUME NEW t \in SUBSET (1..n), t # {}, g[t \ {Max(t)}] \in Nat
        PROVE  g[t] = step[<<g[t \ {Max(t)}], s[Max(t)]>>]
    <3>1. s[Max(t)] \in X
      BY <1>0, <1>3, <2>3
    <3>2. g[t] = g[t \ {Max(t)}] + f[s[Max(t)]]
      BY <2>1, <2>3
    <3>. QED BY <1>1, <2>3, <3>1, <3>2
  <2>. QED BY <2>2, <2>3 DEF StepsWhereTyped
<1>8. Folded(g[1..n], Nat, 0, step, s)
  <2>. HIDE DEF Rec
  <2>1. 0 \in Nat
    OBVIOUS
  <2>. QED BY <1>1, <1>7, <2>1, IterationFolds
<1>. QED BY <1>6, <1>8 DEF step

LEMMA TotalAppend ==
    ASSUME NEW X, NEW f, \A x \in X : f[x] \in Nat, NEW s \in Seq(X), NEW x \in X
    PROVE  Total(f, s) \in Nat /\ Total(f, Append(s, x)) = Total(f, s) + f[x]
<1>. DEFINE step == [p \in Nat \X X |-> p[1] + f[p[2]]]
            more == Append(s, x)
<1>1. more \in Seq(X)
  OBVIOUS
<1>2. Folded(Total(f, s), Nat, 0, step, s) /\ Folded(Total(f, more), Nat, 0, step, more)
  BY <1>1, TotalFolds
<1>3. \A a \in Nat : step[<<a, x>>] = a + f[x]
  OBVIOUS
<1>. HIDE DEF step
<1>4. Total(f, more) = step[<<Total(f, s), x>>] /\ Total(f, s) \in Nat
  BY <1>2, FoldedAppend
<1>. QED BY <1>3, <1>4

LEMMA TotalEmpty == ASSUME NEW f PROVE Total(f, <<>>) = 0
<1>. DEFINE e == <<>>
<1>1. e \in Seq({}) /\ \A x \in {} : f[x] \in Nat
  BY EmptySeq
<1>2. Folded(Total(f, e), Nat, 0, [p \in Nat \X {} |-> p[1] + f[p[2]]], e)
  <2>. HIDE DEF e
  <2>. QED BY <1>1, TotalFolds
<1>. QED BY <1>2, FoldedEmpty

LEMMA TotalOne ==
    ASSUME NEW f, NEW x, f[x] \in Nat
    PROVE  Total(f, <<x>>) = f[x]
<1>. DEFINE e == <<>>
<1>1. e \in Seq({x}) /\ <<x>> = Append(e, x) /\ Total(f, e) = 0
  BY EmptySeq, TotalEmpty
<1>2. \A y \in {x} : f[y] \in Nat
  OBVIOUS
<1>. HIDE DEF e
<1>3. Total(f, Append(e, x)) = Total(f, e) + f[x]
  BY <1>1, <1>2, TotalAppend
<1>. HIDE DEF Total
<1>4. 0 + f[x] = f[x]
  OBVIOUS
<1>. QED BY <1>1, <1>3, <1>4

LEMMA TotalType ==
    ASSUME NEW X, NEW f, \A x \in X : f[x] \in Nat, NEW s \in Seq(X)
    PROVE  Total(f, s) \in Nat
<1>1. Folded(Total(f, s), Nat, 0, [p \in Nat \X X |-> p[1] + f[p[2]]], s)
  BY TotalFolds
<1>2. Len(s) \in 0..Len(s)
  OBVIOUS
<1>. QED BY <1>1, <1>2 DEF Folded

(* ... is the same for functions that agree on the elements, ...             *)
LEMMA TotalSame ==
    ASSUME NEW X, NEW f, NEW g, \A x \in X : f[x] \in Nat /\ g[x] = f[x], NEW s \in Seq(X)
    PROVE  Total(g, s) = Total(f, s)
<1>. DEFINE S == {t \in Seq(X) : Total(g, t) = Total(f, t)}
<1>0. (\A x \in X : f[x] \in Nat) /\ (\A x \in X : g[x] \in Nat)
  OBVIOUS
<1>1. <<>> \in S
  BY TotalEmpty, EmptySeq
<1>2. ASSUME NEW t \in Seq(X), NEW x \in X, t \in S PROVE Append(t, x) \in S
  <2>1. Total(g, t) = Total(f, t)
    BY <1>2
  <2>. HIDE DEF S
  <2>2. Total(f, Append(t, x)) = Total(f, t) + f[x]
    BY <1>0, TotalAppend
  <2>3. Total(g, Append(t, x)) = Total(g, t) + g[x]
    BY <1>0, TotalAppend
  <2>4. Append(t, x) \in Seq(X)
    OBVIOUS
  <2>. QED BY <2>1, <2>2, <2>3, <2>4 DEF S
<1>. HIDE DEF S
<1>3. \A t \in Seq(X) : t \in S
  BY <1>1, <1>2, SeqInd
<1>. QED BY <1>3 DEF S

(* ... and its first summand can be taken off.                              *)
LEMMA TotalHead ==
    ASSUME NEW X, NEW f, \A x \in X : f[x] \in Nat, NEW s \in Seq(X), s # <<>>
    PROVE  /\ Head(s) \in X /\ Tail(s) \in Seq(X) /\ Total(f, Tail(s)) \in Nat
           /\ Total(f, s) = f[Head(s)] + Total(f, Tail(s))
<1>. DEFINE S == {t \in Seq(X) : t # <<>> => Total(f, t) = f[Head(t)] + Total(f, Tail(t))}
<1>1. <<>> \in S
  BY EmptySeq
<1>2. ASSUME NEW t \in Seq(X), NEW x \in X, t \in S PROVE Append(t, x) \in S
  <2>1. t # <<>> => Total(f, t) = f[Head(t)] + Total(f, Tail(t))
    BY <1>2
  <2>. HIDE DEF S
  <2>2. Append(t, x) \in Seq(X)
    OBVIOUS
  <2>3. Total(f, t) \in Nat /\ Total(f, Append(t, x)) = Total(f, t) + f[x]
    BY TotalAppend
  <2>4. CASE t = <<>>
    <3>1. Head(Append(t, x)) = x /\ Tail(Append(t, x)) = <<>>
      BY <2>4
    <3>. DEFINE e == <<>>
    <3>2. Total(f, e) = 0 /\ Tail(Append(t, x)) = e /\ t = e
      BY <2>4, <3>1, TotalEmpty
    <3>. HIDE DEF e
    <3>3. f[x] \in Nat /\ 0 + f[x] = f[x] + 0
      OBVIOUS
    <3>. DEFINE more == Append(t, x)
    <3>. HIDE DEF more
    <3>4. Total(f, more) = f[Head(more)] + Total(f, Tail(more))
      BY <2>3, <3>1, <3>2, <3>3 DEF more
    <3>. QED BY <2>2, <3>4 DEF S, more
  <2>5. CASE t # <<>>
    <3>1. Head(t) \in X /\ Tail(t) \in Seq(X)
      BY <2>5, HeadTailProperties
    <3>2. Head(Append(t, x)) = Head(t) /\ Tail(Append(t, x)) = Append(Tail(t), x)
      BY <2>5
    <3>3. Total(f, Append(Tail(t), x)) = Total(f, Tail(t)) + f[x] /\ Total(f, Tail(t)) \in Nat
      BY <3>1, TotalAppend
    <3>. DEFINE more == Append(t, x)
                a == Total(f, Tail(t))
                b == f[Head(t)]
                c == f[x]
    <3>4. b \in Nat /\ c \in Nat /\ a \in Nat
      BY <3>1, <3>3
    <3>. HIDE DEF more
    <3>5. Total(f, more) = (b + a) + c /\ f[Head(more)] = b /\ Total(f, Tail(more)) = a + c
      BY <2>1, <2>3, <2>5, <3>2, <3>3 DEF more
    <3>. HIDE DEF a, b, c
    <3>6. Total(f, more) = f[Head(more)] + Total(f, Tail(more))
      BY <3>4, <3>5
    <3>. QED BY <2>2, <3>6 DEF S, more
  <2>. QED BY <2>4, <2>5
<1>. HIDE DEF S
<1>3. \A t \in Seq(X) : t \in S
  BY <1>1, <1>2, SeqInd
<1>4. Head(s) \in X /\ Tail(s) \in Seq(X)
  BY HeadTailProperties
<1>5. Total(f, Tail(s)) \in Nat
  BY <1>4, TotalType
<1>. QED BY <1>3, <1>4, <1>5 DEF S


-----------------------------------------------------------------------------
(* The steps of an element: groups nest finitely, so the numbers that        *)
(* StepsBound is computed from exist and are what the definition says.      *)

(* The elements of a document and their depths. *)
Finite(E, d) ==
    /\ ElementsOf(d) \subseteq E /\ Group("Regular", d) \in ElementsOf(d)
    /\ \E depth, most : Nests(ElementsOf(d), depth, most)

Below(G, depth, n) == {x \in G : depth[x] < n}

(* What a candidate of a trial renders is made of X. *)
Within(E, X) == {c \in Parts(E) : c.prio \in Seq(X) /\ c.post \in Seq(X)}

LEMMA SeqWithin ==
    ASSUME NEW E, NEW X, NEW d \in Seq(E), \A i \in DOMAIN d : d[i] \in X
    PROVE  d \in Seq(X)
<1>. DEFINE n == Len(d)
<1>1. n \in Nat /\ DOMAIN d = 1..n /\ d \in [1..n -> E]
  OBVIOUS
<1>. HIDE DEF n
<1>2. d \in [1..n -> X]
  BY <1>1
<1>. QED BY <1>1, <1>2

LEMMA PiecesBelow ==
    ASSUME NEW E, Setting(E), NEW G, G \subseteq E, NEW depth, NEW most, Nests(G, depth, most),
           NEW e \in G, IsGroup(e)
    PROVE  LET X == Below(G, depth, depth[e])
           IN  e.body \in Seq(X) /\ TrialsOf(e.body) \in Seq(Within(E, X))
<1>. DEFINE X == Below(G, depth, depth[e])
            s == TrialsOf(e.body)
            D == {e.body} \cup UNION {{c.prio, c.post} : c \in ToSet(s)}
<1>1. e.body \in Seq(E) /\ s \in Seq(Parts(E))
  BY ElementKinds DEF Setting, WalksTyped, Parts
<1>2. \A d \in D : \A i \in DOMAIN d : d[i] \in X
  BY DEF Nests, Below
<1>. HIDE DEF X, s
<1>3. \A d \in D : d \in Seq(E) => d \in Seq(X)
  BY <1>2, SeqWithin
<1>. HIDE DEF D
<1>4. e.body \in D
  BY DEF D
<1>5. ASSUME NEW i \in DOMAIN s PROVE s[i] \in Within(E, X)
  <2>1. s[i] \in Parts(E) /\ s[i] \in ToSet(s)
    BY <1>1 DEF ToSet
  <2>2. s[i].prio \in D /\ s[i].post \in D
    BY <2>1 DEF D
  <2>3. s[i].prio \in Seq(E) /\ s[i].post \in Seq(E)
    BY <2>1 DEF Parts
  <2>. QED BY <1>3, <2>1, <2>2, <2>3 DEF Within
<1>6. s \in Seq(Within(E, X))
  BY <1>1, <1>5, SeqWithin
<1>. QED BY <1>1, <1>3, <1>4, <1>6 DEF X, s

LEMMA TrialSame ==
    ASSUME NEW E, NEW X, NEW f, NEW g, \A x \in X : f[x] \in Nat /\ g[x] = f[x], NEW c \in Within(E, X)
    PROVE  StepsOfTrial(g, c) = StepsOfTrial(f, c) /\ StepsOfTrial(f, c) \in Nat
<1>1. c.prio \in Seq(X) /\ c.post \in Seq(X) /\ \A x \in X : f[x] \in Nat
  BY DEF Within
<1>2. Total(f, c.prio) \in Nat /\ Total(f, c.post) \in Nat
  BY <1>1, TotalType
<1>3. Total(g, c.prio) = Total(f, c.prio) /\ Total(g, c.post) = Total(f, c.post)
  BY <1>1, TotalSame
<1>. QED BY <1>2, <1>3 DEF StepsOfTrial, StepsOf

LEMMA TrialsSame ==
    ASSUME NEW E, NEW X, NEW f, NEW g, \A x \in X : f[x] \in Nat /\ g[x] = f[x],
           NEW s \in Seq(Within(E, X))
    PROVE  StepsOfTrials(g, s) = StepsOfTrials(f, s) /\ StepsOfTrials(f, s) \in Nat
<1>. DEFINE T == ToSet(s)
            F == [c \in T |-> StepsOfTrial(f, c)]
<1>1. \A c \in T : c \in Within(E, X)
  BY DEF ToSet
<1>2. \A c \in T : StepsOfTrial(g, c) = StepsOfTrial(f, c) /\ StepsOfTrial(f, c) \in Nat
  BY <1>1, TrialSame
<1>3. [c \in T |-> StepsOfTrial(g, c)] = F
  BY <1>2
<1>4. s \in Seq(T)
  <2>1. \A i \in DOMAIN s : s[i] \in T
    BY DEF ToSet
  <2>. HIDE DEF T
  <2>. QED BY <2>1, SeqWithin
<1>. HIDE DEF T
<1>5. \A c \in T : F[c] \in Nat
  BY <1>2
<1>. HIDE DEF F
<1>6. Total(F, s) \in Nat
  BY <1>4, <1>5, TotalType
<1>. QED BY <1>3, <1>6 DEF StepsOfTrials, F, T

LEMMA ElementSame ==
    ASSUME NEW E, Setting(E), NEW G, G \subseteq E, NEW depth, NEW most, Nests(G, depth, most), NEW e \in G,
           NEW f, NEW g, \A x \in Below(G, depth, depth[e]) : f[x] \in Nat /\ g[x] = f[x]
    PROVE  StepsOfElement(g, e) = StepsOfElement(f, e) /\ StepsOfElement(f, e) \in Nat
<1>1. CASE ~IsGroup(e)
  BY <1>1 DEF StepsOfElement
<1>2. CASE IsGroup(e)
  <2>. DEFINE X == Below(G, depth, depth[e])
              s == TrialsOf(e.body)
              d == e.body
  <2>1. d \in Seq(X) /\ s \in Seq(Within(E, X))
    BY <1>2, PiecesBelow
  <2>2. (\A x \in X : f[x] \in Nat) /\ (\A x \in X : f[x] \in Nat /\ g[x] = f[x])
    OBVIOUS
  <2>. HIDE DEF X, s, d
  <2>3. Total(f, d) \in Nat /\ Total(g, d) = Total(f, d)
    BY <2>1, <2>2, TotalType, TotalSame
  <2>4. StepsOfTrials(g, s) = StepsOfTrials(f, s) /\ StepsOfTrials(f, s) \in Nat
    BY <2>1, <2>2, TrialsSame
  <2>. DEFINE more(h) == IF HasTrials(e) THEN 1 + StepsOfTrials(h, s) ELSE 0
  <2>5. more(g) = more(f) /\ more(f) \in Nat
    BY <2>4
  <2>6. \A h : StepsOfElement(h, e) = 1 + (1 + Total(h, d)) + more(h)
    BY <1>2 DEF StepsOfElement, StepsOf, d, s
  <2>. HIDE DEF more
  <2>. QED BY <2>3, <2>5, <2>6
<1>. QED BY <1>1, <1>2

CostIs(g, G) == g = [e \in G |-> StepsOfElement(g, e)]

(* Computed again and again, the numbers of the elements settle from the     *)
(* least deep to the deepest.                                               *)
LEMMA CostExists ==
    ASSUME NEW E, Setting(E), NEW G, G \subseteq E, NEW depth, NEW most, Nests(G, depth, most)
    PROVE  \E f : CostIs(f, G)
<1>. DEFINE D == [G -> Nat]
            N == most + 2
            first == [e \in G |-> 1]
            round(f) == [e \in G |-> StepsOfElement(f, e)]
            step == [x \in D \X (1..N) |-> round(x[1])]
<1>0. most \in Nat /\ N \in Nat /\ \A e \in G : depth[e] \in 1..most
  BY DEF Nests
<1>1. \A f \in D : round(f) \in D
  <2>1. ASSUME NEW f \in D, NEW e \in G PROVE StepsOfElement(f, e) \in Nat
    <3>1. \A x \in Below(G, depth, depth[e]) : f[x] \in Nat /\ f[x] = f[x]
      BY DEF Below
    <3>. HIDE DEF D
    <3>. QED BY <3>1, ElementSame
  <2>. QED BY <2>1
<1>2. first \in D /\ step \in [D \X (1..N) -> D]
  <2>. HIDE DEF round, N
  <2>1. step \in [D \X (1..N) -> D]
    <3>. HIDE DEF D
    <3>. QED BY <1>1
  <2>. QED BY <2>1
<1>3. \A f \in D, p \in 1..N : step[<<f, p>>] = round(f)
  <2>. HIDE DEF round, N, D
  <2>. QED OBVIOUS
<1>. HIDE DEF step, first, round
<1>4. PICK h \in [1..N -> D] : IsRecursive(h, N, first, step)
  <2>. HIDE DEF N, D
  <2>1. HasRecursive(N, D, first, step)
    BY <1>0, <1>2, RecursionExists
  <2>. QED BY <2>1 DEF HasRecursive
<1>5. \A p \in 1..N : h[p] \in D
  <2>. HIDE DEF N, D
  <2>. QED BY <1>4
<1>6. ASSUME NEW p \in 1..N, p + 1 \in 1..N PROVE h[p + 1] = round(h[p])
  <2>1. h[p + 1] = step[<<h[p], p + 1>>]
    <3>1. p + 1 # 1 /\ (p + 1) - 1 = p
      BY <1>0
    <3>. QED BY <1>4, <1>6, <3>1 DEF IsRecursive
  <2>. QED BY <1>3, <1>5, <1>6, <2>1
<1>. DEFINE S == {n \in Nat : n <= most => \A e \in G : depth[e] <= n => h[n + 1][e] = h[n + 2][e]}
<1>7. S = Nat
  <2>1. 0 \in S
    <3>1. \A e \in G : ~(depth[e] <= 0)
      BY <1>0
    <3>. QED BY <3>1
  <2>2. ASSUME NEW n \in S PROVE n + 1 \in S
    <3>1. n \in Nat /\ (n <= most => \A e \in G : depth[e] <= n => h[n + 1][e] = h[n + 2][e])
      OBVIOUS
    <3>. HIDE DEF S
    <3>2. ASSUME n + 1 <= most, NEW e \in G, depth[e] <= n + 1 PROVE h[(n + 1) + 1][e] = h[(n + 1) + 2][e]
      <4>1. n + 1 \in 1..N /\ n + 2 \in 1..N /\ n + 3 \in 1..N /\ (n + 1) + 1 = n + 2 /\ (n + 2) + 1 = n + 3
            /\ (n + 1) + 2 = n + 3
        BY <1>0, <3>1, <3>2
      <4>2. h[n + 2] = round(h[n + 1]) /\ h[n + 3] = round(h[n + 2])
        BY <1>6, <4>1
      <4>3. h[n + 1] \in D /\ h[n + 2] \in D
        BY <1>5, <4>1
      <4>4. \A x \in Below(G, depth, depth[e]) : h[n + 1][x] \in Nat /\ h[n + 2][x] = h[n + 1][x]
        <5>1. ASSUME NEW x \in Below(G, depth, depth[e]) PROVE h[n + 1][x] \in Nat /\ h[n + 2][x] = h[n + 1][x]
          <6>1. x \in G /\ depth[x] < depth[e]
            BY DEF Below
          <6>2. depth[x] <= n
            BY <1>0, <3>1, <3>2, <6>1
          <6>3. n <= most
            BY <1>0, <3>1, <3>2
          <6>4. h[n + 1][x] = h[n + 2][x]
            BY <3>1, <6>1, <6>2, <6>3
          <6>. QED BY <4>3, <6>1, <6>4
        <5>. QED BY <5>1
      <4>. DEFINE a == h[n + 1]
                  b == h[n + 2]
      <4>5. StepsOfElement(b, e) = StepsOfElement(a, e)
        <5>1. \A x \in Below(G, depth, depth[e]) : a[x] \in Nat /\ b[x] = a[x]
          BY <4>4
        <5>. HIDE DEF a, b
        <5>. QED BY <5>1, ElementSame
      <4>6. h[n + 2][e] = StepsOfElement(a, e) /\ h[n + 3][e] = StepsOfElement(b, e)
        BY <4>2 DEF round
      <4>. QED BY <4>1, <4>5, <4>6
    <3>. QED BY <3>1, <3>2 DEF S
  <2>. HIDE DEF S
  <2>3. S \in SUBSET Nat
    BY DEF S
  <2>. QED BY <2>1, <2>2, <2>3, NatInd
<1>. DEFINE f == h[most + 1]
<1>8. most + 1 \in 1..N /\ most + 2 \in 1..N /\ (most + 1) + 1 = most + 2
  BY <1>0
<1>9. \A e \in G : h[most + 1][e] = h[most + 2][e]
  <2>1. most \in S
    BY <1>0, <1>7
  <2>2. most <= most => \A e \in G : depth[e] <= most => h[most + 1][e] = h[most + 2][e]
    BY <2>1
  <2>. HIDE DEF S
  <2>3. most <= most /\ \A e \in G : depth[e] <= most
    BY <1>0
  <2>. QED BY <2>2, <2>3
<1>10. h[most + 2] = round(f)
  BY <1>6, <1>8
<1>11. f \in D /\ h[most + 2] \in D
  BY <1>5, <1>8
<1>12. f = round(f)
  <2>. DEFINE q == h[most + 2]
  <2>1. f \in [G -> Nat] /\ q \in [G -> Nat] /\ \A e \in G : f[e] = q[e]
    BY <1>9, <1>11
  <2>. HIDE DEF f, q
  <2>2. f = q
    BY <2>1
  <2>. QED BY <1>10, <2>2 DEF q
<1>. HIDE DEF f
<1>. QED BY <1>12 DEF CostIs, round

LEMMA CostTyped ==
    ASSUME NEW E, Setting(E), NEW G, G \subseteq E, NEW depth, NEW most, Nests(G, depth, most),
           NEW g, CostIs(g, G)
    PROVE  \A e \in G : g[e] \in Nat /\ g[e] = StepsOfElement(g, e)
<1>0. most \in Nat /\ \A e \in G : depth[e] \in 1..most
  BY DEF Nests
<1>1. \A e \in G : g[e] = StepsOfElement(g, e)
  <2>1. g = [e \in G |-> StepsOfElement(g, e)]
    BY DEF CostIs
  <2>. QED BY <2>1
<1>. DEFINE S == {n \in Nat : \A e \in G : depth[e] <= n => g[e] \in Nat}
<1>2. S = Nat
  <2>1. 0 \in S
    <3>1. \A e \in G : ~(depth[e] <= 0)
      BY <1>0
    <3>. QED BY <3>1
  <2>2. ASSUME NEW n \in S PROVE n + 1 \in S
    <3>1. n \in Nat /\ \A e \in G : depth[e] <= n => g[e] \in Nat
      OBVIOUS
    <3>. HIDE DEF S
    <3>2. ASSUME NEW e \in G, depth[e] <= n + 1 PROVE g[e] \in Nat
      <4>1. ASSUME NEW x \in Below(G, depth, depth[e]) PROVE g[x] \in Nat /\ g[x] = g[x]
        <5>1. x \in G /\ depth[x] < depth[e]
          BY DEF Below
        <5>2. depth[x] <= n
          BY <1>0, <3>1, <3>2, <5>1
        <5>. QED BY <3>1, <5>1, <5>2
      <4>2. StepsOfElement(g, e) \in Nat
        BY <4>1, ElementSame
      <4>. QED BY <1>1, <4>2
    <3>. QED BY <3>1, <3>2 DEF S
  <2>. HIDE DEF S
  <2>3. S \in SUBSET Nat
    BY DEF S
  <2>. QED BY <2>1, <2>2, <2>3, NatInd
<1>3. \A e \in G : g[e] \in Nat
  <2>1. ASSUME NEW e \in G PROVE g[e] \in Nat
    <3>1. depth[e] \in S /\ depth[e] <= depth[e]
      BY <1>0, <1>2
    <3>. QED BY <3>1
  <2>. QED BY <2>1
<1>. QED BY <1>1, <1>3

(* The numbers of the document. *)
Costs == CHOOSE g : CostIs(g, ElementsOf(doc))

LEMMA CostsAre ==
    ASSUME NEW E, Setting(E), Finite(E, doc)
    PROVE  /\ StepsBound = 2 + Costs[Group("Regular", doc)]
           /\ \A e \in ElementsOf(doc) : Costs[e] \in Nat /\ Costs[e] = StepsOfElement(Costs, e)
<1>. DEFINE G == ElementsOf(doc)
<1>1. PICK depth, most : Nests(G, depth, most)
  BY DEF Finite
<1>2. G \subseteq E
  BY DEF Finite
<1>3. StepsBound = 2 + Costs[Group("Regular", doc)]
  BY DEF StepsBound, Costs, CostIs
<1>. HIDE DEF G
<1>4. \E f : CostIs(f, G)
  BY <1>1, <1>2, CostExists
<1>5. CostIs(Costs, G)
  BY <1>4 DEF Costs, G
<1>6. \A e \in G : Costs[e] \in Nat /\ Costs[e] = StepsOfElement(Costs, e)
  BY <1>1, <1>2, <1>5, CostTyped
<1>. QED BY <1>3, <1>6 DEF G


-----------------------------------------------------------------------------
(* The steps the frames may still take.                                     *)

FrameSteps(cost, f) ==
    CASE f.k = "doc" -> StepsOf(cost, f.todo)
      [] f.k = "trial" /\ f.post ->
           2 + StepsOf(cost, Head(f.cands).post) + StepsOf(cost, f.body) + StepsOfTrials(cost, Tail(f.cands))
      [] f.k = "trial" /\ ~f.post -> 1 + StepsOf(cost, f.body) + StepsOfTrials(cost, f.cands)

(* What a frame has to do is made of the elements that are counted. *)
CountedFrames(E, G) ==
    {f \in Frames(E) :
        /\ f.k = "doc" => f.todo \in Seq(G)
        /\ f.k = "trial" => /\ f.body \in Seq(G) /\ f.cands \in Seq(Within(E, G))
                            /\ f.post => f.cands # <<>>}

Numbers(cost, G) == \A e \in G : cost[e] \in Nat /\ cost[e] = StepsOfElement(cost, e)

LEMMA FirstTrial ==
    ASSUME NEW E, NEW G, NEW cost, Numbers(cost, G), NEW s \in Seq(Within(E, G))
    PROVE  /\ StepsOfTrials(cost, s) \in Nat
           /\ s # <<>> => /\ Head(s) \in Within(E, G) /\ Tail(s) \in Seq(Within(E, G))
                          /\ StepsOf(cost, Head(s).prio) \in Nat /\ StepsOf(cost, Head(s).post) \in Nat
                          /\ StepsOfTrials(cost, Tail(s)) \in Nat
                          /\ StepsOfTrials(cost, s) = 2 + StepsOf(cost, Head(s).prio) + StepsOf(cost, Head(s).post)
                                                      + StepsOfTrials(cost, Tail(s))
<1>. DEFINE W == Within(E, G)
            F == [c \in W |-> StepsOfTrial(cost, c)]
<1>0. \A x \in G : cost[x] \in Nat /\ cost[x] = cost[x]
  BY DEF Numbers
<1>1. \A c \in W : F[c] = StepsOfTrial(cost, c) /\ F[c] \in Nat
  <2>1. \A c \in W : StepsOfTrial(cost, c) \in Nat
    BY <1>0, TrialSame
  <2>. QED BY <2>1
<1>. HIDE DEF F
<1>2. ASSUME NEW t \in Seq(W) PROVE StepsOfTrials(cost, t) = Total(F, t)
  <2>. DEFINE T == ToSet(t)
              g == [c \in T |-> StepsOfTrial(cost, c)]
  <2>1. \A c \in T : c \in W
    BY DEF ToSet
  <2>2. t \in Seq(T)
    <3>1. \A i \in DOMAIN t : t[i] \in T
      BY DEF ToSet
    <3>. HIDE DEF T, W
    <3>. QED BY <3>1, SeqWithin
  <2>. HIDE DEF W
  <2>3. \A c \in T : F[c] \in Nat /\ g[c] = F[c]
    BY <1>1, <2>1
  <2>. HIDE DEF T, g
  <2>4. Total(g, t) = Total(F, t)
    BY <2>2, <2>3, TotalSame
  <2>. QED BY <2>4 DEF StepsOfTrials, g, T
<1>. HIDE DEF W
<1>3. StepsOfTrials(cost, s) \in Nat
  BY <1>1, <1>2, TotalType DEF W
<1>4. ASSUME s # <<>>
      PROVE  /\ Head(s) \in W /\ Tail(s) \in Seq(W) /\ StepsOfTrials(cost, Tail(s)) \in Nat
             /\ StepsOfTrials(cost, s) = StepsOfTrial(cost, Head(s)) + StepsOfTrials(cost, Tail(s))
  <2>0. s \in Seq(W) /\ \A c \in W : F[c] \in Nat
    BY <1>1 DEF W
  <2>1. /\ Head(s) \in W /\ Tail(s) \in Seq(W) /\ Total(F, Tail(s)) \in Nat
        /\ Total(F, s) = F[Head(s)] + Total(F, Tail(s))
    BY <1>4, <2>0, TotalHead
  <2>. QED BY <1>1, <1>2, <2>0, <2>1
<1>5. ASSUME s # <<>>
      PROVE  /\ StepsOf(cost, Head(s).prio) \in Nat /\ StepsOf(cost, Head(s).post) \in Nat
             /\ StepsOfTrial(cost, Head(s)) = 2 + StepsOf(cost, Head(s).prio) + StepsOf(cost, Head(s).post)
  <2>1. Head(s).prio \in Seq(G) /\ Head(s).post \in Seq(G) /\ \A x \in G : cost[x] \in Nat
    BY <1>0, <1>4, <1>5 DEF W, Within
  <2>2. Total(cost, Head(s).prio) \in Nat /\ Total(cost, Head(s).post) \in Nat
    BY <2>1, TotalType
  <2>. QED BY <2>2 DEF StepsOfTrial, StepsOf
<1>. QED BY <1>3, <1>4, <1>5 DEF W

LEMMA DocSteps ==
    ASSUME NEW G, NEW cost, Numbers(cost, G), NEW d \in Seq(G)
    PROVE  /\ StepsOf(cost, d) \in Nat /\ StepsOf(cost, d) >= 1
           /\ d # <<>> => /\ Head(d) \in G /\ Tail(d) \in Seq(G) /\ cost[Head(d)] \in Nat
                          /\ StepsOf(cost, Tail(d)) \in Nat
                          /\ StepsOf(cost, d) = cost[Head(d)] + StepsOf(cost, Tail(d))
<1>0. \A x \in G : cost[x] \in Nat
  BY DEF Numbers
<1>1. Total(cost, d) \in Nat
  BY <1>0, TotalType
<1>2. ASSUME d # <<>>
      PROVE  /\ Head(d) \in G /\ Tail(d) \in Seq(G) /\ cost[Head(d)] \in Nat
             /\ StepsOf(cost, Tail(d)) \in Nat
             /\ StepsOf(cost, d) = cost[Head(d)] + StepsOf(cost, Tail(d))
  <2>1. /\ Head(d) \in G /\ Tail(d) \in Seq(G) /\ Total(cost, Tail(d)) \in Nat
        /\ Total(cost, d) = cost[Head(d)] + Total(cost, Tail(d))
    BY <1>0, <1>2, TotalHead
  <2>2. cost[Head(d)] \in Nat
    BY <1>0, <2>1
  <2>. DEFINE a == Total(cost, Tail(d))
              b == cost[Head(d)]
  <2>3. StepsOf(cost, d) = 1 + (b + a) /\ StepsOf(cost, Tail(d)) = 1 + a /\ a \in Nat /\ b \in Nat
    BY <2>1, <2>2 DEF StepsOf
  <2>. HIDE DEF a, b
  <2>4. StepsOf(cost, Tail(d)) \in Nat /\ StepsOf(cost, d) = b + StepsOf(cost, Tail(d))
    BY <2>3
  <2>. QED BY <2>1, <2>2, <2>4 DEF b
<1>. QED BY <1>1, <1>2 DEF StepsOf

LEMMA FrameStepsType ==
    ASSUME NEW E, NEW G, NEW cost, Numbers(cost, G), NEW f \in CountedFrames(E, G)
    PROVE  FrameSteps(cost, f) \in Nat /\ FrameSteps(cost, f) >= 1
<1>1. CASE f.k = "doc"
  <2>1. f.todo \in Seq(G)
    BY <1>1 DEF CountedFrames
  <2>. QED BY <1>1, <2>1, DocSteps DEF FrameSteps
<1>2. CASE f.k = "trial"
  <2>1. f.body \in Seq(G) /\ f.cands \in Seq(Within(E, G)) /\ (f.post => f.cands # <<>>)
    BY <1>2 DEF CountedFrames
  <2>. DEFINE b == StepsOf(cost, f.body)
  <2>2. b \in Nat
    BY <2>1, DocSteps
  <2>. HIDE DEF b
  <2>3. CASE f.post
    <3>. DEFINE p == StepsOf(cost, Head(f.cands).post)
                t == StepsOfTrials(cost, Tail(f.cands))
    <3>1. p \in Nat /\ t \in Nat
      BY <2>1, <2>3, FirstTrial
    <3>2. FrameSteps(cost, f) = 2 + p + b + t
      BY <1>2, <2>3 DEF FrameSteps, b
    <3>. HIDE DEF p, t
    <3>. QED BY <2>2, <3>1, <3>2
  <2>4. CASE ~f.post
    <3>. DEFINE t == StepsOfTrials(cost, f.cands)
    <3>1. t \in Nat
      BY <2>1, FirstTrial
    <3>2. FrameSteps(cost, f) = 1 + b + t
      BY <1>2, <2>4 DEF FrameSteps, b
    <3>. HIDE DEF t
    <3>. QED BY <2>2, <3>1, <3>2
  <2>. QED BY <2>3, <2>4
<1>3. f.k \in {"doc", "trial"}
  BY DEF CountedFrames, Frames, DocFrames, TrialFrames
<1>. QED BY <1>1, <1>2, <1>3

(* A stack owes what its frames do. *)
StackSteps(E, G, cost, fs) == Total([f \in CountedFrames(E, G) |-> FrameSteps(cost, f)], fs)

LEMMA StackStepsAppend ==
    ASSUME NEW E, NEW G, NEW cost, Numbers(cost, G), NEW fs \in Seq(CountedFrames(E, G)), NEW f \in CountedFrames(E, G)
    PROVE  /\ StackSteps(E, G, cost, fs) \in Nat /\ FrameSteps(cost, f) \in Nat
           /\ Append(fs, f) \in Seq(CountedFrames(E, G))
           /\ StackSteps(E, G, cost, Append(fs, f)) = StackSteps(E, G, cost, fs) + FrameSteps(cost, f)
<1>. DEFINE F == [g \in CountedFrames(E, G) |-> FrameSteps(cost, g)]
            X == CountedFrames(E, G)
<1>1. \A g \in X : F[g] = FrameSteps(cost, g) /\ F[g] \in Nat
  <2>1. \A g \in X : FrameSteps(cost, g) \in Nat
    BY FrameStepsType
  <2>. QED BY <2>1
<1>2. f \in X /\ fs \in Seq(X) /\ \A g \in X : F[g] \in Nat
  BY <1>1
<1>. HIDE DEF F, X
<1>3. Total(F, fs) \in Nat /\ Total(F, Append(fs, f)) = Total(F, fs) + F[f] /\ Append(fs, f) \in Seq(X)
  BY <1>2, TotalAppend
<1>4. StackSteps(E, G, cost, fs) = Total(F, fs) /\ StackSteps(E, G, cost, Append(fs, f)) = Total(F, Append(fs, f))
  BY DEF StackSteps, F
<1>5. F[f] = FrameSteps(cost, f)
  BY <1>1, <1>2
<1>. QED BY <1>2, <1>3, <1>4, <1>5 DEF X

-----------------------------------------------------------------------------
(* No step is taken that was not counted.                                   *)

CountInv(E) ==
    LET G == ElementsOf(doc) IN
    /\ Finite(E, doc)
    /\ stack \in Seq(CountedFrames(E, G)) /\ steps \in Nat
    /\ StepsBound \in Nat
    /\ steps + StackSteps(E, G, Costs, stack) + (IF Done THEN 0 ELSE 1) <= StepsBound

(* The top of the stack makes way for frames that owe less. *)
Spent == steps' = steps + 1 /\ UNCHANGED <<doc, result>>

LEMMA SplitCounted ==
    ASSUME NEW E, CountInv(E), stack # <<>>
    PROVE  LET G == ElementsOf(doc) IN
           /\ Front(stack) \in Seq(CountedFrames(E, G)) /\ Top \in CountedFrames(E, G)
           /\ stack = Append(Front(stack), Top)
  BY FrontLast DEF CountInv, Top

LEMMA SpentSame ==
    ASSUME Spent
    PROVE  /\ Costs' = Costs /\ ElementsOf(doc)' = ElementsOf(doc) /\ StepsBound' = StepsBound
           /\ \A E : Finite(E, doc) => Finite(E, doc)'
<1>1. doc' = doc
  BY DEF Spent
<1>2. ElementsOf(doc)' = ElementsOf(doc)
  BY <1>1
<1>3. Costs' = Costs
  BY <1>1 DEF Costs, CostIs, StepsOfElement, HasTrials
<1>4. StepsBound' = StepsBound
  BY <1>1 DEF StepsBound, StepsOfElement, HasTrials
<1>5. \A E : Finite(E, doc) => Finite(E, doc)'
  BY <1>1, <1>2 DEF Finite
<1>. QED BY <1>2, <1>3, <1>4, <1>5

(* What the numbers of the document say, of the frames in front of the top. *)
LEMMA CountSetting ==
    ASSUME NEW E, Setting(E), CountInv(E), stack # <<>>
    PROVE  LET G == ElementsOf(doc)
               rest == StackSteps(E, G, Costs, Front(stack))
           IN  /\ Numbers(Costs, G) /\ rest \in Nat
               /\ FrameSteps(Costs, Top) \in Nat /\ FrameSteps(Costs, Top) >= 1
               /\ steps + (rest + FrameSteps(Costs, Top)) + (IF Done THEN 0 ELSE 1) <= StepsBound
<1>. DEFINE G == ElementsOf(doc)
<1>1. Numbers(Costs, G)
  BY CostsAre DEF CountInv, Numbers
<1>2. Front(stack) \in Seq(CountedFrames(E, G)) /\ Top \in CountedFrames(E, G) /\ stack = Append(Front(stack), Top)
  BY SplitCounted
<1>3. steps + StackSteps(E, G, Costs, stack) + (IF Done THEN 0 ELSE 1) <= StepsBound
  BY DEF CountInv
<1>. HIDE DEF G
<1>4. /\ StackSteps(E, G, Costs, Front(stack)) \in Nat
      /\ StackSteps(E, G, Costs, Append(Front(stack), Top)) = StackSteps(E, G, Costs, Front(stack)) + FrameSteps(Costs, Top)
  BY <1>1, <1>2, StackStepsAppend
<1>5. FrameSteps(Costs, Top) \in Nat /\ FrameSteps(Costs, Top) >= 1
  BY <1>1, <1>2, FrameStepsType
<1>6. StackSteps(E, G, Costs, stack) = StackSteps(E, G, Costs, Front(stack)) + FrameSteps(Costs, Top)
  BY <1>2, <1>4
<1>. QED BY <1>1, <1>3, <1>4, <1>5, <1>6 DEF G

(* The top of the stack gives way to nothing, one or two frames. *)
LEMMA Pay ==
    ASSUME NEW E, Setting(E), CountInv(E), stack # <<>>, Spent,
           stack' \in Seq(CountedFrames(E, ElementsOf(doc))),
           NEW rest, rest = StackSteps(E, ElementsOf(doc), Costs, Front(stack)),
           NEW more \in Nat, more + 1 <= FrameSteps(Costs, Top),
           StackSteps(E, ElementsOf(doc), Costs, stack') = rest + more
    PROVE  CountInv(E)'
<1>. DEFINE G == ElementsOf(doc)
            top == FrameSteps(Costs, Top)
            last == IF Done THEN 0 ELSE 1
<1>1. rest \in Nat /\ top \in Nat /\ steps + (rest + top) + last <= StepsBound /\ last \in Nat
  BY CountSetting
<1>2. steps \in Nat /\ StepsBound \in Nat /\ steps' = steps + 1
  BY DEF CountInv, Spent
<1>3. (steps + 1) + (rest + more) + last <= StepsBound
  <2>. HIDE DEF top, last
  <2>1. more + 1 <= top
    BY DEF top
  <2>. QED BY <1>1, <1>2, <2>1
<1>4. Costs' = Costs /\ G' = G /\ StepsBound' = StepsBound /\ Finite(E, doc)'
  BY SpentSame DEF CountInv
<1>5. Done' = Done
  BY DEF Spent, Done
<1>6. StackSteps(E, G, Costs, stack)' = rest + more
  BY <1>4
<1>7. steps' + StackSteps(E, G, Costs, stack)' + (IF Done THEN 0 ELSE 1)' <= StepsBound'
  BY <1>2, <1>3, <1>4, <1>5, <1>6
<1>8. stack' \in Seq(CountedFrames(E, G))'
  BY <1>4
<1>. QED BY <1>2, <1>4, <1>7, <1>8 DEF CountInv

LEMMA PayNothing ==
    ASSUME NEW E, Setting(E), CountInv(E), stack # <<>>, Spent, stack' = Front(stack)
    PROVE  CountInv(E)'
<1>. DEFINE G == ElementsOf(doc)
            rest == StackSteps(E, G, Costs, Front(stack))
<1>1. FrameSteps(Costs, Top) >= 1 /\ FrameSteps(Costs, Top) \in Nat /\ rest \in Nat
  BY CountSetting
<1>2. Front(stack) \in Seq(CountedFrames(E, G))
  BY SplitCounted
<1>3. 0 \in Nat /\ 0 + 1 <= FrameSteps(Costs, Top) /\ StackSteps(E, G, Costs, stack') = rest + 0
  <2>1. rest + 0 = rest
    BY <1>1
  <2>. QED BY <1>1, <2>1
<1>. HIDE DEF rest
<1>. QED BY <1>2, <1>3, Pay DEF rest

LEMMA PayOne ==
    ASSUME NEW E, Setting(E), CountInv(E), stack # <<>>, Spent,
           NEW f \in CountedFrames(E, ElementsOf(doc)), FrameSteps(Costs, f) + 1 <= FrameSteps(Costs, Top),
           stack' = Append(Front(stack), f)
    PROVE  CountInv(E)'
<1>. DEFINE G == ElementsOf(doc)
            rest == StackSteps(E, G, Costs, Front(stack))
            more == FrameSteps(Costs, f)
<1>1. Front(stack) \in Seq(CountedFrames(E, G)) /\ Numbers(Costs, G)
  BY SplitCounted, CountSetting
<1>2. /\ more \in Nat /\ Append(Front(stack), f) \in Seq(CountedFrames(E, G))
      /\ StackSteps(E, G, Costs, Append(Front(stack), f)) = rest + more
  <2>. HIDE DEF G
  <2>1. f \in CountedFrames(E, G)
    BY DEF G
  <2>. QED BY <1>1, <2>1, StackStepsAppend
<1>3. more + 1 <= FrameSteps(Costs, Top)
  OBVIOUS
<1>. HIDE DEF rest, more
<1>. QED BY <1>2, <1>3, Pay DEF rest

LEMMA PayTwo ==
    ASSUME NEW E, Setting(E), CountInv(E), stack # <<>>, Spent,
           NEW f \in CountedFrames(E, ElementsOf(doc)), NEW g \in CountedFrames(E, ElementsOf(doc)),
           FrameSteps(Costs, f) + FrameSteps(Costs, g) + 1 <= FrameSteps(Costs, Top),
           stack' = Append(Append(Front(stack), f), g)
    PROVE  CountInv(E)'
<1>. DEFINE G == ElementsOf(doc)
            rest == StackSteps(E, G, Costs, Front(stack))
            a == FrameSteps(Costs, f)
            b == FrameSteps(Costs, g)
            fs == Append(Front(stack), f)
<1>1. Front(stack) \in Seq(CountedFrames(E, G)) /\ Numbers(Costs, G) /\ rest \in Nat
  BY SplitCounted, CountSetting
<1>0. f \in CountedFrames(E, G) /\ g \in CountedFrames(E, G)
  OBVIOUS
<1>. HIDE DEF G
<1>2. /\ a \in Nat /\ fs \in Seq(CountedFrames(E, G))
      /\ StackSteps(E, G, Costs, fs) = rest + a
  BY <1>0, <1>1, StackStepsAppend
<1>. HIDE DEF fs
<1>3. /\ b \in Nat /\ Append(fs, g) \in Seq(CountedFrames(E, G))
      /\ StackSteps(E, G, Costs, Append(fs, g)) = StackSteps(E, G, Costs, fs) + b
  BY <1>0, <1>1, <1>2, StackStepsAppend
<1>4. stack' = Append(fs, g) /\ a + b + 1 <= FrameSteps(Costs, Top)
  BY DEF fs
<1>. HIDE DEF rest, a, b
<1>. DEFINE more == a + b
<1>5. more \in Nat /\ more + 1 <= FrameSteps(Costs, Top) /\ StackSteps(E, G, Costs, stack') = rest + more
  BY <1>1, <1>2, <1>3, <1>4
<1>6. stack' \in Seq(CountedFrames(E, G))
  BY <1>3, <1>4
<1>. HIDE DEF more
<1>. QED BY <1>5, <1>6, Pay DEF rest, G

(* A frame of the stack is one of those counted if what it renders is. *)
LEMMA DocCounted ==
    ASSUME NEW E, NEW G, NEW cost, NEW d \in Seq(E), d \in Seq(G), NEW la \in Seq(E)
    PROVE  DocFrame(d, la) \in CountedFrames(E, G) /\ FrameSteps(cost, DocFrame(d, la)) = StepsOf(cost, d)
<1>. DEFINE f == DocFrame(d, la)
<1>1. f = [k |-> "doc", todo |-> d, la |-> la]
  BY DEF DocFrame
<1>. HIDE DEF f
<1>2. f \in DocFrames(E) /\ f.k = "doc" /\ f.todo = d
  BY <1>1 DEF DocFrames
<1>3. f \in CountedFrames(E, G)
  BY <1>2 DEF CountedFrames, Frames
<1>. QED BY <1>2, <1>3 DEF FrameSteps, f

LEMMA TrialCounted ==
    ASSUME NEW E, NEW G, NEW cost, NEW f \in TrialFrames(E), f.body \in Seq(G), f.cands \in Seq(Within(E, G)),
           f.post => f.cands # <<>>
    PROVE  /\ f \in CountedFrames(E, G)
           /\ f.post => FrameSteps(cost, f) = 2 + StepsOf(cost, Head(f.cands).post) + StepsOf(cost, f.body)
                                              + StepsOfTrials(cost, Tail(f.cands))
           /\ ~f.post => FrameSteps(cost, f) = 1 + StepsOf(cost, f.body) + StepsOfTrials(cost, f.cands)
<1>1. f.k = "trial"
  BY DEF TrialFrames
<1>2. f \in CountedFrames(E, G)
  BY <1>1 DEF CountedFrames, Frames
<1>3. f.post => FrameSteps(cost, f) = 2 + StepsOf(cost, Head(f.cands).post) + StepsOf(cost, f.body)
                                              + StepsOfTrials(cost, Tail(f.cands))
  BY <1>1 DEF FrameSteps
<1>4. ~f.post => FrameSteps(cost, f) = 1 + StepsOf(cost, f.body) + StepsOfTrials(cost, f.cands)
  BY <1>1 DEF FrameSteps
<1>. QED BY <1>2, <1>3, <1>4

(* What is in a group is counted, and the group counts for more. *)
LEMMA GroupCost ==
    ASSUME NEW E, Setting(E), CountInv(E), NEW e \in ElementsOf(doc)
    PROVE  LET G == ElementsOf(doc) IN
           /\ Costs[e] \in Nat /\ Costs[e] >= 1
           /\ IsGroup(e) =>
                /\ e.body \in Seq(G) /\ TrialsOf(e.body) \in Seq(Within(E, G))
                /\ StepsOf(Costs, e.body) \in Nat /\ StepsOfTrials(Costs, TrialsOf(e.body)) \in Nat
                /\ Costs[e] >= 1 + StepsOf(Costs, e.body)
                /\ HasTrials(e) => Costs[e] = 1 + StepsOf(Costs, e.body)
                                              + (1 + StepsOfTrials(Costs, TrialsOf(e.body)))
<1>. DEFINE G == ElementsOf(doc)
<1>1. Numbers(Costs, G)
  BY CostsAre DEF CountInv, Numbers
<1>2. PICK depth, most : Nests(G, depth, most)
  BY DEF CountInv, Finite
<1>3. G \subseteq E
  BY DEF CountInv, Finite
<1>. HIDE DEF G
<1>4. e \in G /\ Costs[e] \in Nat /\ Costs[e] = StepsOfElement(Costs, e)
  BY <1>1 DEF Numbers, G
<1>5. CASE ~IsGroup(e)
  BY <1>4, <1>5 DEF StepsOfElement
<1>6. CASE IsGroup(e)
  <2>. DEFINE X == Below(G, depth, depth[e])
              s == TrialsOf(e.body)
              d == e.body
  <2>1. d \in Seq(X) /\ s \in Seq(Within(E, X))
    BY <1>2, <1>3, <1>4, <1>6, PiecesBelow
  <2>2. X \subseteq G
    BY DEF Below
  <2>. HIDE DEF X, s, d
  <2>3. Within(E, X) \subseteq Within(E, G)
    <3>1. Seq(X) \subseteq Seq(G)
      BY <2>2, SeqMonotonic
    <3>. QED BY <3>1 DEF Within
  <2>4. d \in Seq(G) /\ s \in Seq(Within(E, G))
    BY <2>1, <2>2, <2>3, SeqMonotonic
  <2>5. StepsOf(Costs, d) \in Nat /\ StepsOfTrials(Costs, s) \in Nat
    BY <1>1, <2>4, DocSteps, FirstTrial
  <2>6. Costs[e] = 1 + StepsOf(Costs, d) + (IF HasTrials(e) THEN 1 + StepsOfTrials(Costs, s) ELSE 0)
    BY <1>4, <1>6 DEF StepsOfElement, s, d
  <2>7. Costs[e] >= 1 + StepsOf(Costs, d)
        /\ (HasTrials(e) => Costs[e] = 1 + StepsOf(Costs, d) + (1 + StepsOfTrials(Costs, s)))
    BY <2>5, <2>6
  <2>8. Costs[e] >= 1
    BY <1>4, <2>5, <2>7
  <2>. QED BY <1>4, <2>4, <2>5, <2>7, <2>8 DEF s, d, G
<1>. QED BY <1>5, <1>6

(* The next element is counted, and so is the frame without it. *)
LEMMA NextCounted ==
    ASSUME NEW E, Setting(E), LInv(E), CountInv(E), OnElem
    PROVE  LET f == [Top EXCEPT !.todo = Tail(@)] IN
           /\ stack # <<>> /\ Elem \in ElementsOf(doc) /\ Ahead \in Seq(E)
           /\ f \in CountedFrames(E, ElementsOf(doc)) /\ FrameSteps(Costs, f) \in Nat
           /\ FrameSteps(Costs, Top) = Costs[Elem] + FrameSteps(Costs, f)
           /\ Consumed = Append(Front(stack), f)
<1>. DEFINE G == ElementsOf(doc)
            f == [Top EXCEPT !.todo = Tail(@)]
<1>1. stack # <<>> /\ Top.k = "doc" /\ Top.todo # <<>>
  BY DEF OnElem
<1>2. Top \in DocFrames(E) /\ Ahead \in Seq(E) /\ f \in DocFrames(E)
  BY ElemType
<1>3. f.k = "doc" /\ f.todo = Tail(Top.todo)
  BY <1>2 DEF DocFrames
<1>4. Top.todo \in Seq(G) /\ Numbers(Costs, G)
  BY <1>1, SplitCounted, CountSetting DEF CountedFrames
<1>5. Consumed = Append(Front(stack), f)
  BY DEF Consumed
<1>. HIDE DEF f, G
<1>6. /\ Elem \in G /\ Tail(Top.todo) \in Seq(G)
      /\ StepsOf(Costs, Tail(Top.todo)) \in Nat
      /\ StepsOf(Costs, Top.todo) = Costs[Elem] + StepsOf(Costs, Tail(Top.todo))
  BY <1>1, <1>4, DocSteps DEF Elem
<1>7. f \in CountedFrames(E, G)
  BY <1>2, <1>3, <1>6 DEF CountedFrames, Frames
<1>8. FrameSteps(Costs, Top) = StepsOf(Costs, Top.todo) /\ FrameSteps(Costs, f) = StepsOf(Costs, f.todo)
  BY <1>1, <1>3 DEF FrameSteps
<1>. QED BY <1>1, <1>2, <1>3, <1>5, <1>6, <1>7, <1>8 DEF f, G

(* An element is done with. *)
LEMMA ElementPays ==
    ASSUME NEW E, Setting(E), LInv(E), CountInv(E), OnElem, Spent, stack' = Consumed
    PROVE  CountInv(E)'
<1>. DEFINE f == [Top EXCEPT !.todo = Tail(@)]
<1>1. /\ stack # <<>> /\ Elem \in ElementsOf(doc)
      /\ f \in CountedFrames(E, ElementsOf(doc)) /\ FrameSteps(Costs, f) \in Nat
      /\ FrameSteps(Costs, Top) = Costs[Elem] + FrameSteps(Costs, f)
      /\ Consumed = Append(Front(stack), f)
  BY NextCounted
<1>2. Costs[Elem] \in Nat /\ Costs[Elem] >= 1
  BY <1>1, GroupCost
<1>. HIDE DEF f
<1>3. FrameSteps(Costs, f) + 1 <= FrameSteps(Costs, Top)
  BY <1>1, <1>2
<1>. QED BY <1>1, <1>3, PayOne

(* A group is entered: a frame for what is in it lies on what is behind it. *)
LEMMA GroupPays ==
    ASSUME NEW E, Setting(E), LInv(E), CountInv(E), OnElem, Spent,
           NEW g \in CountedFrames(E, ElementsOf(doc)),
           FrameSteps(Costs, g) \in Nat, FrameSteps(Costs, g) + 1 <= Costs[Elem],
           stack' = Append(Consumed, g)
    PROVE  CountInv(E)'
<1>. DEFINE f == [Top EXCEPT !.todo = Tail(@)]
<1>1. /\ stack # <<>> /\ Elem \in ElementsOf(doc)
      /\ f \in CountedFrames(E, ElementsOf(doc)) /\ FrameSteps(Costs, f) \in Nat
      /\ FrameSteps(Costs, Top) = Costs[Elem] + FrameSteps(Costs, f)
      /\ Consumed = Append(Front(stack), f)
  BY NextCounted
<1>2. Costs[Elem] \in Nat
  BY <1>1, GroupCost
<1>. HIDE DEF f
<1>3. FrameSteps(Costs, f) + FrameSteps(Costs, g) + 1 <= FrameSteps(Costs, Top)
  <2>. DEFINE a == FrameSteps(Costs, f)
              b == FrameSteps(Costs, g)
              c == Costs[Elem]
              t == FrameSteps(Costs, Top)
  <2>1. a \in Nat /\ b \in Nat /\ c \in Nat /\ t = c + a /\ b + 1 <= c
    BY <1>1, <1>2
  <2>. HIDE DEF a, b, c, t
  <2>2. a + b + 1 <= t
    BY <2>1
  <2>. QED BY <2>2 DEF a, b, t
<1>4. stack' = Append(Append(Front(stack), f), g)
  BY <1>1
<1>. QED BY <1>1, <1>3, <1>4, PayTwo

LEMMA GroupEntered ==
    ASSUME NEW E, Setting(E), LInv(E), CountInv(E), Spent, OnElem, IsGroup(Elem),
           stack' = Append(Consumed, DocFrame(Elem.body, Ahead))
    PROVE  CountInv(E)'
<1>. DEFINE G == ElementsOf(doc)
            d == Elem.body
<1>1. Elem \in G /\ Elem \in E /\ Ahead \in Seq(E)
  BY NextCounted, ElemType
<1>2. d \in Seq(E)
  BY <1>1, ElementKinds DEF Setting
<1>3. d \in Seq(G) /\ StepsOf(Costs, d) \in Nat /\ Costs[Elem] \in Nat /\ Costs[Elem] >= 1 + StepsOf(Costs, d)
  BY <1>1, GroupCost
<1>. HIDE DEF G, d
<1>. DEFINE g == DocFrame(d, Ahead)
<1>4. g \in CountedFrames(E, G) /\ FrameSteps(Costs, g) = StepsOf(Costs, d)
  BY <1>1, <1>2, <1>3, DocCounted
<1>5. stack' = Append(Consumed, g)
  BY DEF d
<1>. HIDE DEF g
<1>6. FrameSteps(Costs, g) \in Nat /\ FrameSteps(Costs, g) + 1 <= Costs[Elem]
  BY <1>3, <1>4
<1>. QED BY <1>4, <1>5, <1>6, GroupPays DEF G

LEMMA TrialsStarted ==
    ASSUME NEW E, Setting(E), LInv(E), CountInv(E), Spent, StartTrials
    PROVE  CountInv(E)'
<1>. DEFINE G == ElementsOf(doc)
            d == Elem.body
            s == TrialsOf(Elem.body)
            g == TrialFrame(d, Ahead, s)
<1>1. OnElem /\ IsGroup(Elem) /\ HasTrials(Elem) /\ stack' = Append(Consumed, g)
  BY DEF StartTrials
<1>2. Elem \in G /\ Elem \in E
  BY <1>1, NextCounted, ElemType
<1>3. /\ d \in Seq(G) /\ s \in Seq(Within(E, G))
      /\ StepsOf(Costs, d) \in Nat /\ StepsOfTrials(Costs, s) \in Nat /\ Costs[Elem] \in Nat
      /\ Costs[Elem] = 1 + StepsOf(Costs, d) + (1 + StepsOfTrials(Costs, s))
  BY <1>1, <1>2, GroupCost
<1>4. g.body = d /\ g.cands = s /\ g.post = FALSE /\ g.k = "trial"
  BY DEF TrialFrame
<1>5. g \in TrialFrames(E)
  <2>1. LInv(E)'
    BY StartTrialsStep
  <2>2. stack' \in Seq(Frames(E))
    BY <2>1 DEF LInv, StackOf
  <2>3. Consumed \in Seq(Frames(E))
    BY <1>1, ConsumedOK
  <2>. HIDE DEF g
  <2>4. g \in Frames(E)
    <3>. DEFINE n == Len(Consumed) + 1
    <3>1. n \in 1..Len(stack') /\ stack'[n] = g
      BY <1>1, <2>3
    <3>. HIDE DEF n
    <3>. QED BY <2>2, <3>1
  <2>. QED BY <1>4, <2>4 DEF Frames, DocFrames
<1>. HIDE DEF G, d, s, g
<1>6. g \in CountedFrames(E, G) /\ FrameSteps(Costs, g) = 1 + StepsOf(Costs, d) + StepsOfTrials(Costs, s)
  BY <1>3, <1>4, <1>5, TrialCounted
<1>7. FrameSteps(Costs, g) \in Nat /\ FrameSteps(Costs, g) + 1 <= Costs[Elem]
  <2>. DEFINE a == StepsOf(Costs, d)
              b == StepsOfTrials(Costs, s)
              c == Costs[Elem]
              t == FrameSteps(Costs, g)
  <2>1. a \in Nat /\ b \in Nat /\ t = 1 + a + b /\ c = 1 + a + (1 + b)
    BY <1>3, <1>6
  <2>. HIDE DEF a, b, c, t
  <2>2. t \in Nat /\ t + 1 <= c
    BY <2>1
  <2>. QED BY <2>2 DEF t, c
<1>. QED BY <1>1, <1>6, <1>7, GroupPays DEF G

(* What the trial on top of the stack may still do. *)
LEMMA TrialSteps ==
    ASSUME NEW E, Setting(E), LInv(E), CountInv(E), OnTrial
    PROVE  LET G == ElementsOf(doc) IN
           /\ stack # <<>> /\ Top \in TrialFrames(E) /\ Top.la \in Seq(E)
           /\ Top.body \in Seq(E) /\ Top.body \in Seq(G) /\ Top.cands \in Seq(Within(E, G))
           /\ Numbers(Costs, G) /\ StepsOf(Costs, Top.body) \in Nat
           /\ Top.post => Top.cands # <<>>
           /\ Top.post => FrameSteps(Costs, Top) = 2 + StepsOf(Costs, Head(Top.cands).post) + StepsOf(Costs, Top.body)
                                                     + StepsOfTrials(Costs, Tail(Top.cands))
           /\ ~Top.post => FrameSteps(Costs, Top) = 1 + StepsOf(Costs, Top.body) + StepsOfTrials(Costs, Top.cands)
<1>. DEFINE G == ElementsOf(doc)
<1>1. stack # <<>> /\ Top.k = "trial"
  BY DEF OnTrial
<1>2. Top \in TrialFrames(E) /\ Numbers(Costs, G) /\ Top \in CountedFrames(E, G)
  BY <1>1, TopKind, SplitCounted, CountSetting
<1>. HIDE DEF G
<1>3. Top.body \in Seq(G) /\ Top.cands \in Seq(Within(E, G)) /\ (Top.post => Top.cands # <<>>)
  BY <1>1, <1>2 DEF CountedFrames
<1>4. Top.la \in Seq(E) /\ Top.body \in Seq(E)
  BY <1>2 DEF TrialFrames
<1>5. StepsOf(Costs, Top.body) \in Nat
  BY <1>2, <1>3, DocSteps
<1>6. /\ Top.post => FrameSteps(Costs, Top) = 2 + StepsOf(Costs, Head(Top.cands).post) + StepsOf(Costs, Top.body)
                                                     + StepsOfTrials(Costs, Tail(Top.cands))
      /\ ~Top.post => FrameSteps(Costs, Top) = 1 + StepsOf(Costs, Top.body) + StepsOfTrials(Costs, Top.cands)
  BY <1>2, <1>3, TrialCounted
<1>. QED BY <1>1, <1>2, <1>3, <1>4, <1>5, <1>6 DEF G

LEMMA TrialBegun ==
    ASSUME NEW E, Setting(E), LInv(E), CountInv(E), Spent, TrialBegins
    PROVE  CountInv(E)'
<1>. DEFINE G == ElementsOf(doc)
            c == Head(Top.cands)
            f == [Top EXCEPT !.post = TRUE]
            la == Unexpand(c.post) \o Top.la
            g == DocFrame(c.prio, la)
<1>1. OnTrial /\ ~Top.post /\ Top.cands # <<>> /\ stack' = Append(Append(Front(stack), f), g)
  BY DEF TrialBegins
<1>2. /\ stack # <<>> /\ Top \in TrialFrames(E) /\ Top.la \in Seq(E)
      /\ Top.body \in Seq(G) /\ Top.cands \in Seq(Within(E, G))
      /\ Numbers(Costs, G) /\ StepsOf(Costs, Top.body) \in Nat
      /\ FrameSteps(Costs, Top) = 1 + StepsOf(Costs, Top.body) + StepsOfTrials(Costs, Top.cands)
  BY <1>1, TrialSteps
<1>. HIDE DEF G
<1>3. /\ c \in Within(E, G) /\ StepsOf(Costs, c.prio) \in Nat /\ StepsOf(Costs, c.post) \in Nat
      /\ StepsOfTrials(Costs, Tail(Top.cands)) \in Nat
      /\ StepsOfTrials(Costs, Top.cands) = 2 + StepsOf(Costs, c.prio) + StepsOf(Costs, c.post)
                                             + StepsOfTrials(Costs, Tail(Top.cands))
  <2>. DEFINE s == Top.cands
  <2>1. s \in Seq(Within(E, G)) /\ s # <<>>
    BY <1>1, <1>2
  <2>. HIDE DEF s
  <2>2. /\ Head(s) \in Within(E, G)
        /\ StepsOf(Costs, Head(s).prio) \in Nat /\ StepsOf(Costs, Head(s).post) \in Nat
        /\ StepsOfTrials(Costs, Tail(s)) \in Nat
        /\ StepsOfTrials(Costs, s) = 2 + StepsOf(Costs, Head(s).prio) + StepsOf(Costs, Head(s).post)
                                        + StepsOfTrials(Costs, Tail(s))
    BY <1>2, <2>1, FirstTrial
  <2>. QED BY <2>2 DEF s
<1>4. c.prio \in Seq(G) /\ c.prio \in Seq(E) /\ c.post \in Seq(E)
  BY <1>3 DEF Within, Parts
<1>5. la \in Seq(E)
  <2>1. Unexpand(c.post) \in Seq(E)
    BY <1>4, UnexpandType DEF Setting
  <2>. QED BY <1>2, <2>1, ConcatProperties
<1>6. f \in TrialFrames(E) /\ f.body = Top.body /\ f.cands = Top.cands /\ f.post = TRUE
  BY <1>2 DEF TrialFrames
<1>. HIDE DEF c, la, f
<1>7. g \in CountedFrames(E, G) /\ FrameSteps(Costs, g) = StepsOf(Costs, c.prio)
  <2>. DEFINE d == c.prio
  <2>1. d \in Seq(E) /\ d \in Seq(G) /\ la \in Seq(E)
    BY <1>4, <1>5
  <2>. HIDE DEF d
  <2>2. DocFrame(d, la) \in CountedFrames(E, G) /\ FrameSteps(Costs, DocFrame(d, la)) = StepsOf(Costs, d)
    BY <2>1, DocCounted
  <2>. QED BY <2>2 DEF d
<1>8. /\ f \in CountedFrames(E, G)
      /\ FrameSteps(Costs, f) = 2 + StepsOf(Costs, c.post) + StepsOf(Costs, Top.body)
                                  + StepsOfTrials(Costs, Tail(Top.cands))
  <2>1. f.body \in Seq(G) /\ f.cands \in Seq(Within(E, G)) /\ f.cands # <<>> /\ f.post
    BY <1>1, <1>2, <1>6
  <2>2. /\ f \in CountedFrames(E, G)
        /\ FrameSteps(Costs, f) = 2 + StepsOf(Costs, Head(f.cands).post) + StepsOf(Costs, f.body)
                                    + StepsOfTrials(Costs, Tail(f.cands))
    BY <1>6, <2>1, TrialCounted
  <2>. QED BY <1>6, <2>2 DEF c
<1>. HIDE DEF g
<1>9. FrameSteps(Costs, f) + FrameSteps(Costs, g) + 1 <= FrameSteps(Costs, Top)
  <2>. DEFINE x == StepsOf(Costs, c.prio)
              y == StepsOf(Costs, c.post)
              z == StepsOf(Costs, Top.body)
              r == StepsOfTrials(Costs, Tail(Top.cands))
              a == FrameSteps(Costs, f)
              b == FrameSteps(Costs, g)
              t == FrameSteps(Costs, Top)
  <2>1. /\ x \in Nat /\ y \in Nat /\ z \in Nat /\ r \in Nat
        /\ a = 2 + y + z + r /\ b = x /\ t = 1 + z + (2 + x + y + r)
    BY <1>2, <1>3, <1>7, <1>8
  <2>. HIDE DEF x, y, z, r, a, b, t
  <2>2. a + b + 1 <= t
    BY <2>1
  <2>. QED BY <2>2 DEF a, b, t
<1>. QED BY <1>1, <1>2, <1>7, <1>8, <1>9, PayTwo DEF G

LEMMA TrialLost ==
    ASSUME NEW E, Setting(E), LInv(E), CountInv(E), Spent, TrialRejected \/ TrialFails
    PROVE  CountInv(E)'
<1>. DEFINE G == ElementsOf(doc)
            f == [Top EXCEPT !.cands = Tail(@), !.post = FALSE]
<1>1. OnTrial /\ (Top.post \/ Top.cands # <<>>) /\ stack' = Append(Front(stack), f)
  BY DEF TrialRejected, TrialFails, NextCandidate
<1>2. /\ stack # <<>> /\ Top \in TrialFrames(E)
      /\ Top.body \in Seq(G) /\ Top.cands \in Seq(Within(E, G)) /\ Top.cands # <<>>
      /\ Numbers(Costs, G) /\ StepsOf(Costs, Top.body) \in Nat
      /\ Top.post => FrameSteps(Costs, Top) = 2 + StepsOf(Costs, Head(Top.cands).post) + StepsOf(Costs, Top.body)
                                                     + StepsOfTrials(Costs, Tail(Top.cands))
      /\ ~Top.post => FrameSteps(Costs, Top) = 1 + StepsOf(Costs, Top.body) + StepsOfTrials(Costs, Top.cands)
  BY <1>1, TrialSteps
<1>. HIDE DEF G
<1>3. /\ StepsOf(Costs, Head(Top.cands).prio) \in Nat /\ StepsOf(Costs, Head(Top.cands).post) \in Nat
      /\ StepsOfTrials(Costs, Tail(Top.cands)) \in Nat /\ Tail(Top.cands) \in Seq(Within(E, G))
      /\ StepsOfTrials(Costs, Top.cands) = 2 + StepsOf(Costs, Head(Top.cands).prio)
                                             + StepsOf(Costs, Head(Top.cands).post)
                                             + StepsOfTrials(Costs, Tail(Top.cands))
  <2>. DEFINE s == Top.cands
  <2>1. s \in Seq(Within(E, G)) /\ s # <<>>
    BY <1>2
  <2>. HIDE DEF s
  <2>2. /\ StepsOf(Costs, Head(s).prio) \in Nat /\ StepsOf(Costs, Head(s).post) \in Nat
        /\ StepsOfTrials(Costs, Tail(s)) \in Nat /\ Tail(s) \in Seq(Within(E, G))
        /\ StepsOfTrials(Costs, s) = 2 + StepsOf(Costs, Head(s).prio) + StepsOf(Costs, Head(s).post)
                                        + StepsOfTrials(Costs, Tail(s))
    BY <1>2, <2>1, FirstTrial
  <2>. QED BY <2>2 DEF s
<1>4. f \in TrialFrames(E) /\ f.body = Top.body /\ f.cands = Tail(Top.cands) /\ f.post = FALSE
  <2>1. Tail(Top.cands) \in Seq(Parts(E))
    BY <1>2, HeadTailProperties DEF TrialFrames
  <2>. QED BY <1>2, <2>1 DEF TrialFrames
<1>. HIDE DEF f
<1>5. /\ f \in CountedFrames(E, G)
      /\ FrameSteps(Costs, f) = 1 + StepsOf(Costs, Top.body) + StepsOfTrials(Costs, Tail(Top.cands))
  <2>1. f.body \in Seq(G) /\ f.cands \in Seq(Within(E, G)) /\ ~f.post
    BY <1>2, <1>3, <1>4
  <2>2. /\ f \in CountedFrames(E, G)
        /\ FrameSteps(Costs, f) = 1 + StepsOf(Costs, f.body) + StepsOfTrials(Costs, f.cands)
    BY <1>4, <2>1, TrialCounted
  <2>. QED BY <1>4, <2>2
<1>6. FrameSteps(Costs, f) + 1 <= FrameSteps(Costs, Top)
  <2>. DEFINE x == StepsOf(Costs, Head(Top.cands).prio)
              y == StepsOf(Costs, Head(Top.cands).post)
              z == StepsOf(Costs, Top.body)
              r == StepsOfTrials(Costs, Tail(Top.cands))
              a == FrameSteps(Costs, f)
              t == FrameSteps(Costs, Top)
  <2>1. /\ x \in Nat /\ y \in Nat /\ z \in Nat /\ r \in Nat
        /\ a = 1 + z + r /\ (t = 2 + y + z + r \/ t = 1 + z + (2 + x + y + r))
    BY <1>2, <1>3, <1>5
  <2>. HIDE DEF x, y, z, r, a, t
  <2>2. a + 1 <= t
    BY <2>1
  <2>. QED BY <2>2 DEF a, t
<1>. QED BY <1>1, <1>2, <1>5, <1>6, PayOne DEF G

LEMMA TrialWon ==
    ASSUME NEW E, Setting(E), LInv(E), CountInv(E), Spent, TrialSucceeds
    PROVE  CountInv(E)'
<1>. DEFINE G == ElementsOf(doc)
            c == Head(Top.cands)
<1>1. /\ OnTrial /\ Top.post
      /\ stack' = Append(Front(stack), DocFrame(c.post, Top.la)) \/ stack' = Front(stack)
  BY DEF TrialSucceeds
<1>2. /\ stack # <<>> /\ Top.la \in Seq(E)
      /\ Top.body \in Seq(G) /\ Top.cands \in Seq(Within(E, G)) /\ Top.cands # <<>>
      /\ Numbers(Costs, G) /\ StepsOf(Costs, Top.body) \in Nat
      /\ FrameSteps(Costs, Top) = 2 + StepsOf(Costs, Head(Top.cands).post) + StepsOf(Costs, Top.body)
                                                     + StepsOfTrials(Costs, Tail(Top.cands))
  BY <1>1, TrialSteps
<1>. HIDE DEF G
<1>3. /\ c \in Within(E, G) /\ StepsOf(Costs, c.post) \in Nat /\ StepsOfTrials(Costs, Tail(Top.cands)) \in Nat
  BY <1>2, FirstTrial
<1>4. c.post \in Seq(G) /\ c.post \in Seq(E)
  BY <1>3 DEF Within, Parts
<1>5. CASE stack' = Front(stack)
  BY <1>2, <1>5, PayNothing
<1>6. CASE stack' = Append(Front(stack), DocFrame(c.post, Top.la))
  <2>. DEFINE f == DocFrame(c.post, Top.la)
              y == StepsOf(Costs, c.post)
              z == StepsOf(Costs, Top.body)
              r == StepsOfTrials(Costs, Tail(Top.cands))
              t == FrameSteps(Costs, Top)
  <2>1. t = 2 + y + z + r /\ y \in Nat /\ z \in Nat /\ r \in Nat
    BY <1>2, <1>3
  <2>. HIDE DEF c
  <2>2. f \in CountedFrames(E, G) /\ FrameSteps(Costs, f) = y
    <3>. DEFINE d == c.post
                la == Top.la
    <3>1. d \in Seq(E) /\ d \in Seq(G) /\ la \in Seq(E)
      BY <1>2, <1>4
    <3>. HIDE DEF d, la
    <3>2. DocFrame(d, la) \in CountedFrames(E, G) /\ FrameSteps(Costs, DocFrame(d, la)) = StepsOf(Costs, d)
      BY <3>1, DocCounted
    <3>. QED BY <3>2 DEF d, la
  <2>3. stack' = Append(Front(stack), f)
    BY <1>6
  <2>. HIDE DEF f, y, z, r, t
  <2>4. FrameSteps(Costs, f) + 1 <= t
    BY <2>1, <2>2
  <2>. QED BY <1>2, <2>2, <2>3, <2>4, PayOne DEF t, G
<1>. QED BY <1>1, <1>5, <1>6

LEMMA TrialsGivenUp ==
    ASSUME NEW E, Setting(E), LInv(E), CountInv(E), Spent, GiveUpTrials
    PROVE  CountInv(E)'
<1>. DEFINE G == ElementsOf(doc)
            f == DocFrame(Top.body, Top.la)
            z == StepsOf(Costs, Top.body)
            r == StepsOfTrials(Costs, Top.cands)
            t == FrameSteps(Costs, Top)
<1>1. OnTrial /\ ~Top.post /\ stack' = Append(Front(stack), f)
  BY DEF GiveUpTrials
<1>2. /\ stack # <<>> /\ Top.la \in Seq(E) /\ Top.body \in Seq(E)
      /\ Top.body \in Seq(G) /\ Top.cands \in Seq(Within(E, G))
      /\ Numbers(Costs, G) /\ z \in Nat /\ t = 1 + z + r
  BY <1>1, TrialSteps
<1>. HIDE DEF G
<1>3. r \in Nat
  <2>. DEFINE s == Top.cands
  <2>1. s \in Seq(Within(E, G))
    BY <1>2
  <2>. HIDE DEF s
  <2>2. StepsOfTrials(Costs, s) \in Nat
    BY <1>2, <2>1, FirstTrial
  <2>. QED BY <2>2 DEF s
<1>4. f \in CountedFrames(E, G) /\ FrameSteps(Costs, f) = z
  <2>. DEFINE d == Top.body
              la == Top.la
  <2>1. d \in Seq(E) /\ d \in Seq(G) /\ la \in Seq(E)
    BY <1>2
  <2>. HIDE DEF d, la
  <2>2. DocFrame(d, la) \in CountedFrames(E, G) /\ FrameSteps(Costs, DocFrame(d, la)) = StepsOf(Costs, d)
    BY <2>1, DocCounted
  <2>. QED BY <2>2 DEF d, la
<1>. HIDE DEF f, z, r, t
<1>5. FrameSteps(Costs, f) + 1 <= t
  BY <1>2, <1>3, <1>4
<1>. QED BY <1>1, <1>2, <1>4, <1>5, PayOne DEF t, G

LEMMA InitCounts ==
    ASSUME NEW E, Setting(E), Finite(E, doc), Init
    PROVE  CountInv(E)
<1>. DEFINE G == ElementsOf(doc)
            root == Group("Regular", doc)
            d == <<root>>
            e == <<>>
            f == DocFrame(d, e)
<1>1. /\ StepsBound = 2 + Costs[root]
      /\ Numbers(Costs, G)
  BY CostsAre DEF Numbers
<1>2. root \in G /\ root \in E
  BY DEF Finite
<1>3. stack = <<f>> /\ steps = 0 /\ ~Done
  BY DEF Init, Done
<1>. HIDE DEF G, root
<1>4. d \in Seq(E) /\ d \in Seq(G) /\ Costs[root] \in Nat
  BY <1>1, <1>2 DEF Numbers
<1>5. StepsOf(Costs, d) = 1 + Costs[root]
  BY <1>4, TotalOne DEF StepsOf
<1>6. e \in Seq(E) /\ e \in Seq(CountedFrames(E, G)) /\ StackSteps(E, G, Costs, e) = 0
  BY EmptySeq, TotalEmpty DEF StackSteps
<1>. HIDE DEF d, e
<1>7. f \in CountedFrames(E, G) /\ FrameSteps(Costs, f) = 1 + Costs[root]
  BY <1>4, <1>5, <1>6, DocCounted
<1>. HIDE DEF f
<1>8. stack = Append(e, f)
  BY <1>3 DEF e
<1>9. /\ Append(e, f) \in Seq(CountedFrames(E, G))
      /\ StackSteps(E, G, Costs, Append(e, f)) = StackSteps(E, G, Costs, e) + FrameSteps(Costs, f)
  BY <1>1, <1>6, <1>7, StackStepsAppend
<1>10. StackSteps(E, G, Costs, stack) = 0 + (1 + Costs[root])
  BY <1>6, <1>7, <1>8, <1>9
<1>. DEFINE n == Costs[root]
<1>11. steps + StackSteps(E, G, Costs, stack) + (IF Done THEN 0 ELSE 1) <= StepsBound /\ StepsBound \in Nat
  <2>1. n \in Nat /\ StackSteps(E, G, Costs, stack) = 0 + (1 + n) /\ StepsBound = 2 + n
    BY <1>1, <1>4, <1>10
  <2>. HIDE DEF n
  <2>. QED BY <1>3, <2>1
<1>12. stack \in Seq(CountedFrames(E, G)) /\ steps \in Nat
  BY <1>3, <1>8, <1>9
<1>. QED BY <1>11, <1>12 DEF CountInv, G

LEMMA FinishCounts ==
    ASSUME NEW E, Setting(E), CountInv(E), Finish
    PROVE  CountInv(E)'
<1>. DEFINE G == ElementsOf(doc)
            m == StackSteps(E, G, Costs, stack)
<1>1. ~Done /\ Done' /\ steps' = steps + 1 /\ doc' = doc /\ stack' = stack /\ stack = <<>>
  <2>1. result' = <<Append(Trimmed(out), Feed)>>
    BY DEF Finish
  <2>. DEFINE r == Append(Trimmed(out), Feed)
  <2>2. result' = <<r>>
    BY <2>1
  <2>. HIDE DEF r
  <2>3. result' # <<>>
    BY <2>2
  <2>. QED BY <2>3 DEF Finish, Tick, Done
<1>2. /\ Finite(E, doc) /\ stack \in Seq(CountedFrames(E, G)) /\ steps \in Nat /\ StepsBound \in Nat
      /\ steps + m + (IF Done THEN 0 ELSE 1) <= StepsBound
  BY DEF CountInv
<1>3. G' = G /\ Costs' = Costs /\ StepsBound' = StepsBound /\ Finite(E, doc)'
  <2>1. G' = G
    BY <1>1
  <2>2. Costs' = Costs
    BY <1>1 DEF Costs, CostIs, StepsOfElement, HasTrials
  <2>3. StepsBound' = StepsBound
    BY <1>1 DEF StepsBound, StepsOfElement, HasTrials
  <2>4. Finite(E, doc)'
    BY <1>1, <1>2 DEF Finite
  <2>. QED BY <2>1, <2>2, <2>3, <2>4
<1>4. m' = m
  BY <1>1, <1>3
<1>5. m = 0
  <2>1. m = StackSteps(E, G, Costs, <<>>)
    BY <1>1
  <2>. QED BY <2>1, TotalEmpty DEF StackSteps
<1>6. steps' + m' + (IF Done THEN 0 ELSE 1)' <= StepsBound'
  <2>1. m' = 0 /\ (IF Done THEN 0 ELSE 1)' = 0
    BY <1>1, <1>4, <1>5
  <2>2. steps + m + 1 <= StepsBound
    BY <1>1, <1>2
  <2>. HIDE DEF m
  <2>. QED BY <1>1, <1>2, <1>3, <1>5, <2>1, <2>2
<1>7. stack' \in Seq(CountedFrames(E, G))' /\ steps' \in Nat
  BY <1>1, <1>2, <1>3
<1>. QED BY <1>2, <1>3, <1>6, <1>7 DEF CountInv

LEMMA CountsKept ==
    ASSUME NEW E, Setting(E), LInv(E), CountInv(E), Next \/ UNCHANGED vars
    PROVE  CountInv(E)'
<1>1. CASE RenderText
  BY <1>1, ElementPays DEF RenderText, Spent, Tick
<1>2. CASE RenderSpacing
  <2>1. OnElem /\ stack' = Consumed /\ Spent
    BY <1>2 DEF RenderSpacing, Spent, Tick
  <2>. QED BY <2>1, ElementPays
<1>3. CASE SkipSuppressed
  BY <1>3, ElementPays DEF SkipSuppressed, Spent, Tick
<1>4. CASE RenderDirective
  <2>1. OnElem /\ stack' = Consumed /\ Spent
    BY <1>4 DEF RenderDirective, Spent, Tick
  <2>. QED BY <2>1, ElementPays
<1>5. CASE EnterSuppressed \/ RenderExpanded
  <2>1. /\ OnElem /\ IsGroup(Elem) /\ Spent
        /\ stack' = Append(Consumed, DocFrame(Elem.body, Ahead))
    BY <1>5 DEF EnterSuppressed, RenderExpanded, Spent, Tick
  <2>. QED BY <2>1, GroupEntered
<1>6. CASE RenderCompact
  <2>1. OnElem /\ stack' = Consumed /\ Spent
    BY <1>6 DEF RenderCompact, Spent, Tick
  <2>. QED BY <2>1, ElementPays
<1>7. CASE StartTrials
  <2>1. Spent
    BY <1>7 DEF StartTrials, Spent, Tick
  <2>. QED BY <1>7, <2>1, TrialsStarted
<1>8. CASE TrialBegins
  <2>1. Spent
    BY <1>8 DEF TrialBegins, Spent, Tick
  <2>. QED BY <1>8, <2>1, TrialBegun
<1>9. CASE TrialRejected \/ TrialFails
  <2>1. Spent
    BY <1>9 DEF TrialRejected, TrialFails, Spent, Tick
  <2>. QED BY <1>9, <2>1, TrialLost
<1>10. CASE TrialSucceeds
  <2>1. Spent
    BY <1>10 DEF TrialSucceeds, Spent, Tick
  <2>. QED BY <1>10, <2>1, TrialWon
<1>11. CASE GiveUpTrials
  <2>1. Spent
    BY <1>11 DEF GiveUpTrials, Spent, Tick
  <2>. QED BY <1>11, <2>1, TrialsGivenUp
<1>12. CASE Return
  <2>1. stack # <<>> /\ stack' = Front(stack) /\ Spent
    BY <1>12 DEF Return, Spent, Tick
  <2>. QED BY <2>1, PayNothing
<1>13. CASE Finish
  BY <1>13, FinishCounts
<1>14. CASE Terminated \/ UNCHANGED vars
  <2>1. UNCHANGED <<doc, stack, result, steps>>
    BY <1>14 DEF Terminated, vars
  <2>2. ElementsOf(doc)' = ElementsOf(doc) /\ Costs' = Costs /\ StepsBound' = StepsBound /\ Done' = Done
        /\ (Finite(E, doc) => Finite(E, doc)')
    <3>1. ElementsOf(doc)' = ElementsOf(doc)
      BY <2>1
    <3>2. Costs' = Costs
      BY <2>1 DEF Costs, CostIs, StepsOfElement, HasTrials
    <3>3. StepsBound' = StepsBound
      BY <2>1 DEF StepsBound, StepsOfElement, HasTrials
    <3>4. Finite(E, doc) => Finite(E, doc)'
      BY <2>1 DEF Finite
    <3>5. Done' = Done
      BY <2>1 DEF Done
    <3>. QED BY <3>1, <3>2, <3>3, <3>4, <3>5
  <2>. QED BY <2>1, <2>2 DEF CountInv
<1>. QED
  BY <1>1, <1>2, <1>3, <1>4, <1>5, <1>6, <1>7, <1>8, <1>9, <1>10, <1>11, <1>12, <1>13, <1>14 DEF Next

LEMMA CountsBound == ASSUME NEW E, Setting(E), CountInv(E) PROVE TrialsEnd
<1>. DEFINE G == ElementsOf(doc)
            m == StackSteps(E, G, Costs, stack)
            last == IF Done THEN 0 ELSE 1
<1>1. /\ stack \in Seq(CountedFrames(E, G)) /\ steps \in Nat /\ StepsBound \in Nat
      /\ steps + m + last <= StepsBound
  BY DEF CountInv
<1>2. \A f \in CountedFrames(E, G) : FrameSteps(Costs, f) \in Nat
  <2>1. Numbers(Costs, G)
    BY CostsAre DEF CountInv, Numbers
  <2>. HIDE DEF G
  <2>. QED BY <2>1, FrameStepsType
<1>3. m \in Nat
  <2>. DEFINE X == CountedFrames(E, G)
              F == [f \in X |-> FrameSteps(Costs, f)]
  <2>1. stack \in Seq(X) /\ \A f \in X : F[f] \in Nat
    BY <1>1, <1>2
  <2>2. m = Total(F, stack)
    BY DEF StackSteps
  <2>. HIDE DEF X, F, m
  <2>. QED BY <2>1, <2>2, TotalType
<1>4. last \in Nat
  OBVIOUS
<1>. HIDE DEF m, last
<1>. QED BY <1>1, <1>3, <1>4 DEF TrialsEnd

(* A document of groups that nest finitely. *)
Bounded(E, d) == Setting(E) /\ Finite(E, d)

(* Layout ends, for every document whose groups nest finitely, all widths    *)
(* and every list of directive actions: however deep trials nest in trials,  *)
(* roll back and render a group again, the engine takes no more steps than   *)
(* StepsBound, a number of the document alone.                               *)
THEOREM LayoutEnds ==
    ASSUME \A d \in Docs : \E E : Bounded(E, FixedUp(d))
    PROVE  Spec => []TrialsEnd
<1>. DEFINE I == \E E : Setting(E) /\ LInv(E) /\ ActionsOK /\ CountInv(E)
<1>1. Init => I
  <2>. SUFFICES ASSUME Init PROVE I
    OBVIOUS
  <2>1. PICK d \in Docs : doc = FixedUp(d)
    BY DEF Init
  <2>2. PICK E : Bounded(E, doc)
    BY <2>1
  <2>3. Setting(E) /\ Finite(E, doc) /\ Group("Regular", doc) \in E
    BY <2>2 DEF Bounded, Finite
  <2>. QED BY <2>3, LInvInit, InitCounts
<1>2. I /\ [Next]_vars => I'
  <2>. SUFFICES ASSUME I, Next \/ UNCHANGED vars PROVE I'
    OBVIOUS
  <2>1. PICK E : Setting(E) /\ LInv(E) /\ ActionsOK /\ CountInv(E)
    OBVIOUS
  <2>2. LInv(E)' /\ ActionsOK' /\ CountInv(E)'
    BY <2>1, LInvStep, ActionsKept, CountsKept
  <2>3. Setting(E)'
    BY <2>1 DEF Setting
  <2>. QED BY <2>2, <2>3
<1>3. I => TrialsEnd
  BY CountsBound
<1>. HIDE DEF I
<1>. QED BY <1>1, <1>2, <1>3, PTL DEF Spec

-----------------------------------------------------------------------------
(* Disabled regions.                                                        *)

(* The checkpoints of the trials under way, as the states they stand for.   *)
Saved == SavedIn(out, Checkpoints(stack))

(* No trial is started inside a region, so that none goes back into one.    *)
SavedOutside ==
    \A i \in 1..Len(Saved) : Saved[i].suppress = FALSE /\ OpenRegions(Saved[i].didx) = {}

(* One marker more opens a region, closes all, or leaves them as they are.  *)
LEMMA OpenNext ==
    ASSUME NEW n \in Nat
    PROVE  LET act == IF n + 1 \in DOMAIN actions THEN actions[n + 1] ELSE "Inert"
           IN  OpenRegions(n + 1) = CASE act = "Begin" -> OpenRegions(n) \cup {n + 1}
                                      [] act = "End" -> {}
                                      [] OTHER -> OpenRegions(n)
<1>. DEFINE act == IF n + 1 \in DOMAIN actions THEN actions[n + 1] ELSE "Inert"
            Live(k) == k \in DOMAIN actions /\ actions[k] = "Begin"
            Shuts(j) == j \in DOMAIN actions /\ actions[j] = "End"
<1>1. \A m \in Nat : OpenRegions(m) = {k \in 1..m : Live(k) /\ \A j \in (k + 1)..m : ~Shuts(j)}
  BY DEF OpenRegions
<1>2. (act = "Begin" <=> Live(n + 1)) /\ (act = "End" <=> Shuts(n + 1)) /\ ~(Live(n + 1) /\ Shuts(n + 1))
  OBVIOUS
<1>. HIDE DEF act, Live, Shuts
<1>3. \A k \in 1..n : (n + 1) \in (k + 1)..(n + 1) /\ \A j \in (k + 1)..(n + 1) : j = n + 1 \/ j \in (k + 1)..n
  OBVIOUS
<1>4. \A k \in 1..n : \A j \in (k + 1)..n : j \in (k + 1)..(n + 1)
  OBVIOUS
<1>5. 1..(n + 1) = (1..n) \cup {n + 1} /\ ((n + 1) + 1)..(n + 1) = {} /\ n + 1 \in Nat
  OBVIOUS
<1>6. \A k \in 1..n : (\A j \in (k + 1)..(n + 1) : ~Shuts(j)) <=> (\A j \in (k + 1)..n : ~Shuts(j)) /\ ~Shuts(n + 1)
  BY <1>3, <1>4
<1>7. ASSUME NEW k
      PROVE  k \in OpenRegions(n + 1) <=> (k \in OpenRegions(n) /\ ~Shuts(n + 1)) \/ (k = n + 1 /\ Live(k))
  <2>1. CASE k \in 1..n
    BY <1>1, <1>5, <1>6, <2>1
  <2>2. CASE k = n + 1
    BY <1>1, <1>5, <2>2
  <2>3. CASE k \notin 1..n /\ k # n + 1
    BY <1>1, <1>5, <2>3
  <2>. QED BY <2>1, <2>2, <2>3
<1>8. CASE act = "Begin"
  <2>1. \A k : k \in OpenRegions(n + 1) <=> k \in OpenRegions(n) \cup {n + 1}
    BY <1>2, <1>7, <1>8
  <2>2. OpenRegions(n + 1) = OpenRegions(n) \cup {n + 1}
    BY <2>1
  <2>. QED BY <1>8, <2>2 DEF act
<1>9. CASE act = "End"
  <2>1. \A k : k \notin OpenRegions(n + 1)
    BY <1>2, <1>7, <1>9
  <2>2. OpenRegions(n + 1) = {}
    BY <2>1
  <2>. QED BY <1>9, <2>2 DEF act
<1>10. CASE act # "Begin" /\ act # "End"
  <2>1. \A k : k \in OpenRegions(n + 1) <=> k \in OpenRegions(n)
    BY <1>2, <1>7, <1>10
  <2>2. OpenRegions(n + 1) = OpenRegions(n)
    BY <2>1
  <2>. QED BY <1>10, <2>2 DEF act
<1>. QED BY <1>8, <1>9, <1>10

(* What is written, given up or rolled back under the checkpoints leaves    *)
(* every open region as it was.                                             *)
LEMMA PromisesSilent ==
    ASSUME SilentInRegion, SavedOutside, actions' = actions, Saved \in Seq(State!Snapshots),
           State!Write \/ State!Restore \/ State!Discard \/ UNCHANGED State!vars
    PROVE  SilentInRegion' /\ SavedOutside'
<1>1. CASE State!Written /\ Saved' = Saved
  BY <1>1 DEF State!Written, SilentInRegion, SavedOutside, OpenRegions
<1>2. CASE UNCHANGED <<out, didx, suppress>> /\ Saved' = Saved
  BY <1>2 DEF SilentInRegion, SavedOutside, OpenRegions
<1>3. CASE State!Restore
  <2>1. Saved # <<>> /\ Saved' = Saved /\ didx' = Saved[Len(Saved)].didx /\ suppress' = Saved[Len(Saved)].suppress
    BY <1>3 DEF State!Restore, State!Top, Saved
  <2>2. Len(Saved) \in 1..Len(Saved)
    BY <2>1, EmptySeq, LenProperties
  <2>. QED BY <2>1, <2>2 DEF SilentInRegion, SavedOutside, OpenRegions
<1>4. CASE State!Discard
  <2>1. Saved # <<>> /\ Saved' = SubSeq(Saved, 1, Len(Saved) - 1)
    BY <1>4 DEF State!Discard, Saved
  <2>2. Len(Saved) \in Nat \ {0}
    BY <2>1, EmptySeq, LenProperties
  <2>3. \A i \in 1..Len(Saved') : i \in 1..Len(Saved) /\ Saved'[i] = Saved[i]
    BY <2>1, <2>2, SubSeqProperties
  <2>4. SavedOutside'
    BY <2>3 DEF SavedOutside, OpenRegions
  <2>5. SilentInRegion'
    BY <1>4 DEF State!Discard, State!Written, SilentInRegion, OpenRegions
  <2>. QED BY <2>4, <2>5
<1>5. State!Write => State!Written /\ Saved' = Saved
  BY DEF State!Write, Saved
<1>6. UNCHANGED State!vars => UNCHANGED <<out, didx, suppress>> /\ Saved' = Saved
  BY DEF State!vars, Saved
<1>. QED BY <1>1, <1>2, <1>3, <1>4, <1>5, <1>6

(* A trial starts outside regions.                                          *)
LEMMA StartSilent ==
    ASSUME SilentInRegion, SavedOutside, actions' = actions, Saved \in Seq(State!Snapshots),
           StartTrials, State!Checkpoint
    PROVE  SilentInRegion' /\ SavedOutside'
<1>1. ~suppress /\ UNCHANGED <<out, didx, suppress>>
  BY DEF StartTrials, rvars
<1>2. Saved' = Append(Saved, State!Snapshot)
  BY DEF State!Checkpoint, Saved
<1>3. State!Snapshot.suppress = suppress /\ State!Snapshot.didx = didx
  BY DEF State!Snapshot
<1>4. SilentInRegion'
  BY <1>1 DEF SilentInRegion, OpenRegions
<1>5. SavedOutside'
  <2>1. OpenRegions(didx) = {} /\ suppress = FALSE
    BY <1>1 DEF SilentInRegion
  <2>2. /\ Len(Saved') = Len(Saved) + 1 /\ Len(Saved) \in Nat
        /\ \A i \in 1..Len(Saved') : Saved'[i] = IF i = Len(Saved) + 1 THEN State!Snapshot ELSE Saved[i]
    BY <1>2, AppendProperties
  <2>3. \A i \in 1..Len(Saved') : i = Len(Saved) + 1 \/ i \in 1..Len(Saved)
    BY <2>2
  <2>. QED BY <1>3, <2>1, <2>2, <2>3 DEF SavedOutside, OpenRegions
<1>. QED BY <1>4, <1>5

(* A marker does what the list says for it.                                 *)
LEMMA DirectiveSilent ==
    ASSUME SilentInRegion, SavedOutside, RenderOK, ActionsOK, RenderDirective, Saved' = Saved
    PROVE  SilentInRegion' /\ SavedOutside'
<1>. DEFINE act == IF didx + 1 \in DOMAIN actions THEN actions[didx + 1] ELSE "Inert"
            line == IF col # 0 THEN <<Feed>> ELSE <<>>
<1>1. actions' = actions /\ didx' = didx + 1 /\ didx \in Nat /\ suppress \in BOOLEAN
  BY DEF RenderDirective, RenderOK
<1>2. act \in {"Begin", "End", "Inert"}
  BY DEF ActionsOK
<1>3. /\ act = "Begin" => out' = out \o line \o <<Region(didx + 1)>> /\ suppress' = TRUE
      /\ act = "End" => suppress' = FALSE
      /\ act = "Inert" /\ suppress => UNCHANGED <<out, suppress>>
      /\ act = "Inert" /\ ~suppress => UNCHANGED suppress
  BY DEF RenderDirective, WriteText
<1>4. OpenRegions(didx + 1) = CASE act = "Begin" -> OpenRegions(didx) \cup {didx + 1}
                                [] act = "End" -> {}
                                [] OTHER -> OpenRegions(didx)
  BY <1>1, OpenNext
<1>5. OpenRegions(didx)' = OpenRegions(didx + 1)
  BY <1>1 DEF OpenRegions
<1>. HIDE DEF act
<1>6. SavedOutside'
  BY <1>1 DEF SavedOutside, OpenRegions
<1>7. CASE act = "Begin"
  <2>. DEFINE front == out \o line
  <2>1. front \in Seq(Int) /\ Region(didx + 1) \in Int
    BY <1>1, ConcatProperties DEF RenderOK, Feed, Region
  <2>2. out' = Append(front, Region(didx + 1))
    BY <1>3, <1>7, <2>1
  <2>. HIDE DEF front
  <2>3. Last(out') = Region(didx + 1) /\ out' # <<>>
    BY <2>1, <2>2, FrontAppend, AppendProperties
  <2>4. didx + 1 \in OpenRegions(didx)'
    BY <1>4, <1>5, <1>7
  <2>5. suppress' = TRUE
    BY <1>3, <1>7
  <2>6. SilentInRegion'
    BY <2>3, <2>4, <2>5 DEF SilentInRegion, Region
  <2>. QED BY <1>6, <2>6
<1>8. CASE act = "End"
  BY <1>3, <1>4, <1>5, <1>6, <1>8 DEF SilentInRegion
<1>9. CASE act = "Inert"
  <2>1. OpenRegions(didx)' = OpenRegions(didx)
    BY <1>4, <1>5, <1>9
  <2>2. CASE suppress
    BY <1>3, <1>6, <1>9, <2>1, <2>2 DEF SilentInRegion, Region
  <2>3. CASE ~suppress
    BY <1>3, <1>6, <1>9, <2>1, <2>3 DEF SilentInRegion
  <2>. QED BY <2>2, <2>3
<1>. QED BY <1>2, <1>7, <1>8, <1>9

(* At the start nothing is open and nothing is saved.                       *)
LEMMA SilentInit ==
    ASSUME NEW E, Setting(E), Group("Regular", doc) \in E, Init
    PROVE  SilentInRegion /\ SavedOutside
<1>1. didx = 0 /\ suppress = FALSE /\ Saved = <<>>
  BY LInvInit DEF Init, State!Init, Saved
<1>2. OpenRegions(0) = {} /\ Len(<<>>) = 0
  BY DEF OpenRegions
<1>. QED BY <1>1, <1>2 DEF SilentInRegion, SavedOutside

LEMMA SilentStep ==
    ASSUME NEW E, Setting(E), LInv(E), ActionsOK, SilentInRegion, SavedOutside, Next \/ UNCHANGED vars
    PROVE  SilentInRegion' /\ SavedOutside'
<1>1. actions' = actions
  BY DEF Next, vars, RenderText, RenderSpacing, SkipSuppressed, RenderDirective, EnterSuppressed,
         RenderCompact, RenderExpanded, StartTrials, TrialBegins, TrialRejected, TrialSucceeds,
         TrialFails, GiveUpTrials, Return, Finish, Terminated
<1>2. RenderOK /\ Saved \in Seq(State!Snapshots)
  BY SavedType DEF LInv, RenderOK, Saved
<1>3. CASE RenderDirective
  <2>1. Saved' = Saved
    BY <1>3, RenderDirectiveStep DEF State!Begin, State!End, State!InertMarker, Saved
  <2>. QED BY <1>2, <1>3, <2>1, DirectiveSilent
<1>4. CASE StartTrials
  BY <1>1, <1>2, <1>4, StartTrialsStep, StartSilent
<1>5. CASE RenderText \/ RenderSpacing \/ RenderCompact \/ TrialBegins
  BY <1>1, <1>2, <1>5, RenderTextStep, RenderSpacingStep, RenderCompactStep, TrialBeginsStep, PromisesSilent
<1>6. CASE SkipSuppressed \/ EnterSuppressed \/ RenderExpanded \/ Return
  BY <1>1, <1>2, <1>6, SkipStep, EnterStep, ReturnStep, PromisesSilent
<1>7. CASE TrialRejected \/ TrialFails \/ TrialSucceeds \/ GiveUpTrials
  BY <1>1, <1>2, <1>7, RestoreStep, TrialSucceedsStep, GiveUpStep, PromisesSilent
<1>8. CASE Finish \/ Terminated \/ UNCHANGED vars
  <2>1. UNCHANGED <<rvars, stack>>
    BY <1>8 DEF Finish, Terminated, vars, rvars
  <2>. QED BY <1>1, <1>2, <2>1, StillStep, PromisesSilent
<1>. QED BY <1>3, <1>4, <1>5, <1>6, <1>7, <1>8 DEF Next

(* The verbatim text of an open region is the end of the output until the   *)
(* region closes, for every document, every list of actions and all widths, *)
(* whatever is tried, measured and rolled back meanwhile.                   *)
THEOREM RegionsSilent ==
    ASSUME NEW E, Setting(E), Laid(E)
    PROVE  Spec => []SilentInRegion
<1>. DEFINE I == LInv(E) /\ ActionsOK /\ SilentInRegion /\ SavedOutside
<1>1. Init => I
  BY LInvInit, SilentInit DEF Laid, Init
<1>2. I /\ [Next]_vars => I'
  BY LInvStep, ActionsKept, SilentStep
<1>3. I => SilentInRegion
  OBVIOUS
<1>. HIDE DEF I
<1>. QED BY <1>1, <1>2, <1>3, PTL DEF Spec
=============================================================================
