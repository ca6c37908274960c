-------------------------- MODULE RenderState_proofs --------------------------
(***************************************************************************)
(* The promises of the layout engine's state hold for every document, for  *)
(* every outcome of the width probes, and however deep trials nest.        *)
(***************************************************************************)
EXTENDS RenderState, SequenceTheorems, TLAPS

USE IndentAssumption

-----------------------------------------------------------------------------
(* Prefixes.                                                                *)

(* An output extends itself: a step that writes nothing is fine. *)
LEMMA ExtendedRefl ==
    ASSUME NEW X, NEW s \in Seq(X)
    PROVE  Extended(s, s)
  BY DEF Extended

(* Checkpoints nest: what extends an extension extends the first output. *)
LEMMA ExtendedTrans ==
    ASSUME NEW X, NEW a \in Seq(X), NEW b \in Seq(X), NEW c \in Seq(X),
           Extended(a, b), Extended(b, c)
    PROVE  Extended(a, c)
  BY DEF Extended

(* Dropping the newest checkpoint leaves the others as they were. *)
LEMMA AllButLast ==
    ASSUME NEW X, NEW s \in Seq(X), Len(s) \in Nat \ {0}
    PROVE  LET r == SubSeq(s, 1, Len(s) - 1)
           IN /\ r \in Seq(X) /\ Len(r) = Len(s) - 1
              /\ \A i \in 1..Len(r) : i \in 1..Len(s) /\ r[i] = s[i]
<1> DEFINE m == Len(s) - 1
<1>1. m \in Nat /\ m < Len(s) /\ Len(s) \in Nat
  OBVIOUS
<1>2. \A i \in 1..m : s[i] \in X
  BY <1>1, ElementOfSeq
<1> HIDE DEF m
<1>3. /\ SubSeq(s, 1, m) \in Seq(X) /\ Len(SubSeq(s, 1, m)) = m
      /\ \A i \in 1..m : SubSeq(s, 1, m)[i] = s[i]
  BY <1>1, <1>2, SubSeqProperties
<1>4. QED BY <1>1, <1>3 DEF m

-----------------------------------------------------------------------------
(* The indentation stack: popping the deeper entries and pushing at most    *)
(* one keeps its base and its order, and leaves it a stack of entries.      *)
LEMMA SettledKeepsStack ==
    ASSUME NEW old \in Seq(Entries), NEW new, StackOK(old), Settled(old, new)
    PROVE  new \in Seq(Entries) /\ StackOK(new)
<1> DEFINE n == new[Len(new)].nest
<1>1. n \in Nat
  BY DEF Settled
<1>2. PICK k \in 1..Len(old), step \in {0, IndentWidth} :
        /\ old[k].nest <= n
        /\ new = IF old[k].nest = n THEN SubSeq(old, 1, k)
                 ELSE Append(SubSeq(old, 1, k), Entry(old[k].indent + step, n))
  BY DEF Settled
<1> DEFINE low == SubSeq(old, 1, k)
<1>3. /\ low \in Seq(Entries) /\ Len(low) = k /\ k \in Nat /\ k >= 1
      /\ \A i \in 1..k : low[i] = old[i]
  <2>1. k <= Len(old) /\ k \in Nat /\ k >= 1
    OBVIOUS
  <2>2. QED BY <2>1, SubSeqProperties
<1> HIDE DEF low
<1>4. StackOK(low)
  <2>1. low # <<>> /\ low[1] = Base
    <3>1. low # <<>>
      BY <1>3, EmptySeq
    <3>2. old[1] = Base
      BY DEF StackOK
    <3>3. QED BY <1>3, <3>1, <3>2
  <2>2. ASSUME NEW i \in 1..(Len(low) - 1)
        PROVE  low[i].nest < low[i + 1].nest /\ low[i].indent <= low[i + 1].indent
    <3>1. i \in 1..(Len(old) - 1) /\ i \in 1..k /\ i + 1 \in 1..k
      BY <1>3
    <3>2. QED BY <3>1, <1>3 DEF StackOK
  <2>3. QED BY <2>1, <2>2 DEF StackOK
<1>5. CASE old[k].nest = n
  <2>1. new = low
    BY <1>2, <1>5 DEF low
  <2>2. QED BY <1>3, <1>4, <2>1
<1>6. CASE old[k].nest # n
  <2> DEFINE e == Entry(old[k].indent + step, n)
  <2>1. new = Append(low, e)
    BY <1>2, <1>6 DEF low
  <2>2. old[k] \in Entries /\ step \in Nat
    BY ElementOfSeq
  <2>3. e \in Entries /\ e.nest = n /\ e.indent = old[k].indent + step
    BY <1>1, <2>2 DEF Entry, Entries
  <2> HIDE DEF e
  <2>4. /\ new \in Seq(Entries) /\ Len(new) = k + 1 /\ new[k + 1] = e
        /\ \A i \in 1..k : new[i] = low[i]
    BY <1>3, <2>1, <2>3, AppendProperties
  <2>5. new # <<>> /\ new[1] = Base
    BY <1>3, <1>4, <2>4 DEF StackOK
  <2>6. ASSUME NEW i \in 1..(Len(new) - 1)
        PROVE  new[i].nest < new[i + 1].nest /\ new[i].indent <= new[i + 1].indent
    <3>1. CASE i = k
      <4>1. new[i] = old[k] /\ new[i + 1] = e
        <5>1. k \in 1..k
          BY <1>3
        <5>2. QED BY <1>3, <2>4, <3>1, <5>1
      <4>2. old[k].nest < n /\ old[k].indent <= old[k].indent + step
        BY <1>1, <1>2, <1>6, <2>2 DEF Entries
      <4>3. QED BY <4>1, <4>2, <2>3
    <3>2. CASE i # k
      <4>1. i \in 1..(Len(low) - 1) /\ i \in 1..k /\ i + 1 \in 1..k
        BY <1>3, <2>4, <3>2
      <4>2. new[i] = low[i] /\ new[i + 1] = low[i + 1]
        BY <2>4, <4>1
      <4>3. QED BY <1>4, <4>1, <4>2 DEF StackOK
    <3>3. QED BY <3>1, <3>2
  <2>7. QED BY <2>4, <2>5, <2>6 DEF StackOK
<1>7. QED BY <1>5, <1>6

-----------------------------------------------------------------------------
(* The actions that leave the checkpoints alone only let the output and the *)
(* marker count grow, so every checkpoint stays a prefix.                   *)

(* Every checkpoint on the stack has the fields of a snapshot. *)
LEMMA SavedTyped ==
    ASSUME TypeOK, NEW i \in 1..Len(saved)
    PROVE  /\ saved[i] \in Snapshots
           /\ saved[i].out \in Seq(Cells) /\ saved[i].col \in Nat
           /\ saved[i].indents \in Seq(Entries)
           /\ saved[i].didx \in Nat /\ saved[i].suppress \in BOOLEAN
<1>1. saved[i] \in Snapshots
  BY ElementOfSeq DEF TypeOK
<1>2. QED BY <1>1 DEF Snapshots

(* When only the output and the marker count grow, checkpoints stay prefixes. *)
LEMMA GrowthKeepsCheckpoints ==
    ASSUME IInv, saved' = saved, out' \in Seq(Cells), Extended(out, out'),
           didx' \in Nat, didx <= didx'
    PROVE  CheckpointsArePrefixes' /\ CheckpointsNest'
<1>1. ASSUME NEW i \in 1..Len(saved)
      PROVE  Extended(saved[i].out, out') /\ saved[i].didx <= didx'
  <2>1. saved[i].out \in Seq(Cells) /\ saved[i].didx \in Nat
    BY SavedTyped DEF IInv
  <2>2. Extended(saved[i].out, out) /\ saved[i].didx <= didx
    BY DEF IInv, CheckpointsArePrefixes
  <2>3. out \in Seq(Cells) /\ didx \in Nat
    BY DEF IInv, TypeOK
  <2>4. Extended(saved[i].out, out')
    BY <2>1, <2>2, <2>3, ExtendedTrans
  <2>5. QED BY <2>1, <2>2, <2>3, <2>4
<1>2. CheckpointsArePrefixes'
  BY <1>1 DEF CheckpointsArePrefixes, Extended
<1>3. CheckpointsNest'
  BY DEF IInv, CheckpointsNest, Extended
<1>4. QED BY <1>2, <1>3

(* Writing extends the output and leaves the indentation stack well formed. *)
LEMMA WrittenKeepsState ==
    ASSUME IInv, Written
    PROVE  /\ out' \in Seq(Cells) /\ Extended(out, out') /\ col' \in Nat
           /\ indents' \in Seq(Entries) /\ StackOK(indents')
           /\ didx' = didx /\ suppress' = suppress
<1>1. indents \in Seq(Entries) /\ StackOK(indents)
  BY DEF IInv, TypeOK, IndentStackOK
<1>2. indents' \in Seq(Entries) /\ StackOK(indents')
  <2>1. CASE indents' = indents
    BY <1>1, <2>1
  <2>2. CASE Settled(indents, indents')
    BY <1>1, <2>2, SettledKeepsStack
  <2>3. QED BY <2>1, <2>2 DEF Written
<1>3. QED BY <1>2 DEF Written

(* A step that leaves the checkpoints alone and keeps the state well formed. *)
LEMMA GrowthKeepsIInv ==
    ASSUME IInv, saved' = saved, out' \in Seq(Cells), Extended(out, out'),
           didx' \in Nat, didx <= didx', col' \in Nat, suppress' \in BOOLEAN,
           indents' \in Seq(Entries), StackOK(indents')
    PROVE  IInv'
<1>1. TypeOK'
  BY DEF IInv, TypeOK
<1>2. IndentStackOK'
  BY DEF IInv, IndentStackOK, StackOK
<1>3. QED BY <1>1, <1>2, GrowthKeepsCheckpoints DEF IInv

-----------------------------------------------------------------------------
(* The renderer starts with its base entry and no checkpoint. *)
LEMMA InitIInv == Init => IInv
<1> SUFFICES ASSUME Init PROVE IInv
  OBVIOUS
<1>1. Base \in Entries
  BY DEF Base, Entry, Entries
<1>2. TypeOK
  <2>1. /\ out = <<>> /\ col = 0 /\ indents = <<Base>>
        /\ didx = 0 /\ suppress = FALSE /\ saved = <<>>
    BY DEF Init
  <2>2. out \in Seq(Cells) /\ saved \in Seq(Snapshots)
    BY <2>1, EmptySeq
  <2>3. indents \in Seq(Entries)
    BY <1>1, <2>1
  <2>4. QED BY <2>1, <2>2, <2>3 DEF TypeOK
<1>3. IndentStackOK
  BY DEF Init, IndentStackOK, StackOK
<1>4. CheckpointsArePrefixes /\ CheckpointsNest
  BY DEF Init, CheckpointsArePrefixes, CheckpointsNest
<1>5. QED BY <1>2, <1>3, <1>4 DEF IInv

(* Each operation of the renderer keeps the inductive invariant. *)
LEMMA NextIInv == IInv /\ [Next]_vars => IInv'
<1> SUFFICES ASSUME IInv, [Next]_vars PROVE IInv'
  OBVIOUS
<1>0. /\ out \in Seq(Cells) /\ col \in Nat /\ indents \in Seq(Entries)
      /\ didx \in Nat /\ suppress \in BOOLEAN /\ saved \in Seq(Snapshots)
      /\ StackOK(indents) /\ Extended(out, out)
  BY ExtendedRefl DEF IInv, TypeOK, IndentStackOK
<1>1. CASE Write
  <2>1. /\ out' \in Seq(Cells) /\ Extended(out, out') /\ col' \in Nat
        /\ indents' \in Seq(Entries) /\ StackOK(indents')
        /\ didx' = didx /\ suppress' = suppress /\ saved' = saved
    BY <1>1, WrittenKeepsState DEF Write
  <2>2. QED BY <1>0, <2>1, GrowthKeepsIInv
<1>2. CASE Begin
  <2>1. /\ out' \in Seq(Cells) /\ Extended(out, out') /\ col' \in Nat
        /\ indents' = indents /\ didx' = didx + 1 /\ suppress' = TRUE /\ saved' = saved
    BY <1>2 DEF Begin
  <2>2. /\ indents' \in Seq(Entries) /\ StackOK(indents')
        /\ didx' \in Nat /\ didx <= didx' /\ suppress' \in BOOLEAN
    BY <1>0, <2>1
  <2>3. QED BY <2>1, <2>2, GrowthKeepsIInv
<1>3. CASE End
  <2>1. /\ out' = out /\ col' = col /\ indents' = indents
        /\ didx' = didx + 1 /\ suppress' = FALSE /\ saved' = saved
    BY <1>3 DEF End
  <2>2. /\ out' \in Seq(Cells) /\ Extended(out, out') /\ col' \in Nat
        /\ indents' \in Seq(Entries) /\ StackOK(indents')
        /\ didx' \in Nat /\ didx <= didx'
    BY <1>0, <2>1
  <2>3. suppress' \in BOOLEAN
    BY <2>1, Zenon
  <2>4. QED BY <2>1, <2>2, <2>3, GrowthKeepsIInv
<1>4. CASE InertMarker
  <2>1. didx' = didx + 1 /\ suppress' = suppress /\ saved' = saved
    BY <1>4 DEF InertMarker
  <2>2. CASE suppress /\ UNCHANGED <<out, col, indents>>
    BY <1>0, <2>1, <2>2, GrowthKeepsIInv
  <2>3. CASE /\ out' \in Seq(Cells) /\ Extended(out, out') /\ col' \in Nat
             /\ Settled(indents, indents')
    <3>1. indents' \in Seq(Entries) /\ StackOK(indents')
      BY <1>0, <2>3, SettledKeepsStack
    <3>2. QED BY <1>0, <2>1, <2>3, <3>1, GrowthKeepsIInv
  <2>4. QED BY <1>4, <2>2, <2>3 DEF InertMarker
<1>5. CASE Checkpoint
  <2>1. /\ out' = out /\ col' = col /\ indents' = indents
        /\ didx' = didx /\ suppress' = suppress /\ saved' = Append(saved, Snapshot)
    BY <1>5 DEF Checkpoint
  <2>2. /\ Snapshot \in Snapshots /\ Snapshot.out = out /\ Snapshot.didx = didx
        /\ Snapshot.indents = indents
    BY <1>0 DEF Snapshot, Snapshots
  <2> HIDE DEF Snapshot
  <2>3. /\ saved' \in Seq(Snapshots) /\ Len(saved') = Len(saved) + 1
        /\ \A i \in 1..Len(saved) : saved'[i] = saved[i]
        /\ saved'[Len(saved) + 1] = Snapshot
    BY <1>0, <2>1, <2>2, AppendProperties
  <2>4. TypeOK'
    BY <1>0, <2>1, <2>3 DEF TypeOK
  <2>5. ASSUME NEW i \in 1..Len(saved')
        PROVE  \/ i \in 1..Len(saved) /\ saved'[i] = saved[i]
               \/ i = Len(saved) + 1 /\ saved'[i] = Snapshot
    <3>1. Len(saved) \in Nat
      BY <1>0, LenProperties
    <3>2. QED BY <2>3, <3>1
  <2>6. IndentStackOK'
    <3>1. ASSUME NEW i \in 1..Len(saved')
          PROVE  StackOK(saved'[i].indents)
      BY <1>0, <2>2, <2>5 DEF IInv, IndentStackOK
    <3>2. QED BY <1>0, <2>1, <3>1 DEF IndentStackOK, StackOK
  <2>7. ASSUME NEW i \in 1..Len(saved')
        PROVE  Extended(saved'[i].out, out) /\ saved'[i].didx <= didx
    BY <1>0, <2>2, <2>5 DEF IInv, CheckpointsArePrefixes
  <2>8. CheckpointsArePrefixes'
    BY <2>1, <2>7 DEF CheckpointsArePrefixes, Extended
  <2>9. CheckpointsNest'
    <3>1. ASSUME NEW i \in 1..Len(saved'), NEW j \in 1..Len(saved'), i <= j
          PROVE  Extended(saved'[i].out, saved'[j].out) /\ saved'[i].didx <= saved'[j].didx
      <4>1. CASE j = Len(saved) + 1 /\ saved'[j] = Snapshot
        BY <2>2, <2>7, <4>1
      <4>2. CASE j \in 1..Len(saved) /\ saved'[j] = saved[j]
        <5>1. i \in 1..Len(saved) /\ saved'[i] = saved[i]
          BY <2>3, <3>1, <4>2
        <5>2. QED BY <3>1, <4>2, <5>1 DEF IInv, CheckpointsNest
      <4>3. QED BY <2>5, <4>1, <4>2
    <3>2. QED BY <3>1 DEF CheckpointsNest, Extended
  <2>10. QED BY <2>4, <2>6, <2>8, <2>9 DEF IInv
<1>6. CASE Restore
  <2>1. Len(saved) \in 1..Len(saved)
    BY <1>0, <1>6, EmptySeq, LenProperties DEF Restore
  <2>2. /\ out' = Top.out /\ col' = Top.col /\ indents' = Top.indents
        /\ didx' = Top.didx /\ suppress' = Top.suppress /\ saved' = saved
    BY <1>6 DEF Restore
  <2>3. /\ Top.out \in Seq(Cells) /\ Top.col \in Nat /\ Top.indents \in Seq(Entries)
        /\ Top.didx \in Nat /\ Top.suppress \in BOOLEAN
    BY <2>1, SavedTyped DEF IInv, Top
  <2>4. TypeOK'
    BY <1>0, <2>2, <2>3 DEF TypeOK
  <2>5. IndentStackOK'
    <3>1. StackOK(Top.indents)
      BY <2>1 DEF IInv, IndentStackOK, Top
    <3>2. QED BY <2>2, <3>1 DEF IInv, IndentStackOK, StackOK
  <2>6. CheckpointsArePrefixes'
    <3>1. ASSUME NEW i \in 1..Len(saved)
          PROVE  Extended(saved[i].out, Top.out) /\ saved[i].didx <= Top.didx
      <4>1. i <= Len(saved)
        BY <2>1
      <4>2. QED BY <2>1, <4>1 DEF IInv, CheckpointsNest, Top
    <3>2. QED BY <2>2, <3>1 DEF CheckpointsArePrefixes, Extended
  <2>7. CheckpointsNest'
    BY <2>2 DEF IInv, CheckpointsNest, Extended
  <2>8. QED BY <2>4, <2>5, <2>6, <2>7 DEF IInv
<1>7. CASE Discard
  <2>1. Len(saved) \in Nat \ {0}
    BY <1>0, <1>7, EmptySeq DEF Discard
  <2>2. saved' = SubSeq(saved, 1, Len(saved) - 1)
    BY <1>7 DEF Discard
  <2>3. /\ saved' \in Seq(Snapshots) /\ Len(saved') = Len(saved) - 1
        /\ \A i \in 1..Len(saved') : i \in 1..Len(saved) /\ saved'[i] = saved[i]
    BY <1>0, <2>1, <2>2, AllButLast
  <2>4. /\ out' \in Seq(Cells) /\ Extended(out, out') /\ col' \in Nat
        /\ indents' \in Seq(Entries) /\ StackOK(indents')
        /\ didx' = didx /\ suppress' = suppress
    <3>1. CASE Written
      BY <3>1, WrittenKeepsState
    <3>2. CASE UNCHANGED <<out, col, indents, didx, suppress>>
      BY <1>0, <3>2
    <3>3. QED BY <1>7, <3>1, <3>2 DEF Discard
  <2>5. TypeOK'
    BY <1>0, <2>3, <2>4 DEF TypeOK
  <2>6. IndentStackOK'
    BY <2>3, <2>4 DEF IInv, IndentStackOK, StackOK
  <2>7. CheckpointsArePrefixes'
    <3>1. ASSUME NEW i \in 1..Len(saved')
          PROVE  Extended(saved'[i].out, out') /\ saved'[i].didx <= didx'
      <4>1. i \in 1..Len(saved) /\ saved'[i] = saved[i]
        BY <2>3
      <4>2. saved[i].out \in Seq(Cells) /\ saved[i].didx <= didx /\ Extended(saved[i].out, out)
        BY <4>1, SavedTyped DEF IInv, CheckpointsArePrefixes
      <4>3. Extended(saved[i].out, out')
        BY <1>0, <2>4, <4>2, ExtendedTrans
      <4>4. QED BY <2>4, <4>1, <4>2, <4>3
    <3>2. QED BY <3>1 DEF CheckpointsArePrefixes, Extended
  <2>8. CheckpointsNest'
    BY <2>3 DEF IInv, CheckpointsNest, Extended
  <2>9. QED BY <2>5, <2>6, <2>7, <2>8 DEF IInv
<1>8. CASE UNCHANGED vars
  <2>1. /\ out' = out /\ col' = col /\ indents' = indents
        /\ didx' = didx /\ suppress' = suppress /\ saved' = saved
    BY <1>8 DEF vars
  <2>2. QED BY <1>0, <2>1, GrowthKeepsIInv
<1>9. QED BY <1>1, <1>2, <1>3, <1>4, <1>5, <1>6, <1>7, <1>8 DEF Next

-----------------------------------------------------------------------------
(* The inductive invariant holds in every reachable state. *)
THEOREM Invariance == Spec => []IInv
  BY InitIInv, NextIInv, PTL DEF Spec

(* "Indentation stack; never empty": every text finds an entry to settle    *)
(* on, in the running state and in every state a rollback may bring back.   *)
THEOREM IndentStackSafe == Spec => []IndentStackOK
<1>1. IInv => IndentStackOK
  BY DEF IInv
<1>2. QED BY <1>1, Invariance, PTL

(* `Renderer::restore` saves the length of the output only: the output it   *)
(* saved is still in front, whatever nested trials wrote and rolled back.   *)
THEOREM RollbackExact == Spec => []CheckpointsArePrefixes
<1>1. IInv => CheckpointsArePrefixes
  BY DEF IInv
<1>2. QED BY <1>1, Invariance, PTL
=============================================================================
