--------------------------- MODULE Directives_proofs ---------------------------
(******************************************************************************)
(* For every source: which directive markers the lexer records, that the      *)
(* regions they open and close are well formed, and that each of them is in   *)
(* the tree that is built.                                                    *)
(*                                                                            *)
(* The inductive invariant says where the parser is: the current token stands *)
(* at a position whose context is the stack of constructs, and the lexer      *)
(* behind it has recorded the markers up to the place it has read to.  After  *)
(* the pairing of markers, four parts: what is true of a source, the          *)
(* functions of the lexer, the steps of the parser, the markers in the tree.  *)
(******************************************************************************)
EXTENDS Directives, Induction, FiniteSetTheorems, FunctionTheorems, SequenceTheorems, TLAPS

(* The pairing of markers, whatever markers there are (DirectivePairing):     *)
(* regions are well formed in every state of the loop.                        *)

(* Before the loop nothing is decided. *)
LEMMA InitPInv == PairInit => PInv
<1> SUFFICES ASSUME PairInit PROVE PInv
  OBVIOUS
<1>1. offsets \in Seq(Marks)
  BY DEF PairInit
<1>2. Len(offsets) \in Nat
  BY <1>1
<1>3. PairTypeOK
  BY <1>1, <1>2 DEF PairInit, Start, PairTypeOK, Actions
<1>4. OpenIsPending /\ RegionsWellFormed
  BY <1>2 DEF PairInit, Start, OpenIsPending, Undecided, RegionsWellFormed
<1> QED BY <1>3, <1>4 DEF PInv

(* A region that was formed stays one when only undecided markers change. *)
LEMMA RegionsStay ==
    ASSUME PInv, UNCHANGED offsets, PairTypeOK', NEW b \in DOMAIN actions, NEW e \in DOMAIN actions,
           RegionIs(b, e), \A k \in DOMAIN actions : k <= e => actions'[k] = actions[k]
    PROVE  RegionIs(b, e)'
<1>1. DOMAIN actions = 1..Len(offsets) /\ DOMAIN actions' = 1..Len(offsets)
  BY DEF PInv, PairTypeOK
<1>2. b \in Int /\ e \in Int /\ b < e
  BY <1>1 DEF RegionIs
<1>3. InertBetween(b, e)'
  <2> SUFFICES ASSUME NEW k \in DOMAIN actions', b < k, k < e PROVE actions'[k] = "Inert"
    BY DEF InertBetween
  <2>1. k \in DOMAIN actions /\ k \in Int /\ k <= e
    BY <1>1, <1>2
  <2> QED BY <2>1 DEF RegionIs, InertBetween
<1> QED BY <1>1, <1>2, <1>3 DEF RegionIs

(* Each round of the loop keeps the invariant. *)
LEMMA NextPInv == PInv /\ [Pair]_pvars => PInv'
<1> SUFFICES ASSUME PInv, [Pair]_pvars PROVE PInv'
  OBVIOUS
<1> USE DEF PInv
<1>0. /\ Len(offsets) \in Nat /\ n \in Int /\ open \in Int
      /\ DOMAIN actions = 1..Len(offsets)
      /\ \A k \in DOMAIN actions : offsets[k] \in Marks
  BY DEF PairTypeOK
<1>1. CASE OpenRegion
  <2>1. /\ n \in 1..Len(offsets) /\ offsets[n].disable /\ open = 0
        /\ open' = n /\ n' = n + 1 /\ offsets' = offsets /\ actions' = actions
    BY <1>1, <1>0 DEF OpenRegion, Opens, PairTypeOK
  <2>2. PairTypeOK'
    BY <1>0, <2>1 DEF PairTypeOK
  <2>3. OpenIsPending'
    BY <1>0, <2>1 DEF OpenIsPending, Undecided
  <2>4. RegionsWellFormed'
    <3>1. ~Paired
      BY <1>0, <2>1 DEF Paired
    <3> QED BY <2>1, <3>1 DEF RegionsWellFormed, RegionIs, InertBetween
  <2> QED BY <2>2, <2>3, <2>4
<1>2. CASE CloseRegion
  <2>1. /\ n \in 1..Len(offsets) /\ open \in 1..Len(offsets) /\ open < n
        /\ ~offsets[n].disable /\ offsets[open].disable
        /\ offsets[n].depth = offsets[open].depth
        /\ open' = 0 /\ n' = n + 1 /\ offsets' = offsets
        /\ actions' = [actions EXCEPT ![open] = "Begin", ![n] = "End"]
    BY <1>2, <1>0 DEF CloseRegion, Closes, PairTypeOK, OpenIsPending
  <2>2. PairTypeOK'
    BY <1>0, <2>1 DEF PairTypeOK, Actions
  <2>3. /\ actions'[open] = "Begin" /\ actions'[n] = "End"
        /\ \A k \in DOMAIN actions : k # open /\ k # n => actions'[k] = actions[k]
        /\ \A k \in DOMAIN actions : k >= open => actions[k] = "Inert"
    BY <1>0, <2>1 DEF PairTypeOK, OpenIsPending, Undecided
  <2>4. OpenIsPending'
    <3> SUFFICES ASSUME NEW k \in DOMAIN actions', k >= n + 1 PROVE actions'[k] = "Inert"
      BY <2>1 DEF OpenIsPending, Undecided
    <3> QED BY <1>0, <2>1, <2>3
  <2>6. DOMAIN actions' = 1..Len(offsets)
    BY <1>0, <2>1, <2>2 DEF PairTypeOK
  <2>o. PICK o \in 1..Len(offsets), m \in 1..Len(offsets) : o = open /\ m = n
    BY <2>1
  <2>5. RegionIs(o, m)'
    <3>1. InertBetween(o, m)'
      BY <1>0, <2>1, <2>3, <2>6, <2>o DEF InertBetween
    <3> QED BY <1>0, <2>1, <2>3, <2>o, <3>1 DEF RegionIs
  <2>7. ASSUME NEW b \in DOMAIN actions, NEW e \in DOMAIN actions, RegionIs(b, e)
        PROVE  RegionIs(b, e)'
    <3>1. e \in Int /\ e < open
      <4>1. actions[e] = "End"
        BY <2>7 DEF RegionIs
      <4>2. ~(e >= open)
        BY <2>3, <4>1
      <4> QED BY <1>0, <4>2
    <3>2. \A k \in DOMAIN actions : k <= e => actions'[k] = actions[k]
      BY <1>0, <2>1, <2>3, <3>1
    <3> QED BY <2>1, <2>2, <2>7, <3>2, RegionsStay
  <2>8. RegionsWellFormed'
    <3>0. ~Paired
      BY <1>0, <2>1 DEF Paired
    <3>1. ASSUME NEW e \in DOMAIN actions', actions'[e] = "End"
          PROVE  \E b \in DOMAIN actions' : RegionIs(b, e)'
      <4>1. CASE e = m
        BY <2>5, <2>6, <4>1
      <4>2. CASE e # m
        <5>1. e \in DOMAIN actions /\ actions[e] = "End"
          BY <1>0, <2>3, <2>6, <2>o, <3>1, <4>2
        <5>2. PICK b \in DOMAIN actions : RegionIs(b, e)
          BY <5>1 DEF RegionsWellFormed
        <5> QED BY <1>0, <5>1, <5>2, <2>6, <2>7
      <4> QED BY <4>1, <4>2
    <3>2. ASSUME NEW b \in DOMAIN actions', actions'[b] = "Begin"
          PROVE  \E e \in DOMAIN actions' : RegionIs(b, e)'
      <4>1. CASE b = o
        BY <2>5, <2>6, <4>1
      <4>2. CASE b # o
        <5>1. b \in DOMAIN actions /\ actions[b] = "Begin"
          BY <1>0, <2>3, <2>6, <2>o, <3>2, <4>2
        <5>2. PICK e \in DOMAIN actions : RegionIs(b, e)
          BY <5>1, <3>0 DEF RegionsWellFormed
        <5> QED BY <1>0, <5>1, <5>2, <2>6, <2>7
      <4> QED BY <4>1, <4>2
    <3> QED BY <3>1, <3>2 DEF RegionsWellFormed
  <2> QED BY <2>2, <2>4, <2>8
<1>3. CASE LeaveInert
  <2>1. /\ n \in 1..Len(offsets) /\ n' = n + 1
        /\ offsets' = offsets /\ open' = open /\ actions' = actions
    BY <1>3, <1>0 DEF LeaveInert, PairTypeOK
  <2>2. PairTypeOK'
    BY <1>0, <2>1 DEF PairTypeOK
  <2>3. OpenIsPending'
    BY <1>0, <2>1 DEF OpenIsPending, Undecided
  <2>4. RegionsWellFormed'
    <3>1. ~Paired
      BY <1>0, <2>1 DEF Paired
    <3> QED BY <2>1, <3>1 DEF RegionsWellFormed, RegionIs, InertBetween
  <2> QED BY <2>2, <2>3, <2>4
<1>4. CASE EndOfFile
  <2>1. /\ n = Len(offsets) + 1 /\ n' = n + 1 /\ offsets' = offsets /\ open' = 0 /\ Paired'
    BY <1>4, <1>0 DEF EndOfFile, Paired
  <2>2. ~Paired
    BY <1>0, <2>1 DEF Paired
  <2>4. PairTypeOK'
    BY <1>0, <1>4, <2>1 DEF PairTypeOK, Actions, EndOfFile, ReachesEnd
  <2>5. OpenIsPending'
    BY <1>0, <2>1, <2>4 DEF OpenIsPending, Undecided, PairTypeOK
  <2>6. RegionsWellFormed'
    <3>1. CASE ~ReachesEnd
      <4>1. actions' = actions
        BY <1>4, <3>1 DEF EndOfFile
      <4> QED BY <2>1, <2>2, <4>1 DEF RegionsWellFormed, RegionIs, InertBetween
    <3>2. CASE ReachesEnd
      <4>1. /\ open \in DOMAIN actions /\ offsets[open].depth = 0 /\ offsets[open].disable
            /\ \A k \in DOMAIN actions : k >= open => actions[k] = "Inert"
            /\ actions' = [actions EXCEPT ![open] = "Begin"]
        BY <1>0, <1>4, <3>2 DEF ReachesEnd, EndOfFile, OpenIsPending, Undecided, PairTypeOK
      <4>2. /\ actions'[open] = "Begin" /\ DOMAIN actions' = DOMAIN actions
            /\ \A k \in DOMAIN actions : k # open => actions'[k] = actions[k]
        BY <4>1
      <4>o. PICK o \in DOMAIN actions : o = open
        BY <4>1
      <4>3. /\ actions'[o] = "Begin" /\ offsets'[o].depth = 0 /\ offsets'[o].disable
            /\ \A k \in DOMAIN actions' : o < k => actions'[k] = "Inert"
        BY <1>0, <2>1, <4>1, <4>2, <4>o
      <4>4. ASSUME NEW b \in DOMAIN actions, NEW e \in DOMAIN actions, RegionIs(b, e)
            PROVE  RegionIs(b, e)'
        <5>1. e \in Int /\ e < open
          <6>1. actions[e] = "End"
            BY <4>4 DEF RegionIs
          <6>2. ~(e >= open)
            BY <4>1, <6>1
          <6> QED BY <1>0, <6>2
        <5>2. \A k \in DOMAIN actions : k <= e => actions'[k] = actions[k]
          BY <1>0, <4>1, <4>2, <5>1
        <5> QED BY <2>1, <2>4, <4>4, <5>2, RegionsStay
      <4>5. ASSUME NEW e \in DOMAIN actions', actions'[e] = "End"
            PROVE  \E b \in DOMAIN actions' : RegionIs(b, e)'
        <5>1. e \in DOMAIN actions /\ actions[e] = "End"
          BY <4>2, <4>5
        <5>2. PICK b \in DOMAIN actions : RegionIs(b, e)
          BY <5>1 DEF RegionsWellFormed
        <5> QED BY <5>1, <5>2, <4>2, <4>4
      <4>6. ASSUME NEW b \in DOMAIN actions', actions'[b] = "Begin", b # o
            PROVE  \E e \in DOMAIN actions' : RegionIs(b, e)'
        <5>1. b \in DOMAIN actions /\ actions[b] = "Begin"
          BY <4>2, <4>6, <4>o
        <5>2. PICK e \in DOMAIN actions : RegionIs(b, e)
          BY <5>1, <2>2 DEF RegionsWellFormed
        <5> QED BY <5>1, <5>2, <4>2, <4>4
      <4>7. /\ Paired' /\ offsets'[o].depth = 0 /\ offsets'[o].disable
            /\ InertBetween(o, Len(offsets) + 1)'
        BY <2>1, <4>3 DEF InertBetween
      <4> QED BY <4>5, <4>6, <4>7 DEF RegionsWellFormed
    <3> QED BY <3>1, <3>2
  <2> QED BY <2>4, <2>5, <2>6
<1>5. CASE UNCHANGED pvars
  BY <1>5 DEF pvars, PairTypeOK, OpenIsPending, Undecided, RegionsWellFormed, RegionIs,
              InertBetween, Paired
<1> QED BY <1>1, <1>2, <1>3, <1>4, <1>5 DEF Pair

(* The loop never leaves the strengthened invariant. *)
THEOREM PairingInvariant == PairSpec => []PInv
<1>1. PairInit => PInv
  BY InitPInv
<1>2. PInv /\ [Pair]_pvars => PInv'
  BY NextPInv
<1> QED BY <1>1, <1>2, PTL DEF PairSpec

(* Whatever markers were recorded, regions do not overlap, begin and end at *)
(* one `${}` depth, and only one outside of every `${}` may stay open.      *)
THEOREM RegionsSafe == PairSpec => []RegionsWellFormed
<1>1. PInv => RegionsWellFormed
  BY DEF PInv
<1> QED BY <1>1, PairingInvariant, PTL

-----------------------------------------------------------------------------
(* A file that is read.                                                    *)

(* Tokens by name: the SMT encoding fails on a string with punctuation.     *)
lbrace == "{"
rbrace == "}"
dollar == "${"
plain  == {"x", "=", ";", ":", ",", "..."}

(* What the constructs under way look like to the lexer. *)
Sort(kind) == IF kind = "string" THEN "raw" ELSE IF kind = "interp" THEN "interp" ELSE "code"
Shape(st) == [i \in 1..Len(st) |-> Sort(st[i].kind)]

(* The types: the lexer, the token it hands over, what is saved, a construct. *)
LexerStates == [pos : 1..EndPos, buffer : Seq(Nat), start : Nat, recorded : Seq(Marks), depth : Nat]
Cursors == [tok : Tokens \cup {"eof", "sof"}, pre : Seq(Nat)]
SavedStates == [lexer : LexerStates, current : Cursors, ast : Seq(Nat)]
Kinds == {"formals", "binders", "selector", "string", "interp"}
Frames == [kind : Kinds, saved : Seq(SavedStates)]

(* The lexer has recorded the markers it has passed and counts the          *)
(* interpolations it is in.                                                 *)
Faithful(l) == l.recorded = TrueMarkers[l.pos] /\ l.depth = InterpsOf(Context[l.pos])

(* The token at c is the current one: what the lexer has read behind it.    *)
ReadBehind(l, tok, c) ==
    IF Defers(tok, l.depth) THEN l.pos = c + 1 /\ l.start = c + 1 /\ l.buffer = <<>>
    ELSE IF tok = "eof" THEN l.pos = c /\ l.buffer = <<>>
    ELSE l.pos = RunEnd(c + 1) /\ l.buffer = Run(c + 1)

(* The current token is the one at c, in code, inside the constructs ctx.   *)
StandsAt(l, cur, c, ctx) ==
    /\ c \in 1..EndPos /\ cur.tok = TokenAt(c) /\ cur.tok \notin Markers
    /\ Context[c] = ctx /\ ~IsRaw(ctx)
    /\ l.recorded = TrueMarkers[l.pos] /\ l.depth = InterpsOf(ctx)
    /\ ReadBehind(l, cur.tok, c)

AtToken(l, cur, st) == \E c \in 1..EndPos : StandsAt(l, cur, c, Shape(st))

(* The parser reads string content: there is no current token.              *)
InString(l, cur, st) ==
    /\ cur = Nothing /\ Context[l.pos] = Shape(st) /\ IsRaw(Shape(st))
    /\ Faithful(l) /\ l.buffer = <<>>

(* What is saved with the formals of a lambda is the state at their brace.  *)
SavedAreReal(st) ==
    \A i \in 1..Len(st) : st[i].kind = "formals" =>
        LET s == st[i].saved[1]
        IN  st[i].saved # <<>> /\ s.current.tok = lbrace /\ AtToken(s.lexer, s.current, SubSeq(st, 1, i - 1))

(* The inductive invariant.                                                 *)
TypeOK ==
    /\ src \in Seq(Lexemes) /\ lexer \in LexerStates /\ current \in Cursors
    /\ stack \in Seq(Frames) /\ ast \in Seq(Nat) /\ parsed \in BOOLEAN

ParseInv ==
    ~parsed => /\ offsets = <<>> /\ Start
               /\ AtToken(lexer, current, stack) \/ InString(lexer, current, stack)
               /\ SavedAreReal(stack)

PairedInv == parsed => offsets = TrueMarkers[EndPos] /\ PInv

DInv == TypeOK /\ ParseInv /\ PairedInv

(* The tree, the current token and the buffer hold together what is recorded. *)
InTree(a, pre, l) == a \o pre \o l.buffer = At(l.recorded)

-----------------------------------------------------------------------------
(* The four kinds of token names are told apart. *)
LEMMA TokenNames ==
    /\ lbrace # rbrace /\ lbrace # dollar /\ rbrace # dollar
    /\ \A t \in plain : t # lbrace /\ t # rbrace /\ t # dollar
    /\ \A t \in plain : t \notin {"quote", "eof", "sof", "disable", "enable"}
    /\ \A t \in {lbrace, rbrace, dollar} : t \notin {"quote", "eof", "sof", "disable", "enable"}
BY Zenon DEF lbrace, rbrace, dollar, plain

(* The ends of a source are no lexemes of it. *)
LEMMA NoLexemes == "sof" \notin Lexemes /\ "eof" \notin Lexemes
BY Zenon DEF Lexemes, Tokens, Markers

(* The lexer leaves the trivia behind a quote, and behind a brace inside an *)
(* interpolation, to the parser.                                            *)
LEMMA DefersCases ==
    ASSUME NEW tok, NEW d PROVE Defers(tok, d) <=> tok = "quote" \/ (tok = rbrace /\ d > 0)
BY Zenon DEF Defers, rbrace

(* The contexts of a source.                                                *)
Constructs == {"raw", "interp", "code"}
Contexts == Seq(Constructs)

(* A sequence and one more element at its end. *)
LEMMA SeqAppend ==
    ASSUME NEW S, NEW s \in Seq(S), NEW e \in S
    PROVE  /\ Append(s, e) \in Seq(S) /\ Append(s, e) # <<>>
           /\ Len(s) \in Nat /\ Len(Append(s, e)) = Len(s) + 1
           /\ \A i \in 1..Len(s) : Append(s, e)[i] = s[i]
           /\ Append(s, e)[Len(s) + 1] = e /\ Last(Append(s, e)) = e
<1>1. Len(s) \in Nat
  OBVIOUS
<1>. QED BY <1>1, AppendProperties DEF Last

(* A sequence without its last element. *)
LEMMA SeqFront ==
    ASSUME NEW S, NEW s \in Seq(S), s # <<>>
    PROVE  /\ Len(s) \in Nat /\ Len(s) >= 1 /\ Last(s) = s[Len(s)] /\ Last(s) \in S
           /\ Front(s) \in Seq(S) /\ Len(Front(s)) = Len(s) - 1
           /\ \A i \in 1..(Len(s) - 1) : Front(s)[i] = s[i]
           /\ Append(Front(s), Last(s)) = s
<1>1. Len(s) \in Nat /\ Len(s) >= 1
  BY EmptySeq
<1>2. Last(s) = s[Len(s)] /\ Last(s) \in S
  BY <1>1, ElementOfSeq DEF Last
<1>3. \A i \in 1..(Len(s) - 1) : s[i] \in S
  BY <1>1, ElementOfSeq
<1>4. /\ Front(s) \in Seq(S) /\ Len(Front(s)) = Len(s) - 1
      /\ \A i \in 1..(Len(s) - 1) : Front(s)[i] = s[i]
  <2>. DEFINE m == Len(s) - 1
  <2>1. /\ SubSeq(s, 1, m) \in Seq(S) /\ Len(SubSeq(s, 1, m)) = IF 1 <= m THEN m - 1 + 1 ELSE 0
        /\ \A i \in 1..(m - 1 + 1) : SubSeq(s, 1, m)[i] = s[1 + i - 1]
    <3>1. m \in Int /\ 1 \in Int /\ \A i \in 1..m : s[i] \in S
      BY <1>1, <1>3
    <3>. HIDE DEF m
    <3>. QED BY <3>1, SubSeqProperties
  <2>2. Front(s) = SubSeq(s, 1, m)
    BY DEF Front
  <2>3. m \in Nat
    BY <1>1
  <2>4. m - 1 + 1 = m /\ (1 <= m \/ m = 0) /\ \A i \in 1..m : 1 + i - 1 = i
    <3>. HIDE DEF m
    <3>. QED BY <2>3
  <2>. HIDE DEF m
  <2>5. /\ Front(s) \in Seq(S) /\ Len(Front(s)) = m /\ \A i \in 1..m : Front(s)[i] = s[i]
    BY <2>1, <2>2, <2>4
  <2>. QED BY <2>5 DEF m
<1>5. Append(Front(s), Last(s)) = s
  <2>. DEFINE t == Append(Front(s), Last(s))
  <2>1. /\ t \in Seq(S) /\ Len(t) = Len(s) /\ t[Len(s)] = Last(s)
        /\ \A i \in 1..(Len(s) - 1) : t[i] = Front(s)[i]
    BY <1>1, <1>2, <1>4, SeqAppend
  <2>. HIDE DEF t
  <2>2. \A i \in 1..Len(s) : t[i] = s[i]
    BY <1>1, <1>2, <1>4, <2>1
  <2>. QED BY <2>1, <2>2, SeqEqual DEF t
<1>. QED BY <1>1, <1>2, <1>4, <1>5

(* Opening and closing constructs leads from contexts to contexts. *)
LEMMA OpenedType ==
    ASSUME NEW ctx \in Contexts, NEW tok PROVE Opened(ctx, tok) \in Contexts
<1>1. ctx # <<>> => Front(ctx) \in Contexts
  BY DEF Front, Contexts
<1>2. \A k \in Constructs : Append(ctx, k) \in Contexts
  BY DEF Contexts
<1>. QED BY <1>1, <1>2 DEF Opened, Constructs

(* The contexts of a source, position by position. *)
LEMMA ContextRec ==
    ASSUME src \in Seq(Lexemes)
    PROVE  /\ Context \in [1..EndPos -> Contexts]
           /\ \A p \in 1..EndPos :
                Context[p] = IF p = 1 THEN <<>> ELSE Opened(Context[p - 1], src[p - 1])
<1>. DEFINE step == [x \in Contexts \X (1..EndPos) |-> Opened(x[1], src[x[2] - 1])]
            Rec(f) == f = [p \in 1..EndPos |-> IF p = 1 THEN <<>> ELSE Opened(f[p - 1], src[p - 1])]
<1>0. EndPos \in Nat
  BY DEF EndPos
<1>1. step \in [Contexts \X (1..EndPos) -> Contexts]
  BY OpenedType
<1>2. <<>> \in Contexts
  BY DEF Contexts
<1>3. PICK f \in [1..EndPos -> Contexts] :
        IsRecursive(f, EndPos, <<>>, step)
  <2>. HIDE DEF step
  <2>1. HasRecursive(EndPos, Contexts, <<>>, step)
    BY <1>0, <1>1, <1>2, RecursionExists
  <2>. QED BY <2>1 DEF HasRecursive
<1>4. Rec(f)
  <2>1. ASSUME NEW p \in 1..EndPos, p # 1
        PROVE  step[<<f[p - 1], p>>] = Opened(f[p - 1], src[p - 1])
    <3>1. f[p - 1] \in Contexts
      BY <1>0, <2>1
    <3>. QED BY <3>1
  <2>2. \A p \in 1..EndPos : f[p] = IF p = 1 THEN <<>> ELSE Opened(f[p - 1], src[p - 1])
    <3>. HIDE DEF step
    <3>. QED BY <1>3, <2>1 DEF IsRecursive
  <2>. HIDE DEF step
  <2>. QED BY <2>2
<1>5. Rec(Context)
  <2>1. Context = CHOOSE g : Rec(g)
    BY DEF Context
  <2>. HIDE DEF Rec
  <2>. QED BY <1>4, <2>1
<1>6. \A p \in 1..EndPos : Context[p] = IF p = 1 THEN <<>> ELSE Opened(Context[p - 1], src[p - 1])
  BY <1>5
<1>7. \A p \in 1..EndPos : Context[p] \in Contexts
  <2>. DEFINE S == {p \in 1..EndPos : Context[p] \in Contexts}
  <2>1. EndPos >= 1 => 1 \in S
    <3>1. EndPos >= 1 => Context[1] = <<>>
      BY <1>0, <1>6
    <3>. QED BY <1>0, <1>2, <3>1
  <2>2. \A p \in 1..EndPos : p \in S /\ p + 1 <= EndPos => p + 1 \in S
    <3>. SUFFICES ASSUME NEW p \in 1..EndPos, p \in S, p + 1 <= EndPos PROVE p + 1 \in S
      OBVIOUS
    <3>1. p + 1 \in 1..EndPos /\ p + 1 # 1 /\ (p + 1) - 1 = p
      BY <1>0
    <3>2. Context[p + 1] = Opened(Context[p], src[p])
      BY <3>1, <1>6
    <3>. QED BY <3>1, <3>2, OpenedType
  <2>3. 1..EndPos \subseteq S
    <3>. HIDE DEF S
    <3>. QED BY ONLY <1>0, <2>1, <2>2, IntervalInd, Zenon
  <2>. QED BY <2>3
<1>8. Context \in [1..EndPos -> Contexts]
  BY <1>5, <1>7
<1>. QED BY <1>6, <1>8

(* What each token does to the constructs that are open.                    *)
LEMMA OpenedCases ==
    ASSUME NEW ctx \in Contexts, NEW tok
    PROVE  /\ tok \notin {"quote", dollar, lbrace, rbrace} => Opened(ctx, tok) = ctx
           /\ tok = "quote" /\ ~IsRaw(ctx) => Opened(ctx, tok) = Append(ctx, "raw")
           /\ tok = dollar /\ ~IsRaw(ctx) => Opened(ctx, tok) = Append(ctx, "code")
           /\ tok = lbrace /\ ~IsRaw(ctx) => Opened(ctx, tok) = Append(ctx, "code")
           /\ tok = rbrace /\ ~IsRaw(ctx) /\ ctx # <<>> => Opened(ctx, tok) = Front(ctx)
           /\ tok = rbrace /\ ctx = <<>> => Opened(ctx, tok) = ctx
           /\ tok = "quote" /\ IsRaw(ctx) => Opened(ctx, tok) = Front(ctx)
           /\ tok = dollar /\ IsRaw(ctx) => Opened(ctx, tok) = Append(ctx, "interp")
           /\ tok \notin {"quote", dollar} /\ IsRaw(ctx) => Opened(ctx, tok) = ctx
<1>. DEFINE inner == IF ctx = <<>> THEN "code" ELSE Last(ctx)
<1>1. inner = "raw" <=> IsRaw(ctx)
  BY DEF IsRaw
<1>2. /\ tok = "quote" /\ inner = "raw" => Opened(ctx, tok) = Front(ctx)
      /\ tok = "quote" /\ inner # "raw" => Opened(ctx, tok) = Append(ctx, "raw")
      /\ tok = dollar => Opened(ctx, tok) = Append(ctx, IF inner = "raw" THEN "interp" ELSE "code")
      /\ tok = lbrace /\ inner # "raw" => Opened(ctx, tok) = Append(ctx, "code")
      /\ tok = rbrace /\ inner # "raw" /\ ctx # <<>> => Opened(ctx, tok) = Front(ctx)
      /\ tok = rbrace /\ ctx = <<>> => Opened(ctx, tok) = ctx
      /\ tok \notin {"quote", dollar, lbrace, rbrace} => Opened(ctx, tok) = ctx
      /\ tok \notin {"quote", dollar} /\ inner = "raw" => Opened(ctx, tok) = ctx
  BY Zenon DEF Opened, lbrace, rbrace, dollar
<1>. HIDE DEF inner
<1>. QED BY <1>1, <1>2

(* The lexer is in raw text when a string is the innermost construct. *)
LEMMA RawAppend ==
    ASSUME NEW ctx \in Contexts, NEW k \in Constructs
    PROVE  Append(ctx, k) \in Contexts /\ (IsRaw(Append(ctx, k)) <=> k = "raw")
BY SeqAppend DEF IsRaw, Contexts

(* Closing the innermost construct leaves a context one shorter. *)
LEMMA RawFront ==
    ASSUME NEW ctx \in Contexts, ctx # <<>>
    PROVE  /\ Front(ctx) \in Contexts /\ Len(ctx) \in Nat /\ Len(ctx) >= 1
           /\ Last(ctx) = ctx[Len(ctx)] /\ Last(ctx) \in Constructs
           /\ IsRaw(Front(ctx)) <=> Len(ctx) > 1 /\ ctx[Len(ctx) - 1] = "raw"
<1>1. /\ Len(ctx) \in Nat /\ Len(ctx) >= 1 /\ Last(ctx) = ctx[Len(ctx)] /\ Last(ctx) \in Constructs
      /\ Front(ctx) \in Contexts /\ Len(Front(ctx)) = Len(ctx) - 1
      /\ \A i \in 1..(Len(ctx) - 1) : Front(ctx)[i] = ctx[i]
  BY SeqFront DEF Contexts
<1>2. CASE Len(ctx) > 1
  <2>1. Len(Front(ctx)) # 0 /\ Len(ctx) - 1 \in 1..(Len(ctx) - 1)
    BY <1>1, <1>2
  <2>2. Front(ctx) # <<>> /\ Last(Front(ctx)) = ctx[Len(ctx) - 1]
    BY <1>1, <2>1, EmptySeq DEF Last
  <2>. QED BY <1>1, <1>2, <2>2 DEF IsRaw
<1>3. CASE Len(ctx) = 1
  <2>1. Front(ctx) = <<>>
    BY <1>1, <1>3, EmptySeq DEF Contexts
  <2>. QED BY <1>1, <1>3, <2>1 DEF IsRaw
<1>. QED BY <1>1, <1>2, <1>3

(* String content and nothing else lies between a quote and its `${`.      *)
Nested(ctx) == \A i \in 1..Len(ctx) : ctx[i] = "interp" <=> (i > 1 /\ ctx[i - 1] = "raw")

(* A token keeps every interpolation inside a string and every string       *)
(* outside raw text.                                                        *)
LEMMA OpenedNested ==
    ASSUME NEW ctx \in Contexts, NEW tok, Nested(ctx) PROVE Nested(Opened(ctx, tok))
<1>. USE DEF Contexts, Constructs, Nested
<1>1. ASSUME ctx # <<>> PROVE Nested(Front(ctx))
  BY <1>1 DEF Front
<1>2. ASSUME NEW k \in Constructs, k = "interp" <=> IsRaw(ctx) PROVE Nested(Append(ctx, k))
  <2>1. Len(Append(ctx, k)) = Len(ctx) + 1 /\ Append(ctx, k)[Len(ctx) + 1] = k
        /\ \A i \in 1..Len(ctx) : Append(ctx, k)[i] = ctx[i]
    OBVIOUS
  <2>2. IsRaw(ctx) <=> Len(ctx) + 1 > 1 /\ ctx[Len(ctx)] = "raw"
    BY DEF IsRaw, Last
  <2>. QED BY <1>2, <2>1, <2>2
<1>. HIDE DEF Nested
<1>. QED BY <1>1, <1>2, OpenedCases DEF IsRaw

(* So the context of every position of a source is nested. *)
LEMMA ContextNested ==
    ASSUME src \in Seq(Lexemes) PROVE \A p \in 1..EndPos : Nested(Context[p])
<1>. DEFINE S == {p \in 1..EndPos : Nested(Context[p])}
<1>0. EndPos \in Nat
  BY DEF EndPos
<1>1. EndPos >= 1 => 1 \in S
  <2>1. EndPos >= 1 => Context[1] = <<>>
    BY <1>0, ContextRec
  <2>. QED BY <1>0, <2>1 DEF Nested
<1>2. \A p \in 1..EndPos : p \in S /\ p + 1 <= EndPos => p + 1 \in S
  <2>. SUFFICES ASSUME NEW p \in 1..EndPos, p \in S, p + 1 <= EndPos PROVE p + 1 \in S
    OBVIOUS
  <2>1. p + 1 \in 1..EndPos /\ p + 1 # 1 /\ (p + 1) - 1 = p
    BY <1>0
  <2>2. Context[p + 1] = Opened(Context[p], src[p]) /\ Context[p] \in Contexts
    BY <2>1, ContextRec
  <2>. QED BY <2>1, <2>2, OpenedNested
<1>3. 1..EndPos \subseteq S
  <2>. HIDE DEF S
  <2>. QED BY ONLY <1>0, <1>1, <1>2, IntervalInd, Zenon
<1>. QED BY <1>3

(* The number of `${` that are open: up by one behind `${`, down by one     *)
(* behind its `}`.                                                          *)
LEMMA InterpsType ==
    ASSUME NEW ctx \in Contexts
    PROVE  /\ IsFiniteSet({i \in DOMAIN ctx : ctx[i] = "interp"})
           /\ InterpsOf(ctx) \in Nat
<1>1. Len(ctx) \in Nat /\ DOMAIN ctx = 1..Len(ctx)
  BY DEF Contexts
<1>2. IsFiniteSet(1..Len(ctx))
  BY <1>1, FS_Interval
<1>3. IsFiniteSet({i \in DOMAIN ctx : ctx[i] = "interp"})
  BY <1>1, <1>2, FS_Subset
<1>. QED BY <1>3, FS_CardinalityType DEF InterpsOf

(* Opening an interpolation adds one to the count, opening anything else    *)
(* nothing.                                                                 *)
LEMMA InterpsAppend ==
    ASSUME NEW ctx \in Contexts, NEW k \in Constructs
    PROVE  /\ k = "interp" => InterpsOf(Append(ctx, k)) = InterpsOf(ctx) + 1
           /\ k # "interp" => InterpsOf(Append(ctx, k)) = InterpsOf(ctx)
<1>. DEFINE I == {i \in DOMAIN ctx : ctx[i] = "interp"}
            J == {i \in DOMAIN Append(ctx, k) : Append(ctx, k)[i] = "interp"}
<1>1. J = IF k = "interp" THEN I \cup {Len(ctx) + 1} ELSE I
  BY DEF Contexts
<1>2. Len(ctx) + 1 \notin I
  BY DEF Contexts
<1>3. IsFiniteSet(I) /\ Cardinality(I) \in Nat
  BY InterpsType DEF InterpsOf
<1>4. Cardinality(I \cup {Len(ctx) + 1}) = Cardinality(I) + 1
  <2>. HIDE DEF I
  <2>. QED BY <1>2, <1>3, FS_AddElement
<1>5. InterpsOf(ctx) = Cardinality(I) /\ InterpsOf(Append(ctx, k)) = Cardinality(J)
  BY DEF InterpsOf
<1>. HIDE DEF I, J
<1>. QED BY <1>1, <1>3, <1>4, <1>5

(* Closing an interpolation takes one from the count. *)
LEMMA InterpsFront ==
    ASSUME NEW ctx \in Contexts, ctx # <<>>
    PROVE  /\ Last(ctx) = "interp" => InterpsOf(Front(ctx)) = InterpsOf(ctx) - 1
           /\ Last(ctx) # "interp" => InterpsOf(Front(ctx)) = InterpsOf(ctx)
<1>1. Front(ctx) \in Contexts /\ Last(ctx) \in Constructs /\ ctx = Append(Front(ctx), Last(ctx))
  BY SeqFront DEF Contexts
<1>2. InterpsOf(Front(ctx)) \in Nat
  BY <1>1, InterpsType
<1>3. /\ Last(ctx) = "interp" => InterpsOf(ctx) = InterpsOf(Front(ctx)) + 1
      /\ Last(ctx) # "interp" => InterpsOf(ctx) = InterpsOf(Front(ctx))
  BY <1>1, InterpsAppend
<1>. QED BY <1>2, <1>3

(* An interpolation that is open counts. *)
LEMMA InterpsZero ==
    ASSUME NEW ctx \in Contexts, NEW i \in 1..Len(ctx), ctx[i] = "interp" PROVE InterpsOf(ctx) > 0
<1>. DEFINE I == {j \in DOMAIN ctx : ctx[j] = "interp"}
<1>1. I # {}
  BY DEF Contexts
<1>2. IsFiniteSet(I) /\ InterpsOf(ctx) = Cardinality(I) /\ InterpsOf(ctx) \in Nat
  BY InterpsType DEF InterpsOf
<1>. HIDE DEF I
<1>3. Cardinality(I) # 0
  BY <1>1, <1>2, FS_EmptySet
<1>. QED BY <1>2, <1>3

-----------------------------------------------------------------------------
(* The run of markers from p on ends at a token or at the end of the file.  *)
LEMMA RunEndProps ==
    ASSUME src \in Seq(Lexemes), NEW p \in 1..EndPos
    PROVE  /\ RunEnd(p) \in p..EndPos /\ TokenAt(RunEnd(p)) \notin Markers
           /\ \A r \in p..(RunEnd(p) - 1) : src[r] \in Markers
<1>. DEFINE T == {q \in p..EndPos : TokenAt(q) \notin Markers}
            IsEnd(q) == TokenAt(q) \notin Markers /\ \A r \in p..(q - 1) : src[r] \in Markers
<1>0. Len(src) \in Nat /\ EndPos \in Nat /\ EndPos = Len(src) + 1
  BY DEF EndPos
<1>1. TokenAt(EndPos) \notin Markers
  BY <1>0 DEF TokenAt, Markers
<1>2. PICK q \in T : \A x \in T : q <= x
  <2>1. T \in SUBSET Nat /\ T # {}
    BY <1>0, <1>1
  <2>. HIDE DEF T
  <2>. QED BY <2>1, LeastNat
<1>3. IsEnd(q)
  <2>1. ASSUME NEW r \in p..(q - 1) PROVE src[r] \in Markers
    <3>1. r \in p..EndPos /\ r < q /\ r <= Len(src)
      BY <1>0
    <3>2. r \notin T
      BY <1>0, <1>2, <3>1
    <3>3. TokenAt(r) \in Markers
      BY <3>1, <3>2
    <3>. QED BY <1>0, <3>1, <3>3 DEF TokenAt
  <2>. QED BY <2>1
<1>4. RunEnd(p) = CHOOSE x \in p..EndPos : IsEnd(x)
  BY DEF RunEnd
<1>. HIDE DEF IsEnd
<1>5. q \in p..EndPos
  OBVIOUS
<1>6. RunEnd(p) \in p..EndPos /\ IsEnd(RunEnd(p))
  BY <1>3, <1>4, <1>5
<1>. QED BY <1>6 DEF IsEnd

(* Where no marker stands the run of markers is empty. *)
LEMMA RunEndSelf ==
    ASSUME src \in Seq(Lexemes), NEW p \in 1..EndPos, TokenAt(p) \notin Markers
    PROVE  RunEnd(p) = p /\ Run(p) = <<>>
<1>0. Len(src) \in Nat /\ EndPos = Len(src) + 1
  BY DEF EndPos
<1>1. RunEnd(p) = p
  <2>. SUFFICES ASSUME p <= RunEnd(p) - 1 PROVE FALSE
    BY <1>0, RunEndProps
  <2>1. RunEnd(p) \in p..EndPos
    BY RunEndProps
  <2>2. src[p] \in Markers
    BY <1>0, <2>1, RunEndProps
  <2>. QED BY <1>0, <2>1, <2>2 DEF TokenAt
<1>. QED BY <1>0, <1>1 DEF Run

(* A marker opens and closes nothing. *)
LEMMA ContextOverRun ==
    ASSUME src \in Seq(Lexemes), NEW p \in 1..EndPos, NEW q \in p..EndPos,
           \A r \in p..(q - 1) : src[r] \in Markers
    PROVE  Context[q] = Context[p]
<1>. DEFINE S == {k \in Nat : p + k <= q => Context[p + k] = Context[p]}
<1>0. EndPos \in Nat
  BY DEF EndPos
<1>1. 0 \in S
  OBVIOUS
<1>2. ASSUME NEW k \in S PROVE k + 1 \in S
  <2>. SUFFICES ASSUME p + (k + 1) <= q PROVE Context[p + (k + 1)] = Context[p]
    OBVIOUS
  <2>1. /\ p + (k + 1) \in 1..EndPos /\ p + (k + 1) # 1 /\ (p + (k + 1)) - 1 = p + k
        /\ p + k \in p..(q - 1) /\ p + k \in 1..EndPos /\ p + k <= q
    BY <1>0
  <2>2. Context[p + (k + 1)] = Opened(Context[p + k], src[p + k]) /\ Context[p + k] \in Contexts
    BY <2>1, ContextRec
  <2>3. src[p + k] \notin {"quote", dollar, lbrace, rbrace}
    BY <2>1, TokenNames DEF Markers
  <2>4. Opened(Context[p + k], src[p + k]) = Context[p + k]
    BY <2>2, <2>3, OpenedCases
  <2>. QED BY <2>1, <2>2, <2>4
<1>3. S = Nat
  <2>1. S \in SUBSET Nat
    OBVIOUS
  <2>. HIDE DEF S
  <2>. QED BY <1>1, <1>2, <2>1, NatInd
<1>4. q - p \in S /\ p + (q - p) = q
  <2>. HIDE DEF S
  <2>. QED BY <1>0, <1>3
<1>. QED BY <1>4

-----------------------------------------------------------------------------
(* The markers counted over one more position.                              *)
NextMarkers(marks, p) ==
    IF src[p] \in Markers /\ ~IsRaw(Context[p])
    THEN Append(marks, Mark(p, InterpsOf(Context[p]))) ELSE marks

(* The markers counted over one more position are markers. *)
LEMMA NextMarkersType ==
    ASSUME src \in Seq(Lexemes), NEW marks \in Seq(Marks), NEW p \in 1..(EndPos - 1)
    PROVE  NextMarkers(marks, p) \in Seq(Marks)
<1>0. EndPos \in Nat /\ p \in 1..EndPos /\ p \in Nat
  BY DEF EndPos
<1>1. InterpsOf(Context[p]) \in Nat
  BY <1>0, ContextRec, InterpsType
<1>2. Mark(p, InterpsOf(Context[p])) \in Marks
  BY <1>0, <1>1 DEF Mark, Marks
<1>. QED BY <1>2 DEF NextMarkers

(* The markers of a source, position by position. *)
LEMMA MarkersRec ==
    ASSUME src \in Seq(Lexemes)
    PROVE  /\ TrueMarkers \in [1..EndPos -> Seq(Marks)]
           /\ EndPos >= 1 /\ TrueMarkers[1] = <<>>
           /\ \A p \in 1..(EndPos - 1) : TrueMarkers[p + 1] = NextMarkers(TrueMarkers[p], p)
<1>. DEFINE step == [x \in Seq(Marks) \X (1..EndPos) |->
                       IF x[2] = 1 THEN x[1] ELSE NextMarkers(x[1], x[2] - 1)]
            Rec(f) == f = [p \in 1..EndPos |-> IF p = 1 THEN <<>> ELSE NextMarkers(f[p - 1], p - 1)]
<1>0. EndPos \in Nat /\ EndPos >= 1
  BY DEF EndPos
<1>1. step \in [Seq(Marks) \X (1..EndPos) -> Seq(Marks)]
  <2>. SUFFICES ASSUME NEW x \in Seq(Marks) \X (1..EndPos), x[2] # 1
                PROVE  NextMarkers(x[1], x[2] - 1) \in Seq(Marks)
    OBVIOUS
  <2>. QED BY <1>0, NextMarkersType
<1>2. <<>> \in Seq(Marks)
  OBVIOUS
<1>3. PICK f \in [1..EndPos -> Seq(Marks)] : IsRecursive(f, EndPos, <<>>, step)
  <2>. HIDE DEF step
  <2>1. HasRecursive(EndPos, Seq(Marks), <<>>, step)
    BY <1>0, <1>1, <1>2, RecursionExists
  <2>. QED BY <2>1 DEF HasRecursive
<1>4. Rec(f)
  <2>1. ASSUME NEW p \in 1..EndPos, p # 1
        PROVE  step[<<f[p - 1], p>>] = NextMarkers(f[p - 1], p - 1)
    <3>1. f[p - 1] \in Seq(Marks)
      BY <1>0, <2>1
    <3>. QED BY <2>1, <3>1
  <2>2. \A p \in 1..EndPos : f[p] = IF p = 1 THEN <<>> ELSE NextMarkers(f[p - 1], p - 1)
    <3>. HIDE DEF step
    <3>. QED BY <1>3, <2>1 DEF IsRecursive
  <2>. HIDE DEF step
  <2>. QED BY <2>2
<1>5. Rec(TrueMarkers)
  <2>1. TrueMarkers = CHOOSE g : Rec(g)
    BY DEF TrueMarkers, NextMarkers
  <2>. HIDE DEF Rec
  <2>. QED BY <1>4, <2>1
<1>6. /\ TrueMarkers[1] = <<>>
      /\ \A p \in 1..(EndPos - 1) : TrueMarkers[p + 1] = NextMarkers(TrueMarkers[p], p)
  <2>1. TrueMarkers[1] = <<>>
    BY <1>0, <1>5
  <2>2. ASSUME NEW p \in 1..(EndPos - 1) PROVE TrueMarkers[p + 1] = NextMarkers(TrueMarkers[p], p)
    <3>1. p + 1 \in 1..EndPos /\ p + 1 # 1 /\ (p + 1) - 1 = p
      BY <1>0
    <3>. QED BY <1>5, <3>1
  <2>. QED BY <2>1, <2>2
<1>7. \A p \in 1..EndPos : TrueMarkers[p] \in Seq(Marks)
  <2>. DEFINE S == {p \in 1..EndPos : TrueMarkers[p] \in Seq(Marks)}
  <2>1. EndPos >= 1 => 1 \in S
    <3>1. TrueMarkers[1] \in Seq(Marks) /\ 1 \in 1..EndPos
      BY <1>0, <1>2, <1>6
    <3>. QED BY <3>1
  <2>2. \A p \in 1..EndPos : p \in S /\ p + 1 <= EndPos => p + 1 \in S
    <3>. SUFFICES ASSUME NEW p \in 1..EndPos, p \in S, p + 1 <= EndPos PROVE p + 1 \in S
      OBVIOUS
    <3>1. p + 1 \in 1..EndPos /\ p \in 1..(EndPos - 1)
      BY <1>0
    <3>. QED BY <3>1, <1>6, NextMarkersType
  <2>3. 1..EndPos \subseteq S
    <3>. HIDE DEF S
    <3>. QED BY ONLY <1>0, <2>1, <2>2, IntervalInd, Zenon
  <2>. QED BY <2>3
<1>8. TrueMarkers \in [1..EndPos -> Seq(Marks)]
  BY <1>5, <1>7
<1>. QED BY <1>0, <1>6, <1>8

(* Text and tokens are no markers. *)
LEMMA MarkersOverOther ==
    ASSUME src \in Seq(Lexemes), NEW p \in 1..(EndPos - 1),
           src[p] \notin Markers \/ IsRaw(Context[p])
    PROVE  TrueMarkers[p + 1] = TrueMarkers[p]
BY MarkersRec DEF NextMarkers

(* Those of a run outside of a string follow in order, at one depth. *)
LEMMA MarkersOverRun ==
    ASSUME src \in Seq(Lexemes), NEW p \in 1..EndPos, NEW q \in p..EndPos,
           ~IsRaw(Context[p]), \A r \in p..(q - 1) : src[r] \in Markers
    PROVE  TrueMarkers[q] = TrueMarkers[p] \o
              [i \in 1..(q - p) |-> Mark(p + i - 1, InterpsOf(Context[p]))]
<1>. DEFINE d == InterpsOf(Context[p])
            found(k) == [i \in 1..k |-> Mark(p + i - 1, d)]
            S == {k \in Nat : p + k <= q => TrueMarkers[p + k] = TrueMarkers[p] \o found(k)}
<1>0. EndPos \in Nat /\ p \in Nat /\ q \in Nat /\ TrueMarkers[p] \in Seq(Marks)
  BY MarkersRec DEF EndPos
<1>1. 0 \in S
  <2>1. found(0) = <<>> /\ p + 0 = p
    OBVIOUS
  <2>2. TrueMarkers[p] \o <<>> = TrueMarkers[p]
    BY <1>0
  <2>. HIDE DEF found
  <2>. QED BY <1>0, <2>1, <2>2
<1>2. ASSUME NEW k \in S PROVE k + 1 \in S
  <2>0. k \in Nat /\ (p + k <= q => TrueMarkers[p + k] = TrueMarkers[p] \o found(k))
    OBVIOUS
  <2>. SUFFICES ASSUME p + (k + 1) <= q PROVE TrueMarkers[p + (k + 1)] = TrueMarkers[p] \o found(k + 1)
    <3>1. k + 1 \in Nat
      BY <2>0
    <3>. HIDE DEF found
    <3>. QED BY <3>1
  <2>1. /\ p + k \in 1..(EndPos - 1) /\ (p + k) + 1 = p + (k + 1)
        /\ p + k \in p..(q - 1) /\ p + k \in p..EndPos /\ p + k <= q
    BY <1>0, <2>0
  <2>2. Context[p + k] = Context[p]
    BY <2>1, ContextOverRun
  <2>3. TrueMarkers[p + (k + 1)] = Append(TrueMarkers[p + k], Mark(p + k, d))
    BY <2>1, <2>2, MarkersRec DEF NextMarkers
  <2>4. TrueMarkers[p + k] = TrueMarkers[p] \o found(k)
    BY <2>0, <2>1
  <2>5. d \in Nat
    BY ContextRec, InterpsType
  <2>. HIDE DEF d
  <2>6. \A i \in 1..(k + 1) : Mark(p + i - 1, d) \in Marks
    BY <1>0, <2>0, <2>5 DEF Mark, Marks
  <2>7. /\ found(k) \in Seq(Marks) /\ Len(found(k)) = k /\ Mark(p + k, d) \in Marks
        /\ found(k + 1) \in Seq(Marks) /\ Len(found(k + 1)) = k + 1
        /\ \A i \in 1..k : found(k + 1)[i] = found(k)[i]
        /\ found(k + 1)[k + 1] = Mark(p + k, d)
    <3>1. k + 1 \in Nat /\ p + (k + 1) - 1 = p + k
      BY <1>0, <2>0
    <3>2. found(k) \in Seq(Marks) /\ found(k + 1) \in Seq(Marks)
      <4>0. \A i \in 1..k : i \in 1..(k + 1)
        BY <2>0
      <4>1. found(k) \in [1..k -> Marks] /\ found(k + 1) \in [1..(k + 1) -> Marks]
        BY <2>6, <4>0, Zenon
      <4>. HIDE DEF found
      <4>. QED BY <2>0, <3>1, <4>1, SeqDef
    <3>3. Len(found(k)) = k /\ Len(found(k + 1)) = k + 1
      BY <2>0, <3>1
    <3>4. \A i \in 1..k : found(k + 1)[i] = found(k)[i]
      BY <2>0
    <3>5. found(k + 1)[k + 1] = Mark(p + (k + 1) - 1, d)
      BY <2>0, <3>1
    <3>6. Mark(p + k, d) \in Marks
      <4>1. k + 1 \in 1..(k + 1)
        BY <2>0
      <4>. QED BY <2>6, <3>1, <4>1
    <3>. HIDE DEF found
    <3>. QED BY <3>1, <3>2, <3>3, <3>4, <3>5, <3>6
  <2>. HIDE DEF found
  <2>8. found(k + 1) = Append(found(k), Mark(p + k, d))
    <3>1. /\ Append(found(k), Mark(p + k, d)) \in Seq(Marks)
          /\ Len(Append(found(k), Mark(p + k, d))) = k + 1
          /\ \A i \in 1..(k + 1) : found(k + 1)[i] = Append(found(k), Mark(p + k, d))[i]
      BY <2>0, <2>7, AppendProperties
    <3>. QED BY <2>7, <3>1, SeqEqual
  <2>9. Append(TrueMarkers[p] \o found(k), Mark(p + k, d)) =
          TrueMarkers[p] \o Append(found(k), Mark(p + k, d))
    <3>1. TrueMarkers[p] \in Seq(Marks) /\ found(k) \in Seq(Marks) /\ Mark(p + k, d) \in Marks
      BY <1>0, <2>7
    <3>2. Mark(p + k, d) \in Marks
      BY <3>1
    <3>. DEFINE m == Mark(p + k, d)   a == TrueMarkers[p]   b == found(k)
    <3>. HIDE DEF d, m, a, b
    <3>3. a \in Seq(Marks) /\ b \in Seq(Marks) /\ m \in Marks
      BY <3>1 DEF a, b, m
    <3>4. Append(a \o b, m) = a \o Append(b, m)
      BY ONLY <3>3
    <3>. QED BY <3>4 DEF m, a, b
  <2>. QED BY <2>3, <2>4, <2>8, <2>9
<1>3. S = Nat
  <2>1. S \in SUBSET Nat
    OBVIOUS
  <2>. HIDE DEF S
  <2>. QED BY <1>1, <1>2, <2>1, NatInd
<1>4. q - p \in S /\ p + (q - p) = q
  <2>. HIDE DEF S
  <2>. QED BY <1>0, <1>3
<1>5. \A k \in S : p + k <= q => TrueMarkers[p + k] = TrueMarkers[p] \o found(k)
  OBVIOUS
<1>6. TrueMarkers[q] = TrueMarkers[p] \o found(q - p)
  <2>. HIDE DEF S, found
  <2>1. p + (q - p) <= q
    BY <1>0, <1>4
  <2>. QED BY <1>4, <1>5, <2>1
<1>. QED BY <1>6

-----------------------------------------------------------------------------
(* The lexer moved, its buffer, start or depth changed.                     *)
IsLexer(m, p, b, k, r, d) ==
    /\ m \in LexerStates
    /\ m.pos = p /\ m.buffer = b /\ m.start = k /\ m.recorded = r /\ m.depth = d

(* The lexer after its position and its trivia buffer are set. *)
LEMMA MovedTo ==
    ASSUME NEW l \in LexerStates, NEW p \in 1..EndPos, NEW b \in Seq(Nat)
    PROVE  IsLexer([l EXCEPT !.pos = p, !.buffer = b], p, b, l.start, l.recorded, l.depth)
BY DEF LexerStates, IsLexer

(* The lexer after the start of its token is set. *)
LEMMA StartsAt ==
    ASSUME NEW l \in LexerStates, NEW k \in Nat
    PROVE  IsLexer([l EXCEPT !.start = k], l.pos, l.buffer, k, l.recorded, l.depth)
BY DEF LexerStates, IsLexer

(* The lexer after it has entered an interpolation. *)
LEMMA MovedDeeper ==
    ASSUME NEW l \in LexerStates, NEW p \in 1..EndPos, NEW d \in Nat
    PROVE  IsLexer([l EXCEPT !.pos = p, !.depth = d], p, l.buffer, l.start, l.recorded, d)
BY DEF LexerStates, IsLexer

(* The lexer after it has left an interpolation. *)
LEMMA MovedShallower ==
    ASSUME NEW l \in LexerStates, NEW p \in 1..EndPos, NEW b \in Seq(Nat), NEW d \in Nat
    PROVE  IsLexer([l EXCEPT !.pos = p, !.buffer = b, !.depth = d], p, b, l.start, l.recorded, d)
BY DEF LexerStates, IsLexer

(* The fields of a lexer have their types. *)
LEMMA LexerType ==
    ASSUME NEW l \in LexerStates
    PROVE  /\ l.pos \in 1..EndPos /\ l.buffer \in Seq(Nat) /\ l.start \in Nat
           /\ l.recorded \in Seq(Marks) /\ l.depth \in Nat
BY DEF LexerStates

(* The empty sequence holds no marker. *)
LEMMA NoMarkers == <<>> \in Seq(Nat) /\ <<>> \in Seq(Marks)
OBVIOUS

(* What `parse_trivia` records are the markers that are there.              *)
LEMMA RunReal ==
    ASSUME src \in Seq(Lexemes), NEW l \in LexerStates, Faithful(l), ~IsRaw(Context[l.pos])
    PROVE  /\ RunEnd(l.pos) \in l.pos..EndPos /\ RunEnd(l.pos) \in 1..EndPos
           /\ TokenAt(RunEnd(l.pos)) \notin Markers
           /\ Run(l.pos) \in Seq(Nat)
           /\ Record(l, Run(l.pos)) = TrueMarkers[RunEnd(l.pos)]
           /\ Record(l, Run(l.pos)) \in Seq(Marks)
           /\ Context[RunEnd(l.pos)] = Context[l.pos]
<1>0. EndPos \in Nat /\ l.pos \in 1..EndPos
  BY DEF EndPos, LexerStates
<1>. DEFINE q == RunEnd(l.pos)
<1>1. /\ q \in l.pos..EndPos /\ q \in 1..EndPos /\ TokenAt(q) \notin Markers
      /\ \A r \in l.pos..(q - 1) : src[r] \in Markers
  BY <1>0, RunEndProps
<1>2. Run(l.pos) = [i \in 1..(q - l.pos) |-> l.pos + i - 1]
  BY DEF Run
<1>. HIDE DEF q
<1>3. Run(l.pos) \in Seq(Nat)
  <2>1. q - l.pos \in Nat /\ \A i \in 1..(q - l.pos) : l.pos + i - 1 \in Nat
    BY <1>0, <1>1
  <2>. QED BY <1>2, <2>1
<1>4. Record(l, Run(l.pos)) = l.recorded \o [i \in 1..(q - l.pos) |-> Mark(l.pos + i - 1, l.depth)]
  <2>1. DOMAIN Run(l.pos) = 1..(q - l.pos) /\ \A i \in 1..(q - l.pos) : Run(l.pos)[i] = l.pos + i - 1
    BY <1>2
  <2>2. [i \in DOMAIN Run(l.pos) |-> Mark(Run(l.pos)[i], l.depth)] =
          [i \in 1..(q - l.pos) |-> Mark(l.pos + i - 1, l.depth)]
    BY <2>1
  <2>. QED BY <2>2 DEF Record
<1>5. Record(l, Run(l.pos)) = TrueMarkers[q]
  BY <1>0, <1>1, <1>4, MarkersOverRun DEF Faithful
<1>6. Context[q] = Context[l.pos]
  BY <1>0, <1>1, ContextOverRun
<1>. QED BY <1>1, <1>3, <1>5, <1>6, MarkersRec DEF q

(* Reading the trivia of code keeps the recorded markers those of the       *)
(* source.                                                                  *)
LEMMA ReadTriviaReal ==
    ASSUME src \in Seq(Lexemes), NEW l \in LexerStates, Faithful(l), ~IsRaw(Context[l.pos])
    PROVE  /\ ReadTrivia(l) \in LexerStates /\ Faithful(ReadTrivia(l))
           /\ ReadTrivia(l).pos = RunEnd(l.pos) /\ ReadTrivia(l).buffer = Run(l.pos)
           /\ ReadTrivia(l).depth = l.depth /\ Context[RunEnd(l.pos)] = Context[l.pos]
           /\ TokenAt(RunEnd(l.pos)) \notin Markers
<1>1. l.pos \in Nat
  BY DEF LexerStates, EndPos
<1>. QED BY <1>1, RunReal DEF ReadTrivia, LexerStates, Faithful

(* So does reading it again from the start of the token. *)
LEMMA SyncTriviaReal ==
    ASSUME src \in Seq(Lexemes), NEW l \in LexerStates, Faithful(l), ~IsRaw(Context[l.pos])
    PROVE  /\ SyncTrivia(l) \in LexerStates /\ Faithful(SyncTrivia(l))
           /\ SyncTrivia(l).pos = RunEnd(l.pos) /\ SyncTrivia(l).buffer = l.buffer \o Run(l.pos)
           /\ SyncTrivia(l).depth = l.depth /\ Context[RunEnd(l.pos)] = Context[l.pos]
           /\ TokenAt(RunEnd(l.pos)) \notin Markers
<1>1. l.pos \in Nat
  BY DEF LexerStates, EndPos
<1>2. l.buffer \o Run(l.pos) \in Seq(Nat)
  BY RunReal DEF LexerStates
<1>. QED BY <1>1, <1>2, RunReal DEF SyncTrivia, LexerStates, Faithful

(* Behind a token that is not deferred the source goes on outside of any    *)
(* string, at the same depth.                                               *)
LEMMA BehindToken ==
    ASSUME src \in Seq(Lexemes), NEW c \in 1..(EndPos - 1), ~IsRaw(Context[c]),
           ~Defers(src[c], InterpsOf(Context[c]))
    PROVE  ~IsRaw(Context[c + 1]) /\ InterpsOf(Context[c + 1]) = InterpsOf(Context[c])
<1>. DEFINE ctx == Context[c]
<1>0. /\ EndPos \in Nat /\ c \in 1..EndPos /\ c + 1 \in 1..EndPos /\ c + 1 # 1 /\ (c + 1) - 1 = c
  BY DEF EndPos
<1>1. ctx \in Contexts /\ Nested(ctx) /\ Context[c + 1] = Opened(ctx, src[c])
  BY <1>0, ContextRec, ContextNested
<1>. HIDE DEF ctx
<1>2. src[c] # "quote"
  BY DEF Defers
<1>3. CASE src[c] \notin {dollar, lbrace, rbrace}
  BY <1>1, <1>2, <1>3, OpenedCases DEF ctx
<1>4. CASE src[c] \in {dollar, lbrace}
  <2>1. Opened(ctx, src[c]) = Append(ctx, "code")
    BY <1>1, <1>4, OpenedCases DEF ctx
  <2>2. InterpsOf(Append(ctx, "code")) = InterpsOf(ctx)
    BY <1>1, InterpsAppend, InterpsType DEF Constructs
  <2>3. ~IsRaw(Append(ctx, "code"))
    BY <1>1, RawAppend DEF Constructs
  <2>. QED BY <1>1, <2>1, <2>2, <2>3 DEF ctx
<1>5. CASE src[c] = rbrace /\ ctx = <<>>
  BY <1>1, <1>5, OpenedCases DEF ctx, IsRaw
<1>6. CASE src[c] = rbrace /\ ctx # <<>>
  <2>1. Opened(ctx, src[c]) = Front(ctx)
    BY <1>1, <1>6, OpenedCases DEF ctx
  <2>2. Len(ctx) \in Nat /\ Len(ctx) >= 1 /\ Last(ctx) = ctx[Len(ctx)]
    BY <1>1, <1>6, RawFront
  <2>3. InterpsOf(ctx) = 0
    <3>1. InterpsOf(ctx) \in Nat
      BY <1>1, InterpsType
    <3>2. ~(InterpsOf(ctx) > 0)
      BY <1>6, DefersCases DEF ctx
    <3>. QED BY <3>1, <3>2
  <2>4. ctx[Len(ctx)] # "interp"
    BY <1>1, <2>2, <2>3, InterpsZero
  <2>5. InterpsOf(Front(ctx)) = InterpsOf(ctx)
    BY <1>1, <1>6, <2>2, <2>3, <2>4, InterpsFront
  <2>6. ~IsRaw(Front(ctx))
    <3>1. Len(ctx) > 1 => ctx[Len(ctx) - 1] # "raw"
      BY <1>1, <2>2, <2>4 DEF Nested
    <3>. QED BY <1>1, <1>6, <3>1, RawFront
  <2>. QED BY <1>1, <2>1, <2>5, <2>6 DEF ctx
<1>. QED BY <1>3, <1>4, <1>5, <1>6

(* One lexeme: the lexer stands at the next token and has read what it may  *)
(* behind it.                                                               *)
LEMMA LexemeReal ==
    ASSUME src \in Seq(Lexemes), NEW l \in LexerStates, Faithful(l), ~IsRaw(Context[l.pos])
    PROVE  /\ Lexeme(l).lexer \in LexerStates /\ Lexeme(l).current \in Cursors
           /\ Lexeme(l).current.pre = l.buffer \o Run(l.pos)
           /\ StandsAt(Lexeme(l).lexer, Lexeme(l).current, RunEnd(l.pos), Context[l.pos])
<1>. DEFINE synced == SyncTrivia(l)
            c      == RunEnd(l.pos)
            tok    == TokenAt(c)
            after  == Consume(synced)
            next   == IF Defers(tok, l.depth) THEN [after EXCEPT !.start = after.pos]
                                              ELSE ReadTrivia(after)
            ctx    == Context[l.pos]
<1>0. Len(src) \in Nat /\ EndPos = Len(src) + 1 /\ EndPos \in Nat
  BY DEF EndPos
<1>1. /\ synced \in LexerStates /\ Faithful(synced) /\ synced.pos = c
      /\ synced.buffer = l.buffer \o Run(l.pos) /\ synced.depth = l.depth
      /\ Context[c] = ctx /\ tok \notin Markers /\ c \in 1..EndPos
  BY SyncTriviaReal, RunReal
<1>2. Lexeme(l).current = [tok |-> tok, pre |-> synced.buffer] /\ Lexeme(l).lexer = next
  BY <1>1 DEF Lexeme
<1>3. Lexeme(l).current \in Cursors
  <2>1. tok \in Tokens \cup {"eof"}
    <3>. HIDE DEF c
    <3>1. CASE c > Len(src)
      BY <3>1 DEF TokenAt
    <3>2. CASE c <= Len(src)
      <4>1. src[c] \in Lexemes
        BY <1>0, <1>1, <3>2
      <4>. QED BY <1>0, <1>1, <3>2, <4>1 DEF TokenAt, Lexemes
    <3>. QED BY <1>0, <1>1, <3>1, <3>2
  <2>2. synced.buffer \in Seq(Nat)
    BY <1>1 DEF LexerStates
  <2>. HIDE DEF synced, tok
  <2>. QED BY <1>2, <2>1, <2>2 DEF Cursors
<1>. HIDE DEF synced, c
<1>6. Lexeme(l).current.pre = l.buffer \o Run(l.pos) /\ Lexeme(l).current.tok = tok
  <2>1. Lexeme(l).current.pre = synced.buffer /\ Lexeme(l).current.tok = tok
    <3>. HIDE DEF synced, tok
    <3>. QED BY <1>2
  <2>. HIDE DEF synced, tok
  <2>. QED BY <1>1, <2>1
<1>7. ~IsRaw(ctx) /\ tok = TokenAt(c)
  OBVIOUS
<1>4. CASE c = EndPos
  <2>1. tok = "eof" /\ ~Defers(tok, l.depth)
    <3>1. c > Len(src)
      BY <1>0, <1>4
    <3>2. TokenAt(c) = "eof"
      BY <3>1 DEF TokenAt
    <3>. QED BY <3>2 DEF Defers
  <2>2. after = [synced EXCEPT !.buffer = <<>>]
    BY <1>1, <1>4 DEF Consume, LexerStates
  <2>. HIDE DEF after
  <2>3. after \in LexerStates /\ Faithful(after) /\ after.pos = c /\ after.depth = l.depth
    <3>1. after = [synced EXCEPT !.pos = synced.pos, !.buffer = <<>>] /\ synced.pos \in 1..EndPos
      BY <1>1, <2>2
    <3>2. after \in LexerStates /\ after.pos = c /\ after.recorded = synced.recorded
          /\ after.depth = l.depth
      <4>1. IsLexer(after, synced.pos, <<>>, synced.start, synced.recorded, synced.depth)
        BY <1>1, <3>1, MovedTo, NoMarkers, Zenon
      <4>. QED BY <1>1, <4>1 DEF IsLexer
    <3>. QED BY <1>1, <3>2 DEF Faithful
  <2>4. RunEnd(c) = c /\ Run(c) = <<>>
    BY <1>1, RunEndSelf
  <2>5. /\ ReadTrivia(after) \in LexerStates /\ Faithful(ReadTrivia(after))
        /\ ReadTrivia(after).pos = c /\ ReadTrivia(after).buffer = <<>>
        /\ ReadTrivia(after).depth = l.depth
    <3>. HIDE DEF after
    <3>. QED BY <1>1, <2>3, <2>4, ReadTriviaReal
  <2>6. next = ReadTrivia(after)
    BY <2>1 DEF after
  <2>. HIDE DEF next, after, tok
  <2>7. next.recorded = TrueMarkers[next.pos] /\ next.depth = InterpsOf(ctx)
    BY <2>5, <2>6, <1>1 DEF Faithful
  <2>8. ReadBehind(next, tok, c)
    BY <2>1, <2>5, <2>6 DEF ReadBehind
  <2>. QED BY <1>1, <1>2, <1>3, <1>6, <1>7, <2>5, <2>6, <2>7, <2>8 DEF StandsAt, c
<1>5. CASE c # EndPos
  <2>0. c \in 1..(EndPos - 1) /\ c + 1 \in 1..EndPos /\ tok = src[c] /\ tok # "eof" /\ src[c] \notin Markers
    <3>1. c <= Len(src) /\ c \in 1..Len(src)
      BY <1>0, <1>1, <1>5
    <3>2. tok = src[c] /\ src[c] \in Lexemes
      BY <1>0, <3>1 DEF TokenAt
    <3>3. tok \in Tokens /\ tok # "eof"
      <4>. HIDE DEF tok
      <4>1. tok \in Tokens
        BY <1>1, <3>2 DEF Lexemes
      <4>. QED BY <4>1 DEF Tokens
    <3>. QED BY <1>0, <1>1, <3>1, <3>2, <3>3
  <2>1. after = [synced EXCEPT !.pos = c + 1, !.buffer = <<>>]
    BY <1>1, <1>5 DEF Consume
  <2>. HIDE DEF after
  <2>2. /\ after \in LexerStates /\ after.pos = c + 1 /\ after.buffer = <<>>
        /\ after.depth = InterpsOf(ctx) /\ l.depth = InterpsOf(ctx)
        /\ after.recorded = TrueMarkers[c]
    <3>1. /\ after \in LexerStates /\ after.pos = c + 1 /\ after.buffer = <<>>
          /\ after.recorded = synced.recorded /\ after.depth = l.depth
      <4>1. IsLexer(after, c + 1, <<>>, synced.start, synced.recorded, synced.depth)
        BY <1>1, <2>0, <2>1, MovedTo, NoMarkers, Zenon
      <4>. QED BY <1>1, <4>1 DEF IsLexer
    <3>. QED BY <1>1, <3>1 DEF Faithful
  <2>3. TrueMarkers[c + 1] = TrueMarkers[c]
    BY <2>0, MarkersOverOther
  <2>. HIDE DEF after, tok
  <2>4. CASE Defers(tok, l.depth)
    <3>1. next = [after EXCEPT !.start = after.pos]
      BY <2>4 DEF after
    <3>. HIDE DEF next
    <3>2. /\ next \in LexerStates /\ next.pos = after.pos /\ next.start = after.pos
          /\ next.buffer = after.buffer /\ next.recorded = after.recorded /\ next.depth = after.depth
      <4>1. after.pos \in Nat
        BY <1>0, <2>0, <2>2
      <4>2. IsLexer(next, after.pos, after.buffer, after.pos, after.recorded, after.depth)
        BY <2>2, <3>1, <4>1, StartsAt, Zenon
      <4>. QED BY <4>2 DEF IsLexer
    <3>3. /\ next.recorded = TrueMarkers[next.pos] /\ next.depth = InterpsOf(ctx)
          /\ next.pos = c + 1 /\ next.start = c + 1 /\ next.buffer = <<>>
      BY <2>2, <2>3, <3>2
    <3>4. ReadBehind(next, tok, c)
      BY <2>2, <2>4, <3>3 DEF ReadBehind
    <3>. QED BY <1>1, <1>2, <1>3, <1>6, <1>7, <3>2, <3>3, <3>4 DEF StandsAt, c
  <2>5. CASE ~Defers(tok, l.depth)
    <3>1. next = ReadTrivia(after)
      BY <2>5 DEF after
    <3>2. ~IsRaw(Context[c + 1]) /\ InterpsOf(Context[c + 1]) = InterpsOf(ctx)
      BY <1>1, <2>0, <2>2, <2>5, BehindToken
    <3>3. Faithful(after)
      BY <2>2, <2>3, <3>2 DEF Faithful
    <3>4. /\ next \in LexerStates /\ next.recorded = TrueMarkers[next.pos]
          /\ next.depth = InterpsOf(ctx) /\ next.pos = RunEnd(c + 1) /\ next.buffer = Run(c + 1)
      BY <2>2, <3>1, <3>2, <3>3, ReadTriviaReal DEF Faithful
    <3>. HIDE DEF next
    <3>5. ReadBehind(next, tok, c)
      BY <2>0, <2>2, <2>5, <3>4 DEF ReadBehind
    <3>. QED BY <1>1, <1>2, <1>3, <1>6, <1>7, <3>4, <3>5 DEF StandsAt, c
  <2>. QED BY <2>4, <2>5
<1>. QED BY <1>3, <1>4, <1>5, <1>6 DEF c

-----------------------------------------------------------------------------
(* Opening and closing a construct changes its shape like the source does.  *)
LEMMA ShapeType ==
    ASSUME NEW st \in Seq(Frames) PROVE Shape(st) \in Contexts /\ Len(Shape(st)) = Len(st)
BY DEF Shape, Sort, Contexts, Constructs

(* A frame that is pushed opens one construct. *)
LEMMA ShapeAppend ==
    ASSUME NEW st \in Seq(Frames), NEW f \in Frames
    PROVE  Shape(Append(st, f)) = Append(Shape(st), Sort(f.kind))
<1>1. Shape(st) \in Contexts /\ Len(Shape(st)) = Len(st)
  BY ShapeType
<1>2. Sort(f.kind) \in Constructs
  BY DEF Sort, Constructs
<1>3. /\ Append(st, f) \in Seq(Frames) /\ Len(st) \in Nat /\ Len(Append(st, f)) = Len(st) + 1
      /\ \A i \in 1..Len(st) : Append(st, f)[i] = st[i]
      /\ Append(st, f)[Len(st) + 1] = f
  BY SeqAppend
<1>4. Shape(Append(st, f)) \in Contexts /\ Len(Shape(Append(st, f))) = Len(st) + 1
  BY <1>3, ShapeType
<1>. DEFINE t == Append(Shape(st), Sort(f.kind))
<1>5. /\ t \in Contexts /\ Len(t) = Len(st) + 1 /\ t[Len(st) + 1] = Sort(f.kind)
      /\ \A i \in 1..Len(st) : t[i] = Shape(st)[i]
  BY <1>1, <1>2, SeqAppend DEF Contexts
<1>6. \A i \in 1..(Len(st) + 1) : Shape(Append(st, f))[i] = t[i]
  <2>. HIDE DEF t
  <2>. QED BY <1>1, <1>3, <1>5 DEF Shape
<1>. HIDE DEF t
<1>. QED BY <1>3, <1>4, <1>5, <1>6, SeqEqual DEF Contexts, t

(* A frame that is pushed comes last and moves no other. *)
LEMMA StackAppend ==
    ASSUME NEW st \in Seq(Frames), NEW f \in Frames
    PROVE  /\ Append(st, f) \in Seq(Frames) /\ Len(st) \in Nat /\ Len(Append(st, f)) = Len(st) + 1
           /\ \A i \in 1..Len(st) : Append(st, f)[i] = st[i]
           /\ Append(st, f)[Len(st) + 1] = f
BY SeqAppend

(* The first frames give the first constructs. *)
LEMMA ShapeSub ==
    ASSUME NEW st \in Seq(Frames), NEW k \in 0..Len(st)
    PROVE  Shape(SubSeq(st, 1, k)) = SubSeq(Shape(st), 1, k)
<1>1. Shape(st) \in Contexts /\ Len(Shape(st)) = Len(st)
  BY ShapeType
<1>2. SubSeq(st, 1, k) \in Seq(Frames) /\ Len(SubSeq(st, 1, k)) = k
  OBVIOUS
<1>3. Shape(SubSeq(st, 1, k)) \in Contexts /\ Len(Shape(SubSeq(st, 1, k))) = k
  BY <1>2, ShapeType
<1>4. \A i \in 1..k : Shape(SubSeq(st, 1, k))[i] = SubSeq(Shape(st), 1, k)[i]
  BY <1>1, <1>2 DEF Shape, Contexts
<1>. QED BY <1>1, <1>3, <1>4 DEF Contexts

(* A frame that is popped closes one construct. *)
LEMMA ShapeFront ==
    ASSUME NEW st \in Seq(Frames), st # <<>>
    PROVE  /\ Front(st) \in Seq(Frames) /\ Last(st) \in Frames
           /\ Shape(st) # <<>> /\ Shape(Front(st)) = Front(Shape(st))
           /\ Last(Shape(st)) = Sort(Last(st).kind)
<1>1. Shape(st) \in Contexts /\ Len(Shape(st)) = Len(st) /\ Len(st) - 1 \in 0..Len(st) /\ Len(st) >= 1
  BY ShapeType
<1>2. Front(st) \in Seq(Frames) /\ Last(st) \in Frames
  BY <1>1 DEF Front, Last
<1>3. Shape(Front(st)) = Front(Shape(st))
  BY <1>1, ShapeSub DEF Front
<1>4. Last(Shape(st)) = Sort(Last(st).kind)
  BY <1>1 DEF Last, Shape
<1>. QED BY <1>1, <1>2, <1>3, <1>4

(* The context a cursor stands in, and the one behind its token. *)
LEMMA PastToken ==
    ASSUME src \in Seq(Lexemes), NEW l \in LexerStates, NEW cur \in Cursors, NEW c, NEW ctx,
           StandsAt(l, cur, c, ctx), cur.tok # "eof"
    PROVE  /\ c \in 1..(EndPos - 1) /\ cur.tok = src[c] /\ src[c] \in Tokens
           /\ ctx \in Contexts /\ Nested(ctx)
           /\ Context[l.pos] = Opened(ctx, cur.tok) /\ Context[c + 1] = Opened(ctx, cur.tok)
<1>0. Len(src) \in Nat /\ EndPos = Len(src) + 1 /\ EndPos \in Nat
  BY DEF EndPos
<1>1. /\ c \in 1..EndPos /\ cur.tok = TokenAt(c) /\ cur.tok \notin Markers
      /\ Context[c] = ctx /\ ReadBehind(l, cur.tok, c)
  BY DEF StandsAt
<1>2. c \in 1..Len(src) /\ cur.tok = src[c] /\ src[c] \in Tokens
  <2>1. c <= Len(src)
    BY <1>0, <1>1 DEF TokenAt
  <2>. QED BY <1>0, <1>1, <2>1 DEF TokenAt, Lexemes
<1>3. c + 1 \in 1..EndPos /\ c + 1 # 1 /\ (c + 1) - 1 = c
  BY <1>0, <1>2
<1>4. ctx \in Contexts /\ Nested(ctx) /\ Context[c + 1] = Opened(ctx, cur.tok)
  BY <1>1, <1>2, <1>3, ContextRec, ContextNested
<1>5. Context[l.pos] = Context[c + 1]
  <2>1. CASE l.pos = c + 1
    BY <2>1
  <2>2. CASE l.pos = RunEnd(c + 1)
    BY <1>3, <2>2, RunEndProps, ContextOverRun
  <2>. QED BY <1>1, <2>1, <2>2 DEF ReadBehind
<1>. QED BY <1>0, <1>2, <1>4, <1>5

(* Reading on in code. *)
LEMMA AdvanceReal ==
    ASSUME src \in Seq(Lexemes), NEW l \in LexerStates, NEW st \in Seq(Frames),
           Faithful(l), Context[l.pos] = Shape(st), ~IsRaw(Shape(st))
    PROVE  /\ Lexeme(l).lexer \in LexerStates /\ Lexeme(l).current \in Cursors
           /\ AtToken(Lexeme(l).lexer, Lexeme(l).current, st)
<1>1. RunEnd(l.pos) \in 1..EndPos
  BY RunReal
<1>. QED BY <1>1, LexemeReal DEF AtToken

(* Taking a token that leads to other constructs in code, at one depth.     *)
LEMMA CodeStep ==
    ASSUME src \in Seq(Lexemes), NEW l \in LexerStates, NEW cur \in Cursors,
           NEW st \in Seq(Frames), NEW st2 \in Seq(Frames), AtToken(l, cur, st), cur.tok # "eof",
           Shape(st2) = Opened(Shape(st), cur.tok), ~IsRaw(Shape(st2)),
           InterpsOf(Shape(st2)) = InterpsOf(Shape(st))
    PROVE  /\ Lexeme(l).lexer \in LexerStates /\ Lexeme(l).current \in Cursors
           /\ AtToken(Lexeme(l).lexer, Lexeme(l).current, st2)
<1>1. PICK c \in 1..EndPos : StandsAt(l, cur, c, Shape(st))
  BY DEF AtToken
<1>2. Context[l.pos] = Shape(st2)
  BY <1>1, PastToken
<1>3. Faithful(l)
  BY <1>1, <1>2 DEF StandsAt, Faithful
<1>. QED BY <1>2, <1>3, AdvanceReal

(* A token that opens and closes nothing leads to the next token of the     *)
(* same constructs.                                                         *)
LEMMA PlainStep ==
    ASSUME src \in Seq(Lexemes), NEW l \in LexerStates, NEW cur \in Cursors,
           NEW st \in Seq(Frames), AtToken(l, cur, st),
           cur.tok \in plain
    PROVE  /\ Lexeme(l).lexer \in LexerStates /\ Lexeme(l).current \in Cursors
           /\ AtToken(Lexeme(l).lexer, Lexeme(l).current, st)
<1>1. Shape(st) \in Contexts /\ ~IsRaw(Shape(st))
  BY ShapeType DEF AtToken, StandsAt
<1>2. Opened(Shape(st), cur.tok) = Shape(st) /\ cur.tok # "eof"
  BY <1>1, OpenedCases, TokenNames
<1>. QED BY <1>1, <1>2, CodeStep

(* A brace, and the `${` of a selector, lead to the first token of one more *)
(* construct.                                                               *)
LEMMA PushStep ==
    ASSUME src \in Seq(Lexemes), NEW l \in LexerStates, NEW cur \in Cursors,
           NEW st \in Seq(Frames), AtToken(l, cur, st), cur.tok \in {lbrace, dollar},
           NEW f \in Frames, Sort(f.kind) = "code"
    PROVE  /\ Lexeme(l).lexer \in LexerStates /\ Lexeme(l).current \in Cursors
           /\ AtToken(Lexeme(l).lexer, Lexeme(l).current, Append(st, f))
<1>1. Shape(st) \in Contexts /\ ~IsRaw(Shape(st))
  BY ShapeType DEF AtToken, StandsAt
<1>2. Opened(Shape(st), cur.tok) = Append(Shape(st), "code") /\ cur.tok # "eof"
  BY <1>1, OpenedCases, TokenNames
<1>3. Append(st, f) \in Seq(Frames) /\ Shape(Append(st, f)) = Append(Shape(st), "code")
  <2>1. Append(st, f) \in Seq(Frames)
    BY StackAppend
  <2>2. Shape(Append(st, f)) = Append(Shape(st), Sort(f.kind))
    BY ShapeAppend
  <2>. QED BY <2>1, <2>2
<1>4. InterpsOf(Append(Shape(st), "code")) = InterpsOf(Shape(st))
  BY <1>1, InterpsAppend DEF Constructs
<1>5. ~IsRaw(Append(Shape(st), "code"))
  BY <1>1, RawAppend DEF Constructs
<1>. QED BY <1>2, <1>3, <1>4, <1>5, CodeStep

(* A closing brace of code leads to the token behind the construct it       *)
(* closes.                                                                  *)
LEMMA PopStep ==
    ASSUME src \in Seq(Lexemes), NEW l \in LexerStates, NEW cur \in Cursors,
           NEW st \in Seq(Frames), AtToken(l, cur, st), cur.tok = rbrace,
           st # <<>>, Sort(Last(st).kind) = "code"
    PROVE  /\ Lexeme(l).lexer \in LexerStates /\ Lexeme(l).current \in Cursors
           /\ AtToken(Lexeme(l).lexer, Lexeme(l).current, Front(st))
<1>. DEFINE ctx == Shape(st)
<1>1. ctx \in Contexts /\ ~IsRaw(ctx) /\ ctx # <<>> /\ Last(ctx) = "code"
      /\ Front(st) \in Seq(Frames) /\ Shape(Front(st)) = Front(ctx)
  BY ShapeType, ShapeFront DEF AtToken, StandsAt
<1>2. PICK c \in 1..EndPos : StandsAt(l, cur, c, ctx)
  BY DEF AtToken
<1>. HIDE DEF ctx
<1>3. Opened(ctx, cur.tok) = Front(ctx) /\ Nested(ctx) /\ cur.tok # "eof"
  BY <1>1, <1>2, OpenedCases, PastToken, TokenNames
<1>4. InterpsOf(Front(ctx)) = InterpsOf(ctx)
  BY <1>1, InterpsFront
<1>5. ~IsRaw(Front(ctx))
  <2>1. Len(ctx) \in Nat /\ Len(ctx) >= 1 /\ ctx[Len(ctx)] = "code"
    BY <1>1, RawFront
  <2>2. Len(ctx) > 1 => ctx[Len(ctx) - 1] # "raw"
    <3>1. Nested(ctx)
      BY <1>3
    <3>. QED BY <2>1, <3>1 DEF Nested
  <2>. QED BY <1>1, <2>1, <2>2, RawFront
<1>. QED BY <1>1, <1>3, <1>4, <1>5, CodeStep DEF ctx

(* The first elements of a sequence. *)
LEMMA PrefixProperties ==
    ASSUME NEW S, NEW s \in Seq(S), NEW k \in 0..Len(s)
    PROVE  /\ SubSeq(s, 1, k) \in Seq(S) /\ Len(SubSeq(s, 1, k)) = k
           /\ \A i \in 1..k : SubSeq(s, 1, k)[i] = s[i]
OBVIOUS

(* Sequences that agree so far have the same beginning. *)
LEMMA SamePrefix ==
    ASSUME NEW S, NEW s \in Seq(S), NEW t \in Seq(S), NEW k \in 0..Len(s), k \in 0..Len(t),
           \A i \in 1..k : t[i] = s[i]
    PROVE  SubSeq(t, 1, k) = SubSeq(s, 1, k)
<1>. DEFINE a == SubSeq(s, 1, k)   b == SubSeq(t, 1, k)
<1>1. a \in Seq(S) /\ Len(a) = k /\ \A i \in 1..k : a[i] = s[i]
  BY PrefixProperties
<1>2. b \in Seq(S) /\ Len(b) = k /\ \A i \in 1..k : b[i] = t[i]
  BY PrefixProperties
<1>. HIDE DEF a, b
<1>3. a = b
  BY <1>1, <1>2, SeqEqual
<1>. QED BY <1>3 DEF a, b

(* A sequence is its own first part. *)
LEMMA WholeSeq ==
    ASSUME NEW S, NEW s \in Seq(S) PROVE SubSeq(s, 1, Len(s)) = s
OBVIOUS

(* What was saved at a `{` stays right while constructs come and go. *)
LEMMA SavedAppend ==
    ASSUME NEW st \in Seq(Frames), SavedAreReal(st), NEW f \in Frames,
           f.kind = "formals" =>
             f.saved # <<>> /\ f.saved[1].current.tok = lbrace
             /\ AtToken(f.saved[1].lexer, f.saved[1].current, st)
    PROVE  SavedAreReal(Append(st, f))
<1>0. /\ Append(st, f) \in Seq(Frames) /\ Len(st) \in Nat /\ Len(Append(st, f)) = Len(st) + 1
      /\ \A i \in 1..Len(st) : Append(st, f)[i] = st[i]
      /\ Append(st, f)[Len(st) + 1] = f
  BY StackAppend
<1>. DEFINE t == Append(st, f)
<1>9. Len(st) \in Nat
  OBVIOUS
<1>1. ASSUME NEW i \in 1..(Len(st) + 1) PROVE SubSeq(t, 1, i - 1) = SubSeq(st, 1, i - 1)
  <2>. HIDE DEF t
  <2>1. i - 1 \in 0..Len(st) /\ i - 1 \in 0..Len(t)
    <3>1. Len(t) = Len(st) + 1
      BY <1>0 DEF t
    <3>. QED BY <1>9, <3>1
  <2>2. t \in Seq(Frames) /\ \A j \in 1..(i - 1) : t[j] = st[j]
    <3>1. \A j \in 1..Len(st) : t[j] = st[j]
      BY <1>0 DEF t
    <3>2. \A j \in 1..(i - 1) : j \in 1..Len(st)
      BY <1>9
    <3>. QED BY <1>0, <3>1, <3>2 DEF t
  <2>. QED BY <2>1, <2>2, SamePrefix
<1>2. ASSUME NEW i \in 1..(Len(st) + 1), t[i].kind = "formals"
      PROVE  /\ t[i].saved # <<>> /\ t[i].saved[1].current.tok = lbrace
             /\ AtToken(t[i].saved[1].lexer, t[i].saved[1].current, SubSeq(t, 1, i - 1))
  <2>1. CASE i \in 1..Len(st)
    <3>1. t[i] = st[i]
      BY <1>0, <2>1
    <3>. HIDE DEF t
    <3>. QED BY <1>1, <1>2, <2>1, <3>1 DEF SavedAreReal
  <2>2. CASE i = Len(st) + 1
    <3>1. t[i] = f
      BY <1>0, <2>2
    <3>2. SubSeq(st, 1, i - 1) = st
      <4>1. i - 1 = Len(st)
        BY <1>9, <2>2
      <4>. QED BY <4>1, WholeSeq
    <3>. HIDE DEF t
    <3>3. SubSeq(t, 1, i - 1) = st
      BY <1>1, <3>2
    <3>. QED BY <1>2, <3>1, <3>3
  <2>. QED BY <1>9, <2>1, <2>2
<1>. HIDE DEF t
<1>. QED BY <1>0, <1>2 DEF SavedAreReal, t

(* A frame that is popped leaves the saved states of the others real. *)
LEMMA SavedFront ==
    ASSUME NEW st \in Seq(Frames), SavedAreReal(st), st # <<>> PROVE SavedAreReal(Front(st))
<1>1. /\ Len(st) \in Nat /\ Len(st) >= 1 /\ Front(st) \in Seq(Frames)
      /\ Len(Front(st)) = Len(st) - 1 /\ \A i \in 1..(Len(st) - 1) : Front(st)[i] = st[i]
  BY SeqFront
<1>. DEFINE t == Front(st)
<1>. HIDE DEF t
<1>2. ASSUME NEW i \in 1..(Len(st) - 1)
      PROVE  t[i] = st[i] /\ SubSeq(t, 1, i - 1) = SubSeq(st, 1, i - 1) /\ i \in 1..Len(st)
  <2>1. /\ i - 1 \in 0..Len(st) /\ i - 1 \in 0..Len(t) /\ i \in 1..Len(st)
        /\ \A j \in 1..(i - 1) : t[j] = st[j]
    BY <1>1 DEF t
  <2>. QED BY <1>1, <2>1, SamePrefix DEF t
<1>. QED BY <1>1, <1>2 DEF SavedAreReal, t

(* Into a string, through its text, out of it. *)
LEMMA OpenStringStep ==
    ASSUME src \in Seq(Lexemes), NEW l \in LexerStates, NEW cur \in Cursors,
           NEW st \in Seq(Frames), AtToken(l, cur, st), cur.tok = "quote"
    PROVE  InString(l, Nothing, Append(st, Frame("string")))
<1>. DEFINE ctx == Shape(st)
<1>1. PICK c \in 1..EndPos : StandsAt(l, cur, c, ctx)
  BY DEF AtToken
<1>2. ctx \in Contexts /\ ~IsRaw(ctx)
  BY <1>1, ShapeType DEF StandsAt
<1>. HIDE DEF ctx
<1>3. Context[l.pos] = Opened(ctx, cur.tok) /\ Opened(ctx, cur.tok) = Append(ctx, "raw")
  <2>1. cur.tok # "eof" /\ cur.tok = "quote"
    OBVIOUS
  <2>2. Context[l.pos] = Opened(ctx, cur.tok)
    BY <1>1, <2>1, PastToken
  <2>3. Opened(ctx, cur.tok) = Append(ctx, "raw")
    BY <1>2, <2>1, OpenedCases
  <2>. QED BY <2>2, <2>3
<1>4. Frame("string") \in Frames /\ Shape(Append(st, Frame("string"))) = Append(ctx, "raw")
  <2>1. Frame("string") \in Frames /\ Sort(Frame("string").kind) = "raw"
    BY DEF Frame, Frames, Kinds, Sort
  <2>. QED BY <2>1, ShapeAppend DEF ctx
<1>5. InterpsOf(Append(ctx, "raw")) = InterpsOf(ctx)
  BY <1>2, InterpsAppend DEF Constructs
<1>6. IsRaw(Append(ctx, "raw"))
  BY <1>2, RawAppend DEF Constructs
<1>7. l.buffer = <<>> /\ l.recorded = TrueMarkers[l.pos] /\ l.depth = InterpsOf(ctx)
  BY <1>1 DEF StandsAt, ReadBehind, Defers
<1>. QED BY <1>3, <1>4, <1>5, <1>6, <1>7 DEF InString, Faithful

(* Inside a string the lexer stands on a token of raw text. *)
LEMMA InStringAt ==
    ASSUME src \in Seq(Lexemes), NEW l \in LexerStates, NEW cur, NEW st \in Seq(Frames),
           InString(l, cur, st), TokenAt(l.pos) # "eof"
    PROVE  /\ l.pos \in 1..(EndPos - 1) /\ l.pos + 1 \in 1..EndPos /\ TokenAt(l.pos) = src[l.pos]
           /\ Shape(st) \in Contexts /\ Nested(Shape(st)) /\ IsRaw(Shape(st)) /\ st # <<>>
           /\ Context[l.pos + 1] = Opened(Shape(st), src[l.pos])
           /\ TrueMarkers[l.pos + 1] = l.recorded /\ l.depth = InterpsOf(Shape(st))
<1>0. Len(src) \in Nat /\ EndPos = Len(src) + 1 /\ l.pos \in 1..EndPos
  BY DEF EndPos, LexerStates
<1>1. l.pos <= Len(src) /\ TokenAt(l.pos) = src[l.pos]
  BY <1>0 DEF TokenAt
<1>2. l.pos \in 1..(EndPos - 1) /\ l.pos + 1 \in 1..EndPos /\ l.pos + 1 # 1 /\ (l.pos + 1) - 1 = l.pos
  BY <1>0, <1>1
<1>3. /\ Context[l.pos] = Shape(st) /\ IsRaw(Shape(st)) /\ l.recorded = TrueMarkers[l.pos]
      /\ l.depth = InterpsOf(Shape(st))
  BY DEF InString, Faithful
<1>4. Context[l.pos + 1] = Opened(Shape(st), src[l.pos]) /\ Nested(Shape(st))
  BY <1>0, <1>2, <1>3, ContextRec, ContextNested
<1>5. TrueMarkers[l.pos + 1] = l.recorded
  BY <1>2, <1>3, MarkersOverOther
<1>6. st # <<>>
  BY <1>3 DEF IsRaw, Shape
<1>. QED BY <1>1, <1>2, <1>3, <1>4, <1>5, <1>6, ShapeType

(* A piece of string content is skipped without leaving the string. *)
LEMMA RawTextStep ==
    ASSUME src \in Seq(Lexemes), NEW l \in LexerStates, NEW cur, NEW st \in Seq(Frames),
           InString(l, cur, st), TokenAt(l.pos) \notin {dollar, "quote", "eof"}
    PROVE  [l EXCEPT !.pos = l.pos + 1] \in LexerStates
           /\ InString([l EXCEPT !.pos = l.pos + 1], cur, st)
<1>. DEFINE m == [l EXCEPT !.pos = l.pos + 1]
<1>1. m \in LexerStates /\ m.pos = l.pos + 1 /\ m.recorded = l.recorded /\ m.depth = l.depth
      /\ m.buffer = l.buffer
  BY InStringAt DEF LexerStates
<1>2. Opened(Shape(st), src[l.pos]) = Shape(st)
  BY InStringAt, OpenedCases
<1>. HIDE DEF m
<1>3. InString(m, cur, st)
  BY <1>1, <1>2, InStringAt DEF InString, Faithful
<1>. QED BY <1>1, <1>3 DEF m

(* A `${` in a string leads to the first token of the interpolation. *)
LEMMA EnterInterpStep ==
    ASSUME src \in Seq(Lexemes), NEW l \in LexerStates, NEW cur, NEW st \in Seq(Frames),
           InString(l, cur, st), TokenAt(l.pos) = dollar
    PROVE  /\ Deeper(l).lexer \in LexerStates /\ Deeper(l).current \in Cursors
           /\ AtToken(Deeper(l).lexer, Deeper(l).current, Append(st, Frame("interp")))
<1>. DEFINE m   == [l EXCEPT !.pos = l.pos + 1, !.depth = l.depth + 1]
            st2 == Append(st, Frame("interp"))
<1>0. /\ l.pos \in 1..(EndPos - 1) /\ l.pos + 1 \in 1..EndPos /\ src[l.pos] = dollar
      /\ Shape(st) \in Contexts /\ IsRaw(Shape(st))
      /\ Context[l.pos + 1] = Opened(Shape(st), src[l.pos])
      /\ TrueMarkers[l.pos + 1] = l.recorded /\ l.depth = InterpsOf(Shape(st))
  BY InStringAt, TokenNames
<1>1. m \in LexerStates /\ m.pos = l.pos + 1 /\ m.recorded = l.recorded /\ m.depth = l.depth + 1
  <2>1. l.depth + 1 \in Nat
    BY LexerType
  <2>2. IsLexer(m, l.pos + 1, l.buffer, l.start, l.recorded, l.depth + 1)
    BY <1>0, <2>1, MovedDeeper, Zenon
  <2>. QED BY <2>2 DEF IsLexer
<1>2. Opened(Shape(st), src[l.pos]) = Append(Shape(st), "interp")
  BY <1>0, OpenedCases
<1>3. st2 \in Seq(Frames) /\ Shape(st2) = Append(Shape(st), "interp")
  <2>1. Frame("interp") \in Frames /\ Sort(Frame("interp").kind) = "interp"
    BY DEF Frame, Frames, Kinds, Sort
  <2>. QED BY <2>1, ShapeAppend
<1>4. InterpsOf(Append(Shape(st), "interp")) = InterpsOf(Shape(st)) + 1
  BY <1>0, InterpsAppend DEF Constructs
<1>5. ~IsRaw(Append(Shape(st), "interp"))
  BY <1>0, RawAppend DEF Constructs
<1>. HIDE DEF m, st2
<1>6. Faithful(m) /\ Context[m.pos] = Shape(st2)
  BY <1>0, <1>1, <1>2, <1>3, <1>4 DEF Faithful
<1>. QED BY <1>1, <1>3, <1>5, <1>6, AdvanceReal DEF Deeper, m, st2

(* The brace of an interpolation leads back to the raw text behind it. *)
LEMMA ExitInterpStep ==
    ASSUME src \in Seq(Lexemes), NEW l \in LexerStates, NEW cur \in Cursors,
           NEW st \in Seq(Frames), AtToken(l, cur, st), cur.tok = rbrace,
           st # <<>>, Last(st).kind = "interp"
    PROVE  /\ Shallower(l) \in LexerStates /\ InString(Shallower(l), Nothing, Front(st))
           /\ l.buffer = <<>> /\ Shallower(l).recorded = l.recorded
<1>. DEFINE ctx == Shape(st)
            m   == Shallower(l)
<1>1. PICK c \in 1..EndPos : StandsAt(l, cur, c, ctx)
  BY DEF AtToken
<1>2. /\ ctx \in Contexts /\ ~IsRaw(ctx) /\ ctx # <<>> /\ Last(ctx) = "interp"
      /\ Front(st) \in Seq(Frames) /\ Shape(Front(st)) = Front(ctx)
  BY <1>1, ShapeType, ShapeFront DEF StandsAt, Sort
<1>. HIDE DEF ctx
<1>3. /\ Opened(ctx, cur.tok) = Front(ctx) /\ Nested(ctx) /\ c \in 1..(EndPos - 1)
      /\ Context[c + 1] = Front(ctx)
  BY <1>1, <1>2, OpenedCases, PastToken, TokenNames
<1>4. /\ Len(ctx) \in Nat /\ Len(ctx) >= 1 /\ ctx[Len(ctx)] = "interp"
      /\ Front(ctx) \in Contexts /\ Len(Front(ctx)) = Len(ctx) - 1
      /\ \A i \in 1..(Len(ctx) - 1) : Front(ctx)[i] = ctx[i]
  BY <1>2, RawFront, SeqFront DEF Contexts
<1>5. Len(ctx) > 1 /\ ctx[Len(ctx) - 1] = "raw"
  BY <1>3, <1>4 DEF Nested
<1>6. IsRaw(Front(ctx))
  BY <1>4, <1>5 DEF IsRaw, Last
<1>7. InterpsOf(Front(ctx)) = InterpsOf(ctx) - 1 /\ InterpsOf(ctx) > 0
  BY <1>2, <1>4, InterpsFront, InterpsZero
<1>8. InterpsOf(ctx) \in Nat
  BY <1>2, InterpsType
<1>9. /\ l.depth = InterpsOf(ctx) /\ l.recorded = TrueMarkers[l.pos]
      /\ l.pos = c + 1 /\ l.start = c + 1 /\ l.buffer = <<>>
  BY <1>1, <1>7, <1>8, DefersCases DEF StandsAt, ReadBehind
<1>10. /\ m \in LexerStates /\ m.pos = c + 1 /\ m.buffer = <<>> /\ m.recorded = l.recorded
       /\ m.depth = InterpsOf(ctx) - 1
  <2>1. c + 1 \in 1..EndPos /\ InterpsOf(ctx) - 1 \in Nat
    BY <1>3, <1>7, <1>8 DEF EndPos
  <2>2. m = [l EXCEPT !.pos = c + 1, !.buffer = <<>>, !.depth = InterpsOf(ctx) - 1]
    <3>1. l.start = c + 1 /\ (IF l.depth = 0 THEN 0 ELSE l.depth - 1) = InterpsOf(ctx) - 1
      BY <1>7, <1>8, <1>9
    <3>. QED BY <3>1, Zenon DEF Shallower, Rewound
  <2>. HIDE DEF m
  <2>3. IsLexer(m, c + 1, <<>>, l.start, l.recorded, InterpsOf(ctx) - 1)
    BY <2>1, <2>2, MovedShallower, NoMarkers, Zenon
  <2>. QED BY <2>3 DEF IsLexer
<1>. HIDE DEF m
<1>11. InString(m, Nothing, Front(st))
  BY <1>2, <1>3, <1>6, <1>7, <1>9, <1>10 DEF InString, Faithful
<1>. QED BY <1>9, <1>10, <1>11 DEF m

(* A closing quote leads to the token behind the string. *)
LEMMA CloseStringStep ==
    ASSUME src \in Seq(Lexemes), NEW l \in LexerStates, NEW cur, NEW st \in Seq(Frames),
           InString(l, cur, st), TokenAt(l.pos) = "quote"
    PROVE  LET m == ReadTrivia(Consume(l))
           IN  /\ Front(st) \in Seq(Frames) /\ m \in LexerStates
               /\ Faithful(m) /\ TokenAt(m.pos) \notin Markers
               /\ Context[m.pos] = Shape(Front(st)) /\ ~IsRaw(Shape(Front(st)))
<1>. DEFINE ctx == Shape(st)
            k   == Consume(l)
<1>1. /\ ctx \in Contexts /\ Nested(ctx) /\ IsRaw(ctx) /\ st # <<>> /\ l.depth = InterpsOf(ctx)
      /\ Front(st) \in Seq(Frames) /\ Shape(Front(st)) = Front(ctx)
      /\ Context[l.pos + 1] = Opened(ctx, "quote")
  BY InStringAt, ShapeFront
<1>2. k \in LexerStates /\ k.pos = l.pos + 1 /\ k.recorded = l.recorded /\ k.depth = l.depth
  <2>1. l.pos # EndPos /\ l.pos + 1 \in 1..EndPos
    BY InStringAt DEF EndPos
  <2>2. k = [l EXCEPT !.pos = l.pos + 1, !.buffer = <<>>]
    BY <2>1 DEF Consume
  <2>3. IsLexer(k, l.pos + 1, <<>>, l.start, l.recorded, l.depth)
    BY <2>1, <2>2, MovedTo, NoMarkers, Zenon
  <2>. QED BY <2>3 DEF IsLexer
<1>. HIDE DEF ctx, k
<1>3. Opened(ctx, "quote") = Front(ctx)
  BY <1>1, OpenedCases
<1>4. Len(ctx) \in Nat /\ Len(ctx) >= 1 /\ ctx[Len(ctx)] = "raw" /\ ctx # <<>> /\ Last(ctx) = "raw"
  BY <1>1 DEF IsRaw, Last, Contexts
<1>5. InterpsOf(Front(ctx)) = InterpsOf(ctx)
  BY <1>1, <1>4, InterpsFront, InterpsType
<1>6. ~IsRaw(Front(ctx))
  <2>1. Len(ctx) > 1 => ctx[Len(ctx) - 1] # "raw"
    BY <1>1, <1>4 DEF Nested
  <2>. QED BY <1>1, <1>4, <2>1 DEF IsRaw, Front, Last, Contexts
<1>7. Faithful(k) /\ Context[k.pos] = Front(ctx)
  BY <1>1, <1>2, <1>3, <1>5, InStringAt DEF Faithful, ctx
<1>8. /\ ReadTrivia(k) \in LexerStates /\ Faithful(ReadTrivia(k))
      /\ ReadTrivia(k).pos = RunEnd(k.pos) /\ Context[RunEnd(k.pos)] = Front(ctx)
      /\ TokenAt(RunEnd(k.pos)) \notin Markers
  BY <1>2, <1>6, <1>7, ReadTriviaReal
<1>. QED BY <1>1, <1>6, <1>8 DEF k

-----------------------------------------------------------------------------
(* The parser is at a token or in a string of the source.                   *)
Here(l, cur, st) == AtToken(l, cur, st) \/ InString(l, cur, st)

(* What every step of the parser leads to, seen from the source it reads. *)
StepKeeps ==
    /\ lexer' \in LexerStates /\ current' \in Cursors /\ stack' \in Seq(Frames) /\ ast' \in Seq(Nat)
    /\ Here(lexer', current', stack') /\ SavedAreReal(stack')

(* The current token after a string has been entered. *)
LEMMA NothingType == Nothing \in Cursors /\ Nothing.tok = "sof" /\ Nothing.pre = <<>>
BY DEF Nothing, Cursors

(* In front of a token the parser holds one, in a string none. *)
LEMMA HeldToken ==
    ASSUME src \in Seq(Lexemes), NEW l, NEW cur, NEW st, Here(l, cur, st)
    PROVE  /\ cur.tok # "sof" => AtToken(l, cur, st)
           /\ cur.tok = "sof" => InString(l, cur, st)
<1>1. AtToken(l, cur, st) => cur.tok # "sof"
  <2>. SUFFICES ASSUME NEW c \in 1..EndPos, cur.tok = TokenAt(c) PROVE cur.tok # "sof"
    BY DEF AtToken, StandsAt
  <2>1. c > Len(src) => cur.tok = "eof"
    BY DEF TokenAt
  <2>2. c <= Len(src) => cur.tok = src[c] /\ src[c] \in Lexemes
    BY DEF TokenAt, EndPos
  <2>3. Len(src) \in Nat /\ c \in Nat
    BY DEF EndPos
  <2>. QED BY <2>1, <2>2, <2>3, NoLexemes
<1>2. InString(l, cur, st) => cur.tok = "sof"
  BY NothingType DEF InString
<1>. QED BY <1>1, <1>2 DEF Here

(* What the invariant says while a file is parsed. *)
LEMMA ParsingHere ==
    ASSUME DInv, ~parsed
    PROVE  /\ src \in Seq(Lexemes) /\ lexer \in LexerStates /\ current \in Cursors
           /\ stack \in Seq(Frames) /\ ast \in Seq(Nat) /\ current.pre \in Seq(Nat)
           /\ SavedAreReal(stack)
           /\ current.tok # "sof" => AtToken(lexer, current, stack)
           /\ current.tok = "sof" => InString(lexer, current, stack)
BY HeldToken DEF DInv, TypeOK, ParseInv, Here, Cursors

(* The trivia of a token go into the tree. *)
LEMMA TakeType ==
    ASSUME DInv, ~parsed, ast' = ast \o current.pre PROVE ast' \in Seq(Nat)
BY ParsingHere

(* The parser takes a token that opens and closes nothing. *)
LEMMA PlainKeeps == ASSUME DInv, ~parsed, Plain PROVE StepKeeps
<1>1. current.tok \in plain /\ current.tok # "sof"
      /\ ast' = ast \o current.pre /\ lexer' = Lexeme(lexer).lexer
      /\ current' = Lexeme(lexer).current /\ stack' = stack
  BY Zenon, TokenNames DEF Plain, Take, Advance, plain
<1>. QED BY <1>1, ParsingHere, TakeType, PlainStep DEF StepKeeps, Here

(* A frame without a saved state. *)
LEMMA FrameType ==
    ASSUME NEW k \in Kinds
    PROVE  Frame(k) \in Frames /\ Frame(k).kind = k
BY DEF Frame, Frames

(* The parser opens a brace: for what may be formals it saves the state it  *)
(* stands in.                                                               *)
LEMMA OpenBraceKeeps == ASSUME DInv, ~parsed, OpenBrace PROVE StepKeeps
<1>. DEFINE saved == <<[lexer |-> lexer, current |-> current, ast |-> ast]>>
            f == IF current'.tok \in {"x", "..."} THEN [kind |-> "formals", saved |-> saved]
                                                  ELSE Frame("binders")
<1>1. current.tok = lbrace /\ current.tok # "sof"
      /\ ast' = ast \o current.pre /\ lexer' = Lexeme(lexer).lexer
      /\ current' = Lexeme(lexer).current /\ stack' = Append(stack, f)
  BY Zenon, TokenNames DEF OpenBrace, Take, Advance, lbrace
<1>2. /\ src \in Seq(Lexemes) /\ lexer \in LexerStates /\ current \in Cursors
      /\ stack \in Seq(Frames) /\ ast \in Seq(Nat)
      /\ SavedAreReal(stack) /\ AtToken(lexer, current, stack)
  BY <1>1, ParsingHere
<1>3. saved \in Seq(SavedStates) /\ saved # <<>> /\ saved[1].current = current /\ saved[1].lexer = lexer
  BY <1>2 DEF SavedStates
<1>. HIDE DEF saved
<1>4. f \in Frames /\ Sort(f.kind) = "code" /\ (f.kind = "formals" => f.saved = saved)
  <2>1. Frame("binders") \in Frames /\ Frame("binders").kind = "binders"
    BY FrameType DEF Kinds
  <2>2. [kind |-> "formals", saved |-> saved] \in Frames
    BY <1>3 DEF Frames, Kinds
  <2>. QED BY <2>1, <2>2 DEF Sort
<1>. HIDE DEF f
<1>5. SavedAreReal(Append(stack, f))
  BY <1>1, <1>2, <1>3, <1>4, SavedAppend
<1>6. /\ Lexeme(lexer).lexer \in LexerStates /\ Lexeme(lexer).current \in Cursors
      /\ AtToken(Lexeme(lexer).lexer, Lexeme(lexer).current, Append(stack, f))
  BY <1>1, <1>2, <1>4, PushStep
<1>7. Append(stack, f) \in Seq(Frames)
  BY <1>2, <1>4
<1>. QED BY <1>1, <1>5, <1>6, <1>7, TakeType DEF StepKeeps, Here

(* The parser closes a construct of code. *)
LEMMA CloseKeeps == ASSUME DInv, ~parsed, CloseBrace \/ ExitSelector PROVE StepKeeps
<1>1. /\ Top \in {"binders", "formals", "selector"} /\ current.tok = rbrace /\ current.tok # "sof"
      /\ ast' = ast \o current.pre /\ lexer' = Lexeme(lexer).lexer
      /\ current' = Lexeme(lexer).current /\ stack' = Front(stack)
  BY Zenon, TokenNames DEF CloseBrace, ExitSelector, Take, Advance, rbrace
<1>2. stack # <<>> /\ Sort(Last(stack).kind) = "code"
  BY <1>1 DEF Top, Sort
<1>3. /\ src \in Seq(Lexemes) /\ lexer \in LexerStates /\ current \in Cursors
      /\ stack \in Seq(Frames) /\ SavedAreReal(stack) /\ AtToken(lexer, current, stack)
  BY <1>1, ParsingHere
<1>4. SavedAreReal(Front(stack)) /\ Front(stack) \in Seq(Frames)
  BY <1>2, <1>3, SavedFront, ShapeFront
<1>. QED BY <1>1, <1>2, <1>3, <1>4, PopStep, TakeType DEF StepKeeps, Here

(* The parser opens an interpolation that is no part of a string. *)
LEMMA EnterSelectorKeeps == ASSUME DInv, ~parsed, EnterSelector PROVE StepKeeps
<1>1. current.tok = dollar /\ current.tok # "sof"
      /\ ast' = ast \o current.pre /\ lexer' = Lexeme(lexer).lexer
      /\ current' = Lexeme(lexer).current /\ stack' = Append(stack, Frame("selector"))
  BY Zenon, TokenNames DEF EnterSelector, Take, Advance, dollar
<1>2. /\ src \in Seq(Lexemes) /\ lexer \in LexerStates /\ current \in Cursors
      /\ stack \in Seq(Frames) /\ SavedAreReal(stack) /\ AtToken(lexer, current, stack)
  BY <1>1, ParsingHere
<1>3. /\ Frame("selector") \in Frames /\ Frame("selector").kind = "selector"
      /\ Sort(Frame("selector").kind) = "code"
  BY FrameType DEF Kinds, Sort
<1>4. SavedAreReal(Append(stack, Frame("selector"))) /\ Append(stack, Frame("selector")) \in Seq(Frames)
  BY <1>2, <1>3, SavedAppend
<1>. QED BY <1>1, <1>2, <1>3, <1>4, PushStep, TakeType DEF StepKeeps, Here

(* The lexer that is brought back reads the `{` as it did the first time;   *)
(* `trivia_start` does not matter there.                                    *)
LEMMA BacktrackKeeps == ASSUME DInv, ~parsed, Backtrack PROVE StepKeeps
<1>. DEFINE s == Last(stack).saved[1]
            m == Restored(s)
<1>1. /\ Top = "formals" /\ current.tok = "="
      /\ ast' = s.ast \o s.current.pre /\ lexer' = Lexeme(m).lexer
      /\ current' = Lexeme(m).current /\ stack' = Append(Front(stack), Frame("binders"))
  BY DEF Backtrack, Advance
<1>2. /\ src \in Seq(Lexemes) /\ lexer \in LexerStates /\ stack \in Seq(Frames) /\ SavedAreReal(stack)
  BY ParsingHere
<1>3. stack # <<>> /\ Last(stack).kind = "formals" /\ Len(stack) >= 1 /\ Len(stack) \in Nat
      /\ Last(stack) = stack[Len(stack)] /\ Front(stack) = SubSeq(stack, 1, Len(stack) - 1)
  BY <1>1, <1>2 DEF Top, Last, Front
<1>4. /\ Last(stack).saved # <<>> /\ s.current.tok = lbrace /\ Last(stack) \in Frames
      /\ AtToken(s.lexer, s.current, Front(stack))
  BY <1>2, <1>3 DEF SavedAreReal
<1>5. s \in SavedStates
  BY <1>4 DEF Frames
<1>. HIDE DEF s
<1>6. s.lexer \in LexerStates /\ s.current \in Cursors /\ s.ast \in Seq(Nat)
      /\ s.current.pre \in Seq(Nat)
  BY <1>5 DEF SavedStates, Cursors
<1>7. /\ m \in LexerStates /\ m.pos = s.lexer.pos /\ m.buffer = s.lexer.buffer
      /\ m.recorded = s.lexer.recorded /\ m.depth = s.lexer.depth
  BY <1>2, <1>6 DEF Restored, LexerStates
<1>. HIDE DEF m
<1>8. AtToken(m, s.current, Front(stack))
  <2>1. PICK c \in 1..EndPos : StandsAt(s.lexer, s.current, c, Shape(Front(stack)))
    BY <1>4 DEF AtToken
  <2>2. ReadBehind(m, s.current.tok, c)
    BY <1>4, <1>7, <2>1, DefersCases, TokenNames DEF StandsAt, ReadBehind
  <2>3. StandsAt(m, s.current, c, Shape(Front(stack)))
    BY <1>7, <2>1, <2>2 DEF StandsAt
  <2>. QED BY <2>3 DEF AtToken
<1>9. Front(stack) \in Seq(Frames) /\ SavedAreReal(Front(stack))
  BY <1>2, <1>3, SavedFront, ShapeFront
<1>10. /\ Frame("binders") \in Frames /\ Frame("binders").kind = "binders"
       /\ Sort(Frame("binders").kind) = "code"
  BY FrameType DEF Kinds, Sort
<1>11. /\ SavedAreReal(Append(Front(stack), Frame("binders")))
       /\ Append(Front(stack), Frame("binders")) \in Seq(Frames)
  BY <1>9, <1>10, SavedAppend
<1>12. s.ast \o s.current.pre \in Seq(Nat)
  BY <1>6
<1>. QED BY <1>1, <1>2, <1>4, <1>6, <1>7, <1>8, <1>9, <1>10, <1>11, <1>12, PushStep DEF StepKeeps, Here

(* The parser skips the comma behind `...` with advance(). *)
LEMMA EllipsisKeeps == ASSUME DInv, ~parsed, Ellipsis PROVE StepKeeps
<1>. DEFINE next == Lexeme(lexer)
<1>1. /\ current.tok = "..." /\ current.tok # "sof" /\ ast' = ast \o current.pre /\ stack' = stack
      /\ IF next.current.tok = "," THEN Advance(next.lexer) ELSE Advance(lexer)
  BY DEF Ellipsis
<1>2. /\ src \in Seq(Lexemes) /\ lexer \in LexerStates /\ current \in Cursors
      /\ stack \in Seq(Frames) /\ SavedAreReal(stack) /\ AtToken(lexer, current, stack)
      /\ current.tok \in plain
  <2>1. current.tok # "sof" /\ current.tok \in plain
    BY <1>1, Zenon DEF plain
  <2>. QED BY <2>1, ParsingHere
<1>3. /\ next.lexer \in LexerStates /\ next.current \in Cursors
      /\ AtToken(next.lexer, next.current, stack)
  BY <1>2, PlainStep
<1>. HIDE DEF next
<1>4. CASE next.current.tok = ","
  <2>1. lexer' = Lexeme(next.lexer).lexer /\ current' = Lexeme(next.lexer).current
    BY <1>1, <1>4 DEF Advance
  <2>2. /\ Lexeme(next.lexer).lexer \in LexerStates /\ Lexeme(next.lexer).current \in Cursors
        /\ AtToken(Lexeme(next.lexer).lexer, Lexeme(next.lexer).current, stack)
    <3>1. next.current.tok \in plain
      BY <1>4, Zenon DEF plain
    <3>. QED BY <1>2, <1>3, <3>1, PlainStep
  <2>. QED BY <1>1, <1>2, <2>1, <2>2, TakeType DEF StepKeeps, Here
<1>5. CASE next.current.tok # ","
  <2>1. lexer' = next.lexer /\ current' = next.current
    BY <1>1, <1>5 DEF Advance, next
  <2>. QED BY <1>1, <1>2, <1>3, <2>1, TakeType DEF StepKeeps, Here
<1>. QED BY <1>4, <1>5

(* The parser opens a string. *)
LEMMA OpenStringKeeps == ASSUME DInv, ~parsed, OpenString PROVE StepKeeps
<1>1. /\ current.tok = "quote" /\ current.tok # "sof" /\ ast' = ast \o current.pre
      /\ current' = Nothing /\ lexer' = lexer /\ stack' = Append(stack, Frame("string"))
  BY DEF OpenString
<1>2. /\ src \in Seq(Lexemes) /\ lexer \in LexerStates /\ current \in Cursors
      /\ stack \in Seq(Frames) /\ SavedAreReal(stack) /\ AtToken(lexer, current, stack)
  BY <1>1, ParsingHere
<1>3. Frame("string") \in Frames /\ Frame("string").kind = "string"
  BY FrameType DEF Kinds
<1>4. SavedAreReal(Append(stack, Frame("string"))) /\ Append(stack, Frame("string")) \in Seq(Frames)
  BY <1>2, <1>3, SavedAppend
<1>. QED BY <1>1, <1>2, <1>4, OpenStringStep, NothingType, TakeType DEF StepKeeps, Here

(* While string content is read the lexer stands in raw text. *)
LEMMA RawHere ==
    ASSUME DInv, ~parsed, InRaw
    PROVE  /\ current.tok = "sof" /\ InString(lexer, current, stack) /\ current = Nothing
           /\ stack \in Seq(Frames) /\ stack # <<>> /\ Front(stack) \in Seq(Frames)
           /\ SavedAreReal(Front(stack))
<1>1. current.tok = "sof" /\ stack # <<>>
  BY DEF InRaw, Top
<1>. QED BY <1>1, ParsingHere, SavedFront, ShapeFront DEF InString

(* The parser reads a piece of string content. *)
LEMMA RawTextKeeps == ASSUME DInv, ~parsed, RawText PROVE StepKeeps
<1>1. /\ InRaw /\ TokenAt(lexer.pos) \notin {dollar, "quote", "eof"}
      /\ lexer' = [lexer EXCEPT !.pos = lexer.pos + 1]
      /\ current' = current /\ stack' = stack /\ ast' = ast
  BY Zenon, TokenNames DEF RawText, dollar
<1>. QED BY <1>1, ParsingHere, RawHere, RawTextStep DEF StepKeeps, Here

(* The parser enters an interpolation of a string. *)
LEMMA EnterInterpKeeps == ASSUME DInv, ~parsed, EnterInterp PROVE StepKeeps
<1>1. /\ InRaw /\ TokenAt(lexer.pos) = dollar /\ lexer' = Deeper(lexer).lexer
      /\ current' = Deeper(lexer).current /\ stack' = Append(stack, Frame("interp")) /\ ast' = ast
  BY Zenon, TokenNames DEF EnterInterp, dollar
<1>2. Frame("interp") \in Frames /\ Frame("interp").kind = "interp"
  BY FrameType DEF Kinds
<1>3. SavedAreReal(Append(stack, Frame("interp"))) /\ Append(stack, Frame("interp")) \in Seq(Frames)
  BY <1>2, ParsingHere, SavedAppend
<1>. QED BY <1>1, <1>3, ParsingHere, RawHere, EnterInterpStep DEF StepKeeps, Here

(* The parser leaves an interpolation of a string. *)
LEMMA ExitInterpKeeps == ASSUME DInv, ~parsed, ExitInterp PROVE StepKeeps
<1>1. /\ Top = "interp" /\ current.tok = rbrace /\ current.tok # "sof" /\ ast' = ast \o current.pre
      /\ lexer' = Shallower(lexer) /\ current' = Nothing /\ stack' = Front(stack)
  BY Zenon, TokenNames DEF ExitInterp, rbrace
<1>2. stack # <<>> /\ Last(stack).kind = "interp"
  BY <1>1 DEF Top
<1>3. SavedAreReal(Front(stack)) /\ Front(stack) \in Seq(Frames)
  BY <1>2, ParsingHere, SavedFront, ShapeFront
<1>. QED BY <1>1, <1>2, <1>3, ParsingHere, ExitInterpStep, NothingType, TakeType DEF StepKeeps, Here

(* The parser closes a string. *)
LEMMA CloseStringKeeps == ASSUME DInv, ~parsed, CloseString PROVE StepKeeps
<1>. DEFINE m == ReadTrivia(Consume(lexer))
<1>1. /\ InRaw /\ TokenAt(lexer.pos) = "quote" /\ lexer' = Lexeme(m).lexer
      /\ current' = Lexeme(m).current /\ stack' = Front(stack) /\ ast' = ast
  BY DEF CloseString, Advance
<1>2. /\ m \in LexerStates /\ Faithful(m) /\ Context[m.pos] = Shape(Front(stack))
      /\ ~IsRaw(Shape(Front(stack)))
  BY <1>1, ParsingHere, RawHere, CloseStringStep
<1>. HIDE DEF m
<1>. QED BY <1>1, <1>2, ParsingHere, RawHere, AdvanceReal DEF StepKeeps, Here
-----------------------------------------------------------------------------
(* The markers of a source stand in its order, all of them in front of the  *)
(* position they are counted to.                                            *)
Ordered(marks, p) ==
    /\ \A i \in 1..Len(marks) : marks[i].at \in 1..(p - 1)
    /\ \A i, j \in 1..Len(marks) : i < j => marks[i].at < marks[j].at

(* This holds at every position of a source, by induction on the position. *)
LEMMA MarkersOrdered ==
    ASSUME src \in Seq(Lexemes) PROVE \A p \in 1..EndPos : Ordered(TrueMarkers[p], p)
<1>. DEFINE S == {p \in 1..EndPos : Ordered(TrueMarkers[p], p)}
<1>0. EndPos \in Nat /\ EndPos >= 1
  BY DEF EndPos
<1>1. EndPos >= 1 => 1 \in S
  <2>1. TrueMarkers[1] = <<>> /\ Len(<<>>) = 0
    BY MarkersRec
  <2>. QED BY <1>0, <2>1 DEF Ordered
<1>2. \A p \in 1..EndPos : p \in S /\ p + 1 <= EndPos => p + 1 \in S
  <2>. SUFFICES ASSUME NEW p \in 1..EndPos, Ordered(TrueMarkers[p], p), p + 1 <= EndPos
                PROVE  Ordered(TrueMarkers[p + 1], p + 1)
    BY <1>0
  <2>. DEFINE t == TrueMarkers[p]   m == Mark(p, InterpsOf(Context[p]))
  <2>1. /\ p \in 1..(EndPos - 1) /\ p \in Nat /\ p + 1 - 1 = p /\ \A x \in 1..(p - 1) : x \in 1..p /\ x < p
    BY <1>0
  <2>2. t \in Seq(Marks) /\ TrueMarkers[p + 1] = NextMarkers(t, p)
    BY <2>1, MarkersRec
  <2>3. m \in Marks /\ m.at = p
    BY <2>1, ContextRec, InterpsType DEF Mark, Marks
  <2>4. Ordered(t, p)
    OBVIOUS
  <2>. HIDE DEF t, m
  <2>5. CASE NextMarkers(t, p) = t
    <3>1. \A i \in 1..Len(t) : t[i].at \in 1..((p + 1) - 1)
      BY <2>1, <2>4 DEF Ordered
    <3>2. Ordered(t, p + 1)
      BY <2>4, <3>1 DEF Ordered
    <3>. QED BY <2>2, <2>5, <3>2
  <2>6. CASE NextMarkers(t, p) = Append(t, m)
    <3>1. /\ Len(t) \in Nat /\ Len(Append(t, m)) = Len(t) + 1 /\ Append(t, m)[Len(t) + 1] = m
          /\ \A i \in 1..Len(t) : Append(t, m)[i] = t[i]
      BY <2>2, <2>3, SeqAppend
    <3>. DEFINE u == Append(t, m)
    <3>. HIDE DEF u
    <3>2. Ordered(u, p + 1)
      BY <2>1, <2>3, <2>4, <3>1 DEF Ordered, u
    <3>. QED BY <2>2, <2>6, <3>2 DEF u
  <2>7. NextMarkers(t, p) \in {t, Append(t, m)}
    BY DEF NextMarkers, m
  <2>. QED BY <2>5, <2>6, <2>7
<1>3. 1..EndPos \subseteq S
  <2>. HIDE DEF S
  <2>. QED BY ONLY <1>0, <1>1, <1>2, IntervalInd, Zenon
<1>. QED BY <1>3

(* Sorting markers that are in order changes nothing.                       *)
LEMMA Ranks ==
    ASSUME NEW s \in Seq(Marks), \A i, j \in 1..Len(s) : i < j => s[i].at < s[j].at
    PROVE  LET ats     == {s[i].at : i \in 1..Len(s)}
               rank(x) == Cardinality({y \in ats : y <= x})
           IN  /\ Cardinality(ats) = Len(s)
               /\ \A k \in 1..Len(s) : rank(s[k].at) = k
<1>. DEFINE ats == {s[i].at : i \in 1..Len(s)}
            upto(k) == {s[i].at : i \in 1..k}
<1>0. Len(s) \in Nat /\ \A i \in 1..Len(s) : s[i].at \in Nat
  <2>1. \A i \in 1..Len(s) : s[i] \in Marks
    BY ElementOfSeq
  <2>2. \A m \in Marks : m.at \in Nat
    BY DEF Marks
  <2>. QED BY <2>1, <2>2
<1>1. ASSUME NEW k \in 0..Len(s) PROVE Cardinality(upto(k)) = k
  <2>. DEFINE f == [i \in 1..k |-> s[i].at]
  <2>0. k \in Nat /\ \A i \in 1..k : i \in 1..Len(s)
    BY <1>0
  <2>1. f \in [1..k -> upto(k)]
    OBVIOUS
  <2>2. \A a, b \in 1..k : f[a] = f[b] => a = b
    <3>. SUFFICES ASSUME NEW a \in 1..k, NEW b \in 1..k, f[a] = f[b], a # b PROVE FALSE
      OBVIOUS
    <3>1. a \in 1..Len(s) /\ b \in 1..Len(s) /\ (a < b \/ b < a) /\ s[a].at = s[b].at
      BY <2>0
    <3>2. s[a].at \in Nat /\ s[b].at \in Nat
      BY <1>0, <3>1
    <3>3. s[a].at < s[b].at \/ s[b].at < s[a].at
      BY <3>1
    <3>. QED BY <3>1, <3>2, <3>3
  <2>3. \A y \in upto(k) : \E i \in 1..k : f[i] = y
    OBVIOUS
  <2>. HIDE DEF f, upto
  <2>4. f \in Bijection(1..k, upto(k))
    BY <2>1, <2>2, <2>3, Fun_IsBij
  <2>. QED BY <2>0, <2>4, FS_CountingElements DEF ExistsBijection
<1>2. ASSUME NEW k \in 1..Len(s) PROVE {y \in ats : y <= s[k].at} = upto(k)
  <2>1. ASSUME NEW i \in 1..Len(s) PROVE s[i].at <= s[k].at <=> i \in 1..k
    <3>1. s[i].at \in Nat /\ s[k].at \in Nat /\ i \in Nat /\ k \in Nat
      BY <1>0
    <3>2. (i < k => s[i].at < s[k].at) /\ (k < i => s[k].at < s[i].at)
      OBVIOUS
    <3>. QED BY <3>1, <3>2
  <2>2. \A i \in 1..k : i \in 1..Len(s)
    BY <1>0
  <2>. QED BY <2>1, <2>2
<1>3. upto(Len(s)) = ats /\ Len(s) \in 0..Len(s)
  BY <1>0
<1>4. \A k \in 1..Len(s) : k \in 0..Len(s)
  BY <1>0
<1>. HIDE DEF ats, upto
<1>. QED BY <1>1, <1>2, <1>3, <1>4 DEF ats

(* Markers recorded in order are taken in that order. *)
LEMMA SortedAlready ==
    ASSUME lexer.recorded \in Seq(Marks),
           \A i, j \in 1..Len(lexer.recorded) : i < j => lexer.recorded[i].at < lexer.recorded[j].at
    PROVE  TakenOffsets = lexer.recorded
<1>. DEFINE s == lexer.recorded
            ats == {s[i].at : i \in 1..Len(s)}
            rank(x) == Cardinality({y \in ats : y <= x})
<1>0. Len(s) \in Nat /\ DOMAIN s = 1..Len(s) /\ s \in [1..Len(s) -> Marks]
  BY LenProperties
<1>1. Cardinality(ats) = Len(s) /\ \A k \in 1..Len(s) : rank(s[k].at) = k
  BY Ranks
<1>2. ASSUME NEW k \in 1..Len(s) PROVE (CHOOSE m \in ToSet(s) : rank(m.at) = k) = s[k]
  <2>1. ToSet(s) = {s[i] : i \in 1..Len(s)}
    BY <1>0 DEF ToSet
  <2>2. s[k] \in ToSet(s) /\ rank(s[k].at) = k
    BY <1>1, <2>1
  <2>3. \A m \in ToSet(s) : rank(m.at) = k => m = s[k]
    <3>. SUFFICES ASSUME NEW j \in 1..Len(s), rank(s[j].at) = k PROVE s[j] = s[k]
      BY <2>1
    <3>. HIDE DEF rank, ats
    <3>. QED BY <1>1
  <2>. HIDE DEF rank, s
  <2>. QED BY <2>2, <2>3
<1>3. TakenOffsets = [k \in 1..Len(s) |-> CHOOSE m \in ToSet(s) : rank(m.at) = k]
  <2>1. TakenOffsets = [k \in 1..Cardinality(ats) |-> CHOOSE m \in ToSet(s) : rank(m.at) = k]
    BY <1>0 DEF TakenOffsets
  <2>. QED BY <1>1, <2>1
<1>. HIDE DEF rank, ats
<1>. QED BY <1>0, <1>2, <1>3

-----------------------------------------------------------------------------
(* At the start of a file there is nothing to be wrong about.               *)
LEMMA FreshType ==
    ASSUME src \in Seq(Lexemes) PROVE IsLexer(Fresh, 1, <<>>, 1, <<>>, 0)
<1>. DEFINE e == <<>>
<1>1. EndPos \in Nat /\ EndPos >= 1
  BY DEF EndPos
<1>2. e \in Seq(Nat) /\ e \in Seq(Marks)
  BY NoMarkers
<1>3. Fresh = [pos |-> 1, buffer |-> e, start |-> 1, recorded |-> e, depth |-> 0]
  BY DEF Fresh
<1>. HIDE DEF e
<1>4. IsLexer(Fresh, 1, e, 1, e, 0)
  BY <1>1, <1>2, <1>3 DEF IsLexer, LexerStates
<1>. QED BY <1>4 DEF e

(* The parser starts on the first token of the file. *)
LEMMA InitKeeps ==
    ASSUME Init
    PROVE  /\ src \in Seq(Lexemes) /\ lexer \in LexerStates /\ current \in Cursors
           /\ AtToken(lexer, current, <<>>) /\ SavedAreReal(<<>>)
<1>. DEFINE r == ReadTrivia(Fresh)
<1>1. src \in Seq(Lexemes)
  BY SourcesAssumption DEF Init
<1>2. EndPos \in Nat /\ EndPos >= 1
  BY <1>1 DEF EndPos
<1>3. Context[1] = <<>> /\ TrueMarkers[1] = <<>>
  BY <1>1, <1>2, ContextRec, MarkersRec
<1>4. InterpsOf(<<>>) = 0 /\ ~IsRaw(<<>>)
  <2>1. {i \in DOMAIN <<>> : <<>>[i] = "interp"} = {}
    OBVIOUS
  <2>. QED BY <2>1, FS_EmptySet DEF InterpsOf, IsRaw
<1>5. Fresh \in LexerStates /\ Faithful(Fresh) /\ Fresh.pos = 1
  <2>1. Fresh \in LexerStates /\ Fresh.pos = 1 /\ Fresh.recorded = <<>> /\ Fresh.depth = 0
    BY <1>1, FreshType DEF IsLexer
  <2>. QED BY <1>3, <1>4, <2>1 DEF Faithful
<1>6. r \in LexerStates /\ Faithful(r) /\ Context[r.pos] = <<>>
  BY <1>1, <1>3, <1>4, <1>5, ReadTriviaReal
<1>7. <<>> \in Seq(Frames) /\ Shape(<<>>) = <<>>
  BY DEF Shape
<1>8. lexer = Lexeme(r).lexer /\ current = Lexeme(r).current
  BY DEF Init
<1>. HIDE DEF r
<1>9. /\ Lexeme(r).lexer \in LexerStates /\ Lexeme(r).current \in Cursors
      /\ AtToken(Lexeme(r).lexer, Lexeme(r).current, <<>>)
  BY <1>1, <1>4, <1>6, <1>7, AdvanceReal
<1>10. SavedAreReal(<<>>)
  BY DEF SavedAreReal
<1>. QED BY <1>1, <1>8, <1>9, <1>10

(* The invariant holds at the start. *)
LEMMA InitDInv == Init => DInv
<1>. SUFFICES ASSUME Init PROVE DInv
  OBVIOUS
<1>1. stack = <<>> /\ ast = <<>> /\ parsed = FALSE /\ offsets = <<>> /\ Start
  BY DEF Init
<1>2. <<>> \in Seq(Frames) /\ <<>> \in Seq(Nat)
  OBVIOUS
<1>. QED BY <1>1, <1>2, InitKeeps DEF DInv, TypeOK, ParseInv, PairedInv

(* What the source says does not change while it is parsed. *)
LEMMA SameSource ==
    ASSUME src' = src
    PROVE  /\ EndPos' = EndPos /\ LexerStates' = LexerStates /\ Context' = Context
           /\ TrueMarkers' = TrueMarkers /\ Frames' = Frames
BY DEF EndPos, LexerStates, Context, TrueMarkers, Opened, Mark, Frames, SavedStates

(* It speaks of the source and of the state alone. *)
LEMMA SameHere ==
    ASSUME src' = src
    PROVE  /\ Here(lexer, current, stack)' <=> Here(lexer', current', stack')
           /\ SavedAreReal(stack)' <=> SavedAreReal(stack')
<1>1. AtToken(lexer, current, stack)' <=> AtToken(lexer', current', stack')
  BY SameSource DEF AtToken, StandsAt, ReadBehind, TokenAt, Run, RunEnd
<1>2. InString(lexer, current, stack)' <=> InString(lexer', current', stack')
  BY SameSource DEF InString, Faithful
<1>3. SavedAreReal(stack)' <=> SavedAreReal(stack')
  BY SameSource DEF SavedAreReal, AtToken, StandsAt, ReadBehind, TokenAt, Run, RunEnd
<1>. QED BY <1>1, <1>2, <1>3 DEF Here

(* A step of the parser that keeps its place in the source keeps the        *)
(* invariant.                                                               *)
LEMMA ParsingKeeps ==
    ASSUME DInv, Parsing \/ UNCHANGED vars, ~parsed, StepKeeps PROVE DInv'
<1>1. src' = src /\ parsed' = parsed /\ UNCHANGED pvars
  BY DEF Parsing, vars
<1>2. offsets = <<>> /\ Start /\ src \in Seq(Lexemes) /\ parsed \in BOOLEAN
  BY DEF DInv, ParseInv, TypeOK
<1>3. offsets' = <<>> /\ Start'
  BY <1>1, <1>2 DEF pvars, Start
<1>4. TypeOK'
  BY <1>1, <1>2, SameSource DEF TypeOK, StepKeeps, Cursors
<1>5. Here(lexer, current, stack)' /\ SavedAreReal(stack)'
  BY <1>1, SameHere DEF StepKeeps
<1>6. ParseInv' /\ PairedInv'
  BY <1>1, <1>3, <1>5 DEF ParseInv, PairedInv, Here
<1>. QED BY <1>4, <1>6 DEF DInv

(* Nothing changes, nothing breaks. *)
LEMMA StutterKeeps ==
    ASSUME DInv, UNCHANGED vars PROVE DInv'
<1>1. /\ src' = src /\ lexer' = lexer /\ current' = current /\ stack' = stack /\ ast' = ast
      /\ parsed' = parsed /\ UNCHANGED pvars
  BY DEF vars, parser
<1>2. CASE ~parsed
  <2>1. StepKeeps
    BY <1>1, <1>2 DEF DInv, TypeOK, ParseInv, StepKeeps, Here
  <2>. QED BY <1>2, <2>1, ParsingKeeps
<1>3. CASE parsed
  <2>1. PInv'
    <3>1. PInv /\ [Pair]_pvars
      BY <1>1, <1>3 DEF DInv, PairedInv
    <3>. QED BY <3>1, NextPInv
  <2>2. TypeOK'
    BY <1>1, SameSource DEF DInv, TypeOK, Cursors
  <2>3. offsets' = TrueMarkers'[EndPos']
    BY <1>1, <1>3, SameSource DEF DInv, PairedInv, pvars
  <2>. QED BY <1>1, <1>3, <2>1, <2>2, <2>3 DEF DInv, ParseInv, PairedInv
<1>. QED BY <1>2, <1>3

(* A lexer whose record was taken is a lexer. *)
LEMMA EmptiedLexer ==
    ASSUME NEW l \in LexerStates, NEW r \in Seq(Marks)
    PROVE  [l EXCEPT !.recorded = r] \in LexerStates
BY DEF LexerStates

(* At the end of the file every marker has been recorded.                   *)
LEMMA AllRecorded ==
    ASSUME DInv, ~parsed, current.tok = "eof"
    PROVE  /\ lexer.recorded = TrueMarkers[EndPos] /\ lexer.recorded \in Seq(Marks)
           /\ TakenOffsets = lexer.recorded /\ lexer.buffer = <<>>
<1>1. src \in Seq(Lexemes) /\ AtToken(lexer, current, stack)
  BY ParsingHere
<1>2. PICK c \in 1..EndPos : StandsAt(lexer, current, c, Shape(stack))
  BY <1>1 DEF AtToken
<1>3. c = EndPos
  <2>1. TokenAt(c) = "eof" /\ EndPos = Len(src) + 1 /\ Len(src) \in Nat
    BY <1>1, <1>2 DEF StandsAt, EndPos
  <2>2. c <= Len(src) => src[c] = "eof" /\ src[c] \in Lexemes
    BY <1>1, <2>1 DEF TokenAt
  <2>. QED BY <2>1, <2>2, NoLexemes
<1>4. ReadBehind(lexer, "eof", c) /\ lexer.recorded = TrueMarkers[lexer.pos]
  BY <1>2 DEF StandsAt
<1>5. lexer.pos = EndPos /\ lexer.buffer = <<>>
  BY <1>3, <1>4, DefersCases, TokenNames DEF ReadBehind
<1>6. EndPos \in 1..EndPos
  BY <1>1 DEF EndPos
<1>7. lexer.recorded \in Seq(Marks) /\ Ordered(lexer.recorded, EndPos)
  BY <1>1, <1>4, <1>5, <1>6, MarkersRec, MarkersOrdered
<1>8. TakenOffsets = lexer.recorded
  BY <1>7, SortedAlready DEF Ordered
<1>. QED BY <1>4, <1>5, <1>7, <1>8

(* At the end the record is taken: the offsets are the markers of the       *)
(* source, and pairing may start.                                           *)
LEMMA ParseEndsKeeps == ASSUME DInv, ParseEnds PROVE DInv'
<1>1. /\ ~parsed /\ current.tok = "eof" /\ ast' = ast \o current.pre /\ current' = Nothing
      /\ offsets' = TakenOffsets /\ lexer' = [lexer EXCEPT !.recorded = <<>>]
      /\ n' = 1 /\ open' = 0 /\ actions' = [i \in DOMAIN offsets' |-> "Inert"]
      /\ parsed' = TRUE /\ src' = src /\ stack' = stack
  BY DEF ParseEnds
<1>2. offsets' = TrueMarkers[EndPos] /\ offsets' \in Seq(Marks)
  BY <1>1, AllRecorded
<1>3. PInv'
  <2>1. DOMAIN offsets' = 1..Len(offsets')
    BY <1>2
  <2>2. PairInit'
    BY <1>1, <1>2, <2>1 DEF PairInit, Start
  <2>. QED BY <2>2, InitPInv, PTL
<1>4. TypeOK'
  <2>1. src' \in Seq(Lexemes) /\ stack' \in Seq(Frames) /\ ast' \in Seq(Nat) /\ current' \in Cursors
    BY <1>1, ParsingHere, TakeType, NothingType
  <2>2. lexer' \in LexerStates
    BY <1>1, ParsingHere, NoMarkers, EmptiedLexer, Zenon
  <2>. QED BY <1>1, <2>1, <2>2, SameSource DEF TypeOK, Cursors
<1>5. PairedInv'
  BY <1>1, <1>2, <1>3, SameSource DEF PairedInv
<1>. QED BY <1>1, <1>4, <1>5 DEF DInv, ParseInv

(* A step of the pairing keeps the invariant of the pairing. *)
LEMMA PairingKeeps == ASSUME DInv, Pairing PROVE DInv'
<1>1. /\ parsed /\ Pair /\ src' = src /\ parsed' = parsed /\ lexer' = lexer /\ current' = current
      /\ stack' = stack /\ ast' = ast
  BY DEF Pairing, parser
<1>2. PInv'
  BY <1>1, NextPInv DEF DInv, PairedInv
<1>3. offsets' = offsets
  BY <1>1 DEF Pair, OpenRegion, CloseRegion, LeaveInert, EndOfFile
<1>4. TypeOK'
  BY <1>1, SameSource DEF DInv, TypeOK, Cursors
<1>5. PairedInv'
  BY <1>1, <1>2, <1>3, SameSource DEF DInv, PairedInv
<1>. QED BY <1>1, <1>4, <1>5 DEF DInv, ParseInv

(* Every step keeps the invariant. *)
LEMMA NextDInv == DInv /\ [Next]_vars => DInv'
<1>. SUFFICES ASSUME DInv, [Next]_vars PROVE DInv'
  OBVIOUS
<1>1. ASSUME Parsing, StepKeeps PROVE DInv'
  BY <1>1, ParsingKeeps DEF Parsing
<1>2. CASE Plain
  BY <1>1, <1>2, PlainKeeps DEF Plain, Parsing
<1>3. CASE OpenBrace
  BY <1>1, <1>3, OpenBraceKeeps DEF OpenBrace, Parsing
<1>4. CASE Backtrack
  BY <1>1, <1>4, BacktrackKeeps DEF Backtrack, Parsing
<1>5. CASE Ellipsis
  BY <1>1, <1>5, EllipsisKeeps DEF Ellipsis, Parsing
<1>6. CASE CloseBrace \/ ExitSelector
  BY <1>1, <1>6, CloseKeeps DEF CloseBrace, ExitSelector, Parsing
<1>7. CASE EnterSelector
  BY <1>1, <1>7, EnterSelectorKeeps DEF EnterSelector, Parsing
<1>8. CASE OpenString
  BY <1>1, <1>8, OpenStringKeeps DEF OpenString, Parsing
<1>9. CASE RawText
  BY <1>1, <1>9, RawTextKeeps DEF RawText, Parsing
<1>10. CASE EnterInterp
  BY <1>1, <1>10, EnterInterpKeeps DEF EnterInterp, Parsing
<1>11. CASE ExitInterp
  BY <1>1, <1>11, ExitInterpKeeps DEF ExitInterp, Parsing
<1>12. CASE CloseString
  BY <1>1, <1>12, CloseStringKeeps DEF CloseString, Parsing
<1>13. CASE ParseEnds
  BY <1>13, ParseEndsKeeps
<1>14. CASE Pairing
  BY <1>14, PairingKeeps
<1>15. CASE Finished \/ UNCHANGED vars
  BY <1>15, StutterKeeps DEF Finished
<1>. QED BY <1>2, <1>3, <1>4, <1>5, <1>6, <1>7, <1>8, <1>9, <1>10, <1>11, <1>12, <1>13, <1>14,
            <1>15 DEF Next

(* The parser of every file keeps the invariant. *)
THEOREM DirectivesInvariant == Spec => []DInv
BY InitDInv, NextDInv, PTL DEF Spec

(* What is recorded is what the lexer has passed in code: no marker twice   *)
(* after a backtrack, none from raw text, and each at the nesting it stands *)
(* at (RecordedAreReal; src/lexer/mod.rs, src/parser/mod.rs).               *)
THEOREM RecordedReal == Spec => []RecordedAreReal
<1>1. DInv => RecordedAreReal
  BY DEF DInv, ParseInv, PairedInv, RecordedAreReal, AtToken, StandsAt, InString, Faithful
<1>. QED BY <1>1, DirectivesInvariant, PTL

(* The regions of every file are well formed: the pairing is proved for     *)
(* every sequence of offsets that grows, and those of a file do             *)
(* (RegionsWellFormed; src/lexer/directives.rs).                            *)
THEOREM RegionsOfFiles == Spec => []RegionsWellFormed
<1>1. ASSUME DInv PROVE RegionsWellFormed
  <2>1. CASE parsed
    BY <1>1, <2>1 DEF DInv, PairedInv, PInv
  <2>2. CASE ~parsed
    <3>1. offsets = <<>> /\ Start
      BY <1>1, <2>2 DEF DInv, ParseInv
    <3>2. PairInit
      BY <3>1 DEF PairInit
    <3>. QED BY <3>2, InitPInv DEF PInv
  <2>. QED BY <2>1, <2>2
<1>. QED BY <1>1, DirectivesInvariant, PTL

-----------------------------------------------------------------------------
(* What is recorded goes into the tree.                                     *)
LEMMA ConcatMarks ==
    ASSUME NEW a \in Seq(Marks), NEW b \in Seq(Marks)
    PROVE  /\ a \o b \in Seq(Marks) /\ Len(a \o b) = Len(a) + Len(b) /\ Len(a) \in Nat /\ Len(b) \in Nat
           /\ \A i \in 1..Len(a) : (a \o b)[i] = a[i]
           /\ \A i \in 1..(Len(a) + Len(b)) : i > Len(a) => (a \o b)[i] = b[i - Len(a)]
OBVIOUS

(* The same for positions. *)
LEMMA ConcatNat ==
    ASSUME NEW a \in Seq(Nat), NEW b \in Seq(Nat)
    PROVE  /\ a \o b \in Seq(Nat) /\ Len(a \o b) = Len(a) + Len(b) /\ Len(a) \in Nat /\ Len(b) \in Nat
           /\ \A i \in 1..Len(a) : (a \o b)[i] = a[i]
           /\ \A i \in 1..(Len(a) + Len(b)) : i > Len(a) => (a \o b)[i] = b[i - Len(a)]
OBVIOUS

(* Positions are joined in any order. *)
LEMMA ConcatThree ==
    ASSUME NEW a \in Seq(Nat), NEW b \in Seq(Nat), NEW c \in Seq(Nat)
    PROVE  a \o (b \o c) = (a \o b) \o c /\ (a \o b) \o c \in Seq(Nat)
OBVIOUS

(* The positions of markers. *)
LEMMA AtType ==
    ASSUME NEW marks \in Seq(Marks) PROVE At(marks) \in Seq(Nat) /\ Len(At(marks)) = Len(marks)
<1>1. DOMAIN marks = 1..Len(marks) /\ Len(marks) \in Nat /\ \A i \in 1..Len(marks) : marks[i] \in Marks
  BY LenProperties, ElementOfSeq
<1>2. \A m \in Marks : m.at \in Nat
  BY DEF Marks
<1>3. At(marks) = [i \in 1..Len(marks) |-> marks[i].at]
  BY <1>1 DEF At
<1>4. \A i \in 1..Len(marks) : marks[i].at \in Nat
  BY <1>1, <1>2
<1>. QED BY <1>1, <1>3, <1>4

(* The positions of a run of markers. *)
LEMMA RunType ==
    ASSUME src \in Seq(Lexemes), NEW p \in 1..EndPos PROVE Run(p) \in Seq(Nat)
<1>0. EndPos \in Nat /\ p \in Nat
  BY DEF EndPos
<1>1. RunEnd(p) \in p..EndPos
  BY RunEndProps
<1>. DEFINE q == RunEnd(p)
<1>2. Run(p) = [i \in 1..(q - p) |-> p + i - 1]
  BY DEF Run
<1>. HIDE DEF q
<1>3. q - p \in Nat /\ \A i \in 1..(q - p) : p + i - 1 \in Nat
  BY <1>0, <1>1 DEF q
<1>. QED BY <1>2, <1>3

(* Recording a run adds its positions at the end. *)
LEMMA AtRecord ==
    ASSUME NEW l \in LexerStates, NEW ps \in Seq(Nat)
    PROVE  Record(l, ps) \in Seq(Marks) /\ At(Record(l, ps)) = At(l.recorded) \o ps
<1>. DEFINE r == l.recorded
            f == [i \in 1..Len(ps) |-> Mark(ps[i], l.depth)]
<1>0. r \in Seq(Marks) /\ l.depth \in Nat /\ Len(ps) \in Nat /\ DOMAIN ps = 1..Len(ps)
  BY LexerType, LenProperties
<1>1. f \in Seq(Marks) /\ Len(f) = Len(ps) /\ \A i \in 1..Len(ps) : f[i].at = ps[i]
  <2>1. \A i \in 1..Len(ps) : Mark(ps[i], l.depth) \in Marks /\ Mark(ps[i], l.depth).at = ps[i]
    BY <1>0, ElementOfSeq DEF Mark, Marks
  <2>. QED BY <1>0, <2>1
<1>2. Record(l, ps) = r \o f
  BY <1>0 DEF Record
<1>. HIDE DEF r, f
<1>3. /\ r \o f \in Seq(Marks) /\ Len(r \o f) = Len(r) + Len(f) /\ Len(r) \in Nat /\ Len(f) \in Nat
      /\ \A i \in 1..Len(r) : (r \o f)[i] = r[i]
      /\ \A i \in 1..(Len(r) + Len(f)) : i > Len(r) => (r \o f)[i] = f[i - Len(r)]
  BY <1>0, <1>1, ConcatMarks
<1>4. /\ At(r) \o ps \in Seq(Nat) /\ Len(At(r) \o ps) = Len(r) + Len(ps)
      /\ \A i \in 1..Len(r) : (At(r) \o ps)[i] = At(r)[i]
      /\ \A i \in 1..(Len(r) + Len(ps)) : i > Len(r) => (At(r) \o ps)[i] = ps[i - Len(r)]
  <2>1. At(r) \in Seq(Nat) /\ Len(At(r)) = Len(r)
    BY <1>0, AtType DEF r
  <2>. DEFINE z == At(r)
  <2>. HIDE DEF z
  <2>2. /\ z \o ps \in Seq(Nat) /\ Len(z \o ps) = Len(z) + Len(ps)
        /\ \A i \in 1..Len(z) : (z \o ps)[i] = z[i]
        /\ \A i \in 1..(Len(z) + Len(ps)) : i > Len(z) => (z \o ps)[i] = ps[i - Len(z)]
    BY <2>1, ConcatNat DEF z
  <2>3. Len(z) = Len(r)
    BY <2>1 DEF z
  <2>. QED BY <2>2, <2>3, Zenon DEF z
<1>5. At(r \o f) \in Seq(Nat) /\ Len(At(r \o f)) = Len(r) + Len(ps)
  BY <1>1, <1>3, AtType
<1>6. \A i \in 1..(Len(r) + Len(ps)) : At(r \o f)[i] = (At(r) \o ps)[i]
  <2>. SUFFICES ASSUME NEW i \in 1..(Len(r) + Len(ps)) PROVE At(r \o f)[i] = (At(r) \o ps)[i]
    OBVIOUS
  <2>. DEFINE u == r \o f
  <2>1. At(u)[i] = u[i].at
    <3>1. DOMAIN u = 1..(Len(r) + Len(ps))
      BY <1>1, <1>3, LenProperties
    <3>. HIDE DEF u
    <3>. QED BY <3>1 DEF At
  <2>2. CASE i <= Len(r)
    <3>1. i \in 1..Len(r) /\ At(r)[i] = r[i].at
      BY <1>0, <1>3, <2>2 DEF At
    <3>. QED BY <1>1, <1>3, <1>4, <2>1, <2>2, <3>1
  <2>3. CASE i > Len(r)
    <3>1. i - Len(r) \in 1..Len(ps) /\ ~(i <= Len(r))
      BY <1>0, <1>3, <2>3
    <3>. QED BY <1>1, <1>3, <1>4, <2>1, <2>3, <3>1
  <2>4. i <= Len(r) \/ i > Len(r)
    <3>1. Len(r) \in Nat
      BY <1>3
    <3>. QED BY <1>0, <3>1
  <2>. QED BY <2>2, <2>3, <2>4
<1>7. At(r \o f) = At(r) \o ps
  <2>. DEFINE x == At(r \o f)   y == At(r) \o ps
  <2>. HIDE DEF x, y
  <2>1. x \in Seq(Nat) /\ y \in Seq(Nat) /\ Len(x) = Len(y) /\ \A i \in 1..Len(x) : x[i] = y[i]
    BY <1>4, <1>5, <1>6 DEF x, y
  <2>2. x = y
    BY <2>1, SeqEqual
  <2>. QED BY <2>2 DEF x, y
<1>. QED BY <1>2, <1>3, <1>7 DEF r

(* What reading the trivia again leaves in the buffer. *)
LEMMA SyncFields ==
    ASSUME src \in Seq(Lexemes), NEW l \in LexerStates
    PROVE  /\ SyncTrivia(l) \in LexerStates /\ SyncTrivia(l).pos = RunEnd(l.pos)
           /\ SyncTrivia(l).buffer = l.buffer \o Run(l.pos)
           /\ SyncTrivia(l).recorded = Record(l, Run(l.pos)) /\ SyncTrivia(l).depth = l.depth
<1>1. /\ l.pos \in 1..EndPos /\ l.pos \in Nat /\ l.buffer \in Seq(Nat)
  BY LexerType DEF EndPos
<1>2. RunEnd(l.pos) \in 1..EndPos /\ Run(l.pos) \in Seq(Nat)
  <2>1. RunEnd(l.pos) \in l.pos..EndPos
    BY <1>1, RunEndProps
  <2>. QED BY <1>1, <2>1, RunType DEF EndPos
<1>3. l.buffer \o Run(l.pos) \in Seq(Nat) /\ Record(l, Run(l.pos)) \in Seq(Marks)
  BY <1>1, <1>2, ConcatNat, AtRecord
<1>. QED BY <1>1, <1>2, <1>3 DEF SyncTrivia, LexerStates

(* What reading the trivia leaves in the buffer. *)
LEMMA ReadFields ==
    ASSUME src \in Seq(Lexemes), NEW l \in LexerStates
    PROVE  /\ ReadTrivia(l) \in LexerStates /\ ReadTrivia(l).pos = RunEnd(l.pos)
           /\ ReadTrivia(l).buffer = Run(l.pos)
           /\ ReadTrivia(l).recorded = Record(l, Run(l.pos)) /\ ReadTrivia(l).depth = l.depth
<1>1. /\ l.pos \in 1..EndPos /\ l.pos \in Nat
  BY LexerType DEF EndPos
<1>2. RunEnd(l.pos) \in 1..EndPos /\ Run(l.pos) \in Seq(Nat)
  <2>1. RunEnd(l.pos) \in l.pos..EndPos
    BY <1>1, RunEndProps
  <2>. QED BY <1>1, <2>1, RunType DEF EndPos
<1>3. Record(l, Run(l.pos)) \in Seq(Marks)
  BY <1>2, AtRecord
<1>. QED BY <1>1, <1>2, <1>3 DEF ReadTrivia, LexerStates

(* What taking the trivia over leaves in the buffer. *)
LEMMA ConsumeFields ==
    ASSUME src \in Seq(Lexemes), NEW l \in LexerStates
    PROVE  /\ Consume(l) \in LexerStates /\ Consume(l).buffer = <<>>
           /\ Consume(l).recorded = l.recorded /\ Consume(l).depth = l.depth
<1>. DEFINE p == IF l.pos = EndPos THEN l.pos ELSE l.pos + 1
<1>1. p \in 1..EndPos /\ Consume(l) = [l EXCEPT !.pos = p, !.buffer = <<>>]
  BY LexerType DEF EndPos, Consume
<1>. HIDE DEF p
<1>2. IsLexer(Consume(l), p, <<>>, l.start, l.recorded, l.depth)
  BY <1>1, MovedTo, NoMarkers, Zenon
<1>. QED BY <1>2 DEF IsLexer

(* One lexeme: what it is given is what was buffered and what is read in    *)
(* front of it, what is read behind it is buffered.                         *)
LEMMA LexemeTree ==
    ASSUME src \in Seq(Lexemes), NEW l \in LexerStates, NEW a \in Seq(Nat),
           a \o l.buffer = At(l.recorded)
    PROVE  Lexeme(l).lexer \in LexerStates /\ InTree(a, Lexeme(l).current.pre, Lexeme(l).lexer)
<1>. DEFINE synced == SyncTrivia(l)
            after  == Consume(synced)
            tok    == TokenAt(synced.pos)
            pre    == l.buffer \o Run(l.pos)
            next   == Lexeme(l).lexer
<1>0. l.pos \in 1..EndPos /\ l.buffer \in Seq(Nat) /\ l.recorded \in Seq(Marks)
  BY LexerType
<1>1. Run(l.pos) \in Seq(Nat) /\ pre \in Seq(Nat)
  BY <1>0, RunType, ConcatNat
<1>2. synced \in LexerStates /\ synced.buffer = pre /\ synced.recorded = Record(l, Run(l.pos))
  BY SyncFields
<1>3. after \in LexerStates /\ after.buffer = <<>> /\ after.recorded = synced.recorded
  <2>. HIDE DEF synced
  <2>. QED BY <1>2, ConsumeFields
<1>4. Lexeme(l).current.pre = pre
  <2>1. Lexeme(l).current = [tok |-> tok, pre |-> synced.buffer]
    BY DEF Lexeme
  <2>. HIDE DEF tok, synced, pre
  <2>. QED BY <1>2, <2>1
<1>5. a \o pre = At(after.recorded) /\ a \o pre \in Seq(Nat)
  <2>1. a \o pre = (a \o l.buffer) \o Run(l.pos)
    BY <1>0, <1>1, ConcatThree
  <2>2. At(Record(l, Run(l.pos))) = At(l.recorded) \o Run(l.pos)
    BY <1>1, AtRecord
  <2>. HIDE DEF pre, after, synced
  <2>. QED BY <1>1, <1>2, <1>3, <2>1, <2>2, ConcatNat
<1>6. Lexeme(l).lexer = IF Defers(tok, l.depth) THEN [after EXCEPT !.start = after.pos]
                                               ELSE ReadTrivia(after)
  BY DEF Lexeme
<1>. HIDE DEF synced, after, pre, tok
<1>7. CASE Defers(tok, l.depth)
  <2>1. after.pos \in Nat
    BY <1>3, LexerType
  <2>2. IsLexer([after EXCEPT !.start = after.pos],
                after.pos, after.buffer, after.pos, after.recorded, after.depth)
    BY <1>3, <2>1, StartsAt, Zenon
  <2>3. next \in LexerStates /\ next.buffer = <<>> /\ next.recorded = after.recorded
    BY <1>3, <1>6, <1>7, <2>2 DEF IsLexer
  <2>. HIDE DEF next
  <2>4. (a \o pre) \o <<>> = a \o pre
    BY <1>5
  <2>. QED BY <1>1, <1>4, <1>5, <2>3, <2>4 DEF InTree, next
<1>8. CASE ~Defers(tok, l.depth)
  <2>1. /\ next.buffer = Run(after.pos) /\ next.recorded = Record(after, Run(after.pos))
        /\ Run(after.pos) \in Seq(Nat) /\ next \in LexerStates
    BY <1>3, <1>6, <1>8, ReadFields, RunType, LexerType
  <2>2. At(Record(after, Run(after.pos))) = At(after.recorded) \o Run(after.pos)
    BY <1>3, <2>1, AtRecord
  <2>. HIDE DEF next
  <2>. QED BY <1>1, <1>4, <1>5, <2>1, <2>2 DEF InTree, next
<1>. QED BY <1>7, <1>8
-----------------------------------------------------------------------------
(* What is saved at a `{` goes into the tree too. *)
SavedTree(st) == \A i \in 1..Len(st) : st[i].kind = "formals" =>
    InTree(st[i].saved[1].ast, st[i].saved[1].current.pre, st[i].saved[1].lexer)

(* A frame that is pushed with such a state keeps it so. *)
LEMMA SavedTreeAppend ==
    ASSUME NEW st \in Seq(Frames), SavedTree(st), NEW f \in Frames,
           f.kind = "formals" => InTree(f.saved[1].ast, f.saved[1].current.pre, f.saved[1].lexer)
    PROVE  SavedTree(Append(st, f))
<1>. DEFINE t == Append(st, f)
<1>1. /\ Len(st) \in Nat /\ Len(t) = Len(st) + 1 /\ t[Len(st) + 1] = f
      /\ \A i \in 1..Len(st) : t[i] = st[i]
  BY StackAppend
<1>. HIDE DEF t
<1>2. ASSUME NEW i \in 1..(Len(st) + 1), t[i].kind = "formals"
      PROVE  InTree(t[i].saved[1].ast, t[i].saved[1].current.pre, t[i].saved[1].lexer)
  <2>1. CASE i \in 1..Len(st)
    <3>1. t[i] = st[i]
      BY <1>1, <2>1
    <3>. QED BY <1>2, <2>1, <3>1 DEF SavedTree
  <2>2. CASE i = Len(st) + 1
    BY <1>1, <1>2, <2>2
  <2>. QED BY <1>1, <2>1, <2>2
<1>. QED BY <1>1, <1>2 DEF SavedTree, t

(* A frame that is popped keeps it so. *)
LEMMA SavedTreeFront ==
    ASSUME NEW st \in Seq(Frames), SavedTree(st), st # <<>> PROVE SavedTree(Front(st))
<1>. DEFINE t == Front(st)
<1>1. Len(st) \in Nat /\ Len(t) = Len(st) - 1 /\ \A i \in 1..(Len(st) - 1) : t[i] = st[i]
  BY SeqFront
<1>. HIDE DEF t
<1>2. \A i \in 1..(Len(st) - 1) : i \in 1..Len(st)
  BY <1>1
<1>. QED BY <1>1, <1>2 DEF SavedTree, t

(* No marker stands between `...` and a comma behind it.                    *)
CommasFollow(s) ==
    \A p, q \in 1..Len(s) :
        s[p] = "..." /\ s[q] = "," /\ p < q /\ (\A r \in (p + 1)..(q - 1) : s[r] \in Markers)
        => q = p + 1

(* The same after a step, and before it.                                    *)
TreeKeeps == InTree(ast', current'.pre, lexer') /\ SavedTree(stack')
Treed == InTree(ast, current.pre, lexer) /\ SavedTree(stack)

(* The types of what goes into the tree. *)
LEMMA ParsingTree ==
    ASSUME DInv, ~parsed, Treed
    PROVE  /\ ast \in Seq(Nat) /\ current.pre \in Seq(Nat) /\ lexer.buffer \in Seq(Nat)
           /\ ast \o current.pre \in Seq(Nat) /\ (ast \o current.pre) \o lexer.buffer = At(lexer.recorded)
           /\ SavedTree(stack)
<1>1. ast \in Seq(Nat) /\ current.pre \in Seq(Nat) /\ lexer.buffer \in Seq(Nat)
  BY ParsingHere, LexerType
<1>. QED BY <1>1, ConcatNat DEF Treed, InTree

(* A token that is taken puts its markers into the tree and finds those in  *)
(* front of the next.                                                       *)
LEMMA TakeTree ==
    ASSUME DInv, ~parsed, Treed, Take
    PROVE  InTree(ast', current'.pre, lexer')
<1>1. ast' = ast \o current.pre /\ lexer' = Lexeme(lexer).lexer /\ current' = Lexeme(lexer).current
  BY DEF Take, Advance
<1>2. InTree(ast \o current.pre, Lexeme(lexer).current.pre, Lexeme(lexer).lexer)
  BY ParsingHere, ParsingTree, LexemeTree
<1>. QED BY <1>1, <1>2

(* Nothing is lost at a token that opens and closes nothing. *)
LEMMA PlainTree == ASSUME DInv, ~parsed, Treed, Plain PROVE TreeKeeps
<1>1. Take /\ stack' = stack
  BY Zenon DEF Plain
<1>. QED BY <1>1, TakeTree DEF TreeKeeps, Treed

(* Nothing is lost at a brace, and nothing in the state saved at it. *)
LEMMA OpenBraceTree == ASSUME DInv, ~parsed, Treed, OpenBrace PROVE TreeKeeps
<1>. DEFINE saved == <<[lexer |-> lexer, current |-> current, ast |-> ast]>>
            f == IF current'.tok \in {"x", "..."} THEN [kind |-> "formals", saved |-> saved]
                                                  ELSE Frame("binders")
<1>1. Take /\ stack' = Append(stack, f)
  BY Zenon DEF OpenBrace
<1>2. lexer \in LexerStates /\ current \in Cursors /\ stack \in Seq(Frames) /\ ast \in Seq(Nat)
  BY ParsingHere
<1>3. /\ saved \in Seq(SavedStates) /\ saved[1].current = current /\ saved[1].lexer = lexer
      /\ saved[1].ast = ast
  BY <1>2 DEF SavedStates
<1>. HIDE DEF saved
<1>4. f \in Frames /\ (f.kind = "formals" => f.saved = saved)
  <2>1. Frame("binders") \in Frames /\ Frame("binders").kind = "binders"
    BY FrameType DEF Kinds
  <2>2. [kind |-> "formals", saved |-> saved] \in Frames
    BY <1>3 DEF Frames, Kinds
  <2>. QED BY <2>1, <2>2
<1>. HIDE DEF f
<1>5. f.kind = "formals" => InTree(f.saved[1].ast, f.saved[1].current.pre, f.saved[1].lexer)
  BY <1>3, <1>4 DEF Treed
<1>6. SavedTree(Append(stack, f))
  BY <1>2, <1>4, <1>5, SavedTreeAppend DEF Treed
<1>. QED BY <1>1, <1>6, TakeTree DEF TreeKeeps

(* Nothing is lost where a construct of code closes. *)
LEMMA CloseTree == ASSUME DInv, ~parsed, Treed, CloseBrace \/ ExitSelector PROVE TreeKeeps
<1>1. Take /\ stack' = Front(stack) /\ stack # <<>>
  BY Zenon DEF CloseBrace, ExitSelector, Top
<1>. QED BY <1>1, TakeTree, ParsingHere, SavedTreeFront DEF TreeKeeps, Treed

(* Nothing is lost where an interpolation outside strings opens. *)
LEMMA EnterSelectorTree == ASSUME DInv, ~parsed, Treed, EnterSelector PROVE TreeKeeps
<1>1. Take /\ stack' = Append(stack, Frame("selector"))
  BY Zenon DEF EnterSelector
<1>2. Frame("selector") \in Frames /\ Frame("selector").kind # "formals"
  BY FrameType DEF Kinds
<1>. QED BY <1>1, <1>2, TakeTree, ParsingHere, SavedTreeAppend DEF TreeKeeps, Treed

(* Nothing is lost in a backtrack: what was dropped is read again. *)
LEMMA BacktrackTree == ASSUME DInv, ~parsed, Treed, Backtrack PROVE TreeKeeps
<1>. DEFINE s == Last(stack).saved[1]
            m == Restored(s)
<1>1. /\ Top = "formals"
      /\ ast' = s.ast \o s.current.pre /\ lexer' = Lexeme(m).lexer
      /\ current' = Lexeme(m).current /\ stack' = Append(Front(stack), Frame("binders"))
  BY DEF Backtrack, Advance
<1>2. /\ src \in Seq(Lexemes) /\ lexer \in LexerStates /\ stack \in Seq(Frames) /\ SavedAreReal(stack)
  BY ParsingHere
<1>3. stack # <<>> /\ Last(stack).kind = "formals" /\ Len(stack) >= 1 /\ Len(stack) \in Nat
      /\ Last(stack) = stack[Len(stack)] /\ Last(stack) \in Frames /\ Front(stack) \in Seq(Frames)
  BY <1>1, <1>2, ShapeFront DEF Top, Last
<1>4. Last(stack).saved # <<>> /\ InTree(s.ast, s.current.pre, s.lexer)
  BY <1>2, <1>3 DEF SavedAreReal, Treed, SavedTree
<1>5. s \in SavedStates
  BY <1>3, <1>4 DEF Frames
<1>. HIDE DEF s
<1>6. s.lexer \in LexerStates /\ s.ast \in Seq(Nat) /\ s.current.pre \in Seq(Nat)
  BY <1>5 DEF SavedStates, Cursors
<1>7. m \in LexerStates /\ m.buffer = s.lexer.buffer /\ m.recorded = s.lexer.recorded
  BY <1>2, <1>6 DEF Restored, LexerStates
<1>. HIDE DEF m
<1>8. s.ast \o s.current.pre \in Seq(Nat) /\ (s.ast \o s.current.pre) \o m.buffer = At(m.recorded)
  BY <1>4, <1>6, <1>7, ConcatNat DEF InTree
<1>9. InTree(s.ast \o s.current.pre, Lexeme(m).current.pre, Lexeme(m).lexer)
  BY <1>2, <1>7, <1>8, LexemeTree
<1>10. Frame("binders") \in Frames /\ Frame("binders").kind # "formals"
  BY FrameType DEF Kinds
<1>11. SavedTree(Append(Front(stack), Frame("binders")))
  BY <1>2, <1>3, <1>10, SavedTreeFront, SavedTreeAppend DEF Treed
<1>. QED BY <1>1, <1>9, <1>11 DEF TreeKeeps

(* One more token by name.                                                  *)
comma == ","

(* `...` followed by a comma that is skipped: nothing was read in between.  *)
LEMMA NothingSkipped ==
    ASSUME DInv, ~parsed, CommasFollow(src), current.tok = "...", NEW next, next = Lexeme(lexer),
           next.current.tok = comma
    PROVE  next.current.pre = <<>>
<1>0. /\ src \in Seq(Lexemes) /\ lexer \in LexerStates /\ current \in Cursors
      /\ stack \in Seq(Frames) /\ AtToken(lexer, current, stack)
  BY ParsingHere
<1>1. PICK c \in 1..EndPos : StandsAt(lexer, current, c, Shape(stack))
  BY <1>0 DEF AtToken
<1>2. current.tok # "eof" /\ current.tok # "quote" /\ current.tok # rbrace /\ current.tok \in plain
  <2>1. current.tok \in plain
    BY Zenon DEF plain
  <2>. QED BY <2>1, TokenNames
<1>3. c \in 1..(EndPos - 1) /\ src[c] = "..."
  BY <1>0, <1>1, <1>2, PastToken
<1>4. lexer.pos = RunEnd(c + 1) /\ lexer.buffer = Run(c + 1)
  BY <1>1, <1>2, DefersCases DEF StandsAt, ReadBehind
<1>5. /\ Len(src) \in Nat /\ EndPos = Len(src) + 1 /\ c + 1 \in 1..EndPos /\ c \in 1..Len(src)
  BY <1>0, <1>3 DEF EndPos
<1>. DEFINE q == RunEnd(c + 1)
<1>6. /\ q \in (c + 1)..EndPos /\ TokenAt(q) \notin Markers
      /\ \A r \in (c + 1)..(q - 1) : src[r] \in Markers
  BY <1>0, <1>5, RunEndProps
<1>7. RunEnd(q) = q /\ Run(q) = <<>>
  BY <1>0, <1>5, <1>6, RunEndSelf
<1>9. Faithful(lexer) /\ ~IsRaw(Context[lexer.pos])
  <2>1. Context[lexer.pos] = Opened(Shape(stack), current.tok) /\ Shape(stack) \in Contexts
    BY <1>0, <1>1, <1>2, PastToken
  <2>2. Opened(Shape(stack), current.tok) = Shape(stack)
    BY <1>2, <2>1, OpenedCases, TokenNames
  <2>. QED BY <1>1, <2>1, <2>2 DEF StandsAt, Faithful
<1>8. next.current.tok = TokenAt(q) /\ next.current.pre = lexer.buffer \o Run(q)
  <2>1. next.current.pre = lexer.buffer \o Run(lexer.pos)
        /\ StandsAt(next.lexer, next.current, RunEnd(lexer.pos), Context[lexer.pos])
    BY <1>0, <1>9, LexemeReal
  <2>. QED BY <1>4, <1>7, <2>1 DEF StandsAt
<1>10. q \in 1..Len(src) /\ src[q] = comma
  <2>1. TokenAt(q) = comma /\ comma # "eof"
    BY <1>8, Zenon DEF comma
  <2>2. q <= Len(src)
    BY <1>5, <1>6, <2>1 DEF TokenAt
  <2>. QED BY <1>5, <1>6, <2>1, <2>2 DEF TokenAt
<1>. HIDE DEF q
<1>11. q = c + 1
  <2>1. c < q
    BY <1>5, <1>6
  <2>2. src[q] = ","
    BY <1>10, Zenon DEF comma
  <2>. QED BY <1>3, <1>5, <1>6, <1>10, <2>1, <2>2, Zenon DEF CommasFollow
<1>12. Run(c + 1) = <<>>
  BY <1>7, <1>11
<1>13. <<>> \o <<>> = <<>>
  OBVIOUS
<1>. QED BY <1>4, <1>7, <1>8, <1>12, <1>13

(* Nothing is lost behind `...` when no marker stands in front of the       *)
(* comma.                                                                   *)
LEMMA EllipsisTree == ASSUME DInv, ~parsed, Treed, CommasFollow(src), Ellipsis PROVE TreeKeeps
<1>. DEFINE next == Lexeme(lexer)
            a == ast \o current.pre
<1>1. /\ current.tok = "..." /\ ast' = a /\ stack' = stack
      /\ next.current.tok = comma => lexer' = Lexeme(next.lexer).lexer
                                     /\ current' = Lexeme(next.lexer).current
      /\ next.current.tok # comma => lexer' = next.lexer /\ current' = next.current
  BY Zenon DEF Ellipsis, comma, Advance
<1>2. src \in Seq(Lexemes) /\ lexer \in LexerStates /\ a \in Seq(Nat) /\ a \o lexer.buffer = At(lexer.recorded)
  BY ParsingHere, ParsingTree
<1>. HIDE DEF a
<1>3. InTree(a, next.current.pre, next.lexer)
  BY <1>2, LexemeTree
<1>4. CASE next.current.tok = comma
  <2>1. next.current.pre = <<>>
    BY <1>1, <1>4, NothingSkipped
  <2>2. next.lexer \in LexerStates
    BY <1>2, LexemeTree
  <2>. HIDE DEF next
  <2>3. a \o next.lexer.buffer = At(next.lexer.recorded)
    <3>1. a \o <<>> = a
      BY <1>2
    <3>. QED BY <1>3, <2>1, <3>1 DEF InTree
  <2>4. InTree(a, Lexeme(next.lexer).current.pre, Lexeme(next.lexer).lexer)
    BY <1>2, <2>2, <2>3, LexemeTree
  <2>. QED BY <1>1, <1>4, <2>4 DEF TreeKeeps, Treed
<1>5. CASE next.current.tok # comma
  BY <1>1, <1>3, <1>5 DEF TreeKeeps, Treed
<1>. QED BY <1>4, <1>5

(* Nothing is lost where a string opens: its trivia buffer is empty. *)
LEMMA OpenStringTree == ASSUME DInv, ~parsed, Treed, OpenString PROVE TreeKeeps
<1>1. /\ ast' = ast \o current.pre /\ current' = Nothing /\ lexer' = lexer
      /\ stack' = Append(stack, Frame("string"))
  BY DEF OpenString
<1>2. Frame("string") \in Frames /\ Frame("string").kind # "formals"
  BY FrameType DEF Kinds
<1>3. SavedTree(stack')
  BY <1>1, <1>2, ParsingHere, SavedTreeAppend DEF Treed
<1>4. InTree(ast \o current.pre, <<>>, lexer)
  <2>. DEFINE a == ast \o current.pre
  <2>1. a \in Seq(Nat) /\ a \o lexer.buffer = At(lexer.recorded)
    BY ParsingTree
  <2>. HIDE DEF a
  <2>2. a \o <<>> = a
    BY <2>1
  <2>3. InTree(a, <<>>, lexer)
    BY <2>1, <2>2 DEF InTree
  <2>. QED BY <2>3 DEF a
<1>. QED BY <1>1, <1>3, <1>4, NothingType DEF TreeKeeps

(* In a string nothing waits to be taken. *)
LEMMA RawTree ==
    ASSUME DInv, ~parsed, Treed, InRaw
    PROVE  /\ current = Nothing /\ lexer.buffer = <<>> /\ ast = At(lexer.recorded)
           /\ ast \in Seq(Nat) /\ lexer \in LexerStates /\ src \in Seq(Lexemes)
           /\ stack \in Seq(Frames) /\ SavedTree(stack) /\ stack # <<>>
<1>1. current = Nothing /\ lexer.buffer = <<>> /\ stack # <<>>
  BY RawHere DEF InString
<1>2. ast \in Seq(Nat) /\ (ast \o <<>>) \o <<>> = At(lexer.recorded) /\ SavedTree(stack)
  BY <1>1, ParsingTree, NothingType
<1>3. ast \in Seq(Nat) => (ast \o <<>>) \o <<>> = ast
  OBVIOUS
<1>. QED BY <1>1, <1>2, <1>3, ParsingHere

(* Nothing is lost in string content. *)
LEMMA RawTextTree == ASSUME DInv, ~parsed, Treed, RawText PROVE TreeKeeps
<1>1. /\ InRaw /\ lexer' = [lexer EXCEPT !.pos = lexer.pos + 1]
      /\ current' = current /\ stack' = stack /\ ast' = ast
  BY Zenon DEF RawText
<1>2. lexer'.buffer = lexer.buffer /\ lexer'.recorded = lexer.recorded
  BY <1>1, ParsingHere DEF LexerStates
<1>. QED BY <1>1, <1>2 DEF TreeKeeps, Treed, InTree

(* Nothing is lost where an interpolation opens. *)
LEMMA EnterInterpTree == ASSUME DInv, ~parsed, Treed, EnterInterp PROVE TreeKeeps
<1>. DEFINE m == [lexer EXCEPT !.pos = lexer.pos + 1, !.depth = lexer.depth + 1]
<1>1. /\ InRaw /\ TokenAt(lexer.pos) = dollar /\ lexer' = Lexeme(m).lexer
      /\ current' = Lexeme(m).current /\ stack' = Append(stack, Frame("interp")) /\ ast' = ast
  BY Zenon DEF EnterInterp, dollar, Deeper
<1>2. lexer.pos + 1 \in 1..EndPos /\ lexer.depth + 1 \in Nat
  BY <1>1, RawHere, ParsingHere, InStringAt, LexerType, TokenNames
<1>3. IsLexer(m, lexer.pos + 1, lexer.buffer, lexer.start, lexer.recorded, lexer.depth + 1)
  BY <1>2, ParsingHere, MovedDeeper, Zenon
<1>. HIDE DEF m
<1>4. ast \o <<>> = ast
  BY <1>1, RawTree
<1>5. InTree(ast, Lexeme(m).current.pre, Lexeme(m).lexer)
  BY <1>1, <1>3, <1>4, RawTree, LexemeTree DEF IsLexer
<1>6. Frame("interp") \in Frames /\ Frame("interp").kind # "formals"
  BY FrameType DEF Kinds
<1>. QED BY <1>1, <1>5, <1>6, RawTree, SavedTreeAppend DEF TreeKeeps

(* Nothing is lost where an interpolation closes. *)
LEMMA ExitInterpTree == ASSUME DInv, ~parsed, Treed, ExitInterp PROVE TreeKeeps
<1>. DEFINE a == ast \o current.pre
            m == Shallower(lexer)
<1>1. /\ Top = "interp" /\ current.tok = rbrace /\ current.tok # "sof" /\ ast' = a
      /\ lexer' = m /\ current' = Nothing /\ stack' = Front(stack)
  BY Zenon, TokenNames DEF ExitInterp, rbrace
<1>2. stack # <<>> /\ Last(stack).kind = "interp"
  BY <1>1 DEF Top
<1>3. lexer.buffer = <<>> /\ m.recorded = lexer.recorded /\ m.buffer = <<>>
  <2>1. /\ lexer.buffer = <<>> /\ m.recorded = lexer.recorded
        /\ InString(m, Nothing, Front(stack))
    BY <1>1, <1>2, ParsingHere, ExitInterpStep
  <2>. QED BY <2>1 DEF InString
<1>4. a \in Seq(Nat) /\ a \o lexer.buffer = At(lexer.recorded)
  BY ParsingTree
<1>. HIDE DEF a, m
<1>5. a \o <<>> = a
  BY <1>4
<1>. QED BY <1>1, <1>2, <1>3, <1>4, <1>5, ParsingHere, SavedTreeFront, NothingType DEF TreeKeeps, Treed, InTree

(* Nothing is lost where a string closes. *)
LEMMA CloseStringTree == ASSUME DInv, ~parsed, Treed, CloseString PROVE TreeKeeps
<1>. DEFINE k == Consume(lexer)
            m == ReadTrivia(k)
<1>1. /\ InRaw /\ TokenAt(lexer.pos) = "quote" /\ lexer' = Lexeme(m).lexer
      /\ current' = Lexeme(m).current /\ stack' = Front(stack) /\ ast' = ast
  BY DEF CloseString, Advance
<1>2. k \in LexerStates /\ k.recorded = lexer.recorded
  BY <1>1, RawTree, ConsumeFields
<1>. HIDE DEF k
<1>3. /\ m \in LexerStates /\ m.buffer = Run(k.pos) /\ m.recorded = Record(k, Run(k.pos))
      /\ Run(k.pos) \in Seq(Nat)
  BY <1>1, <1>2, RawTree, ReadFields, RunType, LexerType
<1>4. At(m.recorded) = At(lexer.recorded) \o Run(k.pos)
  BY <1>2, <1>3, AtRecord
<1>. HIDE DEF m
<1>5. ast \in Seq(Nat) /\ ast \o m.buffer = At(m.recorded)
  BY <1>1, <1>3, <1>4, RawTree
<1>6. InTree(ast, Lexeme(m).current.pre, Lexeme(m).lexer)
  BY <1>1, <1>3, <1>5, RawTree, LexemeTree
<1>. QED BY <1>1, <1>6, RawTree, SavedTreeFront DEF TreeKeeps

(* The tree is complete: it holds every marker that is being paired.        *)
TreeInv ==
    /\ src \in Sources
    /\ IF parsed THEN ast = At(offsets) /\ current = Nothing /\ lexer.buffer = <<>> ELSE Treed

(* At the start the markers in front of the first token are held with it. *)
LEMMA InitTree == Init => TreeInv
<1>. SUFFICES ASSUME Init PROVE TreeInv
  OBVIOUS
<1>. DEFINE r == ReadTrivia(Fresh)
<1>1. /\ stack = <<>> /\ ast = <<>> /\ parsed = FALSE /\ src \in Sources /\ src \in Seq(Lexemes)
      /\ lexer = Lexeme(r).lexer /\ current = Lexeme(r).current
  BY InitKeeps DEF Init
<1>2. Fresh \in LexerStates /\ Fresh.recorded = <<>>
  BY <1>1, FreshType DEF IsLexer
<1>3. /\ r \in LexerStates /\ r.buffer = Run(Fresh.pos) /\ r.recorded = Record(Fresh, Run(Fresh.pos))
      /\ Run(Fresh.pos) \in Seq(Nat)
  BY <1>1, <1>2, ReadFields, RunType, LexerType
<1>4. At(r.recorded) = <<>> \o Run(Fresh.pos)
  <2>1. At(<<>>) = <<>>
    BY DEF At
  <2>. QED BY <1>2, <1>3, <2>1, AtRecord
<1>. HIDE DEF r
<1>5. InTree(<<>>, Lexeme(r).current.pre, Lexeme(r).lexer)
  BY <1>1, <1>3, <1>4, NoMarkers, LexemeTree
<1>6. SavedTree(<<>>)
  BY DEF SavedTree
<1>. QED BY <1>1, <1>5, <1>6 DEF TreeInv, Treed

(* At the end every marker is in the tree. *)
LEMMA ParseEndsTree == ASSUME DInv, TreeInv, ParseEnds PROVE TreeInv'
<1>1. /\ ~parsed /\ current.tok = "eof" /\ ast' = ast \o current.pre /\ current' = Nothing
      /\ offsets' = TakenOffsets /\ lexer' = [lexer EXCEPT !.recorded = <<>>]
      /\ parsed' = TRUE /\ src' = src
  BY DEF ParseEnds
<1>2. offsets' = lexer.recorded /\ lexer.buffer = <<>>
  BY <1>1, AllRecorded
<1>3. Treed /\ src \in Sources
  BY <1>1 DEF TreeInv
<1>4. ast \o current.pre = At(lexer.recorded)
  <2>. DEFINE a == ast \o current.pre
  <2>1. a \in Seq(Nat) /\ a \o lexer.buffer = At(lexer.recorded)
    BY <1>1, <1>3, ParsingTree
  <2>. HIDE DEF a
  <2>2. a \o <<>> = a
    BY <2>1
  <2>3. a = At(lexer.recorded)
    BY <1>2, <2>1, <2>2
  <2>. QED BY <2>3 DEF a
<1>5. lexer'.buffer = <<>>
  BY <1>1, <1>2, ParsingHere DEF LexerStates
<1>. QED BY <1>1, <1>2, <1>3, <1>4, <1>5 DEF TreeInv, At, Nothing

(* Every step keeps the markers together. *)
LEMMA NextTree ==
    ASSUME \A s \in Sources : CommasFollow(s) PROVE DInv /\ TreeInv /\ [Next]_vars => TreeInv'
<1>. SUFFICES ASSUME DInv, TreeInv, [Next]_vars PROVE TreeInv'
  OBVIOUS
<1>1. ASSUME Parsing, TreeKeeps PROVE TreeInv'
  <2>1. parsed' = parsed /\ src' = src /\ ~parsed
    BY <1>1 DEF Parsing
  <2>2. Treed'
    BY <1>1 DEF Treed, TreeKeeps, SavedTree, InTree, At
  <2>. QED BY <2>1, <2>2 DEF TreeInv
<1>0. CommasFollow(src) /\ (~parsed => Treed)
  BY DEF TreeInv
<1>2. CASE Plain
  BY <1>0, <1>1, <1>2, PlainTree DEF Plain, Parsing
<1>3. CASE OpenBrace
  BY <1>0, <1>1, <1>3, OpenBraceTree DEF OpenBrace, Parsing
<1>4. CASE Backtrack
  BY <1>0, <1>1, <1>4, BacktrackTree DEF Backtrack, Parsing
<1>5. CASE Ellipsis
  BY <1>0, <1>1, <1>5, EllipsisTree DEF Ellipsis, Parsing
<1>6. CASE CloseBrace \/ ExitSelector
  BY <1>0, <1>1, <1>6, CloseTree DEF CloseBrace, ExitSelector, Parsing
<1>7. CASE EnterSelector
  BY <1>0, <1>1, <1>7, EnterSelectorTree DEF EnterSelector, Parsing
<1>8. CASE OpenString
  BY <1>0, <1>1, <1>8, OpenStringTree DEF OpenString, Parsing
<1>9. CASE RawText
  BY <1>0, <1>1, <1>9, RawTextTree DEF RawText, Parsing
<1>10. CASE EnterInterp
  BY <1>0, <1>1, <1>10, EnterInterpTree DEF EnterInterp, Parsing
<1>11. CASE ExitInterp
  BY <1>0, <1>1, <1>11, ExitInterpTree DEF ExitInterp, Parsing
<1>12. CASE CloseString
  BY <1>0, <1>1, <1>12, CloseStringTree DEF CloseString, Parsing
<1>13. CASE ParseEnds
  BY <1>13, ParseEndsTree
<1>14. CASE Pairing
  <2>1. /\ src' = src /\ parsed /\ parsed' /\ ast' = ast /\ current' = current /\ lexer' = lexer
        /\ offsets' = offsets
    BY <1>14 DEF Pairing, parser, Pair, OpenRegion, CloseRegion, LeaveInert, EndOfFile
  <2>. QED BY <2>1 DEF TreeInv, Nothing, At
<1>15. CASE Finished \/ UNCHANGED vars
  <2>1. /\ src' = src /\ parsed' = parsed /\ ast' = ast /\ current' = current /\ lexer' = lexer
        /\ offsets' = offsets /\ stack' = stack
    BY <1>15 DEF Finished, vars, parser, pvars
  <2>. QED BY <2>1 DEF TreeInv, Nothing, At, Treed, SavedTree, InTree
<1>. QED BY <1>2, <1>3, <1>4, <1>5, <1>6, <1>7, <1>8, <1>9, <1>10, <1>11, <1>12, <1>13, <1>14,
            <1>15 DEF Next

(* Every marker that pairing gets to see is in the tree, once and in order  *)
(* (MarkersInTree), in files where none stands between `...` and a comma    *)
(* behind it; DroppedMarker.cfg is a file where one does                    *)
(* (src/parser/parameters.rs:109).                                          *)
THEOREM MarkersKept ==
    ASSUME \A s \in Sources : CommasFollow(s) PROVE Spec => []MarkersInTree
<1>1. DInv /\ TreeInv /\ [Next]_vars => TreeInv'
  BY NextTree
<1>2. DInv /\ TreeInv => MarkersInTree
  <2>. SUFFICES ASSUME DInv, TreeInv PROVE MarkersInTree
    OBVIOUS
  <2>1. CASE ~parsed
    BY <2>1 DEF TreeInv, Treed, InTree, MarkersInTree
  <2>2. CASE parsed
    <3>1. ast \in Seq(Nat)
      BY DEF DInv, TypeOK
    <3>2. (ast \o <<>>) \o <<>> = ast
      BY <3>1
    <3>. QED BY <2>2, <3>2, NothingType DEF TreeInv, MarkersInTree
  <2>. QED BY <2>1, <2>2
<1>. QED BY <1>1, <1>2, InitTree, DirectivesInvariant, PTL DEF Spec
================================================================================
