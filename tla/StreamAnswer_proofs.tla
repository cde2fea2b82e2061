------------------------ MODULE StreamAnswer_proofs ------------------------
(***************************************************************************)
(* One request to the agent, for texts of any length and any number of     *)
(* lines of each kind: types, and that what is kept, shown and remembered  *)
(* of an answer is what the LLM said, without what no tool returned.       *)
(***************************************************************************)
EXTENDS StreamAnswer, TLAPS, FiniteSetTheorems, SequenceTheorems

\* _StreamDedup knows what of the message is out, and whether it comes in pieces.
InStep == (Streams /\ ~unsure) => /\ dedup.full = llm.said
                                  /\ dedup.cur = llm.msg
                                  /\ dedup.saw <=> llm.msg # <<>>

Begun == at \notin {"start", "prep", "ready"}
Ended == at \in {"close", "tools", "over", "gone"}

NothingEarly == ~Begun => out = <<>>

\* Before the end all that left the handler are lines of the answer, in their order; then
\* the text of an error may have been put behind them.
Sent ==
    (Streams /\ ~hold) =>
        \/ out \in Seq(Lines) /\ out \o buf = dedup.full
        \/ /\ Ended /\ out # <<>> /\ Last(out) = ErrorNote
           /\ Front(out) \in Seq(Lines) /\ Front(out) \o buf = dedup.full

Remembered == (Streams /\ at = "over" /\ out # <<>>) =>
                  saved = IF dedup.full = <<>> THEN None ELSE dedup.full

\* The inductive invariant.
Inv == TypeOK /\ InStep /\ NothingEarly /\ NothingMadeUp /\ Sent /\ Remembered
-----------------------------------------------------------------------------
(***************************************************************************)
(* Induction, without a theorem over an operator: a set of naturals is     *)
(* never empty without a least element.                                    *)
(***************************************************************************)

LEMMA Smallest ==
  ASSUME NEW T \in SUBSET Nat, NEW x \in T
  PROVE  \E m \in T : \A y \in T : m <= y
<1> DEFINE U == {1..n : n \in T}
<1>1. U \subseteq FiniteSubsetsOf(Nat)
  BY FS_Interval DEF FiniteSubsetsOf
<1>2. U # {}
  OBVIOUS
<1>3. IsWellFoundedOn(StrictSubsetOrdering(Nat), FiniteSubsetsOf(Nat))
  BY FS_StrictSubsetOrderingWellFounded
<1> HIDE DEF U
<1>4. PICK u \in U : \A v \in U : ~ (<<v, u>> \in StrictSubsetOrdering(Nat))
  BY <1>1, <1>2, <1>3, WFMin
<1>5. PICK m \in T : u = 1..m
  BY DEF U
<1>6. ASSUME NEW y \in T PROVE m <= y
  <2> DEFINE v == 1..y
  <2>1. v \in U
    BY DEF U
  <2>2. v \in SUBSET Nat /\ 1..m \in SUBSET Nat
    OBVIOUS
  <2>3. ~(v \subseteq u /\ v # u)
    <3> HIDE DEF v
    <3> QED BY <1>4, <1>5, <2>1, <2>2 DEF StrictSubsetOrdering
  <2>4. ASSUME y < m PROVE FALSE
    <3>1. m \in u /\ m \notin v /\ v \subseteq u
      BY <1>5, <2>4
    <3> QED BY <2>3, <3>1
  <2> QED BY <2>4
<1> QED BY <1>6

LEMMA Induct ==
  ASSUME NEW S \in SUBSET Nat, 0 \in S, \A n \in S : n + 1 \in S
  PROVE  \A n \in Nat : n \in S
<1> SUFFICES ASSUME NEW n \in Nat, n \notin S PROVE FALSE
  OBVIOUS
<1> DEFINE T == Nat \ S
<1>1. PICK m \in T : \A y \in T : m <= y
  BY Smallest
<1>2. m # 0 /\ m - 1 \in Nat /\ m - 1 \notin T
  BY <1>1
<1> QED BY <1>2

(***************************************************************************)
(* What Without leaves of a text                                           *)
(***************************************************************************)
Part(f, text, gone, m) ==
    [n \in 0..m |->
        IF n = 0 THEN <<>>
        ELSE IF text[n] \in gone THEN f[n - 1] ELSE Append(f[n - 1], text[n])]

Kept(text, gone) == CHOOSE f : f = Part(f, text, gone, Len(text))

LEMMA KeptRecursion ==
  ASSUME NEW A, NEW text \in Seq(A), NEW gone
  PROVE  /\ Without(text, gone) = Kept(text, gone)[Len(text)]
         /\ Kept(text, gone)[0] = <<>>
         /\ \A n \in 1..Len(text) :
              Kept(text, gone)[n] =
                IF text[n] \in gone THEN Kept(text, gone)[n - 1]
                                    ELSE Append(Kept(text, gone)[n - 1], text[n])
<1> DEFINE S == {m \in Nat : \E f : f = Part(f, text, gone, m)}
<1>0. Len(text) \in Nat
  OBVIOUS
<1>1. 0 \in S
  <2> DEFINE f == [n \in 0..0 |-> <<>>]
  <2>1. f = Part(f, text, gone, 0)
    BY DEF Part
  <2> QED BY <2>1
<1>2. ASSUME NEW m \in S PROVE m + 1 \in S
  <2>1. PICK f : f = Part(f, text, gone, m)
    OBVIOUS
  <2> DEFINE g == [n \in 0..m+1 |->
                    IF n <= m THEN f[n]
                    ELSE IF text[n] \in gone THEN f[n - 1] ELSE Append(f[n - 1], text[n])]
  <2>2. \A n \in 0..m : f[n] = IF n = 0 THEN <<>>
                               ELSE IF text[n] \in gone THEN f[n - 1]
                               ELSE Append(f[n - 1], text[n])
    BY <2>1 DEF Part
  <2>3. \A n \in 0..m+1 : g[n] = Part(g, text, gone, m + 1)[n]
    BY <2>2 DEF Part
  <2>4. g = Part(g, text, gone, m + 1)
    BY <2>3 DEF Part
  <2> HIDE DEF g
  <2> QED BY <2>4
<1>3. Len(text) \in S
  <2> HIDE DEF S
  <2> S \in SUBSET Nat
    BY DEF S
  <2> QED BY <1>0, <1>1, <1>2, Induct
<1>4. Kept(text, gone) = Part(Kept(text, gone), text, gone, Len(text))
  BY <1>3 DEF Kept
<1>5. Without(text, gone) = Kept(text, gone)[Len(text)]
  BY DEF Without, Kept, Part
<1> HIDE DEF S
<1>6. PICK k : k = Kept(text, gone)
  OBVIOUS
<1>7. k = Part(k, text, gone, Len(text))
  BY <1>4, <1>6
<1>8. \A n \in 0..Len(text) : k[n] = IF n = 0 THEN <<>>
                                    ELSE IF text[n] \in gone THEN k[n - 1]
                                    ELSE Append(k[n - 1], text[n])
  BY <1>7 DEF Part
<1> QED BY <1>0, <1>5, <1>6, <1>8

LEMMA KeptPrefix ==
  ASSUME NEW A, NEW text \in Seq(A), NEW gone
  PROVE  \A n \in 0..Len(text) :
           /\ Kept(text, gone)[n] \in Seq(ToSet(text) \ gone)
           /\ (\A i \in 1..n : text[i] \notin gone) => Kept(text, gone)[n] = SubSeq(text, 1, n)
<1> DEFINE K == Kept(text, gone)
           Good(n) == /\ K[n] \in Seq(ToSet(text) \ gone)
                      /\ (\A i \in 1..n : text[i] \notin gone) => K[n] = SubSeq(text, 1, n)
           S == {n \in Nat : n <= Len(text) => Good(n)}
<1>1. K[0] = <<>> /\ \A n \in 1..Len(text) :
        K[n] = IF text[n] \in gone THEN K[n - 1] ELSE Append(K[n - 1], text[n])
  BY KeptRecursion
<1> HIDE DEF K
<1>2. 0 \in S
  <2>1. SubSeq(text, 1, 0) = <<>>
    BY SubSeqEmpty
  <2>2. K[0] \in Seq(ToSet(text) \ gone)
    BY <1>1, EmptySeq
  <2>3. Good(0)
    BY <1>1, <2>1, <2>2
  <2> QED BY <2>3
<1>3. ASSUME NEW n \in S PROVE n + 1 \in S
  <2> SUFFICES ASSUME n + 1 <= Len(text) PROVE Good(n + 1)
    OBVIOUS
  <2>1. Good(n)
    OBVIOUS
  <2>2. K[n + 1] = IF text[n + 1] \in gone THEN K[n] ELSE Append(K[n], text[n + 1])
    BY <1>1
  <2>3. text[n + 1] \in ToSet(text)
    BY DEF ToSet
  <2>4. K[n + 1] \in Seq(ToSet(text) \ gone)
    BY <2>1, <2>2, <2>3
  <2>5. ASSUME \A i \in 1..n+1 : text[i] \notin gone PROVE K[n + 1] = SubSeq(text, 1, n + 1)
    <3>1. K[n] = SubSeq(text, 1, n) /\ text[n + 1] \notin gone
      BY <2>1, <2>5
    <3>2. SubSeq(text, 1, n + 1) = Append(SubSeq(text, 1, n), text[n + 1])
      BY SubSeqRecursiveSecond
    <3> QED BY <2>2, <3>1, <3>2
  <2> QED BY <2>4, <2>5
<1>4. \A n \in Nat : n \in S
  <2> HIDE DEF S
  <2> S \in SUBSET Nat
    BY DEF S
  <2> QED BY <1>2, <1>3, Induct
<1> QED BY <1>4 DEF K

\* What is left are lines of the text that were not to go; a text without such lines stays.
LEMMA WithoutFacts ==
  ASSUME NEW A, NEW text \in Seq(A), NEW gone
  PROVE  /\ Without(text, gone) \in Seq(ToSet(text) \ gone)
         /\ ToSet(text) \cap gone = {} => Without(text, gone) = text
<1>1. Len(text) \in 0..Len(text)
  OBVIOUS
<1>2. Without(text, gone) = Kept(text, gone)[Len(text)]
  BY KeptRecursion
<1>3. Without(text, gone) \in Seq(ToSet(text) \ gone)
  BY <1>1, <1>2, KeptPrefix
<1>4. ASSUME ToSet(text) \cap gone = {} PROVE Without(text, gone) = text
  <2>1. \A i \in 1..Len(text) : text[i] \notin gone
    BY <1>4 DEF ToSet
  <2>2. Kept(text, gone)[Len(text)] = SubSeq(text, 1, Len(text))
    BY <1>1, <2>1, KeptPrefix
  <2> QED BY <1>2, <2>2, SubSeqFull
<1> QED BY <1>3, <1>4

LEMMA WithoutLast ==
  ASSUME NEW A, NEW text \in Seq(A), NEW e, NEW gone, e \in gone, ToSet(text) \cap gone = {}
  PROVE  Without(Append(text, e), gone) = text
<1> DEFINE long == Append(text, e)
<1>1. /\ long \in Seq(A \cup {e}) /\ Len(long) = Len(text) + 1
      /\ \A i \in 1..Len(text) : long[i] = text[i]
      /\ long[Len(text) + 1] = e
  <2>1. text \in Seq(A \cup {e})
    OBVIOUS
  <2> QED BY <2>1, AppendProperties
<1> HIDE DEF long
<1>2. \A i \in 1..Len(text) : text[i] \notin gone
  BY DEF ToSet
<1>3. Without(long, gone) = Kept(long, gone)[Len(text) + 1]
  BY <1>1, KeptRecursion
<1>4. Kept(long, gone)[Len(text) + 1] = Kept(long, gone)[Len(text)]
  <2>1. Len(text) + 1 \in 1..Len(long) /\ Len(text) + 1 - 1 = Len(text)
    BY <1>1
  <2> QED BY <1>1, <2>1, KeptRecursion
<1>5. Kept(long, gone)[Len(text)] = SubSeq(long, 1, Len(text))
  <2>1. Len(text) \in 0..Len(long)
    BY <1>1
  <2> QED BY <1>1, <1>2, <2>1, KeptPrefix
<1>6. SubSeq(long, 1, Len(text)) = text
  <2>1. SubSeq(long, 1, Len(text)) = SubSeq(text, 1, Len(text))
    BY <1>1
  <2> QED BY <2>1, SubSeqFull
<1> QED BY <1>3, <1>4, <1>5, <1>6 DEF long

(***************************************************************************)
(* The parts of a step                                                     *)
(***************************************************************************)
Notes == {Fallback, Notice, ErrorNote}

LEMMA NoteFacts ==
  /\ ErrorNote \notin Lines
  /\ \A note \in Notes : note \notin Values /\ note \notin Guides
BY StreamAssumption DEF Lines, Notes

LEMMA DeltaType ==
  ASSUME NEW d \in [cur : Seq(Lines), saw : BOOLEAN, full : Seq(Lines)],
         NEW text \in Seq(Lines), NEW partial \in BOOLEAN
  PROVE  Delta(d, text, partial) \in Seq(Lines)
<1>1. Rest(text, d.cur) \in Seq(Lines)
  <2>1. d.cur \in Seq(Lines) /\ Len(d.cur) + 1 \in Int /\ Len(text) \in Int
    OBVIOUS
  <2>2. \A i \in (Len(d.cur) + 1)..Len(text) : text[i] \in Lines
    BY <2>1
  <2> QED BY <2>1, <2>2, SubSeqProperties DEF Rest
<1> QED BY <1>1 DEF Delta

\* What of a text is not yet out, when a beginning of it is.
LEMMA RestFacts ==
  ASSUME NEW A, NEW sent \in Seq(A), NEW rest \in Seq(A)
  PROVE  IsPrefix(sent, sent \o rest) /\ Rest(sent \o rest, sent) = rest
<1> DEFINE text == sent \o rest
<1>1. /\ text \in Seq(A) /\ Len(text) = Len(sent) + Len(rest)
      /\ \A i \in 1..Len(sent) : text[i] = sent[i]
      /\ \A i \in 1..Len(rest) : text[Len(sent) + i] = rest[i]
  <2>1. \A i \in 1..Len(rest) : Len(sent) + i \in 1..Len(sent) + Len(rest)
                                /\ ~(Len(sent) + i <= Len(sent)) /\ Len(sent) + i - Len(sent) = i
    OBVIOUS
  <2>2. \A i \in 1..Len(sent) : i \in 1..Len(sent) + Len(rest)
    OBVIOUS
  <2> QED BY <2>1, <2>2, ConcatProperties
<1> HIDE DEF text
<1>2. SubSeq(text, 1, Len(sent)) = sent
  <2>1. SubSeq(text, 1, Len(sent)) = SubSeq(sent, 1, Len(sent))
    BY <1>1
  <2> QED BY <2>1, SubSeqFull
<1>3. Rest(text, sent) = rest
  <2>1. \A i \in (Len(sent) + 1)..Len(text) : text[i] \in A
    BY <1>1
  <2> DEFINE tail == SubSeq(text, Len(sent) + 1, Len(text))
  <2>2. /\ tail \in Seq(A)
        /\ Len(tail) = IF Len(sent) + 1 <= Len(text) THEN Len(text) - (Len(sent) + 1) + 1 ELSE 0
        /\ \A i \in 1..Len(text) - (Len(sent) + 1) + 1 : tail[i] = text[Len(sent) + 1 + i - 1]
    BY <1>1, <2>1, SubSeqProperties
  <2> HIDE DEF tail
  <2>3. Len(tail) = Len(rest)
    BY <1>1, <2>2
  <2>4. ASSUME NEW i \in 1..Len(tail) PROVE tail[i] = rest[i]
    <3>1. i \in 1..Len(text) - (Len(sent) + 1) + 1 /\ Len(sent) + 1 + i - 1 = Len(sent) + i
      BY <1>1, <2>3
    <3> QED BY <1>1, <2>2, <2>3, <3>1
  <2> QED BY <2>2, <2>3, <2>4, SeqEqual DEF Rest, tail
<1>4. Len(sent) <= Len(text)
  BY <1>1
<1> QED BY <1>2, <1>3, <1>4, SubSeqFull DEF IsPrefix, text

\* What is shown and what is held back are what they were, and the new text behind it.
LEMMA ShowFacts ==
  ASSUME TypeOK, NEW text \in Seq(Lines), Show(text)
  PROVE  /\ buf' \in Seq(Lines) /\ out' \in Seq(Lines \cup Notes)
         /\ hold => UNCHANGED shown
         /\ out \in Seq(Lines) /\ ~hold =>
               out' \in Seq(Lines) /\ out' \o buf' = (out \o buf) \o text
         /\ out' = <<>> \/ hold \/ out # <<>> \/ text # <<>>
<1>1. buf \in Seq(Lines) /\ out \in Seq(Lines \cup Notes)
  BY DEF TypeOK, Notes
<1>2. CASE hold \/ text = <<>>
  <2>1. UNCHANGED shown
    BY <1>2 DEF Show, Held
  <2>2. ASSUME out \in Seq(Lines), ~hold PROVE out' \o buf' = (out \o buf) \o text
    <3>1. out \o buf \in Seq(Lines)
      BY <1>1, <2>2
    <3> QED BY <1>2, <2>1, <2>2, <3>1, ConcatEmptySeq DEF shown
  <2> QED BY <1>1, <1>2, <2>1, <2>2 DEF shown
<1>3. CASE ~hold /\ text # <<>>
  <2> DEFINE all == buf \o text
  <2>1. all \in Seq(Lines)
    BY <1>1
  <2>2. PICK n \in 0..Len(all) : /\ out' = out \o SubSeq(all, 1, n)
                                 /\ buf' = SubSeq(all, n + 1, Len(all))
    BY <1>3 DEF Show, Held
  <2> DEFINE head == SubSeq(all, 1, n)
             tail == SubSeq(all, n + 1, Len(all))
  <2> HIDE DEF all
  <2>3. head \in Seq(Lines) /\ tail \in Seq(Lines)
    <3>1. \A i \in 1..Len(all) : all[i] \in Lines
      BY <2>1
    <3> QED BY <2>1, <3>1, SubSeqProperties
  <2>4. head \o tail = all
    <3>1. /\ 1 \in 1..Len(all)+1 /\ n \in 1-1..Len(all) /\ Len(all) \in n..Len(all)
      BY <2>1
    <3>2. SubSeq(all, 1, n) \o SubSeq(all, n + 1, Len(all)) = SubSeq(all, 1, Len(all))
      BY <2>1, <3>1, ConcatAdjacentSubSeq
    <3> QED BY <2>1, <3>2, SubSeqFull
  <2> HIDE DEF head, tail
  <2>5. out' = out \o head /\ buf' = tail
    BY <2>2 DEF head, tail
  <2>6. out' \in Seq(Lines \cup Notes)
    <3>1. head \in Seq(Lines \cup Notes)
      BY <2>3
    <3> QED BY <1>1, <2>5, <3>1, ConcatProperties
  <2>7. ASSUME out \in Seq(Lines)
        PROVE  out' \in Seq(Lines) /\ out' \o buf' = (out \o buf) \o text
    <3>1. out' \in Seq(Lines)
      BY <2>3, <2>5, <2>7
    <3>2. out' \o buf' = out \o (head \o tail)
      BY <2>3, <2>5, <2>7, ConcatAssociative
    <3>3. (out \o buf) \o text = out \o (buf \o text)
      <4>1. out \in Seq(Lines) /\ buf \in Seq(Lines) /\ text \in Seq(Lines)
        BY <1>1, <2>7
      <4> QED BY <4>1, ConcatAssociative
    <3> QED BY <2>4, <3>1, <3>2, <3>3 DEF all
  <2> QED BY <1>3, <2>3, <2>5, <2>6, <2>7
<1> QED BY <1>2, <1>3

\* The review lets nothing unverified through.
LEMMA ReviewFacts ==
  ASSUME TypeOK, NEW text \in Seq(Lines), NEW r \in Review(text)
  PROVE  /\ r \in Seq(Lines \cup Notes)
         /\ ~hold => r = text
         /\ hold => \A line \in ToSet(r) : /\ line \in Values => line \in known
                                           /\ line \in Guides => searched
<1> DEFINE kept == Without(text, Bad(text))
<1>1. kept \in Seq(ToSet(text) \ Bad(text))
  BY WithoutFacts
<1>2. ToSet(text) \subseteq Lines
  BY DEF ToSet
<1>3. text \in Seq(Lines \cup Notes) /\ kept \in Seq(Lines \cup Notes)
  BY <1>1, <1>2
<1>4. <<Fallback>> \in Seq(Lines \cup Notes) /\ Append(kept, Notice) \in Seq(Lines \cup Notes)
  BY <1>3 DEF Notes
<1> HIDE DEF kept
<1>5. r \in {text, <<Fallback>>, Append(kept, Notice)} /\ (~hold => r = text)
  BY DEF Review, kept
<1>6. ASSUME hold, NEW line \in ToSet(r)
      PROVE  (line \in Values => line \in known) /\ (line \in Guides => searched)
  <2>1. CASE text = <<>>
    <3>1. r = <<>>
      BY <1>6, <2>1 DEF Review
    <3> QED BY <1>6, <3>1 DEF ToSet
  <2>2. CASE r = <<Fallback>>
    <3>1. line = Fallback
      BY <1>6, <2>2 DEF ToSet
    <3> QED BY <3>1, NoteFacts DEF Notes
  <2>3. CASE text # <<>> /\ r = text /\ r # <<Fallback>>
    <3>1. ~UnsearchedGuide(text)
      BY <1>6, <2>3 DEF Review
    <3>2. Bad(text) = {}
      <4>1. SUFFICES ASSUME Bad(text) # {} PROVE FALSE
        OBVIOUS
      <4>2. r = Append(kept, Notice)
        BY <1>6, <2>3, <3>1, <4>1 DEF Review, kept
      <4>3. Notice \in ToSet(r)
        <5>1. Len(r) = Len(kept) + 1 /\ r[Len(kept) + 1] = Notice /\ Len(kept) + 1 \in Nat
          BY <4>2, <1>3
        <5>2. Len(kept) + 1 \in DOMAIN r
          BY <4>2, <1>3
        <5> QED BY <5>1, <5>2 DEF ToSet
      <4> QED BY <1>2, <2>3, <4>3, StreamAssumption DEF Lines
    <3> QED BY <1>6, <2>3, <3>1, <3>2 DEF Bad, UnsearchedGuide
  <2>4. CASE text # <<>> /\ r = Append(kept, Notice) /\ r # <<Fallback>> /\ r # text
    <3>1. ~UnsearchedGuide(text)
      BY <1>6, <2>4 DEF Review
    <3>2. line \in ToSet(kept) \cup {Notice}
      <4>1. PICK i \in DOMAIN r : line = r[i]
        BY <1>6 DEF ToSet
      <4>2. i \in 1..Len(kept)+1 /\ (i \in 1..Len(kept) => r[i] = kept[i])
            /\ r[Len(kept)+1] = Notice
        BY <1>3, <2>4, <4>1
      <4> QED BY <1>3, <4>1, <4>2 DEF ToSet
    <3>3. ToSet(kept) \subseteq ToSet(text) \ Bad(text)
      BY <1>1 DEF ToSet
    <3> QED BY <3>1, <3>2, <3>3, NoteFacts DEF Bad, UnsearchedGuide, Notes
  <2> QED BY <1>5, <2>1, <2>2, <2>3, <2>4
<1> QED BY <1>3, <1>4, <1>5, <1>6
-----------------------------------------------------------------------------
(***************************************************************************)
(* The invariant is inductive                                              *)
(***************************************************************************)
LEMMA InitInv == Init => Inv
<1> SUFFICES ASSUME Init PROVE Inv
  OBVIOUS
<1>1. TypeOK
  <2>1. <<>> \in Seq(Lines) /\ <<>> \in Seq(Lines \cup {Fallback, Notice, ErrorNote})
    BY EmptySeq
  <2>2. /\ llm \in [msg : Seq(Lines), said : Seq(Lines), tries : 1..2]
        /\ dedup \in [cur : Seq(Lines), saw : BOOLEAN, full : Seq(Lines)]
    BY <2>1 DEF Init
  <2> QED BY <2>1, <2>2 DEF Init, TypeOK, Labels
<1>2. InStep
  BY DEF Init, InStep
<1>3. NothingEarly
  BY DEF Init, NothingEarly
<1>4. NothingMadeUp
  <2>1. ToSet(out) = {}
    BY DEF Init, ToSet
  <2> QED BY <2>1 DEF NothingMadeUp
<1>5. Sent
  <2>1. out \in Seq(Lines) /\ out \o buf = dedup.full
    BY DEF Init
  <2> QED BY <2>1 DEF Sent
<1>6. Remembered
  BY DEF Init, Remembered
<1> QED BY <1>1, <1>2, <1>3, <1>4, <1>5, <1>6 DEF Inv

\* What _StreamDedup.feed makes of the text of an event, and what is shown of it.
LEMMA ReceiveFacts ==
  ASSUME TypeOK, NEW text \in Seq(Lines), NEW partial \in BOOLEAN, Receive(text, partial)
  PROVE  /\ dedup' = Feed(dedup, text, partial)
         /\ Delta(dedup, text, partial) \in Seq(Lines)
         /\ Show(Delta(dedup, text, partial))
         /\ dedup' \in [cur : Seq(Lines), saw : BOOLEAN, full : Seq(Lines)]
         /\ dedup'.full = dedup.full \o Delta(dedup, text, partial)
         /\ dedup'.saw = partial
         /\ dedup'.cur = IF partial THEN dedup.cur \o Delta(dedup, text, partial) ELSE <<>>
<1> DEFINE delta == Delta(dedup, text, partial)
<1>1. dedup \in [cur : Seq(Lines), saw : BOOLEAN, full : Seq(Lines)]
  BY DEF TypeOK
<1>2. delta \in Seq(Lines)
  BY <1>1, DeltaType
<1>3. Show(delta) /\ dedup' = Feed(dedup, text, partial)
  BY DEF Receive
<1>4. dedup' = [cur |-> IF partial THEN dedup.cur \o delta ELSE <<>>,
                saw |-> partial, full |-> dedup.full \o delta]
  BY <1>3 DEF Feed
<1> HIDE DEF delta
<1>5. dedup.cur \o delta \in Seq(Lines) /\ dedup.full \o delta \in Seq(Lines) /\ <<>> \in Seq(Lines)
  BY <1>1, <1>2
<1> QED BY <1>2, <1>3, <1>4, <1>5 DEF delta

\* A step that receives text, as far as the user and the memory are concerned.
LEMMA ReceivedStep ==
  ASSUME Inv, NEW text \in Seq(Lines), NEW partial \in BOOLEAN, Receive(text, partial),
         at \in {"run", "again"}, UNCHANGED <<handler, held, corpus, saved>>
  PROVE  /\ buf' \in Seq(Lines) /\ out' \in Seq(Lines \cup Notes)
         /\ dedup' \in [cur : Seq(Lines), saw : BOOLEAN, full : Seq(Lines)]
         /\ NothingEarly' /\ NothingMadeUp' /\ Sent' /\ Remembered'
<1> DEFINE delta == Delta(dedup, text, partial)
<1>0. UNCHANGED <<at, mode, hold, known, searched, saved>> /\ at \in {"run", "again"}
  BY DEF handler, corpus
<1>1. /\ TypeOK /\ delta \in Seq(Lines) /\ Show(delta)
      /\ dedup' \in [cur : Seq(Lines), saw : BOOLEAN, full : Seq(Lines)]
      /\ dedup'.full = dedup.full \o delta
  BY ReceiveFacts DEF Inv
<1> HIDE DEF delta
<1>2. /\ buf' \in Seq(Lines) /\ out' \in Seq(Lines \cup Notes)
      /\ hold => UNCHANGED <<buf, out>>
      /\ out \in Seq(Lines) /\ ~hold =>
               out' \in Seq(Lines) /\ out' \o buf' = (out \o buf) \o delta
  BY <1>1, ShowFacts DEF shown
<1>3. NothingEarly'
  BY <1>0 DEF NothingEarly, Begun
<1>4. NothingMadeUp'
  <2>1. hold => UNCHANGED <<out, known, searched, hold>>
    BY <1>0, <1>2
  <2> QED BY <1>0, <2>1 DEF Inv, NothingMadeUp
<1>5. Sent'
  <2> SUFFICES ASSUME Streams, ~hold PROVE out' \in Seq(Lines) /\ out' \o buf' = dedup'.full
    BY <1>0 DEF Sent, Streams
  <2>1. out \in Seq(Lines) /\ out \o buf = dedup.full
    BY <1>0 DEF Inv, Sent, Ended
  <2> QED BY <1>1, <1>2, <2>1
<1>6. Remembered'
  BY <1>0 DEF Remembered
<1> QED BY <1>1, <1>2, <1>3, <1>4, <1>5, <1>6

\* A step that shows, keeps and remembers nothing.
LEMMA QuietStep ==
  ASSUME Inv, UNCHANGED <<mode, hold, dedup, buf, out>>,
         known \subseteq known', searched => searched', Begun => Begun', Ended => Ended',
         (at' = "over" /\ out # <<>> /\ Streams) => at = "over" /\ saved' = saved
  PROVE  NothingEarly' /\ NothingMadeUp' /\ Sent' /\ Remembered'
<1>1. NothingEarly'
  BY DEF Inv, NothingEarly
<1>2. NothingMadeUp'
  BY DEF Inv, NothingMadeUp
<1>3. Sent'
  BY DEF Inv, Sent, Streams
<1>4. Remembered'
  BY DEF Inv, Remembered, Streams
<1> QED BY <1>1, <1>2, <1>3, <1>4

LEMMA PartialStep ==
  ASSUME Inv, NEW line \in Lines, Partial(line)
  PROVE  Inv'
<1> DEFINE text == IF mode = "deltas" THEN <<line>> ELSE llm'.msg
           delta == Delta(dedup, text, TRUE)
<1>1. /\ TypeOK /\ at = "run" /\ UNCHANGED <<handler, held, corpus, saved>>
      /\ UNCHANGED <<at, mode, hold, live, tools, known, searched, saved>>
      /\ mode \in {"deltas", "sums"}
  BY DEF Partial, Inv, handler, held, corpus
<1>2. /\ llm.msg \in Seq(Lines) /\ llm.said \in Seq(Lines) /\ llm.tries \in 1..2
      /\ llm'.msg = Append(llm.msg, line) /\ llm'.said = Append(llm.said, line)
      /\ llm' \in [msg : Seq(Lines), said : Seq(Lines), tries : 1..2]
  <2>1. llm \in [msg : Seq(Lines), said : Seq(Lines), tries : 1..2]
    BY <1>1 DEF TypeOK
  <2>2. llm' = [llm EXCEPT !.msg = Append(@, line), !.said = Append(@, line)]
    BY DEF Partial
  <2>3. llm.msg \in Seq(Lines) /\ llm.said \in Seq(Lines)
    BY <2>1
  <2>4. Append(llm.msg, line) \in Seq(Lines) /\ Append(llm.said, line) \in Seq(Lines)
    BY <2>3, AppendProperties
  <2> QED BY <2>1, <2>2, <2>3, <2>4
<1>3. text \in Seq(Lines) /\ Receive(text, TRUE)
  <2>1. <<line>> \in Seq(Lines) /\ llm'.msg \in Seq(Lines)
    BY <1>2
  <2>2. Receive(IF mode = "deltas" THEN <<line>> ELSE llm'.msg, TRUE)
    BY DEF Partial
  <2> QED BY <2>1, <2>2
<1>4. unsure' = (unsure \/ (mode = "deltas" /\ llm.msg # <<>> /\ IsPrefix(dedup.cur, <<line>>)))
  BY DEF Partial
<1> HIDE DEF text
<1>5. /\ delta \in Seq(Lines) /\ dedup'.full = dedup.full \o delta
      /\ dedup'.saw = TRUE /\ dedup'.cur = dedup.cur \o delta
  BY <1>1, <1>3, ReceiveFacts
<1> HIDE DEF delta
<1>6. /\ buf' \in Seq(Lines) /\ out' \in Seq(Lines \cup Notes)
      /\ dedup' \in [cur : Seq(Lines), saw : BOOLEAN, full : Seq(Lines)]
      /\ NothingEarly' /\ NothingMadeUp' /\ Sent' /\ Remembered'
  BY <1>1, <1>3, ReceivedStep
<1>7. TypeOK'
  <2>1. unsure' \in BOOLEAN
    BY <1>1, <1>4 DEF TypeOK
  <2> QED BY <1>1, <1>2, <1>6, <2>1 DEF TypeOK, Notes
<1>8. InStep'
  <2> SUFFICES ASSUME Streams', ~unsure'
               PROVE  /\ dedup'.full = llm'.said /\ dedup'.cur = llm'.msg
                      /\ dedup'.saw <=> llm'.msg # <<>>
    BY DEF InStep
  <2>1. ~unsure /\ dedup.full = llm.said /\ dedup.cur = llm.msg
    BY <1>1, <1>4 DEF Inv, InStep, Streams
  <2>2. delta = <<line>>
    <3>1. CASE mode = "deltas" /\ IsPrefix(dedup.cur, <<line>>)
      <4>1. dedup.cur = <<>>
        BY <1>4, <2>1, <3>1
      <4>2. Rest(<<line>>, <<>>) = <<line>>
        <5>1. <<line>> \in Seq(Lines) /\ <<>> \in Seq(Lines) /\ <<>> \o <<line>> = <<line>>
          BY ConcatEmptySeq
        <5> QED BY <5>1, RestFacts
      <4>3. Delta(dedup, <<line>>, TRUE) = Rest(<<line>>, dedup.cur)
        BY <3>1 DEF Delta
      <4> QED BY <3>1, <4>1, <4>2, <4>3 DEF delta, text
    <3>2. CASE mode = "deltas" /\ ~IsPrefix(dedup.cur, <<line>>)
      BY <3>2 DEF delta, text, Delta
    <3>3. CASE mode # "deltas"
      <4>1. text = Append(llm.msg, line)
        BY <1>2, <3>3 DEF text
      <4>2. text = llm.msg \o <<line>> /\ <<line>> \in Seq(Lines)
        BY <1>2, <4>1, AppendIsConcat
      <4>3. IsPrefix(llm.msg, text) /\ Rest(text, llm.msg) = <<line>>
        BY <1>2, <4>2, RestFacts
      <4>4. Delta(dedup, text, TRUE) = Rest(text, llm.msg)
        BY <2>1, <4>3 DEF Delta
      <4> QED BY <4>3, <4>4 DEF delta
    <3> QED BY <3>1, <3>2, <3>3
  <2>3. Append(llm.msg, line) = llm.msg \o <<line>> /\ Append(llm.said, line) = llm.said \o <<line>>
    BY <1>2, AppendIsConcat
  <2>4. llm'.msg # <<>>
    BY <1>2, AppendProperties
  <2> QED BY <1>2, <1>5, <2>1, <2>2, <2>3, <2>4
<1> QED BY <1>6, <1>7, <1>8 DEF Inv

LEMMA FinalStep ==
  ASSUME Inv, NEW rest \in Seq(Lines), Final(rest)
  PROVE  Inv'
<1> DEFINE text == llm.msg \o rest
           delta == Delta(dedup, text, FALSE)
<1>1. /\ TypeOK /\ at \in {"run", "again"} /\ UNCHANGED <<handler, held, corpus, saved>>
      /\ UNCHANGED <<at, mode, hold, live, tools, known, searched, saved, unsure>>
  BY DEF Final, Inv, handler, held, corpus, Running
<1>2. /\ llm.msg \in Seq(Lines) /\ llm.said \in Seq(Lines)
      /\ llm'.msg = <<>> /\ llm'.said = llm.said \o rest
      /\ llm' \in [msg : Seq(Lines), said : Seq(Lines), tries : 1..2]
  <2>1. llm \in [msg : Seq(Lines), said : Seq(Lines), tries : 1..2]
    BY <1>1 DEF TypeOK
  <2>2. llm' = [llm EXCEPT !.msg = <<>>, !.said = @ \o rest]
    BY DEF Final
  <2>3. llm.msg \in Seq(Lines) /\ llm.said \in Seq(Lines) /\ <<>> \in Seq(Lines)
    BY <2>1
  <2>4. llm.said \o rest \in Seq(Lines)
    BY <2>3, ConcatProperties
  <2> QED BY <2>1, <2>2, <2>3, <2>4
<1>3. text \in Seq(Lines) /\ Receive(text, FALSE)
  BY <1>2, ConcatProperties DEF Final
<1> HIDE DEF text
<1>5. /\ delta \in Seq(Lines) /\ dedup'.full = dedup.full \o delta
      /\ dedup'.saw = FALSE /\ dedup'.cur = <<>>
  BY <1>1, <1>3, ReceiveFacts
<1> HIDE DEF delta
<1>6. /\ buf' \in Seq(Lines) /\ out' \in Seq(Lines \cup Notes)
      /\ dedup' \in [cur : Seq(Lines), saw : BOOLEAN, full : Seq(Lines)]
      /\ NothingEarly' /\ NothingMadeUp' /\ Sent' /\ Remembered'
  BY <1>1, <1>3, ReceivedStep
<1>7. TypeOK'
  BY <1>1, <1>2, <1>6 DEF TypeOK, Notes
<1>8. InStep'
  <2> SUFFICES ASSUME Streams, ~unsure
               PROVE  dedup'.full = llm'.said
    BY <1>1, <1>2, <1>5 DEF InStep, Streams
  <2>1. dedup.full = llm.said /\ dedup.cur = llm.msg /\ (dedup.saw <=> llm.msg # <<>>)
    BY DEF Inv, InStep
  <2>2. IsPrefix(dedup.cur, text) /\ Rest(text, dedup.cur) = rest
    BY <1>2, <2>1, RestFacts DEF text
  <2>3. delta = rest
    <3>1. CASE dedup.saw
      BY <2>2, <3>1 DEF delta, Delta
    <3>2. CASE ~dedup.saw
      <4>1. llm.msg = <<>> /\ delta = text
        BY <2>1, <3>2 DEF delta, Delta
      <4> QED BY <4>1, ConcatEmptySeq DEF text
    <3> QED BY <3>1, <3>2
  <2> QED BY <1>2, <1>5, <2>1, <2>3
<1> QED BY <1>6, <1>7, <1>8 DEF Inv

\* The steps that neither receive nor send text.
Quiet == \/ CreateSession \/ BuildAgent \/ PrepFails \/ StreamEnds \/ PlainFails
         \/ Disconnect \/ Cancelled \/ Collect \/ DeleteSession \/ Killed
         \/ ManualSearched \/ \E v \in Values : ToolAnswer(v)

LEMMA QuietSteps ==
  ASSUME Inv, Quiet
  PROVE  Inv'
<1>1. /\ UNCHANGED <<mode, hold, llm, dedup, buf, out, saved, unsure>>
      /\ at' \in Labels /\ live' \subseteq {"main", "retry"} /\ tools' \in BOOLEAN
      /\ known \subseteq known' /\ known' \subseteq Values
      /\ searched' \in BOOLEAN /\ (searched => searched')
      /\ Begun => Begun'
      /\ Ended => Ended'
      /\ (at' = "over" /\ at # "over") => (~Begun \/ ~Streams)
  <2> USE DEF TypeOK, Inv, Labels, Goto, handler, held, shown, corpus, Begun, Ended, Running
  <2>1. CASE CreateSession
    BY <2>1 DEF CreateSession
  <2>2. CASE BuildAgent
    BY <2>2 DEF BuildAgent
  <2>3. CASE PrepFails
    BY <2>3 DEF PrepFails
  <2>4. CASE StreamEnds
    BY <2>4 DEF StreamEnds
  <2>5. CASE PlainFails
    BY <2>5 DEF PlainFails
  <2>6. CASE Disconnect
    BY <2>6 DEF Disconnect
  <2>7. CASE Cancelled
    BY <2>7 DEF Cancelled
  <2>8. CASE Collect
    BY <2>8 DEF Collect
  <2>9. CASE DeleteSession
    BY <2>9 DEF DeleteSession, DeletesOwn
  <2>10. CASE Killed
    BY <2>10 DEF Killed
  <2>11. CASE ManualSearched
    BY <2>11 DEF ManualSearched
  <2>12. CASE \E v \in Values : ToolAnswer(v)
    <3>1. PICK v \in Values : ToolAnswer(v)
      BY <2>12
    <3> QED BY <3>1 DEF ToolAnswer
  <2>13. Quiet
    OBVIOUS
  <2> QED BY <2>1, <2>2, <2>3, <2>4, <2>5, <2>6, <2>7, <2>8, <2>9, <2>10, <2>11, <2>12, <2>13 DEF Quiet
<1>2. TypeOK'
  BY <1>1 DEF Inv, TypeOK
<1>3. InStep'
  BY <1>1 DEF Inv, InStep, Streams
<1>4. (at' = "over" /\ out # <<>> /\ Streams) => at = "over"
  BY <1>1 DEF Inv, NothingEarly
<1>5. NothingEarly' /\ NothingMadeUp' /\ Sent' /\ Remembered'
  BY <1>1, <1>4, QuietStep
<1> QED BY <1>2, <1>3, <1>5 DEF Inv

LEMMA SeedGuardStep ==
  ASSUME Inv, SeedGuard
  PROVE  Inv'
<1>1. /\ UNCHANGED <<mode, hold, live, tools, llm, dedup, buf, out, saved, unsure>>
      /\ at = "ready" /\ at' = "run" /\ known' \subseteq Values /\ searched' \in BOOLEAN
  BY DEF SeedGuard, Goto, held, shown
<1>2. TypeOK'
  BY <1>1 DEF Inv, TypeOK, Labels
<1>3. InStep'
  BY <1>1 DEF Inv, InStep, Streams
<1>4. out = <<>> /\ ToSet(out) = {}
  <2>1. out = <<>>
    BY <1>1 DEF Inv, NothingEarly, Begun
  <2> QED BY <2>1 DEF ToSet
<1>5. NothingMadeUp'
  BY <1>1, <1>4 DEF NothingMadeUp
<1>6. Sent' /\ Remembered' /\ NothingEarly'
  BY <1>1, <1>4 DEF Inv, Sent, Ended, Streams, Remembered, NothingEarly
<1> QED BY <1>2, <1>3, <1>5, <1>6 DEF Inv

LEMMA PlainFinalStep ==
  ASSUME Inv, NEW line \in Lines, NEW last \in BOOLEAN, PlainFinal(line, last)
  PROVE  Inv'
<1>1. /\ UNCHANGED <<at, mode, hold, live, tools, buf, out, known, searched, saved, unsure>>
      /\ ~Streams /\ at = "run" /\ TypeOK
  BY DEF PlainFinal, handler, held, shown, corpus, Inv
<1>2. llm' \in [msg : Seq(Lines), said : Seq(Lines), tries : 1..2]
  <2>1. llm \in [msg : Seq(Lines), said : Seq(Lines), tries : 1..2]
    BY <1>1 DEF TypeOK
  <2>2. Append(llm.said, line) \in Seq(Lines)
    BY <2>1
  <2> QED BY <2>1, <2>2 DEF PlainFinal
<1>3. dedup' \in [cur : Seq(Lines), saw : BOOLEAN, full : Seq(Lines)]
  <2>1. <<line>> \in Seq(Lines)
    OBVIOUS
  <2>2. dedup \in [cur : Seq(Lines), saw : BOOLEAN, full : Seq(Lines)]
    BY <1>1 DEF TypeOK
  <2>3. dedup' = IF last THEN [dedup EXCEPT !.full = <<line>>] ELSE dedup
    BY DEF PlainFinal
  <2> QED BY <2>1, <2>2, <2>3
<1>4. TypeOK'
  BY <1>1, <1>2, <1>3 DEF TypeOK
<1>5. ~Streams'
  BY <1>1 DEF Streams
<1>6. NothingMadeUp' /\ NothingEarly'
  BY <1>1 DEF Inv, NothingMadeUp, NothingEarly, Begun
<1> QED BY <1>4, <1>5, <1>6 DEF Inv, InStep, Sent, Remembered

LEMMA ToolCallBrokenStep ==
  ASSUME Inv, ToolCallBroken
  PROVE  Inv'
<1>1. /\ UNCHANGED <<mode, hold, tools, dedup, buf, out, known, searched, saved>>
      /\ at = "run" /\ at' = "again" /\ live' = live \cup {"retry"} /\ TypeOK
      /\ unsure' = (unsure \/ dedup.saw)
  BY DEF ToolCallBroken, Goto, shown, corpus, Inv
<1>2. llm' \in [msg : Seq(Lines), said : Seq(Lines), tries : 1..2]
      /\ llm'.msg = <<>> /\ llm'.said = llm.said
  <2>1. llm \in [msg : Seq(Lines), said : Seq(Lines), tries : 1..2]
    BY <1>1 DEF TypeOK
  <2>2. <<>> \in Seq(Lines)
    BY EmptySeq
  <2>3. llm' = [llm EXCEPT !.msg = <<>>, !.tries = 2]
    BY DEF ToolCallBroken
  <2>4. llm' = [msg |-> <<>>, said |-> llm.said, tries |-> 2]
    BY <2>1, <2>3
  <2> QED BY <2>1, <2>2, <2>4
<1>3. TypeOK'
  <2>1. unsure' \in BOOLEAN
    BY <1>1 DEF TypeOK
  <2> QED BY <1>1, <1>2, <2>1 DEF TypeOK, Labels
<1>4. InStep'
  BY <1>1, <1>2 DEF Inv, InStep, Streams
<1>5. NothingEarly' /\ NothingMadeUp' /\ Sent' /\ Remembered'
  BY <1>1, QuietStep DEF Begun, Ended
<1> QED BY <1>3, <1>4, <1>5 DEF Inv

LEMMA StreamFailsStep ==
  ASSUME Inv, StreamFails
  PROVE  Inv'
<1>1. /\ UNCHANGED <<mode, hold, tools, llm, dedup, buf, known, searched, saved, unsure>>
      /\ at \in {"run", "again", "tail"} /\ at' = "close" /\ live' = live \ {"retry"}
      /\ out' = Append(out, ErrorNote) /\ TypeOK
  BY DEF StreamFails, Goto, corpus, Inv
<1>2. out \in Seq(Lines \cup Notes) /\ out' \in Seq(Lines \cup Notes)
  <2>1. out \in Seq(Lines \cup Notes) /\ ErrorNote \in Lines \cup Notes
    BY <1>1 DEF TypeOK, Notes
  <2> QED BY <1>1, <2>1, AppendProperties
<1>3. TypeOK'
  BY <1>1, <1>2 DEF TypeOK, Labels, Notes
<1>4. InStep'
  BY <1>1 DEF Inv, InStep, Streams
<1>5. NothingMadeUp'
  <2> SUFFICES ASSUME hold, NEW line \in ToSet(out')
               PROVE  (line \in Values => line \in known) /\ (line \in Guides => searched)
    BY <1>1 DEF NothingMadeUp
  <2>1. PICK i \in DOMAIN out' : line = out'[i]
    BY DEF ToSet
  <2>2. i \in 1..Len(out) + 1 /\ (i \in 1..Len(out) => out'[i] = out[i])
        /\ out'[Len(out) + 1] = ErrorNote
    BY <1>1, <1>2, <2>1
  <2>3. line \in ToSet(out) \/ line = ErrorNote
    BY <1>2, <2>1, <2>2 DEF ToSet
  <2> QED BY <2>3, NoteFacts DEF Inv, NothingMadeUp, Notes
<1>6. Sent'
  <2> SUFFICES ASSUME Streams, ~hold
               PROVE  /\ Ended' /\ out' # <<>> /\ Last(out') = ErrorNote
                      /\ Front(out') \in Seq(Lines) /\ Front(out') \o buf' = dedup'.full
    BY <1>1 DEF Sent, Streams
  <2>1. out \in Seq(Lines) /\ out \o buf = dedup.full
    BY <1>1 DEF Inv, Sent, Ended
  <2>2. out' # <<>> /\ Last(out') = ErrorNote
    BY <1>1, <1>2 DEF Last
  <2>3. Front(out') = out
    <3>1. Len(out') = Len(out) + 1 /\ Len(out') - 1 = Len(out)
      BY <1>1, <1>2
    <3>2. SubSeq(out', 1, Len(out)) = SubSeq(out, 1, Len(out))
      BY <1>1, <1>2, <3>1
    <3> QED BY <2>1, <3>1, <3>2, SubSeqFull DEF Front
  <2> QED BY <1>1, <2>1, <2>2, <2>3 DEF Ended
<1>7. NothingEarly' /\ Remembered'
  BY <1>1 DEF NothingEarly, Begun, Remembered
<1> QED BY <1>3, <1>4, <1>5, <1>6, <1>7 DEF Inv

LEMMA SendTailStep ==
  ASSUME Inv, SendTail
  PROVE  Inv'
<1>1. /\ UNCHANGED <<mode, hold, live, tools, llm, dedup, known, searched, saved, unsure>>
      /\ at = "tail" /\ at' = "close" /\ buf' = <<>> /\ TypeOK
  BY DEF SendTail, Goto, held, corpus, Inv
<1>2. dedup.full \in Seq(Lines) /\ buf \in Seq(Lines) /\ out \in Seq(Lines \cup Notes)
  BY <1>1 DEF TypeOK, Notes
<1>3. out' \in Seq(Lines \cup Notes) /\ NothingMadeUp'
  <2>1. CASE hold
    <3>1. PICK text \in Review(dedup.full) : out' = text
      BY <2>1 DEF SendTail
    <3> QED BY <1>1, <1>2, <2>1, <3>1, ReviewFacts DEF NothingMadeUp
  <2>2. CASE ~hold
    <3>1. out' = out \o buf
      BY <2>2 DEF SendTail, Flush
    <3>2. buf \in Seq(Lines \cup Notes)
      BY <1>2
    <3> QED BY <1>1, <1>2, <2>2, <3>1, <3>2, ConcatProperties DEF NothingMadeUp
  <2> QED BY <2>1, <2>2
<1>4. TypeOK'
  <2>1. buf' \in Seq(Lines)
    BY <1>1, EmptySeq
  <2> QED BY <1>1, <1>3, <2>1 DEF TypeOK, Labels, Notes
<1>5. InStep'
  BY <1>1 DEF Inv, InStep, Streams
<1>6. Sent'
  <2> SUFFICES ASSUME Streams, ~hold
               PROVE  out' \in Seq(Lines) /\ out' \o buf' = dedup'.full
    BY <1>1 DEF Sent, Streams
  <2>1. out \in Seq(Lines) /\ out \o buf = dedup.full
    BY <1>1 DEF Inv, Sent, Ended
  <2>2. out' = dedup.full
    BY <2>1 DEF SendTail, Flush
  <2> QED BY <1>1, <1>2, <2>2, ConcatEmptySeq
<1>7. NothingEarly' /\ Remembered'
  BY <1>1 DEF NothingEarly, Begun, Remembered
<1> QED BY <1>3, <1>4, <1>5, <1>6, <1>7 DEF Inv

LEMMA CloseToolsetsStep ==
  ASSUME Inv, CloseToolsets
  PROVE  Inv'
<1>1. /\ UNCHANGED <<mode, hold, live, llm, dedup, buf, known, searched, unsure>>
      /\ at = "tools" /\ at' = "over" /\ tools' = FALSE /\ TypeOK
      /\ saved' = IF dedup.full = <<>> THEN None ELSE dedup.full
  BY DEF CloseToolsets, Goto, corpus, Inv, Answer
<1>2. dedup.full \in Seq(Lines) /\ out \in Seq(Lines \cup Notes)
  BY <1>1 DEF TypeOK, Notes
<1>3. out' \in Seq(Lines \cup Notes) /\ NothingMadeUp'
  <2>1. CASE Streams
    <3>1. out' = out
      BY <2>1 DEF CloseToolsets
    <3> QED BY <1>1, <1>2, <3>1 DEF Inv, NothingMadeUp
  <2>2. CASE ~Streams
    <3>1. PICK text \in Review(dedup.full) : out' = text
      BY <2>2 DEF CloseToolsets
    <3> QED BY <1>1, <1>2, <3>1, ReviewFacts DEF NothingMadeUp
  <2> QED BY <2>1, <2>2
<1>4. TypeOK'
  <2>1. saved' \in Seq(Lines) \cup {None}
    BY <1>1, <1>2
  <2> QED BY <1>1, <1>3, <2>1 DEF TypeOK, Labels, Notes
<1>5. InStep'
  BY <1>1 DEF Inv, InStep, Streams
<1>6. Sent'
  <2> SUFFICES ASSUME Streams, ~hold PROVE Sent'
    BY <1>1 DEF Sent, Streams
  <2>1. out' = out
    BY DEF CloseToolsets
  <2> QED BY <1>1, <2>1 DEF Inv, Sent, Ended, Streams
<1>7. NothingEarly' /\ Remembered'
  BY <1>1 DEF NothingEarly, Begun, Remembered
<1> QED BY <1>3, <1>4, <1>5, <1>6, <1>7 DEF Inv

LEMMA NextInv == Inv /\ [Next]_vars => Inv'
<1> SUFFICES ASSUME Inv, [Next]_vars PROVE Inv'
  OBVIOUS
<1>1. CASE Quiet
  BY <1>1, QuietSteps
<1>2. CASE SeedGuard
  BY <1>2, SeedGuardStep
<1>3. ASSUME NEW line \in Lines, Partial(line) PROVE Inv'
  BY <1>3, PartialStep
<1>4. ASSUME NEW rest \in BoundedSeq(Lines, 1), Final(rest) PROVE Inv'
  <2>1. rest \in Seq(Lines)
    <3>1. PICK m \in 0..1 : rest \in [1..m -> Lines]
      BY DEF BoundedSeq, SeqOf
    <3> QED BY <3>1
  <2> QED BY <1>4, <2>1, FinalStep
<1>5. ASSUME NEW line \in Lines, NEW last \in BOOLEAN, PlainFinal(line, last) PROVE Inv'
  BY <1>5, PlainFinalStep
<1>6. CASE ToolCallBroken
  BY <1>6, ToolCallBrokenStep
<1>7. CASE StreamFails
  BY <1>7, StreamFailsStep
<1>8. CASE SendTail
  BY <1>8, SendTailStep
<1>9. CASE CloseToolsets
  BY <1>9, CloseToolsetsStep
<1>10. CASE UNCHANGED vars
  BY <1>10 DEF vars, handler, held, shown, corpus, Inv, TypeOK, InStep, NothingEarly, Begun,
     NothingMadeUp, Sent, Ended, Remembered, Streams
<1> QED BY <1>1, <1>2, <1>3, <1>4, <1>5, <1>6, <1>7, <1>8, <1>9, <1>10
    DEF Next, Handle, Quiet
-----------------------------------------------------------------------------
(***************************************************************************)
(* Theorems                                                                *)
(***************************************************************************)

\* The invariant holds in every reachable state.
THEOREM Invariance == Spec => []Inv
BY InitInv, NextInv, PTL DEF Spec

\* The handler, the _StreamDedup, what is shown and what is saved keep their types.
THEOREM TypeCorrect == Spec => []TypeOK
<1>1. Inv => TypeOK
  BY DEF Inv
<1> QED BY <1>1, Invariance, PTL

\* Whether the ADK streams new text, all text or whole messages, over any number of messages
\* and a retry between two of them, _StreamDedup.feed keeps what the LLM said: no line twice,
\* none lost.
THEOREM EveryLineOnce == Spec => []DedupExact
<1>1. Inv => DedupExact
  BY DEF Inv, InStep, DedupExact
<1> QED BY <1>1, Invariance, PTL

\* With answer_grounding_check on, the user never sees a value that no tool returned, nor a
\* reference to a manual that nobody searched, streaming or not (_AnswerGuard.review).
THEOREM Grounded == Spec => []NothingMadeUp
<1>1. Inv => NothingMadeUp
  BY DEF Inv
<1> QED BY <1>1, Invariance, PTL

\* What of a text remains without the text of an error, when the text is lines of an answer
\* or such lines with the error behind them.
LEMMA AnswerFacts ==
  ASSUME Inv, Streams, ~hold
  PROVE  AnswerOf(out) \in Seq(Lines) /\ AnswerOf(out) \o buf = dedup.full
<1>1. CASE out \in Seq(Lines) /\ out \o buf = dedup.full
  <2>1. ToSet(out) \cap {ErrorNote} = {}
    BY <1>1, NoteFacts DEF ToSet
  <2> QED BY <1>1, <2>1, WithoutFacts DEF AnswerOf
<1>2. CASE /\ out # <<>> /\ Last(out) = ErrorNote
           /\ Front(out) \in Seq(Lines) /\ Front(out) \o buf = dedup.full
  <2>1. out \in Seq(Lines \cup Notes)
    BY DEF Inv, TypeOK, Notes
  <2>2. out = Append(Front(out), ErrorNote)
    <3>1. PICK s \in Seq(Lines \cup Notes), e \in Lines \cup Notes : out = Append(s, e)
      BY <1>2, <2>1, SequenceEmptyOrAppend
    <3>2. Len(out) = Len(s) + 1 /\ Len(out) - 1 = Len(s) /\ out[Len(s) + 1] = e
      BY <3>1
    <3>3. Front(out) = s
      <4>1. SubSeq(out, 1, Len(s)) = SubSeq(s, 1, Len(s))
        BY <3>1, <3>2
      <4> QED BY <3>2, <4>1, SubSeqFull DEF Front
    <3>4. e = ErrorNote
      BY <1>2, <3>2 DEF Last
    <3> QED BY <3>1, <3>3, <3>4
  <2>3. ToSet(Front(out)) \cap {ErrorNote} = {}
    BY <1>2, NoteFacts DEF ToSet
  <2>4. PICK s \in Seq(Lines) : s = Front(out)
    BY <1>2
  <2>5. Without(Append(s, ErrorNote), {ErrorNote}) = s
    BY <2>3, <2>4, WithoutLast
  <2> QED BY <1>2, <2>2, <2>4, <2>5 DEF AnswerOf
<1> QED BY <1>1, <1>2 DEF Inv, Sent

\* However ChartInliner cuts the text, what was sent and what it still holds back are the
\* whole answer, in order: flush sends the rest.
THEOREM AnswerWhole == Spec => []AnswerDelivered
<1>1. Inv => AnswerDelivered
  BY AnswerFacts DEF AnswerDelivered
<1> QED BY <1>1, Invariance, PTL

\* Of an answer that was shown, _bg_persist hands at least the same to the memory.
THEOREM ShownIsRemembered == Spec => []RememberedAsShown
<1>1. Inv => RememberedAsShown
  <2> SUFFICES ASSUME Inv, Streams, ~hold, at = "over", AnswerOf(out) # <<>>
               PROVE  saved # None /\ IsPrefix(AnswerOf(out), saved)
    BY DEF RememberedAsShown
  <2>1. AnswerOf(out) \in Seq(Lines) /\ AnswerOf(out) \o buf = dedup.full
    BY AnswerFacts
  <2>2. out # <<>>
    <3>1. Without(<<>>, {ErrorNote}) = <<>>
      <4>1. <<>> \in Seq(Lines) /\ ToSet(<<>>) \cap {ErrorNote} = {}
        BY EmptySeq DEF ToSet
      <4> QED BY <4>1, WithoutFacts
    <3> QED BY <3>1 DEF AnswerOf
  <2>3. buf \in Seq(Lines) /\ dedup.full \in Seq(Lines)
    BY DEF Inv, TypeOK
  <2>4. dedup.full # <<>>
    BY <2>1, <2>3
  <2>5. saved = dedup.full
    BY <2>2, <2>4 DEF Inv, Remembered
  <2>6. saved # None
    BY <2>3, <2>5, StreamAssumption DEF Lines
  <2>7. IsPrefix(AnswerOf(out), AnswerOf(out) \o buf)
    BY <2>1, <2>3, RestFacts
  <2> QED BY <2>1, <2>5, <2>6, <2>7
<1> QED BY <1>1, Invariance, PTL
=============================================================================
