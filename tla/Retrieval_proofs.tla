-------------------------- MODULE Retrieval_proofs --------------------------
(***************************************************************************)
(* Proofs about the calls of the embedding server, the reading of a manual *)
(* and the searches, for any number of callers, texts, batches, pages and  *)
(* chunks.                                                                 *)
(***************************************************************************)
EXTENDS Embedding, Search, TLAPS, FiniteSetTheorems, SequenceTheorems

(***************************************************************************)
(* The calls of the embedding server                                       *)
(***************************************************************************)
Place0  == Vector \cup {None}    \* a place of a result
CallRow == [at : {"idle", "model", "keys", "store", "returned", "raised"}, texts : Seq(Texts), out : Seq(Place0),
            single : Nat, failed : Nat, model : 0..MaxSetting, redis : BOOLEAN, part : Seq(Texts), keys : Seq(Place0),
            vecs : Seq(Place0), began : Setting, hit : BOOLEAN]

\* v is of text t, and, unless a setting has changed, of the server and model of the start of e
Made(e, v, t) ==
    /\ v \in Vector /\ v.text = t
    /\ ~mixed => v.server = e.began.server /\ v.model = e.began.model

\* the places filled so far
Filled(e) ==
    /\ Len(e.out) <= Len(e.texts)
    /\ \A i \in 1..Len(e.out) : /\ e.out[i] = None => e.texts[i] \in Bad \/ e.hit
                                /\ e.out[i] # None => Made(e, e.out[i], e.texts[i])

\* the part under way is what follows; what is known of it is in step with it
Underway(e) ==
    /\ 1 <= Len(e.part) /\ Len(e.out) + Len(e.part) <= Len(e.texts)
    /\ e.single > 0 => Len(e.part) = 1
    /\ \A i \in 1..Len(e.part) : e.part[i] = e.texts[Len(e.out) + i]
    /\ e.model # 0 /\ (~mixed => e.model = e.began.model)
    /\ Len(e.keys) = Len(e.vecs) /\ Len(e.keys) <= Len(e.part)
    /\ \A i \in 1..Len(e.vecs) : /\ e.keys[i] # None => Made(e, e.keys[i], e.part[i])
                                 /\ e.vecs[i] # None => Made(e, e.vecs[i], e.part[i])
    /\ e.at = "store" => Len(e.vecs) = Len(e.part) /\ \A i \in 1..Len(e.vecs) : e.vecs[i] # None

InStep(e) ==
    /\ Filled(e)
    /\ e.at = "returned" => Len(e.out) = Len(e.texts)
    /\ e.at \in {"model", "keys", "store"} => /\ Len(e.out) < Len(e.texts)
                                              /\ ~mixed => e.began = setting
    /\ e.at \in {"keys", "store"} => Underway(e)

\* what is cached under a key is of its text, and all of what the key says unless a setting changed
Kept(k, v) == v # None => v \in Vector /\ v.text = k.text /\ (~mixed => v = k)

EmbedInv ==
    /\ setting \in Setting /\ mixed \in BOOLEAN
    /\ embed \in [Callers -> CallRow]
    /\ cache \in [Key -> Place0]
    /\ \A c \in Callers : InStep(embed[c])
    /\ \A k \in Key : Kept(k, cache[k])
-----------------------------------------------------------------------------
LEMMA Shift ==
  ASSUME NEW n \in Nat, NEW m \in Nat
  PROVE  /\ \A j \in 1..m : n + j \in 1..(n + m) /\ ~(n + j <= n) /\ (n + j) - n = j
         /\ \A i \in 1..(n + m) : ~(i <= n) => \E j \in 1..m : i = n + j
<1>1. ASSUME NEW i \in 1..(n + m), ~(i <= n) PROVE \E j \in 1..m : i = n + j
  <2>1. i - n \in 1..m /\ i = n + (i - n)
    BY <1>1
  <2> QED BY <2>1
<1> QED BY <1>1

\* where a result that is the longer by s is s, and elsewhere it is as before
LEMMA Joined ==
  ASSUME NEW S, NEW r \in Seq(S), NEW s \in Seq(S)
  PROVE  /\ r \o s \in Seq(S) /\ Len(r \o s) = Len(r) + Len(s)
         /\ \A i \in 1..Len(r) : (r \o s)[i] = r[i]
         /\ \A j \in 1..Len(s) : (r \o s)[Len(r) + j] = s[j]
<1> DEFINE n == Len(r)  m == Len(s)
<1>1. n \in Nat /\ m \in Nat
  BY LenProperties
<1>2. /\ r \o s \in Seq(S) /\ Len(r \o s) = n + m
      /\ \A i \in 1..(n + m) : (r \o s)[i] = IF i <= n THEN r[i] ELSE s[i - n]
  BY ConcatProperties
<1> HIDE DEF n, m
<1>3. ASSUME NEW i \in 1..n PROVE (r \o s)[i] = r[i]
  <2>1. i \in 1..(n + m) /\ i <= n
    BY <1>1
  <2> QED BY <1>2, <2>1
<1>4. ASSUME NEW j \in 1..m PROVE (r \o s)[n + j] = s[j]
  <2>1. n + j \in 1..(n + m) /\ ~(n + j <= n) /\ (n + j) - n = j
    BY <1>1, Shift
  <2> QED BY <1>2, <2>1
<1> QED BY <1>2, <1>3, <1>4 DEF n, m

LEMMA EmbedInitInv == EmbedInit => EmbedInv
<1> SUFFICES ASSUME EmbedInit PROVE EmbedInv
  OBVIOUS
<1>1. 1 \in 1..MaxSetting
  BY EmbeddingAssumption
<1>2. setting \in Setting /\ mixed = FALSE
  BY <1>1 DEF EmbedInit, Setting
<1>3. NoCall \in CallRow
  <2>1. <<>> \in Seq(Texts) /\ <<>> \in Seq(Place0)
    BY EmptySeq
  <2>2. 0 \in 0..MaxSetting /\ [server |-> 1, model |-> 1] \in Setting
    BY <1>1, EmbeddingAssumption DEF Setting
  <2> QED BY <2>1, <2>2 DEF NoCall, CallRow
<1>4. InStep(NoCall)
  <2>1. /\ NoCall.at = "idle" /\ NoCall.out = <<>> /\ NoCall.texts = <<>>
    BY DEF NoCall
  <2>2. Len(<<>>) = 0
    BY EmptySeq
  <2> QED BY <2>1, <2>2 DEF InStep, Filled
<1> QED BY <1>2, <1>3, <1>4 DEF EmbedInit, EmbedInv, Kept, Place0

\* what is known of a call stays so while no setting changes
LEMMA Unmoved ==
  ASSUME NEW d \in Callers, UNCHANGED <<setting, mixed>>, InStep(embed'[d])
  PROVE  InStep(embed[d])'
<1>1. Filled(embed[d])'
  BY DEF InStep, Filled, Made
<1>2. embed'[d].at \in {"keys", "store"} => Underway(embed[d])'
  BY DEF InStep, Underway, Made
<1> QED BY <1>1, <1>2 DEF InStep

\* a step that only changes one call
LEMMA OneCall ==
  ASSUME EmbedInv, NEW c \in Callers, NEW q \in CallRow, Calls(c, q),
         UNCHANGED <<setting, cache, mixed>>, InStep(q)
  PROVE  EmbedInv'
<1>1. embed' \in [Callers -> CallRow] /\ \A d \in Callers : embed'[d] = q \/ embed'[d] = embed[d]
  BY DEF EmbedInv, Calls
<1>2. \A d \in Callers : InStep(embed'[d])
  BY <1>1 DEF EmbedInv
<1>3. ASSUME NEW d \in Callers PROVE InStep(embed[d])'
  BY <1>2, Unmoved
<1>4. \A k \in Key : Kept(k, cache[k])'
  BY DEF EmbedInv, Kept
<1>5. (setting \in Setting /\ mixed \in BOOLEAN /\ cache \in [Key -> Place0])'
  BY DEF EmbedInv
<1> QED BY <1>1, <1>3, <1>4, <1>5 DEF EmbedInv

LEMMA PartFacts ==
  ASSUME NEW e \in CallRow, Len(e.out) < Len(e.texts)
  PROVE  /\ Part(e) \in Seq(Texts)
         /\ 1 <= Len(Part(e)) /\ Len(e.out) + Len(Part(e)) <= Len(e.texts)
         /\ e.single > 0 => Len(Part(e)) = 1
         /\ \A i \in 1..Len(Part(e)) : Part(e)[i] = e.texts[Len(e.out) + i]
<1> DEFINE from == Len(e.out) + 1
           upto == IF e.single > 0 THEN from ELSE from + Batch - 1
           last == IF upto < Len(e.texts) THEN upto ELSE Len(e.texts)
<1>1. /\ e.texts \in Seq(Texts) /\ e.out \in Seq(Place0) /\ e.single \in Nat
      /\ Batch \in Nat \ {0}
  BY EmbeddingAssumption DEF CallRow
<1>2. Len(e.texts) \in Nat /\ Len(e.out) \in Nat
  BY <1>1, LenProperties
<1>3. from \in 1..Len(e.texts) /\ last \in from..Len(e.texts) /\ (e.single > 0 => last = from)
  BY <1>1, <1>2
<1>4. Part(e) = SubSeq(e.texts, from, last)
  BY DEF Part
<1>5. from = Len(e.out) + 1
  OBVIOUS
<1> HIDE DEF from, last
<1>6. \A i \in from..last : e.texts[i] \in Texts
  BY <1>1, <1>2, <1>3, ElementOfSeq
<1>7. /\ Part(e) \in Seq(Texts) /\ Len(Part(e)) = last - from + 1
      /\ \A i \in 1..(last - from + 1) : Part(e)[i] = e.texts[from + i - 1]
  BY <1>2, <1>3, <1>4, <1>6, SubSeqProperties
<1>8. \A i \in 1..(last - from + 1) : from + i - 1 = Len(e.out) + i
  BY <1>2, <1>3, <1>5
<1> QED BY <1>2, <1>3, <1>5, <1>7, <1>8

\* the part under way is joined to the result
LEMMA SucceedFacts ==
  ASSUME NEW e \in CallRow, InStep(e), e.at \in {"keys", "store"},
         Len(e.vecs) = Len(e.part), \A i \in 1..Len(e.vecs) : e.vecs[i] # None
  PROVE  Succeed(e) \in CallRow /\ InStep(Succeed(e))
<1> DEFINE q == Succeed(e)
<1>0. /\ e.texts \in Seq(Texts) /\ e.out \in Seq(Place0) /\ e.vecs \in Seq(Place0) /\ e.part \in Seq(Texts)
      /\ e.single \in Nat
  BY DEF CallRow
<1>1. Len(e.texts) \in Nat /\ Len(e.out) \in Nat /\ Len(e.vecs) \in Nat /\ Len(e.part) \in Nat
  BY <1>0, LenProperties
<1>2. /\ q.out = e.out \o e.vecs /\ q.texts = e.texts /\ q.hit = e.hit /\ q.began = e.began
      /\ q.at = IF Len(e.out) + Len(e.part) = Len(e.texts) THEN "returned" ELSE "model"
  BY DEF Succeed, CallRow
<1>3. /\ e.out \o e.vecs \in Seq(Place0) /\ Len(e.out \o e.vecs) = Len(e.out) + Len(e.vecs)
      /\ \A i \in 1..Len(e.out) : (e.out \o e.vecs)[i] = e.out[i]
      /\ \A j \in 1..Len(e.vecs) : (e.out \o e.vecs)[Len(e.out) + j] = e.vecs[j]
  <2> HIDE DEF q
  <2>1. PICK r \in Seq(Place0), s \in Seq(Place0) : r = e.out /\ s = e.vecs
    BY <1>0
  <2>2. /\ r \o s \in Seq(Place0) /\ Len(r \o s) = Len(r) + Len(s)
        /\ \A i \in 1..Len(r) : (r \o s)[i] = r[i]
        /\ \A j \in 1..Len(s) : (r \o s)[Len(r) + j] = s[j]
    BY Joined
  <2> QED BY <2>1, <2>2
<1>4. q \in CallRow
  <2>1. e.out \o e.vecs \in Seq(Place0)
    BY <1>3
  <2>2. (IF e.single > Len(e.out) + 1 THEN e.single ELSE 0) \in Nat
    BY <1>0
  <2> HIDE DEF q
  <2> QED BY <2>1, <2>2 DEF q, Succeed, CallRow
<1> HIDE DEF q
<1>9. /\ Len(q.out) = Len(e.out) + Len(e.vecs)
      /\ \A i \in 1..Len(e.out) : q.out[i] = e.out[i]
      /\ \A j \in 1..Len(e.vecs) : q.out[Len(e.out) + j] = e.vecs[j]
  BY <1>2, <1>3
<1>5. Filled(e) /\ Underway(e)
  BY DEF InStep
<1>6. ASSUME NEW i \in 1..Len(q.out)
      PROVE  /\ q.out[i] = None => q.texts[i] \in Bad \/ q.hit
             /\ q.out[i] # None => Made(q, q.out[i], q.texts[i])
  <2>1. CASE i <= Len(e.out)
    <3>1. i \in 1..Len(e.out)
      BY <1>1, <1>3, <2>1
    <3> QED BY <1>2, <1>9, <1>5, <3>1 DEF Filled, Made
  <2>2. CASE ~(i <= Len(e.out))
    <3>1. PICK j \in 1..Len(e.vecs) : i = Len(e.out) + j
      <4>1. PICK n \in Nat, m \in Nat : n = Len(e.out) /\ m = Len(e.vecs)
        BY <1>1
      <4>2. i \in 1..(n + m) /\ ~(i <= n)
        BY <1>9, <2>2, <4>1
      <4> QED BY <4>1, <4>2, Shift
    <3>2. q.out[i] = e.vecs[j] /\ e.vecs[j] # None /\ e.part[j] = e.texts[i] /\ Made(e, e.vecs[j], e.part[j])
      BY <1>9, <1>5, <2>2, <3>1 DEF Underway
    <3> QED BY <1>2, <3>2 DEF Made
  <2> QED BY <2>1, <2>2
<1>7. Len(q.out) <= Len(q.texts) /\ (q.at = "returned" => Len(q.out) = Len(q.texts))
      /\ (q.at = "model" => Len(q.out) < Len(q.texts))
  <2>1. PICK n \in Nat, m \in Nat, k \in Nat : n = Len(e.out) /\ m = Len(e.vecs) /\ k = Len(e.texts)
    BY <1>1
  <2>2. n + m <= k /\ Len(q.out) = n + m /\ Len(q.texts) = k
    BY <1>2, <1>5, <1>9, <2>1 DEF Underway
  <2>3. q.at = IF n + m = k THEN "returned" ELSE "model"
    BY <1>2, <2>1
  <2> QED BY <2>2, <2>3
<1>8. q.at \in {"returned", "model"} /\ (~mixed => q.began = setting)
  BY <1>2 DEF InStep
<1> QED BY <1>4, <1>6, <1>7, <1>8 DEF q, InStep, Filled

\* the part under way failed: a batch will be tried text by text, a text stays without a vector
LEMMA FailFacts ==
  ASSUME NEW e \in CallRow, InStep(e), e.at = "keys", NEW fault \in BOOLEAN,
         fault \/ \E i \in 1..Len(e.part) : e.part[i] \in Bad
  PROVE  Fail(e, fault) \in CallRow /\ InStep(Fail(e, fault))
<1> DEFINE q == Fail(e, fault)
<1>0. /\ e.texts \in Seq(Texts) /\ e.out \in Seq(Place0) /\ e.part \in Seq(Texts)
      /\ e.single \in Nat /\ e.failed \in Nat /\ e.hit \in BOOLEAN
  BY DEF CallRow
<1>1. Len(e.texts) \in Nat /\ Len(e.out) \in Nat /\ Len(e.part) \in Nat
  BY <1>0, LenProperties
<1>5. Filled(e) /\ Underway(e) /\ Len(e.out) < Len(e.texts) /\ (~mixed => e.began = setting)
  BY DEF InStep
<1>a. CASE e.single = 0
  <2>1. q = [e EXCEPT !.at = "model", !.single = Len(e.out) + Len(e.part), !.hit = @ \/ fault]
    BY <1>a DEF Fail
  <2>2. q \in CallRow
    <3> DEFINE s == Len(e.out) + Len(e.part)
               h == e.hit \/ fault
    <3>1. s \in Nat
      <4>1. \A m, n \in Nat : m + n \in Nat
        OBVIOUS
      <4> QED BY <1>1, <4>1
    <3>3. h \in BOOLEAN
      OBVIOUS
    <3>2. q = [e EXCEPT !.at = "model", !.single = s, !.hit = h]
      BY <2>1
    <3> HIDE DEF q, s, h
    <3> QED BY <3>1, <3>2, <3>3 DEF CallRow
  <2>3. q.at = "model" /\ q.out = e.out /\ q.texts = e.texts /\ q.began = e.began /\ (e.hit => q.hit)
    BY <2>1 DEF CallRow
  <2> HIDE DEF q
  <2>4. InStep(q)
    BY <1>5, <2>3 DEF InStep, Filled, Made
  <2> QED BY <2>2, <2>4 DEF q
<1>b. CASE e.single # 0
  <2>1. q = [e EXCEPT !.out = Append(@, None), !.failed = @ + 1, !.hit = @ \/ fault,
                   !.at = IF e.failed + 1 >= MaxFailures THEN "raised"
                          ELSE IF Len(e.out) + 1 = Len(e.texts) THEN "returned" ELSE "model",
                   !.single = IF @ > Len(e.out) + 1 THEN @ ELSE 0]
    BY <1>b DEF Fail
  <2>2. /\ q.out = Append(e.out, None) /\ q.texts = e.texts /\ q.began = e.began
        /\ q.hit = (e.hit \/ fault) /\ q.at \in {"raised", "returned", "model"}
        /\ q.at = "returned" => Len(e.out) + 1 = Len(e.texts)
        /\ q.at = "model" => Len(e.out) + 1 # Len(e.texts)
    BY <2>1 DEF CallRow
  <2>3. /\ q.out \in Seq(Place0) /\ Len(q.out) = Len(e.out) + 1
        /\ \A i \in 1..Len(e.out) : q.out[i] = e.out[i]
        /\ q.out[Len(e.out) + 1] = None
    <3>1. None \in Place0
      BY DEF Place0
    <3> QED BY <1>0, <2>2, <3>1, AppendProperties
  <2>4. q \in CallRow
    <3> DEFINE o == Append(e.out, None)
               f == e.failed + 1
               s == IF e.single > Len(e.out) + 1 THEN e.single ELSE 0
               h == e.hit \/ fault
               a == IF f >= MaxFailures THEN "raised"
                    ELSE IF Len(e.out) + 1 = Len(e.texts) THEN "returned" ELSE "model"
    <3>1. o \in Seq(Place0) /\ f \in Nat /\ s \in Nat /\ h \in BOOLEAN
      BY <1>0, <2>2, <2>3
    <3>2. a \in {"idle", "model", "keys", "store", "returned", "raised"}
      OBVIOUS
    <3>3. q = [e EXCEPT !.out = o, !.failed = f, !.hit = h, !.at = a, !.single = s]
      BY <2>1
    <3> HIDE DEF q, o, f, s, h, a
    <3> DEFINE q1 == [e EXCEPT !.out = o, !.failed = f, !.hit = h]
    <3>4. q1 \in CallRow
      BY <3>1 DEF CallRow
    <3>5. q = [q1 EXCEPT !.at = a, !.single = s]
      BY <3>3 DEF CallRow
    <3> HIDE DEF q1
    <3> QED BY <3>1, <3>2, <3>4, <3>5 DEF CallRow
  <2> HIDE DEF q
  <2>5. e.texts[Len(e.out) + 1] \in Bad \/ q.hit
    <3>1. Len(e.part) = 1 /\ e.part[1] = e.texts[Len(e.out) + 1]
      BY <1>0, <1>5, <1>b DEF Underway
    <3> QED BY <2>2, <3>1
  <2>6. ASSUME NEW i \in 1..Len(q.out)
        PROVE  /\ q.out[i] = None => q.texts[i] \in Bad \/ q.hit
               /\ q.out[i] # None => Made(q, q.out[i], q.texts[i])
    <3>1. CASE i = Len(e.out) + 1
      BY <2>2, <2>3, <2>5, <3>1
    <3>2. CASE i # Len(e.out) + 1
      <4>1. i \in 1..Len(e.out)
        BY <1>1, <2>3, <3>2
      <4> QED BY <1>5, <2>2, <2>3, <4>1 DEF Filled, Made
    <3> QED BY <3>1, <3>2
  <2>7. InStep(q)
    BY <1>1, <1>5, <2>2, <2>3, <2>6 DEF InStep, Filled
  <2> QED BY <2>4, <2>7 DEF q
<1> QED BY <1>a, <1>b

LEMMA BeginInv == ASSUME EmbedInv, NEW c \in Callers, Begin(c) PROVE EmbedInv'
<1>1. PICK n \in 1..MaxLen : \E ts \in [1..n -> Texts] :
         Calls(c, [NoCall EXCEPT !.at = "model", !.texts = ts, !.began = setting])
  BY DEF Begin
<1>2. PICK ts \in [1..n -> Texts] :
         Calls(c, [NoCall EXCEPT !.at = "model", !.texts = ts, !.began = setting])
  BY <1>1
<1> DEFINE q == [NoCall EXCEPT !.at = "model", !.texts = ts, !.began = setting]
<1>3. n \in Nat \ {0} /\ ts \in Seq(Texts) /\ Len(ts) = n
  BY <1>1, <1>2, EmbeddingAssumption
<1>4. <<>> \in Seq(Texts) /\ <<>> \in Seq(Place0) /\ Len(<<>>) = 0 /\ setting \in Setting
  BY EmptySeq DEF EmbedInv
<1>5. q \in CallRow
  <2>1. 0 \in 0..MaxSetting
    BY EmbeddingAssumption
  <2> QED BY <1>3, <1>4, <2>1 DEF NoCall, CallRow
<1>6. q.at = "model" /\ q.texts = ts /\ q.out = <<>> /\ q.began = setting
  BY DEF NoCall
<1>7. UNCHANGED <<setting, cache, mixed>>
  BY DEF Begin
<1> HIDE DEF q
<1>8. InStep(q)
  BY <1>3, <1>4, <1>6 DEF InStep, Filled
<1>9. Calls(c, q)
  BY <1>2 DEF q
<1> QED BY <1>5, <1>7, <1>8, <1>9, OneCall

LEMMA ReadModelInv == ASSUME EmbedInv, NEW c \in Callers, ReadModel(c) PROVE EmbedInv'
<1>1. PICK e \in CallRow : e = embed[c]
  BY DEF EmbedInv
<1>2. InStep(e) /\ e.at = "model" /\ UNCHANGED <<setting, cache, mixed>>
  BY <1>1 DEF EmbedInv, ReadModel
<1>3. PICK r \in BOOLEAN : Calls(c, [e EXCEPT !.at = "keys", !.part = Part(e), !.model = setting.model, !.redis = r, !.keys = <<>>,
                                       !.vecs = <<>>])
  BY <1>1 DEF ReadModel, RedisThere
<1>4. PICK part : part = Part(e)
  OBVIOUS
<1>5. Filled(e) /\ Len(e.out) < Len(e.texts) /\ (~mixed => e.began = setting)
  BY <1>2 DEF InStep
<1>6. /\ part \in Seq(Texts) /\ 1 <= Len(part) /\ Len(e.out) + Len(part) <= Len(e.texts)
      /\ e.single > 0 => Len(part) = 1
      /\ \A i \in 1..Len(part) : part[i] = e.texts[Len(e.out) + i]
  BY <1>4, <1>5, PartFacts
<1>7. setting.model \in 1..MaxSetting /\ setting.model \in 0..MaxSetting /\ setting.model # 0
  BY EmbeddingAssumption DEF EmbedInv, Setting
<1>8. <<>> \in Seq(Place0) /\ Len(<<>>) = 0 /\ Len(part) \in Nat
  BY <1>6, EmptySeq, LenProperties
<1> DEFINE q == [e EXCEPT !.at = "keys", !.part = part, !.model = setting.model, !.redis = r, !.keys = <<>>, !.vecs = <<>>]
<1>9. q \in CallRow
  BY <1>6, <1>7, <1>8 DEF CallRow
<1>10. /\ q.at = "keys" /\ q.part = part /\ q.model = setting.model /\ q.keys = <<>> /\ q.vecs = <<>>
       /\ q.out = e.out /\ q.texts = e.texts /\ q.hit = e.hit /\ q.began = e.began /\ q.single = e.single
  BY DEF CallRow
<1>11. Calls(c, q)
  BY <1>3, <1>4
<1> HIDE DEF q
<1>12. Filled(q)
  BY <1>5, <1>10 DEF Filled, Made
<1>13. Underway(q)
  BY <1>5, <1>6, <1>7, <1>8, <1>10 DEF Underway
<1> QED BY <1>2, <1>5, <1>9, <1>10, <1>11, <1>12, <1>13, OneCall DEF InStep

LEMMA LookUpInv == ASSUME EmbedInv, NEW c \in Callers, LookUp(c) PROVE EmbedInv'
<1>1. PICK e \in CallRow : e = embed[c]
  BY DEF EmbedInv
<1>2. PICK i : i = Len(e.keys) + 1
  OBVIOUS
<1>3. /\ InStep(e) /\ e.at = "keys" /\ i <= Len(e.part) /\ UNCHANGED <<setting, cache, mixed>>
  BY <1>1, <1>2 DEF EmbedInv, LookUp
<1>4. PICK k : k = CacheKey(e, e.part[i])
  OBVIOUS
<1>5. PICK found \in {None} \cup (IF e.redis THEN {cache[k]} ELSE {}) :
        Calls(c, [e EXCEPT !.keys = Append(@, IF e.redis /\ found = None THEN k ELSE None), !.vecs = Append(@, found)])
  BY <1>1, <1>2, <1>4 DEF LookUp
<1>6. PICK key : key = IF e.redis /\ found = None THEN k ELSE None
  OBVIOUS
<1>7. /\ Filled(e) /\ Underway(e) /\ Len(e.out) < Len(e.texts) /\ (~mixed => e.began = setting)
  BY <1>3 DEF InStep
<1>8. /\ e.keys \in Seq(Place0) /\ e.vecs \in Seq(Place0) /\ e.part \in Seq(Texts)
  BY DEF CallRow
<1>9. Len(e.keys) \in Nat /\ Len(e.vecs) = Len(e.keys) /\ Len(e.part) \in Nat
  BY <1>7, <1>8, LenProperties DEF Underway
<1>10. e.part[i] \in Texts
  BY <1>2, <1>3, <1>8, <1>9, ElementOfSeq
<1>11. /\ k \in Vector /\ k.server = setting.server /\ k.model = e.model /\ k.text = e.part[i]
  <2>1. e.model \in 1..MaxSetting /\ setting.server \in 1..MaxSetting
    <3>1. e.model \in 0..MaxSetting /\ e.model # 0 /\ MaxSetting \in Nat
      BY <1>7, EmbeddingAssumption DEF CallRow, Underway
    <3>2. e.model \in 1..MaxSetting
      BY <3>1
    <3> QED BY <3>2 DEF EmbedInv, Setting
  <2> QED BY <1>4, <1>10, <2>1 DEF CacheKey, FullKey, Vector
<1>12. Made(e, k, e.part[i])
  BY <1>7, <1>11 DEF Made, Underway
<1>13. found # None => Made(e, found, e.part[i])
  <2>1. found # None => found = cache[k]
    BY <1>5
  <2>2. Kept(k, cache[k])
    BY <1>11 DEF EmbedInv, Key
  <2> QED BY <1>11, <1>12, <2>1, <2>2 DEF Kept, Made
<1>14. /\ key # None => Made(e, key, e.part[i])
       /\ key \in Place0 /\ found \in Place0
  BY <1>6, <1>11, <1>12, <1>13 DEF Place0, Made
<1> DEFINE q == [e EXCEPT !.keys = Append(@, key), !.vecs = Append(@, found)]
<1>15. Calls(c, q)
  BY <1>5, <1>6
<1>16. /\ Append(e.keys, key) \in Seq(Place0) /\ Append(e.vecs, found) \in Seq(Place0)
  BY <1>8, <1>14, AppendProperties
<1>17. q \in CallRow
  BY <1>16 DEF CallRow
<1>18. /\ q.at = "keys" /\ q.part = e.part /\ q.model = e.model /\ q.keys = Append(e.keys, key) /\ q.vecs = Append(e.vecs, found)
       /\ q.out = e.out /\ q.texts = e.texts /\ q.hit = e.hit /\ q.began = e.began /\ q.single = e.single
  BY <1>3 DEF CallRow
<1> HIDE DEF q
<1>19. /\ Len(q.keys) = i /\ Len(q.vecs) = i
       /\ \A j \in 1..Len(e.keys) : q.keys[j] = e.keys[j] /\ q.vecs[j] = e.vecs[j]
       /\ q.keys[i] = key /\ q.vecs[i] = found
  BY <1>2, <1>8, <1>9, <1>14, <1>18, AppendProperties
<1>20. ASSUME NEW j \in 1..Len(q.vecs)
       PROVE  /\ q.keys[j] # None => Made(q, q.keys[j], q.part[j])
              /\ q.vecs[j] # None => Made(q, q.vecs[j], q.part[j])
  <2>1. CASE j = i
    BY <1>13, <1>14, <1>18, <1>19, <2>1 DEF Made
  <2>2. CASE j # i
    <3>1. j \in 1..Len(e.keys) /\ j \in 1..Len(e.vecs)
      BY <1>2, <1>9, <1>19, <2>2
    <3> QED BY <1>7, <1>18, <1>19, <3>1 DEF Made, Underway
  <2> QED BY <2>1, <2>2
<1>21. Underway(q)
  <2>1. /\ 1 <= Len(q.part) /\ Len(q.out) + Len(q.part) <= Len(q.texts)
        /\ q.single > 0 => Len(q.part) = 1
        /\ \A j \in 1..Len(q.part) : q.part[j] = q.texts[Len(q.out) + j]
        /\ q.model # 0 /\ (~mixed => q.model = q.began.model)
    BY <1>7, <1>18 DEF Underway
  <2>2. Len(q.keys) = Len(q.vecs) /\ Len(q.keys) <= Len(q.part) /\ q.at # "store"
    BY <1>3, <1>18, <1>19
  <2> QED BY <1>20, <2>1, <2>2 DEF Underway
<1>22. Filled(q)
  BY <1>7, <1>18 DEF Filled, Made
<1> QED BY <1>3, <1>7, <1>15, <1>17, <1>18, <1>21, <1>22, OneCall DEF InStep

\* every place is filled with the vector of its own text, in whatever order the answer came
LEMMA PlacedFacts ==
  ASSUME EmbedInv, NEW e \in CallRow, InStep(e), e.at = "keys", Len(e.keys) = Len(e.part),
         NEW a \in ServerAnswers(Todo(e))
  PROVE  /\ Placed(e, Todo(e), a) \in Seq(Place0) /\ Len(Placed(e, Todo(e), a)) = Len(e.part)
         /\ \A i \in 1..Len(e.part) : /\ Placed(e, Todo(e), a)[i] # None
                                      /\ Made(e, Placed(e, Todo(e), a)[i], e.part[i])
<1> DEFINE todo == Todo(e)
           of(pos) == [server |-> setting.server, model |-> e.model, text |-> e.part[a.order[pos]]]
           at(i) == CHOOSE pos \in todo : Place(a, pos) = i
           s == Placed(e, todo, a)
<1>1. e.part \in Seq(Texts) /\ e.vecs \in Seq(Place0) /\ Len(e.part) \in Nat
  <2>1. e.part \in Seq(Texts) /\ e.vecs \in Seq(Place0)
    BY DEF CallRow
  <2> QED BY <2>1, LenProperties
<1>2. Underway(e) /\ (~mixed => e.began = setting) /\ Len(e.vecs) = Len(e.part)
  BY DEF InStep, Underway
<1>3. s = [i \in 1..Len(e.part) |-> IF e.vecs[i] # None THEN e.vecs[i] ELSE of(at(i))]
  BY DEF Placed
<1>4. todo = {i \in 1..Len(e.part) : e.vecs[i] = None}
  BY DEF Todo
<1>5. \A i \in todo : \E pos \in todo : Place(a, pos) = i
  BY DEF ServerAnswers, Orders, Place, ByIndex
<1>6. \A pos \in todo : a.order[pos] = Place(a, pos)
  BY DEF ServerAnswers, Orders, Place, ByIndex
<1>7. ASSUME NEW i \in todo
      PROVE  of(at(i)) \in Vector /\ Made(e, of(at(i)), e.part[i])
  <2>1. at(i) \in todo /\ Place(a, at(i)) = i
    BY <1>5
  <2>2. a.order[at(i)] = i
    BY <1>6, <2>1
  <2>3. e.part[i] \in Texts
    <3>1. i \in 1..Len(e.part)
      BY <1>4
    <3> QED BY <1>1, <3>1, ElementOfSeq
  <2>4. e.model \in 1..MaxSetting /\ setting.server \in 1..MaxSetting
    <3>1. e.model \in 0..MaxSetting /\ e.model # 0 /\ MaxSetting \in Nat
      BY <1>2, EmbeddingAssumption DEF CallRow, Underway
    <3>2. e.model \in 1..MaxSetting
      BY <3>1
    <3> QED BY <3>2 DEF EmbedInv, Setting
  <2>5. of(at(i)) = [server |-> setting.server, model |-> e.model, text |-> e.part[i]]
    BY <2>2
  <2> HIDE DEF of, at, todo
  <2> QED BY <1>2, <2>3, <2>4, <2>5 DEF Vector, Made, Underway
<1> HIDE DEF of, at, todo, s
<1>8. ASSUME NEW i \in 1..Len(e.part)
      PROVE  s[i] \in Place0 /\ s[i] # None /\ Made(e, s[i], e.part[i])
  <2>1. CASE e.vecs[i] # None
    <3>1. s[i] = e.vecs[i] /\ Made(e, e.vecs[i], e.part[i])
      BY <1>2, <1>3, <2>1 DEF Underway
    <3> QED BY <2>1, <3>1 DEF Made, Place0
  <2>2. CASE e.vecs[i] = None
    <3>1. i \in todo /\ s[i] = of(at(i))
      BY <1>3, <1>4, <2>2
    <3>2. None \notin Vector
      BY EmbeddingAssumption DEF Vector
    <3> QED BY <1>7, <3>1, <3>2 DEF Place0
  <2> QED BY <2>1, <2>2
<1>9. s \in [1..Len(e.part) -> Place0]
  BY <1>3, <1>8
<1>10. s \in Seq(Place0) /\ Len(s) = Len(e.part)
  BY <1>1, <1>9
<1> QED BY <1>8, <1>10 DEF s, todo

LEMMA PostInv == ASSUME EmbedInv, NEW c \in Callers, Post(c) PROVE EmbedInv'
<1>1. PICK e \in CallRow : e = embed[c]
  BY DEF EmbedInv
<1>2. PICK todo : todo = Todo(e)
  OBVIOUS
<1>3. /\ InStep(e) /\ e.at = "keys" /\ Len(e.keys) = Len(e.part) /\ UNCHANGED <<setting, cache, mixed>>
  BY <1>1 DEF EmbedInv, Post
<1>4. Underway(e) /\ Len(e.vecs) = Len(e.part)
  BY <1>3 DEF InStep, Underway
<1>5. todo = {i \in 1..Len(e.part) : e.vecs[i] = None}
  BY <1>2 DEF Todo
<1>a. CASE todo = {} /\ Calls(c, Succeed(e))
  <2>1. \A i \in 1..Len(e.vecs) : e.vecs[i] # None
    BY <1>4, <1>5, <1>a
  <2> QED BY <1>3, <1>4, <1>a, <2>1, SucceedFacts, OneCall
<1>b. ASSUME NEW fault \in BOOLEAN, fault \/ (\E i \in todo : e.part[i] \in Bad), Calls(c, Fail(e, fault))
      PROVE  EmbedInv'
  <2>1. fault \/ \E i \in 1..Len(e.part) : e.part[i] \in Bad
    BY <1>5, <1>b
  <2> QED BY <1>3, <1>b, <2>1, FailFacts, OneCall
<1>c. ASSUME NEW a \in ServerAnswers(todo),
             Calls(c, [e EXCEPT !.at = "store", !.vecs = Placed(e, todo, a)])
      PROVE  EmbedInv'
  <2>1. PICK s : s = Placed(e, todo, a)
    OBVIOUS
  <2>2. /\ s \in Seq(Place0) /\ Len(s) = Len(e.part)
        /\ \A i \in 1..Len(e.part) : s[i] # None /\ Made(e, s[i], e.part[i])
    BY <1>2, <1>3, <1>c, <2>1, PlacedFacts
  <2> DEFINE q == [e EXCEPT !.at = "store", !.vecs = s]
  <2>3. q \in CallRow
    BY <2>2 DEF CallRow
  <2>4. /\ q.at = "store" /\ q.part = e.part /\ q.model = e.model /\ q.keys = e.keys /\ q.vecs = s
        /\ q.out = e.out /\ q.texts = e.texts /\ q.hit = e.hit /\ q.began = e.began /\ q.single = e.single
    BY DEF CallRow
  <2>5. Calls(c, q)
    BY <1>c, <2>1
  <2> HIDE DEF q
  <2>6. Filled(q)
    BY <1>3, <2>4 DEF InStep, Filled, Made
  <2>7. Underway(q)
    <3>1. /\ 1 <= Len(q.part) /\ Len(q.out) + Len(q.part) <= Len(q.texts)
          /\ q.single > 0 => Len(q.part) = 1
          /\ \A j \in 1..Len(q.part) : q.part[j] = q.texts[Len(q.out) + j]
          /\ q.model # 0 /\ (~mixed => q.model = q.began.model)
      BY <1>4, <2>4 DEF Underway
    <3>2. Len(q.keys) = Len(q.vecs) /\ Len(q.keys) <= Len(q.part) /\ Len(q.vecs) = Len(q.part)
      BY <1>3, <1>4, <2>2, <2>4 DEF Underway
    <3>3. \A j \in 1..Len(q.vecs) : /\ q.keys[j] # None => Made(q, q.keys[j], q.part[j])
                                   /\ q.vecs[j] # None /\ Made(q, q.vecs[j], q.part[j])
      BY <1>4, <2>2, <2>4 DEF Underway, Made
    <3> QED BY <3>1, <3>2, <3>3 DEF Underway
  <2>8. InStep(q)
    BY <1>3, <2>4, <2>6, <2>7 DEF InStep
  <2> QED BY <1>3, <2>3, <2>5, <2>8, OneCall
<1> QED
  BY <1>1, <1>2, <1>a, <1>b, <1>c DEF Post

LEMMA StoreInv == ASSUME EmbedInv, NEW c \in Callers, Store(c) PROVE EmbedInv'
<1>1. PICK e \in CallRow : e = embed[c]
  BY DEF EmbedInv
<1>2. /\ InStep(e) /\ e.at = "store" /\ Calls(c, Succeed(e)) /\ UNCHANGED <<setting, mixed>>
  BY <1>1 DEF EmbedInv, Store
<1>3. PICK n \in 0..Len(e.keys) :
         cache' = [k \in Key |-> IF \E i \in 1..n : e.keys[i] = k THEN e.vecs[CHOOSE i \in 1..n : e.keys[i] = k]
                                  ELSE cache[k]]
  <2> DEFINE now(x, n) == [k \in Key |-> IF \E i \in 1..n : x.keys[i] = k
                                           THEN x.vecs[CHOOSE i \in 1..n : x.keys[i] = k] ELSE cache[k]]
  <2>1. \E n \in 0..Len(embed[c].keys) : cache' = now(embed[c], n)
    BY Zenon DEF Store
  <2> HIDE DEF now
  <2>2. \E n \in 0..Len(e.keys) : cache' = now(e, n)
    BY <1>1, <2>1
  <2> QED BY <2>2 DEF now
<1>4. /\ Underway(e) /\ Len(e.vecs) = Len(e.part) /\ Len(e.keys) = Len(e.vecs)
      /\ \A i \in 1..Len(e.vecs) : e.vecs[i] # None
  BY <1>2 DEF InStep, Underway
<1>5. Succeed(e) \in CallRow /\ InStep(Succeed(e))
  BY <1>2, <1>4, SucceedFacts
<1>6. Len(e.keys) \in Nat
  BY LenProperties DEF CallRow
<1>7. \A k \in Key : k \in Vector /\ k # None
  BY EmbeddingAssumption DEF Key, Vector
<1>8. ASSUME NEW k \in Key PROVE Kept(k, cache'[k]) /\ cache'[k] \in Place0
  <2>1. CASE \E i \in 1..n : e.keys[i] = k
    <3>1. PICK i \in 1..n : e.keys[i] = k /\ cache'[k] = e.vecs[i]
      <4>1. cache'[k] = e.vecs[CHOOSE i \in 1..n : e.keys[i] = k]
        BY <1>3, <2>1
      <4> QED BY <2>1, <4>1
    <3>2. i \in 1..Len(e.vecs)
      BY <1>3, <1>4, <1>6
    <3>3. Made(e, k, e.part[i]) /\ Made(e, e.vecs[i], e.part[i])
      BY <1>4, <1>7, <3>1, <3>2 DEF Underway
    <3>4. ~mixed => e.vecs[i] = k
      BY <3>3 DEF Made, Vector
    <3> QED BY <3>1, <3>3, <3>4 DEF Kept, Made, Place0
  <2>2. CASE ~\E i \in 1..n : e.keys[i] = k
    BY <1>3, <2>2 DEF EmbedInv
  <2> QED BY <2>1, <2>2
<1>9. cache' \in [Key -> Place0]
  <2> DEFINE f(k) == IF \E i \in 1..n : e.keys[i] = k THEN e.vecs[CHOOSE i \in 1..n : e.keys[i] = k] ELSE cache[k]
  <2>1. cache' = [k \in Key |-> f(k)]
    BY <1>3
  <2> HIDE DEF f
  <2> QED BY <1>8, <2>1
<1>10. embed' \in [Callers -> CallRow] /\ \A d \in Callers : InStep(embed'[d])
  <2>1. embed' = [embed EXCEPT ![c] = Succeed(e)] /\ embed \in [Callers -> CallRow]
    BY <1>2 DEF Calls, EmbedInv
  <2> QED BY <1>5, <2>1 DEF EmbedInv
<1>11. ASSUME NEW d \in Callers PROVE InStep(embed[d])'
  BY <1>2, <1>10, Unmoved
<1>12. \A k \in Key : Kept(k, cache[k])'
  BY <1>2, <1>8 DEF Kept
<1>13. (setting \in Setting /\ mixed \in BOOLEAN)'
  BY <1>2 DEF EmbedInv
<1> QED BY <1>9, <1>10, <1>11, <1>12, <1>13 DEF EmbedInv

LEMMA ChangeSettingInv == ASSUME EmbedInv, ChangeSetting PROVE EmbedInv'
<1>1. PICK s \in Setting : setting' = s
  BY DEF ChangeSetting
<1>2. /\ mixed' = (mixed \/ \E c \in Callers : Active(c)) /\ UNCHANGED <<cache, embed>>
  BY DEF ChangeSetting
<1>3. mixed => mixed'
  BY <1>2
<1>4. \A c \in Callers : embed[c].at \in {"model", "keys", "store"} => mixed'
  BY <1>2 DEF Active
<1>5. ASSUME NEW d \in Callers PROVE InStep(embed[d])'
  <2>1. PICK e : e = embed[d] /\ e = embed'[d] /\ InStep(e)
    BY <1>2 DEF EmbedInv
  <2>2. Filled(embed[d])'
    BY <1>3, <2>1 DEF InStep, Filled, Made
  <2>3. e.at \in {"keys", "store"} => Underway(embed[d])'
    BY <1>3, <2>1 DEF InStep, Underway, Made
  <2> QED BY <1>2, <1>4, <2>1, <2>2, <2>3 DEF InStep
<1>6. \A k \in Key : Kept(k, cache[k])'
  BY <1>2, <1>3 DEF EmbedInv, Kept
<1>7. (setting \in Setting /\ mixed \in BOOLEAN /\ embed \in [Callers -> CallRow] /\ cache \in [Key -> Place0])'
  BY <1>1, <1>2 DEF EmbedInv
<1> QED BY <1>5, <1>6, <1>7 DEF EmbedInv

LEMMA EmbedStep == EmbedInv /\ [EmbedNext]_embedVars => EmbedInv'
<1> SUFFICES ASSUME EmbedInv, [EmbedNext]_embedVars PROVE EmbedInv'
  OBVIOUS
<1>1. CASE UNCHANGED embedVars
  <2>1. UNCHANGED <<setting, cache, embed, mixed>>
    BY <1>1 DEF embedVars
  <2>2. ASSUME NEW d \in Callers PROVE InStep(embed[d])'
    <3>1. InStep(embed'[d])
      BY <2>1 DEF EmbedInv
    <3> QED BY <2>1, <3>1, Unmoved
  <2>3. (setting \in Setting /\ mixed \in BOOLEAN /\ embed \in [Callers -> CallRow] /\ cache \in [Key -> Place0])'
    BY <2>1 DEF EmbedInv
  <2>4. \A k \in Key : Kept(k, cache[k])'
    BY <2>1 DEF EmbedInv, Kept
  <2> QED BY <2>2, <2>3, <2>4 DEF EmbedInv
<1> QED
  BY <1>1, BeginInv, ReadModelInv, LookUpInv, PostInv, StoreInv, ChangeSettingInv DEF EmbedNext

\* Every reachable state of the calls satisfies the inductive invariant.
THEOREM CallsInStep == EmbedSpec => []EmbedInv
  BY EmbedInitInv, EmbedStep, PTL DEF EmbedSpec

\* embed_texts and _embed_batch give every text its own vector, or none where it was refused
\* or something failed: for any batch size, any number of callers that share the cache, any
\* order of the answer and any part of it that came from the cache.
THEOREM EveryTextItsVector == EmbedSpec => []VectorsFit
<1>1. EmbedInv => VectorsFit
  BY DEF EmbedInv, InStep, Filled, Made, VectorsFit
<1> QED BY <1>1, CallsInStep, PTL
-----------------------------------------------------------------------------
(***************************************************************************)
(* The reading of a manual                                                 *)
(***************************************************************************)
ReaderRow == [at : {"idle", "count", "rows", "end"}, file : Files \cup {Nil}, offset : Nat, total : Nat,
              got : Seq([chunk : Nat, whole : BOOLEAN]), calm : BOOLEAN]

\* of a manual of n chunks the first ones have been returned, and nothing else
ReadTo(r, n) ==
    /\ r.offset <= n /\ Len(r.got) = r.offset
    /\ \A i \in 1..r.offset : r.got[i].chunk = i
    /\ r.at \in {"rows", "end"} => r.total = n
    /\ r.at = "end" => r.offset = n

ReadInv ==
    /\ layout \in Layouts
    /\ reader \in ReaderRow
    /\ reader.at # "idle" => reader.file \in Files
    /\ (reader.at # "idle" /\ reader.calm /\ reader.file \in shown) => ReadTo(reader, Len(layout[reader.file]))

\* A set of naturals that is not empty has a least element: the loop of get_document stops
\* at a first chunk.
LEMMA Smallest ==
  ASSUME NEW T \in SUBSET Nat, NEW x \in T
  PROVE  \E m \in T : \A y \in T : m <= y
<1> DEFINE U == {1..n : n \in T}
<1>1. U \subseteq FiniteSubsetsOf(Nat)
  BY FS_Interval DEF FiniteSubsetsOf
<1>2. U # {}
  OBVIOUS
<1>3. IsWellFoundedOn(StrictSubsetOrdering(Nat), FiniteSubsetsOf(Nat))
  BY FS_StrictSubsetOrderingWellFounded
<1> HIDE DEF U
<1>4. PICK u \in U : \A v \in U : ~ (<<v, u>> \in StrictSubsetOrdering(Nat))
  BY <1>1, <1>2, <1>3, WFMin
<1>5. PICK m \in T : u = 1..m
  BY DEF U
<1>6. ASSUME NEW y \in T PROVE m <= y
  <2> DEFINE v == 1..y
  <2>1. v \in U
    BY DEF U
  <2>2. v \in SUBSET Nat /\ 1..m \in SUBSET Nat
    OBVIOUS
  <2>3. ~(v \subseteq u /\ v # u)
    <3> HIDE DEF v
    <3> QED BY <1>4, <1>5, <2>1, <2>2 DEF StrictSubsetOrdering
  <2>4. ASSUME y < m PROVE FALSE
    <3>1. m \in u /\ m \notin v /\ v \subseteq u
      BY <1>5, <2>4
    <3> QED BY <2>3, <3>1
  <2> QED BY <2>4
<1> QED BY <1>6

\* the first members of a list
LEMMA FirstOf ==
  ASSUME NEW S, NEW s \in Seq(S), NEW n \in Nat
  PROVE  /\ First(s, n) \in Seq(S) /\ Len(First(s, n)) \in Nat
         /\ Len(First(s, n)) <= n /\ Len(First(s, n)) <= Len(s)
         /\ \A i \in 1..Len(First(s, n)) : i \in 1..Len(s) /\ First(s, n)[i] = s[i]
         /\ (n >= 1 /\ Len(s) >= 1) => Len(First(s, n)) >= 1
<1>1. Len(s) \in Nat
  BY LenProperties
<1> DEFINE m == Least(n, Len(s))
<1>2. m \in 0..Len(s) /\ m <= n /\ (n >= 1 /\ Len(s) >= 1 => m >= 1)
  BY <1>1 DEF Least
<1>3. First(s, n) = SubSeq(s, 1, m)
  BY DEF First
<1> HIDE DEF m
<1>4. \A i \in 1..m : i \in 1..Len(s) /\ s[i] \in S
  <2>1. \A i \in 1..m : i \in 1..Len(s)
    BY <1>1, <1>2
  <2> QED BY <2>1, ElementOfSeq
<1>5. /\ SubSeq(s, 1, m) \in Seq(S) /\ Len(SubSeq(s, 1, m)) = IF 1 <= m THEN m - 1 + 1 ELSE 0
      /\ \A i \in 1 .. m - 1 + 1 : SubSeq(s, 1, m)[i] = s[1 + i - 1]
  <2>1. 1 \in Int /\ m \in Int
    BY <1>1, <1>2
  <2> QED BY <1>4, <2>1, SubSeqProperties
<1>6. Len(SubSeq(s, 1, m)) = m
  BY <1>1, <1>2, <1>5
<1>7. \A i \in 1..m : SubSeq(s, 1, m)[i] = s[i]
  BY <1>1, <1>2, <1>5
<1> QED BY <1>2, <1>3, <1>4, <1>5, <1>6, <1>7 DEF m

\* the rows of a page are chunks that follow
LEMMA RowsFacts ==
  ASSUME ReadInv, reader.at = "rows"
  PROVE  /\ Len(Rows) \in Nat
         /\ (reader.file \in shown /\ reader.offset <= Len(layout[reader.file]))
                => reader.offset + Len(Rows) <= Len(layout[reader.file])
<1> DEFINE all == layout[reader.file]
           rest == SubSeq(all, reader.offset + 1, Len(all))
<1>1. /\ reader.file \in Files /\ layout \in Layouts /\ reader.offset \in Nat
      /\ PageLimit \in Nat
  BY SearchAssumption DEF ReadInv, ReaderRow
<1>2. all \in Seq(Range(all))
  BY <1>1, SearchAssumption
<1>3. Len(all) \in Nat
  BY <1>2, LenProperties
<1> HIDE DEF all
<1>4. \A i \in (reader.offset + 1)..Len(all) : all[i] \in Range(all)
  <2>1. \A i \in (reader.offset + 1)..Len(all) : i \in 1..Len(all)
    BY <1>1, <1>3
  <2> QED BY <1>2, <2>1, ElementOfSeq
<1>5. /\ rest \in Seq(Range(all))
      /\ Len(rest) = IF reader.offset + 1 <= Len(all) THEN Len(all) - (reader.offset + 1) + 1 ELSE 0
  <2>1. reader.offset + 1 \in Int /\ Len(all) \in Int
    BY <1>1, <1>3
  <2> QED BY <1>4, <2>1, SubSeqProperties
<1>6. Rows = IF reader.file \notin shown THEN <<>> ELSE First(rest, PageLimit)
  BY DEF Rows, all
<1> HIDE DEF rest
<1>7. Len(First(rest, PageLimit)) \in Nat /\ Len(First(rest, PageLimit)) <= Len(rest)
  BY <1>1, <1>5, FirstOf
<1>8. Len(<<>>) = 0
  BY EmptySeq
<1>9. Len(Rows) \in Nat
  BY <1>6, <1>7, <1>8
<1>10. (reader.file \in shown /\ reader.offset <= Len(all)) => reader.offset + Len(Rows) <= Len(all)
  BY <1>1, <1>3, <1>5, <1>6, <1>7
<1> QED BY <1>9, <1>10 DEF all

LEMMA PageReads ==
  ASSUME ReadInv, Page
  PROVE  ReadInv'
<1> DEFINE rows == Rows
           fits(n) == Used(First(rows, n + 1)) <= PageSize
           whole == CHOOSE n \in 0..Len(rows) : (n = Len(rows) \/ ~fits(n)) /\ \A m \in 0..(n - 1) : fits(m)
           cut   == whole < Len(rows) /\ PageSize - Used(First(rows, whole)) > CutMin
           n     == IF cut THEN whole + 1 ELSE whole
           new   == [i \in 1..n |-> [chunk |-> reader.offset + i, whole |-> i <= whole]]
           last  == IF NextOffset(n) < reader.total \/ whole < Len(rows) THEN "count" ELSE "end"
<1>1. /\ reader.at = "rows" /\ UNCHANGED <<layout, shown>>
      /\ reader' = [reader EXCEPT !.got = @ \o new, !.offset = NextOffset(n), !.at = last]
  BY DEF Page
<1>2. /\ Len(rows) \in Nat
      /\ (reader.file \in shown /\ reader.offset <= Len(layout[reader.file]))
            => reader.offset + Len(rows) <= Len(layout[reader.file])
  BY <1>1, RowsFacts
<1> HIDE DEF rows, fits
<1>3. whole \in 0..Len(rows)
  <2> DEFINE T == {k \in 0..Len(rows) : k = Len(rows) \/ ~fits(k)}
  <2>1. T \in SUBSET Nat /\ Len(rows) \in T
    BY <1>2
  <2>2. PICK m \in T : \A y \in T : m <= y
    BY <2>1, Smallest
  <2>3. \A k \in 0..(m - 1) : fits(k)
    BY <1>2, <2>2
  <2>4. m \in 0..Len(rows) /\ (m = Len(rows) \/ ~fits(m))
    OBVIOUS
  <2> QED BY <2>3, <2>4
<1> HIDE DEF whole
<1>4. n \in 0..Len(rows)
  BY <1>2, <1>3
<1> HIDE DEF cut, n
<1>5. NextOffset(n) = reader.offset + n
  BY DEF NextOffset, AfterReturned
<1>6. reader \in ReaderRow /\ reader.offset \in Nat /\ reader.total \in Nat
      /\ reader.got \in Seq([chunk : Nat, whole : BOOLEAN])
  BY DEF ReadInv, ReaderRow
<1>7. /\ new \in Seq([chunk : Nat, whole : BOOLEAN]) /\ Len(new) = n
      /\ \A i \in 1..n : new[i].chunk = reader.offset + i
  BY <1>2, <1>3, <1>4, <1>6
<1> HIDE DEF new
<1>8. last \in {"count", "end"} /\ (last = "end" => ~(reader.offset + n < reader.total))
  BY <1>5
<1> HIDE DEF last
<1>9. /\ reader.got \o new \in Seq([chunk : Nat, whole : BOOLEAN])
      /\ Len(reader.got \o new) = Len(reader.got) + n
      /\ \A i \in 1..Len(reader.got) : (reader.got \o new)[i] = reader.got[i]
      /\ \A j \in 1..n : (reader.got \o new)[Len(reader.got) + j] = new[j]
  <2>1. PICK g \in Seq([chunk : Nat, whole : BOOLEAN]), s \in Seq([chunk : Nat, whole : BOOLEAN]) :
           g = reader.got /\ s = new
    BY <1>6, <1>7
  <2>2. /\ g \o s \in Seq([chunk : Nat, whole : BOOLEAN])
        /\ Len(g \o s) = Len(g) + Len(s)
        /\ \A i \in 1..Len(g) : (g \o s)[i] = g[i]
        /\ \A j \in 1..Len(s) : (g \o s)[Len(g) + j] = s[j]
    BY Joined
  <2> QED BY <1>7, <2>1, <2>2
<1>10. /\ reader' \in ReaderRow
       /\ reader'.at = last /\ reader'.got = reader.got \o new /\ reader'.offset = reader.offset + n
       /\ reader'.file = reader.file /\ reader'.total = reader.total /\ reader'.calm = reader.calm
  <2>1. reader.offset + n \in Nat
    BY <1>2, <1>4, <1>6
  <2> QED BY <1>1, <1>5, <1>6, <1>8, <1>9, <2>1 DEF ReaderRow
<1>11. ASSUME reader.calm, reader.file \in shown
       PROVE  ReadTo(reader', Len(layout[reader.file]))
  <2>1. ReadTo(reader, Len(layout[reader.file]))
    BY <1>1, <1>11 DEF ReadInv
  <2>2. PICK all \in Nat, o \in Nat : all = Len(layout[reader.file]) /\ o = reader.offset
    <3>1. reader.file \in Files /\ layout \in Layouts
      BY <1>1 DEF ReadInv
    <3>2. layout[reader.file] \in Seq(Range(layout[reader.file]))
      BY <3>1, SearchAssumption
    <3>3. Len(layout[reader.file]) \in Nat
      BY <3>2, LenProperties
    <3> QED BY <1>6, <3>3
  <2>3. o + n <= all /\ reader'.offset = o + n
    <3>1. o <= all /\ o + Len(rows) <= all
      BY <1>2, <1>11, <2>1, <2>2 DEF ReadTo
    <3> QED BY <1>2, <1>4, <1>10, <2>2, <3>1
  <2>4. reader.total = all /\ Len(reader.got) = o /\ \A i \in 1..o : reader.got[i].chunk = i
    BY <1>1, <2>1, <2>2 DEF ReadTo
  <2>5. ASSUME NEW i \in 1..(o + n) PROVE reader'.got[i].chunk = i
    <3>1. CASE i <= o
      <4>1. i \in 1..o
        BY <2>2, <3>1
      <4> QED BY <1>9, <1>10, <2>4, <4>1
    <3>2. CASE ~(i <= o)
      <4>1. n \in Nat
        BY <1>2, <1>4
      <4>2. PICK j \in 1..n : i = o + j
        BY <2>2, <3>2, <4>1, Shift
      <4>3. reader'.got[i] = new[j]
        BY <1>9, <1>10, <2>4, <4>2
      <4> QED BY <1>7, <2>2, <4>2, <4>3
    <3> QED BY <3>1, <3>2
  <2>6. Len(reader'.got) = o + n
    BY <1>9, <1>10, <2>4
  <2>7. last = "end" => o + n = all
    <3>1. n \in Nat
      BY <1>2, <1>4
    <3>2. last = "end" => ~(o + n < all)
      BY <1>8, <2>2, <2>4
    <3>3. \A x, y \in Nat : x <= y /\ ~(x < y) => x = y
      OBVIOUS
    <3>4. o + n \in Nat
      BY <3>1
    <3> QED BY <2>2, <2>3, <3>2, <3>3, <3>4
  <2> QED BY <1>10, <2>2, <2>3, <2>4, <2>5, <2>6, <2>7 DEF ReadTo
<1>12. (layout \in Layouts /\ reader.file \in Files)'
  BY <1>1, <1>10 DEF ReadInv
<1>13. (reader.calm /\ reader.file \in shown)' => ReadTo(reader', Len(layout'[reader'.file]))
  BY <1>1, <1>10, <1>11
<1> QED BY <1>10, <1>12, <1>13 DEF ReadInv, ReadTo

LEMMA OpenReads == ASSUME ReadInv, NEW f \in Manuals, Open(f) PROVE ReadInv'
<1>1. /\ reader' = [NoRead EXCEPT !.at = "count", !.file = f] /\ UNCHANGED <<layout, shown>>
  BY DEF Open
<1>2. <<>> \in Seq([chunk : Nat, whole : BOOLEAN]) /\ Len(<<>>) = 0
  BY EmptySeq
<1>3. f \in Files
  BY DEF Files
<1>4. /\ reader' \in ReaderRow /\ reader'.at = "count" /\ reader'.file = f /\ reader'.offset = 0
      /\ reader'.got = <<>>
  BY <1>1, <1>2, <1>3 DEF NoRead, ReaderRow
<1>5. Len(layout[f]) \in Nat
  <2>1. layout[f] \in Seq(Range(layout[f]))
    BY <1>3, SearchAssumption DEF ReadInv
  <2> QED BY <2>1, LenProperties
<1>6. ReadTo(reader', Len(layout[f]))
  BY <1>2, <1>4, <1>5 DEF ReadTo
<1> QED BY <1>1, <1>3, <1>4, <1>6 DEF ReadInv, ReadTo

LEMMA CountReads == ASSUME ReadInv, Count PROVE ReadInv'
<1> DEFINE total == IF reader.file \in shown THEN Len(layout[reader.file]) ELSE 0
<1>1. /\ reader.at = "count" /\ reader' = [reader EXCEPT !.at = "rows", !.total = total]
      /\ UNCHANGED <<layout, shown>>
  BY DEF Count
<1>2. reader.file \in Files /\ layout \in Layouts /\ reader \in ReaderRow
  BY <1>1 DEF ReadInv
<1>3. total \in Nat /\ (reader.file \in shown => total = Len(layout[reader.file]))
  <2>1. layout[reader.file] \in Seq(Range(layout[reader.file]))
    BY <1>2, SearchAssumption
  <2> QED BY <2>1, LenProperties
<1> HIDE DEF total
<1>4. /\ reader' \in ReaderRow /\ reader'.at = "rows" /\ reader'.total = total /\ reader'.file = reader.file
      /\ reader'.offset = reader.offset /\ reader'.got = reader.got /\ reader'.calm = reader.calm
  BY <1>1, <1>2, <1>3 DEF ReaderRow
<1> QED BY <1>1, <1>2, <1>3, <1>4 DEF ReadInv, ReadTo

LEMMA ReadInit == SearchInit => ReadInv
<1>1. <<>> \in Seq([chunk : Nat, whole : BOOLEAN])
  BY EmptySeq
<1> QED BY <1>1 DEF SearchInit, ReadInv, ReaderRow, NoRead

LEMMA ReadStep == ReadInv /\ [SearchNext]_searchVars => ReadInv'
<1> SUFFICES ASSUME ReadInv, [SearchNext]_searchVars PROVE ReadInv'
  OBVIOUS
<1>1. CASE UNCHANGED <<layout, shown, reader>>
  BY <1>1 DEF ReadInv, ReadTo
<1>2. CASE UNCHANGED searchVars
  BY <1>1, <1>2 DEF searchVars
<1>3. ASSUME NEW k \in Kinds, Ask(k) \/ Candidates(k) \/ Rerank(k) \/ Fails(k) PROVE ReadInv'
  BY <1>1, <1>3 DEF Ask, Candidates, Rerank, Fails
<1>4. CASE AttachNeighbours
  BY <1>1, <1>4 DEF AttachNeighbours
<1>5. ASSUME NEW f \in Files, Move(f) PROVE ReadInv'
  <2>1. reader' = [reader EXCEPT !.calm = FALSE] /\ UNCHANGED layout
    BY <1>5 DEF Move
  <2> QED BY <2>1 DEF ReadInv, ReaderRow
<1> QED
  BY <1>2, <1>3, <1>4, <1>5, PageReads, OpenReads, CountReads DEF SearchNext

\* Who reads a manual by next_offset until has_more is false gets every chunk, or the
\* beginning of one that was cut, once and in order: for manuals of any length and pages of
\* any size, as long as the manual is neither published nor withdrawn meanwhile.
THEOREM ManualReadThrough == SearchSpec => []ReadsThrough
<1>1. ReadInv => ReadsThrough
  <2> SUFFICES ASSUME ReadInv, reader.at = "end", reader.calm, reader.file \in shown
               PROVE  [i \in DOMAIN reader.got |-> reader.got[i].chunk] = [i \in 1..Len(layout[reader.file]) |-> i]
    BY DEF ReadsThrough
  <2>1. /\ Len(reader.got) = Len(layout[reader.file])
        /\ \A i \in 1..Len(layout[reader.file]) : reader.got[i].chunk = i
    BY DEF ReadInv, ReadTo
  <2>2. DOMAIN reader.got = 1..Len(reader.got)
    BY LenProperties DEF ReadInv, ReaderRow
  <2> QED BY <2>1, <2>2
<1>2. SearchSpec => []ReadInv
  BY ReadInit, ReadStep, PTL DEF SearchSpec
<1> QED BY <1>1, <1>2, PTL

(***************************************************************************)
(* The searches                                                            *)
(***************************************************************************)

LEMMA FunSeq ==
  ASSUME NEW S, NEW m \in Nat, NEW s \in [1..m -> S]
  PROVE  s \in Seq(S) /\ Len(s) = m
<1>1. s \in Seq(S)
  BY SeqDef
<1>2. Len(s) \in Nat /\ DOMAIN s = 1..Len(s)
  BY <1>1, LenProperties
<1>3. 1..Len(s) = 1..m
  BY <1>2
<1>4. \A x, y \in Nat : 1..x = 1..y => x = y
  OBVIOUS
<1> QED BY <1>1, <1>2, <1>3, <1>4

\* a list in a set of lists, and a list without members
LEMMA ListFacts ==
  ASSUME NEW S, NEW n \in Nat, NEW s \in Lists(S, n)
  PROVE  /\ s \in Seq(S) /\ Len(s) \in Nat /\ Len(s) <= n /\ DOMAIN s = 1..Len(s)
         /\ \A i \in 1..Len(s) : s[i] \in S
         /\ \A i, j \in 1..Len(s) : s[i] = s[j] => i = j
<1>1. PICK m \in 0..n : s \in [1..m -> S] /\ \A i, j \in 1..m : s[i] = s[j] => i = j
  BY DEF Lists
<1>2. s \in Seq(S) /\ Len(s) = m
  BY <1>1, FunSeq
<1> QED BY <1>1, <1>2

LEMMA EmptyList ==
  ASSUME NEW S, NEW s \in Seq(S)
  PROVE  /\ (s = <<>>) <=> (Len(s) = 0)
         /\ s # <<>> => Len(s) \in Nat /\ Len(s) >= 1 /\ s[1] \in S /\ 1 \in 1..Len(s)
         /\ Range(s) = {s[i] : i \in 1..Len(s)}
<1>1. /\ Len(<<>>) = 0 /\ (s # <<>> => Len(s) \in Nat \ {0})
  BY EmptySeq
<1>2. s # <<>> => Len(s) >= 1 /\ 1 \in 1..Len(s)
  BY <1>1
<1>3. s # <<>> => s[1] \in S
  BY <1>2, ElementOfSeq
<1>4. DOMAIN s = 1..Len(s)
  BY LenProperties
<1> QED BY <1>1, <1>2, <1>3, <1>4 DEF Range

LEMMA Exact ==
  ASSUME NEW d \in Nat \ {0}, NEW c \in Nat, c % d = 0
  PROVE  c \div d \in Nat /\ d * (c \div d) = c
<1>1. c = d * (c \div d) + (c % d)
  BY Z3
<1>2. c \div d \in Nat
  BY SMT
<1> QED BY <1>1, <1>2

LEMMA WeightFacts ==
  /\ \A r \in 1..Limit : Weight(r) \in Nat /\ Weight(r) > 0
  /\ \A r \in 1..Limit : r # 1 => Weight(r) < Weight(1)
<1>1. Limit \in Nat /\ Common \in Nat \ {0}
  BY SearchAssumption
<1>2. ASSUME NEW r \in 1..Limit
      PROVE  Weight(r) \in Nat /\ (60 + r) * Weight(r) = Common
  <2>1. Common % (60 + r) = 0 /\ r \in Nat /\ 60 + r \in Nat \ {0}
    BY <1>1, SearchAssumption
  <2>2. PICK d \in Nat \ {0}, c \in Nat : d = 60 + r /\ c = Common /\ c % d = 0
    BY <1>1, <2>1
  <2>3. c \div d \in Nat /\ d * (c \div d) = c
    BY <2>2, Exact
  <2>4. Weight(r) = c \div d
    BY <2>2 DEF Weight
  <2> QED BY <2>2, <2>3, <2>4
<1>3. ASSUME NEW r \in 1..Limit PROVE Weight(r) > 0
  <2>1. r \in Nat /\ Weight(r) \in Nat /\ (60 + r) * Weight(r) = Common
    BY <1>1, <1>2
  <2>2. (60 + r) * 0 = 0
    BY <2>1
  <2> QED BY <1>1, <2>1, <2>2
<1>4. ASSUME NEW r \in 1..Limit, r # 1 PROVE Weight(r) < Weight(1)
  <2>1. 1 \in 1..Limit /\ r \in Nat /\ r >= 2
    BY <1>1, <1>4
  <2>2. PICK a \in Nat, b \in Nat : a = Weight(1) /\ b = Weight(r)
    BY <1>2, <2>1
  <2>3. 61 * a = Common /\ (60 + r) * b = Common /\ b > 0
    BY <1>2, <1>3, <2>1, <2>2
  <2>4. (60 + r) * b >= 62 * b
    BY <2>1, <2>2
  <2> QED BY <2>1, <2>2, <2>3, <2>4
<1> QED BY <1>2, <1>3, <1>4

\* what one axis gives to the chunk it puts first, and to another
LEMMA GivesFacts ==
  ASSUME NEW S, NEW axis \in Lists(S, Limit), NEW c
  PROVE  /\ Gives(axis, c) \in Nat
         /\ c \notin Range(axis) => Gives(axis, c) = 0
         /\ c \in Range(axis) => Gives(axis, c) > 0 /\ Gives(axis, c) <= Weight(1)
         /\ (c \in Range(axis) /\ axis[1] # c) => Gives(axis, c) < Weight(1)
         /\ (axis # <<>> /\ axis[1] = c) => Gives(axis, c) = Weight(1)
<1> DEFINE at == {i \in DOMAIN axis : axis[i] = c}
           r  == CHOOSE i \in at : TRUE
<1>0. Limit \in Nat
  BY SearchAssumption
<1>1. /\ axis \in Seq(S) /\ Len(axis) \in Nat /\ Len(axis) <= Limit /\ DOMAIN axis = 1..Len(axis)
      /\ \A i, j \in 1..Len(axis) : axis[i] = axis[j] => i = j
  BY <1>0, ListFacts
<1>2. /\ Range(axis) = {axis[i] : i \in 1..Len(axis)}
      /\ axis # <<>> => 1 \in 1..Len(axis)
  BY <1>1, EmptyList
<1>3. Gives(axis, c) = IF at = {} THEN 0 ELSE Weight(r)
  BY DEF Gives
<1>4. at = {} <=> c \notin Range(axis)
  BY <1>1, <1>2
<1>5. at # {} => r \in at
  OBVIOUS
<1> HIDE DEF r
<1>6. at # {} => r \in 1..Len(axis) /\ axis[r] = c /\ r \in 1..Limit
  BY <1>0, <1>1, <1>5
<1> HIDE DEF at
<1>7. at # {} => Weight(r) \in Nat /\ Weight(r) > 0
  BY <1>6, WeightFacts
<1>8. at # {} /\ r # 1 => Weight(r) < Weight(1) /\ 1 \in 1..Limit /\ Weight(1) \in Nat
  <2>1. at # {} => 1 \in 1..Limit
    BY <1>0, <1>6
  <2> QED BY <1>6, <2>1, WeightFacts
<1>9. (axis # <<>> /\ axis[1] = c) => at # {} /\ r = 1
  BY <1>1, <1>2, <1>4, <1>6
<1>10. (c \in Range(axis) /\ axis[1] # c) => r # 1
  BY <1>4, <1>6
<1>11. c \in Range(axis) => Weight(r) <= Weight(1)
  <2>1. CASE r = 1
    BY <1>4, <1>7, <2>1
  <2>2. CASE r # 1
    BY <1>4, <1>7, <1>8, <2>2
  <2> QED BY <2>1, <2>2
<1>12. CASE at = {}
  BY <1>3, <1>4, <1>9, <1>12
<1>13. CASE at # {}
  <2>1. Gives(axis, c) = Weight(r)
    BY <1>3, <1>13
  <2> QED BY <1>4, <1>7, <1>8, <1>9, <1>10, <1>11, <1>13, <2>1
<1> QED BY <1>12, <1>13

\* What is first on every axis that finds anything has a higher score than any other.
LEMMA FirstWins ==
  ASSUME NEW S, NEW axes \in [1..3 -> Lists(S, Limit)], NEW b \in Found(axes),
         \A i \in 1..3 : axes[i] = <<>> \/ axes[i][1] = b,
         NEW d \in Found(axes), d # b
  PROVE  /\ Score(axes, b) \in Nat /\ Score(axes, d) \in Nat
         /\ Score(axes, d) < Score(axes, b)
<1>1. ASSUME NEW i \in 1..3
      PROVE  /\ Gives(axes[i], b) \in Nat /\ Gives(axes[i], d) \in Nat
             /\ Gives(axes[i], d) <= Gives(axes[i], b)
             /\ d \in Range(axes[i]) => Gives(axes[i], d) < Gives(axes[i], b)
  <2>1. axes[i] \in Lists(S, Limit)
    OBVIOUS
  <2>2. Limit \in Nat
    BY SearchAssumption
  <2>3. axes[i] \in Seq(S)
    BY <2>1, <2>2, ListFacts
  <2>4. Gives(axes[i], b) \in Nat /\ Gives(axes[i], d) \in Nat
    BY <2>1, GivesFacts
  <2>5. CASE axes[i] = <<>>
    <3>1. Range(axes[i]) = {axes[i][j] : j \in 1..Len(axes[i])}
      BY <2>3, EmptyList
    <3>2. d \notin Range(axes[i])
      <4>1. Len(axes[i]) = 0
        BY <2>5, EmptySeq
      <4> QED BY <3>1, <4>1
    <3>3. Gives(axes[i], d) = 0
      BY <2>1, <3>2, GivesFacts
    <3> QED BY <2>4, <3>2, <3>3
  <2>6. CASE axes[i] # <<>>
    <3>1. axes[i][1] = b /\ axes[i][1] # d
      BY <2>6
    <3>2. Gives(axes[i], b) = Weight(1)
      BY <2>1, <2>6, <3>1, GivesFacts
    <3>3. d \in Range(axes[i]) => Gives(axes[i], d) < Weight(1)
      BY <2>1, <3>1, GivesFacts
    <3>4. d \notin Range(axes[i]) => Gives(axes[i], d) = 0
      BY <2>1, GivesFacts
    <3> QED BY <2>4, <3>2, <3>3, <3>4
  <2> QED BY <2>5, <2>6
<1>2. \E i \in 1..3 : d \in Range(axes[i])
  BY DEF Found
<1>3. 1 \in 1..3 /\ 2 \in 1..3 /\ 3 \in 1..3 /\ \A i \in 1..3 : i = 1 \/ i = 2 \/ i = 3
  OBVIOUS
<1>4. PICK b1 \in Nat, b2 \in Nat, b3 \in Nat, d1 \in Nat, d2 \in Nat, d3 \in Nat :
         /\ b1 = Gives(axes[1], b) /\ b2 = Gives(axes[2], b) /\ b3 = Gives(axes[3], b)
         /\ d1 = Gives(axes[1], d) /\ d2 = Gives(axes[2], d) /\ d3 = Gives(axes[3], d)
  BY <1>1, <1>3
<1>5. d1 <= b1 /\ d2 <= b2 /\ d3 <= b3 /\ (d1 < b1 \/ d2 < b2 \/ d3 < b3)
  BY <1>1, <1>2, <1>3, <1>4
<1>6. Score(axes, b) = b1 + b2 + b3 /\ Score(axes, d) = d1 + d2 + d3
  BY <1>4 DEF Score
<1> QED BY <1>5, <1>6

LEMMA ListsFinite ==
  ASSUME NEW S, NEW axes \in [1..3 -> Lists(S, Limit)]
  PROVE  /\ IsFiniteSet(Found(axes)) /\ Cardinality(Found(axes)) \in Nat /\ Found(axes) \subseteq S
         /\ Cardinality(Found(axes)) = 0 <=> Found(axes) = {}
<1>0. Limit \in Nat
  BY SearchAssumption
<1>1. ASSUME NEW i \in 1..3 PROVE IsFiniteSet(Range(axes[i])) /\ Range(axes[i]) \subseteq S
  <2>1. axes[i] \in Lists(S, Limit)
    OBVIOUS
  <2>2. axes[i] \in Seq(S) /\ Len(axes[i]) \in Nat /\ \A j \in 1..Len(axes[i]) : axes[i][j] \in S
    BY <1>0, <2>1, ListFacts
  <2>3. Range(axes[i]) = {axes[i][j] : j \in 1..Len(axes[i])}
    BY <2>2, EmptyList
  <2>4. IsFiniteSet(1..Len(axes[i]))
    <3>1. 1 \in Int /\ Len(axes[i]) \in Int
      BY <2>2
    <3> QED BY <3>1, FS_Interval
  <2>5. IsFiniteSet({axes[i][j] : j \in 1..Len(axes[i])})
    <3> DEFINE T == {axes[i][j] : j \in 1..Len(axes[i])}
    <3>1. axes[i] \in [1..Len(axes[i]) -> T]
      <4>1. axes[i] \in [1..Len(axes[i]) -> S]
        BY <2>2, LenProperties
      <4> QED BY <4>1
    <3>2. axes[i] \in Surjection(1..Len(axes[i]), T)
      BY <3>1 DEF Surjection
    <3> HIDE DEF T
    <3>3. IsFiniteSet(T)
      BY <2>4, <3>2, FS_Surjection
    <3> QED BY <3>3 DEF T
  <2> QED BY <2>2, <2>3, <2>5
<1>2. IsFiniteSet(Range(axes[1])) /\ IsFiniteSet(Range(axes[2])) /\ IsFiniteSet(Range(axes[3]))
  BY <1>1
<1>3. IsFiniteSet(Range(axes[1]) \cup Range(axes[2]))
  BY <1>2, FS_Union
<1>4. IsFiniteSet(Found(axes))
  BY <1>2, <1>3, FS_Union DEF Found
<1>5. Found(axes) \subseteq S
  BY <1>1 DEF Found
<1> QED BY <1>4, <1>5, FS_CardinalityType, FS_EmptySet

\* The fusion of the axes begins with what they agree on.
LEMMA FusedFacts ==
  ASSUME NEW S, NEW axes \in [1..3 -> Lists(S, Limit)], NEW s \in Fused(axes)
  PROVE  /\ s \in Seq(S)
         /\ Agreed(axes) # Nil => s # <<>> /\ s[1] = Agreed(axes)
<1> DEFINE n     == Cardinality(Found(axes))
           score == [c \in Found(axes) |-> Score(axes, c)]
           best  == {c \in Found(axes) : \A i \in 1..3 : axes[i] = <<>> \/ axes[i][1] = c}
<1>1. n \in Nat /\ Found(axes) \subseteq S
  BY ListsFinite
<1>2. /\ s \in [1..n -> Found(axes)] /\ Range(s) = Found(axes)
      /\ \A i, j \in 1..n : i < j => score[s[i]] >= score[s[j]]
  BY DEF Fused, Sorted
<1> HIDE DEF score, n
<1>3. s \in Seq(Found(axes)) /\ Len(s) = n
  BY <1>1, <1>2, FunSeq
<1>4. s \in Seq(S)
  BY <1>1, <1>3, SeqMonotonic
<1>5. ASSUME Agreed(axes) # Nil PROVE s # <<>> /\ s[1] = Agreed(axes)
  <2>1. best # {} /\ Agreed(axes) \in best
    BY <1>5 DEF Agreed
  <2>2. PICK b \in best : b = Agreed(axes)
    BY <2>1
  <2>3. b \in Found(axes) /\ \A i \in 1..3 : axes[i] = <<>> \/ axes[i][1] = b
    BY <2>2
  <2>4. PICK j \in 1..n : s[j] = b
    BY <1>2, <2>3 DEF Range
  <2>5. s # <<>> /\ 1 \in 1..n
    <3>1. Len(s) # 0
      BY <1>1, <1>3, <2>4
    <3> QED BY <1>1, <1>3, <2>4, <3>1, EmptyList
  <2>6. s[1] = b
    <3>1. SUFFICES ASSUME s[1] # b PROVE FALSE
      OBVIOUS
    <3>2. s[1] \in Found(axes)
      BY <1>2, <2>5
    <3>3. j # 1 /\ 1 < j
      BY <1>1, <2>4, <3>1
    <3>4. score[s[1]] >= score[b]
      BY <1>2, <2>4, <2>5, <3>3
    <3>5. PICK x \in Nat, y \in Nat : x = Score(axes, s[1]) /\ y = Score(axes, b) /\ x < y
      BY <2>3, <3>1, <3>2, FirstWins
    <3>6. score[s[1]] = x /\ score[b] = y
      BY <2>3, <3>2, <3>5 DEF score
    <3> QED BY <3>4, <3>5, <3>6
  <2> QED BY <2>2, <2>5, <2>6
<1> QED BY <1>4, <1>5

\* the chunks there are, in service or not
All == Chunks(Files)

LEMMA Sims == ASSUME layout \in Layouts, NEW c \in All PROVE At(c).sim \in Int
BY SearchAssumption DEF All, Chunks, At

LEMMA NearBoth == ASSUME layout \in Layouts, NEW c \in All, NEW d \in All, Near(c, d) PROVE Near(d, c)
<1>1. PICK a \in Int, b \in Int : a = At(c).sim /\ b = At(d).sim
  BY Sims
<1>2. \A x, y \in Int : x - y \in -1..1 => y - x \in -1..1
  OBVIOUS
<1> QED BY <1>1, <1>2 DEF Near

\* The reranker, whatever it answers, leaves candidates; all of them if no number is valid.
LEMMA RerankedFacts ==
  ASSUME NEW S, NEW cands \in Seq(S), NEW a \in Scorings(Len(cands)), NEW items \in Reranked(cands, a)
  PROVE  items \in Seq(S) /\ (Invalid(a) => items = cands)
<1> DEFINE kept == {i \in DOMAIN a : a[i].index # 0 /\ a[i].score > 0}
           n    == Cardinality(kept)
<1>1. CASE Invalid(a)
  BY <1>1 DEF Reranked
<1>2. CASE ~Invalid(a)
  <2>0. Len(cands) \in Nat /\ MaxAnswer \in Nat
    BY SearchAssumption, LenProperties
  <2>1. PICK m \in 0..MaxAnswer : a \in [1..m -> [index : 0..Len(cands), score : 0..2]]
    BY DEF Scorings
  <2>2. kept \subseteq 1..m /\ \A i \in kept : a[i].index \in 1..Len(cands)
    BY <2>0, <2>1
  <2>3. IsFiniteSet(1..m)
    <3>1. 1 \in Int /\ m \in Int
      BY <2>0, <2>1
    <3> QED BY <3>1, FS_Interval
  <2>4. n \in Nat
    <3>1. IsFiniteSet(kept)
      BY <2>2, <2>3, FS_Subset
    <3> QED BY <3>1, FS_CardinalityType
  <2>5. PICK s \in [1..n -> kept] : items = [i \in DOMAIN s |-> cands[a[s[i]].index]]
    BY <1>2 DEF Reranked, Sorted
  <2> HIDE DEF kept, n
  <2>6. \A i \in 1..n : cands[a[s[i]].index] \in S
    BY <2>2, <2>5, ElementOfSeq
  <2>7. items \in [1..n -> S]
    BY <2>5, <2>6
  <2> QED BY <1>2, <2>4, <2>7, FunSeq
<1> QED BY <1>1, <1>2

\* mmr_dedup keeps the first, and of those that are alike one.
LEMMA DedupedFacts ==
  ASSUME layout \in Layouts, NEW S, S \subseteq All, NEW items \in Seq(S), NEW on \in BOOLEAN,
         NEW p \in Deduped(items, on)
  PROVE  /\ p \in Seq(S)
         /\ on => \A i, j \in 1..Len(p) : i # j => ~Near(p[i], p[j])
         /\ items # <<>> => p # <<>> /\ p[1] = items[1]
<1>1. CASE ~on
  BY <1>1 DEF Deduped
<1>2. CASE on
  <2>0. /\ Len(items) \in Nat /\ DOMAIN items = 1..Len(items)
        /\ \A i \in 1..Len(items) : items[i] \in S
    BY LenProperties, ElementOfSeq
  <2>1. PICK P \in Picks(items) : \E s \in Sorted(P, LAMBDA i, j : i < j) : p = [i \in DOMAIN s |-> items[s[i]]]
    BY <1>2 DEF Deduped
  <2>2. /\ P \subseteq 1..Len(items)
        /\ \A i \in 1..Len(items) : i \in P <=> \A j \in P : j < i => ~Near(items[j], items[i])
    BY <2>0 DEF Picks
  <2> DEFINE n == Cardinality(P)
  <2>3. n \in Nat
    <3>1. 1 \in Int /\ Len(items) \in Int
      BY <2>0
    <3>2. IsFiniteSet(P)
      BY <2>2, <3>1, FS_Interval, FS_Subset
    <3> QED BY <3>2, FS_CardinalityType
  <2>4. PICK s \in [1..n -> P] : /\ Range(s) = P /\ \A i, j \in 1..n : i < j => s[i] < s[j]
                                 /\ p = [i \in DOMAIN s |-> items[s[i]]]
    BY <2>1 DEF Sorted
  <2> HIDE DEF n
  <2>5. p \in [1..n -> S] /\ \A i \in 1..n : p[i] = items[s[i]]
    BY <2>0, <2>2, <2>4
  <2>6. p \in Seq(S) /\ Len(p) = n
    BY <2>3, <2>5, FunSeq
  <2>7. ASSUME NEW i \in 1..n, NEW j \in 1..n, i < j PROVE ~Near(p[i], p[j]) /\ ~Near(p[j], p[i])
    <3>1. s[i] \in P /\ s[j] \in P /\ s[i] < s[j] /\ s[j] \in 1..Len(items)
      BY <2>2, <2>4, <2>7
    <3>2. ~Near(items[s[i]], items[s[j]])
      BY <2>2, <3>1
    <3>3. p[i] \in All /\ p[j] \in All
      BY <2>5
    <3> QED BY <2>5, <3>2, <3>3, NearBoth
  <2>8. \A i, j \in 1..Len(p) : i # j => ~Near(p[i], p[j])
    <3>1. \A i, j \in 1..n : i # j => i < j \/ j < i
      BY <2>3
    <3> QED BY <2>6, <2>7, <3>1
  <2>9. ASSUME items # <<>> PROVE p # <<>> /\ p[1] = items[1]
    <3>1. 1 \in 1..Len(items)
      BY <2>9, EmptyList
    <3>2. 1 \in P
      BY <2>2, <3>1
    <3>3. PICK j \in 1..n : s[j] = 1
      BY <2>4, <3>2 DEF Range
    <3>4. 1 \in 1..n /\ s[1] \in Nat /\ s[1] >= 1
      <4>1. 1 \in 1..n
        BY <2>3, <3>3
      <4>2. s[1] \in 1..Len(items)
        BY <2>2, <4>1
      <4> QED BY <2>0, <4>1, <4>2
    <3>5. s[1] = 1
      BY <2>3, <2>4, <3>3, <3>4
    <3>6. p # <<>>
      <4>1. Len(p) # 0
        BY <2>3, <2>6, <3>4
      <4> QED BY <2>6, <4>1, EmptyList
    <3> QED BY <2>5, <3>4, <3>5, <3>6
  <2> QED BY <1>2, <2>6, <2>8, <2>9
<1> QED BY <1>1, <1>2

\* What is joined to a hit is of its document, and is all of it that is near enough.
LEMMA ExpandedFacts ==
  ASSUME layout \in Layouts, NEW c \in All, NEW w \in Nat
  PROVE  /\ Expanded(c, w) \subseteq All /\ c \in Expanded(c, w)
         /\ \A n \in Expanded(c, w) : n[1] = c[1] /\ n[2] \in (c[2] - w)..(c[2] + w) /\ At(n).doc = At(c).doc
         /\ c \in Live("manual") =>
               \A n \in (c[2] - w)..(c[2] + w) :
                   (n \in 1..Len(layout[c[1]]) /\ At(<<c[1], n>>).doc = At(c).doc) => <<c[1], n>> \in Expanded(c, w)
<1> DEFINE parts == {n \in Wanted(c, w) \cap Live("manual") : At(n).doc = At(c).doc}
<1>1. Expanded(c, w) = IF Cardinality(parts) > 1 THEN parts ELSE {c}
  BY DEF Expanded
<1>2. PICK f, i : f \in Files /\ i \in 1..Len(layout[f]) /\ c = <<f, i>>
  BY DEF All, Chunks
<1>3. Len(layout[f]) \in Nat /\ i \in Nat
  <2>1. layout[f] \in Seq(Range(layout[f]))
    BY <1>2, SearchAssumption
  <2>2. Len(layout[f]) \in Nat
    BY <2>1, LenProperties
  <2> QED BY <1>2, <2>2
<1>4. Wanted(c, w) = {<<f, n>> : n \in (i - w)..(i + w)} /\ c[1] = f /\ c[2] = i
  BY <1>2 DEF Wanted, Around
<1>5. Live("manual") = Chunks(Manuals \cap shown) /\ Live("manual") \subseteq All
  BY DEF Live, Chunks, All, Files
<1>6. c \in Wanted(c, w)
  BY <1>2, <1>3, <1>4
<1>7. parts # {} => c \in parts
  <2>1. ASSUME NEW n \in parts PROVE c \in Live("manual")
    <3>1. n \in Chunks(Manuals \cap shown) /\ \E j \in (i - w)..(i + w) : n = <<f, j>>
      BY <1>4, <1>5
    <3>2. f \in Manuals \cap shown
      BY <3>1 DEF Chunks
    <3> QED BY <1>2, <1>5, <3>2 DEF Chunks
  <2> QED BY <1>6, <2>1
<1>8. /\ \A n \in parts : n[1] = c[1] /\ n[2] \in (c[2] - w)..(c[2] + w) /\ At(n).doc = At(c).doc /\ n \in All
      /\ c[2] \in (c[2] - w)..(c[2] + w)
  BY <1>3, <1>4, <1>5
<1>9. IsFiniteSet(parts)
  <2>1. IsFiniteSet(Wanted(c, w))
    <3>1. i - w \in Int /\ i + w \in Int
      BY <1>3
    <3>2. IsFiniteSet((i - w)..(i + w))
      BY <3>1, FS_Interval
    <3> DEFINE g == [n \in (i - w)..(i + w) |-> <<f, n>>]
    <3>3. g \in Surjection((i - w)..(i + w), Wanted(c, w))
      BY <1>4 DEF Surjection
    <3> HIDE DEF g
    <3> QED BY <3>2, <3>3, FS_Surjection
  <2> QED BY <2>1, FS_Subset
<1>10. ASSUME NEW n \in parts, n # c PROVE Cardinality(parts) > 1
  <2>1. c \in parts
    BY <1>7
  <2> HIDE DEF parts
  <2>2. Cardinality(parts) \in Nat
    BY <1>9, FS_CardinalityType
  <2>3. Cardinality(parts) # 0
    BY <1>9, FS_EmptySet
  <2>4. Cardinality(parts) # 1
    <3>1. SUFFICES ASSUME Cardinality(parts) = 1 PROVE FALSE
      OBVIOUS
    <3>2. PICK x : parts = {x}
      BY <1>9, <3>1, FS_Singleton
    <3> QED BY <1>10, <2>1, <3>2
  <2> QED BY <2>2, <2>3, <2>4
<1>11. ASSUME c \in Live("manual"), NEW n \in (c[2] - w)..(c[2] + w), n \in 1..Len(layout[c[1]]),
              At(<<c[1], n>>).doc = At(c).doc
       PROVE  <<c[1], n>> \in Expanded(c, w)
  <2>1. f \in Manuals \cap shown
    BY <1>2, <1>5, <1>11 DEF Chunks
  <2>2. <<f, n>> \in Live("manual")
    BY <1>4, <1>5, <1>11, <2>1 DEF Chunks
  <2>3. <<c[1], n>> \in parts
    BY <1>4, <1>11, <2>2
  <2> HIDE DEF parts
  <2> QED BY <1>1, <1>10, <2>3
<1>12. Cardinality(parts) > 1 => parts # {}
  BY FS_EmptySet
<1> HIDE DEF parts
<1> QED BY <1>1, <1>7, <1>8, <1>11, <1>12

\* a search and what is known of it at each stage
Item == [texts : SUBSET All, cut : BOOLEAN]
FindRow == [at : {"idle", "search", "rerank", "neighbours", "done", "failed"}, top : Nat, cands : Seq(All),
            agreed : All \cup {Nil}, hits : Seq(All), result : Seq(Item), window : Nat,
            fell : BOOLEAN, dedup : BOOLEAN, calm : BOOLEAN]

Chosen(f) ==
    /\ Len(f.hits) <= f.top
    /\ f.dedup => \A i, j \in 1..Len(f.hits) : i # j => ~Near(f.hits[i], f.hits[j])
    /\ f.fell /\ f.agreed # Nil => f.hits # <<>> /\ f.hits[1] = f.agreed

\* T is what is read around the hit c, r what a result shows of it
Reads(f, c, T) ==
    /\ c \in T /\ T \subseteq All
    /\ \A n \in T : n[1] = c[1] /\ n[2] \in (c[2] - f.window)..(c[2] + f.window) /\ At(n).doc = At(c).doc
    /\ f.calm => \A n \in (c[2] - f.window)..(c[2] + f.window) :
                    (n \in 1..Len(layout[c[1]]) /\ At(<<c[1], n>>).doc = At(c).doc) => <<c[1], n>> \in T
Shows(r, T) ==
    /\ r.texts \subseteq T /\ (~r.cut => r.texts = T)
    /\ \A d \in r.texts : \A e \in T : e[2] <= d[2] => e \in r.texts
Spans(f, c, r) == \E T : Reads(f, c, T) /\ Shows(r, T)

Good(k, f) ==
    /\ f.at \in {"search", "rerank", "neighbours"} => f.top >= 1
    /\ f.at = "search" => f.hits = <<>> /\ f.result = <<>> /\ ~f.fell
    /\ f.at = "rerank" => /\ f.agreed # Nil => f.cands # <<>> /\ f.cands[1] = f.agreed
                          /\ f.calm => f.cands \in Seq(Live(k))
    /\ f.at = "neighbours" => k = "manual" /\ Chosen(f) /\ (f.calm => f.hits \in Seq(Live("manual")))
    /\ f.at = "done" => Whole(f)

FindInv ==
    /\ layout \in Layouts
    /\ find \in [Kinds -> FindRow]
    /\ \A k \in Kinds : Good(k, find[k])

LEMMA Chunk ==
  ASSUME layout \in Layouts, NEW c \in All
  PROVE  /\ c = <<c[1], c[2]>> /\ c[1] \in Files /\ c[2] \in 1..Len(layout[c[1]])
         /\ Len(layout[c[1]]) \in Nat /\ c[2] \in Nat
<1>1. PICK f, i : f \in Files /\ i \in 1..Len(layout[f]) /\ c = <<f, i>>
  BY DEF All, Chunks
<1>2. layout[f] \in Seq(Range(layout[f]))
  BY <1>1, SearchAssumption
<1>3. Len(layout[f]) \in Nat
  BY <1>2, LenProperties
<1> QED BY <1>1, <1>3

\* A text is cut at a place: what is shown is a beginning, and all unless it is cut.
LEMMA Clipping ==
  ASSUME layout \in Layouts, NEW T, T \subseteq All, NEW most
  PROVE  Clipped(T, most) \in Item /\ Shows(Clipped(T, most), T)
<1> DEFINE upto(c) == {d \in T : d[2] <= c[2]}
           over    == {c \in T : Length(upto(c)) > most}
           texts   == IF most = 0 THEN T ELSE {c \in T : \A d \in over : c[2] < d[2]}
           r       == [texts |-> texts, cut |-> texts # T]
<1>1. Clipped(T, most) = r
  BY DEF Clipped, Shown
<1>2. texts \subseteq T /\ over \subseteq T
  OBVIOUS
<1>3. ASSUME NEW d \in texts, NEW e \in T, e[2] <= d[2] PROVE e \in texts
  <2>1. ASSUME NEW o \in over, d[2] < o[2] PROVE e[2] < o[2]
    <3>1. e[2] \in Nat /\ d[2] \in Nat /\ o[2] \in Nat
      BY <1>2, <1>3, Chunk
    <3> QED BY <1>3, <2>1, <3>1
  <2> HIDE DEF over
  <2> QED BY <1>3, <2>1
<1> HIDE DEF texts
<1>4. r \in Item /\ r.texts = texts /\ (~r.cut => texts = T)
  BY <1>2 DEF Item
<1> QED BY <1>1, <1>2, <1>3, <1>4 DEF Shows

\* What is shown of a result begins where the text around the hit does.
LEMMA StartFrom ==
  ASSUME layout \in Layouts, NEW f \in FindRow, NEW i, f.hits[i] \in All, Spans(f, f.hits[i], f.result[i])
  PROVE  FromStart(f, i)
<1>1. PICK c \in All : c = f.hits[i]
  OBVIOUS
<1>2. PICK r : r = f.result[i]
  OBVIOUS
<1>3. PICK T : Reads(f, c, T) /\ Shows(r, T)
  BY <1>1, <1>2 DEF Spans
<1>4. PICK x \in Nat, w \in Nat, len \in Nat : x = c[2] /\ w = f.window /\ len = Len(layout[c[1]])
  <2>1. f.window \in Nat
    BY DEF FindRow
  <2> QED BY <2>1, Chunk
<1>5. ASSUME f.calm, NEW d \in r.texts, NEW n \in 1..d[2], n >= c[2] - f.window, At(<<c[1], n>>).doc = At(c).doc
      PROVE  <<c[1], n>> \in r.texts
  <2>1. d \in T /\ d[1] = c[1] /\ d[2] \in (x - w)..(x + w) /\ d \in All
    BY <1>3, <1>4 DEF Reads, Shows
  <2>2. d[2] \in 1..len /\ d[2] \in Nat
    BY <1>4, <2>1, Chunk
  <2>3. n \in 1..len /\ n \in (x - w)..(x + w) /\ n <= d[2]
    BY <1>4, <1>5, <2>1, <2>2
  <2>4. <<c[1], n>> \in T
    BY <1>3, <1>4, <1>5, <2>3 DEF Reads
  <2>5. <<c[1], n>>[2] <= d[2]
    BY <2>3
  <2> QED BY <1>3, <2>4, <2>5 DEF Shows
<1>6. /\ \A d \in r.texts : d[1] = c[1] /\ At(d).doc = At(c).doc
      /\ r.cut \/ c \in r.texts
  BY <1>3 DEF Reads, Shows
<1> QED BY <1>1, <1>2, <1>5, <1>6 DEF FromStart

\* Two hits close enough reach each other from both sides.
LEMMA WholeFrom ==
  ASSUME layout \in Layouts, NEW f \in FindRow, Chosen(f), DOMAIN f.result = 1..Len(f.hits),
         \A i \in 1..Len(f.hits) : Spans(f, f.hits[i], f.result[i])
  PROVE  Whole(f)
<1>1. /\ f.hits \in Seq(All) /\ f.result \in Seq(Item) /\ f.window \in Nat
  BY DEF FindRow
<1>2. Len(f.result) = Len(f.hits)
  <2>1. DOMAIN f.result = 1..Len(f.result) /\ Len(f.result) \in Nat /\ Len(f.hits) \in Nat
    BY <1>1, LenProperties
  <2>2. \A m, n \in Nat : 1..m = 1..n => m = n
    OBVIOUS
  <2> QED BY <2>1, <2>2
<1>3. ASSUME NEW i \in 1..Len(f.hits), NEW j \in 1..Len(f.hits)
      PROVE  NoGap(f, i, j)
  <2>1. PICK c \in All, d \in All : c = f.hits[i] /\ d = f.hits[j]
    BY <1>1, ElementOfSeq
  <2>2. SUFFICES ASSUME f.calm, c[1] = d[1], At(c).doc = At(d).doc, d[2] - c[2] \in 1..(2 * f.window + 1),
                        NEW n \in c[2]..d[2], At(<<c[1], n>>).doc = At(c).doc
                 PROVE  \/ \E m \in DOMAIN f.result : <<c[1], n>> \in f.result[m].texts
                        \/ f.result[i].cut \/ f.result[j].cut
    BY <2>1 DEF NoGap
  <2>3. PICK x \in Nat, y \in Nat, w \in Nat, len \in Nat :
           x = c[2] /\ y = d[2] /\ w = f.window /\ len = Len(layout[c[1]]) /\ x >= 1 /\ y <= len
    <3>1. c[2] \in 1..Len(layout[c[1]]) /\ Len(layout[c[1]]) \in Nat /\ c[2] \in Nat
      BY Chunk
    <3>2. d[2] \in 1..Len(layout[d[1]]) /\ d[2] \in Nat
      BY Chunk
    <3>3. c[2] >= 1 /\ d[2] <= Len(layout[c[1]])
      BY <2>2, <3>1, <3>2
    <3> QED BY <1>1, <3>1, <3>2, <3>3
  <2>4. n \in 1..len /\ n \in Nat
    BY <2>3
  <2>5. CASE n <= x + w
    <3>1. n \in (x - w)..(x + w)
      BY <2>3, <2>4, <2>5
    <3>2. PICK T : Reads(f, c, T) /\ Shows(f.result[i], T)
      BY <2>1 DEF Spans
    <3>3. <<c[1], n>> \in T
      BY <2>2, <2>3, <2>4, <3>1, <3>2 DEF Reads
    <3> QED BY <3>2, <3>3 DEF Shows
  <2>6. CASE ~(n <= x + w)
    <3>1. n \in (y - w)..(y + w)
      <4>1. y - x \in 1..(2 * w + 1)
        BY <2>2, <2>3
      <4>2. n \in x..y
        BY <2>2, <2>3
      <4> QED BY <2>4, <2>6, <4>1, <4>2
    <3>2. PICK T : Reads(f, d, T) /\ Shows(f.result[j], T)
      BY <2>1 DEF Spans
    <3>3. <<d[1], n>> \in T
      BY <2>2, <2>3, <2>4, <3>1, <3>2 DEF Reads
    <3> QED BY <2>2, <3>2, <3>3 DEF Shows
  <2> QED BY <2>5, <2>6
<1>4. /\ Len(f.result) <= f.top
      /\ f.dedup => \A i, j \in DOMAIN f.result : i # j => ~Near(f.hits[i], f.hits[j])
      /\ f.fell /\ f.agreed # Nil => f.hits[1] = f.agreed
  BY <1>2 DEF Chosen
<1>5. \A i \in DOMAIN f.result : FromStart(f, i)
  BY <1>1, ElementOfSeq, StartFrom
<1> QED BY <1>3, <1>4, <1>5 DEF Whole

LEMMA SameLayout ==
  ASSUME layout' = layout
  PROVE  /\ All' = All /\ FindRow' = FindRow
         /\ \A f : Whole(f)' <=> Whole(f)
<1>1. All' = All
  BY DEF All, Chunks
<1>2. FindRow' = FindRow
  BY <1>1 DEF FindRow, Item
<1>3. ASSUME NEW f PROVE Whole(f)' <=> Whole(f)
  BY DEF Whole, FromStart, NoGap, Near, At
<1> QED BY <1>1, <1>2, <1>3

\* a step of one search
LEMMA StepFind ==
  ASSUME FindInv, NEW k \in Kinds, NEW f \in FindRow, Good(k, f), To(k, f), UNCHANGED <<layout, shown>>
  PROVE  FindInv'
<1>1. find' = [find EXCEPT ![k] = f] /\ find' \in [Kinds -> FindRow']
  BY SameLayout DEF To, FindInv
<1>2. ASSUME NEW j \in Kinds PROVE Good(j, find[j])'
  <2>1. PICK g : g = find'[j] /\ Good(j, g)
    BY <1>1 DEF FindInv
  <2>2. \A i \in Kinds : Live(i)' = Live(i)
    BY DEF Live, Chunks
  <2>3. (Whole(g)' <=> Whole(g)) /\ (Chosen(g)' <=> Chosen(g))
    BY SameLayout DEF Chosen, Near, At
  <2>4. Good(j, g)'
    BY <2>1, <2>2, <2>3 DEF Good, Kinds
  <2> QED BY <2>1, <2>4
<1> QED BY <1>1, <1>2 DEF FindInv

LEMMA Clamped == ASSUME NEW n \in Nat, NEW most \in Nat \ {0} PROVE Clamp(n, most) \in Nat /\ Clamp(n, most) >= 1
BY DEF Clamp, Least

LEMMA LiveThere == ASSUME NEW k \in Kinds PROVE Live(k) \subseteq All
BY DEF Live, All, Chunks, Files

LEMMA Nothing == NoFind \in FindRow /\ \A k \in Kinds : Good(k, NoFind) /\ Good(k, [NoFind EXCEPT !.at = "failed"])
<1>1. <<>> \in Seq(All) /\ <<>> \in Seq(SUBSET All)
  BY EmptySeq
<1> QED BY <1>1 DEF NoFind, FindRow, Good

LEMMA FindInit == SearchInit => FindInv
BY Nothing DEF SearchInit, FindInv

LEMMA AskFinds == ASSUME FindInv, NEW k \in Kinds, Ask(k) PROVE FindInv'
<1>1. PICK n \in 0..(MaxTopK + 1) : To(k, [NoFind EXCEPT !.at = "search", !.top = Clamp(n, MaxTopK)])
  BY DEF Ask
<1>2. n \in Nat /\ MaxTopK \in Nat \ {0}
  BY SearchAssumption
<1> DEFINE f == [NoFind EXCEPT !.at = "search", !.top = Clamp(n, MaxTopK)]
<1>3. Clamp(n, MaxTopK) \in Nat /\ Clamp(n, MaxTopK) >= 1
  BY <1>2, Clamped
<1>4. f \in FindRow
  BY <1>3, Nothing DEF FindRow
<1>5. Good(k, f)
  BY <1>3 DEF Good, NoFind
<1> HIDE DEF f
<1>6. To(k, f) /\ UNCHANGED <<layout, shown>>
  BY <1>1 DEF f, Ask
<1> QED BY <1>4, <1>5, <1>6, StepFind

LEMMA CandidatesFind == ASSUME FindInv, NEW k \in Kinds, Candidates(k) PROVE FindInv'
<1> DEFINE f    == find[k]
           most == Clamp(5 * f.top, MaxCandidates)
<1>1. f \in FindRow /\ Good(k, f) /\ f.at = "search"
  BY DEF FindInv, Candidates
<1>2. most \in Nat /\ most >= 1
  <2>1. 5 * f.top \in Nat /\ MaxCandidates \in Nat \ {0}
    BY <1>1, SearchAssumption DEF FindRow
  <2> QED BY <2>1, Clamped
<1> HIDE DEF most
<1>3. PICK cands, agreed :
         /\ To(k, [f EXCEPT !.cands = cands, !.agreed = agreed, !.at = IF cands = <<>> THEN "done" ELSE "rerank"])
         /\ \/ \E axes \in [1..3 -> Lists(Live(k), Limit)] : \E s \in Fused(axes) :
                  cands = First(s, most) /\ agreed = Agreed(axes)
            \/ cands \in Lists(Live(k), most) /\ agreed = IF cands = <<>> THEN Nil ELSE cands[1]
  BY DEF Candidates, most
<1>4. cands \in Seq(Live(k)) /\ (agreed # Nil => cands # <<>> /\ cands[1] = agreed)
  <2>1. ASSUME NEW axes \in [1..3 -> Lists(Live(k), Limit)], NEW s \in Fused(axes),
               cands = First(s, most), agreed = Agreed(axes)
        PROVE  cands \in Seq(Live(k)) /\ (agreed # Nil => cands # <<>> /\ cands[1] = agreed)
    <3>1. s \in Seq(Live(k)) /\ (agreed # Nil => s # <<>> /\ s[1] = agreed)
      BY <2>1, FusedFacts
    <3>2. /\ cands \in Seq(Live(k)) /\ (Len(s) >= 1 => Len(cands) >= 1)
          /\ \A i \in 1..Len(cands) : cands[i] = s[i]
      BY <1>2, <2>1, <3>1, FirstOf
    <3>3. ASSUME agreed # Nil PROVE cands # <<>> /\ cands[1] = agreed
      <4>1. Len(s) >= 1
        BY <3>1, <3>3, EmptyList
      <4>2. Len(cands) >= 1 /\ Len(cands) \in Nat
        BY <3>2, <4>1, LenProperties
      <4>3. cands # <<>>
        <5>1. Len(cands) # 0
          BY <4>2
        <5> QED BY <3>2, <5>1, EmptyList
      <4> QED BY <3>1, <3>2, <3>3, <4>2, <4>3
    <3> QED BY <3>2, <3>3
  <2>2. CASE cands \in Lists(Live(k), most) /\ agreed = IF cands = <<>> THEN Nil ELSE cands[1]
    BY <1>2, <2>2, ListFacts
  <2> QED BY <1>3, <2>1, <2>2
<1> DEFINE q == [f EXCEPT !.cands = cands, !.agreed = agreed, !.at = IF cands = <<>> THEN "done" ELSE "rerank"]
<1>5. cands \in Seq(All) /\ agreed \in All \cup {Nil}
  <2>1. cands \in Seq(All)
    BY <1>4, LiveThere, SeqMonotonic
  <2>2. agreed # Nil => cands[1] \in All
    BY <1>4, <2>1, EmptyList
  <2> QED BY <1>4, <2>1, <2>2
<1>6. q \in FindRow
  BY <1>1, <1>5 DEF FindRow
<1>7. /\ q.at = (IF cands = <<>> THEN "done" ELSE "rerank") /\ q.cands = cands /\ q.agreed = agreed
      /\ q.top = f.top /\ q.hits = <<>> /\ q.result = <<>> /\ ~q.fell
  BY <1>1 DEF FindRow, Good
<1> HIDE DEF q
<1>8. Whole(q)
  <2>1. DOMAIN q.result = {} /\ Len(q.result) = 0
    <3>1. <<>> \in Seq(All)
      BY EmptySeq
    <3>2. Len(<<>>) = 0 /\ DOMAIN <<>> = 1..Len(<<>>)
      BY <3>1, EmptySeq, LenProperties
    <3> QED BY <1>7, <3>2
  <2>2. q.top \in Nat
    BY <1>6 DEF FindRow
  <2> QED BY <1>7, <2>1, <2>2 DEF Whole
<1>9. Good(k, q)
  BY <1>1, <1>4, <1>7, <1>8 DEF Good
<1>10. To(k, q) /\ UNCHANGED <<layout, shown>>
  BY <1>3 DEF q, Candidates
<1> QED BY <1>6, <1>9, <1>10, StepFind

LEMMA RerankFinds == ASSUME FindInv, NEW k \in Kinds, Rerank(k) PROVE FindInv'
<1> DEFINE f == find[k]
<1>1. f \in FindRow /\ Good(k, f) /\ f.at = "rerank" /\ layout \in Layouts
  BY DEF FindInv, Rerank
<1>2. PICK a \in Scorings(Len(f.cands)), on \in BOOLEAN, most \in MaxChars,
              w \in 0..(IF k = "manual" THEN MaxWindow ELSE 0) :
         \E items \in Reranked(f.cands, a) : \E picked \in Deduped(First(items, 2 * f.top), on) :
             LET hits == First(picked, f.top)
             IN  To(k, [f EXCEPT !.hits = hits, !.fell = Invalid(a), !.dedup = on, !.window = w,
                                 !.at = IF w > 0 /\ hits # <<>> THEN "neighbours" ELSE "done",
                                 !.result = [i \in DOMAIN hits |-> Clipped({hits[i]}, most)]])
  BY DEF Rerank
<1>3. PICK items \in Reranked(f.cands, a) : \E picked \in Deduped(First(items, 2 * f.top), on) :
             LET hits == First(picked, f.top)
             IN  To(k, [f EXCEPT !.hits = hits, !.fell = Invalid(a), !.dedup = on, !.window = w,
                                 !.at = IF w > 0 /\ hits # <<>> THEN "neighbours" ELSE "done",
                                 !.result = [i \in DOMAIN hits |-> Clipped({hits[i]}, most)]])
  BY <1>2
<1>4. PICK picked \in Deduped(First(items, 2 * f.top), on) :
             LET hits == First(picked, f.top)
             IN  To(k, [f EXCEPT !.hits = hits, !.fell = Invalid(a), !.dedup = on, !.window = w,
                                 !.at = IF w > 0 /\ hits # <<>> THEN "neighbours" ELSE "done",
                                 !.result = [i \in DOMAIN hits |-> Clipped({hits[i]}, most)]])
  BY <1>3
<1> DEFINE few  == First(items, 2 * f.top)
           hits == First(picked, f.top)
           q    == [f EXCEPT !.hits = hits, !.fell = Invalid(a), !.dedup = on, !.window = w,
                             !.at = IF w > 0 /\ hits # <<>> THEN "neighbours" ELSE "done",
                             !.result = [i \in DOMAIN hits |-> Clipped({hits[i]}, most)]]
<1>5. f.top \in Nat /\ 2 * f.top \in Nat /\ 2 * f.top >= 1 /\ f.top >= 1 /\ MaxWindow \in Nat
  BY <1>1, SearchAssumption DEF FindRow, Good
<1>6. ASSUME NEW S, S \subseteq All, f.cands \in Seq(S)
      PROVE  /\ items \in Seq(S) /\ few \in Seq(S) /\ picked \in Seq(S) /\ hits \in Seq(S)
             /\ Invalid(a) => items = f.cands
             /\ items # <<>> => few # <<>> /\ few[1] = items[1]
             /\ few # <<>> => picked # <<>> /\ picked[1] = few[1]
             /\ picked # <<>> => hits # <<>> /\ hits[1] = picked[1]
             /\ on => \A i, j \in 1..Len(picked) : i # j => ~Near(picked[i], picked[j])
             /\ Len(hits) <= f.top
             /\ \A i \in 1..Len(hits) : i \in 1..Len(picked) /\ hits[i] = picked[i]
  <2>1. items \in Seq(S) /\ (Invalid(a) => items = f.cands)
    BY <1>6, RerankedFacts
  <2>2. /\ few \in Seq(S) /\ (Len(items) >= 1 => Len(few) >= 1)
        /\ \A i \in 1..Len(few) : few[i] = items[i]
    BY <1>5, <2>1, FirstOf
  <2>3. ASSUME items # <<>> PROVE few # <<>> /\ few[1] = items[1]
    <3>1. Len(items) >= 1
      BY <2>1, <2>3, EmptyList
    <3>2. Len(few) >= 1 /\ Len(few) \in Nat /\ Len(<<>>) = 0
      BY <2>2, <3>1, LenProperties, EmptySeq
    <3> QED BY <2>2, <3>2
  <2> HIDE DEF few
  <2>4. picked \in Deduped(few, on)
    BY DEF few
  <2>5. /\ picked \in Seq(S)
        /\ on => \A i, j \in 1..Len(picked) : i # j => ~Near(picked[i], picked[j])
        /\ few # <<>> => picked # <<>> /\ picked[1] = few[1]
    BY <1>1, <1>6, <2>2, <2>4, DedupedFacts
  <2>6. /\ hits \in Seq(S) /\ Len(hits) <= f.top /\ (Len(picked) >= 1 => Len(hits) >= 1)
        /\ \A i \in 1..Len(hits) : i \in 1..Len(picked) /\ hits[i] = picked[i]
    BY <1>5, <2>5, FirstOf
  <2>7. ASSUME picked # <<>> PROVE hits # <<>> /\ hits[1] = picked[1]
    <3>1. Len(picked) >= 1
      BY <2>5, <2>7, EmptyList
    <3>2. Len(hits) >= 1 /\ Len(hits) \in Nat /\ Len(<<>>) = 0
      BY <2>6, <3>1, LenProperties, EmptySeq
    <3> QED BY <2>6, <3>2
  <2> QED BY <2>1, <2>2, <2>3, <2>5, <2>6, <2>7
<1>7. f.cands \in Seq(All)
  BY <1>1 DEF FindRow
<1>8. hits \in Seq(All)
  BY <1>6, <1>7
<1>9. DOMAIN hits = 1..Len(hits) /\ Len(hits) \in Nat
  BY <1>8, LenProperties
<1>10. ASSUME Invalid(a), f.agreed # Nil PROVE hits # <<>> /\ hits[1] = f.agreed
  <2>1. f.cands # <<>> /\ f.cands[1] = f.agreed
    BY <1>1, <1>10 DEF Good
  <2> HIDE DEF few, hits
  <2> QED BY <1>6, <1>7, <1>10, <2>1
<1>11. on => \A i, j \in 1..Len(hits) : i # j => ~Near(hits[i], hits[j])
  <2> HIDE DEF few, hits
  <2> QED BY <1>6, <1>7
<1>12. Len(hits) <= f.top
  BY <1>6, <1>7
<1>13. f.calm => hits \in Seq(Live(k))
  <2>1. f.calm => f.cands \in Seq(Live(k))
    BY <1>1 DEF Good
  <2> HIDE DEF few, hits
  <2> QED BY <1>6, <2>1, LiveThere
<1> HIDE DEF hits
<1>14. \A i \in 1..Len(hits) : hits[i] \in All
  BY <1>8, ElementOfSeq
<1>15. [i \in DOMAIN hits |-> Clipped({hits[i]}, most)] \in Seq(Item)
  <2>1. \A i \in 1..Len(hits) : Clipped({hits[i]}, most) \in Item
    BY <1>1, <1>14, Clipping
  <2>2. [i \in DOMAIN hits |-> Clipped({hits[i]}, most)] \in [1..Len(hits) -> Item]
    BY <1>9, <2>1
  <2> QED BY <1>9, <2>2, FunSeq
<1>16. w \in Nat
  BY <1>5
<1>17. Invalid(a) \in BOOLEAN
  BY DEF Invalid
<1>18. q \in FindRow
  BY <1>1, <1>8, <1>15, <1>16, <1>17 DEF FindRow
<1>19. /\ q.hits = hits /\ q.fell = Invalid(a) /\ q.dedup = on /\ q.window = w /\ q.top = f.top /\ q.agreed = f.agreed
       /\ q.calm = f.calm /\ q.at = (IF w > 0 /\ hits # <<>> THEN "neighbours" ELSE "done")
       /\ q.result = [i \in DOMAIN hits |-> Clipped({hits[i]}, most)]
  BY <1>1 DEF FindRow
<1> HIDE DEF q
<1>20. Chosen(q)
  BY <1>10, <1>11, <1>12, <1>19 DEF Chosen
<1>21. ASSUME q.at = "done" PROVE Whole(q)
  <2>1. DOMAIN q.result = 1..Len(q.hits)
    BY <1>9, <1>19
  <2>2. ASSUME NEW i \in 1..Len(q.hits) PROVE Spans(q, q.hits[i], q.result[i])
    <3>1. PICK c \in All : c = hits[i] /\ q.hits[i] = c /\ q.result[i] = Clipped({c}, most)
      BY <1>9, <1>14, <1>19, <2>2
    <3>2. hits # <<>>
      <4>1. Len(<<>>) = 0
        BY EmptySeq
      <4> QED BY <1>19, <2>2, <4>1
    <3>3. q.window = 0
      BY <1>16, <1>19, <1>21, <3>2
    <3>4. \A n \in (c[2] - 0)..(c[2] + 0) : <<c[1], n>> = c
      BY <1>1, Chunk
    <3>5. c[2] \in (c[2] - 0)..(c[2] + 0)
      BY <1>1, Chunk
    <3>6. Reads(q, c, {c})
      BY <3>3, <3>4, <3>5 DEF Reads
    <3>7. Shows(Clipped({c}, most), {c})
      BY <1>1, Clipping
    <3> QED BY <3>1, <3>6, <3>7 DEF Spans
  <2> QED BY <1>1, <1>18, <1>20, <2>1, <2>2, WholeFrom
<1>22. q.at = "neighbours" => k = "manual" /\ w >= 1
  BY <1>5, <1>16, <1>19
<1>23. Good(k, q)
  BY <1>5, <1>13, <1>19, <1>20, <1>21, <1>22 DEF Good
<1>24. To(k, q) /\ UNCHANGED <<layout, shown>>
  BY <1>4 DEF q, hits, Rerank
<1> QED BY <1>18, <1>23, <1>24, StepFind

LEMMA FailsFinds == ASSUME FindInv, NEW k \in Kinds, Fails(k) PROVE FindInv'
<1> DEFINE f == [NoFind EXCEPT !.at = "failed"]
<1>1. To(k, f) /\ UNCHANGED <<layout, shown>>
  BY DEF Fails
<1>2. f \in FindRow
  BY Nothing DEF FindRow
<1>3. Good(k, f)
  BY Nothing
<1> HIDE DEF f
<1> QED BY <1>1, <1>2, <1>3, StepFind

\* What is around the hits is read later; they are still in service unless there was a change.
LEMMA AttachFinds == ASSUME FindInv, AttachNeighbours PROVE FindInv'
<1> DEFINE k      == "manual"
           f      == find[k]
<1>0. PICK most \in MaxChars :
         To(k, [f EXCEPT !.at = "done",
                         !.result = [i \in DOMAIN f.hits |-> Clipped(Expanded(f.hits[i], f.window), most)]])
  BY DEF AttachNeighbours
<1> DEFINE result == [i \in DOMAIN f.hits |-> Clipped(Expanded(f.hits[i], f.window), most)]
           q      == [f EXCEPT !.at = "done", !.result = result]
<1>1. k \in Kinds /\ f \in FindRow /\ Good(k, f) /\ f.at = "neighbours" /\ layout \in Layouts
  BY DEF FindInv, AttachNeighbours, Kinds
<1>2. To(k, q) /\ UNCHANGED <<layout, shown>>
  BY <1>0 DEF AttachNeighbours
<1>3. f.hits \in Seq(All) /\ f.window \in Nat /\ Chosen(f) /\ (f.calm => f.hits \in Seq(Live("manual")))
  BY <1>1 DEF FindRow, Good
<1>4. /\ DOMAIN f.hits = 1..Len(f.hits) /\ Len(f.hits) \in Nat
      /\ \A i \in 1..Len(f.hits) : f.hits[i] \in All /\ (f.calm => f.hits[i] \in Live("manual"))
  BY <1>3, LenProperties, ElementOfSeq
<1>5. result \in Seq(Item)
  <2>1. \A i \in 1..Len(f.hits) : Clipped(Expanded(f.hits[i], f.window), most) \in Item
    BY <1>1, <1>3, <1>4, ExpandedFacts, Clipping
  <2>2. result \in [1..Len(f.hits) -> Item]
    BY <1>4, <2>1
  <2> QED BY <1>4, <2>2, FunSeq
<1>6. DOMAIN result = 1..Len(f.hits) /\ \A i \in 1..Len(f.hits) : result[i] = Clipped(Expanded(f.hits[i], f.window), most)
  BY <1>4
<1> HIDE DEF result
<1>7. q \in FindRow
  BY <1>1, <1>5 DEF FindRow
<1>8. /\ q.at = "done" /\ q.result = result /\ q.hits = f.hits /\ q.window = f.window /\ q.top = f.top
      /\ q.dedup = f.dedup /\ q.fell = f.fell /\ q.agreed = f.agreed /\ q.calm = f.calm
  BY <1>1 DEF FindRow
<1> HIDE DEF q, f
<1>9. Chosen(q)
  BY <1>3, <1>8 DEF Chosen
<1>10. ASSUME NEW i \in 1..Len(q.hits) PROVE Spans(q, q.hits[i], q.result[i])
  <2>1. PICK c \in All, w \in Nat :
           /\ c = q.hits[i] /\ w = q.window /\ q.result[i] = Clipped(Expanded(c, w), most)
           /\ q.calm => c \in Live("manual")
    BY <1>3, <1>4, <1>6, <1>8
  <2>2. Reads(q, c, Expanded(c, w))
    BY <1>1, <2>1, ExpandedFacts DEF Reads
  <2>3. Shows(Clipped(Expanded(c, w), most), Expanded(c, w))
    BY <1>1, ExpandedFacts, Clipping
  <2> QED BY <2>1, <2>2, <2>3 DEF Spans
<1>11. Whole(q)
  <2>1. DOMAIN q.result = 1..Len(q.hits)
    BY <1>6, <1>8
  <2> QED BY <1>1, <1>7, <1>9, <1>10, <2>1, WholeFrom
<1>12. Good(k, q)
  BY <1>8, <1>11 DEF Good
<1> QED BY <1>1, <1>2, <1>7, <1>12, StepFind

LEMMA MoveFinds == ASSUME FindInv, NEW m \in Files, Move(m) PROVE FindInv'
<1>1. find' = [k \in Kinds |-> [find[k] EXCEPT !.calm = FALSE]] /\ layout' = layout
  BY DEF Move
<1>2. ASSUME NEW k \in Kinds PROVE find'[k] \in FindRow /\ Good(k, find[k])'
  <2>1. PICK f \in FindRow : f = find[k] /\ Good(k, f)
    BY DEF FindInv
  <2>2. PICK q : q = find'[k] /\ q = [f EXCEPT !.calm = FALSE]
    BY <1>1, <2>1
  <2>3. /\ q \in FindRow
        /\ q.at = f.at /\ q.top = f.top /\ q.cands = f.cands /\ q.agreed = f.agreed /\ q.hits = f.hits
        /\ q.result = f.result /\ q.window = f.window /\ q.fell = f.fell /\ q.dedup = f.dedup /\ q.calm = FALSE
    BY <2>2 DEF FindRow
  <2>4. (Chosen(f) => Chosen(q)) /\ (Chosen(q)' <=> Chosen(q))
    BY <1>1, <2>3 DEF Chosen, Near, At
  <2>5. Whole(f) => Whole(q)
    BY <2>3 DEF Whole, FromStart, NoGap
  <2>6. Whole(q)' <=> Whole(q)
    BY <1>1, SameLayout
  <2>7. Good(k, q)'
    BY <2>1, <2>3, <2>4, <2>5, <2>6 DEF Good
  <2> QED BY <2>2, <2>3, <2>7
<1>3. find' \in [Kinds -> FindRow']
  <2>1. FindRow' = FindRow
    BY <1>1, SameLayout
  <2>2. find' \in [Kinds -> FindRow]
    <3> DEFINE g(k) == [find[k] EXCEPT !.calm = FALSE]
    <3>1. find' = [k \in Kinds |-> g(k)]
      BY <1>1
    <3> HIDE DEF g
    <3>2. \A k \in Kinds : g(k) \in FindRow
      BY <1>2, <3>1
    <3> QED BY <3>1, <3>2
  <2> QED BY <2>1, <2>2
<1> QED BY <1>1, <1>2, <1>3 DEF FindInv

LEMMA FindStep == FindInv /\ [SearchNext]_searchVars => FindInv'
<1> SUFFICES ASSUME FindInv, [SearchNext]_searchVars PROVE FindInv'
  OBVIOUS
<1>1. CASE UNCHANGED <<layout, shown, find>>
  <2>1. All' = All /\ FindRow' = FindRow /\ \A f : Whole(f)' <=> Whole(f)
    BY <1>1, SameLayout
  <2>2. ASSUME NEW k \in Kinds PROVE Good(k, find[k])'
    <3>1. PICK f : f = find[k] /\ f = find'[k] /\ Good(k, f)
      BY <1>1 DEF FindInv
    <3>2. (Whole(f)' <=> Whole(f)) /\ (Chosen(f)' <=> Chosen(f)) /\ \A j \in Kinds : Live(j)' = Live(j)
      BY <1>1, <2>1 DEF Chosen, Near, At, Live, Chunks
    <3>3. Good(k, f)'
      BY <3>1, <3>2 DEF Good, Kinds
    <3> QED BY <3>1, <3>3
  <2> QED BY <1>1, <2>1, <2>2 DEF FindInv
<1>2. CASE UNCHANGED searchVars
  BY <1>1, <1>2 DEF searchVars
<1>3. ASSUME NEW f \in Manuals, Open(f) PROVE FindInv'
  BY <1>1, <1>3 DEF Open
<1>4. CASE Count
  BY <1>1, <1>4 DEF Count
<1>5. CASE Page
  BY <1>1, <1>5 DEF Page
<1> QED
  BY <1>2, <1>3, <1>4, <1>5, AskFinds, CandidatesFind, RerankFinds, FailsFinds, AttachFinds, MoveFinds DEF SearchNext

\* The inductive invariant of the searches: at each stage what the next one relies on, and in
\* the end a whole answer.
THEOREM SearchesInStep == SearchSpec => []FindInv
BY FindInit, FindStep, PTL DEF SearchSpec

\* An answer of either search is whole, but for what it says is cut: for any manuals and records,
\* any number of axes' finds and any order among equal scores, whatever the reranker answers, any
\* window and any limit of a text, and whatever the administrators publish, withdraw or delete
\* between the statements.
THEOREM AnswersWhole == SearchSpec => []ResultsWhole
<1>1. FindInv => ResultsWhole
  BY DEF FindInv, Good, ResultsWhole
<1> QED BY <1>1, SearchesInStep, PTL
=============================================================================
