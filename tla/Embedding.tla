------------------------------ MODULE Embedding ------------------------------
(***************************************************************************)
(* embed_texts, _embed_batch and embed_text (src/shared/db.py): texts are  *)
(* embedded in batches; a batch that fails is tried again text by text,    *)
(* and failures in a row give up.  The model, the server and the cache key *)
(* are read from the settings at different times, between awaits.  A       *)
(* vector is modelled by what produced it.  A text stands for what is left *)
(* of it after the cut to embed_max_chars.                                 *)
(***************************************************************************)
EXTENDS Naturals, Sequences

CONSTANTS
    Callers,    \* uploads and queries that want vectors, at the same time
    Texts,      \* texts
    Bad,        \* those the embedding server refuses
    MaxLen,     \* bound on the texts of a call
    Batch,      \* batch_size
    MaxFailures, \* max_consecutive_failures
    MaxSetting, \* bound on the changes of a setting
    MaxFaults,  \* bound on the failures of the network, the server and the cache
    MaxCalls,   \* bound on the calls
    None

ASSUME EmbeddingAssumption ==
    /\ Bad \subseteq Texts
    /\ None \notin [server : 1..MaxSetting, model : 1..MaxSetting, text : Texts]
    /\ {Batch, MaxFailures, MaxSetting} \subseteq Nat \ {0} /\ {MaxLen, MaxFaults, MaxCalls} \subseteq Nat

VARIABLES
    setting,    \* vllm_embed_base_url and vllm_embed_model
    cache,      \* Redis
    embed,      \* the calls
    faults, calls,
    mixed       \* history: a setting has changed in the middle of a call

embedVars == <<setting, cache, embed, faults, calls, mixed>>

Setting == [server : 1..MaxSetting, model : 1..MaxSetting]
Vector  == [server : 1..MaxSetting, model : 1..MaxSetting, text : Texts]
Key     == Vector   \* the sha256 of server, model, dimension, policy and text
NoCall  == [at |-> "idle", texts |-> <<>>, out |-> <<>>, single |-> 0, failed |-> 0, model |-> 0, redis |-> FALSE,
            part |-> <<>>, keys |-> <<>>, vecs |-> <<>>, began |-> [server |-> 1, model |-> 1], hit |-> FALSE]

EmbedInit ==
    /\ setting = [server |-> 1, model |-> 1]
    /\ cache = [k \in Key |-> None]
    /\ embed = [c \in Callers |-> NoCall]
    /\ faults = 0 /\ calls = 0 /\ mixed = FALSE
-----------------------------------------------------------------------------
Active(c) == embed[c].at \notin {"idle", "returned", "raised"}
Calls(c, rec) == embed' = [embed EXCEPT ![c] = rec]

Begin(c) ==
    /\ ~Active(c) /\ calls < MaxCalls /\ calls' = calls + 1
    /\ \E n \in 1..MaxLen : \E ts \in [1..n -> Texts] :
         Calls(c, [NoCall EXCEPT !.at = "model", !.texts = ts, !.began = setting])
    /\ UNCHANGED <<setting, cache, faults, mixed>>

\* the next batch, or after a failed one the next text up to its end (single)
Part(e) ==
    LET from == Len(e.out) + 1
        upto == IF e.single > 0 THEN from ELSE from + Batch - 1
    IN  SubSeq(e.texts, from, IF upto < Len(e.texts) THEN upto ELSE Len(e.texts))

\* whether Redis is used: it may be switched off, or left alone for a minute after a failure
RedisThere == BOOLEAN

ReadModel(c) ==
    /\ embed[c].at = "model"
    /\ \E r \in RedisThere :
         LET part == Part(embed[c])
         IN  Calls(c, [embed[c] EXCEPT !.at = "keys", !.part = part, !.model = setting.model, !.redis = r, !.keys = <<>>,
                                       !.vecs = <<>>])
    /\ UNCHANGED <<setting, cache, faults, calls, mixed>>

FullKey(e, t) == [server |-> setting.server, model |-> e.model, text |-> t]
ServerOnly(e, t) == [server |-> setting.server, model |-> 1, text |-> t]     \* mutant: no model in the key
CacheKey(e, t) == FullKey(e, t)

\* a text is looked up; an error of Redis counts as a miss, and so does an entry that has expired
LookUp(c) ==
    LET e == embed[c]
        i == Len(e.keys) + 1
    IN  /\ e.at = "keys" /\ i <= Len(e.part)
        /\ \E found \in {None} \cup (IF e.redis THEN {cache[CacheKey(e, e.part[i])]} ELSE {}) :
             /\ faults' = faults + IF e.redis /\ found = None /\ cache[CacheKey(e, e.part[i])] # None THEN 1 ELSE 0
             /\ faults' <= MaxFaults
             /\ Calls(c, [e EXCEPT !.keys = Append(@, IF e.redis /\ found = None THEN CacheKey(e, e.part[i]) ELSE None),
                                   !.vecs = Append(@, found)])
        /\ UNCHANGED <<setting, cache, calls, mixed>>

\* the places of the part that are sent to the server, in their order
Todo(e) == {i \in 1..Len(e.part) : e.vecs[i] = None}

\* The part is finished, or failed: a batch falls back to single texts, a text stays without.
Succeed(e) == [e EXCEPT !.out = @ \o e.vecs, !.failed = 0,
                        !.at = IF Len(e.out) + Len(e.part) = Len(e.texts) THEN "returned" ELSE "model",
                        !.single = IF @ > Len(e.out) + 1 THEN @ ELSE 0]
Fail(e, fault) ==
    IF e.single = 0
    THEN [e EXCEPT !.at = "model", !.single = Len(e.out) + Len(e.part), !.hit = @ \/ fault]
    ELSE [e EXCEPT !.out = Append(@, None), !.failed = @ + 1, !.hit = @ \/ fault,
                   !.at = IF e.failed + 1 >= MaxFailures THEN "raised"
                          ELSE IF Len(e.out) + 1 = Len(e.texts) THEN "returned" ELSE "model",
                   !.single = IF @ > Len(e.out) + 1 THEN @ ELSE 0]

\* The answer has an item for every place asked for: where that of pos is expected stands that of
\* order[pos].  The server may order the items as it likes if it numbers them.
Orders(todo) == {q \in [todo -> todo] : \A i \in todo : \E pos \in todo : q[pos] = i}
ServerAnswers(todo) ==
    {[index |-> TRUE, order |-> q] : q \in Orders(todo)} \cup {[index |-> FALSE, order |-> [i \in todo |-> i]]}
ByIndex(a, pos)    == IF a.index THEN a.order[pos] ELSE pos
ByPosition(a, pos) == pos       \* mutant: the answer is taken in the order it comes
Place(a, pos)      == ByIndex(a, pos)

Placed(e, todo, a) ==
    LET of(pos) == [server |-> setting.server, model |-> e.model, text |-> e.part[a.order[pos]]]
    IN  [i \in 1..Len(e.part) |->
            IF e.vecs[i] # None THEN e.vecs[i] ELSE of(CHOOSE pos \in todo : Place(a, pos) = i)]

Post(c) ==
    LET e == embed[c]
        todo == Todo(e)
    IN  /\ e.at = "keys" /\ Len(e.keys) = Len(e.part)
        /\ \/ todo = {} /\ Calls(c, Succeed(e)) /\ UNCHANGED faults
           \/ (\E i \in todo : e.part[i] \in Bad) /\ Calls(c, Fail(e, FALSE)) /\ UNCHANGED faults
           \/ todo # {} /\ faults < MaxFaults /\ faults' = faults + 1 /\ Calls(c, Fail(e, TRUE))
           \/ /\ todo # {} /\ (\A i \in todo : e.part[i] \notin Bad) /\ UNCHANGED faults
              /\ \E a \in ServerAnswers(todo) : Calls(c, [e EXCEPT !.at = "store", !.vecs = Placed(e, todo, a)])
        /\ UNCHANGED <<setting, cache, calls, mixed>>

\* what was asked for, one after the other; an error of Redis ends it
Store(c) ==
    LET e == embed[c]
    IN  /\ e.at = "store" /\ Calls(c, Succeed(e))
        /\ \E n \in 0..Len(e.keys) :
             /\ cache' = [k \in Key |-> IF \E i \in 1..n : e.keys[i] = k THEN e.vecs[CHOOSE i \in 1..n : e.keys[i] = k]
                                      ELSE cache[k]]
             /\ faults' = faults + (IF n < Len(e.keys) THEN 1 ELSE 0) /\ faults' <= MaxFaults
        /\ UNCHANGED <<setting, calls, mixed>>

\* the administrator, or the settings cache that catches up
ChangeSetting ==
    /\ \E s \in Setting : setting' = s /\ s # setting /\ s.server >= setting.server /\ s.model >= setting.model
    /\ mixed' = (mixed \/ \E c \in Callers : Active(c))
    /\ UNCHANGED <<cache, embed, faults, calls>>

EmbedNext == (\E c \in Callers : Begin(c) \/ ReadModel(c) \/ LookUp(c) \/ Post(c) \/ Store(c)) \/ ChangeSetting
EmbedSpec == EmbedInit /\ [][EmbedNext]_embedVars
-----------------------------------------------------------------------------
\* What embed_texts returns has one place for every text; the vector there is of that text,
\* whatever came from the cache, in whatever order the server answered, and, unless a setting
\* has changed in the middle of a call, of the server and model of its start; a place is empty
\* only for a text that was refused, or after a failure.
VectorsFit ==
    \A c \in Callers : LET e == embed[c] IN e.at = "returned" =>
        /\ Len(e.out) = Len(e.texts)
        /\ \A i \in 1..Len(e.out) :
             /\ e.out[i] = None => e.texts[i] \in Bad \/ e.hit
             /\ e.out[i] # None => e.out[i].text = e.texts[i]
             /\ e.out[i] # None /\ ~mixed => <<e.out[i].server, e.out[i].model>> = <<e.began.server, e.began.model>>

\* Taken alone, the key "invalidates the cache when the model changes" (_cache_key): not even
\* after a change in the middle of a call does a later call get a vector of another model.
CacheFits == \A k \in Key : cache[k] # None => cache[k] = k
=============================================================================
