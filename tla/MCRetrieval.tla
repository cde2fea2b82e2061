---------------------------- MODULE MCRetrieval ----------------------------
EXTENDS Embedding, Search
CONSTANTS f1, v1, v2

\* A procedure of four chunks, of one document or of two; two or three of them may be alike. With its
\* neighbours a chunk may be longer than a text may be, also before the hit.
Doc(docs, sims, sizes) == [i \in 1..Len(docs) |-> [doc |-> docs[i], sim |-> sims[i], size |-> sizes[i]]]
Single(sim) == Doc(<<"a">>, <<sim>>, <<1>>)
Procedures  == {Doc(<<"a", "a", "a", "a">>, <<0, 3, 6, 9>>, <<1, 3, 1, 1>>), Doc(<<"a", "a", "a", "b">>, <<0, 3, 4, 8>>, <<1, 1, 1, 1>>)}
Long        == {Doc(<<"a", "a", "a">>, <<0, 3, 6>>, z) : z \in [1..3 -> {1, 4, 7}]}
MCLayouts   == {(f1 :> p) @@ (v1 :> Single(0)) @@ (v2 :> Single(1)) : p \in Procedures \cup Long}

\* A behaviour is about the calls of the embedding server, or one search, or one reading.
vars == <<embedVars, searchVars>>
Searching == \E k \in Kinds : find[k].at # "idle"
Reading   == reader.at # "idle"
ForReading == layout[f1] \in Long
AnyLayout == CHOOSE l \in MCLayouts : TRUE

Bounds ==
    /\ Reading => ForReading /\ ~Searching
    /\ Searching => ~ForReading /\ (find["manual"].at = "idle" \/ find["voc"].at = "idle")

MCInit == EmbedInit /\ SearchInit
MCNext ==
    \/ EmbedNext /\ ~Searching /\ ~Reading /\ moves = 0 /\ layout = AnyLayout /\ shown = Files /\ UNCHANGED searchVars
    \/ SearchNext /\ calls = 0 /\ setting = [server |-> 1, model |-> 1] /\ Bounds' /\ UNCHANGED embedVars
MCSpec == MCInit /\ [][MCNext]_vars
=============================================================================
