------------------------------- MODULE Search -------------------------------
(***************************************************************************)
(* Search in the manuals and the VOC records (manual_search.py,            *)
(* voc_search.py, rerank in db.py, mmr_dedup in retrieval.py), reading on  *)
(* in a manual (get_document, manual_mcp/server.py), and the administrators*)
(* who publish, withdraw and delete between the statements of a search.    *)
(* A chunk is a pair of its file and its number; a VOC record is a file of *)
(* one chunk, of the size of the longer of its question and answer.  What  *)
(* an axis finds, and in which order, is any choice.                       *)
(***************************************************************************)
EXTENDS Integers, FiniteSets, Sequences, SequencesExt

CONSTANTS
    Manuals,    \* files of manuals
    Records,    \* VOC records
    Layouts,    \* the possible contents: file -> sequence of [doc, sim, size]
    Limit,      \* LIMIT of an axis (50 in the code)
    Common,     \* a common multiple of the denominators 60 + rank, to add fractions
    MaxTopK,    \* search_max_top_k
    MaxCandidates, \* search_max_candidates
    MaxWindow,  \* manual_neighbor_window (0..3 in the code)
    MaxChars,   \* values of manual_result_max_chars and voc_result_max_chars; 0: nothing is cut
    MaxAnswer,  \* bound on the items the reranker answers
    PageLimit,  \* limit of get_document
    PageSize,   \* its max_chars
    CutMin,     \* the least rest that is filled with the beginning of a chunk (200)
    MaxMoves,   \* bound on the administrators' changes
    Nil

Files == Manuals \cup Records

ASSUME SearchAssumption ==
    /\ Manuals \cap Records = {} /\ Nil \notin Files
    /\ \A l \in Layouts : /\ DOMAIN l = Files /\ \A f \in Files : l[f] \in Seq(Range(l[f]))
                         /\ \A f \in Files : \A i \in 1..Len(l[f]) : l[f][i].sim \in Int
                         /\ \A r \in Records : Len(l[r]) = 1
    /\ {MaxTopK, MaxCandidates, PageLimit} \subseteq Nat \ {0}
    /\ Limit \in Nat /\ Common \in Nat \ {0} /\ \A n \in 1..Limit : Common % (60 + n) = 0
    /\ {MaxWindow, MaxAnswer} \subseteq Nat /\ MaxChars \subseteq Nat
    /\ CutMin < PageSize    \* get_document raises max_chars to 500

VARIABLES
    layout, shown,  \* the chunks; the manuals in service and the records there are
    moves,
    find,           \* the search in the manuals and the one in the records
    reader          \* an agent that reads a manual page by page

searchVars == <<layout, shown, moves, find, reader>>

Kinds   == {"manual", "voc"}
NoFind  == [at |-> "idle", top |-> 0, cands |-> <<>>, agreed |-> Nil, hits |-> <<>>, result |-> <<>>, window |-> 0,
            fell |-> FALSE, dedup |-> TRUE, calm |-> TRUE]
NoRead  == [at |-> "idle", file |-> Nil, offset |-> 0, total |-> 0, got |-> <<>>, calm |-> TRUE]

SearchInit ==
    /\ layout \in Layouts /\ shown \in {Files} \cup {Files \ {f} : f \in Manuals} /\ moves = 0
    /\ find = [k \in Kinds |-> NoFind] /\ reader = NoRead

At(c)    == layout[c[1]][c[2]]
Chunks(F) == UNION {{<<f, i>> : i \in 1..Len(layout[f])} : f \in F}
Live(k)  == Chunks((IF k = "manual" THEN Manuals ELSE Records) \cap shown)
Least(a, b) == IF a < b THEN a ELSE b
Clamp(n, most) == IF Least(n, most) < 1 THEN 1 ELSE Least(n, most)
First(s, n) == SubSeq(s, 1, Least(n, Len(s)))

\* lists of at most n members of S, none twice
Lists(S, n) == UNION {{s \in [1..m -> S] : \A i, j \in 1..m : s[i] = s[j] => i = j} : m \in 0..n}
\* S in an order in which an earlier one Precedes every later one
Sorted(S, Precedes(_, _)) ==
    LET n == Cardinality(S)
    IN  {s \in [1..n -> S] : Range(s) = S /\ \A i, j \in 1..n : i < j => Precedes(s[i], s[j])}
-----------------------------------------------------------------------------
(***************************************************************************)
(* Reciprocal rank fusion: every axis orders what it finds, a chunk gets   *)
(* 1/(60 + rank) from each                                                 *)
(***************************************************************************)
Weight(r) == Common \div (60 + r)
Gives(axis, c) == LET at == {i \in DOMAIN axis : axis[i] = c} IN IF at = {} THEN 0 ELSE Weight(CHOOSE i \in at : TRUE)
Score(axes, c) == Gives(axes[1], c) + Gives(axes[2], c) + Gives(axes[3], c)
Found(axes)    == Range(axes[1]) \cup Range(axes[2]) \cup Range(axes[3])
\* (the order of equal scores is open)
Fused(axes)    == LET score == [c \in Found(axes) |-> Score(axes, c)]
                  IN  Sorted(Found(axes), LAMBDA c, d : score[c] >= score[d])

\* what is first on every axis that finds anything
Agreed(axes) ==
    LET best == {c \in Found(axes) : \A i \in 1..3 : axes[i] = <<>> \/ axes[i][1] = c}
    IN  IF best = {} THEN Nil ELSE CHOOSE c \in best : TRUE

To(k, f) == find' = [find EXCEPT ![k] = f]

Ask(k) ==
    /\ find[k].at = "idle"
    /\ \E n \in 0..(MaxTopK + 1) : To(k, [NoFind EXCEPT !.at = "search", !.top = Clamp(n, MaxTopK)])
    /\ UNCHANGED <<layout, shown, moves, reader>>

\* One statement.  The third axis needs pg_trgm; without a vector only the words count.
Candidates(k) ==
    LET f    == find[k]
        most == Clamp(5 * f.top, MaxCandidates)
        Finds(cands, agreed) ==
            To(k, [f EXCEPT !.cands = cands, !.agreed = agreed, !.at = IF cands = <<>> THEN "done" ELSE "rerank"])
    IN  /\ f.at = "search"
        /\ \/ \E axes \in [1..3 -> Lists(Live(k), Limit)] : \E s \in Fused(axes) : Finds(First(s, most), Agreed(axes))
           \/ \E s \in Lists(Live(k), most) : Finds(s, IF s = <<>> THEN Nil ELSE s[1])
        /\ UNCHANGED <<layout, shown, moves, reader>>

(***************************************************************************)
(* The reranker: any answer, also with numbers that do not exist, here 0,  *)
(* scores below the minimum, here 0, or none; then mmr_dedup leaves out    *)
(* what is like something it has picked                                    *)
(***************************************************************************)
Scorings(n) == UNION {[1..m -> [index : 0..n, score : 0..2]] : m \in 0..MaxAnswer}
Invalid(answer) == \A i \in DOMAIN answer : answer[i].index = 0

\* (the sort is stable)
Reranked(cands, answer) ==
    LET kept == {i \in DOMAIN answer : answer[i].index # 0 /\ answer[i].score > 0}
        Better(i, j) == answer[i].score > answer[j].score \/ (answer[i].score = answer[j].score /\ i < j)
    IN  IF Invalid(answer) THEN {cands}
        ELSE {[i \in DOMAIN s |-> cands[answer[s[i]].index]] : s \in Sorted(kept, Better)}

Near(c, d) == LET x == At(c).sim - At(d).sim IN x \in -1..1

Picks(items) ==
    {P \in SUBSET DOMAIN items : \A i \in DOMAIN items : i \in P <=> \A j \in P : j < i => ~Near(items[j], items[i])}
Deduped(items, on) ==
    IF ~on THEN {items}
    ELSE {[i \in DOMAIN s |-> items[s[i]]] : s \in UNION {Sorted(P, LAMBDA i, j : i < j) : P \in Picks(items)}}

(***************************************************************************)
(* A text longer than the setting is cut there and ends with a notice: what *)
(* is still shown whole are the chunks before the place, and cut says so.   *)
(***************************************************************************)
Length(parts) == MapThenSumSet(LAMBDA c : At(c).size, parts) + Cardinality(parts) - 1   \* joined by "\n"
Shown(parts, texts) == [texts |-> texts, cut |-> texts # parts]
Clipped(parts, most) ==
    LET upto(c) == {d \in parts : d[2] <= c[2]}
        over    == {c \in parts : Length(upto(c)) > most}
    IN  Shown(parts, IF most = 0 THEN parts ELSE {c \in parts : \A d \in over : c[2] < d[2]})

Rerank(k) ==
    LET f == find[k]
    IN  /\ f.at = "rerank"
        /\ \E a \in Scorings(Len(f.cands)), on \in BOOLEAN, most \in MaxChars,
              w \in 0..(IF k = "manual" THEN MaxWindow ELSE 0) :
           \E items \in Reranked(f.cands, a) : \E picked \in Deduped(First(items, 2 * f.top), on) :
             LET hits == First(picked, f.top)
             IN  To(k, [f EXCEPT !.hits = hits, !.fell = Invalid(a), !.dedup = on, !.window = w,
                                 !.at = IF w > 0 /\ hits # <<>> THEN "neighbours" ELSE "done",
                                 !.result = [i \in DOMAIN hits |-> Clipped({hits[i]}, most)]])
        /\ UNCHANGED <<layout, shown, moves, reader>>

(***************************************************************************)
(* A later statement reads the chunks around each hit, in manuals that are *)
(* still in service; the text of another document is left out              *)
(***************************************************************************)
Around(c, w)   == {<<c[1], n>> : n \in (c[2] - w)..(c[2] + w)}
OneSided(c, w) == {<<c[1], n>> : n \in (c[2] - w)..(c[2] + w - 1)}     \* mutant: the range ends one too early
Wanted(c, w)   == Around(c, w)

\* (the texts of the chunks of a result are joined in the order of their numbers)
Expanded(c, w) ==
    LET parts == {n \in Wanted(c, w) \cap Live("manual") : At(n).doc = At(c).doc}
    IN  IF Cardinality(parts) > 1 THEN parts ELSE {c}

AttachNeighbours ==
    LET f == find["manual"]
    IN  /\ f.at = "neighbours"
        /\ \E most \in MaxChars :
              To("manual", [f EXCEPT !.at = "done",
                                     !.result = [i \in DOMAIN f.hits |-> Clipped(Expanded(f.hits[i], f.window), most)]])
        /\ UNCHANGED <<layout, shown, moves, reader>>

\* the database fails: the prefetch of the agent goes on without results
Fails(k) ==
    /\ find[k].at \in {"search", "neighbours"}
    /\ To(k, [NoFind EXCEPT !.at = "failed"])
    /\ UNCHANGED <<layout, shown, moves, reader>>

(***************************************************************************)
(* get_document                                                            *)
(***************************************************************************)
Open(f) ==
    /\ reader.at = "idle" /\ reader' = [NoRead EXCEPT !.at = "count", !.file = f]
    /\ UNCHANGED <<layout, shown, moves, find>>

Count ==
    /\ reader.at = "count"
    /\ reader' = [reader EXCEPT !.at = "rows", !.total = IF reader.file \in shown THEN Len(layout[reader.file]) ELSE 0]
    /\ UNCHANGED <<layout, shown, moves, find>>

Rows       == IF reader.file \notin shown THEN <<>>
              ELSE First(SubSeq(layout[reader.file], reader.offset + 1, Len(layout[reader.file])), PageLimit)
Used(rows) == FoldLeft(LAMBDA sum, c : sum + c.size, 0, rows)

\* next_offset after a page of n chunks
AfterReturned(n) == reader.offset + n
AfterLimit(n)    == reader.offset + PageLimit      \* mutant: chunks left out by max_chars are skipped
NextOffset(n)    == AfterReturned(n)

\* whole chunks as long as they fit, then the beginning of the next one if enough room is left
Page ==
    LET rows  == Rows
        fits(n) == Used(First(rows, n + 1)) <= PageSize     \* chunk n + 1 still fits
        whole == CHOOSE n \in 0..Len(rows) : (n = Len(rows) \/ ~fits(n)) /\ \A m \in 0..(n - 1) : fits(m)
        cut   == whole < Len(rows) /\ PageSize - Used(First(rows, whole)) > CutMin
        n     == IF cut THEN whole + 1 ELSE whole
    IN  /\ reader.at = "rows"
        /\ reader' = [reader EXCEPT !.got = @ \o [i \in 1..n |-> [chunk |-> reader.offset + i, whole |-> i <= whole]],
                                    !.offset = NextOffset(n),
                                    !.at = IF NextOffset(n) < reader.total \/ whole < Len(rows) THEN "count" ELSE "end"]
        /\ UNCHANGED <<layout, shown, moves, find>>

\* publish, unpublish, delete
Move(f) ==
    /\ moves < MaxMoves /\ moves' = moves + 1
    /\ shown' \in {shown \ {f}} \cup (IF f \in Manuals THEN {shown \cup {f}} ELSE {}) /\ shown' # shown
    /\ find' = [k \in Kinds |-> [find[k] EXCEPT !.calm = FALSE]]
    /\ reader' = [reader EXCEPT !.calm = FALSE]
    /\ UNCHANGED layout

SearchNext ==
    \/ \E k \in Kinds : Ask(k) \/ Candidates(k) \/ Rerank(k) \/ Fails(k)
    \/ AttachNeighbours
    \/ (\E f \in Manuals : Open(f)) \/ Count \/ Page
    \/ \E f \in Files : Move(f)
SearchSpec == SearchInit /\ [][SearchNext]_searchVars
-----------------------------------------------------------------------------
\* what lies between two hits of a document close enough is in some result, unless one of
\* the two says that it is cut
NoGap(f, i, j) ==
    LET c == f.hits[i]
        d == f.hits[j]
    IN  f.calm /\ c[1] = d[1] /\ At(c).doc = At(d).doc /\ d[2] - c[2] \in 1..(2 * f.window + 1) =>
            \A n \in c[2]..d[2] : At(<<c[1], n>>).doc = At(c).doc =>
                \/ \E m \in DOMAIN f.result : <<c[1], n>> \in f.result[m].texts
                \/ f.result[i].cut \/ f.result[j].cut

\* what is shown of a result is the text of one document around the hit from its beginning
\* on, and the hit itself, unless the result says that it is cut
FromStart(f, i) ==
    LET c == f.hits[i]
        r == f.result[i]
    IN  /\ \A d \in r.texts : d[1] = c[1] /\ At(d).doc = At(c).doc
        /\ f.calm => \A d \in r.texts : \A n \in 1..d[2] :
              n >= c[2] - f.window /\ At(<<c[1], n>>).doc = At(c).doc => <<c[1], n>> \in r.texts
        /\ r.cut \/ c \in r.texts

Whole(f) ==
    LET r == f.result
    IN  /\ Len(r) <= f.top
        /\ f.dedup => \A i, j \in DOMAIN r : i # j => ~Near(f.hits[i], f.hits[j])
        /\ \A i \in DOMAIN r : FromStart(f, i)
        /\ \A i, j \in DOMAIN r : NoGap(f, i, j)
        /\ f.fell /\ f.agreed # Nil => f.hits[1] = f.agreed

\* An answer has at most top_k results and, unless that is switched off, no two near-duplicates;
\* every text is of one document, without a gap from its beginning on, and contains its hit or
\* says that it is cut; two hits of a document close enough are joined by what lies between
\* them, or one of their texts says that it is cut, so that no step of a procedure is left out
\* unsaid (unless the manual was withdrawn meanwhile); and without the reranker, what every
\* axis puts first is the first result.
ResultsWhole == \A k \in Kinds : find[k].at = "done" => Whole(find[k])

\* A result should show the chunk that was found.  The text is cut after the neighbours before
\* the hit were joined to it.
HitShown == \A k \in Kinds : find[k].at = "done" => \A i \in DOMAIN find[k].result : find[k].hits[i] \in find[k].result[i].texts

\* And the chunk between two hits should be there (_attach_neighbors: no step is lost).
StepsShown ==
    \A i, j \in DOMAIN find["manual"].result :
        LET f == find["manual"]
            c == f.hits[i]
            d == f.hits[j]
        IN  f.at = "done" /\ f.calm /\ c[1] = d[1] /\ d[2] - c[2] = 2 /\ f.window > 0 =>
                LET between == <<c[1], c[2] + 1>> IN
                At(between).doc = At(c).doc => \E m \in DOMAIN f.result : between \in f.result[m].texts

\* Who reads a manual from page to page by next_offset until there is no more has got every chunk,
\* or its beginning, once and in order (unless the manual was published or withdrawn meanwhile).
ReadsThrough ==
    reader.at = "end" /\ reader.calm /\ reader.file \in shown =>
        [i \in DOMAIN reader.got |-> reader.got[i].chunk] = [i \in 1..Len(layout[reader.file]) |-> i]

\* Read "in order, on and on" (get_document) should also mean: with all the text.
NothingCut == reader.at = "end" => \A i \in DOMAIN reader.got : reader.got[i].whole

\* Switched off, the removal of near-duplicates also lets the same chunk through twice.
NoneTwice == \A k \in Kinds : \A i, j \in DOMAIN find[k].hits : find[k].hits[i] = find[k].hits[j] => i = j
=============================================================================
